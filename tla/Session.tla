------------------------------ MODULE Session ------------------------------
(***************************************************************************)
(* One connection: the thread that runs socket_select for a player, with   *)
(* process_input, login_get_name and process_command, and the peer at the  *)
(* other end of the socket.                                                *)
(*                                                                         *)
(* The thread reads as many bytes as FIONREAD announced, one by one, edits *)
(* p->ibuffer with them, and hands the buffer to p->f_mode when P_READY is *)
(* set.  The peer sends, hangs up and resets at any time in between.       *)
(* Whatever is written to the peer is left out.                            *)
(***************************************************************************)
EXTENDS Integers, Sequences, FiniteSets

CONSTANTS
  BufSize,     \* sizeof(p->ibuffer)
  NameMax,     \* the longest name login_get_name takes
  Printable,   \* the bytes 32 to 126
  Letter,      \* those isalpha accepts
  Command,     \* command_hash: the command each command line names
  NUL,
  Sendable,    \* the bytes this peer sends
  MaxBytes     \* bound: how many bytes the peer sends

\* The other bytes process_input tells apart.  OTHER is DO, DONT, WONT, WILL, SB
\* and SE; BS is 8 and 127; CTL is any byte without a case of its own.
Special == {"IAC", "AYT", "IP", "EC", "EL", "BREAK", "OTHER", "CR", "LF", "BS", "CTL"}
Byte    == Printable \cup Special

ASSUME BufSizeNat   == BufSize \in Nat \ {0}
ASSUME NameMaxFits  == NameMax \in 1..(BufSize - 1)
ASSUME LetterType   == Letter \subseteq Printable
ASSUME NulNotByte   == NUL \notin Byte
ASSUME PrintableOwn == Printable \cap Special = {}
ASSUME CommandType  == \A l \in DOMAIN Command : Command[l] \in {"command_who", "command_quit"}
ASSUME SendableType == Sendable \subseteq Byte
ASSUME MaxBytesNat  == MaxBytes \in Nat

VARIABLES
  rx,            \* the socket's receive queue
  eof, err,      \* the peer has closed; a reset not yet reported by read
  sent,          \* number of bytes the peer has sent
  pc,            \* where the thread is
  size, c,       \* locals of process_input
  ibuffer, ptr,  \* p->ibuffer and p->ibuffer_ptr
  flags,         \* p->flags
  f_mode, name,  \* p->f_mode and p->name
  unserved       \* history: a line end was read and f_mode was not called since

peerVars == <<rx, eof, err, sent>>
vars == <<peerVars, pc, size, c, ibuffer, ptr, flags, f_mode, name, unserved>>

Index == 0..(BufSize - 1)
Flag  == {"LOGGED_IN", "P_LAST_R", "P_LAST_N", "P_READY"}

\* The player's fields and the locals of process_input have their types;
\* ibuffer_ptr never passes the end of ibuffer.
TypeOK ==
  /\ rx \in Seq(Byte)
  /\ eof \in BOOLEAN
  /\ err \in BOOLEAN
  /\ sent \in 0..MaxBytes
  /\ pc \in {"welcome", "select", "read", "iac", "dispatch", "closed"}
  /\ size \in Int
  /\ c \in Byte \cup {NUL}
  /\ ibuffer \in [Index -> Printable \cup {NUL}]
  /\ ptr \in 0..BufSize
  /\ flags \in SUBSET Flag
  /\ f_mode \in {"login_get_name", "process_command"}
  /\ name \in Seq(Printable)
  /\ unserved \in BOOLEAN

\* player_new, and the assignments of socket_pthread_per_accept.
Init ==
  /\ rx = <<>>
  /\ eof = FALSE
  /\ err = FALSE
  /\ sent = 0
  /\ pc = "welcome"
  /\ size = 0
  /\ c = NUL
  /\ ibuffer = [i \in Index |-> NUL]
  /\ ptr = 0
  /\ flags = {}
  /\ f_mode = "login_get_name"
  /\ name = <<>>
  /\ unserved = FALSE

-----------------------------------------------------------------------------
(* The peer and the network *)

PeerSends(b) ==
  /\ ~eof /\ pc # "closed"
  /\ sent < MaxBytes
  /\ rx' = Append(rx, b)
  /\ sent' = sent + 1
  /\ UNCHANGED <<eof, err, pc, size, c, ibuffer, ptr, flags, f_mode, name, unserved>>

\* The peer closes, or resets the connection: then one read fails first.
PeerLeaves(reset) ==
  /\ ~eof /\ pc # "closed"
  /\ eof' = TRUE
  /\ err' = reset
  /\ UNCHANGED <<rx, sent, pc, size, c, ibuffer, ptr, flags, f_mode, name, unserved>>

-----------------------------------------------------------------------------
(* The line buffer *)

\* Mutant: the erased byte stays in the buffer.
EraseChar_KeepsByte == ptr' = (IF ptr > 0 THEN ptr - 1 ELSE 0) /\ UNCHANGED ibuffer

EraseChar ==
  LET q == IF ptr > 0 THEN ptr - 1 ELSE 0
  IN  ptr' = q /\ ibuffer' = [ibuffer EXCEPT ![q] = NUL]

\* Mutant: memset with the size of a pointer in place of the buffer's.
ClearBuffer_FirstByte == ptr' = 0 /\ ibuffer' = [ibuffer EXCEPT ![0] = NUL]

ClearBuffer == ptr' = 0 /\ ibuffer' = [i \in Index |-> NUL]

\* Mutant: the bound is the size of the buffer, not its last index.
TypeChar_OffByOne(b) ==
  IF ptr > BufSize
  THEN ClearBuffer
  ELSE ptr' = ptr + 1 /\ ibuffer' = [ibuffer EXCEPT ![ptr] = b]

TypeChar(b) ==
  IF ptr > BufSize - 1
  THEN ClearBuffer
  ELSE ptr' = ptr + 1 /\ ibuffer' = [ibuffer EXCEPT ![ptr] = b]

\* The first ptr bytes: what a mode function is told to look at.
Line == [i \in 1..ptr |-> ibuffer[i - 1]]

\* The characters before the first NUL: what the loop of login_get_name sees.
Visible == {i \in Index : \A j \in 0..i : ibuffer[j] # NUL}

-----------------------------------------------------------------------------
(* The thread *)

\* shutdown, close, removal from the lists, free; pthread_exit always follows.
player_close ==
  pc' = "closed" /\ UNCHANGED <<size, c, ibuffer, ptr, flags, f_mode, name, unserved>>

\* The banner and the first prompt.
login_welcome ==
  pc' = "select" /\ UNCHANGED <<size, c, ibuffer, ptr, flags, f_mode, name, unserved>>

\* socket_select up to its loop; pthread_detach may fail.
Welcome ==
  /\ pc = "welcome"
  /\ player_close \/ login_welcome
  /\ UNCHANGED peerVars

\* Mutant: an end of file is not told from a timeout.
Select_IgnoresEof ==
  /\ pc = "select"
  /\ rx # <<>>
  /\ pc' = "read"
  /\ size' = Len(rx)
  /\ UNCHANGED <<peerVars, c, ibuffer, ptr, flags, f_mode, name, unserved>>

\* select returns with the socket readable and process_input asks FIONREAD how
\* much there is; nothing means that the peer has gone.
Select ==
  /\ pc = "select"
  /\ rx # <<>> \/ eof
  /\ IF rx = <<>>
     THEN player_close
     ELSE /\ pc' = "read"
          /\ size' = Len(rx)
          /\ UNCHANGED <<c, ibuffer, ptr, flags, f_mode, name, unserved>>
  /\ UNCHANGED peerVars

\* select or ioctl fails.
SelectFails ==
  /\ pc = "select"
  /\ player_close
  /\ UNCHANGED peerVars

\* socket_read yields the byte b.  Its result is a size_t, so the -1 of a failed
\* read passes the callers' test <= 0 and c keeps its old value.
socket_read(b) ==
  /\ \/ rx # <<>> /\ b = Head(rx) /\ rx' = Tail(rx) /\ UNCHANGED err
     \/ rx = <<>> /\ err /\ b = c /\ err' = FALSE /\ UNCHANGED rx
  /\ c' = b
  /\ UNCHANGED <<eof, sent, f_mode, name>>

\* read returns 0, in the loop or after IAC.
ReadEnd ==
  /\ pc = "iac" \/ (pc = "read" /\ size # 0)
  /\ rx = <<>> /\ eof /\ ~err
  /\ player_close
  /\ UNCHANGED peerVars

\* Mutant: what a byte clears is all that a line end sets.
FlagsAfter_ForgetsReady(b) ==
  CASE b = "LF" -> IF "P_LAST_R" \in flags THEN flags ELSE flags \cup {"P_READY", "P_LAST_N"}
    [] b = "CR" -> IF "P_LAST_N" \in flags THEN flags ELSE flags \cup {"P_READY", "P_LAST_R"}
    [] b = "OTHER" -> flags
    [] OTHER -> flags \ {"P_READY", "P_LAST_N", "P_LAST_R"}

\* What a byte other than IAC, IP and BREAK does to the flags ...
FlagsAfter(b) ==
  CASE b = "LF" -> IF "P_LAST_R" \in flags THEN flags ELSE flags \cup {"P_READY", "P_LAST_N"}
    [] b = "CR" -> IF "P_LAST_N" \in flags THEN flags ELSE flags \cup {"P_READY", "P_LAST_R"}
    [] b = "OTHER" -> flags
    [] OTHER -> flags \ {"P_LAST_N", "P_LAST_R"}

\* ... and to the buffer.
EditLine(b) ==
  \/ b \in Printable /\ TypeChar(b)
  \/ b = "BS" /\ EraseChar
  \/ b \notin Printable \cup {"BS"} /\ UNCHANGED <<ibuffer, ptr>>

\* One byte in the loop of process_input.
ReadByte(b) ==
  /\ pc = "read" /\ size # 0
  /\ socket_read(b)
  /\ unserved' = (unserved \/ b \in {"CR", "LF"})
  /\ \/ /\ b \in {"BREAK", "IP"}
        /\ pc' = "closed"
        /\ UNCHANGED <<size, ibuffer, ptr, flags>>
     \/ /\ b = "IAC"
        /\ pc' = "iac"
        /\ UNCHANGED <<size, ibuffer, ptr, flags>>
     \/ /\ b \notin {"BREAK", "IP", "IAC"}
        /\ flags' = FlagsAfter(b)
        /\ EditLine(b)
        /\ size' = size - 1
        /\ UNCHANGED pc

\* Mutant: the byte after IAC is not counted.
ReadOption_Uncounted(b) ==
  /\ pc = "iac"
  /\ socket_read(b)
  /\ pc' = IF b = "IP" THEN "closed" ELSE "read"
  /\ size' = size - 1
  /\ UNCHANGED <<ibuffer, ptr, flags, unserved>>

\* The byte after IAC.  It is counted by its own size-- and IAC by the loop's.
ReadOption(b) ==
  /\ pc = "iac"
  /\ socket_read(b)
  /\ pc' = IF b = "IP" THEN "closed" ELSE "read"
  /\ size' = size - 2
  /\ \/ b = "EC" /\ EraseChar
     \/ b = "EL" /\ ClearBuffer
     \/ b \notin {"EC", "EL"} /\ UNCHANGED <<ibuffer, ptr>>
  /\ UNCHANGED <<flags, unserved>>

\* process_input returns to socket_select.
EndInput ==
  /\ pc = "read" /\ size = 0
  /\ pc' = IF "P_READY" \in flags THEN "dispatch" ELSE "select"
  /\ UNCHANGED <<peerVars, size, c, ibuffer, ptr, flags, f_mode, name, unserved>>

\* Mutants: the length is not limited; the mode is not changed.
login_get_name_AnyLength ==
  IF ptr > 0 /\ \A i \in Visible : ibuffer[i] \in Letter
  THEN /\ name' = Line
       /\ f_mode' = "process_command"
       /\ flags' = flags \cup {"LOGGED_IN"}
  ELSE UNCHANGED <<name, f_mode, flags>>
login_get_name_KeepsMode ==
  IF ptr > 0 /\ ptr <= NameMax /\ \A i \in Visible : ibuffer[i] \in Letter
  THEN /\ name' = Line
       /\ flags' = flags \cup {"LOGGED_IN"}
       /\ UNCHANGED f_mode
  ELSE UNCHANGED <<name, f_mode, flags>>

login_get_name ==
  IF /\ ptr > 0
     /\ ptr <= NameMax
     /\ \A i \in Visible : ibuffer[i] \in Letter
  THEN /\ name' = Line
       /\ f_mode' = "process_command"
       /\ flags' = flags \cup {"LOGGED_IN"}
  ELSE UNCHANGED <<name, f_mode, flags>>

\* The command process_command finds in command_hash.
Named(command) == ptr > 0 /\ Line \in DOMAIN Command /\ Command[Line] = command

\* f_mode returns to socket_select: the buffer starts afresh, P_READY stays.
\* Commands other than quit, and lines that name none, only write to the peer.
Dispatch ==
  /\ pc = "dispatch"
  /\ \/ f_mode = "login_get_name" /\ login_get_name
     \/ /\ f_mode = "process_command" /\ ~Named("command_quit")
        /\ UNCHANGED <<name, f_mode, flags>>
  /\ ClearBuffer
  /\ unserved' = FALSE
  /\ pc' = "select"
  /\ UNCHANGED <<peerVars, size, c>>

command_quit ==
  /\ pc = "dispatch"
  /\ f_mode = "process_command" /\ Named("command_quit")
  /\ player_close
  /\ UNCHANGED peerVars

Step ==
  \/ Select
  \/ ReadEnd
  \/ \E b \in Byte \cup {NUL} : ReadByte(b) \/ ReadOption(b)
  \/ EndInput
  \/ Dispatch
  \/ command_quit

Next ==
  \/ Welcome
  \/ Step
  \/ SelectFails
  \/ \E b \in Sendable : PeerSends(b)
  \/ \E reset \in BOOLEAN : PeerLeaves(reset)

Spec == Init /\ [][Next]_vars

\* The thread runs on whenever it is not blocked in select or read.
FairSpec == Spec /\ WF_vars(Welcome) /\ WF_vars(Step)

-----------------------------------------------------------------------------
(* Properties *)

\* The bytes from ibuffer_ptr on are NUL and those before are not, so the length
\* that process_input counts, the string that login_get_name scans and the bytes
\* that it copies are the same, after any mix of editing, overflow and dispatch.
BufferClean == \A i \in Index : ibuffer[i] = NUL <=> i >= ptr

\* process_command runs for those only who have passed login_get_name with a
\* non-empty alphabetic name of at most NameMax letters.
NameValid ==
  /\ f_mode = "process_command" <=> "LOGGED_IN" \in flags
  /\ "LOGGED_IN" \in flags <=> name # <<>>
  /\ Len(name) <= NameMax
  /\ \A i \in 1..Len(name) : name[i] \in Letter

\* FIONREAD's count never exceeds what is left in the queue, so reading never
\* blocks with input still to process, except after an IAC that was the last byte
\* counted: from there on the count is negative.
CountAgrees ==
  /\ pc = "read" => size <= Len(rx)
  /\ pc = "iac" => size - 1 <= Len(rx)

\* A session never quits on behalf of a peer that has not logged in, and one that
\* has logged in keeps its name: no later line renames it.
LoginLasts ==
  [][/\ "LOGGED_IN" \in flags => "LOGGED_IN" \in flags' /\ name' = name
     /\ pc = "dispatch" /\ pc' = "closed" => "LOGGED_IN" \in flags]_vars

\* The thread of a peer that hangs up ends, wherever the hang-up finds it.
HangUpCloses == eof ~> pc = "closed"

\* IAC was the last byte of what FIONREAD counted.
CutInOption == pc = "iac" /\ size = 1

\* A line end that process_input has read, of whichever kind and whatever follows it in the
\* same input, comes to f_mode without waiting for more from the peer, unless the input
\* was cut inside a telnet option.
LineServed ==
  (pc = "read" /\ unserved /\ size >= 0) ~> (pc \in {"dispatch", "closed"} \/ CutInOption)

\* The buffer as a C string: the characters before the first NUL.
CString == [i \in 1..Cardinality(Visible) |-> ibuffer[i - 1]]

Editor == INSTANCE LineBuffer WITH line <- CString, Limit <- BufSize

\* As a C string the buffer is the line that was typed: every byte, erasure,
\* overflow and dispatch is one step of LineBuffer, or none.
ImplementsLineBuffer == Editor!Spec
=============================================================================
