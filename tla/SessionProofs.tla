--------------------------- MODULE SessionProofs ---------------------------
(***************************************************************************)
(* Proofs about Session, for every buffer size, name limit, alphabet and   *)
(* command table, and for any number of bytes.                             *)
(***************************************************************************)
EXTENDS Session, SequenceTheorems, FiniteSetTheorems, TLAPS

\* The inductive invariant.  That a name is alphabetic and that a dispatched line
\* has no NUL rest on BufferClean; that the thread does not read past what FIONREAD
\* counted rests on CountAgrees, whose two parts feed each other.  A line end that leaves
\* the flags alone, as the second half of a pair, finds P_READY set by the first.
EndsReady ==
  /\ flags \cap {"P_LAST_R", "P_LAST_N"} # {} => "P_READY" \in flags
  /\ unserved => "P_READY" \in flags

SInv == TypeOK /\ BufferClean /\ NameValid /\ CountAgrees /\ EndsReady

-----------------------------------------------------------------------------
(* The line buffer *)

BufferType == ibuffer \in [Index -> Printable \cup {NUL}] /\ ptr \in 0..BufSize

\* No printable byte is NUL.
LEMMA NulNotPrintable == NUL \notin Printable
BY NulNotByte DEF Byte

\* Erasing a character keeps ibuffer a clean C string.
LEMMA EraseCharClean ==
  ASSUME TypeOK, BufferClean, EraseChar
  PROVE  BufferType' /\ BufferClean'
<1>0. PICK q : q = IF ptr > 0 THEN ptr - 1 ELSE 0
  OBVIOUS
<1>1. q \in Index /\ ptr' = q /\ ibuffer' = [ibuffer EXCEPT ![q] = NUL]
  <2>1. q \in Index
    BY <1>0, BufSizeNat DEF TypeOK, Index
  <2> QED BY <1>0, <2>1 DEF EraseChar
<1>2. BufferType'
  BY <1>1, BufSizeNat DEF TypeOK, BufferType, Index
<1>3. BufferClean'
  BY <1>0, <1>1, BufSizeNat DEF TypeOK, BufferClean, Index
<1> QED BY <1>2, <1>3

\* Clearing leaves an empty C string.
LEMMA ClearBufferClean ==
  ASSUME ClearBuffer
  PROVE  BufferType' /\ BufferClean'
BY BufSizeNat DEF ClearBuffer, BufferType, BufferClean, Index

\* A typed character extends the string, or overflows and clears it.
LEMMA TypeCharClean ==
  ASSUME TypeOK, BufferClean, NEW b \in Printable, TypeChar(b)
  PROVE  BufferType' /\ BufferClean'
<1>1. CASE ptr > BufSize - 1
  BY <1>1, ClearBufferClean DEF TypeChar
<1>2. CASE ~(ptr > BufSize - 1)
  <2>1. ptr \in Index /\ ptr' = ptr + 1 /\ ibuffer' = [ibuffer EXCEPT ![ptr] = b]
    BY <1>2, BufSizeNat DEF TypeChar, TypeOK, Index
  <2>2. BufferType'
    BY <2>1, BufSizeNat DEF TypeOK, BufferType, Index
  <2>3. BufferClean'
    BY <2>1, BufSizeNat, NulNotPrintable DEF TypeOK, BufferClean, Index
  <2> QED BY <2>2, <2>3
<1> QED BY <1>1, <1>2

\* A step that leaves the buffer alone keeps it clean.
LEMMA KeptClean ==
  ASSUME TypeOK, BufferClean, UNCHANGED <<ibuffer, ptr>>
  PROVE  BufferType' /\ BufferClean'
BY DEF TypeOK, BufferType, BufferClean

\* The whole buffer is visible to the loop of login_get_name.
LEMMA LineVisible ==
  ASSUME TypeOK, BufferClean
  PROVE  /\ Line \in Seq(Printable) /\ Len(Line) = ptr
         /\ \A i \in 1..ptr : i - 1 \in Visible /\ Line[i] = ibuffer[i - 1]
<1>1. \A i \in 1..ptr : i - 1 \in Index /\ ibuffer[i - 1] \in Printable
  BY BufSizeNat DEF TypeOK, BufferClean, Index
<1>2. Line \in [1..ptr -> Printable] /\ ptr \in Nat
  BY <1>1 DEF Line, TypeOK
<1>3. Line \in Seq(Printable) /\ Len(Line) = ptr
  BY <1>2, SeqDef
<1>4. ASSUME NEW i \in 1..ptr PROVE i - 1 \in Visible
  <2>1. \A j \in 0..(i - 1) : j \in Index /\ ~(j >= ptr)
    BY <1>4, BufSizeNat DEF TypeOK, Index
  <2>2. \A j \in 0..(i - 1) : ibuffer[j] # NUL
    BY <2>1 DEF BufferClean
  <2> QED BY <1>1, <2>2 DEF Visible
<1> QED BY <1>3, <1>4 DEF Line

-----------------------------------------------------------------------------
(* The actions *)

\* socket_read takes one byte off the queue, or none from an empty one.
LEMMA ReadCount ==
  ASSUME TypeOK, NEW b \in Byte \cup {NUL}, socket_read(b)
  PROVE  /\ rx' \in Seq(Byte) /\ c' = b /\ err' \in BOOLEAN
         /\ Len(rx) \in Nat /\ Len(rx') \in Nat
         /\ \/ Len(rx) > 0 /\ Len(rx') = Len(rx) - 1
            \/ Len(rx) = 0 /\ Len(rx') = 0
<1>1. Len(rx) \in Nat
  BY LenProperties DEF TypeOK
<1>2. CASE rx # <<>> /\ rx' = Tail(rx) /\ UNCHANGED err
  <2>1. /\ Tail(rx) \in Seq(Byte) /\ Len(Tail(rx)) = Len(rx) - 1 /\ Len(rx) > 0
    BY <1>1, <1>2, EmptySeq, HeadTailProperties DEF TypeOK
  <2>2. rx' \in Seq(Byte) /\ Len(rx') = Len(rx) - 1
    BY <1>2, <2>1
  <2>3. c' = b /\ err' \in BOOLEAN
    BY <1>2 DEF socket_read, TypeOK
  <2> QED BY <1>1, <2>1, <2>2, <2>3
<1>3. CASE rx = <<>> /\ err' = FALSE /\ UNCHANGED rx
  <2>1. Len(rx) = 0
    BY <1>3, EmptySeq
  <2>2. rx' \in Seq(Byte) /\ Len(rx') = 0
    BY <1>3, <2>1 DEF TypeOK
  <2>3. c' = b /\ err' \in BOOLEAN
    BY <1>3 DEF socket_read
  <2> QED BY <1>1, <2>1, <2>2, <2>3
<1> QED BY <1>2, <1>3 DEF socket_read

\* One byte in the loop of process_input preserves the invariant.
LEMMA ReadByteInv ==
  ASSUME SInv, NEW b \in Byte \cup {NUL}, ReadByte(b)
  PROVE  SInv'
<1>0. TypeOK /\ BufferClean /\ NameValid /\ CountAgrees /\ EndsReady
  BY DEF SInv
<1>1. /\ pc = "read" /\ size # 0 /\ socket_read(b)
      /\ UNCHANGED <<eof, sent, f_mode, name>>
      /\ unserved' = (unserved \/ b \in {"CR", "LF"})
  BY DEF ReadByte, socket_read
<1>2. /\ rx' \in Seq(Byte) /\ c' = b /\ err' \in BOOLEAN
      /\ Len(rx) \in Nat /\ Len(rx') \in Nat
      /\ \/ Len(rx) > 0 /\ Len(rx') = Len(rx) - 1
         \/ Len(rx) = 0 /\ Len(rx') = 0
  BY <1>0, <1>1, ReadCount
<1>3. CASE b \in {"BREAK", "IP", "IAC"}
  <2>1. pc' \in {"closed", "iac"} /\ UNCHANGED <<size, ibuffer, ptr, flags>>
    BY <1>3 DEF ReadByte
  <2>2. TypeOK'
    BY <1>0, <1>1, <1>2, <2>1 DEF TypeOK
  <2>3. BufferClean' /\ NameValid'
    BY <1>0, <1>1, <2>1 DEF BufferClean, NameValid
  <2>4. CountAgrees'
    BY <1>0, <1>1, <1>2, <2>1 DEF CountAgrees, TypeOK
  <2>5. EndsReady'
    BY <1>0, <1>1, <1>3, <2>1 DEF EndsReady
  <2> QED BY <2>2, <2>3, <2>4, <2>5 DEF SInv
<1>4. CASE b \notin {"BREAK", "IP", "IAC"}
  <2>1. flags' = FlagsAfter(b) /\ EditLine(b) /\ size' = size - 1 /\ pc' = pc
    BY <1>4 DEF ReadByte
  <2>2. BufferType' /\ BufferClean'
    BY <1>0, <2>1, TypeCharClean, EraseCharClean, KeptClean DEF EditLine
  <2>3. /\ flags' \in SUBSET Flag
        /\ "LOGGED_IN" \in flags' <=> "LOGGED_IN" \in flags
    BY <1>0, <2>1 DEF FlagsAfter, TypeOK, Flag
  <2>4. TypeOK'
    BY <1>0, <1>1, <1>2, <2>1, <2>2, <2>3 DEF TypeOK, BufferType
  <2>5. NameValid'
    BY <1>0, <1>1, <2>3 DEF NameValid
  <2>6. CountAgrees'
    BY <1>0, <1>1, <1>2, <2>1 DEF CountAgrees, TypeOK
  <2>7. EndsReady'
    BY <1>0, <1>1, <2>1 DEF EndsReady, FlagsAfter
  <2> QED BY <2>2, <2>4, <2>5, <2>6, <2>7 DEF SInv
<1> QED BY <1>3, <1>4

\* The byte after IAC preserves the invariant.
LEMMA ReadOptionInv ==
  ASSUME SInv, NEW b \in Byte \cup {NUL}, ReadOption(b)
  PROVE  SInv'
<1>0. TypeOK /\ BufferClean /\ NameValid /\ CountAgrees /\ EndsReady
  BY DEF SInv
<1>1. /\ pc = "iac" /\ socket_read(b)
      /\ pc' \in {"closed", "read"} /\ size' = size - 2
      /\ UNCHANGED <<eof, sent, f_mode, name, flags, unserved>>
  BY DEF ReadOption, socket_read
<1>2. /\ rx' \in Seq(Byte) /\ c' = b /\ err' \in BOOLEAN
      /\ Len(rx) \in Nat /\ Len(rx') \in Nat
      /\ \/ Len(rx) > 0 /\ Len(rx') = Len(rx) - 1
         \/ Len(rx) = 0 /\ Len(rx') = 0
  BY <1>0, <1>1, ReadCount
<1>3. BufferType' /\ BufferClean'
  BY <1>0, EraseCharClean, ClearBufferClean, KeptClean DEF ReadOption
<1>4. TypeOK'
  BY <1>0, <1>1, <1>2, <1>3 DEF TypeOK, BufferType
<1>5. NameValid'
  BY <1>0, <1>1 DEF NameValid
<1>6. CountAgrees'
  BY <1>0, <1>1, <1>2 DEF CountAgrees, TypeOK
<1>7. EndsReady'
  BY <1>0, <1>1 DEF EndsReady
<1> QED BY <1>3, <1>4, <1>5, <1>6, <1>7 DEF SInv

\* login_get_name and the commands other than quit preserve the invariant.
LEMMA DispatchInv ==
  ASSUME SInv, Dispatch
  PROVE  SInv'
<1>0. TypeOK /\ BufferClean /\ NameValid /\ CountAgrees /\ EndsReady
  BY DEF SInv
<1>1. /\ pc' = "select" /\ ClearBuffer /\ unserved' = FALSE
      /\ UNCHANGED <<rx, eof, err, sent, size, c>>
  BY DEF Dispatch, peerVars
<1>2. BufferType' /\ BufferClean'
  BY <1>1, ClearBufferClean
<1>3. CountAgrees'
  BY <1>1 DEF CountAgrees
<1>6. (flags' = flags \/ flags' = flags \cup {"LOGGED_IN"}) => EndsReady'
  BY <1>0, <1>1 DEF EndsReady
<1>4. CASE UNCHANGED <<name, f_mode, flags>>
  <2>1. TypeOK' /\ NameValid'
    BY <1>0, <1>1, <1>2, <1>4 DEF TypeOK, BufferType, NameValid
  <2> QED BY <1>2, <1>3, <1>4, <1>6, <2>1 DEF SInv
<1>5. CASE /\ ptr > 0 /\ ptr <= NameMax
           /\ \A i \in Visible : ibuffer[i] \in Letter
           /\ name' = Line /\ f_mode' = "process_command"
           /\ flags' = flags \cup {"LOGGED_IN"}
  <2>1. /\ Line \in Seq(Printable) /\ Len(Line) = ptr
        /\ \A i \in 1..ptr : i - 1 \in Visible /\ Line[i] = ibuffer[i - 1]
    BY <1>0, LineVisible
  <2>2. TypeOK'
    BY <1>0, <1>1, <1>2, <1>5, <2>1 DEF TypeOK, BufferType, Flag
  <2>3. Line # <<>>
    BY <1>0, <1>5, <2>1, EmptySeq DEF TypeOK
  <2>4. NameValid'
    BY <1>0, <1>5, <2>1, <2>3 DEF NameValid
  <2> QED BY <1>2, <1>3, <1>5, <1>6, <2>2, <2>4 DEF SInv
<1> QED BY <1>4, <1>5 DEF Dispatch, login_get_name

\* player_close, wherever it is called, and the steps that move only pc and size.
LEMMA QuietInv ==
  ASSUME SInv,
         UNCHANGED <<rx, sent, c, ibuffer, ptr, flags, f_mode, name, unserved>>,
         eof' \in BOOLEAN, err' \in BOOLEAN, size' \in Int,
         \/ pc' = pc /\ size' = size
         \/ pc' \in {"select", "dispatch", "closed"}
         \/ pc' = "read" /\ size' = Len(rx)
  PROVE  SInv'
<1>1. TypeOK'
  BY DEF SInv, TypeOK
<1>2. BufferClean' /\ NameValid' /\ EndsReady'
  BY DEF SInv, BufferClean, NameValid, EndsReady
<1>3. CountAgrees'
  BY LenProperties DEF SInv, TypeOK, CountAgrees
<1> QED BY <1>1, <1>2, <1>3 DEF SInv

\* A byte that arrives only lengthens the queue.
LEMMA PeerSendsInv ==
  ASSUME SInv, NEW b \in Sendable, PeerSends(b)
  PROVE  SInv'
<1>0. TypeOK /\ BufferClean /\ NameValid /\ CountAgrees /\ EndsReady
  BY DEF SInv
<1>1. b \in Byte
  BY SendableType
<1>2. rx' \in Seq(Byte) /\ Len(rx') = Len(rx) + 1 /\ Len(rx) \in Nat
  BY <1>0, <1>1 DEF PeerSends, TypeOK
<1>3. TypeOK'
  BY <1>0, <1>2, MaxBytesNat DEF PeerSends, TypeOK
<1>4. BufferClean' /\ NameValid' /\ EndsReady'
  BY <1>0 DEF PeerSends, BufferClean, NameValid, EndsReady
<1>5. CountAgrees'
  BY <1>0, <1>2 DEF PeerSends, CountAgrees, TypeOK
<1> QED BY <1>3, <1>4, <1>5 DEF SInv

-----------------------------------------------------------------------------
(* The theorems *)

\* player_new establishes the inductive invariant.
LEMMA InitInv == Init => SInv
<1> SUFFICES ASSUME Init PROVE SInv
  OBVIOUS
<1>1. TypeOK
  <2>1. rx \in Seq(Byte) /\ name \in Seq(Printable)
    BY EmptySeq DEF Init
  <2>2. ibuffer \in [Index -> Printable \cup {NUL}] /\ ptr \in 0..BufSize
    BY BufSizeNat DEF Init
  <2>3. sent \in 0..MaxBytes
    BY MaxBytesNat DEF Init
  <2>4. eof \in BOOLEAN /\ err \in BOOLEAN /\ unserved \in BOOLEAN
    BY DEF Init
  <2>5. /\ pc \in {"welcome", "select", "read", "iac", "dispatch", "closed"}
        /\ size \in Int /\ c \in Byte \cup {NUL} /\ flags \in SUBSET Flag
        /\ f_mode \in {"login_get_name", "process_command"}
    BY DEF Init
  <2> QED BY <2>1, <2>2, <2>3, <2>4, <2>5 DEF TypeOK
<1>2. BufferClean /\ CountAgrees /\ EndsReady
  BY BufSizeNat DEF Init, BufferClean, CountAgrees, EndsReady, Index
<1>3. NameValid
  BY NameMaxFits, BufSizeNat DEF Init, NameValid
<1> QED BY <1>1, <1>2, <1>3 DEF SInv

\* Every step of the thread and of the peer preserves the inductive invariant.
LEMMA NextInv == SInv /\ [Next]_vars => SInv'
<1> SUFFICES ASSUME SInv, [Next]_vars PROVE SInv'
  OBVIOUS
<1>0. eof \in BOOLEAN /\ err \in BOOLEAN /\ size \in Int /\ Len(rx) \in Int
  BY LenProperties DEF SInv, TypeOK
<1>1. ASSUME Welcome PROVE SInv'
  BY <1>0, <1>1, QuietInv DEF Welcome, player_close, login_welcome, peerVars
<1>2. ASSUME Select PROVE SInv'
  BY <1>0, <1>2, QuietInv DEF Select, player_close, peerVars
<1>3. ASSUME SelectFails \/ ReadEnd \/ command_quit PROVE SInv'
  BY <1>0, <1>3, QuietInv DEF SelectFails, ReadEnd, command_quit, player_close, peerVars
<1>4. ASSUME NEW b \in Byte \cup {NUL}, ReadByte(b) PROVE SInv'
  BY <1>4, ReadByteInv
<1>5. ASSUME NEW b \in Byte \cup {NUL}, ReadOption(b) PROVE SInv'
  BY <1>5, ReadOptionInv
<1>6. ASSUME EndInput PROVE SInv'
  BY <1>0, <1>6, QuietInv DEF EndInput, peerVars
<1>7. ASSUME Dispatch PROVE SInv'
  BY <1>7, DispatchInv
<1>8. ASSUME NEW b \in Sendable, PeerSends(b) PROVE SInv'
  BY <1>8, PeerSendsInv
<1>9. ASSUME NEW reset \in BOOLEAN, PeerLeaves(reset) PROVE SInv'
  BY <1>0, <1>9, QuietInv DEF PeerLeaves
<1>10. ASSUME UNCHANGED vars PROVE SInv'
  BY <1>0, <1>10, QuietInv DEF vars, peerVars
<1> QED BY <1>1, <1>2, <1>3, <1>4, <1>5, <1>6, <1>7, <1>8, <1>9, <1>10 DEF Next, Step

\* The inductive invariant holds in every reachable state of a session.
LEMMA Invariance == Spec => []SInv
BY InitInv, NextInv, PTL DEF Spec

\* ibuffer_ptr stays within the buffer: process_input never writes outside it.
THEOREM SessionType == Spec => []TypeOK
<1>1. SInv => TypeOK
  BY DEF SInv
<1> QED BY <1>1, Invariance, PTL

\* ibuffer is a C string of length ibuffer_ptr at every step.
THEOREM SessionBufferClean == Spec => []BufferClean
<1>1. SInv => BufferClean
  BY DEF SInv
<1> QED BY <1>1, Invariance, PTL

\* Only a player with a valid name ever reaches process_command.
THEOREM SessionNameValid == Spec => []NameValid
<1>1. SInv => NameValid
  BY DEF SInv
<1> QED BY <1>1, Invariance, PTL

\* process_input's count of what is left never exceeds the receive queue.
THEOREM SessionCountAgrees == Spec => []CountAgrees
<1>1. SInv => CountAgrees
  BY DEF SInv
<1> QED BY <1>1, Invariance, PTL

\* process_input never ends with a line end that f_mode does not get to see.
THEOREM SessionLineKept == Spec => [][pc = "read" /\ pc' = "select" => ~unserved]_vars
<1>1. SInv /\ [Next]_vars => [pc = "read" /\ pc' = "select" => ~unserved]_vars
  <2> SUFFICES ASSUME SInv, Next, pc = "read", pc' = "select" PROVE ~unserved
    OBVIOUS
  <2>1. EndInput
    BY DEF Next, Step, Welcome, Select, SelectFails, ReadEnd, ReadByte, ReadOption, Dispatch,
       command_quit, PeerSends, PeerLeaves, player_close
  <2> QED BY <2>1 DEF EndInput, SInv, EndsReady
<1> QED BY <1>1, Invariance, PTL DEF Spec

\* A login is for good, and no one quits who has not logged in.
THEOREM SessionLoginLasts == Spec => LoginLasts
<1>1. SInv /\ [Next]_vars =>
        [/\ "LOGGED_IN" \in flags => "LOGGED_IN" \in flags' /\ name' = name
         /\ pc = "dispatch" /\ pc' = "closed" => "LOGGED_IN" \in flags]_vars
  <2> SUFFICES ASSUME SInv, Next
               PROVE  /\ "LOGGED_IN" \in flags => "LOGGED_IN" \in flags' /\ name' = name
                      /\ pc = "dispatch" /\ pc' = "closed" => "LOGGED_IN" \in flags
    OBVIOUS
  <2>0. NameValid /\ TypeOK
    BY DEF SInv
  <2>1. CASE Dispatch
    BY <2>0, <2>1 DEF Dispatch, login_get_name, NameValid
  <2>2. CASE command_quit
    BY <2>0, <2>2 DEF command_quit, player_close, NameValid
  <2>3. ASSUME NEW b \in Byte \cup {NUL}, ReadByte(b) \/ ReadOption(b)
        PROVE  /\ pc # "dispatch" /\ name' = name
               /\ "LOGGED_IN" \in flags => "LOGGED_IN" \in flags'
    BY <2>3 DEF ReadByte, ReadOption, socket_read, FlagsAfter
  <2>4. CASE Welcome \/ Select \/ SelectFails \/ ReadEnd \/ EndInput
    BY <2>4 DEF Welcome, Select, SelectFails, ReadEnd, EndInput, player_close, login_welcome
  <2>5. CASE \E b \in Sendable : PeerSends(b)
    BY <2>5 DEF PeerSends
  <2>6. CASE \E reset \in BOOLEAN : PeerLeaves(reset)
    BY <2>6 DEF PeerLeaves
  <2> QED BY <2>1, <2>2, <2>3, <2>4, <2>5, <2>6 DEF Next, Step
<1> QED BY <1>1, Invariance, PTL DEF Spec, LoginLasts

-----------------------------------------------------------------------------
(* The buffer is the line that was typed *)

\* The C string in the buffer is its first ibuffer_ptr bytes.
LEMMA CStringIsLine ==
  ASSUME TypeOK, BufferClean
  PROVE  CString = Line
<1>1. ptr \in 0..BufSize /\ BufSize \in Nat
  BY BufSizeNat DEF TypeOK
<1>2. Visible = 0..(ptr - 1)
  <2>1. ASSUME NEW i \in Index PROVE (\A j \in 0..i : ibuffer[j] # NUL) <=> i < ptr
    <3>1. \A j \in 0..i : j \in Index /\ (ibuffer[j] # NUL <=> j < ptr)
      BY <1>1 DEF BufferClean, Index
    <3> QED BY <1>1, <3>1 DEF Index
  <2> QED BY <1>1, <2>1 DEF Visible, Index
<1>3. Cardinality(Visible) = ptr
  BY <1>1, <1>2, FS_Interval
<1> QED BY <1>3 DEF CString, Line

\* A character typed is appended, or the full buffer starts afresh.
LEMMA TypeCharLine ==
  ASSUME TypeOK, BufferClean, NEW b \in Printable, TypeChar(b)
  PROVE  \/ Len(Line) < BufSize /\ Line' = Append(Line, b)
         \/ Line' = <<>>
<1>1. CASE ptr > BufSize - 1
  <2>1. ptr' = 0
    BY <1>1 DEF TypeChar, ClearBuffer
  <2> QED BY <2>1 DEF Line
<1>2. CASE ~(ptr > BufSize - 1)
  <2>1. ptr \in Index /\ ptr < BufSize /\ ptr' = ptr + 1 /\ ibuffer' = [ibuffer EXCEPT ![ptr] = b]
    BY <1>2, BufSizeNat DEF TypeChar, TypeOK, Index
  <2>2. Line \in Seq(Printable) /\ Len(Line) = ptr
    BY LineVisible
  <2>3. /\ Append(Line, b) \in Seq(Printable) /\ Len(Append(Line, b)) = ptr + 1
        /\ \A i \in 1..ptr : Append(Line, b)[i] = Line[i]
        /\ Append(Line, b)[ptr + 1] = b
    BY <2>2, AppendProperties
  <2>4. \A i \in 1..ptr : Line[i] = ibuffer[i - 1]
    BY DEF Line
  <2>5. \A i \in 1..(ptr + 1) : Append(Line, b)[i] = ibuffer'[i - 1]
    <3> SUFFICES ASSUME NEW i \in 1..(ptr + 1) PROVE Append(Line, b)[i] = ibuffer'[i - 1]
      OBVIOUS
    <3>0. ptr \in Nat /\ i - 1 \in Index
      BY <2>1, BufSizeNat DEF TypeOK, Index
    <3>1. CASE i = ptr + 1
      BY <2>1, <2>3, <3>0, <3>1 DEF TypeOK
    <3>2. CASE i # ptr + 1
      <4>1. i \in 1..ptr /\ i - 1 # ptr
        BY <3>0, <3>2
      <4> QED BY <2>1, <2>3, <2>4, <3>0, <4>1 DEF TypeOK
    <3> QED BY <3>1, <3>2
  <2>6. Append(Line, b) = [i \in 1..(ptr + 1) |-> ibuffer'[i - 1]]
    BY <2>1, <2>3, <2>5, LenProperties DEF Index
  <2>7. Line' = [i \in 1..(ptr + 1) |-> ibuffer'[i - 1]]
    BY <2>1 DEF Line
  <2> QED BY <2>1, <2>2, <2>6, <2>7
<1> QED BY <1>1, <1>2

\* An erasure takes the last character, if there is one.
LEMMA EraseCharLine ==
  ASSUME TypeOK, BufferClean, EraseChar
  PROVE  \/ Line # <<>> /\ Line' = Editor!Front(Line)
         \/ Line' = Line
<1>0. ptr \in Nat /\ ptr <= BufSize /\ BufSize \in Nat
  BY BufSizeNat DEF TypeOK
<1>1. CASE ptr = 0
  <2>1. ptr' = 0
    BY <1>1 DEF EraseChar
  <2> QED BY <1>1, <2>1 DEF Line
<1>2. CASE ptr > 0
  <2>1. ptr' = ptr - 1 /\ ibuffer' = [ibuffer EXCEPT ![ptr - 1] = NUL]
    BY <1>2 DEF EraseChar
  <2>2. Line \in Seq(Printable) /\ Len(Line) = ptr /\ \A i \in 1..ptr : Line[i] = ibuffer[i - 1]
    BY LineVisible
  <2>3. \A i \in 1..(ptr - 1) : Line[i] \in Printable
    BY <1>0, <2>2, ElementOfSeq
  <2>4. /\ SubSeq(Line, 1, ptr - 1) \in Seq(Printable)
        /\ Len(SubSeq(Line, 1, ptr - 1)) = ptr - 1
        /\ \A i \in 1..(ptr - 1) : SubSeq(Line, 1, ptr - 1)[i] = Line[i]
    BY <1>0, <1>2, <2>3, SubSeqProperties
  <2>5. \A i \in 1..(ptr - 1) : SubSeq(Line, 1, ptr - 1)[i] = ibuffer'[i - 1]
    BY <1>0, <2>1, <2>2, <2>4 DEF TypeOK, Index
  <2>6. SubSeq(Line, 1, ptr - 1) = [i \in 1..(ptr - 1) |-> ibuffer'[i - 1]]
    BY <2>4, <2>5, LenProperties
  <2>7. Line' = [i \in 1..(ptr - 1) |-> ibuffer'[i - 1]]
    BY <2>1 DEF Line
  <2>8. Line # <<>>
    BY <1>2, <2>2
  <2> QED BY <2>2, <2>6, <2>7, <2>8 DEF Editor!Front
<1> QED BY <1>0, <1>1, <1>2

\* Every step of the thread and of the peer is a step of the line editor, or none.
LEMMA EditorStep ==
  ASSUME SInv, [Next]_vars, CString = Line, CString' = Line'
  PROVE  [Editor!Next]_CString
<1>0. TypeOK /\ BufferClean
  BY DEF SInv
<1>2. ASSUME ClearBuffer PROVE Line' = <<>>
  BY <1>2 DEF ClearBuffer, Line
<1>3. ASSUME UNCHANGED <<ibuffer, ptr>> PROVE Line' = Line
  BY <1>3 DEF Line
<1>4. \/ Line' = Line \/ Line' = <<>>
      \/ Line # <<>> /\ Line' = Editor!Front(Line)
      \/ \E b \in Printable : Len(Line) < BufSize /\ Line' = Append(Line, b)
  <2>1. ASSUME NEW b \in Byte \cup {NUL}, ReadByte(b)
        PROVE  \/ Line' = Line
               \/ Line # <<>> /\ Line' = Editor!Front(Line)
               \/ Line' = <<>>
               \/ b \in Printable /\ Len(Line) < BufSize /\ Line' = Append(Line, b)
    <3>1. EditLine(b) \/ UNCHANGED <<ibuffer, ptr>>
      BY <2>1 DEF ReadByte
    <3> QED BY <1>0, <1>3, <3>1, TypeCharLine, EraseCharLine DEF EditLine
  <2>2. ASSUME NEW b \in Byte \cup {NUL}, ReadOption(b)
        PROVE  \/ Line' = Line \/ Line' = <<>>
               \/ Line # <<>> /\ Line' = Editor!Front(Line)
    BY <1>0, <1>2, <1>3, <2>2, EraseCharLine DEF ReadOption
  <2>3. CASE Dispatch
    BY <1>2, <2>3 DEF Dispatch
  <2>4. CASE Welcome \/ Select \/ SelectFails \/ ReadEnd \/ EndInput \/ command_quit
    BY <1>3, <2>4 DEF Welcome, Select, SelectFails, ReadEnd, EndInput, command_quit,
                      player_close, login_welcome
  <2>5. CASE \E b \in Sendable : PeerSends(b)
    BY <1>3, <2>5 DEF PeerSends
  <2>6. CASE \E reset \in BOOLEAN : PeerLeaves(reset)
    BY <1>3, <2>6 DEF PeerLeaves
  <2>7. CASE UNCHANGED vars
    BY <1>3, <2>7 DEF vars
  <2> QED BY <2>1, <2>2, <2>3, <2>4, <2>5, <2>6, <2>7 DEF Next, Step
<1> QED BY <1>4 DEF Editor!Next, Editor!Type, Editor!Erase, Editor!Fresh

\* Whatever is typed, erased, killed, dispatched or overflows, the buffer is a line editor's
\* line.
THEOREM SessionImplementsLineBuffer == Spec => ImplementsLineBuffer
<1>1. Init => Editor!Init
  <2> SUFFICES ASSUME Init PROVE CString = <<>>
    BY DEF Editor!Init
  <2>1. CString = Line
    BY InitInv, CStringIsLine DEF SInv
  <2> QED BY <2>1 DEF Init, Line
<1>2. SInv => CString = Line
  BY CStringIsLine DEF SInv
<1>3. SInv /\ [Next]_vars /\ CString = Line /\ (CString = Line)' => [Editor!Next]_CString
  BY EditorStep
<1> QED BY <1>1, <1>2, <1>3, Invariance, PTL DEF Spec, ImplementsLineBuffer, Editor!Spec
=============================================================================
