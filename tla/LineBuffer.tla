----------------------------- MODULE LineBuffer -----------------------------
(***************************************************************************)
(* What the input buffer of a player is to the rest of the server: a line  *)
(* that is typed at its end, erased from its end, and that starts afresh   *)
(* when it is taken, killed or overflows.                                  *)
(***************************************************************************)
EXTENDS Integers, Sequences, SequencesExt

CONSTANTS Printable, Limit

VARIABLE line

Init == line = <<>>

Type(b) == Len(line) < Limit /\ line' = Append(line, b)
Erase   == line # <<>> /\ line' = Front(line)
Fresh   == line' = <<>>

Next ==
  \/ \E b \in Printable : Type(b)
  \/ Erase
  \/ Fresh

Spec == Init /\ [][Next]_line
=============================================================================
