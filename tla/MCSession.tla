----------------------------- MODULE MCSession -----------------------------
(* Instances of Session for TLC. *)
EXTENDS Session, TLC

\* q is a letter and the command quit, w the command who, 9 is no letter.
PrintableChars == {"q", "w", "9"}
Letters        == {"q", "w"}

\* A peer that edits its lines, and one that speaks telnet.
EditBytes   == {"q", "9", "BS", "LF", "IAC", "EC", "EL"}
TelnetBytes == {"q", "LF", "CR", "IAC", "AYT", "IP", "BREAK", "OTHER", "CTL"}

Commands == (<<"q">> :> "command_quit") @@ (<<"w">> :> "command_who")
=============================================================================
