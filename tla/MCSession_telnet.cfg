SPECIFICATION FairSpec
CONSTANTS
  BufSize = 2
  NameMax = 1
  Printable <- PrintableChars
  Letter <- Letters
  Command <- Commands
  NUL = NUL
  Sendable <- TelnetBytes
  MaxBytes = 4
CHECK_DEADLOCK FALSE
INVARIANTS CountAgrees
PROPERTIES HangUpCloses LineServed
