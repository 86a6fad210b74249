SPECIFICATION Spec
CONSTANTS
  BufSize = 3
  NameMax = 2
  Printable <- PrintableChars
  Letter <- Letters
  Command <- Commands
  NUL = NUL
  Sendable <- EditBytes
  MaxBytes = 5
CHECK_DEADLOCK FALSE
INVARIANTS TypeOK BufferClean NameValid
PROPERTIES LoginLasts ImplementsLineBuffer
