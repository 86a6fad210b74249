SPECIFICATION Spec
CONSTANTS
  NULL = NULL
  Stdin = Stdin
  Lost = Lost
  Listener = {l1, l2}
  Player = {p1, p2}
  Fd <- Descriptors
  Addresses = 1
  MaxConns = 2
  MaxHangUps = 0
SYMMETRY AllSymmetry
CHECK_DEADLOCK FALSE
INVARIANTS SharingSound WhoComplete OwnDescriptor NoDescriptorLeak
PROPERTIES WhoSound
