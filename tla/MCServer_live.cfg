SPECIFICATION FairSpec
CONSTANTS
  NULL = NULL
  Stdin = Stdin
  Lost = Lost
  Listener = {l1}
  Player = {p1, p2}
  Fd <- Descriptors
  Addresses = 2
  MaxConns = 2
  MaxHangUps = 2
CHECK_DEADLOCK FALSE
PROPERTIES Departs AcceptorReturns
