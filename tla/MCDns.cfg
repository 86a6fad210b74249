SPECIFICATION Spec
CONSTANTS
  NULL = NULL
  Garbled = Garbled
  a1 = a1
  a2 = a2
  n1 = n1
  Thread = {t1, t2}
  Address = {a1, a2}
  Host <- Hosts
  IntMax = 4
  MaxEntries = 3
  MaxLookups = 6
CHECK_DEADLOCK FALSE
SYMMETRY ThreadSymmetry
INVARIANTS EntriesKept SameAnswer NameSound
