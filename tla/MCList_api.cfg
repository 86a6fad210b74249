SPECIFICATION Spec
CONSTANTS
  t1 = t1
  t2 = t2
  t3 = t3
  d1 = d1
  d2 = d2
  NULL = NULL
  Thread = {t1, t2}
  Data = {d1, d2}
  Node = {n1, n2, n3}
  MaxCalls = 3
  Calls <- ApiCalls
SYMMETRY NodeSymmetry
CHECK_DEADLOCK FALSE
INVARIANTS TypeOK CursorSafe RefcountExact Reclaimed WellLinked ScanComplete
PROPERTIES ImplementsLiveList
