SPECIFICATION Spec
CONSTANTS
  t1 = t1
  t2 = t2
  k1 = k1
  k2 = k2
  k3 = k3
  None = None
  Thread = {t1, t2}
  Key = {k1, k2, k3}
  Data = {a}
  HashFunc <- Hashes
  Marks <- Quarters
  InitSize = 1
  Ops <- FreezeOps
  MaxCalls = 3
  MaxEntries = 6
CHECK_DEADLOCK FALSE
PROPERTIES FrozenMeansNoResize
