SPECIFICATION Spec
CONSTANTS
  t1 = t1
  t2 = t2
  k1 = k1
  k2 = k2
  k3 = k3
  None = None
  Thread = {t1, t2}
  Key = {k1, k2, k3}
  Data = {a, b}
  HashFunc <- Hashes
  Marks <- Quarters
  InitSize = 1
  Ops <- MapOps
  MaxCalls = 2
  MaxEntries = 4
CHECK_DEADLOCK FALSE
INVARIANTS TypeOK EntriesExact
PROPERTIES ImplementsMap
