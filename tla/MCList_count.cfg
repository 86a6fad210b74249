SPECIFICATION CountFairSpec
CONSTANTS
  t1 = t1
  t2 = t2
  t3 = t3
  d1 = d1
  d2 = d2
  NULL = NULL
  Thread = {t1, t2, t3}
  Data = {d1, d2}
  Node = {n1, n2}
  MaxCalls = 2
  ULongMax = 255
  Calls <- SharedCalls
CHECK_DEADLOCK FALSE
PROPERTIES ListItemsNear DeleteComplete CallsReturn
