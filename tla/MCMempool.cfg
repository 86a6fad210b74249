SPECIFICATION Spec
CONSTANTS
  NULL = NULL
  Page = {p1, p2, p3, p4}
  Cpp = 3
SYMMETRY PageSymmetry
CHECK_DEADLOCK FALSE
INVARIANTS ChunksExact PoolSound
PROPERTIES Exclusive
