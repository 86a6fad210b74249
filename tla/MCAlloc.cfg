SPECIFICATION Spec
CONSTANTS
  None = None
  Obj = {o1, o2, o3}
  Datum = {d1}
  Name = {n1, n2}
  MaxRefs = 2
  MaxAttrs = 2
SYMMETRY AllSymmetry
CHECK_DEADLOCK FALSE
INVARIANTS ReferencesSound NoLeak
PROPERTIES ImplementsAttrMap
