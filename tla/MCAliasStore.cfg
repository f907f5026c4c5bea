SPECIFICATION Spec
CONSTANTS
  a0 = a0
  a1 = a1
  a2 = a2
  b0 = b0
  i = i
  j = j
  None = None
  Threads = {p1, p2}
  Kinds = {"m"}
  Ids = {a0, a1, a2, b0}
  Items = {i, j}
  Owner <- MCOwner
  Pages <- MCPages
  MaxAlias = 3
SYMMETRY MCSymmetry
INVARIANTS AliasNamesOneItem
PROPERTIES ImplementsRegistry
CHECK_DEADLOCK FALSE
