SPECIFICATION Spec
CHECK_DEADLOCK FALSE
CONSTANTS
  A1 = A1
  A2 = A2
  B1 = B1
  PEs = {A1, A2, B1}
  Labels = {1, 2, 3}
  Members <- MCMembers
  OwnerOf <- MCOwnerOf
  MinSize = 2
  Calls = 2
INVARIANT CatalogExact
