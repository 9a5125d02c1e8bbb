\* A receipt is deleted between its check and its use.
CONSTANTS
  u1 = u1
  p1 = p1
  Files = {f1}
  Users = {u1}
  Projects = {p1}
  Items = {i1}
  Calls = {c1, c2}
  Workers = {w1}
  OwnerOf <- MCOwnerOf
  NoFile = NoFile
SPECIFICATION Spec
SYMMETRY Symmetric
INVARIANT DeletedReceiptsAreDetached
CHECK_DEADLOCK FALSE
