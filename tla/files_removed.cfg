\* One file, the owner of the project and a member, a cost item, two workers.
CONSTANTS
  u1 = u1
  p1 = p1
  Files = {f1}
  Users = {u1, u2}
  Projects = {p1}
  Items = {i1}
  Calls = {c1, c2}
  Workers = {w1, w2}
  OwnerOf <- MCOwnerOf
  NoFile = NoFile
SPECIFICATION FairSpec
INVARIANT AccountLeavesNothing
PROPERTY RemovedObjectsGo
CHECK_DEADLOCK FALSE
