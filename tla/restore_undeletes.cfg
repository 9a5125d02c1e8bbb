\* A file is deleted after the dump and its object not yet removed.
CONSTANTS
  u1 = u1
  p1 = p1
  Files = {f1}
  Users = {u1}
  Projects = {p1}
  Items = {}
  Calls = {c1}
  Workers = {w1}
  OwnerOf <- MCOwnerOf
  NoFile = NoFile
SPECIFICATION RestoreSpec
SYMMETRY Symmetric
INVARIANT DeletedFilesStayDeleted
CHECK_DEADLOCK FALSE
