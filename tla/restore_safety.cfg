\* One file, two accounts, a backup that runs beside two requests and a worker.
CONSTANTS
  u1 = u1
  p1 = p1
  Files = {f1}
  Users = {u1, u2}
  Projects = {p1}
  Items = {}
  Calls = {c1, c2}
  Workers = {w1}
  OwnerOf <- MCOwnerOf
  NoFile = NoFile
SPECIFICATION RestoreSpec
SYMMETRY Symmetric
INVARIANT RestoreTypeOK
INVARIANT AccountsStayDeleted
INVARIANT RestoredBucketAgrees
INVARIANT JournaledFilesStayDeleted
CHECK_DEADLOCK FALSE
