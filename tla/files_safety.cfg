\* Two files, two requests and a worker.
CONSTANTS
  u1 = u1
  p1 = p1
  Files = {f1, f2}
  Users = {u1}
  Projects = {p1}
  Items = {}
  Calls = {c1, c2}
  Workers = {w1}
  OwnerOf <- MCOwnerOf
  NoFile = NoFile
SPECIFICATION Spec
SYMMETRY Symmetric
INVARIANT RemovedObjectsAreQueued
INVARIANT AcknowledgedUploadsKept
INVARIANT CoverSurvives
PROPERTY LifeSpec
CHECK_DEADLOCK FALSE
