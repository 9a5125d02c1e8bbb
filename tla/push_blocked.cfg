\* One new cost item; the other member has two devices, no stream is open.
CONSTANTS
  People = {u1, u2}
  Projects = {j1}
  Streams = {}
  Changes = {e1}
  Devices = {d1, d2}
  NoPerson = NoPerson
  NoProject = NoProject
  EveryProject = EveryProject
  Buffer = 1
  MaxStreams = 2
  MaxPerPerson = 1
SPECIFICATION RealtimeSpec
INVARIANT EveryMemberIsPushed
CHECK_DEADLOCK FALSE
