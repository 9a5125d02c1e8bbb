CONSTANTS
  \* SMS login
  Phones = {p1, p2}
  Remotes = {m1}
  Codes = {c1, c2}
  Requests = {x1, x2}
  NoCode = NoCode
  NoPhone = NoPhone
  NoRemote = NoRemote
  PhoneLimit <- MCPhoneLimit
  RemoteLimit <- MCRemoteLimit
  Window <- MCWindow
  Cooldown = 2
  CodeLife = 2
  RequestLife = 1
  Retention = 2
  CodeRetention = 0
  MaxAttempts = 1
  MaxTries = 3
  MaxTime = 3
  \* sessions
  Accounts = {a1}
  Sessions = {s1, s2, s3, s4}
  Handlers = {x1, x2}
  NoAccount = NoAccount
  NoSession = NoSession
  MaxActive = 2
  MaxTokens = 3
  \* live updates
  People = {x1, x2}
  Projects = {j1}
  Streams = {t1, t2}
  Changes = {e1, e2}
  Devices = {t1, t2}
  NoPerson = NoPerson
  NoProject = NoProject
  EveryProject = EveryProject
  Buffer = 1
  MaxStreams = 2
  MaxPerPerson = 1
  \* storage-migrate, in scaled sizes: two plans need larger parts than usual
  Keys = {t1, t2}
  Sizes = {0, 7, 8, 19, 25, 30, 31}
  MiB = 2
  SinglePut = 7
  MinPart = 4
  DefaultPart = 6
  MaxPart = 10
  MaxParts = 3
  NoObject = NoObject
  \* paid periods: an ordinary year, a leap year, and the year before 2100
  FirstYears = {2027, 2028, 2099}
  MaxMonths = 26
SPECIFICATION MCSpec
SYMMETRY Symmetric
INVARIANTS
  LoginTypeOK
  RateKept
  DeliveredCodeWorks
  SessionsTypeOK
  SessionsBounded
  RealtimeTypeOK
  EventsStayInside
  ChannelsOpenWhileSending
  WholeObjects
  ActiveFilesServed
  PartsAccepted
  MonthsAreKept
PROPERTIES
  OneTimeSpec
  TokensExchangedOnce
CHECK_DEADLOCK FALSE
