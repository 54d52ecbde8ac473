SPECIFICATION Spec
CONSTANTS
  b1 = b1
  r1 = r1
  r2 = r2
  Browsers <- MCBrowsers
  Requests <- MCRequests
  BrowserOf <- MCBrowserOf
  MaxTokens = 3
  NoToken = NoToken
  Codes = {c1, c2}
  Rows = {s1, s2}
  Pairings = {p1, p2}
  Sockets = {k1}
  Nothing = Nothing
  Current = 1
  Latest = 2
  LogDialogs = {d1}
  TestDialogs = {d2}
  MaxCalls = 2
  MaxChannels = 2
  Writers = {w1, w2}
  NoStatus = NoStatus
  Day = 2
  Days = 3
  Heartbeat = 5
  MaxRuns = 1
  MaxSockets = 2
  MaxFetches = 3
  MaxWire = 1
  Jobs = {j1}
  Policies = {q1}
  Agents = {a1}
  Clients = {x1, x2}
  None = None
  Ids = {1}
  Words = {word}
  NoWord = NoWord
  Garbled = Garbled
  Matching <- MCMatching
  MaxLoads = 3
  MaxVisits = 2
  MaxStarts = 2
  MaxDay = 1
  ChartDays = 1
  LastTaken = 1
  JobFor <- MCJobFor
  PageSize = 1
  FirstRows = 3
  MaxRows = 4
  MaxChanges = 1
  MaxGets = 4
  Cards = {1, 2}
  ByName <- MCByName
  Found = {2}
  MaxTaken = 1
  MaxCardGets = 3
  MaxDialogs = 4
INVARIANTS
  ServicesTypeOK
  RotationConserves
  PutOutLeaves
  AgentNeverLost
  LockMeansUpdating
  NothingLeaks
  ToldIsListed
  OnePolicyPerJob
  InUseStays
  ListMatchesHeader
  PagesAgree
PROPERTIES
  LiveTokenKept
  UsedMeansPaired
  TransactionsEnd
  EveryCallSettles
  HistoryCatchesUp
  ViewCatchesUp
CHECK_DEADLOCK FALSE
