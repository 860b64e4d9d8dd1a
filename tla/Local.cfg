\* The components of MCLocal, one at a time; the supervisor's part has two streamed runs
\* of a final message each, no tool calls, and channels of one slot.
SPECIFICATION LocalSpec
SYMMETRY Symmetry
CONSTANTS
  ServerTools = {s1, s2}
  ClientTools = {t1}
  MaxText = 2
  MaxCursorEvents = 4
  NoTool = noTool
  Handlers = {h1, h2}
  Hashes = {p1, p2, p3}
  NoPrefix = noPrefix
  Ttl = 1
  MaxEntries = 2
  MaxClock = 3
  MaxTurns = 4
  HostCalls = {c1, c2}
  Quotas <- SomeQuotas
  CacheTtl = 2
  HttpTimeout = 1
  LastTick = 3
  Callers = {g1, g2}
  MaxVersions = 3
  Accounts = {a1, a2}
  Requests = {q1, q2}
  NoAccount = noAccount
  MaxSwitches = 2
  ToolIds = {i1, i2}
  NoToolCall = noCall
  Capacity = 1
  MaxFrames = 2
  MaxCalls = 2
  MaxEvents = 0
  CallKinds = {"stream"}
  RunBufCap = 1
  OverLong = {"final"}
  Runs = {r1, r2}
  ToolReqs <- NoTools
  BadReqs = {}
  CallIds = {1}
  CallIdOf <- NoCallIds
  Posts = {}
  Expiries = {}
  ToolBufCap = 1
  MaxSubs = 0
  NoRun = NoRun
  NoReq = 0
  NoCall = 0
INVARIANTS
  TextInOrder FailoverIsSafe
  CacheTypeOK RecentIsCached
  QuotaIsRecent AdvertisedIsServed LanesAreLegal
  StaleOnlyByOverlap CatalogIsOwn
  InferenceEnds CallsStartOnce
  StreamInOrder PendingHasCaller SubscriptionOpen
PROPERTY MessageSpec
CHECK_DEADLOCK FALSE
