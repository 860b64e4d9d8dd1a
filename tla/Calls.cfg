\* Tool calls: two requests that share a callId and a malformed one, one run, a tool
\* channel that holds a single request, two subscriptions and two posts, one of them a
\* forced expiry.  Sidecar: two requests for one slot, one proxy with credentials,
\* bodies of two chunks.
CONSTANTS
    Runs = {r1}
    ToolReqs <- Reqs3
    BadReqs = {3}
    CallIds = {1}
    CallIdOf <- SharedCallId
    Posts = {p1, p2}
    Expiries = {p2}
    ToolBufCap = 1
    MaxSubs = 2
    NoRun = NoRun
    NoReq = 0
    NoCall = 0
    Requests = {q1, q2}
    Proxies = {proxy1}
    Direct = direct
    BadProxy = badProxy
    MaxConcurrency = 1
    MaxChunks = 2
SPECIFICATION CallsSpec
INVARIANTS
    RepliedOnce NoStrandedExecute NoOrphanEntry AnswersArePosted SubscribedChannelOpen
    SlotsAreExact WholeOrMarked BridgeStaysOpen
PROPERTIES StopUnwindsHandlers AcceptedIsReplied SlotsComeBack
CHECK_DEADLOCK FALSE
