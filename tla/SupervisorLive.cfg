\* One unary or drained call, one run with one event and one tool request, one
\* tool subscription, room for one message in every channel.
CONSTANTS
    MaxCalls = 1
    MaxEvents = 1
    CallKinds = {"unary", "drain"}
    RunBufCap = 1
    OverLong = {"event", "final"}
    Runs = {r1}
    ToolReqs <- OneTool
    BadReqs = {}
    CallIds = {1}
    CallIdOf <- OneCallId
    Posts = {}
    Expiries = {}
    ToolBufCap = 1
    MaxSubs = 1
    NoRun = NoRun
    NoReq = 0
    NoCall = 0
SPECIFICATION FairSpec
INVARIANTS NoDoubleClose StreamInOrder
PROPERTIES ShutdownReleasesCallers TimelySubscriptionCloses ToolSpec
CHECK_DEADLOCK FALSE
