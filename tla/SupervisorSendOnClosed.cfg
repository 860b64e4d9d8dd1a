\* One call, one run.
CONSTANTS
    MaxCalls = 1
    MaxEvents = 1
    CallKinds = {"unary", "stream"}
    RunBufCap = 1
    OverLong = {}
    Runs = {r1}
    ToolReqs <- NoTools
    BadReqs = {}
    CallIds = {1}
    CallIdOf <- NoCallIds
    Posts = {}
    Expiries = {}
    ToolBufCap = 1
    MaxSubs = 0
    NoRun = NoRun
    NoReq = 0
    NoCall = 0
SPECIFICATION Spec
INVARIANT NoSendOnClosed
CHECK_DEADLOCK FALSE
