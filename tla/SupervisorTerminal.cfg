\* One agent.send, one run without events.
CONSTANTS
    MaxCalls = 1
    MaxEvents = 0
    CallKinds = {"stream"}
    RunBufCap = 1
    OverLong = {}
    Runs = {r1}
    ToolReqs <- NoTools
    BadReqs = {}
    CallIds = {1}
    CallIdOf <- NoCallIds
    Posts = {}
    Expiries = {}
    ToolBufCap = 1
    MaxSubs = 0
    NoRun = NoRun
    NoReq = 0
    NoCall = 0
SPECIFICATION FairSpec
PROPERTY TerminalClosesStream
CHECK_DEADLOCK FALSE
