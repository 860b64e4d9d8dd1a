\* agent.create, agent.send, agent.close; a run without events.
CONSTANTS
    Runs = {r1}
    ToolReqs = {t1}
    Agents = {a1}
    CallIds = {c1}
    CallIdOf <- SharedCallId
    NoRun = NoRun
    NoAgent = NoAgent
    NoReq = NoReq
    MaxCalls = 3
    MaxEvents = 0
SPECIFICATION RunnerSpec
INVARIANT NoRunOfClosedAgent
CHECK_DEADLOCK FALSE
