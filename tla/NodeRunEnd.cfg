\* agent.create, agent.send; a run without events and one tool call.
CONSTANTS
    Runs = {r1}
    ToolReqs = {t1}
    Agents = {a1}
    CallIds = {c1}
    CallIdOf <- SharedCallId
    NoRun = NoRun
    NoAgent = NoAgent
    NoReq = NoReq
    MaxCalls = 2
    MaxEvents = 0
SPECIFICATION RunnerSpec
INVARIANT RunEndSettlesTools
CHECK_DEADLOCK FALSE
