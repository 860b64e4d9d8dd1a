\* Three requests of any method, one agent, one run with one event, two tool calls
\* of the same SDK call id.
CONSTANTS
    Runs = {r1}
    ToolReqs = {t1, t2}
    Agents = {a1}
    CallIds = {c1}
    CallIdOf <- SharedCallId
    NoRun = NoRun
    NoAgent = NoAgent
    NoReq = NoReq
    MaxCalls = 3
    MaxEvents = 1
SPECIFICATION RunnerSpec
INVARIANTS RunsTracked SettledOnce
PROPERTIES ProtocolSpec ToolPromiseSettles
CHECK_DEADLOCK FALSE
