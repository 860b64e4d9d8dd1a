----------------------------- MODULE NodeRunner -----------------------------
(***************************************************************************)
(* node-runner/src: the child process.  A single-threaded event loop that  *)
(* dispatches each request to an async function; the functions interleave  *)
(* wherever they await the SDK.  A step here is what runs between two      *)
(* awaits.  The SDK itself is external: its promises resolve or reject at  *)
(* any time, and its streams yield, end or throw.                          *)
(*                                                                         *)
(* The variables shared with RunnerProtocol are the pipe as the supervisor *)
(* sees it; the others are the runner's own maps and suspended functions.  *)
(***************************************************************************)
EXTENDS RunnerProtocol

CONSTANTS
    Agents,      \* agent ids the SDK may hand out
    NoAgent,
    CallIds,     \* SDK tool call ids
    CallIdOf,    \* the one each tool request carries; two may share one
    NoReq        \* no pending entry

ASSUME RunnerAssumption ==
    NoAgent \notin Agents /\ NoReq \notin ToolReqs /\ CallIdOf \in [ToolReqs -> CallIds]

VARIABLES
    stdin,       \* requests written by the supervisor and not yet dispatched
    method,      \* per request: which method it calls
    agentArg,    \* its agentId, or NoAgent
    runArg,      \* its runId, or NoRun
    task,        \* per request: what its dispatch() is awaiting
    toCancel,    \* agentClose: the snapshot of the agent's runs
    cancelled,   \* agentClose: those whose cancel() has settled
    agents,      \* keys of this.agents
    created,     \* agents the SDK ever created
    runs,        \* this.runs: run -> owning agent, NoAgent when absent
    runAgent,    \* the agent each run was started on
    pump,        \* per run: where pumpStream is
    byId,        \* toolBridge.byId: requests whose promise is pending
    byCallId,    \* toolBridge.byCallId: call id -> pending request, or NoReq
    bridgeRun,   \* the runId a pending entry was filed under
    toolOwner,   \* the run whose SDK invoked the tool
    settles      \* times each execute() promise was settled

taskVars == <<stdin, method, agentArg, runArg, task, toCancel, cancelled>>
agentVars == <<agents, created>>
pumpVars == <<runs, runAgent, pump>>
bridgeVars == <<byId, byCallId, bridgeRun, toolOwner, settles>>
runnerVars == <<kind, childVars, taskVars, agentVars, pumpVars, bridgeVars>>

Methods == {"simple",        \* ping, agent.list, agent.status
            "agent.create", "agent.close", "agent.send", "run.cancel"}
Awaiting == {"create", "send", "replySend", "cancelRuns", "agentClose", "runCancel"}
PumpLive == {"streaming", "waiting", "final"}

RunnerTypeOK ==
    /\ ProtocolTypeOK
    /\ stdin \in Seq(Ids)
    /\ method \in [Ids -> Methods]
    /\ agentArg \in [Ids -> Agents \cup {NoAgent}]
    /\ runArg \in [Ids -> Runs \cup {NoRun}]
    /\ task \in [Ids -> {"none", "done"} \cup Awaiting]
    /\ \A id \in Ids : task[id] = "done" <=> request[id] = "answered"
    /\ toCancel \in [Ids -> SUBSET Runs] /\ cancelled \in [Ids -> SUBSET Runs]
    /\ agents \in SUBSET Agents /\ created \in SUBSET Agents
    /\ runs \in [Runs -> Agents \cup {NoAgent}]
    /\ runAgent \in [Runs -> Agents \cup {NoAgent}]
    /\ pump \in [Runs -> {"none", "over"} \cup PumpLive]
    /\ byId \in SUBSET ToolReqs
    /\ byCallId \in [CallIds -> ToolReqs \cup {NoReq}]
    /\ bridgeRun \in [ToolReqs -> Runs \cup {NoRun}]
    /\ toolOwner \in [ToolReqs -> Runs \cup {NoRun}]
    /\ settles \in [ToolReqs -> Nat]

RunnerInit ==
    /\ ChildInit
    /\ kind = [id \in Ids |-> "unary"]
    /\ stdin = <<>>
    /\ method = [id \in Ids |-> "simple"]
    /\ agentArg = [id \in Ids |-> NoAgent]
    /\ runArg = [id \in Ids |-> NoRun]
    /\ task = [id \in Ids |-> "none"]
    /\ toCancel = [id \in Ids |-> {}] /\ cancelled = [id \in Ids |-> {}]
    /\ agents = {} /\ created = {}
    /\ runs = [r \in Runs |-> NoAgent]
    /\ runAgent = [r \in Runs |-> NoAgent]
    /\ pump = [r \in Runs |-> "none"]
    /\ byId = {}
    /\ byCallId = [c \in CallIds |-> NoReq]
    /\ bridgeRun = [t \in ToolReqs |-> NoRun]
    /\ toolOwner = [t \in ToolReqs |-> NoRun]
    /\ settles = [t \in ToolReqs |-> 0]

-----------------------------------------------------------------------------
(* dispatch()                                                               *)

\* emit({kind: "response"}) or emit({kind: "error"}) ends the dispatch.
Answer(id, type, r) ==
    /\ Write(Frame(type, id, r, 0))
    /\ request' = [request EXCEPT ![id] = "answered"]
    /\ task' = [task EXCEPT ![id] = "done"]

Await(id, what) == task' = [task EXCEPT ![id] = what] /\ UNCHANGED <<stdout, request>>

Alive == child = "running"

\* The supervisor writes a request.  Ids only name requests here, so they are
\* taken in order.
Request(id, m, a, r) ==
    /\ Ask(id)
    /\ \A j \in 1..(id - 1) : request[j] # "none"
    /\ kind' = [kind EXCEPT ![id] = IF m = "agent.send" THEN "stream" ELSE "unary"]
    /\ method' = [method EXCEPT ![id] = m]
    /\ agentArg' = [agentArg EXCEPT ![id] = a]
    /\ runArg' = [runArg EXCEPT ![id] = r]
    /\ stdin' = Append(stdin, id)
    /\ UNCHANGED <<child, stdout, runOf, runState, emitted, toolSent, task, toCancel,
                   cancelled, agentVars, pumpVars, bridgeVars>>

\* The data handler takes the next line and starts its dispatch; the promise is
\* not awaited (`void dispatch(...)`), so the next line does not wait for it.
Take(id, m) ==
    /\ Alive /\ stdin # <<>> /\ id = Head(stdin) /\ method[id] = m
    /\ stdin' = Tail(stdin)
    /\ UNCHANGED <<kind, child, runOf, runState, emitted, toolSent, method, agentArg,
                   runArg, cancelled, agentVars, pumpVars, bridgeVars>>

\* ping, agent.list, agent.status: answered in the same turn.
DispatchSimple(id) ==
    /\ Take(id, "simple")
    /\ \/ Answer(id, "reply", NoRun)
       \/ agentArg[id] \notin agents /\ Answer(id, "fail", NoRun)
    /\ UNCHANGED toCancel

\* agent.create: bad parameters or no API key, else factory.create is awaited.
DispatchCreate(id) ==
    /\ Take(id, "agent.create")
    /\ Answer(id, "fail", NoRun) \/ Await(id, "create")
    /\ UNCHANGED toCancel

\* agent.send: the agent is looked up and the parameters checked, then the
\* agent's send() is awaited.
DispatchSend(id) ==
    /\ Take(id, "agent.send")
    /\ \/ agentArg[id] \in agents /\ Await(id, "send")
       \/ Answer(id, "fail", NoRun)
    /\ UNCHANGED toCancel

\* agent.close: the agent's runs are collected before the first await.
DispatchClose(id) ==
    LET owned == {r \in Runs : runs[r] = agentArg[id]}
    IN  /\ Take(id, "agent.close")
        /\ IF agentArg[id] \in agents
             THEN /\ Await(id, IF owned = {} THEN "agentClose" ELSE "cancelRuns")
                  /\ toCancel' = [toCancel EXCEPT ![id] = owned]
             ELSE Answer(id, "fail", NoRun) /\ UNCHANGED toCancel

\* run.cancel: an unknown run is answered ok.
DispatchCancel(id) ==
    /\ Take(id, "run.cancel")
    /\ IF runArg[id] \in Runs /\ runs[runArg[id]] # NoAgent
         THEN Await(id, "runCancel")
         ELSE Answer(id, "reply", NoRun)
    /\ UNCHANGED toCancel

-----------------------------------------------------------------------------
(* toolBridge                                                               *)

\* Mutant of Settle: clear() forgets byId.
SettleKeepsById(ts) ==
    LET gone == ts \cap byId
    IN  /\ settles' = [t \in ToolReqs |-> IF t \in gone THEN settles[t] + 1 ELSE settles[t]]
        /\ UNCHANGED <<byId, byCallId, bridgeRun, toolOwner>>

\* clear() and resolve(), for every request of ts that is pending.  clear()
\* drops the call id whichever entry it names.
Settle(ts) ==
    LET gone == ts \cap byId
    IN  /\ byId' = byId \ gone
        /\ byCallId' = [c \in CallIds |->
                          IF c \in {CallIdOf[t] : t \in gone} THEN NoReq ELSE byCallId[c]]
        /\ settles' = [t \in ToolReqs |-> IF t \in gone THEN settles[t] + 1 ELSE settles[t]]
        /\ UNCHANGED <<bridgeRun, toolOwner>>

\* rejectRun, for several runs.
RejectRuns(rs) == Settle({t \in byId : bridgeRun[t] \in rs})

\* callExecute: the SDK invokes a custom tool of a run.  The closure was built
\* before the runId was known, so the entry and the request carry "pending".
Execute(t, r) ==
    /\ Alive
    /\ pump[r] = "streaming"
    /\ t \notin toolSent
    /\ toolSent' = toolSent \cup {t}
    /\ byId' = byId \cup {t}
    /\ byCallId' = [byCallId EXCEPT ![CallIdOf[t]] = t]
    /\ toolOwner' = [toolOwner EXCEPT ![t] = r]
    /\ bridgeRun' = [bridgeRun EXCEPT ![t] = NoRun]
    /\ Write(Frame("tool", t, NoRun, 0))
    /\ UNCHANGED <<kind, child, request, runOf, runState, emitted, taskVars, agentVars,
                   pumpVars, settles>>

BridgeStep == Alive /\ UNCHANGED <<kind, childVars, taskVars, agentVars, pumpVars>>

\* handleResponse: the supervisor's answer to the request, perhaps a late one.
HandleResponse(t) == t \in toolSent /\ Settle({t}) /\ BridgeStep

\* handleToolResultNotify names the call id; the entry is the one indexed by it.
HandleToolResultNotify(c) == byCallId[c] # NoReq /\ Settle({byCallId[c]}) /\ BridgeStep

\* Mutant of ToolTimer: the timer looks its entry up by call id.
ToolTimerByCallId(t) == byCallId[CallIdOf[t]] = t /\ Settle({t}) /\ BridgeStep

\* setTimeout of callExecute: settleError by request id.
ToolTimer(t) == t \in byId /\ Settle({t}) /\ BridgeStep

-----------------------------------------------------------------------------
(* What a suspended dispatch does when its promise settles                  *)

Resumed(id, what) == Alive /\ task[id] = what

CreateDone(id) ==
    /\ Resumed(id, "create")
    /\ \/ \E a \in Agents \ created :
             /\ agents' = agents \cup {a} /\ created' = created \cup {a}
             /\ Answer(id, "reply", NoRun)
       \/ UNCHANGED agentVars /\ Answer(id, "fail", NoRun)
    /\ UNCHANGED <<kind, child, runOf, runState, emitted, toolSent, stdin, method, agentArg,
                   runArg, toCancel, cancelled, pumpVars, bridgeVars>>

\* send() resolved: pumpStream is started and the run recorded in one turn.  (A
\* run whose stream() throws at once is a pump that throws before ReplySend.)
SendDone(id, r) ==
    /\ Resumed(id, "send")
    /\ ChildStartRun(id, r)
    /\ pump' = [pump EXCEPT ![r] = "streaming"]
    /\ runs' = [runs EXCEPT ![r] = agentArg[id]]
    /\ runAgent' = [runAgent EXCEPT ![r] = agentArg[id]]
    /\ task' = [task EXCEPT ![id] = "replySend"]
    /\ UNCHANGED <<stdin, method, agentArg, runArg, toCancel, cancelled, agentVars, bridgeVars>>

SendFail(id) ==
    /\ Resumed(id, "send")
    /\ Answer(id, "fail", NoRun)
    /\ UNCHANGED <<kind, child, runOf, runState, emitted, toolSent, stdin, method, agentArg,
                   runArg, toCancel, cancelled, agentVars, pumpVars, bridgeVars>>

\* Mutant of ReplySend: the run is recorded again once the reply is out.
ReplySendSetsRun(id) ==
    /\ Resumed(id, "replySend")
    /\ Answer(id, "reply", runOf[id])
    /\ runs' = [runs EXCEPT ![runOf[id]] = agentArg[id]]
    /\ UNCHANGED <<kind, child, runOf, runState, emitted, toolSent, stdin, method, agentArg,
                   runArg, toCancel, cancelled, agentVars, runAgent, pump, bridgeVars>>

\* dispatch() resumes a microtask later, perhaps behind the pump's first events.
ReplySend(id) ==
    /\ Resumed(id, "replySend")
    /\ Answer(id, "reply", runOf[id])
    /\ UNCHANGED <<kind, child, runOf, runState, emitted, toolSent, stdin, method, agentArg,
                   runArg, toCancel, cancelled, agentVars, pumpVars, bridgeVars>>

\* One cancel() of agentClose's loop settled; after the last, agent.close().
CloseCancelled(id, r) ==
    /\ Resumed(id, "cancelRuns")
    /\ r \in toCancel[id] \ cancelled[id]
    /\ cancelled' = [cancelled EXCEPT ![id] = @ \cup {r}]
    /\ runs' = [runs EXCEPT ![r] = NoAgent]
    /\ IF toCancel[id] \subseteq cancelled'[id] THEN Await(id, "agentClose")
                                                ELSE UNCHANGED <<task, stdout, request>>
    /\ UNCHANGED <<kind, child, runOf, runState, emitted, toolSent, stdin, method, agentArg,
                   runArg, toCancel, agentVars, runAgent, pump, bridgeVars>>

CloseDone(id) ==
    /\ Resumed(id, "agentClose")
    /\ agents' = agents \ {agentArg[id]}
    /\ RejectRuns(toCancel[id])
    /\ Answer(id, "reply", NoRun)
    /\ UNCHANGED <<kind, child, runOf, runState, emitted, toolSent, stdin, method, agentArg,
                   runArg, toCancel, cancelled, created, pumpVars>>

CancelDone(id) ==
    /\ Resumed(id, "runCancel")
    /\ RejectRuns({runArg[id]})
    /\ Answer(id, "reply", NoRun)
    /\ UNCHANGED <<kind, child, runOf, runState, emitted, toolSent, stdin, method, agentArg,
                   runArg, toCancel, cancelled, agentVars, pumpVars>>

-----------------------------------------------------------------------------
(* pumpStream                                                               *)

PumpStep == UNCHANGED <<kind, child, request, runOf, toolSent, taskVars, agentVars,
                        runs, runAgent, bridgeVars>>
PumpGoes(r, from, to) == Alive /\ pump[r] = from /\ pump' = [pump EXCEPT ![r] = to]

\* run.done or run.error
Final(r) ==
    /\ runState' = [runState EXCEPT ![r] = "ended"]
    /\ emitted' = [emitted EXCEPT ![r] = @ + 1]
    /\ Write(Frame("final", 0, r, emitted[r] + 1))

PumpEvent(r) == pump[r] = "streaming" /\ ChildEvent(r)
                 /\ UNCHANGED <<taskVars, agentVars, pumpVars, bridgeVars>>

\* The stream ended: run.wait() is awaited.
PumpEndOfStream(r) == PumpGoes(r, "streaming", "waiting") /\ PumpStep
                       /\ UNCHANGED <<stdout, runState, emitted>>

PumpThrow(r) == PumpGoes(r, "streaming", "final") /\ Final(r) /\ PumpStep

\* Mutant of PumpWaited: no return after the run.error.
PumpWaitedNoReturn(r) ==
    /\ PumpGoes(r, "waiting", "final") \/ PumpGoes(r, "waiting", "waiting")
    /\ Final(r)
    /\ PumpStep

\* wait() resolved: run.done; or rejected: run.error and return.
PumpWaited(r) == PumpGoes(r, "waiting", "final") /\ Final(r) /\ PumpStep

\* streamTask.finally
PumpFinally(r) ==
    /\ PumpGoes(r, "final", "over")
    /\ runs' = [runs EXCEPT ![r] = NoAgent]
    /\ RejectRuns({r})
    /\ UNCHANGED <<kind, childVars, taskVars, agentVars, runAgent>>

-----------------------------------------------------------------------------
\* The supervisor reads a line; the child exits.
ReadLine ==
    /\ stdout # <<>>
    /\ stdout' = Tail(stdout)
    /\ UNCHANGED <<kind, child, request, runOf, runState, emitted, toolSent, taskVars,
                   agentVars, pumpVars, bridgeVars>>
Exit == ChildExit /\ UNCHANGED <<taskVars, agentVars, pumpVars, bridgeVars>>

DispatchStep(id) ==
    \/ DispatchSimple(id) \/ DispatchCreate(id) \/ DispatchSend(id)
    \/ DispatchClose(id) \/ DispatchCancel(id)
ResumeStep(id) ==
    \/ CreateDone(id) \/ SendFail(id) \/ ReplySend(id) \/ CloseDone(id) \/ CancelDone(id)
    \/ \E r \in Runs : SendDone(id, r) \/ CloseCancelled(id, r)
PumpStepOf(r) ==
    \/ PumpEvent(r) \/ PumpEndOfStream(r) \/ PumpThrow(r) \/ PumpWaited(r) \/ PumpFinally(r)
ToolStepOf(t) ==
    \/ HandleResponse(t) \/ ToolTimer(t) \/ \E r \in Runs : Execute(t, r)

RunnerNext ==
    \/ \E id \in Ids : DispatchStep(id) \/ ResumeStep(id)
    \/ \E id \in Ids, m \in Methods, a \in Agents, r \in Runs : Request(id, m, a, r)
    \/ \E r \in Runs : PumpStepOf(r)
    \/ \E t \in ToolReqs : ToolStepOf(t)
    \/ \E c \in CallIds : HandleToolResultNotify(c)
    \/ ReadLine \/ Exit

\* The event loop runs what is due: expired timers, and the microtasks a pump
\* leaves behind.  Nothing is assumed of the SDK's own promises.
RunnerFairness ==
    /\ \A t \in ToolReqs : WF_runnerVars(ToolTimer(t))
    /\ \A r \in Runs : WF_runnerVars(PumpFinally(r))
RunnerSpec == RunnerInit /\ [][RunnerNext]_runnerVars /\ RunnerFairness

-----------------------------------------------------------------------------
(* Properties                                                               *)

\* A run that agent.list counts, and that run.cancel can still reach, is one whose
\* pump is at work; and every run at work is there unless an agent.close has taken
\* it off.  A run recorded after its pump's finally() would stay in the map for
\* ever (runner.ts:291-306).
RunsTracked ==
    \A r \in Runs :
        /\ runs[r] # NoAgent => pump[r] \in PumpLive
        /\ pump[r] \in PumpLive =>
              runs[r] = runAgent[r] \/ \E id \in Ids : r \in cancelled[id]

\* Each execute() promise handed to the SDK is either still pending or has been
\* settled exactly once, whichever of the answer, the tool.result notification,
\* the timer and the end of the run came first, even when the SDK reuses a call
\* id (toolBridge.ts:173-239).
SettledOnce ==
    \A t \in ToolReqs :
        settles[t] = IF t \in toolSent /\ t \notin byId THEN 1 ELSE 0

\* A tool call of the SDK does not hang: its promise settles, whatever the Go
\* side does, unless the process is gone (toolBridge.ts:139-144).
ToolPromiseSettles ==
    \A t \in ToolReqs : t \in byId ~> t \notin byId \/ ~Alive

\* index.ts:185-189: "do NOT parallelize different requests, because agent.send /
\* agent.create can race on the runner's state maps if we let them.  Serial
\* dispatch is what index.ts guarantees."  Then no run is recorded for an agent
\* that agent.close has already dropped.
NoRunOfClosedAgent == \A r \in Runs : runs[r] # NoAgent => runs[r] \in agents

\* runner.ts:298-300: "On completion (success or failure), drop the run record and
\* reject any pending tool.execute promises so a client can't hang forever waiting
\* on a run that already ended."
RunEndSettlesTools ==
    \A r \in Runs : pump[r] = "over" => \A t \in byId : toolOwner[t] # r
=============================================================================
