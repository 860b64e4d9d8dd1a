-------------------------- MODULE NodeRunnerProofs --------------------------
(***************************************************************************)
(* Proofs about NodeRunner, for any number of requests, agents, runs, tool *)
(* calls and call ids: its invariants, and that it implements the protocol *)
(* the supervisor expects of its child (RunnerProtocol).                   *)
(***************************************************************************)
EXTENDS NodeRunner, TLAPS

(* What a request's dispatch awaits fits the request: it is open, and it has *)
(* started a run exactly when its answer is still to name it.              *)
TaskOK(id) ==
  /\ request[id] = "none" => task[id] = "none"
  /\ request[id] # "none" => (IsSend(id) <=> method[id] = "agent.send")
  /\ task[id] \in Awaiting => request[id] = "open"
  /\ task[id] \in {"send", "replySend"} => method[id] = "agent.send"
  /\ task[id] \in {"create", "cancelRuns", "agentClose", "runCancel"} => method[id] # "agent.send"
  /\ task[id] = "replySend" => runOf[id] # NoRun
  /\ task[id] \notin {"replySend", "done"} => runOf[id] = NoRun

TaskInv == \A id \in Ids : TaskOK(id)

(* A request on stdin is one of its own, and nothing has been done for it.  *)
StdinInv ==
  /\ \A i \in 1 .. Len(stdin) : request[stdin[i]] = "open" /\ task[stdin[i]] = "none"
  /\ \A i, j \in 1 .. Len(stdin) : stdin[i] = stdin[j] => i = j

(* A pump that has not written its run's final notification has a live run. *)
PumpInv == \A r \in Runs : pump[r] \in {"streaming", "waiting"} => runState[r] = "live"

BridgeInv == byId \subseteq toolSent /\ SettledOnce

RunnerInv == RunnerTypeOK /\ TaskInv /\ StdinInv /\ PumpInv /\ RunsTracked /\ BridgeInv

-----------------------------------------------------------------------------
(* The runner starts with nothing in hand. *)
LEMMA RunnerInvInit ==
  ASSUME RunnerInit
  PROVE  RunnerInv
<1>. USE RunnerAssumption, RunAssumption, ProtocolAssumption DEF RunnerInit, ChildInit
<1>1. RunnerTypeOK
  BY DEF RunnerTypeOK, ProtocolTypeOK, Kinds, Methods
<1>2. TaskInv
  BY DEF TaskInv, TaskOK, Awaiting, IsSend
<1>3. StdinInv /\ PumpInv
  BY DEF StdinInv, PumpInv
<1>4. RunsTracked
  BY DEF RunsTracked, PumpLive
<1>5. BridgeInv
  BY DEF BridgeInv, SettledOnce
<1>. QED
  BY <1>1, <1>2, <1>3, <1>4, <1>5 DEF RunnerInv

-----------------------------------------------------------------------------
(* Type correctness. *)

(* dispatch() ends with the answer of its request. *)
LEMMA AnswerTypes ==
  ASSUME RunnerTypeOK, NEW id \in Ids, NEW type \in {"reply", "fail"},
         NEW r \in Runs \union {NoRun}, Answer(id, type, r)
  PROVE  /\ stdout' \in Seq(Frames)
         /\ request' \in [Ids -> {"none", "open", "answered"}]
         /\ task' \in [Ids -> {"none", "done"} \union Awaiting]
         /\ \A j \in Ids : task'[j] = "done" <=> request'[j] = "answered"
<1>1. Frame(type, id, r, 0) \in Frames
  BY DEF Frame, Frames, FrameTypes
<1>2. stdout' \in Seq(Frames)
  BY <1>1 DEF Answer, Write, RunnerTypeOK, ProtocolTypeOK
<1>. QED
  BY <1>2 DEF Answer, RunnerTypeOK, ProtocolTypeOK, Awaiting

(* ... or goes to sleep, which no request that is answered does. *)
LEMMA AwaitTypes ==
  ASSUME RunnerTypeOK, NEW id \in Ids, NEW what \in Awaiting, Await(id, what),
         request[id] # "answered"
  PROVE  /\ stdout' \in Seq(Frames)
         /\ request' \in [Ids -> {"none", "open", "answered"}]
         /\ task' \in [Ids -> {"none", "done"} \union Awaiting]
         /\ \A j \in Ids : task'[j] = "done" <=> request'[j] = "answered"
BY DEF Await, RunnerTypeOK, ProtocolTypeOK, Awaiting

(* The bridge's maps, however many entries are settled at once. *)
LEMMA SettleTypes ==
  ASSUME RunnerTypeOK, NEW ts, Settle(ts)
  PROVE  /\ byId' \in SUBSET ToolReqs
         /\ byCallId' \in [CallIds -> ToolReqs \union {NoReq}]
         /\ bridgeRun' \in [ToolReqs -> Runs \union {NoRun}]
         /\ toolOwner' \in [ToolReqs -> Runs \union {NoRun}]
         /\ settles' \in [ToolReqs -> Nat]
BY DEF Settle, RunnerTypeOK

(* The next line of stdin is a request nothing has been done for. *)
LEMMA TakenIsOpen ==
  ASSUME RunnerInv, stdin # <<>>
  PROVE  /\ Head(stdin) \in Ids
         /\ request[Head(stdin)] = "open" /\ task[Head(stdin)] = "none"
         /\ Tail(stdin) \in Seq(Ids)
BY DEF RunnerInv, RunnerTypeOK, StdinInv

(* Dispatching a request keeps the types. *)
LEMMA DispatchTypes ==
  ASSUME RunnerInv, NEW id \in Ids, DispatchStep(id)
  PROVE  RunnerTypeOK'
<1>1. RunnerTypeOK
  BY DEF RunnerInv
<1>2. PICK m \in Methods : Take(id, m)
  BY Zenon DEF DispatchStep, DispatchSimple, DispatchCreate, DispatchSend, DispatchClose, DispatchCancel,
            Methods
<1>3. request[id] # "answered" /\ stdin' \in Seq(Ids)
  BY <1>2, TakenIsOpen DEF Take
<1>4. \/ \E type \in {"reply", "fail"} : Answer(id, type, NoRun)
      \/ \E what \in Awaiting : Await(id, what)
  BY DEF DispatchStep, DispatchSimple, DispatchCreate, DispatchSend, DispatchClose, DispatchCancel,
         Awaiting
<1>5. /\ stdout' \in Seq(Frames)
      /\ request' \in [Ids -> {"none", "open", "answered"}]
      /\ task' \in [Ids -> {"none", "done"} \union Awaiting]
      /\ \A j \in Ids : task'[j] = "done" <=> request'[j] = "answered"
  BY <1>1, <1>3, <1>4, AnswerTypes, AwaitTypes
<1>6. toCancel' \in [Ids -> SUBSET Runs]
  BY <1>1 DEF RunnerTypeOK, DispatchStep, DispatchSimple, DispatchCreate, DispatchSend,
              DispatchClose, DispatchCancel
<1>. QED
  BY <1>1, <1>2, <1>3, <1>5, <1>6
  DEF Take, RunnerTypeOK, ProtocolTypeOK, agentVars, pumpVars, bridgeVars

(* Resuming after an await keeps the types. *)
LEMMA ResumeTypes ==
  ASSUME RunnerInv, NEW id \in Ids, ResumeStep(id)
  PROVE  RunnerTypeOK'
<1>1. RunnerTypeOK
  BY DEF RunnerInv
<1>2. CASE CreateDone(id)
  <2>1. \E type \in {"reply", "fail"} : Answer(id, type, NoRun)
    BY <1>2 DEF CreateDone
  <2>2. agents' \in SUBSET Agents /\ created' \in SUBSET Agents
    BY <1>1, <1>2 DEF CreateDone, RunnerTypeOK, agentVars
  <2>. QED
    BY <1>1, <1>2, <2>1, <2>2, AnswerTypes
    DEF CreateDone, RunnerTypeOK, ProtocolTypeOK, pumpVars, bridgeVars
<1>3. CASE SendFail(id) \/ ReplySend(id)
  <2>1. \E type \in {"reply", "fail"}, r \in Runs \union {NoRun} : Answer(id, type, r)
    BY <1>1, <1>3 DEF SendFail, ReplySend, RunnerTypeOK, ProtocolTypeOK
  <2>. QED
    BY <1>1, <1>3, <2>1, AnswerTypes
    DEF SendFail, ReplySend, RunnerTypeOK, ProtocolTypeOK, agentVars, pumpVars, bridgeVars
<1>4. CASE CloseDone(id) \/ CancelDone(id)
  <2>1. Answer(id, "reply", NoRun) /\ \E ts : Settle(ts)
    BY <1>4 DEF CloseDone, CancelDone, RejectRuns
  <2>2. agents' \in SUBSET Agents /\ created' \in SUBSET Agents
    BY <1>1, <1>4 DEF CloseDone, CancelDone, RunnerTypeOK, agentVars
  <2>. QED
    BY <1>1, <1>4, <2>1, <2>2, AnswerTypes, SettleTypes
    DEF CloseDone, CancelDone, RunnerTypeOK, ProtocolTypeOK, pumpVars
<1>5. ASSUME NEW r \in Runs, SendDone(id, r)
      PROVE  RunnerTypeOK'
  <2>1. /\ runOf' \in [Ids -> Runs \union {NoRun}]
        /\ runState' \in [Runs -> {"unborn", "live", "ended"}]
        /\ UNCHANGED <<kind, child, stdout, request, emitted, toolSent>>
    BY <1>1, <1>5 DEF SendDone, ChildStartRun, RunnerTypeOK, ProtocolTypeOK
  <2>2. /\ pump' \in [Runs -> {"none", "over"} \union PumpLive]
        /\ runs' \in [Runs -> Agents \union {NoAgent}]
        /\ runAgent' \in [Runs -> Agents \union {NoAgent}]
    BY <1>1, <1>5 DEF SendDone, RunnerTypeOK, PumpLive
  <2>3. /\ task' \in [Ids -> {"none", "done"} \union Awaiting]
        /\ \A j \in Ids : task'[j] = "done" <=> request'[j] = "answered"
    BY <1>1, <1>5, <2>1 DEF SendDone, Resumed, ChildStartRun, RunnerTypeOK, Awaiting
  <2>. QED
    BY <1>1, <1>5, <2>1, <2>2, <2>3
    DEF SendDone, RunnerTypeOK, ProtocolTypeOK, agentVars, bridgeVars
<1>6. ASSUME NEW r \in Runs, CloseCancelled(id, r)
      PROVE  RunnerTypeOK'
  <2>1. request[id] # "answered"
    BY <1>1, <1>6 DEF CloseCancelled, Resumed, RunnerTypeOK, Awaiting
  <2>2. Await(id, "agentClose") \/ UNCHANGED <<task, stdout, request>>
    BY <1>6 DEF CloseCancelled
  <2>3. /\ stdout' \in Seq(Frames)
        /\ request' \in [Ids -> {"none", "open", "answered"}]
        /\ task' \in [Ids -> {"none", "done"} \union Awaiting]
        /\ \A j \in Ids : task'[j] = "done" <=> request'[j] = "answered"
    BY <1>1, <2>1, <2>2, AwaitTypes DEF RunnerTypeOK, ProtocolTypeOK, Awaiting
  <2>4. /\ cancelled' \in [Ids -> SUBSET Runs]
        /\ runs' \in [Runs -> Agents \union {NoAgent}]
    BY <1>1, <1>6 DEF CloseCancelled, RunnerTypeOK
  <2>. QED
    BY <1>1, <1>6, <2>3, <2>4
    DEF CloseCancelled, RunnerTypeOK, ProtocolTypeOK, agentVars, bridgeVars
<1>. QED
  BY <1>2, <1>3, <1>4, <1>5, <1>6 DEF ResumeStep

(* A step of a pump keeps the types. *)
LEMMA PumpTypes ==
  ASSUME RunnerInv, NEW r \in Runs, PumpStepOf(r)
  PROVE  RunnerTypeOK'
<1>1. RunnerTypeOK
  BY DEF RunnerInv
<1>2. ASSUME NEW type \in RunMsgTypes
      PROVE  Frame(type, 0, r, emitted[r] + 1) \in Frames
  BY <1>1 DEF Frame, Frames, FrameTypes, RunnerTypeOK, ProtocolTypeOK
<1>3. CASE PumpEvent(r)
  <2>1. stdout' \in Seq(Frames) /\ emitted' \in [Runs -> Nat]
    BY <1>1, <1>2, <1>3 DEF PumpEvent, ChildEvent, Write, RunnerTypeOK, ProtocolTypeOK, RunMsgTypes
  <2>. QED
    BY <1>1, <1>3, <2>1
    DEF PumpEvent, ChildEvent, RunnerTypeOK, ProtocolTypeOK, taskVars, agentVars, pumpVars, bridgeVars
<1>4. CASE PumpEndOfStream(r)
  BY <1>1, <1>4
  DEF PumpEndOfStream, PumpGoes, PumpStep, PumpLive, RunnerTypeOK, ProtocolTypeOK, taskVars, agentVars,
      bridgeVars
<1>5. CASE PumpThrow(r) \/ PumpWaited(r)
  <2>1. /\ stdout' \in Seq(Frames) /\ emitted' \in [Runs -> Nat]
        /\ runState' \in [Runs -> {"unborn", "live", "ended"}]
    <3>1. Final(r)
      BY <1>5 DEF PumpThrow, PumpWaited
    <3>2. Frame("final", 0, r, emitted[r] + 1) \in Frames
      BY <1>2 DEF RunMsgTypes
    <3>. QED
      BY <1>1, <3>1, <3>2 DEF Final, Write, RunnerTypeOK, ProtocolTypeOK
  <2>2. pump' \in [Runs -> {"none", "over"} \union PumpLive]
    BY <1>1, <1>5 DEF PumpThrow, PumpWaited, PumpGoes, PumpLive, RunnerTypeOK
  <2>3. PumpStep
    BY <1>5 DEF PumpThrow, PumpWaited
  <2>. QED
    BY <1>1, <2>1, <2>2, <2>3
    DEF PumpStep, RunnerTypeOK, ProtocolTypeOK, taskVars, agentVars, bridgeVars
<1>6. CASE PumpFinally(r)
  <2>1. \E ts : Settle(ts)
    BY <1>6 DEF PumpFinally, RejectRuns
  <2>2. /\ pump' \in [Runs -> {"none", "over"} \union PumpLive]
        /\ runs' \in [Runs -> Agents \union {NoAgent}]
    BY <1>1, <1>6 DEF PumpFinally, PumpGoes, RunnerTypeOK
  <2>. QED
    BY <1>1, <1>6, <2>1, <2>2, SettleTypes
    DEF PumpFinally, RunnerTypeOK, ProtocolTypeOK, childVars, taskVars, agentVars
<1>. QED
  BY <1>3, <1>4, <1>5, <1>6 DEF PumpStepOf

(* A step of the tool bridge keeps the types. *)
LEMMA BridgeTypes ==
  ASSUME RunnerInv,
         \/ \E t \in ToolReqs : ToolStepOf(t)
         \/ \E c \in CallIds : HandleToolResultNotify(c)
  PROVE  RunnerTypeOK'
<1>1. RunnerTypeOK
  BY DEF RunnerInv
<1>2. ASSUME NEW ts, Settle(ts), BridgeStep
      PROVE  RunnerTypeOK'
  BY <1>1, <1>2, SettleTypes
  DEF BridgeStep, RunnerTypeOK, ProtocolTypeOK, childVars, taskVars, agentVars, pumpVars
<1>3. ASSUME NEW t \in ToolReqs, NEW r \in Runs, Execute(t, r)
      PROVE  RunnerTypeOK'
  <2>1. Frame("tool", t, NoRun, 0) \in Frames
    BY DEF Frame, Frames, FrameTypes
  <2>2. stdout' \in Seq(Frames) /\ toolSent' \in SUBSET ToolReqs
    BY <1>1, <1>3, <2>1 DEF Execute, Write, RunnerTypeOK, ProtocolTypeOK
  <2>3. /\ byId' \in SUBSET ToolReqs
        /\ byCallId' \in [CallIds -> ToolReqs \union {NoReq}]
        /\ bridgeRun' \in [ToolReqs -> Runs \union {NoRun}]
        /\ toolOwner' \in [ToolReqs -> Runs \union {NoRun}]
    BY <1>1, <1>3, RunnerAssumption DEF Execute, RunnerTypeOK
  <2>. QED
    BY <1>1, <1>3, <2>2, <2>3
    DEF Execute, RunnerTypeOK, ProtocolTypeOK, taskVars, agentVars, pumpVars
<1>. QED
  BY <1>2, <1>3, Zenon DEF ToolStepOf, HandleResponse, ToolTimer, HandleToolResultNotify

(* The other end of the pipe keeps the types. *)
LEMMA PipeTypes ==
  ASSUME RunnerInv,
         \/ \E id \in Ids, m \in Methods, a \in Agents, r \in Runs : Request(id, m, a, r)
         \/ ReadLine \/ Exit
  PROVE  RunnerTypeOK'
<1>1. RunnerTypeOK
  BY DEF RunnerInv
<1>2. ASSUME NEW id \in Ids, NEW m \in Methods, NEW a \in Agents, NEW r \in Runs, Request(id, m, a, r)
      PROVE  RunnerTypeOK'
  <2>1. request[id] = "none" /\ request' = [request EXCEPT ![id] = "open"] /\ UNCHANGED task
    BY <1>2 DEF Request, Ask
  <2>2. /\ request' \in [Ids -> {"none", "open", "answered"}]
        /\ \A j \in Ids : task'[j] = "done" <=> request'[j] = "answered"
    BY <1>1, <2>1 DEF RunnerTypeOK, ProtocolTypeOK
  <2>3. kind' \in [Ids -> Kinds] /\ stdin' \in Seq(Ids)
    BY <1>1, <1>2 DEF Request, RunnerTypeOK, ProtocolTypeOK, Kinds
  <2>4. /\ method' \in [Ids -> Methods]
        /\ agentArg' \in [Ids -> Agents \union {NoAgent}]
        /\ runArg' \in [Ids -> Runs \union {NoRun}]
    BY <1>1, <1>2 DEF Request, RunnerTypeOK
  <2>. QED
    BY <1>1, <1>2, <2>2, <2>3, <2>4
    DEF Request, RunnerTypeOK, ProtocolTypeOK, agentVars, pumpVars, bridgeVars
<1>3. CASE ReadLine
  <2>1. stdout' \in Seq(Frames)
    BY <1>1, <1>3 DEF ReadLine, RunnerTypeOK, ProtocolTypeOK
  <2>. QED
    BY <1>1, <1>3, <2>1
    DEF ReadLine, RunnerTypeOK, ProtocolTypeOK, taskVars, agentVars, pumpVars, bridgeVars
<1>4. CASE Exit
  BY <1>1, <1>4
  DEF Exit, ChildExit, RunnerTypeOK, ProtocolTypeOK, taskVars, agentVars, pumpVars, bridgeVars
<1>. QED
  BY <1>2, <1>3, <1>4

-----------------------------------------------------------------------------
(* Requests and their dispatches. *)

(* A step of one request: the next on stdin, one under way, or a new one.   *)
LEMMA OneTask ==
  ASSUME RunnerInv, NEW id \in Ids, TaskOK(id)',
         \A j \in Ids \ {id} :
           /\ request'[j] = request[j] /\ task'[j] = task[j] /\ runOf'[j] = runOf[j]
           /\ kind'[j] = kind[j] /\ method'[j] = method[j],
         \/ stdin # <<>> /\ id = Head(stdin) /\ stdin' = Tail(stdin)
         \/ task[id] # "none" /\ stdin' = stdin
         \/ /\ request[id] = "none" /\ stdin' = Append(stdin, id)
            /\ request'[id] = "open" /\ task'[id] = "none"
  PROVE  TaskInv' /\ StdinInv'
<1>1. TaskInv'
  BY DEF RunnerInv, TaskInv, TaskOK, IsSend
<1>2. stdin \in Seq(Ids) /\ StdinInv
  BY DEF RunnerInv, RunnerTypeOK
<1>3. CASE stdin # <<>> /\ id = Head(stdin) /\ stdin' = Tail(stdin)
  <2>1. \A i \in 1 .. Len(stdin') : i + 1 \in 1 .. Len(stdin) /\ stdin'[i] = stdin[i + 1]
    BY <1>2, <1>3
  <2>2. \A i \in 1 .. Len(stdin') : stdin'[i] \in Ids \ {id}
    BY <1>2, <1>3, <2>1 DEF StdinInv
  <2>3. \A i \in 1 .. Len(stdin') : request'[stdin'[i]] = "open" /\ task'[stdin'[i]] = "none"
    <3>1. ASSUME NEW i \in 1 .. Len(stdin')
          PROVE  request[stdin'[i]] = "open" /\ task[stdin'[i]] = "none"
      BY <1>2, <2>1 DEF StdinInv
    <3>. QED
      BY <2>2, <3>1
  <2>4. ASSUME NEW i \in 1 .. Len(stdin'), NEW j \in 1 .. Len(stdin'), stdin'[i] = stdin'[j]
        PROVE  i = j
    <3>1. i + 1 = j + 1
      BY <1>2, <2>1, <2>4 DEF StdinInv
    <3>2. Len(stdin') \in Nat
      BY <1>2, <1>3
    <3>. QED
      BY <3>1, <3>2
  <2>. QED
    BY <1>1, <2>3, <2>4 DEF StdinInv
<1>4. CASE task[id] # "none" /\ stdin' = stdin
  <2>1. \A i \in 1 .. Len(stdin) : stdin[i] \in Ids \ {id}
    BY <1>2, <1>4 DEF StdinInv
  <2>. QED
    BY <1>1, <1>2, <1>4, <2>1 DEF StdinInv
<1>5. CASE /\ request[id] = "none" /\ stdin' = Append(stdin, id)
           /\ request'[id] = "open" /\ task'[id] = "none"
  <2>1. \A i \in 1 .. Len(stdin) : stdin[i] \in Ids \ {id} /\ stdin'[i] = stdin[i]
    BY <1>2, <1>5 DEF StdinInv
  <2>2. Len(stdin') = Len(stdin) + 1 /\ stdin'[Len(stdin) + 1] = id /\ Len(stdin) \in Nat
    BY <1>2, <1>5
  <2>. QED
    BY <1>1, <1>2, <1>5, <2>1, <2>2 DEF StdinInv
<1>. QED
  BY <1>1, <1>3, <1>4, <1>5

(* What a new dispatch awaits fits its request. *)
LEMMA DispatchKeepsTasks ==
  ASSUME RunnerInv, NEW id \in Ids, DispatchStep(id)
  PROVE  TaskInv' /\ StdinInv'
<1>1. PICK m \in Methods :
        /\ Take(id, m)
        /\ \/ \E type \in {"reply", "fail"} : Answer(id, type, NoRun)
           \/ m = "agent.create" /\ Await(id, "create")
           \/ m = "agent.send" /\ Await(id, "send")
           \/ m = "agent.close" /\ \E what \in {"agentClose", "cancelRuns"} : Await(id, what)
           \/ m = "run.cancel" /\ Await(id, "runCancel")
  <2>1. CASE DispatchSimple(id)
    BY <2>1 DEF DispatchSimple, Methods
  <2>2. CASE DispatchCreate(id)
    BY <2>2 DEF DispatchCreate, Methods
  <2>3. CASE DispatchSend(id)
    BY <2>3 DEF DispatchSend, Methods
  <2>4. CASE DispatchClose(id)
    BY <2>4 DEF DispatchClose, Methods
  <2>5. CASE DispatchCancel(id)
    BY <2>5 DEF DispatchCancel, Methods
  <2>. QED
    BY <2>1, <2>2, <2>3, <2>4, <2>5 DEF DispatchStep
<1>2. /\ stdin # <<>> /\ id = Head(stdin) /\ stdin' = Tail(stdin)
      /\ method[id] = m /\ UNCHANGED <<kind, method, runOf>>
  BY <1>1 DEF Take
<1>3. request[id] = "open" /\ task[id] = "none" /\ TaskOK(id)
  BY <1>2, TakenIsOpen DEF RunnerInv, TaskInv
<1>4. task \in [Ids -> {"none", "done"} \union Awaiting]
      /\ request \in [Ids -> {"none", "open", "answered"}]
  BY DEF RunnerInv, RunnerTypeOK, ProtocolTypeOK
<1>5. \A j \in Ids \ {id} : request'[j] = request[j] /\ task'[j] = task[j]
  BY <1>1, <1>4 DEF Answer, Await
<1>6. TaskOK(id)'
  <2>1. \/ request'[id] = "answered" /\ task'[id] = "done"
        \/ /\ request'[id] = "open"
           /\ \/ task'[id] = "send" /\ m = "agent.send"
              \/ task'[id] \in {"create", "agentClose", "cancelRuns", "runCancel"} /\ m # "agent.send"
    BY <1>1, <1>3, <1>4 DEF Answer, Await
  <2>. QED
    BY <1>2, <1>3, <2>1 DEF TaskOK, IsSend, Awaiting
<1>. QED
  BY <1>2, <1>5, <1>6, OneTask

(* What a resumed dispatch awaits next fits its request. *)
LEMMA ResumeKeepsTasks ==
  ASSUME RunnerInv, NEW id \in Ids, ResumeStep(id)
  PROVE  TaskInv' /\ StdinInv'
<1>1. /\ task \in [Ids -> {"none", "done"} \union Awaiting]
      /\ request \in [Ids -> {"none", "open", "answered"}]
      /\ runOf \in [Ids -> Runs \union {NoRun}]
      /\ TaskOK(id)
  BY DEF RunnerInv, RunnerTypeOK, ProtocolTypeOK, TaskInv
<1>2. task[id] \in Awaiting /\ UNCHANGED <<kind, method, stdin>>
  BY DEF ResumeStep, CreateDone, SendFail, ReplySend, CloseDone, CancelDone, SendDone,
         CloseCancelled, Resumed, Awaiting, ChildStartRun
<1>3. CASE (\E type \in {"reply", "fail"}, r \in Runs \union {NoRun} : Answer(id, type, r))
           /\ UNCHANGED runOf
  <2>1. /\ request'[id] = "answered" /\ task'[id] = "done"
        /\ \A j \in Ids \ {id} : request'[j] = request[j] /\ task'[j] = task[j]
    BY <1>1, <1>3 DEF Answer
  <2>2. TaskOK(id)'
    BY <1>1, <1>2, <1>3, <2>1 DEF TaskOK, IsSend, Awaiting
  <2>. QED
    BY <1>2, <1>3, <2>1, <2>2, OneTask DEF Awaiting
<1>4. ASSUME NEW r \in Runs, SendDone(id, r)
      PROVE  TaskInv' /\ StdinInv'
  <2>1. /\ task[id] = "send" /\ task'[id] = "replySend" /\ runOf'[id] = r /\ r # NoRun
        /\ UNCHANGED request
        /\ \A j \in Ids \ {id} : runOf'[j] = runOf[j] /\ task'[j] = task[j]
    BY <1>1, <1>4, RunAssumption DEF SendDone, Resumed, ChildStartRun
  <2>2. TaskOK(id)'
    BY <1>1, <1>2, <2>1 DEF TaskOK, IsSend, Awaiting
  <2>. QED
    BY <1>2, <2>1, <2>2, OneTask
<1>5. ASSUME NEW r \in Runs, CloseCancelled(id, r)
      PROVE  TaskInv' /\ StdinInv'
  <2>1. /\ task[id] = "cancelRuns" /\ task'[id] \in {"cancelRuns", "agentClose"}
        /\ UNCHANGED <<request, runOf>>
        /\ \A j \in Ids \ {id} : task'[j] = task[j]
    BY <1>1, <1>5 DEF CloseCancelled, Resumed, Await
  <2>2. TaskOK(id)'
    BY <1>1, <1>2, <2>1 DEF TaskOK, IsSend, Awaiting
  <2>. QED
    BY <1>2, <2>1, <2>2, OneTask
<1>6. CASE CreateDone(id) \/ SendFail(id) \/ ReplySend(id) \/ CloseDone(id) \/ CancelDone(id)
  BY <1>1, <1>3, <1>6 DEF CreateDone, SendFail, ReplySend, CloseDone, CancelDone
<1>. QED
  BY <1>4, <1>5, <1>6 DEF ResumeStep

(* The supervisor's next request, and the steps that are no request's.      *)
LEMMA OthersKeepTasks ==
  ASSUME RunnerInv,
         \/ \E id \in Ids, m \in Methods, a \in Agents, r \in Runs : Request(id, m, a, r)
         \/ \E r \in Runs : PumpStepOf(r)
         \/ \E t \in ToolReqs : ToolStepOf(t)
         \/ \E c \in CallIds : HandleToolResultNotify(c)
         \/ ReadLine \/ Exit \/ UNCHANGED runnerVars
  PROVE  TaskInv' /\ StdinInv'
<1>1. ASSUME NEW id \in Ids, NEW m \in Methods, NEW a \in Agents, NEW r \in Runs, Request(id, m, a, r)
      PROVE  TaskInv' /\ StdinInv'
  <2>1. /\ request \in [Ids -> {"none", "open", "answered"}]
        /\ kind \in [Ids -> Kinds] /\ method \in [Ids -> Methods]
        /\ TaskOK(id)
    BY DEF RunnerInv, RunnerTypeOK, ProtocolTypeOK, TaskInv
  <2>2. /\ request[id] = "none" /\ request'[id] = "open" /\ UNCHANGED <<task, runOf>>
        /\ kind'[id] = (IF m = "agent.send" THEN "stream" ELSE "unary") /\ method'[id] = m
        /\ stdin' = Append(stdin, id)
        /\ \A j \in Ids \ {id} : request'[j] = request[j] /\ kind'[j] = kind[j] /\ method'[j] = method[j]
    BY <1>1, <2>1 DEF Request, Ask
  <2>3. TaskOK(id)' /\ task'[id] = "none"
    BY <2>1, <2>2 DEF TaskOK, IsSend, Awaiting
  <2>. QED
    BY <2>2, <2>3, OneTask
<1>2. CASE UNCHANGED <<kind, request, runOf, task, method, stdin>>
  BY <1>2 DEF RunnerInv, TaskInv, TaskOK, IsSend, StdinInv
<1>3. CASE \E r \in Runs : PumpStepOf(r)
  BY <1>2, <1>3 DEF PumpStepOf, PumpEvent, ChildEvent, PumpEndOfStream, PumpThrow, PumpWaited, PumpFinally,
                    PumpStep, taskVars, childVars
<1>4. CASE (\E t \in ToolReqs : ToolStepOf(t)) \/ (\E c \in CallIds : HandleToolResultNotify(c))
  BY <1>2, <1>4 DEF ToolStepOf, HandleResponse, ToolTimer, Execute, HandleToolResultNotify, BridgeStep,
                    taskVars, childVars
<1>5. CASE ReadLine \/ Exit \/ UNCHANGED runnerVars
  BY <1>2, <1>5 DEF ReadLine, Exit, ChildExit, runnerVars, taskVars, childVars
<1>. QED
  BY <1>1, <1>3, <1>4, <1>5

-----------------------------------------------------------------------------
(* Runs and tool calls. *)

(* A pump with a run to end has a live one, and the runner keeps track of    *)
(* every run whose pump is at work.                                        *)
LEMMA RunsKept ==
  ASSUME RunnerInv, [RunnerNext]_runnerVars
  PROVE  PumpInv' /\ RunsTracked'
<1>1. /\ runState \in [Runs -> {"unborn", "live", "ended"}]
      /\ pump \in [Runs -> {"none", "over"} \union PumpLive]
      /\ runs \in [Runs -> Agents \union {NoAgent}]
      /\ runAgent \in [Runs -> Agents \union {NoAgent}]
      /\ cancelled \in [Ids -> SUBSET Runs]
      /\ PumpInv /\ RunsTracked
  BY DEF RunnerInv, RunnerTypeOK, ProtocolTypeOK
<1>2. CASE UNCHANGED <<runState, runs, runAgent, pump, cancelled>>
  BY <1>1, <1>2 DEF PumpInv, RunsTracked
<1>3. ASSUME NEW id \in Ids, NEW r \in Runs, SendDone(id, r)
      PROVE  PumpInv' /\ RunsTracked'
  BY <1>1, <1>3 DEF PumpInv, RunsTracked, SendDone, ChildStartRun, PumpLive
<1>4. ASSUME NEW id \in Ids, NEW r \in Runs, CloseCancelled(id, r)
      PROVE  PumpInv' /\ RunsTracked'
  <2>1. /\ \A j \in Ids : cancelled[j] \subseteq cancelled'[j]
        /\ r \in cancelled'[id] /\ runs'[r] = NoAgent
        /\ \A q \in Runs \ {r} : runs'[q] = runs[q]
        /\ UNCHANGED <<runState, runAgent, pump>>
    BY <1>1, <1>4 DEF CloseCancelled
  <2>. QED
    BY <1>1, <2>1 DEF PumpInv, RunsTracked
<1>5. ASSUME NEW r \in Runs, PumpStepOf(r)
      PROVE  PumpInv' /\ RunsTracked'
  <2>1. CASE PumpEvent(r)
    BY <1>2, <2>1 DEF PumpEvent, ChildEvent, taskVars, pumpVars
  <2>2. CASE PumpEndOfStream(r)
    BY <1>1, <2>2 DEF PumpEndOfStream, PumpGoes, PumpStep, PumpInv, RunsTracked, PumpLive, taskVars
  <2>3. CASE PumpThrow(r) \/ PumpWaited(r)
    BY <1>1, <2>3 DEF PumpThrow, PumpWaited, Final, PumpGoes, PumpStep, PumpInv, RunsTracked, PumpLive,
                      taskVars
  <2>4. CASE PumpFinally(r)
    BY <1>1, <2>4 DEF PumpFinally, PumpGoes, PumpInv, RunsTracked, PumpLive, taskVars, childVars
  <2>. QED
    BY <1>5, <2>1, <2>2, <2>3, <2>4 DEF PumpStepOf
<1>6. ASSUME NEW id \in Ids, DispatchStep(id)
      PROVE  PumpInv' /\ RunsTracked'
  BY <1>2, <1>6 DEF DispatchStep, DispatchSimple, DispatchCreate, DispatchSend, DispatchClose,
                    DispatchCancel, Take, pumpVars
<1>7. ASSUME NEW id \in Ids,
             CreateDone(id) \/ SendFail(id) \/ ReplySend(id) \/ CloseDone(id) \/ CancelDone(id)
      PROVE  PumpInv' /\ RunsTracked'
  BY <1>2, <1>7 DEF CreateDone, SendFail, ReplySend, CloseDone, CancelDone, pumpVars
<1>8. CASE (\E t \in ToolReqs : ToolStepOf(t)) \/ (\E c \in CallIds : HandleToolResultNotify(c))
  BY <1>2, <1>8 DEF ToolStepOf, HandleResponse, ToolTimer, Execute, HandleToolResultNotify, BridgeStep,
                    taskVars, childVars, pumpVars
<1>9. CASE \/ \E id \in Ids, m \in Methods, a \in Agents, r \in Runs : Request(id, m, a, r)
           \/ ReadLine \/ Exit \/ UNCHANGED runnerVars
  BY <1>2, <1>9 DEF Request, ReadLine, Exit, ChildExit, runnerVars, taskVars, childVars, pumpVars
<1>. QED
  BY <1>3, <1>4, <1>5, <1>6, <1>7, <1>8, <1>9 DEF RunnerNext, ResumeStep

(* Settling takes a request out of byId and counts it once. *)
LEMMA SettleOnceLemma ==
  ASSUME BridgeInv, NEW ts, Settle(ts), UNCHANGED toolSent
  PROVE  BridgeInv'
BY DEF BridgeInv, SettledOnce, Settle

(* Entries of the bridge come and go with their promises. *)
LEMMA BridgeKept ==
  ASSUME RunnerInv, [RunnerNext]_runnerVars
  PROVE  BridgeInv'
<1>1. BridgeInv
  BY DEF RunnerInv
<1>2. CASE UNCHANGED <<toolSent, byId, settles>>
  BY <1>1, <1>2 DEF BridgeInv, SettledOnce
<1>3. CASE (\E ts : Settle(ts)) /\ UNCHANGED toolSent
  BY <1>1, <1>3, SettleOnceLemma
<1>4. ASSUME NEW t \in ToolReqs, NEW r \in Runs, Execute(t, r)
      PROVE  BridgeInv'
  BY <1>1, <1>4 DEF Execute, BridgeInv, SettledOnce
<1>5. ASSUME NEW t \in ToolReqs, HandleResponse(t) \/ ToolTimer(t)
      PROVE  BridgeInv'
  BY <1>3, <1>5 DEF HandleResponse, ToolTimer, BridgeStep, childVars
<1>6. ASSUME NEW c \in CallIds, HandleToolResultNotify(c)
      PROVE  BridgeInv'
  BY <1>3, <1>6 DEF HandleToolResultNotify, BridgeStep, childVars
<1>7. ASSUME NEW id \in Ids, CloseDone(id) \/ CancelDone(id)
      PROVE  BridgeInv'
  BY <1>3, <1>7 DEF CloseDone, CancelDone, RejectRuns
<1>8. ASSUME NEW r \in Runs, PumpFinally(r)
      PROVE  BridgeInv'
  BY <1>3, <1>8 DEF PumpFinally, RejectRuns, childVars
<1>9. ASSUME NEW r \in Runs, PumpEvent(r) \/ PumpEndOfStream(r) \/ PumpThrow(r) \/ PumpWaited(r)
      PROVE  BridgeInv'
  BY <1>2, <1>9 DEF PumpEvent, ChildEvent, PumpEndOfStream, PumpThrow, PumpWaited, PumpStep, bridgeVars
<1>10. ASSUME NEW id \in Ids, DispatchStep(id)
       PROVE  BridgeInv'
  BY <1>2, <1>10 DEF DispatchStep, DispatchSimple, DispatchCreate, DispatchSend, DispatchClose,
                     DispatchCancel, Take, bridgeVars
<1>11. ASSUME NEW id \in Ids,
              \/ CreateDone(id) \/ SendFail(id) \/ ReplySend(id)
              \/ \E r \in Runs : SendDone(id, r) \/ CloseCancelled(id, r)
       PROVE  BridgeInv'
  BY <1>2, <1>11 DEF CreateDone, SendFail, ReplySend, SendDone, ChildStartRun, CloseCancelled, bridgeVars
<1>12. CASE \/ \E id \in Ids, m \in Methods, a \in Agents, r \in Runs : Request(id, m, a, r)
            \/ ReadLine \/ Exit \/ UNCHANGED runnerVars
  BY <1>2, <1>12 DEF Request, ReadLine, Exit, ChildExit, runnerVars, bridgeVars, childVars
<1>. QED
  BY <1>4, <1>5, <1>6, <1>7, <1>8, <1>9, <1>10, <1>11, <1>12
  DEF RunnerNext, ResumeStep, PumpStepOf, ToolStepOf

-----------------------------------------------------------------------------
(* The protocol. *)

(* dispatch() answers an open request once, as the protocol lets the child.  *)
LEMMA AnswerIsReply ==
  ASSUME NEW id \in Ids, NEW type, NEW r, Answer(id, type, r), Alive, request[id] = "open",
         UNCHANGED <<kind, child, runOf, runState, emitted, toolSent>>, r = runOf[id],
         \/ type = "reply" /\ (IsSend(id) => runOf[id] # NoRun)
         \/ type = "fail" /\ runOf[id] = NoRun
  PROVE  ChildReply(id)
BY DEF Answer, Alive, ChildReply

(* Dispatching is a step of the protocol, or none. *)
LEMMA DispatchIsProtocol ==
  ASSUME RunnerInv, NEW id \in Ids, DispatchStep(id)
  PROVE  ChildReply(id) \/ UNCHANGED <<kind, childVars>>
<1>1. /\ stdin # <<>> /\ id = Head(stdin) /\ Alive
      /\ UNCHANGED <<kind, child, runOf, runState, emitted, toolSent>>
  BY DEF DispatchStep, DispatchSimple, DispatchCreate, DispatchSend, DispatchClose, DispatchCancel, Take
<1>2. request[id] = "open" /\ task[id] = "none" /\ runOf[id] = NoRun
      /\ (IsSend(id) <=> method[id] = "agent.send")
  BY <1>1, TakenIsOpen DEF RunnerInv, TaskInv, TaskOK
<1>3. \/ Answer(id, "fail", NoRun)
      \/ Answer(id, "reply", NoRun) /\ method[id] # "agent.send"
      \/ \E what : Await(id, what)
  BY DEF DispatchStep, DispatchSimple, DispatchCreate, DispatchSend, DispatchClose, DispatchCancel, Take
<1>. QED
  BY <1>1, <1>2, <1>3, AnswerIsReply DEF Await, childVars

(* Resuming answers a request at most, as the protocol has it. *)
LEMMA ResumeIsProtocol ==
  ASSUME RunnerInv, NEW id \in Ids, ResumeStep(id)
  PROVE  \/ ChildReply(id) \/ \E r \in Runs : ChildStartRun(id, r)
         \/ UNCHANGED <<kind, childVars>>
<1>1. TaskOK(id)
  BY DEF RunnerInv, TaskInv
<1>2. CASE CreateDone(id) \/ CloseDone(id) \/ CancelDone(id)
  <2>1. /\ task[id] \in {"create", "agentClose", "runCancel"} /\ Alive
        /\ \E type \in {"reply", "fail"} : Answer(id, type, NoRun)
        /\ UNCHANGED <<kind, child, runOf, runState, emitted, toolSent>>
    BY <1>2 DEF CreateDone, CloseDone, CancelDone, Resumed
  <2>2. request[id] = "open" /\ runOf[id] = NoRun /\ ~IsSend(id)
    BY <1>1, <2>1 DEF TaskOK, Awaiting
  <2>. QED
    BY <2>1, <2>2, AnswerIsReply
<1>3. CASE SendFail(id)
  <2>1. /\ task[id] = "send" /\ Alive /\ Answer(id, "fail", NoRun)
        /\ UNCHANGED <<kind, child, runOf, runState, emitted, toolSent>>
    BY <1>3 DEF SendFail, Resumed
  <2>2. request[id] = "open" /\ runOf[id] = NoRun
    BY <1>1, <2>1 DEF TaskOK, Awaiting
  <2>. QED
    BY <2>1, <2>2, AnswerIsReply
<1>4. CASE ReplySend(id)
  <2>1. /\ task[id] = "replySend" /\ Alive /\ Answer(id, "reply", runOf[id])
        /\ UNCHANGED <<kind, child, runOf, runState, emitted, toolSent>>
    BY <1>4 DEF ReplySend, Resumed
  <2>2. request[id] = "open" /\ runOf[id] # NoRun
    BY <1>1, <2>1 DEF TaskOK, Awaiting
  <2>. QED
    BY <2>1, <2>2, AnswerIsReply
<1>5. ASSUME NEW r \in Runs, SendDone(id, r) \/ CloseCancelled(id, r)
      PROVE  ChildStartRun(id, r) \/ UNCHANGED <<kind, childVars>>
  BY <1>5 DEF SendDone, CloseCancelled, Await, childVars
<1>. QED
  BY <1>2, <1>3, <1>4, <1>5 DEF ResumeStep

(* A pump writes the notifications the protocol allows. *)
LEMMA PumpIsProtocol ==
  ASSUME RunnerInv, NEW r \in Runs, PumpStepOf(r)
  PROVE  ChildEvent(r) \/ ChildEndRun(r) \/ UNCHANGED <<kind, childVars>>
<1>1. CASE PumpThrow(r) \/ PumpWaited(r)
  <2>1. runState[r] = "live" /\ Alive /\ Final(r) /\ PumpStep
    BY <1>1 DEF PumpThrow, PumpWaited, PumpGoes, RunnerInv, PumpInv
  <2>. QED
    BY <2>1 DEF Alive, Final, PumpStep, ChildEndRun
<1>2. CASE PumpEvent(r) \/ PumpEndOfStream(r) \/ PumpFinally(r)
  BY <1>2 DEF PumpEvent, PumpEndOfStream, PumpFinally, PumpStep, childVars
<1>. QED
  BY <1>1, <1>2 DEF PumpStepOf

(* Every step of the runner is one of the protocol, or none. *)
LEMMA StepIsProtocol ==
  ASSUME RunnerInv, [RunnerNext]_runnerVars
  PROVE  [ChildStep \/ ParentStep]_<<kind, childVars>>
<1>1. ASSUME NEW t \in ToolReqs, NEW r \in Runs, Execute(t, r)
      PROVE  ChildToolRequest(NoRun, t)
  BY <1>1 DEF Execute, Alive, ChildToolRequest
<1>2. CASE \/ \E t \in ToolReqs : HandleResponse(t) \/ ToolTimer(t)
           \/ \E c \in CallIds : HandleToolResultNotify(c)
  BY <1>2 DEF HandleResponse, ToolTimer, HandleToolResultNotify, BridgeStep
<1>3. ASSUME NEW id \in Ids, NEW m \in Methods, NEW a \in Agents, NEW r \in Runs, Request(id, m, a, r)
      PROVE  ParentStep
  BY <1>3 DEF Request, ParentStep, Kinds
<1>4. CASE ReadLine
  BY <1>4 DEF ReadLine, ParentStep
<1>5. CASE Exit
  BY <1>5 DEF Exit, ChildStep
<1>6. CASE UNCHANGED runnerVars
  BY <1>6 DEF runnerVars
<1>7. ASSUME NEW id \in Ids, DispatchStep(id) \/ ResumeStep(id)
      PROVE  ChildStep \/ UNCHANGED <<kind, childVars>>
  BY <1>7, DispatchIsProtocol, ResumeIsProtocol DEF ChildStep
<1>8. ASSUME NEW r \in Runs, PumpStepOf(r)
      PROVE  ChildStep \/ UNCHANGED <<kind, childVars>>
  BY <1>8, PumpIsProtocol DEF ChildStep
<1>. QED
  BY <1>1, <1>2, <1>3, <1>4, <1>5, <1>6, <1>7, <1>8 DEF RunnerNext, ToolStepOf, ChildStep

-----------------------------------------------------------------------------
(* The invariant is inductive. *)
LEMMA RunnerInvNext ==
  ASSUME RunnerInv, [RunnerNext]_runnerVars
  PROVE  RunnerInv'
<1>1. RunnerTypeOK'
  <2>1. CASE UNCHANGED runnerVars
    BY <2>1 DEF RunnerInv, RunnerTypeOK, ProtocolTypeOK, runnerVars, childVars, taskVars, agentVars,
                pumpVars, bridgeVars
  <2>. QED
    BY <2>1, DispatchTypes, ResumeTypes, PumpTypes, BridgeTypes, PipeTypes DEF RunnerNext
<1>2. TaskInv' /\ StdinInv'
  BY DispatchKeepsTasks, ResumeKeepsTasks, OthersKeepTasks DEF RunnerNext
<1>. QED
  BY <1>1, <1>2, RunsKept, BridgeKept DEF RunnerInv

(* The invariant holds throughout. *)
LEMMA RunnerInvariant == RunnerSpec => []RunnerInv
<1>1. RunnerInit => RunnerInv
  BY RunnerInvInit
<1>2. RunnerInv /\ [RunnerNext]_runnerVars => RunnerInv'
  BY RunnerInvNext
<1>. QED
  BY <1>1, <1>2, PTL DEF RunnerSpec

(* Every record of the runner keeps its type, and a dispatch is over exactly *)
(* when it has answered its request (index.ts, runner.ts, toolBridge.ts).  *)
THEOREM RunnerTypesCorrect == RunnerSpec => []RunnerTypeOK
<1>1. RunnerInv => RunnerTypeOK
  BY DEF RunnerInv
<1>. QED
  BY <1>1, RunnerInvariant, PTL

(* The runner keeps track of its runs: what agent.list counts and           *)
(* run.cancel reaches is at work (runner.ts:291-306).                      *)
THEOREM RunsStayTracked == RunnerSpec => []RunsTracked
<1>1. RunnerInv => RunsTracked
  BY DEF RunnerInv
<1>. QED
  BY <1>1, RunnerInvariant, PTL

(* Every promise of execute() is settled once at most, and is pending until  *)
(* then, whatever call ids the SDK uses (toolBridge.ts:173-239).           *)
THEOREM PromisesSettleOnce == RunnerSpec => []SettledOnce
<1>1. RunnerInv => SettledOnce
  BY DEF RunnerInv, BridgeInv
<1>. QED
  BY <1>1, RunnerInvariant, PTL

(* The runner is a child as the supervisor expects it: one answer for each   *)
(* request, a run of its own for each agent.send that succeeds, and after a *)
(* run's final notification nothing of it (protocol.go).                   *)
THEOREM RunnerImplementsProtocol == RunnerSpec => ProtocolSpec
<1>1. RunnerInit => ChildInit /\ kind \in [Ids -> Kinds]
  BY DEF RunnerInit, Kinds
<1>2. RunnerInv /\ [RunnerNext]_runnerVars => [ChildStep \/ ParentStep]_<<kind, childVars>>
  BY StepIsProtocol
<1>. QED
  BY <1>1, <1>2, RunnerInvariant, PTL DEF RunnerSpec, ProtocolSpec
=============================================================================
