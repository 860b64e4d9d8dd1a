-------------------------- MODULE SupervisorProofs --------------------------
(***************************************************************************)
(* Proofs about Supervisor, for any number of calls, runs, events and tool *)
(* requests and any capacities.  A step of the supervisor is a step of     *)
(* ToolCalls or leaves its variables alone, so what ToolCallsProofs shows  *)
(* of the tool calls holds in the composition.                             *)
(***************************************************************************)
EXTENDS Supervisor, ToolCallsProofs, SequenceTheorems

(* TypeOK without the tool calls. *)
OwnTypeOK ==
  /\ ProtocolTypeOK
  /\ idCounter \in 0 .. MaxCalls
  /\ caller \in [Ids -> CallerStates]
  /\ outcome \in [Ids -> {"none"} \union CallEnds \union StreamEnds]
  /\ pending \in SUBSET Ids
  /\ respCh \in [Ids -> Chan(Frames, 1)]
  /\ gotRun \in [Ids -> Runs \union {NoRun}]
  /\ runSubs \in [Runs -> Ids \union {0}]
  /\ runCh \in [Ids -> Chan(Frames, RunBufCap)]
  /\ seen \in [Ids -> Seq(Frames)]
  /\ reader \in {"scan", "deliver", "send", "closeRun", "closeTools", "ended"}
  /\ frame \in Frames
  /\ target \in Ids \union {0}
  /\ closer \in {"open", "waitExit", "waitKill", "failPending", "closeRuns", "stop", "closed"}
  /\ watcher \in {"wait", "close", "done"}
  /\ exited \in BOOLEAN
  /\ stdinOpen \in BOOLEAN

(* A notification names a run, and a tool request itself. *)
NamesOK(f) ==
  /\ f.type \in RunMsgTypes => f.run \in Runs
  /\ f.type = "tool" => f.id \in ToolReqs

(* What the reader is about to do fits the frame it has in hand. *)
ReaderInv ==
  /\ \A i \in 1 .. Len(stdout) : NamesOK(stdout[i])
  /\ reader = "deliver" => target \in Ids /\ target = frame.id
  /\ reader = "send" => target \in Ids /\ frame.type \in RunMsgTypes /\ frame.run \in Runs
  /\ reader \in {"closeRun", "closeTools"} => frame.type = "final" /\ frame.run \in Runs

(* An id is used once, and its channel is open as long as it is pending.     *)
CallInv ==
  /\ \A id \in Ids :
       /\ id > idCounter => caller[id] = "idle"
       /\ caller[id] = "idle" => request[id] = "none" /\ ~respCh[id].closed
  /\ PendingHasCaller

(* A reply answers the call it is for, with the run the child started.      *)
ReplyOK(f, id) ==
  f.type = "reply" =>
    request[id] = "answered" /\ f.run = runOf[id] /\ (IsSend(id) => f.run # NoRun)

ReplyInv ==
  /\ \A i \in 1 .. Len(stdout) :
       stdout[i].type = "reply" => stdout[i].id \in Ids /\ ReplyOK(stdout[i], stdout[i].id)
  /\ \A id \in Ids : \A i \in 1 .. Len(respCh[id].buf) : ReplyOK(respCh[id].buf[i], id)
  /\ reader = "deliver" => ReplyOK(frame, target)

(* A call that has not subscribed to its run.  Its channel is nobody's yet. *)
Early == {"idle", "registerRun"} \union Calling

Untouched(id) ==
  /\ seen[id] = <<>> /\ runCh[id].buf = <<>> /\ ~runCh[id].closed
  /\ \A r \in Runs : runSubs[r] # id
  /\ reader = "send" => target # id

RunInv ==
  /\ \A id \in Ids :
       /\ gotRun[id] # NoRun => request[id] = "answered" /\ gotRun[id] = runOf[id]
       /\ caller[id] = "registerRun" => gotRun[id] # NoRun
       /\ caller[id] \in Early => Untouched(id)
  /\ SubscriptionOpen
  /\ reader = "send" => gotRun[target] = frame.run

SupInv == OwnTypeOK /\ ReaderInv /\ CallInv /\ ReplyInv /\ RunInv

-----------------------------------------------------------------------------
(* The steps of Supervisor, apart from what they do to the tool calls. *)
CallStep(id) ==
  \/ WriteRequest(id) \/ ReceiveReply(id) \/ ReceiveClosed(id) \/ Timeout(id) \/ SeeStopped(id)
  \/ RegisterRun(id) \/ TakeRunMsg(id) \/ SeeRunClosed(id) \/ Disconnect(id)

ReadStep ==
  \/ ReadResponse \/ DeliverResponse \/ ReadNotification \/ SendRunMsg \/ SendOnClosed \/ CloseRun
  \/ CloseTools \/ ReadToolRequest \/ ReaderEnds

CloseStep ==
  \/ BeginClose \/ SeeExited \/ GraceOver \/ FailPending \/ CloseRuns \/ CloseStopped
  \/ AwaitExit \/ WatcherCloses \/ WatcherEnds

ownVars == <<kind, childVars, goVars>>

(* A step belongs to a call, the reader, the shutdown or the child, or to the tool calls. *)
LEMMA StepCases ==
  ASSUME [Next]_vars
  PROVE  \/ \E k \in CallKinds : StartCall(k)
         \/ \E id \in Ids : CallStep(id)
         \/ ReadStep
         \/ CloseStep
         \/ ChildStep /\ UNCHANGED goVars
         \/ UNCHANGED ownVars
<1>1. CASE UNCHANGED vars
  BY <1>1 DEF vars, ownVars, goVars, callVars
<1>2. CASE ToolRuns(ToolStep)
  BY <1>2 DEF ToolRuns, ownVars, goVars, callVars
<1>3. CASE Quiet(\E id \in Ids : CallerStep(id)) \/ Quiet(ClientStep)
  BY <1>3 DEF Quiet, CallerStep, ClientStep, CallStep
<1>4. CASE ReaderRuns
  BY <1>4 DEF ReaderRuns, Quiet, ReaderStep, ReadStep
<1>5. CASE Quiet(BeginClose) \/ CloserRuns \/ Quiet(WatcherStep)
  BY <1>5 DEF CloserRuns, Quiet, CloserStep, WatcherStep, CloseStep
<1>6. CASE Quiet(ChildStep /\ UNCHANGED goVars)
  BY <1>6 DEF Quiet
<1>. QED
  BY <1>1, <1>2, <1>3, <1>4, <1>5, <1>6 DEF Next

-----------------------------------------------------------------------------
(* The invariant holds initially. *)
LEMMA SupInvInit ==
  ASSUME Init
  PROVE  SupInv
<1>. USE ToolAssumption, ProtocolAssumption, SupervisorAssumption DEF Init, ChildInit
<1>1. NoFrame \in Frames
  BY DEF NoFrame, Frame, Frames, FrameTypes
<1>2. \A cap \in Nat : MakeChan \in Chan(Frames, cap)
  BY MakeChanLemma
<1>3. OwnTypeOK
  <2>1. ProtocolTypeOK
    BY DEF ProtocolTypeOK, Kinds
  <2>2. /\ respCh \in [Ids -> Chan(Frames, 1)]
        /\ runCh \in [Ids -> Chan(Frames, RunBufCap)]
        /\ seen \in [Ids -> Seq(Frames)]
    <3>1. MakeChan \in Chan(Frames, 1) /\ MakeChan \in Chan(Frames, RunBufCap)
      BY <1>2
    <3>. QED
      BY <3>1
  <2>3. /\ caller \in [Ids -> CallerStates]
        /\ outcome \in [Ids -> {"none"} \union CallEnds \union StreamEnds]
        /\ pending \in SUBSET Ids /\ gotRun \in [Ids -> Runs \union {NoRun}]
        /\ runSubs \in [Runs -> Ids \union {0}]
    BY DEF CallerStates
  <2>4. /\ idCounter \in 0 .. MaxCalls
        /\ reader \in {"scan", "deliver", "send", "closeRun", "closeTools", "ended"}
        /\ frame \in Frames
        /\ target \in Ids \union {0}
        /\ closer \in {"open", "waitExit", "waitKill", "failPending", "closeRuns", "stop", "closed"}
        /\ watcher \in {"wait", "close", "done"}
    BY <1>1
  <2>5. exited \in BOOLEAN /\ stdinOpen \in BOOLEAN
    BY Zenon
  <2>. HIDE DEF Init, ChildInit
  <2>. QED
    BY <2>1, <2>2, <2>3, <2>4, <2>5 DEF OwnTypeOK
<1>4. ReaderInv
  BY DEF ReaderInv
<1>5. MakeChan.buf = <<>> /\ ~MakeChan.closed
  BY DEF MakeChan
<1>6. CallInv
  BY <1>5 DEF CallInv, PendingHasCaller
<1>7. ReplyInv
  BY <1>5 DEF ReplyInv
<1>8. RunInv
  BY <1>5 DEF RunInv, SubscriptionOpen, Untouched, Ids
<1>. QED
  BY <1>3, <1>4, <1>6, <1>7, <1>8 DEF SupInv

-----------------------------------------------------------------------------
(* Types. *)

(* The reader without a frame holds a frame of no consequence. *)
LEMMA NoFrameLemma == NoFrame \in Frames /\ NoFrame.type = "fail"
BY DEF NoFrame, Frame, Frames, FrameTypes

(* The frame the reader scans. *)
LEMMA ScanLemma ==
  ASSUME OwnTypeOK, stdout # <<>>
  PROVE  /\ Scanned \in Frames /\ Tail(stdout) \in Seq(Frames) /\ Len(stdout) \in Nat /\ Len(stdout) >= 1
         /\ Scanned = stdout[1]
         /\ Len(Tail(stdout)) = Len(stdout) - 1
         /\ \A i \in 1 .. Len(Tail(stdout)) :
              i + 1 \in 1 .. Len(stdout) /\ Tail(stdout)[i] = stdout[i + 1]
BY DEF OwnTypeOK, ProtocolTypeOK, Scanned

(* A new call keeps the types. *)
LEMMA StartTypes ==
  ASSUME OwnTypeOK, NEW k \in CallKinds, StartCall(k)
  PROVE  OwnTypeOK'
<1>1. idCounter + 1 \in Ids /\ idCounter' \in 0 .. MaxCalls
  BY ProtocolAssumption DEF StartCall, OwnTypeOK, Ids
<1>2. kind' \in [Ids -> Kinds] /\ caller' \in [Ids -> CallerStates] /\ pending' \in SUBSET Ids
  BY <1>1, SupervisorAssumption DEF StartCall, OwnTypeOK, ProtocolTypeOK, CallerStates, Calling
<1>. QED
  BY <1>1, <1>2 DEF StartCall, OwnTypeOK, ProtocolTypeOK, runVars, readVars, closeVars, childVars

(* A step of a call keeps the types. *)
LEMMA CallTypes ==
  ASSUME OwnTypeOK, NEW id \in Ids, CallStep(id)
  PROVE  OwnTypeOK'
<1>1. /\ caller' \in [Ids -> CallerStates]
      /\ outcome' \in [Ids -> {"none"} \union CallEnds \union StreamEnds]
      /\ pending' \in SUBSET Ids
  <2>. USE DEF OwnTypeOK, CallerStates, Calling, CallEnds, StreamEnds, End, Cleanup
  <2>1. CASE WriteRequest(id)
    BY <2>1 DEF WriteRequest
  <2>2. CASE ReceiveReply(id)
    BY <2>2 DEF ReceiveReply
  <2>3. CASE ReceiveClosed(id) \/ Timeout(id) \/ SeeStopped(id)
    BY <2>3 DEF ReceiveClosed, Timeout, SeeStopped
  <2>4. CASE RegisterRun(id)
    BY <2>4 DEF RegisterRun
  <2>5. CASE TakeRunMsg(id)
    BY <2>5 DEF TakeRunMsg
  <2>6. CASE SeeRunClosed(id) \/ Disconnect(id)
    BY <2>6 DEF SeeRunClosed, Disconnect
  <2>. QED
    BY <2>1, <2>2, <2>3, <2>4, <2>5, <2>6 DEF CallStep
<1>2. CASE WriteRequest(id)
  <2>1. request' \in [Ids -> {"none", "open", "answered"}]
    <3>1. request' = request \/ request' = [request EXCEPT ![id] = "open"]
      BY <1>2 DEF WriteRequest, Ask
    <3>. QED
      BY <3>1 DEF OwnTypeOK, ProtocolTypeOK
  <2>. QED
    BY <1>1, <1>2, <2>1 DEF WriteRequest, OwnTypeOK, ProtocolTypeOK, runVars, readVars, closeVars
<1>3. CASE ReceiveReply(id)
  <2>1. /\ Receive(respCh[id]) \in Chan(Frames, 1)
        /\ Head(respCh[id].buf) \in Frames
    BY <1>3, ReceiveLemma DEF ReceiveReply, OwnTypeOK
  <2>2. respCh' \in [Ids -> Chan(Frames, 1)] /\ gotRun' \in [Ids -> Runs \union {NoRun}]
    BY <1>3, <2>1 DEF ReceiveReply, OwnTypeOK, Frames
  <2>. QED
    BY <1>1, <1>3, <2>2 DEF ReceiveReply, OwnTypeOK, ProtocolTypeOK, runVars, readVars, closeVars, childVars
<1>4. CASE ReceiveClosed(id) \/ Timeout(id) \/ SeeStopped(id) \/ SeeRunClosed(id) \/ Disconnect(id)
  BY <1>1, <1>4 DEF ReceiveClosed, Timeout, SeeStopped, SeeRunClosed, Disconnect,
                    OwnTypeOK, ProtocolTypeOK, runVars, readVars, closeVars, childVars
<1>5. CASE RegisterRun(id)
  <2>1. runSubs' \in [Runs -> Ids \union {0}]
    BY <1>5 DEF RegisterRun, OwnTypeOK
  <2>. QED
    BY <1>1, <1>5, <2>1 DEF RegisterRun, OwnTypeOK, ProtocolTypeOK, readVars, closeVars, childVars
<1>6. CASE TakeRunMsg(id)
  <2>1. /\ Receive(runCh[id]) \in Chan(Frames, RunBufCap)
        /\ Head(runCh[id].buf) \in Frames
    BY <1>6, SupervisorAssumption, ReceiveLemma DEF TakeRunMsg, OwnTypeOK
  <2>2. runCh' \in [Ids -> Chan(Frames, RunBufCap)] /\ seen' \in [Ids -> Seq(Frames)]
    BY <1>6, <2>1 DEF TakeRunMsg, OwnTypeOK
  <2>. QED
    BY <1>1, <1>6, <2>2 DEF TakeRunMsg, OwnTypeOK, ProtocolTypeOK, readVars, closeVars, childVars
<1>. QED
  BY <1>2, <1>3, <1>4, <1>5, <1>6 DEF CallStep

(* A step of the reader keeps the types. *)
LEMMA ReadTypes ==
  ASSUME OwnTypeOK, ReaderInv, ReadStep
  PROVE  OwnTypeOK'
<1>1. CASE ReadResponse \/ ReadNotification \/ ReadToolRequest
  <2>1. stdout' \in Seq(Frames) /\ Scanned \in Frames
    BY <1>1, ScanLemma DEF ReadResponse, ReadNotification, ReadToolRequest, ScanNext
  <2>2. /\ reader' \in {"scan", "deliver", "send", "closeRun", "closeTools", "ended"}
        /\ frame' \in Frames /\ target' \in Ids \union {0}
    <3>1. CASE ReadResponse
      BY <2>1, <3>1 DEF ReadResponse, Dispatch, OwnTypeOK, readVars
    <3>2. CASE ReadNotification
      <4>1. Scanned.run \in Runs
        BY <3>2, ScanLemma DEF ReadNotification, ScanNext, ReaderInv, NamesOK
      <4>. QED
        BY <2>1, <3>2, <4>1 DEF ReadNotification, Dispatch, OwnTypeOK, readVars
    <3>3. CASE ReadToolRequest
      BY <3>3 DEF ReadToolRequest, OwnTypeOK, readVars
    <3>. QED
      BY <1>1, <3>1, <3>2, <3>3
  <2>. QED
    BY <1>1, <2>1, <2>2
    DEF ReadResponse, ReadNotification, ReadToolRequest, OwnTypeOK, ProtocolTypeOK, callVars, runVars,
        closeVars
<1>2. CASE DeliverResponse
  <2>1. TrySend(respCh[target], frame, 1) \in Chan(Frames, 1)
    BY <1>2, TrySendLemma DEF DeliverResponse, OwnTypeOK, ReaderInv
  <2>2. respCh' \in [Ids -> Chan(Frames, 1)]
    BY <1>2, <2>1 DEF DeliverResponse, OwnTypeOK
  <2>. QED
    BY <1>2, <2>2, NoFrameLemma
    DEF DeliverResponse, BackToScan, OwnTypeOK, ProtocolTypeOK, runVars, closeVars, childVars
<1>3. CASE SendRunMsg
  <2>1. TrySend(runCh[target], frame, RunBufCap) \in Chan(Frames, RunBufCap)
    BY <1>3, TrySendLemma, SupervisorAssumption DEF SendRunMsg, OwnTypeOK, ReaderInv
  <2>2. runCh' \in [Ids -> Chan(Frames, RunBufCap)]
    BY <1>3, <2>1 DEF SendRunMsg, OwnTypeOK
  <2>3. /\ reader' \in {"scan", "closeRun"} /\ frame' \in Frames /\ target' \in Ids \union {0}
    BY <1>3, NoFrameLemma DEF SendRunMsg, BackToScan, OwnTypeOK
  <2>. QED
    BY <1>3, <2>2, <2>3 DEF SendRunMsg, OwnTypeOK, ProtocolTypeOK, callVars, closeVars, childVars
<1>4. CASE SendOnClosed
  BY <1>4 DEF SendOnClosed, OwnTypeOK, ProtocolTypeOK, callVars, runVars, readVars, closeVars, childVars
<1>5. CASE CloseRun
  <2>1. \A id \in Ids : CloseChan(runCh[id]) \in Chan(Frames, RunBufCap)
    BY CloseChanLemma, SupervisorAssumption DEF OwnTypeOK
  <2>2. runCh' \in [Ids -> Chan(Frames, RunBufCap)] /\ runSubs' \in [Runs -> Ids \union {0}]
    BY <1>5, <2>1 DEF CloseRun, OwnTypeOK
  <2>. QED
    BY <1>5, <2>2 DEF CloseRun, OwnTypeOK, ProtocolTypeOK, callVars, closeVars, childVars
<1>6. CASE CloseTools
  BY <1>6, NoFrameLemma
  DEF CloseTools, BackToScan, OwnTypeOK, ProtocolTypeOK, callVars, runVars, closeVars, childVars
<1>7. CASE ReaderEnds
  BY <1>7 DEF ReaderEnds, OwnTypeOK, ProtocolTypeOK, callVars, runVars, closeVars, childVars
<1>. QED
  BY <1>1, <1>2, <1>3, <1>4, <1>5, <1>6, <1>7 DEF ReadStep

(* A step of the shutdown keeps the types. *)
LEMMA CloseTypes ==
  ASSUME OwnTypeOK, CloseStep
  PROVE  OwnTypeOK'
<1>1. CASE \/ BeginClose \/ SeeExited \/ GraceOver \/ CloseStopped \/ WatcherCloses \/ WatcherEnds
  <2>1. UNCHANGED <<callVars, runVars, readVars, childVars>>
    BY <1>1 DEF BeginClose, SeeExited, GraceOver, CloseStopped, WatcherCloses, WatcherEnds
  <2>2. CASE BeginClose
    BY <2>1, <2>2 DEF BeginClose, OwnTypeOK, ProtocolTypeOK, callVars, runVars, readVars, childVars
  <2>3. CASE SeeExited \/ GraceOver \/ CloseStopped
    BY <2>1, <2>3 DEF SeeExited, GraceOver, CloseStopped, OwnTypeOK, ProtocolTypeOK, callVars,
                      runVars, readVars, childVars
  <2>4. CASE WatcherEnds
    BY <2>1, <2>4 DEF WatcherEnds, OwnTypeOK, ProtocolTypeOK, callVars, runVars, readVars, childVars
  <2>. QED
    BY <1>1, <2>2, <2>3, <2>4 DEF WatcherCloses
<1>2. CASE FailPending
  <2>1. \A id \in Ids : CloseChan(TrySend(respCh[id], Frame("fail", id, NoRun, 0), 1)) \in Chan(Frames, 1)
    <3>1. \A id \in Ids : Frame("fail", id, NoRun, 0) \in Frames
      BY DEF Frame, Frames, FrameTypes
    <3>. QED
      BY <3>1, TrySendLemma, CloseChanLemma DEF OwnTypeOK
  <2>2. respCh' \in [Ids -> Chan(Frames, 1)]
    BY <1>2, <2>1 DEF FailPending, OwnTypeOK
  <2>. QED
    BY <1>2, <2>2 DEF FailPending, OwnTypeOK, ProtocolTypeOK, runVars, readVars, childVars
<1>3. CASE CloseRuns
  <2>1. \A id \in Ids : CloseChan(runCh[id]) \in Chan(Frames, RunBufCap)
    BY CloseChanLemma, SupervisorAssumption DEF OwnTypeOK
  <2>2. runCh' \in [Ids -> Chan(Frames, RunBufCap)] /\ runSubs' \in [Runs -> Ids \union {0}]
    BY <1>3, <2>1 DEF CloseRuns, OwnTypeOK
  <2>. QED
    BY <1>3, <2>2 DEF CloseRuns, OwnTypeOK, ProtocolTypeOK, callVars, readVars, childVars
<1>4. CASE AwaitExit
  <2>1. stdout' \in Seq(Frames)
    BY <1>4, SubSeqProperties DEF AwaitExit, OwnTypeOK, ProtocolTypeOK
  <2>. QED
    BY <1>4, <2>1 DEF AwaitExit, OwnTypeOK, ProtocolTypeOK, callVars, runVars, readVars
<1>. QED
  BY <1>1, <1>2, <1>3, <1>4 DEF CloseStep

(* The child writes frames of the protocol. *)
LEMMA ChildTypes ==
  ASSUME OwnTypeOK, ChildStep, UNCHANGED goVars
  PROVE  OwnTypeOK'
<1>1. ASSUME NEW type \in {"reply", "fail", "tool"} \union RunMsgTypes,
             NEW id \in Ids \union ToolReqs \union {0}, NEW r \in Runs \union {NoRun}, NEW n \in Nat,
             Write(Frame(type, id, r, n))
      PROVE  stdout' \in Seq(Frames)
  <2>1. Frame(type, id, r, n) \in Frames
    BY DEF Frame, Frames, FrameTypes
  <2>. QED
    BY <1>1, <2>1 DEF Write, OwnTypeOK, ProtocolTypeOK
<1>2. ProtocolTypeOK'
  <2>. USE DEF OwnTypeOK, ProtocolTypeOK, RunMsgTypes
  <2>1. ASSUME NEW id \in Ids, ChildReply(id)
        PROVE  ProtocolTypeOK'
    BY <1>1, <2>1 DEF ChildReply
  <2>2. ASSUME NEW id \in Ids, NEW r \in Runs, ChildStartRun(id, r)
        PROVE  ProtocolTypeOK'
    BY <2>2 DEF ChildStartRun
  <2>3. ASSUME NEW r \in Runs, ChildEvent(r)
        PROVE  ProtocolTypeOK'
    <3>1. emitted[r] + 1 \in Nat /\ 0 \in Ids \union ToolReqs \union {0}
      OBVIOUS
    <3>2. Write(Frame("event", 0, r, emitted[r] + 1))
      BY <2>3 DEF ChildEvent
    <3>3. stdout' \in Seq(Frames)
      BY <1>1, <3>1, <3>2
    <3>. QED
      BY <2>3, <3>1, <3>3 DEF ChildEvent
  <2>4. ASSUME NEW r \in Runs, ChildEndRun(r)
        PROVE  ProtocolTypeOK'
    <3>1. emitted[r] + 1 \in Nat /\ 0 \in Ids \union ToolReqs \union {0}
      OBVIOUS
    <3>2. Write(Frame("final", 0, r, emitted[r] + 1))
      BY <2>4 DEF ChildEndRun
    <3>3. stdout' \in Seq(Frames)
      BY <1>1, <3>1, <3>2
    <3>. QED
      BY <2>4, <3>1, <3>3 DEF ChildEndRun
  <2>5. ASSUME NEW r \in Runs \union {NoRun}, NEW t \in ToolReqs, ChildToolRequest(r, t)
        PROVE  ProtocolTypeOK'
    BY <1>1, <2>5 DEF ChildToolRequest
  <2>6. CASE ChildExit
    BY <2>6 DEF ChildExit
  <2>. QED
    BY <2>1, <2>2, <2>3, <2>4, <2>5, <2>6 DEF ChildStep
<1>. QED
  BY <1>2 DEF OwnTypeOK, goVars, runVars, readVars, closeVars

(* Every step keeps the types. *)
LEMMA TypesKept ==
  ASSUME SupInv, [Next]_vars
  PROVE  OwnTypeOK'
<1>1. OwnTypeOK /\ ReaderInv
  BY DEF SupInv
<1>2. CASE UNCHANGED ownVars
  BY <1>1, <1>2 DEF OwnTypeOK, ProtocolTypeOK, ownVars, goVars, runVars, readVars, closeVars, childVars
<1>. QED
  BY <1>1, <1>2, StepCases, StartTypes, CallTypes, ReadTypes, CloseTypes, ChildTypes

-----------------------------------------------------------------------------
(* What a step leaves alone. *)

(* ReplyOK, of the state a step leads to. *)
NextReplyOK(f, id) ==
  f.type = "reply" =>
    request'[id] = "answered" /\ f.run = runOf'[id] /\ (kind'[id] \in {"stream", "drain"} => f.run # NoRun)

(* A frame the child has just written. *)
NewFrame(f) ==
  /\ f \in Frames
  /\ NamesOK(f)
  /\ f.type = "reply" => f.id \in Ids /\ NextReplyOK(f, f.id)

(* The child adds one frame to its stdout at most. *)
LEMMA ChildFrames ==
  ASSUME OwnTypeOK, ChildStep
  PROVE  \/ stdout' = stdout
         \/ \E f \in Frames : NewFrame(f) /\ stdout' = Append(stdout, f)
<1>. USE DEF OwnTypeOK, ProtocolTypeOK, RunMsgTypes, NewFrame, NamesOK
<1>1. ASSUME NEW id \in Ids, ChildReply(id)
      PROVE  \E f \in Frames : NewFrame(f) /\ stdout' = Append(stdout, f)
  <2>1. request'[id] = "answered" /\ runOf' = runOf /\ kind' = kind
    BY <1>1 DEF ChildReply
  <2>2. CASE Write(Frame("reply", id, runOf[id], 0)) /\ (IsSend(id) => runOf[id] # NoRun)
    <3>. DEFINE f == Frame("reply", id, runOf[id], 0)
    <3>1. f \in Frames /\ f.type = "reply" /\ f.id = id /\ f.run = runOf[id]
      BY DEF Frame, Frames, FrameTypes
    <3>2. NewFrame(f)
      BY <2>1, <2>2, <3>1 DEF NextReplyOK, IsSend
    <3>3. stdout' = Append(stdout, f)
      BY <2>2 DEF Write
    <3>. HIDE DEF f, NewFrame
    <3>. QED
      BY <3>1, <3>2, <3>3
  <2>3. CASE Write(Frame("fail", id, NoRun, 0))
    <3>. DEFINE f == Frame("fail", id, NoRun, 0)
    <3>1. f \in Frames /\ f.type = "fail"
      BY DEF Frame, Frames, FrameTypes
    <3>2. NewFrame(f)
      BY <3>1
    <3>. QED
      BY <2>3, <3>1, <3>2 DEF Write
  <2>. QED
    BY <1>1, <2>2, <2>3 DEF ChildReply
<1>2. ASSUME NEW id \in Ids, NEW r \in Runs, ChildStartRun(id, r)
      PROVE  stdout' = stdout
  BY <1>2 DEF ChildStartRun
<1>3. ASSUME NEW r \in Runs, ChildEvent(r) \/ ChildEndRun(r)
      PROVE  \E f \in Frames : NewFrame(f) /\ stdout' = Append(stdout, f)
  <2>1. PICK type \in RunMsgTypes : Write(Frame(type, 0, r, emitted[r] + 1))
    BY <1>3 DEF ChildEvent, ChildEndRun
  <2>. DEFINE f == Frame(type, 0, r, emitted[r] + 1)
  <2>2. f \in Frames /\ f.type \in {"event", "final"} /\ f.run = r
    BY DEF Frame, Frames, FrameTypes
  <2>3. NewFrame(f)
    BY <2>2
  <2>. QED
    BY <2>1, <2>2, <2>3 DEF Write
<1>4. ASSUME NEW r \in Runs \union {NoRun}, NEW t \in ToolReqs, ChildToolRequest(r, t)
      PROVE  \E f \in Frames : NewFrame(f) /\ stdout' = Append(stdout, f)
  <2>. DEFINE f == Frame("tool", t, r, 0)
  <2>1. f \in Frames /\ f.type = "tool" /\ f.id = t
    BY DEF Frame, Frames, FrameTypes
  <2>2. NewFrame(f)
    BY <2>1
  <2>. QED
    BY <1>4, <2>1, <2>2 DEF Write, ChildToolRequest
<1>5. CASE ChildExit
  BY <1>5 DEF ChildExit
<1>. QED
  BY <1>1, <1>2, <1>3, <1>4, <1>5 DEF ChildStep

(* Whatever is on stdout after a step was there before, or is new. *)
LEMMA StdoutStep ==
  ASSUME OwnTypeOK, [Next]_vars
  PROVE  \A i \in 1 .. Len(stdout') :
           \/ \E j \in 1 .. Len(stdout) : stdout'[i] = stdout[j]
           \/ NewFrame(stdout'[i])
<1>. USE DEF OwnTypeOK, ProtocolTypeOK
<1>1. CASE stdout' = stdout
  BY <1>1
<1>2. CASE stdout # <<>> /\ stdout' = Tail(stdout)
  BY <1>2, ScanLemma
<1>3. CASE AwaitExit
  <2>1. PICK n \in 0 .. Len(stdout) : stdout' = SubSeq(stdout, 1, n)
    BY <1>3 DEF AwaitExit
  <2>2. \A i \in 1 .. Len(stdout') : i \in 1 .. Len(stdout) /\ stdout'[i] = stdout[i]
    <3>1. 1 \in Int /\ n \in Int /\ \A i \in 1 .. n : stdout[i] \in Frames
      OBVIOUS
    <3>2. /\ Len(stdout') = IF 1 <= n THEN n ELSE 0
          /\ \A i \in 1 .. n : stdout'[i] = stdout[i]
      BY <2>1, <3>1, SubSeqProperties
    <3>. QED
      BY <3>2
  <2>. QED
    BY <2>2
<1>4. ASSUME NEW f \in Frames, NewFrame(f), stdout' = Append(stdout, f), NEW i \in 1 .. Len(stdout')
      PROVE  \/ \E j \in 1 .. Len(stdout) : stdout'[i] = stdout[j]
             \/ NewFrame(stdout'[i])
  <2>1. CASE i \in 1 .. Len(stdout)
    <3>. stdout'[i] = stdout[i]
      BY <1>4, <2>1
    <3>. QED
      BY <2>1, Zenon
  <2>2. CASE i \notin 1 .. Len(stdout)
    <3>. stdout'[i] = f
      BY <1>4, <2>2
    <3>. QED
      BY <1>4, Zenon
  <2>. QED
    BY <2>1, <2>2
<1>5. ASSUME NEW id \in Ids, CallStep(id)
      PROVE  stdout' = stdout
  BY <1>5 DEF CallStep, WriteRequest, ReceiveReply, ReceiveClosed, Timeout, SeeStopped, RegisterRun,
              TakeRunMsg, SeeRunClosed, Disconnect, childVars
<1>6. CASE ReadStep
  BY <1>1, <1>2, <1>6
  DEF ReadStep, ReadResponse, DeliverResponse, ReadNotification, SendRunMsg, SendOnClosed, CloseRun,
      CloseTools, ReadToolRequest, ReaderEnds, ScanNext, childVars
<1>7. CASE CloseStep
  BY <1>1, <1>3, <1>7
  DEF CloseStep, BeginClose, SeeExited, GraceOver, FailPending, CloseRuns, CloseStopped,
      WatcherCloses, WatcherEnds, childVars
<1>8. ASSUME NEW k \in CallKinds, StartCall(k)
      PROVE  stdout' = stdout
  BY <1>8 DEF StartCall, childVars
<1>. QED
  BY <1>1, <1>4, <1>5, <1>6, <1>7, <1>8, StepCases, ChildFrames DEF ownVars, childVars

(* What was answered stays answered, with the same run, and keeps its kind.  *)
LEMMA AnsweredStable ==
  ASSUME OwnTypeOK, CallInv, [Next]_vars, NEW id \in Ids, request[id] = "answered"
  PROVE  request'[id] = "answered" /\ runOf'[id] = runOf[id] /\ kind'[id] = kind[id]
<1>. USE DEF OwnTypeOK, ProtocolTypeOK
<1>1. ASSUME NEW k \in CallKinds, StartCall(k)
      PROVE  kind'[id] = kind[id] /\ UNCHANGED <<request, runOf>>
  <2>1. id # idCounter + 1
    BY ProtocolAssumption DEF CallInv, Ids
  <2>. QED
    BY <1>1, <2>1 DEF StartCall, childVars
<1>2. ASSUME NEW j \in Ids, CallStep(j)
      PROVE  request'[id] = "answered" /\ UNCHANGED <<kind, runOf>>
  BY <1>2 DEF CallStep, WriteRequest, Ask, ReceiveReply, ReceiveClosed, Timeout, SeeStopped,
              RegisterRun, TakeRunMsg, SeeRunClosed, Disconnect, childVars
<1>3. CASE ReadStep
  BY <1>3
  DEF ReadStep, ReadResponse, DeliverResponse, ReadNotification, SendRunMsg, SendOnClosed, CloseRun,
      CloseTools, ReadToolRequest, ReaderEnds, callVars, childVars
<1>4. CASE CloseStep
  BY <1>4
  DEF CloseStep, BeginClose, SeeExited, GraceOver, FailPending, CloseRuns, CloseStopped, AwaitExit,
      WatcherCloses, WatcherEnds, callVars, childVars
<1>5. CASE ChildStep
  BY <1>5
  DEF ChildStep, ChildReply, ChildStartRun, ChildEvent, ChildEndRun, ChildToolRequest, ChildExit
<1>. QED
  BY <1>1, <1>2, <1>3, <1>4, <1>5, StepCases DEF ownVars, childVars

-----------------------------------------------------------------------------
(* The invariants, one step at a time. *)

(* The reader acts on the frame it has in hand. *)
LEMMA ReaderInvStep ==
  ASSUME OwnTypeOK, ReaderInv, [Next]_vars
  PROVE  ReaderInv'
<1>1. \A i \in 1 .. Len(stdout') : NamesOK(stdout'[i])
  BY StdoutStep DEF ReaderInv, NewFrame
<1>2. CASE UNCHANGED readVars
  BY <1>1, <1>2 DEF ReaderInv, readVars, NamesOK
<1>3. CASE ReadStep
  <2>1. CASE ReadResponse
    BY <1>1, <1>2, <2>1, ScanLemma
    DEF ReadResponse, ScanNext, Dispatch, ReaderInv, NamesOK, OwnTypeOK
  <2>2. CASE ReadNotification
    <3>1. Scanned.run \in Runs /\ Scanned.type \in RunMsgTypes
      BY <2>2, ScanLemma DEF ReadNotification, ScanNext, ReaderInv, NamesOK
    <3>2. runSubs[Scanned.run] # 0 => runSubs[Scanned.run] \in Ids
      BY <3>1 DEF OwnTypeOK
    <3>. QED
      BY <1>1, <1>2, <2>2, <3>1, <3>2 DEF ReadNotification, Dispatch, ReaderInv, NamesOK
  <2>3. CASE SendRunMsg
    BY <1>1, <2>3 DEF SendRunMsg, BackToScan, ReaderInv, NamesOK
  <2>4. CASE DeliverResponse \/ CloseTools
    BY <1>1, <2>4 DEF DeliverResponse, CloseTools, BackToScan, ReaderInv, NamesOK
  <2>5. CASE CloseRun \/ ReaderEnds
    BY <1>1, <2>5 DEF CloseRun, ReaderEnds, ReaderInv, NamesOK
  <2>6. CASE SendOnClosed \/ ReadToolRequest
    BY <1>2, <2>6 DEF SendOnClosed, ReadToolRequest
  <2>. QED
    BY <1>3, <2>1, <2>2, <2>3, <2>4, <2>5, <2>6 DEF ReadStep
<1>4. ASSUME NEW id \in Ids, CallStep(id)
      PROVE  UNCHANGED readVars
  BY <1>4 DEF CallStep, WriteRequest, ReceiveReply, ReceiveClosed, Timeout, SeeStopped, RegisterRun,
              TakeRunMsg, SeeRunClosed, Disconnect
<1>5. CASE CloseStep
  BY <1>2, <1>5
  DEF CloseStep, BeginClose, SeeExited, GraceOver, FailPending, CloseRuns, CloseStopped, AwaitExit,
      WatcherCloses, WatcherEnds
<1>6. ASSUME NEW k \in CallKinds, StartCall(k)
      PROVE  UNCHANGED readVars
  BY <1>6 DEF StartCall
<1>. QED
  BY <1>2, <1>3, <1>4, <1>5, <1>6, StepCases DEF ownVars, goVars

(* A call's own steps move that call only. *)
LEMMA CallFrame ==
  ASSUME OwnTypeOK, NEW id \in Ids, CallStep(id)
  PROVE  /\ \A j \in Ids \ {id} :
              /\ caller'[j] = caller[j] /\ request'[j] = request[j] /\ respCh'[j] = respCh[j]
              /\ gotRun'[j] = gotRun[j] /\ runCh'[j] = runCh[j] /\ seen'[j] = seen[j]
         /\ caller[id] # "idle" /\ caller'[id] # "idle"
         /\ pending' \subseteq pending
         /\ caller'[id] \notin Calling => id \notin pending' \/ caller[id] \notin Calling
         /\ respCh'[id].closed = respCh[id].closed
         /\ UNCHANGED <<idCounter, reader, frame, target>>
<1>1. CASE WriteRequest(id)
  BY <1>1
  DEF WriteRequest, Ask, Cleanup, End, Calling, OwnTypeOK, ProtocolTypeOK, runVars, readVars, closeVars
<1>2. CASE ReceiveReply(id)
  BY <1>2
  DEF ReceiveReply, Receive, Cleanup, End, Calling, OwnTypeOK, ProtocolTypeOK, runVars, readVars,
      childVars, Chan
<1>3. CASE ReceiveClosed(id) \/ Timeout(id) \/ SeeStopped(id)
  BY <1>3
  DEF ReceiveClosed, Timeout, SeeStopped, Cleanup, End, Calling, OwnTypeOK, ProtocolTypeOK, runVars,
      readVars, childVars
<1>4. CASE RegisterRun(id) \/ SeeRunClosed(id) \/ Disconnect(id)
  BY <1>4
  DEF RegisterRun, SeeRunClosed, Disconnect, End, Calling, OwnTypeOK, ProtocolTypeOK, runVars,
      readVars, childVars
<1>5. CASE TakeRunMsg(id)
  BY <1>5
  DEF TakeRunMsg, End, Calling, OwnTypeOK, ProtocolTypeOK, readVars, childVars
<1>. QED
  BY <1>1, <1>2, <1>3, <1>4, <1>5 DEF CallStep

(* An id is used once; a pending call waits, and its channel is open. *)
LEMMA CallInvStep ==
  ASSUME OwnTypeOK, ReaderInv, CallInv, [Next]_vars
  PROVE  CallInv'
<1>. USE DEF OwnTypeOK, ProtocolTypeOK
<1>1. ASSUME UNCHANGED <<idCounter, caller, pending>>,
             \A id \in Ids : respCh'[id].closed = respCh[id].closed,
             \A id \in Ids : request[id] = "none" => request'[id] = "none"
      PROVE  CallInv'
  BY <1>1 DEF CallInv, PendingHasCaller
<1>2. ASSUME NEW k \in CallKinds, StartCall(k)
      PROVE  CallInv'
  <2>. DEFINE id == idCounter + 1
  <2>1. id \in Ids /\ caller[id] = "idle"
    BY <1>2, ProtocolAssumption DEF StartCall, CallInv, Ids
  <2>2. /\ idCounter' = id /\ caller' = [caller EXCEPT ![id] = "write"]
        /\ pending' = pending \union {id} /\ UNCHANGED <<respCh, request>>
    BY <1>2 DEF StartCall, childVars
  <2>3. PendingHasCaller'
    BY <2>1, <2>2 DEF CallInv, PendingHasCaller, Calling
  <2>4. \A j \in Ids : j > idCounter' => caller'[j] = "idle"
    BY <2>1, <2>2, ProtocolAssumption DEF CallInv, Ids
  <2>. QED
    BY <2>1, <2>2, <2>3, <2>4 DEF CallInv
<1>3. ASSUME NEW id \in Ids, CallStep(id)
      PROVE  CallInv'
  <2>1. /\ \A j \in Ids \ {id} :
              caller'[j] = caller[j] /\ request'[j] = request[j] /\ respCh'[j] = respCh[j]
        /\ caller[id] # "idle" /\ caller'[id] # "idle"
        /\ pending' \subseteq pending
        /\ caller'[id] \notin Calling => id \notin pending' \/ caller[id] \notin Calling
        /\ respCh'[id].closed = respCh[id].closed
        /\ idCounter' = idCounter
    BY <1>3, CallFrame, Zenon
  <2>2. PendingHasCaller'
    BY <2>1 DEF CallInv, PendingHasCaller
  <2>. QED
    BY <2>1, <2>2 DEF CallInv
<1>4. CASE ReadStep
  <2>1. UNCHANGED <<idCounter, caller, pending, request>>
    BY <1>4
    DEF ReadStep, ReadResponse, DeliverResponse, ReadNotification, SendRunMsg, SendOnClosed, CloseRun,
        CloseTools, ReadToolRequest, ReaderEnds, callVars, childVars
  <2>2. \A id \in Ids : respCh'[id].closed = respCh[id].closed
    <3>1. CASE DeliverResponse
      <4>1. TrySend(respCh[target], frame, 1).closed = respCh[target].closed
        BY <3>1, TrySendLemma DEF DeliverResponse, ReaderInv
      <4>. QED
        BY <3>1, <4>1 DEF DeliverResponse
    <3>2. CASE UNCHANGED respCh
      BY <3>2
    <3>. QED
      BY <1>4, <3>1, <3>2
      DEF ReadStep, ReadResponse, ReadNotification, SendRunMsg, SendOnClosed, CloseRun, CloseTools,
          ReadToolRequest, ReaderEnds, callVars
  <2>. QED
    BY <1>1, <2>1, <2>2
<1>5. CASE FailPending
  <2>1. UNCHANGED <<idCounter, caller, request>> /\ pending' = {}
    BY <1>5 DEF FailPending, childVars
  <2>2. \A id \in Ids \ pending : respCh'[id] = respCh[id]
    BY <1>5 DEF FailPending
  <2>3. \A id \in Ids : caller[id] = "idle" => id \notin pending
    BY DEF CallInv, PendingHasCaller, Calling
  <2>. QED
    BY <2>1, <2>2, <2>3 DEF CallInv, PendingHasCaller
<1>6. CASE CloseStep /\ ~FailPending
  BY <1>1, <1>6
  DEF CloseStep, BeginClose, SeeExited, GraceOver, CloseRuns, CloseStopped, AwaitExit, WatcherCloses,
      WatcherEnds, callVars, childVars
<1>7. CASE ChildStep /\ UNCHANGED goVars
  <2>1. \A id \in Ids : request[id] = "none" => request'[id] = "none"
    BY <1>7
    DEF ChildStep, ChildReply, ChildStartRun, ChildEvent, ChildEndRun, ChildToolRequest, ChildExit
  <2>. QED
    BY <1>1, <1>7, <2>1 DEF goVars
<1>8. CASE UNCHANGED ownVars
  BY <1>1, <1>8 DEF ownVars, goVars, childVars
<1>. QED
  BY <1>2, <1>3, <1>4, <1>5, <1>6, <1>7, <1>8, StepCases

(* Replies reach the call they are for. *)
LEMMA ReplyInvStep ==
  ASSUME OwnTypeOK, ReaderInv, CallInv, ReplyInv, [Next]_vars
  PROVE  ReplyInv'
<1>1. ASSUME NEW f, NEW id \in Ids, ReplyOK(f, id)
      PROVE  NextReplyOK(f, id)
  BY <1>1, AnsweredStable DEF ReplyOK, NextReplyOK, IsSend
<1>2. \A i \in 1 .. Len(stdout') :
        stdout'[i].type = "reply" => stdout'[i].id \in Ids /\ NextReplyOK(stdout'[i], stdout'[i].id)
  <2>. TAKE i \in 1 .. Len(stdout')
  <2>1. CASE \E j \in 1 .. Len(stdout) : stdout'[i] = stdout[j]
    BY <1>1, <2>1 DEF ReplyInv
  <2>2. CASE NewFrame(stdout'[i])
    BY <2>2 DEF NewFrame
  <2>. QED
    BY <2>1, <2>2, StdoutStep
<1>3. ASSUME NEW id \in Ids, respCh'[id] = respCh[id]
      PROVE  \A i \in 1 .. Len(respCh'[id].buf) : NextReplyOK(respCh'[id].buf[i], id)
  BY <1>1, <1>3 DEF ReplyInv
<1>4. ASSUME NEW id \in Ids, respCh'[id] = Receive(respCh[id]), HasMessage(respCh[id])
      PROVE  \A i \in 1 .. Len(respCh'[id].buf) : NextReplyOK(respCh'[id].buf[i], id)
  <2>1. respCh[id].buf \in Seq(Frames) /\ respCh[id].buf # <<>> /\ respCh'[id].buf = Tail(respCh[id].buf)
    BY <1>4 DEF OwnTypeOK, Chan, Receive, HasMessage
  <2>2. \A i \in 1 .. Len(respCh'[id].buf) :
          i + 1 \in 1 .. Len(respCh[id].buf) /\ respCh'[id].buf[i] = respCh[id].buf[i + 1]
    BY <2>1
  <2>. QED
    BY <1>1, <2>2 DEF ReplyInv
<1>5. ASSUME NEW id \in Ids, NEW f \in Frames, ReplyOK(f, id),
             respCh'[id].buf = TrySend(respCh[id], f, 1).buf
      PROVE  \A i \in 1 .. Len(respCh'[id].buf) : NextReplyOK(respCh'[id].buf[i], id)
  <2>1. respCh[id].buf \in Seq(Frames) /\ respCh[id] \in [buf : Seq(Frames), closed : BOOLEAN]
    BY DEF OwnTypeOK, Chan
  <2>2. respCh'[id].buf = respCh[id].buf \/ respCh'[id].buf = Append(respCh[id].buf, f)
    BY <1>5, <2>1 DEF TrySend
  <2>3. \A i \in 1 .. Len(respCh'[id].buf) :
          \/ i \in 1 .. Len(respCh[id].buf) /\ respCh'[id].buf[i] = respCh[id].buf[i]
          \/ respCh'[id].buf[i] = f
    BY <2>1, <2>2
  <2>. QED
    BY <1>1, <1>5, <2>3 DEF ReplyInv
<1>6. \A id \in Ids : \A i \in 1 .. Len(respCh'[id].buf) : NextReplyOK(respCh'[id].buf[i], id)
  <2>1. ASSUME NEW k \in CallKinds, StartCall(k)
        PROVE  UNCHANGED respCh
    BY <2>1 DEF StartCall
  <2>2. ASSUME NEW id \in Ids, ReceiveReply(id)
        PROVE  \A j \in Ids : \/ respCh'[j] = respCh[j]
                              \/ respCh'[j] = Receive(respCh[j]) /\ HasMessage(respCh[j])
    BY <2>2, Zenon DEF ReceiveReply, OwnTypeOK
  <2>3. ASSUME NEW id \in Ids, CallStep(id), ~ReceiveReply(id)
        PROVE  UNCHANGED respCh
    BY <2>3 DEF CallStep, WriteRequest, ReceiveClosed, Timeout, SeeStopped, RegisterRun,
                TakeRunMsg, SeeRunClosed, Disconnect
  <2>4. CASE DeliverResponse
    <3>1. target \in Ids /\ frame \in Frames /\ ReplyOK(frame, target)
      BY <2>4 DEF DeliverResponse, ReaderInv, ReplyInv, OwnTypeOK
    <3>2. /\ respCh'[target] = TrySend(respCh[target], frame, 1)
          /\ \A j \in Ids \ {target} : respCh'[j] = respCh[j]
      BY <2>4, <3>1 DEF DeliverResponse, OwnTypeOK
    <3>. QED
      BY <1>3, <1>5, <3>1, <3>2
  <2>5. CASE ReadStep /\ ~DeliverResponse
    BY <1>3, <2>5
    DEF ReadStep, ReadResponse, ReadNotification, SendRunMsg, SendOnClosed, CloseRun, CloseTools,
        ReadToolRequest, ReaderEnds, callVars
  <2>6. CASE FailPending
    <3>. DEFINE f(id) == Frame("fail", id, NoRun, 0)
    <3>1. \A id \in Ids : f(id) \in Frames /\ ReplyOK(f(id), id)
      BY DEF Frame, Frames, FrameTypes, ReplyOK
    <3>2. \A id \in Ids : TrySend(respCh[id], f(id), 1) \in [buf : Seq(Frames), closed : BOOLEAN]
      BY <3>1, TrySendLemma DEF OwnTypeOK, Chan
    <3>3. \A id \in Ids : \/ respCh'[id] = respCh[id]
                          \/ respCh'[id].buf = TrySend(respCh[id], f(id), 1).buf
      BY <2>6, <3>2 DEF FailPending, CloseChan
    <3>. QED
      BY <1>3, <1>5, <3>1, <3>3
  <2>7. CASE CloseStep /\ ~FailPending
    BY <1>3, <2>7
    DEF CloseStep, BeginClose, SeeExited, GraceOver, CloseRuns, CloseStopped, AwaitExit,
        WatcherCloses, WatcherEnds, callVars
  <2>8. CASE UNCHANGED goVars
    BY <1>3, <2>8 DEF goVars
  <2>. QED
    BY <1>3, <1>4, <2>1, <2>2, <2>3, <2>4, <2>5, <2>6, <2>7, <2>8, StepCases DEF ownVars
<1>7. reader' = "deliver" => NextReplyOK(frame', target')
  <2>1. CASE UNCHANGED readVars
    BY <1>1, <2>1 DEF ReplyInv, ReaderInv, readVars
  <2>2. CASE ReadResponse
    <3>1. Scanned.id \in pending => Scanned.id \in Ids /\ ReplyOK(Scanned, Scanned.id)
      BY <2>2, ScanLemma DEF ReadResponse, ScanNext, ReplyInv, OwnTypeOK, ReplyOK
    <3>. QED
      BY <1>1, <2>1, <2>2, <3>1 DEF ReadResponse, Dispatch
  <2>3. CASE ReadStep /\ ~ReadResponse
    BY <2>1, <2>3
    DEF ReadStep, DeliverResponse, ReadNotification, SendRunMsg, SendOnClosed, CloseRun, CloseTools,
        ReadToolRequest, ReaderEnds, BackToScan, Dispatch
  <2>4. ASSUME NEW k \in CallKinds, StartCall(k)
        PROVE  UNCHANGED readVars
    BY <2>4 DEF StartCall
  <2>5. ASSUME NEW id \in Ids, CallStep(id)
        PROVE  UNCHANGED readVars
    BY <2>5, CallFrame DEF readVars
  <2>6. CASE CloseStep
    BY <2>1, <2>6
    DEF CloseStep, BeginClose, SeeExited, GraceOver, FailPending, CloseRuns, CloseStopped, AwaitExit,
        WatcherCloses, WatcherEnds
  <2>. QED
    BY <2>1, <2>2, <2>3, <2>4, <2>5, <2>6, StepCases DEF ownVars, goVars
<1>. QED
  BY <1>2, <1>6, <1>7 DEF ReplyInv, ReplyOK, NextReplyOK, IsSend

(* Nobody comes back to the calls that have not subscribed.                  *)
LEMMA EarlyStays ==
  ASSUME OwnTypeOK, CallInv, [Next]_vars, NEW id \in Ids, caller'[id] \in Early
  PROVE  caller[id] \in Early
<1>. USE DEF Early, Calling
<1>1. ASSUME NEW k \in CallKinds, StartCall(k)
      PROVE  caller[id] \in Early
  <2>1. /\ caller[idCounter + 1] = "idle"
        /\ \A j \in Ids \ {idCounter + 1} : caller'[j] = caller[j]
    BY <1>1, ProtocolAssumption DEF StartCall, CallInv, OwnTypeOK, Ids
  <2>. QED
    BY <2>1
<1>2. ASSUME NEW j \in Ids, CallStep(j)
      PROVE  caller[id] \in Early
  <2>1. CASE id # j
    BY <1>2, <2>1, CallFrame
  <2>2. CASE id = j
    BY <1>2, <2>2
    DEF CallStep, WriteRequest, ReceiveReply, ReceiveClosed, Timeout, SeeStopped, RegisterRun,
        TakeRunMsg, SeeRunClosed, Disconnect, End, OwnTypeOK
  <2>. QED
    BY <2>1, <2>2
<1>3. CASE ReadStep
  BY <1>3
  DEF ReadStep, ReadResponse, DeliverResponse, ReadNotification, SendRunMsg, SendOnClosed, CloseRun,
      CloseTools, ReadToolRequest, ReaderEnds, callVars
<1>4. CASE CloseStep
  BY <1>4
  DEF CloseStep, BeginClose, SeeExited, GraceOver, FailPending, CloseRuns, CloseStopped, AwaitExit,
      WatcherCloses, WatcherEnds, callVars
<1>5. CASE UNCHANGED goVars
  BY <1>5 DEF goVars
<1>. QED
  BY <1>1, <1>2, <1>3, <1>4, <1>5, StepCases DEF ownVars

(* A handler's channel is nobody's until RegisterRun files it. *)
LEMMA UntouchedStep ==
  ASSUME OwnTypeOK, ReaderInv, CallInv, RunInv, [Next]_vars, NEW id \in Ids, caller'[id] \in Early
  PROVE  Untouched(id)'
<1>1. Untouched(id) /\ caller[id] \in Early
  BY EarlyStays DEF RunInv
<1>2. CASE UNCHANGED <<runVars, readVars>>
  BY <1>1, <1>2 DEF Untouched, runVars, readVars
<1>3. ASSUME NEW k \in CallKinds, StartCall(k)
      PROVE  Untouched(id)'
  BY <1>2, <1>3 DEF StartCall
<1>4. ASSUME NEW j \in Ids, CallStep(j)
      PROVE  Untouched(id)'
  <2>1. CASE RegisterRun(j)
    <3>1. id # j
      BY <2>1 DEF RegisterRun, Early, Calling, OwnTypeOK
    <3>. QED
      BY <1>1, <2>1, <3>1 DEF RegisterRun, Untouched, OwnTypeOK, readVars
  <2>2. CASE TakeRunMsg(j)
    <3>1. id # j
      BY <1>1, <2>2 DEF TakeRunMsg, Early, Calling
    <3>. QED
      BY <1>1, <2>2, <3>1 DEF TakeRunMsg, Untouched, OwnTypeOK, readVars
  <2>. QED
    BY <1>2, <1>4, <2>1, <2>2
    DEF CallStep, WriteRequest, ReceiveReply, ReceiveClosed, Timeout, SeeStopped, SeeRunClosed, Disconnect
<1>5. CASE ReadStep
  <2>1. CASE ReadNotification
    <3>1. Scanned.run \in Runs
      BY <2>1, ScanLemma DEF ReadNotification, ScanNext, ReaderInv, NamesOK
    <3>. QED
      BY <1>1, <2>1, <3>1 DEF ReadNotification, Dispatch, Untouched, runVars, readVars
  <2>2. CASE SendRunMsg
    BY <1>1, <2>2 DEF SendRunMsg, BackToScan, Untouched, OwnTypeOK
  <2>3. CASE CloseRun
    <3>1. frame.run \in Runs
      BY <2>3 DEF CloseRun, ReaderInv
    <3>2. runCh'[id] = runCh[id]
      BY <1>1, <2>3, <3>1 DEF CloseRun, Untouched
    <3>3. \A r \in Runs : runSubs'[r] = runSubs[r] \/ runSubs'[r] = 0
      BY <2>3 DEF CloseRun, OwnTypeOK
    <3>4. id # 0
      BY DEF Ids
    <3>. QED
      BY <1>1, <2>3, <3>2, <3>3, <3>4 DEF CloseRun, Untouched
  <2>4. CASE ReadResponse \/ DeliverResponse \/ CloseTools \/ ReaderEnds
    BY <1>1, <2>4
    DEF ReadResponse, Dispatch, DeliverResponse, CloseTools, BackToScan, ReaderEnds, Untouched,
        runVars, readVars
  <2>. QED
    BY <1>2, <1>5, <2>1, <2>2, <2>3, <2>4 DEF ReadStep, SendOnClosed, ReadToolRequest
<1>6. CASE CloseRuns
  <2>1. runCh'[id] = runCh[id]
    BY <1>1, <1>6 DEF CloseRuns, Untouched
  <2>2. id # 0
    BY DEF Ids
  <2>. QED
    BY <1>1, <1>6, <2>1, <2>2 DEF CloseRuns, Untouched, readVars
<1>7. CASE CloseStep /\ ~CloseRuns
  BY <1>2, <1>7
  DEF CloseStep, BeginClose, SeeExited, GraceOver, FailPending, CloseStopped, AwaitExit,
      WatcherCloses, WatcherEnds
<1>8. CASE UNCHANGED goVars
  BY <1>2, <1>8 DEF goVars
<1>. QED
  BY <1>3, <1>4, <1>5, <1>6, <1>7, <1>8, StepCases DEF ownVars

(* The run a call was told is the run the child started for it. *)
LEMMA GotRunStep ==
  ASSUME OwnTypeOK, ReaderInv, CallInv, ReplyInv, RunInv, [Next]_vars, NEW id \in Ids
  PROVE  /\ gotRun'[id] # NoRun => request'[id] = "answered" /\ gotRun'[id] = runOf'[id]
         /\ caller'[id] = "registerRun" => gotRun'[id] # NoRun
<1>1. CASE gotRun'[id] = gotRun[id] /\ (caller'[id] = "registerRun" => caller[id] = "registerRun")
  BY <1>1, AnsweredStable DEF RunInv
<1>2. CASE ReceiveReply(id)
  <2>. DEFINE resp == Head(respCh[id].buf)
  <2>1. ReplyOK(resp, id)
    <3>1. respCh[id].buf \in Seq(Frames) /\ respCh[id].buf # <<>>
      BY <1>2 DEF ReceiveReply, HasMessage, OwnTypeOK, Chan
    <3>2. 1 \in 1 .. Len(respCh[id].buf) /\ resp = respCh[id].buf[1]
      BY <3>1
    <3>. QED
      BY <3>2 DEF ReplyInv
  <2>2. CASE resp.type = "reply" /\ IsSend(id)
    <3>1. gotRun'[id] = resp.run /\ UNCHANGED <<request, runOf>>
      BY <1>2, <2>2 DEF ReceiveReply, childVars, OwnTypeOK
    <3>. QED
      BY <2>1, <2>2, <3>1 DEF ReplyOK
  <2>3. CASE ~(resp.type = "reply" /\ IsSend(id))
    BY <1>1, <1>2, <2>3 DEF ReceiveReply, End, OwnTypeOK
  <2>. QED
    BY <2>2, <2>3
<1>3. ASSUME NEW k \in CallKinds, StartCall(k)
      PROVE  gotRun'[id] = gotRun[id] /\ (caller'[id] = "registerRun" => caller[id] = "registerRun")
  BY <1>3 DEF StartCall, OwnTypeOK
<1>4. ASSUME NEW j \in Ids, CallStep(j), ~(j = id /\ ReceiveReply(id))
      PROVE  gotRun'[id] = gotRun[id] /\ (caller'[id] = "registerRun" => caller[id] = "registerRun")
  <2>1. CASE id # j
    BY <1>4, <2>1, CallFrame
  <2>2. CASE id = j
    BY <1>4, <2>2
    DEF CallStep, WriteRequest, ReceiveClosed, Timeout, SeeStopped, RegisterRun, TakeRunMsg,
        SeeRunClosed, Disconnect, End, OwnTypeOK
  <2>. QED
    BY <2>1, <2>2
<1>5. CASE ReadStep
  BY <1>1, <1>5
  DEF ReadStep, ReadResponse, DeliverResponse, ReadNotification, SendRunMsg, SendOnClosed, CloseRun,
      CloseTools, ReadToolRequest, ReaderEnds, callVars
<1>6. CASE CloseStep
  BY <1>1, <1>6
  DEF CloseStep, BeginClose, SeeExited, GraceOver, FailPending, CloseRuns, CloseStopped, AwaitExit,
      WatcherCloses, WatcherEnds, callVars
<1>7. CASE UNCHANGED goVars
  BY <1>1, <1>7 DEF goVars
<1>. QED
  BY <1>1, <1>2, <1>3, <1>4, <1>5, <1>6, <1>7, StepCases DEF ownVars

(* What is filed under a run is the open channel of a call that was told it. *)
LEMMA SubscriptionStep ==
  ASSUME OwnTypeOK, ReaderInv, RunInv, [Next]_vars
  PROVE  SubscriptionOpen' /\ (reader' = "send" => gotRun'[target'] = frame'.run)
<1>. USE DEF SubscriptionOpen, OwnTypeOK
<1>0. SubscriptionOpen /\ (reader = "send" => gotRun[target] = frame.run)
  BY DEF RunInv
<1>1. CASE UNCHANGED <<runSubs, runCh, gotRun, readVars>>
  BY <1>0, <1>1 DEF readVars
<1>2. ASSUME NEW k \in CallKinds, StartCall(k)
      PROVE  UNCHANGED <<runSubs, runCh, gotRun, readVars>>
  BY <1>2 DEF StartCall, runVars
<1>3. ASSUME NEW id \in Ids, CallStep(id)
      PROVE  SubscriptionOpen' /\ (reader' = "send" => gotRun'[target'] = frame'.run)
  <2>1. CASE ReceiveReply(id)
    <3>1. (\A r \in Runs : runSubs[r] # id) /\ (reader = "send" => target # id)
      BY <2>1 DEF ReceiveReply, RunInv, Early, Calling, Untouched
    <3>2. UNCHANGED <<runSubs, runCh, readVars>> /\ \A j \in Ids \ {id} : gotRun'[j] = gotRun[j]
      BY <2>1 DEF ReceiveReply, runVars
    <3>. QED
      BY <1>0, <3>1, <3>2 DEF ReaderInv, readVars
  <2>2. CASE RegisterRun(id)
    <3>1. ~runCh[id].closed /\ gotRun[id] \in Runs
      BY <2>2 DEF RegisterRun, RunInv, Early, Untouched
    <3>. QED
      BY <1>0, <2>2, <3>1 DEF RegisterRun, readVars
  <2>3. CASE TakeRunMsg(id)
    <3>1. \A j \in Ids : runCh'[j].closed = runCh[j].closed
      BY <2>3, SupervisorAssumption, ReceiveLemma DEF TakeRunMsg
    <3>. QED
      BY <1>0, <2>3, <3>1 DEF TakeRunMsg, readVars
  <2>. QED
    BY <1>1, <1>3, <2>1, <2>2, <2>3
    DEF CallStep, WriteRequest, ReceiveClosed, Timeout, SeeStopped, SeeRunClosed, Disconnect, runVars
<1>4. CASE ReadStep
  <2>1. CASE ReadNotification
    <3>1. Scanned.run \in Runs
      BY <2>1, ScanLemma DEF ReadNotification, ScanNext, ReaderInv, NamesOK
    <3>2. UNCHANGED <<runSubs, runCh, gotRun>>
      BY <2>1 DEF ReadNotification, runVars, callVars
    <3>3. reader' = "send" => /\ target' = runSubs[Scanned.run] /\ target' # 0 /\ frame' = Scanned
                              \/ UNCHANGED readVars
      BY <2>1 DEF ReadNotification, Dispatch
    <3>. QED
      BY <1>0, <3>1, <3>2, <3>3 DEF readVars
  <2>2. CASE SendRunMsg
    <3>1. \A j \in Ids : runCh'[j].closed = runCh[j].closed
      BY <2>2, SupervisorAssumption, TrySendLemma DEF SendRunMsg, ReaderInv
    <3>. QED
      BY <1>0, <2>2, <3>1 DEF SendRunMsg, BackToScan, callVars
  <2>3. CASE CloseRun
    <3>. DEFINE r == frame.run
    <3>1. r \in Runs /\ UNCHANGED gotRun /\ reader' = "closeTools"
      BY <2>3 DEF CloseRun, ReaderInv, callVars
    <3>2. /\ runSubs'[r] = 0
          /\ \A q \in Runs \ {r} : runSubs'[q] = runSubs[q]
          /\ \A j \in Ids : j # runSubs[r] => runCh'[j] = runCh[j]
      BY <2>3, <3>1 DEF CloseRun
    <3>3. \A q \in Runs \ {r} : runSubs[q] # 0 => runSubs[q] # runSubs[r]
      BY <1>0, <3>1
    <3>. QED
      BY <1>0, <3>1, <3>2, <3>3
  <2>4. CASE ReadResponse \/ DeliverResponse \/ CloseTools \/ ReaderEnds
    BY <1>0, <2>4
    DEF ReadResponse, Dispatch, DeliverResponse, CloseTools, BackToScan, ReaderEnds, callVars,
        runVars, readVars
  <2>. QED
    BY <1>1, <1>4, <2>1, <2>2, <2>3, <2>4
    DEF ReadStep, SendOnClosed, ReadToolRequest, callVars, runVars
<1>5. CASE CloseRuns
  BY <1>0, <1>5 DEF CloseRuns, callVars, readVars
<1>6. CASE CloseStep /\ ~CloseRuns
  BY <1>1, <1>6
  DEF CloseStep, BeginClose, SeeExited, GraceOver, FailPending, CloseStopped, AwaitExit,
      WatcherCloses, WatcherEnds, callVars, runVars
<1>7. CASE UNCHANGED goVars
  BY <1>1, <1>7 DEF goVars, runVars
<1>. QED
  BY <1>1, <1>2, <1>3, <1>4, <1>5, <1>6, <1>7, StepCases DEF ownVars

(* The invariant is inductive. *)
LEMMA SupInvStep ==
  ASSUME SupInv, [Next]_vars
  PROVE  SupInv'
<1>1. OwnTypeOK' /\ ReaderInv' /\ CallInv' /\ ReplyInv'
  BY TypesKept, ReaderInvStep, CallInvStep, ReplyInvStep DEF SupInv
<1>2. RunInv'
  BY GotRunStep, UntouchedStep, SubscriptionStep DEF SupInv, RunInv
<1>. QED
  BY <1>1, <1>2 DEF SupInv

(* The invariant holds throughout. *)
LEMMA SupInvariant == Spec => []SupInv
<1>1. Init => SupInv
  BY SupInvInit
<1>2. SupInv /\ [Next]_vars => SupInv'
  BY SupInvStep
<1>. QED
  BY <1>1, <1>2, PTL DEF Spec

(* No entry of the pending map outlives its call or holds a closed channel. *)
THEOREM PendingEntriesAreLive == Spec => []PendingHasCaller
<1>1. SupInv => PendingHasCaller
  BY DEF SupInv, CallInv
<1>. QED
  BY <1>1, SupInvariant, PTL

(* A run channel in the map is open and filed under its own run. *)
THEOREM SubscriptionsAreOpen == Spec => []SubscriptionOpen
<1>1. SupInv => SubscriptionOpen
  BY DEF SupInv, RunInv
<1>. QED
  BY <1>1, SupInvariant, PTL

-----------------------------------------------------------------------------
(* The tool calls in the composition. *)

(* Every step of the supervisor is one of ToolCalls, or leaves it alone. *)
LEMMA ToolsStep ==
  ASSUME OwnTypeOK, ReaderInv, [Next]_vars
  PROVE  [ToolNext]_toolSpecVars
<1>. USE DEF toolSpecVars
<1>1. CASE UNCHANGED <<panic, stopped, toolVars>>
  BY <1>1
<1>2. CASE panic = "no" /\ ReaderRuns
  <2>1. CASE Quiet(ReaderStep)
    BY <1>1, <2>1 DEF Quiet
  <2>2. CASE SendOnClosed /\ UNCHANGED <<stopped, toolVars>>
    BY <1>2, <2>2 DEF SendOnClosed, ToolNext, ToolEnvironment
  <2>3. CASE CloseRun /\ UNCHANGED <<stopped, toolVars>>
    <3>1. panic' = panic \/ panic' = "close"
      BY <2>3 DEF CloseRun
    <3>. QED
      BY <1>1, <1>2, <2>3, <3>1 DEF ToolNext, ToolEnvironment
  <2>4. CASE CloseTools /\ UNCHANGED stopped
    <3>1. frame.run \in Runs /\ CloseRunTools(frame.run)
      BY <2>4 DEF CloseTools, ReaderInv
    <3>. QED
      BY <1>2, <2>4, <3>1 DEF ToolNext, ToolEnvironment
  <2>5. CASE ReadToolRequest /\ UNCHANGED <<panic, stopped>>
    <3>1. Scanned.id \in ToolReqs /\ Scanned.run \in Runs \union {NoRun}
      BY <2>5, ScanLemma DEF ReadToolRequest, ScanNext, ReaderInv, NamesOK, Frames
    <3>2. Inbound(Scanned.id, Scanned.run)
      BY <2>5 DEF ReadToolRequest
    <3>. QED
      BY <1>2, <2>5, <3>1, <3>2 DEF ToolNext, ToolEnvironment
  <2>. QED
    BY <1>2, <2>1, <2>2, <2>3, <2>4, <2>5 DEF ReaderRuns
<1>3. CASE panic = "no" /\ CloserRuns
  <2>1. CASE Quiet(CloserStep)
    BY <1>1, <2>1 DEF Quiet
  <2>2. CASE (FailPending \/ CloseRuns) /\ UNCHANGED <<stopped, toolVars>>
    <3>1. panic' = panic \/ panic' = "close"
      BY <2>2 DEF FailPending, CloseRuns
    <3>. QED
      BY <1>1, <1>3, <2>2, <3>1 DEF ToolNext, ToolEnvironment
  <2>3. CASE CloseStopped /\ UNCHANGED <<panic, toolVars>>
    BY <1>3, <2>3 DEF CloseStopped, ToolNext, ToolEnvironment
  <2>. QED
    BY <1>3, <2>1, <2>2, <2>3 DEF CloserRuns
<1>4. CASE panic = "no" /\ ToolRuns(ToolStep)
  BY <1>4 DEF ToolRuns, ToolNext
<1>5. CASE UNCHANGED vars
  BY <1>1, <1>5 DEF vars
<1>. QED
  BY <1>1, <1>2, <1>3, <1>4, <1>5 DEF Next, Quiet

(* The supervisor implements ToolCalls: the reader, closeRun and Close use the
   tool calls only as their specification allows. *)
THEOREM ComposesToolCalls == Spec => ToolSpec
<1>1. Init => ToolInit
  BY DEF Init
<1>2. SupInv /\ [Next]_vars => [ToolNext]_toolSpecVars
  BY ToolsStep DEF SupInv
<1>. QED
  BY <1>1, <1>2, SupInvariant, PTL DEF Spec, ToolSpec

(* Every variable of the supervisor keeps its type. *)
THEOREM SupervisorTypesCorrect == Spec => []TypeOK
<1>1. SupInv /\ ToolTypeOK => TypeOK
  BY DEF SupInv, OwnTypeOK, TypeOK
<1>. QED
  BY <1>1, SupInvariant, ComposesToolCalls, ToolTypesCorrect, PTL

(* No channel is closed twice: closeRun, Close and SubscribeToolCalls find only
   open channels in the maps. *)
THEOREM ChannelsCloseOnce == Spec => []NoDoubleClose
<1>. DEFINE Open == SupInv /\ SubscribedChannelOpen
<1>1. Init => NoDoubleClose
  BY DEF Init, ToolInit, NoDoubleClose
<1>2. Open /\ NoDoubleClose /\ [Next]_vars => NoDoubleClose'
  <2>. SUFFICES ASSUME Open, NoDoubleClose, [Next]_vars
                PROVE  NoDoubleClose'
    OBVIOUS
  <2>. USE DEF NoDoubleClose
  <2>1. CASE UNCHANGED panic
    BY <2>1
  <2>2. CASE CloseRun
    <3>1. runSubs[frame.run] # 0 => ~runCh[runSubs[frame.run]].closed
      BY <2>2 DEF CloseRun, SupInv, ReaderInv, RunInv, SubscriptionOpen
    <3>. QED
      BY <2>2, <3>1 DEF CloseRun
  <2>3. CASE FailPending
    BY <2>3 DEF FailPending, SupInv, CallInv, PendingHasCaller
  <2>4. CASE CloseRuns
    <3>1. \A id \in {runSubs[r] : r \in Runs} \ {0} : ~runCh[id].closed
      BY DEF SupInv, RunInv, SubscriptionOpen
    <3>. QED
      BY <2>4, <3>1 DEF CloseRuns
  <2>5. CASE CloseTools
    BY <2>5 DEF CloseTools, CloseRunTools, SubscribedChannelOpen, SupInv, ReaderInv
  <2>6. CASE ToolStep
    <3>1. ASSUME NEW r \in Runs, SubscribeToolCalls(r)
          PROVE  panic' = panic
      BY <3>1 DEF SubscribeToolCalls, SubscribedChannelOpen
    <3>2. ASSUME NEW t \in ToolReqs, RunHandler(t)
          PROVE  panic' = panic \/ panic' = "send"
      BY <3>2 DEF RunHandler, EnqueueToolOnClosed
    <3>. QED
      BY <2>1, <2>6, <3>1, <3>2 DEF ToolStep
  <2>7. CASE SendOnClosed
    BY <2>7 DEF SendOnClosed
  <2>8. CASE ReaderRuns
    BY <2>1, <2>2, <2>5, <2>7, <2>8 DEF ReaderRuns, Quiet
  <2>9. CASE CloserRuns
    BY <2>1, <2>3, <2>4, <2>9 DEF CloserRuns, Quiet
  <2>10. CASE UNCHANGED vars
    BY <2>1, <2>10 DEF vars
  <2>. QED
    BY <2>1, <2>6, <2>8, <2>9, <2>10 DEF Next, Quiet, ToolRuns
<1>3. SupInv /\ SubscribedChannelOpen => Open
  OBVIOUS
<1>. QED
  BY <1>1, <1>2, <1>3, SupInvariant, ComposesToolCalls, SubscribedChannelsOpen, PTL DEF Spec

-----------------------------------------------------------------------------
(* The order of a run's messages, from the child to the handler. *)

(* A message is one the run has sent, and its final one is its last. *)
MsgOK(m) ==
  m.type \in RunMsgTypes =>
    /\ m.n <= emitted[m.run]
    /\ m.type = "final" => m.n = emitted[m.run] /\ runState[m.run] = "ended"

Before(a, b) == a.type \in RunMsgTypes /\ b.type \in RunMsgTypes /\ a.run = b.run => a.n < b.n

(* A run's messages are on the pipe in order, behind the one in hand. *)
PipeInv ==
  /\ \A i \in 1 .. Len(stdout) : MsgOK(stdout[i])
  /\ \A i, j \in 1 .. Len(stdout) : i < j => Before(stdout[i], stdout[j])
  /\ reader = "send" => MsgOK(frame) /\ \A i \in 1 .. Len(stdout) : Before(frame, stdout[i])

(* What went to the handler of id is of its run, and ahead of what follows.  *)
Handed(m, id) ==
  /\ m \in Frames /\ m.type \in RunMsgTypes /\ m.run \in Runs /\ m.run = gotRun[id] /\ MsgOK(m)
  /\ \A j \in 1 .. Len(stdout) : Before(m, stdout[j])
  /\ reader = "send" => Before(m, frame)

Increasing(s) == \A i, j \in 1 .. Len(s) : i < j => s[i].n < s[j].n

HandedInv ==
  \A id \in Ids :
    /\ \A i \in 1 .. Len(seen[id]) : Handed(seen[id][i], id)
    /\ \A i \in 1 .. Len(runCh[id].buf) : Handed(runCh[id].buf[i], id)
    /\ Increasing(seen[id]) /\ Increasing(runCh[id].buf)
    /\ \A i \in 1 .. Len(seen[id]), j \in 1 .. Len(runCh[id].buf) : seen[id][i].n < runCh[id].buf[j].n

(* MsgOK and Handed, of the state a step leads to. *)
NextMsgOK(m) ==
  m.type \in RunMsgTypes =>
    /\ m.n <= emitted'[m.run]
    /\ m.type = "final" => m.n = emitted'[m.run] /\ runState'[m.run] = "ended"

NextHanded(m, id) ==
  /\ m \in Frames /\ m.type \in RunMsgTypes /\ m.run \in Runs /\ m.run = gotRun'[id] /\ NextMsgOK(m)
  /\ \A j \in 1 .. Len(stdout') : Before(m, stdout'[j])
  /\ reader' = "send" => Before(m, frame')

(* A run that has ended sends nothing more. *)
LEMMA EmittedStep ==
  ASSUME OwnTypeOK, [Next]_vars, NEW r \in Runs
  PROVE  /\ emitted'[r] \in Nat /\ emitted'[r] >= emitted[r]
         /\ runState[r] = "ended" => emitted'[r] = emitted[r] /\ runState'[r] = "ended"
<1>. USE DEF OwnTypeOK, ProtocolTypeOK
<1>1. CASE UNCHANGED <<emitted, runState>>
  BY <1>1
<1>2. ASSUME NEW k \in CallKinds, StartCall(k)
      PROVE  UNCHANGED <<emitted, runState>>
  BY <1>2 DEF StartCall, childVars
<1>3. ASSUME NEW id \in Ids, CallStep(id)
      PROVE  UNCHANGED <<emitted, runState>>
  BY <1>3 DEF CallStep, WriteRequest, ReceiveReply, ReceiveClosed, Timeout, SeeStopped, RegisterRun,
              TakeRunMsg, SeeRunClosed, Disconnect, childVars
<1>4. CASE ReadStep
  BY <1>1, <1>4
  DEF ReadStep, ReadResponse, DeliverResponse, ReadNotification, SendRunMsg, SendOnClosed, CloseRun,
      CloseTools, ReadToolRequest, ReaderEnds, childVars
<1>5. CASE CloseStep
  BY <1>1, <1>5
  DEF CloseStep, BeginClose, SeeExited, GraceOver, FailPending, CloseRuns, CloseStopped, AwaitExit,
      WatcherCloses, WatcherEnds, childVars
<1>6. CASE ChildStep
  <2>1. ASSUME NEW q \in Runs, ChildEvent(q) \/ ChildEndRun(q)
        PROVE  /\ runState[q] = "live" /\ emitted' = [emitted EXCEPT ![q] = @ + 1]
               /\ runState' = runState \/ runState' = [runState EXCEPT ![q] = "ended"]
    BY <2>1 DEF ChildEvent, ChildEndRun
  <2>2. ASSUME NEW q \in Runs, ChildEvent(q) \/ ChildEndRun(q)
        PROVE  /\ emitted'[r] \in Nat /\ emitted'[r] >= emitted[r]
               /\ runState[r] = "ended" => emitted'[r] = emitted[r] /\ runState'[r] = "ended"
    <3>1. CASE q = r
      <4>1. emitted[r] \in Nat /\ emitted'[r] = emitted[r] + 1 /\ runState[r] # "ended"
        BY <2>1, <2>2, <3>1
      <4>. QED
        BY <4>1
    <3>2. CASE q # r
      <4>1. emitted[r] \in Nat /\ emitted'[r] = emitted[r]
        BY <2>1, <2>2, <3>2
      <4>2. runState'[r] = runState[r]
        BY <2>1, <2>2, <3>2
      <4>. QED
        BY <4>1, <4>2
    <3>. QED
      BY <3>1, <3>2
  <2>3. ASSUME NEW id \in Ids, NEW q \in Runs, ChildStartRun(id, q)
        PROVE  /\ emitted'[r] \in Nat /\ emitted'[r] >= emitted[r]
               /\ runState[r] = "ended" => emitted'[r] = emitted[r] /\ runState'[r] = "ended"
    BY <2>3 DEF ChildStartRun
  <2>4. ASSUME NEW id \in Ids, ChildReply(id)
        PROVE  UNCHANGED <<emitted, runState>>
    BY <2>4 DEF ChildReply
  <2>5. ASSUME NEW q \in Runs \union {NoRun}, NEW t \in ToolReqs, ChildToolRequest(q, t)
        PROVE  UNCHANGED <<emitted, runState>>
    BY <2>5 DEF ChildToolRequest
  <2>6. CASE ChildExit
    BY <1>1, <2>6 DEF ChildExit
  <2>7. CASE \E id \in Ids : ChildReply(id) \/ \E q \in Runs : ChildStartRun(id, q)
    BY <1>1, <2>3, <2>4, <2>7
  <2>8. CASE \E q \in Runs : ChildEvent(q) \/ ChildEndRun(q)
    BY <2>2, <2>8
  <2>9. CASE \E q \in Runs \union {NoRun}, t \in ToolReqs : ChildToolRequest(q, t)
    BY <1>1, <2>5, <2>9
  <2>. QED
    BY <1>6, <2>6, <2>7, <2>8, <2>9 DEF ChildStep
<1>. QED
  BY <1>1, <1>2, <1>3, <1>4, <1>5, <1>6, StepCases DEF ownVars, childVars

(* What holds of a message its run has sent goes on holding. *)
LEMMA MsgOKStep ==
  ASSUME OwnTypeOK, [Next]_vars, NEW m \in Frames, MsgOK(m), m.type \in RunMsgTypes => m.run \in Runs
  PROVE  NextMsgOK(m)
<1>1. CASE m.type \in RunMsgTypes
  <2>1. m.n \in Nat /\ emitted[m.run] \in Nat
    BY <1>1 DEF Frames, OwnTypeOK, ProtocolTypeOK
  <2>. QED
    BY <1>1, <2>1, EmittedStep DEF MsgOK, NextMsgOK
<1>. QED
  BY <1>1 DEF NextMsgOK

(* A message the child writes is its run's next. *)
LEMMA ChildMessage ==
  ASSUME OwnTypeOK, ChildStep
  PROVE  \/ stdout' = stdout
         \/ \E f \in Frames :
              /\ stdout' = Append(stdout, f) /\ NextMsgOK(f)
              /\ \A m \in Frames : MsgOK(m) => Before(m, f)
<1>. USE DEF OwnTypeOK, ProtocolTypeOK, RunMsgTypes
<1>1. ASSUME NEW type \in {"reply", "fail", "tool"}, NEW id \in Ids \union ToolReqs,
             NEW r \in Runs \union {NoRun}, Write(Frame(type, id, r, 0))
      PROVE  \E f \in Frames :
               /\ stdout' = Append(stdout, f) /\ NextMsgOK(f)
               /\ \A m \in Frames : MsgOK(m) => Before(m, f)
  <2>. DEFINE f == Frame(type, id, r, 0)
  <2>1. f \in Frames /\ f.type \notin RunMsgTypes
    BY DEF Frame, Frames, FrameTypes
  <2>. QED
    BY <1>1, <2>1 DEF Write, NextMsgOK, Before
<1>2. ASSUME NEW r \in Runs, ChildEvent(r) \/ ChildEndRun(r)
      PROVE  \E f \in Frames :
               /\ stdout' = Append(stdout, f) /\ NextMsgOK(f)
               /\ \A m \in Frames : MsgOK(m) => Before(m, f)
  <2>1. PICK type \in RunMsgTypes :
          /\ Write(Frame(type, 0, r, emitted[r] + 1))
          /\ type = "final" => runState'[r] = "ended"
    BY <1>2 DEF ChildEvent, ChildEndRun
  <2>2. emitted'[r] = emitted[r] + 1 /\ emitted[r] \in Nat
    BY <1>2 DEF ChildEvent, ChildEndRun
  <2>. DEFINE f == Frame(type, 0, r, emitted[r] + 1)
  <2>3. f \in Frames /\ f.type = type /\ f.run = r /\ f.n = emitted[r] + 1
    BY <2>2 DEF Frame, Frames, FrameTypes
  <2>4. NextMsgOK(f)
    BY <2>1, <2>2, <2>3 DEF NextMsgOK
  <2>5. \A m \in Frames : MsgOK(m) => Before(m, f)
    <3>. SUFFICES ASSUME NEW m \in Frames, MsgOK(m), m.type \in RunMsgTypes, m.run = r
                  PROVE  m.n < emitted[r] + 1
      BY <2>3 DEF Before
    <3>1. m.n \in Nat /\ m.n <= emitted[r]
      BY DEF Frames, MsgOK
    <3>. QED
      BY <2>2, <3>1
  <2>6. stdout' = Append(stdout, f)
    BY <2>1 DEF Write
  <2>. HIDE DEF f
  <2>. QED
    BY <2>3, <2>4, <2>5, <2>6
<1>3. ASSUME NEW id \in Ids, ChildReply(id)
      PROVE  \E type \in {"reply", "fail", "tool"}, r \in Runs \union {NoRun} : Write(Frame(type, id, r, 0))
  BY <1>3 DEF ChildReply
<1>4. ASSUME NEW r \in Runs \union {NoRun}, NEW t \in ToolReqs, ChildToolRequest(r, t)
      PROVE  Write(Frame("tool", t, r, 0))
  BY <1>4 DEF ChildToolRequest
<1>5. ASSUME NEW id \in Ids, NEW r \in Runs, ChildStartRun(id, r)
      PROVE  stdout' = stdout
  BY <1>5 DEF ChildStartRun
<1>6. CASE ChildExit
  BY <1>6 DEF ChildExit
<1>7. ASSUME NEW id \in Ids, ChildReply(id)
      PROVE  \E f \in Frames :
               /\ stdout' = Append(stdout, f) /\ NextMsgOK(f)
               /\ \A m \in Frames : MsgOK(m) => Before(m, f)
  BY <1>1, <1>3, <1>7
<1>8. ASSUME NEW r \in Runs \union {NoRun}, NEW t \in ToolReqs, ChildToolRequest(r, t)
      PROVE  \E f \in Frames :
               /\ stdout' = Append(stdout, f) /\ NextMsgOK(f)
               /\ \A m \in Frames : MsgOK(m) => Before(m, f)
  BY <1>1, <1>4, <1>8
<1>. QED
  BY <1>2, <1>5, <1>6, <1>7, <1>8 DEF ChildStep

(* A step drops frames at either end of stdout, or adds the child's message. *)
LEMMA PipeStep ==
  ASSUME OwnTypeOK, [Next]_vars
  PROVE  \/ \E k \in Nat : \A i \in 1 .. Len(stdout') :
              i + k \in 1 .. Len(stdout) /\ stdout'[i] = stdout[i + k]
         \/ UNCHANGED goVars /\ \E f \in Frames :
              /\ stdout' = Append(stdout, f) /\ NextMsgOK(f)
              /\ \A m \in Frames : MsgOK(m) => Before(m, f)
<1>. USE DEF OwnTypeOK, ProtocolTypeOK
<1>. DEFINE Shifted(k) == \A i \in 1 .. Len(stdout') : i + k \in 1 .. Len(stdout) /\ stdout'[i] = stdout[i + k]
<1>1. CASE stdout' = stdout
  <2>1. Shifted(0)
    BY <1>1
  <2>. QED
    BY <2>1
<1>2. CASE stdout # <<>> /\ stdout' = Tail(stdout)
  <2>1. Shifted(1)
    BY <1>2, ScanLemma
  <2>. QED
    BY <2>1
<1>3. CASE AwaitExit
  <2>1. PICK n \in 0 .. Len(stdout) : stdout' = SubSeq(stdout, 1, n)
    BY <1>3 DEF AwaitExit
  <2>2. 1 \in Int /\ n \in Int /\ \A i \in 1 .. n : stdout[i] \in Frames
    OBVIOUS
  <2>3. /\ Len(stdout') = IF 1 <= n THEN n ELSE 0
        /\ \A i \in 1 .. n : stdout'[i] = stdout[i]
    BY <2>1, <2>2, SubSeqProperties
  <2>4. Shifted(0)
    BY <2>3
  <2>. QED
    BY <2>4
<1>4. ASSUME NEW id \in Ids, CallStep(id)
      PROVE  stdout' = stdout
  BY <1>4 DEF CallStep, WriteRequest, ReceiveReply, ReceiveClosed, Timeout, SeeStopped, RegisterRun,
              TakeRunMsg, SeeRunClosed, Disconnect, childVars
<1>5. CASE ReadStep
  BY <1>1, <1>2, <1>5
  DEF ReadStep, ReadResponse, DeliverResponse, ReadNotification, SendRunMsg, SendOnClosed, CloseRun,
      CloseTools, ReadToolRequest, ReaderEnds, ScanNext, childVars
<1>6. CASE CloseStep
  BY <1>1, <1>3, <1>6
  DEF CloseStep, BeginClose, SeeExited, GraceOver, FailPending, CloseRuns, CloseStopped,
      WatcherCloses, WatcherEnds, childVars
<1>7. ASSUME NEW k \in CallKinds, StartCall(k)
      PROVE  stdout' = stdout
  BY <1>7 DEF StartCall, childVars
<1>8. CASE ChildStep /\ UNCHANGED goVars
  BY <1>1, <1>8, ChildMessage
<1>. QED
  BY <1>1, <1>4, <1>5, <1>6, <1>7, <1>8, StepCases DEF ownVars, childVars

(* What preceded everything on the pipe still does. *)
LEMMA BehindStep ==
  ASSUME OwnTypeOK, [Next]_vars, NEW m \in Frames, MsgOK(m),
         \A j \in 1 .. Len(stdout) : Before(m, stdout[j])
  PROVE  \A j \in 1 .. Len(stdout') : Before(m, stdout'[j])
<1>1. CASE \E k \in Nat : \A i \in 1 .. Len(stdout') :
              i + k \in 1 .. Len(stdout) /\ stdout'[i] = stdout[i + k]
  BY <1>1
<1>2. ASSUME NEW f \in Frames, stdout' = Append(stdout, f), Before(m, f)
      PROVE  \A j \in 1 .. Len(stdout') : Before(m, stdout'[j])
  <2>1. \A j \in 1 .. Len(stdout') :
          \/ j \in 1 .. Len(stdout) /\ stdout'[j] = stdout[j]
          \/ stdout'[j] = f
    BY <1>2 DEF OwnTypeOK, ProtocolTypeOK
  <2>. QED
    BY <1>2, <2>1
<1>. QED
  BY <1>1, <1>2, PipeStep

(* The pipe stays in order. *)
LEMMA PipeInvStep ==
  ASSUME OwnTypeOK, ReaderInv, PipeInv, [Next]_vars
  PROVE  PipeInv'
<1>1. \A i \in 1 .. Len(stdout) : stdout[i] \in Frames /\ NextMsgOK(stdout[i])
  <2>1. \A i \in 1 .. Len(stdout) :
          stdout[i] \in Frames /\ MsgOK(stdout[i]) /\ (stdout[i].type \in RunMsgTypes => stdout[i].run \in Runs)
    BY DEF OwnTypeOK, ProtocolTypeOK, PipeInv, ReaderInv, NamesOK
  <2>. QED
    BY <2>1, MsgOKStep
<1>2. /\ \A i \in 1 .. Len(stdout') : NextMsgOK(stdout'[i])
      /\ \A i, j \in 1 .. Len(stdout') : i < j => Before(stdout'[i], stdout'[j])
  <2>1. CASE \E k \in Nat : \A i \in 1 .. Len(stdout') :
                i + k \in 1 .. Len(stdout) /\ stdout'[i] = stdout[i + k]
    <3>1. PICK k \in Nat : \A i \in 1 .. Len(stdout') :
                i + k \in 1 .. Len(stdout) /\ stdout'[i] = stdout[i + k]
      BY <2>1
    <3>2. \A i, j \in 1 .. Len(stdout') : i < j => i + k < j + k
      OBVIOUS
    <3>. QED
      BY <1>1, <3>1, <3>2 DEF PipeInv
  <2>2. ASSUME NEW f \in Frames, stdout' = Append(stdout, f), NextMsgOK(f),
               \A m \in Frames : MsgOK(m) => Before(m, f)
        PROVE  /\ \A i \in 1 .. Len(stdout') : NextMsgOK(stdout'[i])
               /\ \A i, j \in 1 .. Len(stdout') : i < j => Before(stdout'[i], stdout'[j])
    <3>1. /\ Len(stdout) \in Nat /\ Len(stdout') = Len(stdout) + 1
          /\ \A i \in 1 .. Len(stdout) : stdout'[i] = stdout[i]
          /\ stdout'[Len(stdout) + 1] = f
      BY <2>2 DEF OwnTypeOK, ProtocolTypeOK
    <3>2. \A i \in 1 .. Len(stdout') : i \in 1 .. Len(stdout) \/ i = Len(stdout) + 1
      BY <3>1
    <3>3. \A i \in 1 .. Len(stdout) : Before(stdout[i], f)
      BY <1>1, <2>2 DEF PipeInv
    <3>4. \A i, j \in 1 .. Len(stdout') :
            i < j => i \in 1 .. Len(stdout) /\ (j \in 1 .. Len(stdout) \/ j = Len(stdout) + 1)
      BY <3>1
    <3>. QED
      BY <1>1, <2>2, <3>1, <3>2, <3>3, <3>4 DEF PipeInv
  <2>. QED
    BY <2>1, <2>2, PipeStep
<1>3. reader' = "send" => NextMsgOK(frame') /\ \A i \in 1 .. Len(stdout') : Before(frame', stdout'[i])
  <2>1. CASE UNCHANGED readVars
    <3>1. reader = "send" => frame \in Frames /\ frame.run \in Runs /\ MsgOK(frame)
      BY DEF OwnTypeOK, ReaderInv, PipeInv
    <3>. QED
      BY <2>1, <3>1, MsgOKStep, BehindStep DEF PipeInv, readVars
  <2>2. CASE ReadNotification
    <3>1. Scanned = stdout[1] /\ 1 \in 1 .. Len(stdout) /\ stdout' = Tail(stdout)
      BY <2>2, ScanLemma DEF ReadNotification, ScanNext
    <3>2. \A i \in 1 .. Len(stdout') : i + 1 \in 1 .. Len(stdout) /\ stdout'[i] = stdout[i + 1] /\ 1 < i + 1
      BY <2>2, <3>1, ScanLemma DEF ReadNotification, ScanNext
    <3>3. reader' = "send" => frame' = stdout[1] \/ UNCHANGED readVars
      BY <2>2, <3>1 DEF ReadNotification, Dispatch
    <3>. QED
      BY <1>1, <2>1, <3>1, <3>2, <3>3 DEF PipeInv
  <2>3. CASE ReadStep /\ ~ReadNotification
    BY <2>1, <2>3
    DEF ReadStep, ReadResponse, DeliverResponse, SendRunMsg, SendOnClosed, CloseRun, CloseTools,
        ReadToolRequest, ReaderEnds, BackToScan, Dispatch
  <2>4. ASSUME NEW k \in CallKinds, StartCall(k)
        PROVE  UNCHANGED readVars
    BY <2>4 DEF StartCall
  <2>5. ASSUME NEW id \in Ids, CallStep(id)
        PROVE  UNCHANGED readVars
    BY <2>5, CallFrame DEF readVars
  <2>6. CASE CloseStep
    BY <2>1, <2>6
    DEF CloseStep, BeginClose, SeeExited, GraceOver, FailPending, CloseRuns, CloseStopped, AwaitExit,
        WatcherCloses, WatcherEnds
  <2>. QED
    BY <2>1, <2>2, <2>3, <2>4, <2>5, <2>6, StepCases DEF ownVars, goVars
<1>. QED
  BY <1>2, <1>3 DEF PipeInv, NextMsgOK, MsgOK, Before

(* What was handed over stays in place. *)
LEMMA HandedStays ==
  ASSUME OwnTypeOK, ReaderInv, PipeInv, [Next]_vars, NEW id \in Ids,
         gotRun'[id] = gotRun[id], NEW m, Handed(m, id)
  PROVE  NextHanded(m, id)
<1>1. NextMsgOK(m) /\ \A j \in 1 .. Len(stdout') : Before(m, stdout'[j])
  BY MsgOKStep, BehindStep DEF Handed
<1>2. reader' = "send" => Before(m, frame')
  <2>1. CASE UNCHANGED readVars
    BY <2>1 DEF Handed, readVars
  <2>2. CASE ReadNotification
    <3>1. Scanned = stdout[1] /\ 1 \in 1 .. Len(stdout)
      BY <2>2, ScanLemma DEF ReadNotification, ScanNext
    <3>2. reader' = "send" => frame' = stdout[1] \/ UNCHANGED readVars
      BY <2>2, <3>1 DEF ReadNotification, Dispatch
    <3>. QED
      BY <2>1, <3>1, <3>2 DEF Handed
  <2>3. CASE ReadStep /\ ~ReadNotification
    BY <2>1, <2>3
    DEF ReadStep, ReadResponse, DeliverResponse, SendRunMsg, SendOnClosed, CloseRun, CloseTools,
        ReadToolRequest, ReaderEnds, BackToScan, Dispatch
  <2>4. ASSUME NEW k \in CallKinds, StartCall(k)
        PROVE  UNCHANGED readVars
    BY <2>4 DEF StartCall
  <2>5. ASSUME NEW j \in Ids, CallStep(j)
        PROVE  UNCHANGED readVars
    BY <2>5, CallFrame DEF readVars
  <2>6. CASE CloseStep
    BY <2>1, <2>6
    DEF CloseStep, BeginClose, SeeExited, GraceOver, FailPending, CloseRuns, CloseStopped, AwaitExit,
        WatcherCloses, WatcherEnds
  <2>. QED
    BY <2>1, <2>2, <2>3, <2>4, <2>5, <2>6, StepCases DEF ownVars, goVars
<1>. QED
  BY <1>1, <1>2 DEF Handed, NextHanded

(* What a step may do to the messages handed to a call. *)
LEMMA HandOver ==
  ASSUME OwnTypeOK, ReaderInv, CallInv, RunInv, [Next]_vars, NEW id \in Ids
  PROVE  \/ /\ seen'[id] = seen[id] /\ runCh'[id].buf = runCh[id].buf /\ gotRun'[id] = gotRun[id]
         \/ seen'[id] = <<>> /\ runCh'[id].buf = <<>>
         \/ /\ runCh[id].buf # <<>> /\ gotRun'[id] = gotRun[id]
            /\ seen'[id] = Append(seen[id], Head(runCh[id].buf))
            /\ runCh'[id].buf = Tail(runCh[id].buf)
         \/ /\ reader = "send" /\ target = id /\ reader' # "send"
            /\ seen'[id] = seen[id] /\ runCh'[id].buf = Append(runCh[id].buf, frame)
            /\ UNCHANGED <<gotRun, stdout, emitted, runState>>
<1>. DEFINE Same == seen'[id] = seen[id] /\ runCh'[id].buf = runCh[id].buf /\ gotRun'[id] = gotRun[id]
<1>0. /\ runCh \in [Ids -> [buf : Seq(Frames), closed : BOOLEAN]]
      /\ seen \in [Ids -> Seq(Frames)] /\ gotRun \in [Ids -> Runs \union {NoRun}]
  BY DEF OwnTypeOK, Chan
<1>1. CASE UNCHANGED <<seen, runCh, gotRun>>
  BY <1>1
<1>2. ASSUME NEW k \in CallKinds, StartCall(k)
      PROVE  UNCHANGED <<seen, runCh, gotRun>>
  BY <1>2 DEF StartCall, runVars
<1>3. ASSUME NEW j \in Ids, j # id, CallStep(j)
      PROVE  Same
  BY <1>3, CallFrame
<1>4. ASSUME ReceiveReply(id)
      PROVE  seen'[id] = <<>> /\ runCh'[id].buf = <<>>
  BY <1>4 DEF ReceiveReply, RunInv, Early, Calling, Untouched, runVars
<1>5. ASSUME TakeRunMsg(id)
      PROVE  /\ runCh[id].buf # <<>> /\ gotRun'[id] = gotRun[id]
             /\ seen'[id] = Append(seen[id], Head(runCh[id].buf))
             /\ runCh'[id].buf = Tail(runCh[id].buf)
  BY <1>0, <1>5 DEF TakeRunMsg, HasMessage, Receive
<1>6. ASSUME CallStep(id), ~ReceiveReply(id), ~TakeRunMsg(id)
      PROVE  Same
  BY <1>6
  DEF CallStep, WriteRequest, ReceiveClosed, Timeout, SeeStopped, RegisterRun, SeeRunClosed,
      Disconnect, runVars
<1>7. CASE SendRunMsg
  <2>1. CASE target = id
    <3>1. /\ reader = "send" /\ reader' # "send" /\ seen' = seen
          /\ UNCHANGED <<gotRun, stdout, emitted, runState>>
          /\ runCh'[id] = TrySend(runCh[id], frame, RunBufCap)
      BY <1>0, <1>7, <2>1 DEF SendRunMsg, BackToScan, callVars, childVars
    <3>. QED
      BY <1>0, <2>1, <3>1 DEF TrySend
  <2>2. CASE target # id
    BY <1>0, <1>7, <2>2 DEF SendRunMsg, callVars
  <2>. QED
    BY <2>1, <2>2
<1>8. CASE CloseRun
  BY <1>0, <1>8 DEF CloseRun, CloseChan, callVars
<1>9. CASE ReadStep /\ ~SendRunMsg /\ ~CloseRun
  BY <1>1, <1>9
  DEF ReadStep, ReadResponse, DeliverResponse, ReadNotification, SendOnClosed, CloseTools,
      ReadToolRequest, ReaderEnds, callVars, runVars
<1>10. CASE CloseRuns
  BY <1>0, <1>10 DEF CloseRuns, CloseChan, callVars
<1>11. CASE CloseStep /\ ~CloseRuns
  BY <1>1, <1>11
  DEF CloseStep, BeginClose, SeeExited, GraceOver, FailPending, CloseStopped, AwaitExit,
      WatcherCloses, WatcherEnds, callVars, runVars
<1>12. CASE UNCHANGED goVars
  BY <1>1, <1>12 DEF goVars, runVars
<1>13. ASSUME NEW j \in Ids, CallStep(j)
       PROVE  \/ Same
              \/ seen'[id] = <<>> /\ runCh'[id].buf = <<>>
              \/ /\ runCh[id].buf # <<>> /\ gotRun'[id] = gotRun[id]
                 /\ seen'[id] = Append(seen[id], Head(runCh[id].buf))
                 /\ runCh'[id].buf = Tail(runCh[id].buf)
  <2>1. CASE j # id
    BY <1>3, <1>13, <2>1
  <2>2. CASE j = id /\ ReceiveReply(id)
    BY <1>4, <2>2
  <2>3. CASE j = id /\ TakeRunMsg(id)
    BY <1>5, <2>3, Zenon
  <2>4. CASE j = id /\ ~ReceiveReply(id) /\ ~TakeRunMsg(id)
    BY <1>6, <1>13, <2>4
  <2>. QED
    BY <2>1, <2>2, <2>3, <2>4
<1>. QED
  BY <1>1, <1>2, <1>7, <1>8, <1>9, <1>10, <1>11, <1>12, <1>13, StepCases DEF ownVars

(* A later message may be appended. *)
LEMMA IncreasingAppend ==
  ASSUME NEW s \in Seq(Frames), NEW m \in Frames, Increasing(s),
         \A i \in 1 .. Len(s) : s[i].n < m.n
  PROVE  Increasing(Append(s, m))
<1>. DEFINE t == Append(s, m)
<1>. SUFFICES ASSUME NEW i \in 1 .. Len(t), NEW j \in 1 .. Len(t), i < j
              PROVE  t[i].n < t[j].n
  BY DEF Increasing
<1>1. i \in 1 .. Len(s) /\ t[i] = s[i]
  OBVIOUS
<1>2. CASE j \in 1 .. Len(s)
  <2>1. t[j] = s[j]
    BY <1>2
  <2>. QED
    BY <1>1, <1>2, <2>1 DEF Increasing
<1>3. CASE j = Len(s) + 1
  <2>1. t[j] = m
    BY <1>3
  <2>. QED
    BY <1>1, <2>1
<1>. QED
  BY <1>2, <1>3

(* What is handed to a call stays in order. *)
LEMMA HandedInvStep ==
  ASSUME OwnTypeOK, ReaderInv, CallInv, RunInv, PipeInv, HandedInv, [Next]_vars
  PROVE  HandedInv'
<1>. SUFFICES ASSUME NEW id \in Ids
              PROVE  /\ \A i \in 1 .. Len(seen'[id]) : NextHanded(seen'[id][i], id)
                     /\ \A i \in 1 .. Len(runCh'[id].buf) : NextHanded(runCh'[id].buf[i], id)
                     /\ Increasing(seen'[id]) /\ Increasing(runCh'[id].buf)
                     /\ \A i \in 1 .. Len(seen'[id]), j \in 1 .. Len(runCh'[id].buf) :
                          seen'[id][i].n < runCh'[id].buf[j].n
  BY DEF HandedInv, Handed, NextHanded, MsgOK, NextMsgOK, Increasing, Before
<1>. DEFINE old == seen[id]
            buf == runCh[id].buf
<1>0. old \in Seq(Frames) /\ buf \in Seq(Frames)
  BY DEF OwnTypeOK, Chan
<1>1. /\ \A i \in 1 .. Len(old) : Handed(old[i], id)
      /\ \A i \in 1 .. Len(buf) : Handed(buf[i], id)
      /\ Increasing(old) /\ Increasing(buf)
      /\ \A i \in 1 .. Len(old), j \in 1 .. Len(buf) : old[i].n < buf[j].n
  BY DEF HandedInv
<1>2. ASSUME gotRun'[id] = gotRun[id]
      PROVE  /\ \A i \in 1 .. Len(old) : NextHanded(old[i], id)
             /\ \A i \in 1 .. Len(buf) : NextHanded(buf[i], id)
  BY <1>1, <1>2, HandedStays
<1>3. CASE seen'[id] = old /\ runCh'[id].buf = buf /\ gotRun'[id] = gotRun[id]
  BY <1>1, <1>2, <1>3
<1>4. CASE seen'[id] = <<>> /\ runCh'[id].buf = <<>>
  BY <1>4 DEF Increasing
<1>5. CASE /\ buf # <<>> /\ gotRun'[id] = gotRun[id]
           /\ seen'[id] = Append(old, Head(buf)) /\ runCh'[id].buf = Tail(buf)
  <2>1. /\ 1 \in 1 .. Len(buf) /\ Head(buf) = buf[1]
        /\ \A i \in 1 .. Len(Tail(buf)) : i + 1 \in 1 .. Len(buf) /\ 1 < i + 1 /\ Tail(buf)[i] = buf[i + 1]
    BY <1>0, <1>5
  <2>2. \A i \in 1 .. Len(seen'[id]) : \/ i \in 1 .. Len(old) /\ seen'[id][i] = old[i]
                                       \/ i = Len(old) + 1 /\ seen'[id][i] = buf[1]
    BY <1>0, <1>5, <2>1
  <2>3. buf[1] \in Frames
    BY <1>0, <2>1
  <2>4. Increasing(seen'[id])
    BY <1>0, <1>1, <1>5, <2>1, <2>3, IncreasingAppend
  <2>5. Increasing(Tail(buf))
    <3>1. \A i, j \in 1 .. Len(Tail(buf)) : i < j => i + 1 < j + 1
      BY <1>0, <1>5
    <3>. QED
      BY <1>1, <2>1, <3>1 DEF Increasing
  <2>6. \A j \in 1 .. Len(Tail(buf)) : buf[1].n < Tail(buf)[j].n
    BY <1>1, <2>1 DEF Increasing
  <2>. QED
    BY <1>1, <1>2, <1>5, <2>1, <2>2, <2>4, <2>5, <2>6
<1>6. CASE /\ reader = "send" /\ target = id /\ reader' # "send"
           /\ seen'[id] = old /\ runCh'[id].buf = Append(buf, frame)
           /\ UNCHANGED <<gotRun, stdout, emitted, runState>>
  <2>1. NextHanded(frame, id)
    BY <1>6 DEF NextHanded, NextMsgOK, MsgOK, PipeInv, ReaderInv, RunInv, OwnTypeOK
  <2>2. /\ \A i \in 1 .. Len(old) : old[i].n < frame.n
        /\ \A i \in 1 .. Len(buf) : buf[i].n < frame.n
    BY <1>1, <1>6 DEF Handed, Before, ReaderInv, RunInv
  <2>3. \A i \in 1 .. Len(runCh'[id].buf) : \/ i \in 1 .. Len(buf) /\ runCh'[id].buf[i] = buf[i]
                                            \/ i = Len(buf) + 1 /\ runCh'[id].buf[i] = frame
    BY <1>0, <1>6 DEF OwnTypeOK
  <2>4. Increasing(runCh'[id].buf)
    <3>1. frame \in Frames
      BY DEF OwnTypeOK
    <3>. QED
      BY <1>0, <1>1, <1>6, <2>2, <3>1, IncreasingAppend
  <2>. QED
    BY <1>1, <1>2, <1>6, <2>1, <2>2, <2>3, <2>4
<1>. QED
  BY <1>3, <1>4, <1>5, <1>6, HandOver

(* Two sequences in order, the first ahead of the second, are one in order. *)
LEMMA ConcatOrder ==
  ASSUME NEW a \in Seq(Frames), NEW b \in Seq(Frames), Increasing(a), Increasing(b),
         \A j \in 1 .. Len(a), k \in 1 .. Len(b) : a[j].n < b[k].n
  PROVE  /\ a \o b \in Seq(Frames) /\ Increasing(a \o b)
         /\ \A j \in 1 .. Len(a \o b) : \/ \E k \in 1 .. Len(a) : (a \o b)[j] = a[k]
                                        \/ \E k \in 1 .. Len(b) : (a \o b)[j] = b[k]
<1>. DEFINE s == a \o b
<1>1. /\ s \in Seq(Frames) /\ Len(s) = Len(a) + Len(b)
      /\ \A j \in 1 .. Len(a) + Len(b) : s[j] = IF j <= Len(a) THEN a[j] ELSE b[j - Len(a)]
  BY ConcatProperties
<1>. HIDE DEF s
<1>2. ASSUME NEW j \in 1 .. Len(s)
      PROVE  \/ j \in 1 .. Len(a) /\ s[j] = a[j]
             \/ j > Len(a) /\ j - Len(a) \in 1 .. Len(b) /\ s[j] = b[j - Len(a)]
  BY <1>1
<1>3. \A j \in 1 .. Len(s) : (\E k \in 1 .. Len(a) : s[j] = a[k]) \/ (\E k \in 1 .. Len(b) : s[j] = b[k])
  BY <1>2
<1>4. Increasing(s)
  <2>. SUFFICES ASSUME NEW j \in 1 .. Len(s), NEW k \in 1 .. Len(s), j < k
                PROVE  s[j].n < s[k].n
    BY DEF Increasing
  <2>1. CASE k \in 1 .. Len(a)
    <3>1. j \in 1 .. Len(a) /\ s[j] = a[j] /\ s[k] = a[k]
      BY <1>1, <2>1
    <3>. QED
      BY <2>1, <3>1 DEF Increasing
  <2>2. CASE j \in 1 .. Len(a) /\ k \notin 1 .. Len(a)
    <3>1. s[j] = a[j] /\ k - Len(a) \in 1 .. Len(b) /\ s[k] = b[k - Len(a)]
      BY <1>2, <2>2
    <3>. QED
      BY <2>2, <3>1
  <2>3. CASE j \notin 1 .. Len(a)
    <3>1. j - Len(a) \in 1 .. Len(b) /\ s[j] = b[j - Len(a)]
      BY <1>2, <2>3
    <3>2. k \notin 1 .. Len(a) /\ j - Len(a) < k - Len(a)
      BY <2>3
    <3>3. k - Len(a) \in 1 .. Len(b) /\ s[k] = b[k - Len(a)]
      BY <1>2, <3>2
    <3>. QED
      BY <3>1, <3>2, <3>3 DEF Increasing
  <2>. QED
    BY <2>1, <2>2, <2>3
<1>. QED
  BY <1>1, <1>3, <1>4 DEF s

(* What a handler receives is an in-order extract of its own run, and nothing
   follows the final message. *)
LEMMA HandedIsInOrder ==
  ASSUME SupInv, HandedInv
  PROVE  StreamInOrder
<1>1. ASSUME NEW id \in Ids
      PROVE  gotRun[id] # NoRun => gotRun[id] = runOf[id]
  BY DEF SupInv, RunInv
<1>2. ASSUME NEW id \in Ids, NEW i \in 1 .. Len(Stream(id))
      PROVE  /\ Stream(id)[i].run = gotRun[id]
             /\ Stream(id)[i].type = "final" => i = Len(Stream(id))
             /\ \A j \in 1 .. (i - 1) : Stream(id)[j].n < Stream(id)[i].n
  <2>. DEFINE old == seen[id]
              buf == runCh[id].buf
              s == Stream(id)
  <2>0. old \in Seq(Frames) /\ buf \in Seq(Frames)
    BY DEF SupInv, OwnTypeOK, Chan
  <2>1. /\ \A j \in 1 .. Len(old) : Handed(old[j], id)
        /\ \A j \in 1 .. Len(buf) : Handed(buf[j], id)
        /\ Increasing(old) /\ Increasing(buf)
        /\ \A j \in 1 .. Len(old), k \in 1 .. Len(buf) : old[j].n < buf[k].n
    BY DEF HandedInv
  <2>2. /\ s \in Seq(Frames) /\ Increasing(s)
        /\ \A j \in 1 .. Len(s) : \/ \E k \in 1 .. Len(old) : s[j] = old[k]
                                  \/ \E k \in 1 .. Len(buf) : s[j] = buf[k]
    BY <2>0, <2>1, ConcatOrder DEF Stream
  <2>3. \A j \in 1 .. Len(s) : Handed(s[j], id)
    BY <2>1, <2>2
  <2>4. \A j, k \in 1 .. Len(s) : j < k => s[j].n < s[k].n
    BY <2>2 DEF Increasing
  <2>5. s[i].type = "final" => i = Len(s)
    <3>. SUFFICES ASSUME s[i].type = "final", i # Len(s)
                  PROVE  FALSE
      OBVIOUS
    <3>1. i < Len(s) /\ Len(s) \in 1 .. Len(s)
      BY <2>2
    <3>2. s[i].n < s[Len(s)].n
      BY <2>4, <3>1
    <3>3. Handed(s[i], id) /\ Handed(s[Len(s)], id)
      BY <2>3, <3>1
    <3>4. /\ s[i].n = emitted[gotRun[id]] /\ s[i].n \in Nat
          /\ s[Len(s)].n <= emitted[gotRun[id]] /\ s[Len(s)].n \in Nat
      BY <3>3 DEF Handed, MsgOK, Frames
    <3>. QED
      BY <3>2, <3>4
  <2>6. \A j \in 1 .. (i - 1) : j \in 1 .. Len(s) /\ j < i
    BY <2>2
  <2>7. /\ s[i].run = gotRun[id]
        /\ \A j \in 1 .. (i - 1) : s[j].n < s[i].n
    BY <2>3, <2>4, <2>6 DEF Handed
  <2>. QED
    BY <2>5, <2>7
<1>. QED
  BY <1>1, <1>2 DEF StreamInOrder

(* A handler is given an in-order extract of its run's notifications. *)
THEOREM HandlersReadInOrder == Spec => []StreamInOrder
<1>1. Init => PipeInv /\ HandedInv
  BY DEF Init, ChildInit, PipeInv, HandedInv, Increasing, MakeChan
<1>2. SupInv /\ PipeInv /\ HandedInv /\ [Next]_vars => (PipeInv /\ HandedInv)'
  BY PipeInvStep, HandedInvStep DEF SupInv
<1>3. SupInv /\ HandedInv => StreamInOrder
  BY HandedIsInOrder
<1>. QED
  BY <1>1, <1>2, <1>3, SupInvariant, PTL DEF Spec
=============================================================================
