----------------------------- MODULE Supervisor -----------------------------
(***************************************************************************)
(* executor/sdk: the Go process that owns one Node child and multiplexes   *)
(* JSON-RPC calls, run event streams and reverse tool calls over its stdio.*)
(*                                                                         *)
(* The goroutines are: one per call() (callers, which go on to be the HTTP *)
(* handler draining the run's channel), the reader of the child's stdout,  *)
(* awaitExit, whoever executes Close, and the tool handlers of ToolCalls.  *)
(* Every step is one critical section, one channel operation or one pipe   *)
(* operation: the code releases each mutex before it uses what it looked   *)
(* up, and the races live in those gaps.                                   *)
(*                                                                         *)
(* The child is left as general as its protocol allows: it answers each    *)
(* request once, starts a run for agent.send, emits events and one final   *)
(* notification per run, and may exit at any moment.                       *)
(***************************************************************************)
EXTENDS ToolCalls, RunnerProtocol

CONSTANTS
    CallKinds,   \* what calls are made for
    RunBufCap,   \* capacity of a run's event channel: 256 in the code
    OverLong     \* types of frame whose line may not fit the scanner's 4 MB

ASSUME SupervisorAssumption ==
    /\ CallKinds \subseteq Kinds
    /\ RunBufCap \in Nat
    /\ OverLong \subseteq FrameTypes

VARIABLES
    idCounter,   \* s.idCounter: ids handed out so far
    caller,      \* caller goroutine: where it is
    outcome,     \* how it ended
    pending,     \* keys of s.pending; the channel of id is respCh[id]
    respCh,
    gotRun,      \* the runId an agent.send reply carried
    runSubs,     \* s.runSubs: run -> call whose runCh is subscribed, 0 when absent
    runCh,       \* the channel registerRun made for a call
    seen,        \* messages a handler received from its runCh, in order
    reader,      \* reader goroutine: where it is
    frame,       \* the frame it is dispatching
    target,      \* the call whose channel it looked up for that frame
    closer,      \* where the one execution of Close is
    watcher,     \* awaitExit goroutine
    exited,      \* s.exited is closed
    stdinOpen    \* the pipe to the child is open on this side

callVars  == <<idCounter, kind, caller, outcome, pending, respCh, gotRun>>
runVars   == <<runSubs, runCh, seen>>
readVars  == <<reader, frame, target>>
closeVars == <<closer, watcher, exited, stdinOpen>>
\* All of the Go side; kind belongs to both.
goVars == <<idCounter, caller, outcome, pending, respCh, gotRun, runVars, readVars, closeVars>>
vars == <<panic, stopped, toolVars, callVars, runVars, readVars, closeVars, childVars>>

-----------------------------------------------------------------------------
NoFrame == Frame("fail", 0, NoRun, 0)

Calling == {"write", "wait"}
CallerStates == {"idle", "returned", "registerRun", "subscribed"} \cup Calling
CallEnds == {"ok", "rpcError", "closed", "writeError", "timeout", "stopped"}
StreamEnds == {"finished", "streamClosed", "disconnected"}

TypeOK ==
    /\ ToolTypeOK
    /\ ProtocolTypeOK
    /\ idCounter \in 0..MaxCalls
    /\ caller \in [Ids -> CallerStates]
    /\ outcome \in [Ids -> {"none"} \cup CallEnds \cup StreamEnds]
    /\ pending \in SUBSET Ids
    /\ respCh \in [Ids -> Chan(Frames, 1)]
    /\ gotRun \in [Ids -> Runs \cup {NoRun}]
    /\ runSubs \in [Runs -> Ids \cup {0}]
    /\ runCh \in [Ids -> Chan(Frames, RunBufCap)]
    /\ seen \in [Ids -> Seq(Frames)]
    /\ reader \in {"scan", "deliver", "send", "closeRun", "closeTools", "ended"}
    /\ frame \in Frames
    /\ target \in Ids \cup {0}
    /\ closer \in {"open", "waitExit", "waitKill", "failPending", "closeRuns", "stop", "closed"}
    /\ watcher \in {"wait", "close", "done"}
    /\ exited \in BOOLEAN
    /\ stdinOpen \in BOOLEAN

Init ==
    /\ ToolInit
    /\ ChildInit
    /\ idCounter = 0
    /\ kind = [id \in Ids |-> "unary"]
    /\ caller = [id \in Ids |-> "idle"]
    /\ outcome = [id \in Ids |-> "none"]
    /\ pending = {}
    /\ respCh = [id \in Ids |-> MakeChan]
    /\ gotRun = [id \in Ids |-> NoRun]
    /\ runSubs = [r \in Runs |-> 0]
    /\ runCh = [id \in Ids |-> MakeChan]
    /\ seen = [id \in Ids |-> <<>>]
    /\ reader = "scan"
    /\ frame = NoFrame
    /\ target = 0
    /\ closer = "open"
    /\ watcher = "wait"
    /\ exited = FALSE
    /\ stdinOpen = TRUE

-----------------------------------------------------------------------------
(* call(): one goroutine per request.                                       *)

End(id, how) == /\ caller' = [caller EXCEPT ![id] = "returned"]
                /\ outcome' = [outcome EXCEPT ![id] = how]

Cleanup(id) == pending' = pending \ {id}

\* A fresh id from the counter; the entry is registered under pendingMu.  The
\* map is never nil, so the guard above the registration never refuses.
StartCall(k) ==
    /\ idCounter < MaxCalls
    /\ idCounter' = idCounter + 1
    /\ LET id == idCounter + 1
       IN  /\ kind' = [kind EXCEPT ![id] = k]
           /\ caller' = [caller EXCEPT ![id] = "write"]
           /\ pending' = pending \cup {id}
    /\ UNCHANGED <<outcome, respCh, gotRun, runVars, readVars, closeVars, childVars>>

\* The frame is written and flushed under writeMu; a closed pipe, on either
\* side, is a write error.
WriteRequest(id) ==
    /\ caller[id] = "write"
    /\ IF stdinOpen /\ child = "running"
         THEN /\ caller' = [caller EXCEPT ![id] = "wait"]
              /\ Ask(id)
              /\ UNCHANGED <<pending, outcome>>
         ELSE Cleanup(id) /\ End(id, "writeError") /\ UNCHANGED request
    /\ UNCHANGED <<idCounter, kind, respCh, gotRun, runVars, readVars, closeVars,
                   child, stdout, runOf, runState, emitted, toolSent>>

\* case resp := <-respCh, with a response in the buffer.
ReceiveReply(id) ==
    /\ caller[id] = "wait"
    /\ HasMessage(respCh[id])
    /\ respCh' = [respCh EXCEPT ![id] = Receive(@)]
    /\ Cleanup(id)
    /\ LET resp == Head(respCh[id].buf)
       IN  IF resp.type = "reply" /\ IsSend(id)
             THEN /\ gotRun' = [gotRun EXCEPT ![id] = resp.run]
                  /\ caller' = [caller EXCEPT ![id] = "registerRun"]
                  /\ UNCHANGED outcome
             ELSE /\ End(id, IF resp.type = "reply" THEN "ok" ELSE "rpcError")
                  /\ UNCHANGED gotRun
    /\ UNCHANGED <<idCounter, kind, runVars, readVars, closeVars, childVars>>

\* The same case after Close closed the channel: resp is nil.
ReceiveClosed(id) ==
    /\ caller[id] = "wait"
    /\ AtClose(respCh[id])
    /\ Cleanup(id)
    /\ End(id, "closed")
    /\ UNCHANGED <<idCounter, kind, respCh, gotRun, runVars, readVars, closeVars,
                   childVars>>

\* Mutant of Timeout: the entry is not removed.
TimeoutKeepsEntry(id) ==
    /\ caller[id] = "wait"
    /\ End(id, "timeout")
    /\ UNCHANGED <<idCounter, kind, pending, respCh, gotRun, runVars, readVars,
                   closeVars, childVars>>

\* case <-waitCtx.Done(): the caller's context or the RequestTimeout.
Timeout(id) ==
    /\ caller[id] = "wait"
    /\ Cleanup(id)
    /\ End(id, "timeout")
    /\ UNCHANGED <<idCounter, kind, respCh, gotRun, runVars, readVars, closeVars,
                   childVars>>

\* case <-s.stopped
SeeStopped(id) ==
    /\ caller[id] = "wait"
    /\ stopped
    /\ Cleanup(id)
    /\ End(id, "stopped")
    /\ UNCHANGED <<idCounter, kind, respCh, gotRun, runVars, readVars, closeVars,
                   childVars>>

\* Send, once call() returned: the subscription is made only now, from the
\* runId the reply carried.
RegisterRun(id) ==
    /\ caller[id] = "registerRun"
    /\ caller' = [caller EXCEPT ![id] = "subscribed"]
    /\ runSubs' = [runSubs EXCEPT ![gotRun[id]] = id]
    /\ UNCHANGED <<idCounter, kind, outcome, pending, respCh, gotRun, runCh, seen,
                   readVars, closeVars, childVars>>
-----------------------------------------------------------------------------
(* The handler that drains the channel Send returned.                       *)

\* A streaming or aggregating handler returns on the final message;
\* drainToVoid reads on until the channel is closed.
TakeRunMsg(id) ==
    /\ caller[id] = "subscribed"
    /\ HasMessage(runCh[id])
    /\ seen' = [seen EXCEPT ![id] = Append(@, Head(runCh[id].buf))]
    /\ runCh' = [runCh EXCEPT ![id] = Receive(@)]
    /\ IF Head(runCh[id].buf).type = "final" /\ kind[id] = "stream"
         THEN End(id, "finished")
         ELSE UNCHANGED <<caller, outcome>>
    /\ UNCHANGED <<idCounter, kind, pending, respCh, gotRun, runSubs, readVars,
                   closeVars, childVars>>

\* The channel was closed and holds nothing more.
SeeRunClosed(id) ==
    /\ caller[id] = "subscribed"
    /\ AtClose(runCh[id])
    /\ End(id, "streamClosed")
    /\ UNCHANGED <<idCounter, kind, pending, respCh, gotRun, runVars, readVars,
                   closeVars, childVars>>

\* case <-ctx.Done(): the client left.  The run goes on, and so does its entry.
Disconnect(id) ==
    /\ caller[id] = "subscribed"
    /\ kind[id] = "stream"
    /\ End(id, "disconnected")
    /\ UNCHANGED <<idCounter, kind, pending, respCh, gotRun, runVars, readVars,
                   closeVars, childVars>>
-----------------------------------------------------------------------------
(* readStdout: the single reader.                                           *)

Scanned == Head(stdout)

\* The scanner moves to the next line.
ScanNext(types) ==
    /\ reader = "scan"
    /\ stdout # <<>>
    /\ Scanned.type \in types
    /\ stdout' = Tail(stdout)

Dispatch(pc, id) == reader' = pc /\ frame' = Scanned /\ target' = id

BackToScan == reader' = "scan" /\ frame' = NoFrame /\ target' = 0

\* A response: the channel is looked up under pendingMu; an unknown id is dropped.
ReadResponse ==
    /\ ScanNext({"reply", "fail"})
    /\ IF Scanned.id \in pending
         THEN Dispatch("deliver", Scanned.id)
         ELSE UNCHANGED readVars
    /\ UNCHANGED <<callVars, runVars, closeVars, child, request, runOf, runState, emitted, toolSent>>

\* ... and used after it is released.
DeliverResponse ==
    /\ reader = "deliver"
    /\ ~respCh[target].closed
    /\ respCh' = [respCh EXCEPT ![target] = TrySend(@, frame, 1)]
    /\ BackToScan
    /\ UNCHANGED <<idCounter, kind, caller, outcome, pending, gotRun, runVars,
                   closeVars, childVars>>

\* Mutant of ReadNotification: a run without a subscriber of its own goes to
\* whichever subscriber there is.
ReadNotificationAnySub ==
    /\ ScanNext(RunMsgTypes)
    /\ LET subs == {runSubs[r] : r \in Runs} \ {0}
           id == IF runSubs[Scanned.run] = 0 /\ subs # {}
                   THEN CHOOSE j \in subs : TRUE ELSE runSubs[Scanned.run]
       IN  IF id # 0
             THEN Dispatch("send", id)
             ELSE IF Scanned.type = "final"
                    THEN Dispatch("closeRun", 0)
                    ELSE UNCHANGED readVars
    /\ UNCHANGED <<callVars, runVars, closeVars, child, request, runOf, runState, emitted, toolSent>>

\* A run notification: sendRunMsg looks the run up under runsMu.
ReadNotification ==
    /\ ScanNext(RunMsgTypes)
    /\ LET id == runSubs[Scanned.run]
       IN  IF id # 0
             THEN Dispatch("send", id)
             ELSE IF Scanned.type = "final"  \* dropped, but closeRun follows
                    THEN Dispatch("closeRun", 0)
                    ELSE UNCHANGED readVars
    /\ UNCHANGED <<callVars, runVars, closeVars, child, request, runOf, runState, emitted, toolSent>>

\* Mutant of SendRunMsg: the reader does not move on from an event it has sent.
SendRunMsgAgain ==
    /\ reader = "send"
    /\ ~runCh[target].closed
    /\ runCh' = [runCh EXCEPT ![target] = TrySend(@, frame, RunBufCap)]
    /\ IF frame.type = "final"
         THEN reader' = "closeRun" /\ UNCHANGED <<frame, target>>
         ELSE BackToScan \/ UNCHANGED <<reader, frame, target>>
    /\ UNCHANGED <<callVars, runSubs, seen, closeVars, childVars>>

\* The non-blocking send: a full channel drops the message, whatever it is.
SendRunMsg ==
    /\ reader = "send"
    /\ ~runCh[target].closed
    /\ runCh' = [runCh EXCEPT ![target] = TrySend(@, frame, RunBufCap)]
    /\ IF frame.type = "final"
         THEN reader' = "closeRun" /\ UNCHANGED <<frame, target>>
         ELSE BackToScan
    /\ UNCHANGED <<callVars, runSubs, seen, closeVars, childVars>>

\* Either send, when Close has closed the channel since the lookup.
SendOnClosed ==
    /\ \/ reader = "deliver" /\ respCh[target].closed
       \/ reader = "send" /\ runCh[target].closed
    /\ panic' = "send"
    /\ UNCHANGED <<callVars, runVars, readVars, closeVars, childVars>>

\* Mutants of CloseRun: the entry is not deleted; the channel is not closed.
CloseRunKeepsEntry ==
    /\ reader = "closeRun"
    /\ LET id == runSubs[frame.run]
       IN  /\ panic' = IF id # 0 /\ runCh[id].closed THEN "close" ELSE panic
           /\ runCh' = [j \in Ids |-> IF j = id THEN CloseChan(runCh[j]) ELSE runCh[j]]
    /\ reader' = "closeTools"
    /\ UNCHANGED <<callVars, runSubs, seen, frame, target, closeVars, childVars>>

CloseRunLeavesOpen ==
    /\ reader = "closeRun"
    /\ runSubs' = [runSubs EXCEPT ![frame.run] = 0]
    /\ reader' = "closeTools"
    /\ UNCHANGED <<panic, callVars, runCh, seen, frame, target, closeVars, childVars>>

\* closeRun: the entry is deleted under runsMu, its channel closed by the
\* goroutine that deleted it.
CloseRun ==
    /\ reader = "closeRun"
    /\ LET id == runSubs[frame.run]
       IN  /\ panic' = IF id # 0 /\ runCh[id].closed THEN "close" ELSE panic
           /\ runCh' = [j \in Ids |-> IF j = id THEN CloseChan(runCh[j]) ELSE runCh[j]]
    /\ runSubs' = [runSubs EXCEPT ![frame.run] = 0]
    /\ reader' = "closeTools"
    /\ UNCHANGED <<callVars, seen, frame, target, closeVars, childVars>>

\* ... then the same for the run's tool channel.
CloseTools ==
    /\ reader = "closeTools"
    /\ CloseRunTools(frame.run)
    /\ BackToScan
    /\ UNCHANGED <<callVars, runVars, closeVars, childVars>>

\* Mutant of ReadToolRequest: the goroutine skips the subscriber lookup.
ReadToolRequestUnchecked ==
    /\ ScanNext({"tool"})
    /\ tool[Scanned.id] = "idle"
    /\ Goto(Scanned.id, "register")
    /\ toolRun' = [toolRun EXCEPT ![Scanned.id] = Scanned.run]
    /\ toolVia' = [toolVia EXCEPT ![Scanned.id] = toolSub[Scanned.run]]
    /\ UNCHANGED <<routeVars, waitVars, postVars, answer, replies>>
    /\ UNCHANGED <<callVars, runVars, readVars, closeVars, child, request, runOf, runState, emitted, toolSent>>

\* A request from Node is served by a goroutine of its own.
ReadToolRequest ==
    /\ ScanNext({"tool"})
    /\ Inbound(Scanned.id, Scanned.run)
    /\ UNCHANGED <<callVars, runVars, readVars, closeVars, child, request, runOf, runState, emitted, toolSent>>

\* EOF, or the pipe closed by Wait; or a line that does not fit, at which the
\* scanner stops for good although the child lives and goes on writing.
ReaderEnds ==
    /\ reader = "scan"
    /\ \/ stdout = <<>> /\ child = "gone"
       \/ stdout # <<>> /\ Scanned.type \in OverLong
    /\ reader' = "ended"
    /\ UNCHANGED <<callVars, runVars, frame, target, closeVars, childVars>>
-----------------------------------------------------------------------------
(* Close, run once: by whoever asks first, or by awaitExit.                 *)

\* closeOnce; stdin is closed, which tells the child to exit.
BeginClose ==
    /\ closer = "open"
    /\ closer' = "waitExit"
    /\ stdinOpen' = FALSE
    /\ UNCHANGED <<callVars, runVars, readVars, watcher, exited, childVars>>

\* case <-exited
SeeExited ==
    /\ closer \in {"waitExit", "waitKill"}
    /\ exited
    /\ closer' = "failPending"
    /\ UNCHANGED <<callVars, runVars, readVars, watcher, exited, stdinOpen,
                   childVars>>

\* Three seconds pass: SIGKILL (its effect is ChildExit).  Three more: Close
\* goes on without having seen the exit.
GraceOver ==
    /\ \/ closer = "waitExit" /\ closer' = "waitKill"
       \/ closer = "waitKill" /\ closer' = "failPending"
    /\ UNCHANGED <<callVars, runVars, readVars, watcher, exited, stdinOpen,
                   childVars>>

\* Under pendingMu: every pending call is failed, its channel closed, and the
\* map replaced by an empty one.
FailPending ==
    /\ closer = "failPending"
    /\ panic' = IF \E id \in pending : respCh[id].closed THEN "close" ELSE panic
    /\ respCh' = [id \in Ids |->
                     IF id \in pending
                       THEN CloseChan(TrySend(respCh[id], Frame("fail", id, NoRun, 0), 1))
                       ELSE respCh[id]]
    /\ pending' = {}
    /\ closer' = "closeRuns"
    /\ UNCHANGED <<idCounter, kind, caller, outcome, gotRun, runVars, readVars,
                   watcher, exited, stdinOpen, childVars>>

\* Mutant of CloseRuns: the map keeps the channels it closed.
CloseRunsKeepsMap ==
    /\ closer = "closeRuns"
    /\ LET subscribed == {runSubs[r] : r \in Runs} \ {0}
       IN  /\ panic' = IF \E id \in subscribed : runCh[id].closed THEN "close" ELSE panic
           /\ runCh' = [id \in Ids |->
                           IF id \in subscribed THEN CloseChan(runCh[id]) ELSE runCh[id]]
    /\ closer' = "stop"
    /\ UNCHANGED <<callVars, runSubs, seen, readVars, watcher, exited, stdinOpen,
                   childVars>>

\* Under runsMu: every subscribed channel is closed, and the map replaced.
CloseRuns ==
    /\ closer = "closeRuns"
    /\ LET subscribed == {runSubs[r] : r \in Runs} \ {0}
       IN  /\ panic' = IF \E id \in subscribed : runCh[id].closed THEN "close" ELSE panic
           /\ runCh' = [id \in Ids |->
                           IF id \in subscribed THEN CloseChan(runCh[id]) ELSE runCh[id]]
    /\ runSubs' = [r \in Runs |-> 0]
    /\ closer' = "stop"
    /\ UNCHANGED <<callVars, seen, readVars, watcher, exited, stdinOpen, childVars>>

\* close(s.stopped)
CloseStopped ==
    /\ closer = "stop"
    /\ Stop
    /\ closer' = "closed"
    /\ UNCHANGED <<callVars, runVars, readVars, watcher, exited, stdinOpen,
                   childVars>>

\* awaitExit: cmd.Wait returns once the child is gone, having closed this end of
\* its stdout; only what the scanner had already read is still dispatched.
AwaitExit ==
    /\ watcher = "wait"
    /\ child = "gone"
    /\ exited' = TRUE
    /\ watcher' = "close"
    /\ \E n \in 0..Len(stdout) : stdout' = SubSeq(stdout, 1, n)
    /\ UNCHANGED <<callVars, runVars, readVars, closer, stdinOpen, child, request, runOf, runState, emitted, toolSent>>

\* Mutant of WatcherCloses: the exit is logged and nothing else.
WatcherOnlyLogs ==
    /\ watcher = "close"
    /\ watcher' = "done"
    /\ UNCHANGED <<callVars, runVars, readVars, closer, exited, stdinOpen, childVars>>

\* ... and then calls Close, unless somebody has.
WatcherCloses == watcher = "close" /\ BeginClose

\* The once is over.
WatcherEnds ==
    /\ watcher = "close"
    /\ closer = "closed"
    /\ watcher' = "done"
    /\ UNCHANGED <<callVars, runVars, readVars, closer, exited, stdinOpen, childVars>>
-----------------------------------------------------------------------------
CallerStep(id) ==
    \/ WriteRequest(id)
    \/ ReceiveReply(id)
    \/ ReceiveClosed(id)
    \/ SeeStopped(id)
    \/ RegisterRun(id)
    \/ TakeRunMsg(id)
    \/ SeeRunClosed(id)

ClientStep ==
    \/ \E k \in CallKinds : StartCall(k)
    \/ \E id \in Ids : Timeout(id) \/ Disconnect(id)

\* Steps that touch neither the tool calls nor the process-wide flags.
ReaderStep == ReadResponse \/ DeliverResponse \/ ReadNotification \/ SendRunMsg \/ ReaderEnds
CloserStep == SeeExited \/ GraceOver
WatcherStep == AwaitExit \/ WatcherCloses \/ WatcherEnds

Quiet(A) == A /\ UNCHANGED <<panic, stopped, toolVars>>

ReaderRuns ==
    \/ Quiet(ReaderStep)
    \/ (SendOnClosed \/ CloseRun) /\ UNCHANGED <<stopped, toolVars>>
    \/ CloseTools /\ UNCHANGED stopped
    \/ ReadToolRequest /\ UNCHANGED <<panic, stopped>>

CloserRuns ==
    \/ Quiet(CloserStep)
    \/ (FailPending \/ CloseRuns) /\ UNCHANGED <<stopped, toolVars>>
    \/ CloseStopped /\ UNCHANGED <<panic, toolVars>>

ToolRuns(A) == A /\ UNCHANGED <<stopped, callVars, runVars, readVars, closeVars,
                                childVars>>

\* A panic in any goroutine has ended the process.
Next ==
    /\ panic = "no"
    /\ \/ Quiet(\E id \in Ids : CallerStep(id))
       \/ Quiet(ClientStep)
       \/ ReaderRuns
       \/ Quiet(BeginClose)
       \/ CloserRuns
       \/ Quiet(WatcherStep)
       \/ Quiet(ChildStep /\ UNCHANGED goVars)
       \/ ToolRuns(ToolStep)

Spec == Init /\ [][Next]_vars

\* Every runnable goroutine is eventually scheduled, timers fire, and a child
\* whose stdin was closed or that was killed exits.  Nothing obliges the child
\* to answer, a client to act, or a context to expire.
Fairness ==
    /\ \A id \in Ids : WF_vars(Alive(Quiet(CallerStep(id))))
    /\ WF_vars(Alive(ReaderRuns))
    /\ WF_vars(Alive(CloserRuns))
    /\ WF_vars(Alive(Quiet(WatcherStep)))
    /\ WF_vars(Alive(~stdinOpen /\ Quiet(ChildExit /\ UNCHANGED goVars)))
    /\ \A t \in ToolReqs : WF_vars(Alive(ToolRuns(RunHandler(t))))
    /\ \A p \in Posts : WF_vars(Alive(ToolRuns(CompletePost(p) /\ UNCHANGED panic)))

FairSpec == Spec /\ Fairness
-----------------------------------------------------------------------------
(* What the supervisor guarantees.                                          *)

\* What the handler of a run has received and will receive is an in-order
\* extract of that run's notifications and of no other run's, and nothing
\* follows run.done or run.error (dispatchNotification, sendRunMsg, closeRun).
Stream(id) == seen[id] \o runCh[id].buf
StreamInOrder ==
    \A id \in Ids :
        /\ gotRun[id] # NoRun => gotRun[id] = runOf[id]
        /\ \A i \in 1..Len(Stream(id)) :
              /\ Stream(id)[i].run = gotRun[id]
              /\ Stream(id)[i].type = "final" => i = Len(Stream(id))
              /\ \A j \in 1..(i - 1) : Stream(id)[j].n < Stream(id)[i].n

\* No channel is ever closed twice: closeRun, Close and SubscribeToolCalls each
\* close what a map holds, and every close takes the entry out of its map.
NoDoubleClose == panic # "close"

\* The pending map holds exactly the calls that still wait for an answer they
\* can get: no entry outlives its call (a leak), and no channel in it is closed.
PendingHasCaller ==
    \A id \in pending : caller[id] \in Calling /\ ~respCh[id].closed

\* A run channel in the map is open and belongs to the run it is filed under.
SubscriptionOpen ==
    \A r \in Runs : runSubs[r] # 0 =>
        ~runCh[runSubs[r]].closed /\ gotRun[runSubs[r]] = r

\* Once the supervisor shuts down or its child dies, every call returns, without
\* any timeout ("all pending requests get an error", doc.go:34-35).
Underway(id) == caller[id] \in Calling
ShutdownReleasesCallers ==
    \A id \in Ids :
        (Underway(id) /\ (closer # "open" \/ child = "gone")) ~> (~Underway(id) \/ panic # "no")

\* A subscription made before the reader got to the run's final notification,
\* and before a shutdown swept the map, is closed in the end, unless the reader
\* has stopped at a line it cannot hold; then the subscription waits for the
\* child to exit or for a shutdown, and is closed by those.
Unread(r) == \E i \in 1..Len(stdout) : stdout[i].run = r /\ stdout[i].type = "final"
StoppedReading == reader = "ended" /\ child # "gone" /\ closer = "open"
SweepAhead == closer \in {"open", "waitExit", "waitKill", "failPending", "closeRuns"}
TimelySubscriptionCloses ==
    \A id \in Ids, r \in Runs :
        (runSubs[r] = id /\ SweepAhead /\ (Unread(r) \/ child = "gone" \/ closer # "open"))
            ~> (runCh[id].closed \/ StoppedReading \/ panic # "no")
-----------------------------------------------------------------------------
(* What its comments say of it, and the code does not do.                   *)

\* "Close terminates the child and drains goroutines" (supervisor.go:223), so
\* nothing is left that could send on a channel Close has closed.
NoSendOnClosed == panic # "send"

\* Send's channel "closes when the run reaches a terminal state (done / error)"
\* (api.go:65-66).
TerminalClosesStream ==
    \A id \in Ids :
        (caller[id] = "subscribed" /\ runState[gotRun[id]] = "ended")
            ~> (caller[id] # "subscribed" \/ runCh[id].closed \/ panic # "no")
=============================================================================
