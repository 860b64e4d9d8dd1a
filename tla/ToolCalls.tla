------------------------------ MODULE ToolCalls ------------------------------
(***************************************************************************)
(* The reverse-RPC half of the supervisor (executor/sdk/supervisor.go):    *)
(* the Node runner sends a tool.execute request for a run, a goroutine of  *)
(* its own hands it to the HTTP stream subscribed to that run, and waits   *)
(* for the client's answer on a per-call channel.                          *)
(*                                                                         *)
(* A handler goroutine is a request t \in ToolReqs; tool[t] is where it    *)
(* is.  The two maps are guarded by two different mutexes, each released   *)
(* before the channel found in it is used, so the steps here are the       *)
(* critical sections and the channel operations between them.              *)
(***************************************************************************)
EXTENDS GoChannels, AgentTypes

CONSTANTS
    BadReqs,     \* the requests whose method or params are rejected
    CallIds,     \* callId values the runner may use
    CallIdOf,    \* the callId of each request
    Posts,       \* the goroutines that answer a tool call: of POST /tool_results,
    Expiries,    \* or of a forced expiry (ForceExpireToolCall)
    ToolBufCap,  \* capacity of a run's tool channel: 16 in the code
    MaxSubs,     \* BOUND: SubscribeToolCalls is called at most this often
    NoReq, NoCall

ASSUME ToolAssumption ==
    /\ BadReqs \subseteq ToolReqs
    /\ CallIdOf \in [ToolReqs -> CallIds]
    /\ Expiries \subseteq Posts
    /\ ToolBufCap \in Nat
    /\ MaxSubs \in Nat
    /\ NoReq \notin ToolReqs
    /\ NoCall \notin CallIds

VARIABLES
    panic,       \* why the process died: "no", "send" or "close" (on a closed channel)
    stopped,     \* s.stopped is closed
    tool,        \* handler goroutine: where it is
    toolRun,     \* the request's runId
    toolVia,     \* the tool channel it looked up (0: none yet)
    toolSub,     \* s.runToolChannels: run -> channel number, 0 when absent
    toolChan,    \* the channels made by SubscribeToolCalls, by number
    nSubs,       \* how many of them have been made
    pendingTool, \* s.pendingToolResults: callId -> request whose outcomeCh it holds
    outcomeCh,   \* the outcome channels, one per request
    answer,      \* the outcome a handler received
    replies,     \* responses written to the runner, per request
    post,        \* POST goroutine: where it is
    postCall,    \* the callId it answers
    postKind,    \* "result", "error", or "expire" (ForceExpireToolCall)
    postFor,     \* the request it found pending
    notified     \* callIds announced by a tool.result notification

handlerVars == <<tool, toolRun, toolVia, answer, replies>>
routeVars == <<toolSub, toolChan, nSubs>>
waitVars == <<pendingTool, outcomeCh>>
postVars == <<post, postCall, postKind, postFor, notified>>
toolVars == <<handlerVars, routeVars, waitVars, postVars>>

Outcomes == {"result", "error"}
OutcomeCap == 1

Handling == {"lookup", "register", "enqueue", "await", "answered"}

HandlerTypeOK ==
    /\ tool \in [ToolReqs -> Handling \cup {"idle", "done"}]
    /\ toolRun \in [ToolReqs -> Runs \cup {NoRun}]
    /\ toolVia \in [ToolReqs -> 0..MaxSubs]
    /\ answer \in [ToolReqs -> Outcomes \cup {"none"}]
    /\ replies \in [ToolReqs -> Nat]

RouteTypeOK ==
    /\ toolSub \in [Runs -> 0..MaxSubs]
    /\ toolChan \in [1..MaxSubs -> Chan(ToolReqs, ToolBufCap)]
    /\ nSubs \in 0..MaxSubs

WaitTypeOK ==
    /\ pendingTool \in [CallIds -> ToolReqs \cup {NoReq}]
    /\ outcomeCh \in [ToolReqs -> Chan(Outcomes, OutcomeCap)]

PostTypeOK ==
    /\ post \in [Posts -> {"idle", "found", "accepted", "expired"}]
    /\ postCall \in [Posts -> CallIds \cup {NoCall}]
    /\ postKind \in [Posts -> Outcomes \cup {"expire", "none"}]
    /\ postFor \in [Posts -> ToolReqs \cup {NoReq}]
    /\ notified \in SUBSET CallIds

ToolTypeOK ==
    /\ panic \in {"no", "send", "close"} /\ stopped \in BOOLEAN
    /\ HandlerTypeOK /\ RouteTypeOK /\ WaitTypeOK /\ PostTypeOK

ToolInit ==
    /\ panic = "no" /\ stopped = FALSE
    /\ tool = [t \in ToolReqs |-> "idle"]
    /\ toolRun = [t \in ToolReqs |-> NoRun]
    /\ toolVia = [t \in ToolReqs |-> 0]
    /\ toolSub = [r \in Runs |-> 0]
    /\ toolChan = [i \in 1..MaxSubs |-> MakeChan]
    /\ nSubs = 0
    /\ pendingTool = [k \in CallIds |-> NoReq]
    /\ outcomeCh = [t \in ToolReqs |-> MakeChan]
    /\ answer = [t \in ToolReqs |-> "none"]
    /\ replies = [t \in ToolReqs |-> 0]
    /\ post = [p \in Posts |-> "idle"]
    /\ postCall = [p \in Posts |-> NoCall]
    /\ postKind = [p \in Posts |-> "none"]
    /\ postFor = [p \in Posts |-> NoReq]
    /\ notified = {}

-----------------------------------------------------------------------------
(* The handler goroutine: handleInboundRequest, dispatchToolExecute.        *)

\* writeResponseOk / writeResponseErr.  A frame written after stdin is closed
\* is dropped by writeFrame; the handler does not find out.
WriteResponse(t) == replies' = [replies EXCEPT ![t] = @ + 1]

Goto(t, pc) == tool' = [tool EXCEPT ![t] = pc]

\* A response is written and the goroutine ends, and its locals with it.
Finish(t) ==
    /\ WriteResponse(t)
    /\ Goto(t, "done")
    /\ toolRun' = [toolRun EXCEPT ![t] = NoRun]
    /\ toolVia' = [toolVia EXCEPT ![t] = 0]

DropPendingTool(k) == pendingTool' = [pendingTool EXCEPT ![k] = NoReq]

\* `go s.handleInboundRequest(...)`, by the reader of stdout.
Inbound(t, r) ==
    /\ tool[t] = "idle"
    /\ Goto(t, "lookup")
    /\ toolRun' = [toolRun EXCEPT ![t] = r]
    /\ UNCHANGED <<routeVars, waitVars, postVars, toolVia, answer, replies>>

\* Unknown method, undecodable params, or an empty runId, callId or name.
RejectInbound(t) ==
    /\ tool[t] = "lookup"
    /\ t \in BadReqs
    /\ Finish(t)
    /\ UNCHANGED <<routeVars, waitVars, postVars, answer>>

\* s.runToolChannels[r], 0 when there is no entry.
ToolChannelOf(r) == IF r \in Runs THEN toolSub[r] ELSE 0

\* Under runToolsMu: nobody subscribed is answered at once.
LookupToolChannel(t) ==
    /\ tool[t] = "lookup"
    /\ t \notin BadReqs
    /\ IF ToolChannelOf(toolRun[t]) = 0
         THEN Finish(t)
         ELSE /\ Goto(t, "register")
              /\ toolVia' = [toolVia EXCEPT ![t] = ToolChannelOf(toolRun[t])]
              /\ UNCHANGED <<toolRun, replies>>
    /\ UNCHANGED <<routeVars, waitVars, postVars, answer>>

\* Mutant of RegisterOutcome: no check for an entry of the same callId.
RegisterOutcomeOverwrite(t) ==
    /\ tool[t] = "register"
    /\ Goto(t, "enqueue")
    /\ pendingTool' = [pendingTool EXCEPT ![CallIdOf[t]] = t]
    /\ UNCHANGED <<routeVars, postVars, toolRun, toolVia, outcomeCh, answer, replies>>

\* Under pendingToolMu: a callId that is already pending is refused.
RegisterOutcome(t) ==
    /\ tool[t] = "register"
    /\ IF pendingTool[CallIdOf[t]] # NoReq
         THEN Finish(t) /\ UNCHANGED pendingTool
         ELSE /\ Goto(t, "enqueue")
              /\ pendingTool' = [pendingTool EXCEPT ![CallIdOf[t]] = t]
              /\ UNCHANGED <<toolRun, toolVia, replies>>
    /\ UNCHANGED <<routeVars, postVars, outcomeCh, answer>>

\* Mutant of EnqueueTool: the full-channel branch falls through to the wait.
EnqueueToolFallsThrough(t) ==
    /\ tool[t] = "enqueue"
    /\ ~toolChan[toolVia[t]].closed
    /\ IF IsFull(toolChan[toolVia[t]], ToolBufCap)
         THEN WriteResponse(t) /\ UNCHANGED toolChan
         ELSE /\ toolChan' = [toolChan EXCEPT ![toolVia[t]] = TrySend(@, t, ToolBufCap)]
              /\ UNCHANGED replies
    /\ Goto(t, "await")
    /\ UNCHANGED <<waitVars, postVars, toolRun, toolVia, toolSub, nSubs, answer>>

\* `select { case ch <- req: default: }` on the channel looked up two steps ago.
EnqueueTool(t) ==
    /\ tool[t] = "enqueue"
    /\ ~toolChan[toolVia[t]].closed
    /\ IF IsFull(toolChan[toolVia[t]], ToolBufCap)
         THEN Finish(t) /\ DropPendingTool(CallIdOf[t]) /\ UNCHANGED toolChan
         ELSE /\ Goto(t, "await")
              /\ toolChan' = [toolChan EXCEPT ![toolVia[t]] = TrySend(@, t, ToolBufCap)]
              /\ UNCHANGED <<pendingTool, toolRun, toolVia, replies>>
    /\ UNCHANGED <<postVars, toolSub, nSubs, outcomeCh, answer>>

\* The same send, when closeRun or a second subscriber closed the channel.
EnqueueToolOnClosed(t) ==
    /\ tool[t] = "enqueue"
    /\ toolChan[toolVia[t]].closed
    /\ panic' = "send"
    /\ UNCHANGED toolVars

\* case outcome := <-outcomeCh
AwaitOutcome(t) ==
    /\ tool[t] = "await"
    /\ HasMessage(outcomeCh[t])
    /\ answer' = [answer EXCEPT ![t] = Head(outcomeCh[t].buf)]
    /\ outcomeCh' = [outcomeCh EXCEPT ![t] = Receive(@)]
    /\ Goto(t, "answered")
    /\ UNCHANGED <<routeVars, postVars, toolRun, toolVia, pendingTool, replies>>

\* ... then the entry is dropped and the outcome written back to the runner.
ReplyOutcome(t) ==
    /\ tool[t] = "answered"
    /\ DropPendingTool(CallIdOf[t])
    /\ Finish(t)
    /\ UNCHANGED <<routeVars, postVars, outcomeCh, answer>>

\* Mutant of AwaitStopped: the entry stays in the map.
AwaitStoppedKeepsEntry(t) ==
    /\ tool[t] = "await"
    /\ stopped
    /\ Finish(t)
    /\ UNCHANGED <<routeVars, waitVars, postVars, answer>>

\* case <-s.stopped
AwaitStopped(t) ==
    /\ tool[t] = "await"
    /\ stopped
    /\ DropPendingTool(CallIdOf[t])
    /\ Finish(t)
    /\ UNCHANGED <<routeVars, postVars, outcomeCh, answer>>

-----------------------------------------------------------------------------
(* The HTTP side.                                                           *)

\* SubscribeToolCalls: an earlier channel of the run is closed and replaced.
SubscribeToolCalls(r) ==
    /\ nSubs < MaxSubs
    /\ nSubs' = nSubs + 1
    /\ panic' = IF toolSub[r] # 0 /\ toolChan[toolSub[r]].closed THEN "close" ELSE panic
    /\ toolChan' = [i \in 1..MaxSubs |->
                       IF i = toolSub[r] THEN CloseChan(toolChan[i]) ELSE toolChan[i]]
    /\ toolSub' = [toolSub EXCEPT ![r] = nSubs + 1]
    /\ UNCHANGED <<handlerVars, waitVars, postVars>>

\* The stream takes the next tool request to send it to its client.
TakeToolRequest(i) ==
    /\ i <= nSubs
    /\ HasMessage(toolChan[i])
    /\ toolChan' = [toolChan EXCEPT ![i] = Receive(@)]
    /\ UNCHANGED <<handlerVars, waitVars, postVars, toolSub, nSubs>>

\* Mutant of CloseRunTools: the entry stays in the map.
CloseRunToolsKeepsEntry(r) ==
    /\ panic' = IF toolSub[r] # 0 /\ toolChan[toolSub[r]].closed THEN "close" ELSE panic
    /\ toolChan' = [i \in 1..MaxSubs |->
                       IF i = toolSub[r] THEN CloseChan(toolChan[i]) ELSE toolChan[i]]
    /\ UNCHANGED <<handlerVars, waitVars, postVars, toolSub, nSubs>>

\* The tool half of closeRun: under runToolsMu the entry is deleted, then its
\* channel closed by the goroutine that deleted it.
CloseRunTools(r) ==
    /\ panic' = IF toolSub[r] # 0 /\ toolChan[toolSub[r]].closed THEN "close" ELSE panic
    /\ toolChan' = [i \in 1..MaxSubs |->
                       IF i = toolSub[r] THEN CloseChan(toolChan[i]) ELSE toolChan[i]]
    /\ toolSub' = [toolSub EXCEPT ![r] = 0]
    /\ UNCHANGED <<handlerVars, waitVars, postVars, nSubs>>

\* writeNotify("tool.result", ...) is what ForceExpireToolCall adds to CompleteToolCall.
Notify(p, k, kind) == notified' = IF kind = "expire" THEN notified \cup {k} ELSE notified

\* CompleteToolCall, first half, under pendingToolMu.
StartPost(p, k, kind) ==
    /\ post[p] = "idle"
    /\ postCall' = [postCall EXCEPT ![p] = k]
    /\ postKind' = [postKind EXCEPT ![p] = kind]
    /\ IF pendingTool[k] = NoReq
         THEN /\ post' = [post EXCEPT ![p] = "expired"]
              /\ Notify(p, k, kind)
              /\ UNCHANGED postFor
         ELSE /\ post' = [post EXCEPT ![p] = "found"]
              /\ postFor' = [postFor EXCEPT ![p] = pendingTool[k]]
              /\ UNCHANGED notified
    /\ UNCHANGED <<handlerVars, routeVars, waitVars>>

\* What a post may bring, and what becomes of it.
KindsOf(p) == IF p \in Expiries THEN {"expire"} ELSE Outcomes
OutcomeOf(p) == IF postKind[p] = "result" THEN "result" ELSE "error"

\* Mutants of CompletePost: a forced expiry is delivered as a result; and a later
\* answer replaces one that the handler has not taken yet.
CompletePostExpiryAsResult(p) ==
    /\ post[p] = "found"
    /\ LET o == IF postKind[p] = "error" THEN "error" ELSE "result"
       IN  outcomeCh' = [outcomeCh EXCEPT ![postFor[p]] = TrySend(@, o, OutcomeCap)]
    /\ post' = [post EXCEPT ![p] = "accepted"]
    /\ Notify(p, postCall[p], postKind[p])
    /\ UNCHANGED <<handlerVars, routeVars, pendingTool, postCall, postKind, postFor>>

CompletePostLastWins(p) ==
    /\ post[p] = "found"
    /\ outcomeCh' = [outcomeCh EXCEPT ![postFor[p]].buf = <<OutcomeOf(p)>>]
    /\ post' = [post EXCEPT ![p] = "accepted"]
    /\ Notify(p, postCall[p], postKind[p])
    /\ UNCHANGED <<handlerVars, routeVars, pendingTool, postCall, postKind, postFor>>

\* Second half: the non-blocking send, after the mutex is released.
CompletePost(p) ==
    /\ post[p] = "found"
    /\ outcomeCh' = [outcomeCh EXCEPT ![postFor[p]] = TrySend(@, OutcomeOf(p), OutcomeCap)]
    /\ post' = [post EXCEPT ![p] = "accepted"]
    /\ Notify(p, postCall[p], postKind[p])
    /\ UNCHANGED <<handlerVars, routeVars, pendingTool, postCall, postKind, postFor>>
-----------------------------------------------------------------------------
\* Mutant of HandlerStep: the wait does not select on s.stopped.
HandlerStepDeaf(t) ==
    \/ RejectInbound(t)
    \/ LookupToolChannel(t)
    \/ RegisterOutcome(t)
    \/ EnqueueTool(t)
    \/ AwaitOutcome(t)
    \/ ReplyOutcome(t)

HandlerStep(t) ==
    \/ RejectInbound(t)
    \/ LookupToolChannel(t)
    \/ RegisterOutcome(t)
    \/ EnqueueTool(t)
    \/ AwaitOutcome(t)
    \/ ReplyOutcome(t)
    \/ AwaitStopped(t)

RunHandler(t) == (HandlerStep(t) /\ UNCHANGED panic) \/ EnqueueToolOnClosed(t)

\* A step of one of the tool goroutines or of an HTTP handler.
ToolStep ==
    \/ \E t \in ToolReqs : RunHandler(t)
    \/ /\ \/ \E i \in 1..MaxSubs : TakeToolRequest(i)
          \/ \E p \in Posts, k \in CallIds : \E kind \in KindsOf(p) : StartPost(p, k, kind)
          \/ \E p \in Posts : CompletePost(p)
       /\ UNCHANGED panic
    \/ \E r \in Runs : SubscribeToolCalls(r)

-----------------------------------------------------------------------------
(* The component on its own: the rest of the supervisor may hand it a       *)
(* request, end a run, stop, or die of a panic elsewhere, at any time.      *)

Stop == ~stopped /\ stopped' = TRUE

ToolEnvironment ==
    \/ \E t \in ToolReqs, r \in Runs \cup {NoRun} : Inbound(t, r) /\ UNCHANGED <<panic, stopped>>
    \/ \E r \in Runs : CloseRunTools(r) /\ UNCHANGED stopped
    \/ Stop /\ UNCHANGED <<toolVars, panic>>
    \/ panic' \in {"send", "close"} /\ UNCHANGED <<toolVars, stopped>>

ToolNext ==
    /\ panic = "no"
    /\ \/ ToolStep /\ UNCHANGED stopped
       \/ ToolEnvironment

toolSpecVars == <<panic, stopped, toolVars>>

ToolSpec == ToolInit /\ [][ToolNext]_toolSpecVars

\* The scheduler eventually runs every runnable handler; clients may never
\* subscribe, read or post.
Alive(A) == panic = "no" /\ A
ToolFairness ==
    \A t \in ToolReqs : WF_toolSpecVars(Alive(RunHandler(t) /\ UNCHANGED stopped))

ToolFairSpec == ToolSpec /\ ToolFairness
-----------------------------------------------------------------------------
(* What the tool-call machinery must guarantee.                             *)

\* The runner gets at most one response to a tool.execute request, and has got
\* it exactly when the handler is done (dispatchToolExecute: one write per path).
RepliedOnce ==
    \A t \in ToolReqs : replies[t] = IF tool[t] = "done" THEN 1 ELSE 0

\* A handler that waits can be answered: the entry of its callId is its own, so
\* CompleteToolCall finds its channel.  Overwriting an entry "would strand the
\* previous execute goroutine forever" (supervisor.go:638-640).
Registered == {"enqueue", "await", "answered"}
NoStrandedExecute ==
    \A t \in ToolReqs : tool[t] \in Registered => pendingTool[CallIdOf[t]] = t

\* The converse: an entry left in the map always belongs to a handler that will
\* remove it, so a finished call cannot block its callId or swallow an answer.
NoOrphanEntry ==
    \A k \in CallIds : pendingTool[k] # NoReq =>
        /\ tool[pendingTool[k]] \in Registered
        /\ CallIdOf[pendingTool[k]] = k

\* A handler only ever takes an outcome that some client posted, or that expiry
\* forced, for its own callId.
AnswersArePosted ==
    \A t \in ToolReqs : answer[t] # "none" =>
        \E p \in Posts : /\ postCall[p] = CallIdOf[t]
                         /\ post[p] = "accepted"
                         /\ (answer[t] = "result") = (postKind[p] = "result")

\* A channel still in the map is open: closeRun and SubscribeToolCalls, which
\* both close what they find there, never close a channel twice.
SubscribedChannelOpen ==
    \A r \in Runs : toolSub[r] # 0 =>
        /\ ~toolChan[toolSub[r]].closed
        /\ toolSub[r] <= nSubs
        /\ \A q \in Runs : toolSub[q] = toolSub[r] => q = r

\* Once the supervisor is stopped no handler waits forever for a client
\* ("supervisor Close closes s.stopped so we unwind cleanly", supervisor.go:665-666).
StopUnwindsHandlers ==
    \A t \in ToolReqs : (stopped /\ tool[t] # "idle") ~> (tool[t] = "done" \/ panic # "no")

\* p is accepted for t, and no other post is yet.
AcceptedFirst(p, t) ==
    /\ post[p] = "accepted" /\ postFor[p] = t
    /\ \A q \in Posts \ {p} : post[q] = "accepted" => postFor[q] # t

\* Of the posts and expiries that race for a call, the first that is accepted while
\* the handler waits is the reply, and not a later one, nor one that found the entry
\* before and sends after it; only a stop may come before it, since the wait may
\* take either (supervisor.go:667-688).
AcceptedIsReplied ==
    \A p \in Posts, t \in ToolReqs \ BadReqs :
        (AcceptedFirst(p, t) /\ tool[t] = "await") ~>
            \/ panic # "no"
            \/ /\ tool[t] = "done"
               /\ answer[t] = OutcomeOf(p) \/ (answer[t] = "none" /\ stopped)
=============================================================================
