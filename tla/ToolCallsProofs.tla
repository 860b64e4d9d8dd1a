--------------------------- MODULE ToolCallsProofs ---------------------------
(***************************************************************************)
(* Proofs about ToolCalls, for any number of requests, call ids, runs,     *)
(* posts and subscriptions.                                                *)
(***************************************************************************)
EXTENDS ToolCalls, TLAPS

-----------------------------------------------------------------------------
(* The channel operations keep a channel within its capacity.               *)

\* A channel just made holds nothing, so any capacity holds it.
LEMMA MakeChanLemma ==
    ASSUME NEW Msg, NEW cap \in Nat
    PROVE  MakeChan \in Chan(Msg, cap) /\ ~MakeChan.closed
  BY DEF MakeChan, Chan

\* A non-blocking send never overfills a channel (supervisor.go:653-663).
LEMMA TrySendLemma ==
    ASSUME NEW Msg, NEW cap \in Nat, NEW ch \in Chan(Msg, cap), NEW m \in Msg
    PROVE  TrySend(ch, m, cap) \in Chan(Msg, cap) /\ TrySend(ch, m, cap).closed = ch.closed
  BY DEF TrySend, IsFull, Chan

\* Closing leaves the buffered messages in place.
LEMMA CloseChanLemma ==
    ASSUME NEW Msg, NEW cap \in Nat, NEW ch \in Chan(Msg, cap)
    PROVE  CloseChan(ch) \in Chan(Msg, cap) /\ CloseChan(ch).closed
  BY DEF CloseChan, Chan

\* A receive takes a message of the channel and leaves a channel.
LEMMA ReceiveLemma ==
    ASSUME NEW Msg, NEW cap \in Nat, NEW ch \in Chan(Msg, cap), HasMessage(ch)
    PROVE  /\ Receive(ch) \in Chan(Msg, cap)
           /\ Head(ch.buf) \in Msg
           /\ Receive(ch).closed = ch.closed
  BY DEF Receive, HasMessage, Chan

\* A post brings a result, an error or an expiry, and what it sends is an outcome.
LEMMA KindsAndOutcomes ==
    ASSUME NEW p \in Posts
    PROVE  KindsOf(p) \subseteq Outcomes \cup {"expire"} /\ OutcomeOf(p) \in Outcomes
  BY DEF KindsOf, OutcomeOf, Outcomes

-----------------------------------------------------------------------------
(* Type correctness.  A handler past its lookup sends on the channel whose  *)
(* number it noted, so the types are inductive only with Routed: that       *)
(* number is the number of a channel; and with Claimed: a post that found   *)
(* an entry answers a call id.                                              *)

Routed ==
    \A t \in ToolReqs :
        tool[t] \in {"register", "enqueue", "await", "answered"} => toolVia[t] \in 1..MaxSubs

Claimed == \A p \in Posts : post[p] = "found" => postCall[p] \in CallIds

TypeInv == ToolTypeOK /\ Routed /\ Claimed

\* The initial state is well typed.
LEMMA TypeInit ==
    ASSUME ToolInit
    PROVE  TypeInv
  <1>. USE ToolAssumption DEF ToolInit
  <1>1. HandlerTypeOK /\ Routed
    BY DEF HandlerTypeOK, Routed
  <1>2. RouteTypeOK
    BY MakeChanLemma DEF RouteTypeOK
  <1>3. WaitTypeOK
    BY MakeChanLemma DEF WaitTypeOK, OutcomeCap
  <1>4. PostTypeOK /\ Claimed
    BY DEF PostTypeOK, Claimed
  <1>. QED  BY <1>1, <1>2, <1>3, <1>4 DEF TypeInv, ToolTypeOK

\* A handler's own step keeps the types.
LEMMA TypeHandler ==
    ASSUME TypeInv, NEW t \in ToolReqs, HandlerStep(t), UNCHANGED <<panic, stopped>>
    PROVE  TypeInv'
  <1>. USE ToolAssumption DEF TypeInv, Routed, ToolTypeOK, HandlerTypeOK, routeVars, waitVars, postVars
  <1>1. PostTypeOK' /\ Claimed'
    BY DEF HandlerStep, RejectInbound, LookupToolChannel, RegisterOutcome, EnqueueTool,
           AwaitOutcome, ReplyOutcome, AwaitStopped, PostTypeOK, Claimed
  <1>2. CASE RejectInbound(t)
    BY <1>1, <1>2 DEF RejectInbound, Finish, WriteResponse, Goto, RouteTypeOK, WaitTypeOK
  <1>3. CASE LookupToolChannel(t)
    <2>1. RouteTypeOK' /\ WaitTypeOK'
      BY <1>3 DEF LookupToolChannel, RouteTypeOK, WaitTypeOK
    <2>2. ToolChannelOf(toolRun[t]) \in 0..MaxSubs
      BY DEF ToolChannelOf, RouteTypeOK
    <2>3. HandlerTypeOK' /\ Routed'
      BY <1>3, <2>2 DEF LookupToolChannel, Finish, WriteResponse, Goto, Handling
    <2>. QED  BY <1>1, <1>3, <2>1, <2>3
  <1>4. CASE RegisterOutcome(t)
    <2>1. RouteTypeOK' /\ WaitTypeOK'
      <3>1. RouteTypeOK'
        BY <1>4 DEF RegisterOutcome, RouteTypeOK
      <3>2. pendingTool' = pendingTool \/ pendingTool' = [pendingTool EXCEPT ![CallIdOf[t]] = t]
        BY <1>4 DEF RegisterOutcome
      <3>. QED  BY <1>4, <3>1, <3>2 DEF RegisterOutcome, WaitTypeOK
    <2>2. HandlerTypeOK' /\ Routed'
      BY <1>4 DEF RegisterOutcome, Finish, WriteResponse, Goto, Handling
    <2>. QED  BY <1>1, <1>4, <2>1, <2>2
  <1>5. CASE EnqueueTool(t)
    <2>1. toolVia[t] \in 1..MaxSubs
      BY <1>5 DEF EnqueueTool
    <2>2. TrySend(toolChan[toolVia[t]], t, ToolBufCap) \in Chan(ToolReqs, ToolBufCap)
      BY <2>1, TrySendLemma DEF RouteTypeOK
    <2>3. RouteTypeOK'
      BY <1>5, <2>1, <2>2 DEF EnqueueTool, RouteTypeOK
    <2>4. WaitTypeOK'
      BY <1>5 DEF EnqueueTool, WaitTypeOK, DropPendingTool
    <2>5. HandlerTypeOK' /\ Routed'
      BY <1>5 DEF EnqueueTool, Finish, WriteResponse, Goto, Handling
    <2>. QED  BY <1>1, <1>5, <2>3, <2>4, <2>5
  <1>6. CASE AwaitOutcome(t)
    <2>1. /\ Receive(outcomeCh[t]) \in Chan(Outcomes, OutcomeCap)
          /\ Head(outcomeCh[t].buf) \in Outcomes
      BY <1>6, ReceiveLemma DEF AwaitOutcome, WaitTypeOK, OutcomeCap
    <2>2. RouteTypeOK' /\ WaitTypeOK'
      BY <1>6, <2>1 DEF AwaitOutcome, RouteTypeOK, WaitTypeOK
    <2>3. HandlerTypeOK' /\ Routed'
      BY <1>6, <2>1 DEF AwaitOutcome, Goto, Handling
    <2>. QED  BY <1>1, <1>6, <2>2, <2>3
  <1>7. CASE ReplyOutcome(t) \/ AwaitStopped(t)
    <2>1. RouteTypeOK' /\ WaitTypeOK'
      BY <1>7 DEF ReplyOutcome, AwaitStopped, DropPendingTool, RouteTypeOK, WaitTypeOK
    <2>2. HandlerTypeOK' /\ Routed'
      BY <1>7 DEF ReplyOutcome, AwaitStopped, Finish, WriteResponse, Goto, Handling
    <2>. QED  BY <1>1, <1>7, <2>1, <2>2
  <1>. QED  BY <1>2, <1>3, <1>4, <1>5, <1>6, <1>7 DEF HandlerStep

\* Subscribing and closing leave well-typed channels behind.
LEMMA TypeRoutes ==
    ASSUME TypeInv, NEW r \in Runs, SubscribeToolCalls(r) \/ CloseRunTools(r), UNCHANGED stopped
    PROVE  TypeInv'
  <1>. USE ToolAssumption DEF TypeInv, ToolTypeOK, SubscribeToolCalls, CloseRunTools
  <1>1. HandlerTypeOK' /\ Routed' /\ WaitTypeOK'
    BY DEF HandlerTypeOK, WaitTypeOK, Routed, handlerVars, waitVars
  <1>2. PostTypeOK' /\ Claimed'
    BY DEF PostTypeOK, Claimed, postVars
  <1>3. \A i \in 1..MaxSubs : CloseChan(toolChan[i]) \in Chan(ToolReqs, ToolBufCap)
    BY CloseChanLemma DEF RouteTypeOK
  <1>4. RouteTypeOK'
    <2>1. toolChan' \in [1..MaxSubs -> Chan(ToolReqs, ToolBufCap)]
      BY <1>3 DEF RouteTypeOK
    <2>2. nSubs' \in 0..MaxSubs /\ toolSub' \in [Runs -> 0..MaxSubs]
      <3>1. CASE SubscribeToolCalls(r)
        BY <3>1 DEF RouteTypeOK
      <3>2. CASE CloseRunTools(r)
        BY <3>2 DEF RouteTypeOK
      <3>. QED  BY <3>1, <3>2
    <2>. QED  BY <2>1, <2>2 DEF RouteTypeOK
  <1>5. panic' \in {"no", "send", "close"} /\ stopped' \in BOOLEAN
    OBVIOUS
  <1>. QED  BY <1>1, <1>2, <1>4, <1>5

\* The HTTP side's other steps: a stream takes a request, a client posts.
LEMMA TypeClients ==
    ASSUME TypeInv, UNCHANGED <<panic, stopped>>,
           \/ \E i \in 1..MaxSubs : TakeToolRequest(i)
           \/ \E p \in Posts, k \in CallIds, knd \in Outcomes \cup {"expire"} : StartPost(p, k, knd)
           \/ \E p \in Posts : CompletePost(p)
    PROVE  TypeInv'
  <1>. USE ToolAssumption DEF TypeInv, ToolTypeOK
  <1>1. HandlerTypeOK' /\ Routed'
    BY DEF TakeToolRequest, StartPost, CompletePost, HandlerTypeOK, Routed, handlerVars
  <1>2. CASE \E i \in 1..MaxSubs : TakeToolRequest(i)
    <2>1. WaitTypeOK' /\ PostTypeOK' /\ Claimed'
      BY <1>2 DEF TakeToolRequest, WaitTypeOK, PostTypeOK, Claimed, waitVars, postVars
    <2>2. RouteTypeOK'
      BY <1>2, ReceiveLemma DEF TakeToolRequest, RouteTypeOK
    <2>. QED  BY <1>1, <1>2, <2>1, <2>2
  <1>3. ASSUME NEW p \in Posts, NEW k \in CallIds, NEW knd \in Outcomes \cup {"expire"},
               StartPost(p, k, knd)
        PROVE  TypeInv'
    <2>1. RouteTypeOK' /\ WaitTypeOK'
      BY <1>3 DEF StartPost, RouteTypeOK, WaitTypeOK, routeVars, waitVars
    <2>2. PostTypeOK' /\ Claimed'
      BY <1>3 DEF StartPost, PostTypeOK, Claimed, WaitTypeOK, Notify
    <2>. QED  BY <1>1, <1>3, <2>1, <2>2
  <1>4. ASSUME NEW p \in Posts, CompletePost(p)
        PROVE  TypeInv'
    <2>1. RouteTypeOK' /\ PostTypeOK' /\ Claimed'
      BY <1>4 DEF CompletePost, RouteTypeOK, PostTypeOK, Claimed, routeVars, Notify
    <2>2. \A t \in ToolReqs, o \in Outcomes :
             TrySend(outcomeCh[t], o, OutcomeCap) \in Chan(Outcomes, OutcomeCap)
      BY TrySendLemma DEF WaitTypeOK, OutcomeCap
    <2>3. WaitTypeOK'
      BY <1>4, <2>2, KindsAndOutcomes DEF CompletePost, WaitTypeOK
    <2>. QED  BY <1>1, <1>4, <2>1, <2>3
  <1>. QED  BY <1>2, <1>3, <1>4

\* Every step of the specification keeps the types.
LEMMA TypeStep ==
    ASSUME TypeInv, [ToolNext]_toolSpecVars
    PROVE  TypeInv'
  <1>. USE DEF TypeInv, ToolTypeOK
  <1>1. CASE UNCHANGED toolVars /\ panic' \in {"no", "send", "close"} /\ stopped' \in BOOLEAN
    BY <1>1 DEF toolVars, handlerVars, routeVars, waitVars, postVars, HandlerTypeOK,
                RouteTypeOK, WaitTypeOK, PostTypeOK, Claimed, Routed
  <1>2. CASE UNCHANGED toolSpecVars
    BY <1>1, <1>2 DEF toolSpecVars
  <1>3. CASE ToolStep /\ UNCHANGED stopped
    <2>1. CASE \E t \in ToolReqs : RunHandler(t)
      BY <1>1, <1>3, <2>1, TypeHandler DEF RunHandler, EnqueueToolOnClosed
    <2>2. CASE \E r \in Runs : SubscribeToolCalls(r)
      BY <1>3, <2>2, TypeRoutes
    <2>. QED  BY <1>3, <2>1, <2>2, TypeClients, KindsAndOutcomes DEF ToolStep
  <1>4. CASE ToolEnvironment
    <2>1. ASSUME NEW t \in ToolReqs, NEW r \in Runs \cup {NoRun}, Inbound(t, r),
                 UNCHANGED <<panic, stopped>>
          PROVE  TypeInv'
      <3>1. RouteTypeOK' /\ WaitTypeOK' /\ PostTypeOK' /\ Claimed'
        BY <2>1 DEF Inbound, RouteTypeOK, WaitTypeOK, PostTypeOK, Claimed, routeVars, waitVars, postVars
      <3>2. HandlerTypeOK' /\ Routed'
        BY <2>1 DEF Inbound, Goto, HandlerTypeOK, Routed, Handling
      <3>. QED  BY <2>1, <3>1, <3>2
    <2>2. CASE \E r \in Runs : CloseRunTools(r) /\ UNCHANGED stopped
      BY <2>2, TypeRoutes
    <2>. QED  BY <1>1, <1>4, <2>1, <2>2 DEF ToolEnvironment, Stop
  <1>. QED  BY <1>2, <1>3, <1>4 DEF ToolNext

\* Type correctness: every handler, channel, map and post is always in one of the
\* states ToolTypeOK lists; in particular a run's tool channel and an outcome
\* channel never hold more than they were made for (supervisor.go:653-663, 733-739).
THEOREM ToolTypesCorrect == ToolSpec => []ToolTypeOK
  <1>1. ToolInit => TypeInv
    BY TypeInit
  <1>2. TypeInv /\ [ToolNext]_toolSpecVars => TypeInv'
    BY TypeStep
  <1>3. TypeInv => ToolTypeOK
    BY DEF TypeInv
  <1>. QED  BY <1>1, <1>2, <1>3, PTL DEF ToolSpec

-----------------------------------------------------------------------------
(* The map of waiting calls.  A handler removes whatever entry its callId   *)
(* has; that this is its own entry and nobody else's is NoStrandedExecute,  *)
(* which is what makes it inductive.                                        *)

EntryInv == RepliedOnce /\ NoStrandedExecute /\ NoOrphanEntry

\* A handler's own step keeps the entries and the responses in order.
LEMMA EntryHandler ==
    ASSUME TypeInv, EntryInv, NEW t \in ToolReqs, HandlerStep(t)
    PROVE  EntryInv'
  <1>. USE ToolAssumption DEF TypeInv, ToolTypeOK, HandlerTypeOK, WaitTypeOK, EntryInv,
                             Registered, Finish, WriteResponse, Goto, DropPendingTool
  <1>1. CASE RejectInbound(t) \/ LookupToolChannel(t)
    <2>1. RepliedOnce'
      BY <1>1 DEF RejectInbound, LookupToolChannel, RepliedOnce
    <2>2. NoStrandedExecute' /\ NoOrphanEntry'
      BY <1>1 DEF RejectInbound, LookupToolChannel, waitVars, NoStrandedExecute, NoOrphanEntry
    <2>. QED  BY <2>1, <2>2
  <1>2. CASE RegisterOutcome(t)
    <2>1. RepliedOnce'
      BY <1>2 DEF RegisterOutcome, RepliedOnce
    <2>2. NoStrandedExecute'
      BY <1>2 DEF RegisterOutcome, NoStrandedExecute
    <2>3. NoOrphanEntry'
      BY <1>2 DEF RegisterOutcome, NoOrphanEntry
    <2>. QED  BY <2>1, <2>2, <2>3
  <1>3. CASE EnqueueTool(t)
    <2>1. RepliedOnce'
      BY <1>3 DEF EnqueueTool, RepliedOnce
    <2>2. NoStrandedExecute'
      BY <1>3 DEF EnqueueTool, NoStrandedExecute
    <2>3. NoOrphanEntry'
      BY <1>3 DEF EnqueueTool, NoOrphanEntry
    <2>. QED  BY <2>1, <2>2, <2>3
  <1>4. CASE AwaitOutcome(t)
    <2>1. RepliedOnce'
      BY <1>4 DEF AwaitOutcome, RepliedOnce
    <2>2. NoStrandedExecute' /\ NoOrphanEntry'
      BY <1>4 DEF AwaitOutcome, NoStrandedExecute, NoOrphanEntry
    <2>. QED  BY <2>1, <2>2
  <1>5. CASE ReplyOutcome(t) \/ AwaitStopped(t)
    <2>1. RepliedOnce'
      BY <1>5 DEF ReplyOutcome, AwaitStopped, RepliedOnce
    <2>2. NoStrandedExecute'
      BY <1>5 DEF ReplyOutcome, AwaitStopped, NoStrandedExecute
    <2>3. NoOrphanEntry'
      BY <1>5 DEF ReplyOutcome, AwaitStopped, NoOrphanEntry
    <2>. QED  BY <2>1, <2>2, <2>3
  <1>. QED  BY <1>1, <1>2, <1>3, <1>4, <1>5 DEF HandlerStep

\* Nobody else touches the map, a handler's place or its responses, except that a
\* request arrives.
LEMMA EntryStep ==
    ASSUME TypeInv, EntryInv, [ToolNext]_toolSpecVars
    PROVE  EntryInv'
  <1>. USE DEF EntryInv
  <1>1. CASE UNCHANGED <<tool, replies, pendingTool>>
    BY <1>1 DEF RepliedOnce, NoStrandedExecute, NoOrphanEntry
  <1>2. CASE UNCHANGED toolSpecVars
    BY <1>1, <1>2 DEF toolSpecVars, toolVars, handlerVars, waitVars
  <1>3. CASE ToolStep
    <2>1. ASSUME NEW t \in ToolReqs, RunHandler(t)
          PROVE  EntryInv'
      BY <1>1, <2>1, EntryHandler
         DEF RunHandler, EnqueueToolOnClosed, toolVars, handlerVars, waitVars
    <2>2. CASE \E r \in Runs : SubscribeToolCalls(r)
      BY <1>1, <2>2 DEF SubscribeToolCalls, handlerVars, waitVars
    <2>3. CASE \E i \in 1..MaxSubs : TakeToolRequest(i)
      BY <1>1, <2>3 DEF TakeToolRequest, handlerVars, waitVars
    <2>4. CASE \E p \in Posts, k \in CallIds, knd \in Outcomes \cup {"expire"} :
                  StartPost(p, k, knd)
      BY <1>1, <2>4 DEF StartPost, handlerVars, waitVars
    <2>5. CASE \E p \in Posts : CompletePost(p)
      BY <1>1, <2>5 DEF CompletePost, handlerVars
    <2>. QED  BY <1>3, <2>1, <2>2, <2>3, <2>4, <2>5, KindsAndOutcomes DEF ToolStep
  <1>4. CASE ToolEnvironment
    <2>1. ASSUME NEW t \in ToolReqs, NEW r \in Runs \cup {NoRun}, Inbound(t, r)
          PROVE  EntryInv'
      <3>1. RepliedOnce'
        BY <2>1 DEF Inbound, Goto, TypeInv, ToolTypeOK, HandlerTypeOK, RepliedOnce
      <3>2. NoStrandedExecute' /\ NoOrphanEntry'
        BY <2>1 DEF Inbound, Goto, TypeInv, ToolTypeOK, HandlerTypeOK, waitVars, WaitTypeOK,
                    NoStrandedExecute, NoOrphanEntry, Registered
      <3>. QED  BY <3>1, <3>2
    <2>2. CASE \E r \in Runs : CloseRunTools(r)
      BY <1>1, <2>2 DEF CloseRunTools, handlerVars, waitVars
    <2>. QED  BY <1>1, <1>4, <2>1, <2>2 DEF ToolEnvironment, toolVars, handlerVars, waitVars
  <1>. QED  BY <1>2, <1>3, <1>4 DEF ToolNext

\* The three facts about entries and responses hold in every reachable state
\* (dispatchToolExecute, supervisor.go:618-695).
LEMMA EntryInvariant == ToolSpec => []EntryInv
  <1>1. ToolInit => TypeInv
    BY TypeInit
  <1>2. ToolInit => EntryInv
    BY ToolAssumption DEF ToolInit, EntryInv, RepliedOnce, NoStrandedExecute, NoOrphanEntry,
                          Registered
  <1>3. TypeInv /\ [ToolNext]_toolSpecVars => TypeInv'
    BY TypeStep
  <1>4. TypeInv /\ EntryInv /\ [ToolNext]_toolSpecVars => EntryInv'
    BY EntryStep
  <1>. QED  BY <1>1, <1>2, <1>3, <1>4, PTL DEF ToolSpec

\* Every tool.execute request gets at most one response, and a finished handler has
\* sent it (supervisor.go:618-689).
THEOREM RepliesAreSingle == ToolSpec => []RepliedOnce
  <1>1. EntryInv => RepliedOnce
    BY DEF EntryInv
  <1>. QED  BY <1>1, EntryInvariant, PTL

\* A waiting handler is always the one its callId leads to: no later request with
\* the same callId can strand it (supervisor.go:638-651).
THEOREM WaitersAreReachable == ToolSpec => []NoStrandedExecute
  <1>1. EntryInv => NoStrandedExecute
    BY DEF EntryInv
  <1>. QED  BY <1>1, EntryInvariant, PTL

\* An entry of the map always has a handler that will remove it.
THEOREM EntriesAreOwned == ToolSpec => []NoOrphanEntry
  <1>1. EntryInv => NoOrphanEntry
    BY DEF EntryInv
  <1>. QED  BY <1>1, EntryInvariant, PTL

-----------------------------------------------------------------------------
(* The tool channels.  What a new subscription gets is open because no      *)
(* channel is closed before its number was handed out.                      *)

FreshOpen == \A i \in 1..MaxSubs : i > nSubs => ~toolChan[i].closed

RouteInv == SubscribedChannelOpen /\ FreshOpen

\* Sends and receives close nothing; subscribing and closing keep what they close out
\* of the map.
LEMMA RouteStep ==
    ASSUME TypeInv, RouteInv, [ToolNext]_toolSpecVars
    PROVE  RouteInv'
  <1>. USE ToolAssumption DEF RouteInv
  <1>1. CASE /\ UNCHANGED <<toolSub, nSubs>>
             /\ \A i \in 1..MaxSubs : toolChan'[i].closed = toolChan[i].closed
    BY <1>1 DEF SubscribedChannelOpen, FreshOpen, TypeInv, ToolTypeOK, RouteTypeOK
  <1>2. CASE UNCHANGED routeVars
    BY <1>1, <1>2 DEF routeVars
  <1>3. ASSUME NEW t \in ToolReqs, RunHandler(t)
        PROVE  RouteInv'
    <2>1. CASE EnqueueTool(t)
      <3>1. toolVia[t] \in 1..MaxSubs
        BY <2>1 DEF EnqueueTool, TypeInv, Routed
      <3>2. TrySend(toolChan[toolVia[t]], t, ToolBufCap).closed = toolChan[toolVia[t]].closed
        BY <3>1, TrySendLemma DEF TypeInv, ToolTypeOK, RouteTypeOK
      <3>3. \A i \in 1..MaxSubs : toolChan'[i].closed = toolChan[i].closed
        BY <2>1, <3>1, <3>2 DEF EnqueueTool, TypeInv, ToolTypeOK, RouteTypeOK
      <3>. QED  BY <1>1, <2>1, <3>3 DEF EnqueueTool
    <2>2. CASE ~EnqueueTool(t)
      BY <1>2, <1>3, <2>2 DEF RunHandler, HandlerStep, EnqueueToolOnClosed, RejectInbound,
            LookupToolChannel, RegisterOutcome, AwaitOutcome, ReplyOutcome, AwaitStopped, toolVars
    <2>. QED  BY <2>1, <2>2
  <1>4. ASSUME NEW i \in 1..MaxSubs, TakeToolRequest(i)
        PROVE  RouteInv'
    <2>1. Receive(toolChan[i]).closed = toolChan[i].closed
      BY <1>4, ReceiveLemma DEF TakeToolRequest, TypeInv, ToolTypeOK, RouteTypeOK
    <2>2. \A j \in 1..MaxSubs : toolChan'[j].closed = toolChan[j].closed
      BY <1>4, <2>1 DEF TakeToolRequest, TypeInv, ToolTypeOK, RouteTypeOK
    <2>. QED  BY <1>1, <1>4, <2>2 DEF TakeToolRequest
  <1>5. ASSUME NEW r \in Runs, SubscribeToolCalls(r)
        PROVE  RouteInv'
    <2>. USE <1>5 DEF SubscribeToolCalls, SubscribedChannelOpen, FreshOpen, TypeInv, ToolTypeOK,
                      RouteTypeOK
    <2>1. ~toolChan'[nSubs + 1].closed
      OBVIOUS
    <2>2. SubscribedChannelOpen'
      BY <2>1
    <2>3. FreshOpen'
      OBVIOUS
    <2>. QED  BY <2>2, <2>3
  <1>6. ASSUME NEW r \in Runs, CloseRunTools(r)
        PROVE  RouteInv'
    <2>. USE <1>6 DEF CloseRunTools, SubscribedChannelOpen, FreshOpen, TypeInv, ToolTypeOK,
                      RouteTypeOK
    <2>1. SubscribedChannelOpen'
      OBVIOUS
    <2>2. FreshOpen'
      OBVIOUS
    <2>. QED  BY <2>1, <2>2
  <1>7. CASE ToolStep
    <2>1. CASE \E p \in Posts, k \in CallIds, knd \in Outcomes \cup {"expire"} :
                  StartPost(p, k, knd)
      BY <1>2, <2>1 DEF StartPost
    <2>2. CASE \E p \in Posts : CompletePost(p)
      BY <1>2, <2>2 DEF CompletePost
    <2>. QED  BY <1>3, <1>4, <1>5, <1>7, <2>1, <2>2, KindsAndOutcomes DEF ToolStep
  <1>8. CASE ToolEnvironment
    BY <1>2, <1>6, <1>8 DEF ToolEnvironment, Inbound, toolVars
  <1>. QED  BY <1>2, <1>7, <1>8 DEF ToolNext, toolSpecVars, toolVars

\* A channel found in runToolChannels is open and belongs to one run, so neither
\* closeRun nor a second subscriber closes a channel twice (supervisor.go:534-549,
\* 697-717).
THEOREM SubscribedChannelsOpen == ToolSpec => []SubscribedChannelOpen
  <1>1. ToolInit => TypeInv
    BY TypeInit
  <1>2. ToolInit => RouteInv
    BY ToolAssumption DEF ToolInit, RouteInv, SubscribedChannelOpen, FreshOpen, MakeChan
  <1>3. TypeInv /\ [ToolNext]_toolSpecVars => TypeInv'
    BY TypeStep
  <1>4. TypeInv /\ RouteInv /\ [ToolNext]_toolSpecVars => RouteInv'
    BY RouteStep
  <1>5. RouteInv => SubscribedChannelOpen
    BY DEF RouteInv
  <1>. QED  BY <1>1, <1>2, <1>3, <1>4, <1>5, PTL DEF ToolSpec

-----------------------------------------------------------------------------
(* Answers.  What a handler received was posted for its callId, because     *)
(* what waits in its channel was, and a post that found an entry answers    *)
(* the callId of the request it found.                                      *)

Posted(t, o) ==
    \E p \in Posts : /\ postCall[p] = CallIdOf[t]
                     /\ post[p] = "accepted"
                     /\ (o = "result") = (postKind[p] = "result")

AnswerInv ==
    /\ AnswersArePosted
    /\ \A t \in ToolReqs : HasMessage(outcomeCh[t]) => Posted(t, Head(outcomeCh[t].buf))
    /\ \A p \in Posts : post[p] = "found" =>
          postFor[p] \in ToolReqs /\ CallIdOf[postFor[p]] = postCall[p]

\* A post that was accepted stays what it was.
LEMMA PostedIsStable ==
    ASSUME NEW t \in ToolReqs, NEW o, Posted(t, o),
           \A p \in Posts : post[p] = "accepted" =>
              post'[p] = "accepted" /\ postCall'[p] = postCall[p] /\ postKind'[p] = postKind[p]
    PROVE  Posted(t, o)'
  BY DEF Posted

\* With room for one outcome, what a send leaves at the head was there or is the
\* outcome sent; and a receive leaves nothing.
LEMMA OneOutcome ==
    ASSUME NEW ch \in Chan(Outcomes, OutcomeCap), NEW o \in Outcomes
    PROVE  /\ \/ TrySend(ch, o, OutcomeCap) = ch /\ HasMessage(ch)
              \/ Head(TrySend(ch, o, OutcomeCap).buf) = o
           /\ HasMessage(ch) => ~HasMessage(Receive(ch))
  BY DEF Chan, OutcomeCap, TrySend, IsFull, HasMessage, Receive

\* Each step keeps AnswerInv; that a found entry has the posted callId comes from
\* NoOrphanEntry.
LEMMA AnswerStep ==
    ASSUME TypeInv, EntryInv, AnswerInv, [ToolNext]_toolSpecVars
    PROVE  AnswerInv'
  <1>. USE ToolAssumption
  <1>. DEFINE Stable == \A p \in Posts : post[p] = "accepted" =>
              post'[p] = "accepted" /\ postCall'[p] = postCall[p] /\ postKind'[p] = postKind[p]
  <1>1. CASE UNCHANGED <<answer, outcomeCh, postVars>>
    BY <1>1 DEF AnswerInv, AnswersArePosted, Posted, postVars, HasMessage
  <1>2. ASSUME NEW t \in ToolReqs, AwaitOutcome(t)
        PROVE  AnswerInv'
    <2>. USE <1>2 DEF AwaitOutcome, TypeInv, ToolTypeOK, HandlerTypeOK, WaitTypeOK
    <2>1. UNCHANGED postVars
      OBVIOUS
    <2>2. \A u \in ToolReqs : answer'[u] # "none" => Posted(u, answer'[u])
      BY DEF AnswerInv, AnswersArePosted, Posted
    <2>3. AnswersArePosted'
      BY <2>1, <2>2 DEF AnswersArePosted, Posted, postVars
    <2>4. \A u \in ToolReqs : HasMessage(outcomeCh'[u]) =>
                outcomeCh'[u] = outcomeCh[u] /\ HasMessage(outcomeCh[u])
      <3>1. ~HasMessage(Receive(outcomeCh[t]))
        BY OneOutcome DEF Outcomes
      <3>. QED  BY <3>1
    <2>5. \A u \in ToolReqs : HasMessage(outcomeCh'[u]) => Posted(u, Head(outcomeCh[u].buf))'
      BY <2>1, <2>4 DEF AnswerInv, Posted, postVars
    <2>. QED  BY <2>1, <2>3, <2>5 DEF AnswerInv, postVars, HasMessage
  <1>3. ASSUME NEW p \in Posts, NEW k \in CallIds, NEW knd \in Outcomes \cup {"expire"},
               StartPost(p, k, knd)
        PROVE  AnswerInv'
    <2>. USE <1>3 DEF StartPost, handlerVars, waitVars, TypeInv, ToolTypeOK, PostTypeOK, WaitTypeOK
    <2>1. Stable
      OBVIOUS
    <2>2. AnswersArePosted'
      BY <2>1 DEF AnswerInv, AnswersArePosted
    <2>3. \A t \in ToolReqs : HasMessage(outcomeCh[t]) => Posted(t, Head(outcomeCh[t].buf))'
      BY <2>1 DEF AnswerInv, Posted
    <2>4. \A q \in Posts : post'[q] = "found" =>
              postFor'[q] \in ToolReqs /\ CallIdOf[postFor'[q]] = postCall'[q]
      BY DEF AnswerInv, EntryInv, NoOrphanEntry
    <2>. QED  BY <2>2, <2>3, <2>4 DEF AnswerInv, HasMessage
  <1>4. ASSUME NEW p \in Posts, CompletePost(p)
        PROVE  AnswerInv'
    <2>. DEFINE o == OutcomeOf(p)
                u == postFor[p]
    <2>. USE <1>4 DEF CompletePost, handlerVars, TypeInv, ToolTypeOK, PostTypeOK, WaitTypeOK
    <2>1. u \in ToolReqs /\ CallIdOf[u] = postCall[p]
      BY DEF AnswerInv
    <2>2. Stable /\ postCall' = postCall /\ postKind' = postKind /\ postFor' = postFor
      OBVIOUS
    <2>3. AnswersArePosted'
      BY <2>2 DEF AnswerInv, AnswersArePosted
    <2>4. Posted(u, o)'
      BY <2>1, <2>2 DEF Posted, OutcomeOf
    <2>5. \A t \in ToolReqs : HasMessage(outcomeCh'[t]) => Posted(t, Head(outcomeCh[t].buf))'
      <3>1. ASSUME NEW t \in ToolReqs, HasMessage(outcomeCh[t]), outcomeCh'[t] = outcomeCh[t]
            PROVE  Posted(t, Head(outcomeCh[t].buf))'
        BY <2>2, <3>1 DEF AnswerInv, Posted
      <3>2. \A t \in ToolReqs : t # u => outcomeCh'[t] = outcomeCh[t]
        OBVIOUS
      <3>3. outcomeCh'[u] = TrySend(outcomeCh[u], o, OutcomeCap)
        BY <2>1
      <3>4. \/ outcomeCh'[u] = outcomeCh[u] /\ HasMessage(outcomeCh[u])
            \/ Head(outcomeCh'[u].buf) = o
        <4>1. outcomeCh[u] \in Chan(Outcomes, OutcomeCap) /\ o \in Outcomes
          BY <2>1, KindsAndOutcomes
        <4>. HIDE DEF o, u
        <4>. QED  BY <3>3, <4>1, OneOutcome
      <3>5. Posted(u, Head(outcomeCh[u].buf))'
        <4>1. CASE outcomeCh'[u] = outcomeCh[u] /\ HasMessage(outcomeCh[u])
          BY <2>1, <3>1, <4>1
        <4>2. CASE Head(outcomeCh'[u].buf) = o
          BY <2>2, <2>4, <4>2 DEF Posted, OutcomeOf
        <4>. QED  BY <3>4, <4>1, <4>2
      <3>. QED  BY <3>1, <3>2, <3>5
    <2>6. \A q \in Posts : post'[q] = "found" =>
              postFor'[q] \in ToolReqs /\ CallIdOf[postFor'[q]] = postCall'[q]
      BY <2>2 DEF AnswerInv
    <2>. QED  BY <2>3, <2>5, <2>6 DEF AnswerInv, HasMessage
  <1>5. CASE ToolStep
    <2>1. ASSUME NEW t \in ToolReqs, RunHandler(t)
          PROVE  AnswerInv'
      <3>1. CASE ~AwaitOutcome(t)
        BY <1>1, <2>1, <3>1 DEF RunHandler, HandlerStep, EnqueueToolOnClosed, RejectInbound,
             LookupToolChannel, RegisterOutcome, EnqueueTool, ReplyOutcome, AwaitStopped,
             toolVars, handlerVars, waitVars
      <3>. QED  BY <1>2, <3>1
    <2>2. CASE \E i \in 1..MaxSubs : TakeToolRequest(i)
      BY <1>1, <2>2 DEF TakeToolRequest, handlerVars, waitVars
    <2>3. CASE \E r \in Runs : SubscribeToolCalls(r)
      BY <1>1, <2>3 DEF SubscribeToolCalls, handlerVars, waitVars
    <2>. QED  BY <1>3, <1>4, <1>5, <2>1, <2>2, <2>3, KindsAndOutcomes DEF ToolStep
  <1>6. CASE ToolEnvironment
    <2>1. CASE \E t \in ToolReqs, r \in Runs \cup {NoRun} : Inbound(t, r)
      BY <1>1, <2>1 DEF Inbound, waitVars
    <2>2. CASE \E r \in Runs : CloseRunTools(r)
      BY <1>1, <2>2 DEF CloseRunTools, handlerVars, waitVars
    <2>. QED  BY <1>1, <1>6, <2>1, <2>2 DEF ToolEnvironment, toolVars, handlerVars, waitVars
  <1>. QED  BY <1>1, <1>5, <1>6 DEF ToolNext, toolSpecVars, toolVars, handlerVars, waitVars

\* A handler only ever gives the runner an outcome that a client posted, or that an
\* expiry forced, for its own callId: answers of different calls are never mixed up,
\* whatever the callIds, posts and expiries (supervisor.go:719-750).
THEOREM AnswersComeFromPosts == ToolSpec => []AnswersArePosted
  <1>1. ToolInit => TypeInv
    BY TypeInit
  <1>2. ToolInit => AnswerInv
    BY DEF ToolInit, AnswerInv, AnswersArePosted, HasMessage, MakeChan
  <1>3. TypeInv /\ [ToolNext]_toolSpecVars => TypeInv'
    BY TypeStep
  <1>4. TypeInv /\ EntryInv /\ AnswerInv /\ [ToolNext]_toolSpecVars => AnswerInv'
    BY AnswerStep
  <1>5. AnswerInv => AnswersArePosted
    BY DEF AnswerInv
  <1>. QED  BY <1>1, <1>2, <1>3, <1>4, <1>5, EntryInvariant, PTL DEF ToolSpec
=============================================================================
