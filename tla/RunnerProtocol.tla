--------------------------- MODULE RunnerProtocol ---------------------------
(***************************************************************************)
(* What the supervisor may expect of its child: the abstract specification *)
(* of the Node runner's side of the pipe, as wide as the JSON-RPC protocol *)
(* of executor/sdk/protocol.go.  Every request is answered at most once,   *)
(* an agent.send that succeeds names a run of its own, and a run's         *)
(* notifications are its events and then one final message.  Nothing       *)
(* orders a run's notifications after the reply that names it, and the     *)
(* process may end at any moment.                                          *)
(*                                                                         *)
(* Supervisor composes these steps with the Go side; NodeRunner is shown   *)
(* to implement them.                                                      *)
(***************************************************************************)
EXTENDS AgentTypes, Naturals, Sequences

CONSTANTS
    MaxCalls,    \* BOUND: number of requests made
    MaxEvents    \* BOUND: run.event notifications per run

ASSUME ProtocolAssumption == MaxCalls \in Nat /\ MaxEvents \in Nat

Ids == 1..MaxCalls

VARIABLES
    kind,        \* what each request is for
    child,       \* the child process: "running" or "gone"
    stdout,      \* frames written by the child and not yet read
    request,     \* per id: "none", "open" (the child has it), "answered"
    runOf,       \* the run the child started for a request
    runState,    \* "unborn", "live", "ended"
    emitted,     \* notifications the child wrote for a run
    toolSent     \* tool requests the child made

childVars == <<child, stdout, request, runOf, runState, emitted, toolSent>>

Kinds == {"unary",   \* ping, agent.create/list/status/close, run.cancel
          "stream",  \* agent.send by streamSSE or streamNonStreaming
          "drain"}   \* agent.send by a handler that leaves drainToVoid behind
IsSend(id) == kind[id] \in {"stream", "drain"}

\* run.done and run.error are dispatched alike: both are a final message.
RunMsgTypes == {"event", "final"}
FrameTypes == {"reply", "fail", "tool"} \cup RunMsgTypes

\* id: the call a reply answers, or the request a tool frame makes; run: the
\* runId it carries; n: position among the notifications of its run.
Frame(type, id, run, n) == [type |-> type, id |-> id, run |-> run, n |-> n]
Frames == [type : FrameTypes,
           id : Ids \cup ToolReqs \cup {0}, run : Runs \cup {NoRun}, n : Nat]

ProtocolTypeOK ==
    /\ kind \in [Ids -> Kinds]
    /\ child \in {"running", "gone"}
    /\ stdout \in Seq(Frames)
    /\ request \in [Ids -> {"none", "open", "answered"}]
    /\ runOf \in [Ids -> Runs \cup {NoRun}]
    /\ runState \in [Runs -> {"unborn", "live", "ended"}]
    /\ emitted \in [Runs -> Nat]
    /\ toolSent \in SUBSET ToolReqs

ChildInit ==
    /\ child = "running"
    /\ stdout = <<>>
    /\ request = [id \in Ids |-> "none"]
    /\ runOf = [id \in Ids |-> NoRun]
    /\ runState = [r \in Runs |-> "unborn"]
    /\ emitted = [r \in Runs |-> 0]
    /\ toolSent = {}

-----------------------------------------------------------------------------
Write(f) == stdout' = Append(stdout, f)

\* agent.send starts a run.
ChildStartRun(id, r) ==
    /\ child = "running"
    /\ request[id] = "open"
    /\ IsSend(id)
    /\ runOf[id] = NoRun
    /\ runState[r] = "unborn"
    /\ runOf' = [runOf EXCEPT ![id] = r]
    /\ runState' = [runState EXCEPT ![r] = "live"]
    /\ UNCHANGED <<kind, child, stdout, request, emitted, toolSent>>

\* One answer: the run that was started, a plain result, or an error.
ChildReply(id) ==
    /\ child = "running"
    /\ request[id] = "open"
    /\ request' = [request EXCEPT ![id] = "answered"]
    /\ \/ /\ IsSend(id) => runOf[id] # NoRun
          /\ Write(Frame("reply", id, runOf[id], 0))
       \/ /\ runOf[id] = NoRun
          /\ Write(Frame("fail", id, NoRun, 0))
    /\ UNCHANGED <<kind, child, runOf, runState, emitted, toolSent>>

ChildEvent(r) ==
    /\ child = "running"
    /\ runState[r] = "live"
    /\ emitted[r] < MaxEvents
    /\ emitted' = [emitted EXCEPT ![r] = @ + 1]
    /\ Write(Frame("event", 0, r, emitted[r] + 1))
    /\ UNCHANGED <<kind, child, request, runOf, runState, toolSent>>

\* run.done or run.error, once.
ChildEndRun(r) ==
    /\ child = "running"
    /\ runState[r] = "live"
    /\ runState' = [runState EXCEPT ![r] = "ended"]
    /\ emitted' = [emitted EXCEPT ![r] = @ + 1]
    /\ Write(Frame("final", 0, r, emitted[r] + 1))
    /\ UNCHANGED <<kind, child, request, runOf, toolSent>>

\* tool.execute, with whatever runId it carries.
ChildToolRequest(r, t) ==
    /\ child = "running"
    /\ t \notin toolSent
    /\ toolSent' = toolSent \cup {t}
    /\ Write(Frame("tool", t, r, 0))
    /\ UNCHANGED <<kind, child, request, runOf, runState, emitted>>

\* A crash, the end of its stdin, or SIGKILL.
ChildExit ==
    /\ child = "running"
    /\ child' = "gone"
    /\ UNCHANGED <<kind, stdout, request, runOf, runState, emitted, toolSent>>

ChildStep ==
    \/ \E id \in Ids : ChildReply(id) \/ \E r \in Runs : ChildStartRun(id, r)
    \/ \E r \in Runs : ChildEvent(r) \/ ChildEndRun(r)
    \/ \E r \in Runs \cup {NoRun}, t \in ToolReqs : ChildToolRequest(r, t)
    \/ ChildExit

-----------------------------------------------------------------------------
(* The other end of the pipe, as far as the child can tell.                 *)

Ask(id) == request[id] = "none" /\ request' = [request EXCEPT ![id] = "open"]

ParentStep ==
    \/ \E id \in Ids, k \in Kinds :
          /\ Ask(id)
          /\ kind' = [kind EXCEPT ![id] = k]
          /\ UNCHANGED <<child, stdout, runOf, runState, emitted, toolSent>>
    \/ /\ stdout # <<>>
       /\ stdout' = Tail(stdout)
       /\ UNCHANGED <<kind, child, request, runOf, runState, emitted, toolSent>>

ProtocolSpec == ChildInit /\ kind \in [Ids -> Kinds]
                  /\ [][ChildStep \/ ParentStep]_<<kind, childVars>>
=============================================================================
