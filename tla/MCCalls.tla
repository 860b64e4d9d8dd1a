------------------------------ MODULE MCCalls ------------------------------
(***************************************************************************)
(* The tool calls of the supervisor and the requests of the sidecar, each  *)
(* of which must be unwound however it ends, checked in one run.  They     *)
(* share nothing: a behaviour is a behaviour of the one that part names,   *)
(* and the other stays in its initial state, where none of the actions     *)
(* assumed fair is enabled.                                                *)
(***************************************************************************)
EXTENDS ToolCalls, Sidecar

VARIABLE part

\* Three requests that carry the same callId: the duplicate the code refuses.
Reqs3 == 1..3
SharedCallId == [t \in Reqs3 |-> 1]

(* BOUND: the process dies of this part's own channels, or while one of its  *)
(* handlers is about to; dying elsewhere, at any time, only ends a behaviour. *)
DiesHere ==
  panic' # panic => \/ toolVars' # toolVars
                    \/ \E t \in ToolReqs : tool[t] = "enqueue" /\ toolChan[toolVia[t]].closed

(* BOUND: a malformed request, which is refused unseen by any other goroutine, *)
(* comes last.                                                             *)
MalformedLast ==
  \A b \in BadReqs, t \in ToolReqs \ BadReqs : tool'[b] # "idle" => tool'[t] = "done"

CallsInit == part \in {"toolCalls", "sidecar"} /\ ToolInit /\ SidecarInit

CallsNext ==
  /\ UNCHANGED part
  /\ \/ part = "toolCalls" /\ ToolNext /\ DiesHere /\ MalformedLast /\ UNCHANGED sidecarVars
     \/ part = "sidecar" /\ SidecarNext /\ UNCHANGED toolSpecVars

CallsSpec ==
  /\ CallsInit /\ [][CallsNext]_<<part, toolSpecVars, sidecarVars>>
  /\ ToolFairness /\ SidecarFairness
=============================================================================
