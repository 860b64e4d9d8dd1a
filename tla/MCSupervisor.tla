---------------------------- MODULE MCSupervisor ----------------------------
(* Instances of Supervisor for TLC.                                         *)
EXTENDS Supervisor

NoTools == {}
OneTool == {1}
\* The callId of each request: none, or request 1 as call 1.
NoCallIds == [t \in NoTools |-> 1]
OneCallId == [t \in OneTool |-> 1]
=============================================================================
