---------------------------- MODULE MCNodeRunner ----------------------------
(* Instances of NodeRunner for TLC.                                         *)
EXTENDS NodeRunner

\* Every tool request carries the same SDK call id: what the byCallId index, which
\* keeps the last one only, has to cope with.
SharedCallId == [t \in ToolReqs |-> CHOOSE c \in CallIds : TRUE]
=============================================================================
