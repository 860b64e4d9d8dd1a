----------------------------- MODULE AgentTypes -----------------------------
(* The identities both ends of the agent-mode pipe talk about.              *)
CONSTANTS
    Runs,        \* run ids
    ToolReqs,    \* tool.execute requests the runner may make
    NoRun        \* "no run", and the placeholder runId that names none

ASSUME RunAssumption == NoRun \notin Runs
=============================================================================
