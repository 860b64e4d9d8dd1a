-------------------------- MODULE AnthropicMessage --------------------------
(***************************************************************************)
(* What a client of the Messages API may rely on about one streamed        *)
(* message, frame by frame: where it starts and ends, the life of its      *)
(* tool_use and server_tool_use blocks, and the result every announced     *)
(* server tool is owed.  Text, thinking and pings are stutters here.       *)
(* ClaudeStream is checked to implement it.                                *)
(***************************************************************************)
CONSTANTS
  ServerTools,   \* the ids of the server tools of the turn
  Indices        \* the indices a content block may have

VARIABLES
  phase,   \* "none", "open" after message_start, "done" after message_stop, "failed" after error
  open,    \* the indices of the tool blocks started and not yet stopped
  used,    \* the indices of every tool block started so far
  owed     \* the server tools announced and without a result

messageVars == <<phase, open, used, owed>>

MessageInit == phase = "none" /\ open = {} /\ used = {} /\ owed = {}

StartMessage ==
  /\ phase = "none"
  /\ phase' = "open"
  /\ UNCHANGED <<open, used, owed>>

(* A tool block takes an index no tool block of the message had before. *)
StartBlock(i) ==
  /\ phase = "open"
  /\ i \notin used
  /\ open' = open \union {i}
  /\ used' = used \union {i}

StartTool(i) == StartBlock(i) /\ UNCHANGED <<phase, owed>>

AnnounceTool(i, s) ==
  /\ StartBlock(i)
  /\ owed' = owed \union {s}
  /\ UNCHANGED phase

StopBlock(i) ==
  /\ phase = "open"
  /\ i \in open
  /\ open' = open \ {i}
  /\ UNCHANGED <<phase, used, owed>>

AnswerTool(s) ==
  /\ phase = "open"
  /\ owed' = owed \ {s}
  /\ UNCHANGED <<phase, open, used>>

StopMessage ==
  /\ phase = "open"
  /\ open = {} /\ owed = {}
  /\ phase' = "done"
  /\ UNCHANGED <<open, used, owed>>

(* A failure after the start leaves blocks open and results owed. *)
ReportError ==
  /\ phase = "open"
  /\ phase' = "failed"
  /\ UNCHANGED <<open, used, owed>>

MessageNext ==
  \/ StartMessage \/ StopMessage \/ ReportError
  \/ \E i \in Indices : StartTool(i) \/ StopBlock(i)
  \/ \E i \in Indices, s \in ServerTools : AnnounceTool(i, s)
  \/ \E s \in ServerTools : AnswerTool(s)

MessageSpec == MessageInit /\ [][MessageNext]_messageVars
=============================================================================
