----------------------------- MODULE MCChatStream -----------------------------
(* Instances of ChatStream for TLC.                                         *)
EXTENDS ChatStream

\* The proxy and the plugin always ask for the turn's end.  Here the client declares
\* tools; it asks for server-side web tools, or not.
ClientTools == {{"turnEnd", "toolCall"}}
AllRequests == {{"turnEnd", "toolCall"}, {"turnEnd", "toolCall", "serverTools"}}
=============================================================================
