--------------------------- MODULE MCClaudeStream ---------------------------
EXTENDS ClaudeStream
=============================================================================
