SPECIFICATION ClaudeSpec
CONSTANTS
  ServerTools = {s1}
  ClientTools = {t1}
  MaxText = 1
  MaxCursorEvents = 3
  NoTool = noTool
INVARIANT IndexStartsOnce
CHECK_DEADLOCK FALSE
