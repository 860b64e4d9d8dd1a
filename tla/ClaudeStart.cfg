SPECIFICATION ClaudeSpec
CONSTANTS
  ServerTools = {s1}
  ClientTools = {}
  MaxText = 1
  MaxCursorEvents = 3
  NoTool = noTool
INVARIANT StartsBeforeStop
CHECK_DEADLOCK FALSE
