\* Every request the handlers make, both kinds of consumer; two frames besides any
\* number of heartbeats, a channel of one slot.
CONSTANTS
    BufCap = 1
    Window = 2
    MaxFrames = 2
    OptionSets <- AllRequests
    Consumers = {"proxy", "plugin"}
SPECIFICATION ChatFairSpec
INVARIANTS ChatTypeOK FramesIntact
PROPERTIES TerminalSignalEnds ServerToolEnds SilentStreamEnds
CHECK_DEADLOCK FALSE
