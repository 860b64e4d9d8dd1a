\* A consumer that returns early; a channel of one slot.
CONSTANTS
    BufCap = 1
    Window = 2
    MaxFrames = 2
    OptionSets <- ClientTools
    Consumers = {"plugin"}
SPECIFICATION ChatFairSpec
PROPERTY LeftReaderEnds
CHECK_DEADLOCK FALSE
