CONSTANTS
    Events = {e1, e2, e3, e4}
    NoEvent = null
    Values = {old, new}
    Capacity = 2
    MaxDepth = 2
    MaxToken = 3
SPECIFICATION Spec
INVARIANT EngineFiresWhatWasWritten
