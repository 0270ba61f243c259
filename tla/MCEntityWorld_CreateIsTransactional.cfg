CONSTANTS
    Index = {e1, e2}
    Slots = {s1}
    Classes = {ak, deagle}
    SlotOf <- MCSlotOf
    None = None
    MaxMade = 3
    MaxCalls = 1
    MaxRemovals = 2
SPECIFICATION Spec
PROPERTIES
    CreateIsTransactional
CHECK_DEADLOCK FALSE
