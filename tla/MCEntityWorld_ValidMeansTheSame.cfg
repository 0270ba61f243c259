CONSTANTS
    Index = {e1, e2}
    Slots = {s1}
    Classes = {ak, deagle}
    SlotOf <- MCSlotOf
    None = None
    MaxMade = 3
    MaxCalls = 1
    MaxRemovals = 2
SPECIFICATION Spec
INVARIANTS
    ValidMeansTheSame
CHECK_DEADLOCK FALSE
