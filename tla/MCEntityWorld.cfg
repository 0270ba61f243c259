CONSTANTS
    Index = {e1, e2, e3}
    Slots = {s1}
    Classes = {ak, deagle}
    SlotOf <- MCSlotOf
    None = None
    MaxMade = 3
    MaxCalls = 1
    MaxRemovals = 2
SPECIFICATION Spec
SYMMETRY Symmetry
INVARIANTS
    DeletedIsForgotten
    PointersStayGood
PROPERTIES
    ReplacesOneSlot
    CreateRollsBack
CHECK_DEADLOCK FALSE
