CONSTANTS
    Events = {e1, e2, e3, e4, e5}
    NoEvent = null
    Values = {old, new}
    Capacity = 2
    MaxDepth = 4
    MaxToken = 4
SPECIFICATION Spec
SYMMETRY Symmetry
INVARIANTS
    TypeOK
    StackAccountsForCalls
    EventsFreedOnce
    TokensReachLiveCopies
PROPERTIES
    TokensAreNotReused
    ImplementsCalls
