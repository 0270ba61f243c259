CONSTANTS
    Vms = {p, q}
    Refs = {r1, r2}
    Keys = {key}
    GameFrame = key
    ClientCommand = key
    Delays = {0, 1}
    MaxId = 3
    MaxPins = 3
    MaxTime = 1
    MaxDepth = 3
SPECIFICATION Spec
SYMMETRY Symmetry
INVARIANTS
    TypeOK
    OwnsItsSlot
    NoLostReference
    RegistryConsistent
    HeldCopiesStayGood
    RunsItsOwnFunction
PROPERTIES
    QuarantineIsLocal
    CancelIsFinal
    SubscriberIsCalled
    OnlyDueTimersStart
    UnregisteredNeverRuns
