CONSTANTS
    Vms = {p}
    Refs = {r1, r2}
    Keys = {key}
    GameFrame = key
    ClientCommand = key
    Delays = {1}
    MaxId = 4
    MaxPins = 4
    MaxTime = 1
    MaxDepth = 3
SPECIFICATION Spec
INVARIANT DisabledHoldsNothing
