CONSTANTS
    Vms = {p}
    Refs = {r1, r2}
    Keys = {key}
    GameFrame = key
    ClientCommand = key
    Delays = {0}
    MaxId = 3
    MaxPins = 3
    MaxTime = 0
    MaxDepth = 3
SPECIFICATION FairSpec
PROPERTY EveryCallReturns
