CONSTANTS
    v1 = v1
    v2 = v2
    v3 = v3
    m1 = m1
    m2 = m2
    Vms = {v1, v2, v3}
    Modules = {m1, m2}
    Hooks = {"FireEvent", "GameFrame"}
    Null = Null
    MaxDepth = 7
    MaxHandles = 2
SPECIFICATION Spec
INVARIANT TypeOK
SYMMETRY HostSymmetry
CHECK_DEADLOCK FALSE
