CONSTANTS
    c1 = c1
    c2 = c2
    k1 = k1
    k2 = k2
    v1 = v1
    bad = bad
    Compilers = {c1}
    Server = Server
    SourceOrder <- MCSourceOrder
    Packages <- MCPackages
    Output <- MCOutput
    KeyFile = KeyFile
    Texts = {v1, bad}
    Good = {v1}
    Keys = {k1, k2}
    None = None
    NoText = NoText
    Absent = Absent
    Torn = Torn
    Damaged = Damaged
    Unsaid = Unsaid
    MaxCrashes = 0
SPECIFICATION Spec
PROPERTY RuntimeInventsNoKey
