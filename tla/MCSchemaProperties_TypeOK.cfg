CONSTANTS
    b1 = b1
    b2 = b2
    b3 = b3
    Ent = Ent
    Null = Null
    Huge = Huge
    Tiny = Tiny
    Inf = Inf
    Classes <- MCClasses
    Root = "Entity"
    Fields <- MCFields
    Bases <- MCBases
    Sizes <- MCSizes
    References <- MCReferences
    Blocks = {Ent, b1, b2, b3}
    Byte = 4
    Requests <- MCRequests
    Values <- MCValues
    Coerce <- MCCoerce
    Narrow <- MCNarrow
    Raws <- MCRaws
    Memories <- MCMemories
    Targets = {1}
    MaxCount = 2
    MaxNesting = 2
    MaxCalls = 2
SPECIFICATION Spec
INVARIANT TypeOK
CHECK_DEADLOCK FALSE
