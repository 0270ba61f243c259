CONSTANTS
    a = a
    b = b
    n = n
    NoName = NoName
    Files <- MCFiles
    FileOrder <- MCFileOrder
    KeyOf <- DistinctKeys
    KeyOrder <- MCKeyOrder
    Names <- MCNames
    Contents <- MCContents
SPECIFICATION Spec
INVARIANT BadPackageIsContained
