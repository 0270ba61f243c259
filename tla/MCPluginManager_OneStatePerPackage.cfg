CONSTANTS
    a = a
    b = b
    n = n
    NoName = NoName
    Files <- MCFiles
    FileOrder <- MCFileOrder
    KeyOf <- OneKey
    KeyOrder <- OnlyA
    Names <- MCNames
    Contents <- MCContents
SPECIFICATION Spec
INVARIANT OneStatePerPackage
