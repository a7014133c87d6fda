\* Chains with collisions, behind each other and in buckets of their own.
SPECIFICATION TableSpec
CONSTANTS
    Keys <- SmallKeys
    Values = {v1, v2}
    NULL = NULL
    Size = 2
    CharMax = 3
    UIntMax = 7
INVARIANTS TableTypeOK ChainsSound
PROPERTIES ImplementsDictionary
