\* Paths in which the search finds no dot.
SPECIFICATION Spec
CONSTANTS
    Keys <- MCKeys
    Values = {a1, a2, a3, a4, a5}
    NULL = NULL
    Size = 2
    CharMax = 15
    UIntMax = 31
    Types = {html, jpeg, zip}
    Html = html
    Jpeg = jpeg
    Jpg <- MCJpg
    Dot = 8
    Paths <- MCPaths
    Free = Free
    Colon = 7
    Slash = 9
    NUL = 0
    Ends = {5, 6}
    Urls <- MCUrls
    DEFAULT_FILE_NAME <- Index
    Strings <- MCStrings
    MaxSets = 1
PROPERTIES DefaultTypeServed
SYMMETRY Addresses
CHECK_DEADLOCK FALSE
