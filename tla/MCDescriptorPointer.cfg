SPECIFICATION SpecD
CONSTANTS
    IdCount = 12
    WordSize = 4
    Ids = {1}
    GoType <- MCGoType
    Depth <- MCDepth
    Numeral <- MCNumeral
    Decl <- MCDecl
    Identifiers <- MCIdentifiers
    Structs <- MCStructs
    MaxDecls = 1
INVARIANTS EveryFieldReadAsLaidOut
CHECK_DEADLOCK FALSE
