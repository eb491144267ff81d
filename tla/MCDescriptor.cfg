SPECIFICATION SpecD
CONSTANTS
    IdCount = 12
    WordSize = 4
    Ids = {0, 1, 3, 4, 7, 10}
    GoType <- MCGoType
    Depth <- MCDepth
    Numeral <- MCNumeral
    Decl <- MCDecl
    Identifiers <- MCIdentifiers
    Structs <- MCStructs
    MaxDecls = 2
INVARIANTS FoundById BitsAreIds FieldsAsDeclared FieldFound CacheKeepsTypesApart HalfMadeIsPointerToMap ReadAsLaidOut CountedUnseenIsWritten
CHECK_DEADLOCK FALSE
