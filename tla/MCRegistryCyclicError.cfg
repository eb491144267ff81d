SPECIFICATION Spec
CONSTANTS
    Goroutine = {g1}
    Struct <- StructDef
    Refs <- RefsDef
    Outcome <- OutcomeDef
    Hash <- HashDef
    NoDesc = NoDesc
    NoOne = NoOne
    MaxCalls = 2
INVARIANTS PublishedComplete
CHECK_DEADLOCK FALSE
