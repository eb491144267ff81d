SPECIFICATION FairSpecI
CONSTANTS
    Goroutine = {g1, g2}
    Struct <- StructDef
    Refs <- RefsDef
    Outcome <- OutcomeDef
    Hash <- HashDef
    Asked <- AskedDef
    InitCalls <- InitCallsDef
    NoDesc = NoDesc
    NoOne = NoOne
    MaxCalls = 2
INVARIANTS TypeOK PublishedComplete NoFault NoLinkRace OneDescriptor AnswerByType InitNoFault NoHangOnceUsed
PROPERTIES BindOnce CallEndsUnlessStuck ImplementsTable
CHECK_DEADLOCK FALSE
