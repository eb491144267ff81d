SPECIFICATION Spec
CONSTANTS
    None = None
    Half32 = 8
    Wild = 0
    StructDesc <- MCStructDesc
    Object <- MCObject
    OtherValue <- MCOtherValue
    RvObject = {rv1, rv2}
    Skip <- MCSkip
    Changes <- MCChanges
    Value <- MCValue
    MaxChanges = 2
    MaxDepth = 8
INVARIANTS TypeOK WholeOrError MeasuredIsWritten RoundTrip CopyIsKept
CHECK_DEADLOCK FALSE
