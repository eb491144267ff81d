SPECIFICATION Spec
CONSTANTS
    None = None
    Half32 = 8
    Wild = 0
    StructDesc <- MCStructDesc
    Object <- MCObject
    OtherValue <- MCOtherValue
    RvObject = {rv1, rv2}
    Skip <- MCSkip
    Changes <- MCChanges
    Value <- MCValue
    MaxChanges = 0
INVARIANTS MeasuredIsWritten
CHECK_DEADLOCK FALSE
