SPECIFICATION Spec
CONSTANTS
    None = None
    Half32 = 8
    StructDesc <- MCStructDesc
    Goroutine = {g1}
    Message <- MCMessage
    Skip <- MCSkip
    Bitset = {b1}
    Unknown = {u1}
    Tmp = {t1}
    Dirty = {0, 3}
    MaxDepth = 6
    MaxCalls = 2
INVARIANTS AnswerIsMeaning
CHECK_DEADLOCK FALSE
