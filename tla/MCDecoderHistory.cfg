SPECIFICATION FairSpec
CONSTANTS
    None = None
    Half32 = 8
    StructDesc <- MCStructDesc
    Goroutine = {g1}
    Message <- MCMessage
    Skip <- MCSkip
    Bitset = {b1, b2}
    Unknown = {u1, u2}
    Tmp = {t1, t2}
    Dirty = {0, 3}
    MaxDepth = 4
    MaxCalls = 2
INVARIANTS TypeOK OneUser DepthBounded AnswerIsMeaning ErrorSparesTheRest
CHECK_DEADLOCK FALSE
PROPERTIES CallEnds
