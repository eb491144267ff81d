SPECIFICATION Spec
CONSTANTS
    None = None
    Half32 = 8
    StructDesc <- MCStructDesc
    Goroutine = {g1, g2}
    Message <- MCMessage
    Skip <- MCSkip
    Bitset = {b1, b2, b3}
    Unknown = {u1, u2, u3}
    Tmp = {t1, t2}
    Dirty = {0, 3}
    MaxDepth = 6
    MaxCalls = 1
SYMMETRY MCSymmetry
INVARIANTS OneUser BitsTell AnswerIsMeaning
CHECK_DEADLOCK FALSE
