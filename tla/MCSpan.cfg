SPECIFICATION Spec
CONSTANTS
    g1 = g1
    g2 = g2
    d1 = d1
    d2 = d2
    Goroutine = {g1, g2}
    Decoder = {d1, d2}
    Request <- MCRequest
    BlockSize = 8
    SmallLimit = 8
    Gap <- MCGap
    NoDecoder = NoDecoder
    NoRequest = NoRequest
    MaxMallocs = 3
SYMMETRY MCSymmetry
INVARIANTS TypeOK Exclusive Disjoint InBlock
PROPERTIES ImplementsAllocator
CHECK_DEADLOCK FALSE
