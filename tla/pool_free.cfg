\* Two connections with OPER attempts, as many workers as attempts.
CONSTANTS
    c1 = c1
    Conn = {c1, c2}
    Worker = {w1, w2}
    Call = {h1}
    Plays <- OperOnly
    NoJob = NoJob  NoConn = NoConn  NoCall = NoCall
    QueueMax = 2
    RingMax = 2
    CancelRing = 1
    ScryptMax = 1
    MaxHelpers = 1
    BatchMax = 1
SPECIFICATION Spec
INVARIANT FreeForLookups
