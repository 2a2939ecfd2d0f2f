\* Lookups, a gateway and OPER attempts of one connection, two workers, one scrypt slot, one helper allowed.
CONSTANTS
    c1 = c1
    Conn = {c1}
    Worker = {w1, w2}
    Call = {h1, h2}
    Plays <- AllPlays
    NoJob = NoJob  NoConn = NoConn  NoCall = NoCall
    QueueMax = 1
    RingMax = 2
    CancelRing = 1
    ScryptMax = 1
    MaxHelpers = 1
    BatchMax = 1
SPECIFICATION FairSpec
\* The daemon stops for good after shutdown; that it gets there is StopReturns.
CHECK_DEADLOCK FALSE
INVARIANTS PoolSound NoLostWakeup AuthCurrent
PROPERTIES IdentityFinal NobodyStuck
