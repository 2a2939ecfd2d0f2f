\* Two servers that link, one user on each, two nicks, with fairness.
CONSTANTS
    a = a  b = b  c = c  u1 = u1  u2 = u2  u3 = u3
    Server = {a, b}
    User = {u1, u2}
    Service = {}
    Home <- TwoHomes
    Route <- PairRoute
    Nick = {n1, n2}
    NoNick = NoNick
    MaxTS = 2
    MaxMoves = 2
    MaxFaults = 0
SPECIFICATION FairSpec
CHECK_DEADLOCK FALSE
INVARIANTS TypeOK NickUnique OpenHoldsNick Converged
PROPERTY LeavesEverywhere
