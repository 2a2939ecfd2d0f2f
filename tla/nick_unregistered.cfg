\* Two servers, a user on each: one is still connecting.
CONSTANTS
    a = a  b = b  c = c  u1 = u1  u2 = u2  u3 = u3
    Server = {a, b}
    User = {u1, u2}
    Service = {}
    Home <- TwoHomes
    Route <- PairRoute
    Nick = {n1}
    NoNick = NoNick
    MaxTS = 1
    MaxMoves = 0
    MaxFaults = 0
SPECIFICATION Spec
CHECK_DEADLOCK FALSE
PROPERTY OlderWins
