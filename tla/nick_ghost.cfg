\* Three servers in a line, the users at its ends: a collision in the middle.
CONSTANTS
    a = a  b = b  c = c  u1 = u1  u2 = u2  u3 = u3
    Server = {a, b, c}
    User = {u1, u2}
    Service = {}
    Home <- EndHomes
    Route <- LineRoute
    Nick = {n1}
    NoNick = NoNick
    MaxTS = 1
    MaxMoves = 0
    MaxFaults = 0
SPECIFICATION Spec
CHECK_DEADLOCK FALSE
INVARIANT Converged
