\* Three servers in a line, a user at one end and a service bot at the other; a link fails once.
CONSTANTS
    a = a  b = b  c = c  u1 = u1  u2 = u2  u3 = u3
    Server = {a, b, c}
    User = {u1, u3}
    Service = {u3}
    Home <- EndsAndBot
    Route <- LineRoute
    Nick = {n1}
    NoNick = NoNick
    MaxTS = 2
    MaxMoves = 1
    MaxFaults = 1
SPECIFICATION Spec
CHECK_DEADLOCK FALSE
INVARIANTS Anchored LiveKnown
