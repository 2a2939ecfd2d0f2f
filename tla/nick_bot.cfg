\* Two servers, a user and a service bot, with fairness.
CONSTANTS
    a = a  b = b  c = c  u1 = u1  u2 = u2  u3 = u3
    Server = {a, b}
    User = {u1, u3}
    Service = {u3}
    Home <- BotHomes
    Route <- PairRoute
    Nick = {n1}
    NoNick = NoNick
    MaxTS = 2
    MaxMoves = 0
    MaxFaults = 0
SPECIFICATION FairSpec
CHECK_DEADLOCK FALSE
PROPERTY LeavesEverywhere
