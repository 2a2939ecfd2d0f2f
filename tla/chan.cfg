\* Copies that grow apart and merge on two servers, on three, and with everything crossing everything.
CONSTANTS
    a = a  b = b  c = c  ua = ua  ub = ub  uc = uc  ud = ud
    Server = {a, b, c}
    User = {ua, ub, uc, ud}
    Home <- Homes
    Route <- LineRoute
    DefaultModes = {}
    Key = {k1}
    NoKey = NoKey
    Topic = {0, 1, 2}
    Plays <- AllPlays
    MaxTS = 2
SPECIFICATION Spec
CHECK_DEADLOCK FALSE
INVARIANTS CopiesSound MembersAgree CopiesAgree
PROPERTIES StrandedByMode
