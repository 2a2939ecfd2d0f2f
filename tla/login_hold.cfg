\* The hold of a PASS login, as cmd.c words it.
CONSTANTS
    c1 = c1  c2 = c2  c3 = c3  n1 = n1  n2 = n2  n3 = n3  g1 = g1  p1 = p1  p2 = p2
    Conn = {c1, c2, c3}
    Nick = {n1, n2, n3, g1}
    Password = {p1, p2}
    None = None
    Guest = {g1}
    FirstNick <- Nicks
    Plays <- JustSasl
    Admin = {n2}
    Enforce = TRUE
    Far = {c2}
    SlotMax = 1
    FailMax = 1
    RegisterMax = 1
    MaxQueue = 2
    MaxLost = 1
SPECIFICATION Spec
CHECK_DEADLOCK FALSE
INVARIANTS PassHolds
