\* One channel, two users and one loss of the link, in all workloads; in two a step's lines do not all fit.
CONSTANTS
    alice = alice  bob = bob  acc = acc  t1 = t1  t2 = t2  p1 = p1  p2 = p2  n1 = n1  n2 = n2  n3 = n3
    User = {alice, bob}
    Account = {acc}
    None = None
    FounderMode = "q"
    Nick = {n1, n2, n3}
    Topic = {t1, t2}
    Password = {p1, p2}
    Level = {"v", "o"}
    FirstNick <- Nicks
    Plays <- Workloads
    MaxLost = 1
    MaxClock = 2
SPECIFICATION Spec
CHECK_DEADLOCK FALSE
INVARIANTS TablesSound VettedRanks RecordHolds
PROPERTIES ClaimSparesFounder
