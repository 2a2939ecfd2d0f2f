\* Two servers, linked or not; two lines, and one removal, split or change of ident.
CONSTANTS
    None = None
    Idents = {"good", "bad"}
    Plain = "good"
    Servers <- MCServers
    Users <- MCUsers
    Opers <- MCOpers
    Home <- MCHome
    Masks <- MCMasks
    Addr <- MCAddr
    Name <- MCName
    Ident <- MCIdent
    Own <- MCOwn
    Types <- MCTypes
    Comers = {"u"}
    Durations = {0, 1}
    AutoFor = 1
    ReverseNames = {"u"}
    MaxClock = 1
    MaxLines = 2
    MaxEvents = 1
SPECIFICATION Spec
CHECK_DEADLOCK FALSE
INVARIANTS LinesBite WideAgree
PROPERTIES NeverShortened
