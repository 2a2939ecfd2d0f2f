\* Two connections of any kind, of which one leaves and another comes; queues of one line, so
\* that a QUIT can be the line too many.
CONSTANTS
    None = None
    Conns = {1, 2}
    Kinds = {"plain", "tls", "ws"}
    SENDQ_MAX = 1
    Room = 1
    MaxAccepts = 2
    MaxLines = 3
    MaxRare = 1
SPECIFICATION Spec
CHECK_DEADLOCK FALSE
INVARIANTS ListsSound Watched
PROPERTIES PassesServe
