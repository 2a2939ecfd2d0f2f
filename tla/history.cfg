\* Rings of two and three entries that grow from one, room for two of three conversations;
\* and two accounts' markers on channels that are renamed onto each other's names.
CONSTANTS
    Chans = {a, b}
    Dm = dm
    u = u  w = w
    FirstAlloc = 1
    HIST_MAX_BUFFERS = 2
    MAX_MARKERS = 2
    CHATHISTORY_MAX = 2
    None = None
    Plays <- Both
    MaxMsgs = 4
    MaxClock = 1
    PAGE = 1
SYMMETRY Symmetry
SPECIFICATION Spec
CHECK_DEADLOCK FALSE
INVARIANTS RingsSound PagingRight
PROPERTIES Refines NothingLost
