\* Four connection attempts from two addresses and a gateway, with room for two.
CONSTANTS
    None = None
    a = a
    b = b
    gw = gw
    Addr <- MCAddr
    Gateways = {gw}
    Classes = {"home"}
    ClassOf <- MCClassOf
    Caps <- MCCaps
    max_connections = 2
    max_connections_per_ip = 2
    ClassPerIp <- MCClassPerIp
    connect_flood_max = 2
    connect_flood_window = 0
    FloodSlots = 2
    Probes = 1
    scan_max_concurrent = 1
    scan_timeout = 0
    RECENT_GRACE = 1
    scan_negcache = 1
    Slot <- MCSlot
    MaxClock = 1
    MaxAttempts = 4
    MaxRare = 1
SPECIFICATION Spec
SYMMETRY Symmetry
CHECK_DEADLOCK FALSE
INVARIANTS Counted Capped
