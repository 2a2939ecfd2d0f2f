\* All four files: failing writes, crashes anywhere, and a damaged file.
CONSTANTS
    Kinds = {"accounts", "channels", "klines", "history"}
    Value = {v0, v1, v2}
    Empty = v0
    Absent = Absent
    Cut = Cut
    Bad = Bad
    Down = Down
    Refused = Refused
    N = 2
    Fallible = {"accounts", "channels", "history"}
    Damages = {Cut, Bad}
    MaxChanges = 3
    MaxFails = 2
    MaxCrashes = 3
    MaxDamage = 2
SPECIFICATION Spec
CHECK_DEADLOCK FALSE
PROPERTIES Refines Saved
