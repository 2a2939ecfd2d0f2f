\* A ban file that cannot be written once.
CONSTANTS
    Kinds = {"klines"}
    Value = {v0, v1, v2}
    Empty = v0
    Absent = Absent
    Cut = Cut
    Bad = Bad
    Down = Down
    Refused = Refused
    N = 2
    Fallible = {"klines"}
    Damages = {}
    MaxChanges = 3
    MaxFails = 2
    MaxCrashes = 3
    MaxDamage = 1
SPECIFICATION Spec
CHECK_DEADLOCK FALSE
PROPERTIES Saved
