\* A damaged account file.
CONSTANTS
    Kinds = {"accounts"}
    Value = {v0, v1, v2}
    Empty = v0
    Absent = Absent
    Cut = Cut
    Bad = Bad
    Down = Down
    Refused = Refused
    N = 2
    Fallible = {"accounts", "channels", "history"}
    Damages = {Cut, Bad}
    MaxChanges = 3
    MaxFails = 2
    MaxCrashes = 3
    MaxDamage = 1
SPECIFICATION Spec
CHECK_DEADLOCK FALSE
PROPERTIES NeverEmptied
