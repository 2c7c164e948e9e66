\* Two compactions of one document in flight together.
SPECIFICATION OverlapSpec
CONSTANTS
    Updates = {u1}
    Conns = {c1}
    Rooms = {r1, r2}
    Sweepers = {}
    Probers = {}
    Admins = {admin}
    NoRoom = NoRoom
    NoEdit = NoEdit
    MaxVersion = 3
    MaxFaults = 0
    MaxCrashes = 0
SYMMETRY Symmetry
INVARIANT SavedDurable
CHECK_DEADLOCK FALSE
