\* Every interleaving of a leaving connection and the health probe, stale reads included.
SPECIFICATION Spec
CONSTANTS
    Updates = {u1,u2}
    Conns = {c1}
    Rooms = {r1, r2}
    Sweepers = {}
    Probers = {prober}
    Admins = {}
    NoRoom = NoRoom
    NoEdit = NoEdit
    MaxVersion = 2
    MaxFaults = 2
    MaxCrashes = 0
SYMMETRY Symmetry
VIEW ReachableView
INVARIANTS TypeOK CutoffWithinSnapshot
PROPERTIES FailedEditsTracked
CHECK_DEADLOCK FALSE
