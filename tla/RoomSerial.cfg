\* Every edit, load, compaction and restart, under the Serialized discipline:
\* the constraint leaves the states of SerialSpec, and the first ones beyond.
SPECIFICATION Spec
CONSTRAINT Serialized
CONSTANTS
    Updates = {u1}
    Conns = {c1, c2}
    Rooms = {r1, r2}
    Sweepers = {sweeper}
    Probers = {}
    Admins = {admin}
    NoRoom = NoRoom
    NoEdit = NoEdit
    MaxVersion = 3
    MaxFaults = 1
    MaxCrashes = 1
SYMMETRY Symmetry
VIEW ReachableView
INVARIANT SavedDurable
PROPERTY StoredGrows
CHECK_DEADLOCK FALSE
