\* The flush of edits whose save failed, with storage failing a bounded number of times.
SPECIFICATION LiveSpec
CONSTANTS
    Updates = {u1}
    Conns = {c1}
    Rooms = {r1, r2}
    Sweepers = {sweeper}
    Probers = {prober}
    Admins = {}
    NoRoom = NoRoom
    NoEdit = NoEdit
    MaxVersion = 3
    MaxFaults = 2
    MaxCrashes = 0
PROPERTY FailedEventuallyFlushed
CHECK_DEADLOCK FALSE
