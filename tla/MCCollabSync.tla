---------------------------- MODULE MCCollabSync ----------------------------
(***************************************************************************)
(* CollabSync from the moment t1, alone in an empty document, makes its    *)
(* first edit, while t2 is still to connect.                               *)
(***************************************************************************)
EXTENDS CollabSync, TLC

CONSTANTS t1, t2, h1, h2

MCInit ==
    /\ typed = [t \in Tabs |-> IF t = t1 THEN 1 ELSE 0]
    /\ view = [t \in Tabs |-> IF t = t1 THEN {<<t1, 1>>} ELSE {}]
    /\ base = [t \in Tabs |-> {}]
    /\ ydoc = [t \in Tabs |-> {}]
    /\ queue = [t \in Tabs |-> <<>>]
    /\ state = [t \in Tabs |-> IF t = t1 THEN "synced" ELSE "off"]
    /\ nth = [t \in Tabs |-> IF t = t1 THEN 1 ELSE 0]
    /\ unsaved = [t \in Tabs |-> FALSE]
    /\ due = [t \in Tabs |-> t = t1]
    /\ show = [t \in Tabs |-> FALSE]
    /\ link = [k \in Conns |-> IF k = <<t1, 1>> THEN "up" ELSE "unused"]
    /\ up = [k \in Conns |-> <<>>]
    /\ down = [k \in Conns |-> <<>>]
    /\ site = [k \in Conns |-> IF k = <<t1, 1>> THEN h1 ELSE Nowhere]
    /\ seat = [k \in Conns |-> k = <<t1, 1>>]
    /\ job = [k \in Conns |-> Idle]
    /\ failed = [k \in Conns |-> FALSE]
    /\ alive = {h1}
    /\ room = [h \in Hosts |-> {}]
    /\ mark = [h \in Hosts |-> FALSE]
    /\ inbox = [h \in Hosts |-> <<>>]
    /\ rows = {}
    /\ snap = {}
    /\ mishaps = 0
    /\ erased = {}
    /\ silent = {}
    /\ pruned = {}

MCSpec == MCInit /\ [][Next]_vars
=============================================================================
