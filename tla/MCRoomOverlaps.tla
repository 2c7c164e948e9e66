--------------------------- MODULE MCRoomOverlaps ---------------------------
(***************************************************************************)
(* RoomPersistence with one part of Serialized dropped: compactions of the *)
(* document that overlap, as the code allows.                              *)
(***************************************************************************)
EXTENDS RoomPersistence, TLC

Symmetry == Permutations(Updates) \cup Permutations(Conns) \cup Permutations(Rooms)

\* Two compactions of the document in flight together.
OverlapSpec == Init /\ [][Next /\ (LoadsAlone /\ JoinsHold /\ FreshReads)']_vars
=============================================================================
