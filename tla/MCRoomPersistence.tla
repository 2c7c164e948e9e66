------------------------- MODULE MCRoomPersistence -------------------------
(* Instances of RoomPersistence for TLC. *)
EXTENDS RoomPersistence, TLC

Symmetry == Permutations(Updates) \cup Permutations(Conns) \cup Permutations(Rooms)

\* A Room no task can reach any more is overwritten before it is used again,
\* so two states that differ only in such a Room are the same state.
ReachableView ==
    <<[vars EXCEPT ![2] = <<registry,
        [r \in Rooms |-> IF Unreachable(r) THEN FreshRoom({}) ELSE room[r]]>>]>>
=============================================================================
