---------------------------- MODULE MCImportRuns ----------------------------
(* Worker processes are interchangeable, and SafeSpec states no fairness,  *)
(* so the symmetry is sound.                                               *)
EXTENDS ImportRuns, TLC

Symmetry == Permutations(Workers)

SafeSpec == Init /\ [][Next]_vars
=============================================================================
