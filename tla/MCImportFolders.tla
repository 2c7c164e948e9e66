-------------------------- MODULE MCImportFolders --------------------------
(* Every manifest of F rows is ordered; the runs walk these shapes, which  *)
(* between them have a chain against the order of ids, siblings, and a     *)
(* folder that hangs off a cycle.                                          *)
EXTENDS ImportFolders

Walked == {<<2, 3, 4>>, <<4, 1, 1>>, <<2, 1, 2>>}

MCNext == parent \in Walked /\ Next

MCSpec == Init /\ [][MCNext]_vars /\ Fairness
=============================================================================
