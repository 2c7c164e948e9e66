----------------------------- MODULE MCJobQueue -----------------------------
(* Two worker processes: a consumer and a reaper slot on the first, one or *)
(* two reaper slots on the second.                                         *)
EXTENDS JobQueue

CONSTANTS c1, s1, s2, s3, w1, w2

MCHost == [t \in Tasks |-> IF t \in {c1, s1} THEN w1 ELSE w2]
=============================================================================
