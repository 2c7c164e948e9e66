--------------------------- MODULE MCContentPass ---------------------------
(* Manifests with at most one chat or forbidden thread: either only resets *)
(* the streak, as a thread that can be imported does.                      *)
EXTENDS ContentPass

OneOther == Cardinality({t \in Threads : nature[t] \in {"chat", "forbidden"}}) <= 1

MCInit == Init /\ OneOther
MCSpec == MCInit /\ [][Next]_vars
=============================================================================
