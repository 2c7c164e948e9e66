----------------------------- MODULE JobLedger ------------------------------
(***************************************************************************)
(* What the job queue promises, without streams, receipts or workers: a    *)
(* job enters once, may spend its retries one at a time, ends with one     *)
(* outcome, and the effect of that outcome is applied at most once.        *)
(* JobStatus and the doc comments of JobQueue's methods in                 *)
(* src/crates/worker/src/lib.rs are what a client and the runbook see.     *)
(***************************************************************************)
EXTENDS Naturals

CONSTANTS Jobs, MAX_RETRIES

VARIABLES
    phase,    \* "none", "queued", or the outcome
    tries,    \* retries the queued job has spent
    settled   \* the outcome whose effect was applied

ledger == <<phase, tries, settled>>

Init ==
    /\ phase = [j \in Jobs |-> "none"]
    /\ tries = [j \in Jobs |-> 0]
    /\ settled = [j \in Jobs |-> "none"]

Enter(j) ==
    /\ phase[j] = "none"
    /\ phase' = [phase EXCEPT ![j] = "queued"]
    /\ UNCHANGED <<tries, settled>>

SpendRetry(j) ==
    /\ phase[j] = "queued"
    /\ tries[j] < MAX_RETRIES
    /\ tries' = [tries EXCEPT ![j] = @ + 1]
    /\ UNCHANGED <<phase, settled>>

End(j, outcome) ==
    /\ phase[j] = "queued"
    /\ outcome = "failed" => tries[j] = MAX_RETRIES
    /\ phase' = [phase EXCEPT ![j] = outcome]
    /\ tries' = [tries EXCEPT ![j] = 0]
    /\ UNCHANGED settled

Apply(j) ==
    /\ phase[j] \in {"succeeded", "failed"}
    /\ settled[j] = "none"
    /\ settled' = [settled EXCEPT ![j] = phase[j]]
    /\ UNCHANGED <<phase, tries>>

Next == \E j \in Jobs :
    \/ Enter(j) \/ SpendRetry(j) \/ Apply(j)
    \/ End(j, "succeeded") \/ End(j, "failed")

Spec == Init /\ [][Next]_ledger
=============================================================================
