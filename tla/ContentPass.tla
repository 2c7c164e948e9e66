---------------------------- MODULE ContentPass ----------------------------
(***************************************************************************)
(* The content pass of a Quip import: one run of the job walks the sorted  *)
(* manifest, imports or decides each thread, charges the threads that fail *)
(* and stops early when too many fail for the first time in a row.  From   *)
(*   src/crates/api/src/worker_mode.rs       run_content_pass              *)
(*   src/crates/storage/src/repo/import_repo.rs   the THREAD# row's writes *)
(*                                                                         *)
(* A thread is its position in the manifest.  What Quip answers for it is  *)
(* fixed, except during an outage, when every fetch fails.  One runner     *)
(* walks at a time; runners that overlap are in ImportRuns.                *)
(***************************************************************************)
EXTENDS Integers, FiniteSets

CONSTANTS
    N,                   \* threads of the manifest
    MAX_THREAD_ATTEMPTS,             \* worker_mode.rs: 3
    MAX_CONSECUTIVE_THREAD_FAILURES, \* worker_mode.rs: 5
    MAX_RETRIES,                     \* worker_mode.rs: 3
    MaxFaults,           \* bound: storage failures, crashes, dead tokens
    MaxOutages           \* bound: times Quip goes down

Threads == 1..N
Natures == {"good", "bad", "forbidden", "chat"}

ASSUME PassAssumption ==
    /\ N \in Nat
    /\ MAX_THREAD_ATTEMPTS \in Nat \ {0}
    /\ MAX_CONSECUTIVE_THREAD_FAILURES \in Nat \ {0}
    /\ MAX_RETRIES \in Nat
    /\ MaxFaults \in Nat /\ MaxOutages \in Nat

VARIABLES
    nature,   \* what Quip holds under each thread
    outage,   \* Quip is down
    state,    \* the disposition on each THREAD# row
    attempts, \* the failures charged to it
    job,      \* where the job stands with the queue
    attempt,  \* the job's attempt, from its envelope
    at,       \* the thread the running pass looks at
    streak,   \* consecutive_failures
    owing,    \* retry_after_pass is set
    passes,   \* history: passes begun
    calm,     \* history: no fault and no outage so far
    outages, faults

rows == <<state, attempts>>
walk == <<at, streak, owing>>
queue == <<job, attempt>>
past == <<passes, calm>>
world == <<nature, outage, outages, faults>>
vars == <<rows, walk, queue, past, world>>

Init ==
    /\ nature \in [Threads -> Natures]
    /\ outage = FALSE
    /\ state = [t \in Threads |-> "Pending"]
    /\ attempts = [t \in Threads |-> 0]
    /\ job = "queued" /\ attempt = 0
    /\ at = 1 /\ streak = 0 /\ owing = FALSE
    /\ passes = 0 /\ calm = TRUE
    /\ outages = 0 /\ faults = 0

-----------------------------------------------------------------------------
(* Quip and the job's place in the queue. *)

QuipFails ==
    /\ ~outage /\ outages < MaxOutages
    /\ outage' = TRUE /\ outages' = outages + 1 /\ calm' = FALSE
    /\ UNCHANGED <<rows, walk, queue, passes, nature, faults>>

QuipRecovers ==
    /\ outage
    /\ outage' = FALSE
    /\ UNCHANGED <<rows, walk, queue, past, nature, outages, faults>>

\* A delivery runs: the counters are locals of the pass.
Begin ==
    /\ job = "queued"
    /\ job' = "running"
    /\ at' = 1 /\ streak' = 0 /\ owing' = FALSE
    /\ passes' = passes + 1
    /\ UNCHANGED <<rows, attempt, calm, world>>

\* The handler returned Err: the queue runs the job again, or gives it up.
Errs ==
    IF attempt < MAX_RETRIES
    THEN job' = "queued" /\ attempt' = attempt + 1
    ELSE job' = "dead" /\ UNCHANGED attempt

Fault == faults < MaxFaults /\ faults' = faults + 1 /\ calm' = FALSE

\* The worker stops; the reaper delivers the same attempt again.
Crash ==
    /\ job = "running" /\ Fault
    /\ job' = "queued"
    /\ UNCHANGED <<rows, attempt, walk, passes, nature, outage, outages>>

-----------------------------------------------------------------------------
(* One thread of the walk. *)

Looking(t) == job = "running" /\ at = t
Fetches(t) == Looking(t) /\ state[t] = "Pending" /\ nature[t] # "chat"
Fails(t) == Fetches(t) /\ (outage \/ nature[t] = "bad")
Answered(t) == Fetches(t) /\ ~outage
Onward == at' = at + 1 /\ UNCHANGED queue

\* Every Ok(()) of import_one_thread and every skip resets the streak.
Decide(t, s) ==
    /\ state' = [state EXCEPT ![t] = s]
    /\ streak' = 0
    /\ Onward
    /\ UNCHANGED <<attempts, owing, past, world>>

Import(t) == Answered(t) /\ nature[t] = "good" /\ Decide(t, "ContentDone")

SkipForbidden(t) ==
    Answered(t) /\ nature[t] = "forbidden" /\ Decide(t, "Skipped")

SkipChat(t) ==
    /\ Looking(t) /\ state[t] = "Pending" /\ nature[t] = "chat"
    /\ Decide(t, "Skipped")

PassOver(t) ==
    /\ Looking(t) /\ state[t] # "Pending"
    /\ streak' = 0
    /\ Onward
    /\ UNCHANGED <<rows, owing, past, world>>

Charged(t) == attempts[t] + 1
Charge(t) == Fails(t) /\ attempts' = [attempts EXCEPT ![t] = Charged(t)]

\* The last failure it may have: the thread is given up, not the import.
GivesUpEarly(t) == Charged(t) + 1 >= MAX_THREAD_ATTEMPTS
GivesUp(t) == Charged(t) >= MAX_THREAD_ATTEMPTS

GiveUp(t) ==
    /\ Charge(t) /\ GivesUp(t)
    /\ state' = [state EXCEPT ![t] = "Failed"]
    /\ streak' = 0
    /\ Onward
    /\ UNCHANGED <<owing, past, world>>

\* Only a first failure counts towards an outage; a later one leaves the
\* streak as it is.
AnyFailure(t) == streak + 1
Streak(t) == IF Charged(t) = 1 THEN streak + 1 ELSE streak

TripsLate(t) ==
    Charged(t) = 1 /\ Streak(t) > MAX_CONSECUTIVE_THREAD_FAILURES
Trips(t) ==
    Charged(t) = 1 /\ Streak(t) >= MAX_CONSECUTIVE_THREAD_FAILURES

FailLater(t) ==
    /\ Charge(t) /\ ~GivesUp(t) /\ ~Trips(t)
    /\ streak' = Streak(t) /\ owing' = TRUE
    /\ Onward
    /\ UNCHANGED <<state, past, world>>

Trip(t) ==
    /\ Charge(t) /\ ~GivesUp(t) /\ Trips(t)
    /\ streak' = Streak(t) /\ owing' = TRUE
    /\ Errs
    /\ UNCHANGED <<state, at, past, world>>

\* Storage, S3 or the rate limit failed, before or after the charge landed.
RunFailure(t) ==
    /\ Looking(t) /\ Fault
    /\ Charge(t) \/ UNCHANGED attempts
    /\ Errs
    /\ UNCHANGED <<state, walk, passes, nature, outage, outages>>

\* 401: the pass ends, and the job with it.
TokenRejected(t) ==
    /\ Fetches(t) /\ Fault
    /\ job' = "rejected"
    /\ UNCHANGED <<rows, attempt, walk, passes, nature, outage, outages>>

\* The walk reached the end: a thread that still owes a failure fails the job.
FinishRegardless ==
    /\ job = "running" /\ at > N
    /\ job' = "succeeded"
    /\ UNCHANGED <<attempt, rows, walk, past, world>>

Finish ==
    /\ job = "running" /\ at > N
    /\ IF owing THEN Errs ELSE job' = "succeeded" /\ UNCHANGED attempt
    /\ UNCHANGED <<rows, walk, past, world>>

Visit(t) ==
    \/ Import(t) \/ SkipForbidden(t) \/ SkipChat(t) \/ PassOver(t)
    \/ GiveUp(t) \/ FailLater(t) \/ Trip(t)

Hindrance(t) == RunFailure(t) \/ TokenRejected(t)

Next ==
    \/ QuipFails \/ QuipRecovers \/ Begin \/ Crash \/ Finish
    \/ \E t \in Threads : Visit(t) \/ Hindrance(t)

Spec == Init /\ [][Next]_vars

-----------------------------------------------------------------------------
(* Properties. *)

FlagsOK == {outage, owing, calm} \subseteq BOOLEAN

TypeOK ==
    /\ FlagsOK
    /\ nature \in [Threads -> Natures]
    /\ state \in [Threads -> {"Pending", "ContentDone", "Skipped", "Failed"}]
    /\ attempts \in [Threads -> Nat]
    /\ job \in {"queued", "running", "succeeded", "rejected", "dead"}
    /\ attempt \in 0..MAX_RETRIES
    /\ at \in 1..(N + 1)
    /\ streak \in Nat
    /\ passes \in Nat
    /\ outages \in 0..MaxOutages /\ faults \in 0..MaxFaults

Bad == {t \in Threads : nature[t] = "bad"}
Failed == {t \in Threads : state[t] = "Failed"}
Undecided == {t \in Threads : state[t] = "Pending"}

\* The passes in which a thread may meet its first failure and still be given
\* up before the job's runs are spent.
SparePasses == MAX_RETRIES + 2 - MAX_THREAD_ATTEMPTS

\* The bad threads that end right before t, back to the last other one.
ClusterBefore(t) ==
    {u \in 1..(t - 1) : \A v \in u..(t - 1) : v \in Bad}

\* The threads at which the breaker trips: each completes a block of bad
\* threads of the threshold's size within its cluster.
Tripping ==
    {t \in Bad : (Cardinality(ClusterBefore(t)) + 1)
                     % MAX_CONSECUTIVE_THREAD_FAILURES = 0}

Behind(t) == Cardinality({u \in Tripping : u < t})

(* The walk gets past one tripping thread per pass, wherever in the        *)
(* manifest it lies, so without outages and faults the import is lost      *)
(* exactly if a bad thread lies behind as many of them as there are passes *)
(* to spare; otherwise it succeeds with every thread in its own place.     *)
DeadLetterIffTooManyBlocks ==
    calm /\ job \in {"dead", "succeeded"}
        => (job = "dead" <=> \E t \in Bad : Behind(t) >= SparePasses)

(* An import that reports success has decided every thread of its          *)
(* manifest, through crashes, failed writes, outages and repeated passes.  *)
SucceededDecided == job = "succeeded" => Undecided = {}

(* An outage does not eat its way into the manifest.  Between two threads  *)
(* that were imported or skipped, or behind the last one, each pass        *)
(* charges a first failure to at most the threshold's number of threads,   *)
(* whichever outages come and go and wherever the walk has got to.  So a   *)
(* thread that is charged, or given up without cause, is at most that many *)
(* times the passes behind the thread settled last before it.              *)
Settled == {0} \cup {t \in Threads : state[t] \in {"ContentDone", "Skipped"}}

Reached(t, n) ==
    \E d \in Settled : d < t /\ t - d <= n * MAX_CONSECUTIVE_THREAD_FAILURES

OutageRadius ==
    /\ \A t \in Threads : attempts[t] > 0 => Reached(t, passes)
    /\ \A t \in Failed : Reached(t, passes - MAX_THREAD_ATTEMPTS + 1)

(* A thread Quip could have given is lost for good only if Quip was down   *)
(* in several passes, never by one outage seen in one pass, and a thread   *)
(* is charged at most once per pass.                                       *)
GivenUpLate ==
    /\ \A t \in Failed : attempts[t] >= MAX_THREAD_ATTEMPTS
    /\ \A t \in Threads : attempts[t] <= passes
    /\ calm => Failed \subseteq Bad

=============================================================================
