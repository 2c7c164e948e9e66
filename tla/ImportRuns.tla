----------------------------- MODULE ImportRuns -----------------------------
(***************************************************************************)
(* One Quip import, started several times: each start publishes a run, the *)
(* queue delivers it, and worker processes take it under a lease, turn its *)
(* threads into documents and settle the import's status.  From            *)
(*   src/crates/api/src/routes/imports.rs          start                   *)
(*   src/crates/api/src/worker_mode.rs             the run's handler       *)
(*   src/crates/storage/src/repo/import_repo.rs    META and THREAD# rows   *)
(*   src/crates/storage/src/repo/doc_repo.rs       the documents           *)
(*                                                                         *)
(* A worker may pause for as long as it likes (a container stopped by its  *)
(* host), or its heartbeats fail while it runs on: its lease and its       *)
(* receipt age out, another worker takes over, and the first goes on with  *)
(* what it was doing.                                                      *)
(***************************************************************************)
EXTENDS Integers, FiniteSets

CONSTANTS
    Workers,
    Nobody,              \* no holder
    Gone,                \* the instance id of a handler that is no more
    R,                   \* bound: runs started; a run is its sequence number
    N,                   \* threads of the manifest, in the order of a pass
    MAX_THREAD_ATTEMPTS, \* worker_mode.rs: 3
    MAX_RETRIES,         \* worker_mode.rs: 3
    MaxMishaps,          \* bound: crashes, pauses, failed heartbeats, outages
    UserActs,            \* whether the user opens and edits documents meanwhile
    Mixed                \* bound: FALSE, a behaviour has at most one of a
                         \* second start, a second mishap and acts of the user

Runs == 1..R
Threads == 1..N
None == 0
\* The id a worker mints for a thread: it mints one only when the row has
\* none, and the first one reserved stays.
DocIds == Threads \X Workers
NoDoc == <<None, Nobody>>
Nothing == [t \in Threads |-> "absent"]

ASSUME ImportAssumption ==
    /\ R \in Nat \ {0} /\ N \in Nat
    /\ MAX_THREAD_ATTEMPTS \in Nat \ {0}
    /\ MAX_RETRIES \in Nat /\ MaxMishaps \in Nat
    /\ UserActs \in BOOLEAN /\ Mixed \in BOOLEAN
    /\ {Nobody, Gone} \cap Workers = {} /\ Nobody # Gone

VARIABLES
    published, \* how far the start of each run has come
    active,    \* META.active_run_sequence, None before the first
    status,    \* META.status
    statusBy,  \* history: the run that wrote it
    applied,   \* META.applied_job_completions
    lease,     \* META.runner_instance and whether its heartbeat is recent
    delivery,  \* the queue's entry for each run
    state, attempts, reserved, \* the THREAD# rows
    row, object, linked,       \* documents: DynamoDB row, S3 object, folder
    version, edited,           \* snapshot_version, pending UPDATE# rows
    open, stale,               \* documents with a room on the object that is
                               \* there, with one on an object since replaced
    staged,    \* runs with raw HTML under their staging prefix
    unswept,   \* history: runs whose sweep did not happen or failed
    pc, run, at, seen, doc, owing, verdict, \* each worker's handler
    paused,    \* workers stopped by their host
    lapsed,    \* history: their lease aged out and was not renewed since
    late,      \* history: runs driven on without the receipt
    exposed,   \* history: open while an import write of it was decided on
    disturbed, \* history: live edits of it lost the object they rest on
    mishaps

meta == <<active, status, statusBy, applied, unswept>>
threads == <<state, attempts, reserved>>
live == <<edited, open, stale, exposed, disturbed>>
docs == <<row, object, linked, version, live>>
local == <<run, at, seen, doc, owing, verdict>>
fates == <<paused, lapsed, mishaps>>
vars == <<published, meta, lease, delivery, threads, docs, staged,
          pc, local, fates, late>>

Init ==
    /\ published = [r \in Runs |-> "no"]
    /\ active = None /\ status = "Connected" /\ statusBy = None
    /\ applied = {} /\ unswept = {}
    /\ lease = [by |-> Nobody, fresh |-> FALSE]
    /\ delivery = [r \in Runs |-> [at |-> "none", by |-> Nobody, attempt |-> 0,
                                   verdict |-> "none"]]
    /\ state = [t \in Threads |-> "absent"]
    /\ attempts = [t \in Threads |-> 0]
    /\ reserved = [t \in Threads |-> NoDoc]
    /\ row = {} /\ object = {} /\ linked = {}
    /\ version = [d \in DocIds |-> 1]
    /\ edited = {} /\ open = {} /\ stale = {} /\ exposed = {} /\ disturbed = {}
    /\ staged = {}
    /\ pc = [w \in Workers |-> "idle"]
    /\ run = [w \in Workers |-> None]
    /\ at = [w \in Workers |-> 1]
    /\ seen = [w \in Workers |-> Nothing]
    /\ doc = [w \in Workers |-> NoDoc]
    /\ owing = [w \in Workers |-> FALSE]
    /\ verdict = [w \in Workers |-> "none"]
    /\ paused = {} /\ lapsed = {} /\ late = {}
    /\ mishaps = 0

\* The documents some API instance keeps in a room.
Rooms == open \union stale

\* The bounds on what happens together.
OneStart == \A r \in Runs \ {1} : published[r] = "no"
Untouched ==
    /\ edited \union Rooms \union exposed = {}
    /\ \A d \in DocIds : version[d] = 1
MayStart(r) == r = 1 \/ Mixed \/ (Untouched /\ mishaps <= 1)
UserMayAct == UserActs /\ (Mixed \/ (OneStart /\ mishaps <= 1))
Mishap ==
    /\ mishaps < MaxMishaps
    /\ Mixed \/ mishaps = 0 \/ (OneStart /\ Untouched)
    /\ mishaps' = mishaps + 1

(***************************************************************************)
(* POST /imports/quip/{id}/start.  Two starts may overlap, so the runs may *)
(* be published in another order than their sequence numbers.              *)
(***************************************************************************)
\* reserve_run_sequence is an atomic ADD.
Reserve(r) ==
    /\ published[r] = "no" /\ MayStart(r)
    /\ \A q \in 1..(r - 1) : published[q] # "no"
    /\ published' = [published EXCEPT ![r] = "reserved"]
    /\ UNCHANGED <<meta, lease, delivery, threads, docs, staged, pc, local,
                   fates, late>>

\* enqueue; the request may end here and never activate what it published.
Enqueue(r) ==
    /\ published[r] = "reserved"
    /\ published' = [published EXCEPT ![r] = "published"]
    /\ delivery' = [delivery EXCEPT ![r].at = "ready"]
    /\ UNCHANGED <<meta, lease, threads, docs, staged, pc, local, fates, late>>

\* activate_run: the condition active_run_sequence < :sequence.
Activated(r) == IF active < r THEN r ELSE active

ActivateByStart(r) ==
    /\ published[r] = "published"
    /\ published' = [published EXCEPT ![r] = "activated"]
    /\ active' = Activated(r)
    /\ UNCHANGED <<status, statusBy, applied, unswept, lease, delivery,
                   threads, docs, staged, pc, local, fates, late>>

(***************************************************************************)
(* The handler, up to the walk of the threads.                             *)
(***************************************************************************)
Awake(w, step) == pc[w] = step /\ w \notin paused
Go(w, step) == pc' = [pc EXCEPT ![w] = step]
Answer(w, v) == verdict' = [verdict EXCEPT ![w] = v]

\* The pass's locals end with it, and the handler's with the delivery.
EndPass(w) ==
    /\ at' = [at EXCEPT ![w] = 1] /\ seen' = [seen EXCEPT ![w] = Nothing]
    /\ doc' = [doc EXCEPT ![w] = NoDoc] /\ owing' = [owing EXCEPT ![w] = FALSE]
ToIdle(w) ==
    /\ Go(w, "idle") /\ EndPass(w) /\ Answer(w, "none")
    /\ run' = [run EXCEPT ![w] = None] /\ lapsed' = lapsed \ {w}

\* The entry of a run, as it changes hands.
Passed(r, to, by) ==
    [delivery EXCEPT ![r] = [at |-> to, by |-> by, attempt |-> @.attempt,
                             verdict |-> @.verdict]]

\* A worker reads the entry, or its reaper claims one left pending, and it
\* activates the run the entry carries.
Take(w, r) ==
    /\ Awake(w, "idle")
    /\ delivery[r].at \in {"ready", "left"}
    /\ delivery' = Passed(r, "held", w)
    /\ run' = [run EXCEPT ![w] = r]
    /\ active' = Activated(r)
    /\ Go(w, "activated")
    /\ UNCHANGED <<published, status, statusBy, applied, unswept, lease,
                   threads, docs, staged, at, seen, doc, owing, verdict, fates, late>>

\* current_run_id: a superseded run is retired without a status.
Compare(w) ==
    /\ Awake(w, "activated")
    /\ Go(w, IF active = run[w] THEN "compared" ELSE "ending")
    /\ UNCHANGED <<published, meta, lease, delivery, threads, docs, staged,
                   local, fates, late>>

\* A fault: a dead runner keeps its claim.
ClaimedForEver(w, r) == active = r /\ lease.by \in {Nobody, w}

\* claim_runner_for_run's condition.
Claimable(w, r) ==
    /\ active = r
    /\ lease.by \in {Nobody, w} \/ ~lease.fresh

\* The worker still holds the receipt it was delivered.
HoldsReceipt(w, r) == delivery[r].at = "held" /\ delivery[r].by = w
Belated(w) == IF HoldsReceipt(w, run[w]) THEN late ELSE late \union {run[w]}

Claim(w) ==
    /\ Awake(w, "compared")
    /\ Claimable(w, run[w])
    /\ lease' = [by |-> w, fresh |-> TRUE]
    /\ late' = Belated(w)
    /\ Go(w, "claimed")
    /\ UNCHANGED <<published, meta, delivery, threads, docs, staged, local,
                   fates>>

\* HeldByLiveRunner: the entry stays pending for a later delivery.
StandBack(w) ==
    /\ Awake(w, "compared")
    /\ ~Claimable(w, run[w])
    /\ delivery' = IF HoldsReceipt(w, run[w])
                   THEN Passed(run[w], "left", Nobody)
                   ELSE delivery
    /\ ToIdle(w)
    /\ UNCHANGED <<published, meta, lease, threads, docs, staged, paused, mishaps, late>>

\* A fault: Running is published without asking for the lease.
PublishAnyway(w, r) == active = r

\* get_for_run, the token, then set_running_for_run under its condition.
MayPublish(w, r) == active = r /\ lease.by = w

SetRunning(w) ==
    /\ Awake(w, "claimed")
    /\ MayPublish(w, run[w])
    /\ status' = "Running" /\ statusBy' = run[w]
    /\ Go(w, "running")
    /\ UNCHANGED <<published, active, applied, unswept, lease, delivery, threads,
                   docs, staged, local, fates, late>>

Overtaken(w) ==
    /\ Awake(w, "claimed")
    /\ ~MayPublish(w, run[w])
    /\ Go(w, "leaving")
    /\ UNCHANGED <<published, meta, lease, delivery, threads, docs, staged,
                   local, fates, late>>

\* What ends a run before its walk does: no token or a 401, a folder that
\* answers 403, a failure of Quip or of storage.
Interrupt(w) ==
    /\ \/ Awake(w, "claimed") /\ \E v \in {"TokenRejected", "error"} : Answer(w, v)
       \/ /\ Awake(w, "running")
          /\ \E v \in {"TokenRejected", "Failed", "error"} : Answer(w, v)
       \/ Awake(w, "walking") /\ \E v \in {"TokenRejected", "error"} : Answer(w, v)
       \/ /\ \E s \in {"row", "object", "check", "reassert", "link",
                       "checkpoint"} : Awake(w, s)
          /\ Answer(w, "error")
    /\ EndPass(w)
    /\ Go(w, "leaving")
    /\ UNCHANGED <<published, meta, lease, delivery, threads, docs, staged,
                   run, fates, late>>

\* put_thread inserts each thread that has no row; the pass lists the rows.
Inserted == [t \in Threads |-> IF state[t] = "absent" THEN "Pending"
                               ELSE state[t]]
Inventory(w) ==
    /\ Awake(w, "running")
    /\ state' = Inserted
    /\ seen' = [seen EXCEPT ![w] = Inserted]
    /\ at' = [at EXCEPT ![w] = 1]
    /\ owing' = [owing EXCEPT ![w] = FALSE]
    /\ Go(w, "walking")
    /\ UNCHANGED <<published, meta, lease, delivery, attempts, reserved,
                   docs, staged, run, doc, verdict, fates, late>>

(***************************************************************************)
(* One thread after another: import_one_thread and the charges of the      *)
(* pass.  The breaker and the budgets of a single runner are in            *)
(* ContentPass; here the rows may move between the listing and the visit.  *)
(***************************************************************************)
Visiting(w, t) == Awake(w, "walking") /\ at[w] = t
Onward(w) == at' = [at EXCEPT ![w] = @ + 1]

PassOver(w, t) ==
    /\ Visiting(w, t)
    /\ seen[w][t] # "Pending"
    /\ Onward(w)
    /\ UNCHANGED <<published, meta, lease, delivery, threads, docs, staged,
                   pc, run, seen, doc, owing, verdict, fates, late>>

\* set_thread_skipped: a chat, or a thread Quip answers 403 for.
Skip(w, t) ==
    /\ Visiting(w, t)
    /\ seen[w][t] = "Pending"
    /\ state' = [state EXCEPT ![t] = "Skipped"]
    /\ Onward(w)
    /\ UNCHANGED <<published, meta, lease, delivery, attempts, reserved,
                   docs, staged, pc, run, seen, doc, owing, verdict, fates,
                   late>>

\* bump_thread_attempts, and set_thread_failed at the limit.
Charge(w, t) ==
    /\ Visiting(w, t)
    /\ seen[w][t] = "Pending"
    /\ attempts' = [attempts EXCEPT ![t] = @ + 1]
    /\ IF attempts[t] + 1 >= MAX_THREAD_ATTEMPTS
       THEN state' = [state EXCEPT ![t] = "Failed"] /\ UNCHANGED owing
       ELSE owing' = [owing EXCEPT ![w] = TRUE] /\ UNCHANGED state
    /\ Onward(w)
    /\ UNCHANGED <<published, meta, lease, delivery, reserved, docs, staged,
                   pc, run, seen, doc, verdict, fates, late>>

\* A fault: the later reservation wins.
Reassigned(t, candidate) == candidate

\* reserve_thread_doc_id: the loser reads the winner's id back, and a listed
\* id is the one the row still has.
Settled(t, candidate) == IF reserved[t] = NoDoc THEN candidate ELSE reserved[t]

\* The fetched HTML is staged, then the thread's document id settled.
Prepare(w, t) ==
    /\ Visiting(w, t)
    /\ seen[w][t] = "Pending"
    /\ staged' = staged \union {run[w]}
    /\ late' = Belated(w)
    /\ LET d == Settled(t, <<t, w>>) IN
        /\ reserved' = [reserved EXCEPT ![t] = d]
        /\ doc' = [doc EXCEPT ![w] = d]
    /\ Go(w, "row")
    /\ UNCHANGED <<published, meta, lease, delivery, state, attempts, docs,
                   run, at, seen, owing, verdict, fates>>

\* A fault: an existing document is adopted with whatever object it has.
CreateOrAdopt(w) ==
    /\ Awake(w, "row")
    /\ row' = row \union {doc[w]}
    /\ Go(w, IF doc[w] \in row THEN "link" ELSE "object")
    /\ UNCHANGED <<published, meta, lease, delivery, threads, object, linked,
                   version, live, staged, local, fates, late>>

\* DocRepo::create: the METADATA row, on the condition that there is none.  On
\* any error of create, a reply that was lost included, a document that is
\* there under the reserved id is reconciled.
CreateRow(w) ==
    /\ Awake(w, "row")
    /\ row' = row \union {doc[w]}
    /\ \/ doc[w] \notin row /\ Go(w, "object")
       \/ Go(w, "check")
    /\ UNCHANGED <<published, meta, lease, delivery, threads, object, linked,
                   version, live, staged, local, fates, late>>

\* snapshots/1.bin is written.  While it is what the row points at, pending
\* edits lose the object they rest on, and so does every room loaded from it.
Rewrite(d) ==
    LET hit == IF version[d] = 1 THEN {d} ELSE {} IN
    /\ object' = object \union {d}
    /\ disturbed' = disturbed \union (hit \cap edited)
    /\ stale' = stale \union (hit \cap open)
    /\ open' = open \ hit

PutObject(w) ==
    /\ Awake(w, "object")
    /\ Rewrite(doc[w])
    /\ Go(w, "link") \/ Go(w, "check")
    /\ UNCHANGED <<published, meta, lease, delivery, threads, row, linked,
                   version, edited, exposed, staged, local, fates, late>>

PutFails(w) ==
    /\ Awake(w, "object")
    /\ Go(w, "check")
    /\ UNCHANGED <<published, meta, lease, delivery, threads, docs, staged,
                   local, fates, late>>

\* A fault: the pending rows are not looked at.
NeverLeavesAlone(d) == FALSE

\* reassert_imported_snapshot: not over pending UPDATE# rows...
LeavesAlone(d) == d \in edited

CheckUpdates(w) ==
    /\ Awake(w, "check")
    /\ IF LeavesAlone(doc[w])
       THEN Go(w, "link") /\ UNCHANGED exposed
       ELSE Go(w, "reassert") /\ exposed' = exposed \union ({doc[w]} \cap Rooms)
    /\ UNCHANGED <<published, meta, lease, delivery, threads, row, object,
                   linked, version, edited, open, stale, disturbed, staged,
                   local, fates, late>>

\* ... and save_snapshot_conditional moves the pointer from 1 to 1 only.
SetIfExpected(v, expected, new) == IF v = expected THEN new ELSE v

Reassert(w) ==
    /\ Awake(w, "reassert")
    /\ Rewrite(doc[w])
    /\ version' = [version EXCEPT ![doc[w]] = SetIfExpected(@, 1, 1)]
    /\ Go(w, "link")
    /\ UNCHANGED <<published, meta, lease, delivery, threads, row, linked,
                   edited, exposed, staged, local, fates, late>>

\* add_child for the folder and the additional folders.
LinkToFolder(w) ==
    /\ Awake(w, "link")
    /\ linked' = linked \union {doc[w]}
    /\ Go(w, "checkpoint")
    /\ UNCHANGED <<published, meta, lease, delivery, threads, row, object,
                   version, live, staged, local, fates, late>>

\* set_thread_content_done.
Checkpoint(w, t) ==
    /\ Awake(w, "checkpoint") /\ at[w] = t
    /\ state' = [state EXCEPT ![t] = "ContentDone"]
    /\ doc' = [doc EXCEPT ![w] = NoDoc]
    /\ Onward(w)
    /\ Go(w, "walking")
    /\ UNCHANGED <<published, meta, lease, delivery, attempts, reserved,
                   docs, staged, run, seen, owing, verdict, fates, late>>

Finish(w) ==
    /\ Awake(w, "walking") /\ at[w] > N
    /\ Answer(w, IF owing[w] THEN "error" ELSE "Succeeded")
    /\ EndPass(w)
    /\ Go(w, "leaving")
    /\ UNCHANGED <<published, meta, lease, delivery, threads, docs, staged,
                   run, fates, late>>

(***************************************************************************)
(* The end of a delivery.                                                  *)
(***************************************************************************)
NoLease == [by |-> Nobody, fresh |-> FALSE]

\* A fault: the owner check is missing.
ReleasedAnyway(w) == NoLease

\* clear_runner_claim only clears a lease this instance still holds.
Released(w) == IF lease.by = w THEN NoLease ELSE lease

Leave(w) ==
    /\ Awake(w, "leaving")
    /\ lease' = Released(w)
    /\ Go(w, "ending")
    /\ UNCHANGED <<published, meta, delivery, threads, docs, staged, local,
                   fates, late>>

\* The lease as a handler leaves it that clears nothing: the next one of the
\* same process has an instance id of its own.
Orphaned(w) == IF lease.by = w THEN [lease EXCEPT !.by = Gone] ELSE lease

\* Clearing the lease fails, which is only logged.
LeaveUncleared(w) ==
    /\ Awake(w, "leaving")
    /\ Mishap
    /\ lease' = Orphaned(w)
    /\ Go(w, "ending")
    /\ UNCHANGED <<published, meta, delivery, threads, docs, staged, local,
                   paused, lapsed, late>>

Settle(r, v) ==
    delivery' = [delivery EXCEPT ![r] = [at |-> "final", by |-> Nobody,
                                         attempt |-> @.attempt, verdict |-> v]]

Ack(w) ==
    /\ Awake(w, "ending")
    /\ verdict[w] # "error" /\ HoldsReceipt(w, run[w])
    /\ Settle(run[w], verdict[w])
    /\ ToIdle(w)
    /\ UNCHANGED <<published, meta, lease, threads, docs, staged, paused, mishaps, late>>

\* retry_or_dead_letter.
Retry(w) ==
    /\ Awake(w, "ending")
    /\ verdict[w] = "error" /\ HoldsReceipt(w, run[w])
    /\ IF delivery[run[w]].attempt < MAX_RETRIES
       THEN delivery' = [delivery EXCEPT
                ![run[w]] = [at |-> "ready", by |-> Nobody,
                             attempt |-> @.attempt + 1, verdict |-> @.verdict]]
       ELSE Settle(run[w], "Failed")
    /\ ToIdle(w)
    /\ UNCHANGED <<published, meta, lease, threads, docs, staged, paused, mishaps, late>>

\* The probe finds storage unreachable: the entry is left pending.
LeavePending(w) ==
    /\ Awake(w, "ending")
    /\ verdict[w] = "error" /\ HoldsReceipt(w, run[w])
    /\ Mishap
    /\ delivery' = Passed(run[w], "left", Nobody)
    /\ ToIdle(w)
    /\ UNCHANGED <<published, meta, lease, threads, docs, staged, paused, late>>

\* ClaimLost, or AlreadyFinalized by another worker.
LoseReceipt(w) ==
    /\ Awake(w, "ending")
    /\ ~HoldsReceipt(w, run[w])
    /\ ToIdle(w)
    /\ UNCHANGED <<published, meta, lease, delivery, threads, docs, staged,
                   paused, mishaps, late>>

\* apply_job_completion's condition.
Applies(r) == active = r /\ r \notin applied

\* cleanup_quip_staging, where the outcome asks for it.  It comes once, after
\* the status: a failure of it is logged, and a completion whose reply was
\* lost is not seen as applied again.
Sweep(r) ==
    \/ staged' = staged \ {r} /\ UNCHANGED unswept
    \/ r \in staged /\ unswept' = unswept \union {r} /\ UNCHANGED staged

\* reconcile_finalization, from the outbox and as often as it is replayed: the
\* condition makes a replay change nothing.
Apply(r) ==
    /\ delivery[r].at = "final" /\ delivery[r].verdict # "none"
    /\ Applies(r)
    /\ status' = delivery[r].verdict /\ statusBy' = r
    /\ applied' = applied \union {r}
    /\ IF delivery[r].verdict \in {"Succeeded", "Failed"}
       THEN Sweep(r) ELSE UNCHANGED <<staged, unswept>>
    /\ UNCHANGED <<published, active, lease, delivery, threads, docs, pc,
                   local, fates, late>>

(***************************************************************************)
(* Time, hosts and users.                                                  *)
(***************************************************************************)
\* The heartbeat stopped with its handler; CLAIM_STALE_MS pass.
Expire ==
    /\ lease.by # Nobody /\ lease.fresh
    /\ lease.by \in paused \union {Gone}
    /\ lease' = [lease EXCEPT !.fresh = FALSE]
    /\ lapsed' = lapsed \union ({lease.by} \cap Workers)
    /\ UNCHANGED <<published, meta, delivery, threads, docs, staged, pc,
                   local, paused, mishaps, late>>

\* Three ticks of a worker that runs on fail, and their errors are dropped.
MissHeartbeats(w) ==
    /\ lease.by = w /\ lease.fresh /\ w \notin paused
    /\ Mishap
    /\ lease' = [lease EXCEPT !.fresh = FALSE]
    /\ lapsed' = lapsed \union {w}
    /\ UNCHANGED <<published, meta, delivery, threads, docs, staged, pc,
                   local, paused, late>>

\* heartbeat_runner, on the condition that the lease is still this worker's.
Heartbeat(w) ==
    /\ lease.by = w /\ ~lease.fresh /\ w \notin paused
    /\ lease' = [lease EXCEPT !.fresh = TRUE]
    /\ lapsed' = lapsed \ {w}
    /\ UNCHANGED <<published, meta, delivery, threads, docs, staged, pc,
                   local, paused, mishaps, late>>

\* REAPER_MIN_IDLE_MS pass without the receipt's heartbeat.
Reclaim(r) ==
    /\ delivery[r].at = "held" /\ delivery[r].by \in paused
    /\ delivery' = Passed(r, "left", Nobody)
    /\ UNCHANGED <<published, meta, lease, threads, docs, staged, pc, local,
                   fates, late>>

\* The same for a worker that runs on, whose renewals fail.
MissRenewals(r) ==
    /\ delivery[r].at = "held" /\ delivery[r].by \notin paused
    /\ Mishap
    /\ delivery' = Passed(r, "left", Nobody)
    /\ UNCHANGED <<published, meta, lease, threads, docs, staged, pc, local,
                   paused, lapsed, late>>

Pause(w) ==
    /\ pc[w] # "idle" /\ w \notin paused
    /\ Mishap
    /\ paused' = paused \union {w}
    /\ UNCHANGED <<published, meta, lease, delivery, threads, docs, staged,
                   pc, local, lapsed, late>>

Wake(w) ==
    /\ w \in paused
    /\ paused' = paused \ {w}
    /\ UNCHANGED <<published, meta, lease, delivery, threads, docs, staged,
                   pc, local, lapsed, mishaps, late>>

\* The process dies; another starts in its place under a new instance id.
Crash(w) ==
    /\ pc[w] # "idle" /\ w \notin paused
    /\ Mishap
    /\ delivery' = IF HoldsReceipt(w, run[w])
                   THEN Passed(run[w], "left", Nobody)
                   ELSE delivery
    /\ lease' = Orphaned(w)
    /\ ToIdle(w)
    /\ UNCHANGED <<published, meta, threads, docs, staged, paused, late>>

\* Import writes of d that are decided on and not made yet.
UnderWay(d) == \E w \in Workers : pc[w] \in {"object", "reassert"} /\ doc[w] = d

\* A room of d is loaded from the object that is there.
Open(d) ==
    /\ UserMayAct /\ d \in object /\ d \notin open
    /\ open' = open \union {d}
    /\ exposed' = IF UnderWay(d) THEN exposed \union {d} ELSE exposed
    /\ UNCHANGED <<published, meta, lease, delivery, threads, row, object,
                   linked, version, edited, stale, disturbed, staged, pc,
                   local, fates, late>>

\* The last client of a room leaves.
Close(d) ==
    /\ \/ d \in open /\ open' = open \ {d} /\ UNCHANGED stale
       \/ d \in stale /\ stale' = stale \ {d} /\ UNCHANGED open
    /\ UNCHANGED <<published, meta, lease, delivery, threads, row, object,
                   linked, version, edited, exposed, disturbed, staged, pc,
                   local, fates, late>>

\* An edit typed into a room appends an UPDATE# row.  In a room whose object
\* was replaced it rests on client ids the new one does not have.
Edit(d) ==
    /\ UserMayAct
    /\ edited' = edited \union {d}
    /\ \/ d \in open /\ UNCHANGED disturbed
       \/ d \in stale /\ disturbed' = disturbed \union {d}
    /\ UNCHANGED <<published, meta, lease, delivery, threads, row, object,
                   linked, version, open, stale, exposed, staged, pc, local,
                   fates, late>>

\* A compaction or an HTTP save: a new version absorbs the rows.  One that a
\* room on a replaced object writes is what that room rests on from then on.
Save(d) ==
    /\ UserMayAct /\ d \in object /\ version[d] = 1
    /\ version' = [version EXCEPT ![d] = 2]
    /\ edited' = edited \ {d}
    /\ \/ UNCHANGED <<open, stale>>
       \/ /\ d \in stale /\ open' = open \union {d}
          /\ stale' = IF d \in open THEN stale ELSE stale \ {d}
    /\ UNCHANGED <<published, meta, lease, delivery, threads, row, object,
                   linked, exposed, disturbed, staged, pc, local, fates, late>>

Visit(w, t) ==
    PassOver(w, t) \/ Skip(w, t) \/ Charge(w, t) \/ Prepare(w, t) \/ Checkpoint(w, t)

Handle(w) ==
    \/ Compare(w) \/ Claim(w) \/ StandBack(w)
    \/ SetRunning(w) \/ Overtaken(w) \/ Interrupt(w) \/ Inventory(w)
    \/ \E t \in Threads : Visit(w, t)
    \/ CreateRow(w) \/ PutObject(w) \/ PutFails(w) \/ CheckUpdates(w) \/ Reassert(w)
    \/ LinkToFolder(w) \/ Finish(w)
    \/ Leave(w) \/ LeaveUncleared(w)
    \/ Ack(w) \/ Retry(w) \/ LeavePending(w) \/ LoseReceipt(w)

Next ==
    \/ \E r \in Runs : Reserve(r) \/ Enqueue(r) \/ ActivateByStart(r)
    \/ \E w \in Workers, r \in Runs : Take(w, r)
    \/ \E w \in Workers : Handle(w)
    \/ \E r \in Runs : Apply(r) \/ Reclaim(r) \/ MissRenewals(r)
    \/ Expire
    \/ \E w \in Workers : Heartbeat(w) \/ MissHeartbeats(w) \/ Pause(w) \/ Wake(w) \/ Crash(w)
    \/ \E d \in DocIds : Open(d) \/ Close(d) \/ Edit(d) \/ Save(d)

\* Worker processes run on, the heartbeat and the reaper are timers, and the
\* consumer reads the stream in order, so no entry waits for ever while
\* workers come to be idle.  A paused worker need not wake.
Fairness ==
    /\ \A w \in Workers : WF_vars(Handle(w))
    /\ \A r \in Runs : SF_vars(\E w \in Workers : Take(w, r))
    /\ \A r \in Runs : WF_vars(Apply(r)) /\ WF_vars(Reclaim(r))
    /\ WF_vars(Expire)

Spec == Init /\ [][Next]_vars /\ Fairness

-----------------------------------------------------------------------------
Steps == {"idle", "activated", "compared", "claimed", "running",
          "walking", "row", "object", "check", "reassert", "link",
          "checkpoint", "leaving", "ending"}
Verdicts == {"none", "TokenRejected", "Failed", "Succeeded", "error"}
States == {"absent", "Pending", "ContentDone", "Skipped", "Failed"}

\* Every variable has its type, and a handler between its row and its
\* checkpoint works on the id reserved for the thread it visits.
TypeOK ==
    /\ published \in [Runs -> {"no", "reserved", "published", "activated"}]
    /\ active \in Runs \union {None} /\ statusBy \in Runs \union {None}
    /\ status \in {"Connected", "Running"} \union (Verdicts \ {"none", "error"})
    /\ applied \subseteq Runs /\ staged \subseteq Runs /\ late \subseteq Runs
    /\ unswept \subseteq Runs
    /\ lease.by \in Workers \union {Nobody, Gone} /\ lease.fresh \in BOOLEAN
    /\ delivery \in [Runs -> [at : {"none", "ready", "held", "left", "final"},
                              by : Workers \union {Nobody},
                              attempt : 0..MAX_RETRIES,
                              verdict : Verdicts \ {"error"}]]
    /\ state \in [Threads -> States] /\ attempts \in [Threads -> Nat]
    /\ reserved \in [Threads -> DocIds \union {NoDoc}]
    /\ row \subseteq DocIds /\ object \subseteq row /\ linked \subseteq row
    /\ version \in [DocIds -> 1..2]
    /\ edited \subseteq object /\ Rooms \subseteq object
    /\ exposed \subseteq object /\ disturbed \subseteq object
    /\ pc \in [Workers -> Steps] /\ run \in [Workers -> Runs \union {None}]
    /\ at \in [Workers -> 1..(N + 1)]
    /\ seen \in [Workers -> [Threads -> States]]
    /\ owing \in [Workers -> BOOLEAN] /\ verdict \in [Workers -> Verdicts]
    /\ paused \subseteq Workers /\ lapsed \subseteq Workers
    /\ mishaps \in 0..MaxMishaps
    /\ \A w \in Workers :
        pc[w] \in {"row", "object", "check", "reassert", "link", "checkpoint"}
            => at[w] \in Threads /\ doc[w] = reserved[at[w]]

\* import_repo.rs:394-404, worker_mode.rs:2954-2970: whatever retries,
\* crashes and overlapping runners do, a thread gets one document.
OneDocPerThread ==
    \A t \in Threads : Cardinality({d \in row : d[1] = t}) <= 1

\* worker_mode.rs:2950-2953: the checkpoint comes last, so a thread that is
\* ContentDone has its document: row, snapshot object and folder link.
DoneHasDocument ==
    \A t \in Threads :
        state[t] = "ContentDone" => reserved[t] \in row \cap object \cap linked

\* worker_mode.rs:1166-1176: live edits lose the object they rest on only when
\* the document was open in an editor while an import's write of it was decided
\* on and not made yet; an edit typed long after that write is among them.
EditsDisturbedOnlyIfOpen == disturbed \subseteq exposed

\* worker_mode.rs:1160-1165: no retry of an import takes a document back from
\* a version its user saved.
SavesStand == [][\A d \in DocIds : version'[d] >= version[d]]_vars

\* worker_mode.rs:1268-1277: two runners work on an import together only if
\* the lease of one aged out, it being paused or its heartbeats failing, and
\* no heartbeat took the lease back since.
Working(w) == pc[w] \in Steps \ {"idle", "activated", "compared", "ending"}
OneRunnerPerLease ==
    \A w, v \in Workers : w # v /\ Working(w) /\ Working(v) => {w, v} \cap lapsed # {}

\* import_repo.rs:94-97: neither a late runner nor a replayed completion of
\* an older run writes over the status of a newer one.
NewerRunKeepsStatus == [][statusBy' >= statusBy]_vars

\* imports.rs:317-318: a published run is acked without a status only after a
\* newer one replaced it, unless it was driven on without its receipt.
RetiredWhenReplaced ==
    \A r \in Runs :
        delivery[r].at = "final" /\ delivery[r].verdict = "none"
            => active > r \/ r \in late

\* worker_mode.rs:868-893: once the completion of a run is applied as Succeeded
\* or Failed, its staged HTML is gone, unless its one sweep failed or never
\* came, or a worker without the receipt staged more.
NothingLeftStaged ==
    \A r \in applied \ (late \union unswept) :
        delivery[r].verdict # "TokenRejected" => r \notin staged

\* The status of a run that ended goes back to Running only for a later run,
\* or by a worker that lost its receipt before it claimed the lease.
EndedUnlessLate ==
    [][statusBy' = statusBy /\ statusBy \in applied /\ status' = "Running"
        => statusBy \in late]_vars

\* worker_mode.rs:588-600: every published run ends, and its verdict reaches
\* the status unless a newer run took its place.
EveryRunEnds ==
    \A r \in Runs :
        published[r] = "published" ~>
            /\ delivery[r].at = "final"
            /\ active > r \/ r \in applied \/ r \in late
=============================================================================
