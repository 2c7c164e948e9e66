------------------------------ MODULE JobQueue ------------------------------
(***************************************************************************)
(* The background-job queue: a Redis stream read through a consumer group, *)
(* the status hash and the outbox of terminal effects written by the same  *)
(* Lua scripts, the consumers and the reaper of every worker process, and  *)
(* the upload route that stages a blob and enqueues the job.  From         *)
(*   src/crates/worker/src/lib.rs            JobQueue and its scripts      *)
(*   src/crates/api/src/worker_mode.rs       consumers, reaper, finalizing *)
(*   src/crates/api/src/routes/documents.rs  staging an upload             *)
(*                                                                         *)
(* A script is one step, because Redis runs it alone; a script whose reply *)
(* is lost has taken effect although its caller sees an error.  Time is    *)
(* one bit per delivery: whether it has sat idle for REAPER_MIN_IDLE_MS.   *)
(***************************************************************************)
EXTENDS Naturals, FiniteSets

CONSTANTS
    Jobs,        \* jobs that producers submit
    Uploads,     \* those that import a staged file (ImportDocx, ImportPdf)
    Unreadable,  \* those whose envelope this build cannot deserialize
    Workers,     \* worker processes; also the name of each one's reaper
    Consumers,   \* consumer tasks
    Slots,       \* reaper slots: tasks that run reclaimed deliveries
    Host,        \* the process of each consumer and slot
    NoJob, NoName,
    MAX_RETRIES,   \* worker_mode.rs: 3
    REAPER_BATCH,  \* worker_mode.rs: 16
    MaxCount,    \* bound: claims of one delivery that are told apart
    MaxFaults,   \* bound: lost replies, errors, outages, stalls, held runs
    MaxCrashes   \* bound: worker processes that stop and restart

Tasks == Consumers \cup Slots
Threads == Tasks \cup Workers
Attempts == 0..MAX_RETRIES
MaxId == Cardinality(Jobs) * (MAX_RETRIES + 1)
Ids == 1..MaxId
NoId == 0
Outcomes == {"succeeded", "failed"}

ASSUME JobAssumption ==
    /\ IsFiniteSet(Jobs) /\ NoJob \notin Jobs
    /\ Uploads \subseteq Jobs /\ Unreadable \subseteq Jobs

ASSUME TaskAssumption ==
    /\ Consumers \cap Slots = {} /\ Workers \cap Tasks = {}
    /\ NoName \notin Threads
    /\ Host \in [Tasks -> Workers]

ASSUME LimitAssumption ==
    /\ MAX_RETRIES \in Nat /\ REAPER_BATCH \in Nat
    /\ MaxCount \in Nat \ {0}
    /\ MaxFaults \in Nat /\ MaxCrashes \in Nat

VARIABLES
    entry,     \* the stream and its pending-entries list, by entry id
    lastId,    \* the last id XADD gave out
    status,    \* job:{id}, the status a client polls
    outbox,    \* {stream}:finalizations, terminal effects still owed
    dlq,       \* how often {stream}:dlq holds a job
    producer,  \* where the request that submits a job is
    staged,    \* the uploads whose staging blob is in S3
    effect,    \* the terminal outcome applied for a job
    blamed,    \* history: attempts that failed while storage answered
    pc,        \* where each thread is
    work,      \* the delivery (or outbox record) each thread holds
    faults, crashes

queueVars == <<entry, lastId, status, outbox, dlq>>
budgets == <<faults, crashes>>
vars == <<entry, lastId, status, outbox, dlq, producer, staged, effect,
          blamed, pc, work, faults, crashes>>

Entry == [state : {"none", "new", "pending"}, job : Jobs \cup {NoJob},
          attempt : Attempts, owner : Threads \cup {NoName},
          count : 0..MaxCount, idle : BOOLEAN]
Work == [id : Ids \cup {NoId}, job : Jobs \cup {NoJob},
         attempt : Attempts, count : 0..MaxCount,
         outcome : Outcomes \cup {"none"}]
Places == {"idle", "start", "outbox", "renew", "execute", "probe", "ack",
           "retry", "settle", "apply", "complete"}

(* An id not yet given out, or deleted from the stream. *)
NoEntry == [state |-> "none", job |-> NoJob, attempt |-> 0,
            owner |-> NoName, count |-> 0, idle |-> FALSE]
NoWork == [id |-> NoId, job |-> NoJob, attempt |-> 0, count |-> 0,
           outcome |-> "none"]

(* XADD of an envelope. *)
Envelope(j, a) == [NoEntry EXCEPT !.state = "new", !.job = j, !.attempt = a]

(* The name under which a thread claims deliveries. *)
Name(t) == IF t \in Slots THEN Host[t] ELSE t

Live(i) == entry[i].state # "none"
Open(j) == status[j] \in {"pending", "running"}
Terminal(j) == status[j] \in Outcomes

(* The fence of every script: the delivery is pending, its owner is the    *)
(* caller and no claim followed the caller's.                              *)
ReceiptAssumed(t) == work[t].id \in Ids
ReceiptPending(t) ==
    work[t].id \in Ids /\ entry[work[t].id].state = "pending"
Receipt(t) ==
    /\ work[t].id \in Ids
    /\ entry[work[t].id].state = "pending"
    /\ entry[work[t].id].owner = Name(t)
    /\ entry[work[t].id].count = work[t].count

(* One more delivery of a claimed entry. *)
Bump(n) == IF n = MaxCount THEN MaxCount ELSE n + 1

Fault == /\ faults < MaxFaults
         /\ faults' = faults + 1
         /\ UNCHANGED crashes

(* A thread is done with what it held; a slot becomes free. *)
GoIdle(t) == /\ pc' = [pc EXCEPT ![t] = "idle"]
             /\ work' = [work EXCEPT ![t] = NoWork]

Goto(t, place) == /\ pc' = [pc EXCEPT ![t] = place]
                  /\ UNCHANGED work

Init ==
    /\ entry = [i \in Ids |-> NoEntry]
    /\ lastId = 0
    /\ status = [j \in Jobs |-> "none"]
    /\ outbox = [j \in Jobs |-> "none"]
    /\ dlq = [j \in Jobs |-> 0]
    /\ producer = [j \in Jobs |-> "idle"]
    /\ staged = {}
    /\ effect = [j \in Jobs |-> "none"]
    /\ blamed = [j \in Jobs |-> {}]
    /\ pc = [t \in Threads |-> "idle"]
    /\ work = [t \in Threads |-> NoWork]
    /\ faults = 0 /\ crashes = 0

-----------------------------------------------------------------------------
(* The producer: an upload is staged in S3 before its job is enqueued.     *)

Stage(j) ==
    /\ producer[j] = "idle"
    /\ producer' = [producer EXCEPT ![j] = "staged"]
    /\ staged' = IF j \in Uploads THEN staged \cup {j} ELSE staged
    /\ UNCHANGED <<queueVars, effect, blamed, pc, work, budgets>>

(* ENQUEUE_DELIVERY: entry and Pending status together. *)
AppendJob(j) ==
    /\ lastId < MaxId
    /\ lastId' = lastId + 1
    /\ entry' = [entry EXCEPT ![lastId + 1] = Envelope(j, 0)]
    /\ status' = [status EXCEPT ![j] = "pending"]
    /\ UNCHANGED <<outbox, dlq>>

Enqueue(j) ==
    /\ producer[j] = "staged"
    /\ AppendJob(j)
    /\ producer' = [producer EXCEPT ![j] = "accepted"]
    /\ UNCHANGED <<staged, effect, blamed, pc, work, budgets>>

(* The call returns an error: the script did not run, or its reply is lost. *)
EnqueueFails(j) ==
    /\ producer[j] = "staged"
    /\ \/ AppendJob(j)
       \/ UNCHANGED queueVars
    /\ producer' = [producer EXCEPT ![j] = "refused"]
    /\ Fault
    /\ UNCHANGED <<staged, effect, blamed, pc, work>>

(* The route deletes the blob it staged; a failed delete is only logged. *)
Discard(j) ==
    /\ j \in Uploads
    /\ producer[j] = "refused"
    /\ producer' = [producer EXCEPT ![j] = "discarded"]
    /\ staged' \in {staged, staged \ {j}}
    /\ UNCHANGED <<queueVars, effect, blamed, pc, work, budgets>>

-----------------------------------------------------------------------------
(* A consumer: XREADGROUP of the next new entry, then START_DELIVERY.      *)

Delivered(i, name) ==
    entry' = [entry EXCEPT ![i].state = "pending", ![i].owner = name,
                           ![i].count = 1]

NextNew(i) ==
    /\ entry[i].state = "new"
    /\ \A k \in Ids : entry[k].state = "new" => i <= k

Claimed(i, count) == [NoWork EXCEPT !.id = i, !.job = entry[i].job,
                                    !.attempt = entry[i].attempt,
                                    !.count = count]

Read(c) ==
    /\ pc[c] = "idle"
    /\ \E i \in Ids :
         /\ NextNew(i)
         /\ entry[i].job \notin Unreadable
         /\ Delivered(i, c)
         /\ pc' = [pc EXCEPT ![c] = "start"]
         /\ work' = [work EXCEPT ![c] = Claimed(i, 1)]
    /\ UNCHANGED <<lastId, status, outbox, dlq, producer, staged, effect,
                   blamed, budgets>>

(* The reply is lost, or the shutdown select drops it: the entry is        *)
(* pending for a consumer that does not know of it.                        *)
ReadLost(c) ==
    /\ pc[c] = "idle"
    /\ \E i \in Ids : NextNew(i) /\ Delivered(i, c)
    /\ Fault
    /\ UNCHANGED <<lastId, status, outbox, dlq, producer, staged, effect,
                   blamed, pc, work>>

(* The envelope does not parse: consume_next returns before START_DELIVERY. *)
ReadUnreadable(c) ==
    /\ pc[c] = "idle"
    /\ \E i \in Ids :
         NextNew(i) /\ entry[i].job \in Unreadable /\ Delivered(i, c)
    /\ UNCHANGED <<lastId, status, outbox, dlq, producer, staged, effect,
                   blamed, pc, work, budgets>>

FirstDelivery(c) == Receipt(c) /\ entry[work[c].id].count = 1

PublishRunning(c) ==
    status' = IF FirstDelivery(c)
              THEN [status EXCEPT ![work[c].job] = "running"]
              ELSE status

Start(c) ==
    /\ pc[c] = "start"
    /\ PublishRunning(c)
    /\ IF FirstDelivery(c) THEN Goto(c, "outbox") ELSE GoIdle(c)
    /\ UNCHANGED <<entry, lastId, outbox, dlq, producer, staged, effect,
                   blamed, budgets>>

StartFails(c) ==
    /\ pc[c] = "start"
    /\ PublishRunning(c) \/ UNCHANGED status
    /\ GoIdle(c)
    /\ Fault
    /\ UNCHANGED <<entry, lastId, outbox, dlq, producer, staged, effect,
                   blamed>>

-----------------------------------------------------------------------------
(* execute_and_finalize, run by a consumer or a reaper slot.               *)

(* pending_finalization: a terminal outcome already committed is only      *)
(* applied, before the handler runs and again after it.                    *)
LookUp(t, place) ==
    LET j == work[t].job IN
    IF outbox[j] # "none"
    THEN /\ pc' = [pc EXCEPT ![t] = "apply"]
         /\ work' = [work EXCEPT ![t].outcome = outbox[j]]
    ELSE IF place = "idle" THEN GoIdle(t) ELSE Goto(t, place)

CheckOutbox(t) ==
    /\ pc[t] = "outbox"
    /\ LookUp(t, "renew")
    /\ UNCHANGED <<queueVars, producer, staged, effect, blamed, budgets>>

(* renew_claim, also made every 20 s by the receipt's heartbeat. *)
Touch(t) ==
    entry' = IF Receipt(t)
             THEN [entry EXCEPT ![work[t].id].idle = FALSE]
             ELSE entry

Renew(t) ==
    /\ pc[t] = "renew"
    /\ Touch(t)
    /\ IF Receipt(t) THEN Goto(t, "execute") ELSE GoIdle(t)
    /\ UNCHANGED <<lastId, status, outbox, dlq, producer, staged, effect,
                   blamed, budgets>>

Heartbeat(t) ==
    /\ pc[t] \in {"execute", "probe", "ack", "retry", "settle"}
    /\ Receipt(t) /\ entry[work[t].id].idle
    /\ Touch(t)
    /\ UNCHANGED <<lastId, status, outbox, dlq, producer, staged, effect,
                   blamed, pc, work, budgets>>

(* The handler finishes: an upload can only succeed while its blob is there. *)
ExecuteDone(t) ==
    /\ pc[t] = "execute"
    /\ work[t].job \in Uploads => work[t].job \in staged
    /\ Goto(t, "ack")
    /\ UNCHANGED <<queueVars, producer, staged, effect, blamed, budgets>>

(* It returns an error or panics. *)
ExecuteFails(t) ==
    /\ pc[t] = "execute"
    /\ Goto(t, "probe")
    /\ UNCHANGED <<queueVars, producer, staged, effect, blamed, budgets>>

(* A Quip import whose lease another runner holds: neither ack nor retry. *)
ExecuteHeld(t) ==
    /\ pc[t] = "execute"
    /\ work[t].job \notin Uploads
    /\ Goto(t, "settle")
    /\ Fault
    /\ UNCHANGED <<queueVars, producer, staged, effect, blamed>>

(* probe_once after a failure: storage answers, so the attempt is blamed. *)
ProbeAnswers(t) ==
    /\ pc[t] = "probe"
    /\ blamed' = [blamed EXCEPT ![work[t].job] = @ \cup {work[t].attempt}]
    /\ Goto(t, "retry")
    /\ UNCHANGED <<queueVars, producer, staged, effect, budgets>>

(* Storage is unreachable: the delivery stays pending, no retry is spent. *)
OutageSpendsRetry(t) ==
    /\ pc[t] = "probe"
    /\ Goto(t, "retry")
    /\ Fault
    /\ UNCHANGED <<queueVars, producer, staged, effect, blamed>>
ProbeFails(t) ==
    /\ pc[t] = "probe"
    /\ Goto(t, "settle")
    /\ Fault
    /\ UNCHANGED <<queueVars, producer, staged, effect, blamed>>

(* FINALIZE_DELIVERY with a terminal status. *)
Retire(t, outcome) ==
    LET j == work[t].job IN
    /\ entry' = [entry EXCEPT ![work[t].id] = NoEntry]
    /\ status' = [status EXCEPT ![j] = outcome]
    /\ outbox' = [outbox EXCEPT ![j] = outcome]
    /\ dlq' = IF outcome = "failed" THEN [dlq EXCEPT ![j] = @ + 1] ELSE dlq
    /\ UNCHANGED lastId

(* FINALIZE_DELIVERY with a replacement: the job's next attempt. *)
Replace(t) ==
    LET j == work[t].job IN
    /\ lastId < MaxId
    /\ lastId' = lastId + 1
    /\ entry' = [entry EXCEPT ![work[t].id] = NoEntry,
                              ![lastId + 1] = Envelope(j, work[t].attempt + 1)]
    /\ status' = [status EXCEPT ![j] = "pending"]
    /\ UNCHANGED <<outbox, dlq>>

OneRetryShort(a) == a + 1 >= MAX_RETRIES
Exhausted(a) == a >= MAX_RETRIES

(* Ack and Retry end in the same place whatever the reply: Applied,        *)
(* AlreadyFinalized, ClaimLost, an error, or a lost reply of a script that *)
(* ran.  Without a current receipt the script changes nothing.             *)
Ack(t) ==
    /\ pc[t] = "ack"
    /\ IF Receipt(t) THEN Retire(t, "succeeded") ELSE UNCHANGED queueVars
    /\ Goto(t, "settle")
    /\ UNCHANGED <<producer, staged, effect, blamed, budgets>>

Retry(t) ==
    /\ pc[t] = "retry"
    /\ IF ~Receipt(t) THEN UNCHANGED queueVars
       ELSE IF Exhausted(work[t].attempt) THEN Retire(t, "failed")
       ELSE Replace(t)
    /\ Goto(t, "settle")
    /\ UNCHANGED <<producer, staged, effect, blamed, budgets>>

FinalizeFails(t) ==
    /\ pc[t] \in {"ack", "retry"}
    /\ Goto(t, "settle")
    /\ Fault
    /\ UNCHANGED <<queueVars, producer, staged, effect, blamed>>

(* The outbox decides whether there is anything terminal to apply. *)
SettleRegardless(t) ==
    /\ pc[t] = "settle"
    /\ GoIdle(t)
    /\ staged' = staged \ {work[t].job}
    /\ UNCHANGED <<queueVars, producer, effect, blamed, budgets>>
Settle(t) ==
    /\ pc[t] = "settle"
    /\ LookUp(t, "idle")
    /\ UNCHANGED <<queueVars, producer, staged, effect, blamed, budgets>>

(* A Redis call of a task fails before it changes anything. *)
TaskCallFails(t) ==
    /\ pc[t] \in {"outbox", "renew", "settle"}
    /\ GoIdle(t)
    /\ Fault
    /\ UNCHANGED <<queueVars, producer, staged, effect, blamed>>

-----------------------------------------------------------------------------
(* reconcile_finalization, by a task or by the reaper's own loop.          *)

(* apply_finalization.  An import's status is written once per job; the    *)
(* delete of a staging blob is best effort and never fails the record.     *)
Apply(t) ==
    LET j == work[t].job IN
    /\ pc[t] = "apply"
    /\ effect' = IF effect[j] = "none"
                 THEN [effect EXCEPT ![j] = work[t].outcome]
                 ELSE effect
    /\ staged' \in IF j \in Uploads THEN {staged, staged \ {j}} ELSE {staged}
    /\ Goto(t, "complete")
    /\ UNCHANGED <<queueVars, producer, blamed, budgets>>

(* The write to DynamoDB fails (or only its answer): the record stays. *)
ApplyErrorIgnored(t) ==
    /\ pc[t] = "apply"
    /\ work[t].job \notin Uploads
    /\ Goto(t, "complete")
    /\ Fault
    /\ UNCHANGED <<queueVars, producer, staged, effect, blamed>>
ApplyFails(t) ==
    LET j == work[t].job IN
    /\ pc[t] = "apply"
    /\ j \notin Uploads
    /\ effect' \in {effect, IF effect[j] = "none"
                            THEN [effect EXCEPT ![j] = work[t].outcome]
                            ELSE effect}
    /\ GoIdle(t)
    /\ Fault
    /\ UNCHANGED <<queueVars, producer, staged, blamed>>

(* complete_finalization: HDEL. *)
Complete(t) ==
    /\ pc[t] = "complete"
    /\ outbox' = [outbox EXCEPT ![work[t].job] = "none"]
    /\ GoIdle(t)
    /\ UNCHANGED <<entry, lastId, status, dlq, producer, staged, effect,
                   blamed, budgets>>

CompleteFails(t) ==
    /\ pc[t] = "complete"
    /\ GoIdle(t)
    /\ Fault
    /\ UNCHANGED <<queueVars, producer, staged, effect, blamed>>

-----------------------------------------------------------------------------
(* The reaper loop of a process, and what time and crashes do.             *)

(* reconcile_finalizations: one record of the scan. *)
Scan(w) ==
    /\ pc[w] = "idle"
    /\ \E j \in Jobs :
         /\ outbox[j] # "none"
         /\ pc' = [pc EXCEPT ![w] = "apply"]
         /\ work' = [work EXCEPT ![w] = [NoWork EXCEPT !.job = j,
                                                       !.outcome = outbox[j]]]
    /\ UNCHANGED <<queueVars, producer, staged, effect, blamed, budgets>>

(* CLAIM_STALE leaves alone what this reaper is running. *)
InFlight(w) == {work[s].id : s \in {q \in Slots : Host[q] = w}}
StaleOfAnyone(w) == {i \in Ids : entry[i].state = "pending" /\ entry[i].idle}
StaleFirstDeliveries(w) ==
    {i \in Ids : /\ entry[i].state = "pending" /\ entry[i].idle
                 /\ entry[i].count = 1 /\ i \notin InFlight(w)}
Stale(w) ==
    {i \in Ids : /\ entry[i].state = "pending" /\ entry[i].idle
                 /\ i \notin InFlight(w)}
Free(w) == {s \in Slots : Host[s] = w /\ pc[s] = "idle"}

(* The oldest stale deliveries, as many as there are free slots. *)
Batch(w) ==
    {i \in Stale(w) :
        /\ Cardinality({k \in Stale(w) : k < i}) < Cardinality(Free(w))
        /\ Cardinality({k \in Stale(w) : k < i}) < REAPER_BATCH}

ClaimBatch(w) ==
    entry' = [i \in Ids |-> IF i \in Batch(w)
                            THEN [entry[i] EXCEPT !.owner = w,
                                                  !.count = Bump(@),
                                                  !.idle = FALSE]
                            ELSE entry[i]]

(* The claimed deliveries are admitted to slots and run, each as a task. *)
Reap(w) ==
    /\ pc[w] = "idle"
    /\ Batch(w) # {}
    /\ \A i \in Batch(w) : entry[i].job \notin Unreadable
    /\ ClaimBatch(w)
    /\ \E seat \in [Batch(w) -> Free(w)] :
         /\ \A i, k \in Batch(w) : seat[i] = seat[k] => i = k
         /\ pc' = [t \in Threads |->
                     IF \E i \in Batch(w) : seat[i] = t THEN "outbox"
                                                        ELSE pc[t]]
         /\ work' = [t \in Threads |->
                     IF \E i \in Batch(w) : seat[i] = t
                     THEN LET i == CHOOSE k \in Batch(w) : seat[k] = t
                          IN  Claimed(i, Bump(entry[i].count))
                     ELSE work[t]]
    /\ UNCHANGED <<lastId, status, outbox, dlq, producer, staged, effect,
                   blamed, budgets>>

(* One envelope of the batch does not parse: claim_stale_excluding fails   *)
(* and nothing of the batch runs, although the script has claimed it all.  *)
ReapUnreadable(w) ==
    /\ pc[w] = "idle"
    /\ \E i \in Batch(w) : entry[i].job \in Unreadable
    /\ ClaimBatch(w)
    /\ UNCHANGED <<lastId, status, outbox, dlq, producer, staged, effect,
                   blamed, pc, work, budgets>>

ReapLost(w) ==
    /\ pc[w] = "idle"
    /\ Batch(w) # {}
    /\ ClaimBatch(w)
    /\ Fault
    /\ UNCHANGED <<lastId, status, outbox, dlq, producer, staged, effect,
                   blamed, pc, work>>

Held(i) == \E t \in Tasks : work[t].id = i /\ Receipt(t)

(* A delivery nobody works on reaches REAPER_MIN_IDLE_MS. *)
Lapse(i) ==
    /\ entry[i].state = "pending" /\ ~entry[i].idle
    /\ ~Held(i)
    /\ entry' = [entry EXCEPT ![i].idle = TRUE]
    /\ UNCHANGED <<lastId, status, outbox, dlq, producer, staged, effect,
                   blamed, pc, work, budgets>>

(* A live task is paused, or cut off from Redis, for that long. *)
Stall(i) ==
    /\ entry[i].state = "pending" /\ ~entry[i].idle
    /\ Held(i)
    /\ entry' = [entry EXCEPT ![i].idle = TRUE]
    /\ Fault
    /\ UNCHANGED <<lastId, status, outbox, dlq, producer, staged, effect,
                   blamed, pc, work>>

(* A worker process stops; the one that replaces it knows of no delivery.  *)
Crash(w) ==
    LET its(t) == t = w \/ (t \in Tasks /\ Host[t] = w) IN
    /\ crashes < MaxCrashes
    /\ crashes' = crashes + 1
    /\ pc' = [t \in Threads |-> IF its(t) THEN "idle" ELSE pc[t]]
    /\ work' = [t \in Threads |-> IF its(t) THEN NoWork ELSE work[t]]
    /\ UNCHANGED <<queueVars, producer, staged, effect, blamed, faults>>

-----------------------------------------------------------------------------
ProducerStep == \E j \in Jobs : Stage(j) \/ Enqueue(j) \/ EnqueueFails(j)
                                \/ Discard(j)

ConsumerStep == \E c \in Consumers : Read(c) \/ ReadLost(c)
                                     \/ ReadUnreadable(c)
                                     \/ Start(c) \/ StartFails(c)

Handling(t) == CheckOutbox(t) \/ Renew(t) \/ ExecuteDone(t) \/ ExecuteFails(t)
               \/ ProbeAnswers(t) \/ Ack(t) \/ Retry(t) \/ Settle(t)

Hindrance(t) == Heartbeat(t) \/ ExecuteHeld(t) \/ ProbeFails(t)
                \/ FinalizeFails(t) \/ TaskCallFails(t)

TaskStep == \E t \in Tasks : Handling(t) \/ Hindrance(t)

Reconciling == \E t \in Threads : Apply(t) \/ ApplyFails(t) \/ Complete(t)
                                  \/ CompleteFails(t)

ReaperStep == \E w \in Workers : Scan(w) \/ Reap(w) \/ ReapUnreadable(w)
                                 \/ ReapLost(w)

TimePasses == \E i \in Ids : Lapse(i) \/ Stall(i)

Next == \/ ProducerStep \/ ConsumerStep \/ TaskStep \/ Reconciling
        \/ ReaperStep \/ TimePasses
        \/ \E w \in Workers : Crash(w)

Spec == Init /\ [][Next]_vars

(* Tasks are spawned once and loop; handlers return; the reaper ticks; a   *)
(* delivery without heartbeat ages.  Nothing is assumed of producers.      *)
Fairness ==
    /\ \A c \in Consumers : /\ WF_vars(Read(c) \/ ReadUnreadable(c))
                            /\ WF_vars(Start(c))
    /\ \A t \in Tasks : WF_vars(Handling(t))
    /\ \A t \in Threads : WF_vars(Apply(t) \/ Complete(t))
    /\ \A w \in Workers : /\ WF_vars(Scan(w))
                          /\ WF_vars(Reap(w) \/ ReapUnreadable(w))
    /\ \A i \in Ids : WF_vars(Lapse(i))

LiveSpec == Spec /\ Fairness

-----------------------------------------------------------------------------
(* Every variable keeps its shape: entries, receipts, statuses, budgets.   *)
TypeOK ==
    /\ entry \in [Ids -> Entry]
    /\ lastId \in 0..MaxId
    /\ status \in [Jobs -> {"none", "pending", "running"} \cup Outcomes]
    /\ outbox \in [Jobs -> Outcomes \cup {"none"}]
    /\ dlq \in [Jobs -> Nat]
    /\ producer \in [Jobs -> {"idle", "staged", "accepted", "refused",
                              "discarded"}]
    /\ staged \subseteq Uploads
    /\ effect \in [Jobs -> Outcomes \cup {"none"}]
    /\ blamed \in [Jobs -> SUBSET Attempts]
    /\ pc \in [Threads -> Places]
    /\ work \in [Threads -> Work]
    /\ faults \in 0..MaxFaults /\ crashes \in 0..MaxCrashes

(* A job whose polled status is Pending or Running has exactly one entry   *)
(* in the stream, and a finished job has none: enqueue, retry, dead-letter *)
(* and ack move status and entry together, whoever repeats them.           *)
OneEntryPerOpenJob ==
    \A j \in Jobs :
        LET entries == {i \in Ids : Live(i) /\ entry[i].job = j} IN
        /\ Open(j) <=> entries # {}
        /\ \A i, k \in entries : i = k

(* A polled terminal status never changes again, not even by a consumer    *)
(* that publishes Running late (START_DELIVERY's guard).                   *)
TerminalForever ==
    [][\A j \in Jobs : Terminal(j) => status'[j] = status[j]]_vars

(* A delivery is never retired under the task that claimed it last while   *)
(* that task still works on it: a superseded task's late ack or failure    *)
(* is fenced off by owner and delivery count (FINALIZE_DELIVERY).  From    *)
(* MaxCount on the model no longer tells the counts of Redis apart.        *)
NewestClaimDecides ==
    [][\A i \in Ids, t \in Tasks :
          /\ entry[i].state = "pending" /\ entry'[i].state = "none"
          /\ work[t].id = i /\ work[t].count = entry[i].count
          /\ entry[i].count < MaxCount
          => pc[t] \in {"ack", "retry"}]_vars

(* A job is dead-lettered once, and only after every attempt of its budget *)
(* failed while storage answered: outages, lost replies, crashes and held  *)
(* deliveries spend nothing (execute_and_finalize's probe).                *)
DeadLetterEarned ==
    \A j \in Jobs :
        /\ dlq[j] = (IF status[j] = "failed" THEN 1 ELSE 0)
        /\ status[j] = "failed" => blamed[j] = Attempts

(* The terminal effect of a finished job is either recorded in the outbox  *)
(* or applied, and what is applied is the outcome clients poll.            *)
EffectOwedOrDone ==
    \A j \in Jobs :
        /\ Terminal(j) => status[j] \in {outbox[j], effect[j]}
        /\ outbox[j] \in {"none", status[j]}
        /\ effect[j] \in {"none", status[j]}

(* CLAIM_STALE never supersedes a delivery that a slot of the same reaper  *)
(* is still running, however long that delivery sat idle.                  *)
ReaperKeepsItsReceipts ==
    \A s \in Slots :
        LET i == work[s].id IN
        (i # NoId /\ entry[i].state = "pending" /\ entry[i].owner = Name(s))
            => entry[i].count = work[s].count

(* While an upload the client was told is accepted can still run, the blob *)
(* it reads is in S3: only a committed terminal outcome permits cleanup.   *)
AcceptedUploadStaged ==
    \A j \in Uploads : (producer[j] = "accepted" /\ Open(j)) => j \in staged

(* Every job that entered the queue and that workers can read ends.        *)
EveryJobEnds ==
    \A j \in Jobs \ Unreadable : Open(j) ~> Terminal(j)

(* Every committed outcome takes effect and leaves the outbox.             *)
EffectsSettle ==
    \A j \in Jobs : Terminal(j) ~> (effect[j] = status[j] /\ outbox[j] = "none")

-----------------------------------------------------------------------------
(* The inductive invariant of the proofs (JobQueueProofs).                 *)

(* Entries in the stream belong to jobs and were given out; so were the    *)
(* deliveries that threads hold.                                           *)
Formed ==
    /\ \A i \in Ids : Live(i) => entry[i].job \in Jobs /\ i <= lastId
    /\ \A t \in Threads : /\ work[t].id <= lastId
                          /\ pc[t] # "idle" => work[t].job \in Jobs

(* What a thread knows of a delivery stays true until it is retired.       *)
Tracks ==
    \A t \in Threads :
        LET i == work[t].id IN
        i \in Ids /\ Live(i) => /\ entry[i].job = work[t].job
                               /\ entry[i].attempt = work[t].attempt

NotYetQueued ==
    \A j \in Jobs : producer[j] \in {"idle", "staged"} => status[j] = "none"

(* A thread applies only an outcome that is committed, and removes the     *)
(* record only after the effect.                                           *)
Committed ==
    \A t \in Threads :
        LET j == work[t].job IN
        /\ pc[t] \in {"apply", "complete"} => Terminal(j)
        /\ pc[t] = "apply" => work[t].outcome = status[j]
        /\ pc[t] = "complete" => effect[j] = status[j]

(* All that one step of the queue needs to know to keep one entry per open *)
(* job and one outcome per job: the conjunction the theorems rest on.      *)
QueueInv == TypeOK /\ Formed /\ Tracks /\ NotYetQueued
            /\ OneEntryPerOpenJob /\ Committed /\ EffectOwedOrDone

-----------------------------------------------------------------------------
(* What the queue promises its clients is JobLedger: one life per job.     *)
AttemptOf(j) ==
    LET entries == {i \in Ids : Live(i) /\ entry[i].job = j} IN
    IF entries = {} THEN 0 ELSE entry[CHOOSE i \in entries : TRUE].attempt

Ledger == INSTANCE JobLedger WITH
    phase <- [j \in Jobs |-> IF Open(j) THEN "queued" ELSE status[j]],
    tries <- [j \in Jobs |-> AttemptOf(j)],
    settled <- effect

(* Every step of the queue is a step of the ledger or changes nothing a    *)
(* client can see: enqueue, spent retries, one outcome, one effect.        *)
ImplementsLedger == Ledger!Spec
=============================================================================
