--------------------------- MODULE JobQueueProofs ---------------------------
(***************************************************************************)
(* Theorems about JobQueue, for any jobs, processes, tasks and slots, any  *)
(* retry budget and any bounds on faults and crashes.                      *)
(***************************************************************************)
EXTENDS JobQueue, FiniteSetTheorems, TLAPS

\* Ids is an initial segment of the positive numbers.
LEMMA MaxIdNat == MaxId \in Nat
  <1>1. Cardinality(Jobs) \in Nat
    BY FS_CardinalityType, JobAssumption
  <1>2. QED
    BY <1>1, LimitAssumption DEF MaxId

\* Constant facts that the type arguments use.
LEMMA Constants ==
    /\ MaxId \in Nat /\ 0 \in Attempts /\ 0 \in 0..MaxCount /\ 1 \in 0..MaxCount
    /\ NoEntry \in Entry /\ NoWork \in Work
    /\ Consumers \subseteq Threads /\ Slots \subseteq Threads
    /\ Workers \subseteq Threads /\ Tasks \subseteq Threads
    /\ \A n \in 0..MaxCount : Bump(n) \in 0..MaxCount
  BY MaxIdNat, JobAssumption, TaskAssumption, LimitAssumption
  DEF NoEntry, NoWork, Entry, Work, Threads, Tasks, Attempts, Bump, Ids, NoId, Outcomes

\* An envelope just appended is an entry.
LEMMA EnvelopeType ==
    ASSUME NEW j \in Jobs, NEW a \in Attempts
    PROVE  /\ Envelope(j, a) \in Entry
           /\ Envelope(j, a).state = "new" /\ Envelope(j, a).job = j
           /\ Envelope(j, a).attempt = a
  BY Constants DEF Envelope, NoEntry, Entry

\* What a thread keeps of a delivery it claims.
LEMMA ClaimType ==
    ASSUME TypeOK, NEW i \in Ids, NEW n \in 0..MaxCount
    PROVE  /\ Claimed(i, n) \in Work
           /\ Claimed(i, n).id = i /\ Claimed(i, n).job = entry[i].job
           /\ Claimed(i, n).attempt = entry[i].attempt
  BY Constants DEF Claimed, NoWork, Work, TypeOK, Entry, Outcomes

-----------------------------------------------------------------------------
\* Reading the outbox: a record is applied, otherwise the thread goes on.
LEMMA LookUpType ==
    ASSUME TypeOK, Formed, NEW t \in Threads, NEW place \in Places,
           pc[t] # "idle", LookUp(t, place)
    PROVE  pc' \in [Threads -> Places] /\ work' \in [Threads -> Work]
  <1>1. outbox[work[t].job] \in Outcomes \cup {"none"}
    BY DEF TypeOK, Formed
  <1>2. \A o \in Outcomes : [work[t] EXCEPT !.outcome = o] \in Work
    <2>1. work[t] \in Work
      BY DEF TypeOK
    <2>2. QED
      BY <2>1 DEF Work
  <1>3. QED
    BY <1>1, <1>2, Constants DEF LookUp, GoIdle, Goto, TypeOK, Places, Outcomes

\* The shapes of pc and work after a thread moves on.
LEMMA MoveType ==
    ASSUME TypeOK, NEW t \in Threads, NEW place \in Places,
           GoIdle(t) \/ Goto(t, place)
    PROVE  pc' \in [Threads -> Places] /\ work' \in [Threads -> Work]
  BY Constants DEF GoIdle, Goto, TypeOK, Places

\* A batch of claims leaves entries entries.
LEMMA ClaimBatchType ==
    ASSUME TypeOK, NEW w \in Workers, ClaimBatch(w)
    PROVE  /\ entry' \in [Ids -> Entry]
           /\ \A i \in Ids : /\ Live(i)' <=> Live(i)
                            /\ entry'[i].job = entry[i].job
                            /\ entry'[i].attempt = entry[i].attempt
  <1>1. \A i \in Ids : entry[i] \in Entry /\ Bump(entry[i].count) \in 0..MaxCount
    BY Constants DEF TypeOK, Entry
  <1>2. \A i \in Ids : [entry[i] EXCEPT !.owner = w, !.count = Bump(@), !.idle = FALSE] \in Entry
    BY <1>1, Constants DEF Entry
  <1>3. QED
    BY <1>1, <1>2 DEF ClaimBatch, Live, Entry

\* The producer's steps keep the types.
LEMMA ProducerType ==
    ASSUME TypeOK, Formed, ProducerStep
    PROVE  TypeOK'
  <1> USE Constants DEF TypeOK, Fault, queueVars, budgets
  <1>1. ASSUME NEW j \in Jobs, AppendJob(j)
        PROVE  /\ entry' \in [Ids -> Entry] /\ lastId' \in 0..MaxId
               /\ status' \in [Jobs -> {"none", "pending", "running"} \cup Outcomes]
               /\ outbox' = outbox /\ dlq' = dlq
    BY <1>1, EnvelopeType DEF AppendJob, Ids
  <1>2. ASSUME NEW j \in Jobs, Stage(j) PROVE TypeOK'
    BY <1>2 DEF Stage
  <1>3. ASSUME NEW j \in Jobs, Enqueue(j) PROVE TypeOK'
    BY <1>1, <1>3 DEF Enqueue
  <1>4. ASSUME NEW j \in Jobs, EnqueueFails(j) PROVE TypeOK'
    BY <1>1, <1>4, LimitAssumption DEF EnqueueFails
  <1>5. ASSUME NEW j \in Jobs, Discard(j) PROVE TypeOK'
    BY <1>5 DEF Discard
  <1>6. QED
    BY <1>2, <1>3, <1>4, <1>5 DEF ProducerStep

\* A delivery handed to a named consumer is an entry, of the same job.
LEMMA DeliveredType ==
    ASSUME TypeOK, NEW i \in Ids, NEW name \in Threads, NextNew(i),
           Delivered(i, name)
    PROVE  /\ entry' \in [Ids -> Entry]
           /\ \A k \in Ids : /\ Live(k)' <=> Live(k)
                             /\ entry'[k].job = entry[k].job
                             /\ entry'[k].attempt = entry[k].attempt
  <1>1. entry[i] \in Entry /\ 1 \in 0..MaxCount
    BY Constants DEF TypeOK
  <1>2. [entry[i] EXCEPT !.state = "pending", !.owner = name, !.count = 1] \in Entry
    BY <1>1 DEF Entry
  <1>3. QED
    BY <1>2 DEF Delivered, NextNew, Live, TypeOK, Entry

\* The consumers' steps keep the types.
LEMMA ConsumerType ==
    ASSUME TypeOK, Formed, ConsumerStep
    PROVE  TypeOK'
  <1> USE Constants DEF TypeOK, Fault, budgets
  <1>1. ASSUME NEW c \in Consumers, Read(c) PROVE TypeOK'
    <2>1. PICK i \in Ids : /\ NextNew(i) /\ Delivered(i, c)
                           /\ pc' = [pc EXCEPT ![c] = "start"]
                           /\ work' = [work EXCEPT ![c] = Claimed(i, 1)]
      BY <1>1 DEF Read
    <2>2. entry' \in [Ids -> Entry] /\ Claimed(i, 1) \in Work
      BY <2>1, DeliveredType, ClaimType
    <2>3. QED
      BY <1>1, <2>1, <2>2 DEF Read, Places
  <1>2. ASSUME NEW c \in Consumers, ReadLost(c) PROVE TypeOK'
    BY <1>2, DeliveredType, LimitAssumption DEF ReadLost
  <1>3. ASSUME NEW c \in Consumers, ReadUnreadable(c) PROVE TypeOK'
    BY <1>3, DeliveredType DEF ReadUnreadable
  <1>4. ASSUME NEW c \in Consumers, PublishRunning(c)
        PROVE  status' \in [Jobs -> {"none", "pending", "running"} \cup Outcomes]
    BY <1>4 DEF PublishRunning
  <1>5. "outbox" \in Places
    BY DEF Places
  <1>6. ASSUME NEW c \in Consumers, Start(c) PROVE TypeOK'
    <2>1. pc' \in [Threads -> Places] /\ work' \in [Threads -> Work]
      BY <1>5, <1>6, MoveType DEF Start
    <2>2. QED
      BY <1>4, <1>6, <2>1 DEF Start
  <1>7. ASSUME NEW c \in Consumers, StartFails(c) PROVE TypeOK'
    <2>1. pc' \in [Threads -> Places] /\ work' \in [Threads -> Work]
      BY <1>5, <1>7, MoveType DEF StartFails
    <2>2. QED
      BY <1>4, <1>7, <2>1, LimitAssumption DEF StartFails
  <1>8. QED
    BY <1>1, <1>2, <1>3, <1>6, <1>7 DEF ConsumerStep

\* Renewing a receipt leaves entries entries.
LEMMA TouchType ==
    ASSUME TypeOK, NEW t \in Threads, Touch(t)
    PROVE  /\ entry' \in [Ids -> Entry]
           /\ \A i \in Ids : /\ Live(i)' <=> Live(i)
                             /\ entry'[i].job = entry[i].job
                             /\ entry'[i].attempt = entry[i].attempt
  <1>1. \A i \in Ids : entry[i] \in Entry
    BY DEF TypeOK
  <1>2. \A i \in Ids : [entry[i] EXCEPT !.idle = FALSE] \in Entry
    BY <1>1 DEF Entry
  <1>3. CASE entry' = entry
    BY <1>3 DEF TypeOK, Live
  <1>4. CASE work[t].id \in Ids /\ entry' = [entry EXCEPT ![work[t].id].idle = FALSE]
    <2>1. entry' \in [Ids -> Entry]
      BY <1>2, <1>4 DEF TypeOK
    <2>2. \A i \in Ids : /\ entry'[i].state = entry[i].state
                         /\ entry'[i].job = entry[i].job
                         /\ entry'[i].attempt = entry[i].attempt
      BY <1>1, <1>4 DEF TypeOK, Entry
    <2>3. QED
      BY <2>1, <2>2 DEF Live
  <1>5. QED
    BY <1>3, <1>4 DEF Touch, Receipt

\* Retiring or replacing a delivery keeps the types of the queue.
LEMMA FinalizeType ==
    ASSUME TypeOK, Formed, NEW t \in Threads, pc[t] # "idle", Receipt(t),
           \/ \E o \in Outcomes : Retire(t, o)
           \/ Replace(t) /\ ~Exhausted(work[t].attempt)
    PROVE  /\ entry' \in [Ids -> Entry] /\ lastId' \in 0..MaxId
           /\ status' \in [Jobs -> {"none", "pending", "running"} \cup Outcomes]
           /\ outbox' \in [Jobs -> Outcomes \cup {"none"}]
           /\ dlq' \in [Jobs -> Nat]
  <1>1. work[t].job \in Jobs /\ work[t].id \in Ids /\ work[t].attempt \in Attempts
    BY DEF Formed, TypeOK, Work, Receipt
  <1>2. ASSUME NEW o \in Outcomes, Retire(t, o)
        PROVE  /\ entry' \in [Ids -> Entry] /\ lastId' \in 0..MaxId
               /\ status' \in [Jobs -> {"none", "pending", "running"} \cup Outcomes]
               /\ outbox' \in [Jobs -> Outcomes \cup {"none"}]
               /\ dlq' \in [Jobs -> Nat]
    BY <1>1, <1>2, Constants DEF Retire, TypeOK
  <1>3. ASSUME Replace(t), ~Exhausted(work[t].attempt)
        PROVE  /\ entry' \in [Ids -> Entry] /\ lastId' \in 0..MaxId
               /\ status' \in [Jobs -> {"none", "pending", "running"} \cup Outcomes]
               /\ outbox' \in [Jobs -> Outcomes \cup {"none"}]
               /\ dlq' \in [Jobs -> Nat]
    <2>1. work[t].attempt + 1 \in Attempts
      BY <1>1, <1>3, LimitAssumption DEF Exhausted, Attempts
    <2>2. Envelope(work[t].job, work[t].attempt + 1) \in Entry
      BY <1>1, <2>1, EnvelopeType
    <2> DEFINE next == Envelope(work[t].job, work[t].attempt + 1)
    <2>3. entry' = [entry EXCEPT ![work[t].id] = NoEntry, ![lastId + 1] = next]
      BY <1>3 DEF Replace
    <2> HIDE DEF next
    <2>4. entry' \in [Ids -> Entry]
      BY <2>2, <2>3, Constants DEF TypeOK, next
    <2>5. lastId' \in 0..MaxId
      BY <1>3, Constants DEF Replace, TypeOK
    <2>6. QED
      BY <1>3, <2>4, <2>5 DEF Replace, TypeOK
  <1>4. QED
    BY <1>2, <1>3

\* The steps of execute_and_finalize keep the types.
LEMMA TaskType ==
    ASSUME TypeOK, Formed, TaskStep
    PROVE  TypeOK'
  <1> USE DEF queueVars, budgets
  <1>0. PICK t \in Tasks : Handling(t) \/ Hindrance(t)
    BY DEF TaskStep
  <1>t. t \in Threads
    BY Constants
  <1>p. {"idle", "renew", "execute", "probe", "ack", "retry", "settle", "apply"} \subseteq Places
    BY DEF Places
  <1>n. pc[t] # "idle"
    BY <1>0 DEF Handling, Hindrance, CheckOutbox, Renew, ExecuteDone, ExecuteFails, ProbeAnswers,
                Ack, Retry, Settle, Heartbeat, ExecuteHeld, ProbeFails, FinalizeFails, TaskCallFails
  <1>f. Fault => faults' \in 0..MaxFaults /\ crashes' = crashes
    BY LimitAssumption DEF Fault, TypeOK
  <1>1. CASE CheckOutbox(t)
    BY <1>1, <1>t, <1>p, <1>n, LookUpType DEF CheckOutbox, TypeOK
  <1>2. CASE Renew(t)
    <2>1. pc' \in [Threads -> Places] /\ work' \in [Threads -> Work] /\ entry' \in [Ids -> Entry]
      BY <1>2, <1>t, <1>p, MoveType, TouchType DEF Renew
    <2>2. QED
      BY <1>2, <2>1 DEF Renew, TypeOK
  <1>3. CASE ExecuteDone(t)
    BY <1>3, <1>t, <1>p, MoveType DEF ExecuteDone, TypeOK
  <1>4. CASE ExecuteFails(t)
    BY <1>4, <1>t, <1>p, MoveType DEF ExecuteFails, TypeOK
  <1>5. CASE ProbeAnswers(t)
    <2>1. blamed' \in [Jobs -> SUBSET Attempts]
      <3> DEFINE j == work[t].job
      <3>1. blamed' = [blamed EXCEPT ![j] = blamed[j] \cup {work[t].attempt}]
        BY <1>5 DEF ProbeAnswers
      <3>2. blamed \in [Jobs -> SUBSET Attempts] /\ work[t].attempt \in Attempts
        BY <1>t DEF TypeOK, Work
      <3> HIDE DEF j
      <3>3. QED
        BY <3>1, <3>2
    <2>2. pc' \in [Threads -> Places] /\ work' \in [Threads -> Work]
      BY <1>5, <1>t, <1>p, MoveType DEF ProbeAnswers
    <2>3. QED
      BY <1>5, <2>1, <2>2 DEF ProbeAnswers, TypeOK
  <1>6. CASE Ack(t)
    <2>1. pc' \in [Threads -> Places] /\ work' \in [Threads -> Work]
      BY <1>6, <1>t, <1>p, MoveType DEF Ack
    <2>2. CASE Receipt(t)
      BY <1>6, <1>t, <1>n, <2>1, <2>2, FinalizeType DEF Ack, TypeOK, Outcomes
    <2>3. CASE ~Receipt(t)
      BY <1>6, <2>1, <2>3 DEF Ack, TypeOK
    <2>4. QED
      BY <2>2, <2>3
  <1>7. CASE Retry(t)
    <2>1. pc' \in [Threads -> Places] /\ work' \in [Threads -> Work]
      BY <1>7, <1>t, <1>p, MoveType DEF Retry
    <2>2. CASE Receipt(t)
      BY <1>7, <1>t, <1>n, <2>1, <2>2, FinalizeType DEF Retry, TypeOK, Outcomes
    <2>3. CASE ~Receipt(t)
      BY <1>7, <2>1, <2>3 DEF Retry, TypeOK
    <2>4. QED
      BY <2>2, <2>3
  <1>8. CASE Settle(t)
    BY <1>8, <1>t, <1>p, <1>n, LookUpType DEF Settle, TypeOK
  <1>9. CASE Heartbeat(t)
    BY <1>9, <1>t, TouchType DEF Heartbeat, TypeOK
  <1>10. CASE ExecuteHeld(t) \/ ProbeFails(t) \/ FinalizeFails(t) \/ TaskCallFails(t)
    <2>1. pc' \in [Threads -> Places] /\ work' \in [Threads -> Work]
      BY <1>10, <1>t, <1>p, MoveType DEF ExecuteHeld, ProbeFails, FinalizeFails, TaskCallFails
    <2>2. QED
      BY <1>10, <1>f, <2>1 DEF ExecuteHeld, ProbeFails, FinalizeFails, TaskCallFails, TypeOK
  <1>11. QED
    BY <1>0, <1>1, <1>2, <1>3, <1>4, <1>5, <1>6, <1>7, <1>8, <1>9, <1>10 DEF Handling, Hindrance

\* Applying and removing outbox records keep the types.
LEMMA ReconcileType ==
    ASSUME TypeOK, Formed, Reconciling
    PROVE  TypeOK'
  <1> USE DEF queueVars, budgets
  <1>0. PICK t \in Threads : Apply(t) \/ ApplyFails(t) \/ Complete(t) \/ CompleteFails(t)
    BY DEF Reconciling
  <1>1. pc' \in [Threads -> Places] /\ work' \in [Threads -> Work]
    <2>1. "complete" \in Places
      BY DEF Places
    <2>2. QED
      BY <1>0, <2>1, MoveType DEF Apply, ApplyFails, Complete, CompleteFails
  <1>2. [effect EXCEPT ![work[t].job] = work[t].outcome] \in [Jobs -> Outcomes \cup {"none"}]
    BY <1>0 DEF TypeOK, Work
  <1>3. Fault => faults' \in 0..MaxFaults /\ crashes' = crashes
    BY LimitAssumption DEF Fault, TypeOK
  <1>4. CASE Apply(t)
    BY <1>1, <1>2, <1>4 DEF Apply, TypeOK
  <1>5. CASE ApplyFails(t)
    BY <1>1, <1>2, <1>3, <1>5 DEF ApplyFails, TypeOK
  <1>6. CASE Complete(t)
    BY <1>1, <1>6 DEF Complete, TypeOK
  <1>7. CASE CompleteFails(t)
    BY <1>1, <1>3, <1>7 DEF CompleteFails, TypeOK
  <1>8. QED
    BY <1>0, <1>4, <1>5, <1>6, <1>7

\* The reaper's steps keep the types: what it claims it hands to its slots.
LEMMA ReaperType ==
    ASSUME TypeOK, Formed, ReaperStep
    PROVE  TypeOK'
  <1> USE DEF queueVars, budgets
  <1>0. PICK w \in Workers : Scan(w) \/ Reap(w) \/ ReapUnreadable(w) \/ ReapLost(w)
    BY DEF ReaperStep
  <1>1. CASE Scan(w)
    <2>1. PICK j \in Jobs :
            /\ outbox[j] # "none"
            /\ pc' = [pc EXCEPT ![w] = "apply"]
            /\ work' = [work EXCEPT ![w] = [NoWork EXCEPT !.job = j, !.outcome = outbox[j]]]
      BY <1>1 DEF Scan
    <2>2. [NoWork EXCEPT !.job = j, !.outcome = outbox[j]] \in Work
      BY Constants DEF NoWork, Work, TypeOK
    <2>3. work' \in [Threads -> Work] /\ pc' \in [Threads -> Places]
      BY <2>1, <2>2 DEF TypeOK, Places
    <2>4. QED
      BY <1>1, <2>3 DEF Scan, TypeOK
  <1>2. CASE Reap(w)
    <2>1. PICK seat \in [Batch(w) -> Free(w)] :
            /\ pc' = [t \in Threads |-> IF \E i \in Batch(w) : seat[i] = t THEN "outbox" ELSE pc[t]]
            /\ work' = [t \in Threads |->
                         IF \E i \in Batch(w) : seat[i] = t
                         THEN LET i == CHOOSE k \in Batch(w) : seat[k] = t
                              IN  Claimed(i, Bump(entry[i].count))
                         ELSE work[t]]
      BY <1>2 DEF Reap
    <2>2. \A i \in Batch(w) : Claimed(i, Bump(entry[i].count)) \in Work
      <3>1. TAKE i \in Batch(w)
      <3>2. i \in Ids /\ Bump(entry[i].count) \in 0..MaxCount
        BY Constants DEF Batch, Stale, TypeOK, Entry
      <3>3. QED
        BY <3>2, ClaimType
    <2>3. ASSUME NEW t \in Threads PROVE work'[t] \in Work
      <3>1. CASE \E i \in Batch(w) : seat[i] = t
        <4>1. (CHOOSE k \in Batch(w) : seat[k] = t) \in Batch(w)
          BY <3>1
        <4>2. QED
          BY <2>1, <2>2, <3>1, <4>1
      <3>2. CASE ~\E i \in Batch(w) : seat[i] = t
        BY <2>1, <3>2 DEF TypeOK
      <3>3. QED
        BY <3>1, <3>2
    <2>4. work' \in [Threads -> Work]
      BY <2>1, <2>3
    <2>5. pc' \in [Threads -> Places]
      BY <2>1 DEF TypeOK, Places
    <2>6. entry' \in [Ids -> Entry]
      BY <1>2, ClaimBatchType DEF Reap
    <2>7. QED
      BY <1>2, <2>4, <2>5, <2>6 DEF Reap, TypeOK
  <1>3. CASE ReapUnreadable(w)
    BY <1>3, ClaimBatchType DEF ReapUnreadable, TypeOK
  <1>4. CASE ReapLost(w)
    BY <1>4, ClaimBatchType, LimitAssumption DEF ReapLost, Fault, TypeOK
  <1>5. QED
    BY <1>0, <1>1, <1>2, <1>3, <1>4

\* A delivery that goes idle is the same delivery.
LEMMA AgeType ==
    ASSUME TypeOK, NEW i \in Ids, entry' = [entry EXCEPT ![i].idle = TRUE]
    PROVE  /\ entry' \in [Ids -> Entry]
           /\ \A k \in Ids : /\ Live(k)' <=> Live(k)
                             /\ entry'[k].job = entry[k].job
                             /\ entry'[k].attempt = entry[k].attempt
  <1>1. [entry[i] EXCEPT !.idle = TRUE] \in Entry
    BY DEF TypeOK, Entry
  <1>2. QED
    BY <1>1 DEF TypeOK, Live, Entry

\* The type invariant is kept by every step.
LEMMA TypeStep ==
    ASSUME TypeOK, Formed, [Next]_vars
    PROVE  TypeOK'
  <1>1. CASE TimePasses
    BY <1>1, AgeType, LimitAssumption DEF TimePasses, Lapse, Stall, Fault, TypeOK, budgets
  <1>2. CASE \E w \in Workers : Crash(w)
    BY <1>2, Constants, LimitAssumption DEF Crash, TypeOK, Places, queueVars
  <1>3. CASE UNCHANGED vars
    BY <1>3 DEF vars, TypeOK
  <1>4. QED
    BY <1>1, <1>2, <1>3, ProducerType, ConsumerType, TaskType, ReconcileType, ReaperType DEF Next

-----------------------------------------------------------------------------
(* What one step does to the stream and the statuses: nothing a client     *)
(* could tell from Running, or one of three transitions.                   *)

SameEntries ==
    /\ lastId' = lastId
    /\ \A i \in Ids : /\ Live(i)' <=> Live(i)
                      /\ Live(i) => /\ entry'[i].job = entry[i].job
                                    /\ entry'[i].attempt = entry[i].attempt

Keeps ==
    /\ SameEntries
    /\ outbox' = outbox \/ \E t \in Threads : Complete(t)
    /\ dlq' = dlq
    /\ \A j \in Jobs : \/ status'[j] = status[j]
                       \/ Open(j) /\ status'[j] = "running"
    /\ \A j \in Jobs : producer'[j] \in {"idle", "staged"} => producer[j] \in {"idle", "staged"}

Enters(j) ==
    /\ producer[j] = "staged"
    /\ AppendJob(j)
    /\ \E p \in {"accepted", "refused"} : producer' = [producer EXCEPT ![j] = p]

Retries(t) ==
    /\ pc[t] = "retry" /\ Receipt(t)
    /\ Replace(t) /\ ~Exhausted(work[t].attempt)
    /\ producer' = producer

Ends(t, o) ==
    /\ pc[t] \in {"ack", "retry"} /\ Receipt(t)
    /\ Retire(t, o)
    /\ o = "failed" => pc[t] = "retry" /\ Exhausted(work[t].attempt)
    /\ producer' = producer

\* A current receipt is for an entry of the job the thread has in hand, so
\* that job is open.
LEMMA ReceiptOpen ==
    ASSUME TypeOK, Formed, Tracks, OneEntryPerOpenJob,
           NEW t \in Threads, Receipt(t)
    PROVE  /\ work[t].id \in Ids /\ Live(work[t].id) /\ work[t].job \in Jobs
           /\ entry[work[t].id].job = work[t].job
           /\ entry[work[t].id].attempt = work[t].attempt
           /\ Open(work[t].job)
  <1>1. work[t].id \in Ids /\ Live(work[t].id)
    BY DEF Receipt, Live
  <1>2. /\ entry[work[t].id].job = work[t].job
        /\ entry[work[t].id].attempt = work[t].attempt
    BY <1>1 DEF Tracks
  <1>3. work[t].job \in Jobs
    BY <1>1, <1>2 DEF Formed
  <1>4. QED
    BY <1>1, <1>2, <1>3 DEF OneEntryPerOpenJob

\* Every step is one of the four.
LEMMA QueueStep ==
    ASSUME TypeOK, Formed, Tracks, OneEntryPerOpenJob, [Next]_vars
    PROVE  \/ Keeps
           \/ \E j \in Jobs : Enters(j)
           \/ \E t \in Tasks : Retries(t) \/ \E o \in Outcomes : Ends(t, o)
  <1> USE DEF queueVars, budgets
  <1>q. UNCHANGED <<queueVars, producer>> => Keeps
    BY DEF Keeps, SameEntries, Live
  <1>1. ASSUME ProducerStep PROVE Keeps \/ \E j \in Jobs : Enters(j)
    <2>1. PICK j \in Jobs : Stage(j) \/ Enqueue(j) \/ EnqueueFails(j) \/ Discard(j)
      BY <1>1 DEF ProducerStep
    <2>2. CASE Stage(j) \/ Discard(j)
      BY <2>2 DEF Stage, Discard, Keeps, SameEntries, Live, TypeOK
    <2>3. CASE Enqueue(j)
      BY <2>3 DEF Enqueue, Enters
    <2>4. CASE EnqueueFails(j)
      BY <2>4 DEF EnqueueFails, Enters, Keeps, SameEntries, Live, TypeOK
    <2>5. QED
      BY <2>1, <2>2, <2>3, <2>4
  <1>2. ASSUME ConsumerStep PROVE Keeps
    <2>1. PICK c \in Consumers : \/ Read(c) \/ ReadLost(c) \/ ReadUnreadable(c)
                                 \/ Start(c) \/ StartFails(c)
      BY <1>2 DEF ConsumerStep
    <2>2. CASE Read(c) \/ ReadLost(c) \/ ReadUnreadable(c)
      <3>1. PICK i \in Ids : NextNew(i) /\ Delivered(i, c)
        BY <2>2 DEF Read, ReadLost, ReadUnreadable
      <3>2. SameEntries
        BY <2>2, <3>1, DeliveredType, Constants DEF Read, ReadLost, ReadUnreadable, SameEntries
      <3>3. QED
        BY <2>2, <3>2 DEF Read, ReadLost, ReadUnreadable, Keeps
    <2>3. CASE Start(c) \/ StartFails(c)
      <3>1. PublishRunning(c) \/ UNCHANGED status
        BY <2>3 DEF Start, StartFails
      <3>2. ASSUME NEW j \in Jobs
            PROVE  status'[j] = status[j] \/ (Open(j) /\ status'[j] = "running")
        BY <3>1, ReceiptOpen, Constants DEF PublishRunning, FirstDelivery, TypeOK
      <3>3. SameEntries
        BY <2>3 DEF Start, StartFails, SameEntries, Live
      <3>4. QED
        BY <2>3, <3>2, <3>3 DEF Start, StartFails, Keeps
    <2>4. QED
      BY <2>1, <2>2, <2>3
  <1>3. ASSUME NEW t \in Tasks, Handling(t) \/ Hindrance(t)
        PROVE  \/ Keeps
               \/ Retries(t) \/ \E o \in Outcomes : Ends(t, o)
    <2>t. t \in Threads
      BY Constants
    <2>1. CASE Ack(t)
      BY <1>q, <2>1 DEF Ack, Ends, Outcomes
    <2>2. CASE Retry(t)
      BY <1>q, <2>2 DEF Retry, Retries, Ends, Outcomes
    <2>3. CASE Renew(t) \/ Heartbeat(t)
      <3>1. SameEntries
        BY <2>t, <2>3, TouchType DEF Renew, Heartbeat, SameEntries
      <3>2. QED
        BY <2>3, <3>1 DEF Renew, Heartbeat, Keeps
    <2>4. QED
      BY <1>3, <1>q, <2>1, <2>2, <2>3
      DEF Handling, Hindrance, CheckOutbox, ExecuteDone, ExecuteFails, ProbeAnswers, Settle,
          ExecuteHeld, ProbeFails, FinalizeFails, TaskCallFails
  <1>4. ASSUME Reconciling PROVE Keeps
    <2>1. PICK t \in Threads : Apply(t) \/ ApplyFails(t) \/ Complete(t) \/ CompleteFails(t)
      BY <1>4 DEF Reconciling
    <2>2. CASE Complete(t)
      BY <2>2 DEF Complete, Keeps, SameEntries, Live
    <2>3. QED
      BY <1>q, <2>1, <2>2 DEF Apply, ApplyFails, CompleteFails
  <1>5. ASSUME ReaperStep PROVE Keeps
    <2>1. PICK w \in Workers : Scan(w) \/ Reap(w) \/ ReapUnreadable(w) \/ ReapLost(w)
      BY <1>5 DEF ReaperStep
    <2>2. CASE Scan(w)
      BY <1>q, <2>2 DEF Scan
    <2>3. CASE Reap(w) \/ ReapUnreadable(w) \/ ReapLost(w)
      <3>1. SameEntries
        BY <2>3, ClaimBatchType DEF Reap, ReapUnreadable, ReapLost, SameEntries
      <3>2. QED
        BY <2>3, <3>1 DEF Reap, ReapUnreadable, ReapLost, Keeps
    <2>4. QED
      BY <2>1, <2>2, <2>3
  <1>6. ASSUME TimePasses PROVE Keeps
    <2>1. PICK i \in Ids : Lapse(i) \/ Stall(i)
      BY <1>6 DEF TimePasses
    <2>2. SameEntries
      BY <2>1, AgeType DEF Lapse, Stall, SameEntries
    <2>3. QED
      BY <2>1, <2>2 DEF Lapse, Stall, Keeps
  <1>7. CASE (\E w \in Workers : Crash(w)) \/ UNCHANGED vars
    BY <1>7, <1>q DEF Crash, vars
  <1>8. QED
    BY <1>1, <1>2, <1>3, <1>4, <1>5, <1>6, <1>7 DEF Next, TaskStep

(* What one step does to the delivery that a thread holds.                 *)

HoldsStill(t) ==
    /\ pc[t] # "idle" \/ pc'[t] = pc[t]
    /\ work'[t].id = work[t].id /\ work'[t].job = work[t].job
    /\ work'[t].attempt = work[t].attempt

LetsGo(t) == pc'[t] = "idle" /\ work'[t] = NoWork

TakesUp(t) ==
    /\ SameEntries
    /\ \E i \in Ids : /\ Live(i) /\ work'[t].id = i
                      /\ work'[t].job = entry[i].job
                      /\ work'[t].attempt = entry[i].attempt

Recovers(t) == work'[t].id = NoId /\ work'[t].job \in Jobs

\* A thread that moves on, drops what it holds, or looks up the outbox.
LEMMA MoveHolds ==
    ASSUME TypeOK, NEW t \in Threads, NEW place \in Places, pc[t] # "idle",
           GoIdle(t) \/ Goto(t, place) \/ LookUp(t, place),
           NEW q \in Threads
    PROVE  HoldsStill(q) \/ LetsGo(q)
  <1>1. CASE GoIdle(t)
    BY <1>1 DEF GoIdle, HoldsStill, LetsGo, TypeOK
  <1>2. CASE Goto(t, place)
    BY <1>2 DEF Goto, HoldsStill, TypeOK
  <1>3. CASE work' = [work EXCEPT ![t].outcome = outbox[work[t].job]]
             /\ pc' = [pc EXCEPT ![t] = "apply"]
    BY <1>3 DEF HoldsStill, TypeOK, Work
  <1>4. QED
    BY <1>1, <1>2, <1>3 DEF LookUp, Goto, HoldsStill, TypeOK

\* Every thread keeps its delivery, lets go of it, takes up a live one, or
\* recovers an outbox record.
LEMMA WorkStep ==
    ASSUME TypeOK, Formed, [Next]_vars, NEW q \in Threads
    PROVE  HoldsStill(q) \/ LetsGo(q) \/ TakesUp(q) \/ Recovers(q)
  <1> USE DEF queueVars, budgets
  <1>u. UNCHANGED <<pc, work>> => HoldsStill(q)
    BY DEF HoldsStill
  <1>p. {"idle", "outbox", "renew", "execute", "probe", "ack", "retry", "settle", "complete"} \subseteq Places
    BY DEF Places
  <1>1. CASE ProducerStep \/ TimePasses \/ UNCHANGED vars
    BY <1>u, <1>1 DEF ProducerStep, Stage, Enqueue, EnqueueFails, Discard, TimePasses, Lapse, Stall, vars
  <1>2. CASE ConsumerStep
    <2>1. PICK c \in Consumers : \/ Read(c) \/ ReadLost(c) \/ ReadUnreadable(c)
                                 \/ Start(c) \/ StartFails(c)
      BY <1>2 DEF ConsumerStep
    <2>2. CASE Read(c)
      <3>1. PICK i \in Ids : /\ NextNew(i) /\ Delivered(i, c) /\ lastId' = lastId
                             /\ pc' = [pc EXCEPT ![c] = "start"]
                             /\ work' = [work EXCEPT ![c] = Claimed(i, 1)]
        BY <2>2 DEF Read
      <3>2. SameEntries /\ Live(i)
        BY <3>1, DeliveredType, Constants DEF SameEntries, NextNew, Live
      <3>3. CASE q = c
        BY <3>1, <3>2, <3>3, ClaimType, Constants DEF TakesUp, TypeOK
      <3>4. CASE q # c
        BY <3>1, <3>4 DEF HoldsStill, TypeOK
      <3>5. QED
        BY <3>3, <3>4
    <2>3. CASE Start(c) \/ StartFails(c)
      BY <2>3, <1>p, MoveHolds, Constants DEF Start, StartFails
    <2>4. QED
      BY <1>u, <2>1, <2>2, <2>3 DEF ReadLost, ReadUnreadable
  <1>3. CASE TaskStep
    <2>1. PICK t \in Tasks : Handling(t) \/ Hindrance(t)
      BY <1>3 DEF TaskStep
    <2>2. t \in Threads
      BY Constants
    <2>3. CASE Heartbeat(t)
      BY <1>u, <2>3 DEF Heartbeat
    <2>4. CASE ~Heartbeat(t)
      <3>1. PICK place \in Places : pc[t] # "idle" /\ (GoIdle(t) \/ Goto(t, place) \/ LookUp(t, place))
        BY <1>p, <2>1, <2>4
        DEF Handling, Hindrance, CheckOutbox, Renew, ExecuteDone, ExecuteFails, ProbeAnswers,
            Ack, Retry, Settle, ExecuteHeld, ProbeFails, FinalizeFails, TaskCallFails
      <3>2. QED
        BY <2>2, <3>1, MoveHolds
    <2>5. QED
      BY <2>3, <2>4
  <1>4. CASE Reconciling
    <2>1. PICK t \in Threads : Apply(t) \/ ApplyFails(t) \/ Complete(t) \/ CompleteFails(t)
      BY <1>4 DEF Reconciling
    <2>2. pc[t] # "idle" /\ (GoIdle(t) \/ Goto(t, "complete"))
      BY <2>1 DEF Apply, ApplyFails, Complete, CompleteFails
    <2>3. QED
      BY <1>p, <2>2, MoveHolds
  <1>5. CASE ReaperStep
    <2>1. PICK w \in Workers : Scan(w) \/ Reap(w) \/ ReapUnreadable(w) \/ ReapLost(w)
      BY <1>5 DEF ReaperStep
    <2>2. CASE Scan(w)
      <3>1. PICK j \in Jobs :
              /\ pc' = [pc EXCEPT ![w] = "apply"]
              /\ work' = [work EXCEPT ![w] = [NoWork EXCEPT !.job = j, !.outcome = outbox[j]]]
        BY <2>2 DEF Scan
      <3>2. QED
        BY <3>1 DEF Recovers, HoldsStill, NoWork, TypeOK
    <2>3. CASE Reap(w)
      <3>1. PICK seat \in [Batch(w) -> Free(w)] :
            /\ pc' = [t \in Threads |-> IF \E i \in Batch(w) : seat[i] = t THEN "outbox" ELSE pc[t]]
            /\ work' = [t \in Threads |->
                         IF \E i \in Batch(w) : seat[i] = t
                         THEN LET i == CHOOSE k \in Batch(w) : seat[k] = t
                              IN  Claimed(i, Bump(entry[i].count))
                         ELSE work[t]]
        BY <2>3 DEF Reap
      <3>2. CASE \E i \in Batch(w) : seat[i] = q
        <4>1. PICK i \in Batch(w) : work'[q] = Claimed(i, Bump(entry[i].count))
          BY <3>1, <3>2
        <4>2. i \in Ids /\ Live(i) /\ Bump(entry[i].count) \in 0..MaxCount
          BY Constants DEF Batch, Stale, Live, TypeOK, Entry
        <4>3. SameEntries
          BY <2>3, ClaimBatchType DEF Reap, SameEntries
        <4>4. QED
          BY <4>1, <4>2, <4>3, ClaimType DEF TakesUp
      <3>3. CASE ~\E i \in Batch(w) : seat[i] = q
        BY <3>1, <3>3 DEF HoldsStill
      <3>4. QED
        BY <3>2, <3>3
    <2>4. QED
      BY <1>u, <2>1, <2>2, <2>3 DEF ReapUnreadable, ReapLost
  <1>6. CASE \E w \in Workers : Crash(w)
    BY <1>6 DEF Crash, HoldsStill, LetsGo
  <1>7. QED
    BY <1>1, <1>2, <1>3, <1>4, <1>5, <1>6 DEF Next

\* The stream after each kind of step: what is live, and which job it is of.
LEMMA EntriesAfter ==
    ASSUME TypeOK, Formed, Tracks, OneEntryPerOpenJob, [Next]_vars
    PROVE  /\ lastId' >= lastId
           /\ \A i \in Ids : Live(i)' =>
                \/ /\ Live(i) /\ entry'[i].job = entry[i].job
                   /\ entry'[i].attempt = entry[i].attempt
                \/ i = lastId + 1 /\ lastId' = lastId + 1 /\ entry'[i].job \in Jobs
  <1>1. CASE Keeps
    BY <1>1, Constants DEF Keeps, SameEntries, TypeOK
  <1>2. ASSUME NEW j \in Jobs, Enters(j) PROVE
           /\ lastId' = lastId + 1
           /\ \A i \in Ids : i # lastId + 1 => entry'[i] = entry[i]
           /\ \A i \in Ids : i = lastId + 1 => entry'[i].job \in Jobs
    BY <1>2, EnvelopeType, Constants DEF Enters, AppendJob, TypeOK
  <1>3. ASSUME NEW t \in Threads, Retries(t) PROVE
           /\ lastId' = lastId + 1
           /\ \A i \in Ids : Live(i)' /\ i # lastId + 1 => entry'[i] = entry[i]
           /\ \A i \in Ids : i = lastId + 1 => entry'[i].job \in Jobs
    <2>1. work[t].job \in Jobs /\ work[t].attempt + 1 \in Attempts /\ work[t].id \in Ids
      BY <1>3, ReceiptOpen, LimitAssumption DEF Retries, Exhausted, Attempts, TypeOK, Work
    <2> DEFINE next == Envelope(work[t].job, work[t].attempt + 1)
    <2>2. next.job \in Jobs
      BY <2>1, EnvelopeType
    <2>3. entry' = [entry EXCEPT ![work[t].id] = NoEntry, ![lastId + 1] = next]
          /\ lastId' = lastId + 1
      BY <1>3 DEF Retries, Replace
    <2> HIDE DEF next
    <2>4. NoEntry.state = "none"
      BY DEF NoEntry
    <2>5. QED
      BY <2>1, <2>2, <2>3, <2>4 DEF Live, TypeOK
  <1>4. ASSUME NEW t \in Threads, NEW o \in Outcomes, Ends(t, o) PROVE
           /\ lastId' = lastId
           /\ \A i \in Ids : Live(i)' => entry'[i] = entry[i]
    BY <1>4 DEF Ends, Retire, Live, NoEntry, TypeOK
  <1>5. QED
    BY <1>1, <1>2, <1>3, <1>4, QueueStep, Constants DEF Live, TypeOK

\* Entries and deliveries stay well formed.
LEMMA FormedStep ==
    ASSUME TypeOK, Formed, Tracks, OneEntryPerOpenJob, [Next]_vars
    PROVE  Formed'
  <1>0. lastId \in Nat /\ lastId' \in Nat /\ lastId' >= lastId
    <2>1. TypeOK'
      BY TypeStep
    <2>2. lastId \in 0..MaxId /\ lastId' \in 0..MaxId
      BY <2>1 DEF TypeOK
    <2>3. QED
      BY <2>2, EntriesAfter, MaxIdNat
  <1>1. ASSUME NEW i \in Ids, Live(i)'
        PROVE  entry'[i].job \in Jobs /\ i <= lastId'
    <2>1. \/ Live(i) /\ entry'[i].job = entry[i].job
          \/ i = lastId + 1 /\ lastId' = lastId + 1 /\ entry'[i].job \in Jobs
      BY <1>1, EntriesAfter
    <2>2. i \in Nat
      BY MaxIdNat DEF Ids
    <2>3. QED
      BY <1>0, <2>1, <2>2 DEF Formed
  <1>2. ASSUME NEW t \in Threads
        PROVE  work'[t].id <= lastId' /\ (pc'[t] # "idle" => work'[t].job \in Jobs)
    <2>1. CASE HoldsStill(t)
      <3>1. work[t].id \in Nat
        BY MaxIdNat DEF TypeOK, Work, Ids, NoId
      <3>2. QED
        BY <1>0, <2>1, <3>1 DEF HoldsStill, Formed
    <2>2. CASE LetsGo(t)
      BY <1>0, <2>2 DEF LetsGo, NoWork, NoId
    <2>3. CASE Recovers(t)
      BY <1>0, <2>3 DEF Recovers, NoId
    <2>4. CASE TakesUp(t)
      BY <1>0, <2>4 DEF TakesUp, SameEntries, Formed
    <2>5. QED
      BY <2>1, <2>2, <2>3, <2>4, WorkStep
  <1>3. QED
    BY <1>1, <1>2 DEF Formed

\* What threads know of their deliveries stays true.
LEMMA TracksStep ==
    ASSUME TypeOK, Formed, Tracks, OneEntryPerOpenJob, [Next]_vars
    PROVE  Tracks'
  <1>1. ASSUME NEW t \in Threads, NEW i \in Ids, work'[t].id = i, Live(i)'
        PROVE  entry'[i].job = work'[t].job /\ entry'[i].attempt = work'[t].attempt
    <2>1. CASE HoldsStill(t)
      <3>1. i <= lastId /\ lastId \in Nat /\ i \in Nat
        BY <1>1, <2>1, MaxIdNat DEF HoldsStill, Formed, TypeOK, Ids
      <3>2. Live(i) /\ entry'[i].job = entry[i].job /\ entry'[i].attempt = entry[i].attempt
        BY <1>1, <3>1, EntriesAfter
      <3>3. QED
        BY <1>1, <2>1, <3>2 DEF HoldsStill, Tracks
    <2>2. CASE LetsGo(t) \/ Recovers(t)
      BY <1>1, <2>2, MaxIdNat DEF LetsGo, Recovers, NoWork, NoId, Ids
    <2>3. CASE TakesUp(t)
      BY <1>1, <2>3 DEF TakesUp, SameEntries
    <2>4. QED
      BY <2>1, <2>2, <2>3, WorkStep
  <1>2. QED
    BY <1>1 DEF Tracks

-----------------------------------------------------------------------------
\* Statuses after each kind of step.
LEMMA StatusAfter ==
    ASSUME TypeOK, Formed, Tracks, OneEntryPerOpenJob, NotYetQueued, [Next]_vars,
           NEW j \in Jobs
    PROVE  /\ Terminal(j) => status'[j] = status[j]
           /\ status'[j] # "none" /\ status[j] = "none" => producer'[j] \in {"accepted", "refused"}
           /\ producer'[j] \in {"idle", "staged"} => producer[j] \in {"idle", "staged"}
  <1> USE DEF Terminal, Open, Outcomes
  <1>1. CASE Keeps
    BY <1>1 DEF Keeps
  <1>2. ASSUME NEW k \in Jobs, Enters(k)
        PROVE  /\ k # j => status'[j] = status[j] /\ producer'[j] = producer[j]
               /\ k = j => status[j] = "none" /\ producer'[j] \in {"accepted", "refused"}
    BY <1>2 DEF Enters, AppendJob, NotYetQueued, TypeOK
  <1>3. ASSUME NEW t \in Threads, Retries(t) \/ \E o \in Outcomes : Ends(t, o)
        PROVE  /\ producer' = producer
               /\ Terminal(j) \/ status[j] = "none" => status'[j] = status[j]
    <2>1. work[t].job \in Jobs /\ Open(work[t].job)
      BY <1>3, ReceiptOpen DEF Retries, Ends
    <2>2. \E s \in {"pending", "succeeded", "failed"} : status' = [status EXCEPT ![work[t].job] = s]
      BY <1>3 DEF Retries, Replace, Ends, Retire
    <2>3. QED
      BY <1>3, <2>1, <2>2 DEF Retries, Ends, TypeOK
  <1>4. QED
    BY <1>1, <1>2, <1>3, QueueStep, Constants DEF TypeOK

\* A job whose request has not reached the queue has no status.
LEMMA NotYetQueuedStep ==
    ASSUME TypeOK, Formed, Tracks, OneEntryPerOpenJob, NotYetQueued, [Next]_vars
    PROVE  NotYetQueued'
  BY StatusAfter DEF NotYetQueued

\* One entry per open job, without the set.
OneEntry ==
    /\ \A j \in Jobs : Open(j) <=> \E i \in Ids : Live(i) /\ entry[i].job = j
    /\ \A i, k \in Ids : (/\ Live(i) /\ Live(k)
                          /\ entry[i].job \in Jobs /\ entry[i].job = entry[k].job) => i = k

LEMMA OneEntryMeans == OneEntryPerOpenJob <=> OneEntry
  BY DEF OneEntryPerOpenJob, OneEntry

\* Status and entry move together.
LEMMA OneEntryStep ==
    ASSUME TypeOK, Formed, Tracks, OneEntryPerOpenJob, NotYetQueued, [Next]_vars
    PROVE  OneEntry'
  <1>0. OneEntry
    BY OneEntryMeans
  <1>1. CASE Keeps
    <2>1. \A j \in Jobs : Open(j)' <=> Open(j)
      BY <1>1 DEF Keeps, Open
    <2>2. \A i \in Ids : (Live(i)' <=> Live(i)) /\ (Live(i) => entry'[i].job = entry[i].job)
      BY <1>1 DEF Keeps, SameEntries
    <2>3. QED
      BY <1>0, <2>1, <2>2 DEF OneEntry
  <1>2. ASSUME NEW j \in Jobs, Enters(j) PROVE OneEntry'
    <2> DEFINE n == lastId + 1
    <2>1. n \in Ids /\ ~Live(n) /\ \A i \in Ids : Live(i) => i # n
      BY <1>2, MaxIdNat DEF Enters, AppendJob, Formed, TypeOK, Ids
    <2>2. /\ \A i \in Ids : i # n => entry'[i] = entry[i]
          /\ entry'[n].state = "new" /\ entry'[n].job = j
      <3>1. entry' = [entry EXCEPT ![n] = Envelope(j, 0)]
        BY <1>2 DEF Enters, AppendJob
      <3>2. QED
        BY <2>1, <3>1, EnvelopeType, Constants DEF TypeOK
    <2>3. ~Open(j)
      BY <1>2 DEF Enters, NotYetQueued, Open
    <2>4. \A k \in Jobs : Open(k)' <=> (Open(k) \/ k = j)
      BY <1>2 DEF Enters, AppendJob, Open, TypeOK
    <2>5. \A i \in Ids : /\ Live(i)' <=> (Live(i) \/ i = n)
                         /\ i # n => entry'[i].job = entry[i].job
      BY <2>1, <2>2 DEF Live
    <2> HIDE DEF n
    <2>6. QED
      BY <1>0, <2>1, <2>2, <2>3, <2>4, <2>5 DEF OneEntry
  <1>3. ASSUME NEW t \in Threads, Retries(t) PROVE OneEntry'
    <2> DEFINE n == lastId + 1
               d == work[t].id
               j == work[t].job
    <2>1. n \in Ids /\ ~Live(n) /\ \A i \in Ids : Live(i) => i # n
      BY <1>3, MaxIdNat DEF Retries, Replace, Formed, TypeOK, Ids
    <2>2. d \in Ids /\ Live(d) /\ j \in Jobs /\ entry[d].job = j /\ Open(j)
      BY <1>3, ReceiptOpen DEF Retries
    <2>3. work[t].attempt + 1 \in Attempts
      BY <1>3, LimitAssumption DEF Retries, Exhausted, Attempts, TypeOK, Work
    <2> DEFINE next == Envelope(j, work[t].attempt + 1)
    <2>4. next.state = "new" /\ next.job = j /\ NoEntry.state = "none"
      BY <2>2, <2>3, EnvelopeType DEF NoEntry
    <2>5. entry' = [entry EXCEPT ![d] = NoEntry, ![n] = next]
      BY <1>3 DEF Retries, Replace
    <2>6. \A k \in Jobs : Open(k)' <=> Open(k)
      BY <1>3, <2>2 DEF Retries, Replace, Open, TypeOK
    <2> HIDE DEF next, n, d, j
    <2>7. /\ \A i \in Ids : i # n /\ i # d => entry'[i] = entry[i]
          /\ entry'[n] = next /\ entry'[d] = NoEntry
      BY <2>1, <2>2, <2>5 DEF TypeOK
    <2>8. \A i \in Ids : /\ Live(i)' <=> ((Live(i) /\ i # d) \/ i = n)
                         /\ i # n /\ i # d => entry'[i].job = entry[i].job
      BY <2>1, <2>2, <2>4, <2>7 DEF Live
    <2>9. entry'[n].job = j
      BY <2>4, <2>7
    <2>10. QED
      BY <1>0, <2>1, <2>2, <2>6, <2>8, <2>9 DEF OneEntry
  <1>4. ASSUME NEW t \in Threads, NEW o \in Outcomes, Ends(t, o) PROVE OneEntry'
    <2> DEFINE d == work[t].id
               j == work[t].job
    <2>1. d \in Ids /\ Live(d) /\ j \in Jobs /\ entry[d].job = j
      BY <1>4, ReceiptOpen DEF Ends
    <2>2. entry' = [entry EXCEPT ![d] = NoEntry] /\ status' = [status EXCEPT ![j] = o]
      BY <1>4 DEF Ends, Retire
    <2>3. \A k \in Jobs : Open(k)' <=> (Open(k) /\ k # j)
      BY <2>1, <2>2 DEF Open, Outcomes, TypeOK
    <2> HIDE DEF d, j
    <2>4. \A i \in Ids : /\ Live(i)' <=> (Live(i) /\ i # d)
                         /\ i # d => entry'[i].job = entry[i].job
      BY <2>1, <2>2 DEF Live, NoEntry, TypeOK
    <2>5. QED
      BY <1>0, <2>1, <2>3, <2>4 DEF OneEntry
  <1>5. QED
    BY <1>1, <1>2, <1>3, <1>4, QueueStep, Constants

-----------------------------------------------------------------------------
(* Applying an outcome, whether the caller hears of it or not.             *)
Applies(t) ==
    /\ pc[t] = "apply"
    /\ UNCHANGED <<status, outbox, entry>>
    /\ effect' \in {effect, IF effect[work[t].job] = "none"
                            THEN [effect EXCEPT ![work[t].job] = work[t].outcome]
                            ELSE effect}

\* Who writes the outbox and the effects.
LEMMA OutboxStep ==
    ASSUME TypeOK, Formed, Tracks, OneEntryPerOpenJob, [Next]_vars
    PROVE  \/ UNCHANGED <<outbox, effect>>
           \/ \E t \in Tasks, o \in Outcomes : Ends(t, o) /\ effect' = effect
           \/ \E t \in Threads : Complete(t)
           \/ \E t \in Threads : Applies(t)
  <1> USE DEF queueVars, budgets
  <1>1. CASE ProducerStep
    BY <1>1 DEF ProducerStep, Stage, Enqueue, EnqueueFails, Discard, AppendJob
  <1>2. CASE ConsumerStep
    BY <1>2 DEF ConsumerStep, Read, ReadLost, ReadUnreadable, Start, StartFails
  <1>3. ASSUME NEW t \in Tasks, Handling(t) \/ Hindrance(t)
        PROVE  \/ UNCHANGED <<outbox, effect>>
               \/ \E o \in Outcomes : Ends(t, o) /\ effect' = effect
    <2>1. CASE Ack(t)
      BY <2>1 DEF Ack, Ends, Outcomes
    <2>2. CASE Retry(t)
      BY <2>2 DEF Retry, Replace, Ends, Outcomes
    <2>3. QED
      BY <1>3, <2>1, <2>2
      DEF Handling, Hindrance, CheckOutbox, Renew, Heartbeat, ExecuteDone, ExecuteFails, ProbeAnswers,
          Settle, ExecuteHeld, ProbeFails, FinalizeFails, TaskCallFails
  <1>4. CASE Reconciling
    <2>1. PICK t \in Threads : Apply(t) \/ ApplyFails(t) \/ Complete(t) \/ CompleteFails(t)
      BY <1>4 DEF Reconciling
    <2>2. CASE Apply(t) \/ ApplyFails(t)
      BY <2>2 DEF Apply, ApplyFails, Applies
    <2>3. QED
      BY <2>1, <2>2 DEF CompleteFails
  <1>5. CASE ReaperStep \/ TimePasses \/ (\E w \in Workers : Crash(w)) \/ UNCHANGED vars
    BY <1>5 DEF ReaperStep, Scan, Reap, ReapUnreadable, ReapLost, TimePasses, Lapse, Stall, Crash, vars
  <1>6. QED
    BY <1>1, <1>2, <1>3, <1>4, <1>5 DEF Next, TaskStep

\* How a thread comes to apply an outcome, and to remove its record.
LEMMA ReconcilingStep ==
    ASSUME TypeOK, Formed, [Next]_vars, NEW q \in Threads
    PROVE  /\ pc'[q] = "apply" =>
                \/ pc[q] = "apply" /\ work'[q] = work[q]
                \/ /\ work'[q].job \in Jobs /\ outbox[work'[q].job] # "none"
                   /\ work'[q].outcome = outbox[work'[q].job]
           /\ pc'[q] = "complete" =>
                /\ work'[q] = work[q]
                /\ pc[q] = "complete" \/ Apply(q)
  <1> USE DEF queueVars, budgets
  <1> DEFINE Same == pc'[q] = pc[q] /\ work'[q] = work[q]
             Away == pc'[q] \notin {"apply", "complete"}
             Found == /\ pc'[q] = "apply"
                      /\ work'[q].job \in Jobs /\ outbox[work'[q].job] # "none"
                      /\ work'[q].outcome = outbox[work'[q].job]
             Applied == Apply(q) /\ pc'[q] = "complete" /\ work'[q] = work[q]
  <1>1. SUFFICES Same \/ Away \/ Found \/ Applied
    OBVIOUS
  <1>2. ASSUME NEW t \in Threads, GoIdle(t) PROVE Same \/ Away
    BY <1>2 DEF GoIdle, TypeOK
  <1>3. ASSUME NEW t \in Threads, NEW place \in Places \ {"apply", "complete"}, Goto(t, place)
        PROVE  Same \/ Away
    BY <1>3 DEF Goto, TypeOK
  <1>4. ASSUME NEW t \in Threads, NEW place \in Places \ {"apply", "complete"},
               pc[t] # "idle", LookUp(t, place)
        PROVE  Same \/ Away \/ Found
    <2>1. work[t].job \in Jobs
      BY <1>4 DEF Formed
    <2>2. CASE outbox[work[t].job] # "none"
      <3>1. /\ pc' = [pc EXCEPT ![t] = "apply"]
            /\ work' = [work EXCEPT ![t].outcome = outbox[work[t].job]]
        BY <1>4, <2>2 DEF LookUp
      <3>2. CASE q = t
        BY <2>1, <2>2, <3>1, <3>2 DEF TypeOK, Work
      <3>3. CASE q # t
        BY <3>1, <3>3 DEF TypeOK
      <3>4. QED
        BY <3>2, <3>3
    <2>3. CASE outbox[work[t].job] = "none"
      BY <1>2, <1>3, <1>4, <2>3 DEF LookUp
    <2>4. QED
      BY <2>2, <2>3
  <1>p. {"idle", "outbox", "renew", "execute", "probe", "ack", "retry", "settle"}
            \subseteq Places \ {"apply", "complete"}
    BY DEF Places
  <1>5. CASE ProducerStep \/ TimePasses \/ UNCHANGED vars
    BY <1>5 DEF ProducerStep, Stage, Enqueue, EnqueueFails, Discard, TimePasses, Lapse, Stall, vars
  <1>6. CASE ConsumerStep
    <2>1. PICK c \in Consumers : \/ Read(c) \/ ReadLost(c) \/ ReadUnreadable(c)
                                 \/ Start(c) \/ StartFails(c)
      BY <1>6 DEF ConsumerStep
    <2>2. CASE Read(c)
      BY <2>2 DEF Read, TypeOK
    <2>3. CASE Start(c) \/ StartFails(c)
      BY <1>2, <1>3, <1>p, <2>3, Constants DEF Start, StartFails
    <2>4. QED
      BY <2>1, <2>2, <2>3 DEF ReadLost, ReadUnreadable
  <1>7. CASE TaskStep
    <2>1. PICK t \in Tasks : Handling(t) \/ Hindrance(t)
      BY <1>7 DEF TaskStep
    <2>2. t \in Threads
      BY Constants
    <2>3. CASE Heartbeat(t)
      BY <2>3 DEF Heartbeat
    <2>4. CASE ~Heartbeat(t)
      <3>1. PICK place \in Places \ {"apply", "complete"} :
                pc[t] # "idle" /\ (GoIdle(t) \/ Goto(t, place) \/ LookUp(t, place))
        BY <1>p, <2>1, <2>4
        DEF Handling, Hindrance, CheckOutbox, Renew, ExecuteDone, ExecuteFails, ProbeAnswers,
            Ack, Retry, Settle, ExecuteHeld, ProbeFails, FinalizeFails, TaskCallFails
      <3>2. QED
        BY <1>2, <1>3, <1>4, <2>2, <3>1
    <2>5. QED
      BY <2>3, <2>4
  <1>8. CASE Reconciling
    <2>1. PICK t \in Threads : Apply(t) \/ ApplyFails(t) \/ Complete(t) \/ CompleteFails(t)
      BY <1>8 DEF Reconciling
    <2>2. CASE Apply(t)
      BY <2>2 DEF Apply, Goto, TypeOK
    <2>3. CASE ApplyFails(t) \/ Complete(t) \/ CompleteFails(t)
      BY <1>2, <2>3 DEF ApplyFails, Complete, CompleteFails
    <2>4. QED
      BY <2>1, <2>2, <2>3
  <1>9. CASE ReaperStep
    <2>1. PICK w \in Workers : Scan(w) \/ Reap(w) \/ ReapUnreadable(w) \/ ReapLost(w)
      BY <1>9 DEF ReaperStep
    <2>2. CASE Scan(w)
      BY <2>2 DEF Scan, NoWork, TypeOK
    <2>3. CASE Reap(w)
      BY <2>3 DEF Reap
    <2>4. QED
      BY <2>1, <2>2, <2>3 DEF ReapUnreadable, ReapLost
  <1>10. CASE \E w \in Workers : Crash(w)
    BY <1>10 DEF Crash
  <1>11. QED
    BY <1>5, <1>6, <1>7, <1>8, <1>9, <1>10 DEF Next

\* The outbox and the effects follow the committed outcome.
LEMMA EffectStep ==
    ASSUME QueueInv, [Next]_vars
    PROVE  EffectOwedOrDone'
  <1> USE DEF QueueInv
  <1>1. SUFFICES ASSUME NEW j \in Jobs
                 PROVE  /\ Terminal(j)' => status'[j] \in {outbox'[j], effect'[j]}
                        /\ outbox'[j] \in {"none", status'[j]}
                        /\ effect'[j] \in {"none", status'[j]}
    BY DEF EffectOwedOrDone
  <1>2. /\ Terminal(j) => status'[j] = status[j]
        /\ ~Terminal(j) => outbox[j] = "none" /\ effect[j] = "none"
        /\ Terminal(j) => status[j] \in {outbox[j], effect[j]}
        /\ outbox[j] \in {"none", status[j]} /\ effect[j] \in {"none", status[j]}
    BY StatusAfter DEF EffectOwedOrDone, Terminal, TypeOK
  <1>3. CASE UNCHANGED <<outbox, effect>>
    <2>1. ~Terminal(j) => ~Terminal(j)'
      <3>1. CASE Keeps \/ \E k \in Jobs : Enters(k)
        BY <3>1 DEF Keeps, Enters, AppendJob, Terminal, Outcomes, TypeOK
      <3>2. CASE \E t \in Tasks : Retries(t)
        BY <3>2 DEF Retries, Replace, Terminal, Outcomes, TypeOK
      <3>3. ASSUME NEW t \in Tasks, NEW o \in Outcomes, Ends(t, o), ~Terminal(j)
            PROVE  ~Terminal(j)'
        <4>1. work[t].job # j
          BY <1>2, <1>3, <3>3 DEF Ends, Retire, Outcomes, TypeOK
        <4>2. QED
          BY <3>3, <4>1 DEF Ends, Retire, Terminal, TypeOK
      <3>4. QED
        BY <3>1, <3>2, <3>3, QueueStep
    <2>2. QED
      BY <1>2, <1>3, <2>1
  <1>4. ASSUME NEW t \in Tasks, NEW o \in Outcomes, Ends(t, o), effect' = effect
        PROVE  /\ Terminal(j)' => status'[j] \in {outbox'[j], effect'[j]}
               /\ outbox'[j] \in {"none", status'[j]}
               /\ effect'[j] \in {"none", status'[j]}
    <2>1. status' = [status EXCEPT ![work[t].job] = o] /\ outbox' = [outbox EXCEPT ![work[t].job] = o]
      BY <1>4 DEF Ends, Retire
    <2>2. ~Terminal(work[t].job)
      BY <1>4, ReceiptOpen, Constants DEF Ends, Open, Terminal, Outcomes
    <2>3. CASE work[t].job = j
      BY <1>2, <1>4, <2>1, <2>2, <2>3 DEF TypeOK
    <2>4. CASE work[t].job # j
      BY <1>2, <1>4, <2>1, <2>4 DEF Terminal, TypeOK
    <2>5. QED
      BY <2>3, <2>4
  <1>5. ASSUME NEW t \in Threads, Complete(t)
        PROVE  /\ Terminal(j)' => status'[j] \in {outbox'[j], effect'[j]}
               /\ outbox'[j] \in {"none", status'[j]}
               /\ effect'[j] \in {"none", status'[j]}
    BY <1>2, <1>5 DEF Complete, Committed, Terminal, TypeOK
  <1>6. ASSUME NEW t \in Threads, Applies(t)
        PROVE  /\ Terminal(j)' => status'[j] \in {outbox'[j], effect'[j]}
               /\ outbox'[j] \in {"none", status'[j]}
               /\ effect'[j] \in {"none", status'[j]}
    <2>1. work[t].outcome = status[work[t].job]
      BY <1>6 DEF Applies, Committed
    <2>2. QED
      BY <1>2, <1>6, <2>1 DEF Applies, Terminal, TypeOK
  <1>7. QED
    BY <1>3, <1>4, <1>5, <1>6, OutboxStep

\* Threads apply committed outcomes only, and remove applied ones only.
LEMMA CommittedStep ==
    ASSUME QueueInv, [Next]_vars
    PROVE  Committed'
  <1> USE DEF QueueInv
  <1>1. ASSUME NEW j \in Jobs, Terminal(j)
        PROVE  status'[j] = status[j] /\ Terminal(j)'
    BY <1>1, StatusAfter DEF Terminal
  <1>2. ASSUME NEW j \in Jobs, effect[j] # "none"
        PROVE  effect'[j] = effect[j]
    BY <1>2, OutboxStep DEF Complete, Applies, TypeOK
  <1>3. ASSUME NEW t \in Threads, pc'[t] = "apply"
        PROVE  Terminal(work[t].job)' /\ work'[t].outcome = status'[work'[t].job]
    <2>1. CASE pc[t] = "apply" /\ work'[t] = work[t]
      <3>1. work[t].job \in Jobs /\ Terminal(work[t].job) /\ work[t].outcome = status[work[t].job]
        BY <2>1 DEF Formed, Committed
      <3>2. QED
        BY <1>1, <2>1, <3>1 DEF Terminal
    <2>2. CASE work'[t].job \in Jobs /\ outbox[work'[t].job] # "none"
               /\ work'[t].outcome = outbox[work'[t].job]
      <3>1. outbox[work'[t].job] = status[work'[t].job] /\ status[work'[t].job] \in Outcomes
        BY <2>2 DEF EffectOwedOrDone, TypeOK
      <3>2. QED
        BY <1>1, <2>2, <3>1 DEF Terminal
    <2>3. QED
      BY <1>3, <2>1, <2>2, ReconcilingStep
  <1>4. ASSUME NEW t \in Threads, pc'[t] = "complete"
        PROVE  Terminal(work[t].job)' /\ effect'[work'[t].job] = status'[work'[t].job]
    <2>1. work'[t] = work[t] /\ (pc[t] = "complete" \/ Apply(t))
      BY <1>4, ReconcilingStep
    <2>2. work[t].job \in Jobs /\ Terminal(work[t].job) /\ status'[work[t].job] = status[work[t].job]
      BY <1>1, <2>1 DEF Formed, Committed, Apply
    <2>3. CASE pc[t] = "complete"
      BY <1>2, <2>1, <2>2, <2>3 DEF Committed, Terminal, Outcomes
    <2>4. CASE Apply(t)
      BY <2>1, <2>2, <2>4 DEF Apply, Committed, EffectOwedOrDone, Terminal, TypeOK
    <2>5. QED
      BY <2>1, <2>3, <2>4
  <1>5. QED
    BY <1>3, <1>4 DEF Committed, Terminal

-----------------------------------------------------------------------------
LEMMA InitInv == Init => QueueInv
  <1>1. SUFFICES ASSUME Init PROVE QueueInv
    OBVIOUS
  <1>2. TypeOK
    BY <1>1, Constants, LimitAssumption DEF Init, TypeOK, Places
  <1>3. Formed /\ Tracks /\ NotYetQueued /\ Committed /\ EffectOwedOrDone
    BY <1>1, MaxIdNat DEF Init, Formed, Tracks, NotYetQueued, Committed, EffectOwedOrDone,
        Live, NoEntry, NoWork, NoId, Ids, Terminal, Outcomes
  <1>4. OneEntry
    BY <1>1 DEF Init, OneEntry, Open, Live, NoEntry
  <1>5. QED
    BY <1>2, <1>3, <1>4, OneEntryMeans DEF QueueInv

LEMMA InvStep == QueueInv /\ [Next]_vars => QueueInv'
  <1>1. SUFFICES ASSUME QueueInv, [Next]_vars PROVE QueueInv'
    OBVIOUS
  <1>2. TypeOK' /\ Formed' /\ Tracks' /\ NotYetQueued' /\ EffectOwedOrDone' /\ Committed'
    BY <1>1, TypeStep, FormedStep, TracksStep, NotYetQueuedStep, EffectStep, CommittedStep DEF QueueInv
  <1>3. OneEntryPerOpenJob'
    <2>1. OneEntry'
      BY <1>1, OneEntryStep DEF QueueInv
    <2>2. QED
      BY <2>1 DEF OneEntry, OneEntryPerOpenJob
  <1>4. QED
    BY <1>2, <1>3 DEF QueueInv

\* The inductive invariant holds in every reachable state: whatever is lost,
\* repeated, reclaimed or restarted, stream, statuses, outbox and receipts
\* agree (the scripts of lib.rs and execute_and_finalize).
THEOREM QueueInvariance == Spec => []QueueInv
  <1>1. QED
    BY InitInv, InvStep, PTL DEF Spec

\* A job has exactly one entry in the stream while its status is Pending or
\* Running, and none afterwards.
THEOREM OneEntryAlways == Spec => []OneEntryPerOpenJob
  <1>1. QueueInv => OneEntryPerOpenJob
    BY DEF QueueInv
  <1>2. QED
    BY <1>1, QueueInvariance, PTL

\* The effect of every terminal status is owed in the outbox or applied, and
\* no other effect is.
THEOREM EffectsFollowOutcomes == Spec => []EffectOwedOrDone
  <1>1. QueueInv => EffectOwedOrDone
    BY DEF QueueInv
  <1>2. QED
    BY <1>1, QueueInvariance, PTL

\* A terminal status is final.
THEOREM TerminalIsFinal == Spec => TerminalForever
  <1>1. QueueInv /\ [Next]_vars => [\A j \in Jobs : Terminal(j) => status'[j] = status[j]]_vars
    BY StatusAfter DEF QueueInv
  <1>2. QED
    BY <1>1, QueueInvariance, PTL DEF Spec, TerminalForever

-----------------------------------------------------------------------------
(* The refinement.  AttemptOf as an operator of the stream it reads.       *)
AttemptIn(e, j) ==
    LET entries == {i \in Ids : e[i].state # "none" /\ e[i].job = j} IN
    IF entries = {} THEN 0 ELSE e[CHOOSE i \in entries : TRUE].attempt

Phase(s) == [j \in Jobs |-> IF s[j] \in {"pending", "running"} THEN "queued" ELSE s[j]]
Tries(e) == [j \in Jobs |-> AttemptIn(e, j)]

\* The attempt of a job is that of its only entry.
LEMMA AttemptIs ==
    ASSUME NEW e, NEW j, NEW i \in Ids, e[i].state # "none", e[i].job = j,
           \A k \in Ids : e[k].state # "none" /\ e[k].job = j => k = i
    PROVE  AttemptIn(e, j) = e[i].attempt
  <1> DEFINE entries == {k \in Ids : e[k].state # "none" /\ e[k].job = j}
  <1>1. entries = {i}
    OBVIOUS
  <1>2. (CHOOSE k \in entries : TRUE) = i
    BY <1>1
  <1>3. QED
    BY <1>1, <1>2 DEF AttemptIn

\* Streams that agree on a job's entries agree on its attempt.
LEMMA AttemptSame ==
    ASSUME NEW e, NEW f, NEW j,
           \A i \in Ids : /\ (e[i].state # "none" /\ e[i].job = j) <=> (f[i].state # "none" /\ f[i].job = j)
                          /\ (e[i].state # "none" /\ e[i].job = j) => e[i].attempt = f[i].attempt
    PROVE  AttemptIn(e, j) = AttemptIn(f, j)
  <1> DEFINE these == {i \in Ids : e[i].state # "none" /\ e[i].job = j}
             those == {i \in Ids : f[i].state # "none" /\ f[i].job = j}
  <1>1. these = those
    OBVIOUS
  <1>2. these # {} => (CHOOSE i \in these : TRUE) \in these
    OBVIOUS
  <1>3. QED
    BY <1>1, <1>2 DEF AttemptIn

\* What the ledger's variables stand for.
LEMMA Mapping ==
    /\ [j \in Jobs |-> IF Open(j) THEN "queued" ELSE status[j]] = Phase(status)
    /\ [j \in Jobs |-> AttemptOf(j)] = Tries(entry)
    /\ [j \in Jobs |-> IF Open(j)' THEN "queued" ELSE status'[j]] = Phase(status')
    /\ [j \in Jobs |-> AttemptOf(j)'] = Tries(entry')
  <1>1. /\ [j \in Jobs |-> AttemptOf(j)] = Tries(entry)
        /\ [j \in Jobs |-> AttemptOf(j)'] = Tries(entry')
    BY DEF AttemptOf, AttemptIn, Tries, Live
  <1>2. QED
    BY <1>1 DEF Open, Phase


\* A step that keeps the stream is invisible to the ledger.
LEMMA KeepsIsInvisible ==
    ASSUME QueueInv, Keeps
    PROVE  Phase(status') = Phase(status) /\ Tries(entry') = Tries(entry)
  <1>1. \A j \in Jobs : AttemptIn(entry', j) = AttemptIn(entry, j)
    BY AttemptSame DEF Keeps, SameEntries, Live
  <1>2. QED
    BY <1>1 DEF Keeps, Phase, Tries, Open

\* Enqueuing a job is the ledger's Enter.
LEMMA EntersIsEnter ==
    ASSUME QueueInv, NEW j \in Jobs, Enters(j)
    PROVE  /\ Phase(status)[j] = "none"
           /\ Phase(status') = [Phase(status) EXCEPT ![j] = "queued"]
           /\ Tries(entry') = Tries(entry)
  <1> DEFINE n == lastId + 1
  <1>1. n \in Ids /\ ~Live(n)
    BY MaxIdNat DEF QueueInv, Enters, AppendJob, Formed, TypeOK, Ids
  <1>2. entry' = [entry EXCEPT ![n] = Envelope(j, 0)] /\ Envelope(j, 0).state = "new"
        /\ Envelope(j, 0).job = j /\ Envelope(j, 0).attempt = 0
    BY EnvelopeType, Constants DEF Enters, AppendJob
  <1>3. status[j] = "none" /\ status' = [status EXCEPT ![j] = "pending"]
    BY DEF QueueInv, NotYetQueued, Enters, AppendJob
  <1>4. \A i \in Ids : Live(i) => entry[i].job # j
    BY <1>3, OneEntryMeans DEF QueueInv, OneEntry, Open
  <1> HIDE DEF n
  <1>5. \A i \in Ids : i # n => entry'[i] = entry[i]
    BY <1>1, <1>2 DEF QueueInv, TypeOK
  <1>6. entry'[n].state = "new" /\ entry'[n].job = j /\ entry'[n].attempt = 0
    BY <1>1, <1>2 DEF QueueInv, TypeOK
  <1>7. AttemptIn(entry, j) = 0
    BY <1>4 DEF AttemptIn, Live
  <1>8. AttemptIn(entry', j) = 0
    BY <1>1, <1>4, <1>5, <1>6, AttemptIs DEF Live
  <1>9. \A k \in Jobs : k # j => AttemptIn(entry', k) = AttemptIn(entry, k)
    BY <1>1, <1>5, <1>6, AttemptSame DEF Live
  <1>10. Tries(entry') = Tries(entry)
    BY <1>7, <1>8, <1>9 DEF Tries
  <1>11. QED
    BY <1>3, <1>10 DEF Phase, QueueInv, TypeOK

\* Replacing a delivery by the next attempt is the ledger's SpendRetry.
LEMMA RetriesIsSpendRetry ==
    ASSUME QueueInv, NEW t \in Threads, Retries(t)
    PROVE  /\ work[t].job \in Jobs
           /\ Phase(status)[work[t].job] = "queued"
           /\ Tries(entry)[work[t].job] < MAX_RETRIES
           /\ Phase(status') = Phase(status)
           /\ Tries(entry') = [Tries(entry) EXCEPT ![work[t].job] = @ + 1]
  <1> DEFINE n == lastId + 1
             d == work[t].id
             j == work[t].job
             a == work[t].attempt
  <1>1. n \in Ids /\ ~Live(n)
    BY MaxIdNat DEF QueueInv, Retries, Replace, Formed, TypeOK, Ids
  <1>2. /\ d \in Ids /\ Live(d) /\ j \in Jobs /\ entry[d].job = j
        /\ entry[d].attempt = a /\ Open(j)
    BY ReceiptOpen DEF QueueInv, Retries
  <1>3. a \in Attempts /\ a < MAX_RETRIES /\ a + 1 \in Attempts
    BY LimitAssumption DEF QueueInv, Retries, Exhausted, Attempts, TypeOK, Work
  <1> DEFINE next == Envelope(j, a + 1)
  <1>4. next.state = "new" /\ next.job = j /\ next.attempt = a + 1 /\ NoEntry.state = "none"
    BY <1>2, <1>3, EnvelopeType DEF NoEntry
  <1>5. entry' = [entry EXCEPT ![d] = NoEntry, ![n] = next] /\ status' = [status EXCEPT ![j] = "pending"]
    BY DEF Retries, Replace
  <1>6. \A i \in Ids : Live(i) /\ entry[i].job = j => i = d
    BY <1>2, OneEntryMeans DEF QueueInv, OneEntry
  <1> HIDE DEF n, d, j, a, next
  <1>7. /\ \A i \in Ids : i # n /\ i # d => entry'[i] = entry[i]
        /\ entry'[n] = next /\ entry'[d] = NoEntry
    BY <1>1, <1>2, <1>5 DEF QueueInv, TypeOK
  <1>8. AttemptIn(entry, j) = a
    BY <1>2, <1>6, AttemptIs DEF Live
  <1>9. AttemptIn(entry', j) = a + 1
    <2>1. \A i \in Ids : entry'[i].state # "none" /\ entry'[i].job = j => i = n
      BY <1>4, <1>6, <1>7 DEF Live
    <2>2. QED
      BY <1>1, <1>4, <1>7, <2>1, AttemptIs
  <1>10. ASSUME NEW k \in Jobs, k # j
         PROVE  AttemptIn(entry', k) = AttemptIn(entry, k)
    <2>1. \A i \in Ids :
            /\ (entry'[i].state # "none" /\ entry'[i].job = k) <=> (entry[i].state # "none" /\ entry[i].job = k)
            /\ (entry'[i].state # "none" /\ entry'[i].job = k) => entry'[i].attempt = entry[i].attempt
      BY <1>1, <1>2, <1>4, <1>7, <1>10 DEF Live
    <2>2. QED
      BY <2>1, AttemptSame
  <1>11. Tries(entry)[j] = a /\ Tries(entry') = [Tries(entry) EXCEPT ![j] = @ + 1]
    BY <1>2, <1>8, <1>9, <1>10 DEF Tries
  <1>12. Phase(status)[j] = "queued" /\ Phase(status') = Phase(status)
    BY <1>2, <1>5 DEF Phase, Open, QueueInv, TypeOK
  <1>13. QED
    BY <1>2, <1>3, <1>11, <1>12 DEF j

\* Retiring a delivery is the ledger's End.
LEMMA EndsIsEnd ==
    ASSUME QueueInv, NEW t \in Threads, NEW o \in Outcomes, Ends(t, o)
    PROVE  /\ work[t].job \in Jobs
           /\ Phase(status)[work[t].job] = "queued"
           /\ o = "failed" => Tries(entry)[work[t].job] = MAX_RETRIES
           /\ Phase(status') = [Phase(status) EXCEPT ![work[t].job] = o]
           /\ Tries(entry') = [Tries(entry) EXCEPT ![work[t].job] = 0]
  <1> DEFINE d == work[t].id
             j == work[t].job
             a == work[t].attempt
  <1>1. /\ d \in Ids /\ Live(d) /\ j \in Jobs /\ entry[d].job = j
        /\ entry[d].attempt = a /\ Open(j)
    BY ReceiptOpen DEF QueueInv, Ends
  <1>2. o = "failed" => a = MAX_RETRIES
    <2>1. a \in Attempts
      BY DEF QueueInv, TypeOK, Work
    <2>2. o = "failed" => a >= MAX_RETRIES
      BY DEF Ends, Exhausted
    <2>3. QED
      BY <2>1, <2>2, LimitAssumption DEF Attempts
  <1>3. entry' = [entry EXCEPT ![d] = NoEntry] /\ status' = [status EXCEPT ![j] = o]
    BY DEF Ends, Retire
  <1>4. \A i \in Ids : Live(i) /\ entry[i].job = j => i = d
    BY <1>1, OneEntryMeans DEF QueueInv, OneEntry
  <1> HIDE DEF d, j, a
  <1>5. (\A i \in Ids : i # d => entry'[i] = entry[i]) /\ entry'[d].state = "none"
    BY <1>1, <1>3 DEF QueueInv, TypeOK, NoEntry
  <1>6. AttemptIn(entry, j) = a
    BY <1>1, <1>4, AttemptIs DEF Live
  <1>7. AttemptIn(entry', j) = 0
    BY <1>4, <1>5 DEF AttemptIn, Live
  <1>8. ASSUME NEW k \in Jobs, k # j
        PROVE  AttemptIn(entry', k) = AttemptIn(entry, k)
    <2>1. \A i \in Ids :
            /\ (entry'[i].state # "none" /\ entry'[i].job = k) <=> (entry[i].state # "none" /\ entry[i].job = k)
            /\ (entry'[i].state # "none" /\ entry'[i].job = k) => entry'[i].attempt = entry[i].attempt
      BY <1>1, <1>5, <1>8
    <2>2. QED
      BY <2>1, AttemptSame
  <1>9. Tries(entry)[j] = a /\ Tries(entry') = [Tries(entry) EXCEPT ![j] = 0]
    BY <1>1, <1>6, <1>7, <1>8 DEF Tries
  <1>10. Phase(status)[j] = "queued" /\ Phase(status') = [Phase(status) EXCEPT ![j] = o]
    BY <1>1, <1>3 DEF Phase, Open, Outcomes, QueueInv, TypeOK
  <1>11. QED
    BY <1>1, <1>2, <1>9, <1>10 DEF j

\* Applying a committed outcome is the ledger's Apply, or changes nothing.
LEMMA AppliesIsApply ==
    ASSUME QueueInv, NEW t \in Threads, Applies(t)
    PROVE  /\ Phase(status') = Phase(status) /\ Tries(entry') = Tries(entry)
           /\ \/ effect' = effect
              \/ /\ work[t].job \in Jobs
                 /\ Phase(status)[work[t].job] \in {"succeeded", "failed"}
                 /\ effect[work[t].job] = "none"
                 /\ effect' = [effect EXCEPT ![work[t].job] = Phase(status)[work[t].job]]
  <1>1. work[t].job \in Jobs /\ Terminal(work[t].job) /\ work[t].outcome = status[work[t].job]
    BY DEF QueueInv, Applies, Formed, Committed
  <1>2. QED
    BY <1>1 DEF Applies, Phase, Terminal, Outcomes

\* Every step of the queue is a step of the ledger or a stutter.
LEMMA LedgerStep ==
    ASSUME QueueInv, [Next]_vars
    PROVE  [Ledger!Next]_(Ledger!ledger)
  <1> DEFINE Stutter == /\ Phase(status') = Phase(status) /\ Tries(entry') = Tries(entry)
                        /\ effect' = effect
  <1>1. ASSUME Stutter PROVE [Ledger!Next]_(Ledger!ledger)
    BY <1>1, Mapping DEF Ledger!ledger
  <1>2. ASSUME NEW t \in Threads, Applies(t) PROVE [Ledger!Next]_(Ledger!ledger)
    <2>1. CASE effect' = effect
      BY <1>1, <1>2, <2>1, AppliesIsApply
    <2>2. CASE effect' # effect
      <3> DEFINE j == work[t].job
      <3>1. /\ Phase(status') = Phase(status) /\ Tries(entry') = Tries(entry)
            /\ j \in Jobs /\ Phase(status)[j] \in {"succeeded", "failed"}
            /\ effect[j] = "none" /\ effect' = [effect EXCEPT ![j] = Phase(status)[j]]
        BY <1>2, <2>2, AppliesIsApply
      <3> HIDE DEF j
      <3>2. Ledger!Apply(j)
        BY <3>1, Mapping DEF Ledger!Apply
      <3>3. QED
        BY <3>1, <3>2 DEF Ledger!Next
    <2>3. QED
      BY <2>1, <2>2
  <1>3. ASSUME NEW j \in Jobs, Enters(j), effect' = effect PROVE Ledger!Enter(j)
    BY <1>3, EntersIsEnter, Mapping DEF Ledger!Enter
  <1>4. ASSUME NEW t \in Threads, Retries(t), effect' = effect
        PROVE  Ledger!SpendRetry(work[t].job) /\ work[t].job \in Jobs
    <2>1. /\ work[t].job \in Jobs
          /\ Phase(status)[work[t].job] = "queued"
          /\ Tries(entry)[work[t].job] < MAX_RETRIES
          /\ Phase(status') = Phase(status)
          /\ Tries(entry') = [Tries(entry) EXCEPT ![work[t].job] = @ + 1]
      BY <1>4, RetriesIsSpendRetry
    <2>2. QED
      BY <1>4, <2>1, Mapping DEF Ledger!SpendRetry
  <1>5. ASSUME NEW t \in Threads, NEW o \in Outcomes, Ends(t, o), effect' = effect
        PROVE  Ledger!End(work[t].job, o) /\ work[t].job \in Jobs
    BY <1>5, EndsIsEnd, Mapping DEF Ledger!End
  <1>6. effect' = effect \/ \E t \in Threads : Applies(t)
    BY OutboxStep DEF QueueInv, Complete
  <1>7. ASSUME effect' = effect PROVE [Ledger!Next]_(Ledger!ledger)
    <2>1. CASE Keeps
      BY <1>1, <1>7, <2>1, KeepsIsInvisible
    <2>2. CASE \E j \in Jobs : Enters(j)
      BY <1>3, <1>7, <2>2 DEF Ledger!Next
    <2>3. CASE \E t \in Tasks : Retries(t)
      BY <1>4, <1>7, <2>3, Constants DEF Ledger!Next
    <2>4. CASE \E t \in Tasks, o \in Outcomes : Ends(t, o)
      BY <1>5, <1>7, <2>4, Constants DEF Ledger!Next, Outcomes
    <2>5. QED
      BY <2>1, <2>2, <2>3, <2>4, QueueStep DEF QueueInv
  <1>8. QED
    BY <1>2, <1>6, <1>7

\* The queue implements the ledger: a job enters once, spends its retries one
\* at a time, ends once, fails only with its budget spent, and takes effect
\* at most once, as it ended.
THEOREM QueueImplementsLedger == Spec => ImplementsLedger
  <1>1. Init => Ledger!Init
    <2>1. SUFFICES ASSUME Init PROVE Ledger!Init
      OBVIOUS
    <2>2. \A j \in Jobs : AttemptIn(entry, j) = 0
      BY <2>1 DEF Init, NoEntry, AttemptIn
    <2>3. QED
      BY <2>1, <2>2, Mapping DEF Init, Ledger!Init, Phase, Tries
  <1>2. QueueInv /\ [Next]_vars => [Ledger!Next]_(Ledger!ledger)
    BY LedgerStep
  <1>3. QED
    BY <1>1, <1>2, QueueInvariance, PTL DEF Spec, ImplementsLedger, Ledger!Spec

-----------------------------------------------------------------------------
(* Dead letters.  A delivery carries the number of failures its job has    *)
(* answered for: every attempt below it was blamed.                        *)

AttemptsBlamed ==
    /\ \A i \in Ids : Live(i) =>
         \A a \in Attempts : a < entry[i].attempt => a \in blamed[entry[i].job]
    /\ \A t \in Tasks : pc[t] = "retry" => work[t].attempt \in blamed[work[t].job]

BudgetInv == AttemptsBlamed /\ DeadLetterEarned

\* Blame is never taken back.
LEMMA BlameStays ==
    ASSUME TypeOK, [Next]_vars
    PROVE  \A j \in Jobs : blamed[j] \subseteq blamed'[j]
  <1>1. CASE \E t \in Tasks : ProbeAnswers(t)
    BY <1>1 DEF ProbeAnswers, TypeOK
  <1>2. CASE ~\E t \in Tasks : ProbeAnswers(t)
    <2>1. CASE ProducerStep \/ ConsumerStep
      BY <2>1 DEF ProducerStep, Stage, Enqueue, EnqueueFails, Discard,
                  ConsumerStep, Read, ReadLost, ReadUnreadable, Start, StartFails
    <2>2. CASE TaskStep
      BY <1>2, <2>2 DEF TaskStep, Handling, Hindrance, CheckOutbox, Renew, ExecuteDone,
           ExecuteFails, Ack, Retry, Settle, Heartbeat, ExecuteHeld, ProbeFails,
           FinalizeFails, TaskCallFails
    <2>3. CASE Reconciling \/ ReaperStep \/ TimePasses
      BY <2>3 DEF Reconciling, Apply, ApplyFails, Complete, CompleteFails,
                  ReaperStep, Scan, Reap, ReapUnreadable, ReapLost, TimePasses, Lapse, Stall
    <2>4. CASE (\E w \in Workers : Crash(w)) \/ UNCHANGED vars
      BY <2>4 DEF Crash, vars
    <2>5. QED
      BY <2>1, <2>2, <2>3, <2>4 DEF Next
  <1>3. QED
    BY <1>1, <1>2

\* Only a failure that storage survived leads to a retry.
LEMMA RetryStep ==
    ASSUME TypeOK, Formed, [Next]_vars, NEW q \in Tasks, pc'[q] = "retry"
    PROVE  work'[q] = work[q] /\ (pc[q] = "retry" \/ ProbeAnswers(q))
  <1> USE DEF queueVars, budgets
  <1> DEFINE Same == pc'[q] = pc[q] /\ work'[q] = work[q]
             Away == pc'[q] # "retry"
             Blames == ProbeAnswers(q) /\ work'[q] = work[q]
  <1>1. SUFFICES Same \/ Away \/ Blames
    OBVIOUS
  <1>0. q \in Threads
    BY Constants
  <1>2. ASSUME NEW t \in Threads, NEW place \in Places \ {"retry"},
               GoIdle(t) \/ Goto(t, place) \/ LookUp(t, place)
        PROVE  Same \/ Away
    <2>1. CASE GoIdle(t)
      BY <1>0, <2>1 DEF GoIdle, TypeOK
    <2>2. CASE Goto(t, place)
      BY <1>0, <2>2 DEF Goto, TypeOK
    <2>3. CASE LookUp(t, place) /\ outbox[work[t].job] # "none"
      BY <1>0, <2>3 DEF LookUp, TypeOK
    <2>4. QED
      BY <1>2, <2>1, <2>2, <2>3 DEF LookUp
  <1>p. {"idle", "outbox", "renew", "execute", "probe", "ack", "settle", "complete"}
            \subseteq Places \ {"retry"}
    BY DEF Places
  <1>5. CASE ProducerStep \/ TimePasses \/ UNCHANGED vars
    BY <1>5 DEF ProducerStep, Stage, Enqueue, EnqueueFails, Discard, TimePasses, Lapse, Stall, vars
  <1>6. CASE ConsumerStep
    <2>1. PICK c \in Consumers : \/ Read(c) \/ ReadLost(c) \/ ReadUnreadable(c)
                                 \/ Start(c) \/ StartFails(c)
      BY <1>6 DEF ConsumerStep
    <2>2. CASE Read(c)
      BY <1>0, <2>2 DEF Read, TypeOK
    <2>3. CASE Start(c) \/ StartFails(c)
      BY <1>2, <1>p, <2>3, Constants DEF Start, StartFails
    <2>4. QED
      BY <2>1, <2>2, <2>3 DEF ReadLost, ReadUnreadable
  <1>7. CASE TaskStep
    <2>1. PICK t \in Tasks : Handling(t) \/ Hindrance(t)
      BY <1>7 DEF TaskStep
    <2>2. t \in Threads
      BY Constants
    <2>3. CASE Heartbeat(t)
      BY <2>3 DEF Heartbeat
    <2>4. CASE ProbeAnswers(t)
      <3>1. pc' = [pc EXCEPT ![t] = "retry"] /\ work' = work
        BY <2>4 DEF ProbeAnswers, Goto
      <3>2. CASE q = t
        BY <2>4, <3>1, <3>2
      <3>3. CASE q # t
        BY <1>0, <3>1, <3>3 DEF TypeOK
      <3>4. QED
        BY <3>2, <3>3
    <2>5. CASE ~Heartbeat(t) /\ ~ProbeAnswers(t)
      <3>1. PICK place \in Places \ {"retry"} : GoIdle(t) \/ Goto(t, place) \/ LookUp(t, place)
        BY <1>p, <2>1, <2>5
        DEF Handling, Hindrance, CheckOutbox, Renew, ExecuteDone, ExecuteFails,
            Ack, Retry, Settle, ExecuteHeld, ProbeFails, FinalizeFails, TaskCallFails
      <3>2. QED
        BY <1>2, <2>2, <3>1
    <2>6. QED
      BY <2>3, <2>4, <2>5
  <1>8. CASE Reconciling
    <2>1. PICK t \in Threads : Apply(t) \/ ApplyFails(t) \/ Complete(t) \/ CompleteFails(t)
      BY <1>8 DEF Reconciling
    <2>2. GoIdle(t) \/ Goto(t, "complete")
      BY <2>1 DEF Apply, ApplyFails, Complete, CompleteFails
    <2>3. QED
      BY <1>2, <1>p, <2>2
  <1>9. CASE ReaperStep
    <2>1. PICK w \in Workers : Scan(w) \/ Reap(w) \/ ReapUnreadable(w) \/ ReapLost(w)
      BY <1>9 DEF ReaperStep
    <2>2. CASE Scan(w)
      BY <1>0, <2>2 DEF Scan, TypeOK
    <2>3. CASE Reap(w)
      BY <1>0, <2>3 DEF Reap
    <2>4. QED
      BY <2>1, <2>2, <2>3 DEF ReapUnreadable, ReapLost
  <1>10. CASE \E w \in Workers : Crash(w)
    BY <1>0, <1>10 DEF Crash
  <1>11. QED
    BY <1>5, <1>6, <1>7, <1>8, <1>9, <1>10 DEF Next

\* A retry carries the blame of the attempt it follows.
LEMMA BlamedStep ==
    ASSUME QueueInv, AttemptsBlamed, [Next]_vars
    PROVE  AttemptsBlamed'
  <1> USE DEF QueueInv
  <1>0. \A j \in Jobs : blamed[j] \subseteq blamed'[j]
    BY BlameStays
  <1>1. ASSUME NEW t \in Tasks, pc'[t] = "retry"
        PROVE  work'[t].attempt \in blamed'[work'[t].job]
    <2>1. work'[t] = work[t] /\ (pc[t] = "retry" \/ ProbeAnswers(t))
      BY <1>1, RetryStep
    <2>2. t \in Threads /\ pc[t] # "idle"
      BY <2>1, Constants DEF ProbeAnswers
    <2>3. work[t].job \in Jobs
      BY <2>2 DEF Formed
    <2>4. CASE pc[t] = "retry"
      BY <1>0, <2>1, <2>3, <2>4 DEF AttemptsBlamed
    <2>5. CASE ProbeAnswers(t)
      BY <2>1, <2>3, <2>5 DEF ProbeAnswers, TypeOK
    <2>6. QED
      BY <2>1, <2>4, <2>5
  <1>2. ASSUME NEW i \in Ids, Live(i)', NEW a \in Attempts, a < entry'[i].attempt
        PROVE  a \in blamed'[entry'[i].job]
    <2>1. ASSUME Live(i), entry'[i].job = entry[i].job, entry'[i].attempt = entry[i].attempt
          PROVE  a \in blamed'[entry'[i].job]
      BY <1>0, <1>2, <2>1 DEF AttemptsBlamed, Formed
    <2>2. CASE Keeps
      BY <1>2, <2>1, <2>2 DEF Keeps, SameEntries
    <2>3. ASSUME NEW j \in Jobs, Enters(j) PROVE a \in blamed'[entry'[i].job]
      <3>1. entry' = [entry EXCEPT ![lastId + 1] = Envelope(j, 0)]
        BY <2>3 DEF Enters, AppendJob
      <3>2. CASE i = lastId + 1
        <4>1. entry'[i].attempt = 0
          BY <3>1, <3>2, EnvelopeType, Constants DEF TypeOK
        <4>2. QED
          BY <1>2, <4>1, LimitAssumption DEF Attempts
      <3>3. CASE i # lastId + 1
        BY <1>2, <2>1, <3>1, <3>3 DEF Live, TypeOK
      <3>4. QED
        BY <3>2, <3>3
    <2>4. ASSUME NEW t \in Tasks, Retries(t) PROVE a \in blamed'[entry'[i].job]
      <3> DEFINE j == work[t].job
                 b == work[t].attempt
                 next == Envelope(j, b + 1)
      <3>0. t \in Threads
        BY Constants
      <3>1. /\ work[t].id \in Ids /\ Live(work[t].id) /\ j \in Jobs
            /\ entry[work[t].id].job = j /\ entry[work[t].id].attempt = b
        BY <2>4, <3>0, ReceiptOpen DEF Retries
      <3>2. b \in Attempts /\ b + 1 \in Attempts
        BY <2>4, <3>0, LimitAssumption DEF Retries, Exhausted, Attempts, TypeOK, Work
      <3>3. next.job = j /\ next.attempt = b + 1 /\ NoEntry.state = "none"
        BY <3>1, <3>2, EnvelopeType DEF NoEntry
      <3>4. entry' = [entry EXCEPT ![work[t].id] = NoEntry, ![lastId + 1] = next]
        BY <2>4 DEF Retries, Replace
      <3>5. b \in blamed[j] /\ \A x \in Attempts : x < b => x \in blamed[j]
        BY <2>4, <3>1 DEF Retries, AttemptsBlamed
      <3> HIDE DEF next, j, b
      <3>6. CASE i = lastId + 1
        <4>1. entry'[i] = next
          BY <3>4, <3>6 DEF TypeOK
        <4>2. a < b \/ a = b
          BY <1>2, <3>2, <3>3, <4>1, LimitAssumption DEF Attempts
        <4>3. QED
          BY <1>0, <3>1, <3>3, <3>5, <4>1, <4>2
      <3>7. CASE i # lastId + 1
        <4>1. i # work[t].id /\ entry'[i] = entry[i]
          BY <1>2, <3>1, <3>3, <3>4, <3>7 DEF Live, TypeOK
        <4>2. QED
          BY <1>2, <2>1, <4>1 DEF Live
      <3>8. QED
        BY <3>6, <3>7
    <2>5. ASSUME NEW t \in Tasks, NEW o \in Outcomes, Ends(t, o)
          PROVE  a \in blamed'[entry'[i].job]
      <3>1. entry' = [entry EXCEPT ![work[t].id] = NoEntry] /\ NoEntry.state = "none"
        BY <2>5 DEF Ends, Retire, NoEntry
      <3>2. entry'[i] = entry[i]
        BY <1>2, <3>1 DEF Live, TypeOK
      <3>3. QED
        BY <1>2, <2>1, <3>2 DEF Live
    <2>6. QED
      BY <2>2, <2>3, <2>4, <2>5, QueueStep
  <1>3. QED
    BY <1>1, <1>2 DEF AttemptsBlamed

\* The last retry is spent on the last attempt, and the job is open then.
LEMMA DeadLetterStep ==
    ASSUME QueueInv, BudgetInv, [Next]_vars
    PROVE  DeadLetterEarned'
  <1> USE DEF QueueInv
  <1>0. \A j \in Jobs : blamed[j] \subseteq blamed'[j] /\ blamed'[j] \subseteq Attempts
    <2>1. TypeOK'
      BY TypeStep
    <2>2. QED
      BY <2>1, BlameStays DEF TypeOK
  <1> SUFFICES ASSUME NEW j \in Jobs
               PROVE  /\ dlq'[j] = IF status'[j] = "failed" THEN 1 ELSE 0
                      /\ status'[j] = "failed" => blamed'[j] = Attempts
    BY DEF DeadLetterEarned
  <1>1. /\ dlq[j] = IF status[j] = "failed" THEN 1 ELSE 0
        /\ status[j] = "failed" => blamed[j] = Attempts
    BY DEF BudgetInv, DeadLetterEarned
  <1>2. ASSUME dlq'[j] = dlq[j], status'[j] = "failed" <=> status[j] = "failed"
        PROVE  /\ dlq'[j] = IF status'[j] = "failed" THEN 1 ELSE 0
               /\ status'[j] = "failed" => blamed'[j] = Attempts
    <2>1. dlq'[j] = IF status'[j] = "failed" THEN 1 ELSE 0
      BY <1>1, <1>2
    <2>2. ASSUME status'[j] = "failed" PROVE blamed'[j] = Attempts
      <3>1. blamed[j] = Attempts
        BY <1>1, <1>2, <2>2
      <3>2. QED
        BY <1>0, <3>1
    <2>3. QED
      BY <2>1, <2>2
  <1>3. CASE Keeps
    BY <1>2, <1>3 DEF Keeps, Open
  <1>4. ASSUME NEW k \in Jobs, Enters(k)
        PROVE  dlq'[j] = dlq[j] /\ (status'[j] = "failed" <=> status[j] = "failed")
    <2>1. status[k] = "none" /\ status' = [status EXCEPT ![k] = "pending"] /\ dlq' = dlq
      BY <1>4 DEF Enters, AppendJob, NotYetQueued
    <2>2. QED
      BY <2>1 DEF TypeOK
  <1>5. ASSUME NEW t \in Tasks, Retries(t)
        PROVE  dlq'[j] = dlq[j] /\ (status'[j] = "failed" <=> status[j] = "failed")
    <2>1. Open(work[t].job) /\ status' = [status EXCEPT ![work[t].job] = "pending"] /\ dlq' = dlq
      BY <1>5, ReceiptOpen, Constants DEF Retries, Replace
    <2>2. QED
      BY <2>1 DEF Open, TypeOK
  <1>6. ASSUME NEW t \in Tasks, NEW o \in Outcomes, Ends(t, o)
        PROVE  /\ dlq'[j] = IF status'[j] = "failed" THEN 1 ELSE 0
               /\ status'[j] = "failed" => blamed'[j] = Attempts
    <2> DEFINE k == work[t].job
    <2>0. t \in Threads
      BY Constants
    <2>1. /\ work[t].id \in Ids /\ Live(work[t].id) /\ k \in Jobs /\ Open(k)
          /\ entry[work[t].id].job = k /\ entry[work[t].id].attempt = work[t].attempt
      BY <1>6, <2>0, ReceiptOpen DEF Ends
    <2>2. /\ status' = [status EXCEPT ![k] = o]
          /\ dlq' = IF o = "failed" THEN [dlq EXCEPT ![k] = @ + 1] ELSE dlq
      BY <1>6 DEF Ends, Retire
    <2>3. CASE k # j
      BY <1>2, <2>2, <2>3 DEF TypeOK
    <2>4. CASE k = j /\ o # "failed"
      BY <1>2, <2>1, <2>2, <2>4 DEF TypeOK, Open
    <2>5. CASE k = j /\ o = "failed"
      <3>0. pc[t] = "retry" /\ work[t].attempt >= MAX_RETRIES
        BY <1>6, <2>5 DEF Ends, Exhausted
      <3>a. work[t].attempt \in Attempts
        BY <2>0 DEF TypeOK, Work
      <3>1. pc[t] = "retry" /\ work[t].attempt = MAX_RETRIES
        BY <3>0, <3>a, LimitAssumption DEF Attempts
      <3>2. MAX_RETRIES \in blamed[j]
        BY <2>5, <3>1 DEF BudgetInv, AttemptsBlamed
      <3>3. \A a \in Attempts : a < MAX_RETRIES => a \in blamed[j]
        BY <2>1, <2>5, <3>1 DEF BudgetInv, AttemptsBlamed
      <3>4. \A a \in Attempts : a < MAX_RETRIES \/ a = MAX_RETRIES
        BY LimitAssumption DEF Attempts
      <3>5. blamed'[j] = Attempts
        BY <1>0, <3>2, <3>3, <3>4
      <3>6. dlq[j] = 0 /\ dlq'[j] = dlq[j] + 1 /\ status'[j] = "failed"
        BY <1>1, <2>1, <2>2, <2>5 DEF Open, TypeOK
      <3>7. QED
        BY <3>5, <3>6
    <2>6. QED
      BY <2>3, <2>4, <2>5
  <1>7. QED
    BY <1>2, <1>3, <1>4, <1>5, <1>6, QueueStep

\* A job is dead-lettered once, and only after every attempt of its budget
\* failed while storage answered (execute_and_finalize's probe): outages,
\* lost replies, crashes and held deliveries spend nothing.
THEOREM DeadLettersAreEarned == Spec => []DeadLetterEarned
  <1>1. Init => BudgetInv
    BY DEF Init, BudgetInv, AttemptsBlamed, DeadLetterEarned, Live, NoEntry, Threads
  <1>2. QueueInv /\ BudgetInv /\ [Next]_vars => BudgetInv'
    BY BlamedStep, DeadLetterStep DEF BudgetInv
  <1>3. BudgetInv => DeadLetterEarned
    BY DEF BudgetInv
  <1>4. QED
    BY <1>1, <1>2, <1>3, QueueInvariance, PTL DEF Spec
-----------------------------------------------------------------------------
(* Staged uploads: only a request that was refused, or a committed         *)
(* terminal outcome, lets go of the blob.                                  *)

UploadsStaged ==
    \A j \in Uploads :
        /\ producer[j] = "staged" => j \in staged
        /\ producer[j] = "accepted" => j \in staged \/ Terminal(j)

\* Who deletes a staging blob, and where the requests are meanwhile.
LEMMA StagingStep ==
    ASSUME QueueInv, [Next]_vars, NEW j \in Uploads
    PROVE  /\ j \in staged /\ j \notin staged' => producer'[j] = "discarded" \/ Terminal(j)
           /\ producer'[j] = "staged" => producer[j] = "staged" \/ j \in staged'
           /\ producer'[j] = "accepted" => producer[j] \in {"staged", "accepted"}
  <1> USE DEF QueueInv, queueVars, budgets
  <1>0. j \in Jobs
    BY JobAssumption
  <1>u. UNCHANGED <<producer, staged>> =>
           /\ j \in staged /\ j \notin staged' => producer'[j] = "discarded" \/ Terminal(j)
           /\ producer'[j] = "staged" => producer[j] = "staged" \/ j \in staged'
           /\ producer'[j] = "accepted" => producer[j] \in {"staged", "accepted"}
    OBVIOUS
  <1>1. CASE ProducerStep
    <2>1. PICK k \in Jobs : Stage(k) \/ Enqueue(k) \/ EnqueueFails(k) \/ Discard(k)
      BY <1>1 DEF ProducerStep
    <2>2. CASE Stage(k)
      BY <1>0, <2>2 DEF Stage, TypeOK
    <2>3. CASE Enqueue(k)
      BY <1>0, <2>3 DEF Enqueue, TypeOK
    <2>4. CASE EnqueueFails(k)
      BY <1>0, <2>4 DEF EnqueueFails, TypeOK
    <2>5. CASE Discard(k)
      BY <1>0, <2>5 DEF Discard, TypeOK
    <2>6. QED
      BY <2>1, <2>2, <2>3, <2>4, <2>5
  <1>2. CASE ConsumerStep
    BY <1>2, <1>u DEF ConsumerStep, Read, ReadLost, ReadUnreadable, Start, StartFails
  <1>3. CASE TaskStep
    BY <1>3, <1>u
    DEF TaskStep, Handling, Hindrance, CheckOutbox, Renew, ExecuteDone, ExecuteFails, ProbeAnswers,
        Ack, Retry, Settle, Heartbeat, ExecuteHeld, ProbeFails, FinalizeFails, TaskCallFails
  <1>4. CASE Reconciling
    <2>1. PICK t \in Threads : Apply(t) \/ ApplyFails(t) \/ Complete(t) \/ CompleteFails(t)
      BY <1>4 DEF Reconciling
    <2>2. CASE Apply(t)
      <3>1. Terminal(work[t].job) /\ producer' = producer
        BY <2>2 DEF Committed, Apply
      <3>2. staged' \in {staged, staged \ {work[t].job}}
        BY <2>2 DEF Apply
      <3>3. QED
        BY <3>1, <3>2 DEF TypeOK
    <2>3. QED
      BY <1>u, <2>1, <2>2 DEF ApplyFails, Complete, CompleteFails
  <1>5. CASE ReaperStep \/ TimePasses \/ (\E w \in Workers : Crash(w)) \/ UNCHANGED vars
    BY <1>5, <1>u DEF ReaperStep, Scan, Reap, ReapUnreadable, ReapLost, TimePasses, Lapse, Stall, Crash, vars
  <1>6. QED
    BY <1>1, <1>2, <1>3, <1>4, <1>5 DEF Next

\* While an upload the client was told is accepted can still run, the blob
\* it reads is in S3: only a committed terminal outcome permits cleanup.
THEOREM AcceptedUploadsStayStaged == Spec => []AcceptedUploadStaged
  <1>1. Init => UploadsStaged
    BY JobAssumption DEF Init, UploadsStaged
  <1>2. ASSUME QueueInv, UploadsStaged, [Next]_vars PROVE UploadsStaged'
    <2> SUFFICES ASSUME NEW j \in Uploads
                 PROVE  /\ producer'[j] = "staged" => j \in staged'
                        /\ producer'[j] = "accepted" => j \in staged' \/ status'[j] \in Outcomes
      BY DEF UploadsStaged, Terminal
    <2>1. j \in Jobs
      BY JobAssumption
    <2>2. Terminal(j) => status'[j] \in Outcomes
      BY <1>2, <2>1, StatusAfter DEF QueueInv, Terminal
    <2>3. /\ producer[j] = "staged" => j \in staged
          /\ producer[j] = "accepted" => j \in staged \/ Terminal(j)
      BY <1>2 DEF UploadsStaged
    <2>4. Terminal(j) => producer'[j] # "staged"
      BY <1>2, <2>1, StatusAfter DEF QueueInv, NotYetQueued, Terminal, Outcomes
    <2>5. QED
      BY <1>2, <2>2, <2>3, <2>4, StagingStep
  <1>3. UploadsStaged => AcceptedUploadStaged
    BY DEF UploadsStaged, AcceptedUploadStaged, Terminal, Open, Outcomes
  <1>4. QED
    BY <1>1, <1>2, <1>3, QueueInvariance, PTL DEF Spec
-----------------------------------------------------------------------------
(* The delivery count of an entry is the number of its newest claim.  What *)
(* a step does to that count and to the counts the tasks hold is one of    *)
(* three things.                                                           *)

SameClaim(i) ==
    /\ entry'[i].state = entry[i].state
    /\ entry'[i].owner = entry[i].owner
    /\ entry'[i].count = entry[i].count

SameReceipt(t) == work'[t].id = work[t].id /\ work'[t].count = work[t].count

\* Nothing is claimed: entries come and go, tasks let go of deliveries.
NoClaim ==
    /\ \A i \in Ids : \/ SameClaim(i)
                      \/ entry'[i].state = "none"
                      \/ i = lastId + 1 /\ entry'[i].state = "new"
    /\ \A t \in Tasks : SameReceipt(t) \/ work'[t].id = NoId

\* A consumer is given the next new entry, whether or not it learns of it.
FirstClaim(c) ==
    \E i \in Ids :
        /\ entry[i].state = "new"
        /\ entry'[i].state = "pending" /\ entry'[i].owner = c /\ entry'[i].count = 1
        /\ \A k \in Ids : k # i => SameClaim(k)
        /\ \A t \in Tasks : \/ SameReceipt(t)
                            \/ t = c /\ work'[t].id = i /\ work'[t].count = 1

\* A reaper claims a batch, and seats each delivery of it in a slot or none.
Reclaim(w) ==
    /\ \A i \in Ids : i \notin Batch(w) => SameClaim(i)
    /\ \A i \in Batch(w) : /\ entry'[i].state = entry[i].state
                           /\ entry'[i].owner = w
                           /\ entry'[i].count = Bump(entry[i].count)
    /\ \A t \in Tasks : \/ SameReceipt(t)
                        \/ work'[t].id \in Batch(w) /\ work'[t].count = Bump(entry[work'[t].id].count)
    /\ \A t, u \in Tasks : ~SameReceipt(t) /\ ~SameReceipt(u) /\ work'[t].id = work'[u].id => t = u

\* Threads that move on within what they hold, or drop it.
LEMMA MoveReceipt ==
    ASSUME TypeOK, NEW t \in Threads, NEW place \in Places,
           GoIdle(t) \/ Goto(t, place) \/ LookUp(t, place),
           NEW q \in Tasks
    PROVE  SameReceipt(q) \/ work'[q].id = NoId
  <1>0. q \in Threads
    BY Constants
  <1>1. CASE GoIdle(t)
    BY <1>0, <1>1 DEF GoIdle, SameReceipt, NoWork, TypeOK
  <1>2. CASE Goto(t, place)
    BY <1>2 DEF Goto, SameReceipt
  <1>3. CASE work' = [work EXCEPT ![t].outcome = outbox[work[t].job]]
    BY <1>0, <1>3 DEF SameReceipt, TypeOK, Work
  <1>4. QED
    BY <1>1, <1>2, <1>3 DEF LookUp

\* The pending-entries list after XREADGROUP.
LEMMA DeliveredClaim ==
    ASSUME TypeOK, NEW i \in Ids, NEW c \in Consumers, NextNew(i), Delivered(i, c)
    PROVE  /\ entry[i].state = "new"
           /\ entry'[i].state = "pending" /\ entry'[i].owner = c /\ entry'[i].count = 1
           /\ \A k \in Ids : k # i => SameClaim(k)
  <1> DEFINE e == [entry[i] EXCEPT !.state = "pending", !.owner = c, !.count = 1]
  <1>1. e.state = "pending" /\ e.owner = c /\ e.count = 1
    BY DEF TypeOK, Entry
  <1>2. entry' = [entry EXCEPT ![i] = e]
    BY DEF Delivered
  <1> HIDE DEF e
  <1>3. QED
    BY <1>1, <1>2 DEF NextNew, SameClaim, TypeOK

\* The pending-entries list after CLAIM_STALE.
LEMMA BatchClaim ==
    ASSUME TypeOK, NEW w \in Workers, ClaimBatch(w)
    PROVE  /\ \A i \in Ids : i \notin Batch(w) => SameClaim(i)
           /\ \A i \in Batch(w) : /\ entry'[i].state = entry[i].state
                                  /\ entry'[i].owner = w
                                  /\ entry'[i].count = Bump(entry[i].count)
  <1>1. ASSUME NEW i \in Ids, i \notin Batch(w) PROVE SameClaim(i)
    BY <1>1 DEF ClaimBatch, SameClaim
  <1>2. ASSUME NEW i \in Batch(w)
        PROVE  /\ entry'[i].state = entry[i].state /\ entry'[i].owner = w
               /\ entry'[i].count = Bump(entry[i].count)
    <2>1. i \in Ids /\ entry[i] \in Entry
      BY DEF Batch, Stale, TypeOK
    <2>2. entry'[i] = [entry[i] EXCEPT !.owner = w, !.count = Bump(@), !.idle = FALSE]
      BY <2>1 DEF ClaimBatch
    <2>3. QED
      BY <2>1, <2>2 DEF Entry
  <1>3. QED
    BY <1>1, <1>2

\* A step of the reaper claims a batch or nothing.
LEMMA ReaperClaims ==
    ASSUME TypeOK, NEW w \in Workers, Scan(w) \/ Reap(w) \/ ReapUnreadable(w) \/ ReapLost(w)
    PROVE  NoClaim \/ Reclaim(w)
  <1> USE DEF queueVars
  <1>1. CASE Scan(w)
    <2>1. PICK j \in Jobs : work' = [work EXCEPT ![w] = [NoWork EXCEPT !.job = j, !.outcome = outbox[j]]]
      BY <1>1 DEF Scan
    <2>2. \A t \in Tasks : SameReceipt(t)
      BY <2>1, TaskAssumption, Constants DEF SameReceipt, TypeOK
    <2>3. QED
      BY <1>1, <2>2 DEF Scan, NoClaim, SameClaim
  <1>2. CASE ReapUnreadable(w) \/ ReapLost(w)
    <2>1. \A t \in Tasks : SameReceipt(t)
      BY <1>2 DEF ReapUnreadable, ReapLost, SameReceipt
    <2>2. QED
      BY <1>2, <2>1, BatchClaim DEF ReapUnreadable, ReapLost, Reclaim
  <1>3. CASE Reap(w)
    <2>1. PICK seat \in [Batch(w) -> Free(w)] :
            /\ \A i, k \in Batch(w) : seat[i] = seat[k] => i = k
            /\ work' = [t \in Threads |->
                         IF \E i \in Batch(w) : seat[i] = t
                         THEN LET i == CHOOSE k \in Batch(w) : seat[k] = t
                              IN  Claimed(i, Bump(entry[i].count))
                         ELSE work[t]]
      BY <1>3 DEF Reap
    <2>2. ASSUME NEW t \in Tasks
          PROVE  \/ SameReceipt(t)
                 \/ \E i \in Batch(w) : /\ seat[i] = t /\ work'[t].id = i
                                        /\ work'[t].count = Bump(entry[i].count)
      <3>0. t \in Threads
        BY Constants
      <3>1. CASE \E i \in Batch(w) : seat[i] = t
        <4>1. PICK i \in Batch(w) : seat[i] = t /\ work'[t] = Claimed(i, Bump(entry[i].count))
          BY <2>1, <3>0, <3>1
        <4>2. work'[t].id = i /\ work'[t].count = Bump(entry[i].count)
          BY <4>1 DEF Claimed, NoWork
        <4>3. QED
          BY <4>1, <4>2
      <3>2. CASE ~\E i \in Batch(w) : seat[i] = t
        BY <2>1, <3>0, <3>2 DEF SameReceipt
      <3>3. QED
        BY <3>1, <3>2
    <2>3. ASSUME NEW t \in Tasks, NEW u \in Tasks, ~SameReceipt(t), ~SameReceipt(u),
                 work'[t].id = work'[u].id
          PROVE  t = u
      BY <2>2, <2>3
    <2>4. \A t \in Tasks : \/ SameReceipt(t)
                           \/ work'[t].id \in Batch(w) /\ work'[t].count = Bump(entry[work'[t].id].count)
      BY <2>2
    <2>5. ClaimBatch(w)
      BY <1>3 DEF Reap
    <2>6. QED
      BY <2>3, <2>4, <2>5, BatchClaim DEF Reclaim
  <1>4. QED
    BY <1>1, <1>2, <1>3

\* Every step is one of the three.
LEMMA ClaimStep ==
    ASSUME QueueInv, [Next]_vars
    PROVE  \/ NoClaim
           \/ \E c \in Consumers : FirstClaim(c)
           \/ \E w \in Workers : Reclaim(w)
  <1> USE DEF queueVars, budgets, QueueInv
  <1>e. entry' = entry => \A i \in Ids : SameClaim(i)
    BY DEF SameClaim
  <1>w. work' = work => \A t \in Tasks : SameReceipt(t)
    BY DEF SameReceipt
  <1>n. NoEntry.state = "none"
    BY DEF NoEntry
  <1>p. {"idle", "outbox", "renew", "execute", "probe", "ack", "retry", "settle", "complete"} \subseteq Places
    BY DEF Places
  <1>r. ASSUME NEW t \in Tasks, Touch(t) PROVE \A i \in Ids : SameClaim(i)
    BY <1>r DEF Touch, SameClaim, TypeOK, Entry
  <1>a. ASSUME NEW j \in Jobs, AppendJob(j)
        PROVE  \A i \in Ids : SameClaim(i) \/ (i = lastId + 1 /\ entry'[i].state = "new")
    <2> DEFINE first == Envelope(j, 0)
    <2>1. entry' = [entry EXCEPT ![lastId + 1] = first]
      BY <1>a DEF AppendJob
    <2>2. first.state = "new"
      BY DEF Envelope, NoEntry
    <2> HIDE DEF first
    <2>3. QED
      BY <2>1, <2>2 DEF SameClaim, TypeOK
  <1>1. CASE ProducerStep
    <2>1. PICK j \in Jobs : Stage(j) \/ Enqueue(j) \/ EnqueueFails(j) \/ Discard(j)
      BY <1>1 DEF ProducerStep
    <2>2. work' = work /\ (entry' = entry \/ AppendJob(j))
      BY <2>1 DEF Stage, Enqueue, EnqueueFails, Discard
    <2>3. QED
      BY <1>a, <1>e, <1>w, <2>2 DEF NoClaim
  <1>2. CASE ConsumerStep
    <2>1. PICK c \in Consumers : \/ Read(c) \/ ReadLost(c) \/ ReadUnreadable(c)
                                 \/ Start(c) \/ StartFails(c)
      BY <1>2 DEF ConsumerStep
    <2>2. CASE Read(c)
      <3>1. PICK i \in Ids : /\ NextNew(i) /\ Delivered(i, c)
                             /\ work' = [work EXCEPT ![c] = Claimed(i, 1)]
        BY <2>2 DEF Read
      <3>2. Claimed(i, 1).id = i /\ Claimed(i, 1).count = 1
        BY DEF Claimed, NoWork
      <3>3. \A t \in Tasks : SameReceipt(t) \/ (t = c /\ work'[t].id = i /\ work'[t].count = 1)
        BY <3>1, <3>2, Constants DEF SameReceipt, TypeOK
      <3>4. QED
        BY <3>1, <3>3, DeliveredClaim DEF FirstClaim
    <2>3. CASE ReadLost(c) \/ ReadUnreadable(c)
      <3>1. PICK i \in Ids : NextNew(i) /\ Delivered(i, c)
        BY <2>3 DEF ReadLost, ReadUnreadable
      <3>2. work' = work
        BY <2>3 DEF ReadLost, ReadUnreadable
      <3>3. QED
        BY <1>w, <3>1, <3>2, DeliveredClaim DEF FirstClaim
    <2>4. CASE Start(c) \/ StartFails(c)
      <3>1. entry' = entry /\ (GoIdle(c) \/ Goto(c, "outbox"))
        BY <2>4 DEF Start, StartFails
      <3>2. \A t \in Tasks : SameReceipt(t) \/ work'[t].id = NoId
        BY <1>p, <3>1, MoveReceipt, Constants
      <3>3. QED
        BY <1>e, <3>1, <3>2 DEF NoClaim
    <2>5. QED
      BY <2>1, <2>2, <2>3, <2>4
  <1>3. CASE TaskStep
    <2>1. PICK t \in Tasks : Handling(t) \/ Hindrance(t)
      BY <1>3 DEF TaskStep
    <2>2. t \in Threads
      BY Constants
    <2>3. \A q \in Tasks : SameReceipt(q) \/ work'[q].id = NoId
      <3>1. CASE Heartbeat(t)
        BY <1>w, <3>1 DEF Heartbeat
      <3>2. CASE ~Heartbeat(t)
        <4>1. PICK place \in Places : GoIdle(t) \/ Goto(t, place) \/ LookUp(t, place)
          BY <1>p, <2>1, <3>2
          DEF Handling, Hindrance, CheckOutbox, Renew, ExecuteDone, ExecuteFails, ProbeAnswers,
              Ack, Retry, Settle, ExecuteHeld, ProbeFails, FinalizeFails, TaskCallFails
        <4>2. QED
          BY <2>2, <4>1, MoveReceipt
      <3>3. QED
        BY <3>1, <3>2
    <2>4. \A i \in Ids : \/ SameClaim(i)
                         \/ entry'[i].state = "none"
                         \/ i = lastId + 1 /\ entry'[i].state = "new"
      <3>1. CASE entry' = entry \/ Touch(t)
        BY <1>e, <1>r, <3>1
      <3>2. CASE \E o \in Outcomes : Retire(t, o) /\ Receipt(t)
        BY <1>n, <3>2 DEF Retire, Receipt, SameClaim, TypeOK
      <3>3. CASE Replace(t) /\ Receipt(t) /\ ~Exhausted(work[t].attempt)
        <4>1. work[t].job \in Jobs /\ work[t].attempt + 1 \in Attempts /\ work[t].id \in Ids
          BY <2>2, <3>3, ReceiptOpen, LimitAssumption DEF Exhausted, Attempts, TypeOK, Work
        <4> DEFINE next == Envelope(work[t].job, work[t].attempt + 1)
        <4>2. next.state = "new"
          BY <4>1 DEF Envelope, NoEntry
        <4>3. entry' = [entry EXCEPT ![work[t].id] = NoEntry, ![lastId + 1] = next]
          BY <3>3 DEF Replace
        <4> HIDE DEF next
        <4>4. QED
          BY <1>n, <4>1, <4>2, <4>3 DEF SameClaim, TypeOK
      <3>4. QED
        BY <2>1, <3>1, <3>2, <3>3
        DEF Handling, Hindrance, CheckOutbox, Renew, ExecuteDone, ExecuteFails, ProbeAnswers,
            Ack, Retry, Settle, Heartbeat, ExecuteHeld, ProbeFails, FinalizeFails, TaskCallFails, Outcomes
    <2>5. QED
      BY <2>3, <2>4 DEF NoClaim
  <1>4. CASE Reconciling
    <2>1. PICK t \in Threads : Apply(t) \/ ApplyFails(t) \/ Complete(t) \/ CompleteFails(t)
      BY <1>4 DEF Reconciling
    <2>2. entry' = entry /\ (GoIdle(t) \/ Goto(t, "complete"))
      BY <2>1 DEF Apply, ApplyFails, Complete, CompleteFails
    <2>3. \A q \in Tasks : SameReceipt(q) \/ work'[q].id = NoId
      BY <1>p, <2>2, MoveReceipt
    <2>4. QED
      BY <1>e, <2>2, <2>3 DEF NoClaim
  <1>5. CASE ReaperStep
    BY <1>5, ReaperClaims DEF ReaperStep
  <1>6. CASE TimePasses
    <2>1. PICK i \in Ids : entry' = [entry EXCEPT ![i].idle = TRUE] /\ work' = work
      BY <1>6 DEF TimePasses, Lapse, Stall
    <2>2. \A k \in Ids : SameClaim(k)
      BY <2>1 DEF SameClaim, TypeOK, Entry
    <2>3. QED
      BY <1>w, <2>1, <2>2 DEF NoClaim
  <1>7. CASE \E w \in Workers : Crash(w)
    <2>1. \A t \in Tasks : SameReceipt(t) \/ work'[t].id = NoId
      BY <1>7, Constants DEF Crash, SameReceipt, NoWork
    <2>2. QED
      BY <1>7, <1>e, <2>1 DEF Crash, NoClaim
  <1>8. CASE UNCHANGED vars
    BY <1>8, <1>e, <1>w DEF vars, NoClaim
  <1>9. QED
    BY <1>1, <1>2, <1>3, <1>4, <1>5, <1>6, <1>7, <1>8 DEF Next
-----------------------------------------------------------------------------
(* Claims: who holds a delivery, and who holds it last.                    *)

\* Every task holds an old or the newest claim of its delivery, one task at
\* most the newest, and a reaper never claims again what its slots hold.
ClaimsCounted ==
    /\ \A i \in Ids : entry[i].state = "new" => \A t \in Tasks : work[t].id # i
    /\ \A t \in Tasks : ReceiptPending(t) => work[t].count <= entry[work[t].id].count
    /\ \A t, u \in Tasks :
         /\ ReceiptPending(t) /\ work[u].id = work[t].id
         /\ work[t].count = entry[work[t].id].count /\ work[u].count = work[t].count
         /\ work[t].count < MaxCount
         => t = u
    /\ ReaperKeepsItsReceipts

\* Who holds an entry after a step, and which claim of it.
LEMMA HolderAfter ==
    ASSUME QueueInv, ClaimsCounted, [Next]_vars,
           NEW t \in Tasks, work'[t].id \in Ids,
           entry'[work'[t].id].state # "none"
    PROVE  LET i == work'[t].id IN
           \/ SameReceipt(t) /\ SameClaim(i)
           \/ /\ entry'[i].state = "pending" /\ entry'[i].count = 1 /\ work'[t].count = 1
              /\ \A u \in Tasks : work'[u].id = i => u = t
              /\ t \in Consumers
           \/ \E w \in Workers : /\ Reclaim(w) /\ i \in Batch(w)
                                 /\ entry'[i].owner = w /\ entry'[i].count = Bump(entry[i].count)
                                 /\ entry'[i].state = entry[i].state
                                 /\ SameReceipt(t) \/ work'[t].count = Bump(entry[i].count)
  <1> DEFINE i == work'[t].id
  <1>0. /\ t \in Threads /\ i \in Nat /\ i # NoId
        /\ lastId \in Nat /\ work[t].id <= lastId
    BY Constants, MaxIdNat DEF QueueInv, Formed, TypeOK, Ids, NoId
  <1>1. CASE NoClaim
    <2>1. SameReceipt(t)
      BY <1>0, <1>1 DEF NoClaim
    <2>2. i # lastId + 1
      BY <1>0, <2>1 DEF SameReceipt
    <2>3. SameClaim(i)
      BY <1>1, <2>2 DEF NoClaim
    <2>4. QED
      BY <2>1, <2>3
  <1>2. ASSUME NEW c \in Consumers, FirstClaim(c)
        PROVE  \/ SameReceipt(t) /\ SameClaim(i)
               \/ /\ entry'[i].state = "pending" /\ entry'[i].count = 1 /\ work'[t].count = 1
                  /\ \A u \in Tasks : work'[u].id = i => u = t
                  /\ t \in Consumers
    <2>1. PICK k \in Ids :
            /\ entry[k].state = "new"
            /\ entry'[k].state = "pending" /\ entry'[k].owner = c /\ entry'[k].count = 1
            /\ \A m \in Ids : m # k => SameClaim(m)
            /\ \A u \in Tasks : \/ SameReceipt(u)
                                \/ u = c /\ work'[u].id = k /\ work'[u].count = 1
      BY <1>2 DEF FirstClaim
    <2>2. \A u \in Tasks : work[u].id # k
      BY <2>1 DEF ClaimsCounted
    <2>3. CASE i = k
      <3>1. \A u \in Tasks : work'[u].id = i => u = c /\ work'[u].count = 1
        BY <2>1, <2>2, <2>3 DEF SameReceipt
      <3>2. QED
        BY <2>1, <2>3, <3>1
    <2>4. CASE i # k
      BY <2>1, <2>4
    <2>5. QED
      BY <2>3, <2>4
  <1>3. ASSUME NEW w \in Workers, Reclaim(w)
        PROVE  \/ SameReceipt(t) /\ SameClaim(i)
               \/ /\ Reclaim(w) /\ i \in Batch(w)
                  /\ entry'[i].owner = w /\ entry'[i].count = Bump(entry[i].count)
                  /\ entry'[i].state = entry[i].state
                  /\ SameReceipt(t) \/ work'[t].count = Bump(entry[i].count)
    <2>1. CASE i \in Batch(w)
      BY <1>3, <2>1 DEF Reclaim
    <2>2. CASE i \notin Batch(w)
      BY <1>3, <2>2 DEF Reclaim
    <2>3. QED
      BY <2>1, <2>2
  <1>4. QED
    BY <1>1, <1>2, <1>3, ClaimStep

\* One more claim is counted, up to the bound.
LEMMA BumpCounts ==
    ASSUME NEW n \in 0..MaxCount
    PROVE  n <= Bump(n) /\ (Bump(n) < MaxCount => n < Bump(n))
  BY LimitAssumption DEF Bump

\* The counts of claims stay in order.
LEMMA ClaimsStep ==
    ASSUME QueueInv, ClaimsCounted, [Next]_vars
    PROVE  ClaimsCounted'
  <1>0. TypeOK /\ TypeOK' /\ Formed
    BY TypeStep DEF QueueInv
  <1>t. Tasks \subseteq Threads /\ Slots \subseteq Tasks /\ Slots \cap Consumers = {}
    BY Constants, TaskAssumption DEF Tasks
  <1>1. ASSUME NEW i \in Ids, entry'[i].state = "new", NEW t \in Tasks, work'[t].id = i
        PROVE  FALSE
    <2>1. CASE SameReceipt(t) /\ SameClaim(i)
      BY <1>1, <2>1 DEF ClaimsCounted, SameReceipt, SameClaim
    <2>2. ASSUME NEW w \in Workers, i \in Batch(w), entry'[i].state = entry[i].state
          PROVE  FALSE
      BY <1>1, <2>2 DEF Batch, Stale
    <2>3. QED
      BY <1>1, <2>1, <2>2, HolderAfter
  <1>2. ASSUME NEW t \in Tasks, work'[t].id \in Ids, entry'[work'[t].id].state = "pending"
        PROVE  work'[t].count <= entry'[work'[t].id].count
    <2> DEFINE i == work'[t].id
    <2>0. /\ entry[i].count \in 0..MaxCount /\ work[t].count \in 0..MaxCount
          /\ MaxCount \in Nat /\ Bump(entry[i].count) \in 0..MaxCount
      BY <1>0, <1>2, <1>t, LimitAssumption, Constants DEF TypeOK, Entry, Work
    <2>1. CASE SameReceipt(t) /\ SameClaim(i)
      BY <1>2, <2>1 DEF ClaimsCounted, ReceiptPending, SameReceipt, SameClaim
    <2>2. ASSUME NEW w \in Workers, i \in Batch(w), entry'[i].count = Bump(entry[i].count),
                 entry'[i].state = entry[i].state,
                 SameReceipt(t) \/ work'[t].count = Bump(entry[i].count)
          PROVE  work'[t].count <= entry'[i].count
      <3>1. CASE work'[t].count = Bump(entry[i].count)
        BY <2>0, <2>2, <3>1
      <3>2. CASE SameReceipt(t)
        <4>1. work[t].count <= entry[i].count
          BY <1>2, <2>2, <3>2 DEF ClaimsCounted, ReceiptPending, SameReceipt
        <4>2. QED
          BY <2>0, <2>2, <3>2, <4>1, BumpCounts DEF SameReceipt
      <3>3. QED
        BY <2>2, <3>1, <3>2
    <2>3. CASE entry'[i].count = 1 /\ work'[t].count = 1
      BY <2>3
    <2>4. QED
      BY <1>2, <2>1, <2>2, <2>3, HolderAfter
  <1>3. ASSUME NEW t \in Tasks, NEW u \in Tasks, work'[t].id \in Ids,
               entry'[work'[t].id].state = "pending", work'[u].id = work'[t].id,
               work'[t].count = entry'[work'[t].id].count, work'[u].count = work'[t].count,
               work'[t].count < MaxCount
        PROVE  t = u
    <2> DEFINE i == work'[t].id
    <2>1. CASE SameClaim(i) /\ SameReceipt(t) /\ SameReceipt(u)
      BY <1>3, <2>1 DEF ClaimsCounted, ReceiptPending, SameReceipt, SameClaim
    <2>2. ASSUME NEW w \in Workers, Reclaim(w), i \in Batch(w), entry'[i].count = Bump(entry[i].count)
          PROVE  t = u
      <3>0. entry[i].state = "pending"
        BY <2>2 DEF Batch, Stale
      <3>1. ASSUME NEW q \in Tasks, work'[q].id = i, work'[q].count = entry'[i].count
            PROVE  ~SameReceipt(q)
        <4>1. SUFFICES ASSUME SameReceipt(q) PROVE FALSE
          OBVIOUS
        <4>2. work[q].count <= entry[i].count
          BY <1>3, <3>0, <3>1, <4>1 DEF ClaimsCounted, ReceiptPending, SameReceipt
        <4>3. entry[i].count \in 0..MaxCount /\ work[q].count \in 0..MaxCount
          BY <1>0, <1>3, <1>t DEF TypeOK, Entry, Work
        <4>4. entry[i].count < Bump(entry[i].count)
          BY <1>3, <2>2, <4>3, BumpCounts
        <4>5. QED
          BY <2>2, <3>1, <4>1, <4>2, <4>3, <4>4, LimitAssumption DEF SameReceipt, Bump
      <3>2. QED
        BY <1>3, <2>2, <3>1 DEF Reclaim
    <2>3. CASE \/ \A q \in Tasks : work'[q].id = i => q = t
               \/ \A q \in Tasks : work'[q].id = i => q = u
      BY <1>3, <2>3
    <2>4. /\ \/ SameReceipt(t) /\ SameClaim(i)
             \/ \A q \in Tasks : work'[q].id = i => q = t
             \/ \E w \in Workers : Reclaim(w) /\ i \in Batch(w) /\ entry'[i].count = Bump(entry[i].count)
          /\ \/ SameReceipt(u) /\ SameClaim(i)
             \/ \A q \in Tasks : work'[q].id = i => q = u
             \/ \E w \in Workers : Reclaim(w) /\ i \in Batch(w) /\ entry'[i].count = Bump(entry[i].count)
      <3>1. entry'[i].state # "none" /\ work'[u].id \in Ids
        BY <1>3
      <3>2. QED
        BY <1>3, <3>1, HolderAfter
    <2>5. QED
      BY <2>1, <2>2, <2>3, <2>4
  <1>4. ASSUME NEW s \in Slots, work'[s].id # NoId, entry'[work'[s].id].state = "pending",
               entry'[work'[s].id].owner = Name(s)
        PROVE  entry'[work'[s].id].count = work'[s].count
    <2> DEFINE i == work'[s].id
    <2>0. i \in Ids /\ s \in Tasks /\ s \notin Consumers /\ Name(s) = Host[s]
      BY <1>0, <1>4, <1>t DEF TypeOK, Work, Name
    <2>1. CASE SameReceipt(s) /\ SameClaim(i)
      <3>1. work[s].id # NoId /\ entry[work[s].id].state = "pending" /\ entry[work[s].id].owner = Name(s)
        BY <1>4, <2>1 DEF SameReceipt, SameClaim
      <3>2. entry[work[s].id].count = work[s].count
        BY <3>1 DEF ClaimsCounted, ReaperKeepsItsReceipts
      <3>3. QED
        BY <2>1, <3>2 DEF SameReceipt, SameClaim
    <2>2. ASSUME NEW w \in Workers, i \in Batch(w), entry'[i].owner = w,
                 entry'[i].count = Bump(entry[i].count),
                 SameReceipt(s) \/ work'[s].count = Bump(entry[i].count)
          PROVE  entry'[i].count = work'[s].count
      <3>1. CASE SameReceipt(s)
        <4>1. work[s].id = i /\ Host[s] = w
          BY <1>4, <2>0, <2>2, <3>1 DEF SameReceipt
        <4>2. i \in InFlight(w)
          BY <4>1 DEF InFlight
        <4>3. QED
          BY <2>2, <4>2 DEF Batch, Stale
      <3>2. QED
        BY <2>2, <3>1
    <2>3. QED
      BY <1>4, <2>0, <2>1, <2>2, HolderAfter
  <1>5. QED
    <2>1. ReaperKeepsItsReceipts'
      BY <1>4 DEF ReaperKeepsItsReceipts, Name
    <2>2. QED
      BY <1>1, <1>2, <1>3, <2>1 DEF ClaimsCounted, ReceiptPending

LEMMA ClaimsInvariance == Spec => []ClaimsCounted
  <1>1. Init => ClaimsCounted
    BY Constants, MaxIdNat
    DEF Init, ClaimsCounted, ReceiptPending, ReaperKeepsItsReceipts, NoEntry, NoWork, Ids, NoId, Threads, Tasks
  <1>2. QueueInv /\ ClaimsCounted /\ [Next]_vars => ClaimsCounted'
    BY ClaimsStep
  <1>3. QED
    BY <1>1, <1>2, QueueInvariance, PTL DEF Spec

\* CLAIM_STALE never supersedes a delivery that a slot of the same reaper is
\* still running, however long that delivery sat idle.
THEOREM ReapersKeepTheirReceipts == Spec => []ReaperKeepsItsReceipts
  <1>1. ClaimsCounted => ReaperKeepsItsReceipts
    BY DEF ClaimsCounted
  <1>2. QED
    BY <1>1, ClaimsInvariance, PTL

\* A pending delivery leaves the stream only by the finalize script of a task
\* with a current receipt.
LEMMA RetiredBy ==
    ASSUME QueueInv, [Next]_vars, NEW i \in Ids,
           entry[i].state = "pending", entry'[i].state = "none"
    PROVE  \E t \in Tasks : pc[t] \in {"ack", "retry"} /\ Receipt(t) /\ work[t].id = i
  <1> USE DEF QueueInv
  <1>1. CASE Keeps
    BY <1>1 DEF Keeps, SameEntries, Live
  <1>2. ASSUME NEW j \in Jobs, Enters(j) PROVE FALSE
    <2> DEFINE first == Envelope(j, 0)
    <2>1. entry' = [entry EXCEPT ![lastId + 1] = first]
      BY <1>2 DEF Enters, AppendJob
    <2>2. first.state = "new"
      BY DEF Envelope, NoEntry
    <2> HIDE DEF first
    <2>3. QED
      BY <2>1, <2>2 DEF TypeOK
  <1>3. ASSUME NEW t \in Tasks, Retries(t)
        PROVE  pc[t] \in {"ack", "retry"} /\ Receipt(t) /\ work[t].id = i
    <2> DEFINE next == Envelope(work[t].job, work[t].attempt + 1)
    <2>1. entry' = [entry EXCEPT ![work[t].id] = NoEntry, ![lastId + 1] = next]
      BY <1>3 DEF Retries, Replace
    <2>2. next.state = "new"
      BY DEF Envelope, NoEntry
    <2> HIDE DEF next
    <2>3. i = work[t].id
      BY <2>1, <2>2 DEF TypeOK
    <2>4. QED
      BY <1>3, <2>3 DEF Retries
  <1>4. ASSUME NEW t \in Tasks, NEW o \in Outcomes, Ends(t, o)
        PROVE  pc[t] \in {"ack", "retry"} /\ Receipt(t) /\ work[t].id = i
    BY <1>4 DEF Ends, Retire, TypeOK
  <1>5. QED
    BY <1>1, <1>2, <1>3, <1>4, QueueStep

\* A delivery is never retired under the task that claimed it last while that
\* task still works on it: a superseded task's late ack or failure is fenced
\* off by owner and delivery count (FINALIZE_DELIVERY).
THEOREM NewestClaimsDecide == Spec => NewestClaimDecides
  <1>1. ASSUME QueueInv, ClaimsCounted, [Next]_vars,
               NEW i \in Ids, NEW t \in Tasks,
               entry[i].state = "pending", entry'[i].state = "none",
               work[t].id = i, work[t].count = entry[i].count, entry[i].count < MaxCount
        PROVE  pc[t] \in {"ack", "retry"}
    <2>1. PICK u \in Tasks : pc[u] \in {"ack", "retry"} /\ Receipt(u) /\ work[u].id = i
      BY <1>1, RetiredBy
    <2>2. work[u].count = entry[i].count
      BY <2>1 DEF Receipt
    <2>3. ReceiptPending(t)
      BY <1>1 DEF ReceiptPending
    <2>4. t = u
      BY <1>1, <2>1, <2>2, <2>3 DEF ClaimsCounted
    <2>5. QED
      BY <2>1, <2>4
  <1>2. QueueInv /\ ClaimsCounted /\ [Next]_vars
        => [\A i \in Ids, t \in Tasks :
              /\ entry[i].state = "pending" /\ entry'[i].state = "none"
              /\ work[t].id = i /\ work[t].count = entry[i].count
              /\ entry[i].count < MaxCount
              => pc[t] \in {"ack", "retry"}]_vars
    BY <1>1
  <1>3. QED
    BY <1>2, QueueInvariance, ClaimsInvariance, PTL DEF Spec, NewestClaimDecides
=============================================================================
