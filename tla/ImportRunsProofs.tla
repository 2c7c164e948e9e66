------------------------- MODULE ImportRunsProofs -------------------------
(***************************************************************************)
(* Theorems about ImportRuns, for any workers, runs and threads and any    *)
(* bounds: what the THREAD# rows, the runner's lease and the receipts      *)
(* promise whatever overlaps, pauses, crashes and edits there are.         *)
(***************************************************************************)
EXTENDS ImportRuns, FiniteSetTheorems, TLAPS

Entry == [at : {"none", "ready", "held", "left", "final"},
          by : Workers \union {Nobody},
          attempt : 0..MAX_RETRIES,
          verdict : Verdicts \ {"error"}]

-----------------------------------------------------------------------------
(* Types, one part per kind of row.                                        *)
MetaType ==
    /\ published \in [Runs -> {"no", "reserved", "published", "activated"}]
    /\ active \in Runs \union {None} /\ statusBy \in Runs \union {None}
    /\ status \in {"Connected", "Running"} \union (Verdicts \ {"none", "error"})
    /\ applied \subseteq Runs /\ staged \subseteq Runs /\ late \subseteq Runs
    /\ unswept \subseteq Runs /\ mishaps \in 0..MaxMishaps

LeaseType == lease \in [by : Workers \union {Nobody, Gone}, fresh : BOOLEAN]

QueueType == delivery \in [Runs -> Entry]

RowType ==
    /\ state \in [Threads -> States] /\ attempts \in [Threads -> Nat]
    /\ reserved \in [Threads -> DocIds \union {NoDoc}]
    /\ row \subseteq DocIds /\ version \in [DocIds -> 1..2]

StepType == pc \in [Workers -> Steps]

WorkerType ==
    /\ run \in [Workers -> Runs \union {None}]
    /\ at \in [Workers -> 1..(N + 1)]
    /\ doc \in [Workers -> DocIds \union {NoDoc}]
    /\ verdict \in [Workers -> Verdicts]
    /\ paused \subseteq Workers /\ lapsed \subseteq Workers

SeenType ==
    /\ seen \in [Workers -> [Threads -> States]]
    /\ owing \in [Workers -> BOOLEAN]

Types ==
    /\ MetaType /\ LeaseType /\ QueueType /\ RowType /\ StepType /\ WorkerType
    /\ SeenType

\* A worker in the middle of a thread, and one that works on a run.
Busy(w) == pc[w] \in {"row", "object", "check", "reassert", "link", "checkpoint"}
Engaged == \A w \in Workers :
    /\ pc[w] # "idle" => run[w] \in Runs
    /\ Busy(w) => at[w] \in Threads /\ doc[w] \in DocIds

-----------------------------------------------------------------------------
LEMMA EntryFields ==
    ASSUME NEW e \in Entry
    PROVE  /\ e.at \in {"none", "ready", "held", "left", "final"}
           /\ e.by \in Workers \union {Nobody}
           /\ e.attempt \in 0..MAX_RETRIES /\ e.verdict \in Verdicts \ {"error"}
           /\ e = [at |-> e.at, by |-> e.by, attempt |-> e.attempt,
                   verdict |-> e.verdict]
  BY DEF Entry

LEMMA EntryOf ==
    ASSUME NEW a \in {"none", "ready", "held", "left", "final"},
           NEW b \in Workers \union {Nobody}, NEW n \in 0..MAX_RETRIES,
           NEW v \in Verdicts \ {"error"}
    PROVE  [at |-> a, by |-> b, attempt |-> n, verdict |-> v] \in Entry
  BY DEF Entry

\* What a step may do to the entry of a run, and to no other.
Moves(r, a, b, n, v) ==
    /\ delivery' \in [Runs -> Entry]
    /\ delivery'[r].at = a /\ delivery'[r].by = b
    /\ delivery'[r].attempt = n /\ delivery'[r].verdict = v
    /\ \A q \in Runs : q # r => delivery'[q] = delivery[q]

LEMMA Replaced ==
    ASSUME QueueType, NEW r \in Runs,
           NEW a \in {"none", "ready", "held", "left", "final"},
           NEW b \in Workers \union {Nobody}, NEW n \in 0..MAX_RETRIES,
           NEW v \in Verdicts \ {"error"},
           delivery' = [delivery EXCEPT ![r] = [at |-> a, by |-> b, attempt |-> n,
                                                verdict |-> v]]
    PROVE  Moves(r, a, b, n, v)
  BY EntryOf DEF QueueType, Moves

LEMMA MovedAt ==
    ASSUME QueueType, NEW r \in Runs,
           NEW a \in {"none", "ready", "held", "left", "final"},
           delivery' = [delivery EXCEPT ![r].at = a]
    PROVE  Moves(r, a, delivery[r].by, delivery[r].attempt, delivery[r].verdict)
  <1>1. delivery[r] \in Entry
    BY DEF QueueType
  <1>2. [delivery[r] EXCEPT !.at = a] =
          [at |-> a, by |-> delivery[r].by, attempt |-> delivery[r].attempt,
           verdict |-> delivery[r].verdict]
    BY <1>1 DEF Entry
  <1>3. QED
    BY <1>1, <1>2, EntryFields, Replaced

LEMMA MovedBy ==
    ASSUME QueueType, NEW r \in Runs,
           NEW a \in {"none", "ready", "held", "left", "final"},
           NEW b \in Workers \union {Nobody},
           delivery' = Passed(r, a, b)
    PROVE  Moves(r, a, b, delivery[r].attempt, delivery[r].verdict)
  <1>1. delivery[r] \in Entry
    BY DEF QueueType
  <1>2. delivery[r].attempt \in 0..MAX_RETRIES /\ delivery[r].verdict \in Verdicts \ {"error"}
    BY <1>1, EntryFields
  <1>3. QED
    BY <1>2, Replaced DEF Passed

LEMMA MovedFinal ==
    ASSUME QueueType, NEW r \in Runs, NEW v \in Verdicts \ {"error"}, Settle(r, v)
    PROVE  Moves(r, "final", Nobody, delivery[r].attempt, v)
  <1>1. delivery[r] \in Entry
    BY DEF QueueType
  <1>2. delivery[r].attempt \in 0..MAX_RETRIES
    BY <1>1, EntryFields
  <1>3. QED
    BY <1>2, Replaced DEF Settle

LEMMA MovedAgain ==
    ASSUME QueueType, NEW r \in Runs, delivery[r].attempt < MAX_RETRIES,
           delivery' = [delivery EXCEPT
                ![r] = [at |-> "ready", by |-> Nobody,
                        attempt |-> @.attempt + 1, verdict |-> @.verdict]]
    PROVE  Moves(r, "ready", Nobody, delivery[r].attempt + 1, delivery[r].verdict)
  <1>1. delivery[r] \in Entry
    BY DEF QueueType
  <1>2. delivery[r].attempt + 1 \in 0..MAX_RETRIES
    BY <1>1, EntryFields, ImportAssumption
  <1>3. QED
    BY <1>1, <1>2, EntryFields, Replaced

\* Every step moves at most one entry: it enters the stream, is taken, is left
\* pending, comes back, or is settled.
QueueStep ==
    \/ delivery' = delivery
    \/ \E r \in Runs :
        \/ /\ Enqueue(r)
           /\ Moves(r, "ready", delivery[r].by, delivery[r].attempt, delivery[r].verdict)
        \/ \E w \in Workers : 
            /\ Take(w, r)
            /\ Moves(r, "held", w, delivery[r].attempt, delivery[r].verdict)
        \/ /\ delivery[r].at = "held"
           /\ Moves(r, "left", Nobody, delivery[r].attempt, delivery[r].verdict)
        \/ \E w \in Workers :
            /\ HoldsReceipt(w, r) /\ pc[w] = "ending" /\ r = run[w]
            /\ \/ /\ Retry(w)
                  /\ Moves(r, "ready", Nobody, delivery[r].attempt + 1, delivery[r].verdict)
               \/ /\ verdict[w] = "error" /\ Retry(w)
                  /\ Moves(r, "final", Nobody, delivery[r].attempt, "Failed")
               \/ /\ verdict[w] # "error" /\ Ack(w)
                  /\ Moves(r, "final", Nobody, delivery[r].attempt, verdict[w])

LEMMA QueueMoves ==
    ASSUME QueueType, MetaType, WorkerType, StepType, Engaged, Next
    PROVE  QueueStep
  <1>1. CASE \E r \in Runs : Enqueue(r)
    <2>1. PICK r \in Runs : Enqueue(r)
      BY <1>1
    <2>2. Moves(r, "ready", delivery[r].by, delivery[r].attempt, delivery[r].verdict)
      BY <2>1, MovedAt DEF Enqueue
    <2>3. QED
      BY <2>1, <2>2 DEF QueueStep
  <1>2. CASE \E w \in Workers, r \in Runs : Take(w, r)
    <2>1. PICK w \in Workers, r \in Runs : Take(w, r)
      BY <1>2
    <2>2. Moves(r, "held", w, delivery[r].attempt, delivery[r].verdict)
      BY <2>1, MovedBy DEF Take
    <2>3. QED
      BY <2>1, <2>2 DEF QueueStep
  <1>3. CASE \E w \in Workers : StandBack(w) \/ LeavePending(w) \/ Crash(w)
    <2>1. PICK w \in Workers : StandBack(w) \/ LeavePending(w) \/ Crash(w)
      BY <1>3
    <2>2. run[w] \in Runs
      BY <2>1 DEF Engaged, StandBack, LeavePending, Crash, Awake
    <2>3. CASE ~HoldsReceipt(w, run[w])
      BY <2>1, <2>3 DEF StandBack, LeavePending, Crash, QueueStep
    <2>4. CASE HoldsReceipt(w, run[w])
      <3>1. delivery' = Passed(run[w], "left", Nobody)
        BY <2>1, <2>4 DEF StandBack, LeavePending, Crash
      <3>2. Moves(run[w], "left", Nobody, delivery[run[w]].attempt, delivery[run[w]].verdict)
        BY <2>2, <3>1, MovedBy
      <3>3. QED
        BY <2>2, <2>4, <3>2 DEF QueueStep, HoldsReceipt
    <2>5. QED
      BY <2>3, <2>4
  <1>4. CASE \E r \in Runs : Reclaim(r) \/ MissRenewals(r)
    <2>1. PICK r \in Runs : Reclaim(r) \/ MissRenewals(r)
      BY <1>4
    <2>2. Moves(r, "left", Nobody, delivery[r].attempt, delivery[r].verdict)
      BY <2>1, MovedBy DEF Reclaim, MissRenewals
    <2>3. QED
      BY <2>1, <2>2 DEF QueueStep, Reclaim, MissRenewals
  <1>5. CASE \E w \in Workers : Retry(w)
    <2>1. PICK w \in Workers : Retry(w)
      BY <1>5
    <2>2. run[w] \in Runs /\ HoldsReceipt(w, run[w]) /\ pc[w] = "ending"
          /\ verdict[w] = "error"
      BY <2>1 DEF Engaged, Retry, Awake
    <2>3. CASE delivery[run[w]].attempt < MAX_RETRIES
      <3>1. Moves(run[w], "ready", Nobody, delivery[run[w]].attempt + 1,
                  delivery[run[w]].verdict)
        BY <2>1, <2>2, <2>3, MovedAgain DEF Retry
      <3>2. QED
        BY <2>1, <2>2, <3>1 DEF QueueStep
    <2>4. CASE ~(delivery[run[w]].attempt < MAX_RETRIES)
      <3>1. Settle(run[w], "Failed") /\ "Failed" \in Verdicts \ {"error"}
        BY <2>1, <2>4 DEF Retry, Verdicts
      <3>2. Moves(run[w], "final", Nobody, delivery[run[w]].attempt, "Failed")
        BY <2>2, <3>1, MovedFinal
      <3>3. QED
        BY <2>1, <2>2, <3>2 DEF QueueStep
    <2>5. QED
      BY <2>3, <2>4
  <1>6. CASE \E w \in Workers : Ack(w)
    <2>1. PICK w \in Workers : Ack(w)
      BY <1>6
    <2>2. run[w] \in Runs /\ HoldsReceipt(w, run[w]) /\ pc[w] = "ending"
          /\ verdict[w] # "error"
      BY <2>1 DEF Engaged, Ack, Awake
    <2>3. Moves(run[w], "final", Nobody, delivery[run[w]].attempt, verdict[w])
      BY <2>1, <2>2, MovedFinal DEF Ack, WorkerType
    <2>4. QED
      BY <2>1, <2>2, <2>3 DEF QueueStep
  <1>7. QED
    <2>1. CASE \E r \in Runs : Reserve(r) \/ ActivateByStart(r) \/ Apply(r)
      BY <2>1 DEF Reserve, ActivateByStart, Apply, QueueStep
    <2>2. CASE \E w \in Workers : Compare(w) \/ Claim(w) \/ SetRunning(w)
                  \/ Overtaken(w) \/ Interrupt(w) \/ Inventory(w)
      BY <2>2 DEF Compare, Claim, SetRunning, Overtaken, Interrupt, Inventory, QueueStep
    <2>3. CASE \E w \in Workers, t \in Threads : Visit(w, t)
      BY <2>3 DEF Visit, PassOver, Skip, Charge, Prepare, Checkpoint, QueueStep
    <2>4. CASE \E w \in Workers : CreateRow(w) \/ PutObject(w) \/ PutFails(w)
                  \/ CheckUpdates(w) \/ Reassert(w)
      BY <2>4 DEF CreateRow, PutObject, PutFails, CheckUpdates, Reassert, QueueStep
    <2>5. CASE \E w \in Workers : LinkToFolder(w) \/ Finish(w) \/ Leave(w)
                  \/ LeaveUncleared(w)
                  \/ LoseReceipt(w) \/ Heartbeat(w) \/ MissHeartbeats(w) \/ Pause(w)
                  \/ Wake(w)
      BY <2>5
      DEF LinkToFolder, Finish, Leave, LeaveUncleared, LoseReceipt, Heartbeat,
          MissHeartbeats, Pause, Wake, QueueStep
    <2>6. CASE Expire \/ \E d \in DocIds : Open(d) \/ Close(d) \/ Edit(d) \/ Save(d)
      BY <2>6 DEF Expire, Open, Close, Edit, Save, QueueStep
    <2>7. QED
      BY <1>1, <1>2, <1>3, <1>4, <1>5, <1>6, <2>1, <2>2, <2>3, <2>4, <2>5, <2>6
      DEF Next, Handle
-----------------------------------------------------------------------------
(* Types are kept.                                                         *)
LEMMA InitTypes == Init => Types /\ Engaged
  BY ImportAssumption
  DEF Init, Types, MetaType, LeaseType, QueueType, RowType, StepType, WorkerType,
      SeenType, Engaged, Busy, Entry, Verdicts, States, Steps, Nothing, None, NoDoc, vars

LEMMA QueueTyped ==
    ASSUME QueueType, QueueStep
    PROVE  QueueType'
  BY DEF QueueType, QueueStep, Moves

LEMMA MetaTyped ==
    ASSUME Types, Engaged, Next
    PROVE  MetaType'
  <1> USE DEF Types, MetaType
  <1>1. CASE \E r \in Runs : Reserve(r) \/ Enqueue(r) \/ ActivateByStart(r) \/ Reclaim(r)
    BY <1>1 DEF Reserve, Enqueue, ActivateByStart, Reclaim, Activated, meta, fates
  <1>2. CASE \E w \in Workers, r \in Runs : Take(w, r)
    BY <1>2 DEF Take, Activated, fates
  <1>3. CASE \E w \in Workers : Claim(w) \/ SetRunning(w) \/ StandBack(w)
                  \/ Ack(w) \/ Retry(w) \/ LoseReceipt(w)
    <2>1. PICK w \in Workers : Claim(w) \/ SetRunning(w) \/ StandBack(w)
                  \/ Ack(w) \/ Retry(w) \/ LoseReceipt(w)
      BY <1>3
    <2>2. run[w] \in Runs
      BY <2>1 DEF Engaged, Claim, SetRunning, StandBack, Ack, Retry, LoseReceipt, Awake
    <2>3. QED
      BY <2>1, <2>2 DEF Claim, SetRunning, StandBack, Ack, Retry, LoseReceipt,
         Belated, ToIdle, meta, fates
  <1>4. CASE \/ \E r \in Runs : MissRenewals(r)
             \/ \E w \in Workers : LeavePending(w) \/ Pause(w) \/ Crash(w) \/ Wake(w)
                               \/ LeaveUncleared(w) \/ MissHeartbeats(w)
    BY <1>4, ImportAssumption
    DEF MissRenewals, LeavePending, Pause, Crash, Wake, LeaveUncleared, MissHeartbeats,
        Mishap, meta
  <1>5. CASE \E w \in Workers : Compare(w) \/ Overtaken(w) \/ Interrupt(w) \/ Inventory(w)
    BY <1>5 DEF Compare, Overtaken, Interrupt, Inventory, meta, fates
  <1>6. CASE \E w \in Workers, t \in Threads : Visit(w, t)
    <2>1. PICK w \in Workers, t \in Threads : Visit(w, t)
      BY <1>6
    <2>2. CASE Prepare(w, t)
      <3>1. run[w] \in Runs
        BY <2>2 DEF Engaged, Prepare, Visiting, Awake
      <3>2. QED
        BY <2>2, <3>1 DEF Prepare, Belated, meta, fates
    <2>3. QED
      BY <2>1, <2>2 DEF Visit, PassOver, Skip, Charge, Checkpoint, meta, fates
  <1>7. CASE \E w \in Workers : CreateRow(w) \/ PutObject(w) \/ PutFails(w)
                  \/ CheckUpdates(w) \/ Reassert(w)
    BY <1>7 DEF CreateRow, PutObject, PutFails, CheckUpdates, Reassert, meta, fates
  <1>8. CASE \E w \in Workers : LinkToFolder(w) \/ Finish(w) \/ Leave(w) \/ Heartbeat(w)
    BY <1>8 DEF LinkToFolder, Finish, Leave, Heartbeat, meta, fates
  <1>9. CASE Expire \/ \E d \in DocIds : Open(d) \/ Close(d) \/ Edit(d) \/ Save(d)
    BY <1>9 DEF Expire, Open, Close, Edit, Save, meta, fates
  <1>10. CASE \E r \in Runs : Apply(r)
    <2>1. PICK r \in Runs : Apply(r)
      BY <1>10
    <2>2. delivery[r].verdict \in Verdicts \ {"none", "error"}
      BY <2>1, EntryFields DEF Apply, QueueType
    <2>3. QED
      BY <2>1, <2>2 DEF Apply, Sweep, fates
  <1>11. QED
    BY <1>1, <1>2, <1>3, <1>4, <1>5, <1>6, <1>7, <1>8, <1>9, <1>10 DEF Next, Handle

LEMMA LeaseOf ==
    ASSUME NEW b \in Workers \union {Nobody, Gone}, NEW f \in BOOLEAN
    PROVE  [by |-> b, fresh |-> f] \in [by : Workers \union {Nobody, Gone}, fresh : BOOLEAN]
  OBVIOUS

LEMMA LeaseFields ==
    ASSUME LeaseType
    PROVE  /\ lease.by \in Workers \union {Nobody, Gone} /\ lease.fresh \in BOOLEAN
           /\ lease = [by |-> lease.by, fresh |-> lease.fresh]
           /\ \A b : [lease EXCEPT !.by = b] = [by |-> b, fresh |-> lease.fresh]
           /\ \A f : [lease EXCEPT !.fresh = f] = [by |-> lease.by, fresh |-> f]
  BY DEF LeaseType

\* What a step may do to the lease.
LeaseStep ==
    \/ lease' = lease
    \/ /\ lease' = [by |-> lease.by, fresh |-> FALSE]
       /\ Expire \/ \E w \in Workers : MissHeartbeats(w)
    \/ \E w \in Workers :
        \/ Claim(w) /\ lease' = [by |-> w, fresh |-> TRUE]
        \/ /\ Leave(w) \/ LeaveUncleared(w) \/ Crash(w)
           /\ lease.by = w /\ lease'.by \in {Nobody, Gone} /\ LeaseType'
        \/ /\ lease.by = w /\ w \notin paused
           /\ lease' = [by |-> lease.by, fresh |-> TRUE] /\ Heartbeat(w)

LEMMA LeaseMoves ==
    ASSUME LeaseType, Next
    PROVE  LeaseStep
  <1>1. CASE \E w \in Workers : Claim(w)
    BY <1>1 DEF Claim, LeaseStep
  <1>2. CASE \E w \in Workers : Leave(w) \/ LeaveUncleared(w) \/ Crash(w)
    <2>1. PICK w \in Workers : Leave(w) \/ LeaveUncleared(w) \/ Crash(w)
      BY <1>2
    <2>2. CASE lease.by # w
      BY <2>1, <2>2 DEF Leave, LeaveUncleared, Crash, Released, Orphaned, LeaseStep
    <2>3. CASE lease.by = w
      <3>1. \/ lease' = [by |-> Nobody, fresh |-> FALSE]
            \/ lease' = [by |-> Gone, fresh |-> lease.fresh]
        BY <2>1, <2>3, LeaseFields
        DEF Leave, LeaveUncleared, Crash, Released, Orphaned, NoLease
      <3>2. lease'.by \in {Nobody, Gone} /\ LeaseType'
        <4>1. CASE lease' = [by |-> Nobody, fresh |-> FALSE]
          BY <4>1 DEF LeaseType
        <4>2. CASE lease' = [by |-> Gone, fresh |-> lease.fresh]
          BY <4>2, LeaseFields DEF LeaseType
        <4>3. QED
          BY <3>1, <4>1, <4>2
      <3>3. QED
        BY <2>1, <2>3, <3>2 DEF LeaseStep
    <2>4. QED
      BY <2>2, <2>3
  <1>3. CASE Expire \/ \E w \in Workers : MissHeartbeats(w)
    BY <1>3, LeaseFields DEF Expire, MissHeartbeats, LeaseStep
  <1>4. CASE \E w \in Workers : Heartbeat(w)
    BY <1>4, LeaseFields DEF Heartbeat, LeaseStep
  <1>5. CASE \E r \in Runs : Reserve(r) \/ Enqueue(r) \/ ActivateByStart(r)
                               \/ Apply(r) \/ Reclaim(r) \/ MissRenewals(r)
    BY <1>5 DEF Reserve, Enqueue, ActivateByStart, Apply, Reclaim, MissRenewals, LeaseStep
  <1>6. CASE \E w \in Workers, r \in Runs : Take(w, r)
    BY <1>6 DEF Take, LeaseStep
  <1>7. CASE \E w \in Workers : Compare(w) \/ StandBack(w) \/ SetRunning(w)
                  \/ Overtaken(w) \/ Interrupt(w) \/ Inventory(w)
    BY <1>7 DEF Compare, StandBack, SetRunning, Overtaken, Interrupt, Inventory, LeaseStep
  <1>8. CASE \E w \in Workers, t \in Threads : Visit(w, t)
    BY <1>8 DEF Visit, PassOver, Skip, Charge, Prepare, Checkpoint, LeaseStep
  <1>9. CASE \E w \in Workers : CreateRow(w) \/ PutObject(w) \/ PutFails(w)
                  \/ CheckUpdates(w) \/ Reassert(w) \/ LinkToFolder(w)
    BY <1>9 DEF CreateRow, PutObject, PutFails, CheckUpdates, Reassert, LinkToFolder,
       LeaseStep
  <1>10. CASE \E w \in Workers : Finish(w) \/ Ack(w) \/ Retry(w) \/ LeavePending(w)
                  \/ LoseReceipt(w) \/ Pause(w) \/ Wake(w)
    BY <1>10 DEF Finish, Ack, Retry, LeavePending, LoseReceipt, Pause, Wake, LeaseStep
  <1>11. CASE \E d \in DocIds : Open(d) \/ Close(d) \/ Edit(d) \/ Save(d)
    BY <1>11 DEF Open, Close, Edit, Save, LeaseStep
  <1>12. QED
    BY <1>1, <1>2, <1>3, <1>4, <1>5, <1>6, <1>7, <1>8, <1>9, <1>10, <1>11 DEF Next, Handle

LEMMA LeaseTyped ==
    ASSUME LeaseType, LeaseStep
    PROVE  LeaseType'
  <1>1. lease.by \in Workers \union {Nobody, Gone} /\ lease.fresh \in BOOLEAN
    BY LeaseFields
  <1>2. CASE lease' = lease
    BY <1>2 DEF LeaseType
  <1>3. CASE lease' # lease
    BY <1>1, <1>3, LeaseOf DEF LeaseStep, LeaseType
  <1>4. QED
    BY <1>2, <1>3

LEMMA SettledId ==
    ASSUME Types, NEW w \in Workers, NEW t \in Threads
    PROVE  /\ Settled(t, <<t, w>>) \in DocIds \union {NoDoc}
           /\ Settled(t, <<t, w>>) # NoDoc
           /\ reserved[t] # NoDoc => Settled(t, <<t, w>>) = reserved[t]
           /\ reserved[t] = NoDoc => Settled(t, <<t, w>>) = <<t, w>>
  BY ImportAssumption DEF Types, RowType, Settled, DocIds, NoDoc

LEMMA RowTyped ==
    ASSUME Types, Engaged, Next
    PROVE  RowType'
  <1> USE DEF Types, RowType
  <1>1. CASE \E w \in Workers, t \in Threads : Visit(w, t)
    <2>1. PICK w \in Workers, t \in Threads : Visit(w, t)
      BY <1>1
    <2>2. CASE PassOver(w, t) \/ Skip(w, t) \/ Checkpoint(w, t)
      BY <2>2 DEF PassOver, Skip, Checkpoint, threads, docs, States
    <2>3. CASE Charge(w, t)
      BY <2>3 DEF Charge, docs, States
    <2>4. CASE Prepare(w, t)
      BY <2>4, SettledId DEF Prepare, docs
    <2>5. QED
      BY <2>1, <2>2, <2>3, <2>4 DEF Visit
  <1>2. CASE \E w \in Workers : Inventory(w)
    BY <1>2 DEF Inventory, Inserted, docs, States
  <1>3. CASE \E w \in Workers : CreateRow(w) \/ Reassert(w)
    <2>1. PICK w \in Workers : CreateRow(w) \/ Reassert(w)
      BY <1>3
    <2>2. doc[w] \in DocIds
      BY <2>1 DEF Engaged, Busy, CreateRow, Reassert, Awake
    <2>3. QED
      BY <2>1, <2>2 DEF CreateRow, Reassert, SetIfExpected, threads
  <1>4. CASE \E d \in DocIds : Open(d) \/ Close(d) \/ Edit(d) \/ Save(d)
    BY <1>4 DEF Open, Close, Edit, Save, threads
  <1>5. CASE \/ \E r \in Runs : Reserve(r) \/ Enqueue(r) \/ ActivateByStart(r)
                                \/ Apply(r) \/ Reclaim(r) \/ MissRenewals(r)
             \/ \E w \in Workers, r \in Runs : Take(w, r)
             \/ Expire
    BY <1>5
    DEF Reserve, Enqueue, ActivateByStart, Apply, Reclaim, MissRenewals, Take, Expire,
        threads, docs
  <1>6. CASE \E w \in Workers : Compare(w) \/ Claim(w) \/ StandBack(w) \/ SetRunning(w)
                  \/ Overtaken(w) \/ Interrupt(w)
    BY <1>6 DEF Compare, Claim, StandBack, SetRunning, Overtaken, Interrupt, threads, docs
  <1>7. CASE \E w \in Workers : PutObject(w) \/ PutFails(w) \/ CheckUpdates(w)
                  \/ LinkToFolder(w) \/ Finish(w) \/ Leave(w) \/ LeaveUncleared(w)
    BY <1>7
    DEF PutObject, PutFails, CheckUpdates, LinkToFolder, Finish, Leave, LeaveUncleared,
        threads, docs
  <1>8. CASE \E w \in Workers : Ack(w) \/ Retry(w) \/ LeavePending(w) \/ LoseReceipt(w)
                  \/ Pause(w) \/ Wake(w) \/ Crash(w) \/ Heartbeat(w) \/ MissHeartbeats(w)
    BY <1>8
    DEF Ack, Retry, LeavePending, LoseReceipt, Pause, Wake, Crash, Heartbeat,
        MissHeartbeats,
       threads, docs
  <1>9. QED
    BY <1>1, <1>2, <1>3, <1>4, <1>5, <1>6, <1>7, <1>8 DEF Next, Handle

LEMMA NoDocIsNone == NoDoc \notin DocIds
  BY ImportAssumption DEF NoDoc, DocIds, Threads, None

LEMMA WorkerTyped ==
    ASSUME Types, Engaged, Next
    PROVE  WorkerType' /\ StepType' /\ Engaged'
  <1> USE DEF Types, WorkerType, StepType, Engaged, Busy
  <1>1. CASE \E w \in Workers, r \in Runs : Take(w, r)
    BY <1>1 DEF Take, Awake, Go, fates, Steps
  <1>2. CASE \E w \in Workers : Compare(w) \/ Claim(w) \/ SetRunning(w) \/ Overtaken(w)
    BY <1>2 DEF Compare, Claim, SetRunning, Overtaken, Awake, Go, local, fates, Steps
  <1>3. CASE \E w \in Workers : StandBack(w) \/ Ack(w) \/ Retry(w) \/ LoseReceipt(w)
    BY <1>3, ImportAssumption
    DEF StandBack, Ack, Retry, LoseReceipt, Awake, ToIdle, EndPass, Go, Answer, Steps,
        Verdicts
  <1>4. CASE \E w \in Workers : LeavePending(w) \/ Crash(w)
    BY <1>4, ImportAssumption
    DEF LeavePending, Crash, Awake, ToIdle, EndPass, Go, Answer, Steps, Verdicts, Mishap
  <1>5. CASE \E w \in Workers : Interrupt(w)
    BY <1>5, ImportAssumption
    DEF Interrupt, Awake, EndPass, Go, Answer, fates, Steps, Verdicts
  <1>6. CASE \E w \in Workers : Inventory(w)
    BY <1>6, ImportAssumption DEF Inventory, Awake, Go, fates, Steps
  <1>7. CASE \E w \in Workers, t \in Threads : PassOver(w, t) \/ Skip(w, t) \/ Charge(w, t)
    BY <1>7, ImportAssumption
    DEF PassOver, Skip, Charge, Visiting, Awake, Onward, fates, Threads
  <1>8. CASE \E w \in Workers, t \in Threads : Prepare(w, t)
    <2>1. PICK w \in Workers, t \in Threads : Prepare(w, t)
      BY <1>8
    <2>2. Settled(t, <<t, w>>) \in DocIds
      BY SettledId
    <2>3. QED
      BY <2>1, <2>2 DEF Prepare, Visiting, Awake, Go, fates, Steps
  <1>9. CASE \E w \in Workers, t \in Threads : Checkpoint(w, t)
    BY <1>9, ImportAssumption DEF Checkpoint, Awake, Onward, Go, fates, Threads, Steps
  <1>10. CASE \E w \in Workers : CreateRow(w) \/ PutObject(w) \/ PutFails(w)
                  \/ CheckUpdates(w) \/ Reassert(w) \/ LinkToFolder(w)
    BY <1>10 DEF CreateRow, PutObject, PutFails, CheckUpdates, Reassert, LinkToFolder,
       Awake, Go, local, fates, Steps
  <1>11. CASE \E w \in Workers : Finish(w) \/ Leave(w) \/ LeaveUncleared(w)
    BY <1>11, ImportAssumption
    DEF Finish, Leave, LeaveUncleared, Awake, EndPass, Answer, Go, local, fates, Steps,
        Verdicts
  <1>12. CASE \E w \in Workers : Heartbeat(w) \/ MissHeartbeats(w) \/ Pause(w) \/ Wake(w)
    BY <1>12 DEF Heartbeat, MissHeartbeats, Pause, Wake, Mishap, local, fates
  <1>13. CASE Expire \/ (\E d \in DocIds : Open(d) \/ Close(d) \/ Edit(d) \/ Save(d))
              \/ \E r \in Runs : Reserve(r) \/ Enqueue(r) \/ ActivateByStart(r)
                               \/ Apply(r) \/ Reclaim(r) \/ MissRenewals(r)
    BY <1>13
    DEF Expire, Open, Close, Edit, Save, Reserve, Enqueue, ActivateByStart, Apply,
        Reclaim, MissRenewals,
       local, fates
  <1>14. QED
    BY <1>1, <1>2, <1>3, <1>4, <1>5, <1>6, <1>7, <1>8, <1>9, <1>10, <1>11, <1>12, <1>13
    DEF Next, Handle, Visit
LEMMA SeenTyped ==
    ASSUME Types, Next
    PROVE  SeenType'
  <1> USE DEF Types, SeenType
  <1>1. Nothing \in [Threads -> States]
    BY DEF Nothing, States
  <1>2. Inserted \in [Threads -> States]
    BY DEF RowType, Inserted, States
  <1>3. CASE \E w \in Workers, t \in Threads : Visit(w, t)
    <2> PICK w \in Workers, t \in Threads : Visit(w, t)
      BY <1>3
    <2>1. CASE PassOver(w, t) \/ Skip(w, t)
      BY <2>1 DEF PassOver, Skip
    <2>2. CASE Charge(w, t) \/ Prepare(w, t) \/ Checkpoint(w, t)
      BY <2>2 DEF Charge, Prepare, Checkpoint
    <2>3. QED
      BY <2>1, <2>2 DEF Visit
  <1>4. CASE \E w \in Workers : Inventory(w)
    BY <1>2, <1>4 DEF Inventory
  <1>5. CASE \E w \in Workers : StandBack(w) \/ Ack(w) \/ Retry(w) \/ LoseReceipt(w)
                  \/ LeavePending(w) \/ Crash(w)
    <2>1. PICK w \in Workers : ToIdle(w)
      BY <1>5 DEF StandBack, Ack, Retry, LoseReceipt, LeavePending, Crash
    <2>2. QED
      BY <1>1, <2>1 DEF ToIdle, EndPass
  <1>6. CASE \E w \in Workers : Interrupt(w) \/ Finish(w)
    BY <1>1, <1>6 DEF Interrupt, Finish, EndPass
  <1>7. CASE \E w \in Workers : Compare(w) \/ Claim(w) \/ SetRunning(w) \/ Overtaken(w)
                  \/ Leave(w) \/ LeaveUncleared(w) \/ Heartbeat(w)
                  \/ MissHeartbeats(w) \/ Pause(w) \/ Wake(w)
    BY <1>7
    DEF Compare, Claim, SetRunning, Overtaken, Leave, LeaveUncleared, Heartbeat,
        MissHeartbeats, Pause, Wake, local
  <1>8. CASE \E w \in Workers : CreateRow(w) \/ PutObject(w) \/ PutFails(w)
                  \/ CheckUpdates(w) \/ Reassert(w) \/ LinkToFolder(w)
    BY <1>8 DEF CreateRow, PutObject, PutFails, CheckUpdates, Reassert, LinkToFolder, local
  <1>9. CASE Expire \/ (\E d \in DocIds : Open(d) \/ Close(d) \/ Edit(d) \/ Save(d))
              \/ \E r \in Runs : Reserve(r) \/ Enqueue(r) \/ ActivateByStart(r)
                               \/ Apply(r) \/ Reclaim(r) \/ MissRenewals(r)
    BY <1>9
    DEF Expire, Open, Close, Edit, Save, Reserve, Enqueue, ActivateByStart, Apply,
        Reclaim, MissRenewals, local
  <1>10. CASE \E w \in Workers, r \in Runs : Take(w, r)
    BY <1>10 DEF Take
  <1>11. QED
    BY <1>3, <1>4, <1>5, <1>6, <1>7, <1>8, <1>9, <1>10 DEF Next, Handle

LEMMA NextTypes ==
    ASSUME Types, Engaged, [Next]_vars
    PROVE  Types' /\ Engaged'
  <1>1. CASE Next
    BY <1>1, QueueMoves, QueueTyped, MetaTyped, LeaseMoves, LeaseTyped, RowTyped,
       WorkerTyped, SeenTyped DEF Types
  <1>2. CASE vars' = vars
    <2>1. MetaType' /\ LeaseType' /\ QueueType'
      BY <1>2 DEF vars, meta, fates, Types, MetaType, LeaseType, QueueType
    <2>2. RowType' /\ SeenType'
      BY <1>2 DEF vars, threads, docs, local, Types, RowType, SeenType
    <2>3. StepType' /\ WorkerType' /\ Engaged'
      BY <1>2 DEF vars, local, fates, Types, StepType, WorkerType, Engaged, Busy
    <2>4. QED
      BY <2>1, <2>2, <2>3 DEF Types
  <1>3. QED
    BY <1>1, <1>2
-----------------------------------------------------------------------------
(* The documents.                                                          *)
\* A thread's id is one of its own, and a document that was created has it.
IdsInv ==
    /\ \A t \in Threads : reserved[t] # NoDoc => reserved[t][1] = t
    /\ \A d \in row : reserved[d[1]] = d

NestedInv ==
    /\ object \subseteq row /\ linked \subseteq row
    /\ edited \subseteq object /\ Rooms \subseteq object
    /\ exposed \subseteq object /\ disturbed \subseteq object
    /\ stale \subseteq exposed

\* A worker in the middle of a thread has the thread's id, and has made of the
\* document what its step says.
Making(w) ==
    /\ Busy(w) => doc[w] = reserved[at[w]]
    /\ Busy(w) /\ pc[w] # "row" => doc[w] \in row
    /\ pc[w] \in {"link", "checkpoint"} => doc[w] \in object
    /\ pc[w] = "checkpoint" => doc[w] \in linked
    /\ pc[w] \in {"object", "reassert"} /\ doc[w] \in edited \union Rooms
         => doc[w] \in exposed

DocInv ==
    /\ IdsInv /\ NestedInv /\ DoneHasDocument /\ EditsDisturbedOnlyIfOpen
    /\ \A w \in Workers : Making(w)

\* What most steps leave of the documents: everything.
Untold ==
    /\ reserved' = reserved /\ docs' = docs
    /\ \A t \in Threads : state'[t] = "ContentDone" => state[t] = "ContentDone"
    /\ \A w \in Workers :
        \/ pc'[w] = pc[w] /\ at'[w] = at[w] /\ doc'[w] = doc[w]
        \/ ~Busy(w)'

LEMMA InitDoc == Init => DocInv
  BY DEF Init, DocInv, IdsInv, NestedInv, Making, Busy, Rooms,
         DoneHasDocument, EditsDisturbedOnlyIfOpen

LEMMA UntoldKeeps ==
    ASSUME DocInv, Untold
    PROVE  DocInv'
  <1> USE DEF DocInv, Untold, docs, live, Rooms
  <1>1. IdsInv' /\ NestedInv' /\ EditsDisturbedOnlyIfOpen'
    BY DEF IdsInv, NestedInv, EditsDisturbedOnlyIfOpen
  <1>2. DoneHasDocument'
    BY DEF DoneHasDocument
  <1>3. ASSUME NEW w \in Workers PROVE Making(w)'
    BY DEF Making, Busy
  <1>4. QED
    BY <1>1, <1>2, <1>3

LEMMA MostUntold ==
    ASSUME Types, Engaged, Next
    PROVE  \/ Untold
           \/ \E w \in Workers, t \in Threads : Prepare(w, t) \/ Checkpoint(w, t)
           \/ \E w \in Workers : CreateRow(w) \/ PutObject(w) \/ CheckUpdates(w)
                                 \/ Reassert(w) \/ LinkToFolder(w) \/ PutFails(w)
           \/ \E d \in DocIds : Open(d) \/ Close(d) \/ Edit(d) \/ Save(d)
  <1> USE DEF Types, StepType, Busy
  <1>1. CASE \E w \in Workers, r \in Runs : Take(w, r)
    BY <1>1 DEF Take, Go, threads, Untold
  <1>2. CASE \E w \in Workers : Compare(w) \/ Claim(w) \/ SetRunning(w) \/ Overtaken(w)
                  \/ Leave(w) \/ LeaveUncleared(w)
    BY <1>2
    DEF Compare, Claim, SetRunning, Overtaken, Leave, LeaveUncleared, Go, local, threads,
        Untold
  <1>3. CASE \E w \in Workers : StandBack(w) \/ Ack(w) \/ Retry(w) \/ LoseReceipt(w)
                  \/ LeavePending(w) \/ Crash(w)
    BY <1>3
    DEF StandBack, Ack, Retry, LoseReceipt, LeavePending, Crash, ToIdle, EndPass, Go,
        threads, Untold, WorkerType
  <1>4. CASE \E w \in Workers : Interrupt(w) \/ Finish(w)
    BY <1>4 DEF Interrupt, Finish, EndPass, Go, threads, Untold, WorkerType
  <1>5. CASE \E w \in Workers : Inventory(w)
    BY <1>5 DEF Inventory, Inserted, Go, Untold, WorkerType
  <1>6. CASE \E w \in Workers, t \in Threads : PassOver(w, t) \/ Skip(w, t) \/ Charge(w, t)
    BY <1>6 DEF PassOver, Skip, Charge, Visiting, Awake, Onward, threads, Untold,
       WorkerType, RowType
  <1>7. CASE Expire \/ (\E w \in Workers : Heartbeat(w) \/ MissHeartbeats(w)
                  \/ Pause(w) \/ Wake(w))
              \/ \E r \in Runs : Reserve(r) \/ Enqueue(r) \/ ActivateByStart(r)
                               \/ Apply(r) \/ Reclaim(r) \/ MissRenewals(r)
    BY <1>7
    DEF Expire, Heartbeat, MissHeartbeats, Pause, Wake, Reserve, Enqueue, ActivateByStart,
       Apply, Reclaim, MissRenewals, local, threads, Untold
  <1>8. QED
    BY <1>1, <1>2, <1>3, <1>4, <1>5, <1>6, <1>7 DEF Next, Handle, Visit

\* Reserving: the first id stays.
LEMMA PrepareKeeps ==
    ASSUME Types, Engaged, DocInv, NEW w \in Workers, NEW t \in Threads, Prepare(w, t)
    PROVE  DocInv'
  <1>1. /\ reserved' = [reserved EXCEPT ![t] = Settled(t, <<t, w>>)]
        /\ doc' = [doc EXCEPT ![w] = Settled(t, <<t, w>>)]
        /\ pc' = [pc EXCEPT ![w] = "row"] /\ at' = at /\ at[w] = t
        /\ state' = state /\ docs' = docs
    BY DEF Prepare, Visiting, Go
  <1>2. \A u \in Threads : reserved[u] # NoDoc => reserved'[u] = reserved[u]
    BY <1>1, SettledId DEF Types, RowType
  <1>3. /\ reserved'[t] = Settled(t, <<t, w>>) /\ doc'[w] = reserved'[t]
        /\ pc'[w] = "row" /\ \A u \in Threads : u # t => reserved'[u] = reserved[u]
        /\ \A v \in Workers : v # w => pc'[v] = pc[v] /\ doc'[v] = doc[v]
    BY <1>1 DEF Types, RowType, WorkerType, StepType
  <1>4. \A d \in DocIds : d[1] \in Threads
    BY DEF DocIds
  <1>5. IdsInv'
    <2>1. \A u \in Threads : reserved'[u] # NoDoc => reserved'[u][1] = u
      BY <1>3, SettledId DEF DocInv, IdsInv
    <2>2. \A d \in row : reserved'[d[1]] = d
      BY <1>2, <1>4, NoDocIsNone DEF DocInv, IdsInv, Types, RowType
    <2>3. QED
      BY <1>1, <2>1, <2>2 DEF IdsInv, docs
  <1>6. NestedInv' /\ EditsDisturbedOnlyIfOpen'
    BY <1>1 DEF DocInv, NestedInv, EditsDisturbedOnlyIfOpen, docs, live, Rooms
  <1>7. DoneHasDocument'
    BY <1>1, <1>2, NoDocIsNone DEF DocInv, DoneHasDocument, docs, Types, RowType
  <1>8. Making(w)'
    BY <1>1, <1>3 DEF Making, Busy
  <1>9. ASSUME NEW v \in Workers, v # w PROVE Making(v)'
    <2>1. Busy(v) => reserved'[at[v]] = reserved[at[v]]
      BY <1>2, NoDocIsNone DEF Engaged, DocInv, Making
    <2>2. QED
      BY <1>1, <1>3, <1>9, <2>1 DEF DocInv, Making, Busy, docs, live, Rooms
  <1>10. QED
    BY <1>5, <1>6, <1>7, <1>8, <1>9 DEF DocInv

\* A write of the object moves its rooms from it, and adds nothing else.
LEMMA RewriteMoves ==
    ASSUME NEW d \in DocIds, Rewrite(d)
    PROVE  /\ object' = object \union {d} /\ Rooms' = Rooms
           /\ stale' \subseteq stale \union ({d} \cap Rooms)
           /\ disturbed' \subseteq disturbed \union ({d} \cap edited)
  BY DEF Rewrite, Rooms

\* The steps that make the document only add to it, and a write of it that is
\* decided on shows the document as exposed when it is open.
LEMMA MakingKeeps ==
    ASSUME Types, Engaged, DocInv, NEW w \in Workers,
           CreateRow(w) \/ PutObject(w) \/ PutFails(w) \/ CheckUpdates(w)
              \/ Reassert(w) \/ LinkToFolder(w)
    PROVE  DocInv'
  <1> USE DEF CreateRow, PutObject, PutFails, CheckUpdates, Reassert, LinkToFolder,
              LeavesAlone, Awake
  <1>1. Busy(w) /\ Making(w) /\ at[w] \in Threads /\ doc[w] \in DocIds
        /\ doc[w] = reserved[at[w]] /\ reserved[at[w]][1] = at[w]
    BY NoDocIsNone DEF Busy, Engaged, DocInv, Making, IdsInv
  <1>2. /\ threads' = threads /\ at' = at /\ doc' = doc /\ edited' = edited
        /\ row \subseteq row' /\ linked \subseteq linked'
        /\ pc'[w] \in {"object", "check", "reassert", "link", "checkpoint"}
        /\ \A v \in Workers : v # w => pc'[v] = pc[v]
    BY DEF docs, live, local, threads, Go, Types, StepType
  <1>3. /\ object \subseteq object' /\ Rooms' = Rooms /\ exposed \subseteq exposed'
        /\ stale' \subseteq exposed' /\ disturbed' \subseteq exposed'
    <2>1. CASE PutObject(w) \/ Reassert(w)
      <3>1. Rewrite(doc[w]) /\ exposed' = exposed /\ pc[w] \in {"object", "reassert"}
        BY <2>1
      <3>2. doc[w] \in edited \union Rooms => doc[w] \in exposed
        BY <1>1, <3>1 DEF Making
      <3>3. QED
        BY <1>1, <3>1, <3>2, RewriteMoves
        DEF DocInv, NestedInv, EditsDisturbedOnlyIfOpen
    <2>2. CASE CreateRow(w) \/ PutFails(w) \/ CheckUpdates(w) \/ LinkToFolder(w)
      BY <2>2 DEF docs, live, Rooms, DocInv, NestedInv, EditsDisturbedOnlyIfOpen
    <2>3. QED
      BY <2>1, <2>2
  <1>4. IdsInv'
    <2>1. row' \subseteq row \union {doc[w]}
      BY DEF docs
    <2>2. QED
      BY <1>1, <1>2, <2>1 DEF DocInv, IdsInv, threads
  <1>5. NestedInv'
    <2>1. object' \subseteq object \union {doc[w]} /\ doc[w] \in row'
          /\ linked' \subseteq linked \union {doc[w]} /\ exposed' \subseteq object'
      BY <1>1 DEF DocInv, NestedInv, Making, Busy, Rooms, Rewrite, docs, live
    <2>2. QED
      BY <1>1, <1>2, <1>3, <2>1 DEF DocInv, NestedInv
  <1>6. DoneHasDocument'
    BY <1>2, <1>3 DEF DocInv, DoneHasDocument, threads
  <1>7. Making(w)'
    <2>1. /\ doc[w] \in row' /\ (pc'[w] = "checkpoint" => doc[w] \in linked')
          /\ (pc'[w] \in {"link", "checkpoint"} => doc[w] \in object')
      BY <1>1, <1>2, <1>3
      DEF DocInv, NestedInv, Making, Busy, Go, Rewrite, docs, live, Types, StepType
    <2>2. pc'[w] \in {"object", "reassert"} /\ doc[w] \in edited \union Rooms
            => doc[w] \in exposed'
      BY <1>1 DEF DocInv, NestedInv, Go, Rooms, docs, Types, StepType
    <2>3. QED
      BY <1>1, <1>2, <1>3, <2>1, <2>2 DEF Making, Busy, threads
  <1>8. ASSUME NEW v \in Workers, v # w PROVE Making(v)'
    BY <1>2, <1>3, <1>8 DEF DocInv, Making, Busy, threads
  <1>9. QED
    BY <1>3, <1>4, <1>5, <1>6, <1>7, <1>8 DEF DocInv, EditsDisturbedOnlyIfOpen

LEMMA CheckpointKeeps ==
    ASSUME Types, Engaged, DocInv, NEW w \in Workers, NEW t \in Threads, Checkpoint(w, t)
    PROVE  DocInv'
  <1>1. /\ reserved' = reserved /\ docs' = docs /\ pc[w] = "checkpoint" /\ at[w] = t
        /\ pc'[w] = "walking"
        /\ \A v \in Workers : v # w => pc'[v] = pc[v] /\ at'[v] = at[v] /\ doc'[v] = doc[v]
        /\ \A u \in Threads : u # t => state'[u] = state[u]
    BY DEF Checkpoint, Awake, Onward, Go, Types, RowType, WorkerType, StepType
  <1>2. doc[w] = reserved[t] /\ doc[w] \in row \cap object \cap linked
    BY <1>1 DEF DocInv, Making, Busy
  <1>3. DoneHasDocument'
    BY <1>1, <1>2 DEF DocInv, DoneHasDocument, docs
  <1>4. IdsInv' /\ NestedInv' /\ EditsDisturbedOnlyIfOpen'
    BY <1>1 DEF DocInv, IdsInv, NestedInv, EditsDisturbedOnlyIfOpen, docs, live, Rooms
  <1>5. ASSUME NEW v \in Workers PROVE Making(v)'
    BY <1>1 DEF DocInv, Making, Busy, docs, live, Rooms
  <1>6. QED
    BY <1>3, <1>4, <1>5 DEF DocInv

\* A room opened while an import write is under way is exposed, so a room whose
\* object was replaced is too, and an edit typed into either.
LEMMA EditKeeps ==
    ASSUME Types, DocInv, NEW d \in DocIds, Open(d) \/ Close(d) \/ Edit(d) \/ Save(d)
    PROVE  DocInv'
  <1> USE DEF Open, Close, Edit, Save
  <1>1. /\ threads' = threads /\ pc' = pc /\ local' = local
        /\ row' = row /\ object' = object /\ linked' = linked
        /\ exposed \subseteq exposed' /\ exposed' \subseteq object
        /\ edited' \subseteq edited \union ({d} \cap Rooms)
        /\ Rooms' \subseteq Rooms \union {d} /\ Rooms' \subseteq object
    BY DEF DocInv, NestedInv, Rooms
  <1>2. stale' \subseteq exposed' /\ disturbed' \subseteq exposed'
    BY DEF DocInv, NestedInv, EditsDisturbedOnlyIfOpen, Rooms
  <1>3. IdsInv' /\ NestedInv' /\ DoneHasDocument'
    BY <1>1, <1>2 DEF DocInv, IdsInv, NestedInv, DoneHasDocument, threads
  <1>4. ASSUME NEW w \in Workers PROVE Making(w)'
    <2>1. pc[w] \in {"object", "reassert"} /\ doc[w] \in edited' \union Rooms'
            => doc[w] \in exposed'
      BY <1>1 DEF DocInv, Making, UnderWay, Rooms
    <2>2. QED
      BY <1>1, <2>1 DEF DocInv, Making, Busy, threads, local
  <1>5. QED
    BY <1>2, <1>3, <1>4 DEF DocInv, EditsDisturbedOnlyIfOpen

LEMMA NextDoc ==
    ASSUME Types, Engaged, DocInv, [Next]_vars
    PROVE  DocInv'
  <1>1. CASE Next
    BY <1>1, MostUntold, UntoldKeeps, PrepareKeeps, MakingKeeps, CheckpointKeeps, EditKeeps
  <1>2. CASE vars' = vars
    BY <1>2, UntoldKeeps DEF vars, threads, local, Untold
  <1>3. QED
    BY <1>1, <1>2
-----------------------------------------------------------------------------
(* The runner's lease.                                                     *)
\* The lease is a runner's, a stale one belongs to a runner whose lease aged
\* out, and a runner whose lease did not still has it.
LeaseInv ==
    /\ lease.by \in Workers => Working(lease.by)
    /\ lease.by \in Workers /\ ~lease.fresh => lease.by \in lapsed
    /\ \A w \in Workers : Working(w) /\ w \notin lapsed => lease.by = w

\* What most steps leave of it: the lease stays and a worker works on.
Undisputed ==
    /\ lease' = lease /\ lapsed \subseteq lapsed'
    /\ \A w \in Workers : Working(w)' = Working(w)

LEMMA InitLease == Init => LeaseInv
  BY ImportAssumption DEF Init, LeaseInv, Working

LEMMA UndisputedKeeps ==
    ASSUME LeaseInv, Undisputed
    PROVE  LeaseInv'
  BY DEF LeaseInv, Undisputed

LEMMA MostUndisputed ==
    ASSUME Types, Next
    PROVE  \/ Undisputed
           \/ Expire
           \/ \E w \in Workers : Claim(w) \/ StandBack(w) \/ Leave(w)
                  \/ LeaveUncleared(w) \/ Ack(w) \/ Retry(w)
                  \/ LeavePending(w) \/ LoseReceipt(w) \/ Crash(w) \/ Heartbeat(w)
                  \/ MissHeartbeats(w)
  <1> USE DEF Types, StepType, WorkerType, Working, Steps
  <1>1. CASE \E w \in Workers, r \in Runs : Take(w, r)
    BY <1>1 DEF Take, Awake, Go, fates, Undisputed
  <1>2. CASE \E w \in Workers : Compare(w) \/ SetRunning(w) \/ Overtaken(w)
                  \/ Inventory(w)
    BY <1>2 DEF Compare, SetRunning, Overtaken, Inventory, Awake, Go, fates, Undisputed
  <1>3. CASE \E w \in Workers : Interrupt(w) \/ Finish(w)
    BY <1>3 DEF Interrupt, Finish, Awake, Go, fates, Undisputed
  <1>4. CASE \E w \in Workers, t \in Threads : Visit(w, t)
    BY <1>4 DEF Visit, PassOver, Skip, Charge, Prepare, Checkpoint, Visiting, Awake, Go,
       fates, Undisputed
  <1>5. CASE \E w \in Workers : CreateRow(w) \/ PutObject(w) \/ PutFails(w)
                  \/ CheckUpdates(w) \/ Reassert(w) \/ LinkToFolder(w)
    BY <1>5 DEF CreateRow, PutObject, PutFails, CheckUpdates, Reassert, LinkToFolder,
       Awake, Go, fates, Undisputed
  <1>6. CASE \E w \in Workers : Pause(w) \/ Wake(w)
    BY <1>6 DEF Pause, Wake, Undisputed
  <1>7. CASE (\E d \in DocIds : Open(d) \/ Close(d) \/ Edit(d) \/ Save(d))
              \/ \E r \in Runs : Reserve(r) \/ Enqueue(r) \/ ActivateByStart(r)
                               \/ Apply(r) \/ Reclaim(r) \/ MissRenewals(r)
    BY <1>7
    DEF Open, Close, Edit, Save, Reserve, Enqueue, ActivateByStart, Apply, Reclaim,
        MissRenewals, fates,
       Undisputed
  <1>8. QED
    BY <1>1, <1>2, <1>3, <1>4, <1>5, <1>6, <1>7 DEF Next, Handle

\* A worker that is done with its delivery does not have the lease by then.
LEMMA DoneKeeps ==
    ASSUME Types, LeaseInv, NEW w \in Workers, lease.by # w, lease' = lease, ToIdle(w)
    PROVE  LeaseInv'
  BY DEF Types, StepType, WorkerType, LeaseInv, ToIdle, Go, Working, Steps

LEMMA NextLease ==
    ASSUME Types, LeaseInv, [Next]_vars
    PROVE  LeaseInv'
  <1>1. CASE Undisputed
    BY <1>1, UndisputedKeeps
  <1>2. CASE vars' = vars
    BY <1>2, UndisputedKeeps DEF vars, fates, Undisputed, Working
  <1>3. CASE Expire \/ \E w \in Workers : MissHeartbeats(w)
    <2>1. /\ lease' = [by |-> lease.by, fresh |-> FALSE]
          /\ lapsed' = lapsed \union ({lease.by} \cap Workers) /\ pc' = pc
      BY <1>3, LeaseFields DEF Expire, MissHeartbeats, Types
    <2>2. QED
      BY <2>1 DEF LeaseInv, Working
  <1>4. CASE \E w \in Workers : Heartbeat(w)
    <2>1. PICK w \in Workers : Heartbeat(w)
      BY <1>4
    <2>2. /\ lease' = [by |-> lease.by, fresh |-> TRUE] /\ lease.by = w
          /\ lapsed' = lapsed \ {w} /\ pc' = pc
      BY <2>1, LeaseFields DEF Heartbeat, Types
    <2>3. QED
      BY <2>2 DEF LeaseInv, Working
  <1>5. CASE \E w \in Workers : Claim(w)
    <2>1. PICK w \in Workers : Claim(w)
      BY <1>5
    <2>2. /\ lease' = [by |-> w, fresh |-> TRUE] /\ lapsed' = lapsed
          /\ pc' = [pc EXCEPT ![w] = "claimed"]
          /\ lease.by = Nobody \/ lease.by = w \/ ~lease.fresh
      BY <2>1 DEF Claim, Claimable, Go, fates
    <2>3. ASSUME NEW v \in Workers, v # w, Working(v)', v \notin lapsed'
          PROVE  FALSE
      <3>1. Working(v) /\ v \notin lapsed
        BY <2>2, <2>3 DEF Working, Types, StepType
      <3>2. lease.by = v
        BY <3>1 DEF LeaseInv
      <3>3. ~lease.fresh
        BY <2>2, <2>3, <3>2, ImportAssumption
      <3>4. QED
        BY <3>1, <3>2, <3>3 DEF LeaseInv
    <2>4. Working(w)'
      BY <2>2 DEF Working, Steps, Types, StepType
    <2>5. QED
      BY <2>2, <2>3, <2>4 DEF LeaseInv
  <1>6. CASE \E w \in Workers : Leave(w) \/ LeaveUncleared(w)
    <2>1. PICK w \in Workers : Leave(w) \/ LeaveUncleared(w)
      BY <1>6
    <2>2. /\ lapsed' = lapsed /\ pc' = [pc EXCEPT ![w] = "ending"]
          /\ lease' = Released(w) \/ lease' = Orphaned(w)
      BY <2>1 DEF Leave, LeaveUncleared, Go, fates
    <2>3. \A v \in Workers : v # w => Working(v)' = Working(v)
      BY <2>2 DEF Working, Types, StepType
    <2>4. ~Working(w)'
      BY <2>2 DEF Working, Types, StepType
    <2>5. CASE lease.by = w
      <3>1. \/ lease' = [by |-> Nobody, fresh |-> FALSE]
            \/ lease' = [by |-> Gone, fresh |-> lease.fresh]
        BY <2>2, <2>5, LeaseFields DEF Released, Orphaned, NoLease, Types
      <3>2. lease'.by \notin Workers
        BY <3>1, ImportAssumption
      <3>3. QED
        BY <2>2, <2>3, <2>4, <2>5, <3>2 DEF LeaseInv
    <2>6. CASE lease.by # w
      <3>1. lease' = lease
        BY <2>2, <2>6 DEF Released, Orphaned
      <3>2. QED
        BY <2>2, <2>3, <2>4, <2>6, <3>1 DEF LeaseInv
    <2>7. QED
      BY <2>5, <2>6
  <1>7. CASE \E w \in Workers : StandBack(w) \/ Ack(w) \/ Retry(w)
                  \/ LeavePending(w) \/ LoseReceipt(w)
    <2>1. PICK w \in Workers : StandBack(w) \/ Ack(w) \/ Retry(w)
                  \/ LeavePending(w) \/ LoseReceipt(w)
      BY <1>7
    <2>2. pc[w] \in {"compared", "ending"} /\ ToIdle(w) /\ lease' = lease
      BY <2>1 DEF StandBack, Ack, Retry, LeavePending, LoseReceipt, Awake
    <2>3. lease.by # w
      BY <2>2 DEF LeaseInv, Working
    <2>4. QED
      BY <2>2, <2>3, DoneKeeps
  <1>8. CASE \E w \in Workers : Crash(w)
    <2>1. PICK w \in Workers : Crash(w)
      BY <1>8
    <2>2. ToIdle(w)
      BY <2>1 DEF Crash
    <2>3. CASE lease.by # w
      BY <2>1, <2>2, <2>3, DoneKeeps DEF Crash, Orphaned
    <2>4. CASE lease.by = w
      <3>1. lease' = [by |-> Gone, fresh |-> lease.fresh]
        BY <2>1, <2>4, LeaseFields DEF Crash, Orphaned, Types
      <3>2. lease'.by \notin Workers
        BY <3>1, ImportAssumption
      <3>3. \A v \in Workers : Working(v)' => v # w /\ Working(v)
        BY <2>2 DEF ToIdle, Go, Working, Types, StepType, Steps
      <3>4. lapsed' = lapsed \ {w}
        BY <2>2 DEF ToIdle
      <3>5. QED
        BY <2>4, <3>2, <3>3, <3>4 DEF LeaseInv
    <2>5. QED
      BY <2>3, <2>4
  <1>9. QED
    BY <1>1, <1>2, <1>3, <1>4, <1>5, <1>6, <1>7, <1>8, MostUndisputed
-----------------------------------------------------------------------------
(* Receipts, verdicts and the status.                                      *)
Answered(r) == delivery[r].at = "final" /\ delivery[r].verdict # "none"
Excused(r) == active > r \/ r \in late

\* The handler has run as far as it needs to for its verdict to count.
Deciding(w) == Working(w) \/ (pc[w] = "ending" /\ verdict[w] # "none")

RunsInv ==
    /\ statusBy <= active
    /\ \A r \in Runs :
        /\ r \in applied => Answered(r)
        /\ published[r] \in {"no", "reserved"} => delivery[r].at = "none"
        /\ delivery[r].at = "final" /\ delivery[r].verdict = "none" => Excused(r)
        /\ Answered(r) /\ r \in applied \ (late \union unswept)
             => delivery[r].verdict = "TokenRejected" \/ r \notin staged
    /\ status = "Running" /\ statusBy \in applied => statusBy \in late

\* A worker on a run has activated it; without a verdict it has a reason; one
\* that claimed the lease with its receipt has the lease or a reason; and while
\* one has the lease that it has still to use, nobody decides the run.
Handling(w) ==
    /\ pc[w] # "idle" => run[w] <= active
    /\ pc[w] \notin {"leaving", "ending"} => verdict[w] = "none"
    /\ pc[w] \in {"leaving", "ending"} /\ verdict[w] = "none" /\ HoldsReceipt(w, run[w])
         => Excused(run[w])
    /\ pc[w] = "claimed" /\ HoldsReceipt(w, run[w])
         => lease.by = w \/ Excused(run[w])

Undecided(w, v) ==
    pc[w] = "claimed" /\ lease.by = w /\ run[w] \notin late =>
        /\ ~Answered(run[w])
        /\ v # w /\ run[v] = run[w] /\ HoldsReceipt(v, run[w]) => ~Deciding(v)

ReceiptInv ==
    /\ RunsInv
    /\ \A w \in Workers : Handling(w)
    /\ \A w, v \in Workers : Undecided(w, v)

\* What most steps leave of it: receipts are lost at most, and a worker stops,
\* goes on from working to working, or comes to its end with a verdict.
GoesOn(w) ==
    \/ pc'[w] = pc[w] /\ run'[w] = run[w] /\ verdict'[w] = verdict[w]
    \/ pc'[w] = "idle" /\ verdict'[w] = "none"
    \/ /\ Working(w) /\ pc'[w] \in Steps \ {"idle", "activated", "compared", "claimed", "ending"}
       /\ run'[w] = run[w]
       /\ pc'[w] = "leaving" <=> verdict'[w] # "none"
    \/ /\ pc[w] = "leaving" /\ pc'[w] = "ending"
       /\ run'[w] = run[w] /\ verdict'[w] = verdict[w]

Calm ==
    /\ active' = active /\ status' = status /\ statusBy' = statusBy
    /\ applied' = applied /\ unswept' = unswept /\ staged' = staged /\ late \subseteq late'
    /\ \A r \in Runs :
        /\ published'[r] \in {"no", "reserved"} => published[r] \in {"no", "reserved"}
        /\ \/ delivery'[r] = delivery[r]
           \/ delivery[r].at = "held" /\ delivery'[r].at = "left"
    /\ \A w \in Workers : GoesOn(w) /\ (pc'[w] = "claimed" => (lease.by = w <=> lease'.by = w))

LEMMA InitReceipt == Init => ReceiptInv
  BY ImportAssumption
  DEF Init, ReceiptInv, RunsInv, Handling, Undecided, None, Answered, HoldsReceipt

LEMMA CalmKeeps ==
    ASSUME Types, Engaged, ReceiptInv, Calm
    PROVE  ReceiptInv'
  <1>1. \A r \in Runs : /\ Answered(r)' <=> Answered(r)
                        /\ Excused(r) => Excused(r)'
                        /\ delivery'[r].at = "final" => delivery'[r] = delivery[r]
                        /\ delivery[r].at = "final" => delivery'[r] = delivery[r]
                        /\ delivery[r].at = "none" => delivery'[r] = delivery[r]
    BY DEF Calm, Answered, Excused
  <1>2. \A w \in Workers, r \in Runs : HoldsReceipt(w, r)' => HoldsReceipt(w, r)
    BY DEF Calm, HoldsReceipt
  <1>3. RunsInv'
    <2>1. \A r \in Runs :
            /\ r \in applied' => Answered(r)'
            /\ published'[r] \in {"no", "reserved"} => delivery'[r].at = "none"
      BY <1>1 DEF Calm, ReceiptInv, RunsInv
    <2>2. \A r \in Runs : delivery'[r].at = "final" /\ delivery'[r].verdict = "none"
                            => Excused(r)'
      BY <1>1 DEF ReceiptInv, RunsInv
    <2>3. \A r \in Runs : Answered(r)' /\ r \in applied' \ (late' \union unswept')
             => delivery'[r].verdict = "TokenRejected" \/ r \notin staged'
      BY <1>1 DEF Calm, ReceiptInv, RunsInv, Answered
    <2>4. QED
      BY <2>1, <2>2, <2>3 DEF Calm, ReceiptInv, RunsInv
  <1>4. ASSUME NEW w \in Workers PROVE Handling(w)'
    <2>1. Handling(w) /\ GoesOn(w)
          /\ (pc'[w] = "claimed" => (lease.by = w <=> lease'.by = w)) /\ active' = active
      BY DEF ReceiptInv, Calm
    <2>2. pc[w] # "idle" => run[w] \in Runs
      BY DEF Engaged
    <2>3. QED
      BY <1>1, <1>2, <2>1, <2>2 DEF Handling, GoesOn, Working, Steps
  <1>5. ASSUME NEW w \in Workers, NEW v \in Workers PROVE Undecided(w, v)'
    <2>1. Undecided(w, v) /\ GoesOn(w) /\ GoesOn(v) /\ Handling(v)
          /\ (pc'[w] = "claimed" => (lease.by = w <=> lease'.by = w)) /\ late \subseteq late'
      BY DEF ReceiptInv, Calm
    <2>2. pc[w] = "claimed" => run[w] \in Runs
      BY DEF Engaged
    <2>3. pc'[w] = "claimed" => pc[w] = "claimed" /\ run'[w] = run[w]
      BY <2>1 DEF GoesOn
    <2>4. Deciding(v)' => Deciding(v) /\ run'[v] = run[v]
      BY <2>1 DEF GoesOn, Deciding, Handling, Working, Steps
    <2>5. QED
      BY <1>1, <1>2, <2>1, <2>2, <2>3, <2>4 DEF Undecided
  <1>6. QED
    BY <1>3, <1>4, <1>5 DEF ReceiptInv

\* Giving up a delivery without an answer loses the receipt at most.
LEMMA Loosened ==
    ASSUME QueueType, NEW r \in Runs, delivery[r].at = "held",
           delivery' = Passed(r, "left", Nobody)
    PROVE  \A q \in Runs : \/ delivery'[q] = delivery[q]
                           \/ delivery[q].at = "held" /\ delivery'[q].at = "left"
  BY MovedBy, EntryFields DEF QueueType, Moves

LEMMA MostCalm ==
    ASSUME Types, Engaged, ReceiptInv, Next
    PROVE  \/ Calm
           \/ \E r \in Runs : Enqueue(r) \/ ActivateByStart(r) \/ Apply(r)
           \/ \E w \in Workers, r \in Runs : Take(w, r)
           \/ \E w \in Workers : Compare(w) \/ Claim(w) \/ SetRunning(w) \/ Overtaken(w)
                                 \/ Ack(w) \/ Retry(w)
           \/ \E w \in Workers, t \in Threads : Prepare(w, t)
  <1> USE DEF Types, StepType, WorkerType, Steps
  <1>1. CASE \E w \in Workers : Interrupt(w)
    <2>1. PICK w \in Workers : Interrupt(w)
      BY <1>1
    <2>2. /\ Working(w) /\ pc' = [pc EXCEPT ![w] = "leaving"]
          /\ \E x \in {"TokenRejected", "Failed", "error"} : Answer(w, x)
          /\ run' = run
      BY <2>1 DEF Interrupt, Awake, Go, Working
    <2>3. /\ \A v \in Workers : GoesOn(v)
          /\ pc'[w] = "leaving"
      BY <2>2 DEF GoesOn, Answer
    <2>4. QED
      BY <2>1, <2>3 DEF Interrupt, meta, Calm
  <1>2. CASE \E w \in Workers : Finish(w)
    <2>1. PICK w \in Workers : Finish(w)
      BY <1>2
    <2>2. /\ Working(w) /\ pc' = [pc EXCEPT ![w] = "leaving"]
          /\ \E x \in {"Succeeded", "error"} : Answer(w, x)
          /\ run' = run
      BY <2>1 DEF Finish, Awake, Go, Working
    <2>3. \A v \in Workers : GoesOn(v)
      BY <2>2 DEF GoesOn, Answer
    <2>4. QED
      BY <2>1, <2>3 DEF Finish, meta, Calm
  <1>3. CASE \E w \in Workers : Inventory(w) \/ CreateRow(w) \/ PutObject(w) \/ PutFails(w)
                  \/ CheckUpdates(w) \/ Reassert(w) \/ LinkToFolder(w)
    <2>1. PICK w \in Workers : Inventory(w) \/ CreateRow(w) \/ PutObject(w) \/ PutFails(w)
                  \/ CheckUpdates(w) \/ Reassert(w) \/ LinkToFolder(w)
      BY <1>3
    <2>2. /\ pc[w] \in {"running", "row", "object", "check", "reassert", "link"}
          /\ \E x \in {"walking", "object", "check", "reassert", "link", "checkpoint"} :
                pc' = [pc EXCEPT ![w] = x]
          /\ run' = run /\ verdict' = verdict /\ lease' = lease
      BY <2>1 DEF Inventory, CreateRow, PutObject, PutFails, CheckUpdates, Reassert,
         LinkToFolder, Awake, Go, local
    <2>3. \A v \in Workers : GoesOn(v)
      BY <2>2 DEF GoesOn, ReceiptInv, Handling, Working
    <2>4. QED
      BY <2>1, <2>2, <2>3
      DEF Inventory, CreateRow, PutObject, PutFails, CheckUpdates, Reassert, LinkToFolder,
          meta, Calm
  <1>4. CASE \E w \in Workers, t \in Threads :
                PassOver(w, t) \/ Skip(w, t) \/ Charge(w, t) \/ Checkpoint(w, t)
    <2>1. PICK w \in Workers, t \in Threads :
                PassOver(w, t) \/ Skip(w, t) \/ Charge(w, t) \/ Checkpoint(w, t)
      BY <1>4
    <2>2. /\ pc' = pc \/ (pc[w] = "checkpoint" /\ pc' = [pc EXCEPT ![w] = "walking"])
          /\ run' = run /\ verdict' = verdict /\ lease' = lease
      BY <2>1 DEF PassOver, Skip, Charge, Checkpoint, Visiting, Awake, Go
    <2>3. \A v \in Workers : GoesOn(v)
      BY <2>2 DEF GoesOn, ReceiptInv, Handling, Working
    <2>4. QED
      BY <2>1, <2>2, <2>3 DEF PassOver, Skip, Charge, Checkpoint, meta, Calm
  <1>5. CASE \E w \in Workers : StandBack(w) \/ LeavePending(w) \/ LoseReceipt(w) \/ Crash(w)
    <2>1. PICK w \in Workers : StandBack(w) \/ LeavePending(w) \/ LoseReceipt(w) \/ Crash(w)
      BY <1>5
    <2>2. ToIdle(w) /\ run[w] \in Runs
      BY <2>1 DEF StandBack, LeavePending, LoseReceipt, Crash, Awake, Engaged
    <2>3. (\A v \in Workers : GoesOn(v)) /\ pc'[w] = "idle"
      BY <2>2 DEF ToIdle, Go, Answer, GoesOn
    <2>4. \A q \in Runs : \/ delivery'[q] = delivery[q]
                          \/ delivery[q].at = "held" /\ delivery'[q].at = "left"
      <3>1. \/ delivery' = delivery
            \/ delivery[run[w]].at = "held" /\ delivery' = Passed(run[w], "left", Nobody)
        BY <2>1 DEF StandBack, LeavePending, LoseReceipt, Crash, HoldsReceipt
      <3>2. QED
        BY <2>2, <3>1, Loosened
    <2>5. \A v \in Workers : pc'[v] = "claimed" => (lease.by = v <=> lease'.by = v)
      <3>1. lease' = lease \/ (lease.by = w /\ lease'.by = Gone)
        <4>1. CASE Crash(w) /\ lease.by = w
          <5>1. lease' = [by |-> Gone, fresh |-> lease.fresh]
            BY <4>1, LeaseFields DEF Crash, Orphaned
          <5>2. QED
            BY <4>1, <5>1
        <4>2. QED
          BY <2>1, <4>1 DEF StandBack, LeavePending, LoseReceipt, Crash, Orphaned
      <3>2. QED
        BY <2>3, <3>1, ImportAssumption
    <2>6. QED
      BY <2>1, <2>3, <2>4, <2>5 DEF StandBack, LeavePending, LoseReceipt, Crash, meta, Calm
  <1>6. CASE \E w \in Workers : Leave(w) \/ LeaveUncleared(w)
    <2>1. PICK w \in Workers : Leave(w) \/ LeaveUncleared(w)
      BY <1>6
    <2>2. pc[w] = "leaving" /\ pc' = [pc EXCEPT ![w] = "ending"] /\ local' = local
      BY <2>1 DEF Leave, LeaveUncleared, Awake, Go
    <2>3. (\A v \in Workers : GoesOn(v)) /\ pc'[w] = "ending"
      BY <2>2 DEF GoesOn, local
    <2>4. \A v \in Workers : pc'[v] = "claimed" => (lease.by = v <=> lease'.by = v)
      <3>1. lease' = lease \/ (lease.by = w /\ lease'.by \in {Nobody, Gone})
        BY <2>1, LeaseFields DEF Leave, LeaveUncleared, Released, Orphaned, NoLease
      <3>2. QED
        BY <2>3, <3>1, ImportAssumption
    <2>5. QED
      BY <2>1, <2>3, <2>4 DEF Leave, LeaveUncleared, meta, Calm
  <1>7. CASE Expire \/ \E w \in Workers : Heartbeat(w) \/ MissHeartbeats(w)
    <2>1. lease'.by = lease.by
      <3>1. \/ lease' = [by |-> lease.by, fresh |-> FALSE]
            \/ lease' = [by |-> lease.by, fresh |-> TRUE]
        BY <1>7, LeaseFields DEF Expire, Heartbeat, MissHeartbeats
      <3>2. QED
        BY <3>1
    <2>2. QED
      BY <1>7, <2>1 DEF Expire, Heartbeat, MissHeartbeats, meta, local, GoesOn, Calm
  <1>8. CASE (\E w \in Workers : Pause(w) \/ Wake(w)) \/ \E d \in DocIds : Open(d)
                  \/ Close(d) \/ Edit(d) \/ Save(d)
    BY <1>8 DEF Pause, Wake, Open, Close, Edit, Save, meta, local, GoesOn, Calm
  <1>9. CASE \E r \in Runs : Reserve(r)
    BY <1>9 DEF Reserve, MetaType, meta, local, GoesOn, Calm
  <1>10. CASE \E r \in Runs : Reclaim(r) \/ MissRenewals(r)
    <2>1. PICK r \in Runs : Reclaim(r) \/ MissRenewals(r)
      BY <1>10
    <2>2. \A q \in Runs : \/ delivery'[q] = delivery[q]
                          \/ delivery[q].at = "held" /\ delivery'[q].at = "left"
      BY <2>1, Loosened DEF Reclaim, MissRenewals
    <2>3. QED
      BY <2>1, <2>2 DEF Reclaim, MissRenewals, meta, local, GoesOn, Calm
  <1>11. QED
    BY <1>1, <1>2, <1>3, <1>4, <1>5, <1>6, <1>7, <1>8, <1>9, <1>10 DEF Next, Handle, Visit
LEMMA StartKeeps ==
    ASSUME Types, Engaged, ReceiptInv, NEW r \in Runs, Enqueue(r) \/ ActivateByStart(r)
    PROVE  ReceiptInv'
  <1>1. /\ active <= active' /\ late' = late /\ applied' = applied /\ staged' = staged
        /\ unswept' = unswept /\ status' = status /\ statusBy' = statusBy /\ lease' = lease
        /\ pc' = pc /\ run' = run /\ verdict' = verdict
    BY DEF Enqueue, ActivateByStart, Activated, meta, local, Types, MetaType, Runs, None
  <1>2. \A q \in Runs :
          \/ delivery'[q] = delivery[q]
          \/ q = r /\ delivery[q].at = "none" /\ delivery'[q].at = "ready"
    <2>1. CASE Enqueue(r)
      <3>1. Moves(r, "ready", delivery[r].by, delivery[r].attempt, delivery[r].verdict)
        BY <2>1, MovedAt DEF Enqueue, Types
      <3>2. delivery[r].at = "none"
        BY <2>1 DEF Enqueue, ReceiptInv, RunsInv
      <3>3. QED
        BY <3>1, <3>2 DEF Moves
    <2>2. CASE ActivateByStart(r)
      BY <2>2 DEF ActivateByStart
    <2>3. QED
      BY <2>1, <2>2
  <1>3. \A q \in Runs : published'[q] \in {"no", "reserved"} =>
                           published[q] \in {"no", "reserved"} /\ delivery'[q] = delivery[q]
    <2>1. published'[r] \notin {"no", "reserved"}
          /\ \A q \in Runs : q # r => published'[q] = published[q]
      BY DEF Enqueue, ActivateByStart, Types, MetaType
    <2>2. QED
      BY <1>2, <2>1
  <1>4. \A q \in Runs : /\ Answered(q)' <=> Answered(q)
                        /\ Excused(q) => Excused(q)'
                        /\ delivery'[q].at = "final" => delivery'[q] = delivery[q]
    <2>1. active \in Int /\ active' \in Int
      BY DEF Enqueue, ActivateByStart, Activated, meta, Types, MetaType, Runs, None
    <2>2. \A q \in Runs : Excused(q) => Excused(q)'
      BY <1>1, <2>1 DEF Excused, Runs
    <2>3. QED
      BY <1>2, <2>2 DEF Answered
  <1>5. \A w \in Workers, q \in Runs : HoldsReceipt(w, q)' => HoldsReceipt(w, q)
    BY <1>2 DEF HoldsReceipt
  <1>6. RunsInv'
    <2>1. statusBy' <= active'
      BY <1>1 DEF ReceiptInv, RunsInv, Types, MetaType, Runs, None,
         Enqueue, ActivateByStart, Activated, meta
    <2>2. \A q \in Runs : Answered(q) => delivery'[q] = delivery[q]
      BY <1>2 DEF Answered
    <2>3. QED
      BY <1>1, <1>3, <1>4, <2>1, <2>2 DEF ReceiptInv, RunsInv, Answered
  <1>7. ASSUME NEW w \in Workers PROVE Handling(w)'
    <2>1. pc[w] # "idle" => run[w] \in Runs
      BY DEF Engaged
    <2>2. pc[w] # "idle" => run[w] <= active'
      BY <2>1 DEF ReceiptInv, Handling, Enqueue, ActivateByStart, Activated, meta, Types,
                  MetaType, Runs, None
    <2>3. QED
      BY <1>1, <1>4, <1>5, <2>1, <2>2 DEF ReceiptInv, Handling
  <1>8. ASSUME NEW w \in Workers, NEW v \in Workers PROVE Undecided(w, v)'
    <2>1. pc[w] = "claimed" => run[w] \in Runs
      BY DEF Engaged
    <2>2. QED
      BY <1>1, <1>4, <1>5, <2>1 DEF ReceiptInv, Undecided, Deciding, Working
  <1>9. QED
    BY <1>6, <1>7, <1>8 DEF ReceiptInv

\* A completion is applied once, of the active run.
LEMMA ApplyKeeps ==
    ASSUME Types, Engaged, ReceiptInv, NEW r \in Runs, Apply(r)
    PROVE  ReceiptInv' /\ statusBy <= statusBy'
  <1>1. /\ active' = active /\ late' = late /\ applied' = applied \union {r}
        /\ delivery' = delivery /\ published' = published /\ lease' = lease
        /\ pc' = pc /\ run' = run /\ verdict' = verdict
        /\ Answered(r) /\ active = r /\ statusBy' = r /\ status' = delivery[r].verdict
        /\ staged' \subseteq staged /\ unswept \subseteq unswept'
        /\ delivery[r].verdict \in {"Succeeded", "Failed"} => r \notin staged' \ unswept'
    BY DEF Apply, Applies, Answered, Sweep, local
  <1>2. status' # "Running" /\ delivery[r].verdict \in {"TokenRejected", "Failed", "Succeeded"}
    BY <1>1, EntryFields DEF Types, QueueType, Verdicts, Answered
  <1>3. statusBy <= r /\ r <= active
    BY <1>1 DEF ReceiptInv, RunsInv, Runs
  <1>4. RunsInv'
    BY <1>1, <1>2, <1>3 DEF ReceiptInv, RunsInv, Answered, Excused
  <1>5. QED
    BY <1>1, <1>3, <1>4 DEF ReceiptInv, Handling, Undecided, Answered, Excused, HoldsReceipt,
       Deciding, Working

LEMMA TakeKeeps ==
    ASSUME Types, Engaged, ReceiptInv, NEW w \in Workers, NEW r \in Runs, Take(w, r)
    PROVE  ReceiptInv'
  <1>1. /\ late' = late /\ applied' = applied /\ staged' = staged /\ published' = published
        /\ unswept' = unswept /\ status' = status /\ statusBy' = statusBy /\ lease' = lease
        /\ verdict' = verdict /\ active' = Activated(r) /\ pc[w] = "idle"
        /\ delivery[r].at \in {"ready", "left"}
        /\ pc'[w] = "activated" /\ run'[w] = r
        /\ \A v \in Workers : v # w => pc'[v] = pc[v] /\ run'[v] = run[v]
    BY DEF Take, Awake, Go, fates, Types, StepType, WorkerType
  <1>2. active \in Int /\ r \in Int /\ active <= active' /\ r <= active' /\ active' \in Int
    BY <1>1 DEF Activated, Types, MetaType, Runs, None
  <1>3. delivery'[r].at = "held" /\ delivery'[r].by = w
        /\ \A q \in Runs : q # r => delivery'[q] = delivery[q]
    BY MovedBy DEF Take, Types, Moves
  <1>4. \A q \in Runs : /\ Answered(q)' <=> Answered(q)
                        /\ Excused(q) => Excused(q)'
                        /\ delivery'[q].at = "final" => delivery'[q] = delivery[q]
    BY <1>1, <1>2, <1>3 DEF Answered, Excused, Runs
  <1>5. \A v \in Workers, q \in Runs : v # w /\ HoldsReceipt(v, q)' => HoldsReceipt(v, q)
    BY <1>1, <1>3 DEF HoldsReceipt
  <1>6. RunsInv'
    <2>1. statusBy' <= active'
      BY <1>1, <1>2 DEF ReceiptInv, RunsInv, Types, MetaType, Runs, None
    <2>2. \A q \in Runs : Answered(q) => delivery'[q] = delivery[q]
      BY <1>1, <1>3 DEF Answered
    <2>3. \A q \in Runs : published'[q] \in {"no", "reserved"} => delivery'[q].at = "none"
      BY <1>1, <1>3 DEF ReceiptInv, RunsInv
    <2>4. QED
      BY <1>1, <1>4, <2>1, <2>2, <2>3 DEF ReceiptInv, RunsInv, Answered
  <1>7. ASSUME NEW v \in Workers PROVE Handling(v)'
    <2>1. CASE v = w
      BY <1>1, <1>2, <2>1 DEF ReceiptInv, Handling
    <2>2. CASE v # w
      <3>1. pc[v] # "idle" => run[v] \in Runs
        BY DEF Engaged
      <3>2. pc[v] # "idle" => run[v] <= active'
        BY <1>2, <3>1 DEF ReceiptInv, Handling, Runs
      <3>3. QED
        BY <1>1, <1>4, <1>5, <2>2, <3>1, <3>2 DEF ReceiptInv, Handling
    <2>3. QED
      BY <2>1, <2>2
  <1>8. ASSUME NEW u \in Workers, NEW v \in Workers PROVE Undecided(u, v)'
    <2>1. pc[u] = "claimed" => run[u] \in Runs
      BY DEF Engaged
    <2>2. ~Deciding(w)'
      BY <1>1 DEF Deciding, Working
    <2>3. v # w => (Deciding(v)' <=> Deciding(v))
      BY <1>1 DEF Deciding, Working
    <2>4. QED
      BY <1>1, <1>4, <1>5, <2>1, <2>2, <2>3 DEF ReceiptInv, Undecided
  <1>9. QED
    BY <1>6, <1>7, <1>8 DEF ReceiptInv

\* A claim without the receipt is late; one with it finds nobody else who
\* could decide the run, and takes the lease from whoever had it.
LEMMA ClaimKeeps ==
    ASSUME Types, Engaged, ReceiptInv, NEW w \in Workers, Claim(w)
    PROVE  ReceiptInv'
  <1>1. /\ active' = active /\ applied' = applied /\ staged' = staged /\ unswept' = unswept
        /\ published' = published /\ delivery' = delivery
        /\ status' = status /\ statusBy' = statusBy /\ verdict' = verdict /\ run' = run
        /\ late' = Belated(w) /\ pc[w] = "compared" /\ active = run[w]
        /\ lease' = [by |-> w, fresh |-> TRUE]
        /\ pc'[w] = "claimed" /\ \A v \in Workers : v # w => pc'[v] = pc[v]
    BY DEF Claim, Claimable, Awake, Go, meta, local, Types, StepType
  <1>2. run[w] \in Runs /\ late \subseteq late' /\ lease'.by = w
        /\ (~HoldsReceipt(w, run[w]) => run[w] \in late')
    BY <1>1 DEF Engaged, Belated
  <1>3. RunsInv'
    BY <1>1, <1>2 DEF ReceiptInv, RunsInv, Answered, Excused
  <1>4. Handling(w)'
    BY <1>1, <1>2 DEF ReceiptInv, Handling
  <1>5. ASSUME NEW v \in Workers, v # w PROVE Handling(v)'
    <2>1. pc[v] # "idle" => run[v] \in Runs /\ run[v] <= active
      BY DEF Engaged, ReceiptInv, Handling
    <2>2. HoldsReceipt(v, run[v]) /\ run[v] = run[w] => run[w] \in late'
      BY <1>2, <1>5 DEF HoldsReceipt
    <2>3. pc[v] # "idle" /\ run[v] # run[w] => active > run[v]
      BY <1>1, <1>2, <2>1 DEF Runs
    <2>4. pc[v] # "idle" /\ HoldsReceipt(v, run[v]) => Excused(run[v])'
      BY <1>1, <2>2, <2>3 DEF Excused
    <2>5. QED
      BY <1>1, <1>5, <2>1, <2>4 DEF ReceiptInv, Handling, HoldsReceipt
  <1>6. ASSUME NEW u \in Workers, NEW v \in Workers PROVE Undecided(u, v)'
    <2>1. CASE u # w
      BY <1>2, <2>1 DEF Undecided
    <2>2. CASE u = w
      BY <1>1, <1>2, <2>2 DEF Undecided, HoldsReceipt, Answered
    <2>3. QED
      BY <2>1, <2>2
  <1>7. QED
    BY <1>3, <1>4, <1>5, <1>6 DEF ReceiptInv

\* Steps that leave the queue and the lease alone.
LEMMA RunKeeps ==
    ASSUME Types, Engaged, ReceiptInv, NEW w \in Workers,
           Compare(w) \/ SetRunning(w) \/ Overtaken(w)
    PROVE  ReceiptInv' /\ statusBy <= statusBy'
  <1>1. /\ active' = active /\ applied' = applied /\ staged' = staged
        /\ unswept' = unswept /\ late' = late
        /\ published' = published /\ delivery' = delivery /\ lease' = lease
        /\ verdict' = verdict /\ run' = run
        /\ \A v \in Workers : v # w => pc'[v] = pc[v]
    BY DEF Compare, SetRunning, Overtaken, Go, meta, local, Types, StepType
  <1>2. \A r, v : /\ Answered(r)' <=> Answered(r)
                  /\ Excused(r)' <=> Excused(r)
                  /\ HoldsReceipt(v, r)' <=> HoldsReceipt(v, r)
    BY <1>1 DEF Answered, Excused, HoldsReceipt
  <1>3. run[w] \in Runs /\ run[w] <= active /\ verdict[w] = "none"
        /\ active \in Int /\ statusBy \in Int /\ statusBy <= active
    BY DEF Compare, SetRunning, Overtaken, Awake, Engaged, ReceiptInv, RunsInv, Handling,
           Types, MetaType, Runs, None
  <1>4. RunsInv' /\ statusBy <= statusBy'
    <2>1. CASE Compare(w) \/ Overtaken(w)
      <3>1. status' = status /\ statusBy' = statusBy
        BY <2>1 DEF Compare, Overtaken, meta
      <3>2. RunsInv'
        BY <1>1, <1>2, <3>1 DEF ReceiptInv, RunsInv
      <3>3. QED
        BY <1>3, <3>1, <3>2
    <2>2. CASE SetRunning(w)
      <3>1. /\ statusBy' = run[w] /\ active = run[w] /\ pc[w] = "claimed" /\ lease.by = w
        BY <2>2 DEF SetRunning, MayPublish, Awake
      <3>2. run[w] \in applied => run[w] \in late
        BY <1>3, <3>1 DEF ReceiptInv, RunsInv, Undecided
      <3>3. QED
        BY <1>1, <1>2, <1>3, <3>1, <3>2 DEF ReceiptInv, RunsInv
    <2>3. QED
      BY <2>1, <2>2
  <1>5. Handling(w)'
    <2>1. CASE Compare(w)
      <3>1. pc'[w] = IF active = run[w] THEN "compared" ELSE "ending"
        BY <2>1 DEF Compare, Go, Types, StepType
      <3>2. active # run[w] => Excused(run[w])
        BY <1>3 DEF Excused, Runs
      <3>3. QED
        BY <1>1, <1>2, <1>3, <3>1, <3>2 DEF Handling
    <2>2. CASE SetRunning(w)
      <3>1. pc'[w] = "running"
        BY <2>2 DEF SetRunning, Go, Types, StepType
      <3>2. QED
        BY <1>1, <1>2, <1>3, <3>1 DEF Handling
    <2>3. CASE Overtaken(w)
      <3>1. pc'[w] = "leaving" /\ pc[w] = "claimed" /\ (active # run[w] \/ lease.by # w)
        BY <2>3 DEF Overtaken, MayPublish, Awake, Go, Types, StepType
      <3>2. HoldsReceipt(w, run[w]) => Excused(run[w])
        BY <1>3, <3>1 DEF ReceiptInv, Handling, Excused, Runs
      <3>3. QED
        BY <1>1, <1>2, <1>3, <3>1, <3>2 DEF Handling
    <2>4. QED
      BY <2>1, <2>2, <2>3
  <1>6. ASSUME NEW v \in Workers, v # w PROVE Handling(v)'
    BY <1>1, <1>2, <1>6 DEF ReceiptInv, Handling
  <1>7. ASSUME NEW u \in Workers, NEW v \in Workers PROVE Undecided(u, v)'
    <2>1. pc'[w] # "claimed"
      BY DEF Compare, SetRunning, Overtaken, Go, Types, StepType
    <2>2. Deciding(v)' => Deciding(v)
      <3>1. CASE v = w
        BY <1>1, <1>3, <3>1
        DEF Compare, SetRunning, Overtaken, Awake, Go, Deciding, Working, Types, StepType, Steps
      <3>2. CASE v # w
        BY <1>1, <3>2 DEF Deciding, Working
      <3>3. QED
        BY <3>1, <3>2
    <2>3. QED
      BY <1>1, <1>2, <2>1, <2>2 DEF ReceiptInv, Undecided
  <1>8. QED
    BY <1>4, <1>5, <1>6, <1>7 DEF ReceiptInv

\* Staging without the receipt is late; with it the run is not answered.
LEMMA StageKeeps ==
    ASSUME Types, Engaged, ReceiptInv, NEW w \in Workers, NEW t \in Threads, Prepare(w, t)
    PROVE  ReceiptInv'
  <1>1. /\ meta' = meta /\ published' = published /\ delivery' = delivery /\ lease' = lease
        /\ verdict' = verdict /\ run' = run /\ late' = Belated(w)
        /\ staged' = staged \union {run[w]} /\ pc[w] = "walking" /\ pc'[w] = "row"
        /\ \A v \in Workers : v # w => pc'[v] = pc[v]
    BY DEF Prepare, Visiting, Awake, Go, Types, StepType
  <1>2. run[w] \in Runs /\ late \subseteq late'
        /\ (~HoldsReceipt(w, run[w]) => run[w] \in late')
    BY <1>1 DEF Engaged, Belated
  <1>3. \A r \in Runs : /\ Answered(r)' <=> Answered(r)
                        /\ Excused(r) => Excused(r)'
    BY <1>1, <1>2 DEF Answered, Excused, meta
  <1>4. RunsInv'
    <2>1. Answered(run[w]) => run[w] \in late'
      BY <1>2 DEF Answered, HoldsReceipt
    <2>2. QED
      BY <1>1, <1>2, <1>3, <2>1 DEF ReceiptInv, RunsInv, meta
  <1>5. ASSUME NEW v \in Workers PROVE Handling(v)'
    <2>1. pc[v] # "idle" => run[v] \in Runs
      BY DEF Engaged
    <2>2. verdict[w] = "none"
      BY <1>1 DEF ReceiptInv, Handling
    <2>3. QED
      BY <1>1, <1>3, <2>1, <2>2 DEF ReceiptInv, Handling, HoldsReceipt, meta
  <1>6. ASSUME NEW u \in Workers, NEW v \in Workers PROVE Undecided(u, v)'
    <2>1. Deciding(v)' => Deciding(v)
      BY <1>1 DEF Deciding, Working, Steps
    <2>2. pc'[u] = "claimed" => pc[u] = "claimed"
      BY <1>1
    <2>3. QED
      BY <1>1, <1>2, <2>1, <2>2 DEF ReceiptInv, Undecided, HoldsReceipt, Answered
  <1>7. QED
    BY <1>4, <1>5, <1>6 DEF ReceiptInv

\* The end of a delivery: the receipt goes, with the worker's verdict or to be
\* read again.
LEMMA EndKeeps ==
    ASSUME Types, Engaged, ReceiptInv, NEW w \in Workers, Ack(w) \/ Retry(w)
    PROVE  ReceiptInv'
  <1> DEFINE r == run[w]
  <1>1. /\ meta' = meta /\ published' = published /\ lease' = lease /\ staged' = staged
        /\ late' = late /\ pc[w] = "ending" /\ HoldsReceipt(w, r) /\ ToIdle(w)
        /\ r \in Runs
    BY DEF Ack, Retry, Awake, Engaged
  <1>2. /\ pc'[w] = "idle" /\ verdict'[w] = "none"
        /\ \A v \in Workers : v # w =>
             pc'[v] = pc[v] /\ run'[v] = run[v] /\ verdict'[v] = verdict[v]
    BY <1>1 DEF ToIdle, Go, Answer, Types, StepType, WorkerType
  <1> HIDE DEF r
  <1>3. /\ delivery'[r].at \in {"ready", "final"}
        /\ delivery'[r].at = "final" => (verdict[w] = "none" <=> delivery'[r].verdict = "none")
        /\ \A q \in Runs : q # r => delivery'[q] = delivery[q]
    <2>1. CASE Ack(w)
      <3>1. Settle(r, verdict[w]) /\ verdict[w] \in Verdicts \ {"error"}
        BY <2>1 DEF Ack, r, Types, WorkerType
      <3>2. Moves(r, "final", Nobody, delivery[r].attempt, verdict[w])
        BY <1>1, <3>1, MovedFinal DEF Types
      <3>3. QED
        BY <3>2 DEF Moves
    <2>2. CASE Retry(w)
      <3>1. verdict[w] = "error"
        BY <2>2 DEF Retry
      <3>2. CASE delivery[r].attempt < MAX_RETRIES
        <4>1. Moves(r, "ready", Nobody, delivery[r].attempt + 1, delivery[r].verdict)
          BY <1>1, <2>2, <3>2, MovedAgain DEF Retry, r, Types
        <4>2. QED
          BY <3>1, <4>1 DEF Moves
      <3>3. CASE ~(delivery[r].attempt < MAX_RETRIES)
        <4>1. Settle(r, "Failed") /\ "Failed" \in Verdicts \ {"error"}
          BY <2>2, <3>3 DEF Retry, r, Verdicts
        <4>2. Moves(r, "final", Nobody, delivery[r].attempt, "Failed")
          BY <1>1, <4>1, MovedFinal DEF Types
        <4>3. QED
          BY <3>1, <4>2 DEF Moves
      <3>4. QED
        BY <3>2, <3>3
    <2>3. QED
      BY <2>1, <2>2
  <1>4. /\ r \notin applied /\ delivery[r].at = "held" /\ delivery[r].by = w
        /\ published[r] \notin {"no", "reserved"}
    BY <1>1 DEF HoldsReceipt, Answered, ReceiptInv, RunsInv
  <1>5. \A q \in Runs, v \in Workers :
            v # w /\ HoldsReceipt(v, q)' => HoldsReceipt(v, q) /\ q # r
    BY <1>3, <1>4 DEF HoldsReceipt
  <1>6. \A q \in Runs : /\ Answered(q) => Answered(q)' /\ delivery'[q] = delivery[q]
                        /\ Answered(q)' => Answered(q) \/ (q = r /\ Deciding(w))
                        /\ Excused(q)' <=> Excused(q)
    BY <1>1, <1>3, <1>4 DEF Answered, Excused, Deciding, meta
  <1>7. RunsInv'
    <2>1. delivery'[r].at = "final" /\ delivery'[r].verdict = "none" => Excused(r)
      BY <1>1, <1>3 DEF ReceiptInv, Handling, r
    <2>2. \A q \in Runs :
            /\ q \in applied' => Answered(q)'
            /\ published'[q] \in {"no", "reserved"} => delivery'[q].at = "none"
            /\ delivery'[q].at = "final" /\ delivery'[q].verdict = "none" => Excused(q)'
      BY <1>1, <1>3, <1>4, <1>6, <2>1 DEF ReceiptInv, RunsInv, meta
    <2>3. \A q \in Runs : Answered(q)' /\ q \in applied' \ (late' \union unswept')
             => delivery'[q].verdict = "TokenRejected" \/ q \notin staged'
      BY <1>1, <1>3, <1>4 DEF ReceiptInv, RunsInv, Answered, meta
    <2>4. QED
      BY <1>1, <2>2, <2>3 DEF ReceiptInv, RunsInv, meta
  <1>8. ASSUME NEW v \in Workers PROVE Handling(v)'
    <2>1. CASE v = w
      BY <1>2, <2>1 DEF Handling
    <2>2. CASE v # w
      <3>1. pc[v] # "idle" => run[v] \in Runs
        BY DEF Engaged
      <3>2. QED
        BY <1>1, <1>2, <1>5, <1>6, <2>2, <3>1 DEF ReceiptInv, Handling, meta
    <2>3. QED
      BY <2>1, <2>2
  <1>9. ASSUME NEW u \in Workers, NEW v \in Workers PROVE Undecided(u, v)'
    <2>1. CASE u = w
      BY <1>2, <2>1 DEF Undecided
    <2>2. CASE u # w
      <3>1. pc[u] = "claimed" => run[u] \in Runs
        BY DEF Engaged
      <3>2. Undecided(u, v) /\ Undecided(u, w)
        BY DEF ReceiptInv
      <3>3. Deciding(v)' => v # w /\ Deciding(v) /\ run'[v] = run[v]
        BY <1>2 DEF Deciding, Working
      <3>4. pc[u] = "claimed" /\ lease.by = u /\ run[u] \notin late => ~Answered(run[u])'
        BY <1>1, <1>2, <1>6, <2>2, <3>1, <3>2 DEF Undecided, r
      <3>5. QED
        BY <1>1, <1>2, <1>5, <2>2, <3>1, <3>2, <3>3, <3>4 DEF Undecided
    <2>3. QED
      BY <2>1, <2>2
  <1>10. QED
    BY <1>7, <1>8, <1>9 DEF ReceiptInv

LEMMA NextReceipt ==
    ASSUME Types, Engaged, ReceiptInv, [Next]_vars
    PROVE  ReceiptInv' /\ statusBy <= statusBy'
  <1>1. statusBy \in Int
    BY DEF Types, MetaType, Runs, None
  <1>2. CASE Calm
    BY <1>1, <1>2, CalmKeeps DEF Calm
  <1>3. CASE vars' = vars
    <2>1. Calm
      BY <1>3 DEF vars, meta, local, Calm, GoesOn
    <2>2. QED
      BY <1>1, <2>1, CalmKeeps DEF Calm
  <1>4. CASE \E r \in Runs : Enqueue(r) \/ ActivateByStart(r)
    <2>1. PICK r \in Runs : Enqueue(r) \/ ActivateByStart(r)
      BY <1>4
    <2>2. statusBy' = statusBy
      BY <2>1 DEF Enqueue, ActivateByStart, meta
    <2>3. QED
      BY <1>1, <2>1, <2>2, StartKeeps
  <1>5. CASE \E r \in Runs : Apply(r)
    BY <1>5, ApplyKeeps
  <1>6. CASE \E w \in Workers, r \in Runs : Take(w, r)
    <2>1. PICK w \in Workers, r \in Runs : Take(w, r)
      BY <1>6
    <2>2. statusBy' = statusBy
      BY <2>1 DEF Take
    <2>3. QED
      BY <1>1, <2>1, <2>2, TakeKeeps
  <1>7. CASE \E w \in Workers : Claim(w)
    BY <1>1, <1>7, ClaimKeeps DEF Claim, meta
  <1>8. CASE \E w \in Workers : Compare(w) \/ SetRunning(w) \/ Overtaken(w)
    BY <1>8, RunKeeps
  <1>9. CASE \E w \in Workers : Ack(w) \/ Retry(w)
    <2>1. PICK w \in Workers : Ack(w) \/ Retry(w)
      BY <1>9
    <2>2. statusBy' = statusBy
      BY <2>1 DEF Ack, Retry, meta
    <2>3. QED
      BY <1>1, <2>1, <2>2, EndKeeps
  <1>10. CASE \E w \in Workers, t \in Threads : Prepare(w, t)
    <2>1. PICK w \in Workers, t \in Threads : Prepare(w, t)
      BY <1>10
    <2>2. statusBy' = statusBy
      BY <2>1 DEF Prepare, meta
    <2>3. QED
      BY <1>1, <2>1, <2>2, StageKeeps
  <1>11. QED
    BY <1>2, <1>3, <1>4, <1>5, <1>6, <1>7, <1>8, <1>9, <1>10, MostCalm

-----------------------------------------------------------------------------
ImportInv == Types /\ Engaged /\ DocInv /\ LeaseInv /\ ReceiptInv

LEMMA Inductive == /\ Init => ImportInv
                   /\ ImportInv /\ [Next]_vars => ImportInv'
  <1>1. Init => ImportInv
    BY InitTypes, InitDoc, InitLease, InitReceipt DEF ImportInv
  <1>2. ASSUME ImportInv, [Next]_vars PROVE ImportInv'
    <2>1. Types /\ Engaged /\ DocInv /\ LeaseInv /\ ReceiptInv
      BY <1>2 DEF ImportInv
    <2>2. Types' /\ Engaged'
      BY <1>2, <2>1, NextTypes
    <2>3. DocInv'
      BY <1>2, <2>1, NextDoc
    <2>4. LeaseInv'
      BY <1>2, <2>1, NextLease
    <2>5. ReceiptInv'
      BY <1>2, <2>1, NextReceipt
    <2>6. QED
      BY <2>2, <2>3, <2>4, <2>5 DEF ImportInv
  <1>3. QED
    BY <1>1, <1>2

LEMMA Invariance == Spec => []ImportInv
  BY Inductive, PTL DEF Spec

\* Every reachable state is well formed.
THEOREM TypeCorrect == Spec => []TypeOK
  <1>1. ImportInv => TypeOK
    <2>1. SUFFICES ASSUME ImportInv PROVE TypeOK
      OBVIOUS
    <2>2. lease.by \in Workers \union {Nobody, Gone} /\ lease.fresh \in BOOLEAN
      BY <2>1, LeaseFields DEF ImportInv, Types
    <2>3. object \subseteq row /\ linked \subseteq row
          /\ edited \subseteq object /\ Rooms \subseteq object
          /\ exposed \subseteq object /\ disturbed \subseteq object
      BY <2>1 DEF ImportInv, DocInv, NestedInv
    <2>4. \A w \in Workers :
            pc[w] \in {"row", "object", "check", "reassert", "link", "checkpoint"}
              => at[w] \in Threads /\ doc[w] = reserved[at[w]]
      BY <2>1 DEF ImportInv, Engaged, DocInv, Making, Busy
    <2>5. QED
      BY <2>1, <2>2, <2>3, <2>4
      DEF ImportInv, Types, MetaType, QueueType, RowType, StepType, WorkerType, SeenType,
          TypeOK, Entry
  <1>2. QED
    BY <1>1, Invariance, PTL

\* A thread gets one document, whatever retries, crashes and overlaps: the
\* id that is reserved first stays, and every document made has it.
THEOREM OneDocumentPerThread == Spec => []OneDocPerThread
  <1>1. ImportInv => OneDocPerThread
    <2>1. SUFFICES ASSUME ImportInv, NEW t \in Threads
                   PROVE  Cardinality({d \in row : d[1] = t}) <= 1
      BY DEF OneDocPerThread
    <2>2. {d \in row : d[1] = t} \subseteq {reserved[t]}
      BY <2>1 DEF ImportInv, DocInv, IdsInv
    <2>3. IsFiniteSet({reserved[t]}) /\ Cardinality({reserved[t]}) = 1
      BY FS_Singleton
    <2>4. QED
      BY <2>2, <2>3, FS_Subset
  <1>2. QED
    BY <1>1, Invariance, PTL

\* A thread that is ContentDone has its document, complete.
THEOREM CheckpointComesLast == Spec => []DoneHasDocument
  <1>1. ImportInv => DoneHasDocument
    BY DEF ImportInv, DocInv
  <1>2. QED
    BY <1>1, Invariance, PTL

\* Live edits lose the object they rest on only where the document was open
\* while an import's write of it was decided on and not made yet.
THEOREM EditsMostlyUndisturbed == Spec => []EditsDisturbedOnlyIfOpen
  <1>1. ImportInv => EditsDisturbedOnlyIfOpen
    BY DEF ImportInv, DocInv
  <1>2. QED
    BY <1>1, Invariance, PTL

\* Two runners work together only if the lease of one of them aged out.
THEOREM LeaseExcludes == Spec => []OneRunnerPerLease
  <1>1. ImportInv => OneRunnerPerLease
    BY DEF ImportInv, LeaseInv, OneRunnerPerLease
  <1>2. QED
    BY <1>1, Invariance, PTL

\* Once the completion of a run is applied, its status stands, but for a run
\* that a worker drove on without the receipt.
THEOREM OutcomeStands == Spec => EndedUnlessLate
  <1>1. ImportInv /\ [Next]_vars =>
           [statusBy' = statusBy /\ statusBy \in applied /\ status' = "Running"
               => statusBy \in late]_vars
    <2>1. SUFFICES ASSUME ImportInv, Next, statusBy' = statusBy, statusBy \in applied,
                          status' = "Running"
                   PROVE  statusBy \in late
      OBVIOUS
    <2>2. CASE status = "Running"
      BY <2>1, <2>2 DEF ImportInv, ReceiptInv, RunsInv
    <2>3. CASE \E w \in Workers : SetRunning(w)
      <3>1. PICK w \in Workers : SetRunning(w)
        BY <2>3
      <3>2. pc[w] = "claimed" /\ lease.by = w /\ statusBy = run[w] /\ run[w] \in Runs
        BY <2>1, <3>1 DEF SetRunning, MayPublish, Awake, ImportInv, Engaged
      <3>3. Answered(run[w])
        BY <2>1, <3>2 DEF ImportInv, ReceiptInv, RunsInv
      <3>4. QED
        BY <2>1, <3>2, <3>3 DEF ImportInv, ReceiptInv, Undecided
    <2>4. CASE \E r \in Runs : Apply(r)
      BY <2>1, <2>4, EntryFields
      DEF Apply, ImportInv, Types, QueueType, Verdicts
    <2>5. CASE Calm
      BY <2>1, <2>2, <2>5 DEF Calm
    <2>6. CASE \E r \in Runs : Enqueue(r) \/ ActivateByStart(r)
      BY <2>1, <2>2, <2>6 DEF Enqueue, ActivateByStart, meta
    <2>7. CASE \E w \in Workers, r \in Runs : Take(w, r)
      BY <2>1, <2>2, <2>7 DEF Take
    <2>8. CASE \E w \in Workers : Compare(w) \/ Claim(w) \/ Overtaken(w) \/ Ack(w) \/ Retry(w)
      BY <2>1, <2>2, <2>8 DEF Compare, Claim, Overtaken, Ack, Retry, meta
    <2>9. CASE \E w \in Workers, t \in Threads : Prepare(w, t)
      BY <2>1, <2>2, <2>9 DEF Prepare, meta
    <2>10. QED
      BY <2>1, <2>3, <2>4, <2>5, <2>6, <2>7, <2>8, <2>9, MostCalm DEF ImportInv
  <1>2. QED
    BY <1>1, Invariance, PTL DEF Spec, EndedUnlessLate

\* No retry of an import takes a document back from a saved version.
THEOREM SavesAreKept == Spec => SavesStand
  <1>1. ImportInv /\ [Next]_vars => [\A d \in DocIds : version'[d] >= version[d]]_vars
    <2>1. SUFFICES ASSUME ImportInv, Next, NEW d \in DocIds
                   PROVE  version'[d] >= version[d]
      OBVIOUS
    <2>2. version \in [DocIds -> 1..2]
      BY <2>1 DEF ImportInv, Types, RowType
    <2>3. CASE \E w \in Workers : Reassert(w)
      BY <2>2, <2>3 DEF Reassert, SetIfExpected
    <2>4. CASE \E e \in DocIds : Open(e) \/ Close(e) \/ Edit(e) \/ Save(e)
      BY <2>2, <2>4 DEF Open, Close, Edit, Save
    <2>5. CASE version' = version
      BY <2>2, <2>5
    <2>6. \/ \E w \in Workers : Reassert(w)
          \/ \E e \in DocIds : Open(e) \/ Close(e) \/ Edit(e) \/ Save(e)
          \/ version' = version
      <3>1. CASE Untold
        BY <3>1 DEF Untold, docs
      <3>2. CASE \E w \in Workers, t \in Threads : Prepare(w, t) \/ Checkpoint(w, t)
        BY <3>2 DEF Prepare, Checkpoint, docs
      <3>3. CASE \E w \in Workers : CreateRow(w) \/ PutObject(w) \/ CheckUpdates(w)
                                    \/ LinkToFolder(w) \/ PutFails(w)
        BY <3>3 DEF CreateRow, PutObject, CheckUpdates, LinkToFolder, PutFails, docs
      <3>4. QED
        BY <2>1, <3>1, <3>2, <3>3, MostUntold DEF ImportInv
    <2>7. QED
      BY <2>3, <2>4, <2>5, <2>6
  <1>2. QED
    BY <1>1, Invariance, PTL DEF Spec, SavesStand

\* No older run writes over the status of a newer one.
THEOREM StatusMovesOn == Spec => NewerRunKeepsStatus
  <1>1. ImportInv /\ [Next]_vars => [statusBy' >= statusBy]_vars
    <2>1. ASSUME ImportInv, Next PROVE statusBy' >= statusBy
      <3>1. statusBy <= statusBy' /\ Types'
        BY <2>1, NextReceipt, NextTypes DEF ImportInv
      <3>2. statusBy \in Int /\ statusBy' \in Int
        BY <2>1, <3>1 DEF ImportInv, Types, MetaType, Runs, None
      <3>3. QED
        BY <3>1, <3>2
    <2>2. QED
      BY <2>1
  <1>2. QED
    BY <1>1, Invariance, PTL DEF Spec, NewerRunKeepsStatus

\* A published run ends without a status only after a newer one replaced it,
\* unless it was driven on without its receipt.
THEOREM RetiredForANewerRun == Spec => []RetiredWhenReplaced
  <1>1. ImportInv => RetiredWhenReplaced
    BY DEF ImportInv, ReceiptInv, RunsInv, RetiredWhenReplaced, Excused
  <1>2. QED
    BY <1>1, Invariance, PTL

\* The staged HTML of a run goes with the completion that ended it, but for a
\* rejected token, a sweep that failed and a worker without the receipt.
THEOREM StagingCleared == Spec => []NothingLeftStaged
  <1>1. ImportInv => NothingLeftStaged
    BY DEF ImportInv, Types, MetaType, ReceiptInv, RunsInv, NothingLeftStaged
  <1>2. QED
    BY <1>1, Invariance, PTL
-----------------------------------------------------------------------------
(* The queue's promise to the import.  The entries of ImportRuns are the   *)
(* queue seen by one of its users; JobLedger, which JobQueue implements,   *)
(* is implemented here too: leases, pauses and overlapping runners take    *)
(* nothing away from it.  A run that ended Failed with its retries spent   *)
(* is a job that failed, whether its last attempt was dead-lettered or     *)
(* answered Failed by itself: the rows of the import tell no difference.   *)
OutcomeOf(e) ==
    IF e.verdict = "Failed" /\ e.attempt = MAX_RETRIES THEN "failed" ELSE "succeeded"
PhaseOf(e) ==
    IF e.at = "none" THEN "none" ELSE IF e.at = "final" THEN OutcomeOf(e) ELSE "queued"

Phases == [r \in Runs |-> PhaseOf(delivery[r])]
Spent == [r \in Runs |-> IF PhaseOf(delivery[r]) = "queued" THEN delivery[r].attempt ELSE 0]
Effects == [r \in Runs |-> IF r \in applied THEN PhaseOf(delivery[r]) ELSE "none"]

Ledger == INSTANCE JobLedger WITH
    Jobs <- Runs, phase <- Phases, tries <- Spent, settled <- Effects

\* A run that is not published yet has spent no retry.
Unspent == \A r \in Runs : delivery[r].at = "none" => delivery[r].attempt = 0

LEMMA UnspentStep ==
    ASSUME Unspent, QueueStep
    PROVE  Unspent'
  <1>1. CASE delivery' = delivery
    BY <1>1 DEF Unspent
  <1>2. ASSUME NEW r \in Runs, NEW b, NEW n, NEW v,
               NEW a \in {"ready", "held", "left", "final"}, Moves(r, a, b, n, v)
        PROVE  Unspent'
    BY <1>2 DEF Unspent, Moves
  <1>3. QED
    BY <1>1, <1>2 DEF QueueStep

\* What the ledger sees of a move of one entry.
LEMMA Seen ==
    ASSUME NEW r \in Runs, NEW a, NEW b, NEW n, NEW v, Moves(r, a, b, n, v),
           r \notin applied, applied' = applied
    PROVE  /\ \A q \in Runs \ {r} : /\ Phases'[q] = Phases[q] /\ Spent'[q] = Spent[q]
                                    /\ Effects'[q] = Effects[q]
           /\ Effects' = Effects
           /\ DOMAIN Phases' = Runs /\ DOMAIN Spent' = Runs
           /\ a \notin {"none", "final"} => Phases'[r] = "queued" /\ Spent'[r] = n
           /\ a = "final" =>
                /\ Phases'[r] = IF v = "Failed" /\ n = MAX_RETRIES THEN "failed" ELSE "succeeded"
                /\ Spent'[r] = 0
  <1>1. \A q \in Runs \ {r} : delivery'[q] = delivery[q]
    BY DEF Moves
  <1>2. \A q \in Runs \ {r} : /\ Phases'[q] = Phases[q] /\ Spent'[q] = Spent[q]
                              /\ Effects'[q] = Effects[q]
    BY <1>1 DEF Phases, Spent, Effects
  <1>3. Effects'[r] = "none" /\ Effects[r] = "none"
    BY DEF Effects
  <1>4. Effects' = Effects
    BY <1>2, <1>3 DEF Effects
  <1>5. delivery'[r].at = a /\ delivery'[r].attempt = n /\ delivery'[r].verdict = v
    BY DEF Moves
  <1>6. a \notin {"none", "final"} => Phases'[r] = "queued" /\ Spent'[r] = n
    BY <1>5 DEF Phases, Spent, PhaseOf
  <1>7. a = "final" =>
          /\ Phases'[r] = IF v = "Failed" /\ n = MAX_RETRIES THEN "failed" ELSE "succeeded"
          /\ Spent'[r] = 0
    BY <1>5 DEF Phases, Spent, PhaseOf, OutcomeOf
  <1>8. DOMAIN Phases' = Runs /\ DOMAIN Spent' = Runs
    BY DEF Phases, Spent
  <1>9. QED
    BY <1>2, <1>4, <1>6, <1>7, <1>8

\* Two functions on the runs are equal when they agree everywhere.
LEMMA ChangedAt ==
    ASSUME NEW f, NEW g, f = [q \in Runs |-> f[q]], g = [q \in Runs |-> g[q]],
           NEW r \in Runs, NEW x, g[r] = x, \A q \in Runs \ {r} : g[q] = f[q]
    PROVE  g = [f EXCEPT ![r] = x]
  OBVIOUS

LEMMA AppliedMoves ==
    ASSUME Next
    PROVE  applied' = applied \/ \E r \in Runs : Apply(r)
  <1> USE DEF meta
  <1>1. CASE \/ \E r \in Runs : Reserve(r) \/ Enqueue(r) \/ ActivateByStart(r)
                  \/ Reclaim(r) \/ MissRenewals(r)
             \/ \E w \in Workers, r \in Runs : Take(w, r)
             \/ Expire \/ \E d \in DocIds : Open(d) \/ Close(d) \/ Edit(d) \/ Save(d)
    BY <1>1
    DEF Reserve, Enqueue, ActivateByStart, Reclaim, MissRenewals, Take, Expire, Open,
        Close, Edit, Save
  <1>2. CASE \E w \in Workers : Compare(w) \/ Claim(w) \/ StandBack(w) \/ SetRunning(w)
                  \/ Overtaken(w) \/ Interrupt(w) \/ Inventory(w)
    BY <1>2 DEF Compare, Claim, StandBack, SetRunning, Overtaken, Interrupt, Inventory
  <1>3. CASE \E w \in Workers, t \in Threads : Visit(w, t)
    BY <1>3 DEF Visit, PassOver, Skip, Charge, Prepare, Checkpoint
  <1>4. CASE \E w \in Workers : CreateRow(w) \/ PutObject(w) \/ PutFails(w)
                  \/ CheckUpdates(w) \/ Reassert(w) \/ LinkToFolder(w) \/ Finish(w)
                  \/ Leave(w) \/ LeaveUncleared(w)
    BY <1>4
    DEF CreateRow, PutObject, PutFails, CheckUpdates, Reassert, LinkToFolder, Finish,
        Leave, LeaveUncleared
  <1>5. CASE \E w \in Workers : Ack(w) \/ Retry(w) \/ LeavePending(w) \/ LoseReceipt(w)
                  \/ Heartbeat(w) \/ MissHeartbeats(w) \/ Pause(w) \/ Wake(w) \/ Crash(w)
    BY <1>5
    DEF Ack, Retry, LeavePending, LoseReceipt, Heartbeat, MissHeartbeats, Pause, Wake,
        Crash
  <1>6. QED
    BY <1>1, <1>2, <1>3, <1>4, <1>5 DEF Next, Handle

\* A completion that is applied takes effect as the run ended, once.
LEMMA ApplyIsApply ==
    ASSUME ImportInv, NEW r \in Runs, Apply(r)
    PROVE  Ledger!Apply(r)
  <1>1. /\ delivery[r].at = "final" /\ r \notin applied
        /\ applied' = applied \union {r} /\ delivery' = delivery
    BY DEF Apply, Applies
  <1>2. Phases' = Phases /\ Spent' = Spent
    BY <1>1 DEF Phases, Spent
  <1>3. Phases[r] \in {"succeeded", "failed"}
    BY <1>1 DEF Phases, PhaseOf, OutcomeOf
  <1>4. Effects[r] = "none" /\ Effects'[r] = Phases[r]
    BY <1>1 DEF Effects, Phases
  <1>5. \A q \in Runs \ {r} : Effects'[q] = Effects[q]
    BY <1>1 DEF Effects
  <1>6. Effects' = [Effects EXCEPT ![r] = Phases[r]]
    <2>1. Effects = [q \in Runs |-> Effects[q]] /\ Effects' = [q \in Runs |-> Effects'[q]]
      BY DEF Effects
    <2>2. QED
      BY <1>4, <1>5, <2>1, ChangedAt
  <1>7. QED
    BY <1>2, <1>3, <1>4, <1>6 DEF Ledger!Apply

\* The moves of an entry are the ledger's, or change nothing it sees.
LEMMA LedgerStep ==
    ASSUME ImportInv, Unspent, Next
    PROVE  [Ledger!Next]_(Ledger!ledger)
  <1>1. Types /\ Engaged /\ ReceiptInv /\ QueueType
    BY DEF ImportInv, Types
  <1>f. /\ Phases = [q \in Runs |-> Phases[q]] /\ Phases' = [q \in Runs |-> Phases'[q]]
        /\ Spent = [q \in Runs |-> Spent[q]] /\ Spent' = [q \in Runs |-> Spent'[q]]
    BY DEF Phases, Spent
  <1>2. CASE \E r \in Runs : Apply(r)
    BY <1>2, ApplyIsApply DEF Ledger!Next
  <1>3. CASE applied' = applied /\ delivery' = delivery
    BY <1>3 DEF Ledger!ledger, Phases, Spent, Effects
  <1>4. ASSUME NEW r \in Runs, applied' = applied, r \notin applied, delivery[r].at # "final",
               NEW b, NEW n, NEW v, NEW a \in {"ready", "held", "left", "final"},
               Moves(r, a, b, n, v),
               \/ a # "final" /\ delivery[r].at # "none" /\ n = delivery[r].attempt
               \/ a # "final" /\ delivery[r].at = "none" /\ n = 0
               \/ /\ a # "final" /\ delivery[r].at # "none"
                  /\ delivery[r].attempt < MAX_RETRIES /\ n = delivery[r].attempt + 1
               \/ a = "final" /\ delivery[r].at # "none" /\ n = delivery[r].attempt
        PROVE  [Ledger!Next]_(Ledger!ledger)
    <2>1. /\ \A q \in Runs \ {r} : Phases'[q] = Phases[q] /\ Spent'[q] = Spent[q]
          /\ Effects' = Effects
      BY <1>4, Seen
    <2>2. a # "final" => Phases'[r] = "queued" /\ Spent'[r] = n
      BY <1>4, Seen
    <2>3. a = "final" => /\ Phases'[r] = IF v = "Failed" /\ n = MAX_RETRIES
                                           THEN "failed" ELSE "succeeded"
                         /\ Spent'[r] = 0
      BY <1>4, Seen
    <2>4. /\ Phases[r] = IF delivery[r].at = "none" THEN "none" ELSE "queued"
          /\ Spent[r] = IF delivery[r].at = "none" THEN 0 ELSE delivery[r].attempt
      BY <1>4 DEF Phases, Spent, PhaseOf
    <2>5. CASE a # "final" /\ delivery[r].at # "none" /\ n = delivery[r].attempt
      <3>1. Phases' = Phases /\ Spent' = Spent
        BY <1>f, <2>1, <2>2, <2>4, <2>5
      <3>2. QED
        BY <2>1, <3>1 DEF Ledger!ledger
    <2>6. CASE a # "final" /\ delivery[r].at = "none" /\ n = 0
      <3>1. Phases' = [Phases EXCEPT ![r] = "queued"]
        BY <1>f, <2>1, <2>2, <2>6, ChangedAt
      <3>2. Spent' = Spent
        BY <1>f, <2>1, <2>2, <2>4, <2>6
      <3>3. Ledger!Enter(r)
        BY <2>1, <2>4, <2>6, <3>1, <3>2 DEF Ledger!Enter
      <3>4. QED
        BY <3>3 DEF Ledger!Next
    <2>7. CASE /\ a # "final" /\ delivery[r].at # "none"
               /\ delivery[r].attempt < MAX_RETRIES /\ n = delivery[r].attempt + 1
      <3>1. Spent' = [Spent EXCEPT ![r] = n]
        BY <1>f, <2>1, <2>2, <2>7, ChangedAt
      <3>2. Phases' = Phases
        BY <1>f, <2>1, <2>2, <2>4, <2>7
      <3>3. Spent[r] = delivery[r].attempt /\ Phases[r] = "queued"
        BY <2>4, <2>7
      <3>4. Spent' = [Spent EXCEPT ![r] = @ + 1]
        BY <2>7, <3>1, <3>3
      <3>5. Ledger!SpendRetry(r)
        BY <2>1, <2>7, <3>2, <3>3, <3>4 DEF Ledger!SpendRetry
      <3>6. QED
        BY <3>5 DEF Ledger!Next
    <2>8. CASE a = "final" /\ delivery[r].at # "none" /\ n = delivery[r].attempt
      <3> DEFINE o == IF v = "Failed" /\ n = MAX_RETRIES THEN "failed" ELSE "succeeded"
      <3>1. Phases' = [Phases EXCEPT ![r] = o] /\ Spent' = [Spent EXCEPT ![r] = 0]
        BY <1>f, <2>1, <2>3, <2>8, ChangedAt
      <3>2. Phases[r] = "queued" /\ (o = "failed" => Spent[r] = MAX_RETRIES)
        BY <2>4, <2>8
      <3>3. o \in {"succeeded", "failed"}
        OBVIOUS
      <3> HIDE DEF o
      <3>4. Ledger!End(r, o)
        BY <2>1, <3>1, <3>2 DEF Ledger!End
      <3>5. QED
        BY <3>3, <3>4 DEF Ledger!Next
    <2>9. QED
      BY <1>4, <2>5, <2>6, <2>7, <2>8
  <1>5. CASE applied' = applied /\ delivery' # delivery
    <2>1. QueueStep
      BY <1>1, QueueMoves DEF Types
    <2>2. \A r \in Runs : delivery[r].at # "final" => r \notin applied
      BY <1>1 DEF ReceiptInv, RunsInv, Answered
    <2>3. \A r \in Runs : delivery[r].at = "none" => delivery[r].attempt = 0
      BY DEF Unspent
    <2>4. ASSUME NEW r \in Runs, Enqueue(r),
                 Moves(r, "ready", delivery[r].by, delivery[r].attempt, delivery[r].verdict)
          PROVE  [Ledger!Next]_(Ledger!ledger)
      <3>1. delivery[r].at = "none"
        BY <1>1, <2>4 DEF Enqueue, ReceiptInv, RunsInv
      <3>2. QED
        BY <1>4, <1>5, <2>2, <2>3, <2>4, <3>1
    <2>5. ASSUME NEW r \in Runs, NEW w \in Workers, Take(w, r),
                 Moves(r, "held", w, delivery[r].attempt, delivery[r].verdict)
          PROVE  [Ledger!Next]_(Ledger!ledger)
      BY <1>4, <1>5, <2>2, <2>5 DEF Take
    <2>6. ASSUME NEW r \in Runs, delivery[r].at = "held",
                 Moves(r, "left", Nobody, delivery[r].attempt, delivery[r].verdict)
          PROVE  [Ledger!Next]_(Ledger!ledger)
      BY <1>4, <1>5, <2>2, <2>6
    <2>7. ASSUME NEW r \in Runs, NEW w \in Workers, HoldsReceipt(w, r), r = run[w],
                 Retry(w),
                 Moves(r, "ready", Nobody, delivery[r].attempt + 1, delivery[r].verdict)
          PROVE  [Ledger!Next]_(Ledger!ledger)
      <3>1. delivery[r].at = "held"
        BY <2>7 DEF HoldsReceipt
      <3>2. delivery[r].attempt < MAX_RETRIES
        <4>1. CASE ~(delivery[r].attempt < MAX_RETRIES)
          <5>1. Settle(r, "Failed")
            BY <2>7, <4>1 DEF Retry
          <5>2. Moves(r, "final", Nobody, delivery[r].attempt, "Failed")
            BY <1>1, <5>1, MovedFinal DEF Verdicts
          <5>3. QED
            BY <2>7, <5>2 DEF Moves
        <4>2. QED
          BY <4>1
      <3>3. QED
        BY <1>4, <1>5, <2>2, <2>7, <3>1, <3>2
    <2>8. ASSUME NEW r \in Runs, NEW w \in Workers, HoldsReceipt(w, r), NEW v,
                 Moves(r, "final", Nobody, delivery[r].attempt, v)
          PROVE  [Ledger!Next]_(Ledger!ledger)
      <3>1. delivery[r].at = "held"
        BY <2>8 DEF HoldsReceipt
      <3>2. QED
        BY <1>4, <1>5, <2>2, <2>8, <3>1
    <2>9. QED
      BY <1>5, <2>1, <2>4, <2>5, <2>6, <2>7, <2>8 DEF QueueStep
  <1>6. QED
    BY <1>2, <1>3, <1>5, AppliedMoves

\* The entries of the runs implement the ledger that JobQueue implements: a
\* run is published once, ends once whatever workers hold it in turn, spends
\* its retries one at a time, and its completion takes effect at most once, as
\* it ended (apply_job_completion, import_repo.rs).
THEOREM RunsImplementLedger == Spec => Ledger!Spec
  <1>1. Init => Ledger!Init /\ Unspent
    <2>1. SUFFICES ASSUME Init PROVE Ledger!Init /\ Unspent
      OBVIOUS
    <2>2. /\ applied = {}
          /\ \A r \in Runs : delivery[r].at = "none" /\ delivery[r].attempt = 0
      BY <2>1 DEF Init
    <2>3. Ledger!Init
      BY <2>2 DEF Ledger!Init, Phases, Spent, Effects, PhaseOf
    <2>4. QED
      BY <2>2, <2>3 DEF Unspent
  <1>2. ImportInv /\ Unspent /\ [Next]_vars => Unspent'
    <2>1. ASSUME ImportInv, Unspent, Next PROVE Unspent'
      BY <2>1, UnspentStep, QueueMoves DEF ImportInv, Types
    <2>2. ASSUME Unspent, UNCHANGED vars PROVE Unspent'
      BY <2>2 DEF Unspent, vars
    <2>3. QED
      BY <2>1, <2>2
  <1>3. ImportInv /\ Unspent /\ [Next]_vars => [Ledger!Next]_(Ledger!ledger)
    <2>1. ASSUME UNCHANGED vars PROVE UNCHANGED Ledger!ledger
      BY <2>1 DEF vars, meta, Ledger!ledger, Phases, Spent, Effects
    <2>2. QED
      BY <2>1, LedgerStep
  <1>4. QED
    BY <1>1, <1>2, <1>3, Invariance, PTL DEF Spec, Ledger!Spec
=============================================================================
