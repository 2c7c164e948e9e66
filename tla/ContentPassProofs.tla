------------------------- MODULE ContentPassProofs -------------------------
(***************************************************************************)
(* Theorems about ContentPass, for a manifest of any length and any        *)
(* thresholds and budgets.                                                 *)
(***************************************************************************)
EXTENDS ContentPass, FiniteSetTheorems, TLAPS

\* What the walk has passed: threads decided, or a failure owed at the end.
WalkInv ==
    /\ job = "running" =>
          \A t \in Threads : t < at => state[t] # "Pending" \/ owing
    /\ SucceededDecided

\* A thread the running pass has yet to look at was charged by earlier ones.
ChargeInv ==
    /\ \A t \in Threads :
          attempts[t] <= IF job = "running" /\ t >= at THEN passes - 1
                         ELSE passes
    /\ job = "running" => passes > 0
    /\ \A t \in Failed : attempts[t] >= MAX_THREAD_ATTEMPTS
    /\ calm => ~outage /\ Failed \subseteq Bad

\* The initial states have the right types.
LEMMA InitType == Init => TypeOK
  <1> SUFFICES ASSUME Init PROVE TypeOK
    OBVIOUS
  <1>1. FlagsOK
    BY DEF Init, FlagsOK
  <1>2. QED
    BY <1>1, PassAssumption DEF Init, TypeOK, Threads

\* An error keeps the queue's place well formed.
LEMMA ErrsType ==
    ASSUME attempt \in 0..MAX_RETRIES, Errs
    PROVE  /\ job' \in {"queued", "dead"}
           /\ attempt' \in 0..MAX_RETRIES
  BY PassAssumption DEF Errs

\* Flags stay flags.
LEMMA FlagsType == TypeOK /\ [Next]_vars => FlagsOK'
  <1> SUFFICES ASSUME TypeOK, [Next]_vars PROVE FlagsOK'
    OBVIOUS
  <1> USE DEF TypeOK, FlagsOK, past, world, walk
  <1>1. ASSUME NEW t \in Threads, Visit(t) \/ Hindrance(t)
        PROVE  FlagsOK'
    BY <1>1
    DEF Visit, Hindrance, Import, SkipForbidden, SkipChat, PassOver, GiveUp, FailLater, Trip,
        RunFailure, TokenRejected, Decide, Fault
  <1>2. CASE QuipFails \/ QuipRecovers \/ Begin \/ Crash \/ Finish \/ UNCHANGED vars
    BY <1>2 DEF QuipFails, QuipRecovers, Begin, Crash, Finish, Fault, vars
  <1>3. QED
    BY <1>1, <1>2 DEF Next

\* Every visit of a thread leaves the rows and the walk well formed.
LEMMA VisitType ==
    ASSUME TypeOK, FlagsOK', NEW t \in Threads, Visit(t) \/ Hindrance(t)
    PROVE  TypeOK'
  <1> USE PassAssumption DEF TypeOK, Threads
  <1>1. at = t => at + 1 \in 1..(N + 1)
    OBVIOUS
  <1>2. CASE Import(t)
    BY <1>1, <1>2 DEF Import, Decide, Onward, Answered, Fetches, Looking, past, world, queue
  <1>3. CASE SkipForbidden(t)
    BY <1>1, <1>3 DEF SkipForbidden, Decide, Onward, Answered, Fetches, Looking, past, world, queue
  <1>4. CASE SkipChat(t)
    BY <1>1, <1>4 DEF SkipChat, Decide, Onward, Looking, past, world, queue
  <1>5. CASE PassOver(t)
    BY <1>1, <1>5 DEF PassOver, Onward, Looking, rows, past, world, queue
  <1>6. CASE GiveUp(t)
    BY <1>1, <1>6
    DEF GiveUp, Charge, Charged, Fails, Fetches, Looking, Onward, past, world, queue
  <1>7. CASE FailLater(t)
    BY <1>1, <1>7
    DEF FailLater, Charge, Charged, Streak, Fails, Fetches, Looking, Onward, past, world, queue
  <1>8. CASE Trip(t)
    BY <1>8, ErrsType
    DEF Trip, Charge, Charged, Streak, Fails, Fetches, Looking, past, world
  <1>9. CASE RunFailure(t)
    BY <1>9, ErrsType DEF RunFailure, Charge, Charged, Fault, walk
  <1>10. CASE TokenRejected(t)
    BY <1>10 DEF TokenRejected, Fault, rows, walk
  <1>11. QED
    BY <1>2, <1>3, <1>4, <1>5, <1>6, <1>7, <1>8, <1>9, <1>10 DEF Visit, Hindrance

\* Every step keeps the types.
LEMMA NextType == TypeOK /\ [Next]_vars => TypeOK'
  <1> SUFFICES ASSUME TypeOK, [Next]_vars PROVE TypeOK'
    OBVIOUS
  <1> USE PassAssumption DEF TypeOK
  <1>a. FlagsOK'
    BY FlagsType
  <1>1. CASE QuipFails
    BY <1>a, <1>1 DEF QuipFails, rows, walk, queue
  <1>2. CASE QuipRecovers
    BY <1>a, <1>2 DEF QuipRecovers, rows, walk, queue, past
  <1>3. CASE Begin
    BY <1>a, <1>3 DEF Begin, rows, world
  <1>4. CASE Crash
    BY <1>a, <1>4 DEF Crash, Fault, rows, walk
  <1>5. CASE Finish
    BY <1>a, <1>5, ErrsType DEF Finish, rows, walk, past, world
  <1>6. CASE UNCHANGED vars
    BY <1>a, <1>6 DEF vars, rows, walk, queue, past, world
  <1>7. QED
    BY <1>1, <1>2, <1>3, <1>4, <1>5, <1>6, <1>a, VisitType DEF Next

\* Type correctness of the content pass.
THEOREM TypeCorrect == Spec => []TypeOK
  <1>1. QED
    BY InitType, NextType, PTL DEF Spec

-----------------------------------------------------------------------------
\* A visit that moves on has decided its thread or owes its failure.
LEMMA VisitWalk ==
    ASSUME TypeOK, WalkInv, NEW t \in Threads, Visit(t) \/ Hindrance(t)
    PROVE  WalkInv'
  <1> USE PassAssumption DEF TypeOK, Threads, WalkInv, SucceededDecided, Undecided
  <1>1. job = "running" /\ at = t
    BY DEF Visit, Hindrance, Import, SkipForbidden, SkipChat, PassOver, GiveUp, FailLater,
           Trip, RunFailure, TokenRejected, Charge, Fails, Answered, Fetches, Looking
  <1>2. ASSUME NEW s \in {"ContentDone", "Skipped"}, Decide(t, s)
        PROVE  WalkInv'
    BY <1>1, <1>2 DEF Decide, Onward, queue
  <1>3. CASE PassOver(t)
    BY <1>1, <1>3 DEF PassOver, Onward, Looking, rows, queue
  <1>4. CASE GiveUp(t)
    BY <1>1, <1>4 DEF GiveUp, Onward, queue
  <1>5. CASE FailLater(t)
    BY <1>1, <1>5 DEF FailLater, Onward, queue
  <1>6. CASE Trip(t)
    BY <1>1, <1>6, ErrsType DEF Trip
  <1>7. CASE RunFailure(t)
    BY <1>1, <1>7, ErrsType DEF RunFailure
  <1>8. CASE TokenRejected(t)
    BY <1>1, <1>8 DEF TokenRejected
  <1>9. QED
    BY <1>2, <1>3, <1>4, <1>5, <1>6, <1>7, <1>8
    DEF Visit, Hindrance, Import, SkipForbidden, SkipChat

\* The walk's invariant is inductive.
LEMMA NextWalk == TypeOK /\ WalkInv /\ [Next]_vars => WalkInv'
  <1> SUFFICES ASSUME TypeOK, WalkInv, [Next]_vars PROVE WalkInv'
    OBVIOUS
  <1> USE PassAssumption DEF TypeOK, WalkInv, SucceededDecided, Undecided, Threads
  <1>1. CASE QuipFails
    BY <1>1 DEF QuipFails, rows, walk, queue
  <1>2. CASE QuipRecovers
    BY <1>2 DEF QuipRecovers, rows, walk, queue
  <1>3. CASE Begin
    BY <1>3 DEF Begin, rows
  <1>4. CASE Crash
    BY <1>4 DEF Crash, rows
  <1>5. CASE Finish
    <2>1. ~owing => \A t \in Threads : state[t] # "Pending"
      BY <1>5 DEF Finish
    <2>2. QED
      BY <1>5, <2>1, ErrsType DEF Finish, rows
  <1>6. CASE UNCHANGED vars
    BY <1>6 DEF vars, rows, walk, queue
  <1>7. QED
    BY <1>1, <1>2, <1>3, <1>4, <1>5, <1>6, VisitWalk DEF Next

\* An import that reports success has decided every thread of its manifest.
THEOREM SuccessIsComplete == Spec => []SucceededDecided
  <1>1. Init => WalkInv
    BY DEF Init, WalkInv, SucceededDecided
  <1>2. WalkInv => SucceededDecided
    BY DEF WalkInv
  <1>3. QED
    BY <1>1, <1>2, InitType, NextType, NextWalk, PTL DEF Spec

-----------------------------------------------------------------------------
\* A visit charges its thread once, and gives it up only at the budget.
LEMMA VisitCharge ==
    ASSUME TypeOK, ChargeInv, NEW t \in Threads, Visit(t) \/ Hindrance(t)
    PROVE  ChargeInv'
  <1> USE PassAssumption DEF TypeOK, Threads, ChargeInv, Failed, Bad
  <1>1. job = "running" /\ at = t
    BY DEF Visit, Hindrance, Import, SkipForbidden, SkipChat, PassOver, GiveUp, FailLater,
           Trip, RunFailure, TokenRejected, Charge, Fails, Answered, Fetches, Looking
  <1>2. ASSUME NEW s \in {"ContentDone", "Skipped"}, Decide(t, s)
        PROVE  ChargeInv'
    BY <1>1, <1>2 DEF Decide, Onward, queue, past, world
  <1>3. CASE PassOver(t)
    BY <1>1, <1>3 DEF PassOver, Onward, rows, queue, past, world
  <1>4. CASE GiveUp(t)
    BY <1>1, <1>4
    DEF GiveUp, GivesUp, Charge, Charged, Fails, Onward, queue, past, world
  <1>5. CASE FailLater(t)
    BY <1>1, <1>5 DEF FailLater, Charge, Charged, Onward, queue, past, world
  <1>6. CASE Trip(t)
    BY <1>1, <1>6, ErrsType DEF Trip, Charge, Charged, past, world
  <1>7. CASE RunFailure(t)
    <2>1. calm' = FALSE /\ job' # "running" /\ passes' = passes
      BY <1>7, ErrsType DEF RunFailure, Fault
    <2>2. \A u \in Threads : /\ attempts'[u] \in Nat
                             /\ attempts'[u] <= passes
                             /\ attempts'[u] >= attempts[u]
      BY <1>1, <1>7 DEF RunFailure, Charge, Charged
    <2>3. state' = state
      BY <1>7 DEF RunFailure
    <2>4. QED
      BY <2>1, <2>2, <2>3
  <1>8. CASE TokenRejected(t)
    BY <1>1, <1>8 DEF TokenRejected, Fault, rows
  <1>9. QED
    BY <1>2, <1>3, <1>4, <1>5, <1>6, <1>7, <1>8
    DEF Visit, Hindrance, Import, SkipForbidden, SkipChat

\* The invariant of the charges is inductive.
LEMMA NextCharge == TypeOK /\ ChargeInv /\ [Next]_vars => ChargeInv'
  <1> SUFFICES ASSUME TypeOK, ChargeInv, [Next]_vars PROVE ChargeInv'
    OBVIOUS
  <1> USE PassAssumption DEF TypeOK, ChargeInv, Failed, Bad, Threads
  <1>1. CASE QuipFails
    BY <1>1 DEF QuipFails, rows, walk, queue
  <1>2. CASE QuipRecovers
    BY <1>2 DEF QuipRecovers, rows, walk, queue, past
  <1>3. CASE Begin
    BY <1>3 DEF Begin, rows, world
  <1>4. CASE Crash
    BY <1>4 DEF Crash, Fault, rows
  <1>5. CASE Finish
    BY <1>5, ErrsType DEF Finish, rows, walk, past, world
  <1>6. CASE UNCHANGED vars
    BY <1>6 DEF vars, rows, walk, queue, past, world
  <1>7. QED
    BY <1>1, <1>2, <1>3, <1>4, <1>5, <1>6, VisitCharge DEF Next

\* A thread is given up only after as many failing passes as it may have,
\* and without an outage only if it fails by itself.
THEOREM GivenUpWithCause == Spec => []GivenUpLate
  <1>1. Init => ChargeInv
    BY PassAssumption DEF Init, ChargeInv, Failed
  <1>2. TypeOK /\ ChargeInv => GivenUpLate
    BY DEF ChargeInv, GivenUpLate, TypeOK
  <1>3. QED
    BY <1>1, <1>2, InitType, NextType, NextCharge, PTL DEF Spec
-----------------------------------------------------------------------------
(* Outages: how far charges reach behind the threads that were imported or *)
(* skipped.                                                                *)

Threshold == MAX_CONSECUTIVE_THREAD_FAILURES
Span(k) == k * Threshold

\* The passes that have looked at a thread so far.
Seen(t) == IF job = "running" /\ t >= at THEN passes - 1 ELSE passes

\* The stretch up to t starts behind d: no settled thread lies in between.
Clear(d, t) == d < t /\ \A v \in Settled : ~(d < v /\ v < t)

\* In each stretch the charged threads are a prefix, which grows by the
\* first failures of the running pass; those are its streak.
StretchOK(d) ==
    /\ \A t, u \in Threads :
          Clear(d, t) /\ d < u /\ u < t /\ attempts[t] > 0 => attempts[u] > 0
    /\ \A t \in Threads :
          Clear(d, t) /\ attempts[t] > 0 => t - d <= Span(Seen(t) - attempts[t] + 1)

WalkOK(d) ==
    Clear(d, at) =>
        /\ at - d <= Span(passes - 1) + streak + 1
        /\ \A u \in Threads : d < u /\ u < at => attempts[u] > 0
        /\ streak > 0 => \A t \in Threads : t >= at /\ Clear(d, t) => attempts[t] = 0

OutageInv ==
    /\ \A t \in Threads : \E d \in Settled : Clear(d, t)
    /\ \A d \in Settled : StretchOK(d)
    /\ job = "running" => streak < Threshold /\ \A d \in Settled : WalkOK(d)

\* Stretches of the manifest add up.
LEMMA Spans ==
    ASSUME NEW a \in Int
    PROVE  /\ Span(a) \in Int /\ Span(0) = 0
           /\ Span(a + 1) = Span(a) + Threshold
           /\ \A b \in Int : a <= b => Span(a) <= Span(b)
  <1> USE PassAssumption DEF Span, Threshold
  <1>1. Span(a) \in Int /\ Span(0) = 0 /\ Span(a + 1) = Span(a) + Threshold
    OBVIOUS
  <1>2. ASSUME NEW b \in Int, a <= b PROVE Span(a) <= Span(b)
    <2>1. PICK d \in Nat : b = a + d
      <3>1. b - a \in Nat /\ b = a + (b - a)
        BY <1>2
      <3>2. QED
        BY <3>1
    <2>2. Span(b) = Span(a) + d * Threshold /\ d * Threshold >= 0
      BY <2>1
    <2>3. QED
      BY <1>1, <2>2
  <1>3. QED
    BY <1>1, <1>2

\* What a visit knows of its thread and of the stretch behind d.
LEMMA OutageVisit ==
    ASSUME TypeOK, OutageInv, NEW t \in Threads, Looking(t),
           NEW d \in Settled, Clear(d, t)
    PROVE  /\ attempts[t] > 0 => streak = 0 /\ t - d <= Span(passes - attempts[t])
           /\ t - d <= Span(passes - 1) + streak + 1 /\ t - d <= Span(passes)
           /\ attempts[t] > 0 => t - d <= Span(passes - 1)
           /\ \A u \in Threads : d < u /\ u < t => attempts[u] > 0
  <1>1. /\ job = "running" /\ at = t /\ t \in Int /\ passes \in Int /\ attempts[t] \in Nat
        /\ streak \in Nat /\ Threshold \in Nat /\ d \in Int
    BY PassAssumption DEF Looking, TypeOK, Threads, Threshold, Settled
  <1>2. streak < Threshold /\ WalkOK(d) /\ StretchOK(d)
    BY <1>1 DEF OutageInv
  <1>3. /\ t - d <= Span(passes - 1) + streak + 1
        /\ \A u \in Threads : d < u /\ u < t => attempts[u] > 0
    BY <1>1, <1>2 DEF WalkOK
  <1>4. attempts[t] > 0 => streak = 0
    BY <1>1, <1>2 DEF WalkOK
  <1>5. attempts[t] > 0 => t - d <= Span(passes - attempts[t])
    <2>1. Seen(t) = passes - 1
      BY <1>1 DEF Seen
    <2>2. (passes - 1) - attempts[t] + 1 = passes - attempts[t]
      BY <1>1
    <2>3. QED
      BY <1>2, <2>1, <2>2 DEF StretchOK
  <1>6. attempts[t] > 0 => t - d <= Span(passes - 1)
    <2>1. /\ passes - attempts[t] \in Int /\ passes - 1 \in Int
          /\ attempts[t] > 0 => passes - attempts[t] <= passes - 1
      BY <1>1
    <2>2. attempts[t] > 0 => Span(passes - attempts[t]) <= Span(passes - 1)
      BY <2>1, Spans
    <2>3. Span(passes - attempts[t]) \in Int /\ Span(passes - 1) \in Int
      BY <2>1, Spans
    <2>4. QED
      BY <1>1, <1>5, <2>2, <2>3
  <1>7. t - d <= Span(passes)
    <2>0. passes - 1 \in Int
      BY <1>1
    <2>1. Span(passes - 1) \in Int /\ Span((passes - 1) + 1) = Span(passes - 1) + Threshold
      BY <2>0, Spans
    <2>2. (passes - 1) + 1 = passes
      BY <1>1
    <2>3. QED
      BY <1>1, <1>2, <1>3, <2>1, <2>2
  <1>8. QED
    BY <1>3, <1>4, <1>5, <1>6, <1>7

\* One more pass over a thread, charged by it or not, is within its span.
LEMMA ChargedSpan ==
    ASSUME TypeOK, OutageInv, NEW u \in Threads, NEW s \in {Seen(u), passes},
           NEW d \in Settled, Clear(d, u), attempts[u] > 0
    PROVE  u - d <= Span(s - attempts[u] + 1)
  <1>1. /\ u \in Int /\ d \in Int /\ passes \in Int /\ attempts[u] \in Nat
        /\ Seen(u) \in Int /\ Seen(u) <= passes /\ s \in Int
    BY DEF TypeOK, Threads, Seen, Settled
  <1>2. /\ Seen(u) - attempts[u] + 1 \in Int /\ s - attempts[u] + 1 \in Int
        /\ Seen(u) - attempts[u] + 1 <= s - attempts[u] + 1
    BY <1>1
  <1>3. Span(Seen(u) - attempts[u] + 1) <= Span(s - attempts[u] + 1)
    BY <1>2, Spans
  <1>4. Span(Seen(u) - attempts[u] + 1) \in Int /\ Span(s - attempts[u] + 1) \in Int
    BY <1>2, Spans
  <1>5. u - d <= Span(Seen(u) - attempts[u] + 1)
    BY DEF OutageInv, StretchOK
  <1>6. QED
    BY <1>1, <1>3, <1>4, <1>5

\* A failure charged to the thread at hand is within its span too.
LEMMA NewCharge ==
    ASSUME TypeOK, OutageInv, NEW t \in Threads, Looking(t),
           NEW d \in Settled, Clear(d, t)
    PROVE  t - d <= Span(passes - (attempts[t] + 1) + 1)
  <1>1. /\ passes - (attempts[t] + 1) + 1 = passes - attempts[t]
        /\ attempts[t] = 0 => passes - attempts[t] = passes
        /\ attempts[t] \in Nat
    BY DEF TypeOK
  <1>2. CASE attempts[t] = 0
    BY <1>1, <1>2, OutageVisit
  <1>3. CASE attempts[t] > 0
    BY <1>1, <1>3, OutageVisit
  <1>4. QED
    BY <1>1, <1>2, <1>3

\* A visit of a thread that is not settled keeps every stretch.
LEMMA OutageOnward ==
    ASSUME TypeOK, OutageInv, NEW t \in Threads, Looking(t), Onward,
           passes' = passes, Settled' = Settled, t \notin Settled,
           \A u \in Threads : u # t => attempts'[u] = attempts[u],
           \/ attempts'[t] = attempts[t] /\ attempts[t] > 0 /\ streak' = 0
           \/ attempts'[t] = attempts[t] + 1 /\ attempts[t] > 0 /\ streak' \in {0, streak}
           \/ attempts'[t] = 1 /\ attempts[t] = 0 /\ streak' = streak + 1 /\ streak' < Threshold
    PROVE  OutageInv'
  <1>0. /\ job = "running" /\ job' = "running" /\ at = t /\ at' = t + 1 /\ t \in Int
        /\ Threads \subseteq Int /\ streak \in Nat /\ Threshold \in Nat \ {0}
        /\ \A u \in Threads : attempts[u] \in Nat
        /\ passes \in Int /\ Settled \subseteq Int
    BY PassAssumption DEF Looking, Onward, queue, TypeOK, Threads, Threshold, Settled
  <1>1. attempts'[t] > 0 /\ \A u \in Threads : u # t => attempts'[u] = attempts[u]
    BY <1>0
  <1>2. \A d \in Settled, u \in Int : Clear(d, u)' <=> Clear(d, u)
    BY DEF Clear
  <1>3. ASSUME NEW d \in Settled PROVE StretchOK(d)'
    <2>1. ASSUME NEW v \in Threads, NEW u \in Threads,
                 Clear(d, v), d < u, u < v, attempts'[v] > 0
          PROVE  attempts'[u] > 0
      <3>1. CASE u = t
        BY <1>1, <3>1
      <3>2. CASE u # t /\ v = t
        BY <1>0, <1>1, <2>1, <3>2, OutageVisit
      <3>3. CASE u # t /\ v # t
        BY <1>1, <2>1, <3>3 DEF OutageInv, StretchOK
      <3>4. QED
        BY <3>1, <3>2, <3>3
    <2>2. ASSUME NEW u \in Threads, Clear(d, u), attempts'[u] > 0
          PROVE  u - d <= Span(Seen(u)' - attempts'[u] + 1)
      <3>1. CASE u # t
        <4>1. Seen(u)' = Seen(u)
          BY <1>0, <3>1 DEF Seen
        <4>2. QED
          BY <1>1, <2>2, <3>1, <4>1, ChargedSpan
      <3>2. CASE u = t /\ attempts'[t] = attempts[t]
        <4>1. Seen(u)' = passes
          BY <1>0, <3>2 DEF Seen
        <4>2. QED
          BY <2>2, <3>2, <4>1, ChargedSpan
      <3>3. CASE u = t /\ attempts'[t] = attempts[t] + 1
        <4>1. Seen(u)' = passes
          BY <1>0, <3>3 DEF Seen
        <4>2. QED
          BY <2>2, <3>3, <4>1, NewCharge
      <3>4. QED
        BY <1>0, <3>1, <3>2, <3>3
    <2>3. QED
      BY <1>0, <1>2, <2>1, <2>2 DEF StretchOK, Span, Threshold
  <1>4. PICK e \in Settled : Clear(e, t)
    BY DEF OutageInv
  <1>5. streak' < Threshold
    BY <1>0, <1>4, OutageVisit DEF OutageInv
  <1>6. ASSUME NEW d \in Settled, Clear(d, at') PROVE WalkOK(d)'
    <2>1. Clear(d, t)
      BY <1>0, <1>6 DEF Clear
    <2>2. at' - d <= Span(passes - 1) + streak' + 1
      <3>1. Span(passes - 1) \in Int
        BY <1>0, Spans
      <3>2. t - d <= Span(passes - 1) + streak'
        BY <1>0, <2>1, <3>1, OutageVisit
      <3>3. QED
        BY <1>0, <3>1, <3>2
    <2>3. \A u \in Threads : d < u /\ u < at' => attempts'[u] > 0
      BY <1>0, <1>1, <2>1, OutageVisit
    <2>4. ASSUME streak' > 0, NEW u \in Threads, u >= at', Clear(d, u)
          PROVE  attempts'[u] = 0
      <3>1. attempts[t] = 0 /\ t < u
        BY <1>0, <2>1, <2>4, OutageVisit
      <3>2. d < t
        BY <2>1 DEF Clear
      <3>3. ~(attempts[u] > 0)
        BY <2>4, <3>1, <3>2 DEF OutageInv, StretchOK
      <3>4. QED
        BY <1>0, <3>1, <3>3
    <2>5. QED
      BY <1>0, <1>2, <2>2, <2>3, <2>4 DEF WalkOK, Span, Threshold
  <1>7. \A d \in Settled : WalkOK(d)'
    BY <1>0, <1>2, <1>6 DEF WalkOK
  <1>8. \A u \in Threads : \E d \in Settled : Clear(d, u)'
    BY <1>0, <1>2 DEF OutageInv
  <1>9. QED
    BY <1>3, <1>5, <1>7, <1>8 DEF OutageInv

\* A visit that settles its thread, or finds it settled, starts a stretch.
LEMMA OutageSettles ==
    ASSUME TypeOK, ChargeInv, OutageInv, NEW t \in Threads, Looking(t), Onward,
           passes' = passes, Settled' = Settled \cup {t},
           attempts' = attempts, streak' = 0
    PROVE  OutageInv'
  <1>0. /\ job = "running" /\ job' = "running" /\ at = t /\ at' = t + 1 /\ t \in Int
        /\ Threads \subseteq Int /\ Threshold \in Nat \ {0}
        /\ \A u \in Threads : attempts[u] \in Nat
        /\ passes \in Nat /\ Settled \subseteq Int
    BY PassAssumption DEF Looking, Onward, queue, TypeOK, Threads, Threshold, Settled
  <1>1. \A d \in Settled, u \in Int : Clear(d, u)' => Clear(d, u)
    BY DEF Clear
  <1>2. PICK e \in Settled : Clear(e, t)
    BY DEF OutageInv
  <1>3. \A u \in Threads : Seen(u)' \in {Seen(u), passes}
    BY <1>0 DEF Seen
  <1>4. ASSUME NEW d \in Settled PROVE StretchOK(d)'
    <2>1. \A u \in Threads : Clear(d, u) /\ attempts'[u] > 0
             => u - d <= Span(Seen(u)' - attempts'[u] + 1)
      BY <1>3, ChargedSpan
    <2>2. \A v, u \in Threads :
             Clear(d, v) /\ d < u /\ u < v /\ attempts'[v] > 0 => attempts'[u] > 0
      BY DEF OutageInv, StretchOK
    <2>3. \A u \in Threads : Clear(d, u)' => Clear(d, u)
      BY <1>0, <1>1
    <2>4. QED
      BY <2>1, <2>2, <2>3 DEF StretchOK, Span, Threshold
  <1>5. ASSUME t \notin Settled PROVE StretchOK(t)'
    <2>1. ASSUME NEW v \in Threads, Clear(t, v)' PROVE Clear(e, v) /\ e < t
      BY <1>0, <1>2, <1>5, <2>1 DEF Clear
    <2>2. \A v, u \in Threads :
             Clear(t, v)' /\ t < u /\ u < v /\ attempts'[v] > 0 => attempts'[u] > 0
      <3>1. \A u \in Threads : t < u => e < u
        BY <1>0, <1>2 DEF Clear
      <3>2. QED
        BY <2>1, <3>1 DEF OutageInv, StretchOK
    <2>3. ASSUME NEW u \in Threads, Clear(t, u)', attempts'[u] > 0
          PROVE  u - t <= Span(Seen(u)' - attempts'[u] + 1)
      <3>1. u - e <= Span(Seen(u)' - attempts[u] + 1)
        BY <1>3, <2>1, <2>3, ChargedSpan
      <3>2. u - t <= u - e /\ u - t \in Int /\ u - e \in Int
        BY <1>0, <2>1, <2>3
      <3>3. Seen(u)' - attempts[u] + 1 \in Int
        BY <1>0, <1>3 DEF Seen
      <3>4. Span(Seen(u)' - attempts[u] + 1) \in Int
        BY <3>3, Spans
      <3>5. QED
        BY <3>1, <3>2, <3>4
    <2>4. QED
      BY <2>2, <2>3 DEF StretchOK, Span, Threshold
  <1>6. \A d \in Settled' : StretchOK(d)'
    BY <1>4, <1>5
  <1>7. ASSUME NEW d \in Settled', Clear(d, at)' PROVE WalkOK(d)'
    <2>1. d = t
      BY <1>0, <1>7 DEF Clear
    <2>2. passes - 1 \in Int /\ 0 <= passes - 1 /\ Span(passes - 1) \in Int
      BY <1>0, Spans DEF ChargeInv
    <2>3. Span(passes - 1) >= 0
      BY <2>2, Spans
    <2>4. at' - d <= Span(passes - 1) + streak' + 1
      BY <1>0, <2>1, <2>2, <2>3
    <2>5. \A u \in Threads : ~(d < u /\ u < at')
      BY <1>0, <2>1
    <2>6. QED
      BY <2>4, <2>5 DEF WalkOK, Span, Threshold
  <1>8. \A u \in Threads : \E d \in Settled' : Clear(d, u)'
    <2>1. ASSUME NEW u \in Threads, u <= t PROVE \E d \in Settled' : Clear(d, u)'
      <3>1. PICK d \in Settled : Clear(d, u)
        BY DEF OutageInv
      <3>2. Clear(d, u)'
        BY <1>0, <2>1, <3>1 DEF Clear
      <3>3. QED
        BY <3>1, <3>2
    <2>2. ASSUME NEW u \in Threads, t < u PROVE \E d \in Settled' : Clear(d, u)'
      <3>1. PICK d \in Settled : Clear(d, u)
        BY DEF OutageInv
      <3>2. CASE d < t
        <4>1. Clear(t, u)'
          BY <1>0, <2>2, <3>1, <3>2 DEF Clear
        <4>2. QED
          BY <4>1
      <3>3. CASE t <= d
        <4>1. Clear(d, u)'
          BY <1>0, <2>2, <3>1, <3>3 DEF Clear
        <4>2. QED
          BY <3>1, <4>1
      <3>4. QED
        BY <1>0, <3>2, <3>3
    <2>3. QED
      BY <1>0, <2>1, <2>2
  <1>9. QED
    BY <1>0, <1>6, <1>7, <1>8 DEF OutageInv, WalkOK

\* A step that ends the pass keeps them, whether or not it charged its thread.
LEMMA OutageEnds ==
    ASSUME TypeOK, OutageInv,
           job' # "running", passes' = passes, state' = state,
           \/ attempts' = attempts
           \/ \E t \in Threads : /\ Looking(t)
                                 /\ attempts' = [attempts EXCEPT ![t] = attempts[t] + 1]
    PROVE  OutageInv'
  <1>0. /\ Threads \subseteq Int /\ \A u \in Threads : attempts[u] \in Nat
        /\ \A u \in Threads : Seen(u)' = passes
        /\ Settled' = Settled /\ Settled \subseteq Int
    BY DEF TypeOK, Threads, Seen, Settled
  <1>1. \A d \in Settled, u \in Int : Clear(d, u)' <=> Clear(d, u)
    BY <1>0 DEF Clear
  <1>2. ASSUME NEW d \in Settled PROVE StretchOK(d)'
    <2>1. CASE attempts' = attempts
      <3>1. \A u \in Threads : Clear(d, u) /\ attempts[u] > 0
               => u - d <= Span(Seen(u)' - attempts[u] + 1)
        BY <1>0, ChargedSpan
      <3>2. QED
        BY <1>0, <1>1, <2>1, <3>1 DEF OutageInv, StretchOK, Span, Threshold
    <2>2. ASSUME NEW t \in Threads, Looking(t),
                 attempts' = [attempts EXCEPT ![t] = attempts[t] + 1]
          PROVE  StretchOK(d)'
      <3>1. /\ attempts'[t] = attempts[t] + 1 /\ attempts'[t] > 0
            /\ \A u \in Threads : u # t => attempts'[u] = attempts[u]
        BY <1>0, <2>2 DEF TypeOK
      <3>2. ASSUME NEW v \in Threads, NEW u \in Threads,
                   Clear(d, v), d < u, u < v, attempts'[v] > 0
            PROVE  attempts'[u] > 0
        <4>1. CASE u = t
          BY <3>1, <4>1
        <4>2. CASE u # t /\ v = t
          BY <2>2, <3>1, <3>2, <4>2, OutageVisit
        <4>3. CASE u # t /\ v # t
          BY <3>1, <3>2, <4>3 DEF OutageInv, StretchOK
        <4>4. QED
          BY <4>1, <4>2, <4>3
      <3>3. \A u \in Threads : Clear(d, u) /\ attempts'[u] > 0
               => u - d <= Span(passes - attempts'[u] + 1)
        BY <2>2, <3>1, ChargedSpan, NewCharge
      <3>4. QED
        BY <1>0, <1>1, <3>2, <3>3 DEF StretchOK, Span, Threshold
    <2>3. QED
      BY <2>1, <2>2
  <1>3. \A u \in Threads : \E d \in Settled : Clear(d, u)'
    BY <1>0, <1>1 DEF OutageInv
  <1>4. QED
    BY <1>0, <1>2, <1>3 DEF OutageInv

\* The invariant of outages is inductive when a thread may fail at all
\* before it is given up; the code allows it twice (MAX_THREAD_ATTEMPTS = 3).
LEMMA NextOutage ==
    ASSUME MAX_THREAD_ATTEMPTS >= 2, TypeOK, ChargeInv, OutageInv, [Next]_vars
    PROVE  OutageInv'
  <1>0. ASSUME NEW t \in Threads, Visit(t) \/ Hindrance(t)
        PROVE  OutageInv'
    <2>1. Looking(t)
      BY <1>0 DEF Visit, Hindrance, Import, SkipForbidden, SkipChat, PassOver, GiveUp, FailLater,
             Trip, RunFailure, TokenRejected, Charge, Fails, Answered, Fetches
    <2>2. passes' = passes
      BY <1>0
      DEF Visit, Hindrance, Import, SkipForbidden, SkipChat, Decide, PassOver, GiveUp,
          FailLater,
             Trip, RunFailure, TokenRejected, past
    <2>3. /\ \A u \in Threads : attempts[u] \in Nat
          /\ t \notin Settled => state[t] \in {"Pending", "Failed"}
          /\ state[t] = "Failed" => attempts[t] >= MAX_THREAD_ATTEMPTS
          /\ state[t] = "Pending" => t \notin Settled
          /\ 0 \notin Threads
          /\ state \in [Threads -> {"Pending", "ContentDone", "Skipped", "Failed"}]
      BY DEF ChargeInv, Failed, TypeOK, Settled, Threads
    <2>4. ASSUME NEW s \in {"ContentDone", "Skipped"}, state[t] = "Pending", Decide(t, s)
          PROVE  OutageInv'
      <3>1. Settled' = Settled \cup {t}
        BY <2>3, <2>4 DEF Decide, Settled
      <3>2. Onward /\ attempts' = attempts /\ streak' = 0
        BY <2>4 DEF Decide
      <3>3. QED
        BY <2>1, <2>2, <3>1, <3>2, OutageSettles
    <2>5. CASE PassOver(t)
      <3>1. streak' = 0 /\ Onward /\ Settled' = Settled /\ attempts' = attempts
        BY <2>5 DEF PassOver, rows, Settled
      <3>2. t \notin Settled => attempts[t] > 0
        BY <2>3, <2>5, PassAssumption DEF PassOver
      <3>3. CASE t \in Settled
        BY <2>1, <2>2, <3>1, <3>3, OutageSettles
      <3>4. CASE t \notin Settled
        BY <2>1, <2>2, <3>1, <3>2, <3>4, OutageOnward
      <3>5. QED
        BY <3>3, <3>4
    <2>6. CASE GiveUp(t)
      <3>1. /\ attempts'[t] = attempts[t] + 1 /\ attempts[t] > 0 /\ streak' = 0 /\ Onward
            /\ \A u \in Threads : u # t => attempts'[u] = attempts[u]
            /\ state[t] = "Pending" /\ state' = [state EXCEPT ![t] = "Failed"]
        BY <2>3, <2>6, PassAssumption
        DEF GiveUp, GivesUp, Charge, Charged, Fails, Fetches, TypeOK
      <3>2. Settled' = Settled
        BY <2>3, <3>1 DEF Settled
      <3>3. QED
        BY <2>1, <2>2, <2>3, <3>1, <3>2, OutageOnward
    <2>7. CASE FailLater(t)
      <3>1. /\ attempts'[t] = attempts[t] + 1 /\ Onward /\ state' = state
            /\ \A u \in Threads : u # t => attempts'[u] = attempts[u]
            /\ t \notin Settled /\ Settled' = Settled
        BY <2>3, <2>7 DEF FailLater, Charge, Charged, Fails, Fetches, TypeOK, Settled
      <3>2. attempts[t] > 0 => streak' = streak
        BY <2>3, <2>7 DEF FailLater, Streak, Charged
      <3>3. attempts[t] = 0 => attempts'[t] = 1 /\ streak' = streak + 1 /\ streak' < Threshold
        BY <2>7, <3>1, PassAssumption DEF FailLater, Streak, Trips, Charged, Threshold, TypeOK
      <3>4. QED
        BY <2>1, <2>2, <2>3, <3>1, <3>2, <3>3, OutageOnward
    <2>8. CASE Trip(t) \/ RunFailure(t) \/ TokenRejected(t)
      <3>1. job' # "running"
        BY <2>8, ErrsType DEF Trip, RunFailure, TokenRejected, TypeOK
      <3>2. /\ state' = state
            /\ attempts' = attempts \/ attempts' = [attempts EXCEPT ![t] = attempts[t] + 1]
        BY <2>8 DEF Trip, RunFailure, TokenRejected, Charge, Charged, rows
      <3>3. QED
        BY <2>1, <2>2, <3>1, <3>2, OutageEnds
    <2>9. CASE Import(t) \/ SkipForbidden(t) \/ SkipChat(t)
      BY <2>4, <2>9 DEF Import, SkipForbidden, SkipChat, Answered, Fetches
    <2>10. QED
      BY <1>0, <2>5, <2>6, <2>7, <2>8, <2>9 DEF Visit, Hindrance
  <1>1. CASE QuipFails \/ QuipRecovers \/ UNCHANGED vars
    <2>1. UNCHANGED <<state, attempts, job, at, streak, passes>>
      BY <1>1 DEF QuipFails, QuipRecovers, vars, rows, walk, queue, past
    <2>2. /\ Settled' = Settled /\ \A d, u : Clear(d, u)' <=> Clear(d, u)
          /\ \A u : Seen(u)' = Seen(u)
      BY <2>1 DEF Settled, Clear, Seen
    <2>3. \A d \in Settled : (StretchOK(d) => StretchOK(d)') /\ (WalkOK(d) => WalkOK(d)')
      BY <2>1, <2>2 DEF StretchOK, WalkOK, Span, Threshold
    <2>4. QED
      BY <2>1, <2>2, <2>3 DEF OutageInv
  <1>2. CASE Begin
    <2>1. /\ job = "queued" /\ job' = "running" /\ at' = 1 /\ streak' = 0 /\ passes' = passes + 1
          /\ state' = state /\ attempts' = attempts /\ Settled' = Settled
      BY <1>2 DEF Begin, rows, Settled
    <2>2. /\ passes \in Nat /\ Threads = 1..N /\ Threshold \in Nat \ {0} /\ Span(passes) \in Int
          /\ Settled \subseteq {0} \cup Threads
      <3>1. passes \in Nat /\ Threads = 1..N /\ Threshold \in Nat \ {0}
        BY PassAssumption DEF TypeOK, Threads, Threshold
      <3>2. Span(passes) \in Int
        BY <3>1, Spans
      <3>3. Settled \subseteq {0} \cup Threads
        BY DEF Settled
      <3>4. QED
        BY <3>1, <3>2, <3>3
    <2>3. \A u \in Threads : Seen(u)' = passes /\ Seen(u) = passes
      BY <2>1, <2>2 DEF Seen
    <2>4. Span(passes) >= 0
      BY <2>2, Spans
    <2>5. \A d, u : Clear(d, u)' <=> Clear(d, u)
      BY <2>1 DEF Clear
    <2>6. \A d \in Settled : StretchOK(d)'
      BY <2>1, <2>3, <2>5 DEF OutageInv, StretchOK, Span, Threshold
    <2>7. ASSUME NEW d \in Settled, Clear(d, at)' PROVE WalkOK(d)'
      <3>1. d = 0
        BY <2>1, <2>2, <2>7 DEF Clear
      <3>2. passes' - 1 = passes
        BY <2>1, <2>2
      <3>3. at' - d <= Span(passes) + streak' + 1
        BY <2>1, <2>2, <2>4, <3>1
      <3>4. \A u \in Threads : ~(u < at')
        BY <2>1, <2>2
      <3>5. QED
        BY <2>1, <3>2, <3>3, <3>4 DEF WalkOK, Span, Threshold
    <2>8. \A d \in Settled : WalkOK(d)'
      BY <2>7 DEF WalkOK
    <2>9. QED
      BY <2>1, <2>2, <2>5, <2>6, <2>8 DEF OutageInv
  <1>3. CASE Crash \/ Finish
    <2>1. job' # "running" /\ UNCHANGED <<state, attempts, passes>>
      BY <1>3, ErrsType DEF Crash, Finish, rows, past, TypeOK
    <2>2. QED
      BY <2>1, OutageEnds
  <1>4. QED
    BY <1>0, <1>1, <1>2, <1>3 DEF Next

\* An outage does not eat its way into the manifest: a thread that is
\* charged, or given up, is at most the breaker's threshold times the passes
\* behind the thread that was imported or skipped last before it (or the
\* front), whatever else happens.  If the first failure were the last
\* (MAX_THREAD_ATTEMPTS = 1) no streak would ever grow, and one outage would
\* give up the whole manifest.
THEOREM OutagesStayNear ==
    ASSUME MAX_THREAD_ATTEMPTS >= 2
    PROVE  Spec => []OutageRadius
  <1>1. Init => OutageInv
    <2> SUFFICES ASSUME Init PROVE OutageInv
      OBVIOUS
    <2>1. Settled = {0} /\ \A u \in Threads : u \in Int /\ u > 0 /\ attempts[u] = 0
      BY PassAssumption DEF Init, Settled, Threads
    <2>2. \A u \in Threads : Clear(0, u)
      BY <2>1 DEF Clear
    <2>3. QED
      BY <2>1, <2>2 DEF Init, OutageInv, StretchOK
  <1>2. Init => ChargeInv
    BY PassAssumption DEF Init, ChargeInv, Failed
  <1>3. TypeOK /\ ChargeInv /\ OutageInv /\ [Next]_vars => OutageInv'
    BY NextOutage
  <1>4. ASSUME TypeOK, ChargeInv, OutageInv PROVE OutageRadius
    <2>0. ASSUME NEW t \in Threads, attempts[t] > 0
          PROVE  /\ Reached(t, passes)
                 /\ t \in Failed => Reached(t, passes - MAX_THREAD_ATTEMPTS + 1)
      <3>0. PICK d \in Settled : Clear(d, t)
        BY <1>4 DEF OutageInv
      <3>1. t - d <= Span(passes - attempts[t] + 1)
        BY <1>4, <2>0, <3>0, ChargedSpan
      <3>2. /\ t \in Int /\ d \in Int /\ passes \in Int
            /\ attempts[t] \in Nat /\ MAX_THREAD_ATTEMPTS \in Nat
            /\ t \in Failed => MAX_THREAD_ATTEMPTS <= attempts[t]
        <4>1. t \in Int /\ d \in Int
          BY DEF Threads, Settled
        <4>2. passes \in Int /\ attempts[t] \in Nat /\ MAX_THREAD_ATTEMPTS \in Nat
          BY <1>4, PassAssumption DEF TypeOK
        <4>3. t \in Failed => MAX_THREAD_ATTEMPTS <= attempts[t]
          BY <1>4, <4>2 DEF ChargeInv
        <4>4. QED
          BY <4>1, <4>2, <4>3
      <3>3. /\ passes - attempts[t] + 1 \in Int /\ passes - MAX_THREAD_ATTEMPTS + 1 \in Int
            /\ passes - attempts[t] + 1 <= passes
            /\ t \in Failed => passes - attempts[t] + 1 <= passes - MAX_THREAD_ATTEMPTS + 1
        BY <2>0, <3>2
      <3>4. /\ Span(passes - attempts[t] + 1) \in Int /\ Span(passes) \in Int
            /\ Span(passes - MAX_THREAD_ATTEMPTS + 1) \in Int
            /\ Span(passes - attempts[t] + 1) <= Span(passes)
           
            /\ t \in Failed
                  => Span(passes - attempts[t] + 1) <= Span(passes - MAX_THREAD_ATTEMPTS + 1)
        BY <3>2, <3>3, Spans
      <3>5. /\ t - d <= Span(passes)
            /\ t \in Failed => t - d <= Span(passes - MAX_THREAD_ATTEMPTS + 1)
        BY <3>1, <3>2, <3>4
      <3>6. QED
        BY <3>0, <3>5 DEF Reached, Clear, Span, Threshold
    <2>1. \A t \in Failed : t \in Threads /\ attempts[t] > 0
      BY <1>4, PassAssumption DEF ChargeInv, Failed, TypeOK
    <2>2. QED
      BY <2>0, <2>1 DEF OutageRadius
  <1>5. QED
    BY <1>1, <1>2, <1>3, <1>4, InitType, NextType, NextCharge, PTL DEF Spec
-----------------------------------------------------------------------------
(* Calm imports: without faults and outages the walk is a function of the  *)
(* manifest, and these are the lemmas that say which.                      *)

\* A number is its quotient times the divisor, and its remainder.
LEMMA Division ==
    ASSUME NEW m \in Nat \ {0}, NEW x \in Nat
    PROVE  /\ x % m \in 0..(m - 1) /\ x \div m \in Int
           /\ x = m * (x \div m) + (x % m)
  <1>1. x % m \in 0..(m - 1) /\ x \div m \in Int
    BY SMT
  <1>2. x = m * (x \div m) + (x % m)
    BY SMT
  <1>3. QED
    BY <1>1, <1>2

\* The remainder is the only one.
LEMMA OneRemainder ==
    ASSUME NEW m \in Nat \ {0}, NEW q \in Int, NEW p \in Int,
           NEW r \in 0..(m - 1), NEW s \in 0..(m - 1),
           m * q + r = m * p + s
    PROVE  r = s
  <1>1. ASSUME NEW d \in Nat, q = p + 1 + d PROVE FALSE
    <2>1. m * q = m * p + m + m * d /\ m * d >= 0
      BY <1>1
    <2>2. QED
      BY <2>1
  <1>2. ASSUME NEW d \in Nat, p = q + 1 + d PROVE FALSE
    <2>1. m * p = m * q + m + m * d /\ m * d >= 0
      BY <1>2
    <2>2. QED
      BY <2>1
  <1>3. q = p \/ (\E d \in Nat : q = p + 1 + d) \/ (\E d \in Nat : p = q + 1 + d)
    <2>1. q > p => q - p - 1 \in Nat /\ q = p + 1 + (q - p - 1)
      OBVIOUS
    <2>2. q < p => p - q - 1 \in Nat /\ p = q + 1 + (p - q - 1)
      OBVIOUS
    <2>3. q > p \/ q = p \/ q < p
      OBVIOUS
    <2>4. QED
      BY <2>1, <2>2, <2>3
  <1>4. QED
    BY <1>1, <1>2, <1>3

\* Remainders count up and start again.
LEMMA NextRemainder ==
    ASSUME NEW m \in Nat \ {0}, NEW c \in Nat
    PROVE  (c + 1) % m = IF (c % m) + 1 = m THEN 0 ELSE (c % m) + 1
  <1> DEFINE q == c \div m
             r == c % m
             p == (c + 1) \div m
             s == (c + 1) % m
  <1>1. /\ r \in 0..(m - 1) /\ q \in Int /\ c = m * q + r
        /\ s \in 0..(m - 1) /\ p \in Int /\ c + 1 = m * p + s
    BY Division
  <1> HIDE DEF q, r, p, s
  <1>2. CASE r + 1 = m
    <2>1. m * (q + 1) + 0 = m * p + s
      BY <1>1, <1>2
    <2>2. s = 0
      BY <1>1, <2>1, OneRemainder
    <2>3. QED
      BY <1>2, <2>2 DEF r, s
  <1>3. CASE r + 1 # m
    <2>1. m * q + (r + 1) = m * p + s /\ r + 1 \in 0..(m - 1)
      BY <1>1, <1>3
    <2>2. s = r + 1
      BY <1>1, <2>1, OneRemainder
    <2>3. QED
      BY <1>3, <2>2 DEF r, s
  <1>4. QED
    BY <1>2, <1>3

\* The first failures in a row that a pass has met before it looks at t.
Row(t) == Cardinality(ClusterBefore(t)) % Threshold

\* The cluster before a thread, one thread later.
LEMMA Clusters ==
    ASSUME NEW t \in Threads
    PROVE  /\ IsFiniteSet(ClusterBefore(t)) /\ t \notin ClusterBefore(t)
           /\ t \in Bad => ClusterBefore(t + 1) = ClusterBefore(t) \cup {t}
           /\ t \notin Bad => ClusterBefore(t + 1) = {}
  <1>0. t \in Int /\ t >= 1
    BY PassAssumption DEF Threads
  <1>2. IsFiniteSet(ClusterBefore(t)) /\ t \notin ClusterBefore(t)
    <2>1. IsFiniteSet(1..(t - 1))
      BY <1>0, FS_Interval
    <2>2. ClusterBefore(t) \subseteq 1..(t - 1)
      BY DEF ClusterBefore
    <2>3. QED
      BY <1>0, <2>1, <2>2, FS_Subset
  <1>3. ASSUME t \in Bad PROVE ClusterBefore(t + 1) = ClusterBefore(t) \cup {t}
    <2>1. ASSUME NEW u \in ClusterBefore(t + 1), u # t PROVE u \in ClusterBefore(t)
      BY <1>0, <2>1 DEF ClusterBefore
    <2>2. ASSUME NEW u \in ClusterBefore(t) PROVE u \in ClusterBefore(t + 1)
      <3>1. u \in 1..t
        BY <1>0 DEF ClusterBefore
      <3>2. ASSUME NEW v \in u..t PROVE v \in Bad
        BY <1>0, <1>3, <3>1, <3>2 DEF ClusterBefore
      <3>3. QED
        BY <1>0, <3>1, <3>2 DEF ClusterBefore
    <2>3. t \in ClusterBefore(t + 1)
      <3>1. t \in 1..t /\ \A v \in t..t : v = t
        BY <1>0
      <3>2. (t + 1) - 1 = t
        BY <1>0
      <3>3. QED
        BY <1>3, <3>1, <3>2 DEF ClusterBefore
    <2>4. QED
      BY <2>1, <2>2, <2>3
  <1>4. ASSUME t \notin Bad, NEW u \in ClusterBefore(t + 1) PROVE FALSE
    <2>1. u \in 1..t /\ \A v \in u..t : v \in Bad
      BY <1>0 DEF ClusterBefore
    <2>2. t \in u..t
      BY <1>0, <2>1
    <2>3. QED
      BY <1>4, <2>1, <2>2
  <1>5. QED
    BY <1>2, <1>3, <1>4

\* How the row of failures grows along the manifest, and where it trips.
LEMMA Rows ==
    ASSUME NEW t \in Threads
    PROVE  /\ Row(t) \in 0..(Threshold - 1)
           /\ t \in Tripping <=> t \in Bad /\ Row(t) + 1 = Threshold
           /\ t \in Bad => Row(t + 1) = IF t \in Tripping THEN 0 ELSE Row(t) + 1
           /\ t \notin Bad => Row(t + 1) = 0
  <1> DEFINE c == Cardinality(ClusterBefore(t))
  <1>0. Threshold \in Nat \ {0}
    BY PassAssumption DEF Threshold
  <1>1. c \in Nat
    BY Clusters, FS_CardinalityType
  <1>2. 0 % Threshold = 0
    BY <1>0
  <1>3. Cardinality({}) = 0
    BY FS_EmptySet
  <1>5. t \in Bad => Cardinality(ClusterBefore(t + 1)) = c + 1
    BY Clusters, FS_AddElement
  <1>6. Row(t) = c % Threshold
    BY DEF Row
  <1>7. t \in Tripping <=> t \in Bad /\ (c + 1) % Threshold = 0
    BY DEF Tripping, Threshold
  <1> HIDE DEF c
  <1>8. Row(t) \in 0..(Threshold - 1)
    BY <1>0, <1>1, <1>6, Division
  <1>9. (c + 1) % Threshold = IF Row(t) + 1 = Threshold THEN 0 ELSE Row(t) + 1
    BY <1>0, <1>1, <1>6, NextRemainder
  <1>10. t \in Tripping <=> t \in Bad /\ Row(t) + 1 = Threshold
    BY <1>7, <1>8, <1>9
  <1>11. t \in Bad => Row(t + 1) = IF t \in Tripping THEN 0 ELSE Row(t) + 1
    BY <1>5, <1>9, <1>10 DEF Row
  <1>12. t \notin Bad => Row(t + 1) = 0
    BY <1>2, <1>3, Clusters DEF Row
  <1>13. QED
    BY <1>8, <1>10, <1>11, <1>12

\* How many tripping threads lie behind, one thread later and further on.
LEMMA Behinds ==
    ASSUME NEW t \in Threads
    PROVE  /\ Behind(t) \in Nat
           /\ Behind(t + 1) = IF t \in Tripping THEN Behind(t) + 1 ELSE Behind(t)
           /\ \A u \in Threads : t < u => Behind(t + 1) <= Behind(u)
  <1>0. Threads \subseteq Int /\ Tripping \subseteq Threads /\ IsFiniteSet(Tripping)
    <2>1. IsFiniteSet(Threads)
      BY PassAssumption, FS_Interval DEF Threads
    <2>2. Tripping \subseteq Threads
      BY DEF Tripping, Bad
    <2>3. IsFiniteSet(Tripping)
      BY <2>1, <2>2, FS_Subset
    <2>4. Threads \subseteq Int
      BY DEF Threads
    <2>5. QED
      BY <2>2, <2>3, <2>4
  <1>t. /\ t \in Int
        /\ \A u \in Tripping : u \in Int
    <2>1. t \in Int /\ \A u \in Threads : u \in Int
      BY DEF Threads
    <2>2. QED
      BY <1>0, <2>1
  <1> DEFINE B(x) == {u \in Tripping : u < x}
  <1>1. \A x : IsFiniteSet(B(x))
    BY <1>0, FS_Subset
  <1>3. Behind(t) \in Nat
    BY <1>1, FS_CardinalityType DEF Behind
  <1>4. Behind(t + 1) = IF t \in Tripping THEN Behind(t) + 1 ELSE Behind(t)
    <2>1. CASE t \in Tripping
      <3>0. \A u \in Tripping : u < t + 1 <=> u < t \/ u = t
        BY <1>t
      <3>a. ASSUME NEW u PROVE u \in B(t + 1) <=> u \in B(t) \cup {t}
        BY <2>1, <3>0
      <3>1. B(t + 1) = B(t) \cup {t} /\ t \notin B(t)
        BY <1>t, <3>a
      <3>2. Cardinality(B(t) \cup {t}) = Cardinality(B(t)) + 1
        BY <1>1, <3>1, FS_AddElement
      <3>3. QED
        BY <2>1, <3>1, <3>2 DEF Behind
    <2>2. CASE t \notin Tripping
      <3>0. \A u \in Tripping : u < t + 1 <=> u < t
        BY <1>t, <2>2
      <3>1. B(t + 1) = B(t)
        BY <3>0
      <3>2. QED
        BY <2>2, <3>1 DEF Behind
    <2>3. QED
      BY <2>1, <2>2
  <1>5. ASSUME NEW u \in Threads, t < u PROVE Behind(t + 1) <= Behind(u)
    <2>0. u \in Int
      BY <1>0
    <2>1. B(t + 1) \subseteq B(u)
      BY <1>t, <1>5, <2>0
    <2>2. Cardinality(B(t + 1)) <= Cardinality(B(u))
      BY <1>1, <2>1, FS_Subset
    <2>3. QED
      BY <2>2 DEF Behind
  <1>6. QED
    BY <1>3, <1>4, <1>5
-----------------------------------------------------------------------------
(* What every pass of a calm import leaves behind: a bad thread has been   *)
(* charged once by each pass but those that tripped before it.             *)

Due(t) == Seen(t) - Behind(t)
Clip(x) == IF x <= 0 THEN 0
           ELSE IF x >= MAX_THREAD_ATTEMPTS THEN MAX_THREAD_ATTEMPTS ELSE x
Verdict(x) == IF x >= MAX_THREAD_ATTEMPTS THEN "Failed" ELSE "Pending"

CalmShape ==
    /\ ~outage /\ job # "rejected"
    /\ passes = attempt + (IF job = "queued" THEN 0 ELSE 1)
    /\ \A t \in Bad : attempts[t] = Clip(Due(t)) /\ state[t] = Verdict(Due(t))
    /\ job = "running" =>
          /\ Behind(at) <= passes - 1
          /\ streak = IF Behind(at) = passes - 1 THEN Row(at) ELSE 0
          /\ owing => \E t \in Bad : t < at /\ state[t] = "Pending"
    /\ job = "dead" => \E t \in Bad : Behind(t) >= SparePasses
    /\ job = "succeeded" => \A t \in Bad : Behind(t) < SparePasses

CalmInv == calm => CalmShape

\* The manifest does not change, and nothing counted on it does.
LEMMA SameManifest ==
    ASSUME [Next]_vars
    PROVE  /\ nature' = nature /\ Bad' = Bad /\ Tripping' = Tripping
           /\ \A t : Behind(t)' = Behind(t) /\ Row(t)' = Row(t)
  <1>1. nature' = nature
    BY DEF Next, vars, world, QuipFails, QuipRecovers, Begin, Crash, Finish, Visit, Hindrance,
           Import, SkipForbidden, SkipChat, Decide, PassOver, GiveUp, FailLater, Trip, RunFailure,
           TokenRejected
  <1>2. Bad' = Bad
    BY <1>1 DEF Bad
  <1>3. \A t : ClusterBefore(t)' = ClusterBefore(t)
    BY <1>2 DEF ClusterBefore
  <1>4. Tripping' = Tripping
    BY <1>2 DEF Tripping, ClusterBefore
  <1>5. QED
    BY <1>1, <1>2, <1>3, <1>4 DEF Behind, Row

\* What a calm visit finds: a bad thread at hand is charged, or long given up.
LEMMA CalmVisit ==
    ASSUME TypeOK, CalmShape, NEW t \in Threads, Looking(t)
    PROVE  LET x == passes - 1 - Behind(t) IN
           /\ job = "running" /\ at = t /\ x \in Nat /\ passes \in Nat /\ Behind(t) \in Nat
           /\ t \in Bad => attempts[t] = Clip(x) /\ state[t] = Verdict(x)
           /\ streak = IF x = 0 THEN Row(t) ELSE 0
  <1> DEFINE x == passes - 1 - Behind(t)
  <1>1. job = "running" /\ at = t /\ passes \in Nat /\ Behind(t) \in Nat /\ t \in Int
    BY Behinds DEF Looking, TypeOK, Threads
  <1>2. Behind(t) <= passes - 1 /\ streak = IF Behind(t) = passes - 1 THEN Row(t) ELSE 0
    BY <1>1 DEF CalmShape
  <1>3. Due(t) = x
    BY <1>1 DEF Due, Seen
  <1>4. t \in Bad => attempts[t] = Clip(x) /\ state[t] = Verdict(x)
    BY <1>3 DEF CalmShape
  <1>5. QED
    BY <1>1, <1>2, <1>4

\* A visit that moves on: the thread at hand has been seen once more.
LEMMA CalmOnward ==
    ASSUME TypeOK, CalmShape, [Next]_vars, NEW t \in Threads, Looking(t), Onward,
           passes' = passes, ~outage',
           \A u \in Threads : u # t => state'[u] = state[u] /\ attempts'[u] = attempts[u],
           t \in Bad => /\ attempts'[t] = Clip(passes - Behind(t))
                        /\ state'[t] = Verdict(passes - Behind(t)),
           \/ t \notin Bad /\ streak' = 0
           \/ t \in Bad /\ passes - 1 - Behind(t) > 0 /\ streak' = 0
           \/ t \in Bad /\ passes - 1 - Behind(t) = 0 /\ t \notin Tripping /\ streak' = streak + 1,
           owing' => owing \/ (t \in Bad /\ state'[t] = "Pending")
    PROVE  CalmShape'
  <1>0. /\ job = "running" /\ job' = "running" /\ attempt' = attempt /\ at = t /\ at' = t + 1
        /\ t \in Int /\ Threads \subseteq Int /\ Bad \subseteq Threads
        /\ passes \in Nat /\ Behind(t) \in Nat /\ Behind(t) <= passes - 1
        /\ streak = IF passes - 1 - Behind(t) = 0 THEN Row(t) ELSE 0
    BY CalmVisit DEF Onward, queue, Threads, Bad
  <1>1. passes' = attempt' + (IF job' = "queued" THEN 0 ELSE 1)
    BY <1>0 DEF CalmShape
  <1>2. ASSUME NEW u \in Bad
        PROVE  attempts'[u] = Clip(Due(u)') /\ state'[u] = Verdict(Due(u)')
    <2>1. Behind(u)' = Behind(u)
      BY SameManifest
    <2>2. CASE u = t
      <3>1. Seen(u)' = passes
        BY <1>0, <2>2 DEF Seen
      <3>2. QED
        BY <2>1, <2>2, <3>1 DEF Due
    <2>3. CASE u # t
      <3>0. u \in Int
        BY <1>0
      <3>1. Seen(u)' = Seen(u)
        BY <1>0, <2>3, <3>0 DEF Seen
      <3>2. Due(u)' = Due(u)
        BY <2>1, <3>1 DEF Due
      <3>3. QED
        BY <1>0, <2>3, <3>2 DEF CalmShape
    <2>4. QED
      BY <2>2, <2>3
  <1>3. /\ Behind(t + 1) = IF t \in Tripping THEN Behind(t) + 1 ELSE Behind(t)
        /\ t \in Tripping => t \in Bad
        /\ t \in Bad => Row(t + 1) = IF t \in Tripping THEN 0 ELSE Row(t) + 1
        /\ t \notin Bad => Row(t + 1) = 0
    BY Behinds, Rows
  <1>4. Behind(t + 1) <= passes - 1
    BY <1>0, <1>3
  <1>5. streak' = IF Behind(t + 1) = passes - 1 THEN Row(t + 1) ELSE 0
    BY <1>0, <1>3
  <1>6. owing' => \E u \in Bad : u < at' /\ state'[u] = "Pending"
    <2>1. CASE t \in Bad /\ state'[t] = "Pending"
      BY <1>0, <2>1
    <2>2. CASE owing
      <3>1. PICK u \in Bad : u < at /\ state[u] = "Pending"
        BY <1>0, <2>2 DEF CalmShape
      <3>a. u \in Threads /\ u \in Int
        BY <1>0
      <3>2. u # t /\ u < at' /\ u \in Threads
        BY <1>0, <3>1, <3>a
      <3>3. QED
        BY <3>1, <3>2
    <2>3. QED
      BY <2>1, <2>2
  <1>7. Behind(at)' = Behind(t + 1) /\ Row(at)' = Row(t + 1)
    <2>1. Behind(t + 1)' = Behind(t + 1) /\ Row(t + 1)' = Row(t + 1)
      BY SameManifest
    <2>2. QED
      BY <1>0, <2>1
  <1>8. Bad' = Bad
    BY SameManifest
  <1>9. QED
    BY <1>0, <1>1, <1>2, <1>4, <1>5, <1>6, <1>7, <1>8 DEF CalmShape

\* A failure that is charged, of a thread that has some left.
LEMMA CalmCharge ==
    ASSUME MAX_THREAD_ATTEMPTS >= 2, TypeOK, CalmShape, NEW t \in Threads, Charge(t)
    PROVE  LET x == passes - 1 - Behind(t) IN
           /\ Looking(t) /\ t \in Bad /\ x \in Nat /\ x < MAX_THREAD_ATTEMPTS
           /\ state[t] = "Pending"
           /\ attempts[t] = x /\ attempts'[t] = x + 1 /\ Charged(t) = x + 1
           /\ x + 1 = passes - Behind(t)
           /\ \A u \in Threads : u # t => attempts'[u] = attempts[u]
           /\ x + 1 >= MAX_THREAD_ATTEMPTS => x > 0
  <1> DEFINE x == passes - 1 - Behind(t)
  <1>1. Looking(t) /\ state[t] = "Pending" /\ t \in Bad
    BY DEF Charge, Fails, Fetches, CalmShape, Bad
  <1>2. x \in Nat /\ passes \in Nat /\ Behind(t) \in Nat /\ attempts[t] = Clip(x)
                  /\ state[t] = Verdict(x)
    BY <1>1, CalmVisit
  <1>3. MAX_THREAD_ATTEMPTS \in Nat
    BY PassAssumption
  <1>4. x + 1 = passes - Behind(t)
    BY <1>2
  <1> HIDE DEF x
  <1>5. x < MAX_THREAD_ATTEMPTS
    BY <1>1, <1>2, <1>3 DEF Verdict
  <1>6. attempts[t] = x
    BY <1>2, <1>3, <1>5 DEF Clip
  <1>7. Charged(t) = x + 1 /\ attempts' = [attempts EXCEPT ![t] = x + 1]
    BY <1>6 DEF Charge, Charged
  <1>8. attempts'[t] = x + 1 /\ \A u \in Threads : u # t => attempts'[u] = attempts[u]
    BY <1>7 DEF TypeOK
  <1>9. x + 1 >= MAX_THREAD_ATTEMPTS => x > 0
    BY <1>2, <1>3
  <1>10. QED
    BY <1>1, <1>2, <1>4, <1>5, <1>6, <1>7, <1>8, <1>9 DEF x
\* Nothing lies behind the first thread.
LEMMA FirstThread == Behind(1) = 0 /\ Row(1) = 0
  <1>1. {u \in Tripping : u < 1} = {}
    <2>1. \A u \in Tripping : u \in Int /\ u >= 1
      BY DEF Tripping, Bad, Threads
    <2>2. QED
      BY <2>1
  <1>2. ClusterBefore(1) = {}
    BY DEF ClusterBefore
  <1>3. 0 % Threshold = 0
    BY PassAssumption DEF Threshold
  <1>4. QED
    BY <1>1, <1>2, <1>3, FS_EmptySet DEF Behind, Row

\* Every visit of a calm pass keeps the invariant.
LEMMA CalmVisits ==
    ASSUME MAX_THREAD_ATTEMPTS >= 2, TypeOK, CalmShape, [Next]_vars,
           NEW t \in Threads, Visit(t)
    PROVE  CalmShape'
  <1> DEFINE x == passes - 1 - Behind(t)
  <1>0. Looking(t) /\ passes' = passes /\ ~outage'
    BY DEF Visit, Import, SkipForbidden, SkipChat, PassOver, GiveUp, FailLater, Trip, Decide,
           Charge, Fails, Answered, Fetches, CalmShape, past, world
  <1>a. /\ MAX_THREAD_ATTEMPTS \in Nat /\ Threshold \in Nat \ {0}
        /\ x \in Nat /\ x + 1 = passes - Behind(t)
        /\ passes \in Nat /\ Behind(t) \in Nat /\ job = "running" /\ at = t
        /\ streak = IF x = 0 THEN Row(t) ELSE 0
        /\ t \in Bad => attempts[t] = Clip(x) /\ state[t] = Verdict(x)
    <2>1. x \in Nat /\ passes \in Nat /\ Behind(t) \in Nat => x + 1 = passes - Behind(t)
      OBVIOUS
    <2>2. QED
      BY <1>0, <2>1, CalmVisit, PassAssumption DEF Threshold
  <1>1. CASE Import(t) \/ SkipForbidden(t) \/ SkipChat(t)
    <2>1. PICK s : Decide(t, s)
      BY <1>1 DEF Import, SkipForbidden, SkipChat
    <2>2. t \notin Bad
      BY <1>1 DEF Bad, Import, SkipForbidden, SkipChat
    <2>3. /\ Onward /\ streak' = 0 /\ owing' = owing /\ attempts' = attempts
          /\ \A u \in Threads : u # t => state'[u] = state[u]
      BY <2>1 DEF Decide, TypeOK
    <2>4. QED
      BY <1>0, <2>2, <2>3, CalmOnward
  <1>2. CASE PassOver(t)
    <2>1. /\ Onward /\ streak' = 0 /\ owing' = owing /\ attempts' = attempts /\ state' = state
          /\ state[t] # "Pending"
      BY <1>2 DEF PassOver, rows
    <2>2. CASE t \in Bad
      <3>1. x >= MAX_THREAD_ATTEMPTS
        BY <1>a, <2>1, <2>2 DEF Verdict
      <3> HIDE DEF x
      <3>2. /\ Clip(x + 1) = Clip(x) /\ Verdict(x + 1) = Verdict(x) /\ x > 0
        BY <1>a, <3>1 DEF Clip, Verdict
      <3>3. /\ attempts'[t] = Clip(passes - Behind(t)) /\ state'[t] = Verdict(passes - Behind(t))
            /\ passes - 1 - Behind(t) > 0
        BY <1>a, <2>1, <2>2, <3>2 DEF x
      <3>4. QED
        BY <1>0, <2>1, <2>2, <3>3, CalmOnward
    <2>3. CASE t \notin Bad
      BY <1>0, <2>1, <2>3, CalmOnward
    <2>4. QED
      BY <2>2, <2>3
  <1>3. CASE GiveUp(t)
    <2>1. Charge(t) /\ GivesUp(t) /\ state' = [state EXCEPT ![t] = "Failed"]
          /\ streak' = 0 /\ Onward /\ owing' = owing
      BY <1>3 DEF GiveUp
    <2>2. /\ t \in Bad /\ attempts'[t] = x + 1 /\ x + 1 >= MAX_THREAD_ATTEMPTS
          /\ x < MAX_THREAD_ATTEMPTS /\ x > 0
          /\ \A u \in Threads : u # t => attempts'[u] = attempts[u]
      BY <2>1, CalmCharge DEF GivesUp
    <2>3. state'[t] = "Failed" /\ \A u \in Threads : u # t => state'[u] = state[u]
      BY <2>1 DEF TypeOK
    <2>4. attempts'[t] = Clip(passes - Behind(t)) /\ state'[t] = Verdict(passes - Behind(t))
      <3>0. x + 1 = passes - Behind(t) /\ x \in Nat
        BY <1>a
      <3> HIDE DEF x
      <3>1. attempts'[t] = Clip(x + 1) /\ state'[t] = Verdict(x + 1)
        BY <1>a, <2>2, <2>3, <3>0 DEF Clip, Verdict
      <3>2. QED
        BY <3>0, <3>1
    <2>5. QED
      BY <1>0, <2>1, <2>2, <2>3, <2>4, CalmOnward
  <1>4. ASSUME FailLater(t) \/ Trip(t)
        PROVE  /\ Charge(t) /\ ~GivesUp(t) /\ state' = state /\ streak' = Streak(t)
               /\ t \in Bad /\ attempts'[t] = Clip(passes - Behind(t))
               /\ state'[t] = Verdict(passes - Behind(t)) /\ state'[t] = "Pending"
               /\ \A u \in Threads : u # t => attempts'[u] = attempts[u]
               /\ Charged(t) = 1 <=> x = 0
               /\ Trips(t) <=> t \in Tripping /\ x = 0
    <2>1. Charge(t) /\ ~GivesUp(t) /\ state' = state /\ streak' = Streak(t)
      BY <1>4 DEF FailLater, Trip
    <2>2. /\ t \in Bad /\ attempts'[t] = x + 1 /\ x + 1 < MAX_THREAD_ATTEMPTS
          /\ Charged(t) = x + 1 /\ state[t] = "Pending"
          /\ \A u \in Threads : u # t => attempts'[u] = attempts[u]
      <3>1. /\ t \in Bad /\ attempts'[t] = x + 1
            /\ Charged(t) = x + 1 /\ state[t] = "Pending"
            /\ \A u \in Threads : u # t => attempts'[u] = attempts[u]
        BY <2>1, CalmCharge
      <3>2. ~(x + 1 >= MAX_THREAD_ATTEMPTS)
        BY <2>1, <3>1 DEF GivesUp
      <3>3. QED
        BY <1>a, <3>1, <3>2
    <2>3. attempts'[t] = Clip(passes - Behind(t)) /\ state'[t] = Verdict(passes - Behind(t))
      <3>0. x + 1 = passes - Behind(t) /\ x \in Nat
        BY <1>a
      <3> HIDE DEF x
      <3>1. attempts'[t] = Clip(x + 1) /\ state'[t] = Verdict(x + 1)
        BY <1>a, <2>1, <2>2, <3>0 DEF Clip, Verdict
      <3>2. QED
        BY <3>0, <3>1
    <2>4. Charged(t) = 1 <=> x = 0
      BY <1>a, <2>2
    <2>5. Trips(t) <=> t \in Tripping /\ x = 0
      <3>1. Trips(t) <=> x = 0 /\ Row(t) + 1 >= Threshold
        BY <1>a, <2>4 DEF Trips, Streak, Threshold
      <3>2. Row(t) \in 0..(Threshold - 1) /\ (t \in Tripping <=> Row(t) + 1 = Threshold)
        BY <2>2, Rows
      <3>3. QED
        BY <1>a, <3>1, <3>2
    <2>6. QED
      BY <2>1, <2>2, <2>3, <2>4, <2>5
  <1>5. CASE FailLater(t)
    <2>1. ~Trips(t) /\ owing' = TRUE /\ Onward
      BY <1>5 DEF FailLater
    <2>2. CASE x = 0
      <3>1. streak' = streak + 1 /\ t \notin Tripping
        BY <1>4, <1>5, <2>1, <2>2 DEF Streak
      <3>2. QED
        BY <1>0, <1>4, <1>5, <2>1, <2>2, <3>1, CalmOnward
    <2>3. CASE x > 0
      <3>1. streak' = 0
        BY <1>4, <1>5, <1>a, <2>3 DEF Streak
      <3>2. QED
        BY <1>0, <1>4, <1>5, <2>1, <2>3, <3>1, CalmOnward
    <2>4. QED
      BY <1>a, <2>2, <2>3
  <1>6. CASE Trip(t)
    <2>1. x = 0 /\ t \in Tripping /\ Errs /\ at' = at
      BY <1>4, <1>6 DEF Trip
    <2>2. Behind(t) = passes - 1 /\ Behind(t + 1) = passes
      BY <1>a, <2>1, Behinds
    <2>3. ASSUME NEW u \in Bad
          PROVE  attempts'[u] = Clip(Due(u)') /\ state'[u] = Verdict(Due(u)')
      <3>0. /\ u \in Threads /\ u \in Int /\ t \in Int /\ Behind(u) \in Nat
        BY Behinds DEF Bad, Threads
      <3>1. job' # "running"
        BY <2>1, ErrsType DEF TypeOK
      <3>2. Due(u)' = passes - Behind(u)
        <4>1. Behind(u)' = Behind(u) /\ Seen(u)' = passes
          BY <1>0, <3>1, SameManifest DEF Seen
        <4>2. QED
          BY <4>1 DEF Due
      <3>3. CASE u = t
        BY <1>4, <1>6, <3>2, <3>3
      <3>4. CASE u < t
        <4>1. Due(u) = passes - Behind(u)
          BY <1>a, <3>0, <3>4 DEF Due, Seen
        <4>2. QED
          BY <1>4, <1>6, <3>0, <3>2, <3>4, <4>1 DEF CalmShape
      <3>5. CASE u > t
        <4>1. Behind(u) >= passes
          BY <2>2, <3>0, <3>5, Behinds
        <4>2. Due(u) = passes - 1 - Behind(u)
          BY <1>a, <3>0, <3>5 DEF Due, Seen
        <4>3. /\ Clip(Due(u)) = 0 /\ Clip(passes - Behind(u)) = 0
              /\ Verdict(Due(u)) = "Pending" /\ Verdict(passes - Behind(u)) = "Pending"
          BY <1>a, <3>0, <4>1, <4>2 DEF Clip, Verdict
        <4>4. attempts'[u] = 0 /\ state'[u] = "Pending"
          BY <1>4, <1>6, <3>0, <3>5, <4>3 DEF CalmShape
        <4>5. QED
          BY <3>2, <4>3, <4>4
      <3>6. QED
        BY <3>0, <3>3, <3>4, <3>5
    <2>4. passes = attempt + 1 /\ attempt \in Nat /\ MAX_RETRIES \in Nat /\ attempt <= MAX_RETRIES
      BY <1>a, PassAssumption DEF CalmShape, TypeOK
    <2>5. /\ job' \in {"queued", "dead"}
          /\ passes' = attempt' + (IF job' = "queued" THEN 0 ELSE 1)
      BY <1>0, <2>1, <2>4 DEF Errs
    <2>6. job' = "dead" => t \in Bad /\ Behind(t) >= SparePasses
      <3>1. job' = "dead" => Behind(t) = MAX_RETRIES
        BY <1>a, <2>1, <2>2, <2>4 DEF Errs
      <3>2. QED
        BY <1>4, <1>6, <1>a, <2>4, <3>1 DEF SparePasses
    <2>7. Bad' = Bad /\ Behind(t)' = Behind(t)
      BY SameManifest
    <2>8. job' = "dead" => \E u \in Bad' : Behind(u)' >= SparePasses
      BY <2>6, <2>7
    <2>9. QED
      BY <1>0, <2>3, <2>5, <2>7, <2>8 DEF CalmShape
  <1>7. QED
    BY <1>1, <1>2, <1>3, <1>5, <1>6 DEF Visit

\* The invariant of calm imports is inductive when a thread may fail at all
\* before it is given up; the code allows it twice (MAX_THREAD_ATTEMPTS = 3).
LEMMA NextCalm ==
    ASSUME MAX_THREAD_ATTEMPTS >= 2, TypeOK, TypeOK', WalkInv', CalmInv, [Next]_vars
    PROVE  CalmInv'
  <1> SUFFICES ASSUME calm' PROVE CalmShape'
    BY DEF CalmInv
  <1>0. calm' => calm
    BY DEF Next, vars, past, QuipFails, QuipRecovers, Begin, Crash, Finish, Visit, Hindrance,
           Import, SkipForbidden, SkipChat, Decide, PassOver, GiveUp, FailLater, Trip, RunFailure,
           TokenRejected, Fault
  <1>1. CalmShape
    BY <1>0 DEF CalmInv
  <1>2. ASSUME NEW t \in Threads, Visit(t) \/ Hindrance(t)
        PROVE  CalmShape'
    BY <1>1, <1>2, CalmVisits DEF Hindrance, RunFailure, TokenRejected, Fault
  <1>3. CASE QuipFails \/ QuipRecovers \/ Crash
    BY <1>1, <1>3 DEF QuipFails, QuipRecovers, Crash, Fault, CalmShape
  <1>4. CASE Begin
    <2>1. /\ job = "queued" /\ job' = "running" /\ at' = 1 /\ streak' = 0 /\ owing' = FALSE
          /\ passes' = passes + 1 /\ UNCHANGED <<state, attempts, attempt, outage>>
      BY <1>4 DEF Begin, rows, world
    <2>2. passes \in Nat /\ Threads \subseteq Int /\ (\A t \in Threads : t >= 1)
                         /\ Bad \subseteq Threads
      BY DEF TypeOK, Threads, Bad
    <2>3. \A t \in Bad : Due(t)' = Due(t)
      <3>1. ASSUME NEW t \in Bad PROVE Due(t)' = Due(t)
        <4>1. t \in Int /\ t >= 1
          BY <2>2
        <4>2. Seen(t)' = passes /\ Seen(t) = passes
          BY <2>1, <2>2, <4>1 DEF Seen
        <4>3. QED
          BY <4>2, SameManifest DEF Due
      <3>2. QED
        BY <3>1
    <2>4. Behind(at)' = Behind(1) /\ Row(at)' = Row(1)
      <3>1. Behind(1)' = Behind(1) /\ Row(1)' = Row(1)
        BY SameManifest
      <3>2. QED
        BY <2>1, <3>1
    <2>5. Behind(1) = 0 /\ Row(1) = 0
      BY FirstThread
    <2>6. passes' = attempt' + 1
      BY <1>1, <2>1, <2>2 DEF CalmShape, TypeOK
    <2>7. /\ Behind(at)' <= passes' - 1
          /\ streak' = IF Behind(at)' = passes' - 1 THEN Row(at)' ELSE 0
      BY <2>1, <2>2, <2>4, <2>5
    <2>8. Bad' = Bad /\ \A t \in Bad : attempts'[t] = Clip(Due(t)') /\ state'[t] = Verdict(Due(t)')
      BY <1>1, <2>1, <2>3, SameManifest DEF CalmShape
    <2>9. QED
      BY <1>1, <2>1, <2>6, <2>7, <2>8 DEF CalmShape
  <1>5. CASE Finish
    <2>1. /\ job = "running" /\ at > N
          /\ UNCHANGED <<state, attempts, at, streak, owing, passes, outage>>
          /\ IF owing THEN Errs ELSE job' = "succeeded" /\ attempt' = attempt
      BY <1>5 DEF Finish, rows, walk, past, world
    <2>2. job' \in {"queued", "dead", "succeeded"} /\ job' # "running"
      BY <2>1, ErrsType DEF TypeOK
    <2>3. /\ passes = attempt + 1 /\ attempt \in Nat /\ MAX_RETRIES \in Nat
          /\ attempt <= MAX_RETRIES
          /\ MAX_THREAD_ATTEMPTS \in Nat
      BY <1>1, <2>1, PassAssumption DEF CalmShape, TypeOK
    <2>4. passes' = attempt' + (IF job' = "queued" THEN 0 ELSE 1)
      BY <2>1, <2>3 DEF Errs
    <2>5. ASSUME NEW t \in Bad
          PROVE  /\ Due(t) = passes - Behind(t) /\ Due(t)' = Due(t) /\ Behind(t) \in Nat
      <3>1. t \in Threads /\ t \in Int /\ ~(t >= at)
        BY <2>1, PassAssumption DEF Bad, Threads, TypeOK
      <3>2. Seen(t) = passes /\ Seen(t)' = passes
        BY <2>1, <2>2, <3>1 DEF Seen
      <3>3. QED
        BY <3>1, <3>2, SameManifest, Behinds DEF Due
    <2>6. job' = "dead" => \E t \in Bad : Behind(t) >= SparePasses
      <3>1. SUFFICES ASSUME job' = "dead" PROVE \E t \in Bad : Behind(t) >= SparePasses
        OBVIOUS
      <3>2. owing /\ attempt = MAX_RETRIES
        BY <2>1, <2>3, <3>1 DEF Errs
      <3>3. PICK t \in Bad : state[t] = "Pending"
        BY <1>1, <2>1, <3>2 DEF CalmShape
      <3>4. state[t] = Verdict(passes - Behind(t)) /\ Behind(t) \in Nat
        BY <1>1, <2>5 DEF CalmShape
      <3>5. passes - Behind(t) < MAX_THREAD_ATTEMPTS
        BY <2>3, <3>3, <3>4 DEF Verdict
      <3>6. QED
        BY <2>3, <3>2, <3>4, <3>5 DEF SparePasses
    <2>7. job' = "succeeded" => \A t \in Bad : Behind(t) < SparePasses
      <3>1. ASSUME job' = "succeeded", NEW t \in Bad PROVE Behind(t) < SparePasses
        <4>1. state'[t] # "Pending"
          BY <3>1 DEF WalkInv, SucceededDecided, Undecided, Bad
        <4>2. state[t] = Verdict(passes - Behind(t)) /\ Behind(t) \in Nat
          BY <1>1, <2>5 DEF CalmShape
        <4>3. passes - Behind(t) >= MAX_THREAD_ATTEMPTS
          BY <2>1, <4>1, <4>2 DEF Verdict
        <4>4. QED
          BY <2>3, <4>2, <4>3 DEF SparePasses
      <3>2. QED
        BY <3>1
    <2>8. Bad' = Bad /\ \A t : Behind(t)' = Behind(t)
      BY SameManifest
    <2>9. \A t \in Bad : attempts'[t] = Clip(Due(t)') /\ state'[t] = Verdict(Due(t)')
      BY <1>1, <2>1, <2>5 DEF CalmShape
    <2>10. QED
      BY <1>1, <2>1, <2>2, <2>4, <2>6, <2>7, <2>8, <2>9 DEF CalmShape
  <1>6. CASE UNCHANGED vars
    <2>1. UNCHANGED <<state, attempts, job, attempt, at, streak, owing, passes, outage, nature>>
      BY <1>6 DEF vars, rows, walk, queue, past, world
    <2>2. /\ \A t : Due(t)' = Due(t)
          /\ Behind(at)' = Behind(at) /\ Row(at)' = Row(at)
      <3>1. Bad' = Bad /\ Tripping' = Tripping
        BY SameManifest
      <3>2. \A t : Seen(t)' = Seen(t)
        BY <2>1 DEF Seen
      <3>3. QED
        BY <2>1, <3>1, <3>2, SameManifest DEF Due, Behind, Row, ClusterBefore
    <2>3. QED
      BY <1>1, <2>1, <2>2, SameManifest DEF CalmShape
  <1>7. QED
    BY <1>2, <1>3, <1>4, <1>5, <1>6 DEF Next

\* The walk gets past one tripping thread per pass, wherever in the manifest
\* it lies, so without outages and faults the import is lost exactly if a bad
\* thread lies behind as many of them as there are passes to spare; otherwise
\* it succeeds (the circuit breaker of run_content_pass).
THEOREM LostIffTooManyBlocks ==
    ASSUME MAX_THREAD_ATTEMPTS >= 2
    PROVE  Spec => []DeadLetterIffTooManyBlocks
  <1>1. Init => CalmInv
    <2> SUFFICES ASSUME Init PROVE CalmShape
      BY DEF CalmInv
    <2>1. /\ job = "queued" /\ passes = 0 /\ attempt = 0 /\ ~outage
          /\ \A t \in Threads : attempts[t] = 0 /\ state[t] = "Pending"
      BY DEF Init
    <2>2. ASSUME NEW t \in Bad PROVE attempts[t] = Clip(Due(t)) /\ state[t] = Verdict(Due(t))
      <3>1. t \in Threads /\ Behind(t) \in Nat
        BY Behinds DEF Bad
      <3>2. Due(t) = 0 - Behind(t)
        BY <2>1 DEF Due, Seen
      <3>3. QED
        BY <2>1, <3>1, <3>2, PassAssumption DEF Clip, Verdict
    <2>3. QED
      BY <2>1, <2>2 DEF CalmShape
  <1>2. Init => WalkInv
    BY DEF Init, WalkInv, SucceededDecided
  <1>3. TypeOK /\ TypeOK' /\ WalkInv' /\ CalmInv /\ [Next]_vars => CalmInv'
    BY NextCalm
  <1>4. CalmInv => DeadLetterIffTooManyBlocks
    <2> SUFFICES ASSUME calm, CalmShape, job \in {"dead", "succeeded"}
                 PROVE  job = "dead" <=> \E t \in Bad : Behind(t) >= SparePasses
      BY DEF CalmInv, DeadLetterIffTooManyBlocks
    <2>1. CASE job = "dead"
      BY <2>1 DEF CalmShape
    <2>2. CASE job = "succeeded"
      <3>1. ASSUME NEW t \in Bad PROVE ~(Behind(t) >= SparePasses)
        <4>1. Behind(t) \in Nat /\ SparePasses \in Int
          BY Behinds, PassAssumption DEF Bad, SparePasses
        <4>2. QED
          BY <2>2, <4>1 DEF CalmShape
      <3>2. QED
        BY <2>2, <3>1
    <2>3. QED
      BY <2>1, <2>2
  <1>5. QED
    BY <1>1, <1>2, <1>3, <1>4, InitType, NextType, NextWalk, PTL DEF Spec
=============================================================================
