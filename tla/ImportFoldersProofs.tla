------------------------ MODULE ImportFoldersProofs ------------------------
(***************************************************************************)
(* Theorems about ImportFolders, for any manifest, any number of runners   *)
(* and any bounds.                                                         *)
(***************************************************************************)
EXTENDS ImportFolders, FiniteSetTheorems, WellFoundedInduction, TLAPS

IsRecorded(d) == d # NoId /\ \E f \in Folders : ogre[f] = d
HasEdge(d) == \E e \in edge : e[2] = d

RunType ==
    [step : Step, at : Nat, rows : [Folders -> Nat], mirrored : [Folders -> Nat],
     candidate : Nat]

Types ==
    /\ lastId \in 0..MaxIds
    /\ ogre \in [Folders -> Nat]
    /\ filed \in [Folders -> Nat]
    /\ runner \in [Runners -> RunType]

RecordedNext(d) == d # NoId /\ \E f \in Folders : ogre'[f] = d

\* What a run has made of the folder in hand, step by step.
InHand(r) ==
    /\ runner[r].step \in {"create", "member", "record"} =>
          runner[r].candidate # NoId /\ HasEdge(runner[r].candidate)
    /\ runner[r].step \in {"member", "record"} =>
          runner[r].candidate \in exists \cup deleted
    /\ runner[r].step = "record" => runner[r].candidate \in owned

\* A run only knows ids that are recorded.
Knows(r) ==
    \A f \in Folders :
        /\ runner[r].rows[f] # NoId => ogre[f] = runner[r].rows[f]
        /\ runner[r].mirrored[f] # NoId => IsRecorded(runner[r].mirrored[f])

\* Things hang under the destination and under recorded folders only.
Hung ==
    /\ \A e \in edge : e[1] = Destination \/ IsRecorded(e[1])
    /\ \A f \in Folders : filed[f] \in {NoId, Destination} \/ IsRecorded(filed[f])

MirrorInv ==
    /\ Types /\ RecordedIsMade /\ Hung
    /\ \A r \in Runners : InHand(r) /\ Knows(r)

\* An id, once recorded, stays.
RecordedKept == \A f \in Folders : ogre[f] # NoId => ogre'[f] = ogre[f]

LEMMA InitMirror == Init => MirrorInv
  BY FoldersAssumption
  DEF Init, MirrorInv, Types, RecordedIsMade, Hung, InHand, Knows, NoRun, RunFrom, NoneYet, RunType, NoId, Step

\* A step that leaves the rows alone and takes nothing away keeps what is
\* known of the recorded folders.
LEMMA GrowKeeps ==
    ASSUME MirrorInv, ogre' = ogre, edge \subseteq edge', owned \subseteq owned',
           exists \cup deleted \subseteq exists' \cup deleted'
    PROVE  RecordedIsMade'
  BY DEF MirrorInv, RecordedIsMade

\* A run whose record and ids are left alone keeps its part.
LEMMA OthersKeep ==
    ASSUME MirrorInv, RecordedKept, edge \subseteq edge', owned \subseteq owned',
           exists \cup deleted \subseteq exists' \cup deleted',
           NEW r \in Runners, runner'[r] = runner[r]
    PROVE  InHand(r)' /\ Knows(r)'
  <1>1. InHand(r)'
    BY DEF MirrorInv, InHand, HasEdge
  <1>2. runner[r].rows \in [Folders -> Nat] /\ runner[r].mirrored \in [Folders -> Nat]
    BY DEF MirrorInv, Types, RunType
  <1>3. ASSUME NEW f \in Folders PROVE
           /\ runner[r].rows[f] # NoId => ogre'[f] = runner[r].rows[f]
           /\ runner[r].mirrored[f] # NoId => IsRecorded(runner[r].mirrored[f])'
    BY <1>2 DEF MirrorInv, Knows, RecordedKept, IsRecorded
  <1>4. QED
    BY <1>1, <1>3 DEF Knows, IsRecorded

\* The locals of a run, field by field.
LEMMA RunFields ==
    ASSUME NEW s \in Step, NEW n \in Nat, NEW x \in [Folders -> Nat],
           NEW m \in [Folders -> Nat], NEW c \in Nat
    PROVE  [step |-> s, at |-> n, rows |-> x, mirrored |-> m, candidate |-> c] \in RunType
  BY DEF RunType

LEMMA RunOf ==
    ASSUME NEW x \in RunType
    PROVE  /\ x.step \in Step /\ x.at \in Nat /\ x.rows \in [Folders -> Nat]
           /\ x.mirrored \in [Folders -> Nat] /\ x.candidate \in Nat
           /\ x = [step |-> x.step, at |-> x.at, rows |-> x.rows,
                   mirrored |-> x.mirrored, candidate |-> x.candidate]
  BY DEF RunType

\* A run that has made the link for its next folder.
LEMMA RunLinked ==
    ASSUME NEW x \in RunType, NEW d \in Nat
    PROVE  /\ [x EXCEPT !.step = "create", !.candidate = d] \in RunType
           /\ [x EXCEPT !.step = "create", !.candidate = d].step = "create"
           /\ [x EXCEPT !.step = "create", !.candidate = d].candidate = d
           /\ [x EXCEPT !.step = "create", !.candidate = d].rows = x.rows
           /\ [x EXCEPT !.step = "create", !.candidate = d].mirrored = x.mirrored
  BY DEF RunType, Step

\* A run that goes on to the next row.
LEMMA OnwardType ==
    ASSUME NEW r \in Runners, runner[r] \in RunType, NEW f \in Folders, NEW d \in Nat
    PROVE  /\ Onward(r, f, d) \in RunType
           /\ Onward(r, f, d).step = "walk" /\ Onward(r, f, d).rows = runner[r].rows
           /\ \A g \in Folders : Onward(r, f, d).mirrored[g] =
                 IF g = f THEN d ELSE runner[r].mirrored[g]
  <1> DEFINE m == [runner[r].mirrored EXCEPT ![f] = d]
  <1>1. /\ runner[r].at + 1 \in Nat /\ m \in [Folders -> Nat] /\ "walk" \in Step
        /\ runner[r].rows \in [Folders -> Nat] /\ NoId \in Nat
    BY RunOf DEF Step, NoId
  <1>2. Onward(r, f, d) \in RunType
    BY <1>1, RunFields DEF Onward
  <1>3. \A g \in Folders : m[g] = IF g = f THEN d ELSE runner[r].mirrored[g]
    BY RunOf
  <1>4. QED
    BY <1>2, <1>3 DEF Onward

\* A run that starts over or stops.
LEMMA FreshRun ==
    ASSUME MirrorInv, ogre' = ogre, NEW r \in Runners,
           \/ runner'[r] = NoRun
           \/ runner'[r] = RunFrom("walk", ogre)
    PROVE  runner'[r] \in RunType /\ InHand(r)' /\ Knows(r)'
  <1>1. /\ runner'[r] \in RunType /\ runner'[r].step \in {"idle", "walk"}
        /\ \A f \in Folders : /\ runner'[r].mirrored[f] = NoId
                              /\ runner'[r].rows[f] \in {NoId, ogre[f]}
    <2>1. ogre \in [Folders -> Nat] /\ NoneYet \in [Folders -> Nat]
      BY DEF MirrorInv, Types, NoId, NoneYet
    <2>2. 1 \in Nat /\ NoId \in Nat /\ "idle" \in Step /\ "walk" \in Step
      BY DEF Step, NoId
    <2>3. NoRun \in RunType /\ RunFrom("walk", ogre) \in RunType
      BY <2>1, <2>2, RunFields DEF NoRun, RunFrom
    <2>4. QED
      BY <2>3 DEF NoRun, RunFrom, NoneYet
  <1>2. InHand(r)'
    BY <1>1 DEF InHand
  <1>3. Knows(r)'
    BY <1>1 DEF Knows, NoId
  <1>4. QED
    BY <1>1, <1>2, <1>3

\* Creating the folder's edge: under the destination or a recorded folder.
LEMMA UnderKnown ==
    ASSUME MirrorInv, NEW r \in Runners, NEW f \in Folders
    PROVE  Under(r, f) = Destination \/ IsRecorded(Under(r, f))
  <1>1. ASSUME NEW g \in Folders, runner[r].mirrored[g] # NoId
        PROVE  IsRecorded(runner[r].mirrored[g])
    BY <1>1 DEF MirrorInv, Knows
  <1>2. QED
    BY <1>1 DEF Under

LEMMA LinkKeeps ==
    ASSUME MirrorInv, NEW r \in Runners, NEW f \in Folders, Link(r, f)
    PROVE  MirrorInv'
  <1> USE DEF Link, Set, tree, user, rows
  <1>1. RecordedKept /\ ogre' = ogre /\ edge \subseteq edge' /\ owned' = owned
        /\ exists' = exists /\ deleted' = deleted /\ filed' = filed
    BY DEF RecordedKept
  <1>2. RecordedIsMade'
    BY <1>1, GrowKeeps
  <1>3. runner[r] \in RunType
    BY DEF MirrorInv, Types
  <1>4. lastId' \in 0..MaxIds /\ lastId' # NoId /\ lastId' \in Nat
    BY FoldersAssumption DEF MirrorInv, Types, NoId
  <1>5. runner'[r] = [runner[r] EXCEPT !.step = "create", !.candidate = lastId']
    BY DEF MirrorInv, Types
  <1>6. /\ runner'[r] \in RunType
        /\ runner'[r].step = "create" /\ runner'[r].candidate = lastId'
        /\ runner'[r].rows = runner[r].rows /\ runner'[r].mirrored = runner[r].mirrored
    <2> DEFINE y == [runner[r] EXCEPT !.step = "create", !.candidate = lastId']
    <2>1. /\ y \in RunType /\ y.step = "create" /\ y.candidate = lastId'
          /\ y.rows = runner[r].rows /\ y.mirrored = runner[r].mirrored
      BY <1>3, <1>4, RunLinked
    <2>2. runner'[r] = y
      BY <1>5
    <2> HIDE DEF y
    <2>3. QED
      BY <2>1, <2>2
  <1>7. Types'
    BY <1>1, <1>4, <1>6 DEF MirrorInv, Types
  <1>8. \E e \in edge' : e[2] = lastId'
    <2>1. <<Under(r, f), lastId'>> \in edge'
      OBVIOUS
    <2>2. <<Under(r, f), lastId'>>[2] = lastId'
      OBVIOUS
    <2>3. QED
      BY ONLY <2>1, <2>2
  <1>9. InHand(r)'
    BY <1>4, <1>6, <1>8 DEF InHand, HasEdge
  <1>10. Knows(r)'
    BY <1>1, <1>6 DEF MirrorInv, Knows, IsRecorded
  <1>11. Hung'
    BY <1>1, UnderKnown DEF MirrorInv, Hung, IsRecorded
  <1>12. \A q \in Runners : q # r => InHand(q)' /\ Knows(q)'
    <2>1. SUFFICES ASSUME NEW q \in Runners, q # r PROVE InHand(q)' /\ Knows(q)'
      OBVIOUS
    <2>2. runner'[q] = runner[q]
      BY <2>1 DEF MirrorInv, Types
    <2>3. QED
      BY <1>1, <2>2, OthersKeep
  <1>13. QED
    BY <1>2, <1>7, <1>9, <1>10, <1>11, <1>12 DEF MirrorInv

\* The steps of a run that create rows or adopt an id.
LEMMA MakeKeeps ==
    ASSUME MirrorInv, NEW r \in Runners, NEW f \in Folders,
           Adopt(r, f) \/ Create(r, f) \/ AddOwner(r, f)
    PROVE  MirrorInv'
  <1> USE DEF Adopt, Create, AddOwner, Set, tree, user, rows, Working
  <1>1. /\ RecordedKept /\ ogre' = ogre /\ edge' = edge /\ owned \subseteq owned'
        /\ exists \subseteq exists' /\ deleted' = deleted /\ filed' = filed
        /\ lastId' = lastId
    BY DEF RecordedKept
  <1>2. RecordedIsMade'
    BY <1>1, GrowKeeps
  <1>3. runner[r] \in RunType /\ InHand(r) /\ Knows(r)
    BY DEF MirrorInv, Types
  <1>4. CASE Adopt(r, f)
    <2>1. runner'[r] = Onward(r, f, runner[r].rows[f]) /\ runner[r].rows[f] \in Nat
      BY <1>3, <1>4, RunOf DEF MirrorInv, Types
    <2>2. runner'[r] \in RunType /\ runner'[r].step = "walk"
          /\ runner'[r].rows = runner[r].rows
          /\ \A g \in Folders : runner'[r].mirrored[g] =
                IF g = f THEN runner[r].rows[f] ELSE runner[r].mirrored[g]
      BY <1>3, <2>1, OnwardType
    <2>3. InHand(r)'
      BY <2>2 DEF InHand
    <2>4. IsRecorded(runner[r].rows[f])
      BY <1>3, <1>4 DEF Knows, IsRecorded
    <2>5. Knows(r)'
      BY <1>1, <1>3, <2>2, <2>4 DEF Knows, IsRecorded
    <2>6. QED
      BY <2>2, <2>3, <2>5, <1>1, <1>2, <1>4, OthersKeep
      DEF MirrorInv, Types, Hung, IsRecorded
  <1>5. CASE Create(r, f)
    <2>1. runner'[r] = [runner[r] EXCEPT !.step = "member"]
      BY <1>5 DEF MirrorInv, Types
    <2>2. runner'[r] \in RunType /\ runner'[r].step = "member"
          /\ runner'[r].candidate = runner[r].candidate
          /\ runner'[r].rows = runner[r].rows /\ runner'[r].mirrored = runner[r].mirrored
      BY <1>3, <2>1 DEF RunType, Step
    <2>3. InHand(r)'
      BY <1>1, <1>3, <1>5, <2>2 DEF InHand, HasEdge
    <2>4. Knows(r)'
      BY <1>1, <1>3, <2>2 DEF Knows, IsRecorded
    <2>5. QED
      BY <2>2, <2>3, <2>4, <1>1, <1>2, <1>5, OthersKeep
      DEF MirrorInv, Types, Hung, IsRecorded
  <1>6. CASE AddOwner(r, f)
    <2>1. runner'[r] = [runner[r] EXCEPT !.step = "record"]
      BY <1>6 DEF MirrorInv, Types
    <2>2. runner'[r] \in RunType /\ runner'[r].step = "record"
          /\ runner'[r].candidate = runner[r].candidate
          /\ runner'[r].rows = runner[r].rows /\ runner'[r].mirrored = runner[r].mirrored
      BY <1>3, <2>1 DEF RunType, Step
    <2>3. InHand(r)'
      BY <1>1, <1>3, <1>6, <2>2 DEF InHand, HasEdge
    <2>4. Knows(r)'
      BY <1>1, <1>3, <2>2 DEF Knows, IsRecorded
    <2>5. QED
      BY <2>2, <2>3, <2>4, <1>1, <1>2, <1>6, OthersKeep
      DEF MirrorInv, Types, Hung, IsRecorded
  <1>7. QED
    BY <1>4, <1>5, <1>6

\* Recording: the first id stays, and every run leaves with a recorded one.
LEMMA RecordKeeps ==
    ASSUME MirrorInv, NEW r \in Runners, NEW f \in Folders, Record(r, f)
    PROVE  MirrorInv' /\ RecordedKept
  <1> USE DEF Record, Set, tree, rows, user, Working, Recorded
  <1>1. runner[r] \in RunType /\ InHand(r) /\ Knows(r) /\ ogre \in [Folders -> Nat]
    BY DEF MirrorInv, Types
  <1>2. /\ edge' = edge /\ owned' = owned /\ exists' = exists /\ deleted' = deleted
        /\ filed' = filed /\ lastId' = lastId
    OBVIOUS
  <1>3. RecordedKept
    BY <1>1 DEF RecordedKept, FirstWins
  <1>4. ogre' \in [Folders -> Nat] /\ ogre'[f] # NoId
        /\ \A g \in Folders : g # f => ogre'[g] = ogre[g]
    BY <1>1 DEF FirstWins, InHand, RunType
  <1>5. \/ ogre'[f] = ogre[f] /\ ogre[f] # NoId
        \/ ogre'[f] = runner[r].candidate
    BY <1>1 DEF FirstWins
  <1>6. RecordedIsMade'
    BY <1>1, <1>2, <1>4, <1>5 DEF MirrorInv, RecordedIsMade, InHand, HasEdge
  <1>7. runner'[r] = Onward(r, f, ogre'[f]) /\ ogre'[f] \in Nat
    BY <1>4 DEF MirrorInv, Types
  <1>8. /\ runner'[r] \in RunType /\ runner'[r].step = "walk"
        /\ runner'[r].rows = runner[r].rows
        /\ \A g \in Folders : runner'[r].mirrored[g] =
              IF g = f THEN ogre'[f] ELSE runner[r].mirrored[g]
    BY <1>1, <1>7, OnwardType
  <1>9. \A d : IsRecorded(d) => RecordedNext(d)
    BY <1>3 DEF IsRecorded, RecordedNext, RecordedKept
  <1>10. Knows(r)'
    <2>1. ASSUME NEW g \in Folders PROVE
             /\ runner'[r].rows[g] # NoId => ogre'[g] = runner'[r].rows[g]
             /\ runner'[r].mirrored[g] # NoId => RecordedNext(runner'[r].mirrored[g])
      <3>2. runner[r].rows[g] # NoId => ogre'[g] = runner[r].rows[g]
        BY <1>1, <1>3 DEF Knows, RecordedKept
      <3>3. ASSUME runner[r].mirrored[g] # NoId PROVE RecordedNext(runner[r].mirrored[g])
        <4>1. IsRecorded(runner[r].mirrored[g])
          BY <1>1, <3>3 DEF Knows
        <4>2. QED
          BY ONLY <1>9, <4>1
      <3>4. RecordedNext(ogre'[f])
        BY <1>4 DEF RecordedNext
      <3>5. QED
        BY <1>8, <3>2, <3>3, <3>4
    <2>2. QED
      BY <2>1 DEF Knows, IsRecorded, RecordedNext
  <1>11. InHand(r)'
    BY <1>8 DEF InHand
  <1>12. Hung'
    <2>1. /\ \A e \in edge : e[1] = Destination \/ RecordedNext(e[1])
          /\ \A g \in Folders : filed[g] \in {NoId, Destination} \/ RecordedNext(filed[g])
      BY <1>9 DEF MirrorInv, Hung
    <2>2. QED
      BY <1>2, <2>1 DEF Hung, IsRecorded, RecordedNext
  <1>13. \A q \in Runners : q # r => InHand(q)' /\ Knows(q)'
    <2>1. SUFFICES ASSUME NEW q \in Runners, q # r PROVE InHand(q)' /\ Knows(q)'
      OBVIOUS
    <2>2. runner'[q] = runner[q]
      BY <2>1 DEF MirrorInv, Types
    <2>3. QED
      BY <1>2, <1>3, <2>2, OthersKeep
  <1>14. Types'
    BY <1>2, <1>4, <1>8 DEF MirrorInv, Types
  <1>15. QED
    BY <1>3, <1>6, <1>10, <1>11, <1>12, <1>13, <1>14 DEF MirrorInv

\* Runs that begin, fail or end, documents filed, folders the user deletes.
LEMMA AroundKeeps ==
    ASSUME MirrorInv,
           \/ \E r \in Runners : List(r) \/ Fail(r) \/ Finish(r)
           \/ \E r \in Runners, f \in Folders : File(r, f)
           \/ \E d \in Ids : FindEmpty(d)
           \/ Delete
           \/ UNCHANGED vars
    PROVE  MirrorInv' /\ RecordedKept
  <1> USE DEF tree, rows, user, run
  <1>1. ogre' = ogre /\ RecordedKept /\ edge' = edge /\ owned' = owned /\ lastId' = lastId
    BY DEF List, Fail, Finish, File, FindEmpty, Delete, vars, RecordedKept
  <1>2. exists \cup deleted \subseteq exists' \cup deleted'
    BY DEF List, Fail, Finish, File, FindEmpty, Delete, vars
  <1>3. RecordedIsMade'
    BY <1>1, <1>2, GrowKeeps
  <1>4. ASSUME NEW r \in Runners, List(r) \/ Fail(r) \/ Finish(r)
        PROVE  MirrorInv'
    <2>1. filed' = filed
      BY <1>4 DEF List, Fail, Finish
    <2>2. \/ runner' = [runner EXCEPT ![r] = NoRun]
          \/ runner' = [runner EXCEPT ![r] = RunFrom("walk", ogre)]
      BY <1>4 DEF List, Fail, Finish, Set
    <2>3. runner'[r] \in RunType /\ InHand(r)' /\ Knows(r)'
      BY <1>1, <2>2, FreshRun DEF MirrorInv, Types
    <2>4. \A q \in Runners : q # r => InHand(q)' /\ Knows(q)'
      <3>1. SUFFICES ASSUME NEW q \in Runners, q # r PROVE InHand(q)' /\ Knows(q)'
        OBVIOUS
      <3>2. runner'[q] = runner[q]
        BY <2>2, <3>1 DEF MirrorInv, Types
      <3>3. QED
        BY <1>1, <1>2, <3>2, OthersKeep
    <2>5. Types'
      BY <1>1, <2>1, <2>2, <2>3 DEF MirrorInv, Types
    <2>6. QED
      BY <1>1, <1>3, <2>1, <2>3, <2>4, <2>5 DEF MirrorInv, Hung, IsRecorded
  <1>5. ASSUME runner' = runner, filed' = filed
        PROVE  MirrorInv'
    <2>1. \A r \in Runners : InHand(r)' /\ Knows(r)'
      BY <1>1, <1>2, <1>5, OthersKeep
    <2>2. QED
      BY <1>1, <1>3, <1>5, <2>1 DEF MirrorInv, Types, Hung, IsRecorded
  <1>6. ASSUME NEW r \in Runners, NEW f \in Folders, File(r, f)
        PROVE  MirrorInv'
    <2>1. runner' = runner /\ filed' = [filed EXCEPT ![f] = Mapped(f)]
      BY <1>6 DEF File
    <2>2. Mapped(f) \in Nat /\ (Mapped(f) = Destination \/ IsRecorded(Mapped(f)))
      BY FoldersAssumption DEF Mapped, MirrorInv, Types, IsRecorded, Destination
    <2>3. \A q \in Runners : InHand(q)' /\ Knows(q)'
      BY <1>1, <1>2, <2>1, OthersKeep
    <2>4. QED
      BY <1>1, <1>3, <2>1, <2>2, <2>3 DEF MirrorInv, Types, Hung, IsRecorded
  <1>7. CASE (\E d \in Ids : FindEmpty(d)) \/ Delete \/ UNCHANGED vars
    <2>1. runner' = runner /\ filed' = filed
      BY <1>7 DEF FindEmpty, Delete, vars
    <2>2. MirrorInv'
      BY <1>5, <2>1
    <2>3. QED
      BY <1>1, <2>2
  <1>8. QED
    BY <1>1, <1>4, <1>6, <1>7

\* The invariant is inductive, and no step replaces a recorded id.
LEMMA NextMirror == MirrorInv /\ [Next]_vars => MirrorInv' /\ RecordedKept
  <1> SUFFICES ASSUME MirrorInv, [Next]_vars PROVE MirrorInv' /\ RecordedKept
    OBVIOUS
  <1>1. ASSUME NEW r \in Runners, Walk(r) PROVE MirrorInv' /\ RecordedKept
    <2>1. PICK f \in Folders :
             Adopt(r, f) \/ Link(r, f) \/ Create(r, f) \/ AddOwner(r, f) \/ Record(r, f)
      BY <1>1 DEF Walk
    <2>2. ~Record(r, f) => RecordedKept
      BY <2>1 DEF Adopt, Link, Create, AddOwner, RecordedKept
    <2>3. QED
      BY <2>1, <2>2, LinkKeeps, MakeKeeps, RecordKeeps
  <1>2. QED
    BY <1>1, AroundKeeps DEF Next

\* The locals of a run, within the bounds.
LEMMA RunnerFields ==
    ASSUME NEW s \in Step, NEW n \in Nat, NEW x \in [Folders -> Ids \cup {NoId}],
           NEW m \in [Folders -> Ids \cup {NoId}], NEW c \in Ids \cup {NoId}
    PROVE  [step |-> s, at |-> n, rows |-> x, mirrored |-> m, candidate |-> c] \in RunnerState
  BY DEF RunnerState

LEMMA RunnerOf ==
    ASSUME NEW x \in RunnerState
    PROVE  /\ x.step \in Step /\ x.at \in Nat /\ x.rows \in [Folders -> Ids \cup {NoId}]
           /\ x.mirrored \in [Folders -> Ids \cup {NoId}] /\ x.candidate \in Ids \cup {NoId}
           /\ x = [step |-> x.step, at |-> x.at, rows |-> x.rows,
                   mirrored |-> x.mirrored, candidate |-> x.candidate]
  BY DEF RunnerState

LEMMA Retyped ==
    ASSUME NEW x \in RunnerState, NEW s, NEW c
    PROVE  [x EXCEPT !.step = s, !.candidate = c] =
             [step |-> s, at |-> x.at, rows |-> x.rows, mirrored |-> x.mirrored, candidate |-> c]
  <1>1. SUFFICES ASSUME NEW z, z = [x EXCEPT !.step = s, !.candidate = c]
                 PROVE  z = [step |-> s, at |-> x.at, rows |-> x.rows,
                             mirrored |-> x.mirrored, candidate |-> c]
    OBVIOUS
  <1>2. x = [step |-> x.step, at |-> x.at, rows |-> x.rows,
             mirrored |-> x.mirrored, candidate |-> x.candidate]
    BY RunnerOf
  <1>3. QED
    BY <1>1, <1>2

LEMMA InitType == Init => TypeOK
  <1> SUFFICES ASSUME Init PROVE TypeOK
    OBVIOUS
  <1>1. NoneYet \in [Folders -> Ids \cup {NoId}] /\ 1 \in Nat /\ "idle" \in Step
    BY DEF NoneYet, Step
  <1>2. NoRun \in RunnerState
    BY <1>1, RunnerFields DEF NoRun, RunFrom
  <1>3. hangs \in [Folders -> Folders \cup {NoFolder}]
    BY DEF Init, MirrorParents
  <1>4. lastId \in 0..MaxIds /\ faults \in 0..MaxFaults
    BY FoldersAssumption DEF Init
  <1>5. ogre \in [Folders -> Ids \cup {NoId}] /\ filed \in [Folders -> Places \cup {NoId}]
    BY <1>1 DEF Init, NoneYet, Places
  <1>6. QED
    BY <1>2, <1>3, <1>4, <1>5 DEF Init, TypeOK, Places

\* A run at a row: what it does to its locals and to the tree.
LEMMA WalkType ==
    ASSUME MirrorInv, TypeOK, NEW r \in Runners, NEW f \in Folders,
           Adopt(r, f) \/ Link(r, f) \/ Create(r, f) \/ AddOwner(r, f) \/ Record(r, f)
    PROVE  TypeOK'
  <1>1. runner[r] \in RunnerState /\ InHand(r)
    BY DEF TypeOK, MirrorInv
  <1>2. /\ runner[r].step \in Step /\ runner[r].at \in Nat /\ runner[r].at + 1 \in Nat
        /\ runner[r].rows \in [Folders -> Ids \cup {NoId}]
        /\ runner[r].mirrored \in [Folders -> Ids \cup {NoId}]
        /\ runner[r].candidate \in Ids \cup {NoId}
        /\ "walk" \in Step /\ "create" \in Step /\ "member" \in Step /\ "record" \in Step
    BY <1>1, RunnerOf DEF Step
  <1>3. ASSUME NEW d \in Ids \cup {NoId} PROVE Onward(r, f, d) \in RunnerState
    <2>1. [runner[r].mirrored EXCEPT ![f] = d] \in [Folders -> Ids \cup {NoId}]
      BY <1>2
    <2>2. NoId \in Ids \cup {NoId}
      OBVIOUS
    <2>3. QED
      BY <1>2, <2>1, <2>2, RunnerFields DEF Onward
  <1>4. ASSUME NEW s \in Step, NEW c \in Ids \cup {NoId}
        PROVE  [runner[r] EXCEPT !.step = s, !.candidate = c] \in RunnerState
    <2>1. [runner[r] EXCEPT !.step = s, !.candidate = c] =
             [step |-> s, at |-> runner[r].at, rows |-> runner[r].rows,
              mirrored |-> runner[r].mirrored, candidate |-> c]
      BY <1>1, Retyped
    <2>2. QED
      BY <1>2, <2>1, RunnerFields
  <1>5. ASSUME NEW s \in Step PROVE [runner[r] EXCEPT !.step = s] \in RunnerState
    <2>1. [runner[r] EXCEPT !.step = s] =
             [step |-> s, at |-> runner[r].at, rows |-> runner[r].rows,
              mirrored |-> runner[r].mirrored, candidate |-> runner[r].candidate]
      BY <1>1, RunnerOf
    <2>2. QED
      BY <1>2, <2>1, RunnerFields
  <1>6. ASSUME NEW new \in RunnerState, Set(r, new)
        PROVE  runner' \in [Runners -> RunnerState]
    BY <1>6 DEF Set, TypeOK
  <1>7. CASE Adopt(r, f)
    <2>1. Onward(r, f, runner[r].rows[f]) \in RunnerState
      BY <1>2, <1>3
    <2>2. runner' \in [Runners -> RunnerState]
      BY <1>6, <1>7, <2>1 DEF Adopt
    <2>3. QED
      BY <1>7, <2>2 DEF Adopt, TypeOK, rows, tree, user
  <1>8. CASE Link(r, f)
    <2>1. lastId' \in Ids /\ lastId' \in 0..MaxIds
      BY <1>8, FoldersAssumption DEF Link, TypeOK, Ids
    <2>2. runner' \in [Runners -> RunnerState]
      <3>1. [runner[r] EXCEPT !.step = "create", !.candidate = lastId'] \in RunnerState
        BY <1>2, <1>4, <2>1
      <3>2. QED
        BY <1>6, <1>8, <3>1 DEF Link
    <2>3. Under(r, f) \in Places
      BY <1>2 DEF Under, Places
    <2>4. edge' \subseteq Places \X Ids
      BY <1>8, <2>1, <2>3 DEF Link, TypeOK
    <2>5. QED
      BY <1>8, <2>1, <2>2, <2>4 DEF Link, TypeOK, rows, user
  <1>9. CASE Create(r, f)
    <2>1. runner[r].candidate \in Ids
      BY <1>1, <1>2, <1>9 DEF Create, Working, InHand
    <2>2. runner' \in [Runners -> RunnerState]
      BY <1>2, <1>5, <1>6, <1>9 DEF Create
    <2>3. QED
      BY <1>9, <2>1, <2>2 DEF Create, TypeOK, rows, user, Places
  <1>10. CASE AddOwner(r, f)
    <2>1. runner[r].candidate \in Ids
      BY <1>1, <1>2, <1>10 DEF AddOwner, Working, InHand
    <2>2. runner' \in [Runners -> RunnerState]
      BY <1>2, <1>5, <1>6, <1>10 DEF AddOwner
    <2>3. QED
      BY <1>10, <2>1, <2>2 DEF AddOwner, TypeOK, rows, user, Places
  <1>11. CASE Record(r, f)
    <2>1. ogre' \in [Folders -> Ids \cup {NoId}]
      BY <1>2, <1>11 DEF Record, FirstWins, TypeOK
    <2>2. Onward(r, f, ogre'[f]) \in RunnerState
      BY <1>3, <2>1
    <2>3. runner' \in [Runners -> RunnerState]
      BY <1>6, <1>11, <2>2 DEF Record, Recorded
    <2>4. QED
      BY <1>11, <2>1, <2>3 DEF Record, TypeOK, rows, tree, user
  <1>12. QED
    BY <1>7, <1>8, <1>9, <1>10, <1>11

LEMMA TypeStep == MirrorInv /\ TypeOK /\ [Next]_vars => TypeOK'
  <1> SUFFICES ASSUME MirrorInv, TypeOK, [Next]_vars PROVE TypeOK'
    OBVIOUS
  <1>1. ASSUME NEW r \in Runners, List(r) \/ Fail(r) \/ Finish(r) PROVE TypeOK'
    <2>1. /\ NoneYet \in [Folders -> Ids \cup {NoId}] /\ ogre \in [Folders -> Ids \cup {NoId}]
          /\ 1 \in Nat /\ "idle" \in Step /\ "walk" \in Step
      BY DEF NoneYet, Step, TypeOK
    <2>2. NoRun \in RunnerState /\ RunFrom("walk", ogre) \in RunnerState
      BY <2>1, RunnerFields DEF NoRun, RunFrom
    <2>3. runner' \in [Runners -> RunnerState]
      BY <1>1, <2>2 DEF List, Fail, Finish, Set, TypeOK
    <2>4. faults' \in 0..MaxFaults
      BY <1>1, FoldersAssumption DEF List, Fail, Finish, TypeOK
    <2>5. QED
      BY <1>1, <2>3, <2>4 DEF List, Fail, Finish, TypeOK, rows, tree, user
  <1>2. ASSUME NEW r \in Runners, NEW f \in Folders, File(r, f) PROVE TypeOK'
    <2>1. filed' \in [Folders -> Places \cup {NoId}]
      BY <1>2 DEF File, Mapped, TypeOK, Places
    <2>2. QED
      BY <1>2, <2>1 DEF File, TypeOK, rows, tree, run, user
  <1>3. ASSUME NEW d \in Ids, FindEmpty(d) PROVE TypeOK'
    <2>1. faults' \in 0..MaxFaults /\ deleting' \in Places \cup {NoId}
      BY <1>3, FoldersAssumption DEF FindEmpty, TypeOK, Places
    <2>2. QED
      BY <1>3, <2>1 DEF FindEmpty, TypeOK, rows, tree, run
  <1>4. CASE Delete
    <2>1. deleting' = NoId /\ deleted' \subseteq Places /\ exists' \subseteq Places
      BY <1>4 DEF Delete, TypeOK
    <2>2. QED
      BY <1>4, <2>1 DEF Delete, TypeOK, rows, run
  <1>5. CASE UNCHANGED vars
    BY <1>5 DEF vars, rows, tree, run, user, TypeOK
  <1>6. QED
    BY <1>1, <1>2, <1>3, <1>4, <1>5, WalkType DEF Next, Walk

\* Runs that overlap and fail, and the user's deletes, leave well-formed rows.
THEOREM TypeCorrect == Spec => []TypeOK
  BY InitMirror, NextMirror, InitType, TypeStep, PTL DEF Spec

\* A recorded folder was made in full before it was recorded.
THEOREM MadeBeforeRecorded == Spec => []RecordedIsMade
  <1>1. MirrorInv => RecordedIsMade
    BY DEF MirrorInv
  <1>2. QED
    BY <1>1, InitMirror, NextMirror, PTL DEF Spec

\* What is linked or filed lands under recorded folders only, so a folder
\* that lost the race or was left behind stays empty.
THEOREM LosersStayEmpty == Spec => []OrphansEmpty
  <1>1. MirrorInv => OrphansEmpty
    <2>1. SUFFICES ASSUME MirrorInv, NEW d \in 1..lastId, \A f \in Folders : ogre[f] # d
                   PROVE  Empty(d)
      BY DEF OrphansEmpty
    <2>2. d # Destination /\ d # NoId /\ ~IsRecorded(d)
      BY <2>1, FoldersAssumption DEF MirrorInv, Types, Destination, NoId, IsRecorded
    <2>3. QED
      BY <2>1, <2>2 DEF MirrorInv, Hung, Empty
  <1>2. QED
    BY <1>1, InitMirror, NextMirror, PTL DEF Spec

\* A row's folder is never replaced: overlapping runs build one tree.
THEOREM OneTree == Spec => RecordedStands
  <1>1. MirrorInv /\ [Next]_vars =>
           [\A f \in Folders : ogre[f] # NoId => ogre'[f] = ogre[f]]_vars
    BY NextMirror DEF RecordedKept
  <1>2. QED
    BY <1>1, InitMirror, NextMirror, PTL DEF Spec, RecordedStands

-----------------------------------------------------------------------------
(* The order of the rows.  Placed and Chain are computed by recursion over *)
(* the numbers; a set of numbers that is not empty has a least one, which  *)
(* gives induction for sets of numbers, and that gives the rest.           *)

\* Every set of numbers that is not empty has a least one.
LEMMA LeastNumber ==
    ASSUME NEW T \in SUBSET Nat, T # {}
    PROVE  \E m \in T : \A k \in T : m <= k
  <1>1. PICK R : IsWellFoundedOn(R, Nat) /\ R = OpToRel(<, Nat)
    BY NatLessThanWellFounded
  <1>2. R = {ss \in Nat \X Nat : ss[1] < ss[2]}
    BY <1>1 DEF OpToRel
  <1>3. PICK m \in T : \A k \in T : ~ (<<k, m>> \in R)
    BY <1>1, WFMin
  <1>4. ASSUME NEW k \in T PROVE m <= k
    <2>1. <<k, m>> \in Nat \X Nat /\ ~ (<<k, m>> \in R) /\ k \in Nat /\ m \in Nat
      BY <1>3
    <2>2. ~ (k < m)
      BY <1>2, <2>1
    <2>3. QED
      BY <2>1, <2>2
  <1>5. QED
    BY <1>3, <1>4

\* Induction, for a set of numbers instead of a predicate.
LEMMA Induction ==
    ASSUME NEW A \in SUBSET Nat, 0 \in A, \A n \in A : n + 1 \in A
    PROVE  A = Nat
  <1>1. SUFFICES ASSUME Nat \ A # {} PROVE FALSE
    OBVIOUS
  <1>2. PICK m \in Nat \ A : \A k \in Nat \ A : m <= k
    <2>1. (Nat \ A) \in SUBSET Nat
      OBVIOUS
    <2>2. QED
      BY <1>1, <2>1, LeastNumber
  <1>3. m # 0 /\ m - 1 \in Nat /\ ~ (m <= m - 1)
    BY <1>2
  <1>4. m - 1 \in A
    BY <1>2, <1>3
  <1>5. (m - 1) + 1 = m
    BY <1>2
  <1>6. QED
    BY <1>2, <1>4, <1>5

\* A function may be defined by recursion on the numbers up to N: step[n]
\* takes the value at n - 1 to the value at n.
Recurs(N, S, c, step) == N \in Nat /\ c \in S /\ step \in [Nat -> [S -> S]]
Solved(N, S, c, step) ==
    \E g \in [0..N -> S] : g[0] = c /\ \A i \in 1..N : g[i] = step[i][g[i - 1]]

LEMMA Recursion ==
    ASSUME NEW N, NEW S, NEW c, NEW step, Recurs(N, S, c, step)
    PROVE  Solved(N, S, c, step)
  <1> DEFINE Good(n, g) == g[0] = c /\ \A i \in 1..n : g[i] = step[i][g[i - 1]]
  <1> DEFINE A == {n \in Nat : \E g \in [0..n -> S] : Good(n, g)}
  <1>0. N \in Nat /\ c \in S /\ step \in [Nat -> [S -> S]]
    BY DEF Recurs
  <1>1. 0 \in A
    <2>1. [i \in 0..0 |-> c] \in [0..0 -> S]
      BY <1>0
    <2>2. Good(0, [i \in 0..0 |-> c])
      OBVIOUS
    <2>3. QED
      BY <2>1, <2>2
  <1>2. ASSUME NEW n \in A PROVE n + 1 \in A
    <2>1. PICK g \in [0..n -> S] : Good(n, g)
      BY <1>2
    <2> DEFINE v == step[n + 1][g[n]]
    <2> DEFINE h == [i \in 0..(n + 1) |-> IF i <= n THEN g[i] ELSE v]
    <2>2. n \in Nat /\ n + 1 \in Nat /\ n \in 0..n /\ v \in S
      BY <1>0
    <2> HIDE DEF v
    <2>3. h \in [0..(n + 1) -> S]
      BY <2>2
    <2>4. h[0] = c
      BY <2>1, <2>2
    <2>5. ASSUME NEW i \in 1..(n + 1) PROVE h[i] = step[i][h[i - 1]]
      <3>1. CASE i <= n
        <4>1. i \in 1..n /\ i - 1 \in 0..(n + 1) /\ i - 1 <= n /\ i \in 0..(n + 1)
          BY <2>2, <3>1
        <4>2. h[i] = g[i] /\ h[i - 1] = g[i - 1]
          BY <4>1, <3>1
        <4>3. QED
          BY <2>1, <4>1, <4>2
      <3>2. CASE i = n + 1
        <4>1. i - 1 = n /\ ~ (i <= n) /\ i \in 0..(n + 1) /\ n \in 0..(n + 1) /\ n <= n
          BY <2>2, <3>2
        <4>2. h[i] = v /\ h[i - 1] = g[n]
          BY <4>1
        <4>3. QED
          BY <3>2, <4>2 DEF v
      <3>3. QED
        BY <2>2, <3>1, <3>2
    <2> HIDE DEF h
    <2>6. Good(n + 1, h)
      BY <2>4, <2>5
    <2>7. QED
      BY <2>2, <2>3, <2>6
  <1>3. A = Nat
    <2>1. A \in SUBSET Nat
      OBVIOUS
    <2> HIDE DEF A
    <2>2. QED
      BY <1>1, <1>2, <2>1, Induction
  <1>4. QED
    BY <1>0, <1>3 DEF Solved

Shapes == [Folders -> Folders \cup {NoFolder}]
Total == F * F + F
Row(n) == ((n - 1) % F) + 1

LEMMA Totals == F \in Nat /\ F * F \in Nat /\ Total \in Nat /\ F * F <= Total
  <1>1. F \in Nat
    BY FoldersAssumption
  <1>2. F * F \in Nat
    BY <1>1
  <1>3. QED
    BY <1>1, <1>2 DEF Total

LEMMA RowIsFolder ==
    ASSUME NEW n \in 1..Total
    PROVE  Row(n) \in Folders
  <1>1. F \in Nat /\ F * F \in Nat
    BY Totals
  <1>2. F # 0
    BY <1>1, Totals DEF Total
  <1>3. n - 1 \in Nat
    BY Totals
  <1>4. (n - 1) % F \in 0..(F - 1)
    BY <1>1, <1>2, <1>3
  <1>5. QED
    BY <1>1, <1>4 DEF Row, Folders

\* In the wave behind k others, and in the last round, row f is the f-th.
LEMMA RowInWave ==
    ASSUME NEW k \in Nat, NEW f \in Folders
    PROVE  Row(k * F + f) = f
  <1>1. F \in Nat \ {0} /\ f \in Nat /\ f >= 1 /\ f <= F
    BY FoldersAssumption DEF Folders
  <1> DEFINE x == k * F + f - 1
             q == x \div F
             r == x % F
  <1>2. k * F \in Nat /\ x \in Nat
    BY <1>1
  <1>3. r \in 0..(F - 1) /\ q \in Int
    BY <1>1, <1>2
  <1>4. x = F * q + r
    BY <1>1, <1>2, SMT
  <1> HIDE DEF q, r
  <1>5. F * k + (f - 1) = F * q + r
    BY <1>1, <1>4
  <1> HIDE DEF x
  <1>6. k = q
    <2>1. ASSUME NEW d \in Nat, k = q + 1 + d PROVE FALSE
      <3>1. F * k = F * q + F + F * d /\ F * d >= 0
        BY <1>1, <1>3, <2>1
      <3>2. QED
        BY <1>1, <1>3, <1>5, <3>1
    <2>2. ASSUME NEW d \in Nat, q = k + 1 + d PROVE FALSE
      <3>1. F * q = F * k + F + F * d /\ F * d >= 0
        BY <1>1, <1>3, <2>2
      <3>2. QED
        BY <1>1, <1>3, <1>5, <3>1
    <2>3. k > q => k - q - 1 \in Nat /\ k = q + 1 + (k - q - 1)
      BY <1>3
    <2>4. q > k => q - k - 1 \in Nat /\ q = k + 1 + (q - k - 1)
      BY <1>3
    <2>5. QED
      BY <1>3, <2>1, <2>2, <2>3, <2>4
  <1>7. r = f - 1
    BY <1>1, <1>3, <1>5, <1>6
  <1>8. QED
    BY <1>1, <1>2, <1>7 DEF Row, r, x

\* What one look does to the rows placed so far.
LEMMA LookStep ==
    ASSUME NEW up \in Shapes, NEW n \in 1..Total, NEW s \in Seq(Folders)
    PROVE  LookAt(up, s, n) \in Seq(Folders)
  BY RowIsFolder DEF LookAt, Row

\* Looks is the function its recursion says.
LEMMA LooksAre ==
    ASSUME NEW up \in Shapes
    PROVE  /\ Looks(up) \in [0..Total -> Seq(Folders)]
           /\ Looks(up)[0] = <<>>
           /\ \A n \in 1..Total : Looks(up)[n] = LookAt(up, Looks(up)[n - 1], n)
  <1> DEFINE step == [n \in Nat |-> [s \in Seq(Folders) |->
                        IF n \in 1..Total THEN LookAt(up, s, n) ELSE s]]
             Rec(g) == [n \in 0..Total |-> IF n = 0 THEN <<>> ELSE LookAt(up, g[n - 1], n)]
  <1>1. step \in [Nat -> [Seq(Folders) -> Seq(Folders)]]
    BY LookStep
  <1>2. \A n \in 1..Total, s \in Seq(Folders) : step[n][s] = LookAt(up, s, n)
    <2>1. SUFFICES ASSUME NEW n \in 1..Total, NEW s \in Seq(Folders)
                   PROVE  step[n][s] = LookAt(up, s, n)
      OBVIOUS
    <2>2. n \in Nat
      BY Totals
    <2>3. step[n] = [t \in Seq(Folders) |-> LookAt(up, t, n)]
      BY <2>2
    <2>4. QED
      BY <2>3
  <1> HIDE DEF step
  <1>3. Total \in Nat /\ <<>> \in Seq(Folders)
    BY Totals
  <1>4. PICK g \in [0..Total -> Seq(Folders)] :
           g[0] = <<>> /\ \A i \in 1..Total : g[i] = step[i][g[i - 1]]
    <2>1. Recurs(Total, Seq(Folders), <<>>, step)
      BY <1>1, <1>3 DEF Recurs
    <2>2. Solved(Total, Seq(Folders), <<>>, step)
      BY <2>1, Recursion
    <2>3. QED
      BY <2>2 DEF Solved
  <1>5. \A i \in 1..Total : i - 1 \in 0..Total /\ g[i - 1] \in Seq(Folders)
    BY <1>3
  <1>6. g = Rec(g)
    <2>1. ASSUME NEW n \in 0..Total
          PROVE  g[n] = IF n = 0 THEN <<>> ELSE LookAt(up, g[n - 1], n)
      <3>1. CASE n = 0
        BY <1>4, <3>1
      <3>2. CASE n # 0
        <4>1. n \in 1..Total
          BY <1>3, <3>2
        <4>2. QED
          BY <1>2, <1>4, <1>5, <3>2, <4>1
      <3>3. QED
        BY <3>1, <3>2
    <2>2. QED
      BY <2>1
  <1>7. Looks(up) = CHOOSE h : h = Rec(h)
    BY DEF Looks, Total
  <1>8. Looks(up) = Rec(Looks(up))
    <2> HIDE DEF Rec
    <2>1. QED
      BY <1>6, <1>7
  <1> DEFINE L == Looks(up)
  <1> HIDE DEF L
  <1>9. /\ L = Rec(L)
    BY <1>8 DEF L
  <1>10. L[0] = <<>>
    BY <1>3, <1>9
  <1>11. \A n \in 1..Total : L[n] = LookAt(up, L[n - 1], n)
    BY <1>3, <1>9
  <1>12. \A n \in 0..Total : L[n] \in Seq(Folders)
    <2> DEFINE A == {n \in Nat : n <= Total => L[n] \in Seq(Folders)}
    <2>1. 0 \in A
      BY <1>3, <1>10
    <2>2. ASSUME NEW n \in A PROVE n + 1 \in A
      <3>1. CASE n + 1 <= Total
        <4>1. n + 1 \in 1..Total /\ (n + 1) - 1 = n /\ L[n] \in Seq(Folders)
          BY <1>3, <3>1
        <4>2. L[n + 1] = LookAt(up, L[n], n + 1)
          BY <1>11, <4>1
        <4>3. L[n + 1] \in Seq(Folders)
          BY <4>1, <4>2, LookStep
        <4>4. QED
          BY <4>1, <4>3
      <3>2. QED
        BY <1>3, <3>1
    <2>3. A \in SUBSET Nat
      OBVIOUS
    <2>4. A = Nat
      <3> HIDE DEF A
      <3>1. QED
        BY <2>1, <2>2, <2>3, Induction
    <2>5. QED
      BY <2>4
  <1>13. L \in [0..Total -> Seq(Folders)]
    BY <1>9, <1>12
  <1>14. QED
    BY <1>10, <1>11, <1>13 DEF L
\* A look places its row, at the end, or leaves the order alone.
LEMMA LookGives ==
    ASSUME NEW up \in Shapes, NEW n \in 1..Total, NEW s \in Seq(Folders)
    PROVE  LET t == LookAt(up, s, n) IN
           /\ \/ t = s
              \/ /\ t = Append(s, Row(n)) /\ Row(n) \notin ToSet(s)
                 /\ n <= F * F => Placeable(up, Row(n), s)
           /\ Placeable(up, Row(n), s) \/ n > F * F => Row(n) \in ToSet(t)
  <1> DEFINE t == LookAt(up, s, n)
  <1>1. Row(n) \in Folders
    BY RowIsFolder
  <1>2. Row(n) \in ToSet(Append(s, Row(n)))
    <2>1. Len(s) + 1 \in DOMAIN Append(s, Row(n)) /\ Append(s, Row(n))[Len(s) + 1] = Row(n)
      BY <1>1
    <2>2. QED
      BY <2>1 DEF ToSet
  <1>3. t = IF Row(n) \notin ToSet(s) /\ (Placeable(up, Row(n), s) \/ n > F * F)
            THEN Append(s, Row(n)) ELSE s
    BY DEF LookAt, Row
  <1>4. n <= F * F => ~ (n > F * F)
    BY Totals
  <1> HIDE DEF t
  <1>5. QED
    BY <1>2, <1>3, <1>4 DEF t

\* Looking on only adds at the end.
Extends(t, s) == Len(s) <= Len(t) /\ \A i \in 1..Len(s) : t[i] = s[i]

LEMMA LookExtends ==
    ASSUME NEW up \in Shapes, NEW m \in 0..Total, NEW n \in 0..Total, m <= n
    PROVE  Extends(Looks(up)[n], Looks(up)[m])
  <1> DEFINE L == Looks(up)
             A == {d \in Nat : m + d <= Total => Extends(L[m + d], L[m])}
  <1>1. \A k \in 0..Total : L[k] \in Seq(Folders)
    BY LooksAre
  <1>2. \A k \in 1..Total : L[k] = LookAt(up, L[k - 1], k)
    BY LooksAre
  <1> HIDE DEF L
  <1>3. m \in Nat /\ n \in Nat /\ Total \in Nat
    BY Totals
  <1>4. 0 \in A
    <2>1. m + 0 = m /\ Len(L[m]) \in Nat
      BY <1>1, <1>3
    <2>2. Extends(L[m + 0], L[m])
      BY <2>1 DEF Extends
    <2>3. QED
      BY <2>2
  <1>5. ASSUME NEW d \in A PROVE d + 1 \in A
    <2>1. d \in Nat /\ d + 1 \in Nat
      OBVIOUS
    <2>2. ASSUME m + (d + 1) <= Total PROVE Extends(L[m + (d + 1)], L[m])
      <3> DEFINE k == m + (d + 1)
      <3>1. k \in 1..Total /\ k - 1 = m + d /\ m + d \in 0..Total /\ m + d <= Total
        BY <1>3, <2>1, <2>2
      <3>2. Extends(L[m + d], L[m])
        BY <3>1
      <3>3. L[k] = LookAt(up, L[m + d], k)
        BY <1>2, <3>1
      <3>4. L[k] = L[m + d] \/ L[k] = Append(L[m + d], Row(k))
        BY <1>1, <3>1, <3>3, LookGives
      <3>5. Row(k) \in Folders
        BY <3>1, RowIsFolder
      <3> HIDE DEF k
      <3>6. Extends(L[k], L[m + d])
        BY <1>1, <3>1, <3>4, <3>5 DEF Extends
      <3>7. Extends(L[k], L[m])
        BY <1>1, <3>1, <3>2, <3>6 DEF Extends
      <3>8. QED
        BY <3>7 DEF k
    <2>3. QED
      BY <2>1, <2>2
  <1>6. A = Nat
    <2>1. A \in SUBSET Nat
      OBVIOUS
    <2> HIDE DEF A
    <2>2. QED
      BY <1>4, <1>5, <2>1, Induction
  <1>7. n - m \in Nat /\ m + (n - m) = n /\ n <= Total
    BY <1>3
  <1>8. n - m \in A
    BY <1>6, <1>7
  <1>9. QED
    BY <1>7, <1>8 DEF L

LEMMA ExtendsKeeps ==
    ASSUME NEW s \in Seq(Folders), NEW t \in Seq(Folders), Extends(t, s)
    PROVE  ToSet(s) \subseteq ToSet(t)
  BY DEF Extends, ToSet

\* No row is placed twice, and in the waves its parent is placed before it.
Distinct(s) == \A i, j \in 1..Len(s) : s[i] = s[j] => i = j
ParentFirst(up, s) ==
    \A i \in 1..Len(s) : up[s[i]] = NoFolder \/ \E j \in 1..(i - 1) : s[j] = up[s[i]]

LEMMA LookOnce ==
    ASSUME NEW up \in Shapes, NEW n \in 1..Total, NEW s \in Seq(Folders), Distinct(s)
    PROVE  /\ Distinct(LookAt(up, s, n))
           /\ ParentFirst(up, s) /\ n <= F * F => ParentFirst(up, LookAt(up, s, n))
  <1> DEFINE t == LookAt(up, s, n)
             f == Row(n)
  <1>1. f \in Folders
    BY RowIsFolder
  <1>2. \/ t = s
        \/ t = Append(s, f) /\ f \notin ToSet(s) /\ (n <= F * F => Placeable(up, f, s))
    BY LookGives
  <1>3. CASE t = s
    BY <1>3
  <1>4. CASE t = Append(s, f) /\ f \notin ToSet(s) /\ (n <= F * F => Placeable(up, f, s))
    <2> HIDE DEF t, f
    <2>1. \A i \in 1..Len(s) : s[i] # f
      BY <1>4 DEF ToSet
    <2>2. /\ Len(t) = Len(s) + 1 /\ t[Len(s) + 1] = f
          /\ \A i \in 1..Len(s) : t[i] = s[i]
      BY <1>1, <1>4
    <2>3. Distinct(t)
      <3>1. SUFFICES ASSUME NEW i \in 1..Len(t), NEW j \in 1..Len(t), t[i] = t[j] PROVE i = j
        BY DEF Distinct
      <3>2. Len(s) \in Nat
        OBVIOUS
      <3>3. (i \in 1..Len(s) \/ i = Len(s) + 1) /\ (j \in 1..Len(s) \/ j = Len(s) + 1)
        BY <2>2, <3>2
      <3>4. QED
        BY <2>1, <2>2, <3>1, <3>3 DEF Distinct
    <2>4. ASSUME ParentFirst(up, s), n <= F * F PROVE ParentFirst(up, t)
      <3>1. SUFFICES ASSUME NEW i \in 1..Len(t)
                     PROVE  up[t[i]] = NoFolder \/ \E j \in 1..(i - 1) : t[j] = up[t[i]]
        BY DEF ParentFirst
      <3>2. Len(s) \in Nat
        OBVIOUS
      <3>3. CASE i \in 1..Len(s)
        <4>1. t[i] = s[i] /\ \A j \in 1..(i - 1) : t[j] = s[j]
          BY <2>2, <3>2, <3>3
        <4>2. QED
          BY <2>4, <3>3, <4>1 DEF ParentFirst
      <3>4. CASE i = Len(s) + 1
        <4>1. t[i] = f /\ i - 1 = Len(s)
          BY <2>2, <3>2, <3>4
        <4>2. up[f] = NoFolder \/ \E j \in 1..Len(s) : s[j] = up[f]
          BY <1>4, <2>4 DEF Placeable, ToSet
        <4>3. QED
          BY <2>2, <4>1, <4>2
      <3>5. QED
        BY <2>2, <3>2, <3>3, <3>4
    <2>5. QED
      BY <2>3, <2>4 DEF t
  <1>5. QED
    BY <1>2, <1>3, <1>4

LEMMA LooksInOrder ==
    ASSUME NEW up \in Shapes, NEW n \in 0..Total
    PROVE  Distinct(Looks(up)[n]) /\ (n <= F * F => ParentFirst(up, Looks(up)[n]))
  <1> DEFINE L == Looks(up)
             A == {k \in Nat : k <= Total =>
                     Distinct(L[k]) /\ (k <= F * F => ParentFirst(up, L[k]))}
  <1>1. \A k \in 0..Total : L[k] \in Seq(Folders)
    BY LooksAre
  <1>2. L[0] = <<>> /\ \A k \in 1..Total : L[k] = LookAt(up, L[k - 1], k)
    BY LooksAre
  <1> HIDE DEF L
  <1>3. 0 \in A
    BY <1>2 DEF Distinct, ParentFirst
  <1>4. ASSUME NEW k \in A PROVE k + 1 \in A
    <2>1. ASSUME k + 1 <= Total
          PROVE  Distinct(L[k + 1]) /\ (k + 1 <= F * F => ParentFirst(up, L[k + 1]))
      <3>1. k \in 0..Total /\ k + 1 \in 1..Total /\ (k + 1) - 1 = k /\ k <= Total
        BY <2>1, Totals
      <3>2. L[k + 1] = LookAt(up, L[k], k + 1) /\ L[k] \in Seq(Folders)
        BY <1>1, <1>2, <3>1
      <3>3. Distinct(L[k]) /\ (k <= F * F => ParentFirst(up, L[k]))
        BY <3>1
      <3>4. k + 1 <= F * F => k <= F * F
        BY <3>1, Totals
      <3>5. QED
        BY <3>1, <3>2, <3>3, <3>4, LookOnce
    <2>2. QED
      BY <2>1
  <1>5. A = Nat
    <2>1. A \in SUBSET Nat
      OBVIOUS
    <2> HIDE DEF A
    <2>2. QED
      BY <1>3, <1>4, <2>1, Induction
  <1>6. n \in A /\ n <= Total
    BY <1>5, Totals
  <1>7. QED
    BY <1>6 DEF L
\* The k-th wave places every row that has no parent or one placed before.
LEMMA WavePlaces ==
    ASSUME NEW up \in Shapes, NEW k \in 0..(F - 1), NEW f \in Folders,
           up[f] = NoFolder \/ up[f] \in ToSet(Looks(up)[k * F])
    PROVE  f \in ToSet(Looks(up)[(k + 1) * F])
  <1> DEFINE L == Looks(up)
             n == k * F + f
  <1>1. \A j \in 0..Total : L[j] \in Seq(Folders)
    BY LooksAre
  <1>2. \A j \in 1..Total : L[j] = LookAt(up, L[j - 1], j)
    BY LooksAre
  <1>3. F \in Nat /\ f \in Nat /\ f >= 1 /\ f <= F /\ k \in Nat /\ k + 1 <= F
    BY Totals DEF Folders
  <1>4. /\ k * F \in Nat /\ (k + 1) * F \in Nat /\ (k + 1) * F = k * F + F
        /\ (k + 1) * F <= F * F
    <2>1. \E d \in Nat : F = (k + 1) + d
      <3>1. F - (k + 1) \in Nat /\ F = (k + 1) + (F - (k + 1))
        BY <1>3
      <3>2. QED
        BY <3>1
    <2>2. PICK d \in Nat : F = (k + 1) + d
      BY <2>1
    <2>3. F * F = (k + 1) * F + d * F /\ d * F \in Nat /\ k * F \in Nat
      BY <1>3, <2>2
    <2>4. QED
      BY <1>3, <2>3
  <1>5. /\ n \in 1..Total /\ n - 1 \in 0..Total /\ n <= (k + 1) * F
        /\ k * F <= n - 1 /\ k * F \in 0..Total /\ (k + 1) * F \in 0..Total
        /\ n \in 0..Total
    BY <1>3, <1>4, Totals
  <1>6. Row(n) = f
    BY <1>3, RowInWave
  <1> HIDE DEF n
  <1>7. ToSet(L[k * F]) \subseteq ToSet(L[n - 1])
    BY <1>1, <1>5, LookExtends, ExtendsKeeps
  <1>8. Placeable(up, Row(n), L[n - 1])
    BY <1>6, <1>7 DEF Placeable
  <1>9. f \in ToSet(L[n])
    BY <1>1, <1>2, <1>5, <1>6, <1>8, LookGives
  <1>10. ToSet(L[n]) \subseteq ToSet(L[(k + 1) * F])
    BY <1>1, <1>5, LookExtends, ExtendsKeeps
  <1>11. QED
    BY <1>9, <1>10

\* The last round places the rest.
LEMMA LastRoundPlaces ==
    ASSUME NEW up \in Shapes, NEW f \in Folders
    PROVE  f \in ToSet(Looks(up)[Total])
  <1> DEFINE L == Looks(up)
             n == F * F + f
  <1>1. \A j \in 0..Total : L[j] \in Seq(Folders)
    BY LooksAre
  <1>2. \A j \in 1..Total : L[j] = LookAt(up, L[j - 1], j)
    BY LooksAre
  <1>3. F \in Nat /\ f \in Nat /\ f >= 1 /\ f <= F /\ F * F \in Nat
    BY Totals DEF Folders
  <1>4. n \in 1..Total /\ n - 1 \in 0..Total /\ n \in 0..Total /\ n > F * F
        /\ Total \in 0..Total /\ n <= Total
    BY <1>3 DEF Total
  <1>5. Row(n) = f
    BY <1>3, RowInWave
  <1> HIDE DEF n
  <1>6. f \in ToSet(L[n])
    BY <1>1, <1>2, <1>4, <1>5, LookGives
  <1>7. ToSet(L[n]) \subseteq ToSet(L[Total])
    BY <1>1, <1>4, LookExtends, ExtendsKeeps
  <1>8. QED
    BY <1>6, <1>7

\* A sequence of distinct rows is as long as it has rows.
LEMMA DistinctLength ==
    ASSUME NEW s \in Seq(Folders), Distinct(s)
    PROVE  Len(s) <= F /\ (ToSet(s) = Folders => Len(s) = F)
  <1> DEFINE D == 1..Len(s)
  <1>1. Len(s) \in Nat /\ F \in Nat
    BY FoldersAssumption
  <1>2. IsFiniteSet(D) /\ Cardinality(D) = Len(s)
    BY <1>1, FS_Interval
  <1>3. IsFiniteSet(Folders) /\ Cardinality(Folders) = F
    BY <1>1, FS_Interval DEF Folders
  <1>4. s \in [D -> Folders]
    OBVIOUS
  <1>5. s \in Injection(D, Folders)
    BY <1>4 DEF Injection, IsInjective, Distinct
  <1>6. /\ Cardinality(D) <= Cardinality(Folders)
        /\ Cardinality(D) = Cardinality(Folders) <=> s \in Surjection(D, Folders)
    BY <1>3, <1>5, FS_Injection
  <1>7. ASSUME ToSet(s) = Folders PROVE s \in Surjection(D, Folders)
    BY <1>4, <1>7 DEF Surjection, ToSet
  <1>8. QED
    BY <1>2, <1>3, <1>6, <1>7

\* Chain is the function its recursion says.
Climb(up, g) == IF g = NoFolder THEN NoFolder ELSE up[g]

LEMMA ChainsAre ==
    ASSUME NEW up \in Shapes, NEW f \in Folders
    PROVE  /\ Chain(up, f) \in [0..F -> Folders \cup {NoFolder}]
           /\ Chain(up, f)[0] = f
           /\ \A n \in 1..F : Chain(up, f)[n] = Climb(up, Chain(up, f)[n - 1])
  <1> DEFINE S == Folders \cup {NoFolder}
             step == [n \in Nat |-> [g \in S |-> Climb(up, g)]]
             Rec(h) == [n \in 0..F |->
                          IF n = 0 THEN f
                          ELSE IF h[n - 1] = NoFolder THEN NoFolder ELSE up[h[n - 1]]]
  <1>1. \A g \in S : Climb(up, g) \in S
    BY DEF Climb, Shapes
  <1>2. step \in [Nat -> [S -> S]] /\ \A n \in Nat, g \in S : step[n][g] = Climb(up, g)
    <2>1. [g \in S |-> Climb(up, g)] \in [S -> S]
      BY <1>1
    <2>2. \A n \in Nat : step[n] = [g \in S |-> Climb(up, g)]
      OBVIOUS
    <2>3. \A n \in Nat, g \in S : step[n][g] = Climb(up, g)
      BY <2>2
    <2>4. step \in [Nat -> [S -> S]]
      BY <2>1
    <2>5. QED
      BY <2>3, <2>4
  <1> HIDE DEF step
  <1>3. F \in Nat /\ f \in S
    BY Totals
  <1>4. PICK h \in [0..F -> S] : h[0] = f /\ \A i \in 1..F : h[i] = step[i][h[i - 1]]
    <2>1. Recurs(F, S, f, step)
      BY <1>2, <1>3 DEF Recurs
    <2>2. Solved(F, S, f, step)
      BY <2>1, Recursion
    <2>3. QED
      BY <2>2 DEF Solved
  <1>5. h = Rec(h)
    <2>1. ASSUME NEW n \in 0..F
          PROVE  h[n] = IF n = 0 THEN f
                        ELSE IF h[n - 1] = NoFolder THEN NoFolder ELSE up[h[n - 1]]
      <3>1. CASE n = 0
        BY <1>4, <3>1
      <3>2. CASE n # 0
        <4>1. n \in 1..F /\ n \in Nat /\ n - 1 \in 0..F
          BY <1>3, <3>2
        <4>2. h[n] = Climb(up, h[n - 1])
          BY <1>2, <1>4, <4>1
        <4>3. QED
          BY <3>2, <4>2 DEF Climb
      <3>3. QED
        BY <3>1, <3>2
    <2>2. QED
      BY <2>1
  <1>6. Chain(up, f) = CHOOSE g : g = Rec(g)
    BY DEF Chain
  <1>7. Chain(up, f) = Rec(Chain(up, f))
    <2> HIDE DEF Rec
    <2>1. QED
      BY <1>5, <1>6
  <1> DEFINE C == Chain(up, f)
  <1> HIDE DEF C
  <1>8. C = Rec(C)
    BY <1>7 DEF C
  <1>9. C[0] = f
    BY <1>3, <1>8
  <1>10. \A n \in 1..F : C[n] = Climb(up, C[n - 1])
    BY <1>3, <1>8 DEF Climb
  <1>11. \A n \in 0..F : C[n] \in S
    <2> DEFINE A == {n \in Nat : n <= F => C[n] \in S}
    <2>1. 0 \in A
      BY <1>3, <1>9
    <2>2. ASSUME NEW n \in A PROVE n + 1 \in A
      <3>1. CASE n + 1 <= F
        <4>1. n + 1 \in 1..F /\ (n + 1) - 1 = n /\ C[n] \in S
          BY <1>3, <3>1
        <4>2. C[n + 1] = Climb(up, C[n])
          BY <1>10, <4>1
        <4>3. QED
          BY <1>1, <4>1, <4>2
      <3>2. QED
        BY <1>3, <3>1
    <2>3. A \in SUBSET Nat
      OBVIOUS
    <2>4. A = Nat
      <3> HIDE DEF A
      <3>1. QED
        BY <2>1, <2>2, <2>3, Induction
    <2>5. QED
      BY <2>4
  <1>12. C \in [0..F -> S]
    BY <1>8, <1>11
  <1>13. QED
    BY <1>9, <1>10, <1>12 DEF C
\* A chain that has ended stays ended.
LEMMA ChainStays ==
    ASSUME NEW up \in Shapes, NEW f \in Folders, NEW i \in 0..F, NEW j \in 0..F, i <= j,
           Chain(up, f)[i] = NoFolder
    PROVE  Chain(up, f)[j] = NoFolder
  <1> DEFINE C == Chain(up, f)
             A == {d \in Nat : i + d <= F => C[i + d] = NoFolder}
  <1>1. \A n \in 1..F : C[n] = Climb(up, C[n - 1])
    BY ChainsAre
  <1>2. C[i] = NoFolder
    OBVIOUS
  <1> HIDE DEF C
  <1>3. F \in Nat /\ i \in Nat /\ j \in Nat
    BY Totals
  <1>4. 0 \in A
    BY <1>2, <1>3
  <1>5. ASSUME NEW d \in A PROVE d + 1 \in A
    <2>1. ASSUME i + (d + 1) <= F PROVE C[i + (d + 1)] = NoFolder
      <3>1. i + (d + 1) \in 1..F /\ (i + (d + 1)) - 1 = i + d /\ i + d <= F
        BY <1>3, <2>1
      <3>2. C[i + (d + 1)] = Climb(up, C[i + d]) /\ C[i + d] = NoFolder
        BY <1>1, <3>1
      <3>3. QED
        BY <3>2 DEF Climb
    <2>2. QED
      BY <2>1
  <1>6. A = Nat
    <2>1. A \in SUBSET Nat
      OBVIOUS
    <2> HIDE DEF A
    <2>2. QED
      BY <1>4, <1>5, <2>1, Induction
  <1>7. j - i \in Nat /\ i + (j - i) = j /\ j <= F
    BY <1>3
  <1>8. j - i \in A
    BY <1>6, <1>7
  <1>9. QED
    BY <1>7, <1>8 DEF C

\* The chain from a parent is the rest of the chain from its child.
LEMMA ChainShifts ==
    ASSUME NEW up \in Shapes, NEW f \in Folders, NEW p \in Folders, up[f] = p,
           NEW k \in 0..(F - 1)
    PROVE  Chain(up, f)[k + 1] = Chain(up, p)[k]
  <1> DEFINE C == Chain(up, f)
             D == Chain(up, p)
             A == {n \in Nat : n + 1 <= F => C[n + 1] = D[n]}
  <1>1. C[0] = f /\ \A n \in 1..F : C[n] = Climb(up, C[n - 1])
    BY ChainsAre
  <1>2. D[0] = p /\ \A n \in 1..F : D[n] = Climb(up, D[n - 1])
    BY ChainsAre
  <1> HIDE DEF C, D
  <1>3. F \in Nat /\ f # NoFolder
    BY Totals DEF Folders, NoFolder
  <1>4. 0 \in A
    <2>1. ASSUME 1 <= F PROVE C[1] = D[0]
      <3>1. 1 \in 1..F /\ 1 - 1 = 0
        BY <1>3, <2>1
      <3>2. C[1] = Climb(up, f)
        BY <1>1, <3>1
      <3>3. QED
        BY <1>2, <1>3, <3>2 DEF Climb
    <2>2. QED
      BY <2>1
  <1>5. ASSUME NEW n \in A PROVE n + 1 \in A
    <2>1. ASSUME (n + 1) + 1 <= F PROVE C[(n + 1) + 1] = D[n + 1]
      <3>1. /\ (n + 1) + 1 \in 1..F /\ ((n + 1) + 1) - 1 = n + 1 /\ n + 1 <= F
            /\ n + 1 \in 1..F /\ (n + 1) - 1 = n
        BY <1>3, <2>1
      <3>2. C[n + 1] = D[n]
        BY <3>1
      <3>3. C[(n + 1) + 1] = Climb(up, C[n + 1]) /\ D[n + 1] = Climb(up, D[n])
        BY <1>1, <1>2, <3>1
      <3>4. QED
        BY <3>2, <3>3
    <2>2. QED
      BY <2>1
  <1>6. A = Nat
    <2>1. A \in SUBSET Nat
      OBVIOUS
    <2> HIDE DEF A
    <2>2. QED
      BY <1>4, <1>5, <2>1, Induction
  <1>7. k \in A /\ k + 1 <= F
    BY <1>3, <1>6
  <1>8. QED
    BY <1>7 DEF C, D

\* A row whose chain ends after k parents is placed within k waves.
LEMMA EndsPlaced ==
    ASSUME NEW up \in Shapes, NEW f \in Folders, NEW k \in 0..F,
           Chain(up, f)[k] = NoFolder
    PROVE  f \in ToSet(Looks(up)[k * F])
  <1> DEFINE Ended(n) == \A g \in Folders :
                n <= F /\ Chain(up, g)[n] = NoFolder => g \in ToSet(Looks(up)[n * F])
             A == {n \in Nat : Ended(n)}
  <1>1. F \in Nat
    BY Totals
  <1>2. 0 \in A
    <2>1. ASSUME NEW g \in Folders PROVE Chain(up, g)[0] # NoFolder
      BY <1>1, ChainsAre DEF Folders, NoFolder
    <2>2. QED
      BY <2>1
  <1>3. ASSUME NEW n \in A PROVE n + 1 \in A
    <2>1. ASSUME NEW g \in Folders, n + 1 <= F, Chain(up, g)[n + 1] = NoFolder
          PROVE  g \in ToSet(Looks(up)[(n + 1) * F])
      <3>1. n \in 0..(F - 1) /\ n <= F
        BY <1>1, <2>1
      <3>2. up[g] \in Folders \cup {NoFolder}
        BY DEF Shapes
      <3>3. CASE up[g] = NoFolder
        BY <3>1, <3>3, WavePlaces
      <3>4. CASE up[g] \in Folders
        <4>1. Chain(up, up[g])[n] = NoFolder
          BY <2>1, <3>1, <3>4, ChainShifts
        <4>2. Ended(n)
          OBVIOUS
        <4>3. up[g] \in ToSet(Looks(up)[n * F])
          BY <3>1, <3>4, <4>1, <4>2
        <4>4. QED
          BY <3>1, <4>3, WavePlaces
      <3>5. QED
        BY <3>2, <3>3, <3>4
    <2>2. Ended(n + 1)
      BY <2>1
    <2>3. QED
      BY <2>2
  <1>4. A = Nat
    <2>1. A \in SUBSET Nat
      OBVIOUS
    <2> HIDE DEF A
    <2>2. QED
      BY <1>2, <1>3, <2>1, Induction
  <1>5. k \in A /\ k <= F
    BY <1>1, <1>4
  <1>6. QED
    BY <1>5

\* The i-th row placed by the waves has a chain of at most i parents.
LEMMA PlacedEnds ==
    ASSUME NEW up \in Shapes, NEW f \in ToSet(Placed(up))
    PROVE  f \in Folders /\ Chain(up, f)[F] = NoFolder
  <1> DEFINE s == Placed(up)
             A == {m \in Nat : \A i \in 1..Len(s) :
                     i <= m => Chain(up, s[i])[i] = NoFolder}
  <1>1. F \in Nat /\ F * F \in 0..Total /\ F * F <= F * F
    BY Totals
  <1>2. s \in Seq(Folders)
    BY <1>1, LooksAre DEF Placed
  <1>3. Distinct(s) /\ ParentFirst(up, s)
    BY <1>1, LooksInOrder DEF Placed
  <1>4. Len(s) \in Nat /\ Len(s) <= F
    BY <1>2, <1>3, DistinctLength
  <1> HIDE DEF s
  <1>5. 0 \in A
    OBVIOUS
  <1>6. ASSUME NEW m \in A PROVE m + 1 \in A
    <2>1. ASSUME NEW i \in 1..Len(s), i <= m + 1 PROVE Chain(up, s[i])[i] = NoFolder
      <3>1. /\ s[i] \in Folders /\ s[i] # NoFolder /\ i \in 1..F /\ 1 \in 1..F
            /\ 1 <= i /\ 1 \in 0..F /\ i \in 0..F /\ i - 1 \in 0..(F - 1)
            /\ (i - 1) + 1 = i /\ i - 1 \in 0..F
        BY <1>1, <1>2, <1>4 DEF Folders, NoFolder
      <3>2. CASE up[s[i]] = NoFolder
        <4>1. Chain(up, s[i])[1] = Climb(up, s[i])
          BY <3>1, ChainsAre
        <4>2. Chain(up, s[i])[1] = NoFolder
          BY <3>1, <3>2, <4>1 DEF Climb
        <4>3. QED
          BY <3>1, <4>2, ChainStays
      <3>3. CASE \E j \in 1..(i - 1) : s[j] = up[s[i]]
        <4>1. PICK j \in 1..(i - 1) : s[j] = up[s[i]]
          BY <3>3
        <4>2. /\ j \in 1..Len(s) /\ j <= m /\ s[j] \in Folders
              /\ j <= i - 1 /\ j \in 0..F
          <5>1. m \in Nat /\ i \in Nat /\ j \in Nat /\ F \in Nat /\ j >= 1 /\ i <= Len(s)
            BY <1>1, <1>4
          <5>2. j <= i - 1 /\ i <= m + 1
            BY <2>1, <5>1
          <5>3. j \in 1..Len(s) /\ j <= m /\ j \in 0..F
            BY <1>4, <5>1, <5>2
          <5>4. QED
            BY <1>2, <5>2, <5>3
        <4>3. Chain(up, s[j])[j] = NoFolder
          BY <4>2
        <4>4. Chain(up, s[j])[i - 1] = NoFolder
          BY <3>1, <4>2, <4>3, ChainStays
        <4>5. Chain(up, s[i])[(i - 1) + 1] = Chain(up, s[j])[i - 1]
          BY <3>1, <4>1, <4>2, ChainShifts
        <4>6. QED
          BY <3>1, <4>4, <4>5
      <3>4. QED
        BY <1>3, <3>2, <3>3 DEF ParentFirst
    <2>2. QED
      BY <2>1
  <1>7. A = Nat
    <2>1. A \in SUBSET Nat
      OBVIOUS
    <2> HIDE DEF A
    <2>2. QED
      BY <1>5, <1>6, <2>1, Induction
  <1>8. PICK i \in 1..Len(s) : f = s[i]
    BY <1>2 DEF ToSet, s
  <1>9. Chain(up, f)[i] = NoFolder /\ f \in Folders
    <2>1. Len(s) \in A
      BY <1>4, <1>7
    <2>2. QED
      BY <1>2, <1>4, <1>8, <2>1
  <1>10. i \in 0..F /\ F \in 0..F /\ i <= F
    BY <1>1, <1>4
  <1>11. QED
    BY <1>9, <1>10, ChainStays
\* What the order is: every row once, parents that are mirrored first.
LEMMA OrderIs ==
    ASSUME NEW up \in Shapes
    PROVE  LET o == Ordered(up)
               h == MirrorParents(up)
           IN /\ o \in Seq(Folders) /\ Distinct(o)
              /\ ToSet(o) = Folders /\ Len(o) = F
              /\ \A f \in Folders :
                    /\ h[f] = IF Chain(up, f)[F] = NoFolder THEN up[f] ELSE NoFolder
                    /\ h[f] \in Folders =>
                          \E i, j \in 1..F : j < i /\ o[i] = f /\ o[j] = h[f]
  <1> DEFINE o == Ordered(up)
             h == MirrorParents(up)
             s == Placed(up)
  <1>1. /\ F \in Nat /\ Total \in 0..Total /\ F * F \in 0..Total
        /\ F * F <= F * F /\ F * F <= Total /\ F \in 0..F
    BY Totals
  <1>2. o = Looks(up)[Total] /\ s = Looks(up)[F * F]
    BY DEF Ordered, Placed, Total
  <1>3. o \in Seq(Folders) /\ Distinct(o) /\ s \in Seq(Folders)
    BY <1>1, <1>2, LooksAre, LooksInOrder
  <1>4. ParentFirst(up, s) /\ Extends(o, s)
    BY <1>1, <1>2, LooksInOrder, LookExtends
  <1>5. ToSet(o) = Folders
    <2>1. ToSet(o) \subseteq Folders
      BY <1>3 DEF ToSet
    <2>2. Folders \subseteq ToSet(o)
      BY <1>2, LastRoundPlaces
    <2>3. QED
      BY <2>1, <2>2
  <1>6. Len(o) = F
    BY <1>3, <1>5, DistinctLength
  <1>7. ASSUME NEW f \in Folders
        PROVE  /\ h[f] = IF Chain(up, f)[F] = NoFolder THEN up[f] ELSE NoFolder
               /\ h[f] \in Folders =>
                     \E i, j \in 1..F : j < i /\ o[i] = f /\ o[j] = h[f]
    <2>1. h[f] = IF f \in ToSet(s) THEN up[f] ELSE NoFolder
      BY DEF MirrorParents
    <2>2. f \in ToSet(s) <=> Chain(up, f)[F] = NoFolder
      <3>1. f \in ToSet(s) => Chain(up, f)[F] = NoFolder
        BY PlacedEnds
      <3>2. Chain(up, f)[F] = NoFolder => f \in ToSet(s)
        BY <1>1, <1>2, EndsPlaced
      <3>3. QED
        BY <3>1, <3>2
    <2>3. ASSUME h[f] \in Folders
          PROVE  \E i, j \in 1..F : j < i /\ o[i] = f /\ o[j] = h[f]
      <3>1. NoFolder \notin Folders
        BY <1>1 DEF NoFolder, Folders
      <3>2. f \in ToSet(s) /\ h[f] = up[f] /\ up[f] # NoFolder
        BY <2>1, <2>3, <3>1
      <3>3. PICK i \in 1..Len(s) : s[i] = f
        BY <1>3, <3>2 DEF ToSet
      <3>4. PICK j \in 1..(i - 1) : s[j] = up[f]
        BY <1>4, <3>2, <3>3 DEF ParentFirst
      <3>5. Len(s) \in Nat /\ Len(s) <= Len(o)
        BY <1>3, <1>4 DEF Extends
      <3>6. i \in 1..F /\ j \in 1..F /\ j < i /\ j \in 1..Len(s)
        BY <1>1, <1>6, <3>5
      <3>7. o[i] = f /\ o[j] = up[f]
        BY <1>4, <3>3, <3>4, <3>6 DEF Extends
      <3>8. QED
        BY <3>2, <3>6, <3>7
    <2>4. QED
      BY <2>1, <2>2, <2>3
  <1>8. QED
    BY <1>3, <1>5, <1>6, <1>7

\* The rows are read once and not changed by the runs.
RowsInv ==
    /\ parent \in Shapes
    /\ order = Ordered(parent) /\ hangs = MirrorParents(parent)

LEMMA RowsStay == RowsInv /\ [Next]_vars => RowsInv'
  <1> SUFFICES ASSUME RowsInv, [Next]_vars PROVE RowsInv'
    OBVIOUS
  <1>1. UNCHANGED rows
    BY DEF Next, Walk, List, Adopt, Link, Create, AddOwner, Record, Fail, Finish, File,
           FindEmpty, Delete, vars
  <1>2. QED
    BY <1>1 DEF rows, RowsInv

LEMMA RowsOrdered == RowsInv => OrderSound
  <1> SUFFICES ASSUME RowsInv PROVE OrderSound
    OBVIOUS
  <1>1. /\ order \in Seq(Folders) /\ Distinct(order)
        /\ ToSet(order) = Folders /\ Len(order) = F
        /\ \A f \in Folders :
              /\ hangs[f] = IF Chain(parent, f)[F] = NoFolder THEN parent[f] ELSE NoFolder
              /\ hangs[f] \in Folders =>
                    \E i, j \in 1..F : j < i /\ order[i] = f /\ order[j] = hangs[f]
    BY OrderIs DEF RowsInv
  <1>2. ASSUME NEW i \in 1..F PROVE Position(order[i]) = i
    <2>1. \E k \in 1..Len(order) : order[k] = order[i]
      BY <1>1
    <2>2. Position(order[i]) \in 1..Len(order) /\ order[Position(order[i])] = order[i]
      BY <2>1 DEF Position
    <2>3. QED
      BY <1>1, <2>2 DEF Distinct
  <1>3. ASSUME NEW f \in Folders, hangs[f] \in Folders
        PROVE  Position(hangs[f]) < Position(f)
    <2>1. PICK i \in 1..F, j \in 1..F : j < i /\ order[i] = f /\ order[j] = hangs[f]
      BY <1>1, <1>3
    <2>2. Position(f) = i /\ Position(hangs[f]) = j
      BY <1>2, <2>1
    <2>3. QED
      BY <2>1, <2>2
  <1>4. QED
    BY <1>1, <1>3 DEF OrderSound

\* The order of the rows is sound for every manifest: whatever parents the
\* rows name, each is placed once and behind the parent it hangs under.
THEOREM ParentsFirst == Spec => []OrderSound
  <1>1. Init => RowsInv
    BY DEF Init, RowsInv, Shapes
  <1>2. QED
    BY <1>1, RowsStay, RowsOrdered, PTL DEF Spec

-----------------------------------------------------------------------------
(* The tree. *)

\* Where the folder of row f belongs, and that d hangs there and nowhere else.
Home(f) == IF hangs[f] = NoFolder THEN Destination ELSE ogre[hangs[f]]
HangsAt(f, d) ==
    /\ <<Home(f), d>> \in edge
    /\ hangs[f] \in Folders => ogre[hangs[f]] # NoId

\* A child has one edge, and an id that was given out.
OneEdge ==
    /\ \A e \in edge : e[2] <= lastId
    /\ \A x, y \in edge : x[2] = y[2] => x = y

\* What a run has passed it knows as recorded, and what it has in hand
\* hangs where its row belongs.
Climbed(r) ==
    /\ runner[r].at >= 1
    /\ \A i \in 1..F : i < runner[r].at =>
          ogre[order[i]] # NoId /\ runner[r].mirrored[order[i]] = ogre[order[i]]
Attached(r) ==
    \A f \in Folders :
        (\E s \in {"create", "member", "record"} : Working(r, f, s))
            => HangsAt(f, runner[r].candidate)

TreeInv ==
    /\ OneEdge
    /\ \A f \in Folders : ogre[f] # NoId => HangsAt(f, ogre[f])
    /\ \A r \in Runners : Climbed(r) /\ Attached(r)

\* The rows, as the tree needs them.
LEMMA RowsAre ==
    ASSUME RowsInv
    PROVE  /\ order \in Seq(Folders) /\ Len(order) = F /\ F \in Nat
           /\ \A i, j \in 1..F : order[i] = order[j] => i = j
           /\ \A f \in Folders : hangs[f] \in Folders =>
                 \E i, j \in 1..F : j < i /\ order[i] = f /\ order[j] = hangs[f]
           /\ \A f \in Folders : hangs[f] \in Folders \cup {NoFolder}
           /\ NoFolder \notin Folders
  <1>1. /\ order \in Seq(Folders) /\ Distinct(order) /\ Len(order) = F
        /\ \A f \in Folders : hangs[f] \in Folders =>
              \E i, j \in 1..F : j < i /\ order[i] = f /\ order[j] = hangs[f]
    BY OrderIs DEF RowsInv
  <1>2. F \in Nat /\ NoFolder \notin Folders
    BY Totals DEF NoFolder, Folders
  <1>3. \A f \in Folders : hangs[f] \in Folders \cup {NoFolder}
    BY DEF RowsInv, Shapes, MirrorParents
  <1>4. QED
    BY <1>1, <1>2, <1>3 DEF Distinct

\* The folder of a row is under the one of its parent.
LEMMA UnderIsHome ==
    ASSUME MirrorInv, RowsInv, NEW r \in Runners, Climbed(r),
           NEW f \in Folders, Working(r, f, "walk")
    PROVE  /\ Under(r, f) = Home(f)
           /\ hangs[f] \in Folders => ogre[hangs[f]] # NoId
  <1>1. CASE hangs[f] = NoFolder
    BY <1>1, RowsAre DEF Under, Home
  <1>2. CASE hangs[f] \in Folders
    <2>1. PICK i \in 1..F, j \in 1..F : j < i /\ order[i] = f /\ order[j] = hangs[f]
      BY <1>2, RowsAre
    <2>2. runner[r].at \in Nat /\ runner[r].at <= Len(order) /\ order[runner[r].at] = f
      BY RunOf DEF Working, MirrorInv, Types
    <2>3. runner[r].at \in 1..F
      BY <2>2, RowsAre DEF Climbed
    <2>4. j < runner[r].at
      BY <2>1, <2>2, <2>3, RowsAre
    <2>5. ogre[hangs[f]] # NoId /\ runner[r].mirrored[hangs[f]] = ogre[hangs[f]]
      BY <2>1, <2>4 DEF Climbed
    <2>6. QED
      BY <1>2, <2>5, RowsAre DEF Under, Home
  <1>3. QED
    BY <1>1, <1>2, RowsAre

LEMMA InitTree == Init => TreeInv
  BY DEF Init, TreeInv, OneEdge, Climbed, Attached, Working, NoRun, RunFrom, NoneYet, NoId

\* Where things hang after a step, the rows being the same.
HomeNext(f) == IF hangs[f] = NoFolder THEN Destination ELSE ogre'[hangs[f]]
HangsNext(f, d) ==
    /\ <<HomeNext(f), d>> \in edge'
    /\ hangs[f] \in Folders => ogre'[hangs[f]] # NoId
WorkingNext(r, f) ==
    /\ runner'[r].step \in {"create", "member", "record"}
    /\ runner'[r].at <= Len(order) /\ order[runner'[r].at] = f

\* What hangs somewhere keeps hanging there.
LEMMA HangsKept ==
    ASSUME RowsInv, RecordedKept, edge \subseteq edge',
           NEW f \in Folders, NEW d, HangsAt(f, d)
    PROVE  HangsNext(f, d)
  <1>1. hangs[f] \in Folders \cup {NoFolder}
    BY RowsAre
  <1>2. HomeNext(f) = Home(f) /\ (hangs[f] \in Folders => ogre'[hangs[f]] # NoId)
    BY <1>1 DEF Home, HomeNext, HangsAt, RecordedKept
  <1>3. QED
    BY <1>2 DEF HangsAt, HangsNext

\* The run's part after a step, read off its new record.
LEMMA AttachedNext ==
    ASSUME UNCHANGED rows, NEW r \in Runners,
           \A f \in Folders : WorkingNext(r, f) => HangsNext(f, runner'[r].candidate)
    PROVE  Attached(r)'
  BY DEF rows, Attached, Working, WorkingNext, HangsAt, HangsNext, Home, HomeNext

LEMMA ClimbedNext ==
    ASSUME UNCHANGED rows, NEW r \in Runners, runner'[r].at >= 1,
           \A i \in 1..F : i < runner'[r].at =>
               ogre'[order[i]] # NoId /\ runner'[r].mirrored[order[i]] = ogre'[order[i]]
    PROVE  Climbed(r)'
  BY DEF rows, Climbed

\* A run that is left alone keeps its part.
LEMMA RunKept ==
    ASSUME RowsInv, RecordedKept, UNCHANGED rows, edge \subseteq edge',
           NEW r \in Runners, runner'[r] = runner[r], Climbed(r), Attached(r)
    PROVE  Climbed(r)' /\ Attached(r)'
  <1>1. \A i \in 1..F : order[i] \in Folders
    BY RowsAre
  <1>2. Climbed(r)'
    <2>1. \A i \in 1..F : i < runner[r].at =>
             ogre'[order[i]] # NoId /\ runner[r].mirrored[order[i]] = ogre'[order[i]]
      BY <1>1 DEF Climbed, RecordedKept
    <2>2. QED
      BY <2>1, ClimbedNext DEF Climbed
  <1>3. Attached(r)'
    <2>1. ASSUME NEW f \in Folders, WorkingNext(r, f)
          PROVE  HangsNext(f, runner[r].candidate)
      BY <2>1, HangsKept DEF Attached, Working, WorkingNext
    <2>2. QED
      BY <2>1, AttachedNext
  <1>4. QED
    BY <1>2, <1>3

\* The recorded rows and the edges, after a step that adds no edge.
LEMMA RecordedHang ==
    ASSUME TreeInv, RowsInv, RecordedKept, UNCHANGED rows, edge \subseteq edge',
           \A f \in Folders : ogre'[f] # ogre[f] => HangsNext(f, ogre'[f])
    PROVE  (\A f \in Folders : ogre[f] # NoId => HangsAt(f, ogre[f]))'
  <1>1. ASSUME NEW f \in Folders, ogre'[f] # NoId PROVE HangsNext(f, ogre'[f])
    <2>1. CASE ogre'[f] = ogre[f]
      <3>1. HangsAt(f, ogre[f])
        BY <1>1, <2>1 DEF TreeInv
      <3>2. HangsNext(f, ogre[f])
        BY <3>1, HangsKept
      <3>3. QED
        BY <2>1, <3>2
    <2>2. QED
      BY <2>1
  <1>2. QED
    BY <1>1 DEF rows, HangsAt, HangsNext, Home, HomeNext

LEMMA EdgesStay ==
    ASSUME TreeInv, edge' = edge, lastId' = lastId
    PROVE  OneEdge'
  BY DEF TreeInv, OneEdge
\* The runs that do not step keep their part.
LEMMA OthersTree ==
    ASSUME TreeInv, RowsInv, RecordedKept, UNCHANGED rows, edge \subseteq edge',
           NEW r \in Runners, \A q \in Runners : q # r => runner'[q] = runner[q]
    PROVE  \A q \in Runners : q # r => Climbed(q)' /\ Attached(q)'
  <1>1. SUFFICES ASSUME NEW q \in Runners, q # r PROVE Climbed(q)' /\ Attached(q)'
    OBVIOUS
  <1>2. runner'[q] = runner[q] /\ Climbed(q) /\ Attached(q)
    BY <1>1 DEF TreeInv
  <1>3. QED
    BY <1>2, RunKept

\* The one new edge leads from the row's home to an id nobody has.
LEMMA LinkTree ==
    ASSUME MirrorInv, TypeOK, RowsInv, TreeInv,
           NEW r \in Runners, NEW f \in Folders, Link(r, f)
    PROVE  TreeInv'
  <1> USE DEF Link, Set
  <1>1. /\ ogre' = ogre /\ RecordedKept /\ UNCHANGED rows
        /\ edge \subseteq edge' /\ lastId' = lastId + 1
        /\ edge' = edge \cup {<<Under(r, f), lastId'>>}
    BY DEF RecordedKept
  <1>2. Working(r, f, "walk") /\ Climbed(r) /\ Attached(r)
    BY DEF TreeInv
  <1>3. Under(r, f) = Home(f) /\ (hangs[f] \in Folders => ogre[hangs[f]] # NoId)
    BY <1>2, UnderIsHome
  <1>4. OneEdge'
    <2>1. lastId \in Nat /\ \A e \in edge : e[2] \in Nat /\ e[2] <= lastId
      BY DEF TypeOK, TreeInv, OneEdge, Ids
    <2> DEFINE new == <<Under(r, f), lastId'>>
    <2>2. new[2] = lastId + 1
      BY <1>1
    <2>3. edge' = edge \cup {new}
      BY <1>1
    <2> HIDE DEF new
    <2>4. \A e \in edge' : e[2] <= lastId'
      BY <1>1, <2>1, <2>2, <2>3
    <2>5. ASSUME NEW x \in edge', NEW y \in edge', x[2] = y[2] PROVE x = y
      <3>1. x \in edge /\ y \in edge => x = y
        BY <2>5 DEF TreeInv, OneEdge
      <3>2. \A e \in edge : e[2] # new[2]
        BY <2>1, <2>2
      <3>3. QED
        BY <2>3, <2>5, <3>1, <3>2
    <2>6. QED
      BY <2>4, <2>5 DEF OneEdge
  <1>5. runner[r] \in RunType /\ lastId' \in Nat
    BY <1>1 DEF MirrorInv, Types
  <1> DEFINE y == [runner[r] EXCEPT !.step = "create", !.candidate = lastId']
  <1>6. /\ y.candidate = lastId' /\ y.mirrored = runner[r].mirrored
        /\ y.at = runner[r].at
    <2>1. y.candidate = lastId' /\ y.mirrored = runner[r].mirrored
      BY <1>5, RunLinked
    <2>2. y.at = runner[r].at
      BY <1>5 DEF RunType
    <2>3. QED
      BY <2>1, <2>2
  <1>7. runner'[r] = y /\ \A q \in Runners : q # r => runner'[q] = runner[q]
    BY DEF MirrorInv, Types
  <1> HIDE DEF y
  <1>8. Climbed(r)'
    BY <1>1, <1>2, <1>6, <1>7, ClimbedNext DEF Climbed
  <1>9. Attached(r)'
    <2>1. ASSUME NEW g \in Folders, WorkingNext(r, g) PROVE HangsNext(g, runner'[r].candidate)
      <3>1. g = f
        BY <1>2, <1>6, <1>7, <2>1 DEF Working, WorkingNext
      <3>2. HomeNext(f) = Home(f)
        BY <1>1 DEF Home, HomeNext
      <3>3. <<Home(f), lastId'>> \in edge'
        BY <1>1, <1>3
      <3>4. QED
        BY <1>1, <1>3, <1>6, <1>7, <3>1, <3>2, <3>3 DEF HangsNext
    <2>2. QED
      BY <1>1, <2>1, AttachedNext
  <1>10. (\A g \in Folders : ogre[g] # NoId => HangsAt(g, ogre[g]))'
    BY <1>1, RecordedHang
  <1>11. \A q \in Runners : q # r => Climbed(q)' /\ Attached(q)'
    BY <1>1, <1>7, OthersTree
  <1>12. QED
    BY <1>4, <1>8, <1>9, <1>10, <1>11 DEF TreeInv

\* Creating the row and the owner leaves the edges alone.
LEMMA MakeTree ==
    ASSUME MirrorInv, RowsInv, TreeInv, NEW r \in Runners, NEW f \in Folders,
           Create(r, f) \/ AddOwner(r, f)
    PROVE  TreeInv'
  <1> USE DEF Create, AddOwner, Set
  <1>1. /\ ogre' = ogre /\ RecordedKept /\ UNCHANGED rows /\ edge' = edge
        /\ lastId' = lastId
    BY DEF RecordedKept
  <1>2. PICK s \in {"create", "member"}, t \in {"member", "record"} :
           Working(r, f, s) /\ runner' = [runner EXCEPT ![r] = [runner[r] EXCEPT !.step = t]]
    OBVIOUS
  <1>3. runner[r] \in RunType /\ Climbed(r) /\ Attached(r)
    BY DEF MirrorInv, Types, TreeInv
  <1> DEFINE y == [runner[r] EXCEPT !.step = t]
  <1>4. /\ y.at = runner[r].at /\ y.candidate = runner[r].candidate
        /\ y.mirrored = runner[r].mirrored
    BY <1>3 DEF RunType
  <1>5. runner'[r] = y /\ \A q \in Runners : q # r => runner'[q] = runner[q]
    BY <1>2 DEF MirrorInv, Types
  <1> HIDE DEF y
  <1>6. Climbed(r)'
    BY <1>1, <1>3, <1>4, <1>5, ClimbedNext DEF Climbed
  <1>7. Attached(r)'
    <2>1. ASSUME NEW g \in Folders, WorkingNext(r, g) PROVE HangsNext(g, runner'[r].candidate)
      <3>1. g = f
        BY <1>2, <1>4, <1>5, <2>1 DEF Working, WorkingNext
      <3>2. HangsAt(f, runner[r].candidate)
        BY <1>2, <1>3 DEF Attached
      <3>3. HangsNext(f, runner[r].candidate)
        BY <1>1, <3>2, HangsKept
      <3>4. QED
        BY <1>4, <1>5, <3>1, <3>3
    <2>2. QED
      BY <1>1, <2>1, AttachedNext
  <1>8. (\A g \in Folders : ogre[g] # NoId => HangsAt(g, ogre[g]))'
    BY <1>1, RecordedHang
  <1>9. \A q \in Runners : q # r => Climbed(q)' /\ Attached(q)'
    BY <1>1, <1>5, OthersTree
  <1>10. QED
    BY <1>1, <1>6, <1>7, <1>8, <1>9, EdgesStay DEF TreeInv

\* A run goes on to the next row with the recorded folder of this one.
LEMMA OnwardTree ==
    ASSUME MirrorInv, RowsInv, TreeInv, RecordedKept, NEW r \in Runners, NEW f \in Folders,
           NEW s \in Step, Working(r, f, s), NEW d \in Nat, d = ogre'[f], d # NoId,
           Set(r, Onward(r, f, d))
    PROVE  UNCHANGED rows => Climbed(r)' /\ Attached(r)'
  <1> SUFFICES ASSUME UNCHANGED rows PROVE Climbed(r)' /\ Attached(r)'
    OBVIOUS
  <1>1. runner[r] \in RunType /\ Climbed(r) /\ runner[r].at \in Nat
    BY RunOf DEF MirrorInv, Types, TreeInv
  <1> DEFINE y == Onward(r, f, d)
  <1>2. /\ y.step = "walk"
        /\ \A g \in Folders : y.mirrored[g] = IF g = f THEN d ELSE runner[r].mirrored[g]
    BY <1>1, OnwardType
  <1>3. y.at = runner[r].at + 1
    BY DEF Onward
  <1>4. runner'[r] = y
    BY DEF Set, MirrorInv, Types
  <1> HIDE DEF y
  <1>5. ASSUME NEW i \in 1..F, i < runner[r].at + 1
        PROVE  ogre'[order[i]] # NoId /\ y.mirrored[order[i]] = ogre'[order[i]]
    <2>1. order[i] \in Folders
      BY RowsAre
    <2>2. CASE order[i] = f
      BY <1>2, <2>1, <2>2
    <2>3. CASE order[i] # f
      <3>1. i # runner[r].at
        BY <2>3 DEF Working
      <3>2. i < runner[r].at
        BY <1>1, <1>5, <3>1
      <3>3. ogre[order[i]] # NoId /\ runner[r].mirrored[order[i]] = ogre[order[i]]
        BY <1>1, <3>2 DEF Climbed
      <3>4. QED
        BY <1>2, <2>1, <2>3, <3>3 DEF RecordedKept
    <2>4. QED
      BY <2>2, <2>3
  <1>6. Climbed(r)'
    <2>1. runner'[r].at >= 1
      BY <1>1, <1>3, <1>4
    <2>2. QED
      BY <1>3, <1>4, <1>5, <2>1, ClimbedNext
  <1>7. Attached(r)'
    BY <1>2, <1>4, AttachedNext DEF WorkingNext
  <1>8. QED
    BY <1>6, <1>7

LEMMA AdoptTree ==
    ASSUME MirrorInv, RowsInv, TreeInv, NEW r \in Runners, NEW f \in Folders, Adopt(r, f)
    PROVE  TreeInv'
  <1> USE DEF Adopt
  <1>1. /\ ogre' = ogre /\ RecordedKept /\ UNCHANGED rows /\ edge' = edge
        /\ lastId' = lastId /\ Working(r, f, "walk")
    BY DEF RecordedKept, tree
  <1> DEFINE d == runner[r].rows[f]
  <1>2. d = ogre'[f] /\ d # NoId /\ d \in Nat
    BY DEF MirrorInv, Types, Knows
  <1>3. \A q \in Runners : q # r => runner'[q] = runner[q]
    BY DEF Set, MirrorInv, Types
  <1>4. Set(r, Onward(r, f, d))
    OBVIOUS
  <1> HIDE DEF d
  <1>5. "walk" \in Step
    BY DEF Step
  <1>6. Climbed(r)' /\ Attached(r)'
    BY <1>1, <1>2, <1>4, <1>5, OnwardTree
  <1>7. (\A g \in Folders : ogre[g] # NoId => HangsAt(g, ogre[g]))'
    BY <1>1, RecordedHang
  <1>8. \A q \in Runners : q # r => Climbed(q)' /\ Attached(q)'
    BY <1>1, <1>3, OthersTree
  <1>9. QED
    BY <1>1, <1>6, <1>7, <1>8, EdgesStay DEF TreeInv

\* What is recorded is the folder in hand, which hangs where the row belongs.
LEMMA RecordTree ==
    ASSUME MirrorInv, RowsInv, TreeInv, NEW r \in Runners, NEW f \in Folders, Record(r, f)
    PROVE  TreeInv'
  <1> USE DEF Record
  <1>1. /\ RecordedKept /\ UNCHANGED rows /\ edge' = edge /\ lastId' = lastId
        /\ Working(r, f, "record")
    BY RecordKeeps DEF tree
  <1>2. /\ Attached(r) /\ Climbed(r) /\ InHand(r) /\ ogre \in [Folders -> Nat]
        /\ runner[r] \in RunType
    BY DEF TreeInv, MirrorInv, Types
  <1>3. ogre' = [ogre EXCEPT ![f] = FirstWins(r, f)] /\ ogre'[f] = FirstWins(r, f)
    BY <1>2
  <1>4. ogre'[f] # NoId /\ ogre'[f] \in Nat
    BY <1>1, <1>2, <1>3 DEF FirstWins, InHand, Working, RunType
  <1>5. Set(r, Onward(r, f, ogre'[f])) /\ "record" \in Step
    BY DEF Recorded, Step
  <1>6. \A q \in Runners : q # r => runner'[q] = runner[q]
    BY DEF Set, MirrorInv, Types
  <1>7. ASSUME NEW g \in Folders, ogre'[g] # ogre[g] PROVE HangsNext(g, ogre'[g])
    <2>1. g = f /\ ogre'[g] = runner[r].candidate
      BY <1>2, <1>3, <1>7 DEF FirstWins
    <2>2. HangsAt(f, runner[r].candidate)
      BY <1>1, <1>2 DEF Attached
    <2>3. HangsNext(f, runner[r].candidate)
      BY <1>1, <2>2, HangsKept
    <2>4. QED
      BY <2>1, <2>3
  <1>8. (\A g \in Folders : ogre[g] # NoId => HangsAt(g, ogre[g]))'
    BY <1>1, <1>7, RecordedHang
  <1>9. Climbed(r)' /\ Attached(r)'
    <2>1. PICK d : d = ogre'[f]
      OBVIOUS
    <2>2. QED
      BY <1>1, <1>4, <1>5, <2>1, OnwardTree
  <1>10. \A q \in Runners : q # r => Climbed(q)' /\ Attached(q)'
    BY <1>1, <1>6, OthersTree
  <1>11. QED
    BY <1>1, <1>8, <1>9, <1>10, EdgesStay DEF TreeInv

\* Runs that begin, fail or end are at the first row with nothing in hand.
LEMMA AroundTree ==
    ASSUME MirrorInv, RowsInv, TreeInv,
           \/ \E r \in Runners : List(r) \/ Fail(r) \/ Finish(r)
           \/ \E r \in Runners, f \in Folders : File(r, f)
           \/ \E d \in Ids : FindEmpty(d)
           \/ Delete
           \/ UNCHANGED vars
    PROVE  TreeInv'
  <1>1. ogre' = ogre /\ RecordedKept /\ UNCHANGED rows /\ edge' = edge /\ lastId' = lastId
    BY DEF List, Fail, Finish, File, FindEmpty, Delete, vars, RecordedKept, tree, run
  <1>2. (\A g \in Folders : ogre[g] # NoId => HangsAt(g, ogre[g]))'
    BY <1>1, RecordedHang
  <1>3. ASSUME NEW r \in Runners, List(r) \/ Fail(r) \/ Finish(r) PROVE TreeInv'
    <2>1. Set(r, NoRun) \/ Set(r, RunFrom("walk", ogre))
      BY <1>3 DEF List, Fail, Finish
    <2>2. /\ runner'[r] = NoRun \/ runner'[r] = RunFrom("walk", ogre)
          /\ \A q \in Runners : q # r => runner'[q] = runner[q]
      BY <2>1 DEF Set, MirrorInv, Types
    <2>3. runner'[r].at = 1 /\ runner'[r].step \in {"idle", "walk"}
      BY <2>2 DEF RunFrom, NoRun
    <2>4. Climbed(r)'
      <3>1. \A i \in 1..F : ~ (i < 1)
        BY RowsAre
      <3>2. QED
        BY <1>1, <2>3, <3>1, ClimbedNext
    <2>5. Attached(r)'
      BY <1>1, <2>3, AttachedNext DEF WorkingNext
    <2>6. \A q \in Runners : q # r => Climbed(q)' /\ Attached(q)'
      BY <1>1, <2>2, OthersTree
    <2>7. QED
      BY <1>1, <1>2, <2>4, <2>5, <2>6, EdgesStay DEF TreeInv
  <1>4. ASSUME runner' = runner PROVE TreeInv'
    <2>1. \A r \in Runners : Climbed(r)' /\ Attached(r)'
      BY <1>1, <1>4, RunKept DEF TreeInv
    <2>2. QED
      BY <1>1, <1>2, <2>1, EdgesStay DEF TreeInv
  <1>5. QED
    BY <1>3, <1>4 DEF File, FindEmpty, Delete, vars, run

LEMMA NextTree == MirrorInv /\ TypeOK /\ RowsInv /\ TreeInv /\ [Next]_vars => TreeInv'
  <1> SUFFICES ASSUME MirrorInv, TypeOK, RowsInv, TreeInv, [Next]_vars PROVE TreeInv'
    OBVIOUS
  <1>1. ASSUME NEW r \in Runners, Walk(r) PROVE TreeInv'
    <2>1. PICK f \in Folders :
             Adopt(r, f) \/ Link(r, f) \/ Create(r, f) \/ AddOwner(r, f) \/ Record(r, f)
      BY <1>1 DEF Walk
    <2>2. QED
      BY <2>1, AdoptTree, LinkTree, MakeTree, RecordTree
  <1>2. QED
    BY <1>1, AroundTree DEF Next

\* The recorded folders form the tree of the manifest, whichever runs build
\* it together: each hangs under the recorded folder of its parent only.
THEOREM MirrorsTheTree == Spec => []TreeMirrored
  <1>1. RowsInv /\ TypeOK /\ TreeInv => TreeMirrored
    <2>1. SUFFICES ASSUME RowsInv, TypeOK, TreeInv, NEW f \in Folders, ogre[f] # NoId
                   PROVE  {e[1] : e \in {x \in edge : x[2] = ogre[f]}} = {Home(f)}
      BY DEF TreeMirrored, Home
    <2>2. <<Home(f), ogre[f]>> \in edge
      BY <2>1 DEF TreeInv, HangsAt
    <2>3. {x \in edge : x[2] = ogre[f]} = {<<Home(f), ogre[f]>>}
      <3>1. \A x, y \in edge : x[2] = y[2] => x = y
        BY <2>1 DEF TreeInv, OneEdge
      <3>2. <<Home(f), ogre[f]>>[2] = ogre[f]
        OBVIOUS
      <3>3. QED
        BY <2>2, <3>1, <3>2
    <2>4. <<Home(f), ogre[f]>>[1] = Home(f)
      OBVIOUS
    <2>5. QED
      BY <2>3, <2>4
  <1>2. Init => RowsInv
    BY DEF Init, RowsInv, Shapes
  <1>3. QED
    BY <1>1, <1>2, InitMirror, NextMirror, InitType, TypeStep, RowsStay, InitTree, NextTree,
       PTL DEF Spec
=============================================================================
