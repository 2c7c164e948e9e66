----------------------- MODULE RoomPersistenceProofs -----------------------
(***************************************************************************)
(* Theorems about RoomPersistence, for any sets of clients, tasks, rooms   *)
(* and updates and any bounds.                                             *)
(***************************************************************************)
EXTENDS RoomPersistence, TLAPS

\* A task that returns keeps the types: its locals are reset.
LEMMA FinishType ==
    ASSUME TypeOK, NEW p \in Procs, Finish(p)
    PROVE  /\ PcOK' /\ HoldsOK'
           /\ sess' \in [Conns -> Session] /\ snap' \in [Procs -> Snapshot]
  <1> USE BoundAssumption, ProcessAssumption
      DEF TypeOK, Finish, Goto, Versions, Procs, Snapshot, Session, NoSnapshot, NoSession, SessionIn
  <1>1. PcOK'
    BY DEF PcOK, SharedPCs
  <1>2. sess' \in [Conns -> Session] /\ snap' \in [Procs -> Snapshot]
    OBVIOUS
  <1>3. HoldsOK'
    BY DEF PcOK, HoldsOK, OpenPCs, CompactPCs
  <1>4. QED
    BY <1>1, <1>2, <1>3

\* Marking a room keeps it a room.
LEMMA MarkType ==
    ASSUME MemoryOK, NEW c \in Conns, MarkFailed(c),
           sess[c].room \in Rooms, sess[c].edit \in Updates
    PROVE  room' \in [Rooms -> RoomState]
  <1>1. room[sess[c].room] \in RoomState
    BY DEF MemoryOK
  <1> DEFINE r == sess[c].room
  <1> DEFINE marked == [room[r] EXCEPT !.unsaved = TRUE,
                                       !.failed = @ \cup {sess[c].edit},
                                       !.stamped = @ \cup {sess[c].edit}]
  <1>2. marked \in RoomState
    BY <1>1 DEF RoomState
  <1>3. room' = [room EXCEPT ![r] = marked]
    BY <1>1 DEF MarkFailed, MemoryOK, RoomState
  <1>4. QED
    BY <1>2, <1>3 DEF MemoryOK

\* Assigning the edit in hand keeps a session a session.
LEMMA EditType ==
    ASSUME sess \in [Conns -> Session], NEW c \in Conns, NEW e \in Updates \cup {NoEdit}
    PROVE  [sess EXCEPT ![c].edit = e] \in [Conns -> Session]
  BY DEF Session

\* Noting whether the registered room is unsaved does, too.
LEMMA MarkedType ==
    ASSUME sess \in [Conns -> Session], NEW c \in Conns, NEW b \in BOOLEAN
    PROVE  [sess EXCEPT ![c].marked = b] \in [Conns -> Session]
  BY DEF Session

\* Merging one update into a Room.
LEMMA DocType ==
    ASSUME room \in [Rooms -> RoomState], NEW r \in Rooms, NEW u \in Updates
    PROVE  [room EXCEPT ![r].doc = @ \cup {u}] \in [Rooms -> RoomState]
  BY DEF RoomState

\* Setting or clearing the unsaved mark.
LEMMA MarkFieldType ==
    ASSUME room \in [Rooms -> RoomState], NEW r \in Rooms, NEW b \in BOOLEAN
    PROVE  [room EXCEPT ![r].unsaved = b] \in [Rooms -> RoomState]
  BY DEF RoomState

\* The locals that a compaction takes together.
LEMMA TakeType ==
    ASSUME snap \in [Procs -> Snapshot], NEW p \in Procs,
           NEW s \in SUBSET Updates, NEW b \in BOOLEAN
    PROVE  [snap EXCEPT ![p].cutoff = s, ![p].had = b] \in [Procs -> Snapshot]
  BY DEF Snapshot

\* A connection joining a Room.
LEMMA JoinType ==
    ASSUME sess \in [Conns -> Session], NEW c \in Conns, NEW r \in Rooms
    PROVE  [sess EXCEPT ![c] = SessionIn(r)] \in [Conns -> Session]
  BY BoundAssumption DEF Session, SessionIn, Versions


\* Every step keeps the type invariant.
LEMMA TypeStep ==
    ASSUME TypeOK, [Next]_vars
    PROVE  TypeOK'
  <1> USE SentinelAssumption, ProcessAssumption, BoundAssumption
      DEF TypeOK, StorageOK, MemoryOK, PcOK, HistoryOK, EnvOK, HoldsOK,
          RoomState, Session, Snapshot, Versions, Procs, Forced,
          ConnPCs, SharedPCs, LoadPCs, OpenPCs, CompactPCs,
          Goto, Succeeds, vars, storageVars, memoryVars, taskVars, historyVars, envVars
  <1>0. TypeOK
    OBVIOUS
  <1>1. \A c \in Conns : JoinResident(c) => TypeOK'
    BY <1>0 DEF JoinResident
  <1>2. \A c \in Conns : LoadMeta(c) => TypeOK'
    BY <1>0 DEF LoadMeta, MetaReads
  <1>3. \A c \in Conns : LoadBlob(c) => TypeOK'
    BY <1>0 DEF LoadBlob
  <1>4. \A c \in Conns : LoadRows(c) => TypeOK'
    <2> SUFFICES ASSUME NEW c \in Conns, LoadRows(c) PROVE TypeOK'
      OBVIOUS
    <2>1. PICK rs \in RowReads, r \in Rooms :
            /\ registry' = r
            /\ room' = room \/ room' = [room EXCEPT ![r] = FreshRoom(sess[c].doc \cup rs)]
            /\ sess' = [sess EXCEPT ![c] = SessionIn(r)]
      BY DEF LoadRows
    <2>2. MemoryOK'
      <3>1. rs \in SUBSET Updates /\ sess[c].doc \in SUBSET Updates
        BY DEF RowReads
      <3>2. FreshRoom(sess[c].doc \cup rs) \in RoomState
        BY <3>1 DEF FreshRoom
      <3> DEFINE fresh == FreshRoom(sess[c].doc \cup rs)
      <3>3. registry' \in Rooms /\ (room' = room \/ room' = [room EXCEPT ![r] = fresh])
        BY <2>1
      <3>4. fresh \in RoomState /\ room \in [Rooms -> RoomState]
        BY <3>2
      <3> HIDE DEF fresh, RoomState
      <3>5. room' \in [Rooms -> RoomState]
        BY <3>3, <3>4
      <3>6. QED
        BY <3>3, <3>5
    <2>3. sess' \in [Conns -> Session] /\ snap' \in [Procs -> Snapshot]
      BY <2>1, JoinType DEF LoadRows
    <2>4. StorageOK' /\ HistoryOK' /\ EnvOK' /\ PcOK'
      BY DEF LoadRows
    <2>5. HoldsOK'
      BY <2>1 DEF LoadRows, SessionIn
    <2>6. QED
      BY <2>2, <2>3, <2>4, <2>5
  <1>5. \A c \in Conns : LoadFails(c) => TypeOK'
    BY FinishType DEF LoadFails, Fails
  <1>6. \A c \in Conns : AddClient(c) => TypeOK'
    BY <1>0 DEF AddClient
  <1>7. \A c \in Conns : UpgradeRefused(c) => TypeOK'
    BY FinishType DEF UpgradeRefused
  <1>8. \A c \in Conns : StampUpdate(c) => TypeOK'
    <2> SUFFICES ASSUME NEW c \in Conns, StampUpdate(c) PROVE TypeOK'
      OBVIOUS
    <2>1. sess[c].room \in Rooms /\ sess[c].edit \in Updates
      BY DEF StampUpdate
    <2>2. MemoryOK'
      <3>1. CASE healthUp
        BY <2>1, <3>1 DEF StampUpdate
      <3>2. CASE ~healthUp
        BY <2>1, <3>2, MarkType DEF StampUpdate
      <3>3. QED
        BY <3>1, <3>2
    <2>3. sess' \in [Conns -> Session] /\ snap' \in [Procs -> Snapshot]
      <3>1. CASE healthUp
        BY <3>1 DEF StampUpdate
      <3>2. CASE ~healthUp
        <4>1. sess' = [sess EXCEPT ![c].edit = NoEdit]
          BY <3>2 DEF StampUpdate
        <4>2. QED
          BY <4>1, EditType DEF StampUpdate
      <3>3. QED
        BY <3>1, <3>2
    <2>4. StorageOK' /\ HistoryOK' /\ EnvOK' /\ PcOK'
      <3>1. StorageOK' /\ EnvOK'
        BY DEF StampUpdate
      <3>2. HistoryOK'
        BY <2>1 DEF StampUpdate
      <3>3. PcOK'
        <4>1. pc' = [pc EXCEPT ![c] = "saving"] \/ pc' = [pc EXCEPT ![c] = "open"]
          BY DEF StampUpdate
        <4>2. QED
          BY <4>1
      <3>4. QED
        BY <3>1, <3>2, <3>3
    <2>5. HoldsOK'
      <3>1. CASE healthUp
        BY <3>1 DEF StampUpdate
      <3>2. CASE ~healthUp
        <4>1. /\ pc' = [pc EXCEPT ![c] = "open"] /\ snap' = snap
              /\ sess' = [sess EXCEPT ![c].edit = NoEdit]
          BY <3>2 DEF StampUpdate
        <4>2. \A d \in Conns : sess'[d].room = sess[d].room
          BY <4>1
        <4>3. \A d \in Conns : pc'[d] \in {"applied", "saving"} => sess'[d] = sess[d]
          BY <4>1
        <4>4. QED
          BY <2>1, <4>1, <4>2, <4>3
      <3>3. QED
        BY <3>1, <3>2
    <2>6. QED
      BY <2>2, <2>3, <2>4, <2>5
  <1>9. \A c \in Conns : AppendOk(c) => TypeOK'
    <2> SUFFICES ASSUME NEW c \in Conns, AppendOk(c) PROVE TypeOK'
      OBVIOUS
    <2>1. pc[c] = "saving" /\ sess[c].edit \in Updates
      BY DEF AppendOk
    <2>2. sess' = [sess EXCEPT ![c].edit = NoEdit] /\ sess \in [Conns -> Session]
      BY DEF AppendOk
    <2>t. sess' \in [Conns -> Session]
      BY <2>2, EditType
    <2>r. /\ \A d \in Conns : sess'[d].room = sess[d].room
          /\ \A d \in Conns \ {c} : sess'[d] = sess[d]
      BY <2>2
    <2>3. StorageOK' /\ HistoryOK' /\ MemoryOK' /\ EnvOK'
      BY <2>1 DEF AppendOk, Commit
    <2>4. PcOK' /\ snap' \in [Procs -> Snapshot]
      BY DEF AppendOk
    <2>5. HoldsOK'
      BY <2>1, <2>r DEF AppendOk
    <2>6. QED
      BY <2>t, <2>3, <2>4, <2>5
  <1>10. \A c \in Conns : AppendFails(c) => TypeOK'
    <2> SUFFICES ASSUME NEW c \in Conns, AppendFails(c) PROVE TypeOK'
      OBVIOUS
    <2>1. sess[c].room \in Rooms /\ sess[c].edit \in Updates
      BY DEF AppendFails
    <2>2. MemoryOK'
      BY <2>1, MarkType DEF AppendFails
    <2>3. sess' \in [Conns -> Session] /\ snap' \in [Procs -> Snapshot]
      BY <2>1 DEF AppendFails
    <2>4. StorageOK' /\ HistoryOK' /\ PcOK'
      BY <2>1 DEF AppendFails, Commit
    <2>5. EnvOK'
      BY DEF AppendFails, Fails
    <2>6. HoldsOK'
      BY <2>1 DEF AppendFails
    <2>7. QED
      BY <2>2, <2>3, <2>4, <2>5, <2>6
  <1>11. \A c \in Conns : Leave(c) => TypeOK'
    <2> SUFFICES ASSUME NEW c \in Conns, Leave(c) PROVE TypeOK'
      OBVIOUS
    <2>1. CASE Clients(sess[c].room) # {c}
      BY <2>1, FinishType DEF Leave, RemoveClient
    <2>2. CASE Clients(sess[c].room) = {c}
      <3>1. /\ sess' = [sess EXCEPT ![c].edit = NoEdit]
            /\ pc' = [pc EXCEPT ![c] = "left"]
            /\ UNCHANGED snap
        BY <2>2 DEF Leave, RemoveClient
      <3>2. sess' \in [Conns -> Session]
        BY <3>1, EditType
      <3>3. PcOK' /\ HoldsOK'
        BY <3>1
      <3>4. QED
        BY <3>1, <3>2, <3>3 DEF Leave
    <2>3. QED
      BY <2>1, <2>2
  <1>12. \A c \in Conns : Abort(c) => TypeOK'
    <2> SUFFICES ASSUME NEW c \in Conns, Abort(c) PROVE TypeOK'
      OBVIOUS
    <2>1. StorageOK' /\ MemoryOK' /\ HistoryOK' /\ EnvOK'
      BY DEF Abort, Commit
    <2>2. CASE Clients(sess[c].room) # {c}
      BY <2>1, <2>2, FinishType DEF Abort, RemoveClient
    <2>3. CASE Clients(sess[c].room) = {c}
      <3>1. /\ sess' = [sess EXCEPT ![c].edit = NoEdit]
            /\ pc' = [pc EXCEPT ![c] = "left"]
            /\ UNCHANGED snap
        BY <2>3 DEF Abort, RemoveClient
      <3>2. sess' \in [Conns -> Session]
        BY <3>1, EditType
      <3>3. PcOK' /\ HoldsOK'
        BY <3>1
      <3>4. QED
        BY <2>1, <3>1, <3>2, <3>3
    <2>4. QED
      BY <2>2, <2>3
  <1>13. \A c \in Conns : ReadMark(c) => TypeOK'
    <2> SUFFICES ASSUME NEW c \in Conns, ReadMark(c) PROVE TypeOK'
      OBVIOUS
    <2>1. RegisteredIsUnsaved \in BOOLEAN
      BY DEF RegisteredIsUnsaved
    <2>2. sess' = [sess EXCEPT ![c].marked = RegisteredIsUnsaved]
      BY DEF ReadMark
    <2>3. sess \in [Conns -> Session]
      OBVIOUS
    <2>4. sess' \in [Conns -> Session]
      BY ONLY <2>1, <2>2, <2>3, MarkedType
    <2>5. QED
      BY <2>2, <2>4 DEF ReadMark
  <1>14. \A c \in Conns : HasPending(c) => TypeOK'
    BY <1>0 DEF HasPending, RowReads
  <1>15. \A c \in Conns : HasPendingFails(c) => TypeOK'
    BY FinishType DEF HasPendingFails, Fails
  <1>16. \A c \in Conns, u \in Updates : ApplyUpdate(c, u) => TypeOK'
    <2> SUFFICES ASSUME NEW c \in Conns, NEW u \in Updates, ApplyUpdate(c, u)
                 PROVE  TypeOK'
      OBVIOUS
    <2>1. MemoryOK'
      BY DocType DEF ApplyUpdate
    <2>2. sess' \in [Conns -> Session] /\ snap' \in [Procs -> Snapshot]
      BY EditType DEF ApplyUpdate
    <2>3. StorageOK' /\ HistoryOK' /\ EnvOK' /\ PcOK'
      BY DEF ApplyUpdate
    <2>4. HoldsOK'
      BY DEF ApplyUpdate
    <2>5. QED
      BY <2>1, <2>2, <2>3, <2>4
  <1>17. \A c \in Conns, u \in Updates : SyncStep2(c, u) => TypeOK'
    BY <1>0 DEF SyncStep2
  <1>18. \A p \in Procs : Sweep(p) => TypeOK'
    BY <1>0 DEF Sweep
  <1>19. \A p \in Procs : ForceCompact(p) => TypeOK'
    BY <1>0 DEF ForceCompact
  <1>20. \A p \in Procs : ProbeAnswers(p) => TypeOK'
    BY <1>0 DEF ProbeAnswers
  <1>21. \A p \in Procs : ProbeFails(p) => TypeOK'
    <2> SUFFICES ASSUME NEW p \in Procs, ProbeFails(p) PROVE TypeOK'
      OBVIOUS
    <2>1. EnvOK'
      <3>1. faults' \in 0..MaxFaults
        BY DEF ProbeFails
      <3>2. QED
        BY <3>1 DEF ProbeFails
    <2>2. QED
      BY <2>1 DEF ProbeFails
  <1>22. \A p \in Procs : StartRefused(p) => TypeOK'
    BY FinishType DEF StartRefused
  <1>23. \A p \in Procs : Start(p) => TypeOK'
    <2> SUFFICES ASSUME NEW p \in Procs, Start(p) PROVE TypeOK'
      OBVIOUS
    <2>1. registry \in Rooms
      BY DEF Start, Refuses
    <2>2. QED
      BY <2>1 DEF Start
  <1>24. \A p \in Procs : TakeMark(p) => TypeOK'
    <2> SUFFICES ASSUME NEW p \in Procs, TakeMark(p) PROVE TypeOK'
      OBVIOUS
    <2> DEFINE r == snap[p].target
    <2>1. r \in Rooms /\ room[r].unsaved \in BOOLEAN
      BY DEF TakeMark
    <2>2. MemoryOK'
      BY <2>1, MarkFieldType DEF TakeMark
    <2>3. sess' \in [Conns -> Session] /\ snap' \in [Procs -> Snapshot]
      BY <2>1, TakeType DEF TakeMark
    <2>4. StorageOK' /\ HistoryOK' /\ EnvOK' /\ PcOK'
      BY DEF TakeMark
    <2>5. HoldsOK'
      BY <2>1 DEF TakeMark
    <2>6. QED
      BY <2>2, <2>3, <2>4, <2>5
  <1>25. \A p \in Procs : Encode(p) => TypeOK'
    BY <1>0 DEF Encode
  <1>26. \A p \in Procs : ReadVersion(p) => TypeOK'
    BY <1>0 DEF ReadVersion, MetaReads
  <1>27. \A p \in Procs : PutBlob(p) => TypeOK'
    BY <1>0 DEF PutBlob, StoreBlob
  <1>28. \A p \in Procs : SetVersion(p) => TypeOK'
    BY <1>0 DEF SetVersion, Commit
  <1>29. \A p \in Procs : CompactFails(p) => TypeOK'
    <2> SUFFICES ASSUME NEW p \in Procs, CompactFails(p) PROVE TypeOK'
      OBVIOUS
    <2> DEFINE r == snap[p].target
    <2>1. r \in Rooms /\ room[r].unsaved \in BOOLEAN /\ snap[p].had \in BOOLEAN
      BY DEF CompactFails
    <2>2. MemoryOK'
      <3> DEFINE mark == room[r].unsaved \/ snap[p].had
      <3>1. mark \in BOOLEAN
        OBVIOUS
      <3>2. room' = [room EXCEPT ![r].unsaved = mark]
        BY DEF CompactFails, RestoreMark
      <3> HIDE DEF mark
      <3>3. QED
        <4>1. [room EXCEPT ![r].unsaved = mark] \in [Rooms -> RoomState]
          BY <2>1, <3>1, MarkFieldType
        <4>2. QED
          BY <3>2, <4>1 DEF CompactFails
    <2>3. StorageOK' /\ HistoryOK'
      BY DEF CompactFails, StoreBlob, Commit
    <2>4. EnvOK'
      BY DEF CompactFails, Fails
    <2>5. PcOK' /\ HoldsOK' /\ sess' \in [Conns -> Session] /\ snap' \in [Procs -> Snapshot]
      BY FinishType DEF CompactFails
    <2>6. QED
      BY <2>2, <2>3, <2>4, <2>5
  <1>30. \A p \in Procs : Prune(p) => TypeOK'
    <2> SUFFICES ASSUME NEW p \in Procs, Prune(p) PROVE TypeOK'
      OBVIOUS
    <2>1. StorageOK' /\ MemoryOK' /\ HistoryOK'
      BY DEF Prune, Commit, RowReads
    <2>2. EnvOK'
      BY DEF Prune, Fails
    <2>3. PcOK' /\ HoldsOK' /\ sess' \in [Conns -> Session] /\ snap' \in [Procs -> Snapshot]
      <3>1. CASE p \in Forced
        BY <3>1, FinishType DEF Prune
      <3>2. CASE p \notin Forced
        <4>1. /\ snap' = [snap EXCEPT ![p] = NoSnapshot]
              /\ pc' = [pc EXCEPT ![p] = "drop"]
              /\ UNCHANGED sess
          BY <3>2 DEF Prune
        <4>2. snap' \in [Procs -> Snapshot]
          BY <4>1 DEF NoSnapshot
        <4>3. PcOK' /\ HoldsOK'
          BY <4>1
        <4>4. QED
          BY <4>1, <4>2, <4>3
      <3>3. QED
        BY <3>1, <3>2
    <2>4. QED
      BY <2>1, <2>2, <2>3
  <1>31. \A p \in Procs : Drop(p) => TypeOK'
    BY FinishType DEF Drop, RemoveIfEmpty
  <1>32. Replicate => TypeOK'
    BY <1>0 DEF Replicate
  <1>33. Crash => TypeOK'
    BY <1>0 DEF Crash, FreshRoom, NoSession, SessionIn, NoSnapshot
  <1>34. CASE UNCHANGED vars
    BY <1>0, <1>34
  <1>q. QED
    BY <1>0, <1>1, <1>2, <1>3, <1>4, <1>5, <1>6, <1>7, <1>8, <1>9, <1>10, <1>11, <1>12, <1>13, <1>14, <1>15, <1>16, <1>17, <1>18, <1>19, <1>20, <1>21, <1>22, <1>23, <1>24, <1>25, <1>26, <1>27, <1>28, <1>29, <1>30, <1>31, <1>32, <1>33, <1>34
       DEF Next, Connect, Edit, Disconnect, Background, Compact

\* The initial state is of its type.
LEMMA InitType == Init => TypeOK
  BY SentinelAssumption, ProcessAssumption, BoundAssumption
  DEF Init, TypeOK, StorageOK, MemoryOK, PcOK, HistoryOK, EnvOK, HoldsOK, RoomState, Session, Snapshot,
      Versions, Procs, ConnPCs, SharedPCs, LoadPCs, OpenPCs, CompactPCs, FreshRoom, NoSession, SessionIn, NoSnapshot

\* TypeOK holds in every state: the locals of every task are of their types
\* and a task that compacts, or serves a connection, has a room to work on.
THEOREM TypeCorrect == Spec => []TypeOK
  <1>1. Init => TypeOK
    BY InitType
  <1>2. TypeOK /\ [Next]_vars => TypeOK'
    BY TypeStep
  <1>3. QED
    BY <1>1, <1>2, PTL DEF Spec
-----------------------------------------------------------------------------
(* Every overlap.  What holds with no discipline at all: compactions of    *)
(* one document beside each other, beside loads, joins and drops, and      *)
(* reads that are stale.                                                   *)

\* An update is in the hands of one handler at a time; its room holds it,
\* and it is stamped once, in the room as on the clock.
EditsInHand ==
    /\ \A c \in Conns : pc[c] \in {"applied", "saving"} =>
         /\ sess[c].edit \in sent
         /\ sess[c].edit \in room[sess[c].room].doc
         /\ pc[c] = "applied" => sess[c].edit \notin stamped
         /\ pc[c] = "saving" => sess[c].edit \in room[sess[c].room].stamped
    /\ \A c, d \in Conns :
         /\ {pc[c], pc[d]} \subseteq {"applied", "saving"}
         /\ sess[c].edit = sess[d].edit
         => c = d

\* A Room stamps what it holds, and what fails in it was stamped.
RoomsKnow ==
    /\ stamped \subseteq sent
    /\ \A r \in Rooms :
         /\ room[r].failed \subseteq room[r].stamped
         /\ room[r].stamped \subseteq room[r].doc
         /\ room[r].stamped \subseteq stamped

\* A cutoff is a moment of the past.
CutoffsPast == \A p \in Procs : snap[p].cutoff \subseteq stamped

\* Wherever a version is noted to be read or to become current, its object
\* is there: objects are put before pointers and never deleted.
ObjectsFirst ==
    /\ PointerNeverDangles
    /\ lag.version \in DOMAIN blob
    /\ \A p \in Procs : pc[p] = "set" => snap[p].ver \in DOMAIN blob
    /\ \A c \in Conns : pc[c] = "blob" => sess[c].key \in DOMAIN blob

OverlapInv ==
    /\ TypeOK
    /\ EditsInHand /\ RoomsKnow /\ CutoffsPast /\ ObjectsFirst
    /\ CutoffWithinSnapshot

\* A step in which task p does nothing that the rooms, the marks or the
\* compactions in flight notice.
Plain(p) ==
    /\ \A q \in Procs \ {p} : pc'[q] = pc[q] /\ snap'[q] = snap[q]
    /\ \A c \in Conns \ {p} : sess'[c] = sess[c]
    /\ room' = room /\ stamped' = stamped /\ sent' = sent /\ flushed' = flushed
    /\ pc[p] \notin {"encode", "meta", "put", "set"}
    /\ pc'[p] \notin {"applied", "saving", "encode", "meta", "put", "set", "prune"}
    /\ snap'[p].cutoff \subseteq stamped

\* What is left of the invariant once types and objects are seen to.
Tracking ==
    /\ EditsInHand /\ RoomsKnow /\ CutoffsPast
    /\ CutoffWithinSnapshot

LEMMA PlainKeeps ==
    ASSUME Tracking, NEW p \in Procs, Plain(p)
    PROVE  Tracking'
  <1> USE DEF Tracking, Plain
  <1>1. EditsInHand'
    <2>1. \A c \in Conns : pc'[c] \in {"applied", "saving"} =>
             c # p /\ pc'[c] = pc[c] /\ sess'[c] = sess[c]
      BY DEF Procs
    <2>2. QED
      BY <2>1 DEF EditsInHand
  <1>2. RoomsKnow'
    BY DEF RoomsKnow
  <1>3. CutoffsPast'
    BY DEF CutoffsPast
  <1>4. CutoffWithinSnapshot'
    <2>1. \A q \in Procs : pc'[q] \in {"meta", "put", "set", "prune"} =>
             q # p /\ pc'[q] = pc[q] /\ snap'[q] = snap[q]
      OBVIOUS
    <2>2. QED
      BY <2>1 DEF CutoffWithinSnapshot
  <1>6. QED
    BY <1>1, <1>2, <1>3, <1>4

\* Only p moves, and it returns or goes where the locals say.
LEMMA FinishMoves ==
    ASSUME TypeOK, NEW p \in Procs, Finish(p)
    PROVE  /\ \A q \in Procs \ {p} : pc'[q] = pc[q] /\ snap'[q] = snap[q]
           /\ \A c \in Conns \ {p} : sess'[c] = sess[c]
           /\ pc'[p] = "off" /\ snap'[p].cutoff = {}
  BY DEF TypeOK, PcOK, Finish, Goto, NoSnapshot

LEMMA GotoMoves ==
    ASSUME TypeOK, NEW p \in Procs, NEW l, Goto(p, l)
    PROVE  pc'[p] = l /\ \A q \in Procs \ {p} : pc'[q] = pc[q]
  BY DEF TypeOK, PcOK, Goto

\* The steps of a connection that are plain.
LEMMA ConnectPlain ==
    ASSUME TypeOK, CutoffsPast, NEW c \in Conns,
           \/ JoinResident(c) \/ LoadMeta(c) \/ LoadBlob(c) \/ LoadFails(c)
           \/ AddClient(c) \/ UpgradeRefused(c)
    PROVE  Plain(c)
  <1> USE DEF Plain, Procs, LoadPCs, OpenPCs, memoryVars, historyVars, taskVars
  <1>0. snap[c].cutoff \subseteq stamped
    BY DEF CutoffsPast
  <1>1. CASE JoinResident(c)
    BY <1>0, <1>1, GotoMoves DEF JoinResident, TypeOK
  <1>2. CASE LoadMeta(c)
    BY <1>0, <1>2, GotoMoves DEF LoadMeta, TypeOK
  <1>3. CASE LoadBlob(c)
    BY <1>0, <1>3, GotoMoves DEF LoadBlob, TypeOK
  <1>4. CASE LoadFails(c)
    BY <1>4, FinishMoves DEF LoadFails
  <1>5. CASE AddClient(c)
    BY <1>0, <1>5, GotoMoves DEF AddClient
  <1>6. CASE UpgradeRefused(c)
    BY <1>6, FinishMoves DEF UpgradeRefused
  <1>7. QED
    BY <1>1, <1>2, <1>3, <1>4, <1>5, <1>6

LEMMA RemoveClientMoves ==
    ASSUME TypeOK, CutoffsPast, NEW c \in Conns, RemoveClient(c)
    PROVE  /\ \A q \in Procs \ {c} : pc'[q] = pc[q] /\ snap'[q] = snap[q]
           /\ \A d \in Conns \ {c} : sess'[d] = sess[d]
           /\ pc'[c] \in {"left", "off"} /\ snap'[c].cutoff \subseteq stamped
  <1> USE DEF Procs
  <1>1. snap[c].cutoff \subseteq stamped
    BY DEF CutoffsPast
  <1>2. CASE Clients(sess[c].room) = {c}
    BY <1>1, <1>2, GotoMoves DEF RemoveClient, TypeOK
  <1>3. CASE Clients(sess[c].room) # {c}
    BY <1>3, FinishMoves DEF RemoveClient
  <1>4. QED
    BY <1>2, <1>3

LEMMA DisconnectPlain ==
    ASSUME TypeOK, CutoffsPast, NEW c \in Conns, AppendOk(c) \/ Disconnect(c)
    PROVE  Plain(c)
  <1> USE DEF Plain, Procs, LoadPCs, OpenPCs, memoryVars, historyVars, taskVars
  <1>0. snap[c].cutoff \subseteq stamped
    BY DEF CutoffsPast
  <1>1. CASE AppendOk(c)
    BY <1>0, <1>1, GotoMoves DEF AppendOk, TypeOK
  <1>2. CASE Leave(c)
    BY <1>2, RemoveClientMoves DEF Leave
  <1>3. CASE Abort(c)
    BY <1>3, RemoveClientMoves DEF Abort
  <1>4. CASE ReadMark(c)
    BY <1>0, <1>4, GotoMoves DEF ReadMark, TypeOK
  <1>5. CASE HasPending(c)
    <2>1. pc'[c] \in {"start", "drop"} /\ \A q \in Procs \ {c} : pc'[q] = pc[q]
      BY <1>5, GotoMoves DEF HasPending
    <2>2. QED
      BY <1>0, <1>5, <2>1 DEF HasPending
  <1>6. CASE HasPendingFails(c)
    BY <1>6, FinishMoves DEF HasPendingFails
  <1>7. QED
    BY <1>1, <1>2, <1>3, <1>4, <1>5, <1>6 DEF Disconnect

\* The steps of the tasks that are plain.
LEMMA TaskPlain ==
    ASSUME TypeOK, CutoffsPast, NEW p \in Procs,
           Background(p) \/ StartRefused(p) \/ Start(p) \/ Prune(p) \/ Drop(p)
    PROVE  Plain(p)
  <1> USE DEF Plain, memoryVars, historyVars, taskVars
  <1>0. snap[p].cutoff \subseteq stamped
    BY DEF CutoffsPast
  <1>1. CASE Sweep(p)
    BY <1>0, <1>1, GotoMoves DEF Sweep
  <1>2. CASE ForceCompact(p)
    BY <1>0, <1>2, GotoMoves DEF ForceCompact
  <1>3. CASE ProbeAnswers(p)
    <2>1. CASE RegisteredIsUnsaved
      BY <1>0, <1>3, <2>1, GotoMoves DEF ProbeAnswers
    <2>2. CASE ~RegisteredIsUnsaved
      BY <1>0, <1>3, <2>2 DEF ProbeAnswers
    <2>3. QED
      BY <2>1, <2>2
  <1>4. CASE ProbeFails(p)
    BY <1>0, <1>4 DEF ProbeFails
  <1>5. CASE StartRefused(p)
    BY <1>5, FinishMoves DEF StartRefused
  <1>6. CASE Start(p)
    <2>1. snap'[p].cutoff = snap[p].cutoff /\ \A q \in Procs \ {p} : snap'[q] = snap[q]
      BY <1>6 DEF Start, TypeOK, Snapshot
    <2>2. QED
      BY <1>0, <1>6, <2>1, GotoMoves DEF Start
  <1>7. CASE Prune(p)
    <2>1. pc[p] = "prune" /\ UNCHANGED <<memoryVars, historyVars>>
      BY <1>7 DEF Prune
    <2>2. CASE p \in Forced
      BY <1>7, <2>1, <2>2, FinishMoves DEF Prune
    <2>3. CASE p \notin Forced
      <3>1. snap' = [snap EXCEPT ![p] = NoSnapshot] /\ Goto(p, "drop") /\ UNCHANGED sess
        BY <1>7, <2>3 DEF Prune
      <3>2. snap'[p].cutoff = {} /\ \A q \in Procs \ {p} : snap'[q] = snap[q]
        BY <3>1 DEF TypeOK, NoSnapshot
      <3>3. QED
        BY <2>1, <3>1, <3>2, GotoMoves
    <2>4. QED
      BY <2>2, <2>3
  <1>8. CASE Drop(p)
    BY <1>8, FinishMoves DEF Drop
  <1>9. QED
    BY <1>1, <1>2, <1>3, <1>4, <1>5, <1>6, <1>7, <1>8 DEF Background
\* A cold load opens a Room that no task holds.
LEMMA LoadRowsTracks ==
    ASSUME TypeOK, Tracking, NEW c \in Conns, LoadRows(c)
    PROVE  Tracking'
  <1> USE DEF Procs
  <1>1. /\ pc[c] = "rows" /\ pc'[c] = "upgrading" /\ snap' = snap
        /\ \A q \in Procs \ {c} : pc'[q] = pc[q]
        /\ UNCHANGED historyVars
    BY GotoMoves DEF LoadRows
  <1>2. PICK rs \in RowReads, r \in Rooms :
          IF registry # NoRoom
          THEN /\ r = registry
               /\ UNCHANGED memoryVars
               /\ sess' = [sess EXCEPT ![c] = SessionIn(r)]
          ELSE /\ Unreachable(r)
               /\ registry' = r
               /\ room' = [room EXCEPT ![r] = FreshRoom(sess[c].doc \cup rs)]
               /\ sess' = [sess EXCEPT ![c] = SessionIn(r)]
    BY DEF LoadRows
  <1>3. \A d \in Conns \ {c} : sess'[d] = sess[d]
    BY <1>2 DEF TypeOK
  <1>4. CASE room' = room
    <2>1. Plain(c)
      BY <1>1, <1>3, <1>4 DEF Plain, historyVars, Tracking, CutoffsPast
    <2>2. QED
      BY <2>1, PlainKeeps
  <1>5. CASE room' # room
    <2>1. Unreachable(r) /\ room' = [room EXCEPT ![r] = FreshRoom(sess[c].doc \cup rs)]
      BY <1>2, <1>5 DEF memoryVars
    <2>2. /\ \A q \in Rooms \ {r} : room'[q] = room[q]
          /\ room'[r].failed = {} /\ room'[r].stamped = {}
      BY <2>1 DEF TypeOK, MemoryOK, FreshRoom
    <2>3. /\ \A d \in Conns : sess[d].room # r
          /\ \A p \in Procs : snap[p].target # r
      BY <2>1 DEF Unreachable
    <2>4. EditsInHand'
      <3>1. \A d \in Conns : pc'[d] \in {"applied", "saving"} =>
              /\ d # c /\ pc'[d] = pc[d] /\ sess'[d] = sess[d]
              /\ room'[sess'[d].room] = room[sess[d].room]
        BY <1>1, <1>3, <2>2, <2>3 DEF TypeOK, HoldsOK, OpenPCs
      <3>2. QED
        BY <1>1, <3>1 DEF EditsInHand, Tracking, historyVars
    <2>5. RoomsKnow' /\ CutoffsPast'
      BY <1>1, <2>2 DEF RoomsKnow, CutoffsPast, Tracking, historyVars
    <2>6. CutoffWithinSnapshot'
      <3>1. \A p \in Procs : pc'[p] \in {"meta", "put", "set", "prune"} =>
              pc'[p] = pc[p] /\ room'[snap[p].target] = room[snap[p].target]
        BY <1>1, <2>2, <2>3 DEF TypeOK, HoldsOK, CompactPCs
      <3>2. QED
        BY <1>1, <3>1 DEF CutoffWithinSnapshot, Tracking
    <2>8. QED
      BY <2>4, <2>5, <2>6 DEF Tracking
  <1>6. QED
    BY <1>4, <1>5

\* What a step of an edit does to the Room it is made in: the document, the
\* stamps and the failures only grow, and a mark stays.
Grows(r) ==
    /\ \A q \in Rooms \ {r} : room'[q] = room[q]
    /\ room[r].doc \subseteq room'[r].doc
    /\ room[r].unsaved => room'[r].unsaved
    /\ snap' = snap /\ flushed' = flushed

\* Merging an update into a Room adds to its document and to nothing else.
LEMMA MergeMoves ==
    ASSUME TypeOK, NEW r \in Rooms, NEW u \in Updates, snap' = snap, flushed' = flushed,
           room' = [room EXCEPT ![r].doc = @ \cup {u}]
    PROVE  /\ Grows(r)
           /\ \A q \in Rooms : /\ room'[q].stamped = room[q].stamped
                               /\ room'[q].failed = room[q].failed
                               /\ room[q].doc \subseteq room'[q].doc
           /\ u \in room'[r].doc
  BY DEF Grows, TypeOK, MemoryOK, RoomState

LEMMA SyncTracks ==
    ASSUME TypeOK, Tracking, NEW c \in Conns, NEW u \in Updates, SyncStep2(c, u)
    PROVE  Tracking'
  <1> DEFINE r == sess[c].room
  <1>1. /\ r \in Rooms /\ pc[c] = "open" /\ sent' = sent \cup {u}
        /\ room' = [room EXCEPT ![r].doc = @ \cup {u}]
        /\ snap' = snap /\ pc' = pc /\ sess' = sess /\ stamped' = stamped /\ flushed' = flushed
    BY DEF SyncStep2, TypeOK, HoldsOK, OpenPCs, taskVars
  <1> HIDE DEF r
  <1>2. /\ Grows(r)
        /\ \A q \in Rooms : /\ room'[q].stamped = room[q].stamped
                            /\ room'[q].failed = room[q].failed
                            /\ room[q].doc \subseteq room'[q].doc
    BY <1>1, MergeMoves
  <1>3. EditsInHand'
    <2>1. \A d \in Conns : pc[d] \in {"applied", "saving"} => sess[d].room \in Rooms
      BY DEF TypeOK, HoldsOK, OpenPCs
    <2>2. QED
      BY <1>1, <1>2, <2>1 DEF EditsInHand, Tracking
  <1>4. RoomsKnow' /\ CutoffsPast'
    BY <1>1, <1>2 DEF RoomsKnow, CutoffsPast, Tracking
  <1>5. CutoffWithinSnapshot'
    <2>1. \A p \in Procs : pc[p] \in {"meta", "put", "set", "prune"} => snap[p].target \in Rooms
      BY DEF TypeOK, HoldsOK, CompactPCs
    <2>2. QED
      BY <1>1, <1>2, <2>1 DEF CutoffWithinSnapshot, Tracking
  <1>7. QED
    BY <1>3, <1>4, <1>5 DEF Tracking

LEMMA ApplyTracks ==
    ASSUME TypeOK, Tracking, NEW c \in Conns, NEW u \in Updates, ApplyUpdate(c, u)
    PROVE  Tracking'
  <1> USE DEF Procs
  <1> DEFINE r == sess[c].room
  <1>1. /\ r \in Rooms /\ pc[c] = "open" /\ u \notin sent /\ sent' = sent \cup {u}
        /\ room' = [room EXCEPT ![r].doc = @ \cup {u}]
        /\ sess' = [sess EXCEPT ![c].edit = u]
        /\ snap' = snap /\ stamped' = stamped /\ flushed' = flushed
    BY DEF ApplyUpdate, TypeOK, HoldsOK, OpenPCs
  <1>2. pc'[c] = "applied" /\ \A q \in Procs \ {c} : pc'[q] = pc[q]
    BY GotoMoves DEF ApplyUpdate
  <1>3. /\ sess'[c].edit = u /\ sess'[c].room = r
        /\ \A d \in Conns \ {c} : sess'[d] = sess[d]
    BY <1>1 DEF TypeOK, Session
  <1> HIDE DEF r
  <1>4. /\ Grows(r) /\ u \in room'[r].doc
        /\ \A q \in Rooms : /\ room'[q].stamped = room[q].stamped
                            /\ room'[q].failed = room[q].failed
                            /\ room[q].doc \subseteq room'[q].doc
    BY <1>1, MergeMoves
  <1>5. EditsInHand'
    <2>1. \A d \in Conns : pc[d] \in {"applied", "saving"} => sess[d].room \in Rooms
      BY DEF TypeOK, HoldsOK, OpenPCs
    <2>2. stamped \subseteq sent
      BY DEF Tracking, RoomsKnow
    <2>3. ASSUME NEW d \in Conns, pc'[d] \in {"applied", "saving"}
          PROVE  /\ sess'[d].edit \in sent'
                 /\ sess'[d].edit \in room'[sess'[d].room].doc
                 /\ pc'[d] = "applied" => sess'[d].edit \notin stamped'
                 /\ pc'[d] = "saving" => sess'[d].edit \in room'[sess'[d].room].stamped
      <3>1. CASE d = c
        BY <1>1, <1>2, <1>3, <1>4, <2>2, <3>1
      <3>2. CASE d # c
        BY <1>1, <1>2, <1>3, <1>4, <2>1, <2>3, <3>2 DEF EditsInHand, Tracking
      <3>3. QED
        BY <3>1, <3>2
    <2>4. \A d \in Conns \ {c} : pc'[d] \in {"applied", "saving"} => sess'[d].edit # u
      BY <1>1, <1>2, <1>3 DEF EditsInHand, Tracking
    <2>5. QED
      BY <1>2, <1>3, <2>3, <2>4 DEF EditsInHand, Tracking
  <1>6. RoomsKnow' /\ CutoffsPast'
    BY <1>1, <1>4 DEF RoomsKnow, CutoffsPast, Tracking
  <1>7. CutoffWithinSnapshot'
    <2>1. \A p \in Procs : pc[p] \in {"meta", "put", "set", "prune"} => snap[p].target \in Rooms
      BY DEF TypeOK, HoldsOK, CompactPCs
    <2>2. \A p \in Procs : pc'[p] \in {"meta", "put", "set", "prune"} => pc'[p] = pc[p]
      BY <1>2
    <2>3. QED
      BY <1>1, <1>4, <2>1, <2>2 DEF CutoffWithinSnapshot, Tracking
  <1>9. QED
    BY <1>5, <1>6, <1>7 DEF Tracking
\* Marking a Room after a save that failed, field by field.
LEMMA MarkMoves ==
    ASSUME TypeOK, NEW c \in Conns, MarkFailed(c), sess[c].room \in Rooms
    PROVE  /\ \A q \in Rooms \ {sess[c].room} : room'[q] = room[q]
           /\ room'[sess[c].room].doc = room[sess[c].room].doc
           /\ room'[sess[c].room].unsaved = TRUE
           /\ room'[sess[c].room].failed = room[sess[c].room].failed \cup {sess[c].edit}
           /\ room'[sess[c].room].stamped = room[sess[c].room].stamped \cup {sess[c].edit}
  <1> DEFINE r == sess[c].room
             marked == [room[r] EXCEPT !.unsaved = TRUE,
                                       !.failed = @ \cup {sess[c].edit},
                                       !.stamped = @ \cup {sess[c].edit}]
  <1>1. room[r] \in RoomState
    BY DEF TypeOK, MemoryOK
  <1>2. room' = [room EXCEPT ![r] = marked]
    BY <1>1 DEF MarkFailed, TypeOK, MemoryOK, RoomState
  <1>3. /\ marked.doc = room[r].doc /\ marked.unsaved = TRUE
        /\ marked.failed = room[r].failed \cup {sess[c].edit}
        /\ marked.stamped = room[r].stamped \cup {sess[c].edit}
    BY <1>1 DEF RoomState
  <1> HIDE DEF marked, r
  <1>4. room'[r] = marked /\ \A q \in Rooms \ {r} : room'[q] = room[q]
    BY <1>2 DEF r, TypeOK, MemoryOK
  <1>5. QED
    BY <1>3, <1>4 DEF r

\* An edit that stays in hand, or is no longer in hand, is stamped: by the
\* clock and in its Room.  The compactions in flight do not notice, because
\* the edit was stamped by nobody before, or is in the Room's stamps already.
Stamping(c) ==
    LET r == sess[c].room
        u == sess[c].edit
    IN
    /\ pc[c] \in {"applied", "saving"}
    /\ \A q \in Rooms \ {r} : room'[q] = room[q]
    /\ room'[r].doc = room[r].doc
    /\ room'[r].stamped = room[r].stamped \cup {u}
    /\ \/ room'[r].unsaved = TRUE /\ room'[r].failed = room[r].failed \cup {u}
       \/ room'[r].unsaved = room[r].unsaved /\ room'[r].failed = room[r].failed
    /\ stamped' = stamped \cup {u}
    /\ \A q \in Procs \ {c} : pc'[q] = pc[q]
    /\ \A d \in Conns : d # c => sess'[d] = sess[d]
    /\ \/ pc'[c] = "saving" /\ sess'[c] = sess[c]
       \/ pc'[c] = "open"
    /\ snap' = snap /\ sent' = sent /\ flushed' = flushed

LEMMA StampingTracks ==
    ASSUME TypeOK, Tracking, NEW c \in Conns, Stamping(c)
    PROVE  Tracking'
  <1> USE DEF Procs
  <1> DEFINE r == sess[c].room
             u == sess[c].edit
  <1>1. /\ pc[c] \in {"applied", "saving"}
        /\ \A q \in Rooms \ {r} : room'[q] = room[q]
        /\ room'[r].doc = room[r].doc
        /\ room'[r].stamped = room[r].stamped \cup {u}
        /\ \/ room'[r].unsaved = TRUE /\ room'[r].failed = room[r].failed \cup {u}
           \/ room'[r].unsaved = room[r].unsaved /\ room'[r].failed = room[r].failed
        /\ stamped' = stamped \cup {u}
        /\ \A q \in Procs \ {c} : pc'[q] = pc[q]
        /\ \A d \in Conns : d # c => sess'[d] = sess[d]
        /\ (pc'[c] = "saving" /\ sess'[c] = sess[c]) \/ pc'[c] = "open"
        /\ snap' = snap /\ sent' = sent /\ flushed' = flushed
    BY DEF Stamping
  <1>2. r \in Rooms /\ u \in Updates /\ u \in sent /\ u \in room[r].doc
    BY <1>1 DEF TypeOK, HoldsOK, OpenPCs, Tracking, EditsInHand
  <1>3. u \notin stamped \/ u \in room[r].stamped
    BY <1>1 DEF Tracking, EditsInHand
  <1>e. \A d \in Conns \ {c} : pc[d] \in {"applied", "saving"} => sess[d].edit # u
    BY <1>1 DEF Tracking, EditsInHand
  <1> HIDE DEF r, u
  <1>4. EditsInHand'
    <2>1. \A d \in Conns : pc[d] \in {"applied", "saving"} => sess[d].room \in Rooms
      BY DEF TypeOK, HoldsOK, OpenPCs
    <2>2. ASSUME NEW d \in Conns, pc'[d] \in {"applied", "saving"}
          PROVE  /\ sess'[d] = sess[d] /\ pc[d] \in {"applied", "saving"}
                 /\ sess'[d].edit \in sent'
                 /\ sess'[d].edit \in room'[sess'[d].room].doc
                 /\ pc'[d] = "applied" => sess'[d].edit \notin stamped'
                 /\ pc'[d] = "saving" => sess'[d].edit \in room'[sess'[d].room].stamped
      <3>1. CASE d = c
        <4>1. pc'[c] = "saving" /\ sess'[c] = sess[c]
          BY <1>1, <2>2, <3>1
        <4>2. sess'[c].room = r /\ sess'[c].edit = u
          BY <4>1 DEF r, u
        <4>3. QED
          BY <1>1, <1>2, <3>1, <4>1, <4>2
      <3>2. CASE d # c
        <4>1. /\ sess'[d] = sess[d] /\ pc'[d] = pc[d] /\ sess[d].edit # u
              /\ sess[d].room \in Rooms
          BY <1>1, <1>e, <2>1, <2>2, <3>2
        <4>2. /\ sess[d].edit \in sent
              /\ sess[d].edit \in room[sess[d].room].doc
              /\ pc[d] = "applied" => sess[d].edit \notin stamped
              /\ pc[d] = "saving" => sess[d].edit \in room[sess[d].room].stamped
          BY <2>2, <4>1 DEF Tracking, EditsInHand
        <4>3. QED
          BY <1>1, <2>2, <4>1, <4>2
      <3>3. QED
        BY <3>1, <3>2
    <2>3. QED
      BY <2>2 DEF EditsInHand, Tracking
  <1>5. RoomsKnow' /\ CutoffsPast'
    BY <1>1, <1>2 DEF RoomsKnow, CutoffsPast, Tracking
  <1>6. CutoffWithinSnapshot'
    <2> SUFFICES ASSUME NEW p \in Procs, pc'[p] \in {"meta", "put", "set", "prune"}
                 PROVE  snap[p].cutoff \cap room'[snap[p].target].stamped \subseteq snap[p].bytes
      BY <1>1 DEF CutoffWithinSnapshot
    <2>1. pc'[p] = pc[p] /\ snap[p].target \in Rooms
      BY <1>1 DEF TypeOK, HoldsOK, CompactPCs
    <2>2. /\ snap[p].cutoff \cap room[snap[p].target].stamped \subseteq snap[p].bytes
          /\ snap[p].cutoff \subseteq stamped
      BY <2>1 DEF Tracking, CutoffWithinSnapshot, CutoffsPast
    <2>3. QED
      BY <1>1, <1>3, <2>1, <2>2
  <1>8. QED
    BY <1>4, <1>5, <1>6 DEF Tracking

LEMMA StampUpdateTracks ==
    ASSUME TypeOK, Tracking, NEW c \in Conns, StampUpdate(c)
    PROVE  Tracking'
  <1> USE DEF Procs
  <1>0. sess[c].room \in Rooms /\ pc[c] = "applied"
    BY DEF StampUpdate, TypeOK, HoldsOK, OpenPCs
  <1>1. CASE healthUp
    <2>1. /\ room' = [room EXCEPT ![sess[c].room].stamped = @ \cup {sess[c].edit}]
          /\ sess' = sess /\ Goto(c, "saving") /\ snap' = snap
          /\ stamped' = stamped \cup {sess[c].edit} /\ sent' = sent /\ flushed' = flushed
      BY <1>1 DEF StampUpdate
    <2>2. /\ \A q \in Rooms \ {sess[c].room} : room'[q] = room[q]
          /\ room'[sess[c].room].doc = room[sess[c].room].doc
          /\ room'[sess[c].room].stamped = room[sess[c].room].stamped \cup {sess[c].edit}
          /\ room'[sess[c].room].unsaved = room[sess[c].room].unsaved
          /\ room'[sess[c].room].failed = room[sess[c].room].failed
      BY <1>0, <2>1 DEF TypeOK, MemoryOK, RoomState
    <2>3. pc'[c] = "saving" /\ \A q \in Procs \ {c} : pc'[q] = pc[q]
      BY <2>1, GotoMoves
    <2>4. Stamping(c)
      BY <1>0, <2>1, <2>2, <2>3 DEF Stamping
    <2>5. QED
      BY <2>4, StampingTracks
  <1>2. CASE ~healthUp
    <2>1. /\ MarkFailed(c) /\ sess' = [sess EXCEPT ![c].edit = NoEdit]
          /\ Goto(c, "open") /\ snap' = snap
          /\ stamped' = stamped \cup {sess[c].edit} /\ sent' = sent /\ flushed' = flushed
      BY <1>2 DEF StampUpdate
    <2>2. \A d \in Conns : d # c => sess'[d] = sess[d]
      BY <2>1 DEF TypeOK
    <2>3. pc'[c] = "open" /\ \A q \in Procs \ {c} : pc'[q] = pc[q]
      BY <2>1, GotoMoves
    <2>4. Stamping(c)
      BY <1>0, <2>1, <2>2, <2>3, MarkMoves DEF Stamping
    <2>5. QED
      BY <2>4, StampingTracks
  <1>3. QED
    BY <1>1, <1>2

LEMMA AppendFailsTracks ==
    ASSUME TypeOK, Tracking, NEW c \in Conns, AppendFails(c)
    PROVE  Tracking'
  <1> USE DEF Procs
  <1>0. sess[c].room \in Rooms /\ pc[c] = "saving"
    BY DEF AppendFails, TypeOK, HoldsOK, OpenPCs
  <1>1. /\ MarkFailed(c) /\ sess' = [sess EXCEPT ![c].edit = NoEdit]
        /\ Goto(c, "open") /\ snap' = snap
        /\ stamped' = stamped /\ sent' = sent /\ flushed' = flushed
    BY DEF AppendFails, historyVars
  <1>2. sess[c].edit \in stamped
    BY <1>0 DEF Tracking, EditsInHand, RoomsKnow
  <1>3. \A d \in Conns : d # c => sess'[d] = sess[d]
    BY <1>1 DEF TypeOK
  <1>4. pc'[c] = "open" /\ \A q \in Procs \ {c} : pc'[q] = pc[q]
    BY <1>1, GotoMoves
  <1>5. stamped' = stamped \cup {sess[c].edit}
    BY <1>1, <1>2
  <1>6. Stamping(c)
    BY <1>0, <1>1, <1>3, <1>4, <1>5, MarkMoves DEF Stamping
  <1>7. QED
    BY <1>6, StampingTracks
\* The steps of compaction p: nobody else moves, and no document, stamp or
\* failure of a Room changes.
Compacts(p) ==
    /\ \A q \in Procs \ {p} : pc'[q] = pc[q] /\ snap'[q] = snap[q]
    /\ \A c \in Conns \ {p} : sess'[c] = sess[c]
    /\ pc[p] \in CompactPCs /\ pc'[p] \in CompactPCs \cup {"off"}
    /\ \A r \in Rooms : /\ room'[r].doc = room[r].doc
                        /\ room'[r].stamped = room[r].stamped
                        /\ room'[r].failed = room[r].failed
    /\ stamped' = stamped /\ sent' = sent

LEMMA CompactsKeeps ==
    ASSUME TypeOK, Tracking, NEW p \in Procs, Compacts(p),
           snap'[p].cutoff \subseteq stamped,
           pc'[p] \in {"meta", "put", "set", "prune"} =>
               snap'[p].cutoff \cap room'[snap'[p].target].stamped \subseteq snap'[p].bytes
    PROVE  EditsInHand' /\ RoomsKnow' /\ CutoffsPast' /\ CutoffWithinSnapshot'
  <1> USE DEF Procs
  <1>1. EditsInHand'
    <2>1. \A c \in Conns : pc'[c] \in {"applied", "saving"} =>
            c # p /\ pc'[c] = pc[c] /\ sess'[c] = sess[c] /\ sess[c].room \in Rooms
      BY DEF Compacts, CompactPCs, TypeOK, HoldsOK, OpenPCs
    <2>2. QED
      BY <2>1 DEF EditsInHand, Tracking, Compacts
  <1>2. RoomsKnow' /\ CutoffsPast'
    BY DEF RoomsKnow, CutoffsPast, Tracking, Compacts
  <1>3. CutoffWithinSnapshot'
    <2> SUFFICES ASSUME NEW q \in Procs, pc'[q] \in {"meta", "put", "set", "prune"}
                 PROVE  snap'[q].cutoff \cap room'[snap'[q].target].stamped \subseteq snap'[q].bytes
      BY DEF CutoffWithinSnapshot
    <2>1. CASE q = p
      BY <2>1
    <2>2. CASE q # p
      <3>1. pc'[q] = pc[q] /\ snap'[q] = snap[q] /\ snap[q].target \in Rooms
        BY <2>2 DEF Compacts, TypeOK, HoldsOK, CompactPCs
      <3>2. snap[q].cutoff \cap room[snap[q].target].stamped \subseteq snap[q].bytes
        BY <3>1 DEF Tracking, CutoffWithinSnapshot
      <3>3. QED
        BY <3>1, <3>2 DEF Compacts
    <2>3. QED
      BY <2>1, <2>2
  <1>4. QED
    BY <1>1, <1>2, <1>3

LEMMA TakeMarkTracks ==
    ASSUME TypeOK, Tracking, NEW p \in Procs, TakeMark(p)
    PROVE  Tracking'
  <1> USE DEF Procs
  <1> DEFINE r == snap[p].target
  <1>1. /\ pc[p] = "take" /\ r \in Rooms
        /\ snap' = [snap EXCEPT ![p].cutoff = stamped, ![p].had = room[r].unsaved]
        /\ room' = [room EXCEPT ![r].unsaved = FALSE]
        /\ sess' = sess /\ stamped' = stamped /\ sent' = sent /\ flushed' = flushed
    BY DEF TakeMark, TypeOK, HoldsOK, CompactPCs, historyVars
  <1>2. pc'[p] = "encode" /\ \A q \in Procs \ {p} : pc'[q] = pc[q]
    BY GotoMoves DEF TakeMark
  <1>3. /\ snap'[p].cutoff = stamped /\ snap'[p].had = room[r].unsaved
        /\ snap'[p].target = r
        /\ \A q \in Procs \ {p} : snap'[q] = snap[q]
    BY <1>1 DEF TypeOK, Snapshot
  <1>4. /\ \A q \in Rooms \ {r} : room'[q] = room[q]
        /\ \A q \in Rooms : /\ room'[q].doc = room[q].doc
                            /\ room'[q].stamped = room[q].stamped
                            /\ room'[q].failed = room[q].failed
    BY <1>1 DEF TypeOK, MemoryOK, RoomState
  <1>5. Compacts(p)
    BY <1>1, <1>2, <1>3, <1>4 DEF Compacts, CompactPCs
  <1>6. EditsInHand' /\ RoomsKnow' /\ CutoffsPast' /\ CutoffWithinSnapshot'
    BY <1>2, <1>3, <1>5, CompactsKeeps
  <1>8. QED
    BY <1>6 DEF Tracking

LEMMA EncodeTracks ==
    ASSUME TypeOK, Tracking, NEW p \in Procs, Encode(p)
    PROVE  Tracking'
  <1> USE DEF Procs
  <1> DEFINE r == snap[p].target
  <1>1. /\ pc[p] = "encode" /\ r \in Rooms
        /\ snap' = [snap EXCEPT ![p].bytes = room[r].doc]
        /\ room' = room /\ sess' = sess
        /\ stamped' = stamped /\ sent' = sent /\ flushed' = flushed
    BY DEF Encode, TypeOK, HoldsOK, CompactPCs, historyVars, memoryVars
  <1>2. pc'[p] = "meta" /\ \A q \in Procs \ {p} : pc'[q] = pc[q]
    BY GotoMoves DEF Encode
  <1>3. /\ snap'[p].cutoff = snap[p].cutoff /\ snap'[p].had = snap[p].had
        /\ snap'[p].target = r /\ snap'[p].bytes = room[r].doc
        /\ \A q \in Procs \ {p} : snap'[q] = snap[q]
    BY <1>1 DEF TypeOK, Snapshot
  <1>4. Compacts(p)
    BY <1>1, <1>2, <1>3 DEF Compacts, CompactPCs
  <1>5. room[r].stamped \subseteq room[r].doc /\ snap[p].cutoff \subseteq stamped
    BY <1>1 DEF Tracking, RoomsKnow, CutoffsPast
  <1>6. EditsInHand' /\ RoomsKnow' /\ CutoffsPast' /\ CutoffWithinSnapshot'
    <2>1. snap'[p].cutoff \cap room'[snap'[p].target].stamped \subseteq snap'[p].bytes
      BY <1>1, <1>3, <1>5
    <2>2. QED
      BY <1>3, <1>4, <1>5, <2>1, CompactsKeeps
  <1>8. QED
    BY <1>6 DEF Tracking

\* The version is read, then the object put: cutoff, mark and bytes stay.
LEMMA PutTracks ==
    ASSUME TypeOK, Tracking, NEW p \in Procs, ReadVersion(p) \/ PutBlob(p)
    PROVE  Tracking'
  <1> USE DEF Procs
  <1>1. /\ pc[p] \in {"meta", "put"} /\ pc'[p] \in {"put", "set"}
        /\ \A q \in Procs \ {p} : pc'[q] = pc[q]
        /\ room' = room /\ sess' = sess
        /\ stamped' = stamped /\ sent' = sent /\ flushed' = flushed
    BY GotoMoves DEF ReadVersion, PutBlob, historyVars, memoryVars
  <1>2. /\ snap'[p].cutoff = snap[p].cutoff /\ snap'[p].had = snap[p].had
        /\ snap'[p].target = snap[p].target /\ snap'[p].bytes = snap[p].bytes
        /\ \A q \in Procs \ {p} : snap'[q] = snap[q]
    <2>1. CASE ReadVersion(p)
      <3>1. PICK v \in MetaReads : snap' = [snap EXCEPT ![p].ver = v + 1]
        BY <2>1 DEF ReadVersion
      <3>2. QED
        BY <3>1 DEF TypeOK, Snapshot
    <2>2. CASE PutBlob(p)
      BY <2>2 DEF PutBlob
    <2>3. QED
      BY <2>1, <2>2
  <1>3. Compacts(p)
    BY <1>1, <1>2 DEF Compacts, CompactPCs
  <1>4. EditsInHand' /\ RoomsKnow' /\ CutoffsPast' /\ CutoffWithinSnapshot'
    <2>1. /\ snap[p].cutoff \subseteq stamped
          /\ snap[p].cutoff \cap room[snap[p].target].stamped \subseteq snap[p].bytes
      BY <1>1 DEF Tracking, CutoffsPast, CutoffWithinSnapshot
    <2>2. QED
      BY <1>1, <1>2, <1>3, <2>1, CompactsKeeps
  <1>6. QED
    BY <1>4 DEF Tracking

LEMMA SetVersionTracks ==
    ASSUME TypeOK, Tracking, NEW p \in Procs, SetVersion(p)
    PROVE  Tracking'
  <1> USE DEF Procs
  <1>1. /\ pc[p] = "set" /\ pc'[p] = "prune"
        /\ \A q \in Procs \ {p} : pc'[q] = pc[q]
        /\ room' = room /\ sess' = sess /\ snap' = snap
        /\ stamped' = stamped /\ sent' = sent /\ flushed' = flushed \cup snap[p].bytes
    BY GotoMoves DEF SetVersion, memoryVars
  <1>2. Compacts(p)
    BY <1>1 DEF Compacts, CompactPCs
  <1>3. EditsInHand' /\ RoomsKnow' /\ CutoffsPast' /\ CutoffWithinSnapshot'
    <2>1. /\ snap[p].cutoff \subseteq stamped
          /\ snap[p].cutoff \cap room[snap[p].target].stamped \subseteq snap[p].bytes
      BY <1>1 DEF Tracking, CutoffsPast, CutoffWithinSnapshot
    <2>2. QED
      BY <1>1, <1>2, <2>1, CompactsKeeps
  <1>5. QED
    BY <1>3 DEF Tracking

\* The mark goes back on the Room the compaction has been holding, even if
\* the registry has another by now.
LEMMA CompactFailsTracks ==
    ASSUME TypeOK, Tracking, NEW p \in Procs, CompactFails(p)
    PROVE  Tracking'
  <1> USE DEF Procs
  <1> DEFINE r == snap[p].target
             mark == room[r].unsaved \/ snap[p].had
  <1>1. /\ pc[p] \in {"meta", "put", "set"} /\ r \in Rooms
        /\ stamped' = stamped /\ sent' = sent /\ flushed \subseteq flushed'
    BY DEF CompactFails, TypeOK, HoldsOK, CompactPCs
  <1>2. /\ \A q \in Procs \ {p} : pc'[q] = pc[q] /\ snap'[q] = snap[q]
        /\ \A c \in Conns \ {p} : sess'[c] = sess[c]
        /\ pc'[p] = "off" /\ snap'[p].cutoff = {}
    BY FinishMoves DEF CompactFails
  <1>3. room' = [room EXCEPT ![r].unsaved = mark]
    BY DEF CompactFails, RestoreMark
  <1>4. /\ room'[r].unsaved = mark
        /\ \A q \in Rooms \ {r} : room'[q] = room[q]
        /\ \A q \in Rooms : /\ room'[q].doc = room[q].doc
                            /\ room'[q].stamped = room[q].stamped
                            /\ room'[q].failed = room[q].failed
    <2> HIDE DEF mark
    <2>1. QED
      BY <1>1, <1>3 DEF TypeOK, MemoryOK, RoomState
  <1>5. Compacts(p)
    BY <1>1, <1>2, <1>4 DEF Compacts, CompactPCs
  <1>6. EditsInHand' /\ RoomsKnow' /\ CutoffsPast' /\ CutoffWithinSnapshot'
    <2>1. snap'[p].cutoff \subseteq stamped
      BY <1>2
    <2>2. QED
      BY <1>2, <1>5, <2>1, CompactsKeeps
  <1>8. QED
    BY <1>6 DEF Tracking

LEMMA CrashTracks ==
    ASSUME Tracking, Crash
    PROVE  Tracking'
  <1>1. /\ \A r \in Rooms : room'[r] = FreshRoom({})
        /\ \A p \in Procs : pc'[p] = "off" /\ snap'[p] = NoSnapshot
        /\ stamped' = stamped /\ sent' = sent
    BY DEF Crash, historyVars
  <1>2. EditsInHand'
    BY <1>1 DEF EditsInHand, Procs
  <1>3. RoomsKnow' /\ CutoffsPast'
    BY <1>1 DEF RoomsKnow, CutoffsPast, Tracking, FreshRoom, NoSnapshot
  <1>4. CutoffWithinSnapshot'
    BY <1>1 DEF CutoffWithinSnapshot
  <1>5. QED
    BY <1>2, <1>3, <1>4 DEF Tracking

LEMMA TrackingStep ==
    ASSUME TypeOK, Tracking, [Next]_vars
    PROVE  Tracking'
  <1>1. ASSUME NEW c \in Conns, Connect(c) PROVE Tracking'
    BY <1>1, ConnectPlain, PlainKeeps, LoadRowsTracks DEF Connect, Tracking, Procs
  <1>2. ASSUME NEW c \in Conns, Edit(c) PROVE Tracking'
    <2>1. CASE AppendOk(c)
      BY <2>1, DisconnectPlain, PlainKeeps DEF Tracking, Procs
    <2>2. QED
      BY <1>2, <2>1, StampUpdateTracks, AppendFailsTracks, ApplyTracks, SyncTracks DEF Edit
  <1>3. ASSUME NEW c \in Conns, Disconnect(c) PROVE Tracking'
    BY <1>3, DisconnectPlain, PlainKeeps DEF Tracking, Procs
  <1>4. ASSUME NEW p \in Procs, Background(p) PROVE Tracking'
    BY <1>4, TaskPlain, PlainKeeps DEF Tracking
  <1>5. ASSUME NEW p \in Procs, Compact(p) PROVE Tracking'
    <2>1. CASE StartRefused(p) \/ Start(p) \/ Prune(p) \/ Drop(p)
      BY <2>1, TaskPlain, PlainKeeps DEF Tracking
    <2>2. QED
      BY <1>5, <2>1, TakeMarkTracks, EncodeTracks, PutTracks, SetVersionTracks,
         CompactFailsTracks DEF Compact
  <1>6. CASE Replicate \/ UNCHANGED vars
    <2>1. UNCHANGED <<memoryVars, taskVars, historyVars>>
      BY <1>6 DEF Replicate, vars
    <2>2. QED
      BY <2>1 DEF Tracking, EditsInHand, RoomsKnow, CutoffsPast, CutoffWithinSnapshot,
                  memoryVars, taskVars, historyVars
  <1>7. CASE Crash
    BY <1>7, CrashTracks
  <1>8. QED
    BY <1>1, <1>2, <1>3, <1>4, <1>5, <1>6, <1>7 DEF Next
\* No object is deleted, and a pointer moves only to the version that a
\* compaction has put.
LEMMA StorageMoves ==
    ASSUME TypeOK, Next
    PROVE  /\ DOMAIN blob \subseteq DOMAIN blob'
           /\ \/ version' = version
              \/ \E p \in Procs : pc[p] = "set" /\ version' = snap[p].ver
           /\ lag'.version \in {lag.version, version'}
  <1> USE DEF storageVars
  <1>1. ASSUME NEW v, NEW rs, Commit(v, rs) PROVE version' = v /\ lag'.version \in {lag.version, v}
    BY <1>1 DEF Commit
  <1>2. ASSUME NEW v, NEW b, StoreBlob(v, b) PROVE DOMAIN blob \subseteq DOMAIN blob'
    BY <1>2 DEF StoreBlob
  <1>3. ASSUME NEW c \in Conns, Connect(c) PROVE UNCHANGED storageVars
    BY <1>3 DEF Connect, JoinResident, LoadMeta, LoadBlob, LoadRows, LoadFails, AddClient, UpgradeRefused
  <1>4. ASSUME NEW c \in Conns, Edit(c)
        PROVE  blob' = blob /\ version' = version /\ lag'.version \in {lag.version, version}
    BY <1>1, <1>4 DEF Edit, StampUpdate, AppendOk, AppendFails, ApplyUpdate, SyncStep2
  <1>5. ASSUME NEW c \in Conns, Disconnect(c)
        PROVE  blob' = blob /\ version' = version /\ lag'.version \in {lag.version, version}
    BY <1>1, <1>5 DEF Disconnect, Leave, Abort, ReadMark, HasPending, HasPendingFails
  <1>6. ASSUME NEW p \in Procs, Background(p) PROVE UNCHANGED storageVars
    BY <1>6 DEF Background, Sweep, ForceCompact, ProbeAnswers, ProbeFails
  <1>7. ASSUME NEW p \in Procs, Compact(p)
        PROVE  /\ DOMAIN blob \subseteq DOMAIN blob'
               /\ (version' = version) \/ (pc[p] = "set" /\ version' = snap[p].ver)
               /\ lag'.version \in {lag.version, version'}
    <2>1. CASE StartRefused(p) \/ Start(p) \/ TakeMark(p) \/ Encode(p) \/ ReadVersion(p) \/ Drop(p)
      BY <2>1 DEF StartRefused, Start, TakeMark, Encode, ReadVersion, Drop
    <2>2. CASE PutBlob(p)
      BY <1>2, <2>2 DEF PutBlob
    <2>3. CASE SetVersion(p)
      BY <1>1, <2>3 DEF SetVersion
    <2>4. CASE CompactFails(p)
      <3>1. CASE UNCHANGED storageVars
        BY <3>1
      <3>2. CASE StoreBlob(snap[p].ver, snap[p].bytes) /\ UNCHANGED <<version, rows, lag>>
        BY <1>2, <3>2
      <3>3. CASE pc[p] = "set" /\ Commit(snap[p].ver, rows) /\ UNCHANGED blob
        BY <1>1, <3>3
      <3>4. QED
        BY <2>4, <3>1, <3>2, <3>3 DEF CompactFails
    <2>5. CASE Prune(p)
      BY <1>1, <2>5 DEF Prune
    <2>6. QED
      BY <1>7, <2>1, <2>2, <2>3, <2>4, <2>5 DEF Compact
  <1>8. CASE Replicate
    BY <1>8 DEF Replicate
  <1>9. CASE Crash
    BY <1>9 DEF Crash
  <1>10. QED
    BY <1>3, <1>4, <1>5, <1>6, <1>7, <1>8, <1>9 DEF Next

\* Only task p moves.
Alone(p) ==
    /\ \A q \in Procs \ {p} : pc'[q] = pc[q] /\ snap'[q] = snap[q]
    /\ \A c \in Conns \ {p} : sess'[c] = sess[c]

LEMMA EditsAlone ==
    ASSUME TypeOK, NEW c \in Conns, Edit(c)
    PROVE  Alone(c) /\ pc'[c] \notin {"set", "blob"}
  <1> USE DEF Alone, Procs
  <1>1. CASE StampUpdate(c)
    <2>1. CASE healthUp
      BY <1>1, <2>1, GotoMoves DEF StampUpdate
    <2>2. CASE ~healthUp
      <3>1. Goto(c, "open") /\ sess' = [sess EXCEPT ![c].edit = NoEdit] /\ snap' = snap
        BY <1>1, <2>2 DEF StampUpdate
      <3>2. QED
        BY <3>1, GotoMoves DEF TypeOK
    <2>3. QED
      BY <2>1, <2>2
  <1>2. CASE AppendOk(c) \/ AppendFails(c)
    <2>1. Goto(c, "open") /\ sess' = [sess EXCEPT ![c].edit = NoEdit] /\ snap' = snap
      BY <1>2 DEF AppendOk, AppendFails
    <2>2. QED
      BY <2>1, GotoMoves DEF TypeOK
  <1>3. ASSUME NEW u \in Updates, ApplyUpdate(c, u)
        PROVE  Alone(c) /\ pc'[c] \notin {"set", "blob"}
    BY <1>3, GotoMoves DEF ApplyUpdate, TypeOK
  <1>4. ASSUME NEW u \in Updates, SyncStep2(c, u)
        PROVE  Alone(c) /\ pc'[c] \notin {"set", "blob"}
    BY <1>4 DEF SyncStep2, taskVars
  <1>5. QED
    BY <1>1, <1>2, <1>3, <1>4 DEF Edit

LEMMA CompactsAlone ==
    ASSUME TypeOK, NEW p \in Procs,
           \/ TakeMark(p) \/ Encode(p) \/ ReadVersion(p) \/ SetVersion(p) \/ CompactFails(p)
    PROVE  Alone(p) /\ pc'[p] \notin {"set", "blob"}
  <1> USE DEF Alone, Procs
  <1>1. CASE TakeMark(p)
    BY <1>1, GotoMoves DEF TakeMark, TypeOK
  <1>2. CASE Encode(p)
    BY <1>2, GotoMoves DEF Encode, TypeOK
  <1>3. CASE ReadVersion(p)
    <2>1. Goto(p, "put") /\ sess' = sess /\ \E v \in MetaReads : snap' = [snap EXCEPT ![p].ver = v + 1]
      BY <1>3 DEF ReadVersion
    <2>2. QED
      BY <2>1, GotoMoves DEF TypeOK
  <1>4. CASE SetVersion(p)
    BY <1>4, GotoMoves DEF SetVersion
  <1>5. CASE CompactFails(p)
    BY <1>5, FinishMoves DEF CompactFails
  <1>6. QED
    BY <1>1, <1>2, <1>3, <1>4, <1>5

\* Whoever comes to set a version has put its object, and whoever comes to
\* fetch an object has its version from the metadata, or from a replica.
LEMMA PointersRead ==
    ASSUME TypeOK, CutoffsPast, Next
    PROVE  /\ \A p \in Procs : pc'[p] = "set" =>
                \/ pc[p] = "set" /\ snap'[p] = snap[p]
                \/ snap'[p].ver \in DOMAIN blob'
           /\ \A c \in Conns : pc'[c] = "blob" =>
                \/ pc[c] = "blob" /\ sess'[c] = sess[c]
                \/ sess'[c].key \in {version, lag.version}
  <1> DEFINE Sets == \A p \in Procs : pc'[p] = "set" =>
                       \/ pc[p] = "set" /\ snap'[p] = snap[p]
                       \/ snap'[p].ver \in DOMAIN blob'
             Fetches == \A c \in Conns : pc'[c] = "blob" =>
                       \/ pc[c] = "blob" /\ sess'[c] = sess[c]
                       \/ sess'[c].key \in {version, lag.version}
  <1> USE DEF Procs
  <1>1. ASSUME NEW p \in Procs, Alone(p), pc'[p] \notin {"set", "blob"}
        PROVE  Sets /\ Fetches
    BY <1>1 DEF Alone
  <1>2. ASSUME NEW p \in Procs, Plain(p), pc'[p] # "blob"
        PROVE  Sets /\ Fetches
    BY <1>1, <1>2 DEF Plain, Alone
  <1>3. ASSUME NEW c \in Conns, LoadMeta(c) PROVE Sets /\ Fetches
    <2>1. pc'[c] = "blob" /\ (\A q \in Procs \ {c} : pc'[q] = pc[q]) /\ snap' = snap
      BY <1>3, GotoMoves DEF LoadMeta
    <2>2. PICK v \in MetaReads : sess' = [sess EXCEPT ![c].key = v]
      BY <1>3 DEF LoadMeta
    <2>3. sess'[c].key \in {version, lag.version} /\ \A d \in Conns \ {c} : sess'[d] = sess[d]
      BY <2>2 DEF MetaReads, TypeOK, Session
    <2>4. QED
      BY <2>1, <2>3
  <1>4. ASSUME NEW p \in Procs, PutBlob(p) PROVE Sets /\ Fetches
    <2>1. /\ pc'[p] = "set" /\ (\A q \in Procs \ {p} : pc'[q] = pc[q])
          /\ snap' = snap /\ sess' = sess
      BY <1>4, GotoMoves DEF PutBlob
    <2>2. snap[p].ver \in DOMAIN blob'
      BY <1>4 DEF PutBlob, StoreBlob
    <2>3. QED
      BY <2>1, <2>2
  <1>5. ASSUME NEW c \in Conns, LoadRows(c) PROVE Sets /\ Fetches
    <2>1. pc'[c] = "upgrading" /\ (\A q \in Procs \ {c} : pc'[q] = pc[q]) /\ snap' = snap
      BY <1>5, GotoMoves DEF LoadRows
    <2>2. \E r \in Rooms : sess' = [sess EXCEPT ![c] = SessionIn(r)]
      BY <1>5 DEF LoadRows
    <2>3. Alone(c)
      BY <2>1, <2>2 DEF Alone, TypeOK
    <2>4. QED
      BY <1>1, <2>1, <2>3
  <1>6. ASSUME NEW c \in Conns,
               JoinResident(c) \/ LoadBlob(c) \/ LoadFails(c) \/ AddClient(c) \/ UpgradeRefused(c)
        PROVE  Plain(c) /\ pc'[c] # "blob"
    <2>1. Plain(c)
      BY <1>6, ConnectPlain
    <2>2. pc'[c] # "blob"
      BY <1>6, GotoMoves, FinishMoves DEF JoinResident, LoadBlob, LoadFails, AddClient, UpgradeRefused
    <2>3. QED
      BY <2>1, <2>2
  <1>7. ASSUME NEW c \in Conns, Disconnect(c) PROVE Plain(c) /\ pc'[c] # "blob"
    <2>1. Plain(c)
      BY <1>7, DisconnectPlain
    <2>2. CASE Leave(c) \/ Abort(c)
      BY <2>1, <2>2, RemoveClientMoves DEF Leave, Abort
    <2>3. CASE ReadMark(c) \/ HasPendingFails(c)
      BY <2>1, <2>3, GotoMoves, FinishMoves DEF ReadMark, HasPendingFails
    <2>4. CASE HasPending(c)
      <3>1. Goto(c, "start") \/ Goto(c, "drop")
        BY <2>4 DEF HasPending
      <3>2. QED
        BY <2>1, <3>1, GotoMoves
    <2>5. QED
      BY <1>7, <2>2, <2>3, <2>4 DEF Disconnect
  <1>8. ASSUME NEW p \in Procs, Background(p) \/ StartRefused(p) \/ Start(p) \/ Prune(p) \/ Drop(p)
        PROVE  Plain(p) /\ pc'[p] # "blob"
    <2>1. Plain(p)
      BY <1>8, TaskPlain
    <2>2. CASE Background(p)
      <3>1. pc[p] = "off" /\ (Goto(p, "start") \/ pc' = pc)
        BY <2>2 DEF Background, Sweep, ForceCompact, ProbeAnswers, ProbeFails, taskVars
      <3>2. QED
        BY <2>1, <3>1, GotoMoves
    <2>3. CASE StartRefused(p) \/ Start(p) \/ Drop(p)
      BY <2>1, <2>3, GotoMoves, FinishMoves DEF StartRefused, Start, Drop
    <2>4. CASE Prune(p)
      <3>1. Finish(p) \/ Goto(p, "drop")
        BY <2>4 DEF Prune
      <3>2. QED
        BY <2>1, <3>1, GotoMoves, FinishMoves
    <2>5. QED
      BY <1>8, <2>2, <2>3, <2>4
  <1>9. CASE Replicate
    BY <1>9 DEF Replicate, taskVars
  <1>10. CASE Crash
    BY <1>10 DEF Crash
  <1> HIDE DEF Sets, Fetches
  <1>11. ASSUME NEW c \in Conns, Connect(c) PROVE Sets /\ Fetches
    BY <1>2, <1>3, <1>5, <1>6, <1>11 DEF Connect
  <1>12. ASSUME NEW c \in Conns, Edit(c) PROVE Sets /\ Fetches
    BY <1>1, <1>12, EditsAlone
  <1>13. ASSUME NEW c \in Conns, Disconnect(c) PROVE Sets /\ Fetches
    BY <1>2, <1>7, <1>13
  <1>14. ASSUME NEW p \in Procs, Compact(p) PROVE Sets /\ Fetches
    BY <1>1, <1>2, <1>4, <1>8, <1>14, CompactsAlone DEF Compact
  <1>15. ASSUME NEW p \in Procs, Background(p) PROVE Sets /\ Fetches
    BY <1>2, <1>8, <1>15
  <1>16. Sets /\ Fetches
    BY <1>9, <1>10, <1>11, <1>12, <1>13, <1>14, <1>15 DEF Next, Sets, Fetches
  <1>17. QED
    BY <1>16 DEF Sets, Fetches

LEMMA ObjectsStep ==
    ASSUME TypeOK, CutoffsPast, ObjectsFirst, [Next]_vars
    PROVE  ObjectsFirst'
  <1>1. CASE Next
    <2>1. /\ DOMAIN blob \subseteq DOMAIN blob'
          /\ version' \in DOMAIN blob' /\ lag'.version \in DOMAIN blob'
      BY <1>1, StorageMoves DEF ObjectsFirst, PointerNeverDangles
    <2>2. \A p \in Procs : pc'[p] = "set" => snap'[p].ver \in DOMAIN blob'
      BY <1>1, <2>1, PointersRead DEF ObjectsFirst
    <2>3. \A c \in Conns : pc'[c] = "blob" => sess'[c].key \in DOMAIN blob'
      BY <1>1, <2>1, PointersRead DEF ObjectsFirst, PointerNeverDangles
    <2>4. QED
      BY <2>1, <2>2, <2>3 DEF ObjectsFirst, PointerNeverDangles
  <1>2. CASE UNCHANGED vars
    BY <1>2 DEF vars, storageVars, taskVars, ObjectsFirst, PointerNeverDangles
  <1>3. QED
    BY <1>1, <1>2

LEMMA OverlapInitially == Init => OverlapInv
  <1> SUFFICES ASSUME Init PROVE OverlapInv
    OBVIOUS
  <1>1. TypeOK
    BY InitType
  <1>2. EditsInHand /\ CutoffsPast
    BY DEF Init, EditsInHand, CutoffsPast, NoSnapshot, Procs
  <1>3. RoomsKnow
    BY DEF Init, RoomsKnow, FreshRoom
  <1>4. ObjectsFirst
    BY DEF Init, ObjectsFirst, PointerNeverDangles, Procs
  <1>5. CutoffWithinSnapshot
    BY DEF Init, CutoffWithinSnapshot
  <1>6. QED
    BY <1>1, <1>2, <1>3, <1>4, <1>5 DEF OverlapInv

\* OverlapInv holds in every state, whatever overlaps.
THEOREM OverlapInvariance == Spec => []OverlapInv
  <1>1. Init => OverlapInv
    BY OverlapInitially
  <1>2. OverlapInv /\ [Next]_vars => OverlapInv'
    BY TypeStep, TrackingStep, ObjectsStep DEF OverlapInv, Tracking
  <1>3. QED
    BY <1>1, <1>2, PTL DEF Spec

\* What a compaction is about to prune of its own Room's edits is in the
\* bytes it writes (compaction.rs takes the cutoff before it encodes, ws.rs
\* stamps an update after the Room holds it), whatever runs beside it.
THEOREM CutoffIsSafe == Spec => []CutoffWithinSnapshot
  <1>1. OverlapInv => CutoffWithinSnapshot
    BY DEF OverlapInv
  <1>2. QED
    BY <1>1, OverlapInvariance, PTL

\* A step of task p that takes no mark away from the registered Room, nothing
\* that any Room holds, and nothing from the other tasks.
Carries(p) ==
    /\ \A q \in Procs \ {p} : pc'[q] = pc[q] /\ snap'[q] = snap[q]
    /\ \A r \in Rooms : /\ room[r].doc \subseteq room'[r].doc
                        /\ room[r].failed \subseteq room'[r].failed
                        /\ room[r].unsaved => room'[r].unsaved
    /\ flushed \subseteq flushed'
    /\ RegisteredIsUnsaved => registry' = registry

\* Then an edit is still tracked, if the mark that p holds stays good.
LEMMA CarriesOn ==
    ASSUME TypeOK, NEW p \in Procs, Carries(p), NEW u, Tracked(u),
           ASSUME NEW r \in Rooms, HoldsMark(p, r, u), u \in room[r].failed
           PROVE  \/ u \in flushed' \/ HoldsMark(p, r, u)'
                  \/ r = registry /\ registry' = registry /\ room'[r].unsaved
    PROVE  Tracked(u)'
  <1>1. CASE u \in flushed
    BY <1>1 DEF Carries, Tracked
  <1>2. CASE RegisteredIsUnsaved /\ u \in room[registry].failed
    BY <1>2 DEF Carries, Tracked, RegisteredIsUnsaved, TypeOK, MemoryOK
  <1>3. ASSUME NEW r \in Rooms, u \in room[r].failed, NEW q \in Procs, HoldsMark(q, r, u)
        PROVE  Tracked(u)'
    <2>1. u \in room'[r].failed
      BY <1>3 DEF Carries
    <2>2. CASE q # p
      <3>1. HoldsMark(q, r, u)'
        BY <1>3, <2>2 DEF Carries, HoldsMark
      <3>2. QED
        BY <2>1, <3>1 DEF Tracked
    <2>3. CASE q = p
      <3>1. \/ u \in flushed' \/ HoldsMark(p, r, u)'
            \/ r = registry /\ registry' = registry /\ room'[r].unsaved
        BY <1>3, <2>3
      <3>2. QED
        BY <2>1, <3>1, SentinelAssumption DEF Tracked, RegisteredIsUnsaved
    <2>4. QED
      BY <2>2, <2>3
  <1>4. QED
    BY <1>1, <1>2, <1>3 DEF Tracked

\* The registry keeps a marked Room: remove_if_empty passes it over.
LEMMA RegistryStays ==
    ASSUME Next, RegisteredIsUnsaved
    PROVE  registry' = registry \/ Crash
  <1> USE DEF memoryVars, RegisteredIsUnsaved
  <1>1. ASSUME NEW c \in Conns, Connect(c) PROVE registry' = registry
    BY <1>1 DEF Connect, JoinResident, LoadMeta, LoadBlob, LoadRows, LoadFails, AddClient, UpgradeRefused
  <1>2. ASSUME NEW c \in Conns, Edit(c) PROVE registry' = registry
    BY <1>2 DEF Edit, StampUpdate, AppendOk, AppendFails, ApplyUpdate, SyncStep2
  <1>3. ASSUME NEW c \in Conns, Disconnect(c) PROVE registry' = registry
    BY <1>3 DEF Disconnect, Leave, Abort, ReadMark, HasPending, HasPendingFails
  <1>4. ASSUME NEW p \in Procs, Background(p) PROVE registry' = registry
    BY <1>4 DEF Background, Sweep, ForceCompact, ProbeAnswers, ProbeFails
  <1>5. ASSUME NEW p \in Procs, Compact(p) PROVE registry' = registry
    BY <1>5 DEF Compact, StartRefused, Start, TakeMark, Encode, ReadVersion, PutBlob, SetVersion,
                CompactFails, Prune, Drop, RemoveIfEmpty, RemovableRoom
  <1>6. CASE Replicate
    BY <1>6 DEF Replicate
  <1>7. QED
    BY <1>1, <1>2, <1>3, <1>4, <1>5, <1>6 DEF Next

\* An edit's handler adds to its Room; a save that fails marks the Room in
\* the step in which the failure becomes known.
LEMMA EditsGrow ==
    ASSUME TypeOK, NEW c \in Conns, Edit(c)
    PROVE  /\ flushed' = flushed /\ registry' = registry
           /\ \A r \in Rooms : /\ room[r].doc \subseteq room'[r].doc
                               /\ room[r].failed \subseteq room'[r].failed
                               /\ room[r].unsaved => room'[r].unsaved
                               /\ room'[r].failed = room[r].failed \/ room'[r].unsaved
  <1> DEFINE r == sess[c].room
             Grown == \A q \in Rooms : /\ room[q].doc \subseteq room'[q].doc
                                       /\ room[q].failed \subseteq room'[q].failed
                                       /\ room[q].unsaved => room'[q].unsaved
                                       /\ room'[q].failed = room[q].failed \/ room'[q].unsaved
  <1>1. r \in Rooms
    BY DEF Edit, StampUpdate, AppendOk, AppendFails, ApplyUpdate, SyncStep2, TypeOK, HoldsOK, OpenPCs
  <1>2. flushed' = flushed /\ registry' = registry
    BY DEF Edit, StampUpdate, AppendOk, AppendFails, ApplyUpdate, SyncStep2, memoryVars, historyVars
  <1>3. CASE MarkFailed(c)
    <2>1. Grown
      BY <1>1, <1>3, MarkMoves
    <2>2. QED
      BY <1>2, <2>1
  <1>4. CASE room' = room
    BY <1>2, <1>4
  <1>5. ASSUME NEW u \in Updates, room' = [room EXCEPT ![r].doc = @ \cup {u}]
        PROVE  Grown
    BY <1>1, <1>5 DEF TypeOK, MemoryOK, RoomState
  <1>6. CASE room' = [room EXCEPT ![r].stamped = @ \cup {sess[c].edit}]
    <2>1. Grown
      BY <1>1, <1>6 DEF TypeOK, MemoryOK, RoomState
    <2>2. QED
      BY <1>2, <2>1
  <1> HIDE DEF Grown
  <1>7. \/ MarkFailed(c) \/ room' = room
        \/ \E u \in Updates : room' = [room EXCEPT ![r].doc = @ \cup {u}]
        \/ room' = [room EXCEPT ![r].stamped = @ \cup {sess[c].edit}]
    BY DEF Edit, StampUpdate, AppendOk, AppendFails, ApplyUpdate, SyncStep2, memoryVars
  <1>8. QED
    BY <1>2, <1>3, <1>4, <1>5, <1>6, <1>7 DEF Grown

\* A handler that holds no mark leaves every tracked edit tracked.
LEMMA PlainCarries ==
    ASSUME TypeOK, Next, ~Crash, NEW p \in Procs, Plain(p), NEW u, Tracked(u)
    PROVE  Tracked(u)'
  <1>1. Carries(p)
    BY RegistryStays DEF Carries, Plain
  <1>2. \A r \in Rooms : ~HoldsMark(p, r, u)
    BY DEF HoldsMark, Plain
  <1>3. QED
    BY <1>1, <1>2, CarriesOn

LEMMA EditsCarry ==
    ASSUME TypeOK, NEW c \in Conns, Edit(c), NEW u, Tracked(u)
    PROVE  Tracked(u)'
  <1>1. Carries(c)
    BY EditsGrow, EditsAlone DEF Carries, Alone, Procs
  <1>2. \A r \in Rooms : ~HoldsMark(c, r, u)
    BY DEF HoldsMark, Edit, StampUpdate, AppendOk, AppendFails, ApplyUpdate, SyncStep2
  <1>3. QED
    BY <1>1, <1>2, CarriesOn DEF Procs

\* A load opens a Room only when none is registered, one that no task holds.
LEMMA LoadCarries ==
    ASSUME TypeOK, NEW c \in Conns, LoadRows(c), NEW u, Tracked(u)
    PROVE  Tracked(u)'
  <1>1. /\ snap' = snap /\ flushed' = flushed /\ pc[c] = "rows"
        /\ \A q \in Procs \ {c} : pc'[q] = pc[q]
    BY GotoMoves DEF LoadRows, historyVars, Procs
  <1>2. \/ registry # NoRoom /\ registry' = registry /\ room' = room
        \/ /\ registry = NoRoom
           /\ \E r \in Rooms : Unreachable(r) /\ \A q \in Rooms \ {r} : room'[q] = room[q]
    BY DEF LoadRows, memoryVars, TypeOK, MemoryOK
  <1>3. \A q \in Rooms, p \in Procs : HoldsMark(p, q, u) => HoldsMark(p, q, u)' /\ room'[q] = room[q]
    BY <1>1, <1>2 DEF HoldsMark, Unreachable
  <1>4. QED
    BY <1>1, <1>2, <1>3 DEF Tracked, RegisteredIsUnsaved

\* A compaction that takes the mark has what the Room holds, hence the edits
\* that failed in it.
LEMMA TakeCarries ==
    ASSUME TypeOK, RoomsKnow, NEW p \in Procs, TakeMark(p), NEW u, Tracked(u)
    PROVE  Tracked(u)'
  <1> DEFINE r == snap[p].target
  <1>1. /\ pc[p] = "take" /\ r \in Rooms /\ registry' = registry /\ flushed' = flushed
        /\ snap' = [snap EXCEPT ![p].cutoff = stamped, ![p].had = room[r].unsaved]
        /\ room' = [room EXCEPT ![r].unsaved = FALSE]
    BY DEF TakeMark, TypeOK, HoldsOK, CompactPCs, historyVars
  <1>2. pc'[p] = "encode" /\ \A q \in Procs \ {p} : pc'[q] = pc[q] /\ snap'[q] = snap[q]
    BY <1>1, GotoMoves DEF TakeMark, TypeOK
  <1>3. snap'[p].had = room[r].unsaved /\ snap'[p].target = r
    BY <1>1 DEF TypeOK, Snapshot
  <1>4. /\ \A q \in Rooms \ {r} : room'[q] = room[q]
        /\ \A q \in Rooms : room'[q].doc = room[q].doc /\ room'[q].failed = room[q].failed
    BY <1>1 DEF TypeOK, MemoryOK, RoomState
  <1>5. CASE u \in flushed
    BY <1>1, <1>5 DEF Tracked
  <1>6. CASE RegisteredIsUnsaved /\ u \in room[registry].failed /\ registry # r
    BY <1>1, <1>4, <1>6 DEF Tracked, RegisteredIsUnsaved, TypeOK, MemoryOK
  <1>7. CASE RegisteredIsUnsaved /\ u \in room[registry].failed /\ registry = r
    <2>1. u \in room'[r].doc /\ snap'[p].had
      BY <1>1, <1>3, <1>4, <1>7 DEF RegisteredIsUnsaved, RoomsKnow
    <2>2. HoldsMark(p, r, u)'
      BY <1>2, <1>3, <2>1 DEF HoldsMark
    <2>3. u \in room'[r].failed
      BY <1>1, <1>4, <1>7
    <2>4. QED
      BY <1>1, <1>3, <2>2, <2>3 DEF Tracked
  <1>8. ASSUME NEW q \in Rooms, u \in room[q].failed, NEW x \in Procs, HoldsMark(x, q, u)
        PROVE  Tracked(u)'
    <2>1. HoldsMark(x, q, u)'
      BY <1>1, <1>2, <1>4, <1>8 DEF HoldsMark
    <2>2. QED
      BY <1>4, <1>8, <2>1 DEF Tracked
  <1>9. QED
    BY <1>5, <1>6, <1>7, <1>8 DEF Tracked

\* From then on the edit stays in the compaction's hands, until the snapshot
\* with it is current or the mark is back on the registered Room.
LEMMA CompactionCarries ==
    ASSUME TypeOK, NEW p \in Procs,
           Encode(p) \/ ReadVersion(p) \/ PutBlob(p) \/ SetVersion(p) \/ CompactFails(p),
           ~FailsUnregistered(p), NEW u, Tracked(u)
    PROVE  Tracked(u)'
  <1>1. CASE CompactFails(p)
    <2> DEFINE r == snap[p].target
               mark == room[r].unsaved \/ snap[p].had
    <2>1. /\ pc[p] \in {"meta", "put", "set"} /\ r \in Rooms /\ r = registry
          /\ registry' = registry /\ flushed \subseteq flushed'
      BY <1>1 DEF CompactFails, FailsUnregistered, TypeOK, HoldsOK, CompactPCs
    <2>2. \A q \in Procs \ {p} : pc'[q] = pc[q] /\ snap'[q] = snap[q]
      BY <1>1, FinishMoves DEF CompactFails
    <2>3. room' = [room EXCEPT ![r].unsaved = mark]
      BY <1>1 DEF CompactFails, RestoreMark
    <2>4. /\ room'[r].unsaved = mark
          /\ \A q \in Rooms \ {r} : room'[q] = room[q]
          /\ \A q \in Rooms : room'[q].doc = room[q].doc /\ room'[q].failed = room[q].failed
      <3> HIDE DEF mark
      <3>1. QED
        BY <2>1, <2>3 DEF TypeOK, MemoryOK, RoomState
    <2>5. Carries(p)
      BY <2>1, <2>2, <2>4 DEF Carries
    <2>6. \A q \in Rooms : HoldsMark(p, q, u) =>
             q = registry /\ registry' = registry /\ room'[q].unsaved
      BY <2>1, <2>4 DEF HoldsMark
    <2>7. QED
      BY <2>5, <2>6, CarriesOn
  <1>2. CASE Encode(p)
    <2>1. /\ pc[p] = "encode" /\ pc'[p] = "meta" /\ room' = room /\ registry' = registry
          /\ flushed' = flushed /\ \A q \in Procs \ {p} : pc'[q] = pc[q]
          /\ snap' = [snap EXCEPT ![p].bytes = room[snap[p].target].doc]
      BY <1>2, GotoMoves DEF Encode, memoryVars, historyVars
    <2>2. /\ snap'[p].target = snap[p].target /\ snap'[p].had = snap[p].had
          /\ snap'[p].bytes = room[snap[p].target].doc
          /\ \A q \in Procs \ {p} : snap'[q] = snap[q]
      BY <2>1 DEF TypeOK, Snapshot
    <2>3. Carries(p) /\ \A q \in Rooms : HoldsMark(p, q, u) => HoldsMark(p, q, u)'
      BY <2>1, <2>2 DEF Carries, HoldsMark
    <2>4. QED
      BY <2>3, CarriesOn
  <1>3. CASE ReadVersion(p) \/ PutBlob(p)
    <2>1. /\ pc[p] \in {"meta", "put"} /\ pc'[p] \in {"put", "set"}
          /\ room' = room /\ registry' = registry
          /\ flushed' = flushed /\ \A q \in Procs \ {p} : pc'[q] = pc[q]
      BY <1>3, GotoMoves DEF ReadVersion, PutBlob, memoryVars, historyVars
    <2>2. snap' = snap \/ \E v \in MetaReads : snap' = [snap EXCEPT ![p].ver = v + 1]
      BY <1>3 DEF ReadVersion, PutBlob
    <2>3. /\ snap'[p].target = snap[p].target /\ snap'[p].had = snap[p].had
          /\ snap'[p].bytes = snap[p].bytes
          /\ \A q \in Procs \ {p} : snap'[q] = snap[q]
      BY <2>2 DEF TypeOK, Snapshot
    <2>4. Carries(p) /\ \A q \in Rooms : HoldsMark(p, q, u) => HoldsMark(p, q, u)'
      BY <2>1, <2>3 DEF Carries, HoldsMark
    <2>5. QED
      BY <2>4, CarriesOn
  <1>4. CASE SetVersion(p)
    <2>1. /\ pc[p] = "set" /\ room' = room /\ registry' = registry /\ snap' = snap
          /\ flushed' = flushed \cup snap[p].bytes /\ \A q \in Procs \ {p} : pc'[q] = pc[q]
      BY <1>4, GotoMoves DEF SetVersion, memoryVars
    <2>2. Carries(p) /\ \A q \in Rooms : HoldsMark(p, q, u) => u \in flushed'
      BY <2>1 DEF Carries, HoldsMark
    <2>3. QED
      BY <2>2, CarriesOn
  <1>5. QED
    BY <1>1, <1>2, <1>3, <1>4

LEMMA TrackedOn ==
    ASSUME TypeOK, RoomsKnow, CutoffsPast, Next, NEW u, Tracked(u),
           ~Crash, \A p \in Procs : ~FailsUnregistered(p)
    PROVE  Tracked(u)'
  <1>1. ASSUME NEW c \in Conns, Connect(c) PROVE Tracked(u)'
    BY <1>1, ConnectPlain, PlainCarries, LoadCarries DEF Connect, Procs
  <1>2. ASSUME NEW c \in Conns, Edit(c) PROVE Tracked(u)'
    BY <1>2, EditsCarry
  <1>3. ASSUME NEW c \in Conns, Disconnect(c) PROVE Tracked(u)'
    BY <1>3, DisconnectPlain, PlainCarries DEF Procs
  <1>4. ASSUME NEW p \in Procs, Background(p) PROVE Tracked(u)'
    BY <1>4, TaskPlain, PlainCarries
  <1>5. ASSUME NEW p \in Procs, Compact(p) PROVE Tracked(u)'
    BY <1>5, TaskPlain, PlainCarries, TakeCarries, CompactionCarries DEF Compact
  <1>6. CASE Replicate
    BY <1>6 DEF Replicate, memoryVars, taskVars, historyVars, Tracked, HoldsMark, RegisteredIsUnsaved
  <1>7. QED
    BY <1>1, <1>2, <1>3, <1>4, <1>5, <1>6 DEF Next

\* What fails newly in the registered Room leaves it marked.
LEMMA FailuresMark ==
    ASSUME TypeOK, CutoffsPast, Next, registry # NoRoom,
           NEW u \in room'[registry].failed \ room[registry].failed
    PROVE  Tracked(u)'
  <1>0. registry \in Rooms
    BY DEF TypeOK, MemoryOK
  <1>1. ASSUME NEW c \in Conns, Edit(c) PROVE Tracked(u)'
    BY <1>0, <1>1, EditsGrow, SentinelAssumption DEF Tracked, RegisteredIsUnsaved
  <1>2. ASSUME NEW c \in Conns, Connect(c) PROVE FALSE
    BY <1>2 DEF Connect, JoinResident, LoadMeta, LoadBlob, LoadRows, LoadFails, AddClient,
                UpgradeRefused, memoryVars
  <1>3. ASSUME NEW c \in Conns, Disconnect(c) PROVE FALSE
    BY <1>3 DEF Disconnect, Leave, Abort, ReadMark, HasPending, HasPendingFails, memoryVars
  <1>4. ASSUME NEW p \in Procs, Background(p) PROVE FALSE
    BY <1>4 DEF Background, Sweep, ForceCompact, ProbeAnswers, ProbeFails, memoryVars
  <1>5. ASSUME NEW p \in Procs, Compact(p) PROVE FALSE
    <2>1. \/ room' = room
          \/ \E r \in Rooms, b \in BOOLEAN : room' = [room EXCEPT ![r].unsaved = b]
      <3>1. CASE TakeMark(p) \/ CompactFails(p)
        BY <3>1 DEF TakeMark, CompactFails, RestoreMark, TypeOK, MemoryOK, RoomState, HoldsOK, CompactPCs, Snapshot
      <3>2. QED
        BY <1>5, <3>1 DEF Compact, StartRefused, Start, Encode, ReadVersion, PutBlob, SetVersion,
                          Prune, Drop, memoryVars
    <2>2. room'[registry].failed = room[registry].failed
      BY <1>0, <2>1 DEF TypeOK, MemoryOK, RoomState
    <2>3. QED
      BY <2>2
  <1>6. CASE Replicate
    BY <1>6 DEF Replicate, memoryVars
  <1>7. CASE Crash
    BY <1>0, <1>7 DEF Crash, FreshRoom
  <1>8. QED
    BY <1>1, <1>2, <1>3, <1>4, <1>5, <1>6, <1>7 DEF Next

\* An edit whose save fails in the registered Room is tracked from that step
\* on, and stays so (room.rs mark_unsaved, take_unsaved, remove_if_empty;
\* compaction.rs restores the mark), whatever runs beside it, until a restart
\* or until a compaction fails whose Room was dropped while it held the mark.
THEOREM FailuresAreTracked == Spec => FailedEditsTracked
  <1> DEFINE Kept(u) ==
        /\ registry # NoRoom /\ u \in room'[registry].failed \ room[registry].failed
            => Tracked(u)'
        /\ Tracked(u) => \/ Tracked(u)'
                         \/ crashes' # crashes
                         \/ \E p \in Procs : FailsUnregistered(p)
  <1>1. ASSUME OverlapInv, Next, NEW u \in Updates PROVE Kept(u)
    <2>1. Crash => crashes' # crashes
      BY <1>1, BoundAssumption DEF OverlapInv, Crash, TypeOK, EnvOK
    <2>2. QED
      BY <1>1, <2>1, TrackedOn, FailuresMark DEF OverlapInv
  <1>2. ASSUME UNCHANGED vars, NEW u \in Updates PROVE Kept(u)
    BY <1>2 DEF vars, memoryVars, taskVars, historyVars, Tracked, HoldsMark, RegisteredIsUnsaved
  <1>3. OverlapInv /\ [Next]_vars => [\A u \in Updates : Kept(u)]_vars
    BY <1>1, <1>2
  <1>4. QED
    BY <1>3, OverlapInvariance, PTL DEF Spec, FailedEditsTracked

\* The snapshot that the metadata names is there, and so is the one that a
\* cold load is about to fetch, by a stale read even: save_snapshot puts the
\* object before the pointer, and nobody deletes one.
THEOREM SnapshotsAreThere == Spec => []ObjectsFirst
  <1>1. OverlapInv => ObjectsFirst
    BY DEF OverlapInv
  <1>2. QED
    BY <1>1, OverlapInvariance, PTL
=============================================================================
