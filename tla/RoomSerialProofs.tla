-------------------------- MODULE RoomSerialProofs --------------------------
(***************************************************************************)
(* What the serialized behaviours of RoomPersistence guarantee, for any    *)
(* number of connections, tasks, rooms and updates: SerialInv is           *)
(* inductive, and from it follow SavedDurable and StoredGrows.  The lemmas *)
(* ending in Kept say which steps leave one part of it alone; most actions *)
(* are instances of two of them (AsideKeeps, CompactingKeeps).             *)
(***************************************************************************)
EXTENDS RoomPersistenceProofs

\* What the discipline guarantees.
Durable == StoredInv /\ SessionInv /\ LoadInv /\ CompactInv

\* Only task p moves.
Moves(p) ==
    /\ \A q \in Procs \ {p} : pc'[q] = pc[q] /\ snap'[q] = snap[q]
    /\ \A c \in Conns \ {p} : sess'[c] = sess[c]

\* No document loses an update.
DocsGrow == \A r \in Rooms : room[r].doc \subseteq room'[r].doc

LEMMA StoredKept ==
    ASSUME TypeOK, StoredInv, DocsGrow, registry' \in {registry, NoRoom},
           version' = version, blob' = blob, rows' = rows, saved' = saved,
           stamped' \subseteq sent'
    PROVE  StoredInv'
  <1>1. Stored' = Stored
    BY DEF Stored
  <1>2. PointerNeverDangles' /\ SavedDurable'
    BY <1>1 DEF StoredInv, PointerNeverDangles, SavedDurable
  <1>3. RoomHoldsStored'
    <2> SUFFICES ASSUME registry' # NoRoom PROVE Stored \subseteq room'[registry].doc
      BY <1>1 DEF RoomHoldsStored
    <2>1. registry \in Rooms /\ registry # NoRoom
      BY DEF TypeOK, MemoryOK
    <2>2. QED
      BY <2>1 DEF StoredInv, RoomHoldsStored, DocsGrow
  <1>4. QED
    BY <1>2, <1>3 DEF StoredInv

\* Nobody's session changes but that of p, who has no update in hand.
LEMMA SessionKept ==
    ASSUME TypeOK, SessionInv, DocsGrow, NEW p \in Procs, registry' = registry,
           stamped' = stamped, sent \subseteq sent',
           \A c \in Conns \ {p} : pc'[c] = pc[c] /\ sess'[c] = sess[c],
           pc'[p] \notin {"applied", "saving"},
           p \in Conns /\ pc'[p] \in {"upgrading", "open"} => sess'[p].room = registry
    PROVE  SessionInv'
  <1>1. \A c \in Conns : pc'[c] \in {"applied", "saving"} =>
           c # p /\ pc'[c] = pc[c] /\ sess'[c] = sess[c]
    OBVIOUS
  <1>2. ASSUME NEW c \in Conns, pc'[c] \in {"upgrading"} \cup OpenPCs
        PROVE  sess'[c].room = registry'
    <2>1. CASE c = p
      BY <1>2, <2>1 DEF OpenPCs
    <2>2. CASE c # p
      BY <1>2, <2>2 DEF SessionInv
    <2>3. QED
      BY <2>1, <2>2
  <1>3. ASSUME NEW c \in Conns, pc'[c] \in {"applied", "saving"}
        PROVE  /\ sess'[c].edit \in sent'
               /\ sess'[c].edit \in room'[registry'].doc
               /\ pc'[c] = "applied" => sess'[c].edit \notin stamped'
    <2>1. pc'[c] = pc[c] /\ sess'[c] = sess[c]
      BY <1>1, <1>3
    <2>2. registry \in Rooms
      BY <1>3, <2>1 DEF SessionInv, TypeOK, HoldsOK, OpenPCs
    <2>3. /\ sess[c].edit \in sent /\ sess[c].edit \in room[registry].doc
          /\ pc[c] = "applied" => sess[c].edit \notin stamped
      BY <1>3, <2>1 DEF SessionInv
    <2>4. QED
      BY <2>1, <2>2, <2>3 DEF DocsGrow
  <1>4. ASSUME NEW c \in Conns, NEW d \in Conns,
               {pc'[c], pc'[d]} \subseteq {"applied", "saving"}, sess'[c].edit = sess'[d].edit
        PROVE  c = d
    <2>1. /\ pc'[c] = pc[c] /\ sess'[c] = sess[c]
          /\ pc'[d] = pc[d] /\ sess'[d] = sess[d]
      BY <1>1, <1>4
    <2>2. {pc[c], pc[d]} \subseteq {"applied", "saving"} /\ sess[c].edit = sess[d].edit
      BY <1>4, <2>1
    <2>3. QED
      BY <2>2 DEF SessionInv
  <1>5. QED
    BY <1>2, <1>3, <1>4 DEF SessionInv

LEMMA LoadKept ==
    ASSUME LoadInv, NEW p \in Procs, registry' \in {registry, NoRoom},
           version' = version, blob' = blob,
           \A c \in Conns \ {p} : pc'[c] = pc[c] /\ sess'[c] = sess[c],
           pc'[p] \notin LoadPCs
    PROVE  LoadInv'
  <1>1. \A c \in Conns : pc'[c] \in LoadPCs => pc'[c] = pc[c] /\ sess'[c] = sess[c]
    OBVIOUS
  <1>2. QED
    BY <1>1 DEF LoadInv

LEMMA NotCompacting ==
    ASSUME NEW q \in Procs, pc[q] \notin CompactPCs, snap[q].cutoff \subseteq stamped
    PROVE  CompactOK(q)
  BY DEF CompactOK, CompactPCs

\* A compaction goes on undisturbed: rows enter only from the hands of a
\* handler, who holds nothing that is below the cutoff and not in the bytes.
LEMMA CompactKept ==
    ASSUME TypeOK, SessionInv, DocsGrow, NEW q \in Procs, CompactOK(q),
           pc'[q] = pc[q], snap'[q] = snap[q],
           registry' \in {registry, NoRoom}, version' = version, blob' = blob,
           stamped \subseteq stamped',
           \A x \in rows' : x \in rows \/ \E c \in Conns : pc[c] = "saving" /\ x = sess[c].edit,
           \A c \in Conns : pc'[c] = "saving" =>
              \/ pc[c] = "saving" /\ sess'[c].edit = sess[c].edit
              \/ sess'[c].edit \notin stamped
    PROVE  CompactOK(q)'
  <1>1. snap[q].cutoff \subseteq stamped
    BY DEF CompactOK
  <1>2. CASE pc[q] \notin CompactPCs
    BY <1>1, <1>2 DEF CompactOK, CompactPCs
  <1>3. CASE pc[q] \in CompactPCs
    <2>1. snap[q].target \in Rooms /\ registry \in {NoRoom, snap[q].target}
      BY <1>3 DEF CompactOK, TypeOK, HoldsOK
    <2>2. \A c \in Conns : pc[c] = "saving" =>
             registry \in Rooms /\ sess[c].edit \in room[registry].doc
      BY DEF SessionInv, TypeOK, HoldsOK, OpenPCs
    <2>3. room[snap[q].target].doc \subseteq room'[snap[q].target].doc
      BY <2>1 DEF DocsGrow
    <2>4. pc[q] \in {"take", "encode"} => Stored' \subseteq room'[snap'[q].target].doc
      <3> SUFFICES ASSUME pc[q] \in {"take", "encode"}, NEW x \in Stored'
                   PROVE  x \in room[snap[q].target].doc
        BY <2>3
      <3>1. Stored \subseteq room[snap[q].target].doc
        BY DEF CompactOK
      <3>2. x \in Stored \/ \E c \in Conns : pc[c] = "saving" /\ x = sess[c].edit
        BY DEF Stored
      <3>3. QED
        BY <2>1, <2>2, <3>1, <3>2, SentinelAssumption
    <2>5. pc[q] \in {"meta", "put", "set", "prune"} =>
             /\ rows' \cap snap[q].cutoff \subseteq snap[q].bytes
             /\ \A c \in Conns : pc'[c] = "saving" /\ sess'[c].edit \in snap[q].cutoff
                                   => sess'[c].edit \in snap[q].bytes
      BY <1>1 DEF CompactOK
    <2>6. pc[q] \in {"meta", "put", "set"} =>
             /\ blob[version] \subseteq snap[q].bytes
             /\ snap[q].bytes \subseteq room'[snap[q].target].doc
      BY <2>3 DEF CompactOK
    <2>7. /\ pc[q] \in {"put", "set"} => snap[q].ver = version + 1
          /\ pc[q] = "set" => snap[q].ver \in DOMAIN blob /\ blob[snap[q].ver] = snap[q].bytes
          /\ pc[q] = "prune" => blob[version] = snap[q].bytes
      BY DEF CompactOK
    <2>8. registry' \in {NoRoom, snap'[q].target} /\ snap'[q].cutoff \subseteq stamped'
      BY <1>1, <2>1
    <2>9. QED
      BY <2>4, <2>5, <2>6, <2>7, <2>8 DEF CompactOK
  <1>4. QED
    BY <1>2, <1>3

\* A step of p that touches neither storage nor a room, at whose end p
\* neither loads nor compacts nor has an update in hand.
LEMMA AsideKeeps ==
    ASSUME SerialInv, NEW p \in Procs, Moves(p),
           version' = version, blob' = blob, rows' = rows, registry' = registry, room' = room,
           stamped' = stamped, sent' = sent, saved' = saved,
           pc'[p] \notin {"applied", "saving"} \cup LoadPCs \cup CompactPCs,
           snap'[p].cutoff \subseteq stamped,
           p \in Conns /\ pc'[p] \in {"upgrading", "open"} => sess'[p].room = registry
    PROVE  Durable'
  <1> USE DEF Moves
  <1>1. TypeOK /\ StoredInv /\ SessionInv /\ LoadInv /\ CompactInv /\ DocsGrow
    BY DEF SerialInv, DocsGrow
  <1>2. \A c \in Conns \ {p} : pc'[c] = pc[c] /\ sess'[c] = sess[c]
    BY DEF Procs
  <1>3. StoredInv'
    BY <1>1, StoredKept DEF StoredInv
  <1>4. SessionInv'
    BY <1>1, <1>2, SessionKept
  <1>5. LoadInv'
    BY <1>1, <1>2, LoadKept
  <1>6. CompactInv'
    <2> SUFFICES ASSUME NEW q \in Procs PROVE CompactOK(q)'
      BY DEF CompactInv
    <2>1. CASE q = p
      BY <2>1, NotCompacting DEF CompactOK, CompactPCs
    <2>2. CASE q # p
      <3>1. CompactOK(q)
        BY <1>1 DEF CompactInv
      <3>2. \A c \in Conns : pc'[c] = "saving" => pc[c] = "saving" /\ sess'[c].edit = sess[c].edit
        BY <1>2
      <3>3. QED
        BY <1>1, <2>2, <3>1, <3>2, CompactKept
    <2>3. QED
      BY <2>1, <2>2
  <1>7. QED
    BY <1>3, <1>4, <1>5, <1>6 DEF Durable

\* A step of the one compaction: the sessions, and everybody else's locals,
\* stay as they are; what is left to see is what storage holds and what the
\* compaction itself knows.
LEMMA CompactingKeeps ==
    ASSUME SerialInv, Serialized', NEW p \in Procs, Moves(p), registry' = registry,
           \A r \in Rooms : room'[r].doc = room[r].doc,
           stamped' = stamped, sent' = sent,
           pc[p] \in CompactPCs \/ pc'[p] \in CompactPCs,
           pc'[p] \in CompactPCs \cup {"off", "drop"},
           StoredInv', CompactOK(p)'
    PROVE  Durable'
  <1> USE DEF Moves
  <1>1. TypeOK /\ SessionInv /\ CompactInv /\ DocsGrow
    BY DEF SerialInv, DocsGrow
  <1>2. \A c \in Conns \ {p} : pc'[c] = pc[c] /\ sess'[c] = sess[c]
    BY DEF Procs
  <1>3. pc'[p] \notin {"applied", "saving", "upgrading", "open"} \cup LoadPCs
    BY DEF CompactPCs, LoadPCs
  <1>4. SessionInv'
    BY <1>1, <1>2, <1>3, SessionKept
  <1>5. (\A c \in Conns : pc'[c] \notin LoadPCs) /\ \A q \in Procs \ {p} : pc'[q] \notin CompactPCs
    <2>1. CASE pc[p] \in CompactPCs
      <3>1. /\ \A c \in Conns : pc[c] \notin LoadPCs
            /\ \A q \in Procs \ {p} : pc[q] \notin CompactPCs
        BY <2>1 DEF SerialInv, Serialized, LoadsAlone, OneCompaction, Compacting
      <3>2. QED
        BY <1>2, <1>3, <3>1
    <2>2. CASE pc'[p] \in CompactPCs
      BY <2>2 DEF Serialized, LoadsAlone, OneCompaction, Compacting
    <2>3. QED
      BY <2>1, <2>2
  <1>6. LoadInv'
    BY <1>5 DEF LoadInv
  <1>7. CompactInv'
    <2> SUFFICES ASSUME NEW q \in Procs, q # p PROVE CompactOK(q)'
      BY DEF CompactInv
    <2>1. snap[q].cutoff \subseteq stamped
      BY <1>1 DEF CompactInv, CompactOK
    <2>2. pc'[q] \notin CompactPCs /\ snap'[q].cutoff \subseteq stamped'
      BY <1>5, <2>1
    <2>3. QED
      BY <2>2 DEF CompactOK, CompactPCs
  <1>8. QED
    BY <1>4, <1>6, <1>7 DEF Durable

\* What SerialInv says of a task: its cutoff is in the past, and in Conns are
\* the tasks that have a session.
LEMMA CutoffsBehind ==
    ASSUME SerialInv
    PROVE  TypeOK /\ CutoffsPast
  BY DEF SerialInv, CompactInv, CompactOK, CutoffsPast

\* A task returns.
LEMMA FinishKeeps ==
    ASSUME SerialInv, NEW p \in Procs, Finish(p),
           UNCHANGED <<version, blob, rows>>, UNCHANGED memoryVars, UNCHANGED historyVars
    PROVE  Durable'
  <1>1. Moves(p) /\ pc'[p] = "off" /\ snap'[p].cutoff = {}
    BY CutoffsBehind, FinishMoves DEF Moves
  <1>2. QED
    BY <1>1, AsideKeeps DEF LoadPCs, CompactPCs, memoryVars, historyVars

\* A task goes on to l, and perhaps notes something in its session.
LEMMA GotoKeeps ==
    ASSUME SerialInv, NEW p \in Procs, NEW l, Goto(p, l), snap' = snap,
           \A c \in Conns \ {p} : sess'[c] = sess[c],
           UNCHANGED <<version, blob, rows>>, UNCHANGED memoryVars, UNCHANGED historyVars,
           l \notin {"applied", "saving"} \cup LoadPCs \cup CompactPCs,
           p \in Conns /\ l \in {"upgrading", "open"} => sess'[p].room = registry
    PROVE  Durable'
  <1>1. pc'[p] = l /\ Moves(p)
    BY CutoffsBehind, GotoMoves DEF Moves
  <1>2. snap'[p].cutoff \subseteq stamped
    BY CutoffsBehind DEF CutoffsPast
  <1>3. QED
    BY <1>1, <1>2, AsideKeeps DEF memoryVars, historyVars

\* Joining a resident room, and entering it.
LEMMA JoinKeeps ==
    ASSUME SerialInv, NEW c \in Conns, JoinResident(c) \/ AddClient(c)
    PROVE  Durable'
  <1> USE DEF Procs, LoadPCs, CompactPCs, storageVars
  <1>1. sess \in [Conns -> Session]
    BY DEF SerialInv, TypeOK
  <1>2. CASE JoinResident(c)
    <2>1. sess'[c].room = registry /\ \A d \in Conns \ {c} : sess'[d] = sess[d]
      BY <1>1, <1>2 DEF JoinResident, Session
    <2>2. QED
      BY <1>2, <2>1, GotoKeeps DEF JoinResident
  <1>3. CASE AddClient(c)
    <2>1. sess[c].room = registry
      BY <1>3 DEF AddClient, SerialInv, SessionInv
    <2>2. QED
      BY <1>3, <2>1, GotoKeeps DEF AddClient
  <1>4. QED
    BY <1>2, <1>3

\* The upgrade is refused, or the load fails.
LEMMA RefusedKeeps ==
    ASSUME SerialInv, NEW c \in Conns,
           LoadFails(c) \/ UpgradeRefused(c) \/ HasPendingFails(c)
    PROVE  Durable'
  BY FinishKeeps DEF LoadFails, UpgradeRefused, HasPendingFails, Procs, storageVars

\* The tail of handle_ws, up to the compaction it may start.
LEMMA LeaveKeeps ==
    ASSUME SerialInv, NEW c \in Conns, Leave(c)
    PROVE  Durable'
  <1> USE DEF Procs
  <1>1. RemoveClient(c) /\ UNCHANGED <<version, blob, rows>> /\ UNCHANGED memoryVars /\ UNCHANGED historyVars
    BY DEF Leave, storageVars
  <1>2. Moves(c) /\ pc'[c] \in {"left", "off"} /\ snap'[c].cutoff \subseteq stamped
    BY <1>1, CutoffsBehind, RemoveClientMoves DEF Moves
  <1>3. QED
    BY <1>1, <1>2, AsideKeeps DEF LoadPCs, CompactPCs, memoryVars, historyVars

LEMMA CheckKeeps ==
    ASSUME SerialInv, NEW c \in Conns, ReadMark(c) \/ HasPending(c)
    PROVE  Durable'
  <1> USE DEF Procs, LoadPCs, CompactPCs, storageVars
  <1>1. sess \in [Conns -> Session]
    BY DEF SerialInv, TypeOK
  <1>2. CASE ReadMark(c)
    <2>1. \A d \in Conns \ {c} : sess'[d] = sess[d]
      BY <1>1, <1>2 DEF ReadMark
    <2>2. QED
      BY <1>2, <2>1, GotoKeeps DEF ReadMark
  <1>3. CASE HasPending(c)
    <2>1. PICK l \in {"start", "drop"} : Goto(c, l)
      BY <1>3 DEF HasPending
    <2>2. QED
      BY <1>3, <2>1, GotoKeeps DEF HasPending
  <1>4. QED
    BY <1>2, <1>3

\* The other callers of compact_room_with_outcome, until it starts.
LEMMA BackgroundKeeps ==
    ASSUME SerialInv, NEW p \in Procs, Background(p)
    PROVE  Durable'
  <1> USE DEF LoadPCs, CompactPCs, storageVars
  <1>1. CASE Sweep(p) \/ ForceCompact(p)
    BY <1>1, GotoKeeps DEF Sweep, ForceCompact
  <1>2. CASE pc' = pc /\ UNCHANGED <<storageVars, memoryVars, sess, snap, historyVars>> /\ pc[p] = "off"
    <2>1. Moves(p) /\ pc'[p] = "off" /\ snap'[p].cutoff \subseteq stamped
      BY <1>2, CutoffsBehind DEF Moves, CutoffsPast
    <2>2. QED
      BY <1>2, <2>1, AsideKeeps DEF memoryVars, historyVars
  <1>3. CASE ProbeAnswers(p)
    <2>1. CASE RegisteredIsUnsaved
      BY <1>3, <2>1, GotoKeeps DEF ProbeAnswers
    <2>2. CASE ~RegisteredIsUnsaved
      BY <1>2, <1>3, <2>2 DEF ProbeAnswers
    <2>3. QED
      BY <2>1, <2>2
  <1>4. CASE ProbeFails(p)
    BY <1>2, <1>4 DEF ProbeFails, taskVars
  <1>5. QED
    BY <1>1, <1>3, <1>4 DEF Background

LEMMA StartRefusedKeeps ==
    ASSUME SerialInv, NEW p \in Procs, StartRefused(p)
    PROVE  Durable'
  BY FinishKeeps DEF StartRefused, storageVars

\* A step of a load in progress: storage and the rooms stay, and the loader
\* is the only one.
LEMMA LoadingKeeps ==
    ASSUME SerialInv, Serialized', NEW c \in Conns, Moves(c),
           UNCHANGED <<version, blob, rows>>, UNCHANGED memoryVars, UNCHANGED historyVars,
           registry = NoRoom, snap' = snap,
           pc'[c] \in LoadPCs, \A d \in Conns \ {c} : pc[d] \notin LoadPCs,
           pc'[c] = "blob" => sess'[c].key = version,
           pc'[c] = "rows" => sess'[c].doc = blob[version]
    PROVE  Durable'
  <1> USE DEF Moves, memoryVars, historyVars, Procs
  <1>1. TypeOK /\ StoredInv /\ SessionInv /\ CompactInv /\ DocsGrow
    BY DEF SerialInv, DocsGrow
  <1>2. StoredInv'
    BY <1>1, StoredKept DEF StoredInv
  <1>3. SessionInv'
    BY <1>1, SessionKept DEF LoadPCs
  <1>4. LoadInv'
    BY DEF LoadInv
  <1>5. CompactInv'
    <2> SUFFICES ASSUME NEW q \in Procs PROVE CompactOK(q)'
      BY DEF CompactInv
    <2>1. snap[q].cutoff \subseteq stamped
      BY <1>1 DEF CompactInv, CompactOK
    <2>2. pc'[q] \notin CompactPCs
      BY DEF Serialized, LoadsAlone, Compacting
    <2>3. QED
      BY <2>1, <2>2 DEF CompactOK, CompactPCs
  <1>6. QED
    BY <1>2, <1>3, <1>4, <1>5 DEF Durable

\* cold_load_room_doc: the metadata, then the snapshot it names.
LEMMA LoadMetaKeeps ==
    ASSUME SerialInv, Serialized', NEW c \in Conns, LoadMeta(c)
    PROVE  Durable'
  <1> USE DEF LoadPCs, Procs, storageVars
  <1>1. sess \in [Conns -> Session] /\ MetaReads = {version}
    BY DEF SerialInv, TypeOK, Serialized, FreshReads, MetaReads
  <1>2. /\ Goto(c, "blob") /\ sess' = [sess EXCEPT ![c].key = version]
        /\ UNCHANGED <<storageVars, memoryVars, snap, historyVars>>
    BY <1>1 DEF LoadMeta
  <1>3. sess'[c].key = version /\ \A d \in Conns \ {c} : sess'[d] = sess[d]
    BY <1>1, <1>2 DEF Session
  <1>4. pc'[c] = "blob" /\ Moves(c)
    BY <1>2, <1>3, CutoffsBehind, GotoMoves DEF Moves
  <1>5. QED
    BY <1>2, <1>3, <1>4, LoadingKeeps DEF LoadMeta

LEMMA LoadBlobKeeps ==
    ASSUME SerialInv, Serialized', NEW c \in Conns, LoadBlob(c)
    PROVE  Durable'
  <1> USE DEF LoadPCs, Procs, storageVars
  <1>1. sess \in [Conns -> Session] /\ LoadInv
    BY DEF SerialInv, TypeOK
  <1>2. /\ pc[c] = "blob" /\ Goto(c, "rows")
        /\ sess' = [sess EXCEPT ![c].doc = blob[sess[c].key]]
        /\ UNCHANGED <<storageVars, memoryVars, snap, historyVars>>
    BY DEF LoadBlob
  <1>3. registry = NoRoom /\ sess[c].key = version /\ \A d \in Conns \ {c} : pc[d] \notin LoadPCs
    BY <1>1, <1>2 DEF LoadInv
  <1>4. sess'[c].doc = blob[version] /\ \A d \in Conns \ {c} : sess'[d] = sess[d]
    BY <1>1, <1>2, <1>3 DEF Session
  <1>5. pc'[c] = "rows" /\ Moves(c)
    BY <1>2, <1>4, CutoffsBehind, GotoMoves DEF Moves
  <1>6. QED
    BY <1>2, <1>3, <1>4, <1>5, LoadingKeeps

\* The room that a load registers holds what storage holds: the snapshot
\* and the rows were current, and nobody compacts.
LEMMA LoadRowsKeeps ==
    ASSUME SerialInv, Serialized', NEW c \in Conns, LoadRows(c)
    PROVE  Durable'
  <1> USE DEF Procs
  <1>1. /\ TypeOK /\ StoredInv /\ SessionInv /\ LoadInv /\ CompactInv
        /\ RowReads = {rows}
    BY DEF SerialInv, Serialized, FreshReads, RowReads
  <1>2. /\ pc[c] = "rows" /\ Goto(c, "upgrading")
        /\ UNCHANGED <<storageVars, snap, historyVars>>
    BY DEF LoadRows
  <1>3. registry = NoRoom /\ sess[c].doc = blob[version] /\ \A d \in Conns \ {c} : pc[d] \notin LoadPCs
    BY <1>1, <1>2 DEF LoadInv, LoadPCs
  <1>4. PICK r \in Rooms :
          /\ registry' = r
          /\ room' = [room EXCEPT ![r] = FreshRoom(sess[c].doc \cup rows)]
          /\ sess' = [sess EXCEPT ![c] = SessionIn(r)]
    BY <1>1, <1>3 DEF LoadRows
  <1>5. registry' \in Rooms /\ room'[registry'].doc = Stored /\ sess'[c].room = registry'
    BY <1>1, <1>3, <1>4 DEF TypeOK, MemoryOK, FreshRoom, SessionIn, Stored
  <1>6. pc'[c] = "upgrading" /\ \A q \in Procs \ {c} : pc'[q] = pc[q]
    BY <1>1, <1>2, GotoMoves
  <1>7. Stored' = Stored
    BY <1>2 DEF Stored, storageVars
  <1>8. \A d \in Conns : d # c => pc[d] \notin {"upgrading"} \cup OpenPCs
    <2> SUFFICES ASSUME NEW d \in Conns, pc[d] \in {"upgrading"} \cup OpenPCs PROVE FALSE
      OBVIOUS
    <2>1. sess[d].room \in Rooms /\ sess[d].room = registry
      BY <1>1 DEF TypeOK, HoldsOK, SessionInv
    <2>2. QED
      BY <1>3, <2>1, SentinelAssumption
  <1>9. StoredInv'
    BY <1>1, <1>2, <1>5, <1>7
    DEF StoredInv, PointerNeverDangles, SavedDurable, RoomHoldsStored, storageVars, historyVars
  <1>10. SessionInv'
    BY <1>5, <1>6, <1>8 DEF SessionInv, OpenPCs
  <1>11. LoadInv'
    BY <1>3, <1>6 DEF LoadInv, LoadPCs
  <1>12. CompactInv'
    <2> SUFFICES ASSUME NEW q \in Procs PROVE CompactOK(q)'
      BY DEF CompactInv
    <2>1. snap'[q].cutoff \subseteq stamped'
      BY <1>1, <1>2 DEF CompactInv, CompactOK, historyVars
    <2>2. pc[q] \notin CompactPCs
      BY <1>2 DEF SerialInv, Serialized, LoadsAlone, Compacting, LoadPCs
    <2>3. pc'[q] \notin CompactPCs
      BY <1>6, <2>2 DEF CompactPCs
    <2>4. QED
      BY <2>1, <2>3 DEF CompactOK, CompactPCs
  <1>13. QED
    BY <1>9, <1>10, <1>11, <1>12 DEF Durable

\* An edit handler gives up its update, whether or not the row landed.  A row
\* that lands is below no cutoff whose bytes miss it.
LEMMA HandlerKeeps ==
    ASSUME SerialInv, NEW c \in Conns, Moves(c), DocsGrow,
           NEW landed \in SUBSET {sess[c].edit},
           pc[c] \in {"applied", "saving"}, pc[c] = "applied" => landed = {},
           version' = version, blob' = blob, rows' = rows \cup landed,
           registry' = registry, stamped \subseteq stamped', stamped' \subseteq stamped \cup {sess[c].edit},
           sent' = sent, saved' \subseteq saved \cup landed,
           pc'[c] \in {"open", "left", "off"}, snap'[c].cutoff \subseteq stamped,
           pc'[c] = "open" => sess'[c].room = sess[c].room
    PROVE  Durable'
  <1> USE DEF Moves, Procs
  <1>1. TypeOK /\ StoredInv /\ SessionInv /\ LoadInv /\ CompactInv
    BY DEF SerialInv
  <1>2. /\ sess[c].room = registry /\ registry \in Rooms
        /\ sess[c].edit \in sent /\ sess[c].edit \in room[registry].doc
    BY <1>1 DEF SessionInv, TypeOK, HoldsOK, OpenPCs
  <1>3. Stored' = Stored \cup landed
    BY DEF Stored
  <1>4. StoredInv'
    <2>1. stamped' \subseteq sent' /\ PointerNeverDangles'
      BY <1>1, <1>2 DEF StoredInv, PointerNeverDangles
    <2>2. SavedDurable'
      BY <1>1, <1>3 DEF StoredInv, SavedDurable
    <2>3. registry # NoRoom
      BY <1>2, SentinelAssumption
    <2>4. Stored' \subseteq room'[registry].doc
      BY <1>1, <1>2, <1>3, <2>3 DEF StoredInv, RoomHoldsStored, DocsGrow
    <2>5. QED
      BY <2>1, <2>2, <2>4 DEF StoredInv, RoomHoldsStored
  <1>5. SessionInv'
    <2>1. \A d \in Conns : pc'[d] \in {"applied", "saving"} =>
             d # c /\ pc'[d] = pc[d] /\ sess'[d] = sess[d] /\ sess[d].edit # sess[c].edit
      BY <1>1 DEF SessionInv
    <2>2. \A d \in Conns : pc'[d] \in {"upgrading"} \cup OpenPCs => sess'[d].room = registry'
      BY <1>1, <1>2 DEF SessionInv, OpenPCs
    <2>3. ASSUME NEW d \in Conns, pc'[d] \in {"applied", "saving"}
          PROVE  /\ sess'[d].edit \in sent' /\ sess'[d].edit \in room'[registry'].doc
                 /\ pc'[d] = "applied" => sess'[d].edit \notin stamped'
      BY <1>1, <1>2, <2>1, <2>3 DEF SessionInv, DocsGrow
    <2>4. ASSUME NEW d \in Conns, NEW e \in Conns,
                 {pc'[d], pc'[e]} \subseteq {"applied", "saving"}, sess'[d].edit = sess'[e].edit
          PROVE  d = e
      BY <1>1, <2>1, <2>4 DEF SessionInv
    <2>5. QED
      BY <2>2, <2>3, <2>4 DEF SessionInv
  <1>6. LoadInv'
    BY <1>1, LoadKept DEF LoadPCs
  <1>7. CompactInv'
    <2> SUFFICES ASSUME NEW q \in Procs PROVE CompactOK(q)'
      BY DEF CompactInv
    <2>1. CASE q = c
      BY <2>1 DEF CompactOK, CompactPCs
    <2>2. CASE q # c
      <3>1. CompactOK(q)
        BY <1>1 DEF CompactInv
      <3>2. \A d \in Conns : pc'[d] = "saving" => pc[d] = "saving" /\ sess'[d].edit = sess[d].edit
        OBVIOUS
      <3>3. \A x \in rows' : x \in rows \/ \E d \in Conns : pc[d] = "saving" /\ x = sess[d].edit
        OBVIOUS
      <3>4. QED
        BY <1>1, <2>2, <3>1, <3>2, <3>3, CompactKept
    <2>3. QED
      BY <2>1, <2>2
  <1>8. QED
    BY <1>4, <1>5, <1>6, <1>7 DEF Durable

\* A save that failed, or was not tried, changes no document.
LEMMA MarkKeepsDocs ==
    ASSUME SerialInv, NEW c \in Conns, pc[c] \in OpenPCs, MarkFailed(c)
    PROVE  DocsGrow
  <1>1. TypeOK /\ sess[c].room \in Rooms
    BY DEF SerialInv, TypeOK, HoldsOK
  <1>2. QED
    BY <1>1, MarkMoves DEF DocsGrow

LEMMA AppendKeeps ==
    ASSUME SerialInv, NEW c \in Conns, AppendOk(c) \/ AppendFails(c)
    PROVE  Durable'
  <1> USE DEF Procs, memoryVars, historyVars
  <1>1. sess \in [Conns -> Session] /\ snap[c].cutoff \subseteq stamped
    BY CutoffsBehind DEF TypeOK, CutoffsPast
  <1>2. /\ pc[c] = "saving" /\ Goto(c, "open") /\ sess' = [sess EXCEPT ![c].edit = NoEdit]
        /\ UNCHANGED <<blob, registry, snap, stamped, sent>>
    BY DEF AppendOk, AppendFails
  <1>3. sess'[c].room = sess[c].room /\ \A d \in Conns \ {c} : sess'[d] = sess[d]
    BY <1>1, <1>2 DEF Session
  <1>4. pc'[c] = "open" /\ Moves(c)
    BY <1>2, <1>3, CutoffsBehind, GotoMoves DEF Moves
  <1>5. PICK landed \in SUBSET {sess[c].edit} :
          version' = version /\ rows' = rows \cup landed /\ saved' \subseteq saved \cup landed
    <2>1. CASE AppendOk(c)
      BY <2>1 DEF AppendOk, Commit
    <2>2. CASE AppendFails(c)
      BY <2>2 DEF AppendFails, Commit
    <2>3. QED
      BY <2>1, <2>2
  <1>6. DocsGrow
    BY <1>2, MarkKeepsDocs DEF AppendOk, AppendFails, DocsGrow, OpenPCs
  <1>7. QED
    BY <1>1, <1>2, <1>3, <1>4, <1>5, <1>6, HandlerKeeps

LEMMA AbortKeeps ==
    ASSUME SerialInv, NEW c \in Conns, Abort(c)
    PROVE  Durable'
  <1> USE DEF Procs, memoryVars, historyVars
  <1>1. /\ pc[c] \in {"applied", "saving"} /\ RemoveClient(c)
        /\ UNCHANGED <<blob, registry, room, stamped, sent, saved>>
    BY DEF Abort
  <1>2. Moves(c) /\ pc'[c] \in {"left", "off"} /\ snap'[c].cutoff \subseteq stamped
    BY <1>1, CutoffsBehind, RemoveClientMoves DEF Moves
  <1>3. PICK landed \in SUBSET {sess[c].edit} :
          /\ pc[c] = "applied" => landed = {}
          /\ version' = version /\ rows' = rows \cup landed
    BY DEF Abort, Commit
  <1>4. DocsGrow
    BY <1>1 DEF DocsGrow
  <1>5. QED
    BY <1>1, <1>2, <1>3, <1>4, HandlerKeeps

\* With storage down the handler gives up at the stamp; otherwise it goes on
\* to save an update that no cutoff has seen.
LEMMA StampKeeps ==
    ASSUME SerialInv, NEW c \in Conns, StampUpdate(c)
    PROVE  Durable'
  <1> USE DEF Procs, storageVars
  <1>1. /\ TypeOK /\ StoredInv /\ SessionInv /\ LoadInv /\ CompactInv
        /\ sess \in [Conns -> Session] /\ snap[c].cutoff \subseteq stamped
    BY CutoffsBehind DEF SerialInv, TypeOK, CutoffsPast
  <1>2. /\ pc[c] = "applied" /\ stamped' = stamped \cup {sess[c].edit}
        /\ UNCHANGED <<version, blob, rows, registry, snap, sent, saved>>
    BY DEF StampUpdate
  <1>3. CASE ~healthUp
    <2>1. MarkFailed(c) /\ Goto(c, "open") /\ sess' = [sess EXCEPT ![c].edit = NoEdit]
      BY <1>3 DEF StampUpdate
    <2>2. sess'[c].room = sess[c].room /\ \A d \in Conns \ {c} : sess'[d] = sess[d]
      BY <1>1, <2>1 DEF Session
    <2>3. pc'[c] = "open" /\ Moves(c)
      <3>1. pc'[c] = "open" /\ \A q \in Procs \ {c} : pc'[q] = pc[q]
        BY <1>1, <2>1, GotoMoves
      <3>2. QED
        BY <1>2, <2>2, <3>1 DEF Moves
    <2>4. DocsGrow
      <3>1. pc[c] \in OpenPCs /\ MarkFailed(c)
        BY <1>2, <2>1 DEF OpenPCs
      <3>2. QED
        BY <3>1, MarkKeepsDocs
    <2>5. PICK landed \in SUBSET {sess[c].edit} : landed = {}
      OBVIOUS
    <2>6. rows' = rows \cup landed /\ saved' \subseteq saved \cup landed
      BY <1>2, <2>5
    <2>7. QED
      BY <1>1, <1>2, <2>2, <2>3, <2>4, <2>5, <2>6, HandlerKeeps
  <1>4. CASE healthUp
    <2>1. /\ room' = [room EXCEPT ![sess[c].room].stamped = @ \cup {sess[c].edit}]
          /\ sess' = sess /\ Goto(c, "saving")
      BY <1>4 DEF StampUpdate
    <2>2. DocsGrow /\ pc'[c] = "saving" /\ \A q \in Procs \ {c} : pc'[q] = pc[q]
      BY <1>1, <2>1, GotoMoves DEF DocsGrow, TypeOK, MemoryOK, RoomState
    <2>3. /\ sess[c].room = registry /\ registry \in Rooms
          /\ sess[c].edit \in sent /\ sess[c].edit \in room[registry].doc
          /\ sess[c].edit \notin stamped
      BY <1>1, <1>2 DEF SessionInv, TypeOK, HoldsOK, OpenPCs
    <2>4. StoredInv'
      <3>1. stamped' \subseteq sent'
        BY <1>1, <1>2, <2>3 DEF StoredInv
      <3>2. QED
        BY <1>1, <1>2, <2>2, <3>1, StoredKept DEF StoredInv
    <2>5. SessionInv'
      <3>1. \A d \in Conns : d # c /\ pc[d] \in {"applied", "saving"} => sess[d].edit # sess[c].edit
        BY <1>1, <1>2 DEF SessionInv
      <3>2. \A d \in Conns : pc'[d] \in {"upgrading"} \cup OpenPCs => sess'[d].room = registry'
        BY <1>1, <1>2, <2>1, <2>2, <2>3 DEF SessionInv, OpenPCs
      <3>3. ASSUME NEW d \in Conns, pc'[d] \in {"applied", "saving"}
            PROVE  /\ sess'[d].edit \in sent' /\ sess'[d].edit \in room'[registry'].doc
                   /\ pc'[d] = "applied" => sess'[d].edit \notin stamped'
        <4>1. pc[d] \in {"applied", "saving"} /\ (pc'[d] = "applied" => pc[d] = "applied" /\ d # c)
          BY <1>2, <2>2, <3>3
        <4>2. sess[d].edit \in sent /\ sess[d].edit \in room[registry].doc
          BY <1>1, <4>1 DEF SessionInv
        <4>3. pc'[d] = "applied" => sess[d].edit \notin stamped'
          BY <1>1, <1>2, <3>1, <4>1 DEF SessionInv
        <4>4. QED
          BY <1>2, <2>1, <2>2, <2>3, <4>2, <4>3 DEF DocsGrow
      <3>4. ASSUME NEW d \in Conns, NEW e \in Conns,
                   {pc'[d], pc'[e]} \subseteq {"applied", "saving"}, sess'[d].edit = sess'[e].edit
            PROVE  d = e
        <4>1. {pc[d], pc[e]} \subseteq {"applied", "saving"} /\ sess[d].edit = sess[e].edit
          BY <1>2, <2>1, <2>2, <3>4
        <4>2. QED
          BY <1>1, <4>1 DEF SessionInv
      <3>5. QED
        BY <3>2, <3>3, <3>4 DEF SessionInv
    <2>6. LoadInv'
      BY <1>1, <1>2, <2>1, <2>2, LoadKept DEF LoadPCs
    <2>7. CompactInv'
      <3> SUFFICES ASSUME NEW q \in Procs PROVE CompactOK(q)'
        BY DEF CompactInv
      <3>1. CASE q = c
        BY <1>1, <1>2, <2>2, <3>1 DEF CompactOK, CompactPCs
      <3>2. CASE q # c
        <4>1. CompactOK(q)
          BY <1>1 DEF CompactInv
        <4>2. \A d \in Conns : pc'[d] = "saving" =>
                 (pc[d] = "saving" /\ sess'[d].edit = sess[d].edit) \/ sess'[d].edit \notin stamped
          BY <2>1, <2>2, <2>3
        <4>3. QED
          BY <1>1, <1>2, <2>2, <3>2, <4>1, <4>2, CompactKept
      <3>3. QED
        BY <3>1, <3>2
    <2>8. QED
      BY <2>4, <2>5, <2>6, <2>7 DEF Durable
  <1>5. QED
    BY <1>3, <1>4

\* An update merged into the registered room, by a handler that goes on to
\* save it (ApplyUpdate) or that does not (SyncStep2).
LEMMA ApplyKeeps ==
    ASSUME SerialInv, NEW c \in Conns, NEW u \in Updates, ApplyUpdate(c, u) \/ SyncStep2(c, u)
    PROVE  Durable'
  <1> USE DEF Procs, storageVars
  <1>1. /\ TypeOK /\ StoredInv /\ SessionInv /\ LoadInv /\ CompactInv
        /\ sess \in [Conns -> Session]
    BY CutoffsBehind DEF SerialInv, TypeOK
  <1>2. /\ pc[c] = "open" /\ sent' = sent \cup {u}
        /\ room' = [room EXCEPT ![sess[c].room].doc = @ \cup {u}]
        /\ UNCHANGED <<version, blob, rows, registry, snap, stamped, saved, flushed>>
    BY DEF ApplyUpdate, SyncStep2, taskVars
  <1>3. sess[c].room = registry /\ registry \in Rooms
    BY <1>1, <1>2 DEF SessionInv, TypeOK, HoldsOK, OpenPCs
  <1>4. DocsGrow /\ u \in room'[registry].doc
    BY <1>1, <1>2, <1>3, MergeMoves DEF DocsGrow
  <1>5. /\ \A q \in Procs \ {c} : pc'[q] = pc[q]
        /\ \A d \in Conns \ {c} : sess'[d] = sess[d]
        /\ sess'[c].room = registry
        /\ \/ pc'[c] = "open"
           \/ pc'[c] = "applied" /\ sess'[c].edit = u /\ u \notin sent
    <2>1. CASE SyncStep2(c, u)
      BY <1>2, <1>3, <2>1 DEF SyncStep2, taskVars
    <2>2. CASE ApplyUpdate(c, u)
      <3>1. Goto(c, "applied") /\ sess' = [sess EXCEPT ![c].edit = u] /\ u \notin sent
        BY <2>2 DEF ApplyUpdate
      <3>2. pc'[c] = "applied" /\ \A q \in Procs \ {c} : pc'[q] = pc[q]
        BY <1>1, <3>1, GotoMoves
      <3>3. /\ sess'[c].room = sess[c].room /\ sess'[c].edit = u
            /\ \A d \in Conns \ {c} : sess'[d] = sess[d]
        BY <1>1, <3>1 DEF Session
      <3>4. QED
        BY <1>3, <3>1, <3>2, <3>3
    <2>3. QED
      BY <2>1, <2>2
  <1>6. StoredInv'
    BY <1>1, <1>2, <1>4, StoredKept DEF StoredInv
  <1>7. SessionInv'
    <2>1. CASE pc'[c] = "open"
      BY <1>1, <1>2, <1>4, <1>5, <2>1, SessionKept
    <2>2. CASE pc'[c] = "applied" /\ sess'[c].edit = u /\ u \notin sent
      <3>1. u \notin stamped
        BY <1>1, <2>2 DEF StoredInv
      <3>2. ASSUME NEW d \in Conns, d # c, pc'[d] \in {"applied", "saving"}
            PROVE  /\ pc'[d] = pc[d] /\ sess'[d] = sess[d]
                   /\ sess[d].edit \in sent /\ sess[d].edit \in room[registry].doc
                   /\ pc[d] = "applied" => sess[d].edit \notin stamped
        BY <1>1, <1>5, <3>2 DEF SessionInv
      <3>3. \A d \in Conns : pc'[d] \in {"upgrading"} \cup OpenPCs => sess'[d].room = registry'
        BY <1>1, <1>2, <1>5 DEF SessionInv
      <3>4. ASSUME NEW d \in Conns, pc'[d] \in {"applied", "saving"}
            PROVE  /\ sess'[d].edit \in sent' /\ sess'[d].edit \in room'[registry'].doc
                   /\ pc'[d] = "applied" => sess'[d].edit \notin stamped'
        <4>1. CASE d = c
          BY <1>2, <1>4, <2>2, <3>1, <4>1
        <4>2. CASE d # c
          BY <1>2, <1>3, <1>4, <3>2, <3>4, <4>2 DEF DocsGrow
        <4>3. QED
          BY <4>1, <4>2
      <3>5. ASSUME NEW d \in Conns, NEW e \in Conns,
                   {pc'[d], pc'[e]} \subseteq {"applied", "saving"}, sess'[d].edit = sess'[e].edit
            PROVE  d = e
        <4>1. CASE d # c /\ e # c
          BY <1>1, <3>2, <3>5, <4>1 DEF SessionInv
        <4>2. CASE d = c \/ e = c
          BY <2>2, <3>2, <3>5, <4>2
        <4>3. QED
          BY <4>1, <4>2
      <3>6. QED
        BY <3>3, <3>4, <3>5 DEF SessionInv
    <2>3. QED
      BY <1>5, <2>1, <2>2
  <1>8. LoadInv'
    BY <1>1, <1>2, <1>5, LoadKept DEF LoadPCs
  <1>9. CompactInv'
    <2> SUFFICES ASSUME NEW q \in Procs PROVE CompactOK(q)'
      BY DEF CompactInv
    <2>1. CompactOK(q)
      BY <1>1 DEF CompactInv
    <2>2. CASE q = c
      <3>1. snap[q].cutoff \subseteq stamped
        BY <2>1 DEF CompactOK
      <3>2. QED
        BY <1>2, <1>5, <2>2, <3>1 DEF CompactOK, CompactPCs
    <2>3. CASE q # c
      <3>1. \A d \in Conns : pc'[d] = "saving" => pc[d] = "saving" /\ sess'[d].edit = sess[d].edit
        BY <1>5
      <3>2. QED
        BY <1>1, <1>2, <1>4, <1>5, <2>1, <2>3, <3>1, CompactKept
    <2>4. QED
      BY <2>2, <2>3
  <1>10. QED
    BY <1>6, <1>7, <1>8, <1>9 DEF Durable

\* What SerialInv says of the task that compacts.
LEMMA CompactorKnows ==
    ASSUME SerialInv, NEW p \in Procs, pc[p] \in CompactPCs
    PROVE  /\ TypeOK /\ StoredInv /\ CompactOK(p)
           /\ snap \in [Procs -> Snapshot] /\ snap[p] \in Snapshot
           /\ snap[p].target \in Rooms /\ registry \in {NoRoom, snap[p].target}
           /\ MetaReads = {version} /\ RowReads = {rows}
  BY DEF SerialInv, CompactInv, CompactOK, TypeOK, HoldsOK, Serialized, FreshReads, MetaReads, RowReads

\* A compaction that changes neither storage nor a document.
LEMMA CompactorMoves ==
    ASSUME SerialInv, Serialized', NEW p \in Procs, NEW l, Goto(p, l),
           pc[p] \in CompactPCs \/ l \in CompactPCs, l \in CompactPCs \cup {"drop"},
           UNCHANGED <<version, blob, rows, registry, sess>>, UNCHANGED historyVars,
           \A r \in Rooms : room'[r].doc = room[r].doc,
           \A q \in Procs \ {p} : snap'[q] = snap[q],
           CompactOK(p)'
    PROVE  Durable'
  <1> USE DEF historyVars
  <1>1. TypeOK /\ StoredInv /\ DocsGrow
    BY DEF SerialInv, DocsGrow
  <1>2. pc'[p] = l /\ Moves(p)
    BY <1>1, GotoMoves DEF Moves
  <1>3. StoredInv'
    BY <1>1, StoredKept DEF StoredInv
  <1>4. QED
    BY <1>1, <1>2, <1>3, CompactingKeeps

\* The caller found the room registered, which holds what storage holds.
LEMMA StartKeeps ==
    ASSUME SerialInv, Serialized', NEW p \in Procs, Start(p)
    PROVE  Durable'
  <1> USE DEF CompactPCs, storageVars, memoryVars, historyVars
  <1>1. TypeOK /\ StoredInv /\ snap \in [Procs -> Snapshot] /\ snap[p].cutoff \subseteq stamped
    BY CutoffsBehind DEF CutoffsPast, TypeOK, SerialInv
  <1>2. /\ registry # NoRoom /\ Goto(p, "take") /\ snap' = [snap EXCEPT ![p].target = registry]
        /\ UNCHANGED <<version, blob, rows, registry, room, sess>> /\ UNCHANGED historyVars
    BY DEF Start, Refuses
  <1>3. /\ snap'[p].target = registry /\ snap'[p].cutoff = snap[p].cutoff
        /\ \A q \in Procs \ {p} : snap'[q] = snap[q]
    BY <1>1, <1>2 DEF Snapshot
  <1>4. Stored' \subseteq room'[snap'[p].target].doc
    BY <1>1, <1>2, <1>3 DEF StoredInv, RoomHoldsStored, Stored
  <1>5. pc'[p] = "take"
    BY <1>1, <1>2, GotoMoves
  <1>6. CompactOK(p)'
    BY <1>1, <1>2, <1>3, <1>4, <1>5 DEF CompactOK
  <1>7. QED
    BY <1>2, <1>3, <1>6, CompactorMoves

LEMMA TakeMarkKeeps ==
    ASSUME SerialInv, Serialized', NEW p \in Procs, TakeMark(p)
    PROVE  Durable'
  <1> USE DEF CompactPCs, storageVars, historyVars
  <1>1. /\ pc[p] = "take" /\ Goto(p, "encode")
        /\ room' = [room EXCEPT ![snap[p].target].unsaved = FALSE]
        /\ UNCHANGED <<version, blob, rows, registry, sess>> /\ UNCHANGED historyVars
    BY DEF TakeMark
  <1>2. TypeOK /\ CompactOK(p) /\ snap \in [Procs -> Snapshot] /\ snap[p].target \in Rooms
    BY <1>1, CompactorKnows
  <1>3. /\ snap'[p].target = snap[p].target /\ snap'[p].cutoff = stamped
        /\ \A q \in Procs \ {p} : snap'[q] = snap[q]
    BY <1>2 DEF TakeMark, Snapshot
  <1>4. \A r \in Rooms : room'[r].doc = room[r].doc
    BY <1>1, <1>2 DEF TypeOK, MemoryOK, RoomState
  <1>5. Stored' \subseteq room'[snap'[p].target].doc /\ registry' \in {NoRoom, snap'[p].target}
    BY <1>1, <1>2, <1>3, <1>4 DEF CompactOK, Stored
  <1>6. pc'[p] = "encode"
    BY <1>1, <1>2, GotoMoves
  <1>7. CompactOK(p)'
    BY <1>1, <1>3, <1>5, <1>6 DEF CompactOK
  <1>8. QED
    BY <1>1, <1>3, <1>4, <1>7, CompactorMoves

\* The bytes are the document, which holds the snapshot that is replaced,
\* every row, and every update a handler is about to write.
LEMMA EncodeKeeps ==
    ASSUME SerialInv, Serialized', NEW p \in Procs, Encode(p)
    PROVE  Durable'
  <1> USE DEF CompactPCs, storageVars, memoryVars, historyVars
  <1>1. /\ pc[p] = "encode" /\ Goto(p, "meta")
        /\ snap' = [snap EXCEPT ![p].bytes = room[snap[p].target].doc]
        /\ UNCHANGED <<version, blob, rows, registry, room, sess>> /\ UNCHANGED historyVars
    BY DEF Encode
  <1>2. /\ TypeOK /\ CompactOK(p) /\ snap \in [Procs -> Snapshot]
        /\ snap[p].target \in Rooms /\ registry \in {NoRoom, snap[p].target}
    BY <1>1, CompactorKnows
  <1> DEFINE doc == room[snap[p].target].doc
  <1>3. /\ snap'[p].target = snap[p].target /\ snap'[p].cutoff = snap[p].cutoff
        /\ snap'[p].bytes = doc
        /\ \A q \in Procs \ {p} : snap'[q] = snap[q]
    BY <1>1, <1>2 DEF Snapshot
  <1>4. Stored \subseteq doc
    BY <1>1, <1>2 DEF CompactOK
  <1>5. pc'[p] = "meta" /\ \A q \in Procs \ {p} : pc'[q] = pc[q]
    BY <1>1, <1>2, GotoMoves
  <1>6. ASSUME NEW c \in Conns, pc'[c] = "saving" PROVE sess'[c].edit \in doc
    <2>1. pc[c] = "saving"
      BY <1>5, <1>6 DEF Procs
    <2>2. /\ sess[c].edit \in room[registry].doc
          /\ registry = sess[c].room /\ sess[c].room \in Rooms
      BY <2>1, <1>2 DEF SerialInv, SessionInv, TypeOK, HoldsOK, OpenPCs
    <2>3. QED
      BY <1>1, <1>2, <2>2, SentinelAssumption
  <1>7. CompactOK(p)'
    <2> HIDE DEF doc
    <2>1. blob'[version'] \subseteq doc /\ rows' \subseteq doc
      BY <1>1, <1>4 DEF Stored
    <2>2. snap'[p].cutoff \subseteq stamped' /\ registry' \in {NoRoom, snap'[p].target}
      BY <1>1, <1>2, <1>3 DEF CompactOK
    <2>3. snap'[p].bytes \subseteq room'[snap'[p].target].doc
      BY <1>1, <1>3 DEF doc
    <2>4. QED
      BY <1>3, <1>5, <1>6, <2>1, <2>2, <2>3 DEF CompactOK
  <1>8. QED
    BY <1>1, <1>3, <1>7, CompactorMoves

\* What the compaction knows once its bytes are taken, and no call of its own
\* disturbs while it does not move the pointer.
CarriesBytes(p) ==
    /\ snap[p].cutoff \subseteq stamped
    /\ snap[p].bytes \subseteq room[snap[p].target].doc
    /\ rows \cap snap[p].cutoff \subseteq snap[p].bytes
    /\ \A c \in Conns :
         pc[c] = "saving" /\ sess[c].edit \in snap[p].cutoff => sess[c].edit \in snap[p].bytes

LEMMA BytesCarried ==
    ASSUME SerialInv, NEW p \in Procs, pc[p] \in {"meta", "put", "set"},
           rows' = rows, stamped' = stamped, sess' = sess,
           \A q \in Procs \ {p} : pc'[q] = pc[q], pc'[p] # "saving",
           \A r \in Rooms : room'[r].doc = room[r].doc,
           snap'[p].target = snap[p].target, snap'[p].cutoff = snap[p].cutoff,
           snap'[p].bytes = snap[p].bytes
    PROVE  CarriesBytes(p)'
  <1>1. CarriesBytes(p) /\ snap[p].target \in Rooms
    BY CompactorKnows DEF CompactOK, CarriesBytes, CompactPCs
  <1>2. \A c \in Conns : pc'[c] = "saving" => pc[c] = "saving"
    BY DEF Procs
  <1>3. QED
    BY <1>1, <1>2 DEF CarriesBytes

\* The version after the current one is chosen for the new snapshot.
LEMMA ReadVersionKeeps ==
    ASSUME SerialInv, Serialized', NEW p \in Procs, ReadVersion(p)
    PROVE  Durable'
  <1> USE DEF CompactPCs, storageVars, memoryVars, historyVars
  <1>1. /\ pc[p] = "meta" /\ Goto(p, "put")
        /\ UNCHANGED <<version, blob, rows, registry, room, sess>> /\ UNCHANGED historyVars
    BY DEF ReadVersion
  <1>2. /\ TypeOK /\ CompactOK(p) /\ snap \in [Procs -> Snapshot]
        /\ registry \in {NoRoom, snap[p].target} /\ MetaReads = {version}
    BY <1>1, CompactorKnows
  <1>3. snap' = [snap EXCEPT ![p].ver = version + 1]
    BY <1>2 DEF ReadVersion
  <1>4. /\ snap'[p].target = snap[p].target /\ snap'[p].cutoff = snap[p].cutoff
        /\ snap'[p].bytes = snap[p].bytes /\ snap'[p].ver = version' + 1
        /\ \A q \in Procs \ {p} : snap'[q] = snap[q]
    BY <1>1, <1>2, <1>3 DEF Snapshot
  <1>5. pc'[p] = "put" /\ \A q \in Procs \ {p} : pc'[q] = pc[q]
    BY <1>1, <1>2, GotoMoves
  <1>6. CarriesBytes(p)'
    BY <1>1, <1>4, <1>5, BytesCarried
  <1>7. blob'[version'] \subseteq snap'[p].bytes /\ registry' \in {NoRoom, snap'[p].target}
    BY <1>1, <1>2, <1>4 DEF CompactOK
  <1>8. CompactOK(p)'
    BY <1>4, <1>5, <1>6, <1>7 DEF CompactOK, CarriesBytes
  <1>9. QED
    BY <1>1, <1>4, <1>8, CompactorMoves

\* The storage writes of save_snapshot and the prune, whether or not the call
\* that carried them out was answered.  The object is put under a fresh key.
LEMMA PutStores ==
    ASSUME SerialInv, NEW p \in Procs, pc[p] = "put", StoreBlob(snap[p].ver, snap[p].bytes),
           UNCHANGED <<version, rows, registry, stamped, sent, saved>>,
           \A r \in Rooms : room'[r].doc = room[r].doc
    PROVE  /\ StoredInv'
           /\ snap[p].ver \in DOMAIN blob' /\ blob'[snap[p].ver] = snap[p].bytes
           /\ blob'[version] = blob[version]
  <1>1. /\ TypeOK /\ StoredInv /\ snap[p].ver = version + 1 /\ version \in Nat
    BY CompactorKnows, BoundAssumption DEF CompactOK, CompactPCs, TypeOK, StorageOK, Versions
  <1>2. version \in DOMAIN blob /\ snap[p].ver # version
    BY <1>1 DEF StoredInv, PointerNeverDangles
  <1>3. /\ version \in DOMAIN blob' /\ blob'[version] = blob[version]
        /\ snap[p].ver \in DOMAIN blob' /\ blob'[snap[p].ver] = snap[p].bytes
    BY <1>2 DEF StoreBlob
  <1>4. Stored' = Stored
    BY <1>3 DEF Stored
  <1>5. RoomHoldsStored'
    BY <1>1, <1>4 DEF StoredInv, RoomHoldsStored, TypeOK, MemoryOK
  <1>6. QED
    BY <1>1, <1>3, <1>4, <1>5 DEF StoredInv, PointerNeverDangles, SavedDurable

\* The pointer moves to bytes that hold what they replace and that the
\* registered room holds.
LEMMA SetStores ==
    ASSUME SerialInv, NEW p \in Procs, pc[p] = "set", version' = snap[p].ver,
           UNCHANGED <<blob, rows, registry, stamped, sent, saved>>,
           \A r \in Rooms : room'[r].doc = room[r].doc
    PROVE  StoredInv' /\ blob'[version'] = snap[p].bytes
  <1>1. /\ TypeOK /\ StoredInv /\ CompactOK(p)
        /\ snap[p].target \in Rooms /\ registry \in {NoRoom, snap[p].target}
    BY CompactorKnows DEF CompactPCs
  <1>2. /\ blob[version] \subseteq snap[p].bytes
        /\ snap[p].bytes \subseteq room[snap[p].target].doc
        /\ snap[p].ver \in DOMAIN blob /\ blob[snap[p].ver] = snap[p].bytes
    BY <1>1 DEF CompactOK
  <1>3. Stored' = snap[p].bytes \cup rows /\ Stored \subseteq Stored'
    BY <1>2 DEF Stored
  <1>4. RoomHoldsStored'
    <2> SUFFICES ASSUME registry # NoRoom PROVE Stored' \subseteq room'[registry].doc
      BY DEF RoomHoldsStored
    <2>1. registry = snap[p].target /\ Stored \subseteq room[registry].doc
      BY <1>1 DEF StoredInv, RoomHoldsStored
    <2>2. rows \subseteq room[registry].doc
      BY <2>1 DEF Stored
    <2>3. QED
      BY <1>1, <1>2, <1>3, <2>1, <2>2
  <1>5. PointerNeverDangles' /\ SavedDurable'
    BY <1>1, <1>2, <1>3 DEF StoredInv, PointerNeverDangles, SavedDurable
  <1>6. QED
    BY <1>1, <1>2, <1>4, <1>5 DEF StoredInv

LEMMA PutBlobKeeps ==
    ASSUME SerialInv, Serialized', NEW p \in Procs, PutBlob(p)
    PROVE  Durable'
  <1> USE DEF CompactPCs, memoryVars, historyVars
  <1>1. /\ pc[p] = "put" /\ Goto(p, "set") /\ StoreBlob(snap[p].ver, snap[p].bytes)
        /\ UNCHANGED <<version, rows, registry, room, sess, snap>> /\ UNCHANGED historyVars
    BY DEF PutBlob
  <1>2. TypeOK /\ CompactOK(p) /\ registry \in {NoRoom, snap[p].target}
    BY <1>1, CompactorKnows
  <1>3. /\ StoredInv'
        /\ snap[p].ver \in DOMAIN blob' /\ blob'[snap[p].ver] = snap[p].bytes
        /\ blob'[version] = blob[version]
    BY <1>1, PutStores
  <1>4. pc'[p] = "set" /\ \A q \in Procs \ {p} : pc'[q] = pc[q]
    BY <1>1, <1>2, GotoMoves
  <1>5. CarriesBytes(p)'
    BY <1>1, <1>4, BytesCarried
  <1>6. CompactOK(p)'
    <2>1. blob[version] \subseteq snap[p].bytes /\ snap[p].ver = version + 1
      BY <1>1, <1>2 DEF CompactOK
    <2>2. QED
      BY <1>1, <1>2, <1>3, <1>4, <1>5, <2>1 DEF CompactOK, CarriesBytes
  <1>7. Moves(p)
    BY <1>1, <1>4 DEF Moves
  <1>8. QED
    BY <1>1, <1>3, <1>4, <1>6, <1>7, CompactingKeeps

LEMMA SetVersionKeeps ==
    ASSUME SerialInv, Serialized', NEW p \in Procs, SetVersion(p)
    PROVE  Durable'
  <1> USE DEF CompactPCs, memoryVars
  <1>1. /\ pc[p] = "set" /\ Goto(p, "prune") /\ version' = snap[p].ver
        /\ UNCHANGED <<blob, rows, registry, room, sess, snap, stamped, sent, saved>>
    BY DEF SetVersion, Commit
  <1>2. TypeOK /\ registry \in {NoRoom, snap[p].target}
    BY <1>1, CompactorKnows
  <1>3. StoredInv' /\ blob'[version'] = snap[p].bytes
    BY <1>1, SetStores
  <1>4. pc'[p] = "prune" /\ \A q \in Procs \ {p} : pc'[q] = pc[q]
    BY <1>1, <1>2, GotoMoves
  <1>5. CarriesBytes(p)'
    BY <1>1, <1>4, BytesCarried
  <1>6. CompactOK(p)'
    BY <1>1, <1>2, <1>3, <1>4, <1>5 DEF CompactOK, CarriesBytes
  <1>7. Moves(p)
    BY <1>1, <1>4 DEF Moves
  <1>8. QED
    BY <1>1, <1>3, <1>4, <1>6, <1>7, CompactingKeeps

\* A compaction returns, having left storage sound.
LEMMA CompactorReturns ==
    ASSUME SerialInv, Serialized', NEW p \in Procs, pc[p] \in CompactPCs,
           UNCHANGED <<registry, stamped, sent>>, Moves(p),
           \A r \in Rooms : room'[r].doc = room[r].doc,
           pc'[p] \in {"off", "drop"}, snap'[p].cutoff = {}, StoredInv'
    PROVE  Durable'
  <1>1. pc'[p] \notin CompactPCs /\ snap'[p].cutoff \subseteq stamped'
    BY DEF CompactPCs
  <1>2. CompactOK(p)'
    BY <1>1 DEF CompactOK, CompactPCs
  <1>3. QED
    BY <1>2, CompactingKeeps

LEMMA CompactFailsKeeps ==
    ASSUME SerialInv, Serialized', NEW p \in Procs, CompactFails(p)
    PROVE  Durable'
  <1> USE DEF storageVars
  <1>1. /\ pc[p] \in {"meta", "put", "set"} /\ RestoreMark(p) /\ Finish(p)
        /\ UNCHANGED <<registry, stamped, sent, saved>>
    BY DEF CompactFails
  <1>2. pc[p] \in CompactPCs
    BY <1>1 DEF CompactPCs
  <1>3. TypeOK /\ StoredInv /\ snap[p].target \in Rooms
    BY <1>2, CompactorKnows
  <1>4. \A r \in Rooms : room'[r].doc = room[r].doc
    BY <1>1, <1>3 DEF RestoreMark, TypeOK, MemoryOK, RoomState
  <1>5. Moves(p) /\ pc'[p] = "off" /\ snap'[p].cutoff = {}
    BY <1>1, <1>3, FinishMoves DEF Moves
  <1>6. StoredInv'
    <2>1. CASE UNCHANGED <<version, blob, rows>>
      <3>1. DocsGrow /\ stamped' \subseteq sent'
        BY <1>1, <1>3, <1>4 DEF DocsGrow, StoredInv
      <3>2. QED
        BY <1>1, <1>3, <2>1, <3>1, StoredKept
    <2>2. CASE pc[p] = "put" /\ StoreBlob(snap[p].ver, snap[p].bytes) /\ UNCHANGED <<version, rows>>
      BY <1>1, <1>4, <2>2, PutStores
    <2>3. CASE pc[p] = "set" /\ version' = snap[p].ver /\ UNCHANGED <<blob, rows>>
      BY <1>1, <1>4, <2>3, SetStores
    <2>4. QED
      BY <2>1, <2>2, <2>3 DEF CompactFails, Commit
  <1>7. QED
    BY <1>1, <1>2, <1>4, <1>5, <1>6, CompactorReturns

\* The rows that a prune deletes are in the current snapshot.
LEMMA PruneKeeps ==
    ASSUME SerialInv, Serialized', NEW p \in Procs, Prune(p)
    PROVE  Durable'
  <1> USE DEF memoryVars, historyVars
  <1>1. pc[p] = "prune" /\ UNCHANGED <<blob, registry, room, stamped, sent, saved>>
    BY DEF Prune
  <1>2. pc[p] \in CompactPCs
    BY <1>1 DEF CompactPCs
  <1>3. TypeOK /\ StoredInv /\ CompactOK(p) /\ snap \in [Procs -> Snapshot] /\ RowReads = {rows}
    BY <1>2, CompactorKnows
  <1>4. PICK gone \in SUBSET (rows \cap snap[p].cutoff) : version' = version /\ rows' = rows \ gone
    BY <1>3 DEF Prune, Commit
  <1>5. gone \subseteq blob[version]
    BY <1>1, <1>3 DEF CompactOK
  <1>6. Stored' = Stored
    BY <1>1, <1>4, <1>5 DEF Stored
  <1>7. StoredInv'
    BY <1>1, <1>3, <1>4, <1>6 DEF StoredInv, PointerNeverDangles, SavedDurable, RoomHoldsStored
  <1>8. Moves(p) /\ pc'[p] \in {"off", "drop"} /\ snap'[p].cutoff = {}
    <2>1. CASE p \in Forced
      BY <1>3, <2>1, FinishMoves DEF Prune, Moves
    <2>2. CASE p \notin Forced
      <3>1. snap' = [snap EXCEPT ![p] = NoSnapshot] /\ Goto(p, "drop") /\ sess' = sess
        BY <2>2 DEF Prune
      <3>2. pc'[p] = "drop" /\ \A q \in Procs \ {p} : pc'[q] = pc[q]
        BY <1>3, <3>1, GotoMoves
      <3>3. snap'[p].cutoff = {} /\ \A q \in Procs \ {p} : snap'[q] = snap[q]
        BY <1>3, <3>1 DEF NoSnapshot
      <3>4. QED
        BY <3>1, <3>2, <3>3 DEF Moves
    <2>3. QED
      BY <2>1, <2>2
  <1>9. QED
    BY <1>1, <1>2, <1>7, <1>8, CompactorReturns

\* remove_if_empty: nobody is in the room, and nobody is on the way into it.
LEMMA DropKeeps ==
    ASSUME SerialInv, Serialized', TypeOK', NEW p \in Procs, Drop(p)
    PROVE  Durable'
  <1> USE DEF storageVars, memoryVars, historyVars
  <1>1. /\ Finish(p) /\ UNCHANGED <<version, blob, rows, room>> /\ UNCHANGED historyVars
        /\ registry' = IF RemovableRoom THEN NoRoom ELSE registry
    BY DEF Drop, RemoveIfEmpty
  <1>2. CASE ~RemovableRoom
    BY <1>1, <1>2, FinishKeeps
  <1>3. CASE RemovableRoom
    <2>1. TypeOK /\ StoredInv /\ SessionInv /\ LoadInv /\ CompactInv /\ DocsGrow
      BY <1>1 DEF SerialInv, DocsGrow
    <2>2. Moves(p) /\ pc'[p] = "off" /\ snap'[p].cutoff = {} /\ registry' = NoRoom
      BY <1>1, <1>3, <2>1, FinishMoves DEF Moves
    <2>3. \A q \in Procs \ {p} : pc'[q] = pc[q] /\ snap'[q] = snap[q]
      BY <2>2 DEF Moves
    <2>4. \A c \in Conns \ {p} : pc'[c] = pc[c] /\ sess'[c] = sess[c]
      BY <2>2 DEF Moves, Procs
    <2>5. StoredInv'
      BY <1>1, <2>1, <2>2, StoredKept DEF StoredInv
    <2>6. \A c \in Conns : pc'[c] \notin {"upgrading"} \cup OpenPCs
      <3> SUFFICES ASSUME NEW c \in Conns, pc'[c] \in {"upgrading"} \cup OpenPCs PROVE FALSE
        OBVIOUS
      <3>1. c # p /\ pc'[c] = pc[c] /\ sess'[c] = sess[c]
        BY <2>2, <2>4 DEF OpenPCs
      <3>2. sess[c].room = registry /\ sess[c].room \in Rooms
        BY <2>1, <3>1 DEF SessionInv, TypeOK, HoldsOK
      <3>3. pc[c] \notin OpenPCs
        BY <1>3, <3>2 DEF RemovableRoom, Clients
      <3>4. pc'[c] = "upgrading" => sess'[c].room = NoRoom
        BY <2>2 DEF Serialized, JoinsHold
      <3>5. QED
        BY <3>1, <3>2, <3>3, <3>4, SentinelAssumption
    <2>7. SessionInv'
      BY <2>6 DEF SessionInv, OpenPCs
    <2>8. LoadInv'
      BY <1>1, <2>1, <2>2, <2>4, LoadKept DEF LoadPCs
    <2>9. CompactInv'
      <3> SUFFICES ASSUME NEW q \in Procs PROVE CompactOK(q)'
        BY DEF CompactInv
      <3>1. CASE q = p
        BY <2>2, <3>1 DEF CompactOK
      <3>2. CASE q # p
        <4>1. CompactOK(q) /\ pc'[q] = pc[q] /\ snap'[q] = snap[q]
          BY <2>1, <2>3, <3>2 DEF CompactInv
        <4>2. \A c \in Conns : pc'[c] # "saving"
          BY <2>6 DEF OpenPCs
        <4>3. QED
          BY <1>1, <2>1, <2>2, <4>1, <4>2, CompactKept
      <3>3. QED
        BY <3>1, <3>2
    <2>10. QED
      BY <2>5, <2>7, <2>8, <2>9 DEF Durable
  <1>4. QED
    BY <1>2, <1>3

\* A restart forgets the rooms and the tasks; storage stays as it was.
LEMMA CrashKeeps ==
    ASSUME SerialInv, Crash
    PROVE  Durable'
  <1>1. /\ registry' = NoRoom /\ pc' = [p \in Procs |-> "off"]
        /\ snap' = [p \in Procs |-> NoSnapshot]
        /\ UNCHANGED storageVars /\ UNCHANGED historyVars
    BY DEF Crash
  <1>2. StoredInv'
    BY <1>1 DEF SerialInv, StoredInv, PointerNeverDangles, SavedDurable, RoomHoldsStored, Stored,
               storageVars, historyVars
  <1>3. \A p \in Procs : pc'[p] = "off" /\ snap'[p].cutoff = {}
    BY <1>1 DEF NoSnapshot
  <1>4. SessionInv' /\ LoadInv'
    BY <1>3 DEF SessionInv, LoadInv, LoadPCs, OpenPCs, Procs
  <1>5. CompactInv'
    BY <1>3 DEF CompactInv, CompactOK, CompactPCs
  <1>6. QED
    BY <1>2, <1>4, <1>5 DEF Durable

\* Every step that keeps to the discipline keeps the invariant: the cases are
\* the disjuncts of Next.  No read is stale, so Replicate has nothing to do.
LEMMA SerialStep ==
    ASSUME SerialInv, Next, Serialized', TypeOK'
    PROVE  SerialInv'
  <1>1. ASSUME NEW c \in Conns, Connect(c) PROVE Durable'
    BY <1>1, JoinKeeps, RefusedKeeps, LoadMetaKeeps, LoadBlobKeeps, LoadRowsKeeps DEF Connect
  <1>2. ASSUME NEW c \in Conns, Edit(c) PROVE Durable'
    BY <1>2, StampKeeps, AppendKeeps, ApplyKeeps DEF Edit
  <1>3. ASSUME NEW c \in Conns, Disconnect(c) PROVE Durable'
    BY <1>3, LeaveKeeps, AbortKeeps, CheckKeeps, RefusedKeeps DEF Disconnect
  <1>4. ASSUME NEW p \in Procs, Compact(p) PROVE Durable'
    BY <1>4, StartRefusedKeeps, StartKeeps, TakeMarkKeeps, EncodeKeeps, ReadVersionKeeps,
       PutBlobKeeps, SetVersionKeeps, CompactFailsKeeps, PruneKeeps, DropKeeps DEF Compact
  <1>5. ~Replicate
    BY DEF SerialInv, Serialized, FreshReads, Replicate
  <1>6. Durable'
    BY <1>1, <1>2, <1>3, <1>4, <1>5, BackgroundKeeps, CrashKeeps DEF Next
  <1>7. QED
    BY <1>6 DEF Durable, SerialInv

\* An empty document with no task running satisfies the invariant.
LEMMA SerialInitially == Init => SerialInv
  <1> SUFFICES ASSUME Init PROVE SerialInv
    OBVIOUS
  <1>1. TypeOK
    BY InitType
  <1>2. Serialized
    BY DEF Init, Serialized, OneCompaction, LoadsAlone, JoinsHold, FreshReads, Compacting, CompactPCs, LoadPCs, Procs
  <1>3. StoredInv
    BY DEF Init, StoredInv, PointerNeverDangles, SavedDurable, RoomHoldsStored, Stored
  <1>4. SessionInv /\ LoadInv /\ CompactInv
    BY DEF Init, SessionInv, LoadInv, CompactInv, CompactOK, CompactPCs, LoadPCs, OpenPCs, Procs, NoSnapshot
  <1>5. QED
    BY <1>1, <1>2, <1>3, <1>4 DEF SerialInv

\* A step in which nothing changes keeps it.
LEMMA SerialStutters ==
    ASSUME SerialInv, UNCHANGED vars
    PROVE  SerialInv'
  <1> USE DEF vars, storageVars, memoryVars, taskVars, historyVars, envVars
  <1>1. TypeOK'
    BY TypeStep DEF SerialInv
  <1>2. Serialized'
    BY DEF SerialInv, Serialized, OneCompaction, LoadsAlone, JoinsHold, FreshReads, Compacting
  <1>3. StoredInv'
    BY DEF SerialInv, StoredInv, PointerNeverDangles, SavedDurable, RoomHoldsStored, Stored
  <1>4. SessionInv' /\ LoadInv' /\ CompactInv'
    BY DEF SerialInv, SessionInv, LoadInv, CompactInv, CompactOK, Stored
  <1>5. QED
    BY <1>1, <1>2, <1>3, <1>4 DEF SerialInv

\* SerialInv is an invariant: while compactions and loads of a document do not
\* overlap, the registered room holds everything that storage holds, and a
\* compaction in flight writes at least what it replaces and prunes.
THEOREM SerialInvariance == SerialSpec => []SerialInv
  <1>1. Init => SerialInv
    BY SerialInitially
  <1>2. SerialInv /\ [Next /\ Serialized']_vars => SerialInv'
    <2> SUFFICES ASSUME SerialInv, [Next /\ Serialized']_vars PROVE SerialInv'
      OBVIOUS
    <2>1. CASE Next /\ Serialized'
      <3>1. TypeOK'
        BY <2>1, TypeStep DEF SerialInv
      <3>2. QED
        BY <2>1, <3>1, SerialStep
    <2>2. CASE UNCHANGED vars
      BY <2>2, SerialStutters
    <2>3. QED
      BY <2>1, <2>2
  <1>3. QED
    BY <1>1, <1>2, PTL DEF SerialSpec

\* Every edit whose append_update (doc_repo.rs) returned Ok is found by every
\* later cold load, through any number of compactions, failures and crashes.
THEOREM SavedEditsAreDurable == SerialSpec => []SavedDurable
  <1>1. SerialInv => SavedDurable
    BY DEF SerialInv, StoredInv
  <1>2. QED
    BY <1>1, SerialInvariance, PTL

\* A step never takes an edit out of what a cold load would return; the first
\* seven are the writes of doc_repo.rs.
LEMMA StoredStep ==
    ASSUME SerialInv, Next
    PROVE  Stored \subseteq Stored'
  <1> USE DEF SerialInv, TypeOK, StorageOK, PcOK, StoredInv, PointerNeverDangles,
              CompactInv, CompactOK, CompactPCs, FreshReads, Serialized,
              Stored, Commit, StoreBlob, storageVars
  <1>1. \A c \in Conns : AppendOk(c) => Stored \subseteq Stored'
    BY DEF AppendOk
  <1>2. \A c \in Conns : AppendFails(c) => Stored \subseteq Stored'
    BY DEF AppendFails
  <1>3. \A c \in Conns : Abort(c) => Stored \subseteq Stored'
    BY DEF Abort
  <1>4. \A p \in Procs : PutBlob(p) => Stored \subseteq Stored'
    BY DEF PutBlob
  <1>5. \A p \in Procs : SetVersion(p) => Stored \subseteq Stored'
    BY DEF SetVersion
  <1>6. \A p \in Procs : CompactFails(p) => Stored \subseteq Stored'
    BY DEF CompactFails
  <1>7. \A p \in Procs : Prune(p) => Stored \subseteq Stored'
    BY DEF Prune, RowReads
  <1>8. Replicate => Stored \subseteq Stored'
    BY DEF Replicate
  <1>9. Crash => Stored \subseteq Stored'
    BY DEF Crash
  <1>10. \A c \in Conns : Connect(c) => Stored \subseteq Stored'
    BY DEF Connect, JoinResident, LoadMeta, LoadBlob, LoadRows, LoadFails, AddClient, UpgradeRefused
  <1>11. \A c \in Conns : StampUpdate(c) => Stored \subseteq Stored'
    BY DEF StampUpdate
  <1>12. \A c \in Conns, u \in Updates : ApplyUpdate(c, u) \/ SyncStep2(c, u) => Stored \subseteq Stored'
    BY DEF ApplyUpdate, SyncStep2
  <1>13. \A c \in Conns : Leave(c) \/ ReadMark(c) \/ HasPending(c) \/ HasPendingFails(c)
                             => Stored \subseteq Stored'
    BY DEF Leave, ReadMark, HasPending, HasPendingFails
  <1>14. \A p \in Procs : Background(p) => Stored \subseteq Stored'
    BY DEF Background, Sweep, ForceCompact, ProbeAnswers, ProbeFails
  <1>15. \A p \in Procs : StartRefused(p) \/ Start(p) \/ TakeMark(p) \/ Encode(p) \/ ReadVersion(p) \/ Drop(p)
                             => Stored \subseteq Stored'
    BY DEF StartRefused, Start, TakeMark, Encode, ReadVersion, Drop
  <1>16. QED
    BY <1>1, <1>2, <1>3, <1>4, <1>5, <1>6, <1>7, <1>8, <1>9, <1>10, <1>11, <1>12, <1>13, <1>14, <1>15
    DEF Next, Edit, Disconnect, Compact

\* No snapshot, prune, failed write or crash makes a cold load return less
\* than it would have returned before.
THEOREM StorageNeverForgets == SerialSpec => StoredGrows
  <1>1. SerialInv /\ [Next /\ Serialized']_vars => [Stored \subseteq Stored']_vars
    BY StoredStep
  <1>2. QED
    BY <1>1, SerialInvariance, PTL DEF SerialSpec, StoredGrows

=============================================================================
