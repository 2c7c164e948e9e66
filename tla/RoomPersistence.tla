--------------------------- MODULE RoomPersistence ---------------------------
(***************************************************************************)
(* One document on one API instance: how an edit that arrives over a       *)
(* WebSocket reaches storage, and how a Room is loaded, snapshotted,       *)
(* pruned and dropped.  Translated from                                    *)
(*   src/crates/api/src/routes/ws.rs        cold load, edit handler, leave *)
(*   src/crates/api/src/compaction.rs       the three compaction paths     *)
(*   src/crates/api/src/storage_health.rs   probe and recovery flush       *)
(*   src/crates/collab/src/room.rs          Room, RoomRegistry             *)
(*   src/crates/storage/src/repo/doc_repo.rs  the writes themselves        *)
(*                                                                         *)
(* The CRDT is a set of updates and merging is union.  Every call to S3    *)
(* or DynamoDB is a step of its own.  The wall clock (`now_usec`) is       *)
(* replaced by the set of updates already stamped when a cutoff is taken:  *)
(* `created_at < cutoff` is membership in that set, which supposes that    *)
(* the clock of the one instance does not run backwards.                   *)
(***************************************************************************)
EXTENDS Naturals, FiniteSets

CONSTANTS
    Updates,     \* edits that clients send
    Conns,       \* WebSocket connection slots
    Rooms,       \* identities of Room objects (reused once unreachable)
    Sweepers,    \* the periodic compactor tasks (one per instance)
    Probers,     \* the storage-health probe tasks (one per instance)
    Admins,      \* administrators calling force-compact
    NoRoom,      \* the registry has no entry
    NoEdit,      \* the handler holds no update
    MaxVersion,  \* bound: highest snapshot version written
    MaxFaults,   \* bound: storage calls that fail or time out
    MaxCrashes   \* bound: restarts of the instance

Procs == Conns \cup Sweepers \cup Probers \cup Admins
Forced == Probers \cup Admins
Versions == 1..MaxVersion

ASSUME SentinelAssumption ==
    /\ NoRoom \notin Rooms
    /\ NoEdit \notin Updates

ASSUME ProcessAssumption ==
    /\ Conns \cap (Sweepers \cup Probers \cup Admins) = {}
    /\ Sweepers \cap Forced = {}
    /\ Probers \cap Admins = {}

ASSUME BoundAssumption ==
    /\ MaxVersion \in Nat \ {0}
    /\ MaxFaults \in Nat
    /\ MaxCrashes \in Nat

VARIABLES
    version,   \* DocumentMeta.snapshot_version (and the S3 key it names)
    blob,      \* S3: the objects docs/{id}/snapshots/{v}.bin, by v
    rows,      \* DynamoDB: the UPDATE# rows
    lag,       \* a DynamoDB replica that may still answer ordinary reads
    registry,  \* RoomRegistry: the Room registered for the document
    room,      \* the Room objects reachable from registry or a task
    pc,        \* where each task is
    sess,      \* locals of a connection's task
    snap,      \* locals of compact_room_with_outcome, per task running it
    stamped,   \* updates whose created_at has been read off the clock
    sent,      \* history: updates some client has sent
    saved,     \* history: updates whose append_update returned Ok
    flushed,   \* history: updates in some snapshot that became current
    healthUp,  \* StorageHealth.up
    faults,    \* storage calls that have failed so far
    crashes    \* restarts so far

storageVars == <<version, blob, rows, lag>>
memoryVars  == <<registry, room>>
taskVars    == <<pc, sess, snap>>
historyVars == <<stamped, sent, saved, flushed>>
envVars     == <<healthUp, faults, crashes>>
vars == <<storageVars, memoryVars, taskVars, historyVars, envVars>>

-----------------------------------------------------------------------------
(* Types.                                                                  *)

LoadPCs    == {"blob", "rows"}
OpenPCs    == {"open", "applied", "saving"}
ConnPCs    == {"upgrading", "left", "check"} \cup LoadPCs \cup OpenPCs
CompactPCs == {"take", "encode", "meta", "put", "set", "prune"}
SharedPCs  == {"off", "start", "drop"} \cup CompactPCs

\* A Room: its document, its unsaved mark and, as history, the updates
\* stamped by its handlers and those whose save failed.
RoomState ==
    [doc : SUBSET Updates, unsaved : BOOLEAN,
     stamped : SUBSET Updates, failed : SUBSET Updates]

Session ==
    [room : Rooms \cup {NoRoom}, edit : Updates \cup {NoEdit},
     key : Versions, doc : SUBSET Updates, marked : BOOLEAN]

Snapshot ==
    [target : Rooms \cup {NoRoom}, cutoff : SUBSET Updates, had : BOOLEAN,
     bytes : SUBSET Updates, ver : Versions]

FreshRoom(doc) == [doc |-> doc, unsaved |-> FALSE, stamped |-> {}, failed |-> {}]
SessionIn(r) == [room |-> r, edit |-> NoEdit, key |-> 1, doc |-> {}, marked |-> FALSE]
NoSession == SessionIn(NoRoom)
NoSnapshot == [target |-> NoRoom, cutoff |-> {}, had |-> FALSE, bytes |-> {}, ver |-> 1]

StorageOK ==
    /\ version \in Versions
    /\ DOMAIN blob \subseteq Versions
    /\ \A v \in DOMAIN blob : blob[v] \in SUBSET Updates
    /\ rows \in SUBSET Updates
    /\ lag \in [version : Versions, rows : SUBSET Updates]

MemoryOK ==
    /\ registry \in Rooms \cup {NoRoom}
    /\ room \in [Rooms -> RoomState]

PcOK ==
    /\ pc \in [Procs -> ConnPCs \cup SharedPCs]
    /\ \A p \in Procs \ Conns : pc[p] \in SharedPCs

HistoryOK ==
    /\ stamped \in SUBSET Updates
    /\ sent \in SUBSET Updates
    /\ saved \in SUBSET Updates
    /\ flushed \in SUBSET Updates

EnvOK ==
    /\ healthUp \in BOOLEAN
    /\ faults \in 0..MaxFaults
    /\ crashes \in 0..MaxCrashes

\* A task inside a compaction has a target, a connection that joined a room
\* has one, and a handler at work on an update has that update.
HoldsOK ==
    /\ \A p \in Procs : pc[p] \in CompactPCs => snap[p].target \in Rooms
    /\ \A c \in Conns : pc[c] \in {"upgrading"} \cup OpenPCs => sess[c].room \in Rooms
    /\ \A c \in Conns : pc[c] \in {"applied", "saving"} => sess[c].edit \in Updates

TypeOK ==
    /\ StorageOK /\ MemoryOK /\ PcOK
    /\ sess \in [Conns -> Session]
    /\ snap \in [Procs -> Snapshot]
    /\ HistoryOK /\ EnvOK /\ HoldsOK

-----------------------------------------------------------------------------
(* Storage.                                                                *)

\* What is recoverable from storage alone: a cold load reads exactly this.
Stored == blob[version] \cup rows

\* A write of the document's items.  Ordinary reads are not consistent, so
\* a replica may or may not have applied the write when it is acknowledged.
Commit(v, rs) ==
    /\ version' = v
    /\ rows' = rs
    /\ lag' \in {lag, [version |-> v, rows |-> rs]}

\* put_object: creates the object or overwrites it.
StoreBlob(v, bytes) ==
    blob' = [w \in DOMAIN blob \cup {v} |-> IF w = v THEN bytes ELSE blob[w]]

\* What an ordinary get_item or query may answer.
MetaReads == {version, lag.version}
RowReads  == {rows, lag.rows}

Replicate ==
    /\ lag # [version |-> version, rows |-> rows]
    /\ lag' = [version |-> version, rows |-> rows]
    /\ UNCHANGED <<version, blob, rows, memoryVars, taskVars, historyVars, envVars>>

\* The call in this step returns Err, after the SDK's retries.
Fails ==
    /\ faults < MaxFaults
    /\ faults' = faults + 1
    /\ UNCHANGED <<healthUp, crashes>>

Succeeds == UNCHANGED envVars

-----------------------------------------------------------------------------
(* Rooms and the registry.                                                 *)

Clients(r) == {c \in Conns : pc[c] \in OpenPCs /\ sess[c].room = r}

\* No registry entry and no task's Arc keeps the Room object alive.
Unreachable(r) ==
    /\ registry # r
    /\ \A c \in Conns : sess[c].room # r
    /\ \A p \in Procs : snap[p].target # r

Goto(p, label) == pc' = [pc EXCEPT ![p] = label]

\* is_unsaved of the registered room, if there is one.
RegisteredIsUnsaved == registry # NoRoom /\ room[registry].unsaved

RemovableRoom ==
    /\ registry # NoRoom
    /\ Clients(registry) = {}
    /\ ~room[registry].unsaved

RemoveIfEmpty ==
    registry' = IF RemovableRoom THEN NoRoom ELSE registry

\* A task returns; its locals and its Arcs are dropped.
Finish(p) ==
    /\ Goto(p, "off")
    /\ sess' = [c \in Conns |-> IF c = p THEN NoSession ELSE sess[c]]
    /\ snap' = [snap EXCEPT ![p] = NoSnapshot]

-----------------------------------------------------------------------------
(* Connecting: ws_upgrade and cold_load_room_doc.                          *)

\* The room is resident, at the first look or under the init lock.
JoinResident(c) ==
    /\ pc[c] = "off"
    /\ registry # NoRoom
    /\ Goto(c, "upgrading")
    /\ sess' = [sess EXCEPT ![c].room = registry]
    /\ UNCHANGED <<storageVars, memoryVars, snap, historyVars, envVars>>

\* The init lock is held exactly while a connection is in LoadPCs.  The
\* metadata read fixes the snapshot key the load will fetch.
LoadMeta(c) ==
    /\ pc[c] = "off"
    /\ registry = NoRoom
    /\ \A d \in Conns : pc[d] \notin LoadPCs
    /\ \E v \in MetaReads :
         /\ Goto(c, "blob")
         /\ sess' = [sess EXCEPT ![c].key = v]
    /\ Succeeds
    /\ UNCHANGED <<storageVars, memoryVars, snap, historyVars>>

LoadBlob(c) ==
    /\ pc[c] = "blob"
    /\ sess[c].key \in DOMAIN blob
    /\ Goto(c, "rows")
    /\ sess' = [sess EXCEPT ![c].doc = blob[sess[c].key]]
    /\ Succeeds
    /\ UNCHANGED <<storageVars, memoryVars, snap, historyVars>>

\* Mutant: the load stops at the snapshot.
LoadSnapshotOnly(c) ==
    /\ pc[c] = "rows"
    /\ registry = NoRoom
    /\ \E r \in Rooms :
         /\ Unreachable(r)
         /\ registry' = r
         /\ room' = [room EXCEPT ![r] = FreshRoom(sess[c].doc)]
         /\ sess' = [sess EXCEPT ![c] = SessionIn(r)]
    /\ Goto(c, "upgrading")
    /\ Succeeds
    /\ UNCHANGED <<storageVars, snap, historyVars>>

\* The pending rows are merged and the room enters the registry, unless
\* another task put one there first (get_or_insert).
LoadRows(c) ==
    /\ pc[c] = "rows"
    /\ \E rs \in RowReads, r \in Rooms :
         IF registry # NoRoom
         THEN /\ r = registry
              /\ UNCHANGED memoryVars
              /\ sess' = [sess EXCEPT ![c] = SessionIn(r)]
         ELSE /\ Unreachable(r)
              /\ registry' = r
              /\ room' = [room EXCEPT ![r] = FreshRoom(sess[c].doc \cup rs)]
              /\ sess' = [sess EXCEPT ![c] = SessionIn(r)]
    /\ Goto(c, "upgrading")
    /\ Succeeds
    /\ UNCHANGED <<storageVars, snap, historyVars>>

\* Mutant: a failed load is logged and the upgrade goes on.
LoadFailureIgnored(c) ==
    /\ pc[c] \in LoadPCs
    /\ Fails
    /\ Goto(c, "upgrading")
    /\ UNCHANGED <<storageVars, memoryVars, sess, snap, historyVars>>

\* S3 or DynamoDB does not answer, or the object is missing: 5xx.
LoadFails(c) ==
    /\ pc[c] \in LoadPCs
    /\ \/ Fails
       \/ pc[c] = "blob" /\ sess[c].key \notin DOMAIN blob /\ Succeeds
    /\ Finish(c)
    /\ UNCHANGED <<storageVars, memoryVars, historyVars>>

\* handle_ws runs on the upgraded socket and adds the client to its room.
AddClient(c) ==
    /\ pc[c] = "upgrading"
    /\ Goto(c, "open")
    /\ UNCHANGED <<storageVars, memoryVars, sess, snap, historyVars, envVars>>

\* A connection cap, or the peer going away before the upgrade completes.
UpgradeRefused(c) ==
    /\ pc[c] = "upgrading"
    /\ Finish(c)
    /\ UNCHANGED <<storageVars, memoryVars, historyVars, envVars>>

-----------------------------------------------------------------------------
(* Frames of an open connection: the receive task of handle_ws.            *)

\* Update, first half: merged into the room (and broadcast to its peers).
ApplyUpdate(c, u) ==
    /\ pc[c] = "open"
    /\ u \notin sent
    /\ sent' = sent \cup {u}
    /\ room' = [room EXCEPT ![sess[c].room].doc = @ \cup {u}]
    /\ sess' = [sess EXCEPT ![c].edit = u]
    /\ Goto(c, "applied")
    /\ UNCHANGED <<storageVars, registry, snap, stamped, saved, flushed, envVars>>

\* Mutant: a failed save is only logged.
FailureOnlyLogged(c) ==
    room' = [room EXCEPT ![sess[c].room].failed = @ \cup {sess[c].edit},
                         ![sess[c].room].stamped = @ \cup {sess[c].edit}]

\* The save failed, or was not tried: the room is marked in the same step
\* as the outcome is known (no await between the two).
MarkFailed(c) ==
    room' = [room EXCEPT ![sess[c].room].unsaved = TRUE,
                         ![sess[c].room].failed = @ \cup {sess[c].edit},
                         ![sess[c].room].stamped = @ \cup {sess[c].edit}]

\* Update, second half: the clock is read after the room holds the update.
\* With storage known to be down the save is not even tried.
StampUpdate(c) ==
    /\ pc[c] = "applied"
    /\ stamped' = stamped \cup {sess[c].edit}
    /\ IF healthUp
       THEN /\ room' = [room EXCEPT ![sess[c].room].stamped = @ \cup {sess[c].edit}]
            /\ sess' = sess
            /\ Goto(c, "saving")
       ELSE /\ MarkFailed(c)
            /\ sess' = [sess EXCEPT ![c].edit = NoEdit]
            /\ Goto(c, "open")
    /\ UNCHANGED <<storageVars, registry, snap, sent, saved, flushed, envVars>>

AppendOk(c) ==
    /\ pc[c] = "saving"
    /\ Commit(version, rows \cup {sess[c].edit})
    /\ saved' = saved \cup {sess[c].edit}
    /\ sess' = [sess EXCEPT ![c].edit = NoEdit]
    /\ Goto(c, "open")
    /\ Succeeds
    /\ UNCHANGED <<blob, memoryVars, snap, stamped, sent, flushed>>

\* An Err does not say whether the row was written.
AppendFails(c) ==
    /\ pc[c] = "saving"
    /\ Fails
    /\ \E landed \in SUBSET {sess[c].edit} : Commit(version, rows \cup landed)
    /\ MarkFailed(c)
    /\ sess' = [sess EXCEPT ![c].edit = NoEdit]
    /\ Goto(c, "open")
    /\ UNCHANGED <<blob, registry, snap, historyVars>>

\* SyncStep2: merged into the room, and nothing else.
SyncStep2(c, u) ==
    /\ pc[c] = "open"
    /\ u \notin room[sess[c].room].doc
    /\ sent' = sent \cup {u}
    /\ room' = [room EXCEPT ![sess[c].room].doc = @ \cup {u}]
    /\ UNCHANGED <<storageVars, registry, taskVars, stamped, saved, flushed, envVars>>

-----------------------------------------------------------------------------
(* Leaving: the tail of handle_ws and compact_or_remove_on_empty.          *)

\* remove_client; only the last one to leave goes on to empty the room.
RemoveClient(c) ==
    IF Clients(sess[c].room) = {c}
    THEN /\ Goto(c, "left")
         /\ sess' = [sess EXCEPT ![c].edit = NoEdit]
         /\ UNCHANGED snap
    ELSE Finish(c)

Leave(c) ==
    /\ pc[c] = "open"
    /\ RemoveClient(c)
    /\ UNCHANGED <<storageVars, memoryVars, historyVars, envVars>>

\* The send task ended first: the receive task is aborted at an await, with
\* the update applied but not yet, or perhaps just, written.
Abort(c) ==
    /\ pc[c] \in {"applied", "saving"}
    /\ \E landed \in SUBSET {sess[c].edit} :
         /\ pc[c] = "applied" => landed = {}
         /\ Commit(version, rows \cup landed)
    /\ RemoveClient(c)
    /\ UNCHANGED <<blob, memoryVars, historyVars, envVars>>

\* is_unsaved is read before the query for pending rows is sent.
ReadMark(c) ==
    /\ pc[c] = "left"
    /\ sess' = [sess EXCEPT ![c].marked = RegisteredIsUnsaved]
    /\ Goto(c, "check")
    /\ UNCHANGED <<storageVars, memoryVars, snap, historyVars, envVars>>

HasPending(c) ==
    /\ pc[c] = "check"
    /\ \E rs \in RowReads :
         Goto(c, IF rs # {} \/ sess[c].marked THEN "start" ELSE "drop")
    /\ Succeeds
    /\ UNCHANGED <<storageVars, memoryVars, sess, snap, historyVars>>

HasPendingFails(c) ==
    /\ pc[c] = "check"
    /\ Fails
    /\ Finish(c)
    /\ UNCHANGED <<storageVars, memoryVars, historyVars>>

-----------------------------------------------------------------------------
(* Who else compacts: the periodic task, the recovery flush, the admin     *)
(* endpoint.                                                               *)

\* idle_rooms listed the room; how long it has been idle is left open.
Sweep(p) ==
    /\ p \in Sweepers
    /\ pc[p] = "off"
    /\ registry # NoRoom
    /\ Clients(registry) = {}
    /\ Goto(p, "start")
    /\ UNCHANGED <<storageVars, memoryVars, sess, snap, historyVars, envVars>>

ForceCompact(p) ==
    /\ p \in Admins
    /\ pc[p] = "off"
    /\ registry # NoRoom
    /\ Goto(p, "start")
    /\ UNCHANGED <<storageVars, memoryVars, sess, snap, historyVars, envVars>>

\* record(true) on the down-to-up edge: flush the marked rooms.
ProbeAnswers(p) ==
    /\ p \in Probers
    /\ pc[p] = "off"
    /\ ~healthUp
    /\ healthUp' = TRUE
    /\ IF RegisteredIsUnsaved
       THEN Goto(p, "start")
       ELSE UNCHANGED pc
    /\ UNCHANGED <<storageVars, memoryVars, sess, snap, historyVars, faults, crashes>>

ProbeFails(p) ==
    /\ p \in Probers
    /\ pc[p] = "off"
    /\ healthUp
    /\ faults < MaxFaults
    /\ faults' = faults + 1
    /\ healthUp' = FALSE
    /\ UNCHANGED <<storageVars, memoryVars, taskVars, historyVars, crashes>>

-----------------------------------------------------------------------------
(* compact_room_with_outcome, run by task p.                               *)

\* RoomMissing, or RoomActive for a caller that does not force.
Refuses(p) ==
    \/ registry = NoRoom
    \/ p \notin Forced /\ Clients(registry) # {}

StartRefused(p) ==
    /\ pc[p] = "start"
    /\ Refuses(p)
    /\ Finish(p)
    /\ UNCHANGED <<storageVars, memoryVars, historyVars, envVars>>

Start(p) ==
    /\ pc[p] = "start"
    /\ ~Refuses(p)
    /\ snap' = [snap EXCEPT ![p].target = registry]
    /\ Goto(p, "take")
    /\ UNCHANGED <<storageVars, memoryVars, sess, historyVars, envVars>>

\* Cutoff, then the mark, both before the document is read.
TakeMark(p) ==
    /\ pc[p] = "take"
    /\ snap' = [snap EXCEPT ![p].cutoff = stamped,
                            ![p].had = room[snap[p].target].unsaved]
    /\ room' = [room EXCEPT ![snap[p].target].unsaved = FALSE]
    /\ Goto(p, "encode")
    /\ UNCHANGED <<storageVars, registry, sess, historyVars, envVars>>

Encode(p) ==
    /\ pc[p] = "encode"
    /\ snap' = [snap EXCEPT ![p].bytes = room[snap[p].target].doc]
    /\ Goto(p, "meta")
    /\ UNCHANGED <<storageVars, memoryVars, sess, historyVars, envVars>>

\* Mutant: the cutoff is taken after the document was encoded.
CutoffAfterEncode(p) ==
    /\ pc[p] = "meta"
    /\ \E v \in MetaReads :
         /\ v < MaxVersion
         /\ snap' = [snap EXCEPT ![p].ver = v + 1, ![p].cutoff = stamped]
    /\ Goto(p, "put")
    /\ Succeeds
    /\ UNCHANGED <<storageVars, memoryVars, sess, historyVars>>

ReadVersion(p) ==
    /\ pc[p] = "meta"
    /\ \E v \in MetaReads :
         /\ v < MaxVersion
         /\ snap' = [snap EXCEPT ![p].ver = v + 1]
    /\ Goto(p, "put")
    /\ Succeeds
    /\ UNCHANGED <<storageVars, memoryVars, sess, historyVars>>

\* save_snapshot, first call: the object, under the key of the new version.
PutBlob(p) ==
    /\ pc[p] = "put"
    /\ StoreBlob(snap[p].ver, snap[p].bytes)
    /\ Goto(p, "set")
    /\ Succeeds
    /\ UNCHANGED <<version, rows, lag, memoryVars, sess, snap, historyVars>>

\* save_snapshot, second call: the pointer, unconditionally.
SetVersion(p) ==
    /\ pc[p] = "set"
    /\ Commit(snap[p].ver, rows)
    /\ flushed' = flushed \cup snap[p].bytes
    /\ Goto(p, "prune")
    /\ Succeeds
    /\ UNCHANGED <<blob, memoryVars, sess, snap, stamped, sent, saved>>

\* Mutant: the mark that was taken is not put back.
MarkForgotten(p) == UNCHANGED room

\* The mark goes back on the Room object this call has been holding.
RestoreMark(p) ==
    room' = [room EXCEPT ![snap[p].target].unsaved = @ \/ snap[p].had]

\* MetadataMissing or SnapshotFailed.  A put or a set that returns Err may
\* have been carried out.
CompactFails(p) ==
    /\ pc[p] \in {"meta", "put", "set"}
    /\ Fails
    /\ \/ UNCHANGED <<storageVars, flushed>>
       \/ /\ pc[p] = "put"
          /\ StoreBlob(snap[p].ver, snap[p].bytes)
          /\ UNCHANGED <<version, rows, lag, flushed>>
       \/ /\ pc[p] = "set"
          /\ Commit(snap[p].ver, rows)
          /\ flushed' = flushed \cup snap[p].bytes
          /\ UNCHANGED blob
    /\ RestoreMark(p)
    /\ Finish(p)
    /\ UNCHANGED <<registry, stamped, sent, saved>>

\* Mutant: every pending row is deleted, whatever its time.
PruneAll(p) ==
    /\ pc[p] = "prune"
    /\ Commit(version, {})
    /\ Succeeds
    /\ Finish(p)
    /\ UNCHANGED <<blob, memoryVars, historyVars>>

\* delete_updates_before stops at the first delete that fails; its error
\* is logged and the compaction goes on.
Prune(p) ==
    /\ pc[p] = "prune"
    /\ \E rs \in RowReads : \E gone \in SUBSET (rs \cap snap[p].cutoff) :
         /\ Commit(version, rows \ gone)
         /\ \/ gone = rs \cap snap[p].cutoff /\ Succeeds
            \/ Fails
    /\ IF p \in Forced
       THEN Finish(p)
       ELSE /\ snap' = [snap EXCEPT ![p] = NoSnapshot]
            /\ Goto(p, "drop")
            /\ UNCHANGED sess
    /\ UNCHANGED <<blob, memoryVars, historyVars>>

\* remove_if_empty, from a compaction or from an empty read-only session.
Drop(p) ==
    /\ pc[p] = "drop"
    /\ RemoveIfEmpty
    /\ Finish(p)
    /\ UNCHANGED <<storageVars, room, historyVars, envVars>>

-----------------------------------------------------------------------------
\* The instance stops and starts again: memory is gone, storage is not.
Crash ==
    /\ crashes < MaxCrashes
    /\ crashes' = crashes + 1
    /\ registry' = NoRoom
    /\ room' = [r \in Rooms |-> FreshRoom({})]
    /\ pc' = [p \in Procs |-> "off"]
    /\ sess' = [c \in Conns |-> NoSession]
    /\ snap' = [p \in Procs |-> NoSnapshot]
    /\ healthUp' = TRUE
    /\ UNCHANGED <<storageVars, historyVars, faults>>

Init ==
    /\ version = 1
    /\ blob = [v \in {1} |-> {}]
    /\ rows = {}
    /\ lag = [version |-> 1, rows |-> {}]
    /\ registry = NoRoom
    /\ room = [r \in Rooms |-> FreshRoom({})]
    /\ pc = [p \in Procs |-> "off"]
    /\ sess = [c \in Conns |-> NoSession]
    /\ snap = [p \in Procs |-> NoSnapshot]
    /\ stamped = {} /\ sent = {} /\ saved = {} /\ flushed = {}
    /\ healthUp = TRUE /\ faults = 0 /\ crashes = 0

Connect(c) ==
    \/ JoinResident(c) \/ LoadMeta(c) \/ LoadBlob(c) \/ LoadRows(c)
    \/ LoadFails(c) \/ AddClient(c) \/ UpgradeRefused(c)

Edit(c) ==
    \/ StampUpdate(c) \/ AppendOk(c) \/ AppendFails(c)
    \/ \E u \in Updates : ApplyUpdate(c, u) \/ SyncStep2(c, u)

Disconnect(c) ==
    \/ Leave(c) \/ Abort(c) \/ ReadMark(c) \/ HasPending(c) \/ HasPendingFails(c)

Background(p) ==
    \/ Sweep(p) \/ ForceCompact(p) \/ ProbeAnswers(p) \/ ProbeFails(p)

Compact(p) ==
    \/ StartRefused(p) \/ Start(p) \/ TakeMark(p) \/ Encode(p) \/ ReadVersion(p)
    \/ PutBlob(p) \/ SetVersion(p) \/ CompactFails(p) \/ Prune(p) \/ Drop(p)

Next ==
    \/ \E c \in Conns : Connect(c) \/ Edit(c) \/ Disconnect(c)
    \/ \E p \in Procs : Background(p) \/ Compact(p)
    \/ Replicate
    \/ Crash

Spec == Init /\ [][Next]_vars

-----------------------------------------------------------------------------
(* The discipline under which the code keeps every saved edit.  Nothing in *)
(* the code enforces it; each part names an overlap, or a stale read, that *)
(* the code allows.  MCRoomOverlaps drops OneCompaction or JoinsHold.      *)

Compacting(p) == pc[p] \in CompactPCs

\* No two compactions of the document are in flight together.
OneCompaction ==
    \A p, q \in Procs : Compacting(p) /\ Compacting(q) => p = q

\* A cold load does not overlap a compaction.
LoadsAlone ==
    \A c \in Conns, p \in Procs : ~(pc[c] \in LoadPCs /\ Compacting(p))

\* A room is not dropped between ws_upgrade's lookup and add_client.
JoinsHold ==
    \A c \in Conns : pc[c] = "upgrading" => sess[c].room = registry

\* Ordinary reads see every acknowledged write.
FreshReads == lag = [version |-> version, rows |-> rows]

Serialized == OneCompaction /\ LoadsAlone /\ JoinsHold /\ FreshReads

SerialSpec == Init /\ [][Next /\ Serialized']_vars

\* No task is about to drop the room while another compacts it.
RemovalAlone ==
    \A p, q \in Procs : ~(pc[p] = "drop" /\ Compacting(q))

Orderly(A) == A /\ (Serialized /\ RemovalAlone)'

\* The tasks of the instance run: a connection's task finishes what it does
\* on the way out, the sweeper wakes up again, a compaction proceeds.
\* Clients owe nothing, and storage only answers in the end (MaxFaults).
Fairness ==
    /\ \A c \in Conns : WF_vars(Orderly(ReadMark(c) \/ HasPending(c)))
    /\ \A p \in Procs : WF_vars(Orderly(Compact(p)))
    /\ \A p \in Sweepers : WF_vars(Orderly(Sweep(p)))

LiveSpec == Init /\ [][Orderly(Next)]_vars /\ Fairness

-----------------------------------------------------------------------------
(* Properties of every behaviour.                                          *)

\* The pointer in the metadata names an object S3 holds: save_snapshot puts
\* the object before it sets the pointer, whoever crashes or fails between.
PointerNeverDangles == version \in DOMAIN blob

\* What a compaction is about to prune from the edits of its own room is in
\* the bytes it writes: the handler stamps after it applies, and the cutoff
\* is taken before the document is encoded.
CutoffWithinSnapshot ==
    \A p \in Procs :
        pc[p] \in {"meta", "put", "set", "prune"} =>
            snap[p].cutoff \cap room[snap[p].target].stamped \subseteq snap[p].bytes

\* Task p holds the mark of room r and has update u in hand.
HoldsMark(p, r, u) ==
    /\ snap[p].target = r
    /\ snap[p].had
    /\ \/ pc[p] = "encode" /\ u \in room[r].doc
       \/ pc[p] \in {"meta", "put", "set"} /\ u \in snap[p].bytes

\* What is known of edit u, whose save failed: a snapshot with it became
\* current, or its Room is registered and marked, so that whoever empties,
\* sweeps or flushes the document finds it, or a compaction that took the mark
\* is in flight and has the edit in hand.
Tracked(u) ==
    \/ u \in flushed
    \/ /\ RegisteredIsUnsaved
       /\ u \in room[registry].failed
    \/ \E r \in Rooms : u \in room[r].failed /\ \E p \in Procs : HoldsMark(p, r, u)

\* Compaction p fails after its Room, whose mark it had taken, was dropped
\* as clean by somebody else: the mark is put back where nobody looks.
FailsUnregistered(p) == CompactFails(p) /\ snap[p].target # registry

\* room.rs:157-161: an edit whose save failed is never lost track of.  A save
\* that fails in the registered Room is tracked at once, and tracking ends
\* with a restart, or in the one way the code overlooks.
FailedEditsTracked ==
    [][\A u \in Updates :
        /\ registry # NoRoom /\ u \in room'[registry].failed \ room[registry].failed
            => Tracked(u)'
        /\ Tracked(u) => \/ Tracked(u)'
                         \/ crashes' # crashes
                         \/ \E p \in Procs : FailsUnregistered(p)]_vars

-----------------------------------------------------------------------------
(* Properties of the serialized behaviours.                                *)

\* Every edit whose append_update returned Ok is recovered by a cold load.
SavedDurable == saved \subseteq Stored

\* Storage never forgets an edit, saved or merely landed: no snapshot and
\* no prune makes a cold load return less than the one before it.
StoredGrows == [][Stored \subseteq Stored']_vars

\* Once the last client is gone, an edit whose save failed is written by a
\* later compaction, unless a client comes back first (MaxVersion is the
\* model's bound, not the code's).
Orphaned(u) ==
    /\ registry # NoRoom
    /\ u \in room[registry].failed
    /\ \A c \in Conns : pc[c] \notin {"upgrading"} \cup OpenPCs

FailedEventuallyFlushed ==
    \A u \in Updates :
        Orphaned(u) ~>
            \/ u \in flushed
            \/ \E c \in Conns : pc[c] = "upgrading"
            \/ version = MaxVersion

-----------------------------------------------------------------------------
(* The inductive invariant behind SavedDurable and StoredGrows.            *)

\* The registered room holds whatever a cold load would find.
RoomHoldsStored == registry # NoRoom => Stored \subseteq room[registry].doc

\* Connections sit in the registered room, which holds the update each is
\* handling; an update is handled once and unstamped until StampUpdate.
SessionInv ==
    /\ \A c \in Conns : pc[c] \in {"upgrading"} \cup OpenPCs => sess[c].room = registry
    /\ \A c \in Conns : pc[c] \in {"applied", "saving"} =>
         /\ sess[c].edit \in sent
         /\ sess[c].edit \in room[registry].doc
         /\ pc[c] = "applied" => sess[c].edit \notin stamped
    /\ \A c, d \in Conns :
         /\ {pc[c], pc[d]} \subseteq {"applied", "saving"}
         /\ sess[c].edit = sess[d].edit
         => c = d

\* A load happens with no room registered, one at a time, and has read the
\* current snapshot.
LoadInv ==
    /\ \A c \in Conns : pc[c] \in LoadPCs =>
         /\ registry = NoRoom
         /\ pc[c] = "blob" => sess[c].key = version
         /\ pc[c] = "rows" => sess[c].doc = blob[version]
    /\ \A c, d \in Conns : pc[c] \in LoadPCs /\ pc[d] \in LoadPCs => c = d

\* A compaction works on the registered room, or on one just dropped; what
\* it writes covers the snapshot it replaces and the rows it will prune.
CompactOK(p) ==
    /\ snap[p].cutoff \subseteq stamped
    /\ pc[p] \in CompactPCs => registry \in {NoRoom, snap[p].target}
    /\ pc[p] \in {"take", "encode"} => Stored \subseteq room[snap[p].target].doc
    /\ pc[p] \in {"meta", "put", "set"} =>
         /\ blob[version] \subseteq snap[p].bytes
         /\ snap[p].bytes \subseteq room[snap[p].target].doc
    /\ pc[p] \in {"put", "set"} => snap[p].ver = version + 1
    /\ pc[p] = "set" => snap[p].ver \in DOMAIN blob /\ blob[snap[p].ver] = snap[p].bytes
    /\ pc[p] = "prune" => blob[version] = snap[p].bytes
    /\ pc[p] \in {"meta", "put", "set", "prune"} =>
         /\ rows \cap snap[p].cutoff \subseteq snap[p].bytes
         /\ \A c \in Conns :
              pc[c] = "saving" /\ sess[c].edit \in snap[p].cutoff =>
                  sess[c].edit \in snap[p].bytes

CompactInv == \A p \in Procs : CompactOK(p)

StoredInv ==
    /\ stamped \subseteq sent
    /\ PointerNeverDangles
    /\ SavedDurable
    /\ RoomHoldsStored

SerialInv ==
    /\ TypeOK
    /\ Serialized
    /\ StoredInv /\ SessionInv /\ LoadInv /\ CompactInv
=============================================================================
