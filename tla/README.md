# OgreNotes in TLA+

A verification project for OgreNotes, a collaborative document server in Rust:
TLA+ modules translated from `src/`, TLC configurations that check them on
small instances, and theorems that TLAPS checks for every value of the
constants. `PROJECT.json` holds the same facts as data: components, runs,
mutants (a plausible bug per property, which the property must catch), the map
from definitions to source lines, findings, hazards, theorems.

    tlc -workers 2 -config CollabSync.cfg MCCollabSync.tla
    tlapm RoomSerialProofs.tla

1. [Inventory](#1-inventory)
2. [Room persistence](#2-room-persistence)
3. [Collaboration between tabs and instances](#3-collaboration-between-tabs-and-instances)
4. [The document store](#4-the-document-store)
5. [The job queue](#5-the-job-queue)
6. [The Quip import](#6-the-quip-import)
7. [Where the code does otherwise than it says](#7-where-the-code-does-otherwise-than-it-says)
8. [Proofs](#8-proofs)
9. [Not modelled](#9-not-modelled)
10. [Plan](#10-plan)

## 1. Inventory

OgreNotes is one binary that runs as API server or as worker. Documents are
CRDTs (a vendored `yrs`); DynamoDB holds metadata and the log of updates, S3
holds snapshots and staged files, Redis holds the job stream, sessions,
counters, and the pub/sub channels between API instances.

| component | state | operations | talks to | hard | correct when |
|---|---|---|---|---|---|
| **room persistence** (`ws.rs`, `compaction.rs`, `storage_health.rs`, `room.rs`, `doc_repo.rs`) | snapshot pointer, snapshot objects, update rows; registry of Rooms, each with document, clients and an unsaved mark | cold load, join, edit, leave, sweep, force-compact, recovery flush | S3, DynamoDB, pub/sub | four kinds of task compact one document over six remote calls each; calls fail, land and fail, or race | an acknowledged edit is recovered by every later load; an edit whose save failed is not forgotten |
| **client sync and cluster fan-out** (`ws_client.rs`, `yrs_bridge.rs`, `ws.rs`, `room.rs`, `redis_pubsub.rs`) | in a tab the editor's model, a baseline, a CRDT document and a pending queue; per instance a room and a Redis subscription | type, fold, send, handshake, reconnect, resend; apply, broadcast, publish, relay, resync | rooms of other instances, storage | debounces, a socket that closes under a send, lost publications, two instances pruning one log | nothing typed vanishes or is erased for others; replicas differ only by what is known to be lost |
| **document store over HTTP** (`documents.rs`, `doc_repo.rs`) | METADATA and other rows, snapshot objects, images | create, copy, save with expected version, upload, trash, restore, purge | rooms, reconciler | every request checks first and writes later; late writers after a purge | what is there is whole; what is purged is erased |
| **trash and blob reconciliation** (`trash_cleanup.rs`, `blob_reconcile.rs`) | index of trashed documents, orphaned prefixes | list, purge, condemn, collect | document store | restore racing purge, a prefix in use that looks orphaned | retention is applied, leftovers are collected, nothing living is |
| **job queue** (`worker/src/lib.rs`) | stream with pending entries, status per job, outbox of terminal effects, dead-letter stream | enqueue, read, start, touch, ack, retry or dead-letter, claim stale, complete finalization | Redis scripts | lost replies, reclaim, late finalizers | one entry per open job, a terminal status is final, retries spent only on real failures |
| **worker runtime** (`worker_mode.rs`, `routes/jobs.rs`) | consumer and reaper tasks, reaper slots, heartbeats | run a delivery, finalize, recover the outbox, reap | job queue, S3, import repository | crash between outcome and effect, superseded tasks, storage outages | every job ends, every effect is applied once, a batch claims no delivery of its own slots |
| **upload route** (`routes/documents.rs`) | staging blob | stage, enqueue, clean up | S3, job queue | enqueue's lost reply | a queued upload finds its blob |
| **Quip import** (`imports.rs`, `worker_mode.rs`, `import_repo.rs`, `folder_repo.rs`) | import record with active run, lease, status; thread rows, folder rows; documents and folders it makes | start, activate, claim, heartbeat, mirror folders, walk threads, checkpoint, complete | job queue, Quip, documents, folders | runs that overlap, workers that pause past their lease, an outage of Quip, users who edit what is being imported | one document per thread and one folder per row, in place and complete; a status that is the newest run's |
| Quip client and throttle (`quip-import`) | token bucket | fetch, wait, refresh | Quip | - | - |
| awareness (`awareness.rs`) | presence per client | set, remove, expire | cluster | disconnect racing reconnect | presence belongs to a live connection |
| sessions and sign-in (`auth`, `redis_session.rs`, `mfa.rs`, `saml.rs`) | refresh tokens, MFA challenges | issue, rotate, revoke | Redis, DynamoDB | two refreshes at once (`session.rs:50`) | one rotation per token |
| access control (`folders.rs`, `sharing.rs`, `folder_inherit_cache.rs`) | grants, cached inherited access | share, revoke, move | documents | a cached grant outlives a revocation (`folder_inherit_cache.rs:40`) | revocation takes effect within the cache's bound |
| notifications (`notify`, `digest.rs`) | per-user cap, digest cursor | send, count, digest | Redis | concurrent senders (`cap.rs:35`) | cap honoured, digest sent once |
| workspaces, users, SCIM | membership, roles | add, remove, transfer | sessions | two removals at once | a workspace keeps an owner |
| search and embeddings, rate limiting, comments, chat, mentions, activity, audit | derived indexes, counters, independent rows | single conditional writes | all | little shared state | - |
| editor core (`frontend/src/editor`) | document, selection, undo stacks, decorations | apply transaction, undo, redo, map positions, bridge to the CRDT | client sync | undo across remote changes | undo reverts only the user's own steps |
| spreadsheet engine (`frontend/src/spreadsheet`) | cells and formulas | evaluate, translate references, pivot | editor | cycles, moved references | evaluation terminates; a moved formula refers to the same cells |
| document model, rendering, vendored CRDT, infrastructure | none | pure conversions, third-party code, deployment | - | - | - |

How they interact, and which module sees which side:

    tab --frames--> ws.rs --> Room --> update log, snapshots --> cold load
     |   CollabSync   |        |  RoomPersistence     |
     |                +--Redis-+--> other instances   +--- DocumentStore --- trash, purge,
     |                   CollabSync                   |                     reconciler
    HTTP --> documents.rs ----------------------------+
         --> upload, imports.rs --> job queue --> worker --> import runs --> documents
                                    JobQueue                ImportRuns, ContentPass,
                                                            ImportFolders

The modules meet at promises rather than in one state space: `CollabSync`
takes a compaction as one step, which `RoomPersistence` takes apart;
`DocumentStore` has the rows and objects of a document whose bytes
`RoomPersistence` follows; `ImportRuns` takes from `JobQueue` that one receipt
is current and that a terminal effect is applied, and has the overlaps of
runners that `ContentPass` leaves out.

The hazards, each at its line, are in `PROJECT.json`.

## 2. Room persistence

Module `RoomPersistence`, instances `MCRoomPersistence` and `MCRoomOverlaps`,
proofs `RoomPersistenceProofs` and `RoomSerialProofs`.

One document on one API instance. A document is the set of its edits and
merging is union; every call to S3 or DynamoDB is a step of its own, which may
fail before it lands or land and report failure.

| variable | in the code |
|---|---|
| `version`, `blob`, `rows` | `DocumentMeta.snapshot_version`, the objects `docs/{id}/snapshots/{v}.bin`, the `UPDATE#` rows |
| `lag` | what an eventually consistent read (`dynamo.rs`, `get_item`, `query`) may still answer |
| `registry`, `room` | `RoomRegistry`'s entry and the `Room` objects; `unsaved` is the mark; `stamped` and `failed` are history |
| `pc`, `sess`, `snap` | where each task is and its locals: a connection's in `ws_upgrade` / `handle_ws`, a compaction's in `compact_room_with_outcome` |
| `stamped`, `sent`, `saved`, `flushed` | history the properties speak about |
| `healthUp` | `StorageHealth` |

Actions follow the handlers: `JoinResident`, `LoadMeta`, `LoadBlob`,
`LoadRows`, `AddClient` are the upgrade; `ApplyUpdate`, `StampUpdate`,
`AppendOk`, `AppendFails` the Update frame; `SyncStep2` the frame of that name;
`Leave` / `Abort`, `ReadMark`, `HasPending` the way out; `Sweep`,
`ForceCompact`, `ProbeAnswers`, `ProbeFails` the background callers; `Start`
to `Drop` the compaction they share.

Abstractions: the wall clock is the set of updates stamped so far, which
supposes that the clock of one instance does not run backwards; a cold load
that finds no metadata, or a deleted document, is left out; so are access
revocation, caps, awareness, and frames that change nothing. `Room` identities
are reused once no task can reach them. A client's resend of an edit its room
already has (`ws_client.rs:907`), which is stamped and appended once more, is
left out (guard `u \notin sent` of `ApplyUpdate`): it only adds rows. A call
that reports failure has landed by then or never lands: a put that lands after
a later compaction wrote the same key, and an append that lands after its task
was aborted (`ws.rs:1335`), are left out.

`FailedEditsTracked` is a property of steps: a save that fails in the
registered Room is tracked at once (the Room is marked and remembers it, or a
task that has taken the mark still holds it), and tracking ends only with a
snapshot that has the edit, a restart, or a compaction that fails after its Room, whose mark it
had taken, was dropped by somebody who found it clean. The last is a loss, and
section 7 has it.

### The discipline

The code does not keep every saved edit under every interleaving (section 7).
`Serialized` names the overlaps that must not happen: two compactions of the
document in flight (`OneCompaction`), a cold load during a compaction
(`LoadsAlone`), a room dropped between lookup and `add_client` (`JoinsHold`),
reads that miss an acknowledged write (`FreshReads`). Nothing in the code
enforces it; it is what an operator gets while these tasks happen not to meet.
`SerialSpec` is `Spec` under it: storage calls still fail or half-land and the
instance restarts at any point, and edits, joins, leaves and one compaction
still interleave.
Dropping `OneCompaction` or `JoinsHold` breaks `SavedDurable`, as section 7
describes. Dropping `LoadsAlone` or `FreshReads` alone breaks `SavedDurable`
too: a cold load reads the old snapshot and then the rows a compaction has
pruned meanwhile, or a lagging replica answers it, and the room that starts
without those edits later writes a snapshot that supersedes them. No run is
kept for these; `SerialSpec` without the conjunct shows them in seconds.

### Runs

| run | spec | checks | instance |
|---|---|---|---|
| `room_serial` | `Spec`, constrained to `Serialized` states | `SavedDurable`, `StoredGrows` | 1 edit, 2 connections, the sweeper and an administrator, 3 versions, 1 fault, 1 restart |
| `room_interleaved` | `Spec` | `TypeOK`, `FailedEditsTracked`, `CutoffWithinSnapshot` | 2 edits, 1 connection, the probe, 2 versions, 2 faults |
| `room_live` | `LiveSpec` | `FailedEventuallyFlushed` | 1 edit, 1 connection, sweeper and probe, 2 faults |
| `room_overlap` | `OverlapSpec` | `SavedDurable`, violated (section 7) | 1 edit, 1 connection whose leaving compacts, an administrator |

`CutoffWithinSnapshot` is about the rows a compaction may prune of its own
Room; the rows of a Room outside the registry it may prune without having
their edits (section 7).

Why these bounds: the hazards are between an edit that is in a snapshot and
one that is not (one edit that is stamped before or after a cutoff; 2 edits where
a failed save and a later one differ), an edit and a leave at once (2 connections,
or a connection beside the background tasks), the old and the new pointer and
one beyond it (3 versions where a snapshot replaces one that is not empty), two Rooms of one document (2 identities, 3 where a third load
matters), a call that fails and its retry that fails again (2 faults; one where two
connections, two compacting tasks and a restart meet). The constraint of `room_serial`
keeps the states of `SerialSpec` and, unexplored, those one step beyond it. `Updates`,
`Conns` and `Rooms` are symmetric. `ReachableView` identifies states that differ
only in a Room no task can reach; the next use of that identity overwrites it.
The room may stop when the bounds are spent, so deadlock is not checked.

Fairness (`LiveSpec`): weak fairness of a connection's way out (`ReadMark`,
`HasPending`: its task runs to its end), of every compaction step (one task
awaiting one call after another), and of the sweeper (a loop on a timer).
Clients are assumed nothing; storage answers in the end because `MaxFaults`
is finite. The live run is under the discipline, and additionally no room is
dropped while another task compacts it (`RemovalAlone`): a compaction takes
the unsaved mark before it has written the snapshot, and another path that
looks meanwhile drops the room as clean; if the write then fails, the mark is
restored on a room nobody finds, and the failed edit is gone. `FailedEventuallyFlushed`
excuses a run out of versions, which is the bound's doing.

## 3. Collaboration between tabs and instances

Modules `CollabSync` and `MCCollabSync`.

One document open in browser tabs whose WebSockets end at different instances.
An edit inserts a block: the n-th edit of tab t is `<<t, n>>`. A CRDT document
is the set of edits it was given, of which it shows those whose author's
earlier edits are there too (`Integrated`); a state vector counts only these.

| variable | in the code |
|---|---|
| `view`, `base`, `ydoc` | the editor's model, `last_synced_doc`, the tab's yrs document |
| `queue`, `state`, `nth`, `unsaved` | `pending_updates`, `ConnectionState`, `self.ws`, the badge |
| `due`, `show` | the send and the receive debounce |
| `link`, `up`, `down` | a socket and the frames on it, each end learning of a cut in its own time |
| `site`, `seat`, `job`, `failed` | the connection's task in `handle_ws`: its room, the Update in hand (publish, then save), `had_persist_failure` |
| `alive`, `room`, `mark`, `inbox` | the registry's room, its document and unsaved mark, what Redis has for the instance |
| `rows`, `snap` | the update log and the current snapshot |
| `erased`, `silent`, `pruned` | history: edits of peers a fold deleted; edits somebody may never be told of; saved edits a compaction dropped |

Actions: in the tab `Type`, `SendDue`, `ClientReceive` (`Merge`, `Answer`,
`Badge`), `ShowRemote`, `Resend`, `Connect`, `OnClose`; at the instance `Join`,
`ServerReceive` (`Backfill`, `Absorb`, `Apply`), `Publish`, `Save` or
`SaveFails`, `Leave`, `Compact`, `Fanout`, `Lag`; the world's `Cut` and
`Crash`. The heart of the tab is the fold (`Folded`): what the model has beyond
the baseline is written to the CRDT document, and what only the baseline has
is deleted from it. A baseline that runs ahead of the model would delete
peers' blocks for everybody; a model replaced without a fold would lose
keystrokes.

Abstractions: deletions and merges within a block, awareness, read-only
sessions, access revocation, the rate limit, subscriptions to other documents
and the debounce of the lag resync are left out. So is the reject mode of the
LiveApp gate (`ws.rs:904-924`, `ws.rs:952-985`, `ws_client.rs:331-343`), which
refuses an Update or SyncStep2 and leaves the edit in its tab alone; in the default
mode, `log`, the edit is applied. Every block has an id; blocks of legacy documents
without one, which a fold deletes when they match nothing in the model, whatever
the baseline says (`yrs_bridge.rs:578-603`), are left out. A compaction and a cold load are
one step each (they are taken apart in `RoomPersistence`), and so are applying
an update and broadcasting it. The ten seconds between two resends are modelled
by waiting for the answer.

| run | checks | instance |
|---|---|---|
| `collab_sync` | `NothingVanishes`, `NothingErased`, `TabsReachRoom`, `DifferencesExplained`, `BadgeHonest` | 2 tabs, 2 instances, 2 edits, 3 connections in all, 1 mishap (failed publish or save, lag, cut or crash) |

`NothingVanishes` and `NothingErased` are the two halves of the fold's
promise. `TabsReachRoom` says that what a quiet tab shows is in its instance's
room, however its sockets broke. `DifferencesExplained` says that when nothing
is under way any two copies differ only by `silent` and `pruned` edits; each
place that adds to these is a place where the code does tell nobody, and
section 7 lists them. `BadgeHonest` says that a quiet tab shows "Not saved" while
the last append on its connection failed, and that each edit it has made is
stored, or in a room marked unsaved and so in its next snapshot, with the same
two exceptions. (That a tab may show no badge while an earlier edit is only in
such a room is the hazard of `ws.rs:1040`.)

Why these bounds: 2 edits make an order within one author or a conflict of two; 3
connections allow each tab one and either of them a reconnect; one mishap is
enough for every difference found. The run starts when one tab, synced and alone,
makes its first edit (`MCInit`), a state the module's `Init` reaches. The
system may stop when the bounds are spent, so deadlock is not checked, and no
fairness is assumed.

## 4. The document store

Module `DocumentStore`.

What is stored of a document, from its creation to its erasure. Requests, the
live room, the trash sweep and the blob reconciler write it with no lock
between them.

| variable | in the code |
|---|---|
| `row`, `version`, `trashed`, `indexed` | the METADATA row (full, missing, or a `ghost`: the attributes an update left on a row that was gone), its `snapshot_version`, `is_deleted`, and its place in the index of the trash |
| `rows`, `objects` | the other rows under the key; objects under `docs/` and `blobs/` |
| `pc`, `doc`, `base`, `found`, `botched` | a request, a sweep or a compaction: its step, document, the version it read, the rows it queried, a prefix it failed to clear |
| `todo`, `open` | what the trash sweep listed; documents with a live room |
| `cursed` | documents whose deletion fails every time |
| `hollow`, `pictured`, `audited`, `since`, `escaped` | history: a first snapshot not yet written, content that refers to an image, a purge on record, what was written since a purge looked, a restore while a purge had the document in hand |

Actions: `Begins` / `BeginCopy` are the checks a request makes first; then
`CopyImages`, `CreateRow`, `PutFirst`, `PutNext` and `Commit` or `Conflict`
(`save_snapshot_conditional`), `Trash`, `Restore`, `Upload`; `Query`,
`DeleteRow`, `SweepDocs`, `SweepBlobs` are `hard_delete`, for the route and for
the sweep (`List`, `Take`), and `Refuse` one that never succeeds; `Open`, `Append`, `Compact`, `Point`, `Prune` the
live room; `Condemn`, `Collect` the reconciler; `Drop` a call that fails or a
request whose client hangs up.

Time is an abstraction of its own: what is older than a day, or than the
retention, is what nothing is at work on (`Settled`). Left out:
`restore_version`, the rows of version history, sharing and members other than
the owner, folders above the document, replica and index lag, payload objects
of large updates, batch limits and dry runs. The limit matters to retention:
a sweep lists the `MAX_PURGES_PER_TICK` (200, `trash_cleanup.rs:41`) oldest
documents of the trash (`doc_repo.rs:544-569`), so as many whose purge fails
every time would fill every listing and hold up the rest.

| run | checks | instance |
|---|---|---|
| `document_store` | `ErasedWhenAudited`, `Intact`, `PurgedFromTrash`, `RetentionUnlessGhost`, `LeftoversCollected` | 2 documents: one there already or still to be copied, and a bystander, missing or in the trash since before, whose purge may fail every time; 2 requests at a time and 3 in all, sweep, compaction and reconciler, 3 at work at a time (the bystander counts as one), 2 versions, 1 update, 1 fault |

Why these bounds: requests, room and sweep interfere on one document, so the
second is not asked for anything and there is no room while it is there; it is for what
documents do to each other, namely a ghost of one that fails the listing of
the other, and a sweep that has to go on past the one whose purge fails
(`trash_cleanup.rs:91-95`). Three requests are a trash, a restore or purge, and
one that looked earlier; two versions are the one read and the one written. Fairness: a request, the sweep, a snapshot in
progress and the reconciler go on (each is a task or a timer's loop); nobody
is assumed to make requests. Deadlock is not checked: with nothing asked and
nothing to collect, the store rests.

## 5. The job queue

Modules `JobQueue`, `JobLedger` (what it promises), `MCJobQueue`, `JobQueueProofs`.

| variable | in the code |
|---|---|
| `entry`, `lastId` | the Redis stream with the pending-entries list of its group: owner, delivery count, idle time as one bit (`REAPER_MIN_IDLE_MS` reached or not) |
| `status` | hash `job:{id}` |
| `outbox` | hash `{stream}:finalizations` |
| `dlq` | `{stream}:dlq` |
| `producer`, `staged` | the request in `documents.rs` and its staging blob |
| `effect` | the terminal effect applied: `apply_job_completion` or the blob's removal |
| `pc`, `work` | each consumer, reaper and reaper slot, and the `ClaimedJob` or `PendingFinalization` it holds |
| `blamed` | history: the attempts whose failure the storage probe confirmed |

Redis runs a script alone, so each script is one step; a lost reply is the
script's effect together with the caller's error branch. `Read` / `Start` are
`read_one`, `CheckOutbox`, `Renew`, `Heartbeat`, `Execute*`, `Probe*`, `Ack`,
`Retry`, `Settle` are `execute_and_finalize`, `Apply` / `Complete` are
`reconcile_finalization`, `Scan` the outbox pass, `Reap*` the claim and
admission of a batch, `Lapse` and `Stall` the passing of time, `Crash` a
worker process stopping and its replacement starting.

Abstractions: a handler is one step, so its repeated side effects after a
reclaim are not seen here. `HSCAN`'s cursor and page of 32 become any one
record. A batch is the oldest stale deliveries up to the free slots and
`REAPER_BATCH`; reading the free slots, claiming and admitting is one step
(meanwhile slots only get freer). Consumer names are kept across a crash,
where the code draws a random prefix; the receipts that could be confused are
gone with the process, and every claim raises the count that fences them.
`MaxCount` saturates the delivery count. The 24-hour expiry of a status, the
group's creation at `$` and replay of dead letters by operators are left out.

### Runs

| run | checks | instance |
|---|---|---|
| `queue_upload` | `OneEntryPerOpenJob`, `ReaperKeepsItsReceipts`, `DeadLetterEarned`, `AcceptedUploadStaged`, `NewestClaimDecides` | one upload and an envelope that does not parse (a newer producer), a consumer on one process, two slots on the other, 1 retry, 1 fault, 1 crash |
| `queue_import` | `EffectOwedOrDone`, `ImplementsLedger`, `EveryJobEnds`, `EffectsSettle` | one Quip import, whose effect may fail, under `LiveSpec`; 1 retry, 2 faults, 1 crash |

Why these bounds: the fences separate the holder of a delivery from one it
was taken from, so a consumer, a second process that reclaims, and a third
task that reclaims again; 1 retry distinguishes a replaced entry, its
successor and the exhausted budget; where the outcome is at stake, 2 faults
allow a stall followed by a lost reply, the shortest route to a superseded
finalizer whose retry is answered "already finalized". `MAX_RETRIES` is 3 and `REAPER_BATCH` 16 in the code; the
theorems hold for every value. The queue may be empty for good, so deadlock
is not checked.

Fairness (`LiveSpec`): consumers loop on reading, a started delivery goes on,
a handler returns, the reaper's tick scans the outbox and claims, and a
delivery without heartbeat ages. Nothing is assumed of producers, and failures
end because `MaxFaults` and `MaxCrashes` are finite.

## 6. The Quip import

An import copies a user's Quip folders and threads. Starting one publishes a
run to the job queue; a worker takes the run under a lease, lists folders and
threads, mirrors the folder tree, turns threads into documents one by one, and
answers with a verdict that the queue's outbox applies to the import's status.

### The content pass

`ContentPass`, `MCContentPass`, `ContentPassProofs`. One runner at a time
walks the manifest, over the runs of one job. A thread is its position; what
Quip answers for it (`nature`) is fixed, except during an outage. `state` and
`attempts` are the THREAD# row, `at`, `streak` and `owing` the locals of
`run_content_pass`, `job` and `attempt` the place in the queue. Each outcome
of `import_one_thread` is an action: `PassOver`, `Import`, `SkipForbidden`,
`SkipChat`, a failure that is the thread's fault (`GiveUp`, `FailLater`,
`Trip`: the charge, the limit, the breaker) or the run's (`RunFailure`,
`TokenRejected`).

`content_pass` checks all manifests of six threads with a breaker of two and
the code's three attempts and three retries, one fault and one outage:
`DeadLetterIffTooManyBlocks` (without outage or fault the job is lost exactly
if a bad thread lies behind two trips of the breaker), `SucceededDecided`,
`OutageRadius`, `GivenUpLate`. Six threads make three blocks of two, one more
than the passes to spare; forbidden and chat threads act on the streak as good
ones do, so one of them per manifest is enough.

`OutageRadius` is how far outages reach, whenever they come and wherever the
walk has got to: a thread that was charged lies at most as many breakers'
lengths behind the last thread imported or skipped before it (or the start of
the manifest) as there were passes, and one that was given up as many as there
were passes beyond its allowance.

### The folder tree

`ImportFolders`, `MCImportFolders`, `ImportFoldersProofs`. Two runs that overlap
create one folder per FOLDER# row, parents first, in four writes each (`Link`,
`Create`, `AddOwner`, `Record`); the first to record wins and the other adopts
its id. Then each document is filed. The user may delete a folder meanwhile,
in the two steps of `delete_folder`. `Placed` is `order_folders_parent_first` as
a function of the number of rows looked at (`Looks`): each wave looks at every
row once and places those whose parent is placed or missing, and a last round
places what is left, which is on or below a cycle. `OrderSound` says what the
order is for: each row is placed once, and hangs under its parent, which then
comes earlier, exactly if the chain of its parents ends.

`import_folders` orders every parent relation of three rows (missing parents
and cycles included) and walks three shapes of them with two runs, one fault
and seven folders created: `OrderSound`, `RecordedIsMade`, `TreeMirrored`,
`OrphansEmpty`, `AllFiled`. Fairness: the queue runs a job that failed again
and a run goes on. `ensure_import_folder` makes one folder by the same
protocol and is not modelled twice.

### Runs, lease and checkpoints

`ImportRuns`, `MCImportRuns`. Two starts of one import publish and activate
their runs in any order; two workers take what is delivered, under a lease
with a heartbeat. A worker may pause for as long as it likes, lose lease and
receipt, and wake up in the middle of what it was doing; or it runs on while
its heartbeats fail, and loses them all the same. The user opens documents in
rooms, edits and saves them. A room rests on the snapshot object it was loaded
from: when the import writes that object again under other client ids, what is
typed in the room from then on refers to what is there no longer.

| variable | in the code |
|---|---|
| `published`, `active` | how far a start has come; `active_run_sequence` |
| `status`, `statusBy`, `applied` | the import's status, the run that wrote it, the completions applied |
| `lease`, `delivery` | `runner_instance` with a recent heartbeat or not; the queue's entry, from `JobQueue`'s promise |
| `state`, `attempts`, `reserved` | the THREAD# rows |
| `row`, `object`, `linked`, `version`, `edited` | the documents, their snapshot, folder link, and the user's saves and pending edits |
| `open`, `stale` | documents with a room on the object that is there, and with one on an object replaced since |
| `staged` | runs with raw HTML under their prefix |
| `pc`, `run`, `at`, `seen`, `doc`, `owing`, `verdict` | each worker's place in the handler and its locals |
| `late`, `lapsed`, `unswept` | history: runs driven on without the receipt, workers whose lease aged out and was not renewed since, runs whose one sweep of staged HTML failed or never came |
| `exposed`, `disturbed` | history: documents open while a write of the import was decided on and not made yet; documents with edits that lost the object they rest on |

The handler's actions follow
`execute_start_quip_import`: `Take`, `Compare`, `Claim`
or `StandBack`, `SetRunning` or `Overtaken`, `Inventory`, the visits
(`PassOver`, `Skip`, `Charge`, `Prepare`), `CreateRow`, `PutObject` or
`PutFails`, `CheckUpdates` and `Reassert` (`reassert_imported_snapshot`, after
any error of `create`, a lost reply included; `PutObject` and `Reassert` share
`Rewrite`, which is what a write does to pending edits and rooms), `LinkToFolder`, `Checkpoint`,
`Finish`, `Leave` or `LeaveUncleared`, then `Ack`, `Retry`, `LeavePending` or `LoseReceipt`;
`Apply` is the outbox, and `Sweep` in it the cleanup of staged HTML, which may fail. `Expire` ages the lease
of a worker that is paused or gone, `MissHeartbeats` that of one that runs on
(`worker_mode.rs:1370-1392` drops the errors of its heartbeats), and `Reclaim`
and `MissRenewals` do the same to the receipt; `Open`, `Close`, `Edit`, `Save`
are the user's. Folders, mentions, images, the report and the token
store are left out; `ContentPass` has the breaker and the budgets.

| run | checks | instance |
|---|---|---|
| `import_runs` | `OneDocPerThread`, `DoneHasDocument`, `EditsDisturbedOnlyIfOpen`, `OneRunnerPerLease`, `EndedUnlessLate` | 2 workers, 2 runs, 1 thread, 2 mishaps; at most one of a second start, a second mishap and a user who opens and edits (bound `Mixed` = FALSE) |
| `import_live` | `EveryRunEnds` | 2 workers, 1 run, 1 thread, 1 retry, 1 mishap |

One thread is enough because every claim is about one thread and its document;
`ContentPass` has the manifests. Two runs and two workers are what it takes to
overlap. `EditsDisturbedOnlyIfOpen` says when a user's edits lose the object
they rest on: only where the document was open in a room at some moment
between an import's decision to write it and the write. `OneRunnerPerLease`
says what the lease promises: two runners are at work together only if the
lease of one aged out. Fairness: a worker that is not paused goes on, an entry that workers
read again and again is taken (the consumer reads the stream in order, hence
strong fairness of `Take`), the outbox, the reaper and the expiry of a lease
are timers. A paused worker need not wake. Crashes, pauses, missed heartbeats,
a lease that is not cleared and an unreachable storage are the mishaps, whose
number is bounded.

## 7. Where the code does otherwise than it says

`room_overlap` is a run that must end in a violation, and `PROJECT.json`
"findings" quotes the comment it contradicts. The others were found with the
modules at hand, by a property that failed or by the exception it had to
name; a property that is checked states what does hold.

Room persistence:

- *Overlapping compactions* (`room_overlap`): two compactions of one document,
  one forced while the last client leaves, or two forced ones, read the same
  version and write the same key; the older bytes win after the newer prune,
  and a saved edit is gone.
- *Join race*: a room dropped between a joiner's lookup and its `add_client`
  (`ws.rs:703`) lives on outside the registry; rows its clients append are
  pruned by the next room's compaction without being in its snapshot, although
  `doc_repo.rs:1153` says that only updates included in the snapshot are pruned.
- *Mark on a lost room*: a compaction takes the unsaved mark before it has
  written anything; a client that leaves meanwhile finds the room clean and
  drops it; if the write then fails, the mark goes back on a Room nobody
  finds, and the failed edit is gone. `room.rs:157-161` says that failed edits
  are never lost track of, and `test_storage_health.rs` that "an unsaved room
  must outlive its last client". It is the exception `FailedEditsTracked`
  names, and the reason for `RemovalAlone`.

Collaboration (`silent` and `pruned` in the module):

- *SyncStep2* (`ws.rs:883-926`): an update that arrives in it is applied but
  neither broadcast, published, appended nor marked; the same holds for the
  rest of a handler that is aborted when its socket closes. Other copies learn
  of it by a handshake only, and hold later edits of its author back until then.
- `room.rs:706-708` expects an update that finds no room to "be replayed from
  DocRepo", but it is published (`ws.rs:983`) before it is appended
  (`ws.rs:1010`): a room loaded between the two has neither.
- *Lag* (`redis_pubsub.rs:182-191`): the resync asks the instance's own
  clients, who need not have what was dropped.
- *Compaction elsewhere*: an instance prunes rows, or replaces a snapshot,
  whose edits its own room never received.
- *Badge*: `had_persist_failure` is per connection (`ws.rs:826`), so after a
  reconnect no persist-ok comes, the badge stays and the whole document is sent
  every ten seconds. The other way round, the success of a later save clears the
  badge while an earlier edit is only in a marked room, and a persist-failed
  sent to a connection the tab has given up never arrives.

Document store:

- *Ghost rows*: `soft_delete` and `restore` update without a condition
  (`doc_repo.rs:526`), so a request that looked before a purge leaves a row with
  nothing but these attributes; in the trash index one such row fails every
  listing (`doc_repo.rs:568`), and nothing is retired any more, this document
  or another, although `trash_cleanup.rs:91-95` means to go on past a bad
  document. It is the exception of `RetentionUnlessGhost`. The reconciler
  leaves its prefixes undecided for ever.
- *Overwritten winner*: a save with an expected version puts its object before
  it loses on the condition (`doc_repo.rs:899-906`); the winner's pointer then
  names the loser's bytes. A compaction's pointer is set without a condition
  (`doc_repo.rs:851`) and may go back.
- *Partial purge*: a purge that fails after METADATA is gone cannot be
  repeated (404), and rows that were left are collected by nobody, although
  `doc_repo.rs:769-776` says that both callers may retry and a retry is safe. A restore checked before
  a purge may be lost to it.

Job queue:

- *Lost enqueue*: the upload route deletes the staging blob when enqueue errs
  (`documents.rs:604`), although the script may have run.
- *Poison*: one delivery that does not parse fails the batch it is claimed in,
  each time (`lib.rs:808`); a good delivery beside it is claimed, not run, and
  claimed again. `EveryJobEnds` is checked without such a batch.

Import:

- *Progress*: `worker_mode.rs:2691-2694` says that every deterministically
  failing thread within two breakers' length of a success is given up within
  the job's budget. Behind two trips of the breaker, ten bad threads
  before a good one and another bad one, the job is dead-lettered with threads
  still pending. `DeadLetterIffTooManyBlocks` is the exact line.
- *Good threads given up*: an outage of Quip that spans three runs marks good
  threads Failed (`worker_mode.rs:1567-1568` says never); `OutageRadius` bounds
  how far behind a thread that was imported or skipped.
- *Two runners*: `worker_mode.rs:1268-1277` has the lease exclude a second
  runner while the first is alive. The heartbeat drops its errors
  (`worker_mode.rs:1370-1372`), so a runner whose heartbeats fail three times
  works on beside the one that took its lease; `OneRunnerPerLease` says that
  it takes this, or a pause.
- *Overtaken runner*: a runner whose lease aged out writes Skipped or Failed
  over a thread that was imported since (`import_repo.rs:498-502` calls the
  checkpoint forward-only), and, if it had not claimed the
  lease yet, claims it after the run was finished and publishes Running for
  good.
- *Edits under a rewrite*: `worker_mode.rs:1166-1176` concedes that an edit
  which lands between its check and its write loses the object it rests on.
  So does every later edit in a room that was opened before the write, hours
  after it, and no check can see it. A retry whose `create` lost a reply is
  enough; no runner need be overtaken.
- *Staged HTML*: the sweep comes once, its failure is logged only
  (`worker_mode.rs:888-909`), and a completion whose reply was lost is not
  applied, hence not swept, a second time. HTML staged by an overtaken runner or a
  superseded run is not swept either. What is left waits for the bucket's
  lifecycle rule (external, not modelled).
- *Deleted folder*: a user may delete the empty folder that a row has recorded
  (`folders.rs:352-397`, which looks and then deletes); documents are then
  linked into a folder that does not exist, which `worker_mode.rs:2489-2491`
  excludes.

## 8. Proofs

TLAPS proves each of these for every value of the constants: any number of
edits, tabs, workers, runs, documents, and any bound on faults.

| module | theorem | of |
|---|---|---|
| `RoomPersistenceProofs` | `TypeCorrect` | `Spec => []TypeOK` |
| | `OverlapInvariance` | `Spec => []OverlapInv` |
| | `CutoffIsSafe` | `Spec => []CutoffWithinSnapshot` |
| | `FailuresAreTracked` | `Spec => FailedEditsTracked` |
| | `SnapshotsAreThere` | `Spec => []ObjectsFirst` |
| `RoomSerialProofs` | `SerialInvariance` | `SerialSpec => []SerialInv` |
| | `SavedEditsAreDurable` | `SerialSpec => []SavedDurable` |
| | `StorageNeverForgets` | `SerialSpec => StoredGrows` |
| `JobQueueProofs` | `QueueInvariance` | `Spec => []QueueInv` |
| | `OneEntryAlways` | `Spec => []OneEntryPerOpenJob` |
| | `EffectsFollowOutcomes` | `Spec => []EffectOwedOrDone` |
| | `TerminalIsFinal` | `Spec => TerminalForever` |
| | `DeadLettersAreEarned` | `Spec => []DeadLetterEarned` |
| | `AcceptedUploadsStayStaged` | `Spec => []AcceptedUploadStaged` |
| | `ReapersKeepTheirReceipts` | `Spec => []ReaperKeepsItsReceipts` |
| | `NewestClaimsDecide` | `Spec => NewestClaimDecides` |
| | `QueueImplementsLedger` | `Spec => ImplementsLedger` |
| `ContentPassProofs` | `TypeCorrect` | `Spec => []TypeOK` |
| | `SuccessIsComplete` | `Spec => []SucceededDecided` |
| | `GivenUpWithCause` | `Spec => []GivenUpLate` |
| | `OutagesStayNear` | `MAX_THREAD_ATTEMPTS >= 2` gives `Spec => []OutageRadius` |
| | `LostIffTooManyBlocks` | `MAX_THREAD_ATTEMPTS >= 2` gives `Spec => []DeadLetterIffTooManyBlocks` |
| `ImportFoldersProofs` | `TypeCorrect` | `Spec => []TypeOK` |
| | `MadeBeforeRecorded` | `Spec => []RecordedIsMade` |
| | `LosersStayEmpty` | `Spec => []OrphansEmpty` |
| | `ParentsFirst` | `Spec => []OrderSound` |
| | `MirrorsTheTree` | `Spec => []TreeMirrored` |
| | `OneTree` | `Spec => RecordedStands` |
| `ImportRunsProofs` | `TypeCorrect` | `Spec => []TypeOK` |
| | `OneDocumentPerThread` | `Spec => []OneDocPerThread` |
| | `CheckpointComesLast` | `Spec => []DoneHasDocument` |
| | `EditsMostlyUndisturbed` | `Spec => []EditsDisturbedOnlyIfOpen` |
| | `SavesAreKept` | `Spec => SavesStand` |
| | `LeaseExcludes` | `Spec => []OneRunnerPerLease` |
| | `OutcomeStands` | `Spec => EndedUnlessLate` |
| | `StatusMovesOn` | `Spec => NewerRunKeepsStatus` |
| | `RetiredForANewerRun` | `Spec => []RetiredWhenReplaced` |
| | `StagingCleared` | `Spec => []NothingLeftStaged` |
| | `RunsImplementLedger` | `Spec => Ledger!Spec`, the ledger of `JobLedger` |
| `DocumentStoreProofs` | `TypeCorrect` | `Spec => []TypeOK` |
| | `PurgesAreComplete` | `Spec => []ErasedWhenAudited` |
| | `DocumentsStayIntact` | `Spec => []Intact` |
| | `OnlyTrashIsPurged` | `Spec => PurgedFromTrash` |
| `CollabSyncProofs` | `TypeCorrect` | `Spec => []TypeOK` |
| | `FoldsOnlyAdd` | `Spec => []NothingErased` |
| | `NothingShownVanishes` | `Spec => NothingVanishes` |
| | `QuietTabsReachedRoom` | `Spec => []TabsReachRoom` |
| | `OnlySkippedEditsDiffer` | `Spec => []DifferencesExplained` |
| | `BadgesAreHonest` | `Spec => []BadgeHonest` |

They rest on the named assumptions of the modules: sentinels are not members,
kinds of task are disjoint, bounds are natural numbers, the sets that are
counted are finite. Two theorems need one thing more, which is therefore in
their statement: that a thread is allowed two failures (the code allows three,
`MAX_THREAD_ATTEMPTS`). With one, a first failure gives the thread up on the
spot and no streak grows, so the breaker never trips and one outage gives up
the whole manifest; both properties are then false.
`NewestClaimDecides` speaks of entries whose count of deliveries is below
`MaxCount`, because the count is modelled up to that bound.

*Room, every overlap.* `CutoffWithinSnapshot` and `FailedEditsTracked` hold
without the discipline that durability needs. `OverlapInv` shows why of the
first, for the rows of a compaction's own Room: an
update is in the hands of one handler at most and its room holds it
(`EditsInHand`), a room stamps nothing it does not hold, and what failed in it
was stamped (`RoomsKnow`), and a cutoff is a moment of the past, so what is
stamped later is above it (`CutoffsPast`). The second follows step by step:
whoever takes a mark holds it until the edit is in a snapshot or the mark is
back, and is back in the registered Room unless that Room was dropped meanwhile. A pointer, stale ones included,
names an object that is there (`ObjectsFirst`): objects are put before
pointers, and no compaction deletes one.

*Room, serialized.* `SavedDurable` is not inductive: a prune preserves it only
because the compaction's bytes cover the snapshot they replace and the rows
below the cutoff. `SerialInv` says so at each step of a compaction
(`CompactOK`), that the registered room holds what storage holds
(`RoomHoldsStored`), that a connection sits in the registered room and its
update is handled by it alone (`SessionInv`), and that a load has read the
current snapshot (`LoadInv`). `StoredGrows` follows from it at the three steps
that shrink or replace something. The steps fall into a few shapes, each a
lemma: a handler that moves (`HandlerKeeps`), a load, a compaction that moves
(`CompactingKeeps`), a step that touches neither storage nor a room (`AsideKeeps`).

*Queue.* `OneEntryPerOpenJob` needs to know that what a thread holds is still
about the same entry (`Tracks`), that ids are given out in order (`Formed`),
that a job not yet enqueued has no status (`NotYetQueued`), and that only a
committed outcome is applied (`Committed`). All steps reduce to a few shapes,
each a lemma: the entry is kept, a job enters, a retry replaces its entry, a
job ends; a step of receipts only; of the outbox; of applying. The refinement
maps the status to `phase`, the attempt in a job's entry to `tries` (well
defined by `OneEntryPerOpenJob`), and `effect` to `settled`. Three smaller
invariants rest on it: each attempt before an entry's own was blamed, so a
budget is spent by failures only (`BudgetInv`); only a refused request or a
terminal outcome lets go of a staging blob (`UploadsStaged`); and of the tasks
that hold claims of an entry at most one holds the newest (`ClaimsCounted`),
where each step is no claim, a first claim or a reclaim (`ClaimStep`).

*Content pass.* Success is complete because whatever the walk has passed is
decided or a failure is owed at the end (`WalkInv`); a thread that the running
pass has yet to look at was charged at most once by each earlier pass
(`ChargeInv`), so none is given up before its allowance is spent. How far
outages reach is followed in each stretch of the manifest behind a thread that
is imported or skipped (`OutageInv`): until the next such thread the ones
charged are the first of the stretch, a breaker's threshold more per pass and the
streak of the running one (`StretchOK`, `WalkOK`); a thread that is settled
ends one stretch and begins another. Without outages and faults (`CalmInv`) the walk gets past one
tripping thread per pass: each bad thread behind it is charged once by every
pass that reached it, so its charges, the streak and the place of the walk are
given by counting bad and tripping threads, and both directions of
`DeadLetterIffTooManyBlocks` follow.

*Folders.* `MirrorInv`: what a run has made of the folder in its hands grows
step by step (`InHand`), a run knows recorded ids only (`Knows`), and things
hang under recorded folders only (`Hung`). Every action of one run keeps the
others' part because ids are never reused and records never replaced.
`TreeInv` adds where folders hang: by one edge (`OneEdge`), a recorded one
under the recorded folder of its parent (`Attached`), which the order put before it.
That order is defined by recursion on the number of looks, and a proof by
induction is possible here for sets of numbers: a nonempty set of naturals has a
least member (`LeastNumber`), so one that has 0 and the successor of each
member is all of them (`Induction`). The order's lemmas follow: once a wave
places nothing no later one does, so as many waves as there are rows place
every row whose chain of parents ends.

*Runs of an import.* `ImportInv` has three parts after the types. `DocInv`:
ids are reserved once and documents carry them (`IdsInv`), and a worker's step
tells what its document already has (`Making`), so a checkpoint finds
everything made. `LeaseInv`: the lease belongs to a runner, a stale one to a
runner whose heartbeats ended or failed, and a runner whose lease never aged still has it.
`ReceiptInv`: what is known of a run's entry, verdict and status (`RunsInv`,
`Handling`), and that while a worker has claimed the lease and not yet used it
nobody else decides its run (`Undecided`), which is what makes an outcome
stand. `ImportRuns` models the queue from what it promises its users, and
`RunsImplementLedger` says that it takes no more than that: the entries of the
runs implement `JobLedger`, which `JobQueue` implements too. A run not yet
published is "none", an entry that is not final is "queued" with its attempt
as `tries`, and a run that ended Failed with its retries spent has "failed",
be it dead-lettered or answered Failed by the handler, whose rows are the
same. A move of one entry is a step of the ledger (`LedgerStep`); it needs
that an applied run is final (`RunsInv`) and that a run not yet published has
spent no retry (`Unspent`).

*Document store.* `StoreInv`: an id whose row is not created yet is known to
nobody but the request that mints it (`BirthInv`), hence a row that is gone
never comes back whole; whoever is about to delete objects works on a document
that is gone (`GoneInv`); the object of a version is there before the version
is pointed to (`PointInv`). `Intact` needs these three. `PurgeInv` says that
what a purge has in hand is in the trash or was restored meanwhile.
`AuditInv` follows a purge: what is stored is among the rows it found or was
noted since it looked, and at the second prefix nothing but images and noted
objects is left, unless the first sweep failed. Every other write is noted
(`WritesNoted`).

*Tabs.* In layers. `TypeInv` bounds what is on the wires and that connections
are numbered. `TabInv` is the argument of the fold: the baseline lags behind
the model and the document, and a model holds with an edit all earlier ones of
its author, so a fold deletes nothing and a shown edit stays. `ReachInv` adds
the handshake: what a client is sent its room has (`Known`), and once the two
ends have compared documents, every edit of the tab is in the room, on the
wire or in the queue (`Covered`), whatever socket breaks in between.

From the room onwards: of an edit that is stored, in a room or on its way between
instances, every instance has it (or would load it), will be told of it, or is
named among those skipped (`AgreeInv`). A tab sends only what its document has
(`SourceInv`), and from the answer to its state vector on it has, or is being
sent, all that its room holds (`TellInv`). With nothing under way, two copies
differ in skipped and pruned edits only. `KeptInv` follows an edit out of its
author's tab: from then on it is stored, in a room marked unsaved, in the
hands of a handler of its author's, or skipped. `BadgeInv` follows the badge:
while a handler remembers a failure, `persist-failed` is the last word about
saving among the frames its client has still to read, or was the last word read.

Only model-checked: liveness under fairness (`FailedEventuallyFlushed`,
`EveryJobEnds`, `EffectsSettle`, `AllFiled`, `EveryRunEnds`,
`RetentionUnlessGhost`, `LeftoversCollected`), which is beyond the prover. Every
safety property of a passing run, invariant or action property, is a theorem.
That every type invariant is an invariant is a theorem, so only the room's is
also among the runs. `SavesStand`, `NewerRunKeepsStatus`, `RetiredWhenReplaced`,
`NothingLeftStaged`, `RecordedStands` and the refinement of `JobLedger` by the
runs of an import are theorems without a run.

## 9. Not modelled

`PROJECT.json` gives each component's reason. In short: the browser's editor,
spreadsheet and views, which are two thirds of the source, are user interface
or pure functions of one document; conversion, rendering and search are
derived data; rate limiting is advisory; comments, chat, activity and audit
are single conditional writes; the CRDT is third-party and taken at its word
(union of edits, held back until an author's earlier ones are there);
deployment has no behaviour. What has state of its own and concurrency, and is
not modelled yet, is in the plan.

Inside the modelled components: `restore_version` (`history.rs:224`), the
payload objects of large updates, connection caps, the report and the mention
links of an import, folders above a document, and the bulk routes that loop
over single ones.

## 10. Plan

Done: `RoomPersistence`; `JobQueue` with `JobLedger`; `ContentPass`,
`ImportFolders`, `ImportRuns`; `DocumentStore`; `CollabSync`; their proofs.

Next, in order of importance:

1. `UpdateLog`: append of large updates (payload object, then row), prune in
   pages, list; a row never refers to a payload that a load needs and that is
   gone. Restore of a version next to a live room.
2. `Awareness` on `CollabSync`'s connections: who removes whose presence.
3. `Sessions` (rotation of refresh tokens, revocation), `FolderAccess`
   (bounded staleness of inherited grants), membership and last owner,
   `NotifyCap`, `Digest`.
4. `EditorHistory`: undo and redo across remote changes, position mapping.
5. Proofs: for each of these modules its type invariant and its main safety
   property; for `DocumentStore` and `CollabSync` what they take as one step
   (a compaction, a cold load) related to `RoomPersistence`, which takes it apart.

Runs of the planned modules take two or three actors, two keys or versions,
and one or two faults, by the reasoning given for the modules above.
