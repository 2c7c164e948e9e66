--------------------------- MODULE DocumentStore ---------------------------
(***************************************************************************)
(* What is stored of a document, from its creation to its erasure: the     *)
(* METADATA row and the other rows under PK=DOC#<id> in DynamoDB, and the  *)
(* objects under docs/<id>/ and blobs/<id>/ in S3.  Requests, the live     *)
(* room, the trash sweep and the blob reconciler write them with no lock   *)
(* between them.  From                                                     *)
(*   src/crates/storage/src/repo/doc_repo.rs   the writes                  *)
(*   src/crates/api/src/routes/documents.rs    create, copy, save, trash,  *)
(*                                             restore, purge, upload      *)
(*   src/crates/api/src/compaction.rs          the live room's snapshots   *)
(*   src/crates/api/src/trash_cleanup.rs       the retention sweep         *)
(*   src/crates/api/src/blob_reconcile.rs      orphaned prefixes           *)
(***************************************************************************)
EXTENDS Integers, FiniteSets

CONSTANTS
    Docs,
    Bystanders,   \* bound: documents no request is for, and no room opens
    Requests,     \* bound: request slots of the API
    Sweeper,      \* trash_cleanup's task
    Compactor,    \* the compaction of a live room
    Reconciler,   \* blob_reconcile's task
    Nowhere,      \* no document
    V,            \* bound: snapshot versions
    Updates,      \* bound: UPDATE# rows appended to a document
    MaxRequests,  \* bound: requests made
    MaxAtWork,    \* bound: actors and bystanders there may be at a time
    MaxFaults     \* bound: calls that fail, requests dropped half way

Actors == Requests \union {Sweeper, Compactor, Reconciler}
Roots == {"docs", "blobs"}

\* What is stored under a document's key or prefixes, besides METADATA.
Member == <<"member", 0>>
Update(u) == <<"update", u>>
Object(v) == <<"object", v>>
Image == <<"image", 0>>
Rows == {Member} \union {Update(u) : u \in Updates}
Objects == {Object(v) : v \in 1..V} \union {Image}
Metadata == <<"metadata", 0>>

ASSUME StoreAssumption ==
    /\ V \in Nat \ {0} /\ Updates \subseteq Nat /\ Requests \subseteq Nat
    /\ MaxRequests \in Nat /\ MaxFaults \in Nat /\ MaxAtWork \in Nat
    /\ Bystanders \subseteq Docs
    /\ Sweeper # Compactor /\ Sweeper # Reconciler /\ Compactor # Reconciler
    /\ {Sweeper, Compactor, Reconciler} \cap Requests = {}
    /\ Nowhere \notin Docs

VARIABLES
    row,       \* METADATA: "none", "full", or a "ghost" an update made
    version,   \* its snapshot_version, 0 where the attribute is missing
    trashed,   \* its is_deleted
    indexed,   \* its is_deleted_gsi: the row is in GSI7-deleted-at
    rows,      \* the other rows under the key
    objects,   \* the objects under both prefixes
    open,      \* documents that have had a live room
    pc, doc,   \* what each actor is doing, and to which document
    base,      \* the snapshot_version it read
    found,     \* rows its query returned
    botched,   \* whether its sweep of an S3 prefix failed
    todo,      \* the documents the trash sweep has listed
    requests, faults,
    cursed,    \* documents whose deletion fails every time
    unborn,    \* ids not minted yet
    hollow,    \* history: created, first snapshot not written
    pictured,  \* history: the content refers to an image
    audited,   \* history: an audit row says it was purged
    since,     \* history: what was written since the purge looked
    escaped    \* history: restored while a purge had it in hand

meta == <<row, version, trashed, indexed>>
store == <<meta, rows, objects>>
local == <<pc, doc, base, found, botched, todo>>
past == <<cursed, unborn, hollow, pictured, audited, since, escaped>>
vars == <<store, open, local, requests, faults, past>>

\* A document is not there yet, live, or in the trash since long ago.
Init ==
    /\ unborn \in SUBSET Docs
    /\ LET there == Docs \ unborn
           binned == there \cap Bystanders IN
        /\ row = [d \in Docs |-> IF d \in there THEN "full" ELSE "none"]
        /\ version = [d \in Docs |-> IF d \in there THEN 1 ELSE 0]
        /\ rows = [d \in Docs |-> IF d \in there THEN {Member} ELSE {}]
        /\ objects = [d \in Docs |-> IF d \in there THEN {Object(1)} ELSE {}]
        /\ trashed = [d \in Docs |-> d \in binned]
        /\ indexed = [d \in Docs |-> d \in binned]
        /\ cursed \in SUBSET binned
    /\ open = {}
    /\ pc = [a \in Actors |-> "idle"] /\ doc = [a \in Actors |-> Nowhere]
    /\ base = [a \in Actors |-> 0] /\ found = [a \in Actors |-> {}]
    /\ botched = [a \in Actors |-> FALSE] /\ todo = {}
    /\ requests = 0 /\ faults = 0
    /\ hollow = {} /\ pictured = {} /\ audited = {} /\ escaped = {}
    /\ since = [d \in Docs |-> {}]

Erasing == {"query", "rows", "blobs"}
Hunters(d) == {a \in Requests \union {Sweeper} : pc[a] \in Erasing /\ doc[a] = d}
Hunted(d) == Hunters(d) # {} \/ d \in todo

\* The history of what outlives a purge's look at the rows.
Noted(d, items) ==
    since' = IF Hunters(d) # {} \/ d \in audited
             THEN [since EXCEPT ![d] = @ \union items] ELSE since

\* Nothing is at work on the document: longer ago than any request or
\* compaction lasts, an object is older than DOC_MIN_AGE_USEC (a day), and a
\* deletion before the retention cutoff (days).
Settled(d) == \A a \in Actors : doc[a] # d

\* The bounds on what goes on at a time.
Bystanding == Bystanders \ unborn
AtWork == {a \in Actors : pc[a] # "idle"}
MayBegin == Cardinality(AtWork \union Bystanding) < MaxAtWork

At(a, step) == pc[a] = step
Go(a, step) == pc' = [pc EXCEPT ![a] = step]

\* A fault: the sweep ends with the first document it is done with.
StopsThere(a) == "idle"

\* The sweep goes on to the next document, whatever became of this one.
Rest(a) == IF a = Sweeper /\ todo # {} THEN "next" ELSE "idle"

ToIdle(a) ==
    /\ pc' = [pc EXCEPT ![a] = Rest(a)]
    /\ doc' = [doc EXCEPT ![a] = Nowhere]
    /\ base' = [base EXCEPT ![a] = 0]
    /\ found' = [found EXCEPT ![a] = {}]
    /\ botched' = [botched EXCEPT ![a] = FALSE]

PutObject(d, object) ==
    /\ objects' = [objects EXCEPT ![d] = @ \union {object}]
    /\ Noted(d, {object})

(***************************************************************************)
(* Requests.  Each reads METADATA, checks it, and then writes, sure of     *)
(* nothing it read; get answers an error for a ghost row.                  *)
(***************************************************************************)
\* Slots are alike: a request takes the first that is free.
Begin(t, d, step) ==
    /\ pc[t] = "idle" /\ requests < MaxRequests
    /\ d \notin Bystanders /\ MayBegin
    /\ \A s \in Requests : s < t => pc[s] # "idle"
    /\ requests' = requests + 1
    /\ Go(t, step)
    /\ doc' = [doc EXCEPT ![t] = d]

Asked(d) == {"trash", "upload"} \union (IF version[d] < V THEN {"put"} ELSE {})

\* Saving, trashing and uploading are for a document that is not
\* in the trash; a restore and a purge are for one that is.
Begins(t, d) ==
    /\ row[d] = "full"
    /\ \/ ~trashed[d] /\ \E step \in Asked(d) : Begin(t, d, step)
       \/ trashed[d] /\ \E step \in {"restore", "query"} : Begin(t, d, step)
    /\ base' = [base EXCEPT ![t] = IF pc'[t] = "put" THEN version[d] ELSE 0]
    /\ UNCHANGED <<store, open, found, botched, todo, faults, past>>

\* A copy, under a new id: its images are re-homed before the row
\* exists.
BeginCopy(t, d) ==
    /\ d \in unborn
    /\ unborn' = unborn \ {d}
    /\ Begin(t, d, "images")
    /\ UNCHANGED <<store, open, base, found, botched, todo, faults, cursed,
                   hollow, pictured, audited, since, escaped>>

\* rehome_blob_refs_for_copy; a copy without images, or one that failed to
\* be copied, refers to none of its own.
CopyImages(t) ==
    /\ At(t, "images")
    /\ Go(t, "create")
    /\ \/ /\ PutObject(doc[t], Image)
          /\ pictured' = pictured \union {doc[t]}
       \/ UNCHANGED <<objects, since, pictured>>
    /\ UNCHANGED <<cursed, unborn, meta, rows, open, doc, base, found, botched,
                   todo, requests, faults, hollow, audited, escaped>>

\* DocRepo::create: METADATA on the condition that there is none...
CreateRow(t) ==
    /\ At(t, "create") /\ row[doc[t]] = "none"
    /\ LET d == doc[t] IN
        /\ row' = [row EXCEPT ![d] = "full"]
        /\ version' = [version EXCEPT ![d] = 1]
        /\ hollow' = hollow \union {d}
        /\ Noted(d, {Metadata})
    /\ Go(t, "first")
    /\ UNCHANGED <<cursed, unborn, trashed, indexed, rows, objects, open, doc,
                   base, found, botched, todo, requests, faults, pictured,
                   audited, escaped>>

\* ... then the first snapshot.
PutFirst(t) ==
    /\ At(t, "first")
    /\ PutObject(doc[t], Object(1))
    /\ hollow' = hollow \ {doc[t]}
    /\ ToIdle(t)
    /\ UNCHANGED <<cursed, unborn, meta, rows, open, todo, requests, faults,
                   pictured, audited, escaped>>

\* The object of a save or of a compaction, at the version after the one read.
PutNext(a) ==
    /\ At(a, "put")
    /\ PutObject(doc[a], Object(base[a] + 1))
    /\ Go(a, "point")
    /\ UNCHANGED <<cursed, unborn, meta, rows, open, doc, base, found, botched,
                   todo, requests, faults, hollow, pictured, audited, escaped>>

\* save_snapshot_conditional: snapshot_version must be the one read.
Commit(t) ==
    /\ At(t, "point") /\ t \in Requests
    /\ version[doc[t]] = base[t]
    /\ version' = [version EXCEPT ![doc[t]] = base[t] + 1]
    /\ ToIdle(t)
    /\ Noted(doc[t], {Metadata})
    /\ UNCHANGED <<cursed, unborn, row, trashed, indexed, rows, objects, open,
                   todo, requests, faults, hollow, pictured, audited, escaped>>

\* Answered 409.
Conflict(t) ==
    /\ At(t, "point") /\ t \in Requests
    /\ version[doc[t]] # base[t]
    /\ ToIdle(t)
    /\ UNCHANGED <<store, open, todo, requests, faults, past>>

\* An update of a row that is gone makes one of the updated attributes alone.
Upserted(d) == IF row[d] = "none" THEN "ghost" ELSE row[d]

\* A fault: a restored row stays in the index.
EnrolledForEver(d, yes) == [indexed EXCEPT ![d] = @ \/ yes]

\* is_deleted_gsi, which puts the row in the sparse index or takes it out.
Enrolled(d, yes) == [indexed EXCEPT ![d] = yes]

\* soft_delete: update_item without a condition.
Trash(t) ==
    /\ At(t, "trash")
    /\ LET d == doc[t] IN
        /\ row' = [row EXCEPT ![d] = Upserted(d)]
        /\ trashed' = [trashed EXCEPT ![d] = TRUE]
        /\ indexed' = Enrolled(d, TRUE)
        /\ Noted(d, {Metadata})
    /\ ToIdle(t)
    /\ UNCHANGED <<cursed, unborn, version, rows, objects, open, todo,
                   requests, faults, hollow, pictured, audited, escaped>>

\* DocRepo::restore: likewise, and out of the index.
Restore(t) ==
    /\ At(t, "restore")
    /\ LET d == doc[t] IN
        /\ row' = [row EXCEPT ![d] = Upserted(d)]
        /\ trashed' = [trashed EXCEPT ![d] = FALSE]
        /\ indexed' = Enrolled(d, FALSE)
        /\ escaped' = IF Hunted(d) THEN escaped \union {d} ELSE escaped \ {d}
        /\ Noted(d, {Metadata})
    /\ ToIdle(t)
    /\ UNCHANGED <<cursed, unborn, version, rows, objects, open, todo,
                   requests, faults, hollow, pictured, audited>>

\* The client uses its presigned URL while it is valid.
Upload(t) ==
    /\ At(t, "upload")
    /\ PutObject(doc[t], Image)
    /\ pictured' = pictured \union {doc[t]}
    /\ ToIdle(t)
    /\ UNCHANGED <<cursed, unborn, meta, rows, open, todo, requests, faults,
                   hollow, audited, escaped>>

(***************************************************************************)
(* hard_delete, for the purge route and for the trash sweep.               *)
(***************************************************************************)
\* Rows come back, and are deleted, in the order of their sort keys.
Rank(item) ==
    CASE item = Member -> 1 [] item = Metadata -> 2 [] OTHER -> 3
Stored(d) == IF row[d] = "none" THEN rows[d] ELSE rows[d] \union {Metadata}
Remaining(d) == Stored(d) \union objects[d]

\* A document whose query fails, and fails again at every later sweep.
Refuse(a) ==
    /\ At(a, "query") /\ doc[a] \in cursed
    /\ ToIdle(a)
    /\ UNCHANGED <<store, open, todo, requests, faults, past>>

Query(a) ==
    /\ At(a, "query") /\ doc[a] \notin cursed
    /\ found' = [found EXCEPT ![a] = Stored(doc[a])]
    /\ since' = IF Hunters(doc[a]) = {a} /\ doc[a] \notin audited
                THEN [since EXCEPT ![doc[a]] = {}] ELSE since
    /\ Go(a, "rows")
    /\ UNCHANGED <<cursed, unborn, store, open, doc, base, botched, todo,
                   requests, faults, hollow, pictured, audited, escaped>>

DeleteRow(a, item) ==
    /\ At(a, "rows") /\ item \in found[a]
    /\ \A other \in found[a] : Rank(item) <= Rank(other)
    /\ found' = [found EXCEPT ![a] = @ \ {item}]
    /\ LET d == doc[a] IN
       IF item = Metadata
       THEN /\ row' = [row EXCEPT ![d] = "none"]
            /\ version' = [version EXCEPT ![d] = 0]
            /\ trashed' = [trashed EXCEPT ![d] = FALSE]
            /\ indexed' = [indexed EXCEPT ![d] = FALSE]
            /\ UNCHANGED rows
       ELSE rows' = [rows EXCEPT ![d] = @ \ {item}] /\ UNCHANGED meta
    /\ UNCHANGED <<objects, open, pc, doc, base, botched, todo, requests,
                   faults, past>>

Failing == faults < MaxFaults /\ faults' = faults + 1

Under(root) == IF root = "blobs" THEN {Image} ELSE Objects \ {Image}

\* delete_prefix fails after some of its pages.
SweepFails(a, root) ==
    /\ Failing
    /\ \E gone \in SUBSET Under(root) :
        objects' = [objects EXCEPT ![doc[a]] = @ \ gone]
    /\ botched' = [botched EXCEPT ![a] = TRUE]

\* Both prefixes are swept, whatever becomes of the first.
SweepDocs(a) ==
    /\ At(a, "rows") /\ found[a] = {}
    /\ \/ /\ objects' = [objects EXCEPT ![doc[a]] = @ \ Under("docs")]
          /\ UNCHANGED <<botched, faults>>
       \/ SweepFails(a, "docs")
    /\ Go(a, "blobs")
    /\ UNCHANGED <<meta, rows, open, doc, base, found, todo, requests, past>>

\* A fault: the audit row is written whatever failed.
PurgedRegardless(a, failed) == audited \union {doc[a]}

\* The audit row is written only when nothing failed.
Purged(a, failed) == IF failed THEN audited ELSE audited \union {doc[a]}

SweepBlobs(a) ==
    /\ At(a, "blobs")
    /\ \/ /\ objects' = [objects EXCEPT ![doc[a]] = @ \ Under("blobs")]
          /\ audited' = Purged(a, botched[a])
          /\ UNCHANGED faults
       \/ /\ Failing /\ UNCHANGED <<objects, audited>>
    /\ ToIdle(a)
    /\ UNCHANGED <<cursed, unborn, meta, rows, open, todo, requests, hollow,
                   pictured, since, escaped>>

HardDelete(a) ==
    \/ Refuse(a) \/ Query(a) \/ SweepDocs(a) \/ SweepBlobs(a)
    \/ \E item \in Rows \union {Metadata} : DeleteRow(a, item)

(***************************************************************************)
(* The trash sweep: a listing of the index, then one document at a time.   *)
(***************************************************************************)
\* Its deleted_at is before the cutoff, days ago.
Listed == {d \in Docs : indexed[d] /\ Settled(d)}

\* One row of the page that does not parse fails the listing.
List ==
    /\ At(Sweeper, "idle") /\ Listed # {} /\ MayBegin
    /\ \A d \in Listed : row[d] = "full"
    /\ todo' = Listed
    /\ Go(Sweeper, "next")
    /\ UNCHANGED <<store, open, doc, base, found, botched, requests, faults,
                   past>>

Take(d) ==
    /\ At(Sweeper, "next") /\ d \in todo
    /\ todo' = todo \ {d}
    /\ doc' = [doc EXCEPT ![Sweeper] = d]
    /\ Go(Sweeper, "query")
    /\ UNCHANGED <<store, open, base, found, botched, requests, faults, past>>

(***************************************************************************)
(* A live room: it goes on when its document is trashed or purged.  A room *)
(* that closes is one that does no more.                                   *)
(***************************************************************************)
Open(d) ==
    /\ row[d] = "full" /\ ~trashed[d] /\ d \notin hollow /\ d \notin open
    /\ Bystanding = {}
    /\ open' = open \union {d}
    /\ UNCHANGED <<store, local, requests, faults, past>>

\* append_update, on the condition that its clock is new.
Append(d, u) ==
    /\ d \in open /\ Update(u) \notin rows[d]
    /\ \A a \in Actors : Update(u) \notin found[a]
    /\ rows' = [rows EXCEPT ![d] = @ \union {Update(u)}]
    /\ Noted(d, {Update(u)})
    /\ UNCHANGED <<cursed, unborn, meta, objects, open, local, requests,
                   faults, hollow, pictured, audited, escaped>>

\* compact_room: the cutoff, and the version to write after.
Compact(d) ==
    /\ At(Compactor, "idle") /\ d \in open /\ MayBegin
    /\ row[d] = "full" /\ version[d] < V
    /\ Go(Compactor, "put")
    /\ doc' = [doc EXCEPT ![Compactor] = d]
    /\ base' = [base EXCEPT ![Compactor] = version[d]]
    /\ found' = [found EXCEPT ![Compactor] = {Update(u) : u \in Updates} \cap rows[d]]
    /\ UNCHANGED <<store, open, botched, todo, requests, faults, past>>

\* save_snapshot: update_item without a condition.
Point ==
    /\ At(Compactor, "point")
    /\ LET d == doc[Compactor] IN
        /\ row' = [row EXCEPT ![d] = Upserted(d)]
        /\ version' = [version EXCEPT ![d] = base[Compactor] + 1]
        /\ Noted(d, {Metadata})
    /\ Go(Compactor, "prune")
    /\ UNCHANGED <<cursed, unborn, trashed, indexed, rows, objects, open, doc,
                   base, found, botched, todo, requests, faults, hollow,
                   pictured, audited, escaped>>

\* delete_updates_before the cutoff.
Prune ==
    /\ At(Compactor, "prune")
    /\ rows' = [rows EXCEPT ![doc[Compactor]] = @ \ found[Compactor]]
    /\ ToIdle(Compactor)
    /\ UNCHANGED <<meta, objects, open, todo, requests, faults, past>>

(***************************************************************************)
(* blob_reconcile: a prefix whose document does not exist and whose        *)
(* objects are all old is deleted; a row that does not parse decides       *)
(* nothing.                                                                *)
(***************************************************************************)
\* Faults: the age is not looked at, or any row under the key counts as an
\* owner.
OrphanedAtOnce(d, root) == row[d] = "none" /\ objects[d] \cap Under(root) # {}
OrphanedWithoutRows(d, root) ==
    /\ row[d] = "none" /\ rows[d] = {}
    /\ objects[d] \cap Under(root) # {} /\ Settled(d)

Orphaned(d, root) ==
    row[d] = "none" /\ objects[d] \cap Under(root) # {} /\ Settled(d)

Condemn(d, root) ==
    /\ At(Reconciler, "idle") /\ Orphaned(d, root) /\ MayBegin
    /\ Go(Reconciler, root)
    /\ doc' = [doc EXCEPT ![Reconciler] = d]
    /\ UNCHANGED <<store, open, base, found, botched, todo, requests, faults,
                   past>>

Collect(root) ==
    /\ At(Reconciler, root)
    /\ objects' = [objects EXCEPT ![doc[Reconciler]] = @ \ Under(root)]
    /\ ToIdle(Reconciler)
    /\ UNCHANGED <<meta, rows, open, todo, requests, faults, past>>

(***************************************************************************)
(* Failures.                                                               *)
(***************************************************************************)
\* A call fails and ends what its caller was doing, or a client hangs up and
\* the request's future is dropped.
Drop(a) ==
    /\ doc[a] # Nowhere /\ Failing
    /\ ToIdle(a)
    /\ UNCHANGED <<store, open, todo, requests, past>>

\* A presigned URL expires unused.
Forgo(t) ==
    /\ At(t, "upload")
    /\ ToIdle(t)
    /\ UNCHANGED <<store, open, todo, requests, faults, past>>

-----------------------------------------------------------------------------
Answer(t) ==
    \/ CopyImages(t) \/ CreateRow(t) \/ PutFirst(t)
    \/ PutNext(t) \/ Commit(t) \/ Conflict(t)
    \/ Trash(t) \/ Restore(t) \/ Upload(t) \/ Forgo(t)
    \/ HardDelete(t)

Retain == List \/ (\E d \in Docs : Take(d)) \/ HardDelete(Sweeper)

Snapshotting == PutNext(Compactor) \/ Point \/ Prune

Reconcile ==
    \E root \in Roots : Collect(root) \/ \E d \in Docs : Condemn(d, root)

Next ==
    \/ \E t \in Requests, d \in Docs : Begins(t, d) \/ BeginCopy(t, d)
    \/ \E t \in Requests : Answer(t)
    \/ Retain \/ Snapshotting \/ Reconcile
    \/ \E d \in Docs : Open(d) \/ Compact(d)
    \/ \E d \in Docs, u \in Updates : Append(d, u)
    \/ \E a \in Actors : Drop(a)

\* Handlers and background tasks run on, and time passes.
Fairness ==
    /\ \A t \in Requests : WF_vars(Answer(t))
    /\ WF_vars(Retain) /\ WF_vars(Snapshotting) /\ WF_vars(Reconcile)

Spec == Init /\ [][Next]_vars /\ Fairness

-----------------------------------------------------------------------------
Steps == {"idle", "next", "images", "create", "first", "put", "point", "prune",
          "trash", "restore", "upload"} \union Erasing \union Roots

\* Every variable has its type; a full row has a version, a missing one no
\* attribute and no place in the index.
TypeOK ==
    /\ row \in [Docs -> {"none", "full", "ghost"}]
    /\ version \in [Docs -> 0..V]
    /\ trashed \in [Docs -> BOOLEAN] /\ indexed \in [Docs -> BOOLEAN]
    /\ rows \in [Docs -> SUBSET Rows] /\ objects \in [Docs -> SUBSET Objects]
    /\ open \subseteq Docs /\ todo \subseteq Docs
    /\ pc \in [Actors -> Steps] /\ doc \in [Actors -> Docs \union {Nowhere}]
    /\ base \in [Actors -> 0..V]
    /\ found \in [Actors -> SUBSET (Rows \union {Metadata})]
    /\ botched \in [Actors -> BOOLEAN]
    /\ requests \in 0..MaxRequests /\ faults \in 0..MaxFaults
    /\ cursed \subseteq Docs /\ unborn \subseteq Docs
    /\ hollow \subseteq Docs /\ pictured \subseteq Docs
    /\ audited \subseteq Docs /\ escaped \subseteq Docs
    /\ since \in [Docs -> SUBSET (Rows \union Objects \union {Metadata})]
    /\ \A d \in Docs :
        /\ row[d] = "full" => version[d] # 0
        /\ row[d] = "none" => version[d] = 0 /\ ~trashed[d] /\ ~indexed[d]

\* doc_repo.rs:740-776: a purge is on record only when nothing is left of the
\* document, row or object, but what was written after the purge had looked.
ErasedWhenAudited == \A d \in audited : Remaining(d) \subseteq since[d]

\* doc_repo.rs:800, 820-827; blob_reconcile.rs: a document that is there has
\* the snapshot it points to and the images it refers to, whoever sweeps or
\* saves meanwhile; only the first snapshot may be missing, when its creation
\* was cut short.
Intact ==
    \A d \in Docs : row[d] = "full" =>
        /\ Object(version[d]) \in objects[d] \/ (d \in hollow /\ version[d] = 1)
        /\ d \in pictured => Image \in objects[d]

\* doc_repo.rs:716-723: a document leaves the store from the trash only; one
\* taken out of the trash goes only if a purge had it in hand by then.
PurgedFromTrash ==
    [][\A d \in Docs : row[d] = "full" /\ row'[d] = "none"
                        => trashed[d] \/ d \in escaped]_vars

\* trash_cleanup.rs:1-20, 91-95: what stays in the trash is purged, though the
\* purge of another document fails every time; only a row of the index that
\* does not parse, whichever document's it is, stops retention for all.
RetentionUnlessGhost ==
    \A d \in Docs : trashed[d] /\ row[d] = "full" /\ d \notin cursed ~>
        \/ ~trashed[d] \/ row[d] # "full"
        \/ \E e \in Docs : row[e] = "ghost" /\ indexed[e]

\* blob_reconcile.rs:1-57: objects whose document is gone are deleted sooner or
\* later, unless a late write made a row again.
LeftoversCollected ==
    \A d \in Docs : row[d] = "none" /\ objects[d] # {} ~>
        objects[d] = {} \/ row[d] # "none"
=============================================================================
