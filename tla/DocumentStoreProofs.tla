------------------------ MODULE DocumentStoreProofs ------------------------
(***************************************************************************)
(* Theorems about DocumentStore, for any documents, requests, versions and *)
(* updates and any bounds: what a purge leaves, what a document that is    *)
(* there can count on, and from where a document may go.                   *)
(***************************************************************************)
EXTENDS DocumentStore, TLAPS

-----------------------------------------------------------------------------
(* Types, and what each actor may be doing.                                *)
MetaType ==
    /\ row \in [Docs -> {"none", "full", "ghost"}]
    /\ version \in [Docs -> 0..V]
    /\ trashed \in [Docs -> BOOLEAN] /\ indexed \in [Docs -> BOOLEAN]

ItemType ==
    /\ rows \in [Docs -> SUBSET Rows] /\ objects \in [Docs -> SUBSET Objects]
    /\ since \in [Docs -> SUBSET (Rows \union Objects \union {Metadata})]

ActorType ==
    /\ pc \in [Actors -> Steps] /\ doc \in [Actors -> Docs \union {Nowhere}]
    /\ base \in [Actors -> 0..V]
    /\ found \in [Actors -> SUBSET (Rows \union {Metadata})]
    /\ botched \in [Actors -> BOOLEAN]

PastType ==
    /\ open \subseteq Docs /\ todo \subseteq Docs
    /\ cursed \subseteq Docs /\ unborn \subseteq Docs
    /\ hollow \subseteq Docs /\ pictured \subseteq Docs
    /\ audited \subseteq Docs /\ escaped \subseteq Docs
    /\ requests \in 0..MaxRequests /\ faults \in 0..MaxFaults

RequestSteps == {"idle", "images", "create", "first", "put", "point", "trash",
                 "restore", "upload"} \union Erasing

Roles ==
    /\ \A t \in Requests : pc[t] \in RequestSteps
    /\ pc[Sweeper] \in {"idle", "next"} \union Erasing
    /\ pc[Compactor] \in {"idle", "put", "point", "prune"}
    /\ pc[Reconciler] \in {"idle"} \union Roots
    /\ \A a \in Actors :
        /\ pc[a] \in {"idle", "next"} <=> doc[a] = Nowhere
        /\ pc[a] \in {"put", "point"} => base[a] \in 1..(V - 1)

\* A row that is there has a version; one that is not has nothing; the index
\* holds what is in the trash.
RowInv ==
    \A d \in Docs :
        /\ row[d] = "full" => version[d] # 0
        /\ row[d] = "none" => version[d] = 0 /\ ~trashed[d]
        /\ indexed[d] = trashed[d]

Types == MetaType /\ ItemType /\ ActorType /\ PastType /\ Roles /\ RowInv

LEMMA Kinds ==
    /\ Metadata \notin Rows /\ Metadata \notin Objects
    /\ Image \in Objects /\ Member \in Rows
    /\ \A v \in 1..V : Object(v) \in Objects /\ Object(v) # Image
    /\ \A u \in Updates : Update(u) \in Rows
    /\ \A i \in Rows : i \notin Objects
  BY DEF Metadata, Rows, Objects, Image, Member, Object, Update

LEMMA Cast ==
    /\ Sweeper \in Actors /\ Compactor \in Actors /\ Reconciler \in Actors
    /\ \A t \in Requests : /\ t \in Actors /\ t # Sweeper /\ t # Compactor
                           /\ t # Reconciler
    /\ Sweeper # Compactor /\ Sweeper # Reconciler /\ Compactor # Reconciler
    /\ \A a \in Actors : a \in Requests \/ a \in {Sweeper, Compactor, Reconciler}
  BY StoreAssumption DEF Actors

LEMMA InitTypes == Init => Types
  <1> SUFFICES ASSUME Init PROVE Types
    OBVIOUS
  <1>1. PICK there \in SUBSET Docs, binned \in SUBSET Docs :
        /\ binned \subseteq there
        /\ unborn \in SUBSET Docs /\ cursed \in SUBSET Docs
        /\ row = [d \in Docs |-> IF d \in there THEN "full" ELSE "none"]
        /\ version = [d \in Docs |-> IF d \in there THEN 1 ELSE 0]
        /\ rows = [d \in Docs |-> IF d \in there THEN {Member} ELSE {}]
        /\ objects = [d \in Docs |-> IF d \in there THEN {Object(1)} ELSE {}]
        /\ trashed = [d \in Docs |-> d \in binned]
        /\ indexed = [d \in Docs |-> d \in binned]
    BY DEF Init
  <1>2. 1 \in 1..V /\ 1 \in 0..V
    BY StoreAssumption
  <1>3. MetaType
    BY <1>1, <1>2, StoreAssumption DEF Init, MetaType
  <1>4. ItemType
    BY <1>1, <1>2, Kinds DEF Init, ItemType
  <1>5. ActorType /\ PastType
    BY <1>1, StoreAssumption DEF Init, ActorType, PastType, Steps
  <1>6. Roles
    BY Cast DEF Init, Roles, RequestSteps
  <1>7. RowInv
    <2>1. \A d \in Docs : /\ row[d] = IF d \in there THEN "full" ELSE "none"
                         /\ version[d] = IF d \in there THEN 1 ELSE 0
      BY <1>1
    <2>2. \A d \in Docs : trashed[d] = (d \in binned) /\ indexed[d] = (d \in binned)
      BY <1>1, Zenon
    <2>3. \A d \in Docs : row[d] = "none" => ~trashed[d]
      BY <1>1, <2>1, <2>2
    <2>4. QED
      BY <2>1, <2>2, <2>3 DEF RowInv
  <1>8. QED
    BY <1>3, <1>4, <1>5, <1>6, <1>7 DEF Types

-----------------------------------------------------------------------------
(* What a step may do to METADATA: at most one row becomes another.        *)
Becomes(d, r, v, x) ==
    /\ MetaType'
    /\ row'[d] = r /\ version'[d] = v /\ trashed'[d] = x /\ indexed'[d] = x
    /\ \A e \in Docs : e # d =>
        /\ row'[e] = row[e] /\ version'[e] = version[e]
        /\ trashed'[e] = trashed[e] /\ indexed'[e] = indexed[e]

MetaStep ==
    \/ meta' = meta
    \/ \E t \in Requests :
        \/ CreateRow(t) /\ Becomes(doc[t], "full", 1, trashed[doc[t]])
        \/ /\ Commit(t) /\ base[t] \in 1..(V - 1) /\ version[doc[t]] = base[t]
           /\ Becomes(doc[t], row[doc[t]], base[t] + 1, trashed[doc[t]])
        \/ Trash(t) /\ Becomes(doc[t], Upserted(doc[t]), version[doc[t]], TRUE)
        \/ Restore(t) /\ Becomes(doc[t], Upserted(doc[t]), version[doc[t]], FALSE)
    \/ /\ Point /\ base[Compactor] \in 1..(V - 1)
       /\ Becomes(doc[Compactor], Upserted(doc[Compactor]), base[Compactor] + 1,
                  trashed[doc[Compactor]])
    \/ \E a \in Requests \union {Sweeper} :
        DeleteRow(a, Metadata) /\ Becomes(doc[a], "none", 0, FALSE)

LEMMA Placed ==
    ASSUME Types, NEW a \in Actors, pc[a] \notin {"idle", "next"}
    PROVE  doc[a] \in Docs
  BY DEF Types, ActorType, Roles

LEMMA Turned ==
    ASSUME MetaType, RowInv, NEW d \in Docs, NEW r \in {"none", "full", "ghost"},
           NEW v \in 0..V, NEW x \in BOOLEAN,
           row' = [row EXCEPT ![d] = r], version' = [version EXCEPT ![d] = v],
           trashed' = [trashed EXCEPT ![d] = x], indexed' = [indexed EXCEPT ![d] = x]
    PROVE  Becomes(d, r, v, x)
  BY DEF MetaType, Becomes

LEMMA MetaMoves ==
    ASSUME Types, Next
    PROVE  MetaStep
  <1> USE DEF store, past
  <1>a. MetaType /\ RowInv
    BY DEF Types
  <1>b. \A d \in Docs : /\ Upserted(d) \in {"none", "full", "ghost"}
                        /\ row[d] \in {"none", "full", "ghost"}
                        /\ version[d] \in 0..V /\ trashed[d] \in BOOLEAN
    BY <1>a DEF MetaType, Upserted
  <1>c. \A b \in 1..(V - 1) : b + 1 \in 0..V
    BY StoreAssumption
  <1>1. CASE \E t \in Requests : CreateRow(t)
    <2>1. PICK t \in Requests : CreateRow(t)
      BY <1>1
    <2>2. doc[t] \in Docs
      BY <2>1, Placed, Cast DEF CreateRow, At
    <2>3. Becomes(doc[t], "full", 1, trashed[doc[t]])
      <3>1. /\ row' = [row EXCEPT ![doc[t]] = "full"]
            /\ version' = [version EXCEPT ![doc[t]] = 1]
            /\ trashed' = trashed /\ indexed' = indexed
        BY <2>1 DEF CreateRow
      <3>2. QED
        BY <1>a, <2>2, <3>1, StoreAssumption DEF MetaType, RowInv, Becomes
    <2>4. QED
      BY <2>1, <2>3 DEF MetaStep
  <1>2. CASE \E t \in Requests : Commit(t)
    <2>1. PICK t \in Requests : Commit(t)
      BY <1>2
    <2>2. doc[t] \in Docs /\ base[t] \in 1..(V - 1) /\ version[doc[t]] = base[t]
      BY <2>1, Placed, Cast DEF Commit, At, Types, Roles
    <2>3. Becomes(doc[t], row[doc[t]], base[t] + 1, trashed[doc[t]])
      <3>1. /\ row' = row /\ version' = [version EXCEPT ![doc[t]] = base[t] + 1]
            /\ trashed' = trashed /\ indexed' = indexed
        BY <2>1 DEF Commit
      <3>2. QED
        BY <1>a, <1>c, <2>2, <3>1 DEF MetaType, RowInv, Becomes
    <2>4. QED
      BY <2>1, <2>2, <2>3 DEF MetaStep
  <1>3. CASE \E t \in Requests : Trash(t) \/ Restore(t)
    <2>1. PICK t \in Requests : Trash(t) \/ Restore(t)
      BY <1>3
    <2>2. doc[t] \in Docs
      BY <2>1, Placed, Cast DEF Trash, Restore, At
    <2>3. CASE Trash(t)
      <3>1. /\ row' = [row EXCEPT ![doc[t]] = Upserted(doc[t])] /\ version' = version
            /\ trashed' = [trashed EXCEPT ![doc[t]] = TRUE]
            /\ indexed' = [indexed EXCEPT ![doc[t]] = TRUE]
        BY <2>3 DEF Trash, Enrolled
      <3>2. Becomes(doc[t], Upserted(doc[t]), version[doc[t]], TRUE)
        BY <1>a, <1>b, <2>2, <3>1 DEF MetaType, Becomes
      <3>3. QED
        BY <2>3, <3>2 DEF MetaStep
    <2>4. CASE Restore(t)
      <3>1. /\ row' = [row EXCEPT ![doc[t]] = Upserted(doc[t])] /\ version' = version
            /\ trashed' = [trashed EXCEPT ![doc[t]] = FALSE]
            /\ indexed' = [indexed EXCEPT ![doc[t]] = FALSE]
        BY <2>4 DEF Restore, Enrolled
      <3>2. Becomes(doc[t], Upserted(doc[t]), version[doc[t]], FALSE)
        BY <1>a, <1>b, <2>2, <3>1 DEF MetaType, Becomes
      <3>3. QED
        BY <2>4, <3>2 DEF MetaStep
    <2>5. QED
      BY <2>1, <2>3, <2>4
  <1>4. CASE Point
    <2>1. doc[Compactor] \in Docs /\ base[Compactor] \in 1..(V - 1)
      BY <1>4, Placed, Cast DEF Point, At, Types, Roles
    <2>2. /\ row' = [row EXCEPT ![doc[Compactor]] = Upserted(doc[Compactor])]
          /\ version' = [version EXCEPT ![doc[Compactor]] = base[Compactor] + 1]
          /\ trashed' = trashed /\ indexed' = indexed
      BY <1>4 DEF Point
    <2>3. Becomes(doc[Compactor], Upserted(doc[Compactor]), base[Compactor] + 1,
                  trashed[doc[Compactor]])
      BY <1>a, <1>b, <1>c, <2>1, <2>2 DEF MetaType, RowInv, Becomes
    <2>4. QED
      BY <1>4, <2>1, <2>3 DEF MetaStep
  <1>5. CASE \E a \in Requests \union {Sweeper}, item \in Rows \union {Metadata} :
                DeleteRow(a, item)
    <2>1. PICK a \in Requests \union {Sweeper}, item \in Rows \union {Metadata} :
                DeleteRow(a, item)
      BY <1>5
    <2>2. CASE item = Metadata
      <3>1. doc[a] \in Docs
        BY <2>1, Placed, Cast DEF DeleteRow, At
      <3>2. /\ row' = [row EXCEPT ![doc[a]] = "none"]
            /\ version' = [version EXCEPT ![doc[a]] = 0]
            /\ trashed' = [trashed EXCEPT ![doc[a]] = FALSE]
            /\ indexed' = [indexed EXCEPT ![doc[a]] = FALSE]
        BY <2>1, <2>2 DEF DeleteRow
      <3>3. 0 \in 0..V
        BY StoreAssumption
      <3>4. Becomes(doc[a], "none", 0, FALSE)
        BY <1>a, <3>1, <3>2, <3>3, Turned
      <3>5. QED
        BY <2>1, <2>2, <3>4 DEF MetaStep
    <2>3. CASE item # Metadata
      BY <2>1, <2>3 DEF DeleteRow, MetaStep
    <2>4. QED
      BY <2>2, <2>3
  <1>6. CASE \E t \in Requests, d \in Docs : Begins(t, d) \/ BeginCopy(t, d)
    BY <1>6 DEF Begins, BeginCopy, MetaStep
  <1>7. CASE \E t \in Requests : CopyImages(t) \/ PutFirst(t) \/ Conflict(t) \/ Upload(t)
                                 \/ Forgo(t)
    BY <1>7 DEF CopyImages, PutFirst, Conflict, Upload, Forgo, MetaStep
  <1>8. CASE \E a \in Actors : PutNext(a) \/ Query(a) \/ SweepDocs(a) \/ SweepBlobs(a)
                               \/ Drop(a) \/ Refuse(a)
    BY <1>8 DEF PutNext, Query, SweepDocs, SweepBlobs, Drop, Refuse, MetaStep
  <1>9. CASE List \/ Prune \/ \E d \in Docs : Take(d) \/ Open(d) \/ Compact(d)
    BY <1>9 DEF List, Prune, Take, Open, Compact, MetaStep
  <1>10. CASE \/ \E d \in Docs, u \in Updates : Append(d, u)
              \/ \E root \in Roots : Collect(root) \/ \E d \in Docs : Condemn(d, root)
    BY <1>10 DEF Append, Collect, Condemn, MetaStep
  <1>11. QED
    BY <1>1, <1>2, <1>3, <1>4, <1>5, <1>6, <1>7, <1>8, <1>9, <1>10, Cast
    DEF Next, Answer, HardDelete, Retain, Snapshotting, Reconcile

LEMMA MetaTyped ==
    ASSUME Types, MetaStep
    PROVE  MetaType' /\ RowInv'
  <1> USE DEF Types, MetaType, RowInv
  <1>1. CASE meta' = meta
    BY <1>1 DEF meta
  <1>2. ASSUME NEW d, NEW r, NEW v, NEW x, Becomes(d, r, v, x),
               d \in Docs => /\ r = "full" => v # 0
                             /\ r = "none" => v = 0 /\ ~x
        PROVE  MetaType' /\ RowInv'
    BY <1>2 DEF Becomes
  <1>3. CASE \E t \in Requests : CreateRow(t) /\ Becomes(doc[t], "full", 1, trashed[doc[t]])
    BY <1>2, <1>3
  <1>4. CASE \E t \in Requests :
                /\ base[t] \in 1..(V - 1) /\ version[doc[t]] = base[t]
                /\ Becomes(doc[t], row[doc[t]], base[t] + 1, trashed[doc[t]])
    <2>1. PICK t \in Requests :
                /\ base[t] \in 1..(V - 1) /\ version[doc[t]] = base[t]
                /\ Becomes(doc[t], row[doc[t]], base[t] + 1, trashed[doc[t]])
      BY <1>4
    <2>2. base[t] + 1 # 0 /\ base[t] # 0
      BY <2>1
    <2>3. QED
      BY <1>2, <2>1, <2>2
  <1>5. CASE \E t \in Requests, x \in BOOLEAN :
                Becomes(doc[t], Upserted(doc[t]), version[doc[t]], x)
    <2>1. PICK t \in Requests, x \in BOOLEAN :
                Becomes(doc[t], Upserted(doc[t]), version[doc[t]], x)
      BY <1>5
    <2>2. doc[t] \in Docs => /\ Upserted(doc[t]) = "full" => version[doc[t]] # 0
                             /\ Upserted(doc[t]) # "none"
      BY DEF Upserted
    <2>3. QED
      BY <1>2, <2>1, <2>2
  <1>6. CASE base[Compactor] \in 1..(V - 1)
             /\ Becomes(doc[Compactor], Upserted(doc[Compactor]), base[Compactor] + 1,
                        trashed[doc[Compactor]])
    <2>1. base[Compactor] + 1 # 0
      BY <1>6
    <2>2. Upserted(doc[Compactor]) # "none"
      BY DEF Upserted
    <2>3. QED
      BY <1>2, <1>6, <2>1, <2>2
  <1>7. CASE \E a \in Requests \union {Sweeper} : Becomes(doc[a], "none", 0, FALSE)
    BY <1>2, <1>7
  <1>8. QED
    BY <1>1, <1>3, <1>4, <1>5, <1>6, <1>7 DEF MetaStep
-----------------------------------------------------------------------------
(* What a step may do to the other rows, to the objects and to the history *)
(* of what was written since a purge looked.                               *)
LEMMA NotedType ==
    ASSUME ItemType, NEW d \in Docs, NEW items \in SUBSET (Rows \union Objects \union {Metadata}),
           Noted(d, items)
    PROVE  since' \in [Docs -> SUBSET (Rows \union Objects \union {Metadata})]
  BY DEF ItemType, Noted

LEMMA PutType ==
    ASSUME ItemType, NEW d \in Docs, NEW o \in Objects, PutObject(d, o), rows' = rows
    PROVE  ItemType'
  <1>1. {o} \in SUBSET (Rows \union Objects \union {Metadata})
    OBVIOUS
  <1>2. Noted(d, {o})
    BY DEF PutObject
  <1>3. since' \in [Docs -> SUBSET (Rows \union Objects \union {Metadata})]
    BY <1>1, <1>2, NotedType
  <1>4. QED
    BY <1>3 DEF ItemType, PutObject

LEMMA NextVersion ==
    ASSUME Types, NEW a \in Actors, pc[a] \in {"put", "point"}
    PROVE  base[a] + 1 \in 1..V /\ Object(base[a] + 1) \in Objects
           /\ Object(base[a] + 1) # Image
  <1>1. base[a] \in 1..(V - 1)
    BY DEF Types, Roles
  <1>2. base[a] + 1 \in 1..V
    BY <1>1, StoreAssumption
  <1>3. QED
    BY <1>2, Kinds

LEMMA ItemTyped ==
    ASSUME Types, Next
    PROVE  ItemType'
  <1> USE DEF store, past
  <1>a. ItemType
    BY DEF Types
  <1>b. {Metadata} \in SUBSET (Rows \union Objects \union {Metadata})
    OBVIOUS
  <1>1. CASE \E t \in Requests : CopyImages(t) \/ PutFirst(t) \/ Upload(t)
    <2>1. PICK t \in Requests : CopyImages(t) \/ PutFirst(t) \/ Upload(t)
      BY <1>1
    <2>2. doc[t] \in Docs
      BY <2>1, Placed, Cast DEF CopyImages, PutFirst, Upload, At
    <2>3. rows' = rows
      BY <2>1 DEF CopyImages, PutFirst, Upload
    <2>4. 1 \in 1..V
      BY StoreAssumption
    <2>5. \/ PutObject(doc[t], Image) \/ PutObject(doc[t], Object(1))
          \/ (objects' = objects /\ since' = since)
      BY <2>1 DEF CopyImages, PutFirst, Upload
    <2>6. QED
      BY <1>a, <2>2, <2>3, <2>4, <2>5, PutType, Kinds DEF ItemType
  <1>2. CASE \E a \in Actors : PutNext(a)
    <2>1. PICK a \in Actors : PutNext(a)
      BY <1>2
    <2>2. doc[a] \in Docs /\ Object(base[a] + 1) \in Objects
      BY <2>1, Placed, NextVersion DEF PutNext, At
    <2>3. QED
      BY <1>a, <2>1, <2>2, PutType DEF PutNext
  <1>3. CASE \E t \in Requests : CreateRow(t) \/ Commit(t) \/ Trash(t) \/ Restore(t)
    <2>1. PICK t \in Requests : CreateRow(t) \/ Commit(t) \/ Trash(t) \/ Restore(t)
      BY <1>3
    <2>2. doc[t] \in Docs
      BY <2>1, Placed, Cast DEF CreateRow, Commit, Trash, Restore, At
    <2>3. Noted(doc[t], {Metadata}) /\ rows' = rows /\ objects' = objects
      BY <2>1 DEF CreateRow, Commit, Trash, Restore
    <2>4. QED
      BY <1>a, <1>b, <2>2, <2>3, NotedType DEF ItemType
  <1>4. CASE Point
    <2>1. doc[Compactor] \in Docs
      BY <1>4, Placed, Cast DEF Point, At
    <2>2. Noted(doc[Compactor], {Metadata}) /\ rows' = rows /\ objects' = objects
      BY <1>4 DEF Point
    <2>3. QED
      BY <1>a, <1>b, <2>1, <2>2, NotedType DEF ItemType
  <1>5. CASE \E d \in Docs, u \in Updates : Append(d, u)
    <2>1. PICK d \in Docs, u \in Updates : Append(d, u)
      BY <1>5
    <2>2. Update(u) \in Rows
      BY Kinds
    <2>3. {Update(u)} \in SUBSET (Rows \union Objects \union {Metadata})
      BY <2>2
    <2>4. since' \in [Docs -> SUBSET (Rows \union Objects \union {Metadata})]
      BY <1>a, <2>1, <2>3, NotedType DEF Append
    <2>5. QED
      BY <1>a, <2>1, <2>2, <2>4 DEF Append, ItemType
  <1>6. CASE \E a \in Actors : Query(a)
    <2>1. PICK a \in Actors : Query(a)
      BY <1>6
    <2>2. rows' = rows /\ objects' = objects
          /\ (since' = since \/ since' = [since EXCEPT ![doc[a]] = {}])
      BY <2>1 DEF Query
    <2>3. QED
      BY <1>a, <2>2 DEF ItemType
  <1>7. CASE \E a \in Requests \union {Sweeper}, item \in Rows \union {Metadata} :
                DeleteRow(a, item)
    <2>1. PICK a \in Requests \union {Sweeper}, item \in Rows \union {Metadata} :
                DeleteRow(a, item)
      BY <1>7
    <2>2. objects' = objects /\ since' = since
          /\ (rows' = rows \/ rows' = [rows EXCEPT ![doc[a]] = @ \ {item}])
      BY <2>1 DEF DeleteRow
    <2>3. QED
      BY <1>a, <2>2 DEF ItemType
  <1>8. CASE \E a \in Requests \union {Sweeper} : SweepDocs(a) \/ SweepBlobs(a)
    <2>1. PICK a \in Requests \union {Sweeper} : SweepDocs(a) \/ SweepBlobs(a)
      BY <1>8
    <2>2. rows' = rows /\ since' = since
          /\ (objects' = objects \/ \E gone : objects' = [objects EXCEPT ![doc[a]] = @ \ gone])
      BY <2>1 DEF SweepDocs, SweepBlobs, SweepFails
    <2>3. QED
      BY <1>a, <2>2 DEF ItemType
  <1>9. CASE Prune \/ \E root \in Roots : Collect(root)
    BY <1>a, <1>9 DEF Prune, Collect, ItemType
  <1>10. CASE \E t \in Requests, d \in Docs : Begins(t, d) \/ BeginCopy(t, d)
    BY <1>a, <1>10 DEF Begins, BeginCopy, ItemType
  <1>11. CASE (\E t \in Requests : Conflict(t) \/ Forgo(t)) \/ (\E a \in Actors : Drop(a) \/ Refuse(a))
    BY <1>a, <1>11 DEF Conflict, Forgo, Drop, Refuse, ItemType
  <1>12. CASE List \/ \E d \in Docs : Take(d) \/ Open(d) \/ Compact(d)
    BY <1>a, <1>12 DEF List, Take, Open, Compact, ItemType
  <1>13. CASE \E root \in Roots : \E d \in Docs : Condemn(d, root)
    BY <1>a, <1>13 DEF Condemn, ItemType
  <1>14. QED
    BY <1>1, <1>2, <1>3, <1>4, <1>5, <1>6, <1>7, <1>8, <1>9, <1>10, <1>11, <1>12, <1>13, Cast
    DEF Next, Answer, HardDelete, Retain, Snapshotting, Reconcile

-----------------------------------------------------------------------------
(* What each actor does next.                                              *)
LEMMA IdleKeeps ==
    ASSUME Types, NEW a \in Actors, ToIdle(a)
    PROVE  ActorType' /\ Roles'
  <1>1. 0 \in 0..V /\ "idle" \in Steps /\ "next" \in Steps
    BY StoreAssumption DEF Steps
  <1>2. ActorType'
    BY <1>1 DEF Types, ActorType, ToIdle, Rest
  <1>3. Roles'
    BY Cast DEF Types, ActorType, Roles, RequestSteps, ToIdle, Rest
  <1>4. QED
    BY <1>2, <1>3

\* An actor goes from one step to another of the same document.
LEMMA GoKeeps ==
    ASSUME Types, NEW a \in Actors, pc[a] \notin {"idle", "next"}, NEW s \in Steps, Go(a, s),
           doc' = doc, base' = base, s \notin {"idle", "next"},
           s = "point" => pc[a] = "put", s # "put",
           a \in Requests => s \in RequestSteps,
           a = Sweeper => s \in Erasing,
           a = Compactor => s \in {"point", "prune"},
           a # Reconciler
    PROVE  Roles' /\ pc' \in [Actors -> Steps]
  BY Cast DEF Types, ActorType, Roles, Go

LEMMA ActorTyped ==
    ASSUME Types, Next
    PROVE  ActorType' /\ Roles'
  <1> USE DEF store, meta
  <1>a. ActorType
    BY DEF Types
  <1>1. CASE \E t \in Requests : PutFirst(t) \/ Commit(t) \/ Conflict(t) \/ Trash(t)
                                 \/ Restore(t) \/ Upload(t) \/ Forgo(t)
    <2>1. PICK t \in Requests : ToIdle(t)
      BY <1>1 DEF PutFirst, Commit, Conflict, Trash, Restore, Upload, Forgo
    <2>2. QED
      BY <2>1, IdleKeeps, Cast
  <1>2. CASE \E a \in Actors : SweepBlobs(a) \/ Drop(a) \/ Refuse(a)
    <2>1. PICK a \in Actors : ToIdle(a)
      BY <1>2 DEF SweepBlobs, Drop, Refuse
    <2>2. QED
      BY <2>1, IdleKeeps
  <1>3. CASE Prune \/ \E root \in Roots : Collect(root)
    <2>1. ToIdle(Compactor) \/ ToIdle(Reconciler)
      BY <1>3 DEF Prune, Collect
    <2>2. QED
      BY <2>1, IdleKeeps, Cast
  <1>4. CASE \E t \in Requests : CopyImages(t) \/ CreateRow(t)
    <2>1. PICK t \in Requests : CopyImages(t) \/ CreateRow(t)
      BY <1>4
    <2>2. PICK s \in {"create", "first"} : Go(t, s)
      BY <2>1 DEF CopyImages, CreateRow
    <2>3. /\ pc[t] \in {"images", "create"} /\ doc' = doc /\ base' = base
          /\ found' = found /\ botched' = botched
      BY <2>1 DEF CopyImages, CreateRow, At
    <2>4. s \in Steps /\ s \in RequestSteps /\ s \notin {"put", "point", "idle", "next"}
      BY <2>2 DEF Steps, RequestSteps
    <2>5. Roles' /\ pc' \in [Actors -> Steps]
      BY <2>2, <2>3, <2>4, GoKeeps, Cast
    <2>6. QED
      BY <1>a, <2>3, <2>5 DEF ActorType
  <1>5. CASE \E a \in Requests \union {Compactor} : PutNext(a)
    <2>1. PICK a \in Requests \union {Compactor} : PutNext(a)
      BY <1>5
    <2>2. /\ pc[a] = "put" /\ Go(a, "point") /\ doc' = doc /\ base' = base
          /\ found' = found /\ botched' = botched
      BY <2>1 DEF PutNext, At
    <2>3. "point" \in Steps /\ "point" \in RequestSteps
      BY DEF Steps, RequestSteps
    <2>4. Roles' /\ pc' \in [Actors -> Steps]
      BY <2>2, <2>3, GoKeeps, Cast
    <2>5. QED
      BY <1>a, <2>2, <2>4 DEF ActorType
  <1>6. CASE Point
    <2>1. /\ pc[Compactor] = "point" /\ Go(Compactor, "prune") /\ doc' = doc /\ base' = base
          /\ found' = found /\ botched' = botched
      BY <1>6 DEF Point, At
    <2>2. "prune" \in Steps
      BY DEF Steps
    <2>3. Roles' /\ pc' \in [Actors -> Steps]
      BY <2>1, <2>2, GoKeeps, Cast
    <2>4. QED
      BY <1>a, <2>1, <2>3 DEF ActorType
  <1>7. CASE \E a \in Requests \union {Sweeper} : Query(a) \/ SweepDocs(a)
    <2>1. PICK a \in Requests \union {Sweeper} : Query(a) \/ SweepDocs(a)
      BY <1>7
    <2>2. PICK s \in {"rows", "blobs"} : Go(a, s)
      BY <2>1 DEF Query, SweepDocs
    <2>3. pc[a] \in {"query", "rows"} /\ doc' = doc /\ base' = base
      BY <2>1 DEF Query, SweepDocs, At
    <2>4. s \in Steps /\ s \in RequestSteps /\ s \in Erasing
          /\ s \notin {"put", "point", "idle", "next"}
      BY <2>2 DEF Steps, RequestSteps, Erasing
    <2>5. Roles' /\ pc' \in [Actors -> Steps]
      BY <2>2, <2>3, <2>4, GoKeeps, Cast
    <2>6. Stored(doc[a]) \in SUBSET (Rows \union {Metadata})
      <3>1. doc[a] \in Docs
        BY <2>3, Placed, Cast
      <3>2. rows[doc[a]] \in SUBSET Rows
        BY <3>1 DEF Types, ItemType
      <3>3. QED
        BY <3>2 DEF Stored
    <2>7. found' \in [Actors -> SUBSET (Rows \union {Metadata})]
          /\ botched' \in [Actors -> BOOLEAN]
      BY <1>a, <2>1, <2>6 DEF Query, SweepDocs, SweepFails, ActorType
    <2>8. QED
      BY <1>a, <2>3, <2>5, <2>7 DEF ActorType
  <1>8. CASE \E a \in Requests \union {Sweeper}, item \in Rows \union {Metadata} :
                DeleteRow(a, item)
    <2>1. PICK a \in Requests \union {Sweeper}, item \in Rows \union {Metadata} :
                DeleteRow(a, item)
      BY <1>8
    <2>2. pc' = pc /\ doc' = doc /\ base' = base /\ botched' = botched
          /\ found' = [found EXCEPT ![a] = @ \ {item}]
      BY <2>1 DEF DeleteRow
    <2>3. QED
      BY <1>a, <2>2 DEF Types, ActorType, Roles
  <1>9. CASE \E t \in Requests, d \in Docs : Begins(t, d)
    <2>1. PICK t \in Requests, d \in Docs : Begins(t, d)
      BY <1>9
    <2>2. PICK s \in {"trash", "upload", "put", "restore", "query"} :
            /\ Begin(t, d, s)
            /\ s = "put" => version[d] < V
      BY <2>1 DEF Begins, Asked
    <2>3. s \in Steps /\ s \in RequestSteps /\ s \notin {"idle", "next", "point"}
      BY <2>2 DEF Steps, RequestSteps, Erasing
    <2>4. /\ pc' = [pc EXCEPT ![t] = s] /\ doc' = [doc EXCEPT ![t] = d]
          /\ pc[t] = "idle" /\ t \in Actors /\ d # Nowhere
      BY <2>2, Cast, StoreAssumption DEF Begin, Go
    <2>5. pc'[t] = s
      BY <1>a, <2>4 DEF ActorType
    <2>6. base' = [base EXCEPT ![t] = IF s = "put" THEN version[d] ELSE 0]
          /\ found' = found /\ botched' = botched
      BY <2>1, <2>5 DEF Begins
    <2>7. version[d] \in 0..V /\ version[d] # 0 /\ 0 \in 0..V
      BY <2>1, StoreAssumption DEF Begins, Types, MetaType, RowInv
    <2>8. s = "put" => version[d] \in 1..(V - 1)
      BY <2>2, <2>7, StoreAssumption
    <2>9. ActorType'
      BY <1>a, <2>3, <2>4, <2>6, <2>7 DEF ActorType
    <2>10. base'[t] = (IF s = "put" THEN version[d] ELSE 0)
           /\ \A a \in Actors : a # t => base'[a] = base[a] /\ pc'[a] = pc[a] /\ doc'[a] = doc[a]
      BY <1>a, <2>4, <2>6 DEF ActorType
    <2>11. Roles'
      BY <1>a, <2>3, <2>4, <2>5, <2>8, <2>10, Cast DEF Types, Roles, ActorType
    <2>12. QED
      BY <2>9, <2>11
  <1>10. CASE \E t \in Requests, d \in Docs : BeginCopy(t, d)
    <2>1. PICK t \in Requests, d \in Docs : BeginCopy(t, d)
      BY <1>10
    <2>2. /\ pc' = [pc EXCEPT ![t] = "images"] /\ doc' = [doc EXCEPT ![t] = d]
          /\ base' = base /\ found' = found /\ botched' = botched
          /\ t \in Actors /\ d # Nowhere
      BY <2>1, Cast, StoreAssumption DEF BeginCopy, Begin, Go
    <2>3. "images" \in Steps /\ "images" \in RequestSteps
      BY DEF Steps, RequestSteps
    <2>4. QED
      BY <1>a, <2>2, <2>3, Cast DEF Types, ActorType, Roles
  <1>11. CASE List
    <2>1. /\ pc' = [pc EXCEPT ![Sweeper] = "next"] /\ doc' = doc /\ base' = base
          /\ found' = found /\ botched' = botched /\ pc[Sweeper] = "idle"
      BY <1>11 DEF List, At, Go
    <2>2. "next" \in Steps
      BY DEF Steps
    <2>3. QED
      BY <1>a, <2>1, <2>2, Cast DEF Types, ActorType, Roles
  <1>12. CASE \E d \in Docs : Take(d)
    <2>1. PICK d \in Docs : Take(d)
      BY <1>12
    <2>2. /\ pc' = [pc EXCEPT ![Sweeper] = "query"] /\ doc' = [doc EXCEPT ![Sweeper] = d]
          /\ base' = base /\ found' = found /\ botched' = botched /\ d # Nowhere
      BY <2>1, StoreAssumption DEF Take, Go
    <2>3. "query" \in Steps /\ "query" \in Erasing
      BY DEF Steps, Erasing
    <2>4. QED
      BY <1>a, <2>2, <2>3, Cast DEF Types, ActorType, Roles
  <1>13. CASE \E d \in Docs : Compact(d)
    <2>1. PICK d \in Docs : Compact(d)
      BY <1>13
    <2>2. /\ pc' = [pc EXCEPT ![Compactor] = "put"] /\ doc' = [doc EXCEPT ![Compactor] = d]
          /\ base' = [base EXCEPT ![Compactor] = version[d]] /\ botched' = botched
          /\ found' = [found EXCEPT ![Compactor] = {Update(u) : u \in Updates} \cap rows[d]]
          /\ d # Nowhere
      BY <2>1, StoreAssumption DEF Compact, Go
    <2>3. version[d] \in 0..V /\ version[d] # 0 /\ version[d] < V
      BY <2>1 DEF Compact, Types, MetaType, RowInv
    <2>4. version[d] \in 1..(V - 1)
      BY <2>3, StoreAssumption
    <2>5. {Update(u) : u \in Updates} \cap rows[d] \in SUBSET (Rows \union {Metadata})
      BY DEF Types, ItemType
    <2>6. "put" \in Steps
      BY DEF Steps
    <2>7. ActorType'
      BY <1>a, <2>2, <2>3, <2>5, <2>6 DEF ActorType
    <2>8. /\ pc'[Compactor] = "put" /\ doc'[Compactor] = d /\ base'[Compactor] = version[d]
          /\ \A a \in Actors : a # Compactor =>
                base'[a] = base[a] /\ pc'[a] = pc[a] /\ doc'[a] = doc[a]
      BY <1>a, <2>2, Cast DEF ActorType
    <2>9. Roles'
      BY <2>2, <2>4, <2>8, Cast DEF Types, Roles
    <2>10. QED
      BY <2>7, <2>9
  <1>14. CASE \E root \in Roots : \E d \in Docs : Condemn(d, root)
    <2>1. PICK root \in Roots, d \in Docs : Condemn(d, root)
      BY <1>14
    <2>2. /\ pc' = [pc EXCEPT ![Reconciler] = root] /\ doc' = [doc EXCEPT ![Reconciler] = d]
          /\ base' = base /\ found' = found /\ botched' = botched /\ d # Nowhere
      BY <2>1, StoreAssumption DEF Condemn, Go
    <2>3. root \in Steps /\ root \in {"docs", "blobs"}
      BY DEF Steps, Roots
    <2>4. QED
      BY <1>a, <2>2, <2>3, Cast DEF Types, ActorType, Roles
  <1>15. CASE \/ \E d \in Docs : Open(d)
              \/ \E d \in Docs, u \in Updates : Append(d, u)
    BY <1>a, <1>15 DEF Open, Append, local, Types, ActorType, Roles
  <1>16. QED
    BY <1>1, <1>2, <1>3, <1>4, <1>5, <1>6, <1>7, <1>8, <1>9, <1>10, <1>11, <1>12, <1>13,
       <1>14, <1>15, Cast
    DEF Next, Answer, HardDelete, Retain, Snapshotting, Reconcile

LEMMA PastTyped ==
    ASSUME Types, Next
    PROVE  PastType'
  <1> USE DEF past, local
  <1>a. PastType
    BY DEF Types
  <1>1. CASE \E t \in Requests, d \in Docs : Begins(t, d) \/ BeginCopy(t, d)
    <2>1. requests < MaxRequests /\ requests' = requests + 1
      BY <1>1 DEF Begins, BeginCopy, Begin
    <2>2. requests' \in 0..MaxRequests
      BY <1>a, <2>1, StoreAssumption DEF PastType
    <2>3. QED
      BY <1>a, <1>1, <2>2 DEF Begins, BeginCopy, PastType
  <1>2. CASE \E t \in Requests : CopyImages(t) \/ CreateRow(t) \/ PutFirst(t) \/ Restore(t)
                                 \/ Upload(t)
    <2>1. PICK t \in Requests : CopyImages(t) \/ CreateRow(t) \/ PutFirst(t) \/ Restore(t)
                                 \/ Upload(t)
      BY <1>2
    <2>2. doc[t] \in Docs
      BY <2>1, Placed, Cast DEF CopyImages, CreateRow, PutFirst, Restore, Upload, At
    <2>3. QED
      BY <1>a, <2>1, <2>2 DEF CopyImages, CreateRow, PutFirst, Restore, Upload, PastType
  <1>3. CASE \E t \in Requests : Commit(t) \/ Conflict(t) \/ Trash(t) \/ Forgo(t)
    BY <1>a, <1>3 DEF Commit, Conflict, Trash, Forgo, PastType
  <1>4. CASE \E a \in Actors : Drop(a)
    <2>1. faults' \in 0..MaxFaults
      BY <1>a, <1>4, StoreAssumption DEF Drop, Failing, PastType
    <2>2. QED
      BY <1>a, <1>4, <2>1 DEF Drop, PastType
  <1>5. CASE \E a \in Requests \union {Sweeper} : SweepDocs(a) \/ SweepBlobs(a)
    <2>1. PICK a \in Requests \union {Sweeper} : SweepDocs(a) \/ SweepBlobs(a)
      BY <1>5
    <2>2. doc[a] \in Docs
      BY <2>1, Placed, Cast DEF SweepDocs, SweepBlobs, At
    <2>3. faults' = faults \/ Failing
      BY <2>1 DEF SweepDocs, SweepBlobs, SweepFails
    <2>4. faults' \in 0..MaxFaults
      BY <1>a, <2>3, StoreAssumption DEF Failing, PastType
    <2>5. audited' \in SUBSET Docs
      BY <1>a, <2>1, <2>2 DEF SweepDocs, SweepBlobs, Purged, PastType
    <2>6. QED
      BY <1>a, <2>1, <2>4, <2>5 DEF SweepDocs, SweepBlobs, PastType
  <1>6. CASE \E a \in Actors : PutNext(a) \/ Query(a) \/ Refuse(a)
    BY <1>a, <1>6 DEF PutNext, Query, Refuse, PastType
  <1>7. CASE \E a \in Requests \union {Sweeper}, item \in Rows \union {Metadata} :
                DeleteRow(a, item)
    BY <1>a, <1>7 DEF DeleteRow, PastType
  <1>8. CASE List \/ Point \/ Prune
    BY <1>a, <1>8 DEF List, Point, Prune, Listed, PastType
  <1>9. CASE \E d \in Docs : Take(d) \/ Open(d) \/ Compact(d)
    BY <1>a, <1>9 DEF Take, Open, Compact, PastType
  <1>10. CASE \/ \E d \in Docs, u \in Updates : Append(d, u)
              \/ \E root \in Roots : Collect(root) \/ \E d \in Docs : Condemn(d, root)
    BY <1>a, <1>10 DEF Append, Collect, Condemn, PastType
  <1>11. QED
    BY <1>1, <1>2, <1>3, <1>4, <1>5, <1>6, <1>7, <1>8, <1>9, <1>10, Cast
    DEF Next, Answer, HardDelete, Retain, Snapshotting, Reconcile

LEMMA NextTypes ==
    ASSUME Types, [Next]_vars
    PROVE  Types'
  <1>1. CASE Next
    BY <1>1, MetaMoves, MetaTyped, ItemTyped, ActorTyped, PastTyped DEF Types
  <1>2. CASE vars' = vars
    <2>1. MetaType' /\ RowInv' /\ ItemType'
      BY <1>2 DEF vars, store, meta, past, Types, MetaType, RowInv, ItemType
    <2>2. ActorType' /\ Roles' /\ PastType'
      BY <1>2 DEF vars, local, past, Types, ActorType, Roles, PastType
    <2>3. QED
      BY <2>1, <2>2 DEF Types
  <1>3. QED
    BY <1>1, <1>2
-----------------------------------------------------------------------------
(* A step is a step of one actor.                                          *)
Alone(a) ==
    \A b \in Actors : b # a =>
        pc'[b] = pc[b] /\ doc'[b] = doc[b] /\ base'[b] = base[b] /\ found'[b] = found[b]
        /\ botched'[b] = botched[b]

Freed(a) == pc'[a] \in {"idle", "next"} /\ doc'[a] = Nowhere /\ Alone(a)

Moved(a, here, there) ==
    /\ pc[a] = here /\ pc'[a] = there /\ doc[a] \in Docs
    /\ doc'[a] = doc[a] /\ base'[a] = base[a] /\ Alone(a)

Begun(a, step, d) ==
    pc[a] \in {"idle", "next"} /\ pc'[a] = step /\ doc'[a] = d /\ Alone(a)

ActorStep ==
    \/ local' = local
    \/ List /\ doc' = doc /\ pc[Sweeper] = "idle" /\ pc'[Sweeper] = "next" /\ Alone(Sweeper)
    \/ \E a \in Actors : Freed(a) /\ todo' = todo
    \/ \E t \in Requests :
        \/ CopyImages(t) /\ Moved(t, "images", "create") /\ todo' = todo
        \/ CreateRow(t) /\ Moved(t, "create", "first") /\ todo' = todo
    \/ \E a \in Requests \union {Compactor} :
        PutNext(a) /\ Moved(a, "put", "point") /\ todo' = todo
    \/ Point /\ Moved(Compactor, "point", "prune") /\ todo' = todo
    \/ \E a \in Requests \union {Sweeper} :
        /\ todo' = todo
        /\ \/ /\ Query(a) /\ Moved(a, "query", "rows")
              /\ found'[a] = Stored(doc[a])
           \/ SweepDocs(a) /\ Moved(a, "rows", "blobs") /\ found[a] = {}
           \/ \E item \in Rows \union {Metadata} :
                /\ DeleteRow(a, item) /\ Moved(a, "rows", "rows")
                /\ found'[a] = found[a] \ {item}
    \/ \E t \in Requests, d \in Docs :
        /\ todo' = todo
        /\ \/ /\ Begins(t, d)
              /\ \E step \in {"trash", "upload", "put", "restore", "query"} :
                    Begun(t, step, d) /\ (step = "query" => trashed[d])
           \/ BeginCopy(t, d) /\ Begun(t, "images", d)
    \/ \E d \in Docs :
        \/ Take(d) /\ Begun(Sweeper, "query", d) /\ d \in todo /\ todo' = todo \ {d}
        \/ Compact(d) /\ Begun(Compactor, "put", d) /\ todo' = todo
        \/ \E root \in Roots :
            Condemn(d, root) /\ Begun(Reconciler, root, d) /\ todo' = todo

LEMMA IdleFrees ==
    ASSUME Types, NEW a \in Actors, ToIdle(a)
    PROVE  Freed(a)
  BY DEF Types, ActorType, ToIdle, Rest, Freed, Alone

LEMMA GoMoves ==
    ASSUME Types, NEW a \in Actors, NEW there, Go(a, there), pc[a] \notin {"idle", "next"},
           doc' = doc, base' = base,
           \A b \in Actors : b # a => found'[b] = found[b] /\ botched'[b] = botched[b]
    PROVE  Moved(a, pc[a], there)
  <1>1. doc[a] \in Docs
    BY Placed
  <1>2. QED
    BY <1>1 DEF Types, ActorType, Go, Moved, Alone

LEMMA ActorMoves ==
    ASSUME Types, Next
    PROVE  ActorStep
  <1> USE DEF local
  <1>a. ActorType
    BY DEF Types
  <1>1. CASE \E t \in Requests : PutFirst(t) \/ Commit(t) \/ Conflict(t) \/ Trash(t)
                                 \/ Restore(t) \/ Upload(t) \/ Forgo(t)
    <2>1. PICK t \in Requests : ToIdle(t) /\ todo' = todo
      BY <1>1 DEF PutFirst, Commit, Conflict, Trash, Restore, Upload, Forgo
    <2>2. QED
      BY <2>1, IdleFrees, Cast DEF ActorStep
  <1>2. CASE \E a \in Actors : SweepBlobs(a) \/ Drop(a) \/ Refuse(a)
    <2>1. PICK a \in Actors : ToIdle(a) /\ todo' = todo
      BY <1>2 DEF SweepBlobs, Drop, Refuse
    <2>2. QED
      BY <2>1, IdleFrees DEF ActorStep
  <1>3. CASE Prune \/ \E root \in Roots : Collect(root)
    <2>1. (ToIdle(Compactor) \/ ToIdle(Reconciler)) /\ todo' = todo
      BY <1>3 DEF Prune, Collect
    <2>2. QED
      BY <2>1, IdleFrees, Cast DEF ActorStep
  <1>4. CASE \E t \in Requests : CopyImages(t)
    <2>1. PICK t \in Requests : CopyImages(t)
      BY <1>4
    <2>2. Moved(t, "images", "create") /\ todo' = todo
      BY <2>1, GoMoves, Cast DEF CopyImages, At
    <2>3. QED
      BY <2>1, <2>2 DEF ActorStep
  <1>5. CASE \E t \in Requests : CreateRow(t)
    <2>1. PICK t \in Requests : CreateRow(t)
      BY <1>5
    <2>2. Moved(t, "create", "first") /\ todo' = todo
      BY <2>1, GoMoves, Cast DEF CreateRow, At
    <2>3. QED
      BY <2>1, <2>2 DEF ActorStep
  <1>6. CASE \E a \in Requests \union {Compactor} : PutNext(a)
    <2>1. PICK a \in Requests \union {Compactor} : PutNext(a)
      BY <1>6
    <2>2. Moved(a, "put", "point") /\ todo' = todo
      BY <2>1, GoMoves, Cast DEF PutNext, At
    <2>3. QED
      BY <2>1, <2>2 DEF ActorStep
  <1>7. CASE Point
    <2>1. Moved(Compactor, "point", "prune") /\ todo' = todo
      BY <1>7, GoMoves, Cast DEF Point, At
    <2>2. QED
      BY <1>7, <2>1 DEF ActorStep
  <1>8. CASE \E a \in Requests \union {Sweeper} : Query(a)
    <2>1. PICK a \in Requests \union {Sweeper} : Query(a)
      BY <1>8
    <2>2. found' = [found EXCEPT ![a] = Stored(doc[a])] /\ a \in Actors /\ pc[a] = "query"
          /\ Go(a, "rows") /\ doc' = doc /\ base' = base /\ botched' = botched /\ todo' = todo
      BY <2>1, Cast DEF Query, At
    <2>3. found'[a] = Stored(doc[a]) /\ \A b \in Actors : b # a => found'[b] = found[b]
      BY <1>a, <2>2 DEF ActorType
    <2>4. Moved(a, "query", "rows")
      BY <2>2, <2>3, GoMoves
    <2>5. QED
      BY <2>1, <2>2, <2>3, <2>4 DEF ActorStep
  <1>9. CASE \E a \in Requests \union {Sweeper} : SweepDocs(a)
    <2>1. PICK a \in Requests \union {Sweeper} : SweepDocs(a)
      BY <1>9
    <2>2. /\ a \in Actors /\ pc[a] = "rows" /\ Go(a, "blobs") /\ doc' = doc /\ base' = base
          /\ found' = found /\ found[a] = {} /\ todo' = todo
          /\ (botched' = botched \/ botched' = [botched EXCEPT ![a] = TRUE])
      BY <2>1, Cast DEF SweepDocs, SweepFails, At
    <2>3. \A b \in Actors : b # a => botched'[b] = botched[b]
      BY <1>a, <2>2 DEF ActorType
    <2>4. Moved(a, "rows", "blobs")
      BY <2>2, <2>3, GoMoves
    <2>5. QED
      BY <2>1, <2>2, <2>4 DEF ActorStep
  <1>10. CASE \E a \in Requests \union {Sweeper}, item \in Rows \union {Metadata} :
                DeleteRow(a, item)
    <2>1. PICK a \in Requests \union {Sweeper}, item \in Rows \union {Metadata} :
                DeleteRow(a, item)
      BY <1>10
    <2>2. /\ found' = [found EXCEPT ![a] = @ \ {item}] /\ a \in Actors /\ pc[a] = "rows"
          /\ pc' = pc /\ doc' = doc /\ base' = base /\ botched' = botched /\ todo' = todo
      BY <2>1, Cast DEF DeleteRow, At
    <2>3. /\ found'[a] = found[a] \ {item}
          /\ \A b \in Actors : b # a => found'[b] = found[b]
      BY <1>a, <2>2 DEF ActorType
    <2>4. doc[a] \in Docs
      BY <2>2, Placed
    <2>5. Moved(a, "rows", "rows")
      BY <2>2, <2>3, <2>4 DEF Moved, Alone
    <2>6. QED
      BY <2>1, <2>2, <2>3, <2>5 DEF ActorStep
  <1>11. CASE \E t \in Requests, d \in Docs : Begins(t, d)
    <2>1. PICK t \in Requests, d \in Docs : Begins(t, d)
      BY <1>11
    <2>2. PICK s \in {"trash", "upload", "put", "restore", "query"} :
            Begin(t, d, s) /\ (s = "query" => trashed[d])
      BY <2>1 DEF Begins, Asked
    <2>3. /\ pc' = [pc EXCEPT ![t] = s] /\ doc' = [doc EXCEPT ![t] = d] /\ pc[t] = "idle"
          /\ found' = found /\ botched' = botched /\ t \in Actors /\ todo' = todo
          /\ \E b : base' = [base EXCEPT ![t] = b]
      BY <2>1, <2>2, Cast DEF Begin, Begins, Go
    <2>4. Begun(t, s, d)
      BY <1>a, <2>3 DEF ActorType, Begun, Alone
    <2>5. QED
      BY <2>1, <2>2, <2>3, <2>4 DEF ActorStep
  <1>12. CASE \E t \in Requests, d \in Docs : BeginCopy(t, d)
    <2>1. PICK t \in Requests, d \in Docs : BeginCopy(t, d)
      BY <1>12
    <2>2. /\ pc' = [pc EXCEPT ![t] = "images"] /\ doc' = [doc EXCEPT ![t] = d]
          /\ pc[t] = "idle" /\ t \in Actors
          /\ base' = base /\ found' = found /\ botched' = botched /\ todo' = todo
      BY <2>1, Cast DEF BeginCopy, Begin, Go
    <2>3. Begun(t, "images", d)
      BY <1>a, <2>2 DEF ActorType, Begun, Alone
    <2>4. QED
      BY <2>1, <2>2, <2>3 DEF ActorStep
  <1>13. CASE List
    <2>1. /\ pc' = [pc EXCEPT ![Sweeper] = "next"] /\ doc' = doc /\ base' = base
          /\ found' = found /\ botched' = botched /\ pc[Sweeper] = "idle"
      BY <1>13 DEF List, At, Go
    <2>2. pc'[Sweeper] = "next" /\ Alone(Sweeper)
      BY <1>a, <2>1, Cast DEF ActorType, Alone
    <2>3. QED
      BY <1>13, <2>1, <2>2 DEF ActorStep
  <1>14. CASE \E d \in Docs : Take(d)
    <2>1. PICK d \in Docs : Take(d)
      BY <1>14
    <2>2. /\ pc' = [pc EXCEPT ![Sweeper] = "query"] /\ doc' = [doc EXCEPT ![Sweeper] = d]
          /\ base' = base /\ found' = found /\ botched' = botched /\ pc[Sweeper] = "next"
          /\ d \in todo /\ todo' = todo \ {d}
      BY <2>1 DEF Take, At, Go
    <2>3. Begun(Sweeper, "query", d)
      BY <1>a, <2>2, Cast DEF ActorType, Begun, Alone
    <2>4. QED
      BY <2>1, <2>2, <2>3 DEF ActorStep
  <1>15. CASE \E d \in Docs : Compact(d)
    <2>1. PICK d \in Docs : Compact(d)
      BY <1>15
    <2>2. PICK b, f : base' = [base EXCEPT ![Compactor] = b]
                      /\ found' = [found EXCEPT ![Compactor] = f]
      BY <2>1 DEF Compact
    <2>3. /\ pc' = [pc EXCEPT ![Compactor] = "put"] /\ doc' = [doc EXCEPT ![Compactor] = d]
          /\ botched' = botched /\ pc[Compactor] = "idle" /\ todo' = todo
      BY <2>1 DEF Compact, At, Go
    <2>4. Begun(Compactor, "put", d)
      BY <1>a, <2>2, <2>3, Cast DEF ActorType, Begun, Alone
    <2>5. QED
      BY <2>1, <2>3, <2>4 DEF ActorStep
  <1>16. CASE \E root \in Roots : \E d \in Docs : Condemn(d, root)
    <2>1. PICK root \in Roots, d \in Docs : Condemn(d, root)
      BY <1>16
    <2>2. /\ pc' = [pc EXCEPT ![Reconciler] = root] /\ doc' = [doc EXCEPT ![Reconciler] = d]
          /\ base' = base /\ found' = found /\ botched' = botched
          /\ pc[Reconciler] = "idle" /\ todo' = todo
      BY <2>1 DEF Condemn, At, Go
    <2>3. Begun(Reconciler, root, d)
      BY <1>a, <2>2, Cast DEF ActorType, Begun, Alone
    <2>4. QED
      BY <2>1, <2>2, <2>3 DEF ActorStep
  <1>17. CASE \/ \E d \in Docs : Open(d)
              \/ \E d \in Docs, u \in Updates : Append(d, u)
    BY <1>17 DEF Open, Append, ActorStep
  <1>18. QED
    BY <1>1, <1>2, <1>3, <1>4, <1>5, <1>6, <1>7, <1>8, <1>9, <1>10, <1>11, <1>12, <1>13,
       <1>14, <1>15, <1>16, <1>17, Cast
    DEF Next, Answer, HardDelete, Retain, Snapshotting, Reconcile
-----------------------------------------------------------------------------
(* What a step may do to the objects, and to which of them the content     *)
(* refers.                                                                 *)
Grows(d, object) ==
    /\ d \in Docs /\ objects'[d] = objects[d] \union {object}
    /\ \A e \in Docs : e # d => objects'[e] = objects[e]

Shrinks(d) ==
    /\ d \in Docs /\ objects'[d] \subseteq objects[d]
    /\ \A e \in Docs : e # d => objects'[e] = objects[e]

ObjectStep ==
    \/ objects' = objects /\ pictured' = pictured /\ hollow' = hollow
    \/ \E t \in Requests :
        \/ CreateRow(t) /\ objects' = objects /\ pictured' = pictured
           /\ hollow' = hollow \union {doc[t]}
        \/ CopyImages(t) /\ Grows(doc[t], Image) /\ pictured' = pictured \union {doc[t]}
           /\ hollow' = hollow
        \/ Upload(t) /\ Grows(doc[t], Image) /\ pictured' = pictured \union {doc[t]}
           /\ hollow' = hollow
        \/ PutFirst(t) /\ Grows(doc[t], Object(1)) /\ pictured' = pictured
           /\ hollow' = hollow \ {doc[t]}
    \/ \E a \in Requests \union {Compactor} :
        PutNext(a) /\ Grows(doc[a], Object(base[a] + 1)) /\ pictured' = pictured
        /\ hollow' = hollow
    \/ /\ pictured' = pictured /\ hollow' = hollow
       /\ \/ \E a \in Requests \union {Sweeper} :
                /\ Shrinks(doc[a])
                /\ (pc[a] = "rows" /\ found[a] = {}) \/ pc[a] = "blobs"
          \/ pc[Reconciler] \in Roots /\ Shrinks(doc[Reconciler])

LEMMA PutGrows ==
    ASSUME ItemType, NEW d \in Docs, NEW object, PutObject(d, object)
    PROVE  Grows(d, object)
  BY DEF ItemType, PutObject, Grows

LEMMA ObjectMoves ==
    ASSUME Types, Next
    PROVE  ObjectStep
  <1> USE DEF store, past
  <1>a. ItemType
    BY DEF Types
  <1>1. CASE \E t \in Requests : CopyImages(t)
    <2>1. PICK t \in Requests : CopyImages(t)
      BY <1>1
    <2>2. doc[t] \in Docs
      BY <2>1, Placed, Cast DEF CopyImages, At
    <2>3. CASE PutObject(doc[t], Image) /\ pictured' = pictured \union {doc[t]}
      <3>1. Grows(doc[t], Image) /\ hollow' = hollow
        BY <1>a, <2>1, <2>2, <2>3, PutGrows DEF CopyImages
      <3>2. QED
        BY <2>1, <2>3, <3>1 DEF ObjectStep
    <2>4. CASE objects' = objects /\ pictured' = pictured
      BY <2>1, <2>4 DEF CopyImages, ObjectStep
    <2>5. QED
      BY <2>1, <2>3, <2>4 DEF CopyImages
  <1>2. CASE \E t \in Requests : Upload(t)
    <2>1. PICK t \in Requests : Upload(t)
      BY <1>2
    <2>2. doc[t] \in Docs
      BY <2>1, Placed, Cast DEF Upload, At
    <2>3. Grows(doc[t], Image) /\ pictured' = pictured \union {doc[t]} /\ hollow' = hollow
      BY <1>a, <2>1, <2>2, PutGrows DEF Upload
    <2>4. QED
      BY <2>1, <2>3 DEF ObjectStep
  <1>3. CASE \E t \in Requests : PutFirst(t)
    <2>1. PICK t \in Requests : PutFirst(t)
      BY <1>3
    <2>2. doc[t] \in Docs
      BY <2>1, Placed, Cast DEF PutFirst, At
    <2>3. Grows(doc[t], Object(1)) /\ pictured' = pictured /\ hollow' = hollow \ {doc[t]}
      BY <1>a, <2>1, <2>2, PutGrows DEF PutFirst
    <2>4. QED
      BY <2>1, <2>3 DEF ObjectStep
  <1>4. CASE \E a \in Requests \union {Compactor} : PutNext(a)
    <2>1. PICK a \in Requests \union {Compactor} : PutNext(a)
      BY <1>4
    <2>2. doc[a] \in Docs
      BY <2>1, Placed, Cast DEF PutNext, At
    <2>3. Grows(doc[a], Object(base[a] + 1)) /\ pictured' = pictured /\ hollow' = hollow
      BY <1>a, <2>1, <2>2, PutGrows DEF PutNext
    <2>4. QED
      BY <2>1, <2>3 DEF ObjectStep
  <1>5. CASE \E t \in Requests : CreateRow(t)
    BY <1>5 DEF CreateRow, ObjectStep
  <1>6. CASE \E a \in Requests \union {Sweeper} : SweepDocs(a) \/ SweepBlobs(a)
    <2>1. PICK a \in Requests \union {Sweeper} : SweepDocs(a) \/ SweepBlobs(a)
      BY <1>6
    <2>2. doc[a] \in Docs
      BY <2>1, Placed, Cast DEF SweepDocs, SweepBlobs, At
    <2>3. /\ (pc[a] = "rows" /\ found[a] = {}) \/ pc[a] = "blobs"
          /\ pictured' = pictured /\ hollow' = hollow
          /\ \/ objects' = objects
             \/ \E gone : objects' = [objects EXCEPT ![doc[a]] = @ \ gone]
      BY <2>1 DEF SweepDocs, SweepBlobs, SweepFails, At
    <2>4. Shrinks(doc[a])
      BY <1>a, <2>2, <2>3 DEF ItemType, Shrinks
    <2>5. QED
      BY <2>3, <2>4 DEF ObjectStep
  <1>7. CASE \E root \in Roots : Collect(root)
    <2>1. PICK root \in Roots : Collect(root)
      BY <1>7
    <2>2. pc[Reconciler] \in Roots /\ doc[Reconciler] \in Docs
      BY <2>1, Placed, Cast DEF Collect, At, Roots
    <2>3. Shrinks(doc[Reconciler]) /\ pictured' = pictured /\ hollow' = hollow
      BY <1>a, <2>1, <2>2 DEF Collect, ItemType, Shrinks
    <2>4. QED
      BY <2>2, <2>3 DEF ObjectStep
  <1>8. CASE \E t \in Requests : Commit(t) \/ Conflict(t) \/ Trash(t) \/ Restore(t) \/ Forgo(t)
    BY <1>8 DEF Commit, Conflict, Trash, Restore, Forgo, ObjectStep
  <1>9. CASE \E t \in Requests, d \in Docs : Begins(t, d) \/ BeginCopy(t, d)
    BY <1>9 DEF Begins, BeginCopy, ObjectStep
  <1>10. CASE \E a \in Actors : Query(a) \/ Drop(a) \/ Refuse(a)
    BY <1>10 DEF Query, Drop, Refuse, ObjectStep
  <1>11. CASE \E a \in Requests \union {Sweeper}, item \in Rows \union {Metadata} :
                DeleteRow(a, item)
    BY <1>11 DEF DeleteRow, ObjectStep
  <1>12. CASE List \/ Point \/ Prune \/ \E d \in Docs : Take(d) \/ Open(d) \/ Compact(d)
    BY <1>12 DEF List, Point, Prune, Take, Open, Compact, ObjectStep
  <1>13. CASE \/ \E d \in Docs, u \in Updates : Append(d, u)
              \/ \E root \in Roots : \E d \in Docs : Condemn(d, root)
    BY <1>13 DEF Append, Condemn, ObjectStep
  <1>14. QED
    BY <1>1, <1>2, <1>3, <1>4, <1>5, <1>6, <1>7, <1>8, <1>9, <1>10, <1>11, <1>12, <1>13, Cast
    DEF Next, Answer, HardDelete, Retain, Snapshotting, Reconcile

\* Only the creation of a document makes its row, which no later write can
\* complete.
LEMMA BornOnce ==
    ASSUME Types, MetaStep, NEW d \in Docs, row[d] # "full", row'[d] = "full"
    PROVE  \E t \in Requests : CreateRow(t) /\ doc[t] = d
  BY DEF MetaStep, Becomes, meta, Upserted
-----------------------------------------------------------------------------
(* An id that is not minted yet, or whose row is not created yet, is known *)
(* to nobody but the request that mints it.                                *)
Unheard(d) == row[d] = "none" /\ d \notin todo /\ d \notin open

UnbornInv ==
    \A d \in unborn :
        Unheard(d) /\ objects[d] = {} /\ d \notin pictured /\ Settled(d)

Copying(t) == pc[t] \in {"images", "create"}

CopyInv ==
    \A t \in Requests : Copying(t) =>
        /\ Unheard(doc[t]) /\ doc[t] \notin unborn
        /\ doc[t] \in pictured => Image \in objects[doc[t]]
        /\ \A a \in Actors : a # t => doc[a] # doc[t]

BirthInv == UnbornInv /\ CopyInv

\* A row, an object or a reference that changes is of a document somebody is
\* at work on.
LEMMA RowUntouched ==
    ASSUME Types, Next, NEW d \in Docs, row'[d] # row[d]
    PROVE  \E a \in Actors \ {Reconciler} : doc[a] = d /\ pc[a] # "images"
  <1>1. MetaStep
    BY MetaMoves
  <1>2. \A t \in Requests : CreateRow(t) \/ Commit(t) \/ Trash(t) \/ Restore(t) => pc[t] # "images"
    BY DEF CreateRow, Commit, Trash, Restore, At
  <1>3. Point => pc[Compactor] # "images"
    BY DEF Point, At
  <1>4. \A a \in Requests \union {Sweeper} : DeleteRow(a, Metadata) => pc[a] # "images"
    BY DEF DeleteRow, At
  <1>5. QED
    BY <1>1, <1>2, <1>3, <1>4, Cast DEF MetaStep, Becomes, meta

LEMMA ObjectsUntouched ==
    ASSUME Types, Next, NEW d \in Docs, Settled(d)
    PROVE  objects'[d] = objects[d] /\ (d \in pictured' => d \in pictured)
  <1>1. ObjectStep
    BY ObjectMoves
  <1>2. QED
    BY <1>1, Cast DEF ObjectStep, Grows, Shrinks, Settled

LEMMA OpenMoves ==
    ASSUME Next, NEW d \in open', d \notin open
    PROVE  row[d] = "full"
  <1>1. open' = open \/ \E e \in Docs : Open(e)
    <2> USE DEF past
    <2>1. CASE \E t \in Requests : Answer(t)
      <3> PICK t \in Requests : Answer(t)
        BY <2>1
      <3>1. CASE CopyImages(t) \/ CreateRow(t) \/ PutFirst(t) \/ PutNext(t) \/ Commit(t)
                 \/ Conflict(t) \/ Trash(t) \/ Restore(t) \/ Upload(t) \/ Forgo(t)
        BY <3>1 DEF CopyImages, CreateRow, PutFirst, PutNext, Commit, Conflict, Trash, Restore,
           Upload, Forgo
      <3>2. CASE HardDelete(t)
        BY <3>2 DEF HardDelete, Query, Refuse, SweepDocs, SweepBlobs, DeleteRow
      <3>3. QED
        BY <3>1, <3>2 DEF Answer
    <2>2. CASE Retain \/ Snapshotting \/ Reconcile
      BY <2>2 DEF Retain, Snapshotting, Reconcile, HardDelete, List, Take, PutNext, Point,
         Prune, Collect, Condemn, Query, Refuse, SweepDocs, SweepBlobs, DeleteRow
    <2>3. CASE \/ \E t \in Requests, d1 \in Docs : Begins(t, d1) \/ BeginCopy(t, d1)
               \/ \E d1 \in Docs : Compact(d1)
               \/ \E d1 \in Docs, u \in Updates : Append(d1, u)
               \/ \E a \in Actors : Drop(a)
      BY <2>3 DEF Begins, BeginCopy, Compact, Append, Drop
    <2>4. QED
      BY <2>1, <2>2, <2>3 DEF Next
  <1>2. QED
    BY <1>1 DEF Open
LEMMA UnbornMoves ==
    ASSUME Next
    PROVE  unborn' = unborn \/ \E t \in Requests, d \in Docs : BeginCopy(t, d)
  <1> USE DEF past
  <1>1. CASE \E t \in Requests : Answer(t)
    <2>1. PICK t \in Requests : Answer(t)
      BY <1>1
    <2>2. CASE HardDelete(t)
      BY <2>2 DEF HardDelete, Query, Refuse, SweepDocs, SweepBlobs, DeleteRow
    <2>3. CASE CopyImages(t) \/ CreateRow(t) \/ PutFirst(t) \/ PutNext(t)
      BY <2>3 DEF CopyImages, CreateRow, PutFirst, PutNext
    <2>4. CASE Commit(t) \/ Conflict(t) \/ Trash(t) \/ Restore(t) \/ Upload(t) \/ Forgo(t)
      BY <2>4 DEF Commit, Conflict, Trash, Restore, Upload, Forgo
    <2>5. QED
      BY <2>1, <2>2, <2>3, <2>4 DEF Answer
  <1>2. CASE Retain \/ Snapshotting \/ Reconcile
    BY <1>2 DEF Retain, Snapshotting, Reconcile, HardDelete, List, Take, PutNext, Point,
       Prune, Collect, Condemn, Query, Refuse, SweepDocs, SweepBlobs, DeleteRow
  <1>3. CASE \/ \E t \in Requests, d \in Docs : Begins(t, d)
             \/ \E d \in Docs : Open(d) \/ Compact(d)
             \/ \E d \in Docs, u \in Updates : Append(d, u)
             \/ \E a \in Actors : Drop(a)
    BY <1>3 DEF Begins, Open, Compact, Append, Drop
  <1>4. QED
    BY <1>1, <1>2, <1>3 DEF Next

LEMMA TodoMoves ==
    ASSUME ActorStep, NEW d \in todo', d \notin todo
    PROVE  indexed[d] /\ Settled(d) /\ d \in Docs /\ row[d] = "full"
  BY DEF ActorStep, local, List, Listed

\* An actor takes up a document that is there, was listed, was opened, or has
\* lost its row.
LEMMA TakenUp ==
    ASSUME Types, ActorStep, NEW a \in Actors, NEW d \in Docs, doc'[a] = d, doc[a] # d
    PROVE  \/ row[d] = "full" \/ d \in todo \/ d \in open
           \/ BeginCopy(a, d) /\ a \in Requests
           \/ a = Reconciler /\ row[d] = "none" /\ objects[d] # {} /\ Settled(d)
  <1>1. CASE local' = local
    BY <1>1 DEF local
  <1>2. CASE doc' = doc
    BY <1>2
  <1>3. CASE \E b \in Actors : Freed(b)
    BY <1>3, StoreAssumption DEF Freed, Alone
  <1>4. CASE \E b \in Actors : \E here, there : Moved(b, here, there)
    BY <1>4 DEF Moved, Alone
  <1>5. CASE \E t \in Requests, e \in Docs : \E s : Begins(t, e) /\ Begun(t, s, e)
    BY <1>5 DEF Begins, Begun, Alone
  <1>6. CASE \E t \in Requests, e \in Docs : \E s : BeginCopy(t, e) /\ Begun(t, s, e)
    BY <1>6 DEF Begun, Alone
  <1>7. CASE \E e \in Docs : \/ Begun(Sweeper, "query", e) /\ e \in todo
                             \/ Compact(e) /\ Begun(Compactor, "put", e)
    BY <1>7 DEF Begun, Alone, Compact
  <1>8. CASE \E e \in Docs, root \in Roots : Condemn(e, root) /\ Begun(Reconciler, root, e)
    BY <1>8 DEF Begun, Alone, Condemn, Orphaned
  <1>9. QED
    <2>1. CASE \E t \in Requests :
                \/ CopyImages(t) /\ Moved(t, "images", "create") /\ todo' = todo
                \/ CreateRow(t) /\ Moved(t, "create", "first") /\ todo' = todo
      BY <1>4, <2>1, Cast
    <2>2. CASE \E b \in Requests \union {Compactor} : PutNext(b) /\ Moved(b, "put", "point")
      BY <1>4, <2>2, Cast
    <2>3. CASE Moved(Compactor, "point", "prune")
      BY <1>4, <2>3, Cast
    <2>4. CASE \E b \in Requests \union {Sweeper} :
                \/ Moved(b, "query", "rows") \/ Moved(b, "rows", "blobs")
                \/ Moved(b, "rows", "rows")
      BY <1>4, <2>4, Cast
    <2>5. QED
      BY <1>1, <1>2, <1>3, <1>5, <1>6, <1>7, <1>8, <2>1, <2>2, <2>3, <2>4 DEF ActorStep
\* A copy begins with its id, and keeps it.
LEMMA CopiersKeep ==
    ASSUME Types, ActorStep, NEW t \in Requests, Copying(t)'
    PROVE  \/ Copying(t) /\ doc'[t] = doc[t]
           \/ \E d \in Docs : BeginCopy(t, d) /\ doc'[t] = d
  <1> USE DEF Copying
  <1>0. t \in Actors
    BY Cast
  <1>1. CASE local' = local
    BY <1>1 DEF local
  <1>2. CASE \E b \in Actors : Freed(b)
    BY <1>0, <1>2 DEF Freed, Alone
  <1>3. CASE \E b \in Actors : \E here : \E there \in {"first", "point", "prune", "rows", "blobs"} :
                Moved(b, here, there)
    BY <1>0, <1>3 DEF Moved, Alone
  <1>4. CASE \E b \in Actors : Moved(b, "images", "create")
    BY <1>0, <1>4 DEF Moved, Alone
  <1>5. CASE \E b \in Actors, e \in Docs :
                \E step \in {"trash", "upload", "put", "restore", "query", "docs", "blobs"} :
                    Begun(b, step, e)
    BY <1>0, <1>5 DEF Begun, Alone
  <1>6. CASE \E s \in Requests, e \in Docs : BeginCopy(s, e) /\ Begun(s, "images", e)
    BY <1>0, <1>6 DEF Begun, Alone
  <1>7. CASE pc'[Sweeper] = "next" /\ Alone(Sweeper) /\ doc' = doc
    BY <1>0, <1>7, Cast DEF Alone
  <1>8. QED
    BY <1>1, <1>2, <1>3, <1>4, <1>5, <1>6, <1>7, Cast DEF ActorStep, Roots

LEMMA InitBirth == Init => BirthInv
  BY Cast, StoreAssumption
  DEF Init, BirthInv, UnbornInv, CopyInv, Unheard, Settled, Copying

LEMMA StillUnborn ==
    ASSUME Types, BirthInv, Next
    PROVE  UnbornInv'
  <1>1. MetaStep /\ ActorStep
    BY MetaMoves, ActorMoves
  <1> SUFFICES ASSUME NEW d \in unborn'
               PROVE  (Unheard(d) /\ objects[d] = {} /\ d \notin pictured /\ Settled(d))'
    BY DEF UnbornInv
  <1>2. d \in unborn /\ d \in Docs
    BY UnbornMoves DEF BeginCopy, Types, PastType
  <1>3. Unheard(d) /\ objects[d] = {} /\ d \notin pictured /\ Settled(d)
    BY <1>2 DEF BirthInv, UnbornInv
  <1>4. row'[d] = row[d]
    BY <1>2, <1>3, RowUntouched DEF Settled
  <1>5. objects'[d] = objects[d] /\ d \notin pictured'
    BY <1>2, <1>3, ObjectsUntouched
  <1>6. d \notin open'
    BY <1>3, OpenMoves DEF Unheard
  <1>7. d \notin todo'
    BY <1>1, <1>3, TodoMoves DEF Unheard
  <1>8. Settled(d)'
    <2> SUFFICES ASSUME NEW a \in Actors, doc'[a] = d PROVE FALSE
      BY DEF Settled
    <2>1. doc[a] # d
      BY <1>3 DEF Settled
    <2>2. BeginCopy(a, d)
      BY <1>1, <1>2, <1>3, <2>1, TakenUp DEF Unheard
    <2>3. QED
      BY <2>2 DEF BeginCopy
  <1>9. QED
    BY <1>3, <1>4, <1>5, <1>6, <1>7, <1>8 DEF Unheard

LEMMA StillCopying ==
    ASSUME Types, BirthInv, Next
    PROVE  CopyInv'
  <1>1. MetaStep /\ ActorStep /\ ObjectStep
    BY MetaMoves, ActorMoves, ObjectMoves
  <1> SUFFICES ASSUME NEW t \in Requests, Copying(t)'
               PROVE  (/\ Unheard(doc[t]) /\ doc[t] \notin unborn
                       /\ doc[t] \in pictured => Image \in objects[doc[t]]
                       /\ \A a \in Actors : a # t => doc[a] # doc[t])'
    BY DEF CopyInv
  <1>2. CASE \E d \in Docs : BeginCopy(t, d) /\ doc'[t] = d
    <2>1. PICK d \in Docs : BeginCopy(t, d) /\ doc'[t] = d
      BY <1>2
    <2>2. d \in unborn /\ unborn' = unborn \ {d} /\ row' = row /\ todo' = todo /\ open' = open
          /\ pictured' = pictured /\ doc' = [doc EXCEPT ![t] = d]
      BY <2>1 DEF BeginCopy, Begin, store, meta
    <2>3. Unheard(d) /\ d \notin pictured /\ Settled(d)
      BY <2>2 DEF BirthInv, UnbornInv
    <2>4. \A a \in Actors : a # t => doc'[a] # d
      BY <2>2, <2>3 DEF Types, ActorType, Settled
    <2>5. QED
      BY <2>1, <2>2, <2>3, <2>4 DEF Unheard
  <1>3. CASE Copying(t) /\ doc'[t] = doc[t]
    <2> DEFINE d == doc[t]
    <2>1. d \in Docs /\ t \in Actors
      BY <1>3, Placed, Cast DEF Copying
    <2>2. /\ Unheard(d) /\ d \notin unborn
          /\ d \in pictured => Image \in objects[d]
          /\ \A a \in Actors : a # t => doc[a] # d
      BY <1>3 DEF BirthInv, CopyInv
    <2> HIDE DEF d
    <2>3. \A a \in Actors : a # t => doc'[a] # d
      <3> SUFFICES ASSUME NEW a \in Actors, a # t, doc'[a] = d PROVE FALSE
        OBVIOUS
      <3>1. BeginCopy(a, d) \/ Settled(d)
        BY <1>1, <2>1, <2>2, TakenUp DEF Unheard
      <3>2. d \in unborn
        BY <2>1, <3>1 DEF BeginCopy, Settled, d
      <3>3. QED
        BY <2>2, <3>2
    <2>4. ~CreateRow(t)
      <3>1. Copying(t)' => pc'[t] \in {"images", "create"}
        BY DEF Copying
      <3>2. CreateRow(t) => pc'[t] = "first"
        BY <2>1 DEF CreateRow, Go, Types, ActorType
      <3>3. QED
        BY <3>1, <3>2
    <2>5. row'[d] = row[d]
      <3>1. Unheard(d) /\ \A a \in Actors : a # t => doc[a] # d
        BY <2>2
      <3>2. ~Commit(t) /\ ~Trash(t) /\ ~Restore(t) /\ ~DeleteRow(t, Metadata)
        BY <1>3 DEF Copying, Commit, Trash, Restore, DeleteRow, At
      <3>3. QED
        BY <1>1, <2>1, <2>4, <3>1, <3>2, Cast DEF MetaStep, Becomes, meta
    <2>6. d \in pictured' => Image \in objects'[d]
      <3>1. ~PutNext(t) /\ ~Upload(t) /\ ~PutFirst(t)
            /\ ~(pc[t] = "rows") /\ ~(pc[t] = "blobs")
        BY <1>3 DEF Copying, PutNext, Upload, PutFirst, At
      <3>2. QED
        BY <1>1, <2>1, <2>2, <3>1, Cast DEF ObjectStep, Grows, Shrinks
    <2>7. d \notin todo' /\ d \notin open'
      <3>1. ~Settled(d)
        BY <2>1 DEF Settled, d
      <3>2. QED
        BY <1>1, <2>2, <3>1, TodoMoves, OpenMoves DEF Unheard
    <2>8. d \notin unborn'
      BY <2>2, UnbornMoves DEF BeginCopy
    <2>9. QED
      BY <1>3, <2>2, <2>3, <2>5, <2>6, <2>7, <2>8 DEF Unheard, d
  <1>4. QED
    BY <1>1, <1>2, <1>3, CopiersKeep
LEMMA StillBirth ==
    ASSUME Types, BirthInv, [Next]_vars
    PROVE  BirthInv'
  <1>1. CASE Next
    BY <1>1, StillUnborn, StillCopying DEF BirthInv
  <1>2. CASE vars' = vars
    BY <1>2
    DEF vars, store, meta, local, past, BirthInv, UnbornInv, CopyInv, Unheard, Settled, Copying
  <1>3. QED
    BY <1>1, <1>2

-----------------------------------------------------------------------------
(* A document whose objects are being deleted is gone for good.            *)
Emptied(a) == pc[a] = "blobs" \/ (pc[a] = "rows" /\ Metadata \notin found[a])

GoneInv ==
    /\ \A a \in Requests \union {Sweeper} : Emptied(a) => row[doc[a]] # "full"
    /\ pc[Reconciler] \in Roots => row[doc[Reconciler]] # "full"

LEMMA NotReborn ==
    ASSUME Types, BirthInv, Next, NEW a \in Actors, pc[a] \notin {"images", "create"},
           doc[a] \in Docs, row[doc[a]] # "full"
    PROVE  row'[doc[a]] # "full"
  <1> SUFFICES ASSUME row'[doc[a]] = "full" PROVE FALSE
    OBVIOUS
  <1>1. PICK t \in Requests : CreateRow(t) /\ doc[t] = doc[a]
    BY MetaMoves, BornOnce
  <1>2. Copying(t)
    BY <1>1 DEF CreateRow, At, Copying
  <1>3. a # t
    BY <1>2 DEF Copying
  <1>4. QED
    BY <1>1, <1>2, <1>3 DEF BirthInv, CopyInv

\* How a purge comes to its rows and to its prefixes.
LEMMA HuntersKeep ==
    ASSUME Types, ActorStep, NEW a \in Requests \union {Sweeper}, pc'[a] \in {"rows", "blobs"}
    PROVE  /\ doc'[a] = doc[a] /\ doc[a] \in Docs /\ a \in Actors
           /\ \/ pc'[a] = pc[a] /\ found'[a] = found[a] /\ botched'[a] = botched[a]
              \/ Query(a) /\ pc'[a] = "rows" /\ found'[a] = Stored(doc[a])
              \/ SweepDocs(a) /\ pc[a] = "rows" /\ found[a] = {} /\ pc'[a] = "blobs"
              \/ \E item \in Rows \union {Metadata} :
                    /\ DeleteRow(a, item) /\ pc[a] = "rows" /\ pc'[a] = "rows"
                    /\ found'[a] = found[a] \ {item}
  <1>0. a \in Actors
    BY Cast
  <1> DEFINE Same == pc'[a] = pc[a] /\ doc'[a] = doc[a] /\ found'[a] = found[a]
                     /\ botched'[a] = botched[a]
  <1>a. CASE Same
    BY <1>0, <1>a, Placed
  <1>1. CASE local' = local
    BY <1>a, <1>1 DEF local
  <1>2. CASE \E b \in Actors : Freed(b)
    BY <1>0, <1>a, <1>2 DEF Freed, Alone
  <1>3. CASE \E b \in Actors : \E here : \E there \in {"create", "first", "point", "prune"} :
                Moved(b, here, there)
    BY <1>0, <1>a, <1>3 DEF Moved, Alone
  <1>4. CASE \E b \in Actors, e \in Docs :
                \E step \in {"images", "trash", "upload", "put", "restore", "query"} :
                    Begun(b, step, e)
    BY <1>0, <1>a, <1>4 DEF Begun, Alone
  <1>5. CASE \E root \in Roots, e \in Docs : Begun(Reconciler, root, e)
    BY <1>0, <1>a, <1>5, Cast DEF Begun, Alone
  <1>6. CASE pc'[Sweeper] = "next" /\ Alone(Sweeper) /\ doc' = doc
    BY <1>0, <1>a, <1>6, Cast DEF Alone
  <1>7. CASE \E b \in Requests \union {Sweeper} :
                \/ /\ Query(b) /\ Moved(b, "query", "rows")
                   /\ found'[b] = Stored(doc[b])
                \/ SweepDocs(b) /\ Moved(b, "rows", "blobs") /\ found[b] = {}
                \/ \E item \in Rows \union {Metadata} :
                    /\ DeleteRow(b, item) /\ Moved(b, "rows", "rows")
                    /\ found'[b] = found[b] \ {item}
    <2>1. PICK b \in Requests \union {Sweeper} :
                \/ /\ Query(b) /\ Moved(b, "query", "rows")
                   /\ found'[b] = Stored(doc[b])
                \/ SweepDocs(b) /\ Moved(b, "rows", "blobs") /\ found[b] = {}
                \/ \E item \in Rows \union {Metadata} :
                    /\ DeleteRow(b, item) /\ Moved(b, "rows", "rows")
                    /\ found'[b] = found[b] \ {item}
      BY <1>7
    <2>2. CASE b # a
      BY <1>0, <1>a, <2>1, <2>2 DEF Moved, Alone
    <2>3. CASE b = a
      BY <1>0, <2>1, <2>3 DEF Moved
    <2>4. QED
      BY <2>2, <2>3
  <1> HIDE DEF Same
  <1>8. QED
    BY <1>1, <1>2, <1>3, <1>4, <1>5, <1>6, <1>7, Cast DEF ActorStep

LEMMA StillGone ==
    ASSUME Types, BirthInv, GoneInv, Next
    PROVE  GoneInv'
  <1>1. MetaStep /\ ActorStep
    BY MetaMoves, ActorMoves
  <1>2. ASSUME NEW a \in Requests \union {Sweeper}, Emptied(a)'
        PROVE  row'[doc'[a]] # "full"
    <2>1. pc'[a] \in {"rows", "blobs"}
      BY <1>2 DEF Emptied
    <2>2. doc'[a] = doc[a] /\ doc[a] \in Docs /\ a \in Actors
      BY <1>1, <2>1, HuntersKeep
    <2>3. CASE Emptied(a)
      <3>1. row[doc[a]] # "full" /\ pc[a] \notin {"images", "create"}
        BY <2>3 DEF GoneInv, Emptied
      <3>2. QED
        BY <2>2, <3>1, NotReborn
    <2>4. CASE Query(a) /\ found'[a] = Stored(doc[a]) /\ pc'[a] = "rows"
      <3>1. Metadata \notin Stored(doc[a])
        BY <1>2, <2>4 DEF Emptied
      <3>2. row[doc[a]] = "none" /\ row' = row
        BY <2>4, <3>1 DEF Stored, Query, store, meta
      <3>3. QED
        BY <2>2, <3>2
    <2>5. CASE \E item \in Rows \union {Metadata} :
                    DeleteRow(a, item) /\ pc[a] = "rows" /\ pc'[a] = "rows"
                    /\ found'[a] = found[a] \ {item}
      <3>1. PICK item \in Rows \union {Metadata} :
                    DeleteRow(a, item) /\ pc[a] = "rows" /\ pc'[a] = "rows"
                    /\ found'[a] = found[a] \ {item}
        BY <2>5
      <3>2. CASE item = Metadata
        <4>1. row' = [row EXCEPT ![doc[a]] = "none"]
          BY <3>1, <3>2 DEF DeleteRow
        <4>2. QED
          BY <2>2, <4>1 DEF Types, MetaType
      <3>3. CASE item # Metadata
        <4>1. Metadata \notin found'[a]
          BY <1>2, <3>1 DEF Emptied
        <4>2. Emptied(a)
          BY <3>1, <3>3, <4>1 DEF Emptied
        <4>3. QED
          BY <2>3, <4>2
      <3>4. QED
        BY <3>2, <3>3
    <2>6. CASE pc'[a] = pc[a] /\ found'[a] = found[a]
      BY <1>2, <2>3, <2>6 DEF Emptied
    <2>7. CASE pc[a] = "rows" /\ found[a] = {}
      BY <2>3, <2>7 DEF Emptied
    <2>8. QED
      BY <1>1, <2>1, <2>4, <2>5, <2>6, <2>7, HuntersKeep
  <1>3. ASSUME pc'[Reconciler] \in Roots
        PROVE  row'[doc'[Reconciler]] # "full"
    <2> DEFINE r == Reconciler
    <2>1. r \in Actors
      BY Cast
    <2>2. \/ pc'[r] = pc[r] /\ doc'[r] = doc[r]
          \/ \E d \in Docs, root \in Roots : Condemn(d, root) /\ doc'[r] = d
      <3> HIDE DEF r
      <3>a. \A a \in Actors : Alone(a) /\ a # r => pc'[r] = pc[r] /\ doc'[r] = doc[r]
        BY <2>1 DEF Alone
      <3>1. CASE \E a \in Actors : Freed(a)
        BY <1>3, <3>a, <3>1 DEF Freed, Roots, r
      <3>2. CASE \E a \in Actors : \E here, there : a # r /\ Moved(a, here, there)
        BY <3>a, <3>2 DEF Moved
      <3>3. CASE \E a \in Actors : \E step, e : a # r /\ Begun(a, step, e)
        BY <3>a, <3>3 DEF Begun
      <3>4. CASE \E e \in Docs, root \in Roots : Condemn(e, root) /\ Begun(r, root, e)
        BY <3>4 DEF Begun
      <3>5. CASE local' = local \/ Alone(Sweeper)
        BY <3>a, <3>5, Cast DEF local, r
      <3>6. QED
        BY <1>1, <3>1, <3>2, <3>3, <3>4, <3>5, Cast DEF ActorStep, r
    <2>3. CASE \E d \in Docs, root \in Roots : Condemn(d, root) /\ doc'[r] = d
      BY <2>3 DEF Condemn, Orphaned, store, meta
    <2>4. CASE pc'[r] = pc[r] /\ doc'[r] = doc[r]
      <3>1. doc[r] \in Docs /\ row[doc[r]] # "full" /\ pc[r] \notin {"images", "create"}
        BY <1>3, <2>1, <2>4, Placed DEF GoneInv, Roots
      <3>2. QED
        BY <2>1, <2>4, <3>1, NotReborn
    <2>5. QED
      BY <2>2, <2>3, <2>4
  <1>4. QED
    BY <1>2, <1>3 DEF GoneInv
-----------------------------------------------------------------------------
(* What a document that is there can count on.                             *)
PointInv ==
    \A a \in Requests \union {Compactor} :
        pc[a] = "point" /\ row[doc[a]] = "full" => Object(base[a] + 1) \in objects[doc[a]]

LEMMA ObjectsKept ==
    ASSUME Types, GoneInv, ObjectStep, NEW d \in Docs, row[d] = "full"
    PROVE  objects[d] \subseteq objects'[d]
  <1>1. \A a \in Requests \union {Sweeper} :
            (pc[a] = "rows" /\ found[a] = {}) \/ pc[a] = "blobs" => doc[a] # d
    BY DEF GoneInv, Emptied
  <1>2. pc[Reconciler] \in Roots => doc[Reconciler] # d
    BY DEF GoneInv
  <1>3. QED
    BY <1>1, <1>2 DEF ObjectStep, Grows, Shrinks

\* The object of a version is there before the version is pointed to.
LEMMA StillPoints ==
    ASSUME Types, BirthInv, GoneInv, PointInv, Next
    PROVE  PointInv'
  <1>1. ActorStep /\ ObjectStep
    BY ActorMoves, ObjectMoves
  <1> SUFFICES ASSUME NEW a \in Requests \union {Compactor}, pc'[a] = "point",
                      row'[doc'[a]] = "full"
               PROVE  Object(base'[a] + 1) \in objects'[doc'[a]]
    BY DEF PointInv
  <1>2. a \in Actors
    BY Cast
  <1>3. \/ pc'[a] = pc[a] /\ doc'[a] = doc[a] /\ base'[a] = base[a]
        \/ PutNext(a) /\ Moved(a, "put", "point")
    <2>a. \A b \in Actors : Alone(b) /\ a # b =>
                pc'[a] = pc[a] /\ doc'[a] = doc[a] /\ base'[a] = base[a]
      BY <1>2 DEF Alone
    <2>1. CASE \E b \in Actors : Freed(b)
      BY <2>a, <2>1 DEF Freed
    <2>2. CASE \E b \in Actors : \E here :
                \E there \in {"create", "first", "prune", "rows", "blobs"} :
                    Moved(b, here, there)
      BY <2>a, <2>2 DEF Moved
    <2>3. CASE \E b \in Requests \union {Compactor} : PutNext(b) /\ Moved(b, "put", "point")
      BY <2>a, <2>3, Cast DEF Moved
    <2>4. CASE \E b \in Actors : \E e : \E step \in {"images", "trash", "upload", "put", "restore",
                                               "query", "docs", "blobs"} : Begun(b, step, e)
      BY <2>a, <2>4 DEF Begun
    <2>5. CASE local' = local \/ Alone(Sweeper)
      BY <2>a, <2>5, Cast DEF local
    <2>6. QED
      BY <1>1, <2>1, <2>2, <2>3, <2>4, <2>5, Cast DEF ActorStep, Roots
  <1>4. CASE pc'[a] = pc[a] /\ doc'[a] = doc[a] /\ base'[a] = base[a]
    <2>1. doc[a] \in Docs
      BY <1>2, <1>4, Placed
    <2>2. row[doc[a]] = "full"
      BY <1>2, <1>4, <2>1, NotReborn
    <2>3. Object(base[a] + 1) \in objects[doc[a]]
      BY <1>4, <2>2 DEF PointInv
    <2>4. QED
      BY <1>1, <1>4, <2>1, <2>2, <2>3, ObjectsKept
  <1>5. CASE PutNext(a) /\ Moved(a, "put", "point")
    <2>1. objects' = [objects EXCEPT ![doc[a]] = @ \union {Object(base[a] + 1)}]
          /\ doc'[a] = doc[a] /\ base'[a] = base[a] /\ doc[a] \in Docs
      BY <1>5 DEF PutNext, PutObject, Moved
    <2>2. QED
      BY <2>1 DEF Types, ItemType
  <1>6. QED
    BY <1>3, <1>4, <1>5

LEMMA StillIntact ==
    ASSUME Types, BirthInv, GoneInv, PointInv, Intact, Next
    PROVE  Intact'
  <1>1. MetaStep /\ ObjectStep
    BY MetaMoves, ObjectMoves
  <1> SUFFICES ASSUME NEW d \in Docs, row'[d] = "full"
               PROVE  /\ \/ Object(version'[d]) \in objects'[d]
                         \/ d \in hollow' /\ version'[d] = 1
                      /\ d \in pictured' => Image \in objects'[d]
    BY DEF Intact
  <1>2. CASE row[d] = "full"
    <2>1. objects[d] \subseteq objects'[d]
      BY <1>1, <1>2, ObjectsKept
    <2>2. /\ Object(version[d]) \in objects[d] \/ (d \in hollow /\ version[d] = 1)
          /\ d \in pictured => Image \in objects[d]
      BY <1>2 DEF Intact
    <2>3. d \in pictured' => Image \in objects'[d]
      BY <1>1, <2>1, <2>2 DEF ObjectStep, Grows
    <2>4. d \in hollow => d \in hollow' \/ Object(1) \in objects'[d]
      BY <1>1, <2>1 DEF ObjectStep, Grows
    <2>5. version'[d] = version[d] \/ Object(version'[d]) \in objects[d]
      <3>1. \A t \in Requests : CreateRow(t) => doc[t] # d
        BY <1>2 DEF CreateRow
      <3>2. \A t \in Requests : Commit(t) /\ doc[t] = d => Object(base[t] + 1) \in objects[d]
        BY <1>2 DEF Commit, At, PointInv
      <3>3. Point /\ doc[Compactor] = d => Object(base[Compactor] + 1) \in objects[d]
        BY <1>2 DEF Point, At, PointInv
      <3>4. QED
        BY <1>1, <3>1, <3>2, <3>3 DEF MetaStep, Becomes, meta
    <2>6. QED
      BY <2>1, <2>2, <2>3, <2>4, <2>5
  <1>3. CASE row[d] # "full"
    <2>1. PICK t \in Requests : CreateRow(t) /\ doc[t] = d
      BY <1>1, <1>3, BornOnce
    <2>2. /\ version' = [version EXCEPT ![d] = 1] /\ hollow' = hollow \union {d}
          /\ objects' = objects /\ pictured' = pictured /\ Copying(t)
      BY <2>1 DEF CreateRow, At, Copying
    <2>3. d \in pictured => Image \in objects[d]
      BY <2>1, <2>2 DEF BirthInv, CopyInv
    <2>4. QED
      BY <2>2, <2>3 DEF Types, MetaType
  <1>4. QED
    BY <1>2, <1>3
-----------------------------------------------------------------------------
(* Where a document goes from.                                             *)
PurgeInv == \A d \in Docs : Hunted(d) /\ row[d] = "full" => trashed[d] \/ d \in escaped

LEMMA EscapedMoves ==
    ASSUME Next
    PROVE  escaped' = escaped \/ \E t \in Requests : Restore(t)
  <1> USE DEF past
  <1>1. CASE \E t \in Requests : Answer(t)
    <2>1. PICK t \in Requests : Answer(t)
      BY <1>1
    <2>2. CASE HardDelete(t)
      BY <2>2 DEF HardDelete, Query, Refuse, SweepDocs, SweepBlobs, DeleteRow
    <2>3. CASE CopyImages(t) \/ CreateRow(t) \/ PutFirst(t) \/ PutNext(t)
      BY <2>3 DEF CopyImages, CreateRow, PutFirst, PutNext
    <2>4. CASE Commit(t) \/ Conflict(t) \/ Trash(t) \/ Restore(t) \/ Upload(t) \/ Forgo(t)
      BY <2>4 DEF Commit, Conflict, Trash, Upload, Forgo
    <2>5. QED
      BY <2>1, <2>2, <2>3, <2>4 DEF Answer
  <1>2. CASE Retain \/ Snapshotting \/ Reconcile
    BY <1>2 DEF Retain, Snapshotting, Reconcile, HardDelete, List, Take, PutNext, Point,
       Prune, Collect, Condemn, Query, Refuse, SweepDocs, SweepBlobs, DeleteRow
  <1>3. CASE \/ \E t \in Requests, d \in Docs : Begins(t, d) \/ BeginCopy(t, d)
             \/ \E d \in Docs : Open(d) \/ Compact(d)
             \/ \E d \in Docs, u \in Updates : Append(d, u)
             \/ \E a \in Actors : Drop(a)
    BY <1>3 DEF Begins, BeginCopy, Open, Compact, Append, Drop
  <1>4. QED
    BY <1>1, <1>2, <1>3 DEF Next

\* A purge takes in hand what is in the trash, or was listed there.
LEMMA HuntersCome ==
    ASSUME Types, ActorStep, NEW a \in Requests \union {Sweeper}, pc'[a] \in Erasing
    PROVE  \/ pc[a] \in Erasing /\ doc'[a] = doc[a]
           \/ \E d \in Docs : doc'[a] = d /\ (d \in todo \/ (trashed[d] /\ meta' = meta))
  <1>0. a \in Actors
    BY Cast
  <1>a. \A b \in Actors : Alone(b) /\ a # b => pc'[a] = pc[a] /\ doc'[a] = doc[a]
    BY <1>0 DEF Alone
  <1>1. CASE \E b \in Actors : Freed(b)
    BY <1>a, <1>1 DEF Freed, Erasing
  <1>2. CASE \E b \in Actors, here \in {"query", "rows"} :
            \E there \in {"rows", "blobs"} : Moved(b, here, there)
    BY <1>a, <1>2 DEF Moved, Erasing
  <1>3. CASE \E b \in Actors : \E here : \E there \in {"create", "first", "point", "prune"} :
                Moved(b, here, there)
    BY <1>a, <1>3 DEF Moved, Erasing
  <1>4. CASE \E t \in Requests, d \in Docs : Begins(t, d) /\
                \E step \in {"trash", "upload", "put", "restore", "query"} :
                    Begun(t, step, d) /\ (step = "query" => trashed[d])
    BY <1>a, <1>4, Cast DEF Begins, Begun, store, Erasing
  <1>5. CASE \E d \in Docs : Begun(Sweeper, "query", d) /\ d \in todo
    BY <1>a, <1>5, Cast DEF Begun
  <1>6. CASE \E b \in Actors, d \in Docs : \E step \in {"images", "put"} : Begun(b, step, d)
    BY <1>a, <1>6 DEF Begun, Erasing
  <1>7. CASE \E root \in Roots, d \in Docs : Begun(Reconciler, root, d)
    BY <1>a, <1>7, Cast DEF Begun
  <1>8. CASE local' = local \/ (Alone(Sweeper) /\ pc'[Sweeper] = "next")
    BY <1>a, <1>8, Cast DEF local, Erasing
  <1>9. QED
    BY <1>1, <1>2, <1>3, <1>4, <1>5, <1>6, <1>7, <1>8, Cast DEF ActorStep

LEMMA StillPurging ==
    ASSUME Types, BirthInv, PurgeInv, Next
    PROVE  PurgeInv'
  <1>1. MetaStep /\ ActorStep
    BY MetaMoves, ActorMoves
  <1> SUFFICES ASSUME NEW d \in Docs, Hunted(d)', row'[d] = "full"
               PROVE  trashed'[d] \/ d \in escaped'
    BY DEF PurgeInv
  <1>2. row[d] = "full"
    <2> SUFFICES ASSUME row[d] # "full" PROVE FALSE
      OBVIOUS
    <2>1. PICK t \in Requests : CreateRow(t) /\ doc[t] = d
      BY <1>1, BornOnce
    <2>2. Copying(t) /\ doc' = doc /\ todo' = todo /\ pc' = [pc EXCEPT ![t] = "first"]
      BY <2>1 DEF CreateRow, At, Go, Copying
    <2>3. d \notin todo /\ \A a \in Actors : a # t => doc[a] # d
      BY <2>1, <2>2 DEF BirthInv, CopyInv, Unheard
    <2>4. pc'[t] = "first"
      BY <2>2, Cast DEF Types, ActorType
    <2>5. Hunters(d)' = {}
      BY <2>2, <2>3, <2>4, Cast DEF Hunters, Erasing
    <2>6. QED
      BY <2>2, <2>3, <2>5 DEF Hunted
  <1>3. CASE Hunted(d)
    <2>1. trashed[d] \/ d \in escaped
      BY <1>2, <1>3 DEF PurgeInv
    <2>2. CASE \E t \in Requests : Restore(t) /\ doc[t] = d
      <3>1. d \in escaped'
        BY <1>3, <2>2 DEF Restore
      <3>2. QED
        BY <3>1
    <2>3. CASE ~\E t \in Requests : Restore(t) /\ doc[t] = d
      <3>1. trashed'[d] = trashed[d] \/ trashed'[d]
        BY <1>1, <1>2, <2>3 DEF MetaStep, Becomes, meta
      <3>2. d \in escaped => d \in escaped'
        BY <2>3, EscapedMoves DEF Restore
      <3>3. QED
        BY <2>1, <3>1, <3>2
    <2>4. QED
      BY <2>2, <2>3
  <1>4. CASE ~Hunted(d)
    <2>1. CASE d \in todo'
      <3>1. d \notin todo
        BY <1>4 DEF Hunted
      <3>2. trashed[d]
        BY <1>1, <2>1, <3>1, TodoMoves DEF Types, RowInv
      <3>3. meta' = meta
        BY <1>1, <2>1, <3>1 DEF ActorStep, local, List, store
      <3>4. QED
        BY <3>2, <3>3 DEF meta
    <2>2. CASE Hunters(d)' # {}
      <3>1. PICK a \in Requests \union {Sweeper} : pc'[a] \in Erasing /\ doc'[a] = d
        BY <2>2 DEF Hunters
      <3>2. ~(pc[a] \in Erasing /\ doc[a] = d) /\ d \notin todo
        BY <1>4 DEF Hunted, Hunters
      <3>3. trashed[d] /\ meta' = meta
        BY <1>1, <3>1, <3>2, HuntersCome
      <3>4. QED
        BY <3>3 DEF meta
    <2>3. QED
      BY <2>1, <2>2 DEF Hunted
  <1>5. QED
    BY <1>3, <1>4

LEMMA PurgeStep ==
    ASSUME Types, PurgeInv, Next
    PROVE  \A d \in Docs : row[d] = "full" /\ row'[d] = "none" => trashed[d] \/ d \in escaped
  <1>1. MetaStep
    BY MetaMoves
  <1> SUFFICES ASSUME NEW d \in Docs, row[d] = "full", row'[d] = "none"
               PROVE  trashed[d] \/ d \in escaped
    OBVIOUS
  <1>2. PICK a \in Requests \union {Sweeper} : DeleteRow(a, Metadata) /\ doc[a] = d
    BY <1>1 DEF MetaStep, Becomes, meta, Upserted
  <1>3. Hunted(d)
    BY <1>2 DEF DeleteRow, At, Hunted, Hunters, Erasing
  <1>4. QED
    BY <1>3 DEF PurgeInv
-----------------------------------------------------------------------------
(* What a purge that is on record has left.                                *)
AuditInv ==
    \A d \in Docs :
        /\ d \in audited => Remaining(d) \subseteq since[d]
        /\ \A a \in Hunters(d) :
            /\ pc[a] = "rows" => Stored(d) \subseteq since[d] \union found[a]
            /\ pc[a] = "blobs" =>
                /\ Stored(d) \subseteq since[d]
                /\ ~botched[a] => objects[d] \ {Image} \subseteq since[d]

Watched(d) == Hunters(d) # {} \/ d \in audited

LEMMA NotedAdds ==
    ASSUME ItemType, NEW e \in Docs, NEW items, Noted(e, items)
    PROVE  /\ Watched(e) => since'[e] = since[e] \union items
           /\ \A d \in Docs : since[d] \subseteq since'[d]
  BY DEF ItemType, Noted, Watched

\* What is written while a purge is watched is noted.
AllNoted(d) ==
    /\ Stored(d)' \subseteq Stored(d) \union since'[d]
    /\ objects'[d] \subseteq objects[d] \union since'[d]
    /\ since[d] \subseteq since'[d]

LEMMA PutNoted ==
    ASSUME ItemType, NEW e \in Docs, NEW object, PutObject(e, object),
           meta' = meta, rows' = rows, NEW d \in Docs, Watched(d)
    PROVE  AllNoted(d)
  <1>1. (Watched(e) => since'[e] = since[e] \union {object}) /\ since[d] \subseteq since'[d]
    BY NotedAdds DEF PutObject
  <1>2. Stored(d)' = Stored(d)
    BY DEF Stored, meta
  <1>3. objects'[d] \subseteq objects[d] \union since'[d]
    BY <1>1 DEF PutObject, ItemType
  <1>4. QED
    BY <1>1, <1>2, <1>3 DEF AllNoted

LEMMA RowNoted ==
    ASSUME ItemType, NEW e \in Docs, Noted(e, {Metadata}), rows' = rows, objects' = objects,
           NEW d \in Docs, Watched(d), d # e => row'[d] = row[d]
    PROVE  AllNoted(d)
  <1>1. (Watched(e) => since'[e] = since[e] \union {Metadata}) /\ since[d] \subseteq since'[d]
    BY NotedAdds
  <1>2. Stored(d)' \subseteq Stored(d) \union since'[d]
    BY <1>1 DEF Stored
  <1>3. QED
    BY <1>1, <1>2 DEF AllNoted

LEMMA WritesNoted ==
    ASSUME Types, Next, NEW d \in Docs, Watched(d)
    PROVE  \/ AllNoted(d)
           \/ \E a \in Requests \union {Sweeper} :
                Query(a) /\ doc[a] = d /\ Hunters(d) = {a} /\ d \notin audited
  <1> USE DEF store, past
  <1>a. ItemType
    BY DEF Types
  <1>1. CASE \E t \in Requests : CopyImages(t) \/ PutFirst(t) \/ Upload(t)
    <2>1. PICK t \in Requests : CopyImages(t) \/ PutFirst(t) \/ Upload(t)
      BY <1>1
    <2>2. doc[t] \in Docs
      BY <2>1, Placed, Cast DEF CopyImages, PutFirst, Upload, At
    <2>3. meta' = meta /\ rows' = rows
          /\ ((\E o : PutObject(doc[t], o)) \/ (objects' = objects /\ since' = since))
      BY <2>1 DEF CopyImages, PutFirst, Upload
    <2>4. CASE \E o : PutObject(doc[t], o)
      <3>1. PICK o : PutObject(doc[t], o)
        BY <2>4
      <3>2. QED
        BY <1>a, <2>2, <2>3, <3>1, PutNoted
    <2>5. CASE objects' = objects /\ since' = since
      BY <2>3, <2>5 DEF AllNoted, Stored, meta
    <2>6. QED
      BY <2>3, <2>4, <2>5
  <1>2. CASE \E a \in Actors : PutNext(a)
    <2>1. PICK a \in Actors : PutNext(a)
      BY <1>2
    <2>2. doc[a] \in Docs
      BY <2>1, Placed DEF PutNext, At
    <2>3. PutObject(doc[a], Object(base[a] + 1)) /\ meta' = meta /\ rows' = rows
      BY <2>1 DEF PutNext
    <2>4. QED
      BY <1>a, <2>2, <2>3, PutNoted
  <1>3. CASE Point \/ \E t \in Requests : CreateRow(t) \/ Commit(t) \/ Trash(t) \/ Restore(t)
    <2>1. PICK a \in Actors : \/ a = Compactor /\ Point
                              \/ CreateRow(a) \/ Commit(a) \/ Trash(a) \/ Restore(a)
      BY <1>3, Cast
    <2>2. doc[a] \in Docs
      BY <2>1, Placed DEF CreateRow, Commit, Trash, Restore, Point, At
    <2>3. Noted(doc[a], {Metadata}) /\ rows' = rows /\ objects' = objects
      BY <2>1 DEF CreateRow, Commit, Trash, Restore, Point
    <2>4. d # doc[a] => row'[d] = row[d]
      BY <2>1, <2>2 DEF CreateRow, Commit, Trash, Restore, Point, Types, MetaType
    <2>5. QED
      BY <1>a, <2>2, <2>3, <2>4, RowNoted
  <1>4. CASE \E e \in Docs, u \in Updates : Append(e, u)
    <2>1. PICK e \in Docs, u \in Updates : Append(e, u)
      BY <1>4
    <2>2. Noted(e, {Update(u)}) /\ rows' = [rows EXCEPT ![e] = @ \union {Update(u)}]
          /\ meta' = meta /\ objects' = objects
      BY <2>1 DEF Append
    <2>3. (Watched(e) => since'[e] = since[e] \union {Update(u)}) /\ since[d] \subseteq since'[d]
      BY <1>a, <2>2, NotedAdds
    <2>4. rows'[d] \subseteq rows[d] \union since'[d]
      BY <1>a, <2>2, <2>3 DEF ItemType
    <2>5. QED
      BY <2>2, <2>3, <2>4 DEF AllNoted, Stored, meta
  <1>5. CASE \E a \in Requests \union {Sweeper} : Query(a)
    <2>1. PICK a \in Requests \union {Sweeper} : Query(a)
      BY <1>5
    <2>2. doc[a] \in Docs /\ meta' = meta /\ rows' = rows /\ objects' = objects
      BY <2>1, Placed, Cast DEF Query, At
    <2>3. CASE Hunters(doc[a]) = {a} /\ doc[a] \notin audited /\ doc[a] = d
      BY <2>1, <2>3
    <2>4. CASE ~(Hunters(doc[a]) = {a} /\ doc[a] \notin audited /\ doc[a] = d)
      <3>1. since'[d] = since[d]
        BY <1>a, <2>1, <2>2, <2>4 DEF Query, ItemType
      <3>2. QED
        BY <2>2, <3>1 DEF AllNoted, Stored, meta
    <2>5. QED
      BY <2>3, <2>4
  <1>6. CASE \E a \in Requests \union {Sweeper}, item \in Rows \union {Metadata} :
                DeleteRow(a, item)
    <2>1. PICK a \in Requests \union {Sweeper}, item \in Rows \union {Metadata} :
                DeleteRow(a, item)
      BY <1>6
    <2>2. objects' = objects /\ since' = since
      BY <2>1 DEF DeleteRow
    <2>3. Stored(d)' \subseteq Stored(d)
      BY <1>a, <2>1 DEF DeleteRow, Stored, Types, MetaType, ItemType, meta
    <2>4. QED
      BY <2>2, <2>3 DEF AllNoted
  <1>7. CASE \/ \E a \in Requests \union {Sweeper} : SweepDocs(a) \/ SweepBlobs(a)
             \/ Prune \/ \E root \in Roots : Collect(root)
    <2>1. meta' = meta /\ since' = since
      BY <1>7 DEF SweepDocs, SweepBlobs, Prune, Collect
    <2>2. rows'[d] \subseteq rows[d]
      BY <1>a, <1>7 DEF SweepDocs, SweepBlobs, Prune, Collect, ItemType
    <2>3. objects'[d] \subseteq objects[d]
      BY <1>a, <1>7 DEF SweepDocs, SweepBlobs, SweepFails, Prune, Collect, ItemType
    <2>4. QED
      BY <2>1, <2>2, <2>3 DEF AllNoted, Stored, meta
  <1>8. CASE store' = store /\ since' = since
    BY <1>8 DEF AllNoted, Stored, meta
  <1>9. CASE \/ \E t \in Requests, e \in Docs : Begins(t, e) \/ BeginCopy(t, e)
             \/ \E t \in Requests : Conflict(t) \/ Forgo(t)
             \/ \E a \in Actors : Drop(a) \/ Refuse(a)
             \/ List \/ \E e \in Docs : Take(e) \/ Open(e) \/ Compact(e)
             \/ \E root \in Roots : \E e \in Docs : Condemn(e, root)
    <2>1. store' = store /\ since' = since
      BY <1>9 DEF Begins, BeginCopy, Conflict, Forgo, Drop, Refuse, List, Take, Open, Compact, Condemn
    <2>2. QED
      BY <1>8, <2>1
  <1>10. QED
    BY <1>1, <1>2, <1>3, <1>4, <1>5, <1>6, <1>7, <1>9, Cast
    DEF Next, Answer, HardDelete, Retain, Snapshotting, Reconcile
LEMMA AuditedMoves ==
    ASSUME Next
    PROVE  audited' = audited \/ \E a \in Requests \union {Sweeper} : SweepBlobs(a)
  <1> USE DEF past
  <1>1. CASE \E t \in Requests : Answer(t)
    <2>1. PICK t \in Requests : Answer(t)
      BY <1>1
    <2>2. CASE HardDelete(t)
      BY <2>2 DEF HardDelete, Query, Refuse, SweepDocs, DeleteRow
    <2>3. CASE CopyImages(t) \/ CreateRow(t) \/ PutFirst(t) \/ PutNext(t)
      BY <2>3 DEF CopyImages, CreateRow, PutFirst, PutNext
    <2>4. CASE Commit(t) \/ Conflict(t) \/ Trash(t) \/ Restore(t) \/ Upload(t) \/ Forgo(t)
      BY <2>4 DEF Commit, Conflict, Trash, Restore, Upload, Forgo
    <2>5. QED
      BY <2>1, <2>2, <2>3, <2>4 DEF Answer
  <1>2. CASE Retain \/ Snapshotting \/ Reconcile
    BY <1>2 DEF Retain, Snapshotting, Reconcile, HardDelete, List, Take, PutNext, Point,
       Prune, Collect, Condemn, Query, Refuse, SweepDocs, DeleteRow
  <1>3. CASE \/ \E t \in Requests, d \in Docs : Begins(t, d) \/ BeginCopy(t, d)
             \/ \E d \in Docs : Open(d) \/ Compact(d)
             \/ \E d \in Docs, u \in Updates : Append(d, u)
             \/ \E a \in Actors : Drop(a)
    BY <1>3 DEF Begins, BeginCopy, Open, Compact, Append, Drop
  <1>4. QED
    BY <1>1, <1>2, <1>3 DEF Next

LEMMA OnRecord ==
    ASSUME Types, AuditInv, Next, NEW d \in Docs, d \in audited'
    PROVE  (Remaining(d) \subseteq since[d])'
  <1>1. CASE d \in audited
    <2>1. AllNoted(d)
      BY <1>1, WritesNoted DEF Watched
    <2>2. Remaining(d) \subseteq since[d]
      BY <1>1 DEF AuditInv
    <2>3. QED
      BY <2>1, <2>2 DEF AllNoted, Remaining
  <1>2. CASE d \notin audited
    <2>1. PICK a \in Requests \union {Sweeper} : SweepBlobs(a)
      BY <1>2, AuditedMoves
    <2>2. /\ pc[a] = "blobs" /\ audited' = Purged(a, botched[a])
          /\ objects' = [objects EXCEPT ![doc[a]] = @ \ {Image}]
          /\ meta' = meta /\ rows' = rows /\ since' = since
      BY <1>2, <2>1 DEF SweepBlobs, At, Under
    <2>3. doc[a] = d /\ ~botched[a]
      BY <1>2, <2>2 DEF Purged
    <2>4. a \in Hunters(d)
      BY <2>2, <2>3 DEF Hunters, Erasing
    <2>5. Stored(d) \subseteq since[d] /\ objects[d] \ {Image} \subseteq since[d]
      BY <2>2, <2>3, <2>4 DEF AuditInv
    <2>6. objects'[d] = objects[d] \ {Image}
      BY <2>2, <2>3 DEF Types, ItemType
    <2>7. QED
      BY <2>2, <2>5, <2>6 DEF Remaining, Stored, meta
  <1>3. QED
    BY <1>1, <1>2

LEMMA InHand ==
    ASSUME Types, AuditInv, Next, NEW d \in Docs, NEW a \in Hunters(d)'
    PROVE  /\ pc'[a] = "rows" => Stored(d)' \subseteq since'[d] \union found'[a]
           /\ pc'[a] = "blobs" =>
                /\ Stored(d)' \subseteq since'[d]
                /\ ~botched'[a] => objects'[d] \ {Image} \subseteq since'[d]
  <1>1. a \in Requests \union {Sweeper} /\ doc'[a] = d
    BY DEF Hunters
  <1> SUFFICES ASSUME pc'[a] \in {"rows", "blobs"}
               PROVE  /\ pc'[a] = "rows" => Stored(d)' \subseteq since'[d] \union found'[a]
                      /\ pc'[a] = "blobs" =>
                            /\ Stored(d)' \subseteq since'[d]
                            /\ ~botched'[a] => objects'[d] \ {Image} \subseteq since'[d]
    OBVIOUS
  <1>2. ActorStep
    BY ActorMoves
  <1>3. doc[a] = d /\ a \in Actors
    BY <1>1, <1>2, HuntersKeep
  <1>4. pc[a] \in Erasing => a \in Hunters(d) /\ Watched(d)
    BY <1>1, <1>3 DEF Hunters, Watched
  <1>5. CASE pc'[a] = pc[a] /\ found'[a] = found[a] /\ botched'[a] = botched[a]
    <2>1. a \in Hunters(d) /\ Watched(d)
      BY <1>4, <1>5 DEF Erasing
    <2>2. AllNoted(d)
      <3>1. \A b \in Requests \union {Sweeper} : Query(b) => pc[b] = "query"
        BY DEF Query, At
      <3>2. QED
        BY <1>5, <2>1, <3>1, WritesNoted
    <2>3. /\ pc[a] = "rows" => Stored(d) \subseteq since[d] \union found[a]
          /\ pc[a] = "blobs" =>
                /\ Stored(d) \subseteq since[d]
                /\ ~botched[a] => objects[d] \ {Image} \subseteq since[d]
      BY <2>1 DEF AuditInv
    <2>4. QED
      BY <1>5, <2>2, <2>3 DEF AllNoted
  <1>6. CASE Query(a) /\ pc'[a] = "rows" /\ found'[a] = Stored(doc[a])
    <2>1. Stored(d)' = Stored(d)
      BY <1>6 DEF Query, store, meta, Stored
    <2>2. QED
      BY <1>3, <1>6, <2>1
  <1>7. CASE SweepDocs(a) /\ pc[a] = "rows" /\ found[a] = {} /\ pc'[a] = "blobs"
    <2>1. Stored(d) \subseteq since[d]
      BY <1>4, <1>7 DEF AuditInv, Erasing
    <2>2. Stored(d)' = Stored(d) /\ since' = since
      BY <1>7 DEF SweepDocs, past, meta, Stored
    <2>3. \/ botched' = [botched EXCEPT ![a] = TRUE]
          \/ objects' = [objects EXCEPT ![doc[a]] = @ \ (Objects \ {Image})]
      BY <1>7 DEF SweepDocs, SweepFails, Under
    <2>4. botched'[a] \/ objects'[d] \subseteq {Image}
      BY <1>3, <2>3 DEF Types, ItemType, ActorType
    <2>5. QED
      BY <1>7, <2>1, <2>2, <2>4
  <1>8. CASE \E item \in Rows \union {Metadata} :
                /\ DeleteRow(a, item) /\ pc[a] = "rows" /\ pc'[a] = "rows"
                /\ found'[a] = found[a] \ {item}
    <2>1. PICK item \in Rows \union {Metadata} :
                /\ DeleteRow(a, item) /\ pc[a] = "rows" /\ pc'[a] = "rows"
                /\ found'[a] = found[a] \ {item}
      BY <1>8
    <2>2. Stored(d) \subseteq since[d] \union found[a]
      BY <1>4, <2>1 DEF AuditInv, Erasing
    <2>3. since' = since
      BY <2>1 DEF DeleteRow, past
    <2>4. Stored(d)' \subseteq Stored(d) \ {item}
      <3>1. CASE item = Metadata
        <4>1. row' = [row EXCEPT ![d] = "none"] /\ rows' = rows
          BY <1>3, <2>1, <3>1 DEF DeleteRow
        <4>2. row'[d] = "none"
          BY <4>1 DEF Types, MetaType
        <4>3. Metadata \notin rows[d]
          BY Kinds DEF Types, ItemType
        <4>4. QED
          BY <3>1, <4>1, <4>2, <4>3 DEF Stored
      <3>2. CASE item # Metadata
        <4>1. rows' = [rows EXCEPT ![d] = @ \ {item}] /\ row' = row
          BY <1>3, <2>1, <3>2 DEF DeleteRow, meta
        <4>2. rows'[d] = rows[d] \ {item}
          BY <4>1 DEF Types, ItemType
        <4>3. QED
          BY <3>2, <4>1, <4>2 DEF Stored
      <3>3. QED
        BY <3>1, <3>2
    <2>5. QED
      BY <2>1, <2>2, <2>3, <2>4
  <1>9. QED
    BY <1>1, <1>2, <1>5, <1>6, <1>7, <1>8, HuntersKeep

-----------------------------------------------------------------------------
(* The invariant of the specification.                                     *)
StoreInv ==
    Types /\ BirthInv /\ GoneInv /\ PointInv /\ Intact /\ PurgeInv /\ AuditInv

LEMMA InitInv == Init => StoreInv
  <1> SUFFICES ASSUME Init PROVE StoreInv
    OBVIOUS
  <1>1. Types /\ BirthInv
    BY InitTypes, InitBirth
  <1>2. \A a \in Actors : pc[a] = "idle"
    BY DEF Init
  <1>3. GoneInv /\ PointInv
    BY <1>2, Cast DEF GoneInv, Emptied, PointInv, Roots
  <1>4. PurgeInv /\ AuditInv
    BY <1>2, Cast DEF Init, PurgeInv, AuditInv, Hunted, Hunters, Erasing
  <1>5. Intact
    BY DEF Init, Intact
  <1>6. QED
    BY <1>1, <1>3, <1>4, <1>5 DEF StoreInv

LEMMA NextInv == StoreInv /\ [Next]_vars => StoreInv'
  <1> SUFFICES ASSUME StoreInv, [Next]_vars PROVE StoreInv'
    OBVIOUS
  <1>1. Types' /\ BirthInv'
    BY NextTypes, StillBirth DEF StoreInv
  <1>2. CASE Next
    <2>1. GoneInv' /\ PointInv' /\ Intact' /\ PurgeInv'
      BY <1>2, StillGone, StillPoints, StillIntact, StillPurging DEF StoreInv
    <2>2. AuditInv'
      BY <1>2, OnRecord, InHand DEF AuditInv, StoreInv
    <2>3. QED
      BY <1>1, <2>1, <2>2 DEF StoreInv
  <1>3. CASE vars' = vars
    <2> USE DEF vars, store, meta, local, past
    <2>1. GoneInv' /\ PointInv'
      BY <1>3 DEF StoreInv, GoneInv, Emptied, PointInv
    <2>2. Intact' /\ PurgeInv'
      BY <1>3 DEF StoreInv, Intact, PurgeInv, Hunted, Hunters
    <2>3. AuditInv'
      BY <1>3 DEF StoreInv, AuditInv, Hunters, Remaining, Stored
    <2>4. QED
      BY <1>1, <2>1, <2>2, <2>3 DEF StoreInv
  <1>4. QED
    BY <1>2, <1>3

\* Every variable has its type, a full row has a version, and a missing one is
\* neither in the trash nor in its index (the writes of doc_repo.rs).
THEOREM TypeCorrect == Spec => []TypeOK
  <1>1. StoreInv => TypeOK
    <2> SUFFICES ASSUME Types PROVE TypeOK
      BY DEF StoreInv
    <2>1. \A d \in Docs : row[d] = "none" => ~indexed[d]
      BY DEF Types, RowInv
    <2>2. QED
      BY <2>1 DEF Types, TypeOK, MetaType, ItemType, ActorType, PastType, RowInv
  <1>2. QED
    BY InitInv, NextInv, <1>1, PTL DEF Spec

\* hard_delete, with its two sweeps (doc_repo.rs:740-840), writes its audit row
\* only when nothing it had seen is left: whatever is stored of a document on
\* record as purged was written while or after the purge looked, by any number
\* of purges, requests, rooms and sweeps at once.
THEOREM PurgesAreComplete == Spec => []ErasedWhenAudited
  <1>1. StoreInv => ErasedWhenAudited
    BY DEF StoreInv, Types, PastType, AuditInv, ErasedWhenAudited
  <1>2. QED
    BY InitInv, NextInv, <1>1, PTL DEF Spec

\* The order object before pointer (doc_repo.rs:800-950), rows before objects
\* in hard_delete, and the reconciler's look at METADATA keep the snapshot and
\* the images of a document that is there.
THEOREM DocumentsStayIntact == Spec => []Intact
  <1>1. StoreInv => Intact
    BY DEF StoreInv
  <1>2. QED
    BY InitInv, NextInv, <1>1, PTL DEF Spec

\* A document leaves the store from the trash, or because it was restored after
\* a purge or the retention sweep had it in hand.
THEOREM OnlyTrashIsPurged == Spec => PurgedFromTrash
  <1>1. StoreInv /\ [Next]_vars =>
        [\A d \in Docs : row[d] = "full" /\ row'[d] = "none"
                        => trashed[d] \/ d \in escaped]_vars
    BY PurgeStep DEF StoreInv
  <1>2. QED
    BY InitInv, NextInv, <1>1, PTL DEF Spec, PurgedFromTrash
=============================================================================
