--------------------------- MODULE ImportFolders ---------------------------
(***************************************************************************)
(* Mirroring the folder tree of a Quip import: runners that may overlap,   *)
(* fail between two writes and start again create one folder per row,      *)
(* parents first, and file the documents; the user may delete an empty     *)
(* folder meanwhile.  From                                                 *)
(*   src/crates/api/src/worker_mode.rs   order_folders_parent_first,       *)
(*       mirror_folder_tree, build_folder_mapping, FolderMapping           *)
(*   src/crates/storage/src/repo/import_repo.rs   the FOLDER# rows         *)
(*   src/crates/storage/src/repo/folder_repo.rs   folders and their edges  *)
(*   src/crates/api/src/routes/folders.rs         delete_folder            *)
(*                                                                         *)
(* A Quip folder is its place in the order of ids.  Each holds one         *)
(* document to file.  A folder that is created gets the next id.           *)
(***************************************************************************)
EXTENDS Naturals, FiniteSets, SequencesExt

CONSTANTS
    F,           \* Quip folders of the manifest
    Runners,     \* runs that may overlap
    MaxIds,      \* bound: folders created
    MaxFaults    \* bound: calls that fail, runners that stop, deletes

Folders == 1..F
NoFolder == F + 1   \* a parent that was not selected, or none
Ids == 1..MaxIds
Destination == MaxIds + 1
NoId == 0
Places == Ids \cup {Destination}

ASSUME FoldersAssumption ==
    /\ F \in Nat /\ MaxIds \in Nat /\ MaxFaults \in Nat

VARIABLES
    parent,    \* parent_quip_id on each FOLDER# row, of any shape
    order,     \* the sequence that order_folders_parent_first makes of them
    hangs,     \* and the Quip folder that each one hangs under
    ogre,      \* ogre_folder_id on each FOLDER# row
    edge,      \* CHILD# rows: <<folder, child folder>>
    exists,    \* METADATA rows of folders
    owned,     \* MEMBER rows of their owner
    filed,     \* the folder each document is filed in
    lastId,    \* ids given out
    runner,    \* each run: its step, the rows it listed, its locals
    deleting,  \* the folder the user's delete found empty
    deleted, faults

-----------------------------------------------------------------------------
(* order_folders_parent_first: the rows are looked at in the order of ids, *)
(* again and again, and a row is placed once its parent is.                *)

Placeable(up, f, placed) == up[f] \in {NoFolder} \cup ToSet(placed)

\* The n-th look.  Every wave but the last places a row, so F waves place
\* what they can; what is left is on a cycle or behind one, and comes last.
LookAt(up, placed, n) ==
    LET f == ((n - 1) % F) + 1
    IN IF f \notin ToSet(placed) /\ (Placeable(up, f, placed) \/ n > F * F)
       THEN Append(placed, f) ELSE placed

Looks(up) ==
    LET look[n \in 0..(F * F + F)] ==
            IF n = 0 THEN <<>> ELSE LookAt(up, look[n - 1], n)
    IN look

Placed(up) == Looks(up)[F * F]
Dropping(up) == Placed(up)
Ordered(up) == Looks(up)[F * F + F]

MirrorParents(up) ==
    LET placed == ToSet(Placed(up))
    IN [f \in Folders |-> IF f \in placed THEN up[f] ELSE NoFolder]

rows == <<parent, order, hangs>>
run == <<lastId, runner>>
tree == <<edge, exists, owned>>
user == <<deleting, deleted>>
vars == <<rows, ogre, tree, filed, run, user, faults>>

NoneYet == [f \in Folders |-> NoId]
RunFrom(step, seen) ==
    [step |-> step, at |-> 1, rows |-> seen, mirrored |-> NoneYet, candidate |-> NoId]
NoRun == RunFrom("idle", NoneYet)

Init ==
    /\ parent \in [Folders -> Folders \cup {NoFolder}]
    /\ order = Ordered(parent) /\ hangs = MirrorParents(parent)
    /\ ogre = NoneYet
    /\ edge = {} /\ exists = {Destination} /\ owned = {Destination}
    /\ filed = NoneYet
    /\ lastId = 0
    /\ runner = [r \in Runners |-> NoRun]
    /\ deleting = NoId /\ deleted = {} /\ faults = 0

-----------------------------------------------------------------------------
(* One run of mirror_folder_tree and of the filing behind it. *)

Set(r, new) == runner' = [runner EXCEPT ![r] = new]
Working(r, f, step) ==
    runner[r].step = step /\ runner[r].at <= Len(order) /\ order[runner[r].at] = f

\* The row's folder is known: on to the next row.
Onward(r, f, d) ==
    [step |-> "walk", at |-> runner[r].at + 1, rows |-> runner[r].rows,
     mirrored |-> [runner[r].mirrored EXCEPT ![f] = d], candidate |-> NoId]

List(r) ==
    /\ runner[r].step = "idle"
    /\ \E f \in Folders : filed[f] = NoId
    /\ Set(r, RunFrom("walk", ogre))
    /\ UNCHANGED <<rows, ogre, tree, filed, lastId, user, faults>>

Adopt(r, f) ==
    /\ Working(r, f, "walk") /\ runner[r].rows[f] # NoId
    /\ Set(r, Onward(r, f, runner[r].rows[f]))
    /\ UNCHANGED <<rows, ogre, tree, filed, lastId, user, faults>>

\* Where a new folder hangs; the destination if its parent was not mirrored.
UnderDestination(r, f) == Destination
Under(r, f) ==
    IF hangs[f] \in Folders /\ runner[r].mirrored[hangs[f]] # NoId
    THEN runner[r].mirrored[hangs[f]] ELSE Destination

LinkThenRecord(r, f) ==
    /\ Working(r, f, "walk") /\ runner[r].rows[f] = NoId
    /\ lastId < MaxIds
    /\ lastId' = lastId + 1
    /\ edge' = edge \cup {<<Under(r, f), lastId'>>}
    /\ Set(r, [runner[r] EXCEPT !.step = "record", !.candidate = lastId'])
    /\ UNCHANGED <<rows, ogre, exists, owned, filed, user, faults>>

\* The edge first, so that the folder is never an orphan.
Link(r, f) ==
    /\ Working(r, f, "walk") /\ runner[r].rows[f] = NoId
    /\ lastId < MaxIds
    /\ lastId' = lastId + 1
    /\ edge' = edge \cup {<<Under(r, f), lastId'>>}
    /\ Set(r, [runner[r] EXCEPT !.step = "create", !.candidate = lastId'])
    /\ UNCHANGED <<rows, ogre, exists, owned, filed, user, faults>>

Create(r, f) ==
    /\ Working(r, f, "create")
    /\ exists' = exists \cup {runner[r].candidate}
    /\ Set(r, [runner[r] EXCEPT !.step = "member"])
    /\ UNCHANGED <<rows, ogre, edge, owned, filed, lastId, user, faults>>

AddOwner(r, f) ==
    /\ Working(r, f, "member")
    /\ owned' = owned \cup {runner[r].candidate}
    /\ Set(r, [runner[r] EXCEPT !.step = "record"])
    /\ UNCHANGED <<rows, ogre, edge, exists, filed, lastId, user, faults>>

\* record_ogre_folder: the first to record wins, and the others adopt its id.
FirstWins(r, f) == IF ogre[f] = NoId THEN runner[r].candidate ELSE ogre[f]
OwnId(r, f) == runner[r].candidate
Recorded(r, f) == ogre'[f]

Record(r, f) ==
    /\ Working(r, f, "record")
    /\ ogre' = [ogre EXCEPT ![f] = FirstWins(r, f)]
    /\ Set(r, Onward(r, f, Recorded(r, f)))
    /\ UNCHANGED <<rows, tree, filed, lastId, user, faults>>

\* A call fails, whether or not it took effect (a step of its own), or the
\* process stops: the job fails and the queue runs it again.
Fail(r) ==
    /\ runner[r].step # "idle" /\ faults < MaxFaults
    /\ faults' = faults + 1
    /\ Set(r, NoRun)
    /\ UNCHANGED <<rows, ogre, tree, filed, lastId, user>>

\* The walk is done: the mapping is read and the documents still pending are
\* filed, one after the other.
FilePastEnd(r) == runner[r].step = "walk" /\ runner[r].at > Len(order) + 1
FileFrom(r) == runner[r].step = "walk" /\ runner[r].at > Len(order)

Mapped(f) == IF ogre[f] # NoId THEN ogre[f] ELSE Destination

File(r, f) ==
    /\ FileFrom(r)
    /\ filed[f] = NoId
    /\ filed' = [filed EXCEPT ![f] = Mapped(f)]
    /\ UNCHANGED <<rows, ogre, tree, run, user, faults>>

Finish(r) ==
    /\ FileFrom(r) /\ \A f \in Folders : filed[f] # NoId
    /\ Set(r, NoRun)
    /\ UNCHANGED <<rows, ogre, tree, filed, lastId, user, faults>>

-----------------------------------------------------------------------------
(* The user deletes a folder: the route lists its children, then deletes   *)
(* the METADATA row.  The edge above it may be removed first, or stay.     *)

Empty(d) == (\A e \in edge : e[1] # d) /\ \A f \in Folders : filed[f] # d

FindEmpty(d) ==
    /\ deleting = NoId /\ faults < MaxFaults
    /\ d \in exists /\ Empty(d)
    /\ deleting' = d /\ faults' = faults + 1
    /\ UNCHANGED <<rows, ogre, tree, filed, run, deleted>>

Delete ==
    /\ deleting # NoId
    /\ exists' = exists \ {deleting}
    /\ deleted' = deleted \cup {deleting}
    /\ deleting' = NoId
    /\ UNCHANGED <<rows, ogre, edge, owned, filed, run, faults>>

Walk(r) == \E f \in Folders :
    Adopt(r, f) \/ Link(r, f) \/ Create(r, f) \/ AddOwner(r, f) \/ Record(r, f)

Next ==
    \/ \E r \in Runners : List(r) \/ Walk(r) \/ Fail(r) \/ Finish(r)
    \/ \E r \in Runners, f \in Folders : File(r, f)
    \/ \E d \in Ids : FindEmpty(d)
    \/ Delete

Spec == Init /\ [][Next]_vars

\* The queue runs a failed job again and a run goes on.
Fairness == \A r \in Runners :
    WF_vars(List(r)) /\ WF_vars(Walk(r)) /\ WF_vars(\E f \in Folders : File(r, f))
LiveSpec == Spec /\ Fairness
-----------------------------------------------------------------------------
(* Properties. *)

Step == {"idle", "walk", "create", "member", "record"}

RunnerState ==
    [step : Step, at : Nat, rows : [Folders -> Ids \cup {NoId}],
     mirrored : [Folders -> Ids \cup {NoId}],
     candidate : Ids \cup {NoId}]

TypeOK ==
    /\ parent \in [Folders -> Folders \cup {NoFolder}]
    /\ hangs \in [Folders -> Folders \cup {NoFolder}]
    /\ ogre \in [Folders -> Ids \cup {NoId}]
    /\ edge \subseteq Places \X Ids
    /\ exists \subseteq Places /\ owned \subseteq Places
    /\ filed \in [Folders -> Places \cup {NoId}]
    /\ lastId \in 0..MaxIds
    /\ runner \in [Runners -> RunnerState]
    /\ deleting \in Places \cup {NoId} /\ deleted \subseteq Places
    /\ faults \in 0..MaxFaults

Position(f) == CHOOSE i \in 1..Len(order) : order[i] = f

\* Where the chain of parents leads from f.
Chain(up, f) ==
    LET step[n \in 0..F] ==
            IF n = 0 THEN f
            ELSE IF step[n - 1] = NoFolder THEN NoFolder ELSE up[step[n - 1]]
    IN step

(* order_folders_parent_first against its definition: every row appears    *)
(* exactly once, a row hangs under its Quip parent, which comes earlier,   *)
(* exactly if its chain of parents ends, and under the destination if it   *)
(* has no selected parent, is on a cycle or hangs off one.                 *)
OrderSound ==
    /\ ToSet(order) = Folders /\ Len(order) = F
    /\ \A f \in Folders :
          /\ hangs[f] = IF Chain(parent, f)[F] = NoFolder THEN parent[f] ELSE NoFolder
          /\ hangs[f] \in Folders => Position(hangs[f]) < Position(f)

(* An id on a row names a folder that was made in full before: its edge,   *)
(* its row and its owner, whatever failed in between and whoever raced.    *)
RecordedIsMade ==
    \A f \in Folders : ogre[f] # NoId =>
        /\ ogre[f] \in owned /\ ogre[f] \in exists \cup deleted
        /\ \E e \in edge : e[2] = ogre[f]

(* The recorded folders form the tree of the manifest: each hangs under    *)
(* the recorded folder of its parent and nowhere else, although two runs   *)
(* build it together and each creates folders that lose.                   *)
TreeMirrored ==
    \A f \in Folders : ogre[f] # NoId =>
        {e[1] : e \in {x \in edge : x[2] = ogre[f]}} =
            {IF hangs[f] = NoFolder THEN Destination ELSE ogre[hangs[f]]}

(* A folder that lost the race or was left behind by a failure stays       *)
(* empty: nothing is ever linked or filed under it.                        *)
OrphansEmpty ==
    \A d \in 1..lastId : (\A f \in Folders : ogre[f] # d) => Empty(d)

\* A row's folder is never replaced, so a second run builds no second tree.
RecordedStands ==
    [][\A f \in Folders : ogre[f] # NoId => ogre'[f] = ogre[f]]_vars

\* Every document is filed in the end, however often the runs fail.
AllFiled == <>[](\A f \in Folders : filed[f] # NoId)
=============================================================================
