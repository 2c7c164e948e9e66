----------------------------- MODULE CollabSync -----------------------------
(***************************************************************************)
(* One document edited in browser tabs whose WebSockets end at different   *)
(* instances of the API: the client of frontend/src/collab/ws_client.rs,   *)
(* the frame handlers of routes/ws.rs, the room of crates/collab/room.rs   *)
(* and the Redis fan-out of crates/collab/redis_pubsub.rs.                 *)
(*                                                                         *)
(* An edit is the insertion of a block: the n-th edit of tab t is <<t, n>>. *)
(* A yrs document is the set of edits it has been given; an edit is        *)
(* integrated once the earlier edits of its author are there too.  What    *)
(* RoomPersistence takes apart (the calls of a compaction, of a cold load) *)
(* is one step here: the storage below is what those calls add up to.      *)
(***************************************************************************)
EXTENDS Naturals, Sequences, FiniteSets

CONSTANTS
    Tabs,         \* browser tabs with the document open
    Hosts,        \* instances of the API
    Nowhere,      \* the instance of a connection not yet made
    MaxEdits,     \* edits made in all: a bound
    MaxConns,     \* connections made in all: a bound
    MaxMishaps    \* failed calls, cuts, lags and restarts: a bound

ASSUME SyncAssumption ==
    /\ Nowhere \notin Hosts
    /\ IsFiniteSet(Tabs)
    /\ MaxEdits \in Nat
    /\ MaxConns \in Nat \ {0}
    /\ MaxMishaps \in Nat

Ids == Tabs \X (1..MaxEdits)
Conns == Tabs \X (1..MaxConns)

VARIABLES
    \* the document in a tab (CollabClient and the editor above it)
    typed,    \* edits made so far
    view,     \* the editor's model
    base,     \* last_synced_doc: the model as of the last fold
    ydoc,     \* the tab's yrs document
    \* the rest of a tab
    queue,    \* pending_updates
    state,    \* ConnectionState: off, joining (connecting, connected) or synced
    nth,      \* which of its connections is self.ws
    unsaved,  \* the badge's "Not saved"
    due,      \* the send debounce is running
    show,     \* the receive debounce is running
    \* connections
    link,     \* unused, up or cut
    up, down, \* frames on the wire
    site,     \* the instance that accepted it, until its handler ends
    seat,     \* whether it is in the room's client map
    job,      \* the Update whose handler is running
    failed,   \* had_persist_failure
    \* instances and storage
    alive,    \* instances whose registry holds the document's room
    room,     \* that room's document
    mark,     \* Room.unsaved
    inbox,    \* announcements on their way from Redis
    rows,     \* edits in the update log
    snap,     \* edits in the current snapshot
    mishaps,  \* mishaps so far
    \* history
    erased,   \* edits of peers a fold has deleted
    silent,   \* edits some instance or tab may never be told of
    pruned    \* saved edits a compaction has dropped

doc == <<typed, view, base, ydoc>>
session == <<queue, state, nth, unsaved, due, show>>
wire == <<link, up, down>>
server == <<site, seat, job, failed>>
cluster == <<alive, room, mark, inbox>>
store == <<rows, snap>>
vars == <<typed, view, base, ydoc, queue, state, nth, unsaved, due, show, link, up,
          down, site, seat, job, failed, alive, room, mark, inbox, rows, snap,
          mishaps, erased, silent, pruned>>

-----------------------------------------------------------------------------
(* yrs.                                                                    *)

\* What yrs has integrated: read_doc_from_ydoc and state_vector see no more.
Integrated(S) == {e \in S : \A n \in 1..e[2] : <<e[1], n>> \in S}

\* encode_state_as_update_v1: what the vector lacks, blocks still waiting included.
Diff(S, vector) == S \ vector

Frame(type, ids) == [type |-> type, ids |-> ids]
Idle == [step |-> "none", ids |-> {}]
Stored == snap \cup rows

-----------------------------------------------------------------------------
Init ==
    /\ typed = [t \in Tabs |-> 0]
    /\ view = [t \in Tabs |-> {}]
    /\ base = [t \in Tabs |-> {}]
    /\ ydoc = [t \in Tabs |-> {}]
    /\ queue = [t \in Tabs |-> <<>>]
    /\ state = [t \in Tabs |-> "off"]
    /\ nth = [t \in Tabs |-> 0]
    /\ unsaved = [t \in Tabs |-> FALSE]
    /\ due = [t \in Tabs |-> FALSE]
    /\ show = [t \in Tabs |-> FALSE]
    /\ link = [k \in Conns |-> "unused"]
    /\ up = [k \in Conns |-> <<>>]
    /\ down = [k \in Conns |-> <<>>]
    /\ site = [k \in Conns |-> Nowhere]
    /\ seat = [k \in Conns |-> FALSE]
    /\ job = [k \in Conns |-> Idle]
    /\ failed = [k \in Conns |-> FALSE]
    /\ alive = {}
    /\ room = [h \in Hosts |-> {}]
    /\ mark = [h \in Hosts |-> FALSE]
    /\ inbox = [h \in Hosts |-> <<>>]
    /\ rows = {}
    /\ snap = {}
    /\ mishaps = 0
    /\ erased = {}
    /\ silent = {}
    /\ pruned = {}

Mishap == mishaps < MaxMishaps /\ mishaps' = mishaps + 1

-----------------------------------------------------------------------------
(* The tab.                                                                *)

Current(t) == <<t, nth[t]>>

\* sync_model_to_ydoc_diffed: what the model has beyond the baseline is
\* written, what only the baseline has is deleted.
Fresh(t) == (view[t] \ base[t]) \ ydoc[t]
Gone(t) == base[t] \ view[t]
Folded(t) == (ydoc[t] \ Gone(t)) \cup Fresh(t)

\* The observer queues the bytes of a local change.
Observed(t) == IF Fresh(t) = {} THEN queue[t] ELSE Append(queue[t], Fresh(t))

\* Mutant: the baseline after a fold is what the document holds by then.
RebasedOnDocument(t) == Integrated(ydoc[t])

\* The baseline after a fold: the model that was folded.
Rebased(t) == view[t]

\* flush_pending_updates_to_socket: the queue is drained whether or not the
\* socket still takes the frames.
Updates(q) == [i \in DOMAIN q |-> Frame("update", q[i])]
Sent(k, frames) ==
    IF link[k] = "up" THEN [up EXCEPT ![k] = @ \o frames] ELSE up

\* A fold followed by a flush, which happens only in a synced session.
FoldAndFlush(t, synced) ==
    /\ queue' = [queue EXCEPT ![t] = IF synced THEN <<>> ELSE Observed(t)]
    /\ up' = IF synced THEN Sent(Current(t), Updates(Observed(t))) ELSE up
    /\ erased' = erased \cup Gone(t)

\* A keystroke changes the editor's model and starts the send debounce.
Type(t) ==
    /\ Cardinality({e \in Ids : e[2] <= typed[e[1]]}) < MaxEdits
    /\ typed' = [typed EXCEPT ![t] = @ + 1]
    /\ view' = [view EXCEPT ![t] = @ \cup {<<t, typed[t] + 1>>}]
    /\ due' = [due EXCEPT ![t] = TRUE]
    /\ UNCHANGED <<base, ydoc, queue, state, nth, unsaved, show, wire, server, cluster,
                   store, mishaps, erased, silent, pruned>>

\* The send debounce ends: send_update with the model of the moment.
SendDue(t) ==
    /\ due[t]
    /\ due' = [due EXCEPT ![t] = FALSE]
    /\ ydoc' = [ydoc EXCEPT ![t] = Folded(t)]
    /\ base' = [base EXCEPT ![t] = Rebased(t)]
    /\ FoldAndFlush(t, state[t] = "synced")
    /\ UNCHANGED <<typed, view, state, nth, unsaved, show, link, down, server, cluster,
                   store, mishaps, silent, pruned>>

\* A frame with content: fold, apply, start the receive debounce; SyncStep2
\* makes the session synced.
Merge(t, f) ==
    LET synced == f.type = "step2" \/ state[t] = "synced" IN
    /\ f.type \in {"step2", "update"}
    /\ ydoc' = [ydoc EXCEPT ![t] = Folded(t) \cup f.ids]
    /\ base' = [base EXCEPT ![t] = Rebased(t)]
    /\ state' = [state EXCEPT ![t] = IF synced THEN "synced" ELSE @]
    /\ show' = [show EXCEPT ![t] = TRUE]
    /\ FoldAndFlush(t, synced)
    /\ UNCHANGED <<unsaved>>

\* Mutant: SyncStep1 is answered with our vector only.
AnswerVectorOnly(t, f) ==
    /\ f.type = "step1"
    /\ up' = Sent(Current(t), <<Frame("step1", Integrated(ydoc[t]))>>)
    /\ UNCHANGED <<ydoc, base, state, show, queue, unsaved, erased>>

\* handle_sync_step1: our difference, then our own state vector.
Answer(t, f) ==
    /\ f.type = "step1"
    /\ up' = Sent(Current(t), <<Frame("step2", Diff(ydoc[t], f.ids)),
                                Frame("step1", Integrated(ydoc[t]))>>)
    /\ UNCHANGED <<ydoc, base, state, show, queue, unsaved, erased>>

\* MSG_ERROR persist-failed and persist-ok.
Badge(t, f) ==
    /\ f.type \in {"persist-failed", "persist-ok"}
    /\ unsaved' = [unsaved EXCEPT ![t] = f.type = "persist-failed"]
    /\ UNCHANGED <<ydoc, base, state, show, queue, up, erased>>

\* onmessage.
ClientReceive(t) ==
    LET k == Current(t) IN
    /\ state[t] # "off"
    /\ down[k] # <<>>
    /\ \/ Merge(t, Head(down[k]))
       \/ Answer(t, Head(down[k]))
       \/ Badge(t, Head(down[k]))
    /\ down' = [down EXCEPT ![k] = Tail(@)]
    /\ UNCHANGED <<typed, view, nth, due, link, server, cluster, store, mishaps, silent,
                   pruned>>

\* Mutant: the swap does not fold keystrokes typed since the frame.
ShowUnfolded(t) ==
    /\ show[t]
    /\ show' = [show EXCEPT ![t] = FALSE]
    /\ view' = [view EXCEPT ![t] = Integrated(ydoc[t])]
    /\ base' = [base EXCEPT ![t] = Integrated(ydoc[t])]
    /\ UNCHANGED <<typed, ydoc, queue, state, nth, unsaved, due, wire, server, cluster,
                   store, mishaps, erased, silent, pruned>>

\* The receive debounce ends: keystrokes since the frame are folded against
\* the baseline, and the merged document becomes model and baseline.
ShowRemote(t) ==
    /\ show[t]
    /\ show' = [show EXCEPT ![t] = FALSE]
    /\ ydoc' = [ydoc EXCEPT ![t] = Folded(t)]
    /\ view' = [view EXCEPT ![t] = Integrated(Folded(t))]
    /\ base' = [base EXCEPT ![t] = Integrated(Folded(t))]
    /\ FoldAndFlush(t, state[t] = "synced")
    /\ UNCHANGED <<typed, state, nth, unsaved, due, link, down, server, cluster, store,
                   mishaps, silent, pruned>>

\* poll_sync_state: while "Not saved", the whole document is sent again.  The
\* ten seconds between two of them are modelled by waiting for the answer.
Resend(t) ==
    LET k == Current(t) IN
    /\ unsaved[t]
    /\ state[t] # "off" /\ link[k] = "up"
    /\ up[k] = <<>> /\ down[k] = <<>> /\ job[k] = Idle
    /\ up' = Sent(k, <<Frame("update", ydoc[t])>>)
    /\ UNCHANGED <<doc, session, link, down, server, cluster, store, mishaps, erased,
                   silent, pruned>>

\* connect, to whichever instance the balancer picks.
Connect(t, h) ==
    LET k == <<t, nth[t] + 1>> IN
    /\ state[t] = "off"
    /\ Cardinality({c \in Conns : link[c] # "unused"}) < MaxConns
    /\ nth' = [nth EXCEPT ![t] = @ + 1]
    /\ state' = [state EXCEPT ![t] = "joining"]
    /\ link' = [link EXCEPT ![k] = "up"]
    /\ site' = [site EXCEPT ![k] = h]
    /\ UNCHANGED <<doc, queue, unsaved, due, show, up, down, seat, job, failed, cluster,
                   store, mishaps, erased, silent, pruned>>

\* onclose: the tab learns of the cut, with or without the frames before it.
OnClose(t) ==
    LET k == Current(t) IN
    /\ state[t] # "off" /\ link[k] = "cut"
    /\ state' = [state EXCEPT ![t] = "off"]
    /\ down' = [down EXCEPT ![k] = <<>>]
    /\ UNCHANGED <<doc, queue, nth, unsaved, due, show, link, up, server, cluster, store,
                   mishaps, erased, silent, pruned>>

-----------------------------------------------------------------------------
(* The instance.                                                           *)

Members(h) == {k \in Conns : site[k] = h /\ seat[k]}

\* Room::broadcast: into the channel of every client but the sender.
Told(who, frame) == [k \in Conns |-> IF k \in who THEN Append(down[k], frame) ELSE down[k]]
Others(k) == Members(site[k]) \ {k}

\* handle_ws up to its loops: the resident room or one loaded from storage,
\* add_client, then sync_client with the room's state vector.
Join(k) ==
    LET h == site[k]
        document == IF h \in alive THEN room[h] ELSE Stored
    IN
    /\ link[k] = "up" /\ ~seat[k]
    /\ seat' = [seat EXCEPT ![k] = TRUE]
    /\ alive' = alive \cup {h}
    /\ room' = [room EXCEPT ![h] = document]
    /\ down' = Told({k}, Frame("step1", Integrated(document)))
    /\ UNCHANGED <<doc, session, link, up, site, job, failed, mark, inbox, store, mishaps,
                   erased, silent, pruned>>

\* SyncStep1: the client is sent what its vector lacks.
Backfill(k, f) ==
    /\ f.type = "step1"
    /\ down' = Told({k}, Frame("step2", Diff(room[site[k]], f.ids)))
    /\ UNCHANGED <<room, job, silent>>

\* SyncStep2: applied, and nobody else is told of it.
Absorb(k, f) ==
    /\ f.type = "step2"
    /\ room' = [room EXCEPT ![site[k]] = @ \cup f.ids]
    /\ silent' = silent \cup (f.ids \ room[site[k]])
    /\ UNCHANGED <<down, job>>

\* Update: applied and broadcast; publish and append follow.
Apply(k, f) ==
    /\ f.type = "update"
    /\ room' = [room EXCEPT ![site[k]] = @ \cup f.ids]
    /\ down' = Told(Others(k), f)
    /\ job' = [job EXCEPT ![k] = [step |-> "publish", ids |-> f.ids]]
    /\ UNCHANGED silent

\* The receive loop takes the next frame.
ServerReceive(k) ==
    /\ seat[k] /\ job[k] = Idle /\ up[k] # <<>>
    /\ Backfill(k, Head(up[k])) \/ Absorb(k, Head(up[k])) \/ Apply(k, Head(up[k]))
    /\ up' = [up EXCEPT ![k] = Tail(@)]
    /\ UNCHANGED <<doc, session, link, site, seat, failed, alive, mark, inbox, store,
                   mishaps, erased, pruned>>

\* publish_update: every other instance is sent the frame; an error is logged.
Publish(k) ==
    /\ job[k].step = "publish"
    /\ job' = [job EXCEPT ![k].step = "save"]
    /\ \/ /\ inbox' = [h \in Hosts |-> IF h = site[k] THEN inbox[h]
                                       ELSE Append(inbox[h], job[k].ids)]
          /\ UNCHANGED <<mishaps, silent>>
       \/ /\ Mishap
          /\ silent' = silent \cup job[k].ids
          /\ UNCHANGED inbox
    /\ UNCHANGED <<doc, session, wire, site, seat, failed, alive, room, mark, store,
                   erased, pruned>>

\* append_update succeeds; the first success after a failure says persist-ok.
Save(k) ==
    /\ job[k].step = "save"
    /\ rows' = rows \cup job[k].ids
    /\ job' = [job EXCEPT ![k] = Idle]
    /\ failed' = [failed EXCEPT ![k] = FALSE]
    /\ down' = IF failed[k] THEN Told({k}, Frame("persist-ok", {})) ELSE down
    /\ UNCHANGED <<doc, session, link, up, site, seat, cluster, snap, mishaps, erased,
                   silent, pruned>>

\* Mutant: a failed append is reported and not marked.
MarkedNot(h) == mark

\* Room::mark_unsaved after a failed append.
Marked(h) == [mark EXCEPT ![h] = TRUE]

\* append_update fails or storage is known to be down.
SaveFails(k) ==
    /\ job[k].step = "save"
    /\ Mishap
    /\ mark' = Marked(site[k])
    /\ job' = [job EXCEPT ![k] = Idle]
    /\ failed' = [failed EXCEPT ![k] = TRUE]
    /\ down' = Told({k}, Frame("persist-failed", {}))
    /\ UNCHANGED <<doc, session, link, up, site, seat, alive, room, inbox, store, erased,
                   silent, pruned>>

\* The handler of a cut connection ends, the running frame aborted wherever it
\* is, and the client leaves the room.
Leave(k) ==
    /\ link[k] = "cut" /\ seat[k]
    /\ site' = [site EXCEPT ![k] = Nowhere]
    /\ seat' = [seat EXCEPT ![k] = FALSE]
    /\ job' = [job EXCEPT ![k] = Idle]
    /\ failed' = [failed EXCEPT ![k] = FALSE]
    /\ silent' = silent \cup job[k].ids
    /\ up' = [up EXCEPT ![k] = <<>>]
    /\ UNCHANGED <<doc, session, link, down, cluster, store, mishaps, erased, pruned>>

\* What makes an empty room worth a snapshot.
Pending(h) == rows # {} \/ mark[h]

\* compact_or_remove_on_empty, or the sweeper after it, succeeding.
Compact(h) ==
    /\ h \in alive /\ Members(h) = {}
    /\ alive' = alive \ {h}
    /\ room' = [room EXCEPT ![h] = {}]
    /\ mark' = [mark EXCEPT ![h] = FALSE]
    /\ IF Pending(h)
         THEN /\ snap' = room[h]
              /\ rows' = {}
              /\ pruned' = pruned \cup (Stored \ room[h])
              /\ UNCHANGED silent
         ELSE /\ silent' = silent \cup (room[h] \ Stored)
              /\ UNCHANGED <<store, pruned>>
    /\ UNCHANGED <<doc, session, wire, server, inbox, mishaps, erased>>

\* Mutant: a frame from another instance is applied and not relayed.
FanoutUnrelayed(h) ==
    /\ inbox[h] # <<>>
    /\ inbox' = [inbox EXCEPT ![h] = Tail(@)]
    /\ IF h \in alive
         THEN /\ room' = [room EXCEPT ![h] = @ \cup Head(inbox[h])]
              /\ UNCHANGED silent
         ELSE /\ silent' = silent \cup (Head(inbox[h]) \ Stored)
              /\ UNCHANGED room
    /\ UNCHANGED <<doc, session, wire, server, alive, mark, store, mishaps, erased,
                   pruned>>

\* RoomRegistry::apply_remote_update: dropped where the document has no room.
Fanout(h) ==
    /\ inbox[h] # <<>>
    /\ inbox' = [inbox EXCEPT ![h] = Tail(@)]
    /\ IF h \in alive
         THEN /\ room' = [room EXCEPT ![h] = @ \cup Head(inbox[h])]
              /\ down' = Told(Members(h), Frame("update", Head(inbox[h])))
              /\ UNCHANGED silent
         ELSE /\ silent' = silent \cup (Head(inbox[h]) \ Stored)
              /\ UNCHANGED <<room, down>>
    /\ UNCHANGED <<doc, session, link, up, server, alive, mark, store, mishaps, erased,
                   pruned>>

\* The subscriber lagged: a message is gone, and every client here is asked
\* to synchronise again.
Lag(h) ==
    /\ inbox[h] # <<>>
    /\ Mishap
    /\ inbox' = [inbox EXCEPT ![h] = Tail(@)]
    /\ silent' = silent \cup Head(inbox[h])
    /\ down' = Told(Members(h), Frame("step1", Integrated(room[h])))
    /\ UNCHANGED <<doc, session, link, up, server, alive, room, mark, store, erased,
                   pruned>>

-----------------------------------------------------------------------------
(* The network and the process.                                            *)

\* The socket breaks.  Each end still reads what had arrived, and stops where
\* it notices (OnClose, Leave): what is then unread was lost on the way.
Cut(k) ==
    /\ link[k] = "up"
    /\ Mishap
    /\ link' = [link EXCEPT ![k] = "cut"]
    /\ UNCHANGED <<doc, session, up, down, server, cluster, store, erased, silent,
                   pruned>>

\* An instance stops and is started again: its rooms and what Redis had sent
\* it are gone, and its sockets are cut.
Crash(h) ==
    LET here == {k \in Conns : site[k] = h} IN
    /\ h \in alive
    /\ Mishap
    /\ link' = [k \in Conns |-> IF k \in here THEN "cut" ELSE link[k]]
    /\ up' = [k \in Conns |-> IF k \in here THEN <<>> ELSE up[k]]
    /\ site' = [k \in Conns |-> IF k \in here THEN Nowhere ELSE site[k]]
    /\ seat' = [k \in Conns |-> seat[k] /\ k \notin here]
    /\ failed' = [k \in Conns |-> failed[k] /\ k \notin here]
    /\ job' = [k \in Conns |-> IF k \in here THEN Idle ELSE job[k]]
    /\ alive' = alive \ {h}
    /\ room' = [room EXCEPT ![h] = {}]
    /\ mark' = [mark EXCEPT ![h] = FALSE]
    /\ inbox' = [inbox EXCEPT ![h] = <<>>]
    /\ silent' = silent \cup (room[h] \ Stored)
                        \cup (UNION {job[k].ids : k \in here})
                        \cup (UNION {inbox[h][i] : i \in DOMAIN inbox[h]})
    /\ UNCHANGED <<doc, session, down, store, erased, pruned>>

-----------------------------------------------------------------------------
Next ==
    \/ \E t \in Tabs :
         \/ Type(t) \/ SendDue(t) \/ ClientReceive(t) \/ ShowRemote(t) \/ Resend(t)
         \/ OnClose(t)
         \/ \E h \in Hosts : Connect(t, h)
    \/ \E k \in Conns :
         \/ Join(k) \/ ServerReceive(k) \/ Publish(k)
         \/ Save(k) \/ SaveFails(k) \/ Leave(k) \/ Cut(k)
    \/ \E h \in Hosts : Compact(h) \/ Fanout(h) \/ Lag(h) \/ Crash(h)

Spec == Init /\ [][Next]_vars

-----------------------------------------------------------------------------
(* Properties.                                                             *)

Frames == [type : {"step1", "step2", "update", "persist-failed", "persist-ok"},
           ids : SUBSET Ids]

\* Every variable has its type; a tab with a session has a connection, and it
\* queues nothing once synced; a connection begins where it was accepted, and
\* its room stays while it has a seat there.
TypeOK ==
    /\ typed \in [Tabs -> 0..MaxEdits]
    /\ view \in [Tabs -> SUBSET Ids] /\ base \in [Tabs -> SUBSET Ids]
    /\ ydoc \in [Tabs -> SUBSET Ids]
    /\ queue \in [Tabs -> Seq(SUBSET Ids)]
    /\ state \in [Tabs -> {"off", "joining", "synced"}]
    /\ nth \in [Tabs -> 0..MaxConns]
    /\ unsaved \in [Tabs -> BOOLEAN]
    /\ due \in [Tabs -> BOOLEAN] /\ show \in [Tabs -> BOOLEAN]
    /\ link \in [Conns -> {"unused", "up", "cut"}]
    /\ up \in [Conns -> Seq(Frames)] /\ down \in [Conns -> Seq(Frames)]
    /\ site \in [Conns -> Hosts \cup {Nowhere}]
    /\ seat \in [Conns -> BOOLEAN] /\ failed \in [Conns -> BOOLEAN]
    /\ job \in [Conns -> [step : {"none", "publish", "save"}, ids : SUBSET Ids]]
    /\ alive \subseteq Hosts
    /\ room \in [Hosts -> SUBSET Ids]
    /\ mark \in [Hosts -> BOOLEAN]
    /\ inbox \in [Hosts -> Seq(SUBSET Ids)]
    /\ rows \subseteq Ids /\ snap \subseteq Ids
    /\ mishaps \in 0..MaxMishaps
    /\ erased \subseteq Ids /\ silent \subseteq Ids /\ pruned \subseteq Ids
    /\ \A t \in Tabs : state[t] # "off" => nth[t] > 0
    /\ \A t \in Tabs : state[t] = "synced" => queue[t] = <<>>
    /\ \A k \in Conns : link[k] = "up" => site[k] \in Hosts
    /\ \A k \in Conns : seat[k] => site[k] \in alive

\* Nothing disappears from an editor: not a keystroke that a remote update
\* overtook inside a debounce, and not a peer's edit once shown.  (All edits of
\* the model are insertions.)
NothingVanishes == [][\A t \in Tabs : view[t] \subseteq view'[t]]_vars

\* No fold deletes a peer's edit from the shared document: the baseline never
\* runs ahead of the model it is compared with.
NothingErased == erased = {}

\* A synced tab none of whose connections has anything left to do.
Quiet(t) ==
    LET k == Current(t) IN
    /\ state[t] = "synced" /\ ~due[t] /\ ~show[t]
    /\ link[k] = "up" /\ seat[k] /\ down[k] = <<>>
    /\ \A n \in 1..MaxConns : up[<<t, n>>] = <<>> /\ job[<<t, n>>] = Idle

\* All edits of a quiet tab are in its instance's room, however often the
\* socket was lost, drained into nothing or moved to another instance.
TabsReachRoom ==
    \A t \in Tabs : Quiet(t) => /\ view[t] = Integrated(ydoc[t])
                               /\ ydoc[t] \subseteq room[site[Current(t)]]

\* Nothing is under way anywhere.
Settled ==
    /\ \A t \in Tabs : Quiet(t) \/ state[t] = "off"
    /\ \A k \in Conns : seat[k] => link[k] = "up" /\ up[k] = <<>> /\ job[k] = Idle
    /\ \A h \in Hosts : inbox[h] = <<>>

\* Once nothing is under way, two copies of the document on the instances and
\* in the connected tabs differ in nothing but the edits some message about
\* which was skipped (silent) or which were pruned before an instance had them.
DifferencesExplained ==
    Settled =>
        LET copies == {room[h] : h \in alive}
                        \cup {ydoc[t] : t \in {s \in Tabs : state[s] = "synced"}}
        IN  \A a, b \in copies : a \ b \subseteq silent \cup pruned

\* A quiet tab shows "Not saved" while the last append on its connection failed;
\* and whatever it shows, it has made no edit that nobody keeps: each is stored,
\* in a room marked unsaved, or known to the model as skipped.
BadgeHonest ==
    \A t \in Tabs : Quiet(t) =>
        /\ failed[Current(t)] => unsaved[t]
        /\ ydoc[t] \cap ({t} \X Nat) \subseteq
               Stored \cup (UNION {room[h] : h \in {g \in alive : mark[g]}})
                      \cup silent \cup pruned
=============================================================================
