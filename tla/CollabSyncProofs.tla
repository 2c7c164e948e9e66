-------------------------- MODULE CollabSyncProofs --------------------------
(***************************************************************************)
(* Proofs about CollabSync: its state is well formed, the folds of two     *)
(* tabs never undo each other, a tab that has come to rest has its edits   *)
(* in the room, copies of the document differ once nothing is under way in *)
(* nothing but what was skipped or pruned, and the badge is honest.  The   *)
(* inductive invariant grows in layers, each preserved with the help of    *)
(* those before it:                                                        *)
(*   TypeInv              types, over the edits made so far                *)
(*   TabInv               a tab's model, baseline and document             *)
(*   Live, ReachInv       from a tab to the room at the other end          *)
(*   AgreeInv             from one instance to the others                  *)
(*   SourceInv, TellInv   from a room to the tabs seated in it             *)
(*   KeptInv              what has left its author's tab is kept           *)
(*   BadgeInv             the last word about saving that a tab was sent   *)
(***************************************************************************)
EXTENDS CollabSync, FiniteSetTheorems, SequenceTheorems, TLAPS

-----------------------------------------------------------------------------
(* Types.                                                                  *)

\* The edits made so far, and the frames that can carry them.
Made == {e \in Ids : e[2] <= typed[e[1]]}
MadeFrames == [type : {"step1", "step2", "update", "persist-failed", "persist-ok"},
               ids : SUBSET Made]

Shapes ==
    /\ typed \in [Tabs -> 0..MaxEdits]
    /\ view \in [Tabs -> SUBSET Made] /\ base \in [Tabs -> SUBSET Made]
    /\ ydoc \in [Tabs -> SUBSET Made]
    /\ queue \in [Tabs -> Seq(SUBSET Made)]
    /\ state \in [Tabs -> {"off", "joining", "synced"}]
    /\ nth \in [Tabs -> 0..MaxConns]
Flags ==
    /\ unsaved \in [Tabs -> BOOLEAN]
    /\ due \in [Tabs -> BOOLEAN] /\ show \in [Tabs -> BOOLEAN]
    /\ seat \in [Conns -> BOOLEAN] /\ failed \in [Conns -> BOOLEAN]
    /\ mark \in [Hosts -> BOOLEAN]
Wires ==
    /\ link \in [Conns -> {"unused", "up", "cut"}]
    /\ up \in [Conns -> Seq(MadeFrames)] /\ down \in [Conns -> Seq(MadeFrames)]
    /\ site \in [Conns -> Hosts \cup {Nowhere}]
    /\ job \in [Conns -> [step : {"none", "publish", "save"}, ids : SUBSET Made]]
Stores ==
    /\ alive \subseteq Hosts
    /\ room \in [Hosts -> SUBSET Made]
    /\ inbox \in [Hosts -> Seq(SUBSET Made)]
    /\ rows \subseteq Made /\ snap \subseteq Made
    /\ mishaps \in 0..MaxMishaps
    /\ erased \subseteq Made /\ silent \subseteq Made /\ pruned \subseteq Made

\* A connection is used once its number is given out.
Numbered ==
    \A t \in Tabs, n \in 1..MaxConns : link[<<t, n>>] = "unused" <=> n > nth[t]

Tied ==
    /\ \A t \in Tabs : state[t] # "off" => nth[t] > 0
    /\ \A t \in Tabs : state[t] = "synced" => queue[t] = <<>>
    /\ \A k \in Conns : link[k] = "up" => site[k] \in Hosts
    /\ \A k \in Conns : seat[k] => site[k] \in alive

\* Nothing happens on a connection before it is made, and no handler of its
\* frames runs before it has its seat or after.
Blank ==
    \A k \in Conns :
        /\ link[k] = "unused" =>
              ~seat[k] /\ up[k] = <<>> /\ down[k] = <<>> /\ site[k] = Nowhere
        /\ ~seat[k] => job[k] = Idle

TypeInv == Shapes /\ Flags /\ Wires /\ Stores /\ Numbered /\ Tied /\ Blank

\* What the theorems below prove is what TypeOK says.
LEMMA TypesImplyTypeOK == TypeInv => TypeOK
  <1> SUFFICES ASSUME TypeInv PROVE TypeOK
    OBVIOUS
  <1>1. SUBSET Made \subseteq SUBSET Ids /\ MadeFrames \subseteq Frames
    BY DEF Made, MadeFrames, Frames
  <1>2. \A q \in Seq(SUBSET Made) : q \in Seq(SUBSET Ids)
    BY <1>1, SeqMonotonic
  <1>3. \A q \in Seq(MadeFrames) : q \in Seq(Frames)
    BY <1>1, SeqMonotonic
  <1>4. queue \in [Tabs -> Seq(SUBSET Ids)] /\ inbox \in [Hosts -> Seq(SUBSET Ids)]
    BY <1>2 DEF TypeInv, Shapes, Stores
  <1>5. up \in [Conns -> Seq(Frames)] /\ down \in [Conns -> Seq(Frames)]
    BY <1>3 DEF TypeInv, Wires
  <1>6. job \in [Conns -> [step : {"none", "publish", "save"}, ids : SUBSET Ids]]
    BY <1>1 DEF TypeInv, Wires
  <1>7. /\ view \in [Tabs -> SUBSET Ids] /\ base \in [Tabs -> SUBSET Ids]
        /\ ydoc \in [Tabs -> SUBSET Ids] /\ room \in [Hosts -> SUBSET Ids]
        /\ rows \in SUBSET Ids /\ snap \in SUBSET Ids
        /\ erased \in SUBSET Ids /\ silent \in SUBSET Ids /\ pruned \in SUBSET Ids
    BY <1>1 DEF TypeInv, Shapes, Stores
  <1>8. QED
    BY <1>4, <1>5, <1>6, <1>7 DEF TypeInv, TypeOK, Shapes, Flags, Wires, Stores, Tied

LEMMA FrameIn ==
    ASSUME NEW type \in {"step1", "step2", "update", "persist-failed", "persist-ok"},
           NEW ids \in SUBSET Made
    PROVE  Frame(type, ids) \in MadeFrames
  BY DEF Frame, MadeFrames

LEMMA PairFinite == IsFiniteSet(Ids) /\ IsFiniteSet(Conns)
  <1>1. IsFiniteSet(1..MaxEdits) /\ IsFiniteSet(1..MaxConns)
    BY FS_Interval, SyncAssumption
  <1>2. QED
    BY <1>1, FS_Product, SyncAssumption DEF Ids, Conns

LEMMA NumbersOfOne ==
    ASSUME NEW t \in Tabs, NEW n \in Nat, NEW S \in SUBSET (Tabs \X (1..n)),
           IsFiniteSet(S), \A i \in 1..n : <<t, i>> \in S
    PROVE  Cardinality(S) >= n
  <1> DEFINE own == {t} \X (1..n)
  <1>1. IsFiniteSet(1..n) /\ Cardinality(1..n) = n
    BY FS_Interval
  <1>2. IsFiniteSet({t}) /\ Cardinality({t}) = 1
    BY FS_Singleton
  <1>3. Cardinality(own) = Cardinality({t}) * Cardinality(1..n)
    BY <1>1, <1>2, FS_Product
  <1>4. Cardinality(own) = n
    BY <1>1, <1>2, <1>3
  <1>5. own \in SUBSET S
    OBVIOUS
  <1>6. Cardinality(own) <= Cardinality(S)
    BY <1>5, FS_Subset
  <1>7. Cardinality(S) \in Nat
    BY FS_CardinalityType
  <1>8. QED
    BY <1>4, <1>6, <1>7

LEMMA RoomToType ==
    ASSUME TypeInv, NEW t \in Tabs,
           Cardinality({e \in Ids : e[2] <= typed[e[1]]}) < MaxEdits
    PROVE  typed[t] + 1 \in 1..MaxEdits /\ <<t, typed[t] + 1>> \in Ids
  <1> DEFINE S == {e \in Ids : e[2] <= typed[e[1]]}
  <1>1. typed[t] \in 0..MaxEdits /\ MaxEdits \in Nat
    BY SyncAssumption DEF TypeInv, Shapes
  <1>2. ASSUME typed[t] = MaxEdits PROVE FALSE
    <2>1. \A i \in 1..MaxEdits : <<t, i>> \in S
      BY <1>1, <1>2 DEF Ids
    <2>2. IsFiniteSet(S) /\ S \in SUBSET (Tabs \X (1..MaxEdits))
      BY PairFinite, FS_Subset DEF Ids
    <2>3. Cardinality(S) >= MaxEdits
      BY <1>1, <2>1, <2>2, NumbersOfOne
    <2>4. Cardinality(S) \in Nat
      BY <2>2, FS_CardinalityType
    <2>5. QED
      BY <1>1, <2>3, <2>4
  <1>3. typed[t] + 1 \in 1..MaxEdits
    BY <1>1, <1>2
  <1>4. QED
    BY <1>3 DEF Ids

LEMMA RoomToConnect ==
    ASSUME TypeInv, NEW t \in Tabs,
           Cardinality({c \in Conns : link[c] # "unused"}) < MaxConns
    PROVE  nth[t] + 1 \in 1..MaxConns /\ <<t, nth[t] + 1>> \in Conns
  <1> DEFINE S == {c \in Conns : link[c] # "unused"}
  <1>1. nth[t] \in 0..MaxConns /\ MaxConns \in Nat
    BY SyncAssumption DEF TypeInv, Shapes
  <1>2. ASSUME nth[t] = MaxConns PROVE FALSE
    <2>1. \A i \in 1..MaxConns : <<t, i>> \in S
      BY <1>1, <1>2 DEF Conns, TypeInv, Numbered
    <2>2. IsFiniteSet(S) /\ S \in SUBSET (Tabs \X (1..MaxConns))
      BY PairFinite, FS_Subset DEF Conns
    <2>3. Cardinality(S) >= MaxConns
      BY <1>1, <2>1, <2>2, NumbersOfOne
    <2>4. Cardinality(S) \in Nat
      BY <2>2, FS_CardinalityType
    <2>5. QED
      BY <1>1, <2>3, <2>4
  <1>3. nth[t] + 1 \in 1..MaxConns
    BY <1>1, <1>2
  <1>4. QED
    BY <1>3 DEF Conns

LEMMA InitTypes == Init => TypeInv
  BY SyncAssumption DEF Init, TypeInv, Shapes, Flags, Wires, Stores, Numbered, Tied, Blank, Idle, Conns

\* The keystroke is one of the edits made from now on.
LEMMA MadeGrows ==
    ASSUME TypeInv, NEW t \in Tabs, Type(t)
    PROVE  Made \subseteq Made' /\ <<t, typed[t] + 1>> \in Made'
  <1>1. typed[t] + 1 \in 1..MaxEdits /\ <<t, typed[t] + 1>> \in Ids
    BY RoomToType DEF Type
  <1>2. typed' = [typed EXCEPT ![t] = @ + 1] /\ typed \in [Tabs -> 0..MaxEdits]
    BY DEF Type, TypeInv, Shapes
  <1>3. \A s \in Tabs : typed[s] <= typed'[s] /\ typed[s] \in Nat /\ typed'[s] \in Nat
    BY <1>1, <1>2
  <1>4. \A e \in Ids : e[1] \in Tabs /\ e[2] \in Nat
    BY SyncAssumption DEF Ids
  <1>5. \A e \in Ids : e[2] <= typed[e[1]] => e[2] <= typed'[e[1]]
    BY <1>3, <1>4
  <1>6. QED
    BY <1>1, <1>2, <1>5 DEF Made

LEMMA TypeTypes == ASSUME TypeInv, NEW t \in Tabs, Type(t) PROVE TypeInv'
  <1>0. Made \subseteq Made' /\ <<t, typed[t] + 1>> \in Made'
    BY MadeGrows
  <1>1. typed[t] + 1 \in 0..MaxEdits
    <2>1. typed[t] + 1 \in 1..MaxEdits
      BY RoomToType DEF Type
    <2>2. QED
      BY <2>1, SyncAssumption
  <1>2. SUBSET Made \subseteq SUBSET Made' /\ MadeFrames \subseteq MadeFrames'
    BY <1>0 DEF MadeFrames
  <1>3. /\ \A q \in Seq(SUBSET Made) : q \in Seq(SUBSET Made')
        /\ \A q \in Seq(MadeFrames) : q \in Seq(MadeFrames')
    BY <1>2, SeqMonotonic
  <1>4. Shapes'
    <2>1. view[t] \cup {<<t, typed[t] + 1>>} \in SUBSET Made'
      BY <1>0 DEF TypeInv, Shapes
    <2>2. typed' \in [Tabs -> 0..MaxEdits]
      BY <1>1 DEF TypeInv, Shapes, Type
    <2>3. view \in [Tabs -> SUBSET Made'] /\ base \in [Tabs -> SUBSET Made']
      BY <1>2 DEF TypeInv, Shapes
    <2>4. view' \in [Tabs -> SUBSET Made'] /\ base' \in [Tabs -> SUBSET Made']
      BY <2>1, <2>3 DEF Type
    <2>5. ydoc' \in [Tabs -> SUBSET Made'] /\ queue' \in [Tabs -> Seq(SUBSET Made')]
      BY <1>2, <1>3 DEF TypeInv, Shapes, Type
    <2>6. QED
      BY <2>2, <2>4, <2>5 DEF TypeInv, Shapes, Type
  <1>5. Flags'
    BY DEF TypeInv, Flags, Type, server, cluster
  <1>6. Wires'
    <2>1. up' \in [Conns -> Seq(MadeFrames')] /\ down' \in [Conns -> Seq(MadeFrames')]
      BY <1>3 DEF TypeInv, Wires, Type, wire
    <2>2. job' \in [Conns -> [step : {"none", "publish", "save"}, ids : SUBSET Made']]
      BY <1>2 DEF TypeInv, Wires, Type, server
    <2>3. QED
      BY <2>1, <2>2 DEF TypeInv, Wires, Type, wire, server
  <1>7. Stores'
    <2>1. room' \in [Hosts -> SUBSET Made'] /\ inbox' \in [Hosts -> Seq(SUBSET Made')]
      BY <1>2, <1>3 DEF TypeInv, Stores, Type, cluster
    <2>2. QED
      BY <1>0, <2>1 DEF TypeInv, Stores, Type, cluster, store
  <1>8. Numbered' /\ Tied' /\ Blank'
    BY DEF TypeInv, Numbered, Tied, Blank, Type, wire, server, cluster
  <1>9. QED
    BY <1>4, <1>5, <1>6, <1>7, <1>8 DEF TypeInv

\* What a fold makes is made of edits.
LEMMA FoldShapes ==
    ASSUME TypeInv, NEW t \in Tabs
    PROVE  /\ Fresh(t) \in SUBSET Made /\ Gone(t) \in SUBSET Made
           /\ Folded(t) \in SUBSET Made /\ Integrated(Folded(t)) \in SUBSET Made
           /\ Integrated(ydoc[t]) \in SUBSET Made /\ Rebased(t) \in SUBSET Made
           /\ Observed(t) \in Seq(SUBSET Made)
  <1>1. /\ view[t] \in SUBSET Made /\ base[t] \in SUBSET Made /\ ydoc[t] \in SUBSET Made
        /\ queue[t] \in Seq(SUBSET Made)
    BY DEF TypeInv, Shapes
  <1>2. /\ Fresh(t) \in SUBSET Made /\ Gone(t) \in SUBSET Made
        /\ Folded(t) \in SUBSET Made /\ Integrated(ydoc[t]) \in SUBSET Made
        /\ Rebased(t) \in SUBSET Made
    BY <1>1 DEF Fresh, Gone, Folded, Integrated, Rebased
  <1>3. Integrated(Folded(t)) \in SUBSET Made
    BY <1>2 DEF Integrated
  <1>4. Observed(t) \in Seq(SUBSET Made)
    BY <1>1, <1>2, AppendProperties DEF Observed
  <1>5. QED
    BY <1>2, <1>3, <1>4

LEMMA UpdateFrames ==
    ASSUME NEW q \in Seq(SUBSET Made)
    PROVE  /\ Updates(q) \in Seq(MadeFrames) /\ DOMAIN Updates(q) = DOMAIN q
           /\ \A i \in DOMAIN q : Updates(q)[i] = Frame("update", q[i])
  <1>1. Len(q) \in Nat /\ DOMAIN q = 1..Len(q) /\ \A i \in 1..Len(q) : q[i] \in SUBSET Made
    BY LenProperties, ElementOfSeq
  <1>2. \A i \in 1..Len(q) : Frame("update", q[i]) \in MadeFrames
    BY <1>1, FrameIn
  <1>3. Updates(q) \in [1..Len(q) -> MadeFrames]
    BY <1>1, <1>2 DEF Updates
  <1>4. Updates(q) \in Seq(MadeFrames)
    BY <1>1, <1>3, SeqDef
  <1>5. QED
    BY <1>1, <1>4 DEF Updates

LEMMA SentShape ==
    ASSUME TypeInv, NEW k \in Conns, NEW f \in Seq(MadeFrames)
    PROVE  /\ Sent(k, f) \in [Conns -> Seq(MadeFrames)]
           /\ \A c \in Conns \ {k} : Sent(k, f)[c] = up[c]
           /\ Sent(k, f)[k] = IF link[k] = "up" THEN up[k] \o f ELSE up[k]
  <1>1. up \in [Conns -> Seq(MadeFrames)]
    BY DEF TypeInv, Wires
  <1>2. up[k] \o f \in Seq(MadeFrames)
    BY <1>1, ConcatProperties
  <1>3. QED
    BY <1>1, <1>2 DEF Sent

LEMMA CurrentIn ==
    ASSUME TypeInv, NEW t \in Tabs, state[t] # "off"
    PROVE  Current(t) \in Conns /\ link[Current(t)] # "unused"
  <1>1. nth[t] \in 1..MaxConns
    BY SyncAssumption DEF TypeInv, Shapes, Tied
  <1>2. QED
    BY <1>1, SyncAssumption DEF TypeInv, Numbered, Current, Conns

LEMMA FlushShapes ==
    ASSUME TypeInv, NEW t \in Tabs, NEW synced \in BOOLEAN, synced => state[t] # "off",
           FoldAndFlush(t, synced)
    PROVE  /\ queue' \in [Tabs -> Seq(SUBSET Made)]
           /\ queue'[t] = IF synced THEN <<>> ELSE Observed(t)
           /\ \A s \in Tabs \ {t} : queue'[s] = queue[s]
           /\ up' \in [Conns -> Seq(MadeFrames)]
           /\ \A c \in Conns : c # Current(t) => up'[c] = up[c]
           /\ synced => /\ Current(t) \in Conns
                        /\ up'[Current(t)] = IF link[Current(t)] = "up"
                             THEN up[Current(t)] \o Updates(Observed(t))
                             ELSE up[Current(t)]
           /\ ~synced => up' = up
           /\ erased' \in SUBSET Made
  <1>1. Observed(t) \in Seq(SUBSET Made) /\ Gone(t) \in SUBSET Made
    BY FoldShapes
  <1>2. <<>> \in Seq(SUBSET Made)
    BY EmptySeq
  <1>3. queue \in [Tabs -> Seq(SUBSET Made)] /\ up \in [Conns -> Seq(MadeFrames)]
    BY DEF TypeInv, Shapes, Wires
  <1>4. /\ queue' \in [Tabs -> Seq(SUBSET Made)]
        /\ queue'[t] = IF synced THEN <<>> ELSE Observed(t)
        /\ \A s \in Tabs \ {t} : queue'[s] = queue[s]
    BY <1>1, <1>2, <1>3 DEF FoldAndFlush
  <1>5. erased' \in SUBSET Made
    BY <1>1 DEF FoldAndFlush, TypeInv, Stores
  <1>6. CASE ~synced
    BY <1>3, <1>4, <1>5, <1>6 DEF FoldAndFlush
  <1>7. CASE synced
    <2>1. Current(t) \in Conns
      BY <1>7, CurrentIn
    <2>2. Updates(Observed(t)) \in Seq(MadeFrames)
      BY <1>1, UpdateFrames
    <2>3. up' = Sent(Current(t), Updates(Observed(t)))
      BY <1>7 DEF FoldAndFlush
    <2>4. QED
      BY <2>1, <2>2, <2>3, <1>4, <1>5, <1>7, SentShape
  <1>8. QED
    BY <1>6, <1>7

LEMMA SendDueTypes == ASSUME TypeInv, NEW t \in Tabs, SendDue(t) PROVE TypeInv'
  <1>0. Made' = Made /\ MadeFrames' = MadeFrames
    BY DEF Made, MadeFrames, SendDue, doc
  <1>1. FoldAndFlush(t, state[t] = "synced")
    BY DEF SendDue
  <1>2. /\ queue' \in [Tabs -> Seq(SUBSET Made)] /\ up' \in [Conns -> Seq(MadeFrames)]
        /\ erased' \in SUBSET Made
        /\ state[t] = "synced" => queue'[t] = <<>>
        /\ \A s \in Tabs \ {t} : queue'[s] = queue[s]
        /\ \A c \in Conns : link[c] = "unused" => up'[c] = up[c]
    BY <1>1, FlushShapes, CurrentIn
  <1>3. Shapes'
    BY <1>0, <1>2, FoldShapes DEF TypeInv, Shapes, SendDue
  <1>4. Flags'
    BY DEF TypeInv, Flags, SendDue, server, cluster
  <1>5. Wires' /\ Stores' /\ Numbered' /\ Tied'
    BY <1>0, <1>2 DEF TypeInv, Wires, Stores, Numbered, Tied, SendDue, server, cluster, store
  <1>6. Blank'
    BY <1>2 DEF TypeInv, Blank, SendDue, server
  <1>7. QED
    BY <1>3, <1>4, <1>5, <1>6 DEF TypeInv

LEMMA ShowTypes == ASSUME TypeInv, NEW t \in Tabs, ShowRemote(t) PROVE TypeInv'
  <1>0. Made' = Made /\ MadeFrames' = MadeFrames
    BY DEF Made, MadeFrames, ShowRemote, doc
  <1>1. FoldAndFlush(t, state[t] = "synced")
    BY DEF ShowRemote
  <1>2. /\ queue' \in [Tabs -> Seq(SUBSET Made)] /\ up' \in [Conns -> Seq(MadeFrames)]
        /\ erased' \in SUBSET Made
        /\ state[t] = "synced" => queue'[t] = <<>>
        /\ \A s \in Tabs \ {t} : queue'[s] = queue[s]
        /\ \A c \in Conns : link[c] = "unused" => up'[c] = up[c]
    BY <1>1, FlushShapes, CurrentIn
  <1>3. Shapes'
    BY <1>0, <1>2, FoldShapes DEF TypeInv, Shapes, ShowRemote
  <1>4. Flags'
    BY DEF TypeInv, Flags, ShowRemote, server, cluster
  <1>5. Wires' /\ Stores' /\ Numbered' /\ Tied'
    BY <1>0, <1>2 DEF TypeInv, Wires, Stores, Numbered, Tied, ShowRemote, server, cluster, store
  <1>6. Blank'
    BY <1>2 DEF TypeInv, Blank, ShowRemote, server
  <1>7. QED
    BY <1>3, <1>4, <1>5, <1>6 DEF TypeInv

\* The first frame of a wire, and what is left of it.
LEMMA HeadShape ==
    ASSUME TypeInv, NEW k \in Conns
    PROVE  /\ down[k] # <<>> => /\ Head(down[k]) \in MadeFrames
                                /\ Head(down[k]).ids \in SUBSET Made
                                /\ Tail(down[k]) \in Seq(MadeFrames)
           /\ up[k] # <<>> => /\ Head(up[k]) \in MadeFrames
                              /\ Head(up[k]).ids \in SUBSET Made
                              /\ Tail(up[k]) \in Seq(MadeFrames)
  <1>1. down[k] \in Seq(MadeFrames) /\ up[k] \in Seq(MadeFrames)
    BY DEF TypeInv, Wires
  <1>2. \A f \in MadeFrames : f.ids \in SUBSET Made
    BY DEF MadeFrames
  <1>3. QED
    BY <1>1, <1>2, HeadTailProperties

LEMMA ReceiveTypes == ASSUME TypeInv, NEW t \in Tabs, ClientReceive(t) PROVE TypeInv'
  <1>0. Made' = Made /\ MadeFrames' = MadeFrames
    BY DEF Made, MadeFrames, ClientReceive, doc
  <1> DEFINE k == Current(t)
             f == Head(down[k])
  <1>1. k \in Conns /\ down[k] # <<>> /\ state[t] # "off" /\ link[k] # "unused"
    BY CurrentIn DEF ClientReceive
  <1>2. f \in MadeFrames /\ f.ids \in SUBSET Made /\ Tail(down[k]) \in Seq(MadeFrames)
    BY <1>1, HeadShape
  <1>3. down' \in [Conns -> Seq(MadeFrames)]
    BY <1>1, <1>2 DEF ClientReceive, TypeInv, Wires
  <1>4. CASE Merge(t, f)
    <2> DEFINE synced == f.type = "step2" \/ state[t] = "synced"
    <2>1. FoldAndFlush(t, synced) /\ synced \in BOOLEAN
      BY <1>4 DEF Merge
    <2>2. /\ queue' \in [Tabs -> Seq(SUBSET Made)] /\ up' \in [Conns -> Seq(MadeFrames)]
          /\ erased' \in SUBSET Made
          /\ synced => queue'[t] = <<>>
          /\ \A s \in Tabs \ {t} : queue'[s] = queue[s]
          /\ \A c \in Conns : c # k => up'[c] = up[c]
      BY <1>1, <2>1, FlushShapes
    <2>3. /\ Folded(t) \cup f.ids \in SUBSET Made /\ Rebased(t) \in SUBSET Made
      BY <1>2, FoldShapes
    <2>4. /\ ydoc' \in [Tabs -> SUBSET Made] /\ base' \in [Tabs -> SUBSET Made]
      BY <1>4, <2>3 DEF Merge, TypeInv, Shapes
    <2>5. /\ state' \in [Tabs -> {"off", "joining", "synced"}]
          /\ \A s \in Tabs \ {t} : state'[s] = state[s]
          /\ state'[t] = IF synced THEN "synced" ELSE state[t]
      BY <1>4 DEF Merge, TypeInv, Shapes
    <2>6. Shapes'
      BY <1>0, <2>2, <2>4, <2>5 DEF TypeInv, Shapes, ClientReceive
    <2>7. Flags'
      BY <1>4 DEF TypeInv, Flags, Merge, ClientReceive, server, cluster
    <2>8. Wires' /\ Stores' /\ Numbered'
      BY <1>0, <1>3, <2>2 DEF TypeInv, Wires, Stores, Numbered, ClientReceive, server, cluster, store
    <2>9. Tied'
      BY <1>1, <2>2, <2>5 DEF TypeInv, Tied, Shapes, ClientReceive, server, cluster
    <2>10. Blank'
      BY <1>1, <2>2 DEF TypeInv, Blank, Wires, ClientReceive, server
    <2>11. QED
      BY <2>6, <2>7, <2>8, <2>9, <2>10 DEF TypeInv
  <1>5. CASE Answer(t, f)
    <2>1. Diff(ydoc[t], f.ids) \in SUBSET Made /\ Integrated(ydoc[t]) \in SUBSET Made
      BY FoldShapes DEF Diff, TypeInv, Shapes
    <2>2. <<Frame("step2", Diff(ydoc[t], f.ids)), Frame("step1", Integrated(ydoc[t]))>>
             \in Seq(MadeFrames)
      BY <2>1, FrameIn
    <2>3. up' \in [Conns -> Seq(MadeFrames)] /\ \A c \in Conns \ {k} : up'[c] = up[c]
      BY <1>1, <1>5, <2>2, SentShape DEF Answer
    <2>4. Shapes' /\ Stores' /\ Numbered' /\ Tied'
      BY <1>0, <1>5 DEF TypeInv, Shapes, Stores, Numbered, Tied, Answer, ClientReceive,
                  server, cluster, store
    <2>5. Flags'
      BY <1>5 DEF TypeInv, Flags, Answer, ClientReceive, server, cluster
    <2>6. Wires'
      BY <1>0, <1>3, <2>3 DEF TypeInv, Wires, ClientReceive, server
    <2>7. Blank'
      BY <1>1, <2>3 DEF TypeInv, Blank, Wires, ClientReceive, server
    <2>8. QED
      BY <2>4, <2>5, <2>6, <2>7 DEF TypeInv
  <1>6. CASE Badge(t, f)
    <2>1. Shapes' /\ Stores' /\ Numbered' /\ Tied'
      BY <1>0, <1>6 DEF TypeInv, Shapes, Stores, Numbered, Tied, Badge, ClientReceive,
                  server, cluster, store
    <2>2. Flags'
      BY <1>6 DEF TypeInv, Flags, Badge, ClientReceive, server, cluster
    <2>3. Wires'
      BY <1>0, <1>3, <1>6 DEF TypeInv, Wires, Badge, ClientReceive, server
    <2>4. Blank'
      BY <1>1, <1>6 DEF TypeInv, Blank, Wires, Badge, ClientReceive, server
    <2>5. QED
      BY <2>1, <2>2, <2>3, <2>4 DEF TypeInv
  <1>7. QED
    BY <1>4, <1>5, <1>6 DEF ClientReceive

LEMMA ResendTypes == ASSUME TypeInv, NEW t \in Tabs, Resend(t) PROVE TypeInv'
  <1>0. Made' = Made /\ MadeFrames' = MadeFrames
    BY DEF Made, MadeFrames, Resend, doc
  <1>1. Current(t) \in Conns
    BY CurrentIn DEF Resend
  <1>2. <<Frame("update", ydoc[t])>> \in Seq(MadeFrames)
    BY FrameIn DEF TypeInv, Shapes
  <1>3. up' \in [Conns -> Seq(MadeFrames)] /\ \A c \in Conns \ {Current(t)} : up'[c] = up[c]
    BY <1>1, <1>2, SentShape DEF Resend
  <1>4. Shapes' /\ Stores' /\ Numbered' /\ Tied'
    BY <1>0 DEF TypeInv, Shapes, Stores, Numbered, Tied, Resend, doc, session, server, cluster,
           store
  <1>5. Flags'
    BY DEF TypeInv, Flags, Resend, session, server, cluster
  <1>6. Wires'
    BY <1>0, <1>3 DEF TypeInv, Wires, Resend, server
  <1>7. Blank'
    BY <1>3 DEF TypeInv, Blank, Resend, server
  <1>8. QED
    BY <1>4, <1>5, <1>6, <1>7 DEF TypeInv

LEMMA ConnectTypes ==
    ASSUME TypeInv, NEW t \in Tabs, NEW h \in Hosts, Connect(t, h) PROVE TypeInv'
  <1>0. Made' = Made /\ MadeFrames' = MadeFrames
    BY DEF Made, MadeFrames, Connect, doc
  <1> DEFINE k == <<t, nth[t] + 1>>
  <1>1. nth[t] + 1 \in 1..MaxConns /\ k \in Conns
    BY RoomToConnect DEF Connect
  <1>2. link[k] = "unused" /\ ~seat[k]
    BY <1>1 DEF TypeInv, Numbered, Blank, Shapes, Conns
  <1>3. nth' \in [Tabs -> 0..MaxConns]
    BY <1>1 DEF Connect, TypeInv, Shapes
  <1>4. /\ nth'[t] = nth[t] + 1 /\ \A s \in Tabs \ {t} : nth'[s] = nth[s]
        /\ link'[k] = "up" /\ \A c \in Conns \ {k} : link'[c] = link[c]
        /\ site'[k] = h /\ \A c \in Conns \ {k} : site'[c] = site[c]
    BY <1>1 DEF Connect, TypeInv, Shapes, Wires
  <1>5. Numbered'
    <2>1. SUFFICES ASSUME NEW s \in Tabs, NEW n \in 1..MaxConns
                   PROVE  link'[<<s, n>>] = "unused" <=> n > nth'[s]
      BY DEF Numbered
    <2>2. <<s, n>> \in Conns /\ n \in Nat /\ nth[s] \in Nat
      BY SyncAssumption DEF Conns, TypeInv, Shapes
    <2>3. link[<<s, n>>] = "unused" <=> n > nth[s]
      BY DEF TypeInv, Numbered
    <2>4. CASE s # t
      BY <1>4, <2>2, <2>3, <2>4
    <2>5. CASE s = t /\ n = nth[t] + 1
      BY <1>4, <2>2, <2>5
    <2>6. CASE s = t /\ n # nth[t] + 1
      BY <1>4, <2>2, <2>3, <2>6
    <2>7. QED
      BY <2>4, <2>5, <2>6
  <1>6. Shapes' /\ Stores'
    BY <1>0, <1>3 DEF TypeInv, Shapes, Stores, Connect, doc, cluster, store
  <1>7. Flags'
    BY DEF TypeInv, Flags, Connect, cluster
  <1>8. Wires'
    BY <1>0, <1>1 DEF TypeInv, Wires, Connect
  <1>9. Tied'
    <2>1. \A s \in Tabs : state'[s] # "off" => nth'[s] > 0
      BY <1>1, <1>4 DEF TypeInv, Tied, Connect, Shapes
    <2>2. \A s \in Tabs : state'[s] = "synced" => queue'[s] = <<>>
      BY DEF TypeInv, Tied, Connect, Shapes
    <2>3. \A c \in Conns : link'[c] = "up" => site'[c] \in Hosts
      BY <1>4 DEF TypeInv, Tied
    <2>4. \A c \in Conns : seat'[c] => site'[c] \in alive'
      BY <1>2, <1>4 DEF TypeInv, Tied, Connect, cluster
    <2>5. QED
      BY <2>1, <2>2, <2>3, <2>4 DEF Tied
  <1>10. Blank'
    BY <1>2, <1>4 DEF TypeInv, Blank, Connect
  <1>11. QED
    BY <1>5, <1>6, <1>7, <1>8, <1>9, <1>10 DEF TypeInv

LEMMA OnCloseTypes == ASSUME TypeInv, NEW t \in Tabs, OnClose(t) PROVE TypeInv'
  <1>0. Made' = Made /\ MadeFrames' = MadeFrames
    BY DEF Made, MadeFrames, OnClose, doc
  <1>1. Current(t) \in Conns
    BY CurrentIn DEF OnClose
  <1>2. down' \in [Conns -> Seq(MadeFrames)]
    BY <1>1, EmptySeq DEF OnClose, TypeInv, Wires
  <1>3. Shapes' /\ Stores' /\ Numbered' /\ Tied'
    BY <1>0 DEF TypeInv, Shapes, Stores, Numbered, Tied, OnClose, doc, server, cluster, store
  <1>4. Flags'
    BY DEF TypeInv, Flags, OnClose, server, cluster
  <1>5. Wires'
    BY <1>0, <1>2 DEF TypeInv, Wires, OnClose, server
  <1>6. Blank'
    BY <1>1 DEF TypeInv, Blank, Wires, OnClose, server
  <1>7. QED
    BY <1>3, <1>4, <1>5, <1>6 DEF TypeInv

LEMMA ToldShape ==
    ASSUME TypeInv, NEW who \in SUBSET Conns, NEW f \in MadeFrames
    PROVE  /\ Told(who, f) \in [Conns -> Seq(MadeFrames)]
           /\ \A k \in Conns : Told(who, f)[k] =
                  IF k \in who THEN Append(down[k], f) ELSE down[k]
  <1>1. \A k \in Conns : down[k] \in Seq(MadeFrames) /\ Append(down[k], f) \in Seq(MadeFrames)
    BY AppendProperties DEF TypeInv, Wires
  <1>2. QED
    BY <1>1 DEF Told

LEMMA TellOne ==
    ASSUME TypeInv, NEW k \in Conns, NEW f \in MadeFrames
    PROVE  /\ Told({k}, f) \in [Conns -> Seq(MadeFrames)]
           /\ Told({k}, f)[k] = Append(down[k], f)
           /\ \A c \in Conns \ {k} : Told({k}, f)[c] = down[c]
  <1>1. Told({k}, f) = [down EXCEPT ![k] = Append(@, f)]
    BY DEF Told, TypeInv, Wires
  <1>2. down[k] \in Seq(MadeFrames) /\ Append(down[k], f) \in Seq(MadeFrames)
    BY AppendProperties DEF TypeInv, Wires
  <1>3. QED
    BY <1>1, <1>2 DEF TypeInv, Wires

\* A task that runs has its seat, on an instance that has the room.
LEMMA SeatedSite ==
    ASSUME TypeInv, NEW k \in Conns, seat[k]
    PROVE  /\ site[k] \in Hosts /\ site[k] \in alive /\ link[k] # "unused"
           /\ room[site[k]] \in SUBSET Made
  BY DEF TypeInv, Tied, Stores, Blank

LEMMA JobSeated ==
    ASSUME TypeInv, NEW k \in Conns, job[k].step # "none"
    PROVE  seat[k] /\ job[k].ids \in SUBSET Made
  BY DEF TypeInv, Blank, Wires, Idle

LEMMA JoinTypes == ASSUME TypeInv, NEW k \in Conns, Join(k) PROVE TypeInv'
  <1>0. Made' = Made /\ MadeFrames' = MadeFrames
    BY DEF Made, MadeFrames, Join, doc
  <1> DEFINE h == site[k]
             document == IF h \in alive THEN room[h] ELSE Stored
             f == Frame("step1", Integrated(document))
  <1>1. link[k] = "up" /\ ~seat[k] /\ h \in Hosts
    BY DEF Join, TypeInv, Tied
  <1>2. document \in SUBSET Made /\ f \in MadeFrames
    <2>1. document \in SUBSET Made
      BY <1>1 DEF TypeInv, Stores, Stored
    <2>2. Integrated(document) \in SUBSET Made
      BY <2>1 DEF Integrated
    <2>3. QED
      BY <2>1, <2>2, FrameIn
  <1>3. down' = Told({k}, f)
    BY DEF Join
  <1>4. /\ down' \in [Conns -> Seq(MadeFrames)]
        /\ \A c \in Conns \ {k} : down'[c] = down[c]
    BY <1>2, <1>3, TellOne
  <1>5. Shapes' /\ Numbered'
    BY <1>0 DEF TypeInv, Shapes, Numbered, Join, doc, session
  <1>6. Flags'
    BY DEF TypeInv, Flags, Join, session
  <1>7. Wires'
    BY <1>0, <1>4 DEF TypeInv, Wires, Join
  <1>8. room' = [room EXCEPT ![h] = document]
    BY DEF Join
  <1>9. Stores'
    BY <1>0, <1>1, <1>2, <1>8 DEF TypeInv, Stores, Join, store
  <1>10. Tied'
    BY <1>1 DEF TypeInv, Tied, Flags, Join, doc, session
  <1>11. Blank'
    BY <1>1, <1>4 DEF TypeInv, Blank, Flags, Join
  <1>12. QED
    BY <1>5, <1>6, <1>7, <1>9, <1>10, <1>11 DEF TypeInv

LEMMA ServerReceiveTypes == ASSUME TypeInv, NEW k \in Conns, ServerReceive(k) PROVE TypeInv'
  <1>0. Made' = Made /\ MadeFrames' = MadeFrames
    BY DEF Made, MadeFrames, ServerReceive, doc
  <1> DEFINE f == Head(up[k])
             h == site[k]
  <1>1. seat[k] /\ h \in Hosts /\ room[h] \in SUBSET Made /\ link[k] # "unused"
    BY SeatedSite DEF ServerReceive
  <1>2. up[k] # <<>> /\ f \in MadeFrames /\ f.ids \in SUBSET Made /\ Tail(up[k]) \in Seq(MadeFrames)
    BY HeadShape DEF ServerReceive
  <1>3. /\ up' \in [Conns -> Seq(MadeFrames)]
        /\ \A c \in Conns \ {k} : up'[c] = up[c]
    BY <1>2 DEF ServerReceive, TypeInv, Wires
  <1>4. /\ down' \in [Conns -> Seq(MadeFrames)]
        /\ \A c \in Conns : ~seat[c] => down'[c] = down[c]
    <2>1. CASE Backfill(k, f)
      <3>1. Diff(room[h], f.ids) \in SUBSET Made
        BY <1>1 DEF Diff
      <3>2. Frame("step2", Diff(room[h], f.ids)) \in MadeFrames
        BY <3>1, FrameIn
      <3>3. QED
        BY <1>1, <2>1, <3>2, TellOne DEF Backfill
    <2>2. CASE Absorb(k, f)
      BY <2>2 DEF Absorb, TypeInv, Wires
    <2>3. CASE Apply(k, f)
      <3>1. Others(k) \in SUBSET Conns /\ \A c \in Others(k) : seat[c]
        BY DEF Others, Members
      <3>2. down' = Told(Others(k), f)
        BY <2>3 DEF Apply
      <3> HIDE DEF f
      <3>3. f \in MadeFrames /\ Others(k) \in SUBSET Conns
        BY <1>2, <3>1
      <3>4. /\ Told(Others(k), f) \in [Conns -> Seq(MadeFrames)]
            /\ \A c \in Conns : Told(Others(k), f)[c] =
                    IF c \in Others(k) THEN Append(down[c], f) ELSE down[c]
        BY <3>3, ToldShape
      <3>5. QED
        BY <3>1, <3>2, <3>4
    <2>4. QED
      BY <2>1, <2>2, <2>3 DEF ServerReceive
  <1>5. room' \in [Hosts -> SUBSET Made] /\ silent' \in SUBSET Made
    <2>1. room[h] \cup f.ids \in SUBSET Made /\ silent \in SUBSET Made
      BY <1>1, <1>2 DEF TypeInv, Stores
    <2>2. QED
      BY <1>1, <1>2, <2>1 DEF ServerReceive, Backfill, Absorb, Apply, TypeInv, Stores
  <1>6. /\ job' \in [Conns -> [step : {"none", "publish", "save"}, ids : SUBSET Made]]
        /\ \A c \in Conns \ {k} : job'[c] = job[c]
    <2>1. CASE job' = job
      BY <2>1 DEF TypeInv, Wires
    <2>2. CASE job' = [job EXCEPT ![k] = [step |-> "publish", ids |-> f.ids]]
      <3>1. [step |-> "publish", ids |-> f.ids]
               \in [step : {"none", "publish", "save"}, ids : SUBSET Made]
        BY <1>2
      <3>2. QED
        BY <2>2, <3>1 DEF TypeInv, Wires
    <2>3. QED
      BY <2>1, <2>2 DEF ServerReceive, Backfill, Absorb, Apply
  <1>7. Shapes' /\ Numbered' /\ Tied'
    BY <1>0 DEF TypeInv, Shapes, Numbered, Tied, ServerReceive, doc, session
  <1>8. Flags'
    BY DEF TypeInv, Flags, ServerReceive, session
  <1>9. Wires'
    BY <1>0, <1>3, <1>4, <1>6 DEF TypeInv, Wires, ServerReceive
  <1>10. Stores'
    BY <1>0, <1>5 DEF TypeInv, Stores, ServerReceive, store
  <1>11. Blank'
    BY <1>1, <1>3, <1>4, <1>6 DEF TypeInv, Blank, ServerReceive
  <1>12. QED
    BY <1>7, <1>8, <1>9, <1>10, <1>11 DEF TypeInv

LEMMA PublishTypes == ASSUME TypeInv, NEW k \in Conns, Publish(k) PROVE TypeInv'
  <1>0. Made' = Made /\ MadeFrames' = MadeFrames
    BY DEF Made, MadeFrames, Publish, doc
  <1>1. seat[k] /\ job[k].ids \in SUBSET Made
    BY JobSeated DEF Publish
  <1>2. job' = [job EXCEPT ![k] = [step |-> "save", ids |-> job[k].ids]]
    <2>1. job \in [Conns -> [step : {"none", "publish", "save"}, ids : SUBSET Made]]
      BY DEF TypeInv, Wires
    <2>2. job' = [job EXCEPT ![k].step = "save"]
      BY DEF Publish
    <2>3. [job[k] EXCEPT !.step = "save"] = [step |-> "save", ids |-> job[k].ids]
      BY <2>1
    <2>4. QED
      BY <2>1, <2>2, <2>3
  <1>3. /\ job' \in [Conns -> [step : {"none", "publish", "save"}, ids : SUBSET Made]]
        /\ \A c \in Conns \ {k} : job'[c] = job[c]
    BY <1>1, <1>2 DEF TypeInv, Wires
  <1>4. inbox' \in [Hosts -> Seq(SUBSET Made)]
    <2>1. \A h \in Hosts : Append(inbox[h], job[k].ids) \in Seq(SUBSET Made)
      BY <1>1, AppendProperties DEF TypeInv, Stores
    <2>2. QED
      BY <2>1 DEF Publish, TypeInv, Stores
  <1>5. silent' \in SUBSET Made /\ mishaps' \in 0..MaxMishaps
    BY <1>1, SyncAssumption DEF Publish, Mishap, TypeInv, Stores
  <1>6. Shapes' /\ Numbered' /\ Tied'
    BY <1>0 DEF TypeInv, Shapes, Numbered, Tied, Publish, doc, session, wire
  <1>7. Flags'
    BY DEF TypeInv, Flags, Publish, session
  <1>8. Wires'
    BY <1>0, <1>3 DEF TypeInv, Wires, Publish, wire
  <1>9. Stores'
    BY <1>0, <1>4, <1>5 DEF TypeInv, Stores, Publish, store
  <1>10. Blank'
    BY <1>1, <1>3 DEF TypeInv, Blank, Publish, wire
  <1>11. QED
    BY <1>6, <1>7, <1>8, <1>9, <1>10 DEF TypeInv

LEMMA IdleJob == Idle \in [step : {"none", "publish", "save"}, ids : SUBSET Made]
  BY DEF Idle

LEMMA SaveTypes == ASSUME TypeInv, NEW k \in Conns, Save(k) PROVE TypeInv'
  <1>0. Made' = Made /\ MadeFrames' = MadeFrames
    BY DEF Made, MadeFrames, Save, doc
  <1>1. seat[k] /\ job[k].ids \in SUBSET Made /\ link[k] # "unused"
    BY JobSeated, SeatedSite DEF Save
  <1>2. Frame("persist-ok", {}) \in MadeFrames
    BY FrameIn
  <1>3. /\ down' \in [Conns -> Seq(MadeFrames)]
        /\ \A c \in Conns \ {k} : down'[c] = down[c]
    BY <1>2, TellOne DEF Save, TypeInv, Wires
  <1>4. /\ job' \in [Conns -> [step : {"none", "publish", "save"}, ids : SUBSET Made]]
        /\ \A c \in Conns \ {k} : job'[c] = job[c]
    BY IdleJob DEF Save, TypeInv, Wires
  <1>5. Shapes' /\ Numbered' /\ Tied'
    BY <1>0 DEF TypeInv, Shapes, Numbered, Tied, Save, doc, session, cluster
  <1>6. Flags'
    BY DEF TypeInv, Flags, Save, session, cluster
  <1>7. Wires'
    BY <1>0, <1>3, <1>4 DEF TypeInv, Wires, Save
  <1>8. Stores'
    BY <1>0, <1>1 DEF TypeInv, Stores, Save, cluster
  <1>9. Blank'
    BY <1>1, <1>3, <1>4 DEF TypeInv, Blank, Save
  <1>10. QED
    BY <1>5, <1>6, <1>7, <1>8, <1>9 DEF TypeInv

LEMMA SaveFailsTypes == ASSUME TypeInv, NEW k \in Conns, SaveFails(k) PROVE TypeInv'
  <1>0. Made' = Made /\ MadeFrames' = MadeFrames
    BY DEF Made, MadeFrames, SaveFails, doc
  <1>1. seat[k] /\ link[k] # "unused" /\ site[k] \in Hosts
    BY JobSeated, SeatedSite DEF SaveFails
  <1>2. Frame("persist-failed", {}) \in MadeFrames
    BY FrameIn
  <1>3. /\ down' \in [Conns -> Seq(MadeFrames)]
        /\ \A c \in Conns \ {k} : down'[c] = down[c]
    BY <1>2, TellOne DEF SaveFails
  <1>4. /\ job' \in [Conns -> [step : {"none", "publish", "save"}, ids : SUBSET Made]]
        /\ \A c \in Conns \ {k} : job'[c] = job[c]
    BY IdleJob DEF SaveFails, TypeInv, Wires
  <1>5. Shapes' /\ Numbered' /\ Tied'
    BY <1>0 DEF TypeInv, Shapes, Numbered, Tied, SaveFails, doc, session
  <1>6. Flags'
    BY <1>1 DEF TypeInv, Flags, SaveFails, Marked, session
  <1>7. Wires'
    BY <1>0, <1>3, <1>4 DEF TypeInv, Wires, SaveFails
  <1>8. Stores'
    BY <1>0, SyncAssumption DEF TypeInv, Stores, SaveFails, Mishap, store
  <1>9. Blank'
    BY <1>1, <1>3, <1>4 DEF TypeInv, Blank, SaveFails
  <1>10. QED
    BY <1>5, <1>6, <1>7, <1>8, <1>9 DEF TypeInv

LEMMA LeaveTypes == ASSUME TypeInv, NEW k \in Conns, Leave(k) PROVE TypeInv'
  <1>0. Made' = Made /\ MadeFrames' = MadeFrames
    BY DEF Made, MadeFrames, Leave, doc
  <1>1. seat[k] /\ link[k] = "cut"
    BY DEF Leave
  <1>2. /\ job' \in [Conns -> [step : {"none", "publish", "save"}, ids : SUBSET Made]]
        /\ job'[k] = Idle /\ \A c \in Conns \ {k} : job'[c] = job[c]
    BY IdleJob DEF Leave, TypeInv, Wires
  <1>3. up' \in [Conns -> Seq(MadeFrames)] /\ \A c \in Conns \ {k} : up'[c] = up[c]
    BY EmptySeq DEF Leave, TypeInv, Wires
  <1>4. silent' \in SUBSET Made
    BY DEF Leave, TypeInv, Wires, Stores
  <1>5. Shapes' /\ Numbered'
    BY <1>0 DEF TypeInv, Shapes, Numbered, Leave, doc, session
  <1>6. Flags'
    BY DEF TypeInv, Flags, Leave, session, cluster
  <1>7. Wires'
    BY <1>0, <1>2, <1>3 DEF TypeInv, Wires, Leave
  <1>8. Stores'
    BY <1>0, <1>4 DEF TypeInv, Stores, Leave, cluster, store
  <1>9. Tied'
    BY <1>1 DEF TypeInv, Tied, Flags, Wires, Leave, doc, session, cluster
  <1>10. Blank'
    BY <1>1, <1>2, <1>3 DEF TypeInv, Blank, Flags, Leave
  <1>11. QED
    BY <1>5, <1>6, <1>7, <1>8, <1>9, <1>10 DEF TypeInv

LEMMA CompactTypes == ASSUME TypeInv, NEW h \in Hosts, Compact(h) PROVE TypeInv'
  <1>0. Made' = Made /\ MadeFrames' = MadeFrames
    BY DEF Made, MadeFrames, Compact, doc
  <1>1. \A k \in Conns : seat[k] => site[k] # h
    BY DEF Compact, Members
  <1>2. room[h] \in SUBSET Made /\ Stored \in SUBSET Made
    BY DEF TypeInv, Stores, Stored
  <1>3. /\ room' \in [Hosts -> SUBSET Made] /\ snap' \in SUBSET Made /\ rows' \in SUBSET Made
        /\ pruned' \in SUBSET Made /\ silent' \in SUBSET Made
    BY <1>2 DEF Compact, TypeInv, Stores, store
  <1>4. Shapes' /\ Numbered' /\ Blank'
    BY <1>0 DEF TypeInv, Shapes, Numbered, Blank, Compact, doc, session, wire, server
  <1>5. Flags'
    BY DEF TypeInv, Flags, Compact, session, server
  <1>6. Wires'
    BY <1>0 DEF TypeInv, Wires, Compact, wire, server
  <1>7. Stores'
    BY <1>0, <1>3 DEF TypeInv, Stores, Compact
  <1>8. Tied'
    BY <1>1 DEF TypeInv, Tied, Compact, doc, session, wire, server
  <1>9. QED
    BY <1>4, <1>5, <1>6, <1>7, <1>8 DEF TypeInv

LEMMA InboxShape ==
    ASSUME TypeInv, NEW h \in Hosts, inbox[h] # <<>>
    PROVE  /\ Head(inbox[h]) \in SUBSET Made
           /\ [inbox EXCEPT ![h] = Tail(@)] \in [Hosts -> Seq(SUBSET Made)]
  <1>1. inbox[h] \in Seq(SUBSET Made)
    BY DEF TypeInv, Stores
  <1>2. Head(inbox[h]) \in SUBSET Made /\ Tail(inbox[h]) \in Seq(SUBSET Made)
    BY <1>1, HeadTailProperties
  <1>3. QED
    BY <1>2 DEF TypeInv, Stores

LEMMA MembersSeated ==
    ASSUME NEW h \in Hosts
    PROVE  Members(h) \in SUBSET Conns /\ \A k \in Members(h) : seat[k] /\ site[k] = h
  BY DEF Members

LEMMA FanoutTypes == ASSUME TypeInv, NEW h \in Hosts, Fanout(h) PROVE TypeInv'
  <1>0. Made' = Made /\ MadeFrames' = MadeFrames
    BY DEF Made, MadeFrames, Fanout, doc
  <1> DEFINE ids == Head(inbox[h])
  <1>1. ids \in SUBSET Made /\ inbox' \in [Hosts -> Seq(SUBSET Made)]
    BY InboxShape DEF Fanout
  <1>2. Frame("update", ids) \in MadeFrames
    BY <1>1, FrameIn
  <1>3. /\ down' \in [Conns -> Seq(MadeFrames)]
        /\ \A c \in Conns : ~seat[c] => down'[c] = down[c]
    <2>1. /\ Told(Members(h), Frame("update", ids)) \in [Conns -> Seq(MadeFrames)]
          /\ \A c \in Conns : ~seat[c] => Told(Members(h), Frame("update", ids))[c] = down[c]
      BY <1>2, MembersSeated, ToldShape
    <2>2. QED
      BY <2>1 DEF Fanout, TypeInv, Wires
  <1>4. room' \in [Hosts -> SUBSET Made] /\ silent' \in SUBSET Made
    BY <1>1 DEF Fanout, TypeInv, Stores
  <1>5. Shapes' /\ Numbered' /\ Tied'
    BY <1>0 DEF TypeInv, Shapes, Numbered, Tied, Fanout, doc, session, server
  <1>6. Flags'
    BY DEF TypeInv, Flags, Fanout, session, server
  <1>7. Wires'
    BY <1>0, <1>3 DEF TypeInv, Wires, Fanout, server
  <1>8. Stores'
    BY <1>0, <1>1, <1>4 DEF TypeInv, Stores, Fanout, store
  <1>9. Blank'
    BY <1>3 DEF TypeInv, Blank, Fanout, server
  <1>10. QED
    BY <1>5, <1>6, <1>7, <1>8, <1>9 DEF TypeInv

LEMMA LagTypes == ASSUME TypeInv, NEW h \in Hosts, Lag(h) PROVE TypeInv'
  <1>0. Made' = Made /\ MadeFrames' = MadeFrames
    BY DEF Made, MadeFrames, Lag, doc
  <1>1. Head(inbox[h]) \in SUBSET Made /\ inbox' \in [Hosts -> Seq(SUBSET Made)]
    BY InboxShape DEF Lag
  <1>2. Integrated(room[h]) \in SUBSET Made
    BY DEF TypeInv, Stores, Integrated
  <1>3. Frame("step1", Integrated(room[h])) \in MadeFrames
    BY <1>2, FrameIn
  <1>4. /\ down' \in [Conns -> Seq(MadeFrames)]
        /\ \A c \in Conns : ~seat[c] => down'[c] = down[c]
    BY <1>3, MembersSeated, ToldShape DEF Lag
  <1>5. Shapes' /\ Numbered' /\ Tied'
    BY <1>0 DEF TypeInv, Shapes, Numbered, Tied, Lag, doc, session, server
  <1>6. Flags'
    BY DEF TypeInv, Flags, Lag, session, server
  <1>7. Wires'
    BY <1>0, <1>4 DEF TypeInv, Wires, Lag, server
  <1>8. Stores'
    BY <1>0, <1>1, SyncAssumption DEF TypeInv, Stores, Lag, Mishap, store
  <1>9. Blank'
    BY <1>4 DEF TypeInv, Blank, Lag, server
  <1>10. QED
    BY <1>5, <1>6, <1>7, <1>8, <1>9 DEF TypeInv

LEMMA CutTypes == ASSUME TypeInv, NEW k \in Conns, Cut(k) PROVE TypeInv'
  <1>0. Made' = Made /\ MadeFrames' = MadeFrames
    BY DEF Made, MadeFrames, Cut, doc
  <1>1. /\ link' \in [Conns -> {"unused", "up", "cut"}]
        /\ \A c \in Conns : /\ link'[c] = "unused" <=> link[c] = "unused"
                            /\ link'[c] = "up" => link[c] = "up"
    BY DEF Cut, TypeInv, Wires
  <1>2. Shapes' /\ Tied'
    BY <1>0, <1>1 DEF TypeInv, Shapes, Tied, Cut, doc, session, server, cluster
  <1>3. Flags'
    BY DEF TypeInv, Flags, Cut, session, server, cluster
  <1>4. Wires'
    BY <1>0, <1>1 DEF TypeInv, Wires, Cut, server
  <1>5. Stores'
    BY <1>0, SyncAssumption DEF TypeInv, Stores, Cut, Mishap, cluster, store
  <1>6. Blank' /\ Numbered'
    BY <1>1 DEF TypeInv, Blank, Numbered, Conns, Cut, session, server
  <1>7. QED
    BY <1>2, <1>3, <1>4, <1>5, <1>6 DEF TypeInv

LEMMA CrashTypes == ASSUME TypeInv, NEW h \in Hosts, Crash(h) PROVE TypeInv'
  <1>0. Made' = Made /\ MadeFrames' = MadeFrames
    BY DEF Made, MadeFrames, Crash, doc
  <1> DEFINE here == {k \in Conns : site[k] = h}
  <1>1. \A k \in here : link[k] # "unused"
    BY SyncAssumption DEF TypeInv, Blank
  <1>2. /\ link' \in [Conns -> {"unused", "up", "cut"}]
        /\ \A c \in Conns : /\ link'[c] = "unused" <=> link[c] = "unused"
                            /\ link'[c] = "up" => link[c] = "up" /\ site[c] # h
    BY <1>1 DEF Crash, TypeInv, Wires
  <1>3. up' \in [Conns -> Seq(MadeFrames)] /\ \A c \in Conns : up'[c] \in {up[c], <<>>}
    BY EmptySeq DEF Crash, TypeInv, Wires
  <1>4. /\ job' \in [Conns -> [step : {"none", "publish", "save"}, ids : SUBSET Made]]
        /\ \A c \in Conns : job'[c] \in {job[c], Idle} /\ (c \in here => job'[c] = Idle)
    BY IdleJob DEF Crash, TypeInv, Wires
  <1>5. /\ site' \in [Conns -> Hosts \cup {Nowhere}]
        /\ \A c \in Conns : site'[c] = IF c \in here THEN Nowhere ELSE site[c]
    BY DEF Crash, TypeInv, Wires
  <1>6. /\ seat' \in [Conns -> BOOLEAN] /\ failed' \in [Conns -> BOOLEAN]
        /\ \A c \in Conns : seat'[c] <=> seat[c] /\ c \notin here
    BY DEF Crash, TypeInv, Flags
  <1>7. silent' \in SUBSET Made
    <2>1. room[h] \in SUBSET Made /\ silent \in SUBSET Made
      BY DEF TypeInv, Stores
    <2>2. \A k \in here : job[k].ids \in SUBSET Made
      BY DEF TypeInv, Wires
    <2>3. \A i \in DOMAIN inbox[h] : inbox[h][i] \in SUBSET Made
      BY LenProperties, ElementOfSeq DEF TypeInv, Stores
    <2> DEFINE A == UNION {job[k].ids : k \in here}
               B == UNION {inbox[h][i] : i \in DOMAIN inbox[h]}
               C == room[h] \ Stored
    <2>4. A \in SUBSET Made /\ B \in SUBSET Made /\ C \in SUBSET Made
      <3>1. \A x \in A : x \in Made
        BY <2>2
      <3>2. \A x \in B : x \in Made
        BY <2>3
      <3>3. C \in SUBSET Made
        BY <2>1
      <3> HIDE DEF A, B, C
      <3>4. A \in SUBSET Made /\ B \in SUBSET Made
        BY <3>1, <3>2
      <3>5. QED
        BY <3>3, <3>4
    <2>5. silent' = silent \cup C \cup A \cup B
      BY DEF Crash
    <2> HIDE DEF A, B, C
    <2>6. QED
      BY <2>1, <2>4, <2>5
  <1>8. inbox' \in [Hosts -> Seq(SUBSET Made)]
    BY EmptySeq DEF Crash, TypeInv, Stores
  <1>9. Shapes' /\ Numbered'
    BY <1>0, <1>2 DEF TypeInv, Shapes, Numbered, Conns, Crash, doc, session
  <1>10. Flags'
    BY <1>6 DEF TypeInv, Flags, Crash, session
  <1>11. Wires'
    BY <1>0, <1>2, <1>3, <1>4, <1>5 DEF TypeInv, Wires, Crash
  <1>12. Stores'
    BY <1>0, <1>7, <1>8, SyncAssumption DEF TypeInv, Stores, Crash, Mishap, store
  <1>13. Tied'
    <2>1. \A c \in Conns : link'[c] = "up" => site'[c] \in Hosts
      BY <1>2, <1>5 DEF TypeInv, Tied
    <2>2. \A c \in Conns : seat'[c] => site'[c] \in alive'
      BY <1>5, <1>6 DEF TypeInv, Tied, Crash
    <2>3. QED
      BY <2>1, <2>2 DEF TypeInv, Tied, Crash, doc, session
  <1>14. Blank'
    BY <1>2, <1>3, <1>4, <1>5, <1>6 DEF TypeInv, Blank, Crash
  <1>15. QED
    BY <1>9, <1>10, <1>11, <1>12, <1>13, <1>14 DEF TypeInv

LEMMA TypesStep == TypeInv /\ [Next]_vars => TypeInv'
  <1> SUFFICES ASSUME TypeInv, [Next]_vars PROVE TypeInv'
    OBVIOUS
  <1>1. CASE UNCHANGED vars
    <2>1. Made' = Made /\ MadeFrames' = MadeFrames
      BY <1>1 DEF vars, Made, MadeFrames
    <2>2. QED
      BY <1>1, <2>1 DEF vars, TypeInv, Shapes, Flags, Wires, Stores, Numbered, Tied, Blank
  <1>2. CASE Next
    BY <1>2, TypeTypes, SendDueTypes, ReceiveTypes, ShowTypes, ResendTypes, OnCloseTypes,
       ConnectTypes, JoinTypes, ServerReceiveTypes, PublishTypes, SaveTypes,
       SaveFailsTypes, LeaveTypes, CutTypes, CompactTypes, FanoutTypes, LagTypes,
       CrashTypes DEF Next
  <1>3. QED
    BY <1>1, <1>2

\* No step of a tab, an instance or the network leaves the typed states, in
\* which nothing refers to an edit nobody has made yet.
THEOREM TypeInvariance == Spec => []TypeInv
  BY InitTypes, TypesStep, PTL DEF Spec

\* Whatever is typed, sent, lost and restarted, the state is well formed.
THEOREM TypeCorrect == Spec => []TypeOK
  BY TypeInvariance, TypesImplyTypeOK, PTL
-----------------------------------------------------------------------------
(* The document in a tab.                                                  *)

\* The baseline of a fold lags behind both documents it relates, and the model
\* holds all that was typed, with whatever its authors did before.
TabInv ==
    /\ erased = {}
    /\ \A t \in Tabs :
         /\ base[t] \subseteq view[t]
         /\ base[t] \subseteq ydoc[t]
         /\ \A e \in view[t] : \A n \in 1..e[2] : <<e[1], n>> \in view[t]
         /\ \A n \in 1..typed[t] : <<t, n>> \in view[t]

LEMMA InitTab == Init => TabInv
  BY DEF Init, TabInv

\* Every action but four leaves the documents of the tabs alone.
LEMMA DocumentSteps ==
    ASSUME Next
    PROVE  \/ UNCHANGED <<doc, queue, due, show, erased>>
           \/ \E t \in Tabs : Type(t) \/ SendDue(t) \/ ClientReceive(t) \/ ShowRemote(t)
  <1> DEFINE Still == UNCHANGED <<doc, queue, due, show, erased>>
  <1>1. ASSUME NEW t \in Tabs, Resend(t) \/ OnClose(t) \/ \E h \in Hosts : Connect(t, h)
        PROVE  Still
    BY <1>1 DEF Resend, OnClose, Connect, doc, session
  <1>2. ASSUME NEW k \in Conns, Join(k) \/ ServerReceive(k) \/ Publish(k) \/ Save(k)
        PROVE  Still
    BY <1>2 DEF Join, ServerReceive, Publish, Save, doc, session
  <1>3. ASSUME NEW k \in Conns, SaveFails(k) \/ Leave(k) \/ Cut(k)
        PROVE  Still
    BY <1>3 DEF SaveFails, Leave, Cut, doc, session
  <1>4. ASSUME NEW h \in Hosts, Compact(h) \/ Fanout(h) \/ Lag(h) \/ Crash(h)
        PROVE  Still
    BY <1>4 DEF Compact, Fanout, Lag, Crash, doc, session
  <1> HIDE DEF Still
  <1>5. Still \/ \E t \in Tabs : Type(t) \/ SendDue(t) \/ ClientReceive(t) \/ ShowRemote(t)
    BY <1>1, <1>2, <1>3, <1>4 DEF Next
  <1>6. QED
    BY <1>5 DEF Still

LEMMA FoldKeeps ==
    ASSUME TypeInv, TabInv, NEW t \in Tabs
    PROVE  /\ Gone(t) = {}
           /\ Folded(t) = ydoc[t] \cup view[t]
           /\ view[t] \subseteq Integrated(Folded(t))
           /\ Integrated(Folded(t)) \subseteq Folded(t)
           /\ \A e \in Integrated(Folded(t)) : \A n \in 1..e[2] :
                 <<e[1], n>> \in Integrated(Folded(t))
  <1>1. Gone(t) = {}
    BY DEF Gone, TabInv
  <1>2. Folded(t) = ydoc[t] \cup view[t]
    BY <1>1 DEF Folded, Fresh, TabInv
  <1>3. view[t] \subseteq Integrated(Folded(t))
    BY <1>2 DEF Integrated, TabInv
  <1>4. Integrated(Folded(t)) \subseteq Folded(t)
    BY DEF Integrated
  <1>5. ASSUME NEW e \in Integrated(Folded(t)), NEW n \in 1..e[2]
        PROVE  <<e[1], n>> \in Integrated(Folded(t))
    <2>1. e \in Ids /\ e[2] \in 1..MaxEdits
      BY <1>4, FoldShapes DEF Made, Ids
    <2>2. \A m \in 1..n : m \in 1..e[2]
      BY <2>1, SyncAssumption
    <2>3. QED
      BY <2>2 DEF Integrated
  <1>6. QED
    BY <1>1, <1>2, <1>3, <1>4, <1>5

LEMMA TypeTab == ASSUME TypeInv, TabInv, NEW t \in Tabs, Type(t) PROVE TabInv'
  <1>1. typed[t] \in Nat
    BY SyncAssumption DEF TypeInv, Shapes
  <1> DEFINE new == <<t, typed[t] + 1>>
  <1>2. /\ typed' = [typed EXCEPT ![t] = @ + 1] /\ typed \in [Tabs -> 0..MaxEdits]
        /\ view' = [view EXCEPT ![t] = @ \cup {new}] /\ view \in [Tabs -> SUBSET Made]
        /\ base' = base /\ ydoc' = ydoc /\ erased' = erased
    BY DEF Type, TypeInv, Shapes
  <1>3. view'[t] = view[t] \cup {new} /\ typed'[t] = typed[t] + 1
    BY <1>2
  <1>4. \A n \in 1..(typed[t] + 1) : <<t, n>> \in view'[t]
    <2>1. \A n \in 1..(typed[t] + 1) : n \in 1..typed[t] \/ n = typed[t] + 1
      BY <1>1
    <2>2. QED
      BY <1>3, <2>1 DEF TabInv
  <1>5. ASSUME NEW e \in view'[t], NEW n \in 1..e[2] PROVE <<e[1], n>> \in view'[t]
    <2>1. CASE e \in view[t]
      <3>1. <<e[1], n>> \in view[t]
        BY <2>1 DEF TabInv
      <3>2. QED
        BY <1>3, <3>1
    <2>2. CASE e = new
      <3>1. e[1] = t /\ e[2] = typed[t] + 1
        BY <2>2
      <3>2. QED
        BY <1>4, <3>1
    <2>3. QED
      BY <1>3, <2>1, <2>2
  <1>6. \A s \in Tabs \ {t} : view'[s] = view[s] /\ typed'[s] = typed[s]
    BY <1>2
  <1>7. QED
    BY <1>2, <1>3, <1>4, <1>5, <1>6 DEF TabInv

LEMMA SendTab == ASSUME TypeInv, TabInv, NEW t \in Tabs, SendDue(t) PROVE TabInv'
  <1>1. Gone(t) = {} /\ Folded(t) = ydoc[t] \cup view[t]
    BY FoldKeeps
  <1>2. typed' = typed /\ view' = view /\ erased' = {}
    BY <1>1 DEF SendDue, FoldAndFlush, TabInv
  <1>3. base' = [base EXCEPT ![t] = view[t]] /\ ydoc' = [ydoc EXCEPT ![t] = ydoc[t] \cup view[t]]
    BY <1>1 DEF SendDue, Rebased
  <1>4. QED
    BY <1>2, <1>3 DEF TabInv, TypeInv, Shapes

LEMMA ReceiveTab == ASSUME TypeInv, TabInv, NEW t \in Tabs, ClientReceive(t) PROVE TabInv'
  <1> DEFINE f == Head(down[Current(t)])
  <1>1. typed' = typed /\ view' = view
    BY DEF ClientReceive
  <1>2. CASE Merge(t, f)
    <2>1. Gone(t) = {} /\ Folded(t) = ydoc[t] \cup view[t]
      BY FoldKeeps
    <2>2. erased' = {}
      BY <1>2, <2>1 DEF Merge, FoldAndFlush, TabInv
    <2>3. /\ base' = [base EXCEPT ![t] = view[t]]
          /\ ydoc' = [ydoc EXCEPT ![t] = ydoc[t] \cup view[t] \cup f.ids]
      BY <1>2, <2>1 DEF Merge, Rebased
    <2> HIDE DEF f
    <2>4. QED
      BY <1>1, <2>2, <2>3 DEF TabInv, TypeInv, Shapes
  <1>3. CASE Answer(t, f) \/ Badge(t, f)
    BY <1>1, <1>3 DEF Answer, Badge, TabInv
  <1>4. QED
    BY <1>2, <1>3 DEF ClientReceive

LEMMA ShowTab == ASSUME TypeInv, TabInv, NEW t \in Tabs, ShowRemote(t) PROVE TabInv'
  <1> DEFINE merged == Integrated(Folded(t))
  <1>1. /\ Gone(t) = {} /\ Folded(t) = ydoc[t] \cup view[t]
        /\ view[t] \subseteq merged /\ merged \subseteq Folded(t)
        /\ \A e \in merged : \A n \in 1..e[2] : <<e[1], n>> \in merged
    BY FoldKeeps
  <1>2. typed' = typed /\ erased' = {}
    BY <1>1 DEF ShowRemote, FoldAndFlush, TabInv
  <1>3. /\ base' = [base EXCEPT ![t] = merged] /\ view' = [view EXCEPT ![t] = merged]
        /\ ydoc' = [ydoc EXCEPT ![t] = Folded(t)]
    BY DEF ShowRemote
  <1> HIDE DEF merged
  <1>4. base'[t] = merged /\ view'[t] = merged /\ ydoc'[t] = Folded(t)
    BY <1>3 DEF TypeInv, Shapes
  <1>5. \A s \in Tabs \ {t} : base'[s] = base[s] /\ view'[s] = view[s] /\ ydoc'[s] = ydoc[s]
    BY <1>3 DEF TypeInv, Shapes
  <1>6. QED
    BY <1>1, <1>2, <1>4, <1>5 DEF TabInv

LEMMA TabStep == TypeInv /\ TabInv /\ [Next]_vars => TabInv'
  <1> SUFFICES ASSUME TypeInv, TabInv, [Next]_vars PROVE TabInv'
    OBVIOUS
  <1>1. CASE UNCHANGED <<doc, queue, due, show, erased>>
    BY <1>1 DEF doc, TabInv
  <1>2. CASE UNCHANGED vars
    BY <1>1, <1>2 DEF vars, doc
  <1>3. CASE Next
    BY <1>1, <1>3, DocumentSteps, TypeTab, SendTab, ReceiveTab, ShowTab
  <1>4. QED
    BY <1>2, <1>3

\* Two tabs never undo each other: sync_model_to_ydoc_diffed, called with the
\* baseline of last_synced_doc, deletes no block that came from a peer.
THEOREM FoldsOnlyAdd == Spec => []NothingErased
  <1>1. TabInv => NothingErased
    BY DEF TabInv, NothingErased
  <1>2. QED
    BY <1>1, TypeInvariance, InitTypes, TypesStep, InitTab, TabStep, PTL DEF Spec

LEMMA ViewGrows ==
    TypeInv /\ TabInv /\ [Next]_vars => [\A t \in Tabs : view[t] \subseteq view'[t]]_vars
  <1> SUFFICES ASSUME TypeInv, TabInv, Next
               PROVE  \A t \in Tabs : view[t] \subseteq view'[t]
    OBVIOUS
  <1>1. CASE UNCHANGED <<doc, queue, due, show, erased>>
    BY <1>1 DEF doc
  <1>2. ASSUME NEW t \in Tabs, Type(t) \/ SendDue(t) \/ ClientReceive(t)
        PROVE  \A s \in Tabs : view[s] \subseteq view'[s]
    BY <1>2 DEF Type, SendDue, ClientReceive, TypeInv, Shapes
  <1>3. ASSUME NEW t \in Tabs, ShowRemote(t)
        PROVE  \A s \in Tabs : view[s] \subseteq view'[s]
    BY <1>3, FoldKeeps DEF ShowRemote, TypeInv, Shapes
  <1>4. QED
    BY <1>1, <1>2, <1>3, DocumentSteps

\* What an editor has once shown it keeps showing: the model that the receive
\* debounce swaps in holds every keystroke typed before it.
THEOREM NothingShownVanishes == Spec => NothingVanishes
  BY ViewGrows, InitTypes, TypesStep, InitTab, TabStep, PTL DEF Spec, NothingVanishes
-----------------------------------------------------------------------------
(* What a quiet tab and its room agree on.                                 *)

\* Between debounces the editor, its baseline and the document agree; during
\* the send debounce the editor is ahead by what was typed.
Folding(t) ==
    /\ \A e \in view[t] : e \in base[t] \/ e[1] = t
    /\ ~due[t] => view[t] = base[t]
    /\ ~show[t] => Integrated(ydoc[t]) = base[t]

LEMMA SentFold ==
    ASSUME TypeInv, TabInv, NEW t \in Tabs, Folding(t), ~show[t]
    PROVE  Integrated(ydoc[t] \cup view[t]) = view[t]
  <1>1. view[t] \subseteq Integrated(ydoc[t] \cup view[t])
    BY FoldKeeps
  <1>2. ASSUME NEW e \in Integrated(ydoc[t] \cup view[t]) PROVE e \in view[t]
    <2>1. e \in ydoc[t] \cup view[t] /\ \A n \in 1..e[2] : <<e[1], n>> \in ydoc[t] \cup view[t]
      BY DEF Integrated
    <2>2. e \in Made
      BY <2>1 DEF TypeInv, Shapes
    <2>3. e[1] \in Tabs /\ e[2] \in 1..MaxEdits /\ e[2] <= typed[e[1]] /\ e = <<e[1], e[2]>>
      BY <2>2 DEF Made, Ids
    <2>4. CASE e[1] = t
      <3>1. e[2] \in 1..typed[t]
        BY <2>3, <2>4, SyncAssumption DEF TypeInv, Shapes
      <3>2. <<t, e[2]>> \in view[t]
        BY <3>1 DEF TabInv
      <3>3. QED
        BY <2>3, <2>4, <3>2
    <2>5. CASE e[1] # t
      <3>1. \A n \in 1..e[2] : <<e[1], n>> \in view[t] => <<e[1], n>> \in base[t]
        BY <2>5 DEF Folding
      <3>2. \A n \in 1..e[2] : <<e[1], n>> \in ydoc[t]
        BY <2>1, <3>1 DEF TabInv
      <3>3. e \in ydoc[t]
        BY <2>1, <2>5 DEF Folding, TabInv
      <3>4. e \in Integrated(ydoc[t])
        BY <3>2, <3>3 DEF Integrated
      <3>5. QED
        BY <3>4 DEF Folding, TabInv
    <2>6. QED
      BY <2>4, <2>5
  <1>3. QED
    BY <1>1, <1>2

LEMMA FoldingStep ==
    ASSUME TypeInv, TabInv, \A t \in Tabs : Folding(t), Next
    PROVE  \A t \in Tabs : Folding(t)'
  <1>1. CASE UNCHANGED <<doc, queue, due, show, erased>>
    BY <1>1 DEF doc, Folding, Integrated
  <1>2. ASSUME NEW t \in Tabs, Type(t) PROVE \A s \in Tabs : Folding(s)'
    <2>1. /\ view' = [view EXCEPT ![t] = @ \cup {<<t, typed[t] + 1>>}]
          /\ due' = [due EXCEPT ![t] = TRUE]
          /\ base' = base /\ ydoc' = ydoc /\ show' = show
      BY <1>2 DEF Type
    <2>2. view'[t] = view[t] \cup {<<t, typed[t] + 1>>} /\ due'[t]
      BY <2>1 DEF TypeInv, Shapes, Flags
    <2>3. Folding(t)'
      BY <2>1, <2>2 DEF Folding, Integrated
    <2>4. \A s \in Tabs \ {t} : view'[s] = view[s] /\ (due'[s] <=> due[s])
      BY <2>1 DEF TypeInv, Shapes, Flags
    <2>5. \A s \in Tabs \ {t} : Folding(s)'
      BY <2>1, <2>4 DEF Folding, Integrated
    <2>6. QED
      BY <2>3, <2>5
  <1>3. ASSUME NEW t \in Tabs, SendDue(t) PROVE \A s \in Tabs : Folding(s)'
    <2>1. Folded(t) = ydoc[t] \cup view[t]
      BY FoldKeeps
    <2>2. /\ ydoc' = [ydoc EXCEPT ![t] = ydoc[t] \cup view[t]]
          /\ base' = [base EXCEPT ![t] = view[t]]
          /\ view' = view /\ show' = show /\ due' = [due EXCEPT ![t] = FALSE]
      BY <1>3, <2>1 DEF SendDue, Rebased
    <2>3. ydoc'[t] = ydoc[t] \cup view[t] /\ base'[t] = view[t]
      BY <2>2 DEF TypeInv, Shapes
    <2>4. ~show'[t] => Integrated(ydoc'[t]) = base'[t]
      BY <2>2, <2>3, SentFold
    <2>5. Folding(t)'
      BY <2>2, <2>3, <2>4 DEF Folding, Integrated
    <2>6. \A s \in Tabs \ {t} : ydoc'[s] = ydoc[s] /\ base'[s] = base[s] /\ (due'[s] <=> due[s])
      BY <2>2 DEF TypeInv, Shapes, Flags
    <2>7. \A s \in Tabs \ {t} : Folding(s)'
      BY <2>2, <2>6 DEF Folding, Integrated
    <2>8. QED
      BY <2>5, <2>7
  <1>4. ASSUME NEW t \in Tabs, ClientReceive(t) PROVE \A s \in Tabs : Folding(s)'
    <2> DEFINE f == Head(down[Current(t)])
    <2>1. view' = view /\ due' = due
      BY <1>4 DEF ClientReceive
    <2>2. CASE Merge(t, f)
      <3>1. /\ ydoc' = [ydoc EXCEPT ![t] = Folded(t) \cup f.ids]
            /\ base' = [base EXCEPT ![t] = view[t]] /\ show' = [show EXCEPT ![t] = TRUE]
        BY <2>2 DEF Merge, Rebased
      <3> HIDE DEF f
      <3>2. base'[t] = view[t] /\ show'[t]
        BY <3>1 DEF TypeInv, Shapes, Flags
      <3>3. Folding(t)'
        BY <2>1, <3>2 DEF Folding
      <3>4. \A s \in Tabs \ {t} :
              ydoc'[s] = ydoc[s] /\ base'[s] = base[s] /\ (show'[s] <=> show[s])
        BY <3>1 DEF TypeInv, Shapes, Flags
      <3>5. \A s \in Tabs \ {t} : Folding(s)'
        BY <2>1, <3>4 DEF Folding, Integrated
      <3>6. QED
        BY <3>3, <3>5
    <2>3. CASE Answer(t, f) \/ Badge(t, f)
      <3>1. ydoc' = ydoc /\ base' = base /\ show' = show
        BY <2>3 DEF Answer, Badge
      <3>2. QED
        BY <2>1, <3>1 DEF Folding, Integrated
    <2>4. QED
      BY <1>4, <2>2, <2>3 DEF ClientReceive
  <1>5. ASSUME NEW t \in Tabs, ShowRemote(t) PROVE \A s \in Tabs : Folding(s)'
    <2> DEFINE merged == Integrated(Folded(t))
    <2>1. /\ ydoc' = [ydoc EXCEPT ![t] = Folded(t)] /\ base' = [base EXCEPT ![t] = merged]
          /\ view' = [view EXCEPT ![t] = merged]
          /\ show' = [show EXCEPT ![t] = FALSE] /\ due' = due
      BY <1>5 DEF ShowRemote
    <2>2. ydoc'[t] = Folded(t) /\ base'[t] = merged /\ view'[t] = merged
      BY <2>1 DEF TypeInv, Shapes
    <2>3. Folding(t)'
      BY <2>2 DEF Folding, Integrated
    <2> HIDE DEF merged
    <2>4. \A s \in Tabs \ {t} : /\ ydoc'[s] = ydoc[s] /\ base'[s] = base[s]
                                /\ view'[s] = view[s] /\ (show'[s] <=> show[s])
      BY <2>1 DEF TypeInv, Shapes, Flags
    <2>5. \A s \in Tabs \ {t} : Folding(s)'
      BY <2>1, <2>4 DEF Folding, Integrated
    <2>6. QED
      BY <2>3, <2>5
  <1>6. QED
    BY <1>1, <1>2, <1>3, <1>4, <1>5, DocumentSteps
\* The members of a sequence.
In(s) == {s[i] : i \in 1..Len(s)}

LEMMA InSequences ==
    ASSUME NEW S, NEW s \in Seq(S), NEW u \in Seq(S), NEW f \in S
    PROVE  /\ In(<<>>) = {}
           /\ In(Append(s, f)) = In(s) \cup {f}
           /\ In(s \o u) = In(s) \cup In(u)
           /\ s # <<>> => In(s) = {Head(s)} \cup In(Tail(s))
  <1>1. In(<<>>) = {}
    BY DEF In
  <1>2. Len(s) \in Nat /\ Len(u) \in Nat
    BY LenProperties
  <1>3. In(Append(s, f)) = In(s) \cup {f}
    <2>1. /\ Len(Append(s, f)) = Len(s) + 1 /\ Append(s, f)[Len(s) + 1] = f
          /\ \A i \in 1..Len(s) : Append(s, f)[i] = s[i]
      BY AppendProperties
    <2>2. \A i \in 1..(Len(s) + 1) : i \in 1..Len(s) \/ i = Len(s) + 1
      BY <1>2
    <2>3. Len(s) + 1 \in 1..(Len(s) + 1) /\ \A i \in 1..Len(s) : i \in 1..(Len(s) + 1)
      BY <1>2
    <2>4. QED
      BY <2>1, <2>2, <2>3 DEF In
  <1>4. In(s \o u) = In(s) \cup In(u)
    <2>1. /\ Len(s \o u) = Len(s) + Len(u)
          /\ \A i \in 1..(Len(s) + Len(u)) :
               (s \o u)[i] = IF i <= Len(s) THEN s[i] ELSE u[i - Len(s)]
      BY ConcatProperties
    <2>2. ASSUME NEW i \in 1..(Len(s) + Len(u)) PROVE (s \o u)[i] \in In(s) \cup In(u)
      <3>1. i <= Len(s) => i \in 1..Len(s)
        BY <1>2
      <3>2. ~(i <= Len(s)) => i - Len(s) \in 1..Len(u)
        BY <1>2
      <3>3. QED
        BY <2>1, <3>1, <3>2 DEF In
    <2>3. ASSUME NEW i \in 1..Len(s) PROVE s[i] \in In(s \o u)
      <3>1. i \in 1..(Len(s) + Len(u)) /\ (s \o u)[i] = s[i]
        BY <1>2, <2>1
      <3>2. QED
        BY <2>1, <3>1 DEF In
    <2>4. ASSUME NEW i \in 1..Len(u) PROVE u[i] \in In(s \o u)
      <3>1. i + Len(s) \in 1..(Len(s) + Len(u)) /\ ~(i + Len(s) <= Len(s))
            /\ (i + Len(s)) - Len(s) = i
        BY <1>2
      <3>2. (s \o u)[i + Len(s)] = u[i]
        BY <2>1, <3>1
      <3>3. QED
        BY <2>1, <3>1, <3>2 DEF In
    <2>5. In(s \o u) \subseteq In(s) \cup In(u)
      BY <2>1, <2>2 DEF In
    <2>6. QED
      BY <2>3, <2>4, <2>5 DEF In
  <1>5. ASSUME s # <<>> PROVE In(s) = {Head(s)} \cup In(Tail(s))
    <2>1. /\ Len(Tail(s)) = Len(s) - 1
          /\ \A i \in 1..Len(Tail(s)) : Tail(s)[i] = s[i + 1]
      BY <1>5, HeadTailProperties
    <2>2. Len(s) >= 1 /\ Head(s) = s[1]
      BY <1>2, <1>5, EmptySeq
    <2>3. ASSUME NEW i \in 1..Len(s) PROVE s[i] \in {Head(s)} \cup In(Tail(s))
      <3>1. CASE i = 1
        BY <2>2, <3>1
      <3>2. CASE i # 1
        <4>1. i - 1 \in 1..Len(Tail(s)) /\ (i - 1) + 1 = i
          BY <1>2, <2>1, <3>2
        <4>2. Tail(s)[i - 1] = s[i]
          BY <2>1, <4>1
        <4>3. QED
          BY <4>1, <4>2 DEF In
      <3>3. QED
        BY <3>1, <3>2
    <2>4. ASSUME NEW i \in 1..Len(Tail(s)) PROVE Tail(s)[i] \in In(s)
      <3>1. i + 1 \in 1..Len(s)
        BY <1>2, <2>1
      <3>2. QED
        BY <2>1, <3>1 DEF In
    <2>5. Head(s) \in In(s)
      <3>1. 1 \in 1..Len(s)
        BY <1>2, <2>2
      <3>2. QED
        BY <2>2, <3>1 DEF In
    <2>6. QED
      BY <2>3, <2>4, <2>5 DEF In
  <1>6. QED
    BY <1>1, <1>3, <1>4, <1>5

LEMMA InUpdates ==
    ASSUME NEW q \in Seq(SUBSET Made)
    PROVE  /\ \A f \in In(Updates(q)) : f.type = "update"
           /\ \A x \in In(q) : \E f \in In(Updates(q)) : f.type = "update" /\ f.ids = x
           /\ \A f \in In(Updates(q)) : f.ids \in In(q)
  <1>1. DOMAIN q = 1..Len(q) /\ Len(q) \in Nat
    BY LenProperties
  <1>2. Updates(q) \in Seq(MadeFrames)
    BY UpdateFrames
  <1>3. DOMAIN Updates(q) = 1..Len(q) /\ DOMAIN Updates(q) = 1..Len(Updates(q))
        /\ Len(Updates(q)) \in Nat
    BY <1>1, <1>2, LenProperties DEF Updates
  <1>4. Len(Updates(q)) = Len(q)
    BY <1>1, <1>3
  <1>5. \A i \in 1..Len(q) : Updates(q)[i].type = "update" /\ Updates(q)[i].ids = q[i]
    BY <1>1 DEF Updates, Frame
  <1>6. QED
    BY <1>4, <1>5 DEF In
-----------------------------------------------------------------------------
(* What a synced tab's room has, or will have.                             *)

\* What a client is sent its room has.
Known(k) == seat[k] => \A f \in In(down[k]) : f.ids \subseteq room[site[k]]

\* Before its handler has a seat a connection carries only resent updates.
Unseated(t, k) ==
    /\ state[t] = "joining" /\ down[k] = <<>>
    /\ \A f \in In(up[k]) : f.type # "step1"

\* The two ends have compared their documents, or one answer is on its way.
Asked(t, k) ==
    \/ state[t] = "synced"
    \/ \E f \in In(up[k]) : f.type = "step1"
    \/ \E f \in In(down[k]) : f.type = "step2"

\* An edit of the tab is in the room, on the wire or in the queue.
Covered(t, k) ==
    \A e \in ydoc[t] :
        \/ e \in room[site[k]]
        \/ \E f \in In(up[k]) : f.type # "step1" /\ e \in f.ids
        \/ \E q \in In(queue[t]) : e \in q

ReachFor(t) ==
    state[t] # "off" /\ link[Current(t)] = "up" =>
        /\ ~seat[Current(t)] => Unseated(t, Current(t))
        /\ Asked(t, Current(t)) => Covered(t, Current(t))

ReachInv ==
    /\ \A t \in Tabs : Folding(t) /\ ReachFor(t)
    /\ \A k \in Conns : Known(k)

LEMMA InitReach == Init => ReachInv
  BY DEF Init, ReachInv, Folding, ReachFor, Known, Integrated

LEMMA AskedSeated ==
    ASSUME ReachInv, NEW t \in Tabs, state[t] # "off", link[Current(t)] = "up",
           Asked(t, Current(t))
    PROVE  seat[Current(t)]
  <1>1. ASSUME ~seat[Current(t)] PROVE FALSE
    <2>1. Unseated(t, Current(t))
      BY <1>1 DEF ReachInv, ReachFor
    <2>2. In(down[Current(t)]) = {}
      BY <2>1 DEF Unseated, In
    <2>3. QED
      BY <2>1, <2>2 DEF Unseated, Asked
  <1>2. QED
    BY <1>1

\* What a tab's connection keeps through a step that is not the tab's own.
LEMMA ReachForKept ==
    ASSUME TypeInv, ReachInv, NEW t \in Tabs,
           ydoc'[t] = ydoc[t], queue'[t] = queue[t], state'[t] = state[t], nth'[t] = nth[t],
           NEW k, k = Current(t),
           state[t] # "off" /\ link'[k] = "up" =>
              /\ link[k] = "up" /\ (seat'[k] <=> seat[k]) /\ up'[k] = up[k]
              /\ ~seat[k] => down'[k] = down[k]
              /\ seat[k] => /\ site'[k] = site[k] /\ room[site[k]] \subseteq room'[site[k]]
                            /\ \A f \in In(down'[k]) : f.type = "step2" => f \in In(down[k])
    PROVE  ReachFor(t)'
  <1>1. Current(t)' = k
    BY DEF Current
  <1>2. SUFFICES ASSUME state[t] # "off", link'[k] = "up"
                 PROVE  /\ ~seat'[k] => Unseated(t, k)'
                        /\ Asked(t, k)' => Covered(t, k)'
    BY <1>1 DEF ReachFor
  <1>3. /\ link[k] = "up" /\ (seat'[k] <=> seat[k]) /\ up'[k] = up[k]
        /\ ~seat[k] => down'[k] = down[k]
        /\ seat[k] => /\ site'[k] = site[k] /\ room[site[k]] \subseteq room'[site[k]]
                      /\ \A f \in In(down'[k]) : f.type = "step2" => f \in In(down[k])
    BY <1>2
  <1>4. /\ ~seat[k] => Unseated(t, k)
        /\ Asked(t, k) => Covered(t, k) /\ seat[k]
    BY <1>2, <1>3, AskedSeated DEF ReachInv, ReachFor
  <1>5. ~seat'[k] => Unseated(t, k)'
    BY <1>3, <1>4 DEF Unseated
  <1>6. Asked(t, k)' => Asked(t, k)
    BY <1>3 DEF Asked
  <1>7. Asked(t, k) => Covered(t, k)'
    BY <1>3, <1>4 DEF Covered
  <1>8. QED
    BY <1>5, <1>6, <1>7

\* A step of an instance or of the network that sends no SyncStep2.
LEMMA ServerKeeps ==
    ASSUME TypeInv, ReachInv, ydoc' = ydoc, queue' = queue, state' = state, nth' = nth,
           \A k \in Conns : link'[k] = "up" =>
              /\ link[k] = "up" /\ (seat'[k] <=> seat[k]) /\ up'[k] = up[k]
              /\ ~seat[k] => down'[k] = down[k],
           \A k \in Conns : seat'[k] =>
              /\ seat[k] /\ site'[k] = site[k] /\ room[site[k]] \subseteq room'[site[k]]
              /\ \A f \in In(down'[k]) :
                   \/ f \in In(down[k])
                   \/ f.type # "step2" /\ f.ids \subseteq room'[site[k]]
    PROVE  (\A t \in Tabs : ReachFor(t)') /\ (\A k \in Conns : Known(k)')
  <1>1. ASSUME NEW t \in Tabs PROVE ReachFor(t)'
    <2>1. CASE state[t] = "off"
      BY <2>1 DEF ReachFor
    <2>2. CASE state[t] # "off"
      <3>1. Current(t) \in Conns
        BY <2>2, CurrentIn
      <3>2. QED
        BY <3>1, ReachForKept
    <2>3. QED
      BY <2>1, <2>2
  <1>2. ASSUME NEW k \in Conns PROVE Known(k)'
    BY DEF Known, ReachInv
  <1>3. QED
    BY <1>1, <1>2

\* A step of one tab.
LEMMA ClientKeeps ==
    ASSUME TypeInv, ReachInv, NEW t \in Tabs, ReachFor(t)', seat' = seat, room' = room,
           \A s \in Tabs \ {t} : /\ ydoc'[s] = ydoc[s] /\ queue'[s] = queue[s]
                                 /\ state'[s] = state[s] /\ nth'[s] = nth[s],
           \A k \in Conns : k[1] # t =>
              /\ link'[k] = link[k] /\ up'[k] = up[k] /\ down'[k] = down[k]
              /\ site'[k] = site[k],
           \A k \in Conns : seat[k] => site'[k] = site[k] /\ In(down'[k]) \subseteq In(down[k])
    PROVE  (\A s \in Tabs : ReachFor(s)') /\ (\A k \in Conns : Known(k)')
  <1>1. ASSUME NEW s \in Tabs \ {t} PROVE ReachFor(s)'
    <2>1. CASE state[s] = "off"
      BY <2>1 DEF ReachFor
    <2>2. CASE state[s] # "off"
      <3>1. Current(s) \in Conns /\ Current(s)[1] = s
        BY <2>2, CurrentIn DEF Current
      <3>2. QED
        BY <3>1, ReachForKept
    <2>3. QED
      BY <2>1, <2>2
  <1>2. ASSUME NEW k \in Conns PROVE Known(k)'
    BY DEF Known, ReachInv
  <1>3. QED
    BY <1>1, <1>2
\* A frame told to some seated clients is the only news they have.
LEMMA ToldNews ==
    ASSUME TypeInv, NEW who \in SUBSET Conns, NEW f \in MadeFrames, down' = Told(who, f),
           \A k \in who : seat[k]
    PROVE  /\ \A k \in Conns : ~seat[k] => down'[k] = down[k]
           /\ \A k \in Conns : \A g \in In(down'[k]) : g \in In(down[k]) \/ (k \in who /\ g = f)
  <1>1. ASSUME NEW k \in Conns
        PROVE  /\ ~seat[k] => down'[k] = down[k]
               /\ \A g \in In(down'[k]) : g \in In(down[k]) \/ (k \in who /\ g = f)
    <2>1. down'[k] = IF k \in who THEN Append(down[k], f) ELSE down[k]
      BY DEF Told
    <2>2. down[k] \in Seq(MadeFrames)
      BY DEF TypeInv, Wires
    <2>3. In(Append(down[k], f)) = In(down[k]) \cup {f}
      BY <2>2, InSequences
    <2>4. CASE k \in who
      <3>1. down'[k] = Append(down[k], f) /\ seat[k]
        BY <2>1, <2>4
      <3>2. QED
        BY <2>3, <2>4, <3>1
    <2>5. CASE k \notin who
      <3>1. down'[k] = down[k]
        BY <2>1, <2>5
      <3>2. QED
        BY <3>1
    <2>6. QED
      BY <2>4, <2>5
  <1>2. QED
    BY <1>1

LEMMA SaveReach ==
    ASSUME TypeInv, ReachInv, NEW k \in Conns, Publish(k) \/ Save(k) \/ SaveFails(k) \/ Cut(k)
    PROVE  (\A t \in Tabs : ReachFor(t)') /\ (\A c \in Conns : Known(c)')
  <1>1. /\ ydoc' = ydoc /\ queue' = queue /\ state' = state /\ nth' = nth
        /\ seat' = seat /\ site' = site /\ room' = room /\ up' = up
    BY DEF Publish, Save, SaveFails, Cut, doc, session, wire, server, cluster
  <1>2. \A c \in Conns : link'[c] = "up" => link[c] = "up"
    BY DEF Publish, Save, SaveFails, Cut, wire, TypeInv, Wires
  <1> DEFINE News == /\ \A c \in Conns : ~seat[c] => down'[c] = down[c]
                     /\ \A c \in Conns : \A f \in In(down'[c]) :
                           f \in In(down[c]) \/ (f.type # "step2" /\ f.ids = {})
  <1>3. News
    <2>1. CASE down' = down
      BY <2>1
    <2>2. ASSUME NEW type \in {"persist-failed", "persist-ok"},
                 seat[k], down' = Told({k}, Frame(type, {}))
          PROVE  News
      <3> DEFINE g == Frame(type, {})
      <3>1. g \in MadeFrames
        BY FrameIn
      <3>2. g.type # "step2" /\ g.ids = {}
        BY DEF Frame
      <3>3. {k} \in SUBSET Conns /\ \A c \in {k} : seat[c]
        BY <2>2
      <3>4. down' = Told({k}, g)
        BY <2>2
      <3> HIDE DEF g
      <3>5. QED
        BY <3>1, <3>2, <3>3, <3>4, ToldNews
    <2> HIDE DEF News
    <2>3. job[k].step = "save" => seat[k]
      BY JobSeated
    <2>4. QED
      BY <2>1, <2>2, <2>3 DEF Publish, Save, SaveFails, Cut, wire
  <1>4. QED
    BY <1>1, <1>2, <1>3, ServerKeeps

LEMMA LeaveReach ==
    ASSUME TypeInv, ReachInv, NEW k \in Conns, Leave(k)
    PROVE  (\A t \in Tabs : ReachFor(t)') /\ (\A c \in Conns : Known(c)')
  <1>1. /\ ydoc' = ydoc /\ queue' = queue /\ state' = state /\ nth' = nth
        /\ link' = link /\ down' = down /\ room' = room /\ link[k] = "cut"
    BY DEF Leave, doc, session, cluster
  <1>2. /\ \A c \in Conns \ {k} : (seat'[c] <=> seat[c]) /\ site'[c] = site[c] /\ up'[c] = up[c]
        /\ ~seat'[k]
    BY DEF Leave, TypeInv, Wires, Flags
  <1>3. QED
    BY <1>1, <1>2, ServerKeeps

LEMMA CompactReach ==
    ASSUME TypeInv, ReachInv, NEW h \in Hosts, Compact(h)
    PROVE  (\A t \in Tabs : ReachFor(t)') /\ (\A c \in Conns : Known(c)')
  <1>1. /\ ydoc' = ydoc /\ queue' = queue /\ state' = state /\ nth' = nth
        /\ link' = link /\ down' = down /\ up' = up /\ seat' = seat /\ site' = site
    BY DEF Compact, doc, session, wire, server
  <1>2. \A c \in Conns : seat[c] => site[c] # h
    BY DEF Compact, Members
  <1>3. \A c \in Conns : seat[c] => room'[site[c]] = room[site[c]]
    BY <1>2, SeatedSite DEF Compact, TypeInv, Stores
  <1>4. QED
    BY <1>1, <1>3, ServerKeeps

LEMMA FanoutReach ==
    ASSUME TypeInv, ReachInv, NEW h \in Hosts, Fanout(h)
    PROVE  (\A t \in Tabs : ReachFor(t)') /\ (\A c \in Conns : Known(c)')
  <1> DEFINE ids == Head(inbox[h])
             f == Frame("update", ids)
  <1>1. /\ ydoc' = ydoc /\ queue' = queue /\ state' = state /\ nth' = nth
        /\ link' = link /\ up' = up /\ seat' = seat /\ site' = site
    BY DEF Fanout, doc, session, server
  <1>2. CASE h \notin alive
    <2>1. room' = room /\ down' = down
      BY <1>2 DEF Fanout
    <2>2. QED
      BY <1>1, <2>1, ServerKeeps
  <1>3. CASE h \in alive
    <2>1. f \in MadeFrames /\ f.type # "step2" /\ f.ids = ids
      <3>1. ids \in SUBSET Made
        BY InboxShape DEF Fanout
      <3>2. QED
        BY <3>1, FrameIn DEF Frame
    <2>2. Members(h) \in SUBSET Conns /\ \A c \in Members(h) : seat[c] /\ site[c] = h
      BY DEF Members
    <2>3. down' = Told(Members(h), f) /\ room' = [room EXCEPT ![h] = @ \cup ids]
      BY <1>3 DEF Fanout
    <2> HIDE DEF f, ids
    <2>4. /\ \A c \in Conns : ~seat[c] => down'[c] = down[c]
          /\ \A c \in Conns : \A g \in In(down'[c]) :
                g \in In(down[c]) \/ (c \in Members(h) /\ g = f)
      BY <2>1, <2>2, <2>3, ToldNews
    <2>5. \A c \in Conns : seat[c] =>
             /\ room[site[c]] \subseteq room'[site[c]]
             /\ site[c] = h => ids \subseteq room'[site[c]]
      BY <2>3, SeatedSite DEF TypeInv, Stores
    <2>6. QED
      BY <1>1, <2>1, <2>2, <2>4, <2>5, ServerKeeps
  <1>4. QED
    BY <1>2, <1>3

LEMMA LagReach ==
    ASSUME TypeInv, ReachInv, NEW h \in Hosts, Lag(h)
    PROVE  (\A t \in Tabs : ReachFor(t)') /\ (\A c \in Conns : Known(c)')
  <1> DEFINE f == Frame("step1", Integrated(room[h]))
  <1>1. /\ ydoc' = ydoc /\ queue' = queue /\ state' = state /\ nth' = nth
        /\ link' = link /\ up' = up /\ seat' = seat /\ site' = site /\ room' = room
    BY DEF Lag, doc, session, server
  <1>2. f \in MadeFrames /\ f.type # "step2" /\ f.ids \subseteq room[h]
    <2>1. Integrated(room[h]) \in SUBSET Made /\ Integrated(room[h]) \subseteq room[h]
      BY DEF Integrated, TypeInv, Stores
    <2>2. QED
      BY <2>1, FrameIn DEF Frame
  <1>3. Members(h) \in SUBSET Conns /\ \A c \in Members(h) : seat[c] /\ site[c] = h
    BY DEF Members
  <1>4. down' = Told(Members(h), f)
    BY DEF Lag
  <1> HIDE DEF f
  <1>5. /\ \A c \in Conns : ~seat[c] => down'[c] = down[c]
        /\ \A c \in Conns : \A g \in In(down'[c]) :
              g \in In(down[c]) \/ (c \in Members(h) /\ g = f)
    BY <1>2, <1>3, <1>4, ToldNews
  <1>6. QED
    BY <1>1, <1>2, <1>3, <1>5, ServerKeeps

LEMMA CrashReach ==
    ASSUME TypeInv, ReachInv, NEW h \in Hosts, Crash(h)
    PROVE  (\A t \in Tabs : ReachFor(t)') /\ (\A c \in Conns : Known(c)')
  <1>1. /\ ydoc' = ydoc /\ queue' = queue /\ state' = state /\ nth' = nth /\ down' = down
    BY DEF Crash, doc, session
  <1>2. \A c \in Conns : site[c] = h => link'[c] = "cut" /\ ~seat'[c]
    BY DEF Crash
  <1>3. \A c \in Conns : site[c] # h => /\ link'[c] = link[c] /\ up'[c] = up[c]
                                        /\ site'[c] = site[c] /\ (seat'[c] <=> seat[c])
    BY DEF Crash, TypeInv, Flags
  <1>4. \A c \in Conns : seat[c] /\ site[c] # h => room'[site[c]] = room[site[c]]
    BY SeatedSite DEF Crash, TypeInv, Stores
  <1>5. QED
    BY <1>1, <1>2, <1>3, <1>4, ServerKeeps
\* Sending the queue after a fold loses nothing on a live connection.
LEMMA FlushCovers ==
    ASSUME TypeInv, TabInv, ReachInv, NEW t \in Tabs, NEW k, k = Current(t),
           NEW synced \in BOOLEAN, synced => state[t] # "off", FoldAndFlush(t, synced),
           state[t] # "off", link[k] = "up"
    PROVE  /\ \A f \in In(up'[k]) : f.type = "step1" => f \in In(up[k])
           /\ \A f \in In(up[k]) : f \in In(up'[k])
           /\ \A e \in Folded(t) :
                \/ e \in ydoc[t]
                \/ \E f \in In(up'[k]) : f.type # "step1" /\ e \in f.ids
                \/ \E q \in In(queue'[t]) : e \in q
           /\ \A q \in In(queue[t]) : \A e \in q :
                \/ \E f \in In(up'[k]) : f.type # "step1" /\ e \in f.ids
                \/ \E x \in In(queue'[t]) : e \in x
  <1>1. Observed(t) \in Seq(SUBSET Made) /\ Fresh(t) \in SUBSET Made /\ k \in Conns
    BY FoldShapes, CurrentIn
  <1>2. queue[t] \in Seq(SUBSET Made) /\ up[k] \in Seq(MadeFrames)
    BY <1>1 DEF TypeInv, Shapes, Wires
  <1>3. /\ \A q \in In(queue[t]) : q \in In(Observed(t))
        /\ Fresh(t) # {} => Fresh(t) \in In(Observed(t))
    <2>1. In(Append(queue[t], Fresh(t))) = In(queue[t]) \cup {Fresh(t)}
      BY <1>1, <1>2, InSequences
    <2>2. QED
      BY <2>1 DEF Observed
  <1>4. \A e \in Folded(t) : e \in ydoc[t] \/ e \in Fresh(t)
    BY DEF Folded
  <1>5. CASE ~synced
    <2>1. up' = up /\ queue'[t] = Observed(t)
      BY <1>5, FlushShapes
    <2>2. QED
      BY <1>3, <1>4, <2>1
  <1>6. CASE synced
    <2>1. up'[k] = up[k] \o Updates(Observed(t))
      BY <1>6, FlushShapes
    <2>2. Updates(Observed(t)) \in Seq(MadeFrames)
      BY <1>1, UpdateFrames
    <2>3. <<>> \in Seq(MadeFrames) /\ Frame("update", {}) \in MadeFrames
      BY FrameIn, EmptySeq
    <2>4. In(up'[k]) = In(up[k]) \cup In(Updates(Observed(t)))
      BY <1>2, <2>1, <2>2, <2>3, InSequences
    <2>5. /\ \A f \in In(Updates(Observed(t))) : f.type = "update"
          /\ \A x \in In(Observed(t)) : \E f \in In(Updates(Observed(t))) :
                f.type = "update" /\ f.ids = x
      BY <1>1, InUpdates
    <2>6. \A x \in In(Observed(t)) : \A e \in x :
             \E f \in In(up'[k]) : f.type # "step1" /\ e \in f.ids
      BY <2>4, <2>5
    <2>7. QED
      BY <1>3, <1>4, <2>4, <2>5, <2>6
  <1>7. QED
    BY <1>5, <1>6

\* A fold with no frame behind it.
LEMMA FoldReach ==
    ASSUME TypeInv, TabInv, ReachInv, NEW t \in Tabs, SendDue(t) \/ ShowRemote(t)
    PROVE  (\A s \in Tabs : ReachFor(s)') /\ (\A c \in Conns : Known(c)')
  <1> SUFFICES ASSUME NEW k, k = Current(t)
               PROVE  (\A s \in Tabs : ReachFor(s)') /\ (\A c \in Conns : Known(c)')
    OBVIOUS
  <1>1. /\ FoldAndFlush(t, state[t] = "synced") /\ state' = state /\ nth' = nth
        /\ link' = link /\ down' = down /\ seat' = seat /\ site' = site /\ room' = room
        /\ ydoc' = [ydoc EXCEPT ![t] = Folded(t)]
    BY DEF SendDue, ShowRemote, server, cluster
  <1>2. /\ \A s \in Tabs \ {t} : queue'[s] = queue[s] /\ ydoc'[s] = ydoc[s]
        /\ \A c \in Conns : c[1] # t => up'[c] = up[c]
        /\ ydoc'[t] = Folded(t)
    <2>1. /\ \A s \in Tabs \ {t} : queue'[s] = queue[s]
          /\ \A c \in Conns : c # Current(t) => up'[c] = up[c]
      BY <1>1, FlushShapes
    <2>2. Current(t)[1] = t
      BY DEF Current
    <2>3. QED
      BY <1>1, <2>1, <2>2 DEF TypeInv, Shapes
  <1>3. ReachFor(t)'
    <2>1. SUFFICES ASSUME state[t] # "off", link[k] = "up"
                   PROVE  /\ ~seat[k] => Unseated(t, k)'
                          /\ Asked(t, k)' => Covered(t, k)'
      BY <1>1 DEF ReachFor, Current
    <2>2. /\ \A f \in In(up'[k]) : f.type = "step1" => f \in In(up[k])
          /\ \A f \in In(up[k]) : f \in In(up'[k])
          /\ \A e \in Folded(t) :
                \/ e \in ydoc[t]
                \/ \E f \in In(up'[k]) : f.type # "step1" /\ e \in f.ids
                \/ \E q \in In(queue'[t]) : e \in q
          /\ \A q \in In(queue[t]) : \A e \in q :
                \/ \E f \in In(up'[k]) : f.type # "step1" /\ e \in f.ids
                \/ \E x \in In(queue'[t]) : e \in x
      BY <1>1, <2>1, FlushCovers
    <2>3. ~seat[k] => Unseated(t, k)'
      <3>1. ~seat[k] => Unseated(t, k)
        BY <2>1 DEF ReachInv, ReachFor
      <3>2. QED
        BY <1>1, <2>2, <3>1 DEF Unseated
    <2>4. Asked(t, k)' => Asked(t, k)
      BY <1>1, <2>2 DEF Asked
    <2>5. Asked(t, k) => Covered(t, k)
      BY <2>1 DEF ReachInv, ReachFor
    <2>6. Covered(t, k) => Covered(t, k)'
      BY <1>1, <1>2, <2>2 DEF Covered
    <2>7. QED
      BY <2>3, <2>4, <2>5, <2>6
  <1>4. QED
    BY <1>1, <1>2, <1>3, ClientKeeps

LEMMA TypeReach ==
    ASSUME TypeInv, TabInv, ReachInv, NEW t \in Tabs, Type(t)
    PROVE  (\A s \in Tabs : ReachFor(s)') /\ (\A c \in Conns : Known(c)')
  <1>1. /\ ydoc' = ydoc /\ queue' = queue /\ state' = state /\ nth' = nth /\ room' = room
        /\ link' = link /\ up' = up /\ down' = down /\ seat' = seat /\ site' = site
    BY DEF Type, wire, server, cluster
  <1>2. QED
    BY <1>1, ServerKeeps

LEMMA ResendReach ==
    ASSUME TypeInv, TabInv, ReachInv, NEW t \in Tabs, Resend(t)
    PROVE  (\A s \in Tabs : ReachFor(s)') /\ (\A c \in Conns : Known(c)')
  <1> SUFFICES ASSUME NEW k, k = Current(t)
               PROVE  (\A s \in Tabs : ReachFor(s)') /\ (\A c \in Conns : Known(c)')
    OBVIOUS
  <1> DEFINE f == Frame("update", ydoc[t])
  <1>1. /\ ydoc' = ydoc /\ queue' = queue /\ state' = state /\ nth' = nth /\ room' = room
        /\ link' = link /\ down' = down /\ seat' = seat /\ site' = site
        /\ state[t] # "off" /\ link[k] = "up" /\ up' = Sent(k, <<f>>) /\ up[k] = <<>>
    BY DEF Resend, doc, session, server, cluster
  <1>2. k \in Conns /\ f \in MadeFrames /\ f.type = "update"
    <2>1. k \in Conns
      BY <1>1, CurrentIn
    <2>2. f \in MadeFrames
      BY FrameIn DEF TypeInv, Shapes
    <2>3. QED
      BY <2>1, <2>2 DEF Frame
  <1>3. \A c \in Conns : c[1] # t => up'[c] = up[c]
    <2>1. <<f>> \in Seq(MadeFrames)
      BY <1>2
    <2>2. \A c \in Conns \ {k} : up'[c] = up[c]
      <3>1. up' = Sent(k, <<f>>) /\ k \in Conns /\ <<f>> \in Seq(MadeFrames)
        BY <1>1, <1>2, <2>1
      <3> HIDE DEF f
      <3>2. \A c \in Conns \ {k} : Sent(k, <<f>>)[c] = up[c]
        BY <3>1, SentShape
      <3>3. QED
        BY <3>1, <3>2
    <2>3. QED
      BY <2>2 DEF Current
  <1>4. In(up'[k]) = {f} /\ In(up[k]) = {}
    <2> HIDE DEF f
    <2>1. <<f>> \in Seq(MadeFrames) /\ up[k] \in Seq(MadeFrames)
      BY <1>2 DEF TypeInv, Wires
    <2>2. up'[k] = up[k] \o <<f>>
      BY <1>1, <1>2, <2>1, SentShape
    <2>3. up[k] \o <<f>> = <<f>>
      BY <1>1, <2>1, ConcatEmptySeq
    <2>4. In(<<f>>) = {f} /\ In(<<>>) = {}
      BY DEF In
    <2>5. QED
      BY <1>1, <2>2, <2>3, <2>4
  <1>5. ReachFor(t)'
    <2> HIDE DEF f
    <2>1. /\ ~seat[k] => Unseated(t, k)
          /\ Asked(t, k) => Covered(t, k)
      BY <1>1 DEF ReachInv, ReachFor
    <2>2. ~seat[k] => Unseated(t, k)'
      BY <1>1, <1>2, <1>4, <2>1 DEF Unseated
    <2>3. Asked(t, k)' => Asked(t, k)
      BY <1>1, <1>2, <1>4 DEF Asked
    <2>4. Covered(t, k) => Covered(t, k)'
      BY <1>1, <1>4 DEF Covered
    <2>5. QED
      BY <1>1, <2>1, <2>2, <2>3, <2>4 DEF ReachFor, Current
  <1>6. QED
    BY <1>1, <1>3, <1>5, ClientKeeps
LEMMA TailIn ==
    ASSUME NEW S, NEW s \in Seq(S), s # <<>>
    PROVE  /\ Head(s) \in S /\ Head(s) \in In(s) /\ In(Tail(s)) \subseteq In(s)
           /\ \A f \in In(s) : f = Head(s) \/ f \in In(Tail(s))
  <1>1. Head(s) \in S /\ Tail(s) \in Seq(S)
    BY HeadTailProperties
  <1>2. In(s) = {Head(s)} \cup In(Tail(s))
    BY <1>1, InSequences
  <1>3. QED
    BY <1>1, <1>2

LEMMA OnCloseReach ==
    ASSUME TypeInv, TabInv, ReachInv, NEW t \in Tabs, OnClose(t)
    PROVE  (\A s \in Tabs : ReachFor(s)') /\ (\A c \in Conns : Known(c)')
  <1>1. /\ ydoc' = ydoc /\ queue' = queue /\ nth' = nth /\ room' = room
        /\ link' = link /\ up' = up /\ seat' = seat /\ site' = site
        /\ state' = [state EXCEPT ![t] = "off"] /\ down' = [down EXCEPT ![Current(t)] = <<>>]
    BY DEF OnClose, doc, server, cluster
  <1>2. state'[t] = "off" /\ \A s \in Tabs \ {t} : state'[s] = state[s]
    BY <1>1 DEF TypeInv, Shapes
  <1>3. \A c \in Conns : down'[c] = down[c] \/ (down'[c] = <<>> /\ c = Current(t))
    BY <1>1 DEF TypeInv, Wires
  <1>4. In(<<>>) = {} /\ Current(t)[1] = t
    BY DEF In, Current
  <1>5. \A c \in Conns : In(down'[c]) \subseteq In(down[c])
    BY <1>3, <1>4
  <1>6. \A c \in Conns : c[1] # t => down'[c] = down[c]
    BY <1>3, <1>4
  <1>7. ReachFor(t)'
    BY <1>2 DEF ReachFor
  <1>8. QED
    BY <1>1, <1>2, <1>5, <1>6, <1>7, ClientKeeps

LEMMA ConnectReach ==
    ASSUME TypeInv, TabInv, ReachInv, NEW t \in Tabs, NEW h \in Hosts, Connect(t, h)
    PROVE  (\A s \in Tabs : ReachFor(s)') /\ (\A c \in Conns : Known(c)')
  <1> SUFFICES ASSUME NEW k, k = <<t, nth[t] + 1>>
               PROVE  (\A s \in Tabs : ReachFor(s)') /\ (\A c \in Conns : Known(c)')
    OBVIOUS
  <1>1. nth[t] + 1 \in 1..MaxConns /\ k \in Conns /\ k[1] = t
    BY RoomToConnect DEF Connect
  <1>2. link[k] = "unused"
    BY <1>1, SyncAssumption DEF TypeInv, Numbered, Shapes
  <1>3. ~seat[k] /\ up[k] = <<>> /\ down[k] = <<>>
    BY <1>1, <1>2 DEF TypeInv, Blank
  <1>4. /\ ydoc' = ydoc /\ queue' = queue /\ room' = room /\ up' = up /\ down' = down
        /\ seat' = seat
        /\ nth' = [nth EXCEPT ![t] = @ + 1] /\ state' = [state EXCEPT ![t] = "joining"]
        /\ link' = [link EXCEPT ![k] = "up"] /\ site' = [site EXCEPT ![k] = h]
    BY DEF Connect, doc, cluster
  <1>5. /\ nth'[t] = nth[t] + 1 /\ state'[t] = "joining"
        /\ \A s \in Tabs \ {t} : nth'[s] = nth[s] /\ state'[s] = state[s]
        /\ \A c \in Conns \ {k} : link'[c] = link[c] /\ site'[c] = site[c]
    BY <1>4 DEF TypeInv, Shapes, Wires
  <1>6. Current(t)' = k
    BY <1>5 DEF Current
  <1>7. In(<<>>) = {}
    BY DEF In
  <1>8. Unseated(t, k)' /\ ~Asked(t, k)'
    BY <1>3, <1>4, <1>5, <1>7 DEF Unseated, Asked
  <1>9. ReachFor(t)'
    BY <1>6, <1>8 DEF ReachFor
  <1>10. \A c \in Conns : c[1] # t => link'[c] = link[c] /\ site'[c] = site[c]
    BY <1>1, <1>5
  <1>11. \A c \in Conns : seat[c] => site'[c] = site[c]
    BY <1>3, <1>5
  <1>12. QED
    BY <1>4, <1>5, <1>9, <1>10, <1>11, ClientKeeps

LEMMA ReceiveReach ==
    ASSUME TypeInv, TabInv, ReachInv, NEW t \in Tabs, ClientReceive(t)
    PROVE  (\A s \in Tabs : ReachFor(s)') /\ (\A c \in Conns : Known(c)')
  <1> SUFFICES ASSUME NEW k, k = Current(t), NEW f, f = Head(down[k])
               PROVE  (\A s \in Tabs : ReachFor(s)') /\ (\A c \in Conns : Known(c)')
    OBVIOUS
  <1>1. /\ state[t] # "off" /\ down[k] # <<>> /\ k[1] = t
        /\ nth' = nth /\ link' = link /\ seat' = seat /\ site' = site /\ room' = room
        /\ down' = [down EXCEPT ![k] = Tail(@)]
        /\ Merge(t, f) \/ Answer(t, f) \/ Badge(t, f)
    BY DEF ClientReceive, server, cluster, Current
  <1>2. k \in Conns /\ down[k] \in Seq(MadeFrames)
    BY <1>1, CurrentIn DEF TypeInv, Wires
  <1>3. f \in MadeFrames /\ f \in In(down[k]) /\ In(Tail(down[k])) \subseteq In(down[k])
    BY <1>1, <1>2, TailIn
  <1>4. /\ down'[k] = Tail(down[k])
        /\ \A c \in Conns \ {k} : down'[c] = down[c]
    BY <1>1, <1>2 DEF TypeInv, Wires
  <1>5. \A c \in Conns : In(down'[c]) \subseteq In(down[c])
    BY <1>3, <1>4
  <1>6. /\ \A s \in Tabs \ {t} : ydoc'[s] = ydoc[s] /\ queue'[s] = queue[s] /\ state'[s] = state[s]
        /\ \A c \in Conns : c[1] # t => up'[c] = up[c]
    <2>1. CASE Merge(t, f)
      <3>1. FoldAndFlush(t, f.type = "step2" \/ state[t] = "synced")
        BY <2>1 DEF Merge
      <3>2. /\ \A s \in Tabs \ {t} : queue'[s] = queue[s]
            /\ \A c \in Conns : c # k => up'[c] = up[c]
        BY <1>1, <3>1, FlushShapes
      <3>3. \A s \in Tabs \ {t} : ydoc'[s] = ydoc[s] /\ state'[s] = state[s]
        BY <2>1 DEF Merge, TypeInv, Shapes
      <3>4. QED
        BY <1>1, <3>2, <3>3
    <2>2. CASE Answer(t, f)
      <3>1. up' = Sent(k, <<Frame("step2", Diff(ydoc[t], f.ids)),
                            Frame("step1", Integrated(ydoc[t]))>>)
        BY <2>2 DEF Answer
      <3>2. \A c \in Conns \ {k} : up'[c] = up[c]
        BY <3>1 DEF Sent, TypeInv, Wires
      <3>3. QED
        BY <1>1, <2>2, <3>2 DEF Answer
    <2>3. CASE Badge(t, f)
      BY <2>3 DEF Badge
    <2>4. QED
      BY <1>1, <2>1, <2>2, <2>3
  <1>7. ReachFor(t)'
    <2>1. SUFFICES ASSUME link[k] = "up"
                   PROVE  seat[k] /\ (Asked(t, k)' => Covered(t, k)')
      BY <1>1 DEF ReachFor, Current
    <2>2. /\ ~seat[k] => Unseated(t, k)
          /\ Asked(t, k) => Covered(t, k)
      BY <1>1, <2>1 DEF ReachInv, ReachFor
    <2>3. seat[k] /\ f.ids \subseteq room[site[k]]
      <3>1. seat[k]
        BY <1>1, <2>2 DEF Unseated
      <3>2. QED
        BY <1>2, <1>3, <3>1 DEF ReachInv, Known
    <2>4. CASE Merge(t, f)
      <3> DEFINE synced == f.type = "step2" \/ state[t] = "synced"
      <3>1. FoldAndFlush(t, synced) /\ ydoc' = [ydoc EXCEPT ![t] = Folded(t) \cup f.ids]
            /\ state' = [state EXCEPT ![t] = IF synced THEN "synced" ELSE @]
        BY <2>4 DEF Merge
      <3>2. /\ \A g \in In(up'[k]) : g.type = "step1" => g \in In(up[k])
            /\ \A g \in In(up[k]) : g \in In(up'[k])
            /\ \A e \in Folded(t) :
                  \/ e \in ydoc[t]
                  \/ \E g \in In(up'[k]) : g.type # "step1" /\ e \in g.ids
                  \/ \E q \in In(queue'[t]) : e \in q
            /\ \A q \in In(queue[t]) : \A e \in q :
                  \/ \E g \in In(up'[k]) : g.type # "step1" /\ e \in g.ids
                  \/ \E x \in In(queue'[t]) : e \in x
        BY <1>1, <2>1, <3>1, FlushCovers
      <3>3. ydoc'[t] = Folded(t) \cup f.ids /\ (state'[t] = "synced" => synced)
        BY <3>1 DEF TypeInv, Shapes
      <3>4. Asked(t, k)' => Asked(t, k)
        BY <1>3, <1>4, <3>2, <3>3 DEF Asked
      <3>5. Covered(t, k) => Covered(t, k)'
        BY <1>1, <2>3, <3>2, <3>3 DEF Covered
      <3>6. QED
        BY <2>2, <2>3, <3>4, <3>5
    <2>5. CASE Answer(t, f)
      <3> DEFINE a == Frame("step2", Diff(ydoc[t], f.ids))
                 b == Frame("step1", Integrated(ydoc[t]))
      <3>1. ydoc' = ydoc /\ up' = Sent(k, <<a, b>>)
        BY <2>5 DEF Answer
      <3>2. a \in MadeFrames /\ a.type = "step2" /\ a.ids = ydoc[t] \ f.ids /\ b \in MadeFrames
        <4>1. Diff(ydoc[t], f.ids) \in SUBSET Made /\ Integrated(ydoc[t]) \in SUBSET Made
          BY DEF Diff, Integrated, TypeInv, Shapes
        <4>2. QED
          BY <4>1, FrameIn DEF Frame, Diff
      <3> HIDE DEF a, b
      <3>3. \A e \in ydoc[t] \ f.ids : \E g \in In(up'[k]) : g.type # "step1" /\ e \in g.ids
        <4>1. <<a, b>> \in Seq(MadeFrames) /\ up[k] \in Seq(MadeFrames)
          BY <1>2, <3>2 DEF TypeInv, Wires
        <4>2. up'[k] = up[k] \o <<a, b>>
          BY <1>2, <2>1, <3>1, <4>1, SentShape
        <4>3. PICK u \in Seq(MadeFrames) : u = <<a, b>>
          BY <4>1
        <4>4. In(up[k] \o u) = In(up[k]) \cup In(u)
          BY <3>2, <4>1, InSequences
        <4>5. a \in In(u)
          BY <4>3 DEF In
        <4>6. a \in In(up'[k])
          BY <4>2, <4>3, <4>4, <4>5
        <4>7. QED
          BY <3>2, <4>6
      <3>4. Covered(t, k)'
        BY <1>1, <2>3, <3>1, <3>3 DEF Covered
      <3>5. QED
        BY <2>3, <3>4
    <2>6. CASE Badge(t, f)
      <3>1. ydoc' = ydoc /\ state' = state /\ queue' = queue /\ up' = up
        BY <2>6 DEF Badge
      <3>2. Asked(t, k)' => Asked(t, k)
        BY <1>3, <1>4, <3>1 DEF Asked
      <3>3. Covered(t, k) => Covered(t, k)'
        BY <1>1, <3>1 DEF Covered
      <3>4. QED
        BY <2>2, <2>3, <3>2, <3>3
    <2>7. QED
      BY <1>1, <2>4, <2>5, <2>6
  <1>8. \A c \in Conns : c[1] # t => down'[c] = down[c]
    BY <1>1, <1>4
  <1>9. \A s \in Tabs \ {t} : nth'[s] = nth[s]
    BY <1>1
  <1>10. QED
    BY <1>1, <1>5, <1>6, <1>7, <1>8, <1>9, ClientKeeps
\* Only the last connection of a tab that has a session is live.
Live == \A k \in Conns : link[k] = "up" => state[k[1]] # "off" /\ nth[k[1]] = k[2]

LEMMA ConnectionSteps ==
    ASSUME TypeInv, Next
    PROVE  \/ /\ nth' = nth /\ \A t \in Tabs : state'[t] = "off" => state[t] = "off"
              /\ \A k \in Conns : link'[k] = "up" => link[k] = "up"
           \/ \E t \in Tabs : OnClose(t) \/ \E h \in Hosts : Connect(t, h)
  <1> DEFINE Keeps == /\ nth' = nth /\ \A t \in Tabs : state'[t] = "off" => state[t] = "off"
                      /\ \A k \in Conns : link'[k] = "up" => link[k] = "up"
  <1>1. ASSUME NEW t \in Tabs, Type(t) \/ SendDue(t) \/ ShowRemote(t) \/ Resend(t)
        PROVE  Keeps
    BY <1>1 DEF Type, SendDue, ShowRemote, Resend, wire, session
  <1>2. ASSUME NEW t \in Tabs, ClientReceive(t) PROVE Keeps
    <2> DEFINE f == Head(down[Current(t)])
    <2>1. nth' = nth /\ link' = link
      BY <1>2 DEF ClientReceive
    <2>2. state' = state \/ \E x \in {"synced", state[t]} : state' = [state EXCEPT ![t] = x]
      BY <1>2 DEF ClientReceive, Merge, Answer, Badge
    <2>3. QED
      BY <2>1, <2>2 DEF TypeInv, Shapes
  <1>3. ASSUME NEW k \in Conns, Join(k) \/ ServerReceive(k) \/ Publish(k) \/ Save(k)
        PROVE  Keeps
    BY <1>3 DEF Join, ServerReceive, Publish, Save, session, wire
  <1>4. ASSUME NEW k \in Conns, SaveFails(k) \/ Leave(k) PROVE Keeps
    BY <1>4 DEF SaveFails, Leave, session
  <1>5. ASSUME NEW k \in Conns, Cut(k) PROVE Keeps
    BY <1>5 DEF Cut, session, TypeInv, Wires
  <1>6. ASSUME NEW h \in Hosts, Compact(h) \/ Fanout(h) \/ Lag(h) PROVE Keeps
    BY <1>6 DEF Compact, Fanout, Lag, session, wire
  <1>7. ASSUME NEW h \in Hosts, Crash(h) PROVE Keeps
    BY <1>7 DEF Crash, session
  <1> HIDE DEF Keeps
  <1>8. Keeps \/ \E t \in Tabs : OnClose(t) \/ \E h \in Hosts : Connect(t, h)
    BY <1>1, <1>2, <1>3, <1>4, <1>5, <1>6, <1>7 DEF Next
  <1>9. QED
    BY <1>8 DEF Keeps

LEMMA LiveStep == ASSUME TypeInv, Live, Next PROVE Live'
  <1>1. \A k \in Conns : k[1] \in Tabs /\ k = <<k[1], k[2]>>
    BY DEF Conns
  <1>2. ASSUME nth' = nth, \A t \in Tabs : state'[t] = "off" => state[t] = "off",
               \A k \in Conns : link'[k] = "up" => link[k] = "up"
        PROVE  Live'
    BY <1>1, <1>2 DEF Live
  <1>3. ASSUME NEW t \in Tabs, OnClose(t) PROVE Live'
    <2>1. /\ nth' = nth /\ link' = link /\ link[Current(t)] = "cut"
          /\ \A s \in Tabs \ {t} : state'[s] = state[s]
      BY <1>3 DEF OnClose, TypeInv, Shapes
    <2>2. \A k \in Conns : link[k] = "up" => k[1] # t
      BY <1>1, <2>1 DEF Live, Current
    <2>3. QED
      BY <1>1, <2>1, <2>2 DEF Live
  <1>4. ASSUME NEW t \in Tabs, NEW h \in Hosts, Connect(t, h) PROVE Live'
    <2> SUFFICES ASSUME NEW k, k = <<t, nth[t] + 1>> PROVE Live'
      OBVIOUS
    <2>1. k \in Conns /\ k[1] = t /\ k[2] = nth[t] + 1
      BY <1>4, RoomToConnect DEF Connect
    <2>2. /\ state[t] = "off" /\ nth' = [nth EXCEPT ![t] = @ + 1]
          /\ state' = [state EXCEPT ![t] = "joining"] /\ link' = [link EXCEPT ![k] = "up"]
      BY <1>4 DEF Connect
    <2>3. /\ nth'[t] = nth[t] + 1 /\ state'[t] = "joining"
          /\ \A s \in Tabs \ {t} : nth'[s] = nth[s] /\ state'[s] = state[s]
          /\ \A c \in Conns \ {k} : link'[c] = link[c]
      BY <2>2 DEF TypeInv, Shapes, Wires
    <2>4. \A c \in Conns : link[c] = "up" => c[1] # t
      BY <2>2 DEF Live
    <2>5. ASSUME NEW c \in Conns, link'[c] = "up"
          PROVE  state'[c[1]] # "off" /\ nth'[c[1]] = c[2]
      <3>1. CASE c = k
        BY <2>1, <2>3, <3>1
      <3>2. CASE c # k
        BY <1>1, <2>3, <2>4, <2>5, <3>2 DEF Live
      <3>3. QED
        BY <3>1, <3>2
    <2>6. QED
      BY <2>5 DEF Live
  <1>5. QED
    BY <1>2, <1>3, <1>4, ConnectionSteps

LEMMA JoinReach ==
    ASSUME TypeInv, TabInv, ReachInv, Live, NEW k \in Conns, Join(k)
    PROVE  (\A t \in Tabs : ReachFor(t)') /\ (\A c \in Conns : Known(c)')
  <1> DEFINE h == site[k]
             document == IF h \in alive THEN room[h] ELSE Stored
             f == Frame("step1", Integrated(document))
  <1>1. /\ ydoc' = ydoc /\ queue' = queue /\ state' = state /\ nth' = nth
        /\ link' = link /\ up' = up /\ site' = site /\ link[k] = "up" /\ ~seat[k]
        /\ seat' = [seat EXCEPT ![k] = TRUE] /\ down' = Told({k}, f)
        /\ room' = [room EXCEPT ![h] = document]
    BY DEF Join, doc, session
  <1>2. k[1] \in Tabs /\ Current(k[1]) = k /\ state[k[1]] # "off"
    BY <1>1 DEF Live, Current, Conns
  <1>3. Unseated(k[1], k)
    BY <1>1, <1>2 DEF ReachInv, ReachFor
  <1>4. h \in Hosts /\ document \in SUBSET Made
    BY <1>1 DEF TypeInv, Tied, Stores, Stored
  <1>5. f \in MadeFrames /\ f.type = "step1" /\ f.ids \subseteq document
    <2>1. Integrated(document) \in SUBSET Made /\ Integrated(document) \subseteq document
      BY <1>4 DEF Integrated
    <2>2. QED
      BY <2>1, FrameIn DEF Frame
  <1>6. /\ \A c \in Conns : seat[c] => room'[site[c]] = room[site[c]]
        /\ room'[h] = document
    BY <1>1, <1>4, SeatedSite DEF TypeInv, Stores
  <1> HIDE DEF f, document
  <1>7. down'[k] = Append(down[k], f) /\ \A c \in Conns \ {k} : down'[c] = down[c]
    BY <1>1, <1>5, TellOne
  <1>8. In(down'[k]) = {f}
    <2>1. down[k] \in Seq(MadeFrames)
      BY DEF TypeInv, Wires
    <2>2. In(Append(down[k], f)) = In(down[k]) \cup {f}
      BY <1>5, <2>1, InSequences
    <2>3. In(down[k]) = {}
      BY <1>3 DEF Unseated, In
    <2>4. QED
      BY <1>7, <2>2, <2>3
  <1>9. seat'[k] /\ \A c \in Conns \ {k} : seat'[c] <=> seat[c]
    BY <1>1 DEF TypeInv, Flags
  <1>10. ASSUME NEW c \in Conns PROVE Known(c)'
    BY <1>1, <1>5, <1>6, <1>7, <1>8, <1>9 DEF Known, ReachInv
  <1>11. ASSUME NEW t \in Tabs PROVE ReachFor(t)'
    <2>1. CASE t = k[1]
      <3>1. Current(t)' = k
        BY <1>1, <1>2, <2>1 DEF Current
      <3>2. ~Asked(t, k)'
        BY <1>1, <1>3, <1>5, <1>8, <2>1 DEF Unseated, Asked
      <3>3. QED
        BY <1>9, <3>1, <3>2 DEF ReachFor
    <2>2. CASE t # k[1] /\ state[t] # "off"
      <3>1. Current(t) \in Conns /\ Current(t) # k
        BY <2>2, CurrentIn DEF Current
      <3>2. QED
        BY <1>1, <1>6, <1>7, <1>9, <3>1, ReachForKept
    <2>3. CASE state[t] = "off"
      BY <1>1, <2>3 DEF ReachFor
    <2>4. QED
      BY <2>1, <2>2, <2>3
  <1>12. QED
    BY <1>10, <1>11

LEMMA ServerReceiveReach ==
    ASSUME TypeInv, TabInv, ReachInv, Live, NEW k \in Conns, ServerReceive(k)
    PROVE  (\A t \in Tabs : ReachFor(t)') /\ (\A c \in Conns : Known(c)')
  <1> SUFFICES ASSUME NEW f, f = Head(up[k]), NEW h, h = site[k]
               PROVE  (\A t \in Tabs : ReachFor(t)') /\ (\A c \in Conns : Known(c)')
    OBVIOUS
  <1>1. /\ ydoc' = ydoc /\ queue' = queue /\ state' = state /\ nth' = nth
        /\ link' = link /\ seat' = seat /\ site' = site
        /\ seat[k] /\ up[k] # <<>> /\ up' = [up EXCEPT ![k] = Tail(@)]
        /\ Backfill(k, f) \/ Absorb(k, f) \/ Apply(k, f)
    BY DEF ServerReceive, doc, session
  <1>2. up[k] \in Seq(MadeFrames) /\ h \in Hosts /\ room[h] \in SUBSET Made
    BY <1>1, SeatedSite DEF TypeInv, Wires
  <1>3. /\ f \in MadeFrames /\ f \in In(up[k]) /\ In(Tail(up[k])) \subseteq In(up[k])
        /\ \A g \in In(up[k]) : g = f \/ g \in In(Tail(up[k]))
        /\ f.ids \in SUBSET Made
    <2>1. /\ f \in MadeFrames /\ f \in In(up[k]) /\ In(Tail(up[k])) \subseteq In(up[k])
          /\ \A g \in In(up[k]) : g = f \/ g \in In(Tail(up[k]))
      BY <1>1, <1>2, TailIn
    <2>2. QED
      BY <2>1 DEF MadeFrames
  <1>4. up'[k] = Tail(up[k]) /\ \A c \in Conns \ {k} : up'[c] = up[c]
    BY <1>1, <1>2 DEF TypeInv, Wires
  <1>5. /\ \A g \in Hosts : room[g] \subseteq room'[g]
        /\ f.type # "step1" => f.ids \subseteq room'[h]
    <2>1. CASE Backfill(k, f)
      BY <2>1 DEF Backfill
    <2>2. CASE Absorb(k, f) \/ Apply(k, f)
      <3>1. room' = [room EXCEPT ![h] = @ \cup f.ids] /\ room \in [Hosts -> SUBSET Made]
        BY <2>2 DEF Absorb, Apply, TypeInv, Stores
      <3>2. QED
        BY <1>2, <3>1
    <2>3. QED
      BY <1>1, <2>1, <2>2
  <1>6. /\ \A c \in Conns : ~seat[c] => down'[c] = down[c]
        /\ \A c \in Conns : \A g \in In(down'[c]) :
              \/ g \in In(down[c])
              \/ /\ seat[c] /\ g.ids \subseteq room'[site[c]]
                 /\ g.type = "step2" => c = k /\ f.type = "step1"
    <2>1. CASE Backfill(k, f)
      <3> DEFINE g == Frame("step2", Diff(room[h], f.ids))
      <3>1. g \in MadeFrames /\ g.ids \subseteq room[h]
        <4>1. Diff(room[h], f.ids) \in SUBSET Made /\ Diff(room[h], f.ids) \subseteq room[h]
          BY <1>2 DEF Diff
        <4>2. QED
          BY <4>1, FrameIn DEF Frame
      <3>2. down' = Told({k}, g) /\ f.type = "step1" /\ {k} \in SUBSET Conns
            /\ \A c \in {k} : seat[c]
        BY <1>1, <2>1 DEF Backfill
      <3> HIDE DEF g
      <3>3. /\ \A c \in Conns : ~seat[c] => down'[c] = down[c]
            /\ \A c \in Conns : \A x \in In(down'[c]) : x \in In(down[c]) \/ (c \in {k} /\ x = g)
        BY <3>1, <3>2, ToldNews
      <3>4. g.ids \subseteq room'[h]
        BY <1>2, <1>5, <3>1
      <3>5. QED
        BY <1>1, <3>2, <3>3, <3>4
    <2>2. CASE Absorb(k, f)
      BY <2>2 DEF Absorb
    <2>3. CASE Apply(k, f)
      <3>1. Others(k) \in SUBSET Conns /\ \A c \in Others(k) : seat[c] /\ site[c] = h
        BY DEF Others, Members
      <3>2. down' = Told(Others(k), f) /\ f.type = "update"
        BY <2>3 DEF Apply
      <3>3. /\ \A c \in Conns : ~seat[c] => down'[c] = down[c]
            /\ \A c \in Conns : \A x \in In(down'[c]) :
                  x \in In(down[c]) \/ (c \in Others(k) /\ x = f)
        BY <1>3, <3>1, <3>2, ToldNews
      <3>4. QED
        BY <1>5, <3>1, <3>2, <3>3
    <2>4. QED
      BY <1>1, <2>1, <2>2, <2>3
  <1>7. ASSUME NEW c \in Conns PROVE Known(c)'
    <2>1. seat[c] => site[c] \in Hosts
      BY SeatedSite
    <2>2. QED
      BY <1>1, <1>5, <1>6, <2>1 DEF Known, ReachInv
  <1>8. ASSUME NEW t \in Tabs PROVE ReachFor(t)'
    <2>1. CASE Current(t) = k /\ state[t] # "off" /\ link[k] = "up"
      <3>1. Current(t)' = k
        BY <1>1, <2>1 DEF Current
      <3>2. Asked(t, k) => Covered(t, k)
        BY <2>1 DEF ReachInv, ReachFor
      <3>3. Asked(t, k)' => Asked(t, k)
        BY <1>1, <1>3, <1>4, <1>6 DEF Asked
      <3>4. Covered(t, k) => Covered(t, k)'
        BY <1>1, <1>2, <1>3, <1>4, <1>5 DEF Covered
      <3>5. QED
        BY <1>1, <3>1, <3>2, <3>3, <3>4 DEF ReachFor
    <2>2. CASE Current(t) # k /\ state[t] # "off"
      <3>1. Current(t) \in Conns
        BY <2>2, CurrentIn
      <3>2. seat[Current(t)] => site[Current(t)] \in Hosts
        BY <3>1, SeatedSite
      <3>3. QED
        BY <1>1, <1>4, <1>5, <1>6, <2>2, <3>1, <3>2, ReachForKept
    <2>3. CASE state[t] = "off" \/ (Current(t) = k /\ link[k] # "up")
      BY <1>1, <2>3 DEF ReachFor, Current
    <2>4. QED
      BY <2>1, <2>2, <2>3
  <1>9. QED
    BY <1>7, <1>8

LEMMA ReachStep ==
    TypeInv /\ TabInv /\ Live /\ ReachInv /\ [Next]_vars => Live' /\ ReachInv'
  <1> SUFFICES ASSUME TypeInv, TabInv, Live, ReachInv, [Next]_vars PROVE Live' /\ ReachInv'
    OBVIOUS
  <1>1. CASE UNCHANGED vars
    BY <1>1 DEF vars, Live, ReachInv, Folding, Integrated, ReachFor, Current, Unseated, Asked,
                Covered, Known
  <1>2. CASE Next
    <2>1. Live' /\ \A t \in Tabs : Folding(t)'
      BY <1>2, LiveStep, FoldingStep DEF ReachInv
    <2>2. (\A t \in Tabs : ReachFor(t)') /\ (\A k \in Conns : Known(k)')
      BY <1>2, TypeReach, FoldReach, ReceiveReach, ResendReach, OnCloseReach, ConnectReach,
         JoinReach, ServerReceiveReach, SaveReach, LeaveReach, CompactReach, FanoutReach,
         LagReach, CrashReach DEF Next
    <2>3. QED
      BY <2>1, <2>2 DEF ReachInv
  <1>3. QED
    BY <1>1, <1>2

LEMMA ReachesRoom == TypeInv /\ ReachInv => TabsReachRoom
  <1> SUFFICES ASSUME TypeInv, ReachInv, NEW t \in Tabs, Quiet(t)
               PROVE  /\ view[t] = Integrated(ydoc[t])
                      /\ ydoc[t] \subseteq room[site[Current(t)]]
    BY DEF TabsReachRoom
  <1> SUFFICES ASSUME NEW k, k = Current(t)
               PROVE  /\ view[t] = Integrated(ydoc[t]) /\ ydoc[t] \subseteq room[site[k]]
    OBVIOUS
  <1>1. /\ state[t] = "synced" /\ ~due[t] /\ ~show[t] /\ link[k] = "up" /\ seat[k]
        /\ \A n \in 1..MaxConns : up[<<t, n>>] = <<>>
    BY DEF Quiet
  <1>2. view[t] = Integrated(ydoc[t])
    BY <1>1 DEF ReachInv, Folding
  <1>3. k = <<t, nth[t]>> /\ nth[t] \in 1..MaxConns
    <2>1. nth[t] > 0 /\ nth[t] \in 0..MaxConns
      BY <1>1 DEF TypeInv, Shapes, Tied
    <2>2. nth[t] \in 1..MaxConns
      BY <2>1, SyncAssumption
    <2>3. QED
      BY <2>2 DEF Current
  <1>4. up[k] = <<>> /\ queue[t] = <<>>
    BY <1>1, <1>3 DEF TypeInv, Tied
  <1>5. Covered(t, k)
    BY <1>1 DEF ReachInv, ReachFor, Asked
  <1>6. In(<<>>) = {}
    BY DEF In
  <1>7. ydoc[t] \subseteq room[site[k]]
    BY <1>4, <1>5, <1>6 DEF Covered
  <1>8. QED
    BY <1>2, <1>7

\* However often a tab's socket was lost or moved to another instance, and
\* whatever its queue was drained into meanwhile: once it is synced and has
\* nothing to do, its instance's room has all that its user typed.
THEOREM QuietTabsReachedRoom == Spec => []TabsReachRoom
  <1>1. Init => Live
    BY DEF Init, Live
  <1>2. QED
    BY <1>1, InitTypes, TypesStep, InitTab, TabStep, InitReach, ReachStep, ReachesRoom, PTL
       DEF Spec
-----------------------------------------------------------------------------
(* What the instances agree on.                                            *)

\* The edit may be missing somewhere for good, and the model knows.
Skipped(e) == e \in silent \/ e \in pruned

\* What instance h serves, or would serve if a tab joined there.
Has(h, e) == (h \in alive /\ e \in room[h]) \/ (h \notin alive /\ e \in Stored)
Announced(h, e) == \E x \in In(inbox[h]) : e \in x

\* The edit is somewhere on the servers.
Afloat(e) ==
    \/ e \in Stored
    \/ \E h \in alive : e \in room[h]
    \/ \E k \in Conns : e \in job[k].ids
    \/ \E h \in Hosts : Announced(h, e)

\* Instance h has the edit, will be told of it, or is among those skipped.
Aware(h, e) ==
    \/ Has(h, e)
    \/ Announced(h, e)
    \/ \E k \in Conns : job[k].step = "publish" /\ site[k] # h /\ e \in job[k].ids
    \/ Skipped(e)

Spread(e) == Afloat(e) => \A h \in Hosts : Aware(h, e)

AgreeInv == \A e \in Ids : Spread(e)

LEMMA InitAgree == Init => AgreeInv
  <1>1. In(<<>>) = {}
    BY DEF In
  <1>2. QED
    BY <1>1 DEF Init, AgreeInv, Spread, Afloat, Announced, Stored, Idle

\* A step that touches neither the instances nor their work.
LEMMA SpreadKept ==
    ASSUME TypeInv, NEW e, Spread(e),
           alive' = alive, room' = room, inbox' = inbox, rows' = rows, snap' = snap,
           silent' = silent, pruned' = pruned, job' = job,
           \A k \in Conns : seat[k] => site'[k] = site[k]
    PROVE  Spread(e)' /\ (Afloat(e)' => Afloat(e))
  <1>1. \A k \in Conns : job[k].step = "publish" => site'[k] = site[k]
    BY JobSeated
  <1>2. Afloat(e)' <=> Afloat(e)
    BY DEF Afloat, Announced, Stored
  <1>3. \A h \in Hosts : Aware(h, e)' <=> Aware(h, e)
    BY <1>1 DEF Aware, Has, Announced, Skipped, Stored
  <1>4. QED
    BY <1>2, <1>3 DEF Spread

LEMMA TabSpread ==
    ASSUME TypeInv, NEW e, Spread(e), NEW t \in Tabs,
           \/ Type(t) \/ SendDue(t) \/ ClientReceive(t) \/ ShowRemote(t) \/ Resend(t)
           \/ OnClose(t) \/ \E h \in Hosts : Connect(t, h)
    PROVE  Spread(e)' /\ (Afloat(e)' => Afloat(e))
  <1>1. CASE Type(t) \/ SendDue(t) \/ ShowRemote(t) \/ Resend(t) \/ OnClose(t) \/ ClientReceive(t)
    BY <1>1, SpreadKept DEF Type, SendDue, ShowRemote, Resend, OnClose, ClientReceive,
                            cluster, store, server
  <1>2. ASSUME NEW h \in Hosts, Connect(t, h)
        PROVE  Spread(e)' /\ (Afloat(e)' => Afloat(e))
    <2> DEFINE k == <<t, nth[t] + 1>>
    <2>1. k \in Conns /\ link[k] = "unused"
      <3>1. nth[t] + 1 \in 1..MaxConns /\ k \in Conns
        BY <1>2, RoomToConnect DEF Connect
      <3>2. QED
        BY <3>1, SyncAssumption DEF TypeInv, Numbered, Shapes
    <2>2. ~seat[k] /\ site' = [site EXCEPT ![k] = h]
      BY <1>2, <2>1 DEF TypeInv, Blank, Connect
    <2> HIDE DEF k
    <2>3. \A c \in Conns : seat[c] => site'[c] = site[c]
      BY <2>1, <2>2 DEF TypeInv, Wires
    <2>4. QED
      BY <1>2, <2>3, SpreadKept DEF Connect, cluster, store
  <1>3. QED
    BY <1>1, <1>2

LEMMA JoinSpread ==
    ASSUME TypeInv, NEW e, Spread(e), NEW k \in Conns, Join(k)
    PROVE  Spread(e)' /\ (Afloat(e)' => Afloat(e))
  <1> DEFINE h == site[k]
             document == IF h \in alive THEN room[h] ELSE Stored
  <1>1. /\ h \in Hosts /\ alive' = alive \cup {h} /\ room' = [room EXCEPT ![h] = document]
        /\ inbox' = inbox /\ rows' = rows /\ snap' = snap /\ silent' = silent
        /\ pruned' = pruned /\ job' = job /\ site' = site
    BY DEF Join, store, TypeInv, Tied
  <1>2. \A g \in Hosts : room'[g] = IF g = h THEN document ELSE room[g]
    BY <1>1 DEF TypeInv, Stores
  <1>3. alive \subseteq Hosts
    BY DEF TypeInv, Stores
  <1>4. Stored' = Stored /\ \A g : Announced(g, e)' <=> Announced(g, e)
    BY <1>1 DEF Stored, Announced
  <1>5. \A g \in Hosts : Has(g, e)' <=> Has(g, e)
    BY <1>1, <1>2, <1>4 DEF Has
  <1>6. Afloat(e)' => Afloat(e)
    BY <1>1, <1>2, <1>3, <1>4 DEF Afloat
  <1>7. \A g \in Hosts : Aware(g, e) => Aware(g, e)'
    BY <1>1, <1>4, <1>5 DEF Aware, Skipped
  <1>8. QED
    BY <1>6, <1>7 DEF Spread

LEMMA ReceiveSpread ==
    ASSUME TypeInv, NEW e, Spread(e), NEW k \in Conns, ServerReceive(k)
    PROVE  Spread(e)' /\ (Afloat(e)' => Afloat(e) \/ e \in Head(up[k]).ids)
  <1> SUFFICES ASSUME NEW f, f = Head(up[k]), NEW h, h = site[k]
               PROVE  Spread(e)' /\ (Afloat(e)' => Afloat(e) \/ e \in f.ids)
    OBVIOUS
  <1>1. /\ alive' = alive /\ inbox' = inbox /\ rows' = rows /\ snap' = snap
        /\ pruned' = pruned /\ site' = site
        /\ seat[k] /\ up[k] # <<>> /\ job[k] = Idle
        /\ Backfill(k, f) \/ Absorb(k, f) \/ Apply(k, f)
    BY DEF ServerReceive, store
  <1>2. /\ h \in Hosts /\ h \in alive /\ alive \subseteq Hosts
        /\ room \in [Hosts -> SUBSET Made] /\ job[k].ids = {} /\ job[k].step = "none"
        /\ DOMAIN job = Conns
    BY <1>1, SeatedSite DEF TypeInv, Stores, Idle, Wires
  <1>3. Stored' = Stored /\ \A g : Announced(g, e)' <=> Announced(g, e)
    BY <1>1 DEF Stored, Announced
  <1>4. CASE Backfill(k, f)
    BY <1>1, <1>4, SpreadKept DEF Backfill
  <1>5. CASE Absorb(k, f)
    <2>1. /\ \A g \in Hosts : room'[g] = IF g = h THEN room[g] \cup f.ids ELSE room[g]
          /\ silent' = silent \cup (f.ids \ room[h]) /\ job' = job
      BY <1>2, <1>5 DEF Absorb
    <2>2. CASE e \in f.ids \ room[h]
      BY <2>1, <2>2 DEF Spread, Aware, Skipped
    <2>3. CASE e \notin f.ids \ room[h]
      <3>1. \A g \in Hosts : e \in room'[g] <=> e \in room[g]
        BY <2>1, <2>3
      <3>2. Afloat(e)' => Afloat(e)
        BY <1>1, <1>2, <1>3, <2>1, <3>1 DEF Afloat
      <3>3. \A g \in Hosts : Aware(g, e) => Aware(g, e)'
        BY <1>1, <1>3, <2>1, <3>1 DEF Aware, Skipped, Has
      <3>4. QED
        BY <3>2, <3>3 DEF Spread
    <2>4. QED
      BY <2>2, <2>3
  <1>6. CASE Apply(k, f)
    <2>1. /\ \A g \in Hosts : room'[g] = IF g = h THEN room[g] \cup f.ids ELSE room[g]
          /\ silent' = silent
          /\ \A c \in Conns : job'[c] = IF c = k THEN [step |-> "publish", ids |-> f.ids]
                                                 ELSE job[c]
      BY <1>2, <1>6 DEF Apply
    <2>2. CASE e \in f.ids
      <3>0. job'[k] = [step |-> "publish", ids |-> f.ids]
        BY <2>1
      <3>1. job'[k].step = "publish" /\ e \in job'[k].ids /\ e \in room'[h] /\ site'[k] = h
        <4>1. e \in room'[h] /\ site'[k] = h
          BY <1>1, <1>2, <2>1, <2>2
        <4>2. QED
          BY <2>2, <3>0, <4>1
      <3>2. \A g \in Hosts : Aware(g, e)'
        BY <1>1, <1>2, <3>1 DEF Aware, Has
      <3>3. Spread(e)'
        BY <3>2 DEF Spread
      <3>4. QED
        BY <2>2, <3>3
    <2>3. CASE e \notin f.ids
      <3>1. \A g \in Hosts : e \in room'[g] <=> e \in room[g]
        BY <2>1, <2>3
      <3>2. \A c \in Conns : /\ e \in job'[c].ids <=> e \in job[c].ids
                             /\ e \in job[c].ids => job'[c] = job[c]
        BY <1>2, <2>1, <2>3
      <3>3. Afloat(e)' => Afloat(e)
        BY <1>1, <1>2, <1>3, <3>1, <3>2 DEF Afloat
      <3>4. \A g \in Hosts : Aware(g, e) => Aware(g, e)'
        BY <1>1, <1>3, <2>1, <3>1, <3>2 DEF Aware, Skipped, Has
      <3>5. QED
        BY <3>3, <3>4 DEF Spread
    <2>4. QED
      BY <2>2, <2>3
  <1>7. QED
    BY <1>1, <1>4, <1>5, <1>6

\* What a frame's handler does with its work, as the instances see it.
LEMMA WorkSpread ==
    ASSUME TypeInv, NEW e, Spread(e), NEW k \in Conns,
           Publish(k) \/ Save(k) \/ SaveFails(k) \/ Cut(k)
    PROVE  Spread(e)' /\ (Afloat(e)' => Afloat(e))
  <1>1. /\ alive' = alive /\ room' = room /\ snap' = snap /\ site' = site
        /\ pruned' = pruned
    BY DEF Publish, Save, SaveFails, Cut, store, server, cluster
  <1>2. job \in [Conns -> [step : {"none", "publish", "save"}, ids : SUBSET Made]]
    BY DEF TypeInv, Wires
  <1>3. CASE Cut(k)
    BY <1>3, SpreadKept DEF Cut, cluster, store, server
  <1>4. CASE Publish(k)
    <2>1. /\ job[k].step = "publish" /\ rows' = rows
          /\ \A c \in Conns : job'[c].ids = job[c].ids /\ (c # k => job'[c] = job[c])
      BY <1>2, <1>4 DEF Publish, store
    <2>2. Stored' = Stored
      BY <1>1, <2>1 DEF Stored
    <2>3. CASE inbox' = [g \in Hosts |-> IF g = site[k] THEN inbox[g]
                                         ELSE Append(inbox[g], job[k].ids)]
               /\ silent' = silent
      <3>1. job[k].ids \in SUBSET Made
        BY <1>2
      <3>2. \A g \in Hosts : Announced(g, e)' <=>
               Announced(g, e) \/ (g # site[k] /\ e \in job[k].ids)
        <4>1. SUFFICES ASSUME NEW g \in Hosts
                       PROVE  Announced(g, e)' <=>
                                Announced(g, e) \/ (g # site[k] /\ e \in job[k].ids)
          OBVIOUS
        <4>2. CASE g = site[k]
          BY <2>3, <4>2 DEF Announced
        <4>3. CASE g # site[k]
          <5>1. inbox'[g] = Append(inbox[g], job[k].ids) /\ inbox[g] \in Seq(SUBSET Made)
            BY <2>3, <4>3 DEF TypeInv, Stores
          <5>2. In(inbox'[g]) = In(inbox[g]) \cup {job[k].ids}
            BY <3>1, <5>1, InSequences
          <5>3. QED
            BY <4>3, <5>2 DEF Announced
        <4>4. QED
          BY <4>2, <4>3
      <3>3. Afloat(e)' => Afloat(e)
        BY <1>1, <2>1, <2>2, <3>2 DEF Afloat
      <3>4. \A g \in Hosts : Aware(g, e) => Aware(g, e)'
        BY <1>1, <2>1, <2>2, <2>3, <3>2 DEF Aware, Has, Skipped
      <3>5. QED
        BY <3>3, <3>4 DEF Spread
    <2>4. CASE inbox' = inbox /\ silent' = silent \cup job[k].ids
      <3>1. \A g \in Hosts : Announced(g, e)' <=> Announced(g, e)
        BY <2>4 DEF Announced
      <3>2. Afloat(e)' => Afloat(e)
        BY <1>1, <2>1, <2>2, <3>1 DEF Afloat
      <3>3. \A g \in Hosts : Aware(g, e) => Aware(g, e)'
        BY <1>1, <2>1, <2>2, <2>4, <3>1 DEF Aware, Has, Skipped
      <3>4. QED
        BY <3>2, <3>3 DEF Spread
    <2>5. QED
      BY <1>4, <2>3, <2>4 DEF Publish
  <1>5. CASE Save(k) \/ SaveFails(k)
    <2>1. /\ job[k].step = "save" /\ job' = [job EXCEPT ![k] = Idle]
          /\ inbox' = inbox /\ silent' = silent
          /\ rows' = rows \/ rows' = rows \cup job[k].ids
      BY <1>5 DEF Save, SaveFails, cluster, store
    <2>2. \A c \in Conns : IF c = k THEN job'[c] = Idle ELSE job'[c] = job[c]
      BY <1>2, <2>1
    <2>3. Idle.ids = {} /\ \A g \in Hosts : Announced(g, e)' <=> Announced(g, e)
      BY <2>1 DEF Announced, Idle
    <2>4. Afloat(e)' => Afloat(e)
      BY <1>1, <2>1, <2>2, <2>3 DEF Afloat, Stored
    <2>5. \A g \in Hosts : Aware(g, e) => Aware(g, e)'
      BY <1>1, <2>1, <2>2, <2>3 DEF Aware, Has, Skipped, Stored
    <2>6. QED
      BY <2>4, <2>5 DEF Spread
  <1>6. QED
    BY <1>3, <1>4, <1>5

LEMMA LeaveSpread ==
    ASSUME TypeInv, NEW e, Spread(e), NEW k \in Conns, Leave(k)
    PROVE  Spread(e)' /\ (Afloat(e)' => Afloat(e))
  <1>1. /\ alive' = alive /\ room' = room /\ inbox' = inbox /\ rows' = rows /\ snap' = snap
        /\ pruned' = pruned /\ silent' = silent \cup job[k].ids
    BY DEF Leave, cluster, store
  <1>2. \A c \in Conns : IF c = k THEN job'[c] = Idle
                         ELSE job'[c] = job[c] /\ site'[c] = site[c]
    BY DEF Leave, TypeInv, Wires
  <1>3. Idle.ids = {}
    BY DEF Idle
  <1>4. Afloat(e)' => Afloat(e)
    BY <1>1, <1>2, <1>3 DEF Afloat, Stored, Announced
  <1>5. \A g \in Hosts : Aware(g, e) => Aware(g, e)'
    BY <1>1, <1>2 DEF Aware, Has, Skipped, Stored, Announced
  <1>6. QED
    BY <1>4, <1>5 DEF Spread

LEMMA CompactSpread ==
    ASSUME TypeInv, NEW e, Spread(e), NEW h \in Hosts, Compact(h)
    PROVE  Spread(e)' /\ (Afloat(e)' => Afloat(e))
  <1>1. /\ h \in alive /\ alive' = alive \ {h} /\ inbox' = inbox /\ job' = job /\ site' = site
        /\ \A g \in Hosts \ {h} : room'[g] = room[g]
        /\ silent \subseteq silent' /\ pruned \subseteq pruned'
        /\ alive \subseteq Hosts
    BY DEF Compact, server, store, TypeInv, Stores
  <1>2. \A x \in room[h] : x \in Stored' \/ x \in silent'
    BY DEF Compact, store, Stored
  <1>3. \A x \in Stored : x \in Stored' \/ x \in pruned'
    BY DEF Compact, store, Stored
  <1>4. \A x \in Stored' : x \in Stored \/ x \in room[h]
    BY DEF Compact, store, Stored
  <1>5. \A g : Announced(g, e)' <=> Announced(g, e)
    BY <1>1 DEF Announced
  <1>6. Afloat(e)' => Afloat(e)
    BY <1>1, <1>4, <1>5 DEF Afloat
  <1>7. \A g \in Hosts : Aware(g, e) => Aware(g, e)'
    BY <1>1, <1>2, <1>3, <1>5 DEF Aware, Has, Skipped
  <1>8. QED
    BY <1>6, <1>7 DEF Spread

\* The first message of an inbox is taken.
LEMMA InboxTaken ==
    ASSUME TypeInv, NEW e, NEW h \in Hosts, inbox[h] # <<>>,
           inbox' = [inbox EXCEPT ![h] = Tail(@)]
    PROVE  /\ \A g \in Hosts \ {h} : Announced(g, e)' <=> Announced(g, e)
           /\ Announced(h, e) <=> e \in Head(inbox[h]) \/ Announced(h, e)'
  <1>1. inbox \in [Hosts -> Seq(SUBSET Made)]
    BY DEF TypeInv, Stores
  <1>2. inbox[h] \in Seq(SUBSET Made) /\ {} \in SUBSET Made
    BY <1>1
  <1>3. In(inbox[h]) = {Head(inbox[h])} \cup In(Tail(inbox[h]))
    BY <1>2, InSequences
  <1>4. inbox'[h] = Tail(inbox[h]) /\ \A g \in Hosts \ {h} : inbox'[g] = inbox[g]
    BY <1>1
  <1>5. QED
    BY <1>3, <1>4 DEF Announced

LEMMA FanoutSpread ==
    ASSUME TypeInv, NEW e, Spread(e), NEW h \in Hosts, Fanout(h) \/ Lag(h)
    PROVE  Spread(e)' /\ (Afloat(e)' => Afloat(e))
  <1> SUFFICES ASSUME NEW ids, ids = Head(inbox[h])
               PROVE  Spread(e)' /\ (Afloat(e)' => Afloat(e))
    OBVIOUS
  <1>1. /\ alive' = alive /\ job' = job /\ site' = site /\ rows' = rows /\ snap' = snap
        /\ pruned' = pruned /\ silent \subseteq silent'
        /\ inbox[h] # <<>> /\ inbox' = [inbox EXCEPT ![h] = Tail(@)]
        /\ alive \subseteq Hosts
    BY DEF Fanout, Lag, server, store, TypeInv, Stores
  <1>2. /\ \A g \in Hosts \ {h} : room'[g] = room[g]
        /\ room[h] \subseteq room'[h] /\ \A x \in room'[h] : x \in room[h] \/ x \in ids
        /\ \A x \in ids : \/ h \in alive /\ x \in room'[h]
                          \/ h \notin alive /\ x \in Stored
                          \/ x \in silent'
    BY DEF Fanout, Lag, TypeInv, Stores
  <1>3. /\ \A g \in Hosts \ {h} : Announced(g, e)' <=> Announced(g, e)
        /\ Announced(h, e) <=> e \in ids \/ Announced(h, e)'
    BY <1>1, InboxTaken
  <1>4. Stored' = Stored
    BY <1>1 DEF Stored
  <1>5. Afloat(e)' => Afloat(e)
    BY <1>1, <1>2, <1>3, <1>4 DEF Afloat
  <1>6. \A g \in Hosts : Has(g, e) => Has(g, e)'
    BY <1>1, <1>2, <1>4 DEF Has
  <1>7. \A g \in Hosts : Announced(g, e) => Announced(g, e)' \/ Has(g, e)' \/ Skipped(e)'
    BY <1>1, <1>2, <1>3, <1>4 DEF Has, Skipped
  <1>8. \A g \in Hosts : Aware(g, e) => Aware(g, e)'
    BY <1>1, <1>6, <1>7 DEF Aware, Skipped
  <1>9. QED
    BY <1>5, <1>8 DEF Spread

LEMMA CrashSpread ==
    ASSUME TypeInv, NEW e, Spread(e), NEW h \in Hosts, Crash(h)
    PROVE  Spread(e)' /\ (Afloat(e)' => Afloat(e))
  <1>1. /\ h \in alive /\ alive' = alive \ {h} /\ rows' = rows /\ snap' = snap
        /\ pruned' = pruned /\ alive \subseteq Hosts
        /\ \A g \in Hosts \ {h} : room'[g] = room[g] /\ inbox'[g] = inbox[g]
        /\ inbox'[h] = <<>>
    BY DEF Crash, store, TypeInv, Stores
  <1>2. \A k \in Conns : IF site[k] = h THEN job'[k] = Idle
                         ELSE job'[k] = job[k] /\ site'[k] = site[k]
    BY DEF Crash
  <1>3. /\ silent \subseteq silent'
        /\ \A x \in room[h] : x \in Stored \/ x \in silent'
        /\ \A k \in Conns : site[k] = h => job[k].ids \subseteq silent'
    BY DEF Crash
  <1>4. \A x : Announced(h, x) => x \in silent'
    <2>1. inbox[h] \in Seq(SUBSET Made)
      BY DEF TypeInv, Stores
    <2>2. DOMAIN inbox[h] = 1..Len(inbox[h])
      BY <2>1, LenProperties
    <2>3. QED
      BY <2>2 DEF Crash, Announced, In
  <1>5. /\ Stored' = Stored /\ Idle.ids = {} /\ In(<<>>) = {}
        /\ \A g \in Hosts \ {h} : Announced(g, e)' <=> Announced(g, e)
        /\ ~Announced(h, e)'
    BY <1>1 DEF Stored, Idle, In, Announced
  <1>6. Afloat(e)' => Afloat(e)
    BY <1>1, <1>2, <1>5 DEF Afloat
  <1>7. \A g \in Hosts : Aware(g, e) => Aware(g, e)'
    BY <1>1, <1>2, <1>3, <1>4, <1>5 DEF Aware, Has, Skipped
  <1>8. QED
    BY <1>6, <1>7 DEF Spread

LEMMA AgreeStep == TypeInv /\ AgreeInv /\ [Next]_vars => AgreeInv'
  <1> SUFFICES ASSUME TypeInv, AgreeInv, [Next]_vars, NEW e \in Ids PROVE Spread(e)'
    BY DEF AgreeInv
  <1>1. Spread(e)
    BY DEF AgreeInv
  <1>2. CASE UNCHANGED vars
    BY <1>1, <1>2, SpreadKept DEF vars
  <1>3. CASE Next
    BY <1>1, <1>3, TabSpread, JoinSpread, ReceiveSpread, WorkSpread, LeaveSpread,
       CompactSpread, FanoutSpread, CrashSpread DEF Next
  <1>4. QED
    BY <1>2, <1>3-----------------------------------------------------------------------------
(* What a tab is told.                                                     *)

\* What a tab sends, or has queued, its own document has.
SourceInv ==
    /\ \A k \in Conns : \A f \in In(up[k]) : f.ids \subseteq ydoc[k[1]]
    /\ \A t \in Tabs : \A q \in In(queue[t]) : q \subseteq ydoc[t]

LEMMA InitSource == Init => SourceInv
  <1>1. In(<<>>) = {}
    BY DEF In
  <1>2. \A k \in Conns : k[1] \in Tabs
    BY DEF Conns
  <1>3. QED
    BY <1>1, <1>2 DEF Init, SourceInv

LEMMA FlushSource ==
    ASSUME TypeInv, TabInv, SourceInv, NEW t \in Tabs, NEW synced \in BOOLEAN,
           synced => state[t] # "off", FoldAndFlush(t, synced),
           Folded(t) \subseteq ydoc'[t], \A s \in Tabs \ {t} : ydoc'[s] = ydoc[s]
    PROVE  SourceInv'
  <1>1. Observed(t) \in Seq(SUBSET Made) /\ Fresh(t) \in SUBSET Made
        /\ queue[t] \in Seq(SUBSET Made)
    BY FoldShapes DEF TypeInv, Shapes
  <1>2. ydoc[t] \subseteq ydoc'[t] /\ Fresh(t) \subseteq ydoc'[t]
    BY FoldKeeps DEF Folded
  <1>3. \A q \in In(Observed(t)) : q \subseteq ydoc'[t]
    <2>1. In(Append(queue[t], Fresh(t))) = In(queue[t]) \cup {Fresh(t)}
      BY <1>1, InSequences
    <2>2. QED
      BY <1>2, <2>1 DEF Observed, SourceInv
  <1>4. In(<<>>) = {}
    BY DEF In
  <1>5. \A s \in Tabs : \A q \in In(queue'[s]) : q \subseteq ydoc'[s]
    <2>1. queue'[t] = IF synced THEN <<>> ELSE Observed(t)
      BY FlushShapes
    <2>2. \A s \in Tabs \ {t} : queue'[s] = queue[s]
      BY FlushShapes
    <2>3. QED
      BY <1>3, <1>4, <2>1, <2>2 DEF SourceInv
  <1>6. \A c \in Conns : c[1] \in Tabs /\ ydoc[c[1]] \subseteq ydoc'[c[1]]
    BY <1>2 DEF Conns
  <1>7. ASSUME NEW c \in Conns, NEW f \in In(up'[c]) PROVE f.ids \subseteq ydoc'[c[1]]
    <2>1. CASE f \in In(up[c])
      BY <1>6, <2>1 DEF SourceInv
    <2>2. CASE f \notin In(up[c])
      <3>1. synced /\ c = Current(t)
        BY <1>7, <2>2, FlushShapes
      <3>2. up'[c] = up[c] \/ up'[c] = up[c] \o Updates(Observed(t))
        BY <3>1, FlushShapes
      <3>3. /\ Updates(Observed(t)) \in Seq(MadeFrames) /\ up[c] \in Seq(MadeFrames)
            /\ Frame("update", {}) \in MadeFrames
        BY <1>1, UpdateFrames, FrameIn DEF TypeInv, Wires
      <3>4. In(up[c] \o Updates(Observed(t))) = In(up[c]) \cup In(Updates(Observed(t)))
        BY <3>3, InSequences
      <3>5. f \in In(Updates(Observed(t)))
        BY <1>7, <2>2, <3>2, <3>4
      <3>6. f.ids \in In(Observed(t))
        BY <1>1, <3>5, InUpdates
      <3>7. c[1] = t
        BY <3>1 DEF Current
      <3>8. QED
        BY <1>3, <3>6, <3>7
    <2>3. QED
      BY <2>1, <2>2
  <1>8. QED
    BY <1>5, <1>7 DEF SourceInv

\* The tab sends its own frames, none with more than its document.
LEMMA SentSource ==
    ASSUME TypeInv, SourceInv, NEW t \in Tabs, Current(t) \in Conns,
           NEW frames \in Seq(MadeFrames), \A f \in In(frames) : f.ids \subseteq ydoc[t],
           up' = Sent(Current(t), frames), ydoc' = ydoc, queue' = queue
    PROVE  SourceInv'
  <1> SUFFICES ASSUME NEW k \in Conns, k = Current(t) PROVE SourceInv'
    OBVIOUS
  <1>1. /\ \A c \in Conns \ {k} : up'[c] = up[c]
        /\ up'[k] = up[k] \/ up'[k] = up[k] \o frames
    BY SentShape
  <1>2. up[k] \in Seq(MadeFrames) /\ Frame("update", {}) \in MadeFrames
    BY FrameIn DEF TypeInv, Wires
  <1>3. In(up[k] \o frames) = In(up[k]) \cup In(frames)
    BY <1>2, InSequences
  <1>4. k[1] = t
    BY DEF Current
  <1>5. QED
    BY <1>1, <1>3, <1>4 DEF SourceInv

LEMMA ServerSource ==
    ASSUME TypeInv, SourceInv, ydoc' = ydoc, queue' = queue,
           \A k \in Conns : In(up'[k]) \subseteq In(up[k])
    PROVE  SourceInv'
  BY DEF SourceInv

LEMMA TabSource ==
    ASSUME TypeInv, TabInv, SourceInv, NEW t \in Tabs,
           \/ Type(t) \/ SendDue(t) \/ ClientReceive(t) \/ ShowRemote(t) \/ Resend(t)
           \/ OnClose(t) \/ \E h \in Hosts : Connect(t, h)
    PROVE  SourceInv' /\ \A s \in Tabs : ydoc[s] \subseteq ydoc'[s]
  <1>1. CASE Type(t) \/ OnClose(t) \/ \E h \in Hosts : Connect(t, h)
    <2>1. ydoc' = ydoc /\ queue' = queue /\ up' = up
      BY <1>1 DEF Type, OnClose, Connect, doc, wire
    <2>2. QED
      BY <2>1, ServerSource
  <1>2. CASE SendDue(t) \/ ShowRemote(t)
    <2>1. ydoc' = [ydoc EXCEPT ![t] = Folded(t)] /\ FoldAndFlush(t, state[t] = "synced")
      BY <1>2 DEF SendDue, ShowRemote
    <2>2. ydoc'[t] = Folded(t) /\ \A s \in Tabs \ {t} : ydoc'[s] = ydoc[s]
      BY <2>1 DEF TypeInv, Shapes
    <2>3. SourceInv'
      BY <2>1, <2>2, FlushSource
    <2>4. ydoc[t] \subseteq ydoc'[t]
      BY <2>2, FoldKeeps
    <2>5. QED
      BY <2>2, <2>3, <2>4
  <1>3. CASE Resend(t)
    <2>1. /\ state[t] # "off" /\ ydoc' = ydoc /\ queue' = queue
          /\ up' = Sent(Current(t), <<Frame("update", ydoc[t])>>)
      BY <1>3 DEF Resend, doc, session
    <2>2. Current(t) \in Conns /\ Frame("update", ydoc[t]) \in MadeFrames
      BY <2>1, CurrentIn, FrameIn DEF TypeInv, Shapes
    <2>3. Frame("update", ydoc[t]).ids = ydoc[t]
      BY DEF Frame
    <2>4. PICK x \in MadeFrames : x = Frame("update", ydoc[t])
      BY <2>2
    <2>5. <<x>> \in Seq(MadeFrames) /\ \A f \in In(<<x>>) : f = x
      BY DEF In
    <2>6. \A f \in In(<<x>>) : f.ids \subseteq ydoc[t]
      BY <2>3, <2>4, <2>5
    <2>7. SourceInv'
      BY <2>1, <2>2, <2>4, <2>5, <2>6, SentSource
    <2>8. QED
      BY <2>1, <2>7
  <1>4. CASE ClientReceive(t)
    <2> SUFFICES ASSUME NEW f, f = Head(down[Current(t)])
                 PROVE  SourceInv' /\ \A s \in Tabs : ydoc[s] \subseteq ydoc'[s]
      OBVIOUS
    <2>1. state[t] # "off" /\ (Merge(t, f) \/ Answer(t, f) \/ Badge(t, f))
      BY <1>4 DEF ClientReceive
    <2>2. CASE Merge(t, f)
      <3> DEFINE synced == f.type = "step2" \/ state[t] = "synced"
      <3>1. ydoc' = [ydoc EXCEPT ![t] = Folded(t) \cup f.ids] /\ FoldAndFlush(t, synced)
        BY <2>2 DEF Merge
      <3>2. ydoc'[t] = Folded(t) \cup f.ids /\ \A s \in Tabs \ {t} : ydoc'[s] = ydoc[s]
        BY <3>1 DEF TypeInv, Shapes
      <3> HIDE DEF synced
      <3>3. SourceInv'
        <4>1. PICK b \in BOOLEAN : FoldAndFlush(t, b)
          <5>1. synced \in BOOLEAN
            BY DEF synced
          <5>2. QED
            BY <3>1, <5>1
        <4>2. QED
          BY <2>1, <3>2, <4>1, FlushSource
      <3>4. ydoc[t] \subseteq ydoc'[t]
        BY <3>2, FoldKeeps
      <3>5. QED
        BY <3>2, <3>3, <3>4
    <2>3. CASE Answer(t, f)
      <3> DEFINE a == Frame("step2", Diff(ydoc[t], f.ids))
                 b == Frame("step1", Integrated(ydoc[t]))
      <3>1. up' = Sent(Current(t), <<a, b>>) /\ ydoc' = ydoc /\ queue' = queue
        BY <2>3 DEF Answer
      <3>2. /\ a \in MadeFrames /\ a.ids \subseteq ydoc[t]
            /\ b \in MadeFrames /\ b.ids \subseteq ydoc[t]
        <4>1. /\ Diff(ydoc[t], f.ids) \in SUBSET Made /\ Integrated(ydoc[t]) \in SUBSET Made
              /\ Diff(ydoc[t], f.ids) \subseteq ydoc[t] /\ Integrated(ydoc[t]) \subseteq ydoc[t]
          BY DEF Diff, Integrated, TypeInv, Shapes
        <4>2. QED
          BY <4>1, FrameIn DEF Frame
      <3> HIDE DEF a, b
      <3>3. <<a, b>> \in Seq(MadeFrames) /\ \A g \in In(<<a, b>>) : g = a \/ g = b
        BY <3>2 DEF In
      <3>4. SourceInv'
        BY <2>1, <3>1, <3>2, <3>3, CurrentIn, SentSource
      <3>5. QED
        BY <3>1, <3>4
    <2>4. CASE Badge(t, f)
      BY <2>4, ServerSource DEF Badge
    <2>5. QED
      BY <2>1, <2>2, <2>3, <2>4
  <1>5. QED
    BY <1>1, <1>2, <1>3, <1>4

\* Documents grow, and so does what their tabs may send.
LEMMA SourceStep ==
    ASSUME TypeInv, TabInv, SourceInv, Next
    PROVE  SourceInv' /\ \A t \in Tabs : ydoc[t] \subseteq ydoc'[t]
  <1> DEFINE Goal == SourceInv' /\ \A t \in Tabs : ydoc[t] \subseteq ydoc'[t]
  <1>0. In(<<>>) = {}
    BY DEF In
  <1>1. ASSUME NEW k \in Conns,
               Join(k) \/ Publish(k) \/ Save(k) \/ SaveFails(k) \/ Leave(k) \/ Cut(k)
        PROVE  Goal
    <2>1. ydoc' = ydoc /\ queue' = queue
      BY <1>1 DEF Join, Publish, Save, SaveFails, Leave, Cut, doc, session
    <2>2. \A c \in Conns : up'[c] = up[c] \/ up'[c] = <<>>
      BY <1>1 DEF Join, Publish, Save, SaveFails, Leave, Cut, wire, TypeInv, Wires
    <2>3. QED
      BY <1>0, <2>1, <2>2, ServerSource
  <1>2. ASSUME NEW k \in Conns, ServerReceive(k) PROVE Goal
    <2>1. ydoc' = ydoc /\ queue' = queue /\ up[k] # <<>> /\ up' = [up EXCEPT ![k] = Tail(@)]
      BY <1>2 DEF ServerReceive, doc, session
    <2>2. up[k] \in Seq(MadeFrames)
      BY DEF TypeInv, Wires
    <2>3. In(Tail(up[k])) \subseteq In(up[k])
      BY <2>1, <2>2, TailIn
    <2>4. \A c \in Conns : up'[c] = up[c] \/ (c = k /\ up'[c] = Tail(up[k]))
      BY <2>1 DEF TypeInv, Wires
    <2>5. QED
      BY <2>1, <2>3, <2>4, ServerSource
  <1>3. ASSUME NEW h \in Hosts, Compact(h) \/ Fanout(h) \/ Lag(h) \/ Crash(h) PROVE Goal
    <2>1. ydoc' = ydoc /\ queue' = queue
      BY <1>3 DEF Compact, Fanout, Lag, Crash, doc, session
    <2>2. \A c \in Conns : up'[c] = up[c] \/ up'[c] = <<>>
      BY <1>3 DEF Compact, Fanout, Lag, Crash, wire
    <2>3. QED
      BY <1>0, <2>1, <2>2, ServerSource
  <1>4. ASSUME NEW t \in Tabs,
               \/ Type(t) \/ SendDue(t) \/ ClientReceive(t) \/ ShowRemote(t) \/ Resend(t)
               \/ OnClose(t) \/ \E h \in Hosts : Connect(t, h)
        PROVE  Goal
    BY <1>4, TabSource
  <1> HIDE DEF Goal
  <1>5. Goal
    BY <1>1, <1>2, <1>3, <1>4 DEF Next
  <1>6. QED
    BY <1>5 DEF Goal
\* An edit is on its way to the client.
Brought(k, e) == \E f \in In(down[k]) : f.type \in {"step2", "update"} /\ e \in f.ids

\* The client has the difference the instance owed it, or it is on its way.
Briefed(t, k) == state[t] = "synced" \/ \E f \in In(down[k]) : f.type = "step2"

\* From then on, whatever enters the room comes down the connection, unless
\* it is skipped.
TellFor(t) ==
    state[t] # "off" /\ seat[Current(t)] /\ Briefed(t, Current(t)) =>
        \A e \in room[site[Current(t)]] :
            e \in ydoc[t] \/ Brought(Current(t), e) \/ Skipped(e)

TellInv == \A t \in Tabs : TellFor(t)

\* Frames are told after those that are there.
LEMMA ToldAll ==
    ASSUME TypeInv, NEW who \in SUBSET Conns, NEW f \in MadeFrames, down' = Told(who, f)
    PROVE  \A k \in Conns : /\ In(down[k]) \subseteq In(down'[k])
                            /\ k \in who => f \in In(down'[k])
                            /\ \A g \in In(down'[k]) : g \in In(down[k]) \/ g = f
  <1> SUFFICES ASSUME NEW k \in Conns
               PROVE  /\ In(down[k]) \subseteq In(down'[k])
                      /\ k \in who => f \in In(down'[k])
                      /\ \A g \in In(down'[k]) : g \in In(down[k]) \/ g = f
    OBVIOUS
  <1>1. down'[k] = IF k \in who THEN Append(down[k], f) ELSE down[k]
    BY DEF Told
  <1>2. down[k] \in Seq(MadeFrames)
    BY DEF TypeInv, Wires
  <1>3. In(Append(down[k], f)) = In(down[k]) \cup {f}
    BY <1>2, InSequences
  <1>4. CASE k \in who
    <2>1. In(down'[k]) = In(down[k]) \cup {f}
      BY <1>1, <1>3, <1>4
    <2>2. QED
      BY <2>1
  <1>5. CASE k \notin who
    <2>1. down'[k] = down[k]
      BY <1>1, <1>5
    <2>2. QED
      BY <1>5, <2>1
  <1>6. QED
    BY <1>4, <1>5

LEMMA TellKept ==
    ASSUME NEW t \in Tabs, TellFor(t), NEW k, k = Current(t),
           state'[t] = state[t], nth'[t] = nth[t], ydoc[t] \subseteq ydoc'[t],
           silent \subseteq silent', pruned \subseteq pruned',
           state[t] # "off" /\ seat'[k] =>
              /\ seat[k] /\ site'[k] = site[k]
              /\ In(down[k]) \subseteq In(down'[k])
              /\ \A f \in In(down'[k]) : f.type = "step2" => f \in In(down[k])
              /\ \A e \in room'[site[k]] :
                    e \in room[site[k]] \/ e \in ydoc'[t] \/ Brought(k, e)' \/ Skipped(e)'
    PROVE  TellFor(t)'
  <1>1. Current(t)' = k
    BY DEF Current
  <1>2. SUFFICES ASSUME state[t] # "off", seat'[k], Briefed(t, k)', NEW e \in room'[site'[k]]
                 PROVE  e \in ydoc'[t] \/ Brought(k, e)' \/ Skipped(e)'
    BY <1>1 DEF TellFor
  <1>3. /\ seat[k] /\ site'[k] = site[k] /\ In(down[k]) \subseteq In(down'[k])
        /\ \A f \in In(down'[k]) : f.type = "step2" => f \in In(down[k])
        /\ e \in room[site[k]] \/ e \in ydoc'[t] \/ Brought(k, e)' \/ Skipped(e)'
    BY <1>2
  <1>4. Briefed(t, k)
    BY <1>2, <1>3 DEF Briefed
  <1>5. e \in room[site[k]] => e \in ydoc[t] \/ Brought(k, e) \/ Skipped(e)
    BY <1>2, <1>3, <1>4 DEF TellFor
  <1>6. Brought(k, e) => Brought(k, e)'
    BY <1>3 DEF Brought
  <1>7. Skipped(e) => Skipped(e)'
    BY DEF Skipped
  <1>8. QED
    BY <1>3, <1>5, <1>6, <1>7

\* A step of an instance or of the network.
LEMMA ServerTells ==
    ASSUME TypeInv, TellInv, ydoc' = ydoc, state' = state, nth' = nth,
           silent \subseteq silent', pruned \subseteq pruned',
           \A k \in Conns : seat'[k] =>
              /\ seat[k] /\ site'[k] = site[k]
              /\ In(down[k]) \subseteq In(down'[k])
              /\ \A f \in In(down'[k]) : f.type = "step2" => f \in In(down[k])
              /\ \A e \in room'[site[k]] :
                    e \in room[site[k]] \/ e \in ydoc'[k[1]] \/ Brought(k, e)' \/ Skipped(e)'
    PROVE  TellInv'
  <1> SUFFICES ASSUME NEW t \in Tabs PROVE TellFor(t)'
    BY DEF TellInv
  <1>1. CASE state[t] = "off"
    BY <1>1 DEF TellFor
  <1>2. CASE state[t] # "off"
    <2>1. PICK k \in Conns : k = Current(t)
      BY <1>2, CurrentIn
    <2>2. k[1] = t /\ TellFor(t)
      BY <2>1 DEF Current, TellInv
    <2>3. QED
      BY <2>1, <2>2, TellKept
  <1>3. QED
    BY <1>1, <1>2

\* A step of one tab leaves what the others are told alone.
LEMMA ClientTells ==
    ASSUME TypeInv, TellInv, NEW t \in Tabs, TellFor(t)',
           seat' = seat, room' = room, silent' = silent, pruned' = pruned,
           \A s \in Tabs \ {t} : ydoc'[s] = ydoc[s] /\ state'[s] = state[s] /\ nth'[s] = nth[s],
           \A k \in Conns : k[1] # t => down'[k] = down[k] /\ site'[k] = site[k]
    PROVE  TellInv'
  <1> SUFFICES ASSUME NEW s \in Tabs \ {t} PROVE TellFor(s)'
    BY DEF TellInv
  <1>1. CASE state[s] = "off"
    BY <1>1 DEF TellFor
  <1>2. CASE state[s] # "off"
    <2>1. PICK k \in Conns : k = Current(s)
      BY <1>2, CurrentIn
    <2>2. k[1] = s /\ TellFor(s)
      BY <2>1 DEF Current, TellInv
    <2>3. down'[k] = down[k] /\ site'[k] = site[k]
      BY <2>1, <2>2
    <2>4. QED
      BY <2>1, <2>2, <2>3, TellKept
  <1>3. QED
    BY <1>1, <1>2

LEMMA TabTells ==
    ASSUME TypeInv, TabInv, SourceInv, TellInv, NEW t \in Tabs,
           \/ Type(t) \/ SendDue(t) \/ ClientReceive(t) \/ ShowRemote(t) \/ Resend(t)
           \/ OnClose(t) \/ \E h \in Hosts : Connect(t, h)
    PROVE  TellInv'
  <1> SUFFICES ASSUME NEW k, k = Current(t) PROVE TellInv'
    OBVIOUS
  <1>0. k[1] = t /\ TellFor(t) /\ ydoc[t] \subseteq ydoc'[t]
    BY TabSource DEF Current, TellInv
  <1>1. /\ seat' = seat /\ room' = room /\ silent' = silent /\ pruned' = pruned
    BY DEF Type, SendDue, ClientReceive, ShowRemote, Resend, OnClose, Connect, server, cluster
  <1>2. CASE Type(t) \/ SendDue(t) \/ ShowRemote(t) \/ Resend(t)
    <2>1. down' = down /\ site' = site /\ state' = state /\ nth' = nth
      BY <1>2 DEF Type, SendDue, ShowRemote, Resend, wire, server, session
    <2>2. \A s \in Tabs \ {t} : ydoc'[s] = ydoc[s]
      BY <1>2 DEF Type, SendDue, ShowRemote, Resend, doc, TypeInv, Shapes
    <2>3. TellFor(t)'
      BY <1>0, <1>1, <2>1, TellKept
    <2>4. QED
      BY <1>1, <2>1, <2>2, <2>3, ClientTells
  <1>3. CASE ClientReceive(t)
    <2> SUFFICES ASSUME NEW f, f = Head(down[k]) PROVE TellInv'
      OBVIOUS
    <2>1. /\ state[t] # "off" /\ down[k] # <<>> /\ site' = site /\ nth' = nth
          /\ down' = [down EXCEPT ![k] = Tail(@)]
          /\ Merge(t, f) \/ Answer(t, f) \/ Badge(t, f)
      BY <1>3 DEF ClientReceive, server
    <2>2. k \in Conns /\ down[k] \in Seq(MadeFrames)
      BY <2>1, CurrentIn DEF TypeInv, Wires
    <2>3. /\ f \in In(down[k]) /\ In(Tail(down[k])) \subseteq In(down[k])
          /\ \A g \in In(down[k]) : g = f \/ g \in In(Tail(down[k]))
      BY <2>1, <2>2, TailIn
    <2>4. down'[k] = Tail(down[k]) /\ \A c \in Conns \ {k} : down'[c] = down[c]
      BY <2>1, <2>2 DEF TypeInv, Wires
    <2>5. /\ f.type \in {"step2", "update"} => f.ids \subseteq ydoc'[t]
          /\ state'[t] = state[t] \/ (state'[t] = "synced" /\ f.type = "step2")
          /\ \A s \in Tabs \ {t} : ydoc'[s] = ydoc[s] /\ state'[s] = state[s]
      <3>1. CASE Merge(t, f)
        <4>1. /\ ydoc' = [ydoc EXCEPT ![t] = Folded(t) \cup f.ids]
              /\ \/ state' = [state EXCEPT ![t] = "synced"] /\ f.type = "step2"
                 \/ state' = state
          BY <3>1 DEF Merge, TypeInv, Shapes
        <4>2. QED
          BY <4>1 DEF TypeInv, Shapes
      <3>2. CASE Answer(t, f) \/ Badge(t, f)
        BY <3>2 DEF Answer, Badge
      <3>3. QED
        BY <2>1, <3>1, <3>2
    <2>6. Current(t)' = k
      BY <2>1 DEF Current
    <2>7. Briefed(t, k)' => Briefed(t, k)
      BY <2>3, <2>4, <2>5 DEF Briefed
    <2>8. \A e : Brought(k, e) => Brought(k, e)' \/ e \in ydoc'[t]
      BY <2>3, <2>4, <2>5 DEF Brought
    <2>9. \A e : Skipped(e) => Skipped(e)'
      BY <1>1 DEF Skipped
    <2>10. seat[k] /\ Briefed(t, k) =>
              \A e \in room[site[k]] : e \in ydoc[t] \/ Brought(k, e) \/ Skipped(e)
      BY <1>0, <2>1 DEF TellFor
    <2>11. TellFor(t)'
      BY <1>0, <1>1, <2>1, <2>6, <2>7, <2>8, <2>9, <2>10 DEF TellFor
    <2>12. \A c \in Conns : c[1] # t => down'[c] = down[c]
      BY <1>0, <2>4
    <2>13. QED
      BY <1>1, <2>1, <2>5, <2>11, <2>12, ClientTells
  <1>4. CASE OnClose(t)
    <2>1. /\ ydoc' = ydoc /\ nth' = nth /\ site' = site
          /\ state' = [state EXCEPT ![t] = "off"] /\ down' = [down EXCEPT ![k] = <<>>]
      BY <1>4 DEF OnClose, doc, server
    <2>2. state'[t] = "off" /\ \A s \in Tabs \ {t} : state'[s] = state[s]
      BY <2>1 DEF TypeInv, Shapes
    <2>3. \A c \in Conns : c[1] # t => down'[c] = down[c]
      BY <1>0, <2>1 DEF TypeInv, Wires
    <2>4. TellFor(t)'
      BY <2>2 DEF TellFor
    <2>5. QED
      BY <1>1, <2>1, <2>2, <2>3, <2>4, ClientTells
  <1>5. ASSUME NEW h \in Hosts, Connect(t, h) PROVE TellInv'
    <2>0. SUFFICES ASSUME NEW c, c = <<t, nth[t] + 1>> PROVE TellInv'
      OBVIOUS
    <2>1. nth[t] + 1 \in 1..MaxConns /\ c \in Conns /\ c[1] = t
      BY <1>5, <2>0, RoomToConnect DEF Connect
    <2>2. link[c] = "unused"
      BY <2>0, <2>1, SyncAssumption DEF TypeInv, Numbered, Shapes
    <2>3. ~seat[c]
      BY <2>1, <2>2 DEF TypeInv, Blank
    <2>4. /\ ydoc' = ydoc /\ down' = down
          /\ nth' = [nth EXCEPT ![t] = @ + 1] /\ state' = [state EXCEPT ![t] = "joining"]
          /\ site' = [site EXCEPT ![c] = h]
      BY <1>5, <2>0 DEF Connect, doc
    <2>5. /\ nth'[t] = nth[t] + 1
          /\ \A s \in Tabs \ {t} : nth'[s] = nth[s] /\ state'[s] = state[s]
          /\ \A d \in Conns : d[1] # t => site'[d] = site[d]
      BY <2>1, <2>4 DEF TypeInv, Shapes, Wires
    <2>6. Current(t)' = c
      BY <2>0, <2>5 DEF Current
    <2>7. TellFor(t)'
      BY <1>1, <2>3, <2>6 DEF TellFor
    <2>8. QED
      BY <1>1, <2>4, <2>5, <2>7, ClientTells
  <1>6. QED
    BY <1>2, <1>3, <1>4, <1>5

LEMMA JoinTells ==
    ASSUME TypeInv, ReachInv, Live, TellInv, NEW k \in Conns, Join(k)
    PROVE  TellInv'
  <1> DEFINE h == site[k]
             document == IF h \in alive THEN room[h] ELSE Stored
             f == Frame("step1", Integrated(document))
  <1>1. /\ ydoc' = ydoc /\ state' = state /\ nth' = nth /\ site' = site
        /\ silent' = silent /\ pruned' = pruned /\ link[k] = "up" /\ ~seat[k]
        /\ seat' = [seat EXCEPT ![k] = TRUE] /\ down' = Told({k}, f)
        /\ room' = [room EXCEPT ![h] = document]
    BY DEF Join, doc, session
  <1>2. k[1] \in Tabs /\ Current(k[1]) = k /\ state[k[1]] # "off"
    BY <1>1 DEF Live, Current, Conns
  <1>3. state[k[1]] = "joining" /\ down[k] = <<>>
    BY <1>1, <1>2 DEF ReachInv, ReachFor, Unseated
  <1>4. h \in Hosts /\ document \in SUBSET Made
    BY <1>1 DEF TypeInv, Tied, Stores, Stored
  <1>5. f \in MadeFrames /\ f.type = "step1"
    <2>1. Integrated(document) \in SUBSET Made
      BY <1>4 DEF Integrated
    <2>2. QED
      BY <2>1, FrameIn DEF Frame
  <1>6. \A c \in Conns : seat[c] => room'[site[c]] = room[site[c]]
    BY <1>1, <1>4, SeatedSite DEF TypeInv, Stores
  <1> HIDE DEF f, document
  <1>7. /\ \A c \in Conns \ {k} : down'[c] = down[c] /\ (seat'[c] <=> seat[c])
        /\ \A g \in In(down'[k]) : g = f
    <2>1. \A c \in Conns \ {k} : down'[c] = down[c]
      BY <1>1, <1>5, TellOne
    <2>2. \A g \in In(down'[k]) : g \in In(down[k]) \/ g = f
      BY <1>1, <1>5, ToldAll
    <2>3. In(down[k]) = {}
      BY <1>3 DEF In
    <2>4. QED
      BY <1>1, <2>1, <2>2, <2>3 DEF TypeInv, Flags
  <1>8. ASSUME NEW t \in Tabs PROVE TellFor(t)'
    <2>1. CASE t = k[1]
      <3>1. Current(t)' = k
        BY <1>1, <1>2, <2>1 DEF Current
      <3>2. ~Briefed(t, k)'
        BY <1>1, <1>3, <1>5, <1>7, <2>1 DEF Briefed
      <3>3. QED
        BY <3>1, <3>2 DEF TellFor
    <2>2. CASE t # k[1] /\ state[t] # "off"
      <3>0. Current(t) \in Conns /\ Current(t)[1] = t
        BY <2>2, CurrentIn DEF Current
      <3>1. PICK c \in Conns \ {k} : c = Current(t)
        BY <2>2, <3>0
      <3>2. TellFor(t) /\ down'[c] = down[c] /\ (seat'[c] <=> seat[c])
        BY <1>7, <3>1 DEF TellInv
      <3>3. seat[c] => room'[site[c]] = room[site[c]]
        BY <1>6, <3>1
      <3>4. QED
        BY <1>1, <3>1, <3>2, <3>3, TellKept
    <2>3. CASE state[t] = "off"
      BY <1>1, <2>3 DEF TellFor
    <2>4. QED
      BY <2>1, <2>2, <2>3
  <1>9. QED
    BY <1>8 DEF TellInv

LEMMA ReceiveTells ==
    ASSUME TypeInv, SourceInv, TellInv, NEW k \in Conns, ServerReceive(k)
    PROVE  TellInv'
  <1> SUFFICES ASSUME NEW f, f = Head(up[k]), NEW h, h = site[k] PROVE TellInv'
    OBVIOUS
  <1>1. /\ ydoc' = ydoc /\ state' = state /\ nth' = nth /\ seat' = seat /\ site' = site
        /\ pruned' = pruned /\ silent \subseteq silent'
        /\ seat[k] /\ up[k] # <<>>
        /\ Backfill(k, f) \/ Absorb(k, f) \/ Apply(k, f)
    BY DEF ServerReceive, doc, session, Backfill, Absorb, Apply
  <1>2. up[k] \in Seq(MadeFrames) /\ h \in Hosts /\ room[h] \in SUBSET Made
    BY <1>1, SeatedSite DEF TypeInv, Wires
  <1>3. f \in MadeFrames /\ f.ids \subseteq ydoc[k[1]]
    BY <1>1, <1>2, TailIn DEF SourceInv
  <1>4. \A c \in Conns : seat[c] => site[c] \in Hosts
    BY SeatedSite
  <1>5. CASE Backfill(k, f)
    <2> DEFINE g == Frame("step2", Diff(room[h], f.ids))
    <2>1. g \in MadeFrames /\ g.type = "step2" /\ g.ids = room[h] \ f.ids
      <3>1. Diff(room[h], f.ids) \in SUBSET Made /\ Diff(room[h], f.ids) = room[h] \ f.ids
        BY <1>2 DEF Diff
      <3>2. QED
        BY <3>1, FrameIn DEF Frame
    <2>2. down' = Told({k}, g) /\ room' = room
      BY <1>5 DEF Backfill
    <2> HIDE DEF g
    <2>3. /\ \A c \in Conns \ {k} : down'[c] = down[c]
          /\ g \in In(down'[k])
      <3>1. {k} \in SUBSET Conns /\ k \in {k}
        OBVIOUS
      <3>2. g \in In(down'[k])
        BY <2>1, <2>2, <3>1, ToldAll
      <3>3. \A c \in Conns \ {k} : Told({k}, g)[c] = down[c]
        BY <2>1, TellOne
      <3>4. QED
        BY <2>2, <3>2, <3>3
    <2>4. ASSUME NEW t \in Tabs PROVE TellFor(t)'
      <3>1. CASE state[t] = "off"
        BY <1>1, <3>1 DEF TellFor
      <3>2. CASE state[t] # "off" /\ Current(t) # k
        <4>1. PICK c \in Conns \ {k} : c = Current(t)
          BY <3>2, CurrentIn
        <4>2. TellFor(t) /\ down'[c] = down[c]
          BY <2>3, <4>1 DEF TellInv
        <4>3. QED
          BY <1>1, <2>2, <4>1, <4>2, TellKept
      <3>3. CASE Current(t) = k
        <4>1. Current(t)' = k /\ k[1] = t
          BY <1>1, <3>3 DEF Current
        <4>2. \A e \in room[h] : e \in ydoc[t] \/ Brought(k, e)'
          BY <1>3, <2>1, <2>3, <4>1 DEF Brought
        <4>3. QED
          BY <1>1, <2>2, <4>1, <4>2 DEF TellFor
      <3>4. QED
        BY <3>1, <3>2, <3>3
    <2>5. QED
      BY <2>4 DEF TellInv
  <1>6. CASE Absorb(k, f)
    <2>1. /\ down' = down /\ room' = [room EXCEPT ![h] = @ \cup f.ids]
          /\ silent' = silent \cup (f.ids \ room[h])
      BY <1>6 DEF Absorb
    <2>2. \A c \in Conns : seat[c] => \A e \in room'[site[c]] :
             e \in room[site[c]] \/ Skipped(e)'
      BY <1>4, <2>1 DEF TypeInv, Stores, Skipped
    <2>3. QED
      BY <1>1, <2>1, <2>2, ServerTells
  <1>7. CASE Apply(k, f)
    <2>1. /\ down' = Told(Others(k), f) /\ room' = [room EXCEPT ![h] = @ \cup f.ids]
          /\ f.type = "update"
      BY <1>7 DEF Apply
    <2>2. Others(k) \in SUBSET Conns
      BY DEF Others, Members
    <2>3. \A c \in Conns : /\ In(down[c]) \subseteq In(down'[c])
                           /\ c \in Others(k) => f \in In(down'[c])
                           /\ \A g \in In(down'[c]) : g \in In(down[c]) \/ g = f
      BY <1>3, <2>1, <2>2, ToldAll
    <2>4. \A c \in Conns : seat[c] /\ site[c] = h => c \in Others(k) \/ c = k
      BY DEF Others, Members
    <2>5. ASSUME NEW c \in Conns, seat[c], NEW e \in room'[site[c]]
          PROVE  e \in room[site[c]] \/ e \in ydoc'[c[1]] \/ Brought(c, e)' \/ Skipped(e)'
      <3>1. CASE site[c] # h
        BY <1>4, <2>1, <2>5, <3>1 DEF TypeInv, Stores
      <3>2. CASE site[c] = h
        <4>1. e \in room[h] \/ e \in f.ids
          BY <1>2, <2>1, <2>5, <3>2 DEF TypeInv, Stores
        <4>2. e \in f.ids => e \in ydoc'[c[1]] \/ Brought(c, e)'
          BY <1>1, <1>3, <2>1, <2>3, <2>4, <2>5, <3>2 DEF Brought
        <4>3. QED
          BY <3>2, <4>1, <4>2
      <3>3. QED
        BY <3>1, <3>2
    <2>6. \A c \in Conns : \A g \in In(down'[c]) : g.type = "step2" => g \in In(down[c])
      BY <2>1, <2>3
    <2>7. QED
      BY <1>1, <2>3, <2>5, <2>6, ServerTells
  <1>8. QED
    BY <1>1, <1>5, <1>6, <1>7

LEMMA WorkTells ==
    ASSUME TypeInv, TellInv, NEW k \in Conns,
           Publish(k) \/ Save(k) \/ SaveFails(k) \/ Cut(k) \/ Leave(k)
    PROVE  TellInv'
  <1>1. /\ ydoc' = ydoc /\ state' = state /\ nth' = nth /\ room' = room
        /\ silent \subseteq silent' /\ pruned' = pruned
    BY DEF Publish, Save, SaveFails, Cut, Leave, doc, session, server, cluster
  <1>2. \A c \in Conns : seat'[c] => seat[c] /\ site'[c] = site[c]
    BY DEF Publish, Save, SaveFails, Cut, Leave, server, TypeInv, Wires, Flags
  <1>3. \A c \in Conns : /\ In(down[c]) \subseteq In(down'[c])
                         /\ \A f \in In(down'[c]) : f.type = "step2" => f \in In(down[c])
    <2>1. CASE down' = down
      BY <2>1
    <2>2. ASSUME NEW type \in {"persist-failed", "persist-ok"}, down' = Told({k}, Frame(type, {}))
          PROVE  \A c \in Conns :
                    /\ In(down[c]) \subseteq In(down'[c])
                    /\ \A f \in In(down'[c]) : f.type = "step2" => f \in In(down[c])
      <3>1. PICK g \in MadeFrames : g = Frame(type, {})
        BY FrameIn
      <3>2. g.type # "step2"
        BY <3>1 DEF Frame
      <3>3. {k} \in SUBSET Conns
        OBVIOUS
      <3>4. \A c \in Conns : /\ In(down[c]) \subseteq In(down'[c])
                             /\ \A f \in In(down'[c]) : f \in In(down[c]) \/ f = g
        BY <2>2, <3>1, <3>3, ToldAll
      <3>5. QED
        BY <3>2, <3>4
    <2>3. \/ down' = down
          \/ \E type \in {"persist-failed", "persist-ok"} : down' = Told({k}, Frame(type, {}))
      BY DEF Publish, Save, SaveFails, Cut, Leave, wire
    <2>4. QED
      BY <2>1, <2>2, <2>3
  <1>4. QED
    BY <1>1, <1>2, <1>3, ServerTells

LEMMA HostTells ==
    ASSUME TypeInv, TellInv, NEW h \in Hosts,
           Compact(h) \/ Fanout(h) \/ Lag(h) \/ Crash(h)
    PROVE  TellInv'
  <1>1. ydoc' = ydoc /\ state' = state /\ nth' = nth /\ silent \subseteq silent'
        /\ pruned \subseteq pruned'
    BY DEF Compact, Fanout, Lag, Crash, doc, session, store
  <1>2. \A c \in Conns : seat[c] => site[c] \in Hosts
    BY SeatedSite
  <1>3. CASE Compact(h)
    <2>1. down' = down /\ seat' = seat /\ site' = site
      BY <1>3 DEF Compact, wire, server
    <2>2. \A c \in Conns : seat[c] => site[c] # h
      BY <1>3 DEF Compact, Members
    <2>3. \A c \in Conns : seat[c] => room'[site[c]] = room[site[c]]
      BY <1>2, <1>3, <2>2 DEF Compact, TypeInv, Stores
    <2>4. QED
      BY <1>1, <2>1, <2>3, ServerTells
  <1>4. CASE Fanout(h) /\ h \notin alive
    <2>1. down' = down /\ seat' = seat /\ site' = site /\ room' = room
      BY <1>4 DEF Fanout, server
    <2>2. QED
      BY <1>1, <2>1, ServerTells
  <1>5. CASE Fanout(h) /\ h \in alive
    <2>1. PICK ids \in SUBSET Made : ids = Head(inbox[h])
      BY <1>5, InboxShape DEF Fanout
    <2>2. PICK f \in MadeFrames : f = Frame("update", ids)
      BY FrameIn
    <2>3. /\ seat' = seat /\ site' = site /\ f.type = "update" /\ f.ids = ids
          /\ down' = Told(Members(h), f) /\ room' = [room EXCEPT ![h] = @ \cup ids]
      BY <1>5, <2>1, <2>2 DEF Fanout, server, Frame
    <2>4. \A c \in Conns : /\ In(down[c]) \subseteq In(down'[c])
                           /\ c \in Members(h) => f \in In(down'[c])
                           /\ \A g \in In(down'[c]) : g \in In(down[c]) \/ g = f
      BY <2>3, MembersSeated, ToldAll
    <2>5. ASSUME NEW c \in Conns, seat[c], NEW e \in room'[site[c]]
          PROVE  e \in room[site[c]] \/ Brought(c, e)'
      <3>1. CASE site[c] # h
        BY <1>2, <2>3, <2>5, <3>1 DEF TypeInv, Stores
      <3>2. CASE site[c] = h
        <4>1. c \in Members(h)
          BY <2>5, <3>2 DEF Members
        <4>2. e \in room[h] \/ e \in ids
          BY <2>3, <2>5, <3>2 DEF TypeInv, Stores
        <4>3. QED
          BY <2>3, <2>4, <3>2, <4>1, <4>2 DEF Brought
      <3>3. QED
        BY <3>1, <3>2
    <2>6. \A c \in Conns : \A g \in In(down'[c]) : g.type = "step2" => g \in In(down[c])
      BY <2>3, <2>4
    <2>7. QED
      BY <1>1, <2>3, <2>4, <2>5, <2>6, ServerTells
  <1>6. CASE Lag(h)
    <2>1. Integrated(room[h]) \in SUBSET Made
      BY DEF Integrated, TypeInv, Stores
    <2>2. PICK f \in MadeFrames : f = Frame("step1", Integrated(room[h]))
      BY <2>1, FrameIn
    <2>3. /\ seat' = seat /\ site' = site /\ room' = room /\ f.type = "step1"
          /\ down' = Told(Members(h), f)
      BY <1>6, <2>2 DEF Lag, server, Frame
    <2>4. \A c \in Conns : /\ In(down[c]) \subseteq In(down'[c])
                           /\ \A g \in In(down'[c]) : g \in In(down[c]) \/ g = f
      BY <2>3, MembersSeated, ToldAll
    <2>5. QED
      BY <1>1, <2>3, <2>4, ServerTells
  <1>7. CASE Crash(h)
    <2>1. /\ down' = down /\ \A c \in Conns : site[c] = h => ~seat'[c]
      BY <1>7 DEF Crash
    <2>2. \A c \in Conns : site[c] # h => site'[c] = site[c] /\ (seat'[c] <=> seat[c])
      BY <1>7 DEF Crash, TypeInv, Flags
    <2>3. \A c \in Conns : seat[c] /\ site[c] # h => room'[site[c]] = room[site[c]]
      BY <1>2, <1>7 DEF Crash, TypeInv, Stores
    <2>4. QED
      BY <1>1, <2>1, <2>2, <2>3, ServerTells
  <1>8. QED
    BY <1>3, <1>4, <1>5, <1>6, <1>7

\* Every layer that the layers below need.
SyncInv == TypeInv /\ TabInv /\ Live /\ ReachInv /\ AgreeInv /\ SourceInv /\ TellInv

LEMMA SyncStep == SyncInv /\ [Next]_vars => SyncInv'
  <1> SUFFICES ASSUME SyncInv, [Next]_vars PROVE SyncInv'
    OBVIOUS
  <1>1. TypeInv' /\ TabInv' /\ Live' /\ ReachInv' /\ AgreeInv'
    BY TypesStep, TabStep, ReachStep, AgreeStep DEF SyncInv
  <1>2. CASE UNCHANGED vars
    BY <1>1, <1>2 DEF vars, SyncInv, SourceInv, TellInv, TellFor, Current, Briefed, Brought,
                      Skipped
  <1>3. CASE Next
    <2>1. SourceInv'
      BY <1>3, SourceStep DEF SyncInv
    <2>2. TellInv'
      BY <1>3, TabTells, JoinTells, ReceiveTells, WorkTells, HostTells DEF SyncInv, Next
    <2>3. QED
      BY <1>1, <2>1, <2>2 DEF SyncInv
  <1>4. QED
    BY <1>2, <1>3

LEMMA InitSync == Init => SyncInv
  <1>1. Init => Live /\ TellInv
    BY DEF Init, Live, TellInv, TellFor
  <1>2. QED
    BY <1>1, InitTypes, InitTab, InitReach, InitAgree, InitSource DEF SyncInv

LEMMA CopiesAgree == SyncInv => DifferencesExplained
  <1> SUFFICES ASSUME SyncInv, Settled PROVE DifferencesExplained
    BY DEF DifferencesExplained
  <1>1. TypeInv /\ AgreeInv /\ TellInv /\ TabsReachRoom
    BY ReachesRoom DEF SyncInv
  <1>2. In(<<>>) = {}
    BY DEF In
  <1>3. \A k \in Conns : job[k] = Idle
    BY <1>1 DEF Settled, TypeInv, Blank
  <1>4. alive \subseteq Hosts /\ \A h \in Hosts : room[h] \subseteq Ids
    BY <1>1 DEF TypeInv, Stores, Made
  <1>5. ASSUME NEW g \in alive, NEW h \in alive, NEW e \in room[g]
        PROVE  e \in room[h] \/ Skipped(e)
    <2>1. e \in Ids /\ h \in Hosts /\ Afloat(e)
      BY <1>4, <1>5 DEF Afloat
    <2>2. Aware(h, e)
      BY <1>1, <2>1 DEF AgreeInv, Spread
    <2>3. ~Announced(h, e)
      BY <1>2, <2>1 DEF Announced, Settled
    <2>4. \A k \in Conns : job[k].step # "publish"
      BY <1>3 DEF Idle
    <2>5. QED
      BY <1>5, <2>2, <2>3, <2>4 DEF Aware, Has
  <1>6. ASSUME NEW t \in Tabs, state[t] = "synced"
        PROVE  \E h \in alive : /\ ydoc[t] \subseteq room[h]
                                /\ \A e \in room[h] : e \in ydoc[t] \/ Skipped(e)
    <2>1. Quiet(t)
      BY <1>6 DEF Settled
    <2>2. PICK k \in Conns : k = Current(t)
      BY <1>1, <1>6, CurrentIn
    <2>3. seat[k] /\ down[k] = <<>> /\ ydoc[t] \subseteq room[site[k]]
      BY <1>1, <2>1, <2>2 DEF Quiet, TabsReachRoom
    <2>4. site[k] \in alive
      BY <1>1, <2>3, SeatedSite
    <2>5. Briefed(t, k) /\ \A e : ~Brought(k, e)
      BY <1>2, <1>6, <2>3 DEF Briefed, Brought
    <2>6. \A e \in room[site[k]] : e \in ydoc[t] \/ Skipped(e)
      BY <1>1, <1>6, <2>2, <2>3, <2>5 DEF TellInv, TellFor
    <2>7. QED
      BY <2>3, <2>4, <2>6
  <1> DEFINE copies == {room[h] : h \in alive}
                         \cup {ydoc[t] : t \in {s \in Tabs : state[s] = "synced"}}
  <1>7. ASSUME NEW a \in copies
        PROVE  \E h \in alive : a \subseteq room[h] /\ \A e \in room[h] : e \in a \/ Skipped(e)
    <2>1. CASE a \in {room[h] : h \in alive}
      BY <2>1
    <2>2. CASE a \in {ydoc[t] : t \in {s \in Tabs : state[s] = "synced"}}
      BY <1>6, <2>2
    <2>3. QED
      BY <1>7, <2>1, <2>2
  <1> HIDE DEF copies
  <1>8. ASSUME NEW a \in copies, NEW b \in copies, NEW e \in a \ b
        PROVE  e \in silent \cup pruned
    <2>1. PICK g \in alive : a \subseteq room[g]
      BY <1>7
    <2>2. PICK h \in alive : \A x \in room[h] : x \in b \/ Skipped(x)
      BY <1>7
    <2>3. Skipped(e)
      <3>1. e \in room[h] \/ Skipped(e)
        BY <1>5, <1>8, <2>1
      <3>2. QED
        BY <1>8, <2>2, <3>1
    <2>4. QED
      BY <2>3 DEF Skipped
  <1>9. \A a, b \in copies : a \ b \subseteq silent \cup pruned
    BY <1>8
  <1>10. QED
    BY <1>9 DEF DifferencesExplained, copies

\* Once nothing is under way, the copies of the document that instances and
\* synced tabs hold differ in no edit but those a message about which was
\* skipped, by a failed publish, an overrun subscriber, a handshake or a
\* restart, and those a compaction pruned before an instance had them: handlers
\* broadcast, publish and relay every other.
THEOREM OnlySkippedEditsDiffer == Spec => []DifferencesExplained
  BY InitSync, SyncStep, CopiesAgree, PTL DEF Spec
-----------------------------------------------------------------------------
(* What is kept of an edit.                                                *)

\* Somebody will store the edit: it is stored, in a room marked unsaved, or in
\* the hands of a handler of its author's, or the model knows it as skipped.
Kept(e) ==
    \/ e \in Stored
    \/ \E h \in alive : mark[h] /\ e \in room[h]
    \/ \E n \in 1..MaxConns : e \in job[<<e[1], n>>].ids
    \/ Skipped(e)

\* The edit has left its author's hands.
Abroad(e) ==
    \/ Afloat(e)
    \/ \E k \in Conns : Brought(k, e)
    \/ \E t \in Tabs : t # e[1] /\ e \in ydoc[t]

\* What a handler works on its room has.
JobsInRoom == \A k \in Conns : job[k].ids \subseteq room[site[k]]

KeptInv == JobsInRoom /\ \A e \in Ids : Abroad(e) => Kept(e)

LEMMA InitKept == Init => KeptInv
  <1> SUFFICES ASSUME Init PROVE KeptInv
    OBVIOUS
  <1>1. In(<<>>) = {} /\ Idle.ids = {}
    BY DEF In, Idle
  <1>2. \A e : ~Abroad(e)
    BY <1>1 DEF Init, Abroad, Afloat, Brought, Announced, Stored
  <1>3. JobsInRoom
    BY <1>1 DEF Init, JobsInRoom
  <1>4. QED
    BY <1>2, <1>3 DEF KeptInv

\* The connections of an edit's author.
LEMMA AuthorIn ==
    ASSUME NEW e \in Ids
    PROVE  /\ e[1] \in Tabs /\ \A n \in 1..MaxConns : <<e[1], n>> \in Conns
           /\ \A k \in Conns : k[1] = e[1] => \E n \in 1..MaxConns : k = <<e[1], n>>
  BY DEF Ids, Conns

\* Kept is kept, if an edit stays where it is or goes where it is looked for.
LEMMA KeptBy ==
    ASSUME NEW e \in Ids, Kept(e),
           e \in Stored => e \in Stored' \/ Skipped(e)',
           \A h \in alive : mark[h] /\ e \in room[h] =>
              (h \in alive' /\ mark'[h] /\ e \in room'[h]) \/ e \in Stored' \/ Skipped(e)',
           \A k \in Conns : e \in job[k].ids =>
              \/ e \in job'[k].ids \/ e \in Stored' \/ Skipped(e)'
              \/ \E h \in alive' : mark'[h] /\ e \in room'[h],
           Skipped(e) => Skipped(e)'
    PROVE  Kept(e)'
  <1>1. CASE \E n \in 1..MaxConns : e \in job[<<e[1], n>>].ids
    <2>1. PICK n \in 1..MaxConns : e \in job[<<e[1], n>>].ids
      BY <1>1
    <2>2. <<e[1], n>> \in Conns
      BY AuthorIn
    <2>3. \/ e \in job'[<<e[1], n>>].ids \/ e \in Stored' \/ Skipped(e)'
          \/ \E h \in alive' : mark'[h] /\ e \in room'[h]
      BY <2>1, <2>2
    <2>4. QED
      BY <2>3 DEF Kept
  <1>2. CASE e \in Stored \/ Skipped(e) \/ \E h \in alive : mark[h] /\ e \in room[h]
    BY <1>2 DEF Kept
  <1>3. QED
    BY <1>1, <1>2 DEF Kept

\* Every step keeps what is kept: only a saved edit leaves its handler, only
\* a compacted mark leaves its room, and all else is skipped.
LEMMA KeptStays ==
    ASSUME TypeInv, JobsInRoom, Next, NEW e \in Ids, Kept(e)
    PROVE  Kept(e)'
  <1>0. /\ alive \subseteq Hosts /\ room \in [Hosts -> SUBSET Made]
        /\ mark \in [Hosts -> BOOLEAN] /\ DOMAIN job = Conns /\ Idle.ids = {}
    BY DEF TypeInv, Stores, Flags, Wires, Idle
  <1>1. ASSUME alive' = alive, room' = room, mark' = mark, rows' = rows, snap' = snap,
               silent' = silent, pruned' = pruned, job' = job
        PROVE  Kept(e)'
    BY <1>1 DEF Kept, Stored, Skipped
  <1>2. ASSUME NEW t \in Tabs,
               \/ Type(t) \/ SendDue(t) \/ ClientReceive(t) \/ ShowRemote(t) \/ Resend(t)
               \/ OnClose(t) \/ \E h \in Hosts : Connect(t, h)
        PROVE  Kept(e)'
    <2>1. UNCHANGED <<alive, room, mark, rows, snap, silent, pruned, job>>
      BY <1>2 DEF Type, SendDue, ClientReceive, ShowRemote, Resend, OnClose, Connect,
                  cluster, store, server
    <2>2. QED
      BY <1>1, <2>1
  <1>3. ASSUME NEW k \in Conns, Cut(k) PROVE Kept(e)'
    BY <1>1, <1>3 DEF Cut, cluster, store, server
  <1>4. ASSUME NEW k \in Conns, Join(k) PROVE Kept(e)'
    <2> DEFINE h == site[k]
               document == IF h \in alive THEN room[h] ELSE Stored
    <2>1. /\ alive' = alive \cup {h} /\ room' = [room EXCEPT ![h] = document]
          /\ mark' = mark /\ rows' = rows /\ snap' = snap /\ silent' = silent
          /\ pruned' = pruned /\ job' = job
      BY <1>4 DEF Join, store
    <2>2. \A g \in alive : g \in alive' /\ room'[g] = room[g]
      BY <1>0, <2>1
    <2>3. QED
      BY <2>1, <2>2, KeptBy DEF Stored, Skipped
  <1>5. ASSUME NEW k \in Conns, ServerReceive(k) PROVE Kept(e)'
    <2>1. /\ alive' = alive /\ mark' = mark /\ rows' = rows /\ snap' = snap
          /\ pruned' = pruned /\ silent \subseteq silent' /\ job[k].ids = {}
          /\ job' = job \/ \E x : job' = [job EXCEPT ![k] = x]
          /\ room' = room \/ \E x : room' = [room EXCEPT ![site[k]] = @ \cup x]
      BY <1>0, <1>5 DEF ServerReceive, store, Backfill, Absorb, Apply
    <2>2. \A g \in alive : room[g] \subseteq room'[g]
      BY <1>0, <2>1
    <2>3. \A c \in Conns : c # k => job'[c] = job[c]
      BY <1>0, <2>1
    <2>4. QED
      BY <2>1, <2>2, <2>3, KeptBy DEF Stored, Skipped
  <1>6. ASSUME NEW k \in Conns, Publish(k) PROVE Kept(e)'
    <2>1. /\ alive' = alive /\ mark' = mark /\ rows' = rows /\ snap' = snap /\ room' = room
          /\ pruned' = pruned /\ silent \subseteq silent'
      BY <1>6 DEF Publish, store
    <2>2. \A c \in Conns : job'[c].ids = job[c].ids
      BY <1>6 DEF Publish, TypeInv, Wires
    <2>3. QED
      BY <2>1, <2>2, KeptBy DEF Stored, Skipped
  <1>7. ASSUME NEW k \in Conns, Save(k) PROVE Kept(e)'
    <2>1. /\ alive' = alive /\ mark' = mark /\ rows' = rows \cup job[k].ids /\ snap' = snap
          /\ room' = room /\ pruned' = pruned /\ silent' = silent
          /\ \A c \in Conns : c # k => job'[c] = job[c]
      BY <1>7 DEF Save, cluster
    <2>2. QED
      BY <2>1, KeptBy DEF Stored, Skipped
  <1>8. ASSUME NEW k \in Conns, SaveFails(k) PROVE Kept(e)'
    <2>1. seat[k] /\ site[k] \in alive /\ site[k] \in Hosts
      <3>1. job[k].step # "none"
        BY <1>8 DEF SaveFails
      <3>2. QED
        BY <3>1, JobSeated, SeatedSite
    <2>2. /\ alive' = alive /\ rows' = rows /\ snap' = snap
          /\ room' = room /\ pruned' = pruned /\ silent' = silent
          /\ \A c \in Conns : c # k => job'[c] = job[c]
          /\ mark' = [mark EXCEPT ![site[k]] = TRUE]
      BY <1>8 DEF SaveFails, store, Marked
    <2>3. mark'[site[k]] /\ \A g \in alive : mark[g] => mark'[g]
      BY <1>0, <2>1, <2>2
    <2>4. job[k].ids \subseteq room'[site[k]]
      BY <2>2 DEF JobsInRoom
    <2>5. QED
      BY <2>1, <2>2, <2>3, <2>4, KeptBy DEF Stored, Skipped
  <1>9. ASSUME NEW k \in Conns, Leave(k) PROVE Kept(e)'
    <2>1. /\ alive' = alive /\ mark' = mark /\ rows' = rows /\ snap' = snap
          /\ room' = room /\ pruned' = pruned /\ silent' = silent \cup job[k].ids
          /\ \A c \in Conns : c # k => job'[c] = job[c]
      BY <1>9 DEF Leave, cluster, store
    <2>2. QED
      BY <2>1, KeptBy DEF Stored, Skipped
  <1>10. ASSUME NEW h \in Hosts, Compact(h) PROVE Kept(e)'
    <2>1. /\ alive' = alive \ {h} /\ job' = job
          /\ \A g \in Hosts \ {h} : room'[g] = room[g] /\ (mark'[g] <=> mark[g])
          /\ silent \subseteq silent' /\ pruned \subseteq pruned'
      BY <1>0, <1>10 DEF Compact, server, store
    <2>2. \A x \in Stored : x \in Stored' \/ x \in pruned'
      BY <1>10 DEF Compact, store, Stored
    <2>3. mark[h] => room[h] \subseteq Stored'
      BY <1>10 DEF Compact, Pending, Stored
    <2>4. QED
      BY <1>0, <2>1, <2>2, <2>3, KeptBy DEF Skipped
  <1>11. ASSUME NEW h \in Hosts, Fanout(h) \/ Lag(h) PROVE Kept(e)'
    <2>1. /\ alive' = alive /\ mark' = mark /\ rows' = rows /\ snap' = snap /\ job' = job
          /\ pruned' = pruned /\ silent \subseteq silent'
          /\ \A g \in Hosts : room[g] \subseteq room'[g]
      BY <1>0, <1>11 DEF Fanout, Lag, server, store
    <2>2. QED
      BY <1>0, <2>1, KeptBy DEF Stored, Skipped
  <1>12. ASSUME NEW h \in Hosts, Crash(h) PROVE Kept(e)'
    <2>1. /\ alive' = alive \ {h} /\ rows' = rows /\ snap' = snap /\ pruned' = pruned
          /\ \A g \in Hosts \ {h} : room'[g] = room[g] /\ (mark'[g] <=> mark[g])
          /\ silent \subseteq silent'
          /\ \A x \in room[h] : x \in Stored \/ x \in silent'
      BY <1>0, <1>12 DEF Crash, store
    <2>2. \A c \in Conns : IF site[c] = h THEN job[c].ids \subseteq silent'
                           ELSE job'[c] = job[c]
      BY <1>12 DEF Crash
    <2>3. QED
      BY <1>0, <2>1, <2>2, KeptBy DEF Stored, Skipped
  <1>13. QED
    BY <1>2, <1>3, <1>4, <1>5, <1>6, <1>7, <1>8, <1>9, <1>10, <1>11, <1>12 DEF Next

\* Handlers begin with what they have just merged into their room, and the
\* room of a running handler only grows.
LEMMA JobsStep == ASSUME TypeInv, JobsInRoom, Next PROVE JobsInRoom'
  <1>0. /\ room \in [Hosts -> SUBSET Made] /\ DOMAIN job = Conns /\ Idle.ids = {}
    BY DEF TypeInv, Stores, Wires, Idle
  <1>1. \A c \in Conns : job[c].ids = {} \/ (seat[c] /\ site[c] \in Hosts /\ site[c] \in alive)
    BY <1>0, SeatedSite DEF TypeInv, Blank
  <1>2. ASSUME \A c \in Conns : job'[c].ids = {} \/
                  /\ job'[c].ids = job[c].ids
                  /\ seat[c] /\ site[c] \in Hosts =>
                        site'[c] = site[c] /\ room[site[c]] \subseteq room'[site[c]]
        PROVE  JobsInRoom'
    <2> SUFFICES ASSUME NEW c \in Conns, job'[c].ids # {}
                 PROVE  job'[c].ids \subseteq room'[site'[c]]
      BY DEF JobsInRoom
    <2>1. job'[c].ids = job[c].ids /\ site'[c] = site[c] /\ room[site[c]] \subseteq room'[site[c]]
      BY <1>1, <1>2
    <2>2. QED
      BY <2>1 DEF JobsInRoom
  <1>3. ASSUME NEW t \in Tabs,
               \/ Type(t) \/ SendDue(t) \/ ClientReceive(t) \/ ShowRemote(t) \/ Resend(t)
               \/ OnClose(t)
        PROVE  JobsInRoom'
    BY <1>3 DEF Type, SendDue, ClientReceive, ShowRemote, Resend, OnClose, server, cluster,
                JobsInRoom
  <1>4. ASSUME NEW t \in Tabs, NEW h \in Hosts, Connect(t, h) PROVE JobsInRoom'
    <2>1. PICK k : k = <<t, nth[t] + 1>>
      OBVIOUS
    <2>2. nth[t] + 1 \in 1..MaxConns /\ k \in Conns
      BY <1>4, <2>1, RoomToConnect DEF Connect
    <2>3. link[k] = "unused"
      BY <2>1, <2>2, SyncAssumption DEF TypeInv, Numbered, Shapes
    <2>4. ~seat[k] /\ job' = job /\ room' = room /\ site' = [site EXCEPT ![k] = h]
      BY <1>4, <2>1, <2>2, <2>3 DEF TypeInv, Blank, Connect, cluster
    <2>5. QED
      BY <1>2, <2>4
  <1>5. ASSUME NEW k \in Conns, Join(k) PROVE JobsInRoom'
    <2>1. /\ job' = job /\ site' = site
          /\ \A g \in Hosts : g \in alive => room'[g] = room[g]
      BY <1>0, <1>5 DEF Join
    <2>2. \A c \in Conns : seat[c] => room'[site[c]] = room[site[c]]
      BY <2>1, SeatedSite
    <2>3. QED
      BY <1>2, <2>1, <2>2
  <1>6. ASSUME NEW k \in Conns, ServerReceive(k) PROVE JobsInRoom'
    <2> SUFFICES ASSUME NEW f, f = Head(up[k]) PROVE JobsInRoom'
      OBVIOUS
    <2>1. /\ site' = site /\ seat[k] /\ site[k] \in Hosts
          /\ Backfill(k, f) \/ Absorb(k, f) \/ Apply(k, f)
      BY <1>6, SeatedSite DEF ServerReceive
    <2>2. \A g \in Hosts : room[g] \subseteq room'[g]
      BY <1>0, <2>1 DEF Backfill, Absorb, Apply
    <2>3. CASE Backfill(k, f) \/ Absorb(k, f)
      <3>1. job' = job
        BY <2>3 DEF Backfill, Absorb
      <3>2. QED
        BY <1>2, <2>1, <2>2, <3>1
    <2>4. CASE Apply(k, f)
      <3>1. /\ job' = [job EXCEPT ![k] = [step |-> "publish", ids |-> f.ids]]
            /\ room' = [room EXCEPT ![site[k]] = @ \cup f.ids]
        BY <2>4 DEF Apply
      <3>2. job'[k] = [step |-> "publish", ids |-> f.ids]
        BY <1>0, <3>1
      <3>3. job'[k].ids = f.ids /\ f.ids \subseteq room'[site[k]]
        BY <1>0, <2>1, <3>1, <3>2
      <3>4. \A c \in Conns : c # k => job'[c] = job[c]
        BY <1>0, <3>1
      <3>5. ASSUME NEW c \in Conns PROVE job'[c].ids \subseteq room'[site'[c]]
        <4>1. CASE c = k
          BY <2>1, <3>3, <4>1
        <4>2. CASE c # k
          BY <1>1, <2>1, <2>2, <3>4, <4>2 DEF JobsInRoom
        <4>3. QED
          BY <4>1, <4>2
      <3>6. QED
        BY <3>5 DEF JobsInRoom
    <2>5. QED
      BY <2>1, <2>3, <2>4
  <1>7. ASSUME NEW k \in Conns, Publish(k) PROVE JobsInRoom'
    <2>1. room' = room /\ site' = site /\ \A c \in Conns : job'[c].ids = job[c].ids
      BY <1>7 DEF Publish, TypeInv, Wires
    <2>2. QED
      BY <1>2, <2>1
  <1>8. ASSUME NEW k \in Conns, Save(k) \/ SaveFails(k) \/ Leave(k) \/ Cut(k) PROVE JobsInRoom'
    <2>0. /\ room' = room
          /\ job' = job \/ job' = [job EXCEPT ![k] = Idle]
          /\ site' = site \/ (job' = [job EXCEPT ![k] = Idle] /\ site' = [site EXCEPT ![k] = Nowhere])
      BY <1>8 DEF Save, SaveFails, Leave, Cut, server, cluster
    <2>1. /\ room' = room /\ \A c \in Conns : c # k => job'[c] = job[c] /\ site'[c] = site[c]
          /\ job'[k] = Idle \/ (job'[k] = job[k] /\ site'[k] = site[k])
      BY <1>0, <2>0 DEF TypeInv, Wires
    <2>2. \A c \in Conns : job'[c].ids = {} \/ (job'[c].ids = job[c].ids /\ site'[c] = site[c])
      BY <1>0, <2>1
    <2>3. QED
      BY <1>2, <2>1, <2>2
  <1>9. ASSUME NEW h \in Hosts, Compact(h) PROVE JobsInRoom'
    <2>1. job' = job /\ site' = site /\ \A g \in Hosts \ {h} : room'[g] = room[g]
      BY <1>0, <1>9 DEF Compact, server
    <2>2. \A c \in Conns : seat[c] => site[c] # h
      BY <1>9 DEF Compact, Members
    <2>3. QED
      BY <1>2, <2>1, <2>2
  <1>10. ASSUME NEW h \in Hosts, Fanout(h) \/ Lag(h) PROVE JobsInRoom'
    <2>1. job' = job /\ site' = site /\ \A g \in Hosts : room[g] \subseteq room'[g]
      BY <1>0, <1>10 DEF Fanout, Lag, server
    <2>2. QED
      BY <1>2, <2>1
  <1>11. ASSUME NEW h \in Hosts, Crash(h) PROVE JobsInRoom'
    <2>1. /\ \A c \in Conns : IF site[c] = h THEN job'[c] = Idle
                              ELSE job'[c] = job[c] /\ site'[c] = site[c]
          /\ \A g \in Hosts \ {h} : room'[g] = room[g]
      BY <1>0, <1>11 DEF Crash
    <2>2. QED
      BY <1>0, <1>2, <2>1
  <1>12. QED
    BY <1>3, <1>4, <1>5, <1>6, <1>7, <1>8, <1>9, <1>10, <1>11 DEF Next
\* An edit of a peer is in a tab's document because a frame brought it.
LEMMA FoldAbroad ==
    ASSUME TypeInv, TabInv, ReachInv, NEW e, NEW t \in Tabs, t # e[1], e \in Folded(t)
    PROVE  e \in ydoc[t]
  <1>1. e \in ydoc[t] \cup view[t]
    BY FoldKeeps
  <1>2. e \in view[t] => e \in base[t]
    BY DEF ReachInv, Folding
  <1>3. QED
    BY <1>1, <1>2 DEF TabInv

LEMMA TabAbroad ==
    ASSUME TypeInv, TabInv, ReachInv, AgreeInv, NEW e \in Ids, Abroad(e)', NEW t \in Tabs,
           \/ Type(t) \/ SendDue(t) \/ ClientReceive(t) \/ ShowRemote(t) \/ Resend(t)
           \/ OnClose(t) \/ \E h \in Hosts : Connect(t, h)
    PROVE  Abroad(e)
  <1>1. Afloat(e)' => Afloat(e)
    BY TabSpread DEF AgreeInv
  <1>2. CASE Type(t) \/ Resend(t) \/ OnClose(t) \/ \E h \in Hosts : Connect(t, h)
    <2>1. ydoc' = ydoc
      BY <1>2 DEF Type, Resend, OnClose, Connect, doc
    <2>2. \A k \in Conns : down'[k] = down[k] \/ down'[k] = <<>>
      BY <1>2 DEF Type, Resend, OnClose, Connect, wire, TypeInv, Wires
    <2>3. In(<<>>) = {}
      BY DEF In
    <2>4. \A k \in Conns : Brought(k, e)' => Brought(k, e)
      BY <2>2, <2>3 DEF Brought
    <2>5. QED
      BY <1>1, <2>1, <2>4 DEF Abroad
  <1>3. CASE SendDue(t) \/ ShowRemote(t)
    <2>1. ydoc' = [ydoc EXCEPT ![t] = Folded(t)] /\ down' = down
      BY <1>3 DEF SendDue, ShowRemote
    <2>2. \A s \in Tabs : s # e[1] /\ e \in ydoc'[s] => e \in ydoc[s]
      BY <2>1, FoldAbroad DEF TypeInv, Shapes
    <2>3. \A k \in Conns : Brought(k, e)' => Brought(k, e)
      BY <2>1 DEF Brought
    <2>4. QED
      BY <1>1, <2>2, <2>3 DEF Abroad
  <1>4. CASE ClientReceive(t)
    <2> SUFFICES ASSUME NEW k, k = Current(t), NEW f, f = Head(down[k]) PROVE Abroad(e)
      OBVIOUS
    <2>1. /\ state[t] # "off" /\ down[k] # <<>> /\ down' = [down EXCEPT ![k] = Tail(@)]
          /\ Merge(t, f) \/ Answer(t, f) \/ Badge(t, f)
      BY <1>4 DEF ClientReceive
    <2>2. k \in Conns /\ down[k] \in Seq(MadeFrames)
      BY <2>1, CurrentIn DEF TypeInv, Wires
    <2>3. f \in In(down[k]) /\ In(Tail(down[k])) \subseteq In(down[k])
      BY <2>1, <2>2, TailIn
    <2>4. \A c \in Conns : In(down'[c]) \subseteq In(down[c])
      BY <2>1, <2>2, <2>3 DEF TypeInv, Wires
    <2>5. \A c \in Conns : Brought(c, e)' => Brought(c, e)
      BY <2>4 DEF Brought
    <2>6. ASSUME NEW s \in Tabs, s # e[1], e \in ydoc'[s]
          PROVE  e \in ydoc[s] \/ Brought(k, e)
      <3>1. CASE Merge(t, f)
        <4>1. ydoc' = [ydoc EXCEPT ![t] = Folded(t) \cup f.ids] /\ f.type \in {"step2", "update"}
          BY <3>1 DEF Merge
        <4>2. e \in ydoc[s] \/ (s = t /\ (e \in Folded(t) \/ e \in f.ids))
          BY <2>6, <4>1 DEF TypeInv, Shapes
        <4>3. e \in f.ids => Brought(k, e)
          BY <2>3, <4>1 DEF Brought
        <4>4. QED
          BY <2>6, <4>2, <4>3, FoldAbroad
      <3>2. CASE Answer(t, f) \/ Badge(t, f)
        BY <2>6, <3>2 DEF Answer, Badge
      <3>3. QED
        BY <2>1, <3>1, <3>2
    <2>7. QED
      BY <1>1, <2>2, <2>5, <2>6 DEF Abroad
  <1>5. QED
    BY <1>2, <1>3, <1>4

LEMMA ReceiveAbroad ==
    ASSUME TypeInv, AgreeInv, SourceInv, NEW e \in Ids, Abroad(e)', NEW k \in Conns,
           ServerReceive(k)
    PROVE  Abroad(e) \/ Kept(e)'
  <1> SUFFICES ASSUME NEW f, f = Head(up[k]), NEW h, h = site[k]
               PROVE  Abroad(e) \/ Kept(e)'
    OBVIOUS
  <1>1. /\ ydoc' = ydoc /\ seat[k] /\ up[k] # <<>>
        /\ Backfill(k, f) \/ Absorb(k, f) \/ Apply(k, f)
    BY DEF ServerReceive, doc
  <1>2. up[k] \in Seq(MadeFrames) /\ h \in Hosts /\ h \in alive /\ DOMAIN job = Conns
    BY <1>1, SeatedSite DEF TypeInv, Wires
  <1>3. f \in MadeFrames /\ f.ids \subseteq ydoc[k[1]]
    BY <1>1, <1>2, TailIn DEF SourceInv
  <1>4. k[1] \in Tabs /\ (k[1] = e[1] => \E n \in 1..MaxConns : k = <<e[1], n>>)
    BY AuthorIn DEF Conns
  <1>5. CASE Backfill(k, f)
    <2>1. Diff(room[h], f.ids) \in SUBSET Made /\ Diff(room[h], f.ids) \subseteq room[h]
      BY <1>2 DEF Diff, TypeInv, Stores
    <2>2. PICK g \in MadeFrames : g = Frame("step2", Diff(room[h], f.ids))
      BY <2>1, FrameIn
    <2>3. /\ g.ids \subseteq room[h] /\ down' = Told({k}, g)
          /\ {k} \in SUBSET Conns
      BY <1>5, <2>1, <2>2 DEF Backfill, Frame
    <2>4. \A c \in Conns : \A x \in In(down'[c]) : x \in In(down[c]) \/ x = g
      BY <2>3, ToldAll
    <2>5. \A c \in Conns : Brought(c, e)' => Brought(c, e) \/ e \in room[h]
      BY <2>3, <2>4 DEF Brought
    <2>6. e \in room[h] => Afloat(e)
      BY <1>2 DEF Afloat
    <2>7. Afloat(e)' => Afloat(e)
      <3>1. /\ alive' = alive /\ room' = room /\ inbox' = inbox /\ rows' = rows
            /\ snap' = snap /\ silent' = silent /\ pruned' = pruned /\ job' = job
            /\ site' = site
        BY <1>5 DEF ServerReceive, Backfill, store
      <3>2. QED
        BY <3>1, SpreadKept DEF AgreeInv
    <2>8. QED
      BY <1>1, <2>5, <2>6, <2>7 DEF Abroad
  <1>6. CASE Absorb(k, f) \/ Apply(k, f)
    <2>1. Afloat(e)' => Afloat(e) \/ e \in f.ids
      BY ReceiveSpread DEF AgreeInv
    <2>2. \A c \in Conns : Brought(c, e)' => Brought(c, e) \/ e \in f.ids
      <3>1. CASE Absorb(k, f)
        BY <3>1 DEF Absorb, Brought
      <3>2. CASE Apply(k, f)
        <4>1. Others(k) \in SUBSET Conns /\ down' = Told(Others(k), f)
          BY <3>2 DEF Others, Members, Apply
        <4>2. \A c \in Conns : \A x \in In(down'[c]) : x \in In(down[c]) \/ x = f
          BY <1>3, <4>1, ToldAll
        <4>3. QED
          BY <4>2 DEF Brought
      <3>3. QED
        BY <1>6, <3>1, <3>2
    <2>3. Abroad(e) \/ e \in f.ids
      BY <1>1, <2>1, <2>2 DEF Abroad
    <2>4. CASE e \in f.ids /\ k[1] # e[1]
      BY <1>3, <1>4, <2>4 DEF Abroad
    <2>5. CASE e \in f.ids /\ k[1] = e[1]
      <3>1. CASE Absorb(k, f)
        <4>1. e \in room[h] \/ e \in silent'
          BY <2>5, <3>1 DEF Absorb
        <4>2. QED
          BY <1>2, <4>1 DEF Abroad, Afloat, Kept, Skipped
      <3>2. CASE Apply(k, f)
        <4>1. job' = [job EXCEPT ![k] = [step |-> "publish", ids |-> f.ids]]
          BY <3>2 DEF Apply
        <4>2. job'[k] = [step |-> "publish", ids |-> f.ids]
          BY <1>2, <4>1
        <4>3. e \in job'[k].ids
          BY <2>5, <4>2
        <4>4. PICK n \in 1..MaxConns : k = <<e[1], n>>
          BY <1>4, <2>5
        <4>5. \E m \in 1..MaxConns : e \in job'[<<e[1], m>>].ids
          BY <4>3, <4>4
        <4>6. QED
          BY <4>5 DEF Kept
      <3>3. QED
        BY <1>6, <3>1, <3>2
    <2>6. QED
      BY <2>3, <2>4, <2>5
  <1>7. QED
    BY <1>1, <1>5, <1>6

\* The other steps of the servers bring nothing that is not there.
LEMMA ServerAbroad ==
    ASSUME TypeInv, AgreeInv, NEW e \in Ids, Abroad(e)',
           \/ \E k \in Conns : \/ Join(k) \/ Publish(k) \/ Save(k) \/ SaveFails(k)
                               \/ Leave(k) \/ Cut(k)
           \/ \E h \in Hosts : Compact(h) \/ Fanout(h) \/ Lag(h) \/ Crash(h)
    PROVE  Abroad(e)
  <1>1. Spread(e)
    BY DEF AgreeInv
  <1>2. Afloat(e)' => Afloat(e)
    BY <1>1, JoinSpread, WorkSpread, LeaveSpread, CompactSpread, FanoutSpread, CrashSpread
  <1>3. ydoc' = ydoc
    BY DEF Join, Publish, Save, SaveFails, Leave, Cut, Compact, Fanout, Lag, Crash, doc
  <1> DEFINE News == \A k \in Conns : Brought(k, e)' => Brought(k, e) \/ Afloat(e)
  <1>4. ASSUME down' = down PROVE News
    BY <1>4 DEF Brought
  <1>5. ASSUME NEW who \in SUBSET Conns, NEW f \in MadeFrames, down' = Told(who, f),
               f.type \in {"step2", "update"} /\ e \in f.ids => Afloat(e)
        PROVE  News
    <2>1. \A k \in Conns : \A g \in In(down'[k]) : g \in In(down[k]) \/ g = f
      BY <1>5, ToldAll
    <2>2. QED
      BY <1>5, <2>1 DEF Brought
  <1>6. ASSUME NEW k \in Conns, Join(k) PROVE News
    <2> DEFINE document == IF site[k] \in alive THEN room[site[k]] ELSE Stored
    <2>1. document \in SUBSET Made
      BY <1>6 DEF Join, TypeInv, Tied, Stores, Stored
    <2>2. Integrated(document) \in SUBSET Made
      BY <2>1 DEF Integrated
    <2>3. PICK f \in MadeFrames : f = Frame("step1", Integrated(document))
      BY <2>2, FrameIn
    <2>4. down' = Told({k}, f) /\ f.type = "step1"
      BY <1>6, <2>3 DEF Join, Frame
    <2> HIDE DEF News
    <2>5. QED
      BY <1>5, <2>4
  <1>7. ASSUME NEW k \in Conns,
               Publish(k) \/ Save(k) \/ SaveFails(k) \/ Leave(k) \/ Cut(k)
        PROVE  News
    <2>1. \/ down' = down
          \/ \E type \in {"persist-failed", "persist-ok"} : down' = Told({k}, Frame(type, {}))
      BY <1>7 DEF Publish, Save, SaveFails, Leave, Cut, wire
    <2> HIDE DEF News
    <2>2. ASSUME NEW type \in {"persist-failed", "persist-ok"}, down' = Told({k}, Frame(type, {}))
          PROVE  News
      <3>1. PICK f \in MadeFrames : f = Frame(type, {})
        BY FrameIn
      <3>2. f.ids = {}
        BY <3>1 DEF Frame
      <3>3. QED
        BY <1>5, <2>2, <3>1, <3>2
    <2>3. QED
      BY <1>4, <2>1, <2>2
  <1>8. ASSUME NEW h \in Hosts, Compact(h) \/ Crash(h) \/ (Fanout(h) /\ h \notin alive)
        PROVE  News
    <2>1. down' = down
      BY <1>8 DEF Compact, Crash, Fanout, wire
    <2>2. QED
      BY <1>4, <2>1
  <1>9. ASSUME NEW h \in Hosts, Fanout(h), h \in alive PROVE News
    <2>1. PICK ids \in SUBSET Made : ids = Head(inbox[h])
      BY <1>9, InboxShape DEF Fanout
    <2>2. PICK f \in MadeFrames : f = Frame("update", ids)
      BY FrameIn
    <2>3. f.ids = ids /\ down' = Told(Members(h), f) /\ Members(h) \in SUBSET Conns
      BY <1>9, <2>1, <2>2 DEF Fanout, Frame, Members
    <2>4. inbox[h] # <<>> /\ inbox' = [inbox EXCEPT ![h] = Tail(@)]
      BY <1>9 DEF Fanout
    <2>5. e \in ids => Announced(h, e)
      BY <2>1, <2>4, InboxTaken
    <2>6. e \in f.ids => Afloat(e)
      BY <2>3, <2>5 DEF Afloat
    <2> HIDE DEF News
    <2>7. QED
      BY <1>5, <2>3, <2>6
  <1>10. ASSUME NEW h \in Hosts, Lag(h) PROVE News
    <2>1. Integrated(room[h]) \in SUBSET Made
      BY DEF Integrated, TypeInv, Stores
    <2>2. PICK f \in MadeFrames : f = Frame("step1", Integrated(room[h]))
      BY <2>1, FrameIn
    <2>3. f.type = "step1" /\ down' = Told(Members(h), f) /\ Members(h) \in SUBSET Conns
      BY <1>10, <2>2 DEF Lag, Frame, Members
    <2> HIDE DEF News
    <2>4. QED
      BY <1>5, <2>3
  <1> HIDE DEF News
  <1>11. News
    BY <1>6, <1>7, <1>8, <1>9, <1>10
  <1>12. QED
    BY <1>2, <1>3, <1>11 DEF Abroad, News

LEMMA KeptStep ==
    ASSUME SyncInv, KeptInv, [Next]_vars
    PROVE  KeptInv'
  <1>1. TypeInv /\ TabInv /\ ReachInv /\ AgreeInv /\ SourceInv /\ JobsInRoom
    BY DEF SyncInv, KeptInv
  <1>2. CASE UNCHANGED vars
    BY <1>2 DEF vars, KeptInv, JobsInRoom, Abroad, Afloat, Announced, Brought, Kept, Stored,
                Skipped
  <1>3. CASE Next
    <2>1. JobsInRoom'
      BY <1>1, <1>3, JobsStep
    <2>2. ASSUME NEW e \in Ids, Abroad(e)' PROVE Abroad(e) \/ Kept(e)'
      <3>1. CASE \E t \in Tabs :
                   \/ Type(t) \/ SendDue(t) \/ ClientReceive(t) \/ ShowRemote(t) \/ Resend(t)
                   \/ OnClose(t) \/ \E h \in Hosts : Connect(t, h)
        BY <1>1, <2>2, <3>1, TabAbroad
      <3>2. CASE \E k \in Conns : ServerReceive(k)
        BY <1>1, <2>2, <3>2, ReceiveAbroad
      <3>3. CASE \/ \E k \in Conns : \/ Join(k) \/ Publish(k) \/ Save(k) \/ SaveFails(k)
                                     \/ Leave(k) \/ Cut(k)
                 \/ \E h \in Hosts : Compact(h) \/ Fanout(h) \/ Lag(h) \/ Crash(h)
        BY <1>1, <2>2, <3>3, ServerAbroad
      <3>4. QED
        BY <1>3, <3>1, <3>2, <3>3 DEF Next
    <2>3. ASSUME NEW e \in Ids, Abroad(e)' PROVE Kept(e)'
      <3>1. Abroad(e) => Kept(e)
        BY DEF KeptInv
      <3>2. Kept(e) => Kept(e)'
        BY <1>1, <1>3, KeptStays
      <3>3. QED
        BY <2>2, <2>3, <3>1, <3>2
    <2>4. QED
      BY <2>1, <2>3 DEF KeptInv
  <1>4. QED
    BY <1>2, <1>3
-----------------------------------------------------------------------------
(* The badge.                                                              *)

\* The last word about saving in the frames s is that it fails.
Failing(s) ==
    \E i \in 1..Len(s) :
        /\ s[i].type = "persist-failed"
        /\ \A j \in 1..Len(s) : i < j => s[j].type # "persist-ok"

\* The client shows the badge, or will, while its handler counts a failure.
Worded(t, k) ==
    \/ Failing(down[k])
    \/ unsaved[t] /\ \A f \in In(down[k]) : f.type # "persist-ok"

BadgeInv ==
    /\ \A k \in Conns : failed[k] => seat[k]
    /\ \A t \in Tabs : state[t] # "off" /\ failed[Current(t)] => Worded(t, Current(t))

LEMMA FailingAppend ==
    ASSUME NEW S, NEW s \in Seq(S), NEW f \in S
    PROVE  /\ f.type = "persist-failed" => Failing(Append(s, f))
           /\ f.type # "persist-ok" /\ Failing(s) => Failing(Append(s, f))
  <1>1. /\ Len(s) \in Nat /\ Len(Append(s, f)) = Len(s) + 1
        /\ Append(s, f)[Len(s) + 1] = f
        /\ \A i \in 1..Len(s) : Append(s, f)[i] = s[i]
    BY LenProperties, AppendProperties
  <1>2. ASSUME f.type = "persist-failed" PROVE Failing(Append(s, f))
    <2>1. Len(s) + 1 \in 1..(Len(s) + 1) /\ \A j \in 1..(Len(s) + 1) : ~(Len(s) + 1 < j)
      BY <1>1
    <2>2. QED
      BY <1>1, <1>2, <2>1 DEF Failing
  <1>3. ASSUME f.type # "persist-ok", Failing(s) PROVE Failing(Append(s, f))
    <2>1. PICK i \in 1..Len(s) : /\ s[i].type = "persist-failed"
                                 /\ \A j \in 1..Len(s) : i < j => s[j].type # "persist-ok"
      BY <1>3 DEF Failing
    <2>2. i \in 1..(Len(s) + 1) /\ \A j \in 1..(Len(s) + 1) : j \in 1..Len(s) \/ j = Len(s) + 1
      BY <1>1
    <2>3. \A j \in 1..(Len(s) + 1) : i < j => Append(s, f)[j].type # "persist-ok"
      BY <1>1, <1>3, <2>1, <2>2
    <2>4. QED
      BY <1>1, <2>1, <2>2, <2>3 DEF Failing
  <1>4. QED
    BY <1>2, <1>3

LEMMA FailingTail ==
    ASSUME NEW S, NEW s \in Seq(S), s # <<>>, Failing(s)
    PROVE  \/ Failing(Tail(s))
           \/ /\ Head(s).type = "persist-failed"
              /\ \A f \in In(Tail(s)) : f.type # "persist-ok"
  <1>1. /\ Len(s) \in Nat /\ Len(Tail(s)) = Len(s) - 1 /\ Head(s) = s[1]
        /\ \A i \in 1..Len(Tail(s)) : Tail(s)[i] = s[i + 1]
    BY LenProperties, HeadTailProperties
  <1>2. PICK i \in 1..Len(s) : /\ s[i].type = "persist-failed"
                               /\ \A j \in 1..Len(s) : i < j => s[j].type # "persist-ok"
    BY DEF Failing
  <1>3. CASE i = 1
    <2>1. \A j \in 1..Len(Tail(s)) : j + 1 \in 1..Len(s) /\ 1 < j + 1
      BY <1>1
    <2>2. \A j \in 1..Len(Tail(s)) : Tail(s)[j].type # "persist-ok"
      BY <1>1, <1>2, <1>3, <2>1
    <2>3. QED
      BY <1>1, <1>2, <1>3, <2>2 DEF In
  <1>4. CASE i # 1
    <2>1. i - 1 \in 1..Len(Tail(s)) /\ (i - 1) + 1 = i
      BY <1>1, <1>4
    <2>2. Tail(s)[i - 1].type = "persist-failed"
      BY <1>1, <1>2, <2>1
    <2>3. \A j \in 1..Len(Tail(s)) : j + 1 \in 1..Len(s) /\ (i - 1 < j => i < j + 1)
      BY <1>1
    <2>4. \A j \in 1..Len(Tail(s)) : i - 1 < j => Tail(s)[j].type # "persist-ok"
      BY <1>1, <1>2, <2>3
    <2>5. QED
      BY <2>1, <2>2, <2>4 DEF Failing
  <1>5. QED
    BY <1>3, <1>4

\* Telling clients anything else does not take the word back.
LEMMA ToldWords ==
    ASSUME TypeInv, NEW who \in SUBSET Conns, NEW f \in MadeFrames, down' = Told(who, f),
           f.type # "persist-ok", NEW t \in Tabs, NEW k \in Conns, unsaved'[t] <=> unsaved[t]
    PROVE  /\ Worded(t, k) => Worded(t, k)'
           /\ f.type = "persist-failed" /\ k \in who => Worded(t, k)'
  <1>1. /\ Told(who, f)[k] = IF k \in who THEN Append(down[k], f) ELSE down[k]
        /\ down[k] \in Seq(MadeFrames)
    <2>1. Told(who, f)[k] = IF k \in who THEN Append(down[k], f) ELSE down[k]
      BY ToldShape
    <2>2. down[k] \in Seq(MadeFrames)
      BY DEF TypeInv, Wires
    <2>3. QED
      BY <2>1, <2>2
  <1>2. \A g \in In(down'[k]) : g \in In(down[k]) \/ g = f
    BY ToldAll
  <1>3. /\ f.type = "persist-failed" => Failing(Append(down[k], f))
        /\ Failing(down[k]) => Failing(Append(down[k], f))
    BY <1>1, FailingAppend
  <1>4. Failing(down[k]) => Failing(down'[k])
    <2>1. CASE k \in who
      <3>1. down'[k] = Append(down[k], f)
        BY <1>1, <2>1
      <3>2. QED
        BY <1>3, <3>1
    <2>2. CASE k \notin who
      <3>1. down'[k] = down[k]
        BY <1>1, <2>2
      <3>2. QED
        BY <3>1
    <2>3. QED
      BY <2>1, <2>2
  <1>5. f.type = "persist-failed" /\ k \in who => Failing(down'[k])
    <2> SUFFICES ASSUME f.type = "persist-failed", k \in who PROVE Failing(down'[k])
      OBVIOUS
    <2>1. down'[k] = Append(down[k], f)
      BY <1>1
    <2>2. QED
      BY <1>3, <2>1
  <1>6. Failing(down'[k]) => Worded(t, k)'
    BY DEF Worded, Failing
  <1>7. QED
    BY <1>2, <1>4, <1>5, <1>6 DEF Worded

\* A step that begins no session.
LEMMA BadgeKept ==
    ASSUME TypeInv, BadgeInv, nth' = nth, \A t \in Tabs : state'[t] # "off" => state[t] # "off",
           \A k \in Conns : failed'[k] => seat'[k],
           \A t \in Tabs : \A k \in Conns :
              state'[t] # "off" /\ k = Current(t) /\ failed'[k] =>
                 Worded(t, k)' \/ (failed[k] /\ (Worded(t, k) => Worded(t, k)'))
    PROVE  BadgeInv'
  <1> SUFFICES ASSUME NEW t \in Tabs, state'[t] # "off", failed'[Current(t)]
               PROVE  Worded(t, Current(t))'
    BY DEF BadgeInv, Current
  <1>1. state[t] # "off"
    OBVIOUS
  <1>2. PICK k \in Conns : k = Current(t)
    BY <1>1, CurrentIn
  <1>3. failed'[k] /\ k = Current(t)'
    BY <1>2 DEF Current
  <1>4. failed[k] => Worded(t, k)
    BY <1>1, <1>2 DEF BadgeInv
  <1>5. Worded(t, k)'
    BY <1>2, <1>3, <1>4
  <1>6. QED
    BY <1>3, <1>5 DEF Worded

\* A step that leaves the last words and the counts of failures alone.
LEMMA BadgeAlone ==
    ASSUME TypeInv, BadgeInv, nth' = nth, \A t \in Tabs : state'[t] # "off" => state[t] # "off",
           failed' = failed, \A k \in Conns : seat[k] => seat'[k],
           unsaved' = unsaved,
           \A t \in Tabs : \A k \in Conns :
              state'[t] # "off" /\ k = Current(t) => down'[k] = down[k]
    PROVE  BadgeInv'
  <1>1. \A k \in Conns : failed'[k] => seat'[k]
    BY DEF BadgeInv
  <1>2. ASSUME NEW t \in Tabs, NEW k \in Conns, state'[t] # "off", k = Current(t)
        PROVE  Worded(t, k) => Worded(t, k)'
    <2>1. down'[k] = down[k]
      BY <1>2
    <2>2. QED
      BY <2>1 DEF Worded, Failing, In
  <1>3. QED
    BY <1>1, <1>2, BadgeKept

\* Server steps that tell clients something other than persist-ok.
LEMMA BadgeTold ==
    ASSUME TypeInv, BadgeInv, nth' = nth, state' = state, unsaved' = unsaved,
           \A k \in Conns : seat[k] => seat'[k],
           NEW who \in SUBSET Conns, NEW f \in MadeFrames, down' = Told(who, f),
           f.type # "persist-ok",
           \A k \in Conns : failed'[k] =>
              failed[k] \/ (k \in who /\ seat'[k] /\ f.type = "persist-failed")
    PROVE  BadgeInv'
  <1>1. \A k \in Conns : failed'[k] => seat'[k]
    BY DEF BadgeInv
  <1>2. ASSUME NEW t \in Tabs, NEW k \in Conns, failed'[k]
        PROVE  Worded(t, k)' \/ (failed[k] /\ (Worded(t, k) => Worded(t, k)'))
    <2>1. unsaved'[t] <=> unsaved[t]
      OBVIOUS
    <2>2. /\ Worded(t, k) => Worded(t, k)'
          /\ f.type = "persist-failed" /\ k \in who => Worded(t, k)'
      BY <2>1, ToldWords
    <2>3. QED
      BY <1>2, <2>2
  <1>3. QED
    BY <1>1, <1>2, BadgeKept

\* The client reads its frames in order: a failure that had the last word, and is
\* the frame it reads, leaves the badge on, and nothing after it takes it off.
LEMMA ReceiveBadge ==
    ASSUME TypeInv, BadgeInv, NEW t \in Tabs, ClientReceive(t)
    PROVE  BadgeInv'
  <1>1. PICK k \in Conns : k = Current(t)
    BY CurrentIn DEF ClientReceive
  <1>2. /\ down[k] \in Seq(MadeFrames) /\ down[k] # <<>>
        /\ down' = [down EXCEPT ![k] = Tail(@)]
        /\ nth' = nth /\ failed' = failed /\ seat' = seat /\ state[t] # "off"
    BY <1>1 DEF ClientReceive, TypeInv, Wires, server
  <1>3. down'[k] = Tail(down[k]) /\ \A c \in Conns \ {k} : down'[c] = down[c]
    BY <1>2 DEF TypeInv, Wires
  <1>4. PICK f \in MadeFrames : f = Head(down[k])
    BY <1>2, HeadShape
  <1>5. In(Tail(down[k])) \subseteq In(down[k]) /\ f \in In(down[k])
    BY <1>2, <1>4, TailIn
  <1>6. Merge(t, f) \/ Answer(t, f) \/ Badge(t, f)
    BY <1>1, <1>4 DEF ClientReceive
  <1>7. \A s \in Tabs : state'[s] # "off" => state[s] # "off"
    BY <1>2, <1>6 DEF Merge, Answer, Badge, TypeInv, Shapes
  <1>8. /\ \A s \in Tabs \ {t} : unsaved'[s] = unsaved[s]
        /\ f.type = "persist-failed" => unsaved'[t]
        /\ f.type # "persist-ok" /\ unsaved[t] => unsaved'[t]
    BY <1>6 DEF Merge, Answer, Badge, TypeInv, Flags
  <1>9. Worded(t, k) => Worded(t, k)'
    <2>1. CASE Failing(down[k])
      <3>1. \/ Failing(Tail(down[k]))
            \/ /\ f.type = "persist-failed"
               /\ \A g \in In(Tail(down[k])) : g.type # "persist-ok"
        BY <1>2, <1>4, <2>1, FailingTail
      <3>2. CASE Failing(Tail(down[k]))
        <4>1. Failing(down'[k])
          BY <1>3, <3>2
        <4>2. QED
          BY <4>1 DEF Worded, Failing
      <3>3. CASE /\ f.type = "persist-failed"
                 /\ \A g \in In(Tail(down[k])) : g.type # "persist-ok"
        <4>1. unsaved'[t] /\ \A g \in In(down'[k]) : g.type # "persist-ok"
          BY <1>3, <1>8, <3>3
        <4>2. QED
          BY <4>1 DEF Worded, In
      <3>4. QED
        BY <3>1, <3>2, <3>3
    <2>2. CASE unsaved[t] /\ \A g \in In(down[k]) : g.type # "persist-ok"
      <3>1. unsaved'[t] /\ \A g \in In(down'[k]) : g.type # "persist-ok"
        BY <1>3, <1>5, <1>8, <2>2
      <3>2. QED
        BY <3>1 DEF Worded, In
    <2>3. QED
      BY <2>1, <2>2 DEF Worded
  <1>10. ASSUME NEW s \in Tabs, NEW c \in Conns, s # t, c = Current(s)
         PROVE  Worded(s, c) => Worded(s, c)'
    <2>1. c # k
      BY <1>1, <1>10 DEF Current
    <2>2. down'[c] = down[c] /\ unsaved'[s] = unsaved[s]
      BY <1>3, <1>8, <1>10, <2>1
    <2>3. QED
      BY <2>2 DEF Worded, Failing, In
  <1>11. \A c \in Conns : failed'[c] => seat'[c]
    BY <1>2 DEF BadgeInv
  <1>12. ASSUME NEW s \in Tabs, NEW c \in Conns, c = Current(s)
         PROVE  Worded(s, c) => Worded(s, c)'
    BY <1>1, <1>9, <1>10, <1>12
  <1>13. QED
    BY <1>2, <1>7, <1>11, <1>12, BadgeKept

\* A new connection has no failure behind it.
LEMMA ConnectBadge ==
    ASSUME TypeInv, BadgeInv, NEW t \in Tabs, NEW h \in Hosts, Connect(t, h)
    PROVE  BadgeInv'
  <1>1. /\ failed' = failed /\ seat' = seat /\ down' = down /\ unsaved' = unsaved
        /\ nth' = [nth EXCEPT ![t] = @ + 1] /\ state' = [state EXCEPT ![t] = "joining"]
    BY DEF Connect
  <1>2. PICK k \in Conns : k = <<t, nth[t] + 1>>
    BY RoomToConnect DEF Connect
  <1>3. nth[t] \in Nat /\ nth'[t] = nth[t] + 1 /\ Current(t)' = k
    BY <1>1, <1>2, SyncAssumption DEF TypeInv, Shapes, Current
  <1>4. ~failed'[k]
    <2>1. nth[t] + 1 \in 1..MaxConns
      BY RoomToConnect DEF Connect
    <2>2. link[<<t, nth[t] + 1>>] = "unused"
      BY <1>3, <2>1 DEF TypeInv, Numbered
    <2>3. ~seat[k]
      BY <1>2, <2>2 DEF TypeInv, Blank
    <2>4. QED
      BY <1>1, <2>3 DEF BadgeInv
  <1>5. ASSUME NEW s \in Tabs, state'[s] # "off", failed'[Current(s)']
        PROVE  Worded(s, Current(s))'
    <2>1. s # t
      BY <1>3, <1>4, <1>5
    <2>2. state[s] # "off" /\ Current(s)' = Current(s)
      BY <1>1, <1>5, <2>1 DEF TypeInv, Shapes, Current
    <2>3. Worded(s, Current(s))
      BY <1>1, <1>5, <2>2 DEF BadgeInv
    <2>4. QED
      BY <1>1, <2>2, <2>3 DEF Worded, Failing, In
  <1>6. \A c \in Conns : failed'[c] => seat'[c]
    BY <1>1 DEF BadgeInv
  <1>7. QED
    BY <1>5, <1>6 DEF BadgeInv

LEMMA TabBadge ==
    ASSUME TypeInv, BadgeInv, NEW t \in Tabs,
           \/ Type(t) \/ SendDue(t) \/ ClientReceive(t) \/ ShowRemote(t) \/ Resend(t)
           \/ OnClose(t) \/ \E h \in Hosts : Connect(t, h)
    PROVE  BadgeInv'
  <1>1. CASE Type(t) \/ SendDue(t) \/ ShowRemote(t) \/ Resend(t)
    <2>1. /\ nth' = nth /\ state' = state /\ failed' = failed /\ seat' = seat
          /\ unsaved' = unsaved /\ down' = down
      BY <1>1 DEF Type, SendDue, ShowRemote, Resend, session, server, wire
    <2>2. QED
      BY <2>1, BadgeAlone
  <1>2. CASE OnClose(t)
    <2>1. /\ nth' = nth /\ failed' = failed /\ seat' = seat /\ unsaved' = unsaved
          /\ state' = [state EXCEPT ![t] = "off"]
          /\ down' = [down EXCEPT ![Current(t)] = <<>>]
      BY <1>2 DEF OnClose, server
    <2>2. \A s \in Tabs : state'[s] # "off" => state[s] # "off" /\ s # t
      BY <2>1 DEF TypeInv, Shapes
    <2>3. \A s \in Tabs : \A k \in Conns :
             state'[s] # "off" /\ k = Current(s) => down'[k] = down[k]
      BY <2>1, <2>2 DEF TypeInv, Wires, Current
    <2>4. QED
      BY <2>1, <2>2, <2>3, BadgeAlone
  <1>3. QED
    BY <1>1, <1>2, ReceiveBadge, ConnectBadge

\* The first success after a failure says so, and only then is the word changed.
LEMMA SaveBadge ==
    ASSUME TypeInv, BadgeInv, NEW k \in Conns, Save(k)
    PROVE  BadgeInv'
  <1>1. /\ nth' = nth /\ state' = state /\ seat' = seat /\ unsaved' = unsaved
        /\ failed' = [failed EXCEPT ![k] = FALSE]
        /\ down' = IF failed[k] THEN Told({k}, Frame("persist-ok", {})) ELSE down
    BY DEF Save, session
  <1>2. \A c \in Conns : failed'[c] => c # k /\ failed[c]
    BY <1>1 DEF TypeInv, Flags
  <1>3. \A c \in Conns \ {k} : down'[c] = down[c]
    BY <1>1 DEF Told
  <1>4. ASSUME NEW t \in Tabs, NEW c \in Conns, failed'[c]
        PROVE  failed[c] /\ (Worded(t, c) => Worded(t, c)')
    <2>1. failed[c] /\ down'[c] = down[c] /\ unsaved'[t] = unsaved[t]
      BY <1>1, <1>2, <1>3, <1>4
    <2>2. Worded(t, c) => Worded(t, c)'
      BY <2>1 DEF Worded, Failing, In
    <2>3. QED
      BY <2>1, <2>2
  <1>5. \A c \in Conns : failed'[c] => seat'[c]
    BY <1>1, <1>2 DEF BadgeInv
  <1>6. QED
    BY <1>1, <1>4, <1>5, BadgeKept

LEMMA WorkBadge ==
    ASSUME TypeInv, BadgeInv, NEW k \in Conns,
           \/ Join(k) \/ ServerReceive(k) \/ Publish(k) \/ Save(k) \/ SaveFails(k)
           \/ Leave(k) \/ Cut(k)
    PROVE  BadgeInv'
  <1>1. CASE Join(k)
    <2> DEFINE document == IF site[k] \in alive THEN room[site[k]] ELSE Stored
    <2>1. Integrated(document) \in SUBSET Made
      BY DEF Integrated, Stored, TypeInv, Stores
    <2>2. /\ nth' = nth /\ state' = state /\ unsaved' = unsaved /\ failed' = failed
          /\ seat' = [seat EXCEPT ![k] = TRUE]
          /\ down' = Told({k}, Frame("step1", Integrated(document)))
      BY <1>1 DEF Join, session
    <2>3. PICK f \in MadeFrames : f = Frame("step1", Integrated(document))
      BY <2>1, FrameIn
    <2>4. f.type # "persist-ok" /\ {k} \in SUBSET Conns /\ \A c \in Conns : seat[c] => seat'[c]
      BY <2>2, <2>3 DEF Frame, TypeInv, Flags
    <2> HIDE DEF document
    <2>5. QED
      BY <2>2, <2>3, <2>4, BadgeTold
  <1>2. CASE ServerReceive(k)
    <2>1. PICK f \in MadeFrames : /\ f = Head(up[k])
                                  /\ Backfill(k, f) \/ Absorb(k, f) \/ Apply(k, f)
      BY <1>2, HeadShape DEF ServerReceive
    <2>2. /\ nth' = nth /\ state' = state /\ unsaved' = unsaved /\ failed' = failed
          /\ seat' = seat /\ seat[k]
      BY <1>2 DEF ServerReceive, session
    <2>3. CASE Backfill(k, f)
      <3>1. Diff(room[site[k]], f.ids) \in SUBSET Made
        BY <2>2, SeatedSite DEF Diff
      <3>2. PICK g \in MadeFrames : g = Frame("step2", Diff(room[site[k]], f.ids))
        BY <3>1, FrameIn
      <3>3. g.type # "persist-ok" /\ {k} \in SUBSET Conns /\ down' = Told({k}, g)
        BY <2>3, <3>2 DEF Frame, Backfill
      <3>4. QED
        BY <2>2, <3>3, BadgeTold
    <2>4. CASE Absorb(k, f)
      <3>1. down' = down
        BY <2>4 DEF Absorb
      <3>2. QED
        BY <2>2, <3>1, BadgeAlone
    <2>5. CASE Apply(k, f)
      <3>1. f.type # "persist-ok" /\ Others(k) \in SUBSET Conns /\ down' = Told(Others(k), f)
        BY <2>5 DEF Apply, Others, Members
      <3>2. QED
        BY <2>2, <3>1, BadgeTold
    <2>6. QED
      BY <2>1, <2>3, <2>4, <2>5
  <1>3. CASE Publish(k) \/ Cut(k)
    <2>1. /\ nth' = nth /\ state' = state /\ unsaved' = unsaved /\ failed' = failed
          /\ seat' = seat /\ down' = down
      BY <1>3 DEF Publish, Cut, session, wire, server
    <2>2. QED
      BY <2>1, BadgeAlone
  <1>4. CASE SaveFails(k)
    <2>1. /\ nth' = nth /\ state' = state /\ unsaved' = unsaved /\ seat' = seat
          /\ failed' = [failed EXCEPT ![k] = TRUE] /\ job[k].step = "save"
          /\ down' = Told({k}, Frame("persist-failed", {}))
      BY <1>4 DEF SaveFails, session
    <2>2. seat[k] /\ {k} \in SUBSET Conns
      BY <2>1, JobSeated
    <2>3. PICK f \in MadeFrames : f = Frame("persist-failed", {})
      BY FrameIn
    <2>4. f.type = "persist-failed"
      BY <2>3 DEF Frame
    <2>5. \A c \in Conns : failed'[c] => failed[c] \/ c = k
      BY <2>1 DEF TypeInv, Flags
    <2>6. QED
      BY <2>1, <2>2, <2>3, <2>4, <2>5, BadgeTold
  <1>5. CASE Leave(k)
    <2>1. /\ nth' = nth /\ state' = state /\ unsaved' = unsaved /\ down' = down
          /\ seat' = [seat EXCEPT ![k] = FALSE] /\ failed' = [failed EXCEPT ![k] = FALSE]
      BY <1>5 DEF Leave, session
    <2>2. \A c \in Conns : failed'[c] => failed[c] /\ seat'[c]
      BY <2>1 DEF TypeInv, Flags, BadgeInv
    <2>3. \A t \in Tabs : \A c \in Conns : Worded(t, c) => Worded(t, c)'
      BY <2>1 DEF Worded, Failing, In
    <2>4. QED
      BY <2>1, <2>2, <2>3, BadgeKept
  <1>6. QED
    BY <1>1, <1>2, <1>3, <1>4, <1>5, SaveBadge

LEMMA HostBadge ==
    ASSUME TypeInv, BadgeInv, NEW h \in Hosts,
           Compact(h) \/ Fanout(h) \/ Lag(h) \/ Crash(h)
    PROVE  BadgeInv'
  <1>1. CASE Compact(h) \/ (Fanout(h) /\ h \notin alive)
    <2>1. /\ nth' = nth /\ state' = state /\ unsaved' = unsaved /\ failed' = failed
          /\ seat' = seat /\ down' = down
      BY <1>1 DEF Compact, Fanout, session, wire, server
    <2>2. QED
      BY <2>1, BadgeAlone
  <1>2. CASE Fanout(h) /\ h \in alive
    <2>1. PICK ids \in SUBSET Made : ids = Head(inbox[h])
      BY <1>2, InboxShape DEF Fanout
    <2>2. PICK f \in MadeFrames : f = Frame("update", ids)
      BY FrameIn
    <2>3. /\ nth' = nth /\ state' = state /\ unsaved' = unsaved /\ failed' = failed
          /\ seat' = seat /\ down' = Told(Members(h), f)
      BY <1>2, <2>1, <2>2 DEF Fanout, session, server
    <2>4. f.type # "persist-ok" /\ Members(h) \in SUBSET Conns
      BY <2>2 DEF Frame, Members
    <2>5. QED
      BY <2>3, <2>4, BadgeTold
  <1>3. CASE Lag(h)
    <2>1. Integrated(room[h]) \in SUBSET Made
      BY DEF Integrated, TypeInv, Stores
    <2>2. PICK f \in MadeFrames : f = Frame("step1", Integrated(room[h]))
      BY <2>1, FrameIn
    <2>3. /\ nth' = nth /\ state' = state /\ unsaved' = unsaved /\ failed' = failed
          /\ seat' = seat /\ down' = Told(Members(h), f)
      BY <1>3, <2>2 DEF Lag, session, server
    <2>4. f.type # "persist-ok" /\ Members(h) \in SUBSET Conns
      BY <2>2 DEF Frame, Members
    <2>5. QED
      BY <2>3, <2>4, BadgeTold
  <1>4. CASE Crash(h)
    <2>1. /\ nth' = nth /\ state' = state /\ unsaved' = unsaved /\ down' = down
          /\ seat' = [k \in Conns |-> seat[k] /\ k \notin {c \in Conns : site[c] = h}]
          /\ failed' = [k \in Conns |-> failed[k] /\ k \notin {c \in Conns : site[c] = h}]
      BY <1>4 DEF Crash, session
    <2>2. \A c \in Conns : failed'[c] => failed[c] /\ seat'[c]
      BY <2>1 DEF BadgeInv
    <2>3. \A t \in Tabs : \A c \in Conns : Worded(t, c) => Worded(t, c)'
      BY <2>1 DEF Worded, Failing, In
    <2>4. QED
      BY <2>1, <2>2, <2>3, BadgeKept
  <1>5. QED
    BY <1>1, <1>2, <1>3, <1>4

LEMMA BadgeStep == TypeInv /\ BadgeInv /\ [Next]_vars => BadgeInv'
  <1> SUFFICES ASSUME TypeInv, BadgeInv, [Next]_vars PROVE BadgeInv'
    OBVIOUS
  <1>1. CASE UNCHANGED vars
    <2>1. /\ nth' = nth /\ state' = state /\ unsaved' = unsaved /\ failed' = failed
          /\ seat' = seat /\ down' = down
      BY <1>1 DEF vars
    <2>2. QED
      BY <2>1, BadgeAlone
  <1>2. CASE Next
    BY <1>2, TabBadge, WorkBadge, HostBadge DEF Next
  <1>3. QED
    BY <1>1, <1>2

LEMMA InitBadge == Init => BadgeInv
  BY DEF Init, BadgeInv

\* What a quiet tab has typed is in its room, where somebody keeps it; and with
\* no frame left to read, the last word about saving is on its badge.
LEMMA QuietIsHonest == SyncInv /\ KeptInv /\ BadgeInv => BadgeHonest
  <1> SUFFICES ASSUME SyncInv, KeptInv, BadgeInv, NEW t \in Tabs, Quiet(t)
               PROVE  /\ failed[Current(t)] => unsaved[t]
                      /\ \A e \in ydoc[t] \cap ({t} \X Nat) :
                            \/ e \in Stored
                            \/ \E h \in alive : mark[h] /\ e \in room[h]
                            \/ e \in silent \/ e \in pruned
    BY DEF BadgeHonest
  <1>1. TypeInv /\ ReachInv
    BY DEF SyncInv
  <1>2. PICK k \in Conns : k = Current(t)
    BY <1>1, CurrentIn DEF Quiet
  <1>3. state[t] # "off" /\ seat[k] /\ down[k] = <<>>
    BY <1>2 DEF Quiet
  <1>4. failed[Current(t)] => unsaved[t]
    <2>1. ~Failing(down[k])
      BY <1>3 DEF Failing
    <2>2. QED
      BY <1>2, <1>3, <2>1 DEF BadgeInv, Worded
  <1>5. ASSUME NEW e \in ydoc[t] \cap ({t} \X Nat)
        PROVE  \/ e \in Stored
               \/ \E h \in alive : mark[h] /\ e \in room[h]
               \/ e \in silent \/ e \in pruned
    <2>1. e \in Ids /\ e[1] = t
      BY <1>1, <1>5 DEF TypeInv, Shapes, Made
    <2>2. site[k] \in alive /\ site[k] \in Hosts
      BY <1>1, <1>3, SeatedSite
    <2>3. e \in room[site[k]]
      BY <1>1, <1>2, <1>5, ReachesRoom DEF TabsReachRoom
    <2>4. Abroad(e)
      BY <2>2, <2>3 DEF Abroad, Afloat
    <2>5. Kept(e)
      BY <2>1, <2>4 DEF KeptInv
    <2>6. \A n \in 1..MaxConns : e \notin job[<<e[1], n>>].ids
      BY <2>1 DEF Quiet, Idle
    <2>7. QED
      BY <2>5, <2>6 DEF Kept, Skipped
  <1>6. QED
    BY <1>4, <1>5

\* A badge does not lie to a tab at rest: it shows "Not saved" while the last
\* append on its connection failed, and what the tab has typed is stored, or in
\* a room marked unsaved, unless some message about it was skipped or it was
\* pruned, whatever connections and instances went down in between.
THEOREM BadgesAreHonest == Spec => []BadgeHonest
  <1>1. SyncInv /\ KeptInv /\ BadgeInv /\ [Next]_vars => (SyncInv /\ KeptInv /\ BadgeInv)'
    BY SyncStep, KeptStep, BadgeStep DEF SyncInv
  <1>2. Init => SyncInv /\ KeptInv /\ BadgeInv
    BY InitSync, InitKept, InitBadge
  <1>3. QED
    BY <1>1, <1>2, QuietIsHonest, PTL DEF Spec
=============================================================================
