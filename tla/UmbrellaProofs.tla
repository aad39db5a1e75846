--------------------------- MODULE UmbrellaProofs ---------------------------
(* Merging loses no knowledge and builds a forest: the proofs of               *)
(* UmbrellaHoldsOriginals, MergeForest and LinksHold, for every set of nodes,    *)
(* umbrellas and clients.  Nodes are only ever added, an umbrella's key is new   *)
(* when it is recorded, and every copy that may be written back, like every     *)
(* link, names an umbrella that exists and was fused from its node.            *)
EXTENDS LifecycleProofs

-----------------------------------------------------------------------------
(* The strengthening. *)

\* No node that somebody has read or may write is missing from the memory.
Known == /\ Keys \subseteq Stored(store)
         /\ Stored(snap) \subseteq Stored(store)
         /\ \A c \in Clients : client[c] # None => client[c].key \in Stored(store)
         /\ \A u \in AllKeys : folded[u] \subseteq Stored(store)

\* If node, to be stored under k, is marked, its umbrella exists and holds k.
Backed(k, node) == node.mergedInto # None => /\ node.mergedInto \in Stored(store)
                                             /\ k \in folded[node.mergedInto]

BackedCopies == /\ \A k \in AllKeys : Backed(k, store[k]) /\ Backed(k, snap[k])
                /\ \A c \in Clients : client[c] # None =>
                                        Backed(client[c].key, client[c].node)

\* A running merge knows all keys taken, and has recorded the umbrella it archives
\* originals under.
BackedMerge ==
  /\ pc \in {"fold", "archive"} => Stored(store) \subseteq existing
  /\ pc = "archive" => umbrella \in Stored(store) /\ todo \subseteq folded[umbrella]

\* Fusing builds a forest: what an umbrella was fused from existed before it did.
FoldedForest == \A cycle \in SUBSET AllKeys :
                  cycle # {} => \E k \in cycle : \A u \in cycle : k \notin folded[u]

HInv == /\ Inv
        /\ Known
        /\ ~degraded => BackedCopies /\ BackedMerge /\ FoldedForest

\* What every step does to the umbrellas that exist: it keeps them.
Grows == /\ Stored(store) \subseteq Stored(store')
         /\ \A u \in Stored(store) : folded'[u] = folded[u]

-----------------------------------------------------------------------------
(* Facts. *)

\* Absent and fresh nodes are unmarked, so backed.
LEMMA Unmarked == ASSUME NEW k \in AllKeys
                  PROVE /\ Backed(k, Absent)
                        /\ \A stamp \in 0..MaxClock : Backed(k, Fresh(stamp))
BY DEF Backed, Absent, Fresh

\* What was backed stays backed.
LEMMA BackedStays == ASSUME NEW k, NEW node, Backed(k, node), Grows
                     PROVE  Backed(k, node)'
BY DEF Backed, Grows

\* Writing a node over a stored one adds and removes none.
LEMMA RewriteGrows == ASSUME GoodNodes(store), NEW k \in Stored(store),
                             NEW node \in Node, Record(k, node), UNCHANGED folded
                      PROVE  /\ Grows /\ Stored(store') = Stored(store)
                             /\ \A j \in AllKeys : store'[j] = IF j = k THEN node
                                                                        ELSE store[j]
BY AbsentFacts DEF GoodNodes, Record, Stored, Grows

\* Everything is unmarked, and nothing merged, at the start.
LEMMA InitHolds == Init => HInv
<1> SUFFICES ASSUME Init PROVE HInv
  OBVIOUS
<1>1. Inv
  BY InitInv
<1>2. Fresh(1) \in Node
  BY FreshFacts, LifecycleBounds
<1>3. Known
  <2>1. Fresh(1) # Absent
    BY DEF Fresh, Absent
  <2>2. \A k \in Keys : store[k] = Fresh(1)
    BY DEF Init, AllKeys
  <2>3. Stored(snap) = {}
    BY DEF Init, Stored, NoNodes
  <2>4. \A c \in Clients : client[c] = None
    BY DEF Init
  <2>5. \A u \in AllKeys : folded[u] = {}
    BY DEF Init
  <2> QED
    BY <2>1, <2>2, <2>3, <2>4, <2>5 DEF Known, Stored, AllKeys
<1>4. BackedCopies
  BY DEF Init, BackedCopies, Backed, NoNodes, Fresh, Absent
<1>5. BackedMerge
  BY DEF Init, BackedMerge
<1>6. FoldedForest
  BY DEF Init, FoldedForest
<1> QED
  BY <1>1, <1>3, <1>4, <1>5, <1>6 DEF HInv

-----------------------------------------------------------------------------
(* Steps that write no node. *)

\* With the memory and folded unchanged it is enough to look at the copies and at
\* the pass.
LEMMA ReadOnly ==
  ASSUME HInv, Inv', UNCHANGED <<store, folded>>, Known', ~degraded' => ~degraded,
         ~degraded' => BackedMerge',
         \A k \in AllKeys : snap'[k] \in {snap[k], store[k], Absent},
         \A c \in Clients : client'[c] # None /\ ~degraded =>
            Backed(client'[c].key, client'[c].node)
  PROVE  HInv'
<1>1. SUFFICES ASSUME ~degraded' PROVE BackedCopies'
  BY DEF HInv, FoldedForest
<1>2. BackedCopies /\ Grows
  BY <1>1 DEF HInv, Grows, Stored
<1>3. \A k \in AllKeys : Backed(k, store'[k]) /\ Backed(k, snap'[k])
  BY <1>2, Unmarked DEF BackedCopies
<1> QED
  BY <1>1, <1>2, <1>3 DEF BackedCopies, Backed, Stored

-----------------------------------------------------------------------------
(* Steps that write one node over a stored one. *)

\* Recording a node over a stored one keeps HInv, if the node is backed by what is
\* stored and nothing else begins.
LEMMA Overwrite ==
  ASSUME HInv, Inv', NEW k \in Stored(store), NEW node \in Node, Record(k, node),
         UNCHANGED <<folded, degraded, existing, umbrella>>,
         \A j \in AllKeys : snap'[j] = snap[j] \/ (j = k /\ snap'[j] = node),
         ~degraded => Backed(k, node),
         pc' = pc, todo' \subseteq todo,
         \A c \in Clients : client'[c] # None =>
            client[c] # None /\ client'[c].key = client[c].key
                             /\ client'[c].node = client[c].node
  PROVE  HInv'
<1>1. /\ Grows /\ Stored(store') = Stored(store)
      /\ \A j \in AllKeys : store'[j] = IF j = k THEN node ELSE store[j]
  BY RewriteGrows, InvParts DEF HInv
<1>2. Known'
  BY <1>1 DEF HInv, Known, Stored
<1>3. ASSUME ~degraded PROVE BackedCopies'
  <2>1. \A j \in AllKeys : Backed(j, store[j])' /\ Backed(j, snap[j])'
    BY <1>1, <1>3, BackedStays DEF HInv, BackedCopies, Backed, Grows, Stored
  <2>2. \A c \in Clients : client'[c] # None => Backed(client[c].key, client[c].node)'
    BY <1>1, <1>3 DEF HInv, BackedCopies, Backed, Grows
  <2> QED
    BY <2>1, <2>2 DEF BackedCopies
<1>4. ASSUME ~degraded PROVE BackedMerge'
  BY <1>1, <1>4 DEF HInv, BackedMerge, Grows
<1> QED
  BY <1>2, <1>3, <1>4 DEF HInv, FoldedForest

-----------------------------------------------------------------------------
(* Each step keeps HInv. *)

\* Steps of a sweep keep the invariant.
LEMMA SweepHolds == ASSUME HInv, SweepStep PROVE HInv'
<1>0. Inv /\ Inv'
  BY SweepInv DEF HInv
<1>1. ASSUME SweepStart PROVE HInv'
  <2>1. Known' /\ (~degraded' => BackedMerge')
    BY <1>1 DEF SweepStart, HInv, Known, BackedMerge, Stored
  <2>2. /\ \A k \in AllKeys : snap'[k] \in {snap[k], store[k], Absent}
        /\ \A c \in Clients : client'[c] # None /\ ~degraded =>
             Backed(client'[c].key, client'[c].node)
    BY <1>1 DEF SweepStart, HInv, BackedCopies
  <2> QED
    BY <1>0, <1>1, <2>1, <2>2, ReadOnly DEF SweepStart
<1>2. ASSUME SweepEnd PROVE HInv'
  <2>1. Known' /\ (~degraded' => BackedMerge')
    BY <1>2 DEF SweepEnd, HInv, Known, BackedMerge, Stored, NoNodes
  <2>2. /\ \A k \in AllKeys : snap'[k] \in {snap[k], store[k], Absent}
        /\ \A c \in Clients : client'[c] # None /\ ~degraded =>
             Backed(client'[c].key, client'[c].node)
    BY <1>2 DEF SweepEnd, HInv, BackedCopies, NoNodes
  <2> QED
    BY <1>0, <1>2, <2>1, <2>2, ReadOnly DEF SweepEnd
<1>3. ASSUME NEW k \in AllKeys, SweepNode(k) PROVE HInv'
  <2>1. CASE UNCHANGED store
    <3>1. Known' /\ (~degraded' => BackedMerge')
      BY <1>3, <2>1 DEF SweepNode, HInv, Known, BackedMerge, Stored
    <3> QED
      BY <1>0, <1>3, <2>1, <3>1, ReadOnly DEF SweepNode, HInv, BackedCopies
  <2>2. CASE store' # store
    <3> DEFINE node == [snap[k] EXCEPT !.state = NextState(snap[k].lastSeen, sweepNow)]
    <3>1. ~SweepSkips(snap[k]) /\ Record(k, node)
      BY <1>3, <2>2 DEF SweepNode, SweepWrites
    <3>2. snap[k] \in Node /\ snap[k].mergedInto = None
      BY <1>0, <3>1, AbsentFacts, InvParts DEF GoodNodes, SweepSkips
    <3>3. node \in Node /\ node.mergedInto = None
      BY <3>2, NextStateIsState DEF Node
    <3>4. k \in Stored(store)
      BY <3>2, AbsentFacts DEF HInv, Known, Stored
    <3>5. todo' \subseteq todo
      BY <1>3 DEF SweepNode, SweepRest
    <3> HIDE DEF node
    <3>6. Backed(k, node)
      BY <3>3 DEF Backed
    <3> QED
      BY <1>0, <1>3, <3>1, <3>3, <3>4, <3>5, <3>6, Overwrite DEF SweepNode
  <2> QED
    BY <2>1, <2>2
<1> QED
  BY <1>1, <1>2, <1>3 DEF SweepStep

\* Steps of a merge keep the invariant.
LEMMA MergeHolds == ASSUME HInv, MergeStep PROVE HInv'
<1>0. Inv /\ Inv'
  BY MergeInv DEF HInv
<1>1. ASSUME MergeNothing \/ MergeEnd PROVE HInv'
  <2>1. Known' /\ (~degraded' => BackedMerge')
    BY <1>1 DEF MergeNothing, MergeEnd, PassOver, HInv, Known, BackedMerge, Stored, NoNodes
  <2>2. \A k \in AllKeys : snap'[k] \in {snap[k], store[k], Absent}
    BY <1>1 DEF MergeNothing, MergeEnd, PassOver, NoNodes
  <2> QED
    BY <1>0, <1>1, <2>1, <2>2, ReadOnly DEF MergeNothing, MergeEnd, HInv, BackedCopies
<1>2. ASSUME MergeStart PROVE HInv'
  <2>1. Known' /\ (~degraded' => BackedMerge')
    BY <1>2 DEF MergeStart, HInv, Known, BackedMerge, Stored
  <2> QED
    BY <1>0, <1>2, <2>1, ReadOnly DEF MergeStart, HInv, BackedCopies
<1>3. ASSUME ExistingKeys PROVE HInv'
  <2>1. ~degraded' => ~degraded /\ existing' = Stored(store)
    BY <1>3 DEF ExistingKeys
  <2>2. Known' /\ (~degraded' => BackedMerge')
    BY <1>3, <2>1 DEF ExistingKeys, HInv, Known, BackedMerge, Stored
  <2> QED
    BY <1>0, <1>3, <2>1, <2>2, ReadOnly DEF ExistingKeys, HInv, BackedCopies
<1>4. ASSUME UmbrellaDone PROVE HInv'
  <2>1. Known' /\ (~degraded' => BackedMerge')
    BY <1>4 DEF UmbrellaDone, HInv, Known, BackedMerge, Stored
  <2> QED
    BY <1>0, <1>4, <2>1, ReadOnly DEF UmbrellaDone, HInv, BackedCopies
<1>5. ASSUME NEW u \in AllKeys, NEW merged \in SUBSET group, NEW ok \in BOOLEAN,
             Fold(u, merged, ok)
      PROVE HInv'
  <2>1. CASE ~ok
    <3>1. Known' /\ (~degraded' => BackedMerge')
      BY <1>5, <2>1 DEF Fold, ArchivesAfter, HInv, Known, BackedMerge, Stored
    <3> QED
      BY <1>0, <1>5, <2>1, <3>1, ReadOnly DEF Fold, HInv, BackedCopies
  <2>2. CASE ok
    <3>1. PICK stamp \in 0..now : Record(u, Fresh(stamp))
      BY <1>5, <2>2 DEF Fold
    <3> DEFINE fresh == Fresh(stamp)
    <3>2. fresh \in Node /\ fresh # Absent /\ fresh.mergedInto = None
      BY <1>0, AbsentFacts, FreshFacts, InvParts, LifecycleBounds DEF GoodRest, Fresh
    <3> HIDE DEF fresh
    <3>3. Record(u, fresh)
      BY <3>1 DEF fresh
    <3>4. /\ Stored(store') = Stored(store) \cup {u}
          /\ \A j \in AllKeys : store'[j] = IF j = u THEN fresh ELSE store[j]
      BY <1>0, <3>2, <3>3, InvParts DEF GoodNodes, Record, Stored
    <3>5. folded' = [folded EXCEPT ![u] = merged] /\ folded'[u] = merged
      BY <1>0, <1>5, <2>2, InvParts DEF Fold, GoodRest
    <3>6. ASSUME ~degraded PROVE Grows
      BY <1>0, <1>5, <3>4, <3>5, <3>6, InvParts
         DEF Fold, ValidUmbrella, HInv, BackedMerge, Grows, GoodRest, Stored
    <3>7. Known'
      <4>1. merged \subseteq Stored(store)
        BY <1>0, <1>5, InvParts DEF Fold, HInv, Known, GoodPass, GroupWasRead
      <4> QED
        BY <1>0, <1>5, <3>4, <3>5, <4>1, InvParts DEF Fold, HInv, Known, Stored, GoodRest
    <3>8. ASSUME ~degraded PROVE BackedCopies'
      <4>1. \A j \in AllKeys : Backed(j, store[j])' /\ Backed(j, snap[j])'
        BY <1>5, <3>2, <3>4, <3>6, <3>8 DEF Fold, HInv, BackedCopies, Backed, Grows, Stored
      <4> QED
        BY <1>5, <3>6, <3>8, <4>1 DEF Fold, HInv, BackedCopies, Backed, Grows
    <3>9. ASSUME ~degraded PROVE BackedMerge'
      BY <1>5, <2>2, <3>4, <3>5, <3>9 DEF Fold, ArchivesAfter, HInv, BackedMerge
    <3>10. ASSUME ~degraded PROVE FoldedForest'
      <4>1. SUFFICES ASSUME NEW cycle \in SUBSET AllKeys, cycle # {}
                     PROVE  \E k \in cycle : \A v \in cycle : k \notin folded'[v]
        BY DEF FoldedForest
      <4>2. u \notin Stored(store) /\ merged \subseteq Stored(store)
        BY <1>0, <1>5, <3>10, InvParts
           DEF Fold, ValidUmbrella, HInv, BackedMerge, Known, GoodPass, GroupWasRead
      <4>3. \A v \in AllKeys : u \notin folded'[v]
        BY <1>0, <3>5, <4>2, InvParts DEF HInv, Known, GoodRest
      <4>4. CASE u \in cycle
        BY <4>3, <4>4
      <4>5. CASE u \notin cycle
        <5>1. \A v \in cycle : folded'[v] = folded[v]
          BY <1>0, <3>5, <4>5, InvParts DEF GoodRest
        <5> QED
          BY <3>10, <4>1, <5>1 DEF HInv, FoldedForest
      <4> QED
        BY <4>4, <4>5
    <3> QED
      BY <1>0, <1>5, <3>7, <3>8, <3>9, <3>10 DEF Fold, HInv
  <2> QED
    BY <2>1, <2>2
<1>6. ASSUME NEW k \in AllKeys, NEW ok \in BOOLEAN, ArchiveOriginal(k, ok)
      PROVE HInv'
  <2> DEFINE node == [snap[k] EXCEPT !.state = "archived", !.mergedInto = umbrella]
  <2>1. /\ snap[k] \in Node /\ umbrella \in AllKeys
        /\ snap \in [AllKeys -> Node \cup {Absent}]
    BY <1>0, <1>6, InvParts DEF ArchiveOriginal, GoodPass, GroupWasRead, GoodNodes, Stored
  <2>2. node \in Node /\ node.mergedInto = umbrella
    BY <2>1 DEF Node, States
  <2>3. \A j \in AllKeys : snap'[j] = IF j = k THEN node ELSE snap[j]
    BY <1>6, <2>1 DEF ArchiveOriginal
  <2> HIDE DEF node
  <2>4. k \in Stored(store)
    BY <2>1, AbsentFacts DEF HInv, Known, Stored
  <2>5. ~degraded => Backed(k, node)
    BY <1>6, <2>2 DEF ArchiveOriginal, HInv, BackedMerge, Backed
  <2>6. todo' \subseteq todo
    BY <1>6 DEF ArchiveOriginal
  <2>7. CASE ok
    <3>1. Record(k, node)
      BY <1>6, <2>3, <2>7 DEF ArchiveOriginal
    <3> QED
      BY <1>0, <1>6, <2>2, <2>3, <2>4, <2>5, <2>6, <3>1, Overwrite DEF ArchiveOriginal
  <2>8. CASE ~ok
    <3>1. UNCHANGED <<store, folded, degraded, existing, umbrella, client, pc>>
      BY <1>6, <2>8 DEF ArchiveOriginal
    <3>2. Known'
      BY <2>3, <2>4, <3>1 DEF HInv, Known, Stored
    <3>3. ~degraded => BackedCopies' /\ BackedMerge' /\ FoldedForest'
      BY <2>3, <2>5, <2>6, <3>1
         DEF HInv, BackedCopies, BackedMerge, Backed, FoldedForest, Stored
    <3> QED
      BY <1>0, <3>1, <3>2, <3>3 DEF HInv
  <2> QED
    BY <2>7, <2>8
<1> QED
  BY <1>1, <1>2, <1>3, <1>4, <1>5, <1>6 DEF MergeStep

\* Steps of the clients keep the invariant.
LEMMA ClientHolds == ASSUME HInv, ClientStep PROVE HInv'
<1>0. Inv /\ Inv'
  BY ClientInv DEF HInv
\* A client that starts holds a copy of a stored node, marked as it is or not at all.
<1>1. ASSUME NEW c \in Clients, NEW k \in AllKeys, NEW op, NEW node, NEW detached,
             CanStart(c, k), Hold(c, op, k, node, detached),
             node.mergedInto \in {store[k].mergedInto, None},
             UNCHANGED <<store, folded, passVars, degraded>>
      PROVE HInv'
  <2>1. client' = [client EXCEPT ![c] = [op |-> op, key |-> k, node |-> node,
                                         detached |-> detached]]
    BY <1>1 DEF Hold
  <2>2. \A d \in Clients : client'[d] = IF d = c THEN [op |-> op, key |-> k, node |-> node,
                                                      detached |-> detached]
                                       ELSE client[d]
    BY <1>0, <2>1, InvParts DEF GoodClients
  <2>3. k \in Stored(store)
    BY <1>1 DEF CanStart, Stored
  <2>4. ~degraded => Backed(k, node)
    BY <1>1 DEF HInv, BackedCopies, Backed
  <2>5. Known'
    BY <1>1, <2>2, <2>3 DEF HInv, Known, Stored, passVars
  <2>6. ~degraded => BackedMerge'
    BY <1>1 DEF HInv, BackedMerge, Stored, passVars
  <2>7. \A d \in Clients : client'[d] # None /\ ~degraded =>
          Backed(client'[d].key, client'[d].node)
    BY <2>2, <2>4 DEF HInv, BackedCopies
  <2> QED
    BY <1>0, <1>1, <2>5, <2>6, <2>7, ReadOnly DEF passVars
<1>2. ASSUME NEW c \in Clients, NEW k \in AllKeys, NEW force \in BOOLEAN,
             RestoreRecall(c, k, force)
      PROVE HInv'
  <2>1. store[k] \in Node
    BY <1>0, <1>2, StartFacts, InvParts DEF RestoreRecall
  <2>2. RestoredNode(store[k]).mergedInto = None
    BY <2>1 DEF RestoredNode, Node
  <2> QED
    BY <1>1, <1>2, <2>2 DEF RestoreRecall
<1>3. ASSUME NEW c \in Clients, NEW k \in AllKeys, RewriteRecall(c, k) PROVE HInv'
  <2>1. store[k] \in Node
    BY <1>0, <1>3, StartFacts, InvParts DEF RewriteRecall
  <2>2. PICK stamp \in {store[k].lastSeen} \cup 1..now :
          Hold(c, "rewrite", k, [store[k] EXCEPT !.lastSeen = stamp], None)
    BY <1>3 DEF RewriteRecall
  <2>3. [store[k] EXCEPT !.lastSeen = stamp].mergedInto = store[k].mergedInto
    BY <2>1 DEF Node
  <2> QED
    BY <1>1, <1>3, <2>2, <2>3 DEF RewriteRecall
\* A client writes the copy it holds, and lets go or goes on with the same copy.
<1>4. ASSUME NEW c \in Clients, client[c] # None, Record(client[c].key, client[c].node),
             Release(c) \/ client' = [client EXCEPT ![c].op = "unlink"],
             UNCHANGED <<folded, passVars, degraded>>
      PROVE HInv'
  <2>1. client[c] \in Held /\ client \in [Clients -> Held \cup {None}]
    BY <1>0, <1>4, InvParts DEF GoodClients
  <2>2. client[c].key \in Stored(store) /\ client[c].node \in Node
    BY <1>4, <2>1 DEF HInv, Known, Held
  <2>3. ~degraded => Backed(client[c].key, client[c].node)
    BY <1>4 DEF HInv, BackedCopies
  <2>4. \A d \in Clients : client'[d] # None =>
          client[d] # None /\ client'[d].key = client[d].key
                           /\ client'[d].node = client[d].node
    BY <1>4, <2>1 DEF Release, Held
  <2> QED
    BY <1>0, <1>4, <2>2, <2>3, <2>4, Overwrite DEF passVars
<1>5. ASSUME NEW c \in Clients, RestoreRecord(c) \/ RewriteRecord(c) PROVE HInv'
  BY <1>4, <1>5 DEF RestoreRecord, RewriteRecord, Holds
<1>6. ASSUME NEW c \in Clients, RestoreUnlink(c) \/ GiveUp(c) PROVE HInv'
  <2>1. Release(c) /\ UNCHANGED <<store, folded, passVars, degraded>>
    BY <1>6 DEF RestoreUnlink, GiveUp
  <2>2. \A d \in Clients : client'[d] # None => client'[d] = client[d]
    BY <1>0, <2>1, InvParts DEF Release, GoodClients
  <2>3. Known' /\ (~degraded => BackedMerge')
    BY <2>1, <2>2 DEF HInv, Known, BackedMerge, Stored, passVars
  <2> QED
    BY <1>0, <2>1, <2>2, <2>3, ReadOnly DEF HInv, BackedCopies, passVars
<1>7. ASSUME NEW k \in Keys, RecordAfresh(k) PROVE HInv'
  <2>1. PICK stamp \in 0..now : Record(k, Fresh(stamp))
    BY <1>7 DEF RecordAfresh
  <2> DEFINE fresh == Fresh(stamp)
  <2>2. fresh \in Node /\ fresh.mergedInto = None
    BY <1>0, FreshFacts, InvParts, LifecycleBounds DEF GoodRest, Fresh
  <2>3. k \in Stored(store)
    BY DEF HInv, Known
  <2>4. Record(k, fresh)
    BY <2>1
  <2> HIDE DEF fresh
  <2>5. Backed(k, fresh)
    BY <2>2 DEF Backed
  <2> QED
    BY <1>0, <1>7, <2>2, <2>3, <2>4, <2>5, Overwrite DEF RecordAfresh, passVars
<1> QED
  BY <1>2, <1>3, <1>5, <1>6, <1>7 DEF ClientStep

\* Every step, and stuttering, keeps HInv.
LEMMA StepHolds == ASSUME HInv, [Next]_vars PROVE HInv'
<1>0. Inv /\ Inv'
  BY StepInv DEF HInv
<1>1. CASE Tick \/ UNCHANGED vars
  <2>1. UNCHANGED <<store, folded, passVars, client, degraded>>
    BY <1>1 DEF Tick, vars
  <2>2. Known' /\ (~degraded => BackedMerge')
    BY <2>1 DEF HInv, Known, BackedMerge, Stored, passVars
  <2> QED
    BY <1>0, <2>1, <2>2, ReadOnly DEF HInv, BackedCopies, passVars
<1>2. CASE Abort
  <2>1. Known' /\ (~degraded => BackedMerge')
    BY <1>2 DEF Abort, PassOver, HInv, Known, BackedMerge, Stored, NoNodes
  <2>2. \A k \in AllKeys : snap'[k] = Absent
    BY <1>2 DEF Abort, PassOver, NoNodes
  <2> QED
    BY <1>0, <1>2, <2>1, <2>2, ReadOnly DEF Abort, HInv, BackedCopies
<1>3. CASE SweepStep
  BY <1>3, SweepHolds
<1>4. CASE MergeStep
  BY <1>4, MergeHolds
<1>5. CASE ClientStep
  BY <1>5, ClientHolds
<1> QED
  BY <1>1, <1>2, <1>3, <1>4, <1>5 DEF Next

-----------------------------------------------------------------------------
(* Links. *)

\* Writing a copy that somebody has read takes no umbrella away.
LEMMA WriteGrows == ASSUME HInv, NEW k \in Stored(store), NEW node \in Node,
                           Record(k, node), UNCHANGED folded
                    PROVE  Grows
BY RewriteGrows, InvParts DEF HInv

\* Every step keeps the umbrellas that exist, unless a collision set is degraded.
LEMMA StepGrows == ASSUME HInv, [Next]_vars, ~degraded' PROVE ~degraded /\ Grows
<1>0. Inv
  BY DEF HInv
<1>1. ASSUME UNCHANGED <<store, folded>> PROVE Grows
  BY <1>1 DEF Grows, Stored
<1>2. CASE Tick \/ Abort \/ UNCHANGED vars
  BY <1>1, <1>2 DEF Tick, Abort, vars
<1>3. CASE SweepStart \/ SweepEnd
  BY <1>1, <1>3 DEF SweepStart, SweepEnd
<1>4. ASSUME NEW k \in AllKeys, SweepNode(k) PROVE ~degraded /\ Grows
  <2> DEFINE node == [snap[k] EXCEPT !.state = NextState(snap[k].lastSeen, sweepNow)]
  <2>1. UNCHANGED <<degraded, folded>>
    BY <1>4 DEF SweepNode
  <2>2. CASE UNCHANGED store
    BY <1>1, <2>1, <2>2
  <2>3. CASE store' # store
    <3>1. ~SweepSkips(snap[k]) /\ Record(k, node)
      BY <1>4, <2>3 DEF SweepNode, SweepWrites
    <3>2. snap[k] \in Node
      BY <1>0, <3>1, AbsentFacts, InvParts DEF GoodNodes
    <3>3. node \in Node
      BY <3>2, NextStateIsState DEF Node
    <3>4. k \in Stored(store)
      BY <3>2, AbsentFacts DEF HInv, Known, Stored
    <3> QED
      BY <2>1, <3>1, <3>3, <3>4, WriteGrows
  <2> QED
    BY <2>2, <2>3
<1>5. CASE MergeNothing \/ MergeStart \/ ExistingKeys \/ UmbrellaDone \/ MergeEnd
  <2>1. UNCHANGED <<store, folded>>
    BY <1>5 DEF MergeNothing, MergeStart, ExistingKeys, UmbrellaDone, MergeEnd
  <2>2. ASSUME ExistingKeys PROVE ~degraded
    <3>1. degraded \in BOOLEAN
      BY <1>0, InvParts DEF GoodRest
    <3>2. CASE degraded
      BY <2>2, <3>1, <3>2 DEF ExistingKeys
    <3> QED
      BY <3>2
  <2> QED
    BY <1>1, <1>5, <2>1, <2>2 DEF MergeNothing, MergeStart, UmbrellaDone, MergeEnd
<1>6. ASSUME NEW u \in AllKeys, NEW merged \in SUBSET group, NEW ok \in BOOLEAN,
             Fold(u, merged, ok)
      PROVE ~degraded /\ Grows
  <2>1. UNCHANGED degraded
    BY <1>6 DEF Fold
  <2>2. CASE ~ok
    BY <1>1, <1>6, <2>1, <2>2 DEF Fold
  <2>3. CASE ok
    <3>1. u \notin Stored(store)
      BY <1>6, <2>1 DEF Fold, ValidUmbrella, HInv, BackedMerge
    <3>2. \A k \in Stored(store) : store'[k] = store[k] /\ folded'[k] = folded[k]
      BY <1>0, <1>6, <2>3, <3>1, InvParts DEF Fold, Record, GoodNodes, GoodRest, Stored
    <3> QED
      BY <2>1, <3>2 DEF Grows, Stored
  <2> QED
    BY <2>2, <2>3
<1>7. ASSUME NEW k \in AllKeys, NEW ok \in BOOLEAN, ArchiveOriginal(k, ok)
      PROVE ~degraded /\ Grows
  <2> DEFINE node == [snap[k] EXCEPT !.state = "archived", !.mergedInto = umbrella]
  <2>1. UNCHANGED <<degraded, folded>>
    BY <1>7 DEF ArchiveOriginal
  <2>2. /\ snap[k] \in Node /\ umbrella \in AllKeys
        /\ snap \in [AllKeys -> Node \cup {Absent}]
    BY <1>0, <1>7, InvParts DEF ArchiveOriginal, GoodPass, GroupWasRead, GoodNodes, Stored
  <2>3. node \in Node /\ snap'[k] = node
    BY <1>7, <2>2 DEF ArchiveOriginal, Node, States
  <2>4. k \in Stored(store)
    BY <2>2, AbsentFacts DEF HInv, Known, Stored
  <2> HIDE DEF node
  <2> QED
    BY <1>1, <1>7, <2>1, <2>3, <2>4, WriteGrows DEF ArchiveOriginal
<1>8. ASSUME NEW c \in Clients, RestoreRecord(c) \/ RewriteRecord(c)
      PROVE ~degraded /\ Grows
  <2>1. client[c] # None /\ Record(client[c].key, client[c].node)
    BY <1>8 DEF RestoreRecord, RewriteRecord, Holds
  <2>2. client[c].node \in Node /\ client[c].key \in Stored(store)
    BY <1>0, <2>1, HeldFacts, InvParts DEF Held, HInv, Known
  <2>3. UNCHANGED <<degraded, folded>>
    BY <1>8 DEF RestoreRecord, RewriteRecord
  <2> QED
    BY <2>1, <2>2, <2>3, WriteGrows
<1>9. ASSUME NEW k \in Keys, RecordAfresh(k) PROVE ~degraded /\ Grows
  <2>1. PICK stamp \in 0..now : Record(k, Fresh(stamp))
    BY <1>9 DEF RecordAfresh
  <2>2. Fresh(stamp) \in Node
    BY <1>0, FreshFacts, InvParts, LifecycleBounds DEF GoodRest
  <2>3. k \in Stored(store) /\ UNCHANGED <<degraded, folded>>
    BY <1>9 DEF HInv, Known, RecordAfresh
  <2> QED
    BY <2>1, <2>2, <2>3, WriteGrows
<1>10. ASSUME NEW c \in Clients, NEW k \in AllKeys,
              (\E force \in BOOLEAN : RestoreRecall(c, k, force)) \/ RewriteRecall(c, k)
       PROVE ~degraded /\ Grows
  BY <1>1, <1>10 DEF RestoreRecall, RewriteRecall
<1>11. ASSUME NEW c \in Clients, RestoreUnlink(c) \/ GiveUp(c) PROVE ~degraded /\ Grows
  BY <1>1, <1>11 DEF RestoreUnlink, GiveUp
<1>12. CASE SweepStep
  BY <1>3, <1>4, <1>12 DEF SweepStep
<1>13. CASE MergeStep
  BY <1>5, <1>6, <1>7, <1>13 DEF MergeStep
<1>14. CASE ClientStep
  BY <1>8, <1>9, <1>10, <1>11, <1>14 DEF ClientStep
<1> QED
  BY <1>2, <1>12, <1>13, <1>14 DEF Next

\* The only links that appear lead from an original to the umbrella it is archived
\* under, which has been recorded and was fused from it.
LEMMA NewLinks == ASSUME HInv, [Next]_vars, ~degraded, NEW l \in links', l \notin links
                  PROVE  l[2] \in Stored(store) /\ l[1] \in folded[l[2]]
<1>1. \A k \in AllKeys, ok \in BOOLEAN : ArchiveOriginal(k, ok) =>
        l[2] \in Stored(store) /\ l[1] \in folded[l[2]]
  BY DEF ArchiveOriginal, HInv, BackedMerge
<1>2. \/ \E k \in AllKeys, ok \in BOOLEAN : ArchiveOriginal(k, ok)
      \/ links' \subseteq links
  BY DEF Next, vars, Tick, Abort, SweepStep, SweepStart, SweepEnd, SweepNode, MergeStep,
         MergeNothing, MergeStart, ExistingKeys, Fold, UmbrellaDone, MergeEnd, ClientStep,
         RestoreRecall, RestoreRecord, RestoreUnlink, RewriteRecall, RewriteRecord, GiveUp,
         RecordAfresh
<1> QED
  BY <1>1, <1>2

\* Every step keeps the links whole.
LEMMA LinksStep == HInv /\ LinksHold /\ [Next]_vars => LinksHold'
<1> SUFFICES ASSUME HInv, LinksHold, [Next]_vars, ~degraded', NEW l \in links'
             PROVE  store'[l[2]] # Absent /\ l[1] \in folded'[l[2]]
  BY DEF LinksHold
<1>1. ~degraded /\ Grows
  BY StepGrows
<1>2. Inv'
  BY StepHolds DEF HInv
<1>3. l[2] \in AllKeys
  BY <1>2, NextParts DEF GoodRest
<1>4. l[2] \in Stored(store) /\ l[1] \in folded[l[2]]
  BY <1>1, <1>3, NewLinks DEF LinksHold, Stored
<1> QED
  BY <1>1, <1>4 DEF Grows, Stored

-----------------------------------------------------------------------------

\* Wherever a pass stops, the umbrella a node was merged into exists and was fused
\* from that node (merge.go:162-176), unless some collision set was degraded
\* (merge.go:102-114): for all nodes, Mergers and clients.
THEOREM KnowledgeKept == Spec => []UmbrellaHoldsOriginals
<1>1. HInv => UmbrellaHoldsOriginals
  BY DEF HInv, BackedCopies, Backed, UmbrellaHoldsOriginals, Stored
<1> QED
  BY <1>1, InitHolds, StepHolds, PTL DEF Spec

\* Merging builds a forest (merge.go:210-242), with the same exception: no node is
\* merged into itself, directly or through other umbrellas, whatever the Merger
\* proposes and whatever old marks are written back.
THEOREM ForestKept == Spec => []MergeForest
<1>1. HInv => MergeForest
  <2> SUFFICES ASSUME HInv, ~degraded, NEW cycle \in SUBSET AllKeys, cycle # {}
               PROVE  \E k \in cycle : store[k].mergedInto \notin cycle
    BY DEF MergeForest
  <2>1. PICK k \in cycle : \A u \in cycle : k \notin folded[u]
    BY DEF HInv, FoldedForest
  <2>2. None \notin cycle
    BY KeyAssumption
  <2> QED
    BY <2>1, <2>2 DEF HInv, BackedCopies, Backed
<1> QED
  BY <1>1, InitHolds, StepHolds, PTL DEF Spec

\* No merged-into link dangles (merge.go:203-207, restore.go:74-83), with the same
\* exception: whatever Link or Unlink fails, a link leads to an umbrella that exists
\* and was fused from the node it leaves.
THEOREM LinksKept == Spec => []LinksHold
<1>1. Init => LinksHold
  BY DEF Init, LinksHold
<1> QED
  BY <1>1, InitHolds, StepHolds, LinksStep, PTL DEF Spec
=============================================================================
