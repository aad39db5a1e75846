-------------------------- MODULE LifecycleProofs --------------------------
(* Proofs about module Lifecycle, for every set of keys and clients, every     *)
(* staleness window and every merge setting.                                 *)
EXTENDS Lifecycle, TLAPS

USE DEF AllKeys

-----------------------------------------------------------------------------
(* Facts about nodes. *)

\* What the age of a node calls for is a state.
LEMMA NextStateIsState == ASSUME NEW lastSeen, NEW t
                          PROVE NextState(lastSeen, t) \in States
BY DEF NextState, States

\* An absent node is no node, and carries no mark.
LEMMA AbsentFacts == Absent \notin Node /\ WellMarked(Absent) /\ SweepSkips(Absent)
BY DEF Absent, Node, States, WellMarked, SweepSkips

\* A node recorded afresh is a node without a mark.
LEMMA FreshFacts == ASSUME NEW stamp \in 0..MaxClock
                    PROVE Fresh(stamp) \in Node /\ WellMarked(Fresh(stamp))
BY DEF Fresh, Node, States, WellMarked

\* What Sweep writes is a node with its mark, or rather without one: marked nodes
\* are skipped.
LEMMA SweptFacts == ASSUME NEW node \in Node \cup {Absent}, NEW state \in States,
                           ~SweepSkips(node)
                    PROVE  LET swept == [node EXCEPT !.state = state]
                           IN swept \in Node /\ WellMarked(swept)
<1>1. node \in Node /\ node.mergedInto = None
  BY AbsentFacts DEF SweepSkips
<1> QED
  BY <1>1 DEF Node, WellMarked

\* What Restore writes is an unmarked node.
LEMMA RestoredFacts == ASSUME NEW node \in Node, now \in 0..MaxClock
                       PROVE RestoredNode(node) \in Node /\ WellMarked(RestoredNode(node))
BY DEF RestoredNode, Node, WellMarked, States

\* What SkillUsed and ApproveSkill write has the mark they read.
LEMMA RewrittenFacts == ASSUME NEW node \in Node, WellMarked(node),
                               NEW stamp \in 0..MaxClock
                        PROVE  LET rewritten == [node EXCEPT !.lastSeen = stamp]
                               IN rewritten \in Node /\ WellMarked(rewritten)
BY DEF Node, WellMarked

-----------------------------------------------------------------------------

\* The memory and every copy start unmarked.
LEMMA InitInv == Init => Inv
<1> SUFFICES ASSUME Init PROVE Inv
  OBVIOUS
<1>1. TypeOK
  <2>1. 1 \in 1..MaxClock /\ 1 \in 0..MaxClock /\ 0 \in 0..MaxClock
    BY LifecycleBounds
  <2>2. NoNodes \in [AllKeys -> Node \cup {Absent}]
    BY DEF NoNodes
  <2>3. store \in [AllKeys -> Node \cup {Absent}]
    BY <2>1, FreshFacts DEF Init
  <2>4. 0 \in 0..MaxOps /\ 0 \in 0..MaxSearches
    BY LifecycleBounds
  <2> QED
    BY <2>1, <2>2, <2>3, <2>4 DEF Init, TypeOK
<1>2. GroupWasRead
  BY DEF Init, GroupWasRead
<1>3. MergedIsArchived
  BY DEF Init, MergedIsArchived, WellMarked, Fresh, Absent
<1>4. \A k \in AllKeys : WellMarked(snap[k])
  BY AbsentFacts DEF Init, NoNodes
<1>5. \A c \in Clients : client[c] # None => WellMarked(client[c].node)
  BY DEF Init
<1> QED
  BY <1>1, <1>2, <1>3, <1>4, <1>5 DEF Inv

-----------------------------------------------------------------------------
(* The invariant as parts that are handed from action to action. *)

\* A memory, or a copy of it, whose nodes are well typed and well marked.
GoodNodes(nodes) == /\ nodes \in [AllKeys -> Node \cup {Absent}]
                    /\ \A k \in AllKeys : WellMarked(nodes[k])

GoodClients(held) ==
  /\ held \in [Clients -> Held \cup {None}]
  /\ \A c \in Clients : held[c] # None => WellMarked(held[c].node)

GoodPass == /\ sweepNow \in 0..MaxClock
            /\ pc \in {"idle", "sweep", "merge", "keys", "fold", "archive"}
            /\ group \subseteq AllKeys /\ existing \subseteq AllKeys
            /\ todo \subseteq AllKeys
            /\ umbrella \in AllKeys \cup {None}
            /\ GroupWasRead

GoodRest == /\ now \in 1..MaxClock
            /\ links \subseteq AllKeys \X AllKeys
            /\ folded \in [AllKeys -> SUBSET AllKeys]
            /\ degraded \in BOOLEAN
            /\ untouched \subseteq AllKeys /\ restored \subseteq AllKeys
            /\ ops \in 0..MaxOps /\ searches \in 0..MaxSearches

\* Inv is the conjunction of its parts.
LEMMA InvParts == Inv <=> /\ GoodNodes(store) /\ GoodNodes(snap)
                          /\ GoodClients(client) /\ GoodPass /\ GoodRest
BY DEF Inv, TypeOK, MergedIsArchived, GoodNodes, GoodClients, GoodPass, GoodRest

\* The same after a step.
LEMMA NextParts == Inv' <=> /\ GoodNodes(store') /\ GoodNodes(snap')
                            /\ GoodClients(client') /\ GoodPass' /\ GoodRest'
BY DEF Inv, TypeOK, MergedIsArchived, GoodNodes, GoodClients, GoodPass, GoodRest

\* Recording a well marked node keeps the memory good.
LEMMA RecordGood == ASSUME GoodNodes(store), NEW k \in AllKeys, NEW node \in Node,
                           WellMarked(node), Record(k, node)
                    PROVE  GoodNodes(store')
BY DEF GoodNodes, Record

\* A client that will write a well marked node is a good client.
LEMMA HoldGood == ASSUME GoodClients(client), NEW c \in Clients, NEW k \in AllKeys,
                         NEW op \in ClientOps, NEW node \in Node, WellMarked(node),
                         NEW detached \in AllKeys \cup {None},
                         CanStart(c, k), Hold(c, op, k, node, detached),
                         ops \in 0..MaxOps
                  PROVE  GoodClients(client') /\ ops' \in 0..MaxOps
<1> DEFINE held == [op |-> op, key |-> k, node |-> node, detached |-> detached]
<1>1. held \in Held /\ held.node = node
  BY DEF Held
<1>2. client' = [client EXCEPT ![c] = held]
  BY DEF Hold
<1>3. ops' \in 0..MaxOps
  BY LifecycleBounds DEF CanStart, Hold
<1> HIDE DEF held
<1> QED
  BY <1>1, <1>2, <1>3 DEF GoodClients

\* What a client may start from is a well marked node.
LEMMA StartFacts == ASSUME GoodNodes(store), NEW c \in Clients, NEW k \in AllKeys,
                           CanStart(c, k)
                    PROVE  store[k] \in Node /\ WellMarked(store[k])
BY DEF GoodNodes, CanStart

\* Letting an operation go keeps the clients good.
LEMMA ReleaseGood == ASSUME GoodClients(client), NEW c \in Clients, Release(c)
                     PROVE  GoodClients(client')
BY DEF GoodClients, Release

\* What a client holds is a well marked node under one of the keys.
LEMMA HeldFacts == ASSUME GoodClients(client), NEW c \in Clients, client[c] # None
                   PROVE  /\ client[c] \in Held
                          /\ WellMarked(client[c].node)
BY DEF GoodClients

\* Ending a pass leaves a good, empty one.
LEMMA OverGood == ASSUME PassOver
                  PROVE  GoodPass' /\ GoodNodes(snap')
BY AbsentFacts, LifecycleBounds
   DEF PassOver, GoodPass, GoodNodes, GroupWasRead, NoNodes

-----------------------------------------------------------------------------
(* Each step keeps every part. *)

\* The steps of Sweep.
LEMMA SweepInv == ASSUME Inv, SweepStep PROVE Inv'
<1> USE InvParts, NextParts
<1>1. ASSUME SweepStart PROVE Inv'
  BY <1>1, LifecycleBounds
     DEF SweepStart, Search, GoodPass, GoodRest, GoodNodes, GoodClients, GroupWasRead,
         Stored
<1>2. ASSUME SweepEnd PROVE Inv'
  BY <1>2, AbsentFacts
     DEF SweepEnd, GoodPass, GoodRest, GoodNodes, GoodClients, GroupWasRead, NoNodes
<1>3. ASSUME NEW k \in AllKeys, SweepNode(k) PROVE Inv'
  <2>1. GoodNodes(store')
    <3>1. CASE UNCHANGED store
      BY <3>1 DEF GoodNodes
    <3>2. CASE store' # store
      <4> DEFINE state == NextState(snap[k].lastSeen, sweepNow)
                 node == [snap[k] EXCEPT !.state = state]
      <4>1. ~SweepSkips(snap[k]) /\ Record(k, node)
        BY <1>3, <3>2 DEF SweepNode, SweepWrites
      <4>2. state \in States /\ snap[k] \in Node \cup {Absent}
        BY NextStateIsState DEF GoodNodes
      <4>3. node \in Node /\ WellMarked(node)
        BY <4>1, <4>2, SweptFacts
      <4> QED
        BY <4>1, <4>3, RecordGood
    <3> QED
      BY <3>1, <3>2
  <2>2. GoodPass' /\ GoodRest'
    BY <1>3 DEF SweepNode, SweepRest, GoodPass, GoodRest, GroupWasRead
  <2> QED
    BY <1>3, <2>1, <2>2 DEF SweepNode
<1> QED
  BY <1>1, <1>2, <1>3 DEF SweepStep

\* The steps of Merge.
LEMMA MergeInv == ASSUME Inv, MergeStep PROVE Inv'
<1> USE InvParts, NextParts
<1>1. ASSUME MergeNothing PROVE Inv'
  BY <1>1, OverGood DEF MergeNothing, Forget, GoodRest
<1>2. ASSUME MergeEnd PROVE Inv'
  BY <1>2, OverGood DEF MergeEnd, GoodRest
<1>3. ASSUME UmbrellaDone PROVE Inv'
  BY <1>3 DEF UmbrellaDone, GoodPass, GoodRest, GoodNodes, GoodClients, GroupWasRead
<1>4. ASSUME MergeStart PROVE Inv'
  <2>1. group' \subseteq Stored(store)
    BY <1>4 DEF MergeStart, Eligible, Live
  <2>2. GoodPass'
    BY <1>4, <2>1, LifecycleBounds DEF MergeStart, GoodPass, GroupWasRead, Stored
  <2>3. GoodRest'
    BY <1>4, LifecycleBounds DEF MergeStart, GoodRest, Search, Forget
  <2> QED
    BY <1>4, <2>2, <2>3 DEF MergeStart
<1>7. ASSUME ExistingKeys PROVE Inv'
  <2>1. GoodPass'
    BY <1>7 DEF ExistingKeys, GoodPass, GroupWasRead, Stored, Live
  <2>2. GoodRest'
    BY <1>7 DEF ExistingKeys, GoodRest
  <2> QED
    BY <1>7, <2>1, <2>2 DEF ExistingKeys, GoodNodes, GoodClients
<1>5. ASSUME NEW u \in AllKeys, NEW merged \in SUBSET group, NEW ok \in BOOLEAN,
             Fold(u, merged, ok)
      PROVE Inv'
  <2>1. GoodNodes(store')
    <3>1. CASE ok
      <4>1. PICK stamp \in 0..now : Record(u, Fresh(stamp))
        BY <1>5, <3>1 DEF Fold
      <4>2. stamp \in 0..MaxClock
        BY LifecycleBounds DEF GoodRest
      <4> QED
        BY <4>1, <4>2, FreshFacts, RecordGood
    <3>2. CASE ~ok
      BY <1>5, <3>2 DEF Fold, GoodNodes
    <3> QED
      BY <3>1, <3>2
  <2>2. GoodPass'
    BY <1>5, KeyAssumption DEF Fold, GoodPass, GroupWasRead
  <2>3. GoodRest'
    BY <1>5 DEF Fold, GoodRest, GoodPass
  <2> QED
    BY <1>5, <2>1, <2>2, <2>3 DEF Fold
<1>6. ASSUME NEW k \in AllKeys, NEW ok \in BOOLEAN, ArchiveOriginal(k, ok)
      PROVE Inv'
  <2> DEFINE node == [snap[k] EXCEPT !.state = "archived", !.mergedInto = umbrella]
  <2>1. snap[k] \in Node /\ umbrella \in AllKeys \cup {None}
    BY <1>6 DEF ArchiveOriginal, GoodPass, GroupWasRead, GoodNodes, Stored
  <2>2. node \in Node /\ WellMarked(node) /\ node # Absent
    BY <2>1, AbsentFacts DEF Node, WellMarked, States
  <2>3. snap' = [snap EXCEPT ![k] = node] /\ snap'[k] = node
    BY <1>6, <2>1 DEF ArchiveOriginal, GoodNodes
  <2> HIDE DEF node
  <2>4. GoodNodes(snap')
    BY <2>2, <2>3 DEF GoodNodes
  <2>5. GoodNodes(store')
    <3>1. CASE ok
      BY <1>6, <2>2, <2>3, <3>1, RecordGood DEF ArchiveOriginal
    <3>2. CASE ~ok
      BY <1>6, <3>2 DEF ArchiveOriginal, GoodNodes
    <3> QED
      BY <3>1, <3>2
  <2>6. GoodPass'
    BY <1>6, <2>2, <2>3 DEF ArchiveOriginal, GoodPass, GroupWasRead, Stored, GoodNodes
  <2>7. GoodRest'
    <3>1. umbrella \in AllKeys
      BY <1>6 DEF ArchiveOriginal, GoodPass, GroupWasRead
    <3> QED
      BY <1>6, <3>1 DEF ArchiveOriginal, GoodRest
  <2> QED
    BY <1>6, <2>4, <2>5, <2>6, <2>7 DEF ArchiveOriginal
<1> QED
  BY <1>1, <1>2, <1>3, <1>4, <1>5, <1>6, <1>7 DEF MergeStep

\* The steps of the clients.
LEMMA ClientInv == ASSUME Inv, ClientStep PROVE Inv'
<1> USE InvParts, NextParts
<1>1. now \in 0..MaxClock
  BY LifecycleBounds DEF GoodRest
<1>2. ASSUME NEW c \in Clients, NEW k \in AllKeys, NEW force \in BOOLEAN,
             RestoreRecall(c, k, force)
      PROVE Inv'
  <2> DEFINE op == IF force THEN "force" ELSE "restore"
  <2>1. CanStart(c, k) /\ Hold(c, op, k, RestoredNode(store[k]), store[k].mergedInto)
    BY <1>2 DEF RestoreRecall
  <2>2. store[k] \in Node /\ op \in ClientOps
    BY <2>1, StartFacts DEF ClientOps
  <2>3. RestoredNode(store[k]) \in Node /\ WellMarked(RestoredNode(store[k]))
    BY <1>1, <2>2, RestoredFacts
  <2>4. store[k].mergedInto \in AllKeys \cup {None}
    BY <2>2 DEF Node
  <2>5. GoodClients(client') /\ ops' \in 0..MaxOps
    <3> HIDE DEF op
    <3> QED
      BY <2>1, <2>2, <2>3, <2>4, HoldGood DEF GoodRest
  <2> QED
    BY <1>2, <2>5
       DEF RestoreRecall, passVars, GoodNodes, GoodPass, GoodRest, GroupWasRead
<1>3. ASSUME NEW c \in Clients, NEW k \in AllKeys, RewriteRecall(c, k) PROVE Inv'
  <2>1. CanStart(c, k) /\ store[k] \in Node /\ WellMarked(store[k])
    BY <1>3, StartFacts DEF RewriteRecall
  <2>2. PICK stamp \in {store[k].lastSeen} \cup 1..now :
          Hold(c, "rewrite", k, [store[k] EXCEPT !.lastSeen = stamp], None)
    BY <1>3 DEF RewriteRecall
  <2>3. stamp \in 0..MaxClock
    BY <2>1, LifecycleBounds DEF Node, GoodRest
  <2>4. GoodClients(client') /\ ops' \in 0..MaxOps
    BY <2>1, <2>2, <2>3, RewrittenFacts, HoldGood DEF ClientOps, GoodRest
  <2> QED
    BY <1>3, <2>4
       DEF RewriteRecall, passVars, GoodNodes, GoodPass, GoodRest, GroupWasRead
<1>4. ASSUME NEW c \in Clients, RestoreRecord(c) PROVE Inv'
  <2>1. client[c] # None
    BY <1>4 DEF RestoreRecord, Holds
  <2>2. client[c] \in Held /\ WellMarked(client[c].node)
    BY <2>1, HeldFacts
  <2>3. GoodNodes(store')
    BY <1>4, <2>2, RecordGood DEF RestoreRecord, Held
  <2>4. GoodClients(client')
    <3>1. CASE Release(c)
      BY <3>1, ReleaseGood
    <3>2. CASE client' = [client EXCEPT ![c].op = "unlink"]
      BY <2>1, <2>2, <3>2 DEF GoodClients, ClientOps, Held
    <3> QED
      BY <1>4, <3>1, <3>2 DEF RestoreRecord
  <2>5. untouched' \subseteq AllKeys /\ restored' \subseteq AllKeys
    BY <1>4, <2>2 DEF RestoreRecord, Touch, GoodRest, Held
  <2> QED
    BY <1>4, <2>3, <2>4, <2>5
       DEF RestoreRecord, passVars, GoodNodes, GoodPass, GoodRest, GroupWasRead
<1>5. ASSUME NEW c \in Clients, RestoreUnlink(c) PROVE Inv'
  BY <1>5, ReleaseGood
     DEF RestoreUnlink, passVars, GoodNodes, GoodPass, GoodRest, GroupWasRead
<1>6. ASSUME NEW c \in Clients, RewriteRecord(c) PROVE Inv'
  <2>1. client[c] \in Held /\ WellMarked(client[c].node)
    BY <1>6, HeldFacts DEF RewriteRecord, Holds
  <2>2. GoodNodes(store')
    BY <1>6, <2>1, RecordGood DEF RewriteRecord, Held
  <2>3. untouched' \subseteq AllKeys /\ restored' \subseteq AllKeys
    BY <1>6, <2>1 DEF RewriteRecord, Touch, GoodRest, Held
  <2> QED
    BY <1>6, <2>2, <2>3, ReleaseGood
       DEF RewriteRecord, passVars, GoodNodes, GoodPass, GoodRest, GroupWasRead
<1>7. ASSUME NEW c \in Clients, GiveUp(c) PROVE Inv'
  BY <1>7, ReleaseGood DEF GiveUp, passVars, GoodNodes, GoodPass, GoodRest, GroupWasRead
<1>8. ASSUME NEW k \in Keys, RecordAfresh(k) PROVE Inv'
  <2>1. PICK stamp \in 0..now : Record(k, Fresh(stamp))
    BY <1>8 DEF RecordAfresh
  <2>2. stamp \in 0..MaxClock
    BY <1>1, LifecycleBounds
  <2>3. GoodNodes(store')
    BY <2>1, <2>2, FreshFacts, RecordGood
  <2>4. untouched' \subseteq AllKeys /\ restored' \subseteq AllKeys
    BY <1>8 DEF RecordAfresh, Touch, GoodRest
  <2>5. ops' \in 0..MaxOps
    BY <1>8, LifecycleBounds DEF RecordAfresh, GoodRest
  <2> QED
    BY <1>8, <2>3, <2>4, <2>5
       DEF RecordAfresh, passVars, GoodNodes, GoodClients, GoodPass, GoodRest, GroupWasRead
<1> QED
  BY <1>2, <1>3, <1>4, <1>5, <1>6, <1>7, <1>8 DEF ClientStep

\* Every step, and stuttering, keeps the invariant.
LEMMA StepInv == ASSUME Inv, [Next]_vars PROVE Inv'
<1> USE InvParts, NextParts
<1>1. CASE Tick
  BY <1>1, LifecycleBounds
     DEF Tick, passVars, GoodNodes, GoodClients, GoodPass, GoodRest, GroupWasRead
<1>2. CASE Abort
  BY <1>2, OverGood DEF Abort, Forget, GoodNodes, GoodClients, GoodRest
<1>3. CASE SweepStep
  BY <1>3, SweepInv
<1>4. CASE MergeStep
  BY <1>4, MergeInv
<1>5. CASE ClientStep
  BY <1>5, ClientInv
<1>6. CASE UNCHANGED vars
  BY <1>6 DEF vars, passVars, GoodNodes, GoodClients, GoodPass, GoodRest, GroupWasRead
<1> QED
  BY <1>1, <1>2, <1>3, <1>4, <1>5, <1>6 DEF Next

-----------------------------------------------------------------------------

\* Types, and the marks of every node and of every copy that may be written back.
THEOREM Invariance == Spec => []Inv
BY InitInv, StepInv, PTL DEF Spec

\* A merged original is archived in every state the memory can reach, whatever the
\* nodes, clients, windows and merge settings: writes of stale copies, failed writes
\* and aborted passes included (sweep.go:31-34, merge.go:193-208, restore.go:47-83).
THEOREM MergedStaysArchived == Spec => []MergedIsArchived
<1>1. Inv => MergedIsArchived
  BY DEF Inv
<1> QED
  BY <1>1, Invariance, PTL
=============================================================================
