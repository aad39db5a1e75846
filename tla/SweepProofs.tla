---------------------------- MODULE SweepProofs ----------------------------
(* Sweep is complete and best-effort: the proof of SweepIsComplete, for every  *)
(* set of nodes and clients and every pair of windows.                        *)
EXTENDS LifecycleProofs

\* node is one Sweep has nothing more to do to, at the time it read.
Done(node) == SweepSkips(node) \/ node.state = NextState(node.lastSeen, sweepNow)

\* During a sweep an untouched node is as the Search returned it until its turn, and
\* done from then on; outside of one nothing is untouched.
SweptSoFar ==
  /\ pc = "sweep" => \A k \in untouched : IF k \in todo THEN store[k] = snap[k]
                                                       ELSE Done(store[k])
  /\ pc = "merge" => \A k \in untouched : Done(store[k])
  /\ pc \notin {"sweep", "merge"} => untouched = {}

SInv == Inv /\ SweptSoFar

-----------------------------------------------------------------------------

\* A sweep that starts has all its nodes before it.
LEMMA StartSweeps == ASSUME SInv, SweepStart PROVE SweptSoFar'
BY DEF SInv, SweptSoFar, SweepStart

\* Its end leaves every node done.
LEMMA EndSweeps == ASSUME SInv, SweepEnd PROVE SweptSoFar'
BY DEF SInv, SweptSoFar, SweepEnd, Done, SweepSkips

\* The node whose turn it is becomes done, or is no longer counted when its write
\* failed; the others are left alone.
LEMMA NodeSweeps == ASSUME SInv, NEW k \in AllKeys, SweepNode(k) PROVE SweptSoFar'
<1>1. GoodNodes(store) /\ GoodNodes(snap)
  BY InvParts DEF SInv
<1>2. /\ pc = "sweep" /\ pc' = "sweep" /\ sweepNow' = sweepNow /\ snap' = snap
      /\ k \in todo /\ todo' = todo \ {k} /\ untouched' \subseteq untouched
  BY DEF SweepNode, SweepRest
<1>3. untouched \subseteq AllKeys
  BY DEF SInv, Inv, TypeOK
<1>4. \A j \in AllKeys \ {k} : store'[j] = store[j]
  BY <1>1 DEF SweepNode, Record, GoodNodes
<1>5. k \in untouched' => Done(store[k])'
  <2> SUFFICES ASSUME k \in untouched' PROVE Done(store[k])'
    OBVIOUS
  <2>1. store[k] = snap[k]
    BY <1>2 DEF SInv, SweptSoFar
  <2>2. CASE ~SweepWrites(k)
    BY <1>2, <2>1, <2>2 DEF SweepNode, SweepWrites, Done, SweepSkips
  <2>3. CASE SweepWrites(k)
    <3> DEFINE node == [snap[k] EXCEPT !.state = NextState(snap[k].lastSeen, sweepNow)]
    <3>1. store' = [store EXCEPT ![k] = node]
      BY <2>3 DEF SweepNode, Record
    <3>2. snap[k] \in Node
      BY <1>1, <2>3, AbsentFacts DEF GoodNodes, SweepWrites
    <3>3. /\ node.state = NextState(snap[k].lastSeen, sweepNow)
          /\ node.lastSeen = snap[k].lastSeen
      BY <3>2 DEF Node
    <3> HIDE DEF node
    <3>4. store'[k] = node
      BY <1>1, <3>1 DEF GoodNodes
    <3> QED
      BY <1>2, <3>3, <3>4 DEF Done
  <2> QED
    BY <2>2, <2>3
<1>6. ASSUME NEW j \in untouched', j # k
      PROVE  IF j \in todo' THEN store'[j] = snap'[j] ELSE Done(store[j])'
  BY <1>2, <1>3, <1>4, <1>6 DEF SInv, SweptSoFar, Done, SweepSkips
<1> QED
  BY <1>2, <1>5, <1>6 DEF SweptSoFar

\* A client's write takes the node out of those counted.
LEMMA ClientsTouch == ASSUME SInv, ClientStep PROVE SweptSoFar'
<1>1. UNCHANGED passVars
  BY DEF ClientStep, RestoreRecall, RewriteRecall, RestoreRecord, RestoreUnlink,
         RewriteRecord, GiveUp, RecordAfresh
<1>2. \/ UNCHANGED <<store, untouched>>
      \/ \E k, node : Record(k, node) /\ (\E b : Touch(k, b))
  BY DEF ClientStep, RestoreRecall, RewriteRecall, RestoreRecord, RestoreUnlink,
         RewriteRecord, GiveUp, RecordAfresh
<1>3. CASE UNCHANGED <<store, untouched>>
  BY <1>1, <1>3 DEF SInv, SweptSoFar, Done, SweepSkips, passVars
<1>4. ASSUME NEW k, NEW node, Record(k, node), NEW b, Touch(k, b) PROVE SweptSoFar'
  <2>1. CASE pc \notin {"sweep", "merge"}
    BY <1>1, <1>4, <2>1 DEF SInv, SweptSoFar, Touch, passVars
  <2>2. CASE pc \in {"sweep", "merge"}
    <3>1. untouched' = untouched \ {k} /\ untouched \subseteq AllKeys
      BY <1>4, <2>2 DEF Touch, SInv, Inv, TypeOK
    <3>2. \A j \in untouched' : store'[j] = store[j]
      BY <1>4, <3>1, InvParts DEF Record, SInv, GoodNodes
    <3> QED
      BY <1>1, <2>2, <3>1, <3>2 DEF SInv, SweptSoFar, Done, SweepSkips, passVars
  <2> QED
    BY <2>1, <2>2
<1> QED
  BY <1>2, <1>3, <1>4

\* Every step keeps SInv.
LEMMA StepSweeps == ASSUME SInv, [Next]_vars PROVE SInv'
<1>1. SUFFICES SweptSoFar'
  BY StepInv DEF SInv
<1>2. CASE Tick \/ UNCHANGED vars
  BY <1>2 DEF Tick, vars, passVars, SInv, SweptSoFar, Done, SweepSkips
<1>3. CASE Abort
  BY <1>3 DEF Abort, PassOver, Forget, SweptSoFar
<1>4. CASE SweepStep
  BY <1>4, StartSweeps, EndSweeps, NodeSweeps DEF SweepStep
<1>5. CASE MergeStep
  BY <1>5 DEF MergeStep, MergeNothing, MergeStart, ExistingKeys, Fold, ArchiveOriginal,
              UmbrellaDone, MergeEnd, PassOver, Forget, SInv, SweptSoFar
<1>6. CASE ClientStep
  BY <1>6, ClientsTouch
<1> QED
  BY <1>2, <1>3, <1>4, <1>5, <1>6 DEF Next

-----------------------------------------------------------------------------

\* When a sweep ends, every stamped and unmerged node it could write, and nobody else
\* wrote meanwhile, has the state its age at the start of the sweep calls for,
\* whichever other writes failed (sweep.go:11-13).
THEOREM SweepCompletes == Spec => []SweepIsComplete
<1>1. Init => SInv
  BY InitInv DEF Init, SInv, SweptSoFar
<1>2. SInv => SweepIsComplete
  BY DEF SInv, SweptSoFar, SweepIsComplete, Done
<1> QED
  BY <1>1, <1>2, StepSweeps, PTL DEF Spec
=============================================================================
