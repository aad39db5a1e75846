-------------------------- MODULE PromotionProofs --------------------------
(* Proofs about module Promotion, for every set of agents, names and clients,   *)
(* every minimum age and every bound: the inductive invariant Inv, and with it   *)
(* all the properties of the module.                                           *)
EXTENDS Promotion, TLAPS

-----------------------------------------------------------------------------
(* Facts about nodes and passes. *)

PassState == [pc : {"idle", "next", "copy", "link", "mark"},
              snap : [Names -> Node \cup {Absent}],
              todo : SUBSET Names, name : Names \cup {None}]

StoreType == store \in [Keys -> Node \cup {Absent}]
PassType == pass \in [Agents -> PassState]
ClientType == client \in [Clients -> Held \cup {None}]
HistoryType == /\ links \subseteq PrivateKeys
               /\ approved \subseteq 1..MaxTexts /\ shared \subseteq 1..MaxTexts
               /\ revoked \subseteq PrivateKeys /\ excused \subseteq Agents
               /\ clean \in [Agents -> SUBSET Names]
CountType == now \in 1..MaxClock /\ texts \in 0..MaxTexts /\ calls \in 0..MaxCalls

\* TypeOK in parts, before and after a step.
LEMMA TypeParts ==
  /\ TypeOK <=> StoreType /\ PassType /\ ClientType /\ HistoryType /\ CountType
  /\ TypeOK' <=> StoreType' /\ PassType' /\ ClientType' /\ HistoryType' /\ CountType'
BY DEF TypeOK, StoreType, PassType, PassState, ClientType, HistoryType, CountType

\* An absent node is no node, has no approval and no mark, and is never promoted.
LEMMA AbsentFacts == /\ Absent \notin Node
                     /\ ~Absent.approved /\ ~Absent.promoted
                     /\ ApprovalFitsText(Absent) /\ ~Eligible(Absent)
BY DEF Absent, Node, ApprovalFitsText, Eligible

\* A node written for the first time is a node without approval or mark.
LEMMA NewFacts == ASSUME CountType, texts < MaxTexts, NEW kind \in {"skill", "fact"},
                         NEW captured \in 0..MaxClock, NEW seen \in 0..MaxClock
                  PROVE  LET node == NewNode(kind, captured, seen)
                         IN /\ node \in Node /\ ~node.approved /\ ~node.promoted
                            /\ node.from = None
BY PromotionBounds DEF CountType, NewNode, Node

\* The copy a promotion records, and the marked original it writes back, are nodes;
\* only the mark and the origin differ from what the pass has read.
LEMMA CopyFacts == ASSUME NEW node \in Node, NEW a \in Agents
                   PROVE  LET copy == [node EXCEPT !.promoted = FALSE, !.from = a]
                              marked == [node EXCEPT !.promoted = TRUE]
                          IN /\ copy \in Node /\ marked \in Node
                             /\ copy.from = a /\ ~copy.promoted /\ copy.text = node.text
                             /\ copy.kind = node.kind /\ copy.approved = node.approved
                             /\ marked.text = node.text /\ marked.kind = node.kind
                             /\ marked.approved = node.approved
                             /\ marked.from = node.from /\ marked.promoted
BY DEF Node

\* What a client writes after ApproveSkill or a revocation.
LEMMA ApprovalFacts == ASSUME NEW node \in Node, NEW approves \in BOOLEAN
                       PROVE  LET rewritten == [node EXCEPT !.approved = approves]
                              IN /\ rewritten \in Node /\ rewritten.approved = approves
                                 /\ rewritten.kind = node.kind
                                 /\ rewritten.text = node.text
                                 /\ rewritten.from = node.from
                                 /\ rewritten.promoted = node.promoted
BY DEF Node

\* What a client writes after SkillUsed, a Sweep or a Restore.
LEMMA TouchFacts == ASSUME NEW node \in Node, NEW seen \in 0..MaxClock,
                           NEW state \in {"active", "aside"}
                    PROVE  LET touched == [node EXCEPT !.seen = seen, !.state = state]
                           IN /\ touched \in Node /\ touched.approved = node.approved
                              /\ touched.kind = node.kind
                              /\ touched.text = node.text
                              /\ touched.from = node.from
                              /\ touched.promoted = node.promoted
BY DEF Node

\* Going on to the next node forgets the copy of this one.
LEMMA ProceedFacts ==
  ASSUME PassType, NEW a \in Agents, pass' = Proceed(a)
  PROVE  /\ PassType'
         /\ pass'[a].pc = "next" /\ pass'[a].name = None
         /\ pass'[a].todo = pass[a].todo
         /\ \A n \in Names : pass'[a].snap[n] = IF n = pass[a].name THEN Absent
                                                                    ELSE pass[a].snap[n]
         /\ \A b \in Agents \ {a} : pass'[b] = pass[b]
BY DEF PassType, PassState, Proceed

\* The check of the shared key leads to the copy of the node, or past it.
LEMMA CheckFacts ==
  ASSUME PassType, NEW a \in Agents, NEW n \in Names, CheckShared(a, n)
  PROVE  /\ PassType'
         /\ pass'[a].todo = pass[a].todo \ {n}
         /\ \/ pass'[a].pc = "copy" /\ pass'[a].name = n /\ pass'[a].snap = pass[a].snap
            \/ /\ pass'[a].pc = "next" /\ pass'[a].name = pass[a].name
               /\ pass'[a].snap = [pass[a].snap EXCEPT ![n] = Absent]
               /\ Taken(store[<<Project, n>>])
         /\ \A b \in Agents \ {a} : pass'[b] = pass[b]
<1> DEFINE after == [pass[a] EXCEPT !.todo = @ \ {n}]
           chosen == [after EXCEPT !.pc = "copy", !.name = n]
           passed == [after EXCEPT !.snap[n] = Absent]
<1>1. pass[a] \in PassState /\ pass[a].pc = "next"
  BY DEF PassType, CheckShared, Running
<1>2. /\ chosen \in PassState /\ chosen.pc = "copy" /\ chosen.name = n
      /\ chosen.todo = pass[a].todo \ {n} /\ chosen.snap = pass[a].snap
  BY <1>1 DEF PassState
<1>3. /\ passed \in PassState /\ passed.pc = "next" /\ passed.name = pass[a].name
      /\ passed.todo = pass[a].todo \ {n}
      /\ passed.snap = [pass[a].snap EXCEPT ![n] = Absent]
  BY <1>1 DEF PassState
<1>4. \/ pass' = [pass EXCEPT ![a] = chosen]
      \/ pass' = [pass EXCEPT ![a] = passed] /\ Taken(store[<<Project, n>>])
  BY DEF CheckShared
<1> HIDE DEF after, chosen, passed
<1> QED
  BY <1>2, <1>3, <1>4 DEF PassType

-----------------------------------------------------------------------------
(* Types. *)

\* What a pass that shares a node has read is a node.
LEMMA SharingFacts ==
  ASSUME PassType, PassInOrder, NEW a \in Agents, pass[a].pc \in {"copy", "link", "mark"}
  PROVE  LET n == pass[a].name
         IN n \in Names /\ pass[a].snap[n] \in Node /\ Eligible(pass[a].snap[n])
<1>1. pass[a] \in PassState /\ pass[a].name # None /\ Eligible(pass[a].snap[pass[a].name])
  BY DEF PassType, PassInOrder
<1>2. pass[a].name \in Names /\ pass[a].snap[pass[a].name] \in Node \cup {Absent}
  BY <1>1 DEF PassState
<1> QED
  BY <1>1, <1>2, AbsentFacts

\* Every step keeps the types (a pass that shares a node holds it: PassInOrder).
LEMMA TypeStep == TypeOK /\ PassInOrder /\ [Next]_vars => TypeOK'
<1> SUFFICES ASSUME TypeOK, PassInOrder, [Next]_vars PROVE TypeOK'
  OBVIOUS
<1>a. StoreType /\ PassType /\ ClientType /\ HistoryType /\ CountType
  BY TypeParts
<1>b. SUFFICES StoreType' /\ PassType' /\ ClientType' /\ HistoryType' /\ CountType'
  BY TypeParts
<1>0. 0 \in 0..MaxClock /\ 1 \in 0..MaxClock /\ now \in 0..MaxClock
  BY <1>a, PromotionBounds DEF CountType
<1> USE DEF historyVars
<1>1. CASE Tick
  <2>1. CountType'
    BY <1>1, <1>a, PromotionBounds DEF Tick, CountType
  <2> QED
    BY <1>1, <1>a, <2>1 DEF Tick, StoreType, PassType, ClientType, HistoryType
<1>2. ASSUME NEW a \in Agents, PromoteStart(a)
      PROVE StoreType' /\ PassType' /\ ClientType' /\ HistoryType' /\ CountType'
  <2> DEFINE due == {n \in Names : Eligible(store[<<a, n>>])}
             snap == [n \in Names |-> IF n \in due THEN store[<<a, n>>] ELSE Absent]
  <2>1. pass' = [pass EXCEPT ![a] = [pc |-> "next", todo |-> due, name |-> None,
                                     snap |-> snap]]
    BY <1>2 DEF PromoteStart
  <2>2. snap \in [Names -> Node \cup {Absent}] /\ due \in SUBSET Names
    BY <1>a DEF StoreType, Keys
  <2> HIDE DEF snap, due
  <2>3. PassType'
    BY <1>a, <2>1, <2>2 DEF PassType, PassState
  <2> QED
    BY <1>2, <1>a, <2>3
       DEF PromoteStart, StoreType, ClientType, HistoryType, CountType
<1>3. ASSUME NEW a \in Agents, NEW n \in Names, CheckShared(a, n)
      PROVE StoreType' /\ PassType' /\ ClientType' /\ HistoryType' /\ CountType'
  <2>1. PassType'
    BY <1>3, <1>a, CheckFacts
  <2>2. HistoryType'
    BY <1>3, <1>a DEF CheckShared, HistoryType
  <2> QED
    BY <1>3, <1>a, <2>1, <2>2 DEF CheckShared, StoreType, ClientType, CountType
<1>4. ASSUME NEW a \in Agents, CopyShared(a)
      PROVE StoreType' /\ PassType' /\ ClientType' /\ HistoryType' /\ CountType'
  <2> DEFINE n == pass[a].name
  <2>1. n \in Names /\ pass[a].snap[n] \in Node
    BY <1>4, <1>a, SharingFacts DEF CopyShared, Running
  <2>2. Copy(a) \in Node /\ Copy(a).text \in 1..MaxTexts /\ <<Project, n>> \in Keys
    BY <2>1, CopyFacts DEF Copy, Node, Keys
  <2>3. PassType'
    <3>1. CASE pass' = Proceed(a)
      BY <3>1, <1>a, ProceedFacts
    <3> QED
      BY <1>4, <1>a, <3>1 DEF CopyShared, AfterError, PassType, PassState
  <2>4. StoreType' /\ HistoryType'
    BY <1>4, <1>a, <2>2 DEF CopyShared, StoreType, HistoryType
  <2> QED
    BY <1>4, <1>a, <2>3, <2>4 DEF CopyShared, ClientType, CountType
<1>5. ASSUME NEW a \in Agents, LinkPromoted(a)
      PROVE StoreType' /\ PassType' /\ ClientType' /\ HistoryType' /\ CountType'
  <2>1. pass[a].name \in Names
    BY <1>5, <1>a, SharingFacts DEF LinkPromoted, Running
  <2>2. PassType'
    <3>1. CASE pass' = Proceed(a)
      BY <3>1, <1>a, ProceedFacts
    <3> QED
      BY <1>5, <1>a, <3>1 DEF LinkPromoted, AfterError, PassType, PassState
  <2>3. HistoryType'
    BY <1>5, <1>a, <2>1 DEF LinkPromoted, HistoryType, PrivateKeys
  <2> QED
    BY <1>5, <1>a, <2>2, <2>3 DEF LinkPromoted, StoreType, ClientType, CountType
<1>6. ASSUME NEW a \in Agents, MarkOriginal(a)
      PROVE StoreType' /\ PassType' /\ ClientType' /\ HistoryType' /\ CountType'
  <2> DEFINE n == pass[a].name
  <2>1. n \in Names /\ pass[a].snap[n] \in Node
    BY <1>6, <1>a, SharingFacts DEF MarkOriginal, Running
  <2>2. [pass[a].snap[n] EXCEPT !.promoted = TRUE] \in Node /\ <<a, n>> \in Keys
    BY <2>1, CopyFacts DEF Keys
  <2>3. PassType'
    BY <1>6, <1>a, ProceedFacts DEF MarkOriginal, AfterError
  <2>4. StoreType' /\ HistoryType'
    BY <1>6, <1>a, <2>2 DEF MarkOriginal, StoreType, HistoryType
  <2> QED
    BY <1>6, <1>a, <2>3, <2>4 DEF MarkOriginal, ClientType, CountType
<1>7. ASSUME NEW a \in Agents, PromoteEnd(a) \/ Abort(a)
      PROVE StoreType' /\ PassType' /\ ClientType' /\ HistoryType' /\ CountType'
  <2>1. IdlePass \in PassState
    BY DEF IdlePass, NoSnap, PassState
  <2>2. PassOver(a)
    BY <1>7 DEF PromoteEnd, Abort
  <2>3. PassType' /\ HistoryType'
    BY <1>7, <1>a, <2>1, <2>2 DEF PassOver, PromoteEnd, Abort, PassType, HistoryType
  <2> QED
    BY <1>7, <1>a, <2>3 DEF PromoteEnd, Abort, StoreType, ClientType, CountType
\* A client that starts a call, and what it holds then.
<1>8. ASSUME NEW c \in Clients, NEW op \in {"skill", "approve", "revoke", "touch"},
             NEW k \in Keys, NEW node \in Node, CanCall(c), Hold(c, op, k, node)
      PROVE ClientType' /\ calls' \in 0..MaxCalls
  <2> DEFINE held == [op |-> op, key |-> k, node |-> node]
  <2>1. held \in Held
    BY DEF Held
  <2>2. client' = [client EXCEPT ![c] = held]
    BY <1>8 DEF Hold
  <2> HIDE DEF held
  <2>3. calls' \in 0..MaxCalls
    BY <1>8, <1>a, PromotionBounds DEF CanCall, Hold, CountType
  <2> QED
    BY <1>a, <2>1, <2>2, <2>3 DEF ClientType
<1>9. ASSUME NEW c \in Clients, NEW a \in Agents, NEW n \in Names, RecordSkill(c, a, n)
      PROVE StoreType' /\ PassType' /\ ClientType' /\ HistoryType' /\ CountType'
  <2> DEFINE old == store[<<a, n>>]
  <2>1. PICK captured \in {now} \cup ({old.captured} \ {0}) :
          Hold(c, "skill", <<a, n>>, Revision(old, captured))
    BY <1>9 DEF RecordSkill
  <2>2. <<a, n>> \in Keys /\ captured \in 0..MaxClock
    BY <1>0, <1>a, <2>1 DEF StoreType, Keys, Node, Absent
  <2>3. Revision(old, captured) \in Node
    BY <1>0, <1>9, <1>a, <2>2, NewFacts DEF RecordSkill, Revision
  <2>4. ClientType' /\ calls' \in 0..MaxCalls
    BY <1>8, <1>9, <2>1, <2>2, <2>3 DEF RecordSkill
  <2>5. CountType'
    BY <1>9, <1>a, <2>4, PromotionBounds DEF RecordSkill, CountType
  <2> QED
    BY <1>9, <1>a, <2>4, <2>5 DEF RecordSkill, StoreType, PassType, HistoryType
<1>10. ASSUME NEW c \in Clients, NEW k \in Keys, Approve(c, k) \/ Revoke(c, k) \/ Touch(c, k)
       PROVE StoreType' /\ PassType' /\ ClientType' /\ HistoryType' /\ CountType'
  <2>1. store[k] \in Node
    BY <1>10, <1>a DEF Approve, Revoke, Touch, StoreType, Absent
  <2>2. store[k].text \in 1..MaxTexts /\ store[k].seen \in 0..MaxClock
    BY <2>1 DEF Node
  <2>3. ClientType' /\ calls' \in 0..MaxCalls
    <3>1. CASE Approve(c, k) \/ Revoke(c, k)
      <4>1. PICK approves \in BOOLEAN, op \in {"approve", "revoke"} :
              Hold(c, op, k, [store[k] EXCEPT !.approved = approves]) /\ CanCall(c)
        BY <3>1 DEF Approve, Revoke
      <4>2. [store[k] EXCEPT !.approved = approves] \in Node
        BY <2>1, ApprovalFacts
      <4> QED
        BY <1>8, <4>1, <4>2
    <3>2. CASE Touch(c, k)
      <4>1. PICK seen \in {store[k].seen, now}, state \in {"active", "aside"} :
              Hold(c, "touch", k, [store[k] EXCEPT !.seen = seen, !.state = state])
        BY <3>2 DEF Touch
      <4>2. [store[k] EXCEPT !.seen = seen, !.state = state] \in Node
        BY <1>0, <2>1, <2>2, TouchFacts
      <4> QED
        BY <1>8, <3>2, <4>1, <4>2 DEF Touch
    <3> QED
      BY <1>10, <3>1, <3>2
  <2>4. HistoryType'
    BY <1>10, <1>a, <2>2 DEF Approve, Revoke, Touch, HistoryType
  <2>5. StoreType' /\ PassType' /\ CountType'
    BY <1>10, <1>a, <2>3 DEF Approve, Revoke, Touch, StoreType, PassType, CountType
  <2> QED
    BY <2>3, <2>4, <2>5
<1>11. ASSUME NEW c \in Clients, WriteBack(c)
       PROVE StoreType' /\ PassType' /\ ClientType' /\ HistoryType' /\ CountType'
  <2>1. client[c].key \in Keys /\ client[c].node \in Node
    BY <1>11, <1>a DEF WriteBack, ClientType, Held
  <2>2. StoreType'
    BY <1>11, <1>a, <2>1 DEF WriteBack, StoreType
  <2>3. HistoryType'
    BY <1>11, <1>a DEF WriteBack, Written, HistoryType
  <2> QED
    BY <1>11, <1>a, <2>2, <2>3 DEF WriteBack, PassType, ClientType, CountType
<1>12. ASSUME NEW c \in Clients, GiveUp(c)
       PROVE StoreType' /\ PassType' /\ ClientType' /\ HistoryType' /\ CountType'
  BY <1>12, <1>a DEF GiveUp, StoreType, PassType, ClientType, HistoryType, CountType
<1>13. ASSUME NEW a \in Agents, NEW n \in Names, FileCandidate(a, n)
       PROVE StoreType' /\ PassType' /\ ClientType' /\ HistoryType' /\ CountType'
  <2>1. PICK kind \in {"skill", "fact"}, captured \in {0, 1} :
          store' = [store EXCEPT ![<<a, n>>] = NewNode(kind, captured, now)]
    BY <1>13 DEF FileCandidate
  <2>2. NewNode(kind, captured, now) \in Node /\ <<a, n>> \in Keys
    BY <1>0, <1>13, <1>a, NewFacts DEF FileCandidate, Keys
  <2>3. StoreType'
    BY <1>a, <2>1, <2>2 DEF StoreType
  <2>4. CountType'
    BY <1>13, <1>a, PromotionBounds DEF FileCandidate, CountType
  <2> QED
    BY <1>13, <1>a, <2>3, <2>4 DEF FileCandidate, PassType, ClientType, HistoryType
<1>14. ASSUME NEW n \in Names, RecordCurated(n)
       PROVE StoreType' /\ PassType' /\ ClientType' /\ HistoryType' /\ CountType'
  <2>1. NewNode("fact", 0, 0) \in Node /\ <<Project, n>> \in Keys
    BY <1>0, <1>14, <1>a, NewFacts DEF RecordCurated, Keys
  <2>2. StoreType'
    BY <1>14, <1>a, <2>1 DEF RecordCurated, StoreType
  <2>3. HistoryType'
    BY <1>14, <1>a DEF RecordCurated, Written, HistoryType
  <2>4. CountType'
    BY <1>14, <1>a, PromotionBounds DEF RecordCurated, CountType
  <2> QED
    BY <1>14, <1>a, <2>2, <2>3, <2>4 DEF RecordCurated, PassType, ClientType
<1>15. CASE UNCHANGED vars
  BY <1>15, <1>a DEF vars, StoreType, PassType, ClientType, HistoryType, CountType
<1> QED
  BY <1>1, <1>2, <1>3, <1>4, <1>5, <1>6, <1>7, <1>9, <1>10, <1>11, <1>12, <1>13, <1>14,
     <1>15 DEF Next, PassStep, ClientStep, RecordStep

-----------------------------------------------------------------------------
(* Every copy that may be written back fits its key. *)

StoreFits == \A k \in Keys : Fits(k, store[k])
ClientsFit == \A c \in Clients : client[c] # None => Fits(client[c].key, client[c].node)
SnapsFit == \A a \in Agents, n \in Names : ApprovalFitsText(pass[a].snap[n])

\* Approvals, shared texts and links are never forgotten.
Grows == approved \subseteq approved' /\ shared \subseteq shared' /\ links \subseteq links'

\* Every step lets them grow.
LEMMA StepGrows == [Next]_vars => Grows
BY DEF Next, vars, historyVars, Grows, Tick, PassStep, PromoteStart, CheckShared, CopyShared,
       LinkPromoted, MarkOriginal, PromoteEnd, Abort, ClientStep, RecordSkill, Approve,
       Revoke, Touch, WriteBack, GiveUp, RecordStep, FileCandidate, RecordCurated

\* What it takes to fit after a step.
ApprovedNext(node) == node.kind = "skill" /\ (node.approved \/ node.from # None)
                        => node.text \in approved'
FitsNext(k, node) == /\ ApprovedNext(node)
                     /\ node.promoted => k \in links' /\ node.text \in shared'

\* Fits after a step, in terms of the histories it leaves.
LEMMA NextFits ==
  /\ StoreFits' <=> \A k \in Keys : FitsNext(k, store'[k])
  /\ ClientsFit' <=> \A c \in Clients :
                       client'[c] # None => FitsNext(client'[c].key, client'[c].node)
  /\ SnapsFit' <=> \A a \in Agents, n \in Names : ApprovedNext(pass'[a].snap[n])
BY DEF StoreFits, ClientsFit, SnapsFit, Fits, FitsNext, ApprovalFitsText, ApprovedNext,
       MarkFitsText

\* What fits keeps fitting.
LEMMA FitsStays == ASSUME Grows
                   PROVE  /\ \A k, node : Fits(k, node) => FitsNext(k, node)
                          /\ \A node : ApprovalFitsText(node) => ApprovedNext(node)
BY DEF Grows, Fits, FitsNext, ApprovalFitsText, ApprovedNext, MarkFitsText

\* A node without approval, mark and origin fits under every key.
LEMMA PlainFits == ASSUME NEW k, NEW node, ~node.approved, ~node.promoted, node.from = None
                   PROVE  FitsNext(k, node)
BY DEF FitsNext, ApprovedNext

\* A node fits under a key if one that fits there differs in nothing that matters.
LEMMA AlikeFits == ASSUME NEW k, NEW node, NEW alike, Fits(k, node),
                          alike.kind = node.kind, alike.text = node.text,
                          alike.from = node.from, alike.promoted = node.promoted,
                          alike.approved => node.approved
                   PROVE  Fits(k, alike)
BY DEF Fits, ApprovalFitsText, MarkFitsText

\* A memory into which at most one node is written, and that one fits, fits.
LEMMA WriteFits == ASSUME StoreType, StoreFits, Grows, NEW k, NEW node,
                          store' = [store EXCEPT ![k] = node], FitsNext(k, node)
                   PROVE  StoreFits'
<1>1. \A j \in Keys : store'[j] = store[j] \/ (j = k /\ store'[j] = node)
  BY DEF StoreType
<1> QED
  BY <1>1, FitsStays, NextFits DEF StoreFits

\* The same of the clients when one of them starts to hold a node that fits.
LEMMA HoldFits == ASSUME ClientType, ClientsFit, Grows, NEW c \in Clients, NEW op, NEW k,
                         NEW node, Hold(c, op, k, node), FitsNext(k, node)
                  PROVE  ClientsFit'
<1> DEFINE held == [op |-> op, key |-> k, node |-> node]
<1>1. held.key = k /\ held.node = node
  OBVIOUS
<1>2. client' = [client EXCEPT ![c] = held]
  BY DEF Hold
<1> HIDE DEF held
<1>3. \A d \in Clients : client'[d] = client[d] \/ client'[d] = held
  BY <1>2 DEF ClientType
<1> QED
  BY <1>1, <1>3, FitsStays, NextFits DEF ClientsFit

\* Where nothing is written, held or read, everything keeps fitting.
LEMMA IdleFits == ASSUME Grows
                  PROVE  /\ StoreFits /\ UNCHANGED store => StoreFits'
                         /\ ClientsFit /\ UNCHANGED client => ClientsFit'
                         /\ SnapsFit /\ UNCHANGED pass => SnapsFit'
BY FitsStays, NextFits DEF StoreFits, ClientsFit, SnapsFit

\* A pass whose copies are those it had, or none, fits.
LEMMA PassFits == ASSUME SnapsFit, Grows,
                         \A a \in Agents, n \in Names :
                           pass'[a].snap[n] \in {pass[a].snap[n], Absent}
                  PROVE  SnapsFit'
BY AbsentFacts, FitsStays, NextFits DEF SnapsFit

\* Every step keeps approvals and marks with the texts they were given to.
LEMMA FitStep == TypeOK /\ CopiesFit /\ PassInOrder /\ [Next]_vars => CopiesFit'
<1> SUFFICES ASSUME TypeOK, CopiesFit, PassInOrder, [Next]_vars
             PROVE  StoreFits' /\ ClientsFit' /\ SnapsFit'
  BY DEF CopiesFit, StoreFits, ClientsFit, SnapsFit
<1>0. /\ StoreType /\ PassType /\ ClientType /\ CountType /\ Grows
      /\ StoreFits /\ ClientsFit /\ SnapsFit
  BY TypeParts, StepGrows DEF CopiesFit, StoreFits, ClientsFit, SnapsFit
<1>a. now \in 0..MaxClock /\ 0 \in 0..MaxClock
  BY <1>0, PromotionBounds DEF CountType
<1> USE DEF historyVars
<1>1. CASE Tick \/ UNCHANGED vars
  BY <1>0, <1>1, IdleFits DEF Tick, vars
<1>2. ASSUME NEW a \in Agents, PromoteStart(a) PROVE StoreFits' /\ ClientsFit' /\ SnapsFit'
  <2>1. \A b \in Agents, n \in Names :
          pass'[b].snap[n] \in {pass[b].snap[n], store[<<b, n>>], Absent}
    BY <1>0, <1>2 DEF PromoteStart, PassType
  <2>2. \A b \in Agents, n \in Names : ApprovedNext(store[<<b, n>>])
    BY <1>0, FitsStays DEF StoreFits, Fits, Keys
  <2>3. SnapsFit'
    <3> SUFFICES ASSUME NEW b \in Agents, NEW n \in Names
                 PROVE  ApprovedNext(pass'[b].snap[n])
      BY NextFits
    <3> QED
      BY <1>0, <2>1, <2>2, FitsStays, AbsentFacts DEF SnapsFit
  <2> QED
    BY <1>0, <1>2, <2>3, IdleFits DEF PromoteStart
<1>3. ASSUME NEW a \in Agents, NEW n \in Names, CheckShared(a, n)
      PROVE StoreFits' /\ ClientsFit' /\ SnapsFit'
  <2>1. \A b \in Agents, m \in Names : pass'[b].snap[m] \in {pass[b].snap[m], Absent}
    <3>1. \A m \in Names : pass'[a].snap[m] \in {pass[a].snap[m], Absent}
      <4>1. \A m \in Names : [pass[a].snap EXCEPT ![n] = Absent][m]
                                \in {pass[a].snap[m], Absent}
        BY <1>0 DEF PassType, PassState
      <4> QED
        BY <1>0, <1>3, <4>1, CheckFacts
    <3>2. \A b \in Agents \ {a} : pass'[b] = pass[b]
      BY <1>0, <1>3, CheckFacts
    <3> QED
      BY <3>1, <3>2
  <2> QED
    BY <1>0, <1>3, <2>1, IdleFits, PassFits DEF CheckShared
\* A pass that goes on, or stays where it is but for its pc, keeps its copies.
<1>4. ASSUME NEW a \in Agents, NEW pc,
             pass' = Proceed(a) \/ pass' = [pass EXCEPT ![a].pc = pc]
      PROVE SnapsFit'
  <2>1. CASE pass' = Proceed(a)
    BY <1>0, <2>1, ProceedFacts, PassFits
  <2>2. CASE pass' = [pass EXCEPT ![a].pc = pc]
    BY <1>0, <2>2, PassFits DEF PassType, PassState
  <2> QED
    BY <1>4, <2>1, <2>2
<1>5. ASSUME NEW a \in Agents, CopyShared(a) PROVE StoreFits' /\ ClientsFit' /\ SnapsFit'
  <2> DEFINE n == pass[a].name
  <2>1. n \in Names /\ pass[a].snap[n] \in Node /\ Eligible(pass[a].snap[n])
    BY <1>0, <1>5, SharingFacts DEF CopyShared, Running
  <2>2. /\ ~Copy(a).promoted /\ Copy(a).text = pass[a].snap[n].text
        /\ Copy(a).kind = pass[a].snap[n].kind
    BY <2>1, CopyFacts DEF Copy
  <2>3. Copy(a).kind = "skill" => pass[a].snap[n].approved
    BY <2>1, <2>2 DEF Eligible, MayBeShared
  <2>4. Copy(a).kind = "skill" => Copy(a).text \in approved
    BY <1>0, <2>1, <2>2, <2>3 DEF SnapsFit, ApprovalFitsText
  <2> DEFINE copy == Copy(a)
  <2>5. FitsNext(<<Project, n>>, copy)
    BY <1>0, <2>2, <2>4 DEF Grows, FitsNext, ApprovedNext
  <2>6. UNCHANGED store \/ store' = [store EXCEPT ![<<Project, n>>] = copy]
    BY <1>5 DEF CopyShared
  <2> HIDE DEF copy
  <2>7. StoreFits'
    BY <1>0, <2>5, <2>6, IdleFits, WriteFits
  <2> QED
    BY <1>0, <1>4, <1>5, <2>7, IdleFits DEF CopyShared, AfterError
<1>6. ASSUME NEW a \in Agents, LinkPromoted(a) PROVE StoreFits' /\ ClientsFit' /\ SnapsFit'
  BY <1>0, <1>4, <1>6, IdleFits DEF LinkPromoted, AfterError
<1>7. ASSUME NEW a \in Agents, MarkOriginal(a) PROVE StoreFits' /\ ClientsFit' /\ SnapsFit'
  <2> DEFINE n == pass[a].name
             marked == [pass[a].snap[n] EXCEPT !.promoted = TRUE]
  <2>1. n \in Names /\ pass[a].snap[n] \in Node
    BY <1>0, <1>7, SharingFacts DEF MarkOriginal, Running
  <2>2. /\ marked.text = pass[a].snap[n].text /\ marked.kind = pass[a].snap[n].kind
        /\ marked.approved = pass[a].snap[n].approved
        /\ marked.from = pass[a].snap[n].from
    BY <2>1, CopyFacts
  <2>3. UNCHANGED store \/ store' = [store EXCEPT ![<<a, n>>] = marked]
    BY <1>7 DEF MarkOriginal
  <2> HIDE DEF marked
  <2>4. ApprovalFitsText(marked)
    BY <1>0, <2>1, <2>2 DEF SnapsFit, ApprovalFitsText
  <2>5. <<a, n>> \in links /\ marked.text \in shared
    BY <1>7, <2>2 DEF MarkOriginal, Running, PassInOrder
  <2>6. FitsNext(<<a, n>>, marked)
    BY <1>0, <2>4, <2>5, FitsStays DEF Grows, FitsNext
  <2>7. StoreFits'
    BY <1>0, <2>3, <2>6, IdleFits, WriteFits
  <2> QED
    BY <1>0, <1>4, <1>7, <2>7, IdleFits DEF MarkOriginal, AfterError
<1>8. ASSUME NEW a \in Agents, PromoteEnd(a) \/ Abort(a)
      PROVE StoreFits' /\ ClientsFit' /\ SnapsFit'
  <2>1. \A b \in Agents, n \in Names : pass'[b].snap[n] \in {pass[b].snap[n], Absent}
    BY <1>0, <1>8 DEF PromoteEnd, Abort, PassOver, IdlePass, NoSnap, PassType
  <2> QED
    BY <1>0, <1>8, <2>1, IdleFits, PassFits DEF PromoteEnd, Abort
<1>9. ASSUME NEW c \in Clients, NEW a \in Agents, NEW n \in Names, RecordSkill(c, a, n)
      PROVE StoreFits' /\ ClientsFit' /\ SnapsFit'
  <2> DEFINE old == store[<<a, n>>]
  <2>1. PICK captured \in {now} \cup ({old.captured} \ {0}) :
          Hold(c, "skill", <<a, n>>, Revision(old, captured))
    BY <1>9 DEF RecordSkill
  <2>2. captured \in 0..MaxClock
    BY <1>0, <1>a, <2>1 DEF StoreType, Keys, Node, Absent
  <2> DEFINE node == Revision(old, captured)
  <2>3. ~node.approved /\ ~node.promoted /\ node.from = None
    BY <1>0, <1>9, <1>a, <2>2, NewFacts DEF RecordSkill, Revision
  <2> HIDE DEF node
  <2>4. FitsNext(<<a, n>>, node)
    BY <2>3, PlainFits
  <2>5. ClientsFit'
    BY <1>0, <2>1, <2>4, HoldFits DEF node
  <2> QED
    BY <1>0, <1>9, <2>5, IdleFits DEF RecordSkill
<1>10. ASSUME NEW c \in Clients, NEW k \in Keys, Approve(c, k)
       PROVE StoreFits' /\ ClientsFit' /\ SnapsFit'
  <2> DEFINE node == [store[k] EXCEPT !.approved = TRUE]
  <2>1. store[k] \in Node
    BY <1>0, <1>10 DEF Approve, StoreType, Absent
  <2>2. /\ node.kind = store[k].kind /\ node.text = store[k].text
        /\ node.from = store[k].from /\ node.promoted = store[k].promoted
    BY <2>1, ApprovalFacts
  <2>3. Hold(c, "approve", k, node) /\ store[k].text \in approved'
    BY <1>10 DEF Approve
  <2> HIDE DEF node
  <2>4. FitsNext(k, store[k]) /\ UNCHANGED store
    BY <1>0, <1>10, FitsStays DEF StoreFits, Approve
  <2>5. FitsNext(k, node)
    BY <2>2, <2>3, <2>4 DEF FitsNext, ApprovedNext
  <2> QED
    BY <1>0, <1>10, <2>3, <2>5, IdleFits, HoldFits DEF Approve
<1>11. ASSUME NEW c \in Clients, NEW k \in Keys, Revoke(c, k) \/ Touch(c, k)
       PROVE StoreFits' /\ ClientsFit' /\ SnapsFit'
  <2>1. store[k] \in Node
    BY <1>0, <1>11 DEF Revoke, Touch, StoreType, Absent
  <2>2. PICK op \in {"revoke", "touch"}, node \in Node :
          /\ Hold(c, op, k, node)
          /\ node.kind = store[k].kind /\ node.text = store[k].text
          /\ node.from = store[k].from /\ node.promoted = store[k].promoted
          /\ node.approved => store[k].approved
    <3>1. CASE Revoke(c, k)
      BY <2>1, <3>1, ApprovalFacts DEF Revoke
    <3>2. CASE Touch(c, k)
      <4>1. PICK seen \in {store[k].seen, now}, state \in {"active", "aside"} :
              Hold(c, "touch", k, [store[k] EXCEPT !.seen = seen, !.state = state])
        BY <3>2 DEF Touch
      <4> DEFINE touched == [store[k] EXCEPT !.seen = seen, !.state = state]
      <4>2. seen \in 0..MaxClock
        BY <1>a, <2>1, <4>1 DEF Node
      <4>3. /\ touched \in Node /\ touched.approved = store[k].approved
            /\ touched.kind = store[k].kind /\ touched.text = store[k].text
            /\ touched.from = store[k].from /\ touched.promoted = store[k].promoted
        BY <2>1, <4>2 DEF Node
      <4> HIDE DEF touched
      <4> QED
        BY <4>1, <4>3 DEF touched
    <3> QED
      BY <1>11, <3>1, <3>2
  <2>3. FitsNext(k, node)
    BY <1>0, <2>2, AlikeFits, FitsStays DEF StoreFits
  <2> QED
    BY <1>0, <1>11, <2>2, <2>3, IdleFits, HoldFits DEF Revoke, Touch
<1>12. ASSUME NEW c \in Clients, WriteBack(c) PROVE StoreFits' /\ ClientsFit' /\ SnapsFit'
  <2>1. FitsNext(client[c].key, client[c].node)
    BY <1>0, <1>12, FitsStays DEF WriteBack, ClientsFit
  <2>2. store' = [store EXCEPT ![client[c].key] = client[c].node]
    BY <1>12 DEF WriteBack
  <2>3. StoreFits'
    BY <1>0, <2>1, <2>2, WriteFits
  <2>4. ClientsFit'
    BY <1>0, <1>12, FitsStays, NextFits DEF WriteBack, ClientsFit, ClientType
  <2> QED
    BY <1>0, <1>12, <2>3, <2>4, IdleFits DEF WriteBack
<1>13. ASSUME NEW c \in Clients, GiveUp(c) PROVE StoreFits' /\ ClientsFit' /\ SnapsFit'
  <2>1. ClientsFit'
    BY <1>0, <1>13, FitsStays, NextFits DEF GiveUp, ClientsFit, ClientType
  <2> QED
    BY <1>0, <1>13, <2>1, IdleFits DEF GiveUp
\* A node recorded afresh.
<1>14. ASSUME NEW k, NEW kind \in {"skill", "fact"}, NEW captured \in {0, 1},
              NEW seen \in 0..MaxClock, texts < MaxTexts,
              store' = [store EXCEPT ![k] = NewNode(kind, captured, seen)]
       PROVE StoreFits'
  <2> DEFINE node == NewNode(kind, captured, seen)
  <2>1. ~node.approved /\ ~node.promoted /\ node.from = None
    BY <1>0, <1>14, NewFacts, PromotionBounds
  <2>2. store' = [store EXCEPT ![k] = node]
    BY <1>14
  <2> HIDE DEF node
  <2> QED
    BY <1>0, <2>1, <2>2, PlainFits, WriteFits
<1>15. ASSUME NEW a \in Agents, NEW n \in Names, FileCandidate(a, n)
       PROVE StoreFits' /\ ClientsFit' /\ SnapsFit'
  BY <1>0, <1>a, <1>14, <1>15, IdleFits DEF FileCandidate
<1>16. ASSUME NEW n \in Names, RecordCurated(n) PROVE StoreFits' /\ ClientsFit' /\ SnapsFit'
  BY <1>0, <1>a, <1>14, <1>16, IdleFits DEF RecordCurated
<1> QED
  BY <1>1, <1>2, <1>3, <1>5, <1>6, <1>7, <1>8, <1>9, <1>10, <1>11, <1>12, <1>13, <1>15,
     <1>16 DEF Next, PassStep, ClientStep, RecordStep

-----------------------------------------------------------------------------
(* A pass works through its nodes in order. *)

\* PassInOrder of one pass, with what has been shared and linked so far.
InOrder(a, p, sharedTexts, linkedKeys) ==
  /\ \A n \in p.todo : n # p.name /\ Eligible(p.snap[n])
  /\ p.pc = "next" => p.name = None
  /\ p.pc \in {"copy", "link", "mark"} => p.name # None /\ Eligible(p.snap[p.name])
  /\ p.pc \in {"link", "mark"} => p.snap[p.name].text \in sharedTexts
  /\ p.pc = "mark" => <<a, p.name>> \in linkedKeys

\* PassInOrder before and after a step, one pass at a time.
LEMMA OrderParts ==
  /\ PassInOrder <=> \A a \in Agents : InOrder(a, pass[a], shared, links)
  /\ PassInOrder' <=> \A a \in Agents : InOrder(a, pass'[a], shared', links')
BY DEF PassInOrder, InOrder

\* More shared texts and links do no harm.
LEMMA OrderStays == ASSUME Grows, NEW a, NEW p, InOrder(a, p, shared, links)
                    PROVE  InOrder(a, p, shared', links')
BY DEF Grows, InOrder

\* A step of one pass leaves the order of the others alone.
LEMMA OthersInOrder == ASSUME PassInOrder, Grows, NEW a \in Agents,
                              \A b \in Agents \ {a} : pass'[b] = pass[b],
                              InOrder(a, pass'[a], shared', links')
                       PROVE  PassInOrder'
BY OrderParts, OrderStays

\* A pass that goes on to the next node is in order.
LEMMA ProceedInOrder == ASSUME PassType, PassInOrder, Grows, NEW a \in Agents,
                               pass' = Proceed(a)
                        PROVE  PassInOrder'
<1>1. \A n \in pass[a].todo : n \in Names /\ n # pass[a].name /\ Eligible(pass[a].snap[n])
  BY DEF PassType, PassState, PassInOrder
<1>2. \A n \in pass'[a].todo : n # pass'[a].name /\ Eligible(pass'[a].snap[n])
  BY <1>1, ProceedFacts, RootAssumption
<1>3. InOrder(a, pass'[a], shared', links')
  BY <1>2, ProceedFacts DEF InOrder
<1> QED
  BY <1>3, ProceedFacts, OthersInOrder

\* So is one that goes on to the next write of this node, once it has done this one.
LEMMA AdvanceInOrder ==
  ASSUME PassType, PassInOrder, Grows, NEW a \in Agents, NEW pc \in {"link", "mark"},
         pass[a].pc \in {"copy", "link", "mark"}, pass' = [pass EXCEPT ![a].pc = pc],
         pass[a].snap[pass[a].name].text \in shared',
         pc = "mark" => <<a, pass[a].name>> \in links'
  PROVE  PassInOrder'
<1>1. /\ pass'[a].pc = pc /\ pass'[a].name = pass[a].name
      /\ pass'[a].todo = pass[a].todo /\ pass'[a].snap = pass[a].snap
      /\ \A b \in Agents \ {a} : pass'[b] = pass[b]
  BY DEF PassType, PassState
<1>2. InOrder(a, pass'[a], shared', links')
  BY <1>1 DEF PassInOrder, InOrder
<1> QED
  BY <1>1, <1>2, OthersInOrder

\* Every step keeps the passes in order.
LEMMA OrderStep == TypeOK /\ PassInOrder /\ [Next]_vars => PassInOrder'
<1> SUFFICES ASSUME TypeOK, PassInOrder, [Next]_vars PROVE PassInOrder'
  OBVIOUS
<1>0. StoreType /\ PassType /\ Grows
  BY TypeParts, StepGrows
<1>1. ASSUME UNCHANGED pass PROVE PassInOrder'
  BY <1>0, <1>1, OrderParts, OrderStays
<1>2. ASSUME NEW a \in Agents, PromoteStart(a) PROVE PassInOrder'
  <2> DEFINE due == {n \in Names : Eligible(store[<<a, n>>])}
  <2>1. /\ pass'[a].pc = "next" /\ pass'[a].name = None /\ pass'[a].todo = due
        /\ \A n \in Names : pass'[a].snap[n] = IF n \in due THEN store[<<a, n>>] ELSE Absent
        /\ \A b \in Agents \ {a} : pass'[b] = pass[b]
    BY <1>0, <1>2 DEF PromoteStart, PassType
  <2>2. InOrder(a, pass'[a], shared', links')
    BY <2>1, RootAssumption DEF InOrder
  <2> QED
    BY <1>0, <2>1, <2>2, OthersInOrder
<1>3. ASSUME NEW a \in Agents, NEW n \in Names, CheckShared(a, n) PROVE PassInOrder'
  <2>1. n \in pass[a].todo /\ pass[a].pc = "next" /\ pass[a].name = None
    BY <1>3 DEF CheckShared, Running, PassInOrder
  <2>2. pass[a].snap \in [Names -> Node \cup {Absent}] /\ pass[a].todo \subseteq Names
    BY <1>0 DEF PassType, PassState
  <2>3. \A m \in pass[a].todo : Eligible(pass[a].snap[m])
    BY DEF PassInOrder
  <2>4. CASE pass'[a].pc = "copy" /\ pass'[a].name = n /\ pass'[a].snap = pass[a].snap
    <3>1. pass'[a].todo = pass[a].todo \ {n} /\ \A b \in Agents \ {a} : pass'[b] = pass[b]
      BY <1>0, <1>3, CheckFacts
    <3>2. InOrder(a, pass'[a], shared', links')
      BY <2>1, <2>2, <2>3, <2>4, <3>1, RootAssumption DEF InOrder
    <3> QED
      BY <1>0, <3>1, <3>2, OthersInOrder
  <2>5. CASE /\ pass'[a].pc = "next" /\ pass'[a].name = pass[a].name
             /\ pass'[a].snap = [pass[a].snap EXCEPT ![n] = Absent]
    <3>1. pass'[a].todo = pass[a].todo \ {n} /\ \A b \in Agents \ {a} : pass'[b] = pass[b]
      BY <1>0, <1>3, CheckFacts
    <3>2. InOrder(a, pass'[a], shared', links')
      BY <2>1, <2>2, <2>3, <2>5, <3>1, RootAssumption DEF InOrder
    <3> QED
      BY <1>0, <3>1, <3>2, OthersInOrder
  <2> QED
    BY <1>0, <1>3, <2>4, <2>5, CheckFacts
<1>4. ASSUME NEW a \in Agents, CopyShared(a) PROVE PassInOrder'
  <2>1. CASE pass' = Proceed(a)
    BY <1>0, <2>1, ProceedInOrder
  <2>2. CASE pass' = [pass EXCEPT ![a].pc = "link"] /\ shared' = shared \cup {Copy(a).text}
    <3>1. Copy(a).text = pass[a].snap[pass[a].name].text
      BY <1>0, <1>4, SharingFacts, CopyFacts DEF CopyShared, Running, Copy
    <3> QED
      BY <1>0, <1>4, <2>2, <3>1, AdvanceInOrder DEF CopyShared, Running
  <2> QED
    BY <1>4, <2>1, <2>2 DEF CopyShared, AfterError
<1>5. ASSUME NEW a \in Agents, LinkPromoted(a) PROVE PassInOrder'
  <2>1. CASE pass' = Proceed(a)
    BY <1>0, <2>1, ProceedInOrder
  <2>2. CASE /\ pass' = [pass EXCEPT ![a].pc = "mark"]
             /\ links' = links \cup {<<a, pass[a].name>>}
    <3>1. pass[a].pc = "link" /\ pass[a].snap[pass[a].name].text \in shared'
      BY <1>0, <1>5 DEF LinkPromoted, Running, PassInOrder, Grows
    <3> QED
      BY <1>0, <2>2, <3>1, AdvanceInOrder
  <2> QED
    BY <1>5, <2>1, <2>2 DEF LinkPromoted, AfterError
<1>6. ASSUME NEW a \in Agents, MarkOriginal(a) PROVE PassInOrder'
  BY <1>0, <1>6, ProceedInOrder DEF MarkOriginal, AfterError
<1>7. ASSUME NEW a \in Agents, PromoteEnd(a) \/ Abort(a) PROVE PassInOrder'
  <2>1. /\ pass'[a].pc = "idle" /\ pass'[a].todo = {}
        /\ \A b \in Agents \ {a} : pass'[b] = pass[b]
    BY <1>0, <1>7 DEF PromoteEnd, Abort, PassOver, IdlePass, PassType
  <2> QED
    BY <1>0, <2>1, OthersInOrder DEF InOrder
<1>8. ASSUME NEW c \in Clients, ClientStep(c) PROVE PassInOrder'
  BY <1>1, <1>8 DEF ClientStep, RecordSkill, Approve, Revoke, Touch, WriteBack, GiveUp
<1>9. CASE Tick \/ RecordStep \/ UNCHANGED vars
  BY <1>1, <1>9 DEF Tick, RecordStep, FileCandidate, RecordCurated, vars
<1> QED
  BY <1>2, <1>3, <1>4, <1>5, <1>6, <1>7, <1>8, <1>9 DEF Next, PassStep

-----------------------------------------------------------------------------
(* The shared key stays as the check found it. *)

\* Keys of agents are not keys of the project.
LEMMA KeyFacts == /\ PrivateKeys \subseteq Keys
                  /\ \A n \in Names : <<Project, n>> \in Keys \ PrivateKeys
                  /\ \A a \in Agents, n \in Names : <<a, n>> \in PrivateKeys
                  /\ \A k \in Keys : k = <<k[1], k[2]>> /\ k[2] \in Names
                                     /\ (k \in PrivateKeys <=> k[1] \in Agents)
                                     /\ (k \notin PrivateKeys <=> k[1] = Project)
BY RootAssumption DEF PrivateKeys, Keys

\* Whoever is not at its copy has nothing to lose, the others keep their name and, as
\* long as nobody writes an unrelated node there, their shared key.
LEMMA OthersChecked ==
  ASSUME CheckStillHolds,
         \A b \in Agents : pass'[b].pc = "copy" /\ b \notin excused' =>
           /\ pass[b].pc = "copy" /\ b \notin excused /\ pass'[b].name = pass[b].name
           /\ \/ store'[<<Project, pass[b].name>>] = store[<<Project, pass[b].name>>]
              \/ ~Unrelated(store'[<<Project, pass[b].name>>])
  PROVE  CheckStillHolds'
BY DEF CheckStillHolds, Running, Unrelated

\* Every step keeps what the checks of the shared keys have found.
LEMMA CheckStep == TypeOK /\ PassInOrder /\ CheckStillHolds /\ [Next]_vars
                     => CheckStillHolds'
<1> SUFFICES ASSUME TypeOK, PassInOrder, CheckStillHolds, [Next]_vars
             PROVE  CheckStillHolds'
  OBVIOUS
<1>0. StoreType /\ PassType /\ ClientType
  BY TypeParts
<1>n. \A b \in Agents : pass[b].pc = "copy" => pass[b].name \in Names
  BY <1>0, SharingFacts
<1>1. ASSUME UNCHANGED <<pass, excused>>,
             \A n \in Names : store'[<<Project, n>>] = store[<<Project, n>>]
      PROVE CheckStillHolds'
  BY <1>n, <1>1, OthersChecked
<1>2. ASSUME NEW a \in Agents, PromoteStart(a) PROVE CheckStillHolds'
  <2>1. pass'[a].pc = "next" /\ \A b \in Agents \ {a} : pass'[b] = pass[b]
    BY <1>0, <1>2 DEF PromoteStart, PassType
  <2> QED
    BY <1>2, <2>1, OthersChecked DEF PromoteStart
<1>3. ASSUME NEW a \in Agents, NEW n \in Names, CheckShared(a, n) PROVE CheckStillHolds'
  <2>1. \A b \in Agents \ {a} : pass'[b] = pass[b]
    BY <1>0, <1>3, CheckFacts
  <2>2. UNCHANGED store /\ \A b \in Agents \ {a} : b \in excused' <=> b \in excused
    BY <1>3 DEF CheckShared
  <2>3. \A b \in Agents \ {a} : pass'[b].pc = "copy" /\ b \notin excused' =>
          ~Unrelated(store'[<<Project, pass'[b].name>>])
    BY <2>1, <2>2 DEF CheckStillHolds, Running
  <2>4. pass'[a].pc = "copy" /\ a \notin excused' =>
          ~Unrelated(store'[<<Project, pass'[a].name>>])
    <3> SUFFICES ASSUME pass'[a].pc = "copy", a \notin excused'
                 PROVE  ~Unrelated(store'[<<Project, pass'[a].name>>])
      OBVIOUS
    <3> DEFINE after == [pass[a] EXCEPT !.todo = @ \ {n}]
    <3>1. pass'[a].name = n
      BY <1>0, <1>3, CheckFacts
    <3>2. pass' = [pass EXCEPT ![a] =
                     IF Taken(store[<<Project, n>>])
                     THEN [after EXCEPT !.snap[n] = Absent]
                     ELSE [after EXCEPT !.pc = "copy", !.name = n]]
      BY <1>3 DEF CheckShared
    <3>3. [after EXCEPT !.snap[n] = Absent].pc = "next"
      BY <1>0, <1>3 DEF CheckShared, Running, PassType, PassState
    <3>4. ~Taken(store[<<Project, n>>])
      <4> SUFFICES ASSUME Taken(store[<<Project, n>>]) PROVE FALSE
        OBVIOUS
      <4>1. pass'[a] = [after EXCEPT !.snap[n] = Absent]
        BY <1>0, <3>2 DEF PassType
      <4> QED
        BY <3>3, <4>1
    <3> QED
      BY <2>2, <3>1, <3>4 DEF Taken
  <2> QED
    BY <2>3, <2>4 DEF CheckStillHolds, Running
<1>4. ASSUME NEW a \in Agents, CopyShared(a) PROVE CheckStillHolds'
  <2> DEFINE n == pass[a].name
  <2>1. pass'[a].pc # "copy" /\ \A b \in Agents \ {a} : pass'[b] = pass[b]
    BY <1>0, <1>4, ProceedFacts DEF CopyShared, AfterError, PassType, PassState
  <2>2. n \in Names /\ Copy(a).from = a
    <3>1. n \in Names /\ pass[a].snap[n] \in Node
      BY <1>0, <1>4, SharingFacts DEF CopyShared, Running
    <3> QED
      BY <3>1, CopyFacts DEF Copy
  <2>3. ~Unrelated(Copy(a))
    BY <2>2, RootAssumption DEF Unrelated
  <2>4. UNCHANGED store \/ store' = [store EXCEPT ![<<Project, n>>] = Copy(a)]
    BY <1>4 DEF CopyShared
  <2>5. \A m \in Names : \/ store'[<<Project, m>>] = store[<<Project, m>>]
                         \/ ~Unrelated(store'[<<Project, m>>])
    BY <1>0, <2>2, <2>3, <2>4, KeyFacts DEF StoreType
  <2>6. \A b \in Agents \ {a} : b \in excused' <=> b \in excused
    BY <1>4 DEF CopyShared
  <2> QED
    BY <1>n, <2>1, <2>5, <2>6, OthersChecked
<1>5. ASSUME NEW a \in Agents, LinkPromoted(a) PROVE CheckStillHolds'
  <2>1. pass'[a].pc # "copy" /\ \A b \in Agents \ {a} : pass'[b] = pass[b]
    BY <1>0, <1>5, ProceedFacts DEF LinkPromoted, AfterError, PassType, PassState
  <2> QED
    BY <1>5, <2>1, OthersChecked DEF LinkPromoted
<1>6. ASSUME NEW a \in Agents, MarkOriginal(a) PROVE CheckStillHolds'
  <2>1. pass'[a].pc # "copy" /\ \A b \in Agents \ {a} : pass'[b] = pass[b]
    BY <1>0, <1>6, ProceedFacts DEF MarkOriginal, AfterError
  <2>2. pass[a].name \in Names
    BY <1>0, <1>6, SharingFacts DEF MarkOriginal, Running
  <2>3. \A m \in Names : store'[<<Project, m>>] = store[<<Project, m>>]
    <3> TAKE m \in Names
    <3>1. <<Project, m>> \in Keys /\ <<Project, m>> # <<a, pass[a].name>>
      BY KeyFacts, RootAssumption
    <3> QED
      BY <1>0, <1>6, <3>1 DEF MarkOriginal, StoreType
  <2> QED
    BY <1>n, <1>6, <2>1, <2>3, OthersChecked DEF MarkOriginal
<1>7. ASSUME NEW a \in Agents, PromoteEnd(a) \/ Abort(a) PROVE CheckStillHolds'
  <2>1. pass'[a].pc = "idle" /\ \A b \in Agents \ {a} : pass'[b] = pass[b]
    BY <1>0, <1>7 DEF PromoteEnd, Abort, PassOver, IdlePass, PassType
  <2> QED
    BY <1>7, <2>1, OthersChecked DEF PromoteEnd, Abort, PassOver
<1>8. ASSUME NEW c \in Clients, ClientStep(c), ~WriteBack(c) PROVE CheckStillHolds'
  BY <1>1, <1>8 DEF ClientStep, RecordSkill, Approve, Revoke, Touch, GiveUp, historyVars
\* A node is written and the passes that have just checked its key are told.
<1>9. ASSUME NEW k \in Keys, NEW node, store' = [store EXCEPT ![k] = node],
             Written(k, node), UNCHANGED pass
      PROVE CheckStillHolds'
  <2>1. \A b \in Agents : b \notin excused' => b \notin excused
    BY <1>9 DEF Written
  <2>2. \A m \in Names : store'[<<Project, m>>] = IF k = <<Project, m>> THEN node
                                                  ELSE store[<<Project, m>>]
    BY <1>0, <1>9, KeyFacts DEF StoreType, Keys
  <2>3. ASSUME NEW b \in Agents, pass[b].pc = "copy", b \notin excused',
               k = <<Project, pass[b].name>>
        PROVE  ~Unrelated(node)
    BY <1>9, <2>3, KeyFacts DEF Written, Running, Unrelated
  <2> QED
    BY <1>n, <1>9, <2>1, <2>2, <2>3, OthersChecked
<1>10. ASSUME NEW c \in Clients, WriteBack(c) PROVE CheckStillHolds'
  <2>1. client[c].key \in Keys
    BY <1>0, <1>10 DEF WriteBack, ClientType, Held
  <2> QED
    BY <1>9, <1>10, <2>1 DEF WriteBack
<1>11. ASSUME NEW n \in Names, RecordCurated(n) PROVE CheckStillHolds'
  <2> DEFINE node == NewNode("fact", 0, 0)
  <2>1. <<Project, n>> \in Keys
    BY KeyFacts
  <2>2. /\ store' = [store EXCEPT ![<<Project, n>>] = node] /\ Written(<<Project, n>>, node)
        /\ UNCHANGED pass
    BY <1>11 DEF RecordCurated
  <2> HIDE DEF node
  <2> QED
    BY <1>9, <2>1, <2>2
<1>12. ASSUME NEW a \in Agents, NEW n \in Names, FileCandidate(a, n) PROVE CheckStillHolds'
  <2>1. \A m \in Names : store'[<<Project, m>>] = store[<<Project, m>>]
    BY <1>0, <1>12, RootAssumption DEF FileCandidate, StoreType
  <2> QED
    BY <1>1, <1>12, <2>1 DEF FileCandidate, historyVars
<1>13. CASE Tick \/ UNCHANGED vars
  BY <1>1, <1>13 DEF Tick, vars, historyVars
<1> QED
  BY <1>2, <1>3, <1>4, <1>5, <1>6, <1>7, <1>8, <1>10, <1>11, <1>12, <1>13
     DEF Next, PassStep, RecordStep

-----------------------------------------------------------------------------
(* Where approvals come from. *)

\* What a pass holds of a node it held before, has just read, or is nothing.
LEMMA SnapStep == TypeOK /\ PassInOrder /\ [Next]_vars =>
                    \A b \in Agents, m \in Names :
                      pass'[b].snap[m] \in {pass[b].snap[m], Absent, store[<<b, m>>]}
<1> SUFFICES ASSUME TypeOK, PassInOrder, [Next]_vars, NEW b \in Agents, NEW m \in Names
             PROVE  pass'[b].snap[m] \in {pass[b].snap[m], Absent, store[<<b, m>>]}
  OBVIOUS
<1>0. PassType /\ pass[b] \in PassState
  BY TypeParts DEF PassType
<1>1. CASE UNCHANGED pass
  BY <1>1
<1>2. ASSUME NEW a \in Agents, PromoteStart(a)
      PROVE pass'[b].snap[m] \in {pass[b].snap[m], Absent, store[<<b, m>>]}
  BY <1>0, <1>2 DEF PromoteStart, PassType
<1>3. ASSUME NEW a \in Agents, NEW n \in Names, CheckShared(a, n)
      PROVE pass'[b].snap[m] \in {pass[b].snap[m], Absent, store[<<b, m>>]}
  <2>1. /\ pass'[a].snap = pass[a].snap \/ pass'[a].snap = [pass[a].snap EXCEPT ![n] = Absent]
        /\ \A q \in Agents \ {a} : pass'[q] = pass[q]
    BY <1>0, <1>3, CheckFacts
  <2> QED
    BY <1>0, <2>1 DEF PassState
<1>4. ASSUME NEW a \in Agents, pass' = Proceed(a)
      PROVE pass'[b].snap[m] \in {pass[b].snap[m], Absent, store[<<b, m>>]}
  BY <1>0, <1>4, ProceedFacts
<1>5. ASSUME NEW a \in Agents, NEW pc, pass' = [pass EXCEPT ![a].pc = pc]
      PROVE pass'[b].snap[m] \in {pass[b].snap[m], Absent, store[<<b, m>>]}
  BY <1>0, <1>5 DEF PassType, PassState
<1>6. ASSUME NEW a \in Agents, PassOver(a)
      PROVE pass'[b].snap[m] \in {pass[b].snap[m], Absent, store[<<b, m>>]}
  BY <1>0, <1>6 DEF PassOver, PassType, IdlePass, NoSnap
<1>7. ASSUME NEW a \in Agents, PassStep(a)
      PROVE pass'[b].snap[m] \in {pass[b].snap[m], Absent, store[<<b, m>>]}
  BY <1>2, <1>3, <1>4, <1>5, <1>6, <1>7
     DEF PassStep, CopyShared, LinkPromoted, MarkOriginal, AfterError, PromoteEnd, Abort
<1>8. ASSUME NEW c \in Clients, ClientStep(c)
      PROVE pass'[b].snap[m] \in {pass[b].snap[m], Absent, store[<<b, m>>]}
  BY <1>1, <1>8 DEF ClientStep, RecordSkill, Approve, Revoke, Touch, WriteBack, GiveUp
<1> QED
  BY <1>1, <1>7, <1>8 DEF Next, RecordStep, Tick, FileCandidate, RecordCurated, vars

\* A private node that is written is new, or a copy that a pass or a client held.
LEMMA StoreStep ==
  ASSUME TypeOK, PassInOrder, [Next]_vars, NEW k \in PrivateKeys
  PROVE  \/ store'[k] = store[k]
         \/ ~store'[k].approved
         \/ store'[k].approved = pass[k[1]].snap[k[2]].approved
         \/ \E c \in Clients : /\ client[c] # None /\ client[c].key = k
                               /\ store'[k] = client[c].node
<1> DEFINE Goal == \/ store'[k] = store[k]
                   \/ ~store'[k].approved
                   \/ store'[k].approved = pass[k[1]].snap[k[2]].approved
                   \/ \E c \in Clients : /\ client[c] # None /\ client[c].key = k
                                         /\ store'[k] = client[c].node
<1>0. StoreType /\ PassType /\ ClientType /\ CountType /\ k \in Keys
  BY TypeParts, KeyFacts
<1>1. CASE UNCHANGED store
  BY <1>1
<1>2. ASSUME NEW a \in Agents, CopyShared(a) PROVE Goal
  <2>1. pass[a].name \in Names
    BY <1>0, <1>2, SharingFacts DEF CopyShared, Running
  <2>2. k # <<Project, pass[a].name>>
    BY <2>1, KeyFacts
  <2> QED
    BY <1>0, <1>2, <2>2 DEF CopyShared, StoreType
<1>3. ASSUME NEW a \in Agents, MarkOriginal(a) PROVE Goal
  <2> DEFINE n == pass[a].name
             marked == [pass[a].snap[n] EXCEPT !.promoted = TRUE]
  <2>1. n \in Names /\ pass[a].snap[n] \in Node
    BY <1>0, <1>3, SharingFacts DEF MarkOriginal, Running
  <2>2. marked.approved = pass[a].snap[n].approved
    BY <2>1, CopyFacts
  <2>3. UNCHANGED store \/ store' = [store EXCEPT ![<<a, n>>] = marked]
    BY <1>3 DEF MarkOriginal
  <2> HIDE DEF marked
  <2> QED
    BY <1>0, <2>2, <2>3 DEF StoreType
<1>4. ASSUME NEW c \in Clients, WriteBack(c) PROVE Goal
  <2>1. store' = [store EXCEPT ![client[c].key] = client[c].node] /\ client[c] # None
    BY <1>4 DEF WriteBack
  <2> QED
    BY <1>0, <2>1 DEF StoreType
<1>5. ASSUME NEW a \in Agents, NEW n \in Names, FileCandidate(a, n) PROVE Goal
  <2>1. PICK kind \in {"skill", "fact"}, captured \in {0, 1} :
          store' = [store EXCEPT ![<<a, n>>] = NewNode(kind, captured, now)]
    BY <1>5 DEF FileCandidate
  <2> DEFINE node == NewNode(kind, captured, now)
  <2>2. ~node.approved
    BY DEF NewNode
  <2>3. store' = [store EXCEPT ![<<a, n>>] = node]
    BY <2>1
  <2> HIDE DEF node
  <2> QED
    BY <1>0, <2>2, <2>3 DEF StoreType
<1>6. ASSUME NEW n \in Names, RecordCurated(n) PROVE Goal
  <2>1. k # <<Project, n>>
    BY KeyFacts
  <2> QED
    BY <1>0, <1>6, <2>1 DEF RecordCurated, StoreType
<1>7. ASSUME NEW a \in Agents, PassStep(a) PROVE Goal
  BY <1>1, <1>2, <1>3, <1>7
     DEF PassStep, PromoteStart, CheckShared, LinkPromoted, PromoteEnd, Abort
<1>8. ASSUME NEW c \in Clients, ClientStep(c) PROVE Goal
  BY <1>1, <1>4, <1>8 DEF ClientStep, RecordSkill, Approve, Revoke, Touch, GiveUp
<1> HIDE DEF Goal
<1>9. Goal
  BY <1>5, <1>6, <1>7, <1>8 DEF Next, RecordStep, Tick, vars, Goal
<1> QED
  BY <1>9 DEF Goal

\* What a client holds it held before, or has read and possibly approved: a key it
\* approves is not revoked for good.
LEMMA HeldStep ==
  ASSUME TypeOK, [Next]_vars, NEW c \in Clients, client'[c] # None
  PROVE  \/ client'[c] = client[c]
         \/ client'[c].op = "approve" /\ client'[c].key \notin revoked'
         \/ ~client'[c].node.approved
         \/ /\ client'[c].op # "revoke"
            /\ client'[c].node.approved = store[client'[c].key].approved
<1> DEFINE Goal == \/ client'[c] = client[c]
                   \/ client'[c].op = "approve" /\ client'[c].key \notin revoked'
                   \/ ~client'[c].node.approved
                   \/ /\ client'[c].op # "revoke"
                      /\ client'[c].node.approved = store[client'[c].key].approved
<1>0. StoreType /\ ClientType /\ CountType
  BY TypeParts
<1>1. CASE UNCHANGED client
  BY <1>1
<1>2. ASSUME NEW d \in Clients, client' = [client EXCEPT ![d] = None] PROVE Goal
  BY <1>0, <1>2 DEF ClientType
<1>3. ASSUME NEW d \in Clients, NEW op, NEW k, NEW node, Hold(d, op, k, node), d # c
      PROVE Goal
  BY <1>0, <1>3 DEF Hold, ClientType
<1>4. ASSUME NEW op, NEW k, NEW node, Hold(c, op, k, node)
      PROVE client'[c].op = op /\ client'[c].key = k /\ client'[c].node = node
  BY <1>0, <1>4 DEF Hold, ClientType
<1>5. ASSUME NEW d \in Clients, NEW a \in Agents, NEW n \in Names, RecordSkill(d, a, n)
      PROVE Goal
  <2>1. PICK node : Hold(d, "skill", <<a, n>>, node) /\ ~node.approved
    BY <1>5 DEF RecordSkill, Revision, NewNode
  <2> QED
    BY <1>3, <1>4, <2>1
<1>6. ASSUME NEW d \in Clients, NEW k \in Keys, Approve(d, k) PROVE Goal
  <2>1. PICK node : Hold(d, "approve", k, node) /\ k \notin revoked'
    BY <1>6 DEF Approve
  <2> QED
    BY <1>3, <1>4, <2>1
<1>7. ASSUME NEW d \in Clients, NEW k \in Keys, Revoke(d, k) PROVE Goal
  <2>1. store[k] \in Node
    BY <1>0, <1>7 DEF Revoke, StoreType, Absent
  <2>2. ~[store[k] EXCEPT !.approved = FALSE].approved
    BY <2>1, ApprovalFacts
  <2>3. PICK node : Hold(d, "revoke", k, node) /\ ~node.approved
    BY <1>7, <2>2 DEF Revoke
  <2> QED
    BY <1>3, <1>4, <2>3
<1>8. ASSUME NEW d \in Clients, NEW k \in Keys, Touch(d, k) PROVE Goal
  <2>1. PICK seen \in {store[k].seen, now}, state \in {"active", "aside"} :
          Hold(d, "touch", k, [store[k] EXCEPT !.seen = seen, !.state = state])
    BY <1>8 DEF Touch
  <2>2. store[k] \in Node
    BY <1>0, <1>8 DEF Touch, StoreType
  <2>3. seen \in 0..MaxClock
    BY <1>0, <2>2 DEF Node, CountType
  <2>4. [store[k] EXCEPT !.seen = seen, !.state = state].approved = store[k].approved
    BY <2>2, <2>3 DEF Node
  <2>5. PICK node : Hold(d, "touch", k, node) /\ node.approved = store[k].approved
    BY <2>1, <2>4
  <2> QED
    BY <1>3, <1>4, <2>5
<1>9. ASSUME NEW d \in Clients, WriteBack(d) \/ GiveUp(d) PROVE Goal
  BY <1>2, <1>9 DEF WriteBack, GiveUp
<1>10. ASSUME NEW a \in Agents, PassStep(a) PROVE Goal
  BY <1>1, <1>10 DEF PassStep, PromoteStart, CheckShared, CopyShared, LinkPromoted,
                     MarkOriginal, PromoteEnd, Abort
<1>11. CASE Tick \/ RecordStep \/ UNCHANGED vars
  BY <1>1, <1>11 DEF Tick, RecordStep, FileCandidate, RecordCurated, vars
<1>12. ASSUME NEW d \in Clients, ClientStep(d) PROVE Goal
  BY <1>5, <1>6, <1>7, <1>8, <1>9, <1>12 DEF ClientStep
<1> HIDE DEF Goal
<1>13. Goal
  BY <1>10, <1>11, <1>12 DEF Next, Goal
<1> QED
  BY <1>13 DEF Goal

\* A key is revoked for good when the revocation is written and no approved copy of it
\* is left that could still be written.
LEMMA RevokedStep ==
  ASSUME [Next]_vars, NEW k \in revoked', k \notin revoked
  PROVE  \E c \in Clients : /\ WriteBack(c) /\ client[c].op = "revoke"
                            /\ client[c].key = k /\ k \in PrivateKeys
                            /\ NoApprovedCopy(c, k)
<1> USE DEF historyVars
<1>1. ASSUME NEW a \in Agents, PassStep(a) PROVE FALSE
  BY <1>1 DEF PassStep, PromoteStart, CheckShared, CopyShared, LinkPromoted, MarkOriginal,
              PromoteEnd, Abort
<1>2. PICK c \in Clients : WriteBack(c)
  BY <1>1 DEF Next, RecordStep, Tick, FileCandidate, RecordCurated, ClientStep,
              RecordSkill, Approve, Revoke, Touch, GiveUp, vars
<1> QED
  BY <1>2 DEF WriteBack

\* What is revoked for good stays without an approved copy.
LEMMA ApprovalStep == TypeOK /\ PassInOrder /\ NoApprovalLeft /\ [Next]_vars
                        => NoApprovalLeft'
<1> SUFFICES ASSUME TypeOK, PassInOrder, NoApprovalLeft, [Next]_vars
             PROVE  NoApprovalLeft'
  OBVIOUS
<1>0. StoreType /\ ClientType /\ PassType /\ revoked \subseteq PrivateKeys
  BY TypeParts DEF HistoryType
<1>1. ASSUME NEW c \in Clients, client'[c] # None, client'[c].op = "revoke"
      PROVE  ~client'[c].node.approved
  BY <1>1, HeldStep DEF NoApprovalLeft
<1>2. ASSUME NEW k \in revoked', k \in revoked PROVE ~ApprovalAround(k)'
  <2>1. /\ ~store[k].approved /\ ~pass[k[1]].snap[k[2]].approved
        /\ \A c \in Clients : client[c] # None /\ client[c].key = k =>
                                ~client[c].node.approved
    BY <1>2 DEF NoApprovalLeft, ApprovalAround
  <2>2. k \in PrivateKeys /\ k[1] \in Agents /\ k[2] \in Names /\ k = <<k[1], k[2]>>
    BY <1>0, <1>2, KeyFacts
  <2>3. ~store'[k].approved
    BY <2>1, <2>2, StoreStep
  <2>4. ~pass'[k[1]].snap[k[2]].approved
    BY <2>1, <2>2, SnapStep, AbsentFacts
  <2>5. ASSUME NEW c \in Clients, client'[c] # None, client'[c].key = k
        PROVE  ~client'[c].node.approved
    BY <1>2, <2>1, <2>5, HeldStep
  <2> QED
    BY <2>3, <2>4, <2>5 DEF ApprovalAround
<1>3. ASSUME NEW k \in revoked', k \notin revoked PROVE ~ApprovalAround(k)'
  <2>1. PICK c \in Clients : /\ WriteBack(c) /\ client[c].op = "revoke"
                             /\ client[c].key = k /\ k \in PrivateKeys
                             /\ NoApprovedCopy(c, k)
    BY <1>3, RevokedStep
  <2>2. ~client[c].node.approved
    BY <2>1 DEF NoApprovalLeft, WriteBack
  <2>3. k \in Keys /\ k[1] \in Agents
    BY <2>1, KeyFacts
  <2>4. ~store'[k].approved
    BY <1>0, <2>1, <2>2, <2>3 DEF WriteBack, StoreType
  <2>5. ~pass'[k[1]].snap[k[2]].approved
    BY <2>1, <2>3 DEF WriteBack, NoApprovedCopy
  <2>6. ASSUME NEW d \in Clients, client'[d] # None, client'[d].key = k
        PROVE  ~client'[d].node.approved
    BY <1>0, <2>1, <2>6 DEF WriteBack, NoApprovedCopy, ClientType
  <2> QED
    BY <2>4, <2>5, <2>6 DEF ApprovalAround
<1> QED
  BY <1>1, <1>2, <1>3 DEF NoApprovalLeft

-----------------------------------------------------------------------------
(* A pass deals with every node it was to promote. *)

\* A node that stays clean keeps its place in the pass, or is not eligible any more.
LEMMA StaysDealtWith ==
  ASSUME DealtWith,
         \A b \in Agents : pass'[b].pc # "idle" =>
           /\ pass[b].pc # "idle"
           /\ \A n \in clean'[b] :
                /\ n \in clean[b]
                /\ n \in pass[b].todo \/ n = pass[b].name =>
                     \/ n \in pass'[b].todo \/ n = pass'[b].name
                     \/ ~Eligible(store'[<<b, n>>])
                /\ \/ store'[<<b, n>>] = store[<<b, n>>]
                   \/ ~Eligible(store'[<<b, n>>])
  PROVE  DealtWith'
BY DEF DealtWith, Running

\* Writes at the project's keys do not concern the nodes of a pass.
LEMMA SharedWrite ==
  ASSUME StoreType, NEW n \in Names, NEW node,
         store' = [store EXCEPT ![<<Project, n>>] = node]
  PROVE  \A b \in Agents, m \in Names : store'[<<b, m>>] = store[<<b, m>>]
<1> TAKE b \in Agents, m \in Names
<1>1. <<b, m>> \in Keys /\ <<b, m>> # <<Project, n>>
  BY KeyFacts, RootAssumption
<1> QED
  BY <1>1 DEF StoreType

\* Every step keeps what the passes have dealt with.
LEMMA DealtStep == TypeOK /\ PassInOrder /\ DealtWith /\ [Next]_vars => DealtWith'
<1> SUFFICES ASSUME TypeOK, PassInOrder, DealtWith, [Next]_vars PROVE DealtWith'
  OBVIOUS
<1>0. StoreType /\ PassType /\ ClientType /\ CountType /\ clean \in [Agents -> SUBSET Names]
  BY TypeParts DEF HistoryType
<1>1. ASSUME UNCHANGED <<store, pass, clean>> PROVE DealtWith'
  BY <1>1, StaysDealtWith
<1>2. ASSUME NEW a \in Agents, PromoteStart(a) PROVE DealtWith'
  <2> DEFINE due == {n \in Names : Eligible(store[<<a, n>>])}
  <2>1. /\ pass'[a].todo = due /\ UNCHANGED store
        /\ \A b \in Agents \ {a} : pass'[b] = pass[b]
    BY <1>0, <1>2 DEF PromoteStart, PassType
  <2>2. clean'[a] = Names /\ \A b \in Agents \ {a} : clean'[b] = clean[b]
    BY <1>0, <1>2 DEF PromoteStart
  <2>3. ASSUME NEW b \in Agents, pass'[b].pc # "idle", NEW n \in clean'[b]
        PROVE  \/ n \in pass'[b].todo \/ n = pass'[b].name
               \/ ~Eligible(store'[<<b, n>>])
    <3>1. CASE b = a
      BY <2>1, <2>2, <2>3, <3>1
    <3>2. CASE b # a
      BY <2>1, <2>2, <2>3, <3>2 DEF DealtWith, Running
    <3> QED
      BY <3>1, <3>2
  <2> QED
    BY <2>3 DEF DealtWith, Running
\* A step of one pass that leaves the private nodes alone, and drops from clean
\* what it passes over.
<1>3. ASSUME NEW a \in Agents, pass[a].pc # "idle",
             \A b \in Agents \ {a} : pass'[b] = pass[b],
             \A b \in Agents : clean'[b] \subseteq clean[b],
             \A b \in Agents, m \in Names :
               \/ store'[<<b, m>>] = store[<<b, m>>] \/ ~Eligible(store'[<<b, m>>]),
             \A n \in clean'[a] : n \in pass[a].todo \/ n = pass[a].name =>
               \/ n \in pass'[a].todo \/ n = pass'[a].name \/ ~Eligible(store'[<<a, n>>])
      PROVE DealtWith'
  BY <1>0, <1>3, StaysDealtWith
<1>4. ASSUME NEW a \in Agents, NEW n \in Names, CheckShared(a, n) PROVE DealtWith'
  <2>1. pass[a].pc = "next" /\ pass[a].name = None /\ UNCHANGED store
    BY <1>4 DEF CheckShared, Running, PassInOrder
  <2>2. /\ pass'[a].todo = pass[a].todo \ {n}
        /\ pass'[a].name = n \/ Unrelated(store[<<Project, n>>])
    BY <1>0, <1>4, CheckFacts DEF Taken
  <2>3. \A b \in Agents \ {a} : pass'[b] = pass[b]
    BY <1>0, <1>4, CheckFacts
  <2>4. /\ \A b \in Agents : clean'[b] \subseteq clean[b]
        /\ Unrelated(store[<<Project, n>>]) => n \notin clean'[a]
    BY <1>0, <1>4 DEF CheckShared
  <2>5. \A m \in clean'[a] : m \in pass[a].todo \/ m = pass[a].name =>
          m \in pass'[a].todo \/ m = pass'[a].name
    BY <1>0, <2>1, <2>2, <2>4, RootAssumption
  <2> QED
    BY <1>3, <2>1, <2>3, <2>4, <2>5
\* What the three writes of a promotion have in common: they go on with the node, or
\* to the next one, and then the node is dropped or marked.
<1>5. ASSUME NEW a \in Agents, pass[a].pc \in {"copy", "link", "mark"},
             \A b \in Agents : clean'[b] \subseteq clean[b],
             \A b \in Agents, m \in Names :
               \/ store'[<<b, m>>] = store[<<b, m>>] \/ ~Eligible(store'[<<b, m>>]),
             \/ pass' = [pass EXCEPT ![a].pc = "link"]
             \/ pass' = [pass EXCEPT ![a].pc = "mark"]
             \/ /\ pass' = Proceed(a)
                /\ \/ pass[a].name \notin clean'[a]
                   \/ ~Eligible(store'[<<a, pass[a].name>>])
      PROVE DealtWith'
  <2>1. CASE \E pc \in {"link", "mark"} : pass' = [pass EXCEPT ![a].pc = pc]
    <3>1. /\ pass'[a].todo = pass[a].todo /\ pass'[a].name = pass[a].name
          /\ \A b \in Agents \ {a} : pass'[b] = pass[b]
      BY <1>0, <2>1 DEF PassType, PassState
    <3> QED
      BY <1>3, <1>5, <3>1
  <2>2. CASE pass' = Proceed(a)
    <3>1. pass'[a].todo = pass[a].todo /\ \A b \in Agents \ {a} : pass'[b] = pass[b]
      BY <1>0, <2>2, ProceedFacts
    <3>2. pass[a].name \notin clean'[a] \/ ~Eligible(store'[<<a, pass[a].name>>])
      BY <1>0, <1>5, <2>2, ProceedFacts DEF PassType, PassState
    <3> QED
      BY <1>3, <1>5, <3>1, <3>2
  <2> QED
    BY <1>5, <2>1, <2>2
<1>6. ASSUME NEW a \in Agents, CopyShared(a) PROVE DealtWith'
  <2>1. pass[a].pc = "copy" /\ pass[a].name \in Names
    BY <1>0, <1>6, SharingFacts DEF CopyShared, Running
  <2>2. \A b \in Agents, m \in Names : store'[<<b, m>>] = store[<<b, m>>]
    BY <1>0, <1>6, <2>1, SharedWrite DEF CopyShared
  <2>3. \A b \in Agents : clean'[b] \subseteq clean[b]
    BY <1>0, <1>6 DEF CopyShared
  <2>4. \/ pass' = [pass EXCEPT ![a].pc = "link"]
        \/ pass' = Proceed(a) /\ pass[a].name \notin clean'[a]
    BY <1>0, <1>6 DEF CopyShared, AfterError
  <2> QED
    BY <1>5, <2>1, <2>2, <2>3, <2>4
<1>7. ASSUME NEW a \in Agents, LinkPromoted(a) PROVE DealtWith'
  <2>1. pass[a].pc = "link" /\ UNCHANGED store
    BY <1>7 DEF LinkPromoted, Running
  <2>2. \A b \in Agents : clean'[b] \subseteq clean[b]
    BY <1>0, <1>7 DEF LinkPromoted
  <2>3. \/ pass' = [pass EXCEPT ![a].pc = "mark"]
        \/ pass' = Proceed(a) /\ pass[a].name \notin clean'[a]
    BY <1>0, <1>7 DEF LinkPromoted, AfterError
  <2> QED
    BY <1>5, <2>1, <2>2, <2>3
<1>8. ASSUME NEW a \in Agents, MarkOriginal(a) PROVE DealtWith'
  <2> DEFINE n == pass[a].name
             marked == [pass[a].snap[n] EXCEPT !.promoted = TRUE]
  <2>1. pass[a].pc = "mark" /\ n \in Names /\ pass[a].snap[n] \in Node
    BY <1>0, <1>8, SharingFacts DEF MarkOriginal, Running
  <2>2. marked.promoted
    BY <2>1, CopyFacts
  <2>3. ~Eligible(marked)
    BY <2>2 DEF Eligible
  <2>4. \A b \in Agents : clean'[b] \subseteq clean[b]
    BY <1>0, <1>8 DEF MarkOriginal
  <2>5. \/ store' = [store EXCEPT ![<<a, n>>] = marked]
        \/ UNCHANGED store /\ n \notin clean'[a]
    BY <1>0, <1>8 DEF MarkOriginal
  <2>6. <<a, n>> \in Keys
    BY <2>1, KeyFacts
  <2> HIDE DEF marked
  <2>7. \A b \in Agents, m \in Names :
          store'[<<b, m>>] = store[<<b, m>>] \/ ~Eligible(store'[<<b, m>>])
    <3> TAKE b \in Agents, m \in Names
    <3>1. <<b, m>> \in Keys
      BY KeyFacts
    <3> QED
      BY <1>0, <2>3, <2>5, <3>1 DEF StoreType
  <2>8. n \notin clean'[a] \/ ~Eligible(store'[<<a, n>>])
    BY <1>0, <2>3, <2>5, <2>6 DEF StoreType
  <2> QED
    BY <1>5, <1>8, <2>1, <2>4, <2>7, <2>8 DEF MarkOriginal, AfterError
<1>9. ASSUME NEW a \in Agents, PromoteEnd(a) \/ Abort(a) PROVE DealtWith'
  <2>1. /\ pass'[a].pc = "idle" /\ UNCHANGED store
        /\ \A b \in Agents \ {a} : pass'[b] = pass[b]
        /\ \A b \in Agents \ {a} : clean'[b] = clean[b]
    BY <1>0, <1>9 DEF PromoteEnd, Abort, PassOver, IdlePass, PassType
  <2> QED
    BY <2>1, StaysDealtWith
<1>10. ASSUME NEW c \in Clients, ClientStep(c), ~WriteBack(c) PROVE DealtWith'
  BY <1>1, <1>10
     DEF ClientStep, RecordSkill, Approve, Revoke, Touch, GiveUp, historyVars
\* Somebody else's write drops the node.
<1>11. ASSUME NEW k \in Keys, NEW node, store' = [store EXCEPT ![k] = node],
              Written(k, node), UNCHANGED pass
       PROVE DealtWith'
  <2>1. ASSUME NEW b \in Agents, NEW n \in clean'[b]
        PROVE  n \in clean[b] /\ <<b, n>> # k
    BY <1>0, <1>11, <2>1 DEF Written
  <2>2. ASSUME NEW b \in Agents, NEW n \in Names, <<b, n>> # k
        PROVE  store'[<<b, n>>] = store[<<b, n>>]
    BY <1>0, <1>11, <2>2, KeyFacts DEF StoreType
  <2> QED
    BY <1>0, <1>11, <2>1, <2>2, StaysDealtWith
<1>12. ASSUME NEW c \in Clients, WriteBack(c) PROVE DealtWith'
  <2>1. client[c].key \in Keys
    BY <1>0, <1>12 DEF WriteBack, ClientType, Held
  <2> QED
    BY <1>11, <1>12, <2>1 DEF WriteBack
<1>13. ASSUME NEW n \in Names, RecordCurated(n) PROVE DealtWith'
  <2> DEFINE node == NewNode("fact", 0, 0)
  <2>1. <<Project, n>> \in Keys
    BY KeyFacts
  <2>2. /\ store' = [store EXCEPT ![<<Project, n>>] = node] /\ Written(<<Project, n>>, node)
        /\ UNCHANGED pass
    BY <1>13 DEF RecordCurated
  <2> HIDE DEF node
  <2> QED
    BY <1>11, <2>1, <2>2
<1>14. ASSUME NEW a \in Agents, NEW n \in Names, FileCandidate(a, n) PROVE DealtWith'
  <2>1. pass[a].pc = "idle" /\ UNCHANGED <<pass, clean>>
    BY <1>14 DEF FileCandidate, Running, historyVars
  <2>2. PICK node : store' = [store EXCEPT ![<<a, n>>] = node]
    BY <1>14 DEF FileCandidate
  <2>3. \A b \in Agents \ {a}, m \in Names : store'[<<b, m>>] = store[<<b, m>>]
    <3> TAKE b \in Agents \ {a}, m \in Names
    <3>1. <<b, m>> \in Keys /\ <<b, m>> # <<a, n>>
      BY KeyFacts
    <3> QED
      BY <1>0, <2>2, <3>1 DEF StoreType
  <2> QED
    BY <1>0, <2>1, <2>3, StaysDealtWith
<1>15. CASE Tick \/ UNCHANGED vars
  BY <1>1, <1>15 DEF Tick, vars, historyVars
<1>16. ASSUME NEW a \in Agents, PassStep(a) PROVE DealtWith'
  BY <1>2, <1>4, <1>6, <1>7, <1>8, <1>9, <1>16 DEF PassStep
<1> QED
  BY <1>10, <1>12, <1>13, <1>14, <1>15, <1>16 DEF Next, RecordStep

-----------------------------------------------------------------------------
(* The invariant, and what follows from it. *)

\* The invariant holds at first: nothing is written yet.
LEMMA InitInv == Init => Inv
<1> SUFFICES ASSUME Init PROVE Inv
  OBVIOUS
<1>1. /\ \A k \in Keys : store[k] = Absent
      /\ \A c \in Clients : client[c] = None
      /\ \A a \in Agents : /\ pass[a].pc = "idle" /\ pass[a].todo = {} /\ pass[a].name = None
                           /\ \A n \in Names : pass[a].snap[n] = Absent
      /\ revoked = {}
  BY DEF Init, IdlePass, NoSnap
<1>2. TypeOK
  <2>1. IdlePass \in PassState
    BY DEF IdlePass, NoSnap, PassState
  <2>2. 1 \in 1..MaxClock /\ 0 \in 0..MaxTexts /\ 0 \in 0..MaxCalls
    BY PromotionBounds
  <2> QED
    BY <2>1, <2>2, TypeParts
       DEF Init, StoreType, PassType, ClientType, HistoryType, CountType
<1>3. CopiesFit
  BY <1>1, AbsentFacts DEF CopiesFit, Fits, MarkFitsText
<1>4. PassInOrder /\ NoApprovalLeft /\ CheckStillHolds /\ DealtWith
  BY <1>1 DEF PassInOrder, NoApprovalLeft, CheckStillHolds, DealtWith, Running
<1> QED
  BY <1>2, <1>3, <1>4 DEF Inv

\* Inv holds in every reachable state: whatever the agents, clients and names, stale
\* copies and failing writes never part a text from its approval or its mark
\* (promote.go:42-125, skills.go:46-71 and 203-224).
THEOREM Invariance == Spec => []Inv
<1>1. Inv /\ [Next]_vars => Inv'
  BY TypeStep, FitStep, OrderStep, ApprovalStep, CheckStep, DealtStep DEF Inv
<1> QED
  BY <1>1, InitInv, PTL DEF Spec

\* A skill that a promotion put into the shared scope holds an approved text
\* (promote.go:37-39).
THEOREM SharedApproved == Spec => []SharedTextApproved
<1>1. Inv => SharedTextApproved
  <2> SUFFICES ASSUME Inv, NEW n \in Names
               PROVE  ApprovalFitsText(store[<<Project, n>>])
    BY DEF SharedTextApproved, ApprovalFitsText
  <2> QED
    BY KeyFacts DEF Inv, CopiesFit, Fits
<1> QED
  BY <1>1, Invariance, PTL

\* An original that says it is promoted is linked, and its text was shared
\* (promote.go:84-94).
THEOREM MarkedShared == Spec => []MarkedTextWasShared
<1>1. Inv => MarkedTextWasShared
  BY KeyFacts DEF Inv, CopiesFit, Fits, MarkFitsText, MarkedTextWasShared
<1> QED
  BY <1>1, Invariance, PTL

\* A revoked skill is neither approved nor shared again without a new approval or a
\* copy read before (skills.go:203-205).
THEOREM RevocationLasts == Spec => []RevocationHolds
<1>1. Inv => RevocationHolds
  <2> SUFFICES ASSUME Inv PROVE RevocationHolds
    OBVIOUS
  <2>1. \A k \in revoked : ~store[k].approved /\ ~pass[k[1]].snap[k[2]].approved
    BY DEF Inv, NoApprovalLeft, ApprovalAround
  <2>2. ASSUME NEW a \in Agents, Running(a, "copy"), <<a, pass[a].name>> \in revoked
        PROVE  Copy(a).kind # "skill"
    <3> DEFINE node == pass[a].snap[pass[a].name]
    <3>1. node \in Node /\ Eligible(node)
      BY <2>2, SharingFacts, TypeParts DEF Running, Inv
    <3>2. ~node.approved
      BY <2>1, <2>2
    <3>3. node.kind # "skill"
      BY <3>1, <3>2 DEF Eligible, MayBeShared
    <3> QED
      BY <3>1, <3>3, CopyFacts DEF Copy
  <2> QED
    BY <2>1, <2>2 DEF RevocationHolds
<1> QED
  BY <1>1, Invariance, PTL

\* When a pass has been through its nodes, whatever it could write and nobody else
\* wrote is marked, or its shared key was taken (promote.go:97-123).
THEOREM Completeness == Spec => []PromoteIsComplete
<1>1. Inv => PromoteIsComplete
  <2> SUFFICES ASSUME Inv, NEW a \in Agents, Running(a, "next"), pass[a].todo = {},
                      NEW n \in clean[a]
               PROVE  ~Eligible(store[<<a, n>>])
    BY DEF PromoteIsComplete
  <2>1. n # None
    BY RootAssumption DEF Inv, TypeOK
  <2>2. pass[a].name = None
    BY DEF Inv, PassInOrder, Running
  <2> QED
    BY <2>1, <2>2 DEF Inv, DealtWith, Running
<1> QED
  BY <1>1, Invariance, PTL

\* A promotion that knows its check to have worked, and to be up to date, writes over
\* no unrelated shared node (promote.go:62-83).
THEOREM CuratedIsKept == Spec => CuratedKept
<1>1. Inv => \A a \in Agents : CopyShared(a) /\ store' # store /\ a \notin excused =>
               ~Unrelated(store[<<Project, pass[a].name>>])
  BY DEF Inv, CheckStillHolds, CopyShared
<1> QED
  BY <1>1, Invariance, PTL DEF CuratedKept
=============================================================================
