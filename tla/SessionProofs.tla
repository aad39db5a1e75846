---------------------------- MODULE SessionProofs ----------------------------
(* Proofs about module Session, for every number of goroutines, projects, names,  *)
(* calls and lives, and every length of the transcript and of the queue: the      *)
(* inductive invariant, and with it all the properties of the module.            *)
EXTENDS Session, TLAPS

-----------------------------------------------------------------------------
(* Facts about sequences. *)

\* The first turns of a transcript.
LEMMA FirstFacts ==
  ASSUME NEW S, NEW seq \in Seq(S), NEW n \in Nat
  PROVE  /\ FirstOf(seq, n) \in Seq(S) /\ Len(FirstOf(seq, n)) <= n
         /\ Len(FirstOf(seq, n)) = IF n < Len(seq) THEN n ELSE Len(seq)
         /\ \A i \in DOMAIN FirstOf(seq, n) : i \in DOMAIN seq /\ FirstOf(seq, n)[i] = seq[i]
<1>1. Shorter(n, Len(seq)) \in 0..Len(seq)
  BY DEF Shorter
<1> DEFINE m == Shorter(n, Len(seq))
<1>2. /\ SubSeq(seq, 1, m) \in Seq(S) /\ Len(SubSeq(seq, 1, m)) = m
      /\ \A i \in 1..m : SubSeq(seq, 1, m)[i] = seq[i]
  BY <1>1
<1>3. m <= n /\ m = IF n < Len(seq) THEN n ELSE Len(seq)
  BY DEF Shorter
<1> HIDE DEF m
<1> QED
  BY <1>1, <1>2, <1>3 DEF FirstOf, m

\* A queue behind another.
LEMMA JoinFacts ==
  ASSUME NEW S, NEW a \in Seq(S), NEW b \in Seq(S)
  PROVE  /\ a \o b \in Seq(S) /\ Len(a \o b) = Len(a) + Len(b)
         /\ \A i \in 1..Len(a) : (a \o b)[i] = a[i]
         /\ \A i \in Len(a) + 1 .. Len(a) + Len(b) : (a \o b)[i] = b[i - Len(a)]
  OBVIOUS

\* A turn in front of others.
LEMMA InFront ==
  ASSUME NEW S, NEW t \in S, NEW seq \in Seq(S)
  PROVE  LET all == <<t>> \o seq
         IN /\ all \in Seq(S) /\ Len(all) = Len(seq) + 1 /\ all[1] = t
            /\ \A i \in 2..Len(seq) + 1 : all[i] = seq[i - 1]
  OBVIOUS

\* The body Observe writes: its turn, then the first of the turns it has read.
LEMMA BodyFacts ==
  ASSUME NEW t \in Turns, NEW prev \in Seq(Turns)
  PROVE  LET body == NewBody(t, prev)
         IN /\ body \in Seq(Turns) /\ body[1] = t /\ Len(body) <= MaxTurns
            /\ Len(body) = 1 + IF MaxTurns - 1 < Len(prev) THEN MaxTurns - 1 ELSE Len(prev)
            /\ \A i \in DOMAIN body : \/ i = 1
                                      \/ i - 1 \in DOMAIN prev /\ body[i] = prev[i - 1]
<1> DEFINE kept == FirstOf(prev, MaxTurns - 1)
<1>1. MaxTurns - 1 \in Nat /\ MaxTurns \in Nat
  BY SessionLimits
<1>2. /\ kept \in Seq(Turns) /\ Len(kept) <= MaxTurns - 1
      /\ Len(kept) = IF MaxTurns - 1 < Len(prev) THEN MaxTurns - 1 ELSE Len(prev)
      /\ \A i \in DOMAIN kept : i \in DOMAIN prev /\ kept[i] = prev[i]
  BY <1>1, FirstFacts
<1> HIDE DEF kept
<1> DEFINE body == <<t>> \o kept
<1>3. /\ body \in Seq(Turns) /\ Len(body) = Len(kept) + 1 /\ body[1] = t
      /\ \A i \in 2..Len(kept) + 1 : body[i] = kept[i - 1]
  BY <1>2, InFront
<1> HIDE DEF body
<1>4. /\ Len(kept) \in Nat /\ DOMAIN kept = 1..Len(kept) /\ DOMAIN body = 1..Len(kept) + 1
  BY <1>2, <1>3
<1>5. \A i \in DOMAIN body : i = 1 \/ (i - 1 \in DOMAIN kept /\ body[i] = kept[i - 1])
  BY <1>3, <1>4
<1>6. \A i \in DOMAIN body : i = 1 \/ (i - 1 \in DOMAIN prev /\ body[i] = prev[i - 1])
  BY <1>2, <1>5
<1>7. /\ Len(body) <= MaxTurns
      /\ Len(body) = 1 + IF MaxTurns - 1 < Len(prev) THEN MaxTurns - 1 ELSE Len(prev)
  BY <1>1, <1>2, <1>3, <1>4
<1>8. body = NewBody(t, prev)
  BY DEF body, kept, NewBody, CapLines
<1> QED
  BY <1>3, <1>6, <1>7, <1>8

-----------------------------------------------------------------------------
(* Types. *)

Observation == [pc : {"record", "stamp", "raw"}, turn : Turns, prev : Seq(Turns),
                epoch : 0..MaxBoots, seq : Nat]
Using == [proj : [Names -> SkillKeys \cup {None}], held : Held \cup {None},
          read : Projection \cup {None}]

TranscriptType == /\ transcript \in Seq(Turns) /\ recorded \in Seq(Turns) /\ calm \in Nat
                  /\ turns \in 0..MaxCalls
CallType == calls \in 0..MaxCalls
ObserveType == observing \in [Procs -> {None} \cup Observation]
RawType == /\ rawEpoch \in 0..MaxBoots /\ rawSeq \in Nat
           /\ archive \subseteq [key : (1..MaxBoots) \X Nat, turn : Turns]
           /\ archived \subseteq Turns
BootType == boots \in 1..MaxBoots
SkillType == /\ skills \in [SkillKeys -> {"none", "active", "aside"}]
             /\ projecting \in Projection \cup {None} /\ disk \in Projection \cup {None}
             /\ projected \in [Names -> SkillKeys \cup {None}]
             /\ using \in Using \cup {None}
ScopeType == scope \in Projects
HitType == pending \in Seq(Nat) /\ queued \in Nat /\ delivered \in Nat

\* TypeOK in parts, before and after a step.
LEMMA TypeParts ==
  /\ TypeOK <=> /\ TranscriptType /\ CallType /\ ObserveType /\ RawType /\ BootType
                /\ SkillType /\ ScopeType /\ HitType
  /\ TypeOK' <=> /\ TranscriptType' /\ CallType' /\ ObserveType' /\ RawType' /\ BootType'
                 /\ SkillType' /\ ScopeType' /\ HitType'
BY DEF TypeOK, TranscriptType, CallType, ObserveType, RawType, BootType, SkillType,
       ScopeType, HitType, Observation, Using

\* A step leaves what it does not touch as it was typed.
LEMMA Untouched ==
  /\ TranscriptType /\ UNCHANGED transcriptVars => TranscriptType'
  /\ CallType /\ UNCHANGED calls => CallType'
  /\ ObserveType /\ UNCHANGED observing => ObserveType'
  /\ RawType /\ UNCHANGED rawVars => RawType'
  /\ BootType /\ UNCHANGED boots => BootType'
  /\ SkillType /\ UNCHANGED skillVars => SkillType'
  /\ ScopeType /\ UNCHANGED scope => ScopeType'
  /\ HitType /\ UNCHANGED hitVars => HitType'
BY DEF TranscriptType, CallType, ObserveType, RawType, BootType, SkillType, ScopeType,
       HitType, transcriptVars, rawVars, skillVars, hitVars

\* One more call.
LEMMA CallFacts == CallType /\ Call => CallType' /\ calls' = calls + 1
                                       /\ calls \in Nat /\ calls + 1 \in 1..MaxCalls
BY SessionBounds DEF CallType, Call

\* What the projection is built from, and what it holds.
LEMMA ProjectionFacts ==
  ASSUME NEW read \in Projection
  PROVE  DedupeSkills(read) \in [Names -> SkillKeys \cup {None}]
BY DEF Projection, DedupeSkills, SkillKeys

\* Every step keeps the types.
LEMMA TypeStep == TypeOK /\ CopiesInOrder /\ RawKeysApart /\ [Next]_vars => TypeOK'
<1> SUFFICES ASSUME TypeOK, CopiesInOrder, RawKeysApart, [Next]_vars PROVE TypeOK'
  OBVIOUS
<1>0. /\ TranscriptType /\ CallType /\ ObserveType /\ RawType /\ BootType
      /\ SkillType /\ ScopeType /\ HitType
  BY TypeParts
<1>1. ASSUME NEW p \in Procs, ObserveRecall(p) PROVE TypeOK'
  <2>1. CallType' /\ calls \in Nat /\ calls + 1 \in 1..MaxCalls
    BY <1>0, <1>1, CallFacts DEF ObserveRecall
  <2>2. turns \in Nat /\ turns + 1 \in Turns /\ turns' \in 0..MaxCalls
    BY <1>0, <1>1, <2>1, SessionBounds
       DEF ObserveRecall, TranscriptType, CopiesInOrder, Turns
  <2>3. PICK prev \in {transcript, <<>>} :
          observing' = [observing EXCEPT ![p] =
                          [pc |-> "record", turn |-> turns + 1, prev |-> prev,
                           epoch |-> 0, seq |-> 0]]
    BY <1>1 DEF ObserveRecall
  <2> DEFINE o == [pc |-> "record", turn |-> turns + 1, prev |-> prev,
                   epoch |-> 0, seq |-> 0]
  <2>4. o \in Observation
    <3>1. prev \in Seq(Turns)
      <4>1. <<>> \in Seq(Turns) /\ transcript \in Seq(Turns)
        BY <1>0 DEF TranscriptType
      <4>2. prev = transcript \/ prev = <<>>
        BY <2>3
      <4> QED
        BY <4>1, <4>2
    <3>2. 0 \in 0..MaxBoots
      BY SessionLimits
    <3> QED
      BY <2>2, <3>1, <3>2 DEF Observation
  <2>5. observing' = [observing EXCEPT ![p] = o]
    BY <2>3
  <2> HIDE DEF o
  <2>6. ObserveType'
    BY <1>0, <2>4, <2>5 DEF ObserveType
  <2>7. TranscriptType'
    BY <1>0, <1>1, <2>2 DEF ObserveRecall, TranscriptType
  <2> QED
    BY <1>0, <1>1, <2>1, <2>6, <2>7, Untouched, TypeParts DEF ObserveRecall
<1>2. ASSUME NEW p \in Procs, ObserveRecord(p) PROVE TypeOK'
  <2>1. observing[p] \in Observation
    BY <1>0, <1>2 DEF ObserveRecord, ObserveType
  <2>2. observing[p].turn \in Turns /\ observing[p].prev \in Seq(Turns)
    BY <2>1 DEF Observation
  <2>3. NewBody(observing[p].turn, observing[p].prev) \in Seq(Turns)
    BY <2>2, BodyFacts
  <2>4. <<observing[p].turn>> \o recorded \in Seq(Turns)
    BY <1>0, <2>2, InFront DEF TranscriptType
  <2>5. TranscriptType'
    <3> DEFINE o == observing[p]
    <3>1. /\ transcript' = NewBody(o.turn, o.prev) \/ transcript' = transcript
          /\ recorded' = <<o.turn>> \o recorded \/ recorded' = recorded
          /\ turns' = turns
      BY <1>2 DEF ObserveRecord
    <3>2. calm' \in {calm, calm + 1, 1}
      BY <1>2 DEF ObserveRecord
    <3>3. transcript' \in Seq(Turns) /\ recorded' \in Seq(Turns)
      BY <1>0, <2>3, <2>4, <3>1, Zenon DEF TranscriptType
    <3>4. calm' \in Nat
      BY <1>0, <3>2 DEF TranscriptType
    <3> QED
      BY <1>0, <3>1, <3>3, <3>4 DEF TranscriptType
  <2>6. ObserveType'
    BY <1>0, <1>2, <2>1 DEF ObserveRecord, ObserveType, Observation
  <2> QED
    BY <1>0, <1>2, <2>5, <2>6, Untouched, TypeParts DEF ObserveRecord
<1>3. ASSUME NEW p \in Procs, ObserveStamp(p) PROVE TypeOK'
  <2>1. observing[p] \in Observation
    BY <1>0, <1>3 DEF ObserveStamp, ObserveType
  <2>2. Epoch \in 0..MaxBoots /\ rawSeq + 1 \in Nat
    BY <1>0, SessionLimits DEF Epoch, RawType, BootType
  <2>3. RawType'
    BY <1>0, <1>3, <2>2 DEF ObserveStamp, RawType
  <2>4. observing' = [observing EXCEPT ![p] =
                        [observing[p] EXCEPT !.pc = "raw", !.epoch = Epoch,
                                             !.seq = rawSeq + 1]]
    BY <1>0, <1>3 DEF ObserveStamp, ObserveType
  <2>5. [observing[p] EXCEPT !.pc = "raw", !.epoch = Epoch, !.seq = rawSeq + 1]
          \in Observation
    BY <2>1, <2>2 DEF Observation
  <2>6. ObserveType'
    BY <1>0, <2>4, <2>5 DEF ObserveType
  <2> QED
    BY <1>0, <1>3, <2>3, <2>6, Untouched, TypeParts DEF ObserveStamp
<1>4. ASSUME NEW p \in Procs, RecordRaw(p) PROVE TypeOK'
  <2>1. observing[p] \in Observation
    BY <1>0, <1>4 DEF RecordRaw, ObserveType
  <2>2. observing[p].epoch = boots
    BY <1>4 DEF RecordRaw, RawKeysApart, Observing
  <2> DEFINE entry == [key |-> RawKey(observing[p]), turn |-> observing[p].turn]
  <2>3. entry \in [key : (1..MaxBoots) \X Nat, turn : Turns]
    BY <1>0, <2>1, <2>2 DEF RawKey, BootType, Observation
  <2>4. observing[p].turn \in Turns
    BY <2>1 DEF Observation
  <2>5. /\ archive' \subseteq archive \cup {entry}
        /\ archived' \subseteq archived \cup {observing[p].turn}
        /\ UNCHANGED <<rawEpoch, rawSeq>>
    BY <1>4 DEF RecordRaw
  <2> HIDE DEF entry
  <2>6. RawType'
    BY <1>0, <2>3, <2>4, <2>5 DEF RawType
  <2>7. ObserveType'
    BY <1>0, <1>4 DEF RecordRaw, ObserveType
  <2> QED
    BY <1>0, <1>4, <2>6, <2>7, Untouched, TypeParts DEF RecordRaw
<1>5. CASE Recall
  <2>1. CallType'
    BY <1>0, <1>5, CallFacts DEF Recall
  <2>2. HitType'
    <3>1. CASE Len(pending) >= MaxPending
      BY <1>0, <1>5, <3>1 DEF Recall, HitType
    <3>2. CASE ~(Len(pending) >= MaxPending)
      <4>1. PICK found \in 0..RecallK :
              /\ pending' = pending \o [i \in 1..HitsThatFit(found) |-> queued + i]
              /\ queued' = queued + HitsThatFit(found)
        BY <1>5, <3>2 DEF Recall
      <4>2. HitsThatFit(found) \in Nat
        BY <1>0, <3>2, SessionLimits DEF HitsThatFit, Shorter, HitType
      <4>3. [i \in 1..HitsThatFit(found) |-> queued + i] \in Seq(Nat)
        BY <1>0, <4>2 DEF HitType
      <4> QED
        BY <1>0, <1>5, <4>1, <4>2, <4>3 DEF Recall, HitType
    <3> QED
      BY <3>1, <3>2
  <2> QED
    BY <1>0, <1>5, <2>1, <2>2, Untouched, TypeParts DEF Recall
<1>6. CASE Context
  <2>1. HitType'
    BY <1>0, <1>6 DEF Context, HitType, Emptied
  <2> QED
    BY <1>0, <1>6, <2>1, Untouched, TypeParts DEF Context
<1>7. ASSUME NEW s \in Projects, SetScope(s) PROVE TypeOK'
  <2>1. CallType' /\ ScopeType'
    BY <1>0, <1>7, CallFacts DEF SetScope, ScopeType
  <2> QED
    BY <1>0, <1>7, <2>1, Untouched, TypeParts DEF SetScope
<1>8. ASSUME NEW k \in SkillKeys, NEW state \in {"active", "aside"}, ChangeSkill(k, state)
      PROVE TypeOK'
  <2>1. CallType'
    BY <1>0, <1>8, CallFacts DEF ChangeSkill
  <2>2. SkillType'
    BY <1>0, <1>8 DEF ChangeSkill, SkillType
  <2> QED
    BY <1>0, <1>8, <2>1, <2>2, Untouched, TypeParts DEF ChangeSkill
<1>9. CASE LearnRecall
  <2>1. CallType'
    BY <1>0, <1>9, CallFacts DEF LearnRecall
  <2>2. projecting' \in Projection
    BY <1>0, <1>9 DEF LearnRecall, SkillType, ScopeType, Projection
  <2>3. SkillType'
    BY <1>0, <1>9, <2>2 DEF LearnRecall, SkillType
  <2> QED
    BY <1>0, <1>9, <2>1, <2>3, Untouched, TypeParts DEF LearnRecall
<1>10. CASE LearnProject
  <2>1. projecting \in Projection
    BY <1>0, <1>10 DEF LearnProject, SkillType
  <2>2. SkillType'
    BY <1>0, <1>10, <2>1, ProjectionFacts DEF LearnProject, SkillType
  <2> QED
    BY <1>0, <1>10, <2>2, Untouched, TypeParts DEF LearnProject
<1>11. CASE UseSnapshot
  <2>1. CallType'
    BY <1>0, <1>11, CallFacts DEF UseSnapshot
  <2>2. [proj |-> projected, held |-> None, read |-> disk] \in Using
    BY <1>0 DEF SkillType, Using
  <2>3. using' = [proj |-> projected, held |-> None, read |-> disk]
    BY <1>11 DEF UseSnapshot
  <2>4. SkillType'
    BY <1>0, <1>11, <2>2, <2>3 DEF UseSnapshot, SkillType
  <2> QED
    BY <1>0, <1>11, <2>1, <2>4, Untouched, TypeParts DEF UseSnapshot
<1>12. ASSUME NEW n \in Names, UseRecall(n) PROVE TypeOK'
  <2>1. using \in Using
    BY <1>0, <1>12 DEF UseRecall, SkillType
  <2>2. KeyOf(n) \in SkillKeys
    BY <1>12, <2>1 DEF UseRecall, KeyOf, Using
  <2>3. skills[KeyOf(n)] \in {"active", "aside"}
    BY <1>0, <1>12, <2>2 DEF UseRecall, SkillType
  <2>4. [key |-> KeyOf(n), state |-> skills[KeyOf(n)]] \in Held
    BY <2>2, <2>3 DEF Held
  <2>5. using' \in Using
    BY <1>12, <2>1, <2>4 DEF UseRecall, Using
  <2>6. SkillType'
    BY <1>0, <1>12, <2>5 DEF UseRecall, SkillType
  <2> QED
    BY <1>0, <1>12, <2>6, Untouched, TypeParts DEF UseRecall
<1>13. CASE UseRecord
  <2>1. using \in Using
    BY <1>0, <1>13 DEF UseRecord, SkillType
  <2>2. using.held.key \in SkillKeys /\ using.held.state \in {"none", "active", "aside"}
    BY <1>13, <2>1 DEF UseRecord, Using, Held
  <2>3. using' \in Using
    BY <1>13, <2>1 DEF UseRecord, Using
  <2>4. skills' \in [SkillKeys -> {"none", "active", "aside"}]
    BY <1>0, <1>13, <2>2 DEF UseRecord, SkillType
  <2>5. SkillType'
    BY <1>0, <1>13, <2>3, <2>4 DEF UseRecord, SkillType
  <2> QED
    BY <1>0, <1>13, <2>5, Untouched, TypeParts DEF UseRecord
<1>14. CASE UseEnd
  <2>1. SkillType'
    BY <1>0, <1>14 DEF UseEnd, SkillType
  <2> QED
    BY <1>0, <1>14, <2>1, Untouched, TypeParts DEF UseEnd
<1>15. CASE Restart
  <2>1. BootType' /\ ObserveType'
    BY <1>0, <1>15, SessionLimits DEF Restart, BootType, ObserveType
  <2>2. RawType'
    BY <1>0, <1>15, SessionLimits DEF Restart, RawType
  <2>3. SkillType' /\ HitType'
    BY <1>0, <1>15 DEF Restart, SkillType, HitType, NothingProjected
  <2> QED
    BY <1>0, <1>15, <2>1, <2>2, <2>3, Untouched, TypeParts DEF Restart
<1>16. CASE UNCHANGED vars
  BY <1>0, <1>16, Untouched, TypeParts DEF vars
<1> QED
  BY <1>1, <1>2, <1>3, <1>4, <1>5, <1>6, <1>7, <1>8, <1>9, <1>10, <1>11, <1>12, <1>13,
     <1>14, <1>15, <1>16 DEF Next, Observe, HostCall

-----------------------------------------------------------------------------
(* The transcript is in order. *)

\* A newer turn in front of turns in order, however few of them are kept.
LEMMA BodyInOrder ==
  ASSUME NEW t \in Turns, NEW prev \in Seq(Turns), NewestFirst(prev),
         \A u \in ToSet(prev) : u < t
  PROVE  /\ NewestFirst(NewBody(t, prev))
         /\ \A u \in ToSet(NewBody(t, prev)) : u <= t
<1> DEFINE body == NewBody(t, prev)
<1>1. /\ body \in Seq(Turns) /\ body[1] = t
      /\ \A i \in DOMAIN body : i = 1 \/ (i - 1 \in DOMAIN prev /\ body[i] = prev[i - 1])
  BY BodyFacts
<1> HIDE DEF body
<1>2. /\ DOMAIN body = 1..Len(body) /\ Len(body) \in Nat
      /\ DOMAIN prev = 1..Len(prev) /\ Len(prev) \in Nat /\ t \in Nat
      /\ \A i \in DOMAIN prev : prev[i] \in Nat /\ prev[i] < t
  BY <1>1, SessionBounds DEF Turns, ToSet
<1>3. \A i \in DOMAIN body : body[i] <= t /\ (i # 1 => body[i] < t)
  BY <1>1, <1>2
<1>4. NewestFirst(body)
  <2> SUFFICES ASSUME NEW i \in DOMAIN body, NEW j \in DOMAIN body, i < j
               PROVE  body[i] > body[j]
    BY DEF NewestFirst
  <2>1. j # 1 /\ j - 1 \in DOMAIN prev /\ body[j] = prev[j - 1]
    BY <1>1, <1>2
  <2>2. CASE i = 1
    BY <1>1, <1>2, <2>1, <2>2
  <2>3. CASE i # 1
    <3>1. i - 1 \in DOMAIN prev /\ body[i] = prev[i - 1] /\ i - 1 < j - 1
      BY <1>1, <1>2, <2>3
    <3> QED
      BY <2>1, <3>1 DEF NewestFirst
  <2> QED
    BY <2>2, <2>3
<1>5. \A u \in ToSet(body) : u <= t
  BY <1>3 DEF ToSet
<1> QED
  BY <1>4, <1>5 DEF body

\* Steps that write no transcript and begin no turn.
LEMMA CopiesStay ==
  ASSUME TranscriptInOrder, CopiesInOrder, CallType, TranscriptType,
         UNCHANGED <<transcript, turns>>, calls' \in {calls, calls + 1},
         \A q \in Procs : observing'[q] # None =>
           /\ observing[q] # None /\ observing'[q].turn = observing[q].turn
           /\ observing'[q].pc = "record" =>
                observing[q].pc = "record" /\ observing'[q].prev = observing[q].prev
  PROVE  TranscriptInOrder' /\ CopiesInOrder'
<1>1. turns' <= calls'
  BY SessionBounds DEF CopiesInOrder, CallType, TranscriptType
<1> QED
  BY <1>1 DEF TranscriptInOrder, CopiesInOrder, Observing

\* Every step keeps the transcript, and the copies that will be written, in order.
LEMMA OrderStep == TypeOK /\ TranscriptInOrder /\ CopiesInOrder /\ [Next]_vars
                     => TranscriptInOrder' /\ CopiesInOrder'
<1> SUFFICES ASSUME TypeOK, TranscriptInOrder, CopiesInOrder, [Next]_vars
             PROVE  TranscriptInOrder' /\ CopiesInOrder'
  OBVIOUS
<1>0. TranscriptType /\ CallType /\ ObserveType
  BY TypeParts
<1>1. ASSUME NEW p \in Procs, ObserveRecall(p) PROVE TranscriptInOrder' /\ CopiesInOrder'
  <2>1. calls' = calls + 1 /\ calls \in Nat /\ turns' = turns + 1 /\ turns \in Nat
        /\ transcript' = transcript
    BY <1>0, <1>1, CallFacts, SessionBounds DEF ObserveRecall, TranscriptType
  <2>2. PICK prev \in {transcript, <<>>} :
          observing' = [observing EXCEPT ![p] =
                          [pc |-> "record", turn |-> turns + 1, prev |-> prev,
                           epoch |-> 0, seq |-> 0]]
    BY <1>1 DEF ObserveRecall
  <2>3. ToSet(transcript) \subseteq Turns
    BY <1>0 DEF TranscriptType, ToSet
  <2>4. NewestFirst(prev) /\ ToSet(prev) \subseteq ToSet(transcript)
    BY <2>2 DEF TranscriptInOrder, NewestFirst, ToSet
  <2>5. \A t \in ToSet(transcript) : t \in Nat /\ t <= turns
    BY <2>3, SessionBounds DEF CopiesInOrder, Turns
  <2>6. \A t \in ToSet(prev) : t < turns + 1
    BY <2>1, <2>4, <2>5
  <2>7. /\ observing'[p].pc = "record" /\ observing'[p].turn = turns + 1
        /\ observing'[p].prev = prev
    BY <1>0, <2>2 DEF ObserveType
  <2>8. \A q \in Procs \ {p} : observing'[q] = observing[q]
    BY <1>0, <2>2 DEF ObserveType
  <2>9. \A q \in Procs : observing'[q] # None => observing'[q].turn <= turns'
    <3> SUFFICES ASSUME NEW q \in Procs, observing'[q] # None
                 PROVE  observing'[q].turn <= turns'
      OBVIOUS
    <3>1. CASE q = p
      BY <2>1, <2>7, <3>1
    <3>2. CASE q # p
      <4>1. observing[q] # None /\ observing'[q].turn = observing[q].turn
        BY <2>8, <3>2
      <4>2. observing[q].turn \in Nat /\ observing[q].turn <= turns
        BY <1>0, <4>1, SessionBounds DEF ObserveType, Observation, Turns, CopiesInOrder
      <4> QED
        BY <2>1, <4>1, <4>2
    <3> QED
      BY <3>1, <3>2
  <2>10. \A q \in Procs : observing'[q] # None /\ observing'[q].pc = "record" =>
           /\ NewestFirst(observing'[q].prev)
           /\ \A t \in ToSet(observing'[q].prev) : t < observing'[q].turn
    <3> SUFFICES ASSUME NEW q \in Procs, observing'[q] # None, observing'[q].pc = "record"
                 PROVE  /\ NewestFirst(observing'[q].prev)
                        /\ \A t \in ToSet(observing'[q].prev) : t < observing'[q].turn
      OBVIOUS
    <3>1. CASE q = p
      BY <2>4, <2>6, <2>7, <3>1
    <3>2. CASE q # p
      BY <2>8, <3>2 DEF CopiesInOrder, Observing
    <3> QED
      BY <3>1, <3>2
  <2>11. turns' <= calls' /\ \A t \in ToSet(transcript') : t <= turns'
    BY <2>1, <2>5 DEF CopiesInOrder
  <2>12. TranscriptInOrder'
    BY <2>1 DEF TranscriptInOrder
  <2> QED
    BY <2>9, <2>10, <2>11, <2>12 DEF CopiesInOrder, Observing
<1>2. ASSUME NEW p \in Procs, ObserveRecord(p) PROVE TranscriptInOrder' /\ CopiesInOrder'
  <2> DEFINE o == observing[p]
  <2>1. o \in Observation /\ o.pc = "record"
    BY <1>0, <1>2 DEF ObserveRecord, ObserveType
  <2>2. /\ o.turn \in Turns /\ o.prev \in Seq(Turns) /\ NewestFirst(o.prev)
        /\ \A t \in ToSet(o.prev) : t < o.turn
        /\ o.turn <= turns
    BY <1>2, <2>1 DEF ObserveRecord, CopiesInOrder, Observing, Observation
  <2> DEFINE body == NewBody(o.turn, o.prev)
  <2>3. NewestFirst(body) /\ Len(body) <= MaxTurns /\ ToSet(body) \subseteq Turns
    <3>1. body \in Seq(Turns) /\ Len(body) <= MaxTurns
      BY <2>2, BodyFacts
    <3>2. NewestFirst(body)
      BY <2>2, BodyInOrder
    <3> HIDE DEF body
    <3> QED
      BY <3>1, <3>2 DEF ToSet
  <2>4. \A t \in ToSet(body) : t <= o.turn
    BY <2>2, BodyInOrder
  <2>5. \A t \in ToSet(body) : t <= turns
    <3>1. o.turn \in Nat /\ turns \in Nat /\ \A t \in ToSet(body) : t \in Nat
      BY <1>0, <2>2, <2>3, SessionBounds DEF Turns, TranscriptType
    <3> QED
      BY <2>2, <2>4, <3>1
  <2>6. /\ transcript' = body \/ transcript' = transcript
        /\ UNCHANGED <<turns, calls>>
    BY <1>2 DEF ObserveRecord
  <2> HIDE DEF body
  <2>7. TranscriptInOrder' /\ \A t \in ToSet(transcript') : t <= turns'
    BY <2>3, <2>5, <2>6 DEF TranscriptInOrder, CopiesInOrder
  <2>8. /\ observing'[p].turn = o.turn /\ observing'[p].pc = "stamp"
        /\ \A q \in Procs \ {p} : observing'[q] = observing[q]
    BY <1>0, <1>2, <2>1 DEF ObserveRecord, ObserveType, Observation
  <2>9. \A q \in Procs : observing'[q] # None => observing'[q].turn <= turns'
    BY <2>2, <2>6, <2>8 DEF CopiesInOrder
  <2>10. \A q \in Procs : observing'[q] # None /\ observing'[q].pc = "record" =>
           /\ NewestFirst(observing'[q].prev)
           /\ \A t \in ToSet(observing'[q].prev) : t < observing'[q].turn
    BY <2>8 DEF CopiesInOrder, Observing
  <2> QED
    BY <2>6, <2>7, <2>9, <2>10 DEF CopiesInOrder, Observing
<1>3. ASSUME NEW p \in Procs, ObserveStamp(p) PROVE TranscriptInOrder' /\ CopiesInOrder'
  <2>1. /\ observing[p] # None /\ observing'[p].turn = observing[p].turn
        /\ observing'[p].pc = "raw"
        /\ \A q \in Procs \ {p} : observing'[q] = observing[q]
    BY <1>0, <1>3 DEF ObserveStamp, ObserveType, Observation
  <2> QED
    BY <1>0, <1>3, <2>1, CopiesStay DEF ObserveStamp, transcriptVars
<1>4. ASSUME NEW p \in Procs, RecordRaw(p) PROVE TranscriptInOrder' /\ CopiesInOrder'
  <2>1. observing'[p] = None /\ \A q \in Procs \ {p} : observing'[q] = observing[q]
    BY <1>0, <1>4 DEF RecordRaw, ObserveType
  <2> QED
    BY <1>0, <1>4, <2>1, CopiesStay DEF RecordRaw, transcriptVars
<1>5. CASE Restart
  <2>1. \A q \in Procs : observing'[q] = None
    BY <1>5 DEF Restart
  <2> QED
    BY <1>0, <1>5, <2>1, CopiesStay DEF Restart, transcriptVars
<1>6. CASE UNCHANGED <<transcript, turns, observing>> /\ calls' \in {calls, calls + 1}
  BY <1>0, <1>6, CopiesStay
<1>7. CASE HostCall \/ \E k \in SkillKeys, state \in {"active", "aside"} :
                          ChangeSkill(k, state)
  <2>1. UNCHANGED <<transcript, turns, observing>> /\ calls' \in {calls, calls + 1}
    BY <1>7 DEF HostCall, Recall, Context, LearnRecall, LearnProject, UseSnapshot,
                UseRecall, UseRecord, UseEnd,
                SetScope, ChangeSkill, Call, transcriptVars
  <2> QED
    BY <1>6, <2>1
<1>8. CASE UNCHANGED vars
  BY <1>6, <1>8 DEF vars, transcriptVars
<1> QED
  BY <1>1, <1>2, <1>3, <1>4, <1>5, <1>7, <1>8 DEF Next, Observe

-----------------------------------------------------------------------------
(* The transcript heals. *)

\* TranscriptHeals turn by turn: the first n of the transcript are those recorded.
Agree(n) == /\ n <= Len(transcript) /\ n <= Len(recorded)
            /\ \A i \in 1..n : transcript[i] = recorded[i]

\* Two sequences begin alike exactly if they agree turn by turn.
LEMMA AlikeFacts ==
  ASSUME NEW a \in Seq(Turns), NEW b \in Seq(Turns), NEW n \in Nat
  PROVE  (Len(a) >= n /\ FirstOf(a, n) = FirstOf(b, n))
           <=> (n <= Len(a) /\ n <= Len(b) /\ \A i \in 1..n : a[i] = b[i])
<1> DEFINE x == FirstOf(a, n)  y == FirstOf(b, n)
<1>1. /\ x \in Seq(Turns) /\ Len(x) = (IF n < Len(a) THEN n ELSE Len(a))
      /\ \A i \in DOMAIN x : i \in DOMAIN a /\ x[i] = a[i]
  BY FirstFacts
<1>2. /\ y \in Seq(Turns) /\ Len(y) = (IF n < Len(b) THEN n ELSE Len(b))
      /\ \A i \in DOMAIN y : i \in DOMAIN b /\ y[i] = b[i]
  BY FirstFacts
<1> HIDE DEF x, y
<1>3. /\ Len(a) \in Nat /\ Len(b) \in Nat
      /\ DOMAIN x = 1..Len(x) /\ DOMAIN y = 1..Len(y)
  BY <1>1, <1>2
<1>4. ASSUME Len(a) >= n, x = y PROVE n <= Len(b) /\ \A i \in 1..n : a[i] = b[i]
  BY <1>1, <1>2, <1>3, <1>4
<1>5. ASSUME n <= Len(a), n <= Len(b), \A i \in 1..n : a[i] = b[i] PROVE x = y
  <2>1. Len(x) = n /\ Len(y) = n
    BY <1>1, <1>2, <1>3, <1>5
  <2>2. \A i \in 1..n : x[i] = y[i]
    BY <1>1, <1>2, <1>3, <1>5, <2>1
  <2> QED
    BY <1>1, <1>2, <2>1, <2>2
<1>6. (Len(a) >= n /\ x = y) <=> (n <= Len(a) /\ n <= Len(b) /\ \A i \in 1..n : a[i] = b[i])
  BY <1>3, <1>4, <1>5
<1> QED
  BY <1>6 DEF x, y

\* A turn written in front of a transcript that agrees for n turns makes it agree for
\* one more, as far as it is long enough.
LEMMA WriteHeals ==
  ASSUME TranscriptType, NEW t \in Turns, NEW prev \in Seq(Turns), NEW n \in Nat,
         n <= MaxTurns - 1, n <= Len(prev), n <= Len(recorded),
         \A i \in 1..n : prev[i] = recorded[i],
         transcript' = NewBody(t, prev), recorded' = <<t>> \o recorded
  PROVE  /\ n + 1 <= Len(transcript') /\ n + 1 <= Len(recorded')
         /\ \A i \in 1..n + 1 : transcript'[i] = recorded'[i]
<1>1. /\ transcript' \in Seq(Turns) /\ transcript'[1] = t
      /\ Len(transcript') = 1 + IF MaxTurns - 1 < Len(prev) THEN MaxTurns - 1 ELSE Len(prev)
      /\ \A i \in DOMAIN transcript' :
           i = 1 \/ (i - 1 \in DOMAIN prev /\ transcript'[i] = prev[i - 1])
  BY BodyFacts
<1>2. /\ recorded' \in Seq(Turns) /\ Len(recorded') = Len(recorded) + 1 /\ recorded'[1] = t
      /\ \A i \in 2..Len(recorded) + 1 : recorded'[i] = recorded[i - 1]
  BY InFront DEF TranscriptType
<1>3. MaxTurns \in Nat /\ Len(prev) \in Nat /\ Len(recorded) \in Nat
  BY SessionLimits DEF TranscriptType
<1>4. n + 1 <= Len(transcript') /\ n + 1 <= Len(recorded')
      /\ DOMAIN transcript' = 1..Len(transcript')
  BY <1>1, <1>2, <1>3
<1>5. ASSUME NEW i \in 1..n + 1 PROVE transcript'[i] = recorded'[i]
  <2>1. CASE i = 1
    BY <1>1, <1>2, <2>1
  <2>2. CASE i # 1
    <3>1. i - 1 \in 1..n /\ i \in 2..Len(recorded) + 1 /\ i \in DOMAIN transcript'
      BY <1>1, <1>3, <1>4, <2>2
    <3> QED
      BY <1>1, <1>2, <2>2, <3>1
  <2> QED
    BY <2>1, <2>2
<1> QED
  BY <1>4, <1>5

\* Every step keeps the transcript healing.
LEMMA HealStep == TypeOK /\ TypeOK' /\ TranscriptHeals /\ [Next]_vars => TranscriptHeals'
<1> SUFFICES ASSUME TypeOK, TypeOK', TranscriptHeals, [Next]_vars PROVE TranscriptHeals'
  OBVIOUS
<1>0. /\ TranscriptType /\ TranscriptType' /\ ObserveType
      /\ MaxTurns \in Nat /\ MaxTurns >= 1
  BY TypeParts, SessionLimits
<1>1. CASE UNCHANGED <<transcript, recorded, calm>>
  BY <1>1 DEF TranscriptHeals
<1>2. ASSUME NEW p \in Procs, ObserveRecord(p), ~UNCHANGED <<transcript, recorded, calm>>
      PROVE  TranscriptHeals'
  <2> DEFINE o == observing[p]
             n == Shorter(calm, MaxTurns)
  <2>1. o.turn \in Turns /\ o.prev \in Seq(Turns)
    BY <1>0, <1>2 DEF ObserveRecord, ObserveType, Observation
  <2>2. /\ transcript' = NewBody(o.turn, o.prev) /\ recorded' = <<o.turn>> \o recorded
        /\ calm' = IF o.prev = transcript THEN calm + 1 ELSE 1
    BY <1>2 DEF ObserveRecord
  <2>3. n \in Nat /\ Shorter(calm', MaxTurns) \in Nat
    BY <1>0 DEF Shorter, TranscriptType
  <2>4. Agree(n)
    BY <1>0, <2>3, AlikeFacts DEF TranscriptHeals, TranscriptType, Agree
  <2>5. PICK m \in Nat : /\ Shorter(calm', MaxTurns) = m + 1
                         /\ m <= MaxTurns - 1 /\ m <= Len(o.prev) /\ m <= Len(recorded)
                         /\ \A i \in 1..m : o.prev[i] = recorded[i]
    <3>1. CASE o.prev = transcript
      <4>1. PICK m \in Nat : Shorter(calm', MaxTurns) = m + 1 /\ m <= n /\ m <= MaxTurns - 1
        <5>1. CASE calm < MaxTurns
          BY <1>0, <2>2, <3>1, <5>1 DEF Shorter, TranscriptType
        <5>2. CASE ~(calm < MaxTurns)
          BY <1>0, <2>2, <3>1, <5>2 DEF Shorter, TranscriptType
        <5> QED
          BY <5>1, <5>2
      <4>2. /\ m <= Len(transcript) /\ m <= Len(recorded)
            /\ \A i \in 1..m : transcript[i] = recorded[i]
        BY <1>0, <2>3, <2>4, <4>1 DEF Agree, TranscriptType
      <4> QED
        BY <3>1, <4>1, <4>2
    <3>2. CASE o.prev # transcript
      <4>1. Shorter(calm', MaxTurns) = 0 + 1
        BY <1>0, <2>2, <3>2 DEF Shorter
      <4>2. Len(o.prev) >= 0 /\ Len(recorded) >= 0
        BY <1>0, <2>1 DEF TranscriptType
      <4> QED
        BY <1>0, <4>1, <4>2
    <3> QED
      BY <3>1, <3>2
  <2>6. /\ m + 1 <= Len(transcript') /\ m + 1 <= Len(recorded')
        /\ \A i \in 1..m + 1 : transcript'[i] = recorded'[i]
    BY <1>0, <2>1, <2>2, <2>5, WriteHeals
  <2> QED
    BY <1>0, <2>5, <2>6, AlikeFacts DEF TranscriptHeals, TranscriptType
<1>3. CASE \E p \in Procs : Observe(p)
  BY <1>1, <1>2, <1>3
     DEF Observe, ObserveRecall, ObserveStamp, RecordRaw, transcriptVars
<1>4. CASE HostCall \/ Restart \/ \E k \in SkillKeys, state \in {"active", "aside"} :
                                     ChangeSkill(k, state)
  <2>1. UNCHANGED transcriptVars
    BY <1>4 DEF HostCall, Recall, Context, LearnRecall, LearnProject, UseSnapshot,
                UseRecall, UseRecord, UseEnd,
                SetScope, ChangeSkill, Restart
  <2> QED
    BY <1>1, <2>1 DEF transcriptVars
<1>5. CASE UNCHANGED vars
  BY <1>1, <1>5 DEF vars, transcriptVars
<1> QED
  BY <1>3, <1>4, <1>5 DEF Next

-----------------------------------------------------------------------------
(* Raw turns keep their keys. *)

RawInv == RawKeysApart /\ RawTurnsKept

\* Steps that leave the archive and the stamps alone, and bring no turn to its key.
LEMMA RawStays ==
  ASSUME RawInv, UNCHANGED rawVars, UNCHANGED boots,
         \A q \in Procs : observing'[q] # None /\ observing'[q].pc = "raw" =>
                            observing'[q] = observing[q]
  PROVE  RawInv'
BY DEF RawInv, RawKeysApart, RawTurnsKept, Observing, RawKey, rawVars

\* Every step keeps the raw keys apart and the recorded turns in the archive.
LEMMA RawStep == TypeOK /\ RawInv /\ [Next]_vars => RawInv'
<1> SUFFICES ASSUME TypeOK, RawInv, [Next]_vars PROVE RawInv'
  OBVIOUS
<1>0. ObserveType /\ RawType /\ BootType
  BY TypeParts
<1>1. CASE UNCHANGED <<rawVars, boots, observing>>
  BY <1>1, RawStays
<1>2. ASSUME NEW p \in Procs, ObserveRecall(p) \/ ObserveRecord(p) PROVE RawInv'
  <2>1. /\ observing'[p].pc # "raw"
        /\ \A q \in Procs \ {p} : observing'[q] = observing[q]
    BY <1>0, <1>2 DEF ObserveRecall, ObserveRecord, ObserveType, Observation
  <2> QED
    BY <1>2, <2>1, RawStays DEF ObserveRecall, ObserveRecord
\* A new stamp is later than all keys of this life.
<1>3. ASSUME NEW p \in Procs, ObserveStamp(p) PROVE RawInv'
  <2>1. /\ rawEpoch' = Epoch /\ rawSeq' = rawSeq + 1
        /\ UNCHANGED <<archive, archived, boots>>
    BY <1>3 DEF ObserveStamp
  <2>2. Epoch = boots /\ boots # 0 /\ rawSeq \in Nat
    BY <1>0 DEF Epoch, RawInv, RawKeysApart, BootType, RawType
  <2>3. /\ observing'[p].epoch = boots /\ observing'[p].seq = rawSeq + 1
        /\ \A q \in Procs \ {p} : observing'[q] = observing[q]
    BY <1>0, <1>3, <2>2 DEF ObserveStamp, ObserveType, Observation
  <2>4. \A e \in archive : /\ e.key[1] <= boots /\ e.key[2] \in Nat
                           /\ e.key[1] = boots => e.key[2] <= rawSeq
    BY <1>0 DEF RawInv, RawKeysApart, RawType
  <2>5. \A e \in archive : e.key[1] = boots => e.key[2] <= rawSeq + 1
    BY <2>2, <2>4
  <2>6. \A e \in archive : e.key # <<boots, rawSeq + 1>>
    BY <2>2, <2>4
  <2>7. ASSUME NEW q \in Procs \ {p}, observing[q] # None, observing[q].pc = "raw"
        PROVE  /\ observing[q].epoch = boots /\ observing[q].seq <= rawSeq
               /\ observing[q].seq \in Nat
               /\ \A e \in archive : e.key # <<observing[q].epoch, observing[q].seq>>
    BY <1>0, <2>7 DEF RawInv, RawKeysApart, Observing, RawKey, ObserveType, Observation
  <2>8. \A q \in Procs \ {p} : observing[q] # None /\ observing[q].pc = "raw" =>
          observing[q].seq <= rawSeq + 1 /\ observing[q].seq # rawSeq + 1
    BY <2>2, <2>7
  <2>9. RawTurnsKept'
    BY <2>1 DEF RawInv, RawTurnsKept
  <2>10. ASSUME NEW q \in Procs, observing'[q] # None, observing'[q].pc = "raw"
         PROVE  /\ observing'[q].epoch = boots' /\ observing'[q].seq <= rawSeq'
                /\ \A e \in archive' : e.key # <<observing'[q].epoch, observing'[q].seq>>
                /\ \A r \in Procs \ {q} : observing'[r] # None /\ observing'[r].pc = "raw" =>
                     <<observing'[q].epoch, observing'[q].seq>>
                       # <<observing'[r].epoch, observing'[r].seq>>
    <3>1. CASE q = p
      BY <2>1, <2>2, <2>3, <2>6, <2>8, <3>1
    <3>2. CASE q # p
      <4>1. observing'[q] = observing[q]
        BY <2>3, <3>2
      <4>2. /\ observing[q].epoch = boots' /\ observing[q].seq <= rawSeq'
            /\ \A e \in archive' : e.key # <<observing[q].epoch, observing[q].seq>>
        BY <2>1, <2>7, <2>8, <2>10, <3>2, <4>1
      <4>3. ASSUME NEW r \in Procs \ {q}, observing'[r] # None, observing'[r].pc = "raw"
            PROVE  <<observing[q].epoch, observing[q].seq>>
                     # <<observing'[r].epoch, observing'[r].seq>>
        <5>1. CASE r = p
          BY <2>3, <2>8, <2>10, <3>2, <4>1, <5>1
        <5>2. CASE r # p
          BY <2>3, <2>10, <3>2, <4>1, <4>3, <5>2
             DEF RawInv, RawKeysApart, Observing, RawKey
        <5> QED
          BY <5>1, <5>2
      <4> QED
        BY <4>1, <4>2, <4>3
    <3> QED
      BY <3>1, <3>2
  <2>11. rawEpoch' \in {0, boots'} /\ rawEpoch' # 0
    BY <2>1, <2>2
  <2>12. \A e \in archive' : e.key[1] <= boots' /\ (e.key[1] = boots' => e.key[2] <= rawSeq')
    BY <2>1, <2>4, <2>5
  <2>13. RawKeysApart'
    BY <2>10, <2>11, <2>12 DEF RawKeysApart, Observing, RawKey
  <2> QED
    BY <2>9, <2>13 DEF RawInv
\* A turn is recorded under a key no other turn has.
<1>4. ASSUME NEW p \in Procs, RecordRaw(p) PROVE RawInv'
  <2> DEFINE o == observing[p]
             entry == [key |-> RawKey(o), turn |-> o.turn]
  <2>1. /\ o.epoch = boots /\ o.seq <= rawSeq
        /\ \A e \in archive : e.key # RawKey(o)
        /\ \A q \in Procs \ {p} : observing[q] # None /\ observing[q].pc = "raw" =>
                                    RawKey(o) # RawKey(observing[q])
    BY <1>4 DEF RecordRaw, RawInv, RawKeysApart, Observing
  <2>2. {e \in archive : e.key # RawKey(o)} = archive
    BY <2>1
  <2>3. /\ \/ archive' = archive \cup {entry} /\ archived' = archived \cup {o.turn}
           \/ UNCHANGED <<archive, archived>>
        /\ UNCHANGED <<rawEpoch, rawSeq, boots>>
    BY <1>4, <2>2 DEF RecordRaw
  <2>4. observing'[p] = None /\ \A q \in Procs \ {p} : observing'[q] = observing[q]
    BY <1>0, <1>4 DEF RecordRaw, ObserveType
  <2>5. entry.key = RawKey(o) /\ entry.turn = o.turn
        /\ entry.key[1] = o.epoch /\ entry.key[2] = o.seq
    BY DEF RawKey
  <2> HIDE DEF entry, o
  <2>6. RawTurnsKept'
    BY <2>3, <2>5 DEF RawInv, RawTurnsKept
  <2>7. \A e \in archive' : e.key[1] <= boots' /\ (e.key[1] = boots' => e.key[2] <= rawSeq')
    <3>1. boots <= boots
      BY <1>0 DEF BootType
    <3> QED
      BY <2>1, <2>3, <2>5, <3>1 DEF RawInv, RawKeysApart
  <2>8. ASSUME NEW q \in Procs, observing'[q] # None, observing'[q].pc = "raw"
        PROVE  /\ observing'[q].epoch = boots' /\ observing'[q].seq <= rawSeq'
               /\ \A e \in archive' : e.key # RawKey(observing[q])
               /\ \A r \in Procs \ {q} : observing'[r] # None /\ observing'[r].pc = "raw" =>
                    RawKey(observing[q]) # RawKey(observing[r])
               /\ observing'[q] = observing[q]
    <3>1. q # p /\ observing'[q] = observing[q]
      BY <2>4, <2>8
    <3>2. /\ observing[q].epoch = boots /\ observing[q].seq <= rawSeq
          /\ \A e \in archive : e.key # RawKey(observing[q])
          /\ \A r \in Procs \ {q} : observing[r] # None /\ observing[r].pc = "raw" =>
                                      RawKey(observing[q]) # RawKey(observing[r])
      BY <2>8, <3>1 DEF RawInv, RawKeysApart, Observing
    <3>3. RawKey(o) # RawKey(observing[q])
      BY <2>1, <2>8, <3>1
    <3> QED
      BY <2>3, <2>4, <2>5, <3>1, <3>2, <3>3
  <2>9. RawKeysApart'
    <3>1. rawEpoch' \in {0, boots'} /\ (rawEpoch' = 0 => rawSeq' = 0)
      BY <2>3 DEF RawInv, RawKeysApart
    <3>2. ASSUME NEW q \in Procs, observing'[q] # None, observing'[q].pc = "raw"
          PROVE  \A r \in Procs \ {q} : observing'[r] # None /\ observing'[r].pc = "raw" =>
                   /\ RawKey(observing[q]) # RawKey(observing[r])
                   /\ observing'[r] = observing[r]
      BY <2>8, <3>2
    <3> QED
      BY <2>7, <2>8, <3>1, <3>2 DEF RawKeysApart, Observing, RawKey
  <2> QED
    BY <2>6, <2>9 DEF RawInv
\* A later life has a later epoch.
<1>5. CASE Restart
  <2>1. /\ boots' = boots + 1 /\ rawEpoch' = 0 /\ rawSeq' = 0
        /\ UNCHANGED <<archive, archived>> /\ \A q \in Procs : observing'[q] = None
    BY <1>5 DEF Restart
  <2>2. boots \in Nat /\ \A e \in archive : e.key[1] \in Nat /\ e.key[1] <= boots
    BY <1>0, SessionLimits DEF RawInv, RawKeysApart, RawType, BootType
  <2>3. \A e \in archive : e.key[1] <= boots + 1 /\ e.key[1] # boots + 1
    BY <2>2
  <2> QED
    BY <2>1, <2>3 DEF RawInv, RawKeysApart, RawTurnsKept, Observing
<1>6. CASE HostCall \/ \E k \in SkillKeys, state \in {"active", "aside"} :
                          ChangeSkill(k, state)
  <2>1. UNCHANGED <<rawVars, boots, observing>>
    BY <1>6 DEF HostCall, Recall, Context, LearnRecall, LearnProject, UseSnapshot,
                UseRecall, UseRecord, UseEnd,
                SetScope, ChangeSkill
  <2> QED
    BY <1>1, <2>1
<1>7. CASE UNCHANGED vars
  BY <1>1, <1>7 DEF vars
<1> QED
  BY <1>2, <1>3, <1>4, <1>5, <1>6, <1>7 DEF Next, Observe

-----------------------------------------------------------------------------
(* Hits are shown once, and what is used was on disk. *)

HitInv == HitsShownOnce /\ HitsCounted

\* Every step keeps the queued hits the ones that were not shown.
LEMMA HitStep == TypeOK /\ HitInv /\ [Next]_vars => HitInv'
<1> SUFFICES ASSUME TypeOK, HitInv, [Next]_vars PROVE HitInv'
  OBVIOUS
<1>0. /\ HitType /\ pending \in Seq(Nat) /\ Len(pending) \in Nat
      /\ queued \in Nat /\ delivered \in Nat
      /\ MaxPending \in Nat /\ RecallK \in Nat
  BY TypeParts, SessionLimits DEF HitType
<1>1. CASE UNCHANGED hitVars
  BY <1>1 DEF HitInv, HitsShownOnce, HitsCounted, hitVars
<1>2. CASE Recall
  <2>1. CASE Len(pending) >= MaxPending
    BY <1>1, <1>2, <2>1 DEF Recall, hitVars
  <2>2. CASE ~(Len(pending) >= MaxPending)
    <3>1. PICK found \in 0..RecallK :
            /\ pending' = pending \o [i \in 1..HitsThatFit(found) |-> queued + i]
            /\ queued' = queued + HitsThatFit(found)
      BY <1>2, <2>2 DEF Recall
    <3> DEFINE h == HitsThatFit(found)
               more == [i \in 1..h |-> queued + i]
    <3>2. h \in Nat /\ h <= MaxPending - Len(pending)
      BY <1>0, <2>2 DEF HitsThatFit, Shorter
    <3> HIDE DEF h
    <3>3. more \in Seq(Nat) /\ Len(more) = h /\ \A i \in 1..h : more[i] = queued + i
      BY <1>0, <3>2
    <3> HIDE DEF more
    <3>4. /\ pending' = pending \o more /\ queued' = queued + h /\ delivered' = delivered
      BY <1>2, <3>1 DEF Recall, h, more
    <3>5. /\ pending' \in Seq(Nat) /\ Len(pending') = Len(pending) + h
          /\ \A i \in 1..Len(pending) : pending'[i] = pending[i]
          /\ \A i \in Len(pending) + 1 .. Len(pending) + h :
               pending'[i] = more[i - Len(pending)]
      BY <1>0, <3>2, <3>3, <3>4, JoinFacts
    <3>6. /\ queued - delivered = Len(pending)
          /\ \A i \in 1..Len(pending) : pending[i] = delivered + i
      <4>1. queued - delivered = Len(pending)
        BY <1>0 DEF HitInv, HitsCounted
      <4> QED
        BY <1>0, <4>1 DEF HitInv, HitsShownOnce
    <3>7. queued' - delivered' = Len(pending')
      BY <1>0, <3>2, <3>4, <3>5, <3>6
    <3>8. \A i \in 1..Len(pending') : pending'[i] = delivered' + i
      <4> SUFFICES ASSUME NEW i \in 1..Len(pending') PROVE pending'[i] = delivered + i
        BY <3>4
      <4>1. CASE i <= Len(pending)
        BY <1>0, <3>5, <3>6, <4>1
      <4>2. CASE ~(i <= Len(pending))
        <5>1. i - Len(pending) \in 1..h /\ i \in Len(pending) + 1 .. Len(pending) + h
          BY <1>0, <3>2, <3>5, <4>2
        <5>2. pending'[i] = queued + (i - Len(pending))
          BY <3>3, <3>5, <5>1
        <5> QED
          BY <1>0, <3>6, <5>1, <5>2
      <4> QED
        BY <4>1, <4>2
    <3>9. pending' = [i \in 1..(queued' - delivered') |-> delivered' + i]
      BY <3>5, <3>7, <3>8
    <3>10. Len(pending') <= MaxPending
      BY <1>0, <3>2, <3>5
    <3>11. queued' = delivered' + Len(pending')
      BY <1>0, <3>2, <3>4, <3>5, <3>6
    <3> QED
      BY <3>9, <3>10, <3>11 DEF HitInv, HitsShownOnce, HitsCounted
  <2> QED
    BY <2>1, <2>2
<1>3. ASSUME NEW n \in Nat, pending' = <<>>, queued' = n, delivered' = n PROVE HitInv'
  <2>1. queued' - delivered' = 0
    BY <1>3
  <2>2. pending' = [i \in 1..0 |-> delivered' + i]
    <3>1. Len(pending') = 0 /\ pending' \in Seq(Nat)
      BY <1>3
    <3>2. [i \in 1..0 |-> delivered' + i] = <<>>
      OBVIOUS
    <3> QED
      BY <1>3, <3>2
  <2>3. Len(pending') = 0
    BY <1>3
  <2>4. HitsShownOnce'
    BY <1>0, <2>1, <2>2, <2>3 DEF HitsShownOnce
  <2>5. HitsCounted'
    BY <1>3, <2>3 DEF HitsCounted
  <2> QED
    BY <2>4, <2>5 DEF HitInv
<1>4. CASE Context
  <2>1. pending' = <<>> /\ queued' = queued /\ delivered' = queued
    BY <1>0, <1>4 DEF Context, Emptied, HitInv, HitsCounted
  <2> QED
    BY <1>0, <1>3, <2>1
<1>5. CASE Restart
  <2>1. pending' = <<>> /\ queued' = 0 /\ delivered' = 0
    BY <1>5 DEF Restart
  <2> QED
    BY <1>3, <2>1
<1>6. CASE \E p \in Procs : Observe(p)
  <2>1. UNCHANGED hitVars
    BY <1>6 DEF Observe, ObserveRecall, ObserveRecord, ObserveStamp, RecordRaw
  <2> QED
    BY <1>1, <2>1
<1>7. CASE \/ LearnRecall \/ LearnProject \/ UseSnapshot \/ UseRecord \/ UseEnd
           \/ \E n \in Names : UseRecall(n)
           \/ \E s \in Projects : SetScope(s)
           \/ \E k \in SkillKeys, state \in {"active", "aside"} : ChangeSkill(k, state)
  <2>1. UNCHANGED hitVars
    BY <1>7 DEF LearnRecall, LearnProject, UseSnapshot, UseRecall, UseRecord, UseEnd,
                SetScope, ChangeSkill
  <2> QED
    BY <1>1, <2>1
<1>8. CASE UNCHANGED vars
  BY <1>1, <1>8 DEF vars
<1> QED
  BY <1>2, <1>4, <1>5, <1>6, <1>7, <1>8 DEF Next, HostCall

\* Every step keeps the projection the one on disk, unless a restart empties it.
LEMMA ProjectionStep == TypeOK /\ ProjectionOnDisk /\ [Next]_vars => ProjectionOnDisk'
<1> SUFFICES ASSUME TypeOK, ProjectionOnDisk, [Next]_vars PROVE ProjectionOnDisk'
  OBVIOUS
<1>1. CASE UNCHANGED <<projected, disk>>
  BY <1>1 DEF ProjectionOnDisk, DedupeSkills, ActiveAt
<1>2. CASE LearnProject
  <2>1. projecting # None /\ disk' = projecting /\ projected' = DedupeSkills(projecting)
    BY <1>2 DEF LearnProject
  <2> QED
    BY <2>1 DEF ProjectionOnDisk, DedupeSkills, ActiveAt
<1>3. CASE Restart
  BY <1>3 DEF Restart, ProjectionOnDisk, NothingProjected
<1>4. CASE \/ \E p \in Procs : Observe(p)
           \/ Recall \/ Context \/ LearnRecall \/ UseSnapshot \/ UseRecord \/ UseEnd
           \/ \E n \in Names : UseRecall(n)
           \/ \E s \in Projects : SetScope(s)
           \/ \E k \in SkillKeys, state \in {"active", "aside"} : ChangeSkill(k, state)
  <2>1. UNCHANGED <<projected, disk>>
    BY <1>4 DEF Observe, ObserveRecall, ObserveRecord, ObserveStamp, RecordRaw, Recall, Context,
                LearnRecall, UseSnapshot, UseRecall, UseRecord, UseEnd, SetScope,
                ChangeSkill, skillVars
  <2> QED
    BY <1>1, <2>1
<1>5. CASE UNCHANGED vars
  BY <1>1, <1>5 DEF vars, skillVars
<1> QED
  BY <1>2, <1>3, <1>4, <1>5 DEF Next, HostCall

\* Every step keeps the projection a SkillUsed has in hand one that was on disk.
LEMMA UsingStep ==
  TypeOK /\ ProjectionOnDisk /\ UsingIsProjection /\ [Next]_vars => UsingIsProjection'
<1> SUFFICES ASSUME TypeOK, ProjectionOnDisk, UsingIsProjection, [Next]_vars
             PROVE  UsingIsProjection'
  OBVIOUS
<1>0. using \in Using \cup {None}
  BY TypeParts DEF SkillType
<1>1. CASE UNCHANGED using
  BY <1>1 DEF UsingIsProjection, DedupeSkills, ActiveAt
<1>2. CASE UseSnapshot
  <2>1. /\ disk # None /\ projected = DedupeSkills(disk)
        /\ using' = [proj |-> projected, held |-> None, read |-> disk]
    BY <1>2 DEF UseSnapshot, ProjectionOnDisk
  <2> QED
    BY <2>1 DEF UsingIsProjection, DedupeSkills, ActiveAt
<1>3. ASSUME NEW n \in Names, UseRecall(n) PROVE UsingIsProjection'
  <2>1. /\ using # None /\ using \in Using /\ KeyOf(n) # None /\ KeyOf(n) = using.proj[n]
        /\ using' = [using EXCEPT !.held = [key |-> KeyOf(n), state |-> skills[KeyOf(n)]]]
    BY <1>0, <1>3 DEF UseRecall, KeyOf
  <2>2. /\ using'.proj = using.proj /\ using'.read = using.read
        /\ using'.held.key = using.proj[n] /\ using.proj[n] # None
    BY <2>1 DEF Using
  <2> QED
    BY <2>1, <2>2 DEF UsingIsProjection, DedupeSkills, ActiveAt
<1>4. CASE UseRecord
  <2>1. /\ using # None /\ using \in Using /\ using' = [using EXCEPT !.held = None]
    BY <1>0, <1>4 DEF UseRecord
  <2>2. using'.proj = using.proj /\ using'.read = using.read /\ using'.held = None
    BY <2>1 DEF Using
  <2> QED
    BY <2>1, <2>2 DEF UsingIsProjection, DedupeSkills, ActiveAt
<1>5. CASE UseEnd \/ Restart
  BY <1>5 DEF UseEnd, Restart, UsingIsProjection
<1>6. CASE \/ \E p \in Procs : Observe(p)
           \/ Recall \/ Context \/ LearnRecall \/ LearnProject
           \/ \E s \in Projects : SetScope(s)
           \/ \E k \in SkillKeys, state \in {"active", "aside"} : ChangeSkill(k, state)
  <2>1. UNCHANGED using
    BY <1>6 DEF Observe, ObserveRecall, ObserveRecord, ObserveStamp, RecordRaw, Recall, Context,
                LearnRecall, LearnProject, SetScope, ChangeSkill, skillVars
  <2> QED
    BY <1>1, <2>1
<1>7. CASE UNCHANGED vars
  BY <1>1, <1>7 DEF vars, skillVars
<1> QED
  BY <1>2, <1>3, <1>4, <1>5, <1>6, <1>7 DEF Next, HostCall

-----------------------------------------------------------------------------
(* The theorems. *)

\* The inductive invariant: what the properties rest on, and the properties that are
\* inductive with it.
IInv == TypeOK /\ TranscriptInOrder /\ CopiesInOrder /\ TranscriptHeals /\ RawInv /\ HitInv
               /\ ProjectionOnDisk /\ UsingIsProjection

\* A session begins empty.
LEMMA InitIInv == Init => IInv
<1> SUFFICES ASSUME Init PROVE IInv
  OBVIOUS
<1>0. /\ MaxTurns \in Nat /\ MaxPending \in Nat /\ MaxBoots \in Nat /\ MaxBoots >= 1
      /\ MaxCalls \in Nat
  BY SessionLimits, SessionBounds
<1>1. TypeOK
  <2>1. TranscriptType /\ CallType
    <3>1. <<>> \in Seq(Turns)
      OBVIOUS
    <3> QED
      BY <1>0, <3>1 DEF Init, TranscriptType, CallType
  <2>2. RawType /\ BootType
    BY <1>0 DEF Init, RawType, BootType
  <2>3. SkillType
    BY DEF Init, SkillType, NothingProjected
  <2>4. ObserveType /\ ScopeType /\ HitType
    BY DEF Init, ObserveType, ScopeType, HitType
  <2> QED
    BY <2>1, <2>2, <2>3, <2>4, TypeParts
<1>2. TranscriptInOrder /\ CopiesInOrder
  BY <1>0 DEF Init, TranscriptInOrder, NewestFirst, CopiesInOrder, Observing, ToSet
<1>3. TranscriptHeals
  <2>1. Shorter(calm, MaxTurns) \in Nat /\ transcript = recorded /\ Len(transcript) = 0
        /\ Shorter(calm, MaxTurns) = 0
    BY <1>0 DEF Init, Shorter
  <2> QED
    BY <2>1 DEF TranscriptHeals
<1>4. RawInv
  BY <1>0 DEF Init, RawInv, RawKeysApart, RawTurnsKept, Observing
<1>5. HitInv
  <2>1. pending = <<>> /\ queued = 0 /\ delivered = 0
    BY DEF Init
  <2>2. <<>> = [i \in 1..(0 - 0) |-> 0 + i] /\ Len(<<>>) = 0
    OBVIOUS
  <2> QED
    BY <1>0, <2>1, <2>2 DEF HitInv, HitsShownOnce, HitsCounted
<1>6. ProjectionOnDisk /\ UsingIsProjection
  BY DEF Init, ProjectionOnDisk, UsingIsProjection
<1> QED
  BY <1>1, <1>2, <1>3, <1>4, <1>5, <1>6 DEF IInv

\* It holds always.
LEMMA Invariance == Spec => []IInv
<1>1. IInv /\ [Next]_vars => IInv'
  <2> SUFFICES ASSUME IInv, [Next]_vars PROVE IInv'
    OBVIOUS
  <2>1. TypeOK'
    BY TypeStep DEF IInv, RawInv
  <2> QED
    BY <2>1, OrderStep, HealStep, RawStep, HitStep, ProjectionStep, UsingStep DEF IInv
<1> QED
  BY <1>1, InitIInv, PTL DEF Spec

\* Types, copies in order, raw keys apart, counted hits and a projection that is on
\* disk: what a session keeps at every moment (orchestrator.go:155-177,
\* learner.go:188-221, skills.go:143-193).
THEOREM SessionInvariant == Spec => []Inv
<1>1. IInv => Inv
  BY DEF IInv, Inv, RawInv, HitInv
<1> QED
  BY <1>1, Invariance, PTL

\* The transcript is newest first, holds no turn twice, and is never longer than
\* MaxTurns (orchestrator.go:155-177).
THEOREM NewestFirstAlways == Spec => []TranscriptInOrder
<1>1. IInv => TranscriptInOrder
  BY DEF IInv
<1> QED
  BY <1>1, Invariance, PTL

\* MaxTurns turns after one was lost the transcript is again exactly the last ones
\* (orchestrator.go:155-177).
THEOREM Healing == Spec => []TranscriptHeals
<1>1. IInv => TranscriptHeals
  BY DEF IInv
<1> QED
  BY <1>1, Invariance, PTL

\* No raw turn takes the key of another, of this life or of an earlier one
\* (learner.go:188-221).
THEOREM RawArchive == Spec => []RawTurnsKept
<1>1. IInv => RawTurnsKept
  BY DEF IInv, RawInv
<1> QED
  BY <1>1, Invariance, PTL

\* Every queued hit is shown by the next Context, once and in order (conscious.go:54-64
\* and 99-105).
THEOREM HitQueue == Spec => []HitsShownOnce
<1>1. IInv => HitsShownOnce
  BY DEF IInv, HitInv
<1> QED
  BY <1>1, Invariance, PTL

\* What one SkillUsed stamps belongs to one projection the host held, whatever SetScope,
\* LearnedSkills and the writers of skills do between its snapshot and its Recalls
\* (skills.go:89-109, 143-165 and 178-193).
THEOREM StampsOneProjection == Spec => []UsesOneProjection
<1>1. IInv => UsesOneProjection
  <2> SUFFICES ASSUME IInv, using # None, using.held # None
               PROVE  LET key == using.held.key IN
                        /\ using.read # None
                        /\ using.read.nodes[key] = "active"
                        /\ key[1] \in {Agent, using.read.project}
                        /\ key[1] # Agent =>
                             using.read.nodes[<<Agent, key[2]>>] # "active"
    BY DEF UsesOneProjection
  <2> DEFINE read == using.read
  <2>1. PICK n \in Names : using.proj[n] # None /\ using.held.key = using.proj[n]
    BY DEF IInv, UsingIsProjection
  <2>2. read # None /\ using.proj = DedupeSkills(read)
    BY DEF IInv, UsingIsProjection
  <2> HIDE DEF read
  <2>3. using.proj[n] = IF n \in ActiveAt(Agent, read.nodes) THEN <<Agent, n>>
                        ELSE IF n \in ActiveAt(read.project, read.nodes)
                             THEN <<read.project, n>> ELSE None
    BY <2>2 DEF DedupeSkills
  <2>4. CASE n \in ActiveAt(Agent, read.nodes)
    BY <2>1, <2>2, <2>3, <2>4 DEF ActiveAt, read
  <2>5. CASE n \notin ActiveAt(Agent, read.nodes)
    BY <2>1, <2>2, <2>3, <2>5 DEF ActiveAt, read
  <2> QED
    BY <2>4, <2>5
<1> QED
  BY <1>1, Invariance, PTL
=============================================================================
