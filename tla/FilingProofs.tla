---------------------------- MODULE FilingProofs ----------------------------
(* Proofs about module Filing, for every set of keys and projects and every     *)
(* bound: the inductive invariant, the safety properties, and that filing        *)
(* implements the ledger of findings.                                          *)
EXTENDS Filing, TLAPS

-----------------------------------------------------------------------------
(* Facts about sequences of candidates. *)

\* A loop takes the head; the rest is what was there without it.
LEMMA TailFacts ==
  ASSUME NEW s \in Seq(Finding), s # <<>>
  PROVE  /\ Head(s) \in Finding /\ Tail(s) \in Seq(Finding)
         /\ ToSet(s) = {Head(s)} \cup ToSet(Tail(s))
         /\ KeysOf(s) = {Head(s).key} \cup KeysOf(Tail(s))
<1>1. /\ Head(s) = s[1] /\ Tail(s) \in Seq(Finding) /\ Len(Tail(s)) = Len(s) - 1
      /\ \A i \in 1..Len(Tail(s)) : Tail(s)[i] = s[i + 1]
      /\ Len(s) \in Nat \ {0} /\ s[1] \in Finding
  OBVIOUS
<1>2. \A i \in DOMAIN s : i = 1 \/ (i - 1 \in DOMAIN Tail(s) /\ s[i] = Tail(s)[i - 1])
  BY <1>1
<1>3. \A i \in DOMAIN Tail(s) : i + 1 \in DOMAIN s /\ s[i + 1] = Tail(s)[i]
  BY <1>1
<1>4. 1 \in DOMAIN s /\ Head(s) = s[1]
  BY <1>1
<1> DEFINE t == Tail(s) h == Head(s)
<1>5. h = s[1] /\ 1 \in DOMAIN s
      /\ (\A i \in DOMAIN s : i = 1 \/ (i - 1 \in DOMAIN t /\ s[i] = t[i - 1]))
      /\ (\A i \in DOMAIN t : i + 1 \in DOMAIN s /\ s[i + 1] = t[i])
  BY <1>2, <1>3, <1>4
<1> HIDE DEF t, h
<1>6. ToSet(s) = {h} \cup ToSet(t)
  BY <1>5 DEF ToSet
<1>7. KeysOf(s) = {h.key} \cup KeysOf(t)
  BY <1>5 DEF KeysOf
<1> QED
  BY <1>1, <1>6, <1>7 DEF t, h

\* Candidates that are apart stay so without the head, which is not among the rest.
LEMMA ApartTail ==
  ASSUME NEW s \in Seq(Finding), s # <<>>
  PROVE  /\ DistinctKeys(s) => DistinctKeys(Tail(s)) /\ Head(s).key \notin KeysOf(Tail(s))
         /\ IsInjective(s) => IsInjective(Tail(s)) /\ Head(s) \notin ToSet(Tail(s))
<1>1. /\ Head(s) = s[1] /\ 1 \in DOMAIN s
      /\ \A i \in DOMAIN Tail(s) : i + 1 \in DOMAIN s /\ Tail(s)[i] = s[i + 1] /\ i + 1 # 1
      /\ \A i, j \in DOMAIN Tail(s) : i + 1 = j + 1 => i = j
  OBVIOUS
<1>2. DistinctKeys(s) => DistinctKeys(Tail(s)) /\ Head(s).key \notin KeysOf(Tail(s))
  BY <1>1 DEF DistinctKeys, KeysOf
<1>3. IsInjective(s) => IsInjective(Tail(s)) /\ Head(s) \notin ToSet(Tail(s))
  BY <1>1 DEF IsInjective, ToSet
<1> QED
  BY <1>2, <1>3

\* A queue that grows at its end.
LEMMA AppendFacts ==
  ASSUME NEW s \in Seq(Finding), NEW cand \in Finding
  PROVE  /\ Append(s, cand) \in Seq(Finding)
         /\ ToSet(Append(s, cand)) = ToSet(s) \cup {cand}
         /\ KeysOf(Append(s, cand)) = KeysOf(s) \cup {cand.key}
         /\ DistinctKeys(s) /\ cand.key \notin KeysOf(s) => DistinctKeys(Append(s, cand))
<1>1. /\ Len(s) \in Nat /\ DOMAIN s = 1..Len(s)
      /\ DOMAIN Append(s, cand) = 1..Len(s) + 1
      /\ \A i \in 1..Len(s) : Append(s, cand)[i] = s[i]
      /\ Append(s, cand)[Len(s) + 1] = cand
      /\ Append(s, cand) \in Seq(Finding)
  OBVIOUS
<1>2. \A i \in DOMAIN Append(s, cand) :
        i = Len(s) + 1 \/ (i \in DOMAIN s /\ Append(s, cand)[i] = s[i])
  BY <1>1
<1>3. \A i \in DOMAIN s : i \in DOMAIN Append(s, cand) /\ i # Len(s) + 1
  BY <1>1
<1>4. Len(s) + 1 \in DOMAIN Append(s, cand)
  BY <1>1
<1>5. ToSet(Append(s, cand)) = ToSet(s) \cup {cand}
  BY <1>1, <1>2, <1>3, <1>4 DEF ToSet
<1>6. KeysOf(Append(s, cand)) = KeysOf(s) \cup {cand.key}
  BY <1>1, <1>2, <1>3, <1>4 DEF KeysOf
<1>7. DistinctKeys(s) /\ cand.key \notin KeysOf(s) => DistinctKeys(Append(s, cand))
  BY <1>1, <1>2, <1>3 DEF DistinctKeys, KeysOf
<1> QED
  BY <1>1, <1>5, <1>6, <1>7

\* An empty queue, and a candidate's key.
LEMMA PlainFacts ==
  /\ ToSet(<<>>) = {} /\ KeysOf(<<>>) = {} /\ DistinctKeys(<<>>) /\ IsInjective(<<>>)
  /\ \A s : \A cand \in ToSet(s) : cand.key \in KeysOf(s)
  /\ \A s : \A k \in KeysOf(s) : \E cand \in ToSet(s) : cand.key = k
  /\ \A s \in Seq(Finding) : ToSet(s) \subseteq Finding
BY DEF ToSet, KeysOf, DistinctKeys, IsInjective

-----------------------------------------------------------------------------
(* The read of the journal's tail. *)

\* The rest of the journal from a line on.
LEMMA TailOfJournal ==
  ASSUME journal \in Seq(Finding), NEW start \in 0..Len(journal)
  PROVE  LET tail == SubSeq(journal, start + 1, Len(journal))
         IN /\ tail \in Seq(Finding) /\ Len(tail) = Len(journal) - start
            /\ \A i \in DOMAIN tail : /\ start + i \in DOMAIN journal
                                      /\ tail[i] = journal[start + i]
            /\ \A i \in DOMAIN journal : i > start => journal[i] \in ToSet(tail)
<1> DEFINE tail == SubSeq(journal, start + 1, Len(journal))
<1>1. /\ tail \in Seq(Finding) /\ Len(tail) = Len(journal) - start
      /\ \A i \in 1..(Len(journal) - start) : tail[i] = journal[start + i]
  OBVIOUS
<1>2. \A i \in DOMAIN tail : start + i \in DOMAIN journal /\ tail[i] = journal[start + i]
  BY <1>1
<1>3. \A i \in DOMAIN journal : i > start => i - start \in DOMAIN tail /\ start + (i - start) = i
  BY <1>1
<1> HIDE DEF tail
<1>4. \A i \in DOMAIN journal : i > start => journal[i] \in ToSet(tail)
  BY <1>2, <1>3 DEF ToSet
<1> QED
  BY <1>1, <1>2, <1>4 DEF tail

\* A pass starts to read at the offset, or at the start of a file that has shrunk.
LEMMA StartFacts == ASSUME TypeOK
                    PROVE  /\ ReadStart \in 0..Len(journal)
                           /\ ReadStart = offset <=> (offset <= Len(journal) \/ offset = 0)
                           /\ ReadStart \in {0, offset}
<1>1. Len(journal) \in Nat /\ offset \in Nat
  BY DEF TypeOK
<1> QED
  BY <1>1 DEF ReadStart

\* The three ways a read can end.
LEMMA ReadFacts ==
  ASSUME TypeOK, ReadTail
  PROVE  \/ /\ todo' = SubSeq(journal, ReadStart + 1, Len(journal))
            /\ offset' = Len(journal)
            /\ rotated' = (rotated /\ ReadStart = offset)
         \/ todo' = <<>> /\ UNCHANGED <<offset, rotated>>
         \/ todo' = <<>> /\ offset' = ReadStart /\ rotated' = (rotated /\ ReadStart = offset)
<1>1. journal \in Seq(Finding) /\ ReadStart \in 0..Len(journal)
  BY StartFacts DEF TypeOK
<1>2. Len(SubSeq(journal, ReadStart + 1, Len(journal))) = Len(journal) - ReadStart
  BY <1>1, TailOfJournal
<1>3. ReadStart + (Len(journal) - ReadStart) = Len(journal)
  BY <1>1
<1>4. OffsetAfter(ReadStart, SubSeq(journal, ReadStart + 1, Len(journal))) = Len(journal)
  BY <1>2, <1>3 DEF OffsetAfter
<1> QED
  BY <1>4 DEF ReadTail

-----------------------------------------------------------------------------
(* Types. *)

\* Persisting a candidate keeps the types of what it writes, and what happens to the
\* memory and the seen keys.
LEMMA PersistFacts ==
  ASSUME TypeOK, NEW cand \in Finding, NEW outcome \in Outcomes(cand)
  PROVE  /\ outcome \in {"filed", "failed", "half-filed", "queued"}
         /\ StoreAfter(cand, outcome) \in [Keys -> 0..MaxLines]
         /\ LinksAfter(cand, outcome) \in [Keys -> SUBSET Projects]
         /\ MarkSeen(cand, outcome) \subseteq Keys
         /\ MarkSeen(cand, outcome) = IF outcome = "filed" THEN seen \cup {cand.key} ELSE seen
<1>1. cand.key \in Keys /\ cand.line \in 0..MaxLines
  BY DEF Finding
<1>2. outcome \in {"filed", "failed", "half-filed", "queued"}
  BY DEF Outcomes
<1>3. StoreAfter(cand, outcome) \in [Keys -> 0..MaxLines]
  BY <1>1 DEF StoreAfter, TypeOK
<1>4. LinksAfter(cand, outcome) \in [Keys -> SUBSET Projects]
  BY <1>1 DEF LinksAfter, TypeOK
<1> QED
  BY <1>1, <1>2, <1>3, <1>4 DEF MarkSeen, TypeOK

\* Every step keeps the types.
LEMMA TypeStep == TypeOK /\ [Next]_vars => TypeOK'
<1> SUFFICES ASSUME TypeOK, [Next]_vars PROVE TypeOK'
  OBVIOUS
<1> USE DEF learnerVars, historyVars, memory
<1>0. <<>> \in Seq(Finding)
  OBVIOUS
<1>1. CASE Begin \/ DrainDone \/ FileDone
  BY <1>0, <1>1 DEF Begin, DrainDone, FileDone, TypeOK
<1>2. CASE Retry
  <2>1. Head(todo) \in Finding /\ Tail(todo) \in Seq(Finding)
    BY <1>2, TailFacts DEF Retry, TypeOK
  <2>2. Append(still, Head(todo)) \in Seq(Finding)
    BY <2>1, AppendFacts DEF TypeOK
  <2>3. /\ store' \in [Keys -> 0..MaxLines] /\ links' \in [Keys -> SUBSET Projects]
        /\ seen' \subseteq Keys
    BY <1>2, <2>1, PersistFacts DEF Retry
  <2> QED
    BY <1>2, <2>1, <2>2, <2>3 DEF Retry, TypeOK
<1>3. CASE ReadTail
  <2>1. ReadStart \in 0..Len(journal) /\ Len(journal) \in Nat
    BY StartFacts DEF TypeOK
  <2>2. SubSeq(journal, ReadStart + 1, Len(journal)) \in Seq(Finding)
    BY <2>1, TailOfJournal DEF TypeOK
  <2>3. todo' \in Seq(Finding) /\ offset' \in Nat /\ rotated' \in BOOLEAN
    <3>1. todo' \in Seq(Finding)
      BY <1>0, <1>3, <2>2, ReadFacts
    <3>2. offset' \in Nat
      BY <1>3, <2>1, ReadFacts DEF TypeOK
    <3>3. rotated' \in BOOLEAN
      BY <1>3, ReadFacts, Zenon DEF TypeOK
    <3> QED
      BY <3>1, <3>2, <3>3
  <2>4. ToSet(todo') \subseteq Finding
    BY <2>3, PlainFacts
  <2> QED
    BY <1>3, <2>3, <2>4 DEF ReadTail, TypeOK
<1>4. CASE Extract
  <2>1. ToSet(todo) \subseteq Finding
    BY PlainFacts DEF TypeOK
  <2> QED
    BY <1>0, <1>4, <2>1 DEF Extract, TypeOK
<1>5. CASE Skip
  <2>1. Tail(todo) \in Seq(Finding)
    BY <1>5, TailFacts DEF Skip, TypeOK
  <2> QED
    BY <1>5, <2>1 DEF Skip, TypeOK
<1>6. CASE File
  <2>1. Head(todo) \in Finding /\ Tail(todo) \in Seq(Finding)
    BY <1>6, TailFacts DEF File, TypeOK
  <2>2. Enqueue(Head(todo)) \in Seq(Finding)
    BY <2>1, AppendFacts DEF Enqueue, TypeOK
  <2>3. /\ store' \in [Keys -> 0..MaxLines] /\ links' \in [Keys -> SUBSET Projects]
        /\ seen' \subseteq Keys
    BY <1>6, <2>1, PersistFacts DEF File
  <2> QED
    BY <1>6, <2>1, <2>2, <2>3 DEF File, TypeOK
<1>7. ASSUME NEW k \in Keys, NEW fits \in BOOLEAN, WriteLine(k, fits) PROVE TypeOK'
  <2> DEFINE line == [key |-> k, fits |-> fits, line |-> written + 1]
  <2>1. written' \in 0..MaxLines /\ written + 1 \in 1..MaxLines
    BY <1>7, FilingBounds DEF WriteLine, TypeOK
  <2>2. line \in Finding
    BY <2>1 DEF Finding
  <2>3. journal' \in Seq(Finding)
    BY <1>7, <2>2, AppendFacts DEF WriteLine, TypeOK
  <2> QED
    BY <1>7, <2>1, <2>3 DEF WriteLine, TypeOK
<1>8. CASE Rotate
  BY <1>0, <1>8 DEF Rotate, TypeOK
<1>9. ASSUME NEW p \in Projects, SetScope(p) PROVE TypeOK'
  BY <1>9 DEF SetScope, TypeOK
<1>10. CASE Restart
  <2>1. restarts' \in 0..MaxRestarts
    BY <1>10, FilingBounds DEF Restart, TypeOK
  <2>2. offset' \in Nat /\ seen' \subseteq Keys /\ rotated' \in BOOLEAN
    BY <1>10 DEF Restart
  <2> QED
    BY <1>0, <1>10, <2>1, <2>2 DEF Restart, TypeOK
<1>11. CASE UNCHANGED vars
  BY <1>11 DEF vars, TypeOK
<1> QED
  BY <1>1, <1>2, <1>3, <1>4, <1>5, <1>6, <1>7, <1>8, <1>9, <1>10, <1>11
     DEF Next, Pass, Environment

-----------------------------------------------------------------------------
(* The offset and the journal. *)

\* Lines are numbers.
LEMMA LineFacts == \A cand \in Finding : cand.line \in Nat
BY FilingBounds DEF Finding

JournalInv == JournalInOrder /\ ReadBeforeOffset /\ OffsetSplitsJournal

\* Steps that leave the journal, the offset and what was delivered alone.
LEMMA JournalUntouched ==
  JournalInv /\ UNCHANGED <<journal, written, offset, delivered, rotated>> => JournalInv'
BY DEF JournalInv, JournalInOrder, ReadBeforeOffset, OffsetSplitsJournal

\* A new line is later than all others, and lies behind the offset.
LEMMA WriteKeeps ==
  ASSUME TypeOK, JournalInv, NEW k \in Keys, NEW fits \in BOOLEAN, WriteLine(k, fits)
  PROVE  JournalInv'
<1> DEFINE line == [key |-> k, fits |-> fits, line |-> written + 1]
<1>1. /\ journal' = Append(journal, line) /\ written' = written + 1
      /\ UNCHANGED <<offset, delivered, rotated>>
  BY DEF WriteLine, learnerVars, historyVars
<1>2. line \in Finding /\ line.line = written + 1 /\ written + 1 \in Nat /\ written \in Nat
  BY FilingBounds DEF WriteLine, TypeOK, Finding
<1> HIDE DEF line
<1>3. /\ Len(journal) \in Nat /\ DOMAIN journal = 1..Len(journal) /\ offset \in Nat
      /\ DOMAIN journal' = 1..Len(journal) + 1 /\ Len(journal') = Len(journal) + 1
      /\ \A i \in 1..Len(journal) : journal'[i] = journal[i] /\ journal[i] \in Finding
      /\ journal'[Len(journal) + 1] = line
  BY <1>1, <1>2 DEF TypeOK
<1>4. \A cand \in ToSet(journal) \cup delivered : cand.line \in Nat /\ cand.line <= written
  BY PlainFacts, LineFacts DEF TypeOK, JournalInv, JournalInOrder
<1>5. line \notin delivered
  BY <1>2, <1>4
<1>6. \A i \in DOMAIN journal : journal[i].line \in Nat /\ journal[i].line <= written
  BY <1>4 DEF ToSet
<1>7. \A i \in DOMAIN journal' : i = Len(journal) + 1
                                 \/ (i \in DOMAIN journal /\ journal'[i] = journal[i])
  BY <1>3
<1>8. JournalInOrder'
  <2>1. ASSUME NEW i \in DOMAIN journal', NEW j \in DOMAIN journal', i < j
        PROVE  journal'[i].line < journal'[j].line
    <3>1. i \in DOMAIN journal /\ journal'[i] = journal[i]
      BY <1>3, <2>1
    <3>2. CASE j = Len(journal) + 1
      BY <1>2, <1>3, <1>6, <3>1, <3>2
    <3>3. CASE j \in DOMAIN journal
      BY <1>3, <2>1, <3>1, <3>3 DEF JournalInv, JournalInOrder
    <3> QED
      BY <1>7, <3>2, <3>3
  <2>2. ToSet(journal') = ToSet(journal) \cup {line}
    BY <1>1, <1>2, AppendFacts DEF TypeOK
  <2>3. \A cand \in ToSet(journal') \cup delivered' : cand.line <= written'
    BY <1>1, <1>2, <1>4, <2>2
  <2> QED
    BY <2>1, <2>3 DEF JournalInOrder
<1>9. ReadBeforeOffset'
  BY <1>1, <1>3, <1>5, <1>7 DEF ReadBeforeOffset, JournalInv
<1>10. OffsetSplitsJournal'
  <2> SUFFICES ASSUME ~rotated PROVE /\ offset <= Len(journal')
                                     /\ \A i \in DOMAIN journal' :
                                          journal'[i] \in delivered <=> i <= offset
    BY <1>1 DEF OffsetSplitsJournal
  <2>1. /\ offset <= Len(journal)
        /\ \A i \in DOMAIN journal : journal[i] \in delivered <=> i <= offset
    BY DEF OffsetSplitsJournal, JournalInv
  <2> QED
    BY <1>3, <1>5, <1>7, <2>1
<1> QED
  BY <1>8, <1>9, <1>10 DEF JournalInv

\* A read of the tail delivers what was not delivered before, and moves the offset to
\* the end of the journal; a read that fails moves it to the start at most.
LEMMA ReadKeeps ==
  ASSUME TypeOK, JournalInv, ReadTail
  PROVE  JournalInv' /\ IsInjective(todo') /\ ToSet(todo') \cap delivered = {}
<1> DEFINE tail == SubSeq(journal, ReadStart + 1, Len(journal))
<1>1. /\ Len(journal) \in Nat /\ DOMAIN journal = 1..Len(journal) /\ offset \in Nat
      /\ journal \in Seq(Finding) /\ rotated \in BOOLEAN
  BY DEF TypeOK
<1>2. /\ ReadStart \in 0..Len(journal)
      /\ ReadStart = offset <=> (offset <= Len(journal) \/ offset = 0)
      /\ ReadStart \in {0, offset}
  BY StartFacts
<1>3. /\ tail \in Seq(Finding) /\ Len(tail) = Len(journal) - ReadStart
      /\ \A i \in DOMAIN tail : ReadStart + i \in DOMAIN journal
                                /\ tail[i] = journal[ReadStart + i]
      /\ \A i \in DOMAIN journal : i > ReadStart => journal[i] \in ToSet(tail)
  BY <1>1, <1>2, TailOfJournal
<1> HIDE DEF tail
<1>4. UNCHANGED <<journal, written>> /\ delivered' = delivered \cup ToSet(todo')
  BY DEF ReadTail
<1>5. \/ todo' = tail /\ offset' = Len(journal) /\ rotated' = (rotated /\ ReadStart = offset)
      \/ todo' = <<>> /\ UNCHANGED <<offset, rotated>>
      \/ todo' = <<>> /\ offset' = ReadStart /\ rotated' = (rotated /\ ReadStart = offset)
  BY ReadFacts DEF tail
<1>6. DOMAIN tail = 1..Len(tail)
  BY <1>3
\* Nothing behind the start of the read was delivered.
<1>7. \A i \in DOMAIN journal : i > ReadStart => journal[i] \notin delivered
  BY <1>1, <1>2 DEF JournalInv, ReadBeforeOffset
<1>8. ToSet(tail) \cap delivered = {} /\ ToSet(tail) \subseteq ToSet(journal)
  <2>1. \A i \in DOMAIN tail : ReadStart + i > ReadStart
    BY <1>1, <1>2, <1>3, <1>6
  <2> QED
    BY <1>3, <1>7, <2>1 DEF ToSet
<1>9. IsInjective(tail)
  <2> SUFFICES ASSUME NEW i \in DOMAIN tail, NEW j \in DOMAIN tail, tail[i] = tail[j]
               PROVE  i = j
    BY DEF IsInjective
  <2> DEFINE p == ReadStart + i  q == ReadStart + j
  <2>1. p \in DOMAIN journal /\ q \in DOMAIN journal /\ journal[p] = journal[q]
    BY <1>3
  <2>2. journal[p].line \in Nat
    BY <1>1, <2>1, LineFacts
  <2>3. ~(p < q) /\ ~(q < p)
    BY <2>1, <2>2 DEF JournalInv, JournalInOrder
  <2> QED
    BY <1>1, <1>2, <1>3, <1>6, <2>3
<1>10. IsInjective(todo') /\ ToSet(todo') \cap delivered = {}
       /\ ToSet(todo') \subseteq ToSet(journal)
  BY <1>5, <1>8, <1>9, PlainFacts
<1>11. JournalInOrder'
  BY <1>4, <1>10 DEF JournalInv, JournalInOrder
<1>12. CASE todo' = tail /\ offset' = Len(journal)
  <2>1. \A i \in DOMAIN journal : i <= offset' /\ offset' <= Len(journal)
    BY <1>1, <1>12
  <2>2. ReadBeforeOffset'
    BY <1>4, <2>1 DEF ReadBeforeOffset
  <2>3. ASSUME ~rotated' PROVE \A i \in DOMAIN journal : journal[i] \in delivered'
    <3>1. ASSUME NEW i \in DOMAIN journal, i > ReadStart PROVE journal[i] \in delivered'
      BY <1>3, <1>4, <1>12, <3>1
    <3>2. ASSUME NEW i \in DOMAIN journal, ~(i > ReadStart) PROVE journal[i] \in delivered'
      <4>1. ReadStart = offset /\ i <= offset
        BY <1>1, <1>2, <3>2
      <4>2. ~rotated
        BY <1>5, <2>3, <4>1
      <4> QED
        BY <1>4, <4>1, <4>2 DEF JournalInv, OffsetSplitsJournal
    <3> QED
      BY <3>1, <3>2
  <2>4. OffsetSplitsJournal'
    BY <1>1, <1>4, <1>12, <2>1, <2>3 DEF OffsetSplitsJournal
  <2> QED
    BY <1>10, <1>11, <2>2, <2>4 DEF JournalInv
<1>13. ASSUME delivered' = delivered, offset' = offset, rotated' = rotated PROVE JournalInv'
  BY <1>4, <1>13, JournalUntouched
<1>14. CASE todo' = <<>> /\ UNCHANGED <<offset, rotated>>
  BY <1>4, <1>10, <1>13, <1>14, PlainFacts
<1>15. CASE todo' = <<>> /\ offset' = ReadStart /\ rotated' = (rotated /\ ReadStart = offset)
  <2>1. delivered' = delivered
    BY <1>4, <1>15, PlainFacts
  <2>2. CASE ReadStart = offset
    BY <1>1, <1>10, <1>13, <1>15, <2>1, <2>2
  <2>3. CASE ReadStart # offset
    <3>1. offset' = 0 /\ \A i \in DOMAIN journal : i > 0 /\ journal[i] \notin delivered
      BY <1>1, <1>2, <1>7, <1>15, <2>3
    <3>2. ReadBeforeOffset' /\ OffsetSplitsJournal'
      BY <1>1, <1>4, <2>1, <3>1 DEF ReadBeforeOffset, OffsetSplitsJournal
    <3> QED
      BY <1>10, <1>11, <3>2 DEF JournalInv
  <2> QED
    BY <2>2, <2>3
<1> QED
  BY <1>5, <1>10, <1>12, <1>14, <1>15

\* Every step keeps the offset where it splits the journal.
LEMMA JournalStep == TypeOK /\ JournalInv /\ [Next]_vars => JournalInv'
<1> SUFFICES ASSUME TypeOK, JournalInv, [Next]_vars PROVE JournalInv'
  OBVIOUS
<1> USE DEF learnerVars, historyVars
<1>1. CASE Begin \/ Retry \/ DrainDone \/ Extract \/ Skip \/ File \/ FileDone
  <2>1. UNCHANGED <<journal, written, offset, delivered, rotated>>
    BY <1>1 DEF Begin, Retry, DrainDone, Extract, Skip, File, FileDone
  <2> QED
    BY <2>1, JournalUntouched
<1>2. CASE ReadTail
  BY <1>2, ReadKeeps
<1>3. ASSUME NEW k \in Keys, NEW fits \in BOOLEAN, WriteLine(k, fits) PROVE JournalInv'
  BY <1>3, WriteKeeps
<1>4. CASE Rotate
  <2>1. /\ journal' = <<>> /\ UNCHANGED <<written, offset, delivered>>
        /\ rotated' = (rotated \/ offset > 0)
    BY <1>4 DEF Rotate
  <2>2. JournalInOrder'
    BY <2>1, PlainFacts DEF JournalInv, JournalInOrder
  <2>3. ReadBeforeOffset'
    BY <2>1 DEF ReadBeforeOffset
  <2>4. ~rotated' => offset' <= Len(journal')
    <3>1. ~rotated' => ~(offset > 0)
      BY <2>1, Zenon
    <3> QED
      BY <2>1, <3>1 DEF TypeOK
  <2>5. OffsetSplitsJournal'
    BY <2>1, <2>4 DEF OffsetSplitsJournal
  <2> QED
    BY <2>2, <2>3, <2>5 DEF JournalInv
<1>5. CASE Restart
  <2>1. /\ offset' = 0 /\ delivered' = {} /\ rotated' = FALSE
        /\ UNCHANGED <<journal, written>>
    BY <1>5 DEF Restart
  <2>2. JournalInOrder' /\ ReadBeforeOffset'
    BY <2>1 DEF JournalInv, JournalInOrder, ReadBeforeOffset
  <2>3. Len(journal) \in Nat /\ \A i \in DOMAIN journal : ~(i <= 0)
    BY DEF TypeOK
  <2>4. OffsetSplitsJournal'
    BY <2>1, <2>3 DEF OffsetSplitsJournal
  <2> QED
    BY <2>2, <2>4 DEF JournalInv
<1>6. CASE UNCHANGED vars \/ \E p \in Projects : SetScope(p)
  BY <1>6, JournalUntouched DEF SetScope, vars
<1> QED
  BY <1>1, <1>2, <1>3, <1>4, <1>5, <1>6 DEF Next, Pass, Environment

-----------------------------------------------------------------------------
(* The loops and the queue. *)

QueueInv == LoopsInOrder /\ PendingKeysDistinct

\* A retry takes the head of the queue away or keeps it.
LEMMA RetryQueue == TypeOK /\ QueueInv /\ Retry => QueueInv'
<1> SUFFICES ASSUME TypeOK, QueueInv, Retry PROVE QueueInv'
  OBVIOUS
<1>1. /\ pc = "drain" /\ todo # <<>> /\ todo' = Tail(todo)
      /\ still' = Append(still, Head(todo)) \/ still' = still
      /\ UNCHANGED <<pc, pending, delivered>>
  BY DEF Retry, historyVars
<1>2. todo \in Seq(Finding) /\ still \in Seq(Finding)
  BY DEF TypeOK
<1>3. /\ DistinctKeys(todo) /\ DistinctKeys(still) /\ KeysOf(todo) \cap KeysOf(still) = {}
      /\ ToSet(todo) \cup ToSet(still) \subseteq ToSet(pending)
  BY <1>1 DEF QueueInv, LoopsInOrder
<1>4. /\ Head(todo) \in Finding
      /\ ToSet(todo) = {Head(todo)} \cup ToSet(Tail(todo))
      /\ KeysOf(todo) = {Head(todo).key} \cup KeysOf(Tail(todo))
      /\ DistinctKeys(Tail(todo)) /\ Head(todo).key \notin KeysOf(Tail(todo))
  BY <1>1, <1>2, <1>3, TailFacts, ApartTail
<1>5. /\ DistinctKeys(still') /\ KeysOf(still') \subseteq KeysOf(still) \cup {Head(todo).key}
      /\ ToSet(still') \subseteq ToSet(still) \cup {Head(todo)}
  <2> DEFINE kept == Append(still, Head(todo))
  <2>1. Head(todo).key \notin KeysOf(still)
    BY <1>3, <1>4
  <2>2. /\ DistinctKeys(kept) /\ KeysOf(kept) = KeysOf(still) \cup {Head(todo).key}
        /\ ToSet(kept) = ToSet(still) \cup {Head(todo)}
    BY <1>2, <1>3, <1>4, <2>1, AppendFacts
  <2> QED
    BY <1>1, <1>3, <2>2
<1>6. /\ DistinctKeys(todo') /\ KeysOf(todo') \cap KeysOf(still') = {}
      /\ ToSet(todo') \cup ToSet(still') \subseteq ToSet(pending')
  BY <1>1, <1>3, <1>4, <1>5
<1> QED
  BY <1>1, <1>5, <1>6 DEF QueueInv, LoopsInOrder, PendingKeysDistinct

\* A finding that is filed, or queued unless its key is, is not worked on again.
LEMMA FileQueue == TypeOK /\ QueueInv /\ (Skip \/ File) => QueueInv'
<1> SUFFICES ASSUME TypeOK, QueueInv, Skip \/ File PROVE QueueInv'
  OBVIOUS
<1>1. /\ pc = "file" /\ todo # <<>> /\ todo' = Tail(todo)
      /\ pending' = pending \/ pending' = Enqueue(Head(todo))
      /\ UNCHANGED <<pc, still, delivered>>
  BY DEF Skip, File, historyVars
<1>2. todo \in Seq(Finding) /\ pending \in Seq(Finding)
  BY DEF TypeOK
<1>3. IsInjective(todo) /\ ToSet(todo) \subseteq delivered \ ToSet(pending) /\ still = <<>>
      /\ ToSet(pending) \subseteq delivered /\ DistinctKeys(pending)
  BY <1>1 DEF QueueInv, LoopsInOrder, PendingKeysDistinct
<1>4. /\ Head(todo) \in Finding
      /\ ToSet(todo) = {Head(todo)} \cup ToSet(Tail(todo))
      /\ IsInjective(Tail(todo)) /\ Head(todo) \notin ToSet(Tail(todo))
  BY <1>1, <1>2, <1>3, TailFacts, ApartTail
<1>5. ToSet(pending') \subseteq ToSet(pending) \cup {Head(todo)} /\ DistinctKeys(pending')
  BY <1>1, <1>2, <1>3, <1>4, AppendFacts DEF Enqueue
<1> QED
  BY <1>1, <1>3, <1>4, <1>5 DEF QueueInv, LoopsInOrder, PendingKeysDistinct

\* Every step keeps the loops in order and the queue without two of a key.
LEMMA QueueStep == TypeOK /\ JournalInv /\ QueueInv /\ [Next]_vars => QueueInv'
<1> SUFFICES ASSUME TypeOK, JournalInv, QueueInv, [Next]_vars PROVE QueueInv'
  OBVIOUS
<1> USE DEF learnerVars, historyVars
<1>1. CASE Begin
  <2>1. /\ pc' = "drain" /\ todo' = pending /\ still' = <<>>
        /\ UNCHANGED <<pending, delivered>>
    BY <1>1 DEF Begin
  <2> QED
    BY <2>1, PlainFacts DEF QueueInv, LoopsInOrder, PendingKeysDistinct
<1>2. CASE DrainDone
  BY <1>2 DEF DrainDone, QueueInv, LoopsInOrder, PendingKeysDistinct
<1>3. CASE ReadTail
  <2>1. /\ pc = "read" /\ pc' = "extract" /\ UNCHANGED <<pending, still>>
        /\ delivered' = delivered \cup ToSet(todo')
    BY <1>3 DEF ReadTail
  <2>2. IsInjective(todo') /\ ToSet(todo') \cap delivered = {}
    BY <1>3, ReadKeeps
  <2> QED
    BY <2>1, <2>2 DEF QueueInv, LoopsInOrder, PendingKeysDistinct
<1>4. CASE Extract
  <2>1. /\ pc = "extract" /\ pc' = "file" /\ UNCHANGED <<pending, still, delivered>>
        /\ todo' = todo \/ todo' = <<>>
    BY <1>4 DEF Extract
  <2> QED
    BY <2>1, PlainFacts DEF QueueInv, LoopsInOrder, PendingKeysDistinct
<1>5. CASE FileDone
  BY <1>5 DEF FileDone, QueueInv, LoopsInOrder, PendingKeysDistinct
<1>6. CASE Restart
  <2>1. pc' = "idle" /\ todo' = <<>> /\ still' = <<>> /\ pending' = <<>>
    BY <1>6 DEF Restart
  <2> QED
    BY <2>1, PlainFacts DEF QueueInv, LoopsInOrder, PendingKeysDistinct
<1>7. CASE UNCHANGED <<pc, todo, still, pending, delivered>>
  BY <1>7 DEF QueueInv, LoopsInOrder, PendingKeysDistinct
<1> QED
  BY <1>1, <1>2, <1>3, <1>4, <1>5, <1>6, <1>7, RetryQueue, FileQueue
     DEF Next, Pass, Environment, WriteLine, Rotate, SetScope, vars

-----------------------------------------------------------------------------
(* What becomes of the findings. *)

\* Persisting marks a key as seen only with its node recorded and linked.
LEMMA PersistSeen ==
  ASSUME TypeOK, SeenIsStored, NEW cand \in Finding, NEW outcome \in Outcomes(cand),
         store' = StoreAfter(cand, outcome), links' = LinksAfter(cand, outcome),
         seen' = MarkSeen(cand, outcome)
  PROVE  SeenIsStored'
<1>1. cand.key \in Keys /\ cand.line # 0
  BY FilingBounds DEF Finding
<1>2. \A k \in seen : k \in Keys /\ store[k] # 0 /\ links[k] # {}
  BY DEF TypeOK, SeenIsStored
<1>3. scope \in Projects
  BY DEF TypeOK
<1>4. \A k \in Keys : /\ store[k] # 0 => store'[k] # 0
                      /\ links[k] # {} => links'[k] # {}
  BY <1>1 DEF StoreAfter, LinksAfter, TypeOK
<1>5. CASE outcome = "filed"
  <2>1. store' = [store EXCEPT ![cand.key] = cand.line]
    BY <1>5 DEF StoreAfter
  <2>2. links' = [links EXCEPT ![cand.key] = @ \cup {scope}]
    BY <1>5 DEF LinksAfter
  <2>3. store'[cand.key] # 0 /\ links'[cand.key] # {}
    BY <1>1, <2>1, <2>2 DEF TypeOK
  <2> QED
    BY <1>2, <1>4, <1>5, <2>3 DEF SeenIsStored, MarkSeen
<1>6. CASE outcome # "filed"
  BY <1>2, <1>4, <1>6 DEF SeenIsStored, MarkSeen
<1> QED
  BY <1>5, <1>6

\* Every step keeps what is seen stored.
LEMMA SeenStep == TypeOK /\ SeenIsStored /\ [Next]_vars => SeenIsStored'
<1> SUFFICES ASSUME TypeOK, SeenIsStored, [Next]_vars PROVE SeenIsStored'
  OBVIOUS
<1> USE DEF learnerVars, historyVars, memory
<1>1. CASE UNCHANGED <<seen, store, links>>
  BY <1>1 DEF SeenIsStored
<1>2. CASE Retry \/ File
  <2>1. Head(todo) \in Finding
    BY <1>2, TailFacts DEF Retry, File, TypeOK
  <2> QED
    BY <1>2, <2>1, PersistSeen DEF Retry, File
<1>3. CASE Restart
  BY <1>3 DEF Restart, SeenIsStored
<1> QED
  BY <1>1, <1>2, <1>3 DEF Next, Pass, Environment, Begin, DrainDone, ReadTail, Extract, Skip,
                          FileDone, WriteLine, Rotate, SetScope, vars

\* Every step of a drain keeps the queue's candidates.
LEMMA DrainStep == TypeOK /\ DrainKeepsQueue /\ [Next]_vars => DrainKeepsQueue'
<1> SUFFICES ASSUME TypeOK, DrainKeepsQueue, [Next]_vars PROVE DrainKeepsQueue'
  OBVIOUS
<1> USE DEF learnerVars, historyVars, memory
<1>1. CASE UNCHANGED <<pc, pending, seen, todo, still>>
  BY <1>1 DEF DrainKeepsQueue
<1>2. CASE Begin
  BY <1>2 DEF Begin, DrainKeepsQueue
<1>3. CASE Retry
  <2>1. /\ todo # <<>> /\ pc = "drain" /\ todo' = Tail(todo)
        /\ UNCHANGED <<pc, pending>>
    BY <1>3 DEF Retry
  <2>2. Head(todo) \in Finding /\ ToSet(todo) = {Head(todo)} \cup ToSet(todo')
    BY <2>1, TailFacts DEF TypeOK
  <2>3. PICK outcome \in Outcomes(Head(todo)) :
          /\ seen' = MarkSeen(Head(todo), outcome)
          /\ still' = IF KeepInQueue(Head(todo), outcome)
                      THEN Append(still, Head(todo)) ELSE still
    BY <1>3 DEF Retry
  <2>4. ToSet(Append(still, Head(todo))) = ToSet(still) \cup {Head(todo)}
    BY <2>2, AppendFacts DEF TypeOK
  <2>5. seen \subseteq seen' /\ ToSet(still) \subseteq ToSet(still')
    BY <2>3, <2>4 DEF MarkSeen
  <2>6. Head(todo).key \in seen' \/ Head(todo) \in ToSet(still')
    BY <2>3, <2>4 DEF MarkSeen, KeepInQueue
  <2> QED
    BY <2>1, <2>2, <2>5, <2>6 DEF DrainKeepsQueue
<1>4. CASE pc' # "drain"
  BY <1>4 DEF DrainKeepsQueue
<1> QED
  BY <1>1, <1>2, <1>3, <1>4
     DEF Next, Pass, Environment, DrainDone, ReadTail, Extract, Skip, File, FileDone,
         WriteLine, Rotate, SetScope, Restart, vars

\* Every step accounts for the findings.
LEMMA AccountedStep ==
  TypeOK /\ QueueInv /\ DrainKeepsQueue /\ FindingsAccounted /\ [Next]_vars
    => FindingsAccounted'
<1> SUFFICES ASSUME TypeOK, QueueInv, DrainKeepsQueue, FindingsAccounted, [Next]_vars
             PROVE  FindingsAccounted'
  OBVIOUS
<1> USE DEF learnerVars, historyVars, memory
<1>0. todo \in Seq(Finding) /\ still \in Seq(Finding) /\ pending \in Seq(Finding)
  BY DEF TypeOK
<1>1. CASE UNCHANGED <<delivered, seen, pending, dropped, todo>>
  BY <1>1 DEF FindingsAccounted
<1>2. CASE Begin
  <2>1. todo = <<>> /\ UNCHANGED <<delivered, seen, pending, dropped>>
    BY <1>2 DEF Begin, QueueInv, LoopsInOrder
  <2> QED
    BY <2>1, PlainFacts DEF FindingsAccounted
<1>3. CASE Retry
  <2>1. /\ ToSet(todo) \subseteq ToSet(pending)
        /\ UNCHANGED <<delivered, pending, dropped>>
    BY <1>3 DEF Retry, QueueInv, LoopsInOrder
  <2>2. seen \subseteq seen'
    BY <1>3 DEF Retry, MarkSeen
  <2> QED
    BY <2>1, <2>2, PlainFacts DEF FindingsAccounted
<1>4. CASE DrainDone
  <2>1. /\ pc = "drain" /\ todo = <<>> /\ pending' = still
        /\ UNCHANGED <<delivered, seen, dropped, todo>>
    BY <1>4 DEF DrainDone
  <2>2. \A cand \in ToSet(pending) : cand.key \in seen \/ cand \in ToSet(still)
    BY <2>1, PlainFacts DEF DrainKeepsQueue
  <2>3. \A k \in KeysOf(pending) : k \in seen \/ k \in KeysOf(still)
    BY <2>2, PlainFacts
  <2> QED
    BY <2>1, <2>3 DEF FindingsAccounted
<1>5. CASE ReadTail
  <2>1. /\ todo = <<>> /\ delivered' = delivered \cup ToSet(todo')
        /\ UNCHANGED <<seen, pending, dropped>>
    BY <1>5 DEF ReadTail, QueueInv, LoopsInOrder
  <2> QED
    BY <2>1, PlainFacts DEF FindingsAccounted
<1>6. CASE Extract
  <2>1. /\ UNCHANGED <<delivered, seen, pending>>
        /\ \/ UNCHANGED <<todo, dropped>>
           \/ todo' = <<>> /\ dropped' = dropped \cup ToSet(todo)
    BY <1>6 DEF Extract
  <2> QED
    BY <2>1 DEF FindingsAccounted
<1>7. CASE Skip
  <2>1. ToSet(todo) = {Head(todo)} \cup ToSet(todo')
    BY <1>0, <1>7, TailFacts DEF Skip
  <2> QED
    BY <1>7, <2>1 DEF Skip, FindingsAccounted
<1>8. CASE File
  <2>1. Head(todo) \in Finding /\ ToSet(todo) = {Head(todo)} \cup ToSet(todo')
    BY <1>0, <1>8, TailFacts DEF File
  <2>2. PICK outcome \in Outcomes(Head(todo)) :
          /\ seen' = MarkSeen(Head(todo), outcome)
          /\ pending' = IF outcome = "queued" THEN Enqueue(Head(todo)) ELSE pending
          /\ dropped' = IF outcome \in {"failed", "half-filed"}
                        THEN dropped \cup {Head(todo)} ELSE dropped
    BY <1>8 DEF File
  <2>3. KeysOf(Enqueue(Head(todo))) = KeysOf(pending) \cup {Head(todo).key}
    BY <1>0, <2>1, AppendFacts DEF Enqueue
  <2>4. outcome \in {"filed", "failed", "half-filed", "queued"}
    BY <2>1, PersistFacts
  <2>5. seen \subseteq seen' /\ KeysOf(pending) \subseteq KeysOf(pending')
        /\ dropped \subseteq dropped'
    BY <2>2, <2>3 DEF MarkSeen
  <2>6. \/ Head(todo).key \in seen' \/ Head(todo).key \in KeysOf(pending')
        \/ Head(todo) \in dropped'
    BY <2>2, <2>3, <2>4 DEF MarkSeen
  <2>7. delivered' = delivered
    BY <1>8 DEF File
  <2> QED
    BY <2>1, <2>5, <2>6, <2>7 DEF FindingsAccounted
<1>9. CASE Restart
  BY <1>9 DEF Restart, FindingsAccounted
<1> QED
  BY <1>1, <1>2, <1>3, <1>4, <1>5, <1>6, <1>7, <1>8, <1>9
     DEF Next, Pass, Environment, FileDone, WriteLine, Rotate, SetScope, vars

-----------------------------------------------------------------------------
(* The invariant, and the properties it gives. *)

IInv == Inv /\ PendingKeysDistinct /\ FindingsAccounted /\ OffsetSplitsJournal

\* IInv in the parts the steps keep.
LEMMA InvParts ==
  /\ IInv <=> /\ TypeOK /\ JournalInv /\ QueueInv /\ DrainKeepsQueue /\ SeenIsStored
              /\ FindingsAccounted
  /\ IInv' <=> /\ TypeOK' /\ JournalInv' /\ QueueInv' /\ DrainKeepsQueue' /\ SeenIsStored'
               /\ FindingsAccounted'
BY DEF IInv, Inv, JournalInv, QueueInv

\* The invariant holds when a process starts for the first time.
LEMMA InitInv == Init => IInv
<1> SUFFICES ASSUME Init PROVE IInv
  OBVIOUS
<1>1. TypeOK
  <2>1. 0 \in 0..MaxLines /\ 0 \in 0..MaxRestarts /\ 0 \in Nat /\ <<>> \in Seq(Finding)
    BY FilingBounds
  <2>2. rotated \in BOOLEAN /\ pc \in {"idle", "drain", "read", "extract", "file"}
    BY DEF Init
  <2>3. store \in [Keys -> 0..MaxLines] /\ links \in [Keys -> SUBSET Projects]
    BY <2>1 DEF Init
  <2> QED
    BY <2>1, <2>2, <2>3 DEF Init, TypeOK
<1>2. JournalInv
  BY PlainFacts DEF Init, JournalInv, JournalInOrder, ReadBeforeOffset, OffsetSplitsJournal
<1>3. QueueInv /\ DrainKeepsQueue /\ SeenIsStored /\ FindingsAccounted
  BY PlainFacts DEF Init, QueueInv, LoopsInOrder, PendingKeysDistinct, DrainKeepsQueue,
                    SeenIsStored, FindingsAccounted
<1> QED
  BY <1>1, <1>2, <1>3, InvParts

\* Every step keeps the invariant.
LEMMA StepInv == IInv /\ [Next]_vars => IInv'
BY InvParts, TypeStep, JournalStep, QueueStep, DrainStep, SeenStep, AccountedStep

\* The invariant holds in every reachable state.
LEMMA Invariance == Spec => []IInv
BY InitInv, StepInv, PTL DEF Spec

\* In every reachable state a drain has kept, filed or still to retry what was queued,
\* what is seen is stored, and the loops run over what they were given
\* (learner.go:234-273 and 299-407).
THEOREM FilingInvariant == Spec => []Inv
<1>1. IInv => Inv
  BY DEF IInv
<1> QED
  BY <1>1, Invariance, PTL

\* The retry queue never holds a key twice (learner.go:354-360).
THEOREM QueueDistinct == Spec => []PendingKeysDistinct
<1>1. IInv => PendingKeysDistinct
  BY DEF IInv
<1> QED
  BY <1>1, Invariance, PTL

\* A key is skipped only if its node is in the memory and linked (learner.go:280-289).
THEOREM SeenStored == Spec => []SeenIsStored
<1>1. IInv => SeenIsStored
  BY DEF IInv, Inv
<1> QED
  BY <1>1, Invariance, PTL

\* No finding vanishes: filed, queued, still to be filed or lost to an error
\* (learner.go:234-273 and 342-360).
THEOREM NoneVanishes == Spec => []FindingsAccounted
<1>1. IInv => FindingsAccounted
  BY DEF IInv
<1> QED
  BY <1>1, Invariance, PTL

\* The offset splits the journal (learner.go:375-407).
THEOREM OffsetSplits == Spec => []OffsetSplitsJournal
<1>1. IInv => OffsetSplitsJournal
  BY DEF IInv
<1> QED
  BY <1>1, Invariance, PTL

-----------------------------------------------------------------------------
(* Filing implements the ledger of findings. *)

\* What is in custody, before and after a step.
LEMMA CustodyFacts ==
  /\ pc = "drain" => Custody = ToSet(todo) \cup ToSet(still)
  /\ pc \in {"extract", "file"} => Custody = ToSet(todo) \cup ToSet(pending)
  /\ pc \in {"idle", "read"} => Custody = ToSet(pending)
  /\ pc' = "drain" => Custody' = ToSet(todo') \cup ToSet(still')
  /\ pc' \in {"extract", "file"} => Custody' = ToSet(todo') \cup ToSet(pending')
  /\ pc' \in {"idle", "read"} => Custody' = ToSet(pending')
BY DEF Custody

\* A step that changes nothing in the ledger.
LEMMA Stutter == UNCHANGED <<delivered, seen, dropped>> /\ Custody' = Custody
                   => UNCHANGED Ledger!vars
BY DEF Ledger!vars

\* A retry settles the head, or keeps it.
LEMMA RetryLedger == IInv /\ Retry => [Ledger!Next]_(Ledger!vars)
<1> SUFFICES ASSUME IInv, Retry PROVE Ledger!Next \/ UNCHANGED Ledger!vars
  OBVIOUS
<1> DEFINE head == Head(todo)
<1>1. /\ pc = "drain" /\ todo # <<>> /\ todo' = Tail(todo)
      /\ UNCHANGED <<pc, pending, delivered, dropped>>
  BY DEF Retry, historyVars
<1>2. todo \in Seq(Finding) /\ still \in Seq(Finding)
  BY DEF IInv, Inv, TypeOK
<1>3. DistinctKeys(todo) /\ KeysOf(todo) \cap KeysOf(still) = {}
  BY <1>1 DEF IInv, Inv, LoopsInOrder
<1>4. /\ head \in Finding /\ ToSet(todo) = {head} \cup ToSet(todo')
      /\ head.key \in KeysOf(todo) /\ head.key \notin KeysOf(todo')
  BY <1>1, <1>2, <1>3, TailFacts, ApartTail
<1>5. head \notin ToSet(todo') /\ head \notin ToSet(still)
  BY <1>3, <1>4, PlainFacts
<1>6. PICK outcome \in Outcomes(head) :
        /\ seen' = MarkSeen(head, outcome)
        /\ still' = IF KeepInQueue(head, outcome) THEN Append(still, head) ELSE still
  BY DEF Retry
<1>7. ToSet(Append(still, head)) = ToSet(still) \cup {head}
  BY <1>2, <1>4, AppendFacts
<1> HIDE DEF head
<1>8. Custody = ToSet(todo) \cup ToSet(still) /\ Custody' = ToSet(todo') \cup ToSet(still')
  BY <1>1, CustodyFacts
<1>9. CASE outcome = "filed"
  <2>1. seen' = seen \cup {head.key} /\ still' = still
    BY <1>6, <1>9 DEF MarkSeen, KeepInQueue
  <2>2. Custody' = Custody \ {head} /\ head \in Custody
    BY <1>4, <1>5, <1>8, <2>1
  <2>3. Ledger!Settle(head)
    BY <1>1, <2>1, <2>2 DEF Ledger!Settle, FindingKey
  <2> QED
    BY <2>2, <2>3 DEF Ledger!Next
<1>10. CASE outcome # "filed"
  <2>1. seen' = seen /\ still' = Append(still, head)
    BY <1>6, <1>10 DEF MarkSeen, KeepInQueue
  <2>2. Custody' = Custody
    BY <1>4, <1>7, <1>8, <2>1
  <2> QED
    BY <1>1, <2>1, <2>2, Stutter
<1> QED
  BY <1>9, <1>10

\* The tail that was read is taken.
LEMMA ReadLedger == IInv /\ ReadTail => [Ledger!Next]_(Ledger!vars)
<1> SUFFICES ASSUME IInv, ReadTail PROVE Ledger!Take
  BY DEF Ledger!Next
<1>1. /\ pc = "read" /\ pc' = "extract" /\ delivered' = delivered \cup ToSet(todo')
      /\ UNCHANGED <<pending, seen, dropped>>
  BY DEF ReadTail
<1>2. ToSet(todo') \cap delivered = {}
  BY InvParts, ReadKeeps
<1>3. Custody = ToSet(pending) /\ Custody' = ToSet(todo') \cup ToSet(pending')
  BY <1>1, CustodyFacts
<1> QED
  BY <1>1, <1>2, <1>3 DEF Ledger!Take

\* A failed extraction loses the tail.
LEMMA ExtractLedger == IInv /\ Extract => [Ledger!Next]_(Ledger!vars)
<1> SUFFICES ASSUME IInv, Extract PROVE Ledger!Next \/ UNCHANGED Ledger!vars
  OBVIOUS
<1>1. /\ pc = "extract" /\ pc' = "file" /\ UNCHANGED <<pending, seen, delivered>>
      /\ \/ UNCHANGED <<todo, dropped>>
         \/ todo' = <<>> /\ dropped' = dropped \cup ToSet(todo)
  BY DEF Extract
<1>2. Custody = ToSet(todo) \cup ToSet(pending) /\ Custody' = ToSet(todo') \cup ToSet(pending')
  BY <1>1, CustodyFacts
<1>3. ToSet(todo) \cap ToSet(pending) = {}
  BY <1>1 DEF IInv, Inv, LoopsInOrder
<1>4. CASE UNCHANGED <<todo, dropped>>
  BY <1>1, <1>2, <1>4, Stutter
<1>5. CASE todo' = <<>> /\ dropped' = dropped \cup ToSet(todo)
  <2>1. Custody' = ToSet(pending) /\ Custody \ Custody' = ToSet(todo)
    BY <1>1, <1>2, <1>3, <1>5, PlainFacts
  <2>2. Ledger!Lose
    BY <1>1, <1>2, <1>5, <2>1 DEF Ledger!Lose
  <2> QED
    BY <2>2 DEF Ledger!Next
<1> QED
  BY <1>1, <1>4, <1>5

\* What the filing loop knows of the finding it is at.
LEMMA FileFacts ==
  ASSUME IInv, Skip \/ File
  PROVE  /\ Head(todo) \in Finding /\ Head(todo) \in Custody
         /\ Custody = {Head(todo)} \cup ToSet(todo') \cup ToSet(pending)
         /\ Custody' = ToSet(todo') \cup ToSet(pending')
         /\ Head(todo) \notin ToSet(todo') /\ Head(todo) \notin ToSet(pending)
<1>1. pc = "file" /\ todo # <<>> /\ todo' = Tail(todo) /\ UNCHANGED pc
  BY DEF Skip, File
<1>2. todo \in Seq(Finding) /\ IsInjective(todo) /\ ToSet(todo) \cap ToSet(pending) = {}
  BY <1>1 DEF IInv, Inv, TypeOK, LoopsInOrder
<1>3. /\ Head(todo) \in Finding /\ ToSet(todo) = {Head(todo)} \cup ToSet(todo')
      /\ Head(todo) \notin ToSet(todo')
  BY <1>1, <1>2, TailFacts, ApartTail
<1>4. Custody = ToSet(todo) \cup ToSet(pending) /\ Custody' = ToSet(todo') \cup ToSet(pending')
  BY <1>1, CustodyFacts
<1> QED
  BY <1>2, <1>3, <1>4

\* A finding whose key is seen is superseded.
LEMMA SkipLedger == IInv /\ Skip => [Ledger!Next]_(Ledger!vars)
<1> SUFFICES ASSUME IInv, Skip PROVE Ledger!Next
  OBVIOUS
<1>1. /\ Head(todo).key \in seen /\ UNCHANGED <<pending, seen, delivered, dropped>>
  BY DEF Skip, historyVars
<1>2. Head(todo) \in Custody /\ Custody' = Custody \ {Head(todo)}
  BY <1>1, FileFacts
<1>3. Ledger!Supersede(Head(todo))
  BY <1>1, <1>2 DEF Ledger!Supersede, FindingKey
<1> QED
  BY <1>2, <1>3 DEF Ledger!Next

\* A finding is filed, lost, queued, or superseded by the queued one of its key.
LEMMA FileLedger == IInv /\ File => [Ledger!Next]_(Ledger!vars)
<1> SUFFICES ASSUME IInv, File PROVE Ledger!Next \/ UNCHANGED Ledger!vars
  OBVIOUS
<1> DEFINE head == Head(todo)
<1>1. PICK outcome \in Outcomes(head) :
        /\ seen' = MarkSeen(head, outcome)
        /\ pending' = IF outcome = "queued" THEN Enqueue(head) ELSE pending
        /\ dropped' = IF outcome \in {"failed", "half-filed"}
                      THEN dropped \cup {head} ELSE dropped
  BY DEF File
<1>2. delivered' = delivered
  BY DEF File
<1>3. /\ head \in Finding /\ head \in Custody
      /\ Custody = {head} \cup ToSet(todo') \cup ToSet(pending)
      /\ Custody' = ToSet(todo') \cup ToSet(pending')
      /\ head \notin ToSet(todo') /\ head \notin ToSet(pending)
  BY FileFacts
<1>4. outcome \in {"filed", "failed", "half-filed", "queued"}
  BY <1>3, PersistFacts DEF IInv, Inv
<1>5. pending \in Seq(Finding)
  BY DEF IInv, Inv, TypeOK
<1> HIDE DEF head
<1>6. CASE outcome = "filed"
  <2>1. seen' = seen \cup {head.key} /\ pending' = pending /\ dropped' = dropped
    BY <1>1, <1>6 DEF MarkSeen
  <2>2. Ledger!Settle(head)
    BY <1>2, <1>3, <2>1 DEF Ledger!Settle, FindingKey
  <2> QED
    BY <1>3, <2>2 DEF Ledger!Next
<1>7. CASE outcome \in {"failed", "half-filed"}
  <2>1. seen' = seen /\ pending' = pending /\ dropped' = dropped \cup {head}
    BY <1>1, <1>7 DEF MarkSeen
  <2>2. Ledger!Lose
    BY <1>2, <1>3, <2>1 DEF Ledger!Lose
  <2> QED
    BY <2>2 DEF Ledger!Next
<1>8. CASE outcome = "queued" /\ head.key \in KeysOf(pending)
  <2>1. seen' = seen /\ pending' = pending /\ dropped' = dropped
    BY <1>1, <1>8 DEF MarkSeen, Enqueue
  <2>2. \E cand \in ToSet(pending) : cand.key = head.key
    BY <1>8, PlainFacts
  <2>3. Ledger!Supersede(head)
    BY <1>2, <1>3, <2>1, <2>2 DEF Ledger!Supersede, FindingKey
  <2> QED
    BY <1>3, <2>3 DEF Ledger!Next
<1>9. CASE outcome = "queued" /\ head.key \notin KeysOf(pending)
  <2>1. seen' = seen /\ pending' = Append(pending, head) /\ dropped' = dropped
    BY <1>1, <1>9 DEF MarkSeen, Enqueue
  <2>2. ToSet(pending') = ToSet(pending) \cup {head}
    BY <1>3, <1>5, <2>1, AppendFacts
  <2> QED
    BY <1>2, <1>3, <2>1, <2>2, Stutter
<1> QED
  BY <1>4, <1>6, <1>7, <1>8, <1>9

\* Every step of the code is a step of the ledger, or leaves it alone.
LEMMA LedgerStep == IInv /\ [Next]_vars => [Ledger!Next]_(Ledger!vars)
<1> SUFFICES ASSUME IInv, [Next]_vars PROVE [Ledger!Next]_(Ledger!vars)
  OBVIOUS
<1> USE DEF learnerVars, historyVars
<1>1. CASE Begin
  <2>1. /\ pc = "idle" /\ pc' = "drain" /\ todo' = pending /\ still' = <<>>
        /\ UNCHANGED <<seen, delivered, dropped>>
    BY <1>1 DEF Begin
  <2>2. Custody' = Custody
    BY <2>1, CustodyFacts, PlainFacts
  <2> QED
    BY <2>1, <2>2, Stutter
<1>2. CASE DrainDone
  <2>1. /\ pc = "drain" /\ pc' = "read" /\ todo = <<>> /\ pending' = still
        /\ UNCHANGED <<seen, delivered, dropped>>
    BY <1>2 DEF DrainDone
  <2>2. Custody' = Custody
    BY <2>1, CustodyFacts, PlainFacts
  <2> QED
    BY <2>1, <2>2, Stutter
<1>3. CASE FileDone
  <2>1. /\ pc = "file" /\ pc' = "idle" /\ todo = <<>>
        /\ UNCHANGED <<seen, pending, delivered, dropped>>
    BY <1>3 DEF FileDone
  <2>2. Custody' = Custody
    BY <2>1, CustodyFacts, PlainFacts
  <2> QED
    BY <2>1, <2>2, Stutter
<1>4. CASE UNCHANGED <<pc, todo, still, pending, seen, delivered, dropped>>
  BY <1>4, Stutter DEF Custody
<1>5. CASE Restart
  <2>1. /\ pc' = "idle" /\ pending' = <<>>
        /\ delivered' = {} /\ seen' = {} /\ dropped' = {}
    BY <1>5 DEF Restart
  <2>2. Ledger!Wipe
    BY <2>1, CustodyFacts, PlainFacts DEF Ledger!Wipe
  <2> QED
    BY <2>2 DEF Ledger!Next
<1> QED
  BY <1>1, <1>2, <1>3, <1>4, <1>5, RetryLedger, ReadLedger, ExtractLedger, SkipLedger,
     FileLedger DEF Next, Pass, Environment, WriteLine, Rotate, SetScope, vars

\* Filing implements the ledger of findings: a finding is taken once, and leaves
\* custody only filed, superseded or lost to an error (learner.go:234-273 and 299-407).
THEOREM ImplementsLedger == Spec => LedgerSpec
<1>1. Init => Ledger!Init
  BY PlainFacts, CustodyFacts DEF Init, Ledger!Init
<1> QED
  BY <1>1, LedgerStep, Invariance, PTL DEF Spec, LedgerSpec, Ledger!Spec
=============================================================================
