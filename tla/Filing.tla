------------------------------- MODULE Filing -------------------------------
(* What one learning pass files: the retry of the queued candidates, the read *)
(* of the journal tail, the extraction, and the persisting of each candidate. *)
(* Passes do not interleave (module Learner), so there is one pass at a time;   *)
(* the writer of the journal appends to it and rotates it at any moment, and a  *)
(* restart of the host may fall between any two steps: the memory and the      *)
(* journal survive it, the Learner's fields do not.                           *)
(*                                                                           *)
(* A line of the journal is one finding.  The extractor, which is not part of  *)
(* this repository, is taken to return the findings of the tail it is given,   *)
(* in order, or to fail.  SetScope waits for the pass in progress, so the        *)
(* project changes between passes; the queue and the seen keys are carried over.  *)
EXTENDS Integers, Sequences, SequencesExt

CONSTANTS
  Keys,         \* node keys
  Projects,     \* projects SetScope installs
  MaxLines,     \* bound: lines ever written to the journal
  MaxRestarts   \* bound: restarts of the host

ASSUME FilingBounds == MaxLines \in Nat /\ MaxRestarts \in Nat

VARIABLES
  journal,      \* the lines of the journal file
  written,      \* lines ever written
  offset,       \* Learner.offset, in lines
  seen,         \* Learner.seen: keys filed in this process's life
  pending,      \* Learner.pending: the retry queue
  store,        \* the memory: the line each key was last filed from, 0 for none
  links,        \* the memory: the projects each key is linked from
  scope,        \* the project findings are filed under
  pc,           \* the step the pass is at
  todo,         \* candidates the running loop has still to persist
  still,        \* drain's `still`
  delivered,    \* history: findings handed to the extractor
  dropped,      \* history: findings lost to an error, which the code does not retry
  rotated,      \* history: has a rotation gone unnoticed so far?
  restarts

learnerVars == <<offset, seen, pending, pc, todo, still>>
historyVars == <<delivered, dropped, rotated>>
memory == <<store, links>>
vars == <<journal, written, learnerVars, memory, scope, historyVars, restarts>>

\* A finding's body either fits the memory's budget for its kind or exceeds it;
\* line tells a newer finding from an older one under the same key.
Finding == [key : Keys, fits : BOOLEAN, line : 1..MaxLines]

KeysOf(cands) == {cands[i].key : i \in DOMAIN cands}
DistinctKeys(cands) == \A i, j \in DOMAIN cands : cands[i].key = cands[j].key => i = j

Init == /\ journal = <<>> /\ written = 0
        /\ offset = 0 /\ seen = {} /\ pending = <<>>
        /\ store = [k \in Keys |-> 0] /\ links = [k \in Keys |-> {}]
        /\ scope \in Projects
        /\ pc = "idle" /\ todo = <<>> /\ still = <<>>
        /\ delivered = {} /\ dropped = {} /\ rotated = FALSE
        /\ restarts = 0

-----------------------------------------------------------------------------
(* The environment. *)

WriteLine(k, fits) ==
  /\ written < MaxLines
  /\ written' = written + 1
  /\ journal' = Append(journal, [key |-> k, fits |-> fits, line |-> written + 1])
  /\ UNCHANGED <<learnerVars, memory, scope, historyVars, restarts>>

\* It takes mu, which a pass holds to its end.
SetScope(p) == /\ pc = "idle"
               /\ scope' = p
               /\ UNCHANGED <<journal, written, learnerVars, memory, historyVars, restarts>>

Rotate == /\ journal # <<>>
          /\ journal' = <<>>
          /\ rotated' = (rotated \/ offset > 0)
          /\ UNCHANGED <<written, learnerVars, memory, scope, delivered, dropped, restarts>>

Restart == /\ restarts < MaxRestarts
           /\ restarts' = restarts + 1
           /\ offset' = 0 /\ seen' = {} /\ pending' = <<>>
           /\ pc' = "idle" /\ todo' = <<>> /\ still' = <<>>
           /\ delivered' = {} /\ dropped' = {} /\ rotated' = FALSE
           /\ UNCHANGED <<journal, written, memory, scope>>

-----------------------------------------------------------------------------
(* Persisting one candidate. *)

\* A body over budget is filed only if the Consolidator shrinks it; without one,
\* with a useless result, or refused again, it is queued.  Any write may fail, and
\* a node may have been recorded before the link to its scope root failed.
Outcomes(cand) == {"filed", "failed", "half-filed"} \cup
                  (IF cand.fits THEN {} ELSE {"queued"})

StoreAfter(cand, outcome) ==
  IF outcome \in {"filed", "half-filed"} THEN [store EXCEPT ![cand.key] = cand.line]
                                         ELSE store

\* The link to the root of the project comes after the node.
LinksAfter(cand, outcome) ==
  IF outcome = "filed" THEN [links EXCEPT ![cand.key] = @ \cup {scope}] ELSE links

MarkWhateverTheOutcome(cand, outcome) == seen \cup {cand.key}
MarkSeen(cand, outcome) == IF outcome = "filed" THEN seen \cup {cand.key} ELSE seen

EnqueueWithoutDedup(cand) == Append(pending, cand)
Enqueue(cand) == IF cand.key \in KeysOf(pending) THEN pending
                                                 ELSE Append(pending, cand)

-----------------------------------------------------------------------------
(* One pass. *)

Begin == /\ pc = "idle"
         /\ pc' = "drain" /\ todo' = pending /\ still' = <<>>
         /\ UNCHANGED <<journal, written, offset, seen, pending, memory, historyVars,
                        scope, restarts>>

KeepOnlyRefused(cand, outcome) == outcome = "queued"
KeepInQueue(cand, outcome) == outcome # "filed"

Retry == /\ pc = "drain" /\ todo # <<>>
         /\ \E outcome \in Outcomes(Head(todo)) :
              /\ store' = StoreAfter(Head(todo), outcome)
              /\ links' = LinksAfter(Head(todo), outcome)
              /\ seen' = MarkSeen(Head(todo), outcome)
              /\ still' = IF KeepInQueue(Head(todo), outcome)
                          THEN Append(still, Head(todo)) ELSE still
         /\ todo' = Tail(todo)
         /\ UNCHANGED <<journal, written, offset, pending, pc, historyVars, scope, restarts>>

DrainDone == /\ pc = "drain" /\ todo = <<>>
             /\ pending' = still /\ still' = <<>>
             /\ pc' = "read"
             /\ UNCHANGED <<journal, written, offset, seen, todo, memory, historyVars,
                            scope, restarts>>

\* Stat, then seek: a file shorter than the offset is read from its start.
ReadStart == IF Len(journal) < offset THEN 0 ELSE offset

OffsetOfTailOnly(start, tail) == Len(tail)
OffsetAfter(start, tail) == start + Len(tail)

\* The whole rest of the file, or nothing when it cannot be opened or read.
ReadTail ==
  /\ pc = "read"
  /\ pc' = "extract"
  /\ \/ /\ todo' = SubSeq(journal, ReadStart + 1, Len(journal))
        /\ offset' = OffsetAfter(ReadStart, todo')
        /\ rotated' = (rotated /\ ReadStart = offset)
     \/ /\ todo' = <<>>                      \* open failed
        /\ UNCHANGED <<offset, rotated>>
     \/ /\ todo' = <<>>                      \* seek or read failed
        /\ offset' = ReadStart
        /\ rotated' = (rotated /\ ReadStart = offset)
  /\ delivered' = delivered \cup ToSet(todo')
  /\ UNCHANGED <<journal, written, seen, pending, still, memory, dropped, scope, restarts>>

\* A failed extraction loses the tail, which has been consumed.
Extract == /\ pc = "extract"
           /\ pc' = "file"
           /\ \/ UNCHANGED <<todo, dropped>>
              \/ /\ todo' = <<>>
                 /\ dropped' = dropped \cup ToSet(todo)
           /\ UNCHANGED <<journal, written, offset, seen, pending, still, memory,
                          delivered, rotated, scope, restarts>>

Skip == /\ pc = "file" /\ todo # <<>>
        /\ Head(todo).key \in seen
        /\ todo' = Tail(todo)
        /\ UNCHANGED <<journal, written, offset, seen, pending, pc, still, memory,
                       historyVars, scope, restarts>>

File == /\ pc = "file" /\ todo # <<>>
        /\ Head(todo).key \notin seen
        /\ \E outcome \in Outcomes(Head(todo)) :
             /\ store' = StoreAfter(Head(todo), outcome)
             /\ links' = LinksAfter(Head(todo), outcome)
             /\ seen' = MarkSeen(Head(todo), outcome)
             /\ pending' = IF outcome = "queued" THEN Enqueue(Head(todo)) ELSE pending
             /\ dropped' = IF outcome \in {"failed", "half-filed"}
                           THEN dropped \cup {Head(todo)} ELSE dropped
        /\ todo' = Tail(todo)
        /\ UNCHANGED <<journal, written, offset, pc, still, delivered, rotated,
                       scope, restarts>>

FileDone == /\ pc = "file" /\ todo = <<>>
            /\ pc' = "idle"
            /\ UNCHANGED <<journal, written, offset, seen, pending, todo, still, memory,
                           historyVars, scope, restarts>>

Pass == Begin \/ Retry \/ DrainDone \/ ReadTail \/ Extract \/ Skip \/ File \/ FileDone

Environment == \/ \E k \in Keys, fits \in BOOLEAN : WriteLine(k, fits)
               \/ Rotate
               \/ \E p \in Projects : SetScope(p)
               \/ Restart

Next == Pass \/ Environment

Spec == Init /\ [][Next]_vars

-----------------------------------------------------------------------------
(* Properties. *)

TypeOK ==
  /\ written \in 0..MaxLines /\ restarts \in 0..MaxRestarts
  /\ journal \in Seq(Finding)
  /\ todo \in Seq(Finding) /\ still \in Seq(Finding) /\ pending \in Seq(Finding)
  /\ offset \in Nat
  /\ seen \subseteq Keys
  /\ store \in [Keys -> 0..MaxLines]
  /\ links \in [Keys -> SUBSET Projects] /\ scope \in Projects
  /\ pc \in {"idle", "drain", "read", "extract", "file"}
  /\ delivered \subseteq Finding /\ dropped \subseteq Finding
  /\ rotated \in BOOLEAN

\* The retry queue never holds two candidates for one key, across passes, failed
\* retries and re-extractions (TestQueueDedupsByKey in learner_budget_test.go): a
\* drain would file both, whichever is the newer.
PendingKeysDistinct == DistinctKeys(pending)

\* A key is skipped as seen only if its node is in the memory and hangs from the root
\* of some project, where a recall finds it: not after a link that failed, and not
\* because of a node recorded in an earlier life (learner.go:250-264 and 280-289).
SeenIsStored == \A k \in seen : store[k] # 0 /\ links[k] # {}

\* No finding vanishes: what the extractor was given in this process's life is filed
\* or its key is, waits in the queue (itself or an older candidate of its key), is
\* still to be filed, or was lost to an error.  A queued candidate survives every
\* kind of failed retry (learner.go:342-360).
FindingsAccounted ==
  \A cand \in delivered : \/ cand.key \in seen
                          \/ cand.key \in KeysOf(pending)
                          \/ cand \in dropped
                          \/ cand \in ToSet(todo)

\* The offset splits the journal into what the extractor was given and what it was
\* not (learner.go:375-407): no line is skipped and none is given twice, through
\* failed opens, failed reads and rotations, unless the file has been rotated and
\* has grown past the offset again before a pass looked at it.
OffsetSplitsJournal ==
  ~rotated => /\ offset <= Len(journal)
              /\ \A i \in DOMAIN journal : journal[i] \in delivered <=> i <= offset

\* The ledger of findings: the queue, and what the running loop has still to do (a
\* drain runs over the queue itself), are in custody; the rest is as named.
Custody == CASE pc = "drain" -> ToSet(todo) \cup ToSet(still)
             [] pc \in {"extract", "file"} -> ToSet(todo) \cup ToSet(pending)
             [] pc \in {"idle", "read"} -> ToSet(pending)

FindingKey(cand) == cand.key

Ledger == INSTANCE FindingLedger WITH
            KeyOf <- FindingKey, taken <- delivered, custody <- Custody,
            settled <- seen, lost <- dropped

\* Filing implements the ledger: through drains, retries, rotations and restarts a
\* finding is taken once, and leaves custody only filed, superseded or lost to an error
\* (learner.go:234-273 and 299-360).
LedgerSpec == Ledger!Spec

\* What TestPersistEnqueuesWhenNoConsolidator asserts (learner_budget_test.go:118-119):
\* a candidate waiting in the queue is not marked seen.
QueuedNotSeen == pc = "idle" => seen \cap KeysOf(pending) = {}

-----------------------------------------------------------------------------
(* What the properties rest on. *)

\* While drain runs, each queued candidate has been filed, has been kept, or is
\* still to be retried.
DrainKeepsQueue ==
  pc = "drain" => \A cand \in ToSet(pending) : \/ cand.key \in seen
                                              \/ cand \in ToSet(still)
                                              \/ cand \in ToSet(todo)

\* What the journal holds, and what the extractor was given, was written, and the
\* journal is in the order of writing.
JournalInOrder ==
  /\ \A i, j \in DOMAIN journal : i < j => journal[i].line < journal[j].line
  /\ \A cand \in ToSet(journal) \cup delivered : cand.line <= written

\* A line the extractor was given lies before the offset, and no read starts over
\* while the journal holds one.
ReadBeforeOffset ==
  \A i \in DOMAIN journal : journal[i] \in delivered => i <= offset /\ offset <= Len(journal)

\* The loops work on what they were given, each candidate once: drain on the queue,
\* filing on findings that were never queued.
LoopsInOrder ==
  /\ ToSet(pending) \subseteq delivered
  /\ pc \in {"idle", "read"} => todo = <<>>
  /\ pc # "drain" => still = <<>>
  /\ pc = "drain" => /\ DistinctKeys(todo) /\ DistinctKeys(still)
                     /\ KeysOf(todo) \cap KeysOf(still) = {}
                     /\ ToSet(todo) \cup ToSet(still) \subseteq ToSet(pending)
  /\ pc \in {"extract", "file"} => /\ IsInjective(todo)
                                   /\ ToSet(todo) \subseteq delivered \ ToSet(pending)

Inv == TypeOK /\ DrainKeepsQueue /\ SeenIsStored /\ JournalInOrder /\ ReadBeforeOffset
              /\ LoopsInOrder
=============================================================================
