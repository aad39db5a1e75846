------------------------------ MODULE Session ------------------------------
(* What a Curator, and a Learner with its raw archive on, keep for one session:  *)
(* the rolling transcript (Observe), the raw archive of turns, the queue of      *)
(* recall hits (React and Context) and the projection of skills (LearnedSkills   *)
(* and SkillUsed), while SetScope changes the project and the host restarts.     *)
(*                                                                             *)
(* Turns may be observed on several goroutines.  React, Context, LearnedSkills    *)
(* and SkillUsed come from the host's turn loop, SetScope at any moment.  Only    *)
(* single calls to the memory are atomic, and any may fail.                      *)
EXTENDS Integers, Sequences, SequencesExt

CONSTANTS
  Procs,       \* goroutines that observe turns
  Projects,    \* projects SetScope installs
  Agent,       \* the session's private root
  Names,       \* names of skills
  None,
  MaxTurns,    \* maxTurns, the length of the transcript
  MaxPending,  \* maxPending, the length of the queue of hits
  RecallK,     \* recallK, the hits of one search
  MaxCalls,    \* bound: calls of the host
  MaxBoots     \* bound: lives of the host's process

ASSUME SessionRoots == Agent \notin Projects /\ None \notin Projects \cup {Agent}
ASSUME SessionLimits == {MaxTurns, MaxPending, RecallK, MaxBoots} \subseteq Nat \ {0}
ASSUME SessionBounds == MaxCalls \in Nat

VARIABLES
  transcript,  \* the session node's body: turns, newest first
  observing,   \* each goroutine's Observe in progress
  rawEpoch, rawSeq,   \* the Learner's, 0 before the first turn
  archive,     \* the memory's raw nodes: a turn under a key
  scope,       \* the project SetScope installed last
  skills,      \* the memory's skill nodes
  projecting,  \* LearnedSkills in progress: the scope and nodes it read
  projected,   \* Curator.projected
  using,       \* SkillUsed in progress: its projection, and the node it will write back
  pending,     \* Curator.pending: queued hits
  turns, boots, calls,   \* counters: turns observed, lives of the process, calls
  recorded,    \* history: turns recorded, newest first
  calm,        \* history: turns recorded since one was lost to an error or a race
  archived,    \* history: turns the raw archive has recorded
  queued, delivered,  \* history: hits put in the queue, and shown by a Context
  disk         \* history: the projection the host holds, as LearnedSkills read it

transcriptVars == <<transcript, turns, recorded, calm>>
rawVars == <<rawEpoch, rawSeq, archive, archived>>
skillVars == <<skills, projecting, projected, using, disk>>
hitVars == <<pending, queued, delivered>>
vars == <<transcriptVars, rawVars, skillVars, hitVars, observing, scope, boots, calls>>

SkillKeys == (Projects \cup {Agent}) \X Names
NothingProjected == [n \in Names |-> None]

Init == /\ transcript = <<>> /\ turns = 0 /\ recorded = <<>> /\ calm = 0
        /\ observing = [p \in Procs |-> None]
        /\ rawEpoch = 0 /\ rawSeq = 0 /\ archive = {} /\ archived = {}
        /\ scope \in Projects
        /\ skills \in [SkillKeys -> {"none", "active"}]
        /\ projecting = None /\ projected = NothingProjected
        /\ using = None /\ disk = None
        /\ pending = <<>> /\ queued = 0 /\ delivered = 0
        /\ boots = 1 /\ calls = 0

\* Bound only: the host makes so many calls.
Call == calls < MaxCalls /\ calls' = calls + 1

Shorter(a, b) == IF a < b THEN a ELSE b
FirstOf(seq, n) == SubSeq(seq, 1, Shorter(n, Len(seq)))

-----------------------------------------------------------------------------
(* Observe: the transcript, then the raw archive. *)

KeepMaxTurns(prev) == FirstOf(prev, MaxTurns)
OneLineShort(prev) == FirstOf(prev, MaxTurns - 2)
CapLines(prev) == FirstOf(prev, MaxTurns - 1)

OldestFirst(turn, prev) == Append(CapLines(prev), turn)
NewBody(turn, prev) == <<turn>> \o CapLines(prev)

\* A Recall that fails is taken for an empty transcript.
ObserveRecall(p) ==
  /\ observing[p] = None /\ Call
  /\ turns' = turns + 1
  /\ \E prev \in {transcript, <<>>} :
       observing' = [observing EXCEPT ![p] =
                       [pc |-> "record", turn |-> turns + 1, prev |-> prev,
                        epoch |-> 0, seq |-> 0]]
  /\ UNCHANGED <<transcript, recorded, calm, rawVars, skillVars, hitVars, scope, boots>>

ObserveRecord(p) ==
  /\ observing[p] # None /\ observing[p].pc = "record"
  /\ LET o == observing[p] IN
       \/ /\ transcript' = NewBody(o.turn, o.prev)
          /\ recorded' = <<o.turn>> \o recorded
          /\ calm' = IF o.prev = transcript THEN calm + 1 ELSE 1
       \/ UNCHANGED <<transcript, recorded, calm>>
  /\ observing' = [observing EXCEPT ![p].pc = "stamp"]
  /\ UNCHANGED <<turns, rawVars, skillVars, hitVars, scope, boots, calls>>

\* Under stampMu: the first turn of a process takes the epoch from the clock, which
\* has moved on since the process before it.
Epoch == IF rawEpoch = 0 THEN boots ELSE rawEpoch

ObserveStamp(p) ==
  /\ observing[p] # None /\ observing[p].pc = "stamp"
  /\ rawEpoch' = Epoch /\ rawSeq' = rawSeq + 1
  /\ observing' = [observing EXCEPT ![p].pc = "raw", ![p].epoch = Epoch,
                                    ![p].seq = rawSeq + 1]
  /\ UNCHANGED <<archive, archived, transcriptVars, skillVars, hitVars, scope, boots,
                 calls>>

RawKeyOfTheMoment(o) == <<rawEpoch, rawSeq>>
RawKeyWithoutEpoch(o) == <<0, o.seq>>
RawKey(o) == <<o.epoch, o.seq>>

RecordRaw(p) ==
  /\ observing[p] # None /\ observing[p].pc = "raw"
  /\ LET o == observing[p] IN
       \/ /\ archive' = {e \in archive : e.key # RawKey(o)} \cup
                        {[key |-> RawKey(o), turn |-> o.turn]}
          /\ archived' = archived \cup {o.turn}
       \/ UNCHANGED <<archive, archived>>
  /\ observing' = [observing EXCEPT ![p] = None]
  /\ UNCHANGED <<rawEpoch, rawSeq, transcriptVars, skillVars, hitVars, scope, boots,
                 calls>>

-----------------------------------------------------------------------------
(* React and Context: the queue of recall hits.  A hit is its number. *)

\* One <recall> of a reply: the search finds up to RecallK nodes, or fails; what does
\* not fit is cut off.
KeepAllHits(found) == found
HitsThatFit(found) == Shorter(found, MaxPending - Len(pending))

Recall ==
  /\ Call
  /\ IF Len(pending) >= MaxPending THEN UNCHANGED <<pending, queued>>
     ELSE \E found \in 0..RecallK :
            /\ pending' = pending \o [i \in 1..HitsThatFit(found) |-> queued + i]
            /\ queued' = queued + HitsThatFit(found)
  /\ UNCHANGED <<delivered, transcriptVars, rawVars, skillVars, observing, scope, boots>>

\* Context shows every queued hit and empties the queue.
LeaveInQueue == pending
Emptied == <<>>

Context ==
  /\ pending' = Emptied
  /\ delivered' = delivered + Len(pending)
  /\ UNCHANGED <<queued, transcriptVars, rawVars, skillVars, observing, scope, boots,
                 calls>>

-----------------------------------------------------------------------------
(* LearnedSkills and SkillUsed. *)

SetScope(s) ==
  /\ Call
  /\ scope' = s
  /\ UNCHANGED <<transcriptVars, rawVars, skillVars, hitVars, observing, boots>>

\* Skills are written, aged and restored by others.
ChangeSkill(k, state) ==
  /\ Call
  /\ skills' = [skills EXCEPT ![k] = state]
  /\ UNCHANGED <<projecting, projected, using, disk, transcriptVars, rawVars, hitVars,
                 observing, scope, boots>>

\* LearnedSkills reads the scope, then the nodes of the project and of the agent; a
\* failed Recall ends it.
LearnRecall ==
  /\ projecting = None /\ Call
  /\ projecting' = [project |-> scope, nodes |-> skills]
  /\ UNCHANGED <<skills, projected, using, disk, transcriptVars, rawVars, hitVars,
                 observing, scope, boots>>

\* The active skills at a root, and one key per name: the private ones come first.
ActiveAt(root, nodes) == {n \in Names : nodes[<<root, n>>] = "active"}

DedupeSkills(read) ==
  [n \in Names |-> IF n \in ActiveAt(Agent, read.nodes) THEN <<Agent, n>>
                   ELSE IF n \in ActiveAt(read.project, read.nodes) THEN <<read.project, n>>
                   ELSE None]

LearnProject ==
  /\ projecting # None
  /\ projected' = DedupeSkills(projecting) /\ disk' = projecting
  /\ projecting' = None
  /\ UNCHANGED <<skills, using, transcriptVars, rawVars, hitVars, observing, scope, boots,
                 calls>>

\* SkillUsed takes the projection in hand once for all of its names; a name may come
\* up in any order, and again.  read is history: what that projection was built from.
UseSnapshot ==
  /\ using = None /\ Call
  /\ projected # NothingProjected
  /\ using' = [proj |-> projected, held |-> None, read |-> disk]
  /\ UNCHANGED <<skills, projecting, projected, disk, transcriptVars, rawVars, hitVars,
                 observing, scope, boots>>

KeyOfTheMoment(n) == projected[n]
KeyOf(n) == using.proj[n]

\* It passes over a name that is not projected, a node that is no skill, and a failed
\* Recall.
UseRecall(n) ==
  /\ using # None /\ using.held = None
  /\ KeyOf(n) # None /\ skills[KeyOf(n)] # "none"
  /\ using' = [using EXCEPT !.held = [key |-> KeyOf(n), state |-> skills[KeyOf(n)]]]
  /\ UNCHANGED <<skills, projecting, projected, disk, transcriptVars, rawVars, hitVars,
                 observing, scope, boots, calls>>

\* The whole node is written back with a new stamp, or the write fails.
UseRecord ==
  /\ using # None /\ using.held # None
  /\ skills' \in {skills, [skills EXCEPT ![using.held.key] = using.held.state]}
  /\ using' = [using EXCEPT !.held = None]
  /\ UNCHANGED <<projecting, projected, disk, transcriptVars, rawVars, hitVars, observing,
                 scope, boots, calls>>

UseEnd ==
  /\ using # None /\ using.held = None
  /\ using' = None
  /\ UNCHANGED <<skills, projecting, projected, disk, transcriptVars, rawVars, hitVars,
                 observing, scope, boots, calls>>

-----------------------------------------------------------------------------

\* The host restarts: the memory and the files on disk stay, the fields go.
Restart ==
  /\ boots < MaxBoots
  /\ boots' = boots + 1
  /\ observing' = [p \in Procs |-> None]
  /\ rawEpoch' = 0 /\ rawSeq' = 0
  /\ pending' = <<>> /\ queued' = 0 /\ delivered' = 0
  /\ projecting' = None /\ projected' = NothingProjected /\ using' = None
  /\ UNCHANGED <<transcriptVars, archive, archived, skills, disk, scope, calls>>

Observe(p) == \/ ObserveRecall(p) \/ ObserveRecord(p) \/ ObserveStamp(p) \/ RecordRaw(p)

HostCall == \/ Recall \/ Context
            \/ LearnRecall \/ LearnProject \/ UseSnapshot \/ UseRecord \/ UseEnd
            \/ \E n \in Names : UseRecall(n)
            \/ \E s \in Projects : SetScope(s)

Next == \/ \E p \in Procs : Observe(p)
        \/ HostCall
        \/ \E k \in SkillKeys, state \in {"active", "aside"} : ChangeSkill(k, state)
        \/ Restart

Spec == Init /\ [][Next]_vars

-----------------------------------------------------------------------------
(* Properties. *)

Turns == 1..MaxCalls
Projection == [project : Projects, nodes : [SkillKeys -> {"none", "active", "aside"}]]
Held == [key : SkillKeys, state : {"active", "aside"}]

TypeOK ==
  /\ transcript \in Seq(Turns) /\ recorded \in Seq(Turns)
  /\ turns \in 0..MaxCalls /\ calls \in 0..MaxCalls /\ calm \in Nat
  /\ observing \in [Procs -> {None} \cup
       [pc : {"record", "stamp", "raw"}, turn : Turns, prev : Seq(Turns),
        epoch : 0..MaxBoots, seq : Nat]]
  /\ boots \in 1..MaxBoots /\ rawEpoch \in 0..MaxBoots /\ rawSeq \in Nat
  /\ archive \subseteq [key : (1..MaxBoots) \X Nat, turn : Turns]
  /\ archived \subseteq Turns
  /\ scope \in Projects
  /\ skills \in [SkillKeys -> {"none", "active", "aside"}]
  /\ projecting \in Projection \cup {None} /\ disk \in Projection \cup {None}
  /\ projected \in [Names -> SkillKeys \cup {None}]
  /\ using \in [proj : [Names -> SkillKeys \cup {None}], held : Held \cup {None},
                read : Projection \cup {None}] \cup {None}
  /\ pending \in Seq(Nat) /\ queued \in Nat /\ delivered \in Nat

NewestFirst(seq) == \A i, j \in DOMAIN seq : i < j => seq[i] > seq[j]

\* The transcript is newest first, in the order the turns began, holds no turn twice
\* and never more than MaxTurns, whatever overlaps or fails (orchestrator.go:155-177;
\* TestObserveKeepsRollingTranscriptNewestFirst, TestObserveBoundsTranscript).
TranscriptInOrder == NewestFirst(transcript) /\ Len(transcript) <= MaxTurns

\* The transcript heals: after a lost turn (a Recall that failed, or two Observes that
\* overlapped) it starts again with the turns recorded since, and MaxTurns turns later
\* it is again exactly the last ones.
TranscriptHeals ==
  LET n == Shorter(calm, MaxTurns) IN
    Len(transcript) >= n /\ FirstOf(transcript, n) = FirstOf(recorded, n)

\* A raw turn that was recorded stays: no turn of another goroutine, and none of a
\* later life of the process, takes its key (learner.go:188-221; TestRawSurvivesLearnerRestart).
RawTurnsKept == \A t \in archived : \E e \in archive : e.turn = t

\* Every hit a <recall> has queued is shown by the next Context, once and in order, and
\* the queue stays within its limit (conscious.go:54-64 and 99-105).
HitsShownOnce ==
  /\ Len(pending) <= MaxPending
  /\ pending = [i \in 1..(queued - delivered) |-> delivered + i]

\* All that one SkillUsed stamps belongs to one projection, the one the host held when
\* the call began, though LearnedSkills replaces that projection and SetScope the
\* project between its Recalls: a node it has in hand was active when that projection
\* was read, at the agent's root or at the root of that projection's project, and hides
\* no private skill of its name (skills.go:89-109, 143-165 and 178-193).
UsesOneProjection ==
  using # None /\ using.held # None =>
    LET key == using.held.key IN
      /\ using.read # None
      /\ using.read.nodes[key] = "active"
      /\ key[1] \in {Agent, using.read.project}
      /\ key[1] # Agent => using.read.nodes[<<Agent, key[2]>>] # "active"

-----------------------------------------------------------------------------
(* What the properties rest on. *)

Observing(p, pc) == observing[p] # None /\ observing[p].pc = pc

\* The copies Observe will write back are in order too, and older than their turn.
CopiesInOrder ==
  /\ turns <= calls
  /\ \A t \in ToSet(transcript) : t <= turns
  /\ \A p \in Procs : observing[p] # None => observing[p].turn <= turns
  /\ \A p \in Procs : Observing(p, "record") =>
       /\ NewestFirst(observing[p].prev)
       /\ \A t \in ToSet(observing[p].prev) : t < observing[p].turn

\* Raw keys in use are of this life and differ from each other and from those in the
\* archive.
RawKeysApart ==
  /\ rawEpoch \in {0, boots} /\ (rawEpoch = 0 => rawSeq = 0)
  /\ \A e \in archive : e.key[1] <= boots /\ (e.key[1] = boots => e.key[2] <= rawSeq)
  /\ \A p \in Procs : Observing(p, "raw") =>
       /\ observing[p].epoch = boots /\ observing[p].seq <= rawSeq
       /\ \A e \in archive : e.key # RawKey(observing[p])
       /\ \A q \in Procs \ {p} : Observing(q, "raw") =>
                                   RawKey(observing[p]) # RawKey(observing[q])

\* Hits leave the queue only by being shown.
HitsCounted == queued = delivered + Len(pending)

\* The projection in memory, unless a restart has emptied it, is the one on disk.
ProjectionOnDisk ==
  projected = NothingProjected \/ (disk # None /\ projected = DedupeSkills(disk))

\* The projection a SkillUsed has in hand was once the one on disk, and the node it has
\* in hand is one of it.
UsingIsProjection ==
  using # None =>
    /\ using.read # None /\ using.proj = DedupeSkills(using.read)
    /\ using.held # None =>
         \E n \in Names : using.proj[n] # None /\ using.held.key = using.proj[n]

Inv == TypeOK /\ TranscriptInOrder /\ CopiesInOrder /\ RawKeysApart /\ HitsCounted
              /\ ProjectionOnDisk /\ UsingIsProjection
=============================================================================
