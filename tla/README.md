# herrscher-orchestrator: a TLA+ model

The orchestrator is a plugin that runs around each turn of a conversation: it puts
recalled memory before the prompt, records the turn, and curates the memory over
time. The package has two shapes. A `Curator` keeps a rolling transcript and
answers the in-band markers; a `Learner` embeds a Curator and adds *learning
passes* (`Consolidate`) that file findings, age nodes, merge them into umbrellas,
promote private ones and report what was changed.

Most of the code is a sequence of calls to a memory that somebody else implements
(`contracts.Memory`), each of which may fail, with other goroutines and processes
changing the same nodes in between. The models keep those calls apart and let
everything happen between them.

## Inventory

| Part | State | Operations | What is hard | Model |
|---|---|---|---|---|
| Learner: threads (`learner.go`) | `mu`, `stampMu`, `lastRun`, `lastActivity`, `n`, `stopIdle`, `idleDone`, `transitions` | `Observe`, `Consolidate`, `SetScope`, `Restore`, `Start`, `Close`, the idle loop | three ways into a pass, a check under one lock used under another, Close racing a tick | `Learner`, `PassContract` |
| Learner: filing (`learner.go`) | `seen`, `pending`, `offset` | `drain`, `readJournalTail`, `persist`, `enqueue` | failing writes, retries, a journal that grows and is rotated, restarts | `Filing`, `FindingLedger` |
| Staleness sweep (`sweep.go`) | node `state`, `lastSeen` | `Sweep` | writes back whole nodes read earlier; best-effort over failing writes | `Lifecycle` |
| Merge (`merge.go`) | node `state`, `mergedInto`, merged-into links, the collision set | `Merge` | several writes per umbrella, any of which may fail; untrusted proposals | `Lifecycle` |
| Restore (`restore.go`) | the same nodes and links | `Restore`, forced or not | check on a copy, write later | `Lifecycle`, and its logging in `Learner` |
| Report (`report.go`) | `transitions` | `report` | must see each transition once | `Learner` (rendering: no) |
| Promotion (`promote.go`) | `promotedTo`, `promotedFrom`, shared nodes | `Promote` | three writes, key collisions between agents | `Promotion` |
| Skills (`skills.go`) | skill nodes, `approved`, `projected` | `recordSkill`, `LearnedSkills`, `SkillUsed`, `ApproveSkill` | revoking against stale writes; a projection replaced while it is used | `Promotion` (marks), `Session` (projection), `Lifecycle` |
| Transcript (`orchestrator.go`) | the session node | `Curator.Observe` | unlocked read-modify-write | `Session` |
| Markers (`conscious.go`) | `pending` recall hits | `React`, `Context` | a bounded queue, filled and emptied by different calls | `Session`; `remember` as a writer of nodes |
| Raw archive (`learner.go`) | `rawEpoch`, `rawSeq` | `recordRaw` | distinct keys across goroutines and restarts | `Session` |
| Settings (`register.go`), extractor registry | none; a map behind one lock | building an orchestrator, registration | malformed values half way, durations that wrap | `Plugin` |
| `tools/`, `scripts/` | none | lint | nothing a model would tell | no |

How they interact: the host calls `Observe`, `Context` and `React` for every turn,
`SetScope` when the project changes, and `Restore`, `ApproveSkill` from outside any
session. `Observe` runs a pass every `every` turns; the idle loop runs one when due;
the host may run one itself. A pass is `drain`, read the journal, extract, file,
`Sweep`, `Merge`, `Promote`, `report`, all under `mu`. The memory is shared with
other processes, so `mu` protects the Learner's fields but not the nodes.

What makes each part correct: one pass at a time, under one scope, that loses no
transition (threads); no finding lost, none read twice (filing); a sweep that
treats every node, a merge that loses no knowledge and never leaves a merged node
in recall (lifecycle); no text shared that was not approved, none marked that was not
shared (promotion); a transcript in order that heals, raw turns that stay, hits shown
once, uses counted on the skills of one projection (session); every setting that is
honoured arrives or is refused (plugin).

`PROJECT.json` lists the hazards at their lines, with the properties about them.

## Modules

### `Learner` (with `PassContract`)

One `pc` per goroutine of the host plus one for the idle loop. A section under
`stampMu` or `scopeMu` is one action, because the code holds these locks around a
few assignments only. `mu` is a variable, because a pass keeps it across calls to the
memory and the extractor; the pass is cut at its phases (`Begin`, `Drain`, `Extract`,
`Curate`, `Report`, `End`), and everyone else moves between them. `Stamp` and the
idle check `LoopTick` are apart from `Lock` and `LoopTryLock`, as in the code.

* `Consolidate`, `Observe`, `SetScope`, `Restore` are calls entered by a goroutine;
  `Lock`, `Stamp`, `Rescope`, `NoteRestore` are what they do when they get there.
* `extracting` is whether the Learner has both an extractor and a memory. Without
  them a pass goes from `Begin` to `End`, which still stamps `lastRun` and empties
  the log.
* `transitions` is a set of ids: what is in a transition does not matter here.
  `Curate` stands for Sweep, Merge and Promote and logs at most one id, enough to tell
  a lost one from a kept one. `offered` is what `report` was given: it is
  best-effort, so handing over is all the code promises.
* A ticker tick that is not due changes nothing and is left out.
* The raw archive is off (its default), so `Observe` has no other effect.
* `Start` and `Close` read and write `stopIdle` without a lock: they are calls of
  one owner and do not overlap one another, which the guards on `closing` say.
  Everything else overlaps them.

`PassContract` is the promise without threads: a pass begins only when none runs,
the scope moves only between passes, the log is emptied only by the end of a pass
and a restore is logged only between passes. `Learner` implements it with
`running <- mu # Free` and `log <- transitions` (property `ContractSpec`).

### `Filing`

One pass at a time (module `Learner` shows that this is so), at the grain of one call
per step. A line of the journal is one finding: a key, whether its body fits the
budget, and its line number, which tells newer from older. The extractor is the
host's; it is taken to return the findings of the tail it is given or to fail (the code
would also file candidates that come together with an error).
`Outcomes` is `persist`: filed, refused over budget and queued, failed, or recorded
without its link to the scope root and therefore reported as failed (`half-filed`:
`RecordShared` and `RecordPrivate` record a node and link it, as the tests observe).
The journal's writer appends and rotates at any moment, and `Restart` may fall
between any two steps: memory and journal survive, `offset`, `seen`, `pending` do not.

`SetScope` waits for `mu`, so the project moves only while no pass runs; `seen` and
`pending` are carried over, which the model keeps: a queued candidate is filed under
the project installed since, and a key filed under one project is skipped under the
next. `links` are the projects a key hangs from.

`FindingLedger` is the promise: a finding is taken once per life of the process and is
in custody until it is settled, superseded by another of its key, or lost to an error.
`Filing` implements it (property `LedgerSpec`) with `taken <- delivered`,
`settled <- seen`, `lost <- dropped`, and as custody the queue plus what the running
loop has still to do; while `drain` runs, the queue is what it has kept and what it has
not yet tried. `Take` and `Lose` are written as relations between two ledgers, so that
TLC need not enumerate sets of findings.

History variables: `delivered` (what the extractor was given), `dropped` (what an
error that is not retried lost), `rotated` (whether a rotation could go unnoticed).

### `Lifecycle`

The nodes, the pass that sweeps and merges them, and the clients (`Restore`,
`SkillUsed`, `ApproveSkill`, and whatever records a node afresh). Every writer works
the way the code does: it takes a copy in one call and writes the whole node back in
a later one. `snap` is the copy of the pass, `client[c].node` that of a client.
`NextState` and the memory are external: a map from keys to nodes and a set of
links; any call may fail, and `Abort` stops a pass between any two calls (a
cancelled context or the end of the process).

* `SweepStart`, `SweepNode`, `SweepEnd`; then `MergeStart` (first Search),
  `ExistingKeys` (second Search, for the collision set, which may fail), `Fold` (one
  umbrella recorded, or not), `ArchiveOriginal` (one original marked and linked),
  `UmbrellaDone`, `MergeEnd`.
* The Merger is external: any key, any subset of the group; `ValidUmbrella` is what
  the code rejects. An umbrella is taken to carry no mark of its own.
* One domain at a time, promotion off (its default), and no report, session or
  transcript nodes: Merge skips all three kinds, Sweep only the reports. Sweep ages session
  and transcript nodes as it ages the others, which the nodes here stand for.
* Time is a counter; `lastSeen = 0` stands for a missing or unreadable stamp, and
  an absent state is "active", as everywhere in the code.

History variables: `folded` (what each umbrella was fused from), `degraded` (has a
collision set fallen back to live nodes that differ from all nodes), `untouched` and
`restored` (keys nobody else wrote, and keys last written by a Restore, since the
sweep began).

### `Promotion`

The `Promote` passes of several agents of one project, who meet at one shared key for
each name (`Keys`: `promotedKey` drops the agent's root). One pass is `PromoteStart` (the
Search; what it returned is used to the end), and for each node `CheckShared`,
`CopyShared`, `LinkPromoted`, `MarkOriginal`: four calls, each of which may fail. The pass
goes on to the next node after success (`Proceed`) and after an error (`AfterError`)
alike; `Abort` may fall anywhere.

* A node's body is the number of its text, which is what an approval is about.
* The other writers read a node in one step and write a whole node back in another:
  `RecordSkill` (written or revised; keeps the time of capture only), `Approve`, `Revoke`,
  `Touch` (`SkillUsed`, and the sweeps and restores of other processes). "aside" stands
  for every state or mark that keeps a node out of promotion.
* `FileCandidate` is a private candidate filed by the agent's own Learner, hence under
  the same `mu`, before its promotion: a skill where learned skills are on. An extractor is
  taken to set neither the approval nor the marks of promotion in a node's Meta, which
  the code would pass through (only `ApproveSkill` is documented to approve,
  `skills.go:26-27`).
  `RecordCurated` is a node recorded for the project by one of its sessions.
* Each agent has one Learner.

History variables: `approved`, `shared`, `revoked` (keys whose approval was withdrawn
while nobody held an approved copy), `excused` (passes whose check failed or was
outdated by a write), `clean` (names nothing failed on and nobody else wrote).

### `Session`

What belongs to one session. `Observe` of a goroutine is `ObserveRecall`,
`ObserveRecord`, `ObserveStamp` (one section under `stampMu`) and `RecordRaw`; the
transcript is a sequence of turns, newest first, and `CapLines` cuts it. `Recall` is one
`<recall>` of a reply, `Context` shows and empties the queue of hits. `LearnedSkills` is
`LearnRecall` (the scope and the nodes) and `LearnProject` (the projection), `SkillUsed`
is `UseSnapshot` (the projection, taken once under `projectedMu`), then for name after name
`UseRecall` (the node under the key the projection gives) and `UseRecord` (the whole node
written back), until `UseEnd`: a `LearnedSkills` may replace the projection, and `SetScope`
the project, between any two of these. A name may come up in any order and more than
once. `Restart` keeps the memory and the host's files and forgets the fields.

* React and Context are called by the host's turn loop, one at a time: `pending` has no
  lock, and calls that overlap are outside of what the code supports.
* The epoch of the raw archive is the number of the process's life: the wall clock is
  taken to have moved on, in nanoseconds, between two lives.
* The skill nodes may be changed by anyone at any moment (`ChangeSkill`).

History variables: `recorded` and `calm` (turns recorded, and how many since one was lost),
`archived`, `queued` and `delivered` (hits), `disk` (what the host's skill files were
projected from) and `using.read` (what the projection in hand was built from).

### `Plugin`

`RegisterExtractor` at any moment, and one build: `NewOrchestrator` looks the extractor
up, which decides the shape and with it the settings read, in order; `ReadSetting` sets
one field, `RefuseSetting` ends the build with the error. A Duration is an integer of
`2 * HalfRange` hours instead of 64 bits of nanoseconds, which wraps in the same way
(`Wrapped`); `merge-max`, `merge-target` and the switches are converted as the setters do.
No property speaks of the number of days a window ends up with: a setting of more days
than a Duration holds comes out short or disabled, against the help texts
(`register.go:27-28` reserve disabling for <=0), and within the range the conversion is a
multiplication.

### Proof and MC modules

`LearnerProofs`, `LifecycleProofs`, `FilingProofs`, `PromotionProofs`, `SessionProofs` and
`PluginProofs` extend their modules and TLAPS; `UmbrellaProofs` and `SweepProofs` build on
`LifecycleProofs`. The part of a module headed "What the properties rest on" holds the
conjuncts its invariant `Inv` needs to be inductive; the runs check `Inv` too. The `MC`
modules add symmetry sets, and the values of `Plugin`, for TLC. Operators such as
`RescopeWithoutMu` or `KeepOnlyRefused`, which nothing uses, are plausible mistakes in
the definition that follows them: each property is known to fail with one of them.

## Runs

| Run | Bounds | What it shows |
|---|---|---|
| `learner` | 2 goroutines, 2 scopes, `Every` 2, `IdleDays` 2, `IdleHours` 1, clock to 4, 3 turns, 2 transitions | `PassExclusion`, `OneScopePerPass`, `TransitionsConserved` (in `Inv`), `TurnCadence`, `ClosedIsQuiet`, and the refinement `ContractSpec` |
| `learner_live` | 2 goroutines, 1 scope, clock to 2, one turn, one transition | `CallsReturn`, `CloseReturns` under `FairSpec` |
| `filing` | 2 keys, 2 projects, 4 lines, 1 restart | `PendingKeysDistinct`, `SeenIsStored`, `FindingsAccounted`, `OffsetSplitsJournal`, and the refinement `LedgerSpec` |
| `promotion` | 2 agents, 2 names, 2 clients, 2 texts, 2 calls of the clients, clock to 2, `MinAge` 1 | `SharedTextApproved`, `MarkedTextWasShared`, `CuratedKept`, `RevocationHolds`, `PromoteIsComplete` |
| `session` | 2 goroutines, 2 projects, 1 name, a transcript of 2 turns, a queue of 2 hits, 2 hits per search, 4 calls, 2 lives of the process | `TranscriptInOrder`, `TranscriptHeals`, `RawTurnsKept`, `HitsShownOnce`, `UsesOneProjection` |
| `plugin` | every pair of settings, integers -1, 0, 10, 171, 342, a Duration of 8192 hours, one extractor | `RefusesWhatItHonours`, `SettingsArrive` |
| `lifecycle` | 2 nodes, 1 umbrella key, 1 client, windows 1 and 2, clock to 3, 2 client operations, 2 Searches that succeed | `MergedIsArchived`, `UmbrellaHoldsOriginals`, `MergeForest`, `LinksHold`, `SweepIsComplete` |
| `learner_idle_due` | as `learner`, smaller | the idle check may be stale when used (`SetIdle`'s comment) |
| `learner_start` | as `learner`, smaller | Start is refused with no loop running (its comment) |
| `filing_seen` | 1 key, 2 lines | a queued key may be marked seen (a test says not) |
| `lifecycle_refuses` | as `lifecycle` | an unforced Restore may undo a merge (its comment) |
| `lifecycle_aged_out` | as `lifecycle` | a Restore may be overwritten by a sweep in progress (its comment) |

The last five are expected to find a violation; `findings` in `PROJECT.json` quotes
the sentence of the repository that each refutes.

Some properties allow a race or a loss that the code has, and exclude everything else:
`CuratedKept` excuses a pass whose check failed or is outdated, `RevocationHolds` keys of
which somebody held an approved copy when the revocation was written, `LedgerSpec` permits
a loss that is put down as one, `LinksHold` permits a link that is missing, and a stale one.
The notes of the hazards in `PROJECT.json` say so where a hazard is such a race.

Why the bounds are enough. `learner`: with two callers and the loop all three ways
into a pass contend, and a clock of 4 with a two-unit idle window lets an idle pass
be due, run and be due again; three turns are one and a half periods of `Every`.
`filing`: four lines over two keys give an over-budget finding, a second one for its
key, a rotation, and a file that regrows. `lifecycle`: a sweep and a merge, or two
sweeps, or two merges, so that the second proposes the umbrella's key again; one client
operation can span the whole of either. (A sweep between two merges, which would archive
the umbrella, needs a third Search; for it the proofs stand.) The clock passes both
windows. `promotion`: two texts are enough for an approval of one to meet the other, two
agents for a collision at the shared key, two names for a pass that has another node to
promote when one fails; two calls are an approval and a revocation, or either and a
revision or a stamp, and the copies the passes hold are stale copies besides. (An approval, a
revocation and a third client's stale copy need three calls; for them the proofs stand.)
`session`: four turns over a transcript of two overlap, are lost and heal; a third hit meets
the limit of the queue; a restart falls between any two steps; four calls are enough for a
second LearnedSkills, of another project or of other skills, to finish while a SkillUsed is
in progress. `plugin`: 170 days still fit the scaled Duration, 171 wrap to a negative and 342
to a short positive one. Deadlock is looked for as well in all of them: an idle pass,
Context or RegisterExtractor can always begin.

## Fairness

`FairSpec` assumes weak fairness of every step a goroutine can take on its own and of
every phase of a pass: calls to the memory, the extractor and the merger return.
Strong fairness is assumed for taking `mu`, since Go's `sync.Mutex` hands itself to a
waiter that has waited for a millisecond, and for `LoopExit`, since `select` picks at
random among its ready cases and so cannot prefer the ticker for ever. Nothing is
assumed of the host's calls, of the clock or of the ticker. `Start` and
`CancelContext` have no fairness: `CloseReturns` rests on Close's own cancel.

## Proofs

Every safety property and action property the passing runs check, and both refinements,
are also proved, for every value of the constants.

| Module | Theorems |
|---|---|
| `LearnerProofs` | `Invariance` (`Inv`), `Exclusion`, `OneScope`, `NoTransitionLost`, `Closed`, `Cadence` (`TurnCadence`), `Refinement` (`ContractSpec`) |
| `FilingProofs` | `FilingInvariant` (`Inv`), `QueueDistinct`, `SeenStored`, `NoneVanishes` (`FindingsAccounted`), `OffsetSplits`, `ImplementsLedger` (`LedgerSpec`) |
| `LifecycleProofs` | `Invariance` (`Inv`), `MergedStaysArchived` |
| `UmbrellaProofs` | `KnowledgeKept` (`UmbrellaHoldsOriginals`), `ForestKept` (`MergeForest`), `LinksKept` (`LinksHold`) |
| `SweepProofs` | `SweepCompletes` (`SweepIsComplete`) |
| `PromotionProofs` | `Invariance` (`Inv`), `SharedApproved`, `MarkedShared`, `RevocationLasts`, `Completeness` (`PromoteIsComplete`), `CuratedIsKept` |
| `SessionProofs` | `SessionInvariant` (`Inv`), `NewestFirstAlways` (`TranscriptInOrder`), `Healing` (`TranscriptHeals`), `RawArchive` (`RawTurnsKept`), `HitQueue` (`HitsShownOnce`), `StampsOneProjection` (`UsesOneProjection`) |
| `PluginProofs` | `PluginInvariant` (`Inv`), `RefusalsAreHonoured`, `NothingIsLost` (`SettingsArrive`) |

The arguments:

**Learner.** `Inv` = `TypeOK`, `MuHolder`, `FiledUnderScope`, `TransitionsConserved`,
`ClosedIsQuiet`. `PassExclusion` is not inductive alone: it follows from `MuHolder` (a
goroutine is inside a pass exactly when it holds `mu`). `OneScopePerPass` follows from
`FiledUnderScope` (what the pass has read is the present scope, which `Rescope` cannot
change because it needs `mu`). `TurnCadence` counts goroutines: a turn adds one to those
waiting for `mu` exactly when `n \div Every` grows (`DivStep`), and `Lock` moves one from
the waiting to the counted. `Refinement` has one case per action, each a contract step or
a stutter.

**Filing.** `SeenIsStored` is inductive with the types. `FindingsAccounted` and
`PendingKeysDistinct` need to know what a running loop holds: `LoopsInOrder` (drain works
on the queue, each candidate once; filing on findings that never were in the queue) and
`DrainKeepsQueue` (each queued candidate has been filed, has been kept, or is still to be
retried). `OffsetSplitsJournal` needs the order of the journal and that no delivered line
lies behind the offset (`JournalInOrder`, `ReadBeforeOffset`). In `ImplementsLedger` the
steps of a loop are stutters, or move one finding; the end of a drain is a stutter because
what it kept is what is left of the queue.

**Lifecycle.** `MergedIsArchived` is not inductive alone, since a write may put back a
copy taken much earlier: `Inv` adds that every copy that may be written back carries the
same mark (`snap`, the clients'), and that a merge archives only nodes it has read
(`GroupWasRead`). The proof writes `Inv` as parts (`GoodNodes` of the memory and of the
copy, `GoodClients`, `GoodPass`, `GoodRest`) so that each action argues only about the
parts it changes.

`UmbrellaProofs`: no node is ever removed (`Known`), so an umbrella whose key is outside
the collision set is new, nobody refers to it yet, and it cannot be among the nodes it is
fused from; and every copy that may be written back, however old, names an umbrella that
exists and was fused from its node (`BackedCopies`). So the marks in the memory are always
a part of the relation `folded`, which is a forest (`FoldedForest`) because an umbrella is
fused from nodes older than itself. A link is written only for a node the umbrella in
hand was fused from, which gives `LinksHold`.

`SweepProofs`: during a sweep an untouched node equals the copy of the Search until its
turn and is done afterwards (`SweptSoFar`).

**Promotion.** `CopiesFit`: every copy that may be written back, the clients' and those of
each agent's pass, carries an approval only of its own text, and a client's copy a mark only of a text
that was shared. `PassInOrder` ties a pass to the order copy, link, mark, so that by the time
of the mark the text has been shared. `RevocationHolds` needs `NoApprovalLeft` (a key
counts as revoked only when neither the memory nor any holder of a copy has an approval),
`CuratedKept` needs `CheckStillHolds` (a curated node that appears behind a check excuses
the pass), `PromoteIsComplete` needs `DealtWith`.

**Session.** `CopiesInOrder`: what an Observe has read is in order and older than its own
turn, so its write keeps the order, even over a newer transcript. `TranscriptHeals` is
inductive with the types: a write adds its turn in front of a copy that either is the
present transcript, or starts the count of `calm` again. `RawKeysApart`: keys between
stamp and write are of this life, and differ from each other and from the archive's.
`HitsCounted` and `ProjectionOnDisk` say that a hit leaves the queue only by being shown,
and that the projection in memory, unless empty, is the one on disk. `UsingIsProjection`
carries that over to the projection a SkillUsed has in hand, which a later LearnedSkills
does not touch; `UsesOneProjection` is what it means for each node that is stamped. The bounds
`MaxCalls` and `MaxBoots` are constants like the others: the theorems hold for any number.

**Plugin.** `FieldsOfRead`: a field is set exactly to what its setting stands for once
the setting has been read, and the settings read are those the shape honours (`ReadsFacts`).
For every width of a Duration a window is some Duration, since multiplying wraps
(`WrappedFacts`).

The assumptions are the named ASSUMEs of the modules: the loop is not a goroutine of the
host, `None` is no key, root, setting or value, settings are integers, bounds and limits are
naturals.

Only model-checked: `CallsReturn` and `CloseReturns`, since liveness under fairness is beyond
the prover; that no run deadlocks, which speaks of ENABLED; and, by their nature, the five
runs that end in a violation.

## Plan

1. Several domains in one merge, with one collision set for all of them: an action that
   goes on to the next group, and the cases it adds to the proofs about merging.
2. A promise of promotion without its passes (a text reaches the shared scope only approved, a
   mark only after it), as an abstract specification that `Promotion` refines.
3. The hazards that no property covers yet: which of them a stronger statement about
   `Filing` and `Promotion` can settle.

## Not modelled, and why

The text of nodes, reports, keys, contexts and transcript lines, and the syntax of the
markers (formatting); logging. The memory, the extractors, the Merger, the Consolidator and
`NextState` live in other repositories: they are the environment of the models.
`tools/commentcheck` and the scripts are a quarter of the code by lines, and no part of the
running system: a linter judges each comment and declaration by its text and keeps no
state between them, so a model of it would repeat its rules about text and nothing else.
