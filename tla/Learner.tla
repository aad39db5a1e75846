------------------------------ MODULE Learner ------------------------------
(* The Learner's threads: the host's calls (Observe, Consolidate, SetScope,  *)
(* Restore), the idle loop that Start launches and Close stops, the pass      *)
(* mutex mu, and the clocks behind stampMu.  What a pass files is the subject *)
(* of module Filing, what it curates of modules Lifecycle and Promotion; here *)
(* a pass is the sequence of its phases, with the scope each phase reads and  *)
(* the transitions it logs.                                                  *)
(*                                                                           *)
(* A section under stampMu or scopeMu is one action: the code holds these     *)
(* locks only around a few assignments.  mu is explicit, since a pass holds   *)
(* it across calls to the memory and the extractor.                          *)
EXTENDS Integers, FiniteSets

CONSTANTS
  Procs,           \* goroutines of the host that call the Learner
  Loop,            \* the goroutine of the idle loop
  Free,            \* nobody holds mu
  Scopes,          \* memory scopes SetScope may install
  Every,           \* `every`: turns between automatic passes, <= 0 for none
  IdleDays,        \* idleDays in clock units, <= 0 disables the idle trigger
  IdleHours,       \* idleHours in clock units
  MaxClock,        \* bound: the clock stops here
  MaxTurns,        \* bound: turns observed
  MaxTransitions   \* bound: transitions ever logged

ASSUME ThreadAssumption == /\ Loop \notin Procs
                           /\ Free \notin Procs \cup {Loop}
                           /\ Scopes # {}
ASSUME SettingAssumption == {Every, IdleDays, IdleHours} \subseteq Int
ASSUME BoundAssumption == {MaxClock, MaxTurns, MaxTransitions} \subseteq Nat

VARIABLES
  extracting,    \* are an extractor and a memory configured?
  mu,            \* holder of mu
  scope,         \* Curator.scope
  now, lastRun, lastActivity, n,
  transitions,   \* Curator.transitions, as a set of ids
  stopIdle,      \* stopIdle # nil
  cancelled,     \* is the idle loop's context done?
  closing,       \* is a Close waiting for idleDone?
  pc,            \* where each goroutine is
  issued,        \* history: ids 1..issued have been logged
  offered,       \* history: ids handed to a report
  filedUnder,    \* history: scopes the running pass has read
  turnPasses     \* history: passes entered because a turn was due

vars == <<extracting, mu, scope, now, lastRun, lastActivity, n, transitions,
          stopIdle, cancelled, closing, pc, issued, offered, filedUnder,
          turnPasses>>

stamps == <<now, lastRun, lastActivity, n>>
lifecycle == <<stopIdle, cancelled, closing>>
audit == <<transitions, issued, offered>>

Never == 0               \* the zero time.Time; the clock starts at 1
Threads == Procs \cup {Loop}
PassPhases == {"begin", "drain", "extract", "curate", "report", "end"}
Waiting == {"lock", "lockTurn"}
Rest(q) == IF q = Loop THEN "select" ELSE "idle"

Init ==
  /\ extracting \in BOOLEAN
  /\ mu = Free
  /\ scope \in Scopes
  /\ now = 1 /\ lastRun = Never /\ lastActivity = Never /\ n = 0
  /\ transitions = {} /\ issued = 0 /\ offered = {}
  /\ stopIdle = FALSE /\ cancelled = FALSE /\ closing = FALSE
  /\ pc = [q \in Threads |-> IF q = Loop THEN "off" ELSE "idle"]
  /\ filedUnder = {} /\ turnPasses = 0

Goto(q, from, to) == pc[q] = from /\ pc' = [pc EXCEPT ![q] = to]

Tick == /\ now < MaxClock
        /\ now' = now + 1
        /\ UNCHANGED <<extracting, mu, scope, lastRun, lastActivity, n, audit,
                       lifecycle, pc, filedUnder, turnPasses>>

-----------------------------------------------------------------------------
(* One turn: Observe writes the transcript, then stamps. *)

InFlight(place) == Cardinality({p \in Procs : pc[p] = place})

Observe(p) == /\ n + InFlight("stamp") < MaxTurns
              /\ Goto(p, "idle", "stamp")
              /\ UNCHANGED <<extracting, mu, scope, stamps, audit, lifecycle,
                             filedUnder, turnPasses>>

TurnIsDueBeforeCounting(count) == Every > 0 /\ (count - 1) % Every = 0
TurnIsDue(count) == Every > 0 /\ count % Every = 0

Stamp(p) ==
  LET count == IF Every > 0 THEN n + 1 ELSE n IN
  /\ Goto(p, "stamp", IF TurnIsDue(count) THEN "lockTurn" ELSE "idle")
  /\ lastActivity' = now
  /\ n' = count
  /\ UNCHANGED <<extracting, mu, scope, now, lastRun, audit, lifecycle,
                 filedUnder, turnPasses>>

-----------------------------------------------------------------------------
(* A pass, run by the goroutine q that holds mu. *)

Consolidate(p) == /\ Goto(p, "idle", "lock")
                  /\ UNCHANGED <<extracting, mu, scope, stamps, audit, lifecycle,
                                 filedUnder, turnPasses>>

LockFree == mu = Free

Lock(p) == /\ LockFree
           /\ mu' = p
           /\ \E place \in Waiting :
                /\ Goto(p, place, "begin")
                /\ turnPasses' = IF place = "lockTurn" THEN turnPasses + 1
                                                       ELSE turnPasses
           /\ UNCHANGED <<extracting, scope, stamps, audit, lifecycle, filedUnder>>

Begin(q) == /\ Goto(q, "begin", IF extracting THEN "drain" ELSE "end")
            /\ lastRun' = now
            /\ UNCHANGED <<extracting, mu, scope, now, lastActivity, n, audit,
                           lifecycle, filedUnder, turnPasses>>

\* Filing reads the scope at every record, or not at all with nothing to file.
ReadScope == filedUnder' \in {filedUnder, filedUnder \cup {scope}}

Drain(q) == /\ Goto(q, "drain", "extract")
            /\ ReadScope
            /\ UNCHANGED <<extracting, mu, scope, stamps, audit, lifecycle,
                           turnPasses>>

Extract(q) == /\ Goto(q, "extract", "curate")
              /\ ReadScope
              /\ UNCHANGED <<extracting, mu, scope, stamps, audit, lifecycle,
                             turnPasses>>

\* Bound only: room for one more id, beside those of restores in flight.
RoomToLog == issued + InFlight("note") < MaxTransitions

NoTransition == UNCHANGED <<transitions, issued>>

LogTransition == /\ issued' = issued + 1
                 /\ transitions' = transitions \cup {issued + 1}

\* Sweep, Merge and Promote; the last reads the scope again.
Curate(q) == /\ Goto(q, "curate", "report")
             /\ ReadScope
             /\ \/ NoTransition
                \/ RoomToLog /\ LogTransition
             /\ UNCHANGED <<extracting, mu, scope, stamps, lifecycle, offered,
                            turnPasses>>

\* The report is best-effort: `offered` holds whether or not it was stored.
Report(q) == /\ Goto(q, "report", "end")
             /\ offered' = offered \cup transitions
             /\ UNCHANGED <<extracting, mu, scope, stamps, transitions, issued,
                            lifecycle, filedUnder, turnPasses>>

ReleasedOnlyAfterReport == IF extracting THEN Free ELSE mu
Released == Free

\* The deferred reset of transitions, then the deferred Unlock.
End(q) == /\ Goto(q, "end", Rest(q))
          /\ transitions' = {}
          /\ filedUnder' = {}
          /\ mu' = Released
          /\ UNCHANGED <<extracting, scope, stamps, issued, offered, lifecycle,
                         turnPasses>>

PassStep(q) == Begin(q) \/ Drain(q) \/ Extract(q) \/ Curate(q) \/ Report(q) \/ End(q)

-----------------------------------------------------------------------------
(* SetScope and Restore, which take mu around their own few assignments. *)

SetScope(p) == /\ Goto(p, "idle", "setScope")
               /\ UNCHANGED <<extracting, mu, scope, stamps, audit, lifecycle,
                              filedUnder, turnPasses>>

RescopeWithoutMu == TRUE
RescopeUnderMu == mu = Free

Rescope(p) == /\ RescopeUnderMu
              /\ Goto(p, "setScope", "idle")
              /\ scope' \in Scopes
              /\ UNCHANGED <<extracting, mu, stamps, audit, lifecycle, filedUnder,
                             turnPasses>>

\* The node has been restored, without mu; only the transition is left to log.
Restore(p) == /\ RoomToLog
              /\ Goto(p, "idle", "note")
              /\ UNCHANGED <<extracting, mu, scope, stamps, audit, lifecycle,
                             filedUnder, turnPasses>>

NoteWithoutMu == TRUE
NoteUnderMu == mu = Free

NoteRestore(p) == /\ NoteUnderMu
                  /\ Goto(p, "note", "idle")
                  /\ LogTransition
                  /\ UNCHANGED <<extracting, mu, scope, stamps, offered, lifecycle,
                                 filedUnder, turnPasses>>

-----------------------------------------------------------------------------
(* The idle loop.  Start and Close are lifecycle calls of one owner, so they  *)
(* never overlap one another.                                                *)

DueForIdleRun(t, activity) ==
  /\ IdleDays > 0
  /\ lastRun # Never
  /\ t - lastRun >= IdleDays
  /\ activity = Never \/ t - activity >= IdleHours

StartRefused == IdleDays <= 0 \/ stopIdle

Start == /\ ~StartRefused
         /\ ~closing
         /\ stopIdle' = TRUE /\ cancelled' = FALSE
         /\ Goto(Loop, "off", "select")
         /\ UNCHANGED <<extracting, mu, scope, stamps, audit, closing, filedUnder,
                        turnPasses>>

\* The context the host gave to Start is cancelled from outside.
CancelContext == /\ stopIdle /\ ~cancelled
                 /\ cancelled' = TRUE
                 /\ UNCHANGED <<extracting, mu, scope, stamps, audit, stopIdle,
                                closing, pc, filedUnder, turnPasses>>

\* select picks either ready case, so a tick may still win over a done context.
LoopTick == /\ DueForIdleRun(now, lastActivity)
            /\ Goto(Loop, "select", "try")
            /\ UNCHANGED <<extracting, mu, scope, stamps, audit, lifecycle,
                           filedUnder, turnPasses>>

TryLockIgnored == TRUE
TryLockWins == mu = Free

LoopTryLock == /\ Goto(Loop, "try", IF TryLockWins THEN "begin" ELSE "select")
               /\ mu' = IF TryLockWins THEN Loop ELSE mu
               /\ UNCHANGED <<extracting, scope, stamps, audit, lifecycle,
                              filedUnder, turnPasses>>

LoopExit == /\ cancelled
            /\ Goto(Loop, "select", "off")
            /\ UNCHANGED <<extracting, mu, scope, stamps, audit, lifecycle,
                           filedUnder, turnPasses>>

StopForgotten == cancelled
StopSignal == TRUE

Close == /\ stopIdle /\ ~closing
         /\ closing' = TRUE
         /\ cancelled' = StopSignal
         /\ UNCHANGED <<extracting, mu, scope, stamps, audit, stopIdle, pc,
                        filedUnder, turnPasses>>

NotAwaited == TRUE
IdleDone == pc[Loop] = "off"

CloseReturn == /\ closing /\ IdleDone
               /\ closing' = FALSE /\ stopIdle' = FALSE
               /\ UNCHANGED <<extracting, mu, scope, stamps, audit, cancelled, pc,
                              filedUnder, turnPasses>>

-----------------------------------------------------------------------------

Call(p) == Observe(p) \/ Consolidate(p) \/ SetScope(p) \/ Restore(p)

CallStep(p) == Stamp(p) \/ Lock(p) \/ Rescope(p) \/ NoteRestore(p)

IdleStep == LoopTick \/ LoopTryLock \/ LoopExit

Lifecycle == Start \/ CancelContext \/ Close \/ CloseReturn

Next == \/ Tick
        \/ \E p \in Procs : Call(p) \/ CallStep(p)
        \/ \E q \in Threads : PassStep(q)
        \/ IdleStep
        \/ Lifecycle

Spec == Init /\ [][Next]_vars

(* Fairness.  The scheduler runs every goroutine that can run; a call to the  *)
(* memory or the extractor returns (it is given a context).  A sync.Mutex     *)
(* hands itself to the longest waiter after 1ms, so nobody who waits for mu    *)
(* starves: strong fairness.  select chooses uniformly among its ready cases,  *)
(* so a done context is noticed eventually: strong fairness of LoopExit.       *)
Fairness ==
  /\ \A p \in Procs : /\ WF_vars(Stamp(p))
                      /\ SF_vars(Lock(p))
                      /\ SF_vars(Rescope(p))
                      /\ SF_vars(NoteRestore(p))
  /\ \A q \in Threads : WF_vars(PassStep(q))
  /\ WF_vars(LoopTryLock)
  /\ SF_vars(LoopExit)
  /\ WF_vars(CloseReturn)

FairSpec == Spec /\ Fairness

-----------------------------------------------------------------------------
(* Properties. *)

TypeOK ==
  /\ extracting \in BOOLEAN
  /\ mu \in Threads \cup {Free}
  /\ scope \in Scopes
  /\ now \in Nat /\ lastRun \in Nat /\ lastActivity \in Nat
  /\ n \in Nat /\ issued \in Nat /\ turnPasses \in Nat
  /\ transitions \subseteq 1..issued
  /\ offered \subseteq 1..issued
  /\ stopIdle \in BOOLEAN /\ cancelled \in BOOLEAN /\ closing \in BOOLEAN
  /\ pc \in [Threads -> PassPhases \cup Waiting \cup
                {"idle", "stamp", "setScope", "note", "off", "select", "try"}]
  /\ filedUnder \subseteq Scopes

\* mu is held by exactly the goroutine that is inside a pass.
MuHolder == \A q \in Threads : pc[q] \in PassPhases <=> mu = q

\* Consolidation passes never interleave (learner.go:40-42): whatever mixture of
\* explicit, every-N-turns and idle passes is running, one goroutine is inside.
PassExclusion == \A q, r \in Threads :
                   pc[q] \in PassPhases /\ pc[r] \in PassPhases => q = r

\* What the running pass has filed so far is filed under the current scope.
FiledUnderScope == IF mu = Free THEN filedUnder = {} ELSE filedUnder \subseteq {scope}

\* One pass never files findings under two projects (learner.go:291-292), though
\* SetScope may be called at any moment of it.
OneScopePerPass == \A s, t \in filedUnder : s = t

\* No audit transition is lost or reported twice: each logged id either waits in
\* the log or has been handed to a report, and never both, except between the
\* report of a pass and its end, when the whole log has just been handed over.
TransitionsConserved ==
  extracting => /\ transitions \cup offered = 1..issued
                /\ IF \E q \in Threads : pc[q] = "end"
                   THEN transitions \subseteq offered
                   ELSE transitions \cap offered = {}

\* Every `every` turns bring exactly one pass: those entered so far plus those
\* still waiting for mu (learner.go:181-208), with turns on several goroutines.
TurnCadence == Every > 0 => turnPasses + InFlight("lockTurn") = n \div Every

\* Once Close has returned no idle pass runs or can start (learner.go:140-149).
ClosedIsQuiet == ~stopIdle => pc[Loop] = "off" /\ mu # Loop

\* The inductive invariant of the proofs.
Inv == /\ TypeOK
       /\ MuHolder
       /\ FiledUnderScope
       /\ TransitionsConserved
       /\ ClosedIsQuiet

\* The Learner keeps the contract of its passes.
Contract == INSTANCE PassContract WITH running <- mu # Free, log <- transitions
ContractSpec == Contract!Spec

\* Every call of the host returns, whoever else wants mu: no self-deadlock on
\* mu, no starvation behind automatic and idle passes.
CallsReturn == \A p \in Procs : pc[p] # "idle" ~> pc[p] = "idle"

\* Close returns even when it overlaps an idle pass or a tick that is due.
CloseReturns == closing ~> ~closing

\* What SetIdle says (learner.go:91-94): an idle pass starts once idleDays have
\* passed since the last run and idleHours without a turn.
IdlePassIsDue ==
  [][pc[Loop] = "try" /\ pc'[Loop] = "begin" => DueForIdleRun(now, lastActivity)]_vars

\* What Start says (learner.go:125-126): it does nothing only when the trigger
\* is disabled or the loop is already running.
StartRefusedOnlyWhileRunning ==
  ~closing /\ StartRefused => IdleDays <= 0 \/ pc[Loop] # "off"
=============================================================================
