--------------------------- MODULE LearnerProofs ---------------------------
(* Proofs about module Learner, for every set of goroutines and scopes and    *)
(* every setting: the inductive invariant Inv, what follows from it, and the   *)
(* refinement of PassContract.                                               *)
EXTENDS Learner, FiniteSetTheorems, TLAPS

-----------------------------------------------------------------------------
(* The initial states. *)

\* The Learner starts in the invariant: nobody holds mu, nothing is logged.
LEMMA InitInv == Init => Inv
<1> SUFFICES ASSUME Init PROVE Inv
  OBVIOUS
<1>1. TypeOK
  BY ThreadAssumption DEF Init, TypeOK, Threads, Never
<1>2. MuHolder
  BY ThreadAssumption DEF Init, MuHolder, Threads, PassPhases
<1>3. FiledUnderScope
  BY DEF Init, FiledUnderScope
<1>4. TransitionsConserved
  BY DEF Init, TransitionsConserved, Threads
<1>5. ClosedIsQuiet
  BY ThreadAssumption DEF Init, ClosedIsQuiet, Threads
<1> QED
  BY <1>1, <1>2, <1>3, <1>4, <1>5 DEF Inv

-----------------------------------------------------------------------------
(* The steps.  A step of the host's goroutines never moves the idle loop, and *)
(* a step outside a pass never changes who is inside one.                     *)

\* Every step keeps the types.
LEMMA TypeStep == TypeOK /\ [Next]_vars => TypeOK'
<1> SUFFICES ASSUME TypeOK, [Next]_vars PROVE TypeOK'
  OBVIOUS
<1> USE ThreadAssumption DEF TypeOK, Threads, Goto, PassPhases, Waiting, stamps,
        lifecycle, audit
<1>1. CASE Tick
  BY <1>1 DEF Tick
<1>2. ASSUME NEW p \in Procs, Call(p) PROVE TypeOK'
  BY <1>2 DEF Call, Observe, Consolidate, SetScope, Restore
<1>3. ASSUME NEW p \in Procs, CallStep(p) PROVE TypeOK'
  <2>1. CASE Stamp(p)
    BY <2>1 DEF Stamp
  <2>2. CASE Lock(p)
    BY <2>2 DEF Lock
  <2>3. CASE Rescope(p)
    BY <2>3 DEF Rescope
  <2>4. CASE NoteRestore(p)
    BY <2>4 DEF NoteRestore, LogTransition
  <2> QED
    BY <1>3, <2>1, <2>2, <2>3, <2>4 DEF CallStep
<1>4. ASSUME NEW q \in Threads, PassStep(q) PROVE TypeOK'
  <2>1. CASE Begin(q)
    BY <2>1 DEF Begin
  <2>2. CASE Drain(q)
    BY <2>2 DEF Drain, ReadScope
  <2>3. CASE Extract(q)
    BY <2>3 DEF Extract, ReadScope
  <2>4. CASE Curate(q)
    <3>1. CASE NoTransition
      BY <2>4, <3>1 DEF Curate, ReadScope, NoTransition
    <3>2. CASE LogTransition
      BY <2>4, <3>2 DEF Curate, ReadScope, LogTransition
    <3> QED
      BY <2>4, <3>1, <3>2 DEF Curate
  <2>5. CASE Report(q)
    BY <2>5 DEF Report
  <2>6. CASE End(q)
    BY <2>6 DEF End, Rest, Released
  <2> QED
    BY <1>4, <2>1, <2>2, <2>3, <2>4, <2>5, <2>6 DEF PassStep
<1>5. CASE IdleStep
  BY <1>5 DEF IdleStep, LoopTick, LoopTryLock, LoopExit
<1>6. CASE Lifecycle
  BY <1>6 DEF Lifecycle, Start, CancelContext, Close, StopSignal, CloseReturn
<1>7. CASE UNCHANGED vars
  BY <1>7 DEF vars
<1> QED
  BY <1>1, <1>2, <1>3, <1>4, <1>5, <1>6, <1>7 DEF Next

\* Every step keeps mu with the one goroutine inside a pass.
LEMMA HolderStep == TypeOK /\ MuHolder /\ [Next]_vars => MuHolder'
<1> SUFFICES ASSUME TypeOK, MuHolder, [Next]_vars PROVE MuHolder'
  OBVIOUS
<1> USE ThreadAssumption DEF TypeOK, MuHolder, Threads, Goto, PassPhases
<1>1. CASE Tick
  BY <1>1 DEF Tick
<1>2. ASSUME NEW p \in Procs, Call(p) PROVE MuHolder'
  BY <1>2 DEF Call, Observe, Consolidate, SetScope, Restore
<1>3. ASSUME NEW p \in Procs, CallStep(p) PROVE MuHolder'
  <2>1. CASE Stamp(p)
    BY <2>1 DEF Stamp
  <2>2. CASE Lock(p)
    BY <2>2 DEF Lock, LockFree, Waiting
  <2>3. CASE Rescope(p)
    BY <2>3 DEF Rescope
  <2>4. CASE NoteRestore(p)
    BY <2>4 DEF NoteRestore
  <2> QED
    BY <1>3, <2>1, <2>2, <2>3, <2>4 DEF CallStep
<1>4. ASSUME NEW q \in Threads, PassStep(q) PROVE MuHolder'
  <2>1. CASE Begin(q)
    BY <2>1 DEF Begin
  <2>2. CASE Drain(q)
    BY <2>2 DEF Drain
  <2>3. CASE Extract(q)
    BY <2>3 DEF Extract
  <2>4. CASE Curate(q)
    BY <2>4 DEF Curate
  <2>5. CASE Report(q)
    BY <2>5 DEF Report
  <2>6. CASE End(q)
    BY <2>6 DEF End, Rest, Released
  <2> QED
    BY <1>4, <2>1, <2>2, <2>3, <2>4, <2>5, <2>6 DEF PassStep
<1>5. CASE IdleStep
  <2>1. CASE LoopTick
    BY <2>1 DEF LoopTick
  <2>2. CASE LoopTryLock
    BY <2>2 DEF LoopTryLock, TryLockWins
  <2>3. CASE LoopExit
    BY <2>3 DEF LoopExit
  <2> QED
    BY <1>5, <2>1, <2>2, <2>3 DEF IdleStep
<1>6. CASE Lifecycle
  BY <1>6 DEF Lifecycle, Start, CancelContext, Close, CloseReturn
<1>7. CASE UNCHANGED vars
  BY <1>7 DEF vars
<1> QED
  BY <1>1, <1>2, <1>3, <1>4, <1>5, <1>6, <1>7 DEF Next

\* Every step keeps what the running pass has filed under the current scope: the
\* scope moves only while mu is free, and the end of a pass forgets its filings.
LEMMA FiledStep == TypeOK /\ MuHolder /\ FiledUnderScope /\ [Next]_vars
                     => FiledUnderScope'
<1> SUFFICES ASSUME TypeOK, MuHolder, FiledUnderScope, [Next]_vars
             PROVE FiledUnderScope'
  OBVIOUS
<1> USE ThreadAssumption DEF MuHolder, FiledUnderScope, Threads, Goto, PassPhases
<1>1. CASE Tick
  BY <1>1 DEF Tick
<1>2. ASSUME NEW p \in Procs, Call(p) PROVE FiledUnderScope'
  BY <1>2 DEF Call, Observe, Consolidate, SetScope, Restore
<1>3. ASSUME NEW p \in Procs, CallStep(p) PROVE FiledUnderScope'
  <2>1. CASE Stamp(p)
    BY <2>1 DEF Stamp
  <2>2. CASE Lock(p)
    BY <2>2 DEF Lock, LockFree
  <2>3. CASE Rescope(p)
    BY <2>3 DEF Rescope, RescopeUnderMu
  <2>4. CASE NoteRestore(p)
    BY <2>4 DEF NoteRestore
  <2> QED
    BY <1>3, <2>1, <2>2, <2>3, <2>4 DEF CallStep
<1>4. ASSUME NEW q \in Threads, PassStep(q) PROVE FiledUnderScope'
  <2>1. CASE Begin(q)
    BY <2>1 DEF Begin
  <2>2. CASE Drain(q)
    BY <2>2 DEF Drain, ReadScope
  <2>3. CASE Extract(q)
    BY <2>3 DEF Extract, ReadScope
  <2>4. CASE Curate(q)
    BY <2>4 DEF Curate, ReadScope
  <2>5. CASE Report(q)
    BY <2>5 DEF Report
  <2>6. CASE End(q)
    BY <2>6 DEF End, Released
  <2> QED
    BY <1>4, <2>1, <2>2, <2>3, <2>4, <2>5, <2>6 DEF PassStep
<1>5. CASE IdleStep
  BY <1>5 DEF IdleStep, LoopTick, LoopTryLock, TryLockWins, LoopExit
<1>6. CASE Lifecycle
  BY <1>6 DEF Lifecycle, Start, CancelContext, Close, CloseReturn
<1>7. CASE UNCHANGED vars
  BY <1>7 DEF vars
<1> QED
  BY <1>1, <1>2, <1>3, <1>4, <1>5, <1>6, <1>7 DEF Next

\* Every step keeps the transition log and the reports complementary: a restore
\* logs its transition only while mu is free, hence never between the report of
\* a pass and the reset of the log.
LEMMA ConservedStep == TypeOK /\ MuHolder /\ TransitionsConserved /\ [Next]_vars
                         => TransitionsConserved'
<1> SUFFICES ASSUME TypeOK, MuHolder, TransitionsConserved, [Next]_vars, extracting'
             PROVE  /\ transitions' \cup offered' = 1..issued'
                    /\ IF \E q \in Threads : pc'[q] = "end"
                       THEN transitions' \subseteq offered'
                       ELSE transitions' \cap offered' = {}
  BY DEF TransitionsConserved
<1> DEFINE Ending == \E q \in Threads : pc[q] = "end"
<1>a. /\ extracting
      /\ transitions \cup offered = 1..issued
      /\ IF Ending THEN transitions \subseteq offered
                   ELSE transitions \cap offered = {}
  BY DEF TransitionsConserved, vars, Next, Tick, Call, Observe, Consolidate,
         SetScope, Restore, CallStep, Stamp, Lock, Rescope, NoteRestore, PassStep,
         Begin, Drain, Extract, Curate, Report, End, IdleStep, LoopTick,
         LoopTryLock, LoopExit, Lifecycle, Start, CancelContext, Close, CloseReturn
<1>b. issued \in Nat /\ \A id \in transitions \cup offered : id # issued + 1
  BY DEF TypeOK
<1>quiet. ASSUME UNCHANGED audit, Ending' <=> Ending
          PROVE  /\ transitions' \cup offered' = 1..issued'
                 /\ IF Ending' THEN transitions' \subseteq offered'
                               ELSE transitions' \cap offered' = {}
  BY <1>a, <1>quiet DEF audit
<1>log. ASSUME LogTransition, UNCHANGED offered, ~Ending, ~Ending'
        PROVE  /\ transitions' \cup offered' = 1..issued'
               /\ IF Ending' THEN transitions' \subseteq offered'
                             ELSE transitions' \cap offered' = {}
  <2>1. 1..(issued + 1) = 1..issued \cup {issued + 1}
    BY <1>b
  <2> QED
    BY <1>a, <1>b, <1>log, <2>1 DEF LogTransition
<1> USE ThreadAssumption DEF TypeOK, MuHolder, Threads, Goto, PassPhases
<1>1. CASE Tick
  BY <1>1, <1>quiet DEF Tick
<1>2. ASSUME NEW p \in Procs, Call(p)
      PROVE UNCHANGED audit /\ (Ending' <=> Ending)
  BY <1>2 DEF Call, Observe, Consolidate, SetScope, Restore
<1>3. ASSUME NEW p \in Procs, Stamp(p) \/ Lock(p) \/ Rescope(p)
      PROVE UNCHANGED audit /\ (Ending' <=> Ending)
  BY <1>3 DEF Stamp, Lock, Rescope, Waiting
<1>4. ASSUME NEW p \in Procs, NoteRestore(p)
      PROVE LogTransition /\ UNCHANGED offered /\ ~Ending /\ ~Ending'
  BY <1>4 DEF NoteRestore, NoteUnderMu
<1>5. ASSUME NEW q \in Threads, Begin(q) \/ Drain(q) \/ Extract(q)
      PROVE UNCHANGED audit /\ (Ending' <=> Ending)
  BY <1>5, <1>a DEF Begin, Drain, Extract
<1>6. ASSUME NEW q \in Threads, Curate(q)
      PROVE /\ UNCHANGED offered /\ ~Ending /\ ~Ending'
            /\ UNCHANGED audit \/ LogTransition
  BY <1>6 DEF Curate, NoTransition, audit
<1>7. ASSUME NEW q \in Threads, Report(q)
      PROVE /\ transitions' \cup offered' = 1..issued'
            /\ Ending' /\ transitions' \subseteq offered'
  BY <1>7, <1>a DEF Report
<1>8. ASSUME NEW q \in Threads, End(q)
      PROVE /\ transitions' \cup offered' = 1..issued'
            /\ ~Ending' /\ transitions' \cap offered' = {}
  <2>1. Ending /\ transitions \subseteq offered
    BY <1>8, <1>a DEF End
  <2>2. ~Ending'
    BY <1>8 DEF End, Rest
  <2> QED
    BY <1>8, <1>a, <2>1, <2>2 DEF End
<1>9. ASSUME IdleStep \/ Lifecycle
      PROVE UNCHANGED audit /\ (Ending' <=> Ending)
  BY <1>9 DEF IdleStep, LoopTick, LoopTryLock, LoopExit, Lifecycle, Start,
              CancelContext, Close, CloseReturn
<1>10. CASE UNCHANGED vars
  BY <1>10, <1>quiet DEF vars, audit
<1> QED
  <2>1. CASE Tick \/ UNCHANGED vars
    BY <2>1, <1>1, <1>10
  <2>2. ASSUME NEW p \in Procs, Call(p) \/ CallStep(p)
        PROVE  /\ transitions' \cup offered' = 1..issued'
               /\ IF Ending' THEN transitions' \subseteq offered'
                             ELSE transitions' \cap offered' = {}
    BY <2>2, <1>2, <1>3, <1>4, <1>quiet, <1>log DEF CallStep
  <2>3. ASSUME NEW q \in Threads, PassStep(q)
        PROVE  /\ transitions' \cup offered' = 1..issued'
               /\ IF Ending' THEN transitions' \subseteq offered'
                             ELSE transitions' \cap offered' = {}
    BY <2>3, <1>5, <1>6, <1>7, <1>8, <1>quiet, <1>log DEF PassStep
  <2>4. CASE IdleStep \/ Lifecycle
    BY <2>4, <1>9, <1>quiet
  <2> QED
    BY <2>1, <2>2, <2>3, <2>4 DEF Next

\* Every step keeps a closed Learner quiet: only Start, which sets stopIdle, brings
\* the loop to life, and Close clears stopIdle once the loop is off.
LEMMA ClosedStep == TypeOK /\ MuHolder /\ ClosedIsQuiet /\ [Next]_vars
                      => ClosedIsQuiet'
<1> SUFFICES ASSUME TypeOK, MuHolder, ClosedIsQuiet, [Next]_vars
             PROVE ClosedIsQuiet'
  OBVIOUS
<1> USE ThreadAssumption DEF TypeOK, MuHolder, ClosedIsQuiet, Threads, Goto, PassPhases
<1>1. CASE Tick
  BY <1>1 DEF Tick, lifecycle
<1>2. ASSUME NEW p \in Procs, Call(p) PROVE ClosedIsQuiet'
  BY <1>2 DEF Call, Observe, Consolidate, SetScope, Restore, lifecycle
<1>3. ASSUME NEW p \in Procs, CallStep(p) PROVE ClosedIsQuiet'
  BY <1>3 DEF CallStep, Stamp, Lock, Rescope, NoteRestore, lifecycle
<1>4. ASSUME NEW q \in Threads, PassStep(q) PROVE ClosedIsQuiet'
  BY <1>4 DEF PassStep, Begin, Drain, Extract, Curate, Report, End, Released,
              lifecycle
<1>5. CASE IdleStep
  BY <1>5 DEF IdleStep, LoopTick, LoopTryLock, LoopExit, lifecycle
<1>6. CASE Lifecycle
  BY <1>6 DEF Lifecycle, Start, CancelContext, Close, CloseReturn, IdleDone
<1>7. CASE UNCHANGED vars
  BY <1>7 DEF vars
<1> QED
  BY <1>1, <1>2, <1>3, <1>4, <1>5, <1>6, <1>7 DEF Next

-----------------------------------------------------------------------------
(* The cadence of the turns.  The goroutines of the host need not be finitely  *)
(* many: those that wait for mu with a due turn always are.                   *)

DueTurns == {p \in Procs : pc[p] = "lockTurn"}

TurnInv == TypeOK /\ IsFiniteSet(DueTurns) /\ TurnCadence

\* One more turn brings the quotient up exactly when it is a multiple of every.
LEMMA DivStep == ASSUME NEW count \in Nat, NEW every \in Nat \ {0}
                 PROVE  (count + 1) \div every = IF (count + 1) % every = 0
                                                 THEN count \div every + 1
                                                 ELSE count \div every
<1> DEFINE q == count \div every
           r == count % every
           q2 == (count + 1) \div every
           r2 == (count + 1) % every
<1>1. q \in Int /\ r \in 0..(every - 1) /\ count = every * q + r
  OBVIOUS
<1>2. q2 \in Int /\ r2 \in 0..(every - 1) /\ count + 1 = every * q2 + r2
  OBVIOUS
<1> HIDE DEF q, r, q2, r2
<1>3. PICK d \in Int : d = q2 - q
  BY <1>1, <1>2
<1>4. every * d = r + 1 - r2
  BY <1>1, <1>2, <1>3
<1>5. d \in {0, 1}
  BY <1>1, <1>2, <1>4
<1>6. IF r2 = 0 THEN d = 1 ELSE d = 0
  BY <1>1, <1>2, <1>4, <1>5
<1> QED
  BY <1>1, <1>2, <1>3, <1>6 DEF q, r, q2, r2

\* Before and after a step, the cadence is a matter of how many wait.
LEMMA CadenceOfDueTurns ==
  /\ TurnCadence <=> (Every > 0 => turnPasses + Cardinality(DueTurns) = n \div Every)
  /\ TurnCadence' <=> (Every > 0 => turnPasses' + Cardinality(DueTurns') = n' \div Every)
BY DEF TurnCadence, InFlight, DueTurns

\* At the start no turn has been counted and nobody waits.
LEMMA InitTurns == Init => TurnInv
<1> SUFFICES ASSUME Init PROVE TurnInv
  OBVIOUS
<1>1. DueTurns = {}
  BY ThreadAssumption DEF Init, DueTurns, Threads
<1>2. Every > 0 => 0 \div Every = 0
  BY SettingAssumption
<1>3. IsFiniteSet(DueTurns) /\ InFlight("lockTurn") = 0
  BY <1>1, FS_EmptySet DEF DueTurns, InFlight
<1>4. TurnCadence
  BY <1>2, <1>3 DEF Init, TurnCadence
<1> QED
  BY <1>3, <1>4, InitInv DEF Inv, TurnInv

\* What moves neither a goroutine waiting with a due turn nor a count keeps TurnInv.
LEMMA TurnsUntouched == ASSUME TurnInv, TypeOK', UNCHANGED <<n, turnPasses>>,
                               DueTurns' = DueTurns
                        PROVE  TurnInv'
BY DEF TurnInv, TurnCadence, InFlight, DueTurns

\* A turn that is due takes its place in the queue for mu as it is counted.
LEMMA StampTurns == ASSUME TurnInv, TypeOK', NEW p \in Procs, Stamp(p) PROVE TurnInv'
<1> DEFINE count == IF Every > 0 THEN n + 1 ELSE n
<1>1. /\ pc[p] = "stamp" /\ n' = count /\ turnPasses' = turnPasses
      /\ pc' = [pc EXCEPT ![p] = IF TurnIsDue(count) THEN "lockTurn" ELSE "idle"]
  BY DEF Stamp, Goto
<1>2. p \notin DueTurns /\ pc = [q \in Threads |-> pc[q]] /\ p \in Threads
  BY <1>1 DEF DueTurns, TurnInv, TypeOK, PassPhases, Waiting, Threads
<1>3. CASE TurnIsDue(count)
  <2>1. DueTurns' = DueTurns \cup {p}
    BY <1>1, <1>2, <1>3 DEF DueTurns, Threads
  <2>2. IsFiniteSet(DueTurns') /\ Cardinality(DueTurns') = Cardinality(DueTurns) + 1
    BY <1>2, <2>1, FS_AddElement DEF TurnInv
  <2>3. n' \div Every = n \div Every + 1
    BY <1>1, <1>3, DivStep, SettingAssumption DEF TurnIsDue, TurnInv, TypeOK
  <2>4. Cardinality(DueTurns) \in Nat
    BY FS_CardinalityType DEF TurnInv
  <2> QED
    BY <1>1, <2>2, <2>3, <2>4, CadenceOfDueTurns DEF TurnInv, TypeOK
<1>4. CASE ~TurnIsDue(count)
  <2>1. DueTurns' = DueTurns
    BY <1>1, <1>2, <1>4 DEF DueTurns, Threads
  <2>2. Every > 0 => n' \div Every = n \div Every
    <3> SUFFICES ASSUME Every > 0 PROVE n' \div Every = n \div Every
      OBVIOUS
    <3>1. n' = n + 1 /\ n \in Nat /\ Every \in Nat \ {0} /\ (n + 1) % Every # 0
      BY <1>1, <1>4, SettingAssumption DEF TurnIsDue, TurnInv, TypeOK
    <3> QED
      BY <3>1, DivStep
  <2> QED
    BY <1>1, <2>1, <2>2, CadenceOfDueTurns DEF TurnInv
<1> QED
  BY <1>3, <1>4

\* A goroutine that gets mu with a due turn leaves the queue and is counted.
LEMMA LockTurns == ASSUME TurnInv, TypeOK', NEW p \in Procs, Lock(p) PROVE TurnInv'
<1>1. PICK place \in Waiting :
        /\ pc[p] = place /\ pc' = [pc EXCEPT ![p] = "begin"] /\ n' = n
        /\ turnPasses' = IF place = "lockTurn" THEN turnPasses + 1 ELSE turnPasses
  BY DEF Lock, Goto, stamps
<1>2. pc = [q \in Threads |-> pc[q]] /\ p \in Threads
  BY DEF TurnInv, TypeOK, PassPhases, Waiting, Threads
<1>3. CASE place = "lockTurn"
  <2>1. p \in DueTurns /\ DueTurns' = DueTurns \ {p}
    BY <1>1, <1>2, <1>3 DEF DueTurns, Threads
  <2>2. IsFiniteSet(DueTurns') /\ Cardinality(DueTurns') = Cardinality(DueTurns) - 1
    BY <2>1, FS_RemoveElement DEF TurnInv
  <2>3. Cardinality(DueTurns) \in Nat
    BY FS_CardinalityType DEF TurnInv
  <2> QED
    BY <1>1, <1>3, <2>2, <2>3, CadenceOfDueTurns DEF TurnInv, TypeOK
<1>4. CASE place # "lockTurn"
  <2>1. DueTurns' = DueTurns
    BY <1>1, <1>2, <1>4 DEF DueTurns, Threads
  <2> QED
    BY <1>1, <1>4, <2>1, TurnsUntouched
<1> QED
  BY <1>3, <1>4

\* Every step keeps the count of turns and passes.
LEMMA TurnStep == TurnInv /\ [Next]_vars => TurnInv'
<1> SUFFICES ASSUME TurnInv, [Next]_vars PROVE TurnInv'
  OBVIOUS
<1>1. TypeOK /\ TypeOK'
  BY TypeStep DEF TurnInv
<1>2. ASSUME UNCHANGED <<n, turnPasses>>, DueTurns' = DueTurns PROVE TurnInv'
  BY <1>1, <1>2, TurnsUntouched
<1> USE ThreadAssumption DEF Threads, Goto, TypeOK, PassPhases, Waiting, DueTurns, stamps
<1>3. CASE Tick \/ UNCHANGED vars
  BY <1>2, <1>3 DEF Tick, vars, stamps
<1>4. ASSUME NEW p \in Procs, Call(p) PROVE TurnInv'
  BY <1>1, <1>2, <1>4 DEF Call, Observe, Consolidate, SetScope, Restore
<1>5. ASSUME NEW p \in Procs, CallStep(p) PROVE TurnInv'
  <2>1. CASE Rescope(p) \/ NoteRestore(p)
    BY <1>1, <1>2, <2>1 DEF Rescope, NoteRestore
  <2> QED
    BY <1>1, <1>5, <2>1, StampTurns, LockTurns DEF CallStep
<1>6. ASSUME NEW q \in Threads, PassStep(q) PROVE TurnInv'
  BY <1>1, <1>2, <1>6 DEF PassStep, Begin, Drain, Extract, Curate, Report, End, Rest
<1>7. CASE IdleStep
  BY <1>1, <1>2, <1>7 DEF IdleStep, LoopTick, LoopTryLock, LoopExit
<1>8. CASE Lifecycle
  BY <1>1, <1>2, <1>8 DEF Lifecycle, Start, CancelContext, Close, CloseReturn
<1> QED
  BY <1>3, <1>4, <1>5, <1>6, <1>7, <1>8 DEF Next

-----------------------------------------------------------------------------
(* The theorems. *)

\* The inductive invariant holds in every reachable state, for any number of
\* goroutines, turns and transitions.
THEOREM Invariance == Spec => []Inv
<1>1. Inv /\ [Next]_vars => Inv'
  BY TypeStep, HolderStep, FiledStep, ConservedStep, ClosedStep DEF Inv
<1> QED
  BY InitInv, <1>1, PTL DEF Spec

\* Consolidation passes never interleave (learner.go:40-42).
THEOREM Exclusion == Spec => []PassExclusion
<1>1. Inv => PassExclusion
  BY DEF Inv, MuHolder, PassExclusion
<1> QED
  BY Invariance, <1>1, PTL

\* One pass never files findings under two projects (learner.go:291-292).
THEOREM OneScope == Spec => []OneScopePerPass
<1>1. Inv => OneScopePerPass
  BY DEF Inv, FiledUnderScope, OneScopePerPass
<1> QED
  BY Invariance, <1>1, PTL

\* No transition is lost or reported twice, whatever overlaps the passes.
THEOREM NoTransitionLost == Spec => []TransitionsConserved
<1>1. Inv => TransitionsConserved
  BY DEF Inv
<1> QED
  BY Invariance, <1>1, PTL

\* Once Close has returned no idle pass runs or can start (learner.go:140-149).
THEOREM Closed == Spec => []ClosedIsQuiet
<1>1. Inv => ClosedIsQuiet
  BY DEF Inv
<1> QED
  BY Invariance, <1>1, PTL

\* Every `every` turns bring exactly one pass, those still waiting for mu included
\* (learner.go:181-208): for any number of goroutines that observe turns, and any
\* setting.
THEOREM Cadence == Spec => []TurnCadence
<1>1. TurnInv => TurnCadence
  BY DEF TurnInv
<1> QED
  BY InitTurns, TurnStep, <1>1, PTL DEF Spec

\* The threads and locks of the Learner implement the contract of its passes:
\* every step is a step of PassContract or leaves its variables alone.
THEOREM Refinement == Spec => ContractSpec
<1> USE ThreadAssumption DEF Threads, Goto, PassPhases
<1>1. Init => Contract!Init
  BY DEF Init, Contract!Init
<1>2. Inv /\ [Next]_vars => [Contract!Next]_(Contract!contractVars)
  <2> SUFFICES ASSUME Inv, [Next]_vars
               PROVE Contract!Next \/ UNCHANGED Contract!contractVars
    OBVIOUS
  <2> USE DEF Inv, TypeOK, MuHolder
  <2>1. CASE Tick \/ UNCHANGED vars
    BY <2>1 DEF Tick, vars, audit, Contract!contractVars
  <2>2. ASSUME NEW p \in Procs, Call(p) PROVE UNCHANGED Contract!contractVars
    BY <2>2 DEF Call, Observe, Consolidate, SetScope, Restore, audit,
                Contract!contractVars
  <2>3. ASSUME NEW p \in Procs, Stamp(p) PROVE UNCHANGED Contract!contractVars
    BY <2>3 DEF Stamp, audit, Contract!contractVars
  <2>4. ASSUME NEW p \in Procs, Lock(p) PROVE Contract!Begin
    BY <2>4 DEF Lock, LockFree, audit, Contract!Begin
  <2>5. ASSUME NEW p \in Procs, Rescope(p) PROVE Contract!Rescope
    BY <2>5 DEF Rescope, RescopeUnderMu, audit, Contract!Rescope
  <2>6. ASSUME NEW p \in Procs, NoteRestore(p) PROVE Contract!NoteRestore
    BY <2>6 DEF NoteRestore, NoteUnderMu, LogTransition, Contract!NoteRestore
  <2>7. ASSUME NEW q \in Threads, Begin(q) \/ Drain(q) \/ Extract(q) \/ Report(q)
        PROVE UNCHANGED Contract!contractVars
    BY <2>7 DEF Begin, Drain, Extract, Report, audit, Contract!contractVars
  <2>8. ASSUME NEW q \in Threads, Curate(q) PROVE Contract!Work
    <3>1. mu # Free /\ mu' # Free /\ scope' = scope
      BY <2>8 DEF Curate
    <3>2. transitions \subseteq transitions'
      BY <2>8 DEF Curate, NoTransition, LogTransition
    <3> QED
      BY <3>1, <3>2 DEF Contract!Work
  <2>9. ASSUME NEW q \in Threads, End(q) PROVE Contract!End
    BY <2>9 DEF End, Released, Contract!End
  <2>10. CASE IdleStep
    BY <2>10 DEF IdleStep, LoopTick, LoopTryLock, TryLockWins, LoopExit, audit,
                 Contract!Next, Contract!Begin, Contract!contractVars
  <2>11. CASE Lifecycle
    BY <2>11 DEF Lifecycle, Start, CancelContext, Close, CloseReturn, audit,
                 Contract!contractVars
  <2> QED
    BY <2>1, <2>2, <2>3, <2>4, <2>5, <2>6, <2>7, <2>8, <2>9, <2>10, <2>11
       DEF Next, CallStep, PassStep, Contract!Next
<1> QED
  BY <1>1, <1>2, Invariance, PTL DEF Spec, ContractSpec, Contract!Spec
=============================================================================
