CONSTANTS
  Procs = {p1, p2}
  Loop = Loop
  Free = Free
  Scopes = {alpha, beta}
  Every = 2
  IdleDays = 2
  IdleHours = 1
  MaxClock = 4
  MaxTurns = 3
  MaxTransitions = 2
SPECIFICATION Spec
INVARIANT Inv PassExclusion OneScopePerPass TurnCadence ClosedIsQuiet
PROPERTY ContractSpec
SYMMETRY Symmetry
