CONSTANTS
  Procs = {p1, p2}
  Loop = Loop
  Free = Free
  Scopes = {alpha}
  Every = 1
  IdleDays = 1
  IdleHours = 1
  MaxClock = 3
  MaxTurns = 2
  MaxTransitions = 1
SPECIFICATION Spec
INVARIANT StartRefusedOnlyWhileRunning
