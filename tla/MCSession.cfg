CONSTANTS
  Procs = {p, q}
  Projects = {x, y}
  Agent = agent
  Names = {n}
  None = None
  MaxTurns = 2
  MaxPending = 2
  RecallK = 2
  MaxCalls = 4
  MaxBoots = 2
SPECIFICATION Spec
INVARIANT Inv TranscriptInOrder TranscriptHeals RawTurnsKept HitsShownOnce UsesOneProjection
SYMMETRY Symmetry
