CONSTANTS
  Agents = {a, b}
  Project = Project
  Names = {m, n}
  Clients = {c, d}
  None = None
  MinAge = 1
  MaxClock = 2
  MaxTexts = 2
  MaxCalls = 2
SPECIFICATION Spec
INVARIANT Inv SharedTextApproved MarkedTextWasShared RevocationHolds PromoteIsComplete
PROPERTY CuratedKept
SYMMETRY Symmetry
