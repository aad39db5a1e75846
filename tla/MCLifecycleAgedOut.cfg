CONSTANTS
  Keys = {k1, k2}
  Umbrellas = {u1}
  Clients = {c}
  None = None
  StaleAfter = 1
  ArchiveAfter = 2
  MergeMin = 2
  MergeMax = 2
  MergeStates = {"active", "stale"}
  MaxClock = 3
  MaxOps = 2
  MaxSearches = 2
SPECIFICATION Spec
PROPERTY RestoredIsNotAgedOut
