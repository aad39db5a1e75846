CONSTANTS
  ExtractorNames = {n}
  Extractors = {e}
  None = None
  Bad = Bad
  IntValues <- Values
  HalfRange = 4096
SPECIFICATION Spec
INVARIANT Inv RefusesWhatItHonours SettingsArrive
