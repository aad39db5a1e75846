CONSTANTS
  Keys = {a, b}
  Projects = {x, y}
  MaxLines = 4
  MaxRestarts = 1
SPECIFICATION Spec
INVARIANT Inv PendingKeysDistinct SeenIsStored FindingsAccounted OffsetSplitsJournal
SYMMETRY Symmetry
PROPERTY LedgerSpec
