CONSTANTS
  Keys = {a}
  Projects = {x}
  MaxLines = 2
  MaxRestarts = 0
SPECIFICATION Spec
INVARIANT QueuedNotSeen
