SPECIFICATION Spec
CONSTANTS
  a = a
  b = b
  Atoms = {a, b}
  Input <- MCInput
  Literals = {a}
  MaxCells = 4
  MaxNames = 5
  MaxDepth = 2
  MaxSteps = 3
INVARIANTS ValuesNeverChange SharedSpinesAreClosed
CHECK_DEADLOCK FALSE
