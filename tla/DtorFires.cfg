SPECIFICATION Spec
CONSTANTS
  Procs = {1, 2}
  Main = 1
  Handles = {r, t}
  Bins = {b}
  MaxStubs = 2
  MaxMail = 1
  MaxMade = 2
  Legs = {"jit"}
INVARIANT DtorFires
