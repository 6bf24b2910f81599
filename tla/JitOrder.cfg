SPECIFICATION Spec
CONSTANTS
  MaxPid = 2
  Tags = {a, b}
  Matchers = {{a}, {a, b}}
  Delays = {0, 1}
  MaxSends = 3
  MaxTimers = 1
  MaxNow = 1
  NoWait = NoWait
PROPERTY ArrivalOrder
