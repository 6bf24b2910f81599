SPECIFICATION FairSpec
CONSTANTS
  MaxPid = 2
  Tags = {a, b}
  Matchers = {{a}, {a, b}}
  Delays = {0, 1}
  MaxSends = 2
  MaxTimers = 2
  MaxNow = 1
  NoWait = NoWait
INVARIANTS ReadyIsQueued NoMissedMatch TimersMatchParks 
PROPERTIES RefinesSelectiveReceive ReadyRuns
