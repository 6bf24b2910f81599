SPECIFICATION FairSpec
CONSTANTS
  MaxPid = 3
  Tags = {a, b}
  Matchers = {{a}, {a, b}}
  MaxSends = 2
  MaxPolls = 1
  NoPark = NoPark
INVARIANTS ResumeIsQueued NoMissedMatch CompletesOnce
PROPERTIES RefinesSelectiveReceive ReadyRuns
