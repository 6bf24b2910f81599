SPECIFICATION Spec
CONSTANTS
  Jobs = {1, 2, 3, 4, 5}
  Answers = {1, 2, 3, 4, 5, 6}
  Facts = {1, 2, 4, 6}
  Externals = {9}
  Cumulative = {1, 6}
  RunOf <- MCRunOf
  MayRead <- MCRead
  MayClaim <- MCClaim
  MayWait <- MCWait
  Producer <- MCProducer
  Fallible = {2, 4}
  Programs = {{1, 2, 3}, {4, 5}}
INVARIANTS CountsAreExact FinalityAgrees SettledIsFinal NoSleepingWaiter DirtyRunsAgain MovedReadersRun DrainAnswers
