SPECIFICATION FairSpec
CONSTANTS
  N = 4
  MaxLosses = 1
INVARIANTS
  AnswersAreOwn
PROPERTIES
  OnlyTheNetworkBreaks
  CallerReturns
  GoroutinesEnd
CHECK_DEADLOCK FALSE
