SPECIFICATION FairSpec
CONSTANTS
  Workers = {w1, w2, w3}
  Idle = Idle
  Left = Left
  Targets <- FourTargets
INVARIANTS
  TypeOK
  ResultsNeverBlock
  ReportsMatchTargets
  NeverCrashes
PROPERTIES
  ScanIsSurvey
  ScanEnds
CHECK_DEADLOCK FALSE
