SPECIFICATION Spec
CONSTANTS
  Causes = {"DNS", "TIMEOUT"}
  Candidates = 2
  Limit = 3
  SubLimit = 3
  MaxTry = 3
INVARIANTS
  SetupEnvIsSetups
CHECK_DEADLOCK FALSE
