SPECIFICATION Spec
CONSTANTS
  Interfaces = {1, 2}
  Settings <- MCSettings
  Outputs <- MCOutputs
  Net <- MCNet
  Private = {5, 6, 7, 12}
  Loopback = {15}
  None = None
  NoIP = None
  MaxMetric = 3
  MaxChanges = 1
  Width = 4
INVARIANTS
  LeastMetric
  RightLAN
  SparesOwnAndRouter
  TargetsExact
  AllAccounted
CHECK_DEADLOCK FALSE
