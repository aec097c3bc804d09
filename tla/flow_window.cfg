SPECIFICATION Spec
CONSTANTS
  Flags <- MCFlags
  Kinds = {"terminal"}
  Systems = {"windows", "other"}
  Lines = {"blank", "1", "2", "address"}
  MaxLines = 3
  MaxPiped = 0
INVARIANTS
  WindowWaits
CHECK_DEADLOCK FALSE
