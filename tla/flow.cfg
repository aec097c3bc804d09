SPECIFICATION FairSpec
CONSTANTS
  Flags <- MCFlags
  Kinds = {"terminal", "pipe", "file", "null"}
  Systems = {"windows"}
  Lines = {"blank", "1", "2", "3", "address", "id", "yes", "phrase"}
  MaxLines = 6
  MaxPiped = 3
INVARIANTS
  WriteWasSaid
  FileAfterMenuNeverActs
PROPERTIES
  AnswersFollowOn
  UnattendedRunEnds
CHECK_DEADLOCK FALSE
