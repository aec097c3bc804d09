SPECIFICATION Spec
CONSTANTS
  Sessions = {s1, s2}
  NoFile = NoFile
  Blank = Blank
  Garbage = Garbage
  Empty = Empty
  State = State
  MaxRestarts = 1
SYMMETRY Swaps
PROPERTIES
  ShownReplacedOnlyApproved
  AppliedIsObject
  WorkaroundIsGuarded
CHECK_DEADLOCK FALSE
