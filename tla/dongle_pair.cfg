SPECIFICATION Spec
CONSTANTS
  Sessions = {s1, s2}
  Ids <- MCIds
  Texts <- MCTexts
  NormalForm <- MCNormalForm
  Flags <- TwoFlags
  Rejected = Rejected
  NoText = NoText
  NoId = NoId
  NoFile = NoFile
  Blank = Blank
  MaxOutages = 1
SYMMETRY Swaps
INVARIANTS
  TypeOK
  PersistReadOnlyAtRest
  VerifiedSurvivesOutage
PROPERTIES
  SeenIdReplacedOnlyApproved
  VerifiedIsDurable
  RepairIsGuarded
CHECK_DEADLOCK FALSE
