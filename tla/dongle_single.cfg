SPECIFICATION FairSpec
CONSTANTS
  Sessions = {s1}
  Ids <- MCIds
  Texts <- MCTexts
  NormalForm <- MCNormalForm
  Flags <- AllFlags
  Rejected = Rejected
  NoText = NoText
  NoId = NoId
  NoFile = NoFile
  Blank = Blank
  MaxOutages = 2
PROPERTIES
  ReplaceOnlyApproved
  SessionReturns
CHECK_DEADLOCK FALSE
