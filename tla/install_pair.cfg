SPECIFICATION Spec
CONSTANTS
  Sessions = {s1, s2}
  URLs <- MCURLs
  Texts <- MCTexts
  NormalURL <- MCNormalURL
  Offers <- MCOffers
  Flags <- TwoFlags
  Old = Old
  Rejected = Rejected
  NoText = NoText
  NoURL = NoURL
  NoCheckout = NoCheckout
  Partial = Partial
  Damaged = Damaged
  MaxOutages = 1
  u1 = u1
  u2 = u2
  a = a
  b = b
  ftp = ftp
SYMMETRY Swaps
CONSTRAINT DifferentURLs
ACTION_CONSTRAINT NoIdleWriteBack
INVARIANTS
  OneInstaller
  InstalledSurvivesOutage
PROPERTIES
  CheckoutsNeverLost
  EndsInstalled
  AsideOnlyApproved
  InstallIsGuarded
CHECK_DEADLOCK FALSE
