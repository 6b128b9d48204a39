SPECIFICATION Spec
CONSTANTS
  Builds = {b1, b2}
  Genuine = {b1}
  Sectors = 2
  MaxPending = 2
  FlashFails = TRUE
  Blank = Blank
  Bad = Bad
INVARIANTS StagedIsVerified BootableOutsideCommit
PROPERTIES CommitResetsIntoNew CommitIsDecided
