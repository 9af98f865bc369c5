SPECIFICATION FairSpec
CONSTANTS
  Versions = {v1, v2, v3}
  Bad = {v3}
  First = v1
  NoVersion = none
  MaxCrashCount = 2
  MaxUpdates = 3
  MaxUpsets = 2
CHECK_DEADLOCK FALSE
INVARIANTS RollbackPossible CurrentTruthful
PROPERTIES BadLeaves
