SPECIFICATION Spec
CONSTANTS
  Tasks = {t1, t2}
  Injector = users
  NoTask = none
  Handlers = {h1, h2}
  Missing = missing
  Merges = TRUE
  MaxRuns = 3
  MaxRevisions = 2
  MaxEdits = 0
  MaxUpsets = 1
  MaxInjections = 1
SYMMETRY Symmetry
CHECK_DEADLOCK FALSE
INVARIANTS NothingLost GateExact SuccessEarned RevisionOnDisk ConfigCurrent OpenRunFound RevisionConfirmed
PROPERTIES FailureRestores EndKept
