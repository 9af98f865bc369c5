SPECIFICATION FairSpec
CONSTANTS
  Tasks = {t1, t2}
  Injector = users
  NoTask = none
  Handlers = {h1}
  Missing = missing
  Merges = FALSE
  MaxRuns = 5
  MaxRevisions = 1
  MaxEdits = 0
  MaxUpsets = 2
  MaxInjections = 0
CHECK_DEADLOCK FALSE
PROPERTIES Converges
