SPECIFICATION Spec
CONSTANTS
  Tasks = {t1}
  Injector = users
  NoTask = none
  Handlers = {h1}
  Missing = missing
  Merges = FALSE
  MaxRuns = 1
  MaxRevisions = 1
  MaxEdits = 1
  MaxUpsets = 0
  MaxInjections = 0
INVARIANTS SentAsRendered
