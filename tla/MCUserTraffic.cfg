SPECIFICATION Spec
CONSTANTS
  None = none
  Reports = {r1, r2}
  Handlers = {h1}
  Editors = {e1, e2}
  Quotas = {1, 2}
  MaxMonth = 1
  MaxEvents = 3
SYMMETRY Symmetry
INVARIANTS PeriodsExact AcceptedCharged StatsAccount ExceededExact RowsAgree
