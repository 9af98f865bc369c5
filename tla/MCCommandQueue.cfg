SPECIFICATION FairSpec
CONSTANTS
  s1 = s1  s2 = s2  s3 = s3  s4 = s4  i1 = i1  i2 = i2  i3 = i3
  w1 = w1  none = none
  Submissions = {s1, s2, s3, s4}
  Ids = {i1, i2, i3}
  IdOf <- MCIdOf
  Unsupported = {s4}
  Workers = {w1}
  NoTask = none
  Capacity = 2
  Results = {"success", "failed"}
INVARIANTS Accounting InflightExact OrphansAnswered
PROPERTIES ImplementsLedger AcceptedAnswered StopReturns
CHECK_DEADLOCK FALSE
