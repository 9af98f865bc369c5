SPECIFICATION FairSpec
CONSTANTS
  s1 = s1  s2 = s2  s3 = s3  s4 = s4  other = other
  MaxOps = 1
  Host = host
  q1 = q1  q2 = q2
  Handlers = {q1, q2}
  Submissions = {s1, s4}
  IdOf <- MCIdOf
  Worker = worker  NoTask = none
  Capacity = 1
  Others = {other}
  Outcomes = {"completed", "failed"}
  MaxCrashes = 1
INVARIANTS TypeOK GateExact CoreEndsEarned
PROPERTIES NeverReopened ClaimRecovered
CHECK_DEADLOCK FALSE
