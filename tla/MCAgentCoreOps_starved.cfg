SPECIFICATION ReliableSpec
CONSTANTS
  s1 = s1  s2 = s2  s3 = s3  s4 = s4  other = other
  MaxOps = 2
  Host = host
  q1 = q1  q2 = q2
  Handlers = {q1}
  Submissions = {s1, s3}
  IdOf <- MCIdOf
  Worker = worker  NoTask = none
  Capacity = 1
  Others = {}
  Outcomes = {"completed", "failed"}
  MaxCrashes = 0
PROPERTY ClaimRecovered
CHECK_DEADLOCK FALSE
