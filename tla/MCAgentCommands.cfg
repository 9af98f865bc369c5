SPECIFICATION Spec
CONSTANTS
  q1 = q1  q2 = q2  s1 = s1  s2 = s2  s3 = s3  s4 = s4  task = task
  MaxOps = 1
  Host = host  WorkerId = w  NoWorker = nobody  Type = type  Result = res
  Handlers = {q1, q2}
  PollLimit = 1
  Submissions = {s1, s2}
  IdOf <- MCIdOf
  Worker = worker  NoTask = none
  Capacity = 2
  Internal = {}
  HandlerResults = {"success"}
  MaxCrashes = 1
  MayStop = TRUE
SYMMETRY Symmetry
INVARIANTS TypeOK EndsEarned
PROPERTIES RedeliveredLate
CHECK_DEADLOCK FALSE
