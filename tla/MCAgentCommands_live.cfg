SPECIFICATION FairSpec
CONSTANTS
  q1 = q1  q2 = q2  s1 = s1  s2 = s2  s3 = s3  s4 = s4  task = task
  MaxOps = 1
  Host = host  WorkerId = w  NoWorker = nobody  Type = type  Result = res
  Handlers = {q1}
  PollLimit = 1
  Submissions = {s1, s4}
  IdOf <- MCIdOf
  Worker = worker  NoTask = none
  Capacity = 1
  Internal = {task}
  HandlerResults = {"success"}
  MaxCrashes = 1
  MayStop = FALSE
INVARIANTS RoomKept
PROPERTIES NotForgotten
CHECK_DEADLOCK FALSE
