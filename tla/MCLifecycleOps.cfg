SPECIFICATION Spec
CONSTANTS
  h1 = h1  h2 = h2  w1 = w1  w2 = w2  none = none  t1 = t1  t2 = t2
  r0 = r0  r1 = r1  q1 = q1  q2 = q2
  MaxOps = 2
  Hosts = {h1, h2}
  WorkerIds = {w1, w2}
  NoWorker = none
  HostOf <- MCHostOf
  Types = {t1, t2}
  TypeOf <- MCTypeOf
  Results = {r0, r1}
  EmptyResult = r0
  Handlers = {q1, q2}
  Events <- MCEvents
  MaxClaim = 2
SYMMETRY Symmetry
INVARIANTS TypeOK StampsConsistent ResultLogTruthful
PROPERTIES PendingOnlyClaimed ClaimantDecides ImplementsLedger
CHECK_DEADLOCK FALSE
