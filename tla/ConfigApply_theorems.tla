------------------------- MODULE ConfigApply_theorems -------------------------
(***************************************************************************)
(* The safety properties of ConfigApply, proved from the invariant Shape   *)
(* of ConfigApply_proofs and, each, from a strengthening of its own:       *)
(* GateOwned, Earned, Confirmed, Found, AllFresh and Ordered.              *)
(***************************************************************************)
EXTENDS ConfigApply_proofs

(* No file of the active directory is lost in the course of a transaction. *)
THEOREM NothingLostTheorem == Spec => []NothingLost
<1>1. Shape => NothingLost
  BY DirKept DEF Shape
<1> QED
  BY <1>1, Shaped, PTL

(* A transaction that does not succeed leaves the directory it found.      *)
THEOREM FailureRestoresTheorem == Spec => FailureRestores
<1>1. Shape /\ [Next]_vars =>
        [\A x \in Tasks \cup {Injector} : D!Holding(x) /\ outcome'[x] \in {"failed", "rolled_back"} =>
           active' = before[x] \/ before[x] = Missing \/ torn']_(D!vars)
  BY DirSteps, DirRestores DEF Shape, Txns
<1> QED
  BY <1>1, Shaped, PTL DEF Spec, FailureRestores, D!FailureRestores

(* What the delivery does to the directory is what StagedApply allows:     *)
(* transactions one at a time, whoever asks for them.                      *)
THEOREM DirectoryImplemented == Spec => D!Spec
<1>1. Init => D!Init
  BY DEF Init
<1> QED
  BY <1>1, DirSteps, Shaped, PTL DEF Spec, D!Spec
-----------------------------------------------------------------------------
(* The gate is t's to give back.                                           *)
Owner(t) == task[t].stage # "none" /\ ~task[t].released

(* At most one task owns the gate, and it is taken exactly when one does.  *)
GateOwned ==
  /\ \A t, u \in Tasks : Owner(t) /\ Owner(u) => t = u
  /\ gate <=> \E t \in Tasks : Owner(t)

(* Every step keeps the gate owned: the handler's return gives it back     *)
(* only if the watchdog has not.                                           *)
LEMMA GateStep == Shape /\ GateOwned /\ [Next]_vars => GateOwned'
<1> SUFFICES ASSUME Shape, GateOwned, [Next]_vars PROVE GateOwned'
  OBVIOUS
<1>s. /\ task \in [Tasks -> Task] /\ gate \in BOOLEAN
      /\ \A t \in Tasks : task[t].stage = "none" => task[t] = Free
  BY DEF Shape, AgentTypes, TaskShape, GoodTask
<1>k. ASSUME gate' = gate,
             \A t \in Tasks : \/ task'[t] = task[t]
                              \/ /\ task'[t].released = task[t].released
                                 /\ task[t].stage # "none" /\ task'[t].stage # "none"
      PROVE  GateOwned'
  <2>1. \A t \in Tasks : Owner(t)' <=> Owner(t)
    BY <1>k DEF Owner
  <2> QED
    BY <1>k, <2>1 DEF GateOwned
<1>g. ASSUME NEW t \in Tasks, task[t].stage # "none", gate' = GateFreed(t), ~Owner(t)',
             \A u \in Tasks \ {t} : task'[u] = task[u]
      PROVE  GateOwned'
  <2>1. \A u \in Tasks \ {t} : Owner(u)' <=> Owner(u)
    BY <1>g DEF Owner
  <2>2. CASE task[t].released
    <3>1. gate' = gate /\ ~Owner(t)
      BY <1>g, <1>s, <2>2 DEF GateFreed, Owner
    <3> QED
      BY <1>g, <2>1, <3>1 DEF GateOwned
  <2>3. CASE ~task[t].released
    <3>1. gate' = FALSE /\ Owner(t)
      BY <1>g, <1>s, <2>3 DEF GateFreed, Owner
    <3> QED
      BY <1>g, <2>1, <3>1 DEF GateOwned
  <2> QED
    BY <2>2, <2>3
<1>r. ASSUME NEW t \in Tasks, task[t].stage \in Calling \/ task[t].stage = "applying", HandlerReturns(t)
      PROVE  GateOwned'
  <2>1. task'[t] = Free /\ \A u \in Tasks \ {t} : task'[u] = task[u]
    BY <1>r, <1>s DEF HandlerReturns
  <2> QED
    BY <1>r, <1>g, <2>1 DEF HandlerReturns, Owner, Free, Calling
<1>b. ASSUME NEW t \in Tasks, task[t].stage # "none", BeginApply(t) PROVE GateOwned'
  <2>1. \A u \in Tasks : task'[u] = task[u] \/ (u = t /\ task'[u].stage = "applying"
                                                /\ task'[u].released = task[u].released)
    BY <1>b, <1>s DEF BeginApply, Goto, Task
  <2> QED
    BY <1>b, <1>k, <2>1 DEF BeginApply
<1>1. CASE UNCHANGED vars
  BY <1>1, <1>k DEF vars, agent
<1>2. ASSUME NEW t \in Tasks, AgentStep(t) \/ Watchdog(t) \/ Abandon(t) \/ CallLost(t) \/ CallFails(t)
      PROVE  GateOwned'
  <2>1. CASE Submit(t)
    <3>1. gate' = TRUE /\ ~gate /\ task[t] = Free /\ task'[t].stage = "queued" /\ task'[t].released = FALSE
          /\ \A u \in Tasks \ {t} : task'[u] = task[u]
      BY <2>1, <1>s DEF Submit, Task, Free
    <3>2. \A u \in Tasks : ~Owner(u)
      BY <3>1 DEF GateOwned
    <3> QED
      BY <3>1, <3>2 DEF GateOwned, Owner
  <2>2. CASE Start(t)
    <3>1. task[t].stage = "queued"
      <4>1. queue[1] = t /\ 1 \in 1..Len(queue)
        BY <2>2 DEF Start, Shape, AgentTypes
      <4> QED
        BY <4>1 DEF Shape, QueueShape
    <3> QED
      BY <2>2, <3>1, <1>s, <1>k DEF Start, Goto, Task
  <2>3. CASE Watchdog(t)
    <3>1. task[t].stage # "none" /\ gate' = FALSE /\ ~task[t].released
      BY <2>3 DEF Watchdog
    <3>2. task'[t].released = TRUE /\ \A u \in Tasks \ {t} : task'[u] = task[u]
      BY <2>3, <1>s DEF Watchdog, Task
    <3> QED
      BY <3>1, <3>2, <1>g DEF GateFreed, Owner
  <2>4. CASE Abandon(t)
    <3>1. task[t].stage # "none"
      BY <2>4 DEF Abandon, Shape, QueueShape, Begun, Concerned
    <3> QED
      BY <2>4, <3>1, <1>s, <1>k DEF Abandon, Task
  <2>5. CASE Applied(t)
    BY <2>5, <1>s, <1>k DEF Applied, Task
  <2>6. CASE CallLost(t) \/ \E h \in Handlers : GetBatch(t, h) \/ Report(t, h)
    BY <2>6, <1>k DEF CallLost, GetBatch, Report, agent
  <2>7. CASE CallCancelled(t) \/ CallFails(t)
    BY <2>7, <1>r, <1>b DEF CallCancelled, CallFails, CallGivenUp, Calling
  <2>8. CASE \E h \in Handlers : NotModified(t, h) \/ Reported(t, h)
    BY <2>8, <1>r DEF NotModified, Reported, Calling
  <2>9. CASE \E h \in Handlers : Announced(t, h)
    BY <2>9, <1>b DEF Announced
  <2>10. ASSUME NEW h \in Handlers, BatchReceived(t, h) PROVE GateOwned'
    <3> DEFINE received == [task[t] EXCEPT !.run = reqs[h].run, !.payload = reqs[h].payload]
               one == [received EXCEPT !.stage = "announcing"]
               two == [received EXCEPT !.stage = "reporting", !.status = "failed"]
    <3>1. /\ one.stage = "announcing" /\ two.stage = "reporting"
          /\ one.released = task[t].released /\ two.released = task[t].released
      BY <1>s DEF Task
    <3>2. (task' = [task EXCEPT ![t] = one] \/ task' = [task EXCEPT ![t] = two])
          /\ gate' = gate /\ task[t].stage = "fetching"
      BY <2>10 DEF BatchReceived
    <3> QED
      BY <3>1, <3>2, <1>s, <1>k
  <2> QED
    BY <1>2, <2>1, <2>2, <2>3, <2>4, <2>5, <2>6, <2>7, <2>8, <2>9, <2>10 DEF AgentStep
<1>3. CASE \/ \E x \in Txns : TxnStep(x) \/ TxnFails(x) \/ ReloadCancelled(x)
           \/ \E h \in Handlers : PanelStep(h) \/ PanelUpset(h)
           \/ InjectUsers \/ PanelChange
  BY <1>3, <1>k DEF TxnStep, TxnFails, ReloadCancelled, PanelStep, PanelUpset, PanelChange,
                    InjectUsers, InjectRead, InjectApply, InjectEnds, agent
<1>4. CASE Crash
  BY <1>4 DEF Crash, Free, GateOwned, Owner
<1> QED
  BY <1>1, <1>2, <1>3, <1>4 DEF Next, Txns

(* The gate is taken exactly as long as one task owns it.                  *)
THEOREM GateTheorem == Spec => []GateExact
<1>1. Init => GateOwned
  BY DEF Init, GateOwned, Owner, Free
<1>2. GateOwned => GateExact
  <2> SUFFICES ASSUME GateOwned PROVE GateExact
    OBVIOUS
  <2> DEFINE owners == {t \in Tasks : task[t].stage # "none" /\ ~task[t].released}
  <2>1. CASE gate
    <3>1. \E t \in Tasks : owners = {t}
      BY <2>1 DEF GateOwned, Owner
    <3> QED
      BY <2>1, <3>1, FS_Singleton DEF GateExact
  <2>2. CASE ~gate
    <3>1. owners = {}
      BY <2>2 DEF GateOwned, Owner
    <3> QED
      BY <2>2, <3>1, FS_EmptySet DEF GateExact
  <2> QED
    BY <2>1, <2>2
<1> QED
  BY <1>1, <1>2, GateStep, Shaped, PTL DEF Spec
-----------------------------------------------------------------------------
(* The end of a run is overwritten only by a rollback of a failure, or by  *)
(* a request that had read the run before it ended.                        *)
THEOREM EndKeptTheorem == Spec => EndKept
<1> DEFINE Kept(r) ==
      runs[r].status \in P!Terminal /\ runs'[r].status # runs[r].status =>
        \/ runs[r].status = "failed" /\ runs'[r].status = "rolled_back"
        \/ \E h \in Handlers : reqs[h].pc = "update" /\ reqs[h].run = r /\ reqs[h].seen # runs[r].status
<1>1. ASSUME PanelInv, [PanelNext]_(P!vars), NEW r \in P!RunIds PROVE Kept(r)
  <2>t. runs \in Seq(Run) /\ r \in 1..Len(runs)
    BY <1>1 DEF PanelInv, P!TypeOK, Run, P!RunIds
  <2>1. CASE UNCHANGED runs
    BY <2>1
  <2>2. ASSUME NEW h \in Handlers, P!CreateApplyRun(h) PROVE runs'[r] = runs[r]
    BY <2>2, <2>t DEF P!CreateApplyRun
  <2>3. ASSUME NEW h \in Handlers, P!UpdateStatus(h) PROVE Kept(r)
    <3> DEFINE q == reqs[h]
    <3>1. runs' = [runs EXCEPT ![q.run].status = q.status] /\ q.pc = "update"
      BY <2>3 DEF P!UpdateStatus
    <3>2. P!TransitionAllowed(q.seen, q.status)
      BY <1>1, <3>1 DEF PanelInv, ReqShape, GoodReq
    <3>3. runs'[r].status = IF r = q.run THEN q.status ELSE runs[r].status
      BY <3>1, <2>t DEF Run
    <3> QED
      BY <3>1, <3>2, <3>3 DEF P!TransitionAllowed, P!Terminal
  <2>4. ASSUME NEW k \in P!RunIds, P!ExpireStale(k) PROVE runs[r].status \in P!Terminal => runs'[r] = runs[r]
    BY <2>4, <2>t DEF P!ExpireStale, P!RunIds, P!Terminal, P!Open
  <2> QED
    BY <1>1, <2>1, <2>2, <2>3, <2>4
       DEF PanelNext, P!GetApplyBatch, P!Prepare, P!ReportFind, P!WriteFails, P!OperatorPrepare,
           P!CancelFind, P!Publish, P!EditPolicy, P!vars
<1>2. Shape /\ [Next]_vars => [\A r \in P!RunIds : Kept(r)]_vars
  BY <1>1, PanelSteps DEF Shape
<1> QED
  BY <1>2, Shaped, PTL DEF Spec, EndKept
-----------------------------------------------------------------------------
(* A request that holds a batch to be sent.                                *)
Carries(q) == q.pc = "create" \/ q.reply = "batch"

(* A request about to insert a run was so before, or has just found none   *)
(* open.                                                                   *)
Unopened(q, k) ==
  q.pc = "create" =>
    \/ reqs[k].pc = "create" /\ q.since = reqs[k].since /\ q.payload = reqs[k].payload
    \/ P!OpenRuns(q.payload.revision) = {} /\ q.since = Len(runs) /\ runs' = runs

(* A request about to update was so before, is a cancel's, or is a task's  *)
(* report.                                                                 *)
Writes(q, k) ==
  q.pc = "update" =>
    \/ reqs[k].pc = "update" /\ q.run = reqs[k].run /\ q.status = reqs[k].status
    \/ q.status = "failed" \/ q.caller \in Tasks

(* A success that is accepted was so before, or is in the table.           *)
Accepts(q, k) ==
  q.reply = "accepted" /\ q.status = "success" =>
    \/ reqs[k].reply = "accepted" /\ reqs[k].status = "success" /\ q.run = reqs[k].run
    \/ q.run \in P!RunIds /\ runs'[q.run].status = "success"

(* A task's batch was there before, or is of the latest revision.          *)
Bears(q, k) ==
  Carries(q) /\ q.caller \in Tasks =>
    \/ Carries(reqs[k]) /\ q.caller = reqs[k].caller /\ q.payload = reqs[k].payload
    \/ q.payload.revision = latest

(* What a request of handler k may be after a step.                        *)
Follows(q, k) == Unopened(q, k) /\ Writes(q, k) /\ Accepts(q, k) /\ Bears(q, k)

(* A handler may become idle.                                              *)
LEMMA IdleFollows == \A k \in Handlers : Follows(P!Idle, k)
BY DEF Follows, Unopened, Writes, Accepts, Bears, Carries, P!Idle

(* A request may stay.                                                     *)
LEMMA SameFollows == \A k \in Handlers : Follows(reqs[k], k)
<1> SUFFICES ASSUME NEW k \in Handlers PROVE Follows(reqs[k], k)
  OBVIOUS
<1>1. Unopened(reqs[k], k) /\ Writes(reqs[k], k)
  BY DEF Unopened, Writes
<1>2. Bears(reqs[k], k)
  BY DEF Bears
<1>3. Accepts(reqs[k], k)
  BY DEF Accepts
<1> QED
  BY <1>1, <1>2, <1>3 DEF Follows

(* One handler going on as it may suffices.                                *)
LEMMA GoFollows ==
  ASSUME PanelInv, NEW h \in Handlers, NEW q, P!Go(h, q), Follows(q, h)
  PROVE  \A k \in Handlers : Follows(reqs'[k], k)
<1>1. P!Settled(q) = q \/ P!Settled(q) = P!Idle
  BY DEF P!Settled
<1>2. reqs \in [Handlers -> P!Request] /\ reqs' = [reqs EXCEPT ![h] = P!Settled(q)]
  BY DEF P!Go, PanelInv, P!TypeOK
<1>3. Follows(reqs'[h], h)
  BY <1>1, <1>2, IdleFollows
<1>4. \A k \in Handlers \ {h} : Follows(reqs'[k], k)
  BY <1>2, SameFollows
<1> QED
  BY <1>3, <1>4

(* PrepareApplyRun goes on as it may.                                      *)
LEMMA PrepareFollows ==
  ASSUME PanelInv, NEW h \in Handlers, NEW q \in P!Request, P!Prepare(h, q),
         q.pc = "idle", q.reply = "none",
         q.caller \in Tasks => q.payload.revision = latest
  PROVE  \A k \in Handlers : Follows(reqs'[k], k)
<1> DEFINE open == P!OpenRuns(q.payload.revision)
           made == [q EXCEPT !.pc = "create", !.since = Len(runs)]
           found == [q EXCEPT !.pc = "reply", !.run = P!Newest(open), !.reply = "batch"]
<1>1. ((open = {} /\ P!Go(h, made)) \/ P!Go(h, found)) /\ runs' = runs
  BY DEF P!Prepare
<1>2. ASSUME open = {} PROVE Follows(made, h)
  <2>1. /\ made.pc = "create" /\ made.since = Len(runs) /\ made.payload = q.payload
        /\ made.caller = q.caller /\ made.reply = "none"
    BY DEF P!Request
  <2> HIDE DEF made
  <2> QED
    BY <1>1, <1>2, <2>1 DEF Follows, Unopened, Writes, Accepts, Bears
<1>3. Follows(found, h)
  <2>1. /\ found.pc = "reply" /\ found.payload = q.payload
        /\ found.caller = q.caller /\ found.reply = "batch"
    BY DEF P!Request
  <2> HIDE DEF found
  <2> QED
    BY <2>1 DEF Follows, Unopened, Writes, Accepts, Bears
<1> HIDE DEF made, found
<1> QED
  BY <1>1, <1>2, <1>3, GoFollows

(* GetApplyBatch goes on as it may, with the latest revision.              *)
LEMMA BatchFollows ==
  ASSUME PanelInv, NEW h \in Handlers, NEW t \in Tasks, NEW cur \in 0..MaxRevisions,
         P!GetApplyBatch(h, t, cur)
  PROVE  \A k \in Handlers : Follows(reqs'[k], k)
<1> DEFINE q == [P!Idle EXCEPT !.op = "batch", !.caller = t]
           payload == [revision |-> latest, version |-> artifacts[latest]]
           new == [q EXCEPT !.payload = payload]
           none == [q EXCEPT !.pc = "reply", !.reply = "not_modified"]
<1>1. \/ latest > cur /\ P!Prepare(h, new)
      \/ P!Go(h, none)
  BY DEF P!GetApplyBatch
<1>2. CASE latest > cur /\ P!Prepare(h, new)
  <2>1. latest \in P!Revisions /\ artifacts \in [P!Revisions -> 0..MaxEdits]
    BY <1>2, ConfigAssumption DEF P!Revisions, PanelInv, P!TypeOK
  <2>2. payload \in P!Payload /\ payload.revision = latest
    BY <2>1 DEF P!Payload
  <2> HIDE DEF payload
  <2>3. new \in P!Request /\ new.payload = payload /\ new.reply = "none" /\ new.pc = "idle"
    BY <2>2, IdleGood DEF P!Request, P!Idle
  <2> HIDE DEF new
  <2> QED
    BY <1>2, <2>2, <2>3, PrepareFollows
<1>3. CASE P!Go(h, none)
  <2>1. none.pc = "reply" /\ none.reply = "not_modified"
    BY DEF P!Idle
  <2> HIDE DEF none
  <2>2. Follows(none, h)
    BY <2>1 DEF Follows, Unopened, Writes, Accepts, Bears, Carries
  <2> QED
    BY <1>3, <2>2, GoFollows
<1> QED
  BY <1>1, <1>2, <1>3

(* ReportApplyResult accepts a success without writing it only if the      *)
(* table has it.                                                           *)
LEMMA FindFollows ==
  ASSUME PanelInv, NEW h \in Handlers, NEW t \in Tasks, NEW r \in P!RunIds, NEW to \in P!Statuses,
         P!ReportFind(h, t, r, to)
  PROVE  \A k \in Handlers : Follows(reqs'[k], k)
<1> DEFINE from == runs[r].status
           q == [P!Idle EXCEPT !.op = "report", !.caller = t, !.run = r, !.status = to, !.seen = from]
           done == [q EXCEPT !.pc = "reply", !.reply = P!ReplyUnwritten(from, to)]
           going == [q EXCEPT !.pc = "update"]
<1>1. (P!Go(h, done) \/ P!Go(h, going)) /\ runs' = runs
  BY DEF P!ReportFind
<1>2. Follows(done, h)
  <2>1. /\ done.pc = "reply" /\ done.reply = P!ReplyUnwritten(from, to)
        /\ done.status = to /\ done.run = r
    BY DEF P!Idle
  <2>2. P!ReplyUnwritten(from, to) = "accepted" /\ to = "success" => from = "success"
    BY DEF P!ReplyUnwritten, P!IgnoreLate, P!Open
  <2>3. P!ReplyUnwritten(from, to) # "batch"
    BY DEF P!ReplyUnwritten
  <2>4. runs'[r].status = from
    BY <1>1
  <2> HIDE DEF done, from
  <2> QED
    BY <2>1, <2>2, <2>3, <2>4 DEF Follows, Unopened, Writes, Accepts, Bears, Carries
<1>3. Follows(going, h)
  <2>1. going.pc = "update" /\ going.reply = "none" /\ going.caller = t
    BY DEF P!Idle
  <2> HIDE DEF going
  <2> QED
    BY <2>1 DEF Follows, Unopened, Writes, Accepts, Bears, Carries
<1> HIDE DEF done, going
<1> QED
  BY <1>1, <1>2, <1>3, GoFollows

(* Every step of the panel leaves each handler a request it may have.      *)
LEMMA ReqsFollow ==
  ASSUME PanelInv, [PanelNext]_(P!vars)
  PROVE  \A k \in Handlers : Follows(reqs'[k], k)
<1>t. reqs \in [Handlers -> P!Request] /\ \A h \in Handlers : GoodReq(reqs[h], runs, latest)
  BY DEF PanelInv, P!TypeOK, ReqShape
<1>u. ASSUME UNCHANGED reqs PROVE \A k \in Handlers : Follows(reqs'[k], k)
  BY <1>u, SameFollows
<1>1. CASE UNCHANGED P!vars
  BY <1>1, <1>u DEF P!vars
<1>2. ASSUME NEW h \in Handlers, P!Taken(h) \/ P!WriteFails(h)
      PROVE  \A k \in Handlers : Follows(reqs'[k], k)
  BY <1>2, <1>t, IdleFollows, SameFollows DEF P!Taken, P!WriteFails
<1>3. ASSUME NEW h \in Handlers, P!CreateApplyRun(h)
      PROVE  \A k \in Handlers : Follows(reqs'[k], k)
  <2> DEFINE q == [reqs[h] EXCEPT !.pc = "reply", !.run = Len(runs) + 1, !.since = 0, !.reply = "batch"]
  <2>1. P!Go(h, q) /\ reqs[h].pc = "create"
    BY <1>3 DEF P!CreateApplyRun
  <2>2. q.pc = "reply" /\ q.reply = "batch" /\ q.caller = reqs[h].caller /\ q.payload = reqs[h].payload
    BY <1>t DEF P!Request
  <2> HIDE DEF q
  <2>3. Follows(q, h)
    BY <2>1, <2>2 DEF Follows, Unopened, Writes, Accepts, Bears, Carries
  <2> QED
    BY <2>1, <2>3, GoFollows
<1>4. ASSUME NEW h \in Handlers, P!UpdateStatus(h)
      PROVE  \A k \in Handlers : Follows(reqs'[k], k)
  <2> DEFINE q == [reqs[h] EXCEPT !.pc = "reply", !.reply = "accepted"]
  <2>1. P!Go(h, q) /\ reqs[h].pc = "update" /\ runs' = [runs EXCEPT ![reqs[h].run].status = reqs[h].status]
    BY <1>4 DEF P!UpdateStatus
  <2>2. q.pc = "reply" /\ q.reply = "accepted" /\ q.status = reqs[h].status /\ q.run = reqs[h].run
    BY <1>t DEF P!Request
  <2>3. reqs[h].run \in P!RunIds
    BY <1>t, <2>1 DEF GoodReq, P!RunIds
  <2>4. runs'[reqs[h].run].status = reqs[h].status
    BY <2>1, <2>3 DEF PanelInv, P!TypeOK, P!RunIds
  <2> HIDE DEF q
  <2>5. Follows(q, h)
    BY <2>2, <2>3, <2>4 DEF Follows, Unopened, Writes, Accepts, Bears, Carries
  <2> QED
    BY <2>1, <2>5, GoFollows
<1>5. ASSUME NEW h \in Handlers, NEW r \in 1..latest, P!OperatorPrepare(h, r)
      PROVE  \A k \in Handlers : Follows(reqs'[k], k)
  <2> DEFINE payload == [revision |-> r, version |-> artifacts[r]]
             p == [P!Idle EXCEPT !.op = "prepare", !.payload = payload]
  <2>1. P!Prepare(h, p)
    BY <1>5 DEF P!OperatorPrepare
  <2>2. r \in P!Revisions /\ artifacts \in [P!Revisions -> 0..MaxEdits]
    BY ConfigAssumption DEF P!Revisions, PanelInv, P!TypeOK
  <2>3. payload \in P!Payload
    BY <2>2 DEF P!Payload
  <2>4. p \in P!Request /\ p.caller = NoTask /\ p.pc = "idle" /\ p.reply = "none"
    <3> HIDE DEF payload
    <3> QED
      BY <2>3, IdleGood DEF P!Request, P!Idle
  <2> HIDE DEF p
  <2> QED
    BY <2>1, <2>4, PrepareFollows, ConfigAssumption
<1>6. ASSUME NEW h \in Handlers, NEW r \in P!RunIds, P!CancelFind(h, r)
      PROVE  \A k \in Handlers : Follows(reqs'[k], k)
  <2> DEFINE n == [P!Idle EXCEPT !.op = "cancel", !.pc = "update", !.run = r,
                                 !.status = "failed", !.seen = runs[r].status]
  <2>1. P!Go(h, n)
    BY <1>6 DEF P!CancelFind
  <2>2. n.pc = "update" /\ n.status = "failed" /\ n.reply = "none"
    BY DEF P!Idle
  <2> HIDE DEF n
  <2>3. Follows(n, h)
    BY <2>2 DEF Follows, Unopened, Writes, Accepts, Bears, Carries
  <2> QED
    BY <2>1, <2>3, GoFollows
<1>7. ASSUME NEW C \in SUBSET Tasks, P!Orphaned(C), runs' = runs
      PROVE  \A k \in Handlers : Follows(reqs'[k], k)
  <2> SUFFICES ASSUME NEW k \in Handlers PROVE Follows(reqs'[k], k)
    OBVIOUS
  <2> DEFINE q == [reqs[k] EXCEPT !.caller = NoTask]
  <2>1. reqs'[k] = reqs[k] \/ reqs'[k] = q \/ reqs'[k] = P!Idle
    BY <1>7 DEF P!Orphaned, P!Settled
  <2>2. /\ q.pc = reqs[k].pc /\ q.run = reqs[k].run /\ q.status = reqs[k].status /\ q.since = reqs[k].since
        /\ q.payload = reqs[k].payload /\ q.reply = reqs[k].reply /\ q.caller = NoTask
    BY <1>t DEF P!Request
  <2> HIDE DEF q
  <2>3. Follows(q, k)
    BY <2>2, ConfigAssumption DEF Follows, Unopened, Writes, Accepts, Bears
  <2> QED
    BY <2>1, <2>3, IdleFollows, SameFollows
<1>8. CASE (\E k \in P!RunIds : P!ExpireStale(k)) \/ P!Publish \/ P!EditPolicy
  BY <1>8, <1>u DEF P!ExpireStale, P!Publish, P!EditPolicy
<1> QED
  BY <1>1, <1>2, <1>3, <1>4, <1>5, <1>6, <1>7, <1>8, BatchFollows, FindFollows DEF PanelNext
-----------------------------------------------------------------------------
(* A run becomes a success only by a request that was to write it.         *)
LEMMA RunsFollow ==
  ASSUME PanelInv, [PanelNext]_(P!vars), NEW r \in P!RunIds'
  PROVE  /\ runs'[r].status = "success" =>
              \/ r \in P!RunIds /\ runs[r].status = "success"
              \/ \E h \in Handlers : reqs[h].pc = "update" /\ reqs[h].run = r /\ reqs[h].status = "success"
         /\ P!RunIds \subseteq P!RunIds'
<1> DEFINE Good == /\ runs'[r].status = "success" =>
                        \/ r \in P!RunIds /\ runs[r].status = "success"
                        \/ \E h \in Handlers : reqs[h].pc = "update" /\ reqs[h].run = r /\ reqs[h].status = "success"
                   /\ P!RunIds \subseteq P!RunIds'
<1>t. runs \in Seq(Run) /\ r \in 1..Len(runs')
  BY DEF PanelInv, P!TypeOK, Run, P!RunIds
<1>1. CASE UNCHANGED runs
  BY <1>1 DEF P!RunIds
<1>2. ASSUME NEW h \in Handlers, P!CreateApplyRun(h) PROVE Good
  <2> DEFINE row == [revision |-> reqs[h].payload.revision, status |-> "pending"]
  <2>1. runs' = Append(runs, row) /\ row.status = "pending" /\ reqs[h].pc = "create"
    BY <1>2 DEF P!CreateApplyRun
  <2> HIDE DEF row
  <2>2. /\ Len(runs') = Len(runs) + 1 /\ runs'[Len(runs) + 1] = row
        /\ \A s \in 1..Len(runs) : runs'[s] = runs[s]
    BY <1>t, <2>1
  <2> QED
    BY <1>t, <2>1, <2>2 DEF P!RunIds
<1>3. ASSUME NEW h \in Handlers, P!UpdateStatus(h) PROVE Good
  <2> DEFINE q == reqs[h]
  <2>1. runs' = [runs EXCEPT ![q.run].status = q.status] /\ q.pc = "update"
    BY <1>3 DEF P!UpdateStatus
  <2>2. Len(runs') = Len(runs)
    BY <1>t, <2>1
  <2>3. runs'[r].status = IF r = q.run THEN q.status ELSE runs[r].status
    BY <1>t, <2>1, <2>2 DEF Run
  <2> QED
    BY <1>t, <2>1, <2>2, <2>3 DEF P!RunIds
<1>4. ASSUME NEW k \in P!RunIds, P!ExpireStale(k) PROVE Good
  <2>1. runs' = [s \in 1..Len(runs) |-> IF s <= k /\ runs[s].status \in P!Open
                                   THEN [runs[s] EXCEPT !.status = "failed"] ELSE runs[s]]
    BY <1>4 DEF P!ExpireStale, P!RunIds
  <2>2. Len(runs') = Len(runs)
    BY <1>t, <2>1
  <2>3. [runs[r] EXCEPT !.status = "failed"].status = "failed"
    BY <1>t, <2>2 DEF Run
  <2> QED
    BY <1>t, <2>1, <2>2, <2>3 DEF P!RunIds
<1> QED
  BY <1>1, <1>2, <1>3, <1>4
     DEF PanelNext, P!GetApplyBatch, P!Prepare, P!ReportFind, P!WriteFails, P!OperatorPrepare,
         P!CancelFind, P!Publish, P!EditPolicy, P!vars

(* What the reports and the runs say of a success is true.                 *)
Earned ==
  /\ applied \subseteq P!RunIds
  /\ SuccessEarned
  /\ \A h \in Handlers : reqs[h].pc = "update" /\ reqs[h].status = "success" => reqs[h].run \in applied
  /\ \A t \in Tasks : task[t].stage = "reporting" /\ task[t].status = "success" => task[t].run \in applied

(* The history of applied runs grows by runs of the table.                 *)
LEMMA AppliedGrows ==
  ASSUME Shape, [Next]_vars
  PROVE  /\ applied \subseteq applied'
         /\ \A r \in applied' \ applied : r \in P!RunIds
<1>1. ASSUME NEW t \in Tasks, Applied(t)
      PROVE  task[t].run \in P!RunIds /\ applied' \subseteq applied \cup {task[t].run}
             /\ applied \subseteq applied'
  BY <1>1 DEF Applied, Shape, TaskShape, GoodTask, Concerned, P!RunIds
<1>2. \/ UNCHANGED applied
      \/ \E t \in Tasks : Applied(t)
  BY DEF Next, AgentStep, Submit, Start, CallCancelled, CallGivenUp, GetBatch, NotModified, BatchReceived,
         Report, Announced, Reported, Watchdog, Abandon, CallLost, CallFails, TxnStep, TxnFails,
         ReloadCancelled, PanelStep, PanelUpset, InjectUsers, InjectRead, InjectApply, InjectEnds,
         PanelChange, Crash, vars, others
<1> QED
  BY <1>1, <1>2

(* A task reports a success only after its transaction has succeeded.      *)
LEMMA TaskReports ==
  ASSUME Shape, [Next]_vars, NEW t \in Tasks,
         task'[t].stage = "reporting", task'[t].status = "success"
  PROVE  \/ task[t].stage = "reporting" /\ task[t].status = "success" /\ task'[t].run = task[t].run
            /\ task'[t].payload = task[t].payload
         \/ /\ task[t].stage = "applying" /\ phase[t] = "idle" /\ outcome[t] = "ok"
            /\ task'[t].run = task[t].run /\ task'[t].run \in applied'
            /\ task'[t].payload = task[t].payload
<1> DEFINE Goal == \/ task[t].stage = "reporting" /\ task[t].status = "success" /\ task'[t].run = task[t].run
                      /\ task'[t].payload = task[t].payload
                   \/ /\ task[t].stage = "applying" /\ phase[t] = "idle" /\ outcome[t] = "ok"
                      /\ task'[t].run = task[t].run /\ task'[t].run \in applied'
                      /\ task'[t].payload = task[t].payload
<1>t. task \in [Tasks -> Task]
  BY DEF Shape, AgentTypes
<1>k. ASSUME UNCHANGED task PROVE Goal
  BY <1>k
<1>1. ASSUME NEW u \in Tasks, AgentStep(u) \/ Watchdog(u) \/ Abandon(u) \/ CallLost(u) \/ CallFails(u)
      PROVE  Goal
  <2>f. ASSUME HandlerReturns(u) PROVE Goal
    BY <2>f, <1>t DEF HandlerReturns, Free
  <2>b. ASSUME BeginApply(u) PROVE Goal
    BY <2>b, <1>t DEF BeginApply, Goto, Task
  <2>1. CASE Submit(u) \/ Start(u) \/ Watchdog(u) \/ Abandon(u)
    BY <2>1, <1>t DEF Submit, Start, Goto, Watchdog, Abandon, Task
  <2>2. CASE CallLost(u) \/ \E h \in Handlers : GetBatch(u, h) \/ Report(u, h)
    BY <2>2, <1>k DEF CallLost, GetBatch, Report, agent
  <2>3. CASE CallCancelled(u) \/ CallFails(u) \/ \E h \in Handlers : NotModified(u, h) \/ Reported(u, h)
             \/ Announced(u, h)
    BY <2>3, <2>f, <2>b DEF CallCancelled, CallFails, CallGivenUp, NotModified, Reported, Announced
  <2>4. CASE Applied(u)
    <3>1. u # t => Goal
      BY <2>4, <1>t DEF Applied, Task
    <3>2. ASSUME u = t PROVE Goal
      <4>1. /\ task[t].stage = "applying" /\ phase[t] = "idle" /\ task'[t].status = ResultOf(t)
            /\ task'[t].run = task[t].run /\ task'[t].payload = task[t].payload
            /\ outcome[t] = "ok" => task[t].run \in applied'
        BY <2>4, <3>2, <1>t DEF Applied, Task
      <4>2. outcome[t] = "ok"
        BY <4>1 DEF ResultOf, Shape, DirInv, D!TypeOK, D!Outcomes
      <4> QED
        BY <4>1, <4>2
    <3> QED
      BY <3>1, <3>2
  <2>5. ASSUME NEW h \in Handlers, BatchReceived(u, h) PROVE Goal
    <3> DEFINE received == [task[u] EXCEPT !.run = reqs[h].run, !.payload = reqs[h].payload]
               one == [received EXCEPT !.stage = "announcing"]
               two == [received EXCEPT !.stage = "reporting", !.status = "failed"]
    <3>1. one.stage = "announcing" /\ two.status = "failed"
      BY <1>t DEF Task
    <3>2. task' = [task EXCEPT ![u] = one] \/ task' = [task EXCEPT ![u] = two]
      BY <2>5 DEF BatchReceived
    <3> QED
      BY <3>1, <3>2, <1>t
  <2> QED
    BY <1>1, <2>1, <2>2, <2>3, <2>4, <2>5 DEF AgentStep
<1>2. CASE \/ UNCHANGED vars
           \/ \E x \in Txns : TxnStep(x) \/ TxnFails(x) \/ ReloadCancelled(x)
           \/ \E h \in Handlers : PanelStep(h) \/ PanelUpset(h)
           \/ InjectUsers \/ PanelChange
  BY <1>2, <1>k DEF TxnStep, TxnFails, ReloadCancelled, PanelStep, PanelUpset, PanelChange,
                    InjectUsers, InjectRead, InjectApply, InjectEnds, agent, vars
<1>3. CASE Crash
  BY <1>3 DEF Crash, Free
<1> QED
  BY <1>1, <1>2, <1>3 DEF Next, Txns

(* Every step keeps reports of success, on their way and in the table,     *)
(* earned.                                                                 *)
LEMMA EarnedStep == Shape /\ Earned /\ [Next]_vars => Earned'
<1> SUFFICES ASSUME Shape, Earned, [Next]_vars PROVE Earned'
  OBVIOUS
<1>n. PanelInv /\ [PanelNext]_(P!vars) /\ Shape'
  BY PanelSteps, ShapeStep DEF Shape
<1>g. applied \subseteq applied' /\ \A r \in applied' \ applied : r \in P!RunIds
  BY AppliedGrows
<1>1. applied' \subseteq P!RunIds'
  <2>1. P!RunIds \subseteq P!RunIds'
    <3>1. TableGrows /\ Len(runs) \in Nat /\ Len(runs') \in Nat
      BY <1>n, PanelKept DEF Shape, PanelInv, P!TypeOK
    <3> QED
      BY <3>1 DEF TableGrows, P!RunIds
  <2> QED
    BY <1>g, <2>1 DEF Earned
<1>2. SuccessEarned'
  BY <1>n, <1>g, RunsFollow DEF SuccessEarned, Earned
<1>4. ASSUME NEW t \in Tasks, task'[t].stage = "reporting", task'[t].status = "success"
      PROVE  task'[t].run \in applied'
  BY <1>4, <1>g, TaskReports DEF Earned
<1>3. ASSUME NEW h \in Handlers, reqs'[h].pc = "update", reqs'[h].status = "success"
      PROVE  reqs'[h].run \in applied'
  <2>1. Writes(reqs'[h], h)
    BY <1>n, ReqsFollow DEF Follows
  <2>2. CASE reqs[h].pc = "update" /\ reqs'[h].run = reqs[h].run /\ reqs'[h].status = reqs[h].status
    BY <2>2, <1>3, <1>g DEF Earned
  <2>3. CASE reqs'[h].caller \in Tasks
    <3> DEFINE t == reqs'[h].caller
    <3>1. CallFits(reqs'[h], task'[t]) /\ reqs'[h].op \in {"report", "cancel"}
      BY <1>n, <1>3, <2>3 DEF Shape, CallsFit, PanelInv, ReqShape, GoodReq
    <3>2. task'[t].stage = "reporting" /\ task'[t].status = "success" /\ task'[t].run = reqs'[h].run
      BY <1>3, <3>1 DEF CallFits, Calling
    <3> QED
      BY <2>3, <3>2, <1>4
  <2> QED
    BY <1>3, <2>1, <2>2, <2>3 DEF Writes
<1> QED
  BY <1>1, <1>2, <1>3, <1>4 DEF Earned

(* A run is a success only if its transaction has gone through.            *)
THEOREM SuccessTheorem == Spec => []SuccessEarned
<1>1. Init => Earned
  BY DEF Init, P!Init, P!Idle, Free, Earned, SuccessEarned, P!RunIds
<1>2. Earned => SuccessEarned
  BY DEF Earned
<1> QED
  BY <1>1, <1>2, EarnedStep, Shaped, PTL DEF Spec
-----------------------------------------------------------------------------
(* What has been accepted as a success, or is one in the table, is in the  *)
(* history.                                                                *)
Confirmed ==
  /\ confirmed \subseteq P!Revisions
  /\ RevisionConfirmed
  /\ \A r \in P!RunIds : runs[r].status = "success" => runs[r].revision \in confirmed
  /\ \A h \in Handlers : reqs[h].reply = "accepted" /\ reqs[h].status = "success" =>
       runs[reqs[h].run].revision \in confirmed

(* A step that writes the history of the runs is one of the panel's own.   *)
LEMMA Histories ==
  ASSUME Shape, [Next]_vars
  PROVE  \/ \E h \in Handlers : PanelStep(h)
         \/ /\ UNCHANGED <<confirmed, reopened>>
            /\ UNCHANGED runs \/ \E k \in P!RunIds : P!ExpireStale(k)
<1> DEFINE Still == /\ UNCHANGED <<confirmed, reopened>>
                    /\ UNCHANGED runs \/ \E k \in P!RunIds : P!ExpireStale(k)
<1>1. ASSUME NEW t \in Tasks, AgentStep(t) \/ Watchdog(t) \/ Abandon(t) \/ CallLost(t) \/ CallFails(t)
      PROVE  Still
  <2>1. ASSUME NEW h \in Handlers, GetBatch(t, h) \/ Report(t, h) PROVE Still
    BY <2>1 DEF GetBatch, Report, P!GetApplyBatch, P!Prepare, P!ReportFind, others
  <2>2. CASE Submit(t) \/ Start(t) \/ Watchdog(t) \/ Abandon(t) \/ Applied(t) \/ CallLost(t)
    BY <2>2 DEF Submit, Start, Watchdog, Abandon, Applied, CallLost, others, panel
  <2>3. CASE CallCancelled(t) \/ CallFails(t)
    BY <2>3 DEF CallCancelled, CallFails, CallGivenUp
  <2>4. CASE \E h \in Handlers : NotModified(t, h) \/ BatchReceived(t, h) \/ Announced(t, h) \/ Reported(t, h)
    BY <2>4 DEF NotModified, BatchReceived, Announced, Reported, others
  <2> QED
    BY <1>1, <2>1, <2>2, <2>3, <2>4 DEF AgentStep
<1>2. CASE \/ \E x \in Txns : TxnStep(x) \/ TxnFails(x) \/ ReloadCancelled(x)
           \/ InjectUsers \/ PanelChange \/ Crash \/ UNCHANGED vars
  BY <1>2 DEF TxnStep, TxnFails, ReloadCancelled, InjectUsers, InjectRead, InjectApply, InjectEnds,
              PanelChange, P!Publish, P!EditPolicy, Crash, vars, panel, others
<1>3. ASSUME NEW h \in Handlers, PanelUpset(h) PROVE Still
  BY <1>3 DEF PanelUpset, P!WriteFails, P!OperatorPrepare, P!Prepare, P!CancelFind
<1> QED
  BY <1>1, <1>2, <1>3 DEF Next, Txns

(* The history of confirmed revisions grows with the table, and only an    *)
(* expiry writes the table without it.                                     *)
LEMMA ConfirmedGrows ==
  ASSUME Shape, [Next]_vars
  PROVE  \/ confirmed' = confirmed \cup {runs'[r].revision : r \in {s \in P!RunIds' : runs'[s].status = "success"}}
         \/ confirmed' = confirmed /\ (UNCHANGED runs \/ \E k \in P!RunIds : P!ExpireStale(k))
BY Histories DEF PanelStep

(* The agent's revision changes by a death or by a success that was        *)
(* accepted.                                                               *)
LEMMA RevisionFollows ==
  ASSUME Shape, [Next]_vars
  PROVE  \/ revision' = revision \/ revision' = 0
         \/ \E t \in Tasks, h \in Handlers :
              /\ Reported(t, h) /\ task[t].status = "success" /\ reqs[h].reply = "accepted"
              /\ revision' = task[t].payload.revision
<1>1. ASSUME NEW t \in Tasks, NEW h \in Handlers, Reported(t, h)
      PROVE  \/ revision' = revision
             \/ /\ task[t].status = "success" /\ reqs[h].reply = "accepted"
                /\ revision' = task[t].payload.revision
  BY <1>1 DEF Reported, RevisionAfter
<1>2. ASSUME NEW t \in Tasks, AgentStep(t) \/ Watchdog(t) \/ Abandon(t) \/ CallLost(t) \/ CallFails(t)
      PROVE  revision' = revision \/ \E h \in Handlers : Reported(t, h)
  <2>1. AgentStep(t) => revision' = revision \/ \E h \in Handlers : Reported(t, h)
    BY DEF AgentStep, Submit, Start, Applied, CallCancelled, CallGivenUp, GetBatch, NotModified, BatchReceived,
           Report, Announced, BeginApply, agent
  <2>2. Watchdog(t) \/ Abandon(t) \/ CallLost(t) \/ CallFails(t) => revision' = revision
    BY DEF Watchdog, Abandon, CallLost, CallFails, CallGivenUp, BeginApply, agent
  <2> QED
    BY <1>2, <2>1, <2>2
<1>3. ASSUME NEW x \in Tasks \cup {Injector}, TxnStep(x) \/ TxnFails(x) \/ ReloadCancelled(x)
      PROVE  revision' = revision
  BY <1>3 DEF TxnStep, TxnFails, BeginApply, ReloadCancelled, agent
<1>4. ASSUME NEW h \in Handlers, PanelStep(h) \/ PanelUpset(h)
      PROVE  revision' = revision
  BY <1>4 DEF PanelStep, PanelUpset, agent
<1>5. InjectUsers \/ PanelChange \/ UNCHANGED vars => revision' = revision
  BY DEF InjectUsers, InjectRead, InjectApply, InjectEnds, PanelChange, vars, agent
<1>6. Crash => revision' = 0
  BY DEF Crash
<1> QED
  BY <1>1, <1>2, <1>3, <1>4, <1>5, <1>6 DEF Next

(* Every step keeps the agent's revision, and every accepted success,      *)
(* confirmed.                                                              *)
LEMMA ConfirmedStep == Shape /\ Confirmed /\ [Next]_vars => Confirmed'
<1> SUFFICES ASSUME Shape, Confirmed, [Next]_vars PROVE Confirmed'
  OBVIOUS
<1>n. PanelInv /\ [PanelNext]_(P!vars) /\ Shape' /\ TableGrows
  BY PanelSteps, ShapeStep, PanelKept DEF Shape
<1>t. runs \in Seq(Run) /\ runs' \in Seq(Run) /\ \A r \in P!RunIds : r \in P!RunIds' /\ runs'[r].revision = runs[r].revision
  <2>1. runs \in Seq(Run) /\ runs' \in Seq(Run)
    BY <1>n DEF Shape, PanelInv, P!TypeOK, Run
  <2> QED
    BY <1>n, <2>1 DEF TableGrows, P!RunIds
<1>g. confirmed \subseteq confirmed'
  BY ConfirmedGrows
<1>1. confirmed' \subseteq P!Revisions
  <2>1. ASSUME NEW r \in P!RunIds' PROVE runs'[r].revision \in P!Revisions
    <3>1. runs'[r] \in Run
      BY <1>t, <2>1 DEF P!RunIds
    <3> QED
      BY <3>1 DEF Run
  <2> QED
    BY <2>1, ConfirmedGrows DEF Confirmed
<1>2. RevisionConfirmed'
  <2>1. CASE revision' = revision
    BY <2>1, <1>g DEF RevisionConfirmed, Confirmed
  <2>2. CASE revision' = 0
    BY <2>2 DEF RevisionConfirmed
  <2>3. ASSUME NEW t \in Tasks, NEW h \in Handlers, Reported(t, h), task[t].status = "success",
               reqs[h].reply = "accepted", revision' = task[t].payload.revision
        PROVE  RevisionConfirmed'
    <3>1. task[t].stage = "reporting" /\ reqs[h].caller = t
      BY <2>3 DEF Reported, Answered
    <3>2. reqs[h].run = task[t].run /\ reqs[h].status = "success"
      BY <2>3, <3>1 DEF Shape, CallsFit, CallFits
    <3>3. runs[task[t].run].revision = task[t].payload.revision
      BY <3>1 DEF Shape, TaskShape, GoodTask, Concerned
    <3>4. task[t].payload.revision \in confirmed
      BY <2>3, <3>2, <3>3 DEF Confirmed
    <3> QED
      BY <2>3, <3>4, <1>g DEF RevisionConfirmed
  <2> QED
    BY <2>1, <2>2, <2>3, RevisionFollows
<1>3. ASSUME NEW r \in P!RunIds', runs'[r].status = "success" PROVE runs'[r].revision \in confirmed'
  <2>1. CASE confirmed' = confirmed \cup {runs'[s].revision : s \in {u \in P!RunIds' : runs'[u].status = "success"}}
    BY <1>3, <2>1
  <2>2. CASE UNCHANGED runs
    BY <1>3, <2>2, <1>g DEF Confirmed, P!RunIds
  <2>3. ASSUME NEW k \in P!RunIds, P!ExpireStale(k) PROVE r \in P!RunIds /\ runs[r].status = "success"
    <3>1. runs' = [s \in 1..Len(runs) |-> IF s <= k /\ runs[s].status \in P!Open
                                     THEN [runs[s] EXCEPT !.status = "failed"] ELSE runs[s]]
      BY <2>3 DEF P!ExpireStale, P!RunIds
    <3>2. r \in 1..Len(runs)
      BY <3>1, <1>t DEF P!RunIds
    <3>3. [runs[r] EXCEPT !.status = "failed"].status = "failed"
      BY <1>t, <3>2 DEF Run
    <3> QED
      BY <1>3, <3>1, <3>2, <3>3 DEF P!RunIds
  <2> QED
    BY <2>1, <2>2, <2>3, <1>t, <1>g, ConfirmedGrows DEF Confirmed
<1>4. ASSUME NEW h \in Handlers, reqs'[h].reply = "accepted", reqs'[h].status = "success"
      PROVE  runs'[reqs'[h].run].revision \in confirmed'
  <2>1. Accepts(reqs'[h], h)
    BY <1>n, ReqsFollow DEF Follows
  <2>2. CASE reqs[h].reply = "accepted" /\ reqs[h].status = "success" /\ reqs'[h].run = reqs[h].run
    <3>1. reqs[h].run \in P!RunIds
      BY <1>n, <2>2 DEF PanelInv, ReqShape, GoodReq, P!RunIds
    <3> QED
      BY <2>2, <3>1, <1>g, <1>t DEF Confirmed
  <2>3. CASE reqs'[h].run \in P!RunIds /\ runs'[reqs'[h].run].status = "success"
    BY <2>3, <1>3, <1>t
  <2> QED
    BY <1>4, <2>1, <2>2, <2>3 DEF Accepts
<1> QED
  BY <1>1, <1>2, <1>3, <1>4 DEF Confirmed

(* At first there is nothing to confirm.                                   *)
LEMMA InitConfirmed == Init => Confirmed
BY DEF Init, P!Init, P!Idle, Confirmed, RevisionConfirmed, P!RunIds

(* The agent's revision is one the panel has recorded as a success.        *)
THEOREM ConfirmedTheorem == Spec => []RevisionConfirmed
<1>1. Confirmed => RevisionConfirmed
  BY DEF Confirmed
<1> QED
  BY <1>1, InitConfirmed, ConfirmedStep, Shaped, PTL DEF Spec
-----------------------------------------------------------------------------
(* The history of reopened runs, and what the requests have found.         *)
Found == reopened \subseteq P!RunIds /\ OpenRunFound

(* The history of reopened runs grows with the table, and only an expiry   *)
(* writes the table without it.                                            *)
LEMMA ReopenedGrows ==
  ASSUME Shape, [Next]_vars
  PROVE  \/ reopened' = reopened \cup {r \in P!RunIds : runs[r].status \in P!Terminal /\ runs'[r].status \in P!Open}
         \/ reopened' = reopened /\ (UNCHANGED runs \/ \E k \in P!RunIds : P!ExpireStale(k))
BY Histories DEF PanelStep

(* Every step keeps what a request about to insert a run has found: a run  *)
(* opens only by an insert, or again.                                      *)
LEMMA FoundStep == Shape /\ Found /\ [Next]_vars => Found'
<1> SUFFICES ASSUME Shape, Found, [Next]_vars PROVE Found'
  OBVIOUS
<1>n. PanelInv /\ [PanelNext]_(P!vars) /\ Shape' /\ TableGrows
  BY PanelSteps, ShapeStep, PanelKept DEF Shape
<1>t. runs \in Seq(Run) /\ runs' \in Seq(Run) /\ Len(runs) \in Nat /\ Len(runs') \in Nat
  BY <1>n DEF Shape, PanelInv, P!TypeOK, Run
<1>g. reopened \subseteq reopened' /\ reopened' \subseteq P!RunIds /\ P!RunIds \subseteq P!RunIds'
  <2>1. P!RunIds \subseteq P!RunIds'
    BY <1>n, <1>t DEF TableGrows, P!RunIds
  <2>2. reopened \subseteq reopened' /\ reopened' \subseteq P!RunIds
    BY ReopenedGrows DEF Found
  <2> QED
    BY <2>1, <2>2
<1>o. ASSUME NEW r \in P!RunIds, runs'[r].status \in P!Open
      PROVE  runs[r].status \in P!Open \/ r \in reopened'
  <2>1. runs[r].status \in P!Open \cup P!Terminal
    <3>1. runs[r] \in Run
      BY <1>t, <1>o DEF P!RunIds
    <3> QED
      BY <3>1 DEF Run, P!Statuses
  <2>2. ASSUME NEW k \in P!RunIds, P!ExpireStale(k) PROVE runs[r].status \in P!Open
    <3>1. runs' = [s \in 1..Len(runs) |-> IF s <= k /\ runs[s].status \in P!Open
                                     THEN [runs[s] EXCEPT !.status = "failed"] ELSE runs[s]]
      BY <2>2 DEF P!ExpireStale, P!RunIds
    <3> QED
      BY <1>o, <3>1 DEF P!RunIds
  <2> QED
    BY <1>o, <2>1, <2>2, ReopenedGrows
<1>1. ASSUME NEW h \in Handlers, reqs'[h].pc = "create", NEW r \in P!RunIds',
             runs'[r].revision = reqs'[h].payload.revision, runs'[r].status \in P!Open
      PROVE  r > reqs'[h].since \/ r \in reopened'
  <2>1. Unopened(reqs'[h], h)
    BY <1>n, ReqsFollow DEF Follows
  <2>2. CASE reqs[h].pc = "create" /\ reqs'[h].since = reqs[h].since /\ reqs'[h].payload = reqs[h].payload
    <3>1. CASE r \in P!RunIds
      <4>1. runs[r].revision = reqs[h].payload.revision
        BY <1>1, <2>2, <3>1, <1>n, <1>t DEF TableGrows, P!RunIds
      <4> QED
        BY <2>2, <3>1, <4>1, <1>1, <1>o, <1>g DEF Found, OpenRunFound
    <3>2. CASE r \notin P!RunIds
      <4>1. reqs[h].since <= Len(runs) /\ reqs[h].since \in Nat
        BY <1>n, <2>2, ConfigAssumption DEF PanelInv, ReqShape, GoodReq, P!TypeOK, P!Request
      <4> QED
        BY <1>t, <2>2, <3>2, <4>1 DEF P!RunIds
    <3> QED
      BY <3>1, <3>2
  <2>3. CASE P!OpenRuns(reqs'[h].payload.revision) = {} /\ reqs'[h].since = Len(runs) /\ runs' = runs
    BY <1>1, <2>3 DEF P!OpenRuns, P!RunIds
  <2> QED
    BY <1>1, <2>1, <2>2, <2>3 DEF Unopened
<1> QED
  BY <1>1, <1>g DEF Found, OpenRunFound

(* At first there is no run to find.                                       *)
LEMMA InitFound == Init => Found
BY DEF Init, P!Init, P!Idle, Found, OpenRunFound, P!RunIds

(* A request that is about to make a run has found none that is open.      *)
THEOREM OpenRunTheorem == Spec => []OpenRunFound
<1>1. Found => OpenRunFound
  BY DEF Found
<1> QED
  BY <1>1, InitFound, FoundStep, Shaped, PTL DEF Spec

(* Type correctness.                                                       *)
THEOREM TypeTheorem == Spec => []TypeOK
<1>1. Init => Earned
  BY DEF Init, P!Init, P!Idle, Free, Earned, SuccessEarned, P!RunIds
<1>2. Shape /\ Earned /\ Confirmed /\ Found => TypeOK
  BY DEF Shape, PanelInv, DirInv, AgentTypes, Earned, Confirmed, Found, TypeOK, P!Revisions
<1> QED
  BY <1>1, <1>2, InitConfirmed, InitFound, EarnedStep, ConfirmedStep, FoundStep, Shaped, PTL DEF Spec
-----------------------------------------------------------------------------
(* The config.json of d is not behind its other files.                     *)
Fresh(d) ==
  \/ d = Missing
  \/ IF Merges THEN d.files \in d.config ELSE d.config \subseteq {d.files}

(* Every directory is fresh, the backups too, and an injection writes what *)
(* the active directory holds, as long as none was overtaken.              *)
AllFresh ==
  ~raced =>
    /\ Fresh(active)
    /\ \A x \in Txns : Fresh(before[x]) /\ Fresh(backup[x])
    /\ InjectionExposed => active # Missing /\ injection.config = active.config
    /\ phase[Injector] \in {"staged", "moved"} =>
         before[Injector] # Missing /\ request[Injector].config = before[Injector].config

(* A step of a transaction lets no config.json fall behind unless it       *)
(* overtakes an injection: what a snapshot builds has all of its batch, or *)
(* nothing but it, whatever was there before; a patch takes the            *)
(* config.json of the directory it copies.                                 *)
LEMMA FreshTxn ==
  ASSUME Shape, AllFresh, NEW x \in Txns, D!Step(x) \/ D!Failure(x), Race, UNCHANGED users
  PROVE  AllFresh'
<1> SUFFICES ASSUME ~raced' PROVE AllFresh'
  BY DEF AllFresh
<1>r. ~raced /\ (InjectionExposed => active' = active)
  BY DEF Race
<1>s. /\ D!TypeOK /\ TxnsFit /\ PhaseShape /\ LockHeld /\ Injector \in Txns
  BY DEF Shape, DirInv, Txns
<1>u. /\ Fresh(active) /\ \A y \in Txns : Fresh(before[y]) /\ Fresh(backup[y])
      /\ InjectionExposed => active # Missing /\ injection.config = active.config
      /\ phase[Injector] \in {"staged", "moved"} =>
           before[Injector] # Missing /\ request[Injector].config = before[Injector].config
  BY <1>r DEF AllFresh
<1>e. InjectionExposed' => InjectionExposed
  <2>1. phase'[Injector] = "waiting" => phase[Injector] = "waiting"
    BY <1>s DEF D!Step, D!Stage, D!MoveAway, D!Activate, D!ReloadOk, D!Remove, D!Restore, D!ReloadAgain,
                D!Failure, D!StageFails, D!ActivateFails, D!ReloadFails, D!RollbackFails,
                D!Return, D!Goto, D!TypeOK, Txns
  <2> QED
    BY <2>1 DEF InjectionExposed, users
<1>m. Fresh(Missing)
  BY DEF Fresh
<1>1. Fresh(active')
  <2>1. CASE D!Activate(x)
    <3>1. \A d \in D!Staged(x) : Fresh(d)
      <4>1. CASE x \in Tasks
        <5>1. request[x].mode = "snapshot"
          <6>1. phase[x] # "idle"
            BY <2>1 DEF D!Activate
          <6>2. request[x] = [mode |-> "snapshot", version |-> task[x].payload, config |-> {}]
            BY <4>1, <6>1, <1>s DEF TxnsFit
          <6> QED
            BY <6>2
        <5> QED
          BY <5>1 DEF Fresh, D!Staged, D!Built, D!Merged
      <4>2. CASE x = Injector
        <5>1. request[x].mode = "patch" /\ before[x] # Missing /\ request[x].config = before[x].config
          BY <2>1, <4>2, <1>s, <1>u DEF TxnsFit, D!Activate
        <5> QED
          BY <5>1, <1>u DEF Fresh, D!Staged, D!Built
      <4> QED
        BY <4>1, <4>2 DEF Txns
    <3> QED
      BY <2>1, <3>1 DEF D!Activate
  <2>2. CASE D!Stage(x) \/ D!MoveAway(x) \/ D!ReloadOk(x) \/ D!Remove(x) \/ D!Restore(x) \/ D!ReloadAgain(x)
    BY <2>2, <1>u, <1>m DEF D!Stage, D!MoveAway, D!ReloadOk, D!Remove, D!Restore, D!ReloadAgain
  <2>3. CASE D!Failure(x)
    BY <2>3, <1>u, <1>m DEF D!Failure, D!StageFails, D!ActivateFails, D!MovedBack, D!ReloadFails, D!RollbackFails
  <2> QED
    BY <2>1, <2>2, <2>3 DEF D!Step
<1>2. ASSUME NEW y \in Txns PROVE Fresh(before'[y]) /\ Fresh(backup'[y])
  <2>1. before'[y] \in {before[y], active, Missing} /\ backup'[y] \in {backup[y], active, Missing}
    BY <1>s DEF D!Step, D!Stage, D!MoveAway, D!BackupOf, D!Activate, D!ReloadOk, D!Remove, D!Restore, D!ReloadAgain,
                D!Failure, D!StageFails, D!ActivateFails, D!ReloadFails, D!RollbackFails,
                D!Return, D!Goto, D!TypeOK, Txns
  <2> QED
    BY <2>1, <1>u, <1>m
<1>3. InjectionExposed' => active' # Missing /\ injection'.config = active'.config
  BY <1>e, <1>r, <1>u DEF users
<1>4. ASSUME phase'[Injector] \in {"staged", "moved"}
      PROVE  before'[Injector] # Missing /\ request'[Injector].config = before'[Injector].config
  <2>1. request'[Injector] = request[Injector]
    BY <1>4, <1>s, TxnEffect
  <2>2. CASE phase[Injector] = "waiting" /\ before'[Injector] = active
    <3>1. injection.stage = "applying" /\ request[Injector].config = injection.config
      BY <2>2, <1>s DEF TxnsFit
    <3>2. InjectionExposed
      BY <2>2, <3>1 DEF InjectionExposed
    <3> QED
      BY <2>1, <2>2, <3>1, <3>2, <1>u
  <2>3. CASE phase[Injector] \in {"staged", "moved"} /\ before'[Injector] = before[Injector]
    BY <2>1, <2>3, <1>u
  <2>4. \/ phase[Injector] = "waiting" /\ before'[Injector] = active
        \/ phase[Injector] \in {"staged", "moved"} /\ before'[Injector] = before[Injector]
    <3>1. CASE x = Injector
      BY <1>4, <1>s, <3>1
         DEF D!Step, D!Stage, D!MoveAway, D!Activate, D!ReloadOk, D!Remove, D!Restore, D!ReloadAgain,
             D!Failure, D!StageFails, D!ActivateFails, D!ReloadFails, D!RollbackFails,
             D!Return, D!Goto, D!TypeOK
    <3>2. CASE x # Injector
      BY <1>4, <1>s, <3>2
         DEF D!Step, D!Stage, D!MoveAway, D!Activate, D!ReloadOk, D!Remove, D!Restore, D!ReloadAgain,
             D!Failure, D!StageFails, D!ActivateFails, D!ReloadFails, D!RollbackFails,
             D!Return, D!Goto, D!TypeOK
    <3> QED
      BY <3>1, <3>2
  <2> QED
    BY <2>2, <2>3, <2>4
<1> QED
  BY <1>1, <1>2, <1>3, <1>4 DEF AllFresh

(* Every step keeps the directories fresh.                                 *)
LEMMA FreshStep == Shape /\ AllFresh /\ [Next]_vars => AllFresh'
<1> SUFFICES ASSUME Shape, AllFresh, [Next]_vars PROVE AllFresh'
  OBVIOUS
<1>s. D!TypeOK /\ TxnsFit /\ Injector \notin Tasks /\ PhaseShape
  BY ConfigAssumption DEF Shape, DirInv
<1>k. ASSUME UNCHANGED <<dir, users, raced>> PROVE AllFresh'
  BY <1>k DEF AllFresh, InjectionExposed, dir, users
<1>b. ASSUME NEW t \in Tasks, BeginApply(t), UNCHANGED <<users, raced>> PROVE AllFresh'
  <2>1. /\ UNCHANGED <<active, before, backup, raced, injection>>
        /\ phase'[Injector] = phase[Injector] /\ request'[Injector] = request[Injector]
    BY <1>b, <1>s DEF BeginApply, D!Ask, D!Goto, D!TypeOK, users
  <2> QED
    BY <2>1 DEF AllFresh, InjectionExposed
<1>1. CASE UNCHANGED vars
  BY <1>1, <1>k DEF vars, others
<1>2. ASSUME NEW t \in Tasks, AgentStep(t) \/ Watchdog(t) \/ Abandon(t) \/ CallLost(t) \/ CallFails(t)
      PROVE  AllFresh'
  <2>1. CASE Submit(t) \/ Start(t) \/ Watchdog(t) \/ Abandon(t) \/ Applied(t) \/ CallLost(t)
             \/ \E h \in Handlers : \/ GetBatch(t, h) \/ Report(t, h) \/ NotModified(t, h)
                                    \/ BatchReceived(t, h) \/ Reported(t, h)
    BY <2>1, <1>k DEF Submit, Start, Watchdog, Abandon, Applied, CallLost, GetBatch, Report, NotModified,
                      BatchReceived, Reported, others, agent
  <2>2. CASE CallCancelled(t) \/ CallFails(t) \/ \E h \in Handlers : Announced(t, h)
    BY <2>2, <1>b, <1>k DEF CallCancelled, CallFails, CallGivenUp, Announced, others
  <2> QED
    BY <1>2, <2>1, <2>2 DEF AgentStep
<1>3. ASSUME NEW x \in Txns, TxnStep(x) \/ TxnFails(x) \/ ReloadCancelled(x)
      PROVE  AllFresh'
  BY <1>3, FreshTxn DEF TxnStep, TxnFails, ReloadCancelled, D!Failure
<1>4. CASE (\E h \in Handlers : PanelStep(h) \/ PanelUpset(h)) \/ PanelChange
  BY <1>4, <1>k DEF PanelStep, PanelUpset, PanelChange, others
<1>5. CASE InjectRead
  BY <1>5, <1>s DEF InjectRead, AllFresh, InjectionExposed, dir, others
<1>6. CASE InjectApply
  <2>1. /\ UNCHANGED <<active, before, backup, raced>> /\ phase'[Injector] = "waiting"
        /\ injection.stage = "read" /\ injection'.config = injection.config
    BY <1>6, <1>s DEF InjectApply, D!Ask, D!Goto, D!TypeOK, others, Shape, AgentTypes
  <2> QED
    BY <2>1 DEF AllFresh, InjectionExposed
<1>7. CASE InjectEnds
  <2>1. UNCHANGED <<dir, raced>> /\ injection'.stage = "idle" /\ phase[Injector] = "idle"
    BY <1>7 DEF InjectEnds, NoInjection, others
  <2> QED
    BY <2>1 DEF AllFresh, InjectionExposed, dir
<1>8. CASE Crash
  <2>1. /\ UNCHANGED <<active, raced>> /\ injection'.stage = "idle"
        /\ phase' = [x \in Txns |-> "idle"] /\ before' = [x \in Txns |-> Missing]
        /\ backup' = [x \in Txns |-> Missing]
    BY <1>8 DEF Crash, D!Die, NoInjection, Txns
  <2> QED
    BY <2>1 DEF AllFresh, InjectionExposed, Fresh, Txns
<1> QED
  BY <1>1, <1>2, <1>3, <1>4, <1>5, <1>6, <1>7, <1>8 DEF Next, Txns, InjectUsers

(* config.json is not behind the other files, merged or not, unless an     *)
(* injection of users was overtaken.                                       *)
THEOREM ConfigTheorem == Spec => []ConfigCurrent
<1>1. Init => AllFresh
  BY DEF Init, D!Init, NoInjection, AllFresh, InjectionExposed, Fresh, Txns
<1>2. AllFresh => ConfigCurrent
  BY DEF AllFresh, ConfigCurrent, Fresh
<1> QED
  BY <1>1, <1>2, FreshStep, Shaped, PTL DEF Spec
-----------------------------------------------------------------------------
(* The transaction of t has gone through, and its revision is not kept yet.*)
Done(t) ==
  \/ task[t].stage = "applying" /\ phase[t] = "idle" /\ outcome[t] = "ok"
  \/ task[t].stage = "reporting" /\ task[t].status = "success"

(* n is not below any revision that is kept or may be.                     *)
Above(n) == revision <= n /\ \A t \in Tasks : Done(t) => task[t].payload.revision <= n

(* The directory a transaction has found, or the one there is.             *)
Base == IF lock = NoTask THEN active ELSE before[lock]

OnDisk(n) == n > 0 => Base # Missing /\ Base.files.revision >= n

(* What a live task has received is not below what has been applied, and   *)
(* what has been applied is on disk.                                       *)
Ordered ==
  /\ revision <= latest
  /\ \A t \in Tasks : task[t].stage \in Concerned /\ task[t].live => Above(task[t].payload.revision)
  /\ \A h \in Handlers : Carries(reqs[h]) /\ reqs[h].caller \in Tasks /\ task[reqs[h].caller].live =>
       Above(reqs[h].payload.revision)
  /\ ~torn => OnDisk(revision) /\ \A t \in Tasks : Done(t) => OnDisk(task[t].payload.revision)

(* A task never comes back to life, and what it has received comes from    *)
(* the request it waits for.                                               *)
LEMMA TaskFollows ==
  ASSUME Shape, [Next]_vars, NEW t \in Tasks, task'[t] # Free
  PROVE  /\ task'[t].live => task[t].live
         /\ task'[t].stage \in Concerned =>
              \/ task[t].stage \in Concerned /\ task'[t].payload = task[t].payload
              \/ \E h \in Handlers : /\ reqs[h].caller = t /\ reqs[h].reply = "batch"
                                     /\ task'[t].payload = reqs[h].payload
<1> DEFINE Goal == /\ task'[t].live => task[t].live
                   /\ task'[t].stage \in Concerned =>
                        \/ task[t].stage \in Concerned /\ task'[t].payload = task[t].payload
                        \/ \E h \in Handlers : /\ reqs[h].caller = t /\ reqs[h].reply = "batch"
                                               /\ task'[t].payload = reqs[h].payload
<1>t. task \in [Tasks -> Task]
  BY DEF Shape, AgentTypes
<1>k. ASSUME task'[t] = task[t] PROVE Goal
  BY <1>k
<1>1. ASSUME NEW u \in Tasks, AgentStep(u) \/ Watchdog(u) \/ Abandon(u) \/ CallLost(u) \/ CallFails(u)
      PROVE  Goal
  <2>f. ASSUME HandlerReturns(u) PROVE Goal
    BY <2>f, <1>t, <1>k DEF HandlerReturns
  <2>b. ASSUME BeginApply(u), task[u].stage = "announcing" PROVE Goal
    BY <2>b, <1>t DEF BeginApply, Goto, Task, Concerned
  <2>1. CASE Submit(u) \/ Start(u)
    BY <2>1, <1>t DEF Submit, Start, Goto, Task, Concerned
  <2>w. CASE Watchdog(u) \/ Abandon(u)
    BY <2>w, <1>t DEF Watchdog, Abandon, Task
  <2>2. CASE CallLost(u) \/ \E h \in Handlers : GetBatch(u, h) \/ Report(u, h)
    BY <2>2, <1>k DEF CallLost, GetBatch, Report, agent
  <2>3. CASE CallCancelled(u) \/ CallFails(u) \/ \E h \in Handlers : NotModified(u, h) \/ Reported(u, h)
             \/ Announced(u, h)
    BY <2>3, <2>f, <2>b DEF CallCancelled, CallFails, CallGivenUp, NotModified, Reported, Announced
  <2>4. CASE Applied(u)
    BY <2>4, <1>t DEF Applied, Task, Concerned
  <2>5. ASSUME NEW h \in Handlers, BatchReceived(u, h) PROVE Goal
    <3> DEFINE received == [task[u] EXCEPT !.run = reqs[h].run, !.payload = reqs[h].payload]
               one == [received EXCEPT !.stage = "announcing"]
               two == [received EXCEPT !.stage = "reporting", !.status = "failed"]
    <3>1. /\ one.live = task[u].live /\ one.payload = reqs[h].payload
          /\ two.live = task[u].live /\ two.payload = reqs[h].payload
      BY <1>t DEF Task
    <3>2. /\ task' = [task EXCEPT ![u] = one] \/ task' = [task EXCEPT ![u] = two]
          /\ reqs[h].caller = u /\ reqs[h].reply = "batch"
      BY <2>5 DEF BatchReceived, Answered
    <3> HIDE DEF one, two
    <3> QED
      BY <3>1, <3>2, <1>t, <1>k
  <2> QED
    BY <1>1, <2>1, <2>w, <2>2, <2>3, <2>4, <2>5 DEF AgentStep
<1>2. CASE \/ UNCHANGED vars
           \/ \E x \in Txns : TxnStep(x) \/ TxnFails(x) \/ ReloadCancelled(x)
           \/ \E h \in Handlers : PanelStep(h) \/ PanelUpset(h)
           \/ InjectUsers \/ PanelChange
  BY <1>2, <1>k DEF TxnStep, TxnFails, ReloadCancelled, PanelStep, PanelUpset, PanelChange,
                    InjectUsers, InjectRead, InjectApply, InjectEnds, agent, vars
<1>3. CASE Crash
  BY <1>3 DEF Crash
<1> QED
  BY <1>1, <1>2, <1>3 DEF Next, Txns

(* Only the reload of a core adds to what has been applied.                *)
Reloads(t) == TxnStep(t) /\ D!ReloadOk(t)

(* Only a reload that succeeds gives a transaction the outcome ok.         *)
LEMMA OkEarned ==
  ASSUME D!TypeOK, NEW x \in Txns, D!Step(x) \/ D!Failure(x), NEW t \in Txns,
         outcome'[t] = "ok", outcome[t] # "ok"
  PROVE  x = t /\ D!ReloadOk(t) /\ ~D!Failure(t)
<1>r. ASSUME NEW y \in Txns, NEW result, result # "ok", D!Return(y, result) PROVE FALSE
  BY <1>r DEF D!Return, D!TypeOK, Txns
<1>f. ASSUME NEW y \in Txns, D!Failure(y) PROVE FALSE
  BY <1>f, <1>r DEF D!Failure, D!StageFails, D!ActivateFails, D!ReloadFails, D!RollbackFails
<1>1. D!ReloadOk(x)
  BY <1>f, <1>r DEF D!Step, D!Stage, D!MoveAway, D!Activate, D!Remove, D!Restore, D!ReloadAgain
<1>2. x = t
  BY <1>1 DEF D!ReloadOk, D!Return, D!TypeOK, Txns
<1> QED
  BY <1>1, <1>2, <1>f

(* A task's transaction that is over and ok was so before, or was just     *)
(* reloaded.                                                               *)
LEMMA OkFollows ==
  ASSUME Shape, [Next]_vars, NEW t \in Tasks,
         task'[t].stage = "applying", phase'[t] = "idle", outcome'[t] = "ok"
  PROVE  \/ task[t] = task'[t] /\ phase[t] = "idle" /\ outcome[t] = "ok"
         \/ task[t] = task'[t] /\ Reloads(t)
         \/ /\ task[t].stage = "applying" /\ phase[t] = "idle" /\ outcome[t] = "ok"
            /\ task'[t].payload = task[t].payload
<1> DEFINE Old == /\ task[t].stage = "applying" /\ phase[t] = "idle" /\ outcome[t] = "ok"
                  /\ task'[t].payload = task[t].payload
<1>s. task \in [Tasks -> Task] /\ D!TypeOK /\ TxnsFit /\ Injector \notin Tasks /\ PhaseShape /\ t \in Txns
  BY ConfigAssumption DEF Shape, AgentTypes, DirInv, Txns
<1>k. ASSUME UNCHANGED <<phase, outcome>>, task'[t] = task[t] PROVE Old
  BY <1>k
<1>1. ASSUME NEW u \in Tasks, AgentStep(u) \/ Watchdog(u) \/ Abandon(u) \/ CallLost(u) \/ CallFails(u)
      PROVE  Old
  <2>f. ASSUME HandlerReturns(u), UNCHANGED dir PROVE Old
    BY <2>f, <1>s, <1>k DEF HandlerReturns, Free, dir
  <2>b. ASSUME BeginApply(u) PROVE Old
    <3>1. u # t
      BY <2>b, <1>s DEF BeginApply, D!Ask, D!Goto, D!TypeOK
    <3> QED
      BY <2>b, <3>1, <1>s DEF BeginApply, Goto, D!Ask, D!Goto, D!TypeOK
  <2>1. CASE Submit(u) \/ Start(u) \/ Applied(u)
    BY <2>1, <1>s, <1>k DEF Submit, Start, Applied, Goto, Task, dir
  <2>w. CASE Watchdog(u) \/ Abandon(u)
    BY <2>w, <1>s, <1>k DEF Watchdog, Abandon, Task, dir
  <2>2. CASE CallLost(u) \/ \E h \in Handlers : GetBatch(u, h) \/ Report(u, h)
    BY <2>2, <1>k DEF CallLost, GetBatch, Report, agent, dir
  <2>3. CASE CallCancelled(u) \/ CallFails(u) \/ \E h \in Handlers : NotModified(u, h) \/ Reported(u, h)
             \/ Announced(u, h)
    BY <2>3, <2>f, <2>b DEF CallCancelled, CallFails, CallGivenUp, NotModified, Reported, Announced
  <2>5. ASSUME NEW h \in Handlers, BatchReceived(u, h) PROVE Old
    <3> DEFINE received == [task[u] EXCEPT !.run = reqs[h].run, !.payload = reqs[h].payload]
               one == [received EXCEPT !.stage = "announcing"]
               two == [received EXCEPT !.stage = "reporting", !.status = "failed"]
    <3>1. one.stage = "announcing" /\ two.stage = "reporting"
      BY <1>s DEF Task
    <3>2. (task' = [task EXCEPT ![u] = one] \/ task' = [task EXCEPT ![u] = two]) /\ UNCHANGED dir
      BY <2>5 DEF BatchReceived
    <3> HIDE DEF one, two
    <3> QED
      BY <3>1, <3>2, <1>s, <1>k DEF dir
  <2> QED
    BY <1>1, <2>1, <2>w, <2>2, <2>3, <2>5 DEF AgentStep
<1>2. ASSUME NEW x \in Txns, TxnStep(x) \/ TxnFails(x) \/ ReloadCancelled(x)
      PROVE  Old \/ (task[t] = task'[t] /\ Reloads(t))
  <2>1. (D!Step(x) \/ D!Failure(x)) /\ task' = task
    BY <1>2 DEF TxnStep, TxnFails, ReloadCancelled, D!Failure, agent
  <2>2. CASE outcome[t] = "ok"
    <3>1. phase[t] = "idle"
      BY <2>2, <1>s DEF PhaseShape
    <3> QED
      BY <2>1, <2>2, <3>1
  <2>3. CASE outcome[t] # "ok"
    <3>1. x = t /\ D!ReloadOk(t) /\ ~D!Failure(t)
      BY <2>1, <2>3, <1>s, OkEarned
    <3> QED
      BY <1>2, <2>1, <3>1 DEF TxnFails, ReloadCancelled, D!Failure, Reloads
  <2> QED
    BY <2>2, <2>3
<1>3. CASE UNCHANGED vars \/ (\E h \in Handlers : PanelStep(h) \/ PanelUpset(h)) \/ PanelChange
  BY <1>3, <1>k DEF PanelStep, PanelUpset, PanelChange, agent, dir, vars
<1>4. CASE InjectUsers
  BY <1>4, <1>s, <1>k DEF InjectUsers, InjectRead, InjectApply, InjectEnds, D!Ask, D!Goto, D!TypeOK, agent, dir
<1>5. CASE Crash
  BY <1>5 DEF Crash, Free
<1> QED
  BY <1>1, <1>2, <1>3, <1>4, <1>5 DEF Next, Txns

(* A successful reload is a step of the task's own transaction, whose      *)
(* context therefore lives.                                                *)
LEMMA ReloadIsStep ==
  ASSUME Shape, [Next]_vars, NEW t \in Tasks, D!ReloadOk(t)
  PROVE  TxnStep(t)
<1>s. D!TypeOK /\ TxnsFit /\ Injector \notin Tasks /\ PhaseShape /\ t \in Txns
  BY ConfigAssumption DEF Shape, DirInv, Txns
<1>1. phase[t] = "switched" /\ outcome[t] = "none" /\ outcome'[t] = "ok"
  BY <1>s DEF D!ReloadOk, D!Return, D!TypeOK, PhaseShape, Txns
<1>2. ASSUME UNCHANGED dir PROVE FALSE
  BY <1>1, <1>2 DEF dir
<1>3. ASSUME NEW u \in Tasks, AgentStep(u) \/ Watchdog(u) \/ Abandon(u) \/ CallLost(u) \/ CallFails(u)
      PROVE  FALSE
  <2>1. UNCHANGED dir \/ BeginApply(u)
    BY <1>3 DEF AgentStep, Submit, Start, Applied, CallCancelled, CallGivenUp, GetBatch, NotModified,
                BatchReceived, Report, Announced, Reported, Watchdog, Abandon, CallLost, CallFails
  <2>2. ASSUME BeginApply(u) PROVE FALSE
    BY <2>2, <1>1, <1>s DEF BeginApply, D!Ask, D!Goto, D!TypeOK
  <2> QED
    BY <2>1, <2>2, <1>2
<1>4. ASSUME NEW x \in Txns, TxnStep(x) \/ TxnFails(x) \/ ReloadCancelled(x)
      PROVE  TxnStep(t)
  <2>1. D!Step(x) \/ D!Failure(x)
    BY <1>4 DEF TxnStep, TxnFails, ReloadCancelled, D!Failure
  <2>2. x = t /\ ~D!Failure(t)
    BY <2>1, <1>1, <1>s, OkEarned
  <2> QED
    BY <1>4, <2>2 DEF TxnFails, ReloadCancelled, D!Failure
<1>5. ~Crash
  BY <1>1 DEF Crash, D!Die
<1>6. ~InjectUsers
  BY <1>1, <1>2, <1>s DEF InjectUsers, InjectRead, InjectApply, InjectEnds, D!Ask, D!Goto, D!TypeOK
<1>7. ~(UNCHANGED vars \/ (\E h \in Handlers : PanelStep(h) \/ PanelUpset(h)) \/ PanelChange)
  BY <1>2 DEF vars, PanelStep, PanelUpset, PanelChange
<1> QED
  BY <1>3, <1>4, <1>5, <1>6, <1>7 DEF Next, Txns

(* No step but a reload of a batch changes the files a transaction has     *)
(* found, or there are, without the directory being torn.                  *)
LEMMA BaseKept ==
  ASSUME DirInv, [D!Next]_(D!vars), \A x \in Txns : D!ReloadOk(x) => request[x].mode = "patch", ~torn'
  PROVE  ~torn /\ (Base = Missing \/ (Base' # Missing /\ Base'.files = Base.files))
<1> DEFINE Same == ~torn /\ (Base = Missing \/ (Base' # Missing /\ Base'.files = Base.files))
<1>s. D!TypeOK /\ LockHeld /\ PhaseShape /\ NoTask \notin Txns
  BY ConfigAssumption DEF DirInv, Txns
<1>k. ASSUME UNCHANGED <<active, lock, before, torn>> PROVE Same
  BY <1>k DEF Base
<1>1. CASE UNCHANGED D!vars
  BY <1>1, <1>k DEF D!vars
<1>2. ASSUME NEW x \in Txns, D!Step(x) PROVE Same
  <2>h. D!Holding(x) => lock = x /\ Base = before[x]
    BY <1>s DEF LockHeld, Base
  <2>1. CASE D!Stage(x)
    <3>1. Base = active /\ lock' = x /\ before'[x] = active /\ torn' = torn
      BY <2>1, <1>s DEF D!Stage, Base, D!TypeOK, Txns
    <3> QED
      BY <3>1, <1>s DEF Base
  <2>2. CASE D!MoveAway(x) \/ D!Activate(x) \/ D!Remove(x) \/ D!Restore(x)
    <3>1. D!Holding(x) /\ UNCHANGED <<lock, before, torn>>
      BY <2>2 DEF D!MoveAway, D!Activate, D!Remove, D!Restore, D!Holding
    <3> QED
      BY <2>h, <3>1, <1>s DEF Base
  <2>3. CASE D!ReloadOk(x)
    <3>1. /\ D!Holding(x) /\ request[x].mode = "patch" /\ torn' = torn /\ active \in D!Staged(x)
          /\ Base' = active
      BY <2>3, <1>s DEF D!ReloadOk, D!Holding, D!Return, PhaseShape, D!TypeOK, Base
    <3>2. active # Missing
      BY <3>1, <1>s, StagedDir, ConfigAssumption
    <3>3. Base = Missing \/ active.files = Base.files
      BY <2>h, <3>1 DEF D!Staged, D!Built
    <3> QED
      BY <3>1, <3>2, <3>3
  <2>4. CASE D!ReloadAgain(x)
    <3>1. D!Holding(x) /\ active = before[x] /\ Base' = active /\ torn' = torn
      BY <2>4, <1>s DEF D!ReloadAgain, D!Holding, D!Return, PhaseShape, Base
    <3> QED
      BY <2>h, <3>1
  <2> QED
    BY <1>2, <2>1, <2>2, <2>3, <2>4 DEF D!Step
<1>3. ASSUME NEW x \in Txns, D!Failure(x) PROVE Same
  <2>h. D!Holding(x) => lock = x /\ Base = before[x]
    BY <1>s DEF LockHeld, Base
  <2>1. CASE D!StageFails(x)
    BY <2>1 DEF D!StageFails, D!Return, Base
  <2>2. CASE D!ActivateFails(x)
    <3>1. D!Holding(x) /\ backup[x] = before[x] /\ Base' = active' /\ active' = backup[x] /\ torn' = torn
      BY <2>2, <1>s DEF D!ActivateFails, D!MovedBack, D!Holding, D!Return, PhaseShape, Base
    <3> QED
      BY <2>h, <3>1
  <2>3. CASE D!ReloadFails(x)
    <3>1. D!Holding(x) /\ backup[x] = before[x] /\ torn' = torn
      BY <2>3, <1>s DEF D!ReloadFails, D!Holding, PhaseShape
    <3>2. CASE UNCHANGED <<lock, before>>
      BY <2>h, <3>1, <3>2, <1>s DEF Base
    <3>3. CASE ~D!RollsBack(x)
      BY <2>h, <3>1, <3>3 DEF D!RollsBack
    <3> QED
      BY <2>3, <3>2, <3>3 DEF D!ReloadFails
  <2>4. ~D!RollbackFails(x)
    BY DEF D!RollbackFails
  <2> QED
    BY <1>3, <2>1, <2>2, <2>3, <2>4 DEF D!Failure
<1>4. ASSUME NEW x \in Txns, NEW req \in D!Requests, D!Ask(x, req) PROVE Same
  BY <1>4, <1>k DEF D!Ask
<1>5. CASE D!Die
  <2>1. /\ ~torn /\ Base' = active
        /\ \A x \in Txns : backup[x] = Missing \/ phase[x] = "restored"
    BY <1>5, <1>s DEF D!Die, D!TypeOK, Base, Txns
  <2>2. CASE lock = NoTask
    BY <2>1, <2>2, <1>5 DEF Base, D!Die
  <2>3. CASE lock # NoTask
    <3>1. lock \in Txns /\ D!Holding(lock) /\ Base = before[lock]
      BY <2>3, <1>s DEF D!TypeOK, LockHeld, Base, Txns
    <3>2. phase[lock] \in D!Phases /\ (backup[lock] = Missing \/ phase[lock] = "restored")
      BY <2>1, <3>1, <1>s DEF D!TypeOK, Txns
    <3>3. before[lock] = Missing \/ active = before[lock]
      BY <3>1, <3>2, <1>s DEF PhaseShape, D!Phases, D!Holding
    <3> QED
      BY <2>1, <3>1, <3>3, <1>5 DEF D!Die
  <2> QED
    BY <2>2, <2>3
<1> QED
  BY <1>1, <1>2, <1>3, <1>4, <1>5 DEF D!Next, Txns

(* A transaction that has gone through was so before, or was just          *)
(* reloaded.                                                               *)
LEMMA DoneFollows ==
  ASSUME Shape, [Next]_vars, NEW t \in Tasks, Done(t)'
  PROVE  (Done(t) /\ task'[t].payload = task[t].payload) \/ Reloads(t)
<1>1. CASE task'[t].stage = "reporting" /\ task'[t].status = "success"
  BY <1>1, TaskReports DEF Done
<1>2. CASE task'[t].stage = "applying" /\ phase'[t] = "idle" /\ outcome'[t] = "ok"
  BY <1>2, OkFollows DEF Done
<1> QED
  BY <1>1, <1>2 DEF Done

(* The revision that is kept is one whose transaction has gone through.    *)
LEMMA RevisionClaims ==
  ASSUME Shape, [Next]_vars
  PROVE  \/ revision' = revision \/ revision' = 0
         \/ \E t \in Tasks : Done(t) /\ revision' = task[t].payload.revision
BY RevisionFollows DEF Reported, Done

(* Without a reload nothing more is applied.                               *)
LEMMA AboveKept ==
  ASSUME Shape, [Next]_vars, \A t \in Tasks : ~Reloads(t), NEW n \in Nat, Above(n)
  PROVE  Above(n)'
BY RevisionClaims, DoneFollows DEF Above

(* Revisions are natural numbers, and what is received is not beyond the   *)
(* latest.                                                                 *)
LEMMA Revisions ==
  ASSUME Shape
  PROVE  /\ revision \in Nat /\ latest \in Nat
         /\ \A t \in Tasks : task[t].payload.revision \in Nat
         /\ \A h \in Handlers : reqs[h].payload.revision \in Nat
         /\ \A t \in Tasks : task[t].stage \in Concerned => task[t].payload.revision <= latest
<1>1. \A p \in P!Payload \cup {P!NoPayload} : p.revision \in Nat
  BY ConfigAssumption DEF P!Payload, P!NoPayload, P!Revisions
<1>2. revision \in Nat /\ latest \in Nat
  BY ConfigAssumption DEF Shape, AgentTypes, PanelInv, P!TypeOK
<1>3. \A t \in Tasks : task[t].payload \in P!Payload \cup {P!NoPayload}
  BY DEF Shape, AgentTypes, Task
<1>4. \A h \in Handlers : reqs[h].payload \in P!Payload \cup {P!NoPayload}
  BY DEF Shape, PanelInv, P!TypeOK, P!Request
<1>5. \A t \in Tasks : task[t].stage \in Concerned => task[t].payload.revision <= latest
  BY DEF Shape, TaskShape, GoodTask
<1> QED
  BY <1>1, <1>2, <1>3, <1>4, <1>5

(* The core has been reloaded with what t received.                        *)
LEMMA OrderedReload ==
  ASSUME Shape, Ordered, [Next]_vars, NEW t \in Tasks, D!ReloadOk(t)
  PROVE  Ordered'
<1> DEFINE n == task[t].payload.revision
           Up(m) == revision' <= m /\ \A u \in Tasks : Done(u)' => task'[u].payload.revision <= m
<1>1. /\ MayReload(t) /\ UNCHANGED <<reqs, latest, revision, task>> /\ worker' = worker
  BY ReloadIsStep DEF TxnStep, panel, agent, D!ReloadOk
<1>2. task[t].live /\ phase[t] = "switched"
  BY <1>1 DEF MayReload, D!ReloadOk
<1>3. task[t].stage = "applying" /\ request[t] = [mode |-> "snapshot", version |-> task[t].payload, config |-> {}]
  BY <1>2 DEF Shape, TxnsFit
<1>4. Above(n) /\ n \in Nat
  BY <1>2, <1>3, Revisions DEF Ordered, Concerned
<1>5. \A u \in Tasks : task[u].stage \in Begun /\ task[u].live => u = t
  BY <1>2, <1>3 DEF Shape, QueueShape, Begun, Concerned
<1>s. D!TypeOK /\ PhaseShape /\ t \in Txns
  BY DEF Shape, DirInv, Txns
<1>6. \A u \in Tasks \ {t} : phase'[u] = phase[u] /\ outcome'[u] = outcome[u]
  BY <1>s DEF D!ReloadOk, D!Return, D!TypeOK
<1>7. \A u \in Tasks : Done(u)' => Done(u) \/ u = t
  BY <1>1, <1>6 DEF Done
<1>8. Up(n)
  BY <1>1, <1>4, <1>7 DEF Above
<1>9. \A u \in Tasks : task'[u].stage \in Concerned /\ task'[u].live => Up(task'[u].payload.revision)
  BY <1>1, <1>5, <1>8 DEF Begun
<1>10. ASSUME NEW h \in Handlers, reqs'[h].caller \in Tasks, task'[reqs'[h].caller].live
       PROVE  FALSE
  <2> DEFINE u == reqs[h].caller
  <2>1. u \in Tasks /\ task[u].live /\ task[u].stage \in Calling
    BY <1>1, <1>10 DEF Shape, CallsFit, CallFits
  <2> QED
    BY <2>1, <1>3, <1>5 DEF Calling, Begun, Concerned
<1>11. OnDisk(revision)' /\ \A u \in Tasks : Done(u)' => OnDisk(task[u].payload.revision)'
  <2>1. Base' = active /\ active \in D!Staged(t)
    BY <1>s, <1>2 DEF D!ReloadOk, D!Return, PhaseShape, Base
  <2>2. active # Missing
    BY <2>1, <1>s, StagedDir, ConfigAssumption
  <2>3. active.files.revision = n
    BY <2>1, <1>3 DEF D!Staged, D!Built
  <2>4. revision' <= n /\ \A u \in Tasks : Done(u)' => task'[u].payload.revision <= n
    BY <1>8
  <2>5. revision' \in Nat /\ \A u \in Tasks : task'[u].payload.revision \in Nat
    BY <1>1, Revisions
  <2> QED
    BY <2>1, <2>2, <2>3, <2>4, <2>5, <1>4 DEF OnDisk
<1>12. revision' <= latest'
  BY <1>1 DEF Ordered
<1> QED
  BY <1>9, <1>10, <1>11, <1>12 DEF Ordered, Above

(* Every other step keeps what is received in order and what is applied on *)
(* disk.                                                                   *)
LEMMA OrderedOther ==
  ASSUME Shape, Ordered, [Next]_vars, \A t \in Tasks : ~D!ReloadOk(t)
  PROVE  Ordered'
<1> DEFINE Up(m) == revision' <= m /\ \A u \in Tasks : Done(u)' => task'[u].payload.revision <= m
<1>n. Shape' /\ PanelInv /\ [PanelNext]_(P!vars) /\ latest <= latest' /\ DirInv /\ [D!Next]_(D!vars)
  BY ShapeStep, PanelSteps, PanelKept, DirSteps DEF Shape, TableGrows
<1>r. /\ revision \in Nat /\ latest \in Nat /\ revision' \in Nat /\ latest' \in Nat
      /\ \A t \in Tasks : task[t].payload.revision \in Nat
      /\ \A h \in Handlers : reqs[h].payload.revision \in Nat
      /\ \A t \in Tasks : Done(t) => task[t].payload.revision <= latest
  <2>1. revision' \in Nat /\ latest' \in Nat
    BY <1>n, ConfigAssumption DEF Shape, AgentTypes, PanelInv, P!TypeOK
  <2> QED
    BY <2>1, Revisions DEF Done, Concerned
<1>a. \A m \in Nat : Above(m) => Up(m)
  BY AboveKept DEF Reloads, Above
<1>f. \A t \in Tasks : Done(t)' => Done(t) /\ task'[t].payload = task[t].payload
  BY DoneFollows DEF Reloads
<1>1. revision' <= latest'
  <2>1. revision' <= latest
    BY <1>r, RevisionClaims DEF Ordered
  <2> QED
    BY <2>1, <1>n, <1>r
<1>2. ASSUME NEW t \in Tasks, task'[t].stage \in Concerned, task'[t].live
      PROVE  Up(task'[t].payload.revision)
  <2>1. task'[t] # Free
    BY <1>2 DEF Free, Concerned
  <2>2. task[t].live
    BY <1>2, <2>1, TaskFollows
  <2>3. CASE task[t].stage \in Concerned /\ task'[t].payload = task[t].payload
    BY <2>2, <2>3, <1>a, <1>r DEF Ordered
  <2>4. ASSUME NEW h \in Handlers, reqs[h].caller = t, reqs[h].reply = "batch",
               task'[t].payload = reqs[h].payload
        PROVE  Up(task'[t].payload.revision)
    <3>1. Above(reqs[h].payload.revision)
      BY <2>2, <2>4 DEF Ordered, Carries
    <3> QED
      BY <2>4, <3>1, <1>a, <1>r
  <2> QED
    BY <1>2, <2>1, <2>3, <2>4, TaskFollows
<1>3. ASSUME NEW h \in Handlers, Carries(reqs'[h]), reqs'[h].caller \in Tasks, task'[reqs'[h].caller].live
      PROVE  Up(reqs'[h].payload.revision)
  <2> DEFINE t == reqs'[h].caller
  <2>1. task'[t].stage \in Calling
    BY <1>n, <1>3 DEF Shape, CallsFit, CallFits
  <2>2. task[t].live
    <3>1. task'[t] # Free
      BY <2>1 DEF Free, Calling
    <3> QED
      BY <1>3, <3>1, TaskFollows
  <2>3. Bears(reqs'[h], h)
    BY <1>n, ReqsFollow DEF Follows
  <2>4. CASE Carries(reqs[h]) /\ reqs'[h].caller = reqs[h].caller /\ reqs'[h].payload = reqs[h].payload
    <3>1. Above(reqs[h].payload.revision)
      BY <1>3, <2>2, <2>4 DEF Ordered
    <3> QED
      BY <2>4, <3>1, <1>a, <1>r
  <2>5. CASE reqs'[h].payload.revision = latest
    <3>1. Above(latest)
      BY <1>r DEF Ordered, Above
    <3> QED
      BY <2>5, <3>1, <1>a, <1>r
  <2> QED
    BY <1>3, <2>3, <2>4, <2>5 DEF Bears
<1>4. ASSUME ~torn'
      PROVE  OnDisk(revision)' /\ \A t \in Tasks : Done(t)' => OnDisk(task[t].payload.revision)'
  <2>1. \A x \in Txns : D!ReloadOk(x) => request[x].mode = "patch"
    <3>1. ASSUME D!ReloadOk(Injector) PROVE request[Injector].mode = "patch"
      <4>1. phase[Injector] # "idle"
        BY <3>1 DEF D!ReloadOk
      <4>2. request[Injector] = [mode |-> "patch", version |-> P!NoPayload, config |-> injection.config]
        BY <4>1 DEF Shape, TxnsFit
      <4> QED
        BY <4>2
    <3> QED
      BY <3>1 DEF Txns
  <2>2. ~torn /\ (Base = Missing \/ (Base' # Missing /\ Base'.files = Base.files))
    BY <1>4, <2>1, <1>n, BaseKept
  <2>3. \A m \in Nat : OnDisk(m) => OnDisk(m)'
    BY <2>2 DEF OnDisk
  <2>4. OnDisk(revision) /\ \A t \in Tasks : Done(t) => OnDisk(task[t].payload.revision)
    BY <2>2 DEF Ordered
  <2>5. \A t \in Tasks : Done(t)' => OnDisk(task[t].payload.revision)'
    <3> SUFFICES ASSUME NEW t \in Tasks, Done(t)' PROVE OnDisk(task[t].payload.revision)'
      OBVIOUS
    <3> DEFINE m == task[t].payload.revision
    <3>1. OnDisk(m) /\ m \in Nat /\ task'[t].payload.revision = m
      BY <1>f, <1>r, <2>4
    <3>2. \A k \in Nat : k > 0 /\ OnDisk(k) => Base' # Missing /\ Base'.files.revision >= k
      BY <2>3 DEF OnDisk
    <3> HIDE DEF m
    <3> QED
      BY <3>1, <3>2 DEF OnDisk
  <2>6. OnDisk(revision)'
    <3>1. \A k \in Nat : k > 0 /\ OnDisk(k) => Base' # Missing /\ Base'.files.revision >= k
      BY <2>3 DEF OnDisk
    <3>2. OnDisk(revision') \/ revision' = 0
      BY RevisionClaims, <2>4
    <3> QED
      BY <1>r, <3>1, <3>2 DEF OnDisk
  <2> QED
    BY <2>5, <2>6
<1> QED
  BY <1>1, <1>2, <1>3, <1>4 DEF Ordered, Above

(* The revision the agent believes to have, or a later one, is on disk.    *)
THEOREM OnDiskTheorem == Spec => []RevisionOnDisk
<1>1. Init => Ordered
  BY DEF Init, D!Init, P!Init, P!Idle, Free, Ordered, Done, Above, OnDisk, Carries, Concerned
<1>2. Ordered => RevisionOnDisk
  BY DEF Ordered, RevisionOnDisk, OnDisk, Base
<1>3. Shape /\ Ordered /\ [Next]_vars => Ordered'
  BY OrderedReload, OrderedOther
<1> QED
  BY <1>1, <1>2, <1>3, Shaped, PTL DEF Spec
=============================================================================
