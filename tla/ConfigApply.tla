----------------------------- MODULE ConfigApply -----------------------------
(***************************************************************************)
(* The delivery of a configuration to an agent: the panel's apply runs     *)
(* (ApplyRuns), the agent's sync (agent/service/agent_sync.go and          *)
(* agent/configcenter/applier.go, SyncOnce) and the transaction on its     *)
(* directory (StagedApply).                                                *)
(*                                                                         *)
(* The agent's sync loop submits a task to the command queue, one at a     *)
(* time: a gate is taken before the submission and given back when the     *)
(* task's handler returns, or two minutes after the submission by a        *)
(* watchdog, whichever comes first.  The task asks the panel for a batch   *)
(* beyond the revision the agent had when it was submitted, tells the      *)
(* panel that it applies, runs the transaction, reports the result, and    *)
(* keeps the new revision once the panel has accepted a success.  The      *)
(* revision is in memory: a restarted agent starts again from zero.        *)
(* Meanwhile the users the panel sends are written into config.json by a   *)
(* transaction of their own.                                               *)
(*                                                                         *)
(* Abstractions.  The queue has one worker (its default) and room; other   *)
(* commands in it only delay these.  What a handler does after its last    *)
(* answer is one step.  The core is reloaded by a command (service_action  *)
(* is not none), which fails once the task's context has ended.            *)
(***************************************************************************)
EXTENDS Naturals, Sequences, FiniteSets

CONSTANTS Tasks, Injector, NoTask,
          MaxRuns, MaxRevisions, MaxEdits, Handlers,
          Missing,
          Merges,         \* the core is xray, whose config.json is merged
          MaxUpsets,      \* bound: crashes, failures, cancels and operators' requests
          MaxInjections   \* bound: injections of users

VARIABLES runs, latest, artifacts, policy, reqs,
          active, lock, phase, request, before, backup, outcome, torn,
          gate,           \* batchSyncInFlight
          revision,       \* applyRevision
          queue,          \* the tasks that wait for the worker
          worker,         \* the task the worker runs
          task,           \* [Tasks -> Task]
          injection,      \* the injection of users: how far, and the config.json it has read
          upsets, injections,
          applied,        \* history: the runs whose transaction succeeded
          confirmed,      \* history: the revisions a run of which became a success
          reopened,       \* history: the runs that had ended and were opened again
          raced           \* history: the directory changed under an injection

P == INSTANCE ApplyRuns WITH Callers <- Tasks, NoCaller <- NoTask
D == INSTANCE StagedApply
       WITH Txns <- Tasks \cup {Injector}, Versions <- P!Payload, NoVersion <- P!NoPayload,
            Nobody <- NoTask

ASSUME ConfigAssumption ==
  /\ Injector \notin Tasks /\ NoTask \notin Tasks \cup {Injector}
  /\ Missing \notin D!Dirs
  /\ Merges \in BOOLEAN
  /\ {MaxRuns, MaxRevisions, MaxEdits, MaxUpsets, MaxInjections} \subseteq Nat

panel  == <<runs, latest, artifacts, policy, reqs>>
dir    == <<active, lock, phase, request, before, backup, outcome, torn>>
agent  == <<gate, revision, queue, worker, task>>
users  == <<injection, injections>>
others == <<upsets, applied, confirmed, reopened, raced>>
vars   == <<panel, dir, agent, users, others>>
-----------------------------------------------------------------------------
Calling == {"fetching", "announcing", "reporting"}

Task == [stage : {"none", "queued", "applying"} \cup Calling,
         cur : 0..MaxRevisions, run : 0..MaxRuns, payload : P!Payload \cup {P!NoPayload},
         status : P!Terminal \cup {"none"}, released : BOOLEAN, live : BOOLEAN]

Free == [stage |-> "none", cur |-> 0, run |-> 0, payload |-> P!NoPayload,
         status |-> "none", released |-> FALSE, live |-> TRUE]

NoInjection == [stage |-> "idle", config |-> {}]

Init ==
  /\ P!Init /\ D!Init
  /\ gate = FALSE /\ revision = 0 /\ queue = <<>> /\ worker = NoTask
  /\ task = [t \in Tasks |-> Free]
  /\ injection = NoInjection
  /\ upsets = 0 /\ injections = 0
  /\ applied = {} /\ confirmed = {} /\ reopened = {} /\ raced = FALSE

Upset == upsets < MaxUpsets /\ upsets' = upsets + 1

Goto(t, stage) == task' = [task EXCEPT ![t].stage = stage]

(* The panel's requests that t waits for.                                  *)
CallsOf(t) == {h \in Handlers : reqs[h].caller = t}

MayCall(t) == task[t].live /\ CallsOf(t) = {}

Answered(t, h) == reqs[h].caller = t /\ reqs[h].pc = "reply"

(* Mutant: the handler gives the gate back even if the watchdog has.       *)
GateAlwaysFreed(t) == FALSE

(* releaseCAS: only its first call gives the gate back.                    *)
GateFreed(t) == task[t].released /\ gate

(* The handler of t returns.                                               *)
HandlerReturns(t) ==
  /\ gate' = GateFreed(t)
  /\ worker' = IF worker = t THEN NoTask ELSE worker
  /\ task' = [task EXCEPT ![t] = Free]
  /\ UNCHANGED queue
-----------------------------------------------------------------------------
(* syncApplyBatch: take the gate, read the revision, submit.               *)
Submit(t) ==
  /\ ~gate
  /\ task[t].stage = "none"
  /\ gate' = TRUE
  /\ task' = [task EXCEPT ![t].stage = "queued", ![t].cur = revision]
  /\ queue' = Append(queue, t)
  /\ UNCHANGED <<panel, dir, revision, worker, users, others>>

(* The worker takes the next task, which asks the panel for a batch.       *)
Start(t) ==
  /\ worker = NoTask
  /\ queue # <<>> /\ Head(queue) = t
  /\ worker' = t
  /\ queue' = Tail(queue)
  /\ Goto(t, "fetching")
  /\ UNCHANGED <<panel, dir, gate, revision, users, others>>

(* The watchdog: two minutes since the submission.                         *)
Watchdog(t) ==
  /\ task[t].stage # "none" /\ ~task[t].released
  /\ task' = [task EXCEPT ![t].released = TRUE]
  /\ gate' = FALSE
  /\ UNCHANGED <<panel, dir, revision, queue, worker, users, others>>

(* The task has run for thirty minutes: its context ends and the worker    *)
(* goes on; the handler does not stop.                                     *)
Abandon(t) ==
  /\ worker = t /\ task[t].released
  /\ Upset
  /\ worker' = NoTask
  /\ task' = [task EXCEPT ![t].live = FALSE]
  /\ UNCHANGED <<panel, dir, gate, revision, queue, users, applied, confirmed, reopened, raced>>
-----------------------------------------------------------------------------
GetBatch(t, h) ==
  /\ task[t].stage = "fetching" /\ MayCall(t)
  /\ P!GetApplyBatch(h, t, task[t].cur)
  /\ UNCHANGED <<dir, agent, users, others>>

NotModified(t, h) ==
  /\ task[t].stage = "fetching" /\ Answered(t, h) /\ reqs[h].reply = "not_modified"
  /\ P!Taken(h)
  /\ HandlerReturns(t)
  /\ UNCHANGED <<runs, latest, artifacts, policy, dir, revision, users, others>>

(* A batch has come and is valid; or it is not, and that is reported.      *)
BatchReceived(t, h) ==
  /\ task[t].stage = "fetching" /\ Answered(t, h) /\ reqs[h].reply = "batch"
  /\ P!Taken(h)
  /\ LET received == [task[t] EXCEPT !.run = reqs[h].run, !.payload = reqs[h].payload]
     IN  \/ /\ task' = [task EXCEPT ![t] = [received EXCEPT !.stage = "announcing"]]
            /\ UNCHANGED upsets
         \/ /\ Upset
            /\ task' = [task EXCEPT ![t] = [received EXCEPT !.stage = "reporting", !.status = "failed"]]
  /\ UNCHANGED <<runs, latest, artifacts, policy, dir, gate, revision, queue, worker,
                 users, applied, confirmed, reopened, raced>>

(* reportApplyResult, the call: "applying" before, the result after.       *)
Report(t, h) ==
  /\ task[t].stage \in {"announcing", "reporting"} /\ MayCall(t)
  /\ P!ReportFind(h, t, task[t].run, IF task[t].stage = "announcing" THEN "applying" ELSE task[t].status)
  /\ UNCHANGED <<dir, agent, users, others>>

(* applyBatch begins, whatever became of the report.                       *)
BeginApply(t) ==
  /\ D!Ask(t, [mode |-> "snapshot", version |-> task[t].payload, config |-> {}])
  /\ Goto(t, "applying")
  /\ UNCHANGED <<gate, revision, queue, worker>>

Announced(t, h) ==
  /\ task[t].stage = "announcing" /\ Answered(t, h)
  /\ P!Taken(h)
  /\ BeginApply(t)
  /\ UNCHANGED <<runs, latest, artifacts, policy, users, others>>

(* Mutant: a configuration that was rolled back counts as a success.       *)
ResultUnlessFailed(t) == IF outcome[t] = "failed" THEN "failed" ELSE "success"

ResultOf(t) == IF outcome[t] = "ok" THEN "success" ELSE outcome[t]

(* The transaction has returned.                                           *)
Applied(t) ==
  /\ task[t].stage = "applying" /\ phase[t] = "idle"
  /\ task' = [task EXCEPT ![t].stage = "reporting", ![t].status = ResultOf(t)]
  /\ applied' = IF outcome[t] = "ok" THEN applied \cup {task[t].run} ELSE applied
  /\ UNCHANGED <<panel, dir, gate, revision, queue, worker, users, upsets, confirmed, reopened, raced>>

(* Mutant: the revision is kept whatever the result.                       *)
RevisionAlways(t, reply) == task[t].payload.revision

(* SyncOnce returns the new revision only if a success was accepted.       *)
RevisionAfter(t, reply) ==
  IF task[t].status = "success" /\ reply = "accepted" THEN task[t].payload.revision ELSE revision

Reported(t, h) ==
  /\ task[t].stage = "reporting" /\ Answered(t, h)
  /\ revision' = RevisionAfter(t, reqs[h].reply)
  /\ P!Taken(h)
  /\ HandlerReturns(t)
  /\ UNCHANGED <<runs, latest, artifacts, policy, dir, users, others>>

(* A call fails on its way and is tried again; what it asked for may be    *)
(* done, or may yet be done.                                               *)
CallLost(t) ==
  /\ Upset
  /\ task[t].stage \in Calling /\ CallsOf(t) # {}
  /\ P!Orphaned({t})
  /\ UNCHANGED <<runs, latest, artifacts, policy, dir, agent, users, applied, confirmed, reopened, raced>>

(* What t does when a call has failed for good.                            *)
CallGivenUp(t) ==
  /\ task[t].stage \in Calling
  /\ P!Orphaned({t})
  /\ IF task[t].stage = "announcing" THEN BeginApply(t)
     ELSE HandlerReturns(t) /\ UNCHANGED <<dir, revision>>
  /\ UNCHANGED <<runs, latest, artifacts, policy, users, applied, confirmed, reopened, raced>>

(* The last attempt fails too.                                             *)
CallFails(t) == Upset /\ CallGivenUp(t)

(* The context of the task has ended.                                      *)
CallCancelled(t) == ~task[t].live /\ CallGivenUp(t) /\ UNCHANGED upsets
-----------------------------------------------------------------------------
(* InjectUsers: read config.json, without applyMu,                         *)
InjectRead ==
  /\ injection.stage = "idle" /\ injections < MaxInjections
  /\ active # Missing /\ active.config # {}
  /\ injection' = [stage |-> "read", config |-> active.config]
  /\ injections' = injections + 1
  /\ UNCHANGED <<panel, dir, agent, others>>

(* and write it, with the users, by a transaction that patches it.         *)
InjectApply ==
  /\ injection.stage = "read"
  /\ D!Ask(Injector, [mode |-> "patch", version |-> P!NoPayload, config |-> injection.config])
  /\ injection' = [injection EXCEPT !.stage = "applying"]
  /\ UNCHANGED <<panel, agent, injections, others>>

InjectEnds ==
  /\ injection.stage = "applying" /\ phase[Injector] = "idle"
  /\ injection' = NoInjection
  /\ UNCHANGED <<panel, dir, agent, injections, others>>

(* An injection has read config.json and does not hold the lock yet.       *)
InjectionExposed ==
  injection.stage = "read" \/ (injection.stage = "applying" /\ phase[Injector] = "waiting")

(* The directory changes between the read of an injection and its stage.   *)
Race == raced' = (raced \/ (InjectionExposed /\ active' # active))

(* Mutant: the reload does not depend on the context.                      *)
MayReloadAlways(x) == TRUE

(* The core is reloaded only while the task's context lives.               *)
MayReload(x) == x \in Tasks => task[x].live

TxnStep(x) ==
  /\ phase[x] = "switched" => MayReload(x)
  /\ D!Step(x) /\ Race
  /\ UNCHANGED <<panel, agent, users, upsets, applied, confirmed, reopened>>

TxnFails(x) ==
  /\ Upset
  /\ D!Failure(x) /\ Race
  /\ UNCHANGED <<panel, agent, users, applied, confirmed, reopened>>

ReloadCancelled(x) ==
  /\ ~MayReload(x)
  /\ D!ReloadFails(x) /\ Race
  /\ UNCHANGED <<panel, agent, users, upsets, applied, confirmed, reopened>>
-----------------------------------------------------------------------------
(* What goes on at the panel by itself.                                    *)
PanelStep(h) ==
  /\ P!CreateApplyRun(h) \/ P!UpdateStatus(h)
  /\ confirmed' = confirmed \cup {runs'[r].revision : r \in {s \in P!RunIds' : runs'[s].status = "success"}}
  /\ reopened' = reopened \cup {r \in P!RunIds : runs[r].status \in P!Terminal /\ runs'[r].status \in P!Open}
  /\ UNCHANGED <<dir, agent, users, upsets, applied, raced>>

PanelChange ==
  /\ P!Publish \/ P!EditPolicy
  /\ UNCHANGED <<dir, agent, users, others>>

(* A statement fails; an operator asks for or cancels a run; runs expire.  *)
PanelUpset(h) ==
  /\ Upset
  /\ \/ P!WriteFails(h)
     \/ \E r \in 1..latest : P!OperatorPrepare(h, r)
     \/ \E r \in P!RunIds : P!CancelFind(h, r)
     \/ \E k \in P!RunIds : P!ExpireStale(k)
  /\ UNCHANGED <<dir, agent, users, applied, confirmed, reopened, raced>>

(* The agent dies and is started again.                                    *)
Crash ==
  /\ Upset
  /\ gate' = FALSE /\ revision' = 0 /\ queue' = <<>> /\ worker' = NoTask
  /\ task' = [t \in Tasks |-> Free]
  /\ injection' = NoInjection
  /\ D!Die
  /\ P!Orphaned(Tasks)
  /\ UNCHANGED <<runs, latest, artifacts, policy, injections, applied, confirmed, reopened, raced>>

AgentStep(t) ==
  \/ Submit(t) \/ Start(t) \/ Applied(t) \/ CallCancelled(t)
  \/ \E h \in Handlers :
       \/ GetBatch(t, h) \/ NotModified(t, h) \/ BatchReceived(t, h)
       \/ Report(t, h) \/ Announced(t, h) \/ Reported(t, h)

InjectUsers == InjectRead \/ InjectApply \/ InjectEnds

Next ==
  \/ \E t \in Tasks : AgentStep(t) \/ Watchdog(t) \/ Abandon(t) \/ CallLost(t) \/ CallFails(t)
  \/ \E x \in Tasks \cup {Injector} : TxnStep(x) \/ TxnFails(x) \/ ReloadCancelled(x)
  \/ \E h \in Handlers : PanelStep(h) \/ PanelUpset(h)
  \/ InjectUsers \/ PanelChange \/ Crash

Spec == Init /\ [][Next]_vars

(* The sync loop ticks, the worker takes tasks, handlers and transactions  *)
(* run to their end, and the panel answers.                                *)
Fairness ==
  /\ WF_vars(\E t \in Tasks : Submit(t))
  /\ \A t \in Tasks : WF_vars(AgentStep(t) /\ task[t].stage # "none")
  /\ \A x \in Tasks \cup {Injector} : WF_vars(TxnStep(x) \/ ReloadCancelled(x))
  /\ \A h \in Handlers : WF_vars(PanelStep(h))
  /\ WF_vars(InjectApply \/ InjectEnds)

FairSpec == Spec /\ Fairness
-----------------------------------------------------------------------------
TypeOK ==
  /\ P!TypeOK /\ D!TypeOK
  /\ gate \in BOOLEAN
  /\ revision \in 0..MaxRevisions
  /\ queue \in Seq(Tasks) /\ worker \in Tasks \cup {NoTask}
  /\ task \in [Tasks -> Task]
  /\ injection \in [stage : {"idle", "read", "applying"}, config : SUBSET P!Payload]
  /\ upsets \in 0..MaxUpsets /\ injections \in 0..MaxInjections
  /\ applied \subseteq P!RunIds /\ confirmed \subseteq 1..MaxRevisions
  /\ reopened \subseteq P!RunIds
  /\ raced \in BOOLEAN

(* A directory that was there when a transaction began is active or kept   *)
(* as its backup at every moment of it (staged_apply.go).                  *)
NothingLost == D!NothingLost

(* A transaction that does not succeed leaves the directory it found,      *)
(* unless there was none, or bringing it back failed.                      *)
FailureRestores == D!FailureRestores

(* The gate of agent_sync.go is taken exactly as long as there is a task   *)
(* whose handler or watchdog has not given it back, and there is at most   *)
(* one such task, although handlers run on after the watchdog.             *)
GateExact ==
  LET owners == {t \in Tasks : task[t].stage # "none" /\ ~task[t].released}
  IN  Cardinality(owners) = (IF gate THEN 1 ELSE 0)

(* The panel takes a run for a success only if the agent's transaction for *)
(* that run has gone through: whatever is lost, repeated, cancelled,       *)
(* expired or applied twice on the way.                                    *)
SuccessEarned == \A r \in P!RunIds : runs[r].status = "success" => r \in applied

(* The revision the agent believes to have is on its disk, or a later one, *)
(* whenever no transaction is under way and none was torn: so also when an *)
(* abandoned task applies an older batch beside its successor.             *)
RevisionOnDisk ==
  revision > 0 /\ lock = NoTask /\ ~torn =>
    active # Missing /\ active.files.revision >= revision

(* Between transactions config.json is not behind the other files: merged, *)
(* it has the batch they come from in it, whatever is left of older ones;  *)
(* otherwise it comes from that batch alone.  Unless the directory changed *)
(* between the read and the write of an injection of users, which reads it *)
(* outside applyMu.                                                        *)
ConfigCurrent ==
  lock = NoTask /\ active # Missing /\ ~raced =>
    IF Merges THEN active.files \in active.config
              ELSE active.config \subseteq {active.files}

(* A request that is about to make a run looked for an open one, and none  *)
(* that was there then is open now: two runs of a revision are open at     *)
(* once only if the requests that made them overlapped, or a late report   *)
(* of progress, which had read the run before it ended, has opened it      *)
(* again.                                                                  *)
OpenRunFound ==
  \A h \in Handlers : reqs[h].pc = "create" =>
    \A r \in P!RunIds : runs[r].revision = reqs[h].payload.revision /\ runs[r].status \in P!Open
                         => r > reqs[h].since \/ r \in reopened

(* The agent takes a revision for its own only if the panel has recorded   *)
(* one of its runs as a success: not after a cancel or an expiry that came *)
(* first, although the configuration is in place.                          *)
RevisionConfirmed == revision > 0 => revision \in confirmed

(* The end of a run is overwritten only by the rollback of a failure, or   *)
(* by a request that had read the run before it ended: UpdateStatus does   *)
(* not look at the status again.                                           *)
EndKept ==
  [][\A r \in P!RunIds :
       runs[r].status \in P!Terminal /\ runs'[r].status # runs[r].status =>
         \/ runs[r].status = "failed" /\ runs'[r].status = "rolled_back"
         \/ \E h \in Handlers : reqs[h].pc = "update" /\ reqs[h].run = r
                               /\ reqs[h].seen # runs[r].status]_vars

(* Once the upsets are over the agent ends up with the latest revision, in *)
(* memory and on disk, and stays there: unless two renames of one          *)
(* transaction have failed, a death in the middle of one is repaired.      *)
Converges ==
  <>[](latest > 0 => /\ revision = latest
                     /\ torn \/ (active # Missing /\ active.files.revision = latest))

(* What PrepareApplyRun says of an apply (config_center_apply.go:213):     *)
(* every apply renders the artifacts of its revision again, because a      *)
(* change of a global policy would otherwise never be delivered.  So the   *)
(* batch that is sent is not older than what its preparation has rendered. *)
SentAsRendered ==
  \A h \in Handlers : reqs[h].op = "batch" /\ reqs[h].reply = "batch" =>
    reqs[h].payload.version >= artifacts[reqs[h].payload.revision]
=============================================================================
