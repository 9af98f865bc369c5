# Verification of mgpanel

TLA+ models of mgpanel, TLC runs that check them on small instances, and TLAPS
proofs that carry the main results to every instance. mgpanel is a panel for
fleets of proxy servers: a **panel** (Go, gRPC and HTTP, SQLite) keeps what
should be, an **agent** on every host polls the panel, changes its host, and
reports. There is no message from the panel to an agent but the answers to the
agent's own requests, so whatever the panel wants done is a row in a table that
an agent claims, works on and reports about.

## 1. The system

### 1.1 Components

| Component | State | Operations | What is hard |
|---|---|---|---|
| Agent operations table (`service/agent_lifecycle_operation.go`, `repository/sqlite/...`) | rows: status, claimed_by, claimed_at, started_at, finished_at, result | Create, ClaimNext, Report, DeleteOlderThan | Report reads, checks, then updates by another statement; two-minute claims; late reports |
| Agent command queue (`agent/command/queue.go`) | channel of tasks (8), channel of slots (8), `inflight`, one worker | Register, Submit, Start, Stop, Stats | Submit races Stop; handlers that outlive their deadline; slots given back on several paths |
| Agent command loop (`agent/service/agent_command.go`) | nothing of its own: the response at hand | poll, submit, report | lost responses and reports, restarts, room read before it is used |
| Core operations table (`service/agent_core_operation.go`) | rows: status, claimed_by, claimed_at, payloads | Create, ClaimNext, ReportResult | written by id alone |
| Agent core operation loop (`agent/service/core_operation.go`) | the gate `coreOperationSyncInFlight` | fetch, submit, execute, report | one gate, taken and given back in different goroutines; timeouts |
| Config apply runs (`service/config_center_apply.go`) | runs with status, target revision; artifacts of each revision | prepare, get batch, cancel, report, expire | look, then create; updates by id alone; late reports |
| Config apply on the agent (`protocol/staged_apply.go`, `protocol/manager.go`, `service/agent_sync.go`) | staging, active and backup directories, the revision in memory, the batch gate and its watchdog | fetch, stage, validate, switch, reload, roll back, inject users | crash between two renames; watchdog against a running task; config.json read outside the lock |
| Async task queues (`async/*.go`) | bounded channels, counters, Stop | Enqueue, worker, drain | Enqueue against Stop; overflow policies |
| Traffic accounting (`service/user_traffic.go`, `service/traffic_report_dedup.go`, `job/stat_user_accumulator.go`, ...) | seen reports, rows of users and of their periods, a cache of users, accumulators | report, flush, save a user, change a quota, nightly reset | repeated reports, mark and charge in two transactions, whole rows saved from old copies |
| Job scheduler (`job/scheduler.go`) | per-job running flags | tick, timeout | skip when busy |
| Core manager, proxy switcher (`agent/core`, `agent/proxy`) | instances, ports | start, probe, switch, drain | half-done switches |
| Self-update (`agent/updater`, `service/agent_update.go`) | the binary, its backups, the state file and its copy in memory | check, back up, replace, record, exec, confirm, count startups, roll back | deaths between any two steps; who confirms; a status overwritten while it is waited on |
| Pushed configuration (`agent/service/push_config.go`) | configuration file | write, restart | restart before the result is reported |
| gRPC client and retries (`agent/transport`) | connection, retry budget | call | a call may be served more than once, and after its caller has given up |
| SQLite access (`repository/sqlite/retry.go`) | the database | statements, transactions | a statement may fail after all its retries |
| Operation guard, operation log | audit and event lines | check, append | appending fails after the row is written |
| Config compilation, drift, subscriptions | none | pure functions over rows | large and wordy, sequential |
| Status, metrics, probes, mesh, routes | caches | periodic reports | last writer wins |
| Accounts, HTTP API, CDN, GeoIP, MCP, TUI, notifications, web, deployment | rows | CRUD and I/O | no protocol between actors |

`PROJECT.json` lists the same components with their files and what of each is
modelled, and under `hazards` the places in the code where something can go
wrong that a test would hardly reach, with the properties that cover them.

### 1.2 How they interact

    administrator --Create--> operations table  <--ClaimNext-- GetAgentCommands <--+
                                   ^                                             | poll
                                   +-- Report <-- ReportAgentCommandEvent <--+   |
                                                                             |   |
    agent:   command loop --Submit--> queue --handler goroutine--> host      |   |
                  |                     +-- accepted / progress / result ----+   |
                  +--------------------------------------------------------------+

Core operations take the same way through a second table and the same queue;
the queue's own events about them are dropped, and the task's handler sends the
report itself. Configuration applies are tasks of that queue too: the handler
asks for a batch, reports "applying", swaps a directory and reports the result,
by which the panel keeps its table of apply runs. Traffic goes the other way:
the agent reads its counters, which sets them to zero, and repeats a report until
it is answered; the panel charges the user's row and that of the period in one
transaction, while administrators, logins and a nightly job write the same rows.
So the queue is
where everything that changes a host meets, and the tables are where
everything that is promised to an administrator is kept. That is why they come
first here.

What makes it correct, component by component:

* *Tables*: an operation is decided at most once; what is decided does not
  change; the timestamps and the owner agree with the status; only the claimant
  decides; the log says what the row says.
* *Queue*: what is accepted is answered, once, within the deadlines, and never
  with `queue_full`; channel, slots, `inflight` and workers agree; Stop returns.
* *Agent and panel together*: the panel shows as ended only what the agent has
  ended so; a command comes a second time only after its claim has run out;
  nothing is forgotten between the two; two core operations never run at a time.
* *Configuration*: the directory is never lost between two renames; what fails
  leaves the old configuration; the panel takes for a success only what was
  applied; the revision in memory is on the disk; in the end the latest is.
* *Self-update*: a version that does not work leaves the disk again; a promised
  rollback can be done; the state file tells what is installed.
* *Traffic*: each report is charged once or not at all, whoever else writes;
  period, user and statistics agree; whoever is over the quota is suspended.

## 2. Modules

| Module | Models | Extended / used by |
|---|---|---|
| `OperationLedger` | abstract: a task is opened once, decided at most once, then unchanged until purged | instantiated by `LifecycleOps`, `CommandQueue` |
| `LifecycleOps` | the operations table and its service | `LifecycleOps_proofs`, `MCLifecycleOps`, `AgentCommands` |
| `CommandQueue` | the agent's queue | `CommandQueue_proofs`, `MCCommandQueue`, `AgentCommands`, `AgentCoreOps` |
| `AgentCommands` | the command loop between the two, over unreliable RPCs, with crashes | `AgentCommands_proofs`, `MCAgentCommands` |
| `CoreOps` | the core operations table | `AgentCoreOps` |
| `AgentCoreOps` | gate, fetch, submission, execution and report of core operations | `AgentCoreOps_proofs`, `MCAgentCoreOps` |
| `StagedApply` | the transaction that swaps the agent's configuration directory, system call by system call | `ConfigApply` |
| `ApplyRuns` | the panel's apply runs, each request with its read apart from its write | `ConfigApply` |
| `ConfigApply` | the agent's sync between the two: gate, watchdog, SyncOnce, injection of users, crashes | `MCConfigApply`, `ConfigApply_proofs`, `ConfigApply_theorems` |
| `UserTraffic` | what a user is charged for, and everybody who writes it | `UserTraffic_proofs`, `MCUserTraffic` |
| `Updater` | the self-update of the agent across restarts of its process | `Updater_proofs`, `MCUpdater` |
| `*_proofs` | theorems and their proofs | |
| `MC*` | constants of the runs | |

### LifecycleOps

`ops[n]` is the row of the n-th operation created; ClaimNext orders by
`created_at, id`, so numbers in order of creation stand for ids. `claimed_at` is
compared only with `now - timeout`, so it is kept as a `lease`: `live` from the
claim on, `expired` after `LeaseExpire`, which may happen at any time. Handlers
are the `Report` requests the panel serves concurrently.

| Action | Code |
|---|---|
| `Create` | Create; the guard before it only writes an audit line |
| `ClaimNext` | one transaction: select the oldest claimable rows, stamp each |
| `ReportFind`, `ReportUpdate`, `ReportLog` | Report: read and check; `UpdateClaimedStatus`; append to the log |
| `ReportUpdateFails` | that statement fails after all retries, or the request is cancelled |
| `Purge` | `DeleteOlderThan`, by age alone |

A Report is three steps because it is three statements without a transaction:
between them another report, a reclaim or the purge may change the row. This is
where the properties bite. The request writes the `started_at` and
`finished_at` that it has worked out from the first read, and only the WHERE
clause of the update (same claimant, not terminal) stands between a stale read
and the row.

### CommandQueue

One submission is one call of Submit; several may carry one command id. Its
`stage` says how far the call, and after it the task, has come:

    new -> admitted -> accepting -> pushing -> queued -> running -> reporting -> leaving -> done
            |   (slot)                                    (worker, and a handler goroutine: body)
            +-> refusing -> refused                       unsupported types go there from new

Each stage ends at an access to shared state or at a report RPC, so calls,
workers and Stop interleave there. A handler is a goroutine of its own: `Finish`
answers with its result, or `timeout`, or `cancelled` once the context is done,
and leaves a handler that has not returned running on its own.

### AgentCommands

`LifecycleOps` and `CommandQueue` side by side, with the loop between them: a
`Poll` reads the room of the queue, claims that many rows and receives them
(`inbox`); `PollLost` claims and receives nothing; `SubmitNext` calls Submit for
each in turn. While a call is `accepting` or `refusing`, a worker `reporting` or
a handler `running`, the matching RPC may reach the panel any number of times
(`Deliver`), or not at all; once it has, the panel's handler goes on whatever
becomes of the agent. `Crash` loses everything the agent has in memory.
`Shutdown` is the orderly end: context done, loop out, Stop.

### CoreOps and AgentCoreOps

The core table differs from the other: a claim takes one row, nobody asks who
reports, and the update names the row by id alone. On the agent, the loop takes
the gate, fetches, submits the operation as an internal task and waits until
Submit has returned; `gate` is given back in three places. The handler
executes, reports with the context of the task, returns. The worker's `timeout`
does not touch the gate.

### StagedApply

A directory is the version its files come from and the set of versions its
`config.json` has parts of, empty when there is no such file; `Missing` is no
directory. For xray (`Merges`) the `config.json` of a batch is not one of its files:
buildMergedOutput lays the inbounds and outbounds of the batch over those of the
legacy directory, which by default is the active one. `Merged` is that: all of the
batch, and any part of what the old one had. As nothing of it may be kept, this
also covers batches on a legacy directory of its own that has no such file. One
transaction goes

    idle -> waiting -> staged -> moved -> switched -> (ReloadOk) idle
                   (applyMu)  (rename) (rename)   \-> removing -> removed -> restored -> idle

| Action | Code |
|---|---|
| `Ask`, `Stage`, `StageFails` | ExecuteStagedApply up to the validation: a snapshot is built from an empty directory and merged, a patch from a copy of the active one (`Built`) |
| `MoveAway`, `Activate`, `ActivateFails` | the two renames of `switchManagedDir`, and the rename back, whose own failure the code ignores (`torn`) |
| `ReloadOk`, `ReloadFails` | the reload of the core; without a backup the failed configuration stays |
| `Remove`, `Restore`, `RollbackFails`, `ReloadAgain` | `rollbackManagedDir` and the second reload |
| `Die` | the process ends between any two system calls |

### ApplyRuns

`runs` is the table, oldest first. A request is served in steps: `GetApplyBatch`
and `OperatorPrepare` end with the look for an open run (`Prepare`), the insert is
`CreateApplyRun`; `ReportFind` and `CancelFind` read and decide, `UpdateStatus`
writes by id alone; `ExpireStale` is the job that fails what is open too long.
`artifacts[r]` is the version of the global policies that revision `r` was last
rendered with; `Prepare` renders it again, after `GetApplyBatch` has read what it
is going to send.

### ConfigApply

Instances of the two and the agent between them. A task is one call of
`syncApplyBatch`; its `stage` follows SyncOnce: `queued` (gate taken, revision
read), `fetching`, `announcing` (the "applying" report), `applying` (the
transaction), `reporting`. A call is lost and repeated (`CallLost`: the panel's
handler goes on, its answer is nobody's), or given up (`CallFails`), and what the
code does then differs by stage. `Watchdog` gives the gate back two minutes after
the submission, `Abandon` ends the task's context while its handler runs on;
from then on calls fail and the core is not reloaded. `InjectRead` and
`InjectApply` are InjectUsers: the read of `config.json` is outside `applyMu`.
`Crash` loses memory, the revision too, and keeps the directory as it is.

### UserTraffic

One user, since no statement for one touches another. A report is marked as
seen (`Mark`, committed by itself), then charged in one transaction (`Batch`, or
`BatchFails`), then counted in memory (`CollectStats`). `EditRead`, `LoginRead`,
`EditForget`, `EditWrite` are the requests that read a user, through the cache or
past it, and save the whole row; `SyncFind` to `SyncSet` are the statements of
SyncQuotaToCurrentPeriod after a change of the quota; `ResetRead`, `ResetCreate`,
`ResetClear` the nightly job; `StatsFlush`, `StatsStore`, `StatsMerge` the statistics
job. `stale` is a history variable: it becomes true when a step writes a column
from a copy that is no longer so, and each step that can do so says when. With
it `RowsAgree` says that stale writes are the only way for the rows to part.

### Updater

On disk are the `binary`, the `backups` and the state `file`; in memory are `st`,
Updater's copy of the file, and `op`, the update the worker of the queue runs:

    none -> checking -> downloading -> replacing -> marking -> announcing -> exec
             (delay)    (beginUpdate)   (backup)    (rename)   (recorded)

| Action | Code |
|---|---|
| `Boot`, `RecordStartup` | the process manager starts the binary; New loads the file, and the startup of a pending version is counted |
| `UpdateStart` to `MarkPending` | Update, one step for each write to disk or state |
| `Exec`, `ExecFails` | handleAgentUpdate executes the new binary, or exits |
| `MarkHealthy` | the panel accepted a status report of the process that runs, be it the new one or not |
| `HealthExpired` | the deadline, looked at in the sync and in the report loop |
| `Check`, `CheckFails`, `UpdateRefused`, `UpdateFails`, `ReportFails` | what else writes the state, or ends an update |
| `Crash`, `BadCrash` | a death of the process; a bad version may die as often as it is started, also before it has counted its startup |

Every write of the state may fail (`NotSaved`), after which memory and file
differ. `RollbackTo` is the rollback of all callers, with the death between its
copy and its record. `watch` is a history variable: it is `lost` when an update
that waited is forgotten (by a check or another update, by a death or a failed
write between the rename and the record, or by a confirmation of the old process),
and comes back with the next update that is recorded and confirmed.

## 3. The runs

| Run | Question | Bounds | Distinct states |
|---|---|---|---|
| `lifecycle` | Do rows, requests in flight and the log agree; does the table implement the ledger? | 2 operations of two types, 2 hosts, 2 worker ids, 2 requests | 46,822 |
| `lifecycle_progress` | Does the transition table hold of the rows (ProgressKept)? **Violated** | the same | violated after 855 |
| `queue` | Do channel, slots, inflight and workers agree; is everything accepted answered; does Stop return? | 4 calls (two with one id, one unsupported), channels of 2, 1 worker | 140,466 |
| `commands` | Does the panel show only what the agent did; is a command redelivered only late? | 1 command, 2 calls for it, 2 requests, 1 crash, orderly shutdown | 1,323,316 |
| `commands_live` | Does the room that was read stay enough; is every operation begun or ended in the end? | 1 command, 1 internal task, capacity 1, 1 crash | 175,628 |
| `core` | Is the gate exact; are the ends the agent's; is a lost claim recovered? | 1 core operation, 1 other task, 2 requests, 1 crash | 162,988 |
| `core_starved` | Is it with two? **Violated** | 2 core operations, no crash | violated after 2,104 |
| `apply` | Do directory, gate, revision and apply runs agree? | 2 tasks, 2 requests, 3 runs, 2 revisions, 1 upset, 1 injection, merging | 1,195,195 |
| `apply_live` | Does the agent end up with the latest revision? | 2 tasks, 1 request, 5 runs, 1 revision, 2 upsets | 181,497 |
| `apply_stale` | Is a batch as new as what its own preparation rendered? **Violated** | 1 task, 1 request, 1 run, 1 revision, 1 policy change | violated after 52 |
| `user_traffic` | Is each report charged once; do user, period and statistics agree? | 2 reports, 1 request, 2 saves at a time, quotas 1 and 2, 2 months, 3 events | 2,270,616 |
| `updater` | Does the state file tell the truth; can promised rollbacks be done; do bad versions leave? | 3 versions, one of them bad, 3 updates, 2 upsets, 2 startups | 312,555 |

### 3.1 Properties

`LifecycleOps`
* `StampsConsistent`: owner, claim and start are set from the claim on and
  finish exactly when terminal, although a request writes stamps it has worked
  out from an older read.
* `ResultLogTruthful`: the log never names an end the row does not have.
* `PendingOnlyClaimed`: only a claim or the purge takes a row out of `pending`;
  the transition table by itself would let any report do it.
* `ClaimantDecides`: an end is what the claimant of that moment has reported.
* `ImplementsLedger`: refinement of `OperationLedger`.
* `ProgressKept` (violated): `in_progress` does not go back to `claimed`.

`CommandQueue`
* `Accounting`: `tasks` lists what waits, each once; a task past the channel has
  one worker; as many slots are taken as there are calls that hold one.
* `InflightExact`: the ActiveCommandIds sent to the panel are what the workers
  run, given one worker or ids that are not repeated.
* `OrphansAnswered`: a handler runs on without its worker only after its task was
  answered `timeout` or `cancelled`.
* `ImplementsLedger`: what is accepted is answered once; the answer never is
  `queue_full`, so the second `queue_full` branch of Submit is dead code: a push
  that follows a slot always finds room.
* `AcceptedAnswered`, `StopReturns` (liveness).

`AgentCommands`
* `EndsEarned`: the panel shows an end only if the agent, in whichever incarnation,
  decided it, and progress only if the handler ran.
* `RedeliveredLate`: a command the agent still has comes again only after its
  claim has run out.
* `RoomKept`: the commands of a response and those in the queue fit into the
  queue, though the room was read before the claim.
* `NotForgotten` (liveness): every operation is begun or ended in the end.

`AgentCoreOps`
* `GateExact`: the gate is held exactly while the agent has a core operation in
  hand, and it never has two.
* `CoreEndsEarned`, `NeverReopened`: an end in the core table was decided by the
  agent, and is never open again, although updates name the row by id alone.
* `ClaimRecovered` (liveness; violated with two operations).

`ConfigApply`
* `NothingLost`: at every moment of a transaction the directory it began with is
  active or its backup. It speaks of each point where a crash may come, not of the
  time after it, when nobody knows of the backup; that the next batch mends the
  directory is part of `Converges`.
* `FailureRestores`: a transaction that does not succeed leaves what it found.
* `GateExact`: the gate is taken exactly while one task, and never two, has not
  given it back, although handlers run on after the watchdog.
* `SuccessEarned`: the panel records a success only of a run that was applied.
* `RevisionConfirmed`, `RevisionOnDisk`: the revision in memory was recorded as a
  success by the panel, and it, or a later one, is on the disk: also when an
  abandoned task applies an older batch beside its successor.
* `ConfigCurrent`: between transactions `config.json` is not behind the other
  files. Merged, it has their batch in it, whatever is left of older ones; otherwise
  it has nothing but their batch. The exception is that the directory changed
  between the read and the write of an injection.
* `OpenRunFound`: two runs of a revision are open at a time only if the requests
  that made them overlapped or a late report has opened one again.
* `EndKept`: an end is overwritten only by a request that read the run before.
* `Converges` (liveness), `SentAsRendered` (violated).

`UserTraffic`
* `PeriodsExact`: a period holds exactly the reports charged in it, each once.
* `AcceptedCharged`: an accepted report is charged, or about to be, unless its
  batch failed after the mark.
* `StatsAccount`: statistics account for every charge but what a crash took.
* `ExceededExact`: a period is marked exceeded exactly when its quota is used up.
* `RowsAgree`: without stale writes the user has been charged what the periods
  have, is suspended when over the quota, and has the quota of the period.

`Updater`
* `RollbackPossible`: a rollback the state file promises finds its backup.
* `CurrentTruthful`: the file tells which version is installed, current or
  pending, unless an update that waited was forgotten.
* `BadLeaves` (liveness): if the agent comes up again and again, a bad version that
  waits leaves the disk, unless it is forgotten or the agent is down for good. A
  version that from some moment on always dies before it has counted its startup
  is exempted, see 3.3.

Each module with variables of its own has its `TypeOK`, proved for every instance
(`CoreOps`, `StagedApply` and `ApplyRuns` within their compositions) and checked
by `lifecycle`, `commands` and `core`. Definitions whose comment begins with
"Mutant" are variants of the definition after them with a plausible mistake; each
property is violated when one of them takes its place, so no property holds for
the wrong reason. The list is in `PROJECT.json`.

### 3.2 What the violated runs show

* `lifecycle_progress`. Two requests about one operation read `claimed`. The
  progress report is written first: `in_progress`. Then the *accepted* report,
  which was checked against `claimed`, writes `claimed` again, and the operation
  can be handed out a second time after the lease. The update repeats the check of
  the claimant and of "not terminal", not that of the transition. It takes an
  accepted request that the panel still serves after its sender has given up.
* `core_starved`. The comment in GetCoreOperations has it that undelivered claims
  are recovered by the lease. An older operation that times out each time cannot
  report that (the context it reports with is done), stays claimed, and by the
  time the next fetch comes its lease has long run out: a claim takes the oldest
  row, so a younger one never gets its turn.

* `apply_stale`. PrepareApplyRun renders a revision again because a change of a
  global policy would otherwise not be delivered, but GetApplyBatch has read the
  artifacts before it calls PrepareApplyRun. The batch that is sent for the run is
  the one from before; the agent then has the revision, and gets the policy with
  the next revision only.

### 3.3 What is not promised

The following hold in neither code nor model, and no property states them. An
operation that is `in_progress` and whose terminal report is lost stays so: only
`claimed` rows are reclaimed. A command may be executed twice, when it waits
longer than the lease or the agent restarts. The status of a core operation that
has ended may be replaced by that of a rival report. A Submit that races Stop may
leave its task in the channel, accepted and never answered. The guard on the
panel leaves mutual exclusion to "the serial queue of the agent"
(`agent_operation_guard.go:93`), but a handler that has timed out is abandoned, not
ended, and runs beside the next one; `OrphansAnswered` says as much as holds.

Of configurations: an "applying" report that read its run before the end opens
the run again (`reopened`). A task that the watchdog has let go in the queue asks
with the revision of its submission and may apply a revision again. When both
the second rename and the rename back fail, or a rollback does, the directory may
be gone or hold the refused configuration while the agent keeps its revision
(`torn`, exempted in `RevisionOnDisk` and `Converges`). An operator's run for a revision
the agent has already stays open until it expires, as the agent is answered "not
modified".

For xray, what a newer batch has dropped stays in `config.json` unless one of its
tags replaces it: with the default directories the file that is merged with is
the result of the last merge, although a comment calls the legacy directory an
input that "apply does not update" (`agent_routes.go:48`). `ConfigCurrent` therefore
says that the latest batch is in the file, and not that nothing else is.

Of updates: a startup is counted late in New (`service.go:297`). A bad version that
always dies before that line, of a broken binary or of an error while the
configuration, the collector or the switcher is set up, is started again for ever
and never counted, and no loop looks at its deadline, so it stays. The premise of
`BadLeaves` is there for this: without it the loop of `Boot` and `BadCrash` refutes
the property. The version that is recorded is the one of the request
(`updater.go:577`), so a target version given without the tag of a release may
name another binary than the one installed; the model has one version for both.

What forgets a pending update (`watch`) leaves the version that was
installed in place, good or bad, with nobody to confirm or to roll it back. A
version put back by a rollback runs only after the next restart. Between the
record of an update and the exec lies a report of progress over the network;
meanwhile the report loop of the old process goes on, and its next accepted
status report confirms the update (`agent_report.go:296`): the backup is removed
before the new version has ever run. An agent that cannot execute its new binary
exits with status 0 "so the process manager restarts us" (`agent_update.go:112`),
but the units it is installed with say `Restart=on-failure`, so it stays down
(`off`, exempted in `BadLeaves`).

Of traffic: a report whose batch fails after the mark is lost (`dropped`). A
request that saves a user from an old copy takes charges and suspensions back
(`stale`). A user whose period was exceeded is not met by the nightly reset, since
GetExpiredPeriodUserIDs asks for `exceeded = 0`; `RowsAgree` therefore lets a user
stay suspended after an exceeded period.

### 3.4 Bounds

Code constants and their models: capacity 8 is 1 or 2, so that full, partly full
and empty occur with few calls; the poll limit 4 is 1; leases of two minutes and task
timeouts of 30 minutes (core operations) are events that may occur at any time, which covers every
duration and more. `MaxOps`, `Submissions`, `Handlers` and `MaxCrashes` are bounds
of the instance. Calls in the composed models are put back when finished, so
runs go through any number of deliveries of a command. One crash suffices to
have two incarnations of the agent with reports of the first one in flight. Two
requests in flight are enough for every race between two statements of Report.

Of `apply`: two tasks suffice for an abandoned one beside its successor, two
revisions for an old and a new batch, three runs for one that ended and two that
overlap. An upset is a crash, a lost or failed call, a failed rename or reload,
an abandoned task, a failed statement, a cancel, an expiry or an operator's
request: one of them anywhere. Policies change in `apply_stale` only, as no other
property speaks of versions. `config.json` is merged (`Merges`) in `apply` and not in the
two other runs; the proofs cover both. `apply_live` has two upsets and as many runs as these
can cost, so the bound on runs never stops it. Of `user_traffic`: reports, saves
and crashes are limited together (`MaxEvents`), so any three of them meet, with two
quotas of which one is used up by one report and one by two; the second month
gives the reset something to do.

Of `updater`: with three updates a second one can overtake the first and a third
can mend what was lost; an upset is a death of a good version or a failure of a
write, a download, a rename, a report or the exec, and two of them make memory and
file differ and then lose the memory. A threshold of two startups has one that
is counted and one that rolls back; the code's is three.

Symmetry is used only in runs without liveness (`lifecycle`, `commands`, `apply`,
`user_traffic`), between calls of one command, requests, worker ids, tasks or
reports, whose order no definition uses. Deadlock is checked in `user_traffic` and
`apply_stale`; it is off in the other runs: their instances stop when all bounded calls
are made, or all upsets are used and all operations have ended, and so may the
system.

### 3.5 Fairness

* Goroutines that can run do: weak fairness of `CallStep`, `WorkerStep` (one per
  worker), `StopCancel`, `StopReturn`, of the loops' steps and of the panel's handlers. A report
  RPC has a ten-second deadline, so the steps that wait for one are included; so
  are deadlines of tasks, as part of `Finish`. Nothing is assumed of handlers
  (`BodyReturn`) in `CommandQueue` and `AgentCommands`: they may hang.
* In `AgentCoreOps` the execution of a core operation returns in the end, since
  it runs under a context with a deadline.
* Time passes: weak fairness of `LeaseExpire`.
* An agent that has died is started again (systemd): weak fairness of `Start`.
* The network is up again and again: strong fairness of `Poll` and `Fetch` with
  their responses, and of `DeliverEnd`, the terminal reports, and of their update
  statement. Nothing is assumed of accepted and progress reports. The model's bounded number of panel
  handlers would let a crowd of progress reports keep terminal ones out, which
  the panel does not do; one handler is therefore left to terminal reports.
* `ConfigApply` (`FairSpec`): the sync loop ticks (`Submit`), a task's steps, the
  steps of a transaction, those of the panel's handlers and a begun injection are
  taken: weak fairness of each. Failures are upsets, of which there are finitely
  many; the code retries for ever, so after the last one the agent gets through.
  `Watchdog` and `Abandon` need no fairness: nothing hangs.
* `Updater` (`FairSpec`): the process manager starts what has failed (not what has
  exited with status 0: the units say `Restart=on-failure`, `RestartSec=5s`), a good version counts its startup,
  an update goes on, and the loops look at the deadline, which passes. Nothing is
  assumed of confirmations, nor of bad versions: they may die at any moment, count
  their startups or never do so, or stay up.
* `ReliableSpec`, used to refute `ClaimRecovered`, assumes even more: every report
  sent again and again is delivered and written.

## 4. Proofs

Checked by tlapm for all values of the constants that satisfy the assumptions
`LifecycleAssumption`, `QueueAssumption`, `CommandsAssumption`, `CoreAssumption`,
`UserTrafficAssumption`, `ConfigAssumption` and `UpdaterAssumption`: any number of hosts, operations, workers, requests, calls,
reports, editors, months, tasks, handlers, runs, revisions and versions, any capacity, any
bound on crashes, edits, upsets and injections. They are as weak as the models allow
(finitely many calls and workers, a positive capacity, statuses of handlers
different from those of the queue; finitely many reports and requests, and a null
value that is none of them; the injector, the null task and the missing directory
are no tasks and no directory, and bounds are natural numbers).

`LifecycleOps_proofs`: `IndInv == TypeOK /\ StampsConsistent /\
ResultLogTruthful` is inductive. `StampsConsistent` speaks about requests in
flight as well as rows, and `ResultLogTruthful` about lines not yet written;
without these the steps `ReportUpdate` and `ReportLog` could not be shown to keep
the rows right. There is one lemma per action (`CreateInd`, `ClaimInd`, ...). From
`Invariance` follow `TypeCorrect`, `StampsTheorem`, `LogTheorem`. `StepEffect` says
what a step can do to one row, and from it follow `PendingTheorem`,
`ClaimantTheorem` and the refinement `LedgerTheorem`.

`CommandQueue_proofs`: `IndInv == Shape /\ Counts`. `Shape` collects what relates
stages, channel, workers and answers; `Counts` relates the slots, and the length
of the channel, to the cardinality of sets of calls. `MoveIn`, `MoveOut` and
`MoveWithin` say what a call that changes its stage does to such a set. The heart
of the argument is `PushFits`: the channel holds `queued` calls, all of which hold
slots, the call that pushes holds one and is not queued, and slots are at most
Capacity, so the channel is not full. From `Invariance` follow `TypeCorrect`,
`AccountingTheorem`, `OrphansTheorem`, `InflightTheorem` and `LedgerTheorem`.

The two compositions of a table with the queue are proved from their own
invariants. tlapm cannot use the theorems of a module that is instantiated, so
the few facts about the queue they need (`CallTypes`, `WorkerTypes`, `QueueLined`,
`QueueKept`) are lemmas there too, with the constants of the composition.

`AgentCommands_proofs`: `IInv == PanelInv /\ PanelEarned /\ AgentInv`. None of the
properties is inductive by itself:

* `EndsTheorem`. A request that is going to update writes what was reported when
  it began, perhaps by an incarnation of the agent that has died, so
  `PanelEarned` says of what it will write what `EndsEarned` says of the rows; and
  as the agent reports what its calls have, orphans included, `AgentEarned` says
  that all this is in the history. The history survives crashes, so what is
  under way at the panel stays earned.
* `RoomTheorem`. The room that is read is `Capacity - slots`, so the slots have
  to be exactly those of the calls that hold one (`SlotsExact`, `SlotsTheorem`), which
  crashes and calls put back do not disturb. `OldestBound` shows that LIMIT n
  yields at most n operations, and `InOrderLists` that the response lists each of
  them once. Between poll and submission the sum only moves (`RoomMoved`): a
  place in the response becomes one among the calls.
* `RedeliveredTheorem`. Whatever the agent has in its hands was begun at the
  panel (`HandedOut`), and what is begun never is pending again: a pending row
  belongs to nobody, so no request can have found it (`Rows`). A claim can take it
  again only by its lease.
* `PanelTheorem`: every step of the composition is a step of `LifecycleOps` or
  leaves the table alone. The room is a limit a claim may have, and what the agent
  reports are events the table knows. With `TableAssumed`, what
  `LifecycleOps_proofs` shows of the table (`ClaimantDecides`, the ledger, the log)
  holds for the panel in the composition.

`AgentCoreOps_proofs`: `IInv == TypeOK /\ Rows /\ PanelEarned /\ Lined /\ AgentRest`.
`GateTheorem` is the main result. `GateHeld` says that the gate is held exactly if
it has an owner, and that it has one at most; it is inductive only together with
`Calling` (every call for a core operation that has not been queued is the one
the loop waits for), `Bodies` and `Handling` (a handler that runs, abandoned or
not, belongs to a task a worker has taken, and is at some point of its work).
Most steps make and unmake no owner (`OwnersSame`); the others hand the gate from
one owner to the next (`GateTaken`: loop, call, queued task, handler) or give it
back (`GateFreed`). `OneHandlerTheorem` follows: no two core operations run at a
time, although a worker whose handler has timed out takes the next task.
`EndsTheorem` and `NeverReopenedTheorem` are as above; the second needs only that a
request updates a row that exists, since all it can write is an end.

`UserTraffic_proofs`: three invariants, each on top of the one before.
`Types` is `TypeOK` and that a request which synchronises a quota has one.
`ReportFates` says what a request in flight implies about its report (marked, not
charged before the batch, charged after it), which `PeriodsTheorem`,
`AcceptedTheorem` and `StatsTheorem` need: a batch charges a report that was not
charged, so the cardinality of what is charged grows by one. `RowsInv` carries
`RowsTheorem`: no period lies ahead of the month (`MonthsAhead`), the reset works
on no later one (`ResetBehind`), the user has been charged every report as long
as nothing was stale (`UserCharges`), both rows have one quota unless a request is
about to write it (`QuotaAgrees`), and when the flags of user and period differ,
some request still has to mend it (`FlagsMended`). The last is the heart: a change
of the quota flips the flag of the period at once and that of the user three
statements later, and every step in between either keeps that request mending,
or mends, or makes `stale` true.

`ConfigApply_proofs`: the inductive invariant `Shape` of the delivery. Its parts
follow the parts of the system: `PanelInv` (what a request at the panel holds
belongs to a run of the table, and an update was allowed by the status it has
seen), `DirInv` (applyMu is held exactly by the transaction past its wait, and
what its phase says of the old and the new directory), `AgentTypes`, `TaskShape`
and `QueueShape` (what a task has received; a task that has begun and whose
context lives is the worker's), and the ties `CallsFit`, `OneCall` (a request and
the task that waits for it) and `TxnsFit` (a transaction and the task it is for).
`PanelSteps` and `DirSteps` show that every step of the delivery is a step of the
panel and of the directory or leaves them alone, so that `PanelKept` and
`DirStep` are proved over those steps only. `ConfigApply_theorems` proves from
`Shape` all safety properties of the run `apply`, each with a strengthening that
says what may still happen:

* `NothingLostTheorem`, `FailureRestoresTheorem` and the refinement
  `DirectoryImplemented` need nothing more, nor does `EndKeptTheorem`: an update
  was allowed by the status it has seen, so it overwrites an end only if it has
  not seen it.
* `GateTheorem`: at most one task owns the gate (`GateOwned`).
* `SuccessTheorem`: also a success that is on its way, in a task or in a request,
  has been applied (`Earned`).
* `ConfirmedTheorem`: also a success that was accepted, and not yet received, is
  in the table's history (`Confirmed`).
* `OpenRunTheorem` (`Found`), and `TypeTheorem` from all of these.
* `ConfigTheorem`: `AllFresh` says the same of the copies a transaction keeps, of
  what it is going to install and of what an injection has read: all that a merge
  or a rollback may bring back.
* `OnDiskTheorem` is the deepest. `Ordered` says that what has been applied is on
  disk (`OnDisk`), and that whatever a live task has received, or is about to, is
  not below anything that has been applied and may become the revision
  (`Above`). The second part is why an abandoned task cannot bring back an older
  batch: its context has ended, so its core cannot be reloaded
  (`OrderedReload` rests on `MayReload`), and its transaction fails.

`Updater_proofs`: `IInv` is inductive. `Handler` relates the update that runs to
process, backup and binary; `Backups` says of both states what `RollbackPossible`
says of the file, since what is in memory will be written; `Truths` likewise, and
that the backup of a pending update is its previous version, so that a rollback
makes the state true again; `PutAside` carries that to the moment the update is
recorded; `Counting` keeps startups below the threshold before they are counted.
All steps that only overwrite the status are one lemma (`Overwrites`), all
rollbacks another (`Rollbacks`).

Only model-checked: all liveness (`AcceptedAnswered`, `StopReturns`,
`NotForgotten`, `ClaimRecovered`, `Converges`, `BadLeaves`), which is out of the
prover's reach. Every safety property of a passing run is a theorem. `InOrder`
defines the order of a response by what a sorted list is, and not by the library's
sorting operator, whose recursive definition the prover cannot use.

## 5. Not modelled, and the plan

Not modelled in what is modelled: wording and payloads of reports, listing
queries, the audit lines of the guard, back-off times, the path of an agent
that runs core operations or applies without a queue, the orderly shutdown in
`AgentCoreOps` and `ConfigApply` (it is in `CommandQueue` and `AgentCommands`), the
ETag path of the legacy configuration, `service_action: none` (the core is then not
reloaded, so an abandoned task would install its batch), traffic of hosts, periods
that do not begin with the month. The asynchronous queues are lossy by design and
nothing modelled depends on them. The proxy switcher, the scheduler itself, and mesh, routes and forwarding keep state of their own on one host and
meet the modelled parts only as tasks of the queue. Compilation of
configurations, drift, subscriptions, accounts, CDN, MCP, TUI and the web front
end are sequential: large, but with no protocol between actors.

The plan, most important first.

1. Done: `OperationLedger`, `LifecycleOps` and its proofs.
2. Done: `CommandQueue` and its proofs.
3. Done: `AgentCommands`, the composition of 1 and 2.
4. Done: `CoreOps`, the second table.
5. Done: `AgentCoreOps`, the composition of 4 and 2, with the gate.
6. Done: `ApplyRuns`.
7. Done: `StagedApply` and, with the gate and its watchdog, `ConfigApply`.
8. Done: `UserTraffic` and its proofs.
9. Done: `Updater` and its proofs. Left: `Switcher`, the proxy switching.
10. `TaskQueue`: the asynchronous queues: each item is processed, dropped and
    counted, or rejected.
11. Done: proofs about the compositions of the tables with the queue.
