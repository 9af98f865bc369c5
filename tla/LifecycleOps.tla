---------------------------- MODULE LifecycleOps ----------------------------
(***************************************************************************)
(* The panel's agent_lifecycle_operations table and the service in front   *)
(* of it (service/agent_lifecycle_operation.go over                        *)
(* repository/sqlite/agent_lifecycle_operation.go).                        *)
(*                                                                         *)
(* An administrator creates an operation for a host; the host's agent      *)
(* claims it, works on it, and reports events about it.  Create, ClaimNext *)
(* and the purge are one SQL transaction or statement each, hence one      *)
(* action.  Report is three: it reads the row (ReportFind), updates it     *)
(* with a statement of its own (ReportUpdate), and appends the event to    *)
(* the operation log (ReportLog).  Handlers are the gRPC requests the      *)
(* panel serves concurrently, so anything may happen between these steps.  *)
(*                                                                         *)
(* Abstractions.  Ids are numbers in order of creation (created_at, id).   *)
(* claimed_at is only ever compared with now - claim timeout, so it is     *)
(* kept as a lease that is live until LeaseExpire.  started_at and         *)
(* finished_at are kept as set or not set.  error_message and              *)
(* result_payload are one member of Results.  Of the operation log only    *)
(* the lines of terminal reports are kept.  A rejected request changes     *)
(* nothing but the audit trail and is no step.                             *)
(***************************************************************************)
EXTENDS Integers, FiniteSets

CONSTANTS MaxOps,        \* bound: operations ever created
          Hosts,         \* agent hosts
          WorkerIds,     \* values of claimed_by
          NoWorker,      \* the empty claimed_by of a new row
          HostOf,        \* [Ops -> Hosts]: the host the n-th operation is for
          Types,         \* operation types
          TypeOf,        \* [Ops -> Types]: the type of the n-th operation
          Results,       \* (result_payload, error_message) pairs
          EmptyResult,   \* the pair of a new row
          Handlers,      \* concurrent Report requests
          Events,        \* events an agent may report, records [event,
                         \* status, terminal, result]
          MaxClaim       \* largest limit of a claim

ASSUME LifecycleAssumption ==
  /\ MaxOps \in Nat
  /\ MaxClaim \in Nat \ {0}
  /\ HostOf \in [1..MaxOps -> Hosts]
  /\ TypeOf \in [1..MaxOps -> Types]
  /\ NoWorker \notin WorkerIds
  /\ EmptyResult \in Results
  /\ \A ev \in Events : ev.result \in Results

VARIABLES ops,           \* [Ops -> Row]: the table
          created,       \* how many operations were ever created
          handlers,      \* [Handlers -> HandlerState]: Report requests in flight
          resultLog      \* [Ops -> SUBSET Outcomes]: logged terminal reports

vars == <<ops, created, handlers, resultLog>>
-----------------------------------------------------------------------------
Ops == 1..MaxOps

Terminal == {"success", "failed", "timeout", "cancelled",
             "unsupported_action", "queue_full"}
Active   == {"pending", "claimed", "in_progress"}
Absent   == {"unborn", "purged"}      \* not in the table: not yet, no longer
Statuses == Active \cup Terminal

Outcomes == Terminal \X Results

Row == [status : Statuses \cup Absent,
        by : WorkerIds \cup {NoWorker}, lease : {"none", "live", "expired"},
        started : BOOLEAN, finished : BOOLEAN, result : Results]

HandlerState == [pc : {"idle", "update", "log"}, op : Ops \cup {0},
                 by : WorkerIds \cup {NoWorker}, next : Statuses,
                 result : Results, started : BOOLEAN, finished : BOOLEAN]

IdleHandler == [pc |-> "idle", op |-> 0, by |-> NoWorker, next |-> "pending",
                result |-> EmptyResult, started |-> FALSE, finished |-> FALSE]

Exists(o) == ops[o].status \notin Absent

(* The transitions Report accepts from the status it has read.  It lets    *)
(* pending jump anywhere: what keeps it from happening is claimed_by.      *)
CanTransition(current, next) ==
  \/ current \in {"pending", "claimed"} /\ next \in {"claimed", "in_progress"} \cup Terminal
  \/ current = "in_progress" /\ next \in {"in_progress"} \cup Terminal

(* normalizeAgentLifecycleReportStatus: the status an event asks for, or   *)
(* "invalid".                                                              *)
ReportedStatus(ev) ==
  LET status == CASE ev.status = "" /\ ev.event = "accepted" -> "claimed"
                  [] ev.status = "" /\ ev.event = "result"   -> "invalid"
                  [] ev.status = ""                          -> "in_progress"
                  [] ev.status = "accepted"                  -> "claimed"
                  [] ev.status = "progress"                  -> "in_progress"
                  [] OTHER                                   -> ev.status
  IN  IF status \in Terminal THEN status
      ELSE IF ev.terminal \/ ev.event = "result" THEN "invalid"
      ELSE IF status \in {"claimed", "in_progress"} THEN status
      ELSE "invalid"
-----------------------------------------------------------------------------
Blank(status) == [status |-> status, by |-> NoWorker, lease |-> "none",
                  started |-> FALSE, finished |-> FALSE, result |-> EmptyResult]

Init ==
  /\ ops = [o \in Ops |-> Blank("unborn")]
  /\ created = 0
  /\ handlers = [h \in Handlers |-> IdleHandler]
  /\ resultLog = [o \in Ops |-> {}]

(* Create: validate, let the guard audit whatever the host is busy with    *)
(* (it never refuses), insert the row as pending.  A failing log append    *)
(* afterwards returns an error and leaves the row.                         *)
Create ==
  /\ created < MaxOps
  /\ created' = created + 1
  /\ ops' = [ops EXCEPT ![created + 1] = Blank("pending")]
  /\ UNCHANGED <<handlers, resultLog>>

(* Mutants: a claim is never taken back; it is taken back at once.         *)
ClaimablePending(host, types) ==
  {o \in Ops : HostOf[o] = host /\ TypeOf[o] \in types /\ ops[o].status = "pending"}
ClaimableClaimed(host, types) ==
  {o \in Ops : HostOf[o] = host /\ TypeOf[o] \in types /\ ops[o].status \in {"pending", "claimed"}}

(* Mutant: failed operations are offered again too.                        *)
ClaimableOrFailed(host, types) ==
  {o \in Ops : HostOf[o] = host /\ TypeOf[o] \in types /\ ops[o].status \in {"pending", "failed"}}

(* The rows a claim selects from: the host's rows of a supported type that *)
(* are pending, or claimed with a claimed_at at least a timeout old (the   *)
(* agents' RPC never narrows the statuses).                                *)
Claimable(host, types) ==
  {o \in Ops : /\ HostOf[o] = host
               /\ TypeOf[o] \in types
               /\ \/ ops[o].status = "pending"
                  \/ ops[o].status = "claimed" /\ ops[o].lease = "expired"}

(* ORDER BY created_at, id LIMIT n: the n oldest, or all when fewer.       *)
OldestOf(S, n) ==
  {o \in S : Cardinality({p \in S : p < o}) < n}

(* Mutant: the positional arguments claimed_by and claimed_at swapped.     *)
ClaimedSwapped(row, worker) ==
  [row EXCEPT !.status = "claimed", !.by = "live", !.lease = worker, !.started = TRUE]

(* What updateLifecycleClaim writes into a row it claims.                  *)
Claimed(row, worker) ==
  [row EXCEPT !.status = "claimed", !.by = worker, !.lease = "live", !.started = TRUE]

(* ClaimNext, one transaction: select, then stamp each row found.  The     *)
(* claim stays even if the log append or the response fails afterwards.    *)
ClaimNext(host, worker, types, limit) ==
  LET batch == OldestOf(Claimable(host, types), limit) IN
  /\ batch # {}
  /\ ops' = [o \in Ops |-> IF o \in batch THEN Claimed(ops[o], worker) ELSE ops[o]]
  /\ UNCHANGED <<created, handlers, resultLog>>

(* now reaches claimed_at + claim timeout.                                 *)
LeaseExpire(o) ==
  /\ ops[o].lease = "live"
  /\ ops[o].status \notin Terminal
  /\ ops' = [ops EXCEPT ![o].lease = "expired"]
  /\ UNCHANGED <<created, handlers, resultLog>>

(* Report, first step: find the row, check that the reporting host and     *)
(* worker own it, and check the transition on the status just read.        *)
ReportFind(h, host, o, worker, ev) ==
  LET next == ReportedStatus(ev) IN
  /\ handlers[h].pc = "idle"
  /\ Exists(o)
  /\ HostOf[o] = host
  /\ ops[o].by = worker
  /\ next # "invalid"
  /\ CanTransition(ops[o].status, next)
  /\ handlers' = [handlers EXCEPT ![h] =
       [pc |-> "update", op |-> o, by |-> worker, next |-> next, result |-> ev.result,
        started  |-> ops[o].started \/ next = "in_progress",
        finished |-> ops[o].finished \/ next \in Terminal]]
  /\ UNCHANGED <<ops, created, resultLog>>

(* Mutants: the WHERE clause without its claimed_by, without its status.   *)
UpdateMatchesAnyWorker(r) == Exists(r.op) /\ ops[r.op].status \notin Terminal
UpdateMatchesTerminal(r)  == Exists(r.op) /\ ops[r.op].by = r.by

(* The WHERE clause of UpdateClaimedStatus, evaluated when it runs.        *)
UpdateMatches(r) ==
  /\ Exists(r.op)
  /\ ops[r.op].by = r.by
  /\ ops[r.op].status \notin Terminal

(* Report, second step: the conditional update.  It writes the started_at  *)
(* and finished_at worked out from the first read and leaves claimed_by    *)
(* and claimed_at alone.  No row matched: not found, the request ends.     *)
ReportUpdate(h) ==
  LET r == handlers[h] IN
  /\ r.pc = "update"
  /\ \/ /\ UpdateMatches(r)
        /\ ops' = [ops EXCEPT ![r.op].status = r.next, ![r.op].result = r.result,
                              ![r.op].started = r.started, ![r.op].finished = r.finished]
        /\ handlers' = [handlers EXCEPT ![h].pc = "log"]
     \/ /\ ~UpdateMatches(r)
        /\ handlers' = [handlers EXCEPT ![h] = IdleHandler]
        /\ UNCHANGED ops
  /\ UNCHANGED <<created, resultLog>>

(* The statement fails (database locked through all retries, request       *)
(* cancelled): the request ends with an error and nothing is written.      *)
ReportUpdateFails(h) ==
  /\ handlers[h].pc = "update"
  /\ handlers' = [handlers EXCEPT ![h] = IdleHandler]
  /\ UNCHANGED <<ops, created, resultLog>>

(* Report, last step: append the event to the operation log.  When that    *)
(* fails the caller gets an error although the row has been updated.       *)
ReportLog(h) ==
  LET r == handlers[h] IN
  /\ r.pc = "log"
  /\ handlers' = [handlers EXCEPT ![h] = IdleHandler]
  /\ \/ /\ r.next \in Terminal
        /\ resultLog' = [resultLog EXCEPT ![r.op] = @ \cup {<<r.next, r.result>>}]
     \/ UNCHANGED resultLog
  /\ UNCHANGED <<ops, created>>

(* DeleteOlderThan: rows go by age alone, whatever their status.           *)
Purge(n) ==
  /\ \E o \in 1..n : Exists(o)
  /\ ops' = [o \in Ops |-> IF o <= n /\ Exists(o) THEN Blank("purged") ELSE ops[o]]
  /\ UNCHANGED <<created, handlers, resultLog>>

(* Mutant: the check that refuses an empty claimed_by is gone.             *)
ReportFindBlank(h) ==
  \E host \in Hosts, o \in Ops, worker \in WorkerIds \cup {NoWorker}, ev \in Events :
    ReportFind(h, host, o, worker, ev)

(* Any agent may report any event about any operation.                     *)
ReportFindAny(h) ==
  \E host \in Hosts, o \in Ops, worker \in WorkerIds, ev \in Events :
    ReportFind(h, host, o, worker, ev)

ClaimAny ==
  \E host \in Hosts, worker \in WorkerIds, types \in SUBSET Types, limit \in 1..MaxClaim :
    ClaimNext(host, worker, types, limit)

Next ==
  \/ Create
  \/ ClaimAny
  \/ \E o \in Ops : LeaseExpire(o)
  \/ \E h \in Handlers : \/ ReportFindAny(h)
                         \/ ReportUpdate(h)
                         \/ ReportUpdateFails(h)
                         \/ ReportLog(h)
  \/ \E n \in Ops : Purge(n)

Spec == Init /\ [][Next]_vars
-----------------------------------------------------------------------------
TypeOK ==
  /\ ops \in [Ops -> Row]
  /\ created \in 0..MaxOps
  /\ handlers \in [Handlers -> HandlerState]
  /\ resultLog \in [Ops -> SUBSET Outcomes]

(* A row carries claimed_by, claimed_at and started_at exactly once a      *)
(* claim has stamped it, and finished_at exactly when it is terminal.      *)
RowConsistent(o) ==
  /\ o > created <=> ops[o].status = "unborn"
  /\ IF ops[o].status \in {"pending"} \cup Absent
     THEN ops[o] = Blank(ops[o].status)
     ELSE ops[o].by \in WorkerIds /\ ops[o].lease # "none" /\ ops[o].started
  /\ ops[o].finished <=> ops[o].status \in Terminal

(* A Report request past its first read works on an operation that was     *)
(* claimed, with timestamps that fit the status it is about to write.      *)
RequestConsistent(h) ==
  LET r == handlers[h] IN
  r.pc # "idle" =>
    /\ r.op \in Ops
    /\ ops[r.op].status \notin {"unborn", "pending"}
    /\ r.by \in WorkerIds
    /\ r.next \in {"claimed", "in_progress"} \cup Terminal
    /\ r.started
    /\ r.finished <=> r.next \in Terminal

(* The stamps of rows and requests stay consistent although a request      *)
(* writes, in a later statement, timestamps it worked out from an old read.*)
StampsConsistent ==
  /\ \A o \in Ops : RowConsistent(o)
  /\ \A h \in Handlers : RequestConsistent(h)

(* What is logged of a row that still exists is the end the row has.       *)
LoggedEndHolds(o) ==
  ops[o].status # "purged" =>
    resultLog[o] \subseteq {<<ops[o].status, ops[o].result>>}

(* So is what a request is about to log, unless the row is gone.           *)
NextLogHolds(h) ==
  LET r == handlers[h] IN
  r.pc = "log" /\ r.next \in Terminal =>
    \/ ops[r.op].status = "purged"
    \/ ops[r.op].status = r.next /\ ops[r.op].result = r.result

(* The log never claims an end the row does not have, even though the line *)
(* is appended in a later step than the update, with rival reports and     *)
(* reclaims in between.                                                    *)
ResultLogTruthful ==
  /\ \A o \in Ops : LoggedEndHolds(o)
  /\ \A h \in Handlers : NextLogHolds(h)

(* Only a claim takes an operation out of pending, although the transition *)
(* table of Report lets any report do it.                                  *)
PendingOnlyClaimed ==
  [][\A o \in Ops : ops[o].status = "pending" =>
       ops'[o].status \in {"pending", "claimed", "purged"}]_vars

(* The end of an operation is what its claimant of that moment reported:   *)
(* a request that read the row before another worker reclaimed it decides  *)
(* nothing.                                                                *)
ClaimantDecides ==
  [][\A o \in Ops : (ops[o].status \notin Terminal /\ ops'[o].status \in Terminal) =>
       /\ ops'[o].by = ops[o].by
       /\ \E h \in Handlers : /\ handlers[h].op = o
                              /\ handlers[h].by = ops[o].by
                              /\ handlers[h].next = ops'[o].status
                              /\ handlers[h].result = ops'[o].result]_vars

(* Work that has begun is never handed out again as if it had not: the     *)
(* status does not go back from in_progress to claimed, from where a claim *)
(* could take the operation a second time.  The transition table says so   *)
(* of the row Report has read; the update does not check it again.         *)
ProgressKept ==
  [][\A o \in Ops : ops[o].status = "in_progress" =>
       ops'[o].status # "claimed"]_vars

(* Every operation is decided at most once and its outcome then stays      *)
(* until the row is purged: the table implements the ledger.               *)
NoOutcome == <<"none", EmptyResult>>

StageOf(o) == IF ops[o].status \in Active THEN "open"
              ELSE IF ops[o].status \in Terminal THEN "decided"
              ELSE ops[o].status

OutcomeOf(o) == IF ops[o].status \in Terminal
                THEN <<ops[o].status, ops[o].result>> ELSE NoOutcome

Ledger == INSTANCE OperationLedger WITH
            stage <- [o \in Ops |-> StageOf(o)],
            outcome <- [o \in Ops |-> OutcomeOf(o)]

ImplementsLedger == Ledger!LedgerSpec
=============================================================================
