------------------------------ MODULE ApplyRuns ------------------------------
(***************************************************************************)
(* The panel's apply runs (service/config_center_apply.go over the table   *)
(* apply_runs): each is the delivery of one revision of a host's           *)
(* configuration to its agent.  A run is made when the agent asks for a    *)
(* batch, or an operator for a delivery, and there is none open for the    *)
(* revision; it ends by the agent's report, by a cancel, or by expiring.   *)
(*                                                                         *)
(* Every request reads in one statement and writes in a later one, and the *)
(* updates are by id alone: ReportUpdate does not check again what         *)
(* ReportFind has read.                                                    *)
(*                                                                         *)
(* Revisions and their artifacts.  A change of a specification renders the *)
(* next revision.  A change of a global policy renders nothing: it reaches *)
(* the artifacts of a revision when an apply of it is prepared.  The       *)
(* version of an artifact is the number of the global change it has seen.  *)
(*                                                                         *)
(* Abstractions.  One host, one core type.  The statements of a batch      *)
(* request up to the look for an open run are one step.  The age of runs   *)
(* is their order.  The operation guard never refuses in the queue mode    *)
(* the panel runs in.                                                      *)
(***************************************************************************)
EXTENDS Naturals, Sequences

CONSTANTS MaxRuns,       \* bound: runs ever made
          MaxRevisions,  \* bound: revisions ever rendered
          MaxEdits,      \* bound: changes of global policies
          Handlers,      \* requests the panel handles at a time
          Callers, NoCaller  \* who waits for a handler's answer

VARIABLES runs,          \* Seq of [revision, status], oldest first
          latest,        \* the latest revision that has artifacts
          artifacts,     \* [1..MaxRevisions -> version]
          policy,        \* the version of the global policies
          reqs           \* [Handlers -> request]

vars == <<runs, latest, artifacts, policy, reqs>>
-----------------------------------------------------------------------------
Open     == {"pending", "applying"}
Terminal == {"success", "failed", "rolled_back"}
Statuses == Open \cup Terminal

Revisions == 1..MaxRevisions
RunIds    == 1..Len(runs)

Payload == [revision : Revisions, version : 0..MaxEdits]

NoPayload == [revision |-> 0, version |-> 0]

(* A request: what it is, how far it has come, the run and the payload it  *)
(* is about, the status it will write and the one it has read, and how     *)
(* many runs there were when it looked for an open one.                    *)
Idle == [op |-> "none", pc |-> "idle", caller |-> NoCaller, run |-> 0, since |-> 0,
         payload |-> NoPayload, status |-> "none", seen |-> "none", reply |-> "none"]

Request == [op : {"none", "batch", "prepare", "report", "cancel"},
            pc : {"idle", "create", "update", "reply"},
            caller : Callers \cup {NoCaller}, run : 0..MaxRuns, since : 0..MaxRuns,
            payload : Payload \cup {NoPayload},
            status : Statuses \cup {"none"}, seen : Statuses \cup {"none"},
            reply : {"none", "batch", "not_modified", "accepted", "rejected"}]

Init ==
  /\ runs = <<>>
  /\ latest = 0
  /\ artifacts = [r \in Revisions |-> 0]
  /\ policy = 0
  /\ reqs = [h \in Handlers |-> Idle]

(* A request that is answered and has nobody waiting for it has ended.     *)
Settled(q) == IF q.pc = "reply" /\ q.caller = NoCaller THEN Idle ELSE q

Go(h, q) == reqs' = [reqs EXCEPT ![h] = Settled(q)]

(* The answer of h has been received.                                      *)
Taken(h) == reqs' = [reqs EXCEPT ![h] = Idle]

(* The callers C wait no longer; the panel does not notice.                *)
Orphaned(C) ==
  reqs' = [h \in Handlers |-> IF reqs[h].caller \in C THEN Settled([reqs[h] EXCEPT !.caller = NoCaller])
                              ELSE reqs[h]]

(* A specification changes: the next revision is rendered.                 *)
Publish ==
  /\ latest < MaxRevisions
  /\ latest' = latest + 1
  /\ artifacts' = [artifacts EXCEPT ![latest + 1] = policy]
  /\ UNCHANGED <<runs, policy, reqs>>

(* A global policy changes.                                                *)
EditPolicy ==
  /\ policy < MaxEdits
  /\ policy' = policy + 1
  /\ UNCHANGED <<runs, latest, artifacts, reqs>>
-----------------------------------------------------------------------------
(* Mutant: only a run the agent has not begun is taken up again.           *)
OpenRunPending(revision) ==
  {r \in RunIds : runs[r].revision = revision /\ runs[r].status = "pending"}

(* findReusableOpenApplyRun looks among these for the newest.              *)
OpenRuns(revision) ==
  {r \in RunIds : runs[r].revision = revision /\ runs[r].status \in Open}

Newest(S) == CHOOSE r \in S : \A s \in S : s <= r

(* PrepareApplyRun up to the look for an open run: render the revision     *)
(* again, or fail to and go on with what there is.                         *)
Prepare(h, q) ==
  /\ reqs[h] = Idle
  /\ \E version \in {artifacts[q.payload.revision], policy} :
       artifacts' = [artifacts EXCEPT ![q.payload.revision] = version]
  /\ LET open == OpenRuns(q.payload.revision)
     IN  IF open = {} THEN Go(h, [q EXCEPT !.pc = "create", !.since = Len(runs)])
         ELSE Go(h, [q EXCEPT !.pc = "reply", !.run = Newest(open), !.reply = "batch"])
  /\ UNCHANGED <<runs, latest, policy>>

(* GetApplyBatch for an agent at revision current.  The artifacts that     *)
(* will be sent are read before PrepareApplyRun renders.                   *)
GetApplyBatch(h, caller, current) ==
  LET q == [Idle EXCEPT !.op = "batch", !.caller = caller] IN
  \/ /\ latest > current
     /\ Prepare(h, [q EXCEPT !.payload = [revision |-> latest, version |-> artifacts[latest]]])
  \/ /\ latest <= current
     /\ reqs[h] = Idle
     /\ Go(h, [q EXCEPT !.pc = "reply", !.reply = "not_modified"])
     /\ UNCHANGED <<runs, latest, artifacts, policy>>

(* An operator, or the MCP server, asks for the delivery of a revision.    *)
OperatorPrepare(h, revision) ==
  /\ revision <= latest
  /\ Prepare(h, [Idle EXCEPT !.op = "prepare",
                             !.payload = [revision |-> revision, version |-> artifacts[revision]]])

(* CreateApplyRun.                                                         *)
CreateApplyRun(h) ==
  /\ reqs[h].pc = "create"
  /\ Len(runs) < MaxRuns
  /\ runs' = Append(runs, [revision |-> reqs[h].payload.revision, status |-> "pending"])
  /\ Go(h, [reqs[h] EXCEPT !.pc = "reply", !.run = Len(runs) + 1, !.since = 0, !.reply = "batch"])
  /\ UNCHANGED <<latest, artifacts, policy>>
-----------------------------------------------------------------------------
(* isApplyRunTransitionAllowed                                             *)
TransitionAllowed(from, to) ==
  \/ from = "pending" /\ to \in Statuses \ {"pending"}
  \/ from = "applying" /\ to \in Terminal
  \/ from = "failed" /\ to = "rolled_back"

(* shouldIgnoreLateApplyRunStatus                                          *)
IgnoreLate(from, to) ==
  /\ from \in Terminal
  /\ \/ to \in Open
     \/ to = "failed" /\ from \in {"success", "rolled_back"}
     \/ to = "rolled_back" /\ from = "success"

(* Mutant: every report is answered as accepted.                           *)
ReplyAccepted(from, to) == "accepted"

(* What a report that is not written is answered.                          *)
ReplyUnwritten(from, to) ==
  IF from = to \/ IgnoreLate(from, to) THEN "accepted" ELSE "rejected"

(* ReportApplyResult: find the run and decide.                             *)
ReportFind(h, caller, r, to) ==
  LET from == runs[r].status
      q == [Idle EXCEPT !.op = "report", !.caller = caller, !.run = r, !.status = to, !.seen = from]
  IN  /\ reqs[h] = Idle
      /\ IF from = to \/ IgnoreLate(from, to) \/ ~TransitionAllowed(from, to)
         THEN Go(h, [q EXCEPT !.pc = "reply", !.reply = ReplyUnwritten(from, to)])
         ELSE Go(h, [q EXCEPT !.pc = "update"])
      /\ UNCHANGED <<runs, latest, artifacts, policy>>

(* Mutant: a run that has ended may be cancelled too.                      *)
CancellableAny == Statuses

(* What CancelApplyRun asks the status to be.                              *)
Cancellable == Open

(* CancelApplyRun: find the run, which is to be open.                      *)
CancelFind(h, r) ==
  /\ reqs[h] = Idle
  /\ runs[r].status \in Cancellable
  /\ Go(h, [Idle EXCEPT !.op = "cancel", !.pc = "update", !.run = r,
                        !.status = "failed", !.seen = runs[r].status])
  /\ UNCHANGED <<runs, latest, artifacts, policy>>

(* UpdateStatus, by the run's id.                                          *)
UpdateStatus(h) ==
  /\ reqs[h].pc = "update"
  /\ runs' = [runs EXCEPT ![reqs[h].run].status = reqs[h].status]
  /\ Go(h, [reqs[h] EXCEPT !.pc = "reply", !.reply = "accepted"])
  /\ UNCHANGED <<latest, artifacts, policy>>

(* The insert or the update fails: the database is busy for longer than    *)
(* execWithRetry tries, or the panel restarts.                             *)
WriteFails(h) ==
  /\ reqs[h].pc \in {"create", "update"}
  /\ reqs' = [reqs EXCEPT ![h] = Idle]
  /\ UNCHANGED <<runs, latest, artifacts, policy>>

(* ExpireStale: the runs made up to k began before the deadline.           *)
ExpireStale(k) ==
  /\ k \in RunIds
  /\ \E r \in 1..k : runs[r].status \in Open
  /\ runs' = [r \in RunIds |->
                IF r <= k /\ runs[r].status \in Open
                THEN [runs[r] EXCEPT !.status = "failed"] ELSE runs[r]]
  /\ UNCHANGED <<latest, artifacts, policy, reqs>>
-----------------------------------------------------------------------------
TypeOK ==
  /\ runs \in Seq([revision : Revisions, status : Statuses]) /\ Len(runs) <= MaxRuns
  /\ latest \in 0..MaxRevisions
  /\ artifacts \in [Revisions -> 0..MaxEdits]
  /\ policy \in 0..MaxEdits
  /\ reqs \in [Handlers -> Request]
=============================================================================
