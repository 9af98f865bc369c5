------------------------------- MODULE CoreOps -------------------------------
(***************************************************************************)
(* The panel's core_operations table (service/agent_core_operation.go over *)
(* repository/sqlite/core_operation.go): installing, switching or ensuring *)
(* a proxy core on an agent's host.                                        *)
(*                                                                         *)
(* It is LifecycleOps' elder relative and promises less: a claim takes one *)
(* row, nobody asks who claimed it, a report is always terminal, and the   *)
(* statement that writes a report names the row by its id alone.           *)
(*                                                                         *)
(* Abstractions.  As in LifecycleOps: ids in order of creation, claimed_at *)
(* as a lease, timestamps and payloads left out.  claimed_by is a function *)
(* of the host and read by nobody.  Nothing writes in_progress and nothing *)
(* deletes a row.                                                          *)
(***************************************************************************)
EXTENDS Naturals, FiniteSets

CONSTANTS MaxOps,        \* bound: operations ever created
          HostOf,        \* [Ops -> hosts]: the host the n-th operation is for
          Handlers       \* concurrent ReportCoreOperation requests

VARIABLES ops,           \* [Ops -> Row]: the table
          created,       \* how many operations were ever created
          handlers       \* [Handlers -> HandlerState]

vars == <<ops, created, handlers>>
-----------------------------------------------------------------------------
Ops == 1..MaxOps

Terminal == {"completed", "failed", "rolled_back"}
Active   == {"pending", "claimed"}

Row == [status : {"unborn"} \cup Active \cup Terminal,
        lease : {"none", "live", "expired"}]

HandlerState == [pc : {"idle", "update"}, op : Ops \cup {0}, next : Terminal]

IdleHandler == [pc |-> "idle", op |-> 0, next |-> "failed"]

(* canTransitionCoreOperationStatus, for a report.                         *)
CanTransition(current, next) == current \in Active /\ next \in Terminal

Init ==
  /\ ops = [o \in Ops |-> [status |-> "unborn", lease |-> "none"]]
  /\ created = 0
  /\ handlers = [h \in Handlers |-> IdleHandler]

Create ==
  /\ created < MaxOps
  /\ created' = created + 1
  /\ ops' = [ops EXCEPT ![created + 1].status = "pending"]
  /\ UNCHANGED handlers

(* Mutants: every row is offered; a claim is never taken back.             *)
ClaimableAny(host) == {o \in Ops : HostOf[o] = host /\ ops[o].status # "unborn"}
ClaimablePending(host) == {o \in Ops : HostOf[o] = host /\ ops[o].status = "pending"}

Claimable(host) ==
  {o \in Ops : /\ HostOf[o] = host
               /\ \/ ops[o].status = "pending"
                  \/ ops[o].status = "claimed" /\ ops[o].lease = "expired"}

(* ClaimNext, one transaction, on the oldest row a claim may take.         *)
ClaimNext(host, o) ==
  /\ o \in Claimable(host)
  /\ \A p \in Claimable(host) : o <= p
  /\ ops' = [ops EXCEPT ![o] = [status |-> "claimed", lease |-> "live"]]
  /\ UNCHANGED <<created, handlers>>

LeaseExpire(o) ==
  /\ ops[o].status = "claimed"
  /\ ops[o].lease = "live"
  /\ ops' = [ops EXCEPT ![o].lease = "expired"]
  /\ UNCHANGED <<created, handlers>>

(* ReportResult, first step: find the row, check host and transition.      *)
ReportFind(h, host, o, status) ==
  /\ handlers[h].pc = "idle"
  /\ HostOf[o] = host
  /\ CanTransition(ops[o].status, status)
  /\ handlers' = [handlers EXCEPT ![h] = [pc |-> "update", op |-> o, next |-> status]]
  /\ UNCHANGED <<ops, created>>

(* ReportResult, second step: UPDATE ... WHERE id = ?.  The claimed_at it  *)
(* writes back is the one it has read.                                     *)
ReportUpdate(h) ==
  /\ handlers[h].pc = "update"
  /\ ops' = [ops EXCEPT ![handlers[h].op].status = handlers[h].next]
  /\ handlers' = [handlers EXCEPT ![h] = IdleHandler]
  /\ UNCHANGED created

(* The statement fails or its request is cancelled.                        *)
ReportUpdateFails(h) ==
  /\ handlers[h].pc = "update"
  /\ handlers' = [handlers EXCEPT ![h] = IdleHandler]
  /\ UNCHANGED <<ops, created>>
-----------------------------------------------------------------------------
TypeOK ==
  /\ ops \in [Ops -> Row]
  /\ created \in 0..MaxOps
  /\ handlers \in [Handlers -> HandlerState]
=============================================================================
