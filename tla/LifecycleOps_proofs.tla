------------------------ MODULE LifecycleOps_proofs ------------------------
(***************************************************************************)
(* Proofs about the operations table, for any number of operations, hosts, *)
(* workers and concurrent Report requests.                                 *)
(*                                                                         *)
(* The inductive invariant is TypeOK with the two invariants the runs      *)
(* check.  ResultLogTruthful alone is not inductive: that an update cannot *)
(* change a row whose end is already logged rests on the log being empty   *)
(* for every row that has not ended, and that a purged or unborn operation *)
(* is not revived by a request in flight rests on StampsConsistent.        *)
(***************************************************************************)
EXTENDS LifecycleOps, TLAPS

IndInv == TypeOK /\ StampsConsistent /\ ResultLogTruthful

(* The fields of a row no claim has stamped.                               *)
LEMMA BlankFields ==
  ASSUME NEW s
  PROVE  /\ Blank(s).status = s /\ Blank(s).by = NoWorker /\ Blank(s).lease = "none"
         /\ ~Blank(s).started /\ ~Blank(s).finished /\ Blank(s).result = EmptyResult
  BY DEF Blank

(* The initial state satisfies the inductive invariant.                    *)
LEMMA InitInd == Init => IndInv
<1> SUFFICES ASSUME Init PROVE IndInv
  OBVIOUS
<1>1. \A o \in Ops : ops[o] = Blank("unborn") /\ resultLog[o] = {}
  BY DEF Init
<1>2. \A h \in Handlers : handlers[h] = IdleHandler
  BY DEF Init
<1>3. TypeOK
  <2>1. Blank("unborn") \in Row
    BY LifecycleAssumption DEF Blank, Row, Absent
  <2>2. IdleHandler \in HandlerState
    BY LifecycleAssumption DEF IdleHandler, HandlerState, Statuses, Active
  <2> QED
    BY <2>1, <2>2, LifecycleAssumption DEF Init, TypeOK
<1>4. \A o \in Ops : RowConsistent(o)
  <2>1. \A o \in Ops : ops[o].status = "unborn" /\ ~ops[o].finished
    BY <1>1, BlankFields
  <2>2. \A o \in Ops : o > created
    BY LifecycleAssumption DEF Init, Ops
  <2> QED
    BY <1>1, <2>1, <2>2 DEF RowConsistent, Absent, Terminal
<1>5. \A h \in Handlers : RequestConsistent(h) /\ NextLogHolds(h)
  BY <1>2 DEF RequestConsistent, NextLogHolds, IdleHandler
<1>6. \A o \in Ops : LoggedEndHolds(o)
  BY <1>1 DEF LoggedEndHolds
<1> QED
  BY <1>3, <1>4, <1>5, <1>6 DEF IndInv, StampsConsistent, ResultLogTruthful

(* A claim selects rows that are pending or claimed.                       *)
LEMMA BatchClaimable ==
  ASSUME NEW host, NEW types, NEW n
  PROVE  /\ OldestOf(Claimable(host, types), n) \subseteq Ops
         /\ \A o \in OldestOf(Claimable(host, types), n) :
              ops[o].status \in {"pending", "claimed"}
  BY DEF OldestOf, Claimable

(* An operation that has not ended has no logged end.                      *)
LEMMA NothingLogged ==
  ASSUME IndInv, NEW o \in Ops, ops[o].status \in Active \cup {"unborn"}
  PROVE  resultLog[o] = {}
  <1>1. resultLog[o] \subseteq {<<ops[o].status, ops[o].result>>}
    BY DEF IndInv, ResultLogTruthful, LoggedEndHolds, Active
  <1>2. <<ops[o].status, ops[o].result>> \notin Outcomes
    BY DEF Outcomes, Terminal, Active
  <1>3. resultLog[o] \subseteq Outcomes
    BY DEF IndInv, TypeOK
  <1> QED BY <1>1, <1>2, <1>3

LEMMA CreateInd == IndInv /\ Create => IndInv'
<1> SUFFICES ASSUME IndInv, Create PROVE IndInv'
  OBVIOUS
<1> DEFINE n == created + 1
<1>1. n \in Ops /\ ops[n].status = "unborn"
  BY LifecycleAssumption
     DEF IndInv, TypeOK, StampsConsistent, RowConsistent, Create, Ops
<1>2. /\ ops' \in [Ops -> Row]
      /\ ops'[n] = Blank("pending")
      /\ \A o \in Ops \ {n} : ops'[o] = ops[o]
      /\ created' = created + 1
      /\ UNCHANGED <<handlers, resultLog>>
  <2>1. Blank("pending") \in Row
    BY LifecycleAssumption DEF Blank, Row, Statuses, Active
  <2> QED
    BY <1>1, <2>1 DEF IndInv, TypeOK, Create
<1>3. TypeOK'
  BY <1>2, LifecycleAssumption DEF IndInv, TypeOK, Create
<1>4. ASSUME NEW o \in Ops PROVE RowConsistent(o)'
  <2>1. CASE o = n
    <3>1. ops'[o].status = "pending" /\ ~ops'[o].finished
      BY <1>2, <2>1, BlankFields
    <3>2. ~(o > created')
      BY <1>2, <2>1, LifecycleAssumption DEF IndInv, TypeOK
    <3>3. Blank(ops[o].status)' = Blank(ops'[o].status)
      BY DEF Blank
    <3> QED
      BY <1>2, <2>1, <3>1, <3>2, <3>3 DEF RowConsistent, Terminal
  <2>2. CASE o # n
    <3>1. o > created' <=> o > created
      BY <2>2, <1>2, LifecycleAssumption DEF Ops, IndInv, TypeOK
    <3> QED
      BY <3>1, <2>2, <1>2 DEF RowConsistent, IndInv, StampsConsistent, Blank
  <2> QED
    BY <2>1, <2>2
<1>5. ASSUME NEW h \in Handlers PROVE RequestConsistent(h)' /\ NextLogHolds(h)'
  <2>1. RequestConsistent(h) /\ NextLogHolds(h)
    BY DEF IndInv, StampsConsistent, ResultLogTruthful
  <2>2. handlers[h].pc # "idle" => ops'[handlers[h].op] = ops[handlers[h].op]
    BY <2>1, <1>1, <1>2 DEF RequestConsistent
  <2> QED
    BY <2>1, <2>2, <1>2 DEF RequestConsistent, NextLogHolds
<1>6. ASSUME NEW o \in Ops PROVE LoggedEndHolds(o)'
  <2>1. CASE o = n
    BY <1>1, <1>2, <2>1, NothingLogged DEF LoggedEndHolds
  <2>2. CASE o # n
    BY <1>2, <2>2 DEF LoggedEndHolds, IndInv, ResultLogTruthful
  <2> QED
    BY <2>1, <2>2
<1> QED
  BY <1>3, <1>4, <1>5, <1>6 DEF IndInv, StampsConsistent, ResultLogTruthful

LEMMA ClaimInd == IndInv /\ ClaimAny => IndInv'
<1> SUFFICES ASSUME IndInv, NEW host \in Hosts, NEW worker \in WorkerIds,
                    NEW types \in SUBSET Types, NEW limit \in 1..MaxClaim,
                    ClaimNext(host, worker, types, limit)
             PROVE  IndInv'
  BY DEF ClaimAny
<1> DEFINE batch == OldestOf(Claimable(host, types), limit)
<1>1. batch \subseteq Ops /\ \A o \in batch : ops[o].status \in {"pending", "claimed"}
  BY BatchClaimable
<1>2. /\ \A o \in batch : ops'[o] = Claimed(ops[o], worker)
      /\ \A o \in Ops \ batch : ops'[o] = ops[o]
      /\ UNCHANGED <<created, handlers, resultLog>>
  BY <1>1 DEF ClaimNext
<1>3. \A o \in Ops : ops[o] \in Row
  BY DEF IndInv, TypeOK
<1>4. \A o \in batch : /\ ops'[o] \in Row
                       /\ ops'[o].status = "claimed" /\ ops'[o].by = worker
                       /\ ops'[o].lease = "live" /\ ops'[o].started
                       /\ ops'[o].finished = ops[o].finished
                       /\ ops'[o].result = ops[o].result
  <2> TAKE o \in batch
  <2>1. ops[o] \in Row /\ ops'[o] = Claimed(ops[o], worker)
    BY <1>1, <1>2, <1>3
  <2> QED
    BY <2>1 DEF Claimed, Row, Statuses, Active
<1>5. TypeOK'
  <2>1. ops' \in [Ops -> Row]
    BY <1>1, <1>2, <1>3, <1>4 DEF ClaimNext
  <2> QED
    BY <2>1, <1>2 DEF IndInv, TypeOK
<1>6. ASSUME NEW o \in Ops PROVE RowConsistent(o)'
  <2>0. RowConsistent(o)
    BY DEF IndInv, StampsConsistent
  <2>1. CASE o \in batch
    BY <2>0, <2>1, <1>1, <1>2, <1>4
       DEF RowConsistent, Absent, Terminal
  <2>2. CASE o \notin batch
    BY <2>0, <2>2, <1>2 DEF RowConsistent, Blank
  <2> QED
    BY <2>1, <2>2
<1>7. ASSUME NEW h \in Handlers PROVE RequestConsistent(h)' /\ NextLogHolds(h)'
  <2>1. RequestConsistent(h) /\ NextLogHolds(h)
    BY DEF IndInv, StampsConsistent, ResultLogTruthful
  <2>2. CASE handlers[h].op \in batch
    BY <2>1, <2>2, <1>1, <1>2, <1>4 DEF RequestConsistent, NextLogHolds, Terminal
  <2>3. CASE handlers[h].op \notin batch
    BY <2>1, <2>3, <1>2 DEF RequestConsistent, NextLogHolds
  <2> QED
    BY <2>2, <2>3
<1>8. ASSUME NEW o \in Ops PROVE LoggedEndHolds(o)'
  <2>1. CASE o \in batch
    BY <2>1, <1>1, <1>2, NothingLogged DEF LoggedEndHolds, Active
  <2>2. CASE o \notin batch
    BY <1>2, <2>2 DEF LoggedEndHolds, IndInv, ResultLogTruthful
  <2> QED
    BY <2>1, <2>2
<1> QED
  BY <1>5, <1>6, <1>7, <1>8 DEF IndInv, StampsConsistent, ResultLogTruthful

LEMMA LeaseInd == ASSUME NEW n \in Ops PROVE IndInv /\ LeaseExpire(n) => IndInv'
<1> SUFFICES ASSUME IndInv, LeaseExpire(n) PROVE IndInv'
  OBVIOUS
<1>1. \A o \in Ops : ops[o] \in Row
  BY DEF IndInv, TypeOK
<1>2. /\ \A o \in Ops \ {n} : ops'[o] = ops[o]
      /\ ops'[n] = [ops[n] EXCEPT !.lease = "expired"]
      /\ ops' \in [Ops -> Row]
      /\ UNCHANGED <<created, handlers, resultLog>>
  BY <1>1 DEF LeaseExpire, Row, IndInv, TypeOK
<1>3. /\ ops'[n].status = ops[n].status /\ ops'[n].by = ops[n].by
      /\ ops'[n].result = ops[n].result /\ ops'[n].lease = "expired"
      /\ ops'[n].started = ops[n].started /\ ops'[n].finished = ops[n].finished
  BY <1>1, <1>2 DEF Row
<1>4. ops[n].status \notin {"pending"} \cup Absent
  <2>1. RowConsistent(n)
    BY DEF IndInv, StampsConsistent
  <2> QED
    BY <2>1, BlankFields DEF LeaseExpire, RowConsistent
<1>5. TypeOK'
  BY <1>2 DEF IndInv, TypeOK
<1>6. ASSUME NEW o \in Ops PROVE RowConsistent(o)' /\ LoggedEndHolds(o)'
  <2>0. RowConsistent(o) /\ LoggedEndHolds(o)
    BY DEF IndInv, StampsConsistent, ResultLogTruthful
  <2>1. CASE o = n
    BY <2>0, <2>1, <1>2, <1>3, <1>4 DEF RowConsistent, LoggedEndHolds
  <2>2. CASE o # n
    BY <2>0, <2>2, <1>2 DEF RowConsistent, LoggedEndHolds, Blank
  <2> QED
    BY <2>1, <2>2
<1>7. ASSUME NEW h \in Handlers PROVE RequestConsistent(h)' /\ NextLogHolds(h)'
  <2>1. RequestConsistent(h) /\ NextLogHolds(h)
    BY DEF IndInv, StampsConsistent, ResultLogTruthful
  <2>2. CASE handlers[h].op = n
    BY <2>1, <2>2, <1>2, <1>3 DEF RequestConsistent, NextLogHolds
  <2>3. CASE handlers[h].op # n
    BY <2>1, <2>3, <1>2 DEF RequestConsistent, NextLogHolds
  <2> QED
    BY <2>2, <2>3
<1> QED
  BY <1>5, <1>6, <1>7 DEF IndInv, StampsConsistent, ResultLogTruthful

(* An event normalizes to a status a report may write, or is refused.      *)
LEMMA ReportedStatusRange ==
  ASSUME NEW ev, ReportedStatus(ev) # "invalid"
  PROVE  ReportedStatus(ev) \in {"claimed", "in_progress"} \cup Terminal
  BY DEF ReportedStatus

LEMMA FindInd == ASSUME NEW h \in Handlers PROVE IndInv /\ ReportFindAny(h) => IndInv'
<1> SUFFICES ASSUME IndInv, NEW host \in Hosts, NEW o \in Ops, NEW worker \in WorkerIds,
                    NEW ev \in Events, ReportFind(h, host, o, worker, ev)
             PROVE  IndInv'
  BY DEF ReportFindAny
<1> DEFINE next == ReportedStatus(ev)
           r == [pc |-> "update", op |-> o, by |-> worker, next |-> next,
                 result |-> ev.result,
                 started  |-> ops[o].started \/ next = "in_progress",
                 finished |-> ops[o].finished \/ next \in Terminal]
<1>1. next \in {"claimed", "in_progress"} \cup Terminal
  BY ReportedStatusRange DEF ReportFind
<1>2. /\ handlers' = [handlers EXCEPT ![h] = r]
      /\ UNCHANGED <<ops, created, resultLog>>
      /\ Exists(o) /\ ops[o].by = worker /\ CanTransition(ops[o].status, next)
  BY DEF ReportFind
<1>3. RowConsistent(o) /\ ops[o] \in Row
  BY DEF IndInv, StampsConsistent, TypeOK
<1>4. ops[o].status \notin {"unborn", "pending"} /\ ops[o].started
  <2>1. ops[o].status # "pending"
    BY <1>2, <1>3, BlankFields, LifecycleAssumption DEF RowConsistent
  <2> QED
    BY <1>2, <1>3, <2>1 DEF Exists, RowConsistent, Absent
<1>5. ~ops[o].finished
  BY <1>2, <1>3 DEF CanTransition, RowConsistent, Terminal
<1>6. r \in HandlerState
  BY <1>1, <1>3, LifecycleAssumption DEF HandlerState, Row, Statuses, Active
<1>7. TypeOK'
  BY <1>2, <1>6 DEF IndInv, TypeOK
<1>8. ASSUME NEW k \in Handlers PROVE RequestConsistent(k)' /\ NextLogHolds(k)'
  <2>1. CASE k = h
    <3>1. handlers'[k] = r /\ ops' = ops
      BY <1>2, <2>1 DEF IndInv, TypeOK
    <3>2. /\ r.pc = "update" /\ r.op = o /\ r.by = worker /\ r.next = next
          /\ r.started /\ (r.finished <=> next \in Terminal)
      BY <1>4, <1>5
    <3> HIDE DEF r, next
    <3> QED
      BY <3>1, <3>2, <1>1, <1>4 DEF RequestConsistent, NextLogHolds
  <2>2. CASE k # h
    BY <1>2, <2>2 DEF RequestConsistent, NextLogHolds, IndInv, StampsConsistent,
                      ResultLogTruthful, TypeOK
  <2> QED
    BY <2>1, <2>2
<1>9. ASSUME NEW p \in Ops PROVE RowConsistent(p)' /\ LoggedEndHolds(p)'
  BY <1>2 DEF RowConsistent, LoggedEndHolds, Blank, IndInv, StampsConsistent,
              ResultLogTruthful
<1> QED
  BY <1>7, <1>8, <1>9 DEF IndInv, StampsConsistent, ResultLogTruthful

LEMMA IdlePc == IdleHandler.pc = "idle"
  BY DEF IdleHandler

LEMMA IdleTyped == IdleHandler \in HandlerState
  BY LifecycleAssumption DEF IdleHandler, HandlerState, Statuses, Active

(* A request that ends without having written anything.                    *)
LEMMA EndInd ==
  ASSUME NEW h \in Handlers
  PROVE  IndInv /\ handlers' = [handlers EXCEPT ![h] = IdleHandler]
           /\ UNCHANGED <<ops, created, resultLog>> => IndInv'
<1> SUFFICES ASSUME IndInv, handlers' = [handlers EXCEPT ![h] = IdleHandler],
                    UNCHANGED <<ops, created, resultLog>>
             PROVE  IndInv'
  OBVIOUS
<1>1. TypeOK'
  BY IdleTyped DEF IndInv, TypeOK
<1>2. ASSUME NEW o \in Ops PROVE RowConsistent(o)' /\ LoggedEndHolds(o)'
  BY DEF RowConsistent, LoggedEndHolds, Blank, IndInv, StampsConsistent, ResultLogTruthful
<1>3. ASSUME NEW k \in Handlers PROVE RequestConsistent(k)' /\ NextLogHolds(k)'
  BY IdlePc DEF RequestConsistent, NextLogHolds, IndInv, StampsConsistent,
                ResultLogTruthful, TypeOK
<1> QED
  BY <1>1, <1>2, <1>3 DEF IndInv, StampsConsistent, ResultLogTruthful

(* What an update that matches its row does.                               *)
LEMMA UpdateEffect ==
  ASSUME IndInv, NEW h \in Handlers, handlers[h].pc = "update",
         UpdateMatches(handlers[h]), ReportUpdate(h)
  PROVE  LET r == handlers[h] IN
         /\ r.op \in Ops
         /\ \A o \in Ops \ {r.op} : ops'[o] = ops[o]
         /\ ops' \in [Ops -> Row]
         /\ ops[r.op].status \in {"claimed", "in_progress"}
         /\ ops'[r.op].status = r.next /\ ops'[r.op].result = r.result
         /\ ops'[r.op].finished = r.finished /\ ops'[r.op].started = r.started
         /\ ops'[r.op].by = ops[r.op].by /\ ops'[r.op].lease = ops[r.op].lease
         /\ handlers' = [handlers EXCEPT ![h].pc = "log"]
         /\ UNCHANGED <<created, resultLog>>
<1> DEFINE r == handlers[h]
<1>1. RequestConsistent(h) /\ r \in HandlerState
  BY DEF IndInv, StampsConsistent, TypeOK
<1>2. r.op \in Ops /\ ops[r.op] \in Row
  BY <1>1 DEF RequestConsistent, IndInv, TypeOK
<1>3. ops[r.op].status \in {"claimed", "in_progress"}
  BY <1>1, <1>2 DEF RequestConsistent, UpdateMatches, Exists, Row, Statuses, Active, Absent
<1>4. ops' = [ops EXCEPT ![r.op].status = r.next, ![r.op].result = r.result,
                         ![r.op].started = r.started, ![r.op].finished = r.finished]
      /\ handlers' = [handlers EXCEPT ![h].pc = "log"]
      /\ UNCHANGED <<created, resultLog>>
  BY DEF ReportUpdate
<1>5. ops' = [ops EXCEPT ![r.op] = [[[[ops[r.op] EXCEPT !.status = r.next]
                EXCEPT !.result = r.result] EXCEPT !.started = r.started]
                EXCEPT !.finished = r.finished]]
  BY <1>2, <1>4 DEF IndInv, TypeOK
<1>6. [[[[ops[r.op] EXCEPT !.status = r.next] EXCEPT !.result = r.result]
         EXCEPT !.started = r.started] EXCEPT !.finished = r.finished] \in Row
  BY <1>1, <1>2 DEF HandlerState, Row
<1>7. ops' \in [Ops -> Row] /\ \A o \in Ops \ {r.op} : ops'[o] = ops[o]
  BY <1>2, <1>5, <1>6 DEF IndInv, TypeOK
<1>8. /\ ops'[r.op].status = r.next /\ ops'[r.op].result = r.result
      /\ ops'[r.op].finished = r.finished /\ ops'[r.op].started = r.started
      /\ ops'[r.op].by = ops[r.op].by /\ ops'[r.op].lease = ops[r.op].lease
  BY <1>2, <1>5 DEF IndInv, TypeOK, Row
<1> QED
  BY <1>2, <1>3, <1>4, <1>7, <1>8

(* The update, whether or not its WHERE clause matches a row.              *)
LEMMA UpdateInd == ASSUME NEW h \in Handlers PROVE IndInv /\ ReportUpdate(h) => IndInv'
<1> SUFFICES ASSUME IndInv, ReportUpdate(h) PROVE IndInv'
  OBVIOUS
<1> DEFINE r == handlers[h]
<1>0. r.pc = "update" /\ RequestConsistent(h) /\ r \in HandlerState
  BY DEF ReportUpdate, IndInv, StampsConsistent, TypeOK
<1>1. CASE UpdateMatches(r)
  <2>1. /\ r.op \in Ops
        /\ \A o \in Ops \ {r.op} : ops'[o] = ops[o]
        /\ ops' \in [Ops -> Row]
        /\ ops[r.op].status \in {"claimed", "in_progress"}
        /\ ops'[r.op].status = r.next /\ ops'[r.op].result = r.result
        /\ ops'[r.op].finished = r.finished /\ ops'[r.op].started = r.started
        /\ ops'[r.op].by = ops[r.op].by /\ ops'[r.op].lease = ops[r.op].lease
        /\ handlers' = [handlers EXCEPT ![h].pc = "log"]
        /\ UNCHANGED <<created, resultLog>>
    BY <1>0, <1>1, UpdateEffect
  <2>2. /\ handlers'[h].pc = "log" /\ handlers'[h].op = r.op /\ handlers'[h].by = r.by
        /\ handlers'[h].next = r.next /\ handlers'[h].result = r.result
        /\ handlers'[h].started = r.started /\ handlers'[h].finished = r.finished
        /\ handlers' \in [Handlers -> HandlerState]
        /\ \A k \in Handlers \ {h} : handlers'[k] = handlers[k]
    BY <2>1, <1>0 DEF IndInv, TypeOK, HandlerState
  <2>3. /\ r.next \in {"claimed", "in_progress"} \cup Terminal
        /\ r.started /\ (r.finished <=> r.next \in Terminal)
        /\ r.by \in WorkerIds
    BY <1>0 DEF RequestConsistent
  <2> HIDE DEF r
  <2>4. TypeOK'
    BY <2>1, <2>2 DEF IndInv, TypeOK
  <2>5. ASSUME NEW o \in Ops PROVE RowConsistent(o)'
    <3>0. RowConsistent(o)
      BY DEF IndInv, StampsConsistent
    <3>1. CASE o = r.op
      BY <3>0, <3>1, <2>1, <2>3 DEF RowConsistent, Absent, Terminal
    <3>2. CASE o # r.op
      BY <3>0, <3>2, <2>1 DEF RowConsistent, Blank
    <3> QED
      BY <3>1, <3>2
  <2>6. ASSUME NEW o \in Ops PROVE LoggedEndHolds(o)'
    <3>1. CASE o = r.op
      BY <3>1, <2>1, NothingLogged DEF LoggedEndHolds, Active
    <3>2. CASE o # r.op
      BY <3>2, <2>1 DEF LoggedEndHolds, IndInv, ResultLogTruthful
    <3> QED
      BY <3>1, <3>2
  <2>7. ASSUME NEW k \in Handlers PROVE RequestConsistent(k)' /\ NextLogHolds(k)'
    <3>0. RequestConsistent(k) /\ NextLogHolds(k)
      BY DEF IndInv, StampsConsistent, ResultLogTruthful
    <3>1. CASE k = h
      BY <3>1, <2>1, <2>2, <2>3 DEF RequestConsistent, NextLogHolds, Terminal
    <3>2. CASE k # h /\ handlers[k].op = r.op
      BY <3>0, <3>2, <2>1, <2>2, <2>3 DEF RequestConsistent, NextLogHolds, Terminal
    <3>3. CASE k # h /\ handlers[k].op # r.op
      BY <3>0, <3>3, <2>1, <2>2 DEF RequestConsistent, NextLogHolds
    <3> QED
      BY <3>1, <3>2, <3>3
  <2> QED
    BY <2>4, <2>5, <2>6, <2>7 DEF IndInv, StampsConsistent, ResultLogTruthful
<1>2. CASE ~UpdateMatches(r)
  <2>1. /\ handlers' = [handlers EXCEPT ![h] = IdleHandler]
        /\ UNCHANGED <<ops, created, resultLog>>
    BY <1>2 DEF ReportUpdate
  <2> QED
    BY <2>1, EndInd
<1> QED
  BY <1>1, <1>2

LEMMA FailsInd == ASSUME NEW h \in Handlers PROVE IndInv /\ ReportUpdateFails(h) => IndInv'
  BY EndInd DEF ReportUpdateFails

LEMMA LogInd == ASSUME NEW h \in Handlers PROVE IndInv /\ ReportLog(h) => IndInv'
<1> SUFFICES ASSUME IndInv, ReportLog(h) PROVE IndInv'
  OBVIOUS
<1> DEFINE r == handlers[h]
<1>1. r.pc = "log" /\ r \in HandlerState /\ RequestConsistent(h) /\ NextLogHolds(h)
  BY DEF ReportLog, IndInv, StampsConsistent, ResultLogTruthful, TypeOK
<1>2. r.op \in Ops /\ r.result \in Results
  BY <1>1 DEF RequestConsistent, HandlerState
<1>3. handlers' = [handlers EXCEPT ![h] = IdleHandler] /\ UNCHANGED <<ops, created>>
  BY DEF ReportLog
<1>4. CASE resultLog' = resultLog
  BY <1>3, <1>4, EndInd
<1>5. CASE r.next \in Terminal
           /\ resultLog' = [resultLog EXCEPT ![r.op] = @ \cup {<<r.next, r.result>>}]
  <2>1. <<r.next, r.result>> \in Outcomes
    BY <1>2, <1>5 DEF Outcomes
  <2>2. /\ resultLog' \in [Ops -> SUBSET Outcomes]
        /\ resultLog'[r.op] = resultLog[r.op] \cup {<<r.next, r.result>>}
        /\ \A o \in Ops \ {r.op} : resultLog'[o] = resultLog[o]
    BY <1>2, <1>5, <2>1 DEF IndInv, TypeOK
  <2>3. IdleHandler \in HandlerState
    BY IdleTyped
  <2>4. TypeOK'
    BY <1>3, <2>2, <2>3 DEF IndInv, TypeOK
  <2>5. ASSUME NEW o \in Ops PROVE RowConsistent(o)' /\ LoggedEndHolds(o)'
    <3>0. RowConsistent(o) /\ LoggedEndHolds(o)
      BY DEF IndInv, StampsConsistent, ResultLogTruthful
    <3>1. RowConsistent(o)'
      BY <3>0, <1>3 DEF RowConsistent, Blank
    <3>2. CASE o = r.op
      BY <3>0, <3>1, <3>2, <1>1, <1>3, <1>5, <2>2 DEF LoggedEndHolds, NextLogHolds
    <3>3. CASE o # r.op
      BY <3>0, <3>1, <3>3, <1>3, <2>2 DEF LoggedEndHolds
    <3> QED
      BY <3>1, <3>2, <3>3
  <2>6. ASSUME NEW k \in Handlers PROVE RequestConsistent(k)' /\ NextLogHolds(k)'
    BY <1>3, IdlePc DEF RequestConsistent, NextLogHolds, IndInv, StampsConsistent,
                        ResultLogTruthful, TypeOK
  <2> QED
    BY <2>4, <2>5, <2>6 DEF IndInv, StampsConsistent, ResultLogTruthful
<1> QED
  BY <1>4, <1>5 DEF ReportLog

LEMMA PurgeInd == ASSUME NEW n \in Ops PROVE IndInv /\ Purge(n) => IndInv'
<1> SUFFICES ASSUME IndInv, Purge(n) PROVE IndInv'
  OBVIOUS
<1> DEFINE gone == {o \in Ops : o <= n /\ Exists(o)}
<1>0. Blank("purged") \in Row
  BY LifecycleAssumption DEF Blank, Row, Absent
<1>1. /\ \A o \in gone : ops'[o] = Blank("purged")
      /\ \A o \in Ops \ gone : ops'[o] = ops[o]
      /\ ops' \in [Ops -> Row]
      /\ UNCHANGED <<created, handlers, resultLog>>
  BY <1>0 DEF Purge, IndInv, TypeOK
<1>2. \A o \in gone : ops[o].status # "unborn" /\ ops'[o].status = "purged"
                      /\ ~ops'[o].finished
  BY <1>1, BlankFields DEF Exists, Absent
<1> HIDE DEF gone
<1>3. TypeOK'
  BY <1>1 DEF IndInv, TypeOK
<1>4. ASSUME NEW o \in Ops PROVE RowConsistent(o)' /\ LoggedEndHolds(o)'
  <2>0. RowConsistent(o) /\ LoggedEndHolds(o)
    BY DEF IndInv, StampsConsistent, ResultLogTruthful
  <2>1. CASE o \in gone
    <3>1. Blank(ops[o].status)' = Blank(ops'[o].status)
      BY DEF Blank
    <3> QED
      BY <2>0, <2>1, <3>1, <1>1, <1>2 DEF RowConsistent, LoggedEndHolds, Absent, Terminal
  <2>2. CASE o \notin gone
    BY <2>0, <2>2, <1>1 DEF RowConsistent, LoggedEndHolds, Blank
  <2> QED
    BY <2>1, <2>2
<1>5. ASSUME NEW k \in Handlers PROVE RequestConsistent(k)' /\ NextLogHolds(k)'
  <2>0. RequestConsistent(k) /\ NextLogHolds(k)
    BY DEF IndInv, StampsConsistent, ResultLogTruthful
  <2>1. CASE handlers[k].op \in gone
    BY <2>0, <2>1, <1>1, <1>2 DEF RequestConsistent, NextLogHolds
  <2>2. CASE handlers[k].op \notin gone
    BY <2>0, <2>2, <1>1 DEF RequestConsistent, NextLogHolds
  <2> QED
    BY <2>1, <2>2
<1> QED
  BY <1>3, <1>4, <1>5 DEF IndInv, StampsConsistent, ResultLogTruthful
-----------------------------------------------------------------------------
(* Every step keeps the inductive invariant.                               *)
LEMMA StepInd == IndInv /\ [Next]_vars => IndInv'
<1> SUFFICES ASSUME IndInv, [Next]_vars PROVE IndInv'
  OBVIOUS
<1>1. CASE Create
  BY <1>1, CreateInd
<1>2. CASE ClaimAny
  BY <1>2, ClaimInd
<1>3. CASE \E o \in Ops : LeaseExpire(o)
  BY <1>3, LeaseInd
<1>4. CASE \E h \in Handlers : ReportFindAny(h)
  BY <1>4, FindInd
<1>5. CASE \E h \in Handlers : ReportUpdate(h)
  BY <1>5, UpdateInd
<1>6. CASE \E h \in Handlers : ReportUpdateFails(h)
  BY <1>6, FailsInd
<1>7. CASE \E h \in Handlers : ReportLog(h)
  BY <1>7, LogInd
<1>8. CASE \E n \in Ops : Purge(n)
  BY <1>8, PurgeInd
<1>9. CASE UNCHANGED vars
  BY <1>9 DEF vars, IndInv, TypeOK, StampsConsistent, RowConsistent, RequestConsistent,
              ResultLogTruthful, LoggedEndHolds, NextLogHolds, Blank
<1> QED
  BY <1>1, <1>2, <1>3, <1>4, <1>5, <1>6, <1>7, <1>8, <1>9 DEF Next

(* The inductive invariant holds in every reachable state of the table.    *)
THEOREM Invariance == Spec => []IndInv
<1>1. IndInv /\ [Next]_vars => IndInv'
  BY StepInd
<1> QED
  BY InitInd, <1>1, PTL DEF Spec

(* The table, the requests and the log always hold well-formed values.     *)
THEOREM TypeCorrect == Spec => []TypeOK
<1>1. IndInv => TypeOK
  BY DEF IndInv
<1> QED
  BY Invariance, <1>1, PTL

(* claimed_by, claimed_at, started_at and finished_at always agree with    *)
(* the status, whatever reports and claims interleave.                     *)
THEOREM StampsTheorem == Spec => []StampsConsistent
<1>1. IndInv => StampsConsistent
  BY DEF IndInv
<1> QED
  BY Invariance, <1>1, PTL

(* The operation log never shows an end the row does not have.             *)
THEOREM LogTheorem == Spec => []ResultLogTruthful
<1>1. IndInv => ResultLogTruthful
  BY DEF IndInv
<1> QED
  BY Invariance, <1>1, PTL
-----------------------------------------------------------------------------
(* What any step does to the rows, in the four ways that matter below: it  *)
(* hands active rows around, inserts one, ends or moves one by a report of *)
(* its claimant, or purges some.                                           *)
Handed ==
  \A o \in Ops : \/ ops'[o] = ops[o]
                 \/ ops[o].status \in Active /\ ops'[o].status = "claimed"
                 \/ ops[o].status \in Active /\ ops'[o].status = ops[o].status

Inserted(n) ==
  /\ ops[n].status = "unborn" /\ ops'[n].status = "pending"
  /\ \A o \in Ops \ {n} : ops'[o] = ops[o]

Reported(h, n) ==
  /\ handlers[h].op = n /\ handlers[h].by = ops[n].by
  /\ handlers[h].next \in {"claimed", "in_progress"} \cup Terminal
  /\ handlers[h].result \in Results
  /\ ops[n].status \in {"claimed", "in_progress"}
  /\ ops'[n].status = handlers[h].next /\ ops'[n].result = handlers[h].result
  /\ ops'[n].by = ops[n].by
  /\ \A o \in Ops \ {n} : ops'[o] = ops[o]

Removed(S) ==
  /\ \A o \in S : ops[o].status \notin Absent /\ ops'[o].status = "purged"
  /\ \A o \in Ops \ S : ops'[o] = ops[o]

LEMMA StepEffect ==
  ASSUME IndInv, [Next]_vars
  PROVE  \/ Handed
         \/ \E n \in Ops : Inserted(n)
         \/ \E h \in Handlers, n \in Ops : Reported(h, n)
         \/ \E S \in SUBSET Ops : Removed(S)
<1>1. CASE Create
  <2>1. created + 1 \in Ops /\ ops[created + 1].status = "unborn"
    BY <1>1, LifecycleAssumption
       DEF IndInv, TypeOK, StampsConsistent, RowConsistent, Create, Ops
  <2>2. Inserted(created + 1)
    BY <1>1, <2>1, BlankFields DEF Create, Inserted, IndInv, TypeOK
  <2> QED
    BY <2>1, <2>2
<1>2. CASE ClaimAny
  <2>1. PICK host \in Hosts, worker \in WorkerIds, types \in SUBSET Types,
             limit \in 1..MaxClaim : ClaimNext(host, worker, types, limit)
    BY <1>2 DEF ClaimAny
  <2> DEFINE batch == OldestOf(Claimable(host, types), limit)
  <2>2. \A o \in batch : ops[o].status \in Active /\ o \in Ops
    BY BatchClaimable DEF Active
  <2>3. \A o \in Ops : ops'[o] = IF o \in batch THEN Claimed(ops[o], worker) ELSE ops[o]
    BY <2>1 DEF ClaimNext
  <2>4. \A o \in Ops : Claimed(ops[o], worker).status = "claimed"
    BY DEF Claimed, IndInv, TypeOK, Row
  <2> HIDE DEF batch
  <2> QED
    BY <2>2, <2>3, <2>4 DEF Handed
<1>3. ASSUME NEW n \in Ops, LeaseExpire(n) PROVE Handed
  <2>1. ops[n] \in Row /\ ops' = [ops EXCEPT ![n] = [ops[n] EXCEPT !.lease = "expired"]]
    BY <1>3 DEF LeaseExpire, IndInv, TypeOK
  <2>2. ops[n].status \in Active
    <3>1. RowConsistent(n) /\ ops[n].lease = "live" /\ ops[n].status \notin Terminal
      BY <1>3 DEF IndInv, StampsConsistent, LeaseExpire
    <3>2. ops[n].status \notin Absent
      BY <3>1, BlankFields DEF RowConsistent, Absent
    <3> QED
      BY <2>1, <3>1, <3>2 DEF Row, Statuses
  <2>3. ops'[n].status = ops[n].status /\ \A o \in Ops \ {n} : ops'[o] = ops[o]
    BY <2>1 DEF IndInv, TypeOK, Row
  <2> QED
    BY <2>2, <2>3 DEF Handed
<1>4. CASE UNCHANGED ops
  BY <1>4 DEF Handed
<1>5. ASSUME NEW h \in Handlers, ReportUpdate(h), UpdateMatches(handlers[h])
      PROVE  \E n \in Ops : Reported(h, n)
  <2> DEFINE n == handlers[h].op
  <2>1. n \in Ops /\ Reported(h, n)
    <3>1. handlers[h].pc = "update" /\ RequestConsistent(h) /\ handlers[h] \in HandlerState
      BY <1>5 DEF ReportUpdate, IndInv, StampsConsistent, TypeOK
    <3>2. handlers[h].by = ops[n].by
      BY <1>5 DEF UpdateMatches
    <3>3. handlers[h].result \in Results
      BY <3>1 DEF HandlerState
    <3>4. handlers[h].next \in {"claimed", "in_progress"} \cup Terminal
      BY <3>1 DEF RequestConsistent
    <3> QED
      BY <1>5, <3>1, <3>2, <3>3, <3>4, UpdateEffect DEF Reported
  <2> QED
    BY <2>1
<1>6. ASSUME NEW n \in Ops, Purge(n) PROVE \E S \in SUBSET Ops : Removed(S)
  <2> DEFINE S == {o \in Ops : o <= n /\ Exists(o)}
  <2>1. Removed(S)
    BY <1>6, BlankFields DEF Purge, Removed, Exists
  <2> QED
    BY <2>1
<1>7. ASSUME NEW h \in Handlers, ReportUpdate(h), ~UpdateMatches(handlers[h])
      PROVE  UNCHANGED ops
  BY <1>7 DEF ReportUpdate
<1>8. ASSUME NEW h \in Handlers, ReportFindAny(h) \/ ReportUpdateFails(h) \/ ReportLog(h)
      PROVE  UNCHANGED ops
  BY <1>8 DEF ReportFindAny, ReportFind, ReportUpdateFails, ReportLog
<1> QED
  BY <1>1, <1>2, <1>3, <1>4, <1>5, <1>6, <1>7, <1>8 DEF Next, vars

(* The only ways out of pending are a claim and the purge, although the    *)
(* transition table of Report allows any status from there.                *)
THEOREM PendingTheorem == Spec => PendingOnlyClaimed
<1> DEFINE A == \A o \in Ops : ops[o].status = "pending" =>
                  ops'[o].status \in {"pending", "claimed", "purged"}
<1>1. IndInv /\ [Next]_vars => [A]_vars
  <2> SUFFICES ASSUME IndInv, [Next]_vars PROVE A
    OBVIOUS
  <2>1. CASE Handed
    BY <2>1 DEF Handed
  <2>2. ASSUME NEW n \in Ops, Inserted(n) PROVE A
    BY <2>2 DEF Inserted
  <2>3. ASSUME NEW h \in Handlers, NEW n \in Ops, Reported(h, n) PROVE A
    BY <2>3 DEF Reported
  <2>4. ASSUME NEW S \in SUBSET Ops, Removed(S) PROVE A
    BY <2>4 DEF Removed
  <2> HIDE DEF A
  <2> QED
    BY <2>1, <2>2, <2>3, <2>4, StepEffect
<1> QED
  BY Invariance, <1>1, PTL DEF Spec, PendingOnlyClaimed

(* The end of an operation is always a report of the worker that holds it  *)
(* at that moment.                                                         *)
THEOREM ClaimantTheorem == Spec => ClaimantDecides
<1> DEFINE A == \A o \in Ops : (ops[o].status \notin Terminal /\ ops'[o].status \in Terminal) =>
                  /\ ops'[o].by = ops[o].by
                  /\ \E h \in Handlers : /\ handlers[h].op = o
                                         /\ handlers[h].by = ops[o].by
                                         /\ handlers[h].next = ops'[o].status
                                         /\ handlers[h].result = ops'[o].result
<1>1. IndInv /\ [Next]_vars => [A]_vars
  <2> SUFFICES ASSUME IndInv, [Next]_vars PROVE A
    OBVIOUS
  <2>1. CASE Handed
    BY <2>1 DEF Handed, Active, Terminal
  <2>2. ASSUME NEW n \in Ops, Inserted(n) PROVE A
    BY <2>2 DEF Inserted, Terminal
  <2>3. ASSUME NEW h \in Handlers, NEW n \in Ops, Reported(h, n) PROVE A
    BY <2>3 DEF Reported
  <2>4. ASSUME NEW S \in SUBSET Ops, Removed(S) PROVE A
    BY <2>4 DEF Removed, Terminal
  <2> HIDE DEF A
  <2> QED
    BY <2>1, <2>2, <2>3, <2>4, StepEffect
<1> QED
  BY Invariance, <1>1, PTL DEF Spec, ClaimantDecides
-----------------------------------------------------------------------------
(* The refinement: an insert opens, a terminal report decides, the purge   *)
(* forgets, everything else leaves the ledger as it is.                    *)
THEOREM LedgerTheorem == Spec => ImplementsLedger
<1> DEFINE stage == [o \in Ops |-> StageOf(o)]
           outcome == [o \in Ops |-> OutcomeOf(o)]
<1>1. Init => Ledger!LedgerInit
  <2> SUFFICES ASSUME Init PROVE Ledger!LedgerInit
    OBVIOUS
  <2>1. \A o \in Ops : ops[o].status = "unborn"
    BY BlankFields DEF Init
  <2>2. \A o \in Ops : StageOf(o) = "unborn" /\ OutcomeOf(o) = NoOutcome
    BY <2>1 DEF StageOf, OutcomeOf, Active, Terminal
  <2> QED
    BY <2>2 DEF Ledger!LedgerInit
<1>2. IndInv /\ [Next]_vars => [Ledger!LedgerNext]_(Ledger!ledgerVars)
  <2> SUFFICES ASSUME IndInv, [Next]_vars
               PROVE  Ledger!LedgerNext \/ UNCHANGED <<stage, outcome>>
    BY DEF Ledger!ledgerVars
  <2>1. CASE Handed
    <3>1. ASSUME NEW o \in Ops PROVE StageOf(o)' = StageOf(o) /\ OutcomeOf(o)' = OutcomeOf(o)
      BY <2>1 DEF Handed, StageOf, OutcomeOf, Active, Terminal, NoOutcome
    <3> QED
      BY <3>1
  <2>2. ASSUME NEW n \in Ops, Inserted(n) PROVE Ledger!Open(n)
    <3>1. StageOf(n) = "unborn" /\ StageOf(n)' = "open" /\ OutcomeOf(n)' = OutcomeOf(n)
      BY <2>2 DEF Inserted, StageOf, OutcomeOf, Active, Terminal, NoOutcome
    <3>2. \A o \in Ops \ {n} : StageOf(o)' = StageOf(o) /\ OutcomeOf(o)' = OutcomeOf(o)
      BY <2>2 DEF Inserted, StageOf, OutcomeOf, NoOutcome
    <3> QED
      BY <3>1, <3>2 DEF Ledger!Open
  <2>3. ASSUME NEW h \in Handlers, NEW n \in Ops, Reported(h, n)
        PROVE  Ledger!LedgerNext \/ UNCHANGED <<stage, outcome>>
    <3>1. \A o \in Ops \ {n} : StageOf(o)' = StageOf(o) /\ OutcomeOf(o)' = OutcomeOf(o)
      BY <2>3 DEF Reported, StageOf, OutcomeOf, NoOutcome
    <3>2. StageOf(n) = "open" /\ OutcomeOf(n) = NoOutcome
      BY <2>3 DEF Reported, StageOf, OutcomeOf, Active, Terminal
    <3>3. CASE handlers[h].next \in Terminal
      <4> DEFINE v == <<handlers[h].next, handlers[h].result>>
      <4>1. StageOf(n)' = "decided" /\ OutcomeOf(n)' = v /\ v \in Outcomes
        BY <2>3, <3>3 DEF Reported, StageOf, OutcomeOf, Outcomes, Active, Terminal
      <4>2. Ledger!Decide(n, v)
        BY <3>1, <3>2, <4>1 DEF Ledger!Decide
      <4> QED
        BY <4>1, <4>2 DEF Ledger!LedgerNext
    <3>4. CASE handlers[h].next \notin Terminal
      <4>1. StageOf(n)' = "open" /\ OutcomeOf(n)' = NoOutcome
        BY <2>3, <3>4 DEF Reported, StageOf, OutcomeOf, Active, Terminal, NoOutcome
      <4> QED
        BY <3>1, <3>2, <4>1
    <3> QED
      BY <3>3, <3>4
  <2>4. ASSUME NEW S \in SUBSET Ops, Removed(S) PROVE Ledger!Forget(S)
    <3>1. \A o \in S : /\ StageOf(o) \in {"open", "decided"}
                       /\ StageOf(o)' = "purged" /\ OutcomeOf(o)' = NoOutcome
      <4>1. \A o \in S : ops[o].status \in Statuses
        BY <2>4 DEF Removed, IndInv, TypeOK, Row
      <4>2. NoOutcome' = NoOutcome
        BY DEF NoOutcome
      <4> QED
        BY <2>4, <4>1, <4>2 DEF Removed, StageOf, OutcomeOf, Statuses, Active, Terminal
    <3>2. \A o \in Ops \ S : StageOf(o)' = StageOf(o) /\ OutcomeOf(o)' = OutcomeOf(o)
      BY <2>4 DEF Removed, StageOf, OutcomeOf, NoOutcome
    <3> QED
      BY <3>1, <3>2 DEF Ledger!Forget
  <2> QED
    BY <2>1, <2>2, <2>3, <2>4, StepEffect DEF Ledger!LedgerNext
<1> QED
  BY Invariance, <1>1, <1>2, PTL DEF Spec, ImplementsLedger, Ledger!LedgerSpec
=============================================================================
