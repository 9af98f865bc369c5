-------------------------- MODULE ConfigApply_proofs --------------------------
(***************************************************************************)
(* The inductive invariant of ConfigApply, for any number of tasks,        *)
(* handlers, runs and revisions and any bounds.                            *)
(*                                                                         *)
(* Shape is made of the panel's part (PanelInv: what a request holds), the *)
(* directory's (DirInv: what a phase says of the directories), the         *)
(* agent's (AgentTypes, TaskShape, QueueShape) and what ties them together *)
(* (CallsFit and OneCall: a request and the task that waits for it;        *)
(* TxnsFit: a transaction and the task it is for).  Every step of the      *)
(* delivery is a step of the panel (PanelSteps) and of the directory       *)
(* (DirSteps) or leaves them alone, so that each part is proved over its   *)
(* own steps.  ConfigApply_theorems proves the properties from Shape.      *)
(***************************************************************************)
EXTENDS ConfigApply, FiniteSetTheorems, WellFoundedInduction, TLAPS

Txns == Tasks \cup {Injector}
-----------------------------------------------------------------------------
(* applyMu is held exactly while a transaction is past its wait.           *)
LockHeld == \A x \in Txns : D!Holding(x) <=> lock = x

(* What a transaction's phase says of the directories: where the old one   *)
(* is, and what the active one holds.                                      *)
PhaseShape ==
  \A x \in Txns :
    /\ phase[x] \in {"idle", "waiting"} => before[x] = Missing /\ backup[x] = Missing
    /\ phase[x] # "idle" => outcome[x] = "none"
    /\ phase[x] = "staged" => active = before[x] /\ backup[x] = Missing
    /\ phase[x] = "moved" => before[x] # Missing /\ active = Missing
    /\ phase[x] = "switched" => active \in D!Staged(x)
    /\ phase[x] \in {"removing", "removed", "restored"} => before[x] # Missing
    /\ phase[x] = "restored" => active = before[x]
    /\ phase[x] \in {"moved", "switched", "removing", "removed", "restored"} =>
         backup[x] = before[x]

(* The inductive invariant of the transactions (StagedApply).              *)
DirInv == D!TypeOK /\ LockHeld /\ PhaseShape

(* No transaction is under way at first.                                   *)
LEMMA DirInit == D!Init => DirInv
<1> SUFFICES ASSUME D!Init PROVE DirInv
  OBVIOUS
<1>1. D!TypeOK
  BY DEF D!Init, D!TypeOK, D!Phases, D!Requests, D!NoRequest, D!Labels, D!Outcomes
<1>2. LockHeld
  BY ConfigAssumption DEF LockHeld, D!Init, D!Holding, Txns
<1>3. PhaseShape
  BY DEF PhaseShape, D!Init, Txns
<1> QED
  BY <1>1, <1>2, <1>3 DEF DirInv

(* What a transaction stages is a directory (writeStagedFiles,             *)
(* preparePatchStage, buildMergedOutput).                                  *)
LEMMA StagedDir ==
  ASSUME D!TypeOK, NEW x \in Txns
  PROVE  D!Staged(x) \subseteq D!Dirs
<1> DEFINE req == request[x]
           old == before[x]
<1>1. req \in D!Requests /\ old \in D!Dirs \cup {Missing}
  BY DEF D!TypeOK, Txns
<1>2. CASE req.mode = "snapshot"
  <2>1. SUFFICES ASSUME NEW d \in D!Staged(x) PROVE d \in D!Dirs
    OBVIOUS
  <2>2. PICK c \in D!Merged(req.version, old) : d = [files |-> req.version, config |-> c]
    BY <1>2, <2>1 DEF D!Staged, D!Built
  <2>3. req.version \in P!Payload
    BY <1>1, <1>2 DEF D!Requests
  <2>4. D!ConfigOf(old) \subseteq P!Payload
    BY <1>1 DEF D!ConfigOf, D!Dirs
  <2>5. c \subseteq P!Payload
    BY <2>2, <2>3, <2>4 DEF D!Merged
  <2> QED
    BY <2>2, <2>3, <2>5 DEF D!Dirs, D!Labels
<1>3. CASE req.mode # "snapshot"
  BY <1>1, <1>3 DEF D!Staged, D!Built, D!Dirs, D!Requests, D!Labels
<1> QED
  BY <1>2, <1>3

(* Every step of a transaction, and a death, keeps the types of its state. *)
LEMMA DirTypes == D!TypeOK /\ [D!Next]_(D!vars) => D!TypeOK'
<1> SUFFICES ASSUME D!TypeOK, [D!Next]_(D!vars) PROVE D!TypeOK'
  OBVIOUS
<1>n. D!NoRequest \in D!Requests
  BY DEF D!NoRequest, D!Requests, D!Labels
<1>1. CASE UNCHANGED D!vars
  BY <1>1 DEF D!TypeOK, D!vars
<1>2. CASE D!Die
  BY <1>2, <1>n DEF D!TypeOK, D!Die, D!Phases, D!Outcomes
<1>3. ASSUME NEW x \in Txns, D!Step(x)
      PROVE D!TypeOK'
  <2>s. D!Staged(x) \subseteq D!Dirs
    BY StagedDir
  <2>1. CASE D!Stage(x)
    BY <2>1 DEF D!TypeOK, D!Stage, D!Goto, D!Phases, Txns
  <2>2. CASE D!MoveAway(x)
    BY <2>2 DEF D!TypeOK, D!MoveAway, D!BackupOf, D!Goto, D!Phases, Txns
  <2>3. CASE D!Activate(x)
    BY <2>3, <2>s DEF D!TypeOK, D!Activate, D!Goto, D!Phases, Txns
  <2>4. CASE D!ReloadOk(x)
    BY <2>4, <1>n DEF D!TypeOK, D!ReloadOk, D!Return, D!Phases, D!Outcomes, Txns
  <2>5. CASE D!Remove(x)
    BY <2>5 DEF D!TypeOK, D!Remove, D!Goto, D!Phases, Txns
  <2>6. CASE D!Restore(x)
    BY <2>6 DEF D!TypeOK, D!Restore, D!Goto, D!Phases, Txns
  <2>7. CASE D!ReloadAgain(x)
    BY <2>7, <1>n DEF D!TypeOK, D!ReloadAgain, D!Return, D!Phases, D!Outcomes, Txns
  <2> QED
    BY <1>3, <2>1, <2>2, <2>3, <2>4, <2>5, <2>6, <2>7 DEF D!Step
<1>4. ASSUME NEW x \in Txns, D!Failure(x)
      PROVE D!TypeOK'
  <2>1. CASE D!StageFails(x)
    BY <2>1, <1>n DEF D!TypeOK, D!StageFails, D!Return, D!Phases, D!Outcomes, Txns
  <2>2. CASE D!ActivateFails(x)
    BY <2>2, <1>n DEF D!TypeOK, D!ActivateFails, D!MovedBack, D!Return, D!Phases, D!Outcomes, Txns
  <2>3. CASE D!ReloadFails(x)
    BY <2>3, <1>n DEF D!TypeOK, D!ReloadFails, D!Return, D!Goto, D!Phases, D!Outcomes, Txns
  <2>4. CASE D!RollbackFails(x)
    BY <2>4, <1>n DEF D!TypeOK, D!RollbackFails, D!Return, D!Phases, D!Outcomes, Txns
  <2> QED
    BY <1>4, <2>1, <2>2, <2>3, <2>4 DEF D!Failure
<1>5. ASSUME NEW x \in Txns, NEW req \in D!Requests, D!Ask(x, req)
      PROVE D!TypeOK'
  BY <1>5 DEF D!TypeOK, D!Ask, D!Goto, D!Phases, D!Outcomes, Txns
<1> QED
  BY <1>1, <1>2, <1>3, <1>4, <1>5 DEF D!Next, Txns

(* Every step of a transaction, and a death, keeps the lock and the        *)
(* directories as the phases say.                                          *)
LEMMA DirStep == DirInv /\ [D!Next]_(D!vars) => DirInv'
<1> SUFFICES ASSUME DirInv, [D!Next]_(D!vars) PROVE DirInv'
  OBVIOUS
<1> USE DEF DirInv
<1>t. D!TypeOK'
  BY DirTypes
<1>1. CASE UNCHANGED D!vars
  BY <1>1, <1>t DEF D!vars, LockHeld, PhaseShape, D!Holding, D!Staged
<1>2. CASE D!Die
  <2>1. LockHeld'
    BY <1>2, ConfigAssumption DEF D!Die, LockHeld, D!Holding, Txns
  <2>2. PhaseShape'
    BY <1>2 DEF D!Die, PhaseShape, Txns
  <2> QED
    BY <1>t, <2>1, <2>2
<1>3. ASSUME NEW x \in Txns, D!Step(x)
      PROVE DirInv'
  <2>1. CASE D!Stage(x)
    <3>1. LockHeld'
      BY <2>1, ConfigAssumption DEF D!Stage, D!Goto, D!TypeOK, LockHeld, D!Holding, Txns
    <3>2. PhaseShape'
      BY <2>1, ConfigAssumption DEF D!Stage, D!Goto, D!TypeOK, LockHeld, PhaseShape, D!Holding, D!Staged, Txns
    <3> QED
      BY <1>t, <3>1, <3>2
  <2>2. CASE D!MoveAway(x)
    <3>1. LockHeld'
      BY <2>2, ConfigAssumption DEF D!MoveAway, D!Goto, D!TypeOK, LockHeld, D!Holding, Txns
    <3>2. PhaseShape'
      BY <2>2, ConfigAssumption DEF D!MoveAway, D!BackupOf, D!Goto, D!TypeOK, LockHeld, PhaseShape, D!Holding, D!Staged, Txns
    <3> QED
      BY <1>t, <3>1, <3>2
  <2>3. CASE D!Activate(x)
    <3>1. LockHeld'
      BY <2>3, ConfigAssumption DEF D!Activate, D!Goto, D!TypeOK, LockHeld, D!Holding, Txns
    <3>2. PhaseShape'
      BY <2>3, ConfigAssumption DEF D!Activate, D!Goto, D!TypeOK, LockHeld, PhaseShape, D!Holding, D!Staged, Txns
    <3> QED
      BY <1>t, <3>1, <3>2
  <2>4. CASE D!ReloadOk(x)
    <3>1. LockHeld'
      BY <2>4, ConfigAssumption DEF D!ReloadOk, D!Return, D!TypeOK, LockHeld, D!Holding, Txns
    <3>2. PhaseShape'
      BY <2>4, ConfigAssumption DEF D!ReloadOk, D!Return, D!TypeOK, LockHeld, PhaseShape, D!Holding, D!Staged, Txns
    <3> QED
      BY <1>t, <3>1, <3>2
  <2>5. CASE D!Remove(x)
    <3>1. LockHeld'
      BY <2>5, ConfigAssumption DEF D!Remove, D!Goto, D!TypeOK, LockHeld, D!Holding, Txns
    <3>2. PhaseShape'
      BY <2>5, ConfigAssumption DEF D!Remove, D!Goto, D!TypeOK, LockHeld, PhaseShape, D!Holding, D!Staged, Txns
    <3> QED
      BY <1>t, <3>1, <3>2
  <2>6. CASE D!Restore(x)
    <3>1. LockHeld'
      BY <2>6, ConfigAssumption DEF D!Restore, D!Goto, D!TypeOK, LockHeld, D!Holding, Txns
    <3>2. PhaseShape'
      BY <2>6, ConfigAssumption DEF D!Restore, D!Goto, D!TypeOK, LockHeld, PhaseShape, D!Holding, D!Staged, Txns
    <3> QED
      BY <1>t, <3>1, <3>2
  <2>7. CASE D!ReloadAgain(x)
    <3>1. LockHeld'
      BY <2>7, ConfigAssumption DEF D!ReloadAgain, D!Return, D!TypeOK, LockHeld, D!Holding, Txns
    <3>2. PhaseShape'
      BY <2>7, ConfigAssumption DEF D!ReloadAgain, D!Return, D!TypeOK, LockHeld, PhaseShape, D!Holding, D!Staged, Txns
    <3> QED
      BY <1>t, <3>1, <3>2
  <2> QED
    BY <1>3, <2>1, <2>2, <2>3, <2>4, <2>5, <2>6, <2>7 DEF D!Step
<1>4. ASSUME NEW x \in Txns, D!Failure(x)
      PROVE DirInv'
  <2>1. CASE D!StageFails(x)
    <3>1. LockHeld'
      BY <2>1, ConfigAssumption DEF D!StageFails, D!Return, D!TypeOK, LockHeld, D!Holding, Txns
    <3>2. PhaseShape'
      BY <2>1, ConfigAssumption DEF D!StageFails, D!Return, D!TypeOK, LockHeld, PhaseShape, D!Holding, D!Staged, Txns
    <3> QED
      BY <1>t, <3>1, <3>2
  <2>2. CASE D!ActivateFails(x)
    <3>1. LockHeld'
      BY <2>2, ConfigAssumption DEF D!ActivateFails, D!Return, D!TypeOK, LockHeld, D!Holding, Txns
    <3>2. PhaseShape'
      BY <2>2, ConfigAssumption DEF D!ActivateFails, D!MovedBack, D!Return, D!TypeOK, LockHeld, PhaseShape, D!Holding, D!Staged, Txns
    <3> QED
      BY <1>t, <3>1, <3>2
  <2>3. CASE D!ReloadFails(x)
    <3>1. LockHeld'
      BY <2>3, ConfigAssumption DEF D!ReloadFails, D!Goto, D!Return, D!TypeOK, LockHeld, D!Holding, Txns
    <3>2. PhaseShape'
      BY <2>3, ConfigAssumption DEF D!ReloadFails, D!RollsBack, D!Goto, D!Return, D!TypeOK, LockHeld, PhaseShape, D!Holding, D!Staged, Txns
    <3> QED
      BY <1>t, <3>1, <3>2
  <2>4. CASE D!RollbackFails(x)
    <3>1. LockHeld'
      BY <2>4, ConfigAssumption DEF D!RollbackFails, D!Return, D!TypeOK, LockHeld, D!Holding, Txns
    <3>2. PhaseShape'
      BY <2>4, ConfigAssumption DEF D!RollbackFails, D!Return, D!TypeOK, LockHeld, PhaseShape, D!Holding, D!Staged, Txns
    <3> QED
      BY <1>t, <3>1, <3>2
  <2> QED
    BY <1>4, <2>1, <2>2, <2>3, <2>4 DEF D!Failure
<1>5. ASSUME NEW x \in Txns, NEW req \in D!Requests, D!Ask(x, req)
      PROVE DirInv'
  <2>1. LockHeld'
    BY <1>5, ConfigAssumption DEF D!Ask, D!Goto, D!TypeOK, LockHeld, D!Holding, Txns
  <2>2. PhaseShape'
    BY <1>5 DEF D!Ask, D!Goto, D!TypeOK, PhaseShape, D!Staged, Txns
  <2> QED
    BY <1>t, <2>1, <2>2
<1> QED
  BY <1>1, <1>2, <1>3, <1>4, <1>5 DEF D!Next, Txns

(* A directory that a transaction has found is active or its backup, by    *)
(* the phases.                                                             *)
LEMMA DirKept == DirInv => NothingLost
BY DEF DirInv, LockHeld, PhaseShape, NothingLost, D!NothingLost, D!Holding, D!TypeOK, D!Phases, Txns

(* A step by which a transaction fails leaves the directory it found.      *)
LEMMA DirRestores ==
  DirInv /\ [D!Next]_(D!vars) =>
    \A x \in Txns : D!Holding(x) /\ outcome'[x] \in {"failed", "rolled_back"} =>
      active' = before[x] \/ before[x] = Missing \/ torn'
<1> SUFFICES ASSUME DirInv, [D!Next]_(D!vars), NEW x \in Txns,
                    D!Holding(x), outcome'[x] \in {"failed", "rolled_back"}
             PROVE  active' = before[x] \/ before[x] = Missing \/ torn'
  OBVIOUS
<1>1. lock = x /\ outcome[x] = "none" /\ phase[x] \notin {"idle", "waiting"}
  BY DEF DirInv, LockHeld, PhaseShape, D!Holding
<1>2. CASE UNCHANGED D!vars
  BY <1>1, <1>2 DEF D!vars
<1>3. CASE D!Die
  BY <1>3 DEF D!Die, Txns
<1>4. ASSUME NEW y \in Txns, D!Step(y) \/ D!Failure(y)
      PROVE active' = before[x] \/ before[x] = Missing \/ torn'
  <2>1. CASE y # x
    BY <1>1, <1>4, <2>1, ConfigAssumption
    DEF D!Step, D!Failure, D!Stage, D!MoveAway, D!Activate, D!ReloadOk, D!Remove, D!Restore,
        D!ReloadAgain, D!StageFails, D!ActivateFails, D!ReloadFails, D!RollbackFails, D!Return,
        D!Goto, DirInv, D!TypeOK, Txns
  <2>2. CASE y = x /\ D!Step(x)
    BY <1>1, <2>2
    DEF D!Step, D!Stage, D!MoveAway, D!Activate, D!ReloadOk, D!Remove, D!Restore,
        D!ReloadAgain, D!Return, D!Goto, DirInv, PhaseShape, D!TypeOK, Txns
  <2>3. CASE y = x /\ D!Failure(x)
    BY <1>1, <2>3, ConfigAssumption
    DEF D!Failure, D!StageFails, D!ActivateFails, D!MovedBack, D!ReloadFails, D!RollsBack,
        D!RollbackFails, D!Return, D!Goto, DirInv, PhaseShape, D!TypeOK, Txns
  <2> QED
    BY <1>4, <2>1, <2>2, <2>3
<1>5. ASSUME NEW y \in Txns, NEW req \in D!Requests, D!Ask(y, req)
      PROVE FALSE
  BY <1>1, <1>5 DEF D!Ask, DirInv, D!TypeOK, Txns
<1> QED
  BY <1>2, <1>3, <1>4, <1>5 DEF D!Next, Txns
-----------------------------------------------------------------------------
(* The panel's own steps, whatever the agent is about.                     *)
PanelNext ==
  \/ \E h \in Handlers :
       \/ \E t \in Tasks, cur \in 0..MaxRevisions : P!GetApplyBatch(h, t, cur)
       \/ \E t \in Tasks, r \in P!RunIds, status \in P!Statuses : P!ReportFind(h, t, r, status)
       \/ P!Taken(h) /\ UNCHANGED <<runs, latest, artifacts, policy>>
       \/ P!CreateApplyRun(h) \/ P!UpdateStatus(h) \/ P!WriteFails(h)
       \/ \E r \in 1..latest : P!OperatorPrepare(h, r)
       \/ \E r \in P!RunIds : P!CancelFind(h, r)
  \/ \E C \in SUBSET Tasks : P!Orphaned(C) /\ UNCHANGED <<runs, latest, artifacts, policy>>
  \/ \E k \in P!RunIds : P!ExpireStale(k)
  \/ P!Publish \/ P!EditPolicy

(* What a request of the panel holds is of the table of runs and not       *)
(* beyond the latest revision; an update was allowed by the status it has  *)
(* seen.                                                                   *)
GoodReq(q, table, top) ==
  /\ q.pc \in {"create", "update"} => q.reply = "none"
  /\ q.pc = "create" => q.op \in {"batch", "prepare"} /\ q.since <= Len(table)
  /\ q.pc = "update" => /\ q.op \in {"report", "cancel"}
                        /\ q.seen \in P!Statuses /\ q.status \in P!Statuses
                        /\ P!TransitionAllowed(q.seen, q.status)
                        /\ q.op = "cancel" => q.status = "failed"
  /\ q.op \in {"report", "cancel"} => q.run \in 1..Len(table)
  /\ q.pc = "create" \/ q.reply = "batch" => q.payload \in P!Payload /\ q.payload.revision <= top
  /\ q.reply = "batch" => /\ q.op \in {"batch", "prepare"}
                          /\ q.run \in 1..Len(table)
                          /\ table[q.run].revision = q.payload.revision
  /\ q.reply = "accepted" => q.op \in {"report", "cancel"}

ReqShape == \A h \in Handlers : GoodReq(reqs[h], runs, latest)

PanelInv == P!TypeOK /\ ReqShape

Run == [revision : P!Revisions, status : P!Statuses]

(* A handler without a request is in order.                                *)
LEMMA IdleGood ==
  P!Idle \in P!Request /\ \A table, top : GoodReq(P!Idle, table, top)
BY ConfigAssumption DEF P!Idle, P!Request, GoodReq

(* A request that is settled when nobody waits for it stays in order.      *)
LEMMA SettledGood ==
  ASSUME NEW table, NEW top, NEW q \in P!Request, GoodReq(q, table, top)
  PROVE  P!Settled(q) \in P!Request /\ GoodReq(P!Settled(q), table, top)
BY IdleGood DEF P!Settled

(* What a step does to the table.                                          *)
TableGrows ==
  /\ Len(runs) <= Len(runs')
  /\ \A r \in P!RunIds : runs'[r].revision = runs[r].revision
  /\ latest <= latest'

(* A request in order stays so when the table grows.                       *)
LEMMA GoodStays ==
  ASSUME P!TypeOK, TableGrows, Len(runs') \in Nat, latest' \in Nat, NEW q \in P!Request, GoodReq(q, runs, latest)
  PROVE  GoodReq(q, runs', latest')
<1>1. Len(runs) \in Nat /\ q.since \in Nat /\ latest \in Nat
  BY ConfigAssumption DEF P!TypeOK, P!Request
<1>2. q.payload \in P!Payload => q.payload.revision \in Nat
  BY ConfigAssumption DEF P!Payload, P!Revisions
<1> QED
  BY <1>1, <1>2 DEF GoodReq, TableGrows, P!RunIds

(* A handler that goes on with a request in order leaves all requests in   *)
(* order.                                                                  *)
LEMMA GoPanel ==
  ASSUME PanelInv, NEW h \in Handlers, NEW q \in P!Request, P!Go(h, q),
         TableGrows, Len(runs') \in Nat, latest' \in Nat, GoodReq(q, runs', latest')
  PROVE  reqs' \in [Handlers -> P!Request] /\ ReqShape'
<1>1. P!Settled(q) \in P!Request /\ GoodReq(P!Settled(q), runs', latest')
  BY SettledGood
<1>2. reqs' = [reqs EXCEPT ![h] = P!Settled(q)] /\ reqs \in [Handlers -> P!Request]
  BY DEF P!Go, PanelInv, P!TypeOK
<1>3. \A k \in Handlers : reqs'[k] \in P!Request /\ GoodReq(reqs'[k], runs', latest')
  <2> TAKE k \in Handlers
  <2>1. CASE k = h
    BY <1>1, <1>2, <2>1
  <2>2. CASE k # h
    BY <1>2, <2>2, GoodStays DEF PanelInv, ReqShape
  <2> QED
    BY <2>1, <2>2
<1> QED
  BY <1>2, <1>3 DEF ReqShape

(* findReusableOpenApplyRun finds one of the open runs if there is any.    *)
LEMMA GreatestExists ==
  ASSUME NEW n \in Nat, NEW S, S \subseteq 1..n, S # {}
  PROVE  P!Newest(S) \in S
<1> DEFINE Less == OpToRel(<, Nat)
           Gaps == {n - s : s \in S}
<1>1. \E g \in Gaps : \A k \in Gaps : ~(<<k, g>> \in Less)
  <2>0. \A s \in S : n - s \in Nat
    OBVIOUS
  <2>1. Gaps \subseteq Nat /\ Gaps # {}
    BY <2>0, Zenon
  <2> HIDE DEF Gaps
  <2> QED
    BY <2>1, NatLessThanWellFounded, WFMin
<1>2. PICK s \in S : \A k \in Gaps : ~(<<k, n - s>> \in Less)
  BY <1>1
<1>3. \A k \in S : k <= s
  <2> TAKE k \in S
  <2>1. ~(<<n - k, n - s>> \in Less)
    BY <1>2
  <2>2. ~(n - k < n - s)
    BY <2>1 DEF OpToRel
  <2> QED
    BY <2>2
<1> QED
  BY <1>3 DEF P!Newest

(* A step that leaves the runs alone lets the table grow.                  *)
LEMMA TableSame ==
  ASSUME PanelInv, runs' = runs, latest' \in 0..MaxRevisions, latest <= latest'
  PROVE  TableGrows /\ Len(runs') \in Nat /\ latest' \in Nat
BY ConfigAssumption DEF TableGrows, PanelInv, P!TypeOK

(* PrepareApplyRun, up to the look for an open run, keeps the requests in  *)
(* order.                                                                  *)
LEMMA PrepareKept ==
  ASSUME PanelInv, NEW h \in Handlers, NEW q \in P!Request, P!Prepare(h, q),
         q.op \in {"batch", "prepare"}, q.payload \in P!Payload, q.payload.revision <= latest,
         q.reply = "none", q.pc = "idle"
  PROVE  PanelInv' /\ TableGrows
<1>1. /\ Len(runs) \in 0..MaxRuns /\ runs \in Seq(Run) /\ latest \in 0..MaxRevisions
      /\ q.payload.revision \in P!Revisions
      /\ artifacts \in [P!Revisions -> 0..MaxEdits] /\ policy \in 0..MaxEdits
  BY ConfigAssumption DEF PanelInv, P!TypeOK, Run, P!Payload
<1>2. runs' = runs /\ latest' = latest /\ policy' = policy
  BY DEF P!Prepare
<1>3. TableGrows /\ Len(runs') \in Nat /\ latest' \in Nat
  BY <1>1, <1>2, TableSame
<1>4. artifacts' \in [P!Revisions -> 0..MaxEdits]
  BY <1>1 DEF P!Prepare
<1>5. reqs' \in [Handlers -> P!Request] /\ ReqShape'
  <2> DEFINE open == P!OpenRuns(q.payload.revision)
  <2>1. CASE open = {}
    <3> DEFINE new == [q EXCEPT !.pc = "create", !.since = Len(runs)]
    <3>1. P!Go(h, new)
      BY <2>1 DEF P!Prepare
    <3>2. new \in P!Request
      BY <1>1 DEF P!Request
    <3>3. GoodReq(new, runs', latest')
      BY <1>1, <1>2 DEF GoodReq, P!Request
    <3> QED
      BY <1>3, <3>1, <3>2, <3>3, GoPanel
  <2>2. CASE open # {}
    <3> DEFINE run == P!Newest(open)
               new == [q EXCEPT !.pc = "reply", !.run = run, !.reply = "batch"]
    <3>1. P!Go(h, new)
      BY <2>2 DEF P!Prepare
    <3>2. open \subseteq 1..Len(runs) /\ Len(runs) \in Nat
      BY <1>1 DEF P!OpenRuns, P!RunIds
    <3>3. run \in open
      BY <2>2, <3>2, GreatestExists
    <3>4. run \in 1..Len(runs) /\ runs[run].revision = q.payload.revision
      BY <3>3 DEF P!OpenRuns, P!RunIds
    <3> HIDE DEF run
    <3>n. run \in 0..MaxRuns
      BY <1>1, <3>4, ConfigAssumption
    <3>5. new \in P!Request
      BY <3>n DEF P!Request
    <3>6. GoodReq(new, runs', latest')
      BY <1>1, <1>2, <3>4 DEF GoodReq, P!Request
    <3> QED
      BY <1>3, <3>1, <3>5, <3>6, GoPanel
  <2> QED
    BY <2>1, <2>2
<1> QED
  BY <1>1, <1>2, <1>3, <1>4, <1>5 DEF PanelInv, P!TypeOK, Run

(* GetApplyBatch keeps the requests in order.                              *)
LEMMA BatchKept ==
  ASSUME PanelInv, NEW h \in Handlers, NEW t \in Tasks, NEW cur \in 0..MaxRevisions,
         P!GetApplyBatch(h, t, cur)
  PROVE  PanelInv' /\ TableGrows
<1> DEFINE q == [P!Idle EXCEPT !.op = "batch", !.caller = t]
<1>1. q \in P!Request /\ q.op = "batch" /\ q.reply = "none" /\ q.pc = "idle"
  BY IdleGood DEF P!Request, P!Idle
<1>t. latest \in 0..MaxRevisions /\ artifacts \in [P!Revisions -> 0..MaxEdits] /\ runs \in Seq(Run)
  BY DEF PanelInv, P!TypeOK, Run
<1>2. CASE latest > cur /\ P!Prepare(h, [q EXCEPT !.payload = [revision |-> latest, version |-> artifacts[latest]]])
  <2> DEFINE payload == [revision |-> latest, version |-> artifacts[latest]]
             new == [q EXCEPT !.payload = payload]
  <2>1. latest \in P!Revisions
    BY <1>t, <1>2, ConfigAssumption DEF P!Revisions
  <2>2. payload \in P!Payload /\ payload.revision <= latest
    BY <2>1, <1>t DEF P!Payload, P!Revisions
  <2> HIDE DEF payload, q
  <2>3. new \in P!Request /\ new.payload = payload /\ new.op = "batch" /\ new.reply = "none" /\ new.pc = "idle"
    BY <1>1, <2>2 DEF P!Request
  <2>4. P!Prepare(h, new)
    BY <1>2 DEF payload
  <2> HIDE DEF new
  <2> QED
    BY <2>2, <2>3, <2>4, PrepareKept
<1>3. CASE latest <= cur /\ P!Go(h, [q EXCEPT !.pc = "reply", !.reply = "not_modified"])
           /\ UNCHANGED <<runs, latest, artifacts, policy>>
  <2> DEFINE new == [q EXCEPT !.pc = "reply", !.reply = "not_modified"]
  <2>1. new \in P!Request
    BY <1>1 DEF P!Request
  <2>2. GoodReq(new, runs', latest')
    BY <1>1 DEF GoodReq, P!Idle
  <2>3. TableGrows /\ Len(runs') \in Nat /\ latest' \in Nat
    BY <1>t, <1>3, TableSame, ConfigAssumption
  <2>4. reqs' \in [Handlers -> P!Request] /\ ReqShape'
    BY <1>3, <2>1, <2>2, <2>3, GoPanel
  <2> QED
    BY <1>3, <2>3, <2>4 DEF PanelInv, P!TypeOK
<1> QED
  BY <1>2, <1>3 DEF P!GetApplyBatch

(* The finds of ReportApplyResult and CancelApplyRun keep the requests in  *)
(* order.                                                                  *)
LEMMA FindKept ==
  ASSUME PanelInv, NEW h \in Handlers, NEW r \in P!RunIds,
         \/ \E t \in Tasks, status \in P!Statuses : P!ReportFind(h, t, r, status)
         \/ P!CancelFind(h, r)
  PROVE  PanelInv' /\ TableGrows
<1>1. UNCHANGED <<runs, latest, artifacts, policy>>
  BY DEF P!ReportFind, P!CancelFind
<1>s. Len(runs) \in 0..MaxRuns /\ runs \in Seq(Run) /\ latest \in 0..MaxRevisions
  BY ConfigAssumption DEF PanelInv, P!TypeOK, Run
<1>r. r \in 1..Len(runs)
  BY DEF P!RunIds
<1>t. /\ Len(runs) \in 0..MaxRuns /\ runs \in Seq(Run) /\ latest \in 0..MaxRevisions
      /\ r \in 0..MaxRuns /\ r \in 1..Len(runs) /\ runs[r] \in Run
  BY <1>s, <1>r, ConfigAssumption
<1>2. TableGrows /\ Len(runs') \in Nat /\ latest' \in Nat
  BY <1>1, <1>t, TableSame
<1>3. \E q \in P!Request : GoodReq(q, runs', latest') /\ P!Go(h, q)
  <2>1. ASSUME NEW t \in Tasks, NEW to \in P!Statuses, P!ReportFind(h, t, r, to)
        PROVE  \E q \in P!Request : GoodReq(q, runs', latest') /\ P!Go(h, q)
    <3> DEFINE from == runs[r].status
               q == [P!Idle EXCEPT !.op = "report", !.caller = t, !.run = r, !.status = to, !.seen = from]
    <3>1. from \in P!Statuses
      BY <1>t DEF Run
    <3>2. q \in P!Request
      BY <1>t, <3>1, IdleGood DEF P!Request
    <3>3. CASE from = to \/ P!IgnoreLate(from, to) \/ ~P!TransitionAllowed(from, to)
      <4> DEFINE new == [q EXCEPT !.pc = "reply", !.reply = P!ReplyUnwritten(from, to)]
      <4>1. P!Go(h, new)
        BY <2>1, <3>3 DEF P!ReportFind
      <4>r. P!ReplyUnwritten(from, to) \in {"accepted", "rejected"}
        BY DEF P!ReplyUnwritten
      <4>2. new \in P!Request
        <5> HIDE DEF q, from
        <5> QED
          BY <3>2, <4>r DEF P!Request
      <4>3. GoodReq(new, runs', latest')
        BY <1>1, <1>t, <4>r DEF GoodReq, P!Idle
      <4> QED
        BY <4>1, <4>2, <4>3
    <3>4. CASE ~(from = to \/ P!IgnoreLate(from, to) \/ ~P!TransitionAllowed(from, to))
      <4> DEFINE new == [q EXCEPT !.pc = "update"]
      <4>1. P!Go(h, new)
        BY <2>1, <3>4 DEF P!ReportFind
      <4>2. new \in P!Request
        BY <3>2 DEF P!Request
      <4>3. GoodReq(new, runs', latest')
        BY <1>1, <1>t, <3>1, <3>4 DEF GoodReq, P!Idle
      <4> QED
        BY <4>1, <4>2, <4>3
    <3> QED
      BY <3>3, <3>4
  <2>2. CASE P!CancelFind(h, r)
    <3> DEFINE new == [P!Idle EXCEPT !.op = "cancel", !.pc = "update", !.run = r,
                                     !.status = "failed", !.seen = runs[r].status]
    <3>1. P!Go(h, new) /\ runs[r].status \in P!Open
      BY <2>2 DEF P!CancelFind, P!Cancellable
    <3>2. new \in P!Request
      BY <1>t, <3>1, IdleGood DEF P!Request, P!Statuses, P!Terminal
    <3>3. GoodReq(new, runs', latest')
      BY <1>1, <1>t, <3>1 DEF GoodReq, P!Idle, P!TransitionAllowed, P!Statuses, P!Terminal, P!Open
    <3> QED
      BY <3>1, <3>2, <3>3
  <2> QED
    BY <2>1, <2>2
<1>4. reqs' \in [Handlers -> P!Request] /\ ReqShape'
  BY <1>2, <1>3, GoPanel
<1> QED
  BY <1>1, <1>2, <1>4 DEF PanelInv, P!TypeOK

(* The insert of a run keeps the requests in order.                        *)
LEMMA CreateKept ==
  ASSUME PanelInv, NEW h \in Handlers, P!CreateApplyRun(h)
  PROVE  PanelInv' /\ TableGrows
<1> DEFINE q == reqs[h]
           row == [revision |-> q.payload.revision, status |-> "pending"]
           new == [q EXCEPT !.pc = "reply", !.run = Len(runs) + 1, !.since = 0, !.reply = "batch"]
<1>1. /\ q \in P!Request /\ GoodReq(q, runs, latest) /\ q.pc = "create"
      /\ Len(runs) \in 0..MaxRuns /\ runs \in Seq(Run) /\ latest \in 0..MaxRevisions
  BY ConfigAssumption DEF PanelInv, P!TypeOK, Run, ReqShape, P!CreateApplyRun
<1>2. Len(runs) < MaxRuns /\ runs' = Append(runs, row) /\ UNCHANGED <<latest, artifacts, policy>>
      /\ P!Go(h, new)
  BY DEF P!CreateApplyRun
<1>3. q.payload \in P!Payload /\ q.payload.revision \in P!Revisions /\ q.payload.revision <= latest
  BY <1>1 DEF GoodReq, P!Payload
<1>4. row \in Run
  BY <1>3 DEF Run, P!Statuses, P!Open
<1> HIDE DEF row
<1>5. /\ runs' \in Seq(Run) /\ Len(runs') = Len(runs) + 1
      /\ \A r \in 1..Len(runs) : runs'[r] = runs[r]
      /\ runs'[Len(runs) + 1] = row
  BY <1>1, <1>2, <1>4
<1>6. TableGrows /\ Len(runs') \in Nat /\ latest' \in Nat
  BY <1>1, <1>2, <1>5, ConfigAssumption DEF TableGrows, P!RunIds
<1>7. new \in P!Request
  <2>1. Len(runs) + 1 \in 0..MaxRuns /\ 0 \in 0..MaxRuns
    BY <1>1, <1>2, ConfigAssumption
  <2> HIDE DEF q
  <2> QED
    BY <1>1, <2>1 DEF P!Request
<1>8. GoodReq(new, runs', latest')
  <2>1. row.revision = q.payload.revision
    BY DEF row
  <2> QED
    BY <1>1, <1>2, <1>3, <1>5, <2>1 DEF GoodReq, P!Request
<1>9. reqs' \in [Handlers -> P!Request] /\ ReqShape'
  BY <1>2, <1>6, <1>7, <1>8, GoPanel
<1> QED
  BY <1>1, <1>2, <1>5, <1>6, <1>9, ConfigAssumption DEF PanelInv, P!TypeOK, Run

(* The update of a run's status keeps the requests in order.               *)
LEMMA UpdateKept ==
  ASSUME PanelInv, NEW h \in Handlers, P!UpdateStatus(h)
  PROVE  PanelInv' /\ TableGrows
<1> DEFINE q == reqs[h]
           new == [q EXCEPT !.pc = "reply", !.reply = "accepted"]
<1>1. /\ q \in P!Request /\ GoodReq(q, runs, latest) /\ q.pc = "update"
      /\ Len(runs) \in 0..MaxRuns /\ runs \in Seq(Run) /\ latest \in 0..MaxRevisions
  BY ConfigAssumption DEF PanelInv, P!TypeOK, Run, ReqShape, P!UpdateStatus
<1>2. runs' = [runs EXCEPT ![q.run].status = q.status] /\ UNCHANGED <<latest, artifacts, policy>>
      /\ P!Go(h, new)
  BY DEF P!UpdateStatus
<1>3. q.run \in 1..Len(runs) /\ q.status \in P!Statuses
  BY <1>1 DEF GoodReq
<1>5. /\ runs' \in Seq(Run) /\ Len(runs') = Len(runs)
      /\ \A r \in 1..Len(runs) : runs'[r].revision = runs[r].revision
  <2> HIDE DEF q
  <2>1. runs \in [1..Len(runs) -> Run]
    BY <1>1
  <2>2. runs' = [runs EXCEPT ![q.run] = [runs[q.run] EXCEPT !.status = q.status]]
    BY <1>2
  <2>3. runs[q.run] \in Run
    BY <1>3, <2>1
  <2>4. /\ [runs[q.run] EXCEPT !.status = q.status] \in Run
        /\ [runs[q.run] EXCEPT !.status = q.status].revision = runs[q.run].revision
    BY <1>3, <2>3 DEF Run
  <2> QED
    BY <1>1, <1>3, <2>1, <2>2, <2>4
<1>6. TableGrows /\ Len(runs') \in Nat /\ latest' \in Nat
  BY <1>1, <1>2, <1>5, ConfigAssumption DEF TableGrows, P!RunIds
<1>7. new \in P!Request
  BY <1>1 DEF P!Request
<1>8. GoodReq(new, runs', latest')
  BY <1>1, <1>5 DEF GoodReq, P!Request
<1>9. reqs' \in [Handlers -> P!Request] /\ ReqShape'
  BY <1>2, <1>6, <1>7, <1>8, GoPanel
<1> QED
  BY <1>1, <1>2, <1>5, <1>6, <1>9, ConfigAssumption DEF PanelInv, P!TypeOK, Run

(* A step that leaves the runs alone keeps the requests in order if it     *)
(* does so one by one.                                                     *)
LEMMA OthersKept ==
  ASSUME PanelInv, UNCHANGED <<runs>>, latest' \in 0..MaxRevisions, latest <= latest',
         artifacts' \in [P!Revisions -> 0..MaxEdits], policy' \in 0..MaxEdits,
         reqs' \in [Handlers -> P!Request],
         \A h \in Handlers : GoodReq(reqs'[h], runs, latest)
  PROVE  PanelInv' /\ TableGrows
<1>1. TableGrows /\ Len(runs') \in Nat /\ latest' \in Nat
  BY TableSame
<1>2. ReqShape'
  BY <1>1, GoodStays DEF ReqShape, PanelInv
<1> QED
  BY <1>1, <1>2 DEF PanelInv, P!TypeOK

(* Every step of the panel keeps its invariant and lets the table grow.    *)
LEMMA PanelKept == PanelInv /\ [PanelNext]_(P!vars) => PanelInv' /\ TableGrows
<1> SUFFICES ASSUME PanelInv, [PanelNext]_(P!vars) PROVE PanelInv' /\ TableGrows
  OBVIOUS
<1>t. /\ Len(runs) \in 0..MaxRuns /\ runs \in Seq(Run) /\ latest \in 0..MaxRevisions
      /\ artifacts \in [P!Revisions -> 0..MaxEdits] /\ policy \in 0..MaxEdits
      /\ reqs \in [Handlers -> P!Request]
      /\ \A h \in Handlers : GoodReq(reqs[h], runs, latest)
  BY ConfigAssumption DEF PanelInv, P!TypeOK, Run, ReqShape
<1>1. CASE UNCHANGED P!vars
  BY <1>t, <1>1, OthersKept DEF P!vars
<1>2. ASSUME NEW h \in Handlers, NEW t \in Tasks, NEW cur \in 0..MaxRevisions, P!GetApplyBatch(h, t, cur)
      PROVE PanelInv' /\ TableGrows
  BY <1>2, BatchKept
<1>3. ASSUME NEW h \in Handlers, NEW t \in Tasks, NEW r \in P!RunIds, NEW status \in P!Statuses,
             P!ReportFind(h, t, r, status)
      PROVE PanelInv' /\ TableGrows
  BY <1>3, FindKept
<1>4. ASSUME NEW h \in Handlers, P!CreateApplyRun(h) PROVE PanelInv' /\ TableGrows
  BY <1>4, CreateKept
<1>5. ASSUME NEW h \in Handlers, P!UpdateStatus(h) PROVE PanelInv' /\ TableGrows
  BY <1>5, UpdateKept
<1>6. ASSUME NEW h \in Handlers, P!Taken(h) \/ P!WriteFails(h), UNCHANGED <<runs, latest, artifacts, policy>>
      PROVE PanelInv' /\ TableGrows
  <2>1. reqs' = [reqs EXCEPT ![h] = P!Idle]
    BY <1>6 DEF P!Taken, P!WriteFails
  <2>2. reqs' \in [Handlers -> P!Request] /\ \A k \in Handlers : GoodReq(reqs'[k], runs, latest)
    BY <1>t, <2>1, IdleGood
  <2> QED
    BY <1>t, <1>6, <2>2, OthersKept
<1>7. ASSUME NEW h \in Handlers, NEW r \in 1..latest, P!OperatorPrepare(h, r)
      PROVE PanelInv' /\ TableGrows
  <2> DEFINE payload == [revision |-> r, version |-> artifacts[r]]
             new == [P!Idle EXCEPT !.op = "prepare", !.payload = payload]
  <2>1. r \in P!Revisions /\ r <= latest
    BY <1>t, ConfigAssumption DEF P!Revisions
  <2>2. payload \in P!Payload /\ payload.revision <= latest
    BY <2>1, <1>t DEF P!Payload, P!Revisions
  <2>4. P!Prepare(h, new)
    BY <1>7 DEF P!OperatorPrepare
  <2> HIDE DEF payload
  <2>3. new \in P!Request /\ new.payload = payload /\ new.op = "prepare" /\ new.reply = "none" /\ new.pc = "idle"
    BY <2>2, IdleGood DEF P!Request, P!Idle
  <2> HIDE DEF new
  <2> QED
    BY <2>2, <2>3, <2>4, PrepareKept
<1>8. ASSUME NEW h \in Handlers, NEW r \in P!RunIds, P!CancelFind(h, r)
      PROVE PanelInv' /\ TableGrows
  BY <1>8, FindKept
<1>9. ASSUME NEW C \in SUBSET Tasks, P!Orphaned(C), UNCHANGED <<runs, latest, artifacts, policy>>
      PROVE PanelInv' /\ TableGrows
  <2>1. \A h \in Handlers : reqs'[h] = IF reqs[h].caller \in C
                                      THEN P!Settled([reqs[h] EXCEPT !.caller = NoTask]) ELSE reqs[h]
    BY <1>9 DEF P!Orphaned
  <2>2. ASSUME NEW h \in Handlers
        PROVE  reqs'[h] \in P!Request /\ GoodReq(reqs'[h], runs, latest)
    <3> DEFINE q == [reqs[h] EXCEPT !.caller = NoTask]
    <3>1. q \in P!Request
      BY <1>t DEF P!Request
    <3>2. GoodReq(q, runs, latest)
      BY <1>t DEF GoodReq, P!Request
    <3>3. P!Settled(q) \in P!Request /\ GoodReq(P!Settled(q), runs, latest)
      BY <3>1, <3>2, SettledGood
    <3> HIDE DEF q
    <3> QED
      BY <1>t, <2>1, <3>3 DEF q
  <2>3. reqs' \in [Handlers -> P!Request]
    BY <1>9, <2>2 DEF P!Orphaned
  <2> QED
    BY <1>t, <1>9, <2>2, <2>3, OthersKept
<1>10. ASSUME NEW k \in P!RunIds, P!ExpireStale(k)
       PROVE PanelInv' /\ TableGrows
  <2>1. /\ runs' = [r \in 1..Len(runs) |-> IF r <= k /\ runs[r].status \in P!Open
                                   THEN [runs[r] EXCEPT !.status = "failed"] ELSE runs[r]]
        /\ UNCHANGED <<latest, artifacts, policy, reqs>>
    BY <1>10 DEF P!ExpireStale, P!RunIds
  <2>r. ASSUME NEW r \in 1..Len(runs)
        PROVE  runs[r] \in Run /\ [runs[r] EXCEPT !.status = "failed"] \in Run
    <3>1. runs[r] \in Run
      BY <1>t
    <3> QED
      BY <3>1 DEF Run, P!Statuses, P!Terminal
  <2>2. runs' \in [1..Len(runs) -> Run]
    BY <2>1, <2>r
  <2>3. runs' \in Seq(Run) /\ Len(runs') = Len(runs)
    BY <1>t, <2>2
  <2>4. \A r \in 1..Len(runs) : runs'[r].revision = runs[r].revision
    BY <2>r, <2>1 DEF Run
  <2>5. TableGrows /\ Len(runs') \in Nat /\ latest' \in Nat
    BY <1>t, <2>1, <2>3, <2>4, ConfigAssumption DEF TableGrows, P!RunIds
  <2>6. ReqShape'
    BY <1>t, <2>1, <2>5, GoodStays DEF ReqShape, PanelInv
  <2> QED
    BY <1>t, <2>1, <2>3, <2>5, <2>6 DEF PanelInv, P!TypeOK, Run
<1>11. CASE P!Publish
  <2>1. artifacts' \in [P!Revisions -> 0..MaxEdits]
    BY <1>t, <1>11 DEF P!Publish
  <2>2. latest' \in 0..MaxRevisions /\ latest <= latest' /\ UNCHANGED <<runs, policy, reqs>>
    BY <1>t, <1>11, ConfigAssumption DEF P!Publish
  <2> QED
    BY <1>t, <2>1, <2>2, OthersKept
<1>12. CASE P!EditPolicy
  <2>1. policy' \in 0..MaxEdits /\ UNCHANGED <<runs, latest, artifacts, reqs>>
    BY <1>t, <1>12, ConfigAssumption DEF P!EditPolicy
  <2> QED
    BY <1>t, <2>1, OthersKept
<1> QED
  BY <1>1, <1>2, <1>3, <1>4, <1>5, <1>6, <1>7, <1>8, <1>9, <1>10, <1>11, <1>12 DEF PanelNext, P!WriteFails
-----------------------------------------------------------------------------
(* The types of the agent's part.                                          *)
AgentTypes ==
  /\ gate \in BOOLEAN
  /\ revision \in 0..MaxRevisions
  /\ queue \in Seq(Tasks) /\ worker \in Tasks \cup {NoTask}
  /\ task \in [Tasks -> Task]
  /\ injection \in [stage : {"idle", "read", "applying"}, config : SUBSET P!Payload]
  /\ upsets \in 0..MaxUpsets /\ injections \in 0..MaxInjections
  /\ raced \in BOOLEAN

Concerned == {"announcing", "applying", "reporting"}

(* What a task has received is a run of the table and its revision.        *)
GoodTask(k, table, top) ==
  /\ k.stage = "none" => k = Free
  /\ k.stage \in Concerned =>
       /\ k.run \in 1..Len(table)
       /\ k.payload \in P!Payload /\ k.payload.revision <= top
       /\ table[k.run].revision = k.payload.revision
  /\ k.stage = "reporting" => k.status \in P!Terminal

TaskShape == \A t \in Tasks : GoodTask(task[t], runs, latest)

(* The request a task waits for is the one its stage calls for.            *)
CallFits(q, k) ==
  /\ k.stage \in Calling
  /\ k.stage = "fetching" => q.op = "batch"
  /\ k.stage \in {"announcing", "reporting"} => q.op = "report" /\ q.run = k.run
  /\ k.stage = "announcing" => q.status = "applying"
  /\ k.stage = "reporting" => q.status = k.status

CallsFit == \A h \in Handlers : \A t \in Tasks : reqs[h].caller = t => CallFits(reqs[h], task[t])

(* A task waits for one request at a time.                                 *)
OneCall ==
  \A h, k \in Handlers : reqs[h].caller \in Tasks /\ reqs[k].caller = reqs[h].caller => h = k

(* A transaction is under way only for a task, or an injection, that       *)
(* applies, and with what it has received.                                 *)
TxnsFit ==
  /\ \A t \in Tasks :
       /\ phase[t] # "idle" =>
            /\ task[t].stage = "applying"
            /\ request[t] = [mode |-> "snapshot", version |-> task[t].payload, config |-> {}]
       /\ task[t].stage = "applying" /\ phase[t] = "idle" => outcome[t] # "none"
  /\ phase[Injector] # "idle" =>
       /\ injection.stage = "applying"
       /\ request[Injector] = [mode |-> "patch", version |-> P!NoPayload, config |-> injection.config]

Begun == {"fetching"} \cup Concerned

(* What waits in the queue is queued, once; what has begun and lives is    *)
(* what the worker runs.                                                   *)
QueueShape ==
  /\ \A i \in 1..Len(queue) : task[queue[i]].stage = "queued" /\ task[queue[i]].live
  /\ \A i, j \in 1..Len(queue) : queue[i] = queue[j] => i = j
  /\ \A t \in Tasks : task[t].stage \in Begun /\ task[t].live => worker = t
  /\ worker \in Tasks => task[worker].stage \in Begun

(* The inductive invariant the theorems rest on.                           *)
Shape == /\ PanelInv /\ DirInv /\ AgentTypes /\ TaskShape
         /\ CallsFit /\ OneCall /\ TxnsFit /\ QueueShape

(* A free task is a task.                                                  *)
LEMMA FreeTask == Free \in Task
<1>1. 0 \in 0..MaxRevisions /\ 0 \in 0..MaxRuns
  BY ConfigAssumption
<1> QED
  BY <1>1 DEF Free, Task

(* The invariant holds when panel and agent start.                         *)
LEMMA InitShape == Init => Shape
<1> SUFFICES ASSUME Init PROVE Shape
  OBVIOUS
<1>1. PanelInv
  <2>1. P!TypeOK
    BY IdleGood, ConfigAssumption DEF Init, P!Init, P!TypeOK
  <2>2. ReqShape
    BY IdleGood DEF Init, P!Init, ReqShape
  <2> QED
    BY <2>1, <2>2 DEF PanelInv
<1>2. DirInv
  BY DirInit DEF Init
<1>3. AgentTypes
  <2>1. /\ 0 \in 0..MaxRevisions /\ 0 \in 0..MaxUpsets /\ 0 \in 0..MaxInjections
        /\ <<>> \in Seq(Tasks)
        /\ NoInjection \in [stage : {"idle", "read", "applying"}, config : SUBSET P!Payload]
    BY ConfigAssumption DEF NoInjection
  <2> QED
    BY <2>1, FreeTask DEF AgentTypes, Init
<1>4. TaskShape
  BY DEF TaskShape, Init, GoodTask, Free, Concerned
<1>5. CallsFit /\ OneCall
  BY ConfigAssumption DEF Init, P!Init, CallsFit, OneCall, P!Idle
<1>6. TxnsFit
  BY DEF Init, D!Init, TxnsFit, Free
<1>7. QueueShape
  BY ConfigAssumption DEF Init, QueueShape, Free, Begun, Concerned
<1> QED
  BY <1>1, <1>2, <1>3, <1>4, <1>5, <1>6, <1>7 DEF Shape

(* Every step of the delivery is a step of the panel or leaves it alone.   *)
LEMMA PanelSteps == Shape /\ [Next]_vars => [PanelNext]_(P!vars)
<1> SUFFICES ASSUME Shape, [Next]_vars PROVE [PanelNext]_(P!vars)
  OBVIOUS
<1>1. CASE UNCHANGED vars
  BY <1>1 DEF vars, panel, P!vars
<1>2. ASSUME NEW t \in Tasks, AgentStep(t) \/ Watchdog(t) \/ Abandon(t) \/ CallLost(t) \/ CallFails(t)
      PROVE  [PanelNext]_(P!vars)
  <2>c. task[t].cur \in 0..MaxRevisions
    BY DEF Shape, AgentTypes, Task
  <2>1. CASE Submit(t) \/ Start(t) \/ Applied(t) \/ Watchdog(t) \/ Abandon(t)
    BY <2>1 DEF Submit, Start, Applied, Watchdog, Abandon, panel, P!vars
  <2>2. CASE CallCancelled(t) \/ CallFails(t) \/ CallLost(t)
    <3>1. P!Orphaned({t}) /\ UNCHANGED <<runs, latest, artifacts, policy>> /\ {t} \in SUBSET Tasks
      BY <2>2 DEF CallCancelled, CallFails, CallLost, CallGivenUp
    <3> QED
      BY <3>1 DEF PanelNext
  <2>3. ASSUME NEW h \in Handlers, GetBatch(t, h) PROVE [PanelNext]_(P!vars)
    BY <2>c, <2>3 DEF GetBatch, PanelNext
  <2>4. ASSUME NEW h \in Handlers, NotModified(t, h) \/ BatchReceived(t, h) \/ Announced(t, h) \/ Reported(t, h)
        PROVE [PanelNext]_(P!vars)
    <3>1. P!Taken(h) /\ UNCHANGED <<runs, latest, artifacts, policy>>
      BY <2>4 DEF NotModified, BatchReceived, Announced, Reported
    <3> QED
      BY <3>1 DEF PanelNext
  <2>5. ASSUME NEW h \in Handlers, Report(t, h) PROVE [PanelNext]_(P!vars)
    <3> DEFINE to == IF task[t].stage = "announcing" THEN "applying" ELSE task[t].status
    <3>1. task[t].run \in P!RunIds /\ to \in P!Statuses
      BY <2>5 DEF Report, Shape, TaskShape, GoodTask, Concerned, P!RunIds, P!Statuses, P!Open
    <3>2. P!ReportFind(h, t, task[t].run, to)
      BY <2>5 DEF Report
    <3> HIDE DEF to
    <3> QED
      BY <3>1, <3>2 DEF PanelNext
  <2> QED
    BY <1>2, <2>1, <2>2, <2>3, <2>4, <2>5 DEF AgentStep
<1>3. ASSUME NEW x \in Txns, TxnStep(x) \/ TxnFails(x) \/ ReloadCancelled(x)
      PROVE  [PanelNext]_(P!vars)
  BY <1>3 DEF TxnStep, TxnFails, ReloadCancelled, panel, P!vars
<1>4. ASSUME NEW h \in Handlers, PanelStep(h) \/ PanelUpset(h)
      PROVE  [PanelNext]_(P!vars)
  BY <1>4 DEF PanelStep, PanelUpset, PanelNext
<1>5. CASE InjectUsers
  BY <1>5 DEF InjectUsers, InjectRead, InjectApply, InjectEnds, panel, P!vars
<1>6. CASE PanelChange
  BY <1>6 DEF PanelChange, PanelNext
<1>7. CASE Crash
  <2>1. P!Orphaned(Tasks) /\ UNCHANGED <<runs, latest, artifacts, policy>> /\ Tasks \in SUBSET Tasks
    BY <1>7 DEF Crash
  <2> QED
    BY <2>1 DEF PanelNext
<1> QED
  BY <1>1, <1>2, <1>3, <1>4, <1>5, <1>6, <1>7 DEF Next, Txns

(* Every step of the delivery is a step of a transaction or leaves the     *)
(* directory alone.                                                        *)
LEMMA DirSteps == Shape /\ [Next]_vars => [D!Next]_(D!vars)
<1> SUFFICES ASSUME Shape, [Next]_vars PROVE [D!Next]_(D!vars)
  OBVIOUS
<1>1. CASE UNCHANGED vars
  BY <1>1 DEF vars, dir, D!vars
<1>b. ASSUME NEW t \in Tasks, BeginApply(t), task[t].stage = "announcing"
      PROVE  D!Next
  <2> DEFINE req == [mode |-> "snapshot", version |-> task[t].payload, config |-> {}]
  <2>1. req \in D!Requests
    BY <1>b DEF Shape, TaskShape, GoodTask, Concerned, D!Requests
  <2>2. D!Ask(t, req)
    BY <1>b DEF BeginApply
  <2> HIDE DEF req
  <2> QED
    BY <2>1, <2>2 DEF D!Next
<1>2. ASSUME NEW t \in Tasks, AgentStep(t) \/ Watchdog(t) \/ Abandon(t) \/ CallLost(t) \/ CallFails(t)
      PROVE  [D!Next]_(D!vars)
  <2>1. CASE Submit(t) \/ Start(t) \/ Applied(t) \/ Watchdog(t) \/ Abandon(t) \/ CallLost(t)
    BY <2>1 DEF Submit, Start, Applied, Watchdog, Abandon, CallLost, dir, D!vars
  <2>2. CASE CallCancelled(t) \/ CallFails(t)
    BY <2>2, <1>b DEF CallCancelled, CallFails, CallGivenUp, dir, D!vars
  <2>3. ASSUME NEW h \in Handlers,
               GetBatch(t, h) \/ NotModified(t, h) \/ BatchReceived(t, h) \/ Report(t, h) \/ Reported(t, h)
        PROVE [D!Next]_(D!vars)
    BY <2>3 DEF GetBatch, NotModified, BatchReceived, Report, Reported, dir, D!vars
  <2>4. ASSUME NEW h \in Handlers, Announced(t, h) PROVE [D!Next]_(D!vars)
    BY <2>4, <1>b DEF Announced
  <2> QED
    BY <1>2, <2>1, <2>2, <2>3, <2>4 DEF AgentStep
<1>3. ASSUME NEW x \in Txns, TxnStep(x) \/ TxnFails(x) \/ ReloadCancelled(x)
      PROVE  [D!Next]_(D!vars)
  BY <1>3 DEF TxnStep, TxnFails, ReloadCancelled, D!Next, D!Failure, Txns
<1>4. ASSUME NEW h \in Handlers, PanelStep(h) \/ PanelUpset(h)
      PROVE  [D!Next]_(D!vars)
  BY <1>4 DEF PanelStep, PanelUpset, dir, D!vars
<1>5. CASE InjectUsers
  <2>1. CASE InjectApply
    <3> DEFINE req == [mode |-> "patch", version |-> P!NoPayload, config |-> injection.config]
    <3>1. req \in D!Requests
      BY DEF Shape, AgentTypes, D!Requests
    <3>2. D!Ask(Injector, req)
      BY <2>1 DEF InjectApply
    <3> HIDE DEF req
    <3> QED
      BY <3>1, <3>2 DEF D!Next
  <2> QED
    BY <1>5, <2>1 DEF InjectUsers, InjectRead, InjectEnds, dir, D!vars
<1>6. CASE PanelChange
  BY <1>6 DEF PanelChange, dir, D!vars
<1>7. CASE Crash
  BY <1>7 DEF Crash, D!Next
<1> QED
  BY <1>1, <1>2, <1>3, <1>4, <1>5, <1>6, <1>7 DEF Next, Txns
-----------------------------------------------------------------------------
(* No request gains a caller.                                              *)
CallsKept ==
  \A k \in Handlers : reqs'[k].caller \in Tasks =>
    /\ reqs'[k].caller = reqs[k].caller
    /\ reqs'[k].op = reqs[k].op /\ reqs'[k].status = reqs[k].status
    /\ reqs'[k].op = "report" => reqs'[k].run = reqs[k].run

(* One request, of t, is new.                                              *)
NewCall(h, t) ==
  /\ reqs'[h].caller = t
  /\ \A k \in Handlers \ {h} : reqs'[k] = reqs[k]

(* A handler that goes on with its request keeps its caller.               *)
LEMMA GoKeeps ==
  ASSUME PanelInv, NEW h \in Handlers, NEW q \in P!Request, P!Go(h, q),
         q.caller \in Tasks =>
           /\ q.caller = reqs[h].caller /\ q.op = reqs[h].op /\ q.status = reqs[h].status
           /\ q.op = "report" => q.run = reqs[h].run
  PROVE  CallsKept
<1>1. P!Settled(q) = q \/ P!Settled(q).caller = NoTask
  BY DEF P!Settled, P!Idle
<1>2. reqs' = [reqs EXCEPT ![h] = P!Settled(q)] /\ reqs \in [Handlers -> P!Request]
  BY DEF P!Go, PanelInv, P!TypeOK
<1> QED
  BY <1>1, <1>2, ConfigAssumption DEF CallsKept

(* PrepareApplyRun begins a request for its caller.                        *)
LEMMA PrepareCall ==
  ASSUME NEW h \in Handlers, NEW q \in P!Request, P!Prepare(h, q)
  PROVE  reqs[h] = P!Idle /\ \E n : P!Go(h, n) /\ n.caller = q.caller /\ n.op = q.op
<1> DEFINE open == P!OpenRuns(q.payload.revision)
           made == [q EXCEPT !.pc = "create", !.since = Len(runs)]
           found == [q EXCEPT !.pc = "reply", !.run = P!Newest(open), !.reply = "batch"]
<1>1. P!Go(h, made) \/ P!Go(h, found)
  BY DEF P!Prepare
<1>2. made.caller = q.caller /\ made.op = q.op /\ found.caller = q.caller /\ found.op = q.op
  BY DEF P!Request
<1>3. reqs[h] = P!Idle
  BY DEF P!Prepare
<1> HIDE DEF made, found
<1> QED
  BY <1>1, <1>2, <1>3

(* ReportApplyResult begins a report for its caller.                       *)
LEMMA FindCall ==
  ASSUME NEW h \in Handlers, NEW t, NEW r, NEW to, P!ReportFind(h, t, r, to)
  PROVE  /\ reqs[h] = P!Idle
         /\ \E n : P!Go(h, n) /\ n.caller = t /\ n.op = "report" /\ n.run = r /\ n.status = to
<1> DEFINE from == runs[r].status
           q == [P!Idle EXCEPT !.op = "report", !.caller = t, !.run = r, !.status = to, !.seen = from]
           done == [q EXCEPT !.pc = "reply", !.reply = P!ReplyUnwritten(from, to)]
           going == [q EXCEPT !.pc = "update"]
<1>1. P!Go(h, done) \/ P!Go(h, going)
  BY DEF P!ReportFind
<1>2. done.caller = t /\ done.op = "report" /\ done.run = r /\ done.status = to
  BY DEF P!Idle
<1>3. going.caller = t /\ going.op = "report" /\ going.run = r /\ going.status = to
  BY DEF P!Idle
<1>4. reqs[h] = P!Idle
  BY DEF P!ReportFind
<1> HIDE DEF done, going
<1> QED
  BY <1>1, <1>2, <1>3, <1>4

(* A caller that is gone leaves no call behind.                            *)
LEMMA OrphanCalls ==
  ASSUME PanelInv, NEW C \in SUBSET Tasks, P!Orphaned(C)
  PROVE  CallsKept
<1> SUFFICES ASSUME NEW k \in Handlers PROVE reqs'[k].caller = NoTask \/ reqs'[k] = reqs[k]
  BY ConfigAssumption DEF CallsKept
<1> DEFINE q == [reqs[k] EXCEPT !.caller = NoTask]
<1>1. reqs'[k] = IF reqs[k].caller \in C THEN P!Settled(q) ELSE reqs[k]
  BY DEF P!Orphaned
<1>2. q.caller = NoTask
  BY DEF P!Request, PanelInv, P!TypeOK
<1>3. P!Settled(q).caller = NoTask
  BY <1>2 DEF P!Settled, P!Idle
<1> QED
  BY <1>1, <1>3

(* What the panel does by itself answers nobody new.                       *)
LEMMA QuietPanel ==
  ASSUME PanelInv, NEW h \in Handlers,
         \/ P!Taken(h) \/ P!CreateApplyRun(h) \/ P!UpdateStatus(h) \/ P!WriteFails(h)
         \/ \E r \in 1..latest : P!OperatorPrepare(h, r)
         \/ \E r \in P!RunIds : P!CancelFind(h, r)
         \/ \E k \in P!RunIds : P!ExpireStale(k)
         \/ P!Publish \/ P!EditPolicy \/ UNCHANGED reqs
  PROVE  CallsKept
<1>t. reqs \in [Handlers -> P!Request] /\ GoodReq(reqs[h], runs, latest)
  BY DEF PanelInv, P!TypeOK, ReqShape
<1>1. CASE P!Taken(h) \/ P!WriteFails(h)
  BY <1>1, <1>t, ConfigAssumption DEF P!Taken, P!WriteFails, CallsKept, P!Idle
<1>2. CASE P!CreateApplyRun(h)
  <2> DEFINE q == [reqs[h] EXCEPT !.pc = "reply", !.run = Len(runs) + 1, !.since = 0, !.reply = "batch"]
  <2>1. P!Go(h, q) /\ reqs[h].pc = "create"
    BY <1>2 DEF P!CreateApplyRun
  <2>2. P!Settled(q) = q \/ P!Settled(q).caller = NoTask
    BY DEF P!Settled, P!Idle
  <2>3. q.caller = reqs[h].caller /\ q.op = reqs[h].op /\ q.status = reqs[h].status
    BY <1>t DEF P!Request
  <2>4. reqs[h].op # "report"
    BY <1>t, <2>1 DEF GoodReq
  <2> HIDE DEF q
  <2> QED
    BY <1>t, <2>1, <2>2, <2>3, <2>4, ConfigAssumption DEF P!Go, CallsKept
<1>3. CASE P!UpdateStatus(h)
  <2> DEFINE q == [reqs[h] EXCEPT !.pc = "reply", !.reply = "accepted"]
  <2>1. P!Go(h, q)
    BY <1>3 DEF P!UpdateStatus
  <2>r. reqs[h] \in P!Request
    BY <1>t
  <2>2. q \in P!Request
    BY <2>r DEF P!Request
  <2>3. q.caller = reqs[h].caller /\ q.op = reqs[h].op /\ q.status = reqs[h].status /\ q.run = reqs[h].run
    BY <1>t DEF P!Request
  <2> HIDE DEF q
  <2> QED
    BY <2>1, <2>2, <2>3, GoKeeps
<1>4. ASSUME NEW r \in 1..latest, P!OperatorPrepare(h, r)
      PROVE CallsKept
  <2> DEFINE payload == [revision |-> r, version |-> artifacts[r]]
             p == [P!Idle EXCEPT !.op = "prepare", !.payload = payload]
  <2>a. P!Prepare(h, p)
    BY <1>4 DEF P!OperatorPrepare
  <2>r. r \in P!Revisions /\ artifacts \in [P!Revisions -> 0..MaxEdits]
    BY ConfigAssumption DEF P!Revisions, PanelInv, P!TypeOK
  <2>b. payload \in P!Payload
    BY <2>r DEF P!Payload
  <2>c. p \in P!Request /\ p.caller = NoTask
    <3> HIDE DEF payload
    <3> QED
      BY <2>b, IdleGood DEF P!Request, P!Idle
  <2> HIDE DEF p
  <2>1. \E q : P!Go(h, q) /\ q.caller = NoTask
    BY <2>a, <2>c, PrepareCall
  <2>2. PICK q : P!Go(h, q) /\ q.caller = NoTask
    BY <2>1
  <2>3. P!Settled(q).caller = NoTask
    BY <2>2 DEF P!Settled, P!Idle
  <2> QED
    BY <1>t, <2>2, <2>3, ConfigAssumption DEF P!Go, CallsKept
<1>5. ASSUME NEW r \in P!RunIds, P!CancelFind(h, r)
      PROVE CallsKept
  <2> DEFINE n == [P!Idle EXCEPT !.op = "cancel", !.pc = "update", !.run = r,
                                 !.status = "failed", !.seen = runs[r].status]
  <2>a. P!Go(h, n)
    BY <1>5 DEF P!CancelFind
  <2>b. n.caller = NoTask
    BY DEF P!Idle
  <2>1. \E q : P!Go(h, q) /\ q.caller = NoTask
    <3> HIDE DEF n
    <3> QED
      BY <2>a, <2>b
  <2>2. PICK q : P!Go(h, q) /\ q.caller = NoTask
    BY <2>1
  <2>3. P!Settled(q).caller = NoTask
    BY <2>2 DEF P!Settled, P!Idle
  <2> QED
    BY <1>t, <2>2, <2>3, ConfigAssumption DEF P!Go, CallsKept
<1>6. CASE (\E k \in P!RunIds : P!ExpireStale(k)) \/ P!Publish \/ P!EditPolicy \/ UNCHANGED reqs
  BY <1>6 DEF P!ExpireStale, P!Publish, P!EditPolicy, CallsKept
<1> QED
  BY <1>1, <1>2, <1>3, <1>4, <1>5, <1>6

(* Callers that are gone are waited for by no request.                     *)
LEMMA Orphans ==
  ASSUME PanelInv, NEW C \in SUBSET Tasks, P!Orphaned(C), NEW k \in Handlers
  PROVE  reqs'[k].caller \notin C
<1> DEFINE q == [reqs[k] EXCEPT !.caller = NoTask]
<1>1. reqs'[k] = IF reqs[k].caller \in C THEN P!Settled(q) ELSE reqs[k]
  BY DEF P!Orphaned
<1>2. q.caller = NoTask
  BY DEF P!Request, PanelInv, P!TypeOK
<1>3. P!Settled(q).caller = NoTask
  BY <1>2 DEF P!Settled, P!Idle
<1> QED
  BY <1>1, <1>3, ConfigAssumption

(* GetBatch makes one request, for a batch.                                *)
LEMMA BatchCall ==
  ASSUME PanelInv, NEW h \in Handlers, NEW t \in Tasks, NEW cur \in 0..MaxRevisions,
         P!GetApplyBatch(h, t, cur)
  PROVE  NewCall(h, t) /\ reqs[h] = P!Idle /\ reqs'[h].op = "batch"
<1> DEFINE i == [P!Idle EXCEPT !.op = "batch", !.caller = t]
           payload == [revision |-> latest, version |-> artifacts[latest]]
           p == [i EXCEPT !.payload = payload]
           none == [i EXCEPT !.pc = "reply", !.reply = "not_modified"]
<1>a. \/ latest > cur /\ P!Prepare(h, p)
      \/ reqs[h] = P!Idle /\ P!Go(h, none)
  BY DEF P!GetApplyBatch
<1>b. i \in P!Request /\ i.caller = t /\ i.op = "batch"
  BY IdleGood DEF P!Request, P!Idle
<1>c. latest > cur => payload \in P!Payload
  BY ConfigAssumption DEF P!Payload, P!Revisions, PanelInv, P!TypeOK
<1>d. none.caller = t /\ none.op = "batch"
  BY DEF P!Idle
<1> HIDE DEF i, payload
<1>e. latest > cur => p \in P!Request /\ p.caller = t /\ p.op = "batch"
  BY <1>b, <1>c DEF P!Request
<1> HIDE DEF none, p
<1>1. reqs[h] = P!Idle /\ \E q : P!Go(h, q) /\ q.caller = t /\ q.op = "batch"
  BY <1>a, <1>d, <1>e, PrepareCall
<1>2. PICK q : P!Go(h, q) /\ q.caller = t /\ q.op = "batch"
  BY <1>1
<1>3. P!Settled(q) = q
  BY <1>2, ConfigAssumption DEF P!Settled
<1> QED
  BY <1>1, <1>2, <1>3 DEF P!Go, NewCall, PanelInv, P!TypeOK

(* Report makes one request, with the run and the status of the task.      *)
LEMMA ReportCall ==
  ASSUME PanelInv, NEW h \in Handlers, NEW t \in Tasks, NEW r, NEW to, P!ReportFind(h, t, r, to)
  PROVE  /\ NewCall(h, t) /\ reqs[h] = P!Idle
         /\ reqs'[h].op = "report" /\ reqs'[h].run = r /\ reqs'[h].status = to
<1>1. reqs[h] = P!Idle /\ \E q : P!Go(h, q) /\ q.caller = t /\ q.op = "report" /\ q.run = r /\ q.status = to
  BY FindCall
<1>2. PICK q : P!Go(h, q) /\ q.caller = t /\ q.op = "report" /\ q.run = r /\ q.status = to
  BY <1>1
<1>3. P!Settled(q) = q
  BY <1>2, ConfigAssumption DEF P!Settled
<1> QED
  BY <1>1, <1>2, <1>3 DEF P!Go, NewCall, PanelInv, P!TypeOK

SameCall(t) ==
  task'[t].stage = task[t].stage /\ task'[t].run = task[t].run /\ task'[t].status = task[t].status

(* Requests and tasks still fit when no request gains a caller and tasks   *)
(* change only without one.                                                *)
LEMMA KeptCalls ==
  ASSUME CallsKept, OneCall, CallsFit,
         \A t \in Tasks : SameCall(t) \/ \A h \in Handlers : reqs'[h].caller # t
  PROVE  OneCall' /\ CallsFit'
<1>1. OneCall'
  BY DEF CallsKept, OneCall
<1>2. CallsFit'
  <2> SUFFICES ASSUME NEW h \in Handlers, NEW t \in Tasks, reqs'[h].caller = t
               PROVE  CallFits(reqs'[h], task'[t])
    BY DEF CallsFit
  <2>1. /\ reqs[h].caller = t /\ reqs'[h].op = reqs[h].op /\ reqs'[h].status = reqs[h].status
        /\ reqs'[h].op = "report" => reqs'[h].run = reqs[h].run
    BY DEF CallsKept
  <2>2. CallFits(reqs[h], task[t]) /\ SameCall(t)
    BY <2>1 DEF CallsFit
  <2> QED
    BY <2>1, <2>2 DEF CallFits, SameCall
<1> QED
  BY <1>1, <1>2

(* They fit when a task without a request makes one that fits.             *)
LEMMA NewCalls ==
  ASSUME OneCall, CallsFit, NEW h \in Handlers, NEW t \in Tasks, NewCall(h, t),
         CallsOf(t) = {}, task' = task, CallFits(reqs'[h], task[t])
  PROVE  OneCall' /\ CallsFit'
BY DEF OneCall, CallsFit, NewCall, CallsOf

(* A task whose call has been answered, or has been given up, has none.    *)
LEMMA TakenLast ==
  ASSUME Shape, NEW t \in Tasks, NEW h \in Handlers, reqs[h].caller = t, P!Taken(h)
  PROVE  CallsKept /\ \A k \in Handlers : reqs'[k].caller # t
<1>1. CallsKept
  BY QuietPanel DEF Shape
<1>2. reqs' = [reqs EXCEPT ![h] = P!Idle] /\ reqs \in [Handlers -> P!Request] /\ OneCall
  BY DEF P!Taken, Shape, PanelInv, P!TypeOK
<1> QED
  BY <1>1, <1>2, ConfigAssumption DEF OneCall, P!Idle

(* Every step keeps requests and tasks fitting.                            *)
LEMMA CallsStep == Shape /\ [Next]_vars => OneCall' /\ CallsFit'
<1> SUFFICES ASSUME Shape, [Next]_vars PROVE OneCall' /\ CallsFit'
  OBVIOUS
<1>s. PanelInv /\ OneCall /\ CallsFit /\ task \in [Tasks -> Task]
  BY DEF Shape, AgentTypes
<1>u. ASSUME UNCHANGED reqs PROVE CallsKept
  BY <1>u DEF CallsKept
<1>q. ASSUME CallsKept, UNCHANGED task PROVE OneCall' /\ CallsFit'
  BY <1>q, <1>s, KeptCalls DEF SameCall
<1>n. ASSUME NEW t \in Tasks, task[t].stage \notin Calling, UNCHANGED reqs
      PROVE  \A h \in Handlers : reqs'[h].caller # t
  BY <1>n, <1>s DEF CallsFit, CallFits
<1>1. CASE UNCHANGED vars
  BY <1>1, <1>u, <1>q DEF vars, panel, agent
<1>2. ASSUME NEW t \in Tasks, AgentStep(t) \/ Watchdog(t) \/ Abandon(t) \/ CallLost(t) \/ CallFails(t)
      PROVE  OneCall' /\ CallsFit'
  <2>1. CASE Submit(t) \/ Applied(t)
    <3>1. UNCHANGED reqs /\ task[t].stage \notin Calling /\ \A u \in Tasks \ {t} : task'[u] = task[u]
      BY <2>1, <1>s DEF Submit, Applied, panel, Calling
    <3> QED
      BY <3>1, <1>s, <1>u, <1>n, KeptCalls DEF SameCall
  <2>2. CASE Start(t)
    <3>1. UNCHANGED reqs /\ task[t].stage \notin Calling /\ \A u \in Tasks \ {t} : task'[u] = task[u]
      <4>1. queue \in Seq(Tasks) /\ queue # <<>> /\ Head(queue) = t
        BY <2>2 DEF Start, Shape, AgentTypes
      <4>2. 1 \in 1..Len(queue) /\ queue[1] = t
        BY <4>1
      <4> QED
        BY <2>2, <4>2, <1>s DEF Start, Goto, panel, Calling, Shape, QueueShape
    <3> QED
      BY <3>1, <1>s, <1>u, <1>n, KeptCalls DEF SameCall
  <2>3. CASE Watchdog(t) \/ Abandon(t)
    <3>1. UNCHANGED reqs /\ \A u \in Tasks : SameCall(u)
      BY <2>3, <1>s DEF Watchdog, Abandon, panel, SameCall, Task
    <3> QED
      BY <3>1, <1>s, <1>u, KeptCalls
  <2>4. CASE CallLost(t)
    <3>1. P!Orphaned({t}) /\ UNCHANGED task /\ {t} \in SUBSET Tasks
      BY <2>4 DEF CallLost, agent
    <3> QED
      BY <3>1, <1>s, <1>q, OrphanCalls
  <2>5. CASE CallCancelled(t) \/ CallFails(t)
    <3>1. P!Orphaned({t}) /\ {t} \in SUBSET Tasks /\ \A u \in Tasks \ {t} : task'[u] = task[u]
      BY <2>5, <1>s DEF CallCancelled, CallFails, CallGivenUp, BeginApply, HandlerReturns, Goto
    <3>2. \A k \in Handlers : reqs'[k].caller # t
      BY <3>1, <1>s, Orphans
    <3>3. CallsKept
      BY <3>1, <1>s, OrphanCalls
    <3> QED
      BY <3>1, <3>2, <3>3, <1>s, KeptCalls DEF SameCall
  <2>6. ASSUME NEW h \in Handlers, GetBatch(t, h) PROVE OneCall' /\ CallsFit'
    <3>1. CallsOf(t) = {} /\ task' = task /\ task[t].stage = "fetching"
      BY <2>6 DEF GetBatch, MayCall, agent
    <3>2. NewCall(h, t) /\ reqs'[h].op = "batch"
      BY <2>6, <1>s, BatchCall DEF GetBatch, Task
    <3>3. CallFits(reqs'[h], task[t])
      BY <3>1, <3>2 DEF CallFits, Calling
    <3> QED
      BY <3>1, <3>2, <3>3, <1>s, NewCalls
  <2>7. ASSUME NEW h \in Handlers, Report(t, h) PROVE OneCall' /\ CallsFit'
    <3> DEFINE to == IF task[t].stage = "announcing" THEN "applying" ELSE task[t].status
    <3>1. CallsOf(t) = {} /\ task' = task /\ task[t].stage \in {"announcing", "reporting"}
      BY <2>7 DEF Report, MayCall, agent
    <3>2. NewCall(h, t) /\ reqs'[h].op = "report" /\ reqs'[h].run = task[t].run /\ reqs'[h].status = to
      <4>1. P!ReportFind(h, t, task[t].run, to)
        BY <2>7 DEF Report
      <4> HIDE DEF to
      <4> QED
        BY <4>1, <1>s, ReportCall
    <3>3. CallFits(reqs'[h], task[t])
      BY <3>1, <3>2 DEF CallFits, Calling
    <3> QED
      BY <3>1, <3>2, <3>3, <1>s, NewCalls
  <2>8. ASSUME NEW h \in Handlers, NotModified(t, h) \/ BatchReceived(t, h) \/ Announced(t, h) \/ Reported(t, h)
        PROVE OneCall' /\ CallsFit'
    <3>1. P!Taken(h) /\ reqs[h].caller = t /\ \A u \in Tasks \ {t} : task'[u] = task[u]
      BY <2>8, <1>s DEF NotModified, BatchReceived, Announced, Reported, Answered, BeginApply, HandlerReturns, Goto
    <3>2. CallsKept /\ \A k \in Handlers : reqs'[k].caller # t
      BY <3>1, TakenLast
    <3> QED
      BY <3>1, <3>2, <1>s, KeptCalls DEF SameCall
  <2> QED
    BY <1>2, <2>1, <2>2, <2>3, <2>4, <2>5, <2>6, <2>7, <2>8 DEF AgentStep
<1>3. ASSUME NEW x \in Txns, TxnStep(x) \/ TxnFails(x) \/ ReloadCancelled(x)
      PROVE  OneCall' /\ CallsFit'
  BY <1>3, <1>u, <1>q DEF TxnStep, TxnFails, ReloadCancelled, panel, agent
<1>4. ASSUME NEW h \in Handlers, PanelStep(h) \/ PanelUpset(h)
      PROVE  OneCall' /\ CallsFit'
  <2>1. UNCHANGED task
    BY <1>4 DEF PanelStep, PanelUpset, agent
  <2>2. CallsKept
    BY <1>4, <1>s, QuietPanel DEF PanelStep, PanelUpset
  <2> QED
    BY <2>1, <2>2, <1>q
<1>5. CASE InjectUsers
  BY <1>5, <1>u, <1>q DEF InjectUsers, InjectRead, InjectApply, InjectEnds, panel, agent
<1>6. CASE PanelChange
  BY <1>6, <1>u, <1>q DEF PanelChange, agent, P!Publish, P!EditPolicy
<1>7. CASE Crash
  <2>1. P!Orphaned(Tasks) /\ Tasks \in SUBSET Tasks
    BY <1>7 DEF Crash
  <2>2. \A t \in Tasks : \A k \in Handlers : reqs'[k].caller # t
    BY <2>1, <1>s, Orphans
  <2> QED
    BY <2>2 DEF OneCall, CallsFit
<1> QED
  BY <1>1, <1>2, <1>3, <1>4, <1>5, <1>6, <1>7 DEF Next, Txns
-----------------------------------------------------------------------------
(* A task in order stays so when the table grows.                          *)
LEMMA GoodTaskStays ==
  ASSUME Shape, TableGrows, PanelInv', NEW k \in Task, GoodTask(k, runs, latest)
  PROVE  GoodTask(k, runs', latest')
<1>1. Len(runs) \in Nat /\ Len(runs') \in Nat /\ latest \in Nat /\ latest' \in Nat
  BY ConfigAssumption DEF Shape, PanelInv, P!TypeOK
<1>2. k.payload \in P!Payload => k.payload.revision \in Nat
  BY ConfigAssumption DEF P!Payload, P!Revisions
<1> QED
  BY <1>1, <1>2 DEF GoodTask, TableGrows, P!RunIds

(* All tasks are in order when the changed ones are.                       *)
LEMMA TasksStay ==
  ASSUME Shape, [Next]_vars,
         \A t \in Tasks : task'[t] = task[t] \/ (task'[t] \in Task /\ GoodTask(task'[t], runs', latest'))
  PROVE  TaskShape'
<1>1. TableGrows /\ PanelInv'
  BY PanelSteps, PanelKept DEF Shape
<1> SUFFICES ASSUME NEW t \in Tasks PROVE GoodTask(task'[t], runs', latest')
  BY DEF TaskShape
<1>2. task[t] \in Task /\ GoodTask(task[t], runs, latest)
  BY DEF Shape, AgentTypes, TaskShape
<1> QED
  BY <1>1, <1>2, GoodTaskStays

(* What a step does to the tasks: all but one stay, which is typed and good. *)
LEMMA TaskStep == Shape /\ [Next]_vars => TaskShape' /\ task' \in [Tasks -> Task]
<1> SUFFICES ASSUME Shape, [Next]_vars PROVE TaskShape' /\ task' \in [Tasks -> Task]
  OBVIOUS
<1>s. task \in [Tasks -> Task] /\ TaskShape
  BY DEF Shape, AgentTypes
<1>g. TableGrows /\ PanelInv'
  BY PanelSteps, PanelKept DEF Shape
<1>u. ASSUME UNCHANGED task PROVE TaskShape' /\ task' \in [Tasks -> Task]
  BY <1>u, <1>s, TasksStay
<1>o. ASSUME NEW t \in Tasks, NEW k \in Task, task' = [task EXCEPT ![t] = k], GoodTask(k, runs', latest')
      PROVE  TaskShape' /\ task' \in [Tasks -> Task]
  BY <1>o, <1>s, TasksStay
<1>f. Free \in Task /\ GoodTask(Free, runs', latest')
  BY FreeTask DEF GoodTask, Free, Concerned
<1>1. CASE UNCHANGED vars
  BY <1>1, <1>u DEF vars, agent
<1>2. ASSUME NEW t \in Tasks, AgentStep(t) \/ Watchdog(t) \/ Abandon(t) \/ CallLost(t) \/ CallFails(t)
      PROVE  TaskShape' /\ task' \in [Tasks -> Task]
  <2>t. task[t] \in Task /\ GoodTask(task[t], runs, latest) /\ GoodTask(task[t], runs', latest')
    BY <1>s, <1>g, GoodTaskStays DEF TaskShape
  <2>r. ASSUME HandlerReturns(t) PROVE TaskShape' /\ task' \in [Tasks -> Task]
    BY <2>r, <1>f, <1>o DEF HandlerReturns
  <2>b. ASSUME BeginApply(t), task[t].stage = "announcing" PROVE TaskShape' /\ task' \in [Tasks -> Task]
    <3> DEFINE k == [task[t] EXCEPT !.stage = "applying"]
    <3>1. task' = [task EXCEPT ![t] = k]
      BY <2>b DEF BeginApply, Goto
    <3>2. k \in Task
      BY <2>t DEF Task
    <3>3. GoodTask(k, runs', latest')
      BY <2>t, <2>b DEF GoodTask, Task, Concerned
    <3> QED
      BY <3>1, <3>2, <3>3, <1>o
  <2>1. CASE Submit(t)
    <3> DEFINE k == [task[t] EXCEPT !.stage = "queued", !.cur = revision]
    <3>1. task' = [task EXCEPT ![t] = k]
      BY <2>1 DEF Submit
    <3>2. k \in Task
      BY <2>t DEF Task, Shape, AgentTypes
    <3>3. GoodTask(k, runs', latest')
      BY <2>t DEF GoodTask, Task, Concerned
    <3> QED
      BY <3>1, <3>2, <3>3, <1>o
  <2>2. CASE Start(t)
    <3> DEFINE k == [task[t] EXCEPT !.stage = "fetching"]
    <3>1. task' = [task EXCEPT ![t] = k]
      BY <2>2 DEF Start, Goto
    <3>2. k \in Task
      BY <2>t DEF Task, Calling
    <3>3. GoodTask(k, runs', latest')
      BY <2>t DEF GoodTask, Task, Concerned
    <3> QED
      BY <3>1, <3>2, <3>3, <1>o
  <2>3. CASE Watchdog(t)
    <3> DEFINE k == [task[t] EXCEPT !.released = TRUE]
    <3>1. task' = [task EXCEPT ![t] = k]
      BY <2>3 DEF Watchdog
    <3>2. k \in Task
      BY <2>t DEF Task
    <3>3. GoodTask(k, runs', latest')
      BY <2>t, <2>3 DEF GoodTask, Task, Concerned, Watchdog
    <3> QED
      BY <3>1, <3>2, <3>3, <1>o
  <2>4. CASE Abandon(t)
    <3> DEFINE k == [task[t] EXCEPT !.live = FALSE]
    <3>1. task' = [task EXCEPT ![t] = k] /\ task[t].stage # "none"
      BY <2>4, ConfigAssumption DEF Abandon, Shape, QueueShape, Begun, Concerned
    <3>2. k \in Task
      BY <2>t DEF Task
    <3>3. GoodTask(k, runs', latest')
      BY <2>t, <3>1 DEF GoodTask, Task, Concerned
    <3> QED
      BY <3>1, <3>2, <3>3, <1>o
  <2>5. CASE Applied(t)
    <3> DEFINE k == [task[t] EXCEPT !.stage = "reporting", !.status = ResultOf(t)]
    <3>1. task' = [task EXCEPT ![t] = k] /\ task[t].stage = "applying" /\ phase[t] = "idle"
      BY <2>5 DEF Applied
    <3>2. ResultOf(t) \in P!Terminal
      BY <3>1 DEF ResultOf, P!Terminal, Shape, TxnsFit, DirInv, D!TypeOK, D!Outcomes
    <3>3. k \in Task
      BY <2>t, <3>2 DEF Task, Calling
    <3>4. GoodTask(k, runs', latest')
      BY <2>t, <3>1, <3>2 DEF GoodTask, Task, Concerned
    <3> QED
      BY <3>1, <3>3, <3>4, <1>o
  <2>6. CASE CallLost(t) \/ \E h \in Handlers : GetBatch(t, h) \/ Report(t, h)
    BY <2>6, <1>u DEF CallLost, GetBatch, Report, agent
  <2>7. CASE CallCancelled(t) \/ CallFails(t)
    BY <2>7, <2>r, <2>b DEF CallCancelled, CallFails, CallGivenUp
  <2>8. CASE \E h \in Handlers : NotModified(t, h) \/ Reported(t, h)
    BY <2>8, <2>r DEF NotModified, Reported
  <2>9. CASE \E h \in Handlers : Announced(t, h)
    BY <2>9, <2>b DEF Announced
  <2>10. ASSUME NEW h \in Handlers, BatchReceived(t, h) PROVE TaskShape' /\ task' \in [Tasks -> Task]
    <3> DEFINE received == [task[t] EXCEPT !.run = reqs[h].run, !.payload = reqs[h].payload]
               good == [received EXCEPT !.stage = "announcing"]
               bad == [received EXCEPT !.stage = "reporting", !.status = "failed"]
    <3>1. task' = [task EXCEPT ![t] = good] \/ task' = [task EXCEPT ![t] = bad]
      BY <2>10 DEF BatchReceived
    <3>2. /\ reqs[h].run \in 0..MaxRuns /\ reqs[h].run \in 1..Len(runs')
          /\ reqs[h].payload \in P!Payload /\ reqs[h].payload.revision <= latest'
          /\ runs'[reqs[h].run].revision = reqs[h].payload.revision
      <4>1. reqs[h] \in P!Request /\ GoodReq(reqs[h], runs, latest) /\ reqs[h].reply = "batch"
        BY <2>10 DEF BatchReceived, Shape, PanelInv, P!TypeOK, ReqShape
      <4>2. runs' = runs /\ latest' = latest
        BY <2>10 DEF BatchReceived
      <4> QED
        BY <4>1, <4>2 DEF GoodReq, P!Request
    <3>3. received \in Task /\ received.run = reqs[h].run /\ received.payload = reqs[h].payload
      BY <2>t, <3>2 DEF Task
    <3> HIDE DEF received
    <3>4. good \in Task /\ GoodTask(good, runs', latest')
      BY <3>2, <3>3 DEF GoodTask, Task, Concerned, Calling
    <3>5. bad \in Task /\ GoodTask(bad, runs', latest')
      BY <3>2, <3>3 DEF GoodTask, Task, Concerned, Calling, P!Terminal
    <3> QED
      BY <3>1, <3>4, <3>5, <1>o
  <2> QED
    BY <1>2, <2>1, <2>2, <2>3, <2>4, <2>5, <2>6, <2>7, <2>8, <2>9, <2>10 DEF AgentStep
<1>3. ASSUME NEW x \in Txns, TxnStep(x) \/ TxnFails(x) \/ ReloadCancelled(x)
      PROVE  UNCHANGED task
  BY <1>3 DEF TxnStep, TxnFails, ReloadCancelled, agent
<1>4. ASSUME NEW h \in Handlers, PanelStep(h) \/ PanelUpset(h)
      PROVE  UNCHANGED task
  BY <1>4 DEF PanelStep, PanelUpset, agent
<1>5. CASE InjectUsers \/ PanelChange
  BY <1>5, <1>u DEF InjectUsers, InjectRead, InjectApply, InjectEnds, PanelChange, agent
<1>6. CASE Crash
  <2>1. task' = [t \in Tasks |-> Free]
    BY <1>6 DEF Crash
  <2> QED
    BY <2>1, <1>f DEF TaskShape
<1> QED
  BY <1>u, <1>1, <1>2, <1>3, <1>4, <1>5, <1>6 DEF Next, Txns

QueueTypes == queue \in Seq(Tasks) /\ worker \in Tasks \cup {NoTask}

(* Every step keeps the queue, the worker and the live task in order.      *)
LEMMA QueueStep == Shape /\ [Next]_vars => QueueShape' /\ QueueTypes'
<1> SUFFICES ASSUME Shape, [Next]_vars PROVE QueueShape' /\ QueueTypes'
  OBVIOUS
<1>s. task \in [Tasks -> Task] /\ QueueTypes /\ QueueShape
  BY DEF Shape, AgentTypes, QueueTypes
<1>q. \A i \in 1..Len(queue) : queue[i] \in Tasks
  BY <1>s DEF QueueTypes
<1>u. ASSUME UNCHANGED <<queue, worker>>,
             \A t \in Tasks : /\ task'[t].live = task[t].live
                              /\ task'[t].stage = "queued" <=> task[t].stage = "queued"
                              /\ task'[t].stage \in Begun <=> task[t].stage \in Begun
      PROVE  QueueShape' /\ QueueTypes'
  BY <1>u, <1>s, <1>q DEF QueueShape, QueueTypes
<1>v. ASSUME UNCHANGED <<queue, worker, task>> PROVE QueueShape' /\ QueueTypes'
  BY <1>u, <1>v
<1>1. CASE UNCHANGED vars
  BY <1>1, <1>v DEF vars, agent
<1>2. ASSUME NEW t \in Tasks, AgentStep(t) \/ Watchdog(t) \/ Abandon(t) \/ CallLost(t) \/ CallFails(t)
      PROVE  QueueShape' /\ QueueTypes'
  <2>m. ASSUME UNCHANGED <<queue, worker>>, \A u \in Tasks \ {t} : task'[u] = task[u],
               task'[t].live = task[t].live, task[t].stage \in Begun, task'[t].stage \in Begun
        PROVE  QueueShape' /\ QueueTypes'
    BY <2>m, <1>u DEF Begun, Concerned
  <2>r. ASSUME HandlerReturns(t), task[t].stage \in Begun PROVE QueueShape' /\ QueueTypes'
    <3>1. /\ queue' = queue /\ worker' = (IF worker = t THEN NoTask ELSE worker)
          /\ task' = [task EXCEPT ![t] = Free]
      BY <2>r DEF HandlerReturns
    <3>2. \A i \in 1..Len(queue) : queue[i] # t
      BY <1>s, <2>r DEF QueueShape, Begun, Concerned
    <3>3. task'[t].stage \notin Begun /\ \A u \in Tasks \ {t} : task'[u] = task[u]
      BY <3>1, <1>s DEF Free, Begun, Concerned
    <3> QED
      BY <3>1, <3>2, <3>3, <1>s, <1>q, ConfigAssumption DEF QueueShape, QueueTypes
  <2>b. ASSUME BeginApply(t), task[t].stage = "announcing" PROVE QueueShape' /\ QueueTypes'
    BY <2>b, <2>m, <1>s DEF BeginApply, Goto, Begun, Concerned, Task
  <2>1. CASE Submit(t)
    <3>1. /\ queue' = Append(queue, t) /\ worker' = worker
          /\ task[t] = Free /\ task' = [task EXCEPT ![t].stage = "queued", ![t].cur = revision]
      BY <2>1, <1>s DEF Submit, Shape, TaskShape, GoodTask
    <3>2. task'[t].stage = "queued" /\ task'[t].live /\ \A u \in Tasks \ {t} : task'[u] = task[u]
      BY <3>1, <1>s DEF Free, Task
    <3>3. \A i \in 1..Len(queue) : queue[i] # t
      BY <3>1, <1>s DEF QueueShape, Free
    <3>4. /\ queue' \in Seq(Tasks) /\ Len(queue') = Len(queue) + 1 /\ queue'[Len(queue) + 1] = t
          /\ \A i \in 1..Len(queue) : queue'[i] = queue[i]
      BY <3>1, <1>s DEF QueueTypes
    <3>5. worker # t
      BY <3>1, <1>s DEF QueueShape, Free, Begun, Concerned
    <3>6. Len(queue) \in Nat /\ \A i \in 1..Len(queue') : i \in 1..Len(queue) \/ i = Len(queue) + 1
      BY <3>4, <1>s DEF QueueTypes
    <3>7. (\A i \in 1..Len(queue) : task[queue[i]].stage = "queued" /\ task[queue[i]].live)'
      BY <3>2, <3>3, <3>4, <3>6, <1>s, <1>q DEF QueueShape
    <3>8. (\A i, j \in 1..Len(queue) : queue[i] = queue[j] => i = j)'
      BY <3>3, <3>4, <3>6, <1>s DEF QueueShape
    <3> QED
      BY <3>1, <3>2, <3>4, <3>5, <3>7, <3>8, <1>s DEF QueueShape, QueueTypes, Begun, Concerned
  <2>2. CASE Start(t)
    <3>1. /\ worker = NoTask /\ worker' = t /\ queue # <<>> /\ Head(queue) = t /\ queue' = Tail(queue)
          /\ task' = [task EXCEPT ![t].stage = "fetching"]
      BY <2>2 DEF Start, Goto
    <3>2. task'[t].stage = "fetching" /\ \A u \in Tasks \ {t} : task'[u] = task[u]
      BY <3>1, <1>s DEF Task
    <3>3. /\ queue' \in Seq(Tasks) /\ Len(queue') = Len(queue) - 1 /\ queue[1] = t
          /\ \A i \in 1..Len(queue') : queue'[i] = queue[i + 1]
      BY <3>1, <1>s DEF QueueTypes
    <3>4. Len(queue) \in Nat /\ Len(queue) > 0 /\ \A i \in 1..Len(queue') : i + 1 \in 1..Len(queue) /\ i + 1 # 1
      BY <3>1, <3>3, <1>s DEF QueueTypes
    <3>5. \A i \in 1..Len(queue') : queue'[i] \in Tasks \ {t}
      BY <3>3, <3>4, <1>s, <1>q DEF QueueShape
    <3>6. (\A i \in 1..Len(queue) : task[queue[i]].stage = "queued" /\ task[queue[i]].live)'
      BY <3>2, <3>3, <3>4, <3>5, <1>s DEF QueueShape
    <3>7. (\A i, j \in 1..Len(queue) : queue[i] = queue[j] => i = j)'
      BY <3>3, <3>4, <1>s DEF QueueShape
    <3>8. \A u \in Tasks : task[u].stage \in Begun => ~task[u].live
      BY <3>1, <1>s, ConfigAssumption DEF QueueShape
    <3> QED
      BY <3>1, <3>2, <3>3, <3>6, <3>7, <3>8, <1>s DEF QueueShape, QueueTypes, Begun
  <2>3. CASE Watchdog(t)
    <3>1. /\ UNCHANGED <<queue, worker>> /\ \A u \in Tasks \ {t} : task'[u] = task[u]
          /\ task'[t].live = task[t].live /\ task'[t].stage = task[t].stage
      BY <2>3, <1>s DEF Watchdog, Task
    <3> QED
      BY <3>1, <1>u
  <2>4. CASE Abandon(t)
    <3>1. /\ worker = t /\ worker' = NoTask /\ queue' = queue /\ \A u \in Tasks \ {t} : task'[u] = task[u]
          /\ ~task'[t].live
      BY <2>4, <1>s DEF Abandon, Task
    <3>2. \A i \in 1..Len(queue) : queue[i] # t
      BY <3>1, <1>s DEF QueueShape, Begun, Concerned
    <3> QED
      BY <3>1, <3>2, <1>s, <1>q, ConfigAssumption DEF QueueShape, QueueTypes
  <2>5. CASE Applied(t)
    <3>1. /\ UNCHANGED <<queue, worker>> /\ \A u \in Tasks \ {t} : task'[u] = task[u]
          /\ task'[t].live = task[t].live /\ task[t].stage = "applying" /\ task'[t].stage = "reporting"
      BY <2>5, <1>s DEF Applied, Task
    <3> QED
      BY <3>1, <2>m DEF Begun, Concerned
  <2>6. CASE CallLost(t) \/ \E h \in Handlers : GetBatch(t, h) \/ Report(t, h)
    BY <2>6, <1>v DEF CallLost, GetBatch, Report, agent
  <2>7. CASE CallCancelled(t) \/ CallFails(t)
    BY <2>7, <2>r, <2>b DEF CallCancelled, CallFails, CallGivenUp, Calling, Begun, Concerned
  <2>8. CASE \E h \in Handlers : NotModified(t, h) \/ Reported(t, h)
    BY <2>8, <2>r DEF NotModified, Reported, Begun, Concerned
  <2>9. CASE \E h \in Handlers : Announced(t, h)
    BY <2>9, <2>b DEF Announced
  <2>10. ASSUME NEW h \in Handlers, BatchReceived(t, h) PROVE QueueShape' /\ QueueTypes'
    <3>1. /\ UNCHANGED <<queue, worker>> /\ \A u \in Tasks \ {t} : task'[u] = task[u]
          /\ task[t].stage = "fetching" /\ task'[t].live = task[t].live
          /\ task'[t].stage \in {"announcing", "reporting"}
      BY <2>10, <1>s DEF BatchReceived, Task
    <3> QED
      BY <3>1, <2>m DEF Begun, Concerned
  <2> QED
    BY <1>2, <2>1, <2>2, <2>3, <2>4, <2>5, <2>6, <2>7, <2>8, <2>9, <2>10 DEF AgentStep
<1>3. ASSUME NEW x \in Txns, TxnStep(x) \/ TxnFails(x) \/ ReloadCancelled(x)
      PROVE  UNCHANGED <<queue, worker, task>>
  BY <1>3 DEF TxnStep, TxnFails, ReloadCancelled, agent
<1>4. ASSUME NEW h \in Handlers, PanelStep(h) \/ PanelUpset(h)
      PROVE  UNCHANGED <<queue, worker, task>>
  BY <1>4 DEF PanelStep, PanelUpset, agent
<1>5. CASE InjectUsers \/ PanelChange
  BY <1>5, <1>v DEF InjectUsers, InjectRead, InjectApply, InjectEnds, PanelChange, agent
<1>6. CASE Crash
  <2>1. task' = [t \in Tasks |-> Free] /\ queue' = <<>> /\ worker' = NoTask
    BY <1>6 DEF Crash
  <2> QED
    BY <2>1, ConfigAssumption DEF QueueShape, QueueTypes, Free, Begun, Concerned
<1> QED
  BY <1>v, <1>1, <1>2, <1>3, <1>4, <1>5, <1>6 DEF Next, Txns
-----------------------------------------------------------------------------
(* A step of a transaction changes no other, and ends with an outcome.     *)
LEMMA TxnEffect ==
  ASSUME D!TypeOK, NEW x \in Txns, D!Step(x) \/ D!Failure(x)
  PROVE  \A y \in Txns :
           /\ phase[y] # "idle" \/ y # x
           /\ phase'[y] # "idle" => phase[y] # "idle" /\ request'[y] = request[y]
           /\ phase[y] # "idle" /\ phase'[y] = "idle" => outcome'[y] # "none"
           /\ phase[y] = "idle" => outcome'[y] = outcome[y]
<1> TAKE y \in Txns
<1>1. CASE D!Step(x)
  BY <1>1 DEF D!Step, D!Stage, D!MoveAway, D!Activate, D!ReloadOk, D!Remove, D!Restore, D!ReloadAgain,
              D!Return, D!Goto, D!TypeOK, Txns
<1>2. CASE D!Failure(x)
  BY <1>2 DEF D!Failure, D!StageFails, D!ActivateFails, D!ReloadFails, D!RollbackFails,
              D!Return, D!Goto, D!TypeOK, Txns
<1> QED
  BY <1>1, <1>2

(* Every step keeps transactions and their tasks fitting.                  *)
LEMMA TxnsStep == Shape /\ [Next]_vars => TxnsFit'
<1> SUFFICES ASSUME Shape, [Next]_vars PROVE TxnsFit'
  OBVIOUS
<1>s. task \in [Tasks -> Task] /\ D!TypeOK /\ TxnsFit /\ Injector \notin Tasks
  BY ConfigAssumption DEF Shape, AgentTypes, DirInv
<1>u. ASSUME UNCHANGED <<phase, request, outcome, injection>>,
             \A t \in Tasks : \/ task'[t].stage = task[t].stage /\ task'[t].payload = task[t].payload
                              \/ phase[t] = "idle" /\ task'[t].stage # "applying"
      PROVE  TxnsFit'
  BY <1>u, <1>s DEF TxnsFit
<1>v. ASSUME UNCHANGED <<phase, request, outcome, injection, task>> PROVE TxnsFit'
  BY <1>v, <1>u
<1>1. CASE UNCHANGED vars
  BY <1>1, <1>v DEF vars, agent, dir, users
<1>2. ASSUME NEW t \in Tasks, AgentStep(t) \/ Watchdog(t) \/ Abandon(t) \/ CallLost(t) \/ CallFails(t)
      PROVE  TxnsFit'
  <2>i. task[t].stage # "applying" => phase[t] = "idle"
    BY <1>s DEF TxnsFit
  <2>o. ASSUME UNCHANGED <<dir, users>>, \A u \in Tasks \ {t} : task'[u] = task[u],
               phase[t] = "idle", task'[t].stage # "applying"
        PROVE  TxnsFit'
    BY <2>o, <1>u DEF dir, users
  <2>b. ASSUME BeginApply(t), UNCHANGED users PROVE TxnsFit'
    <3> DEFINE req == [mode |-> "snapshot", version |-> task[t].payload, config |-> {}]
    <3>1. /\ task' = [task EXCEPT ![t].stage = "applying"] /\ injection' = injection
          /\ phase' = [phase EXCEPT ![t] = "waiting"] /\ request' = [request EXCEPT ![t] = req]
          /\ outcome' = [outcome EXCEPT ![t] = "none"]
      BY <2>b DEF BeginApply, Goto, D!Ask, D!Goto, users
    <3>2. task'[t].stage = "applying" /\ task'[t].payload = task[t].payload
      BY <3>1, <1>s DEF Task
    <3>3. phase'[t] = "waiting" /\ request'[t] = req
      BY <3>1, <1>s DEF D!TypeOK
    <3>4. \A u \in Txns \ {t} : phase'[u] = phase[u] /\ request'[u] = request[u] /\ outcome'[u] = outcome[u]
      BY <3>1, <1>s DEF D!TypeOK, Txns
    <3>5. \A u \in Tasks \ {t} : task'[u] = task[u]
      BY <3>1, <1>s
    <3>6. \A u \in Tasks :
            /\ phase'[u] # "idle" =>
                 /\ task'[u].stage = "applying"
                 /\ request'[u] = [mode |-> "snapshot", version |-> task'[u].payload, config |-> {}]
            /\ task'[u].stage = "applying" /\ phase'[u] = "idle" => outcome'[u] # "none"
      BY <3>2, <3>3, <3>4, <3>5, <1>s DEF TxnsFit, Txns
    <3>7. phase'[Injector] = phase[Injector] /\ request'[Injector] = request[Injector]
      BY <3>4, ConfigAssumption DEF Txns
    <3> QED
      BY <3>1, <3>6, <3>7, <1>s DEF TxnsFit
  <2>r. ASSUME HandlerReturns(t), UNCHANGED <<dir, users>>, task[t].stage \in Calling PROVE TxnsFit'
    <3>1. \A u \in Tasks \ {t} : task'[u] = task[u]
      BY <2>r, <1>s DEF HandlerReturns
    <3>2. task'[t].stage # "applying"
      BY <2>r, <1>s DEF HandlerReturns, Free
    <3> QED
      BY <2>r, <2>o, <2>i, <3>1, <3>2 DEF Calling
  <2>1. CASE Submit(t)
    BY <2>1, <2>i, <2>o, <1>s DEF Submit, Task
  <2>2. CASE Start(t)
    <3>1. queue[1] = t /\ 1 \in 1..Len(queue)
      BY <2>2 DEF Start, Shape, AgentTypes
    <3> QED
      BY <2>2, <3>1, <2>i, <2>o, <1>s DEF Start, Goto, Task, Shape, QueueShape
  <2>3. CASE Watchdog(t) \/ Abandon(t)
    BY <2>3, <1>u, <1>s DEF Watchdog, Abandon, Task, dir, users
  <2>5. CASE Applied(t)
    BY <2>5, <2>o, <1>s DEF Applied, Task
  <2>6. CASE CallLost(t) \/ \E h \in Handlers : GetBatch(t, h) \/ Report(t, h)
    BY <2>6, <1>v DEF CallLost, GetBatch, Report, agent, dir, users
  <2>7. CASE CallCancelled(t) \/ CallFails(t)
    BY <2>7, <2>r, <2>b DEF CallCancelled, CallFails, CallGivenUp, users
  <2>8. CASE \E h \in Handlers : NotModified(t, h) \/ Reported(t, h)
    BY <2>8, <2>r DEF NotModified, Reported, Calling
  <2>9. CASE \E h \in Handlers : Announced(t, h)
    BY <2>9, <2>b DEF Announced
  <2>10. CASE \E h \in Handlers : BatchReceived(t, h)
    <3>1. PICK h \in Handlers : BatchReceived(t, h)
      BY <2>10
    <3>2. task[t].stage = "fetching" /\ UNCHANGED <<dir, users>>
      BY <3>1 DEF BatchReceived
    <3>3. \E rec : rec.stage # "applying" /\ task' = [task EXCEPT ![t] = rec]
      <4> DEFINE received == [task[t] EXCEPT !.run = reqs[h].run, !.payload = reqs[h].payload]
                 one == [received EXCEPT !.stage = "announcing"]
                 two == [received EXCEPT !.stage = "reporting", !.status = "failed"]
      <4>1. one.stage = "announcing" /\ two.stage = "reporting"
        BY <1>s DEF Task
      <4>2. task' = [task EXCEPT ![t] = one] \/ task' = [task EXCEPT ![t] = two]
        BY <3>1 DEF BatchReceived
      <4> QED
        BY <4>1, <4>2
    <3>4. task'[t].stage # "applying" /\ \A u \in Tasks \ {t} : task'[u] = task[u]
      BY <3>3, <1>s
    <3> QED
      BY <3>2, <3>4, <2>i, <2>o
  <2> QED
    BY <1>2, <2>1, <2>2, <2>3, <2>5, <2>6, <2>7, <2>8, <2>9, <2>10 DEF AgentStep
<1>3. ASSUME NEW x \in Txns, TxnStep(x) \/ TxnFails(x) \/ ReloadCancelled(x)
      PROVE  TxnsFit'
  <2>1. (D!Step(x) \/ D!Failure(x)) /\ UNCHANGED <<task, injection>>
    BY <1>3 DEF TxnStep, TxnFails, ReloadCancelled, D!Failure, agent, users
  <2>2. \A y \in Txns :
          /\ phase'[y] # "idle" => phase[y] # "idle" /\ request'[y] = request[y]
          /\ phase[y] # "idle" /\ phase'[y] = "idle" => outcome'[y] # "none"
          /\ phase[y] = "idle" => outcome'[y] = outcome[y]
    BY <2>1, <1>s, TxnEffect
  <2> QED
    BY <2>1, <2>2, <1>s DEF TxnsFit, Txns
<1>4. ASSUME NEW h \in Handlers, PanelStep(h) \/ PanelUpset(h)
      PROVE  UNCHANGED <<phase, request, outcome, injection, task>>
  BY <1>4 DEF PanelStep, PanelUpset, agent, dir, users
<1>5. CASE InjectUsers
  <2>i. injection.stage # "applying" => phase[Injector] = "idle"
    BY <1>s DEF TxnsFit
  <2>1. CASE InjectRead \/ InjectEnds
    <3>1. UNCHANGED <<phase, request, outcome, task>> /\ phase[Injector] = "idle"
      BY <2>1, <2>i DEF InjectRead, InjectEnds, agent, dir
    <3> QED
      BY <3>1, <1>s DEF TxnsFit
  <2>2. CASE InjectApply
    <3> DEFINE req == [mode |-> "patch", version |-> P!NoPayload, config |-> injection.config]
    <3>1. /\ task' = task /\ injection' = [injection EXCEPT !.stage = "applying"]
          /\ phase' = [phase EXCEPT ![Injector] = "waiting"] /\ request' = [request EXCEPT ![Injector] = req]
          /\ outcome' = [outcome EXCEPT ![Injector] = "none"]
      BY <2>2 DEF InjectApply, D!Ask, D!Goto, agent
    <3>2. injection'.stage = "applying" /\ injection'.config = injection.config
      BY <3>1 DEF Shape, AgentTypes
    <3>3. request'[Injector] = req
      BY <3>1, <1>s DEF D!TypeOK
    <3>4. \A u \in Tasks : phase'[u] = phase[u] /\ request'[u] = request[u] /\ outcome'[u] = outcome[u]
      BY <3>1, <1>s DEF D!TypeOK
    <3> QED
      BY <3>1, <3>2, <3>3, <3>4, <1>s DEF TxnsFit
  <2> QED
    BY <1>5, <2>1, <2>2 DEF InjectUsers
<1>6. CASE PanelChange
  BY <1>6, <1>v DEF PanelChange, agent, dir, users
<1>7. CASE Crash
  <2>1. task' = [t \in Tasks |-> Free] /\ phase' = [x \in Txns |-> "idle"]
    BY <1>7 DEF Crash, D!Die, Txns
  <2> QED
    BY <2>1 DEF TxnsFit, Free, Txns
<1> QED
  BY <1>v, <1>1, <1>2, <1>3, <1>4, <1>5, <1>6, <1>7 DEF Next, Txns

(* Every step keeps the types of the agent's part.                         *)
LEMMA AgentStepTypes == Shape /\ [Next]_vars => AgentTypes'
<1> SUFFICES ASSUME Shape, [Next]_vars PROVE AgentTypes'
  OBVIOUS
<1>t. task' \in [Tasks -> Task] /\ queue' \in Seq(Tasks) /\ worker' \in Tasks \cup {NoTask}
  BY TaskStep, QueueStep DEF QueueTypes
<1>s. /\ gate \in BOOLEAN /\ revision \in 0..MaxRevisions /\ task \in [Tasks -> Task]
      /\ injection \in [stage : {"idle", "read", "applying"}, config : SUBSET P!Payload]
      /\ upsets \in 0..MaxUpsets /\ injections \in 0..MaxInjections /\ raced \in BOOLEAN
  BY DEF Shape, AgentTypes
<1> DEFINE Rest == /\ gate' \in BOOLEAN /\ revision' \in 0..MaxRevisions
                   /\ injection' \in [stage : {"idle", "read", "applying"}, config : SUBSET P!Payload]
                   /\ upsets' \in 0..MaxUpsets /\ injections' \in 0..MaxInjections /\ raced' \in BOOLEAN
<1>w. Upset => upsets' \in 0..MaxUpsets
  BY <1>s, ConfigAssumption DEF Upset
<1>1. ASSUME UNCHANGED vars PROVE Rest
  BY <1>1, <1>s DEF vars, agent, users, others
<1>2. ASSUME NEW t \in Tasks, AgentStep(t) \/ Watchdog(t) \/ Abandon(t) \/ CallLost(t) \/ CallFails(t)
      PROVE  Rest
  <2>f. GateFreed(t) \in BOOLEAN
    BY <1>s DEF GateFreed, Task
  <2>1. CASE Submit(t) \/ Start(t) \/ Watchdog(t) \/ Applied(t)
    BY <2>1, <1>s DEF Submit, Start, Watchdog, Applied, users, others
  <2>2. CASE Abandon(t) \/ CallLost(t)
    BY <2>2, <1>s, <1>w DEF Abandon, CallLost, users, agent
  <2>3. CASE CallCancelled(t) \/ CallFails(t)
    <3>1. UNCHANGED <<injection, injections, raced, revision>> /\ gate' \in BOOLEAN
      BY <2>3, <2>f, <1>s DEF CallCancelled, CallFails, CallGivenUp, BeginApply, HandlerReturns, users
    <3>2. upsets' \in 0..MaxUpsets
      BY <2>3, <1>s, <1>w DEF CallCancelled, CallFails
    <3> QED
      BY <3>1, <3>2, <1>s
  <2>4. CASE \E h \in Handlers : GetBatch(t, h) \/ Report(t, h)
    BY <2>4, <1>s DEF GetBatch, Report, agent, users, others
  <2>5. CASE \E h \in Handlers : Announced(t, h)
    BY <2>5, <1>s DEF Announced, BeginApply, users, others
  <2>6. CASE \E h \in Handlers : NotModified(t, h)
    BY <2>6, <2>f, <1>s DEF NotModified, HandlerReturns, users, others
  <2>7. CASE \E h \in Handlers : BatchReceived(t, h)
    BY <2>7, <1>s, <1>w DEF BatchReceived, users
  <2>8. ASSUME NEW h \in Handlers, Reported(t, h) PROVE Rest
    <3>1. task[t].payload.revision \in 0..MaxRevisions
      BY <1>s, ConfigAssumption DEF Task, P!Payload, P!Revisions, P!NoPayload
    <3>2. revision' \in 0..MaxRevisions
      BY <2>8, <3>1, <1>s DEF Reported, RevisionAfter
    <3>3. gate' \in BOOLEAN /\ UNCHANGED <<users, others>>
      BY <2>8, <2>f DEF Reported, HandlerReturns
    <3> QED
      BY <3>2, <3>3, <1>s DEF users, others
  <2> QED
    BY <1>2, <2>1, <2>2, <2>3, <2>4, <2>5, <2>6, <2>7, <2>8 DEF AgentStep
<1>3. ASSUME NEW x \in Txns, TxnStep(x) \/ TxnFails(x) \/ ReloadCancelled(x)
      PROVE  Rest
  <2>1. upsets' \in 0..MaxUpsets /\ UNCHANGED <<agent, users>> /\ Race
    BY <1>3, <1>s, <1>w DEF TxnStep, TxnFails, ReloadCancelled
  <2>2. raced' \in BOOLEAN
    BY <2>1 DEF Race
  <2> QED
    BY <2>1, <2>2, <1>s DEF agent, users
<1>4. ASSUME NEW h \in Handlers, PanelStep(h) \/ PanelUpset(h)
      PROVE  Rest
  BY <1>4, <1>s, <1>w DEF PanelStep, PanelUpset, agent, users
<1>5. ASSUME InjectUsers PROVE Rest
  <2>1. UNCHANGED <<gate, revision, upsets, raced>>
    BY <1>5 DEF InjectUsers, InjectRead, InjectApply, InjectEnds, agent, others
  <2>2. injections' \in 0..MaxInjections
    BY <1>5, <1>s, ConfigAssumption DEF InjectUsers, InjectRead, InjectApply, InjectEnds
  <2>3. injection' \in [stage : {"idle", "read", "applying"}, config : SUBSET P!Payload]
    <3>1. CASE InjectRead
      <4>1. active.config \in SUBSET P!Payload
        BY <3>1 DEF InjectRead, Shape, DirInv, D!TypeOK, D!Dirs, D!Labels
      <4> QED
        BY <3>1, <4>1 DEF InjectRead
    <3>2. CASE InjectApply \/ InjectEnds
      BY <3>2, <1>s DEF InjectApply, InjectEnds, NoInjection
    <3> QED
      BY <1>5, <3>1, <3>2 DEF InjectUsers
  <2> QED
    BY <2>1, <2>2, <2>3, <1>s
<1>6. ASSUME PanelChange PROVE Rest
  BY <1>6, <1>s DEF PanelChange, agent, users, others
<1>7. ASSUME Crash PROVE Rest
  <2>1. NoInjection \in [stage : {"idle", "read", "applying"}, config : SUBSET P!Payload]
    BY DEF NoInjection
  <2>2. 0 \in 0..MaxRevisions
    BY ConfigAssumption
  <2> QED
    BY <1>7, <2>1, <2>2, <1>s, <1>w DEF Crash
<1>8. Rest
  BY <1>1, <1>2, <1>3, <1>4, <1>5, <1>6, <1>7, <1>s DEF Next, Txns, vars, agent, users, others
<1> QED
  BY <1>8, <1>t DEF AgentTypes

(* Every step keeps the invariant.                                         *)
LEMMA ShapeStep == Shape /\ [Next]_vars => Shape'
<1> SUFFICES ASSUME Shape, [Next]_vars PROVE Shape'
  OBVIOUS
<1>1. PanelInv'
  BY PanelSteps, PanelKept DEF Shape
<1>2. DirInv'
  BY DirSteps, DirStep DEF Shape
<1> QED
  BY <1>1, <1>2, AgentStepTypes, TaskStep, CallsStep, TxnsStep, QueueStep DEF Shape

(* The invariant holds throughout.                                         *)
LEMMA Shaped == Spec => []Shape
BY InitShape, ShapeStep, PTL DEF Spec
=============================================================================
