------------------------ MODULE AgentCommands_proofs ------------------------
(***************************************************************************)
(* Proofs about the command loop between panel and agent, for any number   *)
(* of commands, calls, internal tasks, requests and crashes, any capacity  *)
(* and any limit of a poll.                                                *)
(*                                                                         *)
(* IInv ties three places together.  At the panel: what exists, and what a *)
(* request in flight may write (Rows, PanelEarned).  In the queue: where a *)
(* task is and how many slots are taken (Lined, SlotsExact), and what the  *)
(* agent may report of it (AgentEarned).  Between them: what the agent has *)
(* is begun at the panel (HandedOut), and fits into the queue (RoomKept).  *)
(***************************************************************************)
EXTENDS AgentCommands, FiniteSetTheorems, TLAPS

Begun(o) == ops[o].status \notin {"unborn", "pending"}

(* A pending row belongs to nobody, so no report can change it; a request  *)
(* past its first read is about an operation that was claimed.             *)
Rows ==
  /\ \A o \in Ops : /\ ops[o].status = "unborn" <=> o > created
                    /\ ops[o].status = "pending" => ops[o].by = NoWorker
  /\ \A h \in Handlers : handlers[h].pc # "idle" =>
       /\ handlers[h].op \in Ops /\ Begun(handlers[h].op)
       /\ handlers[h].next \in {"claimed", "in_progress"} \cup Panel!Terminal

(* What waits in the channel is queued, and waits there once.              *)
Lined ==
  /\ \A i \in 1..Len(tasks) : stage[tasks[i]] = "queued"
  /\ \A i, j \in 1..Len(tasks) : tasks[i] = tasks[j] => i = j

SlotsExact == slots = Cardinality(Queue!At(Queue!Holding))

OpCalls == {n \in Submissions : IdOf[n] \in Ops}

(* Whatever the agent has, the panel has given out.                        *)
HandedOut ==
  /\ \A i \in 1..Len(inbox) : Begun(inbox[i])
  /\ \A n \in OpCalls : stage[n] # "new" => Begun(IdOf[n])

(* The status s may be shown of o.                                         *)
Earned(o, s) ==
  /\ s \in Panel!Terminal => <<o, s>> \in answered
  /\ s \in {"in_progress"} \cup HandlerResults => o \in ran

PanelEarned ==
  /\ \A o \in Ops : Earned(o, ops[o].status)
  /\ \A h \in Handlers : handlers[h].pc = "update" => Earned(handlers[h].op, handlers[h].next)

(* What ran, and what was answered, is in the history.                     *)
AgentEarned ==
  /\ \A n \in OpCalls :
       /\ body[n] # "none" => IdOf[n] \in ran
       /\ answer[n] # "none" => Earned(IdOf[n], answer[n])
  /\ orphans \cap Ops \subseteq ran

PanelInv == Panel!TypeOK /\ Rows

QueueInv == Queue!TypeOK /\ Lined /\ SlotsExact

AgentTypes ==
  /\ inbox \in Seq(Ops)
  /\ orphans \subseteq Ops \cup Internal
  /\ crashes \in 0..MaxCrashes
  /\ ran \subseteq Ops
  /\ answered \subseteq Ops \X Queue!Answers

AgentInv == QueueInv /\ AgentTypes /\ HandedOut /\ AgentEarned /\ RoomKept

IInv == PanelInv /\ PanelEarned /\ AgentInv
-----------------------------------------------------------------------------
(* The operations are finitely many.                                       *)
LEMMA OpsFinite ==
  ASSUME NEW S \in SUBSET Ops
  PROVE  IsFiniteSet(S) /\ Cardinality(S) \in Nat
<1>1. 1 \in Int /\ MaxOps \in Int
  BY CommandsAssumption
<1>2. IsFiniteSet(Ops)
  BY <1>1, FS_Interval DEF Ops
<1> QED
  BY <1>2, FS_Subset, FS_CardinalityType

(* A response lists each of its operations once.                           *)
LEMMA InOrderLists ==
  ASSUME NEW S \in SUBSET Ops, NEW list \in InOrder(S)
  PROVE  list \in Seq(Ops) /\ Len(list) = Cardinality(S) /\ ToSet(list) \subseteq S
<1>1. Cardinality(S) \in Nat
  BY OpsFinite
<1>2. list \in [1..Cardinality(S) -> S]
  BY DEF InOrder, SetToSeqs
<1> QED
  BY <1>1, <1>2 DEF ToSet

(* LifecycleOps counts like this module.                                   *)
LEMMA SameCardinality ==
  ASSUME NEW S PROVE Panel!Cardinality(S) = Cardinality(S)
  BY DEF Panel!Cardinality, Cardinality

(* A response has at most as many operations as the agent has asked for.   *)
LEMMA OldestBound ==
  ASSUME NEW S \in SUBSET Ops, NEW n \in Nat
  PROVE  Panel!OldestOf(S, n) \subseteq S /\ Cardinality(Panel!OldestOf(S, n)) <= n
<1> DEFINE Older(o) == {p \in S : p < o}
           Batch == Panel!OldestOf(S, n)
           Rank == [o \in Batch |-> Cardinality(Older(o))]
<1>1. \A o \in S : Older(o) \in SUBSET Ops /\ IsFiniteSet(Older(o)) /\ Cardinality(Older(o)) \in Nat
  BY OpsFinite
<1>2. \A o \in Batch : o \in S /\ Panel!Cardinality(Older(o)) < n
  BY DEF Panel!OldestOf
<1>3. \A o \in Batch : o \in S /\ Cardinality(Older(o)) \in 0..(n - 1)
  <2> SUFFICES ASSUME NEW o \in Batch PROVE o \in S /\ Cardinality(Older(o)) \in 0..(n - 1)
    OBVIOUS
  <2>1. o \in S /\ Panel!Cardinality(Older(o)) < n
    BY <1>2
  <2>2. Panel!Cardinality(Older(o)) = Cardinality(Older(o))
    BY SameCardinality
  <2>3. Cardinality(Older(o)) \in Nat
    BY <1>1, <2>1
  <2> HIDE DEF Older
  <2> QED
    BY <2>1, <2>2, <2>3
<1>4. ASSUME NEW o \in S, NEW q \in S, o < q PROVE Cardinality(Older(o)) < Cardinality(Older(q))
  <2>0. o \in Int /\ q \in Int /\ S \subseteq Int
    BY CommandsAssumption DEF Ops
  <2>1. o \in Older(q) /\ o \notin Older(o)
    BY <1>4, <2>0
  <2>3. \A p \in Older(o) : p \in Older(q)
    <3> TAKE p \in Older(o)
    <3>1. p \in S /\ p \in Int /\ p < o
      BY <2>0
    <3>2. p < q
      BY <1>4, <2>0, <3>1
    <3> QED
      BY <3>1, <3>2
  <2>4. IsFiniteSet(Older(q)) /\ Cardinality(Older(o)) \in Nat /\ Cardinality(Older(q)) \in Nat
    BY <1>1
  <2> HIDE DEF Older
  <2>5. Older(o) \in SUBSET Older(q) /\ Older(o) # Older(q)
    BY <2>1, <2>3
  <2>2. Cardinality(Older(o)) <= Cardinality(Older(q)) /\ Cardinality(Older(o)) # Cardinality(Older(q))
    BY <2>4, <2>5, FS_Subset
  <2> QED
    BY <2>2, <2>4
<1> HIDE DEF Older, Batch
<1>5. Rank \in Injection(Batch, 0..(n - 1))
  <2>1. Rank \in [Batch -> 0..(n - 1)]
    BY <1>3
  <2>2. ASSUME NEW o \in Batch, NEW q \in Batch, Rank[o] = Rank[q] PROVE o = q
    <3>0. o \in S /\ q \in S
      BY <1>3
    <3>1. o \in S /\ q \in S /\ o \in Int /\ q \in Int
      BY <3>0, CommandsAssumption DEF Ops
    <3>2. Cardinality(Older(o)) = Cardinality(Older(q))
      BY <2>2
    <3>3. Cardinality(Older(o)) \in Nat
      BY <1>1, <3>1
    <3> QED
      BY <1>4, <3>1, <3>2, <3>3
  <2> QED
    BY <2>1, <2>2 DEF Injection, IsInjective
<1>6. IsFiniteSet(0..(n - 1)) /\ Cardinality(0..(n - 1)) = n
  BY FS_Interval
<1>7. Cardinality(Batch) <= n
  BY <1>5, <1>6, FS_Injection
<1> QED
  BY <1>3, <1>7 DEF Batch
-----------------------------------------------------------------------------
(* The queue by itself: the types of its state.                            *)
LEMMA QueueStart ==
  Queue!Init => Queue!TypeOK /\ Lined
<1> SUFFICES ASSUME Queue!Init PROVE Queue!TypeOK /\ Lined
  OBVIOUS
<1>1. tasks = <<>> /\ tasks \in Seq(Submissions) /\ slots \in 0..Capacity
  BY CommandsAssumption DEF Queue!Init
<1>2. Queue!TypeOK
  BY <1>1 DEF Queue!Init, Queue!TypeOK, Queue!Lives, Queue!Stages, Queue!Answers
<1> QED
  BY <1>1, <1>2 DEF Lined

(* A step of a call keeps the types.                                       *)
LEMMA CallTypes ==
  ASSUME Queue!TypeOK, NEW n \in Submissions, Queue!Submit(n) \/ Queue!CallStep(n)
  PROVE  Queue!TypeOK'
<1>1. CASE Queue!Submit(n)
  BY <1>1 DEF Queue!TypeOK, Queue!Submit, Queue!Stages, Queue!Answers
<1>2. CASE Queue!TakeSlot(n)
  BY <1>2, CommandsAssumption
     DEF Queue!TypeOK, Queue!TakeSlot, Queue!SlotFree, Queue!Stages, Queue!Holding, Queue!Answers
<1>3. CASE Queue!AcceptReported(n)
  BY <1>3 DEF Queue!TypeOK, Queue!AcceptReported, Queue!Stages, Queue!Holding
<1>4. CASE Queue!Push(n)
  <2>1. slots' \in 0..Capacity
    BY <1>4, CommandsAssumption DEF Queue!TypeOK, Queue!Push, Queue!Released
  <2>2. tasks' \in Seq(Submissions)
    BY <1>4 DEF Queue!TypeOK, Queue!Push
  <2>3. stage' \in [Submissions -> Queue!Stages] /\ answer' \in [Submissions -> Queue!Answers]
    BY <1>4 DEF Queue!TypeOK, Queue!Push, Queue!Stages, Queue!Holding, Queue!Answers
  <2> QED
    BY <1>4, <2>1, <2>2, <2>3 DEF Queue!TypeOK, Queue!Push
<1>5. CASE Queue!RefuseReported(n)
  BY <1>5 DEF Queue!TypeOK, Queue!RefuseReported, Queue!Stages
<1> QED
  BY <1>1, <1>2, <1>3, <1>4, <1>5 DEF Queue!CallStep

(* What a worker takes was queued.                                         *)
LEMMA Taken ==
  ASSUME Queue!TypeOK, Lined, Queue!WorkerTake(Worker)
  PROVE  /\ Head(tasks) \in Submissions /\ Head(tasks) = tasks[1]
         /\ stage[Head(tasks)] = "queued"
         /\ 1 \in 1..Len(tasks) /\ Len(tasks) \in Nat
         /\ Len(tasks') = Len(tasks) - 1 /\ tasks' \in Seq(Submissions)
         /\ \A i \in 1..Len(tasks') : tasks'[i] = tasks[i + 1] /\ i + 1 \in 1..Len(tasks)
<1>1. tasks \in Seq(Submissions) /\ tasks # <<>> /\ tasks' = Tail(tasks)
  BY DEF Queue!TypeOK, Queue!WorkerTake, Queue!TaskPopped
<1> QED
  BY <1>1 DEF Lined

(* A step of a worker keeps the types.                                     *)
LEMMA WorkerTypes ==
  ASSUME Queue!TypeOK, Lined, Queue!WorkerStep(Worker)
  PROVE  Queue!TypeOK'
<1>1. CASE Queue!WorkerTake(Worker)
  <2>1. Head(tasks) \in Submissions /\ tasks' \in Seq(Submissions)
    BY <1>1, Taken
  <2>2. IdOf[Head(tasks)] \in Ops \cup Internal
    BY <2>1, CommandsAssumption DEF Ops
  <2> QED
    BY <1>1, <2>1, <2>2
       DEF Queue!TypeOK, Queue!WorkerTake, Queue!Stages, Queue!Holding, Queue!Working
<1>2. CASE Queue!Finish(Worker)
  <2>1. Queue!VerdictOf(holds[Worker]) \subseteq Queue!Answers
    BY DEF Queue!VerdictOf, Queue!Answers, Queue!Verdicts
  <2> QED
    BY <1>2, <2>1 DEF Queue!TypeOK, Queue!Finish, Queue!Stages, Queue!Holding, Queue!Working
<1>3. CASE Queue!Leave(Worker)
  BY <1>3 DEF Queue!TypeOK, Queue!Leave, Queue!InflightWithout, Queue!Stages, Queue!Holding, Queue!Working
<1>4. CASE Queue!Release(Worker)
  <2>1. slots' \in 0..Capacity
    BY <1>4, CommandsAssumption DEF Queue!TypeOK, Queue!Release, Queue!SlotGivenBack, Queue!Released
  <2> QED
    BY <1>4, <2>1 DEF Queue!TypeOK, Queue!Release, Queue!Stages
<1>5. CASE Queue!WorkerExit(Worker)
  BY <1>5 DEF Queue!TypeOK, Queue!WorkerExit
<1> QED
  BY <1>1, <1>2, <1>3, <1>4, <1>5 DEF Queue!WorkerStep

(* A call or a worker that leaves the channel alone, and what is in it.    *)
LEMMA LinedKept ==
  ASSUME Queue!TypeOK, Lined, UNCHANGED tasks,
         \A n \in Submissions : stage[n] = "queued" => stage'[n] = "queued"
  PROVE  Lined'
<1>1. \A i \in 1..Len(tasks) : tasks[i] \in Submissions
  BY DEF Queue!TypeOK
<1> QED
  BY <1>1 DEF Lined

(* The call pushed joins the end of the channel.                           *)
LEMMA PushLined ==
  ASSUME Queue!TypeOK, Lined, NEW n \in Submissions, Queue!Push(n)
  PROVE  Lined'
<1>0. /\ tasks \in Seq(Submissions) /\ Len(tasks) \in Nat
      /\ \A i \in 1..Len(tasks) : tasks[i] \in Submissions /\ stage[tasks[i]] = "queued"
      /\ stage[n] = "pushing"
  BY DEF Queue!TypeOK, Queue!Push, Lined
<1>1. CASE UNCHANGED tasks
  BY <1>0, <1>1, LinedKept DEF Queue!TypeOK, Queue!Push
<1>2. CASE tasks' = Append(tasks, n) /\ stage' = [stage EXCEPT ![n] = "queued"]
  <2>1. /\ Len(tasks') = Len(tasks) + 1 /\ tasks'[Len(tasks) + 1] = n
        /\ \A i \in 1..Len(tasks) : tasks'[i] = tasks[i] /\ tasks[i] # n
    BY <1>0, <1>2
  <2>2. \A i \in 1..Len(tasks') : i \in 1..Len(tasks) \/ i = Len(tasks) + 1
    BY <1>0, <2>1
  <2>3. \A i \in 1..Len(tasks') : stage'[tasks'[i]] = "queued"
    BY <1>0, <1>2, <2>1, <2>2 DEF Queue!TypeOK
  <2>4. \A i, j \in 1..Len(tasks') : tasks'[i] = tasks'[j] => i = j
    BY <2>1, <2>2 DEF Lined
  <2> QED
    BY <2>3, <2>4 DEF Lined
<1> QED
  BY <1>1, <1>2 DEF Queue!Push

(* The call taken leaves the head, and the rest stays in line.             *)
LEMMA TakeLined ==
  ASSUME Queue!TypeOK, Lined, Queue!WorkerTake(Worker)
  PROVE  Lined'
<1> DEFINE n == Head(tasks)
<1>0. /\ n \in Submissions /\ n = tasks[1] /\ 1 \in 1..Len(tasks) /\ Len(tasks) \in Nat
      /\ \A i \in 1..Len(tasks') : tasks'[i] = tasks[i + 1] /\ i + 1 \in 1..Len(tasks)
      /\ Len(tasks') = Len(tasks) - 1
  BY Taken
<1>1. stage' = [stage EXCEPT ![n] = "running"]
  BY DEF Queue!WorkerTake
<1>2. \A i \in 1..Len(tasks) : tasks[i] \in Submissions /\ stage[tasks[i]] = "queued"
  BY DEF Queue!TypeOK, Lined
<1>3. \A i, j \in 1..Len(tasks) : tasks[i] = tasks[j] => i = j
  BY DEF Lined
<1> HIDE DEF n
<1>4. \A i \in 1..Len(tasks') : tasks'[i] # n
  <2> TAKE i \in 1..Len(tasks')
  <2>1. i + 1 \in 1..Len(tasks) /\ i + 1 # 1
    BY <1>0
  <2> QED
    BY <1>0, <1>3, <2>1
<1>5. \A i \in 1..Len(tasks') : stage'[tasks'[i]] = "queued"
  <2> TAKE i \in 1..Len(tasks')
  <2>1. tasks'[i] \in Submissions /\ stage[tasks'[i]] = "queued"
    BY <1>0, <1>2
  <2> QED
    BY <1>1, <1>4, <2>1 DEF Queue!TypeOK
<1>6. \A i, j \in 1..Len(tasks') : tasks'[i] = tasks'[j] => i = j
  <2> TAKE i, j \in 1..Len(tasks')
  <2>1. tasks'[i] = tasks'[j] => i + 1 = j + 1
    BY <1>0, <1>3
  <2> QED
    BY <2>1
<1> QED
  BY <1>5, <1>6 DEF Lined

(* The channel holds the queued calls, each once, at every step of the queue.*)
LEMMA QueueLined ==
  ASSUME Queue!TypeOK, Lined,
         \/ Queue!WorkerStep(Worker)
         \/ \E n \in Submissions : Queue!Submit(n) \/ Queue!CallStep(n)
  PROVE  Lined'
<1>1. ASSUME NEW n \in Submissions, Queue!Submit(n) \/ Queue!CallStep(n) PROVE Lined'
  <2>1. CASE Queue!Push(n)
    BY <2>1, PushLined
  <2>2. CASE Queue!Submit(n) \/ Queue!TakeSlot(n) \/ Queue!AcceptReported(n) \/ Queue!RefuseReported(n)
    BY <2>2, LinedKept
       DEF Queue!TypeOK, Queue!Submit, Queue!TakeSlot, Queue!AcceptReported, Queue!RefuseReported
  <2> QED
    BY <1>1, <2>1, <2>2 DEF Queue!CallStep
<1>2. CASE Queue!WorkerTake(Worker)
  BY <1>2, TakeLined
<1>3. CASE Queue!Finish(Worker) \/ Queue!Leave(Worker) \/ Queue!Release(Worker) \/ Queue!WorkerExit(Worker)
  BY <1>3, LinedKept
     DEF Queue!TypeOK, Queue!Finish, Queue!Leave, Queue!Release, Queue!WorkerExit
<1> QED
  BY <1>1, <1>2, <1>3 DEF Queue!WorkerStep

(* One call enters the slots, or leaves them, or neither.                  *)
LEMMA SlotsMoved ==
  ASSUME Queue!TypeOK, SlotsExact, NEW n \in Submissions,
         \A m \in Submissions \ {n} : stage'[m] = stage[m],
         \/ stage[n] \notin Queue!Holding /\ stage'[n] \in Queue!Holding /\ slots' = slots + 1
         \/ (stage[n] \in Queue!Holding <=> stage'[n] \in Queue!Holding) /\ slots' = slots
         \/ stage[n] \in Queue!Holding /\ stage'[n] \notin Queue!Holding /\ slots' = Queue!Released
  PROVE  SlotsExact'
<1> DEFINE H == Queue!At(Queue!Holding)
           I == {m \in Submissions : stage'[m] \in Queue!Holding}
<1>1. I = Queue!At(Queue!Holding)' /\ H = {m \in Submissions : stage[m] \in Queue!Holding}
  BY DEF Queue!At, Queue!Holding, Queue!Working
<1>2. IsFiniteSet(H) /\ Cardinality(H) \in Nat /\ slots = Cardinality(H)
  BY <1>1, CommandsAssumption, FS_Subset, FS_CardinalityType DEF SlotsExact
<1>3. slots' = Cardinality(I)
  <2>1. CASE n \notin H /\ n \in I /\ slots' = slots + 1
    <3>1. I = H \cup {n}
      BY <1>1, <2>1
    <3> HIDE DEF H, I
    <3> QED
      BY <1>2, <2>1, <3>1, FS_AddElement
  <2>2. CASE (n \in H <=> n \in I) /\ slots' = slots
    <3>1. I = H
      BY <1>1, <2>2
    <3> QED
      BY <1>2, <2>2, <3>1
  <2>3. CASE n \in H /\ n \notin I /\ slots' = Queue!Released
    <3>1. I = H \ {n}
      BY <1>1, <2>3
    <3> HIDE DEF H, I
    <3>2. Cardinality(I) = Cardinality(H) - 1 /\ Cardinality(I) \in Nat
      BY <1>2, <2>3, <3>1, FS_RemoveElement, FS_CardinalityType
    <3> QED
      BY <1>2, <2>3, <3>2 DEF Queue!Released
  <2> QED
    BY <1>1, <2>1, <2>2, <2>3
<1> QED
  BY <1>1, <1>3 DEF SlotsExact

(* A call takes its slot and gives it back with the count.                 *)
LEMMA CallSlots ==
  ASSUME Queue!TypeOK, SlotsExact, NEW n \in Submissions, Queue!Submit(n) \/ Queue!CallStep(n)
  PROVE  SlotsExact'
<1>1. \A m \in Submissions \ {n} : stage'[m] = stage[m]
  BY DEF Queue!TypeOK, Queue!Submit, Queue!CallStep, Queue!TakeSlot, Queue!AcceptReported, Queue!Push,
         Queue!RefuseReported
<1>2. \/ stage[n] \notin Queue!Holding /\ stage'[n] \in Queue!Holding /\ slots' = slots + 1
      \/ (stage[n] \in Queue!Holding <=> stage'[n] \in Queue!Holding) /\ slots' = slots
      \/ stage[n] \in Queue!Holding /\ stage'[n] \notin Queue!Holding /\ slots' = Queue!Released
  BY DEF Queue!TypeOK, Queue!Submit, Queue!CallStep, Queue!TakeSlot, Queue!AcceptReported, Queue!Push,
         Queue!RefuseReported, Queue!Holding, Queue!Working
<1> QED
  BY <1>1, <1>2, SlotsMoved

(* A worker frees the slot it had from the call that it took.              *)
LEMMA WorkerSlots ==
  ASSUME Queue!TypeOK, Lined, SlotsExact, Queue!WorkerStep(Worker)
  PROVE  SlotsExact'
<1>1. CASE Queue!WorkerTake(Worker)
  <2>1. Head(tasks) \in Submissions /\ stage[Head(tasks)] = "queued"
    BY <1>1, Taken
  <2>2. stage' = [stage EXCEPT ![Head(tasks)] = "running"] /\ slots' = slots
    BY <1>1 DEF Queue!WorkerTake
  <2> QED
    BY <2>1, <2>2, SlotsMoved DEF Queue!TypeOK, Queue!Holding, Queue!Working
<1>2. CASE Queue!Finish(Worker) \/ Queue!Leave(Worker) \/ Queue!Release(Worker)
  <2>1. holds[Worker] \in Submissions
    BY <1>2 DEF Queue!TypeOK, Queue!Finish, Queue!Leave, Queue!Release
  <2> QED
    BY <1>2, <2>1, SlotsMoved
       DEF Queue!TypeOK, Queue!Finish, Queue!Leave, Queue!Release, Queue!SlotGivenBack,
           Queue!Holding, Queue!Working
<1>3. CASE Queue!WorkerExit(Worker)
  BY <1>3 DEF Queue!WorkerExit, SlotsExact, Queue!At
<1> QED
  BY <1>1, <1>2, <1>3 DEF Queue!WorkerStep

(* The queue at its own steps.                                             *)
LEMMA QueueKept ==
  ASSUME QueueInv,
         \/ Queue!WorkerStep(Worker)
         \/ \E n \in Submissions : Queue!Submit(n) \/ Queue!CallStep(n)
  PROVE  QueueInv'
  BY CallTypes, WorkerTypes, QueueLined, CallSlots, WorkerSlots DEF QueueInv
-----------------------------------------------------------------------------
(* The panel by itself: its steps, with what the agent's reports bring.    *)
Claim == Panel!ClaimNext(Host, WorkerId, {Type}, Room)

Received(h, o, ev) ==
  /\ ev.result = Result
  /\ Earned(o, Panel!ReportedStatus(ev))
  /\ Panel!ReportFind(h, Host, o, WorkerId, ev)

PanelStep ==
  \/ Panel!Create
  \/ Claim
  \/ \E o \in Ops : Panel!LeaseExpire(o)
  \/ \E h \in Handlers, o \in Ops : \E ev : Received(h, o, ev)
  \/ \E h \in Handlers : Panel!ReportUpdate(h) \/ Panel!ReportUpdateFails(h) \/ Panel!ReportLog(h)

StatusesOf(o) == ops'[o].status = ops[o].status /\ ops'[o].by = ops[o].by

(* What a step does to the rows: a new one is pending, the rows of a claim *)
(* are claimed, an update writes what the request carries.                 *)
LEMMA CreateRows ==
  ASSUME PanelInv, Panel!Create
  PROVE  /\ created + 1 \in Ops /\ ops[created + 1].status = "unborn" /\ created' = created + 1
         /\ ops' \in [Ops -> Panel!Row]
         /\ ops'[created + 1].status = "pending" /\ ops'[created + 1].by = NoWorker
         /\ \A o \in Ops \ {created + 1} : ops'[o] = ops[o]
         /\ UNCHANGED <<handlers, resultLog>>
<1>1. created + 1 \in Ops /\ ops[created + 1].status = "unborn" /\ created' = created + 1
  BY CommandsAssumption DEF PanelInv, Panel!TypeOK, Rows, Panel!Create, Ops
<1>2. /\ Panel!Blank("pending") \in Panel!Row
      /\ Panel!Blank("pending").status = "pending" /\ Panel!Blank("pending").by = NoWorker
  BY DEF Panel!Blank, Panel!Row, Panel!Statuses, Panel!Active
<1> QED
  BY <1>1, <1>2 DEF PanelInv, Panel!TypeOK, Panel!Create, Ops, Panel!Ops

(* A claim turns pending rows, or claimed ones, into claimed ones.         *)
LEMMA ClaimRows ==
  ASSUME PanelInv, Claim
  PROVE  /\ Response \subseteq Ops
         /\ \A o \in Response : \/ ops[o].status = "pending"
                                \/ ops[o].status = "claimed" /\ ops[o].lease = "expired"
         /\ ops' \in [Ops -> Panel!Row]
         /\ \A o \in Response : ops'[o].status = "claimed"
         /\ \A o \in Ops \ Response : ops'[o] = ops[o]
         /\ UNCHANGED <<created, handlers, resultLog>>
<1>1. /\ Response \subseteq Ops
      /\ \A o \in Response : \/ ops[o].status = "pending"
                             \/ ops[o].status = "claimed" /\ ops[o].lease = "expired"
  BY DEF Response, Panel!OldestOf, Panel!Claimable, Ops, Panel!Ops
<1>2. \A o \in Ops : /\ Panel!Claimed(ops[o], WorkerId) \in Panel!Row
                     /\ Panel!Claimed(ops[o], WorkerId).status = "claimed"
  BY DEF PanelInv, Panel!TypeOK, Panel!Claimed, Panel!Row, Panel!Statuses, Panel!Active, Ops, Panel!Ops
<1>3. /\ ops' = [o \in Ops |-> IF o \in Response THEN Panel!Claimed(ops[o], WorkerId) ELSE ops[o]]
      /\ UNCHANGED <<created, handlers, resultLog>>
  BY DEF Claim, Panel!ClaimNext, Response, Ops, Panel!Ops
<1>4. ops \in [Ops -> Panel!Row]
  BY DEF PanelInv, Panel!TypeOK, Ops, Panel!Ops
<1> QED
  BY <1>1, <1>2, <1>3, <1>4

(* A lease that runs out changes no status.                                *)
LEMMA LeaseRows ==
  ASSUME PanelInv, NEW o \in Ops, Panel!LeaseExpire(o)
  PROVE  /\ ops' \in [Ops -> Panel!Row]
         /\ \A p \in Ops : StatusesOf(p)
         /\ UNCHANGED <<created, handlers, resultLog>>
<1>1. ops \in [Ops -> Panel!Row] /\ ops[o] \in Panel!Row
  BY DEF PanelInv, Panel!TypeOK, Ops, Panel!Ops
<1>2. /\ [ops[o] EXCEPT !.lease = "expired"] \in Panel!Row
      /\ [ops[o] EXCEPT !.lease = "expired"].status = ops[o].status
      /\ [ops[o] EXCEPT !.lease = "expired"].by = ops[o].by
  BY <1>1 DEF Panel!Row
<1>3. ops' = [ops EXCEPT ![o] = [ops[o] EXCEPT !.lease = "expired"]]
  BY DEF Panel!LeaseExpire
<1> QED
  BY <1>1, <1>2, <1>3 DEF StatusesOf, Panel!LeaseExpire

(* A request is in hand with the row that it has found.                    *)
LEMMA FindRequest ==
  ASSUME PanelInv, NEW h \in Handlers, NEW o \in Ops, NEW ev, Received(h, o, ev)
  PROVE  /\ UNCHANGED <<ops, created, resultLog>>
         /\ handlers' \in [Handlers -> Panel!HandlerState]
         /\ handlers'[h].op = o /\ handlers'[h].next = Panel!ReportedStatus(ev)
         /\ handlers'[h].next \in {"claimed", "in_progress"} \cup Panel!Terminal
         /\ Begun(o)
         /\ \A g \in Handlers \ {h} : handlers'[g] = handlers[g]
<1> DEFINE next == Panel!ReportedStatus(ev)
           r == [pc |-> "update", op |-> o, by |-> WorkerId, next |-> next, result |-> ev.result,
                 started  |-> ops[o].started \/ next = "in_progress",
                 finished |-> ops[o].finished \/ next \in Panel!Terminal]
<1>1. /\ ops[o].by = WorkerId /\ Panel!Exists(o) /\ Panel!CanTransition(ops[o].status, next)
      /\ handlers' = [handlers EXCEPT ![h] = r]
      /\ UNCHANGED <<ops, created, resultLog>> /\ ev.result = Result
  BY DEF Received, Panel!ReportFind
<1> HIDE DEF next
<1>2. next \in {"claimed", "in_progress"} \cup Panel!Terminal
  BY <1>1 DEF Panel!CanTransition
<1>3. Begun(o)
  BY <1>1, CommandsAssumption DEF PanelInv, Rows, Begun, Panel!Exists, Panel!Absent
<1>4. r \in Panel!HandlerState /\ r.op = o /\ r.next = next
  BY <1>1, <1>2 DEF Panel!HandlerState, Panel!Statuses, Panel!Active, Ops, Panel!Ops
<1> HIDE DEF r
<1>5. handlers' \in [Handlers -> Panel!HandlerState] /\ handlers'[h] = r
      /\ \A g \in Handlers \ {h} : handlers'[g] = handlers[g]
  BY <1>1, <1>4 DEF PanelInv, Panel!TypeOK
<1> QED
  BY <1>1, <1>2, <1>3, <1>4, <1>5 DEF next

(* An update writes the status it carries, or nothing.                     *)
LEMMA UpdateRows ==
  ASSUME PanelInv, NEW h \in Handlers, Panel!ReportUpdate(h), Panel!UpdateMatches(handlers[h])
  PROVE  /\ handlers[h].pc = "update" /\ handlers[h].op \in Ops
         /\ ops' \in [Ops -> Panel!Row]
         /\ ops'[handlers[h].op].status = handlers[h].next
         /\ ops'[handlers[h].op].by = ops[handlers[h].op].by
         /\ \A o \in Ops \ {handlers[h].op} : ops'[o] = ops[o]
         /\ handlers' = [handlers EXCEPT ![h].pc = "log"]
         /\ UNCHANGED <<created, resultLog>>
<1> DEFINE r == handlers[h]
           row == [ops[r.op] EXCEPT !.status = r.next, !.result = r.result,
                                    !.started = r.started, !.finished = r.finished]
<1>1. r.pc = "update" /\ r.op \in Ops /\ r \in Panel!HandlerState
  BY DEF PanelInv, Panel!TypeOK, Rows, Panel!ReportUpdate
<1>2. ops \in [Ops -> Panel!Row] /\ ops[r.op] \in Panel!Row
  BY <1>1 DEF PanelInv, Panel!TypeOK, Ops, Panel!Ops
<1>3. row \in Panel!Row /\ row.status = r.next /\ row.by = ops[r.op].by
  BY <1>1, <1>2 DEF Panel!Row, Panel!HandlerState
<1>4. ops' = [ops EXCEPT ![r.op] = row]
  BY <1>1, <1>2 DEF Panel!ReportUpdate
<1>5. handlers' = [handlers EXCEPT ![h].pc = "log"] /\ UNCHANGED <<created, resultLog>>
  BY DEF Panel!ReportUpdate
<1> HIDE DEF r, row
<1>6. ops' \in [Ops -> Panel!Row] /\ ops'[r.op] = row /\ \A o \in Ops \ {r.op} : ops'[o] = ops[o]
  BY <1>1, <1>2, <1>3, <1>4
<1> QED
  BY <1>1, <1>3, <1>5, <1>6 DEF r

(* A step of the panel keeps its part of the invariant, and an operation   *)
(* that has been given out is never pending again.                         *)
LEMMA PanelKept ==
  ASSUME PanelInv, PanelStep
  PROVE  PanelInv' /\ \A o \in Ops : Begun(o) => Begun(o)'
<1>0. /\ ops \in [Ops -> Panel!Row] /\ created \in 0..MaxOps
      /\ handlers \in [Handlers -> Panel!HandlerState] /\ Rows
  BY DEF PanelInv, Panel!TypeOK, Ops, Panel!Ops
<1>l. resultLog' \in [Ops -> SUBSET Panel!Outcomes]
  <2>1. CASE UNCHANGED resultLog
    BY <2>1 DEF PanelInv, Panel!TypeOK, Ops, Panel!Ops
  <2>2. ASSUME NEW h \in Handlers, Panel!ReportLog(h)
        PROVE  resultLog' \in [Ops -> SUBSET Panel!Outcomes]
    <3>1. CASE handlers[h].next \in Panel!Terminal
      <4>1. handlers[h] \in Panel!HandlerState
        BY <1>0
      <4>2. <<handlers[h].next, handlers[h].result>> \in Panel!Outcomes
        BY <3>1, <4>1 DEF Panel!Outcomes, Panel!HandlerState
      <4> QED
        BY <2>2, <4>2, <2>1 DEF Panel!ReportLog, PanelInv, Panel!TypeOK, Ops, Panel!Ops
    <3>2. CASE handlers[h].next \notin Panel!Terminal
      BY <2>1, <2>2, <3>2 DEF Panel!ReportLog
    <3> QED
      BY <3>1, <3>2
  <2> QED
    BY <2>1, <2>2
       DEF PanelStep, Claim, Received, Panel!Create, Panel!ClaimNext, Panel!LeaseExpire, Panel!ReportFind,
           Panel!ReportUpdate, Panel!ReportUpdateFails
<1>t. ASSUME ops' \in [Ops -> Panel!Row], created' \in 0..MaxOps,
             handlers' \in [Handlers -> Panel!HandlerState]
      PROVE  Panel!TypeOK'
  BY <1>t, <1>l DEF Panel!TypeOK, Ops, Panel!Ops
<1>1. CASE Panel!Create
  <2>1. /\ created + 1 \in Ops /\ ops[created + 1].status = "unborn" /\ created' = created + 1
        /\ ops' \in [Ops -> Panel!Row]
        /\ ops'[created + 1].status = "pending" /\ ops'[created + 1].by = NoWorker
        /\ \A o \in Ops \ {created + 1} : ops'[o] = ops[o]
        /\ UNCHANGED handlers
    BY <1>1, CreateRows
  <2>2. created' \in 0..MaxOps /\ \A o \in Ops \ {created + 1} : o > created' <=> o > created
    BY <1>0, <2>1, CommandsAssumption DEF Ops
  <2>3. Panel!TypeOK'
    BY <1>0, <1>t, <2>1, <2>2
  <2>4. \A o \in Ops : Begun(o) => Begun(o)'
    BY <2>1 DEF Begun
  <2>5. \A o \in Ops : /\ ops'[o].status = "unborn" <=> o > created'
                       /\ ops'[o].status = "pending" => ops'[o].by = NoWorker
    <3>1. ~(created + 1 > created')
      BY <1>0, <2>1
    <3> QED
      BY <1>0, <2>1, <2>2, <3>1 DEF Rows
  <2>6. Rows'
    BY <1>0, <2>1, <2>4, <2>5 DEF Rows
  <2> QED
    BY <2>3, <2>4, <2>6 DEF PanelInv
<1>2. ASSUME ops' \in [Ops -> Panel!Row], UNCHANGED <<created, handlers>>,
             \A o \in Ops : StatusesOf(o) \/ (ops[o].status # "unborn" /\ ops'[o].status = "claimed")
      PROVE  PanelInv' /\ \A o \in Ops : Begun(o) => Begun(o)'
  <2>1. \A o \in Ops : Begun(o) => Begun(o)'
    BY <1>2 DEF Begun, StatusesOf
  <2>2. Rows'
    BY <1>0, <1>2, <2>1 DEF Rows, StatusesOf
  <2> QED
    BY <1>0, <1>2, <1>t, <2>1, <2>2 DEF PanelInv
<1>3. CASE Claim
  <2>1. \A o \in Ops : StatusesOf(o) \/ (ops[o].status # "unborn" /\ ops'[o].status = "claimed")
    BY <1>3, ClaimRows DEF StatusesOf
  <2> QED
    BY <1>2, <1>3, <2>1, ClaimRows
<1>4. ASSUME NEW o \in Ops, Panel!LeaseExpire(o)
      PROVE  PanelInv' /\ \A p \in Ops : Begun(p) => Begun(p)'
  BY <1>2, <1>4, LeaseRows
<1>5. ASSUME NEW h \in Handlers, NEW o \in Ops, NEW ev, Received(h, o, ev)
      PROVE  PanelInv' /\ \A p \in Ops : Begun(p) => Begun(p)'
  <2>1. /\ UNCHANGED <<ops, created, resultLog>>
        /\ handlers' \in [Handlers -> Panel!HandlerState]
        /\ handlers'[h].op = o /\ Begun(o)
        /\ handlers'[h].next \in {"claimed", "in_progress"} \cup Panel!Terminal
        /\ \A g \in Handlers \ {h} : handlers'[g] = handlers[g]
    BY <1>5, FindRequest
  <2>2. Panel!TypeOK'
    BY <1>0, <1>t, <2>1
  <2>3. Rows'
    BY <1>0, <2>1 DEF Rows, Begun
  <2> QED
    BY <2>1, <2>2, <2>3 DEF PanelInv, Begun
<1>6. ASSUME NEW h \in Handlers, Panel!ReportUpdate(h), Panel!UpdateMatches(handlers[h])
      PROVE  PanelInv' /\ \A p \in Ops : Begun(p) => Begun(p)'
  <2>1. /\ handlers[h].pc = "update" /\ handlers[h].op \in Ops
        /\ ops' \in [Ops -> Panel!Row]
        /\ ops'[handlers[h].op].status = handlers[h].next
        /\ \A o \in Ops \ {handlers[h].op} : ops'[o] = ops[o]
        /\ handlers' = [handlers EXCEPT ![h].pc = "log"]
        /\ UNCHANGED <<created, resultLog>>
    BY <1>6, UpdateRows
  <2>2. /\ handlers[h].next \in {"claimed", "in_progress"} \cup Panel!Terminal
        /\ Begun(handlers[h].op)
    BY <1>0, <2>1 DEF Rows
  <2>3. ops'[handlers[h].op].status \notin {"unborn", "pending"}
    BY <2>1, <2>2 DEF Panel!Terminal
  <2>4. \A o \in Ops : Begun(o) => Begun(o)'
    BY <2>1, <2>3 DEF Begun
  <2>5. handlers[h] \in Panel!HandlerState
    BY <1>0
  <2>6. /\ [handlers[h] EXCEPT !.pc = "log"] \in Panel!HandlerState
        /\ [handlers[h] EXCEPT !.pc = "log"].op = handlers[h].op
        /\ [handlers[h] EXCEPT !.pc = "log"].next = handlers[h].next
    BY <2>5 DEF Panel!HandlerState
  <2>7. /\ handlers' \in [Handlers -> Panel!HandlerState]
        /\ handlers'[h].op = handlers[h].op /\ handlers'[h].next = handlers[h].next
        /\ \A g \in Handlers \ {h} : handlers'[g] = handlers[g]
    BY <1>0, <2>1, <2>6
  <2>8. Panel!TypeOK'
    BY <1>0, <1>t, <2>1, <2>7
  <2>9. \A o \in Ops : /\ ops'[o].status = "unborn" <=> o > created'
                       /\ ops'[o].status = "pending" => ops'[o].by = NoWorker
    BY <1>0, <2>1, <2>2, <2>3 DEF Rows, Begun
  <2>10. \A g \in Handlers : handlers'[g].pc # "idle" =>
           /\ handlers'[g].op \in Ops /\ Begun(handlers'[g].op)
           /\ handlers'[g].next \in {"claimed", "in_progress"} \cup Panel!Terminal
    BY <1>0, <2>1, <2>2, <2>7 DEF Rows
  <2>11. Rows'
    BY <2>4, <2>7, <2>9, <2>10, <1>0, <2>1, <2>2 DEF Rows
  <2> QED
    BY <2>4, <2>8, <2>11 DEF PanelInv
<1>7. ASSUME NEW h \in Handlers, handlers' = [handlers EXCEPT ![h] = Panel!IdleHandler],
             UNCHANGED <<ops, created>>
      PROVE  PanelInv' /\ \A p \in Ops : Begun(p) => Begun(p)'
  <2>1. Panel!IdleHandler \in Panel!HandlerState /\ Panel!IdleHandler.pc = "idle"
    BY DEF Panel!IdleHandler, Panel!HandlerState, Panel!Statuses, Panel!Active
  <2>2. Panel!TypeOK'
    BY <1>0, <1>t, <1>7, <2>1
  <2>3. Rows'
    BY <1>0, <1>7, <2>1 DEF Rows, Begun
  <2> QED
    BY <1>7, <2>2, <2>3 DEF PanelInv, Begun
<1>8. ASSUME NEW h \in Handlers, Panel!ReportUpdate(h), ~Panel!UpdateMatches(handlers[h])
      PROVE  handlers' = [handlers EXCEPT ![h] = Panel!IdleHandler] /\ UNCHANGED <<ops, created>>
  BY <1>8 DEF Panel!ReportUpdate
<1>9. ASSUME NEW h \in Handlers, Panel!ReportUpdateFails(h) \/ Panel!ReportLog(h)
      PROVE  handlers' = [handlers EXCEPT ![h] = Panel!IdleHandler] /\ UNCHANGED <<ops, created>>
  BY <1>9 DEF Panel!ReportUpdateFails, Panel!ReportLog
<1> QED
  BY <1>1, <1>3, <1>4, <1>5, <1>6, <1>7, <1>8, <1>9 DEF PanelStep

(* Only statuses that are ends or tell of a handler have to be earned.     *)
LEMMA NothingToEarn ==
  ASSUME NEW o, NEW s \in {"unborn", "pending", "claimed"}
  PROVE  Earned(o, s)
  BY CommandsAssumption DEF Earned, Panel!Terminal

(* What has been earned stays earned while the histories grow.             *)
LEMMA EarnedKept ==
  ASSUME ran \subseteq ran', answered \subseteq answered', NEW o, NEW s, Earned(o, s)
  PROVE  Earned(o, s)'
  BY DEF Earned, Panel!Terminal

(* A step of the panel, while the agent does anything or nothing.          *)
LEMMA PanelEarnedKept ==
  ASSUME PanelInv, PanelEarned, PanelStep, ran \subseteq ran', answered \subseteq answered'
  PROVE  PanelEarned'
<1>0. handlers \in [Handlers -> Panel!HandlerState]
  BY DEF PanelInv, Panel!TypeOK
<1>1. ASSUME \A o \in Ops : Earned(o, ops'[o].status),
             \A h \in Handlers : handlers'[h].pc = "update" => Earned(handlers'[h].op, handlers'[h].next)
      PROVE  PanelEarned'
  <2>1. \A o \in Ops : Earned(o, ops[o].status)'
    BY <1>1 DEF Earned, Panel!Terminal
  <2>2. \A h \in Handlers : handlers'[h].pc = "update" => Earned(handlers[h].op, handlers[h].next)'
    BY <1>1 DEF Earned, Panel!Terminal
  <2> QED
    BY <2>1, <2>2 DEF PanelEarned
<1>2. ASSUME UNCHANGED handlers,
             \A o \in Ops : ops'[o].status = ops[o].status \/ ops'[o].status \in {"pending", "claimed"}
      PROVE  PanelEarned'
  BY <1>1, <1>2, NothingToEarn DEF PanelEarned
<1>3. CASE Panel!Create
  <2>1. \A o \in Ops : ops'[o].status = ops[o].status \/ ops'[o].status \in {"pending", "claimed"}
    BY <1>3, CreateRows
  <2> QED
    BY <1>2, <1>3, <2>1 DEF Panel!Create
<1>4. CASE Claim
  <2>1. \A o \in Ops : ops'[o].status = ops[o].status \/ ops'[o].status \in {"pending", "claimed"}
    BY <1>4, ClaimRows
  <2> QED
    BY <1>2, <1>4, <2>1 DEF Claim, Panel!ClaimNext
<1>5. ASSUME NEW o \in Ops, Panel!LeaseExpire(o) PROVE PanelEarned'
  BY <1>2, <1>5, LeaseRows DEF StatusesOf
<1>6. ASSUME NEW h \in Handlers, NEW o \in Ops, NEW ev, Received(h, o, ev) PROVE PanelEarned'
  <2>1. /\ UNCHANGED ops /\ handlers'[h].op = o /\ handlers'[h].next = Panel!ReportedStatus(ev)
        /\ \A g \in Handlers \ {h} : handlers'[g] = handlers[g]
    BY <1>6, FindRequest
  <2>2. Earned(handlers'[h].op, handlers'[h].next)
    BY <1>6, <2>1 DEF Received
  <2> QED
    BY <1>1, <2>1, <2>2 DEF PanelEarned
<1>7. ASSUME NEW h \in Handlers, Panel!ReportUpdate(h), Panel!UpdateMatches(handlers[h])
      PROVE  PanelEarned'
  <2>1. /\ handlers[h].pc = "update" /\ handlers[h].op \in Ops
        /\ ops'[handlers[h].op].status = handlers[h].next
        /\ \A o \in Ops \ {handlers[h].op} : ops'[o] = ops[o]
        /\ handlers' = [handlers EXCEPT ![h].pc = "log"]
    BY <1>7, UpdateRows
  <2>2. \A o \in Ops : Earned(o, ops'[o].status)
    BY <2>1 DEF PanelEarned
  <2>3. \A g \in Handlers : handlers'[g].pc = "update" => handlers'[g] = handlers[g]
    BY <1>0, <2>1 DEF Panel!HandlerState
  <2> QED
    BY <1>1, <2>2, <2>3 DEF PanelEarned
<1>8. ASSUME NEW h \in Handlers, handlers' = [handlers EXCEPT ![h] = Panel!IdleHandler], UNCHANGED ops
      PROVE  PanelEarned'
  <2>1. Panel!IdleHandler.pc = "idle"
    BY DEF Panel!IdleHandler
  <2>2. \A g \in Handlers : handlers'[g].pc = "update" => handlers'[g] = handlers[g]
    BY <1>0, <1>8, <2>1
  <2> QED
    BY <1>1, <1>8, <2>2 DEF PanelEarned
<1>9. ASSUME NEW h \in Handlers,
             \/ Panel!ReportUpdate(h) /\ ~Panel!UpdateMatches(handlers[h])
             \/ Panel!ReportUpdateFails(h) \/ Panel!ReportLog(h)
      PROVE  handlers' = [handlers EXCEPT ![h] = Panel!IdleHandler] /\ UNCHANGED ops
  BY <1>9 DEF Panel!ReportUpdate, Panel!ReportUpdateFails, Panel!ReportLog
<1> QED
  BY <1>3, <1>4, <1>5, <1>6, <1>7, <1>8, <1>9 DEF PanelStep
-----------------------------------------------------------------------------
(* Everything Deliver brings to the panel was earned.                      *)
LEMMA DeliverReceived ==
  ASSUME Queue!TypeOK, AgentEarned, NEW o \in Ops, Deliver(o)
  PROVE  \E h \in Handlers : \E ev : Received(h, o, ev)
<1>1. PICK h \in Handlers, ev \in Reports(o) : Panel!ReportFind(h, Host, o, WorkerId, ev)
  BY DEF Deliver
<1>2. Panel!ReportedStatus(ev) # "invalid"
  BY <1>1 DEF Panel!ReportFind
<1>3. CASE ev = Event("accepted", AcceptedStatus)
  <2>1. ev.result = Result /\ Panel!ReportedStatus(ev) \in {"claimed"}
    BY <1>2, <1>3 DEF Event, AcceptedStatus, Panel!ReportedStatus, Panel!Terminal
  <2> QED
    BY <1>1, <2>1, NothingToEarn DEF Received
<1>4. ASSUME NEW n \in Submissions, IdOf[n] = o, body[n] = "running" \/ o \in orphans,
             ev = Event("progress", "")
      PROVE  Received(h, o, ev)
  <2>1. ev.result = Result /\ Panel!ReportedStatus(ev) = "in_progress"
    BY <1>2, <1>4 DEF Event, Panel!ReportedStatus, Panel!Terminal
  <2>2. o \in ran
    BY <1>4 DEF AgentEarned, OpCalls
  <2> QED
    BY <1>1, <2>1, <2>2 DEF Received, Earned, Panel!Terminal
<1>5. ASSUME NEW n \in Submissions, IdOf[n] = o, ev = Event("result", answer[n])
      PROVE  Received(h, o, ev)
  <2>1. ev.result = Result /\ Panel!ReportedStatus(ev) = answer[n] /\ answer[n] \in Panel!Terminal
    BY <1>2, <1>5 DEF Event, Panel!ReportedStatus, Panel!Terminal
  <2>2. Earned(o, answer[n])
    BY <1>5, <2>1 DEF AgentEarned, OpCalls, Panel!Terminal
  <2> QED
    BY <1>1, <2>1, <2>2 DEF Received
<1> QED
  BY <1>1, <1>3, <1>4, <1>5 DEF Reports, Calls
-----------------------------------------------------------------------------
(* What the agent's conjuncts need of a step.                              *)
Held(n) == IdOf[n] \in Ops /\ stage[n] \in {"admitted"} \cup Queue!Holding

(* Some of the calls are finitely many.                                    *)
LEMMA SomeCalls ==
  ASSUME NEW S \in SUBSET Submissions
  PROVE  IsFiniteSet(S) /\ Cardinality(S) \in Nat
  BY CommandsAssumption, FS_Subset, FS_CardinalityType

(* What has been given out stays begun when the panel moves on.            *)
LEMMA HandedKept ==
  ASSUME HandedOut, \A o \in Ops : Begun(o) => Begun(o)', inbox \in Seq(Ops), inbox' = inbox,
         \A n \in OpCalls : stage[n] = "new" => stage'[n] = "new"
  PROVE  HandedOut'
<1>1. \A i \in 1..Len(inbox) : inbox[i] \in Ops /\ Begun(inbox[i])
  BY DEF HandedOut
<1>2. \A n \in OpCalls : stage'[n] # "new" => Begun(IdOf[n])'
  BY DEF HandedOut, OpCalls, Begun
<1>3. \A i \in 1..Len(inbox') : Begun(inbox[i])'
  BY <1>1 DEF Begun
<1> QED
  BY <1>2, <1>3 DEF HandedOut, OpCalls, Begun

(* The histories only grow, so what they have to hold they hold.           *)
LEMMA HistoryKept ==
  ASSUME AgentEarned, ran \subseteq ran', answered \subseteq answered', orphans' \cap Ops \subseteq ran',
         \A n \in OpCalls : /\ body'[n] # "none" => body[n] # "none" \/ IdOf[n] \in ran'
                            /\ answer'[n] # "none" => \/ answer'[n] = answer[n]
                                                      \/ Earned(IdOf[n], answer[n])'
  PROVE  AgentEarned'
<1>1. \A n \in OpCalls : body'[n] # "none" => IdOf[n] \in ran'
  BY DEF AgentEarned
<1>2. \A n \in OpCalls : answer'[n] # "none" => Earned(IdOf[n], answer[n])'
  <2> TAKE n \in OpCalls
  <2>1. CASE answer'[n] # "none" /\ answer'[n] = answer[n]
    BY <2>1 DEF AgentEarned, Earned, Panel!Terminal
  <2> QED
    BY <2>1
<1> QED
  BY <1>1, <1>2 DEF AgentEarned, OpCalls, Earned, Panel!Terminal

(* A step that brings no call nearer to the queue keeps the room.          *)
LEMMA RoomSame ==
  ASSUME RoomKept, Len(inbox) \in Nat, Len(inbox') \in Nat, Len(inbox') <= Len(inbox),
         \A n \in Submissions : Held(n)' => Held(n)
  PROVE  RoomKept'
<1> DEFINE H == {n \in Submissions : Held(n)}
           I == {n \in Submissions : Held(n)'}
<1>1. I \in SUBSET H /\ H \in SUBSET Submissions
  OBVIOUS
<1>2. IsFiniteSet(H) /\ Cardinality(H) \in Nat /\ Cardinality(I) \in Nat
  BY <1>1, SomeCalls
<1>3. Len(inbox) + Cardinality(H) <= Capacity
  BY DEF RoomKept, Held
<1> HIDE DEF H, I
<1>4. Cardinality(I) <= Cardinality(H)
  BY <1>1, <1>2, FS_Subset
<1>5. Len(inbox') + Cardinality(I) <= Capacity
  BY <1>2, <1>3, <1>4, CommandsAssumption
<1> QED
  BY <1>5 DEF I, RoomKept, Held, Queue!Holding, Queue!Working

(* A call takes the place that its command had in the response.            *)
LEMMA RoomMoved ==
  ASSUME RoomKept, Len(inbox) \in Nat \ {0}, Len(inbox') = Len(inbox) - 1,
         NEW n \in Submissions, \A m \in Submissions : Held(m)' => Held(m) \/ m = n
  PROVE  RoomKept'
<1> DEFINE H == {m \in Submissions : Held(m)}
           I == {m \in Submissions : Held(m)'}
<1>1. I \in SUBSET (H \cup {n}) /\ H \in SUBSET Submissions
  OBVIOUS
<1>2. IsFiniteSet(H) /\ Cardinality(H) \in Nat /\ Cardinality(I) \in Nat
  BY <1>1, SomeCalls
<1>3. Len(inbox) + Cardinality(H) <= Capacity
  BY DEF RoomKept, Held
<1> HIDE DEF H, I
<1>4. IsFiniteSet(H \cup {n}) /\ Cardinality(H \cup {n}) <= Cardinality(H) + 1
  <2>1. /\ IsFiniteSet(H \cup {n})
        /\ Cardinality(H \cup {n}) = IF n \in H THEN Cardinality(H) ELSE Cardinality(H) + 1
    BY <1>2, FS_AddElement
  <2> QED
    BY <1>2, <2>1
<1>5. Cardinality(I) <= Cardinality(H \cup {n}) /\ Cardinality(H \cup {n}) \in Nat
  BY <1>1, <1>4, FS_Subset, FS_CardinalityType
<1>6. Len(inbox') + Cardinality(I) <= Capacity
  BY <1>2, <1>3, <1>4, <1>5, CommandsAssumption
<1> QED
  BY <1>6 DEF I, RoomKept, Held, Queue!Holding, Queue!Working

(* The room that is read is enough for the response and for the commands   *)
(* in the queue, as none is about to enter it.                             *)
LEMMA RoomRead ==
  ASSUME AgentInv, LoopFree, Room > 0, UNCHANGED stage, inbox' \in InOrder(Response)
  PROVE  RoomKept' /\ inbox' \in Seq(Ops) /\ ToSet(inbox') \subseteq Response /\ Response \subseteq Ops
<1> DEFINE H == {n \in Submissions : Held(n)}
           S == Panel!Claimable(Host, {Type})
<1>1. slots \in Nat /\ slots <= Capacity /\ slots = Cardinality(Queue!At(Queue!Holding))
  BY CommandsAssumption DEF AgentInv, QueueInv, Queue!TypeOK, SlotsExact
<1>2. Room \in Nat /\ Room <= Capacity - slots
  BY <1>1, CommandsAssumption DEF Room
<1>3. S \in SUBSET Ops
  BY DEF Panel!Claimable, Panel!Ops, Ops
<1>4. Response \in SUBSET Ops /\ Cardinality(Response) <= Room
  BY <1>2, <1>3, OldestBound DEF Response
<1>5. /\ inbox' \in Seq(Ops) /\ Len(inbox') = Cardinality(Response)
      /\ ToSet(inbox') \subseteq Response /\ Cardinality(Response) \in Nat
  BY <1>4, InOrderLists, OpsFinite
<1>6. H \in SUBSET Queue!At(Queue!Holding) /\ Queue!At(Queue!Holding) \in SUBSET Submissions
  BY DEF Held, LoopFree, InCall, Queue!At
<1> HIDE DEF H
<1>7. Cardinality(H) <= slots /\ Cardinality(H) \in Nat
  BY <1>1, <1>6, SomeCalls, FS_Subset
<1>8. Len(inbox') + Cardinality(H) <= Capacity
  BY <1>1, <1>2, <1>4, <1>5, <1>7, CommandsAssumption
<1>9. RoomKept'
  BY <1>8 DEF H, RoomKept, Held, Queue!Holding, Queue!Working
<1> QED
  BY <1>4, <1>5, <1>9

(* The agent leaves the panel's rows alone but for a poll.                 *)
LEMMA BegunKept ==
  ASSUME UNCHANGED panelVars PROVE \A o \in Ops : Begun(o) => Begun(o)'
  BY DEF panelVars, Begun
-----------------------------------------------------------------------------
(* The agent, one lemma for each of its steps.                             *)
LEMMA PollInd ==
  ASSUME AgentInv, PanelInv, Poll
  PROVE  AgentInv'
<1>1. Claim /\ LoopFree /\ Room > 0 /\ inbox' \in InOrder(Response)
  BY DEF Poll, Claim, MayPoll
<1>2. UNCHANGED <<queueVars, orphans, crashes, ran, answered>>
  BY DEF Poll
<1>3. UNCHANGED stage
  BY <1>2 DEF queueVars
<1>4. RoomKept' /\ inbox' \in Seq(Ops) /\ ToSet(inbox') \subseteq Response
  BY <1>1, <1>3, RoomRead
<1>5. QueueInv'
  <2>1. Queue!TypeOK' /\ Lined'
    BY <1>2 DEF AgentInv, QueueInv, Queue!TypeOK, Lined, queueVars
  <2>2. SlotsExact'
    BY <1>2 DEF AgentInv, QueueInv, SlotsExact, Queue!At, queueVars
  <2> QED
    BY <2>1, <2>2 DEF QueueInv
<1>6. AgentTypes'
  BY <1>2, <1>4 DEF AgentInv, AgentTypes
<1>7. AgentEarned'
  BY <1>2, HistoryKept DEF AgentInv, AgentEarned, queueVars
<1>8. HandedOut'
  <2>1. \A i \in 1..Len(inbox') : inbox'[i] \in Response
    BY <1>4 DEF ToSet
  <2>2. \A o \in Response : ops'[o].status = "claimed"
    BY <1>1, ClaimRows
  <2>3. \A i \in 1..Len(inbox') : Begun(inbox[i])'
    BY <2>1, <2>2 DEF Begun
  <2>4. \A n \in OpCalls : stage[n] # "new" => Begun(IdOf[n])'
    <3>1. \A o \in Ops : Begun(o) => Begun(o)'
      BY <1>1, PanelKept DEF PanelStep
    <3> QED
      BY <3>1 DEF AgentInv, HandedOut, OpCalls, Begun
  <2> QED
    BY <1>3, <2>3, <2>4 DEF HandedOut, OpCalls, Begun
<1> QED
  BY <1>4, <1>5, <1>6, <1>7, <1>8 DEF AgentInv

(* What a step that leaves the agent alone leaves of its invariant.        *)
LEMMA AgentUntouched ==
  ASSUME AgentInv, UNCHANGED <<queueVars, inbox, orphans, crashes, ran, answered>>,
         \A o \in Ops : Begun(o) => Begun(o)'
  PROVE  AgentInv'
<1>1. QueueInv'
  <2>1. Queue!TypeOK' /\ Lined'
    BY DEF AgentInv, QueueInv, Queue!TypeOK, Lined, queueVars
  <2>2. SlotsExact'
    BY DEF AgentInv, QueueInv, SlotsExact, Queue!At, queueVars
  <2> QED
    BY <2>1, <2>2 DEF QueueInv
<1>2. AgentTypes'
  BY DEF AgentInv, AgentTypes
<1>3. AgentEarned'
  BY HistoryKept DEF AgentInv, AgentEarned, queueVars
<1>4. HandedOut'
  BY HandedKept DEF AgentInv, AgentTypes, queueVars
<1>5. RoomKept'
  BY RoomSame DEF AgentInv, AgentTypes, Held, queueVars
<1> QED
  BY <1>1, <1>2, <1>3, <1>4, <1>5 DEF AgentInv

(* The next command of the response becomes a call.                        *)
LEMMA SubmitNextInd ==
  ASSUME AgentInv, SubmitNext
  PROVE  AgentInv'
<1>1. PICK n \in Submissions : IdOf[n] = Head(inbox) /\ Queue!Submit(n)
  BY DEF SubmitNext
<1>2. /\ inbox # <<>> /\ inbox' = Tail(inbox) /\ inbox \in Seq(Ops)
      /\ UNCHANGED <<panelVars, orphans, crashes, ran, answered>>
  BY DEF SubmitNext, AgentInv, AgentTypes
<1>3. /\ Head(inbox) = inbox[1] /\ inbox[1] \in Ops /\ Begun(inbox[1]) /\ inbox' \in Seq(Ops)
      /\ Len(inbox) \in Nat \ {0} /\ Len(inbox') = Len(inbox) - 1
      /\ \A i \in 1..Len(inbox') : inbox'[i] = inbox[i + 1] /\ i + 1 \in 1..Len(inbox)
  BY <1>2 DEF AgentInv, HandedOut
<1>4. /\ \A m \in Submissions \ {n} : stage'[m] = stage[m]
      /\ UNCHANGED <<body, answer>> /\ stage[n] = "new"
  BY <1>1 DEF Queue!Submit, AgentInv, QueueInv, Queue!TypeOK
<1>5. QueueInv'
  BY <1>1, QueueKept DEF AgentInv
<1>6. AgentTypes'
  BY <1>2, <1>3 DEF AgentInv, AgentTypes
<1>7. AgentEarned'
  BY <1>2, <1>4, HistoryKept DEF AgentInv, AgentEarned
<1>8. RoomKept'
  BY <1>3, <1>4, RoomMoved DEF AgentInv, Held
<1>9. HandedOut'
  <2>1. \A o \in Ops : Begun(o) => Begun(o)'
    BY <1>2, BegunKept
  <2>2. \A i \in 1..Len(inbox') : inbox'[i] \in Ops /\ Begun(inbox'[i])
    BY <1>2, <1>3 DEF AgentInv, HandedOut
  <2>3. \A i \in 1..Len(inbox') : Begun(inbox[i])'
    BY <1>2, <2>2 DEF Begun, panelVars
  <2>4. \A m \in OpCalls : stage'[m] # "new" => Begun(IdOf[m])
    BY <1>1, <1>3, <1>4 DEF AgentInv, HandedOut, OpCalls
  <2>5. \A m \in OpCalls : stage'[m] # "new" => Begun(IdOf[m])'
    BY <1>2, <2>4 DEF Begun, panelVars
  <2> QED
    BY <2>3, <2>5 DEF HandedOut, OpCalls, Begun
<1> QED
  BY <1>5, <1>6, <1>7, <1>8, <1>9 DEF AgentInv

(* A step of one call or task in the queue, which begins nothing new.      *)
LEMMA QueueMoved ==
  ASSUME AgentInv, QueueInv', UNCHANGED <<panelVars, inbox, orphans, crashes>>,
         ran \subseteq ran', answered \subseteq answered', ran' \subseteq Ops,
         answered' \subseteq Ops \X Queue!Answers,
         NEW n \in Submissions,
         \A m \in Submissions \ {n} : stage'[m] = stage[m] /\ body'[m] = body[m] /\ answer'[m] = answer[m],
         IdOf[n] \in Ops => /\ stage[n] = "new" => stage'[n] = "new"
                            /\ Held(n)' => Held(n)
                            /\ body'[n] # "none" => body[n] # "none" \/ IdOf[n] \in ran'
                            /\ answer'[n] = answer[n] \/ Earned(IdOf[n], answer[n])'
  PROVE  AgentInv'
<1>1. AgentTypes'
  BY DEF AgentInv, AgentTypes
<1>2. HandedOut'
  <2>1. \A m \in OpCalls : stage[m] = "new" => stage'[m] = "new"
    BY DEF OpCalls
  <2> QED
    BY <2>1, BegunKept, HandedKept DEF AgentInv, AgentTypes
<1>3. AgentEarned'
  <2>1. \A m \in OpCalls : /\ body'[m] # "none" => body[m] # "none" \/ IdOf[m] \in ran'
                           /\ answer'[m] # "none" => \/ answer'[m] = answer[m]
                                                     \/ Earned(IdOf[m], answer[m])'
    BY DEF OpCalls
  <2>2. orphans' \cap Ops \subseteq ran'
    BY DEF AgentInv, AgentEarned
  <2> QED
    BY <2>1, <2>2, HistoryKept DEF AgentInv
<1>4. RoomKept'
  <2>1. \A m \in Submissions : Held(m)' => Held(m)
    BY DEF Held
  <2> QED
    BY <2>1, RoomSame DEF AgentInv, AgentTypes
<1> QED
  BY <1>1, <1>2, <1>3, <1>4 DEF AgentInv

(* A call of the agent itself, which has no operation.                     *)
LEMMA SubmitInternalInd ==
  ASSUME AgentInv, SubmitInternal
  PROVE  AgentInv'
<1>1. PICK n \in Submissions : IdOf[n] \in Internal /\ Queue!Submit(n)
  BY DEF SubmitInternal
<1>2. UNCHANGED <<panelVars, inbox, orphans, crashes, ran, answered>>
  BY DEF SubmitInternal
<1>3. QueueInv'
  BY <1>1, QueueKept DEF AgentInv
<1>4. IdOf[n] \notin Ops
  BY <1>1, CommandsAssumption DEF Ops
<1>5. \A m \in Submissions \ {n} : stage'[m] = stage[m] /\ body'[m] = body[m] /\ answer'[m] = answer[m]
  BY <1>1 DEF Queue!Submit, AgentInv, QueueInv, Queue!TypeOK
<1> QED
  BY <1>2, <1>3, <1>4, <1>5, QueueMoved DEF AgentInv, AgentTypes

(* The history takes in what a step has answered of n.                     *)
LEMMA AnsweredTypes ==
  ASSUME answered \subseteq Ops \X Queue!Answers, NEW n \in Submissions, Answered(n), Queue!TypeOK'
  PROVE  /\ answered \subseteq answered' /\ answered' \subseteq Ops \X Queue!Answers
         /\ IdOf[n] \in Ops /\ answer'[n] # answer[n] => <<IdOf[n], answer'[n]>> \in answered'
<1>1. answer'[n] \in Queue!Answers
  BY DEF Queue!TypeOK
<1> QED
  BY <1>1 DEF Answered

(* A call goes on to its answer.                                           *)
LEMMA CallInd ==
  ASSUME AgentInv, NEW n \in Submissions, CallStep(n)
  PROVE  AgentInv'
<1>1. /\ Queue!CallStep(n) /\ Answered(n)
      /\ UNCHANGED <<panelVars, inbox, orphans, crashes, ran>>
  BY DEF CallStep, QueueAlone
<1>2. QueueInv'
  BY <1>1, QueueKept DEF AgentInv
<1>3. /\ answered \subseteq answered' /\ answered' \subseteq Ops \X Queue!Answers
      /\ IdOf[n] \in Ops /\ answer'[n] # answer[n] => <<IdOf[n], answer'[n]>> \in answered'
  BY <1>1, <1>2, AnsweredTypes DEF AgentInv, AgentTypes, QueueInv
<1>4. /\ \A m \in Submissions \ {n} : stage'[m] = stage[m] /\ answer'[m] = answer[m]
      /\ UNCHANGED body
      /\ stage[n] # "new" /\ (stage'[n] \in Queue!Holding => stage[n] \in {"admitted"} \cup Queue!Holding)
      /\ stage'[n] # "admitted"
      /\ answer'[n] \in {answer[n], "queue_full"}
  BY <1>1
     DEF Queue!CallStep, Queue!TakeSlot, Queue!AcceptReported, Queue!Push, Queue!RefuseReported,
         AgentInv, QueueInv, Queue!TypeOK, Queue!Holding, Queue!Working
<1>5. Held(n)' => Held(n)
  BY <1>4 DEF Held, Queue!Holding, Queue!Working
<1>6. IdOf[n] \in Ops /\ answer'[n] # answer[n] => Earned(IdOf[n], answer[n])'
  BY <1>3, <1>4, CommandsAssumption DEF Earned
<1> QED
  BY <1>1, <1>2, <1>3, <1>4, <1>5, <1>6, QueueMoved DEF AgentInv, AgentTypes

(* A worker takes a call from the channel.                                 *)
LEMMA TakeInd ==
  ASSUME AgentInv, Take
  PROVE  AgentInv'
<1>0. PICK n \in Submissions : n = Head(tasks) /\ stage[n] = "queued"
  BY Taken DEF Take, QueueAlone, AgentInv, QueueInv
<1>1. /\ Queue!WorkerTake(Worker) /\ ran' = ran \cup ({IdOf[n]} \cap Ops)
      /\ UNCHANGED <<panelVars, inbox, orphans, crashes, answered>>
  BY <1>0 DEF Take, QueueAlone
<1>2. QueueInv'
  BY <1>1, QueueKept DEF AgentInv, Queue!WorkerStep
<1>3. /\ stage' = [stage EXCEPT ![n] = "running"] /\ body' = [body EXCEPT ![n] = "running"]
      /\ UNCHANGED answer
  BY <1>0, <1>1 DEF Queue!WorkerTake
<1>4. \A m \in Submissions \ {n} : stage'[m] = stage[m] /\ body'[m] = body[m] /\ answer'[m] = answer[m]
  BY <1>3 DEF AgentInv, QueueInv, Queue!TypeOK
<1>5. Held(n)' => Held(n)
  BY <1>0 DEF Held, Queue!Holding
<1>6. ran \subseteq ran' /\ ran' \subseteq Ops /\ (IdOf[n] \in Ops => IdOf[n] \in ran')
  BY <1>1 DEF AgentInv, AgentTypes
<1> QED
  BY <1>0, <1>1, <1>2, <1>3, <1>4, <1>5, <1>6, QueueMoved DEF AgentInv, AgentTypes

(* A handler decides, and the agent has run or answered the operation.     *)
LEMMA DecideInd ==
  ASSUME AgentInv, Decide
  PROVE  AgentInv'
<1>0. PICK n \in Submissions : n = holds[Worker]
  BY DEF Decide, QueueAlone, Queue!Finish, AgentInv, QueueInv, Queue!TypeOK
<1>1. /\ Queue!Finish(Worker) /\ Answered(n)
      /\ UNCHANGED <<panelVars, inbox, orphans, crashes, ran>>
  BY <1>0 DEF Decide, QueueAlone
<1>2. QueueInv'
  BY <1>1, QueueKept DEF AgentInv, Queue!WorkerStep
<1>3. stage[n] = "running" /\ stage' = [stage EXCEPT ![n] = "reporting"]
  BY <1>0, <1>1 DEF Queue!Finish, AgentInv, QueueInv, Queue!TypeOK
<1>4. PICK v \in Queue!VerdictOf(n) : answer' = [answer EXCEPT ![n] = v]
  BY <1>0, <1>1 DEF Queue!Finish
<1>5. UNCHANGED body
  BY <1>1 DEF Queue!Finish
<1>6. /\ answered \subseteq answered' /\ answered' \subseteq Ops \X Queue!Answers
      /\ IdOf[n] \in Ops /\ answer'[n] # answer[n] => <<IdOf[n], answer'[n]>> \in answered'
  BY <1>1, <1>2, <1>3, AnsweredTypes DEF AgentInv, AgentTypes, QueueInv
<1>7. /\ \A m \in Submissions \ {n} : stage'[m] = stage[m] /\ body'[m] = body[m] /\ answer'[m] = answer[m]
      /\ answer'[n] = v
  BY <1>3, <1>4, <1>5 DEF AgentInv, QueueInv, Queue!TypeOK
<1>8. Held(n)' => Held(n)
  BY <1>3 DEF Held, Queue!Holding, Queue!Working
<1>9. IdOf[n] \in Ops /\ answer'[n] # answer[n] => Earned(IdOf[n], answer[n])'
  <2> SUFFICES ASSUME IdOf[n] \in Ops, answer'[n] # answer[n] PROVE Earned(IdOf[n], answer[n])'
    OBVIOUS
  <2>1. <<IdOf[n], answer'[n]>> \in answered'
    BY <1>6
  <2>2. CASE body[n] = "returned"
    <3>1. IdOf[n] \in ran'
      BY <1>1, <1>3, <2>2 DEF AgentInv, AgentEarned, OpCalls
    <3> QED
      BY <2>1, <3>1 DEF Earned
  <2>3. CASE body[n] # "returned"
    <3>1. v \in {"timeout", "cancelled"}
      BY <2>3 DEF Queue!VerdictOf
    <3> QED
      BY <1>1, <1>7, <2>1, <3>1, CommandsAssumption DEF Earned
  <2> QED
    BY <2>2, <2>3
<1> QED
  BY <1>1, <1>2, <1>3, <1>5, <1>6, <1>7, <1>8, <1>9, QueueMoved DEF AgentInv, AgentTypes

(* The worker's other steps, and the end of a handler.                     *)
LEMMA WorkerInd ==
  ASSUME AgentInv, UNCHANGED <<panelVars, inbox, orphans, crashes, ran, answered>>,
         Queue!Leave(Worker) \/ Queue!Release(Worker)
  PROVE  AgentInv'
<1>0. PICK n \in Submissions : n = holds[Worker]
  BY DEF Queue!Leave, Queue!Release, AgentInv, QueueInv, Queue!TypeOK
<1>1. QueueInv'
  BY QueueKept DEF AgentInv, Queue!WorkerStep
<1>2. /\ stage[n] \in {"reporting", "leaving"} /\ UNCHANGED <<body, answer>>
      /\ stage' = [stage EXCEPT ![n] = "leaving"] \/ stage' = [stage EXCEPT ![n] = "done"]
  BY <1>0 DEF Queue!Leave, Queue!Release, AgentInv, QueueInv, Queue!TypeOK
<1>3. \A m \in Submissions \ {n} : stage'[m] = stage[m] /\ body'[m] = body[m] /\ answer'[m] = answer[m]
  BY <1>2 DEF AgentInv, QueueInv, Queue!TypeOK
<1>4. Held(n)' => Held(n)
  BY <1>2 DEF Held, Queue!Holding, Queue!Working
<1> QED
  BY <1>1, <1>2, <1>3, <1>4, QueueMoved DEF AgentInv, AgentTypes

(* A handler returns its body.                                             *)
LEMMA ReturnInd ==
  ASSUME AgentInv, UNCHANGED <<panelVars, inbox, orphans, crashes, ran, answered>>,
         NEW n \in Submissions, Queue!BodyReturn(n)
  PROVE  AgentInv'
<1>1. /\ body[n] = "running" /\ body' = [body EXCEPT ![n] = "returned"]
      /\ UNCHANGED <<life, running, ended, tasks, slots, inflight, stage, answer, holds, exited>>
  BY DEF Queue!BodyReturn
<1>2. QueueInv'
  BY <1>1 DEF AgentInv, QueueInv, Queue!TypeOK, Lined, SlotsExact, Queue!At
<1>3. \A m \in Submissions \ {n} : stage'[m] = stage[m] /\ body'[m] = body[m] /\ answer'[m] = answer[m]
  BY <1>1 DEF AgentInv, QueueInv, Queue!TypeOK
<1>4. Held(n)' => Held(n)
  BY <1>1 DEF Held
<1> QED
  BY <1>1, <1>2, <1>3, <1>4, QueueMoved DEF AgentInv, AgentTypes

(* Start, Stop and the end of the context move no call.                    *)
LEMMA LifeInd ==
  ASSUME AgentInv, UNCHANGED <<panelVars, inbox, orphans, crashes, ran, answered>>,
         \/ Queue!Start \/ Queue!ContextEnds \/ Queue!Stop \/ Queue!StopCancel \/ Queue!StopReturn
         \/ Queue!WorkerExit(Worker)
  PROVE  AgentInv'
<1>1. UNCHANGED <<tasks, slots, inflight, stage, answer, body, holds>>
  BY DEF Queue!Start, Queue!ContextEnds, Queue!Stop, Queue!StopCancel, Queue!StopReturn, Queue!WorkerExit
<1>2. life' \in Queue!Lives /\ running' \in BOOLEAN /\ ended' \in BOOLEAN /\ exited' \subseteq {Worker}
  BY DEF Queue!Start, Queue!ContextEnds, Queue!Stop, Queue!StopCancel, Queue!StopReturn, Queue!WorkerExit,
         AgentInv, QueueInv, Queue!TypeOK, Queue!Lives
<1>3. QueueInv'
  <2>1. Queue!TypeOK'
    BY <1>1, <1>2 DEF AgentInv, QueueInv, Queue!TypeOK
  <2>2. Lined' /\ SlotsExact'
    BY <1>1 DEF AgentInv, QueueInv, Lined, SlotsExact, Queue!At
  <2> QED
    BY <2>1, <2>2 DEF QueueInv
<1>4. AgentTypes'
  BY DEF AgentInv, AgentTypes
<1>5. AgentEarned'
  BY <1>1, HistoryKept DEF AgentInv, AgentEarned
<1>6. HandedOut'
  BY <1>1, BegunKept, HandedKept DEF AgentInv, AgentTypes
<1>7. RoomKept'
  BY <1>1, RoomSame DEF AgentInv, AgentTypes, Held
<1> QED
  BY <1>3, <1>4, <1>5, <1>6, <1>7 DEF AgentInv

(* A call that is done may be made again.                                  *)
LEMMA RecycleInd ==
  ASSUME AgentInv, NEW n \in Submissions, Recycle(n)
  PROVE  AgentInv'
<1>1. /\ stage[n] \in {"done", "refused"}
      /\ stage' = [stage EXCEPT ![n] = "new"]
      /\ answer' = [answer EXCEPT ![n] = "none"]
      /\ body' = [body EXCEPT ![n] = "none"]
      /\ orphans' = IF body[n] = "running" THEN orphans \cup {IdOf[n]} ELSE orphans
      /\ UNCHANGED <<life, running, ended, tasks, slots, inflight, holds, exited>>
      /\ UNCHANGED <<panelVars, inbox, crashes, ran, answered>>
  BY DEF Recycle
<1>2. QueueInv'
  <2>0. Queue!TypeOK /\ Lined /\ SlotsExact
    BY DEF AgentInv, QueueInv
  <2>1. Queue!TypeOK'
    BY <1>1, <2>0 DEF Queue!TypeOK, Queue!Stages, Queue!Answers
  <2>2. Lined'
    BY <1>1, <2>0, LinedKept DEF Queue!TypeOK
  <2>3. SlotsExact'
    BY <1>1, <2>0, SlotsMoved DEF Queue!TypeOK, Queue!Holding, Queue!Working
  <2> QED
    BY <2>1, <2>2, <2>3 DEF QueueInv
<1>3. \A m \in Submissions :
        /\ m # n => stage'[m] = stage[m] /\ answer'[m] = answer[m] /\ body'[m] = body[m]
        /\ m = n => stage'[m] = "new" /\ answer'[m] = "none" /\ body'[m] = "none"
  BY <1>1 DEF AgentInv, QueueInv, Queue!TypeOK
<1>4. AgentTypes'
  <2>1. IdOf[n] \in Ops \cup Internal
    BY CommandsAssumption DEF Ops
  <2>2. orphans' \subseteq Ops \cup Internal
    BY <1>1, <2>1 DEF AgentInv, AgentTypes
  <2> QED
    BY <1>1, <2>2 DEF AgentInv, AgentTypes
<1>5. AgentEarned'
  <2>1. orphans' \cap Ops \subseteq ran'
    BY <1>1 DEF AgentInv, AgentEarned, OpCalls
  <2> QED
    BY <1>1, <1>3, <2>1, HistoryKept DEF AgentInv, OpCalls
<1>6. HandedOut'
  BY <1>1, <1>3, BegunKept, HandedKept DEF AgentInv, AgentTypes, OpCalls
<1>7. RoomKept'
  <2>1. \A m \in Submissions : Held(m)' => Held(m)
    BY <1>3 DEF Held, Queue!Holding, Queue!Working
  <2> QED
    BY <1>1, <2>1, RoomSame DEF AgentInv, AgentTypes
<1> QED
  BY <1>2, <1>4, <1>5, <1>6, <1>7 DEF AgentInv

(* Nobody holds a slot in a queue that starts afresh.                      *)
LEMMA NoneHeld ==
  ASSUME slots' = 0, \A n \in Submissions : stage'[n] = "new"
  PROVE  SlotsExact'
<1>1. \A n \in Submissions : stage'[n] \notin Queue!Holding
  BY DEF Queue!Holding, Queue!Working
<1>2. Queue!At(Queue!Holding)' = {}
  BY <1>1 DEF Queue!At, Queue!Holding, Queue!Working
<1> QED
  BY <1>2, FS_EmptySet DEF SlotsExact

(* A crash empties the agent and its queue.                                *)
LEMMA CrashInd ==
  ASSUME AgentInv, Crash
  PROVE  AgentInv'
<1>1. /\ tasks' = <<>> /\ Len(tasks') = 0 /\ tasks' \in Seq(Submissions)
      /\ inbox' = <<>> /\ Len(inbox') = 0 /\ inbox' \in Seq(Ops)
      /\ slots' = 0 /\ slots' \in 0..Capacity /\ crashes' \in 0..MaxCrashes
  BY CommandsAssumption DEF Crash, AgentInv, AgentTypes
<1>2. \A n \in Submissions : stage'[n] = "new" /\ answer'[n] = "none" /\ body'[n] = "none"
  BY DEF Crash
<1>3. orphans' = {} /\ UNCHANGED <<panelVars, ran, answered>>
  BY DEF Crash
<1>4. Queue!TypeOK'
  BY <1>1 DEF Crash, Queue!TypeOK, Queue!Lives, Queue!Stages, Queue!Answers
<1>5. Lined'
  BY <1>1 DEF Lined
<1>6. SlotsExact'
  BY <1>1, <1>2, NoneHeld
<1>7. AgentTypes'
  BY <1>1, <1>3 DEF AgentInv, AgentTypes
<1>8. AgentEarned'
  BY <1>2, <1>3, HistoryKept DEF AgentInv, OpCalls
<1>9. HandedOut'
  BY <1>1, <1>2 DEF HandedOut, OpCalls
<1>10. RoomKept'
  <2>1. \A m \in Submissions : Held(m)' => Held(m)
    BY <1>2 DEF Held, Queue!Holding, Queue!Working
  <2>2. Len(inbox) \in Nat
    BY DEF AgentInv, AgentTypes
  <2> QED
    BY <1>1, <2>1, <2>2, RoomSame DEF AgentInv
<1> QED
  BY <1>4, <1>5, <1>6, <1>7, <1>8, <1>9, <1>10 DEF AgentInv, QueueInv
-----------------------------------------------------------------------------
(* The steps once more: those in which the panel does something, the poll  *)
(* among them, and those of the agent alone.                               *)
AgentAlone == UNCHANGED <<queueVars, inbox, orphans, crashes, ran, answered>>

AgentStep ==
  \/ SubmitNext \/ SubmitInternal
  \/ \E n \in Submissions : CallStep(n) \/ Recycle(n) \/ (QueueAlone(Queue!BodyReturn(n)) /\ Unobserved)
  \/ QueueAlone(Queue!Start) /\ Unobserved
  \/ QueueStep \/ Shutdown \/ Crash

(* A step is one of the panel, of both in a poll, or of the agent.         *)
LEMMA NextCases ==
  ASSUME AgentInv, [Next]_vars
  PROVE  \/ PanelStep /\ AgentAlone
         \/ Poll
         \/ AgentStep
         \/ UNCHANGED vars
<1>1. ASSUME NEW o \in Ops, Deliver(o) PROVE PanelStep /\ AgentAlone
  <2>1. \E h \in Handlers : \E ev : Received(h, o, ev)
    BY <1>1, DeliverReceived DEF AgentInv, QueueInv
  <2> QED
    BY <1>1, <2>1 DEF Deliver, PanelStep, AgentAlone
<1>2. CASE PanelAlone(Panel!Create)
  BY <1>2 DEF PanelAlone, PanelStep, AgentAlone
<1>3. ASSUME NEW o \in Ops, PanelAlone(Panel!LeaseExpire(o)) PROVE PanelStep /\ AgentAlone
  BY <1>3 DEF PanelAlone, PanelStep, AgentAlone
<1>4. ASSUME NEW h \in Handlers,
             \/ PanelAlone(Panel!ReportUpdate(h)) \/ PanelAlone(Panel!ReportUpdateFails(h))
             \/ PanelAlone(Panel!ReportLog(h))
      PROVE  PanelStep /\ AgentAlone
  BY <1>4 DEF PanelAlone, PanelStep, AgentAlone
<1>5. CASE PollLost
  BY <1>5 DEF PollLost, PanelStep, Claim, AgentAlone
<1> QED
  BY <1>1, <1>2, <1>3, <1>4, <1>5 DEF Next, AgentStep

(* The agent's steps together.                                             *)
LEMMA AgentStepInd ==
  ASSUME AgentInv, AgentStep
  PROVE  AgentInv'
<1>1. ASSUME NEW n \in Submissions, QueueAlone(Queue!BodyReturn(n)), Unobserved
      PROVE  AgentInv'
  BY <1>1, ReturnInd DEF QueueAlone, Unobserved
<1>2. ASSUME QueueAlone(Queue!Start), Unobserved PROVE AgentInv'
  BY <1>2, LifeInd DEF QueueAlone, Unobserved
<1>3. CASE Shutdown
  BY <1>3, LifeInd DEF Shutdown, QueueAlone, Unobserved
<1>4. CASE QueueStep
  BY <1>4, TakeInd, DecideInd, WorkerInd, LifeInd DEF QueueStep, QueueAlone, Unobserved
<1> QED
  BY <1>1, <1>2, <1>3, <1>4, SubmitNextInd, SubmitInternalInd, CallInd, RecycleInd, CrashInd DEF AgentStep

(* The histories only grow, and the agent alone changes no row.            *)
LEMMA HistoryGrows ==
  ASSUME AgentStep
  PROVE  UNCHANGED panelVars /\ ran \subseteq ran' /\ answered \subseteq answered'
BY DEF AgentStep, SubmitNext, SubmitInternal, CallStep, Recycle, QueueStep, Take, Decide, QueueAlone,
       Shutdown, Unobserved, Answered, Crash

LEMMA PanelUntouched ==
  ASSUME PanelInv, PanelEarned, UNCHANGED panelVars, ran \subseteq ran', answered \subseteq answered'
  PROVE  PanelInv' /\ PanelEarned'
<1>1. PanelInv'
  <2>1. Panel!TypeOK'
    BY DEF PanelInv, Panel!TypeOK, panelVars
  <2>2. Rows'
    BY DEF PanelInv, Rows, Begun, panelVars
  <2> QED
    BY <2>1, <2>2 DEF PanelInv
<1>2. PanelEarned'
  <2>1. /\ \A o \in Ops : Earned(o, ops[o].status)'
        /\ \A h \in Handlers : handlers[h].pc = "update" => Earned(handlers[h].op, handlers[h].next)'
    BY DEF PanelEarned, Earned, Panel!Terminal, panelVars
  <2> QED
    BY <2>1 DEF PanelEarned, panelVars
<1> QED
  BY <1>1, <1>2
-----------------------------------------------------------------------------
(* The invariant holds when panel and agent start.                         *)
THEOREM InitInd ==
  Init => IInv
<1> SUFFICES ASSUME Init PROVE IInv
  OBVIOUS
<1>1. \A n \in Submissions : stage[n] = "new" /\ answer[n] = "none" /\ body[n] = "none"
  BY DEF Init, Queue!Init
<1>2. inbox = <<>> /\ Len(inbox) = 0 /\ inbox \in Seq(Ops) /\ orphans = {} /\ ran = {} /\ answered = {}
  BY DEF Init
<1>3. PanelInv
  <2>1. \A o \in Ops : ops[o] = Panel!Blank("unborn") /\ o > created
    BY CommandsAssumption DEF Init, Panel!Init, Panel!Ops, Ops
  <2>2. Panel!Blank("unborn").status = "unborn" /\ Panel!Blank("unborn") \in Panel!Row
    BY DEF Panel!Blank, Panel!Row, Panel!Absent
  <2>3. Panel!IdleHandler \in Panel!HandlerState /\ Panel!IdleHandler.pc = "idle"
    BY DEF Panel!IdleHandler, Panel!HandlerState, Panel!Statuses, Panel!Active
  <2>4. Panel!TypeOK
    BY <2>2, <2>3, CommandsAssumption DEF Init, Panel!Init, Panel!TypeOK, Panel!Ops
  <2>5. Rows
    BY <2>1, <2>2, <2>3 DEF Rows, Init, Panel!Init
  <2> QED
    BY <2>4, <2>5 DEF PanelInv
<1>4. PanelEarned
  <2>1. \A o \in Ops : ops[o].status = "unborn"
    BY DEF Init, Panel!Init, Panel!Blank, Panel!Ops, Ops
  <2>2. \A h \in Handlers : handlers[h].pc = "idle"
    BY DEF Init, Panel!Init, Panel!IdleHandler
  <2> QED
    BY <2>1, <2>2, NothingToEarn DEF PanelEarned
<1>5. QueueInv
  <2>1. Queue!TypeOK /\ Lined
    BY QueueStart DEF Init
  <2>2. Queue!At(Queue!Holding) = {}
    BY <1>1 DEF Queue!At, Queue!Holding, Queue!Working
  <2>3. SlotsExact
    BY <2>2, FS_EmptySet DEF SlotsExact, Init, Queue!Init
  <2> QED
    BY <2>1, <2>3 DEF QueueInv
<1>6. AgentTypes
  BY <1>2, CommandsAssumption DEF AgentTypes, Init
<1>7. HandedOut /\ AgentEarned
  BY <1>1, <1>2 DEF HandedOut, AgentEarned, OpCalls
<1>8. RoomKept
  <2> DEFINE H == {n \in Submissions : Held(n)}
  <2>1. H = {}
    BY <1>1 DEF Held, Queue!Holding, Queue!Working
  <2>2. Cardinality(H) = 0
    BY <2>1, FS_EmptySet
  <2> HIDE DEF H
  <2>3. Len(inbox) + Cardinality(H) <= Capacity
    BY <1>2, <2>2, CommandsAssumption
  <2> QED
    BY <2>3 DEF H, RoomKept, Held, Queue!Holding, Queue!Working
<1> QED
  BY <1>3, <1>4, <1>5, <1>6, <1>7, <1>8 DEF IInv, AgentInv

(* Every step keeps the invariant: the panel's part and the agent's.       *)
THEOREM StepInd ==
  ASSUME IInv, [Next]_vars
  PROVE  IInv'
<1>0. PanelInv /\ PanelEarned /\ AgentInv
  BY DEF IInv
<1>1. CASE PanelStep /\ AgentAlone
  <2>1. PanelInv' /\ \A o \in Ops : Begun(o) => Begun(o)'
    BY <1>0, <1>1, PanelKept
  <2>2. PanelEarned'
    BY <1>0, <1>1, PanelEarnedKept DEF AgentAlone
  <2>3. AgentInv'
    BY <1>0, <1>1, <2>1, AgentUntouched DEF AgentAlone
  <2> QED
    BY <2>1, <2>2, <2>3 DEF IInv
<1>2. CASE Poll
  <2>1. PanelStep /\ UNCHANGED <<ran, answered>>
    BY <1>2 DEF Poll, PanelStep, Claim
  <2> QED
    BY <1>0, <1>2, <2>1, PanelKept, PanelEarnedKept, PollInd DEF IInv
<1>3. CASE AgentStep
  BY <1>0, <1>3, HistoryGrows, PanelUntouched, AgentStepInd DEF IInv
<1>4. CASE UNCHANGED vars
  <2>1. UNCHANGED panelVars /\ AgentAlone
    BY <1>4 DEF vars, AgentAlone
  <2>2. PanelInv' /\ PanelEarned'
    BY <1>0, <2>1, PanelUntouched DEF AgentAlone
  <2>3. AgentInv'
    BY <1>0, <2>1, BegunKept, AgentUntouched DEF AgentAlone
  <2> QED
    BY <2>2, <2>3 DEF IInv
<1> QED
  BY <1>0, <1>1, <1>2, <1>3, <1>4, NextCases

(* The invariant holds throughout.                                         *)
THEOREM Invariance ==
  Spec => []IInv
<1>1. IInv /\ [Next]_vars => IInv'
  BY StepInd
<1> QED
  BY InitInd, <1>1, PTL DEF Spec
-----------------------------------------------------------------------------
(* The variables of panel and agent have their types throughout.           *)
THEOREM TypeCorrect ==
  Spec => []TypeOK
<1>1. IInv => TypeOK
  BY DEF IInv, PanelInv, AgentInv, QueueInv, AgentTypes, TypeOK
<1> QED
  BY Invariance, <1>1, PTL

(* Over a network that loses and repeats, and agents that die: the panel   *)
(* shows no end the agent did not decide, and neither progress nor a       *)
(* handler's result without the handler having run.                        *)
THEOREM EndsTheorem ==
  Spec => []EndsEarned
<1>1. IInv => EndsEarned
  BY DEF IInv, PanelEarned, Earned, EndsEarned
<1> QED
  BY Invariance, <1>1, PTL

(* syncAgentCommands never asks for more than fits: the commands of a      *)
(* response and those already in the queue never outnumber the slots.      *)
THEOREM RoomTheorem ==
  Spec => []RoomKept
<1>1. IInv => RoomKept
  BY DEF IInv, AgentInv
<1> QED
  BY Invariance, <1>1, PTL

(* The slots of the queue are neither leaked nor given back twice, crashes *)
(* and calls that are put back included: what the loop reads of the room   *)
(* is the room there is.                                                   *)
THEOREM SlotsTheorem ==
  Spec => []SlotsExact
<1>1. IInv => SlotsExact
  BY DEF IInv, AgentInv, QueueInv
<1> QED
  BY Invariance, <1>1, PTL

(* What the agent has, was given out and is not pending at the panel.      *)
LEMMA LiveBegun ==
  ASSUME IInv, NEW o \in Ops, Live(o)
  PROVE  Begun(o)
<1>1. CASE o \in ToSet(inbox)
  <2>1. PICK i \in 1..Len(inbox) : inbox[i] = o
    BY <1>1 DEF ToSet, IInv, AgentInv, AgentTypes
  <2> QED
    BY <2>1 DEF IInv, AgentInv, HandedOut
<1>2. ASSUME NEW n \in Submissions, IdOf[n] = o, stage[n] \in InCall \cup Queue!Holding PROVE Begun(o)
  <2>1. stage[n] # "new" /\ n \in OpCalls
    BY <1>2 DEF InCall, Queue!Holding, Queue!Working, OpCalls
  <2> QED
    BY <1>2, <2>1 DEF IInv, AgentInv, HandedOut
<1> QED
  BY <1>1, <1>2 DEF Live, Calls

(* No poll brings the agent a command that it has and whose claim still    *)
(* stands.                                                                 *)
THEOREM RedeliveredTheorem ==
  Spec => RedeliveredLate
<1> DEFINE Late == \A o \in Ops : Live(o) /\ o \in ToSet(inbox') /\ o \notin ToSet(inbox) =>
                     ops[o].status = "claimed" /\ ops[o].lease = "expired"
<1>1. IInv /\ [Next]_vars => [Late]_vars
  <2> SUFFICES ASSUME IInv, [Next]_vars, NEW o \in Ops,
                      Live(o), o \in ToSet(inbox'), o \notin ToSet(inbox)
               PROVE  ops[o].status = "claimed" /\ ops[o].lease = "expired"
    OBVIOUS
  <2>0. PanelInv /\ AgentInv /\ inbox \in Seq(Ops)
    BY DEF IInv, AgentInv, AgentTypes
  <2>1. inbox' # inbox
    OBVIOUS
  <2>2. inbox' # <<>>
    BY DEF ToSet
  <2>3. ~SubmitNext
    <3> SUFFICES ASSUME SubmitNext PROVE FALSE
      OBVIOUS
    <3>1. inbox # <<>> /\ inbox' = Tail(inbox)
      BY DEF SubmitNext
    <3>2. \A i \in 1..Len(inbox') : inbox'[i] = inbox[i + 1] /\ i + 1 \in 1..Len(inbox)
      BY <2>0, <3>1
    <3> QED
      BY <3>2 DEF ToSet
  <2>4. Poll
    <3>1. AgentStep => FALSE
      BY <2>1, <2>2, <2>3
         DEF AgentStep, SubmitInternal, CallStep, Recycle, QueueStep, Take, Decide, QueueAlone,
             Shutdown, Crash
    <3> QED
      BY <2>0, <2>1, <3>1, NextCases DEF AgentAlone, vars
  <2>5. Claim /\ LoopFree /\ Room > 0 /\ UNCHANGED stage /\ inbox' \in InOrder(Response)
    BY <2>4 DEF Poll, Claim, MayPoll, queueVars
  <2>6. o \in Response
    BY <2>0, <2>5, RoomRead
  <2>7. Begun(o)
    BY LiveBegun
  <2> QED
    BY <2>0, <2>5, <2>6, <2>7, ClaimRows DEF Begun
<1> QED
  BY Invariance, <1>1, PTL DEF Spec, RedeliveredLate
-----------------------------------------------------------------------------
(* The agent's part of a step gives the panel nothing but what it may get  *)
(* from any agent: the panel of the composition is LifecycleOps, so what   *)
(* is proved of the table (LifecycleOps_proofs) holds here as well.        *)
PanelSpec == Panel!Spec

(* The assumption under which the table's theorems are proved, with what   *)
(* the composition puts for its constants.                                 *)
LEMMA TableAssumed ==
  /\ MaxOps \in Nat /\ PollLimit \in Nat \ {0}
  /\ [o \in Ops |-> Host] \in [1..MaxOps -> {Host}]
  /\ [o \in Ops |-> Type] \in [1..MaxOps -> {Type}]
  /\ NoWorker \notin {WorkerId}
  /\ Result \in {Result}
  /\ \A ev \in Events : ev.result \in {Result}
<1>1. ASSUME NEW ev \in Events PROVE ev.result = Result
  <2>1. \E event, status : ev = Event(event, status)
    BY Zenon DEF Events
  <2>2. ASSUME NEW event, NEW status PROVE Event(event, status).result = Result
    BY DEF Event
  <2> QED
    BY <2>1, <2>2
<1>2. /\ [o \in Ops |-> Host] \in [1..MaxOps -> {Host}]
      /\ [o \in Ops |-> Type] \in [1..MaxOps -> {Type}]
  BY DEF Ops
<1> QED
  BY <1>1, <1>2, CommandsAssumption

(* A claim for the room that was read is one the panel may be asked for.   *)
LEMMA ClaimAllowed ==
  ASSUME Queue!TypeOK, Room > 0, Claim
  PROVE  Panel!Next
<1>1. slots \in 0..Capacity
  BY DEF Queue!TypeOK
<1>2. Room \in 1..PollLimit
  BY <1>1, CommandsAssumption DEF Room
<1>3. Panel!ClaimAny
  BY <1>2 DEF Claim, Panel!ClaimAny
<1> QED
  BY <1>3 DEF Panel!Next

(* What the agent delivers is an event the panel knows.                    *)
LEMMA DeliverAllowed ==
  ASSUME Queue!TypeOK, NEW o \in Ops, Deliver(o)
  PROVE  Panel!Next
<1>1. PICK h \in Handlers, ev \in Reports(o) : Panel!ReportFind(h, Host, o, WorkerId, ev)
  BY DEF Deliver
<1>2. answer \in [Submissions -> Queue!Answers]
  BY DEF Queue!TypeOK
<1>3. ev \in Events
  BY <1>2 DEF Reports, Calls, Events, AcceptedStatus
<1>4. Panel!ReportFindAny(h)
  BY <1>1, <1>3 DEF Panel!ReportFindAny, Panel!Ops, Ops
<1> QED
  BY <1>4 DEF Panel!Next

(* What becomes of an operation between the panel and its agent, over lost *)
(* and repeated calls and crashes, is a behaviour of the operations table. *)
THEOREM PanelTheorem ==
  Spec => PanelSpec
<1>1. Init => Panel!Init
  BY DEF Init
<1>2. IInv /\ [Next]_vars => [Panel!Next]_(Panel!vars)
  <2> SUFFICES ASSUME IInv, [Next]_vars PROVE Panel!Next \/ UNCHANGED panelVars
    BY DEF panelVars, Panel!vars
  <2>0. AgentInv /\ Queue!TypeOK
    BY DEF IInv, AgentInv, QueueInv
  <2>1. CASE Poll \/ PollLost
    BY <2>0, <2>1, ClaimAllowed DEF Poll, PollLost, Claim
  <2>2. ASSUME NEW o \in Ops, Deliver(o) PROVE Panel!Next
    BY <2>0, <2>2, DeliverAllowed
  <2>3. CASE PanelAlone(Panel!Create)
    BY <2>3 DEF PanelAlone, Panel!Next
  <2>4. ASSUME NEW o \in Ops, PanelAlone(Panel!LeaseExpire(o)) PROVE Panel!Next
    BY <2>4 DEF PanelAlone, Panel!Next, Panel!Ops, Ops
  <2>5. ASSUME NEW h \in Handlers,
               \/ PanelAlone(Panel!ReportUpdate(h)) \/ PanelAlone(Panel!ReportUpdateFails(h))
               \/ PanelAlone(Panel!ReportLog(h))
        PROVE  Panel!Next
    BY <2>5 DEF PanelAlone, Panel!Next
  <2>6. CASE AgentStep
    BY <2>6, HistoryGrows
  <2>7. CASE UNCHANGED vars
    BY <2>7 DEF vars
  <2> QED
    BY <2>1, <2>2, <2>3, <2>4, <2>5, <2>6, <2>7 DEF Next, AgentStep
<1> QED
  BY <1>1, <1>2, Invariance, PTL DEF Spec, PanelSpec, Panel!Spec
=============================================================================
