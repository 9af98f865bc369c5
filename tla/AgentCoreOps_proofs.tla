------------------------ MODULE AgentCoreOps_proofs ------------------------
(***************************************************************************)
(* Proofs about core operations between panel and agent, for any number of *)
(* operations, requests, calls, other tasks and crashes and any capacity.  *)
(*                                                                         *)
(* IInv is made of the panel's part (Rows: what a row and a request in     *)
(* flight say; PanelEarned: the ends shown, or about to be, were decided), *)
(* and the agent's: where a task is, whether its handler runs and whom the *)
(* loop waits for (Lined, Bodies, Handling, Calling), the ends it reports  *)
(* (AgentEarned) and the gate (GateHeld).  A step changes one part and     *)
(* leaves the other alone, but for the fetch.                              *)
(***************************************************************************)
EXTENDS AgentCoreOps, FiniteSetTheorems, TLAPS

(* An operation exists once it is created; a request updates one that does.*)
Rows ==
  /\ \A o \in Ops : ops[o].status = "unborn" <=> o > created
  /\ \A h \in Handlers : handlers[h].pc = "update" =>
       handlers[h].op \in Ops /\ ops[handlers[h].op].status # "unborn"

(* What waits in the channel is queued, and waits there once.              *)
Lined ==
  /\ \A i \in 1..Len(tasks) : stage[tasks[i]] = "queued"
  /\ \A i, j \in 1..Len(tasks) : tasks[i] = tasks[j] => i = j

(* A handler runs only for a task that a worker has taken.                 *)
Bodies == \A n \in Submissions : body[n] = "running" => stage[n] \in Queue!Working \cup {"done"}

(* A core operation's handler is at some point of its work exactly as long *)
(* as it runs.                                                             *)
Handling == \A n \in Submissions : act[n] # "none" <=> n \in CoreCalls /\ body[n] = "running"

InCall == {"admitted", "accepting", "pushing", "refusing"}

(* The loop waits for every call that is under way for a core operation.   *)
Calling ==
  /\ loop.pc = "calling" => loop.call \in CoreCalls
  /\ \A n \in CoreCalls : stage[n] \in InCall => loop.pc = "calling" /\ loop.call = n

(* The gate is held for one owner, or free.                                *)
GateHeld ==
  /\ gate <=> Owners # {}
  /\ \A x, y \in Owners : x = y

(* Every end that is on its way to the panel, or there, was decided.       *)
PanelEarned ==
  /\ CoreEndsEarned
  /\ \A h \in Handlers : handlers[h].pc = "update" => <<handlers[h].op, handlers[h].next>> \in decided

AgentEarned ==
  /\ \A n \in Submissions : act[n] = "reporting" => <<IdOf[n], outcome[n]>> \in decided
  /\ loop.pc = "rejecting" => <<loop.op, "failed">> \in decided

AgentRest == Bodies /\ Handling /\ Calling /\ GateHeld /\ AgentEarned

IInv == TypeOK /\ Rows /\ PanelEarned /\ Lined /\ AgentRest
-----------------------------------------------------------------------------
(* The queue by itself: the types of its state.                            *)
LEMMA QueueStart ==
  Queue!Init => Queue!TypeOK /\ Lined
<1> SUFFICES ASSUME Queue!Init PROVE Queue!TypeOK /\ Lined
  OBVIOUS
<1>1. tasks = <<>> /\ tasks \in Seq(Submissions) /\ slots \in 0..Capacity
  BY CoreAssumption DEF Queue!Init
<1>2. Queue!TypeOK
  BY <1>1 DEF Queue!Init, Queue!TypeOK, Queue!Lives, Queue!Stages, Queue!Answers
<1> QED
  BY <1>1, <1>2 DEF Lined

(* A step of a call keeps the types.                                       *)
LEMMA CallTypes ==
  ASSUME Queue!TypeOK, NEW n \in Submissions, Queue!Submit(n) \/ Queue!CallStep(n)
  PROVE  Queue!TypeOK'
<1>1. CASE Queue!Submit(n)
  BY <1>1 DEF Queue!TypeOK, Queue!Submit, Queue!Stages, Queue!Answers
<1>2. CASE Queue!TakeSlot(n)
  BY <1>2, CoreAssumption
     DEF Queue!TypeOK, Queue!TakeSlot, Queue!SlotFree, Queue!Stages, Queue!Holding, Queue!Answers
<1>3. CASE Queue!AcceptReported(n)
  BY <1>3 DEF Queue!TypeOK, Queue!AcceptReported, Queue!Stages, Queue!Holding
<1>4. CASE Queue!Push(n)
  <2>1. slots' \in 0..Capacity
    BY <1>4, CoreAssumption DEF Queue!TypeOK, Queue!Push, Queue!Released
  <2>2. tasks' \in Seq(Submissions)
    BY <1>4 DEF Queue!TypeOK, Queue!Push
  <2>3. stage' \in [Submissions -> Queue!Stages] /\ answer' \in [Submissions -> Queue!Answers]
    BY <1>4 DEF Queue!TypeOK, Queue!Push, Queue!Stages, Queue!Holding, Queue!Answers
  <2> QED
    BY <1>4, <2>1, <2>2, <2>3 DEF Queue!TypeOK, Queue!Push
<1>5. CASE Queue!RefuseReported(n)
  BY <1>5 DEF Queue!TypeOK, Queue!RefuseReported, Queue!Stages
<1> QED
  BY <1>1, <1>2, <1>3, <1>4, <1>5 DEF Queue!CallStep

(* What a worker takes was queued.                                         *)
LEMMA Taken ==
  ASSUME Queue!TypeOK, Lined, Queue!WorkerTake(Worker)
  PROVE  /\ Head(tasks) \in Submissions /\ Head(tasks) = tasks[1]
         /\ stage[Head(tasks)] = "queued"
         /\ 1 \in 1..Len(tasks) /\ Len(tasks) \in Nat
         /\ Len(tasks') = Len(tasks) - 1 /\ tasks' \in Seq(Submissions)
         /\ \A i \in 1..Len(tasks') : tasks'[i] = tasks[i + 1] /\ i + 1 \in 1..Len(tasks)
<1>1. tasks \in Seq(Submissions) /\ tasks # <<>> /\ tasks' = Tail(tasks)
  BY DEF Queue!TypeOK, Queue!WorkerTake, Queue!TaskPopped
<1> QED
  BY <1>1 DEF Lined

(* A step of a worker keeps the types.                                     *)
LEMMA WorkerTypes ==
  ASSUME Queue!TypeOK, Lined, Queue!WorkerStep(Worker)
  PROVE  Queue!TypeOK'
<1>1. CASE Queue!WorkerTake(Worker)
  <2>1. Head(tasks) \in Submissions /\ tasks' \in Seq(Submissions)
    BY <1>1, Taken
  <2>2. IdOf[Head(tasks)] \in Ops \cup Others
    BY <2>1, CoreAssumption DEF Ops
  <2> QED
    BY <1>1, <2>1, <2>2
       DEF Queue!TypeOK, Queue!WorkerTake, Queue!Stages, Queue!Holding, Queue!Working
<1>2. CASE Queue!Finish(Worker)
  <2>1. Queue!VerdictOf(holds[Worker]) \subseteq Queue!Answers
    BY DEF Queue!VerdictOf, Queue!Answers, Queue!Verdicts
  <2> QED
    BY <1>2, <2>1 DEF Queue!TypeOK, Queue!Finish, Queue!Stages, Queue!Holding, Queue!Working
<1>3. CASE Queue!Leave(Worker)
  BY <1>3 DEF Queue!TypeOK, Queue!Leave, Queue!InflightWithout, Queue!Stages, Queue!Holding, Queue!Working
<1>4. CASE Queue!Release(Worker)
  <2>1. slots' \in 0..Capacity
    BY <1>4, CoreAssumption DEF Queue!TypeOK, Queue!Release, Queue!SlotGivenBack, Queue!Released
  <2> QED
    BY <1>4, <2>1 DEF Queue!TypeOK, Queue!Release, Queue!Stages
<1>5. CASE Queue!WorkerExit(Worker)
  BY <1>5 DEF Queue!TypeOK, Queue!WorkerExit
<1> QED
  BY <1>1, <1>2, <1>3, <1>4, <1>5 DEF Queue!WorkerStep

(* A call or a worker that leaves the channel alone, and what is in it.    *)
LEMMA LinedKept ==
  ASSUME Queue!TypeOK, Lined, UNCHANGED tasks,
         \A n \in Submissions : stage[n] = "queued" => stage'[n] = "queued"
  PROVE  Lined'
<1>1. \A i \in 1..Len(tasks) : tasks[i] \in Submissions
  BY DEF Queue!TypeOK
<1> QED
  BY <1>1 DEF Lined

(* The call pushed joins the end of the channel.                           *)
LEMMA PushLined ==
  ASSUME Queue!TypeOK, Lined, NEW n \in Submissions, Queue!Push(n)
  PROVE  Lined'
<1>0. /\ tasks \in Seq(Submissions) /\ Len(tasks) \in Nat
      /\ \A i \in 1..Len(tasks) : tasks[i] \in Submissions /\ stage[tasks[i]] = "queued"
      /\ stage[n] = "pushing"
  BY DEF Queue!TypeOK, Queue!Push, Lined
<1>1. CASE UNCHANGED tasks
  BY <1>0, <1>1, LinedKept DEF Queue!TypeOK, Queue!Push
<1>2. CASE tasks' = Append(tasks, n) /\ stage' = [stage EXCEPT ![n] = "queued"]
  <2>1. /\ Len(tasks') = Len(tasks) + 1 /\ tasks'[Len(tasks) + 1] = n
        /\ \A i \in 1..Len(tasks) : tasks'[i] = tasks[i] /\ tasks[i] # n
    BY <1>0, <1>2
  <2>2. \A i \in 1..Len(tasks') : i \in 1..Len(tasks) \/ i = Len(tasks) + 1
    BY <1>0, <2>1
  <2>3. \A i \in 1..Len(tasks') : stage'[tasks'[i]] = "queued"
    BY <1>0, <1>2, <2>1, <2>2 DEF Queue!TypeOK
  <2>4. \A i, j \in 1..Len(tasks') : tasks'[i] = tasks'[j] => i = j
    BY <2>1, <2>2 DEF Lined
  <2> QED
    BY <2>3, <2>4 DEF Lined
<1> QED
  BY <1>1, <1>2 DEF Queue!Push

(* The call taken leaves the head, and the rest stays in line.             *)
LEMMA TakeLined ==
  ASSUME Queue!TypeOK, Lined, Queue!WorkerTake(Worker)
  PROVE  Lined'
<1> DEFINE n == Head(tasks)
<1>0. /\ n \in Submissions /\ n = tasks[1] /\ 1 \in 1..Len(tasks) /\ Len(tasks) \in Nat
      /\ \A i \in 1..Len(tasks') : tasks'[i] = tasks[i + 1] /\ i + 1 \in 1..Len(tasks)
      /\ Len(tasks') = Len(tasks) - 1
  BY Taken
<1>1. stage' = [stage EXCEPT ![n] = "running"]
  BY DEF Queue!WorkerTake
<1>2. \A i \in 1..Len(tasks) : tasks[i] \in Submissions /\ stage[tasks[i]] = "queued"
  BY DEF Queue!TypeOK, Lined
<1>3. \A i, j \in 1..Len(tasks) : tasks[i] = tasks[j] => i = j
  BY DEF Lined
<1> HIDE DEF n
<1>4. \A i \in 1..Len(tasks') : tasks'[i] # n
  <2> TAKE i \in 1..Len(tasks')
  <2>1. i + 1 \in 1..Len(tasks) /\ i + 1 # 1
    BY <1>0
  <2> QED
    BY <1>0, <1>3, <2>1
<1>5. \A i \in 1..Len(tasks') : stage'[tasks'[i]] = "queued"
  <2> TAKE i \in 1..Len(tasks')
  <2>1. tasks'[i] \in Submissions /\ stage[tasks'[i]] = "queued"
    BY <1>0, <1>2
  <2> QED
    BY <1>1, <1>4, <2>1 DEF Queue!TypeOK
<1>6. \A i, j \in 1..Len(tasks') : tasks'[i] = tasks'[j] => i = j
  <2> TAKE i, j \in 1..Len(tasks')
  <2>1. tasks'[i] = tasks'[j] => i + 1 = j + 1
    BY <1>0, <1>3
  <2> QED
    BY <2>1
<1> QED
  BY <1>5, <1>6 DEF Lined

(* The channel holds the queued calls, each once, at every step of the queue.*)
LEMMA QueueLined ==
  ASSUME Queue!TypeOK, Lined,
         \/ Queue!WorkerStep(Worker)
         \/ \E n \in Submissions : Queue!Submit(n) \/ Queue!CallStep(n)
  PROVE  Lined'
<1>1. ASSUME NEW n \in Submissions, Queue!Submit(n) \/ Queue!CallStep(n) PROVE Lined'
  <2>1. CASE Queue!Push(n)
    BY <2>1, PushLined
  <2>2. CASE Queue!Submit(n) \/ Queue!TakeSlot(n) \/ Queue!AcceptReported(n) \/ Queue!RefuseReported(n)
    BY <2>2, LinedKept
       DEF Queue!TypeOK, Queue!Submit, Queue!TakeSlot, Queue!AcceptReported, Queue!RefuseReported
  <2> QED
    BY <1>1, <2>1, <2>2 DEF Queue!CallStep
<1>2. CASE Queue!WorkerTake(Worker)
  BY <1>2, TakeLined
<1>3. CASE Queue!Finish(Worker) \/ Queue!Leave(Worker) \/ Queue!Release(Worker) \/ Queue!WorkerExit(Worker)
  BY <1>3, LinedKept
     DEF Queue!TypeOK, Queue!Finish, Queue!Leave, Queue!Release, Queue!WorkerExit
<1> QED
  BY <1>1, <1>2, <1>3 DEF Queue!WorkerStep
-----------------------------------------------------------------------------
(* The panel by itself: its steps, and what they leave alone.              *)
PanelStep ==
  \/ Panel!Create
  \/ \E o \in Ops : \/ Panel!ClaimNext(Host, o) \/ Panel!LeaseExpire(o)
                    \/ \E h \in Handlers, s \in Panel!Terminal :
                         <<o, s>> \in decided /\ Panel!ReportFind(h, Host, o, s)
  \/ \E h \in Handlers : Panel!ReportUpdate(h) \/ Panel!ReportUpdateFails(h)

(* A claim and the end of its lease change one row, which stays open.      *)
ClaimedAlone(o) ==
  /\ ops[o].status \in {"pending", "claimed"} /\ UNCHANGED <<created, handlers>>
  /\ ops' \in [Ops -> Panel!Row] /\ ops'[o].status = "claimed"
  /\ \A p \in Ops \ {o} : ops'[p] = ops[p]

(* A claim, or a lease that runs out, touches one row.                     *)
LEMMA RowClaimed ==
  ASSUME Panel!TypeOK, NEW o \in Ops, Panel!ClaimNext(Host, o) \/ Panel!LeaseExpire(o)
  PROVE  ClaimedAlone(o)
<1> USE DEF Panel!TypeOK, ClaimedAlone
<1>1. CASE Panel!ClaimNext(Host, o)
  <2>1. [status |-> "claimed", lease |-> "live"] \in Panel!Row
    BY DEF Panel!Row, Panel!Active
  <2> QED
    BY <1>1, <2>1 DEF Panel!ClaimNext, Panel!Claimable, Ops, Panel!Ops
<1>2. CASE Panel!LeaseExpire(o)
  <2>1. ops[o] \in Panel!Row
    BY DEF Ops, Panel!Ops
  <2>2. [ops[o] EXCEPT !.lease = "expired"] \in Panel!Row
    BY <2>1 DEF Panel!Row
  <2>3. ops' = [ops EXCEPT ![o] = [ops[o] EXCEPT !.lease = "expired"]]
    BY <1>2 DEF Panel!LeaseExpire
  <2>4. [ops[o] EXCEPT !.lease = "expired"].status = "claimed"
    BY <1>2, <2>1 DEF Panel!LeaseExpire, Panel!Row
  <2> QED
    BY <1>2, <2>2, <2>3, <2>4 DEF Panel!LeaseExpire, Ops, Panel!Ops
<1> QED
  BY <1>1, <1>2

(* A row keeps its end; none is created but by Create; a request that is   *)
(* about to update has just found its row, or was about to before.         *)
LEMMA PanelKept ==
  ASSUME Panel!TypeOK, Rows, PanelStep
  PROVE  /\ Panel!TypeOK' /\ Rows'
         /\ \A o \in Ops : ops[o].status \in Panel!Terminal => ops'[o].status \in Panel!Terminal
<1> USE DEF Panel!TypeOK, Rows
<1>i. Panel!IdleHandler \in Panel!HandlerState /\ Panel!IdleHandler.pc = "idle"
  BY DEF Panel!IdleHandler, Panel!HandlerState, Panel!Terminal
<1>1. CASE Panel!Create
  <2>1. created + 1 \in Ops /\ ops[created + 1].status = "unborn" /\ created' = created + 1
    BY <1>1, CoreAssumption DEF Panel!Create, Ops
  <2>2. /\ ops' \in [Ops -> Panel!Row] /\ ops'[created + 1].status = "pending"
        /\ \A o \in Ops \ {created + 1} : ops'[o] = ops[o]
    BY <1>1, <2>1 DEF Panel!Create, Panel!Row, Panel!Active, Ops, Panel!Ops
  <2>3. Panel!TypeOK'
    BY <1>1, <2>1, <2>2, CoreAssumption DEF Panel!Create, Ops, Panel!Ops
  <2>4. \A o \in Ops : ops'[o].status = "unborn" <=> o > created'
    BY <2>1, <2>2, CoreAssumption DEF Ops
  <2>5. \A h \in Handlers : handlers'[h].pc = "update" =>
          handlers'[h].op \in Ops /\ ops'[handlers'[h].op].status # "unborn"
    BY <1>1, <2>1, <2>2 DEF Panel!Create
  <2>6. \A o \in Ops : ops[o].status \in Panel!Terminal => ops'[o].status \in Panel!Terminal
    BY <2>1, <2>2 DEF Panel!Terminal
  <2> QED
    BY <2>3, <2>4, <2>5, <2>6
<1>2. ASSUME NEW o \in Ops, Panel!ClaimNext(Host, o) \/ Panel!LeaseExpire(o)
      PROVE  /\ Panel!TypeOK' /\ Rows'
             /\ \A p \in Ops : ops[p].status \in Panel!Terminal => ops'[p].status \in Panel!Terminal
  <2>1. ClaimedAlone(o)
    BY <1>2, RowClaimed
  <2> QED
    BY <2>1 DEF ClaimedAlone, Panel!Terminal, Ops, Panel!Ops
<1>3. ASSUME NEW o \in Ops, NEW h \in Handlers, NEW s \in Panel!Terminal,
             Panel!ReportFind(h, Host, o, s)
      PROVE  /\ Panel!TypeOK' /\ Rows'
             /\ \A p \in Ops : ops[p].status \in Panel!Terminal => ops'[p].status \in Panel!Terminal
  <2>1. ops[o].status # "unborn"
    BY <1>3 DEF Panel!ReportFind, Panel!CanTransition, Panel!Active
  <2> QED
    BY <1>3, <2>1 DEF Panel!ReportFind, Panel!HandlerState, Ops, Panel!Ops
<1>4. ASSUME NEW h \in Handlers, Panel!ReportUpdate(h)
      PROVE  /\ Panel!TypeOK' /\ Rows'
             /\ \A p \in Ops : ops[p].status \in Panel!Terminal => ops'[p].status \in Panel!Terminal
  <2>1. /\ handlers[h].op \in Ops /\ ops[handlers[h].op].status # "unborn"
        /\ handlers[h].next \in Panel!Terminal
    BY <1>4 DEF Panel!ReportUpdate, Panel!HandlerState
  <2>2. /\ ops' \in [Ops -> Panel!Row] /\ ops'[handlers[h].op].status = handlers[h].next
        /\ \A p \in Ops \ {handlers[h].op} : ops'[p] = ops[p]
    BY <1>4, <2>1 DEF Panel!ReportUpdate, Panel!Row, Ops, Panel!Ops
  <2>3. handlers' = [handlers EXCEPT ![h] = Panel!IdleHandler] /\ UNCHANGED created
    BY <1>4 DEF Panel!ReportUpdate
  <2>4. Panel!TypeOK'
    BY <1>i, <2>2, <2>3 DEF Ops, Panel!Ops
  <2>5. Rows'
    BY <1>i, <2>1, <2>2, <2>3 DEF Panel!Terminal
  <2> QED
    BY <2>1, <2>2, <2>4, <2>5
<1>5. ASSUME NEW h \in Handlers, Panel!ReportUpdateFails(h)
      PROVE  /\ Panel!TypeOK' /\ Rows'
             /\ \A p \in Ops : ops[p].status \in Panel!Terminal => ops'[p].status \in Panel!Terminal
  BY <1>5, <1>i DEF Panel!ReportUpdateFails
<1> QED
  BY <1>1, <1>2, <1>3, <1>4, <1>5 DEF PanelStep
-----------------------------------------------------------------------------
(* What the loop may be at.                                                *)
LEMMA LoopAt ==
  ASSUME loop \in Loops
  PROVE  /\ loop.pc \in {"idle", "submitting", "rejecting", "calling"}
         /\ loop.pc = "idle" => loop = LoopIdle
         /\ loop.pc \in {"submitting", "rejecting"} => loop.op \in Ops
         /\ loop.pc = "calling" => loop.call \in Submissions
  BY DEF Loops, LoopIdle

(* A loop that goes on keeps its type.                                     *)
LEMMA LoopTypes ==
  /\ LoopIdle \in Loops /\ LoopIdle.pc = "idle"
  /\ \A o \in Ops, pc \in {"submitting", "rejecting"} : [pc |-> pc, op |-> o] \in Loops
  /\ \A n \in Submissions : [pc |-> "calling", call |-> n] \in Loops
  BY DEF Loops, LoopIdle

(* The agent's part of the type invariant.                                 *)
AgentTypes ==
  /\ Queue!TypeOK
  /\ gate \in BOOLEAN
  /\ loop \in Loops
  /\ act \in [Submissions -> Acts]
  /\ outcome \in [Submissions -> {"none"} \cup Outcomes]
  /\ crashes \in 0..MaxCrashes
  /\ decided \subseteq Ops \X (Outcomes \cup {"failed"})

(* The agent's steps, but for the fetch, in which the panel takes part.     *)
CallOf(n) == QueueAlone(Queue!CallStep(n))

AgentStep ==
  \/ QueueAlone(Queue!Start) \/ LoopStep \/ SubmitOther
  \/ \E n \in Submissions : CallOf(n) \/ Recycle(n) \/ HandlerStep(n) \/ ReturnOther(n)
  \/ QueueStep
  \/ Crash

(* A step is one of the panel, of both in a fetch, or of the agent.        *)
LEMMA NextCases ==
  ASSUME IInv, [Next]_vars
  PROVE  \/ PanelStep /\ UNCHANGED <<queueVars, agentVars>>
         \/ Fetch
         \/ UNCHANGED panelVars /\ (AgentStep \/ UNCHANGED <<queueVars, agentVars>>)
<1>1. ASSUME NEW o \in Ops, Deliver(o)
      PROVE  PanelStep /\ UNCHANGED <<queueVars, agentVars>>
  <2>1. \E h \in Handlers, s \in Panel!Terminal :
          <<o, s>> \in decided /\ Panel!ReportFind(h, Host, o, s)
    <3>1. CASE \E h \in Handlers : loop.pc = "rejecting" /\ loop.op = o /\ Panel!ReportFind(h, Host, o, "failed")
      <4>1. "failed" \in Panel!Terminal /\ <<o, "failed">> \in decided
        BY <3>1 DEF Panel!Terminal, IInv, AgentRest, AgentEarned
      <4> QED
        BY <3>1, <4>1
    <3>2. ASSUME NEW h \in Handlers, NEW n \in Submissions, IdOf[n] = o, act[n] = "reporting",
                 Panel!ReportFind(h, Host, o, Reported(n))
          PROVE  \E g \in Handlers, s \in Panel!Terminal :
                   <<o, s>> \in decided /\ Panel!ReportFind(g, Host, o, s)
      <4>1. outcome[n] \in Panel!Terminal /\ <<o, outcome[n]>> \in decided
        BY <3>2 DEF Panel!ReportFind, Panel!CanTransition, Reported, IInv, AgentRest, AgentEarned
      <4> QED
        BY <3>2, <4>1 DEF Reported
    <3> QED
      BY <1>1, <3>1, <3>2 DEF Deliver
  <2> QED
    BY <1>1, <2>1 DEF Deliver, PanelStep
<1>2. CASE PanelAlone(Panel!Create)
  BY <1>2 DEF PanelAlone, PanelStep
<1>3. ASSUME NEW o \in Ops, PanelAlone(Panel!LeaseExpire(o))
      PROVE  PanelStep /\ UNCHANGED <<queueVars, agentVars>>
  BY <1>3 DEF PanelAlone, PanelStep
<1>4. ASSUME NEW h \in Handlers, PanelAlone(Panel!ReportUpdate(h)) \/ PanelAlone(Panel!ReportUpdateFails(h))
      PROVE  PanelStep /\ UNCHANGED <<queueVars, agentVars>>
  BY <1>4 DEF PanelAlone, PanelStep
<1>5. CASE FetchLost
  BY <1>5 DEF FetchLost, PanelAlone, PanelStep
<1>6. CASE UNCHANGED vars
  BY <1>6 DEF vars
<1>7. LoopStep \/ SubmitOther \/ QueueStep \/ Crash \/ QueueAlone(Queue!Start) => UNCHANGED panelVars
  BY DEF LoopStep, SubmitCore, Submitted, Rejected, RejectionReported, SubmitOther, QueueStep,
         Take, Decide, QueueAlone, Crash
<1>8. ASSUME NEW n \in Submissions, CallOf(n) \/ Recycle(n) \/ HandlerStep(n) \/ ReturnOther(n)
      PROVE  UNCHANGED panelVars
  BY <1>8 DEF CallOf, QueueAlone, Recycle, HandlerStep, Execute, Panic, Return, ReturnOther
<1> QED
  BY <1>1, <1>2, <1>3, <1>4, <1>5, <1>6, <1>7, <1>8 DEF Next, AgentStep, CallOf
-----------------------------------------------------------------------------
(* A core operation's call that holds the gate.                            *)
Owns(n) == \/ loop.pc = "calling" /\ loop.call = n /\ stage[n] \in InCall \cup {"refused"}
           \/ stage[n] = "queued"
           \/ body[n] = "running"

(* Who owns the gate, now                                                  *)
LEMMA OwnersAre ==
  \A x : x \in Owners <=> \/ x = "loop" /\ loop.pc = "submitting"
                          \/ x \in CoreCalls /\ Owns(x)
  BY DEF Owners, Owns, InCall, CoreCalls

(* and after a step.                                                       *)
LEMMA OwnersAreThen ==
  \A x : x \in Owners' <=> \/ x = "loop" /\ loop'.pc = "submitting"
                           \/ x \in CoreCalls /\ Owns(x)'
  BY DEF Owners, Owns, InCall, CoreCalls

(* A step that makes and unmakes no owner.                                 *)
LEMMA OwnersSame ==
  ASSUME GateHeld, UNCHANGED gate,
         loop.pc = "submitting" <=> loop'.pc = "submitting",
         \A n \in CoreCalls : Owns(n) <=> Owns(n)'
  PROVE  GateHeld'
<1>1. \A x : x \in Owners <=> x \in Owners'
  BY OwnersAre, OwnersAreThen
<1> QED
  BY <1>1 DEF GateHeld

(* The gate is free while nobody is its owner.                             *)
LEMMA GateFreed ==
  ASSUME ~gate', loop'.pc # "submitting", \A n \in CoreCalls : ~Owns(n)'
  PROVE  GateHeld'
<1>1. \A x : x \notin Owners'
  BY OwnersAreThen
<1> QED
  BY <1>1 DEF GateHeld

(* It goes over to the only owner there is.                                *)
LEMMA GateTaken ==
  ASSUME gate', NEW n \in CoreCalls, loop'.pc # "submitting",
         \A m \in CoreCalls : Owns(m)' <=> m = n
  PROVE  GateHeld'
<1>1. \A x : x \in Owners' <=> x = n
  BY OwnersAreThen
<1> QED
  BY <1>1 DEF GateHeld
-----------------------------------------------------------------------------
(* The invariant holds when panel and agent start.                         *)
THEOREM InitInd ==
  Init => IInv
<1> SUFFICES ASSUME Init PROVE IInv
  OBVIOUS
<1>1. Queue!TypeOK /\ Lined
  BY QueueStart DEF Init
<1>2. Panel!TypeOK /\ Rows /\ PanelEarned
  BY CoreAssumption
     DEF Init, Panel!Init, Panel!TypeOK, Panel!Ops, Ops, Panel!Row, Panel!IdleHandler, Panel!HandlerState,
         Panel!Terminal, Rows, PanelEarned, CoreEndsEarned
<1>3. TypeOK
  <2>1. gate = FALSE /\ loop = LoopIdle /\ crashes = 0 /\ decided = {}
    BY DEF Init
  <2>2. gate \in BOOLEAN /\ loop \in Loops
    BY <2>1, LoopTypes
  <2>3. crashes \in 0..MaxCrashes
    BY <2>1, CoreAssumption
  <2>4. act \in [Submissions -> Acts] /\ outcome \in [Submissions -> {"none"} \cup Outcomes]
    BY DEF Init, Acts
  <2> QED
    BY <1>1, <1>2, <2>1, <2>2, <2>3, <2>4 DEF TypeOK
<1>4. Bodies /\ Handling /\ Calling /\ AgentEarned
  <2>1. loop.pc = "idle"
    BY DEF Init, LoopIdle
  <2>2. \A n \in Submissions : act[n] = "none" /\ stage[n] = "new" /\ body[n] = "none"
    BY DEF Init, Queue!Init
  <2> QED
    BY <2>1, <2>2 DEF Bodies, Handling, Calling, AgentEarned, InCall, CoreCalls
<1>5. GateHeld
  <2>1. \A n \in CoreCalls : ~Owns(n)
    BY DEF Init, Queue!Init, Owns, CoreCalls, LoopIdle
  <2>2. \A x : x \notin Owners
    BY <2>1, OwnersAre DEF Init, LoopIdle
  <2>3. ~gate
    BY DEF Init
  <2> QED
    BY <2>2, <2>3 DEF GateHeld
<1> QED
  BY <1>1, <1>2, <1>3, <1>4, <1>5 DEF IInv, AgentRest

(* A step of the panel, while the agent decides something or nothing.      *)
LEMMA PanelInd ==
  ASSUME IInv, PanelStep, decided \subseteq decided'
  PROVE  Panel!TypeOK' /\ Rows' /\ PanelEarned'
<1>0. Panel!TypeOK /\ Rows /\ PanelEarned
  BY DEF IInv, TypeOK
<1>1. Panel!TypeOK' /\ Rows'
  BY <1>0, PanelKept
<1>2. CASE Panel!Create
  <2>1. created + 1 \in Ops /\ UNCHANGED handlers
    BY <1>0, <1>2, CoreAssumption DEF Panel!Create, Panel!TypeOK, Ops
  <2>2. \A o \in Ops : ops'[o].status \in Panel!Terminal => ops'[o] = ops[o]
    BY <1>0, <1>2, <2>1 DEF Panel!Create, Panel!TypeOK, Ops, Panel!Ops, Panel!Terminal, Panel!Row
  <2> QED
    BY <1>0, <1>1, <2>1, <2>2 DEF PanelEarned, CoreEndsEarned
<1>3. ASSUME NEW o \in Ops, Panel!ClaimNext(Host, o) \/ Panel!LeaseExpire(o)
      PROVE  PanelEarned'
  <2>1. /\ UNCHANGED handlers
        /\ \A p \in Ops : ops'[p].status \in Panel!Terminal => ops'[p] = ops[p]
    BY <1>0, <1>3, RowClaimed DEF ClaimedAlone, Panel!Terminal
  <2> QED
    BY <1>0, <2>1 DEF PanelEarned, CoreEndsEarned
<1>4. ASSUME NEW o \in Ops, NEW h \in Handlers, NEW s \in Panel!Terminal,
             <<o, s>> \in decided, Panel!ReportFind(h, Host, o, s)
      PROVE  PanelEarned'
  <2>1. /\ handlers' = [handlers EXCEPT ![h] = [pc |-> "update", op |-> o, next |-> s]]
        /\ UNCHANGED ops
    BY <1>4 DEF Panel!ReportFind
  <2> QED
    BY <1>0, <1>4, <2>1 DEF PanelEarned, CoreEndsEarned, Panel!TypeOK
<1>5. ASSUME NEW h \in Handlers, Panel!ReportUpdate(h) \/ Panel!ReportUpdateFails(h)
      PROVE  PanelEarned'
  <2>1. handlers' = [handlers EXCEPT ![h] = Panel!IdleHandler] /\ Panel!IdleHandler.pc = "idle"
    BY <1>5 DEF Panel!ReportUpdate, Panel!ReportUpdateFails, Panel!IdleHandler
  <2>2. \A g \in Handlers : handlers'[g].pc = "update" =>
          <<handlers'[g].op, handlers'[g].next>> \in decided
    BY <1>0, <2>1 DEF PanelEarned, Panel!TypeOK
  <2>3. \A p \in Ops : ops'[p] = ops[p] \/ <<p, ops'[p].status>> \in decided
    <3>1. CASE Panel!ReportUpdate(h)
      <4>1. handlers[h].op \in Ops /\ <<handlers[h].op, handlers[h].next>> \in decided
        BY <1>0, <3>1 DEF Panel!ReportUpdate, Rows, PanelEarned
      <4>2. /\ ops'[handlers[h].op].status = handlers[h].next
            /\ \A p \in Ops \ {handlers[h].op} : ops'[p] = ops[p]
        BY <1>0, <3>1, <4>1 DEF Panel!ReportUpdate, Panel!TypeOK, Ops, Panel!Ops, Panel!Row
      <4> QED
        BY <4>1, <4>2
    <3>2. CASE Panel!ReportUpdateFails(h)
      BY <3>2 DEF Panel!ReportUpdateFails
    <3> QED
      BY <1>5, <3>1, <3>2
  <2>4. \A p \in Ops : ops'[p].status \in Panel!Terminal => <<p, ops'[p].status>> \in decided
    BY <1>0, <2>3 DEF PanelEarned, CoreEndsEarned
  <2> QED
    BY <2>2, <2>4 DEF PanelEarned, CoreEndsEarned
<1> QED
  BY <1>1, <1>2, <1>3, <1>4, <1>5 DEF PanelStep

(* What the agent does changes nothing at the panel.                       *)
LEMMA PanelUntouched ==
  ASSUME IInv, UNCHANGED panelVars, decided \subseteq decided'
  PROVE  Panel!TypeOK' /\ Rows' /\ PanelEarned'
<1>1. Panel!TypeOK'
  BY DEF IInv, TypeOK, Panel!TypeOK, panelVars
<1>2. Rows'
  BY DEF IInv, Rows, panelVars
<1>3. PanelEarned'
  BY DEF IInv, PanelEarned, CoreEndsEarned, panelVars
<1> QED
  BY <1>1, <1>2, <1>3
-----------------------------------------------------------------------------
(* The agent, one lemma for each of its steps.                             *)
AgentInd == AgentTypes /\ Lined /\ AgentRest

(* The loop fetches a core operation, and takes the gate.                  *)
LEMMA FetchInd ==
  ASSUME AgentInd, Fetch
  PROVE  AgentInd'
<1>0. AgentTypes /\ Lined /\ Bodies /\ Handling /\ Calling /\ GateHeld /\ AgentEarned
  BY DEF AgentInd, AgentRest
<1>1. PICK o \in Ops : loop' = [pc |-> "submitting", op |-> o]
  BY DEF Fetch
<1>2. loop.pc = "idle" /\ ~gate /\ gate' = TRUE /\ UNCHANGED <<queueVars, act, outcome, crashes, decided>>
  BY DEF Fetch, LoopIdle
<1>3. AgentTypes'
  <2>1. loop' \in Loops
    BY <1>1, LoopTypes
  <2> QED
    BY <1>0, <1>2, <2>1 DEF AgentTypes, Queue!TypeOK, queueVars
<1>4. Lined' /\ Bodies' /\ Handling'
  BY <1>0, <1>2 DEF Lined, Bodies, Handling, queueVars
<1>5. Calling' /\ AgentEarned'
  BY <1>0, <1>1, <1>2 DEF Calling, AgentEarned, queueVars
<1>6. \A n \in CoreCalls : ~Owns(n)'
  <2>1. \A n \in CoreCalls : ~Owns(n)
    BY <1>0, <1>2, OwnersAre DEF GateHeld
  <2> QED
    BY <1>1, <1>2, <2>1 DEF Owns, queueVars
<1>7. \A x : x \in Owners' <=> x = "loop"
  BY <1>1, <1>6, OwnersAreThen
<1>8. GateHeld'
  BY <1>2, <1>7 DEF GateHeld
<1> QED
  BY <1>3, <1>4, <1>5, <1>8 DEF AgentInd, AgentRest

(* The loop submits the operation that it has fetched.                     *)
LEMMA SubmitCoreInd ==
  ASSUME AgentInd, SubmitCore
  PROVE  AgentInd'
<1>0. AgentTypes /\ Lined /\ Bodies /\ Handling /\ Calling /\ GateHeld /\ AgentEarned
  BY DEF AgentInd, AgentRest
<1>1. PICK n \in Submissions : /\ IdOf[n] = loop.op /\ Queue!Submit(n)
                                /\ loop' = [pc |-> "calling", call |-> n]
  BY DEF SubmitCore
<1>2. loop.pc = "submitting" /\ UNCHANGED <<gate, act, outcome, crashes, decided>>
  BY DEF SubmitCore
<1>3. n \in CoreCalls
  BY <1>0, <1>1, <1>2, LoopAt DEF AgentTypes, CoreCalls
<1>4. /\ stage[n] = "new" /\ UNCHANGED body
      /\ stage'[n] \in {"admitted", "refused"} /\ \A m \in Submissions \ {n} : stage'[m] = stage[m]
  BY <1>0, <1>1 DEF Queue!Submit, AgentTypes, Queue!TypeOK
<1>5. AgentTypes' /\ Lined'
  <2>1. loop' \in Loops
    BY <1>1, LoopTypes
  <2>2. Queue!TypeOK' /\ Lined'
    BY <1>0, <1>1, CallTypes, QueueLined DEF AgentTypes
  <2> QED
    BY <1>0, <1>2, <2>1, <2>2 DEF AgentTypes
<1>6. Bodies' /\ Handling' /\ AgentEarned'
  BY <1>0, <1>1, <1>2, <1>4 DEF Bodies, Handling, AgentEarned, Queue!Working
<1>7. "loop" \in Owners /\ gate
  BY <1>0, <1>2, OwnersAre DEF GateHeld
<1>8. \A m \in CoreCalls : ~Owns(m)
  <2> SUFFICES ASSUME NEW m \in CoreCalls, Owns(m) PROVE FALSE
    OBVIOUS
  <2>1. m \in Owners /\ m # "loop"
    BY OwnersAre, CoreAssumption DEF CoreCalls
  <2> QED
    BY <1>0, <1>7, <2>1 DEF GateHeld
<1>9. \A m \in CoreCalls : Owns(m)' <=> m = n
  BY <1>1, <1>4, <1>8 DEF Owns, InCall, CoreCalls
<1>10. Calling'
  BY <1>0, <1>1, <1>2, <1>3, <1>4 DEF Calling, CoreCalls, InCall
<1>11. GateHeld'
  BY <1>1, <1>2, <1>3, <1>7, <1>9, GateTaken
<1> QED
  BY <1>5, <1>6, <1>10, <1>11 DEF AgentInd, AgentRest

(* The loop learns what became of its call, or of its own report.          *)
LEMMA LoopWaitsInd ==
  ASSUME AgentInd, Submitted \/ Rejected \/ RejectionReported
  PROVE  AgentInd'
<1>0. AgentTypes /\ Lined /\ Bodies /\ Handling /\ Calling /\ GateHeld /\ AgentEarned
  BY DEF AgentInd, AgentRest
<1>1. UNCHANGED <<queueVars, act, outcome, crashes>>
  BY DEF Submitted, Rejected, RejectionReported
<1>2. Lined' /\ Bodies' /\ Handling' /\ Queue!TypeOK'
  BY <1>0, <1>1 DEF Lined, Bodies, Handling, AgentTypes, Queue!TypeOK, queueVars
<1>3. CASE Submitted
  <2>1. /\ loop.pc = "calling" /\ loop' = LoopIdle /\ UNCHANGED <<gate, decided>>
        /\ stage[loop.call] \in {"queued", "done"} \cup Queue!Working
    BY <1>3 DEF Submitted
  <2>2. AgentTypes'
    BY <1>0, <1>1, <1>2, <2>1, LoopTypes DEF AgentTypes
  <2>3. Calling' /\ AgentEarned'
    BY <1>0, <1>1, <2>1, LoopTypes
       DEF Calling, AgentEarned, queueVars, Queue!Working, InCall
  <2>4. \A n \in CoreCalls : Owns(n) <=> Owns(n)'
    BY <1>1, <2>1, LoopTypes DEF Owns, queueVars, Queue!Working, InCall
  <2>5. GateHeld'
    BY <1>0, <2>1, <2>4, OwnersSame, LoopTypes
  <2> QED
    BY <1>2, <2>2, <2>3, <2>5 DEF AgentInd, AgentRest
<1>4. CASE Rejected
  <2>1. /\ loop.pc = "calling" /\ stage[loop.call] = "refused" /\ ~gate' /\ gate' = FALSE
        /\ loop' = [pc |-> "rejecting", op |-> IdOf[loop.call]]
        /\ decided' = decided \cup {<<IdOf[loop.call], "failed">>}
    BY <1>4 DEF Rejected
  <2>2. loop.call \in CoreCalls /\ loop.call \in Submissions /\ IdOf[loop.call] \in Ops
    BY <1>0, <2>1 DEF Calling, CoreCalls
  <2>3. AgentTypes'
    <3>1. loop' \in Loops
      BY <2>1, <2>2, LoopTypes
    <3>2. decided' \subseteq Ops \X (Outcomes \cup {"failed"})
      BY <1>0, <2>1, <2>2 DEF AgentTypes
    <3> QED
      BY <1>0, <1>1, <1>2, <2>1, <3>1, <3>2 DEF AgentTypes
  <2>4. Calling' /\ AgentEarned'
    BY <1>0, <1>1, <2>1 DEF Calling, AgentEarned, queueVars, InCall
  <2>5. \A n \in CoreCalls : Owns(n) => n = loop.call
    BY <1>0, <2>1, <2>2, OwnersAre DEF GateHeld, Owns
  <2>6. \A n \in CoreCalls : ~Owns(n)'
    BY <1>0, <1>1, <2>1, <2>2, <2>5 DEF Owns, Bodies, Queue!Working, queueVars
  <2>7. GateHeld'
    BY <2>1, <2>6, GateFreed
  <2> QED
    BY <1>2, <2>3, <2>4, <2>7 DEF AgentInd, AgentRest
<1>5. CASE RejectionReported
  <2>1. loop.pc = "rejecting" /\ loop' = LoopIdle /\ UNCHANGED <<gate, decided>>
    BY <1>5 DEF RejectionReported
  <2>2. AgentTypes'
    BY <1>0, <1>1, <1>2, <2>1, LoopTypes DEF AgentTypes
  <2>3. Calling' /\ AgentEarned'
    BY <1>0, <1>1, <2>1, LoopTypes DEF Calling, AgentEarned, queueVars
  <2>4. \A n \in CoreCalls : Owns(n) <=> Owns(n)'
    BY <1>1, <2>1, LoopTypes DEF Owns, queueVars
  <2>5. GateHeld'
    BY <1>0, <2>1, <2>4, OwnersSame, LoopTypes
  <2> QED
    BY <1>2, <2>2, <2>3, <2>5 DEF AgentInd, AgentRest
<1> QED
  BY <1>3, <1>4, <1>5

(* One call or task goes on in the queue; the gate stays with its owner.   *)
Moves(n) ==
  /\ \/ n \notin CoreCalls /\ stage[n] = "new"
     \/ stage[n] \in InCall /\ stage'[n] \in InCall \cup {"queued", "refused"}
     \/ stage[n] \in Queue!Working /\ stage'[n] \in Queue!Working \cup {"done"}
  /\ \A m \in Submissions \ {n} : stage'[m] = stage[m]

(* A call that keeps its side of the gate leaves the agent's part alone.   *)
LEMMA MovesInd ==
  ASSUME AgentRest, UNCHANGED <<gate, loop, act, outcome, decided, body>>,
         NEW n \in Submissions, Moves(n)
  PROVE  AgentRest'
<1>0. Bodies /\ Handling /\ Calling /\ GateHeld /\ AgentEarned
  BY DEF AgentRest
<1>1. Bodies' /\ Handling' /\ AgentEarned'
  BY <1>0 DEF Moves, Bodies, Handling, AgentEarned, Queue!Working, InCall
<1>2. Calling'
  BY <1>0 DEF Moves, Calling, Queue!Working, InCall, CoreCalls
<1>3. \A m \in CoreCalls : Owns(m) <=> Owns(m)'
  <2> SUFFICES ASSUME NEW m \in CoreCalls PROVE Owns(m) <=> Owns(m)'
    OBVIOUS
  <2>1. CASE m # n
    BY <2>1 DEF Moves, Owns, CoreCalls
  <2>2. CASE m = n
    <3>1. CASE stage[n] \in InCall /\ stage'[n] \in InCall \cup {"queued", "refused"}
      BY <1>0, <2>2, <3>1 DEF Owns, Calling, InCall
    <3>2. CASE stage[n] \in Queue!Working /\ stage'[n] \in Queue!Working \cup {"done"}
      BY <2>2, <3>2 DEF Owns, Queue!Working, InCall
    <3> QED
      BY <2>2, <3>1, <3>2 DEF Moves
  <2> QED
    BY <2>1, <2>2
<1>4. GateHeld'
  BY <1>0, <1>3, OwnersSame
<1> QED
  BY <1>1, <1>2, <1>4 DEF AgentRest

(* A queue that starts touches no call.                                    *)
LEMMA StartInd ==
  ASSUME AgentInd, QueueAlone(Queue!Start)
  PROVE  AgentInd'
<1>1. AgentTypes' /\ Lined'
  BY DEF AgentInd, AgentTypes, Lined, QueueAlone, Queue!Start, Queue!TypeOK, Queue!Lives, agentVars
<1>2. Bodies' /\ Handling' /\ Calling' /\ AgentEarned'
  BY DEF AgentInd, AgentRest, Bodies, Handling, Calling, AgentEarned, QueueAlone, Queue!Start, agentVars
<1>3. GateHeld'
  BY OwnersSame DEF AgentInd, AgentRest, Owns, QueueAlone, Queue!Start, agentVars
<1> QED
  BY <1>1, <1>2, <1>3 DEF AgentInd, AgentRest

(* A call goes on to its answer.                                           *)
LEMMA CallInd ==
  ASSUME AgentInd, SubmitOther \/ \E n \in Submissions : CallOf(n)
  PROVE  AgentInd'
<1>1. PICK n \in Submissions : (n \notin CoreCalls /\ Queue!Submit(n)) \/ Queue!CallStep(n)
  BY DEF SubmitOther, CallOf, QueueAlone
<1>2. UNCHANGED agentVars
  BY DEF SubmitOther, CallOf, QueueAlone
<1>3. AgentTypes' /\ Lined'
  BY <1>1, <1>2, CallTypes, QueueLined DEF AgentInd, AgentTypes, agentVars
<1>4. UNCHANGED body
  BY <1>1 DEF Queue!Submit, Queue!CallStep, Queue!TakeSlot, Queue!AcceptReported, Queue!Push,
              Queue!RefuseReported
<1>5. Moves(n)
  BY <1>1 DEF AgentInd, AgentTypes, Queue!TypeOK, Moves, InCall, Queue!Submit, Queue!CallStep,
              Queue!TakeSlot, Queue!AcceptReported, Queue!Push, Queue!RefuseReported
<1> QED
  BY <1>2, <1>3, <1>4, <1>5, MovesInd DEF AgentInd, agentVars

(* A worker that takes nothing from the channel goes on.                   *)
LEMMA WorkerInd ==
  ASSUME AgentInd, Decide \/ QueueAlone(Queue!Leave(Worker)) \/ QueueAlone(Queue!Release(Worker))
  PROVE  AgentInd'
<1>1. UNCHANGED <<gate, loop, act, outcome, crashes, decided>>
  BY DEF Decide, GateAfterVerdict, QueueAlone, agentVars
<1>2. Queue!Finish(Worker) \/ Queue!Leave(Worker) \/ Queue!Release(Worker)
  BY DEF Decide, QueueAlone
<1>3. AgentTypes' /\ Lined'
  BY <1>1, <1>2, WorkerTypes, QueueLined DEF AgentInd, AgentTypes, Queue!WorkerStep
<1>4. UNCHANGED body /\ holds[Worker] \in Submissions
  BY <1>2 DEF Queue!Finish, Queue!Leave, Queue!Release, AgentInd, AgentTypes, Queue!TypeOK
<1>5. Moves(holds[Worker])
  BY <1>2, <1>4 DEF AgentInd, AgentTypes, Queue!TypeOK, Moves, Queue!Working,
                    Queue!Finish, Queue!Leave, Queue!Release
<1> QED
  BY <1>1, <1>3, <1>4, <1>5, MovesInd DEF AgentInd

(* A worker takes a call from the channel.                                 *)
LEMMA TakeInd ==
  ASSUME AgentInd, Take
  PROVE  AgentInd'
<1> DEFINE n == Head(tasks)
<1>0. AgentTypes /\ Lined /\ Bodies /\ Handling /\ Calling /\ GateHeld /\ AgentEarned
  BY DEF AgentInd, AgentRest
<1>1. Queue!WorkerTake(Worker) /\ UNCHANGED <<gate, loop, outcome, crashes, decided>>
  BY DEF Take
<1>2. n \in Submissions /\ stage[n] = "queued" /\ body[n] # "running"
  <2>1. n \in Submissions /\ stage[n] = "queued"
    BY <1>0, <1>1, Taken DEF AgentTypes
  <2> QED
    BY <1>0, <2>1 DEF Bodies, Queue!Working
<1>3. /\ act' = [act EXCEPT ![n] = IF n \in CoreCalls THEN "executing" ELSE "none"]
      /\ stage' = [stage EXCEPT ![n] = "running"]
      /\ body' = [body EXCEPT ![n] = "running"]
  BY DEF Take, Queue!WorkerTake
<1>4. Queue!TypeOK' /\ Lined'
  BY <1>0, <1>1, WorkerTypes, TakeLined DEF AgentTypes, Queue!WorkerStep
<1> HIDE DEF n
<1>5. AgentTypes'
  BY <1>0, <1>1, <1>3, <1>4 DEF AgentTypes, Acts
<1>6. Bodies' /\ Handling' /\ AgentEarned'
  BY <1>0, <1>1, <1>2, <1>3 DEF Bodies, Handling, AgentEarned, AgentTypes, Queue!TypeOK, Queue!Working
<1>7. Calling'
  BY <1>0, <1>1, <1>2, <1>3 DEF Calling, InCall, AgentTypes, Queue!TypeOK, CoreCalls
<1>8. \A m \in CoreCalls : Owns(m) <=> Owns(m)'
  BY <1>0, <1>1, <1>2, <1>3 DEF Owns, InCall, AgentTypes, Queue!TypeOK, CoreCalls
<1>9. GateHeld'
  BY <1>0, <1>1, <1>8, OwnersSame
<1> QED
  BY <1>4, <1>5, <1>6, <1>7, <1>9 DEF AgentInd, AgentRest

(* The handler: its execution ends,                                        *)
LEMMA ExecutedInd ==
  ASSUME AgentInd, NEW n \in Submissions, Execute(n) \/ Panic(n)
  PROVE  AgentInd'
<1>0. AgentTypes /\ Lined /\ Bodies /\ Handling /\ Calling /\ GateHeld /\ AgentEarned
  BY DEF AgentInd, AgentRest
<1>1. act[n] = "executing" /\ UNCHANGED <<queueVars, gate, loop, crashes>>
  BY DEF Execute, Panic
<1>2. PICK next \in {"ending", "reporting"} : act' = [act EXCEPT ![n] = next]
  BY DEF Execute, Panic
<1>3. n \in CoreCalls /\ IdOf[n] \in Ops
  BY <1>0, <1>1 DEF Handling, CoreCalls
<1>4. Lined' /\ Bodies' /\ Calling' /\ Queue!TypeOK'
  BY <1>0, <1>1 DEF Lined, Bodies, Calling, AgentTypes, Queue!TypeOK, queueVars
<1>5. Handling'
  BY <1>0, <1>1, <1>2 DEF Handling, queueVars, AgentTypes
<1>6. act' \in [Submissions -> Acts]
  BY <1>0, <1>2 DEF AgentTypes, Acts
<1>7. GateHeld'
  BY <1>0, <1>1, OwnersSame DEF Owns, queueVars
<1>8. CASE Execute(n)
  <2>1. PICK v \in Outcomes : /\ outcome' = [outcome EXCEPT ![n] = v]
                              /\ decided' = decided \cup {<<IdOf[n], v>>}
    BY <1>8 DEF Execute
  <2>2. AgentTypes'
    BY <1>0, <1>1, <1>3, <1>4, <1>6, <2>1 DEF AgentTypes
  <2>3. AgentEarned'
    BY <1>0, <1>1, <1>2, <2>1 DEF AgentEarned, AgentTypes
  <2> QED
    BY <1>4, <1>5, <1>7, <2>2, <2>3 DEF AgentInd, AgentRest
<1>9. CASE Panic(n)
  <2>1. act' = [act EXCEPT ![n] = "ending"] /\ UNCHANGED <<outcome, decided>>
    BY <1>9 DEF Panic
  <2>2. AgentTypes'
    BY <1>0, <1>1, <1>4, <1>6, <2>1 DEF AgentTypes
  <2>3. AgentEarned'
    BY <1>0, <1>1, <2>1 DEF AgentEarned, AgentTypes
  <2> QED
    BY <1>4, <1>5, <1>7, <2>2, <2>3 DEF AgentInd, AgentRest
<1> QED
  BY <1>8, <1>9

(* and it returns.                                                         *)
LEMMA ReturnInd ==
  ASSUME AgentInd, NEW n \in Submissions, Return(n) \/ ReturnOther(n)
  PROVE  AgentInd'
<1>0. AgentTypes /\ Lined /\ Bodies /\ Handling /\ Calling /\ GateHeld /\ AgentEarned
  BY DEF AgentInd, AgentRest
<1>1. /\ body[n] = "running" /\ body' = [body EXCEPT ![n] = "returned"]
      /\ UNCHANGED <<life, running, ended, tasks, slots, inflight, stage, answer, holds, exited>>
      /\ UNCHANGED <<loop, outcome, crashes, decided>>
  BY DEF Return, ReturnOther, QueueAlone, Queue!BodyReturn, agentVars
<1>2. Queue!TypeOK' /\ Lined' /\ Calling' /\ Bodies'
  BY <1>0, <1>1 DEF AgentTypes, Queue!TypeOK, Lined, Calling, Bodies
<1>3. CASE Return(n)
  <2>1. act[n] # "none" /\ act' = [act EXCEPT ![n] = "none"] /\ gate' = FALSE /\ ~gate'
    BY <1>3 DEF Return
  <2>2. n \in CoreCalls
    BY <1>0, <2>1 DEF Handling
  <2>3. AgentTypes'
    BY <1>0, <1>1, <1>2, <2>1 DEF AgentTypes, Acts
  <2>4. Handling' /\ AgentEarned'
    BY <1>0, <1>1, <2>1 DEF Handling, AgentEarned, AgentTypes, Queue!TypeOK
  <2>5. n \in Owners /\ \A x \in Owners : x = n
    BY <1>0, <1>1, <2>2, OwnersAre DEF Owns, GateHeld
  <2>6. \A m \in CoreCalls : m # n => ~Owns(m)
    BY <2>5, OwnersAre
  <2>7. stage[n] \in Queue!Working \cup {"done"}
    BY <1>0, <1>1 DEF Bodies
  <2>8. \A m \in CoreCalls : ~Owns(m)'
    BY <1>0, <1>1, <2>6, <2>7
       DEF Owns, AgentTypes, Queue!TypeOK, Queue!Working, InCall, CoreCalls
  <2>9. loop'.pc # "submitting"
    <3>1. "loop" \notin Owners
      BY <2>5, CoreAssumption
    <3> QED
      BY <1>1, <3>1, OwnersAre
  <2>10. GateHeld'
    BY <2>1, <2>8, <2>9, GateFreed
  <2> QED
    BY <1>2, <2>3, <2>4, <2>10 DEF AgentInd, AgentRest
<1>4. CASE ReturnOther(n)
  <2>1. n \notin CoreCalls /\ UNCHANGED <<act, gate>>
    BY <1>4 DEF ReturnOther, QueueAlone, agentVars
  <2>2. AgentTypes'
    BY <1>0, <1>1, <1>2, <2>1 DEF AgentTypes
  <2>3. Handling' /\ AgentEarned'
    BY <1>0, <1>1, <2>1 DEF Handling, AgentEarned, AgentTypes, Queue!TypeOK
  <2>4. \A m \in CoreCalls : Owns(m) <=> Owns(m)'
    BY <1>0, <1>1, <2>1 DEF Owns, AgentTypes, Queue!TypeOK, CoreCalls
  <2>5. GateHeld'
    BY <1>0, <1>1, <2>1, <2>4, OwnersSame
  <2> QED
    BY <1>2, <2>2, <2>3, <2>5 DEF AgentInd, AgentRest
<1> QED
  BY <1>3, <1>4

(* A call that is done may be made again.                                  *)
LEMMA RecycleInd ==
  ASSUME AgentInd, NEW n \in Submissions, Recycle(n)
  PROVE  AgentInd'
<1>0. AgentTypes /\ Lined /\ Bodies /\ Handling /\ Calling /\ GateHeld /\ AgentEarned
  BY DEF AgentInd, AgentRest
<1>1. /\ stage[n] \in {"done", "refused"} /\ body[n] # "running"
      /\ loop.pc = "calling" => loop.call # n
      /\ stage' = [stage EXCEPT ![n] = "new"]
      /\ answer' = [answer EXCEPT ![n] = "none"]
      /\ body' = [body EXCEPT ![n] = "none"]
      /\ outcome' = [outcome EXCEPT ![n] = "none"]
      /\ UNCHANGED <<life, running, ended, tasks, slots, inflight, holds, exited,
                     gate, loop, act, crashes, decided>>
  BY DEF Recycle
<1>2. Queue!TypeOK'
  BY <1>0, <1>1 DEF AgentTypes, Queue!TypeOK, Queue!Stages, Queue!Answers
<1>3. AgentTypes'
  BY <1>0, <1>1, <1>2 DEF AgentTypes
<1>4. Lined'
  BY <1>0, <1>1, LinedKept DEF AgentTypes, Queue!TypeOK
<1>5. Bodies' /\ Handling' /\ Calling' /\ AgentEarned'
  BY <1>0, <1>1
     DEF Bodies, Handling, Calling, AgentEarned, AgentTypes, Queue!TypeOK, InCall, CoreCalls
<1>6. \A m \in CoreCalls : Owns(m) <=> Owns(m)'
  BY <1>0, <1>1 DEF Owns, AgentTypes, Queue!TypeOK, CoreCalls, InCall
<1>7. GateHeld'
  BY <1>0, <1>1, <1>6, OwnersSame
<1> QED
  BY <1>3, <1>4, <1>5, <1>7 DEF AgentInd, AgentRest

(* A crash empties the agent and its queue.                                *)
LEMMA CrashInd ==
  ASSUME AgentInd, Crash
  PROVE  AgentInd'
<1>1. /\ tasks' = <<>> /\ Len(tasks') = 0 /\ tasks' \in Seq(Submissions)
      /\ slots' \in 0..Capacity /\ crashes' \in 0..MaxCrashes
  BY CoreAssumption DEF Crash, AgentInd, AgentTypes
<1>2. Queue!TypeOK'
  BY <1>1 DEF Crash, Queue!TypeOK, Queue!Lives, Queue!Stages, Queue!Answers
<1>3. gate' = FALSE /\ gate' \in BOOLEAN /\ ~gate' /\ loop' \in Loops /\ loop'.pc = "idle"
  BY LoopTypes DEF Crash
<1>4. \A n \in Submissions : act'[n] = "none" /\ stage'[n] = "new" /\ body'[n] = "none"
  BY DEF Crash
<1>5. act' \in [Submissions -> Acts] /\ outcome' \in [Submissions -> {"none"} \cup Outcomes]
  BY DEF Crash, Acts
<1>6. AgentTypes'
  BY <1>1, <1>2, <1>3, <1>5 DEF AgentTypes, AgentInd, Crash
<1>7. Lined'
  BY <1>1 DEF Lined
<1>8. Bodies' /\ Handling' /\ Calling' /\ AgentEarned'
  BY <1>3, <1>4 DEF Bodies, Handling, Calling, AgentEarned, InCall, CoreCalls
<1>9. GateHeld'
  <2>1. \A n \in CoreCalls : ~Owns(n)'
    BY <1>3, <1>4 DEF Owns, CoreCalls
  <2> QED
    BY <1>3, <2>1, GateFreed
<1> QED
  BY <1>6, <1>7, <1>8, <1>9 DEF AgentInd, AgentRest
-----------------------------------------------------------------------------
(* The history of decisions only grows.                                    *)
LEMMA DecidedGrows ==
  ASSUME Fetch \/ AgentStep \/ UNCHANGED <<queueVars, agentVars>>
  PROVE  decided \subseteq decided'
BY DEF Fetch, AgentStep, LoopStep, SubmitCore, Submitted, Rejected, RejectionReported, SubmitOther, CallOf,
       Recycle, HandlerStep, Execute, Panic, Return, ReturnOther, QueueStep, Take, Decide, QueueAlone, Crash,
       agentVars

(* The agent's steps together.                                             *)
LEMMA AgentStepInd ==
  ASSUME AgentInd, AgentStep
  PROVE  AgentInd'
<1>1. CASE LoopStep
  BY <1>1, SubmitCoreInd, LoopWaitsInd DEF LoopStep
<1>2. CASE QueueStep
  BY <1>2, TakeInd, WorkerInd DEF QueueStep
<1>3. ASSUME NEW n \in Submissions, CallOf(n) \/ Recycle(n) \/ HandlerStep(n) \/ ReturnOther(n)
      PROVE  AgentInd'
  BY <1>3, CallInd, RecycleInd, ExecutedInd, ReturnInd DEF HandlerStep
<1> QED
  BY <1>1, <1>2, <1>3, StartInd, CallInd, CrashInd DEF AgentStep

(* A step of the panel leaves the agent's part alone.                      *)
LEMMA AgentUntouched ==
  ASSUME AgentInd, UNCHANGED <<queueVars, agentVars>>
  PROVE  AgentInd'
<1>1. AgentTypes' /\ Lined' /\ Bodies' /\ Handling' /\ Calling' /\ AgentEarned'
  BY DEF AgentInd, AgentRest, AgentTypes, Queue!TypeOK, Lined, Bodies, Handling, Calling, AgentEarned,
         queueVars, agentVars
<1>2. GateHeld'
  BY OwnersSame DEF AgentInd, AgentRest, Owns, queueVars, agentVars
<1> QED
  BY <1>1, <1>2 DEF AgentInd, AgentRest

(* Every step keeps the invariant: the panel's part and the agent's.       *)
THEOREM StepInd ==
  ASSUME IInv, [Next]_vars
  PROVE  IInv'
<1>0. AgentInd
  BY DEF IInv, TypeOK, AgentInd, AgentTypes
<1>1. AgentInd'
  <2>1. CASE PanelStep /\ UNCHANGED <<queueVars, agentVars>>
    BY <1>0, <2>1, AgentUntouched
  <2> QED
    BY <1>0, <2>1, NextCases, FetchInd, AgentStepInd, AgentUntouched
<1>2. Panel!TypeOK' /\ Rows' /\ PanelEarned'
  <2>1. CASE PanelStep /\ UNCHANGED <<queueVars, agentVars>>
    BY <2>1, PanelInd, DecidedGrows
  <2>2. CASE Fetch
    <3>1. PanelStep
      BY <2>2 DEF Fetch, PanelStep
    <3> QED
      BY <2>2, <3>1, PanelInd, DecidedGrows
  <2>3. CASE UNCHANGED panelVars /\ (AgentStep \/ UNCHANGED <<queueVars, agentVars>>)
    BY <2>3, PanelUntouched, DecidedGrows
  <2> QED
    BY <2>1, <2>2, <2>3, NextCases
<1> QED
  BY <1>1, <1>2 DEF IInv, TypeOK, AgentInd, AgentTypes

(* The invariant holds throughout.                                         *)
THEOREM Invariance ==
  Spec => []IInv
<1>1. IInv /\ [Next]_vars => IInv'
  BY StepInd
<1> QED
  BY InitInd, <1>1, PTL DEF Spec
-----------------------------------------------------------------------------
(* The variables have their types throughout; in particular the queue's    *)
(* slots never exceed the channel, crashes notwithstanding.                *)
THEOREM TypeCorrect ==
  Spec => []TypeOK
<1>1. IInv => TypeOK
  BY DEF IInv
<1> QED
  BY Invariance, <1>1, PTL

(* coreOperationSyncInFlight neither leaks nor is given back early: it is  *)
(* held exactly while the agent has a core operation in hand, and it never *)
(* has two.                                                                *)
THEOREM GateTheorem ==
  Spec => []GateExact
<1>1. IInv => GateExact
  <2> SUFFICES ASSUME IInv PROVE GateExact
    OBVIOUS
  <2>0. GateHeld /\ gate \in BOOLEAN
    BY DEF IInv, AgentRest, TypeOK
  <2>1. CASE gate
    <3>1. PICK x : x \in Owners
      BY <2>0, <2>1 DEF GateHeld
    <3>2. Owners = {x}
      BY <2>0, <3>1 DEF GateHeld
    <3> QED
      BY <2>1, <3>2, FS_Singleton DEF GateExact
  <2>2. CASE ~gate
    <3>1. Owners = {}
      BY <2>0, <2>2 DEF GateHeld
    <3> QED
      BY <2>2, <3>1, FS_EmptySet DEF GateExact
  <2> QED
    BY <2>1, <2>2
<1> QED
  BY Invariance, <1>1, PTL

(* No two handlers of core operations run at a time, abandoned ones        *)
(* counted: what the gate is for.                                          *)
OneHandler == \A m, n \in CoreCalls : body[m] = "running" /\ body[n] = "running" => m = n

(* Two handlers of core operations never run at once.                      *)
THEOREM OneHandlerTheorem ==
  Spec => []OneHandler
<1>1. IInv => OneHandler
  <2> SUFFICES ASSUME IInv, NEW m \in CoreCalls, NEW n \in CoreCalls,
                      body[m] = "running", body[n] = "running"
               PROVE  m = n
    BY DEF OneHandler
  <2>1. m \in Owners /\ n \in Owners
    BY OwnersAre DEF Owns
  <2> QED
    BY <2>1 DEF IInv, AgentRest, GateHeld
<1> QED
  BY Invariance, <1>1, PTL

(* The panel shows no end of a core operation that the agent has not       *)
(* decided, however late a report is written and by whichever request.     *)
THEOREM EndsTheorem ==
  Spec => []CoreEndsEarned
<1>1. IInv => CoreEndsEarned
  BY DEF IInv, PanelEarned
<1> QED
  BY Invariance, <1>1, PTL

(* A core operation that has ended is never open again.                    *)
THEOREM NeverReopenedTheorem ==
  Spec => NeverReopened
<1>1. IInv /\ [Next]_vars =>
        [\A o \in Ops : ops[o].status \in Panel!Terminal => ops'[o].status \in Panel!Terminal]_vars
  <2> SUFFICES ASSUME IInv, [Next]_vars
               PROVE  \A o \in Ops : ops[o].status \in Panel!Terminal => ops'[o].status \in Panel!Terminal
    OBVIOUS
  <2>1. Panel!TypeOK /\ Rows
    BY DEF IInv, TypeOK
  <2>2. CASE PanelStep
    BY <2>1, <2>2, PanelKept
  <2>3. CASE UNCHANGED panelVars
    BY <2>3 DEF panelVars
  <2>4. Fetch => PanelStep
    BY DEF Fetch, PanelStep
  <2> QED
    BY <2>2, <2>3, <2>4, NextCases
<1> QED
  BY Invariance, <1>1, PTL DEF Spec, NeverReopened
=============================================================================
