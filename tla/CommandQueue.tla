---------------------------- MODULE CommandQueue ----------------------------
(***************************************************************************)
(* The agent's command queue (agent/command/queue.go): a bounded channel   *)
(* of tasks, a channel of slots that bounds what is admitted, and workers  *)
(* that run one task at a time, each in a goroutine of its own so that a   *)
(* timeout can abandon it.                                                 *)
(*                                                                         *)
(* A submission is one call of Submit or SubmitWithHandler; several may    *)
(* carry the same command id, because the panel hands a command out again  *)
(* when its lease runs out.  Calls run concurrently with each other, with  *)
(* the workers and with Stop, one step per access to shared state.  A      *)
(* report is an RPC of up to ten seconds, during which the caller stays    *)
(* where it is and everything else goes on; what becomes of it is not the  *)
(* queue's concern (its error is dropped).  The queue is started once and  *)
(* stopped once, as Agent.Run does.                                        *)
(*                                                                         *)
(* Abstractions.  The deadline of a task may pass at any time, so a        *)
(* timeout is always possible.  Progress reports change nothing here.      *)
(* Taking a task from the channel and entering it in inflight is one step. *)
(***************************************************************************)
EXTENDS Naturals, Sequences, FiniteSets

CONSTANTS Submissions,   \* calls of Submit, bounded
          Ids,           \* command ids
          IdOf,          \* [Submissions -> Ids]
          Unsupported,   \* submissions of a type without a handler
          Workers,       \* worker goroutines
          NoTask,        \* what an idle worker holds
          Capacity,      \* length of both channels
          Results        \* statuses a handler may return, or a panic yields

ASSUME QueueAssumption ==
  /\ IsFiniteSet(Submissions) /\ IsFiniteSet(Workers)
  /\ IdOf \in [Submissions -> Ids]
  /\ NoTask \notin Submissions
  /\ Capacity \in Nat \ {0}
  /\ Results \cap {"none", "timeout", "cancelled", "queue_full", "unsupported_action"} = {}

VARIABLES life,          \* of the queue, see Lives
          running,       \* q.running
          ended,         \* the queue's context is done
          tasks,         \* q.tasks
          slots,         \* len(q.slots)
          inflight,      \* keys of q.inflight
          stage,         \* [Submissions -> Stages]: how far each call is
          answer,        \* [Submissions -> Answers]: its terminal status
          body,          \* [Submissions -> ...]: its handler's goroutine
          holds,         \* [Workers -> Submissions \cup {NoTask}]
          exited         \* workers that have returned

vars == <<life, running, ended, tasks, slots, inflight, stage, answer, body, holds, exited>>
-----------------------------------------------------------------------------
Lives == {"unstarted", "started", "stopping", "draining", "stopped"}

(* A submission that holds a slot: its accepted report is under way, it is *)
(* about to be pushed, it waits in tasks, a worker runs it, its terminal   *)
(* report is under way, it has left inflight.                              *)
Working == {"running", "reporting", "leaving"}
Holding == {"accepting", "pushing", "queued"} \cup Working

(* Refusing: the terminal report of a refusal is under way.                *)
Stages == {"new", "admitted", "refusing", "refused", "done"} \cup Holding

Verdicts == Results \cup {"timeout", "cancelled"}
Answers  == {"none", "queue_full", "unsupported_action"} \cup Verdicts

Idle(w) == holds[w] = NoTask /\ w \notin exited

Init ==
  /\ life = "unstarted"
  /\ running = FALSE
  /\ ended = FALSE
  /\ tasks = <<>>
  /\ slots = 0
  /\ inflight = {}
  /\ stage = [n \in Submissions |-> "new"]
  /\ answer = [n \in Submissions |-> "none"]
  /\ body = [n \in Submissions |-> "none"]
  /\ holds = [w \in Workers |-> NoTask]
  /\ exited = {}

Start ==
  /\ life = "unstarted"
  /\ life' = "started"
  /\ running' = TRUE
  /\ UNCHANGED <<ended, tasks, slots, inflight, stage, answer, body, holds, exited>>

(* The context Start was given is cancelled: the agent shuts down.  Stop   *)
(* comes later, so for a while the queue still admits.                     *)
ContextEnds ==
  /\ life = "started"
  /\ ended' = TRUE
  /\ UNCHANGED <<life, running, tasks, slots, inflight, stage, answer, body, holds, exited>>

(* Stop, under the lock.                                                   *)
Stop ==
  /\ life = "started"
  /\ life' = "stopping"
  /\ running' = FALSE
  /\ UNCHANGED <<ended, tasks, slots, inflight, stage, answer, body, holds, exited>>

(* Stop, outside the lock: cancel the context, close q.stopped.            *)
StopCancel ==
  /\ life = "stopping"
  /\ life' = "draining"
  /\ ended' = TRUE
  /\ UNCHANGED <<running, tasks, slots, inflight, stage, answer, body, holds, exited>>

(* wg.Wait returns.                                                        *)
StopReturn ==
  /\ life = "draining"
  /\ exited = Workers
  /\ life' = "stopped"
  /\ UNCHANGED <<running, ended, tasks, slots, inflight, stage, answer, body, holds, exited>>
-----------------------------------------------------------------------------
(* Submit up to the running check.  A type without a handler is answered   *)
(* unsupported_action; a queue that does not run answers nothing at all.   *)
Submit(n) ==
  /\ stage[n] = "new"
  /\ \/ /\ n \in Unsupported
        /\ stage' = [stage EXCEPT ![n] = "refusing"]
        /\ answer' = [answer EXCEPT ![n] = "unsupported_action"]
     \/ /\ n \notin Unsupported
        /\ stage' = [stage EXCEPT ![n] = IF running THEN "admitted" ELSE "refused"]
        /\ UNCHANGED answer
  /\ UNCHANGED <<life, running, ended, tasks, slots, inflight, body, holds, exited>>

(* Mutant: room for one more than the channel holds.                       *)
SlotFreeOffByOne == slots <= Capacity

SlotFree == slots < Capacity

(* Take a slot, or answer queue_full.                                      *)
TakeSlot(n) ==
  /\ stage[n] = "admitted"
  /\ \/ /\ SlotFree
        /\ slots' = slots + 1
        /\ stage' = [stage EXCEPT ![n] = "accepting"]
        /\ UNCHANGED answer
     \/ /\ ~SlotFree
        /\ stage' = [stage EXCEPT ![n] = "refusing"]
        /\ answer' = [answer EXCEPT ![n] = "queue_full"]
        /\ UNCHANGED slots
  /\ UNCHANGED <<life, running, ended, tasks, inflight, body, holds, exited>>

(* The accepted report has returned.                                       *)
AcceptReported(n) ==
  /\ stage[n] = "accepting"
  /\ stage' = [stage EXCEPT ![n] = "pushing"]
  /\ UNCHANGED <<life, running, ended, tasks, slots, inflight, answer, body, holds, exited>>

(* releaseSlot: take one out of the channel if there is one.               *)
Released == IF slots > 0 THEN slots - 1 ELSE 0

(* Push the task, or give the slot back and answer queue_full after all.   *)
Push(n) ==
  /\ stage[n] = "pushing"
  /\ \/ /\ Len(tasks) < Capacity
        /\ tasks' = Append(tasks, n)
        /\ stage' = [stage EXCEPT ![n] = "queued"]
        /\ UNCHANGED <<slots, answer>>
     \/ /\ Len(tasks) >= Capacity
        /\ slots' = Released
        /\ stage' = [stage EXCEPT ![n] = "refusing"]
        /\ answer' = [answer EXCEPT ![n] = "queue_full"]
        /\ UNCHANGED tasks
  /\ UNCHANGED <<life, running, ended, inflight, body, holds, exited>>

(* The report of a refusal has returned, and with it the call.             *)
RefuseReported(n) ==
  /\ stage[n] = "refusing"
  /\ stage' = [stage EXCEPT ![n] = "refused"]
  /\ UNCHANGED <<life, running, ended, tasks, slots, inflight, answer, body, holds, exited>>
-----------------------------------------------------------------------------
(* Mutants: a task that is looked at and not removed; a worker that leaves *)
(* the last task of the channel alone.                                     *)
TaskPeeked(w) == holds[w] = NoTask /\ tasks # <<>> /\ tasks' = tasks
TaskButLast(w) == holds[w] = NoTask /\ Len(tasks) > 1 /\ tasks' = Tail(tasks)

TaskPopped(w) == holds[w] = NoTask /\ tasks # <<>> /\ tasks' = Tail(tasks)

(* A worker receives a task, enters it in inflight and spawns its handler. *)
(* With the context done too, select chooses either case.                  *)
WorkerTake(w) ==
  /\ life # "unstarted"
  /\ Idle(w)
  /\ TaskPopped(w)
  /\ LET n == Head(tasks) IN
     /\ holds' = [holds EXCEPT ![w] = n]
     /\ inflight' = inflight \cup {IdOf[n]}
     /\ stage' = [stage EXCEPT ![n] = "running"]
     /\ body' = [body EXCEPT ![n] = "running"]
  /\ UNCHANGED <<life, running, ended, slots, answer, exited>>

(* The handler returns or panics.  Nobody may be waiting for it any more.  *)
BodyReturn(n) ==
  /\ body[n] = "running"
  /\ body' = [body EXCEPT ![n] = "returned"]
  /\ UNCHANGED <<life, running, ended, tasks, slots, inflight, stage, answer, holds, exited>>

(* Mutants: no deadline and no cancellation; a result the handler has not  *)
(* returned.                                                               *)
VerdictUnbounded(n) == IF body[n] = "returned" THEN Results ELSE {}
VerdictUnwaited(n)  == Results \cup {"timeout"}

(* What run may decide: the handler's result, a timeout, or the end of the *)
(* queue's context.                                                        *)
VerdictOf(n) == (IF body[n] = "returned" THEN Results ELSE {})
                  \cup {"timeout"} \cup (IF ended THEN {"cancelled"} ELSE {})

(* The worker has the result and starts to report it.                      *)
Finish(w) ==
  /\ holds[w] # NoTask
  /\ stage[holds[w]] = "running"
  /\ \E v \in VerdictOf(holds[w]) : answer' = [answer EXCEPT ![holds[w]] = v]
  /\ stage' = [stage EXCEPT ![holds[w]] = "reporting"]
  /\ UNCHANGED <<life, running, ended, tasks, slots, inflight, body, holds, exited>>

(* Mutant: the entry is removed only for a handler that has returned.      *)
InflightKeptByAbandoned(n) == IF body[n] = "running" THEN inflight ELSE inflight \ {IdOf[n]}

InflightWithout(n) == inflight \ {IdOf[n]}

(* The terminal report has returned; removeInflight.                       *)
Leave(w) ==
  /\ holds[w] # NoTask
  /\ stage[holds[w]] = "reporting"
  /\ inflight' = InflightWithout(holds[w])
  /\ stage' = [stage EXCEPT ![holds[w]] = "leaving"]
  /\ UNCHANGED <<life, running, ended, tasks, slots, answer, body, holds, exited>>

(* Mutant: an abandoned task keeps its slot, as its handler still runs.    *)
SlotKeptByAbandoned(n) == IF body[n] = "running" THEN slots ELSE Released

SlotGivenBack(n) == Released

(* releaseSlot, and back to the channel.                                   *)
Release(w) ==
  /\ holds[w] # NoTask
  /\ stage[holds[w]] = "leaving"
  /\ slots' = SlotGivenBack(holds[w])
  /\ stage' = [stage EXCEPT ![holds[w]] = "done"]
  /\ holds' = [holds EXCEPT ![w] = NoTask]
  /\ UNCHANGED <<life, running, ended, tasks, inflight, answer, body, exited>>

(* An idle worker sees the context done.                                   *)
WorkerExit(w) ==
  /\ Idle(w)
  /\ ended
  /\ exited' = exited \cup {w}
  /\ UNCHANGED <<life, running, ended, tasks, slots, inflight, stage, answer, body, holds>>
-----------------------------------------------------------------------------
CallStep(n) == TakeSlot(n) \/ AcceptReported(n) \/ Push(n) \/ RefuseReported(n)

WorkerStep(w) == WorkerTake(w) \/ Finish(w) \/ Leave(w) \/ Release(w) \/ WorkerExit(w)

Next ==
  \/ Start \/ ContextEnds \/ Stop \/ StopCancel \/ StopReturn
  \/ \E n \in Submissions : Submit(n) \/ CallStep(n) \/ BodyReturn(n)
  \/ \E w \in Workers : WorkerStep(w)

(* Goroutines that can run do; reports and tasks have deadlines.  Nothing  *)
(* makes a handler return, a call be made or the agent shut down.          *)
Fairness ==
  /\ WF_vars(StopCancel) /\ WF_vars(StopReturn)
  /\ \A n \in Submissions : WF_vars(CallStep(n))
  /\ \A w \in Workers : WF_vars(WorkerStep(w))

Spec == Init /\ [][Next]_vars

FairSpec == Spec /\ Fairness
-----------------------------------------------------------------------------
TypeOK ==
  /\ life \in Lives
  /\ running \in BOOLEAN
  /\ ended \in BOOLEAN
  /\ tasks \in Seq(Submissions)
  /\ slots \in 0..Capacity
  /\ inflight \subseteq Ids
  /\ stage \in [Submissions -> Stages]
  /\ answer \in [Submissions -> Answers]
  /\ body \in [Submissions -> {"none", "running", "returned"}]
  /\ holds \in [Workers -> Submissions \cup {NoTask}]
  /\ exited \subseteq Workers

At(S) == {n \in Submissions : stage[n] \in S}

(* tasks lists exactly the submissions that wait in it, each once.         *)
TasksExact ==
  /\ \A i \in 1..Len(tasks) : stage[tasks[i]] = "queued"
  /\ \A i, j \in 1..Len(tasks) : tasks[i] = tasks[j] => i = j
  /\ \A n \in At({"queued"}) : \E i \in 1..Len(tasks) : tasks[i] = n

(* A submission past the channel and not done has exactly one worker.      *)
HoldsExact ==
  /\ \A w \in Workers : holds[w] # NoTask => stage[holds[w]] \in Working
  /\ \A w, v \in Workers : holds[w] # NoTask /\ holds[w] = holds[v] => w = v
  /\ \A n \in At(Working) : \E w \in Workers : holds[w] = n

(* Slots are neither leaked nor given back twice: as many are taken as     *)
(* there are submissions between TakeSlot and Release, whatever their      *)
(* order and whatever became of their handlers.  So Stats.Available, which *)
(* the agent asks the panel for, is the room the queue has.                *)
SlotsExact == slots = Cardinality(At(Holding))

(* The channel, the workers and the slots agree with each other at every   *)
(* step of every call.                                                     *)
Accounting == TasksExact /\ HoldsExact /\ SlotsExact

(* With one worker, or without repeated ids, inflight (the                 *)
(* ActiveCommandIds the agent tells the panel) is what the workers run.    *)
InflightExact ==
  (Cardinality(Workers) <= 1 \/ \A m, n \in Submissions : IdOf[m] = IdOf[n] => m = n) =>
    inflight = {IdOf[n] : n \in At({"running", "reporting"})}

(* A handler runs without a worker waiting for it only after its task was  *)
(* answered timeout or cancelled.                                          *)
OrphansAnswered ==
  \A n \in Submissions : body[n] = "running" =>
    stage[n] = "running" \/ answer[n] \in {"timeout", "cancelled"}

(* Whatever was accepted is answered while the agent does not shut down,   *)
(* handlers that hang notwithstanding.                                     *)
AcceptedAnswered ==
  \A n \in Submissions :
    stage[n] = "accepting" ~> (answer[n] # "none" \/ ended)

(* Stop returns, although handlers may hang and calls of Submit race it.   *)
StopReturns == life = "stopping" ~> life = "stopped"

(* A submission is open from its accepted report to its terminal one,      *)
(* which is the only one, and never queue_full: the queue keeps a ledger   *)
(* of what it has accepted.                                                *)
LedgerStage(n) == IF stage[n] \in {"new", "admitted", "refusing", "refused"} THEN "unborn"
                  ELSE IF answer[n] = "none" THEN "open" ELSE "decided"

LedgerOutcome(n) == IF LedgerStage(n) = "decided" THEN answer[n] ELSE "none"

Ledger == INSTANCE OperationLedger WITH
            Ops <- Submissions, Outcomes <- Verdicts, NoOutcome <- "none",
            stage <- [n \in Submissions |-> LedgerStage(n)],
            outcome <- [n \in Submissions |-> LedgerOutcome(n)]

ImplementsLedger == Ledger!LedgerSpec
=============================================================================
