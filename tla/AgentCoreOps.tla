---------------------------- MODULE AgentCoreOps ----------------------------
(***************************************************************************)
(* An agent's core operations (agent/service/core_operation.go): fetched   *)
(* one at a time from the panel's table, CoreOps, run as tasks of the      *)
(* agent's queue, CommandQueue, and reported by the task itself.           *)
(*                                                                         *)
(* The flag coreOperationSyncInFlight, the gate, is what keeps core        *)
(* operations apart: the sync loop takes it with a compare-and-swap before *)
(* it asks the panel, and it is given back by whichever comes to know that *)
(* nothing more will run -- the loop when there is nothing or the queue    *)
(* refuses, the handler when it returns.  The worker does not touch it, so *)
(* a handler it has abandoned still holds it.                              *)
(*                                                                         *)
(* Other tasks, which compete for the queue only, have ids in Others.      *)
(*                                                                         *)
(* Abstractions.  One host, its agent, one worker.  Submissions is a pool  *)
(* of calls; a finished call is put back.  A report carries its status;    *)
(* the operation log lines written on the way are left out.  A fetch that  *)
(* brings nothing gives the gate back at once and is no step.  The orderly *)
(* shutdown is CommandQueue's: here the agent only ever dies, after which  *)
(* the panel is told no less than by an agent whose contexts are done.     *)
(***************************************************************************)
EXTENDS Naturals, Sequences, FiniteSets

CONSTANTS MaxOps, Host, Handlers,
          Submissions, IdOf, Worker, NoTask, Capacity,
          Others,        \* ids of the other tasks of the queue
          Outcomes,      \* statuses an execution may end with
          MaxCrashes     \* bound: agent crashes

ASSUME CoreAssumption ==
  /\ MaxOps \in Nat /\ MaxCrashes \in Nat
  /\ IdOf \in [Submissions -> 1..MaxOps \cup Others]
  /\ Others \cap (1..MaxOps) = {}
  /\ NoTask \notin Submissions /\ "loop" \notin Submissions
  /\ Capacity \in Nat \ {0}
  /\ Outcomes \subseteq {"completed", "failed", "rolled_back"}

VARIABLES ops, created, handlers,
          life, running, ended, tasks, slots, inflight, stage, answer, body, holds, exited,
          gate,          \* coreOperationSyncInFlight
          loop,          \* where the sync loop is, with the fetched operation or the call
          act,           \* [Submissions -> Acts]: where the task's handler is
          outcome,       \* [Submissions -> status the execution ended with]
          crashes,
          decided        \* history: <<operation, status>> the agent ever decided

panelVars == <<ops, created, handlers>>
queueVars == <<life, running, ended, tasks, slots, inflight, stage, answer, body, holds, exited>>
agentVars == <<gate, loop, act, outcome, crashes, decided>>
vars == <<panelVars, queueVars, agentVars>>
-----------------------------------------------------------------------------
Ops == 1..MaxOps

Panel == INSTANCE CoreOps WITH HostOf <- [o \in Ops |-> Host]

Queue == INSTANCE CommandQueue WITH
           Ids <- Ops \cup Others, Unsupported <- {}, Workers <- {Worker}, Results <- {"success"}

Acts  == {"none", "executing", "reporting", "ending"}
Loops == [pc : {"idle"}] \cup [pc : {"submitting", "rejecting"}, op : Ops]
           \cup [pc : {"calling"}, call : Submissions]

LoopIdle == [pc |-> "idle"]

Init ==
  /\ Panel!Init
  /\ Queue!Init
  /\ gate = FALSE
  /\ loop = LoopIdle
  /\ act = [n \in Submissions |-> "none"]
  /\ outcome = [n \in Submissions |-> "none"]
  /\ crashes = 0
  /\ decided = {}

PanelAlone(A) == A /\ UNCHANGED <<queueVars, agentVars>>
QueueAlone(A) == A /\ UNCHANGED <<panelVars, agentVars>>
-----------------------------------------------------------------------------
(* syncCoreOperations: take the gate and fetch one operation.              *)
Fetch ==
  /\ loop = LoopIdle
  /\ life # "unstarted"
  /\ ~gate
  /\ \E o \in Ops : /\ Panel!ClaimNext(Host, o)
                    /\ loop' = [pc |-> "submitting", op |-> o]
  /\ gate' = TRUE
  /\ UNCHANGED <<queueVars, act, outcome, crashes, decided>>

(* A fetch whose response is lost, or a late attempt of one that was       *)
(* retried: the panel has claimed for nobody.                              *)
FetchLost ==
  /\ life # "unstarted"
  /\ \E o \in Ops : PanelAlone(Panel!ClaimNext(Host, o))

(* submitCoreOperation: SubmitWithHandler is called,                       *)
SubmitCore ==
  /\ loop.pc = "submitting"
  /\ \E n \in Submissions : /\ IdOf[n] = loop.op
                            /\ Queue!Submit(n)
                            /\ loop' = [pc |-> "calling", call |-> n]
  /\ UNCHANGED <<panelVars, gate, act, outcome, crashes, decided>>

(* returns without an error,                                               *)
Submitted ==
  /\ loop.pc = "calling"
  /\ stage[loop.call] \in {"queued", "done"} \cup Queue!Working
  /\ loop' = LoopIdle
  /\ UNCHANGED <<panelVars, queueVars, gate, act, outcome, crashes, decided>>

(* or with one: the gate is given back and the operation reported failed.  *)
Rejected ==
  /\ loop.pc = "calling"
  /\ stage[loop.call] = "refused"
  /\ gate' = FALSE
  /\ loop' = [pc |-> "rejecting", op |-> IdOf[loop.call]]
  /\ decided' = decided \cup {<<IdOf[loop.call], "failed">>}
  /\ UNCHANGED <<panelVars, queueVars, act, outcome, crashes>>

(* The report has returned, delivered or not.                              *)
RejectionReported ==
  /\ loop.pc = "rejecting"
  /\ loop' = LoopIdle
  /\ UNCHANGED <<panelVars, queueVars, gate, act, outcome, crashes, decided>>
-----------------------------------------------------------------------------
CoreCalls == {n \in Submissions : IdOf[n] \in Ops}

SubmitOther == \E n \in Submissions \ CoreCalls : QueueAlone(Queue!Submit(n))

Take ==
  /\ Queue!WorkerTake(Worker)
  /\ act' = [act EXCEPT ![Head(tasks)] = IF Head(tasks) \in CoreCalls THEN "executing" ELSE "none"]
  /\ UNCHANGED <<panelVars, gate, loop, outcome, crashes, decided>>

(* The worker has not given up on the task, whose context it ends by that. *)
ContextAlive(n) == stage[n] = "running"

(* executeCoreOperation returns.  The report that follows uses the task's  *)
(* context: when that is done, which the deadline may have brought about   *)
(* before the worker sees it, nothing is sent.                             *)
Execute(n) ==
  /\ act[n] = "executing"
  /\ \E v \in Outcomes : /\ outcome' = [outcome EXCEPT ![n] = v]
                         /\ decided' = decided \cup {<<IdOf[n], v>>}
  /\ \E next \in {"ending"} \cup (IF ContextAlive(n) THEN {"reporting"} ELSE {}) :
       act' = [act EXCEPT ![n] = next]
  /\ UNCHANGED <<panelVars, queueVars, gate, loop, crashes>>

(* It panics; the queue recovers, the panel hears nothing.                 *)
Panic(n) ==
  /\ act[n] = "executing"
  /\ act' = [act EXCEPT ![n] = "ending"]
  /\ UNCHANGED <<panelVars, queueVars, gate, loop, outcome, crashes, decided>>

(* The report has returned, delivered or not, and the handler returns; its *)
(* deferred endCoreOperationSync gives the gate back.                      *)
Return(n) ==
  /\ act[n] \in {"reporting", "ending"}
  /\ Queue!BodyReturn(n)
  /\ act' = [act EXCEPT ![n] = "none"]
  /\ gate' = FALSE
  /\ UNCHANGED <<panelVars, loop, outcome, crashes, decided>>

(* Mutant: the gate is given back with the terminal report of the task.    *)
GateAfterVerdictFreed == FALSE

(* The verdict of the worker, a timeout or the end of the context among    *)
(* them, leaves the gate alone.                                            *)
GateAfterVerdict == gate

Decide ==
  /\ Queue!Finish(Worker)
  /\ gate' = GateAfterVerdict
  /\ UNCHANGED <<panelVars, loop, act, outcome, crashes, decided>>

(* Mutant: whatever the execution ended with, it is reported as completed. *)
ReportedCompleted(n) == "completed"

Reported(n) == outcome[n]

(* ReportCoreOperation reaches the panel, once or again.                   *)
Deliver(o) ==
  /\ \E h \in Handlers :
       \/ loop.pc = "rejecting" /\ loop.op = o /\ Panel!ReportFind(h, Host, o, "failed")
       \/ \E n \in Submissions : /\ IdOf[n] = o /\ act[n] = "reporting"
                                 /\ Panel!ReportFind(h, Host, o, Reported(n))
  /\ UNCHANGED <<queueVars, agentVars>>
-----------------------------------------------------------------------------
(* A finished call whose handler has returned is put back into the pool.   *)
Recycle(n) ==
  /\ stage[n] \in {"done", "refused"}
  /\ body[n] # "running"
  /\ loop.pc = "calling" => loop.call # n
  /\ stage' = [stage EXCEPT ![n] = "new"]
  /\ answer' = [answer EXCEPT ![n] = "none"]
  /\ body' = [body EXCEPT ![n] = "none"]
  /\ outcome' = [outcome EXCEPT ![n] = "none"]
  /\ UNCHANGED <<panelVars, life, running, ended, tasks, slots, inflight, holds, exited,
                 gate, loop, act, crashes, decided>>

(* The agent process dies with everything it had, and is started again.    *)
Crash ==
  /\ crashes < MaxCrashes
  /\ crashes' = crashes + 1
  /\ life' = "unstarted" /\ running' = FALSE /\ ended' = FALSE
  /\ tasks' = <<>> /\ slots' = 0 /\ inflight' = {}
  /\ stage' = [n \in Submissions |-> "new"]
  /\ answer' = [n \in Submissions |-> "none"]
  /\ body' = [n \in Submissions |-> "none"]
  /\ holds' = [w \in {Worker} |-> NoTask]
  /\ exited' = {}
  /\ gate' = FALSE
  /\ loop' = LoopIdle
  /\ act' = [n \in Submissions |-> "none"]
  /\ outcome' = [n \in Submissions |-> "none"]
  /\ UNCHANGED <<panelVars, decided>>
-----------------------------------------------------------------------------
QueueStep ==
  \/ Take \/ Decide
  \/ QueueAlone(Queue!Leave(Worker))
  \/ QueueAlone(Queue!Release(Worker))

LoopStep == SubmitCore \/ Submitted \/ Rejected \/ RejectionReported

ReturnOther(n) == n \notin CoreCalls /\ QueueAlone(Queue!BodyReturn(n))

HandlerStep(n) == Execute(n) \/ Panic(n) \/ Return(n)

Next ==
  \/ PanelAlone(Panel!Create)
  \/ \E o \in Ops : PanelAlone(Panel!LeaseExpire(o)) \/ Deliver(o)
  \/ \E h \in Handlers : PanelAlone(Panel!ReportUpdate(h)) \/ PanelAlone(Panel!ReportUpdateFails(h))
  \/ QueueAlone(Queue!Start)
  \/ Fetch \/ FetchLost \/ LoopStep \/ SubmitOther
  \/ \E n \in Submissions : QueueAlone(Queue!CallStep(n)) \/ Recycle(n)
                            \/ HandlerStep(n) \/ ReturnOther(n)
  \/ QueueStep
  \/ Crash

Spec == Init /\ [][Next]_vars

(* The agent is started again and syncs; goroutines that can run do;       *)
(* leases run out; a fetch gets its response again and again; an execution *)
(* whose context is done returns in the end.                               *)
Fairness ==
  /\ WF_vars(QueueAlone(Queue!Start))
  /\ SF_vars(Fetch)
  /\ WF_vars(LoopStep)
  /\ \A n \in Submissions : /\ WF_vars(QueueAlone(Queue!CallStep(n)))
                            /\ WF_vars(HandlerStep(n))
                            /\ WF_vars(Recycle(n))
  /\ WF_vars(QueueStep)
  /\ \A o \in Ops : WF_vars(PanelAlone(Panel!LeaseExpire(o)))

FairSpec == Spec /\ Fairness

(* The same, and a network and a database that let every report that is    *)
(* sent again and again through.                                           *)
ReliableSpec ==
  /\ FairSpec
  /\ \A o \in Ops : SF_vars(Deliver(o))
  /\ \A h \in Handlers : SF_vars(PanelAlone(Panel!ReportUpdate(h)))
-----------------------------------------------------------------------------
TypeOK ==
  /\ Panel!TypeOK
  /\ Queue!TypeOK
  /\ gate \in BOOLEAN
  /\ loop \in Loops
  /\ act \in [Submissions -> Acts]
  /\ outcome \in [Submissions -> {"none"} \cup Outcomes]
  /\ crashes \in 0..MaxCrashes
  /\ decided \subseteq Ops \X (Outcomes \cup {"failed"})

(* Who the gate is held for: the loop until the queue has taken the task   *)
(* or the refusal is dealt with, a task that waits, a handler that runs.   *)
Owners ==
  (IF loop.pc = "submitting" THEN {"loop"} ELSE {})
  \cup {n \in CoreCalls :   \/ loop.pc = "calling" /\ loop.call = n
                               /\ stage[n] \in {"admitted", "accepting", "pushing", "refusing", "refused"}
                            \/ stage[n] = "queued"
                            \/ body[n] = "running"}

(* The gate neither leaks nor is given back early: it is held exactly      *)
(* while there is a core operation in the agent's hands, and there is one  *)
(* at most.  So no two core operations ever run at a time, timeouts of the *)
(* queue, refusals, panics and lost reports notwithstanding.               *)
GateExact == Cardinality(Owners) = IF gate THEN 1 ELSE 0

(* The panel shows a core operation as ended only with a status the agent  *)
(* has decided for it, in this or an earlier incarnation.                  *)
CoreEndsEarned ==
  \A o \in Ops : ops[o].status \in Panel!Terminal => <<o, ops[o].status>> \in decided

(* An operation that has ended is not offered or worked on as open again,  *)
(* although reports are written by id alone and long after they were       *)
(* checked.  (Its status may still change to that of a rival report.)      *)
NeverReopened ==
  [][\A o \in Ops : ops[o].status \in Panel!Terminal => ops'[o].status \in Panel!Terminal]_vars

(* A claim whose response is lost is recovered by the lease, as the        *)
(* comment in GetCoreOperations has it: every operation that is open comes *)
(* to be executed or refused by the agent's queue, if it does not end.     *)
Attempted(o) == \/ \E n \in Submissions : IdOf[n] = o /\ act[n] = "executing"
                \/ loop.pc = "rejecting" /\ loop.op = o

ClaimRecovered ==
  \A o \in Ops : ops[o].status \in Panel!Active ~>
                   Attempted(o) \/ ops[o].status \in Panel!Terminal
=============================================================================
