---------------------------- MODULE AgentCommands ----------------------------
(***************************************************************************)
(* An agent's command loop (agent/service/agent_command.go) between the    *)
(* panel's operations table, LifecycleOps, and its own queue,              *)
(* CommandQueue, over RPCs that may be lost, repeated by the client's      *)
(* retries, or finish at the panel after the agent has given up on them.   *)
(*                                                                         *)
(* syncAgentCommands asks for as many commands as the queue has room for   *)
(* and submits them one after the other; the queue reports what becomes of *)
(* them through the same connection.  A report RPC is in flight while the  *)
(* queue is at a reporting stage; each time the panel receives it a        *)
(* request of LifecycleOps begins, no time, once or more often.  Besides   *)
(* commands the queue runs the agent's internal tasks (core operations,    *)
(* configuration applies), which report nothing here.                      *)
(*                                                                         *)
(* Abstractions.  One host and its agent; the rows are not purged (they    *)
(* are kept for days).  Submissions is a pool of calls for each command,   *)
(* and a finished call is put back to be used again.                       *)
(***************************************************************************)
EXTENDS Naturals, Sequences, FiniteSets, SequencesExt

CONSTANTS MaxOps, Host, WorkerId, NoWorker, Type, Result, Handlers,
          PollLimit,     \* agentCommandPollLimit
          Submissions, IdOf, Worker, NoTask, Capacity,
          Internal,      \* ids of internal tasks
          HandlerResults,  \* statuses handlers return: success, failed
          MaxCrashes,    \* bound: agent crashes
          MayStop        \* whether the agent may also shut down in order

ASSUME CommandsAssumption ==
  /\ MaxOps \in Nat /\ MaxCrashes \in Nat
  /\ PollLimit \in Nat \ {0} /\ Capacity \in Nat \ {0}
  /\ NoWorker # WorkerId
  /\ IsFiniteSet(Submissions) /\ NoTask \notin Submissions
  /\ IdOf \in [Submissions -> 1..MaxOps \cup Internal]
  /\ Internal \cap (1..MaxOps) = {}
  /\ HandlerResults \subseteq {"success", "failed"}
  /\ MayStop \in BOOLEAN

VARIABLES ops, created, handlers, resultLog,
          life, running, ended, tasks, slots, inflight, stage, answer, body, holds, exited,
          inbox,         \* commands of the last response still to be submitted
          orphans,       \* ids with an abandoned handler whose call was put back
          crashes,
          ran,           \* history: operations whose handler ever ran
          answered       \* history: <<operation, status>> the agent ever decided

panelVars == <<ops, created, handlers, resultLog>>
queueVars == <<life, running, ended, tasks, slots, inflight, stage, answer, body, holds, exited>>
vars == <<panelVars, queueVars, inbox, orphans, crashes, ran, answered>>
-----------------------------------------------------------------------------
Ops == 1..MaxOps

Event(event, status) ==
  [event |-> event, status |-> status, terminal |-> event = "result", result |-> Result]

Queue == INSTANCE CommandQueue WITH
           Ids <- Ops \cup Internal, Unsupported <- {}, Workers <- {Worker},
           Results <- HandlerResults

(* What the queue reports of a command: its acceptance, the progress of    *)
(* its handler, its end.                                                   *)
Events == {Event("accepted", "claimed"), Event("progress", "")}
          \cup {Event("result", status) : status \in Queue!Answers}

Panel == INSTANCE LifecycleOps WITH
           Hosts <- {Host}, WorkerIds <- {WorkerId},
           HostOf <- [o \in Ops |-> Host],
           Types <- {Type}, TypeOf <- [o \in Ops |-> Type],
           Results <- {Result}, EmptyResult <- Result,
           MaxClaim <- PollLimit

Init ==
  /\ Panel!Init
  /\ Queue!Init
  /\ inbox = <<>>
  /\ orphans = {}
  /\ crashes = 0
  /\ ran = {}
  /\ answered = {}
-----------------------------------------------------------------------------
(* The call the sync loop waits for; the other submissions are internal.   *)
InCall == {"admitted", "accepting", "pushing", "refusing"}

LoopFree ==
  /\ life # "unstarted"
  /\ \A n \in Submissions : IdOf[n] \in Ops => stage[n] \notin InCall

(* A poll needs a context that is not done; the rest of a response is      *)
(* submitted even if it is.                                                *)
MayPoll == LoopFree /\ ~ended /\ inbox = <<>>

(* Mutant: no look at the room the queue has.                              *)
RoomAlways == PollLimit

Room == LET available == Capacity - slots
        IN  IF available < PollLimit THEN available ELSE PollLimit

Response == Panel!OldestOf(Panel!Claimable(Host, {Type}), Room)

(* A response lists its commands from the oldest to the newest.            *)
InOrder(S) ==
  {list \in SetToSeqs(S) : \A i, j \in DOMAIN list : i < j => list[i] < list[j]}

(* syncAgentCommands: read the room, claim, receive the response.          *)
Poll ==
  /\ MayPoll
  /\ Room > 0
  /\ Panel!ClaimNext(Host, WorkerId, {Type}, Room)
  /\ inbox' \in InOrder(Response)
  /\ UNCHANGED <<queueVars, orphans, crashes, ran, answered>>

(* The same with the response lost: the panel has claimed for nobody.      *)
PollLost ==
  /\ MayPoll
  /\ Room > 0
  /\ Panel!ClaimNext(Host, WorkerId, {Type}, Room)
  /\ UNCHANGED <<queueVars, inbox, orphans, crashes, ran, answered>>

(* The loop submits the next command of the response.                      *)
SubmitNext ==
  /\ LoopFree /\ inbox # <<>>
  /\ \E n \in Submissions : IdOf[n] = Head(inbox) /\ Queue!Submit(n)
  /\ inbox' = Tail(inbox)
  /\ UNCHANGED <<panelVars, orphans, crashes, ran, answered>>

SubmitInternal ==
  /\ \E n \in Submissions : IdOf[n] \in Internal /\ Queue!Submit(n)
  /\ UNCHANGED <<panelVars, inbox, orphans, crashes, ran, answered>>
-----------------------------------------------------------------------------
(* Mutant: a command is reported as in progress once it is accepted.       *)
AcceptedRunning == "in_progress"

(* The status an accepted report carries.                                  *)
AcceptedStatus == "claimed"

(* What the agent is reporting about o at this moment: the accepted report *)
(* of a call, the progress of a running handler, abandoned or not, and the *)
(* terminal report of a refusal or a worker.                               *)
Calls(o, stages) == {n \in Submissions : IdOf[n] = o /\ stage[n] \in stages}

Reports(o) ==
  {Event("accepted", AcceptedStatus) : n \in Calls(o, {"accepting"})}
  \cup {Event("progress", "") : n \in {m \in Calls(o, Queue!Stages) : body[m] = "running" \/ o \in orphans}}
  \cup {Event("result", answer[n]) : n \in Calls(o, {"refusing", "reporting"})}

(* The panel serves any number of requests at a time; so that the bound on *)
(* them cannot keep a terminal report out, the last one is left to those.  *)
Deliver(o) ==
  /\ \E h \in Handlers, ev \in Reports(o) :
       /\ ev.terminal \/ \E g \in Handlers \ {h} : handlers[g].pc = "idle"
       /\ Panel!ReportFind(h, Host, o, WorkerId, ev)
  /\ UNCHANGED <<queueVars, inbox, orphans, crashes, ran, answered>>

(* The part of Deliver whose repeated chances NotForgotten needs.          *)
DeliverEnd(o) ==
  /\ \E h \in Handlers, ev \in {e \in Reports(o) : e.terminal} :
       Panel!ReportFind(h, Host, o, WorkerId, ev)
  /\ UNCHANGED <<queueVars, inbox, orphans, crashes, ran, answered>>

PanelAlone(A) == A /\ UNCHANGED <<queueVars, inbox, orphans, crashes, ran, answered>>
QueueAlone(A) == A /\ UNCHANGED <<panelVars, inbox, orphans, crashes>>

(* The part of ReportUpdate that NotForgotten needs.                       *)
UpdateEnd(h) == handlers[h].next \in Panel!Terminal /\ PanelAlone(Panel!ReportUpdate(h))

Unobserved == UNCHANGED <<ran, answered>>

(* The history of decisions takes in what a step has decided for n.        *)
Answered(n) ==
  answered' = IF IdOf[n] \in Ops /\ answer'[n] # answer[n]
              THEN answered \cup {<<IdOf[n], answer'[n]>>}
              ELSE answered

(* A step of the queue, and what it adds to the history.                   *)
Take   == /\ QueueAlone(Queue!WorkerTake(Worker))
          /\ ran' = ran \cup ({IdOf[Head(tasks)]} \cap Ops)
          /\ UNCHANGED answered
Decide == /\ QueueAlone(Queue!Finish(Worker))
          /\ Answered(holds[Worker])
          /\ UNCHANGED ran
CallStep(n) == /\ QueueAlone(Queue!CallStep(n))
               /\ Answered(n)
               /\ UNCHANGED ran
QueueStep ==
  \/ Take \/ Decide
  \/ QueueAlone(Queue!Leave(Worker)) /\ Unobserved
  \/ QueueAlone(Queue!Release(Worker)) /\ Unobserved
  \/ QueueAlone(Queue!WorkerExit(Worker)) /\ Unobserved

(* The main loop syncs and, once the context is done, stops the queue: no  *)
(* submission of its own races Stop.                                       *)
Shutdown ==
  /\ MayStop
  /\ QueueAlone(\/ Queue!ContextEnds
                \/ ended /\ LoopFree /\ inbox = <<>> /\ Queue!Stop
                \/ Queue!StopCancel \/ Queue!StopReturn)
  /\ Unobserved

(* A finished call is put back into the pool of calls.                     *)
Recycle(n) ==
  /\ stage[n] \in {"done", "refused"}
  /\ stage' = [stage EXCEPT ![n] = "new"]
  /\ answer' = [answer EXCEPT ![n] = "none"]
  /\ body' = [body EXCEPT ![n] = "none"]
  /\ orphans' = IF body[n] = "running" THEN orphans \cup {IdOf[n]} ELSE orphans
  /\ UNCHANGED <<panelVars, life, running, ended, tasks, slots, inflight, holds, exited,
                 inbox, crashes, ran, answered>>

(* The agent process dies with everything it had, and is started again.    *)
(* What the panel is doing for it goes on.                                 *)
Crash ==
  /\ crashes < MaxCrashes
  /\ crashes' = crashes + 1
  /\ life' = "unstarted" /\ running' = FALSE /\ ended' = FALSE
  /\ tasks' = <<>> /\ slots' = 0 /\ inflight' = {}
  /\ stage' = [n \in Submissions |-> "new"]
  /\ answer' = [n \in Submissions |-> "none"]
  /\ body' = [n \in Submissions |-> "none"]
  /\ holds' = [w \in {Worker} |-> NoTask]
  /\ exited' = {}
  /\ inbox' = <<>>
  /\ orphans' = {}
  /\ UNCHANGED <<panelVars, ran, answered>>
-----------------------------------------------------------------------------
Next ==
  \/ PanelAlone(Panel!Create)
  \/ \E o \in Ops : PanelAlone(Panel!LeaseExpire(o)) \/ Deliver(o)
  \/ \E h \in Handlers : \/ PanelAlone(Panel!ReportUpdate(h))
                         \/ PanelAlone(Panel!ReportUpdateFails(h))
                         \/ PanelAlone(Panel!ReportLog(h))
  \/ QueueAlone(Queue!Start) /\ Unobserved
  \/ Poll \/ PollLost \/ SubmitNext \/ SubmitInternal
  \/ \E n \in Submissions : CallStep(n) \/ Recycle(n) \/ (QueueAlone(Queue!BodyReturn(n)) /\ Unobserved)
  \/ QueueStep
  \/ Shutdown
  \/ Crash

Spec == Init /\ [][Next]_vars

(* The agent is started again and polls; goroutines that can run do; the   *)
(* panel serves its requests and its database recovers; the network is up  *)
(* again and again, for polls and for terminal reports.  Handlers may hang *)
(* and progress may never arrive.                                          *)
Fairness ==
  /\ WF_vars(QueueAlone(Queue!Start) /\ Unobserved)
  /\ SF_vars(Poll)
  /\ WF_vars(SubmitNext)
  /\ \A n \in Submissions : WF_vars(CallStep(n)) /\ WF_vars(Recycle(n))
  /\ WF_vars(QueueStep)
  /\ \A o \in Ops : WF_vars(PanelAlone(Panel!LeaseExpire(o))) /\ SF_vars(DeliverEnd(o))
  /\ \A h \in Handlers : /\ SF_vars(UpdateEnd(h))
                         /\ WF_vars(PanelAlone(Panel!ReportUpdate(h) \/ Panel!ReportUpdateFails(h)))
                         /\ WF_vars(PanelAlone(Panel!ReportLog(h)))

FairSpec == Spec /\ Fairness
-----------------------------------------------------------------------------
TypeOK ==
  /\ Panel!TypeOK
  /\ Queue!TypeOK
  /\ inbox \in Seq(Ops)
  /\ orphans \subseteq Ops \cup Internal
  /\ crashes \in 0..MaxCrashes
  /\ ran \subseteq Ops
  /\ answered \subseteq Ops \X Queue!Answers

(* Whatever is lost, repeated or late, and whichever incarnation of the    *)
(* agent sent it: the panel shows an operation as ended only with a status *)
(* the agent decided for it, and as begun or with a result of its handler  *)
(* only when the handler did run.                                          *)
EndsEarned ==
  \A o \in Ops :
    /\ ops[o].status \in Panel!Terminal => <<o, ops[o].status>> \in answered
    /\ ops[o].status \in {"in_progress"} \cup HandlerResults => o \in ran

(* A command is in the agent's hands twice at a time only by way of an     *)
(* expired lease: no response is given a command that the agent has and    *)
(* whose claim still stands.                                               *)
Live(o) == o \in ToSet(inbox) \/ Calls(o, InCall \cup Queue!Holding) # {}

RedeliveredLate ==
  [][\A o \in Ops : Live(o) /\ o \in ToSet(inbox') /\ o \notin ToSet(inbox) =>
       ops[o].status = "claimed" /\ ops[o].lease = "expired"]_vars

(* The room the loop has read stays enough for the commands it then gets,  *)
(* whatever happens between the two: they and the commands already in the  *)
(* queue fit into it, so only internal tasks can get one refused.          *)
RoomKept ==
  Len(inbox) + Cardinality({n \in Submissions : /\ IdOf[n] \in Ops
                                                /\ stage[n] \in {"admitted"} \cup Queue!Holding})
    <= Capacity

(* No operation is forgotten between panel and agent: it is begun or ended *)
(* eventually, although responses and reports are lost and the agent dies  *)
(* holding commands.                                                       *)
NotForgotten ==
  \A o \in Ops : ops[o].status \in {"pending", "claimed"} ~>
                   ops[o].status \notin {"pending", "claimed"}
=============================================================================
