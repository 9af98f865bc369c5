------------------------ MODULE CommandQueue_proofs ------------------------
(***************************************************************************)
(* Proofs about the command queue, for any number of calls, workers and    *)
(* repeated ids and any capacity.                                          *)
(*                                                                         *)
(* Shape says where every submission is: which are in the channel, which   *)
(* have a worker, which are answered.  Counts ties the two lengths the     *)
(* code consults to how many submissions are where.  Counts alone is not   *)
(* inductive: a worker that took a task not queued, or released one twice, *)
(* would break it, and Shape says that cannot happen.  From both together  *)
(* follows that the channel has room for every submission with a slot.     *)
(***************************************************************************)
EXTENDS CommandQueue, FiniteSetTheorems, TLAPS

(* When a submission is answered, and with what.                           *)
AnswerExact ==
  \A n \in Submissions :
    /\ stage[n] \in {"new", "admitted", "accepting", "pushing", "queued", "running"} =>
         answer[n] = "none"
    /\ stage[n] \in {"reporting", "leaving", "done"} => answer[n] \in Verdicts

Shape == TypeOK /\ TasksExact /\ HoldsExact /\ AnswerExact /\ OrphansAnswered

LenExact == Len(tasks) = Cardinality(At({"queued"}))

Counts == SlotsExact /\ LenExact

IndInv == Shape /\ Counts
-----------------------------------------------------------------------------
(* Counting the submissions at some stages as one of them moves.           *)
LEMMA AtFinite ==
  ASSUME NEW S PROVE IsFiniteSet(At(S)) /\ Cardinality(At(S)) \in Nat
<1>1. IsFiniteSet(At(S))
  BY QueueAssumption, FS_Subset DEF At
<1> QED
  BY <1>1, FS_CardinalityType

(* The submission n moves to stage s and the others stay.                  *)
Moves(n, s) ==
  /\ n \in Submissions
  /\ stage' = [stage EXCEPT ![n] = s]

LEMMA MoveIn ==
  ASSUME TypeOK, NEW S, NEW n, NEW s, Moves(n, s), stage[n] \notin S, s \in S
  PROVE  Cardinality(At(S)') = Cardinality(At(S)) + 1
<1>1. At(S)' = At(S) \cup {n} /\ n \notin At(S)
  BY DEF At, Moves, TypeOK
<1> QED
  BY <1>1, AtFinite, FS_AddElement

LEMMA MoveOut ==
  ASSUME TypeOK, NEW S, NEW n, NEW s, Moves(n, s), stage[n] \in S, s \notin S
  PROVE  Cardinality(At(S)') = Cardinality(At(S)) - 1
<1>1. At(S)' = At(S) \ {n} /\ n \in At(S)
  BY DEF At, Moves, TypeOK
<1> QED
  BY <1>1, AtFinite, FS_RemoveElement

LEMMA MoveWithin ==
  ASSUME TypeOK, NEW S, NEW n, NEW s, Moves(n, s), stage[n] \in S <=> s \in S
  PROVE  At(S)' = At(S)
  BY DEF At, Moves, TypeOK

(* A submission about to be pushed finds room: its slot is not the slot of *)
(* anything that is in the channel.                                        *)
LEMMA PushFits ==
  ASSUME IndInv, NEW n \in Submissions, stage[n] = "pushing"
  PROVE  Len(tasks) < Capacity
<1>1. At({"queued"}) \cup {n} \subseteq At(Holding) /\ n \notin At({"queued"})
  BY DEF At, Holding
<1>2. Cardinality(At({"queued"}) \cup {n}) = Cardinality(At({"queued"})) + 1
  BY <1>1, AtFinite, FS_AddElement
<1>3. Cardinality(At({"queued"}) \cup {n}) <= Cardinality(At(Holding))
  BY <1>1, AtFinite, FS_Subset
<1> QED
  BY <1>2, <1>3, AtFinite, QueueAssumption
     DEF IndInv, Shape, Counts, SlotsExact, LenExact, TypeOK
-----------------------------------------------------------------------------
LEMMA InitInd == Init => IndInv
<1> SUFFICES ASSUME Init PROVE IndInv
  OBVIOUS
<1>1. TypeOK
  <2>1. tasks \in Seq(Submissions) /\ slots \in 0..Capacity
    BY QueueAssumption DEF Init
  <2>2. stage \in [Submissions -> Stages] /\ answer \in [Submissions -> Answers]
    BY DEF Init, Stages, Answers
  <2> QED
    BY <2>1, <2>2 DEF Init, TypeOK, Lives
<1>2. TasksExact /\ HoldsExact /\ AnswerExact /\ OrphansAnswered
  BY DEF Init, TasksExact, HoldsExact, AnswerExact, OrphansAnswered, At, Working
<1>3. At(Holding) = {} /\ At({"queued"}) = {}
  BY DEF Init, At, Holding, Working
<1> QED
  BY <1>1, <1>2, <1>3, FS_EmptySet DEF IndInv, Shape, Counts, SlotsExact, LenExact, Init

(* A move that neither enters nor leaves the channel, or the workers.      *)
LEMMA TasksFrame ==
  ASSUME TypeOK, TasksExact, NEW n, NEW s, Moves(n, s),
         stage[n] # "queued", s # "queued", UNCHANGED tasks
  PROVE  TasksExact'
<1>1. At({"queued"})' = At({"queued"})
  BY MoveWithin
<1>2. \A i \in 1..Len(tasks) : tasks[i] \in Submissions /\ stage'[tasks[i]] = "queued"
  <2> TAKE i \in 1..Len(tasks)
  <2>1. tasks[i] \in Submissions /\ stage[tasks[i]] = "queued"
    BY DEF TypeOK, TasksExact
  <2> QED
    BY <2>1 DEF Moves, TypeOK
<1> QED
  BY <1>1, <1>2 DEF TasksExact

LEMMA HoldsFrame ==
  ASSUME TypeOK, HoldsExact, NEW n, NEW s, Moves(n, s),
         stage[n] \in Working <=> s \in Working, UNCHANGED holds
  PROVE  HoldsExact'
<1>1. At(Working)' = At(Working)
  BY MoveWithin
<1>2. \A w \in Workers : holds[w] # NoTask => stage'[holds[w]] \in Working
  <2> TAKE w \in Workers
  <2>1. holds[w] # NoTask => holds[w] \in Submissions /\ stage[holds[w]] \in Working
    BY DEF TypeOK, HoldsExact
  <2> QED
    BY <2>1 DEF Moves, TypeOK
<1> QED
  BY <1>1, <1>2 DEF HoldsExact, Working

(* A move keeps the answers exact when it answers nobody else and leaves n *)
(* answered exactly when it is past its run.                               *)
LEMMA AnswerFrame ==
  ASSUME Shape, NEW n, NEW s, Moves(n, s),
         \A m \in Submissions \ {n} : answer'[m] = answer[m],
         s \in {"new", "admitted", "accepting", "pushing", "queued", "running"} => answer'[n] = "none",
         s \in {"reporting", "leaving", "done"} => answer'[n] \in Verdicts,
         body'[n] = "running" => s = "running" \/ answer'[n] \in {"timeout", "cancelled"},
         \A m \in Submissions \ {n} : body'[m] = body[m]
  PROVE  AnswerExact' /\ OrphansAnswered'
<1>1. \A m \in Submissions : stage'[m] = IF m = n THEN s ELSE stage[m]
  BY DEF Moves, Shape, TypeOK
<1>2. AnswerExact'
  BY <1>1 DEF Shape, AnswerExact
<1>3. OrphansAnswered'
  BY <1>1 DEF Shape, OrphansAnswered
<1> QED
  BY <1>2, <1>3

(* A handler runs only while its task does or after it was answered, so no *)
(* call on its way to the channel has one.                                 *)
LEMMA NoBodyYet ==
  ASSUME Shape, NEW n \in Submissions,
         stage[n] \in {"new", "admitted", "accepting", "pushing", "queued"}
  PROVE  body[n] # "running" /\ answer[n] = "none"
  BY DEF Shape, OrphansAnswered, AnswerExact

LEMMA SubmitInd == ASSUME NEW n \in Submissions PROVE IndInv /\ Submit(n) => IndInv'
<1> SUFFICES ASSUME IndInv, Submit(n) PROVE IndInv'
  OBVIOUS
<1>1. PICK s \in {"admitted", "refusing", "refused"} : Moves(n, s)
  BY DEF Submit, Moves
<1>2. /\ stage[n] = "new"
      /\ UNCHANGED <<life, running, ended, tasks, slots, inflight, body, holds, exited>>
      /\ answer' = answer \/ (s = "refusing" /\ answer' = [answer EXCEPT ![n] = "unsupported_action"])
  BY <1>1 DEF Submit, Moves, IndInv, Shape, TypeOK
<1>3. TypeOK'
  <2>1. stage' \in [Submissions -> Stages] /\ answer' \in [Submissions -> Answers]
    BY <1>1, <1>2 DEF Moves, IndInv, Shape, TypeOK, Stages, Answers
  <2> QED
    BY <2>1, <1>2 DEF IndInv, Shape, TypeOK
<1>4. TasksExact' /\ HoldsExact'
  BY <1>1, <1>2, TasksFrame, HoldsFrame DEF IndInv, Shape, Working
<1>5. AnswerExact' /\ OrphansAnswered'
  <2>1. body'[n] # "running" /\ answer[n] = "none"
    BY <1>2, NoBodyYet DEF IndInv
  <2>2. \A m \in Submissions \ {n} : answer'[m] = answer[m]
    BY <1>2 DEF IndInv, Shape, TypeOK
  <2> QED
    BY <2>1, <2>2, <1>1, <1>2, AnswerFrame DEF IndInv
<1>6. At(Holding)' = At(Holding) /\ At({"queued"})' = At({"queued"})
  BY <1>1, <1>2, MoveWithin DEF IndInv, Shape, Holding, Working
<1> QED
  BY <1>2, <1>3, <1>4, <1>5, <1>6 DEF IndInv, Shape, Counts, SlotsExact, LenExact

LEMMA TakeSlotInd == ASSUME NEW n \in Submissions PROVE IndInv /\ TakeSlot(n) => IndInv'
<1> SUFFICES ASSUME IndInv, TakeSlot(n) PROVE IndInv'
  OBVIOUS
<1>1. /\ stage[n] = "admitted" /\ n \in Submissions
      /\ UNCHANGED <<life, running, ended, tasks, inflight, body, holds, exited>>
      /\ body[n] # "running" /\ answer[n] = "none"
  BY NoBodyYet DEF TakeSlot, IndInv
<1>2. CASE SlotFree /\ slots' = slots + 1 /\ Moves(n, "accepting") /\ answer' = answer
  <2>1. TypeOK'
    <3>1. stage' \in [Submissions -> Stages]
      BY <1>2 DEF Moves, IndInv, Shape, TypeOK, Stages, Holding
    <3>2. slots' \in 0..Capacity
      BY <1>2, QueueAssumption DEF SlotFree, IndInv, Shape, TypeOK
    <3> QED
      BY <3>1, <3>2, <1>1, <1>2 DEF IndInv, Shape, TypeOK
  <2>2. TasksExact' /\ HoldsExact'
    BY <1>1, <1>2, TasksFrame, HoldsFrame DEF IndInv, Shape, Working
  <2>3. AnswerExact' /\ OrphansAnswered'
    BY <1>1, <1>2, AnswerFrame DEF IndInv
  <2>4. At({"queued"})' = At({"queued"})
    BY <1>1, <1>2, MoveWithin DEF IndInv, Shape
  <2>5. Cardinality(At(Holding)') = Cardinality(At(Holding)) + 1
    BY <1>1, <1>2, MoveIn DEF IndInv, Shape, Holding, Working
  <2> QED
    BY <1>1, <1>2, <2>1, <2>2, <2>3, <2>4, <2>5
       DEF IndInv, Shape, Counts, SlotsExact, LenExact
<1>3. CASE Moves(n, "refusing") /\ answer' = [answer EXCEPT ![n] = "queue_full"] /\ slots' = slots
  <2>1. TypeOK'
    <3>1. stage' \in [Submissions -> Stages] /\ answer' \in [Submissions -> Answers]
      BY <1>3 DEF Moves, IndInv, Shape, TypeOK, Stages, Answers
    <3> QED
      BY <3>1, <1>1, <1>3 DEF IndInv, Shape, TypeOK
  <2>2. TasksExact' /\ HoldsExact'
    BY <1>1, <1>3, TasksFrame, HoldsFrame DEF IndInv, Shape, Working
  <2>3. AnswerExact' /\ OrphansAnswered'
    BY <1>1, <1>3, AnswerFrame DEF IndInv, Shape, TypeOK
  <2>4. At({"queued"})' = At({"queued"}) /\ At(Holding)' = At(Holding)
    BY <1>1, <1>3, MoveWithin DEF IndInv, Shape, Holding, Working
  <2> QED
    BY <1>1, <1>3, <2>1, <2>2, <2>3, <2>4 DEF IndInv, Shape, Counts, SlotsExact, LenExact
<1> QED
  BY <1>2, <1>3 DEF TakeSlot, Moves

LEMMA AcceptInd == ASSUME NEW n \in Submissions PROVE IndInv /\ AcceptReported(n) => IndInv'
<1> SUFFICES ASSUME IndInv, AcceptReported(n) PROVE IndInv'
  OBVIOUS
<1>1. /\ stage[n] = "accepting" /\ Moves(n, "pushing")
      /\ UNCHANGED <<life, running, ended, tasks, slots, inflight, answer, body, holds, exited>>
      /\ body[n] # "running" /\ answer[n] = "none"
  BY NoBodyYet DEF AcceptReported, Moves, IndInv
<1>2. TypeOK'
  <2>1. stage' \in [Submissions -> Stages]
    BY <1>1 DEF Moves, IndInv, Shape, TypeOK, Stages, Holding
  <2> QED
    BY <2>1, <1>1 DEF IndInv, Shape, TypeOK
<1>3. TasksExact' /\ HoldsExact'
  BY <1>1, TasksFrame, HoldsFrame DEF IndInv, Shape, Working
<1>4. AnswerExact' /\ OrphansAnswered'
  BY <1>1, AnswerFrame DEF IndInv
<1>5. At({"queued"})' = At({"queued"}) /\ At(Holding)' = At(Holding)
  BY <1>1, MoveWithin DEF IndInv, Shape, Holding, Working
<1> QED
  BY <1>1, <1>2, <1>3, <1>4, <1>5 DEF IndInv, Shape, Counts, SlotsExact, LenExact

LEMMA RefuseInd == ASSUME NEW n \in Submissions PROVE IndInv /\ RefuseReported(n) => IndInv'
<1> SUFFICES ASSUME IndInv, RefuseReported(n) PROVE IndInv'
  OBVIOUS
<1>1. /\ stage[n] = "refusing" /\ Moves(n, "refused")
      /\ UNCHANGED <<life, running, ended, tasks, slots, inflight, answer, body, holds, exited>>
  BY DEF RefuseReported, Moves
<1>2. TypeOK'
  <2>1. stage' \in [Submissions -> Stages]
    BY <1>1 DEF Moves, IndInv, Shape, TypeOK, Stages
  <2> QED
    BY <2>1, <1>1 DEF IndInv, Shape, TypeOK
<1>3. TasksExact' /\ HoldsExact'
  BY <1>1, TasksFrame, HoldsFrame DEF IndInv, Shape, Working
<1>4. AnswerExact' /\ OrphansAnswered'
  BY <1>1, AnswerFrame DEF IndInv, Shape, OrphansAnswered
<1>5. At({"queued"})' = At({"queued"}) /\ At(Holding)' = At(Holding)
  BY <1>1, MoveWithin DEF IndInv, Shape, Holding, Working
<1> QED
  BY <1>1, <1>2, <1>3, <1>4, <1>5 DEF IndInv, Shape, Counts, SlotsExact, LenExact

LEMMA PushInd == ASSUME NEW n \in Submissions PROVE IndInv /\ Push(n) => IndInv'
<1> SUFFICES ASSUME IndInv, Push(n) PROVE IndInv'
  OBVIOUS
<1>0. stage[n] = "pushing"
  BY DEF Push
<1>1. /\ Moves(n, "queued") /\ tasks' = Append(tasks, n)
      /\ UNCHANGED <<life, running, ended, slots, inflight, answer, body, holds, exited>>
      /\ body[n] # "running" /\ answer[n] = "none"
      /\ tasks \in Seq(Submissions)
  <2>1. Len(tasks) < Capacity
    BY <1>0, PushFits
  <2>2. Len(tasks) \in Nat /\ tasks \in Seq(Submissions)
    BY DEF IndInv, Shape, TypeOK
  <2>3. ~(Len(tasks) >= Capacity)
    BY <2>1, <2>2, QueueAssumption
  <2> QED
    BY <1>0, <2>2, <2>3, NoBodyYet DEF Push, Moves, IndInv
<1>2. TypeOK'
  <2>1. stage' \in [Submissions -> Stages]
    BY <1>1 DEF Moves, IndInv, Shape, TypeOK, Stages, Holding
  <2>2. tasks' \in Seq(Submissions)
    BY <1>1
  <2> QED
    BY <2>1, <2>2, <1>1 DEF IndInv, Shape, TypeOK
<1>3. TasksExact'
  <2>1. \A m \in Submissions : stage'[m] = IF m = n THEN "queued" ELSE stage[m]
    BY <1>1 DEF Moves, IndInv, Shape, TypeOK
  <2>2. /\ Len(tasks') = Len(tasks) + 1 /\ Len(tasks) \in Nat
        /\ tasks'[Len(tasks) + 1] = n
        /\ \A i \in 1..Len(tasks) : tasks'[i] = tasks[i] /\ tasks[i] \in Submissions
    BY <1>1
  <2>3. \A i \in 1..Len(tasks) : stage[tasks[i]] = "queued"
    BY DEF IndInv, Shape, TasksExact
  <2>4. \A i \in 1..Len(tasks) : tasks'[i] # n
    BY <2>2, <2>3, <1>0
  <2>5. \A i, j \in 1..Len(tasks') : tasks'[i] = tasks'[j] => i = j
    <3> TAKE i, j \in 1..Len(tasks')
    <3>1. \A k \in 1..Len(tasks') : k \in 1..Len(tasks) \/ k = Len(tasks) + 1
      BY <2>2
    <3> QED
      BY <3>1, <2>2, <2>4 DEF IndInv, Shape, TasksExact
  <2>6. \A i \in 1..Len(tasks') : stage'[tasks'[i]] = "queued"
    <3> TAKE i \in 1..Len(tasks')
    <3>1. i \in 1..Len(tasks) \/ i = Len(tasks) + 1
      BY <2>2
    <3> QED
      BY <3>1, <2>1, <2>2, <2>3
  <2>7. \A m \in At({"queued"})' : \E i \in 1..Len(tasks') : tasks'[i] = m
    <3> TAKE m \in At({"queued"})'
    <3>1. m = n \/ m \in At({"queued"})
      BY <2>1 DEF At
    <3>2. CASE m = n
      BY <3>2, <2>2
    <3>3. CASE m \in At({"queued"})
      <4>1. PICK i \in 1..Len(tasks) : tasks[i] = m
        BY <3>3 DEF IndInv, Shape, TasksExact
      <4> QED
        BY <4>1, <2>2
    <3> QED
      BY <3>1, <3>2, <3>3
  <2> QED
    BY <2>5, <2>6, <2>7 DEF TasksExact
<1>4. HoldsExact'
  BY <1>0, <1>1, HoldsFrame DEF IndInv, Shape, Working
<1>5. AnswerExact' /\ OrphansAnswered'
  BY <1>1, AnswerFrame DEF IndInv
<1>6. At(Holding)' = At(Holding)
  BY <1>0, <1>1, MoveWithin DEF IndInv, Shape, Holding, Working
<1>7. Cardinality(At({"queued"})') = Cardinality(At({"queued"})) + 1
  BY <1>0, <1>1, MoveIn DEF IndInv, Shape
<1> QED
  BY <1>1, <1>2, <1>3, <1>4, <1>5, <1>6, <1>7 DEF IndInv, Shape, Counts, SlotsExact, LenExact

LEMMA TakeInd == ASSUME NEW w \in Workers PROVE IndInv /\ WorkerTake(w) => IndInv'
<1> SUFFICES ASSUME IndInv, WorkerTake(w) PROVE IndInv'
  OBVIOUS
<1> DEFINE n == Head(tasks)
<1>0. /\ tasks \in Seq(Submissions) /\ tasks # <<>> /\ n \in Submissions
      /\ n = tasks[1] /\ Len(tasks) \in Nat /\ Len(tasks) > 0
  BY DEF IndInv, Shape, TypeOK, WorkerTake, TaskPopped
<1>1. /\ Moves(n, "running") /\ stage[n] = "queued"
      /\ tasks' = Tail(tasks) /\ holds[w] = NoTask
      /\ holds' = [holds EXCEPT ![w] = n] /\ body' = [body EXCEPT ![n] = "running"]
      /\ inflight' = inflight \cup {IdOf[n]}
      /\ UNCHANGED <<life, running, ended, slots, answer, exited>>
  BY <1>0 DEF WorkerTake, TaskPopped, Moves, IndInv, Shape, TasksExact
<1>2. /\ Len(tasks') = Len(tasks) - 1 /\ tasks' \in Seq(Submissions)
      /\ \A i \in 1..Len(tasks') : tasks'[i] = tasks[i + 1] /\ i + 1 \in 1..Len(tasks)
      /\ \A i \in 1..Len(tasks) : tasks[i] \in Submissions
  BY <1>0, <1>1
<1> HIDE DEF n
<1>3. TypeOK'
  <2>1. stage' \in [Submissions -> Stages]
    BY <1>1 DEF Moves, IndInv, Shape, TypeOK, Stages, Holding, Working
  <2>2. inflight' \subseteq Ids
    <3>1. IdOf[n] \in Ids
      BY <1>0, QueueAssumption
    <3>2. inflight \subseteq Ids
      BY DEF IndInv, Shape, TypeOK
    <3> QED
      BY <3>1, <3>2, <1>1
  <2>3. holds' \in [Workers -> Submissions \cup {NoTask}]
    BY <1>0, <1>1 DEF IndInv, Shape, TypeOK
  <2>4. body' \in [Submissions -> {"none", "running", "returned"}]
    BY <1>1 DEF IndInv, Shape, TypeOK
  <2> QED
    BY <2>1, <2>2, <2>3, <2>4, <1>1, <1>2 DEF IndInv, Shape, TypeOK
<1>4. \A m \in Submissions : stage'[m] = IF m = n THEN "running" ELSE stage[m]
  BY <1>1 DEF Moves, IndInv, Shape, TypeOK
<1>5. TasksExact'
  <2>1. \A i, j \in 1..Len(tasks) : tasks[i] = tasks[j] => i = j
    BY DEF IndInv, Shape, TasksExact
  <2>2. \A i \in 1..Len(tasks') : tasks'[i] # n
    <3> TAKE i \in 1..Len(tasks')
    <3>1. 1 \in 1..Len(tasks) /\ i + 1 \in 1..Len(tasks) /\ i + 1 # 1
      BY <1>0, <1>2
    <3>2. tasks[i + 1] # tasks[1]
      BY <3>1, <2>1
    <3> QED
      BY <3>2, <1>0, <1>2
  <2>3. \A i \in 1..Len(tasks') : stage'[tasks'[i]] = "queued"
    <3> TAKE i \in 1..Len(tasks')
    <3>1. tasks'[i] \in Submissions /\ stage[tasks'[i]] = "queued"
      BY <1>2 DEF IndInv, Shape, TasksExact
    <3> QED
      BY <3>1, <2>2, <1>4
  <2>4. \A i, j \in 1..Len(tasks') : tasks'[i] = tasks'[j] => i = j
    <3> TAKE i, j \in 1..Len(tasks')
    <3>1. tasks'[i] = tasks'[j] => i + 1 = j + 1
      BY <1>2, <2>1
    <3> QED
      BY <3>1
  <2>5. \A m \in At({"queued"})' : \E i \in 1..Len(tasks') : tasks'[i] = m
    <3> TAKE m \in At({"queued"})'
    <3>1. m \in At({"queued"}) /\ m # n
      BY <1>4 DEF At
    <3>2. PICK k \in 1..Len(tasks) : tasks[k] = m
      BY <3>1 DEF IndInv, Shape, TasksExact
    <3>3. k # 1
      BY <3>1, <3>2, <1>0
    <3>4. k - 1 \in 1..Len(tasks') /\ (k - 1) + 1 = k
      BY <3>2, <3>3, <1>0, <1>2
    <3>5. tasks'[k - 1] = m
      BY <3>2, <3>4, <1>2
    <3> QED
      BY <3>4, <3>5
  <2> QED
    BY <2>3, <2>4, <2>5 DEF TasksExact
<1>6. HoldsExact'
  <2>0. /\ \A v \in Workers : holds'[v] = IF v = w THEN n ELSE holds[v]
        /\ \A v \in Workers : holds[v] # NoTask =>
             holds[v] \in Submissions /\ stage[holds[v]] \in Working /\ holds[v] # n
    BY <1>1 DEF IndInv, Shape, TypeOK, HoldsExact, Working
  <2>1. \A v \in Workers : holds'[v] # NoTask => stage'[holds'[v]] \in Working
    BY <2>0, <1>0, <1>4 DEF Working
  <2>2. \A u, v \in Workers : holds'[u] # NoTask /\ holds'[u] = holds'[v] => u = v
    <3>1. \A u, v \in Workers : holds[u] # NoTask /\ holds[u] = holds[v] => u = v
      BY DEF IndInv, Shape, HoldsExact
    <3>2. n # NoTask
      BY <1>0, QueueAssumption
    <3> QED
      BY <3>1, <3>2, <2>0
  <2>3. \A m \in At(Working)' : \E v \in Workers : holds'[v] = m
    <3> TAKE m \in At(Working)'
    <3>1. CASE m = n
      BY <3>1, <2>0
    <3>2. CASE m # n
      <4>1. m \in At(Working)
        BY <3>2, <1>4 DEF At, Working
      <4>2. PICK v \in Workers : holds[v] = m
        BY <4>1 DEF IndInv, Shape, HoldsExact
      <4>3. m # NoTask
        BY <4>1, QueueAssumption DEF At
      <4> QED
        BY <4>2, <4>3, <2>0, <1>1
    <3> QED
      BY <3>1, <3>2
  <2> QED
    BY <2>1, <2>2, <2>3 DEF HoldsExact
<1>7. AnswerExact' /\ OrphansAnswered'
  <2>1. answer[n] = "none"
    BY <1>0, <1>1, NoBodyYet DEF IndInv
  <2>2. \A m \in Submissions \ {n} : body'[m] = body[m]
    BY <1>1 DEF IndInv, Shape, TypeOK
  <2> QED
    BY <2>1, <2>2, <1>1, AnswerFrame DEF IndInv
<1>8. At(Holding)' = At(Holding)
  BY <1>1, MoveWithin DEF IndInv, Shape, Holding, Working
<1>9. Cardinality(At({"queued"})') = Cardinality(At({"queued"})) - 1
  BY <1>1, MoveOut DEF IndInv, Shape
<1>10. slots' = Cardinality(At(Holding)') /\ Len(tasks') = Cardinality(At({"queued"})')
  BY <1>1, <1>2, <1>8, <1>9 DEF IndInv, Counts, SlotsExact, LenExact
<1> QED
  BY <1>3, <1>5, <1>6, <1>7, <1>10 DEF IndInv, Shape, Counts, SlotsExact, LenExact

(* What a worker that holds a task holds.                                  *)
LEMMA HeldSubmission ==
  ASSUME Shape, NEW w \in Workers, holds[w] # NoTask
  PROVE  holds[w] \in Submissions /\ stage[holds[w]] \in Working
  BY DEF Shape, TypeOK, HoldsExact

LEMMA FinishInd == ASSUME NEW w \in Workers PROVE IndInv /\ Finish(w) => IndInv'
<1> SUFFICES ASSUME IndInv, Finish(w) PROVE IndInv'
  OBVIOUS
<1> DEFINE n == holds[w]
<1>1. n \in Submissions /\ stage[n] = "running" /\ Moves(n, "reporting")
  BY HeldSubmission DEF Finish, IndInv, Moves
<1>2. PICK v \in VerdictOf(n) : answer' = [answer EXCEPT ![n] = v]
  BY DEF Finish
<1>3. UNCHANGED <<life, running, ended, tasks, slots, inflight, body, holds, exited>>
  BY DEF Finish
<1>4. v \in Verdicts /\ (body[n] = "running" => v \in {"timeout", "cancelled"})
  BY <1>2 DEF VerdictOf, Verdicts
<1> HIDE DEF n
<1>5. answer'[n] = v /\ \A m \in Submissions \ {n} : answer'[m] = answer[m]
  BY <1>1, <1>2 DEF IndInv, Shape, TypeOK
<1>6. TypeOK'
  <2>1. stage' \in [Submissions -> Stages]
    BY <1>1 DEF Moves, IndInv, Shape, TypeOK, Stages, Holding, Working
  <2>2. answer' \in [Submissions -> Answers]
    BY <1>1, <1>2, <1>4 DEF IndInv, Shape, TypeOK, Answers
  <2> QED
    BY <2>1, <2>2, <1>3 DEF IndInv, Shape, TypeOK
<1>7. TasksExact' /\ HoldsExact'
  BY <1>1, <1>3, TasksFrame, HoldsFrame DEF IndInv, Shape, Working
<1>8. AnswerExact' /\ OrphansAnswered'
  <2>1. body' = body
    BY <1>3
  <2> QED
    BY <2>1, <1>1, <1>4, <1>5, AnswerFrame DEF IndInv
<1>9. At({"queued"})' = At({"queued"}) /\ At(Holding)' = At(Holding)
  BY <1>1, MoveWithin DEF IndInv, Shape, Holding, Working
<1> QED
  BY <1>3, <1>6, <1>7, <1>8, <1>9 DEF IndInv, Shape, Counts, SlotsExact, LenExact

LEMMA LeaveInd == ASSUME NEW w \in Workers PROVE IndInv /\ Leave(w) => IndInv'
<1> SUFFICES ASSUME IndInv, Leave(w) PROVE IndInv'
  OBVIOUS
<1> DEFINE n == holds[w]
<1>1. n \in Submissions /\ stage[n] = "reporting" /\ Moves(n, "leaving")
  BY HeldSubmission DEF Leave, IndInv, Moves
<1>2. /\ inflight' \subseteq inflight
      /\ UNCHANGED <<life, running, ended, tasks, slots, answer, body, holds, exited>>
  BY DEF Leave, InflightWithout
<1> HIDE DEF n
<1>3. TypeOK'
  <2>1. stage' \in [Submissions -> Stages]
    BY <1>1 DEF Moves, IndInv, Shape, TypeOK, Stages, Holding, Working
  <2>2. inflight' \subseteq Ids
    BY <1>2 DEF IndInv, Shape, TypeOK
  <2> QED
    BY <2>1, <2>2, <1>2 DEF IndInv, Shape, TypeOK
<1>4. TasksExact' /\ HoldsExact'
  BY <1>1, <1>2, TasksFrame, HoldsFrame DEF IndInv, Shape, Working
<1>5. AnswerExact' /\ OrphansAnswered'
  <2>1. answer[n] \in Verdicts /\ (body[n] = "running" => answer[n] \in {"timeout", "cancelled"})
    BY <1>1 DEF IndInv, Shape, AnswerExact, OrphansAnswered
  <2> QED
    BY <2>1, <1>1, <1>2, AnswerFrame DEF IndInv
<1>6. At({"queued"})' = At({"queued"}) /\ At(Holding)' = At(Holding)
  BY <1>1, MoveWithin DEF IndInv, Shape, Holding, Working
<1> QED
  BY <1>2, <1>3, <1>4, <1>5, <1>6 DEF IndInv, Shape, Counts, SlotsExact, LenExact

LEMMA ReleaseInd == ASSUME NEW w \in Workers PROVE IndInv /\ Release(w) => IndInv'
<1> SUFFICES ASSUME IndInv, Release(w) PROVE IndInv'
  OBVIOUS
<1> DEFINE n == holds[w]
<1>1. n \in Submissions /\ stage[n] = "leaving" /\ Moves(n, "done") /\ n # NoTask
  BY HeldSubmission DEF Release, IndInv, Moves
<1>2. /\ slots' = Released /\ holds' = [holds EXCEPT ![w] = NoTask]
      /\ UNCHANGED <<life, running, ended, tasks, inflight, answer, body, exited>>
  BY DEF Release, SlotGivenBack
<1>3. Cardinality(At(Holding)') = Cardinality(At(Holding)) - 1
  BY <1>1, MoveOut DEF IndInv, Shape, Holding, Working
<1>4. slots' = Cardinality(At(Holding)') /\ slots' \in 0..Capacity
  <2>1. n \in At(Holding)
    BY <1>1 DEF At, Holding, Working
  <2>2. Cardinality(At(Holding)) # 0
    BY <2>1, AtFinite, FS_EmptySet
  <2> QED
    BY <2>2, <1>2, <1>3, AtFinite, QueueAssumption
       DEF Released, IndInv, Shape, TypeOK, Counts, SlotsExact
<1>5. TypeOK'
  <2>1. stage' \in [Submissions -> Stages]
    BY <1>1 DEF Moves, IndInv, Shape, TypeOK, Stages
  <2>2. holds' \in [Workers -> Submissions \cup {NoTask}]
    BY <1>2 DEF IndInv, Shape, TypeOK
  <2> QED
    BY <2>1, <2>2, <1>2, <1>4 DEF IndInv, Shape, TypeOK
<1>6. TasksExact'
  BY <1>1, <1>2, TasksFrame DEF IndInv, Shape
<1>7. HoldsExact'
  <2>1. \A m \in Submissions : stage'[m] = IF m = n THEN "done" ELSE stage[m]
    BY <1>1 DEF Moves, IndInv, Shape, TypeOK
  <2>2. \A v \in Workers : holds'[v] = IF v = w THEN NoTask ELSE holds[v]
    BY <1>2 DEF IndInv, Shape, TypeOK
  <2>3. \A v \in Workers : v # w /\ holds[v] # NoTask =>
          holds[v] \in Submissions /\ stage[holds[v]] \in Working /\ holds[v] # n
    BY <1>1 DEF IndInv, Shape, TypeOK, HoldsExact
  <2>4. \A v \in Workers : holds'[v] # NoTask => stage'[holds'[v]] \in Working
    BY <2>1, <2>2, <2>3
  <2>5. \A u, v \in Workers : holds'[u] # NoTask /\ holds'[u] = holds'[v] => u = v
    BY <2>2 DEF IndInv, Shape, HoldsExact
  <2>6. \A m \in At(Working)' : \E v \in Workers : holds'[v] = m
    <3> TAKE m \in At(Working)'
    <3>1. m \in At(Working) /\ m # n
      BY <2>1 DEF At, Working
    <3>2. PICK v \in Workers : holds[v] = m
      BY <3>1 DEF IndInv, Shape, HoldsExact
    <3> QED
      BY <3>1, <3>2, <2>2
  <2> QED
    BY <2>4, <2>5, <2>6 DEF HoldsExact
<1>8. AnswerExact' /\ OrphansAnswered'
  <2>1. answer[n] \in Verdicts /\ (body[n] = "running" => answer[n] \in {"timeout", "cancelled"})
    BY <1>1 DEF IndInv, Shape, AnswerExact, OrphansAnswered
  <2> QED
    BY <2>1, <1>1, <1>2, AnswerFrame DEF IndInv
<1>9. At({"queued"})' = At({"queued"})
  BY <1>1, MoveWithin DEF IndInv, Shape
<1> QED
  BY <1>2, <1>4, <1>5, <1>6, <1>7, <1>8, <1>9 DEF IndInv, Shape, Counts, SlotsExact, LenExact

(* Steps that touch no submission's stage.                                 *)
LEMMA StillInd ==
  ASSUME IndInv, TypeOK', UNCHANGED <<tasks, slots, stage, answer, holds>>,
         \A n \in Submissions : body'[n] = "running" => body[n] = "running"
  PROVE  IndInv'
<1>1. At({"queued"})' = At({"queued"}) /\ At(Holding)' = At(Holding)
      /\ At(Working)' = At(Working)
  BY DEF At
<1>2. TasksExact'
  BY <1>1 DEF IndInv, Shape, TasksExact
<1>3. HoldsExact'
  BY <1>1 DEF IndInv, Shape, HoldsExact
<1>4. AnswerExact' /\ OrphansAnswered'
  BY DEF IndInv, Shape, AnswerExact, OrphansAnswered
<1>5. Counts'
  BY <1>1 DEF IndInv, Counts, SlotsExact, LenExact
<1> QED
  BY <1>2, <1>3, <1>4, <1>5 DEF IndInv, Shape

LEMMA BodyInd == ASSUME NEW n \in Submissions PROVE IndInv /\ BodyReturn(n) => IndInv'
<1> SUFFICES ASSUME IndInv, BodyReturn(n) PROVE IndInv'
  OBVIOUS
<1>1. TypeOK'
  BY DEF BodyReturn, IndInv, Shape, TypeOK
<1>2. \A m \in Submissions : body'[m] = "running" => body[m] = "running"
  BY DEF BodyReturn, IndInv, Shape, TypeOK
<1> QED
  BY <1>1, <1>2, StillInd DEF BodyReturn

LEMMA LifeInd ==
  ASSUME IndInv,
         \/ Start \/ ContextEnds \/ Stop \/ StopCancel \/ StopReturn
         \/ \E w \in Workers : WorkerExit(w)
         \/ UNCHANGED vars
  PROVE  IndInv'
<1>1. TypeOK'
  BY DEF Start, ContextEnds, Stop, StopCancel, StopReturn, WorkerExit, vars,
         IndInv, Shape, TypeOK, Lives
<1>2. UNCHANGED <<tasks, slots, stage, answer, holds, body>>
  BY DEF Start, ContextEnds, Stop, StopCancel, StopReturn, WorkerExit, vars
<1> QED
  BY <1>1, <1>2, StillInd

LEMMA StepInd == IndInv /\ [Next]_vars => IndInv'
  BY SubmitInd, TakeSlotInd, AcceptInd, RefuseInd, PushInd, TakeInd, FinishInd, LeaveInd,
     ReleaseInd, BodyInd, LifeInd DEF Next, CallStep, WorkerStep
-----------------------------------------------------------------------------
THEOREM Invariance == Spec => []IndInv
  BY InitInd, StepInd, PTL DEF Spec

(* Queue state is well formed; in particular the slots taken never exceed  *)
(* the capacity.                                                           *)
THEOREM TypeCorrect == Spec => []TypeOK
<1>1. IndInv => TypeOK
  BY DEF IndInv, Shape
<1> QED
  BY Invariance, <1>1, PTL

(* Channel, workers and slots agree at every step: no slot is leaked and   *)
(* none is given back twice.                                               *)
THEOREM AccountingTheorem == Spec => []Accounting
<1>1. IndInv => Accounting
  BY DEF IndInv, Shape, Counts, Accounting
<1> QED
  BY Invariance, <1>1, PTL

(* A handler nobody waits for belongs to a task answered timeout or        *)
(* cancelled.                                                              *)
THEOREM OrphansTheorem == Spec => []OrphansAnswered
<1>1. IndInv => OrphansAnswered
  BY DEF IndInv, Shape
<1> QED
  BY Invariance, <1>1, PTL
-----------------------------------------------------------------------------
(* What a step does to the stages, the answers and inflight: a call or a   *)
(* worker moves one submission, or none moves.                             *)
LEMMA StepEffect ==
  ASSUME IndInv, [Next]_vars
  PROVE  \/ UNCHANGED <<stage, answer, inflight>>
         \/ \E n \in Submissions, s \in {"admitted", "refusing", "refused"} :
              /\ Moves(n, s) /\ stage[n] \in {"new", "admitted", "refusing"}
              /\ \A m \in Submissions \ {n} : answer'[m] = answer[m]
              /\ UNCHANGED inflight
         \/ \E n \in Submissions, s \in {"accepting", "pushing", "queued"} :
              /\ Moves(n, s) /\ stage[n] \in {"admitted", "accepting", "pushing"}
              /\ answer[n] = "none" /\ UNCHANGED <<answer, inflight>>
         \/ \E n \in Submissions :
              /\ Moves(n, "running") /\ stage[n] = "queued" /\ answer[n] = "none"
              /\ inflight' = inflight \cup {IdOf[n]} /\ UNCHANGED answer
         \/ \E n \in Submissions, v \in Verdicts :
              /\ Moves(n, "reporting") /\ stage[n] = "running" /\ answer[n] = "none"
              /\ answer' = [answer EXCEPT ![n] = v] /\ UNCHANGED inflight
         \/ \E w \in Workers :
              /\ holds[w] \in Submissions /\ Moves(holds[w], "leaving")
              /\ stage[holds[w]] = "reporting"
              /\ inflight' = inflight \ {IdOf[holds[w]]} /\ UNCHANGED answer
         \/ \E n \in Submissions :
              /\ Moves(n, "done") /\ stage[n] = "leaving" /\ UNCHANGED <<answer, inflight>>
<1>1. ASSUME NEW n \in Submissions, \/ Submit(n) \/ TakeSlot(n)
                                   \/ AcceptReported(n) \/ RefuseReported(n)
      PROVE  \/ \E s \in {"admitted", "refusing", "refused"} :
                  /\ Moves(n, s) /\ stage[n] \in {"new", "admitted", "refusing"}
                  /\ \A m \in Submissions \ {n} : answer'[m] = answer[m]
                  /\ UNCHANGED inflight
             \/ \E s \in {"accepting", "pushing", "queued"} :
                  /\ Moves(n, s) /\ stage[n] \in {"admitted", "accepting", "pushing"}
                  /\ answer[n] = "none" /\ UNCHANGED <<answer, inflight>>
  BY <1>1, NoBodyYet DEF Submit, TakeSlot, AcceptReported, RefuseReported, Moves,
                         IndInv, Shape, TypeOK
<1>2. ASSUME NEW n \in Submissions, Push(n)
      PROVE  /\ Moves(n, "queued") /\ stage[n] = "pushing" /\ answer[n] = "none"
             /\ UNCHANGED <<answer, inflight>>
  <2>1. stage[n] = "pushing" /\ answer[n] = "none" /\ Len(tasks) \in Nat
    BY <1>2, NoBodyYet DEF Push, IndInv, Shape, TypeOK
  <2>2. ~(Len(tasks) >= Capacity)
    BY <2>1, PushFits, QueueAssumption
  <2> QED
    BY <1>2, <2>1, <2>2 DEF Push, Moves
<1>3. ASSUME NEW w \in Workers, WorkerTake(w)
      PROVE  \E n \in Submissions :
               /\ Moves(n, "running") /\ stage[n] = "queued" /\ answer[n] = "none"
               /\ inflight' = inflight \cup {IdOf[n]} /\ UNCHANGED answer
  <2> DEFINE n == Head(tasks)
  <2>1. n \in Submissions /\ stage[n] = "queued"
    BY <1>3 DEF IndInv, Shape, TypeOK, TasksExact, WorkerTake, TaskPopped
  <2>2. answer[n] = "none"
    BY <2>1, NoBodyYet DEF IndInv
  <2> QED
    BY <1>3, <2>1, <2>2 DEF WorkerTake, Moves
<1>4. ASSUME NEW w \in Workers, Finish(w)
      PROVE  \E n \in Submissions, v \in Verdicts :
               /\ Moves(n, "reporting") /\ stage[n] = "running" /\ answer[n] = "none"
               /\ answer' = [answer EXCEPT ![n] = v] /\ UNCHANGED inflight
  <2> DEFINE n == holds[w]
  <2>1. n \in Submissions /\ stage[n] = "running" /\ answer[n] = "none"
    BY <1>4, HeldSubmission DEF Finish, IndInv, Shape, AnswerExact
  <2>2. VerdictOf(n) \subseteq Verdicts
    BY DEF VerdictOf, Verdicts
  <2> QED
    BY <1>4, <2>1, <2>2 DEF Finish, Moves
<1>5. ASSUME NEW w \in Workers, Leave(w)
      PROVE  /\ holds[w] \in Submissions /\ Moves(holds[w], "leaving")
             /\ stage[holds[w]] = "reporting"
             /\ inflight' = inflight \ {IdOf[holds[w]]} /\ UNCHANGED answer
  BY <1>5, HeldSubmission DEF Leave, InflightWithout, IndInv, Moves
<1>6. ASSUME NEW w \in Workers, Release(w)
      PROVE  /\ holds[w] \in Submissions /\ Moves(holds[w], "done")
             /\ stage[holds[w]] = "leaving" /\ UNCHANGED <<answer, inflight>>
  BY <1>6, HeldSubmission DEF Release, IndInv, Moves
<1>7. ASSUME \/ Start \/ ContextEnds \/ Stop \/ StopCancel \/ StopReturn \/ UNCHANGED vars
             \/ \E n \in Submissions : BodyReturn(n)
             \/ \E w \in Workers : WorkerExit(w)
      PROVE  UNCHANGED <<stage, answer, inflight>>
  BY <1>7 DEF Start, ContextEnds, Stop, StopCancel, StopReturn, vars, BodyReturn, WorkerExit
<1>8. ASSUME NEW n \in Submissions, Push(n)
      PROVE  \E s \in {"accepting", "pushing", "queued"} :
               /\ Moves(n, s) /\ stage[n] \in {"admitted", "accepting", "pushing"}
               /\ answer[n] = "none" /\ UNCHANGED <<answer, inflight>>
  BY <1>8, <1>2
<1>9. CASE \E n \in Submissions : \/ Submit(n) \/ TakeSlot(n)
                              \/ AcceptReported(n) \/ RefuseReported(n)
  BY <1>9, <1>1
<1>10. CASE \E n \in Submissions : Push(n)
  BY <1>10, <1>8
<1>11. CASE \E w \in Workers : WorkerTake(w)
  BY <1>11, <1>3
<1>12. CASE \E w \in Workers : Finish(w)
  BY <1>12, <1>4
<1>13. CASE \E w \in Workers : Leave(w)
  BY <1>13, <1>5
<1>14. CASE \E w \in Workers : Release(w)
  BY <1>14, <1>6
<1>15. \/ Start \/ ContextEnds \/ Stop \/ StopCancel \/ StopReturn \/ UNCHANGED vars
       \/ \E n \in Submissions : \/ BodyReturn(n) \/ Submit(n) \/ TakeSlot(n)
                                 \/ AcceptReported(n) \/ Push(n) \/ RefuseReported(n)
       \/ \E w \in Workers : \/ WorkerTake(w) \/ Finish(w) \/ Leave(w)
                             \/ Release(w) \/ WorkerExit(w)
  BY DEF Next, CallStep, WorkerStep
<1> QED
  BY <1>7, <1>9, <1>10, <1>11, <1>12, <1>13, <1>14, <1>15

(* The submissions whose ids inflight should list.                         *)
Listed == {"running", "reporting"}

LEMMA OneWorker ==
  ASSUME Cardinality(Workers) <= 1, NEW v \in Workers, NEW w \in Workers
  PROVE  v = w
<1> SUFFICES ASSUME v # w PROVE FALSE
  OBVIOUS
<1>1. IsFiniteSet({w}) /\ Cardinality({w}) = 1
  BY FS_Singleton
<1>2. Cardinality({w} \cup {v}) = 2 /\ IsFiniteSet({w} \cup {v})
  BY <1>1, FS_AddElement
<1>3. Cardinality({w} \cup {v}) <= Cardinality(Workers) /\ Cardinality(Workers) \in Nat
  BY QueueAssumption, FS_Subset, FS_CardinalityType
<1> QED
  BY <1>2, <1>3

(* removeInflight removes the id of one submission and of no other that is *)
(* still listed.                                                           *)
LEMMA LeaveAlone ==
  ASSUME Shape,
         Cardinality(Workers) <= 1 \/ \A m, n \in Submissions : IdOf[m] = IdOf[n] => m = n,
         NEW w \in Workers, holds[w] \in Submissions, stage[holds[w]] \in Listed,
         NEW m \in At(Listed), IdOf[m] = IdOf[holds[w]]
  PROVE  m = holds[w]
<1>1. CASE \A k, n \in Submissions : IdOf[k] = IdOf[n] => k = n
  BY <1>1 DEF At
<1>2. CASE Cardinality(Workers) <= 1
  <2>1. m \in At(Working)
    BY DEF At, Listed, Working
  <2>2. PICK v \in Workers : holds[v] = m
    BY <2>1 DEF Shape, HoldsExact
  <2> QED
    BY <1>2, <2>2, OneWorker
<1> QED
  BY <1>1, <1>2

(* The ids the agent reports as active are those of the running tasks.     *)
THEOREM InflightTheorem == Spec => []InflightExact
<1> DEFINE P == Cardinality(Workers) <= 1 \/ \A m, n \in Submissions : IdOf[m] = IdOf[n] => m = n
           I == inflight = {IdOf[n] : n \in At(Listed)}
<1>0. InflightExact <=> (P => I)
  BY DEF InflightExact, Listed
<1>1. Init => InflightExact
  BY <1>0 DEF Init, At, Listed
<1>2. IndInv /\ InflightExact /\ [Next]_vars => InflightExact'
  <2> SUFFICES ASSUME IndInv, P, I, [Next]_vars PROVE I'
    BY <1>0 DEF InflightExact, Listed
  <2>0. TypeOK /\ Shape
    BY DEF IndInv, Shape
  <2> DEFINE same == At(Listed)' = At(Listed) /\ UNCHANGED inflight
  <2>1. CASE UNCHANGED <<stage, answer, inflight>>
    BY <2>1 DEF At
  <2>2. ASSUME NEW n \in Submissions, NEW s, Moves(n, s), UNCHANGED inflight,
               stage[n] \in Listed <=> s \in Listed
        PROVE  I'
    BY <2>2, <2>0, MoveWithin
  <2>3. ASSUME NEW n \in Submissions, Moves(n, "running"),
               inflight' = inflight \cup {IdOf[n]}
        PROVE  I'
    <3>1. At(Listed)' = At(Listed) \cup {n}
      BY <2>0, <2>3 DEF At, Listed, Moves, TypeOK
    <3> QED
      BY <2>3, <3>1
  <2>4. ASSUME NEW w \in Workers, holds[w] \in Submissions, Moves(holds[w], "leaving"),
               stage[holds[w]] = "reporting", inflight' = inflight \ {IdOf[holds[w]]}
        PROVE  I'
    <3> DEFINE n == holds[w]
    <3>1. At(Listed)' = At(Listed) \ {n}
      BY <2>0, <2>4 DEF At, Listed, Moves, TypeOK
    <3>2. \A m \in At(Listed) : IdOf[m] = IdOf[n] => m = n
      BY <2>0, <2>4, LeaveAlone DEF Listed
    <3>3. {IdOf[m] : m \in At(Listed) \ {n}} = {IdOf[m] : m \in At(Listed)} \ {IdOf[n]}
      BY <3>2
    <3> QED
      BY <2>4, <3>1, <3>3
  <2> HIDE DEF I
  <2> QED
    BY <2>1, <2>2, <2>3, <2>4, StepEffect DEF Listed
<1> QED
  BY Invariance, <1>1, <1>2, PTL DEF Spec
-----------------------------------------------------------------------------
(* The refinement: a slot taken opens a submission in the ledger, the      *)
(* worker's verdict decides it, and nothing else touches it.               *)
THEOREM LedgerTheorem == Spec => ImplementsLedger
<1> DEFINE lstage == [n \in Submissions |-> LedgerStage(n)]
           loutcome == [n \in Submissions |-> LedgerOutcome(n)]
<1>1. Init => Ledger!LedgerInit
  BY DEF Init, Ledger!LedgerInit, LedgerStage, LedgerOutcome
<1>2. IndInv /\ [Next]_vars => [Ledger!LedgerNext]_(Ledger!ledgerVars)
  <2> SUFFICES ASSUME IndInv, [Next]_vars
               PROVE  Ledger!LedgerNext \/ UNCHANGED <<lstage, loutcome>>
    BY DEF Ledger!ledgerVars
  <2>0. TypeOK /\ AnswerExact
    BY DEF IndInv, Shape
  <2>1. CASE UNCHANGED <<stage, answer, inflight>>
    BY <2>1 DEF LedgerStage, LedgerOutcome
  <2>2. ASSUME NEW n \in Submissions, NEW s, Moves(n, s),
               LedgerStage(n)' = LedgerStage(n), LedgerOutcome(n)' = LedgerOutcome(n),
               \A m \in Submissions \ {n} : answer'[m] = answer[m]
        PROVE  UNCHANGED <<lstage, loutcome>>
    <3>1. \A m \in Submissions : LedgerStage(m)' = LedgerStage(m) /\ LedgerOutcome(m)' = LedgerOutcome(m)
      BY <2>0, <2>2 DEF Moves, TypeOK, LedgerStage, LedgerOutcome
    <3> QED
      BY <3>1
  <2>3. ASSUME NEW n \in Submissions, NEW s \in {"admitted", "refusing", "refused"}, Moves(n, s),
               stage[n] \in {"new", "admitted", "refusing"},
               \A m \in Submissions \ {n} : answer'[m] = answer[m]
        PROVE  UNCHANGED <<lstage, loutcome>>
    <3>1. LedgerStage(n)' = LedgerStage(n) /\ LedgerOutcome(n)' = LedgerOutcome(n)
      BY <2>0, <2>3 DEF Moves, TypeOK, LedgerStage, LedgerOutcome
    <3> QED
      BY <2>2, <2>3, <3>1
  <2>4. ASSUME NEW n \in Submissions, NEW s \in {"accepting", "pushing", "queued", "running"},
               Moves(n, s), stage[n] \in {"admitted", "accepting", "pushing", "queued"},
               answer[n] = "none", UNCHANGED answer
        PROVE  Ledger!Open(n) \/ UNCHANGED <<lstage, loutcome>>
    <3>1. LedgerStage(n)' = "open" /\ LedgerOutcome(n)' = LedgerOutcome(n)
      BY <2>0, <2>4 DEF Moves, TypeOK, LedgerStage, LedgerOutcome
    <3>2. \A m \in Submissions \ {n} : LedgerStage(m)' = LedgerStage(m) /\ LedgerOutcome(m)' = LedgerOutcome(m)
      BY <2>0, <2>4 DEF Moves, TypeOK, LedgerStage, LedgerOutcome
    <3>3. CASE stage[n] = "admitted"
      <4>1. LedgerStage(n) = "unborn"
        BY <3>3 DEF LedgerStage
      <4> QED
        BY <3>1, <3>2, <4>1 DEF Ledger!Open
    <3>4. CASE stage[n] # "admitted"
      <4>1. LedgerStage(n) = "open"
        BY <2>4, <3>4 DEF LedgerStage
      <4> QED
        BY <3>1, <3>2, <4>1
    <3> QED
      BY <3>3, <3>4
  <2>5. ASSUME NEW n \in Submissions, NEW v \in Verdicts, Moves(n, "reporting"),
               stage[n] = "running", answer[n] = "none", answer' = [answer EXCEPT ![n] = v]
        PROVE  Ledger!Decide(n, v)
    <3>0. v # "none"
      BY QueueAssumption DEF Verdicts
    <3>1. /\ LedgerStage(n) = "open" /\ LedgerStage(n)' = "decided"
          /\ LedgerOutcome(n)' = v
      BY <2>0, <2>5, <3>0 DEF Moves, TypeOK, LedgerStage, LedgerOutcome
    <3>2. \A m \in Submissions \ {n} : LedgerStage(m)' = LedgerStage(m) /\ LedgerOutcome(m)' = LedgerOutcome(m)
      BY <2>0, <2>5 DEF Moves, TypeOK, LedgerStage, LedgerOutcome
    <3> QED
      BY <3>1, <3>2 DEF Ledger!Decide
  <2>6. ASSUME NEW n \in Submissions, NEW s \in {"leaving", "done"}, Moves(n, s),
               stage[n] \in {"reporting", "leaving"}, UNCHANGED answer
        PROVE  UNCHANGED <<lstage, loutcome>>
    <3>1. LedgerStage(n)' = LedgerStage(n) /\ LedgerOutcome(n)' = LedgerOutcome(n)
      BY <2>0, <2>6 DEF Moves, TypeOK, LedgerStage, LedgerOutcome
    <3> QED
      BY <2>2, <2>6, <3>1
  <2> HIDE DEF lstage, loutcome
  <2> QED
    BY <2>1, <2>3, <2>4, <2>5, <2>6, StepEffect DEF Ledger!LedgerNext
<1> QED
  BY Invariance, <1>1, <1>2, PTL DEF Spec, ImplementsLedger, Ledger!LedgerSpec
=============================================================================
