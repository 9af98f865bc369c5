-------------------------- MODULE OperationLedger --------------------------
(***************************************************************************)
(* What the panel promises about every task it queues for an agent,        *)
(* whatever the number of agents, deliveries and reports: a task is opened *)
(* once, decided at most once, never decided again or changed afterwards,  *)
(* and disappears only when old rows are purged.  The detailed modules of  *)
(* the task tables are shown to implement this one, or shown not to.       *)
(***************************************************************************)
CONSTANTS Ops,        \* identifiers of the tasks
          Outcomes,   \* what a task can end with
          NoOutcome   \* not an outcome: that of a task that has not ended

VARIABLES stage,      \* [Ops -> Stages]
          outcome     \* [Ops -> Outcomes \cup {NoOutcome}]

ledgerVars == <<stage, outcome>>

Stages == {"unborn", "open", "decided", "purged"}

LedgerInit ==
  /\ stage = [o \in Ops |-> "unborn"]
  /\ outcome = [o \in Ops |-> NoOutcome]

Open(o) ==
  /\ stage[o] = "unborn"
  /\ stage' = [stage EXCEPT ![o] = "open"]
  /\ UNCHANGED outcome

Decide(o, v) ==
  /\ stage[o] = "open"
  /\ stage' = [stage EXCEPT ![o] = "decided"]
  /\ outcome' = [outcome EXCEPT ![o] = v]

(* One purge removes any number of tasks, decided or not. *)
Forget(S) ==
  /\ \A o \in S : stage[o] \in {"open", "decided"}
  /\ stage' = [o \in Ops |-> IF o \in S THEN "purged" ELSE stage[o]]
  /\ outcome' = [o \in Ops |-> IF o \in S THEN NoOutcome ELSE outcome[o]]

LedgerNext ==
  \/ \E o \in Ops : Open(o)
  \/ \E o \in Ops, v \in Outcomes : Decide(o, v)
  \/ \E S \in SUBSET Ops : Forget(S)

LedgerSpec == LedgerInit /\ [][LedgerNext]_ledgerVars
=============================================================================
