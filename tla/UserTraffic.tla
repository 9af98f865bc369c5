----------------------------- MODULE UserTraffic -----------------------------
(***************************************************************************)
(* What the panel charges a user for: the reports of an agent, the table   *)
(* of reports it has seen, the periods of the user and the row of the      *)
(* user, with everybody who writes them: the handler of ReportTraffic, the *)
(* requests that read a user, change it and save it whole, the change of a *)
(* quota, the nightly reset, and the statistics that are kept in memory    *)
(* until a job stores them.                                                *)
(*                                                                         *)
(* One user is modelled: no statement for one user touches another.  A row *)
(* of users and a row of user_traffic_periods have the same three columns  *)
(* here; u and d are one sum.  Each report carries one unit.  Months are   *)
(* numbered; a period is a month, as with the default settings.            *)
(***************************************************************************)
EXTENDS Integers, FiniteSets

CONSTANTS
  Reports,       \* the report ids an agent draws
  Handlers,      \* requests of ReportTraffic the panel serves at a time
  Editors,       \* requests that save the user
  Quotas,        \* the quotas an administrator sets; 0 is none
  None,          \* no copy, no period, no report, no change of the quota
  MaxMonth,      \* bound on the months
  MaxEvents      \* bound on the reports, saves and crashes together

Row == [used : Nat, quota : Nat, exceeded : BOOLEAN]

ASSUME UserTrafficAssumption ==
  /\ IsFiniteSet(Reports) /\ IsFiniteSet(Handlers)
  /\ Quotas \subseteq Nat /\ Quotas # {}
  /\ None \notin Reports /\ None \notin Nat /\ None \notin Row
  /\ MaxMonth \in Nat /\ MaxEvents \in Nat

VARIABLES
  month,         \* the month it is
  user,          \* the row of the user
  cached,        \* the copy FindByID keeps for half a minute
  periods,       \* the rows of the periods, by month
  marked,        \* the reports in the table of seen reports
  report,        \* what the agent knows of each report
  call,          \* the requests of ReportTraffic being served
  edit,          \* the requests that save the user
  edits,         \* how many there have been
  reset,         \* the nightly job
  stats,         \* statistics in memory, in the hands of the job, stored
  crashes,
  charged,       \* history: the month each report was charged in
  dropped,       \* history: reports marked as seen and never charged
  statsLost,     \* history: the statistics crashes took
  stale          \* history: somebody wrote what no longer was so

rowVars   == <<user, cached, periods>>
agentVars == <<marked, report, call>>
editVars  == <<edit, edits>>
histVars  == <<charged, dropped, statsLost, stale>>
vars == <<month, rowVars, agentVars, editVars, reset, stats, crashes, histVars>>

Months  == 0..MaxMonth
Free    == [report |-> None, at |-> "idle"]
Rest    == [at |-> "idle", copy |-> None, quota |-> None]
Asleep  == [at |-> "idle", copy |-> None, month |-> 0]
Syncing == {"sync", "update", "readback", "compare", "set"}

Init ==
  /\ month = 0
  /\ \E q \in Quotas : user = [used |-> 0, quota |-> q, exceeded |-> FALSE]
  /\ cached = None
  /\ periods = [m \in Months |-> None]
  /\ marked = {}
  /\ report = [r \in Reports |-> "sending"]
  /\ call = [h \in Handlers |-> Free]
  /\ edit = [e \in Editors |-> Rest]
  /\ edits = 0
  /\ reset = Asleep
  /\ stats = [memory |-> 0, taken |-> 0, stored |-> 0]
  /\ crashes = 0
  /\ charged = [r \in Reports |-> None]
  /\ dropped = {} /\ statsLost = 0 /\ stale = FALSE
-----------------------------------------------------------------------------
(* The agent has read its counters, which sets them to zero, and has drawn *)
(* an id.  It sends the report until it gets an answer that is not worth a *)
(* retry, as Internal when the mark cannot be written, or has no attempts  *)
(* left; then the samples are gone.                                        *)
GiveUp(r) ==
  /\ report[r] = "sending"
  /\ report' = [report EXCEPT ![r] = "failed"]
  /\ UNCHANGED <<month, rowVars, marked, call, editVars, reset, stats, crashes, histVars>>

(* An answer counts if it arrives and the agent is still waiting for one.  *)
Told(r, answer) ==
  \/ /\ report[r] = "sending"
     /\ report' = [report EXCEPT ![r] = answer]
  \/ UNCHANGED report

(* The bound of the model: reports, saves and crashes are limited together. *)
RoomLeft == edits + Cardinality(marked) + crashes < MaxEvents

(* Mutants: any report, or none, is taken for a repetition.                *)
SeenAny(r)  == marked # {}
SeenNone(r) == FALSE

Seen(r) == r \in marked

(* A request arrives, perhaps again, perhaps after the agent gave up on    *)
(* it.  MarkHandled inserts the report or finds it there; it is committed  *)
(* before the traffic is charged, and kept for days.                       *)
Mark(r, h) ==
  /\ call[h] = Free /\ RoomLeft
  /\ ~Seen(r)
  /\ marked' = marked \cup {r}
  /\ call' = [call EXCEPT ![h] = [report |-> r, at |-> "batch"]]
  /\ UNCHANGED <<month, rowVars, report, editVars, reset, stats, crashes, histVars>>

Deduplicated(r) ==
  /\ report[r] = "sending"
  /\ Seen(r)
  /\ Told(r, "ok")
  /\ UNCHANGED <<month, rowVars, marked, call, editVars, reset, stats, crashes, histVars>>

(* The row the batch finds, or makes from the user, and whether one more   *)
(* unit takes it over its quota.                                           *)
Current == IF periods[month] # None THEN periods[month]
           ELSE [used |-> 0, quota |-> user.quota, exceeded |-> FALSE]
GoesOver(p) == ~p.exceeded /\ p.quota > 0 /\ p.used + 1 >= p.quota

(* Mutant: the user is charged but never suspended.                        *)
UserUnflagged(p) == [user EXCEPT !.used = @ + 1]

UserCharged(p) == [user EXCEPT !.used = @ + 1, !.exceeded = @ \/ GoesOver(p)]

(* ApplyTrafficBatchAtomic, one transaction: find or make the period,      *)
(* charge it and the user, mark both if the quota is used up.              *)
Batch(h) ==
  /\ call[h].at = "batch"
  /\ LET p == Current IN
       /\ periods' = [periods EXCEPT ![month] =
                        [p EXCEPT !.used = @ + 1, !.exceeded = @ \/ GoesOver(p)]]
       /\ user' = UserCharged(p)
  /\ call' = [call EXCEPT ![h].at = "stats"]
  /\ charged' = [charged EXCEPT ![call[h].report] = month]
  /\ UNCHANGED <<month, cached, marked, report, editVars, reset, stats, crashes,
                 dropped, statsLost, stale>>

(* The transaction is rolled back: the database was busy, or the request   *)
(* was cancelled.  The mark stays.                                         *)
BatchFails(h) ==
  /\ call[h].at = "batch"
  /\ dropped' = dropped \cup {call[h].report}
  /\ Told(call[h].report, "failed")
  /\ call' = [call EXCEPT ![h] = Free]
  /\ UNCHANGED <<month, rowVars, marked, editVars, reset, stats, crashes, charged,
                 statsLost, stale>>

(* What was accepted goes into the accumulator, then the answer.           *)
CollectStats(h) ==
  /\ call[h].at = "stats"
  /\ stats' = [stats EXCEPT !.memory = @ + 1]
  /\ Told(call[h].report, "ok")
  /\ call' = [call EXCEPT ![h] = Free]
  /\ UNCHANGED <<month, rowVars, marked, editVars, reset, crashes, histVars>>
-----------------------------------------------------------------------------
(* The job takes what is in memory, stores it,                             *)
StatsFlush ==
  /\ stats.taken = 0 /\ stats.memory > 0
  /\ stats' = [stats EXCEPT !.memory = 0, !.taken = stats.memory]
  /\ UNCHANGED <<month, rowVars, agentVars, editVars, reset, crashes, histVars>>

StatsStore ==
  /\ stats.taken > 0
  /\ stats' = [stats EXCEPT !.taken = 0, !.stored = @ + stats.taken]
  /\ UNCHANGED <<month, rowVars, agentVars, editVars, reset, crashes, histVars>>

(* Mutant: what is put back replaces what has come in since.               *)
MergedReplace == [stats EXCEPT !.taken = 0, !.memory = stats.taken]

(* or puts it back when that fails.                                        *)
Merged == [stats EXCEPT !.taken = 0, !.memory = @ + stats.taken]

StatsMerge ==
  /\ stats.taken > 0
  /\ stats' = Merged
  /\ UNCHANGED <<month, rowVars, agentVars, editVars, reset, crashes, histVars>>
-----------------------------------------------------------------------------
(* FindByID answers from the cache, and fills it.  Nothing that writes the *)
(* row but Save clears it; it expires.                                     *)
Found == IF cached # None THEN cached ELSE user

Look ==
  /\ cached = None
  /\ cached' = user
  /\ UNCHANGED <<month, user, periods, agentVars, editVars, reset, stats, crashes, histVars>>

Expire ==
  /\ cached # None
  /\ cached' = None
  /\ UNCHANGED <<month, user, periods, agentVars, editVars, reset, stats, crashes, histVars>>

(* A request reads the user, to change the profile or (q) the quota.  A    *)
(* login finds the user by name, past the cache.                           *)
EditRead(e, q) ==
  /\ edit[e].at = "idle" /\ RoomLeft
  /\ edits' = edits + 1
  /\ cached' = Found
  /\ edit' = [edit EXCEPT ![e] =
                [at |-> "read", quota |-> q,
                 copy |-> IF q = None THEN Found ELSE [Found EXCEPT !.quota = q]]]
  /\ UNCHANGED <<month, user, periods, agentVars, reset, stats, crashes, histVars>>

LoginRead(e) ==
  /\ edit[e].at = "idle" /\ RoomLeft
  /\ edits' = edits + 1
  /\ edit' = [edit EXCEPT ![e] = [at |-> "read", quota |-> None, copy |-> user]]
  /\ UNCHANGED <<month, rowVars, agentVars, reset, stats, crashes, histVars>>

(* Save clears the cache, and then writes every column.                    *)
EditForget(e) ==
  /\ edit[e].at = "read"
  /\ cached' = None
  /\ edit' = [edit EXCEPT ![e].at = "forgot"]
  /\ UNCHANGED <<month, user, periods, agentVars, edits, reset, stats, crashes, histVars>>

OutOfDate(copy, q) == \/ copy.used # user.used
                      \/ copy.exceeded # user.exceeded
                      \/ q = None /\ copy.quota # user.quota

EditWrite(e) ==
  /\ edit[e].at = "forgot"
  /\ user' = edit[e].copy
  /\ stale' = (stale \/ OutOfDate(edit[e].copy, edit[e].quota))
  /\ edit' = [edit EXCEPT ![e] = IF edit[e].quota = None THEN Rest
                                 ELSE [edit[e] EXCEPT !.at = "sync"]]
  /\ UNCHANGED <<month, cached, periods, agentVars, edits, reset, stats, crashes,
                 charged, dropped, statsLost>>

(* SyncQuotaToCurrentPeriod: nothing to do without a current period;       *)
(* otherwise the new quota is written and decides anew whether it is       *)
(* exceeded; that is read back, compared with the user, and written there  *)
(* if it differs.                                                          *)
SyncFind(e) ==
  /\ edit[e].at = "sync"
  /\ edit' = [edit EXCEPT ![e] = IF periods[month] = None THEN Rest
                                 ELSE [edit[e] EXCEPT !.at = "update"]]
  /\ UNCHANGED <<month, rowVars, agentVars, edits, reset, stats, crashes, histVars>>

(* Mutant: the flag stays as it was.                                       *)
RequotedKept(p, q) == [p EXCEPT !.quota = q]

Requoted(p, q) == [p EXCEPT !.quota = q, !.exceeded = q > 0 /\ p.used >= q]

SyncUpdate(e) ==
  /\ edit[e].at = "update"
  /\ LET q == edit[e].quota IN
       IF periods[month] = None
       THEN /\ edit' = [edit EXCEPT ![e].at = "compare", ![e].copy.exceeded = FALSE]
            /\ UNCHANGED <<periods, stale>>
       ELSE /\ edit' = [edit EXCEPT ![e].at = "readback"]
            /\ periods' = [periods EXCEPT ![month] = Requoted(@, q)]
            /\ stale' = (stale \/ q # user.quota)
  /\ UNCHANGED <<month, user, cached, agentVars, edits, reset, stats, crashes,
                 charged, dropped, statsLost>>

SyncRead(e) ==
  /\ edit[e].at = "readback"
  /\ edit' = [edit EXCEPT ![e].at = "compare",
                          ![e].copy.exceeded = periods[month] # None /\ periods[month].exceeded]
  /\ UNCHANGED <<month, rowVars, agentVars, edits, reset, stats, crashes, histVars>>

SyncCompare(e) ==
  /\ edit[e].at = "compare"
  /\ cached' = Found
  /\ edit' = [edit EXCEPT ![e] = IF Found.exceeded = edit[e].copy.exceeded THEN Rest
                                 ELSE [edit[e] EXCEPT !.at = "set"]]
  /\ stale' = (stale \/ Found.exceeded # user.exceeded)
  /\ UNCHANGED <<month, user, periods, agentVars, edits, reset, stats, crashes,
                 charged, dropped, statsLost>>

(* The flag of the user is written as it was read, whatever a batch has    *)
(* found since.                                                            *)
Contradicts(flag) == flag # (periods[month] # None /\ periods[month].exceeded)

SyncSet(e) ==
  /\ edit[e].at = "set"
  /\ user' = [user EXCEPT !.exceeded = edit[e].copy.exceeded]
  /\ stale' = (stale \/ Contradicts(edit[e].copy.exceeded))
  /\ edit' = [edit EXCEPT ![e] = Rest]
  /\ UNCHANGED <<month, cached, periods, agentVars, edits, reset, stats, crashes,
                 charged, dropped, statsLost>>

(* A statement fails: the request ends where it is.                        *)
EditFails(e) ==
  /\ edit[e].at \in {"forgot"} \cup Syncing
  /\ stale' = (stale \/ edit[e].at \in Syncing)
  /\ edit' = [edit EXCEPT ![e] = Rest]
  /\ UNCHANGED <<month, rowVars, agentVars, edits, reset, stats, crashes,
                 charged, dropped, statsLost>>
-----------------------------------------------------------------------------
NextMonth ==
  /\ month < MaxMonth
  /\ month' = month + 1
  /\ UNCHANGED <<rowVars, agentVars, editVars, reset, stats, crashes, histVars>>

(* The nightly job takes users with a period that is over and was not      *)
(* exceeded, and gives each a period for the present month; the insert     *)
(* fails if there is one.  The user is let go if the copy says exceeded.   *)
ResetRead ==
  /\ reset.at = "idle"
  /\ \E m \in Months : m < month /\ periods[m] # None /\ ~periods[m].exceeded
  /\ cached' = Found
  /\ reset' = [at |-> "create", copy |-> Found, month |-> month]
  /\ UNCHANGED <<month, user, periods, agentVars, editVars, stats, crashes, histVars>>

Inserted(m, p) == IF periods[m] = None THEN p ELSE periods[m]

ResetCreate ==
  /\ reset.at = "create"
  /\ LET q == reset.copy.quota
         p == [used |-> 0, quota |-> q, exceeded |-> FALSE]
         new == Inserted(reset.month, p) IN
       /\ periods' = [periods EXCEPT ![reset.month] = new]
       /\ stale' = (stale \/ (periods[reset.month] = None /\ q # user.quota))
       /\ reset' = IF /\ periods[reset.month] = None
                      /\ reset.copy.exceeded /\ q > 0
                   THEN [reset EXCEPT !.at = "clear"] ELSE Asleep
  /\ UNCHANGED <<month, user, cached, agentVars, editVars, stats, crashes,
                 charged, dropped, statsLost>>

ResetClear ==
  /\ reset.at = "clear"
  /\ user' = [user EXCEPT !.exceeded = FALSE]
  /\ stale' = (stale \/ Contradicts(FALSE))
  /\ reset' = Asleep
  /\ UNCHANGED <<month, cached, periods, agentVars, editVars, stats, crashes,
                 charged, dropped, statsLost>>

ResetFails ==
  /\ reset.at # "idle"
  /\ reset' = Asleep
  /\ UNCHANGED <<month, rowVars, agentVars, editVars, stats, crashes, histVars>>

(* The panel dies: requests, jobs, cache and accumulators with it.         *)
AtStep(s) == {h \in Handlers : call[h].at = s}

Crash ==
  /\ RoomLeft
  /\ crashes' = crashes + 1
  /\ cached' = None
  /\ call' = [h \in Handlers |-> Free]
  /\ edit' = [e \in Editors |-> Rest]
  /\ reset' = Asleep
  /\ stats' = [stats EXCEPT !.memory = 0, !.taken = 0]
  /\ dropped' = dropped \cup {call[h].report : h \in AtStep("batch")}
  /\ statsLost' = statsLost + stats.memory + stats.taken + Cardinality(AtStep("stats"))
  /\ stale' = (stale \/ \E e \in Editors : edit[e].at \in Syncing)
  /\ UNCHANGED <<month, user, periods, marked, report, edits, charged>>
-----------------------------------------------------------------------------
Next ==
  \/ \E r \in Reports : \/ GiveUp(r) \/ Deduplicated(r)
                        \/ \E h \in Handlers : Mark(r, h)
  \/ \E h \in Handlers : Batch(h) \/ BatchFails(h) \/ CollectStats(h)
  \/ StatsFlush \/ StatsStore \/ StatsMerge
  \/ Look \/ Expire
  \/ \E e \in Editors :
       \/ \E q \in Quotas \cup {None} : EditRead(e, q)
       \/ LoginRead(e) \/ EditForget(e) \/ EditWrite(e)
       \/ SyncFind(e) \/ SyncUpdate(e) \/ SyncRead(e) \/ SyncCompare(e) \/ SyncSet(e)
       \/ EditFails(e)
  \/ NextMonth
  \/ ResetRead \/ ResetCreate \/ ResetClear \/ ResetFails
  \/ Crash

Spec == Init /\ [][Next]_vars
-----------------------------------------------------------------------------
TypeOK ==
  /\ month \in Months
  /\ user \in Row
  /\ cached \in Row \cup {None}
  /\ periods \in [Months -> Row \cup {None}]
  /\ marked \subseteq Reports
  /\ report \in [Reports -> {"sending", "ok", "failed"}]
  /\ call \in [Handlers -> {Free} \cup [report : Reports, at : {"batch", "stats"}]]
  /\ edit \in [Editors -> {Rest} \cup [at : {"read", "forgot"} \cup Syncing, copy : Row,
                                       quota : Quotas \cup {None}]]
  /\ edits \in Nat
  /\ reset \in {Asleep} \cup [at : {"create", "clear"}, copy : Row, month : Months]
  /\ stats \in [memory : Nat, taken : Nat, stored : Nat]
  /\ crashes \in Nat
  /\ charged \in [Reports -> Months \cup {None}]
  /\ dropped \subseteq Reports
  /\ statsLost \in Nat
  /\ stale \in BOOLEAN

(* Whatever is retried, repeated, late or rolled back, and whatever else   *)
(* writes the rows: the period of a month holds exactly the traffic of the *)
(* reports charged in it, each once.                                       *)
ChargedIn(m) == {r \in Reports : charged[r] = m}

PeriodsExact ==
  \A m \in Months : (IF periods[m] = None THEN 0 ELSE periods[m].used)
                      = Cardinality(ChargedIn(m))

(* The mark of a report and its charge are two transactions.  A report the *)
(* agent was told is accepted has been charged, or is about to be, unless  *)
(* its batch failed after the mark; and what failed so is never charged.   *)
AcceptedCharged ==
  \A r \in Reports :
    /\ report[r] = "ok" => \/ charged[r] # None
                           \/ r \in dropped
                           \/ \E h \in Handlers : call[h] = [report |-> r, at |-> "batch"]
    /\ r \in dropped => charged[r] = None

(* The statistics account for every charge, but for those a crash took out *)
(* of memory.                                                              *)
StatsAccount ==
  stats.memory + stats.taken + stats.stored + statsLost + Cardinality(AtStep("stats"))
    = Cardinality({r \in Reports : charged[r] # None})

(* A period is marked exceeded exactly when its quota is used up, after a  *)
(* charge, a change of the quota or the reset.                             *)
ExceededExact ==
  \A m \in Months : periods[m] # None =>
    (periods[m].exceeded <=> periods[m].quota > 0 /\ periods[m].used >= periods[m].quota)

(* The row of the user and the period of the month are written apart.  As  *)
(* long as nobody has written back what somebody else had changed since it *)
(* was read, and no change of the quota is under way: the user has been    *)
(* charged what the periods have, a user over the quota is suspended, no   *)
(* user is suspended who never was over it, and both rows have one quota.  *)
Settled == \A e \in Editors : edit[e].at \notin Syncing

RowsAgree ==
  ~stale /\ Settled =>
    /\ user.used = Cardinality({r \in Reports : charged[r] # None})
    /\ user.exceeded => \E m \in Months : periods[m] # None /\ periods[m].exceeded
    /\ periods[month] # None =>
         /\ periods[month].exceeded => user.exceeded
         /\ periods[month].quota = user.quota
=============================================================================
