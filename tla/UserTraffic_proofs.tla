------------------------- MODULE UserTraffic_proofs -------------------------
(***************************************************************************)
(* Proofs about what a user is charged for, for any number of reports,     *)
(* requests, saves and crashes.                                            *)
(***************************************************************************)
EXTENDS UserTraffic, FiniteSetTheorems, TLAPS

(* Types.  A change of the quota that goes on to the period has a quota.   *)
EditsFormed == \A e \in Editors : edit[e].at \in Syncing => edit[e].quota \in Quotas

Types == TypeOK /\ EditsFormed

LEMMA InitTypes == Init => Types
<1> SUFFICES ASSUME Init PROVE Types
  OBVIOUS
<1>1. user \in Row
  BY UserTrafficAssumption DEF Init, Row
<1>2. month \in Months
  BY UserTrafficAssumption DEF Init, Months
<1>3. EditsFormed
  BY DEF Init, EditsFormed, Rest, Syncing
<1> QED
  BY <1>1, <1>2, <1>3 DEF Init, Types, TypeOK

(* The steps of the reports and the statistics keep the types.             *)
LEMMA ReportTypes ==
  ASSUME Types, NEW r \in Reports,
         GiveUp(r) \/ Deduplicated(r) \/ \E h \in Handlers : Mark(r, h)
  PROVE  Types'
<1>1. CASE GiveUp(r)
  BY <1>1 DEF GiveUp, Types, TypeOK, EditsFormed, rowVars, editVars, histVars
<1>2. CASE Deduplicated(r)
  BY <1>2 DEF Deduplicated, Told, Types, TypeOK, EditsFormed, rowVars, editVars, histVars
<1>3. ASSUME NEW h \in Handlers, Mark(r, h) PROVE Types'
  BY <1>3 DEF Mark, Types, TypeOK, EditsFormed, rowVars, editVars, histVars, Free
<1> QED
  BY <1>1, <1>2, <1>3

(* The row a batch charges is one, and stays one.                          *)
LEMMA CurrentRow == Types => Current \in Row
  BY DEF Types, TypeOK, Current, Row

LEMMA ChargedRow ==
  ASSUME NEW p \in Row, NEW flag \in BOOLEAN
  PROVE  [p EXCEPT !.used = @ + 1, !.exceeded = @ \/ flag] \in Row
<1>1. (p.exceeded \/ flag) \in BOOLEAN
  OBVIOUS
<1>2. p.used + 1 \in Nat
  BY DEF Row
<1> QED
  BY <1>1, <1>2 DEF Row

LEMMA Busy ==
  ASSUME Types, NEW h \in Handlers, call[h].at # "idle"
  PROVE  /\ call[h] \in [report : Reports, at : {"batch", "stats"}]
         /\ call[h].report \in Reports
<1>1. call[h] \in {Free} \cup [report : Reports, at : {"batch", "stats"}]
  BY DEF Types, TypeOK
<1> QED
  BY <1>1 DEF Free

LEMMA BatchTypes ==
  ASSUME Types, NEW h \in Handlers, Batch(h) \/ BatchFails(h) \/ CollectStats(h)
  PROVE  Types'
<1>0. /\ call[h] \in [report : Reports, at : {"batch", "stats"}]
      /\ call[h].report \in Reports
  BY Busy DEF Batch, BatchFails, CollectStats
<1>1. CASE Batch(h)
  <2>1. month \in Months /\ Current \in Row
    BY CurrentRow DEF Types, TypeOK
  <2>2. periods' \in [Months -> Row \cup {None}]
    <3>1. [Current EXCEPT !.used = @ + 1, !.exceeded = @ \/ GoesOver(Current)] \in Row
      <4>1. GoesOver(Current) \in BOOLEAN
        BY DEF GoesOver
      <4> QED
        BY <2>1, <4>1, ChargedRow
    <3> QED
      BY <1>1, <2>1, <3>1 DEF Batch, Types, TypeOK
  <2>3. user' \in Row
    <3>1. GoesOver(Current) \in BOOLEAN
      BY DEF GoesOver
    <3> QED
      BY <1>1, <3>1, ChargedRow DEF Batch, UserCharged, Types, TypeOK
  <2>4. call' \in [Handlers -> {Free} \cup [report : Reports, at : {"batch", "stats"}]]
    BY <1>0, <1>1 DEF Batch, Types, TypeOK
  <2>5. charged' \in [Reports -> Months \cup {None}]
    BY <1>0, <1>1, <2>1 DEF Batch, Types, TypeOK
  <2> QED
    BY <1>1, <2>2, <2>3, <2>4, <2>5 DEF Batch, Types, TypeOK, EditsFormed, editVars
<1>2. CASE BatchFails(h)
  BY <1>0, <1>2 DEF BatchFails, Told, Types, TypeOK, EditsFormed, rowVars, editVars, Free
<1>3. CASE CollectStats(h)
  BY <1>0, <1>3 DEF CollectStats, Told, Types, TypeOK, EditsFormed, rowVars, editVars, histVars, Free
<1> QED
  BY <1>1, <1>2, <1>3

LEMMA StatsTypes == Types /\ (StatsFlush \/ StatsStore \/ StatsMerge) => Types'
<1> SUFFICES ASSUME Types, StatsFlush \/ StatsStore \/ StatsMerge PROVE Types'
  OBVIOUS
<1>1. stats' \in [memory : Nat, taken : Nat, stored : Nat]
  <2>1. stats \in [memory : Nat, taken : Nat, stored : Nat]
    BY DEF Types, TypeOK
  <2>2. stats.memory + stats.taken \in Nat /\ stats.stored + stats.taken \in Nat
    BY <2>1
  <2>3. CASE StatsFlush
    BY <2>1, <2>3 DEF StatsFlush
  <2>4. CASE StatsStore
    BY <2>1, <2>2, <2>4 DEF StatsStore
  <2>5. CASE StatsMerge
    BY <2>1, <2>2, <2>5 DEF StatsMerge, Merged
  <2> QED
    BY <2>3, <2>4, <2>5
<1> QED
  BY <1>1 DEF StatsFlush, StatsStore, StatsMerge, Types, TypeOK, EditsFormed,
              rowVars, agentVars, editVars, histVars

(* FindByID answers with a row.                                            *)
LEMMA FoundRow == Types => Found \in Row
  BY DEF Types, TypeOK, Found

LEMMA CacheTypes == Types /\ (Look \/ Expire \/ NextMonth) => Types'
  BY UserTrafficAssumption
     DEF Look, Expire, NextMonth, Types, TypeOK, EditsFormed, Months, Syncing,
         rowVars, agentVars, editVars, histVars

(* A request that saves the user holds a copy of the row; one that goes on *)
(* to the period also has a quota.                                         *)
LEMMA Editing ==
  ASSUME Types, NEW e \in Editors, edit[e].at # "idle"
  PROVE  /\ edit[e] \in [at : {"read", "forgot"} \cup Syncing, copy : Row,
                         quota : Quotas \cup {None}]
         /\ edit[e].copy \in Row
         /\ edit[e].at \in Syncing => edit[e].quota \in Quotas
<1>1. edit[e] \in {Rest} \cup [at : {"read", "forgot"} \cup Syncing, copy : Row,
                               quota : Quotas \cup {None}]
  BY DEF Types, TypeOK
<1> QED
  BY <1>1 DEF Rest, Types, EditsFormed

(* What one request becomes keeps the types of all.                        *)
EditState == {Rest} \cup [at : {"read", "forgot"} \cup Syncing, copy : Row, quota : Quotas \cup {None}]

LEMMA EditTyped ==
  ASSUME Types, NEW e \in Editors, NEW s \in EditState,
         s.at \in Syncing => s.quota \in Quotas,
         edit' = [edit EXCEPT ![e] = s]
  PROVE  EditsFormed' /\ edit' \in [Editors -> EditState]
  BY DEF Types, TypeOK, EditsFormed, EditState

LEMMA ReadTypes ==
  ASSUME Types, NEW e \in Editors, LoginRead(e) \/ \E q \in Quotas \cup {None} : EditRead(e, q)
  PROVE  Types'
<1>1. Found \in Row /\ user \in Row
  BY FoundRow DEF Types, TypeOK
<1>2. CASE LoginRead(e)
  <2> DEFINE s == [at |-> "read", quota |-> None, copy |-> user]
  <2>1. s \in EditState /\ s.at \notin Syncing
    BY <1>1 DEF EditState, Syncing
  <2>2. EditsFormed' /\ edit' \in [Editors -> EditState]
    BY <1>2, <2>1, EditTyped DEF LoginRead
  <2> QED
    BY <1>2, <2>2 DEF LoginRead, Types, TypeOK, EditState, rowVars, agentVars, histVars
<1>3. ASSUME NEW q \in Quotas \cup {None}, EditRead(e, q) PROVE Types'
  <2> DEFINE s == [at |-> "read", quota |-> q,
                   copy |-> IF q = None THEN Found ELSE [Found EXCEPT !.quota = q]]
  <2>1. s \in EditState /\ s.at \notin Syncing
    BY <1>1, UserTrafficAssumption DEF EditState, Syncing, Row
  <2>2. EditsFormed' /\ edit' \in [Editors -> EditState]
    BY <1>3, <2>1, EditTyped DEF EditRead
  <2> QED
    BY <1>1, <1>3, <2>2 DEF EditRead, Types, TypeOK, EditState, agentVars, histVars
<1> QED
  BY <1>2, <1>3

LEMMA SaveTypes ==
  ASSUME Types, NEW e \in Editors, EditForget(e) \/ EditWrite(e) \/ EditFails(e)
  PROVE  Types'
<1>0. /\ edit[e] \in [at : {"read", "forgot"} \cup Syncing, copy : Row, quota : Quotas \cup {None}]
      /\ edit[e].copy \in Row
  BY Editing DEF EditForget, EditWrite, EditFails, Syncing
<1>1. CASE EditForget(e)
  <2> DEFINE s == [edit[e] EXCEPT !.at = "forgot"]
  <2>1. s \in EditState /\ s.at \notin Syncing
    BY <1>0 DEF EditState, Syncing
  <2>2. edit' = [edit EXCEPT ![e] = s]
    BY <1>1 DEF EditForget
  <2>3. EditsFormed' /\ edit' \in [Editors -> EditState]
    BY <2>1, <2>2, EditTyped
  <2> QED
    BY <1>1, <2>3 DEF EditForget, Types, TypeOK, EditState, agentVars, histVars
<1>2. CASE EditWrite(e)
  <2> DEFINE s == IF edit[e].quota = None THEN Rest ELSE [edit[e] EXCEPT !.at = "sync"]
  <2>1. s \in EditState /\ (s.at \in Syncing => s.quota \in Quotas)
    BY <1>0 DEF EditState, Syncing, Rest
  <2>2. EditsFormed' /\ edit' \in [Editors -> EditState]
    BY <1>2, <2>1, EditTyped DEF EditWrite
  <2>3. stale' \in BOOLEAN
    BY <1>2 DEF EditWrite, OutOfDate, Types, TypeOK
  <2> QED
    BY <1>0, <1>2, <2>2, <2>3 DEF EditWrite, Types, TypeOK, EditState, agentVars
<1>3. CASE EditFails(e)
  <2>1. Rest \in EditState /\ Rest.at \notin Syncing
    BY DEF EditState, Rest, Syncing
  <2>2. EditsFormed' /\ edit' \in [Editors -> EditState]
    BY <1>3, <2>1, EditTyped DEF EditFails
  <2>3. stale' \in BOOLEAN
    BY <1>3 DEF EditFails, Types, TypeOK
  <2> QED
    BY <1>3, <2>2, <2>3 DEF EditFails, Types, TypeOK, EditState, rowVars, agentVars
<1> QED
  BY <1>1, <1>2, <1>3

LEMMA RequotedRow ==
  ASSUME NEW p \in Row, NEW q \in Nat
  PROVE  Requoted(p, q) \in Row
<1>1. (q > 0 /\ p.used >= q) \in BOOLEAN
  OBVIOUS
<1> QED
  BY <1>1 DEF Requoted, Row

LEMMA SyncTypes ==
  ASSUME Types, NEW e \in Editors,
         SyncFind(e) \/ SyncUpdate(e) \/ SyncRead(e) \/ SyncCompare(e) \/ SyncSet(e)
  PROVE  Types'
<1>0. /\ edit[e].at \in Syncing
      /\ edit[e] \in [at : {"read", "forgot"} \cup Syncing, copy : Row, quota : Quotas \cup {None}]
      /\ edit[e].copy \in Row
      /\ edit[e].quota \in Quotas /\ edit[e].quota \in Nat
  BY Editing, UserTrafficAssumption
     DEF SyncFind, SyncUpdate, SyncRead, SyncCompare, SyncSet, Syncing
<1>1. Rest \in EditState /\ Rest.at \notin Syncing
  BY DEF EditState, Rest, Syncing
<1>2. CASE SyncFind(e)
  <2> DEFINE s == IF periods[month] = None THEN Rest ELSE [edit[e] EXCEPT !.at = "update"]
  <2>1. s \in EditState /\ (s.at \in Syncing => s.quota \in Quotas)
    BY <1>0, <1>1 DEF EditState, Syncing
  <2>2. EditsFormed' /\ edit' \in [Editors -> EditState]
    BY <1>2, <2>1, EditTyped DEF SyncFind
  <2> QED
    BY <1>2, <2>2 DEF SyncFind, Types, TypeOK, EditState, rowVars, agentVars, histVars
<1>3. CASE SyncUpdate(e)
  <2> DEFINE c == [edit[e].copy EXCEPT !.exceeded = FALSE]
             s == IF periods[month] = None THEN [edit[e] EXCEPT !.at = "compare", !.copy = c]
                  ELSE [edit[e] EXCEPT !.at = "readback"]
  <2>1. c \in Row
    BY <1>0 DEF Row
  <2>2. s \in EditState /\ (s.at \in Syncing => s.quota \in Quotas)
    BY <1>0, <2>1 DEF EditState, Syncing
  <2>3. edit' = [edit EXCEPT ![e] = s]
    <3>1. CASE periods[month] = None
      <4>1. edit' = [edit EXCEPT ![e].at = "compare", ![e].copy.exceeded = FALSE]
        BY <1>3, <3>1 DEF SyncUpdate
      <4>2. edit \in [Editors -> EditState]
        BY DEF Types, TypeOK, EditState
      <4> QED
        BY <1>0, <3>1, <4>1, <4>2
    <3>2. CASE periods[month] # None
      BY <1>3, <3>2 DEF SyncUpdate
    <3> QED
      BY <3>1, <3>2
  <2>4. EditsFormed' /\ edit' \in [Editors -> EditState]
    BY <2>2, <2>3, EditTyped
  <2>5. month \in Months /\ periods[month] \in Row \cup {None}
    BY DEF Types, TypeOK
  <2>6. periods' \in [Months -> Row \cup {None}]
    <3>1. CASE periods[month] = None
      BY <1>3, <3>1 DEF SyncUpdate, Types, TypeOK
    <3>2. CASE periods[month] # None
      <4>1. Requoted(periods[month], edit[e].quota) \in Row
        BY <1>0, <2>5, <3>2, RequotedRow
      <4>2. periods' = [periods EXCEPT ![month] = Requoted(periods[month], edit[e].quota)]
        BY <1>3, <3>2 DEF SyncUpdate
      <4> QED
        BY <2>5, <4>1, <4>2 DEF Types, TypeOK
    <3> QED
      BY <3>1, <3>2
  <2>7. stale' \in BOOLEAN
    BY <1>3 DEF SyncUpdate, Types, TypeOK
  <2> QED
    BY <1>3, <2>4, <2>6, <2>7 DEF SyncUpdate, Types, TypeOK, EditState, agentVars
<1>4. CASE SyncRead(e)
  <2> DEFINE flag == periods[month] # None /\ periods[month].exceeded
             c == [edit[e].copy EXCEPT !.exceeded = flag]
             s == [edit[e] EXCEPT !.at = "compare", !.copy = c]
  <2>1. c \in Row
    <3>1. flag \in BOOLEAN
      OBVIOUS
    <3> HIDE DEF flag
    <3> QED
      BY <1>0, <3>1 DEF Row
  <2>2. s \in EditState /\ (s.at \in Syncing => s.quota \in Quotas)
    BY <1>0, <2>1 DEF EditState, Syncing
  <2>3. edit' = [edit EXCEPT ![e] = s]
    BY <1>4 DEF SyncRead
  <2>4. EditsFormed' /\ edit' \in [Editors -> EditState]
    BY <2>2, <2>3, EditTyped
  <2> QED
    BY <1>4, <2>4 DEF SyncRead, Types, TypeOK, EditState, rowVars, agentVars, histVars
<1>5. CASE SyncCompare(e)
  <2> DEFINE s == IF Found.exceeded = edit[e].copy.exceeded THEN Rest
                  ELSE [edit[e] EXCEPT !.at = "set"]
  <2>1. s \in EditState /\ (s.at \in Syncing => s.quota \in Quotas)
    BY <1>0, <1>1 DEF EditState, Syncing
  <2>2. EditsFormed' /\ edit' \in [Editors -> EditState]
    BY <1>5, <2>1, EditTyped DEF SyncCompare
  <2>3. stale' \in BOOLEAN
    BY <1>5 DEF SyncCompare, Types, TypeOK
  <2> QED
    BY <1>5, <2>2, <2>3, FoundRow DEF SyncCompare, Types, TypeOK, EditState, agentVars
<1>6. CASE SyncSet(e)
  <2>1. EditsFormed' /\ edit' \in [Editors -> EditState]
    BY <1>1, <1>6, EditTyped DEF SyncSet
  <2>2. stale' \in BOOLEAN
    BY <1>6 DEF SyncSet, Types, TypeOK
  <2>3. user' \in Row
    BY <1>0, <1>6 DEF SyncSet, Types, TypeOK, Row
  <2> QED
    BY <1>6, <2>1, <2>2, <2>3 DEF SyncSet, Types, TypeOK, EditState, agentVars
<1> QED
  BY <1>2, <1>3, <1>4, <1>5, <1>6

LEMMA ResetTypes ==
  ASSUME Types, ResetRead \/ ResetCreate \/ ResetClear \/ ResetFails
  PROVE  Types'
<1>0. reset.at # "idle" => /\ reset \in [at : {"create", "clear"}, copy : Row, month : Months]
                           /\ reset.copy \in Row /\ reset.month \in Months
  <2>1. reset \in {Asleep} \cup [at : {"create", "clear"}, copy : Row, month : Months]
    BY DEF Types, TypeOK
  <2> QED
    BY <2>1 DEF Asleep
<1>1. CASE ResetRead
  <2>1. month \in Months /\ Found \in Row
    BY FoundRow DEF Types, TypeOK
  <2> QED
    BY <1>1, <2>1 DEF ResetRead, Types, TypeOK, EditsFormed, agentVars, editVars, histVars
<1>2. CASE ResetCreate
  <2> DEFINE p == [used |-> 0, quota |-> reset.copy.quota, exceeded |-> FALSE]
  <2>1. p \in Row /\ reset.month \in Months
    BY <1>0, <1>2 DEF ResetCreate, Row
  <2>2. periods' \in [Months -> Row \cup {None}]
    BY <1>2, <2>1 DEF ResetCreate, Inserted, Types, TypeOK
  <2>3. reset' \in {Asleep} \cup [at : {"create", "clear"}, copy : Row, month : Months]
    BY <1>0, <1>2 DEF ResetCreate
  <2>4. stale' \in BOOLEAN
    BY <1>2 DEF ResetCreate, Types, TypeOK
  <2> QED
    BY <1>2, <2>2, <2>3, <2>4 DEF ResetCreate, Types, TypeOK, EditsFormed, agentVars, editVars
<1>3. CASE ResetClear
  <2>1. user' \in Row
    BY <1>3 DEF ResetClear, Types, TypeOK, Row
  <2>2. stale' \in BOOLEAN
    BY <1>3 DEF ResetClear, Types, TypeOK
  <2> QED
    BY <1>3, <2>1, <2>2 DEF ResetClear, Types, TypeOK, EditsFormed, agentVars, editVars
<1>4. CASE ResetFails
  BY <1>4 DEF ResetFails, Types, TypeOK, EditsFormed, rowVars, agentVars, editVars, histVars
<1> QED
  BY <1>1, <1>2, <1>3, <1>4

(* Requests at a step are finitely many.                                   *)
LEMMA AtStepFinite ==
  ASSUME NEW s
  PROVE  IsFiniteSet(AtStep(s)) /\ Cardinality(AtStep(s)) \in Nat
<1>1. AtStep(s) \in SUBSET Handlers
  BY DEF AtStep
<1> QED
  BY <1>1, FS_Subset, FS_CardinalityType, UserTrafficAssumption

LEMMA CrashTypes == Types /\ Crash => Types'
<1> SUFFICES ASSUME Types, Crash PROVE Types'
  OBVIOUS
<1>1. statsLost' \in Nat
  BY AtStepFinite DEF Crash, Types, TypeOK
<1>2. dropped' \subseteq Reports
  <2>1. \A h \in AtStep("batch") : call[h].report \in Reports
    BY Busy DEF AtStep
  <2> QED
    BY <2>1 DEF Crash, Types, TypeOK
<1>3. EditsFormed' /\ edit' \in [Editors -> EditState]
  BY DEF Crash, EditsFormed, EditState, Rest, Syncing
<1>4. stats' \in [memory : Nat, taken : Nat, stored : Nat]
  BY DEF Crash, Types, TypeOK
<1>5. stale' \in BOOLEAN /\ crashes' \in Nat
  BY DEF Crash, Types, TypeOK
<1> QED
  BY <1>1, <1>2, <1>3, <1>4, <1>5 DEF Crash, Types, TypeOK, EditState

LEMMA StepTypes == Types /\ [Next]_vars => Types'
<1> SUFFICES ASSUME Types, [Next]_vars PROVE Types'
  OBVIOUS
<1>1. CASE UNCHANGED vars
  BY <1>1 DEF vars, rowVars, agentVars, editVars, histVars, Types, TypeOK, EditsFormed
<1>2. CASE Next
  BY <1>2, ReportTypes, BatchTypes, StatsTypes, CacheTypes, ReadTypes, SaveTypes, SyncTypes,
     ResetTypes, CrashTypes DEF Next
<1> QED
  BY <1>1, <1>2

(* TypeOK holds in every state.                                            *)
THEOREM TypeCorrect == Spec => []TypeOK
<1>1. Types => TypeOK
  BY DEF Types
<1>2. Spec => []Types
  BY InitTypes, StepTypes, PTL DEF Spec
<1> QED
  BY <1>1, <1>2, PTL

-----------------------------------------------------------------------------
(* What becomes of a report: once it is marked it is charged, dropped, or  *)
(* in the hands of one request that is about to charge it, and only one of *)
(* these.                                                                  *)
InBatch(r, h) == call[h].report = r /\ call[h].at = "batch"

Fate(r) ==
  /\ r \in marked <=> charged[r] # None \/ r \in dropped \/ \E h \in Handlers : InBatch(r, h)
  /\ r \in dropped => charged[r] = None
  /\ \A h \in Handlers : InBatch(r, h) => charged[r] = None /\ r \notin dropped
  /\ report[r] = "ok" => r \in marked

ReportFates ==
  /\ \A r \in Reports : Fate(r)
  /\ \A h, g \in Handlers : call[h].at = "batch" /\ call[g] = call[h] => g = h
  /\ \A h \in Handlers : call[h].at = "stats" => charged[call[h].report] # None

LEMMA InitFates == Init => ReportFates
  BY DEF Init, ReportFates, Fate, InBatch, Free

LEMMA SendFates ==
  ASSUME Types, ReportFates, NEW r \in Reports,
         GiveUp(r) \/ Deduplicated(r) \/ \E h \in Handlers : Mark(r, h)
  PROVE  ReportFates'
<1>1. CASE GiveUp(r)
  BY <1>1 DEF GiveUp, ReportFates, Fate, InBatch, histVars, Types, TypeOK
<1>2. CASE Deduplicated(r)
  BY <1>2 DEF Deduplicated, Told, Seen, ReportFates, Fate, InBatch, histVars, Types, TypeOK
<1>3. ASSUME NEW h \in Handlers, Mark(r, h) PROVE ReportFates'
  <2>1. /\ call[h] = Free /\ r \notin marked /\ marked' = marked \cup {r}
        /\ call'[h] = [report |-> r, at |-> "batch"]
        /\ \A g \in Handlers \ {h} : call'[g] = call[g]
        /\ UNCHANGED <<report, charged, dropped>>
    BY <1>3 DEF Mark, Seen, histVars, Types, TypeOK
  <2>2. Fate(r)
    BY DEF ReportFates
  <2>3. Fate(r)'
    BY <2>1, <2>2 DEF Fate, InBatch
  <2>4. ASSUME NEW s \in Reports, s # r PROVE Fate(s)'
    <3>1. \A g \in Handlers : InBatch(s, g)' <=> InBatch(s, g)
      BY <2>1, <2>4 DEF InBatch, Free
    <3> QED
      BY <2>1, <2>4, <3>1 DEF Fate, ReportFates
  <2>5. \A g \in Handlers : ~InBatch(r, g)
    BY <2>1, <2>2 DEF Fate
  <2>6. \A f, g \in Handlers : call'[f].at = "batch" /\ call'[g] = call'[f] => g = f
    BY <2>1, <2>5 DEF ReportFates, InBatch
  <2>7. \A g \in Handlers : call'[g].at = "stats" => charged'[call'[g].report] # None
    BY <2>1 DEF ReportFates
  <2> QED
    BY <2>3, <2>4, <2>6, <2>7 DEF ReportFates
<1> QED
  BY <1>1, <1>2, <1>3

LEMMA BatchFates ==
  ASSUME Types, ReportFates, NEW h \in Handlers, Batch(h) \/ BatchFails(h) \/ CollectStats(h)
  PROVE  ReportFates'
<1>0. PICK r \in Reports : r = call[h].report
  BY Busy DEF Batch, BatchFails, CollectStats
<1>1. call[h] \in [report : Reports, at : {"batch", "stats"}] /\ r = call[h].report
  BY <1>0, Busy DEF Batch, BatchFails, CollectStats
<1>2. \A g \in Handlers \ {h} : call[h].at = "batch" => ~InBatch(r, g)
  <2> SUFFICES ASSUME NEW g \in Handlers \ {h}, call[h].at = "batch", InBatch(r, g) PROVE FALSE
    OBVIOUS
  <2>1. call[g] \in [report : Reports, at : {"batch", "stats"}]
    BY Busy DEF InBatch
  <2>2. call[g] = call[h]
    BY <1>1, <2>1 DEF InBatch
  <2> QED
    BY <2>2 DEF ReportFates
<1>3. \A g \in Handlers : call[g].at = "stats" => call[g].report \in Reports
  BY Busy
<1>4. Fate(r)
  BY <1>1 DEF ReportFates
<1>5. CASE Batch(h)
  <2>1. /\ call[h].at = "batch" /\ call'[h] = [report |-> r, at |-> "stats"]
        /\ \A g \in Handlers \ {h} : call'[g] = call[g]
        /\ charged' = [charged EXCEPT ![r] = month]
        /\ UNCHANGED <<marked, report, dropped>>
    BY <1>1, <1>5 DEF Batch, Types, TypeOK
  <2>2. charged'[r] # None /\ \A s \in Reports \ {r} : charged'[s] = charged[s]
    BY <1>1, <2>1, UserTrafficAssumption DEF Types, TypeOK, Months
  <2>3. Fate(r)'
    BY <1>1, <1>2, <1>4, <2>1, <2>2 DEF Fate, InBatch
  <2>4. ASSUME NEW s \in Reports, s # r PROVE Fate(s)'
    <3>1. \A g \in Handlers : InBatch(s, g)' <=> InBatch(s, g)
      BY <1>1, <2>1, <2>4 DEF InBatch
    <3> QED
      BY <2>1, <2>2, <2>4, <3>1 DEF Fate, ReportFates
  <2>5. \A f, g \in Handlers : call'[f].at = "batch" /\ call'[g] = call'[f] => g = f
    BY <2>1 DEF ReportFates
  <2>6. \A g \in Handlers : call'[g].at = "stats" => charged'[call'[g].report] # None
    BY <1>3, <2>1, <2>2 DEF ReportFates
  <2> QED
    BY <2>3, <2>4, <2>5, <2>6 DEF ReportFates
<1>6. CASE BatchFails(h)
  <2>1. /\ call[h].at = "batch" /\ call'[h] = Free
        /\ \A g \in Handlers \ {h} : call'[g] = call[g]
        /\ dropped' = dropped \cup {r}
        /\ \A s \in Reports : report'[s] = "ok" => report[s] = "ok"
        /\ UNCHANGED <<marked, charged>>
    BY <1>1, <1>6 DEF BatchFails, Told, Types, TypeOK
  <2>2. Fate(r)'
    BY <1>1, <1>2, <1>4, <2>1 DEF Fate, InBatch, Free
  <2>3. ASSUME NEW s \in Reports, s # r PROVE Fate(s)'
    <3>1. \A g \in Handlers : InBatch(s, g)' <=> InBatch(s, g)
      BY <1>1, <2>1, <2>3 DEF InBatch, Free
    <3> QED
      BY <2>1, <2>3, <3>1 DEF Fate, ReportFates
  <2>4. \A f, g \in Handlers : call'[f].at = "batch" /\ call'[g] = call'[f] => g = f
    BY <2>1 DEF ReportFates, Free
  <2>5. \A g \in Handlers : call'[g].at = "stats" => charged'[call'[g].report] # None
    BY <2>1 DEF ReportFates, Free
  <2> QED
    BY <2>2, <2>3, <2>4, <2>5 DEF ReportFates
<1>7. CASE CollectStats(h)
  <2>1. /\ call[h].at = "stats" /\ call'[h] = Free
        /\ \A g \in Handlers \ {h} : call'[g] = call[g]
        /\ \A s \in Reports : report'[s] = "ok" => report[s] = "ok" \/ s = r
        /\ UNCHANGED <<marked, charged, dropped>>
    BY <1>1, <1>7 DEF CollectStats, Told, Types, TypeOK, histVars
  <2>2. r \in marked
    BY <1>1, <1>4, <2>1 DEF Fate, ReportFates
  <2>3. ASSUME NEW s \in Reports PROVE Fate(s)'
    <3>1. \A g \in Handlers : InBatch(s, g)' <=> InBatch(s, g)
      BY <2>1, <2>3 DEF InBatch, Free
    <3> QED
      BY <2>1, <2>2, <2>3, <3>1 DEF Fate, ReportFates
  <2>4. \A f, g \in Handlers : call'[f].at = "batch" /\ call'[g] = call'[f] => g = f
    BY <2>1 DEF ReportFates, Free
  <2>5. \A g \in Handlers : call'[g].at = "stats" => charged'[call'[g].report] # None
    BY <2>1 DEF ReportFates, Free
  <2> QED
    BY <2>3, <2>4, <2>5 DEF ReportFates
<1> QED
  BY <1>5, <1>6, <1>7

LEMMA CrashFates == Types /\ ReportFates /\ Crash => ReportFates'
<1> SUFFICES ASSUME Types, ReportFates, Crash PROVE ReportFates'
  OBVIOUS
<1>1. /\ \A h \in Handlers : call'[h] = Free
      /\ dropped' = dropped \cup {call[h].report : h \in AtStep("batch")}
      /\ UNCHANGED <<marked, report, charged>>
  BY DEF Crash
<1>2. ASSUME NEW r \in Reports PROVE Fate(r)'
  <2>1. r \in dropped' <=> r \in dropped \/ \E h \in Handlers : InBatch(r, h)
    BY <1>1 DEF AtStep, InBatch
  <2>2. Fate(r)
    BY DEF ReportFates
  <2>3. \A h \in Handlers : ~InBatch(r, h)'
    BY <1>1 DEF InBatch, Free
  <2> QED
    BY <1>1, <2>1, <2>2, <2>3 DEF Fate
<1> QED
  BY <1>1, <1>2 DEF ReportFates, Free

LEMMA StepFates == Types /\ ReportFates /\ [Next]_vars => ReportFates'
<1> SUFFICES ASSUME Types, ReportFates, [Next]_vars PROVE ReportFates'
  OBVIOUS
<1>1. CASE UNCHANGED <<marked, report, call, charged, dropped>>
  BY <1>1 DEF ReportFates, Fate, InBatch
<1>2. CASE UNCHANGED vars
  BY <1>1, <1>2 DEF vars, agentVars, histVars
<1>3. CASE StatsFlush \/ StatsStore \/ StatsMerge \/ Look \/ Expire \/ NextMonth
  BY <1>1, <1>3 DEF StatsFlush, StatsStore, StatsMerge, Look, Expire, NextMonth, agentVars, histVars
<1>4. CASE ResetRead \/ ResetCreate \/ ResetClear \/ ResetFails
  BY <1>1, <1>4 DEF ResetRead, ResetCreate, ResetClear, ResetFails, agentVars, histVars
<1>5. ASSUME NEW e \in Editors,
             \/ LoginRead(e) \/ EditForget(e) \/ EditWrite(e) \/ EditFails(e)
             \/ \E q \in Quotas \cup {None} : EditRead(e, q)
      PROVE  ReportFates'
  BY <1>1, <1>5 DEF EditRead, LoginRead, EditForget, EditWrite, EditFails, agentVars, histVars
<1>6. ASSUME NEW e \in Editors,
             SyncFind(e) \/ SyncUpdate(e) \/ SyncRead(e) \/ SyncCompare(e) \/ SyncSet(e)
      PROVE  ReportFates'
  BY <1>1, <1>6 DEF SyncFind, SyncUpdate, SyncRead, SyncCompare, SyncSet, agentVars, histVars
<1> QED
  BY <1>2, <1>3, <1>4, <1>5, <1>6, SendFates, BatchFates, CrashFates DEF Next

LEMMA Fates == Spec => [](Types /\ ReportFates)
<1>1. Init => Types /\ ReportFates
  BY InitTypes, InitFates
<1>2. Types /\ ReportFates /\ [Next]_vars => (Types /\ ReportFates)'
  BY StepTypes, StepFates
<1> QED
  BY <1>1, <1>2, PTL DEF Spec

(* What the agent was told is accepted is charged, or about to be, unless  *)
(* its batch failed; and what failed so is never charged.                  *)
THEOREM AcceptedTheorem == Spec => []AcceptedCharged
<1>1. Types /\ ReportFates => AcceptedCharged
  <2> SUFFICES ASSUME Types, ReportFates, NEW r \in Reports
               PROVE  /\ report[r] = "ok" => \/ charged[r] # None
                                             \/ r \in dropped
                                             \/ \E h \in Handlers : call[h] = [report |-> r, at |-> "batch"]
                      /\ r \in dropped => charged[r] = None
    BY DEF AcceptedCharged
  <2>1. \A h \in Handlers : InBatch(r, h) => call[h] = [report |-> r, at |-> "batch"]
    BY Busy DEF InBatch
  <2> QED
    BY <2>1 DEF ReportFates, Fate
<1> QED
  BY <1>1, Fates, PTL

-----------------------------------------------------------------------------
(* Amounts.  A batch charges one report that was not charged before; no    *)
(* other step charges.                                                     *)
AllCharged == {r \in Reports : charged[r] # None}

LEMMA Counts ==
  /\ IsFiniteSet(AllCharged) /\ Cardinality(AllCharged) \in Nat
  /\ \A m \in Months : IsFiniteSet(ChargedIn(m)) /\ Cardinality(ChargedIn(m)) \in Nat
<1>1. AllCharged \in SUBSET Reports /\ \A m \in Months : ChargedIn(m) \in SUBSET Reports
  BY DEF AllCharged, ChargedIn
<1> QED
  BY <1>1, FS_Subset, FS_CardinalityType, UserTrafficAssumption

LEMMA BatchCharges ==
  ASSUME Types, ReportFates, NEW h \in Handlers, Batch(h)
  PROVE  /\ Cardinality(AllCharged') = Cardinality(AllCharged) + 1
         /\ \A m \in Months :
              Cardinality(ChargedIn(m)') = Cardinality(ChargedIn(m)) + (IF m = month THEN 1 ELSE 0)
<1>1. PICK r \in Reports : r = call[h].report
  BY Busy DEF Batch
<1>2. charged[r] = None /\ charged' = [charged EXCEPT ![r] = month] /\ month' = month
  BY <1>1 DEF Batch, ReportFates, Fate, InBatch
<1>3. month \in Months /\ month # None
  BY UserTrafficAssumption DEF Types, TypeOK, Months
<1>4. /\ charged'[r] = month
      /\ \A s \in Reports \ {r} : charged'[s] = charged[s]
  BY <1>2 DEF Types, TypeOK
<1>5. AllCharged' = AllCharged \cup {r} /\ r \notin AllCharged
  BY <1>2, <1>3, <1>4 DEF AllCharged
<1>6. ASSUME NEW m \in Months
      PROVE  Cardinality(ChargedIn(m)') = Cardinality(ChargedIn(m)) + (IF m = month THEN 1 ELSE 0)
  <2>1. CASE m = month
    <3>1. ChargedIn(m)' = ChargedIn(m) \cup {r} /\ r \notin ChargedIn(m)
      BY <1>2, <1>3, <1>4, <2>1 DEF ChargedIn
    <3> QED
      BY <2>1, <3>1, Counts, FS_AddElement
  <2>2. CASE m # month
    <3>1. ChargedIn(m)' = ChargedIn(m)
      BY <1>2, <1>4, <2>2, UserTrafficAssumption DEF ChargedIn, Months
    <3> QED
      BY <2>2, <3>1, Counts
  <2> QED
    BY <2>1, <2>2
<1> QED
  BY <1>5, <1>6, Counts, FS_AddElement

(* Who touches what, for the lemmas on amounts.                            *)
LEMMA WhoCharges ==
  ASSUME [Next]_vars
  PROVE  \/ \E h \in Handlers : Batch(h)
         \/ UNCHANGED charged
  BY DEF Next, GiveUp, Deduplicated, Mark, BatchFails, CollectStats, StatsFlush, StatsStore,
         StatsMerge, Look, Expire, EditRead, LoginRead, EditForget, EditWrite, SyncFind,
         SyncUpdate, SyncRead, SyncCompare, SyncSet, EditFails, NextMonth, ResetRead,
         ResetCreate, ResetClear, ResetFails, Crash, vars, histVars

LEMMA WhoWritesPeriods ==
  ASSUME [Next]_vars
  PROVE  \/ \E h \in Handlers : Batch(h)
         \/ \E e \in Editors : SyncUpdate(e)
         \/ ResetCreate
         \/ UNCHANGED periods
  BY DEF Next, GiveUp, Deduplicated, Mark, BatchFails, CollectStats, StatsFlush, StatsStore,
         StatsMerge, Look, Expire, EditRead, LoginRead, EditForget, EditWrite, SyncFind,
         SyncRead, SyncCompare, SyncSet, EditFails, NextMonth, ResetRead,
         ResetClear, ResetFails, Crash, vars, rowVars

LEMMA WhoWritesCalls ==
  ASSUME [Next]_vars
  PROVE  \/ \E r \in Reports, h \in Handlers : Mark(r, h)
         \/ \E h \in Handlers : Batch(h) \/ BatchFails(h) \/ CollectStats(h)
         \/ StatsFlush \/ StatsStore \/ StatsMerge \/ Crash
         \/ UNCHANGED <<call, charged, stats, statsLost>>
  BY DEF Next, GiveUp, Deduplicated, Look, Expire, EditRead, LoginRead, EditForget, EditWrite,
         SyncFind, SyncUpdate, SyncRead, SyncCompare, SyncSet, EditFails, NextMonth, ResetRead,
         ResetCreate, ResetClear, ResetFails, vars, agentVars, histVars

(* What a change of the quota, and the reset, do to the periods.           *)
LEMMA SyncUpdateEffect ==
  ASSUME Types, NEW e \in Editors, SyncUpdate(e)
  PROVE  \/ UNCHANGED periods
         \/ /\ periods[month] \in Row
            /\ periods' = [periods EXCEPT ![month] = Requoted(periods[month], edit[e].quota)]
            /\ edit[e].quota \in Nat
<1>1. periods[month] \in Row \cup {None}
  BY DEF Types, TypeOK
<1>2. edit[e].quota \in Nat
  BY Editing, UserTrafficAssumption DEF SyncUpdate, Syncing
<1> QED
  BY <1>1, <1>2 DEF SyncUpdate

LEMMA ResetCreateEffect ==
  ASSUME Types, ResetCreate
  PROVE  \/ UNCHANGED periods
         \/ /\ reset.month \in Months /\ periods[reset.month] = None
            /\ reset.copy \in Row
            /\ periods' = [periods EXCEPT ![reset.month] =
                             [used |-> 0, quota |-> reset.copy.quota, exceeded |-> FALSE]]
<1>1. reset \in {Asleep} \cup [at : {"create", "clear"}, copy : Row, month : Months]
  BY DEF Types, TypeOK
<1>2. reset.copy \in Row /\ reset.month \in Months
  BY <1>1 DEF ResetCreate, Asleep
<1>3. CASE periods[reset.month] = None
  BY <1>2, <1>3 DEF ResetCreate, Inserted
<1>4. CASE periods[reset.month] # None
  BY <1>2, <1>4 DEF ResetCreate, Inserted, Types, TypeOK
<1> QED
  BY <1>3, <1>4

LEMMA StepPeriods ==
  Types /\ ReportFates /\ PeriodsExact /\ [Next]_vars => PeriodsExact'
<1> SUFFICES ASSUME Types, ReportFates, PeriodsExact, [Next]_vars, NEW m \in Months
             PROVE  (IF periods'[m] = None THEN 0 ELSE periods'[m].used)
                       = Cardinality(ChargedIn(m)')
  BY DEF PeriodsExact
<1>1. (IF periods[m] = None THEN 0 ELSE periods[m].used) = Cardinality(ChargedIn(m))
  BY DEF PeriodsExact
<1>2. UNCHANGED charged => ChargedIn(m)' = ChargedIn(m)
  BY DEF ChargedIn
<1>3. month \in Months /\ periods \in [Months -> Row \cup {None}]
  BY DEF Types, TypeOK
<1>4. ASSUME NEW h \in Handlers, Batch(h)
      PROVE  (IF periods'[m] = None THEN 0 ELSE periods'[m].used) = Cardinality(ChargedIn(m)')
  <2>1. periods' = [periods EXCEPT ![month] =
                      [Current EXCEPT !.used = @ + 1, !.exceeded = @ \/ GoesOver(Current)]]
    BY <1>4 DEF Batch
  <2>2. CASE m = month
    <3>1. Current.used = Cardinality(ChargedIn(m))
      BY <1>1, <2>2 DEF Current
    <3>2. [Current EXCEPT !.used = @ + 1, !.exceeded = @ \/ GoesOver(Current)] \in Row
      <4>1. GoesOver(Current) \in BOOLEAN
        BY DEF GoesOver
      <4> QED
        BY <4>1, CurrentRow, ChargedRow
    <3>3. periods'[m] = [Current EXCEPT !.used = @ + 1, !.exceeded = @ \/ GoesOver(Current)]
      BY <1>3, <2>1, <2>2
    <3>4. periods'[m] # None /\ periods'[m].used = Current.used + 1
      BY <3>2, <3>3, CurrentRow, UserTrafficAssumption DEF Row
    <3> QED
      BY <1>4, <2>2, <3>1, <3>4, BatchCharges
  <2>3. CASE m # month
    BY <1>1, <1>3, <1>4, <2>1, <2>3, BatchCharges, Counts
  <2> QED
    BY <2>2, <2>3
<1>5. ASSUME NEW e \in Editors, SyncUpdate(e), ~UNCHANGED periods
      PROVE  (IF periods'[m] = None THEN 0 ELSE periods'[m].used) = Cardinality(ChargedIn(m)')
  <2>1. /\ periods[month] \in Row
        /\ periods' = [periods EXCEPT ![month] = Requoted(periods[month], edit[e].quota)]
        /\ edit[e].quota \in Nat
    BY <1>5, SyncUpdateEffect
  <2>2. ChargedIn(m)' = ChargedIn(m)
    BY <1>2, <1>5 DEF SyncUpdate
  <2>3. CASE m = month
    <3>1. periods'[m] \in Row /\ periods'[m].used = periods[m].used
      BY <1>3, <2>1, <2>3, RequotedRow DEF Requoted, Row
    <3> QED
      BY <1>1, <2>1, <2>2, <2>3, <3>1, UserTrafficAssumption
  <2>4. CASE m # month
    BY <1>1, <1>3, <2>1, <2>2, <2>4
  <2> QED
    BY <2>3, <2>4
<1>6. ASSUME ResetCreate, ~UNCHANGED periods
      PROVE  (IF periods'[m] = None THEN 0 ELSE periods'[m].used) = Cardinality(ChargedIn(m)')
  <2>1. ChargedIn(m)' = ChargedIn(m)
    BY <1>2, <1>6 DEF ResetCreate
  <2>2. \/ periods'[m] = periods[m]
        \/ periods[m] = None /\ periods'[m].used = 0
    BY <1>3, <1>6, ResetCreateEffect
  <2> QED
    BY <1>1, <2>1, <2>2
<1>7. CASE UNCHANGED periods /\ UNCHANGED charged
  BY <1>1, <1>2, <1>7
<1> QED
  BY <1>4, <1>5, <1>6, <1>7, WhoCharges, WhoWritesPeriods DEF SyncUpdate, ResetCreate

(* The period of a month holds what was charged in it, each report once.   *)
THEOREM PeriodsTheorem == Spec => []PeriodsExact
<1>1. Init => PeriodsExact
  <2> SUFFICES ASSUME Init, NEW m \in Months
               PROVE  (IF periods[m] = None THEN 0 ELSE periods[m].used) = Cardinality(ChargedIn(m))
    BY DEF PeriodsExact
  <2>1. ChargedIn(m) = {}
    BY UserTrafficAssumption DEF Init, ChargedIn, Months
  <2> QED
    BY <2>1, FS_EmptySet DEF Init
<1>2. (Types /\ ReportFates) /\ PeriodsExact /\ [Next]_vars => PeriodsExact'
  BY StepPeriods
<1> QED
  BY <1>1, <1>2, Fates, PTL DEF Spec

(* A period is exceeded exactly when its quota is used up.                 *)
RowExact(p) == p.exceeded <=> p.quota > 0 /\ p.used >= p.quota

LEMMA ChargedExact ==
  ASSUME NEW p \in Row, RowExact(p)
  PROVE  RowExact([p EXCEPT !.used = @ + 1, !.exceeded = @ \/ GoesOver(p)])
<1> DEFINE n == [p EXCEPT !.used = @ + 1, !.exceeded = @ \/ GoesOver(p)]
<1>1. n.used = p.used + 1 /\ n.quota = p.quota /\ (n.exceeded <=> p.exceeded \/ GoesOver(p))
  BY DEF Row
<1>2. p.used \in Nat /\ p.quota \in Nat
  BY DEF Row
<1>3. p.used >= p.quota => p.used + 1 >= p.quota
  BY <1>2
<1> SUFFICES RowExact(n)
  OBVIOUS
<1> HIDE DEF n
<1>4. CASE p.exceeded
  BY <1>1, <1>3, <1>4 DEF RowExact
<1>5. CASE ~p.exceeded
  BY <1>1, <1>5 DEF RowExact, GoesOver
<1> QED
  BY <1>4, <1>5

LEMMA StepExceeded == Types /\ ExceededExact /\ [Next]_vars => ExceededExact'
<1> SUFFICES ASSUME Types, ExceededExact, [Next]_vars, NEW m \in Months, periods'[m] # None
             PROVE  RowExact(periods'[m])
  BY DEF ExceededExact, RowExact
<1>1. periods[m] # None => RowExact(periods[m])
  BY DEF ExceededExact, RowExact
<1>2. month \in Months /\ periods \in [Months -> Row \cup {None}]
  BY DEF Types, TypeOK
<1>3. ASSUME NEW h \in Handlers, Batch(h) PROVE RowExact(periods'[m])
  <2>1. periods' = [periods EXCEPT ![month] =
                      [Current EXCEPT !.used = @ + 1, !.exceeded = @ \/ GoesOver(Current)]]
    BY <1>3 DEF Batch
  <2>2. CASE m = month
    <3>1. Current \in Row /\ RowExact(Current)
      <4>1. CASE periods[month] # None
        BY <1>1, <2>2, <4>1, CurrentRow DEF Current
      <4>2. CASE periods[month] = None
        <5>1. Current = [used |-> 0, quota |-> user.quota, exceeded |-> FALSE] /\ user.quota \in Nat
          BY <4>2 DEF Current, Types, TypeOK, Row
        <5> QED
          BY <5>1, CurrentRow DEF RowExact
      <4> QED
        BY <4>1, <4>2
    <3> QED
      BY <1>2, <2>1, <2>2, <3>1, ChargedExact
  <2>3. CASE m # month
    BY <1>1, <1>2, <2>1, <2>3
  <2> QED
    BY <2>2, <2>3
<1>4. ASSUME NEW e \in Editors, SyncUpdate(e), ~UNCHANGED periods PROVE RowExact(periods'[m])
  <2>1. /\ periods[month] \in Row
        /\ periods' = [periods EXCEPT ![month] = Requoted(periods[month], edit[e].quota)]
        /\ edit[e].quota \in Nat
    BY <1>4, SyncUpdateEffect
  <2>2. RowExact(Requoted(periods[month], edit[e].quota))
    BY <2>1 DEF RowExact, Requoted, Row
  <2> QED
    BY <1>1, <1>2, <2>1, <2>2
<1>5. ASSUME ResetCreate, ~UNCHANGED periods PROVE RowExact(periods'[m])
  <2>1. \/ periods'[m] = periods[m]
        \/ /\ periods'[m] = [used |-> 0, quota |-> reset.copy.quota, exceeded |-> FALSE]
           /\ reset.copy.quota \in Nat
    BY <1>2, <1>5, ResetCreateEffect DEF Row
  <2> QED
    BY <1>1, <2>1 DEF RowExact
<1>6. CASE UNCHANGED periods
  BY <1>1, <1>6
<1> QED
  BY <1>3, <1>4, <1>5, <1>6, WhoWritesPeriods

THEOREM ExceededTheorem == Spec => []ExceededExact
<1>1. Init => ExceededExact
  BY DEF Init, ExceededExact
<1>2. Spec => []Types
  BY InitTypes, StepTypes, PTL DEF Spec
<1> QED
  BY <1>1, <1>2, StepExceeded, PTL DEF Spec
-----------------------------------------------------------------------------
(* The statistics.                                                         *)
LEMMA StepStats ==
  Types /\ ReportFates /\ StatsAccount /\ [Next]_vars => StatsAccount'
<1> SUFFICES ASSUME Types, ReportFates, StatsAccount, [Next]_vars
             PROVE  stats'.memory + stats'.taken + stats'.stored + statsLost'
                      + Cardinality(AtStep("stats")') = Cardinality(AllCharged')
  BY DEF StatsAccount, AllCharged
<1>1. stats.memory + stats.taken + stats.stored + statsLost + Cardinality(AtStep("stats"))
        = Cardinality(AllCharged)
  BY DEF StatsAccount, AllCharged
<1>2. /\ stats \in [memory : Nat, taken : Nat, stored : Nat] /\ statsLost \in Nat
      /\ Cardinality(AtStep("stats")) \in Nat /\ IsFiniteSet(AtStep("stats"))
      /\ Cardinality(AllCharged) \in Nat
      /\ call \in [Handlers -> {Free} \cup [report : Reports, at : {"batch", "stats"}]]
  BY AtStepFinite, Counts DEF Types, TypeOK
<1>3. UNCHANGED charged => AllCharged' = AllCharged
  BY DEF AllCharged
<1>4. ASSUME NEW r \in Reports, NEW h \in Handlers, Mark(r, h)
      PROVE  AtStep("stats")' = AtStep("stats") /\ UNCHANGED <<charged, stats, statsLost>>
  <2>1. call[h] = Free /\ call' = [call EXCEPT ![h] = [report |-> r, at |-> "batch"]]
    BY <1>4 DEF Mark
  <2> QED
    BY <1>2, <1>4, <2>1 DEF Mark, AtStep, Free, histVars
<1>5. ASSUME NEW h \in Handlers, BatchFails(h)
      PROVE  AtStep("stats")' = AtStep("stats") /\ UNCHANGED <<charged, stats, statsLost>>
  BY <1>2, <1>5 DEF BatchFails, AtStep, Free
<1>6. ASSUME NEW h \in Handlers, Batch(h)
      PROVE  /\ Cardinality(AtStep("stats")') = Cardinality(AtStep("stats")) + 1
             /\ Cardinality(AllCharged') = Cardinality(AllCharged) + 1
             /\ UNCHANGED <<stats, statsLost>>
  <2>1. AtStep("stats")' = AtStep("stats") \cup {h} /\ h \notin AtStep("stats")
    BY <1>2, <1>6 DEF Batch, AtStep
  <2> QED
    <3>1. Cardinality(AtStep("stats")') = Cardinality(AtStep("stats")) + 1
      BY <1>2, <2>1, FS_AddElement
    <3> QED
      BY <1>6, <3>1, BatchCharges DEF Batch
<1>7. ASSUME NEW h \in Handlers, CollectStats(h)
      PROVE  /\ Cardinality(AtStep("stats")') = Cardinality(AtStep("stats")) - 1
             /\ stats' = [stats EXCEPT !.memory = @ + 1]
             /\ UNCHANGED <<charged, statsLost>>
  <2>1. AtStep("stats")' = AtStep("stats") \ {h} /\ h \in AtStep("stats")
    BY <1>2, <1>7 DEF CollectStats, AtStep, Free
  <2> QED
    BY <1>2, <1>7, <2>1, FS_RemoveElement DEF CollectStats, histVars
<1>8. CASE StatsFlush \/ StatsStore \/ StatsMerge
  <2>1. AtStep("stats")' = AtStep("stats") /\ UNCHANGED <<charged, statsLost>>
    BY <1>8 DEF StatsFlush, StatsStore, StatsMerge, AtStep, agentVars, histVars
  <2>2. stats'.memory + stats'.taken + stats'.stored = stats.memory + stats.taken + stats.stored
    <3>1. CASE StatsFlush
      BY <1>2, <3>1 DEF StatsFlush
    <3>2. CASE StatsStore
      BY <1>2, <3>2 DEF StatsStore
    <3>3. CASE StatsMerge
      BY <1>2, <3>3 DEF StatsMerge, Merged
    <3> QED
      BY <1>8, <3>1, <3>2, <3>3
  <2> QED
    BY <1>1, <1>2, <1>3, <2>1, <2>2
<1>9. CASE Crash
  <2>1. AtStep("stats")' = {}
    BY <1>9 DEF Crash, AtStep, Free
  <2>2. /\ stats' = [stats EXCEPT !.memory = 0, !.taken = 0] /\ UNCHANGED charged
        /\ statsLost' = statsLost + stats.memory + stats.taken + Cardinality(AtStep("stats"))
    BY <1>9 DEF Crash
  <2> QED
    <3>1. Cardinality(AtStep("stats")') = 0
      BY <2>1, FS_EmptySet
    <3>2. stats'.memory = 0 /\ stats'.taken = 0 /\ stats'.stored = stats.stored
      BY <1>2, <2>2
    <3>3. Cardinality(AllCharged') = Cardinality(AllCharged)
      BY <1>3, <2>2
    <3>4. statsLost' = statsLost + stats.memory + stats.taken + Cardinality(AtStep("stats"))
      BY <2>2
    <3> QED
      BY <1>1, <1>2, <3>1, <3>2, <3>3, <3>4
<1>10. CASE UNCHANGED <<call, charged, stats, statsLost>>
  BY <1>1, <1>3, <1>10 DEF AtStep
<1> QED
  BY <1>1, <1>2, <1>3, <1>4, <1>5, <1>6, <1>7, <1>8, <1>9, <1>10, WhoWritesCalls

(* The statistics account for every charge but what crashes took.          *)
THEOREM StatsTheorem == Spec => []StatsAccount
<1>1. Init => StatsAccount
  <2> SUFFICES ASSUME Init PROVE StatsAccount
    OBVIOUS
  <2>1. AtStep("stats") = {} /\ {r \in Reports : charged[r] # None} = {}
    BY DEF Init, AtStep, Free
  <2> QED
    <3>1. /\ stats.memory = 0 /\ stats.taken = 0 /\ stats.stored = 0 /\ statsLost = 0
          /\ Cardinality(AtStep("stats")) = 0
          /\ Cardinality({r \in Reports : charged[r] # None}) = 0
      BY <2>1, FS_EmptySet DEF Init
    <3> QED
      BY <3>1 DEF StatsAccount
<1>2. (Types /\ ReportFates) /\ StatsAccount /\ [Next]_vars => StatsAccount'
  BY StepStats
<1> QED
  BY <1>1, <1>2, Fates, PTL DEF Spec

-----------------------------------------------------------------------------
(* The two rows.  RowsAgree says nothing while a change of the quota is    *)
(* under way; what is then so is that the request that is at it will mend  *)
(* what does not agree, or make stale true.                                *)
MonthsAhead == \A m \in Months : m > month => periods[m] = None

ResetBehind == reset.month <= month

UserCharges == ~stale => user.used = Cardinality(AllCharged)

QuotaAgrees ==
  /\ ~stale /\ periods[month] # None
  /\ \A e \in Editors : edit[e].at \notin {"sync", "update"}
  => periods[month].quota = user.quota

NoneExceeded == \A m \in Months : periods[m] = None \/ ~periods[m].exceeded

FlagsDiffer ==
  \/ user.exceeded /\ NoneExceeded
  \/ periods[month] # None /\ periods[month].exceeded /\ ~user.exceeded

Mending(e) ==
  \/ edit[e].at = "readback"
  \/ edit[e].at \in {"compare", "set"} /\ edit[e].copy.exceeded # user.exceeded

FlagsMended == ~stale /\ FlagsDiffer => \E e \in Editors : Mending(e)

RowsInv == MonthsAhead /\ ResetBehind /\ UserCharges /\ QuotaAgrees /\ FlagsMended

(* Once something stale was written, the history says so for good.         *)
LEMMA StaleStays == Types /\ [Next]_vars /\ stale => stale'
<1> SUFFICES ASSUME [Next]_vars, stale PROVE stale'
  OBVIOUS
<1>1. CASE UNCHANGED stale
  BY <1>1
<1> QED
  BY <1>1 DEF Next, GiveUp, Deduplicated, Mark, Batch, BatchFails, CollectStats, StatsFlush, StatsStore,
       StatsMerge, Look, Expire, EditRead, LoginRead, EditForget, EditWrite, SyncFind,
       SyncUpdate, SyncRead, SyncCompare, SyncSet, EditFails, NextMonth, ResetRead,
       ResetCreate, ResetClear, ResetFails, Crash, vars, histVars

LEMMA WhoWritesUser ==
  ASSUME [Next]_vars
  PROVE  \/ \E h \in Handlers : Batch(h)
         \/ \E e \in Editors : EditWrite(e) \/ SyncSet(e)
         \/ ResetClear
         \/ UNCHANGED user
  BY DEF Next, GiveUp, Deduplicated, Mark, BatchFails, CollectStats, StatsFlush, StatsStore,
         StatsMerge, Look, Expire, EditRead, LoginRead, EditForget, SyncFind,
         SyncUpdate, SyncRead, SyncCompare, EditFails, NextMonth, ResetRead,
         ResetCreate, ResetFails, Crash, vars, rowVars

(* All steps but those named leave the rows and the requests alone.        *)
LEMMA WhoWritesRows ==
  ASSUME [Next]_vars
  PROVE  \/ \E h \in Handlers : Batch(h)
         \/ \E e \in Editors : \/ LoginRead(e) \/ EditForget(e) \/ EditWrite(e) \/ EditFails(e)
                               \/ \E q \in Quotas \cup {None} : EditRead(e, q)
                               \/ SyncFind(e) \/ SyncUpdate(e) \/ SyncRead(e)
                               \/ SyncCompare(e) \/ SyncSet(e)
         \/ NextMonth \/ ResetCreate \/ ResetClear \/ Crash
         \/ UNCHANGED <<month, periods, user, edit>>
  BY DEF Next, GiveUp, Deduplicated, Mark, BatchFails, CollectStats, StatsFlush, StatsStore,
         StatsMerge, Look, Expire, ResetRead, ResetFails, vars, rowVars, editVars

LEMMA WhoResets ==
  ASSUME [Next]_vars
  PROVE  NextMonth \/ ResetRead \/ ResetCreate \/ ResetClear \/ ResetFails \/ Crash \/ UNCHANGED reset
  BY DEF Next, GiveUp, Deduplicated, Mark, Batch, BatchFails, CollectStats, StatsFlush, StatsStore,
         StatsMerge, Look, Expire, EditRead, LoginRead, EditForget, EditWrite, SyncFind,
         SyncUpdate, SyncRead, SyncCompare, SyncSet, EditFails, vars

LEMMA StepMonths ==
  Types /\ MonthsAhead /\ ResetBehind /\ [Next]_vars => (MonthsAhead /\ ResetBehind)'
<1> SUFFICES ASSUME Types, MonthsAhead, ResetBehind, [Next]_vars
             PROVE  (MonthsAhead /\ ResetBehind)'
  OBVIOUS
<1>0. month \in Months /\ month \in Nat /\ Months \subseteq Nat
      /\ periods \in [Months -> Row \cup {None}]
  BY UserTrafficAssumption DEF Types, TypeOK, Months
<1>1. CASE NextMonth
  BY <1>0, <1>1 DEF NextMonth, MonthsAhead, ResetBehind, rowVars, Types, TypeOK, Months, Asleep
<1>2. ASSUME ~NextMonth PROVE month' = month
  BY <1>2 DEF Next, GiveUp, Deduplicated, Mark, Batch, BatchFails, CollectStats, StatsFlush, StatsStore,
       StatsMerge, Look, Expire, EditRead, LoginRead, EditForget, EditWrite, SyncFind,
       SyncUpdate, SyncRead, SyncCompare, SyncSet, EditFails, ResetRead,
       ResetCreate, ResetClear, ResetFails, Crash, vars
<1>3. ASSUME ~NextMonth PROVE ResetBehind'
  <2>1. CASE ResetCreate
    <3>1. reset \in [at : {"create", "clear"}, copy : Row, month : Months]
      BY <2>1 DEF ResetCreate, Asleep, Types, TypeOK
    <3>2. reset'.month = reset.month \/ reset' = Asleep
      BY <2>1, <3>1 DEF ResetCreate
    <3> QED
      BY <1>0, <1>2, <1>3, <3>2 DEF ResetBehind, Asleep
  <2>2. CASE ResetRead \/ ResetClear \/ ResetFails \/ Crash
    <3>1. reset' = Asleep \/ reset'.month = month
      <4>1. CASE ResetRead
        BY <4>1 DEF ResetRead
      <4>2. CASE ResetClear
        BY <4>2 DEF ResetClear
      <4>3. CASE ResetFails \/ Crash
        BY <4>3 DEF ResetFails, Crash
      <4> QED
        BY <2>2, <4>1, <4>2, <4>3
    <3>2. Asleep.month = 0
      BY DEF Asleep
    <3>3. reset'.month <= month
      BY <1>0, <3>1, <3>2
    <3> QED
      BY <1>2, <1>3, <3>3 DEF ResetBehind
  <2>3. CASE UNCHANGED reset
    BY <1>2, <1>3, <2>3 DEF ResetBehind
  <2> QED
    BY <1>3, <2>1, <2>2, <2>3, WhoResets
<1>4. ASSUME ~NextMonth PROVE MonthsAhead'
  <2>1. CASE UNCHANGED periods
    BY <1>2, <1>4, <2>1 DEF MonthsAhead
  <2>2. ASSUME NEW h \in Handlers, Batch(h) PROVE MonthsAhead'
    BY <1>0, <1>2, <1>4, <2>2 DEF Batch, MonthsAhead
  <2>3. ASSUME NEW e \in Editors, SyncUpdate(e) PROVE MonthsAhead'
    BY <1>0, <1>2, <1>4, <2>3, SyncUpdateEffect DEF MonthsAhead
  <2>4. CASE ResetCreate
    <3> SUFFICES ASSUME periods' # periods, NEW m \in Months, m > month
                 PROVE  periods'[m] = None
      BY <1>2, <1>4, <2>1 DEF MonthsAhead
    <3>1. /\ reset.month \in Months
          /\ \E p : periods' = [periods EXCEPT ![reset.month] = p]
      BY <2>4, ResetCreateEffect
    <3>2. reset.month <= month /\ periods[m] = None
      BY DEF ResetBehind, MonthsAhead
    <3>3. m # reset.month
      BY <1>0, <3>1, <3>2
    <3> QED
      BY <1>0, <3>1, <3>2, <3>3
  <2> QED
    BY <2>1, <2>2, <2>3, <2>4, WhoWritesPeriods
<1> QED
  BY <1>1, <1>3, <1>4

LEMMA StepCharges ==
  Types /\ ReportFates /\ UserCharges /\ [Next]_vars => UserCharges'
<1> SUFFICES ASSUME Types, ReportFates, UserCharges, [Next]_vars, ~stale'
             PROVE  user'.used = Cardinality(AllCharged')
  BY DEF UserCharges
<1>1. ~stale /\ user.used = Cardinality(AllCharged) /\ user \in Row
  BY StaleStays DEF UserCharges, Types, TypeOK
<1>2. UNCHANGED charged => AllCharged' = AllCharged
  BY DEF AllCharged
<1>3. ASSUME NEW h \in Handlers, Batch(h) PROVE user'.used = Cardinality(AllCharged')
  <2>1. user'.used = user.used + 1
    BY <1>1, <1>3 DEF Batch, UserCharged, Row
  <2> QED
    BY <1>1, <1>3, <2>1, BatchCharges
<1>4. ASSUME NEW e \in Editors, EditWrite(e) \/ SyncSet(e) PROVE user'.used = Cardinality(AllCharged')
  BY <1>1, <1>2, <1>4 DEF EditWrite, SyncSet, OutOfDate, Row
<1>5. CASE ResetClear
  BY <1>1, <1>2, <1>5 DEF ResetClear, Row
<1>6. CASE UNCHANGED user /\ UNCHANGED charged
  BY <1>1, <1>2, <1>6
<1> QED
  BY <1>3, <1>4, <1>5, <1>6, WhoWritesUser, WhoCharges

(* What the steps of a request do to the requests.                         *)
LEMMA EditStays ==
  ASSUME Types, NEW e \in Editors,
         \/ LoginRead(e) \/ EditForget(e) \/ EditWrite(e) \/ EditFails(e)
         \/ \E q \in Quotas \cup {None} : EditRead(e, q)
         \/ SyncFind(e) \/ SyncUpdate(e) \/ SyncRead(e) \/ SyncCompare(e) \/ SyncSet(e)
  PROVE  /\ \A d \in Editors \ {e} : edit'[d] = edit[d]
         /\ month' = month
<1>1. edit \in [Editors -> EditState]
  BY DEF Types, TypeOK, EditState
<1>2. CASE LoginRead(e) \/ EditForget(e) \/ EditWrite(e) \/ EditFails(e)
  BY <1>1, <1>2 DEF LoginRead, EditForget, EditWrite, EditFails
<1>3. CASE \E q \in Quotas \cup {None} : EditRead(e, q)
  BY <1>1, <1>3 DEF EditRead
<1>4. CASE SyncFind(e) \/ SyncRead(e) \/ SyncCompare(e) \/ SyncSet(e)
  BY <1>1, <1>4 DEF SyncFind, SyncRead, SyncCompare, SyncSet
<1>5. CASE SyncUpdate(e)
  BY <1>1, <1>5 DEF SyncUpdate
<1> QED
  BY <1>2, <1>3, <1>4, <1>5

LEMMA BatchRows ==
  ASSUME Types, NEW h \in Handlers, Batch(h)
  PROVE  /\ UNCHANGED <<month, edit, stale>>
         /\ periods'[month] \in Row
         /\ periods'[month].quota = Current.quota
         /\ periods'[month].exceeded <=> Current.exceeded \/ GoesOver(Current)
         /\ user'.quota = user.quota
         /\ user'.exceeded <=> user.exceeded \/ GoesOver(Current)
         /\ \A m \in Months : periods[m] # None /\ periods[m].exceeded
                                => periods'[m] # None /\ periods'[m].exceeded
<1> DEFINE n == [Current EXCEPT !.used = @ + 1, !.exceeded = @ \/ GoesOver(Current)]
<1>1. GoesOver(Current) \in BOOLEAN /\ Current \in Row /\ user \in Row
      /\ month \in Months /\ periods \in [Months -> Row \cup {None}]
  BY CurrentRow DEF GoesOver, Types, TypeOK
<1>2. n \in Row
  BY <1>1, ChargedRow
<1>3. n.quota = Current.quota /\ (n.exceeded <=> Current.exceeded \/ GoesOver(Current))
  BY <1>1 DEF Row
<1>4. periods'[month] = n /\ \A m \in Months \ {month} : periods'[m] = periods[m]
  BY <1>1 DEF Batch
<1>5. user'.quota = user.quota /\ (user'.exceeded <=> user.exceeded \/ GoesOver(Current))
  BY <1>1 DEF Batch, UserCharged, Row
<1>6. n # None
  BY <1>2, UserTrafficAssumption
<1> HIDE DEF n
<1>7. periods[month] # None /\ periods[month].exceeded => n.exceeded
  BY <1>3 DEF Current
<1> QED
  BY <1>2, <1>3, <1>4, <1>5, <1>6, <1>7 DEF Batch, editVars

LEMMA StepQuota ==
  Types /\ MonthsAhead /\ QuotaAgrees /\ [Next]_vars => QuotaAgrees'
<1> SUFFICES ASSUME Types, MonthsAhead, QuotaAgrees, [Next]_vars, ~stale', periods'[month'] # None,
                    \A e \in Editors : edit'[e].at \notin {"sync", "update"}
             PROVE  periods'[month'].quota = user'.quota
  BY DEF QuotaAgrees
<1>0. ~stale /\ month \in Months /\ periods \in [Months -> Row \cup {None}] /\ user \in Row
      /\ edit \in [Editors -> EditState]
  BY StaleStays DEF Types, TypeOK, EditState
<1>1. ASSUME NEW h \in Handlers, Batch(h) PROVE periods'[month'].quota = user'.quota
  <2>1. Current.quota = user.quota
    BY <1>0, <1>1, BatchRows DEF Current, QuotaAgrees
  <2> QED
    BY <1>1, <2>1, BatchRows
<1>2. ASSUME NEW e \in Editors,
             \/ LoginRead(e) \/ EditForget(e) \/ EditWrite(e) \/ EditFails(e)
             \/ \E q \in Quotas \cup {None} : EditRead(e, q)
             \/ SyncFind(e) \/ SyncUpdate(e) \/ SyncRead(e) \/ SyncCompare(e) \/ SyncSet(e)
      PROVE  periods'[month'].quota = user'.quota
  <2>0. month' = month /\ \A d \in Editors \ {e} : edit[d].at \notin {"sync", "update"}
    BY <1>2, EditStays
  <2>1. CASE edit[e].at \notin {"sync", "update"}
    <3>1. periods[month] # None => periods[month].quota = user.quota
      BY <1>0, <2>0, <2>1 DEF QuotaAgrees
    <3>2. CASE LoginRead(e) \/ EditForget(e) \/ EditFails(e) \/ SyncRead(e) \/ SyncCompare(e)
               \/ \E q \in Quotas \cup {None} : EditRead(e, q)
      <4>1. UNCHANGED <<periods, user>>
        BY <3>2 DEF LoginRead, EditForget, EditFails, SyncRead, SyncCompare, EditRead, rowVars
      <4> QED
        BY <2>0, <3>1, <4>1
    <3>3. CASE EditWrite(e)
      <4>1. edit[e].quota = None
        <5>1. edit'[e] = IF edit[e].quota = None THEN Rest ELSE [edit[e] EXCEPT !.at = "sync"]
          BY <1>0, <3>3 DEF EditWrite
        <5>2. edit[e] \in [at : {"read", "forgot"} \cup Syncing, copy : Row, quota : Quotas \cup {None}]
          BY <3>3, Editing DEF EditWrite
        <5> QED
          BY <5>1, <5>2
      <4>2. user' = edit[e].copy /\ edit[e].copy.quota = user.quota /\ periods' = periods
        BY <3>3, <4>1 DEF EditWrite, OutOfDate
      <4> QED
        BY <2>0, <3>1, <4>2
    <3>4. CASE SyncSet(e)
      BY <1>0, <2>0, <3>1, <3>4 DEF SyncSet, Row
    <3> QED
      BY <1>2, <2>1, <3>2, <3>3, <3>4 DEF SyncFind, SyncUpdate
  <2>2. CASE SyncFind(e)
    <3>1. periods[month] = None
      BY <1>0, <2>2, Editing DEF SyncFind, Syncing
    <3> QED
      BY <2>0, <2>2, <3>1 DEF SyncFind, rowVars
  <2>3. CASE SyncUpdate(e)
    <3>1. CASE periods[month] = None
      BY <2>0, <2>3, <3>1 DEF SyncUpdate
    <3>2. CASE periods[month] # None
      <4>1. /\ edit[e].quota = user.quota /\ user' = user
            /\ periods'[month] = Requoted(periods[month], edit[e].quota)
        BY <1>0, <2>3, <3>2 DEF SyncUpdate
      <4>2. periods[month] \in Row
        BY <1>0, <3>2
      <4>3. Requoted(periods[month], edit[e].quota).quota = edit[e].quota
        BY <4>2 DEF Requoted, Row
      <4> QED
        BY <2>0, <4>1, <4>3
    <3> QED
      BY <3>1, <3>2
  <2>4. edit[e].at \in {"sync", "update"} => SyncFind(e) \/ SyncUpdate(e)
    BY <1>2, <1>0 DEF LoginRead, EditForget, EditWrite, EditFails, EditRead, SyncRead, SyncCompare,
                SyncSet, Syncing
  <2> QED
    BY <2>1, <2>2, <2>3, <2>4
<1>3. CASE NextMonth
  BY <1>0, <1>3, UserTrafficAssumption DEF NextMonth, MonthsAhead, rowVars, Months
<1>4. CASE ResetCreate
  <2>1. UNCHANGED <<user, edit, month>>
    BY <1>4 DEF ResetCreate, editVars
  <2>2. periods[month] # None => periods[month].quota = user.quota
    BY <1>0, <2>1 DEF QuotaAgrees
  <2>3. periods[reset.month] = None => reset.copy.quota = user.quota
    BY <1>4 DEF ResetCreate
  <2> QED
    BY <1>0, <1>4, <2>1, <2>2, <2>3, ResetCreateEffect
<1>5. CASE ResetClear
  BY <1>0, <1>5 DEF ResetClear, QuotaAgrees, editVars, Row
<1>6. CASE Crash
  BY <1>0, <1>6 DEF Crash, QuotaAgrees, Syncing
<1>7. CASE UNCHANGED <<month, periods, user, edit>>
  BY <1>0, <1>7 DEF QuotaAgrees
<1> QED
  BY <1>1, <1>2, <1>3, <1>4, <1>5, <1>6, <1>7, WhoWritesRows

(* A request that does not mend anything may go on.                        *)
LEMMA OthersMend ==
  ASSUME Types, FlagsMended, ~stale, FlagsDiffer, NEW e \in Editors, ~Mending(e),
         \A d \in Editors \ {e} : edit'[d] = edit[d], user'.exceeded = user.exceeded
  PROVE  \E d \in Editors : Mending(d)'
<1>1. PICK d \in Editors : Mending(d)
  BY DEF FlagsMended
<1>2. edit'[d] = edit[d]
  BY <1>1
<1> QED
  BY <1>1, <1>2 DEF Mending

LEMMA StepFlags ==
  Types /\ MonthsAhead /\ FlagsMended /\ [Next]_vars => FlagsMended'
<1> SUFFICES ASSUME Types, MonthsAhead, FlagsMended, [Next]_vars, ~stale', FlagsDiffer'
             PROVE  \E d \in Editors : Mending(d)'
  BY DEF FlagsMended
<1>0. ~stale /\ month \in Months /\ periods \in [Months -> Row \cup {None}] /\ user \in Row
      /\ edit \in [Editors -> EditState]
  BY StaleStays DEF Types, TypeOK, EditState
<1>1. ASSUME NEW h \in Handlers, Batch(h) PROVE \E d \in Editors : Mending(d)'
  <2>1. ~GoesOver(Current)
    BY <1>0, <1>1, BatchRows, UserTrafficAssumption DEF FlagsDiffer, NoneExceeded
  <2>2. FlagsDiffer /\ (user'.exceeded <=> user.exceeded)
    <3>1. user'.exceeded <=> user.exceeded
      BY <1>1, <2>1, BatchRows
    <3>2. NoneExceeded' => NoneExceeded
      BY <1>1, BatchRows DEF NoneExceeded
    <3>3. periods'[month'].exceeded => periods[month] # None /\ periods[month].exceeded
      BY <1>1, <2>1, BatchRows DEF Current
    <3> QED
      BY <3>1, <3>2, <3>3 DEF FlagsDiffer
  <2>3. user'.exceeded = user.exceeded
    <3>1. user' \in Row
      BY <1>1, BatchTypes DEF Types, TypeOK
    <3> QED
      BY <1>0, <2>2, <3>1 DEF Row
  <2>4. PICK d \in Editors : Mending(d)
    BY <1>0, <2>2 DEF FlagsMended
  <2> QED
    BY <1>1, <2>3, <2>4, BatchRows DEF Mending
<1>2. ASSUME NEW e \in Editors,
             \/ LoginRead(e) \/ EditForget(e) \/ EditFails(e) \/ SyncFind(e)
             \/ \E q \in Quotas \cup {None} : EditRead(e, q)
      PROVE  \E d \in Editors : Mending(d)'
  <2>1. UNCHANGED <<month, periods, user>>
    BY <1>2 DEF LoginRead, EditForget, EditFails, SyncFind, EditRead, rowVars
  <2>2. ~Mending(e)
    BY <1>2 DEF LoginRead, EditForget, EditFails, SyncFind, EditRead, Mending, Syncing
  <2>3. \A d \in Editors \ {e} : edit'[d] = edit[d]
    BY <1>2, EditStays
  <2>4. FlagsDiffer
    BY <2>1 DEF FlagsDiffer, NoneExceeded
  <2> QED
    BY <1>0, <2>1, <2>2, <2>3, <2>4, OthersMend
<1>3. ASSUME NEW e \in Editors, EditWrite(e) PROVE \E d \in Editors : Mending(d)'
  <2>1. UNCHANGED <<month, periods>> /\ user'.exceeded = user.exceeded /\ ~Mending(e)
    BY <1>3 DEF EditWrite, OutOfDate, Mending
  <2>2. \A d \in Editors \ {e} : edit'[d] = edit[d]
    BY <1>3, EditStays
  <2>3. FlagsDiffer
    BY <2>1 DEF FlagsDiffer, NoneExceeded
  <2> QED
    BY <1>0, <2>1, <2>2, <2>3, OthersMend
<1>4. ASSUME NEW e \in Editors, SyncUpdate(e) PROVE \E d \in Editors : Mending(d)'
  <2>1. CASE periods[month] = None
    <3>1. UNCHANGED <<month, periods, user>> /\ ~Mending(e)
      BY <1>4, <2>1 DEF SyncUpdate, Mending
    <3>2. \A d \in Editors \ {e} : edit'[d] = edit[d]
      BY <1>4, EditStays
    <3>3. FlagsDiffer
      BY <3>1 DEF FlagsDiffer, NoneExceeded
    <3> QED
      BY <1>0, <3>1, <3>2, <3>3, OthersMend
  <2>2. CASE periods[month] # None
    <3>1. edit[e] \in [at : {"read", "forgot"} \cup Syncing, copy : Row, quota : Quotas \cup {None}]
      BY <1>4, Editing DEF SyncUpdate
    <3>2. edit'[e].at = "readback"
      BY <1>0, <1>4, <2>2, <3>1 DEF SyncUpdate
    <3> QED
      BY <3>2 DEF Mending
  <2> QED
    BY <2>1, <2>2
<1>5. ASSUME NEW e \in Editors, SyncRead(e) PROVE \E d \in Editors : Mending(d)'
  <2> DEFINE flag == periods[month] # None /\ periods[month].exceeded
  <2>1. edit[e] \in [at : {"read", "forgot"} \cup Syncing, copy : Row, quota : Quotas \cup {None}]
        /\ edit[e].copy \in Row
    BY <1>5, Editing DEF SyncRead
  <2>2. edit'[e].at = "compare" /\ edit'[e].copy.exceeded = flag
    <3>1. edit' = [edit EXCEPT ![e].at = "compare", ![e].copy.exceeded = flag]
      BY <1>5 DEF SyncRead
    <3> HIDE DEF flag
    <3> QED
      BY <1>0, <2>1, <3>1 DEF Row
  <2>3. UNCHANGED <<month, periods, user>>
    BY <1>5 DEF SyncRead, rowVars
  <2>4. user.exceeded <=> ~flag
    BY <1>0, <2>3 DEF FlagsDiffer, NoneExceeded
  <2>5. user'.exceeded # edit'[e].copy.exceeded
    BY <2>2, <2>3, <2>4
  <2> QED
    BY <2>2, <2>5 DEF Mending
<1>6. ASSUME NEW e \in Editors, SyncCompare(e) PROVE \E d \in Editors : Mending(d)'
  <2>1. UNCHANGED <<month, periods, user>> /\ Found.exceeded = user.exceeded
    BY <1>6 DEF SyncCompare
  <2>2. FlagsDiffer
    BY <2>1 DEF FlagsDiffer, NoneExceeded
  <2>3. \A d \in Editors \ {e} : edit'[d] = edit[d]
    BY <1>6, EditStays
  <2>4. CASE ~Mending(e)
    BY <1>0, <2>1, <2>2, <2>3, <2>4, OthersMend
  <2>5. CASE Mending(e)
    <3>1. edit[e].copy.exceeded # user.exceeded
      BY <1>6, <2>5 DEF SyncCompare, Mending
    <3>2. edit[e] \in [at : {"read", "forgot"} \cup Syncing, copy : Row, quota : Quotas \cup {None}]
      BY <1>6, Editing DEF SyncCompare
    <3>3. edit'[e] = [edit[e] EXCEPT !.at = "set"]
      BY <1>0, <1>6, <2>1, <3>1 DEF SyncCompare
    <3>4. edit'[e].at = "set" /\ edit'[e].copy = edit[e].copy
      BY <3>2, <3>3
    <3> QED
      BY <2>1, <3>1, <3>4 DEF Mending
  <2> QED
    BY <2>4, <2>5
<1>7. ASSUME NEW e \in Editors, SyncSet(e) PROVE FALSE
  <2>1. /\ user'.exceeded = edit[e].copy.exceeded /\ UNCHANGED <<month, periods>>
        /\ ~Contradicts(edit[e].copy.exceeded)
    BY <1>0, <1>7 DEF SyncSet, Row
  <2>2. user'.exceeded = (periods[month] # None /\ periods[month].exceeded)
    BY <2>1 DEF Contradicts
  <2> QED
    BY <1>0, <2>1, <2>2 DEF FlagsDiffer, NoneExceeded
<1>8. CASE NextMonth
  <2>1. UNCHANGED <<periods, user, edit>> /\ periods[month'] = None
    BY <1>0, <1>8, UserTrafficAssumption DEF NextMonth, MonthsAhead, rowVars, editVars, Months
  <2>2. FlagsDiffer
    BY <2>1 DEF FlagsDiffer, NoneExceeded
  <2> QED
    BY <1>0, <2>1, <2>2 DEF FlagsMended, Mending
<1>9. CASE ResetCreate
  <2>1. UNCHANGED <<user, edit, month>>
    BY <1>9 DEF ResetCreate, editVars
  <2>2. ASSUME NEW m \in Months
        PROVE  (periods'[m] # None /\ periods'[m].exceeded) <=> (periods[m] # None /\ periods[m].exceeded)
    BY <1>0, <1>9, ResetCreateEffect
  <2>3. FlagsDiffer
    BY <1>0, <2>1, <2>2 DEF FlagsDiffer, NoneExceeded
  <2> QED
    BY <1>0, <2>1, <2>3 DEF FlagsMended, Mending
<1>10. CASE ResetClear
  <2>1. ~user'.exceeded /\ UNCHANGED <<month, periods>> /\ ~Contradicts(FALSE)
    BY <1>0, <1>10 DEF ResetClear, Row
  <2>2. ~(periods[month] # None /\ periods[month].exceeded)
    BY <2>1 DEF Contradicts
  <2> QED
    BY <2>1, <2>2 DEF FlagsDiffer
<1>11. CASE Crash
  <2>1. FlagsDiffer /\ \A e \in Editors : edit[e].at \notin Syncing
    BY <1>11 DEF Crash, FlagsDiffer, NoneExceeded
  <2> QED
    BY <1>0, <2>1 DEF FlagsMended, Mending, Syncing
<1>12. CASE UNCHANGED <<month, periods, user, edit>>
  <2>1. FlagsDiffer
    BY <1>12 DEF FlagsDiffer, NoneExceeded
  <2> QED
    BY <1>0, <1>12, <2>1 DEF FlagsMended, Mending
<1> QED
  BY <1>1, <1>2, <1>3, <1>4, <1>5, <1>6, <1>7, <1>8, <1>9, <1>10, <1>11, <1>12, WhoWritesRows

LEMMA InitRows == Init => RowsInv
<1> SUFFICES ASSUME Init PROVE RowsInv
  OBVIOUS
<1>1. Cardinality(AllCharged) = 0 /\ user.used = 0
  <2>1. AllCharged = {}
    BY DEF Init, AllCharged
  <2> QED
    BY <2>1, FS_EmptySet DEF Init
<1>2. month \in Months /\ ~user.exceeded /\ \A m \in Months : periods[m] = None
  BY UserTrafficAssumption DEF Init, Months
<1>3. ResetBehind
  BY DEF Init, ResetBehind, Asleep
<1> QED
  BY <1>1, <1>2, <1>3
     DEF RowsInv, MonthsAhead, UserCharges, QuotaAgrees, FlagsMended, FlagsDiffer

(* The row of the user and the period of the month agree, as long as       *)
(* nobody wrote what no longer was so.                                     *)
THEOREM RowsTheorem == Spec => []RowsAgree
<1>1. (Types /\ ReportFates) /\ RowsInv /\ [Next]_vars => RowsInv'
  BY StepMonths, StepCharges, StepQuota, StepFlags DEF RowsInv
<1>2. Types /\ RowsInv => RowsAgree
  <2> SUFFICES ASSUME Types, RowsInv, ~stale, Settled PROVE RowsAgree
    BY DEF RowsAgree
  <2>1. \A e \in Editors : edit[e].at \notin {"sync", "update", "readback", "compare", "set"}
    BY DEF Settled, Syncing
  <2>2. ~FlagsDiffer
    BY <2>1 DEF RowsInv, FlagsMended, Mending
  <2>3. periods[month] # None => periods[month].quota = user.quota
    BY <2>1 DEF RowsInv, QuotaAgrees
  <2>4. user.used = Cardinality({r \in Reports : charged[r] # None})
    BY DEF RowsInv, UserCharges, AllCharged
  <2> QED
    BY <2>2, <2>3, <2>4 DEF RowsAgree, FlagsDiffer, NoneExceeded
<1> QED
  BY <1>1, <1>2, InitRows, Fates, PTL DEF Spec
=============================================================================
