---------------------------- MODULE Updater_proofs ----------------------------
(***************************************************************************)
(* What the self-update of the agent promises, proved for all versions,    *)
(* thresholds and bounds.                                                  *)
(***************************************************************************)
EXTENDS Updater, TLAPS

Waits(s) == s.status = "pending_health"

Busy == {"checking", "downloading", "replacing", "marking"}

(* A handler runs in a process that is up; its update is the last one      *)
(* begun, and names a backup of its own.                                   *)
Handler ==
  /\ op.stage # "none" => Up /\ op.target \in Versions
  /\ op.stage \in Busy => updates \in BackupIds /\ st.backup < updates /\ file.backup < updates
  /\ op.stage \in Busy \ {"checking"} => ~Pending
  /\ op.stage \in {"replacing", "marking"} => backups[updates] # NoVersion
  /\ op.stage = "marking" => binary = op.target

(* A state, in memory or in the file, whose rollback is available has its  *)
(* backup.                                                                 *)
Backed(s) == s.backup <= updates /\ (s.rollback => HasBackup(s))

Backups == Backed(st) /\ Backed(file)

(* What a state says of the installed binary, unless a handler is just     *)
(* replacing it.                                                           *)
Tells(s) ==
  /\ Waits(s) => s.target \in Versions
  /\ watch # "lost" /\ op.stage # "marking" /\ Waits(s) => s.target = binary
  /\ watch = "kept" /\ op.stage # "marking" /\ ~Waits(s) => s.current = binary
  /\ watch = "kept" /\ Waits(s) /\ HasBackup(s) => backups[s.backup] = s.previous

Truths == Tells(st) /\ Tells(file)

(* The version the next update will take for the one it replaces is the    *)
(* one it has put aside.                                                   *)
PutAside == watch = "kept" /\ op.stage \in {"replacing", "marking"} => backups[updates] = st.current

(* A startup counts what the file holds, and has not reached the           *)
(* threshold before it counts.                                             *)
Counting ==
  /\ Waits(file) => file.crashes < MaxCrashCount
  /\ process.stage = "booting" => st = file

IInv ==
  /\ TypeOK
  /\ Handler
  /\ Backups
  /\ Truths
  /\ PutAside
  /\ Counting
-----------------------------------------------------------------------------
LEMMA TypeInit == Init => IInv
  BY UpdaterAssumption, SMTT(30)
     DEF Init, IInv, TypeOK, Handler, Backups, Backed, Truths, Tells, PutAside, Counting, Waits,
       Busy,
     Idle, NoUpdate, State, Statuses, Labels, BackupIds, Stages, Up, Pending, HasBackup

(* The states that are written, field by field.                            *)
LEMMA FailedFields ==
  ASSUME NEW s \in State
  PROVE  /\ Failed(s) \in State
         /\ Failed(s).status = "failed" /\ Failed(s).current = s.current
         /\ Failed(s).crashes = s.crashes /\ Failed(s).backup = s.backup /\ Failed(s).rollback = s.rollback
  BY DEF Failed, State, Statuses

LEMMA Counted ==
  ASSUME NEW s \in State, NEW k \in 0..MaxCrashCount
  PROVE  LET w == [s EXCEPT !.crashes = k]
         IN  /\ w \in State
             /\ w.status = s.status /\ w.target = s.target /\ w.current = s.current /\ w.previous = s.previous
             /\ w.crashes = k /\ w.backup = s.backup /\ w.rollback = s.rollback
  BY DEF State

LEMMA HealthyFields ==
  ASSUME NEW s \in State, s.target \in Versions
  PROVE  /\ Healthy(s) \in State
         /\ Healthy(s).status = "healthy" /\ Healthy(s).current = s.target
         /\ Healthy(s).crashes = 0 /\ Healthy(s).backup = 0 /\ Healthy(s).rollback = FALSE
<1> DEFINE K == 0..MaxCrashCount
           B == 0..MaxUpdates
           S == Statuses
<1>1. State = [status : S, current : Versions, target : Labels, previous : Labels, locked : Labels,
               crashes : K, backup : B, rollback : BOOLEAN]
  BY DEF State
<1>2. 0 \in K /\ 0 \in B /\ "healthy" \in S /\ NoVersion \in Labels
  BY UpdaterAssumption DEF Statuses, Labels
<1> HIDE DEF K, B, S
<1> QED BY <1>1, <1>2 DEF Healthy

LEMMA RolledBackFields ==
  ASSUME NEW s \in State, NEW lockBad \in BOOLEAN, process.version \in Versions
  PROVE  LET r == RolledBack(s, lockBad)
         IN  /\ r \in State
             /\ r.status = "rolled_back" /\ r.rollback = FALSE /\ r.backup = s.backup /\ r.crashes = 0
             /\ s.previous \in Versions => r.current = s.previous
<1> DEFINE K == 0..MaxCrashCount
           B == 0..MaxUpdates
           S == Statuses
           l == IF lockBad /\ s.target # NoVersion THEN s.target ELSE s.locked
           c == IF s.previous # NoVersion THEN s.previous ELSE process.version
<1>1. State = [status : S, current : Versions, target : Labels, previous : Labels, locked : Labels,
               crashes : K, backup : B, rollback : BOOLEAN]
  BY DEF State
<1>2. 0 \in K /\ "rolled_back" \in S /\ NoVersion \in Labels
  BY UpdaterAssumption DEF Statuses, Labels
<1>3. l \in Labels /\ c \in Versions /\ (s.previous \in Versions => c = s.previous)
  BY UpdaterAssumption DEF State, Labels
<1>4. RolledBack(s, lockBad) = [s EXCEPT !.status = "rolled_back", !.locked = l, !.current = c,
                                         !.target = NoVersion, !.crashes = 0, !.rollback = FALSE]
  BY DEF RolledBack
<1> HIDE DEF K, B, S, l, c
<1> QED BY <1>1, <1>2, <1>3, <1>4

Marked(s) ==
  [s EXCEPT !.status = "pending_health", !.target = op.target, !.previous = s.current,
            !.crashes = 0, !.backup = updates, !.rollback = TRUE]

LEMMA MarkedFields ==
  ASSUME NEW s \in State, op.target \in Versions, updates \in BackupIds
  PROVE  /\ Marked(s) \in State
         /\ Marked(s).status = "pending_health" /\ Marked(s).target = op.target
         /\ Marked(s).previous = s.current
         /\ Marked(s).crashes = 0 /\ Marked(s).backup = updates /\ Marked(s).rollback = TRUE
<1> DEFINE K == 0..MaxCrashCount
           B == 0..MaxUpdates
           S == Statuses
<1>1. State = [status : S, current : Versions, target : Labels, previous : Labels, locked : Labels,
               crashes : K, backup : B, rollback : BOOLEAN]
  BY DEF State
<1>2. 0 \in K /\ updates \in B /\ "pending_health" \in S /\ op.target \in Labels /\ Versions \subseteq Labels
  BY UpdaterAssumption DEF Statuses, Labels, BackupIds
<1> HIDE DEF K, B, S
<1> QED BY <1>1, <1>2 DEF Marked

LEMMA StateFields ==
  ASSUME NEW s \in State
  PROVE  /\ s.status \in Statuses /\ s.current \in Versions /\ {s.target, s.previous} \subseteq Labels
         /\ s.crashes \in 0..MaxCrashCount /\ s.backup \in 0..MaxUpdates /\ s.rollback \in BOOLEAN
  BY DEF State

(* What is written over a state that no longer waits: it is forgotten, or  *)
(* the binary is the current version as before.                            *)
LEMMA Overwrites ==
  ASSUME IInv, NEW w \in State, ~Waits(w),
         w.current = st.current, w.backup = st.backup, w.rollback = st.rollback,
         st' = w, file' \in {file, w}, upsets' \in 0..MaxUpsets,
         watch' = IF Pending THEN "lost" ELSE watch,
         Up, op.stage \in {"none", "checking", "downloading", "replacing"},
         \/ op' \in {op, NoUpdate} /\ op'.stage = "none"
         \/ op.stage = "checking" /\ op' = [op EXCEPT !.stage = "downloading"],
         UNCHANGED <<binary, backups, process, updates>>
  PROVE  IInv'
<1> USE UpdaterAssumption
<1>a. st \in State /\ file \in State
  BY DEF IInv, TypeOK
<1>b. /\ op' \in [stage : Stages, target : Labels] /\ op'.stage \in {"none", "downloading"}
      /\ op'.stage = "downloading" => op.stage = "checking" /\ op'.target = op.target
  BY DEF IInv, TypeOK, NoUpdate, Stages, Labels
<1>1. TypeOK'
  BY <1>a, <1>b DEF IInv, TypeOK, HasBackup, Up
<1>2. Handler'
  BY <1>a, <1>b DEF IInv, Handler, Busy, Up, Pending, Waits, NoUpdate, HasBackup
<1>3. Backups'
  BY <1>a, <1>b DEF IInv, Handler, Busy, Backups, Backed, HasBackup
<1>4. Truths'
  BY <1>a, <1>b
     DEF IInv, Handler, Busy, Backups, Backed, Truths, Tells, Waits, HasBackup, Pending, NoUpdate
<1>5. PutAside'
  BY <1>a, <1>b DEF IInv, Handler, Busy, Pending, Waits, PutAside, NoUpdate
<1>6. Counting'
  BY <1>a, <1>b DEF IInv, Counting, Waits, Up
<1> QED BY <1>1, <1>2, <1>3, <1>4, <1>5, <1>6 DEF IInv

(* A rollback, of the state s with which the process goes on as up.        *)
LEMMA Rollbacks ==
  ASSUME IInv, NEW s \in State, NEW lockBad \in BOOLEAN, Pending,
         s.status = st.status, s.target = st.target, s.current = st.current, s.previous = st.previous,
         s.backup = st.backup, s.rollback = st.rollback,
         process.stage \in {"booting", "up"},
         NEW up, up = [process EXCEPT !.stage = "up"],
         RollbackTo(s, lockBad, up),
         UNCHANGED <<backups, updates>>
  PROVE  IInv'
<1> USE UpdaterAssumption
<1>a. st \in State /\ file \in State /\ process.version \in Versions
  BY DEF IInv, TypeOK
<1>b. /\ up \in [stage : {"down", "booting", "up", "off"}, version : Versions] /\ up.stage = "up"
      /\ [up EXCEPT !.stage = "down"] \in [stage : {"down", "booting", "up", "off"}, version : Versions]
      /\ [up EXCEPT !.stage = "down"].stage = "down"
  BY DEF IInv, TypeOK
<1>c. upsets \in 0..MaxUpsets /\ (Upset => upsets' \in 0..MaxUpsets)
  BY DEF IInv, TypeOK, Upset
<1>d. HasBackup(s) => backups[s.backup] \in Versions
  BY StateFields DEF IInv, TypeOK, HasBackup, BackupIds, Labels
<1>e. NoUpdate \in [stage : Stages, target : Labels] /\ NoUpdate.stage = "none"
  BY DEF NoUpdate, Stages, Labels
<1> DEFINE r == RolledBack(s, lockBad)
           f == Failed(s)
<1>f. /\ r \in State /\ r.status = "rolled_back" /\ r.rollback = FALSE /\ r.backup = s.backup /\ r.crashes = 0
      /\ s.previous \in Versions => r.current = s.previous
  BY <1>a, RolledBackFields
<1>g. f \in State /\ f.status = "failed" /\ f.current = s.current /\ f.backup = s.backup /\ f.rollback = s.rollback
  BY FailedFields
<1> HIDE DEF r, f
<1>1. CASE ~HasBackup(s) /\ st' = s /\ process' = up /\ UNCHANGED <<binary, file, op, upsets, watch>>
  <2>1. TypeOK'
    BY <1>1, <1>a, <1>b, StateFields DEF IInv, TypeOK, HasBackup, Up
  <2>2. Handler'
    BY <1>1, <1>a, <1>b, StateFields
       DEF IInv, Handler, Busy, Up, Pending, Waits, NoUpdate, HasBackup
  <2>3. Backups'
    BY <1>1, <1>a, <1>b, StateFields DEF IInv, Handler, Busy, Backups, Backed, HasBackup
  <2>4. Truths'
    BY <1>1, <1>a, <1>b, StateFields
       DEF IInv, Handler, Busy, Backups, Backed, Truths, Tells, Waits, HasBackup, Pending, NoUpdate
  <2>5. PutAside'
    BY <1>1, <1>a, <1>b, StateFields DEF IInv, Handler, Busy, Pending, Waits, PutAside, NoUpdate
  <2>6. Counting'
    BY <1>1, <1>a, <1>b, StateFields DEF IInv, Counting, Waits, Up
  <2> QED BY <2>1, <2>2, <2>3, <2>4, <2>5, <2>6 DEF IInv
<1>2. CASE /\ HasBackup(s) /\ binary' = backups[s.backup] /\ st' = r /\ file' = r /\ process' = up
           /\ UNCHANGED <<upsets, op, watch>>
  <2>1. TypeOK'
    BY <1>2, <1>a, <1>b, <1>d, <1>f DEF IInv, TypeOK, HasBackup, Up
  <2>2. Handler'
    BY <1>2, <1>a, <1>b, <1>d, <1>f DEF IInv, Handler, Busy, Up, Pending, Waits, NoUpdate, HasBackup
  <2>3. Backups'
    BY <1>2, <1>a, <1>b, <1>d, <1>f DEF IInv, Handler, Busy, Backups, Backed, HasBackup
  <2>4. Truths'
    BY <1>2, <1>a, <1>b, <1>d, <1>f
       DEF IInv, Handler, Busy, Backups, Backed, Truths, Tells, Waits, HasBackup, Pending, NoUpdate
  <2>5. PutAside'
    BY <1>2, <1>a, <1>b, <1>d, <1>f DEF IInv, Handler, Busy, Pending, Waits, PutAside, NoUpdate
  <2>6. Counting'
    BY <1>2, <1>a, <1>b, <1>d, <1>f DEF IInv, Counting, Waits, Up
  <2> QED BY <2>1, <2>2, <2>3, <2>4, <2>5, <2>6 DEF IInv
<1>3. CASE /\ HasBackup(s) /\ binary' = backups[s.backup] /\ st' = r /\ file' = file /\ process' = up
           /\ upsets' \in 0..MaxUpsets /\ watch' = "lost" /\ UNCHANGED op
  <2>1. TypeOK'
    BY <1>3, <1>a, <1>b, <1>d, <1>f DEF IInv, TypeOK, HasBackup, Up
  <2>2. Handler'
    BY <1>3, <1>a, <1>b, <1>d, <1>f DEF IInv, Handler, Busy, Up, Pending, Waits, NoUpdate, HasBackup
  <2>3. Backups'
    BY <1>3, <1>a, <1>b, <1>d, <1>f DEF IInv, Handler, Busy, Backups, Backed, HasBackup
  <2>4. Truths'
    BY <1>3, <1>a, <1>b, <1>d, <1>f
       DEF IInv, Handler, Busy, Backups, Backed, Truths, Tells, Waits, HasBackup, Pending, NoUpdate
  <2>5. PutAside'
    BY <1>3, <1>a, <1>b, <1>d, <1>f DEF IInv, Handler, Busy, Pending, Waits, PutAside, NoUpdate
  <2>6. Counting'
    BY <1>3, <1>a, <1>b, <1>d, <1>f DEF IInv, Counting, Waits, Up
  <2> QED BY <2>1, <2>2, <2>3, <2>4, <2>5, <2>6 DEF IInv
<1>4. CASE /\ HasBackup(s) /\ binary' = backups[s.backup] /\ process' = [up EXCEPT !.stage = "down"]
           /\ upsets' \in 0..MaxUpsets /\ op' = NoUpdate /\ watch' = "lost" /\ UNCHANGED <<st, file>>
  <2>1. TypeOK'
    BY <1>4, <1>a, <1>b, <1>d, <1>e DEF IInv, TypeOK, HasBackup, Up
  <2>2. Handler'
    BY <1>4, <1>a, <1>b, <1>d, <1>e DEF IInv, Handler, Busy, Up, Pending, Waits, NoUpdate, HasBackup
  <2>3. Backups'
    BY <1>4, <1>a, <1>b, <1>d, <1>e DEF IInv, Handler, Busy, Backups, Backed, HasBackup
  <2>4. Truths'
    BY <1>4, <1>a, <1>b, <1>d, <1>e
       DEF IInv, Handler, Busy, Backups, Backed, Truths, Tells, Waits, HasBackup, Pending, NoUpdate
  <2>5. PutAside'
    BY <1>4, <1>a, <1>b, <1>d, <1>e DEF IInv, Handler, Busy, Pending, Waits, PutAside, NoUpdate
  <2>6. Counting'
    BY <1>4, <1>a, <1>b, <1>d, <1>e DEF IInv, Counting, Waits, Up
  <2> QED BY <2>1, <2>2, <2>3, <2>4, <2>5, <2>6 DEF IInv
<1>5. CASE /\ HasBackup(s) /\ st' = f /\ file' \in {file, f} /\ process' = up
           /\ upsets' \in 0..MaxUpsets /\ watch' = "lost" /\ UNCHANGED <<binary, op>>
  <2>1. TypeOK'
    BY <1>5, <1>a, <1>b, <1>g DEF IInv, TypeOK, HasBackup, Up
  <2>2. Handler'
    BY <1>5, <1>a, <1>b, <1>g DEF IInv, Handler, Busy, Up, Pending, Waits, NoUpdate, HasBackup
  <2>3. Backups'
    BY <1>5, <1>a, <1>b, <1>g DEF IInv, Handler, Busy, Backups, Backed, HasBackup
  <2>4. Truths'
    BY <1>5, <1>a, <1>b, <1>g
       DEF IInv, Handler, Busy, Backups, Backed, Truths, Tells, Waits, HasBackup, Pending, NoUpdate
  <2>5. PutAside'
    BY <1>5, <1>a, <1>b, <1>g DEF IInv, Handler, Busy, Pending, Waits, PutAside, NoUpdate
  <2>6. Counting'
    BY <1>5, <1>a, <1>b, <1>g DEF IInv, Counting, Waits, Up
  <2> QED BY <2>1, <2>2, <2>3, <2>4, <2>5, <2>6 DEF IInv
<1> QED
  BY <1>1, <1>2, <1>3, <1>4, <1>5, <1>c DEF RollbackTo, Saved, NotSaved, r, f

LEMMA Step == IInv /\ [Next]_vars => IInv'
<1> SUFFICES ASSUME IInv, [Next]_vars PROVE IInv'
  OBVIOUS
<1> USE UpdaterAssumption
<1>a. st \in State /\ file \in State /\ process.version \in Versions
  BY DEF IInv, TypeOK
<1>b. /\ upsets \in 0..MaxUpsets /\ (Upset => upsets' \in 0..MaxUpsets)
      /\ \A s : Save(s) => st' = s /\ file' \in {file, s} /\ upsets' \in 0..MaxUpsets
  BY DEF IInv, TypeOK, Upset, Save, Saved, NotSaved
<1>c. Versions \subseteq Labels /\ NoVersion \in Labels /\ {"checked", "in_progress", "failed"} \subseteq Statuses
  BY DEF Labels, Statuses
<1>d. NoUpdate \in [stage : Stages, target : Labels] /\ NoUpdate.stage = "none"
  BY DEF NoUpdate, Stages, Labels
<1>e. /\ Failed(st) \in State /\ ~Waits(Failed(st)) /\ Failed(st).current = st.current
      /\ Failed(st).backup = st.backup /\ Failed(st).rollback = st.rollback
  BY <1>a, FailedFields DEF Waits
<1>f. updates \in 0..MaxUpdates /\ MaxUpdates \in Nat /\ {st.backup, file.backup} \subseteq 0..MaxUpdates
  BY <1>a, StateFields DEF IInv, TypeOK
<1>1. CASE Boot
  <2>1. TypeOK'
    BY <1>1, <1>a, StateFields DEF IInv, TypeOK, HasBackup, Up, Boot
  <2>2. Handler'
    BY <1>1, <1>a, StateFields
       DEF IInv, Handler, Busy, Up, Pending, Waits, NoUpdate, HasBackup, Boot
  <2>3. Backups'
    BY <1>1, <1>a, StateFields DEF IInv, Handler, Busy, Backups, Backed, HasBackup, Boot
  <2>4. Truths'
    BY <1>1, <1>a, StateFields
       DEF IInv, Handler, Busy, Backups, Backed, Truths, Tells, Waits, HasBackup, Pending,
         NoUpdate, Boot
  <2>5. PutAside'
    BY <1>1, <1>a, StateFields DEF IInv, Handler, Busy, Pending, Waits, PutAside, NoUpdate, Boot, Up
  <2>6. Counting'
    BY <1>1, <1>a, StateFields DEF IInv, Counting, Waits, Up, Boot
  <2> QED BY <2>1, <2>2, <2>3, <2>4, <2>5, <2>6 DEF IInv
<1>2. CASE RecordStartup
  <2> DEFINE up      == [process EXCEPT !.stage = "up"]
             counted == [st EXCEPT !.crashes = @ + 1]
  <2>a. /\ up \in [stage : {"down", "booting", "up", "off"}, version : Versions] /\ up.stage = "up"
        /\ process.stage = "booting" /\ UNCHANGED <<backups, updates>>
    BY <1>2 DEF IInv, TypeOK, RecordStartup
  <2>1. CASE ~Pending /\ process' = up /\ UNCHANGED <<binary, file, st, op, upsets, watch>>
    <3> HIDE DEF up
    <3>1. TypeOK'
      BY <2>1, <2>a, <1>a DEF IInv, TypeOK, HasBackup, Up
    <3>2. Handler'
      BY <2>1, <2>a, <1>a DEF IInv, Handler, Busy, Up, Pending, Waits, NoUpdate, HasBackup
    <3>3. Backups'
      BY <2>1, <2>a, <1>a DEF IInv, Handler, Busy, Backups, Backed, HasBackup
    <3>4. Truths'
      BY <2>1, <2>a, <1>a
         DEF IInv, Handler, Busy, Backups, Backed, Truths, Tells, Waits, HasBackup, Pending,
           NoUpdate
    <3>5. PutAside'
      BY <2>1, <2>a, <1>a
         DEF IInv, Handler, Busy, Pending, Waits, PutAside, Truths, Tells, NoUpdate
    <3>6. Counting'
      BY <2>1, <2>a, <1>a DEF IInv, Counting, Waits, Up
    <3> QED BY <3>1, <3>2, <3>3, <3>4, <3>5, <3>6 DEF IInv
  <2>b. ASSUME Pending
        PROVE  /\ counted \in State
               /\ counted.status = st.status /\ counted.target = st.target /\ counted.current = st.current
               /\ counted.previous = st.previous /\ counted.backup = st.backup /\ counted.rollback = st.rollback
               /\ counted.crashes = st.crashes + 1
    <3>1. st.crashes + 1 \in 0..MaxCrashCount
      BY <2>a, <2>b, <1>a, StateFields DEF IInv, Counting, Pending, Waits
    <3> QED BY <3>1, <1>a, Counted
  <2>2. CASE /\ Pending /\ ~Reached(counted.crashes)
             /\ CountStartup(counted) /\ process' = up /\ UNCHANGED <<binary, op, watch>>
    <3>0. st' = counted /\ file' \in {file, counted} /\ upsets' \in 0..MaxUpsets /\ counted.crashes < MaxCrashCount
      BY <2>2, <2>b, <1>a, <1>b, StateFields DEF CountStartup, Reached
    <3> HIDE DEF up, counted
    <3>1. TypeOK'
      BY <3>0, <2>2, <2>a, <2>b, <1>a DEF IInv, TypeOK, HasBackup, Up
    <3>2. Handler'
      BY <3>0, <2>2, <2>a, <2>b, <1>a
         DEF IInv, Handler, Busy, Up, Pending, Waits, NoUpdate, HasBackup
    <3>3. Backups'
      BY <3>0, <2>2, <2>a, <2>b, <1>a DEF IInv, Handler, Busy, Backups, Backed, HasBackup
    <3>4. Truths'
      BY <3>0, <2>2, <2>a, <2>b, <1>a
         DEF IInv, Handler, Busy, Backups, Backed, Truths, Tells, Waits, HasBackup, Pending,
           NoUpdate
    <3>5. PutAside'
      BY <3>0, <2>2, <2>a, <2>b, <1>a
         DEF IInv, Handler, Busy, Pending, Waits, PutAside, Truths, Tells, NoUpdate
    <3>6. Counting'
      BY <3>0, <2>2, <2>a, <2>b, <1>a DEF IInv, Counting, Waits, Up
    <3> QED BY <3>1, <3>2, <3>3, <3>4, <3>5, <3>6 DEF IInv
  <2>3. CASE Pending /\ Reached(counted.crashes) /\ RollbackTo(counted, TRUE, up)
    <3> HIDE DEF counted
    <3> QED BY <2>3, <2>a, <2>b, Rollbacks
  <2> QED BY <1>2, <2>1, <2>2, <2>3 DEF RecordStartup
<1>3. CASE HealthExpired
  <2>1. process = [process EXCEPT !.stage = "up"]
    BY <1>3 DEF HealthExpired, Up, IInv, TypeOK
  <2> QED BY <1>3, <1>a, <2>1, Rollbacks DEF HealthExpired, Up
<1>4. CASE MarkHealthy
  <2> DEFINE h == Healthy(st)
  <2>a. /\ h \in State /\ h.status = "healthy" /\ h.current = st.target
        /\ h.crashes = 0 /\ h.backup = 0 /\ h.rollback = FALSE
    BY <1>4, <1>a, HealthyFields DEF MarkHealthy, Pending, Waits, IInv, Truths, Tells
  <2>b. Up /\ Pending /\ UNCHANGED <<binary, process, op, updates>> /\ op.stage \notin Busy \ {"checking"}
    BY <1>4 DEF MarkHealthy, IInv, Handler
  <2>c. /\ backups' \in [BackupIds -> Labels]
        /\ \A b \in BackupIds : backups'[b] # NoVersion => backups'[b] = backups[b]
    BY <1>4, <1>c DEF MarkHealthy, BackupsAfter, IInv, TypeOK
  <2> HIDE DEF h
  <2>1. CASE /\ st' = h /\ file' = h /\ upsets' = upsets
             /\ watch' \in {watch, "kept", "lost"}
             /\ watch' = "kept" => watch # "lost"
    <3>1. TypeOK'
      BY <2>1, <2>a, <2>b, <2>c, <1>a, <1>f DEF IInv, TypeOK
    <3>2. Handler'
      BY <2>1, <2>a, <2>b, <2>c, <1>a, <1>f DEF IInv, Handler, Busy, Up, Pending, Waits
    <3>3. Backups'
      BY <2>1, <2>a, <2>b, <2>c, <1>a, <1>f DEF IInv, Handler, Busy, Backups, Backed, HasBackup
    <3>4. Truths'
      BY <2>1, <2>a, <2>b, <2>c, <1>a, <1>f
       DEF IInv, Handler, Busy, Backups, Backed, Truths, Tells, Waits, HasBackup, Pending
    <3>5. PutAside'
      BY <2>1, <2>a, <2>b, <2>c, <1>a, <1>f DEF IInv, Handler, Busy, Pending, Waits, PutAside
    <3>6. Counting'
      BY <2>1, <2>a, <2>b, <2>c, <1>a, <1>f DEF IInv, Counting, Waits, Up
    <3> QED BY <3>1, <3>2, <3>3, <3>4, <3>5, <3>6 DEF IInv
  <2>2. CASE /\ st' = h /\ file' = file /\ upsets' \in 0..MaxUpsets /\ backups' = backups
             /\ watch' \in {watch, "lost"} \/ (watch = "resumed" /\ watch' = "kept" /\ file = h)
    <3>1. TypeOK'
      BY <2>2, <2>a, <2>b, <2>c, <1>a, <1>f DEF IInv, TypeOK
    <3>2. Handler'
      BY <2>2, <2>a, <2>b, <2>c, <1>a, <1>f DEF IInv, Handler, Busy, Up, Pending, Waits
    <3>3. Backups'
      BY <2>2, <2>a, <2>b, <2>c, <1>a, <1>f DEF IInv, Handler, Busy, Backups, Backed, HasBackup
    <3>4. Truths'
      BY <2>2, <2>a, <2>b, <2>c, <1>a, <1>f
       DEF IInv, Handler, Busy, Backups, Backed, Truths, Tells, Waits, HasBackup, Pending
    <3>5. PutAside'
      BY <2>2, <2>a, <2>b, <2>c, <1>a, <1>f DEF IInv, Handler, Busy, Pending, Waits, PutAside
    <3>6. Counting'
      BY <2>2, <2>a, <2>b, <2>c, <1>a, <1>f DEF IInv, Counting, Waits, Up
    <3> QED BY <3>1, <3>2, <3>3, <3>4, <3>5, <3>6 DEF IInv
  <2>3. CASE Saved(h) /\ backups' = BackupsAfter(TRUE)
    BY <1>4, <2>1, <2>3 DEF MarkHealthy, Saved
  <2>4. CASE NotSaved(h) /\ backups' = BackupsAfter(FALSE)
    BY <1>4, <1>b, <2>2, <2>4 DEF MarkHealthy, NotSaved, BackupsAfter
  <2> QED BY <1>4, <2>3, <2>4 DEF MarkHealthy, h
<1>5. CASE \E v \in Versions : Check(v)
  <2> PICK v \in Versions : Check(v)
    BY <1>5
  <2> DEFINE w == [st EXCEPT !.status = "checked", !.target = v]
  <2>1. w \in State /\ ~Waits(w) /\ w.current = st.current /\ w.backup = st.backup /\ w.rollback = st.rollback
    BY <1>a, <1>c, v \in Labels DEF State, Waits
  <2>2. st' = w /\ file' \in {file, w} /\ upsets' \in 0..MaxUpsets
    BY <1>b DEF Check
  <2> HIDE DEF w
  <2> QED BY <2>1, <2>2, Overwrites DEF Check, Forgets
<1>6. CASE CheckFails
  BY <1>6, <1>b, <1>e, Overwrites DEF CheckFails, Forgets
<1>7. CASE \E v \in Versions : UpdateRefused(v)
  BY <1>7, <1>b, <1>e, Overwrites DEF UpdateRefused, Forgets
<1>8. CASE \E v \in Versions : UpdateStart(v)
  <2> PICK v \in Versions : UpdateStart(v)
    BY <1>8
  <2>a. op' \in [stage : Stages, target : Labels] /\ op'.stage = "checking" /\ op'.target \in Versions
    BY <1>c DEF UpdateStart, Stages
  <2>1. TypeOK'
    BY <2>a, <1>a, <1>f DEF IInv, TypeOK, HasBackup, Up, UpdateStart, BackupIds
  <2>2. Handler'
    BY <2>a, <1>a, <1>f
       DEF IInv, Handler, Busy, Up, Pending, Waits, NoUpdate, HasBackup, Backups, Backed,
         UpdateStart, BackupIds
  <2>3. Backups'
    BY <2>a, <1>a, <1>f DEF IInv, Handler, Busy, Backups, Backed, HasBackup, UpdateStart, BackupIds
  <2>4. Truths'
    BY <2>a, <1>a, <1>f
       DEF IInv, Handler, Busy, Backups, Backed, Truths, Tells, Waits, HasBackup, Pending,
         NoUpdate, UpdateStart, BackupIds
  <2>5. PutAside'
    BY <2>a, <1>a, <1>f
       DEF IInv, Handler, Busy, Pending, Waits, PutAside, Truths, Tells, NoUpdate, UpdateStart,
         BackupIds
  <2>6. Counting'
    BY <2>a, <1>a, <1>f DEF IInv, Counting, Waits, Up, UpdateStart, BackupIds
  <2> QED BY <2>1, <2>2, <2>3, <2>4, <2>5, <2>6 DEF IInv
<1>9. CASE BeginUpdate
  <2> DEFINE w == [st EXCEPT !.status = "in_progress", !.target = op.target]
  <2>1. w \in State /\ ~Waits(w) /\ w.current = st.current /\ w.backup = st.backup /\ w.rollback = st.rollback
    BY <1>a, <1>c DEF State, Waits, IInv, TypeOK
  <2>2. st' = w /\ file' \in {file, w} /\ upsets' \in 0..MaxUpsets
    BY <1>9, <1>b DEF BeginUpdate
  <2> HIDE DEF w
  <2> QED BY <1>9, <2>1, <2>2, Overwrites DEF BeginUpdate, Forgets, Goto
<1>10. CASE Backup
  <2>a. op' \in [stage : Stages, target : Labels] /\ op'.stage = "replacing" /\ op'.target = op.target
    BY <1>10 DEF Backup, Goto, Stages, IInv, TypeOK
  <2>b. /\ updates \in BackupIds /\ updates' = updates /\ updates # 0 /\ binary # NoVersion
        /\ backups' \in [BackupIds -> Labels] /\ backups'[updates] = binary
        /\ \A b \in BackupIds : b # updates => backups'[b] = backups[b]
    BY <1>10, <1>c DEF Backup, BackupIds, IInv, TypeOK, Handler, Busy
  <2>c. /\ op.stage = "downloading" /\ Up
        /\ UNCHANGED <<binary, file, process, st, updates, upsets, watch>>
    BY <1>10 DEF Backup
  <2>1. TypeOK'
    BY <2>a, <2>b, <2>c, <1>a, <1>f DEF IInv, TypeOK, HasBackup, Up, BackupIds
  <2>2. Handler'
    BY <2>a, <2>b, <2>c, <1>a, <1>f
       DEF IInv, Handler, Busy, Up, Pending, Waits, NoUpdate, HasBackup, BackupIds
  <2>3. Backups'
    BY <2>a, <2>b, <2>c, <1>a, <1>f DEF IInv, Handler, Busy, Backups, Backed, HasBackup, BackupIds
  <2>4. Truths'
    BY <2>a, <2>b, <2>c, <1>a, <1>f
       DEF IInv, Handler, Busy, Backups, Backed, Truths, Tells, Waits, HasBackup, Pending,
         NoUpdate, BackupIds
  <2>5. PutAside'
    BY <2>a, <2>b, <2>c, <1>a, <1>f
       DEF IInv, Handler, Busy, Pending, Waits, PutAside, Truths, Tells, NoUpdate, BackupIds
  <2>6. Counting'
    BY <2>a, <2>b, <2>c, <1>a, <1>f DEF IInv, Counting, Waits, Up, BackupIds
  <2> QED BY <2>1, <2>2, <2>3, <2>4, <2>5, <2>6 DEF IInv
<1>11. CASE Replace
  <2>a. op' \in [stage : Stages, target : Labels] /\ op'.stage = "marking" /\ op'.target = op.target
    BY <1>11 DEF Replace, Goto, Stages, IInv, TypeOK
  <2>1. TypeOK'
    BY <1>11, <2>a, <1>a, StateFields DEF IInv, TypeOK, Handler, Replace
  <2>2. Handler'
    BY <1>11, <2>a, <1>a, StateFields
       DEF IInv, Handler, Busy, Up, Pending, Waits, NoUpdate, HasBackup, Replace
  <2>3. Backups'
    BY <1>11, <2>a, <1>a, StateFields DEF IInv, Handler, Busy, Backups, Backed, HasBackup, Replace
  <2>4. Truths'
    BY <1>11, <2>a, <1>a, StateFields
       DEF IInv, Handler, Busy, Backups, Backed, Truths, Tells, Waits, HasBackup, Pending,
         NoUpdate, Replace
  <2>5. PutAside'
    BY <1>11, <2>a, <1>a, StateFields
       DEF IInv, Handler, Busy, Pending, Waits, PutAside, Truths, Tells, NoUpdate, Replace
  <2>6. Counting'
    BY <1>11, <2>a, <1>a, StateFields DEF IInv, Counting, Waits, Up, Replace
  <2> QED BY <2>1, <2>2, <2>3, <2>4, <2>5, <2>6 DEF IInv
<1>12. CASE MarkPending
  <2> DEFINE m == Marked(st)
  <2>a. /\ m \in State /\ m.status = "pending_health" /\ m.target = op.target /\ m.previous = st.current
        /\ m.crashes = 0 /\ m.backup = updates /\ m.rollback = TRUE
    BY <1>12, <1>a, MarkedFields DEF MarkPending, IInv, Handler, Busy
  <2>b. op.stage = "marking" /\ Up /\ UNCHANGED <<binary, backups, process, updates>>
    BY <1>12 DEF MarkPending
  <2>1. CASE /\ st' = m /\ file' = m /\ UNCHANGED upsets /\ Goto("announcing")
             /\ watch' = IF watch = "lost" THEN "resumed" ELSE watch
    <3>a. op' \in [stage : Stages, target : Labels] /\ op'.stage = "announcing" /\ op'.target = op.target
      BY <2>1 DEF Goto, Stages, IInv, TypeOK
    <3> HIDE DEF m
    <3>1. TypeOK'
      BY <2>1, <3>a, <2>a, <2>b, <1>a, <1>f DEF IInv, TypeOK, HasBackup, Up
    <3>2. Handler'
      BY <2>1, <3>a, <2>a, <2>b, <1>a, <1>f
         DEF IInv, Handler, Busy, Up, Pending, Waits, NoUpdate, HasBackup
    <3>3. Backups'
      BY <2>1, <3>a, <2>a, <2>b, <1>a, <1>f
         DEF IInv, Handler, Busy, Backups, Backed, HasBackup, BackupIds
    <3>4. Truths'
      BY <2>1, <3>a, <2>a, <2>b, <1>a, <1>f
         DEF IInv, Handler, Busy, Backups, Backed, Truths, Tells, Waits, HasBackup, Pending,
           NoUpdate, PutAside
    <3>5. PutAside'
      BY <2>1, <3>a, <2>a, <2>b, <1>a, <1>f
         DEF IInv, Handler, Busy, Pending, Waits, PutAside, Truths, Tells, NoUpdate
    <3>6. Counting'
      BY <2>1, <3>a, <2>a, <2>b, <1>a, <1>f DEF IInv, Counting, Waits, Up
    <3> QED BY <3>1, <3>2, <3>3, <3>4, <3>5, <3>6 DEF IInv
  <2>2. CASE st' = m /\ file' = file /\ upsets' \in 0..MaxUpsets /\ op' = NoUpdate /\ watch' = "lost"
    <3> HIDE DEF m
    <3>1. TypeOK'
      BY <2>2, <2>a, <2>b, <1>a, <1>f, <1>d DEF IInv, TypeOK, HasBackup, Up
    <3>2. Handler'
      BY <2>2, <2>a, <2>b, <1>a, <1>f, <1>d
         DEF IInv, Handler, Busy, Up, Pending, Waits, NoUpdate, HasBackup
    <3>3. Backups'
      BY <2>2, <2>a, <2>b, <1>a, <1>f, <1>d
         DEF IInv, Handler, Busy, Backups, Backed, HasBackup, BackupIds
    <3>4. Truths'
      BY <2>2, <2>a, <2>b, <1>a, <1>f, <1>d
         DEF IInv, Handler, Busy, Backups, Backed, Truths, Tells, Waits, HasBackup, Pending,
           NoUpdate, PutAside
    <3>5. PutAside'
      BY <2>2, <2>a, <2>b, <1>a, <1>f, <1>d
         DEF IInv, Handler, Busy, Pending, Waits, PutAside, Truths, Tells, NoUpdate
    <3>6. Counting'
      BY <2>2, <2>a, <2>b, <1>a, <1>f, <1>d DEF IInv, Counting, Waits, Up
    <3> QED BY <3>1, <3>2, <3>3, <3>4, <3>5, <3>6 DEF IInv
  <2> QED BY <1>12, <2>1, <2>2, <1>b DEF MarkPending, Saved, NotSaved, Marked
<1>13. CASE UpdateFails
  BY <1>13, <1>b, <1>d, <1>e, Overwrites DEF UpdateFails, Forgets
<1>14. CASE ReportFails
  <2>1. TypeOK'
    BY <1>14, <1>a, <1>b, <1>d DEF IInv, TypeOK, HasBackup, Up, ReportFails
  <2>2. Handler'
    BY <1>14, <1>a, <1>b, <1>d
       DEF IInv, Handler, Busy, Up, Pending, Waits, NoUpdate, HasBackup, ReportFails
  <2>3. Backups'
    BY <1>14, <1>a, <1>b, <1>d DEF IInv, Handler, Busy, Backups, Backed, HasBackup, ReportFails
  <2>4. Truths'
    BY <1>14, <1>a, <1>b, <1>d
       DEF IInv, Handler, Busy, Backups, Backed, Truths, Tells, Waits, HasBackup, Pending,
         NoUpdate, ReportFails
  <2>5. PutAside'
    BY <1>14, <1>a, <1>b, <1>d
       DEF IInv, Handler, Busy, Pending, Waits, PutAside, Truths, Tells, NoUpdate, ReportFails
  <2>6. Counting'
    BY <1>14, <1>a, <1>b, <1>d DEF IInv, Counting, Waits, Up, ReportFails
  <2> QED BY <2>1, <2>2, <2>3, <2>4, <2>5, <2>6 DEF IInv
<1>15. CASE Exec
  <2>1. TypeOK'
    BY <1>15, <1>a, <1>b, <1>d DEF IInv, TypeOK, HasBackup, Up, Exec
  <2>2. Handler'
    BY <1>15, <1>a, <1>b, <1>d
       DEF IInv, Handler, Busy, Up, Pending, Waits, NoUpdate, HasBackup, Exec
  <2>3. Backups'
    BY <1>15, <1>a, <1>b, <1>d DEF IInv, Handler, Busy, Backups, Backed, HasBackup, Exec
  <2>4. Truths'
    BY <1>15, <1>a, <1>b, <1>d
       DEF IInv, Handler, Busy, Backups, Backed, Truths, Tells, Waits, HasBackup, Pending,
         NoUpdate, Exec
  <2>5. PutAside'
    BY <1>15, <1>a, <1>b, <1>d
       DEF IInv, Handler, Busy, Pending, Waits, PutAside, Truths, Tells, NoUpdate, Exec
  <2>6. Counting'
    BY <1>15, <1>a, <1>b, <1>d DEF IInv, Counting, Waits, Up, Exec
  <2> QED BY <2>1, <2>2, <2>3, <2>4, <2>5, <2>6 DEF IInv
<1>16. CASE ExecFails
  <2>1. TypeOK'
    BY <1>16, <1>a, <1>b, <1>d DEF IInv, TypeOK, HasBackup, Up, ExecFails
  <2>2. Handler'
    BY <1>16, <1>a, <1>b, <1>d
       DEF IInv, Handler, Busy, Up, Pending, Waits, NoUpdate, HasBackup, ExecFails
  <2>3. Backups'
    BY <1>16, <1>a, <1>b, <1>d DEF IInv, Handler, Busy, Backups, Backed, HasBackup, ExecFails
  <2>4. Truths'
    BY <1>16, <1>a, <1>b, <1>d
       DEF IInv, Handler, Busy, Backups, Backed, Truths, Tells, Waits, HasBackup, Pending,
         NoUpdate, ExecFails
  <2>5. PutAside'
    BY <1>16, <1>a, <1>b, <1>d
       DEF IInv, Handler, Busy, Pending, Waits, PutAside, Truths, Tells, NoUpdate, ExecFails
  <2>6. Counting'
    BY <1>16, <1>a, <1>b, <1>d DEF IInv, Counting, Waits, Up, ExecFails
  <2> QED BY <2>1, <2>2, <2>3, <2>4, <2>5, <2>6 DEF IInv
<1>17. CASE Crash \/ BadCrash
  <2>a. /\ upsets' \in 0..MaxUpsets /\ Dies
        /\ process' \in [stage : {"down", "booting", "up", "off"}, version : Versions] /\ process'.stage = "down"
    BY <1>17, <1>b DEF Crash, BadCrash, Running, Dies, IInv, TypeOK
  <2>1. TypeOK'
    BY <2>a, <1>a, <1>d DEF IInv, TypeOK, HasBackup, Up, Dies
  <2>2. Handler'
    BY <2>a, <1>a, <1>d DEF IInv, Handler, Busy, Up, Pending, Waits, NoUpdate, HasBackup, Dies
  <2>3. Backups'
    BY <2>a, <1>a, <1>d DEF IInv, Handler, Busy, Backups, Backed, HasBackup, Dies
  <2>4. Truths'
    BY <2>a, <1>a, <1>d
       DEF IInv, Handler, Busy, Backups, Backed, Truths, Tells, Waits, HasBackup, Pending,
         NoUpdate, Dies
  <2>5. PutAside'
    BY <2>a, <1>a, <1>d
       DEF IInv, Handler, Busy, Pending, Waits, PutAside, Truths, Tells, NoUpdate, Dies
  <2>6. Counting'
    BY <2>a, <1>a, <1>d DEF IInv, Counting, Waits, Up, Dies
  <2> QED BY <2>1, <2>2, <2>3, <2>4, <2>5, <2>6 DEF IInv
<1>18. CASE UNCHANGED vars
  <2>1. TypeOK'
    BY <1>18 DEF IInv, TypeOK, HasBackup, Up, vars, BackupIds
  <2>2. Handler'
    BY <1>18 DEF IInv, Handler, Busy, Up, Pending, Waits, NoUpdate, HasBackup, vars, BackupIds
  <2>3. Backups'
    BY <1>18 DEF IInv, Handler, Busy, Backups, Backed, HasBackup, vars, BackupIds
  <2>4. Truths'
    BY <1>18
       DEF IInv, Handler, Busy, Backups, Backed, Truths, Tells, Waits, HasBackup, Pending,
         NoUpdate, vars, BackupIds
  <2>5. PutAside'
    BY <1>18
       DEF IInv, Handler, Busy, Pending, Waits, PutAside, Truths, Tells, NoUpdate, vars, BackupIds
  <2>6. Counting'
    BY <1>18 DEF IInv, Counting, Waits, Up, vars, BackupIds
  <2> QED BY <2>1, <2>2, <2>3, <2>4, <2>5, <2>6 DEF IInv
<1> QED
  BY <1>1, <1>2, <1>3, <1>4, <1>5, <1>6, <1>7, <1>8, <1>9, <1>10, <1>11, <1>12, <1>13, <1>14, <1>15, <1>16,
     <1>17, <1>18 DEF Next, Update

THEOREM Invariant == Spec => []IInv
<1> QED BY TypeInit, Step, PTL DEF Spec

(* Every version, backup and state is what the updater takes it for.       *)
THEOREM TypeCorrect == Spec => []TypeOK
<1>1. IInv => TypeOK
  BY DEF IInv
<1> QED BY <1>1, Invariant, PTL

(* A rollback that the state file promises finds its backup on disk: it is *)
(* removed after the file has stopped to promise it, never before          *)
(* (MarkHealthy).                                                          *)
THEOREM RollbackKept == Spec => []RollbackPossible
<1>1. IInv => RollbackPossible
  BY DEF IInv, Backups, Backed, RollbackPossible
<1> QED BY <1>1, Invariant, PTL

(* The state file tells which version is installed, as long as no update   *)
(* that waited for its confirmation was forgotten.                         *)
THEOREM FileTruthful == Spec => []CurrentTruthful
<1>1. IInv => CurrentTruthful
  BY DEF IInv, Truths, Tells, Waits, CurrentTruthful
<1> QED BY <1>1, Invariant, PTL
=============================================================================
