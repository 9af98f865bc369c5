------------------------------- MODULE Updater -------------------------------
(***************************************************************************)
(* Self-update of the agent (agent/updater/updater.go, and its callers in  *)
(* agent/service/agent_update.go, agent_report.go and service.go): the     *)
(* binary on disk is backed up and replaced, the state file says that the  *)
(* update waits for a confirmation of its health, and the handler executes *)
(* the new binary.  The first status report the panel accepts confirms;    *)
(* MaxCrashCount startups without one, or the deadline, put the backup     *)
(* back.  The process may die between any two steps; the binary, the       *)
(* backups and the state file survive.                                     *)
(*                                                                         *)
(* Abstractions.  A binary is its version, which is that of the request    *)
(* that asked for it.  Bad versions are never accepted by the panel and    *)
(* may die whenever they run, as often as they are started: once they are  *)
(* up, or before they have counted their startup (a broken binary, an      *)
(* error of New before RecordStartup).  Time is left out: the deadline of  *)
(* an update that waits may have passed at any moment.  The worker of the  *)
(* command queue runs one handler at a time.  Rollback, the manual one,    *)
(* has no caller.  Upsets are failures of writes, downloads and reports,   *)
(* and deaths of good versions.                                            *)
(***************************************************************************)
EXTENDS Naturals

CONSTANTS Versions,      \* versions of the agent
          Bad,           \* those that do not work on this host
          First,         \* the version that is installed
          NoVersion,     \* no version: the empty string
          MaxCrashCount, \* startups after which an update is rolled back
          MaxUpdates,    \* bound: updates
          MaxUpsets      \* bound: failures and deaths

ASSUME UpdaterAssumption ==
  /\ Bad \subseteq Versions /\ First \in Versions \ Bad
  /\ NoVersion \notin Versions
  /\ MaxCrashCount \in Nat \ {0} /\ {MaxUpdates, MaxUpsets} \subseteq Nat

VARIABLES binary,        \* on disk: the version at BinaryPath
          backups,       \* on disk: [BackupIds -> version or NoVersion]
          file,          \* on disk: the state file
          process,       \* [stage, version]: "off" is an exit that is no failure
          st,            \* Updater.state, in memory
          op,            \* the update the worker runs: [stage, target]
          updates,       \* history: updates begun, which names their backups
          upsets,
          watch          \* history: is the binary on disk the one the state watches over?

vars == <<binary, backups, file, process, st, op, updates, upsets, watch>>
-----------------------------------------------------------------------------
BackupIds == 1..MaxUpdates
Labels    == Versions \cup {NoVersion}
Statuses  == {"idle", "checked", "in_progress", "pending_health", "healthy", "failed", "rolled_back"}
State     == [status : Statuses, current : Versions, target : Labels, previous : Labels, locked : Labels,
              crashes : 0..MaxCrashCount, backup : 0..MaxUpdates, rollback : BOOLEAN]
Stages    == {"none", "checking", "downloading", "replacing", "marking", "announcing"}

Idle == [status |-> "idle", current |-> First, target |-> NoVersion, previous |-> NoVersion,
         locked |-> NoVersion, crashes |-> 0, backup |-> 0, rollback |-> FALSE]

NoUpdate == [stage |-> "none", target |-> NoVersion]

Init ==
  /\ binary = First
  /\ backups = [b \in BackupIds |-> NoVersion]
  /\ file = Idle
  /\ process = [stage |-> "up", version |-> First]
  /\ st = Idle
  /\ op = NoUpdate
  /\ updates = 0 /\ upsets = 0
  /\ watch = "kept"

Up      == process.stage = "up"
Pending == st.status = "pending_health"

Upset == upsets < MaxUpsets /\ upsets' = upsets + 1

(* saveStateLocked; when it fails the file stays as it was.                *)
Saved(s)    == st' = s /\ file' = s /\ UNCHANGED upsets
NotSaved(s) == st' = s /\ UNCHANGED file /\ Upset
Save(s)     == Saved(s) \/ NotSaved(s)

(* What waited for its confirmation is now forgotten.                      *)
Forgets == watch' = IF Pending THEN "lost" ELSE watch

Failed(s) == [s EXCEPT !.status = "failed"]
-----------------------------------------------------------------------------
(* rollbackLocked: put the backup back and record that; if the process     *)
(* dies in between, or the record cannot be written, the binary is back    *)
(* and the file does not say so.                                           *)
RolledBack(s, lockBad) ==
  [s EXCEPT !.status = "rolled_back",
            !.locked = IF lockBad /\ s.target # NoVersion THEN s.target ELSE @,
            !.current = IF s.previous # NoVersion THEN s.previous ELSE process.version,
            !.target = NoVersion, !.crashes = 0, !.rollback = FALSE]

HasBackup(s) == s.backup # 0 /\ backups[s.backup] # NoVersion

RollbackTo(s, lockBad, up) ==
  \/ /\ ~HasBackup(s)
     /\ st' = s /\ process' = up
     /\ UNCHANGED <<binary, file, op, upsets, watch>>
  \/ /\ HasBackup(s)
     /\ binary' = backups[s.backup]
     /\ Saved(RolledBack(s, lockBad)) /\ process' = up
     /\ UNCHANGED <<op, watch>>
  \/ /\ HasBackup(s)
     /\ binary' = backups[s.backup]
     /\ NotSaved(RolledBack(s, lockBad)) /\ process' = up
     /\ watch' = "lost"
     /\ UNCHANGED op
  \/ /\ HasBackup(s)
     /\ binary' = backups[s.backup]
     /\ Upset /\ process' = [up EXCEPT !.stage = "down"] /\ op' = NoUpdate
     /\ watch' = "lost"
     /\ UNCHANGED <<st, file>>
  \/ /\ HasBackup(s)
     /\ Upset /\ st' = Failed(s) /\ file' \in {file, Failed(s)} /\ process' = up
     /\ watch' = "lost"
     /\ UNCHANGED <<binary, op>>
-----------------------------------------------------------------------------
(* New: the process manager starts the binary, which loads the state.      *)
Boot ==
  /\ process.stage = "down"
  /\ process' = [stage |-> "booting", version |-> binary]
  /\ st' = file
  /\ UNCHANGED <<binary, backups, file, op, updates, upsets, watch>>

(* Mutant: the count of the startups is not saved.                         *)
CountInMemory(s) == st' = s /\ UNCHANGED <<file, upsets>>

CountStartup(s) == Save(s)

Reached(n) == n >= MaxCrashCount

RecordStartup ==
  /\ process.stage = "booting"
  /\ LET up      == [process EXCEPT !.stage = "up"]
         counted == [st EXCEPT !.crashes = @ + 1]
     IN  \/ ~Pending /\ process' = up /\ UNCHANGED <<binary, file, st, op, upsets, watch>>
         \/ /\ Pending /\ ~Reached(counted.crashes)
            /\ CountStartup(counted) /\ process' = up
            /\ UNCHANGED <<binary, op, watch>>
         \/ Pending /\ Reached(counted.crashes) /\ RollbackTo(counted, TRUE, up)
  /\ UNCHANGED <<backups, updates>>

(* RollbackIfHealthExpired, in the sync and in the report loop.            *)
HealthExpired ==
  /\ Up /\ Pending
  /\ RollbackTo(st, FALSE, process)
  /\ UNCHANGED <<backups, updates>>

(* Mutant: the new version is not made the current one.                    *)
HealthyUncurrent(s) ==
  [s EXCEPT !.status = "healthy", !.target = NoVersion, !.previous = NoVersion,
            !.crashes = 0, !.backup = 0, !.rollback = FALSE]

Healthy(s) ==
  [s EXCEPT !.status = "healthy", !.current = s.target, !.target = NoVersion, !.previous = NoVersion,
            !.crashes = 0, !.backup = 0, !.rollback = FALSE]

(* Mutant: the backup is removed, whatever became of the record.           *)
RemovedAnyway(saved) == IF st.backup = 0 THEN backups ELSE [backups EXCEPT ![st.backup] = NoVersion]

BackupsAfter(saved) ==
  IF ~saved \/ st.backup = 0 THEN backups ELSE [backups EXCEPT ![st.backup] = NoVersion]

(* MarkHealthy: the panel has accepted a status report.  The process that  *)
(* confirms need not be the version it confirms.                           *)
MarkHealthy ==
  /\ Up /\ Pending /\ process.version \notin Bad
  /\ \/ Saved(Healthy(st)) /\ backups' = BackupsAfter(TRUE)
     \/ NotSaved(Healthy(st)) /\ backups' = BackupsAfter(FALSE)
  /\ watch' = IF process.version # st.target THEN "lost"
              ELSE IF watch = "resumed" /\ file' = st' THEN "kept" ELSE watch
  /\ UNCHANGED <<binary, process, op, updates>>
-----------------------------------------------------------------------------
(* Check: the state tells of the check and no longer of what it told       *)
(* before.                                                                 *)
Check(v) ==
  /\ Up /\ op.stage = "none"
  /\ Save([st EXCEPT !.status = "checked", !.target = v])
  /\ Forgets
  /\ UNCHANGED <<binary, backups, process, op, updates>>

(* recordCheckFailure; and an update that is refused, because its source   *)
(* is not trusted or its target locked.                                    *)
CheckFails ==
  /\ Up /\ op.stage = "none"
  /\ Upset /\ st' = Failed(st) /\ file' \in {file, st'} /\ Forgets
  /\ UNCHANGED <<binary, backups, process, op, updates>>

Locked(v) == v = st.locked

UpdateRefused(v) ==
  /\ Up /\ op.stage = "none" /\ Locked(v)
  /\ Save(Failed(st)) /\ Forgets
  /\ UNCHANGED <<binary, backups, process, op, updates>>

(* Update: the checksum is fetched, and a random delay waited for.         *)
UpdateStart(v) ==
  /\ Up /\ op.stage = "none" /\ ~Locked(v)
  /\ updates < MaxUpdates
  /\ updates' = updates + 1
  /\ op' = [stage |-> "checking", target |-> v]
  /\ UNCHANGED <<binary, backups, file, process, st, upsets, watch>>

Goto(s) == op' = [op EXCEPT !.stage = s]

(* beginUpdate.                                                            *)
BeginUpdate ==
  /\ Up /\ op.stage = "checking"
  /\ Save([st EXCEPT !.status = "in_progress", !.target = op.target])
  /\ Forgets
  /\ Goto("downloading")
  /\ UNCHANGED <<binary, backups, process, updates>>

(* The release is there and has its checksum; the binary is copied.        *)
Backup ==
  /\ Up /\ op.stage = "downloading"
  /\ backups' = [backups EXCEPT ![updates] = binary]
  /\ Goto("replacing")
  /\ UNCHANGED <<binary, file, process, st, updates, upsets, watch>>

(* replaceBinary, a rename.                                                *)
Replace ==
  /\ Up /\ op.stage = "replacing"
  /\ binary' = op.target
  /\ Goto("marking")
  /\ UNCHANGED <<backups, file, process, st, updates, upsets, watch>>

(* markPendingHealth: if it cannot be saved the handler fails, and the     *)
(* state in memory waits nevertheless.                                     *)
MarkPending ==
  /\ Up /\ op.stage = "marking"
  /\ LET marked == [st EXCEPT !.status = "pending_health", !.target = op.target, !.previous = st.current,
                              !.crashes = 0, !.backup = updates, !.rollback = TRUE]
     IN  \/ Saved(marked) /\ Goto("announcing")
            /\ watch' = IF watch = "lost" THEN "resumed" ELSE watch
         \/ NotSaved(marked) /\ op' = NoUpdate /\ watch' = "lost"
  /\ UNCHANGED <<binary, backups, process, updates>>

(* Checksum, delay, download, backup or rename fail: fail().               *)
UpdateFails ==
  /\ Up /\ op.stage \in {"checking", "downloading", "replacing"}
  /\ Upset /\ st' = Failed(st) /\ file' \in {file, st'} /\ Forgets
  /\ op' = NoUpdate
  /\ UNCHANGED <<binary, backups, process, updates>>

(* A progress report fails, and with it the update: nothing is recorded,   *)
(* and after the last one the new binary is not executed.                  *)
ReportFails ==
  /\ Up /\ op.stage \in {"checking", "downloading", "replacing", "announcing"}
  /\ Upset
  /\ op' = NoUpdate
  /\ UNCHANGED <<binary, backups, file, process, st, updates, watch>>

(* syscall.Exec: the new binary takes over the process.                    *)
Exec ==
  /\ Up /\ op.stage = "announcing"
  /\ process' = [process EXCEPT !.stage = "down"]
  /\ op' = NoUpdate
  /\ UNCHANGED <<binary, backups, file, st, updates, upsets, watch>>

(* os.Exit(0); the unit is restarted on failure only.                      *)
ExecFails ==
  /\ Up /\ op.stage = "announcing"
  /\ Upset
  /\ process' = [process EXCEPT !.stage = "off"]
  /\ op' = NoUpdate
  /\ UNCHANGED <<binary, backups, file, st, updates, watch>>
-----------------------------------------------------------------------------
(* The process dies, and with it the handler: a binary that is replaced    *)
(* and not yet marked is watched over by nobody.                           *)
Dies ==
  /\ process' = [process EXCEPT !.stage = "down"]
  /\ op' = NoUpdate
  /\ watch' = IF op.stage = "marking" THEN "lost" ELSE watch
  /\ UNCHANGED <<binary, backups, file, st, updates>>

Running == process.stage \in {"booting", "up"}

Crash    == Running /\ Upset /\ Dies
BadCrash == Running /\ process.version \in Bad /\ Dies /\ UNCHANGED upsets

Update ==
  \/ BeginUpdate \/ Backup \/ Replace \/ MarkPending \/ Exec

Next ==
  \/ Boot \/ RecordStartup \/ HealthExpired \/ MarkHealthy
  \/ \E v \in Versions : Check(v) \/ UpdateRefused(v) \/ UpdateStart(v)
  \/ CheckFails
  \/ Update \/ UpdateFails \/ ReportFails \/ ExecFails
  \/ Crash \/ BadCrash

Spec == Init /\ [][Next]_vars

(* The process manager starts what has failed, a good version comes to     *)
(* count its startup, a handler goes on, and the loops look at the         *)
(* deadline, which passes.  What a bad version does is up to it.           *)
Fairness ==
  /\ WF_vars(Boot) /\ WF_vars(RecordStartup /\ process.version \notin Bad)
  /\ WF_vars(Update)
  /\ WF_vars(HealthExpired)

FairSpec == Spec /\ Fairness
-----------------------------------------------------------------------------
TypeOK ==
  /\ binary \in Versions
  /\ backups \in [BackupIds -> Labels]
  /\ {file, st} \subseteq State
  /\ process \in [stage : {"down", "booting", "up", "off"}, version : Versions]
  /\ op \in [stage : Stages, target : Labels]
  /\ updates \in 0..MaxUpdates /\ upsets \in 0..MaxUpsets
  /\ watch \in {"kept", "lost", "resumed"}

(* What the state file promises can be done: a rollback that is said to be *)
(* available finds its backup on disk, whatever deaths and failed writes   *)
(* came before.                                                            *)
RollbackPossible == file.rollback => HasBackup(file)

(* The state file tells which version is installed: the current one, or    *)
(* the target while its confirmation is awaited.  It may be wrong only     *)
(* while a handler is between the rename and the record, or after what     *)
(* waited was forgotten: by a check or another update in between, by a     *)
(* death or a failed write at the wrong moment, or by a confirmation that  *)
(* came from the old process.                                              *)
CurrentTruthful ==
  watch = "kept" =>
    \/ op.stage = "marking"
    \/ binary = file.current
    \/ file.status = "pending_health" /\ binary = file.target

(* A bad version whose confirmation is awaited leaves the disk again,      *)
(* unless what waited is forgotten or the agent has exited for good, or    *)
(* unless from some moment on no start of the agent gets as far as to      *)
(* count itself: RecordStartup comes late in New (service.go), and what    *)
(* always dies before it is neither counted nor held to the deadline.      *)
BadLeaves ==
  []<>Up =>
    ((binary \in Bad /\ file.status = "pending_health") ~>
      (binary \notin Bad \/ watch # "kept" \/ process.stage = "off"))
=============================================================================
