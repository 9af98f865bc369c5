----------------------------- MODULE StagedApply -----------------------------
(***************************************************************************)
(* The agent's transaction on its configuration directory                  *)
(* (agent/protocol/staged_apply.go, ExecuteStagedApply): build the new     *)
(* directory beside the active one, validate it, swap the two by renames,  *)
(* reload the core, and swap back when the reload fails.  Snapshots (a     *)
(* batch from the panel) replace every file; patches (users injected into  *)
(* config.json, the panel's legacy configuration) copy the active          *)
(* directory and replace config.json.  applyMu serialises transactions.    *)
(*                                                                         *)
(* A directory is the version its files come from and the versions its     *)
(* config.json has parts of, none when there is no such file; Missing is   *)
(* no directory at all.  The managed, the legacy and the current directory *)
(* are one, the default.  So for xray the config.json of a batch is merged *)
(* from its files and the config.json of the active directory, which is    *)
(* the legacy one.  The process may die between any two system calls: the  *)
(* directories stay as they are.                                           *)
(*                                                                         *)
(* Abstractions.  Contents are versions; which parts of the old            *)
(* config.json the tags of a batch replace is left open.  Backups a dead   *)
(* process leaves behind are never looked at again and are dropped.        *)
(***************************************************************************)
EXTENDS Naturals

CONSTANTS Txns,          \* the callers of ExecuteStagedApply
          Versions,      \* versions of the configuration
          NoVersion,     \* the version of files that are not there
          Missing,       \* no directory
          Nobody,
          Merges         \* xray: config.json is merged

VARIABLES active,        \* the active directory
          lock,          \* the holder of applyMu
          phase,         \* [Txns -> Phases]
          request,       \* [Txns -> Requests]
          before,        \* [Txns -> the active directory when the stage was built]
          backup,        \* [Txns -> the backup directory]
          outcome,       \* [Txns -> Outcomes]: of the last transaction
          torn           \* history: a death or a failed rename left the directory unrestored,
                         \* and no batch has been put into its place since

vars == <<active, lock, phase, request, before, backup, outcome, torn>>
-----------------------------------------------------------------------------
Labels   == Versions \cup {NoVersion}
Dirs     == [files : Labels, config : SUBSET Versions]
Requests ==
  [mode : {"snapshot"}, version : Versions, config : {{}}]
    \cup [mode : {"patch"}, version : {NoVersion}, config : SUBSET Versions]
Phases   == {"idle", "waiting", "staged", "moved", "switched", "removing", "removed", "restored"}
Outcomes == {"none", "ok", "failed", "rolled_back"}

Holding(x) == phase[x] \notin {"idle", "waiting"}

NoRequest == [mode |-> "patch", version |-> NoVersion, config |-> {}]

Init ==
  /\ active = Missing
  /\ lock = Nobody
  /\ phase = [x \in Txns |-> "idle"]
  /\ request = [x \in Txns |-> NoRequest]
  /\ before = [x \in Txns |-> Missing]
  /\ backup = [x \in Txns |-> Missing]
  /\ outcome = [x \in Txns |-> "none"]
  /\ torn = FALSE

Goto(x, p) == phase' = [phase EXCEPT ![x] = p]

(* The transaction returns: the deferred Unlock.                           *)
Return(x, result) ==
  /\ lock' = Nobody
  /\ phase' = [phase EXCEPT ![x] = "idle"]
  /\ outcome' = [outcome EXCEPT ![x] = result]
  /\ request' = [request EXCEPT ![x] = NoRequest]
  /\ before' = [before EXCEPT ![x] = Missing]
  /\ backup' = [backup EXCEPT ![x] = Missing]
-----------------------------------------------------------------------------
(* ExecuteStagedApply is called and waits for applyMu.                     *)
Ask(x, req) ==
  /\ phase[x] = "idle"
  /\ Goto(x, "waiting")
  /\ request' = [request EXCEPT ![x] = req]
  /\ outcome' = [outcome EXCEPT ![x] = "none"]
  /\ UNCHANGED <<active, lock, before, backup, torn>>

ConfigOf(dir) == IF dir = Missing THEN {} ELSE dir.config

(* Mutant: where both have a tag, the old config.json wins.                *)
MergedUnder(version, old) ==
  IF Merges THEN {ConfigOf(old) \cup taken : taken \in SUBSET {version}}
            ELSE {{version}, {}}

(* What the config.json of a snapshot may have parts of.  Merged, it has   *)
(* the inbounds and outbounds of all other files of the batch, laid over   *)
(* what their tags leave of the old one; a config.json of the batch itself *)
(* is dropped.  Otherwise it is a file of the batch, or there is none.     *)
Merged(version, old) ==
  IF Merges THEN {kept \cup {version} : kept \in SUBSET ConfigOf(old)}
            ELSE {{version}, {}}

(* The directories that may come of a request: a snapshot starts from an   *)
(* empty one, a patch from a copy of the old one, if there is one.         *)
Built(req, old) ==
  IF req.mode = "snapshot"
    THEN {[files |-> req.version, config |-> c] : c \in Merged(req.version, old)}
    ELSE {[files |-> IF old = Missing THEN NoVersion ELSE old.files, config |-> req.config]}

Staged(x) == Built(request[x], before[x])

(* The stage is built and validated.                                       *)
Stage(x) ==
  /\ phase[x] = "waiting" /\ lock = Nobody
  /\ lock' = x
  /\ Goto(x, "staged")
  /\ before' = [before EXCEPT ![x] = active]
  /\ UNCHANGED <<active, request, backup, outcome, torn>>

(* It cannot be built or does not validate, or the first rename fails.     *)
StageFails(x) ==
  /\ phase[x] = "waiting" /\ lock = Nobody
  /\ Return(x, "failed")
  /\ UNCHANGED <<active, torn>>

(* Mutant: the active directory is removed to make room.                   *)
NoBackup(x) == Missing

BackupOf(x) == active

(* switchManagedDir, first rename: the active directory, if there is one,  *)
(* becomes the backup.                                                     *)
MoveAway(x) ==
  /\ phase[x] = "staged" /\ active # Missing
  /\ backup' = [backup EXCEPT ![x] = BackupOf(x)]
  /\ active' = Missing
  /\ Goto(x, "moved")
  /\ UNCHANGED <<lock, request, before, outcome, torn>>

(* Second rename: the stage becomes the active directory.                  *)
Activate(x) ==
  /\ phase[x] = "moved" \/ (phase[x] = "staged" /\ active = Missing)
  /\ active' \in Staged(x)
  /\ Goto(x, "switched")
  /\ UNCHANGED <<lock, request, before, backup, outcome, torn>>

(* Mutant: a stage that cannot be activated leaves the backup where it is. *)
MovedBackNot(x) == Missing

MovedBack(x) == backup[x]

(* It fails; the backup is renamed back, or that fails too and is not      *)
(* noticed.                                                                *)
ActivateFails(x) ==
  /\ phase[x] = "moved"
  /\ \/ active' = MovedBack(x) /\ UNCHANGED torn
     \/ torn' = TRUE /\ UNCHANGED active
  /\ Return(x, "failed")

(* The core has taken the new configuration; the backup is removed.        *)
ReloadOk(x) ==
  /\ phase[x] = "switched"
  /\ Return(x, "ok")
  /\ torn' = (torn /\ request[x].mode = "patch")
  /\ UNCHANGED active

(* There is something to go back to: the result's Switched.                *)
RollsBack(x) == backup[x] # Missing

(* The core has not taken it.  Without a backup the failed configuration   *)
(* stays.                                                                  *)
ReloadFails(x) ==
  /\ phase[x] = "switched"
  /\ \/ /\ RollsBack(x)
        /\ Goto(x, "removing")
        /\ UNCHANGED <<lock, request, before, backup, outcome>>
     \/ /\ ~RollsBack(x)
        /\ Return(x, "failed")
  /\ UNCHANGED <<active, torn>>

(* rollbackManagedDir: remove the active directory,                        *)
Remove(x) ==
  /\ phase[x] = "removing"
  /\ active' = Missing
  /\ Goto(x, "removed")
  /\ UNCHANGED <<lock, request, before, backup, outcome, torn>>

(* and rename the backup back.                                             *)
Restore(x) ==
  /\ phase[x] = "removed"
  /\ active' = backup[x]
  /\ Goto(x, "restored")
  /\ UNCHANGED <<lock, request, before, backup, outcome, torn>>

(* One of the two fails.                                                   *)
RollbackFails(x) ==
  /\ phase[x] \in {"removing", "removed"}
  /\ torn' = TRUE
  /\ Return(x, "failed")
  /\ UNCHANGED active

(* The core is reloaded again; however that goes, the apply is reported as *)
(* rolled back.                                                            *)
ReloadAgain(x) ==
  /\ phase[x] = "restored"
  /\ Return(x, "rolled_back")
  /\ UNCHANGED <<active, torn>>

(* The process dies.                                                       *)
Die ==
  /\ lock' = Nobody
  /\ phase' = [x \in Txns |-> "idle"]
  /\ request' = [x \in Txns |-> NoRequest]
  /\ before' = [x \in Txns |-> Missing]
  /\ backup' = [x \in Txns |-> Missing]
  /\ outcome' = [x \in Txns |-> "none"]
  /\ torn' = (torn \/ \E x \in Txns : backup[x] # Missing /\ phase[x] # "restored")
  /\ UNCHANGED active
-----------------------------------------------------------------------------
Step(x) ==
  \/ Stage(x) \/ MoveAway(x) \/ Activate(x) \/ ReloadOk(x)
  \/ Remove(x) \/ Restore(x) \/ ReloadAgain(x)

Failure(x) == StageFails(x) \/ ActivateFails(x) \/ ReloadFails(x) \/ RollbackFails(x)

Next ==
  \/ \E x \in Txns : Step(x) \/ Failure(x) \/ \E req \in Requests : Ask(x, req)
  \/ Die

Spec == Init /\ [][Next]_vars
-----------------------------------------------------------------------------
TypeOK ==
  /\ active \in Dirs \cup {Missing}
  /\ lock \in Txns \cup {Nobody}
  /\ phase \in [Txns -> Phases]
  /\ request \in [Txns -> Requests]
  /\ before \in [Txns -> Dirs \cup {Missing}]
  /\ backup \in [Txns -> Dirs \cup {Missing}]
  /\ outcome \in [Txns -> Outcomes]
  /\ torn \in BOOLEAN

(* The directory is away only between the two renames of the transaction   *)
(* that holds the lock, or as long as it has never been there, or after a  *)
(* death or a failed restore in that gap (the hazard of                    *)
(* switchManagedDir): a directory that was there when the transaction      *)
(* began is either active or its backup, so nothing is lost otherwise.     *)
NothingLost ==
  \A x \in Txns : Holding(x) /\ before[x] # Missing =>
    before[x] \in {active, backup[x]}

(* A transaction that does not succeed leaves the directory it found,      *)
(* unless it found none or its rollback failed.                            *)
FailureRestores ==
  [][\A x \in Txns : Holding(x) /\ outcome'[x] \in {"failed", "rolled_back"} =>
       active' = before[x] \/ before[x] = Missing \/ torn']_vars
=============================================================================
