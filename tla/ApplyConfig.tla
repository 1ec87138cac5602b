---------------------------- MODULE ApplyConfig ----------------------------
(***************************************************************************)
(* The configuration apply workflow                                        *)
(* (application/use-cases/apply-config.ts) over the YAML repository        *)
(* (infrastructure/yaml/yaml-config-repository.ts) and the host executor.  *)
(*                                                                         *)
(* The backend is one Node.js process: a handler runs undisturbed from one *)
(* await to the next, so an action is the stretch between two awaits that  *)
(* touch shared state, and any other handler may run between two actions.  *)
(* Only applies share the mutex; the editors (saveSmf/saveUpf/... called   *)
(* by sync-sd, APN profiles, auto-config) and the on-demand backups of the *)
(* backup page do not take it.                                             *)
(***************************************************************************)
EXTENDS Integers, Sequences, YamlDoc

CONSTANTS
    Applies,       \* POST /api/config/apply requests
    Editors,       \* use cases that patch one YAML file outside the mutex
    Snapshots,     \* POST /api/backup/config requests
    Files,         \* every file backupAll()/restoreBackup() copies
    BackupOrder,   \* the order in which they are copied
    SaveOrder,     \* the files the apply writes, in writing order
    Required,      \* the files loadAll() cannot do without; the others are optional
    Units,         \* systemd units
    RestartOrder,  \* SERVICE_RESTART_ORDER
    AbsentUnits,   \* units systemd does not know on this host ('not found')
    ContainerUnits, \* those of them restarted as a container instead (MongoDB)
    InitDisks,     \* possible initial contents of the configuration directory
    Requests,      \* possible request bodies: per file, a document or NoDoc
    EditField, EditValue, EditFiles, \* what an editor sets, and where
    MaxMinute,     \* bound on the wall clock, in minutes
    MaxCrashes,    \* bound on backend crashes
    Down, NoDoc, None

Minutes == 0..MaxMinute

ASSUME OrdersAssumption ==
    /\ BackupOrder \in Seq(Files) /\ SaveOrder \in Seq(Files)
    /\ Required \subseteq Files
    /\ RestartOrder \in Seq(Units) /\ AbsentUnits \subseteq Units
    /\ ContainerUnits \subseteq AbsentUnits
    /\ \A f \in Files : \E i \in 1..Len(BackupOrder) : BackupOrder[i] = f
    /\ \A i, j \in 1..Len(BackupOrder) : BackupOrder[i] = BackupOrder[j] => i = j

\* What a save writes, it writes again unchanged.
ASSUME NormalAssumption ==
    /\ Unset \notin Values
    /\ Normal \in [Values -> Values \cup {Unset}]
    /\ \A v \in Values : Normal[v] # Unset => Normal[Normal[v]] = Normal[v]

ASSUME BoundsAssumption == MaxMinute \in Nat /\ MaxCrashes \in Nat

ASSUME DocsAssumption ==
    /\ InitDisks \subseteq [Files -> Docs \cup {NoFile, Blank}]
    /\ Requests \subseteq [Files -> Docs \cup {NoDoc}]
    /\ EditField \in Fields /\ EditValue \in Values /\ EditFiles \subseteq Files
    /\ {NoFile, Torn, Blank, Down, NoDoc} \cap Docs = {}
    /\ NoDoc \notin [file : Files, doc : Docs]
    /\ NoFile \notin {Torn, Blank, Down} /\ Down \notin {Torn, Blank}
    /\ Torn # Blank /\ None \notin Applies

VARIABLES
    minute,    \* wall clock, which names the backup directories
    disk,      \* disk[f]: content of the file in /etc/open5gs
    backup,    \* backup[m][f]: content of the backup directory of minute m
    running,   \* running[u]: the configuration the unit runs with, or Down
    prom,      \* the request whose targets prometheus.yml holds, or None
    mutex,     \* the apply that holds the mutex, or None
    pc,        \* where each actor is
    k,         \* position in the loop it is in
    req,       \* request body of an apply
    dir,       \* backup directory of an apply or an on-demand backup
    existing,  \* the files loadAll() gave an apply before its save loop
    base,      \* what saveRaw() read before merging
    edit,      \* the file an editor patches and the document it is about to save
    cause,     \* why an apply rolls back
    outcome,   \* what the apply answered
    audit,     \* audit entries: <<apply, action>>
    crashes,
    pre,       \* history: the files as the apply found them
    found,     \* history: the files as they were at the start
    fresh,     \* history: files a save wrote with no document under them
    stale      \* history: units excused from running what is on disk

files == <<disk, backup>>
locals == <<base, existing>>
history == <<pre, found, fresh>>
services == <<running, stale>>
answer == <<outcome, audit>>
vars == <<minute, disk, backup, running, prom, mutex, pc, k, req, dir, base,
          existing, edit, cause, outcome, audit, crashes, pre, found, fresh, stale>>

Actors == Applies \cup Editors \cup Snapshots

ASSUME ActorsAssumption ==
    /\ Applies \cap Editors = {} /\ Applies \cap Snapshots = {}
    /\ Editors \cap Snapshots = {}

InFlightLabels == {"diff", "backup", "existing", "load", "save", "prometheus", "restart",
                   "verify", "restore", "copying", "rerestart"}

-----------------------------------------------------------------------------
\* The configuration a unit started now would read.
ConfigOf(u) == IF u \in Files THEN disk[u] ELSE NoFile

-----------------------------------------------------------------------------
Init ==
    /\ minute = 0
    /\ disk \in InitDisks
    /\ backup = [m \in Minutes |-> [f \in Files |-> NoFile]]
    /\ running = [u \in Units |-> ConfigOf(u)]
    /\ prom = None
    /\ mutex = None
    /\ pc = [p \in Actors |-> "idle"]
    /\ k = [p \in Actors |-> 1]
    /\ req = [a \in Applies |-> [f \in Files |-> NoDoc]]
    /\ dir = [p \in Actors |-> 0]
    /\ base = [p \in Actors |-> NoFile]
    /\ existing = [a \in Applies |-> {}]
    /\ edit = [e \in Editors |-> NoDoc]
    /\ cause = [a \in Applies |-> "none"]
    /\ outcome = [a \in Applies |-> "none"]
    /\ audit = {}
    /\ crashes = 0
    /\ pre = [a \in Applies |-> disk]
    /\ found = disk
    /\ fresh = {}
    /\ stale = AbsentUnits

-----------------------------------------------------------------------------
(* Control helpers *)

Goto(p, label) == pc' = [pc EXCEPT ![p] = label]
Loop(p, i) == k' = [k EXCEPT ![p] = i]

\* Mutant: the mutex is not released when the handler throws.
AnswerHoldingOnThrow(a, o) ==
    /\ outcome' = [outcome EXCEPT ![a] = o]
    /\ mutex' = IF o = "error" THEN mutex ELSE None
    /\ Goto(a, "done")
    /\ Loop(a, 1)
    /\ base' = [base EXCEPT ![a] = NoFile]
    /\ existing' = [existing EXCEPT ![a] = {}]

\* runExclusive() releases the mutex on return and on throw alike; the locals
\* of the handler are gone.
Answer(a, o) ==
    /\ outcome' = [outcome EXCEPT ![a] = o]
    /\ mutex' = None
    /\ Goto(a, "done")
    /\ Loop(a, 1)
    /\ base' = [base EXCEPT ![a] = NoFile]
    /\ existing' = [existing EXCEPT ![a] = {}]

-----------------------------------------------------------------------------
(* The apply *)

\* mutex.isLocked() ? throw : runExclusive(...)
Submit(a, r) ==
    /\ pc[a] = "idle"
    /\ mutex = None
    /\ mutex' = a
    /\ req' = [req EXCEPT ![a] = r]
    /\ Goto(a, "diff")
    /\ UNCHANGED <<minute, files, services, prom, k, dir, locals, edit, cause,
                   answer, crashes, history>>

Refuse(a) ==
    /\ pc[a] = "idle"
    /\ mutex # None
    /\ outcome' = [outcome EXCEPT ![a] = "busy"]
    /\ Goto(a, "done")
    /\ UNCHANGED <<minute, files, services, prom, mutex, k, req, dir, locals, edit,
                   cause, audit, crashes, history>>

\* loadAll(): a file without a document loads as undefined, which the loaders of
\* the required services throw on; an optional service is left out.
LoadableFiles == {f \in Files : disk[f] # Blank}
LoadAllRejects == ~ (Required \subseteq LoadableFiles)

\* The loadAll() of the diff is outside every catch but the last.
DiffFails(a) ==
    /\ pc[a] = "diff"
    /\ LoadAllRejects
    /\ Answer(a, "error")
    /\ UNCHANGED <<minute, files, services, prom, req, dir, edit,
                   cause, audit, crashes, history>>

\* The diff only reads; then the directory is named after the current minute.
ChooseBackupDir(a) ==
    /\ pc[a] = "diff"
    /\ ~ LoadAllRejects
    /\ dir' = [dir EXCEPT ![a] = minute]
    /\ pre' = [pre EXCEPT ![a] = disk]
    /\ Goto(a, "backup")
    /\ Loop(a, 1)
    /\ UNCHANGED <<minute, files, services, prom, mutex, req, locals, edit,
                   cause, answer, crashes, found, fresh>>

\* Mutant: files an earlier apply of this minute left in the directory are kept.
CopyIfAbsent(p) ==
    LET f == BackupOrder[k[p]]
    IN  backup' = [backup EXCEPT ![dir[p]][f] = IF @ = NoFile THEN disk[f] ELSE @]

\* Mutant: the directory is named anew for every file.
CopyToCurrentMinute(p) ==
    LET f == BackupOrder[k[p]]
    IN  backup' = [backup EXCEPT ![minute][f] = IF disk[f] = NoFile THEN @ ELSE disk[f]]

\* backupAll(): one file per iteration, a missing file is skipped.
CopyToBackup(p) ==
    LET f == BackupOrder[k[p]]
    IN  backup' = [backup EXCEPT ![dir[p]][f] = IF disk[f] = NoFile THEN @ ELSE disk[f]]

BackupFile(a) ==
    /\ pc[a] = "backup" /\ k[a] <= Len(BackupOrder)
    /\ CopyToBackup(a)
    /\ Loop(a, k[a] + 1)
    /\ UNCHANGED <<minute, disk, services, prom, mutex, pc, req, dir, locals, edit,
                   cause, answer, crashes, history>>

BackupDone(a) ==
    /\ pc[a] = "backup" /\ k[a] > Len(BackupOrder)
    /\ Goto(a, "existing")
    /\ Loop(a, 1)
    /\ UNCHANGED <<minute, files, services, prom, mutex, req, dir, locals, edit,
                   cause, answer, crashes, history>>

\* throw new Error('Backup failed')
BackupFails(a) ==
    /\ pc[a] = "backup" /\ k[a] <= Len(BackupOrder)
    /\ Answer(a, "error")
    /\ UNCHANGED <<minute, files, services, prom, req, dir, edit,
                   cause, audit, crashes, history>>

\* loadAll() again, before the save loop; here a rejection starts the rollback
\* (only someone else truncating a file since the diff could cause one).
LoadExisting(a) ==
    /\ pc[a] = "existing"
    /\ existing' = [existing EXCEPT ![a] = LoadableFiles]
    /\ Goto(a, IF LoadAllRejects THEN "restore" ELSE "load")
    /\ Loop(a, 1)
    /\ cause' = [cause EXCEPT ![a] = IF LoadAllRejects THEN "write" ELSE @]
    /\ UNCHANGED <<minute, files, services, prom, mutex, req, dir, base, edit,
                   answer, crashes, history>>

\* saveRaw(), up to its await: read the file the document is merged over.
SaveRead(a) ==
    /\ pc[a] = "load" /\ k[a] <= Len(SaveOrder)
    /\ req[a][SaveOrder[k[a]]] # NoDoc /\ SaveOrder[k[a]] \in existing[a]
    /\ base' = [base EXCEPT ![a] = disk[SaveOrder[k[a]]]]
    /\ Goto(a, "save")
    /\ UNCHANGED <<minute, files, services, prom, mutex, k, req, dir, existing, edit,
                   cause, answer, crashes, history>>

\* if (svc.new && svc.existing): a file the request leaves out is not written,
\* nor is one that could not be loaded, which is only logged.
SaveSkip(a) ==
    /\ pc[a] = "load" /\ k[a] <= Len(SaveOrder)
    /\ req[a][SaveOrder[k[a]]] = NoDoc \/ SaveOrder[k[a]] \notin existing[a]
    /\ Loop(a, k[a] + 1)
    /\ UNCHANGED <<minute, files, services, prom, mutex, pc, req, dir, locals, edit,
                   cause, answer, crashes, history>>

\* A save with no document under it keeps nothing of the file.
NoteFresh(f, content) ==
    fresh' = IF content \in Docs THEN fresh ELSE fresh \cup {f}

\* saveRaw(), after its await: merge, clean, write a temporary file, rename it.
SaveWrite(a) ==
    LET f == SaveOrder[k[a]]
    IN  /\ pc[a] = "save"
        /\ disk' = [disk EXCEPT ![f] = Saved(base[a], req[a][f])]
        /\ NoteFresh(f, base[a])
        /\ Loop(a, k[a] + 1)
        /\ Goto(a, "load")
        /\ UNCHANGED <<minute, backup, services, prom, mutex, req, dir, locals, edit,
                       cause, answer, crashes, pre, found>>

\* Mutant: a failed write is logged and the loop goes on.
SaveFailsIgnored(a) ==
    /\ pc[a] = "save"
    /\ Goto(a, "load")
    /\ Loop(a, k[a] + 1)
    /\ UNCHANGED <<minute, files, services, prom, mutex, req, dir, locals, edit,
                   cause, answer, crashes, history>>

\* A failed write leaves the file as it was and starts the rollback.
SaveFails(a) ==
    /\ pc[a] = "save"
    /\ cause' = [cause EXCEPT ![a] = "write"]
    /\ Goto(a, "restore")
    /\ Loop(a, 1)
    /\ UNCHANGED <<minute, files, services, prom, mutex, req, dir, locals, edit,
                   answer, crashes, history>>

SavesDone(a) ==
    /\ pc[a] = "load" /\ k[a] > Len(SaveOrder)
    /\ Goto(a, "prometheus")
    /\ UNCHANGED <<minute, files, services, prom, mutex, k, req, dir, locals, edit,
                   cause, answer, crashes, history>>

\* syncPrometheus.execute() never throws; a failure leaves prometheus.yml alone.
SyncPrometheus(a) ==
    /\ pc[a] = "prometheus"
    /\ prom' \in {a, prom}
    /\ Goto(a, "restart")
    /\ Loop(a, 1)
    /\ UNCHANGED <<minute, files, services, mutex, req, dir, locals, edit,
                   cause, answer, crashes, history>>

\* systemctl restart exits 0: the unit runs the file on disk, or dies right away.
RestartUnit(a) ==
    LET u == RestartOrder[k[a]]
    IN  /\ pc[a] = "restart" /\ k[a] <= Len(RestartOrder)
        /\ u \notin AbsentUnits
        /\ \E c \in {ConfigOf(u), Down} : running' = [running EXCEPT ![u] = c]
        /\ stale' = stale \ {u}
        /\ Goto(a, "verify")
        /\ UNCHANGED <<minute, files, prom, mutex, k, req, dir, locals, edit,
                       cause, answer, crashes, history>>

\* stderr says 'not found': counted as a success.  So is a container that
\* 'docker restart' restarted: no status is checked.
RestartSkipped(a) ==
    /\ pc[a] = "restart" /\ k[a] <= Len(RestartOrder)
    /\ RestartOrder[k[a]] \in AbsentUnits
    /\ Loop(a, k[a] + 1)
    /\ UNCHANGED <<minute, files, services, prom, mutex, pc, req, dir, locals, edit,
                   cause, answer, crashes, history>>

\* Any other failure (the unit may have been stopped already) breaks the loop.
RestartFails(a) ==
    LET u == RestartOrder[k[a]]
    IN  /\ pc[a] = "restart" /\ k[a] <= Len(RestartOrder)
        /\ u \notin AbsentUnits \ ContainerUnits
        /\ \E c \in {running[u], Down} : running' = [running EXCEPT ![u] = c]
        /\ Goto(a, "restore")
        /\ Loop(a, 1)
        /\ cause' = [cause EXCEPT ![a] = "restart"]
        /\ UNCHANGED <<minute, files, prom, mutex, req, dir, locals, edit, stale,
                       answer, crashes, history>>

\* Mutant: the status is polled until the unit is active.
VerifyUntilActive(a) ==
    /\ pc[a] = "verify"
    /\ running[RestartOrder[k[a]]] # Down
    /\ Loop(a, k[a] + 1)
    /\ Goto(a, "restart")
    /\ UNCHANGED <<minute, files, services, prom, mutex, req, dir, locals, edit,
                   cause, answer, crashes, history>>

\* Up to five is-active checks; a unit that is not active is only logged.
VerifyUnit(a) ==
    /\ pc[a] = "verify"
    /\ Loop(a, k[a] + 1)
    /\ Goto(a, "restart")
    /\ UNCHANGED <<minute, files, services, prom, mutex, req, dir, locals, edit,
                   cause, answer, crashes, history>>

RestartsDone(a) ==
    /\ pc[a] = "restart" /\ k[a] > Len(RestartOrder)
    /\ audit' = audit \cup {<<a, "config_apply">>}
    /\ Answer(a, "applied")
    /\ UNCHANGED <<minute, files, services, prom, req, dir, edit,
                   cause, crashes, history>>

-----------------------------------------------------------------------------
(* The rollback *)

\* restoreBackup(): copyFile() truncates the file before it fills it.  What is
\* there until it is filled has no document yet, or is cut in the middle of one.
RestoreOpen(a) ==
    /\ pc[a] = "restore" /\ k[a] <= Len(BackupOrder)
    /\ backup[dir[a]][BackupOrder[k[a]]] # NoFile
    /\ \E c \in {Blank, Torn} : disk' = [disk EXCEPT ![BackupOrder[k[a]]] = c]
    /\ Goto(a, "copying")
    /\ UNCHANGED <<minute, backup, services, prom, mutex, k, req, dir, locals, edit,
                   cause, answer, crashes, history>>

\* Mutant: a copy that fails is passed over.
RestoreSkipAny(a) ==
    /\ pc[a] = "restore" /\ k[a] <= Len(BackupOrder)
    /\ Loop(a, k[a] + 1)
    /\ UNCHANGED <<minute, files, services, prom, mutex, pc, req, dir, locals, edit,
                   cause, answer, crashes, history>>

\* A file the backup directory does not hold is left as it is.
RestoreSkip(a) ==
    /\ pc[a] = "restore" /\ k[a] <= Len(BackupOrder)
    /\ backup[dir[a]][BackupOrder[k[a]]] = NoFile
    /\ Loop(a, k[a] + 1)
    /\ UNCHANGED <<minute, files, services, prom, mutex, pc, req, dir, locals, edit,
                   cause, answer, crashes, history>>

RestoreFill(a) ==
    LET f == BackupOrder[k[a]]
    IN  /\ pc[a] = "copying"
        /\ disk' = [disk EXCEPT ![f] = backup[dir[a]][f]]
        /\ Loop(a, k[a] + 1)
        /\ Goto(a, "restore")
        /\ UNCHANGED <<minute, backup, services, prom, mutex, req, dir, locals, edit,
                       cause, answer, crashes, history>>

\* 'CRITICAL: Rollback failed': the error is rethrown to the client.
RestoreFails(a) ==
    /\ pc[a] \in {"restore", "copying"} /\ k[a] <= Len(BackupOrder)
    /\ stale' = Units
    /\ Answer(a, "error")
    /\ UNCHANGED <<minute, files, running, prom, req, dir, edit,
                   cause, audit, crashes, history>>

\* Mutant: every rollback answers at once, and restarts nothing.
RestoreDoneAtOnce(a) ==
    /\ pc[a] = "restore" /\ k[a] > Len(BackupOrder)
    /\ Answer(a, "rolledback")
    /\ UNCHANGED <<minute, files, services, prom, req, dir, edit,
                   cause, audit, crashes, history>>

\* A failed write answers at once: nothing was restarted, nothing is audited.
\* A failed restart goes on to restart every unit with the old files.
RestoreDoneAfterWrite(a) ==
    /\ pc[a] = "restore" /\ k[a] > Len(BackupOrder)
    /\ cause[a] = "write"
    /\ Answer(a, "rolledback")
    /\ UNCHANGED <<minute, files, services, prom, req, dir, edit,
                   cause, audit, crashes, history>>

RestoreDoneAfterRestart(a) ==
    /\ pc[a] = "restore" /\ k[a] > Len(BackupOrder)
    /\ cause[a] = "restart"
    /\ Goto(a, "rerestart")
    /\ Loop(a, 1)
    /\ UNCHANGED <<minute, files, services, prom, mutex, req, dir, locals, edit,
                   cause, answer, crashes, history>>

\* restartService() reports a failure in its exit code, which is not looked at:
\* the unit may keep running the rejected configuration.
Rerestart(a) ==
    LET u == RestartOrder[k[a]]
    IN  /\ pc[a] = "rerestart" /\ k[a] <= Len(RestartOrder)
        /\ \/ /\ u \notin AbsentUnits
              /\ \E c \in {ConfigOf(u), Down} : running' = [running EXCEPT ![u] = c]
              /\ stale' = stale \ {u}
           \/ /\ UNCHANGED running
              /\ stale' = stale \cup {u}
        /\ Loop(a, k[a] + 1)
        /\ UNCHANGED <<minute, files, prom, mutex, pc, req, dir, locals, edit,
                       cause, answer, crashes, history>>

RollbackDone(a) ==
    /\ pc[a] = "rerestart" /\ k[a] > Len(RestartOrder)
    /\ audit' = audit \cup {<<a, "config_rollback">>}
    /\ Answer(a, "rolledback")
    /\ UNCHANGED <<minute, files, services, prom, req, dir, edit,
                   cause, crashes, history>>

-----------------------------------------------------------------------------
(* Actors outside the mutex *)

\* An editor loads one file, changes one field of it and saves the whole document.
\* Without a document to load it gives up.
EditLoad(e, f) ==
    /\ pc[e] = "idle"
    /\ disk[f] # Blank
    /\ edit' = [edit EXCEPT ![e] =
                   [file |-> f, doc |-> [LoadRaw(disk[f]) EXCEPT ![EditField] = EditValue]]]
    /\ Goto(e, "load")
    /\ UNCHANGED <<minute, files, services, prom, mutex, k, req, dir, locals,
                   cause, answer, crashes, history>>

\* Its saveRaw() reads the file again and merges what it loaded over it.
EditRead(e) ==
    /\ e \in Editors /\ pc[e] = "load"
    /\ base' = [base EXCEPT ![e] = disk[edit[e].file]]
    /\ Goto(e, "save")
    /\ UNCHANGED <<minute, files, services, prom, mutex, k, req, dir, existing, edit,
                   cause, answer, crashes, history>>

EditWrite(e) ==
    /\ e \in Editors /\ pc[e] = "save"
    /\ disk' = [disk EXCEPT ![edit[e].file] = Saved(base[e], edit[e].doc)]
    /\ NoteFresh(edit[e].file, base[e])
    /\ Goto(e, "done")
    /\ UNCHANGED <<minute, backup, services, prom, mutex, k, req, dir, locals, edit,
                   cause, answer, crashes, pre, found>>

\* createConfigBackup(): same directory scheme, same copy loop, no mutex.
SnapshotStart(s) ==
    /\ pc[s] = "idle"
    /\ dir' = [dir EXCEPT ![s] = minute]
    /\ Goto(s, "backup")
    /\ UNCHANGED <<minute, files, services, prom, mutex, k, req, locals, edit,
                   cause, answer, crashes, history>>

SnapshotFile(s) ==
    /\ s \in Snapshots /\ pc[s] = "backup" /\ k[s] <= Len(BackupOrder)
    /\ CopyToBackup(s)
    /\ Loop(s, k[s] + 1)
    /\ pc' = [pc EXCEPT ![s] = IF k[s] = Len(BackupOrder) THEN "done" ELSE @]
    /\ UNCHANGED <<minute, disk, services, prom, mutex, req, dir, locals, edit,
                   cause, answer, crashes, history>>

-----------------------------------------------------------------------------
(* The environment *)

Tick ==
    /\ minute < MaxMinute
    /\ minute' = minute + 1
    /\ UNCHANGED <<files, services, prom, mutex, pc, k, req, dir, locals, edit,
                   cause, answer, crashes, history>>

\* The backend dies: every handler is gone, the disk stays as it is.
\* Nothing at boot resumes or undoes a half-done apply.
Crash ==
    /\ crashes < MaxCrashes
    /\ \E p \in Actors : pc[p] \notin {"idle", "done"}
    /\ crashes' = crashes + 1
    /\ mutex' = None
    /\ pc' = [p \in Actors |-> IF pc[p] = "idle" THEN "idle" ELSE "done"]
    /\ outcome' = [a \in Applies |->
                      IF pc[a] \in InFlightLabels THEN "lost" ELSE outcome[a]]
    /\ stale' = Units
    /\ UNCHANGED <<minute, files, running, prom, k, req, dir, locals, edit,
                   cause, audit, history>>

ApplyStep(a) ==
    \/ DiffFails(a) \/ ChooseBackupDir(a)
    \/ BackupFile(a) \/ BackupDone(a) \/ BackupFails(a) \/ LoadExisting(a)
    \/ SaveRead(a) \/ SaveSkip(a) \/ SaveWrite(a) \/ SaveFails(a) \/ SavesDone(a)
    \/ SyncPrometheus(a) \/ RestartUnit(a) \/ RestartSkipped(a) \/ RestartFails(a)
    \/ VerifyUnit(a) \/ RestartsDone(a)
    \/ RestoreOpen(a) \/ RestoreSkip(a) \/ RestoreFill(a) \/ RestoreFails(a)
    \/ RestoreDoneAfterWrite(a) \/ RestoreDoneAfterRestart(a)
    \/ Rerestart(a) \/ RollbackDone(a)

Next ==
    \/ \E a \in Applies : (\E r \in Requests : Submit(a, r)) \/ Refuse(a) \/ ApplyStep(a)
    \/ \E e \in Editors : (\E f \in EditFiles : EditLoad(e, f)) \/ EditRead(e) \/ EditWrite(e)
    \/ \E s \in Snapshots : SnapshotStart(s) \/ SnapshotFile(s)
    \/ Tick
    \/ Crash

\* Every await of the workflow settles: host commands carry a 30 s timeout and
\* file operations return, so the handler that holds the mutex keeps moving.
Fairness == \A a \in Applies : WF_vars(ApplyStep(a))

Spec == Init /\ [][Next]_vars /\ Fairness
-----------------------------------------------------------------------------
(* Properties *)

InFlight(a) == pc[a] \in InFlightLabels
SavedFiles == {SaveOrder[i] : i \in 1..Len(SaveOrder)}

\* Every variable has its type.
TypeOK ==
    /\ minute \in Minutes
    /\ disk \in [Files -> Contents]
    /\ backup \in [Minutes -> [Files -> Contents]]
    /\ running \in [Units -> Contents \cup {Down}]
    /\ prom \in Applies \cup {None}
    /\ mutex \in Applies \cup {None}
    /\ pc \in [Actors -> InFlightLabels \cup {"idle", "done"}]
    /\ k \in [Actors -> Nat \ {0}]
    /\ req \in [Applies -> [Files -> Docs \cup {NoDoc}]]
    /\ dir \in [Actors -> Minutes]
    /\ base \in [Actors -> Contents]
    /\ existing \in [Applies -> SUBSET Files]
    /\ edit \in [Editors -> [file : Files, doc : Docs] \cup {NoDoc}]
    /\ cause \in [Applies -> {"none", "write", "restart"}]
    /\ outcome \in [Applies -> {"none", "busy", "applied", "rolledback", "error", "lost"}]
    /\ audit \subseteq Applies \X {"config_apply", "config_rollback"}
    /\ crashes \in 0..MaxCrashes
    /\ pre \in [Applies -> [Files -> Contents]]
    /\ found \in [Files -> Contents]
    /\ fresh \subseteq Files
    /\ stale \subseteq Units

\* ARCHITECTURE.md "Only one config apply at a time": an apply is under way
\* exactly while it holds the mutex, whatever way it ends.
MutexHeld == \A a \in Applies : InFlight(a) <=> mutex = a

\* From the end of the backup to the answer, the backup directory holds every
\* file as the apply found it, so the rollback has something to restore.
RestorableLabels == InFlightLabels \ {"diff", "backup"}
BackupIsPreImage ==
    \A a \in Applies : pc[a] \in RestorableLabels =>
        \A f \in Files : pre[a][f] # NoFile => backup[dir[a]][f] = pre[a][f]

\* docs/features.md "Restores backup if any service fails to start": when the
\* answer is 'rolledback', every file that existed is as the apply found it.
RollbackExact ==
    [][\A a \in Applies : outcome[a] # "rolledback" /\ outcome'[a] = "rolledback" =>
          \A f \in Files : pre[a][f] # NoFile => disk'[f] = pre[a][f]]_vars

\* The same beside editors and on-demand backups: a file can only differ when an
\* editor wrote it meanwhile or a backup of the same minute shares the directory.
RollbackExactApart ==
    [][\A a \in Applies : outcome[a] # "rolledback" /\ outcome'[a] = "rolledback" =>
          \A f \in Files :
              \/ pre[a][f] \in {NoFile, disk'[f]}
              \/ \E e \in Editors : pc[e] = "done" /\ edit[e].file = f
              \/ \E s \in Snapshots : pc[s] # "idle" /\ dir[s] = dir[a]]_vars

\* saveRaw() "preserves fields the NMS UI never touched": through applies,
\* editors that save whole documents they read earlier, backups, rollbacks and
\* crashes, a field that nobody set keeps the value it had at the start, as found
\* or as cleaned.  Only a save over a file that held no document loses it.
Named(f, x) ==
    \/ \E a \in Applies : req[a][f] # NoDoc /\ req[a][f][x] # Unset
    \/ x = EditField /\ \E e \in Editors : edit[e] # NoDoc /\ edit[e].file = f
UntouchedFieldsKept ==
    \A f \in Files \ fresh, x \in Fields :
        disk[f] \in Docs /\ ~Named(f, x) =>
            disk[f][x] \in {found[f][x], Cleaned(found[f][x])}

\* When no apply is under way, a unit that is up runs the file on disk, unless a
\* restart of the rollback failed unseen, a restore failed, or the backend died.
QuiescentRunsDisk ==
    mutex = None => \A u \in Units \ stale : running[u] \in {Down, ConfigOf(u)}

\* The workflow implements its contract.  Until it answers, the files in
\* effect are the ones it found.
Contract == INSTANCE ApplyContract
    WITH cfg <- IF mutex # None /\ pc[mutex] # "diff" THEN pre[mutex] ELSE disk,
         asked <- req
ImplementsContract == Contract!Spec

\* An apply that took the mutex answers (or is lost in a crash), which frees it.
ApplyAnswered == \A a \in Applies : InFlight(a) ~> pc[a] = "done"
=============================================================================
