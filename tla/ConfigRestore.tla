---------------------------- MODULE ConfigRestore ---------------------------
(***************************************************************************)
(* Restoring configuration files and restarting the units that use them:   *)
(* the restores of backup-restore.ts and restore-defaults.ts, the routes   *)
(* of backup-controller.ts that call them, the restart job of              *)
(* backup-restart-usecase.ts (its step for the core), and the run of       *)
(* full-restore-orchestrator-usecase.ts; beside them the cleanup of old    *)
(* backups.                                                                *)
(*                                                                         *)
(* Restores are not serialised.  Each copies file by file, and a copy      *)
(* truncates the file before it fills it; one that succeeded starts the    *)
(* restart job, unless a job is running: then the start is refused.  What  *)
(* a file holds is named for where it came from; each file has one unit,   *)
(* and a unit reads its file when it restarts.                             *)
(***************************************************************************)
EXTENDS Naturals, FiniteSets, SequencesExt

CONSTANTS
    Files,        \* configuration files, and their units
    CopyOrder,    \* the order of the restores' lists
    RestartOrder, \* SERVICE_RESTART_ORDER
    Backups,      \* directories of configuration backups
    Minute,       \* the date in the name of each
    Had,          \* the files each was made of
    Kinds,        \* the kinds of restores that are asked for
    Handlers,     \* handlers of the restores' routes
    Cleaners,     \* handlers of PUT /settings and POST /cleanup
    MaxOps,       \* bound on requests
    MaxTroubles   \* bound on commands that fail and on crashes of the backend

Archive == "archive"   \* an uploaded full backup
Stock == "stock"       \* the default files
Before == "before"     \* what a file held at first
Torn == "torn"         \* cut short by a copy, or removed by one that failed

AllKinds == {"config", "both", "selective", "full", "full with auth", "defaults"}

ASSUME RestoreAssumption ==
    /\ Minute \in [Backups -> Nat] /\ \A b, d \in Backups : Minute[b] = Minute[d] => b = d
    /\ Backups \cap {Archive, Stock, Before, Torn} = {}
    /\ Had \in [Backups -> SUBSET Files]
    /\ ToSet(CopyOrder) = Files /\ Len(CopyOrder) = Cardinality(Files)
    /\ ToSet(RestartOrder) = Files /\ Len(RestartOrder) = Cardinality(Files)
    /\ Kinds \subseteq AllKinds
    /\ MaxOps \in Nat /\ MaxTroubles \in Nat

VARIABLES
    disk,       \* what each file holds
    running,    \* what each unit read when it last restarted
    kept,       \* the files each backup directory still has
    pc, req,    \* where a restore is, and what was asked
    todo,       \* the files it has still to copy
    open,       \* the file it has truncated and not filled yet
    failed,     \* whether it has met an error
    any,        \* whether a full restore has copied a file
    answer,     \* what it answered
    doomed,     \* directories a cleanup has still to remove
    job, left,  \* the restart job, and the units it has still to restart
    orch,       \* the state of the orchestrator's run
    persisted,  \* the run in the file that survives a restart of the backend
    exiting,    \* the backend is about to end itself
    written,    \* history: the files a restore has written, the open one included
    shared,     \* history: those of them that another restore wrote after or beside it
    unapplied,  \* history: files written since their unit restarted, by a restore
                \* that started no job, or whose job did not get to the unit
    ops, troubles

hand == <<req, todo, open, failed, any>>
restores == <<pc, hand, answer, written, shared>>
host == <<disk, running, kept>>
bounds == <<ops, troubles>>
vars == <<host, restores, doomed, job, left, orch, persisted, exiting, unapplied, bounds>>

Full == {"full", "full with auth"}
Looking == {"config", "both", "defaults"}   \* those that look before they copy
Contents == Backups \cup {Archive, Stock, Before, Torn}

Requests ==
    {r \in [kind : Kinds, from : Contents \ {Before, Torn}, part : SUBSET Files \ {{}}] :
        CASE r.kind \in {"config", "both"} -> r.from \in Backups /\ r.part = Files
          [] r.kind = "selective" -> r.from \in Backups
          [] r.kind \in Full -> r.from = Archive /\ r.part = Files
          [] r.kind = "defaults" -> r.from = Stock /\ r.part = Files}

NoRequest == [kind |-> "none", from |-> Before, part |-> {}]

\* Of the files that are left, f is the next in a list.
IsNext(order, f, S) ==
    f \in S /\ \A i, j \in DOMAIN order : order[i] = f /\ order[j] \in S => i <= j
ToDo(h, f) == IsNext(CopyOrder, f, todo[h])
There(from) == IF from \in Backups THEN kept[from] ELSE Files

Init ==
    /\ disk = [f \in Files |-> Before] /\ running = [f \in Files |-> Before]
    /\ kept = Had
    /\ pc = [h \in Handlers |-> "idle"]
    /\ req = [h \in Handlers |-> NoRequest]
    /\ todo = [h \in Handlers |-> {}] /\ open = [h \in Handlers |-> {}]
    /\ failed = [h \in Handlers |-> FALSE] /\ any = [h \in Handlers |-> FALSE]
    /\ answer = [h \in Handlers |-> "none"]
    /\ doomed = [c \in Cleaners |-> {}]
    /\ job = "idle" /\ left = {}
    /\ orch = "idle" /\ persisted = "idle" /\ exiting = FALSE
    /\ written = [h \in Handlers |-> {}] /\ shared = [h \in Handlers |-> {}]
    /\ unapplied = {}
    /\ ops = 0 /\ troubles = 0

Trouble == troubles < MaxTroubles /\ troubles' = troubles + 1
Ask == ops < MaxOps /\ ops' = ops + 1

-----------------------------------------------------------------------------
(* A restore *)

ToCopy(k) == IF k \in Looking THEN "look" ELSE "copy"

\* A request comes.  startFullRestore() refuses a second full restore; the selective
\* one looks for the directory first.
Begin(h) ==
    /\ pc[h] = "idle" /\ Ask
    /\ \E r \in Requests :
         /\ r.kind \in Full => orch # "running"
         /\ req' = [req EXCEPT ![h] = r]
         /\ todo' = [todo EXCEPT ![h] = r.part]
         /\ pc' = [pc EXCEPT ![h] = IF r.kind = "selective" THEN "check"
                                    ELSE IF r.kind \in Full THEN "extract" ELSE "look"]
         /\ orch' = IF r.kind \in Full THEN "running" ELSE orch
    /\ failed' = [failed EXCEPT ![h] = FALSE] /\ any' = [any EXCEPT ![h] = FALSE]
    /\ answer' = [answer EXCEPT ![h] = "none"]
    /\ UNCHANGED <<host, open, written, shared, doomed, job, left, persisted, exiting, unapplied,
                   troubles>>

\* The restore is answered; what it has written waits for a job, or for nobody.
Answers(h, a, applied) ==
    /\ answer' = [answer EXCEPT ![h] = a]
    /\ unapplied' = IF applied THEN unapplied ELSE unapplied \cup written[h]
    /\ written' = [written EXCEPT ![h] = {}] /\ shared' = [shared EXCEPT ![h] = {}]

NoAnswer == UNCHANGED <<answer, unapplied, written, shared>>

\* restoreSelectedConfigs(): the directory is there, or the request fails.
Check(h) ==
    /\ pc[h] = "check"
    /\ IF kept[req[h].from] # {}
       THEN pc' = [pc EXCEPT ![h] = "copy"] /\ NoAnswer
       ELSE pc' = [pc EXCEPT ![h] = "idle"] /\ Answers(h, "failed", FALSE)
    /\ UNCHANGED <<host, hand, doomed, job, left, orch, persisted, exiting, bounds>>

\* Mutant: an archive that could not be read is answered, and the run left as it was.
ExtractForgets(h) ==
    /\ pc[h] = "extract"
    /\ \/ pc' = [pc EXCEPT ![h] = "copy"] /\ NoAnswer /\ UNCHANGED troubles
       \/ Trouble /\ pc' = [pc EXCEPT ![h] = "idle"] /\ Answers(h, "failed", FALSE)
    /\ UNCHANGED <<host, hand, doomed, job, left, orch, persisted, exiting, ops>>

\* restoreFullBackup() up to the configuration files: the archive is checked and
\* unpacked, the subscribers are restored.
Extract(h) ==
    /\ pc[h] = "extract"
    /\ \/ pc' = [pc EXCEPT ![h] = "copy"] /\ NoAnswer /\ UNCHANGED <<orch, troubles>>
       \/ /\ Trouble
          /\ pc' = [pc EXCEPT ![h] = "idle"]
          /\ orch' = "failed"
          /\ Answers(h, "failed", FALSE)
    /\ UNCHANGED <<host, hand, doomed, job, left, persisted, exiting, ops>>

\* fileExists(): a file the source does not have is passed over.
Look(h) ==
    /\ pc[h] = "look"
    /\ \E f \in todo[h] :
         /\ ToDo(h, f)
         /\ \/ f \in There(req[h].from) /\ pc' = [pc EXCEPT ![h] = "copy"] /\ UNCHANGED todo
            \/ f \notin There(req[h].from) /\ todo' = [todo EXCEPT ![h] = @ \ {f}] /\ UNCHANGED pc
    /\ UNCHANGED <<host, req, open, failed, any, answer, written, shared, doomed, job, left, orch,
                   persisted, exiting, unapplied, bounds>>

\* Restore h writes f: it is noted for those that wrote it before, and for h when another
\* has the file open.
Writes(h, f) ==
    /\ written' = [written EXCEPT ![h] = @ \cup {f}]
    /\ shared' = [g \in Handlers |->
           IF \/ g # h /\ f \in written[g]
              \/ g = h /\ \E k \in Handlers \ {h} : f \in open[k]
           THEN shared[g] \cup {f} ELSE shared[g]]

\* copyFile(): the file is opened, and thereby truncated ...
Open(h) ==
    /\ pc[h] = "copy" /\ req[h].kind # "defaults"
    /\ \E f \in todo[h] \cap There(req[h].from) :
         /\ ToDo(h, f)
         /\ disk' = [disk EXCEPT ![f] = Torn]
         /\ todo' = [todo EXCEPT ![h] = @ \ {f}]
         /\ open' = [open EXCEPT ![h] = {f}]
         /\ Writes(h, f)
    /\ pc' = [pc EXCEPT ![h] = "fill"]
    /\ UNCHANGED <<running, kept, req, failed, any, answer, doomed, job, left, orch, persisted,
                   exiting, unapplied, bounds>>

\* ... and filled.  Of two copies of one file at a time it is not known which comes out: the
\* last bytes are one's or the other's, the file is a new one or removed by now.
Fill(h) ==
    /\ pc[h] = "fill"
    /\ \E f \in open[h] :
         \E c \in {req[h].from} \cup IF f \in shared[h] THEN {Torn, disk[f]} ELSE {} :
            disk' = [disk EXCEPT ![f] = c]
    /\ open' = [open EXCEPT ![h] = {}]
    /\ any' = IF req[h].kind \in Full THEN [any EXCEPT ![h] = TRUE] ELSE any
    /\ pc' = [pc EXCEPT ![h] = ToCopy(req[h].kind)]
    /\ UNCHANGED <<running, kept, req, todo, failed, answer, written, shared, doomed, job, left,
                   orch, persisted, exiting, unapplied, bounds>>

\* restore-defaults.ts writes by writeFile(): a file beside it that is renamed.
Replace(h) ==
    /\ pc[h] = "copy" /\ req[h].kind = "defaults"
    /\ \E f \in todo[h] :
         /\ ToDo(h, f)
         /\ disk' = [disk EXCEPT ![f] = Stock]
         /\ todo' = [todo EXCEPT ![h] = @ \ {f}]
         /\ Writes(h, f)
    /\ pc' = [pc EXCEPT ![h] = "look"]
    /\ UNCHANGED <<running, kept, req, open, failed, any, answer, doomed, job, left, orch,
                   persisted, exiting, unapplied, bounds>>

\* Mutant: a file that could not be copied is passed over.
FileFailsUnnoticed(h, f) ==
    /\ todo' = [todo EXCEPT ![h] = @ \ {f}]
    /\ pc' = [pc EXCEPT ![h] = ToCopy(req[h].kind)]
    /\ UNCHANGED failed

\* A whole restore ends at the file, a selective one notes the error and goes on, a full
\* one goes on.
FileFails(h, f) ==
    /\ todo' = [todo EXCEPT ![h] = IF req[h].kind \in Looking THEN {} ELSE @ \ {f}]
    /\ pc' = [pc EXCEPT ![h] = ToCopy(req[h].kind)]
    /\ failed' = [failed EXCEPT ![h] = req[h].kind \notin Full]

\* The source is gone, or was never in the archive; or one of the files cannot be opened.
OpenFails(h) ==
    /\ pc[h] = "copy"
    /\ \E f \in todo[h] :
         /\ ToDo(h, f)
         /\ \/ (f \notin There(req[h].from) \/ req[h].kind \in Full) /\ UNCHANGED troubles
            \/ Trouble
         /\ FileFails(h, f)
    /\ UNCHANGED <<host, req, open, any, answer, written, shared, doomed, job, left, orch,
                   persisted, exiting, unapplied, ops>>

\* The copy breaks off: it leaves the file short, or removes it.
FillFails(h) ==
    /\ pc[h] = "fill" /\ Trouble
    /\ \E f \in open[h] :
         \E c \in {Torn} \cup IF f \in shared[h] THEN {disk[f]} ELSE {} :
            disk' = [disk EXCEPT ![f] = c] /\ FileFails(h, f)
    /\ open' = [open EXCEPT ![h] = {}]
    /\ UNCHANGED <<running, kept, req, any, answer, written, shared, doomed, job, left, orch,
                   persisted, exiting, unapplied, ops>>

AllCopied(h) == pc[h] \in {"look", "copy"} /\ todo[h] = {}

\* The files behind those of the services (EXTRA_BACKUP_FILES): one of them cannot be copied.
ExtrasFail(h) ==
    /\ AllCopied(h) /\ req[h].kind \in {"config", "both"} /\ ~ failed[h] /\ Trouble
    /\ failed' = [failed EXCEPT ![h] = TRUE]
    /\ UNCHANGED <<host, pc, req, todo, open, any, answer, written, shared, doomed, job, left, orch,
                   persisted, exiting, unapplied, ops>>

\* restoreBoth() goes on to the database, whether the files were restored or not.
RestoreMongo(h) ==
    /\ AllCopied(h) /\ req[h].kind = "both"
    /\ pc' = [pc EXCEPT ![h] = "mongo"]
    /\ \/ UNCHANGED <<failed, troubles>>
       \/ Trouble /\ failed' = [failed EXCEPT ![h] = TRUE]
    /\ UNCHANGED <<host, req, todo, open, any, answer, written, shared, doomed, job, left, orch,
                   persisted, exiting, unapplied, ops>>

Complete(h) == IF req[h].kind = "both" THEN pc[h] = "mongo" ELSE AllCopied(h)

\* Mutant: a restore that succeeded starts no job.
StartNothing(h, core) ==
    /\ job # "running"
    /\ Answers(h, "ok", TRUE) /\ UNCHANGED <<job, left>>

\* startRestart(): a job, unless one is running.  It has a step for the core when what was
\* restored calls for one; then what was written waits for it.
StartRestart(h, core) ==
    /\ job # "running"
    /\ job' = "running" /\ left' = IF core THEN Files ELSE {}
    /\ Answers(h, "ok", core)

\* The refusal is logged, or not looked at.
Refused(h) ==
    /\ job = "running"
    /\ Answers(h, "ok", FALSE) /\ UNCHANGED <<job, left>>

\* The route of a restore from a directory: a job for one that succeeded, always with
\* the step for the core.
Finish(h) ==
    /\ Complete(h) /\ req[h].kind \in {"config", "both", "selective"}
    /\ pc' = [pc EXCEPT ![h] = "idle"]
    /\ \/ failed[h] /\ Answers(h, "failed", FALSE) /\ UNCHANGED <<job, left>>
       \/ ~ failed[h] /\ (StartRestart(h, TRUE) \/ Refused(h))
    /\ UNCHANGED <<host, hand, doomed, orch, persisted, exiting, bounds>>

\* restore-defaults.ts restarts nothing.
FinishDefaults(h) ==
    /\ Complete(h) /\ req[h].kind = "defaults"
    /\ pc' = [pc EXCEPT ![h] = "idle"]
    /\ Answers(h, IF failed[h] THEN "failed" ELSE "ok", FALSE)
    /\ UNCHANGED <<host, hand, doomed, job, left, orch, persisted, exiting, bounds>>

\* run(): a full restore names the core among what it restored when it copied a file of
\* it, or the SUCI keys.  It starts the job and polls it; refused, it polls nothing.
FinishFull(h) ==
    /\ Complete(h) /\ req[h].kind \in Full
    /\ \/ /\ \E suciKeys \in BOOLEAN : StartRestart(h, any[h] \/ suciKeys)
          /\ pc' = [pc EXCEPT ![h] = "poll"]
       \/ Refused(h) /\ pc' = [pc EXCEPT ![h] = "end"]
    /\ UNCHANGED <<host, hand, doomed, orch, persisted, exiting, bounds>>

\* What comes behind the files, up to the removal of the archive's directory, throws.
FullFails(h) ==
    /\ Complete(h) /\ req[h].kind \in Full /\ Trouble
    /\ Answers(h, "failed", FALSE)
    /\ pc' = [pc EXCEPT ![h] = "idle"] /\ orch' = "failed"
    /\ UNCHANGED <<host, hand, doomed, job, left, persisted, exiting, ops>>

Poll(h) ==
    /\ pc[h] = "poll" /\ job = "complete"
    /\ pc' = [pc EXCEPT ![h] = "end"]
    /\ UNCHANGED <<host, hand, answer, written, shared, doomed, job, left, orch, persisted,
                   exiting, unapplied, bounds>>

\* The end of run(): with the logins restored the run is saved and the backend ends.
EndFull(h) ==
    /\ pc[h] = "end"
    /\ pc' = [pc EXCEPT ![h] = "idle"]
    /\ orch' = "complete"
    /\ IF req[h].kind = "full with auth"
       THEN persisted' = orch' /\ exiting' = TRUE
       ELSE UNCHANGED <<persisted, exiting>>
    /\ UNCHANGED <<host, hand, answer, written, shared, doomed, job, left, unapplied, bounds>>

-----------------------------------------------------------------------------
(* The restart job: restartCore17() *)

RestartUnit ==
    /\ job = "running"
    /\ \E f \in left :
         /\ IsNext(RestartOrder, f, left)
         /\ running' = [running EXCEPT ![f] = disk[f]]
         /\ left' = left \ {f}
         /\ unapplied' = unapplied \ {f}
    /\ UNCHANGED <<disk, kept, restores, doomed, job, orch, persisted, exiting, bounds>>

\* The first unit that does not restart ends the step; those behind it are left alone.
RestartFails ==
    /\ job = "running" /\ left # {} /\ Trouble
    /\ left' = {}
    /\ unapplied' = unapplied \cup left
    /\ UNCHANGED <<host, restores, doomed, job, orch, persisted, exiting, ops>>

\* The job is complete, whatever became of its steps.
JobEnds ==
    /\ job = "running" /\ left = {}
    /\ job' = "complete"
    /\ UNCHANGED <<host, restores, doomed, left, orch, persisted, exiting, unapplied, bounds>>

-----------------------------------------------------------------------------
(* cleanupOldBackups() *)

\* The listing, sorted by date: all but the newest are to be removed.
ListOld(c) ==
    /\ doomed[c] = {} /\ Ask
    /\ \E keep \in 0 .. Cardinality(Backups) :
         doomed' = [doomed EXCEPT ![c] =
             {b \in Backups :
                /\ kept[b] # {}
                /\ Cardinality({d \in Backups : Minute[d] > Minute[b] /\ kept[d] # {}}) >= keep}]
    /\ UNCHANGED <<host, restores, job, left, orch, persisted, exiting, unapplied, troubles>>

\* rm -rf of the newest of them, a file at a time
RemoveFile(c) ==
    /\ \E b \in doomed[c] :
         /\ \A d \in doomed[c] : Minute[d] <= Minute[b]
         /\ \/ /\ \E f \in kept[b] : kept' = [kept EXCEPT ![b] = @ \ {f}]
               /\ UNCHANGED doomed
            \/ /\ kept[b] = {} /\ UNCHANGED kept
               /\ doomed' = [doomed EXCEPT ![c] = @ \ {b}]
    /\ UNCHANGED <<disk, running, restores, job, left, orch, persisted, exiting, unapplied, bounds>>

-----------------------------------------------------------------------------
(* The backend ends and starts again: what was under way is forgotten, the *)
(* orchestrator reads the run it saved, if it ever saved one.              *)

BackendRestarts ==
    /\ pc' = [h \in Handlers |-> "idle"]
    /\ todo' = [h \in Handlers |-> {}] /\ open' = [h \in Handlers |-> {}]
    /\ answer' = [h \in Handlers |-> "none"]
    /\ written' = [h \in Handlers |-> {}] /\ shared' = [h \in Handlers |-> {}]
    /\ doomed' = [c \in Cleaners |-> {}]
    /\ job' = "idle" /\ left' = {}
    /\ orch' = persisted /\ exiting' = FALSE
    /\ unapplied' = unapplied \cup left \cup UNION {written[h] : h \in Handlers}
    /\ UNCHANGED <<host, req, failed, any, persisted, ops>>

Exit == exiting /\ BackendRestarts /\ UNCHANGED troubles
Crash == Trouble /\ BackendRestarts

-----------------------------------------------------------------------------

\* What a restore does by itself, once it was asked for
RestoreStep(h) ==
    \/ Check(h) \/ Extract(h) \/ Look(h)
    \/ Open(h) \/ Fill(h) \/ Replace(h) \/ OpenFails(h) \/ FillFails(h)
    \/ ExtrasFail(h) \/ RestoreMongo(h)
    \/ Finish(h) \/ FinishDefaults(h) \/ FinishFull(h) \/ FullFails(h) \/ Poll(h) \/ EndFull(h)

JobStep == RestartUnit \/ RestartFails \/ JobEnds

Next ==
    \/ \E h \in Handlers : Begin(h) \/ RestoreStep(h)
    \/ JobStep
    \/ \E c \in Cleaners : ListOld(c) \/ RemoveFile(c)
    \/ Exit \/ Crash

\* Every await of a restore and of the job settles; timers fire.
Fairness ==
    /\ \A h \in Handlers : WF_vars(RestoreStep(h))
    /\ WF_vars(JobStep) /\ WF_vars(Exit)

Spec == Init /\ [][Next]_vars
FairSpec == Spec /\ Fairness

-----------------------------------------------------------------------------
(* Properties *)

(* The kinds of the variables, and: a restore writes files it was asked    *)
(* for, each once, has at most the last of them open, and has none on its  *)
(* account once it is answered.                                            *)
TypeOK ==
    /\ disk \in [Files -> Contents] /\ running \in [Files -> Contents]
    /\ kept \in [Backups -> SUBSET Files]
    /\ pc \in [Handlers -> {"idle", "check", "extract", "look", "copy", "fill", "mongo", "poll",
                           "end"}]
    /\ req \in [Handlers -> Requests \cup {NoRequest}]
    /\ todo \in [Handlers -> SUBSET Files] /\ open \in [Handlers -> SUBSET Files]
    /\ written \in [Handlers -> SUBSET Files] /\ shared \in [Handlers -> SUBSET Files]
    /\ \A h \in Handlers :
          /\ todo[h] \cap written[h] = {} /\ todo[h] \cup written[h] \subseteq req[h].part
          /\ open[h] \subseteq written[h] /\ (open[h] # {} => pc[h] = "fill")
          /\ \A e, f \in open[h] : e = f
          /\ pc[h] \in {"idle", "poll", "end"} => written[h] = {}
    /\ failed \in [Handlers -> BOOLEAN] /\ any \in [Handlers -> BOOLEAN]
    /\ answer \in [Handlers -> {"none", "ok", "failed"}]
    /\ doomed \in [Cleaners -> SUBSET Backups]
    /\ job \in {"idle", "running", "complete"} /\ left \subseteq Files
    /\ orch \in {"idle", "running", "complete", "failed"} /\ persisted \in {"idle", "complete"}
    /\ exiting \in BOOLEAN
    /\ unapplied \subseteq Files
    /\ ops \in 0..MaxOps /\ troubles \in 0..MaxTroubles

Quiet == job # "running" /\ \A h \in Handlers : pc[h] = "idle"

\* With no restore and no job under way, each unit runs what its file holds, a file that a
\* failed copy left torn included - unless a restore that wrote or truncated the file
\* started no job for the core, or its job did not get to the unit: no interleaving of the
\* restores, the job and the cleanup leaves a file that a job was started for waiting
\* (startRestart() comes after the last copy, restartCore17() reads nothing it kept from
\* before).
ReappliedWhenQuiet ==
    Quiet => \A f \in Files \ unapplied : running[f] = disk[f]

\* A restore of chosen files that is answered with success leaves each of them as its
\* directory has it, or as another restore wrote it after or beside this one: none is left
\* torn or as it was, although a cleanup may take the directory away file by file and
\* copies fail (restoreSelectedConfigs()).  A restore of a whole directory passes over what
\* is gone when it looks for it (restoreBackup(), fileExists()) and is answered all the
\* same: for it this is said of the files that the directory still has at the end.
SuccessMeansRestored ==
    [][\A h \in Handlers :
         answer'[h] = "ok" /\ answer[h] # "ok" /\ req[h].kind \in {"selective", "config", "both"} =>
            \A f \in req[h].part :
               \/ disk[f] = req[h].from
               \/ f \in shared[h]
               \/ req[h].kind # "selective" /\ f \notin kept[req[h].from]]_vars

\* A full restore that was started is over at some time, its failures and a restart job of
\* somebody else notwithstanding (run(), pollUntilTerminal()).
FullRestoreEnds == orch = "running" ~> orch # "running"
=============================================================================
