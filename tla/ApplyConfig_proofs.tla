------------------------- MODULE ApplyConfig_proofs -------------------------
(***************************************************************************)
(* Proofs about ApplyConfig, for every number of applies, files, units and *)
(* every request.                                                          *)
(***************************************************************************)
EXTENDS ApplyConfig, SequenceTheorems, TLAPS

(***************************************************************************)
(* Type correctness.  TypeOK is inductive once the document being saved is *)
(* known to exist and every loop to be within its sequence.                *)
(***************************************************************************)

LoopsInBounds ==
    \A a \in Applies :
        /\ pc[a] = "save" => k[a] <= Len(SaveOrder) /\ req[a][SaveOrder[k[a]]] # NoDoc
        /\ pc[a] = "verify" => k[a] <= Len(RestartOrder)
        /\ pc[a] = "copying" => k[a] <= Len(BackupOrder)

EditingADoc ==
    \A e \in Editors : pc[e] \in {"load", "save"} => edit[e] # NoDoc

TInv == TypeOK /\ LoopsInBounds /\ EditingADoc

\* What documents are made of, from the assumptions on the constants.
LEMMA DocTypes ==
    /\ Empty \in Docs
    /\ NoDoc \notin Docs /\ NoFile \notin Docs /\ Torn \notin Docs /\ Blank \notin Docs
    /\ \A c : LoadRaw(c) \in Docs
    /\ \A c : \A d \in Docs : Saved(c, d) \in Docs
    /\ \A d \in Docs : [d EXCEPT ![EditField] = EditValue] \in Docs
<1>1. Empty \in Docs
  BY DEF Empty, Docs
<1>2. NoDoc \notin Docs /\ NoFile \notin Docs /\ Torn \notin Docs /\ Blank \notin Docs
  BY DocsAssumption
<1>3. \A c : LoadRaw(c) \in Docs
  BY <1>1 DEF LoadRaw
<1>4. ASSUME NEW d \in Docs, NEW e \in Docs
      PROVE  Merge(d, e) \in Docs
  BY DEF Merge, Docs
<1>5. ASSUME NEW d \in Docs
      PROVE  Clean(d) \in Docs
  BY NormalAssumption DEF Clean, Cleaned, Docs
<1>6. \A c : \A d \in Docs : Saved(c, d) \in Docs
  BY <1>3, <1>4, <1>5 DEF Saved
<1>7. \A d \in Docs : [d EXCEPT ![EditField] = EditValue] \in Docs
  BY DocsAssumption DEF Docs
<1> QED BY <1>1, <1>2, <1>3, <1>6, <1>7

\* The loops only index sequences within their bounds.
LEMMA OrderTypes ==
    /\ Len(BackupOrder) \in Nat /\ Len(SaveOrder) \in Nat /\ Len(RestartOrder) \in Nat
    /\ \A i \in Nat \ {0} : i <= Len(BackupOrder) => BackupOrder[i] \in Files
    /\ \A i \in Nat \ {0} : i <= Len(SaveOrder) => SaveOrder[i] \in Files
    /\ \A i \in Nat \ {0} : i <= Len(RestartOrder) => RestartOrder[i] \in Units
  BY OrdersAssumption, LenProperties, ElementOfSeq

USE DEF files, services, answer, locals, history, LoadableFiles, LoadAllRejects, NoteFresh,
        Goto, Loop, Minutes

\* One lemma per group of actions: each keeps the inductive type invariant.
LEMMA TypeSubmit ==
    ASSUME TInv, NEW a \in Applies, NEW r \in Requests, Submit(a, r)
    PROVE  TInv'
<1> USE DEF TInv, TypeOK, LoopsInBounds, EditingADoc, Actors
<1>1. r \in [Files -> Docs \cup {NoDoc}]
  BY DocsAssumption
<1> QED BY <1>1, ActorsAssumption DEF Submit, InFlightLabels

LEMMA TypeApplyStep ==
    ASSUME TInv, NEW a \in Applies, Refuse(a) \/ ApplyStep(a)
    PROVE  TInv'
<1>a. /\ a \in Actors /\ a \notin Editors
      /\ k[a] + 1 \in Nat \ {0}
      /\ k' = [k EXCEPT ![a] = k[a] + 1] => k' \in [Actors -> Nat \ {0}]
  <2>1. a \in Actors /\ a \notin Editors
    BY ActorsAssumption DEF Actors
  <2>2. k \in [Actors -> Nat \ {0}]
    BY DEF TInv, TypeOK
  <2>3. k[a] + 1 \in Nat \ {0}
    BY <2>1, <2>2
  <2>4. [k EXCEPT ![a] = k[a] + 1] \in [Actors -> Nat \ {0}]
    BY <2>2, <2>3
  <2> QED BY <2>1, <2>3, <2>4
<1> USE ActorsAssumption, DocTypes, OrderTypes
        DEF TInv, TypeOK, LoopsInBounds, EditingADoc, Actors, InFlightLabels, Contents
<1>1. CASE Refuse(a)
  <2>1. TypeOK'
    BY <1>1, SMTT(30) DEF Refuse
  <2>2. LoopsInBounds' /\ EditingADoc'
    BY <1>1, SMTT(30) DEF Refuse
  <2> QED BY <2>1, <2>2
<1>2. CASE ChooseBackupDir(a)
  BY <1>2, SMTT(30) DEF ChooseBackupDir
<1>3. CASE BackupFile(a)
  BY <1>3, SMTT(30) DEF BackupFile, CopyToBackup
<1>4. CASE BackupDone(a)
  BY <1>4, SMTT(30) DEF BackupDone
<1>5. CASE BackupFails(a)
  BY <1>5, SMTT(30) DEF BackupFails, Answer
<1>6. CASE SaveRead(a)
  BY <1>6, SMTT(30) DEF SaveRead
<1>7. CASE SaveSkip(a)
  <2>1. TypeOK'
    BY <1>a, <1>7 DEF SaveSkip
  <2>2. LoopsInBounds' /\ EditingADoc'
    BY <1>a, <1>7 DEF SaveSkip
  <2> QED BY <2>1, <2>2
<1>8. CASE SaveWrite(a)
  <2>1. TypeOK'
    BY <1>a, <1>8 DEF SaveWrite
  <2>2. LoopsInBounds' /\ EditingADoc'
    BY <1>a, <1>8 DEF SaveWrite
  <2> QED BY <2>1, <2>2
<1>9. CASE SaveFails(a)
  <2>1. cause' \in [Applies -> {"none", "write", "restart"}]
    BY <1>9 DEF SaveFails
  <2>2. pc' \in [Actors -> InFlightLabels \cup {"idle", "done"}]
    BY <1>9 DEF SaveFails
  <2>3. k' \in [Actors -> Nat \ {0}]
    BY <1>9 DEF SaveFails
  <2>4. TypeOK'
    BY <1>9, <2>1, <2>2, <2>3 DEF SaveFails
  <2>5. LoopsInBounds' /\ EditingADoc'
    BY <1>a, <1>9 DEF SaveFails
  <2> QED BY <2>4, <2>5
<1>10. CASE SavesDone(a)
  BY <1>10, SMTT(30) DEF SavesDone
<1>11. CASE SyncPrometheus(a)
  BY <1>11, SMTT(30) DEF SyncPrometheus
<1>12. CASE RestartUnit(a)
  BY <1>12, SMTT(30) DEF RestartUnit, ConfigOf
<1>13. CASE RestartSkipped(a)
  <2>1. TypeOK'
    BY <1>a, <1>13 DEF RestartSkipped
  <2>2. LoopsInBounds' /\ EditingADoc'
    BY <1>a, <1>13 DEF RestartSkipped
  <2> QED BY <2>1, <2>2
<1>14. CASE RestartFails(a)
  BY <1>14, SMTT(30) DEF RestartFails
<1>15. CASE VerifyUnit(a)
  <2>1. TypeOK'
    BY <1>a, <1>15 DEF VerifyUnit
  <2>2. LoopsInBounds' /\ EditingADoc'
    BY <1>a, <1>15 DEF VerifyUnit
  <2> QED BY <2>1, <2>2
<1>16. CASE RestartsDone(a)
  BY <1>16, SMTT(30) DEF RestartsDone, Answer
<1>17. CASE RestoreOpen(a)
  <2>d. disk' \in [Files -> Contents]
    BY <1>a, <1>17 DEF RestoreOpen
  <2>1. TypeOK'
    BY <1>a, <2>d, <1>17 DEF RestoreOpen
  <2>2. LoopsInBounds' /\ EditingADoc'
    BY <1>a, <1>17 DEF RestoreOpen
  <2> QED BY <2>1, <2>2
<1>18. CASE RestoreSkip(a)
  <2>1. TypeOK'
    BY <1>a, <1>18 DEF RestoreSkip
  <2>2. LoopsInBounds' /\ EditingADoc'
    BY <1>a, <1>18 DEF RestoreSkip
  <2> QED BY <2>1, <2>2
<1>19. CASE RestoreFill(a)
  <2>d. disk' \in [Files -> Contents]
    BY <1>a, <1>19 DEF RestoreFill
  <2>p. pc' \in [Actors -> InFlightLabels \cup {"idle", "done"}]
    BY <1>a, <1>19 DEF RestoreFill
  <2>1. TypeOK'
    BY <1>a, <2>d, <2>p, <1>19 DEF RestoreFill
  <2>2. LoopsInBounds' /\ EditingADoc'
    BY <1>a, <1>19 DEF RestoreFill
  <2> QED BY <2>1, <2>2
<1>20. CASE RestoreFails(a)
  BY <1>20, SMTT(30) DEF RestoreFails, Answer
<1>21. CASE RestoreDoneAfterWrite(a)
  BY <1>21, SMTT(30) DEF RestoreDoneAfterWrite, Answer
<1>22. CASE RestoreDoneAfterRestart(a)
  BY <1>22, SMTT(30) DEF RestoreDoneAfterRestart
<1>23. CASE Rerestart(a)
  <2>u. RestartOrder[k[a]] \in Units
    BY <1>a, <1>23 DEF Rerestart
  <2>r. running' \in [Units -> Contents \cup {Down}]
    BY <2>u, <1>23 DEF Rerestart, ConfigOf
  <2>s. stale' \subseteq Units
    BY <2>u, <1>23 DEF Rerestart
  <2>1. TypeOK'
    BY <1>a, <2>r, <2>s, <1>23 DEF Rerestart
  <2>2. LoopsInBounds' /\ EditingADoc'
    BY <1>a, <1>23 DEF Rerestart, ConfigOf
  <2> QED BY <2>1, <2>2
<1>24. CASE RollbackDone(a)
  BY <1>24, SMTT(30) DEF RollbackDone, Answer
<1>d. CASE DiffFails(a)
  BY <1>d, SMTT(30) DEF DiffFails, Answer
<1>e. CASE LoadExisting(a)
  <2>1. TypeOK'
    BY <1>a, <1>e DEF LoadExisting
  <2>2. LoopsInBounds' /\ EditingADoc'
    BY <1>a, <1>e DEF LoadExisting
  <2> QED BY <2>1, <2>2
<1> QED BY <1>d, <1>e, <1>1, <1>2, <1>3, <1>4, <1>5, <1>6, <1>7, <1>8, <1>9, <1>10, <1>11, <1>12, <1>13,
           <1>14, <1>15, <1>16, <1>17, <1>18, <1>19, <1>20, <1>21, <1>22, <1>23, <1>24 DEF ApplyStep

LEMMA TypeOthers ==
    ASSUME TInv,
           \/ \E e \in Editors : (\E f \in EditFiles : EditLoad(e, f)) \/ EditRead(e) \/ EditWrite(e)
           \/ \E s \in Snapshots : SnapshotStart(s) \/ SnapshotFile(s)
           \/ Tick \/ Crash \/ UNCHANGED vars
    PROVE  TInv'
<1> USE ActorsAssumption, BoundsAssumption, DocTypes, OrderTypes
        DEF TInv, TypeOK, LoopsInBounds, EditingADoc, Actors, InFlightLabels, Contents
<1>1. CASE \E e \in Editors, f \in EditFiles : EditLoad(e, f)
  <2> PICK e \in Editors, f \in EditFiles : EditLoad(e, f)
    BY <1>1
  <2> DEFINE patch == [file |-> f, doc |-> [LoadRaw(disk[f]) EXCEPT ![EditField] = EditValue]]
  <2>1. patch \in [file : Files, doc : Docs]
    BY DocsAssumption
  <2>2. patch # NoDoc
    BY <2>1, DocsAssumption
  <2>3. edit' = [edit EXCEPT ![e] = patch]
    BY DEF EditLoad
  <2> HIDE DEF patch
  <2>4. TypeOK'
    BY <2>1, <2>3, SMTT(30) DEF EditLoad
  <2>5. LoopsInBounds' /\ EditingADoc'
    BY <2>2, <2>3 DEF EditLoad
  <2> QED BY <2>4, <2>5
<1>2. CASE \E e \in Editors : EditRead(e)
  <2> PICK e \in Editors : EditRead(e)
    BY <1>2
  <2>1. TypeOK'
    BY DEF EditRead
  <2>2. LoopsInBounds' /\ EditingADoc'
    BY DEF EditRead
  <2> QED BY <2>1, <2>2
<1>3. CASE \E e \in Editors : EditWrite(e)
  <2> PICK e \in Editors : EditWrite(e)
    BY <1>3
  <2>1. edit[e] \in [file : Files, doc : Docs]
    BY DEF EditWrite
  <2>2. Saved(base[e], edit[e].doc) \in Docs
    BY <2>1
  <2>3. TypeOK'
    <3>1. disk' \in [Files -> Contents]
      BY <2>1, <2>2 DEF EditWrite
    <3>2. fresh' \subseteq Files
      BY <2>1 DEF EditWrite
    <3>3. pc' \in [Actors -> InFlightLabels \cup {"idle", "done"}]
      BY DEF EditWrite
    <3> QED BY <3>1, <3>2, <3>3 DEF EditWrite
  <2>4. LoopsInBounds' /\ EditingADoc'
    BY DEF EditWrite
  <2> QED BY <2>3, <2>4
<1>4. CASE \E s \in Snapshots : SnapshotStart(s)
  <2> PICK s \in Snapshots : SnapshotStart(s)
    BY <1>4
  <2>1. TypeOK'
    BY DEF SnapshotStart
  <2>2. LoopsInBounds' /\ EditingADoc'
    BY DEF SnapshotStart
  <2> QED BY <2>1, <2>2
<1>5. CASE \E s \in Snapshots : SnapshotFile(s)
  <2> PICK s \in Snapshots : SnapshotFile(s)
    BY <1>5
  <2>0. s \in Actors /\ k \in [Actors -> Nat \ {0}]
    OBVIOUS
  <2>1. k[s] + 1 \in Nat \ {0} /\ k' = [k EXCEPT ![s] = k[s] + 1]
    BY <2>0 DEF SnapshotFile
  <2>2. k' \in [Actors -> Nat \ {0}]
    BY <2>1
  <2>3. pc' \in [Actors -> InFlightLabels \cup {"idle", "done"}]
    BY DEF SnapshotFile
  <2>4. backup' \in [Minutes -> [Files -> Contents]]
    <3>1. s \in Actors /\ dir[s] \in Minutes /\ k[s] \in Nat \ {0} /\ k[s] <= Len(BackupOrder)
      BY DEF SnapshotFile
    <3>2. BackupOrder[k[s]] \in Files
      BY <3>1
    <3>3. backup \in [Minutes -> [Files -> Contents]] /\ disk \in [Files -> Contents]
      OBVIOUS
    <3>4. CopyToBackup(s)
      BY DEF SnapshotFile
    <3> HIDE DEF TInv, TypeOK, Contents
    <3> QED BY <3>1, <3>2, <3>3, <3>4 DEF CopyToBackup
  <2>5. TypeOK'
    BY <2>2, <2>3, <2>4, SMTT(30) DEF SnapshotFile
  <2>6. LoopsInBounds' /\ EditingADoc'
    BY DEF SnapshotFile
  <2> QED BY <2>5, <2>6
<1>6. CASE Tick
  BY <1>6 DEF Tick
<1>7. CASE Crash
  <2>1. pc' \in [Actors -> {"idle", "done"}]
    BY <1>7 DEF Crash
  <2>2. outcome' \in [Applies -> {"none", "busy", "applied", "rolledback", "error", "lost"}]
    BY <1>7 DEF Crash
  <2>3. crashes' \in 0..MaxCrashes
    BY <1>7 DEF Crash
  <2>4. TypeOK'
    BY <1>7, <2>1, <2>2, <2>3 DEF Crash
  <2>5. LoopsInBounds' /\ EditingADoc'
    BY <2>1
  <2> QED BY <2>4, <2>5
<1>8. CASE UNCHANGED vars
  BY <1>8 DEF vars
<1> QED BY <1>1, <1>2, <1>3, <1>4, <1>5, <1>6, <1>7, <1>8

LEMMA TypeInvariant == Spec => []TInv
<1>1. Init => TInv
  <2> SUFFICES ASSUME Init PROVE TInv
    OBVIOUS
  <2>1. disk \in [Files -> Contents]
    BY DocsAssumption DEF Init, Contents
  <2>2. running \in [Units -> Contents \cup {Down}]
    BY <2>1 DEF Init, ConfigOf, Contents
  <2>3. TypeOK
    BY <2>1, <2>2, BoundsAssumption, OrdersAssumption, DocTypes
       DEF Init, TypeOK, Contents
  <2>4. LoopsInBounds /\ EditingADoc
    BY ActorsAssumption DEF Init, LoopsInBounds, EditingADoc, Actors
  <2> QED BY <2>3, <2>4 DEF TInv
<1>2. TInv /\ [Next]_vars => TInv'
  BY TypeSubmit, TypeApplyStep, TypeOthers DEF Next
<1> QED BY <1>1, <1>2, PTL DEF Spec

\* Every variable keeps its type, whatever the interleaving.
THEOREM TypeCorrect == Spec => []TypeOK
<1>1. TInv => TypeOK
  BY DEF TInv
<1> QED BY <1>1, TypeInvariant, PTL

-----------------------------------------------------------------------------
(***************************************************************************)
(* The mutex.  Every step of an apply either moves it on inside the        *)
(* exclusive section or answers, which ends the section and frees the      *)
(* mutex.                                                                  *)
(***************************************************************************)

LEMMA StepShape ==
    ASSUME TInv, NEW a \in Applies, ApplyStep(a)
    PROVE  /\ pc[a] \in InFlightLabels
           /\ \/ /\ mutex' = mutex
                 /\ \E l \in InFlightLabels : pc' = [pc EXCEPT ![a] = l]
              \/ /\ mutex' = None
                 /\ pc' = [pc EXCEPT ![a] = "done"]
<1>1. a \in Actors /\ pc \in [Actors -> InFlightLabels \cup {"idle", "done"}]
  BY DEF TInv, TypeOK, Actors
<1>2. pc = [pc EXCEPT ![a] = pc[a]]
  BY <1>1
<1> HIDE DEF TInv
<1>3. CASE ChooseBackupDir(a)
  BY <1>1, <1>2, <1>3 DEF ChooseBackupDir, InFlightLabels
<1>4. CASE BackupFile(a)
  BY <1>1, <1>2, <1>4 DEF BackupFile, InFlightLabels
<1>5. CASE BackupDone(a)
  BY <1>1, <1>2, <1>5 DEF BackupDone, InFlightLabels
<1>6. CASE BackupFails(a)
  BY <1>1, <1>2, <1>6 DEF BackupFails, InFlightLabels, Answer
<1>7. CASE SaveRead(a)
  BY <1>1, <1>2, <1>7 DEF SaveRead, InFlightLabels
<1>8. CASE SaveSkip(a)
  BY <1>1, <1>2, <1>8 DEF SaveSkip, InFlightLabels
<1>9. CASE SaveWrite(a)
  BY <1>1, <1>2, <1>9 DEF SaveWrite, InFlightLabels
<1>10. CASE SaveFails(a)
  BY <1>1, <1>2, <1>10 DEF SaveFails, InFlightLabels
<1>11. CASE SavesDone(a)
  BY <1>1, <1>2, <1>11 DEF SavesDone, InFlightLabels
<1>12. CASE SyncPrometheus(a)
  BY <1>1, <1>2, <1>12 DEF SyncPrometheus, InFlightLabels
<1>13. CASE RestartUnit(a)
  BY <1>1, <1>2, <1>13 DEF RestartUnit, InFlightLabels
<1>14. CASE RestartSkipped(a)
  BY <1>1, <1>2, <1>14 DEF RestartSkipped, InFlightLabels
<1>15. CASE RestartFails(a)
  BY <1>1, <1>2, <1>15 DEF RestartFails, InFlightLabels
<1>16. CASE VerifyUnit(a)
  BY <1>1, <1>2, <1>16 DEF VerifyUnit, InFlightLabels
<1>17. CASE RestartsDone(a)
  BY <1>1, <1>2, <1>17 DEF RestartsDone, InFlightLabels, Answer
<1>18. CASE RestoreOpen(a)
  BY <1>1, <1>2, <1>18 DEF RestoreOpen, InFlightLabels
<1>19. CASE RestoreSkip(a)
  BY <1>1, <1>2, <1>19 DEF RestoreSkip, InFlightLabels
<1>20. CASE RestoreFill(a)
  BY <1>1, <1>2, <1>20 DEF RestoreFill, InFlightLabels
<1>21. CASE RestoreFails(a)
  BY <1>1, <1>2, <1>21 DEF RestoreFails, InFlightLabels, Answer
<1>22. CASE RestoreDoneAfterWrite(a)
  BY <1>1, <1>2, <1>22 DEF RestoreDoneAfterWrite, InFlightLabels, Answer
<1>23. CASE RestoreDoneAfterRestart(a)
  BY <1>1, <1>2, <1>23 DEF RestoreDoneAfterRestart, InFlightLabels
<1>24. CASE Rerestart(a)
  BY <1>1, <1>2, <1>24 DEF Rerestart, InFlightLabels
<1>25. CASE RollbackDone(a)
  BY <1>1, <1>2, <1>25 DEF RollbackDone, InFlightLabels, Answer
<1>d. CASE DiffFails(a)
  BY <1>1, <1>2, <1>d DEF DiffFails, InFlightLabels, Answer
<1>e. CASE LoadExisting(a)
  BY <1>1, <1>2, <1>e DEF LoadExisting, InFlightLabels
<1> QED BY <1>d, <1>e, <1>3, <1>4, <1>5, <1>6, <1>7, <1>8, <1>9, <1>10, <1>11, <1>12, <1>13, <1>14, <1>15,
           <1>16, <1>17, <1>18, <1>19, <1>20, <1>21, <1>22, <1>23, <1>24, <1>25 DEF ApplyStep

LEMMA MutexStep ==
    ASSUME TInv, MutexHeld, [Next]_vars
    PROVE  MutexHeld'
<1>1. /\ pc \in [Actors -> InFlightLabels \cup {"idle", "done"}]
      /\ Applies \subseteq Actors
      /\ \A p \in Editors \cup Snapshots : p \in Actors /\ p \notin Applies
  BY ActorsAssumption DEF TInv, TypeOK, Actors
<1>2. None \notin Applies
  BY DocsAssumption
<1>3. ASSUME NEW a \in Applies, ApplyStep(a)
      PROVE  MutexHeld'
  BY <1>1, <1>2, <1>3, StepShape DEF MutexHeld, InFlight, InFlightLabels
<1>4. ASSUME NEW a \in Applies, NEW r \in Requests, Submit(a, r)
      PROVE  MutexHeld'
  BY <1>1, <1>2, <1>4 DEF Submit, MutexHeld, InFlight, InFlightLabels
<1>5. ASSUME NEW a \in Applies, Refuse(a)
      PROVE  MutexHeld'
  BY <1>1, <1>5 DEF Refuse, MutexHeld, InFlight, InFlightLabels
<1>6. ASSUME NEW e \in Editors, (\E f \in EditFiles : EditLoad(e, f)) \/ EditRead(e) \/ EditWrite(e)
      PROVE  MutexHeld'
  BY <1>1, <1>6 DEF EditLoad, EditRead, EditWrite, MutexHeld, InFlight
<1>7. ASSUME NEW s \in Snapshots, SnapshotStart(s) \/ SnapshotFile(s)
      PROVE  MutexHeld'
  BY <1>1, <1>7 DEF SnapshotStart, SnapshotFile, MutexHeld, InFlight
<1>8. CASE Crash
  BY <1>1, <1>2, <1>8 DEF Crash, MutexHeld, InFlight, InFlightLabels
<1>9. CASE Tick \/ UNCHANGED vars
  BY <1>9 DEF Tick, vars, MutexHeld, InFlight
<1> QED BY <1>3, <1>4, <1>5, <1>6, <1>7, <1>8, <1>9 DEF Next

\* Only one apply runs at a time, and the mutex never outlives it.
THEOREM MutexTheorem == Spec => []MutexHeld
<1>1. Init => MutexHeld
  BY DocsAssumption DEF Init, MutexHeld, InFlight, InFlightLabels, Actors
<1>2. TInv /\ MutexHeld /\ [Next]_vars => MutexHeld'
  BY MutexStep
<1>3. Spec => []TInv
  BY TypeInvariant
<1> QED BY <1>1, <1>2, <1>3, PTL DEF Spec

-----------------------------------------------------------------------------
(***************************************************************************)
(* The rollback.  When nothing outside the mutex writes the configuration  *)
(* or the backup directory, the apply under way makes this progress: the   *)
(* files copied so far are in the backup directory, the backup stays the   *)
(* image of what was found, the document being saved is merged over what   *)
(* is on disk, and the files restored so far are as they were found.       *)
(***************************************************************************)

Alone == Editors = {} /\ Snapshots = {}

BackedUp(a, f) == pre[a][f] # NoFile => backup[dir[a]][f] = pre[a][f]
Restored(a, f) == pre[a][f] # NoFile => disk[f] = pre[a][f]

Progress(a) ==
    /\ pc[a] = "backup" =>
          /\ disk = pre[a]
          /\ \A i \in 1..Len(BackupOrder) : i < k[a] => BackedUp(a, BackupOrder[i])
    /\ pc[a] \in RestorableLabels => \A f \in Files : BackedUp(a, f)
    /\ pc[a] = "save" => base[a] = disk[SaveOrder[k[a]]]
    /\ pc[a] \in {"restore", "copying"} =>
          \A i \in 1..Len(BackupOrder) : i < k[a] => Restored(a, BackupOrder[i])
    /\ pc[a] = "rerestart" => \A f \in Files : Restored(a, f)

\* The copy loop reaches every file, and each only once.
LEMMA EveryFileCopied ==
    /\ \A n \in Nat : n > Len(BackupOrder) =>
          \A f \in Files : \E i \in 1..Len(BackupOrder) : BackupOrder[i] = f /\ i < n
    /\ \A i, j \in 1..Len(BackupOrder) : BackupOrder[i] = BackupOrder[j] => i = j
    /\ \A i \in 1..Len(BackupOrder) : BackupOrder[i] \in Files
<1>1. \A f \in Files : \E i \in 1..Len(BackupOrder) : BackupOrder[i] = f
  BY OrdersAssumption
<1>2. \A n \in Nat, i \in 1..Len(BackupOrder) : n > Len(BackupOrder) => i < n
  BY OrderTypes
<1>3. \A i, j \in 1..Len(BackupOrder) : BackupOrder[i] = BackupOrder[j] => i = j
  BY OrdersAssumption
<1>4. \A i \in 1..Len(BackupOrder) : BackupOrder[i] \in Files
  BY OrderTypes
<1> QED BY <1>1, <1>2, <1>3, <1>4

LEMMA ProgressStep ==
    ASSUME TInv, NEW a \in Applies, Progress(a), ApplyStep(a)
    PROVE  Progress(a)'
<1>1. /\ a \in Actors
      /\ pc \in [Actors -> InFlightLabels \cup {"idle", "done"}]
      /\ k \in [Actors -> Nat \ {0}]
      /\ k[a] \in Nat
      /\ dir \in [Actors -> Minutes] /\ dir[a] \in Minutes
      /\ base \in [Actors -> Contents]
      /\ pre \in [Applies -> [Files -> Contents]]
      /\ disk \in [Files -> Contents]
      /\ backup \in [Minutes -> [Files -> Contents]]
      /\ pc[a] = "copying" => k[a] <= Len(BackupOrder)
  BY DEF TInv, TypeOK, Actors, LoopsInBounds
<1> USE OrderTypes DEF Progress, BackedUp, Restored, RestorableLabels, InFlightLabels
<1>2. CASE ChooseBackupDir(a)
  BY <1>1, <1>2 DEF ChooseBackupDir
<1>3. CASE BackupFile(a)
  <2> DEFINE f == BackupOrder[k[a]]
  <2>1. /\ pc[a] = "backup" /\ pc' = pc /\ k[a] \in 1..Len(BackupOrder)
        /\ k'[a] = k[a] + 1
        /\ disk' = disk /\ pre' = pre /\ dir' = dir
    BY <1>1, <1>3 DEF BackupFile
  <2>2. f \in Files
    BY <2>1, EveryFileCopied
  <2>3. /\ \A g \in Files : g # f => backup'[dir[a]][g] = backup[dir[a]][g]
        /\ disk[f] # NoFile => backup'[dir[a]][f] = disk[f]
    BY <1>1, <1>3, <2>2 DEF BackupFile, CopyToBackup
  <2>4. disk = pre[a]
    BY <2>1
  <2>5. ASSUME NEW i \in 1..Len(BackupOrder), i < k'[a]
        PROVE  BackedUp(a, BackupOrder[i])'
    <3>1. CASE i = k[a]
      BY <2>1, <2>3, <2>4, <3>1
    <3>2. CASE i # k[a]
      <4>1. i < k[a]
        BY <1>1, <2>1, <2>5, <3>2
      <4>2. BackedUp(a, BackupOrder[i])
        BY <2>1, <4>1
      <4>3. BackupOrder[i] \in Files
        BY EveryFileCopied
      <4>4. CASE BackupOrder[i] = f
        BY <2>1, <2>3, <2>4, <4>4
      <4>5. CASE BackupOrder[i] # f
        BY <2>1, <2>3, <4>2, <4>3, <4>5
      <4> QED BY <4>4, <4>5
    <3> QED BY <3>1, <3>2
  <2> HIDE DEF BackedUp, f
  <2> QED BY <2>1, <2>4, <2>5
<1>4. CASE BackupDone(a)
  <2>1. /\ pc[a] = "backup" /\ pc'[a] = "existing" /\ k[a] > Len(BackupOrder)
        /\ disk' = disk /\ pre' = pre /\ dir' = dir /\ backup' = backup
    BY <1>1, <1>4 DEF BackupDone
  <2>2. \A g \in Files : BackedUp(a, g)
    BY <1>1, <2>1, EveryFileCopied
  <2> QED BY <2>1, <2>2
<1>5. CASE BackupFails(a)
  BY <1>1, <1>5 DEF BackupFails, Answer
<1>6. CASE SaveRead(a)
  BY <1>1, <1>6 DEF SaveRead
<1>7. CASE SaveSkip(a)
  BY <1>1, <1>7 DEF SaveSkip
<1>8. CASE SaveWrite(a)
  BY <1>1, <1>8 DEF SaveWrite
<1>9. CASE SaveFails(a)
  BY <1>1, <1>9 DEF SaveFails
<1>10. CASE SavesDone(a)
  BY <1>1, <1>10 DEF SavesDone
<1>11. CASE SyncPrometheus(a)
  BY <1>1, <1>11 DEF SyncPrometheus
<1>12. CASE RestartUnit(a)
  BY <1>1, <1>12 DEF RestartUnit
<1>13. CASE RestartSkipped(a)
  BY <1>1, <1>13 DEF RestartSkipped
<1>14. CASE RestartFails(a)
  BY <1>1, <1>14 DEF RestartFails
<1>15. CASE VerifyUnit(a)
  BY <1>1, <1>15 DEF VerifyUnit
<1>16. CASE RestartsDone(a)
  BY <1>1, <1>16 DEF RestartsDone, Answer
<1>17. CASE RestoreOpen(a)
  <2>1. /\ pc[a] = "restore" /\ pc'[a] = "copying" /\ k[a] \in 1..Len(BackupOrder)
        /\ k' = k /\ pre' = pre /\ dir' = dir /\ backup' = backup
    BY <1>1, <1>17 DEF RestoreOpen
  <2>2. \A g \in Files : g # BackupOrder[k[a]] => disk'[g] = disk[g]
    BY <1>1, <1>17 DEF RestoreOpen
  <2>3. ASSUME NEW i \in 1..Len(BackupOrder), i < k[a]
        PROVE  Restored(a, BackupOrder[i])'
    <3>1. BackupOrder[i] \in Files /\ BackupOrder[i] # BackupOrder[k[a]]
      BY <1>1, <2>1, <2>3, EveryFileCopied
    <3>2. Restored(a, BackupOrder[i])
      BY <2>1, <2>3
    <3> QED BY <2>1, <2>2, <3>1, <3>2
  <2>4. \A g \in Files : BackedUp(a, g)'
    BY <2>1
  <2> HIDE DEF BackedUp, Restored
  <2> QED BY <2>1, <2>3, <2>4
<1>18. CASE RestoreSkip(a)
  <2>1. /\ pc[a] = "restore" /\ pc'[a] = "restore" /\ k[a] \in 1..Len(BackupOrder)
        /\ k'[a] = k[a] + 1 /\ disk' = disk /\ pre' = pre /\ dir' = dir
        /\ backup' = backup
        /\ backup[dir[a]][BackupOrder[k[a]]] = NoFile
    BY <1>1, <1>18 DEF RestoreSkip
  <2>2. \A g \in Files : BackedUp(a, g)
    BY <2>1
  <2>3. Restored(a, BackupOrder[k[a]])
    BY <2>1, <2>2, EveryFileCopied
  <2>4. ASSUME NEW i \in 1..Len(BackupOrder), i < k'[a]
        PROVE  Restored(a, BackupOrder[i])
    <3>1. i < k[a] \/ i = k[a]
      BY <2>1, <2>4
    <3> QED BY <2>1, <2>3, <2>4, <3>1
  <2> HIDE DEF BackedUp, Restored
  <2>5. \A g \in Files : BackedUp(a, g)'
    BY <2>1, <2>2 DEF BackedUp
  <2>6. ASSUME NEW i \in 1..Len(BackupOrder), i < k'[a]
        PROVE  Restored(a, BackupOrder[i])'
    BY <2>1, <2>4, <2>6 DEF Restored
  <2> QED BY <2>1, <2>5, <2>6
<1>19. CASE RestoreFill(a)
  <2> DEFINE f == BackupOrder[k[a]]
  <2>1. /\ pc[a] = "copying" /\ pc'[a] = "restore" /\ k[a] \in 1..Len(BackupOrder)
        /\ k'[a] = k[a] + 1 /\ pre' = pre /\ dir' = dir /\ backup' = backup
    BY <1>1, <1>19 DEF RestoreFill
  <2>2. f \in Files
    BY <2>1, EveryFileCopied
  <2>3. /\ \A g \in Files : g # f => disk'[g] = disk[g]
        /\ disk'[f] = backup[dir[a]][f]
    BY <1>1, <1>19, <2>2 DEF RestoreFill
  <2>4. \A g \in Files : BackedUp(a, g)
    BY <2>1
  <2>5. ASSUME NEW i \in 1..Len(BackupOrder), i < k'[a]
        PROVE  Restored(a, BackupOrder[i])'
    <3>1. CASE BackupOrder[i] = f
      BY <2>1, <2>2, <2>3, <2>4, <3>1
    <3>2. CASE BackupOrder[i] # f
      <4>1. i < k[a]
        BY <1>1, <2>1, <2>5, <3>2
      <4>2. Restored(a, BackupOrder[i])
        BY <2>1, <4>1
      <4>3. BackupOrder[i] \in Files
        BY EveryFileCopied
      <4> QED BY <2>1, <2>3, <3>2, <4>2, <4>3
    <3> QED BY <3>1, <3>2
  <2>6. \A g \in Files : BackedUp(a, g)'
    BY <2>1, <2>4
  <2> HIDE DEF BackedUp, Restored, f
  <2> QED BY <2>1, <2>5, <2>6
<1>20. CASE RestoreFails(a)
  BY <1>1, <1>20 DEF RestoreFails, Answer
<1>21. CASE RestoreDoneAfterWrite(a)
  BY <1>1, <1>21 DEF RestoreDoneAfterWrite, Answer
<1>22. CASE RestoreDoneAfterRestart(a)
  <2>1. /\ pc[a] = "restore" /\ pc'[a] = "rerestart" /\ k[a] > Len(BackupOrder)
        /\ disk' = disk /\ pre' = pre /\ dir' = dir /\ backup' = backup
    BY <1>1, <1>22 DEF RestoreDoneAfterRestart
  <2>2. ASSUME NEW f \in Files
        PROVE  Restored(a, f)
    <3>1. PICK i \in 1..Len(BackupOrder) : BackupOrder[i] = f /\ i < k[a]
      BY <1>1, <2>1, EveryFileCopied
    <3> QED BY <2>1, <3>1
  <2> QED BY <2>1, <2>2
<1>23. CASE Rerestart(a)
  BY <1>1, <1>23 DEF Rerestart
<1>24. CASE RollbackDone(a)
  BY <1>1, <1>24 DEF RollbackDone, Answer
<1>d. CASE DiffFails(a)
  BY <1>1, <1>d DEF DiffFails, Answer
<1>e. CASE LoadExisting(a)
  <2>1. /\ pc[a] = "existing" /\ pc'[a] \in {"load", "restore"} /\ k'[a] = 1
        /\ disk' = disk /\ pre' = pre /\ dir' = dir /\ backup' = backup
    BY <1>1, <1>e DEF LoadExisting
  <2>2. \A g \in Files : BackedUp(a, g)'
    BY <2>1
  <2> HIDE DEF BackedUp, Restored
  <2> QED BY <2>1, <2>2
<1> QED BY <1>d, <1>e, <1>2, <1>3, <1>4, <1>5, <1>6, <1>7, <1>8, <1>9, <1>10, <1>11, <1>12, <1>13, <1>14,
           <1>15, <1>16, <1>17, <1>18, <1>19, <1>20, <1>21, <1>22, <1>23, <1>24 DEF ApplyStep

\* The other applies are outside the exclusive section, so that only the one
\* under way can disturb its progress.
LEMMA AllProgressStep ==
    ASSUME Alone, TInv, MutexHeld, \A a \in Applies : Progress(a), [Next]_vars
    PROVE  \A a \in Applies : Progress(a)'
<1>1. /\ pc \in [Actors -> InFlightLabels \cup {"idle", "done"}]
      /\ Applies \subseteq Actors
  BY DEF TInv, TypeOK, Actors
<1>2. ASSUME NEW a \in Applies, ~ InFlight(a)'
      PROVE  Progress(a)'
  BY <1>2 DEF Progress, InFlight, InFlightLabels, RestorableLabels
<1>3. ASSUME NEW b \in Applies, ApplyStep(b), NEW a \in Applies
      PROVE  Progress(a)'
  <2>1. CASE a = b
    BY <1>3, <2>1, ProgressStep
  <2>2. CASE a # b
    <3>1. /\ pc[b] \in InFlightLabels /\ pc'[a] = pc[a]
      BY <1>1, <1>3, <2>2, StepShape
    <3>2. ~ InFlight(a)
      BY <2>2, <3>1 DEF MutexHeld, InFlight
    <3>3. ~ InFlight(a)'
      BY <3>1, <3>2 DEF InFlight
    <3> QED BY <1>2, <3>3
  <2> QED BY <2>1, <2>2
<1>4. ASSUME NEW b \in Applies, NEW r \in Requests, Submit(b, r), NEW a \in Applies
      PROVE  Progress(a)'
  <2>1. CASE a = b
    BY <1>1, <1>4, <2>1 DEF Submit, Progress, RestorableLabels, InFlightLabels
  <2>2. CASE a # b
    BY <1>1, <1>4, <2>2, <1>2 DEF Submit, MutexHeld, InFlight, Progress, BackedUp, Restored
  <2> QED BY <2>1, <2>2
<1>5. ASSUME NEW b \in Applies, Refuse(b), NEW a \in Applies
      PROVE  Progress(a)'
  <2>1. CASE a = b
    BY <1>1, <1>5, <2>1 DEF Refuse, Progress, RestorableLabels, InFlightLabels
  <2>2. CASE a # b
    BY <1>1, <1>5, <2>2 DEF Refuse, Progress, BackedUp, Restored
  <2> QED BY <2>1, <2>2
<1>6. CASE Crash
  <2>1. \A a \in Applies : ~ InFlight(a)'
    BY <1>1, <1>6 DEF Crash, InFlight, InFlightLabels
  <2> QED BY <1>2, <2>1
<1>7. CASE Tick
  BY <1>7 DEF Tick, Progress, BackedUp, Restored
<1>8. CASE UNCHANGED vars
  BY <1>8 DEF vars, Progress, BackedUp, Restored
<1> QED BY <1>3, <1>4, <1>5, <1>6, <1>7, <1>8 DEF Next, Alone

LEMMA AllProgress == Alone /\ Spec => [](TInv /\ MutexHeld /\ \A a \in Applies : Progress(a))
<1> DEFINE All == \A a \in Applies : Progress(a)
<1>1. Init => All
  BY DEF Init, Progress, Actors, RestorableLabels, InFlightLabels
<1>2. Alone /\ TInv /\ MutexHeld /\ All /\ [Next]_vars => All'
  BY AllProgressStep
<1>3. SUFFICES ASSUME Alone PROVE Spec => [](TInv /\ MutexHeld /\ All)
  OBVIOUS
<1>4. TInv /\ MutexHeld /\ All /\ [Next]_vars => All'
  BY <1>2, <1>3
<1> HIDE DEF All
<1> QED BY <1>1, <1>4, TypeInvariant, MutexTheorem, PTL DEF Spec

\* Apart from editors and on-demand backups, the backup of an apply is the image
\* of the files as it found them, until it answers.
THEOREM BackupTheorem == Alone /\ Spec => []BackupIsPreImage
<1>1. (\A a \in Applies : Progress(a)) => BackupIsPreImage
  BY DEF Progress, BackedUp, BackupIsPreImage
<1> QED BY <1>1, AllProgress, PTL

\* Only the two ends of the rollback answer 'rolledback', and they leave the
\* files alone; every other step answers something else or nothing.
LEMMA OutcomeShape ==
    ASSUME TInv, NEW a \in Applies, ApplyStep(a)
    PROVE  \/ \E o \in {outcome[a], "applied", "error"} : outcome' = [outcome EXCEPT ![a] = o]
           \/ RestoreDoneAfterWrite(a) \/ RollbackDone(a)
<1>1. outcome = [outcome EXCEPT ![a] = outcome[a]]
  BY DEF TInv, TypeOK
<1> HIDE DEF TInv
<1>2. ASSUME outcome' = outcome \/ Answer(a, "applied") \/ Answer(a, "error")
      PROVE  \E o \in {outcome[a], "applied", "error"} : outcome' = [outcome EXCEPT ![a] = o]
  BY <1>1, <1>2 DEF Answer
<1>3. CASE DiffFails(a) \/ BackupFails(a) \/ RestartsDone(a) \/ RestoreFails(a)
  BY <1>2, <1>3 DEF DiffFails, BackupFails, RestartsDone, RestoreFails
<1>4. CASE \/ ChooseBackupDir(a) \/ BackupFile(a) \/ BackupDone(a) \/ LoadExisting(a)
           \/ SaveRead(a) \/ SaveSkip(a) \/ SaveWrite(a) \/ SaveFails(a) \/ SavesDone(a)
  BY <1>2, <1>4 DEF ChooseBackupDir, BackupFile, BackupDone, LoadExisting, SaveRead, SaveSkip,
                    SaveWrite, SaveFails, SavesDone
<1>5. CASE \/ SyncPrometheus(a) \/ RestartUnit(a) \/ RestartSkipped(a) \/ RestartFails(a)
           \/ VerifyUnit(a)
  BY <1>2, <1>5 DEF SyncPrometheus, RestartUnit, RestartSkipped, RestartFails, VerifyUnit
<1>6. CASE \/ RestoreOpen(a) \/ RestoreSkip(a) \/ RestoreFill(a)
           \/ RestoreDoneAfterRestart(a) \/ Rerestart(a)
  BY <1>2, <1>6 DEF RestoreOpen, RestoreSkip, RestoreFill, RestoreDoneAfterRestart, Rerestart
<1> QED BY <1>3, <1>4, <1>5, <1>6 DEF ApplyStep

RollbackStep ==
    \A a \in Applies : outcome[a] # "rolledback" /\ outcome'[a] = "rolledback" =>
        \A f \in Files : pre[a][f] # NoFile => disk'[f] = pre[a][f]

\* Only the two ends of the rollback change an answer to 'rolledback'.
LEMMA OutcomeChange ==
    ASSUME TInv, [Next]_vars, NEW a \in Applies,
           outcome[a] # "rolledback", outcome'[a] = "rolledback"
    PROVE  RestoreDoneAfterWrite(a) \/ RollbackDone(a)
<1>1. outcome \in [Applies -> {"none", "busy", "applied", "rolledback", "error", "lost"}]
  BY DEF TInv, TypeOK
<1>2. outcome' # outcome
  OBVIOUS
<1>3. ASSUME NEW b \in Applies, ApplyStep(b)
      PROVE  RestoreDoneAfterWrite(a) \/ RollbackDone(a)
  <2>1. CASE \E o \in {outcome[b], "applied", "error"} : outcome' = [outcome EXCEPT ![b] = o]
    BY <1>1, <2>1
  <2>2. CASE RestoreDoneAfterWrite(b) \/ RollbackDone(b)
    <3>1. outcome' = [outcome EXCEPT ![b] = "rolledback"]
      BY <2>2 DEF RestoreDoneAfterWrite, RollbackDone, Answer
    <3>2. a = b
      BY <1>1, <3>1
    <3> QED BY <2>2, <3>2
  <2> QED BY <1>3, <2>1, <2>2, OutcomeShape
<1>4. ASSUME NEW b \in Applies, Refuse(b)
      PROVE  FALSE
  BY <1>1, <1>4 DEF Refuse
<1>5. ASSUME Crash PROVE FALSE
  BY <1>1, <1>5 DEF Crash
<1>6. ASSUME NEW b \in Applies, \E r \in Requests : Submit(b, r)
      PROVE  FALSE
  BY <1>2, <1>6 DEF Submit
<1>7. ASSUME NEW e \in Editors, (\E f \in EditFiles : EditLoad(e, f)) \/ EditRead(e) \/ EditWrite(e)
      PROVE  FALSE
  BY <1>2, <1>7 DEF EditLoad, EditRead, EditWrite
<1>8. ASSUME NEW s \in Snapshots, SnapshotStart(s) \/ SnapshotFile(s)
      PROVE  FALSE
  BY <1>2, <1>8 DEF SnapshotStart, SnapshotFile
<1>9. ASSUME Tick \/ UNCHANGED vars
      PROVE  FALSE
  BY <1>2, <1>9 DEF Tick, vars
<1> QED BY <1>3, <1>4, <1>5, <1>6, <1>7, <1>8, <1>9 DEF Next

LEMMA RollbackStepHolds ==
    ASSUME TInv, MutexHeld, \A a \in Applies : Progress(a), [Next]_vars
    PROVE  RollbackStep
<1> SUFFICES ASSUME NEW a \in Applies, outcome[a] # "rolledback", outcome'[a] = "rolledback"
             PROVE  \A f \in Files : pre[a][f] # NoFile => disk'[f] = pre[a][f]
  BY DEF RollbackStep
<1>1. RestoreDoneAfterWrite(a) \/ RollbackDone(a)
  BY OutcomeChange
<1>2. \A f \in Files : Restored(a, f)
  <2>1. CASE RestoreDoneAfterWrite(a)
    <3>1. pc[a] = "restore" /\ k[a] \in Nat /\ k[a] > Len(BackupOrder)
      BY <2>1 DEF RestoreDoneAfterWrite, TInv, TypeOK, Actors
    <3>2. ASSUME NEW f \in Files PROVE Restored(a, f)
      <4>1. PICK i \in 1..Len(BackupOrder) : BackupOrder[i] = f /\ i < k[a]
        BY <3>1, EveryFileCopied
      <4> QED BY <3>1, <4>1 DEF Progress
    <3> QED BY <3>2
  <2>2. CASE RollbackDone(a)
    BY <2>2 DEF RollbackDone, Progress
  <2> QED BY <1>1, <2>1, <2>2
<1>3. disk' = disk
  BY <1>1 DEF RestoreDoneAfterWrite, RollbackDone
<1> QED BY <1>2, <1>3 DEF Restored

\* Apart from editors and on-demand backups, an apply that answers 'rolledback'
\* has put back every file that existed when it began.
THEOREM RollbackTheorem == Alone /\ Spec => RollbackExact
<1>1. TInv /\ MutexHeld /\ (\A a \in Applies : Progress(a)) /\ [Next]_vars => [RollbackStep]_vars
  BY RollbackStepHolds
<1>2. RollbackExact <=> [][RollbackStep]_vars
  BY DEF RollbackExact, RollbackStep
<1> QED BY <1>1, <1>2, AllProgress, PTL DEF Spec

(***************************************************************************)
(* RollbackExactApart.  The same argument beside editors and on-demand     *)
(* backups, for the files none of them has a hand in: an editor has when   *)
(* it has written the file, a backup when it shares the directory.         *)
(***************************************************************************)

Touched(a, f) ==
    \/ \E e \in Editors : pc[e] = "done" /\ edit[e].file = f
    \/ \E s \in Snapshots : pc[s] # "idle" /\ dir[s] = dir[a]

Apart(a) ==
    /\ pc[a] = "backup" =>
          /\ \A f \in Files : Touched(a, f) \/ disk[f] = pre[a][f]
          /\ \A i \in 1..Len(BackupOrder) : i < k[a] =>
                Touched(a, BackupOrder[i]) \/ BackedUp(a, BackupOrder[i])
    /\ pc[a] \in RestorableLabels => \A f \in Files : Touched(a, f) \/ BackedUp(a, f)
    /\ pc[a] \in {"restore", "copying"} =>
          \A i \in 1..Len(BackupOrder) : i < k[a] =>
                Touched(a, BackupOrder[i]) \/ Restored(a, BackupOrder[i])
    /\ pc[a] = "rerestart" => \A f \in Files : Touched(a, f) \/ Restored(a, f)

\* A step of an apply moves no other actor, and names a directory once.
LEMMA ApplyLeaves ==
    ASSUME TInv, NEW a \in Applies, ApplyStep(a)
    PROVE  /\ edit' = edit
           /\ \A p \in Actors \ {a} : pc'[p] = pc[p] /\ dir'[p] = dir[p]
           /\ dir' = dir \/ ChooseBackupDir(a)
<1>1. \A p \in Actors \ {a} : pc'[p] = pc[p]
  BY StepShape DEF TInv, TypeOK
<1>2. edit' = edit /\ (dir' = dir \/ ChooseBackupDir(a))
  <2>1. CASE \/ DiffFails(a) \/ ChooseBackupDir(a)
             \/ BackupFile(a) \/ BackupDone(a) \/ BackupFails(a) \/ LoadExisting(a)
             \/ SaveRead(a) \/ SaveSkip(a) \/ SaveWrite(a) \/ SaveFails(a) \/ SavesDone(a)
    BY <2>1 DEF DiffFails, LoadExisting, ChooseBackupDir, BackupFile, BackupDone, BackupFails, SaveRead, SaveSkip,
                SaveWrite, SaveFails, SavesDone
  <2>2. CASE \/ SyncPrometheus(a) \/ RestartUnit(a) \/ RestartSkipped(a) \/ RestartFails(a)
             \/ VerifyUnit(a) \/ RestartsDone(a)
    BY <2>2 DEF SyncPrometheus, RestartUnit, RestartSkipped, RestartFails, VerifyUnit,
                RestartsDone
  <2>3. CASE \/ RestoreOpen(a) \/ RestoreSkip(a) \/ RestoreFill(a) \/ RestoreFails(a)
             \/ RestoreDoneAfterWrite(a) \/ RestoreDoneAfterRestart(a)
             \/ Rerestart(a) \/ RollbackDone(a)
    BY <2>3 DEF RestoreOpen, RestoreSkip, RestoreFill, RestoreFails, RestoreDoneAfterWrite,
                RestoreDoneAfterRestart, Rerestart, RollbackDone
  <2> QED BY <2>1, <2>2, <2>3 DEF ApplyStep
<1>3. ChooseBackupDir(a) => \A p \in Actors \ {a} : dir'[p] = dir[p]
  BY DEF ChooseBackupDir, TInv, TypeOK
<1> QED BY <1>1, <1>2, <1>3

\* What an editor or a backup has had a hand in stays so, until the apply
\* names its directory.
LEMMA TouchedStays ==
    ASSUME TInv, [Next]_vars, NEW a \in Applies, dir'[a] = dir[a],
           NEW f \in Files, Touched(a, f)
    PROVE  Touched(a, f)'
<1>1. /\ pc \in [Actors -> InFlightLabels \cup {"idle", "done"}]
      /\ dir \in [Actors -> Minutes]
      /\ edit \in [Editors -> [file : Files, doc : Docs] \cup {NoDoc}]
      /\ Applies \cap Editors = {} /\ Applies \cap Snapshots = {}
      /\ Editors \cap Snapshots = {}
      /\ Editors \subseteq Actors /\ Snapshots \subseteq Actors /\ Applies \subseteq Actors
  BY ActorsAssumption DEF TInv, TypeOK, Actors
<1> SUFFICES
      /\ \A e \in Editors : pc[e] = "done" => pc'[e] = "done" /\ edit'[e] = edit[e]
      /\ \A s \in Snapshots : pc[s] # "idle" => pc'[s] # "idle" /\ dir'[s] = dir[s]
  BY DEF Touched
<1>2. ASSUME NEW b \in Applies, ApplyStep(b)
      PROVE  \A p \in Editors \cup Snapshots :
                 pc'[p] = pc[p] /\ edit' = edit /\ dir'[p] = dir[p]
  BY <1>1, <1>2, ApplyLeaves
<1>3. ASSUME NEW b \in Applies, (\E r \in Requests : Submit(b, r)) \/ Refuse(b)
      PROVE  \A p \in Editors \cup Snapshots :
                 pc'[p] = pc[p] /\ edit' = edit /\ dir' = dir
  BY <1>1, <1>3 DEF Submit, Refuse
<1>4. ASSUME NEW e \in Editors, (\E g \in EditFiles : EditLoad(e, g)) \/ EditRead(e) \/ EditWrite(e)
      PROVE  /\ dir' = dir
             /\ \A p \in Actors : pc[p] = "done" => pc'[p] = "done"
             /\ \A p \in Snapshots : pc'[p] = pc[p]
             /\ \A d \in Editors : pc[d] = "done" => edit'[d] = edit[d]
  BY <1>1, <1>4 DEF EditLoad, EditRead, EditWrite
<1>5. ASSUME NEW s \in Snapshots, SnapshotStart(s) \/ SnapshotFile(s)
      PROVE  /\ edit' = edit
             /\ \A p \in Editors : pc'[p] = pc[p]
             /\ \A p \in Snapshots : pc[p] # "idle" => pc'[p] # "idle" /\ dir'[p] = dir[p]
  BY <1>1, <1>5 DEF SnapshotStart, SnapshotFile
<1>6. ASSUME Tick \/ UNCHANGED vars
      PROVE  UNCHANGED <<pc, edit, dir>>
  BY <1>6 DEF Tick, vars
<1>7. ASSUME Crash
      PROVE  /\ UNCHANGED <<edit, dir>>
             /\ \A p \in Actors : pc'[p] = IF pc[p] = "idle" THEN "idle" ELSE "done"
  BY <1>7 DEF Crash
<1> QED BY <1>1, <1>2, <1>3, <1>4, <1>5, <1>6, <1>7 DEF Next

LEMMA ApartOwnStep ==
    ASSUME TInv, NEW a \in Applies, Apart(a), ApplyStep(a), [Next]_vars
    PROVE  Apart(a)'
<1>1. /\ a \in Actors
      /\ pc \in [Actors -> InFlightLabels \cup {"idle", "done"}]
      /\ k \in [Actors -> Nat \ {0}]
      /\ k[a] \in Nat
      /\ dir \in [Actors -> Minutes] /\ dir[a] \in Minutes
      /\ pre \in [Applies -> [Files -> Contents]]
      /\ disk \in [Files -> Contents]
      /\ backup \in [Minutes -> [Files -> Contents]]
      /\ pc[a] = "copying" => k[a] <= Len(BackupOrder)
  BY DEF TInv, TypeOK, Actors, LoopsInBounds
<1> USE OrderTypes DEF Apart, RestorableLabels, InFlightLabels
<1>2. CASE ChooseBackupDir(a)
  BY <1>1, <1>2 DEF ChooseBackupDir
<1> SUFFICES ASSUME ~ ChooseBackupDir(a) PROVE Apart(a)'
  BY <1>2
<1>3. \A f \in Files : Touched(a, f) => Touched(a, f)'
  BY ApplyLeaves, TouchedStays
<1>4. \A i \in 1..Len(BackupOrder) : BackupOrder[i] \in Files
  BY EveryFileCopied
<1>5. CASE BackupFile(a)
  <2> DEFINE f == BackupOrder[k[a]]
  <2>1. /\ pc[a] = "backup" /\ pc' = pc /\ k[a] \in 1..Len(BackupOrder)
        /\ k'[a] = k[a] + 1
        /\ disk' = disk /\ pre' = pre /\ dir' = dir
    BY <1>1, <1>5 DEF BackupFile
  <2>2. f \in Files
    BY <2>1, <1>4
  <2>3. /\ \A g \in Files : g # f => backup'[dir[a]][g] = backup[dir[a]][g]
        /\ disk[f] # NoFile => backup'[dir[a]][f] = disk[f]
    BY <1>1, <1>5, <2>2 DEF BackupFile, CopyToBackup
  <2>4. \A g \in Files : Touched(a, g)' \/ disk'[g] = pre'[a][g]
    BY <1>3, <2>1
  <2>5. ASSUME NEW i \in 1..Len(BackupOrder), i < k'[a]
        PROVE  Touched(a, BackupOrder[i])' \/ BackedUp(a, BackupOrder[i])'
    <3>1. CASE BackupOrder[i] = f
      BY <2>1, <2>2, <2>3, <2>4, <3>1 DEF BackedUp
    <3>2. CASE BackupOrder[i] # f
      <4>1. i < k[a]
        BY <1>1, <2>1, <2>5, <3>2
      <4>2. Touched(a, BackupOrder[i]) \/ BackedUp(a, BackupOrder[i])
        BY <2>1, <4>1
      <4> QED BY <1>3, <1>4, <2>1, <2>3, <3>2, <4>2 DEF BackedUp
    <3> QED BY <3>1, <3>2
  <2> HIDE DEF f
  <2> QED BY <2>1, <2>4, <2>5
<1>6. CASE BackupDone(a)
  <2>1. /\ pc[a] = "backup" /\ pc'[a] = "existing" /\ k[a] > Len(BackupOrder)
        /\ disk' = disk /\ pre' = pre /\ dir' = dir /\ backup' = backup
    BY <1>1, <1>6 DEF BackupDone
  <2>2. ASSUME NEW g \in Files PROVE Touched(a, g) \/ BackedUp(a, g)
    <3>1. PICK i \in 1..Len(BackupOrder) : BackupOrder[i] = g /\ i < k[a]
      BY <1>1, <2>1, EveryFileCopied
    <3> QED BY <2>1, <3>1
  <2> QED BY <1>3, <2>1, <2>2 DEF BackedUp
<1>7. CASE DiffFails(a) \/ BackupFails(a) \/ RestartsDone(a) \/ RestoreFails(a)
           \/ RestoreDoneAfterWrite(a) \/ RollbackDone(a)
  <2>1. pc'[a] = "done"
    BY <1>1, <1>7 DEF DiffFails, BackupFails, RestartsDone, RestoreFails, RestoreDoneAfterWrite,
                      RollbackDone, Answer
  <2> QED BY <2>1
<1>8. CASE \/ LoadExisting(a)
           \/ SaveRead(a) \/ SaveSkip(a) \/ SaveWrite(a) \/ SaveFails(a) \/ SavesDone(a)
           \/ SyncPrometheus(a) \/ RestartUnit(a) \/ RestartSkipped(a) \/ RestartFails(a)
           \/ VerifyUnit(a)
  <2>1. /\ pc[a] \in {"existing", "load", "save", "prometheus", "restart", "verify"}
        /\ pre' = pre /\ dir' = dir /\ backup' = backup
        /\ \/ pc'[a] \in {"load", "save", "prometheus", "restart", "verify"}
           \/ pc'[a] = "restore" /\ k'[a] = 1
    BY <1>1, <1>8 DEF LoadExisting, SaveRead, SaveSkip, SaveWrite, SaveFails, SavesDone,
                      SyncPrometheus, RestartUnit, RestartSkipped, RestartFails, VerifyUnit
  <2>2. \A g \in Files : Touched(a, g)' \/ BackedUp(a, g)'
    BY <1>3, <2>1 DEF BackedUp
  <2> QED BY <2>1, <2>2
<1>9. CASE RestoreOpen(a)
  <2>1. /\ pc[a] = "restore" /\ pc'[a] = "copying" /\ k[a] \in 1..Len(BackupOrder)
        /\ k' = k /\ pre' = pre /\ dir' = dir /\ backup' = backup
    BY <1>1, <1>9 DEF RestoreOpen
  <2>2. \A g \in Files : g # BackupOrder[k[a]] => disk'[g] = disk[g]
    BY <1>1, <1>9 DEF RestoreOpen
  <2>3. ASSUME NEW i \in 1..Len(BackupOrder), i < k[a]
        PROVE  Touched(a, BackupOrder[i])' \/ Restored(a, BackupOrder[i])'
    <3>1. BackupOrder[i] \in Files /\ BackupOrder[i] # BackupOrder[k[a]]
      BY <1>1, <2>1, <2>3, EveryFileCopied
    <3>2. Touched(a, BackupOrder[i]) \/ Restored(a, BackupOrder[i])
      BY <2>1, <2>3
    <3> QED BY <1>3, <2>1, <2>2, <3>1, <3>2 DEF Restored
  <2>4. \A g \in Files : Touched(a, g)' \/ BackedUp(a, g)'
    BY <1>3, <2>1 DEF BackedUp
  <2> QED BY <2>1, <2>3, <2>4
<1>10. CASE RestoreSkip(a)
  <2>1. /\ pc[a] = "restore" /\ pc'[a] = "restore" /\ k[a] \in 1..Len(BackupOrder)
        /\ k'[a] = k[a] + 1 /\ disk' = disk /\ pre' = pre /\ dir' = dir
        /\ backup' = backup
        /\ backup[dir[a]][BackupOrder[k[a]]] = NoFile
    BY <1>1, <1>10 DEF RestoreSkip
  <2>2. Touched(a, BackupOrder[k[a]]) \/ Restored(a, BackupOrder[k[a]])
    BY <1>4, <2>1 DEF BackedUp, Restored
  <2>3. ASSUME NEW i \in 1..Len(BackupOrder), i < k'[a]
        PROVE  Touched(a, BackupOrder[i])' \/ Restored(a, BackupOrder[i])'
    <3>1. i < k[a] \/ i = k[a]
      BY <2>1, <2>3
    <3>2. Touched(a, BackupOrder[i]) \/ Restored(a, BackupOrder[i])
      BY <2>1, <2>2, <3>1
    <3> QED BY <1>3, <1>4, <2>1, <3>2 DEF Restored
  <2>4. \A g \in Files : Touched(a, g)' \/ BackedUp(a, g)'
    BY <1>3, <2>1 DEF BackedUp
  <2> QED BY <2>1, <2>3, <2>4
<1>11. CASE RestoreFill(a)
  <2> DEFINE f == BackupOrder[k[a]]
  <2>1. /\ pc[a] = "copying" /\ pc'[a] = "restore" /\ k[a] \in 1..Len(BackupOrder)
        /\ k'[a] = k[a] + 1 /\ pre' = pre /\ dir' = dir /\ backup' = backup
    BY <1>1, <1>11 DEF RestoreFill
  <2>2. f \in Files
    BY <2>1, <1>4
  <2>3. /\ \A g \in Files : g # f => disk'[g] = disk[g]
        /\ disk'[f] = backup[dir[a]][f]
    BY <1>1, <1>11, <2>2 DEF RestoreFill
  <2>4. Touched(a, f) \/ BackedUp(a, f)
    BY <2>1, <2>2
  <2>5. ASSUME NEW i \in 1..Len(BackupOrder), i < k'[a]
        PROVE  Touched(a, BackupOrder[i])' \/ Restored(a, BackupOrder[i])'
    <3>1. CASE BackupOrder[i] = f
      BY <1>3, <1>4, <2>1, <2>3, <2>4, <3>1 DEF BackedUp, Restored
    <3>2. CASE BackupOrder[i] # f
      <4>1. i < k[a]
        BY <1>1, <2>1, <2>5, <3>2
      <4>2. Touched(a, BackupOrder[i]) \/ Restored(a, BackupOrder[i])
        BY <2>1, <4>1
      <4> QED BY <1>3, <1>4, <2>1, <2>3, <3>2, <4>2 DEF Restored
    <3> QED BY <3>1, <3>2
  <2>6. \A g \in Files : Touched(a, g)' \/ BackedUp(a, g)'
    BY <1>3, <2>1 DEF BackedUp
  <2> HIDE DEF f
  <2> QED BY <2>1, <2>5, <2>6
<1>12. CASE RestoreDoneAfterRestart(a)
  <2>1. /\ pc[a] = "restore" /\ pc'[a] = "rerestart" /\ k[a] > Len(BackupOrder)
        /\ disk' = disk /\ pre' = pre /\ dir' = dir /\ backup' = backup
    BY <1>1, <1>12 DEF RestoreDoneAfterRestart
  <2>2. ASSUME NEW f \in Files PROVE Touched(a, f) \/ Restored(a, f)
    <3>1. PICK i \in 1..Len(BackupOrder) : BackupOrder[i] = f /\ i < k[a]
      BY <1>1, <2>1, EveryFileCopied
    <3> QED BY <2>1, <3>1
  <2>3. \A g \in Files : Touched(a, g)' \/ BackedUp(a, g)'
    BY <1>3, <2>1 DEF BackedUp
  <2>4. \A g \in Files : Touched(a, g)' \/ Restored(a, g)'
    BY <1>3, <2>1, <2>2 DEF Restored
  <2> QED BY <2>1, <2>3, <2>4
<1>13. CASE Rerestart(a)
  <2>1. UNCHANGED <<pc, disk, backup, dir, pre>> /\ pc[a] = "rerestart"
    BY <1>13 DEF Rerestart
  <2>2. \A g \in Files : Touched(a, g)' \/ BackedUp(a, g)'
    BY <1>3, <2>1 DEF BackedUp
  <2>3. \A g \in Files : Touched(a, g)' \/ Restored(a, g)'
    BY <1>3, <2>1 DEF Restored
  <2> QED BY <2>1, <2>2, <2>3
<1> QED BY <1>5, <1>6, <1>7, <1>8, <1>9, <1>10, <1>11, <1>12, <1>13 DEF ApplyStep

\* Nothing but the apply itself, and what touches a file, disturbs it.
LEMMA ApartOthers ==
    ASSUME TInv, [Next]_vars, NEW a \in Applies, Apart(a),
           pc'[a] = pc[a], k'[a] = k[a], dir'[a] = dir[a], pre'[a] = pre[a],
           \A f \in Files : Touched(a, f)' \/ disk'[f] = disk[f],
           \A f \in Files : Touched(a, f)' \/ backup'[dir[a]][f] = backup[dir[a]][f]
    PROVE  Apart(a)'
<1>1. \A f \in Files : Touched(a, f) => Touched(a, f)'
  BY TouchedStays
<1>2. \A i \in 1..Len(BackupOrder) : BackupOrder[i] \in Files
  BY EveryFileCopied
<1>3. \A f \in Files : /\ Touched(a, f) \/ BackedUp(a, f) => Touched(a, f)' \/ BackedUp(a, f)'
                       /\ Touched(a, f) \/ Restored(a, f) => Touched(a, f)' \/ Restored(a, f)'
  BY <1>1 DEF BackedUp, Restored
<1> QED BY <1>1, <1>2, <1>3 DEF Apart

LEMMA ApartStep ==
    ASSUME TInv, MutexHeld, \A a \in Applies : Apart(a), [Next]_vars
    PROVE  \A a \in Applies : Apart(a)'
<1>1. /\ pc \in [Actors -> InFlightLabels \cup {"idle", "done"}]
      /\ k \in [Actors -> Nat \ {0}]
      /\ dir \in [Actors -> Minutes]
      /\ disk \in [Files -> Contents]
      /\ backup \in [Minutes -> [Files -> Contents]]
      /\ edit \in [Editors -> [file : Files, doc : Docs] \cup {NoDoc}]
      /\ Applies \subseteq Actors /\ Editors \subseteq Actors /\ Snapshots \subseteq Actors
      /\ Applies \cap Editors = {} /\ Applies \cap Snapshots = {}
  BY ActorsAssumption DEF TInv, TypeOK, Actors
<1>2. ASSUME NEW a \in Applies, ~ InFlight(a)' PROVE Apart(a)'
  BY <1>2 DEF Apart, InFlight, InFlightLabels, RestorableLabels
<1>3. ASSUME NEW b \in Applies, ApplyStep(b), NEW a \in Applies PROVE Apart(a)'
  <2>1. CASE a = b
    BY <1>3, <2>1, ApartOwnStep
  <2>2. CASE a # b
    <3>1. /\ pc[b] \in InFlightLabels /\ pc'[a] = pc[a]
      BY <1>1, <1>3, <2>2, StepShape
    <3>2. ~ InFlight(a)
      BY <2>2, <3>1 DEF MutexHeld, InFlight
    <3>3. ~ InFlight(a)'
      BY <3>1, <3>2 DEF InFlight
    <3> QED BY <1>2, <3>3
  <2> QED BY <2>1, <2>2
<1>4. ASSUME NEW b \in Applies, (\E r \in Requests : Submit(b, r)) \/ Refuse(b),
             NEW a \in Applies
      PROVE  Apart(a)'
  <2>1. CASE a = b
    <3>1. pc'[a] = "diff" \/ pc'[a] = "done"
      BY <1>1, <1>4, <2>1 DEF Submit, Refuse
    <3> QED BY <3>1 DEF Apart, RestorableLabels, InFlightLabels
  <2>2. CASE a # b
    BY <1>1, <1>4, <2>2, ApartOthers DEF Submit, Refuse
  <2> QED BY <2>1, <2>2
<1>5. ASSUME NEW e \in Editors, (\E g \in EditFiles : EditLoad(e, g)) \/ EditRead(e),
             NEW a \in Applies
      PROVE  Apart(a)'
  BY <1>1, <1>5, ApartOthers DEF EditLoad, EditRead
<1>6. ASSUME NEW e \in Editors, EditWrite(e), NEW a \in Applies PROVE Apart(a)'
  <2>1. /\ pc'[e] = "done" /\ edit' = edit
        /\ \A f \in Files : edit[e].file # f => disk'[f] = disk[f]
    BY <1>1, <1>6 DEF EditWrite
  <2>2. \A f \in Files : Touched(a, f)' \/ disk'[f] = disk[f]
    BY <2>1 DEF Touched
  <2>3. UNCHANGED <<k, dir, pre, backup>> /\ pc'[a] = pc[a]
    BY <1>1, <1>6 DEF EditWrite
  <2> QED BY <2>2, <2>3, ApartOthers
<1>7. ASSUME NEW s \in Snapshots, SnapshotStart(s), NEW a \in Applies PROVE Apart(a)'
  <2>1. UNCHANGED <<k, disk, pre, backup>> /\ pc'[a] = pc[a] /\ dir'[a] = dir[a]
    BY <1>1, <1>7 DEF SnapshotStart
  <2> QED BY <2>1, ApartOthers
<1>8. ASSUME NEW s \in Snapshots, SnapshotFile(s), NEW a \in Applies PROVE Apart(a)'
  <2>1. /\ pc'[s] # "idle" /\ dir' = dir
        /\ UNCHANGED <<disk, pre>> /\ pc'[a] = pc[a] /\ k'[a] = k[a]
    BY <1>1, <1>8 DEF SnapshotFile
  <2>2. dir[s] # dir[a] => backup'[dir[a]] = backup[dir[a]]
    BY <1>1, <1>8 DEF SnapshotFile, CopyToBackup
  <2>3. dir[s] = dir[a] => \A f \in Files : Touched(a, f)'
    BY <2>1 DEF Touched
  <2> QED BY <2>1, <2>2, <2>3, ApartOthers
<1>9. ASSUME Crash, NEW a \in Applies PROVE Apart(a)'
  <2>1. ~ InFlight(a)'
    BY <1>1, <1>9 DEF Crash, InFlight, InFlightLabels
  <2> QED BY <1>2, <2>1
<1>10. ASSUME Tick \/ UNCHANGED vars, NEW a \in Applies PROVE Apart(a)'
  BY <1>10, ApartOthers DEF Tick, vars
<1> QED BY <1>3, <1>4, <1>5, <1>6, <1>7, <1>8, <1>9, <1>10 DEF Next

ApartRollback ==
    \A a \in Applies : outcome[a] # "rolledback" /\ outcome'[a] = "rolledback" =>
        \A f \in Files :
            \/ pre[a][f] \in {NoFile, disk'[f]}
            \/ \E e \in Editors : pc[e] = "done" /\ edit[e].file = f
            \/ \E s \in Snapshots : pc[s] # "idle" /\ dir[s] = dir[a]

LEMMA ApartRollbackHolds ==
    ASSUME TInv, \A a \in Applies : Apart(a), [Next]_vars
    PROVE  ApartRollback
<1> SUFFICES ASSUME NEW a \in Applies, outcome[a] # "rolledback", outcome'[a] = "rolledback",
                    NEW f \in Files
             PROVE  pre[a][f] \in {NoFile, disk'[f]} \/ Touched(a, f)
  BY DEF ApartRollback, Touched
<1>1. RestoreDoneAfterWrite(a) \/ RollbackDone(a)
  BY OutcomeChange
<1>2. Touched(a, f) \/ Restored(a, f)
  <2>1. CASE RestoreDoneAfterWrite(a)
    <3>1. pc[a] = "restore" /\ k[a] \in Nat /\ k[a] > Len(BackupOrder)
      BY <2>1 DEF RestoreDoneAfterWrite, TInv, TypeOK, Actors
    <3>2. PICK i \in 1..Len(BackupOrder) : BackupOrder[i] = f /\ i < k[a]
      BY <3>1, EveryFileCopied
    <3> QED BY <3>1, <3>2 DEF Apart
  <2>2. CASE RollbackDone(a)
    BY <2>2 DEF RollbackDone, Apart
  <2> QED BY <1>1, <2>1, <2>2
<1>3. disk' = disk
  BY <1>1 DEF RestoreDoneAfterWrite, RollbackDone
<1> QED BY <1>2, <1>3 DEF Restored

\* Beside editors and on-demand backups, what 'rolledback' does not put back
\* is a file an editor wrote, or the backup shares its directory.
THEOREM ApartTheorem == Spec => RollbackExactApart
<1> DEFINE All == \A a \in Applies : Apart(a)
<1>1. Init => All
  BY DEF Init, Apart, Actors, RestorableLabels, InFlightLabels
<1>2. TInv /\ MutexHeld /\ All /\ [Next]_vars => All'
  BY ApartStep
<1>3. TInv /\ All /\ [Next]_vars => [ApartRollback]_vars
  BY ApartRollbackHolds
<1>4. RollbackExactApart <=> [][ApartRollback]_vars
  BY DEF RollbackExactApart, ApartRollback
<1> HIDE DEF All
<1> QED BY <1>1, <1>2, <1>3, <1>4, TypeInvariant, MutexTheorem, PTL DEF Spec

(***************************************************************************)
(* UntouchedFieldsKept.  A field nobody named has its first value, as      *)
(* found or as cleaned, wherever a document of the file is kept: on disk,  *)
(* in the backup directories, under a save and in an editor's hands.       *)
(***************************************************************************)

HasField(c, f, x) ==
    c \in Docs => found[f] \in Docs /\ c[x] \in {found[f][x], Cleaned(found[f][x])}

Carried(f, x) ==
    /\ HasField(disk[f], f, x)
    /\ \A m \in Minutes : HasField(backup[m][f], f, x)
    /\ \A a \in Applies : pc[a] = "save" /\ SaveOrder[k[a]] = f => HasField(base[a], f, x)
    /\ \A e \in Editors : pc[e] \in {"load", "save"} /\ edit[e].file = f =>
          /\ edit[e].doc[x] = Unset \/ HasField(edit[e].doc, f, x)
          /\ pc[e] = "save" => HasField(base[e], f, x)

\* Nobody who has not begun has named anything.
NothingNamedYet ==
    /\ \A a \in Applies : pc[a] = "idle" => \A f \in Files : req[a][f] = NoDoc
    /\ \A e \in Editors : pc[e] = "idle" => edit[e] = NoDoc

KeptInv ==
    /\ NothingNamedYet
    /\ \A f \in Files, x \in Fields : f \in fresh \/ Named(f, x) \/ Carried(f, x)

\* What a save makes of a file that has the field, when it does not name it.
LEMMA SavedKeeps ==
    ASSUME NEW f \in Files, NEW x \in Fields, NEW c \in Docs, NEW d \in Docs,
           HasField(c, f, x), d[x] = Unset \/ HasField(d, f, x)
    PROVE  HasField(Saved(c, d), f, x)
<1>1. /\ found[f] \in Docs
      /\ c[x] \in {found[f][x], Cleaned(found[f][x])}
      /\ d[x] = Unset \/ d[x] \in {found[f][x], Cleaned(found[f][x])}
  BY DEF HasField
<1>2. Saved(c, d)[x] = Cleaned(IF d[x] # Unset THEN d[x] ELSE c[x])
  BY DEF Saved, Clean, Merge, LoadRaw
<1>3. Cleaned(Cleaned(found[f][x])) = Cleaned(found[f][x])
  BY <1>1, NormalAssumption DEF Cleaned, Docs
<1>4. Saved(c, d)[x] = Cleaned(found[f][x])
  BY <1>1, <1>2, <1>3
<1> QED BY <1>1, <1>4 DEF HasField

\* What a step of an apply does to files, backups and what it read.
LEMMA ApplyWrites ==
    ASSUME TInv, NEW a \in Applies, ApplyStep(a)
    PROVE  /\ found' = found /\ req' = req
           /\ \/ disk' = disk /\ fresh' = fresh
              \/ SaveWrite(a) \/ RestoreOpen(a) \/ RestoreFill(a)
           /\ backup' = backup \/ BackupFile(a)
           /\ \A p \in Actors \ {a} : base'[p] = base[p] /\ k'[p] = k[p]
           /\ pc'[a] = "save" => SaveRead(a)
<1>1. /\ a \in Actors
      /\ pc \in [Actors -> InFlightLabels \cup {"idle", "done"}]
      /\ base \in [Actors -> Contents] /\ k \in [Actors -> Nat \ {0}]
  BY DEF TInv, TypeOK, Actors
<1> HIDE DEF TInv
<1>2. CASE \/ DiffFails(a) \/ ChooseBackupDir(a)
           \/ BackupFile(a) \/ BackupDone(a) \/ BackupFails(a) \/ LoadExisting(a)
  BY <1>1, <1>2 DEF DiffFails, ChooseBackupDir, BackupFile, CopyToBackup, BackupDone, BackupFails,
                    LoadExisting, Answer
<1>3. CASE \/ SaveRead(a) \/ SaveSkip(a) \/ SaveWrite(a) \/ SaveFails(a) \/ SavesDone(a)
  BY <1>1, <1>3 DEF SaveRead, SaveSkip, SaveWrite, SaveFails, SavesDone
<1>4. CASE \/ SyncPrometheus(a) \/ RestartUnit(a) \/ RestartSkipped(a) \/ RestartFails(a)
           \/ VerifyUnit(a) \/ RestartsDone(a)
  BY <1>1, <1>4 DEF SyncPrometheus, RestartUnit, RestartSkipped, RestartFails, VerifyUnit,
                    RestartsDone, Answer
<1>5. CASE \/ RestoreOpen(a) \/ RestoreSkip(a) \/ RestoreFill(a) \/ RestoreFails(a)
           \/ RestoreDoneAfterWrite(a) \/ RestoreDoneAfterRestart(a)
           \/ Rerestart(a) \/ RollbackDone(a)
  BY <1>1, <1>5 DEF RestoreOpen, RestoreSkip, RestoreFill, RestoreFails, RestoreDoneAfterWrite,
                    RestoreDoneAfterRestart, Rerestart, RollbackDone, Answer
<1> QED BY <1>2, <1>3, <1>4, <1>5 DEF ApplyStep

\* What was named or written afresh stays so.
LEMMA NamedStays ==
    ASSUME TInv, NothingNamedYet, [Next]_vars
    PROVE  /\ NothingNamedYet' /\ found' = found /\ fresh \subseteq fresh'
           /\ \A f \in Files, x \in Fields : Named(f, x) => Named(f, x)'
<1>1. /\ pc \in [Actors -> InFlightLabels \cup {"idle", "done"}]
      /\ req \in [Applies -> [Files -> Docs \cup {NoDoc}]]
      /\ edit \in [Editors -> [file : Files, doc : Docs] \cup {NoDoc}]
      /\ Applies \cap Editors = {}
      /\ Applies \subseteq Actors /\ Editors \subseteq Actors
      /\ Snapshots \subseteq Actors /\ Snapshots \cap (Applies \cup Editors) = {}
  BY ActorsAssumption DEF TInv, TypeOK, Actors
<1>2. ASSUME NEW b \in Applies, ApplyStep(b)
      PROVE  /\ found' = found /\ fresh \subseteq fresh' /\ req' = req /\ edit' = edit
             /\ \A p \in Actors : pc'[p] = "idle" => pc[p] = "idle"
  <2>1. /\ found' = found /\ req' = req /\ edit' = edit
        /\ \A p \in Actors : pc'[p] = "idle" => pc[p] = "idle"
    <3>1. pc'[b] # "idle"
      BY <1>1, <1>2, StepShape DEF InFlightLabels
    <3>2. \A p \in Actors \ {b} : pc'[p] = pc[p]
      BY <1>2, ApplyLeaves
    <3> QED BY <1>1, <1>2, <3>1, <3>2, ApplyLeaves, ApplyWrites
  <2>2. fresh \subseteq fresh'
    BY <1>2, ApplyWrites DEF SaveWrite, RestoreOpen, RestoreFill
  <2> QED BY <2>1, <2>2
<1>3. ASSUME NEW b \in Applies, (\E r \in Requests : Submit(b, r)) \/ Refuse(b)
      PROVE  /\ found' = found /\ fresh' = fresh /\ edit' = edit
             /\ pc[b] = "idle" /\ pc'[b] # "idle"
             /\ \A p \in Actors \ {b} : pc'[p] = pc[p]
             /\ \A c \in Applies \ {b} : req'[c] = req[c]
  BY <1>1, <1>3 DEF Submit, Refuse
<1>4. ASSUME NEW d \in Editors, (\E g \in EditFiles : EditLoad(d, g)) \/ EditRead(d) \/ EditWrite(d)
      PROVE  /\ found' = found /\ fresh \subseteq fresh' /\ req' = req
             /\ edit' = edit \/ pc[d] = "idle"
             /\ pc'[d] # "idle"
             /\ \A p \in Actors \ {d} : pc'[p] = pc[p]
             /\ \A e \in Editors \ {d} : edit'[e] = edit[e]
  BY <1>1, <1>4 DEF EditLoad, EditRead, EditWrite
<1>5. ASSUME NEW s \in Snapshots, SnapshotStart(s) \/ SnapshotFile(s)
      PROVE  /\ found' = found /\ fresh' = fresh /\ req' = req /\ edit' = edit
             /\ \A p \in Applies \cup Editors : pc'[p] = pc[p]
  BY <1>1, <1>5 DEF SnapshotStart, SnapshotFile
<1>6. ASSUME Tick \/ Crash \/ UNCHANGED vars
      PROVE  /\ found' = found /\ fresh' = fresh /\ req' = req /\ edit' = edit
             /\ \A p \in Actors : pc'[p] = "idle" => pc[p] = "idle"
  BY <1>1, <1>6 DEF Tick, Crash, vars
<1>7. found' = found /\ fresh \subseteq fresh'
  BY <1>2, <1>3, <1>4, <1>5, <1>6 DEF Next
<1>8. NothingNamedYet'
  <2>1. ASSUME NEW c \in Applies, pc'[c] = "idle"
        PROVE  pc[c] = "idle" /\ req'[c] = req[c]
    BY <1>1, <1>2, <1>3, <1>4, <1>5, <1>6, <2>1 DEF Next
  <2>2. ASSUME NEW e \in Editors, pc'[e] = "idle"
        PROVE  pc[e] = "idle" /\ edit'[e] = edit[e]
    BY <1>1, <1>2, <1>3, <1>4, <1>5, <1>6, <2>2 DEF Next
  <2> QED BY <2>1, <2>2 DEF NothingNamedYet
<1>9. \A c \in Applies : req'[c] = req[c] \/ \A f \in Files : req[c][f] = NoDoc
  BY <1>1, <1>2, <1>3, <1>4, <1>5, <1>6 DEF Next, NothingNamedYet
<1>10. \A e \in Editors : edit'[e] = edit[e] \/ edit[e] = NoDoc
  BY <1>1, <1>2, <1>3, <1>4, <1>5, <1>6 DEF Next, NothingNamedYet
<1>11. ASSUME NEW f \in Files, NEW x \in Fields, Named(f, x)
       PROVE  Named(f, x)'
  BY <1>9, <1>10, <1>11 DEF Named
<1> QED BY <1>7, <1>8, <1>11

LEMMA CarriedStep ==
    ASSUME TInv, TInv', [Next]_vars, found' = found,
           NEW f \in Files, NEW x \in Fields, Carried(f, x),
           ~Named(f, x), ~Named(f, x)', f \notin fresh'
    PROVE  Carried(f, x)'
<1>1. /\ pc \in [Actors -> InFlightLabels \cup {"idle", "done"}]
      /\ k \in [Actors -> Nat \ {0}]
      /\ base \in [Actors -> Contents]
      /\ disk \in [Files -> Contents]
      /\ dir \in [Actors -> Minutes]
      /\ backup \in [Minutes -> [Files -> Contents]]
      /\ req \in [Applies -> [Files -> Docs \cup {NoDoc}]]
      /\ edit \in [Editors -> [file : Files, doc : Docs] \cup {NoDoc}]
      /\ Applies \cap Editors = {}
      /\ Applies \subseteq Actors /\ Editors \subseteq Actors
      /\ Snapshots \subseteq Actors /\ Snapshots \cap (Applies \cup Editors) = {}
  BY ActorsAssumption DEF TInv, TypeOK, Actors
<1>2. \A c : HasField(c, f, x)' <=> HasField(c, f, x)
  BY DEF HasField
<1>3. ASSUME NEW c, c \notin Docs PROVE HasField(c, f, x)
  BY <1>3 DEF HasField
<1>4. ASSUME NEW b \in Applies, ApplyStep(b) PROVE Carried(f, x)'
  <2>1. HasField(disk'[f], f, x)
    <3>1. CASE disk' = disk
      BY <3>1 DEF Carried
    <3>2. CASE SaveWrite(b)
      <4> DEFINE g == SaveOrder[k[b]]
      <4>1. /\ pc[b] = "save" /\ g \in Files /\ req[b][g] \in Docs
            /\ disk' = [disk EXCEPT ![g] = Saved(base[b], req[b][g])]
            /\ base[b] \in Docs \/ g \in fresh'
        BY <1>1, <3>2, OrderTypes DEF SaveWrite, TInv, LoopsInBounds
      <4>2. CASE g # f
        BY <1>1, <4>1, <4>2 DEF Carried
      <4>3. CASE g = f
        <5>1. base[b] \in Docs /\ HasField(base[b], f, x)
          BY <4>1, <4>3 DEF Carried
        <5>2. req[b][f][x] = Unset
          BY <4>1, <4>3, DocsAssumption DEF Named
        <5>3. HasField(Saved(base[b], req[b][f]), f, x)
          BY <4>1, <4>3, <5>1, <5>2, SavedKeeps
        <5> QED BY <1>1, <4>1, <4>3, <5>3
      <4> QED BY <4>2, <4>3
    <3>3. CASE RestoreOpen(b)
      <4>1. disk'[f] = disk[f] \/ disk'[f] \notin Docs
        BY <1>1, <3>3, DocTypes DEF RestoreOpen
      <4> QED BY <1>3, <4>1 DEF Carried
    <3>4. CASE RestoreFill(b)
      <4>1. disk'[f] = disk[f] \/ disk'[f] = backup[dir[b]][f]
        BY <1>1, <3>4 DEF RestoreFill
      <4> QED BY <1>1, <4>1 DEF Carried
    <3> QED BY <1>4, <3>1, <3>2, <3>3, <3>4, ApplyWrites
  <2>2. ASSUME NEW m \in Minutes PROVE HasField(backup'[m][f], f, x)
    <3>1. backup'[m][f] \in {backup[m][f], disk[f]}
      <4>1. CASE backup' = backup
        BY <4>1
      <4>2. CASE BackupFile(b)
        BY <1>1, <4>2 DEF BackupFile, CopyToBackup
      <4> QED BY <1>4, <4>1, <4>2, ApplyWrites
    <3> QED BY <3>1 DEF Carried
  <2>3. ASSUME NEW a \in Applies, pc'[a] = "save", SaveOrder[k'[a]] = f
        PROVE  HasField(base'[a], f, x)
    <3>1. CASE a # b
      <4>1. pc'[a] = pc[a] /\ base'[a] = base[a] /\ k'[a] = k[a]
        BY <1>1, <1>4, <3>1, ApplyLeaves, ApplyWrites
      <4> QED BY <2>3, <4>1 DEF Carried
    <3>2. CASE a = b
      <4>1. SaveRead(b)
        BY <1>4, <2>3, <3>2, ApplyWrites
      <4>2. base'[a] = disk[SaveOrder[k[a]]] /\ k'[a] = k[a]
        BY <1>1, <3>2, <4>1 DEF SaveRead
      <4> QED BY <2>3, <4>2 DEF Carried
    <3> QED BY <3>1, <3>2
  <2>4. ASSUME NEW e \in Editors
        PROVE  edit'[e] = edit[e] /\ pc'[e] = pc[e] /\ base'[e] = base[e]
    BY <1>1, <1>4, ApplyLeaves, ApplyWrites
  <2> QED BY <1>2, <2>1, <2>2, <2>3, <2>4 DEF Carried
<1>5. ASSUME NEW b \in Applies, (\E r \in Requests : Submit(b, r)) \/ Refuse(b)
      PROVE  Carried(f, x)'
  <2>1. /\ UNCHANGED <<disk, backup, base, k, edit>>
        /\ pc'[b] # "save"
        /\ \A p \in Actors \ {b} : pc'[p] = pc[p]
    BY <1>1, <1>5 DEF Submit, Refuse
  <2> QED BY <1>1, <1>2, <2>1 DEF Carried
<1>6. ASSUME NEW d \in Editors, NEW g \in EditFiles, EditLoad(d, g) PROVE Carried(f, x)'
  <2> DEFINE old == LoadRaw(disk[g])
             new == [old EXCEPT ![EditField] = EditValue]
  <2>1. /\ UNCHANGED <<disk, backup, base, k>>
        /\ pc'[d] = "load"
        /\ \A p \in Actors \ {d} : pc'[p] = pc[p]
        /\ edit'[d] = [file |-> g, doc |-> new]
        /\ \A e \in Editors \ {d} : edit'[e] = edit[e]
    BY <1>1, <1>6 DEF EditLoad
  <2>2. ASSUME g = f, x # EditField
        PROVE  new[x] = Unset \/ HasField(new, f, x)
    <3>1. old \in Docs /\ new[x] = old[x]
      BY <2>2, DocTypes DEF Docs
    <3>2. CASE disk[f] \in Docs
      BY <2>2, <3>1, <3>2 DEF Carried, HasField, LoadRaw
    <3>3. CASE disk[f] \notin Docs
      BY <2>2, <3>1, <3>3 DEF LoadRaw, Empty
    <3> QED BY <3>2, <3>3
  <2>3. CASE g = f /\ x = EditField
    <3>1. edit'[d] # NoDoc /\ edit'[d].file = f
      <4>1. edit' \in [Editors -> [file : Files, doc : Docs] \cup {NoDoc}]
        BY DEF TInv, TypeOK
      <4>2. edit'[d].file = f
        BY <2>1, <2>3
      <4>3. edit'[d] = [file |-> f, doc |-> new]
        BY <2>1, <2>3
      <4>4. new \in Docs
        BY DocTypes DEF Docs
      <4> QED BY <4>2, <4>3, <4>4, DocsAssumption
    <3>2. Named(f, x)'
      BY <2>3, <3>1 DEF Named
    <3> QED BY <3>2
  <2> HIDE DEF new, old
  <2>4. CASE ~ (g = f /\ x = EditField)
    <3>1. ASSUME NEW e \in Editors, pc'[e] \in {"load", "save"}, edit'[e].file = f
          PROVE  /\ edit'[e].doc[x] = Unset \/ HasField(edit'[e].doc, f, x)
                 /\ pc'[e] = "save" => HasField(base'[e], f, x)
      <4>1. CASE e = d
        BY <2>1, <2>2, <2>4, <3>1, <4>1
      <4>2. CASE e # d
        BY <1>1, <2>1, <3>1, <4>2 DEF Carried
      <4> QED BY <4>1, <4>2
    <3>2. \A a \in Applies : pc'[a] = pc[a]
      BY <1>1, <2>1
    <3> QED BY <1>2, <2>1, <3>1, <3>2 DEF Carried
  <2> QED BY <2>3, <2>4
<1>7. ASSUME NEW d \in Editors, EditRead(d) PROVE Carried(f, x)'
  <2>1. /\ UNCHANGED <<disk, backup, edit, k>>
        /\ pc[d] = "load" /\ pc'[d] = "save" /\ base'[d] = disk[edit[d].file]
        /\ \A p \in Actors \ {d} : pc'[p] = pc[p] /\ base'[p] = base[p]
    BY <1>1, <1>7 DEF EditRead
  <2> QED BY <1>1, <1>2, <2>1 DEF Carried
<1>8. ASSUME NEW d \in Editors, EditWrite(d) PROVE Carried(f, x)'
  <2>1. /\ UNCHANGED <<backup, edit, k, base>>
        /\ pc[d] = "save" /\ pc'[d] = "done"
        /\ \A p \in Actors \ {d} : pc'[p] = pc[p]
        /\ edit[d] \in [file : Files, doc : Docs]
        /\ disk' = [disk EXCEPT ![edit[d].file] = Saved(base[d], edit[d].doc)]
        /\ base[d] \in Docs \/ edit[d].file \in fresh'
    BY <1>1, <1>8 DEF EditWrite, TInv, EditingADoc
  <2>2. HasField(disk'[f], f, x)
    <3>1. CASE edit[d].file # f
      BY <1>1, <2>1, <3>1 DEF Carried
    <3>2. CASE edit[d].file = f
      <4>1. base[d] \in Docs /\ HasField(base[d], f, x)
        BY <2>1, <3>2 DEF Carried
      <4>2. edit[d].doc \in Docs /\ (edit[d].doc[x] = Unset \/ HasField(edit[d].doc, f, x))
        BY <2>1, <3>2 DEF Carried
      <4>3. HasField(Saved(base[d], edit[d].doc), f, x)
        BY <4>1, <4>2, SavedKeeps
      <4> QED BY <1>1, <2>1, <3>2, <4>3
    <3> QED BY <3>1, <3>2
  <2> QED BY <1>1, <1>2, <2>1, <2>2 DEF Carried
<1>9. ASSUME NEW s \in Snapshots, SnapshotStart(s) PROVE Carried(f, x)'
  <2>1. /\ UNCHANGED <<disk, backup, edit, k, base>>
        /\ \A p \in Applies \cup Editors : pc'[p] = pc[p]
    BY <1>1, <1>9 DEF SnapshotStart
  <2> QED BY <1>2, <2>1 DEF Carried
<1>10. ASSUME NEW s \in Snapshots, SnapshotFile(s) PROVE Carried(f, x)'
  <2>1. /\ UNCHANGED <<disk, edit, base>>
        /\ \A p \in Applies \cup Editors : pc'[p] = pc[p] /\ k'[p] = k[p]
    BY <1>1, <1>10 DEF SnapshotFile
  <2>2. \A m \in Minutes : backup'[m][f] \in {backup[m][f], disk[f]}
    BY <1>1, <1>10 DEF SnapshotFile, CopyToBackup
  <2>3. \A m \in Minutes : HasField(backup'[m][f], f, x)
    BY <2>2 DEF Carried
  <2> QED BY <1>2, <2>1, <2>3 DEF Carried
<1>11. ASSUME Tick \/ UNCHANGED vars PROVE Carried(f, x)'
  <2>1. UNCHANGED <<disk, backup, edit, k, base, pc>>
    BY <1>11 DEF Tick, vars
  <2> QED BY <1>2, <2>1 DEF Carried
<1>12. ASSUME Crash PROVE Carried(f, x)'
  <2>1. /\ UNCHANGED <<disk, backup, edit, k, base>>
        /\ \A p \in Actors : pc'[p] \in {"idle", "done"}
    BY <1>1, <1>12 DEF Crash
  <2> QED BY <1>1, <1>2, <2>1 DEF Carried
<1> QED BY <1>4, <1>5, <1>6, <1>7, <1>8, <1>9, <1>10, <1>11, <1>12 DEF Next

\* Whatever applies, editors, backups, rollbacks and crashes do, a field nobody
\* named keeps its value, unless a save found no document to merge over.
THEOREM UntouchedTheorem == Spec => []UntouchedFieldsKept
<1>1. Init => KeptInv
  <2> SUFFICES ASSUME Init PROVE KeptInv
    OBVIOUS
  <2>1. NothingNamedYet
    BY DEF Init, NothingNamedYet
  <2>2. ASSUME NEW f \in Files, NEW x \in Fields PROVE Carried(f, x)
    <3>1. NoFile \notin Docs /\ found = disk
      BY DocTypes DEF Init
    <3>2. \A p \in Applies \cup Editors : pc[p] = "idle"
      BY DEF Init, Actors
    <3>3. \A m \in Minutes : backup[m][f] = NoFile
      BY DEF Init
    <3> QED BY <3>1, <3>2, <3>3 DEF Carried, HasField
  <2> QED BY <2>1, <2>2 DEF KeptInv
<1>2. TInv /\ TInv' /\ KeptInv /\ [Next]_vars => KeptInv'
  <2> SUFFICES ASSUME TInv, TInv', KeptInv, [Next]_vars PROVE KeptInv'
    OBVIOUS
  <2>1. /\ NothingNamedYet' /\ found' = found /\ fresh \subseteq fresh'
        /\ \A f \in Files, x \in Fields : Named(f, x) => Named(f, x)'
    BY NamedStays DEF KeptInv
  <2>2. ASSUME NEW f \in Files, NEW x \in Fields, f \notin fresh', ~Named(f, x)'
        PROVE  Carried(f, x)'
    <3>1. f \notin fresh /\ ~Named(f, x)
      BY <2>1, <2>2
    <3>2. Carried(f, x)
      BY <3>1 DEF KeptInv
    <3> QED BY <2>1, <2>2, <3>1, <3>2, CarriedStep
  <2> QED BY <2>1, <2>2 DEF KeptInv
<1>3. KeptInv => UntouchedFieldsKept
  BY DEF KeptInv, Carried, HasField, UntouchedFieldsKept
<1> QED BY <1>1, <1>2, <1>3, TypeInvariant, PTL DEF Spec

-----------------------------------------------------------------------------
(***************************************************************************)
(* What the units run.  Every unit is restarted and has its file: then,    *)
(* while the files change, the units run what the apply found, and from    *)
(* then on those the loop has been through run what is on disk.            *)
(***************************************************************************)

Configured ==
    /\ \A d \in InitDisks, u \in Units \cap Files : d[u] # NoFile
    /\ \A u \in Units : \E i \in 1..Len(RestartOrder) : RestartOrder[i] = u

Serves(u) == u \in stale \/ running[u] \in {Down, ConfigOf(u)}
Settled == \A u \in Units : Serves(u)
FoundBy(a, u) == IF u \in Files THEN pre[a][u] ELSE NoFile

Serving(a) ==
    /\ pc[a] \in RestorableLabels => \A u \in Units \cap Files : pre[a][u] # NoFile
    /\ pc[a] \in {"diff", "backup"} => Settled
    /\ \/ pc[a] \in {"existing", "load", "save", "prometheus"}
       \/ pc[a] \in {"restore", "copying"} /\ cause[a] = "write"
       => \A u \in Units \ stale : running[u] \in {Down, FoundBy(a, u)}
    /\ pc[a] \in {"restart", "rerestart"} =>
          \A i \in 1..Len(RestartOrder) : i < k[a] => Serves(RestartOrder[i])
    /\ pc[a] = "verify" =>
          \A i \in 1..Len(RestartOrder) : i <= k[a] => Serves(RestartOrder[i])

HostTrue ==
    /\ AbsentUnits \subseteq stale
    /\ \A u \in Units \cap Files : disk[u] # NoFile

RunInv == HostTrue /\ (mutex = None => Settled) /\ \A a \in Applies : Serving(a)

LEMMA AllServed ==
    ASSUME Configured, \A i \in 1..Len(RestartOrder) : Serves(RestartOrder[i])
    PROVE  Settled
BY DEF Configured, Settled

\* No step of an apply removes a file, and a unit that is absent stays excused.
LEMMA HostStep ==
    ASSUME Configured, TInv, MutexHeld, RunInv, NEW a \in Applies, Progress(a), ApplyStep(a)
    PROVE  HostTrue'
<1>1. /\ a \in Actors
      /\ pc \in [Actors -> InFlightLabels \cup {"idle", "done"}]
      /\ k \in [Actors -> Nat \ {0}] /\ k[a] \in Nat \ {0}
      /\ dir[a] \in Minutes
      /\ pre \in [Applies -> [Files -> Contents]]
      /\ disk \in [Files -> Contents]
      /\ cause \in [Applies -> {"none", "write", "restart"}]
      /\ running \in [Units -> Contents \cup {Down}]
  BY DEF TInv, TypeOK, Actors
<1>0. mutex = a /\ a # None
  BY StepShape, DocsAssumption DEF MutexHeld, InFlight
<1> USE DEF RunInv, HostTrue, Serving, RestorableLabels, InFlightLabels
<1>d. ASSUME DiffFails(a) PROVE HostTrue'
  BY <1>1, <1>d DEF DiffFails, Answer
<1>e. ASSUME LoadExisting(a) PROVE HostTrue'
  BY <1>1, <1>e DEF LoadExisting
<1>2. ASSUME ChooseBackupDir(a) PROVE HostTrue'
  BY <1>1, <1>2 DEF ChooseBackupDir
<1>3. ASSUME BackupFile(a) PROVE HostTrue'
  BY <1>1, <1>3 DEF BackupFile
<1>4. ASSUME BackupDone(a) PROVE HostTrue'
  BY <1>1, <1>4 DEF BackupDone
<1>5. ASSUME BackupFails(a) PROVE HostTrue'
  BY <1>1, <1>5 DEF BackupFails, Answer
<1>6. ASSUME SaveRead(a) PROVE HostTrue'
  BY <1>1, <1>6 DEF SaveRead
<1>7. ASSUME SaveSkip(a) PROVE HostTrue'
  BY <1>1, <1>7 DEF SaveSkip
<1>8. ASSUME SaveWrite(a) PROVE HostTrue'
  BY <1>1, <1>8, DocTypes, OrderTypes DEF SaveWrite, TInv, LoopsInBounds, TypeOK
<1>9. ASSUME SaveFails(a) PROVE HostTrue'
  BY <1>1, <1>9 DEF SaveFails
<1>10. ASSUME SavesDone(a) PROVE HostTrue'
  BY <1>1, <1>10 DEF SavesDone
<1>11. ASSUME SyncPrometheus(a) PROVE HostTrue'
  BY <1>1, <1>11 DEF SyncPrometheus
<1>12. ASSUME RestartUnit(a) PROVE HostTrue'
  BY <1>1, <1>12, OrdersAssumption DEF RestartUnit
<1>13. ASSUME RestartSkipped(a) PROVE HostTrue'
  BY <1>1, <1>13 DEF RestartSkipped
<1>14. ASSUME RestartFails(a) PROVE HostTrue'
  BY <1>1, <1>14 DEF RestartFails
<1>15. ASSUME VerifyUnit(a) PROVE HostTrue'
  BY <1>1, <1>15 DEF VerifyUnit
<1>16. ASSUME RestartsDone(a) PROVE HostTrue'
  BY <1>1, <1>16 DEF RestartsDone, Answer
<1>17. ASSUME RestoreOpen(a) PROVE HostTrue'
  BY <1>1, <1>17, DocsAssumption DEF RestoreOpen
<1>18. ASSUME RestoreSkip(a) PROVE HostTrue'
  BY <1>1, <1>18 DEF RestoreSkip
<1>19. ASSUME RestoreFill(a) PROVE HostTrue'
  BY <1>1, <1>19, OrderTypes DEF RestoreFill, TInv, LoopsInBounds, Progress, BackedUp
<1>20. ASSUME RestoreFails(a) PROVE HostTrue'
  BY <1>1, <1>20, OrdersAssumption DEF RestoreFails, Answer
<1>21. ASSUME RestoreDoneAfterWrite(a) PROVE HostTrue'
  BY <1>1, <1>21 DEF RestoreDoneAfterWrite, Answer
<1>22. ASSUME RestoreDoneAfterRestart(a) PROVE HostTrue'
  BY <1>1, <1>22 DEF RestoreDoneAfterRestart
<1>23. ASSUME Rerestart(a) PROVE HostTrue'
  BY <1>1, <1>23, OrdersAssumption DEF Rerestart
<1>24. ASSUME RollbackDone(a) PROVE HostTrue'
  BY <1>1, <1>24 DEF RollbackDone, Answer
<1> QED BY <1>d, <1>e, <1>2, <1>3, <1>4, <1>5, <1>6, <1>7, <1>8, <1>9, <1>10, <1>11, <1>12, <1>13, <1>14,
       <1>15, <1>16, <1>17, <1>18, <1>19, <1>20, <1>21, <1>22, <1>23, <1>24 DEF ApplyStep

\* The apply under way knows what the units run.
LEMMA ServingStep ==
    ASSUME Configured, TInv, MutexHeld, RunInv, NEW a \in Applies, Progress(a), ApplyStep(a)
    PROVE  (mutex' = None => Settled') /\ Serving(a)'
<1>1. /\ a \in Actors
      /\ pc \in [Actors -> InFlightLabels \cup {"idle", "done"}]
      /\ k \in [Actors -> Nat \ {0}] /\ k[a] \in Nat \ {0}
      /\ dir[a] \in Minutes
      /\ pre \in [Applies -> [Files -> Contents]]
      /\ disk \in [Files -> Contents]
      /\ cause \in [Applies -> {"none", "write", "restart"}]
      /\ running \in [Units -> Contents \cup {Down}]
  BY DEF TInv, TypeOK, Actors
<1>0. mutex = a /\ a # None
  BY StepShape, DocsAssumption DEF MutexHeld, InFlight
<1> USE OrderTypes DEF RunInv, HostTrue, Settled, Serves, ConfigOf, Serving, FoundBy, RestorableLabels, InFlightLabels
<1>d. ASSUME DiffFails(a) PROVE (mutex' = None => Settled') /\ Serving(a)'
  BY <1>1, <1>d DEF DiffFails, Answer
<1>e. ASSUME LoadExisting(a) PROVE (mutex' = None => Settled') /\ Serving(a)'
  <2>1. /\ pc[a] = "existing" /\ mutex' = a /\ k'[a] = 1
        /\ UNCHANGED <<disk, running, stale, pre>>
        /\ \/ pc'[a] = "restore" /\ cause'[a] = "write"
           \/ pc'[a] = "load"
    BY <1>1, <1>0, <1>e DEF LoadExisting
  <2>2. /\ \A u \in Units \ stale : running[u] \in {Down, FoundBy(a, u)}
        /\ \A u \in Units \cap Files : pre[a][u] # NoFile
    BY <2>1
  <2> QED BY <1>0, <2>1, <2>2
<1>2. ASSUME ChooseBackupDir(a) PROVE (mutex' = None => Settled') /\ Serving(a)'
  BY <1>1, <1>2 DEF ChooseBackupDir
<1>3. ASSUME BackupFile(a) PROVE (mutex' = None => Settled') /\ Serving(a)'
  BY <1>1, <1>3 DEF BackupFile
<1>4. ASSUME BackupDone(a) PROVE (mutex' = None => Settled') /\ Serving(a)'
  BY <1>1, <1>4 DEF BackupDone, Progress
<1>5. ASSUME BackupFails(a) PROVE (mutex' = None => Settled') /\ Serving(a)'
  BY <1>1, <1>5 DEF BackupFails, Answer
<1>6. ASSUME SaveRead(a) PROVE (mutex' = None => Settled') /\ Serving(a)'
  BY <1>1, <1>6 DEF SaveRead
<1>7. ASSUME SaveSkip(a) PROVE (mutex' = None => Settled') /\ Serving(a)'
  BY <1>1, <1>7 DEF SaveSkip
<1>8. ASSUME SaveWrite(a) PROVE (mutex' = None => Settled') /\ Serving(a)'
  BY <1>1, <1>8, <1>0 DEF SaveWrite
<1>9. ASSUME SaveFails(a) PROVE (mutex' = None => Settled') /\ Serving(a)'
  BY <1>1, <1>9 DEF SaveFails
<1>10. ASSUME SavesDone(a) PROVE (mutex' = None => Settled') /\ Serving(a)'
  BY <1>1, <1>10 DEF SavesDone
<1>11. ASSUME SyncPrometheus(a) PROVE (mutex' = None => Settled') /\ Serving(a)'
  BY <1>1, <1>11 DEF SyncPrometheus
<1>12. ASSUME RestartUnit(a) PROVE (mutex' = None => Settled') /\ Serving(a)'
  BY <1>1, <1>12 DEF RestartUnit
<1>13. ASSUME RestartSkipped(a) PROVE (mutex' = None => Settled') /\ Serving(a)'
  BY <1>1, <1>13 DEF RestartSkipped
<1>14. ASSUME RestartFails(a) PROVE (mutex' = None => Settled') /\ Serving(a)'
  BY <1>1, <1>14 DEF RestartFails
<1>15. ASSUME VerifyUnit(a) PROVE (mutex' = None => Settled') /\ Serving(a)'
  BY <1>1, <1>15 DEF VerifyUnit
<1>16. ASSUME RestartsDone(a) PROVE (mutex' = None => Settled') /\ Serving(a)'
  <2>1. \A i \in 1..Len(RestartOrder) : Serves(RestartOrder[i])
    BY <1>1, <1>16 DEF RestartsDone
  <2>2. Settled
    BY <2>1, AllServed DEF Settled, Serves
  <2>3. Settled' /\ pc'[a] = "done"
    BY <1>1, <1>16, <2>2 DEF RestartsDone, Answer
  <2> QED BY <2>3
<1>17. ASSUME RestoreOpen(a) PROVE (mutex' = None => Settled') /\ Serving(a)'
  BY <1>1, <1>17, <1>0 DEF RestoreOpen
<1>18. ASSUME RestoreSkip(a) PROVE (mutex' = None => Settled') /\ Serving(a)'
  BY <1>1, <1>18 DEF RestoreSkip
<1>19. ASSUME RestoreFill(a) PROVE (mutex' = None => Settled') /\ Serving(a)'
  BY <1>1, <1>19, <1>0 DEF RestoreFill
<1>20. ASSUME RestoreFails(a) PROVE (mutex' = None => Settled') /\ Serving(a)'
  BY <1>1, <1>20 DEF RestoreFails, Answer
<1>21. ASSUME RestoreDoneAfterWrite(a) PROVE (mutex' = None => Settled') /\ Serving(a)'
  <2>1. \A f \in Files : Restored(a, f)
    <3> TAKE f \in Files
    <3>1. PICK i \in 1..Len(BackupOrder) : BackupOrder[i] = f /\ i < k[a]
      BY <1>1, <1>21, EveryFileCopied DEF RestoreDoneAfterWrite
    <3> QED BY <1>21, <3>1 DEF RestoreDoneAfterWrite, Progress
  <2>2. \A u \in Units \cap Files : disk[u] = pre[a][u]
    BY <1>21, <2>1 DEF RestoreDoneAfterWrite, Restored
  <2>3. Settled
    BY <1>21, <2>2 DEF RestoreDoneAfterWrite
  <2>4. Settled' /\ pc'[a] = "done"
    BY <1>1, <1>21, <2>3 DEF RestoreDoneAfterWrite, Answer
  <2> QED BY <2>4
<1>22. ASSUME RestoreDoneAfterRestart(a) PROVE (mutex' = None => Settled') /\ Serving(a)'
  BY <1>1, <1>22 DEF RestoreDoneAfterRestart
<1>23. ASSUME Rerestart(a) PROVE (mutex' = None => Settled') /\ Serving(a)'
  <2>1. /\ pc[a] = "rerestart" /\ pc' = pc /\ k' = [k EXCEPT ![a] = k[a] + 1]
        /\ k[a] <= Len(RestartOrder) /\ mutex' = mutex /\ UNCHANGED <<disk, pre, cause>>
    BY <1>1, <1>23 DEF Rerestart
  <2> PICK u \in Units : u = RestartOrder[k[a]]
    BY <1>1, <2>1
  <2>2. Serves(u)'
    BY <1>1, <1>23 DEF Rerestart
  <2>3. \A v \in Units : Serves(v) => Serves(v)'
    BY <1>1, <1>23 DEF Rerestart
  <2> HIDE DEF Serves
  <2>4. \A i \in 1..Len(RestartOrder) : i < k[a] + 1 => Serves(RestartOrder[i])'
    <3> TAKE i \in 1..Len(RestartOrder)
    <3> HAVE i < k[a] + 1
    <3>1. i < k[a] \/ i = k[a]
      BY <1>1
    <3>2. CASE i < k[a]
      BY <2>1, <2>3, <3>2
    <3>3. CASE i = k[a]
      BY <2>2, <3>3
    <3> QED BY <3>1, <3>2, <3>3
  <2>5. \A i \in 1..Len(RestartOrder) : (i < k[a] => Serves(RestartOrder[i]))'
    BY <1>1, <2>1, <2>4
  <2> QED BY <1>0, <1>1, <2>1, <2>5
<1>24. ASSUME RollbackDone(a) PROVE (mutex' = None => Settled') /\ Serving(a)'
  <2>1. \A i \in 1..Len(RestartOrder) : Serves(RestartOrder[i])
    BY <1>1, <1>24 DEF RollbackDone
  <2>2. Settled
    BY <2>1, AllServed DEF Settled, Serves
  <2>3. Settled' /\ pc'[a] = "done"
    BY <1>1, <1>24, <2>2 DEF RollbackDone, Answer
  <2> QED BY <2>3
<1> QED BY <1>d, <1>e, <1>2, <1>3, <1>4, <1>5, <1>6, <1>7, <1>8, <1>9, <1>10, <1>11, <1>12, <1>13, <1>14,
       <1>15, <1>16, <1>17, <1>18, <1>19, <1>20, <1>21, <1>22, <1>23, <1>24 DEF ApplyStep

LEMMA RunStep ==
    ASSUME Alone, Configured, TInv, MutexHeld, \A a \in Applies : Progress(a), RunInv, [Next]_vars
    PROVE  RunInv'
<1>1. /\ pc \in [Actors -> InFlightLabels \cup {"idle", "done"}]
      /\ Applies \subseteq Actors /\ AbsentUnits \subseteq Units
  BY OrdersAssumption DEF TInv, TypeOK, Actors
<1>2. ASSUME NEW b \in Applies, ~ InFlight(b)'
      PROVE  Serving(b)'
  BY <1>2 DEF Serving, InFlight, InFlightLabels, RestorableLabels
<1>3. ASSUME NEW a \in Applies, ApplyStep(a)
      PROVE  RunInv'
  <2>1. ASSUME NEW b \in Applies, b # a
        PROVE  Serving(b)'
    <3>1. pc[a] \in InFlightLabels /\ pc'[b] = pc[b]
      BY <1>1, <1>3, <2>1, StepShape
    <3>2. ~ InFlight(b)
      BY <2>1, <3>1 DEF MutexHeld, InFlight
    <3>3. ~ InFlight(b)'
      BY <3>1, <3>2 DEF InFlight
    <3> QED BY <1>2, <3>3
  <2>2. HostTrue' /\ (mutex' = None => Settled') /\ Serving(a)'
    BY <1>3, HostStep, ServingStep
  <2> QED BY <2>1, <2>2 DEF RunInv
<1>4. ASSUME UNCHANGED <<stale, disk, running, pre>>
      PROVE  HostTrue' /\ (Settled => Settled')
  BY <1>4 DEF RunInv, HostTrue, Settled, Serves, ConfigOf
<1>5. ASSUME NEW a \in Applies, NEW r \in Requests, Submit(a, r)
      PROVE  RunInv'
  <2>1. HostTrue' /\ Settled' /\ mutex' # None
    BY <1>4, <1>5, DocsAssumption DEF Submit, RunInv
  <2>2. ASSUME NEW b \in Applies PROVE Serving(b)'
    <3>1. CASE b = a
      BY <1>1, <1>5, <2>1, <3>1 DEF Submit, Serving, RestorableLabels
    <3>2. CASE b # a
      <4>1. ~ InFlight(b)'
        BY <1>1, <1>5, <3>2, DocsAssumption DEF Submit, MutexHeld, InFlight
      <4> QED BY <1>2, <4>1
    <3> QED BY <3>1, <3>2
  <2> QED BY <2>1, <2>2 DEF RunInv
<1>6. ASSUME NEW a \in Applies, Refuse(a)
      PROVE  RunInv'
  <2>1. HostTrue' /\ mutex' # None
    BY <1>4, <1>6 DEF Refuse
  <2>2. ASSUME NEW b \in Applies PROVE Serving(b)'
    <3>1. CASE b = a
      BY <1>1, <1>2, <1>6, <3>1 DEF Refuse, InFlight, InFlightLabels
    <3>2. CASE b # a
      BY <1>1, <1>6, <3>2 DEF Refuse, RunInv, Serving, Settled, Serves, ConfigOf, FoundBy
    <3> QED BY <3>1, <3>2
  <2> QED BY <2>1, <2>2 DEF RunInv
<1>7. CASE Crash
  <2>1. \A b \in Applies : ~ InFlight(b)'
    BY <1>1, <1>7 DEF Crash, InFlight, InFlightLabels
  <2>2. HostTrue' /\ Settled'
    BY <1>1, <1>7 DEF Crash, RunInv, HostTrue, Settled, Serves
  <2> QED BY <1>2, <2>1, <2>2 DEF RunInv
<1>8. ASSUME Tick \/ UNCHANGED vars
      PROVE  RunInv'
  BY <1>8 DEF Tick, vars, RunInv, HostTrue, Settled, Serves, ConfigOf, Serving, FoundBy
<1> QED BY <1>3, <1>5, <1>6, <1>7, <1>8 DEF Next, Alone

LEMMA RunInvariant == Alone /\ Configured /\ Spec => []RunInv
<1> DEFINE All == \A a \in Applies : Progress(a)
<1>1. SUFFICES ASSUME Alone, Configured PROVE Spec => []RunInv
  OBVIOUS
<1>2. Init => RunInv
  BY <1>1, OrdersAssumption DEF Configured, Init, RunInv, HostTrue, Settled, Serves, Serving,
     Actors,
                                RestorableLabels, InFlightLabels
<1>3. TInv /\ MutexHeld /\ All /\ RunInv /\ [Next]_vars => RunInv'
  BY <1>1, RunStep
<1>4. Spec => [](TInv /\ MutexHeld /\ All)
  BY <1>1, AllProgress
<1> HIDE DEF All
<1> QED BY <1>2, <1>3, <1>4, PTL DEF Spec

\* Apart from editors and on-demand backups, and with a file and a restart for every unit: when no
\* apply is under way a unit that is up runs the file on disk, but for those that are excused.
THEOREM RunsTheorem == Alone /\ Configured /\ Spec => []QuiescentRunsDisk
<1>1. RunInv => QuiescentRunsDisk
  BY DEF RunInv, Settled, Serves, QuiescentRunsDisk
<1> QED BY <1>1, RunInvariant, PTL

-----------------------------------------------------------------------------
(***************************************************************************)
(* The contract.  What an apply has made of the files so far is known at   *)
(* every point, so that each answer finds the files the contract wants.    *)
(***************************************************************************)

\* What the request of an apply makes of a file it found.
Sought(a, f) ==
    IF f \in SavedFiles /\ req[a][f] # NoDoc /\ pre[a][f] # Blank
    THEN Saved(pre[a][f], req[a][f]) ELSE pre[a][f]
SavedBefore(n, f) == \E i \in 1..Len(SaveOrder) : i < n /\ SaveOrder[i] = f

Saving(a) ==
    /\ pc[a] = "existing" => \A f \in Files : disk[f] = pre[a][f]
    /\ pc[a] \in {"load", "save"} =>
          \A f \in Files : f \in existing[a] <=> pre[a][f] # Blank
    /\ pc[a] = "save" => SaveOrder[k[a]] \in existing[a]
    /\ pc[a] \in {"load", "save"} =>
          \A f \in Files : disk[f] = IF SavedBefore(k[a], f) THEN Sought(a, f) ELSE pre[a][f]
    /\ pc[a] \in {"prometheus", "restart", "verify"} => \A f \in Files : disk[f] = Sought(a, f)
    /\ pc[a] \in {"restore", "copying", "rerestart"} =>
          \A f \in Files : disk[f] \in {pre[a][f], Sought(a, f), Blank, Torn}

\* A file that did not exist is in no backup, and stays out of the one the apply may restore.
FilesKept == \A m \in Minutes, f \in Files : backup[m][f] # NoFile => disk[f] # NoFile
NothingOld(a) ==
    /\ pc[a] \in RestorableLabels =>
          \A f \in Files : pre[a][f] = NoFile => backup[dir[a]][f] = NoFile
    /\ pc[a] = "copying" => backup[dir[a]][BackupOrder[k[a]]] # NoFile

Unanswered(a) == pc[a] = "idle" \/ InFlight(a) => outcome[a] = "none"

ContractInv == FilesKept /\ \A a \in Applies : Saving(a) /\ NothingOld(a) /\ Unanswered(a)

\* Saving a request twice is saving it once.
LEMMA MergeTwice ==
    \A c : \A d \in Docs : Saved(Saved(c, d), d) = Saved(c, d)
<1> SUFFICES ASSUME NEW c, NEW d \in Docs
             PROVE  Saved(Saved(c, d), d) = Saved(c, d)
  OBVIOUS
<1>1. Saved(c, d) \in Docs /\ LoadRaw(c) \in Docs
  BY DocTypes
<1>2. LoadRaw(Saved(c, d)) = Saved(c, d)
  BY <1>1 DEF LoadRaw
<1>3. ASSUME NEW x \in Fields
      PROVE  Saved(Saved(c, d), d)[x] = Saved(c, d)[x]
  <2>1. Saved(Saved(c, d), d)[x] = Cleaned(IF d[x] # Unset THEN d[x] ELSE Saved(c, d)[x])
    BY <1>2 DEF Saved, Clean, Merge
  <2>2. Saved(c, d)[x] = Cleaned(IF d[x] # Unset THEN d[x] ELSE LoadRaw(c)[x])
    BY DEF Saved, Clean, Merge
  <2>3. LoadRaw(c)[x] \in Values \cup {Unset}
    BY <1>1 DEF Docs
  <2>4. Cleaned(Cleaned(LoadRaw(c)[x])) = Cleaned(LoadRaw(c)[x])
    BY <2>3, NormalAssumption DEF Cleaned
  <2> QED BY <2>1, <2>2, <2>4
<1>4. Saved(Saved(c, d), d) = [x \in Fields |-> Saved(Saved(c, d), d)[x]]
      /\ Saved(c, d) = [x \in Fields |-> Saved(c, d)[x]]
  BY DEF Saved, Clean
<1> QED BY <1>3, <1>4

\* A step of an apply removes no file, and backs up what there is.
LEMMA KeptStep ==
    ASSUME TInv, MutexHeld, ContractInv, NEW a \in Applies, Progress(a), ApplyStep(a)
    PROVE  FilesKept'
<1>1. /\ a \in Actors
      /\ pc \in [Actors -> InFlightLabels \cup {"idle", "done"}]
      /\ k \in [Actors -> Nat \ {0}] /\ k[a] \in Nat \ {0}
      /\ dir[a] \in Minutes
      /\ pre \in [Applies -> [Files -> Contents]]
      /\ disk \in [Files -> Contents]
      /\ backup \in [Minutes -> [Files -> Contents]]
      /\ req \in [Applies -> [Files -> Docs \cup {NoDoc}]]
      /\ cause \in [Applies -> {"none", "write", "restart"}]
      /\ running \in [Units -> Contents \cup {Down}]
  BY DEF TInv, TypeOK, Actors
<1> USE DEF ContractInv, FilesKept
<1>d. ASSUME DiffFails(a) PROVE FilesKept'
  BY <1>1, <1>d DEF DiffFails, Answer
<1>e. ASSUME LoadExisting(a) PROVE FilesKept'
  BY <1>1, <1>e DEF LoadExisting, LoadableFiles
<1>2. ASSUME ChooseBackupDir(a) PROVE FilesKept'
  BY <1>1, <1>2 DEF ChooseBackupDir
<1>3. ASSUME BackupFile(a) PROVE FilesKept'
  BY <1>1, <1>3, OrderTypes DEF BackupFile, CopyToBackup
<1>4. ASSUME BackupDone(a) PROVE FilesKept'
  BY <1>1, <1>4 DEF BackupDone
<1>5. ASSUME BackupFails(a) PROVE FilesKept'
  BY <1>1, <1>5 DEF BackupFails, Answer
<1>6. ASSUME SaveRead(a) PROVE FilesKept'
  BY <1>1, <1>6 DEF SaveRead
<1>7. ASSUME SaveSkip(a) PROVE FilesKept'
  BY <1>1, <1>7 DEF SaveSkip
<1>8. ASSUME SaveWrite(a) PROVE FilesKept'
  BY <1>1, <1>8, DocTypes, OrderTypes DEF SaveWrite, TInv, LoopsInBounds, TypeOK
<1>9. ASSUME SaveFails(a) PROVE FilesKept'
  BY <1>1, <1>9 DEF SaveFails
<1>10. ASSUME SavesDone(a) PROVE FilesKept'
  BY <1>1, <1>10 DEF SavesDone
<1>11. ASSUME SyncPrometheus(a) PROVE FilesKept'
  BY <1>1, <1>11 DEF SyncPrometheus
<1>12. ASSUME RestartUnit(a) PROVE FilesKept'
  BY <1>1, <1>12 DEF RestartUnit
<1>13. ASSUME RestartSkipped(a) PROVE FilesKept'
  BY <1>1, <1>13 DEF RestartSkipped
<1>14. ASSUME RestartFails(a) PROVE FilesKept'
  BY <1>1, <1>14 DEF RestartFails
<1>15. ASSUME VerifyUnit(a) PROVE FilesKept'
  BY <1>1, <1>15 DEF VerifyUnit
<1>16. ASSUME RestartsDone(a) PROVE FilesKept'
  BY <1>1, <1>16 DEF RestartsDone, Answer
<1>17. ASSUME RestoreOpen(a) PROVE FilesKept'
  BY <1>1, <1>17, DocsAssumption DEF RestoreOpen
<1>18. ASSUME RestoreSkip(a) PROVE FilesKept'
  BY <1>1, <1>18 DEF RestoreSkip
<1>19. ASSUME RestoreFill(a) PROVE FilesKept'
  BY <1>1, <1>19, OrderTypes DEF RestoreFill, TInv, LoopsInBounds, NothingOld
<1>20. ASSUME RestoreFails(a) PROVE FilesKept'
  BY <1>1, <1>20 DEF RestoreFails, Answer
<1>21. ASSUME RestoreDoneAfterWrite(a) PROVE FilesKept'
  BY <1>1, <1>21 DEF RestoreDoneAfterWrite, Answer
<1>22. ASSUME RestoreDoneAfterRestart(a) PROVE FilesKept'
  BY <1>1, <1>22 DEF RestoreDoneAfterRestart
<1>23. ASSUME Rerestart(a) PROVE FilesKept'
  BY <1>1, <1>23 DEF Rerestart
<1>24. ASSUME RollbackDone(a) PROVE FilesKept'
  BY <1>1, <1>24 DEF RollbackDone, Answer
<1> QED BY <1>d, <1>e, <1>2, <1>3, <1>4, <1>5, <1>6, <1>7, <1>8, <1>9, <1>10, <1>11, <1>12, <1>13, <1>14,
       <1>15, <1>16, <1>17, <1>18, <1>19, <1>20, <1>21, <1>22, <1>23, <1>24 DEF ApplyStep

\* From the end of the backup on, the directory holds no file that was not found.
LEMMA NothingOldStep ==
    ASSUME TInv, MutexHeld, ContractInv, NEW a \in Applies, Progress(a), ApplyStep(a)
    PROVE  NothingOld(a)'
<1>1. /\ a \in Actors
      /\ pc \in [Actors -> InFlightLabels \cup {"idle", "done"}]
      /\ k \in [Actors -> Nat \ {0}] /\ k[a] \in Nat \ {0}
      /\ dir[a] \in Minutes
      /\ pre \in [Applies -> [Files -> Contents]]
      /\ disk \in [Files -> Contents]
      /\ backup \in [Minutes -> [Files -> Contents]]
      /\ req \in [Applies -> [Files -> Docs \cup {NoDoc}]]
      /\ cause \in [Applies -> {"none", "write", "restart"}]
      /\ running \in [Units -> Contents \cup {Down}]
  BY DEF TInv, TypeOK, Actors
<1> USE OrderTypes DEF ContractInv, FilesKept, NothingOld, RestorableLabels, InFlightLabels
<1>d. ASSUME DiffFails(a) PROVE NothingOld(a)'
  BY <1>1, <1>d DEF DiffFails, Answer
<1>e. ASSUME LoadExisting(a) PROVE NothingOld(a)'
  BY <1>1, <1>e DEF LoadExisting, LoadableFiles
<1>2. ASSUME ChooseBackupDir(a) PROVE NothingOld(a)'
  BY <1>1, <1>2 DEF ChooseBackupDir
<1>3. ASSUME BackupFile(a) PROVE NothingOld(a)'
  BY <1>1, <1>3, OrderTypes DEF BackupFile, CopyToBackup
<1>4. ASSUME BackupDone(a) PROVE NothingOld(a)'
  BY <1>1, <1>4 DEF BackupDone, Progress
<1>5. ASSUME BackupFails(a) PROVE NothingOld(a)'
  BY <1>1, <1>5 DEF BackupFails, Answer
<1>6. ASSUME SaveRead(a) PROVE NothingOld(a)'
  BY <1>1, <1>6 DEF SaveRead
<1>7. ASSUME SaveSkip(a) PROVE NothingOld(a)'
  BY <1>1, <1>7 DEF SaveSkip
<1>8. ASSUME SaveWrite(a) PROVE NothingOld(a)'
  BY <1>1, <1>8 DEF SaveWrite
<1>9. ASSUME SaveFails(a) PROVE NothingOld(a)'
  BY <1>1, <1>9 DEF SaveFails
<1>10. ASSUME SavesDone(a) PROVE NothingOld(a)'
  BY <1>1, <1>10 DEF SavesDone
<1>11. ASSUME SyncPrometheus(a) PROVE NothingOld(a)'
  BY <1>1, <1>11 DEF SyncPrometheus
<1>12. ASSUME RestartUnit(a) PROVE NothingOld(a)'
  BY <1>1, <1>12 DEF RestartUnit
<1>13. ASSUME RestartSkipped(a) PROVE NothingOld(a)'
  BY <1>1, <1>13 DEF RestartSkipped
<1>14. ASSUME RestartFails(a) PROVE NothingOld(a)'
  BY <1>1, <1>14 DEF RestartFails
<1>15. ASSUME VerifyUnit(a) PROVE NothingOld(a)'
  BY <1>1, <1>15 DEF VerifyUnit
<1>16. ASSUME RestartsDone(a) PROVE NothingOld(a)'
  BY <1>1, <1>16 DEF RestartsDone, Answer
<1>17. ASSUME RestoreOpen(a) PROVE NothingOld(a)'
  BY <1>1, <1>17 DEF RestoreOpen
<1>18. ASSUME RestoreSkip(a) PROVE NothingOld(a)'
  BY <1>1, <1>18 DEF RestoreSkip
<1>19. ASSUME RestoreFill(a) PROVE NothingOld(a)'
  BY <1>1, <1>19 DEF RestoreFill
<1>20. ASSUME RestoreFails(a) PROVE NothingOld(a)'
  BY <1>1, <1>20 DEF RestoreFails, Answer
<1>21. ASSUME RestoreDoneAfterWrite(a) PROVE NothingOld(a)'
  BY <1>1, <1>21 DEF RestoreDoneAfterWrite, Answer
<1>22. ASSUME RestoreDoneAfterRestart(a) PROVE NothingOld(a)'
  BY <1>1, <1>22 DEF RestoreDoneAfterRestart
<1>23. ASSUME Rerestart(a) PROVE NothingOld(a)'
  BY <1>1, <1>23 DEF Rerestart
<1>24. ASSUME RollbackDone(a) PROVE NothingOld(a)'
  BY <1>1, <1>24 DEF RollbackDone, Answer
<1> QED BY <1>d, <1>e, <1>2, <1>3, <1>4, <1>5, <1>6, <1>7, <1>8, <1>9, <1>10, <1>11, <1>12, <1>13, <1>14,
       <1>15, <1>16, <1>17, <1>18, <1>19, <1>20, <1>21, <1>22, <1>23, <1>24 DEF ApplyStep

\* What is on disk, step by step.
LEMMA SavingStep ==
    ASSUME TInv, MutexHeld, ContractInv, NEW a \in Applies, Progress(a), ApplyStep(a)
    PROVE  Saving(a)'
<1>1. /\ a \in Actors
      /\ pc \in [Actors -> InFlightLabels \cup {"idle", "done"}]
      /\ k \in [Actors -> Nat \ {0}] /\ k[a] \in Nat \ {0}
      /\ dir[a] \in Minutes
      /\ pre \in [Applies -> [Files -> Contents]]
      /\ disk \in [Files -> Contents]
      /\ backup \in [Minutes -> [Files -> Contents]]
      /\ req \in [Applies -> [Files -> Docs \cup {NoDoc}]]
      /\ cause \in [Applies -> {"none", "write", "restart"}]
      /\ running \in [Units -> Contents \cup {Down}]
  BY DEF TInv, TypeOK, Actors
<1> USE OrderTypes DEF ContractInv, Saving, Sought, SavedBefore
<1>d. ASSUME DiffFails(a) PROVE Saving(a)'
  BY <1>1, <1>d DEF DiffFails, Answer
<1>e. ASSUME LoadExisting(a) PROVE Saving(a)'
  <2>1. /\ UNCHANGED <<disk, req, pre>> /\ k'[a] = 1
        /\ existing'[a] = {f \in Files : disk[f] # Blank}
        /\ pc[a] = "existing" /\ pc'[a] \in {"restore", "load"}
    BY <1>1, <1>e DEF LoadExisting, TInv, TypeOK
  <2>2. \A f \in Files : disk[f] = pre[a][f]
    BY <2>1
  <2>3. \A f \in Files : ~ SavedBefore(1, f)
    OBVIOUS
  <2> HIDE DEF Sought, SavedBefore
  <2>4. \A f \in Files : ~ SavedBefore(k[a], f)'
    BY <2>1, <2>3 DEF SavedBefore
  <2> QED BY <2>1, <2>2, <2>4
<1>2. ASSUME ChooseBackupDir(a) PROVE Saving(a)'
  BY <1>1, <1>2 DEF ChooseBackupDir
<1>3. ASSUME BackupFile(a) PROVE Saving(a)'
  BY <1>1, <1>3 DEF BackupFile
<1>4. ASSUME BackupDone(a) PROVE Saving(a)'
  BY <1>1, <1>4 DEF BackupDone, Progress
<1>5. ASSUME BackupFails(a) PROVE Saving(a)'
  BY <1>1, <1>5 DEF BackupFails, Answer
<1>6. ASSUME SaveRead(a) PROVE Saving(a)'
  BY <1>1, <1>6 DEF SaveRead
<1>7. ASSUME SaveSkip(a) PROVE Saving(a)'
  BY <1>1, <1>7 DEF SaveSkip
<1>8. ASSUME SaveWrite(a) PROVE Saving(a)'
  <2> DEFINE g == SaveOrder[k[a]]
  <2>1. /\ pc[a] = "save" /\ pc'[a] = "load" /\ k'[a] = k[a] + 1
        /\ disk' = [disk EXCEPT ![g] = Saved(base[a], req[a][g])]
        /\ UNCHANGED <<req, pre, existing>>
    BY <1>1, <1>8 DEF SaveWrite
  <2>2. k[a] \in 1..Len(SaveOrder) /\ req[a][g] # NoDoc
    BY <1>1, <2>1 DEF TInv, LoopsInBounds
  <2>3. g \in Files /\ g \in SavedFiles /\ req[a][g] \in Docs
    BY <1>1, <2>2 DEF SavedFiles
  <2>4. Saved(base[a], req[a][g]) = Sought(a, g)
    <3>1. base[a] = disk[g] /\ disk[g] \in {pre[a][g], Sought(a, g)}
      BY <2>1, <2>3 DEF Progress
    <3>2. Sought(a, g) = Saved(pre[a][g], req[a][g])
      BY <2>1, <2>2, <2>3
    <3> HIDE DEF g, Sought
    <3> QED BY <2>3, <3>1, <3>2, MergeTwice
  <2>5. \A f \in Files : SavedBefore(k[a] + 1, f) <=> SavedBefore(k[a], f) \/ f = g
    BY <1>1, <2>2
  <2>6. \A f \in Files : Sought(a, f)' = Sought(a, f) /\ pre'[a][f] = pre[a][f]
    BY <2>1
  <2>7. \A f \in Files : disk[f] = IF SavedBefore(k[a], f) THEN Sought(a, f) ELSE pre[a][f]
    BY <2>1
  <2> HIDE DEF g, Sought, SavedBefore
  <2>8. \A f \in Files :
          disk'[f] = IF SavedBefore(k[a] + 1, f) THEN Sought(a, f) ELSE pre[a][f]
    BY <1>1, <2>1, <2>3, <2>4, <2>5, <2>7
  <2>9. \A f \in Files :
          disk'[f] = IF SavedBefore(k'[a], f) THEN Sought(a, f)' ELSE pre'[a][f]
    BY <2>1, <2>6, <2>8
  <2>10. \A f \in Files : f \in existing'[a] <=> pre'[a][f] # Blank
    BY <2>1
  <2> QED BY <2>1, <2>9, <2>10
<1>9. ASSUME SaveFails(a) PROVE Saving(a)'
  BY <1>1, <1>9 DEF SaveFails
<1>10. ASSUME SavesDone(a) PROVE Saving(a)'
  <2>1. /\ pc[a] = "load" /\ pc'[a] = "prometheus" /\ k[a] > Len(SaveOrder)
        /\ UNCHANGED <<req, pre, disk>>
    BY <1>1, <1>10 DEF SavesDone
  <2>2. \A f \in Files : f \in SavedFiles => SavedBefore(k[a], f)
    BY <1>1, <2>1 DEF SavedFiles
  <2>3. \A f \in Files : disk[f] = Sought(a, f)
    BY <2>1, <2>2
  <2> QED BY <2>1, <2>3
<1>11. ASSUME SyncPrometheus(a) PROVE Saving(a)'
  BY <1>1, <1>11 DEF SyncPrometheus
<1>12. ASSUME RestartUnit(a) PROVE Saving(a)'
  BY <1>1, <1>12 DEF RestartUnit
<1>13. ASSUME RestartSkipped(a) PROVE Saving(a)'
  BY <1>1, <1>13 DEF RestartSkipped
<1>14. ASSUME RestartFails(a) PROVE Saving(a)'
  BY <1>1, <1>14 DEF RestartFails
<1>15. ASSUME VerifyUnit(a) PROVE Saving(a)'
  BY <1>1, <1>15 DEF VerifyUnit
<1>16. ASSUME RestartsDone(a) PROVE Saving(a)'
  BY <1>1, <1>16 DEF RestartsDone, Answer
<1>17. ASSUME RestoreOpen(a) PROVE Saving(a)'
  BY <1>1, <1>17 DEF RestoreOpen
<1>18. ASSUME RestoreSkip(a) PROVE Saving(a)'
  BY <1>1, <1>18 DEF RestoreSkip
<1>19. ASSUME RestoreFill(a) PROVE Saving(a)'
  <2> DEFINE g == BackupOrder[k[a]]
  <2>1. /\ pc[a] = "copying" /\ pc'[a] = "restore" /\ UNCHANGED <<req, pre>>
        /\ disk' = [disk EXCEPT ![g] = backup[dir[a]][g]]
    BY <1>1, <1>19 DEF RestoreFill
  <2>2. g \in Files
    BY <1>1, <2>1 DEF TInv, LoopsInBounds
  <2>3. backup[dir[a]][g] = pre[a][g]
    BY <2>1, <2>2 DEF Progress, BackedUp, NothingOld, RestorableLabels, InFlightLabels
  <2> HIDE DEF g
  <2>4. \A f \in Files : disk'[f] \in {pre[a][f], Sought(a, f), Blank, Torn}
    BY <1>1, <2>1, <2>2, <2>3
  <2> QED BY <2>1, <2>4
<1>20. ASSUME RestoreFails(a) PROVE Saving(a)'
  BY <1>1, <1>20 DEF RestoreFails, Answer
<1>21. ASSUME RestoreDoneAfterWrite(a) PROVE Saving(a)'
  BY <1>1, <1>21 DEF RestoreDoneAfterWrite, Answer
<1>22. ASSUME RestoreDoneAfterRestart(a) PROVE Saving(a)'
  BY <1>1, <1>22 DEF RestoreDoneAfterRestart
<1>23. ASSUME Rerestart(a) PROVE Saving(a)'
  BY <1>1, <1>23 DEF Rerestart
<1>24. ASSUME RollbackDone(a) PROVE Saving(a)'
  BY <1>1, <1>24 DEF RollbackDone, Answer
<1> QED BY <1>d, <1>e, <1>2, <1>3, <1>4, <1>5, <1>6, <1>7, <1>8, <1>9, <1>10, <1>11, <1>12, <1>13, <1>14,
       <1>15, <1>16, <1>17, <1>18, <1>19, <1>20, <1>21, <1>22, <1>23, <1>24 DEF ApplyStep

\* An apply answers when it ends, and not before.
LEMMA UnansweredStep ==
    ASSUME TInv, ContractInv, NEW a \in Applies, ApplyStep(a), NEW b \in Applies
    PROVE  Unanswered(b)'
<1>1. /\ pc \in [Actors -> InFlightLabels \cup {"idle", "done"}] /\ Applies \subseteq Actors
      /\ outcome \in [Applies -> {"none", "busy", "applied", "rolledback", "error", "lost"}]
  BY DEF TInv, TypeOK, Actors
<1>2. pc[a] \in InFlightLabels /\ outcome[a] = "none"
  BY StepShape DEF ContractInv, Unanswered, InFlight
<1>3. CASE b # a
  <2>1. pc'[b] = pc[b]
    BY <1>1, <1>3, StepShape
  <2>2. outcome'[b] = outcome[b]
    BY <1>1, <1>3, OutcomeShape DEF RestoreDoneAfterWrite, RollbackDone, Answer
  <2> QED BY <2>1, <2>2 DEF ContractInv, Unanswered, InFlight
<1>4. CASE b = a /\ pc'[a] # "done"
  <2>1. outcome' = outcome
    BY <1>1, <1>4 DEF ApplyStep, DiffFails, LoadExisting, ChooseBackupDir, BackupFile, BackupDone, BackupFails, SaveRead,
          SaveSkip, SaveWrite, SaveFails, SavesDone, SyncPrometheus, RestartUnit, RestartSkipped,
          RestartFails, VerifyUnit, RestartsDone, RestoreOpen, RestoreSkip, RestoreFill,
          RestoreFails, RestoreDoneAfterWrite, RestoreDoneAfterRestart, Rerestart, RollbackDone,
          Answer
  <2> QED BY <1>2, <1>4, <2>1 DEF Unanswered
<1>5. CASE b = a /\ pc'[a] = "done"
  BY <1>5 DEF Unanswered, InFlight, InFlightLabels
<1> QED BY <1>3, <1>4, <1>5

LEMMA ContractStep ==
    ASSUME Alone, TInv, MutexHeld, \A a \in Applies : Progress(a), ContractInv, [Next]_vars
    PROVE  ContractInv'
<1>1. /\ pc \in [Actors -> InFlightLabels \cup {"idle", "done"}] /\ Applies \subseteq Actors
      /\ outcome \in [Applies -> {"none", "busy", "applied", "rolledback", "error", "lost"}]
  BY DEF TInv, TypeOK, Actors
<1>2. ASSUME NEW b \in Applies, ~ InFlight(b)'
      PROVE  Saving(b)' /\ NothingOld(b)'
  BY <1>2 DEF Saving, NothingOld, InFlight, InFlightLabels, RestorableLabels
<1>3. ASSUME NEW a \in Applies, ApplyStep(a)
      PROVE  ContractInv'
  <2>1. ASSUME NEW b \in Applies, b # a
        PROVE  Saving(b)' /\ NothingOld(b)'
    <3>1. pc[a] \in InFlightLabels /\ pc'[b] = pc[b]
      BY <1>1, <1>3, <2>1, StepShape
    <3>2. ~ InFlight(b)
      BY <2>1, <3>1 DEF MutexHeld, InFlight
    <3>3. ~ InFlight(b)'
      BY <3>1, <3>2 DEF InFlight
    <3> QED BY <1>2, <3>3
  <2>2. FilesKept' /\ Saving(a)' /\ NothingOld(a)'
    BY <1>3, KeptStep, SavingStep, NothingOldStep
  <2>3. \A b \in Applies : Unanswered(b)'
    BY <1>3, UnansweredStep
  <2> QED BY <2>1, <2>2, <2>3 DEF ContractInv
<1>4. ASSUME UNCHANGED <<backup, disk>> PROVE FilesKept'
  BY <1>4 DEF ContractInv, FilesKept
<1>5. ASSUME NEW a \in Applies, NEW r \in Requests, Submit(a, r)
      PROVE  ContractInv'
  <2>1. ASSUME NEW b \in Applies PROVE Saving(b)' /\ NothingOld(b)'
    <3>1. CASE b = a
      BY <1>1, <1>5, <3>1 DEF Submit, Saving, NothingOld, RestorableLabels
    <3>2. CASE b # a
      <4>1. ~ InFlight(b)'
        BY <1>1, <1>5, <3>2, DocsAssumption DEF Submit, MutexHeld, InFlight
      <4> QED BY <1>2, <4>1
    <3> QED BY <3>1, <3>2
  <2>2. \A b \in Applies : Unanswered(b)'
    BY <1>1, <1>5 DEF Submit, ContractInv, Unanswered, InFlight
  <2> QED BY <1>4, <1>5, <2>1, <2>2 DEF ContractInv, Submit
<1>6. ASSUME NEW a \in Applies, Refuse(a)
      PROVE  ContractInv'
  <2>1. ASSUME NEW b \in Applies PROVE Saving(b)' /\ NothingOld(b)' /\ Unanswered(b)'
    <3>1. CASE b = a
      <4>1. pc'[b] = "done"
        BY <1>1, <1>6, <3>1 DEF Refuse
      <4>2. ~ InFlight(b)'
        BY <4>1 DEF InFlight, InFlightLabels
      <4> QED BY <1>2, <4>1, <4>2 DEF Unanswered
    <3>2. CASE b # a
      BY <1>1, <1>6, <3>2
         DEF Refuse, ContractInv, Saving, Sought, NothingOld, Unanswered, InFlight
    <3> QED BY <3>1, <3>2
  <2> QED BY <1>4, <1>6, <2>1 DEF ContractInv, Refuse
<1>7. CASE Crash
  <2>1. \A b \in Applies : ~ InFlight(b)'
    BY <1>1, <1>7 DEF Crash, InFlight, InFlightLabels
  <2>2. \A b \in Applies : Unanswered(b)'
    <3> TAKE b \in Applies
    <3> SUFFICES ASSUME pc[b] = "idle" PROVE outcome'[b] = "none"
      BY <1>1, <1>7, <2>1 DEF Crash, Unanswered
    <3> QED BY <1>7 DEF Crash, ContractInv, Unanswered, InFlightLabels
  <2> QED BY <1>2, <1>4, <1>7, <2>1, <2>2 DEF ContractInv, Crash
<1>8. ASSUME Tick \/ UNCHANGED vars
      PROVE  ContractInv'
  BY <1>8 DEF Tick, vars, ContractInv, FilesKept, Saving, Sought, NothingOld, Unanswered, InFlight
<1> QED BY <1>3, <1>5, <1>6, <1>7, <1>8 DEF Next, Alone

LEMMA ContractInvariant ==
    Alone /\ Spec => [](TInv /\ MutexHeld /\ (\A a \in Applies : Progress(a)) /\ ContractInv)
<1> DEFINE All == \A a \in Applies : Progress(a)
<1>1. SUFFICES ASSUME Alone PROVE Spec => [](TInv /\ MutexHeld /\ All /\ ContractInv)
  OBVIOUS
<1>2. Init => ContractInv
  BY DEF Init, ContractInv, FilesKept, Saving, NothingOld, Unanswered, Actors, RestorableLabels,
         InFlightLabels
<1>3. TInv /\ MutexHeld /\ All /\ ContractInv /\ [Next]_vars => ContractInv'
  BY <1>1, ContractStep
<1>4. Spec => [](TInv /\ MutexHeld /\ All)
  BY <1>1, AllProgress
<1> HIDE DEF All
<1> QED BY <1>2, <1>3, <1>4, PTL DEF Spec

\* The configuration in effect, as ImplementsContract reads it off the state.
InEffect == IF mutex # None /\ pc[mutex] # "diff" THEN pre[mutex] ELSE disk

\* What the request of an apply would make of a file in effect.
Wanted(a, f) ==
    IF f \in SavedFiles /\ req[a][f] # NoDoc /\ InEffect[f] # Blank
    THEN Saved(InEffect[f], req[a][f]) ELSE InEffect[f]

\* The contract, in the words of the workflow.
LEMMA ContractWords ==
    ASSUME TInv, NEW a \in Applies, outcome[a] = "none", UNCHANGED req,
           InEffect' \in [Files -> Contents], NEW o, outcome' = [outcome EXCEPT ![a] = o],
           \/ o \in {"busy", "error"} /\ InEffect' = InEffect
           \/ /\ o = "applied"
              /\ InEffect' = [f \in Files |-> Wanted(a, f)]
           \/ /\ o = "rolledback"
              /\ \A f \in Files : InEffect[f] # NoFile => InEffect'[f] = InEffect[f]
           \/ /\ o \in {"error", "lost"}
              /\ \A f \in Files : InEffect'[f] \in {InEffect[f], Wanted(a, f), Blank, Torn}
    PROVE  Contract!Next
<1> USE DEF InEffect, Wanted, Contract!Settle, Contract!Requested, Contract!Saved, Saved,
            Contract!Clean, Clean, Contract!Cleaned, Cleaned, Contract!Merge, Merge, Contract!LoadRaw,
            LoadRaw, Contract!Contents, Contents, Contract!Docs, Docs, Contract!Empty, Empty
<1>1. CASE o \in {"busy", "error"} /\ InEffect' = InEffect
  <2>1. Contract!Refused(a)
    BY <1>1 DEF Contract!Refused
  <2> QED BY <2>1 DEF Contract!Next
<1>2. CASE /\ o = "applied"
           /\ InEffect' = [f \in Files |-> Wanted(a, f)]
  <2>1. Contract!Applied(a)
    BY <1>2 DEF Contract!Applied
  <2> QED BY <2>1 DEF Contract!Next
<1>3. CASE /\ o = "rolledback"
           /\ \A f \in Files : InEffect[f] # NoFile => InEffect'[f] = InEffect[f]
  <2>1. Contract!RolledBack(a)
    BY <1>3 DEF Contract!RolledBack
  <2> QED BY <2>1 DEF Contract!Next
<1>4. CASE /\ o \in {"error", "lost"}
           /\ \A f \in Files : InEffect'[f] \in {InEffect[f], Wanted(a, f), Blank, Torn}
  <2>1. Contract!Broken(a)
    BY <1>4 DEF Contract!Broken
  <2> QED BY <2>1 DEF Contract!Next
<1> QED BY <1>1, <1>2, <1>3, <1>4

\* A step of an apply that does not end it leaves what is in effect alone.
LEMMA QuietStep ==
    ASSUME TInv, MutexHeld, ContractInv, NEW a \in Applies, ApplyStep(a), pc'[a] # "done"
    PROVE  UNCHANGED <<InEffect, req, outcome>>
<1>1. /\ pc \in [Actors -> InFlightLabels \cup {"idle", "done"}] /\ a \in Actors
      /\ pre \in [Applies -> [Files -> Contents]]
  BY DEF TInv, TypeOK, Actors
<1>2. mutex = a /\ a # None /\ mutex' = a
  BY <1>1, StepShape, DocsAssumption DEF MutexHeld, InFlight
<1>3. UNCHANGED <<req, outcome>>
  BY <1>1 DEF ApplyStep, DiffFails, LoadExisting, ChooseBackupDir, BackupFile, BackupDone, BackupFails, SaveRead,
        SaveSkip, SaveWrite, SaveFails, SavesDone, SyncPrometheus, RestartUnit, RestartSkipped,
        RestartFails, VerifyUnit, RestartsDone, RestoreOpen, RestoreSkip, RestoreFill,
        RestoreFails, RestoreDoneAfterWrite, RestoreDoneAfterRestart, Rerestart, RollbackDone,
        Answer
<1>4. CASE ChooseBackupDir(a)
  BY <1>1, <1>2, <1>3, <1>4 DEF ChooseBackupDir, InEffect
<1>5. CASE ~ ChooseBackupDir(a)
  <2>1. pc[a] # "diff" /\ pc'[a] # "diff" /\ pre' = pre
    BY <1>1, <1>5 DEF ApplyStep, DiffFails, LoadExisting, BackupFile, BackupDone, BackupFails, SaveRead,
          SaveSkip, SaveWrite, SaveFails, SavesDone, SyncPrometheus, RestartUnit, RestartSkipped,
          RestartFails, VerifyUnit, RestartsDone, RestoreOpen, RestoreSkip, RestoreFill,
          RestoreFails, RestoreDoneAfterWrite, RestoreDoneAfterRestart, Rerestart, RollbackDone,
          Answer
  <2> QED BY <1>2, <1>3, <2>1 DEF InEffect
<1> QED BY <1>4, <1>5

\* The end of an apply, whichever it is, is what the contract allows.
LEMMA EndStep ==
    ASSUME TInv, MutexHeld, \A a \in Applies : Progress(a), ContractInv, [Next]_vars,
           NEW a \in Applies, ApplyStep(a), pc'[a] = "done"
    PROVE  Contract!Next
<1>1. /\ pc \in [Actors -> InFlightLabels \cup {"idle", "done"}] /\ a \in Actors
      /\ outcome \in [Applies -> {"none", "busy", "applied", "rolledback", "error", "lost"}]
      /\ pre \in [Applies -> [Files -> Contents]]
      /\ disk \in [Files -> Contents]
  BY DEF TInv, TypeOK, Actors
<1>2. mutex = a /\ a # None /\ mutex' = None
  BY <1>1, StepShape, DocsAssumption DEF MutexHeld, InFlight, InFlightLabels
<1>3. outcome[a] = "none"
  BY StepShape DEF ContractInv, Unanswered, InFlight
<1>4. /\ UNCHANGED <<disk, pre, req>>
      /\ DiffFails(a) \/ BackupFails(a) \/ RestartsDone(a) \/ RestoreFails(a) \/ RestoreDoneAfterWrite(a)
         \/ RollbackDone(a)
  BY <1>1 DEF ApplyStep, DiffFails, LoadExisting, ChooseBackupDir, BackupFile, BackupDone, BackupFails, SaveRead,
        SaveSkip, SaveWrite, SaveFails, SavesDone, SyncPrometheus, RestartUnit, RestartSkipped,
        RestartFails, VerifyUnit, RestartsDone, RestoreOpen, RestoreSkip, RestoreFill,
        RestoreFails, RestoreDoneAfterWrite, RestoreDoneAfterRestart, Rerestart, RollbackDone,
        Answer
<1>5. InEffect' = disk /\ disk \in [Files -> Contents]
  BY <1>1, <1>2, <1>4 DEF InEffect
<1>6. CASE DiffFails(a)
  <2>1. outcome' = [outcome EXCEPT ![a] = "error"] /\ pc[a] = "diff"
    BY <1>6 DEF DiffFails, Answer
  <2>2. InEffect = disk
    BY <1>2, <2>1 DEF InEffect
  <2> QED BY <1>3, <1>4, <1>5, <2>1, <2>2, ContractWords
<1>d. ASSUME ~ DiffFails(a)
      PROVE  InEffect = pre[a] /\ \A f \in Files : Wanted(a, f) = Sought(a, f)
  <2>1. pc[a] # "diff"
    BY <1>4, <1>d DEF BackupFails, RestartsDone, RestoreFails, RestoreDoneAfterWrite, RollbackDone
  <2>2. InEffect = pre[a]
    BY <1>2, <2>1 DEF InEffect
  <2> QED BY <2>2 DEF Wanted, Sought
<1>7. CASE BackupFails(a) /\ ~ DiffFails(a)
  <2>1. outcome' = [outcome EXCEPT ![a] = "error"] /\ disk = pre[a]
    BY <1>7 DEF BackupFails, Answer, Progress
  <2> QED BY <1>3, <1>4, <1>5, <1>7, <1>d, <2>1, ContractWords
<1>8. CASE RestartsDone(a) /\ ~ DiffFails(a)
  <2>1. outcome' = [outcome EXCEPT ![a] = "applied"]
    BY <1>8 DEF RestartsDone, Answer
  <2>2. \A f \in Files : disk[f] = Wanted(a, f)
    BY <1>8, <1>d DEF RestartsDone, ContractInv, Saving
  <2>3. InEffect' = [f \in Files |-> Wanted(a, f)]
    BY <1>5, <2>2
  <2> QED BY <1>3, <1>4, <1>5, <2>1, <2>3, ContractWords
<1>9. CASE RestoreFails(a) /\ ~ DiffFails(a)
  <2>1. outcome' = [outcome EXCEPT ![a] = "error"]
    BY <1>9 DEF RestoreFails, Answer
  <2>2. \A f \in Files : InEffect'[f] \in {InEffect[f], Wanted(a, f), Blank, Torn}
    BY <1>5, <1>9, <1>d DEF RestoreFails, ContractInv, Saving
  <2> QED BY <1>3, <1>4, <1>5, <2>1, <2>2, ContractWords
<1>10. CASE (RestoreDoneAfterWrite(a) \/ RollbackDone(a)) /\ ~ DiffFails(a)
  <2>1. outcome' = [outcome EXCEPT ![a] = "rolledback"]
    BY <1>10 DEF RestoreDoneAfterWrite, RollbackDone, Answer
  <2>2. \A f \in Files : pre[a][f] # NoFile => disk'[f] = pre[a][f]
    BY <1>1, <1>3, <2>1, RollbackStepHolds DEF RollbackStep
  <2>3. \A f \in Files : InEffect[f] # NoFile => InEffect'[f] = InEffect[f]
    BY <1>4, <1>5, <1>10, <1>d, <2>2
  <2> QED BY <1>3, <1>4, <1>5, <2>1, <2>3, ContractWords
<1> QED BY <1>4, <1>6, <1>7, <1>8, <1>9, <1>10

LEMMA RefinementStep ==
    ASSUME Alone, TInv, MutexHeld, \A a \in Applies : Progress(a), ContractInv, [Next]_vars
    PROVE  Contract!Next \/ UNCHANGED <<InEffect, req, outcome>>
<1>1. /\ pc \in [Actors -> InFlightLabels \cup {"idle", "done"}] /\ Applies \subseteq Actors
      /\ outcome \in [Applies -> {"none", "busy", "applied", "rolledback", "error", "lost"}]
      /\ pre \in [Applies -> [Files -> Contents]]
      /\ disk \in [Files -> Contents]
      /\ mutex \in Applies \cup {None}
  BY DEF TInv, TypeOK, Actors
<1>2. CASE \E a \in Applies : ApplyStep(a)
  BY <1>2, QuietStep, EndStep
<1>3. ASSUME NEW a \in Applies, NEW r \in Requests, Submit(a, r)
      PROVE  Contract!Next
  <2>1. outcome[a] = "none" /\ UNCHANGED outcome /\ req' = [req EXCEPT ![a] = r]
    BY <1>3 DEF Submit, ContractInv, Unanswered
  <2>2. InEffect' = InEffect
    BY <1>1, <1>3 DEF Submit, InEffect
  <2>3. Contract!Ask(a, r)
    BY <2>1, <2>2 DEF Contract!Ask, InEffect
  <2> QED BY <2>3 DEF Contract!Next
<1>4. ASSUME NEW a \in Applies, Refuse(a)
      PROVE  Contract!Next
  <2>1. outcome[a] = "none" /\ outcome' = [outcome EXCEPT ![a] = "busy"] /\ UNCHANGED req
    BY <1>4 DEF Refuse, ContractInv, Unanswered
  <2>2. mutex # a
    BY <1>4 DEF Refuse, MutexHeld, InFlight, InFlightLabels
  <2>3. InEffect' = InEffect
    BY <1>1, <1>4, <2>2 DEF Refuse, InEffect
  <2>4. Contract!Refused(a)
    BY <2>1, <2>3 DEF Contract!Refused, Contract!Settle, InEffect
  <2> QED BY <2>4 DEF Contract!Next
<1>5. CASE Crash
  <2>1. PICK p \in Actors : pc[p] \notin {"idle", "done"}
    BY <1>5 DEF Crash
  <2>2. p \in Applies /\ pc[p] \in InFlightLabels
    BY <1>1, <2>1 DEF Actors, Alone
  <2>3. mutex = p /\ p # None /\ mutex' = None
    BY <1>5, <2>2, DocsAssumption DEF Crash, MutexHeld, InFlight
  <2>4. \A b \in Applies : b # p => pc[b] \notin InFlightLabels
    BY <2>3 DEF MutexHeld, InFlight
  <2>5. outcome' = [outcome EXCEPT ![p] = "lost"]
    BY <1>1, <1>5, <2>2, <2>4 DEF Crash
  <2>6. outcome[p] = "none" /\ UNCHANGED <<req, disk, pre>>
    BY <1>5, <2>2 DEF Crash, ContractInv, Unanswered, InFlight
  <2>7. InEffect' = disk /\ InEffect' \in [Files -> Contents]
    BY <1>1, <2>3, <2>6 DEF InEffect
  <2>8. CASE pc[p] = "diff"
    <3>1. InEffect = disk
      BY <2>3, <2>8 DEF InEffect
    <3>2. \A f \in Files : InEffect'[f] \in {InEffect[f], Wanted(p, f), Blank, Torn}
      BY <2>7, <3>1
    <3> QED BY <2>2, <2>5, <2>6, <2>7, <3>2, ContractWords
  <2>9. CASE pc[p] # "diff"
    <3>1. InEffect = pre[p]
      BY <2>3, <2>9 DEF InEffect
    <3>2. \A f \in Files : Wanted(p, f) = Sought(p, f)
      BY <3>1 DEF Wanted, Sought
    <3>3. \A f \in Files : disk[f] \in {pre[p][f], Sought(p, f), Blank, Torn}
      <4>1. CASE pc[p] = "backup"
        BY <2>2, <4>1 DEF Progress
      <4>2. CASE pc[p] # "backup"
        BY <2>2, <2>9, <4>2 DEF ContractInv, Saving, InFlightLabels
      <4> QED BY <4>1, <4>2
    <3>4. \A f \in Files : InEffect'[f] \in {InEffect[f], Wanted(p, f), Blank, Torn}
      BY <2>7, <3>1, <3>2, <3>3
    <3> QED BY <2>2, <2>5, <2>6, <2>7, <3>4, ContractWords
  <2> QED BY <2>8, <2>9
<1>6. CASE Tick \/ UNCHANGED vars
  BY <1>6 DEF Tick, vars, InEffect
<1> QED BY <1>2, <1>3, <1>4, <1>5, <1>6 DEF Next, Alone

\* Apart from editors and on-demand backups the workflow implements its contract: the files in
\* effect go from one complete configuration to the next, and the answer says to which.
THEOREM ContractTheorem == Alone /\ Spec => ImplementsContract
<1> DEFINE All == \A a \in Applies : Progress(a)
<1>1. SUFFICES ASSUME Alone PROVE Spec => ImplementsContract
  OBVIOUS
<1>2. Init => Contract!Init
  <2> SUFFICES ASSUME Init PROVE Contract!Init
    OBVIOUS
  <2>1. disk \in [Files -> Contents]
    BY DocsAssumption DEF Init, Contents
  <2> QED BY <2>1 DEF Init, Contract!Init, Contract!Contents, Contents, Contract!Docs, Docs
<1>3. TInv /\ MutexHeld /\ All /\ ContractInv /\ [Next]_vars => [Contract!Next]_(Contract!vars)
  BY <1>1, RefinementStep DEF Contract!vars, InEffect
<1>4. Spec => [](TInv /\ MutexHeld /\ All /\ ContractInv)
  BY <1>1, ContractInvariant
<1> HIDE DEF All
<1> QED BY <1>2, <1>3, <1>4, PTL DEF Spec, ImplementsContract, Contract!Spec
=============================================================================
