-------------------------- MODULE CallDebug_proofs --------------------------
(***************************************************************************)
(* Proofs about CallDebug: type correctness, that one session at most is   *)
(* under way, and that the filter, the tracing and the capture of a        *)
(* session go with it, for any number of handlers, sessions, requests and  *)
(* failures.                                                               *)
(***************************************************************************)
EXTENDS CallDebug, FiniteSetTheorems, WellFoundedInduction, TLAPS

SwitchLabels == {"include", "rpc", "persist"}
StarterLabels == SwitchLabels \cup
    {"idle", "read", "claim", "scope", "launch", "confirm", "record", "unwind", "fail"}
FinisherLabels == SwitchLabels \cup
    {"idle", "find", "clear", "mark", "halt", "restore", "close"}
OperatorLabels == SwitchLabels \cup {"idle"}

(* Where a handler can be, and where it goes on after the switch.          *)
StartersProper ==
    \A p \in Starters :
        /\ pc[p] \in StarterLabels
        /\ pc[p] \in SwitchLabels => \/ back[p] \in {"scope", "unwind"} /\ goal[p]
                                     \/ back[p] = "fail" /\ ~ goal[p]
        /\ pc[p] = "include" => goal[p]

FinishersProper ==
    \A p \in Finishers :
        /\ pc[p] \in FinisherLabels
        /\ sess[p] = NoSession <=> pc[p] \in {"idle", "find"}
        /\ pc[p] \in SwitchLabels => back[p] = "close" /\ ~ goal[p]
        /\ pc[p] = "include" => goal[p]

OperatorsProper ==
    \A p \in Operators :
        /\ pc[p] \in OperatorLabels
        /\ sess[p] = NoSession
        /\ pc[p] \in SwitchLabels => back[p] = "idle"
        /\ pc[p] = "include" => goal[p]

HandlersProper == StartersProper /\ FinishersProper /\ OperatorsProper

(* The type invariant, by the parts of the state.                          *)
StoreTyped ==
    /\ row \in [Ids -> [status : Statuses, was : BOOLEAN, pcap : BOOLEAN]]
    /\ filter \in Ids \cup {NoSession}
    /\ unit \subseteq Ids
    /\ manifest \in [Ids -> {"none", "running", "stopping", "stopped"}]

LocalsTyped ==
    /\ pc \in [Procs -> Labels]
    /\ sess \in [Procs -> Ids \cup {NoSession}]
    /\ was \in [Procs -> BOOLEAN] /\ cap \in [Procs -> BOOLEAN]
    /\ goal \in [Procs -> BOOLEAN]
    /\ back \in [Procs -> {"idle", "scope", "unwind", "fail", "close"}]

Mishaps == {"overlap", "tracing", "row"}

CountsTyped == ops \in 0..MaxOps /\ troubles \in 0..MaxTroubles /\ mishaps \subseteq Mishaps

AdriftTyped == adrift \subseteq Ids

FlagsTyped ==
    flag \in BOOLEAN /\ include \in BOOLEAN /\ live \in BOOLEAN /\ wanted \in BOOLEAN

StartersAtWork ==
    \A p \in Starters : sess[p] = NoSession <=> pc[p] \in {"idle", "read", "claim"}

TypeInv ==
    /\ StoreTyped /\ LocalsTyped /\ CountsTyped /\ AdriftTyped /\ FlagsTyped
    /\ StartersAtWork /\ HandlersProper

(***************************************************************************)
(* Type correctness.                                                       *)
(***************************************************************************)

\* No handler plays two parts.
LEMMA PartsDiffer ==
    /\ Starters \cap Finishers = {} /\ Starters \cap Operators = {}
    /\ Finishers \cap Operators = {}
    /\ Procs = Starters \cup Finishers \cup Operators
BY CallDebugAssumption DEF Procs, Finishers

\* The session a claim inserts is the first that is unused.
LEMMA NextUnused ==
    ASSUME Unused # {}
    PROVE  NextId \in Unused /\ NextId \in Ids
<1>1. Unused \subseteq Nat /\ Unused \subseteq Ids
  BY CallDebugAssumption DEF Unused, Ids
<1>2. PICK i \in Unused : \A j \in Unused : <<j, i>> \notin OpToRel(<, Nat)
  BY <1>1, NatLessThanWellFounded, WFMin
<1>3. \A j \in Unused : i <= j
  <2> TAKE j \in Unused
  <2>1. j \in Nat /\ i \in Nat
    BY <1>1
  <2>2. ~ (j < i)
    BY <1>2, <2>1 DEF OpToRel
  <2> QED BY <2>1, <2>2
<1>4. \E k \in Unused : \A j \in Unused : k <= j
  BY <1>3
<1> QED BY <1>1, <1>4 DEF NextId

LEMMA TypeInit == Init => TypeInv
<1> SUFFICES ASSUME Init PROVE TypeInv
  OBVIOUS
<1> USE PartsDiffer, CallDebugAssumption DEF Init
<1>1. StoreTyped
  BY DEF StoreTyped, Statuses, NoSession
<1>2. LocalsTyped
  BY DEF LocalsTyped, Labels, NoSession
<1>3. CountsTyped
  BY DEF CountsTyped, Mishaps
<1>4. FlagsTyped
  BY DEF FlagsTyped
<1>5. StartersAtWork
  BY DEF StartersAtWork, NoSession
<1>6. HandlersProper
  BY DEF HandlersProper, StartersProper, FinishersProper, OperatorsProper, StarterLabels,
         FinisherLabels, OperatorLabels, SwitchLabels, NoSession
<1>7. AdriftTyped
  BY DEF AdriftTyped
<1> QED BY <1>1, <1>2, <1>3, <1>4, <1>5, <1>6, <1>7 DEF TypeInv

LEMMA PcapTyped ==
    \A r \in [status : Statuses, was : BOOLEAN, pcap : BOOLEAN] :
        [r EXCEPT !.pcap = TRUE] \in [status : Statuses, was : BOOLEAN, pcap : BOOLEAN]
OBVIOUS

LEMMA UpdateTyped ==
    ASSUME row \in [Ids -> [status : Statuses, was : BOOLEAN, pcap : BOOLEAN]],
           NEW i \in Ids, NEW status \in Statuses, Update(i, status)
    PROVE  row' \in [Ids -> [status : Statuses, was : BOOLEAN, pcap : BOOLEAN]]
BY DEF Update

LEMMA AnswerTyped ==
    ASSUME LocalsTyped, NEW p \in Procs, Answer(p)
    PROVE  LocalsTyped'
BY DEF LocalsTyped, Answer, Goto, Labels, NoSession

\* The rows, the filter, the captures and their manifests.
LEMMA StoreStep ==
    ASSUME TypeInv, [Next]_vars
    PROVE  StoreTyped'
<1> USE PartsDiffer, CallDebugAssumption DEF TypeInv, Goto, Answer, Trouble, Note, NoteIf,
        Switch, Update, host, locals, counts, NoSession, StoreTyped, LocalsTyped, Statuses,
        HandlersProper, StartersAtWork, FinishersProper
<1>1. ASSUME NEW p \in Procs, TellCscfs(p) PROVE StoreTyped'
  BY <1>1 DEF TellCscfs
<1>2. ASSUME NEW p \in Procs, PersistFlag(p) PROVE StoreTyped'
  BY <1>2 DEF PersistFlag
<1>3. ASSUME NEW p \in Procs, SwitchThrows(p) PROVE StoreTyped'
  BY <1>3 DEF SwitchThrows, Switching
<1>4. ASSUME NEW p \in Operators, NEW on \in BOOLEAN, AskSwitch(p, on) PROVE StoreTyped'
  BY <1>4 DEF AskSwitch
<1>5. ASSUME NEW p \in Starters, StartCheck(p) PROVE StoreTyped'
  BY <1>5 DEF StartCheck
<1>6. ASSUME NEW p \in Starters, ReadTracing(p) PROVE StoreTyped'
  BY <1>6 DEF ReadTracing
<1>7. ASSUME NEW p \in Starters, Claim(p) PROVE StoreTyped'
  BY <1>7 DEF Claim
<1>8. ASSUME NEW p \in Starters, ClaimRefused(p) PROVE StoreTyped'
  BY <1>8 DEF ClaimRefused
<1>9. ASSUME NEW p \in Starters, SetScope(p) PROVE StoreTyped'
  BY <1>9 DEF SetScope
<1>10. ASSUME NEW p \in Starters, Launch(p) PROVE StoreTyped'
  BY <1>10 DEF Launch
<1>11. ASSUME NEW p \in Starters, Confirm(p) PROVE StoreTyped'
  BY <1>11 DEF Confirm
<1>12. ASSUME NEW p \in Starters, RecordCapture(p) PROVE StoreTyped'
  <2> USE <1>12 DEF RecordCapture
  <2>1. sess[p] \in Ids
    OBVIOUS
  <2>2. row[sess[p]].status # "deleted" => row' = [row EXCEPT ![sess[p]] = [@ EXCEPT !.pcap = TRUE]]
    OBVIOUS
  <2>3. row' \in [Ids -> [status : Statuses, was : BOOLEAN, pcap : BOOLEAN]]
    <3>1. [row[sess[p]] EXCEPT !.pcap = TRUE] \in [status : Statuses, was : BOOLEAN, pcap : BOOLEAN]
      BY <2>1, PcapTyped
    <3>2. row' = row \/ row' = [row EXCEPT ![sess[p]] = [row[sess[p]] EXCEPT !.pcap = TRUE]]
      BY <2>1, <2>2
    <3> QED BY <2>1, <3>1, <3>2
  <2>4. UNCHANGED <<filter, unit, manifest>>
    OBVIOUS
  <2> QED BY <2>3, <2>4, Zenon
<1>13. ASSUME NEW p \in Starters, Unwind(p) PROVE StoreTyped'
  BY <1>13 DEF Unwind
<1>14. ASSUME NEW p \in Starters, Fail(p) PROVE StoreTyped'
  <2>1. sess[p] \in Ids /\ UNCHANGED <<filter, unit, manifest>>
    BY <1>14 DEF Fail
  <2>2. row' \in [Ids -> [status : Statuses, was : BOOLEAN, pcap : BOOLEAN]]
    BY <1>14, <2>1, UpdateTyped DEF Fail
  <2> QED BY <2>1, <2>2
<1>15. ASSUME NEW p \in Stoppers, AskStop(p) PROVE StoreTyped'
  BY <1>15 DEF AskStop
<1>16. ASSUME NEW p \in Finishers, Find(p) PROVE StoreTyped'
  BY <1>16 DEF Find
<1>17. ASSUME NEW p \in Finishers, ClearScope(p) PROVE StoreTyped'
  BY <1>17 DEF ClearScope
<1>18. ASSUME NEW p \in Finishers, MarkStopping(p) PROVE StoreTyped'
  BY <1>18 DEF MarkStopping
<1>19. ASSUME NEW p \in Finishers, StopUnit(p) PROVE StoreTyped'
  BY <1>19 DEF StopUnit
<1>20. ASSUME NEW p \in Finishers, RestoreTracing(p) PROVE StoreTyped'
  BY <1>20 DEF RestoreTracing
<1>21. ASSUME NEW p \in Finishers, Close(p) PROVE StoreTyped'
  <2>1. sess[p] \in Ids /\ UNCHANGED <<filter, unit, manifest>>
    BY <1>21 DEF Close
  <2>2. row' \in [Ids -> [status : Statuses, was : BOOLEAN, pcap : BOOLEAN]]
    BY <1>21, <2>1, UpdateTyped DEF Close
  <2> QED BY <2>1, <2>2
<1>22. ASSUME NEW p \in Procs, StoreFails(p) PROVE StoreTyped'
  BY <1>22 DEF StoreFails
<1>23. ASSUME NEW i \in Ids, Delete(i) PROVE StoreTyped'
  BY <1>23 DEF Delete
<1>24. ASSUME NEW i \in Ids, CaptureEnds(i) PROVE StoreTyped'
  BY <1>24 DEF CaptureEnds
<1>25. ASSUME Restart PROVE StoreTyped'
  BY <1>25 DEF Restart
<1>26. ASSUME UNCHANGED vars PROVE StoreTyped'
  BY <1>26 DEF vars
<1>27. ASSUME NEW p \in Procs, WriteIncludes(p) PROVE StoreTyped'
  BY <1>27 DEF WriteIncludes
<1>28. ASSUME CscfRestarts PROVE StoreTyped'
  BY <1>28 DEF CscfRestarts
<1> QED BY <1>1, <1>2, <1>3, <1>4, <1>5, <1>6, <1>7, <1>8, <1>9, <1>10, <1>11, <1>12, <1>13,
       <1>14, <1>15, <1>16, <1>17, <1>18, <1>19, <1>20, <1>21, <1>22, <1>23, <1>24, <1>25, <1>26,
       <1>27, <1>28
       DEF Next, Step

\* What the handlers hold.
LEMMA LocalsStep ==
    ASSUME TypeInv, [Next]_vars
    PROVE  LocalsTyped'
<1> USE PartsDiffer, CallDebugAssumption DEF TypeInv, Goto, Answer, Trouble, Note, NoteIf,
        Switch, Update, host, locals, counts, NoSession, LocalsTyped, Labels
<1>1. ASSUME NEW p \in Procs, TellCscfs(p) PROVE LocalsTyped'
  BY <1>1 DEF TellCscfs
<1>2. ASSUME NEW p \in Procs, PersistFlag(p) PROVE LocalsTyped'
  <2>1. ASSUME back[p] = "idle" PROVE LocalsTyped'
    BY <1>2, <2>1, AnswerTyped DEF PersistFlag
  <2>2. ASSUME back[p] # "idle" PROVE LocalsTyped'
    BY <1>2, <2>2 DEF PersistFlag
  <2> QED BY <2>1, <2>2
<1>3. ASSUME NEW p \in Procs, SwitchThrows(p) PROVE LocalsTyped'
  <2>1. ASSUME back[p] = "idle" PROVE LocalsTyped'
    BY <1>3, <2>1, AnswerTyped DEF SwitchThrows, Switching
  <2>2. ASSUME back[p] # "idle" PROVE LocalsTyped'
    BY <1>3, <2>2 DEF SwitchThrows, Switching
  <2> QED BY <2>1, <2>2
<1>4. ASSUME NEW p \in Operators, NEW on \in BOOLEAN, AskSwitch(p, on) PROVE LocalsTyped'
  BY <1>4 DEF AskSwitch
<1>5. ASSUME NEW p \in Starters, StartCheck(p) PROVE LocalsTyped'
  BY <1>5 DEF StartCheck
<1>6. ASSUME NEW p \in Starters, ReadTracing(p) PROVE LocalsTyped'
  <2>1. was' \in [Procs -> BOOLEAN]
    BY <1>6, Zenon DEF ReadTracing, FlagsTyped
  <2> QED BY <1>6, <2>1 DEF ReadTracing, FlagsTyped
<1>7. ASSUME NEW p \in Starters, Claim(p) PROVE LocalsTyped'
  <2>1. sess' \in [Procs -> Ids \cup {0}]
    BY <1>7, NextUnused DEF Claim
  <2>2. CASE was[p]
    BY <1>7, <2>1, <2>2 DEF Claim
  <2>3. CASE ~ was[p]
    <3>1. Switch(p, TRUE, "scope") /\ UNCHANGED <<was, cap>>
      BY <1>7, <2>3, Zenon DEF Claim
    <3> QED BY <2>1, <3>1
  <2> QED BY <2>2, <2>3
<1>8. ASSUME NEW p \in Starters, ClaimRefused(p) PROVE LocalsTyped'
  BY <1>8 DEF ClaimRefused
<1>9. ASSUME NEW p \in Starters, SetScope(p) PROVE LocalsTyped'
  BY <1>9 DEF SetScope
<1>10. ASSUME NEW p \in Starters, Launch(p) PROVE LocalsTyped'
  BY <1>10 DEF Launch
<1>11. ASSUME NEW p \in Starters, Confirm(p) PROVE LocalsTyped'
  BY <1>11 DEF Confirm
<1>12. ASSUME NEW p \in Starters, RecordCapture(p) PROVE LocalsTyped'
  BY <1>12 DEF RecordCapture
<1>13. ASSUME NEW p \in Starters, Unwind(p) PROVE LocalsTyped'
  BY <1>13 DEF Unwind
<1>14. ASSUME NEW p \in Starters, Fail(p) PROVE LocalsTyped'
  BY <1>14 DEF Fail
<1>15. ASSUME NEW p \in Stoppers, AskStop(p) PROVE LocalsTyped'
  BY <1>15 DEF AskStop
<1>16. ASSUME NEW p \in Finishers, Find(p) PROVE LocalsTyped'
  <2>1. ASSUME Running = {} PROVE LocalsTyped'
    BY <1>16, <2>1, AnswerTyped DEF Find
  <2>2. ASSUME Running # {} PROVE LocalsTyped'
    <3>1. PICK i \in Running : /\ sess' = [sess EXCEPT ![p] = i] /\ was' = [was EXCEPT ![p] = row[i].was]
                               /\ cap' = [cap EXCEPT ![p] = row[i].pcap]
      BY <1>16, <2>2 DEF Find
    <3>2. i \in Ids /\ row[i].was \in BOOLEAN /\ row[i].pcap \in BOOLEAN
      BY DEF Running, StoreTyped
    <3>3. was' \in [Procs -> BOOLEAN] /\ cap' \in [Procs -> BOOLEAN]
      BY <3>1, <3>2, Zenon
    <3>4. sess' \in [Procs -> Ids \cup {0}]
      BY <3>1, <3>2
    <3> QED BY <1>16, <2>2, <3>3, <3>4 DEF Find
  <2> QED BY <2>1, <2>2
<1>17. ASSUME NEW p \in Finishers, ClearScope(p) PROVE LocalsTyped'
  BY <1>17 DEF ClearScope
<1>18. ASSUME NEW p \in Finishers, MarkStopping(p) PROVE LocalsTyped'
  BY <1>18 DEF MarkStopping
<1>19. ASSUME NEW p \in Finishers, StopUnit(p) PROVE LocalsTyped'
  BY <1>19 DEF StopUnit
<1>20. ASSUME NEW p \in Finishers, RestoreTracing(p) PROVE LocalsTyped'
  BY <1>20 DEF RestoreTracing
<1>21. ASSUME NEW p \in Finishers, Close(p) PROVE LocalsTyped'
  BY <1>21 DEF Close
<1>22. ASSUME NEW p \in Procs, StoreFails(p) PROVE LocalsTyped'
  <2>1. ASSUME pc[p] \in {"confirm", "record"} PROVE LocalsTyped'
    BY <1>22, <2>1 DEF StoreFails
  <2>2. ASSUME pc[p] \notin {"confirm", "record"} PROVE LocalsTyped'
    BY <1>22, <2>2, AnswerTyped DEF StoreFails
  <2> QED BY <2>1, <2>2
<1>23. ASSUME NEW i \in Ids, Delete(i) PROVE LocalsTyped'
  BY <1>23 DEF Delete
<1>24. ASSUME NEW i \in Ids, CaptureEnds(i) PROVE LocalsTyped'
  BY <1>24 DEF CaptureEnds
<1>25. ASSUME Restart PROVE LocalsTyped'
  BY <1>25 DEF Restart
<1>26. ASSUME UNCHANGED vars PROVE LocalsTyped'
  BY <1>26 DEF vars
<1>27. ASSUME NEW p \in Procs, WriteIncludes(p) PROVE LocalsTyped'
  BY <1>27 DEF WriteIncludes
<1>28. ASSUME CscfRestarts PROVE LocalsTyped'
  BY <1>28 DEF CscfRestarts
<1> QED BY <1>1, <1>2, <1>3, <1>4, <1>5, <1>6, <1>7, <1>8, <1>9, <1>10, <1>11, <1>12, <1>13,
       <1>14, <1>15, <1>16, <1>17, <1>18, <1>19, <1>20, <1>21, <1>22, <1>23, <1>24, <1>25, <1>26,
       <1>27, <1>28
       DEF Next, Step

\* The counts, and the mishaps noted.
LEMMA CountsStep ==
    ASSUME TypeInv, [Next]_vars
    PROVE  CountsTyped'
<1> USE PartsDiffer, CallDebugAssumption DEF TypeInv, Goto, Answer, Trouble, Note, NoteIf,
        Switch, Update, host, locals, counts, NoSession, CountsTyped, Mishaps
<1>1. ASSUME NEW p \in Procs, TellCscfs(p) PROVE CountsTyped'
  <2>1. ops' = ops /\ (troubles' = troubles \/ Trouble)
    BY <1>1 DEF TellCscfs
  <2>2. ops' \in 0..MaxOps /\ troubles' \in 0..MaxTroubles
    BY <2>1
  <2>3. mishaps' \subseteq Mishaps
    BY <1>1 DEF TellCscfs, Mishaps
  <2> QED BY <2>2, <2>3
<1>2. ASSUME NEW p \in Procs, PersistFlag(p) PROVE CountsTyped'
  BY <1>2 DEF PersistFlag
<1>3. ASSUME NEW p \in Procs, SwitchThrows(p) PROVE CountsTyped'
  BY <1>3 DEF SwitchThrows, Switching
<1>4. ASSUME NEW p \in Operators, NEW on \in BOOLEAN, AskSwitch(p, on) PROVE CountsTyped'
  BY <1>4 DEF AskSwitch
<1>5. ASSUME NEW p \in Starters, StartCheck(p) PROVE CountsTyped'
  BY <1>5 DEF StartCheck
<1>6. ASSUME NEW p \in Starters, ReadTracing(p) PROVE CountsTyped'
  BY <1>6 DEF ReadTracing
<1>7. ASSUME NEW p \in Starters, Claim(p) PROVE CountsTyped'
  BY <1>7 DEF Claim
<1>8. ASSUME NEW p \in Starters, ClaimRefused(p) PROVE CountsTyped'
  BY <1>8 DEF ClaimRefused
<1>9. ASSUME NEW p \in Starters, SetScope(p) PROVE CountsTyped'
  BY <1>9 DEF SetScope
<1>10. ASSUME NEW p \in Starters, Launch(p) PROVE CountsTyped'
  BY <1>10 DEF Launch
<1>11. ASSUME NEW p \in Starters, Confirm(p) PROVE CountsTyped'
  BY <1>11 DEF Confirm
<1>12. ASSUME NEW p \in Starters, RecordCapture(p) PROVE CountsTyped'
  BY <1>12 DEF RecordCapture
<1>13. ASSUME NEW p \in Starters, Unwind(p) PROVE CountsTyped'
  BY <1>13 DEF Unwind
<1>14. ASSUME NEW p \in Starters, Fail(p) PROVE CountsTyped'
  BY <1>14 DEF Fail
<1>15. ASSUME NEW p \in Stoppers, AskStop(p) PROVE CountsTyped'
  BY <1>15 DEF AskStop
<1>16. ASSUME NEW p \in Finishers, Find(p) PROVE CountsTyped'
  BY <1>16 DEF Find
<1>17. ASSUME NEW p \in Finishers, ClearScope(p) PROVE CountsTyped'
  BY <1>17 DEF ClearScope
<1>18. ASSUME NEW p \in Finishers, MarkStopping(p) PROVE CountsTyped'
  BY <1>18 DEF MarkStopping
<1>19. ASSUME NEW p \in Finishers, StopUnit(p) PROVE CountsTyped'
  <2>1. ops' \in 0..MaxOps /\ troubles' \in 0..MaxTroubles
    BY <1>19 DEF StopUnit
  <2>2. mishaps' \subseteq Mishaps
    BY <1>19 DEF StopUnit, Mishaps
  <2> QED BY <2>1, <2>2
<1>20. ASSUME NEW p \in Finishers, RestoreTracing(p) PROVE CountsTyped'
  BY <1>20 DEF RestoreTracing
<1>21. ASSUME NEW p \in Finishers, Close(p) PROVE CountsTyped'
  BY <1>21 DEF Close
<1>22. ASSUME NEW p \in Procs, StoreFails(p) PROVE CountsTyped'
  <2>1. ops' \in 0..MaxOps /\ troubles' \in 0..MaxTroubles
    BY <1>22 DEF StoreFails
  <2>2. mishaps' \subseteq Mishaps
    BY <1>22 DEF StoreFails, Mishaps
  <2> QED BY <2>1, <2>2
<1>23. ASSUME NEW i \in Ids, Delete(i) PROVE CountsTyped'
  BY <1>23 DEF Delete
<1>24. ASSUME NEW i \in Ids, CaptureEnds(i) PROVE CountsTyped'
  BY <1>24 DEF CaptureEnds
<1>25. ASSUME Restart PROVE CountsTyped'
  BY <1>25 DEF Restart
<1>26. ASSUME UNCHANGED vars PROVE CountsTyped'
  BY <1>26 DEF vars
<1>27. ASSUME NEW p \in Procs, WriteIncludes(p) PROVE CountsTyped'
  BY <1>27 DEF WriteIncludes
<1>28. ASSUME CscfRestarts PROVE CountsTyped'
  BY <1>28 DEF CscfRestarts
<1> QED BY <1>1, <1>2, <1>3, <1>4, <1>5, <1>6, <1>7, <1>8, <1>9, <1>10, <1>11, <1>12, <1>13,
       <1>14, <1>15, <1>16, <1>17, <1>18, <1>19, <1>20, <1>21, <1>22, <1>23, <1>24, <1>25, <1>26,
       <1>27, <1>28
       DEF Next, Step

\* What a step takes for adrift is a session it works on, or finds running.
LEMMA AdriftStep ==
    ASSUME TypeInv, [Next]_vars
    PROVE  AdriftTyped'
<1> USE PartsDiffer DEF AdriftTyped
<1>1. /\ adrift \subseteq Ids /\ Running \subseteq Ids
      /\ \A p \in Procs : pc[p] \in {"launch", "confirm", "record", "halt"} => sess[p] \in Ids
  BY DEF TypeInv, LocalsTyped, StartersAtWork, HandlersProper, StartersProper, FinishersProper,
         OperatorsProper, StarterLabels, FinisherLabels, OperatorLabels, SwitchLabels, Running
<1>2. ASSUME NEW p \in Procs, Launch(p) \/ StopUnit(p) \/ StoreFails(p) PROVE AdriftTyped'
  <2>1. adrift' = adrift \/ (pc[p] \in {"launch", "confirm", "record", "halt"}
                             /\ adrift' = adrift \cup {sess[p]})
    BY <1>2 DEF Launch, StopUnit, StoreFails, SetAdrift
  <2> QED BY <1>1, <2>1
<1>3. ASSUME NEW p \in Procs, Find(p) PROVE AdriftTyped'
  <2>1. adrift' = adrift \/ adrift' = adrift \cup (Running \cap {sess[q] : q \in Starters})
    BY <1>3 DEF Find
  <2> QED BY <1>1, <2>1
<1>4. ASSUME Restart PROVE AdriftTyped'
  <2>1. {sess[p] : p \in CaptureCut} \subseteq Ids
    BY <1>1 DEF CaptureCut
  <2> QED BY <1>1, <1>4, <2>1 DEF Restart
<1>5. ASSUME UNCHANGED adrift PROVE AdriftTyped'
  BY <1>1, <1>5
<1>6. ASSUME NEW p \in Procs, Step(p), ~ (Launch(p) \/ StopUnit(p) \/ Find(p))
      PROVE  UNCHANGED adrift
  BY <1>6 DEF Step, WriteIncludes, TellCscfs, PersistFlag, ReadTracing, Claim, ClaimRefused,
     SetScope, Confirm, RecordCapture, Unwind, Fail, ClearScope, MarkStopping, RestoreTracing,
     Close, counts
<1>7. ASSUME NEW p \in Procs, NEW on \in BOOLEAN,
             SwitchThrows(p) \/ StartCheck(p) \/ AskStop(p) \/ AskSwitch(p, on)
      PROVE  UNCHANGED adrift
  BY <1>7 DEF SwitchThrows, StartCheck, AskStop, AskSwitch
<1>8. ASSUME NEW i \in Ids, Delete(i) \/ CaptureEnds(i) PROVE UNCHANGED adrift
  BY <1>8 DEF Delete, CaptureEnds, counts
<1>9. CscfRestarts \/ UNCHANGED vars => UNCHANGED adrift
  BY DEF CscfRestarts, vars, counts
<1>10. Stoppers \subseteq Procs
  BY DEF Finishers
<1> QED BY <1>2, <1>3, <1>4, <1>5, <1>6, <1>7, <1>8, <1>9, <1>10 DEF Next

\* The switch.
LEMMA FlagsStep ==
    ASSUME TypeInv, [Next]_vars
    PROVE  FlagsTyped'
<1> USE PartsDiffer, CallDebugAssumption DEF TypeInv, Goto, Answer, Trouble, Note, NoteIf,
        Switch, Update, host, locals, counts, NoSession, FlagsTyped, LocalsTyped
<1>1. ASSUME NEW p \in Procs, TellCscfs(p) PROVE FlagsTyped'
  BY <1>1 DEF TellCscfs
<1>2. ASSUME NEW p \in Procs, PersistFlag(p) PROVE FlagsTyped'
  BY <1>2 DEF PersistFlag
<1>3. ASSUME NEW p \in Procs, SwitchThrows(p) PROVE FlagsTyped'
  BY <1>3 DEF SwitchThrows, Switching
<1>4. ASSUME NEW p \in Operators, NEW on \in BOOLEAN, AskSwitch(p, on) PROVE FlagsTyped'
  BY <1>4 DEF AskSwitch
<1>5. ASSUME NEW p \in Starters, StartCheck(p) PROVE FlagsTyped'
  BY <1>5 DEF StartCheck
<1>6. ASSUME NEW p \in Starters, ReadTracing(p) PROVE FlagsTyped'
  BY <1>6 DEF ReadTracing
<1>7. ASSUME NEW p \in Starters, Claim(p) PROVE FlagsTyped'
  BY <1>7 DEF Claim
<1>8. ASSUME NEW p \in Starters, ClaimRefused(p) PROVE FlagsTyped'
  BY <1>8 DEF ClaimRefused
<1>9. ASSUME NEW p \in Starters, SetScope(p) PROVE FlagsTyped'
  BY <1>9 DEF SetScope
<1>10. ASSUME NEW p \in Starters, Launch(p) PROVE FlagsTyped'
  BY <1>10 DEF Launch
<1>11. ASSUME NEW p \in Starters, Confirm(p) PROVE FlagsTyped'
  BY <1>11 DEF Confirm
<1>12. ASSUME NEW p \in Starters, RecordCapture(p) PROVE FlagsTyped'
  BY <1>12 DEF RecordCapture
<1>13. ASSUME NEW p \in Starters, Unwind(p) PROVE FlagsTyped'
  BY <1>13 DEF Unwind
<1>14. ASSUME NEW p \in Starters, Fail(p) PROVE FlagsTyped'
  BY <1>14 DEF Fail
<1>15. ASSUME NEW p \in Stoppers, AskStop(p) PROVE FlagsTyped'
  BY <1>15 DEF AskStop
<1>16. ASSUME NEW p \in Finishers, Find(p) PROVE FlagsTyped'
  BY <1>16 DEF Find
<1>17. ASSUME NEW p \in Finishers, ClearScope(p) PROVE FlagsTyped'
  BY <1>17 DEF ClearScope
<1>18. ASSUME NEW p \in Finishers, MarkStopping(p) PROVE FlagsTyped'
  BY <1>18 DEF MarkStopping
<1>19. ASSUME NEW p \in Finishers, StopUnit(p) PROVE FlagsTyped'
  BY <1>19 DEF StopUnit
<1>20. ASSUME NEW p \in Finishers, RestoreTracing(p) PROVE FlagsTyped'
  BY <1>20 DEF RestoreTracing
<1>21. ASSUME NEW p \in Finishers, Close(p) PROVE FlagsTyped'
  BY <1>21 DEF Close
<1>22. ASSUME NEW p \in Procs, StoreFails(p) PROVE FlagsTyped'
  BY <1>22 DEF StoreFails
<1>23. ASSUME NEW i \in Ids, Delete(i) PROVE FlagsTyped'
  BY <1>23 DEF Delete
<1>24. ASSUME NEW i \in Ids, CaptureEnds(i) PROVE FlagsTyped'
  BY <1>24 DEF CaptureEnds
<1>25. ASSUME Restart PROVE FlagsTyped'
  BY <1>25 DEF Restart
<1>26. ASSUME UNCHANGED vars PROVE FlagsTyped'
  BY <1>26 DEF vars
<1>27. ASSUME NEW p \in Procs, WriteIncludes(p) PROVE FlagsTyped'
  BY <1>27 DEF WriteIncludes
<1>28. ASSUME CscfRestarts PROVE FlagsTyped'
  BY <1>28 DEF CscfRestarts
<1> QED BY <1>1, <1>2, <1>3, <1>4, <1>5, <1>6, <1>7, <1>8, <1>9, <1>10, <1>11, <1>12, <1>13,
       <1>14, <1>15, <1>16, <1>17, <1>18, <1>19, <1>20, <1>21, <1>22, <1>23, <1>24, <1>25, <1>26,
       <1>27, <1>28
       DEF Next, Step

\* A start works on a session from its claim on.
LEMMA WorkStep ==
    ASSUME TypeInv, [Next]_vars
    PROVE  StartersAtWork'
<1> USE PartsDiffer, CallDebugAssumption DEF TypeInv, Goto, Answer, Trouble, Note, NoteIf,
        Switch, Update, host, locals, counts, NoSession, StartersAtWork, LocalsTyped,
        HandlersProper, StartersProper, FinishersProper, OperatorsProper, SwitchLabels,
        StarterLabels
<1>1. ASSUME NEW p \in Procs, TellCscfs(p) PROVE StartersAtWork'
  BY <1>1 DEF TellCscfs
<1>2. ASSUME NEW p \in Procs, PersistFlag(p) PROVE StartersAtWork'
  BY <1>2 DEF PersistFlag
<1>3. ASSUME NEW p \in Procs, SwitchThrows(p) PROVE StartersAtWork'
  BY <1>3 DEF SwitchThrows, Switching
<1>4. ASSUME NEW p \in Operators, NEW on \in BOOLEAN, AskSwitch(p, on) PROVE StartersAtWork'
  BY <1>4 DEF AskSwitch
<1>5. ASSUME NEW p \in Starters, StartCheck(p) PROVE StartersAtWork'
  BY <1>5 DEF StartCheck
<1>6. ASSUME NEW p \in Starters, ReadTracing(p) PROVE StartersAtWork'
  BY <1>6 DEF ReadTracing
<1>7. ASSUME NEW p \in Starters, Claim(p) PROVE StartersAtWork'
  <2>1. NextId \in Ids /\ NextId # 0
    BY <1>7, NextUnused DEF Claim, Ids
  <2>2. CASE was[p]
    BY <1>7, <2>1, <2>2 DEF Claim
  <2>3. CASE ~ was[p]
    BY <1>7, <2>1, <2>3 DEF Claim
  <2> QED BY <2>2, <2>3
<1>8. ASSUME NEW p \in Starters, ClaimRefused(p) PROVE StartersAtWork'
  BY <1>8 DEF ClaimRefused
<1>9. ASSUME NEW p \in Starters, SetScope(p) PROVE StartersAtWork'
  BY <1>9 DEF SetScope
<1>10. ASSUME NEW p \in Starters, Launch(p) PROVE StartersAtWork'
  BY <1>10 DEF Launch
<1>11. ASSUME NEW p \in Starters, Confirm(p) PROVE StartersAtWork'
  BY <1>11 DEF Confirm
<1>12. ASSUME NEW p \in Starters, RecordCapture(p) PROVE StartersAtWork'
  BY <1>12 DEF RecordCapture
<1>13. ASSUME NEW p \in Starters, Unwind(p) PROVE StartersAtWork'
  BY <1>13 DEF Unwind
<1>14. ASSUME NEW p \in Starters, Fail(p) PROVE StartersAtWork'
  BY <1>14 DEF Fail
<1>15. ASSUME NEW p \in Stoppers, AskStop(p) PROVE StartersAtWork'
  BY <1>15 DEF AskStop
<1>16. ASSUME NEW p \in Finishers, Find(p) PROVE StartersAtWork'
  BY <1>16 DEF Find
<1>17. ASSUME NEW p \in Finishers, ClearScope(p) PROVE StartersAtWork'
  BY <1>17 DEF ClearScope
<1>18. ASSUME NEW p \in Finishers, MarkStopping(p) PROVE StartersAtWork'
  BY <1>18 DEF MarkStopping
<1>19. ASSUME NEW p \in Finishers, StopUnit(p) PROVE StartersAtWork'
  BY <1>19 DEF StopUnit
<1>20. ASSUME NEW p \in Finishers, RestoreTracing(p) PROVE StartersAtWork'
  BY <1>20 DEF RestoreTracing
<1>21. ASSUME NEW p \in Finishers, Close(p) PROVE StartersAtWork'
  BY <1>21 DEF Close
<1>22. ASSUME NEW p \in Procs, StoreFails(p) PROVE StartersAtWork'
  BY <1>22 DEF StoreFails
<1>23. ASSUME NEW i \in Ids, Delete(i) PROVE StartersAtWork'
  BY <1>23 DEF Delete
<1>24. ASSUME NEW i \in Ids, CaptureEnds(i) PROVE StartersAtWork'
  BY <1>24 DEF CaptureEnds
<1>25. ASSUME Restart PROVE StartersAtWork'
  BY <1>25 DEF Restart
<1>26. ASSUME UNCHANGED vars PROVE StartersAtWork'
  BY <1>26 DEF vars
<1>27. ASSUME NEW p \in Procs, WriteIncludes(p) PROVE StartersAtWork'
  BY <1>27 DEF WriteIncludes
<1>28. ASSUME CscfRestarts PROVE StartersAtWork'
  BY <1>28 DEF CscfRestarts
<1> QED BY <1>1, <1>2, <1>3, <1>4, <1>5, <1>6, <1>7, <1>8, <1>9, <1>10, <1>11, <1>12, <1>13,
       <1>14, <1>15, <1>16, <1>17, <1>18, <1>19, <1>20, <1>21, <1>22, <1>23, <1>24, <1>25, <1>26,
       <1>27, <1>28
       DEF Next, Step

\* The part each handler plays.
LEMMA HandlersStep ==
    ASSUME TypeInv, [Next]_vars
    PROVE  HandlersProper'
<1> USE PartsDiffer, CallDebugAssumption DEF TypeInv, Goto, Answer, Trouble, Note, NoteIf,
        Switch, Update, host, locals, counts, NoSession, LocalsTyped, HandlersProper,
        StartersProper, FinishersProper, OperatorsProper, SwitchLabels, StarterLabels,
        OperatorLabels, FinisherLabels
<1>1. ASSUME NEW p \in Procs, TellCscfs(p) PROVE HandlersProper'
  <2>0. /\ pc[p] = "rpc" /\ pc' = [pc EXCEPT ![p] = "persist"] /\ UNCHANGED <<sess, goal>>
        /\ back' = back \/ (goal[p] /\ back' = [back EXCEPT ![p] = IF @ = "scope" THEN "unwind" ELSE @])
    BY <1>1, Zenon DEF TellCscfs
  <2>1. StartersProper'
    BY <2>0
  <2>2. FinishersProper'
    BY <2>0
  <2>3. OperatorsProper'
    BY <2>0
  <2> QED BY <2>1, <2>2, <2>3
<1>2. ASSUME NEW p \in Procs, PersistFlag(p) PROVE HandlersProper'
  BY <1>2 DEF PersistFlag
<1>3. ASSUME NEW p \in Procs, SwitchThrows(p) PROVE HandlersProper'
  BY <1>3 DEF SwitchThrows, Switching
<1>4. ASSUME NEW p \in Operators, NEW on \in BOOLEAN, AskSwitch(p, on) PROVE HandlersProper'
  BY <1>4 DEF AskSwitch
<1>5. ASSUME NEW p \in Starters, StartCheck(p) PROVE HandlersProper'
  BY <1>5 DEF StartCheck
<1>6. ASSUME NEW p \in Starters, ReadTracing(p) PROVE HandlersProper'
  BY <1>6 DEF ReadTracing
<1>7. ASSUME NEW p \in Starters, Claim(p) PROVE HandlersProper'
  BY <1>7 DEF Claim
<1>8. ASSUME NEW p \in Starters, ClaimRefused(p) PROVE HandlersProper'
  BY <1>8 DEF ClaimRefused
<1>9. ASSUME NEW p \in Starters, SetScope(p) PROVE HandlersProper'
  BY <1>9 DEF SetScope
<1>10. ASSUME NEW p \in Starters, Launch(p) PROVE HandlersProper'
  BY <1>10 DEF Launch
<1>11. ASSUME NEW p \in Starters, Confirm(p) PROVE HandlersProper'
  BY <1>11 DEF Confirm
<1>12. ASSUME NEW p \in Starters, RecordCapture(p) PROVE HandlersProper'
  BY <1>12 DEF RecordCapture
<1>13. ASSUME NEW p \in Starters, Unwind(p) PROVE HandlersProper'
  BY <1>13 DEF Unwind
<1>14. ASSUME NEW p \in Starters, Fail(p) PROVE HandlersProper'
  BY <1>14 DEF Fail
<1>15. ASSUME NEW p \in Stoppers, AskStop(p) PROVE HandlersProper'
  BY <1>15 DEF AskStop
<1>16. ASSUME NEW p \in Finishers, Find(p) PROVE HandlersProper'
  <2>1. StartersProper'
    BY <1>16 DEF Find, Running, Ids
  <2>2. FinishersProper'
    BY <1>16 DEF Find, Running, Ids
  <2>3. OperatorsProper'
    BY <1>16 DEF Find, Running, Ids
  <2> QED BY <2>1, <2>2, <2>3
<1>17. ASSUME NEW p \in Finishers, ClearScope(p) PROVE HandlersProper'
  BY <1>17 DEF ClearScope
<1>18. ASSUME NEW p \in Finishers, MarkStopping(p) PROVE HandlersProper'
  BY <1>18 DEF MarkStopping
<1>19. ASSUME NEW p \in Finishers, StopUnit(p) PROVE HandlersProper'
  BY <1>19 DEF StopUnit
<1>20. ASSUME NEW p \in Finishers, RestoreTracing(p) PROVE HandlersProper'
  BY <1>20 DEF RestoreTracing
<1>21. ASSUME NEW p \in Finishers, Close(p) PROVE HandlersProper'
  BY <1>21 DEF Close
<1>22. ASSUME NEW p \in Procs, StoreFails(p) PROVE HandlersProper'
  BY <1>22 DEF StoreFails
<1>23. ASSUME NEW i \in Ids, Delete(i) PROVE HandlersProper'
  BY <1>23 DEF Delete
<1>24. ASSUME NEW i \in Ids, CaptureEnds(i) PROVE HandlersProper'
  BY <1>24 DEF CaptureEnds
<1>25. ASSUME Restart PROVE HandlersProper'
  BY <1>25 DEF Restart
<1>26. ASSUME UNCHANGED vars PROVE HandlersProper'
  BY <1>26 DEF vars
<1>27. ASSUME NEW p \in Procs, WriteIncludes(p) PROVE HandlersProper'
  BY <1>27 DEF WriteIncludes
<1>28. ASSUME CscfRestarts PROVE HandlersProper'
  BY <1>28 DEF CscfRestarts
<1> QED BY <1>1, <1>2, <1>3, <1>4, <1>5, <1>6, <1>7, <1>8, <1>9, <1>10, <1>11, <1>12, <1>13,
       <1>14, <1>15, <1>16, <1>17, <1>18, <1>19, <1>20, <1>21, <1>22, <1>23, <1>24, <1>25, <1>26,
       <1>27, <1>28
       DEF Next, Step

LEMMA TypeStep ==
    ASSUME TypeInv, [Next]_vars
    PROVE  TypeInv'
BY StoreStep, LocalsStep, CountsStep, AdriftStep, FlagsStep, WorkStep, HandlersStep DEF TypeInv

LEMMA TypeInvariant == Spec => []TypeInv
<1>1. Init => TypeInv
  BY TypeInit
<1>2. TypeInv /\ [Next]_vars => TypeInv'
  BY TypeStep
<1> QED BY <1>1, <1>2, PTL DEF Spec

\* Every variable has its type, and a handler of start() works on a session from its claim to its
\* answer, and never before (call-debug-session.ts:250-337).
THEOREM TypeCorrect == Spec => []TypeOK
<1>1. TypeInv => TypeOK
  BY DEF TypeInv, StoreTyped, LocalsTyped, CountsTyped, AdriftTyped, Mishaps, FlagsTyped,
         StartersAtWork, TypeOK
<1> QED BY <1>1, TypeInvariant, PTL

(***************************************************************************)
(* One session at most is under way.                                       *)
(***************************************************************************)

(* One row at most is running.                                             *)
RunningOne == \A i, j \in Running : i = j

(* Unless handlers overlapped, one at most works on a session, the one     *)
(* that is running.                                                        *)
SoleWorker ==
    "overlap" \notin mishaps =>
        \A p \in Procs : sess[p] # NoSession =>
            /\ row[sess[p]].status = "running"
            /\ \A q \in Procs : sess[q] # NoSession => q = p

SessInv == RunningOne /\ SoleWorker

\* A claim is refused while a row is running, and no other step makes a row run.
LEMMA OneStep ==
    ASSUME TypeInv, RunningOne, [Next]_vars
    PROVE  RunningOne'
<1> USE PartsDiffer DEF Goto, Answer, Trouble, Note, NoteIf, Switch, Update, host, locals,
        counts, NoSession, TypeInv, StoreTyped, LocalsTyped, StartersAtWork, HandlersProper,
        StartersProper, FinishersProper, OperatorsProper, SwitchLabels, StarterLabels,
        FinisherLabels, OperatorLabels, RunningOne, Running
<1>1. ASSUME NEW p \in Procs, TellCscfs(p) PROVE RunningOne'
  BY <1>1 DEF TellCscfs
<1>2. ASSUME NEW p \in Procs, PersistFlag(p) PROVE RunningOne'
  BY <1>2 DEF PersistFlag
<1>3. ASSUME NEW p \in Procs, SwitchThrows(p) PROVE RunningOne'
  BY <1>3 DEF SwitchThrows, Switching
<1>4. ASSUME NEW p \in Operators, NEW on \in BOOLEAN, AskSwitch(p, on) PROVE RunningOne'
  BY <1>4 DEF AskSwitch
<1>5. ASSUME NEW p \in Starters, StartCheck(p) PROVE RunningOne'
  BY <1>5 DEF StartCheck
<1>6. ASSUME NEW p \in Starters, ReadTracing(p) PROVE RunningOne'
  BY <1>6 DEF ReadTracing
<1>7. ASSUME NEW p \in Starters, Claim(p) PROVE RunningOne'
  BY <1>7, NextUnused DEF Claim
<1>8. ASSUME NEW p \in Starters, ClaimRefused(p) PROVE RunningOne'
  BY <1>8 DEF ClaimRefused
<1>9. ASSUME NEW p \in Starters, SetScope(p) PROVE RunningOne'
  BY <1>9 DEF SetScope
<1>10. ASSUME NEW p \in Starters, Launch(p) PROVE RunningOne'
  BY <1>10 DEF Launch
<1>11. ASSUME NEW p \in Starters, Confirm(p) PROVE RunningOne'
  BY <1>11 DEF Confirm
<1>12. ASSUME NEW p \in Starters, RecordCapture(p) PROVE RunningOne'
  BY <1>12 DEF RecordCapture
<1>13. ASSUME NEW p \in Starters, Unwind(p) PROVE RunningOne'
  BY <1>13 DEF Unwind
<1>14. ASSUME NEW p \in Starters, Fail(p) PROVE RunningOne'
  BY <1>14 DEF Fail
<1>15. ASSUME NEW p \in Stoppers, AskStop(p) PROVE RunningOne'
  BY <1>15 DEF AskStop
<1>16. ASSUME NEW p \in Finishers, Find(p) PROVE RunningOne'
  BY <1>16 DEF Find
<1>17. ASSUME NEW p \in Finishers, ClearScope(p) PROVE RunningOne'
  BY <1>17 DEF ClearScope
<1>18. ASSUME NEW p \in Finishers, MarkStopping(p) PROVE RunningOne'
  BY <1>18 DEF MarkStopping
<1>19. ASSUME NEW p \in Finishers, StopUnit(p) PROVE RunningOne'
  BY <1>19 DEF StopUnit
<1>20. ASSUME NEW p \in Finishers, RestoreTracing(p) PROVE RunningOne'
  BY <1>20 DEF RestoreTracing
<1>21. ASSUME NEW p \in Finishers, Close(p) PROVE RunningOne'
  BY <1>21 DEF Close
<1>22. ASSUME NEW p \in Procs, StoreFails(p) PROVE RunningOne'
  BY <1>22 DEF StoreFails
<1>23. ASSUME NEW i \in Ids, Delete(i) PROVE RunningOne'
  BY <1>23 DEF Delete
<1>24. ASSUME NEW i \in Ids, CaptureEnds(i) PROVE RunningOne'
  BY <1>24 DEF CaptureEnds
<1>25. ASSUME Restart PROVE RunningOne'
  BY <1>25 DEF Restart
<1>26. ASSUME UNCHANGED vars PROVE RunningOne'
  BY <1>26 DEF vars
<1>27. ASSUME NEW p \in Procs, WriteIncludes(p) PROVE RunningOne'
  BY <1>27 DEF WriteIncludes
<1>28. ASSUME CscfRestarts PROVE RunningOne'
  BY <1>28 DEF CscfRestarts
<1> QED BY <1>1, <1>2, <1>3, <1>4, <1>5, <1>6, <1>7, <1>8, <1>9, <1>10, <1>11, <1>12, <1>13,
       <1>14, <1>15, <1>16, <1>17, <1>18, <1>19, <1>20, <1>21, <1>22, <1>23, <1>24, <1>25, <1>26,
       <1>27, <1>28
       DEF Next, Step

\* A claim takes a session nobody works on; who finds a session others work on overlaps them.
LEMMA SoleStep ==
    ASSUME TypeInv, RunningOne, SoleWorker, [Next]_vars
    PROVE  SoleWorker'
<1> USE PartsDiffer DEF Goto, Answer, Trouble, Note, NoteIf, Switch, Update, host, locals,
        counts, NoSession, TypeInv, StoreTyped, LocalsTyped, StartersAtWork, HandlersProper,
        StartersProper, FinishersProper, OperatorsProper, SwitchLabels, StarterLabels,
        FinisherLabels, OperatorLabels, SoleWorker
<1>1. ASSUME NEW p \in Procs, TellCscfs(p) PROVE SoleWorker'
  <2>1. UNCHANGED <<row, sess>> /\ mishaps \subseteq mishaps'
    BY <1>1 DEF TellCscfs
  <2> QED BY <2>1
<1>2. ASSUME NEW p \in Procs, PersistFlag(p) PROVE SoleWorker'
  BY <1>2 DEF PersistFlag
<1>3. ASSUME NEW p \in Procs, SwitchThrows(p) PROVE SoleWorker'
  BY <1>3 DEF SwitchThrows, Switching
<1>4. ASSUME NEW p \in Operators, NEW on \in BOOLEAN, AskSwitch(p, on) PROVE SoleWorker'
  BY <1>4 DEF AskSwitch
<1>5. ASSUME NEW p \in Starters, StartCheck(p) PROVE SoleWorker'
  BY <1>5 DEF StartCheck
<1>6. ASSUME NEW p \in Starters, ReadTracing(p) PROVE SoleWorker'
  BY <1>6 DEF ReadTracing
<1>7. ASSUME NEW p \in Starters, Claim(p) PROVE SoleWorker'
  BY <1>7, NextUnused DEF Claim, Running, RunningOne
<1>8. ASSUME NEW p \in Starters, ClaimRefused(p) PROVE SoleWorker'
  BY <1>8 DEF ClaimRefused
<1>9. ASSUME NEW p \in Starters, SetScope(p) PROVE SoleWorker'
  BY <1>9 DEF SetScope
<1>10. ASSUME NEW p \in Starters, Launch(p) PROVE SoleWorker'
  BY <1>10 DEF Launch
<1>11. ASSUME NEW p \in Starters, Confirm(p) PROVE SoleWorker'
  BY <1>11 DEF Confirm
<1>12. ASSUME NEW p \in Starters, RecordCapture(p) PROVE SoleWorker'
  BY <1>12 DEF RecordCapture
<1>13. ASSUME NEW p \in Starters, Unwind(p) PROVE SoleWorker'
  BY <1>13 DEF Unwind
<1>14. ASSUME NEW p \in Starters, Fail(p) PROVE SoleWorker'
  BY <1>14 DEF Fail
<1>15. ASSUME NEW p \in Stoppers, AskStop(p) PROVE SoleWorker'
  BY <1>15 DEF AskStop
<1>16. ASSUME NEW p \in Finishers, Find(p) PROVE SoleWorker'
  <2>1. CASE Running = {}
    BY <1>16, <2>1 DEF Find
  <2>2. CASE Running # {}
    <3>1. PICK i \in Running : /\ sess' = [sess EXCEPT ![p] = i]
                               /\ mishaps' = IF \E q \in Procs : sess[q] = i THEN mishaps \cup {"overlap"} ELSE mishaps
                               /\ row' = row
      BY <1>16, <2>2 DEF Find
    <3>2. i \in Ids /\ row[i].status = "running" /\ i # 0
      BY DEF Running, Ids
    <3>3. \A q \in Procs : sess[q] # 0 => sess[q] \in Running \/ "overlap" \in mishaps
      BY DEF Running
    <3>4. \A q \in Procs : sess[q] # 0 => sess[q] = i \/ "overlap" \in mishaps
      BY <3>3 DEF RunningOne
    <3> QED BY <3>1, <3>2, <3>4
  <2> QED BY <2>1, <2>2
<1>17. ASSUME NEW p \in Finishers, ClearScope(p) PROVE SoleWorker'
  BY <1>17 DEF ClearScope
<1>18. ASSUME NEW p \in Finishers, MarkStopping(p) PROVE SoleWorker'
  BY <1>18 DEF MarkStopping
<1>19. ASSUME NEW p \in Finishers, StopUnit(p) PROVE SoleWorker'
  BY <1>19 DEF StopUnit
<1>20. ASSUME NEW p \in Finishers, RestoreTracing(p) PROVE SoleWorker'
  BY <1>20 DEF RestoreTracing
<1>21. ASSUME NEW p \in Finishers, Close(p) PROVE SoleWorker'
  BY <1>21 DEF Close
<1>22. ASSUME NEW p \in Procs, StoreFails(p) PROVE SoleWorker'
  BY <1>22 DEF StoreFails
<1>23. ASSUME NEW i \in Ids, Delete(i) PROVE SoleWorker'
  BY <1>23 DEF Delete, RunningOne
<1>24. ASSUME NEW i \in Ids, CaptureEnds(i) PROVE SoleWorker'
  BY <1>24 DEF CaptureEnds
<1>25. ASSUME Restart PROVE SoleWorker'
  BY <1>25 DEF Restart
<1>26. ASSUME UNCHANGED vars PROVE SoleWorker'
  BY <1>26 DEF vars
<1>27. ASSUME NEW p \in Procs, WriteIncludes(p) PROVE SoleWorker'
  BY <1>27 DEF WriteIncludes
<1>28. ASSUME CscfRestarts PROVE SoleWorker'
  BY <1>28 DEF CscfRestarts
<1> QED BY <1>1, <1>2, <1>3, <1>4, <1>5, <1>6, <1>7, <1>8, <1>9, <1>10, <1>11, <1>12, <1>13,
       <1>14, <1>15, <1>16, <1>17, <1>18, <1>19, <1>20, <1>21, <1>22, <1>23, <1>24, <1>25, <1>26,
       <1>27, <1>28
       DEF Next, Step

LEMMA SessInvariant == Spec => [](TypeInv /\ SessInv)
<1>1. Init => TypeInv /\ SessInv
  <2>1. Init => SessInv
    BY PartsDiffer DEF Init, SessInv, RunningOne, SoleWorker, Running, NoSession
  <2> QED BY <2>1, TypeInit
<1>2. TypeInv /\ SessInv /\ [Next]_vars => (TypeInv /\ SessInv)'
  BY TypeStep, OneStep, SoleStep DEF SessInv
<1> QED BY <1>1, <1>2, PTL DEF Spec

\* Of starts that race each other one gets a session: two are never being started, run or wound up
\* at once, unless a stop reached into one of them (call-debug-store.ts:77-83,
\* call-debug-session.ts:252-255).
THEOREM OneSessionTheorem == Spec => []OneSession
<1>1. TypeInv /\ SessInv => OneSession
  <2> SUFFICES ASSUME TypeInv, SessInv, "overlap" \notin mishaps PROVE OneSession
    BY DEF OneSession
  <2> DEFINE held == {sess[p] : p \in {q \in Starters : sess[q] # NoSession}}
             under == Running \cup held
  <2>1. held \subseteq Running
    BY PartsDiffer DEF SessInv, SoleWorker, Running, TypeInv, LocalsTyped, NoSession
  <2>2. \A i, j \in under : i = j
    BY <2>1 DEF SessInv, RunningOne
  <2>3. under = {} \/ \E i : under = {i}
    BY <2>2
  <2> HIDE DEF under
  <2>4. Cardinality(under) = 0 \/ Cardinality(under) = 1
    BY <2>3, FS_EmptySet, FS_Singleton
  <2> QED BY <2>4 DEF OneSession, under
<1> QED BY <1>1, SessInvariant, PTL

(***************************************************************************)
(* The filter follows the session.                                         *)
(***************************************************************************)

Undoing(p) == pc[p] = "fail" \/ (pc[p] \in SwitchLabels /\ back[p] = "fail")

(* What the filter is at each point of a start and of a stop; a session    *)
(* nobody works on has it, except while reconcile() is to look for one.    *)
FilterTrue ==
    mishaps \cap {"overlap", "row"} = {} =>
        /\ filter # NoSession => filter \in Running
        /\ \A p \in Finishers : sess[p] # NoSession /\ pc[p] # "clear" => filter # sess[p]
        /\ \A p \in Starters :
              /\ pc[p] \in {"launch", "confirm", "record"} => filter = sess[p]
              /\ Undoing(p) => filter = NoSession
        /\ \A i \in Running :
              (\A p \in Procs : sess[p] # i) /\ pc[Boot] # "find" => filter = i

\* The filter is set, cleared and kept as the session goes on.
LEMMA FilterStep ==
    ASSUME TypeInv, SessInv, FilterTrue, [Next]_vars
    PROVE  FilterTrue'
<1> USE PartsDiffer, NextUnused DEF Goto, Answer, Trouble, Note, NoteIf, Switch, Update, host,
        locals, counts, NoSession, TypeInv, StoreTyped, LocalsTyped, StartersAtWork,
        HandlersProper, StartersProper, FinishersProper, OperatorsProper, SwitchLabels,
        StarterLabels, FinisherLabels, OperatorLabels, Running, SessInv, RunningOne, SoleWorker,
        FilterTrue, Undoing, Finishers
<1>1. ASSUME NEW p \in Procs, TellCscfs(p) PROVE FilterTrue'
  <2>1. UNCHANGED <<row, filter, sess>> /\ mishaps \subseteq mishaps'
    BY <1>1 DEF TellCscfs
  <2>2. pc[p] = "rpc" /\ pc' = [pc EXCEPT ![p] = "persist"]
    BY <1>1 DEF TellCscfs
  <2>3. \A q \in Procs : back'[q] = "fail" => back[q] = "fail"
    <3>1. back' = back \/ back' = [back EXCEPT ![p] = IF @ = "scope" THEN "unwind" ELSE @]
      BY <1>1, Zenon DEF TellCscfs
    <3> QED BY <3>1
  <2> QED BY <2>1, <2>2, <2>3
<1>2. ASSUME NEW p \in Procs, PersistFlag(p) PROVE FilterTrue'
  BY <1>2 DEF PersistFlag
<1>3. ASSUME NEW p \in Procs, SwitchThrows(p) PROVE FilterTrue'
  BY <1>3 DEF SwitchThrows, Switching
<1>4. ASSUME NEW p \in Operators, NEW on \in BOOLEAN, AskSwitch(p, on) PROVE FilterTrue'
  BY <1>4 DEF AskSwitch
<1>5. ASSUME NEW p \in Starters, StartCheck(p) PROVE FilterTrue'
  BY <1>5 DEF StartCheck
<1>6. ASSUME NEW p \in Starters, ReadTracing(p) PROVE FilterTrue'
  BY <1>6 DEF ReadTracing
<1>7. ASSUME NEW p \in Starters, Claim(p) PROVE FilterTrue'
  BY <1>7 DEF Claim
<1>8. ASSUME NEW p \in Starters, ClaimRefused(p) PROVE FilterTrue'
  BY <1>8 DEF ClaimRefused
<1>9. ASSUME NEW p \in Starters, SetScope(p) PROVE FilterTrue'
  BY <1>9 DEF SetScope
<1>10. ASSUME NEW p \in Starters, Launch(p) PROVE FilterTrue'
  BY <1>10 DEF Launch
<1>11. ASSUME NEW p \in Starters, Confirm(p) PROVE FilterTrue'
  BY <1>11 DEF Confirm
<1>12. ASSUME NEW p \in Starters, RecordCapture(p) PROVE FilterTrue'
  BY <1>12 DEF RecordCapture
<1>13. ASSUME NEW p \in Starters, Unwind(p) PROVE FilterTrue'
  BY <1>13 DEF Unwind
<1>14. ASSUME NEW p \in Starters, Fail(p) PROVE FilterTrue'
  BY <1>14 DEF Fail
<1>15. ASSUME NEW p \in Stoppers, AskStop(p) PROVE FilterTrue'
  BY <1>15 DEF AskStop
<1>16. ASSUME NEW p \in Finishers, Find(p) PROVE FilterTrue'
  BY <1>16 DEF Find
<1>17. ASSUME NEW p \in Finishers, ClearScope(p) PROVE FilterTrue'
  BY <1>17 DEF ClearScope
<1>18. ASSUME NEW p \in Finishers, MarkStopping(p) PROVE FilterTrue'
  BY <1>18 DEF MarkStopping
<1>19. ASSUME NEW p \in Finishers, StopUnit(p) PROVE FilterTrue'
  BY <1>19 DEF StopUnit
<1>20. ASSUME NEW p \in Finishers, RestoreTracing(p) PROVE FilterTrue'
  BY <1>20 DEF RestoreTracing
<1>21. ASSUME NEW p \in Finishers, Close(p) PROVE FilterTrue'
  BY <1>21 DEF Close
<1>22. ASSUME NEW p \in Procs, StoreFails(p) PROVE FilterTrue'
  <2>1. CASE pc[p] \in {"confirm", "record"}
    BY <1>22, <2>1 DEF StoreFails
  <2>2. CASE pc[p] \notin {"confirm", "record"}
    BY <1>22, <2>2 DEF StoreFails
  <2> QED BY <2>1, <2>2
<1>23. ASSUME NEW i \in Ids, Delete(i) PROVE FilterTrue'
  BY <1>23 DEF Delete
<1>24. ASSUME NEW i \in Ids, CaptureEnds(i) PROVE FilterTrue'
  BY <1>24 DEF CaptureEnds
<1>25. ASSUME Restart PROVE FilterTrue'
  BY <1>25 DEF Restart
<1>26. ASSUME UNCHANGED vars PROVE FilterTrue'
  BY <1>26 DEF vars
<1>27. ASSUME NEW p \in Procs, WriteIncludes(p) PROVE FilterTrue'
  BY <1>27 DEF WriteIncludes
<1>28. ASSUME CscfRestarts PROVE FilterTrue'
  BY <1>28 DEF CscfRestarts
<1> QED BY <1>1, <1>2, <1>3, <1>4, <1>5, <1>6, <1>7, <1>8, <1>9, <1>10, <1>11, <1>12, <1>13,
       <1>14, <1>15, <1>16, <1>17, <1>18, <1>19, <1>20, <1>21, <1>22, <1>23, <1>24, <1>25, <1>26,
       <1>27, <1>28
       DEF Next, Step

LEMMA FilterInvariant == Spec => []FilterTrue
<1>1. Init => FilterTrue
  BY PartsDiffer DEF Init, FilterTrue, Undoing, SwitchLabels, Running, NoSession
<1>2. TypeInv /\ SessInv /\ FilterTrue /\ [Next]_vars => FilterTrue'
  BY FilterStep
<1> QED BY <1>1, <1>2, SessInvariant, PTL DEF Spec

\* With no handler under way, and if nothing failed to be undone, the collector is scoped to the
\* session that is running, and to none if none is (call-debug-session.ts:282-287, 345-349, 392-401).
THEOREM ScopeTheorem == Spec => []ScopeFollowsSession
<1>1. TypeInv /\ SessInv /\ FilterTrue => ScopeFollowsSession
  <2> SUFFICES ASSUME TypeInv, SessInv, FilterTrue, Quiet, mishaps \cap {"overlap", "row"} = {}
               PROVE  filter = IF Running = {} THEN NoSession ELSE CHOOSE i \in Running : TRUE
    BY DEF ScopeFollowsSession
  <2>1. \A p \in Procs : pc[p] = "idle" /\ sess[p] = NoSession
    BY PartsDiffer DEF Quiet, TypeInv, StartersAtWork, HandlersProper, FinishersProper,
       OperatorsProper
  <2>2. \A i \in Running : filter = i
    BY <2>1, PartsDiffer DEF FilterTrue, Finishers, Running, Ids, NoSession
  <2>3. Running = {} => filter = NoSession
    BY DEF FilterTrue
  <2> QED BY <2>2, <2>3
<1> QED BY <1>1, SessInvariant, FilterInvariant, PTL

(***************************************************************************)
(* Tracing goes off with the session that put it on.                       *)
(***************************************************************************)

(* Handlers switch one at a time.                                          *)
OneSwitch == \A p, q \in Procs : pc[p] \in SwitchLabels /\ pc[q] \in SwitchLabels => p = q

(* The flag is behind the CSCFs and their files only while a handler is    *)
(* about to write it.                                                      *)
FlagTrue ==
    /\ live \/ include => flag \/ \E p \in Procs : pc[p] \in {"rpc", "persist"} /\ goal[p]
    /\ \A p \in Procs : pc[p] = "persist" /\ ~ goal[p] => ~ live

(* What a handler knows of its session.                                    *)
WasTrue ==
    /\ \A p \in Procs : sess[p] # NoSession => was[p] = row[sess[p]].was
    /\ \A p \in Starters : pc[p] \in SwitchLabels => ~ was[p]

(* Tracing that nobody asked for is owed by a running session, until the   *)
(* handler that ends it has switched it off.                               *)
TracingOwed ==
    /\ live \/ include => wanted \/ \E i \in Running : ~ row[i].was
    /\ \A p \in Procs : pc[p] \in {"close", "fail"} => (live \/ include => wanted)
    /\ \A p \in Operators : pc[p] \in SwitchLabels /\ goal[p] => wanted

Untouched == mishaps \cap {"overlap", "tracing"} = {}
TracingInv == Untouched => OneSwitch /\ FlagTrue /\ WasTrue /\ TracingOwed

LEMMA LiveTold ==
    ASSUME TypeInv, NEW p \in Procs, TellCscfs(p)
    PROVE  /\ pc[p] = "rpc" /\ pc' = [pc EXCEPT ![p] = "persist"]
           /\ mishaps \subseteq mishaps' /\ UNCHANGED <<row, flag, include, sess, was, goal, wanted>>
           /\ ~ goal[p] => ~ live' \/ "tracing" \in mishaps'
           /\ live' => live \/ goal[p]
<1> USE DEF TellCscfs, Goto, Note, TypeInv, FlagsTyped, LocalsTyped
<1>1. pc[p] = "rpc" /\ pc' = [pc EXCEPT ![p] = "persist"]
  OBVIOUS
<1>2. UNCHANGED <<row, flag, include, sess, was, goal, wanted>>
  OBVIOUS
<1>3. mishaps \subseteq mishaps'
  OBVIOUS
<1>4. ~ goal[p] => ~ live' \/ "tracing" \in mishaps'
  BY Zenon
<1>5. live' => live \/ goal[p]
  BY Zenon
<1> QED BY <1>1, <1>2, <1>3, <1>4, <1>5

\* A handler that does not switch does not disturb; one that begins to is the only one.
LEMMA OneMoreSwitch ==
    ASSUME LocalsTyped, OneSwitch, NEW p \in Procs, NEW l, l \notin SwitchLabels,
           \/ pc' = [pc EXCEPT ![p] = l]
           \/ \E k \in SwitchLabels : pc' = [pc EXCEPT ![p] = k] /\ Switching = {}
    PROVE  OneSwitch'
BY DEF LocalsTyped, OneSwitch, Switching, SwitchLabels

LEMMA UpdateKeeps ==
    ASSUME StoreTyped, NEW i \in Ids, NEW status \in Statuses, Update(i, status)
    PROVE  \A j \in Ids : /\ row'[j].was = row[j].was /\ row'[j].pcap = row[j].pcap
                        /\ j # i => row'[j] = row[j]
<1>1. CASE row[i].status \in {"none", "deleted"}
  BY <1>1 DEF Update
<1>2. CASE row[i].status \notin {"none", "deleted"}
  <2>1. row' = [row EXCEPT ![i].status = status]
    BY <1>2 DEF Update
  <2>2. DOMAIN row = Ids /\ \A j \in Ids : DOMAIN row[j] = {"status", "was", "pcap"}
    BY DEF StoreTyped
  <2> QED BY <2>1, <2>2
<1> QED BY <1>1, <1>2

\* What a handler remembers stays true while its row and its memory stay.
LEMMA WasKept ==
    ASSUME WasTrue, LocalsTyped, pc \in [Procs -> Labels],
           \A q \in Procs : sess'[q] # NoSession =>
              sess'[q] = sess[q] /\ was'[q] = was[q] /\ row'[sess[q]].was = row[sess[q]].was,
           \A q \in Starters : pc'[q] \in SwitchLabels =>
              ~ was'[q] \/ (pc[q] \in SwitchLabels /\ was'[q] = was[q])
    PROVE  WasTrue'
<1>1. ASSUME NEW q \in Procs, sess'[q] # NoSession PROVE was'[q] = row'[sess'[q]].was
  BY <1>1, SMT DEF WasTrue
<1>2. ASSUME NEW q \in Starters, pc'[q] \in SwitchLabels PROVE ~ was'[q]
  <2>1. \A r \in Starters : pc[r] \in SwitchLabels => ~ was[r]
    BY DEF WasTrue
  <2> QED BY <1>2, <2>1, Zenon
<1> QED BY <1>1, <1>2, Zenon DEF WasTrue

\* A switch that begins beside another is noted.
LEMMA SwitchesStep ==
    ASSUME TypeInv, SessInv, TracingInv, Untouched', [Next]_vars
    PROVE  OneSwitch'
<1> USE PartsDiffer DEF Goto, Answer, Trouble, Note, NoteIf, Switch, Update, host, locals,
        counts, NoSession, TypeInv, StoreTyped, LocalsTyped, FlagsTyped, StartersAtWork,
        HandlersProper, StartersProper, FinishersProper, OperatorsProper, SwitchLabels,
        StarterLabels, FinisherLabels, OperatorLabels, Untouched, TracingInv, Switching,
        OneSwitch
<1>1. ASSUME NEW p \in Procs, TellCscfs(p) PROVE OneSwitch'
  BY <1>1, LiveTold DEF TellCscfs
<1>2. ASSUME NEW p \in Procs, PersistFlag(p) PROVE OneSwitch'
  BY <1>2 DEF PersistFlag
<1>3. ASSUME NEW p \in Procs, SwitchThrows(p) PROVE OneSwitch'
  BY <1>3 DEF SwitchThrows, Switching
<1>4. ASSUME NEW p \in Operators, NEW on \in BOOLEAN, AskSwitch(p, on) PROVE OneSwitch'
  <2>0. Untouched
    BY <1>4 DEF AskSwitch
  <2>1. \/ pc' = [pc EXCEPT ![p] = "idle"]
        \/ \E k \in {"include", "rpc"} : pc' = [pc EXCEPT ![p] = k] /\ Switching = {}
    BY <1>4 DEF AskSwitch
  <2> QED BY <2>0, <2>1, OneMoreSwitch
<1>5. ASSUME NEW p \in Starters, StartCheck(p) PROVE OneSwitch'
  BY <1>5 DEF StartCheck
<1>6. ASSUME NEW p \in Starters, ReadTracing(p) PROVE OneSwitch'
  BY <1>6 DEF ReadTracing
<1>7. ASSUME NEW p \in Starters, Claim(p) PROVE OneSwitch'
  <2>0. Untouched
    BY <1>7 DEF Claim
  <2>1. \/ pc' = [pc EXCEPT ![p] = "scope"]
        \/ \E k \in {"include", "rpc"} : pc' = [pc EXCEPT ![p] = k] /\ Switching = {}
    BY <1>7 DEF Claim
  <2> QED BY <2>0, <2>1, OneMoreSwitch
<1>8. ASSUME NEW p \in Starters, ClaimRefused(p) PROVE OneSwitch'
  BY <1>8 DEF ClaimRefused
<1>9. ASSUME NEW p \in Starters, SetScope(p) PROVE OneSwitch'
  BY <1>9 DEF SetScope
<1>10. ASSUME NEW p \in Starters, Launch(p) PROVE OneSwitch'
  BY <1>10 DEF Launch
<1>11. ASSUME NEW p \in Starters, Confirm(p) PROVE OneSwitch'
  BY <1>11 DEF Confirm
<1>12. ASSUME NEW p \in Starters, RecordCapture(p) PROVE OneSwitch'
  BY <1>12 DEF RecordCapture
<1>13. ASSUME NEW p \in Starters, Unwind(p) PROVE OneSwitch'
  <2>0. Untouched
    BY <1>13 DEF Unwind
  <2>1. \/ pc' = [pc EXCEPT ![p] = "fail"]
        \/ \E k \in {"include", "rpc"} : pc' = [pc EXCEPT ![p] = k] /\ Switching = {}
    BY <1>13 DEF Unwind
  <2> QED BY <2>0, <2>1, OneMoreSwitch
<1>14. ASSUME NEW p \in Starters, Fail(p) PROVE OneSwitch'
  BY <1>14 DEF Fail
<1>15. ASSUME NEW p \in Stoppers, AskStop(p) PROVE OneSwitch'
  BY <1>15 DEF AskStop
<1>16. ASSUME NEW p \in Finishers, Find(p) PROVE OneSwitch'
  BY <1>16 DEF Find
<1>17. ASSUME NEW p \in Finishers, ClearScope(p) PROVE OneSwitch'
  BY <1>17 DEF ClearScope
<1>18. ASSUME NEW p \in Finishers, MarkStopping(p) PROVE OneSwitch'
  BY <1>18 DEF MarkStopping
<1>19. ASSUME NEW p \in Finishers, StopUnit(p) PROVE OneSwitch'
  BY <1>19 DEF StopUnit
<1>20. ASSUME NEW p \in Finishers, RestoreTracing(p) PROVE OneSwitch'
  <2>0. Untouched
    BY <1>20 DEF RestoreTracing
  <2>1. \/ pc' = [pc EXCEPT ![p] = "close"]
        \/ \E k \in {"include", "rpc"} : pc' = [pc EXCEPT ![p] = k] /\ Switching = {}
    BY <1>20 DEF RestoreTracing
  <2> QED BY <2>0, <2>1, OneMoreSwitch
<1>21. ASSUME NEW p \in Finishers, Close(p) PROVE OneSwitch'
  BY <1>21 DEF Close
<1>22. ASSUME NEW p \in Procs, StoreFails(p) PROVE OneSwitch'
  BY <1>22 DEF StoreFails
<1>23. ASSUME NEW i \in Ids, Delete(i) PROVE OneSwitch'
  BY <1>23 DEF Delete
<1>24. ASSUME NEW i \in Ids, CaptureEnds(i) PROVE OneSwitch'
  BY <1>24 DEF CaptureEnds
<1>25. ASSUME Restart PROVE OneSwitch'
  BY <1>25 DEF Restart
<1>26. ASSUME UNCHANGED vars PROVE OneSwitch'
  BY <1>26 DEF vars
<1>27. ASSUME NEW p \in Procs, WriteIncludes(p) PROVE OneSwitch'
  BY <1>27 DEF WriteIncludes
<1>28. ASSUME CscfRestarts PROVE OneSwitch'
  BY <1>28 DEF CscfRestarts
<1> QED BY <1>1, <1>2, <1>3, <1>4, <1>5, <1>6, <1>7, <1>8, <1>9, <1>10, <1>11, <1>12, <1>13,
       <1>14, <1>15, <1>16, <1>17, <1>18, <1>19, <1>20, <1>21, <1>22, <1>23, <1>24, <1>25, <1>26,
       <1>27, <1>28
       DEF Next, Step

\* The flag is written after the CSCFs are told.
LEMMA FlagStep ==
    ASSUME TypeInv, SessInv, TracingInv, Untouched', [Next]_vars
    PROVE  FlagTrue'
<1> USE PartsDiffer DEF Goto, Answer, Trouble, Note, NoteIf, Switch, Update, host, locals,
        counts, NoSession, TypeInv, StoreTyped, LocalsTyped, FlagsTyped, StartersAtWork,
        HandlersProper, StartersProper, FinishersProper, OperatorsProper, SwitchLabels,
        StarterLabels, FinisherLabels, OperatorLabels, Untouched, TracingInv, Switching,
        OneSwitch, FlagTrue
<1>1. ASSUME NEW p \in Procs, TellCscfs(p) PROVE FlagTrue'
  <2> USE <1>1, LiveTold
  <2>1. Untouched /\ "tracing" \notin mishaps'
    OBVIOUS
  <2>2. live' \/ include' => flag' \/ \E q \in Procs : pc'[q] \in {"rpc", "persist"} /\ goal'[q]
    <3>1. CASE goal[p]
      BY <3>1
    <3>2. CASE ~ goal[p]
      <4>1. \A q \in Procs : pc[q] \in {"rpc", "persist"} /\ goal[q] => q # p
        BY <3>2
      <4> QED BY <2>1, <3>2, <4>1
    <3> QED BY <3>1, <3>2
  <2>3. ASSUME NEW q \in Procs, pc'[q] = "persist", ~ goal'[q] PROVE ~ live'
    <3>1. CASE q = p
      BY <2>1, <2>3, <3>1
    <3>2. CASE q # p
      BY <2>1, <2>3, <3>2
    <3> QED BY <3>1, <3>2
  <2> QED BY <2>2, <2>3
<1>2. ASSUME NEW p \in Procs, PersistFlag(p) PROVE FlagTrue'
  BY <1>2 DEF PersistFlag
<1>3. ASSUME NEW p \in Procs, SwitchThrows(p) PROVE FlagTrue'
  BY <1>3 DEF SwitchThrows, Switching
<1>4. ASSUME NEW p \in Operators, NEW on \in BOOLEAN, AskSwitch(p, on) PROVE FlagTrue'
  BY <1>4 DEF AskSwitch
<1>5. ASSUME NEW p \in Starters, StartCheck(p) PROVE FlagTrue'
  BY <1>5 DEF StartCheck
<1>6. ASSUME NEW p \in Starters, ReadTracing(p) PROVE FlagTrue'
  BY <1>6 DEF ReadTracing
<1>7. ASSUME NEW p \in Starters, Claim(p) PROVE FlagTrue'
  BY <1>7 DEF Claim
<1>8. ASSUME NEW p \in Starters, ClaimRefused(p) PROVE FlagTrue'
  BY <1>8 DEF ClaimRefused
<1>9. ASSUME NEW p \in Starters, SetScope(p) PROVE FlagTrue'
  BY <1>9 DEF SetScope
<1>10. ASSUME NEW p \in Starters, Launch(p) PROVE FlagTrue'
  BY <1>10 DEF Launch
<1>11. ASSUME NEW p \in Starters, Confirm(p) PROVE FlagTrue'
  BY <1>11 DEF Confirm
<1>12. ASSUME NEW p \in Starters, RecordCapture(p) PROVE FlagTrue'
  BY <1>12 DEF RecordCapture
<1>13. ASSUME NEW p \in Starters, Unwind(p) PROVE FlagTrue'
  BY <1>13 DEF Unwind
<1>14. ASSUME NEW p \in Starters, Fail(p) PROVE FlagTrue'
  BY <1>14 DEF Fail
<1>15. ASSUME NEW p \in Stoppers, AskStop(p) PROVE FlagTrue'
  BY <1>15 DEF AskStop
<1>16. ASSUME NEW p \in Finishers, Find(p) PROVE FlagTrue'
  BY <1>16 DEF Find
<1>17. ASSUME NEW p \in Finishers, ClearScope(p) PROVE FlagTrue'
  BY <1>17 DEF ClearScope
<1>18. ASSUME NEW p \in Finishers, MarkStopping(p) PROVE FlagTrue'
  BY <1>18 DEF MarkStopping
<1>19. ASSUME NEW p \in Finishers, StopUnit(p) PROVE FlagTrue'
  BY <1>19 DEF StopUnit
<1>20. ASSUME NEW p \in Finishers, RestoreTracing(p) PROVE FlagTrue'
  BY <1>20 DEF RestoreTracing
<1>21. ASSUME NEW p \in Finishers, Close(p) PROVE FlagTrue'
  BY <1>21 DEF Close
<1>22. ASSUME NEW p \in Procs, StoreFails(p) PROVE FlagTrue'
  BY <1>22 DEF StoreFails
<1>23. ASSUME NEW i \in Ids, Delete(i) PROVE FlagTrue'
  BY <1>23 DEF Delete
<1>24. ASSUME NEW i \in Ids, CaptureEnds(i) PROVE FlagTrue'
  BY <1>24 DEF CaptureEnds
<1>25. ASSUME Restart PROVE FlagTrue'
  <2>1. ~ TracingCut /\ Untouched
    BY <1>25 DEF Restart
  <2>2. ~ (live \/ include) \/ flag
    BY <2>1 DEF TracingCut
  <2> QED BY <1>25, <2>2 DEF Restart
<1>26. ASSUME UNCHANGED vars PROVE FlagTrue'
  BY <1>26 DEF vars
<1>27. ASSUME NEW p \in Procs, WriteIncludes(p) PROVE FlagTrue'
  BY <1>27 DEF WriteIncludes
<1>28. ASSUME CscfRestarts PROVE FlagTrue'
  BY <1>28 DEF CscfRestarts
<1> QED BY <1>1, <1>2, <1>3, <1>4, <1>5, <1>6, <1>7, <1>8, <1>9, <1>10, <1>11, <1>12, <1>13,
       <1>14, <1>15, <1>16, <1>17, <1>18, <1>19, <1>20, <1>21, <1>22, <1>23, <1>24, <1>25, <1>26,
       <1>27, <1>28
       DEF Next, Step

\* Whether tracing was on is remembered in the row.
LEMMA WasStep ==
    ASSUME TypeInv, SessInv, TracingInv, Untouched', [Next]_vars
    PROVE  WasTrue'
<1> USE PartsDiffer DEF Goto, Answer, Trouble, Note, NoteIf, Switch, Update, host, locals,
        counts, NoSession, TypeInv, StoreTyped, LocalsTyped, FlagsTyped, StartersAtWork,
        HandlersProper, StartersProper, FinishersProper, OperatorsProper, SwitchLabels,
        StarterLabels, FinisherLabels, OperatorLabels, Untouched, TracingInv, Switching,
        WasTrue, SessInv, SoleWorker
<1>1. ASSUME NEW p \in Procs, TellCscfs(p) PROVE WasTrue'
  BY <1>1, LiveTold DEF TellCscfs
<1>2. ASSUME NEW p \in Procs, PersistFlag(p) PROVE WasTrue'
  BY <1>2 DEF PersistFlag
<1>3. ASSUME NEW p \in Procs, SwitchThrows(p) PROVE WasTrue'
  BY <1>3 DEF SwitchThrows, Switching
<1>4. ASSUME NEW p \in Operators, NEW on \in BOOLEAN, AskSwitch(p, on) PROVE WasTrue'
  BY <1>4 DEF AskSwitch
<1>5. ASSUME NEW p \in Starters, StartCheck(p) PROVE WasTrue'
  BY <1>5 DEF StartCheck
<1>6. ASSUME NEW p \in Starters, ReadTracing(p) PROVE WasTrue'
  BY <1>6 DEF ReadTracing
<1>7. ASSUME NEW p \in Starters, Claim(p) PROVE WasTrue'
  <2>1. NextId \in Ids /\ NextId # 0 /\ \A q \in Procs : sess[q] = 0
    BY <1>7, NextUnused DEF Claim, Ids, Running
  <2>2. row'[NextId].was = was[p] /\ sess' = [sess EXCEPT ![p] = NextId] /\ UNCHANGED was
    BY <1>7, <2>1 DEF Claim
  <2>3. \A q \in Procs : sess'[q] # 0 => q = p
    BY <2>1, <2>2
  <2>4. \A q \in Procs : sess'[q] # 0 => was'[q] = row'[sess'[q]].was
    BY <2>1, <2>2, <2>3
  <2>5. \A q \in Starters : pc'[q] \in SwitchLabels => ~ was'[q]
    BY <1>7 DEF Claim
  <2> QED BY <2>4, <2>5
<1>8. ASSUME NEW p \in Starters, ClaimRefused(p) PROVE WasTrue'
  BY <1>8 DEF ClaimRefused
<1>9. ASSUME NEW p \in Starters, SetScope(p) PROVE WasTrue'
  BY <1>9 DEF SetScope
<1>10. ASSUME NEW p \in Starters, Launch(p) PROVE WasTrue'
  BY <1>10 DEF Launch
<1>11. ASSUME NEW p \in Starters, Confirm(p) PROVE WasTrue'
  BY <1>11 DEF Confirm
<1>12. ASSUME NEW p \in Starters, RecordCapture(p) PROVE WasTrue'
  <2>0. Untouched
    BY <1>12 DEF RecordCapture
  <2>1. \A q \in Procs : sess'[q] # NoSession =>
          sess'[q] = sess[q] /\ was'[q] = was[q] /\ row'[sess[q]].was = row[sess[q]].was
    BY <1>12, <2>0 DEF RecordCapture
  <2>2. \A q \in Starters : pc'[q] \in SwitchLabels =>
          ~ was'[q] \/ (pc[q] \in SwitchLabels /\ was'[q] = was[q])
    BY <1>12 DEF RecordCapture
  <2> QED BY <2>0, <2>1, <2>2, WasKept
<1>13. ASSUME NEW p \in Starters, Unwind(p) PROVE WasTrue'
  BY <1>13 DEF Unwind
<1>14. ASSUME NEW p \in Starters, Fail(p) PROVE WasTrue'
  <2>0. Untouched
    BY <1>14 DEF Fail
  <2>1. \A q \in Procs : sess'[q] # NoSession =>
          sess'[q] = sess[q] /\ was'[q] = was[q] /\ row'[sess[q]].was = row[sess[q]].was
    BY <1>14, <2>0 DEF Fail
  <2>2. \A q \in Starters : pc'[q] \in SwitchLabels =>
          ~ was'[q] \/ (pc[q] \in SwitchLabels /\ was'[q] = was[q])
    BY <1>14 DEF Fail
  <2> QED BY <2>0, <2>1, <2>2, WasKept
<1>15. ASSUME NEW p \in Stoppers, AskStop(p) PROVE WasTrue'
  BY <1>15 DEF AskStop
<1>16. ASSUME NEW p \in Finishers, Find(p) PROVE WasTrue'
  BY <1>16 DEF Find
<1>17. ASSUME NEW p \in Finishers, ClearScope(p) PROVE WasTrue'
  BY <1>17 DEF ClearScope
<1>18. ASSUME NEW p \in Finishers, MarkStopping(p) PROVE WasTrue'
  BY <1>18 DEF MarkStopping
<1>19. ASSUME NEW p \in Finishers, StopUnit(p) PROVE WasTrue'
  BY <1>19 DEF StopUnit
<1>20. ASSUME NEW p \in Finishers, RestoreTracing(p) PROVE WasTrue'
  BY <1>20 DEF RestoreTracing
<1>21. ASSUME NEW p \in Finishers, Close(p) PROVE WasTrue'
  <2>0. Untouched
    BY <1>21 DEF Close
  <2>1. \A q \in Procs : sess'[q] # NoSession =>
          sess'[q] = sess[q] /\ was'[q] = was[q] /\ row'[sess[q]].was = row[sess[q]].was
    BY <1>21, <2>0 DEF Close
  <2>2. \A q \in Starters : pc'[q] \in SwitchLabels =>
          ~ was'[q] \/ (pc[q] \in SwitchLabels /\ was'[q] = was[q])
    BY <1>21 DEF Close
  <2> QED BY <2>0, <2>1, <2>2, WasKept
<1>22. ASSUME NEW p \in Procs, StoreFails(p) PROVE WasTrue'
  BY <1>22 DEF StoreFails
<1>23. ASSUME NEW i \in Ids, Delete(i) PROVE WasTrue'
  <2>0. Untouched
    BY <1>23 DEF Delete
  <2>1. \A q \in Procs : sess'[q] # NoSession =>
          sess'[q] = sess[q] /\ was'[q] = was[q] /\ row'[sess[q]].was = row[sess[q]].was
    <3>1. UNCHANGED <<sess, was>> /\ \A j \in Ids : j # i => row'[j] = row[j]
      BY <1>23 DEF Delete
    <3>2. \A q \in Procs : sess[q] # 0 => sess[q] \in Ids /\ sess[q] # i
      BY <1>23, <2>0 DEF Delete
    <3> QED BY <3>1, <3>2
  <2>2. \A q \in Starters : pc'[q] \in SwitchLabels =>
          ~ was'[q] \/ (pc[q] \in SwitchLabels /\ was'[q] = was[q])
    BY <1>23 DEF Delete
  <2> QED BY <2>0, <2>1, <2>2, WasKept
<1>24. ASSUME NEW i \in Ids, CaptureEnds(i) PROVE WasTrue'
  BY <1>24 DEF CaptureEnds
<1>25. ASSUME Restart PROVE WasTrue'
  BY <1>25 DEF Restart
<1>26. ASSUME UNCHANGED vars PROVE WasTrue'
  BY <1>26 DEF vars
<1>27. ASSUME NEW p \in Procs, WriteIncludes(p) PROVE WasTrue'
  BY <1>27 DEF WriteIncludes
<1>28. ASSUME CscfRestarts PROVE WasTrue'
  BY <1>28 DEF CscfRestarts
<1> QED BY <1>1, <1>2, <1>3, <1>4, <1>5, <1>6, <1>7, <1>8, <1>9, <1>10, <1>11, <1>12, <1>13,
       <1>14, <1>15, <1>16, <1>17, <1>18, <1>19, <1>20, <1>21, <1>22, <1>23, <1>24, <1>25, <1>26,
       <1>27, <1>28
       DEF Next, Step

\* A handler that ends a session switches off what the session owes.
LEMMA OwedStep ==
    ASSUME TypeInv, SessInv, TracingInv, Untouched', [Next]_vars
    PROVE  TracingOwed'
<1> USE PartsDiffer DEF Goto, Answer, Trouble, Note, NoteIf, Switch, Update, host, locals,
        counts, NoSession, TypeInv, StoreTyped, LocalsTyped, FlagsTyped, StartersAtWork,
        HandlersProper, StartersProper, FinishersProper, OperatorsProper, SwitchLabels,
        StarterLabels, FinisherLabels, OperatorLabels, Untouched, TracingInv, Switching,
        OneSwitch, FlagTrue, WasTrue, TracingOwed, SessInv, SoleWorker, RunningOne, Running
<1>1. ASSUME NEW p \in Procs, TellCscfs(p) PROVE TracingOwed'
  <2> USE <1>1, LiveTold
  <2>1. Untouched
    OBVIOUS
  <2>2. goal[p] => wanted \/ (p \in Starters /\ sess[p] # 0 /\ ~ row[sess[p]].was /\ sess[p] \in Running)
    BY <2>1
  <2>3. live' => wanted' \/ \E i \in Running' : ~ row'[i].was
    BY <2>1, <2>2
  <2>4. ASSUME NEW q \in Procs, pc'[q] \in {"close", "fail"}, live' PROVE wanted'
    <3>1. q # p /\ pc[q] = pc'[q] /\ sess[q] # 0
      BY <2>4
    <3> QED BY <2>1, <2>2, <2>4, <3>1
  <2>5. \A q \in Operators : pc'[q] \in SwitchLabels /\ goal'[q] => wanted'
    BY <2>1
  <2> QED BY <2>3, <2>4, <2>5
<1>2. ASSUME NEW p \in Procs, PersistFlag(p) PROVE TracingOwed'
  BY <1>2 DEF PersistFlag
<1>3. ASSUME NEW p \in Procs, SwitchThrows(p) PROVE TracingOwed'
  BY <1>3 DEF SwitchThrows, Switching
<1>4. ASSUME NEW p \in Operators, NEW on \in BOOLEAN, AskSwitch(p, on) PROVE TracingOwed'
  BY <1>4 DEF AskSwitch
<1>5. ASSUME NEW p \in Starters, StartCheck(p) PROVE TracingOwed'
  BY <1>5 DEF StartCheck
<1>6. ASSUME NEW p \in Starters, ReadTracing(p) PROVE TracingOwed'
  BY <1>6 DEF ReadTracing
<1>7. ASSUME NEW p \in Starters, Claim(p) PROVE TracingOwed'
  BY <1>7, NextUnused DEF Claim
<1>8. ASSUME NEW p \in Starters, ClaimRefused(p) PROVE TracingOwed'
  BY <1>8 DEF ClaimRefused
<1>9. ASSUME NEW p \in Starters, SetScope(p) PROVE TracingOwed'
  BY <1>9 DEF SetScope
<1>10. ASSUME NEW p \in Starters, Launch(p) PROVE TracingOwed'
  BY <1>10 DEF Launch
<1>11. ASSUME NEW p \in Starters, Confirm(p) PROVE TracingOwed'
  BY <1>11 DEF Confirm
<1>12. ASSUME NEW p \in Starters, RecordCapture(p) PROVE TracingOwed'
  BY <1>12 DEF RecordCapture
<1>13. ASSUME NEW p \in Starters, Unwind(p) PROVE TracingOwed'
  BY <1>13 DEF Unwind
<1>14. ASSUME NEW p \in Starters, Fail(p) PROVE TracingOwed'
  BY <1>14 DEF Fail
<1>15. ASSUME NEW p \in Stoppers, AskStop(p) PROVE TracingOwed'
  BY <1>15 DEF AskStop
<1>16. ASSUME NEW p \in Finishers, Find(p) PROVE TracingOwed'
  BY <1>16 DEF Find
<1>17. ASSUME NEW p \in Finishers, ClearScope(p) PROVE TracingOwed'
  BY <1>17 DEF ClearScope
<1>18. ASSUME NEW p \in Finishers, MarkStopping(p) PROVE TracingOwed'
  BY <1>18 DEF MarkStopping
<1>19. ASSUME NEW p \in Finishers, StopUnit(p) PROVE TracingOwed'
  BY <1>19 DEF StopUnit
<1>20. ASSUME NEW p \in Finishers, RestoreTracing(p) PROVE TracingOwed'
  BY <1>20 DEF RestoreTracing
<1>21. ASSUME NEW p \in Finishers, Close(p) PROVE TracingOwed'
  BY <1>21 DEF Close
<1>22. ASSUME NEW p \in Procs, StoreFails(p) PROVE TracingOwed'
  BY <1>22 DEF StoreFails
<1>23. ASSUME NEW i \in Ids, Delete(i) PROVE TracingOwed'
  BY <1>23 DEF Delete
<1>24. ASSUME NEW i \in Ids, CaptureEnds(i) PROVE TracingOwed'
  BY <1>24 DEF CaptureEnds
<1>25. ASSUME Restart PROVE TracingOwed'
  BY <1>25 DEF Restart
<1>26. ASSUME UNCHANGED vars PROVE TracingOwed'
  BY <1>26 DEF vars
<1>27. ASSUME NEW p \in Procs, WriteIncludes(p) PROVE TracingOwed'
  BY <1>27 DEF WriteIncludes
<1>28. ASSUME CscfRestarts PROVE TracingOwed'
  BY <1>28 DEF CscfRestarts
<1> QED BY <1>1, <1>2, <1>3, <1>4, <1>5, <1>6, <1>7, <1>8, <1>9, <1>10, <1>11, <1>12, <1>13,
       <1>14, <1>15, <1>16, <1>17, <1>18, <1>19, <1>20, <1>21, <1>22, <1>23, <1>24, <1>25, <1>26,
       <1>27, <1>28
       DEF Next, Step

LEMMA TracingStep ==
    ASSUME TypeInv, SessInv, TracingInv, [Next]_vars
    PROVE  TracingInv'
BY SwitchesStep, FlagStep, WasStep, OwedStep DEF TracingInv

\* Tracing does not outlive the session that put it on, not over a restart of the backend or of a
\* CSCF either: with no session and nobody asking for it, the CSCFs do not trace and will not when
\* they come up again (call-debug-session.ts:357-364, 392-401).
THEOREM TracingTheorem == Spec => []TracingPutBack
<1>1. Init => TracingInv
  BY PartsDiffer DEF Init, TracingInv, OneSwitch, FlagTrue, WasTrue, TracingOwed, SwitchLabels,
     NoSession
<1>2. Spec => []TracingInv
  <2>1. TypeInv /\ SessInv /\ TracingInv /\ [Next]_vars => TracingInv'
    BY TracingStep
  <2> QED BY <1>1, <2>1, SessInvariant, PTL DEF Spec
<1>3. TracingInv => TracingPutBack
  BY DEF TracingInv, TracingOwed, Untouched, TracingPutBack
<1> QED BY <1>2, <1>3, PTL

(***************************************************************************)
(* A capture ends with its session.                                        *)
(***************************************************************************)

(* The handlers that bring up a session's capture, those that have found   *)
(* the session running, and the one that is stopping the unit.             *)
StartsIt(i) == {p \in Starters : sess[p] = i}
EndsIt(i) == {p \in Finishers : sess[p] = i}
Halting(i) == \E p \in EndsIt(i) : pc[p] = "halt"

(* A session belongs to one start; what is worked on was claimed.          *)
Claimed ==
    /\ \A p \in Procs : sess[p] # NoSession => row[sess[p]].status # "none"
    /\ \A p, q \in Starters : sess[p] = sess[q] /\ sess[p] # NoSession => p = q

(* Where a start is alone with its session, which is running, and where it *)
(* has given up its capture.                                               *)
StartPhase(p, i) ==
    /\ pc[p] \in {"scope", "launch", "confirm", "record"} => i \in Running /\ EndsIt(i) = {}
    /\ pc[p] \in SwitchLabels /\ back[p] # "fail" => i \in Running /\ EndsIt(i) = {}
    /\ i \in unit => pc[p] \in {"confirm", "record"}
    /\ i \in unit /\ pc[p] = "record" => manifest[i] = "running"

(* An active unit is one that a row and a manifest tell of, or one that a  *)
(* handler is bringing up or stopping.                                     *)
UnitPhase(i) ==
    /\ i \in Running \/ Halting(i)
    /\ \A p \in EndsIt(i) :
          /\ pc[p] \in {"clear", "mark"} => cap[p]
          /\ pc[p] \in SwitchLabels \cup {"restore", "close"} => Halting(i)
    /\ StartsIt(i) = {} => /\ manifest[i] = "running" \/ Halting(i)
                           /\ i \in Running => row[i].pcap

CaptureOf(i) ==
    /\ \A p \in StartsIt(i) : StartPhase(p, i)
    /\ i \in unit => UnitPhase(i)

CaptureTrue == Claimed /\ \A i \in Ids \ adrift : CaptureOf(i)

(* What a step does to a session that is not its own.                      *)
SessionSame(i) ==
    /\ i \in unit' => i \in unit
    /\ manifest'[i] = manifest[i]
    /\ i \in Running' <=> i \in Running
    /\ i \in Running => row'[i].pcap = row[i].pcap
    /\ \A q \in Procs : sess'[q] = i <=> sess[q] = i
    /\ \A q \in Procs : sess[q] = i => pc'[q] = pc[q] /\ back'[q] = back[q] /\ cap'[q] = cap[q]

LEMMA ElsewhereSame ==
    ASSUME NEW i \in Ids, CaptureOf(i), SessionSame(i)
    PROVE  CaptureOf(i)'
<1> USE PartsDiffer DEF SessionSame
<1>1. StartsIt(i)' = StartsIt(i) /\ EndsIt(i)' = EndsIt(i)
  BY DEF StartsIt, EndsIt
<1>2. \A p \in StartsIt(i) \cup EndsIt(i) :
         p \in Procs /\ pc'[p] = pc[p] /\ back'[p] = back[p] /\ cap'[p] = cap[p]
  BY DEF StartsIt, EndsIt
<1>3. Halting(i)' <=> Halting(i)
  BY <1>1, <1>2 DEF Halting
<1>4. ASSUME NEW p \in StartsIt(i)' PROVE StartPhase(p, i)'
  <2>1. StartPhase(p, i)
    BY <1>1 DEF CaptureOf
  <2> QED BY <1>1, <1>2, <2>1 DEF StartPhase
<1>5. ASSUME i \in unit' PROVE UnitPhase(i)'
  <2>1. UnitPhase(i)
    BY <1>5 DEF CaptureOf
  <2> QED BY <1>1, <1>2, <1>3, <2>1 DEF UnitPhase
<1> QED BY <1>4, <1>5 DEF CaptureOf

\* What is claimed stays so while no row is forgotten and handlers only let go.
LEMMA ClaimedKept ==
    ASSUME TypeInv, Claimed, NEW p \in Procs,
           \A i \in Ids : row[i].status # "none" => row'[i].status # "none",
           sess' = sess \/ sess' = [sess EXCEPT ![p] = NoSession]
    PROVE  Claimed'
BY PartsDiffer DEF Claimed, TypeInv, LocalsTyped

LEMMA UpdateIsNoReset ==
    ASSUME StoreTyped, NEW i \in Ids, NEW status \in Statuses \ {"none"}, Update(i, status)
    PROVE  /\ \A j \in Ids : row[j].status # "none" => row'[j].status # "none"
           /\ \A j \in Ids : j # i => row'[j] = row[j]
           /\ status # "running" => row'[i].status # "running"
           /\ row'[i].pcap = row[i].pcap
BY DEF StoreTyped, Update

LEMMA ClaimedStep ==
    ASSUME TypeInv, Claimed, [Next]_vars
    PROVE  Claimed'
<1> USE PartsDiffer
<1>1. ASSUME UNCHANGED <<row, sess>> PROVE Claimed'
  BY <1>1 DEF Claimed
<1>2. ASSUME NEW p \in Procs,
             \/ WriteIncludes(p) \/ TellCscfs(p) \/ SetScope(p) \/ Launch(p) \/ Confirm(p)
             \/ Unwind(p) \/ ClearScope(p) \/ MarkStopping(p) \/ StopUnit(p)
             \/ RestoreTracing(p) \/ ReadTracing(p) \/ StartCheck(p) \/ AskStop(p)
      PROVE  UNCHANGED <<row, sess>>
  BY <1>2 DEF WriteIncludes, TellCscfs, SetScope, Launch, Confirm, Unwind, ClearScope,
     MarkStopping, StopUnit, RestoreTracing, ReadTracing, StartCheck, AskStop, locals
<1>3. ASSUME NEW p \in Procs, NEW on \in BOOLEAN, AskSwitch(p, on) PROVE UNCHANGED <<row, sess>>
  BY <1>3 DEF AskSwitch
<1>4. ASSUME NEW p \in Procs, PersistFlag(p) \/ SwitchThrows(p) \/ ClaimRefused(p) \/ StoreFails(p)
      PROVE  Claimed'
  <2>1. row' = row /\ (sess' = sess \/ sess' = [sess EXCEPT ![p] = NoSession])
    BY <1>4 DEF PersistFlag, SwitchThrows, ClaimRefused, StoreFails, Answer, locals
  <2> QED BY <2>1, ClaimedKept
<1>5. ASSUME NEW p \in Starters, RecordCapture(p) PROVE Claimed'
  <2>1. /\ row' = row \/ row' = [row EXCEPT ![sess[p]].pcap = TRUE]
        /\ sess' = [sess EXCEPT ![p] = NoSession]
    BY <1>5 DEF RecordCapture, Answer
  <2>2. \A i \in Ids : row'[i].status = row[i].status
    BY <2>1 DEF TypeInv, StoreTyped
  <2> QED BY <2>1, <2>2, ClaimedKept
<1>6. ASSUME NEW p \in Procs, (p \in Starters /\ Fail(p)) \/ (p \in Finishers /\ Close(p))
      PROVE  Claimed'
  <2>1. sess[p] \in Ids
    BY <1>6 DEF Fail, Close, TypeInv, LocalsTyped, StartersAtWork, HandlersProper, FinishersProper
  <2>2. /\ sess' = [sess EXCEPT ![p] = NoSession]
        /\ \E status \in {"failed", "interrupted", "stopped"} : Update(sess[p], status)
    BY <1>6 DEF Fail, Close, Answer
  <2>3. \A i \in Ids : row[i].status # "none" => row'[i].status # "none"
    BY <2>1, <2>2, UpdateIsNoReset DEF TypeInv, Statuses
  <2> QED BY <2>2, <2>3, ClaimedKept
<1>7. ASSUME NEW i \in Ids, Delete(i) PROVE Claimed'
  <2>1. sess' = sess /\ \A j \in Ids : row[j].status # "none" => row'[j].status # "none"
    BY <1>7 DEF Delete, locals, TypeInv, StoreTyped
  <2> QED BY <2>1 DEF Claimed, TypeInv, LocalsTyped
<1>8. ASSUME Restart PROVE Claimed'
  BY <1>8 DEF Restart, Claimed
<1>9. ASSUME NEW p \in Starters, Claim(p) PROVE Claimed'
  <2>1. NextId \in Ids /\ row[NextId].status = "none"
    BY <1>9, NextUnused DEF Claim, Unused
  <2>2. /\ sess' = [sess EXCEPT ![p] = NextId]
        /\ row'[NextId].status = "running" /\ \A j \in Ids \ {NextId} : row'[j] = row[j]
    BY <1>9, <2>1 DEF Claim, TypeInv, StoreTyped
  <2>3. \A q \in Procs \ {p} : sess'[q] = sess[q] /\ sess[q] # NextId
    BY <2>1, <2>2 DEF Claimed, TypeInv, LocalsTyped, NoSession, Ids
  <2> QED BY <2>1, <2>2, <2>3 DEF Claimed, TypeInv, LocalsTyped
<1>10. ASSUME NEW p \in Finishers, Find(p) PROVE Claimed'
  <2>1. row' = row /\ (sess' = [sess EXCEPT ![p] = NoSession]
                       \/ \E i \in Running : sess' = [sess EXCEPT ![p] = i])
    BY <1>10 DEF Find, Answer
  <2> QED BY <2>1, ClaimedKept DEF Claimed, Running, TypeInv, LocalsTyped
<1>11. ASSUME NEW i \in Ids, CaptureEnds(i) PROVE Claimed'
  BY <1>1, <1>11 DEF CaptureEnds, locals
<1>12. ASSUME CscfRestarts \/ UNCHANGED vars PROVE Claimed'
  BY <1>1, <1>12 DEF CscfRestarts, vars, locals
<1>13. Stoppers \subseteq Procs
  BY DEF Finishers
<1> QED BY <1>1, <1>2, <1>3, <1>4, <1>5, <1>6, <1>7, <1>8, <1>9, <1>10, <1>11, <1>12, <1>13
       DEF Next, Step

\* A step that disturbs no other session only has to see to its own.
LEMMA CaptureBy ==
    ASSUME NEW p \in Procs, CaptureTrue, adrift \subseteq adrift',
           \A i \in Ids : i # sess[p] => SessionSame(i),
           \A s \in Ids \ adrift' : s = sess[p] /\ CaptureOf(s) => CaptureOf(s)'
    PROVE  \A i \in Ids \ adrift' : CaptureOf(i)'
<1> SUFFICES ASSUME NEW i \in Ids \ adrift' PROVE CaptureOf(i)'
  OBVIOUS
<1>1. CaptureOf(i)
  BY DEF CaptureTrue
<1>2. CASE i = sess[p]
  BY <1>1, <1>2
<1>3. CASE i # sess[p]
  BY <1>1, <1>3, ElsewhereSame
<1> QED BY <1>2, <1>3

LEMMA CaptureStep ==
    ASSUME TypeInv, CaptureTrue, [Next]_vars
    PROVE  \A i \in Ids \ adrift' : CaptureOf(i)'
<1> DEFINE Kept == \A i \in Ids \ adrift' : CaptureOf(i)'
<1> USE PartsDiffer DEF Goto, Answer, Trouble, Note, NoteIf, Switch, SetAdrift, host, locals,
        counts, NoSession, TypeInv, StoreTyped, LocalsTyped, StartersAtWork, HandlersProper,
        StartersProper, FinishersProper, OperatorsProper, SwitchLabels, Running
<1>1. ASSUME NEW p \in Procs, WriteIncludes(p) PROVE Kept
  <2>1. p \in Procs /\ adrift \subseteq adrift'
    BY <1>1 DEF WriteIncludes, Finishers
  <2>2. \A i \in Ids : i # sess[p] => SessionSame(i)
    BY <1>1, <2>1 DEF WriteIncludes, SessionSame, Update, Switching
  <2>3. ASSUME NEW s \in Ids \ adrift', s = sess[p], CaptureOf(s) PROVE CaptureOf(s)'
    BY <1>1, <2>1, <2>3 DEF WriteIncludes, CaptureOf, StartPhase, UnitPhase, StartsIt, EndsIt, Halting,
       CaptureTrue, Claimed, Update, Switching
  <2> QED BY <2>1, <2>2, <2>3, CaptureBy
<1>2. ASSUME NEW p \in Procs, TellCscfs(p) PROVE Kept
  <2>1. p \in Procs /\ adrift \subseteq adrift'
    BY <1>2 DEF TellCscfs, Finishers
  <2>2. \A i \in Ids : i # sess[p] => SessionSame(i)
    BY <1>2, <2>1 DEF TellCscfs, SessionSame, Update, Switching
  <2>3. ASSUME NEW s \in Ids \ adrift', s = sess[p], CaptureOf(s) PROVE CaptureOf(s)'
    <3>1. /\ pc[p] = "rpc" /\ pc' = [pc EXCEPT ![p] = "persist"]
          /\ UNCHANGED <<row, unit, manifest, sess, cap>>
      BY <1>2 DEF TellCscfs
    <3>2. \A q \in Procs : back'[q] = "fail" <=> back[q] = "fail"
      <4>1. back' = back \/ back' = [back EXCEPT ![p] = IF @ = "scope" THEN "unwind" ELSE @]
        BY <1>2, Zenon DEF TellCscfs
      <4> QED BY <4>1
    <3>3. StartsIt(s)' = StartsIt(s) /\ EndsIt(s)' = EndsIt(s)
      BY <3>1 DEF StartsIt, EndsIt
    <3>4. Halting(s)' <=> Halting(s)
      BY <3>1, <3>3 DEF Halting, EndsIt
    <3>5. \A q \in StartsIt(s) : StartPhase(q, s)'
      BY <2>3, <3>1, <3>2, <3>3 DEF CaptureOf, StartPhase, StartsIt
    <3>6. s \in unit' => UnitPhase(s)'
      BY <2>3, <3>1, <3>3, <3>4 DEF CaptureOf, UnitPhase, EndsIt
    <3> QED BY <3>3, <3>5, <3>6 DEF CaptureOf
  <2> QED BY <2>1, <2>2, <2>3, CaptureBy
<1>3. ASSUME NEW p \in Procs, PersistFlag(p) PROVE Kept
  <2>1. p \in Procs /\ adrift \subseteq adrift'
    BY <1>3 DEF PersistFlag, Finishers
  <2>2. \A i \in Ids : i # sess[p] => SessionSame(i)
    BY <1>3, <2>1 DEF PersistFlag, SessionSame, Update, Switching
  <2>3. ASSUME NEW s \in Ids \ adrift', s = sess[p], CaptureOf(s) PROVE CaptureOf(s)'
    <3>1. p \notin Operators /\ back[p] # "idle"
      BY <1>3, <2>1, <2>3 DEF PersistFlag, TypeInv, LocalsTyped, HandlersProper, StartersProper,
         FinishersProper, OperatorsProper, SwitchLabels, Procs, Finishers, NoSession, Ids
    <3>2. /\ pc[p] = "persist" /\ pc' = [pc EXCEPT ![p] = back[p]]
          /\ UNCHANGED <<row, unit, manifest, sess, cap, back>>
      BY <1>3, <3>1 DEF PersistFlag, Goto, locals
    <3>3. StartsIt(s)' = StartsIt(s) /\ EndsIt(s)' = EndsIt(s)
      BY <3>2 DEF StartsIt, EndsIt
    <3>4. \A q \in StartsIt(s) : StartPhase(q, s)'
      BY <2>3, <3>2, <3>3 DEF CaptureOf, StartPhase, StartsIt, TypeInv, LocalsTyped, HandlersProper,
         StartersProper, SwitchLabels
    <3>5. Halting(s)' <=> Halting(s)
      BY <2>3, <3>2, <3>3 DEF Halting, EndsIt, TypeInv, LocalsTyped, HandlersProper, FinishersProper,
         SwitchLabels
    <3>6. s \in unit' => UnitPhase(s)'
      BY <2>3, <3>2, <3>3, <3>5 DEF CaptureOf, UnitPhase, EndsIt, TypeInv, LocalsTyped, HandlersProper,
         FinishersProper, SwitchLabels
    <3> QED BY <3>3, <3>4, <3>6 DEF CaptureOf
  <2> QED BY <2>1, <2>2, <2>3, CaptureBy
<1>4. ASSUME NEW p \in Procs, SwitchThrows(p) PROVE Kept
  <2>1. p \in Procs /\ adrift \subseteq adrift'
    BY <1>4 DEF SwitchThrows, Finishers
  <2>2. \A i \in Ids : i # sess[p] => SessionSame(i)
    BY <1>4, <2>1 DEF SwitchThrows, SessionSame, Update, Switching
  <2>3. ASSUME NEW s \in Ids \ adrift', s = sess[p], CaptureOf(s) PROVE CaptureOf(s)'
    BY <1>4, <2>1, <2>3 DEF SwitchThrows, CaptureOf, StartPhase, UnitPhase, StartsIt, EndsIt, Halting,
       CaptureTrue, Claimed, Update, Switching
  <2> QED BY <2>1, <2>2, <2>3, CaptureBy
<1>5. ASSUME NEW p \in Starters, ReadTracing(p) PROVE Kept
  <2>1. p \in Procs /\ adrift \subseteq adrift'
    BY <1>5 DEF ReadTracing, Finishers
  <2>2. \A i \in Ids : i # sess[p] => SessionSame(i)
    BY <1>5, <2>1 DEF ReadTracing, SessionSame, Update, Switching
  <2>3. ASSUME NEW s \in Ids \ adrift', s = sess[p], CaptureOf(s) PROVE CaptureOf(s)'
    BY <1>5, <2>1, <2>3 DEF ReadTracing, CaptureOf, StartPhase, UnitPhase, StartsIt, EndsIt, Halting,
       CaptureTrue, Claimed, Update, Switching
  <2> QED BY <2>1, <2>2, <2>3, CaptureBy
<1>6. ASSUME NEW p \in Starters, ClaimRefused(p) PROVE Kept
  <2>1. p \in Procs /\ adrift \subseteq adrift'
    BY <1>6 DEF ClaimRefused, Finishers
  <2>2. \A i \in Ids : i # sess[p] => SessionSame(i)
    BY <1>6, <2>1 DEF ClaimRefused, SessionSame, Update, Switching
  <2>3. ASSUME NEW s \in Ids \ adrift', s = sess[p], CaptureOf(s) PROVE CaptureOf(s)'
    BY <1>6, <2>1, <2>3 DEF ClaimRefused, CaptureOf, StartPhase, UnitPhase, StartsIt, EndsIt, Halting,
       CaptureTrue, Claimed, Update, Switching
  <2> QED BY <2>1, <2>2, <2>3, CaptureBy
<1>7. ASSUME NEW p \in Starters, SetScope(p) PROVE Kept
  <2>1. p \in Procs /\ adrift \subseteq adrift'
    BY <1>7 DEF SetScope, Finishers
  <2>2. \A i \in Ids : i # sess[p] => SessionSame(i)
    BY <1>7, <2>1 DEF SetScope, SessionSame, Update, Switching
  <2>3. ASSUME NEW s \in Ids \ adrift', s = sess[p], CaptureOf(s) PROVE CaptureOf(s)'
    BY <1>7, <2>1, <2>3 DEF SetScope, CaptureOf, StartPhase, UnitPhase, StartsIt, EndsIt, Halting,
       CaptureTrue, Claimed, Update, Switching
  <2> QED BY <2>1, <2>2, <2>3, CaptureBy
<1>8. ASSUME NEW p \in Starters, Launch(p) PROVE Kept
  <2>1. p \in Procs /\ adrift \subseteq adrift'
    BY <1>8 DEF Launch, Finishers
  <2>2. \A i \in Ids : i # sess[p] => SessionSame(i)
    BY <1>8, <2>1 DEF Launch, SessionSame, Update, Switching
  <2>3. ASSUME NEW s \in Ids \ adrift', s = sess[p], CaptureOf(s) PROVE CaptureOf(s)'
    <3>1. /\ unit' = unit \cup {s} /\ pc[p] = "launch" /\ pc' = [pc EXCEPT ![p] = "confirm"]
          /\ UNCHANGED <<row, manifest, locals>>
      BY <1>8, <2>3 DEF Launch
    <3>2. p \in StartsIt(s) /\ StartPhase(p, s) /\ \A q \in StartsIt(s) : q = p
      BY <2>3 DEF CaptureOf, StartsIt, CaptureTrue, Claimed, Ids
    <3>3. s \in Running /\ EndsIt(s) = {}
      BY <3>1, <3>2 DEF StartPhase
    <3>4. StartsIt(s)' = StartsIt(s) /\ EndsIt(s)' = {}
      BY <3>1, <3>3 DEF StartsIt, EndsIt
    <3>5. StartPhase(p, s)'
      BY <3>1, <3>3, <3>4 DEF StartPhase
    <3>6. UnitPhase(s)'
      BY <3>1, <3>2, <3>3, <3>4 DEF UnitPhase
    <3> QED BY <3>2, <3>4, <3>5, <3>6 DEF CaptureOf
  <2> QED BY <2>1, <2>2, <2>3, CaptureBy
<1>9. ASSUME NEW p \in Starters, Confirm(p) PROVE Kept
  <2>1. p \in Procs /\ adrift \subseteq adrift'
    BY <1>9 DEF Confirm, Finishers
  <2>2. \A i \in Ids : i # sess[p] => SessionSame(i)
    BY <1>9, <2>1 DEF Confirm, SessionSame, Update, Switching
  <2>3. ASSUME NEW s \in Ids \ adrift', s = sess[p], CaptureOf(s) PROVE CaptureOf(s)'
    BY <1>9, <2>1, <2>3 DEF Confirm, CaptureOf, StartPhase, UnitPhase, StartsIt, EndsIt, Halting,
       CaptureTrue, Claimed, Update, Switching
  <2> QED BY <2>1, <2>2, <2>3, CaptureBy
<1>10. ASSUME NEW p \in Starters, RecordCapture(p) PROVE Kept
  <2>1. p \in Procs /\ adrift \subseteq adrift'
    BY <1>10 DEF RecordCapture, Finishers
  <2>2. \A i \in Ids : i # sess[p] => SessionSame(i)
    <3>1. /\ row' = row \/ row' = [row EXCEPT ![sess[p]].pcap = TRUE]
          /\ UNCHANGED <<unit, manifest>>
      BY <1>10 DEF RecordCapture
    <3>2. \A i \in Ids : i # sess[p] => row'[i] = row[i]
      BY <3>1
    <3>3. \A q \in Procs \ {p} : sess'[q] = sess[q] /\ pc'[q] = pc[q] /\ back'[q] = back[q] /\ cap'[q] = cap[q]
      BY <1>10 DEF RecordCapture
    <3>4. sess'[p] = 0
      BY <1>10 DEF RecordCapture
    <3> QED BY <3>1, <3>2, <3>3, <3>4 DEF SessionSame, Ids
  <2>3. ASSUME NEW s \in Ids \ adrift', s = sess[p], CaptureOf(s) PROVE CaptureOf(s)'
    BY <1>10, <2>1, <2>3 DEF RecordCapture, CaptureOf, StartPhase, UnitPhase, StartsIt, EndsIt, Halting,
       CaptureTrue, Claimed, Update, Switching
  <2> QED BY <2>1, <2>2, <2>3, CaptureBy
<1>11. ASSUME NEW p \in Starters, Unwind(p) PROVE Kept
  <2>1. p \in Procs /\ adrift \subseteq adrift'
    BY <1>11 DEF Unwind, Finishers
  <2>2. \A i \in Ids : i # sess[p] => SessionSame(i)
    BY <1>11, <2>1 DEF Unwind, SessionSame, Update, Switching
  <2>3. ASSUME NEW s \in Ids \ adrift', s = sess[p], CaptureOf(s) PROVE CaptureOf(s)'
    BY <1>11, <2>1, <2>3 DEF Unwind, CaptureOf, StartPhase, UnitPhase, StartsIt, EndsIt, Halting,
       CaptureTrue, Claimed, Update, Switching
  <2> QED BY <2>1, <2>2, <2>3, CaptureBy
<1>12. ASSUME NEW p \in Starters, Fail(p) PROVE Kept
  <2>1. p \in Procs /\ adrift \subseteq adrift'
    BY <1>12 DEF Fail, Finishers
  <2>2. \A i \in Ids : i # sess[p] => SessionSame(i)
    <3>1. sess[p] \in Ids /\ \E status \in {"failed", "interrupted", "stopped"} : Update(sess[p], status)
      BY <1>12 DEF Fail
    <3>2. \A i \in Ids : i # sess[p] => row'[i] = row[i]
      BY <3>1, UpdateIsNoReset DEF Statuses
    <3>3. \A q \in Procs \ {p} : sess'[q] = sess[q] /\ pc'[q] = pc[q] /\ back'[q] = back[q] /\ cap'[q] = cap[q]
      BY <1>12 DEF Fail
    <3>4. sess'[p] = 0 /\ UNCHANGED <<unit, manifest>>
      BY <1>12, <2>1 DEF Fail
    <3> QED BY <3>2, <3>3, <3>4 DEF SessionSame, Ids
  <2>3. ASSUME NEW s \in Ids \ adrift', s = sess[p], CaptureOf(s) PROVE CaptureOf(s)'
    BY <1>12, <2>1, <2>3 DEF Fail, CaptureOf, StartPhase, UnitPhase, StartsIt, EndsIt, Halting,
       CaptureTrue, Claimed, Update, Switching
  <2> QED BY <2>1, <2>2, <2>3, CaptureBy
<1>13. ASSUME NEW p \in Finishers, ClearScope(p) PROVE Kept
  <2>1. p \in Procs /\ adrift \subseteq adrift'
    BY <1>13 DEF ClearScope, Finishers
  <2>2. \A i \in Ids : i # sess[p] => SessionSame(i)
    BY <1>13, <2>1 DEF ClearScope, SessionSame, Update, Switching
  <2>3. ASSUME NEW s \in Ids \ adrift', s = sess[p], CaptureOf(s) PROVE CaptureOf(s)'
    BY <1>13, <2>1, <2>3 DEF ClearScope, CaptureOf, StartPhase, UnitPhase, StartsIt, EndsIt, Halting,
       CaptureTrue, Claimed, Update, Switching
  <2> QED BY <2>1, <2>2, <2>3, CaptureBy
<1>14. ASSUME NEW p \in Finishers, MarkStopping(p) PROVE Kept
  <2>1. p \in Procs /\ adrift \subseteq adrift'
    BY <1>14 DEF MarkStopping, Finishers
  <2>2. \A i \in Ids : i # sess[p] => SessionSame(i)
    BY <1>14, <2>1 DEF MarkStopping, SessionSame, Update, Switching
  <2>3. ASSUME NEW s \in Ids \ adrift', s = sess[p], CaptureOf(s) PROVE CaptureOf(s)'
    <3>1. /\ pc[p] = "mark" /\ UNCHANGED <<row, unit, locals>>
          /\ IF manifest[s] = "running"
             THEN manifest' = [manifest EXCEPT ![s] = "stopping"] /\ pc' = [pc EXCEPT ![p] = "halt"]
             ELSE manifest' = manifest /\ pc' = [pc EXCEPT ![p] = "restore"]
      BY <1>14, <2>3 DEF MarkStopping
    <3>2. StartsIt(s)' = StartsIt(s) /\ EndsIt(s)' = EndsIt(s) /\ p \in EndsIt(s)
      BY <2>3, <3>1 DEF StartsIt, EndsIt
    <3>3. s \in unit => StartsIt(s) = {}
      BY <2>3, <3>2 DEF CaptureOf, StartPhase, StartsIt
    <3>4. ASSUME NEW q \in StartsIt(s) PROVE StartPhase(q, s)'
      <4>1. s \notin unit /\ q # p /\ pc'[q] = pc[q] /\ back'[q] = back[q]
        BY <3>1, <3>3, <3>4 DEF StartsIt
      <4>2. StartPhase(q, s)
        BY <2>3 DEF CaptureOf
      <4> QED BY <3>1, <3>2, <4>1, <4>2 DEF StartPhase
    <3>5. ASSUME s \in unit PROVE UnitPhase(s)'
      <4>1. UnitPhase(s) /\ StartsIt(s) = {}
        BY <2>3, <3>3, <3>5 DEF CaptureOf
      <4>2. Halting(s)'
        BY <3>1, <3>2, <4>1 DEF Halting, UnitPhase, EndsIt
      <4>3. \A q \in EndsIt(s) : pc'[q] \in {"clear", "mark"} => cap'[q]
        BY <3>1, <4>1 DEF UnitPhase, EndsIt
      <4> QED BY <3>1, <3>2, <4>1, <4>2, <4>3 DEF UnitPhase
    <3> QED BY <3>1, <3>2, <3>4, <3>5 DEF CaptureOf
  <2> QED BY <2>1, <2>2, <2>3, CaptureBy
<1>15. ASSUME NEW p \in Finishers, StopUnit(p) PROVE Kept
  <2>1. p \in Procs /\ adrift \subseteq adrift'
    BY <1>15 DEF StopUnit, Finishers
  <2>2. \A i \in Ids : i # sess[p] => SessionSame(i)
    BY <1>15, <2>1 DEF StopUnit, SessionSame, Update, Switching
  <2>3. ASSUME NEW s \in Ids \ adrift', s = sess[p], CaptureOf(s) PROVE CaptureOf(s)'
    BY <1>15, <2>1, <2>3 DEF StopUnit, CaptureOf, StartPhase, UnitPhase, StartsIt, EndsIt, Halting,
       CaptureTrue, Claimed, Update, Switching
  <2> QED BY <2>1, <2>2, <2>3, CaptureBy
<1>16. ASSUME NEW p \in Finishers, RestoreTracing(p) PROVE Kept
  <2>1. p \in Procs /\ adrift \subseteq adrift'
    BY <1>16 DEF RestoreTracing, Finishers
  <2>2. \A i \in Ids : i # sess[p] => SessionSame(i)
    BY <1>16, <2>1 DEF RestoreTracing, SessionSame, Update, Switching
  <2>3. ASSUME NEW s \in Ids \ adrift', s = sess[p], CaptureOf(s) PROVE CaptureOf(s)'
    BY <1>16, <2>1, <2>3 DEF RestoreTracing, CaptureOf, StartPhase, UnitPhase, StartsIt, EndsIt, Halting,
       CaptureTrue, Claimed, Update, Switching
  <2> QED BY <2>1, <2>2, <2>3, CaptureBy
<1>17. ASSUME NEW p \in Finishers, Close(p) PROVE Kept
  <2>1. p \in Procs /\ adrift \subseteq adrift'
    BY <1>17 DEF Close, Finishers
  <2>2. \A i \in Ids : i # sess[p] => SessionSame(i)
    <3>1. sess[p] \in Ids /\ \E status \in {"failed", "interrupted", "stopped"} : Update(sess[p], status)
      BY <1>17 DEF Close
    <3>2. \A i \in Ids : i # sess[p] => row'[i] = row[i]
      BY <3>1, UpdateIsNoReset DEF Statuses
    <3>3. \A q \in Procs \ {p} : sess'[q] = sess[q] /\ pc'[q] = pc[q] /\ back'[q] = back[q] /\ cap'[q] = cap[q]
      BY <1>17 DEF Close
    <3>4. sess'[p] = 0 /\ UNCHANGED <<unit, manifest>>
      BY <1>17, <2>1 DEF Close
    <3> QED BY <3>2, <3>3, <3>4 DEF SessionSame, Ids
  <2>3. ASSUME NEW s \in Ids \ adrift', s = sess[p], CaptureOf(s) PROVE CaptureOf(s)'
    BY <1>17, <2>1, <2>3 DEF Close, CaptureOf, StartPhase, UnitPhase, StartsIt, EndsIt, Halting,
       CaptureTrue, Claimed, Update, Switching
  <2> QED BY <2>1, <2>2, <2>3, CaptureBy
<1>18. ASSUME NEW p \in Procs, StoreFails(p) PROVE Kept
  <2>1. p \in Procs /\ adrift \subseteq adrift'
    BY <1>18 DEF StoreFails, Finishers
  <2>2. \A i \in Ids : i # sess[p] => SessionSame(i)
    <3>1. UNCHANGED <<row, unit, manifest>>
      BY <1>18 DEF StoreFails
    <3>2. \A q \in Procs \ {p} : sess'[q] = sess[q] /\ pc'[q] = pc[q] /\ back'[q] = back[q] /\ cap'[q] = cap[q]
      BY <1>18 DEF StoreFails
    <3>3. sess'[p] \in {sess[p], 0}
      BY <1>18 DEF StoreFails
    <3> QED BY <3>1, <3>2, <3>3 DEF SessionSame, Ids
  <2>3. ASSUME NEW s \in Ids \ adrift', s = sess[p], CaptureOf(s) PROVE CaptureOf(s)'
    BY <1>18, <2>1, <2>3 DEF StoreFails, CaptureOf, StartPhase, UnitPhase, StartsIt, EndsIt, Halting,
       CaptureTrue, Claimed, Update, Switching
  <2> QED BY <2>1, <2>2, <2>3, CaptureBy
<1>19. ASSUME NEW p \in Starters, StartCheck(p) PROVE Kept
  <2>1. p \in Procs /\ adrift \subseteq adrift'
    BY <1>19 DEF StartCheck, Finishers
  <2>2. \A i \in Ids : i # sess[p] => SessionSame(i)
    BY <1>19, <2>1 DEF StartCheck, SessionSame, Update, Switching
  <2>3. ASSUME NEW s \in Ids \ adrift', s = sess[p], CaptureOf(s) PROVE CaptureOf(s)'
    BY <1>19, <2>1, <2>3 DEF StartCheck, CaptureOf, StartPhase, UnitPhase, StartsIt, EndsIt, Halting,
       CaptureTrue, Claimed, Update, Switching
  <2> QED BY <2>1, <2>2, <2>3, CaptureBy
<1>20. ASSUME NEW p \in Stoppers, AskStop(p) PROVE Kept
  <2>1. p \in Procs /\ adrift \subseteq adrift'
    BY <1>20 DEF AskStop, Finishers
  <2>2. \A i \in Ids : i # sess[p] => SessionSame(i)
    BY <1>20, <2>1 DEF AskStop, SessionSame, Update, Switching
  <2>3. ASSUME NEW s \in Ids \ adrift', s = sess[p], CaptureOf(s) PROVE CaptureOf(s)'
    BY <1>20, <2>1, <2>3 DEF AskStop, CaptureOf, StartPhase, UnitPhase, StartsIt, EndsIt, Halting,
       CaptureTrue, Claimed, Update, Switching
  <2> QED BY <2>1, <2>2, <2>3, CaptureBy
<1>21. ASSUME NEW p \in Operators, NEW on \in BOOLEAN, AskSwitch(p, on) PROVE Kept
  <2>1. p \in Procs /\ adrift \subseteq adrift' /\ sess[p] = 0
    BY <1>21 DEF AskSwitch
  <2>2. \A i \in Ids : i # sess[p] => SessionSame(i)
    BY <1>21, <2>1 DEF AskSwitch, SessionSame
  <2> QED BY <2>1, <2>2, CaptureBy DEF Ids
<1>22. ASSUME NEW i \in Ids, Delete(i) \/ CaptureEnds(i) PROVE Kept
  <2>1. \A j \in Ids : SessionSame(j)
    BY <1>22 DEF Delete, CaptureEnds, SessionSame
  <2>2. adrift' = adrift
    BY <1>22 DEF Delete, CaptureEnds
  <2> QED BY <2>1, <2>2, ElsewhereSame DEF CaptureTrue
<1>23. ASSUME CscfRestarts \/ UNCHANGED vars PROVE Kept
  <2>1. \A j \in Ids : SessionSame(j)
    BY <1>23 DEF CscfRestarts, vars, SessionSame
  <2>2. adrift' = adrift
    BY <1>23 DEF CscfRestarts, vars
  <2> QED BY <2>1, <2>2, ElsewhereSame DEF CaptureTrue
<1>24. ASSUME Restart PROVE Kept
  <2> SUFFICES ASSUME NEW i \in Ids, i \notin adrift' PROVE CaptureOf(i)'
    OBVIOUS
  <2>1. StartsIt(i)' = {} /\ EndsIt(i)' = {} /\ UNCHANGED <<row, unit, manifest>>
    BY <1>24 DEF Restart, StartsIt, EndsIt, Ids
  <2>2. CaptureOf(i) /\ i \notin {sess[p] : p \in CaptureCut}
    BY <1>24 DEF Restart, CaptureTrue
  <2>3. ASSUME i \in unit PROVE UnitPhase(i)'
    <3>1. UnitPhase(i) /\ ~ Halting(i)
      BY <2>2, <2>3 DEF CaptureOf, CaptureCut, Halting, EndsIt
    <3>2. StartsIt(i) = {}
      BY <2>2, <2>3 DEF CaptureOf, StartPhase, CaptureCut, StartsIt
    <3> QED BY <2>1, <3>1, <3>2 DEF UnitPhase
  <2> QED BY <2>1, <2>3 DEF CaptureOf
<1>25. ASSUME NEW p \in Starters, Claim(p) PROVE Kept
  <2>1. PICK n \in Ids : n = NextId /\ row[n].status = "none"
    BY <1>25, NextUnused DEF Claim, Unused
  <2>2. /\ sess[p] = 0 /\ sess' = [sess EXCEPT ![p] = n] /\ UNCHANGED <<unit, manifest, adrift, cap>>
        /\ row' = [row EXCEPT ![n] = [status |-> "running", was |-> was[p], pcap |-> FALSE]]
        /\ pc'[p] \in {"scope", "include"}
    BY <1>25, <2>1 DEF Claim
  <2>3. \A q \in Procs \ {p} : pc'[q] = pc[q] /\ back'[q] = back[q]
    BY <1>25 DEF Claim
  <2>4. \A q \in Procs : sess[q] # n
    BY <2>1 DEF CaptureTrue, Claimed, Ids
  <2>5. ASSUME NEW i \in Ids \ adrift', i # n PROVE CaptureOf(i)'
    <3>1. SessionSame(i)
      BY <2>2, <2>3, <2>5 DEF SessionSame, Ids
    <3> QED BY <2>2, <2>5, <3>1, ElsewhereSame DEF CaptureTrue
  <2>6. ASSUME n \notin adrift' PROVE CaptureOf(n)'
    <3>1. CaptureOf(n)
      BY <2>2, <2>6 DEF CaptureTrue
    <3>2. n \notin unit
      BY <2>1, <2>4, <3>1 DEF CaptureOf, UnitPhase, Halting, EndsIt
    <3>3. n \in Running' /\ EndsIt(n)' = {}
      BY <2>2, <2>4 DEF EndsIt
    <3> QED BY <2>2, <3>2, <3>3 DEF CaptureOf, StartPhase
  <2> QED BY <2>5, <2>6
<1>26. ASSUME NEW p \in Finishers, Find(p) PROVE Kept
  <2>1. CASE Running = {}
    <3>1. /\ UNCHANGED <<row, unit, manifest, adrift>> /\ sess[p] = 0 /\ sess'[p] = 0
          /\ \A q \in Procs \ {p} : sess'[q] = sess[q] /\ pc'[q] = pc[q] /\ back'[q] = back[q] /\ cap'[q] = cap[q]
      BY <1>26, <2>1 DEF Find
    <3>2. \A i \in Ids : SessionSame(i)
      BY <3>1 DEF SessionSame, Ids
    <3> QED BY <3>1, <3>2, ElsewhereSame DEF CaptureTrue
  <2>2. CASE Running # {}
    <3>1. PICK s \in Running :
            /\ sess' = [sess EXCEPT ![p] = s] /\ cap' = [cap EXCEPT ![p] = row[s].pcap]
            /\ adrift' = adrift \cup (Running \cap {sess[q] : q \in Starters})
            /\ pc[p] = "find" /\ pc' = [pc EXCEPT ![p] = "clear"]
            /\ UNCHANGED <<row, unit, manifest, back>>
      BY <1>26, <2>2 DEF Find
    <3>2. sess[p] = 0 /\ s \in Ids
      BY <1>26, <3>1
    <3>3. ASSUME NEW i \in Ids \ adrift', i # s PROVE CaptureOf(i)'
      <4>1. SessionSame(i)
        BY <3>1, <3>2, <3>3 DEF SessionSame, Ids
      <4> QED BY <3>1, <3>3, <4>1, ElsewhereSame DEF CaptureTrue
    <3>4. ASSUME s \notin adrift' PROVE CaptureOf(s)'
      <4>1. CaptureOf(s) /\ StartsIt(s) = {}
        BY <3>1, <3>2, <3>4 DEF CaptureTrue, StartsIt
      <4>2. StartsIt(s)' = {} /\ EndsIt(s)' = EndsIt(s) \cup {p}
        BY <1>26, <3>1, <4>1 DEF StartsIt, EndsIt
      <4>3. ASSUME s \in unit PROVE UnitPhase(s)'
        <5>1. UnitPhase(s) /\ row[s].pcap
          BY <3>1, <4>1, <4>3 DEF CaptureOf, UnitPhase
        <5>2. Halting(s) => Halting(s)'
          BY <3>1, <3>2, <4>2 DEF Halting, EndsIt, Ids
        <5>3. cap'[p] /\ pc'[p] = "clear"
          BY <1>26, <3>1, <5>1
        <5>4. ASSUME NEW q \in EndsIt(s), q # p
              PROVE  /\ pc'[q] \in {"clear", "mark"} => cap'[q]
                     /\ pc'[q] \in SwitchLabels \cup {"restore", "close"} => Halting(s)'
          BY <3>1, <5>1, <5>2, <5>4 DEF UnitPhase, EndsIt
        <5>5. \A q \in EndsIt(s)' :
                 /\ pc'[q] \in {"clear", "mark"} => cap'[q]
                 /\ pc'[q] \in SwitchLabels \cup {"restore", "close"} => Halting(s)'
          BY <4>2, <5>3, <5>4
        <5>6. (manifest[s] = "running" \/ Halting(s)) /\ s \in Running' /\ row'[s].pcap
          BY <3>1, <4>1, <5>1 DEF UnitPhase
        <5>7. manifest'[s] = "running" \/ Halting(s)'
          BY <3>1, <5>2, <5>6
        <5> HIDE DEF SwitchLabels
        <5> QED BY <5>5, <5>6, <5>7, Zenon DEF UnitPhase
      <4> QED BY <3>1, <4>2, <4>3 DEF CaptureOf
    <3> QED BY <3>3, <3>4
  <2> QED BY <2>1, <2>2
<1> QED BY <1>1, <1>2, <1>3, <1>4, <1>5, <1>6, <1>7, <1>8, <1>9, <1>10, <1>11, <1>12, <1>13,
       <1>14, <1>15, <1>16, <1>17, <1>18, <1>19, <1>20, <1>21, <1>22, <1>23, <1>24, <1>25, <1>26
       DEF Next, Step

\* A capture does not outlive its session, whatever requests overlap and whichever sessions came
\* before, but for those of sessions whose start failed when the unit may have been running, which
\* unwind() does not stop, that a stop or a restart reached before their row or their manifest told
\* of the capture, and whose unit could not be stopped (call-debug-session.ts:282-287, 351-355).
THEOREM CaptureTheorem == Spec => []CaptureFollowsSession
<1>1. TypeInv /\ Init => CaptureTrue
  BY PartsDiffer DEF Init, CaptureTrue, Claimed, CaptureOf, StartsIt, NoSession, Ids
<1>2. TypeInv /\ CaptureTrue /\ [Next]_vars => CaptureTrue'
  BY CaptureStep, ClaimedStep DEF CaptureTrue
<1>3. TypeInv /\ CaptureTrue => CaptureFollowsSession
  <2> SUFFICES ASSUME TypeInv, CaptureTrue, Quiet, NEW i \in unit \ adrift PROVE i \in Running
    BY DEF CaptureFollowsSession
  <2>1. i \in Ids \ adrift /\ ~ Halting(i)
    BY PartsDiffer DEF TypeInv, StoreTyped, Quiet, Halting, EndsIt
  <2> QED BY <2>1 DEF CaptureTrue, CaptureOf, UnitPhase
<1> QED BY <1>1, <1>2, <1>3, TypeInvariant, PTL DEF Spec
=============================================================================
