-------------------------- MODULE ConfigRestore_proofs -------------------------
(***************************************************************************)
(* Proofs about ConfigRestore: type correctness, that what a restart job   *)
(* was started for runs in the end, and that success means that the files  *)
(* were written: for any number of files, backups, restores, cleanups,     *)
(* failures and restarts of the backend.                                   *)
(***************************************************************************)
EXTENDS ConfigRestore, TLAPS

(* A unit that does not run what its file holds is excused, or the restore *)
(* that wrote the file has still to end, or the job has still to get there.*)
WaitTrue ==
    \A f \in Files : running[f] # disk[f] =>
        \/ f \in unapplied
        \/ \E h \in Handlers : f \in written[h]
        \/ job = "running" /\ f \in left

(* A file that one restore has open and another has written is noted for   *)
(* the other.                                                              *)
OverlapTrue ==
    \A g, h \in Handlers : g # h => open[g] \cap written[h] \subseteq shared[h]

(* A file a restore was asked for has still to be copied, or it holds what *)
(* the directory has, or another restore wrote it too, or it is gone.      *)
InHand(h, f) ==
    \/ f \in todo[h] \/ f \in open[h]
    \/ f \in written[h] /\ (disk[f] = req[h].from \/ f \in shared[h])
    \/ req[h].kind # "selective" /\ f \notin kept[req[h].from]

Directory == {"selective", "config", "both"}
Working(h) == pc[h] \notin {"idle", "poll", "end"}

HandOf(h) ==
    /\ pc[h] = "mongo" => todo[h] = {}
    /\ pc[h] = "look" => req[h].kind # "selective"
    /\ Working(h) => req[h] \in Requests
    /\ Working(h) /\ ~ failed[h] /\ req[h].kind \in Directory =>
          \A f \in req[h].part : InHand(h, f)

HandTrue == \A h \in Handlers : HandOf(h)

(***************************************************************************)
(* The requests.                                                           *)
(***************************************************************************)

\* What a request asks for.
LEMMA RequestIs ==
    ASSUME NEW r \in Requests
    PROVE  /\ r.kind \in Kinds /\ r.from \in Contents \ {Before, Torn} /\ r.part \in SUBSET Files
           /\ r.kind \in {"config", "both"} => r.from \in Backups /\ r.part = Files
           /\ r.kind = "selective" => r.from \in Backups
           /\ r.kind \in Full => r.part = Files
BY DEF Requests, Full

\* What a handler has been asked for is of the right kind, before any request too.
LEMMA AskedTyped ==
    ASSUME TypeOK, NEW h \in Handlers
    PROVE  req[h].from \in Contents /\ req[h].part \in SUBSET Files
<1>1. req[h] \in Requests \cup {NoRequest}
  BY DEF TypeOK
<1>2. CASE req[h] \in Requests
  BY <1>2, RequestIs
<1>3. CASE req[h] = NoRequest
  BY <1>3 DEF NoRequest, Contents
<1> QED BY <1>1, <1>2, <1>3

(***************************************************************************)
(* Type correctness.                                                       *)
(***************************************************************************)

LEMMA Bounds == MaxOps \in Nat /\ MaxTroubles \in Nat
BY RestoreAssumption

LEMMA AskTyped == TypeOK /\ Ask => ops' \in 0..MaxOps
BY Bounds DEF TypeOK, Ask

LEMMA TroubleTyped == TypeOK /\ Trouble => troubles' \in 0..MaxTroubles
BY Bounds DEF TypeOK, Trouble

\* What an answer does to the histories of the restores.
LEMMA AnswersIs ==
    ASSUME TypeOK, NEW h \in Handlers, NEW a \in {"ok", "failed"}, NEW applied,
           Answers(h, a, applied)
    PROVE  /\ answer' \in [Handlers -> {"none", "ok", "failed"}]
           /\ written' \in [Handlers -> SUBSET Files] /\ shared' \in [Handlers -> SUBSET Files]
           /\ written'[h] = {} /\ unapplied' \subseteq Files
           /\ \A g \in Handlers \ {h} :
                 UNCHANGED <<written[g], shared[g], answer[g]>>
           /\ unapplied \subseteq unapplied'
           /\ applied = FALSE => written[h] \subseteq unapplied'
BY DEF TypeOK, Answers

\* What writing a file does to them.
LEMMA WritesIs ==
    ASSUME TypeOK, NEW h \in Handlers, NEW f \in Files, Writes(h, f)
    PROVE  /\ written' \in [Handlers -> SUBSET Files] /\ shared' \in [Handlers -> SUBSET Files]
           /\ written'[h] = written[h] \cup {f}
           /\ \A g \in Handlers : shared[g] \subseteq shared'[g]
           /\ \A g \in Handlers \ {h} :
                 /\ written'[g] = written[g]
                 /\ f \in written[g] => f \in shared'[g]
                 /\ f \in open[g] => f \in shared'[h]
<1>1. written' \in [Handlers -> SUBSET Files] /\ written'[h] = written[h] \cup {f}
      /\ \A g \in Handlers \ {h} : written'[g] = written[g]
  BY DEF TypeOK, Writes
<1>2. \A g \in Handlers : shared'[g] \in {shared[g], shared[g] \cup {f}}
  BY DEF Writes
<1>3. shared' \in [Handlers -> SUBSET Files]
  <2>1. \A g \in Handlers : shared'[g] \in SUBSET Files
    BY <1>2 DEF TypeOK
  <2>2. shared' = [g \in Handlers |-> shared'[g]]
    BY DEF Writes
  <2> QED BY <2>1, <2>2
<1>4. \A g \in Handlers \ {h} : /\ f \in written[g] => f \in shared'[g]
                                /\ f \in open[g] => f \in shared'[h]
  BY DEF Writes
<1> QED BY <1>1, <1>2, <1>3, <1>4

(* The variables of the restores, and the others.                          *)
RestoreTypes ==
    /\ pc \in [Handlers -> {"idle", "check", "extract", "look", "copy", "fill", "mongo", "poll",
                           "end"}]
    /\ req \in [Handlers -> Requests \cup {NoRequest}]
    /\ todo \in [Handlers -> SUBSET Files] /\ open \in [Handlers -> SUBSET Files]
    /\ written \in [Handlers -> SUBSET Files] /\ shared \in [Handlers -> SUBSET Files]
    /\ failed \in [Handlers -> BOOLEAN] /\ any \in [Handlers -> BOOLEAN]
    /\ answer \in [Handlers -> {"none", "ok", "failed"}]

SystemTypes ==
    /\ disk \in [Files -> Contents] /\ running \in [Files -> Contents]
    /\ kept \in [Backups -> SUBSET Files]
    /\ doomed \in [Cleaners -> SUBSET Backups]
    /\ job \in {"idle", "running", "complete"} /\ left \subseteq Files
    /\ orch \in {"idle", "running", "complete", "failed"} /\ persisted \in {"idle", "complete"}
    /\ exiting \in BOOLEAN
    /\ unapplied \subseteq Files
    /\ ops \in 0..MaxOps /\ troubles \in 0..MaxTroubles

HoldsOf(h) ==
    /\ todo[h] \cap written[h] = {} /\ todo[h] \cup written[h] \subseteq req[h].part
    /\ open[h] \subseteq written[h] /\ (open[h] # {} => pc[h] = "fill")
    /\ \A e, f \in open[h] : e = f
    /\ pc[h] \in {"idle", "poll", "end"} => written[h] = {}

LEMMA TypeParts == TypeOK <=> /\ RestoreTypes /\ SystemTypes
                              /\ \A h \in Handlers : HoldsOf(h)
BY DEF TypeOK, RestoreTypes, SystemTypes, HoldsOf

LEMMA TypeInit == Init => TypeOK
<1> SUFFICES ASSUME Init PROVE RestoreTypes /\ SystemTypes /\ \A h \in Handlers : HoldsOf(h)
  BY TypeParts
<1>1. kept \in [Backups -> SUBSET Files]
  BY RestoreAssumption DEF Init
<1>2. Before \in Contents /\ NoRequest.part = {}
  BY DEF Contents, NoRequest
<1>3. ops \in 0..MaxOps /\ troubles \in 0..MaxTroubles
  BY Bounds DEF Init
<1>4. RestoreTypes
  BY DEF Init, RestoreTypes
<1>5. SystemTypes
  BY <1>1, <1>2, <1>3 DEF Init, SystemTypes
<1>6. \A h \in Handlers : HoldsOf(h)
  BY <1>2 DEF Init, HoldsOf
<1> QED BY <1>4, <1>5, <1>6

\* A step of one restore keeps what the others hold.
LEMMA HoldsOthers ==
    ASSUME TypeOK, NEW h \in Handlers, HoldsOf(h)',
           \A g \in Handlers \ {h} :
              UNCHANGED <<pc[g], req[g], todo[g], open[g], written[g]>>
    PROVE  \A g \in Handlers : HoldsOf(g)'
BY DEF TypeOK, HoldsOf

\* A step of nobody's restore keeps what all hold.
LEMMA HoldsAll ==
    ASSUME TypeOK, UNCHANGED <<pc, req, todo, open, written>>
    PROVE  \A g \in Handlers : HoldsOf(g)'
BY DEF TypeOK, HoldsOf

LEMMA TypeNext == TypeOK /\ [Next]_vars => TypeOK'
<1> SUFFICES ASSUME TypeOK, [Next]_vars
             PROVE  RestoreTypes' /\ SystemTypes' /\ \A h \in Handlers : HoldsOf(h)'
  BY DEF TypeOK, RestoreTypes, SystemTypes, HoldsOf
<1>1. ASSUME NEW h \in Handlers, Begin(h)
      PROVE  RestoreTypes' /\ SystemTypes' /\ \A g \in Handlers : HoldsOf(g)'
  <2> PICK r \in Requests :
        /\ req' = [req EXCEPT ![h] = r]
        /\ todo' = [todo EXCEPT ![h] = r.part]
        /\ pc' = [pc EXCEPT ![h] = IF r.kind = "selective" THEN "check"
                                   ELSE IF r.kind \in Full THEN "extract" ELSE "look"]
        /\ orch' = IF r.kind \in Full THEN "running" ELSE orch
    BY <1>1 DEF Begin
  <2>0. r.part \in SUBSET Files
    BY RequestIs
  <2>1. RestoreTypes'
    BY <1>1, <2>0 DEF TypeOK, RestoreTypes, hand, NoAnswer, Begin, Ask
  <2>2. SystemTypes'
    BY <1>1, <2>0, AskTyped DEF TypeOK, SystemTypes, host, bounds, Begin, Ask
  <2>3. HoldsOf(h)'
    BY <1>1, <2>0 DEF TypeOK, HoldsOf, hand, Begin, Ask
  <2>4. \A g \in Handlers \ {h} : UNCHANGED <<pc[g], req[g], todo[g], open[g], written[g]>>
    BY <1>1, <2>0 DEF TypeOK, hand, NoAnswer, Begin, Ask
  <2> QED BY <2>1, <2>2, <2>3, <2>4, HoldsOthers
<1>2. ASSUME NEW h \in Handlers, Check(h)
      PROVE  RestoreTypes' /\ SystemTypes' /\ \A g \in Handlers : HoldsOf(g)'
  <2>a. /\ answer' \in [Handlers -> {"none", "ok", "failed"}]
        /\ written' \in [Handlers -> SUBSET Files] /\ shared' \in [Handlers -> SUBSET Files]
        /\ unapplied' \subseteq Files
        /\ \A g \in Handlers \ {h} : written'[g] = written[g]
        /\ written'[h] = {} \/ (pc'[h] = "copy" /\ written' = written)
    <3>1. CASE NoAnswer /\ pc' = [pc EXCEPT ![h] = "copy"]
      BY <3>1 DEF NoAnswer, TypeOK
    <3>2. CASE \E a \in {"ok", "failed"}, applied \in BOOLEAN : Answers(h, a, applied)
      BY <3>2, AnswersIs
    <3> QED BY <1>2, <3>1, <3>2 DEF Check
  <2>b. /\ open' = open /\ todo' = todo /\ req' = req
        /\ pc[h] # "fill" /\ pc'[h] # "fill"
    BY <1>2 DEF Check, hand, TypeOK
  <2>c. /\ pc' \in [Handlers -> {"idle", "check", "extract", "look", "copy", "fill", "mongo",
                              "poll", "end"}]
        /\ \A g \in Handlers \ {h} : pc'[g] = pc[g]
    BY <1>2 DEF Check, TypeOK
  <2>1. RestoreTypes'
    BY <1>2, <2>a, <2>c DEF TypeOK, RestoreTypes, hand, Check
  <2>2. SystemTypes'
    BY <1>2, <2>a DEF TypeOK, SystemTypes, host, bounds, Check
  <2>3. HoldsOf(h)'
    BY <2>a, <2>b DEF TypeOK, HoldsOf
  <2>4. \A g \in Handlers \ {h} : UNCHANGED <<pc[g], req[g], todo[g], open[g], written[g]>>
    BY <2>a, <2>b, <2>c
  <2> QED BY <2>1, <2>2, <2>3, <2>4, HoldsOthers
<1>3. ASSUME NEW h \in Handlers, Extract(h)
      PROVE  RestoreTypes' /\ SystemTypes' /\ \A g \in Handlers : HoldsOf(g)'
  <2>a. /\ answer' \in [Handlers -> {"none", "ok", "failed"}]
        /\ written' \in [Handlers -> SUBSET Files] /\ shared' \in [Handlers -> SUBSET Files]
        /\ unapplied' \subseteq Files
        /\ \A g \in Handlers \ {h} : written'[g] = written[g]
        /\ written'[h] = {} \/ (pc'[h] = "copy" /\ written' = written)
    <3>1. CASE NoAnswer /\ pc' = [pc EXCEPT ![h] = "copy"]
      BY <3>1 DEF NoAnswer, TypeOK
    <3>2. CASE \E a \in {"ok", "failed"}, applied \in BOOLEAN : Answers(h, a, applied)
      BY <3>2, AnswersIs
    <3> QED BY <1>3, <3>1, <3>2 DEF Extract
  <2>b. /\ open' = open /\ todo' = todo /\ req' = req
        /\ pc[h] # "fill" /\ pc'[h] # "fill"
    BY <1>3 DEF Extract, hand, TypeOK
  <2>c. /\ pc' \in [Handlers -> {"idle", "check", "extract", "look", "copy", "fill", "mongo",
                              "poll", "end"}]
        /\ \A g \in Handlers \ {h} : pc'[g] = pc[g]
    BY <1>3 DEF Extract, TypeOK
  <2>1. RestoreTypes'
    BY <1>3, <2>a, <2>c DEF TypeOK, RestoreTypes, hand, Extract
  <2>2. SystemTypes'
    BY <1>3, <2>a, TroubleTyped DEF TypeOK, SystemTypes, host, bounds, Extract
  <2>3. HoldsOf(h)'
    BY <2>a, <2>b DEF TypeOK, HoldsOf
  <2>4. \A g \in Handlers \ {h} : UNCHANGED <<pc[g], req[g], todo[g], open[g], written[g]>>
    BY <2>a, <2>b, <2>c
  <2> QED BY <2>1, <2>2, <2>3, <2>4, HoldsOthers
<1>4. ASSUME NEW h \in Handlers, Look(h)
      PROVE  RestoreTypes' /\ SystemTypes' /\ \A g \in Handlers : HoldsOf(g)'
  <2>1. RestoreTypes'
    BY <1>4 DEF TypeOK, RestoreTypes, hand, NoAnswer, Look, restores
  <2>2. SystemTypes'
    BY <1>4 DEF TypeOK, SystemTypes, host, bounds, Look, restores
  <2>3. HoldsOf(h)'
    BY <1>4 DEF TypeOK, HoldsOf, hand, Look, restores
  <2>4. \A g \in Handlers \ {h} : UNCHANGED <<pc[g], req[g], todo[g], open[g], written[g]>>
    BY <1>4 DEF TypeOK, hand, NoAnswer, Look, restores
  <2> QED BY <2>1, <2>2, <2>3, <2>4, HoldsOthers
<1>5. ASSUME NEW h \in Handlers, Open(h)
      PROVE  RestoreTypes' /\ SystemTypes' /\ \A g \in Handlers : HoldsOf(g)'
  <2> PICK f \in todo[h] : todo' = [todo EXCEPT ![h] = @ \ {f}] /\ Writes(h, f)
                        /\ open' = [open EXCEPT ![h] = {f}]
                        /\ disk' = [disk EXCEPT ![f] = Torn]
    BY <1>5 DEF Open
  <2>0. f \in Files
    BY DEF TypeOK
  <2>a. /\ written' \in [Handlers -> SUBSET Files] /\ shared' \in [Handlers -> SUBSET Files]
        /\ written'[h] = written[h] \cup {f}
        /\ \A g \in Handlers \ {h} : written'[g] = written[g]
    BY <2>0, WritesIs
  <2>1. RestoreTypes'
    <3>1. todo' \in [Handlers -> SUBSET Files] /\ open' \in [Handlers -> SUBSET Files]
      BY <1>5, <2>0 DEF TypeOK, Open
    <3>2. pc' \in [Handlers -> {"idle", "check", "extract", "look", "copy", "fill", "mongo", "poll",
                              "end"}]
      BY <1>5 DEF TypeOK, Open
    <3>3. UNCHANGED <<req, failed, any, answer>>
      BY <1>5 DEF Open
    <3> QED BY <2>a, <3>1, <3>2, <3>3 DEF TypeOK, RestoreTypes
  <2>2. SystemTypes'
    BY <1>5, <2>0 DEF TypeOK, SystemTypes, bounds, Contents, Open
  <2>3. HoldsOf(h)'
    BY <1>5, <2>0, <2>a DEF TypeOK, HoldsOf, Open
  <2>4. \A g \in Handlers \ {h} : UNCHANGED <<pc[g], req[g], todo[g], open[g], written[g]>>
    BY <1>5, <2>a DEF TypeOK, Open
  <2> QED BY <2>1, <2>2, <2>3, <2>4, HoldsOthers
<1>6. ASSUME NEW h \in Handlers, Fill(h)
      PROVE  RestoreTypes' /\ SystemTypes' /\ \A g \in Handlers : HoldsOf(g)'
  <2>0. disk' \in [Files -> Contents]
    BY <1>6, AskedTyped DEF TypeOK, Contents, Fill
  <2>a. any' \in [Handlers -> BOOLEAN]
    BY <1>6 DEF TypeOK, Fill
  <2>b. pc'[h] \in {"look", "copy"} /\ pc[h] = "fill"
    BY <1>6 DEF TypeOK, Fill, ToCopy
  <2>1. RestoreTypes'
    BY <1>6, <2>a DEF TypeOK, RestoreTypes, Fill, ToCopy
  <2>2. SystemTypes'
    BY <1>6, <2>0 DEF TypeOK, SystemTypes, bounds, Fill
  <2>3. HoldsOf(h)'
    BY <1>6, <2>b DEF TypeOK, HoldsOf, Fill
  <2>4. \A g \in Handlers \ {h} : UNCHANGED <<pc[g], req[g], todo[g], open[g], written[g]>>
    BY <1>6 DEF TypeOK, Fill
  <2> QED BY <2>1, <2>2, <2>3, <2>4, HoldsOthers
<1>7. ASSUME NEW h \in Handlers, Replace(h)
      PROVE  RestoreTypes' /\ SystemTypes' /\ \A g \in Handlers : HoldsOf(g)'
  <2> PICK f \in todo[h] : todo' = [todo EXCEPT ![h] = @ \ {f}] /\ Writes(h, f)
                        /\ disk' = [disk EXCEPT ![f] = Stock]
    BY <1>7 DEF Replace
  <2>0. f \in Files
    BY DEF TypeOK
  <2>a. /\ written' \in [Handlers -> SUBSET Files] /\ shared' \in [Handlers -> SUBSET Files]
        /\ written'[h] = written[h] \cup {f}
        /\ \A g \in Handlers \ {h} : written'[g] = written[g]
    BY <2>0, WritesIs
  <2>1. RestoreTypes'
    <3>1. todo' \in [Handlers -> SUBSET Files] /\ open' \in [Handlers -> SUBSET Files]
      BY <1>7, <2>0 DEF TypeOK, Replace
    <3>2. pc' \in [Handlers -> {"idle", "check", "extract", "look", "copy", "fill", "mongo", "poll",
                              "end"}]
      BY <1>7 DEF TypeOK, Replace
    <3>3. UNCHANGED <<req, failed, any, answer>>
      BY <1>7 DEF Replace
    <3> QED BY <2>a, <3>1, <3>2, <3>3 DEF TypeOK, RestoreTypes
  <2>2. SystemTypes'
    BY <1>7, <2>0 DEF TypeOK, SystemTypes, bounds, Contents, Replace
  <2>3. HoldsOf(h)'
    BY <1>7, <2>0, <2>a DEF TypeOK, HoldsOf, Replace
  <2>4. \A g \in Handlers \ {h} : UNCHANGED <<pc[g], req[g], todo[g], open[g], written[g]>>
    BY <1>7, <2>a DEF TypeOK, Replace
  <2> QED BY <2>1, <2>2, <2>3, <2>4, HoldsOthers
<1>8. ASSUME NEW h \in Handlers, OpenFails(h)
      PROVE  RestoreTypes' /\ SystemTypes' /\ \A g \in Handlers : HoldsOf(g)'
  <2> PICK f \in Files : FileFails(h, f)
    BY <1>8 DEF TypeOK, OpenFails
  <2>0. failed' \in [Handlers -> BOOLEAN]
    BY Zenon DEF TypeOK, FileFails
  <2>a. /\ todo' \in [Handlers -> SUBSET Files] /\ todo'[h] \subseteq todo[h]
        /\ \A g \in Handlers \ {h} : todo'[g] = todo[g]
    BY DEF TypeOK, FileFails
  <2>b. pc'[h] \in {"look", "copy"} /\ pc[h] \in {"copy", "fill"}
    BY <1>8 DEF TypeOK, FileFails, ToCopy, OpenFails
  <2>c. troubles' \in 0..MaxTroubles
    BY <1>8, TroubleTyped DEF TypeOK, OpenFails
  <2>1. RestoreTypes'
    BY <1>8, <2>0, <2>a DEF TypeOK, RestoreTypes, OpenFails, FileFails, ToCopy
  <2>2. SystemTypes'
    BY <1>8, <2>c DEF TypeOK, SystemTypes, host, OpenFails
  <2>3. HoldsOf(h)'
    BY <1>8, <2>a, <2>b DEF TypeOK, HoldsOf, OpenFails
  <2>4. \A g \in Handlers \ {h} : UNCHANGED <<pc[g], req[g], todo[g], open[g], written[g]>>
    BY <1>8, <2>a DEF TypeOK, OpenFails, FileFails
  <2> QED BY <2>1, <2>2, <2>3, <2>4, HoldsOthers
<1>9. ASSUME NEW h \in Handlers, FillFails(h)
      PROVE  RestoreTypes' /\ SystemTypes' /\ \A g \in Handlers : HoldsOf(g)'
  <2> PICK f \in Files : FileFails(h, f)
    BY <1>9 DEF TypeOK, FillFails
  <2>0. failed' \in [Handlers -> BOOLEAN]
    BY Zenon DEF TypeOK, FileFails
  <2>a. /\ todo' \in [Handlers -> SUBSET Files] /\ todo'[h] \subseteq todo[h]
        /\ \A g \in Handlers \ {h} : todo'[g] = todo[g]
    BY DEF TypeOK, FileFails
  <2>b. pc'[h] \in {"look", "copy"} /\ pc[h] \in {"copy", "fill"}
    BY <1>9 DEF TypeOK, FileFails, ToCopy, FillFails
  <2>c. troubles' \in 0..MaxTroubles
    BY <1>9, TroubleTyped DEF TypeOK, FillFails
  <2>d. disk' \in [Files -> Contents]
    BY <1>9 DEF TypeOK, Contents, FillFails
  <2>1. RestoreTypes'
    BY <1>9, <2>0, <2>a DEF TypeOK, RestoreTypes, FillFails, FileFails, ToCopy
  <2>2. SystemTypes'
    BY <1>9, <2>c, <2>d DEF TypeOK, SystemTypes, FillFails
  <2>3. HoldsOf(h)'
    BY <1>9, <2>a, <2>b DEF TypeOK, HoldsOf, FillFails
  <2>4. \A g \in Handlers \ {h} : UNCHANGED <<pc[g], req[g], todo[g], open[g], written[g]>>
    BY <1>9, <2>a DEF TypeOK, FillFails, FileFails
  <2> QED BY <2>1, <2>2, <2>3, <2>4, HoldsOthers
<1>10. ASSUME NEW h \in Handlers, ExtrasFail(h)
      PROVE  RestoreTypes' /\ SystemTypes' /\ \A g \in Handlers : HoldsOf(g)'
  <2>1. RestoreTypes'
    BY <1>10 DEF TypeOK, RestoreTypes, hand, NoAnswer, ExtrasFail, AllCopied
  <2>2. SystemTypes'
    BY <1>10, TroubleTyped DEF TypeOK, SystemTypes, host, bounds, ExtrasFail, AllCopied
  <2>3. HoldsOf(h)'
    BY <1>10 DEF TypeOK, HoldsOf, hand, ExtrasFail, AllCopied
  <2>4. \A g \in Handlers \ {h} : UNCHANGED <<pc[g], req[g], todo[g], open[g], written[g]>>
    BY <1>10 DEF TypeOK, hand, NoAnswer, ExtrasFail, AllCopied
  <2> QED BY <2>1, <2>2, <2>3, <2>4, HoldsOthers
<1>11. ASSUME NEW h \in Handlers, RestoreMongo(h)
      PROVE  RestoreTypes' /\ SystemTypes' /\ \A g \in Handlers : HoldsOf(g)'
  <2>1. RestoreTypes'
    BY <1>11 DEF TypeOK, RestoreTypes, hand, NoAnswer, RestoreMongo, AllCopied
  <2>2. SystemTypes'
    BY <1>11, TroubleTyped DEF TypeOK, SystemTypes, host, bounds, RestoreMongo, AllCopied
  <2>3. HoldsOf(h)'
    BY <1>11 DEF TypeOK, HoldsOf, hand, RestoreMongo, AllCopied
  <2>4. \A g \in Handlers \ {h} : UNCHANGED <<pc[g], req[g], todo[g], open[g], written[g]>>
    BY <1>11 DEF TypeOK, hand, NoAnswer, RestoreMongo, AllCopied
  <2> QED BY <2>1, <2>2, <2>3, <2>4, HoldsOthers
<1>12. ASSUME NEW h \in Handlers, Finish(h)
      PROVE  RestoreTypes' /\ SystemTypes' /\ \A g \in Handlers : HoldsOf(g)'
  <2>a. /\ answer' \in [Handlers -> {"none", "ok", "failed"}]
        /\ written' \in [Handlers -> SUBSET Files] /\ shared' \in [Handlers -> SUBSET Files]
        /\ unapplied' \subseteq Files
        /\ \A g \in Handlers \ {h} : written'[g] = written[g]
        /\ written'[h] = {}
    <3>1. \E a \in {"ok", "failed"}, applied \in BOOLEAN : Answers(h, a, applied)
      BY <1>12 DEF Finish, StartRestart, Refused
    <3> QED BY <3>1, AnswersIs
  <2>b. /\ open' = open /\ todo' = todo /\ req' = req
        /\ pc[h] # "fill" /\ pc'[h] # "fill"
    BY <1>12 DEF Finish, hand, TypeOK, Complete, AllCopied
  <2>c. /\ pc' \in [Handlers -> {"idle", "check", "extract", "look", "copy", "fill", "mongo",
                              "poll", "end"}]
        /\ \A g \in Handlers \ {h} : pc'[g] = pc[g]
    BY <1>12 DEF Finish, TypeOK
  <2>1. RestoreTypes'
    BY <1>12, <2>a, <2>c DEF TypeOK, RestoreTypes, hand, Finish
  <2>2. SystemTypes'
    BY <1>12, <2>a DEF TypeOK, SystemTypes, host, bounds, Finish, StartRestart, Refused
  <2>3. HoldsOf(h)'
    BY <2>a, <2>b DEF TypeOK, HoldsOf
  <2>4. \A g \in Handlers \ {h} : UNCHANGED <<pc[g], req[g], todo[g], open[g], written[g]>>
    BY <2>a, <2>b, <2>c
  <2> QED BY <2>1, <2>2, <2>3, <2>4, HoldsOthers
<1>13. ASSUME NEW h \in Handlers, FinishDefaults(h)
      PROVE  RestoreTypes' /\ SystemTypes' /\ \A g \in Handlers : HoldsOf(g)'
  <2>a. /\ answer' \in [Handlers -> {"none", "ok", "failed"}]
        /\ written' \in [Handlers -> SUBSET Files] /\ shared' \in [Handlers -> SUBSET Files]
        /\ unapplied' \subseteq Files
        /\ \A g \in Handlers \ {h} : written'[g] = written[g]
        /\ written'[h] = {}
    <3>1. \E a \in {"ok", "failed"}, applied \in BOOLEAN : Answers(h, a, applied)
      BY <1>13 DEF FinishDefaults
    <3> QED BY <3>1, AnswersIs
  <2>b. /\ open' = open /\ todo' = todo /\ req' = req
        /\ pc[h] # "fill" /\ pc'[h] # "fill"
    BY <1>13 DEF FinishDefaults, hand, TypeOK, Complete, AllCopied
  <2>c. /\ pc' \in [Handlers -> {"idle", "check", "extract", "look", "copy", "fill", "mongo",
                              "poll", "end"}]
        /\ \A g \in Handlers \ {h} : pc'[g] = pc[g]
    BY <1>13 DEF FinishDefaults, TypeOK
  <2>1. RestoreTypes'
    BY <1>13, <2>a, <2>c DEF TypeOK, RestoreTypes, hand, FinishDefaults
  <2>2. SystemTypes'
    BY <1>13, <2>a DEF TypeOK, SystemTypes, host, bounds, FinishDefaults
  <2>3. HoldsOf(h)'
    BY <2>a, <2>b DEF TypeOK, HoldsOf
  <2>4. \A g \in Handlers \ {h} : UNCHANGED <<pc[g], req[g], todo[g], open[g], written[g]>>
    BY <2>a, <2>b, <2>c
  <2> QED BY <2>1, <2>2, <2>3, <2>4, HoldsOthers
<1>14. ASSUME NEW h \in Handlers, FinishFull(h)
      PROVE  RestoreTypes' /\ SystemTypes' /\ \A g \in Handlers : HoldsOf(g)'
  <2>a. /\ answer' \in [Handlers -> {"none", "ok", "failed"}]
        /\ written' \in [Handlers -> SUBSET Files] /\ shared' \in [Handlers -> SUBSET Files]
        /\ unapplied' \subseteq Files
        /\ \A g \in Handlers \ {h} : written'[g] = written[g]
        /\ written'[h] = {}
    <3>1. \E a \in {"ok", "failed"}, applied \in BOOLEAN : Answers(h, a, applied)
      BY <1>14 DEF FinishFull, StartRestart, Refused
    <3> QED BY <3>1, AnswersIs
  <2>b. /\ open' = open /\ todo' = todo /\ req' = req
        /\ pc[h] # "fill" /\ pc'[h] # "fill"
    BY <1>14 DEF FinishFull, hand, TypeOK, Complete, AllCopied
  <2>c. /\ pc' \in [Handlers -> {"idle", "check", "extract", "look", "copy", "fill", "mongo",
                              "poll", "end"}]
        /\ \A g \in Handlers \ {h} : pc'[g] = pc[g]
    BY <1>14 DEF FinishFull, TypeOK
  <2>1. RestoreTypes'
    BY <1>14, <2>a, <2>c DEF TypeOK, RestoreTypes, hand, FinishFull
  <2>2. SystemTypes'
    BY <1>14, <2>a DEF TypeOK, SystemTypes, host, bounds, FinishFull, StartRestart, Refused
  <2>3. HoldsOf(h)'
    BY <2>a, <2>b DEF TypeOK, HoldsOf
  <2>4. \A g \in Handlers \ {h} : UNCHANGED <<pc[g], req[g], todo[g], open[g], written[g]>>
    BY <2>a, <2>b, <2>c
  <2> QED BY <2>1, <2>2, <2>3, <2>4, HoldsOthers
<1>15. ASSUME NEW h \in Handlers, FullFails(h)
      PROVE  RestoreTypes' /\ SystemTypes' /\ \A g \in Handlers : HoldsOf(g)'
  <2>a. /\ answer' \in [Handlers -> {"none", "ok", "failed"}]
        /\ written' \in [Handlers -> SUBSET Files] /\ shared' \in [Handlers -> SUBSET Files]
        /\ unapplied' \subseteq Files
        /\ \A g \in Handlers \ {h} : written'[g] = written[g]
        /\ written'[h] = {}
    <3>1. \E a \in {"ok", "failed"}, applied \in BOOLEAN : Answers(h, a, applied)
      BY <1>15 DEF FullFails
    <3> QED BY <3>1, AnswersIs
  <2>b. /\ open' = open /\ todo' = todo /\ req' = req
        /\ pc[h] # "fill" /\ pc'[h] # "fill"
    BY <1>15 DEF FullFails, hand, TypeOK, Complete, AllCopied
  <2>c. /\ pc' \in [Handlers -> {"idle", "check", "extract", "look", "copy", "fill", "mongo",
                              "poll", "end"}]
        /\ \A g \in Handlers \ {h} : pc'[g] = pc[g]
    BY <1>15 DEF FullFails, TypeOK
  <2>1. RestoreTypes'
    BY <1>15, <2>a, <2>c DEF TypeOK, RestoreTypes, hand, FullFails
  <2>2. SystemTypes'
    BY <1>15, <2>a, TroubleTyped DEF TypeOK, SystemTypes, host, bounds, FullFails
  <2>3. HoldsOf(h)'
    BY <2>a, <2>b DEF TypeOK, HoldsOf
  <2>4. \A g \in Handlers \ {h} : UNCHANGED <<pc[g], req[g], todo[g], open[g], written[g]>>
    BY <2>a, <2>b, <2>c
  <2> QED BY <2>1, <2>2, <2>3, <2>4, HoldsOthers
<1>16. ASSUME NEW h \in Handlers, Poll(h)
      PROVE  RestoreTypes' /\ SystemTypes' /\ \A g \in Handlers : HoldsOf(g)'
  <2>1. RestoreTypes'
    BY <1>16 DEF TypeOK, RestoreTypes, hand, NoAnswer, Poll
  <2>2. SystemTypes'
    BY <1>16 DEF TypeOK, SystemTypes, host, bounds, Poll
  <2>3. HoldsOf(h)'
    BY <1>16 DEF TypeOK, HoldsOf, hand, Poll
  <2>4. \A g \in Handlers \ {h} : UNCHANGED <<pc[g], req[g], todo[g], open[g], written[g]>>
    BY <1>16 DEF TypeOK, hand, NoAnswer, Poll
  <2> QED BY <2>1, <2>2, <2>3, <2>4, HoldsOthers
<1>17. ASSUME NEW h \in Handlers, EndFull(h)
      PROVE  RestoreTypes' /\ SystemTypes' /\ \A g \in Handlers : HoldsOf(g)'
  <2>1. RestoreTypes'
    BY <1>17 DEF TypeOK, RestoreTypes, hand, NoAnswer, EndFull
  <2>2. SystemTypes'
    BY <1>17 DEF TypeOK, SystemTypes, host, bounds, EndFull
  <2>3. HoldsOf(h)'
    BY <1>17 DEF TypeOK, HoldsOf, hand, EndFull
  <2>4. \A g \in Handlers \ {h} : UNCHANGED <<pc[g], req[g], todo[g], open[g], written[g]>>
    BY <1>17 DEF TypeOK, hand, NoAnswer, EndFull
  <2> QED BY <2>1, <2>2, <2>3, <2>4, HoldsOthers
<1>18. CASE JobStep
  <2>1. UNCHANGED restores
    BY <1>18 DEF JobStep, RestartUnit, RestartFails, JobEnds
  <2>2. RestoreTypes' /\ \A h \in Handlers : HoldsOf(h)'
    BY <2>1, HoldsAll DEF TypeOK, RestoreTypes, restores, hand
  <2>3. ASSUME RestartUnit PROVE SystemTypes'
    BY <2>3 DEF TypeOK, SystemTypes, RestartUnit, bounds
  <2>4. ASSUME RestartFails PROVE SystemTypes'
    BY <2>4, TroubleTyped DEF TypeOK, SystemTypes, RestartFails, host
  <2>5. ASSUME JobEnds PROVE SystemTypes'
    BY <2>5 DEF TypeOK, SystemTypes, JobEnds, host, bounds
  <2> QED BY <1>18, <2>2, <2>3, <2>4, <2>5 DEF JobStep
<1>19. ASSUME NEW c \in Cleaners, ListOld(c) \/ RemoveFile(c)
      PROVE  RestoreTypes' /\ SystemTypes' /\ \A g \in Handlers : HoldsOf(g)'
  <2>1. UNCHANGED restores
    BY <1>19 DEF ListOld, RemoveFile
  <2>2. RestoreTypes' /\ \A h \in Handlers : HoldsOf(h)'
    BY <2>1, HoldsAll DEF TypeOK, RestoreTypes, restores, hand
  <2>3. ASSUME ListOld(c) PROVE SystemTypes'
    BY <2>3, AskTyped DEF TypeOK, SystemTypes, ListOld, host
  <2>4. ASSUME RemoveFile(c) PROVE SystemTypes'
    <3>1. kept' \in [Backups -> SUBSET Files] /\ doomed' \in [Cleaners -> SUBSET Backups]
      BY <2>4 DEF TypeOK, RemoveFile
    <3> QED BY <2>4, <3>1 DEF TypeOK, SystemTypes, RemoveFile, bounds
  <2> QED BY <1>19, <2>2, <2>3, <2>4
<1>20. CASE Exit \/ Crash
  <2>1. BackendRestarts /\ troubles' \in 0..MaxTroubles
    BY <1>20, TroubleTyped DEF TypeOK, Exit, Crash
  <2>2. unapplied' \subseteq Files
    BY <2>1 DEF TypeOK, BackendRestarts
  <2>3. RestoreTypes' /\ \A h \in Handlers : HoldsOf(h)'
    BY <2>1 DEF TypeOK, RestoreTypes, HoldsOf, BackendRestarts
  <2> QED BY <2>1, <2>2, <2>3 DEF TypeOK, SystemTypes, BackendRestarts, host
<1>21. CASE UNCHANGED vars
  <2>1. RestoreTypes' /\ SystemTypes'
    BY <1>21 DEF TypeOK, RestoreTypes, SystemTypes, vars, host, restores, hand, bounds
  <2> QED BY <1>21, <2>1, HoldsAll DEF vars, restores, hand
<1> QED
  BY <1>1, <1>2, <1>3, <1>4, <1>5, <1>6, <1>7, <1>8, <1>9, <1>10, <1>11,
     <1>12, <1>13, <1>14, <1>15, <1>16, <1>17, <1>18, <1>19, <1>20, <1>21
  DEF Next, RestoreStep

(* Every variable of the restores and of the restart job keeps its type,   *)
(* and a restore writes only files it was asked for, each once.            *)
THEOREM TypeCorrect == Spec => []TypeOK
BY TypeInit, TypeNext, PTL DEF Spec

(***************************************************************************)
(* What a step of one restore leaves to the others.                        *)
(***************************************************************************)

OthersKept(h) ==
    \A g \in Handlers \ {h} :
        /\ UNCHANGED <<pc[g], req[g], todo[g], open[g], failed[g], written[g]>>
        /\ shared[g] \subseteq shared'[g]
        /\ open'[h] \cap written[g] \subseteq shared'[g]
        /\ open[g] \cap written'[h] \subseteq shared'[h]

DiskNoted(h) ==
    \A f \in Files : disk'[f] # disk[f] =>
        f \in written'[h] /\ \A g \in Handlers \ {h} : f \in written[g] => f \in shared'[g]

StillWaits(h) ==
    /\ unapplied \subseteq unapplied'
    /\ \/ written[h] \subseteq written'[h]
       \/ written[h] \subseteq unapplied'
       \/ job' = "running" /\ left' = Files
    /\ job = "running" => job' = "running" /\ left' = left

Frame(h) ==
    running' = running /\ kept' = kept /\ OthersKept(h) /\ DiskNoted(h) /\ StillWaits(h)

\* A step that writes no file and answers nothing.
LEMMA QuietFrame ==
    ASSUME OverlapTrue, NEW h \in Handlers,
           UNCHANGED <<host, written, shared, unapplied, job, left>>, open'[h] \subseteq open[h],
           \A g \in Handlers \ {h} : UNCHANGED <<pc[g], req[g], todo[g], open[g], failed[g]>>
    PROVE  Frame(h)
BY DEF OverlapTrue, Frame, OthersKept, DiskNoted, StillWaits, host

\* A step that answers.
LEMMA AnswerFrame ==
    ASSUME TypeOK, OverlapTrue, NEW h \in Handlers, NEW a \in {"ok", "failed"},
           NEW applied \in BOOLEAN, Answers(h, a, applied), UNCHANGED <<host, hand>>,
           applied => job # "running" /\ job' = "running" /\ left' = Files,
           job = "running" => job' = "running" /\ left' = left,
           \A g \in Handlers \ {h} : pc'[g] = pc[g]
    PROVE  Frame(h)
<1>1. OthersKept(h)
  BY AnswersIs DEF OverlapTrue, OthersKept, hand
<1>2. DiskNoted(h)
  BY DEF DiskNoted, host
<1>3. StillWaits(h)
  BY AnswersIs DEF StillWaits
<1> QED BY <1>1, <1>2, <1>3 DEF Frame, host

\* A step that opens or replaces a file.
LEMMA WriteFrame ==
    ASSUME TypeOK, OverlapTrue, NEW h \in Handlers, NEW f \in Files, Writes(h, f),
           \A e \in Files \ {f} : disk'[e] = disk[e],
           open'[h] \subseteq open[h] \cup {f},
           UNCHANGED <<running, kept, unapplied, job, left>>,
           \A g \in Handlers \ {h} : UNCHANGED <<pc[g], req[g], todo[g], open[g], failed[g]>>
    PROVE  Frame(h)
<1>1. OthersKept(h)
  BY WritesIs DEF OverlapTrue, OthersKept
<1>2. DiskNoted(h)
  BY WritesIs DEF DiskNoted
<1>3. StillWaits(h)
  BY WritesIs DEF StillWaits
<1> QED BY <1>1, <1>2, <1>3 DEF Frame

LEMMA StepFrame ==
    ASSUME TypeOK, OverlapTrue, NEW h \in Handlers, Begin(h) \/ RestoreStep(h)
    PROVE  Frame(h)
<1>1. CASE Begin(h)
  <2>1. UNCHANGED <<host, open, written, shared, unapplied, job, left>>
    BY <1>1 DEF Begin
  <2>2. \A g \in Handlers \ {h} : UNCHANGED <<pc[g], req[g], todo[g], failed[g]>>
    BY <1>1 DEF Begin, TypeOK
  <2> QED BY <2>1, <2>2, QuietFrame
<1>2. CASE Look(h) \/ OpenFails(h) \/ ExtrasFail(h) \/ RestoreMongo(h) \/ Poll(h) \/ EndFull(h)
  <2>1. UNCHANGED <<host, req, open, written, shared, unapplied, job, left>>
    BY <1>2 DEF Look, OpenFails, ExtrasFail, RestoreMongo, Poll, EndFull, hand
  <2>2. \A g \in Handlers \ {h} : UNCHANGED <<pc[g], todo[g], failed[g]>>
    <3>1. CASE Look(h)
      BY <3>1 DEF Look, TypeOK
    <3>2. CASE OpenFails(h)
      BY <3>2 DEF OpenFails, FileFails, TypeOK
    <3>3. CASE ExtrasFail(h)
      BY <3>3 DEF ExtrasFail, TypeOK
    <3>4. CASE RestoreMongo(h)
      BY <3>4 DEF RestoreMongo, TypeOK
    <3>5. CASE Poll(h) \/ EndFull(h)
      BY <3>5 DEF Poll, EndFull, hand, TypeOK
    <3> QED BY <1>2, <3>1, <3>2, <3>3, <3>4, <3>5
  <2> QED BY <2>1, <2>2, QuietFrame
<1>3. CASE Check(h) \/ Extract(h)
  <2>1. UNCHANGED <<host, hand, job, left>> /\ \A g \in Handlers \ {h} : pc'[g] = pc[g]
    BY <1>3 DEF Check, Extract, TypeOK
  <2>2. CASE NoAnswer
    BY <2>1, <2>2, QuietFrame DEF NoAnswer, hand
  <2>3. CASE Answers(h, "failed", FALSE)
    BY <2>1, <2>3, AnswerFrame
  <2> QED BY <1>3, <2>2, <2>3 DEF Check, Extract
<1>4. CASE Finish(h) \/ FinishDefaults(h) \/ FinishFull(h) \/ FullFails(h)
  <2>1. UNCHANGED <<host, hand>> /\ \A g \in Handlers \ {h} : pc'[g] = pc[g]
    BY <1>4 DEF Finish, FinishDefaults, FinishFull, FullFails, TypeOK
  <2>2. CASE \E a \in {"ok", "failed"} : Answers(h, a, FALSE) /\ UNCHANGED <<job, left>>
    BY <2>1, <2>2, AnswerFrame
  <2>3. CASE \E core \in BOOLEAN : StartRestart(h, core)
    <3> PICK core \in BOOLEAN : StartRestart(h, core)
      BY <2>3
    <3> QED BY <2>1, AnswerFrame DEF StartRestart
  <2>4. CASE FinishFull(h)
    <3>1. CASE \E suciKeys \in BOOLEAN : StartRestart(h, any[h] \/ suciKeys)
      <4> PICK suciKeys \in BOOLEAN : StartRestart(h, any[h] \/ suciKeys)
        BY <3>1
      <4>1. (any[h] \/ suciKeys) \in BOOLEAN
        BY Zenon
      <4> QED BY <2>3, <4>1
    <3>2. CASE Refused(h)
      BY <2>2, <3>2 DEF Refused
    <3> QED BY <2>4, <3>1, <3>2 DEF FinishFull
  <2> QED BY <1>4, <2>2, <2>3, <2>4 DEF Finish, FinishDefaults, FullFails, Refused
<1>5. CASE Open(h)
  <2> PICK f \in todo[h] : /\ disk' = [disk EXCEPT ![f] = Torn]
                          /\ todo' = [todo EXCEPT ![h] = @ \ {f}]
                          /\ open' = [open EXCEPT ![h] = {f}]
                          /\ Writes(h, f)
    BY <1>5 DEF Open
  <2>1. f \in Files /\ open'[h] = {f} /\ \A e \in Files \ {f} : disk'[e] = disk[e]
    BY DEF TypeOK
  <2>2. /\ UNCHANGED <<running, kept, unapplied, job, left, req, failed>>
        /\ \A g \in Handlers \ {h} : UNCHANGED <<pc[g], todo[g], open[g]>>
    BY <1>5 DEF Open, TypeOK
  <2> QED BY <2>1, <2>2, WriteFrame
<1>6. CASE Replace(h)
  <2> PICK f \in todo[h] : /\ disk' = [disk EXCEPT ![f] = Stock]
                          /\ todo' = [todo EXCEPT ![h] = @ \ {f}]
                          /\ Writes(h, f)
    BY <1>6 DEF Replace
  <2>1. f \in Files /\ \A e \in Files \ {f} : disk'[e] = disk[e]
    BY DEF TypeOK
  <2>2. /\ UNCHANGED <<running, kept, unapplied, job, left, req, failed, open>>
        /\ \A g \in Handlers \ {h} : UNCHANGED <<pc[g], todo[g]>>
    BY <1>6 DEF Replace, TypeOK
  <2> QED BY <2>1, <2>2, WriteFrame
<1>7. CASE Fill(h) \/ FillFails(h)
  <2> PICK f \in open[h] : \E c : disk' = [disk EXCEPT ![f] = c]
    BY <1>7 DEF Fill, FillFails
  <2>1. f \in written[h] /\ \A e \in Files \ {f} : disk'[e] = disk[e]
    BY DEF TypeOK
  <2>2. UNCHANGED <<running, kept, unapplied, job, left, req, written, shared>>
    BY <1>7 DEF Fill, FillFails
  <2>3. open'[h] = {} /\ \A g \in Handlers \ {h} : UNCHANGED <<pc[g], todo[g], open[g], failed[g]>>
    <3>1. CASE Fill(h)
      BY <3>1 DEF Fill, TypeOK
    <3>2. CASE FillFails(h)
      <4> PICK e \in open[h] : FileFails(h, e)
        BY <3>2 DEF FillFails
      <4>1. \A g \in Handlers \ {h} : UNCHANGED <<pc[g], todo[g], failed[g]>>
        BY DEF FileFails, TypeOK
      <4> QED BY <3>2, <4>1 DEF FillFails, TypeOK
    <3> QED BY <1>7, <3>1, <3>2
  <2>4. OthersKept(h)
    BY <2>2, <2>3 DEF OthersKept, OverlapTrue
  <2>5. DiskNoted(h)
    BY <2>1, <2>2 DEF DiskNoted, OverlapTrue
  <2> QED BY <2>2, <2>4, <2>5 DEF Frame, StillWaits
<1> QED BY <1>1, <1>2, <1>3, <1>4, <1>5, <1>6, <1>7 DEF RestoreStep

(***************************************************************************)
(* Files that two restores write.                                          *)
(***************************************************************************)

LEMMA OverlapInit == Init => OverlapTrue
BY DEF Init, OverlapTrue

LEMMA OverlapNext == TypeOK /\ OverlapTrue /\ [Next]_vars => OverlapTrue'
<1> SUFFICES ASSUME TypeOK, OverlapTrue, [Next]_vars PROVE OverlapTrue'
  OBVIOUS
<1>1. ASSUME NEW h \in Handlers, Begin(h) \/ RestoreStep(h) PROVE OverlapTrue'
  <2>1. OthersKept(h)
    BY <1>1, StepFrame DEF Frame
  <2> SUFFICES ASSUME NEW g \in Handlers, NEW k \in Handlers, g # k
               PROVE  open'[g] \cap written'[k] \subseteq shared'[k]
    BY DEF OverlapTrue
  <2>2. CASE g = h
    BY <2>1, <2>2 DEF OthersKept
  <2>3. CASE k = h
    BY <2>1, <2>3 DEF OthersKept
  <2>4. CASE g # h /\ k # h
    <3>1. open'[g] = open[g] /\ written'[k] = written[k] /\ shared[k] \subseteq shared'[k]
      BY <2>1, <2>4 DEF OthersKept
    <3> QED BY <3>1 DEF OverlapTrue
  <2> QED BY <2>2, <2>3, <2>4
<1>2. CASE UNCHANGED restores
  BY <1>2 DEF restores, hand, OverlapTrue
<1>3. CASE Exit \/ Crash
  BY <1>3 DEF Exit, Crash, BackendRestarts, OverlapTrue
<1> QED BY <1>1, <1>2, <1>3 DEF Next, JobStep, RestartUnit, RestartFails, JobEnds, ListOld,
           RemoveFile, vars

(***************************************************************************)
(* What waits for a restart.                                               *)
(***************************************************************************)

LEMMA WaitInit == Init => WaitTrue
BY DEF Init, WaitTrue

LEMMA WaitNext == TypeOK /\ OverlapTrue /\ WaitTrue /\ [Next]_vars => WaitTrue'
<1> SUFFICES ASSUME TypeOK, OverlapTrue, WaitTrue, [Next]_vars PROVE WaitTrue'
  OBVIOUS
<1>1. ASSUME NEW h \in Handlers, Begin(h) \/ RestoreStep(h) PROVE WaitTrue'
  <2>1. running' = running /\ OthersKept(h) /\ DiskNoted(h) /\ StillWaits(h)
    BY <1>1, StepFrame DEF Frame
  <2> SUFFICES ASSUME NEW f \in Files, running'[f] # disk'[f]
               PROVE  \/ f \in unapplied'
                      \/ \E g \in Handlers : f \in written'[g]
                      \/ job' = "running" /\ f \in left'
    BY DEF WaitTrue
  <2>2. CASE disk'[f] # disk[f]
    BY <2>1, <2>2 DEF DiskNoted
  <2>3. CASE f \in unapplied \/ (job = "running" /\ f \in left)
    BY <2>1, <2>3 DEF StillWaits
  <2>4. CASE f \in written[h]
    BY <2>1, <2>4 DEF StillWaits
  <2>5. ASSUME NEW g \in Handlers \ {h}, f \in written[g] PROVE f \in written'[g]
    BY <2>1, <2>5 DEF OthersKept
  <2> QED BY <2>1, <2>2, <2>3, <2>4, <2>5 DEF WaitTrue
<1>2. CASE RestartUnit
  <2> PICK f \in left : /\ running' = [running EXCEPT ![f] = disk[f]]
                        /\ left' = left \ {f} /\ unapplied' = unapplied \ {f}
    BY <1>2 DEF RestartUnit
  <2>1. running'[f] = disk[f] /\ \A e \in Files \ {f} : running'[e] = running[e]
    BY DEF TypeOK
  <2>2. UNCHANGED <<disk, job, written>>
    BY <1>2 DEF RestartUnit, restores
  <2> QED BY <2>1, <2>2 DEF WaitTrue
<1>3. CASE RestartFails \/ JobEnds
  <2>1. UNCHANGED <<disk, running, written>>
    BY <1>3 DEF RestartFails, JobEnds, host, restores
  <2>2. unapplied' = unapplied \cup left
    BY <1>3 DEF RestartFails, JobEnds
  <2> QED BY <2>1, <2>2 DEF WaitTrue
<1>4. ASSUME NEW c \in Cleaners, ListOld(c) \/ RemoveFile(c) PROVE WaitTrue'
  <2>1. UNCHANGED <<disk, running, written, job, left, unapplied>>
    BY <1>4 DEF ListOld, RemoveFile, host, restores
  <2> QED BY <2>1 DEF WaitTrue
<1>5. CASE Exit \/ Crash
  <2>1. UNCHANGED <<disk, running>> /\ unapplied \cup left \subseteq unapplied'
    BY <1>5 DEF Exit, Crash, BackendRestarts, host
  <2>2. \A h \in Handlers : written[h] \subseteq unapplied'
    BY <1>5 DEF Exit, Crash, BackendRestarts
  <2> QED BY <2>1, <2>2 DEF WaitTrue
<1>6. CASE UNCHANGED vars
  BY <1>6 DEF vars, host, restores, WaitTrue
<1> QED BY <1>1, <1>2, <1>3, <1>4, <1>5, <1>6 DEF Next, JobStep

(* With no restore and no job under way each unit runs what its file       *)
(* holds, torn ones included, but for files of restores that started no    *)
(* job for the core or whose job did not get to the unit: startRestart()   *)
(* comes after the last copy, and restartCore17() keeps nothing that it    *)
(* read before.                                                            *)
THEOREM ReappliedTheorem == Spec => []ReappliedWhenQuiet
<1>1. TypeOK /\ WaitTrue => ReappliedWhenQuiet
  BY DEF TypeOK, WaitTrue, ReappliedWhenQuiet, Quiet
<1> QED BY <1>1, WaitInit, WaitNext, OverlapInit, OverlapNext, TypeInit, TypeNext, PTL DEF Spec

(***************************************************************************)
(* What success means.                                                     *)
(***************************************************************************)

LEMMA HandInit == Init => HandTrue
BY DEF Init, HandTrue, HandOf, Working

\* A step of one restore keeps what another has in hand.
LEMMA HandOther ==
    ASSUME TypeOK, HandTrue, NEW h \in Handlers, Frame(h), NEW g \in Handlers \ {h}
    PROVE  HandOf(g)'
<1>1. UNCHANGED <<pc[g], req[g], todo[g], open[g], failed[g], written[g]>> /\ kept' = kept
  BY DEF Frame, OthersKept
<1>2. HandOf(g)
  BY DEF HandTrue
<1>3. req[g].part \subseteq Files
  BY AskedTyped
<1>4. ASSUME NEW f \in Files, InHand(g, f) PROVE InHand(g, f)'
  <2>1. shared[g] \subseteq shared'[g]
    BY DEF Frame, OthersKept
  <2>2. f \in written[g] => disk'[f] = disk[f] \/ f \in shared'[g]
    BY DEF Frame, DiskNoted
  <2> QED BY <1>1, <1>4, <2>1, <2>2 DEF InHand
<1> QED BY <1>1, <1>2, <1>3, <1>4 DEF HandOf, Working

\* A restore that comes to its end has nothing more in hand.
LEMMA HandOver ==
    ASSUME NEW h \in Handlers, pc'[h] \in {"idle", "poll", "end"}
    PROVE  HandOf(h)'
BY DEF HandOf, Working

\* A restore whose variables stay as they are keeps what it has in hand: directories only
\* lose files.
LEMMA HandKept ==
    ASSUME HandTrue, NEW h \in Handlers, Working(h), HandOf(h),
           pc'[h] = pc[h] \/ pc'[h] \notin {"mongo", "look"},
           UNCHANGED <<req[h], todo[h], open[h], failed[h], written[h], shared[h], disk>>,
           \A b \in Backups : kept'[b] \subseteq kept[b]
    PROVE  HandOf(h)'
<1>1. req[h] \in Requests
  BY DEF HandOf
<1>2. ASSUME NEW f, req[h].kind \in Directory, InHand(h, f) PROVE InHand(h, f)'
  <2>1. req[h].from \in Backups
    BY <1>1, <1>2, RequestIs DEF Directory
  <2> QED BY <1>2, <2>1 DEF InHand
<1> QED BY <1>1, <1>2 DEF HandOf, Working

\* What Begin, Look, Open and Fill do to the restore's own files.
LEMMA HandOwn ==
    ASSUME TypeOK, HandTrue, NEW h \in Handlers, Begin(h) \/ RestoreStep(h)
    PROVE  HandOf(h)'
<1>0. HandOf(h)
  BY DEF HandTrue
<1>1. CASE Begin(h)
  <2> PICK r \in Requests :
        /\ req' = [req EXCEPT ![h] = r]
        /\ todo' = [todo EXCEPT ![h] = r.part]
        /\ pc' = [pc EXCEPT ![h] = IF r.kind = "selective" THEN "check"
                                   ELSE IF r.kind \in Full THEN "extract" ELSE "look"]
    BY <1>1 DEF Begin
  <2>1. /\ req'[h] = r /\ todo'[h] = r.part
        /\ pc'[h] # "mongo" /\ (pc'[h] = "look" => r.kind # "selective")
    BY DEF TypeOK
  <2> QED BY <2>1 DEF HandOf, InHand
<1>2. CASE Check(h) \/ Extract(h)
  <2>1. CASE pc'[h] = "idle"
    BY <2>1, HandOver
  <2>2. CASE pc'[h] = "copy" /\ NoAnswer
    BY <1>0, <1>2, <2>2, HandKept DEF Check, Extract, Working, NoAnswer, hand, host
  <2> QED BY <1>2, <2>1, <2>2 DEF Check, Extract, TypeOK
<1>3. CASE Look(h)
  <2> PICK f \in todo[h] :
         \/ pc' = [pc EXCEPT ![h] = "copy"] /\ UNCHANGED todo
         \/ f \notin There(req[h].from) /\ todo' = [todo EXCEPT ![h] = @ \ {f}] /\ UNCHANGED pc
    BY <1>3 DEF Look
  <2>1. UNCHANGED <<disk, kept, req, open, failed, written, shared>> /\ pc[h] = "look"
    BY <1>3 DEF Look, host
  <2>2. CASE pc' = [pc EXCEPT ![h] = "copy"] /\ UNCHANGED todo
    BY <1>0, <2>1, <2>2, HandKept DEF TypeOK, Working
  <2>3. CASE /\ f \notin There(req[h].from) /\ UNCHANGED pc
             /\ todo' = [todo EXCEPT ![h] = @ \ {f}]
    <3>1. todo'[h] = todo[h] \ {f} /\ pc'[h] = "look"
      BY <2>1, <2>3 DEF TypeOK
    <3>2. req[h] \in Requests /\ req[h].kind # "selective"
      BY <1>0, <2>1 DEF HandOf, Working
    <3>3. req[h].kind \in Directory => f \notin kept[req[h].from]
      BY <2>3, <3>2, RequestIs DEF There, Directory
    <3>4. ASSUME NEW e, req[h].kind \in Directory, InHand(h, e) PROVE InHand(h, e)'
      <4>1. CASE e = f
        BY <2>1, <3>2, <3>3, <3>4, <4>1 DEF InHand
      <4>2. CASE e # f
        BY <2>1, <3>1, <3>4, <4>2 DEF InHand
      <4> QED BY <4>1, <4>2
    <3> QED BY <1>0, <2>1, <3>1, <3>2, <3>4 DEF HandOf, Working
  <2> QED BY <2>2, <2>3
<1>4. CASE Open(h)
  <2> PICK f \in todo[h] : /\ disk' = [disk EXCEPT ![f] = Torn]
                          /\ todo' = [todo EXCEPT ![h] = @ \ {f}]
                          /\ open' = [open EXCEPT ![h] = {f}]
                          /\ Writes(h, f)
    BY <1>4 DEF Open
  <2>1. /\ f \in Files /\ todo'[h] = todo[h] \ {f} /\ open'[h] = {f}
        /\ \A e \in Files \ {f} : disk'[e] = disk[e]
    BY DEF TypeOK
  <2>2. UNCHANGED <<kept, req, failed>> /\ pc[h] = "copy" /\ pc'[h] = "fill" /\ open[h] = {}
    BY <1>4 DEF Open, TypeOK
  <2>3. written'[h] = written[h] \cup {f} /\ shared[h] \subseteq shared'[h]
    BY <2>1, WritesIs
  <2>4. ASSUME NEW e \in Files, InHand(h, e) PROVE InHand(h, e)'
    BY <2>1, <2>2, <2>3, <2>4 DEF InHand
  <2>5. req[h].part \subseteq Files
    BY AskedTyped
  <2> QED BY <1>0, <2>2, <2>4, <2>5 DEF HandOf, Working
<1>5. CASE Fill(h)
  <2> PICK f \in open[h] :
        \E c \in {req[h].from} \cup IF f \in shared[h] THEN {Torn, disk[f]} ELSE {} :
           disk' = [disk EXCEPT ![f] = c]
    BY <1>5 DEF Fill
  <2>1. f \in Files /\ f \in written[h] /\ open[h] = {f}
    BY DEF TypeOK
  <2>2. disk'[f] = req[h].from \/ f \in shared[h]
    BY <2>1 DEF TypeOK
  <2>3. \A e \in Files \ {f} : disk'[e] = disk[e]
    BY DEF TypeOK
  <2>4. /\ UNCHANGED <<kept, req, todo, failed, written, shared>>
        /\ pc[h] = "fill" /\ pc'[h] = ToCopy(req[h].kind)
    BY <1>5 DEF Fill, TypeOK
  <2>5. ASSUME NEW e \in Files, InHand(h, e) PROVE InHand(h, e)'
    <3>1. CASE e = f
      BY <2>1, <2>2, <2>4, <3>1 DEF InHand
    <3>2. CASE e # f
      BY <2>1, <2>3, <2>4, <2>5, <3>2 DEF InHand
    <3> QED BY <3>1, <3>2
  <2>6. req[h].part \subseteq Files
    BY AskedTyped
  <2> QED BY <1>0, <2>4, <2>5, <2>6 DEF HandOf, Working, ToCopy, Looking
<1>6. CASE Replace(h)
  <2>1. UNCHANGED req /\ req[h].kind = "defaults" /\ pc[h] = "copy" /\ pc'[h] = "look"
    BY <1>6 DEF Replace, TypeOK
  <2> QED BY <1>0, <2>1 DEF HandOf, Working, Directory
<1>7. CASE OpenFails(h) \/ FillFails(h)
  <2> PICK f \in Files : FileFails(h, f)
    BY <1>7 DEF OpenFails, FillFails, TypeOK
  <2>1. UNCHANGED req /\ pc[h] \in {"copy", "fill"} /\ pc'[h] = ToCopy(req[h].kind)
    BY <1>7 DEF OpenFails, FillFails, FileFails, TypeOK
  <2>2. req[h].kind \notin Full => failed'[h]
    BY DEF FileFails, TypeOK
  <2> QED BY <1>0, <2>1, <2>2 DEF HandOf, Working, ToCopy, Looking, Full, Directory
<1>8. CASE ExtrasFail(h)
  <2>1. UNCHANGED <<pc, req, todo>> /\ failed'[h]
    BY <1>8 DEF ExtrasFail, TypeOK
  <2> QED BY <1>0, <2>1 DEF HandOf, Working
<1>9. CASE RestoreMongo(h)
  <2>1. /\ UNCHANGED <<disk, kept, req, todo, open, written, shared>>
        /\ Working(h) /\ todo[h] = {} /\ pc'[h] = "mongo"
    BY <1>9 DEF RestoreMongo, AllCopied, host, TypeOK, Working
  <2>2. failed[h] => failed'[h]
    BY <1>9 DEF RestoreMongo, TypeOK
  <2>3. \A f : InHand(h, f) => InHand(h, f)'
    BY <2>1 DEF InHand
  <2> QED BY <1>0, <2>1, <2>2, <2>3 DEF HandOf, Working
<1>10. CASE \/ Finish(h) \/ FinishDefaults(h) \/ FinishFull(h) \/ FullFails(h)
            \/ Poll(h) \/ EndFull(h)
  <2>1. pc'[h] \in {"idle", "poll", "end"}
    BY <1>10 DEF Finish, FinishDefaults, FinishFull, FullFails, Poll, EndFull, TypeOK
  <2> QED BY <2>1, HandOver
<1> QED BY <1>1, <1>2, <1>3, <1>4, <1>5, <1>6, <1>7, <1>8, <1>9, <1>10 DEF RestoreStep

\* A step that no restore takes.
LEMMA HandAll ==
    ASSUME HandTrue, UNCHANGED <<disk, restores>>,
           \A b \in Backups : kept'[b] \subseteq kept[b]
    PROVE  HandTrue'
<1> SUFFICES ASSUME NEW h \in Handlers PROVE HandOf(h)'
  BY DEF HandTrue
<1>1. CASE Working(h)
  BY <1>1, HandKept DEF HandTrue, restores, hand
<1>2. CASE ~ Working(h)
  BY <1>2, HandOver DEF Working, restores
<1> QED BY <1>1, <1>2

LEMMA HandNext == TypeOK /\ OverlapTrue /\ HandTrue /\ [Next]_vars => HandTrue'
<1> SUFFICES ASSUME TypeOK, OverlapTrue, HandTrue, [Next]_vars PROVE HandTrue'
  OBVIOUS
<1>1. ASSUME NEW h \in Handlers, Begin(h) \/ RestoreStep(h) PROVE HandTrue'
  <2>1. Frame(h) /\ HandOf(h)'
    BY <1>1, StepFrame, HandOwn
  <2>2. \A g \in Handlers \ {h} : HandOf(g)'
    BY <2>1, HandOther
  <2> QED BY <2>1, <2>2 DEF HandTrue
<1>2. CASE JobStep
  BY <1>2, HandAll DEF JobStep, RestartUnit, RestartFails, JobEnds, host
<1>3. ASSUME NEW c \in Cleaners, ListOld(c) PROVE HandTrue'
  BY <1>3, HandAll DEF ListOld, host
<1>4. ASSUME NEW c \in Cleaners, RemoveFile(c) PROVE HandTrue'
  <2>1. \A b \in Backups : kept'[b] \subseteq kept[b]
    BY <1>4 DEF RemoveFile, TypeOK
  <2> QED BY <1>4, <2>1, HandAll DEF RemoveFile
<1>5. CASE Exit \/ Crash
  <2>1. \A h \in Handlers : pc'[h] = "idle"
    BY <1>5 DEF Exit, Crash, BackendRestarts
  <2> QED BY <2>1, HandOver DEF HandTrue
<1>6. CASE UNCHANGED vars
  BY <1>6, HandAll DEF vars, host
<1> QED BY <1>1, <1>2, <1>3, <1>4, <1>5, <1>6 DEF Next

\* What SuccessMeansRestored says of an answer.
Restored(h) ==
    req[h].kind \in {"selective", "config", "both"} =>
        \A f \in req[h].part :
           \/ disk[f] = req[h].from
           \/ f \in shared[h]
           \/ req[h].kind # "selective" /\ f \notin kept[req[h].from]

\* Only the end of a restore answers "ok".
LEMMA SuccessStep ==
    ASSUME TypeOK, HandTrue, [Next]_vars, NEW h \in Handlers,
           answer'[h] = "ok", answer[h] # "ok"
    PROVE  Restored(h)
<1>1. answer' # answer
  OBVIOUS
<1>2. ASSUME NEW g \in Handlers, Finish(g) PROVE Restored(h)
  <2>1. g = h /\ ~ failed[h]
    BY <1>2 DEF Finish, StartRestart, Refused, Answers, TypeOK
  <2>2. Working(h) /\ todo[h] = {} /\ open[h] = {}
    <3>1. pc[h] \in {"look", "copy", "mongo"}
      BY <1>2, <2>1 DEF Finish, Complete, AllCopied
    <3>2. todo[h] = {}
      BY <1>2, <2>1 DEF Finish, Complete, AllCopied, HandTrue, HandOf
    <3> QED BY <3>1, <3>2 DEF TypeOK, Working
  <2>3. req[h].kind \in Directory
    BY <1>2, <2>1 DEF Finish, Directory
  <2>4. \A f \in req[h].part : InHand(h, f)
    BY <2>1, <2>2, <2>3 DEF HandTrue, HandOf
  <2> QED BY <2>2, <2>4 DEF InHand, Restored
<1>3. ASSUME NEW g \in Handlers, FinishDefaults(g) \/ FinishFull(g) PROVE Restored(h)
  <2>1. g = h
    BY <1>3 DEF FinishDefaults, FinishFull, StartRestart, Refused, Answers, TypeOK
  <2>2. req[h].kind \notin {"selective", "config", "both"}
    BY <1>3, <2>1 DEF FinishDefaults, FinishFull, Full
  <2> QED BY <2>2 DEF Restored
<1>4. ASSUME NEW g \in Handlers, Begin(g) \/ Check(g) \/ Extract(g) \/ FullFails(g) PROVE FALSE
  BY <1>4 DEF Begin, Check, Extract, FullFails, Answers, NoAnswer, TypeOK
<1>5. ASSUME NEW g \in Handlers,
             \/ Look(g) \/ Open(g) \/ Fill(g) \/ Replace(g) \/ OpenFails(g) \/ FillFails(g)
             \/ ExtrasFail(g) \/ RestoreMongo(g) \/ Poll(g) \/ EndFull(g)
      PROVE  FALSE
  BY <1>1, <1>5 DEF Look, Open, Fill, Replace, OpenFails, FillFails, ExtrasFail, RestoreMongo,
                    Poll, EndFull
<1>6. ASSUME JobStep \/ \E c \in Cleaners : ListOld(c) \/ RemoveFile(c) PROVE FALSE
  BY <1>1, <1>6 DEF JobStep, RestartUnit, RestartFails, JobEnds, ListOld, RemoveFile, restores
<1>7. ASSUME Exit \/ Crash PROVE FALSE
  BY <1>7 DEF Exit, Crash, BackendRestarts
<1>8. ASSUME UNCHANGED vars PROVE FALSE
  BY <1>1, <1>8 DEF vars, restores
<1> QED BY <1>2, <1>3, <1>4, <1>5, <1>6, <1>7, <1>8 DEF Next, RestoreStep

(* A restore of chosen files that is answered with success leaves each of  *)
(* them as its directory has it, or as another restore wrote it after or   *)
(* beside this one; one of a whole directory leaves so the files that are  *)
(* still there (restoreSelectedConfigs(), restoreBackup()).                *)
THEOREM SuccessTheorem == Spec => SuccessMeansRestored
<1>1. TypeOK /\ HandTrue /\ [Next]_vars =>
        [\A h \in Handlers :
          answer'[h] = "ok" /\ answer[h] # "ok" /\ req[h].kind \in {"selective", "config", "both"} =>
              \A f \in req[h].part :
                 \/ disk[f] = req[h].from
                 \/ f \in shared[h]
                 \/ req[h].kind # "selective" /\ f \notin kept[req[h].from]]_vars
  BY SuccessStep DEF Restored
<1> QED BY <1>1, HandInit, HandNext, OverlapInit, OverlapNext, TypeInit, TypeNext, PTL
        DEF Spec, SuccessMeansRestored
===============================================================================
