---------------------------- MODULE Traces_proofs ----------------------------
(***************************************************************************)
(* Proofs about the two components that keep a record of what happened.    *)
(*                                                                         *)
(* AuditLog: type correctness, and that what a call by itself has put in   *)
(* place stays on disk, for any number of calls, entries, failures and     *)
(* restarts.                                                               *)
(*                                                                         *)
(* HepCollector: that every document that was counted is accounted for,    *)
(* that a session that has been stopped takes nothing more, that a late    *)
(* stop does not take the scope of a newer session, and that a snapshot    *)
(* holds what was counted, for any number of sessions, handlers,           *)
(* documents, failures and restarts.                                       *)
(***************************************************************************)
EXTENDS AuditLog, HepCollector, FiniteSetTheorems, WellFoundedInduction, TLAPS

-----------------------------------------------------------------------------
(* The audit log *)

(* Newest first, and nothing twice.                                        *)
Decreasing(s) == \A i, j \in 1..Len(s) : i < j => s[i] > s[j]

(* Lists hold the calls made so far.                                       *)
Proper(s) == Decreasing(s) /\ \A i \in 1..Len(s) : s[i] <= calls

ListsProper ==
    /\ Proper(entries)
    /\ \A k \in Calls : Proper(json[k])
    /\ \A i \in Inodes : Proper(disk[i].list)

(* A call that has not opened its file yet has not created one.            *)
NamesFresh ==
    /\ tmp # NoFile => tmp # audit
    /\ \A k \in Calls :
          /\ k > calls => pc[k] = "none"
          /\ pc[k] \in {"none", "open"} => tmp # k /\ audit # k

(* A call by itself writes what is in memory, to what has the temporary    *)
(* name; while any other call is under way nothing is held to be safe.     *)
ByItself ==
    \A k \in Calls : UnderWay(k) =>
        IF k \in alone
        THEN /\ \A c \in Calls : UnderWay(c) => c = k
             /\ json[k] = entries
             /\ pc[k] = "write" => tmp # NoFile /\ fd[k] = tmp
             /\ pc[k] = "rename" => tmp # NoFile /\ disk[tmp] = Whole(json[k])
        ELSE safe = {}

(* What is safe is in memory too.                                          *)
InMemory == \A e \in safe : e <= calls /\ Covers(entries, e)

IInv == TypeOK /\ ListsProper /\ NamesFresh /\ ByItself /\ InMemory /\ Durable

\* What Push returns, element by element.
LEMMA PushElements ==
    ASSUME NEW s \in Lists, NEW k \in Calls
    PROVE  /\ Push(s, k) \in Lists
           /\ Len(Push(s, k)) = IF Len(s) < MaxEntries THEN Len(s) + 1 ELSE MaxEntries
           /\ Push(s, k)[1] = k
           /\ \A i \in 2..Len(Push(s, k)) : i - 1 \in 1..Len(s) /\ Push(s, k)[i] = s[i - 1]
<1>1. s \in Seq(Calls) /\ Len(s) <= MaxEntries /\ Len(s) \in Nat /\ MaxEntries \in Nat \ {0}
  BY AuditAssumption DEF Lists
<1>2. <<k>> \in Seq(Calls) /\ Len(<<k>>) = 1 /\ <<k>>[1] = k
  OBVIOUS
<1>3. CASE Len(s) < MaxEntries
  <2>1. Push(s, k) = <<k>> \o s
    BY <1>3 DEF Push
  <2> QED BY <1>1, <1>2, <1>3, <2>1 DEF Lists
<1>4. CASE ~(Len(s) < MaxEntries)
  <2> DEFINE t == SubSeq(s, 1, MaxEntries - 1)
  <2>1. Push(s, k) = <<k>> \o t
    BY <1>4 DEF Push
  <2>2. Len(s) = MaxEntries
    BY <1>1, <1>4
  <2>3. t \in Seq(Calls) /\ Len(t) = MaxEntries - 1 /\ \A i \in 1..(MaxEntries - 1) : t[i] = s[i]
    BY <1>1, <2>2
  <2> HIDE DEF t
  <2> QED BY <1>1, <1>2, <1>4, <2>1, <2>2, <2>3 DEF Lists
<1> QED BY <1>3, <1>4

\* A new entry pushes out none but the oldest.
LEMMA PushCovers ==
    ASSUME NEW s \in Lists, NEW k \in Calls, Decreasing(s),
           \A i \in 1..Len(s) : s[i] < k
    PROVE  /\ Decreasing(Push(s, k))
           /\ \A i \in 1..Len(Push(s, k)) : Push(s, k)[i] <= k
           /\ \A e \in Calls : e < k /\ Covers(s, e) => Covers(Push(s, k), e)
<1> DEFINE p == Push(s, k)
<1>1. /\ p \in Lists
      /\ Len(p) = IF Len(s) < MaxEntries THEN Len(s) + 1 ELSE MaxEntries
      /\ p[1] = k
      /\ \A i \in 2..Len(p) : i - 1 \in 1..Len(s) /\ p[i] = s[i - 1]
  BY PushElements
<1>2. /\ s \in Seq(Nat) /\ Len(s) \in Nat /\ Len(s) <= MaxEntries /\ MaxEntries \in Nat \ {0}
      /\ k \in Nat /\ \A e \in Calls : e \in Nat
      /\ DOMAIN s = 1..Len(s) /\ DOMAIN p = 1..Len(p)
      /\ \A i \in 1..Len(s) : s[i] \in Nat
  BY <1>1, AuditAssumption DEF Lists, Calls
<1> HIDE DEF p
<1>a. Len(p) \in Nat /\ Len(p) <= MaxEntries
  BY <1>1, <1>2 DEF Lists
<1>b. \A i \in 1..Len(p) :
         \/ i = 1 /\ p[i] = k
         \/ i - 1 \in 1..Len(s) /\ p[i] = s[i - 1] /\ p[i] < k
  <2> SUFFICES ASSUME NEW i \in 1..Len(p), i # 1
               PROVE  i - 1 \in 1..Len(s) /\ p[i] = s[i - 1] /\ p[i] < k
    BY <1>1
  <2>1. i \in 2..Len(p)
    BY <1>a
  <2> QED BY <1>1, <2>1
<1>3. Decreasing(p)
  <2> SUFFICES ASSUME NEW i \in 1..Len(p), NEW j \in 1..Len(p), i < j
               PROVE  p[i] > p[j]
    BY DEF Decreasing
  <2>1. j # 1 /\ j - 1 \in 1..Len(s) /\ p[j] = s[j - 1] /\ p[j] < k
    BY <1>a, <1>b
  <2>2. CASE i = 1
    BY <1>1, <1>2, <2>1, <2>2
  <2>3. CASE i # 1
    <3>1. i - 1 \in 1..Len(s) /\ p[i] = s[i - 1] /\ i - 1 < j - 1
      BY <1>a, <1>b, <2>3
    <3> QED BY <2>1, <3>1 DEF Decreasing
  <2> QED BY <2>2, <2>3
<1>4. \A i \in 1..Len(p) : p[i] <= k
  <2> TAKE i \in 1..Len(p)
  <2>1. CASE i = 1
    BY <1>1, <1>2, <2>1
  <2>2. CASE i # 1
    <3>1. i - 1 \in 1..Len(s) /\ p[i] = s[i - 1] /\ p[i] < k
      BY <1>b, <2>2
    <3>2. p[i] \in Nat
      BY <1>2, <3>1
    <3> QED BY <1>2, <3>1, <3>2
  <2> QED BY <2>1, <2>2
<1>5. ASSUME NEW e \in Calls, e < k, Covers(s, e) PROVE Covers(p, e)
  <2>0. e \in Nat
    BY <1>2
  <2>1. CASE Len(s) = MaxEntries /\ \A f \in Elements(s) : f > e
    <3>1. \A i \in 1..Len(s) : s[i] > e
      BY <1>2, <2>1 DEF Elements
    <3>2. ASSUME NEW i \in 1..Len(p) PROVE p[i] > e
      <4>1. CASE i = 1
        BY <1>1, <1>2, <1>5, <2>0, <4>1
      <4>2. CASE i # 1
        BY <1>b, <3>1, <4>2
      <4> QED BY <4>1, <4>2
    <3>3. Len(p) = MaxEntries
      BY <1>1, <1>2, <2>1
    <3>4. \A f \in Elements(p) : f > e
      BY <1>2, <3>2 DEF Elements
    <3> QED BY <3>3, <3>4 DEF Covers
  <2>2. CASE e \in Elements(s)
    <3>1. PICK i \in 1..Len(s) : s[i] = e
      BY <1>2, <2>2 DEF Elements
    <3>2. CASE i < MaxEntries
      <4>1. i + 1 \in 2..Len(p)
        BY <1>1, <1>2, <3>2
      <4>2. i + 1 - 1 = i
        BY <1>2
      <4>3. p[i + 1] = e
        BY <1>1, <3>1, <4>1, <4>2
      <4>4. i + 1 \in DOMAIN p
        BY <1>2, <1>a, <4>1
      <4> QED BY <4>3, <4>4 DEF Covers, Elements
    <3>3. CASE ~(i < MaxEntries)
      <4>a. Len(s) \in Nat /\ Len(s) <= MaxEntries /\ MaxEntries \in Nat
        BY <1>2
      <4>0. i = MaxEntries /\ Len(s) = MaxEntries
        BY <4>a, <3>3
      <4>1. i = MaxEntries /\ Len(s) = MaxEntries /\ Len(p) = MaxEntries
        BY <1>1, <4>0
      <4>2. ASSUME NEW j \in 1..Len(p) PROVE p[j] > e
        <5>1. CASE j = 1
          BY <1>1, <1>2, <1>5, <2>0, <5>1
        <5>2. CASE j # 1
          <6>1. j - 1 \in 1..Len(s) /\ p[j] = s[j - 1]
            BY <1>b, <5>2
          <6>2. j - 1 < i
            BY <4>1, <1>2
          <6> QED BY <3>1, <6>1, <6>2 DEF Decreasing
        <5> QED BY <5>1, <5>2
      <4>3. \A f \in Elements(p) : f > e
        BY <1>2, <4>2 DEF Elements
      <4> QED BY <4>1, <4>3 DEF Covers
    <3> QED BY <3>2, <3>3
  <2> QED BY <1>5, <2>1, <2>2 DEF Covers
<1> QED BY <1>3, <1>4, <1>5 DEF p

LEMMA EmptyList == <<>> \in Lists /\ Proper(<<>>) /\ Len(<<>>) = 0
<1>1. <<>> \in Seq(Calls) /\ Len(<<>>) = 0
  OBVIOUS
<1> QED BY <1>1, AuditAssumption DEF Lists, Proper, Decreasing

\* Calls and inodes are small numbers, and no file is none of them.
LEMMA Numbers ==
    /\ Calls \subseteq Inodes /\ NoFile \notin Inodes /\ NoFile \notin Calls
    /\ Inodes \subseteq Nat /\ Calls \subseteq Nat /\ 0 \in Inodes /\ 0 \notin Calls
BY AuditAssumption DEF Calls, Inodes, NoFile

(***************************************************************************)
(* Type correctness.                                                       *)
(***************************************************************************)
LEMMA TypeInit == Init => TypeOK
BY AuditAssumption, EmptyList, Numbers DEF Init, TypeOK, Whole

LEMMA TypeNext == TypeOK /\ [Next]_vars => TypeOK'
<1> SUFFICES ASSUME TypeOK, [Next]_vars PROVE TypeOK'
  OBVIOUS
<1> USE DEF TypeOK
<1>1. CASE Log
  <2>1. calls + 1 \in Calls /\ calls + 1 \in 0..MaxCalls
    BY <1>1, AuditAssumption DEF Log, Calls
  <2>2. Push(entries, calls + 1) \in Lists
    BY <2>1, PushElements
  <2>3. alone' \subseteq Calls /\ safe' \subseteq Calls
    BY <1>1, <2>1 DEF Log
  <2> QED BY <1>1, <2>1, <2>2, <2>3 DEF Log, files
<1>2. ASSUME NEW k \in Calls, Open(k) PROVE TypeOK'
  <2>1. Broken \in [list : Lists, whole : BOOLEAN]
    BY EmptyList DEF Broken
  <2> QED BY <1>2, <2>1, Numbers DEF Open
<1>3. ASSUME NEW k \in Calls, Write(k) PROVE TypeOK'
  <2>1. PICK w \in {TRUE, ~Shared(k)} :
           disk' = [disk EXCEPT ![fd[k]] = [list |-> json[k], whole |-> w]]
    BY <1>3 DEF Write
  <2>2. w \in BOOLEAN
    BY <2>1 DEF Shared
  <2>3. [list |-> json[k], whole |-> w] \in [list : Lists, whole : BOOLEAN]
    BY <2>2
  <2> QED BY <1>3, <2>1, <2>3 DEF Write
<1>4. ASSUME NEW k \in Calls, Rename(k) PROVE TypeOK'
  <2>1. Elements(json[k]) \subseteq Calls
    BY DEF Elements, Lists
  <2> QED BY <1>4, <2>1 DEF Rename
<1>5. ASSUME NEW k \in Calls, RenameMissing(k) PROVE TypeOK'
  BY <1>5 DEF RenameMissing, files
<1>6. ASSUME NEW k \in Calls, PersistFails(k) PROVE TypeOK'
  <2>1. Broken \in [list : Lists, whole : BOOLEAN]
    BY EmptyList DEF Broken
  <2>2. disk' \in [Inodes -> [list : Lists, whole : BOOLEAN]]
    BY <1>6, <2>1 DEF PersistFails
  <2>3. troubles' \in 0..MaxTroubles
    BY <1>6, AuditAssumption DEF PersistFails, Trouble
  <2> QED BY <1>6, <2>2, <2>3 DEF PersistFails
<1>7. CASE Restart
  <2>1. entries' \in Lists
    BY <1>7, EmptyList DEF Restart
  <2> QED BY <1>7, <2>1, AuditAssumption DEF Restart, Trouble, files
<1>8. CASE UNCHANGED vars
  BY <1>8 DEF vars, files
<1> QED BY <1>1, <1>2, <1>3, <1>4, <1>5, <1>6, <1>7, <1>8 DEF Next, PersistStep

(* Every variable keeps its type, and no list outgrows maxEntries.         *)
THEOREM TypeCorrect == Spec => []TypeOK
BY TypeInit, TypeNext, PTL DEF Spec

(***************************************************************************)
(* Durable.  By itself it is not inductive: a rename keeps it only if what *)
(* it puts in place holds what was there, and that is so because a call by *)
(* itself writes the list in memory, and to a file that is not audit.json. *)
(***************************************************************************)
LEMMA InvInit == Init => IInv
<1> SUFFICES ASSUME Init PROVE IInv
  OBVIOUS
<1>1. TypeOK
  BY TypeInit
<1>2. ListsProper
  BY EmptyList DEF Init, ListsProper, Whole
<1>3. NamesFresh
  BY Numbers DEF Init, NamesFresh
<1>4. ByItself /\ InMemory /\ Durable
  BY DEF Init, ByItself, UnderWay, InMemory, Durable
<1> QED BY <1>1, <1>2, <1>3, <1>4 DEF IInv

LEMMA InvLog ==
    ASSUME IInv, Log
    PROVE  ListsProper' /\ NamesFresh' /\ ByItself' /\ InMemory' /\ Durable'
<1> USE DEF IInv
<1> PICK k : k = calls + 1
  OBVIOUS
<1>1. /\ k \in Calls /\ calls' = k /\ calls \in Nat /\ k > calls
      /\ Calls \subseteq Nat /\ safe \subseteq Calls
  BY AuditAssumption DEF Log, Calls, TypeOK
<1>2. /\ entries' = Push(entries, k)
      /\ json'[k] = Push(entries, k) /\ \A c \in Calls \ {k} : json'[c] = json[c]
      /\ pc'[k] = "open" /\ \A c \in Calls \ {k} : pc'[c] = pc[c]
      /\ UNCHANGED <<fd, disk, tmp, audit>>
      /\ safe' \subseteq safe
  BY <1>1 DEF Log, files, TypeOK
<1>3. /\ entries \in Lists /\ Decreasing(entries)
      /\ \A i \in 1..Len(entries) : entries[i] < k
  <2>1. entries \in Lists /\ Proper(entries)
    BY DEF TypeOK, ListsProper
  <2>2. \A i \in 1..Len(entries) : entries[i] \in Calls
    BY <2>1 DEF Lists
  <2>3. ASSUME NEW i \in 1..Len(entries) PROVE entries[i] < k
    <3>1. entries[i] \in Nat /\ calls \in Nat /\ entries[i] <= calls
      BY <1>1, <2>1, <2>2 DEF Proper
    <3> QED BY <3>1
  <2> QED BY <2>1, <2>3 DEF Proper
<1>4. /\ Decreasing(Push(entries, k))
      /\ \A i \in 1..Len(Push(entries, k)) : Push(entries, k)[i] <= k
      /\ \A e \in Calls : e < k /\ Covers(entries, e) => Covers(Push(entries, k), e)
  BY <1>1, <1>3, PushCovers
<1>5. \A s \in Lists : Proper(s) => Proper(s)'
  <2> SUFFICES ASSUME NEW s \in Lists, Proper(s), NEW i \in 1..Len(s)
               PROVE  s[i] <= calls'
    BY DEF Proper
  <2>1. s[i] \in Calls /\ s[i] <= calls
    BY DEF Lists, Proper
  <2>2. s[i] \in Nat /\ calls \in Nat /\ calls' = calls + 1
    BY <1>1, <2>1
  <2> QED BY <2>1, <2>2
<1>6. ListsProper'
  <2>1. Proper(entries)'
    BY <1>1, <1>2, <1>4 DEF Proper
  <2>2. ASSUME NEW c \in Calls PROVE Proper(json[c])'
    <3>1. CASE c = k
      BY <1>1, <1>2, <1>4, <3>1 DEF Proper
    <3>2. CASE c # k
      <4>1. json'[c] = json[c] /\ json[c] \in Lists /\ Proper(json[c])
        BY <1>2, <3>2 DEF ListsProper, TypeOK
      <4> QED BY <4>1, <1>5 DEF Proper
    <3> QED BY <3>1, <3>2
  <2>3. ASSUME NEW i \in Inodes PROVE Proper(disk[i].list)'
    <3>1. disk'[i] = disk[i] /\ disk[i].list \in Lists /\ Proper(disk[i].list)
      BY <1>2 DEF ListsProper, TypeOK
    <3> QED BY <3>1, <1>5 DEF Proper
  <2> QED BY <2>1, <2>2, <2>3 DEF ListsProper
<1>7. pc[k] = "none"
  BY <1>1 DEF NamesFresh
<1>8. NamesFresh'
  BY <1>1, <1>2, <1>7 DEF NamesFresh
<1>9. ByItself'
  <2>1. CASE \E c \in Calls : UnderWay(c)
    <3>1. safe' = {} /\ alone' = {}
      BY <2>1 DEF Log
    <3> QED BY <3>1 DEF ByItself
  <2>2. CASE ~\E c \in Calls : UnderWay(c)
    <3>1. alone' = {k}
      BY <2>2 DEF Log
    <3>2. \A c \in Calls : UnderWay(c)' => c = k
      BY <1>2, <2>2 DEF UnderWay
    <3> QED BY <1>1, <1>2, <3>1, <3>2 DEF ByItself
  <2> QED BY <2>1, <2>2
<1>10. InMemory'
  <2> SUFFICES ASSUME NEW e \in safe' PROVE e <= calls' /\ Covers(entries', e)
    BY DEF InMemory, Covers, Elements
  <2>1. e \in Calls /\ e \in Nat /\ e <= calls /\ Covers(entries, e)
    BY <1>1, <1>2 DEF InMemory
  <2>2. e < k
    BY <1>1, <2>1
  <2> QED BY <1>1, <1>2, <1>4, <2>1, <2>2
<1>11. Durable'
  BY <1>2 DEF Durable, Covers, Elements
<1> QED BY <1>6, <1>8, <1>9, <1>10, <1>11

\* While k is under way, a call by itself is k.
LEMMA Beside ==
    ASSUME IInv, NEW k \in Calls, UnderWay(k)
    PROVE  \/ k \in alone /\ \A c \in Calls \ {k} : ~UnderWay(c)
           \/ k \notin alone /\ safe = {}
              /\ \A c \in Calls : UnderWay(c) => c \notin alone
BY DEF IInv, ByItself

LEMMA InvOpen ==
    ASSUME IInv, NEW k \in Calls, Open(k)
    PROVE  ListsProper' /\ NamesFresh' /\ ByItself' /\ InMemory' /\ Durable'
<1> USE DEF IInv
<1> PICK i : i = IF tmp # NoFile THEN tmp ELSE k
  OBVIOUS
<1>1. /\ pc[k] = "open" /\ tmp' = i /\ i \in Inodes /\ i # NoFile /\ i # audit
      /\ fd'[k] = i /\ disk' = [disk EXCEPT ![i] = Broken]
      /\ pc'[k] = "write" /\ \A c \in Calls \ {k} : pc'[c] = pc[c]
      /\ UNCHANGED <<entries, calls, json, audit, alone, safe>>
  BY Numbers DEF Open, TypeOK, NamesFresh
<1>2. /\ disk'[i].list = <<>>
      /\ \A j \in Inodes \ {i} : disk'[j] = disk[j]
  BY <1>1 DEF TypeOK, Broken
<1>3. UnderWay(k)
  BY <1>1 DEF UnderWay
<1>4. ListsProper'
  <2>1. ASSUME NEW j \in Inodes PROVE Proper(disk'[j].list)
    BY <1>2, EmptyList DEF ListsProper
  <2> QED BY <1>1, <2>1 DEF ListsProper, Proper
<1>5. NamesFresh'
  <2>1. \A c \in Calls : pc'[c] \in {"none", "open"} => c # k /\ tmp # c /\ audit # c
    BY <1>1 DEF NamesFresh
  <2>2. \A c \in Calls : pc'[c] \in {"none", "open"} => i # c
    BY <2>1
  <2>3. pc[k] # "none"
    BY <1>1
  <2> QED BY <1>1, <2>1, <2>2, <2>3 DEF NamesFresh
<1>6. ByItself'
  <2>1. CASE k \in alone /\ \A c \in Calls \ {k} : ~UnderWay(c)
    <3>1. \A c \in Calls : UnderWay(c)' => c = k
      BY <1>1, <2>1 DEF UnderWay
    <3>2. json[k] = entries
      BY <1>3, <2>1 DEF ByItself
    <3> QED BY <1>1, <2>1, <3>1, <3>2 DEF ByItself
  <2>2. CASE k \notin alone /\ safe = {} /\ \A c \in Calls : UnderWay(c) => c \notin alone
    <3>1. \A c \in Calls : UnderWay(c)' => UnderWay(c)
      BY <1>1, <1>3 DEF UnderWay
    <3> QED BY <1>1, <2>2, <3>1 DEF ByItself
  <2> QED BY <1>3, <2>1, <2>2, Beside
<1>7. InMemory'
  BY <1>1 DEF InMemory, Covers, Elements
<1>8. Durable'
  BY <1>1, <1>2, Numbers DEF Durable, Covers, Elements, TypeOK
<1> QED BY <1>4, <1>5, <1>6, <1>7, <1>8

LEMMA InvWrite ==
    ASSUME IInv, NEW k \in Calls, Write(k)
    PROVE  ListsProper' /\ NamesFresh' /\ ByItself' /\ InMemory' /\ Durable'
<1> USE DEF IInv
<1>1. PICK w \in {TRUE, ~Shared(k)} :
        /\ pc[k] = "write"
        /\ disk' = [disk EXCEPT ![fd[k]] = [list |-> json[k], whole |-> w]]
        /\ pc' = [pc EXCEPT ![k] = "rename"]
        /\ UNCHANGED <<entries, calls, json, fd, tmp, audit, alone, safe>>
  BY DEF Write
<1>2. /\ UnderWay(k)
      /\ pc'[k] = "rename" /\ \A c \in Calls \ {k} : pc'[c] = pc[c]
      /\ \A j \in Inodes :
            disk'[j] = IF j = fd[k] THEN [list |-> json[k], whole |-> w] ELSE disk[j]
  BY <1>1 DEF UnderWay, TypeOK
<1>3. ListsProper'
  <2>1. ASSUME NEW j \in Inodes PROVE Proper(disk'[j].list)
    BY <1>2 DEF ListsProper
  <2> QED BY <1>1, <2>1 DEF ListsProper, Proper
<1>4. NamesFresh'
  BY <1>1, <1>2 DEF NamesFresh
<1>5. CASE k \in alone /\ \A c \in Calls \ {k} : ~UnderWay(c)
  <2>1. tmp # NoFile /\ fd[k] = tmp /\ tmp \in Inodes /\ tmp # audit /\ json[k] = entries
    BY <1>1, <1>2, <1>5 DEF ByItself, NamesFresh, TypeOK
  <2>2. w = TRUE
    BY <1>1, <1>5 DEF Shared
  <2>3. \A c \in Calls : UnderWay(c)' => c = k
    BY <1>2, <1>5 DEF UnderWay
  <2>4. disk'[tmp] = Whole(json[k])
    BY <1>2, <2>1, <2>2 DEF Whole
  <2>5. ByItself'
    BY <1>1, <1>2, <1>5, <2>1, <2>3, <2>4 DEF ByItself
  <2>6. Durable'
    BY <1>1, <1>2, <2>1 DEF Durable, Covers, Elements, TypeOK
  <2> QED BY <1>1, <1>3, <1>4, <2>5, <2>6 DEF InMemory, Covers, Elements
<1>6. CASE k \notin alone /\ safe = {} /\ \A c \in Calls : UnderWay(c) => c \notin alone
  <2>1. \A c \in Calls : UnderWay(c)' => UnderWay(c)
    BY <1>2 DEF UnderWay
  <2>2. safe' = {} /\ alone' = alone
    BY <1>1, <1>6
  <2>3. ByItself'
    BY <1>6, <2>1, <2>2 DEF ByItself
  <2> QED BY <1>3, <1>4, <2>2, <2>3 DEF InMemory, Durable
<1> QED BY <1>2, <1>5, <1>6, Beside

LEMMA InvRename ==
    ASSUME IInv, NEW k \in Calls, Rename(k)
    PROVE  ListsProper' /\ NamesFresh' /\ ByItself' /\ InMemory' /\ Durable'
<1> USE DEF IInv
<1>1. /\ pc[k] = "rename" /\ tmp # NoFile /\ tmp \in Inodes
      /\ audit' = tmp /\ tmp' = NoFile
      /\ pc'[k] = "done" /\ \A c \in Calls \ {k} : pc'[c] = pc[c]
      /\ UNCHANGED <<entries, calls, json, fd, disk, alone>>
  BY DEF Rename, TypeOK
<1>2. UnderWay(k)
  BY <1>1 DEF UnderWay
<1>3. ListsProper'
  BY <1>1 DEF ListsProper, Proper
<1>4. NamesFresh'
  <2>1. \A c \in Calls : pc'[c] \in {"none", "open"} => pc[c] = pc'[c]
    BY <1>1
  <2> QED BY <1>1, <2>1, Numbers DEF NamesFresh
<1>5. CASE k \in alone /\ \A c \in Calls \ {k} : ~UnderWay(c)
  <2>1. json[k] = entries /\ disk[tmp] = Whole(entries)
    BY <1>1, <1>2, <1>5 DEF ByItself
  <2>2. safe' = safe \cup Elements(entries)
    BY <1>5, <2>1 DEF Rename
  <2>3. \A c \in Calls : ~UnderWay(c)'
    BY <1>1, <1>5 DEF UnderWay
  <2>4. ASSUME NEW e \in safe' PROVE e <= calls /\ Covers(entries, e)
    <3>1. CASE e \in safe
      BY <3>1 DEF InMemory
    <3>2. CASE e \in Elements(entries)
      <4>1. DOMAIN entries = 1..Len(entries)
        BY DEF TypeOK, Lists
      <4>2. e <= calls
        BY <3>2, <4>1 DEF Elements, ListsProper, Proper
      <4> QED BY <3>2, <4>2 DEF Covers
    <3> QED BY <2>2, <2>4, <3>1, <3>2
  <2>5. InMemory'
    BY <1>1, <2>4 DEF InMemory, Covers, Elements
  <2>6. disk'[audit'].whole /\ disk'[audit'].list = entries /\ audit' # NoFile
    BY <1>1, <2>1 DEF Whole
  <2>7. Durable'
    BY <2>4, <2>6 DEF Durable, Covers, Elements
  <2> QED BY <1>3, <1>4, <2>3, <2>5, <2>7 DEF ByItself
<1>6. CASE k \notin alone /\ safe = {} /\ \A c \in Calls : UnderWay(c) => c \notin alone
  <2>1. safe' = {}
    BY <1>6 DEF Rename
  <2>2. \A c \in Calls : UnderWay(c)' => UnderWay(c)
    BY <1>1 DEF UnderWay
  <2>3. ByItself'
    BY <1>1, <1>6, <2>1, <2>2 DEF ByItself
  <2> QED BY <1>3, <1>4, <2>1, <2>3 DEF InMemory, Durable
<1> QED BY <1>2, <1>5, <1>6, Beside

\* A call that ends without a rename, whatever became of what it wrote.
LEMMA InvGivesUp ==
    ASSUME IInv, NEW k \in Calls, UnderWay(k),
           pc' = [pc EXCEPT ![k] = "done"],
           UNCHANGED <<entries, calls, json, fd, tmp, audit, alone, safe>>,
           \/ disk' = disk
           \/ pc[k] = "write" /\ disk' = [disk EXCEPT ![fd[k]] = Broken]
    PROVE  ListsProper' /\ NamesFresh' /\ ByItself' /\ InMemory' /\ Durable'
<1> USE DEF IInv
<1>1. pc'[k] = "done" /\ \A c \in Calls \ {k} : pc'[c] = pc[c]
  BY DEF TypeOK
<1>2. \A j \in Inodes :
        \/ disk'[j] = disk[j]
        \/ pc[k] = "write" /\ j = fd[k] /\ disk'[j] = Broken
  BY DEF TypeOK
<1>3. ListsProper'
  <2>1. ASSUME NEW j \in Inodes PROVE Proper(disk'[j].list)
    BY <1>2, EmptyList DEF ListsProper, Broken
  <2> QED BY <2>1 DEF ListsProper, Proper
<1>4. NamesFresh'
  BY <1>1 DEF NamesFresh, UnderWay
<1>5. InMemory'
  BY DEF InMemory, Covers, Elements
<1>6. CASE k \in alone /\ \A c \in Calls \ {k} : ~UnderWay(c)
  <2>1. \A c \in Calls : ~UnderWay(c)'
    BY <1>1, <1>6 DEF UnderWay
  <2>2. audit # NoFile => disk'[audit] = disk[audit]
    BY <1>2, <1>6 DEF ByItself, NamesFresh, TypeOK
  <2>3. Durable'
    BY <2>2 DEF Durable, Covers, Elements
  <2> QED BY <1>3, <1>4, <1>5, <2>1, <2>3 DEF ByItself
<1>7. CASE k \notin alone /\ safe = {} /\ \A c \in Calls : UnderWay(c) => c \notin alone
  <2>1. \A c \in Calls : UnderWay(c)' => UnderWay(c)
    BY <1>1 DEF UnderWay
  <2>2. ByItself' /\ Durable'
    BY <1>7, <2>1 DEF ByItself, Durable
  <2> QED BY <1>3, <1>4, <1>5, <2>2
<1> QED BY <1>6, <1>7, Beside

LEMMA InvRestart ==
    ASSUME IInv, Restart
    PROVE  ListsProper' /\ NamesFresh' /\ ByItself' /\ InMemory' /\ Durable'
<1> USE DEF IInv
<1>1. /\ \A k \in Calls : pc'[k] = IF UnderWay(k) THEN "done" ELSE pc[k]
      /\ UNCHANGED <<calls, json, fd, disk, tmp, audit>>
  BY DEF Restart, files
<1>2. \/ /\ safe' = safe
         /\ audit # NoFile /\ disk[audit].whole /\ entries' = disk[audit].list
      \/ /\ safe' = {} /\ entries' = <<>>
      \/ /\ safe' = safe /\ entries' = <<>> /\ ~(audit # NoFile /\ disk[audit].whole)
  BY DEF Restart
<1>3. ListsProper'
  <2>1. Proper(entries')
    BY <1>2, EmptyList DEF ListsProper, TypeOK
  <2> QED BY <1>1, <2>1 DEF ListsProper, Proper
<1>4. NamesFresh'
  BY <1>1 DEF NamesFresh, UnderWay
<1>5. ByItself'
  BY <1>1 DEF ByItself, UnderWay
<1>6. InMemory'
  <2> SUFFICES ASSUME NEW e \in safe' PROVE e <= calls' /\ Covers(entries', e)
    BY DEF InMemory, Covers, Elements
  <2> QED BY <1>1, <1>2 DEF InMemory, Durable
<1>7. Durable'
  BY <1>1, <1>2 DEF Durable, Covers, Elements
<1> QED BY <1>3, <1>4, <1>5, <1>6, <1>7

LEMMA InvNext == IInv /\ [Next]_vars => IInv'
<1> SUFFICES ASSUME IInv, [Next]_vars PROVE IInv'
  OBVIOUS
<1> DEFINE Rest == ListsProper /\ NamesFresh /\ ByItself /\ InMemory /\ Durable
<1>1. TypeOK'
  BY TypeNext DEF IInv
<1>2. Log => Rest'
  BY InvLog
<1>3. ASSUME NEW k \in Calls, PersistStep(k) PROVE Rest'
  <2>1. RenameMissing(k) \/ PersistFails(k) => Rest'
    BY InvGivesUp DEF RenameMissing, PersistFails, UnderWay, files
  <2> QED BY <1>3, <2>1, InvOpen, InvWrite, InvRename DEF PersistStep
<1>4. Restart => Rest'
  BY InvRestart
<1>5. UNCHANGED vars => Rest'
  BY DEF IInv, vars, files, ListsProper, Proper, NamesFresh, ByItself, UnderWay,
         InMemory, Durable, Covers, Elements
<1>6. Rest'
  BY <1>2, <1>3, <1>4, <1>5 DEF Next
<1> QED BY <1>1, <1>6 DEF IInv

(* What a call by itself has put in place is on disk from then on, until   *)
(* newer entries push it out.                                              *)
THEOREM DurableTheorem == Spec => []Durable
<1>1. IInv => Durable
  BY DEF IInv
<1> QED BY InvInit, InvNext, <1>1, PTL DEF Spec

-----------------------------------------------------------------------------
(* The HEP collector *)

Statuses == {"none", "running", "failed", "stopped", "interrupted"}
StarterLabels == {"idle", "scope", "launch", "fail"}
FinisherLabels == {"idle", "find", "clear", "count", "read", "write", "close"}

CollectorTyped ==
    /\ mode \in {"up", "closing", "closed"} /\ life \in Nat
    /\ filter \in Sessions \cup {NoSession} /\ keep \in BOOLEAN
    /\ seq \in Nat /\ queue \subseteq Docs /\ \A b \in flights : b \subseteq Docs
    /\ flushing \in BOOLEAN /\ count \in [Counters -> Nat]
    /\ stored \subseteq Docs /\ lost \subseteq Docs /\ overlap \in BOOLEAN

RowsTyped ==
    row \in [Sessions -> [status : Statuses, matched : Nat, filtered : Nat,
                          snapshot : SUBSET Docs, taken : BOOLEAN, truncated : BOOLEAN,
                          error : BOOLEAN]]

HandlersTyped ==
    /\ at \in [Procs -> StarterLabels \cup FinisherLabels]
    /\ \A p \in Procs : at[p] \in IF p \in Starters THEN StarterLabels ELSE FinisherLabels
    /\ sess \in [Procs -> Sessions \cup {NoSession}]
    /\ \A p \in Procs : sess[p] = NoSession <=> at[p] \in {"idle", "find"}
    /\ seen \in [Procs -> [filtered : Nat, matched : Nat, docs : SUBSET Docs,
                           error : BOOLEAN]]

BoundsTyped ==
    /\ arrived \in 0..MaxDatagrams /\ seq <= arrived
    /\ ops \in 0..MaxOps
    /\ hepTroubles \in 0..MaxHepTroubles
    /\ life + (IF mode = "up" THEN 0 ELSE 1) <= hepTroubles

AllFinite ==
    /\ IsFiniteSet(queue) /\ IsFiniteSet(lost) /\ IsFiniteSet(stored)
    /\ \A b \in flights : IsFiniteSet(b)

HepTypeInv == CollectorTyped /\ RowsTyped /\ HandlersTyped /\ BoundsTyped /\ AllFinite

(* A document is in one place of the collector, one batch at most flies,   *)
(* and the documents of this life have numbers that were given out.        *)
Waiting == queue \cup Flying \cup {d \in lost : d.life = life}

QueueProper ==
    /\ \A d \in queue \cup Flying : d.life = life
    /\ \A d \in queue \cup Flying \cup lost : d.life <= life /\ (d.life = life => d.seq < seq)
    /\ \A b \in flights : flights = {b} /\ b \cap queue = {} /\ b \cap lost = {}
    /\ queue \cap lost = {}
    /\ flushing <=> flights # {}

(* Unless handlers overlapped, a session is worked on by one handler at    *)
(* most and runs as long as that one works on it; the filter is that of    *)
(* the running session, and of none that is failing or wound up.           *)
OneRuns == \A s, t \in Running : s = t

OneWorks ==
    /\ \A p, q \in Procs : sess[p] # NoSession /\ sess[p] = sess[q] => p = q
    /\ \A p \in Procs : sess[p] # NoSession => sess[p] \in Running

Leaving == {"fail", "count", "read", "write", "close"}

ScopeOfRunning ==
    /\ filter # NoSession => filter \in Running
    /\ \A p \in Procs : at[p] \in Leaving => filter # sess[p]

ScopeInv == OneRuns /\ (~ overlap => OneWorks /\ ScopeOfRunning)

(* What a handler counted is in what it read, or it read one more than it  *)
(* will keep; the same of what it wrote.                                   *)
CountedBy(p) ==
    /\ at[p] \in {"idle", "find", "clear", "count"} => seen[p].matched = 0
    /\ at[p] = "read" => seen[p].matched <= Cardinality(Of(sess[p]))
    /\ seen[p].docs \subseteq stored
    /\ at[p] = "write" =>
          \/ seen[p].matched <= Cardinality(seen[p].docs)
          \/ Cardinality(seen[p].docs) > SnapshotLimit
    /\ at[p] = "close" /\ ~ overlap =>
          \/ seen[p].matched <= Cardinality(row[sess[p]].snapshot)
          \/ row[sess[p]].truncated \/ seen[p].error

ReadIsCounted == \A p \in Finishers : CountedBy(p)

SnapshotInv == ReadIsCounted /\ CountedInSnapshot

(***************************************************************************)
(* Type correctness of the collector.                                      *)
(***************************************************************************)

\* No handler plays two parts, and 0 is no session.
LEMMA HepParts ==
    /\ Starters \cap Finishers = {} /\ Procs = Starters \cup Finishers
    /\ Boot \in Finishers /\ Stoppers \subseteq Finishers
    /\ NoSession \notin Sessions
BY HepNamesAssumption DEF Procs, Finishers, NoSession

\* Every non-empty set of sessions has a least one.
LEMMA LeastIn ==
    ASSUME NEW S, S \subseteq Sessions, S # {}
    PROVE  Least(S) \in S
<1>1. S \subseteq Nat
  BY HepNamesAssumption
<1>2. PICK s \in S : \A t \in S : <<t, s>> \notin OpToRel(<, Nat)
  BY <1>1, NatLessThanWellFounded, WFMin
<1>3. \A t \in S : s <= t
  <2> TAKE t \in S
  <2>1. s \in Nat /\ t \in Nat
    BY <1>1
  <2>2. ~ (t < s)
    BY <1>2, <2>1 DEF OpToRel
  <2> QED BY <2>1, <2>2
<1> QED BY <1>3 DEF Least

LEMMA HepTypeInit == HepInit => HepTypeInv
<1> SUFFICES ASSUME HepInit PROVE HepTypeInv
  OBVIOUS
<1> USE HepParts, HepBoundsAssumption DEF HepInit
<1>1. CollectorTyped
  BY DEF CollectorTyped, NoCount
<1>2. RowsTyped
  BY DEF RowsTyped, NewRow, Statuses
<1>3. HandlersTyped
  BY DEF HandlersTyped, NoneSeen, StarterLabels, FinisherLabels
<1>4. BoundsTyped
  BY DEF BoundsTyped
<1>5. AllFinite
  BY FS_EmptySet DEF AllFinite
<1> QED BY <1>1, <1>2, <1>3, <1>4, <1>5 DEF HepTypeInv

\* A document of this life that is queued now is a document.
LEMMA NewDocument ==
    ASSUME HepTypeInv, arrived < MaxDatagrams,
           NEW tag \in {NoSession, filter}
    PROVE  [life |-> life, seq |-> seq, tag |-> tag] \in Docs
<1>1. life \in 0..MaxHepTroubles /\ seq \in 0..MaxDatagrams
  BY HepBoundsAssumption DEF HepTypeInv, CollectorTyped, BoundsTyped
<1>2. tag \in Sessions \cup {NoSession}
  BY DEF HepTypeInv, CollectorTyped
<1> QED BY <1>1, <1>2 DEF Docs

Added(tag) == [life |-> life, seq |-> seq, tag |-> tag]

Dropped(why) ==
    /\ why \in {"bad", "notSip", "keepalive", "scoped", "overflow"}
    /\ \E said \in {{}, {"unparsed"}} : Counted({why} \cup said)
    /\ UNCHANGED <<seq, queue, flights, flushing>>

Queued(tag) ==
    /\ tag \in {NoSession, filter}
    /\ \E said \in {{}, {"unparsed"}} : Counted(said)
    /\ seq' = seq + 1
    /\ \/ queue' = queue \cup {Added(tag)} /\ UNCHANGED <<flights, flushing>>
       \/ /\ ~ flushing /\ flushing' = TRUE
          /\ queue' = {} /\ flights' = flights \cup {queue \cup {Added(tag)}}

\* A datagram is dropped and counted, or queued.
LEMMA DatagramEffect ==
    ASSUME NEW m \in Datagrams, Datagram(m)
    PROVE  /\ arrived < MaxDatagrams /\ arrived' = arrived + 1
           /\ UNCHANGED <<mode, life, keep, filter, stored, row, at, sess, seen, lost,
                          overlap, ops, hepTroubles>>
           /\ (\E why : Dropped(why)) \/ (\E tag : Queued(tag))
<1>1. /\ arrived < MaxDatagrams /\ arrived' = arrived + 1
      /\ UNCHANGED <<mode, life, keep, filter, stored, row, at, sess, seen, lost,
                     overlap, ops, hepTroubles>>
  BY DEF Datagram, handlers, history
<1>2. m.shape \in {"bad", "notSip", "sip"}
  BY HepNamesAssumption
<1>3. CASE Ignore({m.shape}) /\ m.shape # "sip"
  <2>1. Dropped(m.shape)
    BY <1>2, <1>3 DEF Dropped, Ignore
  <2> QED BY <1>1, <2>1
<1>4. CASE Ignore({"keepalive"})
  <2>1. Dropped("keepalive")
    BY <1>4 DEF Dropped, Ignore
  <2> QED BY <1>1, <2>1
<1>5. CASE Ignore({"scoped"})
  <2>1. Dropped("scoped")
    BY <1>5 DEF Dropped, Ignore
  <2> QED BY <1>1, <2>1
<1>6. CASE Enqueue(m)
  <2> DEFINE tag == IF Decide(m) = "in-scope" THEN filter ELSE NoSession
             said == IF Decide(m) = "unparseable" /\ filter # NoSession THEN {"unparsed"}
                                                                      ELSE {}
  <2>1. tag \in {NoSession, filter} /\ said \in {{}, {"unparsed"}}
    OBVIOUS
  <2>2. CASE Cardinality(queue) >= MaxQueue
    <3>1. Ignore(said \cup {"overflow"})
      BY <1>6, <2>2 DEF Enqueue, EnqueueUnless
    <3>2. said \cup {"overflow"} = {"overflow"} \cup said
      OBVIOUS
    <3>3. Dropped("overflow")
      BY <2>1, <3>1, <3>2 DEF Dropped, Ignore
    <3> QED BY <1>1, <3>3
  <2>3. CASE ~ (Cardinality(queue) >= MaxQueue)
    <3>1. /\ Counted(said) /\ seq' = seq + 1
          /\ IF Cardinality(queue) + 1 >= FlushAt THEN Flush(queue \cup {Added(tag)})
             ELSE queue' = queue \cup {Added(tag)} /\ UNCHANGED <<flights, flushing>>
      BY <1>6, <2>3 DEF Enqueue, EnqueueUnless, Added
    <3>2. \/ queue' = queue \cup {Added(tag)} /\ UNCHANGED <<flights, flushing>>
          \/ Flush(queue \cup {Added(tag)})
      BY <3>1
    <3>3. Queued(tag)
      BY <2>1, <3>1, <3>2 DEF Queued, Flush
    <3> QED BY <1>1, <3>3
  <2> QED BY <2>2, <2>3
<1>7. \/ Ignore({m.shape}) /\ m.shape # "sip"
      \/ Ignore({"keepalive"}) \/ Ignore({"scoped"}) \/ Enqueue(m)
  BY <1>2 DEF Datagram
<1> QED BY <1>3, <1>4, <1>5, <1>6, <1>7

\* A flight is what flies, or nothing does.
LEMMA FiniteFlights ==
    ASSUME NEW b \in flights, flights = {b}
    PROVE  Flying = b
BY DEF Flying

(* What a step of the collector leaves alone, and what keeps its type as   *)
(* the step does not touch it.                                             *)
LEMMA RestTyped ==
    ASSUME HepTypeInv, UNCHANGED <<row, at, sess, seen>>
    PROVE  RowsTyped' /\ HandlersTyped'
BY DEF HepTypeInv, RowsTyped, HandlersTyped

LEMMA BoundsKept ==
    ASSUME HepTypeInv, UNCHANGED <<life, mode, seq>>,
           arrived' \in 0..MaxDatagrams, arrived' >= arrived,
           ops' \in 0..MaxOps, hepTroubles' \in 0..MaxHepTroubles, hepTroubles' >= hepTroubles
    PROVE  BoundsTyped'
<1>1. life + (IF mode = "up" THEN 0 ELSE 1) <= hepTroubles
  BY DEF HepTypeInv, BoundsTyped
<1>2. life \in Nat /\ seq \in Nat /\ hepTroubles \in Nat /\ hepTroubles' \in Nat /\ arrived \in Nat
  BY HepBoundsAssumption DEF HepTypeInv, CollectorTyped, BoundsTyped
<1>3. life' + (IF mode' = "up" THEN 0 ELSE 1) <= hepTroubles'
  BY <1>1, <1>2
<1>4. seq' <= arrived'
  BY <1>2, HepBoundsAssumption DEF HepTypeInv, BoundsTyped
<1> QED BY <1>3, <1>4 DEF BoundsTyped

\* A call that fails raises the count of hepTroubles at most.
LEMMA FailureCounts ==
    ASSUME HepTypeInv, DbFails \/ HepTrouble
    PROVE  hepTroubles' \in 0..MaxHepTroubles /\ hepTroubles' >= hepTroubles
BY HepBoundsAssumption DEF DbFails, HepTrouble, HepTypeInv, BoundsTyped

\* Only these steps change what the collector holds.
LEMMA QueueSteps ==
    ASSUME [HepNext]_hepVars
    PROVE  \/ \E m \in Datagrams : Datagram(m)
           \/ Tick
           \/ \E b \in flights : Inserted(b)
           \/ Renew
           \/ UNCHANGED <<life, seq, queue, flights, flushing, count, stored, lost>>
<1> USE DEF collector, history, handlers, bounds
<1>1. CASE SetKeepalives \/ Sigterm \/ Disconnect
  BY <1>1 DEF SetKeepalives, Sigterm, Disconnect
<1>2. ASSUME NEW p, Claim(p) \/ AskStop(p) \/ SetScope(p) \/ Launch(p) \/ Fail(p)
      PROVE  UNCHANGED <<life, seq, queue, flights, flushing, count, stored, lost>>
  BY <1>2 DEF Claim, AskStop, SetScope, Launch, Fail
<1>3. ASSUME NEW p, Find(p) \/ ClearScope(p) \/ CountMessages(p)
      PROVE  UNCHANGED <<life, seq, queue, flights, flushing, count, stored, lost>>
  BY <1>3 DEF Find, ClearScope, LeaveScope, CountMessages
<1>4. ASSUME NEW p, ReadMessages(p) \/ WriteSnapshot(p) \/ Close(p)
      PROVE  UNCHANGED <<life, seq, queue, flights, flushing, count, stored, lost>>
  BY <1>4 DEF ReadMessages, ReadUpTo, WriteSnapshot, Close
<1>5. CASE Exit \/ Crash
  BY <1>5 DEF Exit, Crash
<1>6. CASE UNCHANGED hepVars
  BY <1>6 DEF hepVars
<1> QED BY <1>1, <1>2, <1>3, <1>4, <1>5, <1>6 DEF HepNext, Step

\* The sets of documents stay finite.
LEMMA FiniteStep ==
    ASSUME AllFinite, QueueProper, [HepNext]_hepVars
    PROVE  AllFinite'
<1> USE DEF AllFinite
<1>1. ASSUME NEW m \in Datagrams, Datagram(m) PROVE AllFinite'
  <2>1. /\ UNCHANGED <<stored, lost>>
        /\ (\E why : Dropped(why)) \/ (\E tag : Queued(tag))
    BY <1>1, DatagramEffect
  <2>2. ASSUME NEW why, Dropped(why) PROVE AllFinite'
    BY <2>1, <2>2 DEF Dropped
  <2>3. ASSUME NEW tag, Queued(tag) PROVE AllFinite'
    <3>1. IsFiniteSet(queue \cup {Added(tag)}) /\ IsFiniteSet({})
      BY FS_AddElement, FS_EmptySet
    <3> QED BY <2>1, <2>3, <3>1 DEF Queued
  <2> QED BY <2>1, <2>2, <2>3
<1>2. CASE Tick
  BY <1>2, FS_EmptySet DEF Tick, Flush, history
<1>3. ASSUME NEW b \in flights, Inserted(b) PROVE AllFinite'
  <2>1. PICK part \in SUBSET b : stored' = stored \cup part
    BY <1>3 DEF Inserted, InsertEnds, InsertFails
  <2>2. IsFiniteSet(part) /\ IsFiniteSet(b)
    BY FS_Subset
  <2>3. IsFiniteSet(stored') /\ IsFiniteSet(lost \cup b)
    BY <2>1, <2>2, FS_Union
  <2>4. lost' \in {lost, lost \cup b} /\ queue' = queue /\ flights' = flights \ {b}
    BY <1>3 DEF Inserted, InsertEnds, InsertFails, history
  <2> QED BY <2>3, <2>4
<1>4. CASE Renew
  <2>1. IsFiniteSet(Flying)
    <3>1. CASE flights = {}
      BY <3>1, FS_EmptySet DEF Flying
    <3>2. CASE flights # {}
      BY <3>2, FiniteFlights DEF QueueProper
    <3> QED BY <3>1, <3>2
  <2>2. PICK part \in SUBSET Flying : stored' = stored \cup part
    BY <1>4 DEF Renew, Flying
  <2>3. IsFiniteSet(part)
    BY <2>1, FS_Subset
  <2>4. IsFiniteSet(stored') /\ IsFiniteSet((lost \cup queue) \cup Flying)
    BY <2>1, <2>2, <2>3, FS_Union
  <2>5. lost' = (lost \cup queue) \cup Flying /\ queue' = {} /\ flights' = {}
    BY <1>4 DEF Renew, Flying
  <2> QED BY <2>4, <2>5, FS_EmptySet
<1>5. CASE UNCHANGED <<queue, flights, stored, lost>>
  BY <1>5
<1> QED BY <1>1, <1>2, <1>3, <1>4, <1>5, QueueSteps

\* The collector's own steps keep types.
LEMMA CollectorTypeStep ==
    ASSUME HepTypeInv,
           \/ \E m \in Datagrams : Datagram(m)
           \/ Tick \/ (\E b \in flights : Inserted(b)) \/ SetKeepalives
    PROVE  CollectorTyped' /\ RowsTyped' /\ HandlersTyped' /\ BoundsTyped'
<1>1. ASSUME NEW m \in Datagrams, Datagram(m)
      PROVE  CollectorTyped' /\ RowsTyped' /\ HandlersTyped' /\ BoundsTyped'
  <2>1. /\ arrived < MaxDatagrams /\ arrived' = arrived + 1
        /\ UNCHANGED <<mode, life, keep, filter, stored, row, at, sess, seen, lost,
                       overlap, ops, hepTroubles>>
        /\ (\E why : Dropped(why)) \/ (\E tag : Queued(tag))
    BY <1>1, DatagramEffect
  <2>2. RowsTyped' /\ HandlersTyped'
    BY <2>1, RestTyped
  <2>3. ASSUME NEW cs, Counted(cs) PROVE count' \in [Counters -> Nat]
    BY <2>3 DEF HepTypeInv, CollectorTyped, Counted
  <2>4. ASSUME NEW why, Dropped(why) PROVE CollectorTyped' /\ BoundsTyped'
    <3>1. count' \in [Counters -> Nat]
      BY <2>3, <2>4 DEF Dropped
    <3>2. CollectorTyped'
      BY <2>1, <2>4, <3>1 DEF HepTypeInv, CollectorTyped, Dropped
    <3>3. arrived' \in 0..MaxDatagrams /\ arrived' >= arrived
      BY <2>1, HepBoundsAssumption DEF HepTypeInv, BoundsTyped
    <3>4. UNCHANGED seq /\ ops \in 0..MaxOps /\ hepTroubles \in 0..MaxHepTroubles
          /\ hepTroubles >= hepTroubles
      BY <2>4, HepBoundsAssumption DEF Dropped, HepTypeInv, BoundsTyped
    <3>5. BoundsTyped'
      BY <2>1, <3>3, <3>4, BoundsKept
    <3> QED BY <3>2, <3>5
  <2>5. ASSUME NEW tag, Queued(tag) PROVE CollectorTyped' /\ BoundsTyped'
    <3>1. count' \in [Counters -> Nat]
      BY <2>3, <2>5 DEF Queued
    <3>2. Added(tag) \in Docs
      BY <2>1, <2>5, NewDocument DEF Queued, Added
    <3>3. seq' \in Nat /\ queue' \subseteq Docs /\ (\A b \in flights' : b \subseteq Docs)
          /\ flushing' \in BOOLEAN
      <4>1. queue \subseteq Docs /\ (\A b \in flights : b \subseteq Docs) /\ seq \in Nat
            /\ flushing \in BOOLEAN
        BY DEF HepTypeInv, CollectorTyped
      <4>2. queue \cup {Added(tag)} \subseteq Docs
        BY <3>2, <4>1
      <4>3. seq' = seq + 1
        BY <2>5 DEF Queued
      <4>4. \/ queue' = queue \cup {Added(tag)} /\ UNCHANGED <<flights, flushing>>
            \/ /\ ~ flushing /\ flushing' = TRUE
               /\ queue' = {} /\ flights' = flights \cup {queue \cup {Added(tag)}}
        BY <2>5 DEF Queued
      <4>5. seq' \in Nat
        BY <4>1, <4>3
      <4>6. flushing' \in BOOLEAN
        BY <4>1, <4>4, Zenon
      <4>7. queue' \subseteq Docs /\ (\A b \in flights' : b \subseteq Docs)
        BY <4>1, <4>2, <4>4
      <4> QED BY <4>5, <4>6, <4>7
    <3>6. CollectorTyped'
      BY <2>1, <3>1, <3>3 DEF HepTypeInv, CollectorTyped
    <3>4. arrived' \in 0..MaxDatagrams /\ seq' <= arrived'
      BY <2>1, <2>5, HepBoundsAssumption DEF HepTypeInv, CollectorTyped, BoundsTyped, Queued
    <3>5. BoundsTyped'
      BY <2>1, <3>4 DEF HepTypeInv, BoundsTyped
    <3> QED BY <3>5, <3>6
  <2> QED BY <2>1, <2>2, <2>4, <2>5
<1>2. CASE Tick
  <2>1. UNCHANGED <<mode, life, keep, filter, seq, count, stored, row, at, sess, seen, lost,
                    overlap, arrived, ops, hepTroubles>>
    BY <1>2 DEF Tick, handlers, history, bounds
  <2>2. queue' \subseteq Docs /\ (\A b \in flights' : b \subseteq Docs)
    BY <1>2 DEF Tick, Flush, HepTypeInv, CollectorTyped
  <2>5. flushing' \in BOOLEAN
    BY <1>2, Zenon DEF Tick, Flush, HepTypeInv, CollectorTyped
  <2>3. CollectorTyped'
    <3>1. CollectorTyped
      BY DEF HepTypeInv
    <3> QED BY <2>1, <2>2, <2>5, <3>1 DEF CollectorTyped
  <2>4. BoundsTyped'
    BY <2>1 DEF HepTypeInv, BoundsTyped
  <2> QED BY <2>1, <2>3, <2>4, RestTyped
<1>3. ASSUME NEW b \in flights, InsertEnds(b) \/ InsertFails(b)
      PROVE  CollectorTyped' /\ RowsTyped' /\ HandlersTyped' /\ BoundsTyped'
  <2>1. /\ UNCHANGED <<mode, life, keep, filter, seq, queue, row, at, sess, seen, overlap,
                       arrived, ops>>
        /\ flights' = flights \ {b} /\ flushing' = FALSE
        /\ stored' \subseteq stored \cup b /\ lost' \subseteq lost \cup b
    BY <1>3 DEF InsertEnds, InsertFails, handlers, history, bounds
  <2>2. b \subseteq Docs /\ Cardinality(b) \in Nat
    BY FS_CardinalityType DEF HepTypeInv, CollectorTyped, AllFinite
  <2>3. count' \in [Counters -> Nat]
    BY <1>3, <2>2 DEF InsertEnds, InsertFails, HepTypeInv, CollectorTyped, Counters
  <2>4. hepTroubles' \in 0..MaxHepTroubles /\ hepTroubles' >= hepTroubles
    <3>1. CASE InsertEnds(b)
      BY <3>1 DEF InsertEnds, bounds, HepTypeInv, BoundsTyped
    <3>2. CASE InsertFails(b)
      BY <3>2, FailureCounts DEF InsertFails
    <3> QED BY <1>3, <3>1, <3>2
  <2>5. CollectorTyped'
    BY <2>1, <2>2, <2>3 DEF HepTypeInv, CollectorTyped
  <2>6. BoundsTyped'
    BY <2>1, <2>4, BoundsKept DEF HepTypeInv, BoundsTyped
  <2> QED BY <2>1, <2>5, <2>6, RestTyped
<1>4. CASE SetKeepalives
  <2>1. /\ UNCHANGED <<mode, life, filter, seq, queue, flights, flushing, count, stored, row,
                       at, sess, seen, lost, overlap, arrived, hepTroubles>>
        /\ keep' = ~ keep /\ ops < MaxOps /\ ops' = ops + 1
    BY <1>4 DEF SetKeepalives, collector, handlers, history
  <2>2. keep' \in BOOLEAN
    BY <2>1, Zenon
  <2>3. CollectorTyped'
    BY <2>1, <2>2 DEF HepTypeInv, CollectorTyped
  <2>4. ops' \in 0..MaxOps
    BY <2>1, HepBoundsAssumption DEF HepTypeInv, BoundsTyped
  <2>5. BoundsTyped'
    BY <2>1, <2>4 DEF HepTypeInv, BoundsTyped
  <2> QED BY <2>1, <2>3, <2>5, RestTyped
<1> QED BY <1>1, <1>2, <1>3, <1>4 DEF Inserted

SeenTyped == [filtered : Nat, matched : Nat, docs : SUBSET Docs, error : BOOLEAN]

\* A handler that goes on, with or without a session, stays a handler.
LEMMA HandlerGoesOn ==
    ASSUME HepTypeInv, NEW p \in Procs, NEW label, NEW s \in Sessions \cup {NoSession},
           label \in IF p \in Starters THEN StarterLabels ELSE FinisherLabels,
           s = NoSession <=> label \in {"idle", "find"},
           at' = [at EXCEPT ![p] = label], sess' = [sess EXCEPT ![p] = s],
           seen' \in [Procs -> SeenTyped]
    PROVE  HandlersTyped'
<1>1. at' \in [Procs -> StarterLabels \cup FinisherLabels]
  BY DEF HepTypeInv, HandlersTyped
<1>2. sess' \in [Procs -> Sessions \cup {NoSession}]
  BY DEF HepTypeInv, HandlersTyped
<1>3. \A q \in Procs : at'[q] \in IF q \in Starters THEN StarterLabels ELSE FinisherLabels
  BY DEF HepTypeInv, HandlersTyped
<1>4. \A q \in Procs : sess'[q] = NoSession <=> at'[q] \in {"idle", "find"}
  BY DEF HepTypeInv, HandlersTyped
<1> QED BY <1>1, <1>2, <1>3, <1>4 DEF HandlersTyped, SeenTyped

LEMMA HandlerAnswers ==
    ASSUME HepTypeInv, NEW p \in Procs, Answer(p)
    PROVE  HandlersTyped'
<1>1. seen' \in [Procs -> SeenTyped]
  BY DEF Answer, NoneSeen, HepTypeInv, HandlersTyped, SeenTyped
<1>2. "idle" \in IF p \in Starters THEN StarterLabels ELSE FinisherLabels
  BY DEF StarterLabels, FinisherLabels
<1> QED BY <1>1, <1>2, HandlerGoesOn DEF Answer, Goto

LEMMA SessionKept ==
    ASSUME HepTypeInv, NEW p \in Procs
    PROVE  /\ [sess EXCEPT ![p] = sess[p]] = sess
           /\ sess[p] \in Sessions \cup {NoSession}
           /\ seen \in [Procs -> SeenTyped]
           /\ at[p] \notin {"idle", "find"} => sess[p] \in Sessions
BY DEF HepTypeInv, HandlersTyped, SeenTyped

\* What the collector keeps when a handler changes its filter at most.
LEMMA CollectorKept ==
    ASSUME HepTypeInv, filter' \in Sessions \cup {NoSession}, overlap' \in BOOLEAN,
           UNCHANGED <<mode, life, keep, seq, queue, flights, flushing, count, stored, lost>>
    PROVE  CollectorTyped'
BY DEF HepTypeInv, CollectorTyped

\* The steps of start() keep types.
LEMMA StartTypeStep ==
    ASSUME HepTypeInv, NEW p \in Starters,
           Claim(p) \/ SetScope(p) \/ Launch(p) \/ Fail(p)
    PROVE  CollectorTyped' /\ RowsTyped' /\ HandlersTyped' /\ BoundsTyped'
<1>p. p \in Procs
  BY DEF Procs
<1>f. filter \in Sessions \cup {NoSession} /\ overlap \in BOOLEAN
  BY DEF HepTypeInv, CollectorTyped
<1>1. CASE Claim(p)
  <2> DEFINE s == Least(Unused)
  <2>1. s \in Sessions
    BY <1>1, LeastIn DEF Claim, Unused
  <2>2. UNCHANGED <<mode, life, keep, filter, seq, queue, flights, flushing, count, stored,
                    seen, lost, overlap, arrived, hepTroubles>>
    BY <1>1 DEF Claim, collector, history
  <2>3. CollectorTyped'
    BY <1>f, <2>2, CollectorKept
  <2>4. RowsTyped'
    BY <1>1, <2>1 DEF Claim, HepTypeInv, RowsTyped, Statuses
  <2>5. HandlersTyped'
    <3>1. "scope" \in IF p \in Starters THEN StarterLabels ELSE FinisherLabels
      BY DEF StarterLabels
    <3>2. at' = [at EXCEPT ![p] = "scope"] /\ sess' = [sess EXCEPT ![p] = s]
      BY <1>1 DEF Claim, Goto
    <3>3. s # NoSession
      BY <2>1, HepParts
    <3> QED BY <1>p, <2>1, <2>2, <3>1, <3>2, <3>3, SessionKept, HandlerGoesOn
  <2>6. ops' \in 0..MaxOps
    BY <1>1, HepBoundsAssumption DEF Claim, HepTypeInv, BoundsTyped
  <2>7. BoundsTyped'
    BY <2>2, <2>6 DEF HepTypeInv, BoundsTyped
  <2> QED BY <2>3, <2>4, <2>5, <2>7
<1>2. CASE SetScope(p)
  <2>1. UNCHANGED <<mode, life, keep, seq, queue, flights, flushing, count, stored, row, sess,
                    seen, lost, overlap, arrived, ops, hepTroubles>>
    BY <1>2 DEF SetScope, history, bounds
  <2>2. filter' \in Sessions \cup {NoSession} /\ sess[p] # NoSession
    BY <1>2, <1>p DEF SetScope, HepTypeInv, HandlersTyped
  <2>3. CollectorTyped'
    BY <1>f, <2>1, <2>2, CollectorKept
  <2>4. HandlersTyped'
    <3>1. "launch" \in IF p \in Starters THEN StarterLabels ELSE FinisherLabels
      BY DEF StarterLabels
    <3>2. at' = [at EXCEPT ![p] = "launch"]
      BY <1>2 DEF SetScope, Goto
    <3> QED BY <1>p, <2>1, <2>2, <3>1, <3>2, SessionKept, HandlerGoesOn
  <2>5. RowsTyped' /\ BoundsTyped'
    BY <2>1 DEF HepTypeInv, RowsTyped, BoundsTyped
  <2> QED BY <2>3, <2>4, <2>5
<1>3. CASE Launch(p)
  <2>1. UNCHANGED <<mode, life, keep, seq, queue, flights, flushing, count, stored, row, lost,
                    overlap, arrived, ops>>
    BY <1>3 DEF Launch, history
  <2>2. filter' \in Sessions \cup {NoSession}
    BY <1>3, <1>f DEF Launch
  <2>3. CollectorTyped'
    BY <1>f, <2>1, <2>2, CollectorKept
  <2>4. hepTroubles' \in 0..MaxHepTroubles /\ hepTroubles' >= hepTroubles
    BY <1>3, FailureCounts, HepBoundsAssumption DEF Launch, HepTypeInv, BoundsTyped
  <2>5. CASE Answer(p)
    BY <1>p, <2>1, <2>3, <2>4, <2>5, HandlerAnswers, BoundsKept DEF HepTypeInv, RowsTyped, BoundsTyped
  <2>6. CASE Goto(p, "fail") /\ UNCHANGED <<sess, seen>>
    <3>1. "fail" \in IF p \in Starters THEN StarterLabels ELSE FinisherLabels
      BY DEF StarterLabels
    <3>2. sess[p] # NoSession
      BY <1>3, <1>p DEF Launch, HepTypeInv, HandlersTyped
    <3>3. HandlersTyped'
      BY <1>p, <2>6, <3>1, <3>2, SessionKept, HandlerGoesOn DEF Goto
    <3>4. BoundsTyped'
      BY <2>1, <2>4, BoundsKept DEF HepTypeInv, BoundsTyped
    <3> QED BY <2>1, <2>3, <3>3, <3>4 DEF HepTypeInv, RowsTyped
  <2> QED BY <1>3, <2>5, <2>6 DEF Launch
<1>4. CASE Fail(p)
  <2>1. UNCHANGED <<mode, life, keep, filter, seq, queue, flights, flushing, count, stored,
                    lost, overlap, arrived, ops>>
    BY <1>4 DEF Fail, collector, history
  <2>2. CollectorTyped'
    BY <1>f, <2>1, CollectorKept
  <2>3. HandlersTyped'
    BY <1>4, <1>p, HandlerAnswers DEF Fail
  <2>4. sess[p] \in Sessions
    BY <1>4, <1>p, SessionKept DEF Fail
  <2>5. RowsTyped'
    BY <1>4, <2>4 DEF Fail, HepTypeInv, RowsTyped, Statuses
  <2>6. hepTroubles' \in 0..MaxHepTroubles /\ hepTroubles' >= hepTroubles
    BY <1>4, FailureCounts, HepBoundsAssumption DEF Fail, HepTypeInv, BoundsTyped
  <2>7. BoundsTyped'
    BY <2>1, <2>6, BoundsKept DEF HepTypeInv, BoundsTyped
  <2> QED BY <2>2, <2>3, <2>5, <2>7
<1> QED BY <1>1, <1>2, <1>3, <1>4

\* Documents of a session are finitely many, and in the database.
LEMMA OfSession ==
    ASSUME HepTypeInv, NEW s
    PROVE  /\ Of(s) \subseteq stored /\ Of(s) \subseteq Docs
           /\ IsFiniteSet(Of(s)) /\ Cardinality(Of(s)) \in Nat
<1>1. Of(s) \subseteq stored
  BY DEF Of
<1>2. stored \subseteq Docs /\ IsFiniteSet(stored)
  BY DEF HepTypeInv, CollectorTyped, AllFinite
<1> QED BY <1>1, <1>2, FS_Subset, FS_CardinalityType

LEMMA FirstOfIn ==
    ASSUME NEW docs, NEW n
    PROVE  FirstOf(docs, n) \subseteq docs
BY DEF FirstOf

\* The steps of stop() and reconcile() keep types.
LEMMA FinishTypeStep ==
    ASSUME HepTypeInv, NEW p \in Finishers,
           \/ AskStop(p) \/ Find(p) \/ ClearScope(p) \/ CountMessages(p)
           \/ ReadMessages(p) \/ WriteSnapshot(p) \/ Close(p)
    PROVE  CollectorTyped' /\ RowsTyped' /\ HandlersTyped' /\ BoundsTyped'
<1>p. p \in Procs /\ p \notin Starters
  BY HepParts
<1>f. /\ filter \in Sessions \cup {NoSession} /\ overlap \in BOOLEAN
      /\ FinisherLabels = IF p \in Starters THEN StarterLabels ELSE FinisherLabels
  BY <1>p DEF HepTypeInv, CollectorTyped
<1>b. /\ arrived \in 0..MaxDatagrams /\ arrived >= arrived /\ ops \in 0..MaxOps
      /\ hepTroubles \in 0..MaxHepTroubles /\ hepTroubles >= hepTroubles
  BY HepBoundsAssumption DEF HepTypeInv, BoundsTyped
<1>s. seen[p] \in SeenTyped /\ seen \in [Procs -> SeenTyped]
  BY <1>p DEF HepTypeInv, HandlersTyped, SeenTyped
<1>1. CASE AskStop(p)
  <2>1. UNCHANGED <<mode, life, keep, filter, seq, queue, flights, flushing, count, stored,
                    row, sess, seen, lost, overlap, arrived, hepTroubles>>
    BY <1>1 DEF AskStop, collector, history
  <2>2. CollectorTyped' /\ RowsTyped'
    BY <1>f, <2>1, CollectorKept DEF HepTypeInv, RowsTyped
  <2>3. HandlersTyped'
    <3>1. sess[p] = NoSession /\ "find" \in FinisherLabels
      BY <1>1, <1>p DEF AskStop, HepTypeInv, HandlersTyped, FinisherLabels
    <3>2. sess' = [sess EXCEPT ![p] = NoSession] /\ at' = [at EXCEPT ![p] = "find"]
      BY <1>1, <1>p, <2>1, <3>1, SessionKept DEF AskStop, Goto
    <3>3. seen' \in [Procs -> SeenTyped]
      BY <1>s, <2>1
    <3> QED BY <1>p, <1>f, <3>1, <3>2, <3>3, HandlerGoesOn
  <2>4. ops' \in 0..MaxOps
    BY <1>1, HepBoundsAssumption DEF AskStop, HepTypeInv, BoundsTyped
  <2>5. BoundsTyped'
    BY <1>b, <2>1, <2>4, BoundsKept
  <2> QED BY <2>2, <2>3, <2>5
<1>2. CASE Find(p)
  <2>1. UNCHANGED <<mode, life, keep, filter, seq, queue, flights, flushing, count, stored,
                    row, lost, arrived, ops>>
    BY <1>2 DEF Find, collector
  <2>2. overlap' \in BOOLEAN
    <3>1. CASE UNCHANGED overlap
      BY <1>f, <3>1, Zenon
    <3>2. CASE overlap' = (overlap \/ \E q \in Procs : sess[q] \in Running)
      BY <3>2, Zenon
    <3> QED BY <1>2, <3>1, <3>2, Zenon DEF Find
  <2>3. CollectorTyped' /\ RowsTyped'
    BY <1>f, <2>1, <2>2, CollectorKept DEF HepTypeInv, RowsTyped
  <2>4. BoundsTyped'
    <3>1. hepTroubles' \in 0..MaxHepTroubles /\ hepTroubles' >= hepTroubles
      BY <1>2, <1>b, FailureCounts DEF Find
    <3> QED BY <1>b, <2>1, <3>1, BoundsKept
  <2>5. CASE Answer(p)
    BY <1>p, <2>3, <2>4, <2>5, HandlerAnswers
  <2>6. CASE /\ Running # {} /\ sess' = [sess EXCEPT ![p] = Least(Running)]
             /\ Goto(p, "clear") /\ UNCHANGED seen
    <3>1. Least(Running) \in Sessions /\ Least(Running) # NoSession
      BY <2>6, LeastIn, HepParts DEF Running
    <3>2. "clear" \in FinisherLabels
      BY DEF FinisherLabels
    <3> QED BY <1>p, <1>f, <1>s, <2>3, <2>4, <2>6, <3>1, <3>2, HandlerGoesOn DEF Goto
  <2> QED BY <1>2, <2>5, <2>6 DEF Find
<1>3. CASE ClearScope(p)
  <2>1. UNCHANGED <<mode, life, keep, seq, queue, flights, flushing, count, stored, row, sess,
                    lost, overlap, arrived, ops, hepTroubles>>
    BY <1>3 DEF ClearScope, LeaveScope, history, bounds
  <2>2. filter' \in Sessions \cup {NoSession}
    BY <1>3, <1>f DEF ClearScope, LeaveScope
  <2>3. CollectorTyped' /\ RowsTyped' /\ BoundsTyped'
    BY <1>f, <1>b, <2>1, <2>2, CollectorKept, BoundsKept DEF HepTypeInv, RowsTyped
  <2>4. count["scoped"] \in Nat
    BY DEF HepTypeInv, CollectorTyped, Counters
  <2>5. seen' \in [Procs -> SeenTyped]
    BY <1>3, <1>s, <2>4 DEF ClearScope, LeaveScope, SeenTyped
  <2>6. sess[p] # NoSession /\ "count" \in FinisherLabels
    BY <1>3, <1>p DEF ClearScope, LeaveScope, HepTypeInv, HandlersTyped, FinisherLabels
  <2>7. at' = [at EXCEPT ![p] = "count"]
    BY <1>3 DEF ClearScope, LeaveScope, Goto
  <2> QED BY <1>p, <1>f, <2>1, <2>3, <2>5, <2>6, <2>7, SessionKept, HandlerGoesOn
<1>4. CASE CountMessages(p)
  <2>1. UNCHANGED <<mode, life, keep, filter, seq, queue, flights, flushing, count, stored,
                    row, sess, lost, overlap, arrived, ops>>
    BY <1>4 DEF CountMessages, collector, history
  <2>2. hepTroubles' \in 0..MaxHepTroubles /\ hepTroubles' >= hepTroubles
    BY <1>4, <1>b, FailureCounts DEF CountMessages
  <2>3. CollectorTyped' /\ RowsTyped' /\ BoundsTyped'
    BY <1>f, <1>b, <2>1, <2>2, CollectorKept, BoundsKept DEF HepTypeInv, RowsTyped
  <2>4. seen' \in [Procs -> SeenTyped]
    BY <1>4, <1>s, OfSession DEF CountMessages, SeenTyped
  <2>5. sess[p] # NoSession /\ "read" \in FinisherLabels
    BY <1>4, <1>p DEF CountMessages, HepTypeInv, HandlersTyped, FinisherLabels
  <2>6. at' = [at EXCEPT ![p] = "read"]
    BY <1>4 DEF CountMessages, Goto
  <2> QED BY <1>p, <1>f, <2>1, <2>3, <2>4, <2>5, <2>6, SessionKept, HandlerGoesOn
<1>5. CASE ReadMessages(p)
  <2>1. UNCHANGED <<mode, life, keep, filter, seq, queue, flights, flushing, count, stored,
                    row, sess, lost, overlap, arrived, ops>>
    BY <1>5 DEF ReadMessages, ReadUpTo, collector, history
  <2>2. hepTroubles' \in 0..MaxHepTroubles /\ hepTroubles' >= hepTroubles
    BY <1>5, <1>b, FailureCounts DEF ReadMessages, ReadUpTo
  <2>3. CollectorTyped' /\ RowsTyped' /\ BoundsTyped'
    BY <1>f, <1>b, <2>1, <2>2, CollectorKept, BoundsKept DEF HepTypeInv, RowsTyped
  <2>4. seen' \in [Procs -> SeenTyped]
    <3>1. FirstOf(Of(sess[p]), SnapshotLimit + 1) \subseteq Docs
      BY FirstOfIn, OfSession
    <3>2. \/ seen' = [seen EXCEPT ![p].docs = FirstOf(Of(sess[p]), SnapshotLimit + 1)]
          \/ seen' = [seen EXCEPT ![p].error = TRUE]
      BY <1>5 DEF ReadMessages, ReadUpTo
    <3> QED BY <1>s, <3>1, <3>2 DEF SeenTyped
  <2>5. sess[p] # NoSession /\ {"write", "close"} \subseteq FinisherLabels
    BY <1>5, <1>p DEF ReadMessages, ReadUpTo, HepTypeInv, HandlersTyped, FinisherLabels
  <2>6. PICK label \in {"write", "close"} : at' = [at EXCEPT ![p] = label]
    BY <1>5 DEF ReadMessages, ReadUpTo, Goto
  <2>7. label \in FinisherLabels /\ label \notin {"idle", "find"}
    BY <2>5
  <2> QED BY <1>p, <1>f, <2>1, <2>3, <2>4, <2>5, <2>6, <2>7, SessionKept, HandlerGoesOn
<1>6. CASE WriteSnapshot(p)
  <2>1. UNCHANGED <<mode, life, keep, filter, seq, queue, flights, flushing, count, stored,
                    sess, lost, overlap, arrived, ops>>
    BY <1>6 DEF WriteSnapshot, collector, history
  <2>2. hepTroubles' \in 0..MaxHepTroubles /\ hepTroubles' >= hepTroubles
    BY <1>6, <1>b, FailureCounts DEF WriteSnapshot
  <2>3. CollectorTyped' /\ BoundsTyped'
    BY <1>f, <1>b, <2>1, <2>2, CollectorKept, BoundsKept
  <2>4. seen' \in [Procs -> SeenTyped]
    <3>1. UNCHANGED seen \/ seen' = [seen EXCEPT ![p].error = TRUE]
      BY <1>6 DEF WriteSnapshot
    <3> QED BY <1>s, <3>1 DEF SeenTyped
  <2>5. sess[p] \in Sessions /\ "close" \in FinisherLabels
    BY <1>6, <1>p, SessionKept DEF WriteSnapshot, FinisherLabels
  <2>6. RowsTyped'
    <3>1. FirstOf(seen[p].docs, SnapshotLimit) \subseteq Docs
      BY <1>s, FirstOfIn DEF SeenTyped
    <3>2. (Cardinality(seen[p].docs) > SnapshotLimit) \in BOOLEAN
      OBVIOUS
    <3>3. \/ UNCHANGED row
          \/ \E docs \in SUBSET Docs, cut \in BOOLEAN :
                row' = [row EXCEPT ![sess[p]].snapshot = docs, ![sess[p]].truncated = cut,
                                   ![sess[p]].taken = TRUE]
      BY <1>6, <3>1, <3>2 DEF WriteSnapshot
    <3>4. row \in [Sessions -> [status : Statuses, matched : Nat, filtered : Nat,
                                snapshot : SUBSET Docs, taken : BOOLEAN,
                                truncated : BOOLEAN, error : BOOLEAN]]
      BY DEF HepTypeInv, RowsTyped
    <3>5. CASE UNCHANGED row
      BY <3>4, <3>5 DEF RowsTyped
    <3>6. ASSUME NEW docs \in SUBSET Docs, NEW cut \in BOOLEAN,
                 row' = [row EXCEPT ![sess[p]].snapshot = docs, ![sess[p]].truncated = cut,
                                    ![sess[p]].taken = TRUE]
          PROVE  RowsTyped'
      <4>1. row' = [row EXCEPT ![sess[p]] =
                       [row[sess[p]] EXCEPT !.snapshot = docs, !.truncated = cut,
                                            !.taken = TRUE]]
        BY <2>5, <3>4, <3>6
      <4> QED BY <2>5, <3>4, <4>1 DEF RowsTyped
    <3> QED BY <3>3, <3>5, <3>6
  <2>7. at' = [at EXCEPT ![p] = "close"]
    BY <1>6 DEF WriteSnapshot, Goto
  <2>8. sess[p] # NoSession
    BY <2>5, HepParts
  <2> QED BY <1>p, <1>f, <2>1, <2>3, <2>4, <2>5, <2>6, <2>7, <2>8, SessionKept, HandlerGoesOn
<1>7. CASE Close(p)
  <2>1. UNCHANGED <<mode, life, keep, filter, seq, queue, flights, flushing, count, stored,
                    lost, overlap, arrived, ops>>
    BY <1>7 DEF Close, collector, history
  <2>2. hepTroubles' \in 0..MaxHepTroubles /\ hepTroubles' >= hepTroubles
    BY <1>7, <1>b, FailureCounts DEF Close
  <2>3. CollectorTyped' /\ BoundsTyped'
    BY <1>f, <1>b, <2>1, <2>2, CollectorKept, BoundsKept
  <2>4. HandlersTyped'
    BY <1>7, <1>p, HandlerAnswers DEF Close
  <2>5. sess[p] \in Sessions
    BY <1>7, <1>p, SessionKept DEF Close
  <2>6. RowsTyped'
    <3>1. CASE UNCHANGED row
      BY <3>1 DEF HepTypeInv, RowsTyped
    <3>2. CASE ~ UNCHANGED row
      <4>1. PICK status \in Statuses, error \in BOOLEAN :
                row' = [row EXCEPT ![sess[p]].status = status,
                                   ![sess[p]].matched = seen[p].matched,
                                   ![sess[p]].filtered = seen[p].filtered,
                                   ![sess[p]].error = error]
        <5>1. (row[sess[p]].error \/ seen[p].error) \in BOOLEAN
          OBVIOUS
        <5> QED BY <1>7, <3>2, <5>1 DEF Close, Statuses
      <4>2. seen[p].matched \in Nat /\ seen[p].filtered \in Nat
        BY <1>s DEF SeenTyped
      <4> QED BY <2>5, <4>1, <4>2 DEF HepTypeInv, RowsTyped
    <3> QED BY <3>1, <3>2
  <2> QED BY <2>3, <2>4, <2>6
<1> QED BY <1>1, <1>2, <1>3, <1>4, <1>5, <1>6, <1>7

\* The end of the process keeps types: every life costs a trouble.
LEMMA EndTypeStep ==
    ASSUME HepTypeInv, Sigterm \/ Disconnect \/ Exit \/ Crash
    PROVE  CollectorTyped' /\ RowsTyped' /\ HandlersTyped' /\ BoundsTyped'
<1>b. /\ life + (IF mode = "up" THEN 0 ELSE 1) <= hepTroubles
      /\ life \in Nat /\ hepTroubles \in Nat /\ MaxHepTroubles \in Nat
      /\ hepTroubles <= MaxHepTroubles
  BY HepBoundsAssumption DEF HepTypeInv, CollectorTyped, BoundsTyped
<1>1. CASE Sigterm \/ Disconnect
  <2>1. UNCHANGED <<life, keep, filter, seq, queue, flights, flushing, count, stored, row, at,
                    sess, seen, lost, overlap, arrived, ops>>
    BY <1>1 DEF Sigterm, Disconnect, collector, handlers, history, bounds
  <2>2. mode' \in {"closing", "closed"}
    BY <1>1 DEF Sigterm, Disconnect
  <2>3. CollectorTyped'
    BY <2>1, <2>2 DEF HepTypeInv, CollectorTyped
  <2>4. hepTroubles' \in 0..MaxHepTroubles /\ life + 1 <= hepTroubles'
    <3>1. CASE Sigterm
      BY <1>b, <3>1 DEF Sigterm, HepTrouble
    <3>2. CASE Disconnect
      <4>1. mode # "up" /\ hepTroubles' = hepTroubles
        BY <3>2 DEF Disconnect, bounds
      <4> QED BY <1>b, <4>1
    <3> QED BY <1>1, <3>1, <3>2
  <2>5. BoundsTyped'
    BY <2>1, <2>2, <2>4 DEF HepTypeInv, BoundsTyped
  <2> QED BY <2>1, <2>3, <2>5, RestTyped
<1>2. CASE Exit \/ Crash
  <2>1. Renew
    BY <1>2 DEF Exit, Crash
  <2>2. UNCHANGED <<keep, row, overlap, arrived, ops>>
    BY <2>1 DEF Renew
  <2>3. Flying \subseteq Docs
    BY DEF HepTypeInv, CollectorTyped, Flying
  <2>4. queue \subseteq Docs /\ stored \subseteq Docs /\ lost \subseteq Docs
    BY DEF HepTypeInv, CollectorTyped
  <2>5. stored' \subseteq Docs /\ lost' \subseteq Docs
    BY <2>1, <2>3, <2>4 DEF Renew, Flying
  <2>6. CollectorTyped'
    <3>1. /\ mode' = "up" /\ life' = life + 1 /\ filter' = NoSession /\ seq' = 0
          /\ queue' = {} /\ flights' = {} /\ flushing' = FALSE /\ count' = NoCount
      BY <2>1 DEF Renew
    <3>2. count' \in [Counters -> Nat]
      BY <3>1 DEF NoCount
    <3>3. keep' \in BOOLEAN /\ overlap' \in BOOLEAN /\ flushing' \in BOOLEAN
      BY <2>2, <3>1, Zenon DEF HepTypeInv, CollectorTyped
    <3>4. life' \in Nat
      BY <1>b, <3>1
    <3> QED BY <2>5, <3>1, <3>2, <3>3, <3>4 DEF CollectorTyped
  <2>7. RowsTyped'
    BY <2>2 DEF HepTypeInv, RowsTyped
  <2>8. HandlersTyped'
    <3>1. /\ at' = [p \in Procs |-> IF p = Boot THEN "find" ELSE "idle"]
          /\ sess' = [p \in Procs |-> NoSession]
          /\ seen' = [p \in Procs |-> NoneSeen]
      BY <2>1 DEF Renew
    <3>2. NoneSeen \in SeenTyped
      BY DEF NoneSeen, SeenTyped
    <3>3. at' \in [Procs -> StarterLabels \cup FinisherLabels]
      BY <3>1 DEF StarterLabels, FinisherLabels
    <3>4. /\ sess' \in [Procs -> Sessions \cup {NoSession}]
          /\ seen' \in [Procs -> [filtered : Nat, matched : Nat, docs : SUBSET Docs,
                                  error : BOOLEAN]]
      BY <3>1, <3>2 DEF SeenTyped
    <3>5. ASSUME NEW p \in Procs
          PROVE  /\ at'[p] \in IF p \in Starters THEN StarterLabels ELSE FinisherLabels
                 /\ sess'[p] = NoSession <=> at'[p] \in {"idle", "find"}
      BY <3>1, HepParts DEF StarterLabels, FinisherLabels
    <3> QED BY <3>3, <3>4, <3>5 DEF HandlersTyped
  <2>9. BoundsTyped'
    <3>1. hepTroubles' \in 0..MaxHepTroubles /\ life + 1 <= hepTroubles'
      <4>1. CASE Exit
        BY <1>b, <4>1 DEF Exit
      <4>2. CASE Crash
        BY <1>b, <4>2 DEF Crash, HepTrouble
      <4> QED BY <1>2, <4>1, <4>2
    <3>2. mode' = "up" /\ life' = life + 1 /\ seq' = 0
      BY <2>1 DEF Renew
    <3> QED BY <1>b, <2>2, <3>1, <3>2, HepBoundsAssumption DEF HepTypeInv, BoundsTyped
  <2> QED BY <2>6, <2>7, <2>8, <2>9
<1> QED BY <1>1, <1>2

LEMMA HepTypeStep == HepTypeInv /\ QueueProper /\ [HepNext]_hepVars => HepTypeInv'
<1> SUFFICES ASSUME HepTypeInv, QueueProper, [HepNext]_hepVars PROVE HepTypeInv'
  OBVIOUS
<1>1. AllFinite'
  BY FiniteStep DEF HepTypeInv
<1>2. CASE \/ \E m \in Datagrams : Datagram(m)
           \/ Tick \/ (\E b \in flights : Inserted(b)) \/ SetKeepalives
  BY <1>1, <1>2, CollectorTypeStep DEF HepTypeInv
<1>3. ASSUME NEW p \in Starters, Claim(p) \/ SetScope(p) \/ Launch(p) \/ Fail(p)
      PROVE  HepTypeInv'
  BY <1>1, <1>3, StartTypeStep DEF HepTypeInv
<1>4. ASSUME NEW p \in Finishers,
             \/ AskStop(p) \/ Find(p) \/ ClearScope(p) \/ CountMessages(p)
             \/ ReadMessages(p) \/ WriteSnapshot(p) \/ Close(p)
      PROVE  HepTypeInv'
  BY <1>1, <1>4, FinishTypeStep DEF HepTypeInv
<1>5. CASE Sigterm \/ Disconnect \/ Exit \/ Crash
  BY <1>1, <1>5, EndTypeStep DEF HepTypeInv
<1>6. CASE UNCHANGED hepVars
  BY <1>1, <1>6 DEF hepVars, collector, handlers, history, bounds, HepTypeInv, CollectorTyped,
                    RowsTyped, HandlersTyped, BoundsTyped
<1> QED BY <1>2, <1>3, <1>4, <1>5, <1>6, HepParts DEF HepNext, Step

(***************************************************************************)
(* No datagram is dropped in silence.                                      *)
(***************************************************************************)

LEMMA QueueInit == HepInit => QueueProper
BY DEF HepInit, QueueProper, Flying

LEMMA QueueStep == HepTypeInv /\ QueueProper /\ [HepNext]_hepVars => QueueProper'
<1> SUFFICES ASSUME HepTypeInv, QueueProper, [HepNext]_hepVars PROVE QueueProper'
  OBVIOUS
<1>t. /\ life \in Nat /\ seq \in Nat
      /\ \A d \in queue \cup Flying \cup lost : d.life \in Nat /\ d.seq \in Nat
  BY DEF HepTypeInv, CollectorTyped, Flying, Docs
<1>1. ASSUME NEW m \in Datagrams, Datagram(m) PROVE QueueProper'
  <2>1. /\ UNCHANGED <<life, stored, lost>>
        /\ (\E why : Dropped(why)) \/ (\E tag : Queued(tag))
    BY <1>1, DatagramEffect
  <2>2. ASSUME NEW why, Dropped(why) PROVE QueueProper'
    BY <2>1, <2>2 DEF Dropped, QueueProper, Flying
  <2>3. ASSUME NEW tag, Queued(tag) PROVE QueueProper'
    <3> DEFINE doc == Added(tag)
    <3>1. doc.life = life /\ doc.seq = seq /\ seq' = seq + 1
      BY <2>3 DEF Added, Queued
    <3>2. doc \notin queue \cup Flying \cup lost
      BY <1>t, <3>1 DEF QueueProper
    <3>3. CASE queue' = queue \cup {doc} /\ UNCHANGED <<flights, flushing>>
      <4>1. Flying' = Flying
        BY <3>3 DEF Flying
      <4>2. \A b \in flights : b \subseteq Flying
        BY DEF Flying
      <4> QED BY <1>t, <2>1, <3>1, <3>2, <3>3, <4>1, <4>2 DEF QueueProper
    <3>4. CASE /\ ~ flushing /\ flushing' = TRUE
               /\ queue' = {} /\ flights' = flights \cup {queue \cup {doc}}
      <4>1. flights = {}
        BY <3>4 DEF QueueProper
      <4>2. flights' = {queue \cup {doc}}
        BY <3>4, <4>1
      <4>3. Flying' = queue \cup {doc}
        BY <4>2 DEF Flying
      <4>4. queue' = {} /\ seq' = seq + 1 /\ life' = life /\ lost' = lost
        BY <2>1, <3>1, <3>4
      <4>5. \A d \in queue' \cup Flying' : d.life = life'
        BY <3>1, <4>3, <4>4 DEF QueueProper
      <4>6. \A d \in queue' \cup Flying' \cup lost' :
               d.life <= life' /\ (d.life = life' => d.seq < seq')
        BY <1>t, <3>1, <4>3, <4>4 DEF QueueProper
      <4>7. \A b \in flights' : flights' = {b} /\ b \cap queue' = {} /\ b \cap lost' = {}
        <5>1. queue \cap lost = {} /\ doc \notin lost
          BY <3>2 DEF QueueProper
        <5>2. (queue \cup {doc}) \cap lost = {}
          BY <5>1
        <5> QED BY <4>2, <4>4, <5>2
      <4> QED BY <3>4, <4>2, <4>4, <4>5, <4>6, <4>7 DEF QueueProper
    <3> QED BY <2>3, <3>3, <3>4 DEF Queued
  <2> QED BY <2>1, <2>2, <2>3
<1>2. CASE Tick
  <2>1. flights = {} /\ flights' = {queue} /\ queue' = {} /\ flushing' = TRUE
        /\ UNCHANGED <<life, seq, lost>>
    BY <1>2 DEF Tick, Flush, QueueProper, history
  <2>2. Flying' = queue
    BY <2>1 DEF Flying
  <2> QED BY <2>1, <2>2 DEF QueueProper
<1>3. ASSUME NEW b \in flights, Inserted(b) PROVE QueueProper'
  <2>1. /\ flights' = flights \ {b} /\ flushing' = FALSE /\ lost' \in {lost, lost \cup b}
        /\ UNCHANGED <<life, seq, queue>>
    BY <1>3 DEF Inserted, InsertEnds, InsertFails, history
  <2>2. flights = {b} /\ Flying = b
    BY FiniteFlights DEF QueueProper
  <2>3. flights' = {} /\ Flying' = {}
    BY <2>1, <2>2 DEF Flying
  <2> QED BY <2>1, <2>2, <2>3 DEF QueueProper
<1>4. CASE Renew
  <2>1. /\ life' = life + 1 /\ seq' = 0 /\ queue' = {} /\ flights' = {} /\ flushing' = FALSE
        /\ lost' = lost \cup queue \cup Flying
    BY <1>4 DEF Renew, Flying
  <2>2. Flying' = {}
    BY <2>1 DEF Flying
  <2> QED BY <1>t, <2>1, <2>2 DEF QueueProper
<1>5. CASE UNCHANGED <<life, seq, queue, flights, flushing, count, stored, lost>>
  BY <1>5 DEF QueueProper, Flying
<1> QED BY <1>1, <1>2, <1>3, <1>4, <1>5, QueueSteps

LEMMA WaitingFinite ==
    ASSUME HepTypeInv, QueueProper
    PROVE  IsFiniteSet(Waiting) /\ Cardinality(Waiting) \in Nat
<1>1. IsFiniteSet(Flying)
  <2>1. CASE flights = {}
    BY <2>1, FS_EmptySet DEF Flying
  <2>2. CASE flights # {}
    BY <2>2, FiniteFlights DEF QueueProper, HepTypeInv, AllFinite
  <2> QED BY <2>1, <2>2
<1>2. IsFiniteSet(queue) /\ IsFiniteSet(lost)
  BY DEF HepTypeInv, AllFinite
<1>3. IsFiniteSet({d \in lost : d.life = life})
  BY <1>2, FS_Subset
<1>4. IsFiniteSet((queue \cup Flying) \cup {d \in lost : d.life = life})
  BY <1>1, <1>2, <1>3, FS_Union
<1> QED BY <1>4, FS_CardinalityType DEF Waiting

\* The counts of what was received and where it went.
Received == count["received"]
Unwritten == count["bad"] + count["notSip"] + count["keepalive"] + count["scoped"]
                          + count["overflow"]

LEMMA CountsTyped ==
    ASSUME HepTypeInv
    PROVE  \A c \in Counters : count[c] \in Nat
BY DEF HepTypeInv, CollectorTyped

LEMMA DropCounted ==
    ASSUME HepTypeInv, NEW why, Dropped(why)
    PROVE  /\ Received' = Received + 1 /\ Unwritten' = Unwritten + 1
           /\ count'["stored"] = count["stored"]
<1>1. PICK said \in {{}, {"unparsed"}} : Counted({why} \cup said)
  BY DEF Dropped
<1>2. \A c \in Counters \ {"unparsed"} :
         count'[c] = IF c \in {why, "received"} THEN count[c] + 1 ELSE count[c]
  BY <1>1 DEF Counted
<1>3. why \in {"bad", "notSip", "keepalive", "scoped", "overflow"}
  BY DEF Dropped
<1>4. /\ count'["received"] = count["received"] + 1
      /\ count'["stored"] = count["stored"]
  BY <1>2, <1>3 DEF Counters
<1>5. Unwritten' = Unwritten + 1
  BY <1>2, <1>3, CountsTyped DEF Counters, Unwritten
<1> QED BY <1>4, <1>5 DEF Received

LEMMA QueueCounted ==
    ASSUME HepTypeInv, NEW tag, Queued(tag)
    PROVE  /\ Received' = Received + 1 /\ Unwritten' = Unwritten
           /\ count'["stored"] = count["stored"]
<1>1. PICK said \in {{}, {"unparsed"}} : Counted(said)
  BY DEF Queued
<1>2. \A c \in Counters \ {"unparsed"} :
         count'[c] = IF c = "received" THEN count[c] + 1 ELSE count[c]
  BY <1>1 DEF Counted
<1> QED BY <1>2 DEF Counters, Received, Unwritten

AccountKept ==
    /\ Received = Unwritten + seq
    /\ seq = count["stored"] + Cardinality(Waiting)

LEMMA AccountMeans ==
    ASSUME HepTypeInv
    PROVE  Accounted <=> AccountKept
BY CountsTyped DEF Accounted, AccountKept, Received, Unwritten, Waiting, Counters,
                   HepTypeInv, CollectorTyped

LEMMA AccountInit == HepInit => Accounted
<1> SUFFICES ASSUME HepInit PROVE Accounted
  OBVIOUS
<1>1. queue \cup Flying \cup {d \in lost : d.life = life} = {}
  BY DEF HepInit, Flying
<1>2. \A c \in Counters : count[c] = 0
  BY DEF HepInit, NoCount
<1> QED BY <1>1, <1>2, FS_EmptySet DEF HepInit, Accounted, Counters

LEMMA AccountStep ==
    ASSUME HepTypeInv, QueueProper, Accounted, [HepNext]_hepVars, HepTypeInv'
    PROVE  Accounted'
<1>0. AccountKept
  BY AccountMeans
<1>t. /\ seq \in Nat /\ life \in Nat /\ count["stored"] \in Nat
      /\ IsFiniteSet(Waiting) /\ Cardinality(Waiting) \in Nat
      /\ Received \in Nat /\ Unwritten \in Nat
  BY CountsTyped, WaitingFinite
     DEF HepTypeInv, CollectorTyped, Counters, Received, Unwritten
<1> SUFFICES AccountKept'
  <2>1. (HepTypeInv => (Accounted <=> AccountKept))'
    BY AccountMeans, PTL
  <2> QED BY <2>1
<1>1. ASSUME NEW m \in Datagrams, Datagram(m) PROVE AccountKept'
  <2>1. /\ UNCHANGED <<life, stored, lost>>
        /\ (\E why : Dropped(why)) \/ (\E tag : Queued(tag))
    BY <1>1, DatagramEffect
  <2>2. ASSUME NEW why, Dropped(why) PROVE AccountKept'
    <3>1. UNCHANGED <<seq, Waiting>>
      BY <2>1, <2>2 DEF Dropped, Waiting, Flying
    <3>2. /\ Received' = Received + 1 /\ Unwritten' = Unwritten + 1
          /\ count'["stored"] = count["stored"]
      BY <2>2, DropCounted
    <3> QED BY <1>0, <1>t, <3>1, <3>2 DEF AccountKept
  <2>3. ASSUME NEW tag, Queued(tag) PROVE AccountKept'
    <3>1. /\ Received' = Received + 1 /\ Unwritten' = Unwritten
          /\ count'["stored"] = count["stored"] /\ seq' = seq + 1
      BY <2>3, QueueCounted DEF Queued
    <3>2. Added(tag) \notin Waiting
      <4>1. \A d \in Waiting : d.seq \in Nat
        BY DEF Waiting, Flying, HepTypeInv, CollectorTyped, Docs
      <4>2. \A d \in Waiting : d.life = life => d.seq < seq
        BY DEF Waiting, QueueProper
      <4> QED BY <1>t, <4>1, <4>2 DEF Added
    <3>3. Waiting' = Waiting \cup {Added(tag)}
      <4>1. CASE queue' = queue \cup {Added(tag)} /\ UNCHANGED <<flights, flushing>>
        BY <2>1, <4>1 DEF Waiting, Flying
      <4>2. CASE /\ ~ flushing /\ queue' = {}
                 /\ flights' = flights \cup {queue \cup {Added(tag)}}
        <5>1. flights = {} /\ Flying = {}
          BY <4>2 DEF QueueProper, Flying
        <5>2. Flying' = queue \cup {Added(tag)}
          BY <4>2, <5>1 DEF Flying
        <5> QED BY <2>1, <4>2, <5>1, <5>2 DEF Waiting
      <4> QED BY <2>3, <4>1, <4>2 DEF Queued
    <3>4. Cardinality(Waiting') = Cardinality(Waiting) + 1
      BY <1>t, <3>2, <3>3, FS_AddElement
    <3> QED BY <1>0, <1>t, <3>1, <3>4 DEF AccountKept
  <2> QED BY <2>1, <2>2, <2>3
<1>2. CASE Tick
  <2>1. /\ flights = {} /\ flights' = {queue} /\ queue' = {}
        /\ UNCHANGED <<life, seq, lost, count>>
    BY <1>2 DEF Tick, Flush, QueueProper, history
  <2>2. Flying = {} /\ Flying' = queue
    BY <2>1 DEF Flying
  <2>3. Waiting' = Waiting
    BY <2>1, <2>2 DEF Waiting
  <2> QED BY <1>0, <2>1, <2>3 DEF AccountKept, Received, Unwritten
<1>3. ASSUME NEW b \in flights, InsertFails(b) PROVE AccountKept'
  <2>1. /\ flights' = flights \ {b} /\ lost' = lost \cup b
        /\ UNCHANGED <<life, seq, queue, count>>
    BY <1>3 DEF InsertFails
  <2>2. flights = {b} /\ Flying = b /\ Flying' = {}
    BY <2>1, FiniteFlights DEF QueueProper, Flying
  <2>3. \A d \in b : d.life = life
    BY <2>2 DEF QueueProper
  <2>4. Waiting' = Waiting
    BY <2>1, <2>2, <2>3 DEF Waiting
  <2> QED BY <1>0, <2>1, <2>4 DEF AccountKept, Received, Unwritten
<1>4. ASSUME NEW b \in flights, InsertEnds(b) PROVE AccountKept'
  <2>1. /\ flights' = flights \ {b}
        /\ UNCHANGED <<life, seq, queue, lost>>
        /\ count' = [count EXCEPT !["stored"] = @ + Cardinality(b)]
    BY <1>4 DEF InsertEnds, history
  <2>2. flights = {b} /\ Flying = b /\ Flying' = {} /\ b \cap queue = {} /\ b \cap lost = {}
    BY <2>1, FiniteFlights DEF QueueProper, Flying
  <2>3. Waiting = Waiting' \cup b /\ Waiting' \cap b = {}
    BY <2>1, <2>2 DEF Waiting
  <2>4. IsFiniteSet(b) /\ IsFiniteSet(Waiting') /\ Cardinality(b) \in Nat
        /\ Cardinality(Waiting') \in Nat
    BY <1>t, <2>3, FS_Subset, FS_CardinalityType DEF HepTypeInv, AllFinite
  <2>5. Cardinality(Waiting) = Cardinality(Waiting') + Cardinality(b)
    <3>1. Cardinality(Waiting' \cup b) = Cardinality(Waiting') + Cardinality(b)
                                          - Cardinality(Waiting' \cap b)
      BY <2>4, FS_Union
    <3>2. Cardinality(Waiting' \cap b) = 0
      BY <2>3, FS_EmptySet
    <3>3. Cardinality(Waiting) = Cardinality(Waiting' \cup b)
      BY <2>3
    <3> QED BY <2>4, <3>1, <3>2, <3>3
  <2>6. /\ Received' = Received /\ Unwritten' = Unwritten
        /\ count'["stored"] = count["stored"] + Cardinality(b)
    BY <2>1 DEF Received, Unwritten, HepTypeInv, CollectorTyped, Counters
  <2> QED BY <1>0, <1>t, <2>1, <2>4, <2>5, <2>6 DEF AccountKept
<1>5. CASE Renew
  <2>1. /\ life' = life + 1 /\ seq' = 0 /\ queue' = {} /\ flights' = {} /\ count' = NoCount
        /\ lost' = lost \cup queue \cup Flying
    BY <1>5 DEF Renew, Flying
  <2>2. \A d \in lost' : d.life # life'
    <3>1. \A d \in lost' : d.life <= life /\ d.life \in Nat
      BY <2>1 DEF QueueProper, Flying, HepTypeInv, CollectorTyped, Docs
    <3> QED BY <1>t, <2>1, <3>1
  <2>3. Waiting' = {}
    BY <2>1, <2>2 DEF Waiting, Flying
  <2>4. \A c \in Counters : count'[c] = 0
    BY <2>1 DEF NoCount
  <2> QED BY <2>1, <2>3, <2>4, FS_EmptySet DEF AccountKept, Received, Unwritten, Counters
<1>6. CASE UNCHANGED <<life, seq, queue, flights, flushing, count, stored, lost>>
  BY <1>0, <1>6 DEF AccountKept, Received, Unwritten, Waiting, Flying
<1> QED BY <1>1, <1>2, <1>3, <1>4, <1>5, <1>6, QueueSteps DEF Inserted

HepInv == HepTypeInv /\ QueueProper /\ Accounted

LEMMA HepInvariant == HepSpec => []HepInv
<1>1. HepInit => HepInv
  BY HepTypeInit, QueueInit, AccountInit DEF HepInv
<1>2. HepInv /\ [HepNext]_hepVars => HepInv'
  BY HepTypeStep, QueueStep, AccountStep DEF HepInv
<1> QED BY <1>1, <1>2, PTL DEF HepSpec

(* The counters and the queue of the collector account for every datagram, *)
(* through full queues, failed inserts, crashes and shutdowns              *)
(* (hep-collector.ts:215-285).                                             *)
THEOREM AccountTheorem == HepSpec => []Accounted
<1>1. HepInv => Accounted
  BY DEF HepInv
<1> QED BY <1>1, HepInvariant, PTL

(***************************************************************************)
(* Whose session the collector is scoped to.                               *)
(***************************************************************************)

LEMMA ScopeInit == HepInit => ScopeInv
<1> SUFFICES ASSUME HepInit PROVE ScopeInv
  OBVIOUS
<1>1. Running = {}
  BY DEF HepInit, Running, NewRow
<1> QED BY <1>1 DEF HepInit, ScopeInv, OneRuns, OneWorks, ScopeOfRunning, Leaving

\* What the steps that are no handler's leave of the sessions.
LEMMA ScopeRest ==
    ASSUME ScopeInv, UNCHANGED <<filter, row, at, sess, overlap>>
    PROVE  ScopeInv'
BY DEF ScopeInv, OneRuns, OneWorks, ScopeOfRunning, Running

LEMMA ScopeStart ==
    ASSUME HepTypeInv, ScopeInv, NEW p \in Starters,
           Claim(p) \/ SetScope(p) \/ Launch(p) \/ Fail(p)
    PROVE  ScopeInv'
<1>p. /\ p \in Procs /\ at \in [Procs -> StarterLabels \cup FinisherLabels]
      /\ sess \in [Procs -> Sessions \cup {NoSession}]
      /\ \A q \in Procs : sess[q] = NoSession <=> at[q] \in {"idle", "find"}
      /\ DOMAIN row = Sessions /\ \A s \in Sessions : row[s].status \in Statuses
  BY DEF Procs, HepTypeInv, HandlersTyped, RowsTyped
<1>1. CASE Claim(p)
  <2> DEFINE s == Least(Unused)
  <2>1. s \in Unused /\ s \in Sessions /\ Running = {}
    BY <1>1, LeastIn DEF Claim, Unused
  <2>2. Running' = {s}
    <3>1. row' = [row EXCEPT ![s].status = "running"]
      BY <1>1 DEF Claim
    <3> QED BY <1>p, <2>1, <3>1 DEF Running, HepTypeInv, RowsTyped
  <2>3. /\ filter' = filter /\ overlap' = overlap
        /\ sess' = [sess EXCEPT ![p] = s] /\ at' = [at EXCEPT ![p] = "scope"]
    BY <1>1 DEF Claim, Goto, collector, history
  <2>4. OneRuns'
    BY <2>2 DEF OneRuns
  <2>5. ASSUME ~ overlap PROVE OneWorks' /\ ScopeOfRunning'
    <3>1. \A q \in Procs : sess[q] = NoSession
      BY <2>1, <2>5 DEF ScopeInv, OneWorks
    <3>2. filter = NoSession
      BY <2>1, <2>5 DEF ScopeInv, ScopeOfRunning
    <3>3. \A q \in Procs : sess'[q] = IF q = p THEN s ELSE NoSession
      BY <1>p, <2>3, <3>1
    <3>4. OneWorks'
      BY <2>2, <3>3 DEF OneWorks
    <3>5. \A q \in Procs : at[q] \in {"idle", "find"}
      BY <1>p, <3>1
    <3>6. ScopeOfRunning'
      BY <1>p, <2>3, <3>2, <3>5 DEF ScopeOfRunning, Leaving
    <3> QED BY <3>4, <3>6
  <2> QED BY <2>3, <2>4, <2>5 DEF ScopeInv
<1>2. CASE SetScope(p)
  <2>1. /\ at[p] = "scope" /\ filter' = sess[p] /\ at' = [at EXCEPT ![p] = "launch"]
        /\ UNCHANGED <<row, sess, overlap>>
    BY <1>2 DEF SetScope, Goto, history
  <2>2. Running' = Running
    BY <2>1 DEF Running
  <2>3. ASSUME ~ overlap PROVE ScopeOfRunning'
    <3>1. sess[p] \in Running
      BY <1>p, <2>1, <2>3 DEF ScopeInv, OneWorks
    <3>2. ASSUME NEW q \in Procs,
                 at'[q] \in Leaving
          PROVE  filter' # sess'[q]
      <4>1. q # p /\ at[q] = at'[q]
        BY <1>p, <2>1, <3>2 DEF Leaving
      <4>2. sess[q] # sess[p]
        BY <1>p, <2>1, <2>3, <4>1 DEF ScopeInv, OneWorks
      <4> QED BY <2>1, <4>2
    <3> QED BY <2>1, <2>2, <3>1, <3>2 DEF ScopeOfRunning
  <2> QED BY <2>1, <2>2, <2>3 DEF ScopeInv, OneRuns, OneWorks
<1>3. CASE Launch(p)
  <2>1. /\ UNCHANGED <<row, overlap>> /\ at[p] = "launch"
        /\ \/ filter' = filter /\ sess' = [sess EXCEPT ![p] = NoSession]
              /\ at' = [at EXCEPT ![p] = "idle"]
           \/ filter' = NoSession /\ sess' = sess /\ at' = [at EXCEPT ![p] = "fail"]
    BY <1>3 DEF Launch, Answer, Goto, history
  <2>2. Running' = Running
    BY <2>1 DEF Running
  <2>3. ASSUME ~ overlap PROVE OneWorks' /\ ScopeOfRunning'
    <3>1. OneWorks /\ ScopeOfRunning
      BY <2>3 DEF ScopeInv
    <3>2. OneWorks'
      BY <1>p, <2>1, <2>2, <3>1 DEF OneWorks
    <3>3. CASE filter' = filter /\ sess' = [sess EXCEPT ![p] = NoSession]
               /\ at' = [at EXCEPT ![p] = "idle"]
      <4>1. \A q \in Procs \ {p} : sess'[q] = sess[q] /\ at'[q] = at[q]
        BY <1>p, <3>3
      <4>2. at'[p] = "idle"
        BY <1>p, <3>3
      <4>3. ASSUME NEW q \in Procs,
                   at'[q] \in Leaving
            PROVE  filter' # sess'[q]
        <5>1. q # p
          BY <4>2, <4>3 DEF Leaving
        <5>2. at[q] \in Leaving /\ sess'[q] = sess[q]
          BY <4>1, <4>3, <5>1
        <5> QED BY <3>1, <3>3, <5>2 DEF ScopeOfRunning
      <4>4. filter' # NoSession => filter' \in Running'
        BY <2>2, <3>1, <3>3 DEF ScopeOfRunning
      <4> QED BY <3>2, <4>3, <4>4 DEF ScopeOfRunning
    <3>4. CASE filter' = NoSession /\ sess' = sess /\ at' = [at EXCEPT ![p] = "fail"]
      <4>1. \A q \in Procs \ {p} : at'[q] = at[q]
        BY <1>p, <3>4
      <4>2. \A q \in Procs : at[q] \notin {"idle", "find"} => sess[q] # NoSession
        BY <1>p
      <4>3. ASSUME NEW q \in Procs,
                   at'[q] \in Leaving
            PROVE  filter' # sess'[q]
        <5>1. at[q] \notin {"idle", "find"}
          BY <2>1, <4>1, <4>3 DEF Leaving
        <5> QED BY <3>4, <4>2, <5>1
      <4>4. filter' = NoSession
        BY <3>4
      <4> QED BY <3>2, <4>3, <4>4 DEF ScopeOfRunning
    <3> QED BY <2>1, <3>2, <3>3, <3>4
  <2> QED BY <2>1, <2>2, <2>3 DEF ScopeInv, OneRuns
<1>4. CASE Fail(p)
  <2>1. /\ UNCHANGED <<filter, overlap>> /\ at[p] = "fail"
        /\ sess' = [sess EXCEPT ![p] = NoSession] /\ at' = [at EXCEPT ![p] = "idle"]
    BY <1>4 DEF Fail, Answer, Goto, collector, history
  <2>2. Running' \in {Running, Running \ {sess[p]}}
    <3>1. sess[p] \in Sessions
      BY <1>p, <2>1
    <3>2. CASE UNCHANGED row
      BY <3>2 DEF Running
    <3>3. CASE row' = [row EXCEPT ![sess[p]].status = "failed"]
      BY <1>p, <3>1, <3>3 DEF Running, HepTypeInv, RowsTyped
    <3> QED BY <1>4, <3>2, <3>3 DEF Fail
  <2>3. ASSUME ~ overlap PROVE OneWorks' /\ ScopeOfRunning'
    <3>1. OneWorks /\ ScopeOfRunning
      BY <2>3 DEF ScopeInv
    <3>2. filter # sess[p] /\ sess[p] # NoSession
      BY <1>p, <2>1, <3>1 DEF ScopeOfRunning, Leaving
    <3>3. \A q \in Procs \ {p} : sess'[q] = sess[q] /\ at'[q] = at[q]
      BY <1>p, <2>1
    <3>4. sess'[p] = NoSession /\ at'[p] = "idle"
      BY <1>p, <2>1
    <3>5. OneWorks'
      <4>1. ASSUME NEW q \in Procs, NEW r \in Procs,
                   sess'[q] # NoSession, sess'[q] = sess'[r]
            PROVE  q = r
        BY <3>1, <3>3, <3>4, <4>1 DEF OneWorks
      <4>2. ASSUME NEW q \in Procs, sess'[q] # NoSession
            PROVE  sess'[q] \in Running'
        <5>1. q # p /\ sess'[q] = sess[q]
          BY <3>3, <3>4, <4>2
        <5>2. sess[q] # sess[p] /\ sess[q] \in Running
          BY <1>p, <3>1, <4>2, <5>1 DEF OneWorks
        <5> QED BY <2>2, <5>1, <5>2
      <4> QED BY <4>1, <4>2 DEF OneWorks
    <3>6. ScopeOfRunning'
      BY <2>1, <2>2, <3>1, <3>2, <3>3, <3>4 DEF ScopeOfRunning, Leaving
    <3> QED BY <3>5, <3>6
  <2> QED BY <2>1, <2>2, <2>3 DEF ScopeInv, OneRuns
<1> QED BY <1>1, <1>2, <1>3, <1>4

LEMMA ScopeFinish ==
    ASSUME HepTypeInv, ScopeInv, NEW p \in Finishers,
           \/ AskStop(p) \/ Find(p) \/ ClearScope(p) \/ CountMessages(p)
           \/ ReadMessages(p) \/ WriteSnapshot(p) \/ Close(p)
    PROVE  ScopeInv'
<1>p. /\ p \in Procs /\ at \in [Procs -> StarterLabels \cup FinisherLabels]
      /\ sess \in [Procs -> Sessions \cup {NoSession}]
      /\ \A q \in Procs : sess[q] = NoSession <=> at[q] \in {"idle", "find"}
      /\ DOMAIN row = Sessions
  BY HepParts DEF HepTypeInv, HandlersTyped, RowsTyped
<1>1. CASE AskStop(p)
  <2>1. /\ UNCHANGED <<filter, row, sess, overlap>> /\ at' = [at EXCEPT ![p] = "find"]
    BY <1>1 DEF AskStop, Goto, collector, history
  <2>2. Running' = Running
    BY <2>1 DEF Running
  <2>3. ScopeOfRunning => ScopeOfRunning'
    BY <1>p, <2>1, <2>2 DEF ScopeOfRunning, Leaving
  <2>4. OneWorks => OneWorks'
    BY <2>1, <2>2 DEF OneWorks
  <2> QED BY <2>1, <2>2, <2>3, <2>4 DEF ScopeInv, OneRuns
<1>2. CASE Find(p)
  <2>1. UNCHANGED <<filter, row>> /\ at[p] = "find"
    BY <1>2 DEF Find, collector
  <2>2. Running' = Running
    BY <2>1 DEF Running
  <2>3. CASE Answer(p) /\ UNCHANGED overlap
    <3>1. sess[p] = NoSession
      BY <1>p, <2>1, Zenon
    <3>2. sess' = sess /\ at' = [at EXCEPT ![p] = "idle"]
      BY <1>p, <2>3, <3>1 DEF Answer, Goto
    <3>3. ScopeOfRunning => ScopeOfRunning'
      BY <1>p, <2>1, <2>2, <3>2 DEF ScopeOfRunning, Leaving
    <3> QED BY <2>1, <2>2, <2>3, <3>2, <3>3 DEF ScopeInv, OneRuns, OneWorks
  <2>4. CASE /\ Running # {} /\ sess' = [sess EXCEPT ![p] = Least(Running)]
             /\ overlap' = (overlap \/ \E q \in Procs : sess[q] \in Running)
             /\ Goto(p, "clear")
    <3>1. Least(Running) \in Running
      BY <2>4, LeastIn DEF Running
    <3>2. ASSUME ~ overlap' PROVE OneWorks' /\ ScopeOfRunning'
      <4>1. ~ overlap /\ \A q \in Procs : sess[q] \notin Running
        BY <2>4, <3>2
      <4>2. \A q \in Procs : sess[q] = NoSession
        BY <4>1 DEF ScopeInv, OneWorks
      <4>3. \A q \in Procs : sess'[q] = IF q = p THEN Least(Running) ELSE NoSession
        BY <1>p, <2>4, <4>2
      <4>4. OneWorks'
        BY <2>2, <3>1, <4>3 DEF OneWorks
      <4>5. \A q \in Procs : at'[q] \in {"idle", "find", "clear"}
        BY <1>p, <2>4, <4>2 DEF Goto
      <4>6. ScopeOfRunning'
        BY <2>1, <2>2, <4>1, <4>5 DEF ScopeInv, ScopeOfRunning, Leaving
      <4> QED BY <4>4, <4>6
    <3> QED BY <2>1, <2>2, <3>2 DEF ScopeInv, OneRuns
  <2> QED BY <1>2, <2>3, <2>4 DEF Find
<1>3. CASE ClearScope(p)
  <2>1. /\ UNCHANGED <<row, sess, overlap>> /\ at' = [at EXCEPT ![p] = "count"]
        /\ filter' = IF filter = sess[p] THEN NoSession ELSE filter
        /\ at[p] = "clear"
    BY <1>3 DEF ClearScope, LeaveScope, Goto, history
  <2>2. Running' = Running
    BY <2>1 DEF Running
  <2>3. ASSUME ScopeOfRunning PROVE ScopeOfRunning'
    <3>1. ASSUME NEW q \in Procs,
                 at'[q] \in Leaving
          PROVE  filter' # sess'[q]
      <4>1. CASE q = p
        BY <1>p, <2>1, <4>1
      <4>2. CASE q # p
        <5>1. at[q] = at'[q] /\ sess[q] # NoSession /\ filter # sess[q]
          BY <1>p, <2>1, <2>3, <3>1, <4>2 DEF ScopeOfRunning, Leaving
        <5> QED BY <2>1, <5>1
      <4> QED BY <4>1, <4>2
    <3> QED BY <2>1, <2>2, <2>3, <3>1 DEF ScopeOfRunning
  <2> QED BY <2>1, <2>2, <2>3 DEF ScopeInv, OneRuns, OneWorks
<1>4. CASE CountMessages(p) \/ ReadMessages(p) \/ WriteSnapshot(p)
  <2>1. /\ UNCHANGED <<filter, sess, overlap>> /\ at[p] \in {"count", "read", "write"}
        /\ \E label \in {"read", "write", "close"} : at' = [at EXCEPT ![p] = label]
    BY <1>4 DEF CountMessages, ReadMessages, ReadUpTo, WriteSnapshot, Goto, collector, history
  <2>2. Running' = Running
    <3>1. CASE UNCHANGED row
      BY <3>1 DEF Running
    <3>2. CASE ~ UNCHANGED row
      <4>1. PICK docs, cut : row' = [row EXCEPT ![sess[p]].snapshot = docs,
                                                ![sess[p]].truncated = cut,
                                                ![sess[p]].taken = TRUE]
        BY <1>4, <3>2 DEF CountMessages, ReadMessages, ReadUpTo, WriteSnapshot
      <4>2. \A s \in Sessions : row'[s].status = row[s].status
        BY <1>p, <4>1 DEF HepTypeInv, RowsTyped
      <4> QED BY <4>2 DEF Running
    <3> QED BY <3>1, <3>2
  <2>3. ASSUME ScopeOfRunning PROVE ScopeOfRunning'
    <3>1. \A q \in Procs : at'[q] \in Leaving => at[q] \in Leaving
      BY <1>p, <2>1 DEF Leaving
    <3> QED BY <2>1, <2>2, <2>3, <3>1 DEF ScopeOfRunning
  <2> QED BY <2>1, <2>2, <2>3 DEF ScopeInv, OneRuns, OneWorks
<1>5. CASE Close(p)
  <2>1. /\ UNCHANGED <<filter, overlap>> /\ at[p] = "close"
        /\ sess' = [sess EXCEPT ![p] = NoSession] /\ at' = [at EXCEPT ![p] = "idle"]
    BY <1>5 DEF Close, Answer, Goto, collector, history
  <2>2. Running' \in {Running, Running \ {sess[p]}}
    <3>1. sess[p] \in Sessions
      BY <1>p, <2>1
    <3>2. CASE UNCHANGED row
      BY <3>2 DEF Running
    <3>3. CASE ~ UNCHANGED row
      <4>1. PICK status \in {"interrupted", "stopped"} :
                row' = [row EXCEPT ![sess[p]].status = status,
                                   ![sess[p]].matched = seen[p].matched,
                                   ![sess[p]].filtered = seen[p].filtered,
                                   ![sess[p]].error = @ \/ seen[p].error]
        BY <1>5, <3>3 DEF Close
      <4>2. \A s \in Sessions : row'[s].status = IF s = sess[p] THEN status ELSE row[s].status
        BY <1>p, <3>1, <4>1 DEF HepTypeInv, RowsTyped
      <4> QED BY <4>2 DEF Running
    <3> QED BY <3>2, <3>3
  <2>3. ASSUME ~ overlap PROVE OneWorks' /\ ScopeOfRunning'
    <3>1. OneWorks /\ ScopeOfRunning
      BY <2>3 DEF ScopeInv
    <3>2. filter # sess[p] /\ sess[p] # NoSession
      BY <1>p, <2>1, <3>1 DEF ScopeOfRunning, Leaving
    <3>3. \A q \in Procs \ {p} : sess'[q] = sess[q] /\ at'[q] = at[q]
      BY <1>p, <2>1
    <3>4. sess'[p] = NoSession /\ at'[p] = "idle"
      BY <1>p, <2>1
    <3>5. OneWorks'
      <4>1. ASSUME NEW q \in Procs, NEW r \in Procs,
                   sess'[q] # NoSession, sess'[q] = sess'[r]
            PROVE  q = r
        BY <3>1, <3>3, <3>4, <4>1 DEF OneWorks
      <4>2. ASSUME NEW q \in Procs, sess'[q] # NoSession
            PROVE  sess'[q] \in Running'
        <5>1. q # p /\ sess'[q] = sess[q]
          BY <3>3, <3>4, <4>2
        <5>2. sess[q] # sess[p] /\ sess[q] \in Running
          BY <1>p, <3>1, <4>2, <5>1 DEF OneWorks
        <5> QED BY <2>2, <5>1, <5>2
      <4> QED BY <4>1, <4>2 DEF OneWorks
    <3>6. ScopeOfRunning'
      BY <2>1, <2>2, <3>1, <3>2, <3>3, <3>4 DEF ScopeOfRunning, Leaving
    <3> QED BY <3>5, <3>6
  <2> QED BY <2>1, <2>2, <2>3 DEF ScopeInv, OneRuns
<1> QED BY <1>1, <1>2, <1>3, <1>4, <1>5

LEMMA ScopeStep == HepTypeInv /\ ScopeInv /\ [HepNext]_hepVars => ScopeInv'
<1> SUFFICES ASSUME HepTypeInv, ScopeInv, [HepNext]_hepVars PROVE ScopeInv'
  OBVIOUS
<1>1. ASSUME NEW m \in Datagrams, Datagram(m) PROVE ScopeInv'
  BY <1>1, DatagramEffect, ScopeRest
<1>2. CASE Tick \/ (\E b \in flights : Inserted(b)) \/ SetKeepalives
  <2>1. UNCHANGED <<filter, row, at, sess, overlap>>
    BY <1>2 DEF Tick, Inserted, InsertEnds, InsertFails, SetKeepalives, collector, handlers,
                history
  <2> QED BY <2>1, ScopeRest
<1>3. ASSUME NEW p \in Starters, Claim(p) \/ SetScope(p) \/ Launch(p) \/ Fail(p)
      PROVE  ScopeInv'
  BY <1>3, ScopeStart
<1>4. ASSUME NEW p \in Finishers,
             \/ AskStop(p) \/ Find(p) \/ ClearScope(p) \/ CountMessages(p)
             \/ ReadMessages(p) \/ WriteSnapshot(p) \/ Close(p)
      PROVE  ScopeInv'
  BY <1>4, ScopeFinish
<1>5. CASE Sigterm \/ Disconnect
  <2>1. UNCHANGED <<filter, row, at, sess, overlap>>
    BY <1>5 DEF Sigterm, Disconnect, collector, handlers, history
  <2> QED BY <2>1, ScopeRest
<1>6. CASE Exit \/ Crash
  <2>1. /\ UNCHANGED <<row, overlap>> /\ filter' = NoSession
        /\ at' = [p \in Procs |-> IF p = Boot THEN "find" ELSE "idle"]
        /\ sess' = [p \in Procs |-> NoSession]
    BY <1>6 DEF Exit, Crash, Renew
  <2>2. Running' = Running
    BY <2>1 DEF Running
  <2> QED BY <2>1, <2>2 DEF ScopeInv, OneRuns, OneWorks, ScopeOfRunning, Leaving
<1>7. CASE UNCHANGED hepVars
  <2>1. UNCHANGED <<filter, row, at, sess, overlap>>
    BY <1>7 DEF hepVars, collector, handlers, history
  <2> QED BY <2>1, ScopeRest
<1> QED BY <1>1, <1>2, <1>3, <1>4, <1>5, <1>6, <1>7, HepParts DEF HepNext, Step

(***************************************************************************)
(* The properties of the scope.                                            *)
(***************************************************************************)

ScopedInv == HepInv /\ ScopeInv

LEMMA ScopedInvariant == HepSpec => []ScopedInv
<1>1. HepInit => ScopeInv
  BY ScopeInit
<1>2. HepInv /\ ScopeInv /\ [HepNext]_hepVars => ScopeInv'
  BY ScopeStep DEF HepInv
<1> QED BY <1>1, <1>2, HepInvariant, PTL DEF HepSpec, ScopedInv

Closed(s) == row[s].status \in {"stopped", "interrupted", "failed"}

SealedNow ==
    \A s \in Sessions : Closed(s) /\ ~ overlap => Known(s)' \subseteq Known(s)

LEMMA SealedStep ==
    ASSUME ScopedInv, [HepNext]_hepVars
    PROVE  SealedNow
<1> SUFFICES ASSUME NEW s \in Sessions, Closed(s), ~ overlap
             PROVE  Known(s)' \subseteq Known(s)
  BY DEF SealedNow
<1>0. filter # s /\ s # NoSession
  <2>1. s \notin Running
    BY DEF Closed, Running
  <2> QED BY <2>1, HepParts DEF ScopedInv, ScopeInv, ScopeOfRunning
<1>1. ASSUME NEW m \in Datagrams, Datagram(m) PROVE Known(s)' \subseteq Known(s)
  <2>1. /\ UNCHANGED <<stored, lost>>
        /\ (\E why : Dropped(why)) \/ (\E tag : Queued(tag))
    BY <1>1, DatagramEffect
  <2>2. ASSUME NEW why, Dropped(why) PROVE Known(s)' \subseteq Known(s)
    BY <2>1, <2>2 DEF Dropped, Known, Flying
  <2>3. ASSUME NEW tag, Queued(tag) PROVE Known(s)' \subseteq Known(s)
    <3>1. Added(tag).tag # s
      BY <1>0, <2>3 DEF Added, Queued
    <3>2. (queue \cup Flying)' = queue \cup Flying \cup {Added(tag)}
      <4> DEFINE batch == queue \cup {Added(tag)}
      <4>1. CASE queue' = batch /\ UNCHANGED flights
        BY <4>1 DEF Flying
      <4>2. CASE queue' = {} /\ flights' = flights \cup {batch}
        <5> HIDE DEF batch
        <5>1. UNION flights' = (UNION flights) \cup batch
          BY <4>2
        <5> QED BY <4>2, <5>1 DEF Flying, batch
      <4> QED BY <2>3, <4>1, <4>2 DEF Queued
    <3> SUFFICES ASSUME NEW d \in Known(s)' PROVE d \in Known(s)
      OBVIOUS
    <3>3. d.tag = s /\ (d \in stored \/ d \in (queue \cup Flying)' \/ d \in lost)
      BY <2>1 DEF Known
    <3>4. d # Added(tag)
      BY <3>1, <3>3
    <3>5. d \in stored \/ d \in queue \/ d \in Flying \/ d \in lost
      BY <3>2, <3>3, <3>4
    <3> QED BY <3>3, <3>5 DEF Known
  <2> QED BY <2>1, <2>2, <2>3
<1>2. CASE Tick
  <2>1. UNCHANGED <<stored, lost>> /\ (queue \cup Flying)' = queue \cup Flying
    BY <1>2 DEF Tick, Flush, Flying, history
  <2> QED BY <2>1 DEF Known
<1>3. ASSUME NEW b \in flights, Inserted(b) PROVE Known(s)' \subseteq Known(s)
  <2>1. /\ queue' = queue /\ flights' = flights \ {b}
        /\ stored' \subseteq stored \cup b /\ lost' \subseteq lost \cup b
    BY <1>3 DEF Inserted, InsertEnds, InsertFails, history
  <2>2. b \subseteq Flying /\ Flying' \subseteq Flying
    BY <2>1 DEF Flying
  <2> QED BY <2>1, <2>2 DEF Known
<1>4. CASE Renew
  <2>1. /\ queue' = {} /\ flights' = {} /\ stored' \subseteq stored \cup Flying
        /\ lost' = lost \cup queue \cup Flying
    BY <1>4 DEF Renew, Flying
  <2>2. Flying' = {}
    BY <2>1 DEF Flying
  <2> QED BY <2>1, <2>2 DEF Known
<1>5. CASE UNCHANGED <<life, seq, queue, flights, flushing, count, stored, lost>>
  BY <1>5 DEF Known, Flying
<1> QED BY <1>1, <1>2, <1>3, <1>4, <1>5, QueueSteps

(* A session that has been closed is tagged on no message received after   *)
(* it, through any restart, unless a stop reached into its start           *)
(* (call-debug-session.ts:345-349, hep-collector.ts:252).                  *)
THEOREM SealedTheorem == HepSpec => SealedAfterStop
<1>1. ScopedInv /\ [HepNext]_hepVars =>
        [\A s \in Sessions :
            row[s].status \in {"stopped", "interrupted", "failed"} /\ ~ overlap =>
                Known(s)' \subseteq Known(s)]_hepVars
  BY SealedStep DEF SealedNow, Closed
<1> QED BY <1>1, ScopedInvariant, PTL DEF HepSpec, SealedAfterStop

ScopeLostNow ==
    \A s \in Running :
        filter = s /\ filter' # s =>
            \/ life' # life
            \/ \E p \in Procs :
                   /\ at'[p] # at[p]
                   /\ \/ sess[p] = s
                      \/ p \in Starters /\ row[sess[p]].status # "running"

LEMMA ScopeLostStep ==
    ASSUME ScopedInv, [HepNext]_hepVars
    PROVE  ScopeLostNow
<1> SUFFICES ASSUME NEW s \in Running, filter = s, filter' # s
             PROVE  \/ life' # life
                    \/ \E p \in Procs :
                          /\ at'[p] # at[p]
                          /\ \/ sess[p] = s
                             \/ p \in Starters /\ row[sess[p]].status # "running"
  BY DEF ScopeLostNow
<1>t. /\ at \in [Procs -> StarterLabels \cup FinisherLabels]
      /\ \A p \in Procs : sess[p] = NoSession <=> at[p] \in {"idle", "find"}
      /\ sess \in [Procs -> Sessions \cup {NoSession}]
      /\ life \in Nat
  BY DEF ScopedInv, HepInv, HepTypeInv, HandlersTyped, CollectorTyped
<1>1. ASSUME NEW p \in Starters, SetScope(p) \/ Launch(p)
      PROVE  /\ at'[p] # at[p]
             /\ \/ sess[p] = s
                \/ p \in Starters /\ row[sess[p]].status # "running"
  <2>1. p \in Procs /\ at[p] \in {"scope", "launch"} /\ at'[p] \in {"launch", "fail", "idle"}
        /\ at'[p] # at[p]
    BY <1>1, <1>t DEF Procs, SetScope, Launch, Answer, Goto
  <2>2. sess[p] \in Sessions
    BY <1>t, <2>1
  <2>3. ASSUME sess[p] # s PROVE row[sess[p]].status # "running"
    BY <2>2, <2>3 DEF ScopedInv, ScopeInv, OneRuns, Running
  <2> QED BY <2>1, <2>3
<1>2. ASSUME NEW p \in Finishers, ClearScope(p)
      PROVE  at'[p] # at[p] /\ sess[p] = s
  BY <1>2, <1>t, HepParts DEF ClearScope, LeaveScope, Goto
<1>3. CASE Renew
  BY <1>3, <1>t DEF Renew
<1>4. \/ \E p \in Starters : SetScope(p) \/ Launch(p)
      \/ \E p \in Finishers : ClearScope(p)
      \/ Renew
  <2>1. filter' # filter
    OBVIOUS
  <2>2. ASSUME NEW m \in Datagrams, Datagram(m) PROVE FALSE
    BY <2>1, <2>2, DatagramEffect
  <2>3. CASE Tick \/ (\E b \in flights : Inserted(b)) \/ SetKeepalives \/ Sigterm \/ Disconnect
             \/ UNCHANGED hepVars
    BY <2>1, <2>3 DEF Tick, Inserted, InsertEnds, InsertFails, SetKeepalives, Sigterm, Disconnect,
                      hepVars, collector
  <2>4. ASSUME NEW p, Claim(p) \/ Fail(p) \/ AskStop(p) \/ Find(p) \/ CountMessages(p)
                      \/ ReadMessages(p) \/ WriteSnapshot(p) \/ Close(p)
        PROVE  FALSE
    BY <2>1, <2>4 DEF Claim, Fail, AskStop, Find, CountMessages, ReadMessages, ReadUpTo,
                      WriteSnapshot, Close, collector
  <2> QED BY <2>2, <2>3, <2>4 DEF HepNext, Step, Exit, Crash
<1> QED BY <1>1, <1>2, <1>3, <1>4, HepParts

(* The running session keeps its scope but for a crash, its own handlers   *)
(* and a late start; a late stop leaves it alone                           *)
(* (call-debug-session.ts:310, 347-349).                                   *)
THEOREM ScopeTheorem == HepSpec => NewerScopeKept
<1>1. ScopedInv /\ [HepNext]_hepVars =>
        [\A s \in Running :
            filter = s /\ filter' # s =>
                \/ life' # life
                \/ \E p \in Procs :
                      /\ at'[p] # at[p]
                      /\ \/ sess[p] = s
                         \/ p \in Starters /\ row[sess[p]].status # "running"]_hepVars
  BY ScopeLostStep DEF ScopeLostNow
<1> QED BY <1>1, ScopedInvariant, PTL DEF HepSpec, NewerScopeKept

(***************************************************************************)
(* The first documents: as many as asked for, or all.                      *)
(***************************************************************************)

Before(docs, d) == {e \in docs : e.life < d.life \/ (e.life = d.life /\ e.seq < d.seq)}

LEMMA FirstOfBefore ==
    ASSUME NEW docs, NEW n
    PROVE  FirstOf(docs, n) = {d \in docs : Cardinality(Before(docs, d)) < n}
BY DEF FirstOf, Before

\* What comes before a document of a finite set is smaller than the set.
LEMMA BeforeSmaller ==
    ASSUME NEW docs, docs \subseteq Docs, IsFiniteSet(docs), NEW d \in docs
    PROVE  /\ IsFiniteSet(Before(docs, d)) /\ Before(docs, d) \subseteq docs \ {d}
           /\ Cardinality(Before(docs, d)) \in Nat
           /\ Cardinality(Before(docs, d)) < Cardinality(docs)
<1>1. d.life \in Nat /\ d.seq \in Nat
  BY HepBoundsAssumption DEF Docs
<1>2. Before(docs, d) \subseteq docs \ {d}
  BY <1>1 DEF Before
<1>3. IsFiniteSet(docs \ {d}) /\ Cardinality(docs \ {d}) = Cardinality(docs) - 1
  BY FS_RemoveElement
<1>4. IsFiniteSet(Before(docs, d)) /\ Cardinality(Before(docs, d)) <= Cardinality(docs \ {d})
  BY <1>2, <1>3, FS_Subset
<1>5. Cardinality(docs) \in Nat /\ Cardinality(Before(docs, d)) \in Nat
  BY <1>4, FS_CardinalityType
<1> QED BY <1>2, <1>3, <1>4, <1>5

\* A small set is read whole.
LEMMA FirstOfAll ==
    ASSUME NEW docs, docs \subseteq Docs, IsFiniteSet(docs), NEW n \in Nat,
           Cardinality(docs) <= n
    PROVE  FirstOf(docs, n) = docs
<1>1. Cardinality(docs) \in Nat
  BY FS_CardinalityType
<1>2. \A d \in docs : Cardinality(Before(docs, d)) < n
  BY <1>1, BeforeSmaller
<1> QED BY <1>2, FirstOfBefore

\* Of a large one, as many as asked for at least.
LEMMA FirstOfEnough ==
    ASSUME NEW docs, docs \subseteq Docs, IsFiniteSet(docs), NEW n \in Nat,
           Cardinality(docs) >= n
    PROVE  Cardinality(FirstOf(docs, n)) >= n
<1> DEFINE first == FirstOf(docs, n)
           left == docs \ first
           sizes == {Cardinality(Before(docs, d)) : d \in left}
<1>1. first = {d \in docs : Cardinality(Before(docs, d)) < n}
  BY FirstOfBefore
<1> HIDE DEF first
<1>2. IsFiniteSet(first) /\ Cardinality(first) \in Nat
  BY <1>1, FS_Subset, FS_CardinalityType
<1>3. CASE left = {}
  <2>1. first = docs
    BY <1>1, <1>3
  <2> QED BY <2>1 DEF first
<1>4. CASE left # {}
  <2>1. sizes \subseteq Nat /\ sizes # {}
    BY <1>4, BeforeSmaller
  <2>2. PICK k \in sizes : \A j \in sizes : <<j, k>> \notin OpToRel(<, Nat)
    BY <2>1, NatLessThanWellFounded, WFMin
  <2>3. PICK d \in left : k = Cardinality(Before(docs, d))
    BY <2>2
  <2>4. k \in Nat /\ k >= n
    BY <1>1, <2>1, <2>3, BeforeSmaller
  <2>5. Before(docs, d) \subseteq first
    <3> SUFFICES ASSUME NEW e \in Before(docs, d), e \notin first PROVE FALSE
      OBVIOUS
    <3>1. e \in left
      BY BeforeSmaller DEF Before
    <3>2. \A f \in docs : f.life \in Nat /\ f.seq \in Nat
      BY HepBoundsAssumption DEF Docs
    <3>3. Before(docs, e) \subseteq Before(docs, d) \ {e}
      BY <3>1, <3>2, <2>3 DEF Before
    <3>4. IsFiniteSet(Before(docs, d)) /\ IsFiniteSet(Before(docs, e))
      BY <2>3, <3>1, BeforeSmaller
    <3>5. Before(docs, e) # Before(docs, d)
      BY <3>3
    <3>6. Cardinality(Before(docs, e)) <= k /\ Cardinality(Before(docs, e)) # k
      BY <2>3, <3>3, <3>4, <3>5, FS_Subset
    <3>7. Cardinality(Before(docs, e)) \in sizes /\ Cardinality(Before(docs, e)) < k
      BY <2>1, <2>4, <3>1, <3>6
    <3> QED BY <2>1, <2>2, <2>4, <3>7 DEF OpToRel
  <2>6. Cardinality(Before(docs, d)) <= Cardinality(first)
    BY <1>2, <2>5, FS_Subset
  <2>7. Cardinality(first) >= n
    BY <1>2, <2>3, <2>4, <2>6
  <2> QED BY <2>7 DEF first
<1> QED BY <1>3, <1>4

(***************************************************************************)
(* What was counted is in the snapshot.                                    *)
(***************************************************************************)

LEMMA StoredGrows == [HepNext]_hepVars => stored \subseteq stored'
<1> SUFFICES ASSUME [HepNext]_hepVars PROVE stored \subseteq stored'
  OBVIOUS
<1>1. ASSUME NEW m \in Datagrams, Datagram(m) PROVE stored' = stored
  BY <1>1, DatagramEffect
<1>2. CASE Tick
  BY <1>2 DEF Tick
<1>3. ASSUME NEW b \in flights, Inserted(b) PROVE stored \subseteq stored'
  BY <1>3 DEF Inserted, InsertEnds, InsertFails
<1>4. CASE Renew
  BY <1>4 DEF Renew
<1> QED BY <1>1, <1>2, <1>3, <1>4, QueueSteps

\* A handler that does nothing is not disturbed by what others do.
LEMMA CountedFrame ==
    ASSUME HepTypeInv, HepTypeInv', stored \subseteq stored', NEW p \in Finishers, CountedBy(p),
           at'[p] = at[p], sess'[p] = sess[p], seen'[p] = seen[p],
           at[p] = "close" /\ ~ overlap' =>
              /\ ~ overlap
              /\ row'[sess[p]].snapshot = row[sess[p]].snapshot
              /\ row'[sess[p]].truncated = row[sess[p]].truncated
    PROVE  CountedBy(p)'
<1>1. Of(sess[p])' = {d \in stored' : d.tag = sess'[p]}
  BY DEF Of
<1>2. IsFiniteSet(Of(sess[p])') /\ Of(sess[p]) \subseteq Of(sess[p])'
  <2>1. IsFiniteSet(stored')
    BY DEF HepTypeInv, AllFinite
  <2>2. Of(sess[p])' \subseteq stored' /\ Of(sess[p]) \subseteq Of(sess[p])'
    BY <1>1 DEF Of
  <2> QED BY <2>1, <2>2, FS_Subset
<1>3. /\ Cardinality(Of(sess[p])) <= Cardinality(Of(sess[p])')
      /\ Cardinality(Of(sess[p])) \in Nat /\ Cardinality(Of(sess[p])') \in Nat
  BY <1>2, OfSession, FS_Subset, FS_CardinalityType
<1>4. seen[p].matched \in Nat
  BY HepParts DEF HepTypeInv, HandlersTyped
<1>5. at'[p] = "read" => seen'[p].matched <= Cardinality(Of(sess[p])')
  BY <1>3, <1>4 DEF CountedBy
<1>6. seen'[p].docs \subseteq stored'
  BY DEF CountedBy
<1> HIDE DEF Of
<1> QED BY <1>5, <1>6 DEF CountedBy

\* A row that is closed and stays what it was says what it said.
LEMMA RowsFrame ==
    ASSUME CountedInSnapshot, overlap => overlap',
           \A s \in Sessions :
              row'[s].status \in {"stopped", "interrupted"} => row'[s] = row[s]
    PROVE  CountedInSnapshot'
BY DEF CountedInSnapshot

LEMMA SnapshotInit == HepInit => SnapshotInv
<1> SUFFICES ASSUME HepInit PROVE SnapshotInv
  OBVIOUS
<1>1. \A p \in Finishers : at[p] = "idle" /\ seen[p] = NoneSeen
  BY HepParts DEF HepInit
<1>2. \A s \in Sessions : row[s].status = "none"
  BY DEF HepInit, NewRow
<1> QED BY <1>1, <1>2 DEF SnapshotInv, ReadIsCounted, CountedBy, CountedInSnapshot, NoneSeen

\* A step of another part, and the end of a process.
LEMMA SnapshotRest ==
    ASSUME HepTypeInv, HepTypeInv', SnapshotInv, stored \subseteq stored',
           \/ UNCHANGED <<row, at, sess, seen, overlap>>
           \/ Renew
    PROVE  SnapshotInv'
<1>1. CASE UNCHANGED <<row, at, sess, seen, overlap>>
  <2>1. ReadIsCounted'
    BY <1>1, CountedFrame DEF SnapshotInv, ReadIsCounted
  <2>2. CountedInSnapshot'
    BY <1>1, RowsFrame DEF SnapshotInv
  <2> QED BY <2>1, <2>2 DEF SnapshotInv
<1>2. CASE Renew
  <2>1. /\ UNCHANGED <<row, overlap>>
        /\ \A p \in Finishers : at'[p] \in {"find", "idle"} /\ seen'[p] = NoneSeen
    BY <1>2, HepParts DEF Renew
  <2>2. ReadIsCounted'
    BY <2>1 DEF ReadIsCounted, CountedBy, NoneSeen
  <2>3. CountedInSnapshot'
    BY <2>1, RowsFrame DEF SnapshotInv
  <2> QED BY <2>2, <2>3 DEF SnapshotInv
<1> QED BY <1>1, <1>2

\* start() closes no session and touches no snapshot.
LEMMA SnapshotStart ==
    ASSUME HepTypeInv, HepTypeInv', SnapshotInv, NEW p \in Starters,
           Claim(p) \/ SetScope(p) \/ Launch(p) \/ Fail(p)
    PROVE  SnapshotInv'
<1>p. /\ p \in Procs /\ \A q \in Finishers : q # p /\ q \in Procs
      /\ at \in [Procs -> StarterLabels \cup FinisherLabels]
      /\ sess \in [Procs -> Sessions \cup {NoSession}]
      /\ seen \in [Procs -> SeenTyped]
  BY HepParts DEF HepTypeInv, HandlersTyped, SeenTyped
<1>r. row \in [Sessions -> [status : Statuses, matched : Nat, filtered : Nat,
                            snapshot : SUBSET Docs, taken : BOOLEAN, truncated : BOOLEAN,
                            error : BOOLEAN]]
  BY DEF HepTypeInv, RowsTyped
<1>1. /\ UNCHANGED <<stored, overlap>>
      /\ \E label : at' = [at EXCEPT ![p] = label]
      /\ \E s : sess' = [sess EXCEPT ![p] = s]
      /\ seen' = seen \/ seen' = [seen EXCEPT ![p] = NoneSeen]
  <2>1. sess = [sess EXCEPT ![p] = sess[p]]
    BY <1>p
  <2>2. CASE Claim(p)
    BY <2>2 DEF Claim, Goto, history
  <2>3. CASE SetScope(p)
    BY <2>1, <2>3 DEF SetScope, Goto, history
  <2>4. CASE Launch(p)
    BY <2>1, <2>4 DEF Launch, Answer, Goto, history
  <2>5. CASE Fail(p)
    BY <2>5 DEF Fail, Answer, Goto, history
  <2> QED BY <2>2, <2>3, <2>4, <2>5
<1>2. \A q \in Finishers : at'[q] = at[q] /\ sess'[q] = sess[q] /\ seen'[q] = seen[q]
  BY <1>p, <1>1
<1>3. \/ UNCHANGED row
      \/ \E s \in Sessions, status \in {"running", "failed"} :
            row' = [row EXCEPT ![s].status = status]
  <2>1. CASE Claim(p)
    <3>1. Least(Unused) \in Sessions
      BY <2>1, LeastIn DEF Claim, Unused
    <3> QED BY <2>1, <3>1 DEF Claim
  <2>2. CASE SetScope(p) \/ Launch(p)
    BY <2>2 DEF SetScope, Launch
  <2>3. CASE Fail(p)
    <3>1. sess[p] \in Sessions
      BY <1>p, <2>3, SessionKept DEF Fail
    <3> QED BY <2>3, <3>1 DEF Fail
  <2> QED BY <2>1, <2>2, <2>3
<1>4. \A s \in Sessions : /\ row'[s].snapshot = row[s].snapshot
                          /\ row'[s].truncated = row[s].truncated
                          /\ row'[s].status \in {"stopped", "interrupted"} => row'[s] = row[s]
  BY <1>r, <1>3
<1>5. ASSUME NEW q \in Finishers PROVE CountedBy(q)'
  <2>1. at[q] = "close" => sess[q] \in Sessions
    BY <1>p, SessionKept
  <2> QED BY <1>1, <1>2, <1>4, <2>1, CountedFrame DEF SnapshotInv, ReadIsCounted
<1>6. CountedInSnapshot'
  BY <1>1, <1>4, RowsFrame DEF SnapshotInv
<1> QED BY <1>5, <1>6 DEF SnapshotInv, ReadIsCounted

\* What finish() reads is all it counted, or more than it will keep.
LEMMA ReadEnough ==
    ASSUME HepTypeInv, NEW s, NEW n \in Nat, n <= Cardinality(Of(s))
    PROVE  LET docs == FirstOf(Of(s), SnapshotLimit + 1)
           IN  docs \subseteq stored
               /\ (n <= Cardinality(docs) \/ Cardinality(docs) > SnapshotLimit)
<1> DEFINE docs == FirstOf(Of(s), SnapshotLimit + 1)
<1>1. Of(s) \subseteq stored /\ Of(s) \subseteq Docs /\ IsFiniteSet(Of(s))
      /\ Cardinality(Of(s)) \in Nat
  BY OfSession
<1>2. docs \subseteq stored
  BY <1>1, FirstOfIn
<1>3. SnapshotLimit \in Nat /\ SnapshotLimit + 1 \in Nat
  BY HepBoundsAssumption
<1>4. CASE Cardinality(Of(s)) <= SnapshotLimit + 1
  <2>1. docs = Of(s)
    BY <1>1, <1>3, <1>4, FirstOfAll
  <2>2. n <= Cardinality(docs)
    BY <2>1
  <2> QED BY <1>2, <2>2
<1>5. CASE Cardinality(Of(s)) >= SnapshotLimit + 1
  <2>1. Cardinality(docs) >= SnapshotLimit + 1
    BY <1>1, <1>3, <1>5, FirstOfEnough
  <2>2. IsFiniteSet(docs) /\ Cardinality(docs) \in Nat
    BY <1>1, FirstOfIn, FS_Subset, FS_CardinalityType
  <2>3. Cardinality(docs) > SnapshotLimit
    <3> HIDE DEF docs
    <3> QED BY <1>3, <2>1, <2>2
  <2> QED BY <1>2, <2>3
<1> QED BY <1>1, <1>3, <1>4, <1>5

\* What is written is all that was read, or the row says that it is cut.
LEMMA WriteEnough ==
    ASSUME HepTypeInv, NEW docs, docs \subseteq stored, NEW n \in Nat,
           n <= Cardinality(docs) \/ Cardinality(docs) > SnapshotLimit
    PROVE  n <= Cardinality(FirstOf(docs, SnapshotLimit)) \/ Cardinality(docs) > SnapshotLimit
<1>1. docs \subseteq Docs /\ IsFiniteSet(docs) /\ Cardinality(docs) \in Nat
  BY FS_Subset, FS_CardinalityType DEF HepTypeInv, CollectorTyped, AllFinite
<1>2. SnapshotLimit \in Nat
  BY HepBoundsAssumption
<1>3. CASE Cardinality(docs) > SnapshotLimit
  BY <1>3
<1>4. CASE ~ (Cardinality(docs) > SnapshotLimit)
  <2>1. FirstOf(docs, SnapshotLimit) = docs
    BY <1>1, <1>2, <1>4, FirstOfAll
  <2> QED BY <1>4, <2>1
<1> QED BY <1>3, <1>4

\* The other handlers, when one of finish() makes a step.
LEMMA OthersCounted ==
    ASSUME HepTypeInv, HepTypeInv', ReadIsCounted, NEW p \in Finishers,
           UNCHANGED stored, overlap => overlap',
           \A q \in Procs \ {p} : at'[q] = at[q] /\ sess'[q] = sess[q] /\ seen'[q] = seen[q],
           \A q \in Procs \ {p} :
              at[q] = "close" /\ ~ overlap' =>
                 /\ row'[sess[q]].snapshot = row[sess[q]].snapshot
                 /\ row'[sess[q]].truncated = row[sess[q]].truncated
    PROVE  \A q \in Finishers \ {p} : CountedBy(q)'
<1> SUFFICES ASSUME NEW q \in Finishers \ {p} PROVE CountedBy(q)'
  OBVIOUS
<1>1. q \in Procs \ {p}
  BY HepParts
<1> QED BY <1>1, CountedFrame DEF ReadIsCounted

LEMMA SnapshotFinish ==
    ASSUME HepTypeInv, HepTypeInv', ScopeInv, SnapshotInv, NEW p \in Finishers,
           \/ AskStop(p) \/ Find(p) \/ ClearScope(p) \/ CountMessages(p)
           \/ ReadMessages(p) \/ WriteSnapshot(p) \/ Close(p)
    PROVE  SnapshotInv'
<1>p. /\ p \in Procs
      /\ at \in [Procs -> StarterLabels \cup FinisherLabels]
      /\ sess \in [Procs -> Sessions \cup {NoSession}]
      /\ seen \in [Procs -> SeenTyped]
      /\ seen[p].matched \in Nat
      /\ row \in [Sessions -> [status : Statuses, matched : Nat, filtered : Nat,
                               snapshot : SUBSET Docs, taken : BOOLEAN, truncated : BOOLEAN,
                               error : BOOLEAN]]
  BY HepParts DEF HepTypeInv, HandlersTyped, RowsTyped, SeenTyped
<1>c. CountedBy(p) /\ ReadIsCounted /\ CountedInSnapshot
  BY DEF SnapshotInv, ReadIsCounted
<1>s. \A q \in Procs : at[q] \notin {"idle", "find"} => sess[q] \in Sessions
  BY SessionKept
\* Where no row changes, one handler is to be looked at.
<1>u. ASSUME UNCHANGED <<row, stored>>, overlap => overlap', CountedBy(p)',
             \A q \in Procs \ {p} : at'[q] = at[q] /\ sess'[q] = sess[q] /\ seen'[q] = seen[q]
      PROVE  SnapshotInv'
  <2>1. \A q \in Finishers \ {p} : CountedBy(q)'
    BY <1>u, <1>c, OthersCounted
  <2>2. CountedInSnapshot'
    BY <1>u, <1>c, RowsFrame
  <2> QED BY <1>u, <2>1, <2>2 DEF SnapshotInv, ReadIsCounted
<1>1. CASE AskStop(p)
  <2>1. /\ UNCHANGED <<row, stored, sess, seen, overlap>> /\ at[p] = "idle"
        /\ at' = [at EXCEPT ![p] = "find"]
    BY <1>1 DEF AskStop, Goto, history
  <2>2. CountedBy(p)'
    BY <1>p, <1>c, <2>1 DEF CountedBy
  <2> QED BY <1>p, <1>u, <2>1, <2>2
<1>2. CASE Find(p)
  <2>1. UNCHANGED <<row, stored>> /\ at[p] = "find" /\ (overlap => overlap')
    <3>1. \/ UNCHANGED overlap
          \/ overlap' = (overlap \/ \E q \in Procs : sess[q] \in Running)
      BY <1>2 DEF Find
    <3>2. overlap => overlap'
      BY <3>1, Zenon
    <3> QED BY <1>2, <3>2 DEF Find
  <2>2. CASE Answer(p)
    <3>1. at'[p] = "idle" /\ seen'[p] = NoneSeen
      BY <1>p, <2>2 DEF Answer, Goto
    <3>2. CountedBy(p)'
      BY <3>1 DEF CountedBy, NoneSeen
    <3> QED BY <1>p, <1>u, <2>1, <2>2, <3>2 DEF Answer, Goto
  <2>3. CASE /\ Goto(p, "clear") /\ UNCHANGED seen
             /\ sess' = [sess EXCEPT ![p] = Least(Running)]
    <3>1. at'[p] = "clear"
      BY <1>p, <2>3 DEF Goto
    <3>2. CountedBy(p)'
      BY <1>c, <2>1, <2>3, <3>1 DEF CountedBy
    <3> QED BY <1>p, <1>u, <2>1, <2>3, <3>2 DEF Goto
  <2> QED BY <1>2, <2>2, <2>3 DEF Find
<1>3. CASE ClearScope(p)
  <2>1. /\ UNCHANGED <<row, stored, sess, overlap>> /\ at[p] = "clear"
        /\ at' = [at EXCEPT ![p] = "count"]
        /\ seen' = [seen EXCEPT ![p].filtered = count["scoped"]]
    BY <1>3 DEF ClearScope, LeaveScope, Goto, history
  <2>2. at'[p] = "count" /\ seen'[p].matched = seen[p].matched /\ seen'[p].docs = seen[p].docs
    BY <1>p, <2>1 DEF SeenTyped
  <2>3. CountedBy(p)'
    BY <1>c, <2>1, <2>2 DEF CountedBy
  <2> QED BY <1>p, <1>u, <2>1, <2>3
<1>4. CASE CountMessages(p)
  <2>1. /\ UNCHANGED <<row, stored, sess, overlap>> /\ at[p] = "count"
        /\ at' = [at EXCEPT ![p] = "read"]
        /\ seen' = seen \/ seen' = [seen EXCEPT ![p].matched = Cardinality(Of(sess[p]))]
    BY <1>4 DEF CountMessages, Goto, history
  <2>2. at'[p] = "read" /\ seen'[p].docs = seen[p].docs
    BY <1>p, <2>1 DEF SeenTyped
  <2>3. seen'[p].matched <= Cardinality(Of(sess[p]))
    <3>1. Cardinality(Of(sess[p])) \in Nat
      BY OfSession
    <3>2. CASE seen' = seen
      BY <1>c, <2>1, <3>1, <3>2 DEF CountedBy
    <3>3. CASE seen' = [seen EXCEPT ![p].matched = Cardinality(Of(sess[p]))]
      <4>1. seen'[p].matched = Cardinality(Of(sess[p]))
        BY <1>p, <3>3 DEF SeenTyped
      <4> QED BY <3>1, <4>1
    <3> QED BY <2>1, <3>2, <3>3
  <2>4. Of(sess[p])' = Of(sess[p])
    BY <2>1 DEF Of
  <2>5. CountedBy(p)'
    BY <1>c, <2>1, <2>2, <2>3, <2>4 DEF CountedBy
  <2> QED BY <1>p, <1>u, <2>1, <2>5
<1>5. CASE ReadMessages(p)
  <2> DEFINE docs == FirstOf(Of(sess[p]), SnapshotLimit + 1)
  <2>1. /\ UNCHANGED <<row, stored, sess, overlap>> /\ at[p] = "read"
        /\ \/ at' = [at EXCEPT ![p] = "write"] /\ seen' = [seen EXCEPT ![p].docs = docs]
           \/ at' = [at EXCEPT ![p] = "close"] /\ seen' = [seen EXCEPT ![p].error = TRUE]
    BY <1>5 DEF ReadMessages, ReadUpTo, Goto, history
  <2>2. /\ docs \subseteq stored
        /\ seen[p].matched <= Cardinality(docs) \/ Cardinality(docs) > SnapshotLimit
    BY <1>p, <1>c, <2>1, ReadEnough DEF CountedBy
  <2> HIDE DEF docs
  <2>3. CASE at' = [at EXCEPT ![p] = "write"] /\ seen' = [seen EXCEPT ![p].docs = docs]
    <3>1. at'[p] = "write" /\ seen'[p].docs = docs /\ seen'[p].matched = seen[p].matched
      BY <1>p, <2>3 DEF SeenTyped
    <3>2. CountedBy(p)'
      BY <2>1, <2>2, <3>1 DEF CountedBy
    <3> QED BY <1>p, <1>u, <2>1, <2>3, <3>2
  <2>4. CASE at' = [at EXCEPT ![p] = "close"] /\ seen' = [seen EXCEPT ![p].error = TRUE]
    <3>1. at'[p] = "close" /\ seen'[p].docs = seen[p].docs /\ seen'[p].error
      BY <1>p, <2>4 DEF SeenTyped
    <3>2. CountedBy(p)'
      BY <1>c, <2>1, <3>1 DEF CountedBy
    <3> QED BY <1>p, <1>u, <2>1, <2>4, <3>2
  <2> QED BY <2>1, <2>3, <2>4
<1>6. CASE WriteSnapshot(p)
  <2> DEFINE docs == FirstOf(seen[p].docs, SnapshotLimit)
             cut == Cardinality(seen[p].docs) > SnapshotLimit
             s == sess[p]
  <2>1. /\ UNCHANGED <<stored, sess, overlap>> /\ at[p] = "write" /\ s \in Sessions
        /\ at' = [at EXCEPT ![p] = "close"]
    BY <1>6, <1>s, <1>p DEF WriteSnapshot, Goto, history
  <2>2. seen[p].matched <= Cardinality(docs) \/ cut
    BY <1>p, <1>c, <2>1, WriteEnough DEF CountedBy
  <2>3. CASE row' = row /\ seen' = [seen EXCEPT ![p].error = TRUE]
    <3>1. at'[p] = "close" /\ seen'[p].docs = seen[p].docs /\ seen'[p].error
      BY <1>p, <2>1, <2>3 DEF SeenTyped
    <3>2. CountedBy(p)'
      BY <1>c, <2>1, <3>1 DEF CountedBy
    <3> QED BY <1>p, <1>u, <2>1, <2>3, <3>2
  <2>4. CASE /\ seen' = seen
             /\ row' = [row EXCEPT ![s].snapshot = docs, ![s].truncated = cut,
                                   ![s].taken = TRUE]
    <3> HIDE DEF docs, cut, s
    <3>1. /\ row'[s].snapshot = docs /\ row'[s].truncated = cut
          /\ row'[s].status = row[s].status
          /\ \A t \in Sessions \ {s} : row'[t] = row[t]
      BY <1>p, <2>1, <2>4
    <3>2. CountedBy(p)'
      <4>1. at'[p] = "close" /\ sess'[p] = s
        BY <1>p, <2>1 DEF s
      <4>2. \/ seen'[p].matched <= Cardinality(row'[sess'[p]].snapshot)
            \/ row'[sess'[p]].truncated
        BY <2>2, <2>4, <3>1, <4>1
      <4> QED BY <1>c, <2>1, <2>4, <4>1, <4>2 DEF CountedBy
    <3>3. ASSUME NEW q \in Procs \ {p}, at[q] = "close", ~ overlap
          PROVE  /\ row'[sess[q]].snapshot = row[sess[q]].snapshot
                 /\ row'[sess[q]].truncated = row[sess[q]].truncated
      <4>1. sess[q] \in Sessions /\ sess[q] # NoSession
        BY <1>s, <3>3, HepParts
      <4>2. sess[q] # s
        BY <1>p, <3>3, <4>1 DEF ScopeInv, OneWorks, s
      <4> QED BY <3>1, <4>1, <4>2
    <3>4. \A q \in Finishers \ {p} : CountedBy(q)'
      BY <1>p, <1>c, <2>1, <2>4, <3>3, OthersCounted
    <3>5. CountedInSnapshot'
      <4>1. ASSUME ~ overlap PROVE row[s].status = "running"
        BY <1>p, <2>1, <4>1, HepParts DEF ScopeInv, OneWorks, Running, s
      <4> QED BY <1>c, <2>1, <3>1, <4>1 DEF CountedInSnapshot
    <3> QED BY <3>2, <3>4, <3>5 DEF SnapshotInv, ReadIsCounted
  <2> QED BY <1>6, <2>3, <2>4 DEF WriteSnapshot
<1>7. CASE Close(p)
  <2> DEFINE s == sess[p]
  <2>1. /\ UNCHANGED <<stored, overlap>> /\ at[p] = "close" /\ s \in Sessions /\ Answer(p)
    BY <1>7, <1>s, <1>p DEF Close, history
  <2>2. CountedBy(p)'
    <3>1. at'[p] = "idle" /\ seen'[p] = NoneSeen
      BY <1>p, <2>1 DEF Answer, Goto
    <3> QED BY <3>1 DEF CountedBy, NoneSeen
  <2>3. CASE row' = row
    BY <1>p, <1>u, <2>1, <2>2, <2>3 DEF Answer, Goto
  <2>4. CASE row' # row
    <3>1. PICK status \in Statuses, error \in BOOLEAN :
              /\ row' = [row EXCEPT ![s].status = status, ![s].matched = seen[p].matched,
                                    ![s].filtered = seen[p].filtered, ![s].error = error]
              /\ seen[p].error => error
      <4> DEFINE error == row[s].error \/ seen[p].error
      <4>1. error \in BOOLEAN /\ (seen[p].error => error)
        OBVIOUS
      <4>2. \E status \in Statuses :
               row' = [row EXCEPT ![s].status = status, ![s].matched = seen[p].matched,
                                  ![s].filtered = seen[p].filtered, ![s].error = error]
        BY <1>7, <2>4 DEF Close, Statuses
      <4> HIDE DEF error
      <4> QED BY <4>1, <4>2
    <3> HIDE DEF s
    <3>2. /\ row'[s].snapshot = row[s].snapshot /\ row'[s].truncated = row[s].truncated
          /\ row'[s].matched = seen[p].matched /\ row'[s].error = error
          /\ \A t \in Sessions \ {s} : row'[t] = row[t]
      BY <1>p, <2>1, <3>1
    <3>3. \A q \in Finishers \ {p} : CountedBy(q)'
      <4>1. \A q \in Procs \ {p} :
               at'[q] = at[q] /\ sess'[q] = sess[q] /\ seen'[q] = seen[q]
        BY <1>p, <2>1 DEF Answer, Goto
      <4>2. \A q \in Procs \ {p} : at[q] = "close" =>
               /\ row'[sess[q]].snapshot = row[sess[q]].snapshot
               /\ row'[sess[q]].truncated = row[sess[q]].truncated
        BY <1>s, <3>2
      <4> QED BY <1>c, <2>1, <4>1, <4>2, OthersCounted
    <3>4. CountedInSnapshot'
      <4>1. ~ overlap => \/ row'[s].matched <= Cardinality(row'[s].snapshot)
                         \/ row'[s].truncated \/ row'[s].error
        BY <1>c, <2>1, <3>1, <3>2 DEF CountedBy, s
      <4> QED BY <1>c, <2>1, <3>2, <4>1 DEF CountedInSnapshot
    <3> QED BY <2>2, <3>3, <3>4 DEF SnapshotInv, ReadIsCounted
  <2> QED BY <2>3, <2>4
<1> QED BY <1>1, <1>2, <1>3, <1>4, <1>5, <1>6, <1>7

LEMMA SnapshotStep ==
    ASSUME ScopedInv, HepTypeInv', SnapshotInv, [HepNext]_hepVars
    PROVE  SnapshotInv'
<1>t. HepTypeInv /\ ScopeInv /\ stored \subseteq stored'
  BY StoredGrows DEF ScopedInv, HepInv
<1> USE DEF history, handlers
<1>1. ASSUME NEW m \in Datagrams, Datagram(m) PROVE SnapshotInv'
  BY <1>1, <1>t, DatagramEffect, SnapshotRest
<1>2. CASE Tick \/ SetKeepalives \/ Sigterm \/ Disconnect
  <2>1. UNCHANGED <<row, at, sess, seen, overlap>>
    BY <1>2 DEF Tick, SetKeepalives, Sigterm, Disconnect
  <2> QED BY <1>t, <2>1, SnapshotRest
<1>3. ASSUME NEW b \in flights, Inserted(b) PROVE SnapshotInv'
  <2>1. UNCHANGED <<row, at, sess, seen, overlap>>
    BY <1>3 DEF Inserted, InsertEnds, InsertFails
  <2> QED BY <1>t, <2>1, SnapshotRest
<1>4. CASE Exit \/ Crash
  BY <1>4, <1>t, SnapshotRest DEF Exit, Crash
<1>5. CASE UNCHANGED hepVars
  <2>1. UNCHANGED <<row, at, sess, seen, overlap>>
    BY <1>5 DEF hepVars
  <2> QED BY <1>t, <2>1, SnapshotRest
<1>6. ASSUME NEW p \in Starters, Claim(p) \/ SetScope(p) \/ Launch(p) \/ Fail(p)
      PROVE  SnapshotInv'
  BY <1>6, <1>t, SnapshotStart
<1>7. ASSUME NEW p \in Finishers,
             \/ AskStop(p) \/ Find(p) \/ ClearScope(p) \/ CountMessages(p)
             \/ ReadMessages(p) \/ WriteSnapshot(p) \/ Close(p)
      PROVE  SnapshotInv'
  BY <1>7, <1>t, SnapshotFinish
<1> QED BY <1>1, <1>2, <1>3, <1>4, <1>5, <1>6, <1>7, HepParts DEF HepNext, Step

(* What a closed session says it matched is in its snapshot, or the row or *)
(* the snapshot says why not, unless two stops overlapped                  *)
(* (call-debug-session.ts:366-387).                                        *)
THEOREM SnapshotTheorem == HepSpec => []CountedInSnapshot
<1>1. HepInit => SnapshotInv
  BY SnapshotInit
<1>2. ScopedInv /\ ScopedInv' /\ SnapshotInv /\ [HepNext]_hepVars => SnapshotInv'
  BY SnapshotStep DEF ScopedInv, HepInv
<1>3. SnapshotInv => CountedInSnapshot
  BY DEF SnapshotInv
<1> QED BY <1>1, <1>2, <1>3, ScopedInvariant, PTL DEF HepSpec
=============================================================================
