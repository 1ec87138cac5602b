----------------------- MODULE Subscribers_proofs -----------------------
(***************************************************************************)
(* Proofs about the two components that act on single subscribers.         *)
(*                                                                         *)
(* AutoAssign: type correctness, that no two subscribers hold the same     *)
(* number in the sessions a run looks at, that no number is taken away but *)
(* by an edit or a replacement, and that an undisturbed run serves         *)
(* everybody, unless the pool is spoiled, for any number of subscribers,   *)
(* numbers, runs, edits and failures.                                      *)
(*                                                                         *)
(* UeBlock: type correctness, and that the address the table has for a     *)
(* blocked UE is one it is dropped on, unless a move or a deletion of its  *)
(* rules was disturbed, for any number of passes, UEs, addresses, failures *)
(* and restarts.                                                           *)
(***************************************************************************)
EXTENDS AutoAssign, UeBlock, FiniteSetTheorems, TLAPS

-----------------------------------------------------------------------------
(* The automatic assignment *)

(* A subscriber without the session has no number, now or in a list.       *)
LackingHaveNone ==
    \A x \in Lacking :
        /\ held[x[1]][x[2]] = NoNumber
        /\ \A r \in Runs : seen[r][x[1]][x[2]] = NoNumber

(* In a pool that is not spoiled one run at a time is at work.             *)
OneClaim ==
    \A p \in Slots \ spoiled, r, q \in Runs :
        Active(r) /\ Active(q) /\ p \in job[r].pools /\ p \in job[q].pools => r = q

(* The subscribers a run has been through.                                 *)
Passed(r, u, p) ==
    /\ u < at[r] /\ u \in job[r].scope
    /\ p \in job[r].over \/ seen[r][u][p] = NoNumber

Same(r, u, p) == held[u][p] = seen[r][u][p]

(* The list of a run tells the truth about every subscriber it has not     *)
(* been through, and the others hold numbers below its cursor.             *)
ListTrue ==
    \A r \in Runs, p \in Slots \ spoiled, u \in Subs :
        /\ phase[r] = p =>
              IF Passed(r, u, p)
              THEN held[u][p] = NoNumber \/ held[u][p] < cursor[r]
              ELSE Same(r, u, p)
        /\ phase[r] = "internet" /\ p = "ims" /\ p \in job[r].pools => Same(r, u, p)
        /\ phase[r] = "bulk" /\ p \in SliceSlots \ job[r].over => Same(r, u, p)

(***************************************************************************)
(* Type correctness.                                                       *)
(***************************************************************************)

LEMMA SlotFacts ==
    /\ Pools \subseteq Slots /\ SliceSlots \subseteq Slots
    /\ SlicePools \subseteq Pools /\ SlicePools \subseteq SliceSlots
    /\ \A p \in Pools : p \in SliceSlots <=> p \in SlicePools
BY DEF Slots, SliceSlots, SlicePools, Pools

\* Both ends of a range are inside what was asked for, and inside the
\* profile's range where that is known.
LEMMA RangeHolds ==
    ASSUME NEW j \in Requests \cup {NoJob}, NEW p \in Pools, NEW c \in BOOLEAN
    PROVE  /\ Lo(j, p, c) >= j.lo[p] /\ (c => Lo(j, p, c) >= Dynamic[p].lo)
           /\ Hi(j, p, c) <= j.hi[p] /\ (c => Hi(j, p, c) <= Dynamic[p].hi)
           /\ {Lo(j, p, c), Hi(j, p, c), j.lo[p], j.hi[p]} \subseteq Nat
<1>1. j.lo[p] \in Nat /\ j.hi[p] \in Nat
  <2>1. CASE j = NoJob
    BY <2>1 DEF NoJob
  <2>2. CASE j \in Requests
    <3>1. j.lo \in [Pools -> Numbers] /\ j.hi \in [Pools -> Numbers]
      BY <2>2, JobAssumption DEF Jobs
    <3> QED BY <3>1, SizeAssumption DEF Numbers
  <2> QED BY <2>1, <2>2
<1>2. Dynamic[p].lo \in Nat /\ Dynamic[p].hi \in Nat
  BY PoolAssumption
<1> QED BY <1>1, <1>2 DEF Lo, Hi

\* What the requests and the ranges are, from the assumptions.
LEMMA JobTypes ==
    /\ \A j \in Requests :
          /\ j.kind \in {"assign", "bulk"} /\ j # NoJob
          /\ j.pools \subseteq Slots /\ j.scope \subseteq Subs /\ j.over \subseteq j.pools
          /\ j.kind = "bulk" => j.pools = SliceSlots
          /\ j.kind = "assign" => j.pools \in {{"internet"}, SlicePools, {"msisdn"}}
    /\ \A j \in Requests \cup {NoJob}, p \in Pools, c \in BOOLEAN : Lo(j, p, c) \in Nat
    /\ NoJob.kind = "none" /\ NoJob.pools = {} /\ NoJob.over = {} /\ NoJob.scope = {}
<1>1. \A j \in Requests :
          /\ j.kind \in {"assign", "bulk"}
          /\ j.pools \subseteq Slots /\ j.scope \subseteq Subs /\ j.over \subseteq j.pools
          /\ j.kind = "bulk" => j.pools = SliceSlots
          /\ j.kind = "assign" => j.pools \in {{"internet"}, SlicePools, {"msisdn"}}
  BY JobAssumption DEF Jobs
<1>2. NoJob.kind = "none" /\ NoJob.pools = {} /\ NoJob.over = {} /\ NoJob.scope = {}
  BY DEF NoJob
<1>3. \A j \in Requests : j # NoJob
  BY <1>1, <1>2
<1>4. \A j \in Requests \cup {NoJob}, p \in Pools, c \in BOOLEAN : Lo(j, p, c) \in Nat
  BY RangeHolds
<1> QED BY <1>1, <1>2, <1>3, <1>4

LEMMA TypeInit == Init => TypeOK
<1> SUFFICES ASSUME Init PROVE TypeOK
  OBVIOUS
<1>1. held \in [Subs -> [Slots -> Numbers \cup {NoNumber}]]
  BY HeldAssumption DEF Init
<1>a. 0 \in 0..MaxRuns /\ 0 \in 0..MaxEdits /\ 0 \in 0..MaxTroubles
  BY SizeAssumption
<1>b. \A r \in Runs : AtItsPool(r)
  BY JobTypes DEF Init, Pools, Slots, SliceSlots, AtItsPool
<1>2. Empty \in [Subs -> [Slots -> Numbers \cup {NoNumber}]]
  BY DEF Empty
<1>3. 1 \in 1..(N + 1)
  BY SizeAssumption
<1> QED BY <1>1, <1>a, <1>b, <1>2, <1>3 DEF Init, TypeOK

\* A run that stops keeps the types.
LEMMA TypeStop ==
    ASSUME TypeOK, NEW r \in Runs, Stop(r)
    PROVE  /\ phase' \in [Runs -> Pools \cup {"bulk", "idle"}]
           /\ job' \in [Runs -> Requests \cup {NoJob}]
           /\ \A q \in Runs : AtItsPool(q)'
           /\ seen' \in [Runs -> [Subs -> [Slots -> Numbers \cup {NoNumber}]]]
           /\ at' \in [Runs -> 1..(N + 1)]
           /\ cursor' \in [Runs -> Nat]
           /\ clamped' \in [Runs -> BOOLEAN] /\ clean' \in [Runs -> BOOLEAN]
<1>1. Empty \in [Subs -> [Slots -> Numbers \cup {NoNumber}]]
  BY DEF Empty
<1>2. 1 \in 1..(N + 1)
  BY SizeAssumption
<1>3. ASSUME NEW q \in Runs PROVE AtItsPool(q)'
  <2>1. CASE q = r
    <3>1. phase'[q] = "idle" /\ job'[q] = NoJob
      BY <2>1 DEF Stop, TypeOK
    <3> QED BY <3>1, JobTypes DEF AtItsPool, Pools, Slots, SliceSlots
  <2>2. CASE q # r
    <3>1. phase'[q] = phase[q] /\ job'[q] = job[q]
      BY <2>2 DEF Stop, TypeOK
    <3> QED BY <3>1 DEF AtItsPool, TypeOK
  <2> QED BY <2>1, <2>2
<1> QED BY <1>1, <1>2, <1>3 DEF Stop, TypeOK

LEMMA LookUpTyped ==
    ASSUME TypeOK, NEW p, NEW c, LooksUp(p, c) PROVE troubles' \in 0..MaxTroubles
BY SizeAssumption DEF TypeOK, LooksUp, Trouble

\* A run that stops, or goes on to the IMS pool, keeps the types.
LEMMA TypeNextPhase ==
    ASSUME TypeOK, NEW r \in Runs, NextPhase(r), Active(r),
           UNCHANGED <<held, runs, edits>>, spoiled' \subseteq Slots
    PROVE  TypeOK'
<1>1. Empty \in [Subs -> [Slots -> Numbers \cup {NoNumber}]]
  BY DEF Empty
<1>2. 1 \in 1..(N + 1)
  BY SizeAssumption
<1>3. CASE phase[r] = "internet" /\ "ims" \in job[r].pools
  <2>1. \A c \in BOOLEAN : Lo(job[r], "ims", c) \in Nat
    BY JobTypes DEF TypeOK, Pools, Slots, SliceSlots
  <2>2. ASSUME NEW q \in Runs PROVE AtItsPool(q)'
    <3>1. CASE q = r
      <4>1. phase'[q] = "ims" /\ job'[q] = job[q]
        BY <1>3, <3>1 DEF NextPhase, TypeOK
      <4> QED BY <1>3, <3>1, <4>1 DEF AtItsPool, TypeOK, Pools, Slots, SliceSlots
    <3>2. CASE q # r
      <4>1. phase'[q] = phase[q] /\ job'[q] = job[q]
        BY <1>3, <3>2 DEF NextPhase, TypeOK
      <4> QED BY <4>1 DEF AtItsPool, TypeOK
    <3> QED BY <3>1, <3>2
  <2>3. phase' \in [Runs -> Pools \cup {"bulk", "idle"}]
    BY <1>3 DEF NextPhase, TypeOK, Pools, Slots, SliceSlots
  <2>4. PICK c \in BOOLEAN :
          /\ at' = [at EXCEPT ![r] = 1] /\ cursor' = [cursor EXCEPT ![r] = Lo(job[r], "ims", c)]
          /\ clean' = [clean EXCEPT ![r] = TRUE] /\ clamped' = [clamped EXCEPT ![r] = c]
          /\ LooksUp("ims", c) /\ UNCHANGED <<job, seen>>
    BY <1>3 DEF NextPhase
  <2>5. at' \in [Runs -> 1..(N + 1)] /\ cursor' \in [Runs -> Nat]
    BY <1>2, <2>1, <2>4 DEF TypeOK
  <2>6. clean' \in [Runs -> BOOLEAN] /\ clamped' \in [Runs -> BOOLEAN]
    BY <2>4 DEF TypeOK
  <2>7. troubles' \in 0..MaxTroubles
    BY <2>4, LookUpTyped
  <2> QED BY <2>2, <2>3, <2>4, <2>5, <2>6, <2>7 DEF TypeOK
<1>4. CASE ~(phase[r] = "internet" /\ "ims" \in job[r].pools)
  <2>1. Stop(r) /\ UNCHANGED troubles
    BY <1>4 DEF NextPhase
  <2> QED BY <2>1, TypeStop DEF TypeOK
<1> QED BY <1>3, <1>4

LEMMA TypeNext == TypeOK /\ [Next]_vars => TypeOK'
<1> SUFFICES ASSUME TypeOK, [Next]_vars PROVE TypeOK'
  OBVIOUS
<1>1. Empty \in [Subs -> [Slots -> Numbers \cup {NoNumber}]]
  BY DEF Empty
<1>2. 1 \in 1..(N + 1) /\ \A u \in Subs : u + 1 \in 1..(N + 1)
  BY SizeAssumption DEF Subs
<1>3. ASSUME NEW r \in Runs, NEW j \in Requests, List(r, j) PROVE TypeOK'
  <2>1. FirstPhase(j) \in Pools \cup {"bulk"}
    BY DEF FirstPhase, Pools, Slots, SliceSlots
  <2>2. FirstPhase(j) = "bulk" <=> j.kind = "bulk"
    BY DEF FirstPhase
  <2>3. FirstPhase(j) \in Pools => FirstPhase(j) \in j.pools
    BY JobTypes DEF FirstPhase, Pools, Slots, SliceSlots, SlicePools
  <2>4. \A c \in BOOLEAN : (IF j.kind = "bulk" THEN 0 ELSE Lo(j, FirstPhase(j), c)) \in Nat
    BY <2>1, <2>2, JobTypes
  <2>5. spoiled' \subseteq Slots
    BY <1>3, JobTypes DEF List, TypeOK
  <2>6. ASSUME NEW q \in Runs PROVE AtItsPool(q)'
    <3>1. CASE q = r
      <4>1. phase'[q] = FirstPhase(j) /\ job'[q] = j
        BY <1>3, <3>1 DEF List, TypeOK
      <4> QED BY <2>1, <2>2, <2>3, <4>1, JobTypes DEF AtItsPool, Pools, Slots, SliceSlots
    <3>2. CASE q # r
      <4>1. phase'[q] = phase[q] /\ job'[q] = job[q]
        BY <1>3, <3>2 DEF List, TypeOK
      <4> QED BY <4>1 DEF AtItsPool, TypeOK
    <3> QED BY <3>1, <3>2
  <2>7. PICK c \in BOOLEAN :
          /\ LooksUp(FirstPhase(j), c) /\ clamped' = [clamped EXCEPT ![r] = c]
          /\ cursor' = [cursor EXCEPT ![r] =
                           IF j.kind = "bulk" THEN 0 ELSE Lo(j, FirstPhase(j), c)]
    BY <1>3 DEF List
  <2>8. cursor' \in [Runs -> Nat] /\ clamped' \in [Runs -> BOOLEAN]
    BY <2>4, <2>7 DEF TypeOK
  <2>9. troubles' \in 0..MaxTroubles
    BY <2>7, LookUpTyped
  <2> QED BY <1>2, <1>3, <2>1, <2>5, <2>6, <2>8, <2>9, SizeAssumption DEF List, TypeOK
<1>4. ASSUME NEW r \in Runs, Give(r) PROVE TypeOK'
  BY SlotFacts, <1>2, <1>4, SizeAssumption DEF Give, TypeOK, AtItsPool, Numbers
<1>5. ASSUME NEW r \in Runs, GiveFails(r) PROVE TypeOK'
  <2>1. PICK u \in Subs, n \in Numbers :
           /\ phase[r] \in Pools /\ Trouble
           /\ IF phase[r] = "msisdn"
              THEN /\ Stop(r)
                   /\ spoiled' = spoiled \cup LeftOff(r)
              ELSE /\ at' = [at EXCEPT ![r] = u + 1]
                   /\ cursor' = [cursor EXCEPT ![r] = n + 1]
                   /\ clean' = [clean EXCEPT ![r] = FALSE]
                   /\ spoiled' = spoiled \cup {p \in {phase[r]} : KeepsNumber(r, u)}
                   /\ UNCHANGED <<phase, job, seen, clamped>>
           /\ UNCHANGED <<held, runs, edits>>
    BY <1>5 DEF GiveFails
  <2>2. troubles' \in 0..MaxTroubles
    BY <2>1, SizeAssumption DEF Trouble, TypeOK
  <2>3. CASE phase[r] = "msisdn"
    <3>1. spoiled' \subseteq Slots
      BY SlotFacts, <2>1, <2>3 DEF LeftOff, TypeOK
    <3> QED BY <2>1, <2>2, <2>3, <3>1, TypeStop DEF TypeOK
  <2>4. CASE phase[r] # "msisdn"
    <3>1. spoiled' \subseteq Slots
      BY SlotFacts, <2>1, <2>4 DEF TypeOK
    <3>2. n + 1 \in Nat
      BY SizeAssumption DEF Numbers
    <3> QED BY <1>2, <2>1, <2>2, <2>4, <3>1, <3>2 DEF TypeOK, AtItsPool
  <2> QED BY <2>3, <2>4
<1>6. ASSUME NEW r \in Runs, Exhausted(r) PROVE TypeOK'
  <2>1. spoiled' \subseteq Slots /\ Active(r)
    BY <1>6 DEF Exhausted, LeftOff, TypeOK, Active, SlicePools, Pools, Slots, SliceSlots
  <2>2. NextPhase(r) /\ UNCHANGED <<held, runs, edits>>
    BY <1>6 DEF Exhausted
  <2> QED BY <2>1, <2>2, TypeNextPhase
<1>7. ASSUME NEW r \in Runs, PhaseDone(r) PROVE TypeOK'
  <2>1. /\ NextPhase(r) /\ Active(r) /\ spoiled' \subseteq Slots
        /\ UNCHANGED <<held, runs, edits>>
    BY <1>7 DEF PhaseDone, TypeOK
  <2> QED BY <2>1, TypeNextPhase
<1>8. ASSUME NEW r \in Runs, WriteBack(r) PROVE TypeOK'
  BY <1>2, <1>8 DEF WriteBack, TypeOK, AtItsPool
<1>9. ASSUME NEW r \in Runs, WriteBackFails(r) PROVE TypeOK'
  BY <1>2, <1>9, SizeAssumption DEF WriteBackFails, Trouble, TypeOK, AtItsPool
<1>10. ASSUME NEW u \in Subs, NEW p \in Slots, NEW n \in Numbers \cup {NoNumber},
              Edit(u, p, n)
       PROVE  TypeOK'
  BY <1>10, SizeAssumption DEF Edit, local, TypeOK, AtItsPool
<1>11. CASE Restart
  <2>1. UNION {LeftOff(r) : r \in Runs} \subseteq Slots
    <3>1. ASSUME NEW r \in Runs PROVE LeftOff(r) \subseteq Slots
      <4>1. job[r].over \subseteq Slots
        BY JobTypes DEF TypeOK
      <4> QED BY <4>1 DEF LeftOff
    <3> QED BY <3>1
  <2>2. \A q \in Runs : AtItsPool(q)'
    BY <1>11, JobTypes DEF Restart, AtItsPool, Pools, Slots, SliceSlots
  <2>3. troubles' \in 0..MaxTroubles
    BY <1>11, SizeAssumption DEF Restart, Trouble, TypeOK
  <2> QED BY <1>1, <1>2, <1>11, <2>1, <2>2, <2>3 DEF Restart, TypeOK
<1>12. CASE UNCHANGED vars
  BY <1>12 DEF vars, local, TypeOK, AtItsPool
<1> QED BY <1>3, <1>4, <1>5, <1>6, <1>7, <1>8, <1>9, <1>10, <1>11, <1>12
        DEF Next, RunStep

(* Every variable keeps its type, for any number of subscribers, numbers,  *)
(* runs, edits and failures.                                               *)
THEOREM TypeCorrect == Spec => []TypeOK
<1> QED BY TypeInit, TypeNext, PTL DEF Spec

(***************************************************************************)
(* Distinct.  By itself it is not inductive: what a run gives is new only  *)
(* if its list is still true, and the list is true only while nothing else *)
(* writes the pool.                                                        *)
(***************************************************************************)

IInv == TypeOK /\ LackingHaveNone /\ OneClaim /\ ListTrue /\ Distinct

\* Nothing changes for run q.
Same4(q) ==
    /\ phase'[q] = phase[q] /\ job'[q] = job[q] /\ seen'[q] = seen[q]
    /\ at'[q] = at[q] /\ cursor'[q] = cursor[q]

LEMMA InvInit == Init => IInv
<1> SUFFICES ASSUME Init PROVE IInv
  OBVIOUS
<1>1. TypeOK
  BY TypeInit
<1>2. LackingHaveNone
  BY HeldAssumption, PoolAssumption DEF Init, LackingHaveNone, Empty
<1>3. OneClaim
  BY DEF Init, OneClaim, Active
<1>4. ListTrue
  BY DEF Init, ListTrue, Pools, Slots, SliceSlots
<1>5. Distinct
  BY HeldAssumption DEF Init, Distinct, AllDistinct
<1> QED BY <1>1, <1>2, <1>3, <1>4, <1>5 DEF IInv

\* A run that stops, when nothing is left that it was about to replace.
LEMMA InvStop ==
    ASSUME IInv, NEW r \in Runs, Stop(r), held' = held,
           spoiled \subseteq spoiled',
           \A p \in Pools \ spoiled', u \in Subs :
               Pending(r, u, p) => held[u][p] = NoNumber
    PROVE  LackingHaveNone' /\ OneClaim' /\ ListTrue' /\ Distinct'
<1> USE DEF IInv
<1>1. /\ phase'[r] = "idle" /\ job'[r] = NoJob /\ seen'[r] = Empty
      /\ \A q \in Runs \ {r} : Same4(q)
  BY DEF Stop, TypeOK, Same4
<1>2. LackingHaveNone'
  <2> SUFFICES ASSUME NEW x \in Lacking
               PROVE  /\ held'[x[1]][x[2]] = NoNumber
                      /\ \A q \in Runs : seen'[q][x[1]][x[2]] = NoNumber
    BY DEF LackingHaveNone
  <2>1. x[1] \in Subs /\ x[2] \in Slots
    BY PoolAssumption
  <2>2. seen'[r][x[1]][x[2]] = NoNumber
    BY <1>1, <2>1 DEF Empty
  <2> QED BY <1>1, <2>2 DEF LackingHaveNone, Same4
<1>3. OneClaim'
  BY <1>1 DEF OneClaim, Active, Same4
<1>4. ListTrue'
  <2> SUFFICES ASSUME NEW q \in Runs, NEW p \in Slots \ spoiled', NEW u \in Subs
      PROVE  /\ phase'[q] = p =>
                    IF Passed(q, u, p)'
                    THEN held'[u][p] = NoNumber \/ held'[u][p] < cursor'[q]
                    ELSE Same(q, u, p)'
             /\ phase'[q] = "internet" /\ p = "ims" /\ p \in job'[q].pools => Same(q, u, p)'
             /\ phase'[q] = "bulk" /\ p \in SliceSlots \ job'[q].over => Same(q, u, p)'
    BY DEF ListTrue
  <2>1. CASE q = r
    BY <1>1, <2>1 DEF Pools, Slots, SliceSlots
  <2>2. CASE q # r
    BY <1>1, <2>2 DEF ListTrue, Same4, Passed, Same
  <2> QED BY <2>1, <2>2
<1>5. Distinct'
  <2> SUFFICES ASSUME NEW p \in Pools \ spoiled', NEW u \in Subs, NEW v \in Subs,
                      u # v, held[u][p] # NoNumber, held[u][p] = held[v][p]
               PROVE  \E q \in Runs : Pending(q, u, p)' \/ Pending(q, v, p)'
    BY DEF Distinct
  <2>1. PICK q \in Runs : Pending(q, u, p) \/ Pending(q, v, p)
    BY DEF Distinct
  <2>2. q # r
    BY <2>1
  <2> QED BY <1>1, <2>1, <2>2 DEF Pending, Same4
<1> QED BY <1>2, <1>3, <1>4, <1>5

\* The same for the end of a phase.
LEMMA InvNextPhase ==
    ASSUME IInv, NEW r \in Runs, NextPhase(r), held' = held,
           spoiled \subseteq spoiled',
           \A p \in Pools \ spoiled', u \in Subs :
               Pending(r, u, p) => held[u][p] = NoNumber
    PROVE  LackingHaveNone' /\ OneClaim' /\ ListTrue' /\ Distinct'
<1>1. CASE ~(phase[r] = "internet" /\ "ims" \in job[r].pools)
  BY <1>1, InvStop DEF NextPhase
<1>2. CASE phase[r] = "internet" /\ "ims" \in job[r].pools
  <2> USE DEF IInv
  <2>1. /\ phase'[r] = "ims" /\ job' = job /\ seen' = seen /\ at'[r] = 1
        /\ \A q \in Runs \ {r} : Same4(q)
    BY <1>2 DEF NextPhase, TypeOK, Same4
  <2>2. LackingHaveNone'
    BY <2>1 DEF LackingHaveNone
  <2>3. \A q \in Runs : Active(q)' <=> Active(q)
    BY <1>2, <2>1 DEF Active, Same4
  <2>4. OneClaim'
    BY <2>1, <2>3 DEF OneClaim
  <2>5. ListTrue'
    <3> SUFFICES ASSUME NEW q \in Runs, NEW p \in Slots \ spoiled', NEW u \in Subs
        PROVE  /\ phase'[q] = p =>
                      IF Passed(q, u, p)'
                      THEN held'[u][p] = NoNumber \/ held'[u][p] < cursor'[q]
                      ELSE Same(q, u, p)'
               /\ phase'[q] = "internet" /\ p = "ims" /\ p \in job'[q].pools => Same(q, u, p)'
               /\ phase'[q] = "bulk" /\ p \in SliceSlots \ job'[q].over => Same(q, u, p)'
      BY DEF ListTrue
    <3>1. CASE q = r
      <4>1. p = "ims" => Same(r, u, p)
        BY <1>2 DEF ListTrue
      <4>2. ~Passed(r, u, p)'
        BY <2>1, SizeAssumption DEF Passed, Subs
      <4> QED BY <2>1, <3>1, <4>1, <4>2 DEF Same
    <3>2. CASE q # r
      BY <2>1, <3>2 DEF ListTrue, Same4, Passed, Same
    <3> QED BY <3>1, <3>2
  <2>6. Distinct'
    <3> SUFFICES ASSUME NEW p \in Pools \ spoiled', NEW u \in Subs, NEW v \in Subs,
                        u # v, held[u][p] # NoNumber, held[u][p] = held[v][p]
                 PROVE  \E q \in Runs : Pending(q, u, p)' \/ Pending(q, v, p)'
      BY DEF Distinct
    <3>1. PICK q \in Runs : Pending(q, u, p) \/ Pending(q, v, p)
      BY DEF Distinct
    <3>2. q # r
      BY <3>1
    <3> QED BY <2>1, <3>1, <3>2 DEF Pending, Same4
  <2> QED BY <2>2, <2>4, <2>5, <2>6
<1> QED BY <1>1, <1>2

\* What a run that leaves off marks is all it could still leave twice.
LEMMA LeftOffCovers ==
    ASSUME IInv, NEW r \in Runs, NEW p \in Pools \ spoiled, p \notin LeftOff(r),
           NEW u \in Subs, Pending(r, u, p)
    PROVE  held[u][p] = NoNumber
<1> USE DEF IInv
<1>1. phase[r] = p /\ p \in job[r].over /\ u \in job[r].scope /\ u >= at[r]
  BY DEF Pending
<1>2. seen[r][u][p] = NoNumber
  BY <1>1 DEF LeftOff
<1>3. ~Passed(r, u, p)
  BY <1>1 DEF Passed, TypeOK, Subs
<1> QED BY SlotFacts, <1>1, <1>2, <1>3 DEF ListTrue, Same

\* Who comes before the next subscriber, and is still to be looked at, has
\* a number that stays, or none.
LEMMA SkippedHaveNone ==
    ASSUME IInv, NEW r \in Runs, phase[r] \in Pools, NEW u \in Subs, IsNext(r, u),
           NEW w \in Subs, w >= at[r], w < u, w \in job[r].scope,
           phase[r] \in job[r].over \/ seen[r][w][phase[r]] = NoNumber
    PROVE  held[w][phase[r]] = NoNumber
<1>1. <<w, phase[r]>> \in Lacking
  BY DEF IsNext, Due
<1> QED BY <1>1 DEF IInv, LackingHaveNone

\* A pool that r is at work in, and that is not spoiled, is nobody else's.
LEMMA NobodyElse ==
    ASSUME IInv, NEW r \in Runs, NEW q \in Runs \ {r}, NEW p \in Slots \ spoiled,
           Active(r), p \in job[r].pools
    PROVE  /\ phase[q] # p
           /\ ~(phase[q] = "internet" /\ p \in job[q].pools)
           /\ ~(phase[q] = "bulk" /\ p \in SliceSlots)
<1>1. ~(Active(q) /\ p \in job[q].pools)
  BY DEF IInv, OneClaim
<1>2. AtItsPool(q) /\ job[q] \in Requests \cup {NoJob}
  BY DEF IInv, TypeOK
<1>t. phase[q] = p => p \in Pools /\ p # "idle"
  <2>1. phase[q] \in Pools \cup {"bulk", "idle"}
    BY DEF IInv, TypeOK
  <2> QED BY <2>1 DEF Slots, Pools
<1>3. phase[q] = p => Active(q) /\ p \in job[q].pools
  BY <1>2, <1>t DEF AtItsPool, Active
<1>4. phase[q] = "bulk" => Active(q) /\ job[q].pools = SliceSlots
  BY <1>2, JobTypes DEF AtItsPool, Active
<1> QED BY <1>1, <1>3, <1>4 DEF Active

LEMMA InvList ==
    ASSUME IInv, NEW r \in Runs, NEW j \in Requests, List(r, j)
    PROVE  LackingHaveNone' /\ OneClaim' /\ ListTrue' /\ Distinct'
<1> USE DEF IInv
<1>1. /\ phase[r] = "idle" /\ held' = held
      /\ job'[r] = j /\ seen'[r] = held /\ at'[r] = 1
      /\ spoiled' = spoiled \cup {p \in j.pools : Shared(r, p)}
      /\ \A q \in Runs \ {r} : Same4(q)
  BY DEF List, TypeOK, Same4, Active
<1>2. LackingHaveNone'
  BY <1>1 DEF LackingHaveNone, Same4
<1>3. OneClaim'
  <2> SUFFICES ASSUME NEW p \in Slots \ spoiled', NEW a \in Runs, NEW b \in Runs,
                      Active(a)', Active(b)', p \in job'[a].pools, p \in job'[b].pools,
                      a # b
               PROVE  FALSE
    BY DEF OneClaim
  <2>1. p \notin spoiled /\ ~(p \in j.pools /\ Shared(r, p))
    BY <1>1
  <2>2. CASE a # r /\ b # r
    BY <1>1, <2>1, <2>2 DEF OneClaim, Active, Same4
  <2>3. CASE a = r
    BY <1>1, <2>1, <2>3 DEF Shared, Active, Same4
  <2>4. CASE b = r
    BY <1>1, <2>1, <2>4 DEF Shared, Active, Same4
  <2> QED BY <2>2, <2>3, <2>4
<1>4. ListTrue'
  <2> SUFFICES ASSUME NEW q \in Runs, NEW p \in Slots \ spoiled', NEW u \in Subs
      PROVE  /\ phase'[q] = p =>
                    IF Passed(q, u, p)'
                    THEN held'[u][p] = NoNumber \/ held'[u][p] < cursor'[q]
                    ELSE Same(q, u, p)'
             /\ phase'[q] = "internet" /\ p = "ims" /\ p \in job'[q].pools => Same(q, u, p)'
             /\ phase'[q] = "bulk" /\ p \in SliceSlots \ job'[q].over => Same(q, u, p)'
    BY DEF ListTrue
  <2>1. CASE q = r
    <3>1. ~Passed(q, u, p)' /\ Same(q, u, p)'
      BY <1>1, <2>1, SizeAssumption DEF Passed, Same, Subs
    <3> QED BY <3>1
  <2>2. CASE q # r
    BY <1>1, <2>2 DEF ListTrue, Same4, Passed, Same
  <2> QED BY <2>1, <2>2
<1>5. Distinct'
  <2> SUFFICES ASSUME NEW p \in Pools \ spoiled', NEW u \in Subs, NEW v \in Subs,
                      u # v, held[u][p] # NoNumber, held[u][p] = held[v][p]
               PROVE  \E q \in Runs : Pending(q, u, p)' \/ Pending(q, v, p)'
    BY <1>1 DEF Distinct
  <2>1. PICK q \in Runs : Pending(q, u, p) \/ Pending(q, v, p)
    BY <1>1 DEF Distinct
  <2>2. q # r
    BY <1>1, <2>1 DEF Pending, Pools, Slots, SliceSlots
  <2> QED BY <1>1, <2>1, <2>2 DEF Pending, Same4
<1> QED BY <1>2, <1>3, <1>4, <1>5

\* The step the whole argument is about: the number a run gives is new, but
\* for those it is about to replace.
LEMMA InvGive ==
    ASSUME IInv, NEW r \in Runs, Give(r)
    PROVE  LackingHaveNone' /\ OneClaim' /\ ListTrue' /\ Distinct'
<1> USE DEF IInv
<1> PICK o : o = phase[r]
  OBVIOUS
<1>1. PICK u \in Subs, n \in Numbers :
        /\ o \in Pools /\ IsNext(r, u) /\ NextFree(r, n)
        /\ held' = [held EXCEPT ![u][o] = n]
        /\ at' = [at EXCEPT ![r] = u + 1]
        /\ cursor' = [cursor EXCEPT ![r] = n + 1]
        /\ UNCHANGED <<phase, job, seen, spoiled>>
  BY DEF Give
<1>2. /\ held'[u][o] = n
      /\ \A w \in Subs, p \in Slots : w # u \/ p # o => held'[w][p] = held[w][p]
  BY SlotFacts, <1>1 DEF TypeOK
<1>3. /\ at'[r] = u + 1 /\ cursor'[r] = n + 1
      /\ \A q \in Runs \ {r} : Same4(q)
  BY <1>1 DEF TypeOK, Same4
<1>4. /\ u >= at[r] /\ u \in job[r].scope /\ <<u, o>> \notin Lacking
      /\ o \in job[r].over \/ seen[r][u][o] = NoNumber
  BY <1>1 DEF IsNext, Due
<1>5. n >= cursor[r] /\ n \notin Occupied(r)
  BY <1>1 DEF NextFree, Free
<1>6. /\ at[r] \in Nat /\ cursor[r] \in Nat /\ n \in Nat /\ n # NoNumber
      /\ \A w \in Subs : w \in Nat
      /\ \A w \in Subs, p \in Slots : held[w][p] \in Nat
  BY SizeAssumption DEF TypeOK, Numbers, Subs, NoNumber
<1>7. Active(r) /\ o \in job[r].pools
  BY <1>1 DEF TypeOK, AtItsPool, Active, Pools, Slots, SliceSlots
<1>8. LackingHaveNone'
  <2> SUFFICES ASSUME NEW x \in Lacking
               PROVE  /\ held'[x[1]][x[2]] = NoNumber
                      /\ \A q \in Runs : seen'[q][x[1]][x[2]] = NoNumber
    BY DEF LackingHaveNone
  <2>1. x[1] \in Subs /\ x[2] \in Slots /\ x = <<x[1], x[2]>>
    BY PoolAssumption
  <2>2. x[1] # u \/ x[2] # o
    BY <1>4, <2>1
  <2> QED BY <1>1, <1>2, <2>1, <2>2 DEF LackingHaveNone
<1>9. OneClaim'
  BY <1>1 DEF OneClaim, Active
<1>10. ListTrue'
  <2> SUFFICES ASSUME NEW q \in Runs, NEW p \in Slots \ spoiled, NEW w \in Subs
      PROVE  /\ phase[q] = p =>
                    IF Passed(q, w, p)'
                    THEN held'[w][p] = NoNumber \/ held'[w][p] < cursor'[q]
                    ELSE Same(q, w, p)'
             /\ phase[q] = "internet" /\ p = "ims" /\ p \in job[q].pools => Same(q, w, p)'
             /\ phase[q] = "bulk" /\ p \in SliceSlots \ job[q].over => Same(q, w, p)'
    BY <1>1 DEF ListTrue
  <2>1. CASE q = r /\ p = o
    <3>1. CASE w = u
      <4>1. Passed(r, u, o)'
        BY <1>1, <1>3, <1>4, <1>6 DEF Passed
      <4>2. held'[u][o] < cursor'[r]
        BY <1>2, <1>3, <1>6
      <4> QED BY <2>1, <3>1, <4>1, <4>2, <1>1 DEF Pools, Slots, SliceSlots
    <3>2. CASE w # u /\ Passed(r, w, o)'
      <4>1. w < u /\ w \in job[r].scope /\ (o \in job[r].over \/ seen[r][w][o] = NoNumber)
        BY <1>1, <1>3, <1>6, <3>2 DEF Passed
      <4>2. CASE w >= at[r]
        <5>1. held[w][o] = NoNumber
          BY <1>1, <4>1, <4>2, SkippedHaveNone
        <5> QED BY <1>1, <1>2, <2>1, <3>2, <5>1 DEF Pools, Slots, SliceSlots
      <4>3. CASE w < at[r]
        <5>1. held[w][o] = NoNumber \/ held[w][o] < cursor[r]
          BY <2>1, <4>1, <4>3 DEF Passed, ListTrue
        <5>2. held[w][o] = NoNumber \/ held[w][o] < n + 1
          BY SlotFacts, <5>1, <1>1, <1>5, <1>6
        <5>3. held'[w][o] = held[w][o] /\ cursor'[r] = n + 1
          BY <1>1, <1>2, <1>3, <3>2
        <5>4. phase[r] # "internet" \/ o # "ims"
          BY <1>1
        <5>5. phase[r] # "bulk"
          BY <1>1 DEF Pools, Slots, SliceSlots
        <5> QED BY <1>1, <2>1, <3>2, <5>2, <5>3, <5>4, <5>5
      <4> QED BY <4>2, <4>3, <1>6
    <3>3. CASE w # u /\ ~Passed(r, w, o)'
      <4>1. ~Passed(r, w, o)
        BY <1>1, <1>3, <1>4, <1>6, <3>3 DEF Passed
      <4>2. Same(r, w, o)
        BY <2>1, <4>1 DEF ListTrue
      <4>3. Same(r, w, o)'
        BY <1>1, <1>2, <3>3, <4>2 DEF Same
      <4> QED BY <1>1, <2>1, <3>3, <4>3 DEF Pools, Slots, SliceSlots
    <3> QED BY <3>1, <3>2, <3>3
  <2>2. CASE q = r /\ p # o
    <3>1. held'[w][p] = held[w][p]
      BY <1>2, <2>2
    <3> QED BY <1>1, <2>2, <3>1 DEF ListTrue, Same
  <2>3. CASE q # r /\ p = o
    BY <1>1, <1>7, <2>3, NobodyElse
  <2>4. CASE q # r /\ p # o
    <3>1. held'[w][p] = held[w][p] /\ Same4(q)
      BY <1>2, <1>3, <2>4
    <3> QED BY <3>1 DEF ListTrue, Same4, Passed, Same
  <2> QED BY <2>1, <2>2, <2>3, <2>4
<1>11. ASSUME NEW b \in Subs, b # u, o \notin spoiled, held[b][o] = n
       PROVE  Pending(r, b, o)'
  <2>1. ~Passed(r, b, o)
    BY SlotFacts, <1>5, <1>6, <1>11, <1>1 DEF ListTrue
  <2>2. seen[r][b][o] = n
    BY SlotFacts, <1>1, <1>11, <2>1 DEF ListTrue, Same
  <2>3. o \in job[r].over /\ b \in job[r].scope
    BY <1>5, <2>2 DEF Occupied
  <2>4. b >= at[r]
    BY <2>1, <2>3, <1>6 DEF Passed
  <2>5. ~(b < u)
    BY <1>1, <1>6, <1>11, <2>3, <2>4, SkippedHaveNone
  <2>6. b >= u + 1
    BY <2>5, <1>6, <1>11
  <2> QED BY <1>1, <1>3, <2>3, <2>6 DEF Pending
<1>12. Distinct'
  <2> SUFFICES ASSUME NEW p \in Pools \ spoiled, NEW a \in Subs, NEW b \in Subs,
                      a # b, held'[a][p] # NoNumber, held'[a][p] = held'[b][p]
               PROVE  \E q \in Runs : Pending(q, a, p)' \/ Pending(q, b, p)'
    BY <1>1 DEF Distinct
  <2>1. CASE p = o /\ a = u
    <3>1. held[b][o] = n
      BY SlotFacts, <1>2, <2>1
    <3> QED BY <1>11, <2>1, <3>1
  <2>2. CASE p = o /\ b = u
    <3>1. held[a][o] = n
      BY SlotFacts, <1>2, <2>2
    <3> QED BY <1>11, <2>2, <3>1
  <2>3. CASE p # o \/ (a # u /\ b # u)
    <3>1. held[a][p] # NoNumber /\ held[a][p] = held[b][p]
      BY SlotFacts, <1>2, <2>3
    <3>2. PICK q \in Runs : Pending(q, a, p) \/ Pending(q, b, p)
      BY <3>1 DEF Distinct
    <3>3. CASE q # r
      BY <1>3, <3>2, <3>3 DEF Pending, Same4
    <3>4. CASE q = r
      <4>1. p = o
        BY <3>2, <3>4 DEF Pending
      <4>2. ASSUME NEW c \in {a, b}, Pending(r, c, p) PROVE Pending(r, c, p)'
        <5>1. c \in job[r].scope /\ c >= at[r] /\ p \in job[r].over /\ c # u
          BY <2>3, <4>1, <4>2 DEF Pending
        <5>2. ~(c < u)
          BY <1>1, <3>1, <4>1, <5>1, SkippedHaveNone
        <5>3. c >= u + 1
          BY <5>1, <5>2, <1>6
        <5> QED BY <1>1, <1>3, <4>1, <5>1, <5>3 DEF Pending
      <4> QED BY <3>2, <3>4, <4>2
    <3> QED BY <3>3, <3>4
  <2> QED BY <2>1, <2>2, <2>3
<1> QED BY <1>8, <1>9, <1>10, <1>12

LEMMA InvGiveFails ==
    ASSUME IInv, NEW r \in Runs, GiveFails(r)
    PROVE  LackingHaveNone' /\ OneClaim' /\ ListTrue' /\ Distinct'
<1> USE DEF IInv
<1> PICK o : o = phase[r]
  OBVIOUS
<1>1. PICK u \in Subs, n \in Numbers :
        /\ o \in Pools /\ IsNext(r, u) /\ NextFree(r, n)
        /\ IF o = "msisdn"
           THEN /\ Stop(r)
                /\ spoiled' = spoiled \cup LeftOff(r)
           ELSE /\ at' = [at EXCEPT ![r] = u + 1]
                /\ cursor' = [cursor EXCEPT ![r] = n + 1]
                /\ spoiled' = spoiled \cup {p \in {o} : KeepsNumber(r, u)}
                /\ UNCHANGED <<phase, job, seen>>
        /\ held' = held
  BY DEF GiveFails
<1>2. CASE o = "msisdn"
  <2>1. spoiled' = spoiled \cup LeftOff(r) /\ Stop(r)
    BY <1>1, <1>2
  <2>2. \A p \in Pools \ spoiled', w \in Subs : Pending(r, w, p) => held[w][p] = NoNumber
    BY <2>1, LeftOffCovers
  <2> QED BY <1>1, <2>1, <2>2, InvStop
<1>3. CASE o # "msisdn"
  <2>1. /\ at'[r] = u + 1 /\ cursor'[r] = n + 1 /\ held' = held
        /\ phase' = phase /\ job' = job /\ seen' = seen
        /\ spoiled' = spoiled \cup {p \in {o} : KeepsNumber(r, u)}
        /\ \A q \in Runs \ {r} : Same4(q)
    BY <1>1, <1>3 DEF TypeOK, Same4
  <2>2. /\ u >= at[r] /\ u \in job[r].scope
        /\ o \in job[r].over \/ seen[r][u][o] = NoNumber
        /\ n >= cursor[r]
    BY <1>1 DEF IsNext, Due, NextFree, Free
  <2>3. /\ at[r] \in Nat /\ cursor[r] \in Nat /\ n \in Nat
        /\ \A w \in Subs : w \in Nat
        /\ \A w \in Subs, p \in Slots : held[w][p] \in Nat
    BY SizeAssumption DEF TypeOK, Numbers, Subs, NoNumber
  <2>4. LackingHaveNone'
    BY <2>1 DEF LackingHaveNone
  <2>5. OneClaim'
    BY <2>1 DEF OneClaim, Active
  <2>6. o \notin spoiled' => held[u][o] = NoNumber
    <3> SUFFICES ASSUME o \notin spoiled' PROVE held[u][o] = NoNumber
      OBVIOUS
    <3>1. o \notin spoiled /\ ~KeepsNumber(r, u)
      BY <2>1
    <3>2. seen[r][u][o] = NoNumber
      BY <2>2, <3>1 DEF KeepsNumber
    <3>3. ~Passed(r, u, o)
      BY <2>2, <2>3 DEF Passed
    <3> QED BY SlotFacts, <1>1, <3>1, <3>2, <3>3 DEF ListTrue, Same
  <2>7. ListTrue'
    <3> SUFFICES ASSUME NEW q \in Runs, NEW p \in Slots \ spoiled', NEW w \in Subs
        PROVE  /\ phase[q] = p =>
                      IF Passed(q, w, p)'
                      THEN held[w][p] = NoNumber \/ held[w][p] < cursor'[q]
                      ELSE Same(q, w, p)
               /\ phase[q] = "internet" /\ p = "ims" /\ p \in job[q].pools => Same(q, w, p)
               /\ phase[q] = "bulk" /\ p \in SliceSlots \ job[q].over => Same(q, w, p)
      BY <2>1 DEF ListTrue, Same
    <3>0. p \in Slots \ spoiled
      BY <2>1
    <3>1. CASE q = r /\ p = o
      <4>1. CASE w = u
        <5>1. held[w][p] = NoNumber /\ Passed(q, w, p)'
          BY <2>1, <2>2, <2>3, <2>6, <3>1, <4>1 DEF Passed
        <5> QED BY <1>1, <3>0, <3>1, <5>1 DEF ListTrue, Pools, Slots, SliceSlots
      <4>2. CASE w # u /\ Passed(r, w, o)'
        <5>1. w < u /\ w \in job[r].scope /\ (o \in job[r].over \/ seen[r][w][o] = NoNumber)
          BY <2>1, <2>3, <4>2 DEF Passed
        <5>2. CASE w >= at[r]
          <6>1. held[w][o] = NoNumber
            BY <1>1, <5>1, <5>2, SkippedHaveNone
          <6> QED BY <3>0, <3>1, <4>2, <6>1, <1>1 DEF ListTrue, Pools, Slots, SliceSlots
        <5>3. CASE w < at[r]
          <6>1. held[w][o] = NoNumber \/ held[w][o] < cursor[r]
            BY <3>0, <3>1, <5>1, <5>3 DEF Passed, ListTrue
          <6>2. held[w][o] = NoNumber \/ held[w][o] < n + 1
            BY SlotFacts, <6>1, <2>2, <2>3, <1>1
          <6> QED BY <1>1, <2>1, <3>0, <3>1, <4>2, <6>2 DEF ListTrue, Pools, Slots
        <5> QED BY <5>2, <5>3, <2>3
      <4>3. CASE w # u /\ ~Passed(r, w, o)'
        <5>1. ~Passed(r, w, o)
          BY <2>1, <2>2, <2>3, <4>3 DEF Passed
        <5>2. Same(r, w, o)
          BY <3>0, <3>1, <5>1 DEF ListTrue
        <5> QED BY <3>0, <3>1, <4>3, <5>2
      <4> QED BY <4>1, <4>2, <4>3
    <3>2. CASE q = r /\ p # o
      BY <3>0, <3>2 DEF ListTrue
    <3>3. CASE q # r
      BY <2>1, <3>0, <3>3 DEF ListTrue, Same4, Passed, Same
    <3> QED BY <3>1, <3>2, <3>3
  <2>8. Distinct'
    <3> SUFFICES ASSUME NEW p \in Pools \ spoiled', NEW a \in Subs, NEW b \in Subs,
                        a # b, held[a][p] # NoNumber, held[a][p] = held[b][p]
                 PROVE  \E q \in Runs : Pending(q, a, p)' \/ Pending(q, b, p)'
      BY <2>1 DEF Distinct
    <3>1. p \in Pools \ spoiled
      BY <2>1
    <3>2. PICK q \in Runs : Pending(q, a, p) \/ Pending(q, b, p)
      BY <3>1 DEF Distinct
    <3>3. CASE q # r
      BY <2>1, <3>2, <3>3 DEF Pending, Same4
    <3>4. CASE q = r
      <4>1. p = o
        BY <3>2, <3>4 DEF Pending
      <4>2. ASSUME NEW c \in {a, b}, Pending(r, c, p) PROVE Pending(r, c, p)'
        <5>1. c \in job[r].scope /\ c >= at[r] /\ p \in job[r].over /\ c # u
          BY <2>6, <4>1, <4>2 DEF Pending
        <5>2. ~(c < u)
          BY <1>1, <4>1, <5>1, SkippedHaveNone
        <5>3. c >= u + 1
          BY <5>1, <5>2, <2>3
        <5> QED BY <2>1, <4>1, <5>1, <5>3 DEF Pending
      <4> QED BY <3>2, <3>4, <4>2
    <3> QED BY <3>3, <3>4
  <2> QED BY <2>4, <2>5, <2>7, <2>8
<1> QED BY <1>2, <1>3

LEMMA InvExhausted ==
    ASSUME IInv, NEW r \in Runs, Exhausted(r)
    PROVE  LackingHaveNone' /\ OneClaim' /\ ListTrue' /\ Distinct'
<1>1. /\ spoiled' = spoiled \cup LeftOff(r) /\ NextPhase(r) /\ held' = held
  BY DEF Exhausted
<1>2. \A p \in Pools \ spoiled', w \in Subs : Pending(r, w, p) => held[w][p] = NoNumber
  BY <1>1, LeftOffCovers
<1> QED BY <1>1, <1>2, InvNextPhase

LEMMA InvPhaseDone ==
    ASSUME IInv, NEW r \in Runs, PhaseDone(r)
    PROVE  LackingHaveNone' /\ OneClaim' /\ ListTrue' /\ Distinct'
<1>1. NoneDue(r) /\ NextPhase(r) /\ held' = held /\ spoiled' = spoiled
  BY DEF PhaseDone
<1>2. ASSUME NEW p \in Pools \ spoiled', NEW w \in Subs, Pending(r, w, p)
      PROVE  held[w][p] = NoNumber
  <2>1. <<w, p>> \in Lacking
    BY <1>1, <1>2 DEF NoneDue, Due, Pending
  <2> QED BY <2>1 DEF IInv, LackingHaveNone
<1> QED BY <1>1, <1>2, InvNextPhase

LEMMA InvWriteBack ==
    ASSUME IInv, NEW r \in Runs, WriteBack(r)
    PROVE  LackingHaveNone' /\ OneClaim' /\ ListTrue' /\ Distinct'
<1> USE DEF IInv
<1>1. PICK u \in Subs :
        /\ phase[r] = "bulk"
        /\ held' = [held EXCEPT ![u] =
                     [p \in Slots |-> IF p \in job[r].over THEN NoNumber
                                      ELSE IF p \in SliceSlots THEN seen[r][u][p]
                                      ELSE @[p]]]
        /\ at' = [at EXCEPT ![r] = u + 1]
        /\ UNCHANGED <<phase, job, seen, cursor, spoiled>>
  BY DEF WriteBack
<1>2. \A q \in Runs \ {r} : Same4(q)
  BY <1>1 DEF TypeOK, Same4
<1>3. \A w \in Subs, p \in Slots :
        held'[w][p] = IF w # u THEN held[w][p]
                      ELSE IF p \in job[r].over THEN NoNumber
                      ELSE IF p \in SliceSlots THEN seen[r][u][p]
                      ELSE held[w][p]
  BY <1>1 DEF TypeOK
<1>4. job[r].pools = SliceSlots /\ job[r].over \subseteq SliceSlots /\ Active(r)
  BY <1>1, JobTypes DEF TypeOK, AtItsPool, Active
<1>5. \A p \in Slots \ spoiled, w \in Subs :
        \/ held'[w][p] = held[w][p]
        \/ p \in job[r].over /\ held'[w][p] = NoNumber
  BY <1>1, <1>3 DEF ListTrue, Same
<1>6. LackingHaveNone'
  <2> SUFFICES ASSUME NEW x \in Lacking
               PROVE  /\ held'[x[1]][x[2]] = NoNumber
                      /\ \A q \in Runs : seen'[q][x[1]][x[2]] = NoNumber
    BY DEF LackingHaveNone
  <2>1. x[1] \in Subs /\ x[2] \in Slots
    BY PoolAssumption
  <2>2. held[x[1]][x[2]] = NoNumber /\ \A q \in Runs : seen[q][x[1]][x[2]] = NoNumber
    BY DEF LackingHaveNone
  <2>3. held'[x[1]][x[2]] = NoNumber
    BY <1>3, <2>1, <2>2
  <2> QED BY <1>1, <2>2, <2>3
<1>7. OneClaim'
  BY <1>1 DEF OneClaim, Active
<1>8. ListTrue'
  <2> SUFFICES ASSUME NEW q \in Runs, NEW p \in Slots \ spoiled, NEW w \in Subs
      PROVE  /\ phase[q] = p =>
                    IF Passed(q, w, p)'
                    THEN held'[w][p] = NoNumber \/ held'[w][p] < cursor[q]
                    ELSE Same(q, w, p)'
             /\ phase[q] = "internet" /\ p = "ims" /\ p \in job[q].pools => Same(q, w, p)'
             /\ phase[q] = "bulk" /\ p \in SliceSlots \ job[q].over => Same(q, w, p)'
    BY <1>1 DEF ListTrue
  <2>1. CASE q = r
    <3>1. p \in SliceSlots \ job[r].over => held'[w][p] = held[w][p]
      BY <1>5
    <3> QED BY <1>1, <2>1, <3>1 DEF ListTrue, Same, Pools, Slots, SliceSlots
  <2>2. CASE q # r /\ p \in job[r].over
    BY <1>4, <2>2, NobodyElse
  <2>3. CASE q # r /\ p \notin job[r].over
    <3>1. held'[w][p] = held[w][p] /\ Same4(q)
      BY <1>2, <1>5, <2>3
    <3> QED BY <3>1 DEF ListTrue, Same4, Passed, Same
  <2> QED BY <2>1, <2>2, <2>3
<1>9. Distinct'
  <2> SUFFICES ASSUME NEW p \in Pools \ spoiled, NEW a \in Subs, NEW b \in Subs,
                      a # b, held'[a][p] # NoNumber, held'[a][p] = held'[b][p]
               PROVE  \E q \in Runs : Pending(q, a, p)' \/ Pending(q, b, p)'
    BY <1>1 DEF Distinct
  <2>1. held[a][p] # NoNumber /\ held[a][p] = held[b][p]
    BY SlotFacts, <1>5
  <2>2. PICK q \in Runs : Pending(q, a, p) \/ Pending(q, b, p)
    BY <2>1 DEF Distinct
  <2>3. q # r
    BY <1>1, <2>2 DEF Pending, Pools, Slots, SliceSlots
  <2> QED BY <1>2, <2>2, <2>3 DEF Pending, Same4
<1> QED BY <1>6, <1>7, <1>8, <1>9

LEMMA InvWriteBackFails ==
    ASSUME IInv, NEW r \in Runs, WriteBackFails(r)
    PROVE  LackingHaveNone' /\ OneClaim' /\ ListTrue' /\ Distinct'
<1> USE DEF IInv
<1>1. /\ phase[r] = "bulk"
      /\ UNCHANGED <<held, phase, job, seen, cursor, spoiled>>
      /\ \A q \in Runs \ {r} : Same4(q)
  BY DEF WriteBackFails, TypeOK, Same4
<1>2. LackingHaveNone' /\ OneClaim'
  BY <1>1 DEF LackingHaveNone, OneClaim, Active
<1>3. ListTrue'
  <2> SUFFICES ASSUME NEW q \in Runs, NEW p \in Slots \ spoiled, NEW w \in Subs
      PROVE  /\ phase[q] = p =>
                    IF Passed(q, w, p)'
                    THEN held[w][p] = NoNumber \/ held[w][p] < cursor[q]
                    ELSE Same(q, w, p)
             /\ phase[q] = "internet" /\ p = "ims" /\ p \in job[q].pools => Same(q, w, p)
             /\ phase[q] = "bulk" /\ p \in SliceSlots \ job[q].over => Same(q, w, p)
    BY <1>1 DEF ListTrue, Same
  <2>1. CASE q = r
    BY <1>1, <2>1 DEF ListTrue, Pools, Slots, SliceSlots
  <2>2. CASE q # r
    BY <1>1, <2>2 DEF ListTrue, Same4, Passed
  <2> QED BY <2>1, <2>2
<1>4. Distinct'
  <2> SUFFICES ASSUME NEW p \in Pools \ spoiled, NEW a \in Subs, NEW b \in Subs,
                      a # b, held[a][p] # NoNumber, held[a][p] = held[b][p]
               PROVE  \E q \in Runs : Pending(q, a, p)' \/ Pending(q, b, p)'
    BY <1>1 DEF Distinct
  <2>1. PICK q \in Runs : Pending(q, a, p) \/ Pending(q, b, p)
    BY DEF Distinct
  <2>2. q # r
    BY <1>1, <2>1 DEF Pending, Pools, Slots, SliceSlots
  <2> QED BY <1>1, <2>1, <2>2 DEF Pending, Same4
<1> QED BY <1>2, <1>3, <1>4

LEMMA InvEdit ==
    ASSUME IInv, NEW u \in Subs, NEW o \in Slots, NEW n \in Numbers \cup {NoNumber},
           Edit(u, o, n)
    PROVE  LackingHaveNone' /\ OneClaim' /\ ListTrue' /\ Distinct'
<1> USE DEF IInv
<1>1. /\ <<u, o>> \notin Lacking
      /\ held' = [held EXCEPT ![u][o] = n]
      /\ UNCHANGED <<phase, job, seen, at, cursor>>
      /\ spoiled \subseteq spoiled'
  BY DEF Edit, local
<1>2. /\ held'[u][o] = n
      /\ \A w \in Subs, p \in Slots : w # u \/ p # o => held'[w][p] = held[w][p]
  BY <1>1 DEF TypeOK
<1>3. o \notin spoiled' =>
         /\ \A q \in Runs : ~(Active(q) /\ o \in job[q].pools)
         /\ n # NoNumber => \A w \in Subs \ {u} : held[w][o] # n
  BY DEF Edit
<1>4. ASSUME o \notin spoiled', NEW q \in Runs
      PROVE  /\ phase[q] # o
             /\ ~(phase[q] = "internet" /\ o \in job[q].pools)
             /\ ~(phase[q] = "bulk" /\ o \in SliceSlots)
  BY <1>3, <1>4, JobTypes DEF TypeOK, AtItsPool, Active, Pools, Slots, SliceSlots
<1>5. LackingHaveNone'
  <2> SUFFICES ASSUME NEW x \in Lacking
               PROVE  /\ held'[x[1]][x[2]] = NoNumber
                      /\ \A q \in Runs : seen'[q][x[1]][x[2]] = NoNumber
    BY DEF LackingHaveNone
  <2>1. x[1] \in Subs /\ x[2] \in Slots /\ x = <<x[1], x[2]>>
    BY PoolAssumption
  <2>2. x[1] # u \/ x[2] # o
    BY <1>1, <2>1
  <2> QED BY <1>1, <1>2, <2>1, <2>2 DEF LackingHaveNone
<1>6. OneClaim'
  BY <1>1 DEF OneClaim, Active
<1>7. ListTrue'
  <2> SUFFICES ASSUME NEW q \in Runs, NEW p \in Slots \ spoiled', NEW w \in Subs
      PROVE  /\ phase[q] = p =>
                    IF Passed(q, w, p)
                    THEN held'[w][p] = NoNumber \/ held'[w][p] < cursor[q]
                    ELSE Same(q, w, p)'
             /\ phase[q] = "internet" /\ p = "ims" /\ p \in job[q].pools => Same(q, w, p)'
             /\ phase[q] = "bulk" /\ p \in SliceSlots \ job[q].over => Same(q, w, p)'
    BY <1>1 DEF ListTrue, Passed
  <2>1. CASE p = o
    BY <1>4, <2>1
  <2>2. CASE p # o
    BY <1>1, <1>2, <2>2 DEF ListTrue, Same
  <2> QED BY <2>1, <2>2
<1>8. Distinct'
  <2> SUFFICES ASSUME NEW p \in Pools \ spoiled', NEW a \in Subs, NEW b \in Subs,
                      a # b, held'[a][p] # NoNumber, held'[a][p] = held'[b][p]
               PROVE  \E q \in Runs : Pending(q, a, p) \/ Pending(q, b, p)
    BY <1>1 DEF Distinct, Pending
  <2>1. CASE p # o \/ (a # u /\ b # u)
    BY <1>1, <1>2, <2>1 DEF Distinct
  <2>2. CASE p = o /\ a = u
    BY <1>2, <1>3, <2>2
  <2>3. CASE p = o /\ b = u
    BY <1>2, <1>3, <2>3
  <2> QED BY <2>1, <2>2, <2>3
<1> QED BY <1>5, <1>6, <1>7, <1>8

LEMMA InvRestart ==
    ASSUME IInv, Restart
    PROVE  LackingHaveNone' /\ OneClaim' /\ ListTrue' /\ Distinct'
<1> USE DEF IInv
<1>1. /\ \A q \in Runs : phase'[q] = "idle" /\ seen'[q] = Empty
      /\ held' = held
      /\ spoiled' = spoiled \cup UNION {LeftOff(r) : r \in Runs}
  BY DEF Restart
<1>2. LackingHaveNone'
  <2> SUFFICES ASSUME NEW x \in Lacking
               PROVE  /\ held'[x[1]][x[2]] = NoNumber
                      /\ \A q \in Runs : seen'[q][x[1]][x[2]] = NoNumber
    BY DEF LackingHaveNone
  <2>1. x[1] \in Subs /\ x[2] \in Slots
    BY PoolAssumption
  <2> QED BY <1>1, <2>1 DEF LackingHaveNone, Empty
<1>3. OneClaim' /\ ListTrue'
  BY <1>1 DEF OneClaim, ListTrue, Active, Pools, Slots, SliceSlots
<1>4. Distinct'
  <2> SUFFICES ASSUME NEW p \in Pools \ spoiled', NEW a \in Subs, NEW b \in Subs,
                      a # b, held[a][p] # NoNumber, held[a][p] = held[b][p]
               PROVE  FALSE
    BY <1>1 DEF Distinct
  <2>1. p \in Pools \ spoiled /\ \A q \in Runs : p \notin LeftOff(q)
    BY <1>1
  <2>2. PICK q \in Runs : Pending(q, a, p) \/ Pending(q, b, p)
    BY <2>1 DEF Distinct
  <2>3. held[a][p] = NoNumber \/ held[b][p] = NoNumber
    BY <2>1, <2>2, LeftOffCovers
  <2> QED BY <2>3
<1> QED BY <1>2, <1>3, <1>4

LEMMA InvNext == IInv /\ [Next]_vars => IInv'
<1> SUFFICES ASSUME IInv, [Next]_vars PROVE IInv'
  OBVIOUS
<1>1. TypeOK'
  BY TypeNext DEF IInv
<1>2. ASSUME NEW r \in Runs, RunStep(r)
      PROVE  LackingHaveNone' /\ OneClaim' /\ ListTrue' /\ Distinct'
  BY <1>2, InvList, InvGive, InvGiveFails, InvExhausted, InvPhaseDone,
     InvWriteBack, InvWriteBackFails DEF RunStep
<1>3. ASSUME NEW u \in Subs, NEW p \in Slots, NEW n \in Numbers \cup {NoNumber},
             Edit(u, p, n)
      PROVE  LackingHaveNone' /\ OneClaim' /\ ListTrue' /\ Distinct'
  BY <1>3, InvEdit
<1>4. Restart => LackingHaveNone' /\ OneClaim' /\ ListTrue' /\ Distinct'
  BY InvRestart
<1>5. UNCHANGED vars => LackingHaveNone' /\ OneClaim' /\ ListTrue' /\ Distinct'
  BY DEF IInv, vars, local, LackingHaveNone, OneClaim, ListTrue, Distinct,
              Active, Passed, Same, Pending
<1>6. LackingHaveNone' /\ OneClaim' /\ ListTrue' /\ Distinct'
  BY <1>2, <1>3, <1>4, <1>5 DEF Next
<1> QED BY <1>1, <1>6 DEF IInv

(* No two subscribers hold the same number of a pool that is not spoiled,  *)
(* in the first session of its kind or as MSISDN, but while a run is on    *)
(* its way to replace one of the two.                                      *)
THEOREM DistinctTheorem == Spec => []Distinct
<1>1. IInv => Distinct
  BY DEF IInv
<1> QED BY InvInit, InvNext, <1>1, PTL DEF Spec

(***************************************************************************)
(* KeptUnlessReplaced.  Only giving, writing back and editing write        *)
(* numbers; the first two find a number that is not theirs to replace      *)
(* where the list has it, because the list is true.                        *)
(***************************************************************************)

Replaced(u, p) ==
    \/ edits' # edits \/ p \in spoiled
    \/ \E r \in Runs : p \in job[r].over /\ u \in job[r].scope

KeptStep ==
    \A u \in Subs, p \in Slots :
        held[u][p] # NoNumber /\ held'[u][p] # held[u][p] => Replaced(u, p)

\* Giving a number.
LEMMA GiveKeeps == ASSUME IInv, NEW r \in Runs, Give(r) PROVE KeptStep
<1>1. PICK u \in Subs, n \in Numbers :
        /\ phase[r] \in Pools /\ IsNext(r, u)
        /\ held' = [held EXCEPT ![u][phase[r]] = n]
  BY DEF Give
<1>2. \A w \in Subs, p \in Slots : w # u \/ p # phase[r] => held'[w][p] = held[w][p]
  BY <1>1 DEF IInv, TypeOK
<1>3. /\ u >= at[r] /\ u \in job[r].scope
      /\ phase[r] \in job[r].over \/ seen[r][u][phase[r]] = NoNumber
  BY <1>1 DEF IsNext, Due
<1>4. ~Passed(r, u, phase[r])
  BY <1>3, SizeAssumption DEF Passed, IInv, TypeOK, Subs
<1>5. phase[r] \notin spoiled => held[u][phase[r]] = seen[r][u][phase[r]]
  BY SlotFacts, <1>1, <1>4 DEF IInv, ListTrue, Same
<1> QED BY <1>2, <1>3, <1>5 DEF KeptStep, Replaced

\* Writing the slices back.
LEMMA WriteBackKeeps == ASSUME IInv, NEW r \in Runs, WriteBack(r) PROVE KeptStep
<1>1. PICK u \in Subs :
        /\ phase[r] = "bulk" /\ IsNext(r, u)
        /\ held' = [held EXCEPT ![u] =
                     [p \in Slots |-> IF p \in job[r].over THEN NoNumber
                                      ELSE IF p \in SliceSlots THEN seen[r][u][p]
                                      ELSE @[p]]]
  BY DEF WriteBack
<1>2. \A w \in Subs, p \in Slots :
        held'[w][p] = IF w # u THEN held[w][p]
                      ELSE IF p \in job[r].over THEN NoNumber
                      ELSE IF p \in SliceSlots THEN seen[r][u][p]
                      ELSE held[w][p]
  BY <1>1 DEF IInv, TypeOK
<1>3. u \in job[r].scope
  BY <1>1 DEF IsNext, Due
<1>4. \A p \in SliceSlots \ job[r].over :
        p \in Slots \ spoiled => held[u][p] = seen[r][u][p]
  BY <1>1 DEF IInv, ListTrue, Same
<1> QED BY <1>2, <1>3, <1>4 DEF KeptStep, Replaced

LEMMA NextKeeps == IInv /\ [Next]_vars => KeptStep
<1> SUFFICES ASSUME IInv, [Next]_vars PROVE KeptStep
  OBVIOUS
<1>1. held' = held => KeptStep
  BY DEF KeptStep
<1>2. ASSUME NEW r \in Runs, RunStep(r) PROVE KeptStep
  BY <1>1, <1>2, GiveKeeps, WriteBackKeeps
     DEF RunStep, List, GiveFails, Exhausted, PhaseDone, WriteBackFails
<1>3. ASSUME NEW u \in Subs, NEW p \in Slots, NEW n \in Numbers \cup {NoNumber},
             Edit(u, p, n)
      PROVE  KeptStep
  <2>1. edits' # edits
    BY <1>3 DEF Edit, IInv, TypeOK
  <2> QED BY <2>1 DEF KeptStep, Replaced
<1>4. Restart => held' = held
  BY DEF Restart
<1>5. UNCHANGED vars => held' = held
  BY DEF vars
<1> QED BY <1>1, <1>2, <1>3, <1>4, <1>5 DEF Next

(* A number goes away only by an edit or by a run that was told to replace *)
(* it, in a pool that is not spoiled.                                      *)
THEOREM KeptTheorem == Spec => KeptUnlessReplaced
<1>1. IInv /\ [Next]_vars =>
        [\A u \in Subs, p \in Slots :
            held[u][p] # NoNumber /\ held'[u][p] # held[u][p] =>
                \/ edits' # edits \/ p \in spoiled
                \/ \E r \in Runs : p \in job[r].over /\ u \in job[r].scope]_vars
  BY NextKeeps DEF KeptStep, Replaced
<1> QED BY InvInit, InvNext, <1>1, PTL DEF Spec, KeptUnlessReplaced

(***************************************************************************)
(* Served.  What a phase has been through is settled: the subscriber has   *)
(* no session, a number that stays, or one of the range that was asked     *)
(* for, inside the profile's where that was looked up.                     *)
(***************************************************************************)

Settled(r, u, p) ==
    \/ <<u, p>> \in Lacking
    \/ p \notin job[r].over /\ seen[r][u][p] # NoNumber
    \/ /\ held[u][p] \in job[r].lo[p]..job[r].hi[p]
       /\ clamped[r] => held[u][p] \in Dynamic[p].lo..Dynamic[p].hi

RunServes(r, p) ==
    phase[r] = p /\ clean[r] =>
        /\ cursor[r] >= job[r].lo[p] /\ (clamped[r] => cursor[r] >= Dynamic[p].lo)
        /\ \A u \in job[r].scope : u < at[r] => Settled(r, u, p)

ServedSoFar == \A r \in Runs, p \in Pools \ spoiled : RunServes(r, p)

ServedInv == IInv /\ ServedSoFar

\* The subscribers of a request are subscribers.
LEMMA ScopeTypes ==
    ASSUME TypeOK, NEW r \in Runs
    PROVE  job[r].scope \subseteq Subs /\ job[r] \in Requests \cup {NoJob}
<1>1. job[r] \in Requests \cup {NoJob}
  BY DEF TypeOK
<1> QED BY <1>1, JobTypes

\* A run that does not move, in a pool that nobody writes.
LEMMA ServesKept ==
    ASSUME TypeOK, NEW r \in Runs, NEW p \in Pools, RunServes(r, p),
           Same4(r), clean'[r] = clean[r], clamped'[r] = clamped[r],
           \A u \in Subs : held'[u][p] = held[u][p]
    PROVE  RunServes(r, p)'
BY ScopeTypes DEF Same4, RunServes, Settled

\* A phase that begins, with the cursor at the start of its range.
LEMMA ServesFresh ==
    ASSUME NEW r \in Runs, NEW p \in Pools, NEW j \in Requests \cup {NoJob},
           job'[r] = j,
           clamped'[r] \in BOOLEAN,
           phase'[r] = p => at'[r] = 1 /\ cursor'[r] = Lo(j, p, clamped'[r])
    PROVE  RunServes(r, p)'
<1> SUFFICES ASSUME phase'[r] = p
             PROVE  /\ cursor'[r] >= j.lo[p] /\ (clamped'[r] => cursor'[r] >= Dynamic[p].lo)
                    /\ \A u \in job'[r].scope : u < at'[r] => Settled(r, u, p)'
  BY DEF RunServes
<1>1. cursor'[r] >= j.lo[p] /\ (clamped'[r] => cursor'[r] >= Dynamic[p].lo)
  BY RangeHolds
<1>2. \A u \in job'[r].scope : ~(u < at'[r])
  BY JobTypes, SizeAssumption DEF Subs
<1> QED BY <1>1, <1>2

\* The run stops, or goes on from the internet to the IMS phase.
LEMMA ServesNextPhase ==
    ASSUME TypeOK, NEW r \in Runs, NextPhase(r), NEW p \in Pools
    PROVE  RunServes(r, p)'
<1>1. CASE phase[r] = "internet" /\ "ims" \in job[r].pools
  <2>1. /\ phase'[r] = "ims" /\ at'[r] = 1 /\ job'[r] = job[r]
        /\ clamped'[r] \in BOOLEAN /\ cursor'[r] = Lo(job[r], "ims", clamped'[r])
    BY <1>1 DEF NextPhase, TypeOK
  <2> QED BY <2>1, ScopeTypes, ServesFresh
<1>2. CASE ~(phase[r] = "internet" /\ "ims" \in job[r].pools)
  <2>1. phase'[r] = "idle"
    BY <1>2 DEF NextPhase, Stop, TypeOK
  <2> QED BY <2>1 DEF RunServes, Pools, Slots, SliceSlots
<1> QED BY <1>1, <1>2

LEMMA ServedList ==
    ASSUME ServedInv, NEW r \in Runs, NEW j \in Requests, List(r, j)
    PROVE  ServedSoFar'
<1> SUFFICES ASSUME NEW q \in Runs, NEW p \in Pools \ spoiled' PROVE RunServes(q, p)'
  BY DEF ServedSoFar
<1>1. p \in Pools \ spoiled
  BY DEF List
<1>2. CASE q = r
  <2>1. /\ job'[r] = j /\ at'[r] = 1 /\ phase'[r] = FirstPhase(j)
        /\ clamped'[r] \in BOOLEAN
        /\ j.kind # "bulk" => cursor'[r] = Lo(j, FirstPhase(j), clamped'[r])
    BY DEF List, ServedInv, IInv, TypeOK
  <2>2. j.kind = "bulk" => phase'[r] = "bulk"
    BY <2>1 DEF FirstPhase
  <2> QED BY <1>2, <2>1, <2>2, ServesFresh DEF Pools, Slots, SliceSlots
<1>3. CASE q # r
  <2>1. Same4(q) /\ clean'[q] = clean[q] /\ clamped'[q] = clamped[q] /\ held' = held
    BY <1>3 DEF List, ServedInv, IInv, TypeOK, Same4
  <2> QED BY <1>1, <2>1, ServesKept DEF ServedInv, ServedSoFar, IInv
<1> QED BY <1>2, <1>3

LEMMA ServedGive ==
    ASSUME ServedInv, NEW r \in Runs, Give(r) PROVE ServedSoFar'
<1> USE DEF ServedInv, IInv
<1> PICK o : o = phase[r]
  OBVIOUS
<1>1. PICK u \in Subs, n \in Numbers :
        /\ o \in Pools /\ IsNext(r, u) /\ NextFree(r, n)
        /\ held' = [held EXCEPT ![u][o] = n]
        /\ at' = [at EXCEPT ![r] = u + 1]
        /\ cursor' = [cursor EXCEPT ![r] = n + 1]
        /\ UNCHANGED <<phase, job, seen, clamped, clean, spoiled>>
  BY DEF Give
<1>2. /\ held'[u][o] = n
      /\ \A w \in Subs, p \in Slots : w # u \/ p # o => held'[w][p] = held[w][p]
  BY SlotFacts, <1>1 DEF TypeOK
<1>3. /\ at'[r] = u + 1 /\ cursor'[r] = n + 1
      /\ \A q \in Runs \ {r} : Same4(q)
  BY <1>1 DEF TypeOK, Same4
<1>4. Active(r) /\ o \in job[r].pools
  BY <1>1 DEF TypeOK, AtItsPool, Active, Pools, Slots, SliceSlots
<1> SUFFICES ASSUME NEW q \in Runs, NEW p \in Pools \ spoiled PROVE RunServes(q, p)'
  BY <1>1 DEF ServedSoFar
<1>5. CASE q # r
  <2>1. CASE p = o
    <3>1. phase[q] # p
      BY SlotFacts, <1>4, <1>5, <2>1, NobodyElse
    <3> QED BY <1>1, <3>1 DEF RunServes
  <2>2. CASE p # o
    BY <1>1, <1>2, <1>3, <1>5, <2>2, ServesKept DEF ServedSoFar
  <2> QED BY <2>1, <2>2
<1>6. CASE q = r
  <2> PICK lo, hi : lo = Lo(job[r], p, clamped[r]) /\ hi = Hi(job[r], p, clamped[r])
    OBVIOUS
  <2> SUFFICES ASSUME p = o, clean[r]
               PROVE  /\ cursor'[r] >= job[r].lo[p]
                      /\ clamped[r] => cursor'[r] >= Dynamic[p].lo
                      /\ \A w \in job[r].scope : w < at'[r] => Settled(r, w, p)'
    BY <1>1, <1>6 DEF RunServes
  <2>1. /\ cursor[r] >= job[r].lo[p] /\ (clamped[r] => cursor[r] >= Dynamic[p].lo)
        /\ \A w \in job[r].scope : w < at[r] => Settled(r, w, p)
    BY DEF ServedSoFar, RunServes
  <2>2. n >= cursor[r] /\ n <= hi
    BY <1>1 DEF NextFree, Free
  <2>3. n \in Nat /\ cursor[r] \in Nat /\ Dynamic[p].lo \in Nat /\ Dynamic[p].hi \in Nat
    BY SizeAssumption, PoolAssumption DEF TypeOK, Numbers
  <2>r. /\ hi <= job[r].hi[p] /\ (clamped[r] => hi <= Dynamic[p].hi)
        /\ hi \in Nat /\ job[r].lo[p] \in Nat /\ job[r].hi[p] \in Nat
    BY RangeHolds, ScopeTypes DEF TypeOK
  <2>4. /\ cursor'[r] >= job[r].lo[p] /\ n >= job[r].lo[p]
        /\ clamped[r] => cursor'[r] >= Dynamic[p].lo /\ n >= Dynamic[p].lo
    BY <1>3, <2>1, <2>2, <2>3, <2>r
  <2>5. n <= job[r].hi[p] /\ (clamped[r] => n <= Dynamic[p].hi)
    BY <2>2, <2>3, <2>r
  <2>6. Settled(r, u, p)'
    BY <1>1, <1>2, <2>3, <2>4, <2>5, <2>r DEF Settled
  <2>7. ASSUME NEW w \in job[r].scope, w < at'[r], w # u
        PROVE  Settled(r, w, p)'
    <3>1. w \in Subs /\ w \in Nat /\ u \in Nat /\ at[r] \in Nat
      BY SizeAssumption, ScopeTypes DEF TypeOK, Subs
    <3>2. w < u
      BY <1>3, <2>7, <3>1
    <3>3. CASE w < at[r]
      BY <1>1, <1>2, <2>1, <2>7, <3>1, <3>3 DEF Settled
    <3>4. CASE w >= at[r]
      <4>1. ~Due(r, w)
        BY <1>1, <3>1, <3>2, <3>4 DEF IsNext
      <4>2. <<w, p>> \in Lacking \/ (p \notin job[r].over /\ seen[r][w][p] # NoNumber)
        BY <1>1, <4>1 DEF Due
      <4> QED BY <1>1, <4>2 DEF Settled
    <3> QED BY <3>1, <3>3, <3>4
  <2> QED BY <2>4, <2>6, <2>7
<1> QED BY <1>5, <1>6

LEMMA ServedGiveFails ==
    ASSUME ServedInv, NEW r \in Runs, GiveFails(r) PROVE ServedSoFar'
<1> USE DEF ServedInv, IInv
<1>1. held' = held /\ spoiled \subseteq spoiled'
  BY DEF GiveFails
<1>2. phase'[r] = "idle" \/ clean'[r] = FALSE
  BY DEF GiveFails, Stop, TypeOK
<1>3. \A q \in Runs \ {r} : Same4(q) /\ clean'[q] = clean[q] /\ clamped'[q] = clamped[q]
  BY DEF GiveFails, Stop, TypeOK, Same4
<1>4. \A p \in Pools : RunServes(r, p)'
  BY <1>2 DEF RunServes, Pools, Slots, SliceSlots
<1> QED BY <1>1, <1>3, <1>4, ServesKept DEF ServedSoFar

\* A phase that ends, whether or not its pool is exhausted.
LEMMA ServedPhaseEnds ==
    ASSUME ServedInv, NEW r \in Runs, NextPhase(r), held' = held,
           spoiled \subseteq spoiled'
    PROVE  ServedSoFar'
<1> USE DEF ServedInv, IInv
<1>1. \A q \in Runs \ {r} : Same4(q) /\ clean'[q] = clean[q] /\ clamped'[q] = clamped[q]
  BY DEF NextPhase, Stop, TypeOK, Same4
<1> QED BY <1>1, ServesNextPhase, ServesKept DEF ServedSoFar

LEMMA ServedWriteBack ==
    ASSUME ServedInv, NEW r \in Runs, WriteBack(r) PROVE ServedSoFar'
<1> USE DEF ServedInv, IInv
<1>1. PICK u \in Subs :
        /\ phase[r] = "bulk"
        /\ held' = [held EXCEPT ![u] =
                     [p \in Slots |-> IF p \in job[r].over THEN NoNumber
                                      ELSE IF p \in SliceSlots THEN seen[r][u][p]
                                      ELSE @[p]]]
        /\ at' = [at EXCEPT ![r] = u + 1]
        /\ UNCHANGED <<phase, job, seen, cursor, clamped, clean, spoiled>>
  BY DEF WriteBack
<1>2. job[r].pools = SliceSlots /\ job[r].over \subseteq SliceSlots /\ Active(r)
  BY SlotFacts, <1>1, JobTypes DEF TypeOK, AtItsPool, Active
<1>3. \A w \in Subs, p \in Pools \ SlicePools : held'[w][p] = held[w][p]
  BY SlotFacts, <1>1, <1>2 DEF TypeOK
<1>4. \A q \in Runs \ {r} : Same4(q) /\ clean'[q] = clean[q] /\ clamped'[q] = clamped[q]
  BY <1>1 DEF TypeOK, Same4
<1> SUFFICES ASSUME NEW q \in Runs, NEW p \in Pools \ spoiled PROVE RunServes(q, p)'
  BY <1>1 DEF ServedSoFar
<1>5. CASE q = r
  BY <1>1, <1>5 DEF RunServes, Pools, Slots, SliceSlots
<1>6. CASE q # r /\ p \in SlicePools
  <2>1. phase[q] # p
    BY SlotFacts, <1>2, <1>6, NobodyElse
  <2> QED BY <1>1, <2>1 DEF RunServes
<1>7. CASE q # r /\ p \notin SlicePools
  BY <1>3, <1>4, <1>7, ServesKept DEF ServedSoFar
<1> QED BY <1>5, <1>6, <1>7

LEMMA ServedWriteBackFails ==
    ASSUME ServedInv, NEW r \in Runs, WriteBackFails(r) PROVE ServedSoFar'
<1> USE DEF ServedInv, IInv
<1>1. phase[r] = "bulk" /\ UNCHANGED <<held, phase, spoiled>>
  BY DEF WriteBackFails
<1>2. \A q \in Runs \ {r} : Same4(q) /\ clean'[q] = clean[q] /\ clamped'[q] = clamped[q]
  BY DEF WriteBackFails, TypeOK, Same4
<1>3. \A p \in Pools : RunServes(r, p)'
  BY <1>1 DEF RunServes, Pools, Slots, SliceSlots
<1> QED BY <1>1, <1>2, <1>3, ServesKept DEF ServedSoFar

LEMMA ServedEdit ==
    ASSUME ServedInv, NEW u \in Subs, NEW o \in Slots, NEW n \in Numbers \cup {NoNumber},
           Edit(u, o, n)
    PROVE  ServedSoFar'
<1> USE DEF ServedInv, IInv
<1>1. /\ held' = [held EXCEPT ![u][o] = n]
      /\ UNCHANGED local /\ spoiled \subseteq spoiled'
  BY DEF Edit
<1>2. \A w \in Subs, p \in Slots : p # o => held'[w][p] = held[w][p]
  BY <1>1 DEF TypeOK
<1> SUFFICES ASSUME NEW q \in Runs, NEW p \in Pools \ spoiled' PROVE RunServes(q, p)'
  BY DEF ServedSoFar
<1>3. CASE p = o
  <2>1. ~(Active(q) /\ o \in job[q].pools)
    BY <1>3 DEF Edit
  <2>2. phase[q] # o
    BY <2>1 DEF TypeOK, AtItsPool, Active, Pools, Slots, SliceSlots
  <2> QED BY <1>1, <1>3, <2>2 DEF RunServes, local
<1>4. CASE p # o
  <2>1. Same4(q) /\ clean'[q] = clean[q] /\ clamped'[q] = clamped[q]
    BY <1>1 DEF local, Same4
  <2> QED BY <1>1, <1>2, <1>4, <2>1, ServesKept DEF ServedSoFar
<1> QED BY <1>3, <1>4

LEMMA ServedNext == ServedInv /\ [Next]_vars => ServedInv'
<1> SUFFICES ASSUME ServedInv, [Next]_vars PROVE ServedInv'
  OBVIOUS
<1>1. IInv'
  BY InvNext DEF ServedInv
<1>2. ASSUME NEW r \in Runs, RunStep(r) PROVE ServedSoFar'
  <2>1. Exhausted(r) => ServedSoFar'
    BY ServedPhaseEnds DEF Exhausted
  <2>2. PhaseDone(r) => ServedSoFar'
    BY ServedPhaseEnds DEF PhaseDone
  <2> QED BY <1>2, <2>1, <2>2, ServedList, ServedGive, ServedGiveFails,
             ServedWriteBack, ServedWriteBackFails DEF RunStep
<1>3. ASSUME NEW u \in Subs, NEW p \in Slots, NEW n \in Numbers \cup {NoNumber},
             Edit(u, p, n)
      PROVE  ServedSoFar'
  BY <1>3, ServedEdit
<1>4. Restart => ServedSoFar'
  BY DEF Restart, ServedSoFar, RunServes, Pools, Slots, SliceSlots
<1>5. UNCHANGED vars => ServedSoFar'
  BY DEF vars, local, ServedInv, ServedSoFar, RunServes, Settled
<1>6. ServedSoFar'
  BY <1>2, <1>3, <1>4, <1>5 DEF Next
<1> QED BY <1>1, <1>6 DEF ServedInv

\* What a run has not been through and would pass over is settled too.
LEMMA ServedAtTheEnd ==
    ASSUME ServedInv, NEW r \in Runs, phase[r] \in Pools \ spoiled, clean[r], NoneDue(r),
           NEW u \in job[r].scope
    PROVE  \/ <<u, phase[r]>> \in Lacking
           \/ /\ phase[r] \notin job[r].over
              /\ held[u][phase[r]] = seen[r][u][phase[r]]
              /\ seen[r][u][phase[r]] # NoNumber
           \/ /\ held[u][phase[r]] \in job[r].lo[phase[r]]..job[r].hi[phase[r]]
              /\ clamped[r] => held[u][phase[r]] \in
                                  Dynamic[phase[r]].lo..Dynamic[phase[r]].hi
<1> USE DEF ServedInv, IInv
<1>1. u \in Subs /\ u \in Nat /\ at[r] \in Nat
  BY ScopeTypes, SizeAssumption DEF TypeOK, Subs
<1>2. Settled(r, u, phase[r])
  <2>1. CASE u < at[r]
    BY <2>1 DEF ServedSoFar, RunServes
  <2>2. CASE u >= at[r]
    BY <1>1, <2>2 DEF NoneDue, Due, Settled
  <2> QED BY <1>1, <2>1, <2>2
<1>3. phase[r] \notin job[r].over /\ seen[r][u][phase[r]] # NoNumber =>
          held[u][phase[r]] = seen[r][u][phase[r]]
  BY SlotFacts, <1>1 DEF ListTrue, Passed, Same
<1> QED BY <1>2, <1>3 DEF Settled

(* A phase that ends without an error and without company has given every  *)
(* subscriber in scope a number of the range that was asked for, inside    *)
(* the profile's if its lookup went through.                               *)
THEOREM ServedTheorem == Spec => Served
<1>1. Init => ServedInv
  BY InvInit DEF ServedInv, ServedSoFar, RunServes, Init, Pools, Slots, SliceSlots
<1>2. ServedInv /\ [Next]_vars =>
        [\A r \in Runs :
            LET p == phase[r] IN
            /\ p \in Pools \ spoiled
            /\ clean[r] /\ NoneDue(r)
            /\ phase'[r] # p
            => \A u \in job[r].scope :
                  \/ <<u, p>> \in Lacking
                  \/ p \notin job[r].over /\ held[u][p] = seen[r][u][p]
                        /\ seen[r][u][p] # NoNumber
                  \/ /\ held[u][p] \in job[r].lo[p]..job[r].hi[p]
                     /\ clamped[r] => held[u][p] \in Dynamic[p].lo..Dynamic[p].hi]_vars
  BY ServedAtTheEnd
<1> QED BY <1>1, <1>2, ServedNext, PTL DEF Spec, Served

-----------------------------------------------------------------------------
(* The UE block service *)

PassLabels == {"idle", "list", "plan", "clear", "each", "move", "pair", "record"}

LEMMA PassesFinite == IsFiniteSet(Passes)
BY UeBoundsAssumption DEF Passes

UeFinite ==
    /\ IsFiniteSet(rules)
    /\ \A p \in Passes : IsFiniteSet(found[p]) /\ IsFiniteSet(doomed[p])

(* A pass deletes and moves where its label says; it moves one IMSI at a   *)
(* time, that it read in the table, to an address, and adds one rule of    *)
(* the pair first.                                                         *)
ShapeOf(p) ==
    /\ doomed[p] # {} => pc[p] \in {"clear", "move"}
    /\ moving[p] # {} => pc[p] \in {"move", "pair", "record"}
    /\ \A u, v \in moving[p] : u = v
    /\ \A u \in moving[p] : IpFor(p, u) \in Ips
    /\ \A u \in todo[p] : want[p][u] # Absent
    /\ pc[p] = "move" => \A r \in doomed[p] : r.imsi \in moving[p]
    /\ first[p] # {} => pc[p] = "pair"
    /\ \A r \in first[p] : \A u \in moving[p] :
          r.imsi = u /\ r.ip = IpFor(p, u) /\ r.way = "from"

PassProper == \A p \in Passes : ShapeOf(p)

(* No pass may delete the rule and keep another of the IMSI.               *)
Whole(u, r) == \A p \in Passes : r \in Held(p) => RulesOf(u) \subseteq Held(p)

(* The IMSI has no rule, or one pass is about to delete all it has, or it  *)
(* is dropped on the address both ways, by rules of which no pass may      *)
(* delete one and keep another.                                            *)
DropsOn(u, i) ==
    \/ RulesOf(u) = {}
    \/ \E p \in Passes : pc[p] = "clear" /\ RulesOf(u) \subseteq doomed[p]
    \/ \A w \in Ways : \E r \in RulesOf(u) : r.ip = i /\ r.way = w /\ Whole(u, r)

OneMoves ==
    \A u \in Imsis \ torn : \A p, q \in Passes :
        u \in moving[p] /\ u \in moving[q] => p = q

RowDrops ==
    \A u \in Imsis \ torn : row[u] \in Ips /\ ~ InMotion(u) => DropsOn(u, row[u])

(* What is about to be recorded is true already.                           *)
AddedDrops ==
    \A u \in Imsis \ torn : \A p \in Passes :
        pc[p] = "record" /\ u \in moving[p] => DropsOn(u, IpFor(p, u))

UeTyped == UeTypeOK /\ UeFinite
UeInv == UeTyped /\ PassProper /\ OneMoves /\ RowDrops /\ AddedDrops

-----------------------------------------------------------------------------
(* Types *)

\* A rule that is added is none the kernel has or a pass knows.
LEMMA RuleFresh ==
    ASSUME UeTyped, NEW u \in Imsis, NEW i \in Ips, NEW w \in Ways
    PROVE  /\ FreshRule(u, i, w) \in Rules /\ FreshRule(u, i, w) \notin KnownRules
           /\ FreshRule(u, i, w).imsi = u /\ FreshRule(u, i, w).ip = i
           /\ FreshRule(u, i, w).way = w
<1> DEFINE listing(p) == found[p] \cup doomed[p]
           rule(n) == [h |-> n, imsi |-> u, ip |-> i, way |-> w]
           some == 1..Cardinality(KnownRules) + 1
           drawn == {rule(n) : n \in some}
<1>1. \A p \in Passes : IsFiniteSet(listing(p))
  BY FS_Union DEF UeTyped, UeFinite
<1>2. IsFiniteSet({listing(p) : p \in Passes})
  <2> DEFINE f == [p \in Passes |-> listing(p)]
             T == {listing(p) : p \in Passes}
  <2>1. f \in Surjection(Passes, T)
    BY DEF Surjection
  <2> HIDE DEF f, T
  <2>2. IsFiniteSet(T)
    BY <2>1, PassesFinite, FS_Surjection
  <2> QED BY <2>2 DEF T
<1>3. IsFiniteSet(KnownRules)
  <2> DEFINE U == UNION {listing(p) : p \in Passes}
  <2>1. IsFiniteSet(U)
    BY <1>1, <1>2, FS_UNION
  <2>2. IsFiniteSet(rules \cup U)
    <3> HIDE DEF U
    <3> QED BY <2>1, FS_Union DEF UeTyped, UeFinite
  <2> QED BY <2>2 DEF KnownRules
<1>4. Cardinality(KnownRules) \in Nat
  BY <1>3, FS_CardinalityType
<1>5. IsFiniteSet(some) /\ Cardinality(some) = Cardinality(KnownRules) + 1
  BY <1>4, FS_Interval
<1>6. IsFiniteSet(drawn) /\ Cardinality(drawn) = Cardinality(some)
  <2> DEFINE g == [n \in some |-> rule(n)]
  <2>1. g \in Bijection(some, drawn)
    <3> HIDE DEF some
    <3>1. \A n, m \in some : rule(n) = rule(m) => n = m
      <4> TAKE n \in some, m \in some
      <4> SUFFICES ASSUME rule(n) = rule(m) PROVE n = m
        OBVIOUS
      <4>1. rule(n).h = n /\ rule(m).h = m
        OBVIOUS
      <4> HIDE DEF rule
      <4> QED BY <4>1
    <3>2. g \in [some -> drawn] /\ \A n \in some : g[n] = rule(n)
      <4> HIDE DEF rule
      <4> QED OBVIOUS
    <3>3. \A r \in drawn : \E n \in some : g[n] = r
      <4> HIDE DEF rule
      <4> QED OBVIOUS
    <3> HIDE DEF rule, g, drawn
    <3>4. \A a, b \in some : g[a] = g[b] => a = b
      BY <3>1, <3>2
    <3> QED BY <3>2, <3>3, <3>4 DEF Bijection, Injection, Surjection, IsInjective
  <2>2. PICK f \in Bijection(some, drawn) : TRUE
    BY <2>1
  <2> HIDE DEF g, drawn, some, rule
  <2> QED BY <1>5, <2>2, FS_Bijection DEF ExistsBijection
<1>7. \E n \in some : rule(n) \notin KnownRules
  <2> SUFFICES ASSUME drawn \subseteq KnownRules PROVE FALSE
    OBVIOUS
  <2> HIDE DEF some, drawn
  <2> QED BY <1>3, <1>4, <1>5, <1>6, FS_Subset
<1>8. FreshRule(u, i, w) = rule(CHOOSE n \in some : rule(n) \notin KnownRules)
  BY DEF FreshRule
<1> DEFINE m == CHOOSE n \in some : rule(n) \notin KnownRules
<1>9. m \in some /\ rule(m) \notin KnownRules
  <2> HIDE DEF some, rule
  <2> QED BY <1>7
<1>10. m \in Nat \ {0}
  <2> HIDE DEF m, rule
  <2> QED BY <1>4, <1>9
<1>11. FreshRule(u, i, w) = rule(m)
  BY <1>8
<1> HIDE DEF m
<1> QED BY <1>9, <1>10, <1>11 DEF Rules

LEMMA UeTypeInit == UeInit => UeTyped
<1> USE UeBoundsAssumption, FS_EmptySet
<1>1. UeInit => UeTypeOK
  BY DEF UeInit, UeTypeOK, NoRows, NoAddrs
<1>2. UeInit => UeFinite
  BY DEF UeInit, UeFinite
<1> QED BY <1>1, <1>2 DEF UeTyped

LEMMA EventTyped == Event /\ events \in 0..MaxUeEvents => events' \in 0..MaxUeEvents
BY UeBoundsAssumption DEF Event

LEMMA UeTypeStep == UeTyped /\ PassProper /\ [UeNext]_ueVars => UeTypeOK'
<1> SUFFICES ASSUME UeTyped, PassProper, [UeNext]_ueVars PROVE UeTypeOK'
  OBVIOUS
<1> USE UeBoundsAssumption DEF UeTyped, UeTypeOK, Goto, pass, history
<1>1. ASSUME NEW h \in Handlers, NEW u \in Imsis, Block(h, u) \/ Unblock(h, u)
      PROVE  UeTypeOK'
  <2>1. h \in Passes
    BY DEF Passes
  <2>2. CASE Block(h, u)
    <3>1. row' \in [Imsis -> Ips \cup {Absent, NoIp}] /\ events' \in 0..MaxUeEvents
      BY <2>2, EventTyped DEF Block
    <3> QED BY <2>1, <2>2, <3>1 DEF Block
  <2>3. CASE Unblock(h, u)
    <3>1. row' \in [Imsis -> Ips \cup {Absent, NoIp}] /\ events' \in 0..MaxUeEvents
      BY <2>3, EventTyped DEF Unblock
    <3> QED BY <2>1, <2>3, <3>1 DEF Unblock
  <2> QED BY <1>1, <2>2, <2>3
<1>2. ASSUME NEW t \in Timers, TimerFires(t) PROVE UeTypeOK'
  <2>1. t \in Passes
    BY DEF Passes
  <2> QED BY <1>2, <2>1 DEF TimerFires
<1>3. ASSUME NEW p \in Passes, ListRules(p) PROVE UeTypeOK'
  BY <1>3, EventTyped DEF ListRules
<1>4. ASSUME NEW p \in Passes, Plan(p) PROVE UeTypeOK'
  BY <1>4 DEF Plan
<1>5. ASSUME NEW p \in Passes, DeleteDoomed(p) PROVE UeTypeOK'
  <2>1. PICK r \in doomed[p] :
          /\ doomed' = [doomed EXCEPT ![p] = @ \ {r}]
          /\ \/ rules' = rules \ {r} /\ UNCHANGED <<torn, events>>
             \/ /\ UNCHANGED rules /\ Event
                /\ torn' = torn \cup {u \in {r.imsi} : pc[p] = "clear" /\ Needed(u)}
    BY <1>5 DEF DeleteDoomed
  <2>2. r.imsi \in Imsis
    BY DEF Rules
  <2>3. torn' \subseteq Imsis /\ events' \in 0..MaxUeEvents /\ rules' \subseteq Rules
    BY <2>1, <2>2, EventTyped
  <2>4. doomed' \in [Passes -> SUBSET Rules]
    BY <2>1
  <2> QED BY <1>5, <2>3, <2>4 DEF DeleteDoomed
<1>6. ASSUME NEW p \in Passes, AskAddresses(p) PROVE UeTypeOK'
  <2>1. current' \in [Passes -> [Imsis -> Ips \cup {NoIp}]] /\ events' \in 0..MaxUeEvents
    BY <1>6, EventTyped DEF AskAddresses, NoAddrs
  <2> QED BY <1>6, <2>1 DEF AskAddresses
<1>8. ASSUME NEW p \in Passes, MoveRules(p) PROVE UeTypeOK'
  BY <1>8 DEF MoveRules, Listed
<1>7. ASSUME NEW p \in Passes, AddFrom(p) PROVE UeTypeOK'
  <2>1. PICK u \in moving[p] :
          LET rule == RuleFor(p, u, "from") IN
          \/ /\ rules' = rules \cup {rule} /\ first' = [first EXCEPT ![p] = {rule}]
             /\ UNCHANGED events
          \/ UNCHANGED <<rules, first>> /\ Event
    BY <1>7 DEF AddFrom
  <2>2. RuleFor(p, u, "from") \in Rules
    BY RuleFresh DEF RuleFor, PassProper, ShapeOf, Ways
  <2>3. rules' \subseteq Rules /\ first' \in [Passes -> SUBSET Rules] /\ events' \in 0..MaxUeEvents
    BY <2>1, <2>2, EventTyped
  <2> QED BY <1>7, <2>3 DEF AddFrom
<1>9. ASSUME NEW p \in Passes, AddTo(p) PROVE UeTypeOK'
  <2>1. PICK u \in moving[p] :
          \/ /\ rules' = rules \cup {RuleFor(p, u, "to")} /\ UNCHANGED events
             /\ torn' = torn \cup {v \in {u} : ~ FirstStays(p)}
          \/ /\ UNCHANGED rules /\ Event
             /\ torn' = torn \cup {v \in {u} : RulesOf(v) # {}}
    BY <1>9 DEF AddTo
  <2>2. RuleFor(p, u, "to") \in Rules
    BY RuleFresh DEF RuleFor, PassProper, ShapeOf, Ways
  <2>3. u \in Imsis
    OBVIOUS
  <2>4. rules' \subseteq Rules /\ torn' \subseteq Imsis /\ events' \in 0..MaxUeEvents
    BY <2>1, <2>2, <2>3, EventTyped
  <2> QED BY <1>9, <2>4 DEF AddTo
<1>10. ASSUME NEW p \in Passes, RecordIp(p) PROVE UeTypeOK'
  <2>1. row' \in [Imsis -> Ips \cup {Absent, NoIp}]
    BY <1>10 DEF RecordIp, PassProper, ShapeOf
  <2> QED BY <1>10, <2>1 DEF RecordIp
<1>11. ASSUME NEW p \in Passes, Finish(p) PROVE UeTypeOK'
  <2>1. /\ want' \in [Passes -> [Imsis -> Ips \cup {Absent, NoIp}]]
        /\ current' \in [Passes -> [Imsis -> Ips \cup {NoIp}]]
        /\ found' \in [Passes -> SUBSET Rules] /\ todo' \in [Passes -> SUBSET Imsis]
    BY <1>11 DEF Finish, NoRows, NoAddrs
  <2> QED BY <1>11, <2>1 DEF Finish
<1>12. ASSUME NEW u \in Imsis, (\E i \in Ips : Attach(u, i)) \/ Detach(u) PROVE UeTypeOK'
  BY <1>12, EventTyped DEF Attach, Detach
<1>13. ASSUME BackendRestarts \/ HostReboots PROVE UeTypeOK'
  <2>1. /\ want' = [p \in Passes |-> NoRows] /\ current' = [p \in Passes |-> NoAddrs]
        /\ pc' = [p \in Passes |-> "idle"] /\ found' = [p \in Passes |-> {}]
        /\ doomed' = [p \in Passes |-> {}] /\ todo' = [p \in Passes |-> {}]
        /\ moving' = [p \in Passes |-> {}] /\ first' = [p \in Passes |-> {}]
        /\ UNCHANGED <<row, addr>>
        /\ Event
    BY <1>13 DEF BackendRestarts, HostReboots, PassesLost
  <2>2. rules' \subseteq Rules /\ torn' \subseteq Imsis
    BY <1>13 DEF BackendRestarts, HostReboots
  <2>3. NoRows \in [Imsis -> Ips \cup {Absent, NoIp}] /\ NoAddrs \in [Imsis -> Ips \cup {NoIp}]
    BY DEF NoRows, NoAddrs
  <2>4. /\ want' \in [Passes -> [Imsis -> Ips \cup {Absent, NoIp}]]
        /\ current' \in [Passes -> [Imsis -> Ips \cup {NoIp}]]
    BY <2>1, <2>3
  <2>5. events' \in 0..MaxUeEvents
    BY <2>1, EventTyped
  <2> QED BY <2>1, <2>2, <2>4, <2>5
<1>14. ASSUME UNCHANGED ueVars PROVE UeTypeOK'
  BY <1>14 DEF ueVars
<1> QED BY <1>1, <1>2, <1>3, <1>4, <1>5, <1>6, <1>7, <1>8, <1>9, <1>10, <1>11, <1>12,
           <1>13, <1>14
        DEF UeNext, PassStep, Clear, DeleteOld

LEMMA UeFiniteStep ==
    ASSUME UeTyped, [UeNext]_ueVars
    PROVE  UeFinite'
<1> USE PassesFinite DEF UeTyped, UeTypeOK, UeFinite, pass, history
<1>1. ASSUME NEW h \in Handlers, NEW u \in Imsis, Block(h, u) \/ Unblock(h, u)
      PROVE  UeFinite'
  BY <1>1 DEF Block, Unblock
<1>2. ASSUME NEW t \in Timers, TimerFires(t) PROVE UeFinite'
  BY <1>2 DEF TimerFires
<1>3. ASSUME NEW p \in Passes, ListRules(p) PROVE UeFinite'
  BY <1>3, FS_EmptySet DEF ListRules
<1>4. ASSUME NEW p \in Passes, Plan(p) PROVE UeFinite'
  <2> DEFINE gone == {r \in found[p] : row[r.imsi] = Absent}
  <2>1. IsFiniteSet(gone)
    BY FS_Subset
  <2>2. doomed' = [doomed EXCEPT ![p] = gone] /\ UNCHANGED <<rules, found>>
    BY <1>4 DEF Plan
  <2> HIDE DEF gone
  <2> QED BY <2>1, <2>2
<1>5. ASSUME NEW p \in Passes, DeleteDoomed(p) PROVE UeFinite'
  <2>1. PICK r \in doomed[p] : /\ doomed' = [doomed EXCEPT ![p] = @ \ {r}]
                               /\ rules' = rules \ {r} \/ rules' = rules
    BY <1>5 DEF DeleteDoomed
  <2>2. IsFiniteSet(doomed[p] \ {r}) /\ IsFiniteSet(rules \ {r})
    BY FS_RemoveElement
  <2>3. found' = found
    BY <1>5 DEF DeleteDoomed
  <2> QED BY <2>1, <2>2, <2>3
<1>6. ASSUME NEW p \in Passes, AskAddresses(p) \/ RecordIp(p) PROVE UeFinite'
  BY <1>6 DEF AskAddresses, RecordIp
<1>7. ASSUME NEW p \in Passes, MoveRules(p) PROVE UeFinite'
  <2>1. PICK u \in todo[p] : doomed' = [doomed EXCEPT ![p] = Listed(p, u)]
    BY <1>7 DEF MoveRules
  <2>2. IsFiniteSet(Listed(p, u))
    BY FS_Subset DEF Listed
  <2>3. UNCHANGED <<rules, found>>
    BY <1>7 DEF MoveRules
  <2> QED BY <2>1, <2>2, <2>3
<1>8. ASSUME NEW p \in Passes, AddFrom(p) \/ AddTo(p) PROVE UeFinite'
  <2>1. PICK rule : rules' = rules \cup {rule} \/ rules' = rules
    BY <1>8 DEF AddFrom, AddTo
  <2>2. IsFiniteSet(rules \cup {rule})
    BY FS_AddElement
  <2> QED BY <1>8, <2>1, <2>2 DEF AddFrom, AddTo
<1>9. ASSUME NEW p \in Passes, Finish(p) PROVE UeFinite'
  BY <1>9, FS_EmptySet DEF Finish
<1>10. ASSUME NEW u \in Imsis, (\E i \in Ips : Attach(u, i)) \/ Detach(u) PROVE UeFinite'
  BY <1>10 DEF Attach, Detach
<1>11. ASSUME BackendRestarts \/ HostReboots PROVE UeFinite'
  <2>1. /\ rules' = rules \/ rules' = {}
        /\ doomed' = [p \in Passes |-> {}] /\ found' = [p \in Passes |-> {}]
    BY <1>11 DEF BackendRestarts, HostReboots, PassesLost
  <2> QED BY <2>1, FS_EmptySet
<1>12. ASSUME UNCHANGED ueVars PROVE UeFinite'
  BY <1>12 DEF ueVars
<1> QED BY <1>1, <1>2, <1>3, <1>4, <1>5, <1>6, <1>7, <1>8, <1>9, <1>10, <1>11, <1>12
        DEF UeNext, PassStep, Clear, DeleteOld

-----------------------------------------------------------------------------
(* The shape of a pass *)

(* A pass of which nothing changes keeps its shape.                        *)
LEMMA ShapeKept ==
    ASSUME NEW p \in Passes, ShapeOf(p), pc'[p] = pc[p], doomed'[p] = doomed[p],
           moving'[p] = moving[p], todo'[p] = todo[p], want'[p] = want[p],
           current'[p] = current[p], first'[p] = first[p]
    PROVE  ShapeOf(p)'
BY DEF ShapeOf, IpFor

LEMMA ShapeStep ==
    ASSUME UeTyped, PassProper, [UeNext]_ueVars
    PROVE  PassProper'
<1>s. \A p \in Passes : ShapeOf(p)
  BY DEF PassProper
<1> SUFFICES ASSUME NEW p \in Passes PROVE ShapeOf(p)'
  BY DEF PassProper
<1> USE DEF UeTyped, UeTypeOK, Goto, pass, history
<1>f. /\ pc[p] \notin {"move", "pair", "record"} => moving[p] = {}
      /\ pc[p] # "pair" => first[p] = {}
      /\ pc[p] = "pair" => doomed[p] = {}
  BY <1>s DEF ShapeOf
<1>1. ASSUME NEW h \in Handlers, NEW u \in Imsis, Block(h, u) \/ Unblock(h, u)
      PROVE  ShapeOf(p)'
  <2>1. UNCHANGED <<doomed, moving, todo, want, current, first>>
    BY <1>1 DEF Block, Unblock
  <2>2. \/ pc'[p] = pc[p]
        \/ pc[p] = "idle" /\ pc'[p] = "list"
    BY <1>1 DEF Block, Unblock
  <2> QED BY <1>s, <2>1, <2>2, ShapeKept DEF ShapeOf, IpFor
<1>2. ASSUME NEW t \in Timers, TimerFires(t) PROVE ShapeOf(p)'
  <2>1. UNCHANGED <<doomed, moving, todo, want, current, first>>
    BY <1>2 DEF TimerFires
  <2>2. \/ pc'[p] = pc[p]
        \/ pc[p] = "idle" /\ pc'[p] = "list"
    BY <1>2 DEF TimerFires
  <2> QED BY <1>s, <2>1, <2>2, ShapeKept DEF ShapeOf, IpFor
<1>3. ASSUME NEW q \in Passes, PassStep(q), q # p PROVE ShapeOf(p)'
  <2>1. /\ pc'[p] = pc[p] /\ doomed'[p] = doomed[p] /\ moving'[p] = moving[p]
        /\ todo'[p] = todo[p] /\ want'[p] = want[p] /\ current'[p] = current[p]
        /\ first'[p] = first[p]
    BY <1>3 DEF PassStep, ListRules, Plan, Clear, DeleteOld, DeleteDoomed, AskAddresses,
                MoveRules, AddFrom, AddTo, RecordIp, Finish
  <2> QED BY <1>s, <2>1, ShapeKept
<1>4. ASSUME ListRules(p) PROVE ShapeOf(p)'
  BY <1>4, <1>s DEF ListRules, ShapeOf, IpFor
<1>5. ASSUME Plan(p) PROVE ShapeOf(p)'
  <2>1. moving[p] = {} /\ first[p] = {} /\ UNCHANGED <<moving, first>> /\ pc'[p] = "clear"
    BY <1>5, <1>f DEF Plan
  <2>2. \A u \in todo'[p] : want'[p][u] # Absent
    BY <1>5 DEF Plan
  <2> QED BY <2>1, <2>2 DEF ShapeOf
<1>6. ASSUME Clear(p) \/ DeleteOld(p) PROVE ShapeOf(p)'
  <2>1. PICK r \in doomed[p] : doomed' = [doomed EXCEPT ![p] = @ \ {r}]
    BY <1>6 DEF Clear, DeleteOld, DeleteDoomed
  <2>2. doomed'[p] = doomed[p] \ {r} /\ UNCHANGED <<pc, moving, todo, want, current, first>>
    BY <1>6, <2>1 DEF Clear, DeleteOld, DeleteDoomed
  <2> QED BY <1>s, <2>2 DEF ShapeOf, IpFor
<1>7. ASSUME AskAddresses(p) PROVE ShapeOf(p)'
  <2>1. /\ moving[p] = {} /\ doomed[p] = {} /\ first[p] = {} /\ pc'[p] = "each"
        /\ UNCHANGED <<moving, doomed, todo, want, first>>
    BY <1>7, <1>f DEF AskAddresses
  <2> QED BY <1>s, <2>1 DEF ShapeOf
<1>9. ASSUME MoveRules(p) PROVE ShapeOf(p)'
  <2>1. PICK u \in todo[p] :
          /\ NeedsInstall(p, u)
          /\ doomed'[p] = Listed(p, u) /\ todo'[p] = todo[p] \ {u} /\ moving'[p] = {u}
          /\ pc'[p] = "move" /\ first[p] = {} /\ UNCHANGED <<want, current, first>>
    BY <1>9, <1>f DEF MoveRules
  <2>2. IpFor(p, u)' = IpFor(p, u)
    BY <2>1 DEF IpFor
  <2>3. u \in Imsis /\ want[p][u] # Absent
    BY <1>s DEF ShapeOf
  <2>4. IpFor(p, u) \in Ips
    BY <2>1, <2>3 DEF IpFor, NeedsInstall
  <2>5. \A r \in doomed'[p] : r.imsi = u
    BY <2>1 DEF Listed
  <2> QED BY <1>s, <2>1, <2>2, <2>4, <2>5 DEF ShapeOf
<1>8. ASSUME AddFrom(p) PROVE ShapeOf(p)'
  <2>1. /\ doomed[p] = {} /\ pc'[p] = "pair" /\ pc[p] = "move"
        /\ UNCHANGED <<doomed, moving, todo, want, current>>
    BY <1>8 DEF AddFrom
  <2>2. first[p] = {}
    BY <1>s, <2>1 DEF ShapeOf
  <2>3. PICK u \in moving[p] : first'[p] = {RuleFor(p, u, "from")} \/ first'[p] = {}
    BY <1>8, <2>2 DEF AddFrom
  <2>4. u \in Imsis /\ IpFor(p, u) \in Ips /\ \A v \in moving[p] : v = u
    BY <1>s DEF ShapeOf
  <2>5. \A r \in first'[p] : r.imsi = u /\ r.ip = IpFor(p, u) /\ r.way = "from"
    BY <2>3, <2>4, RuleFresh DEF RuleFor, Ways
  <2>6. \A v \in moving[p] : IpFor(p, v)' = IpFor(p, v)
    BY <2>1 DEF IpFor
  <2> HIDE DEF IpFor
  <2> QED BY <1>s, <2>1, <2>4, <2>5, <2>6 DEF ShapeOf
<1>10. ASSUME AddTo(p) PROVE ShapeOf(p)'
  <2>1. doomed[p] = {} /\ pc'[p] = "record" /\ UNCHANGED <<doomed, moving, todo, want, current>>
    BY <1>10, <1>f DEF AddTo
  <2>2. first'[p] = {}
    BY <1>10 DEF AddTo
  <2> QED BY <1>s, <2>1, <2>2 DEF ShapeOf, IpFor
<1>11. ASSUME RecordIp(p) PROVE ShapeOf(p)'
  <2>1. /\ pc[p] = "record" /\ pc'[p] = "each" /\ moving'[p] = {}
        /\ first[p] = {} /\ UNCHANGED <<doomed, todo, want, first>>
    BY <1>11, <1>f DEF RecordIp
  <2> QED BY <1>s, <2>1 DEF ShapeOf
<1>12. ASSUME Finish(p) PROVE ShapeOf(p)'
  <2>1. /\ pc[p] = "each" /\ pc'[p] = "idle" /\ todo'[p] = {}
        /\ first[p] = {} /\ moving[p] = {} /\ UNCHANGED <<doomed, moving, first>>
    BY <1>12, <1>f DEF Finish
  <2> QED BY <1>s, <2>1 DEF ShapeOf
<1>13. ASSUME NEW u \in Imsis, (\E i \in Ips : Attach(u, i)) \/ Detach(u) PROVE ShapeOf(p)'
  BY <1>13, <1>s, ShapeKept DEF Attach, Detach
<1>14. ASSUME BackendRestarts \/ HostReboots PROVE ShapeOf(p)'
  <2>1. doomed'[p] = {} /\ moving'[p] = {} /\ todo'[p] = {} /\ first'[p] = {}
    BY <1>14 DEF BackendRestarts, HostReboots, PassesLost
  <2> QED BY <2>1 DEF ShapeOf
<1>15. ASSUME UNCHANGED ueVars PROVE ShapeOf(p)'
  BY <1>15, <1>s, ShapeKept DEF ueVars
<1> QED BY <1>1, <1>2, <1>3, <1>4, <1>5, <1>6, <1>7, <1>8, <1>9, <1>10, <1>11, <1>12,
           <1>13, <1>14, <1>15
        DEF UeNext, PassStep

-----------------------------------------------------------------------------
(* The address in the table *)

LEMMA TornKept ==
    ASSUME UeTypeOK, [UeNext]_ueVars
    PROVE  torn \subseteq torn'
<1>1. ASSUME NEW p \in Passes, PassStep(p) PROVE torn \subseteq torn'
  BY <1>1 DEF PassStep, ListRules, Plan, Clear, DeleteOld, DeleteDoomed, AskAddresses,
              MoveRules, AddFrom, AddTo, RecordIp, Finish, history
<1>2. ASSUME BackendRestarts \/ HostReboots PROVE torn \subseteq torn'
  BY <1>2 DEF BackendRestarts, HostReboots
<1>3. ASSUME \/ \E h \in Handlers, u \in Imsis : Block(h, u) \/ Unblock(h, u)
             \/ \E t \in Timers : TimerFires(t)
             \/ \E u \in Imsis : (\E i \in Ips : Attach(u, i)) \/ Detach(u)
             \/ UNCHANGED ueVars
      PROVE  torn \subseteq torn'
  BY <1>3 DEF Block, Unblock, TimerFires, Attach, Detach, ueVars, history
<1> QED BY <1>1, <1>2, <1>3 DEF UeNext

LEMMA OneMovesStep ==
    ASSUME UeTypeOK, OneMoves, [UeNext]_ueVars
    PROVE  OneMoves'
<1>1. torn \subseteq torn'
  BY TornKept
<1>2. CASE \A p \in Passes : moving'[p] \subseteq moving[p]
  BY <1>1, <1>2 DEF OneMoves
<1>3. ASSUME NEW p \in Passes, MoveRules(p) PROVE OneMoves'
  <2>1. PICK u \in todo[p] : /\ moving' = [moving EXCEPT ![p] = {u}]
                             /\ torn' = torn \cup {v \in {u} : InMotion(v)}
    BY <1>3 DEF MoveRules
  <2>2. \A q \in Passes : q # p => moving'[q] = moving[q]
    BY <2>1 DEF UeTypeOK
  <2>3. moving'[p] = {u}
    BY <2>1 DEF UeTypeOK
  <2>4. \A v \in Imsis \ torn' : v = u => \A q \in Passes : v \notin moving[q]
    BY <2>1 DEF InMotion
  <2> QED BY <1>1, <2>2, <2>3, <2>4 DEF OneMoves
<1>4. ASSUME NEW p \in Passes, PassStep(p), ~ MoveRules(p)
      PROVE  \A q \in Passes : moving'[q] \subseteq moving[q]
  BY <1>4 DEF PassStep, ListRules, Plan, Clear, DeleteOld, DeleteDoomed, AskAddresses,
              AddFrom, AddTo, RecordIp, Finish, UeTypeOK, pass
<1>5. ASSUME BackendRestarts \/ HostReboots
      PROVE  \A q \in Passes : moving'[q] \subseteq moving[q]
  BY <1>5 DEF BackendRestarts, HostReboots, PassesLost
<1>6. ASSUME \/ \E h \in Handlers, u \in Imsis : Block(h, u) \/ Unblock(h, u)
             \/ \E t \in Timers : TimerFires(t)
             \/ \E u \in Imsis : (\E i \in Ips : Attach(u, i)) \/ Detach(u)
             \/ UNCHANGED ueVars
      PROVE  moving' = moving
  BY <1>6 DEF Block, Unblock, TimerFires, Attach, Detach, ueVars, pass
<1> QED BY <1>2, <1>3, <1>4, <1>5, <1>6 DEF UeNext

(* No rule of the IMSI comes or goes; a pass that was about to delete all  *)
(* its rules is still, and every other knows of them what it knew, all of  *)
(* them or none.                                                           *)
LEMMA DropsKept ==
    ASSUME NEW u, NEW i, DropsOn(u, i), RulesOf(u)' = RulesOf(u),
           \A p \in Passes : pc[p] = "clear" /\ RulesOf(u) \subseteq doomed[p] =>
              RulesOf(u) = {} \/ (pc'[p] = "clear" /\ RulesOf(u) \subseteq doomed'[p]),
           \A p \in Passes : \/ Held(p)' \cap RulesOf(u) = Held(p) \cap RulesOf(u)
                             \/ Held(p)' \cap RulesOf(u) = {}
                             \/ RulesOf(u) \subseteq Held(p)'
    PROVE  DropsOn(u, i)'
<1>1. CASE RulesOf(u) = {}
  BY <1>1 DEF DropsOn
<1>2. CASE \E p \in Passes : pc[p] = "clear" /\ RulesOf(u) \subseteq doomed[p]
  BY <1>2 DEF DropsOn
<1>3. ASSUME \A w \in Ways : \E r \in RulesOf(u) : r.ip = i /\ r.way = w /\ Whole(u, r)
      PROVE  DropsOn(u, i)'
  <2>1. ASSUME NEW w \in Ways
        PROVE  \E r \in RulesOf(u)' : r.ip = i /\ r.way = w /\ Whole(u, r)'
    <3>1. PICK r \in RulesOf(u) : r.ip = i /\ r.way = w /\ Whole(u, r)
      BY <1>3
    <3>2. \A p \in Passes : r \in Held(p)' => RulesOf(u) \subseteq Held(p)'
      <4> HIDE DEF RulesOf, Held
      <4> QED BY <3>1 DEF Whole
    <3> HIDE DEF RulesOf, Held
    <3>3. Whole(u, r)' /\ r \in RulesOf(u)'
      BY <3>1, <3>2 DEF Whole
    <3> QED BY <3>1, <3>3
  <2> QED BY <2>1 DEF DropsOn
<1> QED BY <1>1, <1>2, <1>3 DEF DropsOn

(* A pass that deletes one of the rules it is about to delete.             *)
LEMMA DropsDeleted ==
    ASSUME UeTypeOK, NEW u, NEW i, DropsOn(u, i), NEW p \in Passes, pc[p] = "clear",
           NEW r \in doomed[p], rules' = rules \ {r},
           doomed' = [doomed EXCEPT ![p] = @ \ {r}], UNCHANGED <<pc, found>>
    PROVE  DropsOn(u, i)'
<1>1. RulesOf(u)' = RulesOf(u) \ {r}
  BY DEF RulesOf
<1>2. doomed'[p] = doomed[p] \ {r} /\ \A q \in Passes : q # p => doomed'[q] = doomed[q]
  BY DEF UeTypeOK
<1>3. Held(p)' = Held(p) \ {r} /\ \A q \in Passes : q # p => Held(q)' = Held(q)
  BY <1>2 DEF Held
<1>4. CASE RulesOf(u) = {}
  BY <1>1, <1>4 DEF DropsOn
<1>5. ASSUME NEW q \in Passes, pc[q] = "clear", RulesOf(u) \subseteq doomed[q]
      PROVE  DropsOn(u, i)'
  <2>1. pc'[q] = "clear" /\ RulesOf(u)' \subseteq doomed'[q]
    BY <1>1, <1>2, <1>5
  <2> QED BY <2>1 DEF DropsOn
<1>6. ASSUME \A w \in Ways : \E s \in RulesOf(u) : s.ip = i /\ s.way = w /\ Whole(u, s)
      PROVE  DropsOn(u, i)'
  <2>1. CASE r \in RulesOf(u) /\ Whole(u, r)
    <3>1. Held(p) = doomed[p]
      BY DEF Held
    <3>2. RulesOf(u) \subseteq doomed[p]
      BY <2>1, <3>1 DEF Whole
    <3> QED BY <1>5, <3>2
  <2>2. CASE ~ (r \in RulesOf(u) /\ Whole(u, r))
    <3>1. ASSUME NEW w \in Ways
          PROVE  \E s \in RulesOf(u)' : s.ip = i /\ s.way = w /\ Whole(u, s)'
      <4>1. PICK s \in RulesOf(u) : s.ip = i /\ s.way = w /\ Whole(u, s)
        BY <1>6
      <4>2. s # r
        BY <2>2, <4>1
      <4>3. s \in RulesOf(u)' /\ \A q \in Passes : s \in Held(q)' => RulesOf(u)' \subseteq Held(q)'
        BY <1>1, <1>3, <4>1, <4>2 DEF Whole
      <4>4. Whole(u, s)'
        BY <4>3 DEF Whole
      <4> QED BY <4>1, <4>3, <4>4
    <3> QED BY <3>1 DEF DropsOn
  <2> QED BY <2>1, <2>2
<1> QED BY <1>4, <1>5, <1>6 DEF DropsOn

(* A rule that was just added is known to no pass; with the first of the   *)
(* pair in place the IMSI is dropped both ways.                            *)
LEMMA DropsAdded ==
    ASSUME UeTyped, PassProper, NEW p \in Passes, NEW u \in moving[p], FirstStays(p),
           rules' = rules \cup {RuleFor(p, u, "to")}, pc[p] = "pair",
           UNCHANGED <<found, doomed, want, current>>, pc' = [pc EXCEPT ![p] = "record"]
    PROVE  DropsOn(u, IpFor(p, u))'
<1>0. PICK rule : rule = RuleFor(p, u, "to")
  OBVIOUS
<1>1. u \in Imsis /\ IpFor(p, u) \in Ips /\ IpFor(p, u)' = IpFor(p, u)
  BY DEF UeTyped, UeTypeOK, PassProper, ShapeOf, IpFor
<1>2. rule \notin KnownRules /\ rule.imsi = u /\ rule.ip = IpFor(p, u) /\ rule.way = "to"
  BY <1>0, <1>1, RuleFresh DEF RuleFor, Ways
<1>3. \A q \in Passes : Held(q)' = Held(q) /\ Held(q) \subseteq KnownRules
  BY DEF Held, KnownRules, UeTyped, UeTypeOK
<1>4. PICK r \in first[p] : r \in rules /\ \A q \in Passes : r \notin Held(q)
  BY DEF FirstStays
<1>5. r.imsi = u /\ r.ip = IpFor(p, u) /\ r.way = "from"
  BY DEF PassProper, ShapeOf
<1>6. rule \in RulesOf(u)' /\ r \in RulesOf(u)'
  BY <1>0, <1>2, <1>4, <1>5 DEF RulesOf
<1>7. \A q \in Passes : rule \notin Held(q)' /\ r \notin Held(q)'
  BY <1>2, <1>3, <1>4
<1>8. Whole(u, rule)' /\ Whole(u, r)'
  <2> HIDE DEF Held, RulesOf
  <2> QED BY <1>7 DEF Whole
<1>9. PICK i : i = IpFor(p, u)
  OBVIOUS
<1>10. \A w \in Ways : \E s \in RulesOf(u)' : s.ip = i /\ s.way = w /\ Whole(u, s)'
  <2> TAKE w \in Ways
  <2> HIDE DEF RulesOf, Whole, IpFor
  <2>1. CASE w = "to"
    BY <1>2, <1>6, <1>8, <1>9, <2>1
  <2>2. CASE w = "from"
    BY <1>5, <1>6, <1>8, <1>9, <2>2
  <2> QED BY <2>1, <2>2 DEF Ways
<1>11. DropsOn(u, i)'
  BY <1>10 DEF DropsOn
<1>12. i = IpFor(p, u)'
  BY <1>1, <1>9
<1> HIDE DEF IpFor
<1> QED BY <1>11, <1>12 DEF DropsOn

(* The IMSIs of which RowDrops and AddedDrops say something.               *)
AtStake(u) ==
    \/ row[u] \in Ips /\ ~ InMotion(u)
    \/ \E p \in Passes : pc[p] = "record" /\ u \in moving[p]

LEMMA DueKept ==
    ASSUME RowDrops, AddedDrops, torn \subseteq torn',
           \A u \in Imsis \ torn' : \A i : AtStake(u) /\ DropsOn(u, i) => DropsOn(u, i)',
           \A u \in Imsis \ torn' : row'[u] \in Ips /\ ~ InMotion(u)' =>
              row'[u] = row[u] /\ ~ InMotion(u),
           \A u \in Imsis \ torn' : \A p \in Passes : pc'[p] = "record" /\ u \in moving'[p] =>
              pc[p] = "record" /\ u \in moving[p] /\ IpFor(p, u)' = IpFor(p, u)
    PROVE  RowDrops' /\ AddedDrops'
<1>1. ASSUME NEW u \in Imsis \ torn', row'[u] \in Ips, ~ InMotion(u)'
      PROVE  DropsOn(u, row[u])'
  <2>1. row'[u] = row[u] /\ ~ InMotion(u)
    BY <1>1
  <2>2. AtStake(u) /\ DropsOn(u, row[u])
    BY <1>1, <2>1 DEF AtStake, RowDrops
  <2>3. \A i : DropsOn(u, i) => DropsOn(u, i)'
    BY <2>2
  <2> HIDE DEF DropsOn
  <2>4. PICK i : i = row[u]
    OBVIOUS
  <2>5. DropsOn(u, i)'
    BY <2>2, <2>3, <2>4
  <2> QED BY <2>1, <2>4, <2>5 DEF DropsOn
<1>2. ASSUME NEW u \in Imsis \ torn', NEW p \in Passes, pc'[p] = "record", u \in moving'[p]
      PROVE  DropsOn(u, IpFor(p, u))'
  <2>1. pc[p] = "record" /\ u \in moving[p] /\ IpFor(p, u)' = IpFor(p, u)
    BY <1>2
  <2>2. AtStake(u) /\ DropsOn(u, IpFor(p, u))
    BY <2>1 DEF AtStake, AddedDrops
  <2>3. PICK i : i = IpFor(p, u)
    OBVIOUS
  <2>4. DropsOn(u, i)'
    BY <2>2, <2>3
  <2>5. i = IpFor(p, u)'
    BY <2>1, <2>3
  <2> HIDE DEF IpFor
  <2> QED BY <2>4, <2>5 DEF DropsOn
<1> QED BY <1>1, <1>2 DEF RowDrops, AddedDrops

(* Only a pass that is done records, and what it did is true.              *)
LEMMA RecordDrops ==
    ASSUME UeTypeOK, PassProper, RowDrops, AddedDrops, NEW p \in Passes, RecordIp(p)
    PROVE  RowDrops' /\ AddedDrops'
<1>1. /\ pc[p] = "record" /\ pc'[p] = "each" /\ \A q \in Passes : q # p => pc'[q] = pc[q]
      /\ moving'[p] = {} /\ \A q \in Passes : q # p => moving'[q] = moving[q]
      /\ UNCHANGED <<rules, doomed, found, want, current, torn>>
  BY DEF RecordIp, Goto, history, UeTypeOK
<1>2. \A u \in Imsis : row'[u] = IF u \in moving[p] /\ row[u] # Absent THEN IpFor(p, u)
                                                                       ELSE row[u]
  BY DEF RecordIp
<1>3. \A q \in Passes : Held(q)' = Held(q)
  BY <1>1 DEF Held
<1>4. \A u \in Imsis : \A i : DropsOn(u, i) => DropsOn(u, i)'
  <2> SUFFICES ASSUME NEW u \in Imsis, NEW i, DropsOn(u, i) PROVE DropsOn(u, i)'
    OBVIOUS
  <2>1. RulesOf(u)' = RulesOf(u)
    BY <1>1 DEF RulesOf
  <2>2. \A q \in Passes : pc[q] = "clear" => pc'[q] = "clear" /\ doomed'[q] = doomed[q]
    BY <1>1
  <2> HIDE DEF RulesOf, DropsOn
  <2> QED BY <1>3, <2>1, <2>2, DropsKept
<1>5. ASSUME NEW u \in Imsis \ torn, row'[u] \in Ips, ~ InMotion(u)'
      PROVE  DropsOn(u, row[u])'
  <2>1. CASE u \in moving[p]
    <3>1. row'[u] = IpFor(p, u)
      BY <1>2, <1>5, <2>1, UeBoundsAssumption
    <3>2. DropsOn(u, IpFor(p, u))
      BY <1>1, <2>1 DEF AddedDrops
    <3>3. PICK i : i = IpFor(p, u)
      OBVIOUS
    <3>4. DropsOn(u, i)'
      BY <1>4, <3>2, <3>3
    <3> QED BY <3>1, <3>3, <3>4 DEF DropsOn
  <2>2. CASE u \notin moving[p]
    <3>1. row'[u] = row[u] /\ ~ InMotion(u)
      BY <1>1, <1>2, <1>5, <2>2 DEF InMotion
    <3>2. PICK i : i = row[u]
      OBVIOUS
    <3>3. DropsOn(u, i)'
      BY <1>4, <1>5, <3>1, <3>2 DEF RowDrops
    <3> QED BY <3>1, <3>2, <3>3 DEF DropsOn
  <2> QED BY <2>1, <2>2
<1>6. ASSUME NEW u \in Imsis \ torn, NEW q \in Passes, pc'[q] = "record", u \in moving'[q]
      PROVE  DropsOn(u, IpFor(q, u))'
  <2>1. q # p /\ pc[q] = "record" /\ u \in moving[q]
    BY <1>1, <1>6
  <2>2. IpFor(q, u)' = IpFor(q, u)
    BY <1>1 DEF IpFor
  <2>3. PICK i : i = IpFor(q, u)
    OBVIOUS
  <2>4. DropsOn(u, i)'
    BY <1>4, <2>1, <2>3 DEF AddedDrops
  <2> HIDE DEF IpFor
  <2> QED BY <2>2, <2>3, <2>4 DEF DropsOn
<1> QED BY <1>1, <1>5, <1>6 DEF RowDrops, AddedDrops

(* The first rule of a pair is added while the IMSI is moved.              *)
LEMMA AddFirstDrops ==
    ASSUME UeTyped, PassProper, OneMoves, RowDrops, AddedDrops, NEW p \in Passes, AddFrom(p)
    PROVE  RowDrops' /\ AddedDrops'
<1>1. PICK u \in moving[p] : rules' = rules \cup {RuleFor(p, u, "from")} \/ rules' = rules
  BY DEF AddFrom
<1>2. u \in Imsis /\ moving[p] = {u} /\ IpFor(p, u) \in Ips
  BY DEF UeTyped, UeTypeOK, PassProper, ShapeOf
<1>3. /\ pc[p] = "move" /\ pc'[p] = "pair" /\ \A q \in Passes : q # p => pc'[q] = pc[q]
      /\ UNCHANGED <<row, found, doomed, moving, want, current, torn>>
  BY DEF AddFrom, Goto, pass, UeTyped, UeTypeOK
<1>4. \A q \in Passes : Held(q)' = Held(q)
  BY <1>3 DEF Held
<1>5. \A v \in Imsis \ torn' : \A i : AtStake(v) /\ DropsOn(v, i) => DropsOn(v, i)'
  <2> SUFFICES ASSUME NEW v \in Imsis \ torn', NEW i, AtStake(v), DropsOn(v, i)
               PROVE  DropsOn(v, i)'
    OBVIOUS
  <2>1. v # u
    BY <1>2, <1>3 DEF AtStake, InMotion, OneMoves
  <2>2. RulesOf(v)' = RulesOf(v)
    BY <1>1, <1>2, <2>1, RuleFresh DEF RulesOf, RuleFor, Ways
  <2>3. \A q \in Passes : pc[q] = "clear" => pc'[q] = "clear" /\ doomed'[q] = doomed[q]
    BY <1>3
  <2> HIDE DEF RulesOf, DropsOn
  <2> QED BY <1>4, <2>2, <2>3, DropsKept
<1>6. \A v \in Imsis : (InMotion(v)' <=> InMotion(v)) /\ \A q \in Passes : IpFor(q, v)' = IpFor(q, v)
  BY <1>3 DEF InMotion, IpFor
<1>7. \A q \in Passes : pc'[q] = "record" => pc[q] = "record"
  BY <1>3
<1> HIDE DEF RowDrops, AddedDrops, AtStake, DropsOn, InMotion, IpFor
<1> QED BY <1>3, <1>5, <1>6, <1>7, DueKept

(* The address of which the pair is complete will be recorded.             *)
LEMMA AddDrops ==
    ASSUME UeTyped, PassProper, OneMoves, RowDrops, AddedDrops, NEW p \in Passes, AddTo(p)
    PROVE  RowDrops' /\ AddedDrops'
<1> DEFINE rule(u) == RuleFor(p, u, "to")
<1>1. PICK u \in moving[p] :
          \/ /\ rules' = rules \cup {rule(u)}
             /\ torn' = torn \cup {v \in {u} : ~ FirstStays(p)}
          \/ /\ UNCHANGED rules
             /\ torn' = torn \cup {v \in {u} : RulesOf(v) # {}}
  BY DEF AddTo
<1>2. u \in Imsis /\ moving[p] = {u} /\ IpFor(p, u) \in Ips
  BY DEF UeTyped, UeTypeOK, PassProper, ShapeOf
<1>3. /\ pc[p] = "pair" /\ pc' = [pc EXCEPT ![p] = "record"] /\ pc'[p] = "record"
      /\ \A q \in Passes : q # p => pc'[q] = pc[q]
      /\ UNCHANGED <<row, found, doomed, moving, want, current>>
  BY DEF AddTo, Goto, pass, UeTyped, UeTypeOK
<1>5. u \notin torn' => DropsOn(u, IpFor(p, u))'
  <2>1. ASSUME rules' = rules \cup {rule(u)}, FirstStays(p) PROVE DropsOn(u, IpFor(p, u))'
    BY <1>3, <2>1, DropsAdded
  <2>2. ASSUME UNCHANGED rules, RulesOf(u) = {} PROVE DropsOn(u, IpFor(p, u))'
    <3>1. RulesOf(u)' = {}
      BY <2>2 DEF RulesOf
    <3> QED BY <3>1 DEF DropsOn
  <2> HIDE DEF DropsOn, RulesOf, FirstStays, rule
  <2> QED BY <1>1, <2>1, <2>2
<1>6. \A q \in Passes : Held(q)' = Held(q)
  BY <1>3 DEF Held
<1>7. \A v \in Imsis : \A i : v # u /\ DropsOn(v, i) => DropsOn(v, i)'
  <2> SUFFICES ASSUME NEW v \in Imsis, NEW i, v # u, DropsOn(v, i) PROVE DropsOn(v, i)'
    OBVIOUS
  <2>1. RulesOf(v)' = RulesOf(v)
    BY <1>1, <1>2, RuleFresh DEF RulesOf, RuleFor, Ways
  <2>2. \A q \in Passes : pc[q] = "clear" => pc'[q] = "clear" /\ doomed'[q] = doomed[q]
    BY <1>3
  <2> HIDE DEF RulesOf, DropsOn
  <2> QED BY <1>6, <2>1, <2>2, DropsKept
<1>8. torn \subseteq torn'
  BY <1>1
<1>9. ASSUME NEW v \in Imsis \ torn', row'[v] \in Ips, ~ InMotion(v)'
      PROVE  DropsOn(v, row[v])'
  <2>1. v # u /\ ~ InMotion(v) /\ row' = row
    BY <1>2, <1>3, <1>9 DEF InMotion
  <2>2. PICK i : i = row[v]
    OBVIOUS
  <2>3. DropsOn(v, i)'
    BY <1>7, <1>8, <1>9, <2>1, <2>2 DEF RowDrops
  <2> QED BY <2>1, <2>2, <2>3 DEF DropsOn
<1>10. ASSUME NEW v \in Imsis \ torn', NEW q \in Passes, pc'[q] = "record", v \in moving'[q]
       PROVE  DropsOn(v, IpFor(q, v))'
  <2>1. CASE q = p
    BY <1>2, <1>3, <1>5, <1>10, <2>1
  <2>2. CASE q # p
    <3>1. pc[q] = "record" /\ v \in moving[q]
      BY <1>3, <1>10, <2>2
    <3>2. v # u
      BY <1>8, <1>2, <1>10, <2>2, <3>1 DEF OneMoves
    <3>3. IpFor(q, v)' = IpFor(q, v)
      BY <1>3 DEF IpFor
    <3>4. PICK i : i = IpFor(q, v)
      OBVIOUS
    <3>5. DropsOn(v, i)'
      BY <1>7, <1>8, <3>1, <3>2, <3>4 DEF AddedDrops
    <3> HIDE DEF IpFor
    <3> QED BY <3>3, <3>4, <3>5 DEF DropsOn
  <2> QED BY <2>1, <2>2
<1> QED BY <1>9, <1>10 DEF RowDrops, AddedDrops

(* A step by which nobody gets a row, stops moving or comes to record, and *)
(* the rules of an IMSI that is due stay known as they are.                *)
LEMMA QuietDrops ==
    ASSUME RowDrops, AddedDrops, torn \subseteq torn', UNCHANGED <<rules, moving>>,
           \A u \in Imsis : row'[u] \in Ips => row'[u] = row[u],
           \A p \in Passes : pc'[p] = "record" =>
              pc[p] = "record" /\ \A u \in Imsis : IpFor(p, u)' = IpFor(p, u),
           \A p \in Passes : pc[p] = "clear" =>
              doomed[p] = {} \/ (pc'[p] = "clear" /\ doomed'[p] = doomed[p]),
           \A u \in Imsis : AtStake(u) => \A p \in Passes :
              \/ Held(p)' \cap RulesOf(u) = Held(p) \cap RulesOf(u)
              \/ Held(p)' \cap RulesOf(u) = {}
              \/ RulesOf(u) \subseteq Held(p)'
    PROVE  RowDrops' /\ AddedDrops'
<1>1. \A u \in Imsis : RulesOf(u)' = RulesOf(u) /\ (InMotion(u)' <=> InMotion(u))
  BY DEF RulesOf, InMotion
<1>2. \A u \in Imsis : \A i : AtStake(u) /\ DropsOn(u, i) => DropsOn(u, i)'
  <2> SUFFICES ASSUME NEW u \in Imsis, NEW i, AtStake(u), DropsOn(u, i) PROVE DropsOn(u, i)'
    OBVIOUS
  <2>1. \A p \in Passes : pc[p] = "clear" /\ RulesOf(u) \subseteq doomed[p] =>
            RulesOf(u) = {} \/ (pc'[p] = "clear" /\ RulesOf(u) \subseteq doomed'[p])
    <3> HIDE DEF RulesOf
    <3> QED OBVIOUS
  <2> HIDE DEF RulesOf, DropsOn, Held
  <2> QED BY <1>1, <2>1, DropsKept
<1>3. \A u \in Imsis : row'[u] \in Ips /\ ~ InMotion(u)' => row'[u] = row[u] /\ ~ InMotion(u)
  BY <1>1
<1>4. \A u \in Imsis : \A p \in Passes : pc'[p] = "record" /\ u \in moving'[p] =>
          pc[p] = "record" /\ u \in moving[p] /\ IpFor(p, u)' = IpFor(p, u)
  <2> HIDE DEF IpFor
  <2> QED OBVIOUS
<1> HIDE DEF RowDrops, AddedDrops, AtStake, DropsOn, InMotion, IpFor
<1> QED BY <1>2, <1>3, <1>4, DueKept

LEMMA PassDrops ==
    ASSUME UeTypeOK, PassProper, RowDrops, AddedDrops, NEW p \in Passes,
           ListRules(p) \/ Plan(p) \/ AskAddresses(p) \/ Finish(p)
    PROVE  RowDrops' /\ AddedDrops'
<1>1. /\ UNCHANGED <<rules, moving, torn, row>>
      /\ \A q \in Passes : q # p => pc'[q] = pc[q] /\ doomed'[q] = doomed[q]
                /\ found'[q] = found[q] /\ want'[q] = want[q] /\ current'[q] = current[q]
      /\ pc[p] # "record" /\ pc'[p] # "record"
      /\ pc[p] = "clear" => doomed[p] = {}
  BY DEF ListRules, Plan, AskAddresses, Finish, Goto, history, UeTypeOK
<1>2. \A q \in Passes : q # p => Held(q)' = Held(q)
  BY <1>1 DEF Held
<1>3. ASSUME NEW u \in Imsis
      PROVE  \/ Held(p)' \cap RulesOf(u) = Held(p) \cap RulesOf(u)
             \/ Held(p)' \cap RulesOf(u) = {}
             \/ RulesOf(u) \subseteq Held(p)'
  <2>1. CASE ListRules(p)
    <3>1. Held(p)' = rules \/ Held(p)' = {}
      BY <2>1 DEF ListRules, Goto, Held, UeTypeOK
    <3> QED BY <3>1 DEF RulesOf
  <2>2. CASE Plan(p)
    <3>1. Held(p) = found[p] /\ Held(p)' = {r \in found[p] : row[r.imsi] = Absent}
      BY <2>2 DEF Plan, Goto, Held, UeTypeOK
    <3> QED BY <3>1 DEF RulesOf
  <2>3. CASE AskAddresses(p) \/ Finish(p)
    <3>1. Held(p)' = {}
      BY <2>3 DEF AskAddresses, Finish, Goto, Held, UeTypeOK
    <3> QED BY <3>1
  <2> QED BY <2>1, <2>2, <2>3
<1>4. \A q \in Passes : pc'[q] = "record" =>
          pc[q] = "record" /\ \A u \in Imsis : IpFor(q, u)' = IpFor(q, u)
  BY <1>1 DEF IpFor
<1>5. \A q \in Passes : pc[q] = "clear" =>
          doomed[q] = {} \/ (pc'[q] = "clear" /\ doomed'[q] = doomed[q])
  BY <1>1
<1>6. \A u \in Imsis : \A q \in Passes :
          \/ Held(q)' \cap RulesOf(u) = Held(q) \cap RulesOf(u)
          \/ Held(q)' \cap RulesOf(u) = {}
          \/ RulesOf(u) \subseteq Held(q)'
  BY <1>2, <1>3
<1> HIDE DEF RowDrops, AddedDrops, AtStake, Held, RulesOf, IpFor
<1> QED BY <1>1, <1>4, <1>5, <1>6, QuietDrops

LEMMA OthersDrop ==
    ASSUME UeTypeOK, PassProper, RowDrops, AddedDrops,
           \/ \E h \in Handlers, u \in Imsis : Block(h, u) \/ Unblock(h, u)
           \/ \E t \in Timers : TimerFires(t)
           \/ \E u \in Imsis : (\E i \in Ips : Attach(u, i)) \/ Detach(u)
           \/ UNCHANGED ueVars
    PROVE  RowDrops' /\ AddedDrops'
<1>1. UNCHANGED <<rules, moving, torn, doomed, found, want, current>>
  BY DEF Block, Unblock, TimerFires, Attach, Detach, ueVars, pass, history
<1>2. \A u \in Imsis : row'[u] \in Ips => row'[u] = row[u]
  BY UeBoundsAssumption DEF Block, Unblock, TimerFires, Attach, Detach, ueVars, UeTypeOK
<1>3. \A p \in Passes : pc'[p] = pc[p] \/ (pc[p] = "idle" /\ pc'[p] = "list")
  BY DEF Block, Unblock, TimerFires, Attach, Detach, ueVars, Goto, UeTypeOK
<1>4. \A p \in Passes : Held(p)' = Held(p)
  BY <1>1, <1>3 DEF Held
<1>5. \A p \in Passes : pc'[p] = "record" =>
          pc[p] = "record" /\ \A u \in Imsis : IpFor(p, u)' = IpFor(p, u)
  BY <1>1, <1>3 DEF IpFor
<1>6. \A p \in Passes : pc[p] = "clear" => pc'[p] = "clear" /\ doomed'[p] = doomed[p]
  BY <1>1, <1>3
<1> HIDE DEF RowDrops, AddedDrops, AtStake, Held, RulesOf, IpFor
<1> QED BY <1>1, <1>2, <1>4, <1>5, <1>6, QuietDrops

LEMMA MoveDrops ==
    ASSUME UeTypeOK, PassProper, RowDrops, AddedDrops, NEW p \in Passes, MoveRules(p)
    PROVE  RowDrops' /\ AddedDrops'
<1>1. /\ UNCHANGED <<rules, row, found, want, current>>
      /\ \A q \in Passes : q # p => pc'[q] = pc[q] /\ doomed'[q] = doomed[q]
                                    /\ moving'[q] = moving[q]
      /\ pc[p] = "each" /\ pc'[p] = "move" /\ torn \subseteq torn'
  BY DEF MoveRules, Goto, UeTypeOK
<1>2. moving[p] = {}
  BY <1>1 DEF PassProper, ShapeOf
<1>3. \A q \in Passes : Held(q)' = Held(q)
  BY <1>1 DEF Held
<1>4. \A u \in Imsis : \A i : DropsOn(u, i) => DropsOn(u, i)'
  <2> SUFFICES ASSUME NEW u \in Imsis, NEW i, DropsOn(u, i) PROVE DropsOn(u, i)'
    OBVIOUS
  <2>1. RulesOf(u)' = RulesOf(u)
    BY <1>1 DEF RulesOf
  <2>2. \A q \in Passes : pc[q] = "clear" => pc'[q] = "clear" /\ doomed'[q] = doomed[q]
    BY <1>1
  <2> HIDE DEF RulesOf, DropsOn
  <2> QED BY <1>3, <2>1, <2>2, DropsKept
<1>5. \A u \in Imsis : ~ InMotion(u)' => ~ InMotion(u)
  BY <1>1, <1>2 DEF InMotion
<1>6. \A u \in Imsis : \A q \in Passes : pc'[q] = "record" /\ u \in moving'[q] =>
          pc[q] = "record" /\ u \in moving[q] /\ IpFor(q, u)' = IpFor(q, u)
  BY <1>1 DEF IpFor
<1> HIDE DEF RowDrops, AddedDrops, AtStake, DropsOn, InMotion, IpFor
<1> QED BY <1>1, <1>4, <1>5, <1>6, DueKept

LEMMA DeleteDrops ==
    ASSUME UeTypeOK, PassProper, OneMoves, RowDrops, AddedDrops, NEW p \in Passes,
           Clear(p) \/ DeleteOld(p)
    PROVE  RowDrops' /\ AddedDrops'
<1>1. PICK r \in doomed[p] :
          /\ doomed' = [doomed EXCEPT ![p] = @ \ {r}]
          /\ \/ rules' = rules \ {r} /\ UNCHANGED torn
             \/ /\ UNCHANGED rules
                /\ torn' = torn \cup {u \in {r.imsi} : pc[p] = "clear" /\ Needed(u)}
  BY DEF Clear, DeleteOld, DeleteDoomed
<1>2. UNCHANGED <<row, pc, found, want, current, moving>> /\ pc[p] \in {"clear", "move"}
  BY DEF Clear, DeleteOld, DeleteDoomed
<1>3. /\ doomed'[p] = doomed[p] \ {r}
      /\ \A q \in Passes : q # p => doomed'[q] = doomed[q]
  BY <1>1 DEF UeTypeOK
<1>4. ASSUME NEW u \in Imsis \ torn', NEW i, AtStake(u), DropsOn(u, i)
      PROVE  DropsOn(u, i)'
  <2>1. CASE pc[p] = "clear" /\ rules' = rules \ {r}
    <3> HIDE DEF DropsOn
    <3> QED BY <1>1, <1>2, <1>4, <2>1, DropsDeleted
  <2>2. CASE pc[p] = "clear" /\ rules' = rules
           /\ torn' = torn \cup {v \in {r.imsi} : pc[p] = "clear" /\ Needed(v)}
    <3>1. Needed(u)
      BY <1>4 DEF AtStake, Needed, InMotion
    <3>2. r \notin RulesOf(u)
      BY <1>4, <2>2, <3>1 DEF RulesOf
    <3>3. RulesOf(u)' = RulesOf(u)
      BY <2>2 DEF RulesOf
    <3>4. \A q \in Passes : Held(q)' \cap RulesOf(u) = Held(q) \cap RulesOf(u)
      <4> HIDE DEF RulesOf
      <4> QED BY <1>2, <1>3, <3>2 DEF Held
    <3>5. \A q \in Passes : pc[q] = "clear" /\ RulesOf(u) \subseteq doomed[q] =>
              pc'[q] = "clear" /\ RulesOf(u) \subseteq doomed'[q]
      <4> HIDE DEF RulesOf
      <4> QED BY <1>2, <1>3, <3>2
    <3> HIDE DEF RulesOf, DropsOn, Held
    <3> QED BY <1>4, <3>3, <3>4, <3>5, DropsKept
  <2>3. CASE pc[p] = "move"
    <3>1. r.imsi \in moving[p]
      BY <2>3 DEF PassProper, ShapeOf
    <3>2. u \notin torn
      BY <1>1, <1>4
    <3>3. u \notin moving[p]
      BY <1>4, <2>3, <3>2 DEF AtStake, InMotion, OneMoves
    <3>4. r \notin RulesOf(u)
      BY <3>1, <3>3 DEF RulesOf
    <3>5. RulesOf(u)' = RulesOf(u)
      BY <1>1, <3>4 DEF RulesOf
    <3>6. \A q \in Passes : Held(q)' = Held(q)
      BY <1>2, <1>3, <2>3 DEF Held
    <3>7. \A q \in Passes : pc[q] = "clear" => pc'[q] = "clear" /\ doomed'[q] = doomed[q]
      BY <1>2, <1>3, <2>3
    <3> HIDE DEF RulesOf, DropsOn, Held
    <3> QED BY <1>4, <3>5, <3>6, <3>7, DropsKept
  <2> QED BY <1>1, <1>2, <2>1, <2>2, <2>3
<1>5. torn \subseteq torn'
  BY <1>1
<1>6. \A u \in Imsis : (InMotion(u)' <=> InMotion(u)) /\ \A q \in Passes : IpFor(q, u)' = IpFor(q, u)
  BY <1>2 DEF InMotion, IpFor
<1> HIDE DEF RowDrops, AddedDrops, AtStake, DropsOn, InMotion, IpFor
<1> QED BY <1>2, <1>4, <1>5, <1>6, DueKept

LEMMA LossDrops ==
    ASSUME UeTypeOK, PassProper, RowDrops, AddedDrops, BackendRestarts \/ HostReboots
    PROVE  RowDrops' /\ AddedDrops'
<1>1. /\ row' = row /\ pc' = [p \in Passes |-> "idle"]
      /\ \A p \in Passes : moving'[p] = {} /\ doomed'[p] = {} /\ found'[p] = {}
  BY DEF BackendRestarts, HostReboots, PassesLost
<1>2. \A p \in Passes : Held(p)' = {}
  BY <1>1 DEF Held
<1>3. ASSUME NEW u \in Imsis \ torn', row'[u] \in Ips
      PROVE  DropsOn(u, row[u])'
  <2>1. CASE HostReboots
    <3>1. RulesOf(u)' = {}
      BY <2>1 DEF HostReboots, RulesOf
    <3> QED BY <3>1 DEF DropsOn
  <2>2. CASE BackendRestarts
    <3>1. u \notin torn /\ ~ AtRulesOf(u) /\ rules' = rules
      BY <1>1, <1>3, <2>2 DEF BackendRestarts
    <3>2. ~ InMotion(u) /\ \A p \in Passes : \A r \in doomed[p] : r.imsi # u
      BY <3>1 DEF AtRulesOf, InMotion
    <3>3. RulesOf(u)' = RulesOf(u)
      BY <3>1 DEF RulesOf
    <3>4. DropsOn(u, row[u])
      BY <1>1, <1>3, <3>1, <3>2 DEF RowDrops
    <3>5. RulesOf(u) = {} \/ \A w \in Ways : \E r \in RulesOf(u) : r.ip = row[u] /\ r.way = w
      BY <3>2, <3>4 DEF DropsOn, RulesOf
    <3>6. \A r : Whole(u, r)'
      BY <1>2 DEF Whole
    <3> HIDE DEF RulesOf, Held, Whole
    <3> QED BY <1>1, <3>3, <3>5, <3>6 DEF DropsOn
  <2> QED BY <2>1, <2>2
<1> QED BY <1>1, <1>3 DEF RowDrops, AddedDrops

LEMMA UeInductive == UeInv /\ [UeNext]_ueVars => UeInv'
<1> SUFFICES ASSUME UeInv, [UeNext]_ueVars PROVE UeInv'
  OBVIOUS
<1>1. UeTyped' /\ PassProper' /\ OneMoves'
  BY UeTypeStep, UeFiniteStep, ShapeStep, OneMovesStep DEF UeInv, UeTyped
<1>2. RowDrops' /\ AddedDrops'
  <2> USE DEF UeInv, UeTyped
  <2>1. ASSUME NEW p \in Passes, PassStep(p) PROVE RowDrops' /\ AddedDrops'
    BY <2>1, PassDrops, MoveDrops, DeleteDrops, AddFirstDrops, AddDrops, RecordDrops
       DEF PassStep
  <2>2. ASSUME BackendRestarts \/ HostReboots PROVE RowDrops' /\ AddedDrops'
    BY <2>2, LossDrops
  <2> QED BY <2>1, <2>2, OthersDrop DEF UeNext
<1> QED BY <1>1, <1>2 DEF UeInv

LEMMA UeInitially == UeInit => UeInv
<1> SUFFICES ASSUME UeInit PROVE UeInv
  OBVIOUS
<1>1. PassProper /\ OneMoves
  <2>1. \A p \in Passes : /\ doomed[p] = {} /\ moving[p] = {} /\ todo[p] = {}
                          /\ first[p] = {} /\ pc[p] = "idle"
    BY DEF UeInit
  <2> QED BY <2>1 DEF PassProper, ShapeOf, OneMoves
<1>2. RowDrops /\ AddedDrops
  <2>1. \A u \in Imsis : RulesOf(u) = {}
    BY DEF UeInit, RulesOf
  <2>2. \A p \in Passes : pc[p] # "record"
    BY DEF UeInit
  <2> QED BY <2>1, <2>2 DEF RowDrops, AddedDrops, DropsOn
<1> QED BY <1>1, <1>2, UeTypeInit DEF UeInv

LEMMA UeInvariant == UeSpec => []UeInv
BY UeInitially, UeInductive, PTL DEF UeSpec

(* The variables of the UE block service keep their types.                 *)
THEOREM UeTypeCorrect == UeSpec => []UeTypeOK
<1>1. UeInv => UeTypeOK
  BY DEF UeInv, UeTyped
<1> QED BY <1>1, UeInvariant, PTL

(* The address the table has for a blocked UE is one it is dropped on in   *)
(* both directions, or it has no rule and the next pass will notice,       *)
(* unless two passes moved its rules at once, one listed or deleted a rule *)
(* before the other of its pair was added, or a move or a deletion was cut *)
(* short or failed (ue-block-service.ts:87-96, 126-136).                   *)
THEOREM RowTheorem == UeSpec => []RowTrue
<1>1. UeInv => RowTrue
  <2> SUFFICES ASSUME UeInv, NEW u \in Imsis \ torn, row[u] \in Ips, ~ InMotion(u)
               PROVE  Staying(u) = {} \/ Drops(Staying(u), row[u])
    BY DEF RowTrue
  <2>1. DropsOn(u, row[u])
    BY DEF UeInv, RowDrops
  <2>2. \A p \in Passes : \A r \in RulesOf(u) : r \in doomed[p] => pc[p] = "clear"
    BY DEF UeInv, PassProper, ShapeOf, InMotion, RulesOf
  <2>3. CASE RulesOf(u) = {}
    BY <2>3 DEF Staying
  <2>4. ASSUME NEW p \in Passes, RulesOf(u) \subseteq doomed[p] PROVE Staying(u) = {}
    BY <2>4 DEF Staying
  <2>5. ASSUME \A w \in Ways : \E r \in RulesOf(u) : r.ip = row[u] /\ r.way = w /\ Whole(u, r)
        PROVE  Staying(u) = {} \/ Drops(Staying(u), row[u])
    <3>1. ASSUME NEW r \in RulesOf(u), Whole(u, r), NEW p \in Passes, r \in doomed[p]
          PROVE  Staying(u) = {}
      <4>1. Held(p) = doomed[p]
        BY <2>2, <3>1 DEF Held
      <4> QED BY <2>4, <3>1, <4>1 DEF Whole
    <3>2. Staying(u) = {} \/ \A r \in RulesOf(u) : Whole(u, r) => r \in Staying(u)
      BY <3>1 DEF Staying
    <3> QED BY <2>5, <3>2 DEF Drops
  <2> QED BY <2>1, <2>3, <2>4, <2>5 DEF DropsOn
<1> QED BY <1>1, UeInvariant, PTL
=============================================================================
