----------------------------- MODULE AutoAssign -----------------------------
(***************************************************************************)
(* Handing out numbers to subscribers: auto-assign-ips-usecase.ts (IPv4    *)
(* addresses of the internet and of the IMS session), autoAssignMsisdn()   *)
(* and bulkAddApn() of subscriber-management.ts, all under                 *)
(* application/use-cases.                                                  *)
(*                                                                         *)
(* A run lists all subscribers once and then writes one after the other:   *)
(* the assignments give the next number that the list does not show as     *)
(* held, bulkAddApn() writes the slices it listed back with one session    *)
(* replaced.  Nothing serialises runs, and an operator may edit a          *)
(* subscriber at any time.                                                 *)
(***************************************************************************)
EXTENDS Naturals

CONSTANTS
    Runs,        \* requests that may be under way at once
    N,           \* subscribers 1..N, in the order the database lists them
    MaxNumber,   \* numbers 1..MaxNumber of each pool
    Gateway,     \* the gateway of the internet pool
    Lacking,     \* <<subscriber, slot>>: it has no such session
    Dynamic,     \* per pool: first and last number of the profile's range
    InitialHeld, \* what the subscribers may hold at first
    Requests,    \* the jobs that may be asked for
    MaxRuns, MaxEdits, MaxTroubles

Subs == 1..N
Pools == {"internet", "ims", "msisdn"}
SlicePools == {"internet", "ims"}

(* Where a subscriber may hold a number: an address of the internet pool   *)
(* also in a further session, behind its first one that is not for IMS.    *)
Slots == Pools \cup {"further"}
SliceSlots == Slots \ {"msisdn"}
NoNumber == 0
Numbers == 1..MaxNumber

(* A request: what it is about, its subscribers, where it replaces         *)
(* numbers, and the range it asks for.                                     *)
Jobs == [kind : {"assign", "bulk"}, pools : SUBSET Slots, scope : SUBSET Subs,
         over : SUBSET Slots, lo : [Pools -> Numbers], hi : [Pools -> Numbers]]

ASSUME SizeAssumption ==
    /\ N \in Nat /\ MaxNumber \in Nat
    /\ MaxRuns \in Nat /\ MaxEdits \in Nat /\ MaxTroubles \in Nat

ASSUME PoolAssumption ==
    /\ Gateway \in Nat
    /\ Lacking \subseteq Subs \X Slots
    /\ Dynamic \in [Pools -> [lo : Nat, hi : Nat]]

AllDistinct(h) ==
    \A p \in Pools, u, v \in Subs :
        u # v /\ h[u][p] # NoNumber => h[u][p] # h[v][p]

ASSUME HeldAssumption ==
    /\ InitialHeld \subseteq [Subs -> [Slots -> Numbers \cup {NoNumber}]]
    /\ \A h \in InitialHeld :
          AllDistinct(h) /\ \A x \in Lacking : h[x[1]][x[2]] = NoNumber

ASSUME JobAssumption ==
    /\ Requests \subseteq Jobs
    /\ \A j \in Requests : j.over \subseteq j.pools
    /\ \A j \in Requests :
          j.pools \in IF j.kind = "bulk" THEN {SliceSlots}
                     ELSE {{"internet"}, SlicePools, {"msisdn"}}
    /\ \A j \in Requests : j.hi["msisdn"] = MaxNumber   \* the code has no last one

VARIABLES
    held,     \* per subscriber and slot: its number, or NoNumber
    phase,    \* the pool a run is at, "bulk" or "idle"
    job,      \* the request of a run
    seen,     \* what it listed
    at,       \* the subscriber it has got to
    cursor,   \* the next number it would give
    clamped,  \* its range is held inside the profile's
    clean,    \* history: nothing went wrong in this phase
    spoiled,  \* history: slots in which runs overlapped with each other or
              \* with an edit, an edit gave a number twice, or a run that was
              \* to replace numbers ended before it got to all of them
    runs, edits, troubles

local == <<phase, job, seen, at, cursor, clamped, clean>>
vars == <<held, local, spoiled, runs, edits, troubles>>

NoJob == [kind |-> "none", pools |-> {}, scope |-> {}, over |-> {},
          lo |-> [p \in Pools |-> 1], hi |-> [p \in Pools |-> 1]]

Empty == [u \in Subs |-> [p \in Slots |-> NoNumber]]

Init ==
    /\ held \in InitialHeld
    /\ phase = [r \in Runs |-> "idle"]
    /\ job = [r \in Runs |-> NoJob]
    /\ seen = [r \in Runs |-> Empty]
    /\ at = [r \in Runs |-> 1]
    /\ cursor = [r \in Runs |-> 0]
    /\ clamped = [r \in Runs |-> FALSE]
    /\ clean = [r \in Runs |-> TRUE]
    /\ spoiled = {}
    /\ runs = 0 /\ edits = 0 /\ troubles = 0

Trouble == /\ troubles < MaxTroubles
           /\ troubles' = troubles + 1

-----------------------------------------------------------------------------
(* What a run would do next, from its list.                                *)

\* Mutant: the profile's range is a default, not a ceiling.
LoAsked(j, p, inside) == j.lo[p]

(* clampToDynamicRange(): the range that was asked for, held inside the    *)
(* profile's if that is known.                                             *)
Lo(j, p, inside) ==
    IF inside /\ j.lo[p] < Dynamic[p].lo THEN Dynamic[p].lo ELSE j.lo[p]

Hi(j, p, inside) ==
    IF inside /\ j.hi[p] > Dynamic[p].hi THEN Dynamic[p].hi ELSE j.hi[p]

\* Mutant: a subscriber that has a number gets another one.
DueAnyway(r, u) ==
    /\ u \in job[r].scope
    /\ phase[r] \in Pools => <<u, phase[r]>> \notin Lacking

Due(r, u) ==
    /\ u \in job[r].scope
    /\ phase[r] \in Pools =>
          /\ <<u, phase[r]>> \notin Lacking
          /\ phase[r] \in job[r].over \/ seen[r][u][phase[r]] = NoNumber

IsNext(r, u) ==
    /\ u >= at[r] /\ Due(r, u)
    /\ \A v \in Subs : v >= at[r] /\ v < u => ~Due(r, v)

NoneDue(r) == \A u \in Subs : u >= at[r] => ~Due(r, u)

\* Mutant: only subscribers in scope are looked at.
OccupiedInScope(r) ==
    {seen[r][u][phase[r]] : u \in
        {v \in job[r].scope : phase[r] \notin job[r].over}}

(* A number that is about to be replaced counts as free, and so does one   *)
(* in a further session: find() stops at the first.                        *)
Occupied(r) ==
    {seen[r][u][phase[r]] : u \in
        {v \in Subs : ~(phase[r] \in job[r].over /\ v \in job[r].scope)}}

Free(r, n) ==
    /\ n >= cursor[r] /\ n <= Hi(job[r], phase[r], clamped[r])
    /\ n \notin Occupied(r)
    /\ phase[r] = "internet" => n # Gateway

NextFree(r, n) == Free(r, n) /\ \A m \in Numbers : m < n => ~Free(r, m)

NoneFree(r) == \A n \in Numbers : ~Free(r, n)

-----------------------------------------------------------------------------
(* The steps of a run.                                                     *)

Active(r) == phase[r] # "idle"

Shared(r, p) == \E q \in Runs \ {r} : Active(q) /\ p \in job[q].pools

FirstPhase(j) ==
    IF j.kind = "bulk" THEN "bulk"
    ELSE IF "internet" \in j.pools THEN "internet" ELSE "msisdn"

(* findDynamicRange(): a lookup that fails counts as a profile without a   *)
(* range.  MSISDNs have no profile.                                        *)
LooksUp(p, inside) ==
    \/ inside = (p \in SlicePools) /\ UNCHANGED troubles
    \/ p \in SlicePools /\ ~inside /\ Trouble

(* findAllFull(): the only time a run reads the subscribers.               *)
List(r, j) ==
    /\ ~Active(r) /\ runs < MaxRuns
    /\ runs' = runs + 1
    /\ job' = [job EXCEPT ![r] = j]
    /\ phase' = [phase EXCEPT ![r] = FirstPhase(j)]
    /\ seen' = [seen EXCEPT ![r] = held]
    /\ at' = [at EXCEPT ![r] = 1]
    /\ \E inside \in BOOLEAN :
          /\ LooksUp(FirstPhase(j), inside)
          /\ clamped' = [clamped EXCEPT ![r] = inside]
          /\ cursor' = [cursor EXCEPT ![r] =
                IF j.kind = "bulk" THEN 0 ELSE Lo(j, FirstPhase(j), inside)]
    /\ clean' = [clean EXCEPT ![r] = TRUE]
    /\ spoiled' = spoiled \cup {p \in j.pools : Shared(r, p)}
    /\ UNCHANGED <<held, edits>>

Give(r) ==
    \E u \in Subs, n \in Numbers :
      /\ phase[r] \in Pools
      /\ IsNext(r, u) /\ NextFree(r, n)
      /\ held' = [held EXCEPT ![u][phase[r]] = n]
      /\ at' = [at EXCEPT ![r] = u + 1]
      /\ cursor' = [cursor EXCEPT ![r] = n + 1]
      /\ UNCHANGED <<phase, job, seen, clamped, clean, spoiled, runs, edits, troubles>>

(* A number that was counted as free stays with its subscriber.            *)
KeepsNumber(r, u) == phase[r] \in job[r].over /\ seen[r][u][phase[r]] # NoNumber

Stop(r) ==
    /\ phase' = [phase EXCEPT ![r] = "idle"]
    /\ job' = [job EXCEPT ![r] = NoJob]
    /\ seen' = [seen EXCEPT ![r] = Empty]
    /\ at' = [at EXCEPT ![r] = 1]
    /\ cursor' = [cursor EXCEPT ![r] = 0]
    /\ clamped' = [clamped EXCEPT ![r] = FALSE]
    /\ clean' = [clean EXCEPT ![r] = TRUE]

(* The pools in which a run leaves off before the last number it was to    *)
(* replace.                                                                *)
LeftOff(r) ==
    {p \in job[r].over \cap {phase[r]} :
        \E u \in job[r].scope : u >= at[r] /\ seen[r][u][p] # NoNumber}

(* A write throws: the addresses go on with the next subscriber and the    *)
(* next number, the MSISDNs end with an error.                             *)
GiveFails(r) ==
    \E u \in Subs, n \in Numbers :
      /\ phase[r] \in Pools
      /\ IsNext(r, u) /\ NextFree(r, n)
      /\ Trouble
      /\ IF phase[r] = "msisdn"
         THEN /\ Stop(r)
              /\ spoiled' = spoiled \cup LeftOff(r)
         ELSE /\ at' = [at EXCEPT ![r] = u + 1]
              /\ cursor' = [cursor EXCEPT ![r] = n + 1]
              /\ clean' = [clean EXCEPT ![r] = FALSE]
              /\ spoiled' = spoiled \cup
                              {p \in {phase[r]} : KeepsNumber(r, u)}
              /\ UNCHANGED <<phase, job, seen, clamped>>
      /\ UNCHANGED <<held, runs, edits>>

(* The internet phase goes on to the IMS one, if it was asked for.         *)
NextPhase(r) ==
    IF phase[r] = "internet" /\ "ims" \in job[r].pools
    THEN /\ phase' = [phase EXCEPT ![r] = "ims"]
         /\ at' = [at EXCEPT ![r] = 1]
         /\ \E inside \in BOOLEAN :
               /\ LooksUp("ims", inside)
               /\ clamped' = [clamped EXCEPT ![r] = inside]
               /\ cursor' = [cursor EXCEPT ![r] = Lo(job[r], "ims", inside)]
         /\ clean' = [clean EXCEPT ![r] = TRUE]
         /\ UNCHANGED <<job, seen>>
    ELSE Stop(r) /\ UNCHANGED troubles

(* The pool is exhausted: the rest of the subscribers keep what they have. *)
Exhausted(r) ==
    /\ phase[r] \in SlicePools
    /\ ~NoneDue(r) /\ NoneFree(r)
    /\ spoiled' = spoiled \cup LeftOff(r)
    /\ NextPhase(r)
    /\ UNCHANGED <<held, runs, edits>>

PhaseDone(r) ==
    /\ Active(r) /\ NoneDue(r)
    /\ NextPhase(r)
    /\ UNCHANGED <<held, spoiled, runs, edits>>

(* bulkAddApn(): the slices as they were listed, with the replaced session *)
(* as the request has it, without an address.                              *)
WriteBack(r) ==
    \E u \in Subs :
      /\ phase[r] = "bulk" /\ IsNext(r, u)
      /\ held' = [held EXCEPT ![u] =
                     [p \in Slots |-> IF p \in job[r].over THEN NoNumber
                                      ELSE IF p \in SliceSlots THEN seen[r][u][p]
                                      ELSE @[p]]]
      /\ at' = [at EXCEPT ![r] = u + 1]
      /\ UNCHANGED <<phase, job, seen, cursor, clamped, clean, spoiled, runs, edits,
                     troubles>>

WriteBackFails(r) ==
    \E u \in Subs :
      /\ phase[r] = "bulk" /\ IsNext(r, u)
      /\ Trouble
      /\ at' = [at EXCEPT ![r] = u + 1]
      /\ UNCHANGED <<held, phase, job, seen, cursor, clamped, clean, spoiled, runs,
                     edits>>

-----------------------------------------------------------------------------
(* update() and create() write what the operator sent, whoever holds it.   *)
Edit(u, p, n) ==
    /\ edits < MaxEdits
    /\ edits' = edits + 1
    /\ <<u, p>> \notin Lacking
    /\ held' = [held EXCEPT ![u][p] = n]
    /\ spoiled' =
          IF \/ \E r \in Runs : Active(r) /\ p \in job[r].pools
             \/ n # NoNumber /\ \E v \in Subs \ {u} : held[v][p] = n
          THEN spoiled \cup {p} ELSE spoiled
    /\ UNCHANGED <<local, runs, troubles>>

(* The backend restarts: its runs end where they are.                      *)
Restart ==
    /\ Trouble
    /\ phase' = [r \in Runs |-> "idle"]
    /\ job' = [r \in Runs |-> NoJob]
    /\ seen' = [r \in Runs |-> Empty]
    /\ at' = [r \in Runs |-> 1]
    /\ cursor' = [r \in Runs |-> 0]
    /\ clamped' = [r \in Runs |-> FALSE]
    /\ clean' = [r \in Runs |-> TRUE]
    /\ spoiled' = spoiled \cup UNION {LeftOff(r) : r \in Runs}
    /\ UNCHANGED <<held, runs, edits>>

-----------------------------------------------------------------------------
RunStep(r) ==
    \/ \E j \in Requests : List(r, j)
    \/ Give(r) \/ GiveFails(r) \/ Exhausted(r) \/ PhaseDone(r)
    \/ WriteBack(r) \/ WriteBackFails(r)

Next ==
    \/ \E r \in Runs : RunStep(r)
    \/ \E u \in Subs, p \in Slots, n \in Numbers \cup {NoNumber} : Edit(u, p, n)
    \/ Restart

Spec == Init /\ [][Next]_vars

-----------------------------------------------------------------------------
(* A run is at a pool it was asked about.                                  *)
AtItsPool(r) ==
    /\ phase[r] = "idle" <=> job[r] = NoJob
    /\ phase[r] = "bulk" <=> job[r].kind = "bulk"
    /\ phase[r] \in Pools => phase[r] \in job[r].pools

(* The variables hold values of the shapes the code gives them; a run is   *)
(* at a pool it was asked about and never past the end of its list.        *)
TypeOK ==
    /\ held \in [Subs -> [Slots -> Numbers \cup {NoNumber}]]
    /\ phase \in [Runs -> Pools \cup {"bulk", "idle"}]
    /\ job \in [Runs -> Requests \cup {NoJob}]
    /\ \A r \in Runs : AtItsPool(r)
    /\ seen \in [Runs -> [Subs -> [Slots -> Numbers \cup {NoNumber}]]]
    /\ at \in [Runs -> 1..(N + 1)]
    /\ cursor \in [Runs -> Nat]
    /\ clamped \in [Runs -> BOOLEAN] /\ clean \in [Runs -> BOOLEAN]
    /\ spoiled \subseteq Slots
    /\ runs \in 0..MaxRuns /\ edits \in 0..MaxEdits
    /\ troubles \in 0..MaxTroubles

(* A run is about to replace the number of u.                              *)
Pending(r, u, p) ==
    /\ phase[r] = p /\ p \in job[r].over
    /\ u \in job[r].scope /\ u >= at[r]

(* No two subscribers hold the same MSISDN, or in their first sessions the *)
(* same address, but while a run is on its way to replace one of the two:  *)
(* a run gives what its list does not show, and what it gives stays free   *)
(* because nothing else writes the pool.  Pools in which that failed, or a *)
(* replacing run ended early, are excused.  Nothing is said of further     *)
(* sessions, where a run does not look.                                    *)
Distinct ==
    \A p \in Pools \ spoiled, u, v \in Subs :
        u # v /\ held[u][p] # NoNumber /\ held[u][p] = held[v][p] =>
            \E r \in Runs : Pending(r, u, p) \/ Pending(r, v, p)

(* A number goes away only by an edit, or by a run that was told to        *)
(* replace it: a run acts on a list that may be old, yet what it finds     *)
(* there is what is still there, unless runs or edits overlapped.          *)
KeptUnlessReplaced ==
    [][\A u \in Subs, p \in Slots :
        held[u][p] # NoNumber /\ held'[u][p] # held[u][p] =>
            \/ edits' # edits \/ p \in spoiled
            \/ \E r \in Runs : p \in job[r].over /\ u \in job[r].scope]_vars

(* A phase that comes to its end without an error and without company has  *)
(* given every subscriber in scope a number of the range that was asked    *)
(* for, and inside the profile's range if its lookup went through: the     *)
(* cursor passes over nobody and over no number it should have given.      *)
Served ==
    [][\A r \in Runs :
        LET p == phase[r] IN
        /\ p \in Pools \ spoiled
        /\ clean[r] /\ NoneDue(r)
        /\ phase'[r] # p
        => \A u \in job[r].scope :
              \/ <<u, p>> \in Lacking
              \/ p \notin job[r].over /\ held[u][p] = seen[r][u][p] /\ seen[r][u][p] # NoNumber
              \/ /\ held[u][p] \in job[r].lo[p]..job[r].hi[p]
                 /\ clamped[r] => held[u][p] \in Dynamic[p].lo..Dynamic[p].hi]_vars
=============================================================================
