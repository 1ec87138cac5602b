---------------------------- MODULE Routes_proofs ----------------------------
(***************************************************************************)
(* Proofs about the two components that keep routes right.                 *)
(*                                                                         *)
(* EigrpGuard: type correctness, that within one life of the backend the   *)
(* cooldown and the cap hold and nothing of the window is forgotten, and   *)
(* that a restart has a reason, for any interval, cooldown, window and cap.*)
(*                                                                         *)
(* FramedRoutes: type correctness, that a request nothing disturbs leaves  *)
(* the kernel as its answer says, and that every route was right for a     *)
(* document, for any number of requests, passes, subscribers, networks,    *)
(* devices and failures.                                                   *)
(***************************************************************************)
EXTENDS EigrpGuard, FramedRoutes, FiniteSetTheorems, TLAPS

-----------------------------------------------------------------------------
(* The EIGRP guard *)

(* A check ends before the next one is due, and decides while it runs.     *)
CheckInTime ==
    /\ clock >= 1
    /\ pc # "idle" => /\ began <= clock /\ clock < began + Interval
                      /\ began >= 1
    /\ pc \in {"recover", "remember"} => began <= now /\ now <= clock

(* A restart is carried out in the check that decided on it, and a life of *)
(* the backend decides on one at a time.                                   *)
RestartsProper ==
    /\ \A r \in restarts : /\ r.life <= losses
                           /\ r.decided >= 1 /\ r.decided <= r.done
                           /\ r.done - r.decided < Interval
    /\ \A r, s \in restarts : r.life = s.life /\ r.decided = s.decided => r = s

(* The memory knows the last restart of this life, and from a decision on  *)
(* all that its window holds.                                              *)
MemoryTrue ==
    /\ IsFiniteSet(restartTimes)
    /\ \A r \in restarts :
          r.life = losses =>
            /\ r.decided <= IF pc = "remember" THEN now ELSE lastRestartAt
            /\ pc = "recover" /\ now - r.decided < Window => r.decided \in restartTimes
            /\ pc = "remember" /\ clock - r.decided < Window =>
                  r.decided \in restartTimes \cup {now}
    /\ pc = "recover" => RestartAllowed(now)

(* What a check has read of a table is what the table was at some moment   *)
(* of the check; of one that failed, the topology names no more than that  *)
(* and the kernel's routes are among those that were there.                *)
ReadingsTrue ==
    /\ pc \in {"idle", "active?"} => read = Unread /\ failed = {}
    /\ pc = "read" =>
          /\ NetworkNow \in moments
          /\ \A t \in Tables \ (pending \cup failed) : \E m \in moments : read[t] = m[t]
          /\ \E m \in moments : read.topology \subseteq m.topology
          /\ \A p \in Prefixes : read.routes[p] # NoRoute =>
                \E m \in moments : m.routes[p] # NoRoute
          /\ pending \cap failed = {}
          /\ "routes" \in pending => read.routes = Unread.routes
          /\ "nexthops" \in pending => read.nexthops = {}

LimitsInv == CheckInTime /\ RestartsProper /\ MemoryTrue /\ NothingForgotten /\ LimitsKept

ReasonInv == ReadingsTrue /\ VerdictJustified

(***************************************************************************)
(* Type correctness.                                                       *)
(***************************************************************************)

LEMMA UnreadType == Unread \in Networks
BY DEF Unread, Networks

\* The three variables of the network make one record of its type.
LEMMA NetworkTyped ==
    NetworkNow \in Networks <=> /\ topo \in SUBSET Prefixes
                                /\ fib \in [Prefixes -> Nexthops \cup {NoRoute}]
                                /\ bare \in SUBSET Nexthops
<1>1. ASSUME NetworkNow \in Networks
      PROVE  /\ NetworkNow.topology \in SUBSET Prefixes
             /\ NetworkNow.routes \in [Prefixes -> Nexthops \cup {NoRoute}]
             /\ NetworkNow.nexthops \in SUBSET Nexthops
  BY <1>1 DEF Networks
<1>2. NetworkNow.topology = topo /\ NetworkNow.routes = fib /\ NetworkNow.nexthops = bare
  BY DEF NetworkNow
<1>3. ASSUME topo \in SUBSET Prefixes, fib \in [Prefixes -> Nexthops \cup {NoRoute}],
             bare \in SUBSET Nexthops
      PROVE  NetworkNow \in Networks
  BY <1>3 DEF NetworkNow, Networks
<1> QED BY <1>1, <1>2, <1>3

\* A record of the type of the network keeps it when a field gets a value of its type.
LEMMA ReadTyped ==
    ASSUME NEW r \in Networks, NEW n \in Networks, NEW t \in Tables
    PROVE  [r EXCEPT ![t] = n[t]] \in Networks
<1>1. CASE t = "topology"
  BY <1>1 DEF Networks
<1>2. CASE t = "routes"
  BY <1>2 DEF Networks
<1>3. CASE t = "nexthops"
  BY <1>3 DEF Networks
<1> QED BY <1>1, <1>2, <1>3 DEF Tables

\* What a command that failed has printed has the type of the table.
LEMMA PrintedTyped ==
    ASSUME NetworkNow \in Networks, NEW t \in Tables, NEW rows \in Printed(t)
    PROVE  \E n \in Networks : n[t] = rows
<1> DEFINE N == [NetworkNow EXCEPT ![t] = rows]
<1>0. topo \in SUBSET Prefixes
  BY NetworkTyped
<1>1. CASE t = "topology"
  <2>1. rows \in SUBSET Prefixes
    BY <1>0, <1>1 DEF Printed
  <2>2. N \in Networks /\ N[t] = rows
    BY <1>1, <2>1 DEF Networks
  <2> QED BY <2>2
<1>2. CASE t = "routes"
  <2>1. rows \in [Prefixes -> Nexthops \cup {NoRoute}]
    BY <1>2 DEF Printed
  <2>2. N \in Networks /\ N[t] = rows
    BY <1>2, <2>1 DEF Networks
  <2> QED BY <2>2
<1>3. CASE t = "nexthops"
  <2>1. rows \in SUBSET Nexthops
    BY <1>3 DEF Printed
  <2>2. N \in Networks /\ N[t] = rows
    BY <1>3, <2>1 DEF Networks
  <2> QED BY <2>2
<1> QED BY <1>1, <1>2, <1>3 DEF Tables

LEMMA TypeInit == Init => TypeOK
<1> SUFFICES ASSUME Init PROVE TypeOK
  OBVIOUS
<1>1. NetworkNow \in Networks
  BY NetworkTyped DEF Init
<1>2. read \in Networks
  BY UnreadType DEF Init
<1> QED BY <1>1, <1>2, GuardAssumption DEF Init, TypeOK

LEMMA TypeStep == TypeOK /\ [Next]_vars => TypeOK'
<1> SUFFICES ASSUME TypeOK, [Next]_vars PROVE TypeOK'
  OBVIOUS
<1> USE GuardAssumption, UnreadType DEF TypeOK
<1>a. UNCHANGED network => NetworkNow' = NetworkNow
  BY DEF network, NetworkNow
<1>b. UNCHANGED network => NetworkNow' \in Networks
  BY <1>a
<1> USE <1>b DEF memory
<1>1. CASE TimerFires
  BY <1>1 DEF TimerFires, readings, history
<1>2. CASE ServiceDead
  BY <1>2 DEF ServiceDead, EndCheck
<1>3. CASE ServiceActive
  BY <1>3 DEF ServiceActive
<1>4. ASSUME NEW t \in Tables, ReadTable(t) PROVE TypeOK'
  <2>1. read' \in Networks
    BY <1>4, ReadTyped DEF ReadTable
  <2> QED BY <1>4, <2>1 DEF ReadTable, history
<1>5. ASSUME NEW t \in Tables, ReadFails(t) PROVE TypeOK'
  <2>1. PICK rows \in Printed(t) : read' = [read EXCEPT ![t] = rows]
    BY <1>5 DEF ReadFails
  <2>2. PICK n \in Networks : n[t] = rows
    BY <1>5, <2>1, PrintedTyped
  <2>3. read' \in Networks
    BY <2>1, <2>2, ReadTyped
  <2> QED BY <1>5, <2>3 DEF ReadFails, Event
<1>6. CASE Leave
  BY <1>6 DEF Leave, EndCheck
<1>7. CASE Decide
  BY <1>7 DEF Decide, readings, history
<1>8. CASE Unpatched
  BY <1>8 DEF Unpatched, EndCheck
<1>9. CASE RestartFrr
  <2>1. restarts' \subseteq [decided : Nat, done : Nat, life : Nat]
    BY <1>9 DEF RestartFrr
  <2>2. NetworkNow' \in Networks
    <3>1. CASE topo' = {} /\ fib' = [p \in Prefixes |-> NoRoute] /\ bare' = {}
      <4>1. NetworkNow' = Unread
        BY <3>1 DEF NetworkNow, Unread
      <4> QED BY <4>1
    <3> QED BY <1>9, <3>1 DEF RestartFrr
  <2> QED BY <1>9, <2>1, <2>2 DEF RestartFrr, readings, history
<1>10. CASE Remember
  BY <1>10 DEF Remember, EndCheck
<1>11. CASE Tick
  BY <1>11 DEF Tick, readings, history
<1>12. CASE NetworkChanges
  <2>1. /\ topo \in SUBSET Prefixes /\ bare \in SUBSET Nexthops
        /\ fib \in [Prefixes -> Nexthops \cup {NoRoute}]
    BY NetworkTyped
  <2>2. /\ topo' \in SUBSET Prefixes /\ bare' \in SUBSET Nexthops
        /\ fib' \in [Prefixes -> Nexthops \cup {NoRoute}]
    BY <1>12, <2>1 DEF NetworkChanges
  <2>3. NetworkNow' \in Networks
    BY <2>2 DEF NetworkNow, Networks
  <2>4. moments' \subseteq Networks
    BY <1>12, <2>3 DEF NetworkChanges
  <2> QED BY <1>12, <2>3, <2>4 DEF NetworkChanges, Event, readings
<1>13. CASE BackendRestart
  BY <1>13 DEF BackendRestart, EndCheck, Event
<1>14. CASE UNCHANGED vars
  BY <1>14 DEF vars, readings, history
<1> QED BY <1>1, <1>2, <1>3, <1>4, <1>5, <1>6, <1>7, <1>8, <1>9, <1>10, <1>11, <1>12,
           <1>13, <1>14 DEF Next, CheckStep

\* Every variable of the guard keeps its type.
THEOREM TypeCorrect == Spec => []TypeOK
BY TypeInit, TypeStep, PTL DEF Spec

(***************************************************************************)
(* The verdict of a check.                                                 *)
(***************************************************************************)

LEMMA ReasonInit == Init => ReasonInv
BY DEF Init, ReasonInv, ReadingsTrue, VerdictJustified

\* A restart is decided on for a fault both halves of which were there.
LEMMA VerdictAccuses ==
    ASSUME TypeOK, ReadingsTrue, pc = "read", pending = {}, Diagnosed
    PROVE  Accused
<1> USE DEF TypeOK, ReadingsTrue
<1>1. "routes" \notin failed => \E m \in moments : read.routes = m.routes
  BY DEF Tables
<1>2. "nexthops" \notin failed => \E m \in moments : read.nexthops = m.nexthops
  BY DEF Tables
<1>3. CASE \E p \in Required \cap read.topology : read.routes[p] = NoRoute
  <2>1. PICK p \in Required \cap read.topology : read.routes[p] = NoRoute
    BY <1>3
  <2>2. \E m \in moments : p \in m.topology
    BY <2>1
  <2>3. "routes" \in failed \/ \E m \in moments : m.routes[p] = NoRoute
    BY <1>1, <2>1
  <2> QED BY <2>1, <2>2, <2>3 DEF Accused
<1>4. CASE \E p \in Prefixes : read.routes[p] \in read.nexthops
  <2>1. PICK p \in Prefixes : read.routes[p] \in read.nexthops
    BY <1>4
  <2> DEFINE n == read.routes[p]
  <2>2. n \in Nexthops /\ n # NoRoute
    BY <2>1, GuardAssumption DEF Networks
  <2>3. \E m \in moments : IF "routes" \in failed THEN m.routes[p] # NoRoute ELSE m.routes[p] = n
    BY <1>1, <2>2
  <2>4. "nexthops" \in failed \/ \E m \in moments : n \in m.nexthops
    BY <1>2, <2>1
  <2> HIDE DEF n
  <2> QED BY <2>2, <2>3, <2>4 DEF Accused
<1> QED BY <1>3, <1>4 DEF Diagnosed

\* A fault that stood while all was read is found.
LEMMA StandingFound ==
    ASSUME TypeOK, ReadingsTrue, pc = "read", pending = {}, failed = {}, Standing
    PROVE  Diagnosed
<1> USE DEF ReadingsTrue
<1>1. PICK a \in moments : read.topology = a.topology
  BY DEF Tables
<1>2. PICK b \in moments : read.routes = b.routes
  BY DEF Tables
<1>3. PICK c \in moments : read.nexthops = c.nexthops
  BY DEF Tables
<1> QED BY <1>1, <1>2, <1>3 DEF Standing, Diagnosed

\* What the invariant says of the readings goes over to more moments.
LEMMA ReadingsCarried ==
    ASSUME ReadingsTrue, pc = "read", pc' = "read", UNCHANGED <<readings, failed>>,
           moments \subseteq moments', NetworkNow' \in moments'
    PROVE  ReadingsTrue'
BY DEF ReadingsTrue, readings, Unread

LEMMA ReasonStep == TypeOK /\ ReasonInv /\ [Next]_vars => ReasonInv'
<1> SUFFICES ASSUME TypeOK, ReasonInv, [Next]_vars PROVE ReasonInv'
  OBVIOUS
<1>a. UNCHANGED network => NetworkNow' = NetworkNow
  BY DEF network, NetworkNow
<1>b. ASSUME ReadingsTrue', pc' # "recover" PROVE ReasonInv'
  <2>1. TypeOK'
    BY TypeStep
  <2>2. (TypeOK /\ ReadingsTrue /\ pc = "read" /\ pending = {} /\ failed = {} /\ Standing
          => Diagnosed)'
    BY StandingFound, PTL
  <2> QED BY <1>b, <2>1, <2>2 DEF ReasonInv, VerdictJustified
<1>c. ASSUME pc' = "recover", Accused' PROVE ReasonInv'
  BY <1>c DEF ReasonInv, VerdictJustified, ReadingsTrue
<1>d. ASSUME EndCheck PROVE ReasonInv'
  BY <1>b, <1>d DEF EndCheck, ReadingsTrue, Unread
<1>e. ASSUME pc = "recover", pc' = "recover", UNCHANGED history PROVE ReasonInv'
  <2>1. Accused'
    BY <1>e DEF ReasonInv, VerdictJustified, Accused, history
  <2> QED BY <1>c, <1>e, <2>1
<1>f. ASSUME pc' = pc, UNCHANGED <<readings, failed>>, moments \subseteq moments',
             pc = "read" => NetworkNow' \in moments', pc # "read" => moments' = moments
      PROVE  ReasonInv'
  <2>1. CASE pc = "recover"
    BY <1>e, <1>f, <2>1 DEF history
  <2>2. CASE pc = "read"
    BY <1>b, <1>f, <2>2, ReadingsCarried DEF ReasonInv
  <2>3. CASE pc \notin {"read", "recover"}
    <3>1. ReadingsTrue'
      BY <1>f, <2>3 DEF ReasonInv, ReadingsTrue, readings, Unread
    <3> QED BY <1>b, <1>f, <2>3, <3>1
  <2> QED BY <2>1, <2>2, <2>3
<1>1. CASE TimerFires
  <2>1. ReadingsTrue'
    BY <1>1 DEF TimerFires, ReasonInv, ReadingsTrue, readings, history, Unread
  <2> QED BY <1>1, <1>b, <2>1 DEF TimerFires
<1>2. CASE ServiceDead
  BY <1>2, <1>d DEF ServiceDead
<1>3. CASE ServiceActive
  <2>1. /\ pc' = "read" /\ pending' = Tables /\ moments' = {NetworkNow}
        /\ failed' = {} /\ read' = Unread /\ NetworkNow' = NetworkNow
    BY <1>3, <1>a DEF ServiceActive, ReasonInv, ReadingsTrue
  <2>2. ReadingsTrue'
    BY <2>1 DEF ReadingsTrue, Unread
  <2> QED BY <1>b, <2>1, <2>2
<1>4. ASSUME NEW t \in Tables, ReadTable(t) PROVE ReasonInv'
  <2>1. /\ pc = "read" /\ pc' = "read" /\ moments' = moments /\ failed' = failed
        /\ NetworkNow' = NetworkNow /\ pending' = pending \ {t} /\ t \in pending
        /\ read' = [read EXCEPT ![t] = NetworkNow[t]]
    BY <1>4, <1>a DEF ReadTable, history
  <2>2. NetworkNow \in moments
    BY <2>1 DEF ReasonInv, ReadingsTrue
  <2>3. /\ read'[t] = NetworkNow[t]
        /\ \A u \in Tables \ {t} : read'[u] = read[u]
    BY <2>1 DEF TypeOK, Networks, Tables
  <2>4. \A u \in Tables \ (pending' \cup failed') : \E m \in moments' : read'[u] = m[u]
    BY <2>1, <2>2, <2>3 DEF ReasonInv, ReadingsTrue
  <2>5. \E m \in moments' : read'.topology \subseteq m.topology
    BY <2>1, <2>2, <2>3 DEF ReasonInv, ReadingsTrue, Tables
  <2>6. \A p \in Prefixes : read'.routes[p] # NoRoute => \E m \in moments' : m.routes[p] # NoRoute
    <3>1. CASE t = "routes"
      BY <2>1, <2>2, <2>3, <3>1
    <3>2. CASE t # "routes"
      <4>1. read'.routes = read.routes
        BY <2>3, <3>2 DEF Tables
      <4> QED BY <2>1, <4>1 DEF ReasonInv, ReadingsTrue
    <3> QED BY <3>1, <3>2
  <2>7. /\ "routes" \in pending' => read'.routes = Unread.routes
        /\ "nexthops" \in pending' => read'.nexthops = {}
    BY <2>1, <2>3 DEF ReasonInv, ReadingsTrue, Tables
  <2>8. ReadingsTrue'
    BY <2>1, <2>2, <2>4, <2>5, <2>6, <2>7 DEF ReasonInv, ReadingsTrue, Unread
  <2> QED BY <1>b, <2>1, <2>8
<1>5. ASSUME NEW t \in Tables, ReadFails(t) PROVE ReasonInv'
  <2>0. PICK rows \in Printed(t) : read' = [read EXCEPT ![t] = rows]
    BY <1>5 DEF ReadFails
  <2>1. /\ pc = "read" /\ pc' = "read" /\ moments' = moments /\ failed' = failed \cup {t}
        /\ NetworkNow' = NetworkNow /\ pending' = pending \ {t} /\ t \in pending
    BY <1>5, <1>a DEF ReadFails
  <2>2. NetworkNow \in moments
    BY <2>1 DEF ReasonInv, ReadingsTrue
  <2>3. /\ read'[t] = rows
        /\ \A u \in Tables \ {t} : read'[u] = read[u]
    BY <2>0 DEF TypeOK, Networks, Tables
  <2>4. \A u \in Tables \ (pending' \cup failed') : \E m \in moments' : read'[u] = m[u]
    BY <2>1, <2>3 DEF ReasonInv, ReadingsTrue
  <2>5. \E m \in moments' : read'.topology \subseteq m.topology
    <3>1. CASE t = "topology"
      <4>1. read'.topology \subseteq NetworkNow.topology
        BY <2>0, <2>3, <3>1 DEF Printed, NetworkNow
      <4> QED BY <2>1, <2>2, <4>1
    <3>2. CASE t # "topology"
      <4>1. read'.topology = read.topology
        BY <2>3, <3>2 DEF Tables
      <4> QED BY <2>1, <4>1 DEF ReasonInv, ReadingsTrue
    <3> QED BY <3>1, <3>2
  <2>6. \A p \in Prefixes : read'.routes[p] # NoRoute => \E m \in moments' : m.routes[p] # NoRoute
    <3>1. CASE t = "routes"
      <4>1. \A p \in Prefixes : read'.routes[p] # NoRoute => NetworkNow.routes[p] # NoRoute
        BY <2>0, <2>3, <3>1 DEF Printed, NetworkNow
      <4> QED BY <2>1, <2>2, <4>1
    <3>2. CASE t # "routes"
      <4>1. read'.routes = read.routes
        BY <2>3, <3>2 DEF Tables
      <4> QED BY <2>1, <4>1 DEF ReasonInv, ReadingsTrue
    <3> QED BY <3>1, <3>2
  <2>7. /\ "routes" \in pending' => read'.routes = Unread.routes
        /\ "nexthops" \in pending' => read'.nexthops = {}
    BY <2>1, <2>3 DEF ReasonInv, ReadingsTrue, Tables
  <2>8. ReadingsTrue'
    BY <2>1, <2>2, <2>4, <2>5, <2>6, <2>7 DEF ReasonInv, ReadingsTrue, Unread
  <2> QED BY <1>b, <2>1, <2>8
<1>6. CASE Leave
  BY <1>6, <1>d DEF Leave
<1>7. CASE Decide
  <2>1. Accused
    BY <1>7, VerdictAccuses DEF Decide, ReasonInv
  <2>2. Accused'
    BY <1>7, <2>1 DEF Decide, Accused, history
  <2> QED BY <1>7, <1>c, <2>2 DEF Decide
<1>8. CASE Unpatched
  BY <1>8, <1>d DEF Unpatched
<1>9. CASE RestartFrr
  <2>1. pc' = "remember"
    BY <1>9 DEF RestartFrr
  <2> QED BY <1>b, <2>1 DEF ReadingsTrue
<1>10. CASE Remember
  BY <1>10, <1>d DEF Remember
<1>11. CASE Tick
  <2>1. pc = "read" => NetworkNow' \in moments'
    BY <1>11, <1>a DEF Tick, ReasonInv, ReadingsTrue, history
  <2> QED BY <1>11, <1>f, <2>1 DEF Tick, history
<1>12. CASE NetworkChanges
  BY <1>12, <1>f DEF NetworkChanges
<1>13. CASE BackendRestart
  BY <1>13, <1>d DEF BackendRestart
<1>14. CASE UNCHANGED vars
  <2>1. pc = "read" => NetworkNow' \in moments'
    BY <1>14, <1>a DEF vars, ReasonInv, ReadingsTrue, history
  <2> QED BY <1>14, <1>f, <2>1 DEF vars, history
<1> QED BY <1>1, <1>2, <1>3, <1>4, <1>5, <1>6, <1>7, <1>8, <1>9, <1>10, <1>11, <1>12,
           <1>13, <1>14 DEF Next, CheckStep

\* A check whose four readings are of different moments restarts frr only for a fault both
\* halves of which were there, unless the reading of a half failed, and overlooks no fault
\* that stood while it read.
THEOREM ReasonTheorem == Spec => []VerdictJustified
<1>1. Spec => []ReasonInv
  BY TypeCorrect, ReasonInit, ReasonStep, PTL DEF Spec
<1> QED BY <1>1, PTL DEF ReasonInv

(***************************************************************************)
(* The limits.                                                             *)
(***************************************************************************)

LEMMA LimitsInit == Init => LimitsInv
<1> SUFFICES ASSUME Init PROVE LimitsInv
  OBVIOUS
<1>1. IsFiniteSet({})
  BY FS_EmptySet
<1> QED BY <1>1 DEF Init, LimitsInv, CheckInTime, RestartsProper, MemoryTrue,
                    NothingForgotten, LimitsKept

\* One element more is at most one more.
LEMMA OneMore ==
    ASSUME NEW S, NEW x, IsFiniteSet(S), NEW n \in Nat, Cardinality(S) < n
    PROVE  Cardinality(S \cup {x}) <= n
<1>1. Cardinality(S) \in Nat
  BY FS_CardinalityType
<1> QED BY <1>1, FS_AddElement

(* The restarts of a set that the window of r holds.                       *)
InWindow(set, r) ==
    {s \in set : s.life = r.life /\ s.decided \in r.decided - Window + 1 .. r.decided}

\* A restart that the memory allows makes one more than the memory counts.
LEMMA CapOfNew ==
    ASSUME TypeOK, LimitsInv, pc = "recover",
           NEW e, e = [decided |-> now, done |-> clock, life |-> losses]
    PROVE  Cardinality(InWindow(restarts \cup {e}, e)) <= MaxRestarts
<1> DEFINE T == {t \in restartTimes : now - t < Window}
           Old == {s \in restarts : s.life = losses /\ s.decided \in now - Window + 1 .. now}
           f == [s \in Old |-> s.decided]
<1>1. IsFiniteSet(T) /\ Cardinality(T) < MaxRestarts
  BY FS_Subset DEF LimitsInv, MemoryTrue, RestartAllowed
<1>2. \A s \in Old : f[s] \in T
  BY GuardAssumption DEF LimitsInv, MemoryTrue, TypeOK
<1>3. \A r, s \in Old : f[r] = f[s] => r = s
  BY DEF LimitsInv, RestartsProper
<1>4. f \in Injection(Old, T)
  <2>1. f \in [Old -> T]
    BY <1>2
  <2>2. \A r, s \in DOMAIN f : f[r] = f[s] => r = s
    BY <1>3
  <2> HIDE DEF f, Old, T
  <2> QED BY <2>1, <2>2 DEF Injection, IsInjective
<1>5. IsFiniteSet(Old) /\ Cardinality(Old) <= Cardinality(T)
  BY <1>1, <1>4, FS_Injection
<1>6. InWindow(restarts \cup {e}, e) = Old \cup {e}
  BY GuardAssumption DEF InWindow, TypeOK
<1>7. Cardinality(Old) < MaxRestarts
  <2> HIDE DEF Old, T
  <2>1. Cardinality(Old) \in Nat /\ Cardinality(T) \in Nat
    BY <1>1, <1>5, FS_CardinalityType
  <2> QED BY <1>1, <1>5, <2>1, GuardAssumption
<1>8. Cardinality(Old \cup {e}) <= MaxRestarts
  <2> HIDE DEF Old
  <2> QED BY <1>5, <1>7, OneMore, GuardAssumption
<1> HIDE DEF Old
<1> QED BY <1>6, <1>8

LEMMA LimitsStep == TypeOK /\ LimitsInv /\ [Next]_vars => LimitsInv'
<1> SUFFICES ASSUME TypeOK, LimitsInv, [Next]_vars PROVE LimitsInv'
  OBVIOUS
<1> USE GuardAssumption DEF memory
\* Steps that leave the clock, the memory and the restarts alone.
<1>1. ASSUME UNCHANGED <<clock, memory, restarts, losses>>, pc # "remember",
             \/ pc' = "idle"
             \/ pc # "idle" /\ pc' \in {"active?", "read"} /\ UNCHANGED <<began, now>>
      PROVE  LimitsInv'
  BY <1>1 DEF LimitsInv, CheckInTime, RestartsProper, MemoryTrue, RestartAllowed,
              NothingForgotten, LimitsKept, TypeOK
<1>2. CASE TimerFires
  BY <1>2 DEF TimerFires, LimitsInv, CheckInTime, RestartsProper, MemoryTrue,
              NothingForgotten, LimitsKept, TypeOK
<1>3. CASE ServiceDead \/ ServiceActive
  BY <1>1, <1>3 DEF ServiceDead, ServiceActive, EndCheck
<1>4. ASSUME NEW t \in Tables, ReadTable(t) \/ ReadFails(t) PROVE LimitsInv'
  BY <1>1, <1>4 DEF ReadTable, ReadFails
<1>5. CASE Leave \/ Unpatched
  BY <1>1, <1>5 DEF Leave, Unpatched, EndCheck
<1>6. CASE Decide
  <2>1. RestartAllowed(now)'
    BY <1>6 DEF Decide, RestartAllowed
  <2>2. MemoryTrue'
    BY <1>6, <2>1 DEF Decide, LimitsInv, MemoryTrue, NothingForgotten, TypeOK
  <2> QED BY <1>6, <2>2 DEF Decide, LimitsInv, CheckInTime, RestartsProper,
                            NothingForgotten, LimitsKept, TypeOK
<1>7. CASE RestartFrr
  <2> DEFINE e == [decided |-> now, done |-> clock, life |-> losses]
  <2>1. restarts' = restarts \cup {e} /\ pc = "recover" /\ pc' = "remember"
        /\ UNCHANGED <<clock, began, now, memory, losses>>
    BY <1>7 DEF RestartFrr
  <2>2. \A r \in restarts : r.life = losses =>
            /\ r.decided <= lastRestartAt /\ r.decided >= 1
            /\ r.done - r.decided < Interval
            /\ now - r.decided >= Cooldown /\ now > r.decided
    BY <2>1 DEF LimitsInv, MemoryTrue, RestartsProper, RestartAllowed, TypeOK
  <2>3. CheckInTime'
    BY <2>1 DEF LimitsInv, CheckInTime
  <2>4. RestartsProper'
    BY <2>1, <2>2 DEF LimitsInv, RestartsProper, CheckInTime, TypeOK
  <2>5. MemoryTrue'
    BY <2>1, <2>2 DEF LimitsInv, MemoryTrue, NothingForgotten, TypeOK
  <2>6. ASSUME NEW r \in restarts', NEW s \in restarts',
               r.life = s.life, r.decided < s.decided
        PROVE  s.done - r.done > Cooldown - Interval
    <3>1. r # e
      BY <2>1, <2>2, <2>6 DEF TypeOK
    <3>2. CASE s = e
      <4>1. r \in restarts /\ r.life = losses
        BY <2>1, <2>6, <3>1, <3>2
      <4> QED BY <2>1, <2>2, <3>2, <4>1 DEF LimitsInv, CheckInTime, TypeOK
    <3>3. CASE s # e
      BY <2>1, <2>6, <3>1, <3>3 DEF LimitsInv, LimitsKept
    <3> QED BY <3>2, <3>3
  <2>7. ASSUME NEW r \in restarts'
        PROVE  Cardinality(InWindow(restarts', r)) <= MaxRestarts
    <3>1. CASE r = e
      BY <2>1, <3>1, CapOfNew
    <3>2. CASE r \in restarts
      <4>1. InWindow(restarts', r) = InWindow(restarts, r)
        BY <2>1, <2>2, <3>2 DEF InWindow, TypeOK
      <4> QED BY <3>2, <4>1 DEF LimitsInv, LimitsKept, InWindow
    <3> QED BY <2>1, <3>1, <3>2
  <2>8. LimitsKept'
    BY <2>6, <2>7 DEF LimitsKept, InWindow
  <2> QED BY <2>1, <2>3, <2>4, <2>5, <2>8 DEF LimitsInv, NothingForgotten
<1>8. CASE Remember
  <2>1. IsFiniteSet(restartTimes')
    <3>1. IsFiniteSet(restartTimes \cup {now})
      BY FS_AddElement DEF LimitsInv, MemoryTrue
    <3> QED BY <1>8, <3>1, FS_Subset DEF Remember
  <2>2. MemoryTrue'
    BY <1>8, <2>1 DEF Remember, EndCheck, LimitsInv, MemoryTrue
  <2>3. NothingForgotten'
    BY <1>8 DEF Remember, EndCheck, LimitsInv, MemoryTrue, CheckInTime, NothingForgotten, TypeOK
  <2> QED BY <1>8, <2>2, <2>3
        DEF Remember, EndCheck, LimitsInv, CheckInTime, RestartsProper, LimitsKept
<1>9. CASE Tick
  BY <1>9 DEF Tick, LimitsInv, CheckInTime, RestartsProper, MemoryTrue, RestartAllowed,
              NothingForgotten, LimitsKept, TypeOK
<1>10. CASE NetworkChanges
  BY <1>10 DEF NetworkChanges, LimitsInv, CheckInTime, RestartsProper, MemoryTrue,
               RestartAllowed, NothingForgotten, LimitsKept
<1>11. CASE BackendRestart
  BY <1>11, FS_EmptySet DEF BackendRestart, EndCheck, LimitsInv, CheckInTime, RestartsProper,
               MemoryTrue, NothingForgotten, LimitsKept, TypeOK
<1>12. CASE UNCHANGED vars
  BY <1>12 DEF vars, LimitsInv, CheckInTime, RestartsProper, MemoryTrue,
               RestartAllowed, NothingForgotten, LimitsKept
<1> QED BY <1>2, <1>3, <1>4, <1>5, <1>6, <1>7, <1>8, <1>9, <1>10, <1>11, <1>12
        DEF Next, CheckStep

\* Within one life of the backend two restarts are a cooldown apart, less the time of a
\* check, and no window holds more than the cap.
THEOREM LimitsTheorem == Spec => []LimitsKept
<1>1. Spec => []LimitsInv
  BY TypeCorrect, LimitsInit, LimitsStep, PTL DEF Spec
<1> QED BY <1>1, PTL DEF LimitsInv

\* The guard remembers every restart of its life that is in the window.
THEOREM MemoryTheorem == Spec => []NothingForgotten
<1>1. Spec => []LimitsInv
  BY TypeCorrect, LimitsInit, LimitsStep, PTL DEF Spec
<1> QED BY <1>1, PTL DEF LimitsInv

-----------------------------------------------------------------------------
(* Framed routing *)

(***************************************************************************)
(* Framed routing: type correctness.                                       *)
(***************************************************************************)

RouteLabels == {"idle", "write", "load", "routes"}
HostRoutes == Cidrs \X Devs

(* job is one function for requests and passes.                            *)
RoutesTyped == RoutesTypeOK /\ DOMAIN job = Procs

LEMMA OnTyped ==
    ASSUME dev \in [Dnns -> Devs], NEW routes \in SUBSET Routes
    PROVE  On(routes) \subseteq HostRoutes
<1> SUFFICES ASSUME NEW x \in routes PROVE <<x[2], dev[x[1]]>> \in HostRoutes
  BY DEF On
<1>1. x[1] \in Dnns /\ x[2] \in Cidrs
  BY DEF Routes
<1> QED BY <1>1 DEF HostRoutes

LEMMA NetworksTyped == \A routes \in SUBSET Routes : NetworksOf(routes) \subseteq Cidrs
BY DEF NetworksOf, Routes

\* What a write may leave behind are networks.
LEMMA LeftTyped ==
    ASSUME wants \in [Imsis -> SUBSET Routes], NEW r \in Requests, NEW j \in Jobs
    PROVE  LeftBehind(r, j) \subseteq Cidrs
<1> DEFINE lapsed == Wanted \ Wanted'
<1>1. lapsed \in SUBSET Routes
  BY DEF Wanted
<1>2. j.new \ j.old \in SUBSET Routes
  BY DEF Jobs
<1>3. NetworksOf(lapsed) \subseteq Cidrs /\ NetworksOf(lapsed \ (j.old \ j.new)) \subseteq Cidrs
  BY <1>1, NetworksTyped
<1>4. NetworksOf(j.new \ j.old) \subseteq Cidrs
  BY <1>2, NetworksTyped
<1> HIDE DEF lapsed
<1>5. LeftBehind(r, j) \subseteq NetworksOf(lapsed) \cup NetworksOf(lapsed \ (j.old \ j.new))
                                \cup NetworksOf(j.new \ j.old)
  BY DEF LeftBehind, lapsed
<1> QED BY <1>3, <1>4, <1>5

LEMMA WantedTyped == RoutesTypeOK => Wanted \subseteq Routes
BY DEF RoutesTypeOK, Wanted

LEMMA RequestIsNoTimer == \A r \in Requests : r \in Procs /\ r \notin Timers
BY RouteNamesAssumption DEF Procs

LEMMA TimerIsNoRequest == \A t \in Timers : t \in Procs /\ t \notin Requests
BY RouteNamesAssumption DEF Procs

LEMMA RoutesTypeInit == RoutesInit => RoutesTyped
<1> SUFFICES ASSUME RoutesInit PROVE RoutesTyped
  OBVIOUS
<1>1. wants \in [Imsis -> SUBSET Routes] /\ dev \in [Dnns -> Devs]
  BY DEF RoutesInit
<1>3. stray \subseteq Cidrs
  BY DEF RoutesInit
<1>4. ops \in 0..MaxOps /\ troubles \in 0..MaxTroubles
  BY RouteBoundsAssumption DEF RoutesInit
<1> QED BY <1>1, <1>3, <1>4, RequestIsNoTimer, TimerIsNoRequest
        DEF RoutesInit, RoutesTyped, RoutesTypeOK

\* Whoever makes a step, the quiet of a request is true or false.
LEMMA QuietTyped ==
    ASSUME NEW p, StepOf(p)
    PROVE  alone' \in [Requests -> BOOLEAN]
BY Zenon DEF StepOf

LEMMA TroubleTyped ==
    ASSUME RoutesTyped, Trouble
    PROVE  troubles' \in 0..MaxTroubles
BY RouteBoundsAssumption DEF RoutesTyped, RoutesTypeOK, Trouble

\* The part of the type that a step of a request or a pass on its routes touches.
WorkTyped ==
    /\ rem \in [Procs -> SUBSET HostRoutes]
    /\ add \in [Procs -> SUBSET HostRoutes]
    /\ hand \in [Procs -> SUBSET HostRoutes]

DocsTyped ==
    /\ known \subseteq Imsis
    /\ wants \in [Imsis -> SUBSET Routes]
    /\ \A i \in Imsis \ known : wants[i] = {}

HostTyped ==
    /\ dev \in [Dnns -> Devs]
    /\ kernel \in [Cidrs -> Devs \cup {NoDev}]
    /\ stray \subseteq Cidrs

JobsTyped ==
    /\ at \in [Procs -> RouteLabels]
    /\ DOMAIN job = Procs
    /\ \A r \in Requests : job[r] \subseteq Jobs
    /\ \A t \in Timers : job[t] \subseteq Routes

CountsTypedOfRoutes == ops \in 0..MaxOps /\ troubles \in 0..MaxTroubles

LEMMA RoutesTypeParts ==
    /\ RoutesTyped <=> /\ DocsTyped /\ HostTyped /\ WorkTyped /\ JobsTyped
                       /\ CountsTypedOfRoutes /\ alone \in [Requests -> BOOLEAN]
    /\ RoutesTyped' <=> /\ DocsTyped' /\ HostTyped' /\ WorkTyped' /\ JobsTyped'
                        /\ CountsTypedOfRoutes' /\ alone' \in [Requests -> BOOLEAN]
BY DEF RoutesTyped, RoutesTypeOK, DocsTyped, HostTyped, WorkTyped, JobsTyped,
       CountsTypedOfRoutes, RouteLabels, HostRoutes

LEMMA FindType ==
    ASSUME RoutesTyped, NEW r \in Requests, NEW k \in Kinds, NEW i \in Imsis,
           NEW new \in SUBSET Routes, Find(r, k, i, new)
    PROVE  RoutesTyped'
<1>1. DocsTyped' /\ HostTyped' /\ WorkTyped'
  BY RoutesTypeParts DEF Find, host, docs, work, DocsTyped, HostTyped, WorkTyped
<1>2. JobsTyped'
  <2>1. [kind |-> k, imsi |-> i, old |-> wants[i], new |-> new] \in Jobs
    BY RoutesTypeParts DEF DocsTyped, Jobs
  <2>2. at' \in [Procs -> RouteLabels]
    BY RoutesTypeParts DEF Find, Goto, JobsTyped, RouteLabels
  <2>3. DOMAIN job' = Procs
    BY RoutesTypeParts DEF Find, JobsTyped
  <2>4. \A q \in Requests : job'[q] \subseteq Jobs
    BY <2>1, RoutesTypeParts, RequestIsNoTimer DEF Find, JobsTyped
  <2>5. \A t \in Timers : job'[t] \subseteq Routes
    BY RoutesTypeParts, TimerIsNoRequest DEF Find, JobsTyped
  <2> QED BY <2>2, <2>3, <2>4, <2>5 DEF JobsTyped
<1>3. CountsTypedOfRoutes'
  BY RoutesTypeParts, RouteBoundsAssumption DEF Find, CountsTypedOfRoutes
<1>4. alone' \in [Requests -> BOOLEAN]
  BY Zenon DEF Find
<1> QED BY <1>1, <1>2, <1>3, <1>4, RoutesTypeParts

\* A request's job and label after a step that ends it or goes on.
LEMMA RequestGoesOn ==
    ASSUME JobsTyped, NEW r \in Requests, NEW label \in RouteLabels,
           at' = [at EXCEPT ![r] = label],
           job' = job \/ job' = [job EXCEPT ![r] = {}]
    PROVE  JobsTyped'
BY RequestIsNoTimer, TimerIsNoRequest DEF JobsTyped

LEMMA WriteType ==
    ASSUME RoutesTyped, NEW r \in Requests, Write(r)
    PROVE  RoutesTyped'
<1>t. DocsTyped /\ HostTyped /\ WorkTyped /\ JobsTyped /\ CountsTypedOfRoutes
  BY RoutesTypeParts
<1>1. PICK j \in job[r] :
        /\ at[r] = "write"
        /\ \/ Goto(r, "idle") /\ job' = [job EXCEPT ![r] = {}] /\ UNCHANGED <<docs, stray>>
           \/ /\ known' = CASE j.kind = "create" -> known \cup {j.imsi}
                            [] j.kind = "delete" -> known \ {j.imsi}
                            [] OTHER -> known
              /\ wants' = [wants EXCEPT ![j.imsi] = IF j.imsi \in known' THEN j.new ELSE {}]
              /\ stray' = stray \cup LeftBehind(r, j)
              /\ \/ Goto(r, "idle") /\ job' = [job EXCEPT ![r] = {}]
                 \/ Goto(r, "load") /\ UNCHANGED job
        /\ UNCHANGED <<dev, kernel, rem, add, hand, ops, troubles>>
        /\ StepOf(r)
  BY DEF Write, work
<1>2. j \in Jobs
  BY <1>t DEF JobsTyped
<1>3. DocsTyped'
  <2>1. CASE UNCHANGED <<docs, stray>>
    BY <1>t, <2>1 DEF docs, DocsTyped
  <2>2. CASE /\ known' = CASE j.kind = "create" -> known \cup {j.imsi}
                           [] j.kind = "delete" -> known \ {j.imsi}
                           [] OTHER -> known
             /\ wants' = [wants EXCEPT ![j.imsi] = IF j.imsi \in known' THEN j.new ELSE {}]
    <3>1. j.imsi \in Imsis /\ j.new \in SUBSET Routes
      BY <1>2 DEF Jobs
    <3>2. known' \subseteq Imsis /\ \A i \in Imsis \ {j.imsi} : i \in known' <=> i \in known
      BY <1>t, <2>2, <3>1 DEF DocsTyped
    <3> QED BY <1>t, <2>2, <3>1, <3>2 DEF DocsTyped
  <2> QED BY <1>1, <2>1, <2>2
<1>4. HostTyped'
  <2>1. LeftBehind(r, j) \subseteq Cidrs
    BY <1>t, <1>2, LeftTyped DEF DocsTyped
  <2> QED BY <1>t, <1>1, <2>1 DEF HostTyped
<1>5. JobsTyped'
  <2>1. {"idle", "load"} \subseteq RouteLabels
    BY DEF RouteLabels
  <2> QED BY <1>t, <1>1, <2>1, RequestGoesOn DEF Goto
<1>6. WorkTyped' /\ CountsTypedOfRoutes'
  BY <1>t, <1>1 DEF WorkTyped, CountsTypedOfRoutes
<1> QED BY <1>1, <1>3, <1>4, <1>5, <1>6, QuietTyped, RoutesTypeParts

LEMMA LoadType ==
    ASSUME RoutesTyped, NEW r \in Requests, Load(r) \/ Throw(r)
    PROVE  RoutesTyped'
<1>t. /\ DocsTyped /\ HostTyped /\ WorkTyped /\ JobsTyped /\ CountsTypedOfRoutes
      /\ {"idle", "routes"} \subseteq RouteLabels /\ r \in Procs
  BY RoutesTypeParts, RequestIsNoTimer DEF RouteLabels
<1>1. DocsTyped' /\ HostTyped' /\ alone' \in [Requests -> BOOLEAN]
  <2>1. Removing(r) \subseteq HostRoutes
    <3>1. Dropped(r) \in SUBSET Routes
      BY <1>t DEF Dropped, JobsTyped, Jobs
    <3> QED BY <1>t, <3>1, OnTyped DEF Removing, WorkTyped, HostTyped
  <2>2. {x[1] : x \in Removing(r)} \subseteq Cidrs
    BY <2>1 DEF HostRoutes
  <2>3. stray' = stray \/ stray' = stray \cup {x[1] : x \in Removing(r)}
    BY DEF Load, Throw, host
  <2>4. stray' \subseteq Cidrs
    BY <1>t, <2>2, <2>3 DEF HostTyped
  <2> QED BY <1>t, <2>4, QuietTyped DEF Load, Throw, host, docs, DocsTyped, HostTyped
<1>2. JobsTyped'
  BY <1>t, RequestGoesOn DEF Load, Throw, Goto
<1>3. CASE Load(r)
  <2>1. PICK j \in job[r] :
          /\ rem' = [rem EXCEPT ![r] = On(j.old \ j.new)]
          /\ add' = [add EXCEPT ![r] = On(j.new \ j.old)]
          /\ UNCHANGED <<hand, ops, troubles>>
    BY <1>3 DEF Load
  <2>2. j.old \ j.new \in SUBSET Routes /\ j.new \ j.old \in SUBSET Routes
    BY <1>t DEF JobsTyped, Jobs
  <2>3. On(j.old \ j.new) \subseteq HostRoutes /\ On(j.new \ j.old) \subseteq HostRoutes
    BY <1>t, <2>2, OnTyped DEF HostTyped
  <2> QED BY <1>t, <1>1, <1>2, <2>1, <2>3, RoutesTypeParts DEF WorkTyped, CountsTypedOfRoutes
<1>4. CASE Throw(r)
  <2>1. WorkTyped' /\ CountsTypedOfRoutes'
    BY <1>t, <1>4, TroubleTyped DEF Throw, work, WorkTyped, CountsTypedOfRoutes
  <2> QED BY <1>1, <1>2, <2>1, RoutesTypeParts
<1> QED BY <1>3, <1>4

LEMMA PassType ==
    ASSUME RoutesTyped, NEW t \in Timers, List(t) \/ LoadForPass(t)
    PROVE  RoutesTyped'
<1>t. /\ DocsTyped /\ HostTyped /\ WorkTyped /\ JobsTyped /\ CountsTypedOfRoutes
      /\ {"load", "routes"} \subseteq RouteLabels /\ t \in Procs
  BY RoutesTypeParts, TimerIsNoRequest DEF RouteLabels
<1>1. alone' \in [Requests -> BOOLEAN]
  BY QuietTyped DEF List, LoadForPass
<1>2. CASE List(t)
  <2>1. Wanted \subseteq Routes
    BY WantedTyped DEF RoutesTyped
  <2>2. JobsTyped'
    BY <1>t, <1>2, <2>1, TimerIsNoRequest DEF List, Goto, JobsTyped
  <2>3. DocsTyped' /\ HostTyped' /\ WorkTyped' /\ CountsTypedOfRoutes'
    BY <1>t, <1>2 DEF List, host, docs, work, DocsTyped, HostTyped, WorkTyped,
                      CountsTypedOfRoutes
  <2> QED BY <1>1, <2>2, <2>3, RoutesTypeParts
<1>3. CASE LoadForPass(t)
  <2>1. job[t] \in SUBSET Routes
    BY <1>t DEF JobsTyped
  <2>2. On(job[t]) \subseteq HostRoutes
    BY <1>t, <2>1, OnTyped DEF HostTyped
  <2>3. {<<x[2], Ogstun>> : x \in job[t]} \subseteq HostRoutes
    <3>1. \A x \in job[t] : x[2] \in Cidrs
      BY <2>1 DEF Routes
    <3> QED BY <3>1, RouteNamesAssumption DEF HostRoutes
  <2>4. PICK routes \in SUBSET HostRoutes :
          /\ add' = [add EXCEPT ![t] = routes]
          /\ stray' \in {stray, stray \cup NetworksOf(job[t])}
    BY <1>3, <2>2, <2>3 DEF LoadForPass
  <2>5. add' \in [Procs -> SUBSET HostRoutes] /\ stray' \subseteq Cidrs
    BY <1>t, <2>1, <2>4, NetworksTyped DEF WorkTyped, HostTyped
  <2>6. DocsTyped' /\ HostTyped' /\ WorkTyped'
    BY <1>t, <1>3, <2>5 DEF LoadForPass, docs, DocsTyped, HostTyped, WorkTyped
  <2>7. JobsTyped'
    BY <1>t, <1>3, TimerIsNoRequest DEF LoadForPass, Goto, JobsTyped
  <2>8. CountsTypedOfRoutes'
    BY <1>t, <1>3, TroubleTyped DEF LoadForPass, CountsTypedOfRoutes
  <2> QED BY <1>1, <2>6, <2>7, <2>8, RoutesTypeParts
<1> QED BY <1>2, <1>3

LEMMA CommandType ==
    ASSUME RoutesTyped, NEW p \in Procs, RouteStep(p)
    PROVE  RoutesTyped'
<1>t. /\ DocsTyped /\ HostTyped /\ WorkTyped /\ JobsTyped /\ CountsTypedOfRoutes
      /\ "idle" \in RouteLabels
  BY RoutesTypeParts DEF RouteLabels
<1>1. alone' \in [Requests -> BOOLEAN]
  BY QuietTyped DEF RouteStep, RemoveRoute, AddRouteDel, AddRouteAdd, Finish
<1>2. ASSUME NEW x \in HostRoutes, Del(x) \/ NoCommand
      PROVE  kernel' \in [Cidrs -> Devs \cup {NoDev}]
  BY <1>2, <1>t DEF Del, NoCommand, HostTyped, HostRoutes
<1>3. ASSUME NEW x \in HostRoutes, RemoveRoute(p, x) \/ AddRouteDel(p, x)
      PROVE  RoutesTyped'
  <2>1. HostTyped'
    BY <1>t, <1>2, <1>3 DEF HostRoutes, RemoveRoute, AddRouteDel, HostTyped
  <2>2. DocsTyped' /\ JobsTyped'
    BY <1>t, <1>3 DEF RemoveRoute, AddRouteDel, docs, DocsTyped, JobsTyped
  <2>3. WorkTyped'
    BY <1>t, <1>3 DEF RemoveRoute, AddRouteDel, WorkTyped
  <2>4. CountsTypedOfRoutes'
    BY <1>t, <1>3, TroubleTyped DEF RemoveRoute, AddRouteDel, NoCommand, CountsTypedOfRoutes
  <2> QED BY <1>1, <2>1, <2>2, <2>3, <2>4, RoutesTypeParts
<1>4. CASE AddRouteAdd(p)
  <2>1. PICK x \in hand[p] :
          \/ kernel' = [kernel EXCEPT ![x[1]] = IF @ = NoDev THEN x[2] ELSE @]
             /\ UNCHANGED troubles
          \/ NoCommand
    BY <1>4 DEF AddRouteAdd
  <2>2. x[1] \in Cidrs /\ x[2] \in Devs
    BY <1>t DEF WorkTyped, HostRoutes
  <2>3. HostTyped'
    BY <1>t, <1>4, <2>1, <2>2 DEF AddRouteAdd, NoCommand, HostTyped
  <2>4. DocsTyped' /\ JobsTyped' /\ WorkTyped'
    BY <1>t, <1>4 DEF AddRouteAdd, docs, DocsTyped, JobsTyped, WorkTyped
  <2>5. CountsTypedOfRoutes'
    BY <1>t, <1>4, <2>1, TroubleTyped DEF AddRouteAdd, NoCommand, CountsTypedOfRoutes
  <2> QED BY <1>1, <2>3, <2>4, <2>5, RoutesTypeParts
<1>5. CASE Finish(p)
  <2>1. DocsTyped' /\ HostTyped' /\ WorkTyped' /\ CountsTypedOfRoutes'
    BY <1>t, <1>5 DEF Finish, host, docs, work, DocsTyped, HostTyped, WorkTyped,
                      CountsTypedOfRoutes
  <2>2. JobsTyped'
    BY <1>t, <1>5 DEF Finish, Goto, JobsTyped, Procs
  <2> QED BY <1>1, <2>1, <2>2, RoutesTypeParts
<1> QED BY <1>3, <1>4, <1>5 DEF RouteStep, HostRoutes

LEMMA HostType ==
    ASSUME RoutesTyped,
           (\E d \in Dnns, v \in Devs : MoveDnn(d, v)) \/ Restart
    PROVE  RoutesTyped'
<1>t. /\ DocsTyped /\ HostTyped /\ WorkTyped /\ JobsTyped /\ CountsTypedOfRoutes
      /\ "idle" \in RouteLabels
  BY RoutesTypeParts DEF RouteLabels
<1>1. ASSUME NEW d \in Dnns, NEW v \in Devs, MoveDnn(d, v)
      PROVE  RoutesTyped'
  <2>2. HostTyped'
    BY <1>t, <1>1 DEF MoveDnn, HostTyped
  <2>3. DocsTyped' /\ JobsTyped' /\ WorkTyped'
    BY <1>t, <1>1 DEF MoveDnn, docs, work, DocsTyped, JobsTyped, WorkTyped
  <2>4. CountsTypedOfRoutes' /\ alone' \in [Requests -> BOOLEAN]
    BY <1>t, <1>1, TroubleTyped DEF MoveDnn, CountsTypedOfRoutes
  <2> QED BY <2>2, <2>3, <2>4, RoutesTypeParts
<1>2. CASE Restart
  <2>1. \A p \in Procs : Removing(p) \subseteq HostRoutes
    <3> SUFFICES ASSUME NEW p \in Procs PROVE Removing(p) \subseteq HostRoutes
      OBVIOUS
    <3>1. p \in Requests => Dropped(p) \in SUBSET Routes
      BY <1>t DEF Dropped, JobsTyped, Jobs
    <3> QED BY <1>t, <3>1, OnTyped DEF Removing, WorkTyped, HostTyped
  <2>2. {x[1] : x \in UNION {Removing(p) : p \in Procs}} \subseteq Cidrs
    BY <2>1 DEF HostRoutes
  <2>3. HostTyped'
    BY <1>t, <1>2, <2>2 DEF Restart, HostTyped
  <2>4. DocsTyped' /\ JobsTyped' /\ WorkTyped' /\ alone' \in [Requests -> BOOLEAN]
    BY <1>t, <1>2, RequestIsNoTimer, TimerIsNoRequest
       DEF Restart, AllLost, docs, DocsTyped, JobsTyped, WorkTyped
  <2>5. CountsTypedOfRoutes'
    BY <1>t, <1>2, TroubleTyped DEF Restart, CountsTypedOfRoutes
  <2> QED BY <2>3, <2>4, <2>5, RoutesTypeParts
<1> QED BY <1>1, <1>2

LEMMA RoutesTypeStep == RoutesTyped /\ [RoutesNext]_routesVars => RoutesTyped'
<1> SUFFICES ASSUME RoutesTyped, [RoutesNext]_routesVars PROVE RoutesTyped'
  OBVIOUS
<1>1. CASE UNCHANGED routesVars
  BY <1>1 DEF routesVars, host, docs, work, RoutesTyped, RoutesTypeOK
<1> QED BY <1>1, FindType, WriteType, LoadType, PassType, CommandType, HostType,
           RequestIsNoTimer, TimerIsNoRequest
        DEF RoutesNext, RequestStep, PassStep

(* The variables of the route synchronisation keep their shapes, and only  *)
(* a subscriber that exists lists routes.                                  *)
THEOREM RoutesTypeCorrect == RoutesSpec => []RoutesTypeOK
<1>1. RoutesTyped => RoutesTypeOK
  BY DEF RoutesTyped
<1> QED BY <1>1, RoutesTypeInit, RoutesTypeStep, PTL DEF RoutesSpec

(***************************************************************************)
(* Framed routing: what a request that nothing disturbs leaves behind.     *)
(***************************************************************************)

(* Only a process at its routes has any to remove or add, it has one in    *)
(* its hand at most, and a request has one job.                            *)
WorkProper ==
    /\ \A p \in Procs : at[p] # "routes" => rem[p] = {} /\ add[p] = {} /\ hand[p] = {}
    /\ \A p \in Procs : \A x, y \in hand[p] : x = y
    /\ \A r \in Requests : \A j, k \in job[r] : j = k

(* While nothing disturbs it, a request finds its subscriber as it was     *)
(* when it looked, and as it wrote it later on;                            *)
QuietWrite(r) ==
    at[r] = "write" =>
        \A j \in job[r] : /\ j.kind = "create" <=> j.imsi \notin known
                          /\ j.kind = "delete" => j.new = {}

QuietDoc(r) == at[r] \in {"load", "routes"} => \A j \in job[r] : wants[j.imsi] = j.new

(* and the routes it has still to touch are those that are not right yet.  *)
ToAdd(r, j) ==
    /\ add[r] \cup hand[r] \subseteq On(j.new \ j.old)
    /\ rem[r] # {} => add[r] = On(j.new \ j.old) /\ hand[r] = {}

Gone(r, j) ==
    \A x \in j.old \ j.new :
        \/ <<x[2], dev[x[1]]>> \in rem[r]
        \/ kernel[x[2]] # dev[x[1]]
        \/ \E y \in j.new : y[2] = x[2]

There(r, j) ==
    \A x \in j.new \ j.old :
        \/ <<x[2], dev[x[1]]>> \in add[r]
        \/ kernel[x[2]] # NoDev
        \/ \E z \in hand[r] : z[1] = x[2]

QuietRoutes(r) ==
    at[r] = "routes" => \A j \in job[r] : ToAdd(r, j) /\ Gone(r, j) /\ There(r, j)

Quiet(r) == QuietWrite(r) /\ QuietDoc(r) /\ QuietRoutes(r)

QuietInv == \A r \in Requests : alone[r] => Quiet(r)

LEMMA WorkProperInit == RoutesInit => WorkProper /\ QuietInv
BY RequestIsNoTimer DEF RoutesInit, WorkProper, QuietInv

LEMMA WorkProperStep == RoutesTyped /\ WorkProper /\ [RoutesNext]_routesVars => WorkProper'
<1> SUFFICES ASSUME RoutesTyped, WorkProper, [RoutesNext]_routesVars PROVE WorkProper'
  OBVIOUS
<1>t. /\ at \in [Procs -> RouteLabels] /\ DOMAIN job = Procs
      /\ rem \in [Procs -> SUBSET HostRoutes]
      /\ add \in [Procs -> SUBSET HostRoutes]
      /\ hand \in [Procs -> SUBSET HostRoutes]
  BY RoutesTypeParts DEF JobsTyped, WorkTyped
<1>1. ASSUME NEW r \in Requests, NEW k \in Kinds, NEW i \in Imsis, NEW new \in SUBSET Routes,
             Find(r, k, i, new)
      PROVE  WorkProper'
  BY <1>1, <1>t, RequestIsNoTimer DEF Find, Goto, work, WorkProper
<1>2. ASSUME NEW r \in Requests, Write(r) PROVE WorkProper'
  <2>1. /\ at[r] = "write" /\ UNCHANGED work
        /\ \E label \in {"idle", "load"} : at' = [at EXCEPT ![r] = label]
        /\ job' = job \/ job' = [job EXCEPT ![r] = {}]
    BY <1>2 DEF Write, Goto, work
  <2> QED BY <1>t, <2>1, RequestIsNoTimer DEF work, WorkProper
<1>3. ASSUME NEW r \in Requests, Load(r) PROVE WorkProper'
  BY <1>3, <1>t, RequestIsNoTimer DEF Load, Goto, WorkProper
<1>4. ASSUME NEW r \in Requests, Throw(r) PROVE WorkProper'
  BY <1>4, <1>t, RequestIsNoTimer DEF Throw, Goto, work, WorkProper
<1>5. ASSUME NEW t \in Timers, List(t) PROVE WorkProper'
  BY <1>5, <1>t, TimerIsNoRequest DEF List, Goto, work, WorkProper
<1>6. ASSUME NEW t \in Timers, LoadForPass(t) PROVE WorkProper'
  <2>1. /\ at[t] = "load" /\ at' = [at EXCEPT ![t] = "routes"]
        /\ job' = [job EXCEPT ![t] = {}]
        /\ \E routes : add' = [add EXCEPT ![t] = routes]
        /\ UNCHANGED <<rem, hand>>
    BY <1>6 DEF LoadForPass, Goto
  <2> QED BY <1>t, <2>1, TimerIsNoRequest DEF WorkProper
<1>7. ASSUME NEW p \in Procs, NEW x \in HostRoutes, RemoveRoute(p, x) \/ AddRouteDel(p, x)
      PROVE  WorkProper'
  BY <1>7, <1>t DEF RemoveRoute, AddRouteDel, WorkProper
<1>8. ASSUME NEW p \in Procs, AddRouteAdd(p) PROVE WorkProper'
  BY <1>8, <1>t DEF AddRouteAdd, WorkProper
<1>9. ASSUME NEW p \in Procs, Finish(p) PROVE WorkProper'
  BY <1>9, <1>t DEF Finish, Goto, work, WorkProper
<1>10. ASSUME NEW d \in Dnns, NEW v \in Devs, MoveDnn(d, v) PROVE WorkProper'
  BY <1>10 DEF MoveDnn, work, WorkProper
<1>11. CASE Restart
  BY <1>11, RequestIsNoTimer DEF Restart, AllLost, WorkProper
<1>12. CASE UNCHANGED routesVars
  BY <1>12 DEF routesVars, work, WorkProper
<1> QED BY <1>1, <1>2, <1>3, <1>4, <1>5, <1>6, <1>7, <1>8, <1>9, <1>10, <1>11, <1>12,
           RequestIsNoTimer, TimerIsNoRequest
        DEF RoutesNext, RequestStep, PassStep, RouteStep, HostRoutes

\* The quiet of a request outlasts its own steps only.
LEMMA OwnSteps ==
    ASSUME RoutesTyped, [RoutesNext]_routesVars, NEW r \in Requests, alone'[r]
    PROVE  \/ \E k \in Kinds, i \in Imsis, new \in SUBSET Routes :
                 Find(r, k, i, new) /\ \A p \in Procs \ {r} : at[p] = "idle"
           \/ alone[r] /\ troubles' = troubles /\ RequestStep(r)
           \/ UNCHANGED routesVars
<1>1. ASSUME NEW q \in Requests, NEW k \in Kinds, NEW i \in Imsis, NEW new \in SUBSET Routes,
             Find(q, k, i, new)
      PROVE  q = r /\ \A p \in Procs \ {r} : at[p] = "idle"
  BY <1>1 DEF Find
<1>2. ASSUME NEW p, StepOf(p) PROVE p = r /\ alone[r] /\ troubles' = troubles
  BY <1>2, Zenon DEF StepOf
<1>3. ASSUME NEW q \in Requests, RequestStep(q)
      PROVE  q = r /\ alone[r] /\ troubles' = troubles
  <2>1. StepOf(q)
    BY <1>3 DEF RequestStep, Write, Load, Throw, RouteStep, RemoveRoute, AddRouteDel,
                AddRouteAdd, Finish
  <2> QED BY <1>2, <2>1
<1>4. ASSUME NEW t \in Timers, PassStep(t) PROVE FALSE
  <2>1. StepOf(t)
    BY <1>4 DEF PassStep, List, LoadForPass, RouteStep, RemoveRoute, AddRouteDel,
                AddRouteAdd, Finish
  <2> QED BY <1>2, <2>1, TimerIsNoRequest
<1>5. ASSUME NEW d \in Dnns, NEW v \in Devs, MoveDnn(d, v) PROVE FALSE
  BY <1>5 DEF MoveDnn
<1>6. CASE Restart
  BY <1>6 DEF Restart, AllLost
<1> QED BY <1>1, <1>3, <1>4, <1>5, <1>6 DEF RoutesNext

LEMMA QuietFind ==
    ASSUME RoutesTyped, NEW r \in Requests, NEW k \in Kinds, NEW i \in Imsis,
           NEW new \in SUBSET Routes, Find(r, k, i, new)
    PROVE  Quiet(r)'
<1>1. /\ at'[r] = "write"
      /\ job'[r] = {[kind |-> k, imsi |-> i, old |-> wants[i], new |-> new]}
      /\ known' = known /\ (k = "create" <=> i \notin known) /\ (k = "delete" => new = {})
  BY RequestIsNoTimer, RoutesTypeParts DEF Find, Goto, docs, JobsTyped
<1> QED BY <1>1 DEF Quiet, QuietWrite, QuietDoc, QuietRoutes

LEMMA QuietWrites ==
    ASSUME RoutesTyped, WorkProper, NEW r \in Requests, Quiet(r), Write(r)
    PROVE  Quiet(r)'
<1>t. /\ r \in Procs /\ at \in [Procs -> RouteLabels] /\ DOMAIN job = Procs
      /\ wants \in [Imsis -> SUBSET Routes]
  BY RequestIsNoTimer, RoutesTypeParts DEF JobsTyped, DocsTyped
<1>1. PICK j \in job[r] :
        \/ Goto(r, "idle")
        \/ /\ Goto(r, "load") /\ UNCHANGED job
           /\ known' = CASE j.kind = "create" -> known \cup {j.imsi}
                         [] j.kind = "delete" -> known \ {j.imsi}
                         [] OTHER -> known
           /\ wants' = [wants EXCEPT ![j.imsi] = IF j.imsi \in known' THEN j.new ELSE {}]
  BY DEF Write
<1>2. CASE Goto(r, "idle")
  <2>1. at'[r] = "idle"
    BY <1>t, <1>2 DEF Goto
  <2> QED BY <2>1 DEF Quiet, QuietWrite, QuietDoc, QuietRoutes
<1>3. CASE /\ Goto(r, "load") /\ UNCHANGED job
           /\ known' = CASE j.kind = "create" -> known \cup {j.imsi}
                         [] j.kind = "delete" -> known \ {j.imsi}
                         [] OTHER -> known
           /\ wants' = [wants EXCEPT ![j.imsi] = IF j.imsi \in known' THEN j.new ELSE {}]
  <2>1. j \in Jobs /\ \A k \in job[r] : k = j
    BY RoutesTypeParts DEF JobsTyped, WorkProper
  <2>2. (j.kind = "create" <=> j.imsi \notin known) /\ (j.kind = "delete" => j.new = {})
    BY DEF Quiet, QuietWrite, Write
  <2>3. j.imsi \in Imsis
    BY <2>1 DEF Jobs
  <2>4. wants'[j.imsi] = j.new
    BY <1>t, <1>3, <2>2, <2>3
  <2>5. at'[r] = "load"
    BY <1>t, <1>3 DEF Goto
  <2> QED BY <1>3, <2>1, <2>4, <2>5 DEF Quiet, QuietWrite, QuietDoc, QuietRoutes
<1> QED BY <1>1, <1>2, <1>3

LEMMA QuietLoad ==
    ASSUME RoutesTyped, WorkProper, NEW r \in Requests, Quiet(r), Load(r)
    PROVE  Quiet(r)'
<1>t. /\ r \in Procs /\ at \in [Procs -> RouteLabels]
      /\ rem \in [Procs -> SUBSET HostRoutes] /\ add \in [Procs -> SUBSET HostRoutes]
  BY RequestIsNoTimer, RoutesTypeParts DEF JobsTyped, WorkTyped
<1>1. PICK j \in job[r] :
        /\ at[r] = "load" /\ at' = [at EXCEPT ![r] = "routes"]
        /\ rem' = [rem EXCEPT ![r] = On(j.old \ j.new)]
        /\ add' = [add EXCEPT ![r] = On(j.new \ j.old)]
        /\ UNCHANGED <<dev, kernel, known, wants, job, hand>>
  BY DEF Load, Goto, host, docs
<1>2. \A k \in job[r] : k = j
  BY DEF WorkProper
<1>3. hand'[r] = {}
  BY <1>t, <1>1 DEF WorkProper
<1>4. /\ rem'[r] = On(j.old \ j.new) /\ add'[r] = On(j.new \ j.old) /\ at'[r] = "routes"
  BY <1>t, <1>1
<1>5. On(j.new \ j.old)' = On(j.new \ j.old)
  BY <1>1 DEF On
<1>6. ToAdd(r, j)'
  BY <1>3, <1>4, <1>5 DEF ToAdd
<1>7. Gone(r, j)' /\ There(r, j)'
  BY <1>1, <1>4 DEF Gone, There, On
<1>8. QuietDoc(r)'
  BY <1>1 DEF Quiet, QuietDoc
<1>9. QuietRoutes(r)'
  BY <1>1, <1>2, <1>6, <1>7 DEF QuietRoutes
<1> QED BY <1>4, <1>8, <1>9 DEF Quiet, QuietWrite

\* A command of a request that nothing disturbs, and that ran.
LEMMA QuietCommand ==
    ASSUME RoutesTyped, WorkProper, NEW r \in Requests, Quiet(r), NEW x \in HostRoutes,
           RemoveRoute(r, x) \/ AddRouteDel(r, x), troubles' = troubles
    PROVE  Quiet(r)'
<1>t. /\ r \in Procs /\ troubles \in Nat
      /\ rem \in [Procs -> SUBSET HostRoutes] /\ add \in [Procs -> SUBSET HostRoutes]
      /\ hand \in [Procs -> SUBSET HostRoutes]
      /\ kernel \in [Cidrs -> Devs \cup {NoDev}]
      /\ x[1] \in Cidrs /\ x[2] \in Devs /\ x = <<x[1], x[2]>>
      /\ dev \in [Dnns -> Devs] /\ NoDev \notin Devs
  BY RequestIsNoTimer, RoutesTypeParts, RouteNamesAssumption, RouteBoundsAssumption
     DEF WorkTyped, HostTyped, HostRoutes, CountsTypedOfRoutes
<1>d. Del(x) /\ UNCHANGED <<dev, at, job, docs>> /\ at[r] = "routes"
  BY <1>t DEF RemoveRoute, AddRouteDel, NoCommand, Trouble
<1>k. /\ kernel'[x[1]] # x[2]
      /\ \A c \in Cidrs : kernel'[c] \in {kernel[c], NoDev}
      /\ \A c \in Cidrs \ {x[1]} : kernel'[c] = kernel[c]
  BY <1>t, <1>d DEF Del
<1>j. \A j \in job[r] : /\ j.old \in SUBSET Routes /\ j.new \in SUBSET Routes
                        /\ On(j.new \ j.old)' = On(j.new \ j.old)
  BY <1>d, RoutesTypeParts DEF JobsTyped, Jobs, On
<1>1. CASE RemoveRoute(r, x)
  <2>1. /\ x \in rem[r] /\ rem'[r] = rem[r] \ {x} /\ UNCHANGED <<add, hand>>
    BY <1>1, <1>t DEF RemoveRoute
  <2>2. ASSUME NEW j \in job[r] PROVE ToAdd(r, j)' /\ Gone(r, j)' /\ There(r, j)'
    <3>0. ToAdd(r, j) /\ Gone(r, j) /\ There(r, j)
      BY <1>d DEF Quiet, QuietRoutes
    <3>1. ToAdd(r, j)'
      BY <1>j, <2>1, <3>0 DEF ToAdd
    <3>2. Gone(r, j)'
      <4> SUFFICES ASSUME NEW y \in j.old \ j.new
                   PROVE  \/ <<y[2], dev[y[1]]>> \in rem'[r]
                          \/ kernel'[y[2]] # dev[y[1]]
                          \/ \E z \in j.new : z[2] = y[2]
        BY <1>d DEF Gone
      <4>1. y[1] \in Dnns /\ y[2] \in Cidrs
        BY <1>j DEF Routes
      <4>2. CASE <<y[2], dev[y[1]]>> = x
        <5>1. kernel'[y[2]] # dev[y[1]]
          BY <1>k, <4>2
        <5> QED BY <5>1
      <4>3. CASE <<y[2], dev[y[1]]>> # x
        <5>1. dev[y[1]] \in Devs
          BY <1>t, <4>1
        <5> QED BY <1>t, <1>k, <2>1, <3>0, <4>1, <4>3, <5>1 DEF Gone
      <4> QED BY <4>2, <4>3
    <3>3. There(r, j)'
      <4>1. add[r] = On(j.new \ j.old)
        BY <2>1, <3>0 DEF ToAdd
      <4>2. \A y \in j.new \ j.old : <<y[2], dev[y[1]]>> \in add'[r]
        BY <2>1, <4>1 DEF On
      <4> QED BY <1>d, <4>2 DEF There
    <3> QED BY <3>1, <3>2, <3>3
  <2> QED BY <1>d, <2>2 DEF Quiet, QuietWrite, QuietDoc, QuietRoutes, docs
<1>2. CASE AddRouteDel(r, x)
  <2>1. /\ rem[r] = {} /\ hand[r] = {} /\ x \in add[r] /\ UNCHANGED rem
        /\ add'[r] = add[r] \ {x} /\ hand'[r] = {x}
    BY <1>2, <1>t DEF AddRouteDel
  <2>2. ASSUME NEW j \in job[r] PROVE ToAdd(r, j)' /\ Gone(r, j)' /\ There(r, j)'
    <3>0. ToAdd(r, j) /\ Gone(r, j) /\ There(r, j)
      BY <1>d DEF Quiet, QuietRoutes
    <3>1. ToAdd(r, j)'
      BY <1>j, <2>1, <3>0 DEF ToAdd
    <3>2. Gone(r, j)'
      <4> SUFFICES ASSUME NEW y \in j.old \ j.new
                   PROVE  \/ kernel'[y[2]] # dev[y[1]]
                          \/ \E z \in j.new : z[2] = y[2]
        BY <1>d DEF Gone
      <4>1. y[2] \in Cidrs /\ dev[y[1]] \in Devs
        BY <1>j, <1>t DEF Routes
      <4> QED BY <1>t, <1>k, <2>1, <3>0, <4>1 DEF Gone
    <3>3. There(r, j)'
      <4> SUFFICES ASSUME NEW y \in j.new \ j.old
                   PROVE  \/ <<y[2], dev[y[1]]>> \in add'[r]
                          \/ kernel'[y[2]] # NoDev
                          \/ \E z \in hand'[r] : z[1] = y[2]
        BY <1>d DEF There
      <4>1. y[2] \in Cidrs
        BY <1>j DEF Routes
      <4>2. CASE y[2] = x[1]
        BY <2>1, <4>2
      <4>3. CASE y[2] # x[1]
        <5>1. <<y[2], dev[y[1]]>> # x
          BY <1>t, <4>3
        <5> QED BY <1>k, <2>1, <3>0, <4>1, <4>3, <5>1 DEF There
      <4> QED BY <4>2, <4>3
    <3> QED BY <3>1, <3>2, <3>3
  <2> QED BY <1>d, <2>2 DEF Quiet, QuietWrite, QuietDoc, QuietRoutes, docs
<1> QED BY <1>1, <1>2

LEMMA QuietAdd ==
    ASSUME RoutesTyped, WorkProper, NEW r \in Requests, Quiet(r),
           AddRouteAdd(r), troubles' = troubles
    PROVE  Quiet(r)'
<1>t. /\ r \in Procs /\ troubles \in Nat
      /\ hand \in [Procs -> SUBSET HostRoutes]
      /\ kernel \in [Cidrs -> Devs \cup {NoDev}]
      /\ dev \in [Dnns -> Devs] /\ NoDev \notin Devs
  BY RequestIsNoTimer, RoutesTypeParts, RouteNamesAssumption, RouteBoundsAssumption
     DEF WorkTyped, HostTyped, CountsTypedOfRoutes
<1>1. PICK x \in hand[r] :
        /\ at[r] = "routes"
        /\ kernel' = [kernel EXCEPT ![x[1]] = IF @ = NoDev THEN x[2] ELSE @]
        /\ hand' = [hand EXCEPT ![r] = {}]
        /\ UNCHANGED <<dev, docs, at, job, rem, add>>
  BY <1>t DEF AddRouteAdd, NoCommand, Trouble
<1>2. /\ x[1] \in Cidrs /\ x[2] \in Devs /\ x = <<x[1], x[2]>>
      /\ hand[r] = {x} /\ hand'[r] = {}
  BY <1>t, <1>1 DEF HostRoutes, WorkProper
<1>k. /\ kernel'[x[1]] # NoDev
      /\ \A c \in Cidrs : kernel'[c] # kernel[c] => c = x[1] /\ kernel'[c] = x[2]
      /\ \A c \in Cidrs : kernel[c] # NoDev => kernel'[c] = kernel[c]
  BY <1>t, <1>1, <1>2
<1>3. ASSUME NEW j \in job[r] PROVE ToAdd(r, j)' /\ Gone(r, j)' /\ There(r, j)'
  <2>0. ToAdd(r, j) /\ Gone(r, j) /\ There(r, j)
    BY <1>1 DEF Quiet, QuietRoutes
  <2>j. /\ j.old \in SUBSET Routes /\ j.new \in SUBSET Routes
        /\ On(j.new \ j.old)' = On(j.new \ j.old)
    BY <1>1, RoutesTypeParts DEF JobsTyped, Jobs, On
  <2>1. ToAdd(r, j)'
    BY <1>1, <1>2, <2>0, <2>j DEF ToAdd
  <2>2. \E z \in j.new : z[2] = x[1]
    <3>1. x \in On(j.new \ j.old)
      BY <2>0 DEF ToAdd
    <3> QED BY <1>2, <3>1 DEF On
  <2>3. Gone(r, j)'
    <3> SUFFICES ASSUME NEW y \in j.old \ j.new
                 PROVE  \/ <<y[2], dev[y[1]]>> \in rem[r]
                        \/ kernel'[y[2]] # dev[y[1]]
                        \/ \E z \in j.new : z[2] = y[2]
      BY <1>1 DEF Gone
    <3>1. y[2] \in Cidrs
      BY <2>j DEF Routes
    <3> QED BY <1>k, <2>0, <2>2, <3>1 DEF Gone
  <2>4. There(r, j)'
    <3> SUFFICES ASSUME NEW y \in j.new \ j.old
                 PROVE  \/ <<y[2], dev[y[1]]>> \in add[r]
                        \/ kernel'[y[2]] # NoDev
      BY <1>1 DEF There
    <3>1. y[2] \in Cidrs
      BY <2>j DEF Routes
    <3> QED BY <1>2, <1>k, <2>0, <3>1 DEF There
  <2> QED BY <2>1, <2>3, <2>4
<1> QED BY <1>1, <1>3 DEF Quiet, QuietWrite, QuietDoc, QuietRoutes, docs

LEMMA QuietStep ==
    ASSUME RoutesTyped, WorkProper, QuietInv, [RoutesNext]_routesVars
    PROVE  QuietInv'
<1> SUFFICES ASSUME NEW r \in Requests, alone'[r] PROVE Quiet(r)'
  BY DEF QuietInv
<1>1. CASE \E k \in Kinds, i \in Imsis, new \in SUBSET Routes : Find(r, k, i, new)
  BY <1>1, QuietFind
<1>2. CASE alone[r] /\ troubles' = troubles /\ RequestStep(r)
  <2>1. Quiet(r)
    BY <1>2 DEF QuietInv
  <2>2. CASE Throw(r) \/ Finish(r)
    <3>1. at'[r] = "idle"
      BY <2>2, RequestIsNoTimer, RoutesTypeParts DEF Throw, Finish, Goto, JobsTyped
    <3> QED BY <3>1 DEF Quiet, QuietWrite, QuietDoc, QuietRoutes
  <2>3. CASE Write(r) \/ Load(r) \/ AddRouteAdd(r)
    BY <1>2, <2>1, <2>3, QuietWrites, QuietLoad, QuietAdd
  <2>4. ASSUME NEW x \in HostRoutes, RemoveRoute(r, x) \/ AddRouteDel(r, x)
        PROVE  Quiet(r)'
    BY <1>2, <2>1, <2>4, QuietCommand
  <2> QED BY <1>2, <2>2, <2>3, <2>4 DEF RequestStep, RouteStep, HostRoutes
<1>3. CASE UNCHANGED routesVars
  <2>1. UNCHANGED <<alone, at, job, rem, add, hand, dev, kernel, known, wants>>
    BY <1>3 DEF routesVars, host, docs, work
  <2>2. Quiet(r)
    BY <2>1 DEF QuietInv
  <2> QED BY <2>1, <2>2 DEF Quiet, QuietWrite, QuietDoc, QuietRoutes, ToAdd, Gone, There, On
<1> QED BY <1>1, <1>2, <1>3, OwnSteps

RoutesInv == RoutesTyped /\ WorkProper /\ QuietInv

QuietNow ==
    \A r \in Requests : \A j \in job[r] :
        alone'[r] /\ at[r] = "routes" /\ at'[r] = "idle" =>
          /\ \A x \in j.new \ j.old : kernel[x[2]] # NoDev
          /\ \A x \in j.old \ j.new :
                x[2] \in {y[2] : y \in Wanted} \/ kernel[x[2]] # dev[x[1]]

LEMMA QuietEnds ==
    ASSUME RoutesInv, [RoutesNext]_routesVars
    PROVE  QuietNow
<1> SUFFICES ASSUME NEW r \in Requests, NEW j \in job[r],
                    alone'[r], at[r] = "routes", at'[r] = "idle"
             PROVE  /\ \A x \in j.new \ j.old : kernel[x[2]] # NoDev
                    /\ \A x \in j.old \ j.new :
                          x[2] \in {y[2] : y \in Wanted} \/ kernel[x[2]] # dev[x[1]]
  BY DEF QuietNow
<1>1. alone[r] /\ RequestStep(r)
  <2>1. ~ \E k \in Kinds, i \in Imsis, new \in SUBSET Routes : Find(r, k, i, new)
    BY DEF Find
  <2>2. ~ UNCHANGED routesVars
    BY DEF routesVars
  <2> QED BY <2>1, <2>2, OwnSteps DEF RoutesInv
<1>2. rem[r] = {} /\ add[r] = {} /\ hand[r] = {}
  <2>1. ~ Write(r) /\ ~ Load(r) /\ ~ Throw(r)
    BY DEF Write, Load, Throw
  <2>2. Finish(r)
    BY <1>1, <2>1 DEF RequestStep, RouteStep, RemoveRoute, AddRouteDel, AddRouteAdd
  <2> QED BY <2>2 DEF Finish
<1>3. wants[j.imsi] = j.new /\ Gone(r, j) /\ There(r, j)
  BY <1>1 DEF RoutesInv, QuietInv, Quiet, QuietDoc, QuietRoutes
<1>4. j.new \subseteq Wanted
  <2>1. j.imsi \in Imsis
    BY RoutesTypeParts DEF RoutesInv, JobsTyped, Jobs
  <2> QED BY <1>3, <2>1 DEF Wanted
<1>5. \A x \in j.new \ j.old : kernel[x[2]] # NoDev
  BY <1>2, <1>3 DEF There
<1>6. \A x \in j.old \ j.new :
         x[2] \in {y[2] : y \in Wanted} \/ kernel[x[2]] # dev[x[1]]
  BY <1>2, <1>3, <1>4 DEF Gone
<1> QED BY <1>5, <1>6

(* A request that nothing disturbs leaves the kernel as its answer says:   *)
(* what it added has a route, and what it took away and no other           *)
(* subscriber lists has none on the device of its DNN                      *)
(* (subscriber-management.ts, syncStaticRoutes()).                         *)
THEOREM QuietTheorem == RoutesSpec => QuietSync
<1>1. RoutesInit => RoutesInv
  BY RoutesTypeInit, WorkProperInit DEF RoutesInv
<1>2. RoutesInv /\ [RoutesNext]_routesVars => RoutesInv'
  BY RoutesTypeStep, WorkProperStep, QuietStep DEF RoutesInv
<1>3. RoutesInv /\ [RoutesNext]_routesVars =>
        [\A r \in Requests : \A j \in job[r] :
            alone'[r] /\ at[r] = "routes" /\ at'[r] = "idle" =>
              /\ \A x \in j.new \ j.old : kernel[x[2]] # NoDev
              /\ \A x \in j.old \ j.new :
                    x[2] \in {y[2] : y \in Wanted} \/ kernel[x[2]] # dev[x[1]]]_routesVars
  BY QuietEnds DEF QuietNow
<1> QED BY <1>1, <1>2, <1>3, PTL DEF RoutesSpec, QuietSync

(***************************************************************************)
(* Framed routing: which document a route of the kernel belongs to.        *)
(***************************************************************************)

(* A document lists the network for a DNN of this device.                  *)
Upheld(c, v) == c \in stray \/ \E x \in Wanted : x[2] = c /\ dev[x[1]] = v

(* A request is about to remove the route: it has looked its device up, or *)
(* will do so.                                                             *)
Queued(c, v) == \E p \in Procs : <<c, v>> \in rem[p]
Leaving(c, v) ==
    \E r \in Requests : /\ at[r] = "load"
                        /\ \E j \in job[r] : \E x \in j.old \ j.new : x[2] = c /\ dev[x[1]] = v

StillListed(x) == x[2] \in stray \/ x \in Wanted

KernelUpheld ==
    \A c \in Cidrs : kernel[c] # NoDev =>
        Upheld(c, kernel[c]) \/ Queued(c, kernel[c]) \/ Leaving(c, kernel[c])
QueueUpheld == \A p \in Procs : \A z \in add[p] \cup hand[p] : Upheld(z[1], z[2])
PassListed == \A t \in Timers : at[t] = "load" => \A x \in job[t] : StillListed(x)
LoadListed ==
    \A r \in Requests : at[r] = "load" => \A j \in job[r] : \A x \in j.new \ j.old : StillListed(x)

(* What is read, queued or in hand to be added is still listed, so that    *)
(* what reaches the kernel is.                                             *)
OwnerInv == KernelUpheld /\ QueueUpheld /\ PassListed /\ LoadListed

LEMMA OwnerInit == RoutesInit => OwnerInv
BY RequestIsNoTimer, TimerIsNoRequest
   DEF RoutesInit, OwnerInv, KernelUpheld, QueueUpheld, PassListed, LoadListed, Procs

\* A step that changes no document and no device, and forgets no mishap, takes no route
\* its document away.
LEMMA UpheldKept ==
    ASSUME UNCHANGED <<dev, wants>>, stray \subseteq stray'
    PROVE  /\ \A c, v : Upheld(c, v) => Upheld(c, v)'
           /\ \A x : StillListed(x) => StillListed(x)'
BY DEF Upheld, StillListed, Wanted

LEMMA WriteOwner ==
    ASSUME RoutesTyped, WorkProper, OwnerInv, NEW r \in Requests, Write(r)
    PROVE  OwnerInv'
<1>t. /\ at \in [Procs -> RouteLabels] /\ DOMAIN job = Procs /\ r \in Procs /\ r \notin Timers
      /\ wants \in [Imsis -> SUBSET Routes] /\ job[r] \subseteq Jobs
      /\ rem[r] = {} /\ add[r] = {} /\ hand[r] = {} /\ at[r] = "write"
      /\ \A k, m \in job[r] : k = m
  BY RoutesTypeParts, RequestIsNoTimer DEF JobsTyped, DocsTyped, WorkProper, Write
<1>h. KernelUpheld /\ QueueUpheld /\ PassListed /\ LoadListed
  BY DEF OwnerInv
<1>1. PICK j \in job[r] :
        \/ /\ UNCHANGED <<dev, kernel, rem, add, hand, wants, stray>>
           /\ at' = [at EXCEPT ![r] = "idle"] /\ job' = [job EXCEPT ![r] = {}]
        \/ /\ UNCHANGED <<dev, kernel, rem, add, hand>>
           /\ wants' = [wants EXCEPT ![j.imsi] = IF j.imsi \in known' THEN j.new ELSE {}]
           /\ stray' = stray \cup LeftBehind(r, j)
           /\ IF j.kind = "bulk" \/ j.old = j.new
              THEN at' = [at EXCEPT ![r] = "idle"] /\ job' = [job EXCEPT ![r] = {}]
              ELSE at' = [at EXCEPT ![r] = "load"] /\ job' = job
  BY DEF Write, Goto, work, docs
<1>2. CASE /\ UNCHANGED <<dev, kernel, rem, add, hand, wants, stray>>
           /\ at' = [at EXCEPT ![r] = "idle"] /\ job' = [job EXCEPT ![r] = {}]
  <2>1. /\ \A c, v : Upheld(c, v) => Upheld(c, v)'
        /\ \A x : StillListed(x) => StillListed(x)'
    BY <1>2, UpheldKept
  <2>2. \A c, v : (Queued(c, v) => Queued(c, v)') /\ (Leaving(c, v) => Leaving(c, v)')
    BY <1>2, <1>t, RequestIsNoTimer DEF Queued, Leaving
  <2>3. KernelUpheld' /\ QueueUpheld'
    BY <1>h, <1>2, <2>1, <2>2 DEF KernelUpheld, QueueUpheld
  <2>4. PassListed' /\ LoadListed'
    BY <1>h, <1>t, <1>2, <2>1, RequestIsNoTimer, TimerIsNoRequest DEF PassListed, LoadListed
  <2> QED BY <2>3, <2>4 DEF OwnerInv
<1>3. CASE /\ UNCHANGED <<dev, kernel, rem, add, hand>>
           /\ wants' = [wants EXCEPT ![j.imsi] = IF j.imsi \in known' THEN j.new ELSE {}]
           /\ stray' = stray \cup LeftBehind(r, j)
           /\ IF j.kind = "bulk" \/ j.old = j.new
              THEN at' = [at EXCEPT ![r] = "idle"] /\ job' = [job EXCEPT ![r] = {}]
              ELSE at' = [at EXCEPT ![r] = "load"] /\ job' = job
  <2>0. j.imsi \in Imsis /\ stray \subseteq stray'
    BY <1>t, <1>3 DEF Jobs
  \* A route that is no longer listed: r will remove it, or it is noted.
  <2>1. ASSUME NEW x \in Wanted, x \notin Wanted'
        PROVE  \/ x[2] \in stray'
               \/ j.kind # "bulk" /\ x \in j.old \ j.new
    BY <1>3, <2>1 DEF LeftBehind, NetworksOf
  <2>2. ASSUME NEW x \in Wanted, x \notin Wanted', NEW p \in Procs \ {r}, x[2] \in Adding(p)
        PROVE  x[2] \in stray'
    BY <1>3, <2>2 DEF LeftBehind, NetworksOf
  <2>3. ASSUME NEW x \in j.new \ j.old, j.kind # "bulk" PROVE StillListed(x)'
    <3>1. CASE j.imsi \in known'
      <4>1. x \in Wanted'
        BY <1>t, <1>3, <2>0, <2>3, <3>1 DEF Wanted
      <4> QED BY <4>1 DEF StillListed
    <3>2. CASE j.imsi \notin known'
      <4>1. x[2] \in LeftBehind(r, j)
        BY <2>3, <3>2 DEF LeftBehind, NetworksOf
      <4> QED BY <1>3, <4>1 DEF StillListed
    <3> QED BY <3>1, <3>2
  <2>4. ASSUME NEW p \in Procs, NEW z \in add[p] \cup hand[p]
        PROVE  Upheld(z[1], z[2])'
    <3>1. p # r /\ z[1] \in Adding(p)
      BY <1>t, <2>4 DEF Adding
    <3>2. Upheld(z[1], z[2])
      BY <1>h, <2>4 DEF QueueUpheld
    <3>3. CASE z[1] \in stray
      BY <2>0, <3>3 DEF Upheld
    <3>4. CASE \E x \in Wanted : x[2] = z[1] /\ dev[x[1]] = z[2]
      <4>1. PICK x \in Wanted : x[2] = z[1] /\ dev[x[1]] = z[2]
        BY <3>4
      <4> QED BY <1>3, <2>2, <3>1, <4>1 DEF Upheld
    <3> QED BY <3>2, <3>3, <3>4 DEF Upheld
  <2>5. QueueUpheld'
    BY <1>3, <2>4 DEF QueueUpheld
  <2>6. ASSUME NEW t \in Timers, at[t] = "load", NEW x \in job[t] PROVE StillListed(x)'
    <3>1. t \in Procs \ {r} /\ x[2] \in Adding(t)
      BY <1>t, <2>6, TimerIsNoRequest DEF Adding, NetworksOf
    <3>2. StillListed(x)
      BY <1>h, <2>6 DEF PassListed
    <3> QED BY <2>0, <2>2, <3>1, <3>2 DEF StillListed
  <2>7. PassListed'
    BY <1>t, <1>3, <2>6, TimerIsNoRequest DEF PassListed
  <2>8. ASSUME NEW q \in Requests, q # r, at[q] = "load", NEW k \in job[q],
               NEW x \in k.new \ k.old
        PROVE  StillListed(x)'
    <3>1. q \in Procs \ {r} /\ x[2] \in Adding(q)
      BY <2>8, RequestIsNoTimer DEF Adding, Entered, NetworksOf
    <3>2. StillListed(x)
      BY <1>h, <2>8 DEF LoadListed
    <3> QED BY <2>0, <2>2, <3>1, <3>2 DEF StillListed
  <2>9. LoadListed'
    BY <1>t, <1>3, <2>3, <2>8, RequestIsNoTimer DEF LoadListed
  <2>10. KernelUpheld'
    <3> SUFFICES ASSUME NEW c \in Cidrs, kernel[c] # NoDev
                 PROVE  Upheld(c, kernel[c])' \/ Queued(c, kernel[c])' \/ Leaving(c, kernel[c])'
      BY <1>3 DEF KernelUpheld
    <3> DEFINE v == kernel[c]
    <3>0. kernel' = kernel
      BY <1>3
    <3>1. Upheld(c, v) \/ Queued(c, v) \/ Leaving(c, v)
      BY <1>h DEF KernelUpheld
    <3>2. CASE Queued(c, v)
      BY <1>3, <3>0, <3>2 DEF Queued
    <3>3. CASE Leaving(c, v)
      BY <1>t, <1>3, <3>0, <3>3, RequestIsNoTimer DEF Leaving
    <3>4. CASE c \in stray
      BY <2>0, <3>0, <3>4 DEF Upheld
    <3>5. CASE \E x \in Wanted : x[2] = c /\ dev[x[1]] = v
      <4>1. PICK x \in Wanted : x[2] = c /\ dev[x[1]] = v
        BY <3>5
      <4>2. CASE x \in Wanted'
        BY <1>3, <3>0, <4>1, <4>2 DEF Upheld
      <4>3. CASE c \in stray'
        BY <3>0, <4>3 DEF Upheld
      <4>4. CASE j.kind # "bulk" /\ x \in j.old \ j.new
        <5>1. at'[r] = "load" /\ job' = job
          BY <1>t, <1>3, <4>4
        <5> QED BY <1>3, <3>0, <4>1, <4>4, <5>1 DEF Leaving
      <4> QED BY <2>1, <4>1, <4>2, <4>3, <4>4
    <3> QED BY <3>1, <3>2, <3>3, <3>4, <3>5 DEF Upheld
  <2> QED BY <2>5, <2>7, <2>9, <2>10 DEF OwnerInv
<1> QED BY <1>1, <1>2, <1>3

LEMMA OwnerStep ==
    RoutesTyped /\ WorkProper /\ OwnerInv /\ [RoutesNext]_routesVars => OwnerInv'
<1> SUFFICES ASSUME RoutesTyped, WorkProper, OwnerInv, [RoutesNext]_routesVars PROVE OwnerInv'
  OBVIOUS
<1>t. /\ at \in [Procs -> RouteLabels] /\ DOMAIN job = Procs
      /\ wants \in [Imsis -> SUBSET Routes] /\ dev \in [Dnns -> Devs]
      /\ kernel \in [Cidrs -> Devs \cup {NoDev}]
      /\ rem \in [Procs -> SUBSET HostRoutes]
      /\ add \in [Procs -> SUBSET HostRoutes] /\ hand \in [Procs -> SUBSET HostRoutes]
      /\ \A t \in Timers : job[t] \subseteq Routes
      /\ \A r \in Requests : job[r] \subseteq Jobs
  BY RoutesTypeParts DEF JobsTyped, WorkTyped, DocsTyped, HostTyped
<1>h. KernelUpheld /\ QueueUpheld /\ PassListed /\ LoadListed
  BY DEF OwnerInv
\* Steps that leave the host and the queues alone and take no request from its load.
<1>a. ASSUME UNCHANGED <<dev, wants, kernel, rem, add, hand, stray>>,
             \A t \in Timers : at'[t] = "load" =>
                \A x \in job'[t] : (at[t] = "load" /\ x \in job[t]) \/ x \in Wanted,
             \A r \in Requests : at'[r] = "load" <=> at[r] = "load",
             \A r \in Requests : at[r] = "load" => job'[r] = job[r]
      PROVE  OwnerInv'
  <2>1. /\ \A c, v : Upheld(c, v) => Upheld(c, v)'
        /\ \A x : StillListed(x) => StillListed(x)'
    BY <1>a, UpheldKept
  <2>2. \A c, v : (Queued(c, v) => Queued(c, v)') /\ (Leaving(c, v) => Leaving(c, v)')
    BY <1>a DEF Queued, Leaving
  <2>3. KernelUpheld' /\ QueueUpheld'
    BY <1>h, <1>a, <2>1, <2>2 DEF KernelUpheld, QueueUpheld
  <2>4. \A x \in Wanted : StillListed(x)
    BY DEF StillListed
  <2>5. PassListed' /\ LoadListed'
    BY <1>h, <1>a, <2>1, <2>4 DEF PassListed, LoadListed
  <2> QED BY <2>3, <2>5 DEF OwnerInv
\* Steps of the commands, which change neither documents nor labels.
<1>b. ASSUME UNCHANGED <<dev, wants, at, job>>, stray \subseteq stray'
      PROVE  /\ \A c, v : Upheld(c, v) => Upheld(c, v)'
             /\ \A c, v : Leaving(c, v) => Leaving(c, v)'
             /\ PassListed' /\ LoadListed'
  <2>1. /\ \A c, v : Upheld(c, v) => Upheld(c, v)'
        /\ \A x : StillListed(x) => StillListed(x)'
    BY <1>b, UpheldKept
  <2>2. \A c, v : Leaving(c, v) => Leaving(c, v)'
    BY <1>b DEF Leaving
  <2>3. PassListed' /\ LoadListed'
    BY <1>h, <1>b, <2>1 DEF PassListed, LoadListed
  <2> QED BY <2>1, <2>2, <2>3
<1>1. ASSUME NEW r \in Requests, NEW k \in Kinds, NEW i \in Imsis, NEW new \in SUBSET Routes,
             Find(r, k, i, new)
      PROVE  OwnerInv'
  <2>1. /\ UNCHANGED <<dev, wants, kernel, rem, add, hand, stray>>
        /\ at[r] = "idle" /\ at' = [at EXCEPT ![r] = "write"]
        /\ \A q \in Procs : q # r => job'[q] = job[q]
    BY <1>1, <1>t DEF Find, Goto, host, docs, work
  <2> QED BY <1>a, <1>t, <2>1, RequestIsNoTimer, TimerIsNoRequest
<1>2. ASSUME NEW r \in Requests, Load(r) PROVE OwnerInv'
  <2>1. PICK j \in job[r] :
          /\ at[r] = "load" /\ at' = [at EXCEPT ![r] = "routes"]
          /\ rem' = [rem EXCEPT ![r] = On(j.old \ j.new)]
          /\ add' = [add EXCEPT ![r] = On(j.new \ j.old)]
          /\ UNCHANGED <<dev, wants, kernel, stray, hand, job>>
    BY <1>2 DEF Load, Goto, host, docs
  <2>2. /\ \A c, v : Upheld(c, v) => Upheld(c, v)'
        /\ \A x : StillListed(x) => StillListed(x)'
    BY <2>1, UpheldKept
  <2>3. PassListed' /\ LoadListed'
    BY <1>h, <1>t, <2>1, <2>2, RequestIsNoTimer, TimerIsNoRequest DEF PassListed, LoadListed
  <2>4. \A z \in On(j.new \ j.old) : Upheld(z[1], z[2])
    BY <1>h, <2>1 DEF LoadListed, StillListed, Upheld, On
  <2>5. QueueUpheld'
    BY <1>h, <1>t, <2>1, <2>2, <2>4 DEF QueueUpheld
  <2>6. rem[r] = {} /\ \A k \in job[r] : k = j
    BY <2>1, RequestIsNoTimer DEF WorkProper
  <2>7. \A c, v : Queued(c, v) => Queued(c, v)'
    BY <1>t, <2>1, <2>6 DEF Queued
  <2>8. ASSUME NEW c, NEW v, Leaving(c, v) PROVE Queued(c, v)' \/ Leaving(c, v)'
    <3>1. PICK q \in Requests : /\ at[q] = "load"
                                /\ \E k \in job[q] : \E x \in k.old \ k.new :
                                      x[2] = c /\ dev[x[1]] = v
      BY <2>8 DEF Leaving
    <3>2. CASE q = r
      <4>1. <<c, v>> \in On(j.old \ j.new)
        BY <2>6, <3>1, <3>2 DEF On
      <4> QED BY <1>t, <2>1, <4>1, RequestIsNoTimer DEF Queued
    <3>3. CASE q # r
      <4>1. at'[q] = "load"
        BY <1>t, <2>1, <3>1, <3>3, RequestIsNoTimer
      <4> QED BY <2>1, <3>1, <4>1 DEF Leaving
    <3> QED BY <3>2, <3>3
  <2>9. KernelUpheld'
    BY <1>h, <2>1, <2>2, <2>7, <2>8 DEF KernelUpheld
  <2> QED BY <2>3, <2>5, <2>9 DEF OwnerInv
<1>3. ASSUME NEW r \in Requests, Throw(r) PROVE OwnerInv'
  <2>1. /\ UNCHANGED <<dev, wants, kernel, rem, add, hand>>
        /\ at[r] \in {"write", "load"}
        /\ stray' = stray \cup {x[1] : x \in Removing(r)}
        /\ at' = [at EXCEPT ![r] = "idle"] /\ job' = [job EXCEPT ![r] = {}]
    BY <1>3 DEF Throw, Goto, docs, work
  <2>2. /\ \A c, v : Upheld(c, v) => Upheld(c, v)'
        /\ \A x : StillListed(x) => StillListed(x)'
    BY <2>1, UpheldKept
  <2>3. PassListed' /\ LoadListed'
    BY <1>h, <1>t, <2>1, <2>2, RequestIsNoTimer, TimerIsNoRequest DEF PassListed, LoadListed
  <2>4. QueueUpheld' /\ \A c, v : Queued(c, v) => Queued(c, v)'
    BY <1>h, <2>1, <2>2 DEF QueueUpheld, Queued
  <2>5. ASSUME NEW c, NEW v, Leaving(c, v) PROVE Upheld(c, v)' \/ Leaving(c, v)'
    <3>1. PICK q \in Requests : /\ at[q] = "load"
                                /\ \E k \in job[q] : \E x \in k.old \ k.new :
                                      x[2] = c /\ dev[x[1]] = v
      BY <2>5 DEF Leaving
    <3>2. CASE q = r
      <4>1. <<c, v>> \in Removing(r)
        BY <3>1, <3>2 DEF Removing, Dropped, On
      <4>2. c \in stray'
        BY <2>1, <4>1
      <4> QED BY <4>2 DEF Upheld
    <3>3. CASE q # r
      <4>1. at'[q] = "load" /\ job'[q] = job[q]
        BY <1>t, <2>1, <3>1, <3>3, RequestIsNoTimer
      <4> QED BY <2>1, <3>1, <4>1 DEF Leaving
    <3> QED BY <3>2, <3>3
  <2>6. KernelUpheld'
    BY <1>h, <2>1, <2>2, <2>4, <2>5 DEF KernelUpheld
  <2> QED BY <2>3, <2>4, <2>6 DEF OwnerInv
<1>4. ASSUME NEW t \in Timers, List(t) PROVE OwnerInv'
  <2>1. /\ UNCHANGED <<dev, wants, kernel, rem, add, hand, stray>>
        /\ at' = [at EXCEPT ![t] = "load"] /\ job' = [job EXCEPT ![t] = Wanted]
    BY <1>4 DEF List, Goto, host, docs, work
  <2> QED BY <1>a, <1>t, <2>1, RequestIsNoTimer, TimerIsNoRequest
<1>5. ASSUME NEW t \in Timers, LoadForPass(t) PROVE OwnerInv'
  <2>1. PICK routes :
          /\ at[t] = "load"
          /\ at' = [at EXCEPT ![t] = "routes"] /\ job' = [job EXCEPT ![t] = {}]
          /\ add' = [add EXCEPT ![t] = routes]
          /\ UNCHANGED <<dev, wants, kernel, rem, hand>>
          /\ \/ routes = On(job[t]) /\ stray' = stray
             \/ /\ routes = {<<x[2], Ogstun>> : x \in job[t]}
                /\ stray' = stray \cup NetworksOf(job[t])
    BY <1>5 DEF LoadForPass, Goto, docs
  <2>2. /\ \A c, v : Upheld(c, v) => Upheld(c, v)'
        /\ \A x : StillListed(x) => StillListed(x)'
    BY <2>1, UpheldKept
  <2>3. PassListed' /\ LoadListed'
    BY <1>h, <1>t, <2>1, <2>2, RequestIsNoTimer, TimerIsNoRequest DEF PassListed, LoadListed
  <2>4. \A z \in routes : Upheld(z[1], z[2])'
    <3>1. CASE routes = On(job[t])
      <4>1. \A z \in routes : Upheld(z[1], z[2])
        BY <1>h, <2>1, <3>1 DEF PassListed, StillListed, Upheld, On
      <4> QED BY <2>2, <4>1
    <3>2. CASE /\ routes = {<<x[2], Ogstun>> : x \in job[t]}
               /\ stray' = stray \cup NetworksOf(job[t])
      <4>1. \A z \in routes : z[1] \in stray'
        BY <3>2 DEF NetworksOf
      <4> QED BY <4>1 DEF Upheld
    <3> QED BY <2>1, <3>1, <3>2
  <2>5. QueueUpheld'
    BY <1>h, <1>t, <2>1, <2>2, <2>4 DEF QueueUpheld
  <2>6. \A c, v : (Queued(c, v) => Queued(c, v)') /\ (Leaving(c, v) => Leaving(c, v)')
    BY <1>t, <2>1, RequestIsNoTimer, TimerIsNoRequest DEF Queued, Leaving
  <2>7. KernelUpheld'
    BY <1>h, <2>1, <2>2, <2>6 DEF KernelUpheld
  <2> QED BY <2>3, <2>5, <2>7 DEF OwnerInv
<1>6. ASSUME NEW p \in Procs, NEW z \in HostRoutes, RemoveRoute(p, z) PROVE OwnerInv'
  <2>1. /\ UNCHANGED <<dev, wants, at, job, add, hand>>
        /\ rem' = [rem EXCEPT ![p] = @ \ {z}]
        /\ \/ Del(z) /\ UNCHANGED stray
           \/ UNCHANGED kernel /\ stray' = stray \cup {z[1]}
    BY <1>6 DEF RemoveRoute, NoCommand, docs
  <2>2. stray \subseteq stray'
    BY <2>1
  <2>3. /\ \A c, v : Upheld(c, v) => Upheld(c, v)'
        /\ \A c, v : Leaving(c, v) => Leaving(c, v)'
        /\ PassListed' /\ LoadListed'
    BY <1>b, <2>1, <2>2
  <2>4. QueueUpheld'
    BY <1>h, <2>1, <2>3 DEF QueueUpheld
  <2>5. \A c, v : Queued(c, v) /\ <<c, v>> # z => Queued(c, v)'
    BY <1>t, <2>1 DEF Queued
  <2>6. ASSUME NEW c \in Cidrs, NEW v, kernel'[c] = v, v # NoDev
        PROVE  Upheld(c, v)' \/ Queued(c, v)' \/ Leaving(c, v)'
    <3>1. kernel[c] = v
      BY <1>t, <2>1, <2>6 DEF Del, HostRoutes
    <3>2. CASE <<c, v>> = z
      <4>1. c \in stray'
        BY <1>t, <2>1, <2>6, <3>1, <3>2 DEF Del, HostRoutes
      <4> QED BY <4>1 DEF Upheld
    <3>3. CASE <<c, v>> # z
      BY <1>h, <2>3, <2>5, <2>6, <3>1, <3>3 DEF KernelUpheld
    <3> QED BY <3>2, <3>3
  <2>7. KernelUpheld'
    BY <2>6 DEF KernelUpheld
  <2> QED BY <2>3, <2>4, <2>7 DEF OwnerInv
<1>7. ASSUME NEW p \in Procs, NEW z \in HostRoutes, AddRouteDel(p, z) PROVE OwnerInv'
  <2>1. /\ UNCHANGED <<dev, wants, stray, at, job, rem>>
        /\ z \in add[p]
        /\ add' = [add EXCEPT ![p] = @ \ {z}] /\ hand' = [hand EXCEPT ![p] = {z}]
        /\ Del(z) \/ UNCHANGED kernel
    BY <1>7 DEF AddRouteDel, NoCommand, docs
  <2>2. /\ \A c, v : Upheld(c, v) => Upheld(c, v)'
        /\ \A c, v : Leaving(c, v) => Leaving(c, v)'
        /\ PassListed' /\ LoadListed'
    BY <1>b, <2>1
  <2>3. QueueUpheld'
    BY <1>h, <1>t, <2>1, <2>2 DEF QueueUpheld
  <2>4. \A c, v : Queued(c, v) => Queued(c, v)'
    BY <2>1 DEF Queued
  <2>5. \A c \in Cidrs : kernel'[c] = NoDev \/ kernel'[c] = kernel[c]
    BY <1>t, <2>1 DEF Del
  <2>6. KernelUpheld'
    BY <1>h, <2>2, <2>4, <2>5 DEF KernelUpheld
  <2> QED BY <2>2, <2>3, <2>6 DEF OwnerInv
<1>8. ASSUME NEW p \in Procs, AddRouteAdd(p) PROVE OwnerInv'
  <2>1. PICK z \in hand[p] :
          /\ \/ kernel' = [kernel EXCEPT ![z[1]] = IF @ = NoDev THEN z[2] ELSE @]
             \/ UNCHANGED kernel
          /\ hand' = [hand EXCEPT ![p] = {}]
          /\ UNCHANGED <<dev, wants, stray, at, job, add, rem>>
    BY <1>8 DEF AddRouteAdd, NoCommand, docs
  <2>2. /\ \A c, v : Upheld(c, v) => Upheld(c, v)'
        /\ \A c, v : Leaving(c, v) => Leaving(c, v)'
        /\ PassListed' /\ LoadListed'
    BY <1>b, <2>1
  <2>3. QueueUpheld'
    BY <1>h, <1>t, <2>1, <2>2 DEF QueueUpheld
  <2>4. \A c, v : Queued(c, v) => Queued(c, v)'
    BY <2>1 DEF Queued
  <2>5. Upheld(z[1], z[2])'
    BY <1>h, <2>1, <2>2 DEF QueueUpheld
  <2>6. \A c \in Cidrs : kernel'[c] = kernel[c] \/ (c = z[1] /\ kernel'[c] = z[2])
    BY <1>t, <2>1
  <2>7. KernelUpheld'
    BY <1>h, <2>2, <2>4, <2>5, <2>6 DEF KernelUpheld
  <2> QED BY <2>2, <2>3, <2>7 DEF OwnerInv
<1>9. ASSUME NEW p \in Procs, Finish(p) PROVE OwnerInv'
  <2>1. /\ UNCHANGED <<dev, wants, kernel, rem, add, hand, stray>>
        /\ at[p] = "routes"
        /\ at' = [at EXCEPT ![p] = "idle"] /\ job' = [job EXCEPT ![p] = {}]
    BY <1>9 DEF Finish, Goto, host, docs, work
  <2> QED BY <1>a, <1>t, <2>1, RequestIsNoTimer, TimerIsNoRequest
<1>10. ASSUME NEW d \in Dnns, NEW u \in Devs, MoveDnn(d, u) PROVE OwnerInv'
  <2>1. /\ UNCHANGED <<wants, kernel, at, job, rem, add, hand>>
        /\ dev' = [dev EXCEPT ![d] = u]
        /\ stray' = stray \cup {c \in Cidrs :
                  \/ <<d, c>> \in Wanted
                  \/ \E r \in Requests : at[r] = "load" /\ <<d, c>> \in Dropped(r)}
    BY <1>10 DEF MoveDnn, docs, work
  <2>2. Wanted \subseteq Routes /\ Wanted' = Wanted
    BY <1>t, <2>1 DEF Wanted
  <2>3. \A x : StillListed(x) => StillListed(x)'
    BY <2>1, <2>2 DEF StillListed
  <2>4. PassListed' /\ LoadListed'
    BY <1>h, <2>1, <2>3 DEF PassListed, LoadListed
  <2>5. \A x \in Wanted : dev'[x[1]] = dev[x[1]] \/ x[2] \in stray'
    BY <1>t, <2>1, <2>2 DEF Routes
  <2>6. \A c, v : Upheld(c, v) => Upheld(c, v)'
    BY <2>1, <2>2, <2>5 DEF Upheld
  <2>7. QueueUpheld' /\ \A c, v : Queued(c, v) => Queued(c, v)'
    BY <1>h, <2>1, <2>6 DEF QueueUpheld, Queued
  <2>8. ASSUME NEW c, NEW v, Leaving(c, v) PROVE Upheld(c, v)' \/ Leaving(c, v)'
    <3>a. PICK q \in Requests : /\ at[q] = "load"
                                /\ \E k \in job[q] : \E x \in k.old \ k.new :
                                      x[2] = c /\ dev[x[1]] = v
      BY <2>8 DEF Leaving
    <3>b. PICK k \in job[q] : \E x \in k.old \ k.new : x[2] = c /\ dev[x[1]] = v
      BY <3>a
    <3>c. PICK x \in k.old \ k.new : x[2] = c /\ dev[x[1]] = v
      BY <3>b
    <3>1. at[q] = "load" /\ x[2] = c /\ dev[x[1]] = v
      BY <3>a, <3>c
    <3>2. x \in Routes
      BY <1>t, <3>a, <3>b, <3>c DEF Jobs
    <3>3. CASE x[1] = d
      <4>1. x = <<d, c>> /\ c \in Cidrs /\ x \in Dropped(q)
        BY <3>1, <3>2, <3>3 DEF Routes, Dropped
      <4>2. c \in stray'
        BY <2>1, <3>1, <4>1
      <4> QED BY <4>2 DEF Upheld
    <3>4. CASE x[1] # d
      <4>1. dev'[x[1]] = v
        BY <1>t, <2>1, <3>1, <3>2, <3>4 DEF Routes
      <4> QED BY <2>1, <3>1, <4>1 DEF Leaving
    <3> QED BY <3>3, <3>4
  <2>9. KernelUpheld'
    BY <1>h, <2>1, <2>6, <2>7, <2>8 DEF KernelUpheld
  <2> QED BY <2>4, <2>7, <2>9 DEF OwnerInv
<1>11. CASE Restart
  <2>1. /\ UNCHANGED <<wants, dev>>
        /\ \/ /\ UNCHANGED kernel
              /\ stray' = stray \cup {x[1] : x \in UNION {Removing(p) : p \in Procs}}
           \/ kernel' = [c \in Cidrs |-> NoDev]
        /\ at' = [p \in Procs |-> "idle"] /\ job' = [p \in Procs |-> {}]
        /\ add' = [p \in Procs |-> {}] /\ hand' = [p \in Procs |-> {}]
    BY <1>11 DEF Restart, AllLost, docs
  <2>2. PassListed' /\ LoadListed' /\ QueueUpheld'
    BY <2>1, RequestIsNoTimer, TimerIsNoRequest DEF PassListed, LoadListed, QueueUpheld
  <2>3. CASE kernel' = [c \in Cidrs |-> NoDev]
    BY <2>2, <2>3 DEF KernelUpheld, OwnerInv
  <2>4. CASE /\ UNCHANGED kernel
             /\ stray' = stray \cup {x[1] : x \in UNION {Removing(p) : p \in Procs}}
    <3>1. \A c, v : Upheld(c, v) => Upheld(c, v)'
      BY <2>1, <2>4, UpheldKept
    <3>2. \A c, v : Queued(c, v) => c \in stray'
      BY <2>4 DEF Queued, Removing
    <3>3. ASSUME NEW c, NEW v, Leaving(c, v) PROVE c \in stray'
      <4>1. PICK q \in Requests : /\ at[q] = "load"
                                  /\ \E k \in job[q] : \E x \in k.old \ k.new :
                                        x[2] = c /\ dev[x[1]] = v
        BY <3>3 DEF Leaving
      <4>2. <<c, v>> \in Removing(q)
        BY <4>1 DEF Removing, Dropped, On
      <4> QED BY <2>4, <4>1, <4>2, RequestIsNoTimer
    <3>4. \A c, v : c \in stray' => Upheld(c, v)'
      BY DEF Upheld
    <3>5. KernelUpheld'
      BY <1>h, <2>4, <3>1, <3>2, <3>3, <3>4 DEF KernelUpheld
    <3> QED BY <2>2, <3>5 DEF OwnerInv
  <2> QED BY <2>1, <2>3, <2>4
<1>12. CASE UNCHANGED routesVars
  <2>1. UNCHANGED <<dev, wants, kernel, stray, at, job, rem, add, hand>>
    BY <1>12 DEF routesVars, host, docs, work
  <2> QED BY <1>a, <2>1
<1> QED BY <1>1, <1>2, <1>3, <1>4, <1>5, <1>6, <1>7, <1>8, <1>9, <1>10, <1>11, <1>12,
           WriteOwner, RequestIsNoTimer, TimerIsNoRequest
        DEF RoutesNext, RequestStep, PassStep, RouteStep, HostRoutes

(* Every route of the kernel is the one of a document, on the device of    *)
(* its DNN, or a request is about to remove it, but for the mishaps that   *)
(* `stray` notes, however old the lists and the devices are when the       *)
(* commands run (framed-routing-reconcile-service.ts,                      *)
(* subscriber-management.ts).                                              *)
THEOREM ExplainedTheorem == RoutesSpec => []RoutesExplained
<1> DEFINE Explained == RoutesTyped /\ WorkProper /\ OwnerInv
<1>1. RoutesInit => Explained
  BY RoutesTypeInit, WorkProperInit, OwnerInit
<1>2. Explained /\ [RoutesNext]_routesVars => Explained'
  BY RoutesTypeStep, WorkProperStep, OwnerStep
<1>3. Explained => RoutesExplained
  <2> SUFFICES ASSUME OwnerInv, NEW c \in Cidrs \ stray, kernel[c] # NoDev
               PROVE  <<c, kernel[c]>> \in On(Wanted) \cup UNION {Removing(p) : p \in Procs}
    BY DEF RoutesExplained
  <2>1. Upheld(c, kernel[c]) \/ Queued(c, kernel[c]) \/ Leaving(c, kernel[c])
    BY DEF OwnerInv, KernelUpheld
  <2>2. CASE Upheld(c, kernel[c])
    BY <2>2 DEF Upheld, On
  <2>3. CASE Queued(c, kernel[c])
    BY <2>3 DEF Queued, Removing
  <2>4. CASE Leaving(c, kernel[c])
    <3>1. PICK q \in Requests : /\ at[q] = "load"
                                /\ \E k \in job[q] : \E x \in k.old \ k.new :
                                      x[2] = c /\ dev[x[1]] = kernel[c]
      BY <2>4 DEF Leaving
    <3>2. <<c, kernel[c]>> \in Removing(q)
      BY <3>1 DEF Removing, Dropped, On
    <3> QED BY <3>1, <3>2, RequestIsNoTimer
  <2> QED BY <2>1, <2>2, <2>3, <2>4
<1> QED BY <1>1, <1>2, <1>3, PTL DEF RoutesSpec
=============================================================================
