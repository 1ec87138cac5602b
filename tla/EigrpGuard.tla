----------------------------- MODULE EigrpGuard -----------------------------
(***************************************************************************)
(* The EIGRP forwarding-health guard                                       *)
(* (application/use-cases/frr/eigrp-health-guard.ts): every Interval it    *)
(* reads four tables, and restarts frr when they show a traffic-affecting  *)
(* fault, unless the last restart is too recent or there were too many.    *)
(*                                                                         *)
(* The tables are read by four commands that run at once, so they need not *)
(* show one moment of the network.  The timeouts of a check (30 s to ask   *)
(* for the service, 15 s for the tables, 15 s for the binary, 30 s for the *)
(* restart) add up to less than the interval: checks do not overlap.       *)
(***************************************************************************)
EXTENDS Integers, FiniteSets

CONSTANTS
    Interval,    \* minutes from one check to the next (2)
    Cooldown,    \* RESTART_COOLDOWN_MS (15 min)
    Window,      \* RESTART_WINDOW_MS (6 h)
    MaxRestarts, \* MAX_RESTARTS_PER_WINDOW (3)
    Prefixes,    \* what the tables may show
    Required,    \* REQUIRED_PREFIXES, whose kernel route must be there
    Nexthops,    \* rows of the kernel's nexthop table that routes go through
    NoRoute,     \* the prefix has no kernel route
    MaxTime,     \* bound on the clock
    MaxEvents    \* bound on changes of the network, failed commands and backend restarts

ASSUME GuardAssumption ==
    /\ Interval \in Nat \ {0, 1} /\ Cooldown \in Nat \ {0} /\ Window \in Nat \ {0}
    /\ MaxRestarts \in Nat \ {0} /\ MaxTime \in Nat \ {0}
    /\ Required \subseteq Prefixes /\ NoRoute \notin Nexthops
    /\ MaxEvents \in Nat

VARIABLES
    clock,     \* Date.now(), in minutes; it is never 0
    due,       \* when the timer fires next
    topo,      \* the prefixes in EIGRP's topology
    fib,       \* per prefix: the nexthop of its kernel route, or NoRoute
    bare,      \* the nexthops without a gateway
    patched,   \* /usr/lib/frr/eigrpd carries the crash guard
    pc,        \* where the check is
    pending,   \* the tables the check has not read yet
    read,      \* what it has read of the others
    began,     \* when the check began
    now,       \* its Date.now() at the decision
    lastRestartAt, restartTimes, \* what the guard remembers; 0 is no restart
    restarts,  \* history: when each restart was decided and carried out, and in
               \* which life of the backend
    moments,   \* history: what the network was at some moment while the check read
    failed,    \* history: the tables whose reading failed
    losses,    \* how many times the backend has restarted
    events

network == <<topo, fib, bare>>
readings == <<pending, read>>
history == <<moments, failed>>
memory == <<lastRestartAt, restartTimes>>
vars == <<clock, due, network, patched, pc, readings, began, now,
          lastRestartAt, restartTimes, restarts, history, losses, events>>

Tables == {"topology", "routes", "nexthops"}

Unread == [topology |-> {}, routes |-> [p \in Prefixes |-> NoRoute], nexthops |-> {}]

NetworkNow == [topology |-> topo, routes |-> fib, nexthops |-> bare]

Init ==
    /\ clock = 1 /\ due = 1
    /\ topo \in SUBSET Prefixes /\ fib \in [Prefixes -> Nexthops \cup {NoRoute}]
    /\ bare \in SUBSET Nexthops
    /\ patched \in BOOLEAN
    /\ pc = "idle" /\ pending = {} /\ read = Unread /\ began = 0 /\ now = 0
    /\ lastRestartAt = 0 /\ restartTimes = {}
    /\ restarts = {} /\ moments = {} /\ failed = {}
    /\ losses = 0 /\ events = 0

-----------------------------------------------------------------------------
Event == /\ events < MaxEvents
         /\ events' = events + 1

(* A check *)

TimerFires ==
    /\ pc = "idle" /\ clock = due
    /\ due' = due + Interval
    /\ began' = clock
    /\ pc' = "active?"
    /\ UNCHANGED <<clock, network, patched, readings, now, memory, restarts, history,
                   losses, events>>

\* The check ends, and what it kept in its variables is gone.
EndCheck ==
    /\ pc' = "idle" /\ began' = 0 /\ now' = 0
    /\ pending' = {} /\ read' = Unread
    /\ moments' = {} /\ failed' = {}

\* isServiceActive('frr'): a dead frr is left to watchfrr.
ServiceDead ==
    /\ pc = "active?"
    /\ EndCheck
    /\ UNCHANGED <<clock, due, network, patched, memory, restarts,
                   losses, events>>

\* The four commands of the Promise.all start; what the neighbours say decides on no
\* restart and is left out.
ServiceActive ==
    /\ pc = "active?"
    /\ pc' = "read" /\ pending' = Tables
    /\ moments' = {NetworkNow}
    /\ UNCHANGED <<clock, due, network, patched, read, began, now, memory, restarts,
                   failed, losses, events>>

ReadTable(t) ==
    /\ pc = "read" /\ t \in pending
    /\ pending' = pending \ {t}
    /\ read' = [read EXCEPT ![t] = NetworkNow[t]]
    /\ UNCHANGED <<clock, due, network, patched, pc, began, now, memory, restarts,
                   history, losses, events>>

\* What a command that fails or is killed may have printed: rows are lost, and the last
\* one may be cut short, a route within its nexthop, a nexthop before its gateway.
Printed(t) ==
    CASE t = "topology" -> SUBSET topo
      [] t = "routes" -> {f \in [Prefixes -> Nexthops \cup {NoRoute}] :
                             \A p \in Prefixes : fib[p] = NoRoute => f[p] = NoRoute}
      [] t = "nexthops" -> SUBSET Nexthops

\* run() returns the stdout of a command that failed too.
ReadFails(t) ==
    /\ pc = "read" /\ t \in pending
    /\ Event
    /\ pending' = pending \ {t}
    /\ \E rows \in Printed(t) : read' = [read EXCEPT ![t] = rows]
    /\ failed' = failed \cup {t}
    /\ UNCHANGED <<clock, due, network, patched, pc, began, now, memory, restarts,
                   moments, losses>>

\* Mutant: every prefix of the topology must have a kernel route.
DiagnosedAny ==
    \/ \E p \in read.topology : read.routes[p] = NoRoute
    \/ \E p \in Prefixes : read.routes[p] \in read.nexthops

\* diagnoseEigrpHealth(): a required prefix that EIGRP knows has no kernel route, or a
\* route goes through a nexthop without gateway.  A corrupt topology alone is no reason
\* to restart.
Diagnosed ==
    \/ \E p \in Required \cap read.topology : read.routes[p] = NoRoute
    \/ \E p \in Prefixes : read.routes[p] \in read.nexthops

\* Mutant: one restart beyond the cap.
AllowedBeyondCap(at) ==
    /\ lastRestartAt # 0 => at - lastRestartAt >= Cooldown
    /\ Cardinality({t \in restartTimes : at - t < Window}) <= MaxRestarts

\* restartAllowed(): no restart in the cooldown, and a cap on those remembered.
RestartAllowed(at) ==
    /\ lastRestartAt # 0 => at - lastRestartAt >= Cooldown
    /\ Cardinality({t \in restartTimes : at - t < Window}) < MaxRestarts

\* Healthy, or held back: the check ends and restarts nothing.
Leave ==
    /\ pc = "read" /\ pending = {}
    /\ ~ (Diagnosed /\ RestartAllowed(clock))
    /\ EndCheck
    /\ UNCHANGED <<clock, due, network, patched, memory, restarts,
                   losses, events>>

Decide ==
    /\ pc = "read" /\ pending = {}
    /\ Diagnosed /\ RestartAllowed(clock)
    /\ now' = clock
    /\ pc' = "recover"
    /\ UNCHANGED <<clock, due, network, patched, readings, began, memory, restarts,
                   history, losses, events>>

\* recover(), first await: an unpatched binary is reported, not restarted.
Unpatched ==
    /\ pc = "recover" /\ ~ patched
    /\ EndCheck
    /\ UNCHANGED <<clock, due, network, patched, memory, restarts,
                   losses, events>>

\* restartService('frr'), whose exit code is not looked at: afterwards EIGRP has
\* learned nothing yet, or the restart failed and all is as before.
RestartFrr ==
    /\ pc = "recover" /\ patched
    /\ \/ topo' = {} /\ fib' = [p \in Prefixes |-> NoRoute] /\ bare' = {}
       \/ UNCHANGED network
    /\ restarts' = restarts \cup {[decided |-> now, done |-> clock, life |-> losses]}
    /\ pc' = "remember"
    /\ UNCHANGED <<clock, due, patched, readings, began, now, memory, history,
                   losses, events>>

\* Mutant: the last restart alone is kept.
RememberLast ==
    /\ pc = "remember"
    /\ lastRestartAt' = now /\ restartTimes' = {now}
    /\ EndCheck
    /\ UNCHANGED <<clock, due, network, patched, restarts,
                   losses, events>>

\* The restart is remembered at the time of the decision.
Remember ==
    /\ pc = "remember"
    /\ lastRestartAt' = now
    /\ restartTimes' = {t \in restartTimes \cup {now} : now - t < Window}
    /\ EndCheck
    /\ UNCHANGED <<clock, due, network, patched, restarts,
                   losses, events>>

CheckStep ==
    \/ ServiceDead \/ ServiceActive \/ (\E t \in Tables : ReadTable(t) \/ ReadFails(t))
    \/ Leave \/ Decide \/ Unpatched \/ RestartFrr \/ Remember

-----------------------------------------------------------------------------
(* The environment *)

\* Time passes, but not past a due check nor past the timeouts of one under way.
Tick ==
    /\ clock < MaxTime
    /\ IF pc = "idle" THEN clock < due ELSE clock + 1 < began + Interval
    /\ clock' = clock + 1
    /\ UNCHANGED <<due, network, patched, pc, readings, began, now, memory, restarts,
                   history, losses, events>>

\* EIGRP learns or withdraws a prefix, zebra installs, moves or removes a route, a nexthop
\* loses or gets its gateway: one of them at a time, as in a flap.
NetworkChanges ==
    /\ Event
    /\ \/ /\ \E p \in Prefixes : topo' \in {topo \cup {p}, topo \ {p}}
          /\ UNCHANGED <<fib, bare>>
       \/ /\ \E p \in Prefixes, n \in Nexthops \cup {NoRoute} : fib' = [fib EXCEPT ![p] = n]
          /\ UNCHANGED <<topo, bare>>
       \/ /\ \E n \in Nexthops : bare' \in {bare \cup {n}, bare \ {n}}
          /\ UNCHANGED <<topo, fib>>
    /\ moments' = moments \cup IF pc = "read" THEN {NetworkNow'} ELSE {}
    /\ UNCHANGED <<clock, due, patched, pc, readings, began, now, memory, restarts,
                   failed, losses>>

\* The backend restarts: the limits were kept in memory only, and start() checks at once.
BackendRestart ==
    /\ Event
    /\ losses' = losses + 1
    /\ EndCheck
    /\ due' = clock
    /\ lastRestartAt' = 0 /\ restartTimes' = {}
    /\ UNCHANGED <<clock, network, patched, restarts>>

Next == TimerFires \/ CheckStep \/ Tick \/ NetworkChanges \/ BackendRestart

Spec == Init /\ [][Next]_vars

-----------------------------------------------------------------------------
(* Properties *)

Networks == [topology : SUBSET Prefixes, routes : [Prefixes -> Nexthops \cup {NoRoute}],
             nexthops : SUBSET Nexthops]

\* Every variable has its type.
TypeOK ==
    /\ clock \in 0..MaxTime /\ due \in Nat
    /\ NetworkNow \in Networks
    /\ patched \in BOOLEAN
    /\ pc \in {"idle", "active?", "read", "recover", "remember"}
    /\ pending \subseteq Tables /\ read \in Networks
    /\ began \in Nat /\ now \in Nat
    /\ lastRestartAt \in Nat /\ restartTimes \subseteq Nat
    /\ restarts \subseteq [decided : Nat, done : Nat, life : Nat]
    /\ moments \subseteq Networks /\ failed \subseteq Tables
    /\ losses \in Nat /\ events \in 0..MaxEvents

\* Within one life of the backend two restarts are a cooldown apart, less the time a
\* check may take between its decision and the restart; and no window ends with more
\* restarts decided in it than the cap, the one under way included.
LimitsKept ==
    \A r \in restarts :
        /\ \A s \in restarts :
              r.life = s.life /\ r.decided < s.decided => s.done - r.done > Cooldown - Interval
        /\ Cardinality({s \in restarts : /\ s.life = r.life
                                         /\ s.decided \in r.decided - Window + 1 .. r.decided})
             <= MaxRestarts

\* The guard remembers every restart of its life that is in the window, so the cap counts
\* them all, whichever checks forgot old ones on the way.
NothingForgotten ==
    pc # "remember" =>
        \A r \in restarts :
            r.life = losses /\ clock - r.decided < Window => r.decided \in restartTimes

\* A required prefix that EIGRP knew and the kernel did not have, or a route that was there
\* and a nexthop of it without gateway, at some moments of the check: each half of it, but
\* for a half of which the reading failed.
Accused ==
    \/ \E p \in Required :
          /\ \E m \in moments : p \in m.topology
          /\ "routes" \in failed \/ \E m \in moments : m.routes[p] = NoRoute
    \/ \E p \in Prefixes, n \in Nexthops :
          /\ \E m \in moments :
                IF "routes" \in failed THEN m.routes[p] # NoRoute ELSE m.routes[p] = n
          /\ "nexthops" \in failed \/ \E m \in moments : n \in m.nexthops

\* A fault that stood at every moment of the check.
Standing ==
    \/ \E p \in Required : \A m \in moments : p \in m.topology /\ m.routes[p] = NoRoute
    \/ \E p \in Prefixes, n \in Nexthops :
          \A m \in moments : m.routes[p] = n /\ n \in m.nexthops

\* The verdict of a check whose tables are of different moments: it restarts frr for a fault
\* whose halves were both there, so that a topology that could not be read never restarts
\* anything, and it does not overlook one that stood throughout, unless a reading failed
\* (eigrp-health-guard.ts:124-148).
VerdictJustified ==
    /\ pc = "recover" => Accused
    /\ pc = "read" /\ pending = {} /\ failed = {} /\ Standing => Diagnosed
=============================================================================
