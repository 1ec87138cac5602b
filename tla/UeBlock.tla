------------------------------- MODULE UeBlock -------------------------------
(***************************************************************************)
(* Blocking a UE by its IMSI                                               *)
(* (application/use-cases/ran/ue-block-service.ts).                        *)
(*                                                                         *)
(* The table of blocked IMSIs remembers the address each was last dropped  *)
(* on.  A pass lists the rules, reads the table, deletes the rules of      *)
(* IMSIs that are not in it, asks the core which address each UE has now,  *)
(* and moves the rules of a UE whose address is not the remembered one.    *)
(* Between these steps the table, the addresses and the rules may change,  *)
(* and a command that fails is passed over: executeCommand() does not      *)
(* throw (infrastructure/system/local-host-executor.ts).                   *)
(***************************************************************************)
EXTENDS Naturals, FiniteSets

CONSTANTS
    Handlers,   \* handlers of POST/DELETE /api/ue-block/:imsi
    Timers,     \* periodic passes that may be under way at once
    Imsis, Ips, \* subscribers and the address pool
    MaxUeEvents, \* bound on requests, on UEs attaching or detaching, on commands
                 \* and status queries that fail, and on restarts of the backend
                 \* and the host, all together
    RowsAtBoot, AddrsAtBoot, \* what the table and the core may hold at first
    Absent,     \* no row in the table
    NoIp        \* no address: last_ip NULL, or a UE that is not attached

ASSUME UeBoundsAssumption ==
    /\ MaxUeEvents \in Nat
    /\ Absent \notin Ips /\ NoIp \notin Ips /\ Absent # NoIp
    /\ IsFiniteSet(Handlers \cup Timers) /\ Handlers \cap Timers = {}
    /\ RowsAtBoot \subseteq [Imsis -> Ips \cup {Absent, NoIp}]
    /\ AddrsAtBoot \subseteq [Imsis -> Ips \cup {NoIp}]

VARIABLES
    row,      \* the SQLite table: Absent, NoIp or the address last dropped on
    addr,     \* the core: the address each UE has
    rules,    \* rules in the kernel: the packets from an address, or those to it
    pc,       \* where each pass is
    found,    \* rules a pass listed
    want,     \* the table as a pass read it
    current,  \* the addresses a pass was told
    doomed,   \* rules a pass has still to delete
    todo,     \* IMSIs a pass has still to look at
    moving,   \* {} or the IMSI whose rules a pass is moving
    events,
    first,    \* history: {} or the rule a pass added before the other of its pair
    torn      \* history: IMSIs whose rules were left in disorder: two passes
              \* moved them at once, a pass listed or deleted one of a pair
              \* before the other was added, or a move or deletion was cut
              \* short or failed

pass == <<found, want, current, doomed, todo, moving>>
history == <<first, torn>>
ueVars == <<row, addr, rules, pc, found, want, current, doomed, todo,
          moving, history, events>>

Passes == Handlers \cup Timers
Ways == {"from", "to"}   \* saddr and daddr
Rules == [h : Nat \ {0}, imsi : Imsis, ip : Ips, way : Ways]
NoRows == [u \in Imsis |-> Absent]
NoAddrs == [u \in Imsis |-> NoIp]

\* start() after a boot of the host: the table is as the last run left it, UEs
\* may be attached already, and nftables holds nothing.
UeInit ==
    /\ row \in RowsAtBoot
    /\ addr \in AddrsAtBoot
    /\ rules = {}
    /\ pc = [p \in Passes |-> "idle"]
    /\ found = [p \in Passes |-> {}]
    /\ want = [p \in Passes |-> NoRows]
    /\ current = [p \in Passes |-> NoAddrs]
    /\ doomed = [p \in Passes |-> {}]
    /\ todo = [p \in Passes |-> {}]
    /\ moving = [p \in Passes |-> {}]
    /\ first = [p \in Passes |-> {}]
    /\ torn = {}
    /\ events = 0

Event == events < MaxUeEvents /\ events' = events + 1

RulesOf(u) == {r \in rules : r.imsi = u}

Goto(p, label) == pc' = [pc EXCEPT ![p] = label]

-----------------------------------------------------------------------------
(* The operations *)

\* block(): INSERT with last_ip NULL; a row that is there keeps its last_ip.
Block(r, u) ==
    /\ pc[r] = "idle" /\ Event
    /\ row' = [row EXCEPT ![u] = IF @ = Absent THEN NoIp ELSE @]
    /\ Goto(r, "list")
    /\ UNCHANGED <<addr, rules, pass, history>>

Unblock(r, u) ==
    /\ pc[r] = "idle" /\ Event
    /\ row' = [row EXCEPT ![u] = Absent]
    /\ Goto(r, "list")
    /\ UNCHANGED <<addr, rules, pass, history>>

TimerFires(t) ==
    /\ pc[t] = "idle"
    /\ Goto(t, "list")
    /\ UNCHANGED <<row, addr, rules, pass, history, events>>

-----------------------------------------------------------------------------
(* A pass *)

\* A pass is moving the rules of the IMSI.
InMotion(u) == \E p \in Passes : u \in moving[p]

\* The rules of the IMSI are those of an address the table has, or will have.
Needed(u) == row[u] \in Ips \/ InMotion(u)

\* listInstalled(): the output of a command that failed lists no rules.
ListRules(p) ==
    /\ pc[p] = "list"
    /\ \/ found' = [found EXCEPT ![p] = rules] /\ UNCHANGED events
       \/ found' = [found EXCEPT ![p] = {}] /\ Event
    /\ Goto(p, "plan")
    /\ UNCHANGED <<row, addr, rules, want, current, doomed, todo, moving,
                   history>>

\* Mutant: only rules on an address the core reports are deleted.
PlanKnownOnly(p) ==
    /\ pc[p] = "plan"
    /\ want' = [want EXCEPT ![p] = row]
    /\ doomed' = [doomed EXCEPT ![p] =
                     {r \in found[p] : row[r.imsi] = Absent /\ addr[r.imsi] = r.ip}]
    /\ todo' = [todo EXCEPT ![p] = {u \in Imsis : row[u] # Absent}]
    /\ Goto(p, "clear")
    /\ UNCHANGED <<row, addr, rules, found, current, moving, history, events>>

\* getAll(), and the rules of IMSIs it does not name are to go.
Plan(p) ==
    /\ pc[p] = "plan"
    /\ want' = [want EXCEPT ![p] = row]
    /\ doomed' = [doomed EXCEPT ![p] = {r \in found[p] : row[r.imsi] = Absent}]
    /\ todo' = [todo EXCEPT ![p] = {u \in Imsis : row[u] # Absent}]
    /\ Goto(p, "clear")
    /\ UNCHANGED <<row, addr, rules, found, current, moving, history, events>>

\* One 'nft delete rule' by handle; one that is gone is passed over, and so is
\* one that stays because the command failed.
DeleteDoomed(p) ==
    /\ \E r \in doomed[p] :
          /\ doomed' = [doomed EXCEPT ![p] = @ \ {r}]
          /\ \/ rules' = rules \ {r} /\ UNCHANGED <<torn, events>>
             \/ /\ UNCHANGED rules /\ Event
                /\ torn' = torn \cup {u \in {r.imsi} : pc[p] = "clear" /\ Needed(u)}
    /\ UNCHANGED <<row, addr, pc, found, want, current, todo, moving, first>>

Clear(p) == pc[p] = "clear" /\ DeleteDoomed(p)

\* getInterfaceStatus.execute(): when it fails only last_ip is known.
AskAddresses(p) ==
    /\ pc[p] = "clear" /\ doomed[p] = {}
    /\ \/ current' = [current EXCEPT ![p] = addr] /\ UNCHANGED events
       \/ current' = [current EXCEPT ![p] = NoAddrs] /\ Event
    /\ Goto(p, "each")
    /\ UNCHANGED <<row, addr, rules, found, want, doomed, todo, moving,
                   history>>

\* currentIpByImsi.get(imsi) ?? lastIp
IpFor(p, u) == IF current[p][u] # NoIp THEN current[p][u] ELSE want[p][u]

Listed(p, u) == {r \in found[p] : r.imsi = u}

\* Mutant: rules that are there are taken to be right.
NeedsInstallIfNone(p, u) ==
    /\ IpFor(p, u) # NoIp
    /\ Listed(p, u) = {}

NeedsInstall(p, u) ==
    /\ IpFor(p, u) # NoIp
    /\ Listed(p, u) = {} \/ IpFor(p, u) # want[p][u]

\* The rules listed for the IMSI are deleted, then the new pair is added.
MoveRules(p) ==
    /\ pc[p] = "each"
    /\ \E u \in todo[p] :
          /\ NeedsInstall(p, u)
          /\ doomed' = [doomed EXCEPT ![p] = Listed(p, u)]
          /\ todo' = [todo EXCEPT ![p] = @ \ {u}]
          /\ moving' = [moving EXCEPT ![p] = {u}]
          /\ torn' = torn \cup {v \in {u} : InMotion(v)}
    /\ Goto(p, "move")
    /\ UNCHANGED <<row, addr, rules, found, want, current, first, events>>

DeleteOld(p) == pc[p] = "move" /\ DeleteDoomed(p)

\* The kernel counts handles up and reuses none: for the next stands one under
\* which neither the kernel nor a pass knows such a rule.
KnownRules == rules \cup UNION {found[p] \cup doomed[p] : p \in Passes}

FreshRule(u, i, w) ==
    LET rule(n) == [h |-> n, imsi |-> u, ip |-> i, way |-> w]
    IN  rule(CHOOSE n \in 1..Cardinality(KnownRules) + 1 : rule(n) \notin KnownRules)

\* Mutant: the operands of ?? swapped where the rules are added.
RuleForLast(p, u, w) ==
    FreshRule(u, IF want[p][u] # NoIp THEN want[p][u] ELSE current[p][u], w)

RuleFor(p, u, w) == FreshRule(u, IpFor(p, u), w)

\* addRulesForIp(), the first of two commands; one that fails adds nothing.
AddFrom(p) ==
    /\ pc[p] = "move" /\ doomed[p] = {}
    /\ \E u \in moving[p] :
          LET rule == RuleFor(p, u, "from") IN
          \/ /\ rules' = rules \cup {rule} /\ first' = [first EXCEPT ![p] = {rule}]
             /\ UNCHANGED events
          \/ UNCHANGED <<rules, first>> /\ Event
    /\ Goto(p, "pair")
    /\ UNCHANGED <<row, addr, pass, torn>>

\* The rules a pass that clears may delete.
Held(p) == IF pc[p] = "plan" THEN found[p]
           ELSE IF pc[p] = "clear" THEN doomed[p] ELSE {}

\* The first rule was added, is there, and no pass saw it alone.
FirstStays(p) ==
    first[p] # {} /\ \A r \in first[p] : r \in rules /\ \A q \in Passes : r \notin Held(q)

\* The second command, after an await in which other passes run.  The pass goes
\* on to record the address whatever became of the first rule and the second.
AddTo(p) ==
    /\ pc[p] = "pair"
    /\ \E u \in moving[p] :
          \/ /\ rules' = rules \cup {RuleFor(p, u, "to")} /\ UNCHANGED events
             /\ torn' = torn \cup {v \in {u} : ~ FirstStays(p)}
          \/ /\ UNCHANGED rules /\ Event
             /\ torn' = torn \cup {v \in {u} : RulesOf(v) # {}}
    /\ first' = [first EXCEPT ![p] = {}]
    /\ Goto(p, "record")
    /\ UNCHANGED <<row, addr, pass>>

\* setLastIp(): UPDATE, which finds no row when the IMSI was unblocked meanwhile.
RecordIp(p) ==
    /\ pc[p] = "record"
    /\ row' = [u \in Imsis |-> IF u \in moving[p] /\ row[u] # Absent THEN IpFor(p, u)
                                                                 ELSE row[u]]
    /\ moving' = [moving EXCEPT ![p] = {}]
    /\ Goto(p, "each")
    /\ UNCHANGED <<addr, rules, found, want, current, doomed, todo, history, events>>

\* Nothing is left to do: of the IMSIs left no address is known, or their rules
\* are in place.  The handler answers; its locals are gone.
Finish(p) ==
    /\ pc[p] = "each" /\ \A u \in todo[p] : ~ NeedsInstall(p, u)
    /\ Goto(p, "idle")
    /\ todo' = [todo EXCEPT ![p] = {}]
    /\ found' = [found EXCEPT ![p] = {}]
    /\ want' = [want EXCEPT ![p] = NoRows]
    /\ current' = [current EXCEPT ![p] = NoAddrs]
    /\ UNCHANGED <<row, addr, rules, doomed, moving, history, events>>

PassStep(p) ==
    \/ ListRules(p) \/ Plan(p) \/ Clear(p) \/ AskAddresses(p) \/ MoveRules(p)
    \/ DeleteOld(p) \/ AddFrom(p) \/ AddTo(p) \/ RecordIp(p) \/ Finish(p)

-----------------------------------------------------------------------------
(* The environment *)

\* The core gives a UE that attaches an address no attached UE has.
Attach(u, i) ==
    /\ addr[u] = NoIp /\ \A v \in Imsis : addr[v] # i
    /\ Event
    /\ addr' = [addr EXCEPT ![u] = i]
    /\ UNCHANGED <<row, rules, pc, pass, history>>

Detach(u) ==
    /\ addr[u] # NoIp /\ Event
    /\ addr' = [addr EXCEPT ![u] = NoIp]
    /\ UNCHANGED <<row, rules, pc, pass, history>>

PassesLost ==
    /\ Event
    /\ pc' = [p \in Passes |-> "idle"]
    /\ found' = [p \in Passes |-> {}]
    /\ want' = [p \in Passes |-> NoRows]
    /\ current' = [p \in Passes |-> NoAddrs]
    /\ doomed' = [p \in Passes |-> {}]
    /\ todo' = [p \in Passes |-> {}]
    /\ moving' = [p \in Passes |-> {}]
    /\ first' = [p \in Passes |-> {}]
    /\ UNCHANGED <<row, addr>>

\* A pass has begun to change the rules of the IMSI.
AtRulesOf(u) ==
    \E p \in Passes : u \in moving[p] \/ u \in {r.imsi : r \in doomed[p]}

BackendRestarts ==
    /\ PassesLost
    /\ torn' = torn \cup {u \in Imsis : row[u] \in Ips /\ AtRulesOf(u)}
    /\ UNCHANGED rules

HostReboots == PassesLost /\ rules' = {} /\ UNCHANGED torn

UeNext ==
    \/ \E r \in Handlers, u \in Imsis : Block(r, u) \/ Unblock(r, u)
    \/ \E t \in Timers : TimerFires(t)
    \/ \E p \in Passes : PassStep(p)
    \/ \E u \in Imsis : (\E i \in Ips : Attach(u, i)) \/ Detach(u)
    \/ BackendRestarts \/ HostReboots

\* nft commands and status queries time out, so a pass ends; the timer fires again.
Fairness ==
    /\ \A p \in Passes : WF_ueVars(PassStep(p))
    /\ \A t \in Timers : WF_ueVars(TimerFires(t))

UeSpec == UeInit /\ [][UeNext]_ueVars /\ Fairness

-----------------------------------------------------------------------------
(* Properties *)

\* Every variable has its type.
UeTypeOK ==
    /\ row \in [Imsis -> Ips \cup {Absent, NoIp}]
    /\ addr \in [Imsis -> Ips \cup {NoIp}]
    /\ rules \subseteq Rules
    /\ pc \in [Passes -> {"idle", "list", "plan", "clear", "each", "move", "pair", "record"}]
    /\ found \in [Passes -> SUBSET Rules]
    /\ want \in [Passes -> [Imsis -> Ips \cup {Absent, NoIp}]]
    /\ current \in [Passes -> [Imsis -> Ips \cup {NoIp}]]
    /\ doomed \in [Passes -> SUBSET Rules]
    /\ todo \in [Passes -> SUBSET Imsis]
    /\ moving \in [Passes -> SUBSET Imsis]
    /\ events \in 0..MaxUeEvents
    /\ first \in [Passes -> SUBSET Rules] /\ torn \subseteq Imsis

\* The packets of the IMSI are dropped on the address, both ways, by these rules.
Drops(some, ip) == \A w \in Ways : \E r \in some : r.ip = ip /\ r.way = w

\* Rules that no pass is about to delete.
Staying(u) == {r \in RulesOf(u) : \A p \in Passes : r \notin doomed[p]}

\* The address the table has for an IMSI is one it is dropped on, both ways, or
\* there is no rule for it at all, which the next pass will notice: a pass takes
\* rules that are there for right when last_ip is the address
\* (ue-block-service.ts:130).  It may be otherwise only while a pass moves the
\* rules, and after a move or a deletion that was disturbed.
RowTrue ==
    \A u \in Imsis \ torn :
        row[u] \in Ips /\ ~ InMotion(u) => Staying(u) = {} \/ Drops(Staying(u), row[u])

\* Once nothing changes any more, an IMSI that is not blocked has no rule left,
\* in either direction, whatever overlapped, failed or was cut short.
UnblockedClear == <>[](\A u \in Imsis : row[u] = Absent => RulesOf(u) = {})

\* In the end a blocked UE that is attached is dropped on the address it has,
\* both ways, however often it moved and passes overlapped, unless a move or a
\* deletion of its own rules was disturbed.
BlockedDropped ==
    <>[](\A u \in Imsis \ torn :
            row[u] # Absent /\ addr[u] # NoIp => Drops(RulesOf(u), addr[u]))
=============================================================================
