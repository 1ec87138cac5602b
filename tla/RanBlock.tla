------------------------------ MODULE RanBlock ------------------------------
(***************************************************************************)
(* Blocking a radio with nftables rules: radio-, gnb- and hnb-block-       *)
(* service.ts under application/use-cases/ran, which share one algorithm.  *)
(*                                                                         *)
(* The blocked addresses are rows of a SQLite table; the kernel holds one  *)
(* drop rule per blocked address and slot (direction and protocol).  Every *)
(* request changes the table and runs a reconcile pass; a timer runs       *)
(* another every minute.  A pass lists the rules, then reads the table,    *)
(* then deletes and adds one rule per nft command.  Passes are not         *)
(* serialised.  A failed nft command is not noticed.                       *)
(***************************************************************************)
EXTENDS Naturals, FiniteSets

CONSTANTS
    Requests,   \* handlers of POST/DELETE /api/radio-block/:ip
    Timers,     \* periodic passes that may be under way at once
    Ips,        \* addresses of radios
    Ports,      \* Iuh ports an operator may configure; one for radio and gnb
    Slots,      \* 1..4 for radio and gnb, 1..2 for hnb: the rules of an address
    MaxOps,     \* bound on requests
    MaxTroubles \* bound on nft commands that fail, port changes, backend
                \* restarts and host reboots, all together

ASSUME RanBoundsAssumption ==
    MaxOps \in Nat /\ MaxTroubles \in Nat /\ Slots \subseteq Nat

ASSUME PassesAssumption ==
    /\ Requests \cap Timers = {} /\ Ports # {} /\ Slots # {}
    /\ IsFiniteSet(Requests) /\ IsFiniteSet(Timers)

VARIABLES
    blocked,   \* the SQLite table
    port,      \* port the rules of a pass are written for
    rules,     \* rules in the kernel
    pc,        \* where each pass is
    seen,      \* rules a pass listed
    doomed,    \* rules a pass has still to delete
    missing,   \* <<address, port, slot>> a pass has still to add
    asked,     \* the address of a request
    apart,     \* history: nothing else happened since the pass began
    ops, troubles

pass == <<seen, doomed, missing>>
vars == <<blocked, port, rules, pc, seen, doomed, missing, asked, apart,
          ops, troubles>>

Passes == Requests \cup Timers
Rules == [h : Nat \ {0}, ip : Ips, port : Ports, slot : Slots]

Init ==
    /\ blocked \in SUBSET Ips
    /\ port \in Ports
    /\ rules = {}
    /\ pc = [p \in Passes |-> "idle"]
    /\ seen = [p \in Passes |-> {}]
    /\ doomed = [p \in Passes |-> {}]
    /\ missing = [p \in Passes |-> {}]
    /\ asked \in [Requests -> Ips]
    /\ apart = [r \in Requests |-> FALSE]
    /\ ops = 0 /\ troubles = 0

-----------------------------------------------------------------------------
(* History *)

Busy(p) == pc[p] # "idle"

\* A pass that begins disturbs the others, and is disturbed by them.
Begin(p) ==
    /\ pc' = [pc EXCEPT ![p] = "list"]
    /\ apart' = [r \in Requests |-> r = p /\ \A q \in Passes \ {p} : ~ Busy(q)]

Trouble ==
    /\ troubles < MaxTroubles
    /\ troubles' = troubles + 1
    /\ apart' = [r \in Requests |-> FALSE]

NoTrouble == UNCHANGED <<troubles, apart>>

-----------------------------------------------------------------------------
(* The operations *)

\* block(): INSERT, then a pass.
Block(r, i) ==
    /\ ~ Busy(r) /\ ops < MaxOps
    /\ blocked' = blocked \cup {i}
    /\ asked' = [asked EXCEPT ![r] = i]
    /\ ops' = ops + 1
    /\ Begin(r)
    /\ UNCHANGED <<port, rules, pass, troubles>>

\* unblock(): DELETE, then a pass.
Unblock(r, i) ==
    /\ ~ Busy(r) /\ ops < MaxOps
    /\ blocked' = blocked \ {i}
    /\ asked' = [asked EXCEPT ![r] = i]
    /\ ops' = ops + 1
    /\ Begin(r)
    /\ UNCHANGED <<port, rules, pass, troubles>>

\* setInterval() does not wait for the previous pass.
TimerFires(t) ==
    /\ t \in Timers /\ ~ Busy(t)
    /\ Begin(t)
    /\ UNCHANGED <<blocked, port, rules, pass, asked, ops, troubles>>

\* The operator configures another Iuh port (HnbgwState.iuhLocalPort).
ChangePort(n) ==
    /\ n # port
    /\ port' = n
    /\ Trouble
    /\ UNCHANGED <<blocked, rules, pc, pass, asked, ops>>

-----------------------------------------------------------------------------
(* A pass.  ensureBaseline() only adds the table and its chains. *)

\* listInstalled(): output that does not parse counts as no rule at all.
List(p) ==
    /\ pc[p] = "list"
    /\ \/ seen' = [seen EXCEPT ![p] = rules] /\ NoTrouble
       \/ seen' = [seen EXCEPT ![p] = {}] /\ Trouble
    /\ pc' = [pc EXCEPT ![p] = "plan"]
    /\ UNCHANGED <<blocked, port, rules, doomed, missing, asked, ops>>

\* Mutant: the address alone is the identity of a rule.
WantedOnAnyPort(r) == r.ip \in blocked

\* A rule is kept while its address is blocked and its port is the current one.
Wanted(r) == r.ip \in blocked /\ r.port = port

\* An address with any rule on the port counts as installed.
Installed(listed, i) == \E r \in listed : r.ip = i /\ r.port = port

\* Mutant: every pass adds the rules of every blocked address.
PlanAddsAll(p) ==
    /\ pc[p] = "plan"
    /\ doomed' = [doomed EXCEPT ![p] = {r \in seen[p] : ~ Wanted(r)}]
    /\ missing' = [missing EXCEPT ![p] = blocked \X {port} \X Slots]
    /\ seen' = [seen EXCEPT ![p] = {}]
    /\ pc' = [pc EXCEPT ![p] = "apply"]
    /\ UNCHANGED <<blocked, port, rules, asked, apart, ops, troubles>>

\* The table is read after the rules were listed.
Plan(p) ==
    /\ pc[p] = "plan"
    /\ doomed' = [doomed EXCEPT ![p] = {r \in seen[p] : ~ Wanted(r)}]
    /\ missing' = [missing EXCEPT ![p] =
                      {i \in blocked : ~ Installed(seen[p], i)} \X {port} \X Slots]
    /\ seen' = [seen EXCEPT ![p] = {}]
    /\ pc' = [pc EXCEPT ![p] = "apply"]
    /\ UNCHANGED <<blocked, port, rules, asked, apart, ops, troubles>>

\* The rules of an address are listed chain by chain.
Before(s, r) == s.slot < r.slot \/ (s.slot = r.slot /\ s.h < r.h)

\* 'nft delete rule ... handle h': a handle that is gone makes it fail unnoticed.
Delete(p) ==
    /\ pc[p] = "apply"
    /\ \E r \in doomed[p] :
          /\ \A s \in doomed[p] : s.ip = r.ip => ~ Before(s, r)
          /\ doomed' = [doomed EXCEPT ![p] = @ \ {r}]
          /\ \/ rules' = rules \ {r} /\ NoTrouble
             \/ rules' = rules /\ Trouble
    /\ UNCHANGED <<blocked, port, pc, seen, missing, asked, ops>>

\* The kernel counts handles up and reuses none: one that neither a rule nor a
\* pass knows stands for the next.
FreshHandle ==
    LET known == {r.h : r \in rules \cup UNION {seen[p] \cup doomed[p] : p \in Passes}}
    IN  CHOOSE h \in 1..Cardinality(known) + 1 : h \notin known

\* 'nft add rule'.
Add(p) ==
    /\ pc[p] = "apply" /\ doomed[p] = {}
    /\ \E m \in missing[p] :
          /\ \A n \in missing[p] : n[1] = m[1] => n[3] >= m[3]
          /\ missing' = [missing EXCEPT ![p] = @ \ {m}]
          /\ \/ /\ rules' = rules \cup
                        {[h |-> FreshHandle, ip |-> m[1], port |-> m[2], slot |-> m[3]]}
                /\ NoTrouble
             \/ UNCHANGED rules /\ Trouble
    /\ UNCHANGED <<blocked, port, pc, seen, doomed, asked, ops>>

\* Mutant: the handler answers while the deletions are still running.
FinishEarly(p) ==
    /\ pc[p] = "apply" /\ missing[p] = {}
    /\ pc' = [pc EXCEPT ![p] = "idle"]
    /\ apart' = [r \in Requests |-> r # p /\ apart[r]]
    /\ UNCHANGED <<blocked, port, rules, seen, doomed, missing, asked, ops, troubles>>

\* The handler answers.
Finish(p) ==
    /\ pc[p] = "apply" /\ doomed[p] = {} /\ missing[p] = {}
    /\ pc' = [pc EXCEPT ![p] = "idle"]
    /\ apart' = [r \in Requests |-> r # p /\ apart[r]]
    /\ UNCHANGED <<blocked, port, rules, seen, doomed, missing, asked, ops, troubles>>

-----------------------------------------------------------------------------
(* The environment *)

PassesLost ==
    /\ Trouble
    /\ pc' = [p \in Passes |-> "idle"]
    /\ seen' = [p \in Passes |-> {}]
    /\ doomed' = [p \in Passes |-> {}]
    /\ missing' = [p \in Passes |-> {}]
    /\ UNCHANGED <<blocked, port, asked, ops>>

\* The backend restarts; the rules stay in the kernel.
Restart == PassesLost /\ UNCHANGED rules

\* The host reboots: the table survives, the rules and their handles do not.
Reboot == PassesLost /\ rules' = {}

PassStep(p) == List(p) \/ Plan(p) \/ Delete(p) \/ Add(p) \/ Finish(p)

Next ==
    \/ \E r \in Requests, i \in Ips : Block(r, i) \/ Unblock(r, i)
    \/ \E t \in Timers : TimerFires(t)
    \/ \E n \in Ports : ChangePort(n)
    \/ \E p \in Passes : PassStep(p)
    \/ Restart \/ Reboot

\* nft commands carry a 30 s timeout, so a pass ends, and the timer fires again.
Fairness ==
    /\ \A p \in Passes : WF_vars(PassStep(p))
    /\ \A t \in Timers : WF_vars(TimerFires(t))

Spec == Init /\ [][Next]_vars /\ Fairness

-----------------------------------------------------------------------------
(* Properties *)

\* Every variable has its type.
TypeOK ==
    /\ blocked \subseteq Ips
    /\ port \in Ports
    /\ rules \subseteq Rules
    /\ pc \in [Passes -> {"idle", "list", "plan", "apply"}]
    /\ seen \in [Passes -> SUBSET Rules]
    /\ doomed \in [Passes -> SUBSET Rules]
    /\ missing \in [Passes -> SUBSET (Ips \X Ports \X Slots)]
    /\ asked \in [Requests -> Ips]
    /\ apart \in [Requests -> BOOLEAN]
    /\ ops \in 0..MaxOps /\ troubles \in 0..MaxTroubles

RulesOf(i) == {r \in rules : r.ip = i}

\* Whatever the passes did to each other, once requests stop a blocked address has
\* rules on the current port and on no other, and an unblocked one has none.
Settles ==
    <>[](\A i \in Ips : {r.port : r \in RulesOf(i)} = IF i \in blocked THEN {port} ELSE {})

\* A request that nothing overlapped answers truthfully: the address it unblocked
\* has no rule, the address it blocked has one.
QuietAnswer ==
    [][\A p \in Requests : apart[p] /\ Busy(p) /\ ~ Busy(p)' /\ troubles' = troubles =>
          IF asked[p] \in blocked THEN \E r \in RulesOf(asked[p]) : r.port = port
                                  ELSE RulesOf(asked[p]) = {}]_vars

\* Passes that overlap may each add a rule the others add too, and a listing that
\* fails hides one, but copies do not pile up beyond that.
CopiesBounded ==
    \A i \in Ips, n \in Ports, s \in Slots :
        Cardinality({r \in rules : r.ip = i /\ r.port = n /\ r.slot = s})
            <= Cardinality(Passes) + troubles
=============================================================================
