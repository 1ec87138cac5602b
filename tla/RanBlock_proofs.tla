--------------------------- MODULE RanBlock_proofs ---------------------------
(***************************************************************************)
(* Proofs about RanBlock: type correctness, and that a request that        *)
(* nothing overlapped answers truthfully, for any number of requests,      *)
(* timers, addresses, ports and failures.                                  *)
(***************************************************************************)
EXTENDS RanBlock, FiniteSetTheorems, TLAPS

(* The rules of the kernel, and those a pass knows, are finitely many.     *)
FinitelyMany ==
    /\ IsFiniteSet(rules)
    /\ \A p \in Passes : IsFiniteSet(seen[p]) /\ IsFiniteSet(doomed[p])

TypeInv == TypeOK /\ FinitelyMany

(***************************************************************************)
(* Type correctness.                                                       *)
(***************************************************************************)

LEMMA PassesFinite == IsFiniteSet(Passes) /\ Requests \subseteq Passes /\ Timers \subseteq Passes
BY PassesAssumption, FS_Union DEF Passes

\* There is a handle that no rule has.
LEMMA HandleFree ==
    ASSUME TypeInv
    PROVE  FreshHandle \in Nat \ {0}
<1> DEFINE held(p) == seen[p] \cup doomed[p]
           all == rules \cup UNION {held(p) : p \in Passes}
           known == {r.h : r \in all}
           some == 1..Cardinality(known) + 1
<1>1. \A p \in Passes : IsFiniteSet(held(p))
  BY FS_Union DEF TypeInv, FinitelyMany
<1>2. IsFiniteSet({held(p) : p \in Passes})
  <2> DEFINE f == [p \in Passes |-> held(p)]
             T == {held(p) : p \in Passes}
  <2>1. f \in Surjection(Passes, T)
    BY DEF Surjection
  <2> HIDE DEF f, T
  <2>2. IsFiniteSet(T)
    BY <2>1, PassesFinite, FS_Surjection
  <2> QED BY <2>2 DEF T
<1>3. IsFiniteSet(all)
  <2> DEFINE U == UNION {held(p) : p \in Passes}
  <2>1. IsFiniteSet(U)
    BY <1>1, <1>2, FS_UNION
  <2>2. IsFiniteSet(rules \cup U)
    <3> HIDE DEF U
    <3> QED BY <2>1, FS_Union DEF TypeInv, FinitelyMany
  <2> QED BY <2>2
<1>4. IsFiniteSet(known)
  <2> DEFINE g == [r \in all |-> r.h]
  <2>1. g \in Surjection(all, known)
    <3> HIDE DEF all
    <3> QED BY DEF Surjection
  <2> HIDE DEF g, known, all
  <2> QED BY <1>3, <2>1, FS_Surjection
<1> HIDE DEF known
<1>5. Cardinality(known) \in Nat
  BY <1>4, FS_CardinalityType
<1>6. Cardinality(some) = Cardinality(known) + 1
  BY <1>5, FS_Interval
<1>7. \E h \in some : h \notin known
  <2> SUFFICES ASSUME some \subseteq known PROVE FALSE
    OBVIOUS
  <2> HIDE DEF some
  <2> QED BY <1>4, <1>5, <1>6, FS_Subset
<1>8. FreshHandle = CHOOSE h \in some : h \notin known
  BY DEF FreshHandle, known
<1> HIDE DEF some
<1>9. FreshHandle \in some
  BY <1>7, <1>8
<1> QED BY <1>5, <1>9 DEF some

LEMMA TypeInit == Init => TypeInv
<1> USE PassesFinite, PassesAssumption, RanBoundsAssumption, FS_EmptySet
<1>1. Init => TypeOK
  BY DEF Init, TypeOK
<1>2. Init => FinitelyMany
  BY DEF Init, FinitelyMany
<1> QED BY <1>1, <1>2 DEF TypeInv

\* Nothing but a pass that adds makes a rule, and it makes one.
LEMMA FiniteStep ==
    ASSUME TypeInv, [Next]_vars
    PROVE  FinitelyMany'
<1> USE PassesFinite DEF TypeInv, TypeOK, FinitelyMany, pass, NoTrouble, Trouble
<1>1. ASSUME NEW r \in Requests, NEW i \in Ips, Block(r, i) \/ Unblock(r, i) PROVE FinitelyMany'
  BY <1>1 DEF Block, Unblock
<1>2. ASSUME NEW t \in Timers, TimerFires(t) PROVE FinitelyMany'
  BY <1>2 DEF TimerFires
<1>3. ASSUME NEW n \in Ports, ChangePort(n) PROVE FinitelyMany'
  BY <1>3 DEF ChangePort
<1>4. ASSUME NEW p \in Passes, List(p) PROVE FinitelyMany'
  BY <1>4, FS_EmptySet DEF List
<1>5. ASSUME NEW p \in Passes, Plan(p) PROVE FinitelyMany'
  <2> DEFINE gone == {r \in seen[p] : ~ Wanted(r)}
  <2>1. IsFiniteSet(gone)
    BY FS_Subset
  <2>2. doomed' = [doomed EXCEPT ![p] = gone] /\ seen' = [seen EXCEPT ![p] = {}] /\ rules' = rules
    BY <1>5 DEF Plan
  <2> HIDE DEF gone
  <2> QED BY <2>1, <2>2, FS_EmptySet
<1>6. ASSUME NEW p \in Passes, Delete(p) PROVE FinitelyMany'
  <2>1. PICK r \in doomed[p] : /\ doomed' = [doomed EXCEPT ![p] = @ \ {r}]
                               /\ rules' = rules \ {r} \/ rules' = rules
    BY <1>6 DEF Delete
  <2>2. IsFiniteSet(doomed[p] \ {r}) /\ IsFiniteSet(rules \ {r})
    BY FS_Subset
  <2> QED BY <1>6, <2>1, <2>2 DEF Delete
<1>7. ASSUME NEW p \in Passes, Add(p) PROVE FinitelyMany'
  <2>1. PICK x : rules' = rules \cup {x} \/ rules' = rules
    BY <1>7 DEF Add
  <2>2. IsFiniteSet(rules \cup {x})
    BY FS_AddElement
  <2>3. IsFiniteSet(rules')
    BY <2>1, <2>2
  <2> QED BY <1>7, <2>3 DEF Add
<1>8. ASSUME NEW p \in Passes, Finish(p) PROVE FinitelyMany'
  BY <1>8 DEF Finish
<1>9. ASSUME Restart \/ Reboot PROVE FinitelyMany'
  BY <1>9, FS_EmptySet DEF Restart, Reboot, PassesLost
<1>10. ASSUME UNCHANGED vars PROVE FinitelyMany'
  BY <1>10 DEF vars
<1> QED BY <1>1, <1>2, <1>3, <1>4, <1>5, <1>6, <1>7, <1>8, <1>9, <1>10 DEF Next, PassStep

LEMMA TroubleTyped ==
    ASSUME TypeOK, NoTrouble \/ Trouble
    PROVE  troubles' \in 0..MaxTroubles /\ apart' \in [Requests -> BOOLEAN]
<1>1. CASE NoTrouble
  BY <1>1 DEF TypeOK, NoTrouble
<1>2. CASE Trouble
  BY <1>2, RanBoundsAssumption DEF TypeOK, Trouble
<1> QED BY <1>1, <1>2

LEMMA TypeStep ==
    ASSUME TypeInv, [Next]_vars
    PROVE  TypeOK'
<1> USE PassesFinite, PassesAssumption, RanBoundsAssumption
        DEF TypeInv, TypeOK, pass, Begin, Busy
<1>1. ASSUME NEW r \in Requests, NEW i \in Ips, Block(r, i) PROVE TypeOK'
  BY <1>1 DEF Block
<1>2. ASSUME NEW r \in Requests, NEW i \in Ips, Unblock(r, i) PROVE TypeOK'
  BY <1>2 DEF Unblock
<1>3. ASSUME NEW t \in Timers, TimerFires(t) PROVE TypeOK'
  BY <1>3 DEF TimerFires
<1>4. ASSUME NEW n \in Ports, ChangePort(n) PROVE TypeOK'
  BY <1>4, TroubleTyped DEF ChangePort
<1>5. ASSUME NEW p \in Passes, List(p) PROVE TypeOK'
  <2>1. NoTrouble \/ Trouble
    BY <1>5 DEF List
  <2>2. seen' \in [Passes -> SUBSET Rules]
    BY <1>5 DEF List
  <2> QED BY <1>5, <2>1, <2>2, TroubleTyped DEF List
<1>6. ASSUME NEW p \in Passes, Plan(p) PROVE TypeOK'
  BY <1>6 DEF Plan
<1>7. ASSUME NEW p \in Passes, Delete(p) PROVE TypeOK'
  <2>1. NoTrouble \/ Trouble
    BY <1>7 DEF Delete
  <2>2. doomed' \in [Passes -> SUBSET Rules] /\ rules' \subseteq rules
    BY <1>7 DEF Delete
  <2> QED BY <1>7, <2>1, <2>2, TroubleTyped DEF Delete
<1>8. ASSUME NEW p \in Passes, Add(p) PROVE TypeOK'
  <2>1. PICK m \in missing[p] :
            /\ missing' = [missing EXCEPT ![p] = @ \ {m}]
            /\ \/ /\ rules' = rules \cup
                        {[h |-> FreshHandle, ip |-> m[1], port |-> m[2], slot |-> m[3]]}
                  /\ NoTrouble
               \/ UNCHANGED rules /\ Trouble
    BY <1>8 DEF Add
  <2>2. m[1] \in Ips /\ m[2] \in Ports /\ m[3] \in Slots
    BY <2>1
  <2>3. [h |-> FreshHandle, ip |-> m[1], port |-> m[2], slot |-> m[3]] \in Rules
    BY <2>2, HandleFree DEF Rules
  <2>4. rules' \subseteq Rules
    BY <2>1, <2>3
  <2>5. NoTrouble \/ Trouble
    BY <2>1
  <2>6. missing' \in [Passes -> SUBSET (Ips \X Ports \X Slots)]
    BY <2>1
  <2> QED BY <1>8, <2>4, <2>5, <2>6, TroubleTyped DEF Add
<1>9. ASSUME NEW p \in Passes, Finish(p) PROVE TypeOK'
  BY <1>9 DEF Finish
<1>10. ASSUME Restart \/ Reboot PROVE TypeOK'
  <2>1. PassesLost /\ (rules' = rules \/ rules' = {})
    BY <1>10 DEF Restart, Reboot
  <2> QED BY <2>1, TroubleTyped DEF PassesLost
<1>11. ASSUME UNCHANGED vars PROVE TypeOK'
  BY <1>11 DEF vars
<1> QED BY <1>1, <1>2, <1>3, <1>4, <1>5, <1>6, <1>7, <1>8, <1>9, <1>10, <1>11 DEF Next, PassStep

LEMMA TypeInvariant == Spec => []TypeInv
<1>1. Init => TypeInv
  BY TypeInit
<1>2. TypeInv /\ [Next]_vars => TypeInv'
  BY TypeStep, FiniteStep DEF TypeInv
<1> QED BY <1>1, <1>2, PTL DEF Spec

\* Every variable has its type, the handles of the rules included: there is always one that no rule
\* has (radio-block-service.ts:77-119).
THEOREM TypeCorrect == Spec => []TypeOK
<1>1. TypeInv => TypeOK
  BY DEF TypeInv
<1> QED BY <1>1, TypeInvariant, PTL

(***************************************************************************)
(* A request by itself answers truthfully.                                 *)
(***************************************************************************)

(* What a request by itself knows is what the kernel has: from its plan on *)
(* a rule is wanted or on its way out, what is missing is wanted, and the  *)
(* address that was blocked has a rule or gets one.                        *)
PlanTrue(r) ==
    /\ \A x \in rules : Wanted(x) \/ x \in doomed[r]
    /\ \A x \in doomed[r] : ~ Wanted(x)
    /\ \A m \in missing[r] : m[1] \in blocked /\ m[2] = port
    /\ asked[r] \in blocked => \/ \E x \in rules : x.ip = asked[r] /\ x.port = port
                              \/ \E m \in missing[r] : m[1] = asked[r]

ApartTrue ==
    \A r \in Requests : apart[r] =>
        /\ \A q \in Passes \ {r} : pc[q] = "idle"
        /\ pc[r] = "plan" => seen[r] = rules
        /\ pc[r] = "apply" => PlanTrue(r)

LEMMA ApartInit == Init => ApartTrue
BY DEF Init, ApartTrue

LEMMA ApartStep ==
    ASSUME TypeInv, ApartTrue, [Next]_vars
    PROVE  ApartTrue'
<1> USE PassesFinite DEF TypeInv, TypeOK, ApartTrue, pass, NoTrouble, Trouble, Begin, Busy
<1>1. ASSUME NEW r \in Requests, NEW i \in Ips, Block(r, i) PROVE ApartTrue'
  BY <1>1 DEF Block
<1>2. ASSUME NEW r \in Requests, NEW i \in Ips, Unblock(r, i) PROVE ApartTrue'
  BY <1>2 DEF Unblock
<1>3. ASSUME NEW t \in Timers, TimerFires(t) PROVE ApartTrue'
  BY <1>3, PassesAssumption DEF TimerFires
<1>4. ASSUME NEW n \in Ports, ChangePort(n) PROVE ApartTrue'
  BY <1>4 DEF ChangePort
<1>5. ASSUME NEW p \in Passes, List(p) PROVE ApartTrue'
  BY <1>5 DEF List
<1>6. ASSUME NEW p \in Passes, Plan(p) PROVE ApartTrue'
  <2> SUFFICES ASSUME NEW r \in Requests, apart[r], p = r PROVE PlanTrue(r)'
    BY <1>6 DEF Plan
  <2>1. /\ doomed'[r] = {x \in rules : ~ Wanted(x)}
        /\ missing'[r] = {i \in blocked : ~ Installed(rules, i)} \X {port} \X Slots
        /\ UNCHANGED <<blocked, port, rules, asked>>
    BY <1>6 DEF Plan
  <2>2. (\A x \in rules : Wanted(x) \/ x \in doomed[r])' /\ (\A x \in doomed[r] : ~ Wanted(x))'
    BY <2>1 DEF Wanted
  <2>3. \A m \in missing'[r] : m[1] \in blocked /\ m[2] = port
    BY <2>1
  <2>4. ASSUME asked[r] \in blocked, ~ Installed(rules, asked[r])
        PROVE  \E m \in missing'[r] : m[1] = asked[r]
    <3>1. PICK s \in Slots : TRUE
      BY PassesAssumption
    <3>2. <<asked[r], port, s>> \in missing'[r]
      BY <2>1, <2>4
    <3> QED BY <3>2
  <2> QED BY <2>1, <2>2, <2>3, <2>4 DEF PlanTrue, Installed
<1>7. ASSUME NEW p \in Passes, Delete(p) PROVE ApartTrue'
  <2> SUFFICES ASSUME NEW r \in Requests, apart'[r], p = r PROVE PlanTrue(r)'
    BY <1>7 DEF Delete
  <2> QED BY <1>7 DEF Delete, PlanTrue, Wanted
<1>8. ASSUME NEW p \in Passes, Add(p) PROVE ApartTrue'
  <2> SUFFICES ASSUME NEW r \in Requests, apart'[r], p = r PROVE PlanTrue(r)'
    BY <1>8 DEF Add
  <2>1. apart[r] /\ pc[r] = "apply" /\ PlanTrue(r) /\ UNCHANGED <<blocked, port, doomed, asked>>
    BY <1>8 DEF Add
  <2>2. PICK m \in missing[r] :
            /\ missing'[r] = missing[r] \ {m}
            /\ \E x : x.ip = m[1] /\ x.port = m[2] /\ rules' = rules \cup {x}
    BY <1>8 DEF Add
  <2>3. PICK x : x.ip = m[1] /\ x.port = m[2] /\ rules' = rules \cup {x}
    BY <2>2
  <2> QED BY <2>1, <2>2, <2>3 DEF PlanTrue, Wanted
<1>9. ASSUME NEW p \in Passes, Finish(p) PROVE ApartTrue'
  BY <1>9 DEF Finish
<1>10. ASSUME Restart \/ Reboot PROVE ApartTrue'
  BY <1>10 DEF Restart, Reboot, PassesLost
<1>11. ASSUME UNCHANGED vars PROVE ApartTrue'
  BY <1>11 DEF vars, PlanTrue, Wanted
<1> QED BY <1>1, <1>2, <1>3, <1>4, <1>5, <1>6, <1>7, <1>8, <1>9, <1>10, <1>11 DEF Next, PassStep

LEMMA ApartInvariant == Spec => [](TypeInv /\ ApartTrue)
<1>1. Init => TypeInv /\ ApartTrue
  BY TypeInit, ApartInit
<1>2. TypeInv /\ ApartTrue /\ [Next]_vars => (TypeInv /\ ApartTrue)'
  BY TypeStep, FiniteStep, ApartStep DEF TypeInv
<1> QED BY <1>1, <1>2, PTL DEF Spec

QuietAnswerStep ==
    \A p \in Requests : apart[p] /\ Busy(p) /\ ~ Busy(p)' /\ troubles' = troubles =>
        IF asked[p] \in blocked THEN \E r \in RulesOf(asked[p]) : r.port = port
                                ELSE RulesOf(asked[p]) = {}

LEMMA AnswerStep ==
    ASSUME TypeInv, ApartTrue, [Next]_vars
    PROVE  QuietAnswerStep
<1> SUFFICES ASSUME NEW r \in Requests, apart[r], pc[r] # "idle", pc'[r] = "idle", troubles' = troubles
             PROVE  IF asked[r] \in blocked THEN \E x \in RulesOf(asked[r]) : x.port = port
                                            ELSE RulesOf(asked[r]) = {}
  BY DEF QuietAnswerStep, Busy
<1>1. ~ Trouble
  BY DEF Trouble, TypeInv, TypeOK
<1>2. Finish(r)
  <2>1. ASSUME NEW p \in Passes, List(p) \/ Plan(p) \/ Delete(p) \/ Add(p) PROVE FALSE
    BY <2>1, PassesFinite DEF List, Plan, Delete, Add, TypeInv, TypeOK
  <2>2. ASSUME NEW p \in Passes, Finish(p), p # r PROVE FALSE
    BY <2>2, PassesFinite DEF Finish, TypeInv, TypeOK
  <2>3. ASSUME NEW p \in Requests, NEW i \in Ips, Block(p, i) \/ Unblock(p, i) PROVE FALSE
    BY <2>3, PassesFinite DEF Block, Unblock, Begin, TypeInv, TypeOK
  <2>4. ASSUME NEW t \in Timers, TimerFires(t) PROVE FALSE
    BY <2>4, PassesFinite DEF TimerFires, Begin, TypeInv, TypeOK
  <2>5. ~ Restart /\ ~ Reboot /\ \A n \in Ports : ~ ChangePort(n)
    BY <1>1 DEF Restart, Reboot, PassesLost, ChangePort
  <2>6. ~ UNCHANGED vars
    BY DEF vars
  <2> QED BY <2>1, <2>2, <2>3, <2>4, <2>5, <2>6 DEF Next, PassStep
<1>3. PlanTrue(r) /\ doomed[r] = {} /\ missing[r] = {}
  BY <1>2 DEF Finish, ApartTrue
<1> QED BY <1>3 DEF PlanTrue, Wanted, RulesOf

\* A request that nothing overlapped answers truthfully: the address it unblocked has no rule, the
\* address it blocked has one (radio-block-service.ts:126-155).
THEOREM AnswerTheorem == Spec => QuietAnswer
<1>1. TypeInv /\ ApartTrue /\ [Next]_vars => [QuietAnswerStep]_vars
  BY AnswerStep
<1> QED BY <1>1, ApartInvariant, PTL DEF Spec, QuietAnswer, QuietAnswerStep

(***************************************************************************)
(* Copies of a rule do not pile up.                                        *)
(***************************************************************************)

Copies(i, n, s) == {r \in rules : r.ip = i /\ r.port = n /\ r.slot = s}

(* The passes that may still add a rule there is: they did not see it.     *)
Blind(i, n, s) ==
    {p \in Passes : \/ pc[p] = "plan" /\ \A r \in seen[p] : ~ (r.ip = i /\ r.port = n)
                    \/ <<i, n, s>> \in missing[p]}

PassesTidy == \A p \in Passes : missing[p] # {} => pc[p] = "apply"

(* A copy costs the pass that adds it, and only trouble makes a pass blind *)
(* again while there is a copy.                                            *)
Paid(i, n, s) ==
    Cardinality(Copies(i, n, s)) + Cardinality(Blind(i, n, s)) <= Cardinality(Passes) + troubles

CopiesPaid == \A i \in Ips, n \in Ports, s \in Slots : Paid(i, n, s)

LEMMA TidyStep ==
    ASSUME TypeInv, PassesTidy, [Next]_vars
    PROVE  PassesTidy'
<1> USE PassesFinite DEF TypeInv, TypeOK, PassesTidy, pass, Begin, Busy
<1>1. ASSUME NEW r \in Requests, NEW i \in Ips, Block(r, i) \/ Unblock(r, i) PROVE PassesTidy'
  BY <1>1 DEF Block, Unblock
<1>2. ASSUME NEW t \in Timers, TimerFires(t) PROVE PassesTidy'
  BY <1>2 DEF TimerFires
<1>3. ASSUME NEW n \in Ports, ChangePort(n) PROVE PassesTidy'
  BY <1>3 DEF ChangePort
<1>4. ASSUME NEW p \in Passes, List(p) \/ Plan(p) \/ Delete(p) \/ Add(p) \/ Finish(p) PROVE PassesTidy'
  BY <1>4 DEF List, Plan, Delete, Add, Finish
<1>5. ASSUME Restart \/ Reboot PROVE PassesTidy'
  BY <1>5 DEF Restart, Reboot, PassesLost
<1>6. ASSUME UNCHANGED vars PROVE PassesTidy'
  BY <1>6 DEF vars
<1> QED BY <1>1, <1>2, <1>3, <1>4, <1>5, <1>6 DEF Next, PassStep

LEMMA OneMore ==
    ASSUME NEW S, IsFiniteSet(S), NEW x, NEW T, T \subseteq S \cup {x}
    PROVE  Cardinality(T) <= Cardinality(S) + 1
<1>1. IsFiniteSet(S \cup {x})
  BY FS_AddElement
<1>2. Cardinality(S \cup {x}) = Cardinality(S) \/ Cardinality(S \cup {x}) = Cardinality(S) + 1
  BY FS_AddElement
<1>3. Cardinality(T) <= Cardinality(S \cup {x}) /\ IsFiniteSet(T)
  BY <1>1, FS_Subset
<1>4. Cardinality(T) \in Nat /\ Cardinality(S) \in Nat
  BY <1>3, FS_CardinalityType
<1> QED BY <1>2, <1>3, <1>4

LEMMA SetsFinite ==
    ASSUME TypeInv, NEW i, NEW n, NEW s
    PROVE  /\ IsFiniteSet(Copies(i, n, s)) /\ Cardinality(Copies(i, n, s)) \in Nat
           /\ IsFiniteSet(Blind(i, n, s)) /\ Cardinality(Blind(i, n, s)) \in Nat
           /\ Cardinality(Blind(i, n, s)) <= Cardinality(Passes)
           /\ Cardinality(Passes) \in Nat /\ troubles \in Nat
<1>1. Copies(i, n, s) \in SUBSET rules /\ Blind(i, n, s) \in SUBSET Passes
  BY DEF Copies, Blind
<1>2. IsFiniteSet(rules) /\ IsFiniteSet(Passes) /\ troubles \in Nat
  BY PassesFinite DEF TypeInv, FinitelyMany, TypeOK
<1> QED BY <1>1, <1>2, FS_Subset, FS_CardinalityType

LEMMA SetsFiniteNext ==
    ASSUME TypeInv', NEW i, NEW n, NEW s
    PROVE  /\ IsFiniteSet(Copies(i, n, s)') /\ Cardinality(Copies(i, n, s)') \in Nat
           /\ IsFiniteSet(Blind(i, n, s)') /\ Cardinality(Blind(i, n, s)') \in Nat
           /\ Cardinality(Blind(i, n, s)') <= Cardinality(Passes) /\ troubles' \in Nat
<1>1. Copies(i, n, s)' \in SUBSET rules' /\ Blind(i, n, s)' \in SUBSET Passes
  BY DEF Copies, Blind
<1>2. IsFiniteSet(rules') /\ IsFiniteSet(Passes) /\ troubles' \in Nat
  BY PassesFinite DEF TypeInv, FinitelyMany, TypeOK
<1> QED BY <1>1, <1>2, FS_Subset, FS_CardinalityType

\* A step that adds no copy and blinds no pass.
LEMMA NoMore ==
    ASSUME TypeInv, TypeInv', CopiesPaid, NEW i \in Ips, NEW n \in Ports, NEW s \in Slots,
           Copies(i, n, s)' \subseteq Copies(i, n, s), Blind(i, n, s)' \subseteq Blind(i, n, s),
           troubles' >= troubles
    PROVE  Paid(i, n, s)'
<1> DEFINE C == Copies(i, n, s)
           D == Copies(i, n, s)'
           B == Blind(i, n, s)
           E == Blind(i, n, s)'
<1>1. /\ IsFiniteSet(C) /\ IsFiniteSet(B) /\ Cardinality(C) \in Nat /\ Cardinality(B) \in Nat
      /\ Cardinality(Passes) \in Nat /\ troubles \in Nat /\ troubles' \in Nat
      /\ Cardinality(D) \in Nat /\ Cardinality(E) \in Nat
      /\ Cardinality(C) + Cardinality(B) <= Cardinality(Passes) + troubles
  BY SetsFinite, SetsFiniteNext DEF CopiesPaid, Paid
<1>2. D \subseteq C /\ E \subseteq B
  OBVIOUS
<1> HIDE DEF C, D, B, E
<1>3. Cardinality(D) <= Cardinality(C) /\ Cardinality(E) <= Cardinality(B)
  BY <1>1, <1>2, FS_Subset
<1>4. Cardinality(D) + Cardinality(E) <= Cardinality(Passes) + troubles'
  BY <1>1, <1>3
<1> QED BY <1>4 DEF D, E, Paid

\* A step that begins while there is no copy and adds none.
LEMMA FirstCopy ==
    ASSUME TypeInv, TypeInv', NEW i \in Ips, NEW n \in Ports, NEW s \in Slots, Copies(i, n, s)' = {}
    PROVE  Paid(i, n, s)'
BY SetsFinite, SetsFiniteNext, FS_EmptySet DEF Paid

\* A pass lists the rules.
LEMMA PaidList ==
    ASSUME TypeInv, TypeInv', CopiesPaid, PassesTidy, NEW p \in Passes, List(p),
           NEW i \in Ips, NEW n \in Ports, NEW s \in Slots
    PROVE  Paid(i, n, s)'
<1> USE DEF TypeInv, TypeOK
<1>1. Copies(i, n, s)' = Copies(i, n, s)
  BY DEF List, Copies
<1>2. ASSUME NoTrouble, seen' = [seen EXCEPT ![p] = rules], Copies(i, n, s) # {}
      PROVE  Paid(i, n, s)'
  <2>1. Blind(i, n, s)' \subseteq Blind(i, n, s)
    BY <1>2 DEF List, Blind, Copies
  <2> QED BY <1>1, <1>2, <2>1, NoMore DEF NoTrouble
<1>3. ASSUME Trouble
      PROVE  Paid(i, n, s)'
  <2> DEFINE B == Blind(i, n, s)
             E == Blind(i, n, s)'
  <2>1. E \subseteq B \cup {p}
    BY DEF List, Blind
  <2>2. IsFiniteSet(B) /\ IsFiniteSet(E) /\ Cardinality(B) \in Nat /\ Cardinality(E) \in Nat
    BY SetsFinite, SetsFiniteNext
  <2>3. Cardinality(E) <= Cardinality(B) + 1
    <3> HIDE DEF B, E
    <3> QED BY <2>1, <2>2, OneMore
  <2>4. troubles' = troubles + 1
    BY <1>3 DEF Trouble
  <2>5. Cardinality(Copies(i, n, s)) + Cardinality(B) <= Cardinality(Passes) + troubles
    BY DEF CopiesPaid, Paid
  <2> HIDE DEF TypeInv, TypeOK
  <2> QED BY <1>1, <2>2, <2>3, <2>4, <2>5, SetsFinite DEF Paid
<1>4. CASE Copies(i, n, s) = {}
  BY <1>1, <1>4, FirstCopy
<1>5. \/ NoTrouble /\ seen' = [seen EXCEPT ![p] = rules]
      \/ Trouble
  BY DEF List
<1> QED BY <1>2, <1>3, <1>4, <1>5

\* A pass adds a rule.
LEMMA PaidAdd ==
    ASSUME TypeInv, TypeInv', CopiesPaid, PassesTidy, NEW p \in Passes, Add(p),
           NEW i \in Ips, NEW n \in Ports, NEW s \in Slots
    PROVE  Paid(i, n, s)'
<1> USE DEF TypeInv, TypeOK
<1>1. PICK m \in missing[p] :
          /\ missing' = [missing EXCEPT ![p] = @ \ {m}]
          /\ \/ rules' = rules \cup
                    {[h |-> FreshHandle, ip |-> m[1], port |-> m[2], slot |-> m[3]]}
             \/ rules' = rules
  BY DEF Add
<1>2. troubles' >= troubles
  BY DEF Add, NoTrouble, Trouble
<1>3. Blind(i, n, s)' \subseteq Blind(i, n, s)
  BY <1>1 DEF Add, Blind
<1>4. CASE m # <<i, n, s>> \/ rules' = rules
  <2>1. m = <<m[1], m[2], m[3]>>
    BY <1>1
  <2>2. Copies(i, n, s)' \subseteq Copies(i, n, s)
    BY <1>1, <1>4, <2>1 DEF Copies
  <2> QED BY <1>2, <1>3, <2>2, NoMore
<1>5. ASSUME m = <<i, n, s>>, rules' # rules
      PROVE  Paid(i, n, s)'
  <2> DEFINE C == Copies(i, n, s)
             D == Copies(i, n, s)'
             B == Blind(i, n, s)
             E == Blind(i, n, s)'
             x == [h |-> FreshHandle, ip |-> m[1], port |-> m[2], slot |-> m[3]]
  <2>1. D \subseteq C \cup {x}
    BY <1>1, <1>5 DEF Copies
  <2>2. p \in B /\ p \notin E
    <3>1. pc[p] = "apply" /\ pc' = pc
      BY DEF Add
    <3>2. <<i, n, s>> \in missing[p] /\ <<i, n, s>> \notin missing'[p]
      BY <1>1, <1>5
    <3> QED BY <3>1, <3>2 DEF Blind
  <2>3. /\ IsFiniteSet(B) /\ IsFiniteSet(C) /\ Cardinality(B) \in Nat /\ Cardinality(C) \in Nat
        /\ Cardinality(D) \in Nat /\ Cardinality(E) \in Nat /\ E \subseteq B
        /\ Cardinality(C) + Cardinality(B) <= Cardinality(Passes) + troubles
        /\ troubles \in Nat /\ troubles' \in Nat /\ Cardinality(Passes) \in Nat
    BY <1>3, SetsFinite, SetsFiniteNext DEF CopiesPaid, Paid
  <2> HIDE DEF B, C, D, E, x, TypeInv, TypeOK
  <2>4. Cardinality(D) <= Cardinality(C) + 1
    <3> QED BY <2>1, <2>3, OneMore
  <2>5. Cardinality(E) + 1 <= Cardinality(B)
    <3>1. E \subseteq B \ {p} /\ IsFiniteSet(B \ {p}) /\ Cardinality(B \ {p}) = Cardinality(B) - 1
      BY <2>2, <2>3, FS_RemoveElement
    <3>2. Cardinality(E) <= Cardinality(B \ {p})
      BY <3>1, FS_Subset
    <3> QED BY <2>3, <3>1, <3>2
  <2>6. Cardinality(D) + Cardinality(E) <= Cardinality(Passes) + troubles'
    BY <1>2, <2>3, <2>4, <2>5
  <2> QED BY <2>6 DEF D, E, Paid
<1> QED BY <1>4, <1>5

LEMMA PaidStep ==
    ASSUME TypeInv, TypeInv', CopiesPaid, PassesTidy, [Next]_vars
    PROVE  CopiesPaid'
<1> SUFFICES ASSUME NEW i \in Ips, NEW n \in Ports, NEW s \in Slots
             PROVE  Paid(i, n, s)'
  BY DEF CopiesPaid, Paid
<1> DEFINE Less == /\ Copies(i, n, s)' \subseteq Copies(i, n, s)
                   /\ Blind(i, n, s)' \subseteq Blind(i, n, s)
                   /\ troubles' >= troubles
<1> USE DEF Copies, Blind, TypeInv, TypeOK, pass, NoTrouble, Trouble, Begin, Busy
<1>1. ASSUME NEW r \in Requests, NEW j \in Ips, Block(r, j) \/ Unblock(r, j) PROVE Less
  BY <1>1, PassesFinite DEF Block, Unblock
<1>2. ASSUME NEW t \in Timers, TimerFires(t) PROVE Less
  BY <1>2, PassesFinite DEF TimerFires
<1>3. ASSUME NEW m \in Ports, ChangePort(m) PROVE Less
  BY <1>3 DEF ChangePort
<1>4. ASSUME NEW p \in Passes, Plan(p) PROVE Less
  BY <1>4 DEF Plan, PassesTidy, Installed
<1>5. ASSUME NEW p \in Passes, Delete(p) PROVE Less
  BY <1>5 DEF Delete
<1>6. ASSUME NEW p \in Passes, Finish(p) PROVE Less
  BY <1>6 DEF Finish
<1>7. ASSUME Restart \/ Reboot PROVE Less
  BY <1>7 DEF Restart, Reboot, PassesLost
<1>8. ASSUME UNCHANGED vars PROVE Less
  BY <1>8 DEF vars
<1>9. Less \/ \E p \in Passes : List(p) \/ Add(p)
  <2> HIDE DEF Less
  <2> QED BY <1>1, <1>2, <1>3, <1>4, <1>5, <1>6, <1>7, <1>8 DEF Next, PassStep
<1> QED BY <1>9, NoMore, PaidList, PaidAdd

\* Passes that overlap may each add a rule the others add too, and a listing that fails hides one,
\* but copies do not pile up beyond that (radio-block-service.ts:97-140).
THEOREM CopiesTheorem == Spec => []CopiesBounded
<1>1. Init => CopiesPaid /\ PassesTidy
  <2> SUFFICES ASSUME Init PROVE CopiesPaid /\ PassesTidy
    OBVIOUS
  <2>1. PassesTidy
    BY DEF Init, PassesTidy
  <2>2. \A i \in Ips, n \in Ports, s \in Slots : Copies(i, n, s) = {} /\ Blind(i, n, s) = {}
    BY DEF Init, Copies, Blind
  <2>3. troubles = 0 /\ Cardinality(Passes) \in Nat
    BY PassesFinite, FS_CardinalityType DEF Init
  <2> QED BY <2>1, <2>2, <2>3, FS_EmptySet DEF CopiesPaid, Paid
<1>2. TypeInv /\ TypeInv' /\ CopiesPaid /\ PassesTidy /\ [Next]_vars => (CopiesPaid /\ PassesTidy)'
  BY PaidStep, TidyStep
<1>3. TypeInv /\ CopiesPaid => CopiesBounded
  <2> SUFFICES ASSUME TypeInv, CopiesPaid, NEW i \in Ips, NEW n \in Ports, NEW s \in Slots
               PROVE  Cardinality(Copies(i, n, s)) <= Cardinality(Passes) + troubles
    BY DEF CopiesBounded, Copies
  <2> QED BY SetsFinite DEF CopiesPaid, Paid
<1> QED BY <1>1, <1>2, <1>3, TypeInvariant, PTL DEF Spec
=============================================================================
