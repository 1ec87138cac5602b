--------------------------- MODULE CdrSync_proofs ---------------------------
(***************************************************************************)
(* Proofs about CdrSync: type correctness; that no position that is saved  *)
(* has passed over a line of its file or a row of its table; and that the  *)
(* end of a call is not taken away by a pass that runs by itself: for any  *)
(* number of passes, sources, calls, inputs and failures.                  *)
(***************************************************************************)
EXTENDS CdrSync, WellFoundedInduction, TLAPS

Labels == {Idle, "source", "line", "acc", "missed_calls", "calls", "call", "save"}

Files == [gen : Nat, whole : Nat, half : BOOLEAN]
Chunks == [of : SUBSET Sources, gen : Nat, next : Nat, last : Nat, fits : BOOLEAN]
CallsAtHand == [todo : SUBSET Calls, now : SUBSET Calls, doc : Docs]
Rows == [call : Calls, method : Methods]

(* The sources: every generation, line and half line has taken an input.   *)
WorldTyped ==
    /\ file \in [Sources -> Files]
    /\ rows \in [Tables -> Seq(Rows)]
    /\ visible \in [Tables -> SUBSET Nat]
    /\ \A t \in Tables : visible[t] \subseteq DOMAIN rows[t]
    /\ accounting \in BOOLEAN
    /\ inputs \in 0..MaxInputs
    /\ \A s \in Sources :
        /\ file[s].gen <= inputs
        /\ file[s].whole + (IF file[s].half THEN 1 ELSE 0) <= inputs

IndexTyped ==
    /\ stored \subseteq Sources \X (0..MaxInputs) \X (1..MaxInputs)
    /\ doc \in [Calls -> Docs]
    /\ saved = Torn \/ saved \in Positions
    /\ troubles \in 0..MaxTroubles

(* The passes: the domains and ranges of what they hold, and that they     *)
(* store lines the sources have written.                                   *)
PassesTyped ==
    /\ pc \in [Passes -> Labels]
    /\ cur \in [Passes -> Positions]
    /\ left \in [Passes -> SUBSET Sources]
    /\ chunk \in [Passes -> Chunks]
    /\ got \in [Passes -> [Tables -> Nat]]
    /\ touched \in [Passes -> CallsAtHand]
    /\ unanswered \in [Passes -> SUBSET Calls]

PassesProper ==
    \A p \in Passes :
        /\ chunk[p].gen <= MaxInputs /\ chunk[p].last <= MaxInputs
        /\ chunk[p].next >= 1
        /\ pc[p] = "line" <=> chunk[p].next <= chunk[p].last
        /\ pc[p] = "call" <=> touched[p].now # {}
        /\ pc[p] = Idle => cur[p] = Start

TypeInv == WorldTyped /\ IndexTyped /\ PassesTyped /\ PassesProper

(***************************************************************************)
(* Type correctness.                                                       *)
(***************************************************************************)

LEMMA StartTyped == Start \in Positions /\ Start.ids \in [Tables -> Nat]
BY DEF Start, Positions, Tables

LEMMA EmptyTyped == NoChunk \in Chunks /\ NoCall \in CallsAtHand
BY DEF NoChunk, NoCall, Chunks, CallsAtHand, Docs

\* A set of row numbers of a table has a largest member.
LEMMA LargestId ==
    ASSUME NEW n \in Nat, NEW ids \in SUBSET (1..n), ids # {}
    PROVE  Max(ids) \in ids /\ \A i \in ids : i <= Max(ids)
<1> DEFINE down == {n - i : i \in ids}
<1>1. down \subseteq Nat
  OBVIOUS
<1>2. down # {}
  <2>1. PICK i \in ids : TRUE
    OBVIOUS
  <2> QED BY <2>1
<1>3. PICK d \in down : \A e \in down : <<e, d>> \notin OpToRel(<, Nat)
  BY <1>1, <1>2, NatLessThanWellFounded, WFMin
<1>4. PICK m \in ids : d = n - m
  BY <1>3
<1>5. \A i \in ids : i <= m
  <2> SUFFICES ASSUME NEW i \in ids, i > m PROVE FALSE
    OBVIOUS
  <2>1. n - i \in down /\ n - i < d /\ n - i \in Nat /\ d \in Nat
    BY <1>1, <1>4
  <2> QED BY <1>3, <2>1 DEF OpToRel
<1> QED BY <1>5 DEF Max

LEMMA TypeInit == Init => TypeInv
<1> SUFFICES ASSUME Init PROVE TypeInv
  OBVIOUS
<1>1. WorldTyped
  BY CdrBoundsAssumption DEF Init, WorldTyped, Files, Tables
<1>2. IndexTyped
  BY StartTyped, CdrBoundsAssumption DEF Init, IndexTyped, Docs
<1>3. PassesTyped
  BY StartTyped, EmptyTyped DEF Init, PassesTyped, Labels
<1>4. PassesProper
  BY CdrBoundsAssumption DEF Init, PassesProper, NoChunk, NoCall, Idle
<1> QED BY <1>1, <1>2, <1>3, <1>4 DEF TypeInv

\* The rows a query returns are rows of the table, and so are their calls.
LEMMA FetchTyped ==
    ASSUME TypeInv, NEW p \in Passes, NEW t \in Tables
    PROVE  /\ LastId(NewRows(p, t)) \in Nat
           /\ CallsOf(t, NewRows(p, t)) \subseteq Calls
<1>1. NewRows(p, t) \subseteq DOMAIN rows[t] /\ rows[t] \in Seq(Rows)
  BY DEF TypeInv, WorldTyped, NewRows
<1>2. CallsOf(t, NewRows(p, t)) \subseteq Calls
  <2> SUFFICES ASSUME NEW i \in NewRows(p, t) PROVE rows[t][i].call \in Calls
    BY DEF CallsOf
  <2>1. rows[t][i] \in Rows
    BY <1>1
  <2> QED BY <2>1 DEF Rows
<1>3. LastId(NewRows(p, t)) \in Nat
  <2>1. CASE NewRows(p, t) = {}
    BY <2>1 DEF LastId
  <2>2. CASE NewRows(p, t) # {}
    <3>1. Len(rows[t]) \in Nat /\ NewRows(p, t) \in SUBSET (1..Len(rows[t]))
      BY <1>1
    <3>2. Max(NewRows(p, t)) \in NewRows(p, t)
      BY <2>2, <3>1, LargestId
    <3> QED BY <2>2, <3>1, <3>2 DEF LastId
  <2> QED BY <2>1, <2>2
<1> QED BY <1>2, <1>3

\* The label after a file is the next file, the tables or the end.
LEMMA NextLabel ==
    ASSUME TypeInv, NEW p \in Passes, NEW rest, GotoNext(p, rest)
    PROVE  /\ pc' \in [Passes -> Labels]
           /\ pc'[p] \in {"source", "acc", "save"}
           /\ \A q \in Passes \ {p} : pc'[q] = pc[q]
BY DEF TypeInv, PassesTyped, GotoNext, Goto, Labels

\* The end of a pass clears its locals and nobody else's.
LEMMA EndTyped ==
    ASSUME TypeInv, NEW p \in Passes, End(p)
    PROVE  PassesTyped' /\ PassesProper'
<1>1. PassesTyped'
  BY StartTyped, EmptyTyped DEF TypeInv, PassesTyped, End, Goto, Labels
<1>2. PassesProper'
  BY CdrBoundsAssumption
  DEF TypeInv, PassesTyped, PassesProper, End, Goto, NoChunk, NoCall, Idle
<1> QED BY <1>1, <1>2

\* A step of a pass leaves the sources, and a step of the sources the passes.
LEMMA WorldKept == WorldTyped /\ UNCHANGED world => WorldTyped'
BY DEF WorldTyped, world

LEMMA PassesKept ==
    PassesTyped /\ PassesProper /\ UNCHANGED <<pc, local>>
        => PassesTyped' /\ PassesProper'
BY DEF PassesTyped, PassesProper, local

LEMMA IndexKept ==
    IndexTyped /\ UNCHANGED <<index, saved, troubles>> => IndexTyped'
BY DEF IndexTyped, index

LEMMA TroubleTyped == IndexTyped /\ Trouble => troubles' \in 0..MaxTroubles
BY CdrBoundsAssumption DEF IndexTyped, Trouble

\* What a pass reads of a file are lines the source has written.
LEMMA FromTyped ==
    ASSUME TypeInv, NEW p \in Passes, NEW s \in Sources
    PROVE  /\ From(p, s) \in Nat
           /\ file[s].gen \in 0..MaxInputs /\ file[s].whole \in 0..MaxInputs
<1>1. cur[p].off[s].at \in Nat
  BY DEF TypeInv, PassesTyped, Positions
<1>2. file[s] \in Files /\ inputs \in 0..MaxInputs
  BY DEF TypeInv, WorldTyped
<1>3. file[s].gen <= inputs /\ file[s].whole <= inputs
  BY <1>2 DEF TypeInv, WorldTyped, Files
<1> QED BY <1>1, <1>2, <1>3, CdrBoundsAssumption DEF From, Files

LEMMA PassStepTyped ==
    ASSUME TypeInv, NEW p \in Passes, Begin(p) \/ PassStep(p)
    PROVE  IndexTyped' /\ PassesTyped' /\ PassesProper'
<1> USE DEF TypeInv
<1>1. CASE Begin(p)
  <2>1. IndexTyped'
    BY <1>1, IndexKept DEF Begin
  <2>2. LoadState \in Positions
    BY StartTyped DEF LoadState, IndexTyped
  <2>3. PassesTyped'
    BY <1>1, <2>2 DEF Begin, Goto, PassesTyped, Labels
  <2>4. PassesProper'
    BY <1>1 DEF Begin, Goto, PassesTyped, PassesProper, Idle
  <2> QED BY <2>1, <2>3, <2>4
<1>2. CASE NoSubscribers(p)
  BY <1>2, EndTyped, TroubleTyped DEF NoSubscribers, IndexTyped, index
<1>3. ASSUME NEW s \in Sources, ReadSource(p, s)
      PROVE  IndexTyped' /\ PassesTyped' /\ PassesProper'
  <2> DEFINE rest == left[p] \ {s}
             read == [of |-> {s}, gen |-> file[s].gen, next |-> From(p, s) + 1,
                      last |-> file[s].whole,
                      fits |-> From(p, s) = 0 \/ cur[p].off[s].gen = file[s].gen]
  <2>1. IndexTyped'
    BY <1>3, IndexKept DEF ReadSource
  <2>2. read \in Chunks
    BY FromTyped DEF Chunks
  <2>3. CASE file[s].whole > From(p, s)
    <3>1. chunk' = [chunk EXCEPT ![p] = read] /\ Goto(p, "line")
      BY <1>3, <2>3 DEF ReadSource
    <3>2. PassesTyped'
      BY <1>3, <2>2, <3>1 DEF ReadSource, Goto, PassesTyped, Labels
    <3>3. chunk'[p].gen = file[s].gen /\ chunk'[p].last = file[s].whole
          /\ chunk'[p].next = From(p, s) + 1
      BY <3>1 DEF PassesTyped
    <3>4. PassesProper'
      BY <1>3, <2>3, <3>1, <3>3, FromTyped
      DEF ReadSource, Goto, PassesTyped, PassesProper, Idle
    <3> QED BY <2>1, <3>2, <3>4
  <2>4. CASE ~ (file[s].whole > From(p, s))
    <3>1. GotoNext(p, rest) /\ UNCHANGED chunk
      BY <1>3, <2>4 DEF ReadSource
    <3>2. PassesTyped'
      BY <1>3, <3>1, NextLabel DEF ReadSource, PassesTyped
    <3>3. PassesProper'
      BY <1>3, <3>1, NextLabel DEF ReadSource, PassesTyped, PassesProper, Idle
    <3> QED BY <2>1, <3>2, <3>3
  <2> QED BY <2>3, <2>4
<1>4. CASE StoreLine(p)
  <2> DEFINE k == chunk[p]
  <2>1. PICK s \in k.of :
            /\ pc[p] = "line"
            /\ stored' = stored \cup {<<s, k.gen, k.next>>}
            /\ IF k.next < k.last
               THEN /\ chunk' = [chunk EXCEPT ![p].next = @ + 1]
                    /\ UNCHANGED <<cur, pc>>
               ELSE /\ chunk' = [chunk EXCEPT ![p] = NoChunk]
                    /\ cur' = [cur EXCEPT ![p].off[s] =
                                  [gen |-> IF k.fits THEN k.gen ELSE @.gen,
                                   at |-> k.last]]
                    /\ GotoNext(p, left[p])
            /\ UNCHANGED <<world, doc, clashed, saved, left, got, touched,
                           unanswered, apart, troubles>>
    BY <1>4 DEF StoreLine
  <2>2. /\ k \in Chunks /\ s \in Sources
        /\ k.gen \in 0..MaxInputs /\ k.next \in 1..MaxInputs
        /\ k.next <= k.last /\ k.last <= MaxInputs
    BY <2>1, CdrBoundsAssumption DEF PassesTyped, PassesProper, Chunks
  <2>3. IndexTyped'
    BY <2>1, <2>2 DEF IndexTyped
  <2>4. CASE k.next < k.last
    <3>1. chunk' = [chunk EXCEPT ![p].next = @ + 1] /\ UNCHANGED <<cur, pc>>
      BY <2>1, <2>4
    <3>2. [k EXCEPT !.next = @ + 1] \in Chunks
      BY <2>2 DEF Chunks
    <3>3. chunk' = [chunk EXCEPT ![p] = [k EXCEPT !.next = @ + 1]]
      BY <3>1
    <3>4. PassesTyped'
      BY <2>1, <3>1, <3>2, <3>3 DEF PassesTyped
    <3>5. PassesProper'
      BY <2>1, <2>2, <2>4, <3>1 DEF PassesTyped, PassesProper, Chunks
    <3> QED BY <2>3, <3>4, <3>5
  <2>5. CASE ~ (k.next < k.last)
    <3> DEFINE o == [gen |-> IF k.fits THEN k.gen ELSE cur[p].off[s].gen,
                     at |-> k.last]
    <3>1. /\ chunk' = [chunk EXCEPT ![p] = NoChunk]
          /\ cur' = [cur EXCEPT ![p].off[s] = o]
          /\ GotoNext(p, left[p])
      BY <2>1, <2>5
    <3>2. o \in [gen : Nat, at : Nat]
      BY <2>2 DEF PassesTyped, Positions, Chunks
    <3>3. cur' \in [Passes -> Positions]
      BY <2>2, <3>1, <3>2 DEF PassesTyped, Positions
    <3>4. PassesTyped'
      BY <2>1, <3>1, <3>3, EmptyTyped, NextLabel DEF PassesTyped
    <3>5. \A q \in Passes \ {p} : cur'[q] = cur[q] /\ chunk'[q] = chunk[q]
      BY <3>1 DEF PassesTyped
    <3>6. chunk'[p] = NoChunk /\ UNCHANGED touched /\ pc[p] = "line"
      BY <2>1, <3>1 DEF PassesTyped
    <3>7. PassesProper'
      BY <3>1, <3>5, <3>6, NextLabel, CdrBoundsAssumption
      DEF PassesProper, NoChunk, Idle
    <3> QED BY <2>3, <3>4, <3>7
  <2> QED BY <2>4, <2>5
<1>5. CASE StoreLineFails(p)
  <2>1. IndexTyped'
    BY <1>5, TroubleTyped DEF StoreLineFails, IndexTyped, index
  <2>2. PassesTyped'
    BY <1>5, EmptyTyped, NextLabel DEF StoreLineFails, PassesTyped
  <2>3. PassesProper'
    BY <1>5, NextLabel, CdrBoundsAssumption
    DEF StoreLineFails, PassesTyped, PassesProper, NoChunk, Idle
  <2> QED BY <2>1, <2>2, <2>3
<1>6. CASE FetchAcc(p)
  <2>1. IndexTyped'
    BY <1>6, IndexKept DEF FetchAcc
  <2> "acc" \in Tables
    BY DEF Tables
  <2>2. PassesTyped'
    BY <1>6, FetchTyped DEF FetchAcc, Goto, PassesTyped, CallsAtHand, Labels
  <2>3. PassesProper'
    BY <1>6 DEF FetchAcc, Goto, PassesTyped, PassesProper, CallsAtHand, Idle
  <2> QED BY <2>1, <2>2, <2>3
<1>7. CASE FetchMissed(p)
  <2>1. IndexTyped'
    BY <1>7, IndexKept DEF FetchMissed
  <2> "missed_calls" \in Tables
    BY DEF Tables
  <2>2. PassesTyped'
    BY <1>7, FetchTyped DEF FetchMissed, Goto, PassesTyped, Labels
  <2>3. PassesProper'
    BY <1>7 DEF FetchMissed, Goto, PassesTyped, PassesProper, Idle
  <2> QED BY <2>1, <2>2, <2>3
<1>8. ASSUME NEW c \in Calls, Lookup(p, c)
      PROVE  IndexTyped' /\ PassesTyped' /\ PassesProper'
  <2>1. IndexTyped'
    BY <1>8, IndexKept DEF Lookup
  <2>2. CASE HasRow(c, "INVITE")
    <3> DEFINE hand == [todo |-> touched[p].todo \ {c}, now |-> {c},
                        doc |-> IF HasRow(c, "BYE") THEN "ended" ELSE "open"]
    <3>1. touched' = [touched EXCEPT ![p] = hand] /\ Goto(p, "call")
      BY <1>8, <2>2 DEF Lookup
    <3>2. hand \in CallsAtHand
      BY DEF PassesTyped, CallsAtHand, Docs
    <3>3. PassesTyped'
      BY <1>8, <3>1, <3>2 DEF Lookup, Goto, PassesTyped, Labels
    <3>4. PassesProper'
      BY <1>8, <3>1 DEF Lookup, Goto, PassesTyped, PassesProper, Idle
    <3> QED BY <2>1, <3>3, <3>4
  <2>3. CASE ~ HasRow(c, "INVITE")
    <3>1. touched' = [touched EXCEPT ![p].todo = @ \ {c}] /\ UNCHANGED pc
      BY <1>8, <2>3 DEF Lookup
    <3>2. PassesTyped'
      BY <1>8, <3>1 DEF Lookup, PassesTyped, CallsAtHand
    <3>3. PassesProper'
      BY <1>8, <3>1 DEF Lookup, PassesTyped, PassesProper, CallsAtHand
    <3> QED BY <2>1, <3>2, <3>3
  <2> QED BY <2>2, <2>3
<1>9. CASE StoreCall(p)
  <2>1. PICK c \in touched[p].now :
            /\ pc[p] = "call"
            /\ Store(p, c, touched[p].doc)
            /\ touched' = [touched EXCEPT ![p].now = {}, ![p].doc = "none"]
            /\ Goto(p, "calls")
            /\ UNCHANGED <<world, stored, saved, cur, left, chunk, got,
                           unanswered, apart, troubles>>
    BY <1>9 DEF StoreCall
  <2>2. IndexTyped'
    BY <2>1 DEF IndexTyped, PassesTyped, CallsAtHand, Store
  <2>3. PassesTyped'
    BY <2>1 DEF PassesTyped, CallsAtHand, Goto, Labels, Docs
  <2>4. PassesProper'
    BY <2>1 DEF PassesTyped, PassesProper, CallsAtHand, Goto, Idle
  <2> QED BY <2>2, <2>3, <2>4
<1>10. ASSUME NEW c \in Calls, StoreMissed(p, c)
       PROVE  IndexTyped' /\ PassesTyped' /\ PassesProper'
  <2>1. IndexTyped'
    BY <1>10 DEF StoreMissed, Store, IndexTyped, Docs
  <2>2. PassesTyped'
    BY <1>10 DEF StoreMissed, PassesTyped
  <2>3. PassesProper'
    BY <1>10 DEF StoreMissed, PassesTyped, PassesProper
  <2> QED BY <2>1, <2>2, <2>3
<1>11. CASE KamailioFails(p)
  <2>1. IndexTyped'
    BY <1>11, TroubleTyped DEF KamailioFails, IndexTyped, index
  <2>2. PassesTyped'
    BY <1>11, StartTyped, EmptyTyped DEF KamailioFails, Goto, PassesTyped, Labels
  <2>3. PassesProper'
    BY <1>11 DEF KamailioFails, Goto, PassesTyped, PassesProper, NoCall, Idle
  <2> QED BY <2>1, <2>2, <2>3
<1>12. CASE Save(p)
  <2>1. Reached(p) \in Positions
    <3> DEFINE ids == [t \in Tables |-> IF got[p][t] # 0 THEN got[p][t]
                                                       ELSE cur[p].ids[t]]
    <3>1. ids \in [Tables -> Nat]
      BY DEF PassesTyped, Positions
    <3>2. Reached(p) = [cur[p] EXCEPT !.ids = ids]
      BY DEF Reached
    <3>3. cur[p] \in Positions
      BY DEF PassesTyped
    <3> HIDE DEF ids
    <3> QED BY <3>1, <3>2, <3>3 DEF Positions
  <2> QED BY <1>12, <2>1, EndTyped DEF Save, IndexTyped, index
<1>13. CASE SaveFails(p)
  BY <1>13, EndTyped, TroubleTyped DEF SaveFails, IndexTyped, index
<1> QED
  BY <1>1, <1>2, <1>3, <1>4, <1>5, <1>6, <1>7, <1>8, <1>9, <1>10, <1>11,
     <1>12, <1>13 DEF PassStep

\* The sources write what their inputs pay for.
LEMMA SourceStepTyped ==
    ASSUME TypeInv, SourceStep
    PROVE  WorldTyped' /\ UNCHANGED <<index, saved, pc, local, apart, troubles>>
<1> USE CdrBoundsAssumption DEF TypeInv
<1>1. ASSUME NEW s \in Sources, WriteHalf(s)
      PROVE  WorldTyped' /\ UNCHANGED <<index, saved, pc, local, apart, troubles>>
  <2>1. /\ file[s] \in Files /\ ~ file[s].half /\ inputs' = inputs + 1
        /\ file[s].gen <= inputs /\ file[s].whole <= inputs
    BY <1>1 DEF WriteHalf, Input, WorldTyped, Files
  <2>2. /\ file'[s].gen = file[s].gen /\ file'[s].whole = file[s].whole
        /\ file' \in [Sources -> Files]
        /\ \A o \in Sources \ {s} : file'[o] = file[o]
    BY <1>1, <2>1 DEF WriteHalf, WorldTyped, Files
  <2>3. WorldTyped'
    BY <1>1, <2>1, <2>2 DEF WriteHalf, Input, WorldTyped, Files
  <2> QED BY <1>1, <2>3 DEF WriteHalf
<1>2. ASSUME NEW s \in Sources, WriteRest(s)
      PROVE  WorldTyped' /\ UNCHANGED <<index, saved, pc, local, apart, troubles>>
  BY <1>2 DEF WriteRest, WorldTyped, Files
<1>3. ASSUME NEW s \in Sources, Rotate(s)
      PROVE  WorldTyped' /\ UNCHANGED <<index, saved, pc, local, apart, troubles>>
  BY <1>3 DEF Rotate, Input, WorldTyped, Files
<1>4. ASSUME NEW t \in Tables, NEW c \in Calls, NEW m \in Methods, Insert(t, c, m)
      PROVE  WorldTyped' /\ UNCHANGED <<index, saved, pc, local, apart, troubles>>
  <2>1. [call |-> c, method |-> m] \in Rows
    BY DEF Rows
  <2> QED BY <1>4, <2>1 DEF Insert, Input, WorldTyped, Files
<1>5. ASSUME NEW t \in Tables, NEW i \in DOMAIN rows[t], Commit(t, i)
      PROVE  WorldTyped' /\ UNCHANGED <<index, saved, pc, local, apart, troubles>>
  <2>1. i \in Nat
    BY <1>5 DEF WorldTyped
  <2> QED BY <1>5, <2>1 DEF Commit, WorldTyped
<1> QED BY <1>1, <1>2, <1>3, <1>4, <1>5 DEF SourceStep

LEMMA TypeStep == TypeInv /\ [Next]_vars => TypeInv'
<1> SUFFICES ASSUME TypeInv, [Next]_vars PROVE TypeInv'
  OBVIOUS
<1>1. ASSUME NEW p \in Passes, Begin(p) \/ PassStep(p) PROVE TypeInv'
  <2>1. UNCHANGED world
    BY <1>1
    DEF Begin, PassStep, NoSubscribers, ReadSource, StoreLine, StoreLineFails,
        FetchAcc, FetchMissed, Lookup, StoreMissed, StoreCall, KamailioFails,
        Save, SaveFails
  <2> QED BY <1>1, <2>1, WorldKept, PassStepTyped DEF TypeInv
<1>2. CASE SourceStep
  BY <1>2, SourceStepTyped, PassesKept, IndexKept DEF TypeInv
<1>3. CASE Crash
  <2>1. WorldTyped'
    BY <1>3, WorldKept DEF Crash, TypeInv
  <2>2. IndexTyped'
    BY <1>3, TroubleTyped DEF Crash, TypeInv, IndexTyped, index
  <2>3. PassesTyped'
    BY <1>3, StartTyped, EmptyTyped DEF Crash, PassesTyped, Labels
  <2>4. PassesProper'
    BY <1>3, CdrBoundsAssumption DEF Crash, PassesProper, NoChunk, NoCall, Idle
  <2> QED BY <2>1, <2>2, <2>3, <2>4 DEF TypeInv
<1>4. CASE UNCHANGED vars
  BY <1>4, WorldKept, IndexKept, PassesKept DEF vars, TypeInv
<1> QED BY <1>1, <1>2, <1>3, <1>4 DEF Next

LEMMA TypeInvariant == Spec => []TypeInv
BY TypeInit, TypeStep, PTL DEF Spec

(* Every variable keeps its type; a pass that read a file has a line to    *)
(* store, and it looks no further than the file it read (TypeOK).          *)
THEOREM TypeCorrect == Spec => []TypeOK
<1>1. ASSUME TypeInv PROVE TypeOK
  <2>1. \A s \in Sources : /\ file[s].gen \in 0..MaxInputs
                           /\ file[s].whole \in 0..inputs
                           /\ file[s].half \in BOOLEAN
    <3> SUFFICES ASSUME NEW s \in Sources
                 PROVE  /\ file[s].gen \in 0..MaxInputs
                        /\ file[s].whole \in 0..inputs
                        /\ file[s].half \in BOOLEAN
      OBVIOUS
    <3> QED BY <1>1, CdrBoundsAssumption DEF TypeInv, WorldTyped, Files
  <2>2. \A p \in Passes :
           /\ cur[p] \in Positions
           /\ left[p] \subseteq Sources
           /\ touched[p].todo \cup touched[p].now \cup unanswered[p] \subseteq Calls
    BY <1>1 DEF TypeInv, PassesTyped, CallsAtHand
  <2> QED BY <1>1, <2>1, <2>2
          DEF TypeInv, TypeOK, WorldTyped, IndexTyped, PassesProper
<1> QED BY <1>1, TypeInvariant, PTL

(***************************************************************************)
(* No position passes over a line.                                         *)
(***************************************************************************)

(* A position stands for lines of its file that are in the collection, as  *)
(* long as the file is there.                                              *)
Covered(s, o) ==
    /\ o.gen <= file[s].gen
    /\ o.gen = file[s].gen => \A i \in 1..o.at : <<s, o.gen, i>> \in stored

(* The lines a pass has in hand follow on those it has stored, or belong   *)
(* to a file newer than the position, which is then left at the old file.  *)
ChunkCovered(p, s) ==
    /\ chunk[p].gen <= file[s].gen
    /\ chunk[p].fits =>
          \A i \in 1..(chunk[p].next - 1) : <<s, chunk[p].gen, i>> \in stored
    /\ ~ chunk[p].fits => cur[p].off[s].gen < chunk[p].gen

PositionInv ==
    /\ saved # Torn => \A s \in Sources : Covered(s, saved.off[s])
    /\ \A p \in Passes, s \in Sources : Covered(s, cur[p].off[s])
    /\ \A p \in Passes :
          /\ pc[p] # "line" => chunk[p].of = {}
          /\ \A s, o \in chunk[p].of : s = o
          /\ \A s \in chunk[p].of : ChunkCovered(p, s)

\* No line is covered by a position at the start of a file.
LEMMA StartCovered ==
    ASSUME TypeInv, NEW s \in Sources
    PROVE  Covered(s, Start.off[s])
BY DEF TypeInv, WorldTyped, Files, Start, Covered

LEMMA PositionInit == Init => PositionInv
<1> SUFFICES ASSUME Init PROVE PositionInv
  OBVIOUS
<1>1. \A s \in Sources : Covered(s, Start.off[s])
  BY TypeInit, StartCovered
<1> QED BY <1>1 DEF Init, PositionInv, NoChunk

\* Lines only come into the collection, and a file is only replaced by a newer one.
LEMMA CoveredKept ==
    ASSUME TypeInv, TypeInv', NEW s \in Sources, NEW o \in [gen : Nat, at : Nat],
           Covered(s, o), stored \subseteq stored', file[s].gen <= file'[s].gen
    PROVE  Covered(s, o)'
<1>1. file[s].gen \in Nat /\ file'[s].gen \in Nat
  BY DEF TypeInv, WorldTyped, Files
<1> QED BY <1>1 DEF Covered

LEMMA ChunkKept ==
    ASSUME TypeInv, TypeInv', NEW p \in Passes, NEW s \in chunk[p].of,
           ChunkCovered(p, s), stored \subseteq stored',
           file[s].gen <= file'[s].gen, chunk'[p] = chunk[p],
           cur'[p].off[s] = cur[p].off[s]
    PROVE  ChunkCovered(p, s)'
<1>1. /\ s \in Sources /\ chunk[p].gen \in Nat
      /\ file[s].gen \in Nat /\ file'[s].gen \in Nat
  BY DEF TypeInv, WorldTyped, PassesTyped, Chunks, Files
<1> QED BY <1>1 DEF ChunkCovered

\* A step that stores no line keeps the invariant if the positions it leaves are
\* positions that were there before, and lines in hand are kept or dropped.
LEMMA PositionKept ==
    ASSUME TypeInv, TypeInv', PositionInv, stored \subseteq stored',
           \A s \in Sources : file[s].gen <= file'[s].gen,
           \/ saved' = saved \/ saved' = Torn
           \/ \E p \in Passes : saved'.off = cur[p].off,
           \A p \in Passes : \/ cur'[p].off = cur[p].off
                             \/ cur'[p].off = Start.off
                             \/ saved # Torn /\ cur'[p].off = saved.off,
           \A p \in Passes : \/ chunk'[p].of = {}
                             \/ /\ chunk'[p] = chunk[p] /\ pc'[p] = pc[p]
                                /\ cur'[p].off = cur[p].off
    PROVE  PositionInv'
<1>1. saved' # Torn => \A s \in Sources : Covered(s, saved.off[s])'
  <2> SUFFICES ASSUME saved' # Torn, NEW s \in Sources
               PROVE  Covered(s, saved.off[s])'
    OBVIOUS
  <2>1. CASE saved' = saved
    <3>1. saved \in Positions /\ Covered(s, saved.off[s])
      BY <2>1 DEF PositionInv, TypeInv, IndexTyped
    <3>2. saved.off[s] \in [gen : Nat, at : Nat]
      BY <3>1 DEF Positions
    <3> QED BY <2>1, <3>1, <3>2, CoveredKept DEF Covered
  <2>2. ASSUME NEW p \in Passes, saved'.off = cur[p].off
        PROVE  Covered(s, saved.off[s])'
    <3>1. Covered(s, cur[p].off[s])
      BY DEF PositionInv
    <3>2. cur[p].off[s] \in [gen : Nat, at : Nat]
      BY DEF TypeInv, PassesTyped, Positions
    <3> QED BY <2>2, <3>1, <3>2, CoveredKept DEF Covered
  <2> QED BY <2>1, <2>2
<1>2. \A p \in Passes, s \in Sources : Covered(s, cur[p].off[s])'
  <2> SUFFICES ASSUME NEW p \in Passes, NEW s \in Sources
               PROVE  Covered(s, cur[p].off[s])'
    OBVIOUS
  <2>1. CASE cur'[p].off = cur[p].off
    <3>1. Covered(s, cur[p].off[s])
      BY DEF PositionInv
    <3>2. cur[p].off[s] \in [gen : Nat, at : Nat]
      BY DEF TypeInv, PassesTyped, Positions
    <3> QED BY <2>1, <3>1, <3>2, CoveredKept DEF Covered
  <2>2. CASE cur'[p].off = Start.off
    <3>1. Start.off[s] \in [gen : Nat, at : Nat]
      BY StartTyped DEF Positions
    <3> QED BY <2>2, <3>1, StartCovered, CoveredKept DEF Covered
  <2>3. CASE saved # Torn /\ cur'[p].off = saved.off
    <3>1. saved \in Positions /\ Covered(s, saved.off[s])
      BY <2>3 DEF PositionInv, TypeInv, IndexTyped
    <3>2. saved.off[s] \in [gen : Nat, at : Nat]
      BY <3>1 DEF Positions
    <3> QED BY <2>3, <3>1, <3>2, CoveredKept DEF Covered
  <2> QED BY <2>1, <2>2, <2>3
<1>3. ASSUME NEW p \in Passes
      PROVE  /\ pc'[p] # "line" => chunk'[p].of = {}
             /\ \A s, o \in chunk'[p].of : s = o
             /\ \A s \in chunk'[p].of : ChunkCovered(p, s)'
  <2>1. CASE chunk'[p].of = {}
    BY <2>1
  <2>2. CASE /\ chunk'[p] = chunk[p] /\ pc'[p] = pc[p]
             /\ cur'[p].off = cur[p].off
    <3>1. chunk[p].of \subseteq Sources
      BY DEF TypeInv, PassesTyped, Chunks
    <3> QED BY <2>2, <3>1, ChunkKept DEF PositionInv
  <2> QED BY <2>1, <2>2
<1> QED BY <1>1, <1>2, <1>3 DEF PositionInv

\* The lines a pass reads follow on its position if that is one of the same file.
LEMMA ReadCovered ==
    ASSUME TypeInv, TypeInv', PositionInv, NEW p \in Passes, NEW s \in Sources,
           ReadSource(p, s)
    PROVE  PositionInv'
<1>1. CASE file[s].whole > From(p, s)
  <2> DEFINE fits == From(p, s) = 0 \/ cur[p].off[s].gen = file[s].gen
  <2>1. /\ chunk'[p] = [of |-> {s}, gen |-> file[s].gen, next |-> From(p, s) + 1,
                        last |-> file[s].whole, fits |-> fits]
        /\ pc'[p] = "line"
    BY <1>1 DEF ReadSource, Goto, TypeInv, PassesTyped
  <2>2. Covered(s, cur[p].off[s]) /\ cur[p].off[s] \in [gen : Nat, at : Nat]
        /\ file[s].gen \in Nat /\ From(p, s) \in Nat
    BY FromTyped DEF PositionInv, TypeInv, PassesTyped, Positions
  <2>3. From(p, s) = 0 \/ From(p, s) = cur[p].off[s].at
    BY DEF From
  <2>4. fits => \A i \in 1..From(p, s) : <<s, file[s].gen, i>> \in stored
    BY <2>2, <2>3 DEF Covered
  <2>5. ~ fits => cur[p].off[s].gen < file[s].gen
    BY <2>2 DEF Covered
  <2>6. UNCHANGED <<file, stored, saved, cur>>
    BY DEF ReadSource, world, index
  <2>7. ChunkCovered(p, s)'
    <3>1. (From(p, s) + 1) - 1 = From(p, s)
      BY <2>2
    <3>2. chunk'[p].next - 1 = From(p, s)
      BY <2>1, <3>1
    <3>3. chunk'[p].gen = file[s].gen /\ chunk'[p].fits = fits
      BY <2>1
    <3> HIDE DEF fits
    <3> QED BY <2>2, <2>4, <2>5, <2>6, <3>2, <3>3 DEF ChunkCovered
  <2>8. \A q \in Passes \ {p} : chunk'[q] = chunk[q] /\ pc'[q] = pc[q]
    BY <1>1 DEF ReadSource, Goto, TypeInv, PassesTyped
  <2>9. \A q \in Passes \ {p} : \A o \in chunk'[q].of : ChunkCovered(q, o)'
    BY <2>6, <2>8 DEF PositionInv, ChunkCovered
  <2>10. \A o \in chunk'[p].of : o = s
    BY <2>1
  <2>11. \A q \in Passes : pc'[q] # "line" => chunk'[q].of = {}
    BY <2>1, <2>8 DEF PositionInv
  <2>12. \A q \in Passes : \A r, o \in chunk'[q].of : r = o
    BY <2>8, <2>10 DEF PositionInv
  <2> QED BY <2>6, <2>7, <2>9, <2>10, <2>11, <2>12 DEF PositionInv, Covered
<1>2. CASE ~ (file[s].whole > From(p, s))
  <2>1. UNCHANGED <<file, stored, saved, cur, chunk>> /\ pc[p] = "source"
    BY <1>2 DEF ReadSource, world, index
  <2>2. \A q \in Passes \ {p} : pc'[q] = pc[q]
    BY <1>2, NextLabel DEF ReadSource
  <2>3. chunk[p].of = {}
    BY <2>1 DEF PositionInv
  <2>4. \A o \in Sources : file[o].gen <= file'[o].gen
    BY <2>1 DEF TypeInv, WorldTyped, Files
  <2> QED BY <2>1, <2>2, <2>3, <2>4, PositionKept
<1> QED BY <1>1, <1>2

\* When the last line in hand is stored, the position moves over lines that are all in
\* the collection, or stays with the file that is gone.
LEMMA StoreCovered ==
    ASSUME TypeInv, TypeInv', PositionInv, NEW p \in Passes, StoreLine(p)
    PROVE  PositionInv'
<1> DEFINE k == chunk[p]
<1>1. PICK s \in k.of :
          /\ pc[p] = "line"
          /\ stored' = stored \cup {<<s, k.gen, k.next>>}
          /\ IF k.next < k.last
             THEN /\ chunk' = [chunk EXCEPT ![p].next = @ + 1]
                  /\ UNCHANGED <<cur, pc>>
             ELSE /\ chunk' = [chunk EXCEPT ![p] = NoChunk]
                  /\ cur' = [cur EXCEPT ![p].off[s] =
                                [gen |-> IF k.fits THEN k.gen ELSE @.gen,
                                 at |-> k.last]]
                  /\ GotoNext(p, left[p])
          /\ UNCHANGED <<world, saved>>
  BY DEF StoreLine
<1>2. /\ k \in Chunks /\ s \in Sources /\ ChunkCovered(p, s)
      /\ k.gen \in Nat /\ k.next \in Nat /\ k.last \in Nat /\ k.fits \in BOOLEAN
      /\ k.next >= 1 /\ k.next <= k.last
  BY <1>1 DEF PositionInv, TypeInv, PassesTyped, PassesProper, Chunks
<1>3. UNCHANGED <<file, saved>> /\ stored \subseteq stored'
      /\ \A o \in Sources : file[o].gen <= file'[o].gen
  BY <1>1 DEF world, TypeInv, WorldTyped, Files
<1>4. k.fits => \A i \in 1..k.next : <<s, k.gen, i>> \in stored'
  BY <1>1, <1>2 DEF ChunkCovered
<1>5. CASE k.next < k.last
  <2>1. /\ \A q \in Passes \ {p} : chunk'[q] = chunk[q]
        /\ chunk'[p] = [k EXCEPT !.next = @ + 1] /\ UNCHANGED <<cur, pc>>
    BY <1>1, <1>5 DEF TypeInv, PassesTyped
  <2>2. /\ chunk'[p].of = k.of /\ chunk'[p].gen = k.gen
        /\ chunk'[p].fits = k.fits /\ chunk'[p].next = k.next + 1
    BY <1>2, <2>1 DEF Chunks
  <2>3. \A o \in Sources : saved # Torn => Covered(o, saved.off[o])'
    <3> SUFFICES ASSUME NEW o \in Sources, saved # Torn
                 PROVE  Covered(o, saved.off[o])'
      OBVIOUS
    <3>1. saved.off[o] \in [gen : Nat, at : Nat] /\ Covered(o, saved.off[o])
      BY DEF PositionInv, TypeInv, IndexTyped, Positions
    <3> QED BY <1>3, <3>1 DEF Covered
  <2>4. \A q \in Passes, o \in Sources : Covered(o, cur[q].off[o])'
    BY <1>3, <2>1 DEF PositionInv, Covered
  <2>5. \A q \in Passes \ {p} : \A o \in chunk'[q].of : ChunkCovered(q, o)'
    BY <1>3, <2>1 DEF PositionInv, ChunkCovered
  <2>6. \A o \in k.of : o = s
    BY DEF PositionInv
  <2>7. ChunkCovered(p, s)'
    <3>1. (k.next + 1) - 1 = k.next
      BY <1>2
    <3> QED BY <1>2, <1>3, <1>4, <2>1, <2>2, <3>1 DEF ChunkCovered
  <2>8. \A q \in Passes : /\ pc'[q] # "line" => chunk'[q].of = {}
                          /\ \A r, o \in chunk'[q].of : r = o
    <3>1. ASSUME NEW q \in Passes \ {p}
          PROVE  /\ pc'[q] # "line" => chunk'[q].of = {}
                 /\ \A r, o \in chunk'[q].of : r = o
      BY <2>1, <3>1 DEF PositionInv
    <3>2. pc'[p] = "line" /\ \A r, o \in chunk'[p].of : r = o
      BY <1>1, <2>1, <2>2 DEF PositionInv
    <3> QED BY <3>1, <3>2
  <2>9. \A o \in chunk'[p].of : ChunkCovered(p, o)'
    <3> SUFFICES ASSUME NEW o \in chunk'[p].of PROVE ChunkCovered(p, o)'
      OBVIOUS
    <3>1. o = s
      BY <2>2, <2>6
    <3> QED BY <2>7, <3>1 DEF ChunkCovered
  <2> QED
    BY <1>3, <2>3, <2>4, <2>5, <2>8, <2>9 DEF PositionInv
<1>6. CASE ~ (k.next < k.last)
  <2>0. PICK o : o = [gen |-> IF k.fits THEN k.gen ELSE cur[p].off[s].gen,
                      at |-> k.last]
    OBVIOUS
  <2>1. /\ chunk' = [chunk EXCEPT ![p] = NoChunk]
        /\ cur' = [cur EXCEPT ![p].off[s] = o]
        /\ GotoNext(p, left[p])
    BY <1>1, <1>6, <2>0
  <2>2. k.next = k.last
    BY <1>2, <1>6
  <2>3. Covered(s, o)'
    <3>1. cur[p].off[s].gen \in Nat /\ file[s].gen \in Nat
      BY <1>2 DEF TypeInv, PassesTyped, Positions, WorldTyped, Files
    <3>2. CASE k.fits
      BY <1>2, <1>3, <1>4, <2>0, <2>2, <3>2 DEF Covered, ChunkCovered
    <3>3. CASE ~ k.fits
      BY <1>2, <1>3, <2>0, <3>1, <3>3 DEF Covered, ChunkCovered
    <3> QED BY <3>2, <3>3
  <2>4. cur'[p].off[s] = o /\ \A r \in Sources \ {s} : cur'[p].off[r] = cur[p].off[r]
    BY <1>2, <2>1 DEF TypeInv, PassesTyped, Positions
  <2>5. \A q \in Passes \ {p} : /\ cur'[q] = cur[q] /\ chunk'[q] = chunk[q]
                                /\ pc'[q] = pc[q]
    BY <2>1, NextLabel DEF TypeInv, PassesTyped
  <2>6. chunk'[p].of = {}
    BY <2>1 DEF TypeInv, PassesTyped, NoChunk
  <2>7. \A q \in Passes, r \in Sources : Covered(r, cur[q].off[r])'
    <3> SUFFICES ASSUME NEW q \in Passes, NEW r \in Sources
                 PROVE  Covered(r, cur[q].off[r])'
      OBVIOUS
    <3>1. CASE q = p /\ r = s
      BY <2>3, <2>4, <3>1 DEF Covered
    <3>2. CASE ~ (q = p /\ r = s)
      <4>1. cur'[q].off[r] = cur[q].off[r]
        BY <2>4, <2>5, <3>2
      <4>2. Covered(r, cur[q].off[r])
        BY DEF PositionInv
      <4> QED BY <1>3, <4>1, <4>2 DEF Covered
    <3> QED BY <3>1, <3>2
  <2>8. \A r \in Sources : saved # Torn => Covered(r, saved.off[r])'
    BY <1>3 DEF PositionInv, Covered
  <2>9. \A q \in Passes \ {p} : \A r \in chunk'[q].of : ChunkCovered(q, r)'
    BY <1>3, <2>5 DEF PositionInv, ChunkCovered
  <2> QED BY <1>3, <2>5, <2>6, <2>7, <2>8, <2>9 DEF PositionInv
<1> QED BY <1>5, <1>6

LEMMA PositionStep == TypeInv /\ PositionInv /\ [Next]_vars /\ TypeInv' => PositionInv'
<1> SUFFICES ASSUME TypeInv, PositionInv, [Next]_vars, TypeInv' PROVE PositionInv'
  OBVIOUS
<1>1. \A s \in Sources : file[s].gen \in Nat
  BY DEF TypeInv, WorldTyped, Files
<1>2. \A p \in Passes : pc[p] # "line" => chunk[p].of = {}
  BY DEF PositionInv
<1>3. NoChunk.of = {}
  BY DEF NoChunk
<1> USE <1>1, <1>2, <1>3, PositionKept
<1>4. ASSUME NEW p \in Passes, Begin(p) PROVE PositionInv'
  <2>1. cur'[p] = LoadState /\ pc[p] # "line"
    BY <1>4 DEF Begin, TypeInv, PassesTyped, Idle
  <2>2. \/ cur'[p].off = Start.off
        \/ saved # Torn /\ cur'[p].off = saved.off
    BY <2>1 DEF LoadState
  <2> QED
    BY <1>4, <2>1, <2>2 DEF Begin, Goto, world, index, TypeInv, PassesTyped
<1>5. ASSUME NEW p \in Passes, End(p), UNCHANGED <<world, index>>,
             saved' = saved \/ saved'.off = cur[p].off
      PROVE  PositionInv'
  BY <1>5 DEF End, Goto, world, index, TypeInv, PassesTyped
<1>6. ASSUME NEW p \in Passes, NoSubscribers(p) \/ Save(p) \/ SaveFails(p)
      PROVE  PositionInv'
  <2>1. Reached(p).off = cur[p].off
    BY DEF Reached, TypeInv, PassesTyped, Positions
  <2> QED BY <1>5, <1>6, <2>1 DEF NoSubscribers, Save, SaveFails
<1>7. ASSUME NEW p \in Passes, NEW s \in Sources, ReadSource(p, s)
      PROVE  PositionInv'
  BY <1>7, ReadCovered
<1>8. ASSUME NEW p \in Passes, StoreLine(p) PROVE PositionInv'
  BY <1>8, StoreCovered
<1>9. ASSUME NEW p \in Passes, StoreLineFails(p) PROVE PositionInv'
  <2>1. \A q \in Passes \ {p} : pc'[q] = pc[q]
    BY <1>9, NextLabel DEF StoreLineFails
  <2> QED BY <1>9, <2>1 DEF StoreLineFails, world, index, TypeInv, PassesTyped
<1>10. ASSUME NEW p \in Passes, FetchAcc(p) \/ FetchMissed(p) PROVE PositionInv'
  <2>1. /\ UNCHANGED <<world, index, saved, cur, chunk>> /\ chunk[p].of = {}
        /\ \A q \in Passes \ {p} : pc'[q] = pc[q]
    BY <1>10 DEF FetchAcc, FetchMissed, Goto, TypeInv, PassesTyped
  <2> QED BY <2>1 DEF world, index
<1>11. ASSUME NEW p \in Passes, NEW c \in Calls, Lookup(p, c) \/ StoreMissed(p, c)
       PROVE  PositionInv'
  BY <1>11
  DEF Lookup, StoreMissed, Store, Goto, world, index, TypeInv, PassesTyped
<1>12. ASSUME NEW p \in Passes, StoreCall(p) PROVE PositionInv'
  <2>1. /\ UNCHANGED <<world, stored, saved, cur, chunk>> /\ chunk[p].of = {}
        /\ \A q \in Passes \ {p} : pc'[q] = pc[q]
    BY <1>12 DEF StoreCall, Goto, TypeInv, PassesTyped
  <2> QED BY <2>1 DEF world
<1>13. ASSUME NEW p \in Passes, KamailioFails(p) PROVE PositionInv'
  BY <1>13 DEF KamailioFails, Goto, world, index, TypeInv, PassesTyped
<1>14. CASE SourceStep
  <2>1. \A s \in Sources : file'[s].gen >= file[s].gen
    <3>1. ASSUME NEW s \in Sources, WriteHalf(s) \/ WriteRest(s) \/ Rotate(s)
          PROVE  \A o \in Sources : file'[o].gen >= file[o].gen
      <4>1. file \in [Sources -> Files] /\ file[s].gen \in Nat
        BY DEF TypeInv, WorldTyped
      <4>2. file'[s].gen \in {file[s].gen, file[s].gen + 1}
        BY <3>1, <4>1 DEF WriteHalf, WriteRest, Rotate, Files
      <4>3. \A o \in Sources \ {s} : file'[o] = file[o]
        BY <3>1, <4>1 DEF WriteHalf, WriteRest, Rotate
      <4> QED BY <4>1, <4>2, <4>3
    <3>2. CASE UNCHANGED file
      BY <3>2
    <3> QED BY <1>14, <3>1, <3>2 DEF SourceStep, Insert, Commit
  <2>2. \A s \in Sources : file'[s].gen \in Nat
    BY DEF TypeInv, WorldTyped, Files
  <2>3. UNCHANGED <<index, saved, pc, local>>
    BY <1>14, SourceStepTyped
  <2> QED BY <2>1, <2>2, <2>3 DEF index, local
<1>15. CASE Crash
  BY <1>15 DEF Crash, world, index
<1>16. CASE UNCHANGED vars
  BY <1>16 DEF vars, world, index, local
<1> QED
  BY <1>4, <1>6, <1>7, <1>8, <1>9, <1>10, <1>11, <1>12, <1>13, <1>14, <1>15,
     <1>16 DEF Next, PassStep

(* The position that is saved for a file stands for lines that are in the  *)
(* collection, whatever pass saved it and whatever failed (saveState() and *)
(* syncAsteriskSource()).                                                  *)
THEOREM PositionTheorem == Spec => []PositionCovered
<1>1. PositionInv => PositionCovered
  BY DEF PositionInv, PositionCovered, Covered
<1>2. Spec => []PositionInv
  BY PositionInit, PositionStep, TypeInvariant, PTL DEF Spec
<1> QED BY <1>1, <1>2, PTL

(***************************************************************************)
(* The calls: the end of a call is not taken away by a pass that runs by   *)
(* itself, and the position in a table passes over no row.                 *)
(***************************************************************************)

(* A call has one INVITE row, in one of the tables, and a BYE row comes    *)
(* after it, in the table of answered calls.                               *)
RowsProper ==
    /\ \A t, u \in Tables : \A i \in DOMAIN rows[t], j \in DOMAIN rows[u] :
          rows[t][i].method = "INVITE" /\ rows[u][j] = rows[t][i] => u = t /\ j = i
    /\ \A t \in Tables : \A j \in DOMAIN rows[t] :
          rows[t][j].method = "BYE" =>
              /\ t = "acc"
              /\ \E i \in DOMAIN rows[t] :
                    i < j /\ rows[t][i] = [call |-> rows[t][j].call, method |-> "INVITE"]

(* A document that says that the call ended, in the collection or in hand, *)
(* says so for a row; a call that is stored as missed has a row that says  *)
(* so.                                                                     *)
DocsTrue ==
    /\ \A c \in Calls : doc[c] = "ended" => HasRow(c, "BYE")
    /\ \A p \in Passes : \A c \in touched[p].now :
          /\ touched[p].doc \in {"open", "ended"}
          /\ touched[p].doc = "ended" => HasRow(c, "BYE")
    /\ \A p \in Passes : \A c \in unanswered[p] :
          \E i \in DOMAIN rows["missed_calls"] : rows["missed_calls"][i].call = c

(* A pass by itself has no other beside it, and what it has in hand is no  *)
(* older than what is stored.                                              *)
ApartTrue ==
    /\ apart \in [Passes -> BOOLEAN]
    /\ \A p \in Passes : apart[p] =>
          /\ \A q \in Passes \ {p} : pc[q] = Idle
          /\ \A c \in touched[p].now : touched[p].doc = "open" => doc[c] # "ended"

CallInv == RowsProper /\ DocsTrue /\ ApartTrue

LEMMA CallInit == Init => CallInv
<1> SUFFICES ASSUME Init PROVE CallInv
  OBVIOUS
<1>1. RowsProper
  BY DEF Init, RowsProper
<1>2. DocsTrue
  BY DEF Init, DocsTrue, NoCall
<1>3. ApartTrue
  BY DEF Init, ApartTrue, NoCall
<1> QED BY <1>1, <1>2, <1>3 DEF CallInv

(***************************************************************************)
(* The rows of the tables.                                                 *)
(***************************************************************************)

\* A row is a call and a method.
LEMMA RowTyped ==
    ASSUME TypeInv, NEW t \in Tables, NEW i \in DOMAIN rows[t]
    PROVE  /\ i \in Nat /\ rows[t][i] \in Rows
           /\ rows[t][i] = [call |-> rows[t][i].call, method |-> rows[t][i].method]
           /\ rows[t][i].call \in Calls /\ rows[t][i].method \in Methods
<1>1. i \in Nat /\ rows[t][i] \in Rows
  BY DEF TypeInv, WorldTyped
<1> QED BY <1>1 DEF Rows

\* Rows stay where they are, and what is committed stays committed.
LEMMA RowsGrow ==
    ASSUME TypeInv, SourceStep \/ UNCHANGED world
    PROVE  \A t \in Tables :
              /\ visible[t] \subseteq visible'[t]
              /\ \A i \in DOMAIN rows[t] : i \in DOMAIN rows'[t] /\ rows'[t][i] = rows[t][i]
<1>1. rows \in [Tables -> Seq(Rows)] /\ visible \in [Tables -> SUBSET Nat]
  BY DEF TypeInv, WorldTyped
<1>2. ASSUME NEW t \in Tables, NEW c \in Calls, NEW m \in Methods, Insert(t, c, m)
      PROVE  \A u \in Tables :
              /\ visible[u] \subseteq visible'[u]
              /\ \A i \in DOMAIN rows[u] : i \in DOMAIN rows'[u] /\ rows'[u][i] = rows[u][i]
  <2>1. [call |-> c, method |-> m] \in Rows
    BY DEF Rows
  <2> QED BY <1>1, <1>2, <2>1 DEF Insert
<1>3. ASSUME NEW t \in Tables, NEW i \in DOMAIN rows[t], Commit(t, i)
      PROVE  \A u \in Tables : visible[u] \subseteq visible'[u] /\ rows'[u] = rows[u]
  BY <1>1, <1>3 DEF Commit
<1>4. CASE UNCHANGED <<rows, visible>>
  BY <1>4
<1> QED BY <1>2, <1>3, <1>4 DEF SourceStep, WriteHalf, WriteRest, Rotate, world

\* What a pass can find it will find again.
LEMMA HasRowKept ==
    ASSUME TypeInv, SourceStep \/ UNCHANGED world, NEW c, NEW m, HasRow(c, m)
    PROVE  HasRow(c, m)'
<1>1. "acc" \in Tables /\ visible["acc"] \subseteq DOMAIN rows["acc"]
  BY DEF TypeInv, WorldTyped, Tables
<1> QED BY <1>1, RowsGrow DEF HasRow

LEMMA RowsProperStep == TypeInv /\ RowsProper /\ SourceStep => RowsProper'
<1> SUFFICES ASSUME TypeInv, RowsProper, SourceStep PROVE RowsProper'
  OBVIOUS
<1>1. ASSUME NEW t \in Tables, NEW c \in Calls, NEW m \in Methods, Insert(t, c, m)
      PROVE  RowsProper'
  <2> DEFINE new == [call |-> c, method |-> m]
             n == Len(rows[t]) + 1
  <2>1. /\ new \in Rows /\ n \in Nat
        /\ new.call = c /\ new.method = m
    BY DEF Rows, TypeInv, WorldTyped
  <2>2. \A u \in Tables \ {t} : rows'[u] = rows[u]
    BY <1>1 DEF Insert, TypeInv, WorldTyped
  <2>3. /\ DOMAIN rows'[t] = DOMAIN rows[t] \cup {n}
        /\ \A i \in DOMAIN rows[t] : i < n /\ rows'[t][i] = rows[t][i]
        /\ rows'[t][n] = new
    BY <1>1, <2>1 DEF Insert, TypeInv, WorldTyped
  <2>4. ~ Inserted(t, c, m)
        /\ IF m = "BYE" THEN t = "acc" /\ Inserted("acc", c, "INVITE")
                        ELSE \A u \in Tables : ~ Inserted(u, c, "INVITE")
    BY <1>1 DEF Insert
  <2>5. m = "INVITE" => \A u \in Tables : \A i \in DOMAIN rows[u] : rows[u][i] # new
    BY <2>4 DEF Inserted
  <2> HIDE DEF new, n
  <2>6. ASSUME NEW u \in Tables, NEW v \in Tables,
               NEW i \in DOMAIN rows'[u], NEW j \in DOMAIN rows'[v],
               rows'[u][i].method = "INVITE", rows'[v][j] = rows'[u][i]
        PROVE  v = u /\ j = i
    <3>1. CASE i \in DOMAIN rows[u] /\ j \in DOMAIN rows[v]
      BY <2>2, <2>3, <2>6, <3>1 DEF RowsProper
    <3>2. CASE u = t /\ i = n
      <4>1. m = "INVITE" /\ rows'[v][j] = new
        BY <2>1, <2>3, <2>6, <3>2
      <4> QED BY <2>2, <2>3, <2>5, <3>2, <4>1
    <3>3. CASE v = t /\ j = n
      <4>1. m = "INVITE" /\ rows'[u][i] = new
        BY <2>1, <2>3, <2>6, <3>3
      <4> QED BY <2>2, <2>3, <2>5, <3>3, <4>1
    <3> QED BY <2>2, <2>3, <3>1, <3>2, <3>3
  <2>7. ASSUME NEW u \in Tables, NEW j \in DOMAIN rows'[u], rows'[u][j].method = "BYE"
        PROVE  /\ u = "acc"
               /\ \E i \in DOMAIN rows'[u] :
                     i < j /\ rows'[u][i] = [call |-> rows'[u][j].call, method |-> "INVITE"]
    <3>1. CASE j \in DOMAIN rows[u]
      <4>1. rows'[u][j] = rows[u][j]
        BY <2>2, <2>3, <3>1
      <4>2. /\ u = "acc"
            /\ \E i \in DOMAIN rows[u] :
                  i < j /\ rows[u][i] = [call |-> rows[u][j].call, method |-> "INVITE"]
        BY <2>7, <3>1, <4>1 DEF RowsProper
      <4> QED BY <2>2, <2>3, <4>1, <4>2
    <3>2. CASE u = t /\ j = n
      <4>1. m = "BYE" /\ rows'[u][j].call = c
        BY <2>1, <2>3, <2>7, <3>2
      <4>2. t = "acc" /\ Inserted("acc", c, "INVITE")
        BY <2>4, <4>1
      <4> QED BY <2>3, <3>2, <4>1, <4>2 DEF Inserted
    <3> QED BY <2>2, <2>3, <3>1, <3>2
  <2> QED BY <2>6, <2>7 DEF RowsProper
<1>2. CASE UNCHANGED rows
  BY <1>2 DEF RowsProper
<1> QED BY <1>1, <1>2 DEF SourceStep, WriteHalf, WriteRest, Rotate, Commit

\* A call that was missed has not ended.
LEMMA NeverBoth ==
    ASSUME TypeInv, RowsProper, NEW i \in DOMAIN rows["missed_calls"]
    PROVE  ~ HasRow(rows["missed_calls"][i].call, "BYE")
<1> DEFINE c == rows["missed_calls"][i].call
<1> SUFFICES ASSUME HasRow(c, "BYE") PROVE FALSE
  OBVIOUS
<1>1. "acc" \in Tables /\ "missed_calls" \in Tables /\ "acc" # "missed_calls"
  BY DEF Tables
<1>2. PICK j \in DOMAIN rows["acc"] : rows["acc"][j] = [call |-> c, method |-> "BYE"]
  BY <1>1 DEF HasRow, TypeInv, WorldTyped
<1>3. PICK k \in DOMAIN rows["acc"] : rows["acc"][k] = [call |-> c, method |-> "INVITE"]
  BY <1>1, <1>2 DEF RowsProper
<1>4. rows["missed_calls"][i].method # "BYE"
  BY <1>1 DEF RowsProper
<1>5. rows["missed_calls"][i] = [call |-> c, method |-> "INVITE"]
  BY <1>1, <1>4, RowTyped DEF Methods
<1> QED BY <1>1, <1>3, <1>5 DEF RowsProper

(***************************************************************************)
(* What a pass has in hand.                                                *)
(***************************************************************************)

\* A step of a pass is its own: a pass that is under way changes no other.
LEMMA Isolated ==
    ASSUME TypeInv, apart \in [Passes -> BOOLEAN], NEW p \in Passes, PassStep(p)
    PROVE  /\ pc[p] # Idle /\ UNCHANGED world
           /\ apart' \in [Passes -> BOOLEAN] /\ (apart'[p] => apart[p])
           /\ \A q \in Passes \ {p} :
                 /\ pc'[q] = pc[q] /\ cur'[q] = cur[q] /\ got'[q] = got[q]
                 /\ touched'[q] = touched[q] /\ unanswered'[q] = unanswered[q]
                 /\ apart'[q] = apart[q]
<1> DEFINE Own == /\ pc[p] # Idle /\ UNCHANGED world
                  /\ apart' \in [Passes -> BOOLEAN] /\ (apart'[p] => apart[p])
                  /\ \A q \in Passes \ {p} :
                        /\ pc'[q] = pc[q] /\ cur'[q] = cur[q] /\ got'[q] = got[q]
                        /\ touched'[q] = touched[q]
                        /\ unanswered'[q] = unanswered[q]
                        /\ apart'[q] = apart[q]
<1> USE DEF TypeInv, PassesTyped, Goto, Idle
<1>1. ASSUME End(p), pc[p] # Idle, UNCHANGED world PROVE Own
  BY <1>1 DEF End
<1>2. CASE NoSubscribers(p) \/ Save(p) \/ SaveFails(p)
  BY <1>1, <1>2 DEF NoSubscribers, Save, SaveFails, Finished
<1>3. ASSUME NEW s \in Sources, ReadSource(p, s) PROVE Own
  <2>1. \A q \in Passes \ {p} : pc'[q] = pc[q]
    BY <1>3, NextLabel DEF ReadSource
  <2> QED BY <1>3, <2>1 DEF ReadSource
<1>4. CASE StoreLine(p)
  <2>1. PICK s \in chunk[p].of :
            /\ pc[p] = "line"
            /\ IF chunk[p].next < chunk[p].last
               THEN UNCHANGED <<cur, pc>>
               ELSE /\ \E o : cur' = [cur EXCEPT ![p].off[s] = o]
                    /\ GotoNext(p, left[p])
            /\ UNCHANGED <<world, got, touched, unanswered, apart>>
    BY <1>4 DEF StoreLine
  <2>2. \A q \in Passes \ {p} : pc'[q] = pc[q] /\ cur'[q] = cur[q]
    BY <2>1, NextLabel
  <2> QED BY <2>1, <2>2
<1>5. CASE StoreLineFails(p)
  <2>1. \A q \in Passes \ {p} : pc'[q] = pc[q]
    BY <1>5, NextLabel DEF StoreLineFails
  <2> QED BY <1>5, <2>1 DEF StoreLineFails
<1>6. CASE FetchAcc(p)
  BY <1>6 DEF FetchAcc
<1>7. CASE FetchMissed(p)
  BY <1>7 DEF FetchMissed
<1>8. ASSUME NEW c \in Calls, Lookup(p, c) PROVE Own
  BY <1>8 DEF Lookup
<1>9. CASE StoreCall(p)
  BY <1>9 DEF StoreCall
<1>10. ASSUME NEW c \in Calls, StoreMissed(p, c) PROVE Own
  BY <1>10 DEF StoreMissed
<1>11. CASE KamailioFails(p)
  BY <1>11 DEF KamailioFails
<1> QED
  BY <1>2, <1>3, <1>4, <1>5, <1>6, <1>7, <1>8, <1>9, <1>10, <1>11 DEF PassStep

\* Steps of a pass that neither look a call up nor store one keep of the calls what
\* they had in hand, or drop it.
LEMMA HandsKept ==
    ASSUME TypeInv, NEW p \in Passes, PassStep(p),
           \A c \in Calls : ~ Lookup(p, c) /\ ~ StoreMissed(p, c), ~ StoreCall(p)
    PROVE  /\ UNCHANGED <<doc, clashed>>
           /\ \/ touched'[p].now = {}
              \/ UNCHANGED touched
           /\ \/ unanswered'[p] = {}
              \/ UNCHANGED unanswered
              \/ unanswered'[p] = CallsOf("missed_calls", NewRows(p, "missed_calls"))
<1> USE DEF TypeInv, PassesTyped, index, NoCall
<1>1. CASE NoSubscribers(p) \/ Save(p) \/ SaveFails(p)
  BY <1>1 DEF NoSubscribers, Save, SaveFails, End
<1>2. ASSUME NEW s \in Sources, ReadSource(p, s)
      PROVE  UNCHANGED <<doc, clashed, touched, unanswered>>
  BY <1>2 DEF ReadSource
<1>3. CASE StoreLine(p) \/ StoreLineFails(p)
  BY <1>3 DEF StoreLine, StoreLineFails
<1>4. CASE FetchAcc(p)
  <2>1. touched[p].now = {}
    BY <1>4 DEF FetchAcc, PassesProper
  <2> QED BY <1>4, <2>1 DEF FetchAcc, CallsAtHand
<1>5. CASE FetchMissed(p)
  BY <1>5 DEF FetchMissed
<1>6. CASE KamailioFails(p)
  BY <1>6 DEF KamailioFails
<1> QED BY <1>1, <1>2, <1>3, <1>4, <1>5, <1>6 DEF PassStep

\* A call that is looked up is in hand, with the end it has by then, unless it has no
\* INVITE.
LEMMA LookedUp ==
    ASSUME TypeInv, NEW p \in Passes, NEW c \in Calls, Lookup(p, c)
    PROVE  /\ touched[p].now = {}
           /\ IF HasRow(c, "INVITE")
              THEN touched'[p] = [todo |-> touched[p].todo \ {c}, now |-> {c},
                                  doc |-> IF HasRow(c, "BYE") THEN "ended" ELSE "open"]
              ELSE touched'[p] = [touched[p] EXCEPT !.todo = @ \ {c}]
           /\ touched'[p].todo = touched[p].todo \ {c}
           /\ touched'[p].now # {} => HasRow(c, "INVITE")
<1>1. /\ touched[p].now = {} /\ touched[p] \in CallsAtHand
      /\ touched \in [Passes -> CallsAtHand]
  BY DEF Lookup, TypeInv, PassesTyped, PassesProper
<1>2. CASE HasRow(c, "INVITE")
  BY <1>1, <1>2 DEF Lookup
<1>3. CASE ~ HasRow(c, "INVITE")
  <2>1. touched'[p] = [touched[p] EXCEPT !.todo = @ \ {c}]
    BY <1>1, <1>3 DEF Lookup
  <2> QED BY <1>1, <1>3, <2>1 DEF CallsAtHand
<1> QED BY <1>2, <1>3

LEMMA DocsStep ==
    ASSUME TypeInv, CallInv, [Next]_vars
    PROVE  DocsTrue'
<1> USE DEF CallInv, DocsTrue
<1>1. ASSUME NEW p \in Passes, Begin(p) PROVE DocsTrue'
  BY <1>1 DEF Begin, world, index, HasRow
<1>2. ASSUME NEW p \in Passes, PassStep(p) PROVE DocsTrue'
  <2>1. /\ UNCHANGED world
        /\ \A q \in Passes \ {p} : touched'[q] = touched[q] /\ unanswered'[q] = unanswered[q]
    BY <1>2, Isolated DEF ApartTrue
  <2>2. UNCHANGED <<rows, visible>>
    BY <2>1 DEF world
  <2>3. ASSUME NEW c \in Calls, Lookup(p, c) PROVE DocsTrue'
    <3>1. UNCHANGED <<doc, unanswered>>
      BY <2>3 DEF Lookup, index
    <3>2. \A d \in touched'[p].now :
              /\ touched'[p].doc \in {"open", "ended"}
              /\ touched'[p].doc = "ended" => HasRow(d, "BYE")
      <4>1. CASE HasRow(c, "INVITE")
        <5>1. touched'[p] = [todo |-> touched[p].todo \ {c}, now |-> {c},
                             doc |-> IF HasRow(c, "BYE") THEN "ended" ELSE "open"]
          BY <2>3, <4>1, LookedUp
        <5>2. /\ touched'[p].now = {c}
              /\ touched'[p].doc = (IF HasRow(c, "BYE") THEN "ended" ELSE "open")
          BY <5>1
        <5> QED BY <5>2
      <4>2. CASE ~ HasRow(c, "INVITE")
        BY <2>3, <4>2, LookedUp
      <4> QED BY <4>1, <4>2
    <3> QED BY <2>1, <2>2, <3>1, <3>2 DEF HasRow
  <2>4. CASE StoreCall(p)
    <3>1. PICK c \in touched[p].now : doc' = [doc EXCEPT ![c] = touched[p].doc]
      BY <2>4 DEF StoreCall, Store
    <3>2. touched'[p].now = {} /\ UNCHANGED unanswered
      BY <2>4 DEF StoreCall, TypeInv, PassesTyped, CallsAtHand
    <3>3. \A d \in Calls : doc'[d] = "ended" => HasRow(d, "BYE")
      BY <3>1 DEF TypeInv, IndexTyped
    <3> QED BY <2>1, <2>2, <3>2, <3>3 DEF HasRow
  <2>5. ASSUME NEW c \in Calls, StoreMissed(p, c) PROVE DocsTrue'
    <3>1. \A d \in Calls : doc'[d] = "ended" => HasRow(d, "BYE")
      BY <2>5 DEF StoreMissed, Store, TypeInv, IndexTyped
    <3>2. unanswered'[p] \subseteq unanswered[p] /\ UNCHANGED touched
      BY <2>5 DEF StoreMissed, TypeInv, PassesTyped
    <3> QED BY <2>1, <2>2, <3>1, <3>2 DEF HasRow
  <2>6. CASE ~ StoreCall(p) /\ \A c \in Calls : ~ Lookup(p, c) /\ ~ StoreMissed(p, c)
    <3>1. /\ UNCHANGED doc
          /\ \/ touched'[p].now = {}
             \/ UNCHANGED touched
          /\ \/ unanswered'[p] = {}
             \/ UNCHANGED unanswered
             \/ unanswered'[p] = CallsOf("missed_calls", NewRows(p, "missed_calls"))
      BY <1>2, <2>6, HandsKept
    <3>2. \A c \in CallsOf("missed_calls", NewRows(p, "missed_calls")) :
             \E i \in DOMAIN rows["missed_calls"] : rows["missed_calls"][i].call = c
      BY DEF CallsOf, NewRows, TypeInv, WorldTyped, Tables
    <3>3. \A c \in unanswered'[p] :
             \E i \in DOMAIN rows["missed_calls"] : rows["missed_calls"][i].call = c
      BY <3>1, <3>2
    <3>4. \A c \in touched'[p].now :
              /\ touched'[p].doc \in {"open", "ended"}
              /\ touched'[p].doc = "ended" => HasRow(c, "BYE")
      BY <3>1
    <3> QED BY <2>1, <2>2, <3>1, <3>3, <3>4 DEF HasRow
  <2> QED BY <2>3, <2>4, <2>5, <2>6
<1>3. CASE SourceStep
  <2>1. UNCHANGED <<doc, touched, unanswered>>
    BY <1>3, SourceStepTyped DEF index, local
  <2>2. \A c : HasRow(c, "BYE") => HasRow(c, "BYE")'
    BY <1>3, HasRowKept
  <2>3. \A i \in DOMAIN rows["missed_calls"] :
           /\ i \in DOMAIN rows'["missed_calls"]
           /\ rows'["missed_calls"][i] = rows["missed_calls"][i]
    BY <1>3, RowsGrow DEF Tables
  <2> QED BY <2>1, <2>2, <2>3
<1>4. CASE Crash
  BY <1>4 DEF Crash, world, index, HasRow, NoCall
<1>5. CASE UNCHANGED vars
  BY <1>5 DEF vars, world, index, local, HasRow
<1> QED BY <1>1, <1>2, <1>3, <1>4, <1>5 DEF Next

LEMMA ApartStep ==
    ASSUME TypeInv, CallInv, [Next]_vars
    PROVE  ApartTrue'
<1> USE DEF CallInv, ApartTrue
<1>1. ASSUME NEW p \in Passes, Begin(p) PROVE ApartTrue'
  <2>1. touched[p].now = {}
    BY <1>1 DEF Begin, TypeInv, PassesProper, Idle
  <2> QED
    BY <1>1, <2>1 DEF Begin, Goto, index, TypeInv, PassesTyped
<1>2. ASSUME NEW p \in Passes, PassStep(p) PROVE ApartTrue'
  <2>1. /\ pc[p] # Idle /\ apart' \in [Passes -> BOOLEAN] /\ (apart'[p] => apart[p])
        /\ \A q \in Passes \ {p} : /\ pc'[q] = pc[q] /\ touched'[q] = touched[q]
                                   /\ apart'[q] = apart[q]
    BY <1>2, Isolated
  <2>2. ASSUME NEW q \in Passes, apart'[q] PROVE q = p /\ apart[p]
    BY <2>1, <2>2
  <2>3. ASSUME apart'[p], NEW c \in touched'[p].now, touched'[p].doc = "open"
        PROVE  doc'[c] # "ended"
    <3>1. ASSUME NEW d \in Calls, Lookup(p, d) PROVE doc'[c] # "ended"
      <4>1. UNCHANGED doc /\ HasRow(d, "INVITE")
        BY <2>3, <3>1, LookedUp DEF Lookup, index
      <4>2. touched'[p] = [todo |-> touched[p].todo \ {d}, now |-> {d},
                           doc |-> IF HasRow(d, "BYE") THEN "ended" ELSE "open"]
        BY <3>1, <4>1, LookedUp
      <4>3. c = d /\ ~ HasRow(d, "BYE")
        BY <2>3, <4>2
      <4> QED BY <4>1, <4>3 DEF DocsTrue
    <3>2. CASE StoreCall(p)
      BY <2>3, <3>2 DEF StoreCall, TypeInv, PassesTyped, CallsAtHand
    <3>3. ASSUME NEW d \in Calls, StoreMissed(p, d) PROVE doc'[c] # "ended"
      BY <2>3, <3>3 DEF StoreMissed, TypeInv, PassesProper
    <3>4. CASE ~ StoreCall(p) /\ \A d \in Calls : ~ Lookup(p, d) /\ ~ StoreMissed(p, d)
      BY <1>2, <2>1, <2>3, <3>4, HandsKept
    <3> QED BY <3>1, <3>2, <3>3, <3>4
  <2> QED BY <2>1, <2>2, <2>3
<1>3. CASE SourceStep
  BY <1>3, SourceStepTyped DEF index, local
<1>4. CASE Crash
  BY <1>4 DEF Crash
<1>5. CASE UNCHANGED vars
  BY <1>5 DEF vars, index, local
<1> QED BY <1>1, <1>2, <1>3, <1>4, <1>5 DEF Next

LEMMA CallStep == TypeInv /\ CallInv /\ [Next]_vars => CallInv'
<1> SUFFICES ASSUME TypeInv, CallInv, [Next]_vars PROVE CallInv'
  OBVIOUS
<1>1. RowsProper'
  <2>1. CASE SourceStep
    BY <2>1, RowsProperStep DEF CallInv
  <2>2. CASE UNCHANGED rows
    BY <2>2 DEF CallInv, RowsProper
  <2>3. ASSUME NEW p \in Passes, PassStep(p) PROVE UNCHANGED rows
    BY <2>3, Isolated DEF CallInv, ApartTrue, world
  <2> QED BY <2>1, <2>2, <2>3 DEF Next, Begin, Crash, vars, world
<1> QED BY <1>1, DocsStep, ApartStep DEF CallInv

LEMMA CallInvariant == Spec => [](TypeInv /\ CallInv)
BY CallInit, CallStep, TypeInvariant, PTL DEF Spec

(* Nothing but a pass beside another one takes the end of a call away      *)
(* again (upsertCdr() from buildCdrFromAccRows() and missed_calls).        *)
THEOREM EndTheorem == Spec => EndKept
<1> DEFINE Keeps == \A c \in Calls : doc[c] = "ended" /\ doc'[c] # "ended" =>
                       \E p \in Passes : c \in touched[p].now /\ ~apart[p]
<1>1. ASSUME TypeInv, CallInv, [Next]_vars PROVE Keeps
  <2> SUFFICES ASSUME NEW c \in Calls, doc[c] = "ended", doc'[c] # "ended"
               PROVE  \E p \in Passes : c \in touched[p].now /\ ~apart[p]
    OBVIOUS
  <2> USE <1>1
  <2>1. ASSUME NEW p \in Passes, StoreCall(p)
        PROVE  c \in touched[p].now /\ ~ apart[p]
    <3>1. PICK d \in touched[p].now : doc' = [doc EXCEPT ![d] = touched[p].doc]
      BY <2>1 DEF StoreCall, Store
    <3>2. c = d /\ touched[p].doc # "ended"
      BY <3>1 DEF TypeInv, IndexTyped
    <3>3. touched[p].doc = "open"
      BY <3>2 DEF CallInv, DocsTrue
    <3> QED BY <3>2, <3>3 DEF CallInv, ApartTrue
  <2>2. ASSUME NEW p \in Passes, NEW d \in Calls, StoreMissed(p, d) PROVE FALSE
    <3>1. c = d /\ c \in unanswered[p]
      BY <2>2 DEF StoreMissed, Store, TypeInv, IndexTyped
    <3>2. PICK i \in DOMAIN rows["missed_calls"] : rows["missed_calls"][i].call = c
      BY <3>1 DEF CallInv, DocsTrue
    <3>3. HasRow(c, "BYE")
      BY DEF CallInv, DocsTrue
    <3> QED BY <3>2, <3>3, NeverBoth DEF CallInv
  <2>3. ASSUME NEW p \in Passes, PassStep(p), ~ StoreCall(p),
               \A d \in Calls : ~ StoreMissed(p, d)
        PROVE  UNCHANGED doc
    <3>1. ASSUME NEW d \in Calls, Lookup(p, d) PROVE UNCHANGED doc
      BY <3>1 DEF Lookup, index
    <3> QED BY <2>3, <3>1, HandsKept
  <2>4. CASE SourceStep
    BY <2>4, SourceStepTyped DEF index
  <2> QED BY <2>1, <2>2, <2>3, <2>4 DEF Next, Begin, Crash, vars, index
<1>2. ASSUME TypeInv, CallInv, [Next]_vars PROVE [Keeps]_vars
  BY <1>1, <1>2
<1> QED BY <1>2, CallInvariant, PTL DEF Spec, EndKept

(***************************************************************************)
(* No position passes over a row.                                          *)
(***************************************************************************)

(* A row that is not excused, up to a position.                            *)
Due(t, i, n) ==
    /\ i \in visible[t] /\ i <= n /\ <<t, i>> \notin late
    /\ OnTime(t, rows[t][i].call)

Documented(t, i) ==
    LET c == rows[t][i].call IN
    IF rows[t][i].method = "INVITE" THEN doc[c] # "none"
                                    ELSE doc[c] = "ended" \/ c \in clashed

(* A row whose call a pass has still to store.                             *)
Waiting(p, t, i) ==
    LET c == rows[t][i].call IN
    IF t = "acc"
    THEN \/ c \in touched[p].todo
         \/ /\ c \in touched[p].now
            /\ rows[t][i].method = "BYE" => touched[p].doc = "ended"
    ELSE c \in unanswered[p]

(* The id a pass would save now.                                           *)
Reach(p, t) == IF got[p][t] # 0 THEN got[p][t] ELSE cur[p].ids[t]

(* The positions are rows that are there to be read.                       *)
MarksVisible ==
    \A t \in Tables :
        /\ saved # Torn => saved.ids[t] \in visible[t] \cup {0}
        /\ \A p \in Passes : /\ cur[p].ids[t] \in visible[t] \cup {0}
                             /\ got[p][t] \in visible[t] \cup {0}

(* Before the tables are read, and once they failed, nothing is in hand.   *)
HandEmpty(p) ==
    /\ pc[p] \notin {"calls", "call"} =>
          got[p]["missed_calls"] = 0 /\ unanswered[p] = {}
    /\ pc[p] \notin {"missed_calls", "calls", "call"} =>
          got[p]["acc"] = 0 /\ touched[p].todo = {}
    /\ \A c, d \in touched[p].now : c = d

HandsEmpty == \A p \in Passes : HandEmpty(p)

(* What a position has passed is in the collection; what a pass has        *)
(* fetched is there too or waits to be stored.                             *)
SavedCovered ==
    saved # Torn =>
        \A t \in Tables : \A i \in DOMAIN rows[t] :
            Due(t, i, saved.ids[t]) => Documented(t, i)

HandCovered(p) ==
    \A t \in Tables : \A i \in DOMAIN rows[t] :
        /\ Due(t, i, cur[p].ids[t]) => Documented(t, i)
        /\ Due(t, i, Reach(p, t)) => Documented(t, i) \/ Waiting(p, t, i)

RowsInv ==
    /\ MarksVisible /\ HandsEmpty
    /\ SavedCovered /\ \A p \in Passes : HandCovered(p)

LEMMA RowsInit == Init => RowsInv
<1> SUFFICES ASSUME Init PROVE RowsInv
  OBVIOUS
<1>1. MarksVisible
  BY DEF Init, MarksVisible, Start
<1>2. HandsEmpty
  BY DEF Init, HandsEmpty, HandEmpty, Start, NoCall, Tables
<1>3. SavedCovered /\ \A p \in Passes : HandCovered(p)
  BY DEF Init, SavedCovered, HandCovered
<1> QED BY <1>1, <1>2, <1>3 DEF RowsInv

\* What is in the collection for a row stays there.
LEMMA DocumentedKept ==
    ASSUME TypeInv, CallInv, [Next]_vars,
           NEW t \in Tables, NEW i \in DOMAIN rows[t], Documented(t, i)
    PROVE  Documented(t, i)'
<1>1. CASE SourceStep
  <2>1. UNCHANGED <<doc, clashed>> /\ rows'[t][i] = rows[t][i]
    BY <1>1, SourceStepTyped, RowsGrow DEF index
  <2> QED BY <2>1 DEF Documented
<1>2. ASSUME NEW p \in Passes, PassStep(p) PROVE Documented(t, i)'
  <2> DEFINE c == rows[t][i].call
  <2>1. UNCHANGED rows
    BY <1>2, Isolated DEF CallInv, ApartTrue, world
  <2>2. rows[t][i].method \in {"INVITE", "BYE"} /\ c \in Calls
    BY RowTyped DEF Methods
  <2>3. CASE StoreCall(p)
    <3>1. PICK d \in touched[p].now : Store(p, d, touched[p].doc)
      BY <2>3 DEF StoreCall
    <3>2. /\ touched[p].doc \in {"open", "ended"}
          /\ touched[p].doc = "open" /\ apart[p] => doc[d] # "ended"
      BY <3>1 DEF CallInv, DocsTrue, ApartTrue
    <3>3. /\ d \in Calls /\ doc' = [doc EXCEPT ![d] = touched[p].doc]
          /\ clashed \subseteq clashed' /\ (~ apart[p] => d \in clashed')
      BY <3>1 DEF Store, TypeInv, PassesTyped, CallsAtHand
    <3> QED BY <2>1, <2>2, <3>2, <3>3 DEF Documented, TypeInv, IndexTyped
  <2>4. ASSUME NEW d \in Calls, StoreMissed(p, d) PROVE Documented(t, i)'
    <3>1. /\ d \in unanswered[p] /\ doc' = [doc EXCEPT ![d] = "missed"]
          /\ clashed \subseteq clashed'
      BY <2>4 DEF StoreMissed, Store
    <3>2. PICK j \in DOMAIN rows["missed_calls"] : rows["missed_calls"][j].call = d
      BY <3>1 DEF CallInv, DocsTrue
    <3>3. doc[d] # "ended"
      BY <3>2, NeverBoth DEF CallInv, DocsTrue
    <3> QED BY <2>1, <2>2, <3>1, <3>3 DEF Documented, TypeInv, IndexTyped
  <2>5. CASE ~ StoreCall(p) /\ \A d \in Calls : ~ StoreMissed(p, d)
    <3>1. ASSUME NEW d \in Calls, Lookup(p, d) PROVE UNCHANGED <<doc, clashed>>
      BY <3>1 DEF Lookup, index
    <3>2. UNCHANGED <<doc, clashed>>
      BY <1>2, <2>5, <3>1, HandsKept
    <3> QED BY <2>1, <3>2 DEF Documented
  <2> QED BY <2>3, <2>4, <2>5
<1>3. CASE UNCHANGED <<world, index>>
  BY <1>3 DEF world, index, Documented
<1> QED BY <1>1, <1>2, <1>3 DEF Next, Begin, Crash, vars

\* A commit makes no row below a position due that was not due before: the row itself
\* and, if it is the INVITE of a call, the call come late.
LEMMA DueKept ==
    ASSUME TypeInv, CallInv, SourceStep,
           NEW t \in Tables, NEW i \in DOMAIN rows'[t],
           NEW n \in visible[t] \cup {0}, Due(t, i, n)'
    PROVE  i \in DOMAIN rows[t] /\ Due(t, i, n)
<1>1. /\ rows \in [Tables -> Seq(Rows)] /\ visible \in [Tables -> SUBSET Nat]
      /\ \A u \in Tables : visible[u] \subseteq DOMAIN rows[u]
  BY DEF TypeInv, WorldTyped
<1>2. \A u \in Tables : \A j \in DOMAIN rows[u] :
         j \in DOMAIN rows'[u] /\ rows'[u][j] = rows[u][j] /\ j \in Nat /\ j > 0
  BY <1>1, RowsGrow
<1>3. CASE UNCHANGED <<visible, late>>
  <2>1. i \in visible[t] /\ i \in DOMAIN rows[t] /\ i <= n /\ <<t, i>> \notin late
    BY <1>1, <1>3 DEF Due
  <2>2. OnTime(t, rows[t][i].call)
    BY <1>1, <1>2, <1>3, <2>1 DEF Due, OnTime
  <2> QED BY <2>1, <2>2 DEF Due
<1>4. ASSUME NEW u \in Tables, NEW k \in DOMAIN rows[u], Commit(u, k)
      PROVE  i \in DOMAIN rows[t] /\ Due(t, i, n)
  <2>1. /\ UNCHANGED rows /\ k \notin visible[u]
        /\ visible'[u] = visible[u] \cup {k}
        /\ \A v \in Tables \ {u} : visible'[v] = visible[v]
        /\ late \subseteq late'
        /\ (\E j \in visible[u] : j > k) => <<u, k>> \in late'
    BY <1>1, <1>4 DEF Commit
  <2>2. /\ i \in DOMAIN rows[t] /\ i \in visible'[t] /\ i <= n
        /\ <<t, i>> \notin late' /\ OnTime(t, rows[t][i].call)'
    BY <2>1 DEF Due
  <2>3. n \in visible[t] /\ n \in Nat /\ i \in Nat
    BY <1>1, <1>2, <2>2
  <2>4. i \in visible[t] /\ <<t, i>> \notin late
    <3>1. CASE t = u /\ i = k
      BY <1>2, <2>1, <2>2, <2>3, <3>1
    <3>2. CASE ~ (t = u /\ i = k)
      BY <2>1, <2>2, <3>2
    <3> QED BY <3>1, <3>2
  <2>5. OnTime(t, rows[t][i].call)
    <3> DEFINE c == rows[t][i].call
               invite == [call |-> c, method |-> "INVITE"]
    <3>1. PICK j \in visible'[t] : rows'[t][j] = invite /\ <<t, j>> \notin late'
      BY <2>1, <2>2 DEF OnTime
    <3>2. CASE j \in visible[t]
      BY <2>1, <3>1, <3>2 DEF OnTime
    <3>3. CASE j \notin visible[t]
      <4>1. j = k /\ t = u /\ rows[t][k] = invite
        BY <2>1, <3>1, <3>3
      <4>2. i < k
        BY <1>2, <2>1, <2>2, <2>3, <3>1, <4>1
      <4>3. invite.method = "INVITE"
        OBVIOUS
      <4>4. CASE rows[t][i].method = "INVITE"
        <5>1. rows[t][i] = invite
          BY <2>2, <4>4, RowTyped
        <5> QED BY <2>2, <2>3, <4>1, <4>2, <4>3, <5>1, <1>2 DEF CallInv, RowsProper
      <4>5. CASE rows[t][i].method = "BYE"
        <5>1. PICK l \in DOMAIN rows[t] : l < i /\ rows[t][l] = invite
          BY <2>2, <4>5 DEF CallInv, RowsProper
        <5>2. l = k
          BY <4>1, <4>3, <5>1 DEF CallInv, RowsProper
        <5> QED BY <1>2, <2>3, <4>1, <4>2, <5>1, <5>2
      <4> QED BY <2>2, <4>4, <4>5, RowTyped DEF Methods
    <3> QED BY <3>2, <3>3
  <2> QED BY <2>2, <2>4, <2>5 DEF Due
<1> QED
  BY <1>3, <1>4 DEF SourceStep, WriteHalf, WriteRest, Rotate, Insert

\* The rows a fetch reaches are there to be read.
LEMMA LastVisible ==
    ASSUME TypeInv, NEW p \in Passes, NEW t \in Tables
    PROVE  LastId(NewRows(p, t)) \in visible[t] \cup {0}
<1>1. NewRows(p, t) \subseteq visible[t] /\ NewRows(p, t) \subseteq DOMAIN rows[t]
      /\ rows[t] \in Seq(Rows)
  BY DEF TypeInv, WorldTyped, NewRows
<1>2. CASE NewRows(p, t) = {}
  BY <1>2 DEF LastId
<1>3. CASE NewRows(p, t) # {}
  <2>1. Len(rows[t]) \in Nat /\ NewRows(p, t) \in SUBSET (1..Len(rows[t]))
    BY <1>1
  <2>2. Max(NewRows(p, t)) \in NewRows(p, t)
    BY <1>3, <2>1, LargestId
  <2> QED BY <1>1, <1>3, <2>2 DEF LastId
<1> QED BY <1>2, <1>3

\* A step that reads nothing new of the tables leaves each row in hand or stores it.
LEMMA HandStep ==
    ASSUME TypeInv, CallInv, RowsInv, [Next]_vars, NEW q \in Passes,
           UNCHANGED <<rows, visible, late>>,
           cur'[q].ids = cur[q].ids,
           \A t \in Tables : \/ Reach(q, t)' = cur[q].ids[t]
                             \/ /\ Reach(q, t)' = Reach(q, t)
                                /\ \A i \in DOMAIN rows[t] :
                                      Due(t, i, Reach(q, t)) /\ Waiting(q, t, i) =>
                                          Documented(t, i)' \/ Waiting(q, t, i)'
    PROVE  HandCovered(q)'
<1> SUFFICES ASSUME NEW t \in Tables, NEW i \in DOMAIN rows[t]
             PROVE  /\ Due(t, i, cur[q].ids[t])' => Documented(t, i)'
                    /\ Due(t, i, Reach(q, t))' => Documented(t, i)' \/ Waiting(q, t, i)'
  BY DEF HandCovered
<1>1. Documented(t, i) => Documented(t, i)'
  BY DocumentedKept
<1>2. Due(t, i, cur[q].ids[t])' => Due(t, i, cur[q].ids[t])
  BY DEF Due, OnTime
<1>3. Due(t, i, Reach(q, t))' => Due(t, i, cur[q].ids[t]) \/ Due(t, i, Reach(q, t))
  BY DEF Due, OnTime
<1>4. /\ Due(t, i, cur[q].ids[t]) => Documented(t, i)
      /\ Due(t, i, Reach(q, t)) => Documented(t, i) \/ Waiting(q, t, i)
  BY DEF RowsInv, HandCovered
<1>5. CASE Reach(q, t)' = cur[q].ids[t]
  <2>1. Due(t, i, Reach(q, t))' => Due(t, i, cur[q].ids[t])
    BY <1>5 DEF Due, OnTime
  <2> QED BY <1>1, <1>2, <1>4, <2>1
<1>6. CASE /\ Reach(q, t)' = Reach(q, t)
           /\ Due(t, i, Reach(q, t)) /\ Waiting(q, t, i) =>
                  Documented(t, i)' \/ Waiting(q, t, i)'
  <2>1. Due(t, i, Reach(q, t))' => Due(t, i, Reach(q, t))
    BY <1>6 DEF Due, OnTime
  <2> QED BY <1>1, <1>2, <1>4, <1>6, <2>1
<1> QED BY <1>5, <1>6

\* A fetch keeps the calls of the rows it reaches.
LEMMA FetchStep ==
    ASSUME TypeInv, CallInv, RowsInv, [Next]_vars, NEW p \in Passes,
           FetchAcc(p) \/ FetchMissed(p)
    PROVE  HandCovered(p)'
<1>1. UNCHANGED <<rows, visible, late, cur>>
  BY DEF FetchAcc, FetchMissed, world
<1>2. PICK f \in Tables :
          /\ got'[p] = [got[p] EXCEPT ![f] = LastId(NewRows(p, f))]
          /\ f = "acc" => /\ FetchAcc(p)
                          /\ touched'[p].todo = CallsOf("acc", NewRows(p, "acc"))
          /\ f = "missed_calls" =>
                /\ FetchMissed(p)
                /\ unanswered'[p] = CallsOf("missed_calls", NewRows(p, "missed_calls"))
  <2>1. CASE FetchAcc(p)
    <3>1. touched'[p].todo = CallsOf("acc", NewRows(p, "acc"))
      BY <2>1 DEF FetchAcc, TypeInv, PassesTyped, CallsAtHand
    <3> QED BY <2>1, <3>1 DEF FetchAcc, TypeInv, PassesTyped, Tables
  <2>2. CASE FetchMissed(p)
    BY <2>2 DEF FetchMissed, TypeInv, PassesTyped, Tables
  <2> QED BY <2>1, <2>2
<1>3. ASSUME NEW t \in Tables, NEW i \in DOMAIN rows[t]
      PROVE  /\ Due(t, i, cur[p].ids[t])' => Documented(t, i)'
             /\ Due(t, i, Reach(p, t))' => Documented(t, i)' \/ Waiting(p, t, i)'
  <2>1. Documented(t, i) => Documented(t, i)'
    BY DocumentedKept
  <2>2. Due(t, i, cur[p].ids[t])' => Due(t, i, cur[p].ids[t])
    BY <1>1 DEF Due, OnTime
  <2>3. /\ Due(t, i, cur[p].ids[t]) => Documented(t, i)
        /\ Due(t, i, Reach(p, t)) => Documented(t, i) \/ Waiting(p, t, i)
    BY DEF RowsInv, HandCovered
  <2>4. ASSUME t = f, Due(t, i, Reach(p, t))' PROVE Documented(t, i)' \/ Waiting(p, t, i)'
    <3>1. CASE i <= cur[p].ids[t]
      <4>1. Due(t, i, cur[p].ids[t])
        BY <1>1, <2>4, <3>1 DEF Due, OnTime
      <4> QED BY <2>1, <2>3, <4>1
    <3>2. CASE ~ (i <= cur[p].ids[t])
      <4>1. i \in NewRows(p, t)
        <5>1. i \in visible[t]
          BY <1>1, <2>4 DEF Due
        <5>2. i \in Nat
          BY RowTyped
        <5>3. cur[p].ids[t] \in Nat
          BY DEF TypeInv, PassesTyped, Positions
        <5> QED BY <3>2, <5>1, <5>2, <5>3 DEF NewRows
      <4>2. rows[t][i].call \in CallsOf(t, NewRows(p, t))
        BY <4>1 DEF CallsOf
      <4>3. CASE t = "acc"
        BY <1>1, <1>2, <2>4, <4>2, <4>3 DEF Waiting
      <4>4. CASE t = "missed_calls"
        BY <1>1, <1>2, <2>4, <4>2, <4>4 DEF Waiting
      <4> QED BY <4>3, <4>4 DEF Tables
    <3> QED BY <3>1, <3>2
  <2>5. ASSUME t # f, Due(t, i, Reach(p, t))' PROVE Documented(t, i)' \/ Waiting(p, t, i)'
    <3>1. got'[p][t] = got[p][t]
      BY <1>2, <2>5 DEF TypeInv, PassesTyped
    <3>2. Due(t, i, Reach(p, t))
      BY <1>1, <2>5, <3>1 DEF Due, OnTime, Reach
    <3>3. Waiting(p, t, i) => Waiting(p, t, i)'
      <4>1. CASE t = "acc"
        <5>1. UNCHANGED touched
          BY <1>2, <2>5, <4>1 DEF Tables, FetchMissed
        <5> QED BY <1>1, <4>1, <5>1 DEF Waiting
      <4>2. CASE t # "acc"
        <5>1. UNCHANGED unanswered
          BY <1>2, <2>5, <4>2 DEF Tables, FetchAcc
        <5> QED BY <1>1, <4>2, <5>1 DEF Waiting
      <4> QED BY <4>1, <4>2
    <3> QED BY <2>1, <2>3, <3>2, <3>3
  <2> QED BY <2>1, <2>2, <2>3, <2>4, <2>5
<1> QED BY <1>1, <1>3 DEF HandCovered

\* A pass that has nothing in hand has reached what its position says.
LEMMA FreshHand ==
    ASSUME TypeInv, CallInv, RowsInv, [Next]_vars, NEW p \in Passes,
           UNCHANGED <<rows, visible, late>>,
           \A t \in Tables : got'[p][t] = 0,
           \/ cur'[p].ids = Start.ids
           \/ saved # Torn /\ cur'[p].ids = saved.ids
    PROVE  HandCovered(p)'
<1> SUFFICES ASSUME NEW t \in Tables, NEW i \in DOMAIN rows[t],
                    Due(t, i, cur[p].ids[t])'
             PROVE  Documented(t, i)'
  BY DEF HandCovered, Reach
<1>1. CASE cur'[p].ids = Start.ids
  <2>1. i \in Nat /\ i > 0
    BY DEF TypeInv, WorldTyped
  <2> QED BY <1>1, <2>1 DEF Due, Start
<1>2. CASE saved # Torn /\ cur'[p].ids = saved.ids
  <2>1. Due(t, i, saved.ids[t])
    BY <1>2 DEF Due, OnTime
  <2>2. Documented(t, i)
    BY <1>2, <2>1 DEF RowsInv, SavedCovered
  <2> QED BY <2>2, DocumentedKept
<1> QED BY <1>1, <1>2

\* Every step of a pass keeps the rows it is about.
LEMMA OwnHand ==
    ASSUME TypeInv, CallInv, RowsInv, [Next]_vars, NEW p \in Passes, PassStep(p)
    PROVE  HandCovered(p)'
<1>1. UNCHANGED <<rows, visible, late>>
  BY Isolated DEF CallInv, ApartTrue, world
<1> USE <1>1
<1>2. \A t \in Tables : Start.ids[t] = 0
  BY DEF Start
<1>3. CASE NoSubscribers(p) \/ Save(p) \/ SaveFails(p)
  <2>1. cur'[p] = Start /\ got'[p] = Start.ids
    BY <1>3 DEF NoSubscribers, Save, SaveFails, End, TypeInv, PassesTyped
  <2> QED BY <1>2, <2>1, FreshHand
<1>4. ASSUME UNCHANGED <<got, touched, unanswered>>, cur'[p].ids = cur[p].ids
      PROVE  HandCovered(p)'
  BY <1>4, HandStep DEF Reach, Waiting
<1>5. ASSUME NEW s \in Sources, ReadSource(p, s) PROVE HandCovered(p)'
  BY <1>4, <1>5 DEF ReadSource
<1>6. CASE StoreLine(p)
  <2>1. /\ UNCHANGED <<got, touched, unanswered>>
        /\ \/ UNCHANGED cur
           \/ \E s, o : cur' = [cur EXCEPT ![p].off[s] = o]
    BY <1>6 DEF StoreLine
  <2>2. cur'[p].ids = cur[p].ids
    BY <2>1 DEF TypeInv, PassesTyped, Positions
  <2> QED BY <1>4, <2>1, <2>2
<1>7. CASE StoreLineFails(p)
  BY <1>4, <1>7 DEF StoreLineFails
<1>8. CASE FetchAcc(p) \/ FetchMissed(p)
  BY <1>8, FetchStep
<1>9. ASSUME NEW c \in Calls, Lookup(p, c) PROVE HandCovered(p)'
  <2>1. UNCHANGED <<cur, got, unanswered>>
    BY <1>9 DEF Lookup
  <2>2. ASSUME NEW t \in Tables, NEW i \in DOMAIN rows[t],
               Due(t, i, Reach(p, t)), Waiting(p, t, i)
        PROVE  Waiting(p, t, i)'
    <3> DEFINE d == rows[t][i].call
    <3>1. CASE t = "acc"
      <4>1. d \in touched[p].todo
        BY <1>9, <2>2, <3>1, LookedUp DEF Waiting
      <4>2. CASE d # c
        <5>1. touched'[p].todo = touched[p].todo \ {c}
          BY <1>9, LookedUp
        <5>2. rows'[t][i].call = d
          OBVIOUS
        <5> QED BY <3>1, <4>1, <4>2, <5>1, <5>2 DEF Waiting
      <4>3. CASE d = c
        <5>1. HasRow(c, "INVITE")
          BY <2>2, <3>1, <4>3 DEF Due, OnTime, HasRow
        <5>2. touched'[p] = [todo |-> touched[p].todo \ {c}, now |-> {c},
                             doc |-> IF HasRow(c, "BYE") THEN "ended" ELSE "open"]
          BY <1>9, <5>1, LookedUp
        <5>3. rows[t][i].method = "BYE" => HasRow(c, "BYE")
          BY <2>2, <3>1, <4>3, RowTyped DEF Due, HasRow
        <5> QED BY <3>1, <4>3, <5>2, <5>3 DEF Waiting
      <4> QED BY <4>2, <4>3
    <3>2. CASE t # "acc"
      BY <2>1, <2>2, <3>2 DEF Waiting
    <3> QED BY <3>1, <3>2
  <2> QED BY <2>1, <2>2, HandStep DEF Reach
<1>10. CASE StoreCall(p)
  <2>1. UNCHANGED <<cur, got, unanswered>>
    BY <1>10 DEF StoreCall
  <2>2. PICK c \in touched[p].now : Store(p, c, touched[p].doc)
    BY <1>10 DEF StoreCall
  <2>3. /\ \A d \in touched[p].now : d = c
        /\ touched'[p].todo = touched[p].todo /\ c \in Calls
        /\ touched[p].doc \in {"open", "ended"} /\ doc'[c] = touched[p].doc
    BY <1>10, <2>2
    DEF StoreCall, Store, RowsInv, HandsEmpty, HandEmpty, CallInv, DocsTrue, TypeInv,
        PassesTyped, CallsAtHand, IndexTyped
  <2>4. ASSUME NEW t \in Tables, NEW i \in DOMAIN rows[t], Waiting(p, t, i)
        PROVE  Documented(t, i)' \/ Waiting(p, t, i)'
    <3>1. rows[t][i].method \in {"INVITE", "BYE"}
      BY RowTyped DEF Methods
    <3> QED BY <2>1, <2>3, <2>4, <3>1 DEF Waiting, Documented
  <2> QED BY <2>1, <2>4, HandStep DEF Reach
<1>11. ASSUME NEW c \in Calls, StoreMissed(p, c) PROVE HandCovered(p)'
  <2>1. /\ UNCHANGED <<cur, got, touched>> /\ doc'[c] = "missed"
        /\ unanswered'[p] = unanswered[p] \ {c}
    BY <1>11 DEF StoreMissed, Store, TypeInv, PassesTyped, IndexTyped
  <2>2. ASSUME NEW t \in Tables, NEW i \in DOMAIN rows[t], Waiting(p, t, i)
        PROVE  Documented(t, i)' \/ Waiting(p, t, i)'
    <3>1. CASE t = "acc" \/ rows[t][i].call # c
      BY <2>1, <2>2, <3>1 DEF Waiting
    <3>2. CASE t # "acc" /\ rows[t][i].call = c
      <4>1. rows[t][i].method = "INVITE"
        <5>1. rows[t][i].method # "BYE"
          BY <3>2 DEF CallInv, RowsProper
        <5> QED BY <5>1, RowTyped DEF Methods
      <4> QED BY <2>1, <3>2, <4>1 DEF Documented
    <3> QED BY <3>1, <3>2
  <2> QED BY <2>1, <2>2, HandStep DEF Reach
<1>12. CASE KamailioFails(p)
  <2>1. UNCHANGED cur /\ got'[p] = Start.ids
    BY <1>12 DEF KamailioFails, TypeInv, PassesTyped
  <2>2. \A t \in Tables : Reach(p, t)' = cur[p].ids[t]
    BY <1>2, <2>1 DEF Reach
  <2> QED BY <2>1, <2>2, HandStep
<1> QED
  BY <1>3, <1>5, <1>6, <1>7, <1>8, <1>9, <1>10, <1>11, <1>12 DEF PassStep

\* What is saved is what the pass has reached, and nothing waits any more.
LEMMA SavedStep ==
    ASSUME TypeInv, CallInv, RowsInv, [Next]_vars, UNCHANGED <<rows, visible, late>>
    PROVE  SavedCovered'
<1>1. ASSUME saved' = saved PROVE SavedCovered'
  <2> SUFFICES ASSUME saved' # Torn, NEW t \in Tables, NEW i \in DOMAIN rows[t],
                      Due(t, i, saved.ids[t])'
               PROVE  Documented(t, i)'
    BY DEF SavedCovered
  <2>1. Due(t, i, saved.ids[t])
    BY <1>1 DEF Due, OnTime
  <2>2. Documented(t, i)
    BY <1>1, <2>1 DEF RowsInv, SavedCovered
  <2> QED BY <2>2, DocumentedKept
<1>2. CASE saved' = Torn
  BY <1>2 DEF SavedCovered
<1>3. ASSUME NEW p \in Passes, Save(p) PROVE SavedCovered'
  <2>1. \A t \in Tables : saved'.ids[t] = Reach(p, t)
    <3>1. cur[p] \in Positions /\ saved' = Reached(p)
      BY <1>3 DEF Save, TypeInv, PassesTyped
    <3> QED BY <3>1 DEF Reached, Reach, Positions
  <2>2. \A t \in Tables : \A i \in DOMAIN rows[t] :
           Waiting(p, t, i) => Reach(p, t) = cur[p].ids[t]
    <3>1. CASE pc[p] = "save"
      BY <3>1 DEF Reach, RowsInv, HandsEmpty, HandEmpty, Tables
    <3>2. CASE pc[p] = "calls" /\ touched[p].todo = {} /\ unanswered[p] = {}
      <4>1. touched[p].now = {}
        BY <3>2 DEF TypeInv, PassesProper
      <4> QED BY <3>2, <4>1 DEF Waiting
    <3> QED BY <1>3, <3>1, <3>2 DEF Save, Finished
  <2> SUFFICES ASSUME NEW t \in Tables, NEW i \in DOMAIN rows[t],
                      Due(t, i, saved.ids[t])'
               PROVE  Documented(t, i)'
    BY DEF SavedCovered
  <2>3. Due(t, i, Reach(p, t))
    BY <2>1 DEF Due, OnTime
  <2>4. Documented(t, i)
    BY <2>2, <2>3 DEF RowsInv, HandCovered
  <2> QED BY <2>4, DocumentedKept
<1>4. saved' = saved \/ saved' = Torn \/ \E p \in Passes : Save(p)
  <2>1. ASSUME NEW p \in Passes, PassStep(p), ~ Save(p) PROVE saved' = saved
    BY <2>1
    DEF PassStep, NoSubscribers, ReadSource, StoreLine, StoreLineFails, FetchAcc,
        FetchMissed, Lookup, StoreMissed, StoreCall, KamailioFails, SaveFails
  <2>2. CASE SourceStep
    BY <2>2, SourceStepTyped
  <2> QED BY <2>1, <2>2 DEF Next, Begin, Crash, vars
<1> QED BY <1>1, <1>2, <1>3, <1>4

LEMMA MarksStep ==
    ASSUME TypeInv, CallInv, RowsInv, [Next]_vars
    PROVE  MarksVisible'
<1>1. ASSUME \A t \in Tables :
                /\ visible[t] \subseteq visible'[t]
                /\ saved' # Torn => saved'.ids[t] \in visible[t] \cup {0}
                /\ \A p \in Passes : /\ cur'[p].ids[t] \in visible[t] \cup {0}
                                     /\ got'[p][t] \in visible[t] \cup {0}
      PROVE  MarksVisible'
  BY <1>1 DEF MarksVisible
<1>2. \A t \in Tables :
         /\ saved # Torn => saved.ids[t] \in visible[t] \cup {0}
         /\ \A p \in Passes : /\ cur[p].ids[t] \in visible[t] \cup {0}
                              /\ got[p][t] \in visible[t] \cup {0}
  BY DEF RowsInv, MarksVisible
<1>3. \A t \in Tables : Start.ids[t] = 0
  BY DEF Start
<1>4. CASE SourceStep
  BY <1>1, <1>2, <1>4, RowsGrow, SourceStepTyped DEF local
<1>5. CASE Crash
  BY <1>1, <1>2, <1>3, <1>5 DEF Crash, world
<1>6. CASE UNCHANGED vars
  BY <1>1, <1>2, <1>6 DEF vars, world, local
<1>7. ASSUME NEW p \in Passes, Begin(p) PROVE MarksVisible'
  <2>1. cur' = [cur EXCEPT ![p] = LoadState] /\ UNCHANGED <<visible, saved, got>>
    BY <1>7 DEF Begin, world
  <2>2. \A t \in Tables : LoadState.ids[t] \in visible[t] \cup {0}
    <3>1. CASE saved = Torn
      BY <1>3, <3>1 DEF LoadState
    <3>2. CASE saved # Torn
      BY <1>2, <3>2 DEF LoadState
    <3> QED BY <3>1, <3>2
  <2>3. \A q \in Passes : cur'[q] = cur[q] \/ cur'[q] = LoadState
    BY <2>1 DEF TypeInv, PassesTyped
  <2>4. \A q \in Passes, t \in Tables : cur'[q].ids[t] \in visible[t] \cup {0}
    BY <1>2, <2>2, <2>3
  <2> QED BY <1>1, <1>2, <2>1, <2>4
<1>8. ASSUME NEW p \in Passes, PassStep(p) PROVE MarksVisible'
  <2>1. /\ UNCHANGED visible
        /\ \A q \in Passes \ {p} : cur'[q] = cur[q] /\ got'[q] = got[q]
    BY <1>8, Isolated DEF CallInv, ApartTrue, world
  <2>2. ASSUME \A t \in Tables :
                  /\ saved' # Torn => saved'.ids[t] \in visible[t] \cup {0}
                  /\ cur'[p].ids[t] \in visible[t] \cup {0}
                  /\ got'[p][t] \in visible[t] \cup {0}
        PROVE  MarksVisible'
    BY <1>1, <1>2, <2>1, <2>2
  <2>3. CASE Save(p)
    <3>1. cur'[p] = Start /\ got'[p] = Start.ids
      BY <2>3 DEF Save, End, TypeInv, PassesTyped
    <3>2. \A t \in Tables : saved'.ids[t] = Reach(p, t)
      <4>1. cur[p] \in Positions /\ saved' = Reached(p)
        BY <2>3 DEF Save, TypeInv, PassesTyped
      <4> QED BY <4>1 DEF Reached, Reach, Positions
    <3>3. \A t \in Tables : Reach(p, t) \in visible[t] \cup {0}
      BY <1>2 DEF Reach
    <3> QED BY <1>3, <2>2, <3>1, <3>2, <3>3
  <2>4. CASE NoSubscribers(p) \/ SaveFails(p)
    <3>1. cur'[p] = Start /\ got'[p] = Start.ids /\ UNCHANGED saved
      BY <2>4 DEF NoSubscribers, SaveFails, End, TypeInv, PassesTyped
    <3> QED BY <1>2, <1>3, <2>2, <3>1
  <2>5. CASE FetchAcc(p) \/ FetchMissed(p)
    <3>1. /\ UNCHANGED <<cur, saved>>
          /\ \A t \in Tables : \/ got'[p][t] = got[p][t]
                               \/ got'[p][t] = LastId(NewRows(p, t))
      BY <2>5 DEF FetchAcc, FetchMissed, TypeInv, PassesTyped, Tables
    <3> QED BY <1>2, <2>2, <3>1, LastVisible
  <2>6. CASE StoreLine(p)
    <3>1. /\ UNCHANGED <<got, saved>>
          /\ \/ UNCHANGED cur
             \/ \E s, o : cur' = [cur EXCEPT ![p].off[s] = o]
      BY <2>6 DEF StoreLine
    <3>2. cur'[p].ids = cur[p].ids
      BY <3>1 DEF TypeInv, PassesTyped, Positions
    <3> QED BY <1>2, <2>2, <3>1, <3>2
  <2>7. CASE KamailioFails(p)
    <3>1. UNCHANGED <<cur, saved>> /\ got'[p] = Start.ids
      BY <2>7 DEF KamailioFails, TypeInv, PassesTyped
    <3> QED BY <1>2, <1>3, <2>2, <3>1
  <2>8. CASE ~ (Save(p) \/ NoSubscribers(p) \/ SaveFails(p) \/ FetchAcc(p)
                \/ FetchMissed(p) \/ StoreLine(p) \/ KamailioFails(p))
    <3>1. UNCHANGED <<cur, got, saved>>
      BY <1>8, <2>8
      DEF PassStep, ReadSource, StoreLineFails, Lookup, StoreMissed, StoreCall
    <3> QED BY <1>2, <2>2, <3>1
  <2> QED BY <2>3, <2>4, <2>5, <2>6, <2>7, <2>8
<1> QED BY <1>4, <1>5, <1>6, <1>7, <1>8 DEF Next

LEMMA HandsStep ==
    ASSUME TypeInv, TypeInv', CallInv, RowsInv, [Next]_vars
    PROVE  HandsEmpty'
<1> USE DEF HandEmpty
<1>1. \A p \in Passes : HandEmpty(p)
  BY DEF RowsInv, HandsEmpty
<1>2. "acc" \in Tables /\ "missed_calls" \in Tables /\ "acc" # "missed_calls"
  BY DEF Tables
<1>3. Start.ids["acc"] = 0 /\ Start.ids["missed_calls"] = 0
  BY <1>2 DEF Start
<1>4. ASSUME NEW p \in Passes, got'[p] = Start.ids, touched'[p] = NoCall,
             unanswered'[p] = {}
      PROVE  HandEmpty(p)'
  BY <1>3, <1>4 DEF NoCall
<1>5. ASSUME NEW p \in Passes, UNCHANGED <<got, touched, unanswered>>,
             \/ pc'[p] = pc[p]
             \/ {pc[p], pc'[p]} \cap {"missed_calls", "calls", "call"} = {}
      PROVE  HandEmpty(p)'
  BY <1>1, <1>5
<1>6. ASSUME NEW p \in Passes, Begin(p) PROVE HandsEmpty'
  <2>1. /\ UNCHANGED <<got, touched, unanswered>> /\ pc[p] = Idle
        /\ pc'[p] = "source" /\ \A q \in Passes \ {p} : pc'[q] = pc[q]
    BY <1>6 DEF Begin, Goto, TypeInv, PassesTyped
  <2>2. \A q \in Passes : HandEmpty(q)'
    BY <1>5, <2>1 DEF Idle
  <2> QED BY <2>2 DEF HandsEmpty
<1>7. ASSUME NEW p \in Passes, PassStep(p) PROVE HandsEmpty'
  <2>1. \A q \in Passes \ {p} : /\ pc'[q] = pc[q] /\ got'[q] = got[q]
                                /\ touched'[q] = touched[q]
                                /\ unanswered'[q] = unanswered[q]
    BY <1>7, Isolated DEF CallInv, ApartTrue
  <2>2. \A q \in Passes \ {p} : HandEmpty(q)'
    BY <1>1, <2>1
  <2>3. ASSUME NoSubscribers(p) \/ Save(p) \/ SaveFails(p) \/ KamailioFails(p) PROVE HandEmpty(p)'
    <3>1. got'[p] = Start.ids /\ touched'[p] = NoCall /\ unanswered'[p] = {}
      BY <2>3
      DEF NoSubscribers, Save, SaveFails, End, KamailioFails, TypeInv, PassesTyped
    <3> QED BY <1>4, <3>1
  <2>4. ASSUME NEW s \in Sources, ReadSource(p, s) PROVE HandEmpty(p)'
    <3>1. pc[p] = "source" /\ UNCHANGED <<got, touched, unanswered>>
      BY <2>4 DEF ReadSource
    <3>2. pc'[p] \in {"line", "source", "acc", "save"}
      BY <2>4, NextLabel DEF ReadSource, Goto, TypeInv, PassesTyped
    <3> QED BY <1>5, <3>1, <3>2
  <2>5. ASSUME StoreLine(p) \/ StoreLineFails(p) PROVE HandEmpty(p)'
    <3>1. pc[p] = "line" /\ UNCHANGED <<got, touched, unanswered>>
      BY <2>5 DEF StoreLine, StoreLineFails
    <3>2. pc'[p] \in {"line", "source", "acc", "save"}
      BY <2>5, <3>1, NextLabel DEF StoreLine, StoreLineFails
    <3> QED BY <1>5, <3>1, <3>2
  <2>6. ASSUME FetchAcc(p) PROVE HandEmpty(p)'
    <3>1. /\ pc[p] = "acc" /\ pc'[p] = "missed_calls" /\ UNCHANGED unanswered
          /\ got'[p]["missed_calls"] = got[p]["missed_calls"]
          /\ touched'[p].now = touched[p].now
      BY <1>2, <2>6 DEF FetchAcc, Goto, TypeInv, PassesTyped, CallsAtHand
    <3> QED BY <1>1, <3>1
  <2>7. ASSUME FetchMissed(p) PROVE HandEmpty(p)'
    <3>1. pc'[p] = "calls" /\ UNCHANGED touched
      BY <2>7 DEF FetchMissed, Goto, TypeInv, PassesTyped
    <3> QED BY <1>1, <3>1
  <2>8. ASSUME NEW c \in Calls, Lookup(p, c) PROVE HandEmpty(p)'
    <3>1. pc'[p] \in {"calls", "call"}
      BY <2>8 DEF Lookup, Goto, TypeInv, PassesTyped
    <3>2. \A d, e \in touched'[p].now : d = e
      <4>1. CASE HasRow(c, "INVITE")
        <5>1. touched'[p] = [todo |-> touched[p].todo \ {c}, now |-> {c},
                             doc |-> IF HasRow(c, "BYE") THEN "ended" ELSE "open"]
          BY <2>8, <4>1, LookedUp
        <5>2. touched'[p].now = {c}
          BY <5>1
        <5> QED BY <5>2
      <4>2. CASE ~ HasRow(c, "INVITE")
        BY <2>8, <4>2, LookedUp
      <4> QED BY <4>1, <4>2
    <3> QED BY <3>1, <3>2
  <2>9. ASSUME StoreCall(p) PROVE HandEmpty(p)'
    <3>1. pc'[p] = "calls" /\ touched'[p].now = {}
      BY <2>9 DEF StoreCall, Goto, TypeInv, PassesTyped, CallsAtHand
    <3> QED BY <3>1
  <2>10. ASSUME NEW c \in Calls, StoreMissed(p, c) PROVE HandEmpty(p)'
    <3>1. pc'[p] = "calls" /\ UNCHANGED touched
      BY <2>10 DEF StoreMissed
    <3> QED BY <1>1, <3>1
  <2>11. HandEmpty(p)'
    BY <1>7, <2>3, <2>4, <2>5, <2>6, <2>7, <2>8, <2>9, <2>10 DEF PassStep
  <2>12. \A q \in Passes : HandEmpty(q)'
    BY <2>2, <2>11
  <2> QED BY <2>12 DEF HandsEmpty
<1>8. CASE SourceStep
  BY <1>1, <1>8, SourceStepTyped DEF local, HandsEmpty
<1>9. CASE Crash
  <2>1. \A p \in Passes : got'[p] = Start.ids /\ touched'[p] = NoCall /\ unanswered'[p] = {}
    BY <1>9 DEF Crash
  <2>2. \A p \in Passes : HandEmpty(p)'
    BY <1>4, <2>1
  <2> QED BY <2>2 DEF HandsEmpty
<1>10. CASE UNCHANGED vars
  BY <1>1, <1>10 DEF vars, local, HandsEmpty
<1> QED BY <1>6, <1>7, <1>8, <1>9, <1>10 DEF Next

LEMMA RowsStep == TypeInv /\ TypeInv' /\ CallInv /\ RowsInv /\ [Next]_vars => RowsInv'
<1> SUFFICES ASSUME TypeInv, TypeInv', CallInv, RowsInv, [Next]_vars PROVE RowsInv'
  OBVIOUS
<1>1. ASSUME NEW q \in Passes, UNCHANGED <<rows, visible, late>>,
             cur'[q] = cur[q], got'[q] = got[q], touched'[q] = touched[q],
             unanswered'[q] = unanswered[q]
      PROVE  HandCovered(q)'
  BY <1>1, HandStep DEF Reach, Waiting
<1>2. ASSUME NEW p \in Passes, Begin(p)
      PROVE  SavedCovered' /\ \A q \in Passes : HandCovered(q)'
  <2>1. /\ UNCHANGED <<rows, visible, late, got, touched, unanswered>>
        /\ cur'[p] = LoadState /\ pc[p] = Idle
        /\ \A q \in Passes \ {p} : cur'[q] = cur[q]
    BY <1>2 DEF Begin, world, TypeInv, PassesTyped
  <2>2. \A t \in Tables : got'[p][t] = 0
    BY <2>1 DEF RowsInv, HandsEmpty, HandEmpty, Tables, Idle
  <2>3. \/ cur'[p].ids = Start.ids
        \/ saved # Torn /\ cur'[p].ids = saved.ids
    BY <2>1 DEF LoadState
  <2>4. HandCovered(p)'
    BY <2>1, <2>2, <2>3, FreshHand
  <2>5. \A q \in Passes \ {p} : HandCovered(q)'
    BY <1>1, <2>1
  <2> QED BY <2>1, <2>4, <2>5, SavedStep
<1>3. ASSUME NEW p \in Passes, PassStep(p)
      PROVE  SavedCovered' /\ \A q \in Passes : HandCovered(q)'
  <2>1. /\ UNCHANGED <<rows, visible, late>>
        /\ \A q \in Passes \ {p} :
              /\ cur'[q] = cur[q] /\ got'[q] = got[q]
              /\ touched'[q] = touched[q] /\ unanswered'[q] = unanswered[q]
    BY <1>3, Isolated DEF CallInv, ApartTrue, world
  <2>2. \A q \in Passes \ {p} : HandCovered(q)'
    BY <1>1, <2>1
  <2> QED BY <1>3, <2>1, <2>2, OwnHand, SavedStep
<1>4. ASSUME SourceStep
      PROVE  SavedCovered' /\ \A q \in Passes : HandCovered(q)'
  <2>1. UNCHANGED <<saved, cur, got, touched, unanswered>>
    BY <1>4, SourceStepTyped DEF local
  <2>2. \A t \in Tables : \A i \in DOMAIN rows[t] : rows'[t][i] = rows[t][i]
    BY <1>4, RowsGrow
  <2>3. SavedCovered'
    <3> SUFFICES ASSUME saved' # Torn, NEW t \in Tables, NEW i \in DOMAIN rows'[t],
                        Due(t, i, saved.ids[t])'
                 PROVE  Documented(t, i)'
      BY DEF SavedCovered
    <3>1. PICK n \in visible[t] \cup {0} : n = saved.ids[t]
      BY <2>1 DEF RowsInv, MarksVisible
    <3>2. i \in DOMAIN rows[t] /\ Due(t, i, n)
      <4>1. Due(t, i, n)'
        BY <2>1, <3>1 DEF Due
      <4> QED BY <1>4, <4>1, DueKept
    <3>3. Documented(t, i)
      BY <2>1, <3>1, <3>2 DEF RowsInv, SavedCovered
    <3> QED BY <3>2, <3>3, DocumentedKept
  <2>4. ASSUME NEW q \in Passes PROVE HandCovered(q)'
    <3> SUFFICES ASSUME NEW t \in Tables, NEW i \in DOMAIN rows'[t]
                 PROVE  /\ Due(t, i, cur[q].ids[t])' => Documented(t, i)'
                        /\ Due(t, i, Reach(q, t))' => Documented(t, i)' \/ Waiting(q, t, i)'
      BY DEF HandCovered
    <3>1. PICK n \in visible[t] \cup {0} : n = cur[q].ids[t]
      BY DEF RowsInv, MarksVisible
    <3>2. PICK m \in visible[t] \cup {0} : m = Reach(q, t)
      BY DEF RowsInv, MarksVisible, Reach
    <3>3. ASSUME Due(t, i, cur[q].ids[t])' PROVE Documented(t, i)'
      <4>1. Due(t, i, n)'
        BY <2>1, <3>1, <3>3 DEF Due
      <4>2. i \in DOMAIN rows[t] /\ Due(t, i, n)
        BY <1>4, <4>1, DueKept
      <4>3. Documented(t, i)
        BY <3>1, <4>2 DEF RowsInv, HandCovered
      <4> QED BY <4>2, <4>3, DocumentedKept
    <3>4. ASSUME Due(t, i, Reach(q, t))' PROVE Documented(t, i)' \/ Waiting(q, t, i)'
      <4>1. Due(t, i, m)'
        BY <2>1, <3>2, <3>4 DEF Due, Reach
      <4>2. i \in DOMAIN rows[t] /\ Due(t, i, m)
        BY <1>4, <4>1, DueKept
      <4>3. Documented(t, i) \/ Waiting(q, t, i)
        BY <3>2, <4>2 DEF RowsInv, HandCovered
      <4>4. Waiting(q, t, i) => Waiting(q, t, i)'
        BY <2>1, <2>2, <4>2 DEF Waiting
      <4> QED BY <4>2, <4>3, <4>4, DocumentedKept
    <3> QED BY <3>3, <3>4
  <2> QED BY <2>3, <2>4
<1>5. ASSUME Crash
      PROVE  SavedCovered' /\ \A q \in Passes : HandCovered(q)'
  <2>1. /\ UNCHANGED <<rows, visible, late>>
        /\ \A p \in Passes : cur'[p] = Start /\ got'[p] = Start.ids
    BY <1>5 DEF Crash, world
  <2>2. \A t \in Tables : Start.ids[t] = 0
    BY DEF Start
  <2>3. \A p \in Passes : HandCovered(p)'
    BY <2>1, <2>2, FreshHand
  <2> QED BY <2>1, <2>3, SavedStep
<1>6. ASSUME UNCHANGED vars
      PROVE  SavedCovered' /\ \A q \in Passes : HandCovered(q)'
  BY <1>1, <1>6, SavedStep DEF vars, world, local
<1>7. SavedCovered' /\ \A q \in Passes : HandCovered(q)'
  BY <1>2, <1>3, <1>4, <1>5, <1>6 DEF Next
<1> QED BY <1>7, MarksStep, HandsStep DEF RowsInv

(* A row whose id the saved position has passed is in the collection       *)
(* (syncKamailioAcc() and saveState()), but for rows that were committed   *)
(* after a row with a larger id and ends of calls that two passes stored.  *)
THEOREM RowsTheorem == Spec => []RowsCovered
<1>1. ASSUME TypeInv, RowsInv PROVE RowsCovered
  <2> SUFFICES ASSUME NEW t \in Tables, NEW i \in DOMAIN rows[t], Passed(t, i),
                      OnTime(t, rows[t][i].call), <<t, i>> \notin late
               PROVE  Documented(t, i)
    BY DEF RowsCovered, Documented
  <2>1. Due(t, i, saved.ids[t]) /\ saved # Torn
    BY DEF Passed, Due
  <2> QED BY <1>1, <2>1 DEF RowsInv, SavedCovered
<1>2. Spec => []RowsInv
  BY RowsInit, RowsStep, CallInvariant, PTL DEF Spec
<1> QED BY <1>1, <1>2, CallInvariant, PTL
=============================================================================
