------------------------------- MODULE CdrSync -------------------------------
(***************************************************************************)
(* The synchronisation of call detail records: cdr-sync-monitor.ts and     *)
(* upsertCdr() of cdr-store.ts under application/use-cases/cdr.            *)
(*                                                                         *)
(* A pass copies what is new in the CSV files of Asterisk and in the acc   *)
(* and missed_calls tables of Kamailio into a MongoDB collection, and then *)
(* writes the positions it reached, one per source, to one state file.     *)
(* Every 20 seconds a timer begins a pass, and "Sync Now" begins another;  *)
(* nothing serialises them.  A position is a byte offset in a file or the  *)
(* largest row id seen in a table.                                         *)
(***************************************************************************)
EXTENDS Naturals, Sequences, FiniteSetsExt

CONSTANTS
    Timers,       \* passes of the timer that may be under way at once
    Buttons,      \* passes of "Sync Now"
    Sources,      \* Asterisk instances, each with its Master.csv
    Calls,        \* IMS calls, numbered in the order of their first rows
    MaxInputs,    \* bound on lines, rotations and rows, all together
    MaxTroubles   \* bound on failed calls and crashes

ASSUME CdrBoundsAssumption == MaxInputs \in Nat /\ MaxTroubles \in Nat

ASSUME CdrCallsAssumption == Calls \subseteq Nat

ASSUME CdrPassesAssumption == Timers \cap Buttons = {}

VARIABLES
    file,     \* per source: generation, whole lines, and a line half written
    rows,     \* per table: the rows inserted, numbered by their id
    visible,  \* per table: the ids of the rows that are committed
    accounting, \* cdrAccountingEnabled, fixed: switching it off in a run has
                \* the effect of KamailioFails
    stored,   \* lines that are in the collection
    doc,      \* per call: the document in the collection
    saved,    \* the state file
    pc,       \* where each pass is
    cur,      \* the positions of a pass
    left,     \* sources a pass has still to read
    chunk,    \* the lines a pass read of one file and has still to store
    got,      \* per table: the largest id a pass fetched, 0 if none
    touched,  \* calls a pass has still to look up, and the one it stores
    unanswered, \* calls of the missed_calls rows a pass has still to store
    late,     \* history: rows committed after a row with a larger id
    apart,    \* history: no other pass was under way since the pass began
    clashed,  \* history: calls stored by a pass beside another one
    inputs, troubles

world == <<file, rows, visible, accounting, late, inputs>>
index == <<stored, doc, clashed>>
local == <<cur, left, chunk, got, touched, unanswered>>
vars == <<world, index, saved, pc, local, apart, troubles>>

Passes == Timers \cup Buttons
Tables == {"acc", "missed_calls"}
Methods == {"INVITE", "BYE"}

(* The documents of a call: of an answered call without and with its BYE,  *)
(* and of a call that was never answered.                                  *)
Docs == {"none", "open", "ended", "missed"}

Positions == [off : [Sources -> [gen : Nat, at : Nat]], ids : [Tables -> Nat]]

Start == [off |-> [s \in Sources |-> [gen |-> 0, at |-> 0]],
          ids |-> [t \in Tables |-> 0]]

(* A state file cut short by a crash does not parse.                       *)
Torn == [torn |-> TRUE]

Idle == "idle"
NoChunk == [of |-> {}, gen |-> 0, next |-> 1, last |-> 0, fits |-> TRUE]
NoCall == [todo |-> {}, now |-> {}, doc |-> "none"]

Init ==
    /\ file = [s \in Sources |-> [gen |-> 0, whole |-> 0, half |-> FALSE]]
    /\ rows = [t \in Tables |-> <<>>]
    /\ visible = [t \in Tables |-> {}]
    /\ accounting \in BOOLEAN
    /\ stored = {} /\ clashed = {}
    /\ doc = [c \in Calls |-> "none"]
    /\ saved = Start
    /\ pc = [p \in Passes |-> Idle]
    /\ cur = [p \in Passes |-> Start]
    /\ left = [p \in Passes |-> {}]
    /\ chunk = [p \in Passes |-> NoChunk]
    /\ got = [p \in Passes |-> Start.ids]
    /\ touched = [p \in Passes |-> NoCall]
    /\ unanswered = [p \in Passes |-> {}]
    /\ late = {}
    /\ apart = [p \in Passes |-> FALSE]
    /\ inputs = 0 /\ troubles = 0

Goto(p, label) == pc' = [pc EXCEPT ![p] = label]

Input == /\ inputs < MaxInputs
         /\ inputs' = inputs + 1

Trouble == /\ troubles < MaxTroubles
           /\ troubles' = troubles + 1

-----------------------------------------------------------------------------
(* sync(): the state file, the subscribers, then source after source.      *)

LoadState == IF saved = Torn THEN Start ELSE saved

Begin(p) ==
    /\ pc[p] = Idle
    /\ Goto(p, "source")
    /\ cur' = [cur EXCEPT ![p] = LoadState]
    /\ left' = [left EXCEPT ![p] = Sources]
    /\ apart' = [q \in Passes |->
                    q = p /\ \A o \in Passes \ {p} : pc[o] = Idle]
    /\ UNCHANGED <<world, index, saved, chunk, got, touched, unanswered,
                   troubles>>

End(p) ==
    /\ Goto(p, Idle)
    /\ apart' = [apart EXCEPT ![p] = FALSE]
    /\ cur' = [cur EXCEPT ![p] = Start]
    /\ left' = [left EXCEPT ![p] = {}]
    /\ chunk' = [chunk EXCEPT ![p] = NoChunk]
    /\ got' = [got EXCEPT ![p] = Start.ids]
    /\ touched' = [touched EXCEPT ![p] = NoCall]
    /\ unanswered' = [unanswered EXCEPT ![p] = {}]

(* findAllFull() throws: the pass ends without saving anything.            *)
NoSubscribers(p) ==
    /\ pc[p] = "source" /\ left[p] = Sources
    /\ Trouble
    /\ End(p)
    /\ UNCHANGED <<world, index, saved>>

(* Sizes and offsets count half lines; a file shorter than the offset is   *)
(* taken for a new one.  The generation in a position is a history value:  *)
(* the file the position counts lines of.                                  *)
Size(s) == 2 * file[s].whole + (IF file[s].half THEN 1 ELSE 0)

Shrunk(s, at) == Size(s) < 2 * at

From(p, s) == LET at == cur[p].off[s].at IN IF Shrunk(s, at) THEN 0 ELSE at

GotoNext(p, rest) ==
    Goto(p, IF rest # {} THEN "source" ELSE IF accounting THEN "acc" ELSE "save")

ReadSource(p, s) ==
    LET from == From(p, s) IN
    /\ pc[p] = "source" /\ s \in left[p]
    /\ left' = [left EXCEPT ![p] = @ \ {s}]
    /\ IF file[s].whole > from
       THEN /\ chunk' = [chunk EXCEPT ![p] =
                            [of |-> {s}, gen |-> file[s].gen,
                             next |-> from + 1, last |-> file[s].whole,
                             fits |-> from = 0
                                      \/ cur[p].off[s].gen = file[s].gen]]
            /\ Goto(p, "line")
       ELSE /\ GotoNext(p, left[p] \ {s})
            /\ UNCHANGED chunk
    /\ UNCHANGED <<world, index, saved, cur, got, touched, unanswered, apart,
                   troubles>>

(* One upsert; the position moves when the last line is in.                *)
StoreLine(p) ==
    \E s \in chunk[p].of :
      LET k == chunk[p]
      IN /\ pc[p] = "line"
         /\ stored' = stored \cup {<<s, k.gen, k.next>>}
         /\ IF k.next < k.last
            THEN /\ chunk' = [chunk EXCEPT ![p].next = @ + 1]
                 /\ UNCHANGED <<cur, pc>>
            ELSE /\ chunk' = [chunk EXCEPT ![p] = NoChunk]
                 /\ cur' = [cur EXCEPT ![p].off[s] =
                               [gen |-> IF k.fits THEN k.gen ELSE @.gen,
                                at |-> k.last]]
                 /\ GotoNext(p, left[p])
         /\ UNCHANGED <<world, doc, clashed, saved, left, got, touched,
                        unanswered, apart, troubles>>

\* Mutant: the error is caught line by line, and the position moves on.
StoreLineSkips(p) ==
    \E s \in chunk[p].of :
      /\ pc[p] = "line"
      /\ Trouble
      /\ chunk' = [chunk EXCEPT ![p] = NoChunk]
      /\ cur' = [cur EXCEPT ![p].off[s] = [gen |-> chunk[p].gen, at |-> chunk[p].last]]
      /\ GotoNext(p, left[p])
      /\ UNCHANGED <<world, index, saved, left, got, touched, unanswered, apart>>

StoreLineFails(p) ==
    /\ pc[p] = "line"
    /\ Trouble
    /\ chunk' = [chunk EXCEPT ![p] = NoChunk]
    /\ GotoNext(p, left[p])
    /\ UNCHANGED <<world, index, saved, cur, left, got, touched, unanswered,
                   apart>>

-----------------------------------------------------------------------------
(* syncKamailioAcc(): the new rows of both tables, then one document per   *)
(* call, built from all the rows the call has by then.                     *)

NewRows(p, t) == {i \in visible[t] : i > cur[p].ids[t]}
CallsOf(t, ids) == {rows[t][i].call : i \in ids}
LastId(ids) == IF ids = {} THEN 0 ELSE Max(ids)

FetchAcc(p) ==
    /\ pc[p] = "acc"
    /\ got' = [got EXCEPT ![p]["acc"] = LastId(NewRows(p, "acc"))]
    /\ touched' = [touched EXCEPT ![p].todo = CallsOf("acc", NewRows(p, "acc"))]
    /\ Goto(p, "missed_calls")
    /\ UNCHANGED <<world, index, saved, cur, left, chunk, unanswered, apart,
                   troubles>>

\* Mutant: the second query reads the first table.
FetchMissedFromAcc(p) ==
    /\ pc[p] = "missed_calls"
    /\ unanswered' = [unanswered EXCEPT ![p] = CallsOf("acc", NewRows(p, "acc"))]
    /\ Goto(p, "calls")
    /\ UNCHANGED <<world, index, saved, cur, left, chunk, got, touched, apart,
                   troubles>>

FetchMissed(p) ==
    LET new == NewRows(p, "missed_calls") IN
    /\ pc[p] = "missed_calls"
    /\ got' = [got EXCEPT ![p]["missed_calls"] = LastId(new)]
    /\ unanswered' = [unanswered EXCEPT ![p] = CallsOf("missed_calls", new)]
    /\ Goto(p, "calls")
    /\ UNCHANGED <<world, index, saved, cur, left, chunk, touched, apart,
                   troubles>>

HasRow(c, m) == \E i \in visible["acc"] : rows["acc"][i] = [call |-> c, method |-> m]

(* fetchAccRowsForCallId(); without an INVITE there is nothing to store.   *)
Lookup(p, c) ==
    /\ pc[p] = "calls" /\ c \in touched[p].todo
    /\ IF HasRow(c, "INVITE")
       THEN /\ touched' = [touched EXCEPT ![p] =
                              [todo |-> @.todo \ {c}, now |-> {c},
                               doc |-> IF HasRow(c, "BYE") THEN "ended"
                                                           ELSE "open"]]
            /\ Goto(p, "call")
       ELSE /\ touched' = [touched EXCEPT ![p].todo = @ \ {c}]
            /\ UNCHANGED pc
    /\ UNCHANGED <<world, index, saved, cur, left, chunk, got, unanswered,
                   apart, troubles>>

Store(p, c, d) ==
    /\ doc' = [doc EXCEPT ![c] = d]
    /\ clashed' = IF apart[p] THEN clashed ELSE clashed \cup {c}

StoreCall(p) ==
    \E c \in touched[p].now :
      /\ pc[p] = "call"
      /\ Store(p, c, touched[p].doc)
      /\ touched' = [touched EXCEPT ![p].now = {}, ![p].doc = "none"]
      /\ Goto(p, "calls")
      /\ UNCHANGED <<world, stored, saved, cur, left, chunk, got, unanswered,
                     apart, troubles>>

StoreMissed(p, c) ==
    /\ pc[p] = "calls" /\ touched[p].todo = {}
    /\ c \in unanswered[p]
    /\ Store(p, c, "missed")
    /\ unanswered' = [unanswered EXCEPT ![p] = @ \ {c}]
    /\ UNCHANGED <<world, stored, saved, pc, cur, left, chunk, got, touched,
                   apart, troubles>>

Finished(p) ==
    \/ pc[p] = "save"
    \/ pc[p] = "calls" /\ touched[p].todo = {} /\ unanswered[p] = {}

\* Mutant: the ids move although the documents were not stored.
KamailioFailsAdvancing(p) ==
    /\ pc[p] \in {"acc", "missed_calls", "calls", "call"}
    /\ ~Finished(p)
    /\ Trouble
    /\ touched' = [touched EXCEPT ![p] = NoCall]
    /\ unanswered' = [unanswered EXCEPT ![p] = {}]
    /\ Goto(p, "calls")
    /\ UNCHANGED <<world, index, saved, cur, left, chunk, got, apart>>

(* A query or an upsert throws: the ids stay where they were.              *)
KamailioFails(p) ==
    /\ pc[p] \in {"acc", "missed_calls", "calls", "call"}
    /\ ~Finished(p)
    /\ Trouble
    /\ got' = [got EXCEPT ![p] = Start.ids]
    /\ touched' = [touched EXCEPT ![p] = NoCall]
    /\ unanswered' = [unanswered EXCEPT ![p] = {}]
    /\ Goto(p, "save")
    /\ UNCHANGED <<world, index, saved, cur, left, chunk, apart>>

(* Once every document is stored, the ids move to the last rows fetched.   *)
Reached(p) ==
    [cur[p] EXCEPT !.ids =
        [t \in Tables |-> IF got[p][t] # 0 THEN got[p][t] ELSE @[t]]]

(* saveState() writes the positions of every source, moved or not.         *)
Save(p) ==
    /\ Finished(p)
    /\ saved' = Reached(p)
    /\ End(p)
    /\ UNCHANGED <<world, index, troubles>>

SaveFails(p) ==
    /\ Finished(p)
    /\ Trouble
    /\ End(p)
    /\ UNCHANGED <<world, index, saved>>

-----------------------------------------------------------------------------
(* The sources, and the end of the backend.                                *)

WriteHalf(s) ==
    /\ ~file[s].half
    /\ Input
    /\ file' = [file EXCEPT ![s].half = TRUE]
    /\ UNCHANGED <<rows, visible, accounting, late, index, saved, pc, local,
                   apart, troubles>>

WriteRest(s) ==
    /\ file[s].half
    /\ file' = [file EXCEPT ![s].half = FALSE, ![s].whole = @ + 1]
    /\ UNCHANGED <<rows, visible, accounting, late, inputs, index, saved, pc,
                   local, apart, troubles>>

Rotate(s) ==
    /\ Input
    /\ file' = [file EXCEPT ![s] =
                   [gen |-> @.gen + 1, whole |-> 0, half |-> FALSE]]
    /\ UNCHANGED <<rows, visible, accounting, late, index, saved, pc,
                   local, apart, troubles>>

Inserted(t, c, m) ==
    \E i \in DOMAIN rows[t] : rows[t][i] = [call |-> c, method |-> m]

(* A worker of Kamailio inserts a row: the id is taken at once, the row    *)
(* becomes visible when it is committed.  An answered call has one INVITE  *)
(* row and later one BYE row, another call one missed_calls row.           *)
Insert(t, c, m) ==
    /\ Input
    /\ ~Inserted(t, c, m)
    /\ IF m = "BYE" THEN t = "acc" /\ Inserted("acc", c, "INVITE")
       ELSE \A u \in Tables : /\ ~Inserted(u, c, "INVITE")
                               /\ \A b \in Calls : b < c =>
                                     \E v \in Tables : Inserted(v, b, "INVITE")
    /\ rows' = [rows EXCEPT ![t] = Append(@, [call |-> c, method |-> m])]
    /\ UNCHANGED <<file, visible, accounting, late, index, saved, pc,
                   local, apart, troubles>>

Commit(t, i) ==
    /\ i \in DOMAIN rows[t] \ visible[t]
    /\ visible' = [visible EXCEPT ![t] = @ \cup {i}]
    /\ late' = IF \E j \in visible[t] : j > i THEN late \cup {<<t, i>>} ELSE late
    /\ UNCHANGED <<file, rows, accounting, inputs, index, saved, pc, local,
                   apart, troubles>>

(* A crash may leave the state file half written.                          *)
Crash ==
    /\ Trouble
    /\ \/ saved' = saved
       \/ saved' = Torn /\ \E p \in Passes : Finished(p)
    /\ pc' = [p \in Passes |-> Idle]
    /\ cur' = [p \in Passes |-> Start]
    /\ left' = [p \in Passes |-> {}]
    /\ chunk' = [p \in Passes |-> NoChunk]
    /\ got' = [p \in Passes |-> Start.ids]
    /\ touched' = [p \in Passes |-> NoCall]
    /\ unanswered' = [p \in Passes |-> {}]
    /\ apart' = [p \in Passes |-> FALSE]
    /\ UNCHANGED <<world, index>>

-----------------------------------------------------------------------------
PassStep(p) ==
    \/ NoSubscribers(p)
    \/ \E s \in Sources : ReadSource(p, s)
    \/ StoreLine(p) \/ StoreLineFails(p)
    \/ FetchAcc(p) \/ FetchMissed(p)
    \/ \E c \in Calls : Lookup(p, c) \/ StoreMissed(p, c)
    \/ StoreCall(p) \/ KamailioFails(p)
    \/ Save(p) \/ SaveFails(p)

SourceStep ==
    \/ \E s \in Sources : WriteHalf(s) \/ WriteRest(s) \/ Rotate(s)
    \/ \E t \in Tables, c \in Calls, m \in Methods : Insert(t, c, m)
    \/ \E t \in Tables : \E i \in DOMAIN rows[t] : Commit(t, i)

Next ==
    \/ \E p \in Passes : Begin(p) \/ PassStep(p)
    \/ SourceStep
    \/ Crash

(* The interval fires for ever, and the calls of its passes come back with *)
(* a result or an error.  Nothing is assumed of the button: its passes may *)
(* hang, or come back at any time.                                         *)
Fairness == \A p \in Timers : WF_vars(Begin(p) \/ PassStep(p))

Spec == Init /\ [][Next]_vars /\ Fairness

-----------------------------------------------------------------------------
(* What holds of the index.                                                *)

(* The variables hold values of the shapes the code gives them.  A pass    *)
(* that read a file has at least one line to store, and it looks no        *)
(* further than the file it read.                                          *)
TypeOK ==
    /\ \A s \in Sources : /\ file[s].gen \in 0..MaxInputs
                          /\ file[s].whole \in 0..inputs
                          /\ file[s].half \in BOOLEAN
    /\ \A t \in Tables : visible[t] \subseteq DOMAIN rows[t]
    /\ stored \subseteq Sources \X (0..MaxInputs) \X (1..MaxInputs)
    /\ doc \in [Calls -> Docs]
    /\ saved = Torn \/ saved \in Positions
    /\ \A p \in Passes :
          /\ cur[p] \in Positions
          /\ left[p] \subseteq Sources
          /\ touched[p].todo \cup touched[p].now \cup unanswered[p] \subseteq Calls
          /\ pc[p] = "line" <=> chunk[p].next <= chunk[p].last
          /\ pc[p] = "call" <=> touched[p].now # {}
          /\ pc[p] = Idle => cur[p] = Start
    /\ inputs \in 0..MaxInputs /\ troubles \in 0..MaxTroubles

(* The position that is saved for a file stands for lines that are in the  *)
(* collection, whatever pass saved it and whatever failed: no line of the  *)
(* file the position belongs to is skipped.                                *)
PositionCovered ==
    saved # Torn => \A s \in Sources :
        LET o == saved.off[s] IN
        o.gen = file[s].gen =>
            \A i \in 1..o.at : <<s, o.gen, i>> \in stored

Passed(t, i) == saved # Torn /\ i \in visible[t] /\ i <= saved.ids[t]

OnTime(t, c) ==
    \E i \in visible[t] : /\ rows[t][i] = [call |-> c, method |-> "INVITE"]
                          /\ <<t, i>> \notin late

(* A row whose id the saved position has passed is in the collection: an   *)
(* INVITE has its document, and a BYE has ended it, unless the INVITE was  *)
(* committed after a row with a larger id, or, for the BYE, two passes met *)
(* over the call.                                                          *)
RowsCovered ==
    \A t \in Tables : \A i \in DOMAIN rows[t] :
        LET c == rows[t][i].call IN
        Passed(t, i) /\ OnTime(t, c) /\ <<t, i>> \notin late =>
            IF rows[t][i].method = "INVITE"
            THEN doc[c] # "none"
            ELSE doc[c] = "ended" \/ c \in clashed

(* Nothing but a pass beside another one, which stores what it read before *)
(* the call ended, takes the end of a call away again: upsertCdr() may be  *)
(* repeated any number of times.                                           *)
EndKept ==
    [][\A c \in Calls : doc[c] = "ended" /\ doc'[c] # "ended" =>
        \E p \in Passes : c \in touched[p].now /\ ~apart[p]]_vars

(* The position belongs to a file that was rotated away, and the new file  *)
(* has outgrown it before a pass looked.                                   *)
Blind(s) ==
    /\ saved # Torn
    /\ saved.off[s].gen # file[s].gen
    /\ saved.off[s].at > 0
    /\ ~Shrunk(s, saved.off[s].at)

Indexed ==
    /\ \A s \in Sources :
          Blind(s) \/ \A i \in 1..file[s].whole : <<s, file[s].gen, i>> \in stored
    /\ accounting =>
          \A t \in Tables : \A i \in visible[t] :
            LET c == rows[t][i].call IN
            \/ ~OnTime(t, c) \/ <<t, i>> \in late
            \/ IF rows[t][i].method = "INVITE" THEN doc[c] # "none"
                                               ELSE doc[c] = "ended" \/ c \in clashed

(* Once the sources are quiet the collection holds every whole line of the *)
(* files and every call of the tables, but for what a rotation hid and     *)
(* what was committed late; failures and crashes cost nothing.             *)
EventuallyIndexed == <>[]Indexed
=============================================================================
