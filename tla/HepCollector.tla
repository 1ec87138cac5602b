----------------------------- MODULE HepCollector -----------------------------
(***************************************************************************)
(* The collector of SIP traces and the messages of a call debug session:   *)
(* hep-collector.ts, call-scope.ts and, of call-debug-session.ts and       *)
(* call-debug-store.ts, what concerns messages (the rest is in CallDebug), *)
(* all under application/use-cases/sip-trace.                              *)
(*                                                                         *)
(* Every datagram is counted, and dropped or put in a queue.  A timer and  *)
(* a full queue write the queue to the database as one batch, one batch at *)
(* a time.  The end of a session counts and copies what the database holds *)
(* of it.  Order in a queue is the seq of its documents.                   *)
(***************************************************************************)
EXTENDS Naturals, FiniteSets

CONSTANTS
    Datagrams,      \* what may arrive
    Sessions,       \* ids of call debug sessions, numbers
    TagOnly,        \* the sessions that tag and drop nothing
    Starters,       \* handlers of POST /call-debug/start
    Stoppers,       \* handlers of POST /call-debug/stop
    Boot,           \* reconcile() at the start of the backend
    FlushAt,        \* FLUSH_AT_COUNT
    MaxQueue,       \* MAX_QUEUE
    SnapshotLimit,  \* SNAPSHOT_LIMIT
    MaxDatagrams,   \* bound on datagrams
    MaxOps,         \* bound on requests
    MaxHepTroubles  \* bound on failed database calls, crashes and shutdowns

ASSUME HepBoundsAssumption ==
    /\ FlushAt \in Nat \ {0} /\ MaxQueue \in Nat \ {0} /\ SnapshotLimit \in Nat
    /\ MaxDatagrams \in Nat /\ MaxOps \in Nat /\ MaxHepTroubles \in Nat

ASSUME HepNamesAssumption ==
    /\ Sessions \subseteq Nat \ {0} /\ TagOnly \subseteq Sessions
    /\ Starters \cap Stoppers = {} /\ Boot \notin Starters \cup Stoppers
    /\ Datagrams \subseteq [shape : {"bad", "notSip", "sip"}, options : BOOLEAN,
                            identified : BOOLEAN, of : SUBSET Sessions]

VARIABLES
    mode,       \* the backend is up, shutting down, or has closed its database
    life,       \* which run of the backend this is
    filter,     \* the session the collector is scoped to, or NoSession
    keep,       \* storeKeepalives; the settings file says the same
    seq,        \* documents queued in this life
    queue,      \* documents that wait
    flights,    \* batches that are being inserted
    flushing,
    count,      \* the statistics, reset with the process
    stored,     \* the collection nms_sip_trace
    row,        \* the session documents
    at, sess,   \* where a handler is, and the session it works on
    seen,       \* what finish() has found: the collector's scopeFilter count
                \* when it began, the messages it counted, those it read for
                \* the snapshot, and whether that failed
    lost,       \* history: documents of batches that failed, and of crashes
    overlap,    \* history: two handlers worked on one session
    arrived, ops, hepTroubles

collector == <<filter, seq, queue, flights, flushing, count>>
handlers == <<at, sess, seen>>
bounds == <<arrived, ops, hepTroubles>>
history == <<lost, overlap>>
hepVars == <<mode, life, keep, collector, stored, row, handlers, history, bounds>>

NoSession == 0
Finishers == Stoppers \cup {Boot}
Procs == Starters \cup Finishers
Docs == [life : 0..MaxHepTroubles, seq : 0..MaxDatagrams, tag : Sessions \cup {NoSession}]

Counters == {"received", "stored", "bad", "notSip", "keepalive", "scoped", "unparsed",
             "overflow"}
NoCount == [c \in Counters |-> 0]
NewRow == [status |-> "none", matched |-> 0, filtered |-> 0, snapshot |-> {},
           taken |-> FALSE, truncated |-> FALSE, error |-> FALSE]
NoneSeen == [filtered |-> 0, matched |-> 0, docs |-> {}, error |-> FALSE]

Running == {s \in Sessions : row[s].status = "running"}
Unused == {s \in Sessions : row[s].status = "none"}
Least(S) == CHOOSE s \in S : \A t \in S : s <= t

HepInit ==
    /\ mode = "up" /\ life = 0
    /\ filter = NoSession /\ keep = FALSE
    /\ seq = 0 /\ queue = {} /\ flights = {} /\ flushing = FALSE
    /\ count = NoCount
    /\ stored = {}
    /\ row = [s \in Sessions |-> NewRow]
    /\ at = [p \in Procs |-> "idle"]
    /\ sess = [p \in Procs |-> NoSession]
    /\ seen = [p \in Procs |-> NoneSeen]
    /\ lost = {} /\ overlap = FALSE
    /\ arrived = 0 /\ ops = 0 /\ hepTroubles = 0

HepTrouble == hepTroubles < MaxHepTroubles /\ hepTroubles' = hepTroubles + 1

(* A call of the database fails, or finds its client closed.               *)
DbFails ==
    \/ HepTrouble
    \/ mode = "closed" /\ UNCHANGED hepTroubles

-----------------------------------------------------------------------------
(* decideScope() *)

Decide(m) ==
    CASE m.options /\ ~ keep -> "keepalive"
      [] ~ m.identified -> "unparseable"
      [] filter = NoSession -> "no-session"
      [] filter \in m.of -> "in-scope"
      [] filter \in TagOnly -> "out-of-scope-tagged"
      [] OTHER -> "out-of-scope"

-----------------------------------------------------------------------------
(* The queue *)

\* flush(), up to its await: the queue becomes a batch, unless one is under way.
Flush(q) ==
    IF flushing \/ q = {} THEN queue' = q /\ UNCHANGED <<flights, flushing>>
    ELSE queue' = {} /\ flights' = flights \cup {q} /\ flushing' = TRUE

Counted(cs) ==
    count' = [c \in Counters |-> IF c \in cs \cup {"received"} THEN count[c] + 1 ELSE count[c]]

Ignore(why) == Counted(why) /\ UNCHANGED <<seq, queue, flights, flushing>>

EnqueueUnless(m, overflow) ==
    LET doc == [life |-> life, seq |-> seq,
                tag |-> IF Decide(m) = "in-scope" THEN filter ELSE NoSession]
        said == IF Decide(m) = "unparseable" /\ filter # NoSession THEN {"unparsed"} ELSE {}
    IN IF Cardinality(queue) >= MaxQueue THEN Ignore(said \cup overflow)
       ELSE /\ Counted(said)
            /\ seq' = seq + 1
            /\ IF Cardinality(queue) + 1 >= FlushAt THEN Flush(queue \cup {doc})
               ELSE queue' = queue \cup {doc} /\ UNCHANGED <<flights, flushing>>

\* Mutant: an overflow is not counted.
EnqueueSilently(m) == EnqueueUnless(m, {})

\* A message that is to be stored, unless the queue is full.
Enqueue(m) == EnqueueUnless(m, {"overflow"})

\* onDatagram()
Datagram(m) ==
    /\ arrived < MaxDatagrams /\ arrived' = arrived + 1
    /\ \/ m.shape # "sip" /\ Ignore({m.shape})
       \/ m.shape = "sip" /\ Decide(m) = "keepalive" /\ Ignore({"keepalive"})
       \/ m.shape = "sip" /\ Decide(m) = "out-of-scope" /\ Ignore({"scoped"})
       \/ m.shape = "sip" /\ Decide(m) \notin {"keepalive", "out-of-scope"} /\ Enqueue(m)
    /\ UNCHANGED <<mode, life, keep, filter, stored, row, handlers, history, ops, hepTroubles>>

Tick ==
    /\ ~ flushing /\ queue # {}
    /\ Flush(queue)
    /\ UNCHANGED <<mode, life, keep, filter, seq, count, stored, row, handlers, history, bounds>>

\* insertMany() with ordered: false fails; some of the batch may be stored.
InsertFails(b) ==
    /\ b \in flights /\ flights' = flights \ {b} /\ flushing' = FALSE
    /\ DbFails
    /\ \E part \in SUBSET b : stored' = stored \cup part
    /\ lost' = lost \cup b
    /\ UNCHANGED <<mode, life, keep, filter, seq, queue, count, row, handlers, overlap,
                   arrived, ops>>

InsertEnds(b) ==
    /\ b \in flights /\ flights' = flights \ {b} /\ flushing' = FALSE
    /\ mode # "closed"
    /\ stored' = stored \cup b
    /\ count' = [count EXCEPT !["stored"] = @ + Cardinality(b)]
    /\ UNCHANGED <<mode, life, keep, filter, seq, queue, row, handlers, history, bounds>>

\* POST /settings: the file and the collector change together.
SetKeepalives ==
    /\ ops < MaxOps /\ ops' = ops + 1
    /\ keep' = ~ keep
    /\ UNCHANGED <<mode, life, collector, stored, row, handlers, history, arrived, hepTroubles>>

-----------------------------------------------------------------------------
(* start() *)

Goto(p, label) == at' = [at EXCEPT ![p] = label]

Answer(p) ==
    /\ Goto(p, "idle")
    /\ sess' = [sess EXCEPT ![p] = NoSession]
    /\ seen' = [seen EXCEPT ![p] = NoneSeen]

\* insertSession(): the unique index lets one session run.
Claim(p) ==
    /\ at[p] = "idle" /\ mode # "closed" /\ ops < MaxOps /\ Running = {} /\ Unused # {}
    /\ ops' = ops + 1
    /\ row' = [row EXCEPT ![Least(Unused)].status = "running"]
    /\ sess' = [sess EXCEPT ![p] = Least(Unused)]
    /\ Goto(p, "scope")
    /\ UNCHANGED <<mode, life, keep, collector, stored, seen, history, arrived, hepTroubles>>

SetScope(p) ==
    /\ at[p] = "scope"
    /\ filter' = sess[p]
    /\ Goto(p, "launch")
    /\ UNCHANGED <<mode, life, keep, seq, queue, flights, flushing, count, stored, row, sess,
                   seen, history, bounds>>

\* The capture runs, or start() unwinds.
Launch(p) ==
    /\ at[p] = "launch"
    /\ \/ Answer(p) /\ UNCHANGED <<filter, hepTroubles>>
       \/ HepTrouble /\ filter' = NoSession /\ Goto(p, "fail") /\ UNCHANGED <<sess, seen>>
    /\ UNCHANGED <<mode, life, keep, seq, queue, flights, flushing, count, stored, row, history,
                   arrived, ops>>

Fail(p) ==
    /\ at[p] = "fail"
    /\ \/ row' = [row EXCEPT ![sess[p]].status = "failed"] /\ mode # "closed"
          /\ UNCHANGED hepTroubles
       \/ DbFails /\ UNCHANGED row
    /\ Answer(p)
    /\ UNCHANGED <<mode, life, keep, collector, stored, history, arrived, ops>>

-----------------------------------------------------------------------------
(* stop() and reconcile() *)

AskStop(p) ==
    /\ at[p] = "idle" /\ ops < MaxOps /\ ops' = ops + 1
    /\ Goto(p, "find")
    /\ UNCHANGED <<mode, life, keep, collector, stored, row, sess, seen, history, arrived, hepTroubles>>

Find(p) ==
    /\ at[p] = "find"
    /\ \/ /\ mode # "closed" /\ Running # {}
          /\ sess' = [sess EXCEPT ![p] = Least(Running)]
          /\ overlap' = (overlap \/ \E q \in Procs : sess[q] \in Running)
          /\ Goto(p, "clear")
          /\ UNCHANGED <<seen, hepTroubles>>
       \/ /\ mode # "closed" /\ Running = {}
          /\ Answer(p) /\ UNCHANGED <<overlap, hepTroubles>>
       \/ DbFails /\ Answer(p) /\ UNCHANGED overlap
    /\ UNCHANGED <<mode, life, keep, collector, stored, row, lost, arrived, ops>>

LeaveScope(p, next) ==
    /\ at[p] = "clear"
    /\ seen' = [seen EXCEPT ![p].filtered = count["scoped"]]
    /\ filter' = next
    /\ Goto(p, "count")
    /\ UNCHANGED <<mode, life, keep, seq, queue, flights, flushing, count, stored, row, sess,
                   history, bounds>>

\* Mutant: the filter is cleared, whosever it is.
ClearAnyScope(p) == LeaveScope(p, NoSession)

\* Mutant: the filter is not cleared.
ClearNoScope(p) == LeaveScope(p, filter)

\* finish() reads the statistics and clears the filter if it is its session's;
\* the capture is stopped and tracing restored before it goes on.
ClearScope(p) == LeaveScope(p, IF filter = sess[p] THEN NoSession ELSE filter)

Of(s) == {d \in stored : d.tag = s}

\* countSessionMessages(); a failure counts as none.
CountMessages(p) ==
    /\ at[p] = "count"
    /\ \/ seen' = [seen EXCEPT ![p].matched = Cardinality(Of(sess[p]))] /\ mode # "closed"
          /\ UNCHANGED hepTroubles
       \/ DbFails /\ UNCHANGED seen
    /\ Goto(p, "read")
    /\ UNCHANGED <<mode, life, keep, collector, stored, row, sess, history, arrived, ops>>

\* The first of the documents, oldest first.
FirstOf(docs, n) ==
    LET before(d) == {e \in docs : e.life < d.life \/ (e.life = d.life /\ e.seq < d.seq)}
    IN {d \in docs : Cardinality(before(d)) < n}

ReadUpTo(p, n) ==
    /\ at[p] = "read"
    /\ \/ /\ mode # "closed"
          /\ seen' = [seen EXCEPT ![p].docs = FirstOf(Of(sess[p]), n)]
          /\ Goto(p, "write")
          /\ UNCHANGED hepTroubles
       \/ DbFails /\ seen' = [seen EXCEPT ![p].error = TRUE] /\ Goto(p, "close")
    /\ UNCHANGED <<mode, life, keep, collector, stored, row, sess, history, arrived, ops>>

\* Mutant: the limit is not exceeded, so that nothing seems to be left out.
ReadMessagesUpToLimit(p) == ReadUpTo(p, SnapshotLimit)

\* snapshotSession() reads one more than it will keep; a failure is noted.
ReadMessages(p) == ReadUpTo(p, SnapshotLimit + 1)

WriteSnapshot(p) ==
    /\ at[p] = "write"
    /\ \/ /\ mode # "closed"
          /\ row' = [row EXCEPT ![sess[p]].snapshot = FirstOf(seen[p].docs, SnapshotLimit),
                                ![sess[p]].truncated = Cardinality(seen[p].docs) > SnapshotLimit,
                                ![sess[p]].taken = TRUE]
          /\ UNCHANGED <<seen, hepTroubles>>
       \/ DbFails /\ seen' = [seen EXCEPT ![p].error = TRUE] /\ UNCHANGED row
    /\ Goto(p, "close")
    /\ UNCHANGED <<mode, life, keep, collector, stored, sess, history, arrived, ops>>

Close(p) ==
    /\ at[p] = "close"
    /\ \/ /\ mode # "closed"
          /\ row' = [row EXCEPT ![sess[p]].status = IF p = Boot THEN "interrupted" ELSE "stopped",
                                ![sess[p]].matched = seen[p].matched,
                                ![sess[p]].filtered = seen[p].filtered,
                                ![sess[p]].error = @ \/ seen[p].error]
          /\ UNCHANGED hepTroubles
       \/ DbFails /\ UNCHANGED row
    /\ Answer(p)
    /\ UNCHANGED <<mode, life, keep, collector, stored, history, arrived, ops>>

-----------------------------------------------------------------------------
(* The end of the process *)

\* SIGTERM: other services are stopped, the collector is not.
Sigterm ==
    /\ mode = "up" /\ HepTrouble /\ mode' = "closing"
    /\ UNCHANGED <<life, keep, collector, stored, row, handlers, history, arrived, ops>>

Disconnect ==
    /\ mode = "closing" /\ mode' = "closed"
    /\ UNCHANGED <<life, keep, collector, stored, row, handlers, history, bounds>>

\* The process is gone and another one starts; a batch may have got there.
Renew ==
    /\ mode' = "up" /\ life' = life + 1
    /\ filter' = NoSession /\ seq' = 0 /\ queue' = {} /\ flights' = {} /\ flushing' = FALSE
    /\ count' = NoCount
    /\ \E part \in SUBSET UNION flights : stored' = stored \cup part
    /\ lost' = lost \cup queue \cup UNION flights
    /\ at' = [p \in Procs |-> IF p = Boot THEN "find" ELSE "idle"]
    /\ sess' = [p \in Procs |-> NoSession]
    /\ seen' = [p \in Procs |-> NoneSeen]
    /\ UNCHANGED <<keep, row, overlap, arrived, ops>>

Exit == mode = "closed" /\ Renew /\ UNCHANGED hepTroubles
Crash == HepTrouble /\ Renew

-----------------------------------------------------------------------------
Step(p) ==
    \/ p \in Starters /\ (SetScope(p) \/ Launch(p) \/ Fail(p))
    \/ p \in Finishers /\ (Find(p) \/ ClearScope(p) \/ CountMessages(p) \/ ReadMessages(p)
                           \/ WriteSnapshot(p) \/ Close(p))

Inserted(b) == InsertEnds(b) \/ InsertFails(b)

HepNext ==
    \/ \E m \in Datagrams : Datagram(m)
    \/ Tick
    \/ \E b \in flights : Inserted(b)
    \/ SetKeepalives
    \/ \E p \in Starters : Claim(p)
    \/ \E p \in Stoppers : AskStop(p)
    \/ \E p \in Procs : Step(p)
    \/ Sigterm \/ Disconnect \/ Exit \/ Crash

(* The timer fires for ever, an insert of the driver succeeds or times out *)
(* and a shutdown that has begun ends.  Nothing is assumed of requests.    *)
Fairness ==
    /\ WF_hepVars(Tick)
    /\ WF_hepVars(\E b \in flights : Inserted(b))
    /\ WF_hepVars(Disconnect) /\ WF_hepVars(Exit)

HepSpec == HepInit /\ [][HepNext]_hepVars /\ Fairness
-----------------------------------------------------------------------------
(* Properties *)

Flying == UNION flights

(* Nothing is dropped in silence: the counters and the queue account for   *)
(* every datagram, up to the batches whose insert failed, which no counter *)
(* tells of (hep-collector.ts:215-285).                                    *)
Accounted ==
    /\ count["received"] = count["bad"] + count["notSip"] + count["keepalive"]
                            + count["scoped"] + count["overflow"] + seq
    /\ seq = count["stored"] + Cardinality(queue \cup Flying \cup {d \in lost : d.life = life})

Known(s) == {d \in stored \cup queue \cup Flying \cup lost : d.tag = s}

(* A session that has been closed gets no more messages: what was received *)
(* after it, whoever stopped it and through any restart, is not tagged     *)
(* with it, unless a stop reached into its start                           *)
(* (call-debug-session.ts:345-349, hep-collector.ts:252).                  *)
SealedAfterStop ==
    [][\A s \in Sessions :
          row[s].status \in {"stopped", "interrupted", "failed"} /\ ~ overlap =>
              Known(s)' \subseteq Known(s)]_hepVars

(* The running session loses its scope only with the process, by a step of *)
(* its own handlers, or to a start of a session that was closed while the  *)
(* start was under way: a stop of an earlier session that comes late       *)
(* leaves it alone (call-debug-session.ts:310, 347-349).                   *)
NewerScopeKept ==
    [][\A s \in Running :
          filter = s /\ filter' # s =>
              \/ life' # life
              \/ \E p \in Procs :
                     /\ at'[p] # at[p]
                     /\ \/ sess[p] = s
                        \/ p \in Starters /\ row[sess[p]].status # "running"]_hepVars

(* The messages a closed session says it matched are in its snapshot, or   *)
(* the snapshot says that it is cut or the row that it failed, although    *)
(* messages go on arriving in the database while it is closed, and unless  *)
(* two stops overlapped (call-debug-session.ts:366-387).                   *)
CountedInSnapshot ==
    \A s \in Sessions :
        row[s].status \in {"stopped", "interrupted"} /\ ~ overlap =>
            \/ row[s].matched <= Cardinality(row[s].snapshot)
            \/ row[s].truncated \/ row[s].error
=============================================================================
