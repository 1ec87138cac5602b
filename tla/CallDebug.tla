------------------------------ MODULE CallDebug ------------------------------
(***************************************************************************)
(* Call debug sessions                                                     *)
(* (application/use-cases/sip-trace/call-debug-session.ts).                *)
(*                                                                         *)
(* A session ties together a row in the database, of which one at most is  *)
(* 'running', the scope filter of the HEP collector, a packet capture in a *)
(* unit of its own, and the tracing switch of the CSCFs.  Only the filter  *)
(* dies with the backend.  The switch is three things: what the CSCFs do,  *)
(* what their files tell them to do after a restart, and the flag in the   *)
(* IMS state that the code reads.                                          *)
(***************************************************************************)
EXTENDS Naturals, FiniteSets

CONSTANTS
    Starters,   \* handlers of POST /call-debug/start
    Stoppers,   \* handlers of POST /call-debug/stop
    Operators,  \* handlers of POST /enable and /disable of the Trace card
    Boot,       \* reconcile() at the start of the backend
    MaxSessions, \* bound on sessions
    MaxOps,     \* bound on requests
    MaxTroubles \* bound on failed commands and updates and restarts together

ASSUME CallDebugAssumption ==
    /\ MaxSessions \in Nat /\ MaxOps \in Nat /\ MaxTroubles \in Nat
    /\ Starters \cap Stoppers = {} /\ Operators \cap (Starters \cup Stoppers) = {}
    /\ Boot \notin Starters \cup Stoppers \cup Operators

VARIABLES
    row,     \* a session's document: its status, tracingWasEnabled, and
             \* whether pcapId is set
    filter,  \* the session the collector is scoped to, or NoSession
    flag,    \* sipTracingEnabled of the IMS state
    include, \* CAPTURE_TRACE_ON in the files of the CSCFs
    live,    \* whether the CSCFs duplicate their messages
    unit,    \* sessions whose capture unit is active
    manifest, \* the status in a capture's manifest
    pc,      \* where each handler is
    sess,    \* the session a handler works on
    was,     \* its tracingWasEnabled
    cap,     \* whether the handler saw a pcapId
    goal,    \* what a handler asked setSipTracingEnabled() for
    back,    \* where it goes on when the switch is done
    ops, troubles,
    wanted,  \* history: an operator's enable() was not followed by a disable()
    mishaps, \* history: what may leave things behind
    adrift   \* history: sessions whose capture may be left running

locals == <<sess, was, cap, goal, back>>
host == <<flag, include, live, unit, manifest>>
counts == <<ops, troubles, wanted, mishaps, adrift>>
vars == <<row, filter, host, pc, locals, counts>>

Finishers == Stoppers \cup {Boot}
Procs == Starters \cup Finishers \cup Operators
Ids == 1..MaxSessions
NoSession == 0

Running == {i \in Ids : row[i].status = "running"}
Unused == {i \in Ids : row[i].status = "none"}

Init ==
    /\ row = [i \in Ids |-> [status |-> "none", was |-> FALSE, pcap |-> FALSE]]
    /\ filter = NoSession
    /\ flag = FALSE /\ include = FALSE /\ live = FALSE
    /\ unit = {} /\ manifest = [i \in Ids |-> "none"]
    /\ pc = [p \in Procs |-> "idle"]
    /\ sess = [p \in Procs |-> NoSession]
    /\ was = [p \in Procs |-> FALSE]
    /\ cap = [p \in Procs |-> FALSE]
    /\ goal = [p \in Procs |-> FALSE]
    /\ back = [p \in Procs |-> "idle"]
    /\ ops = 0 /\ troubles = 0 /\ wanted = FALSE /\ mishaps = {} /\ adrift = {}

Goto(p, label) == pc' = [pc EXCEPT ![p] = label]

\* The handler has answered; its locals are gone.
Answer(p) ==
    /\ Goto(p, "idle")
    /\ sess' = [sess EXCEPT ![p] = NoSession]
    /\ was' = [was EXCEPT ![p] = FALSE]
    /\ cap' = [cap EXCEPT ![p] = FALSE]
    /\ goal' = [goal EXCEPT ![p] = FALSE]
    /\ back' = [back EXCEPT ![p] = "idle"]

Trouble == troubles < MaxTroubles /\ troubles' = troubles + 1
Note(m) == mishaps' = mishaps \cup {m}
SetAdrift(p) == adrift' = adrift \cup {sess[p]}
NoteIf(c, m) == mishaps' = IF c THEN mishaps \cup {m} ELSE mishaps

\* updateOne({id}, {$set: ...}): nothing happens when the document is gone.
Update(i, status) ==
    row' = IF row[i].status \in {"none", "deleted"} THEN row
           ELSE [row EXCEPT ![i].status = status]

-----------------------------------------------------------------------------
(* The tracing switch *)

Switching == {p \in Procs : pc[p] \in {"include", "rpc", "persist"}}

\* A call of setSipTracingEnabled(on); it is noted when another is under way.
Switch(p, on, next) ==
    /\ Goto(p, IF on THEN "include" ELSE "rpc")
    /\ goal' = [goal EXCEPT ![p] = on]
    /\ back' = [back EXCEPT ![p] = next]
    /\ NoteIf(Switching # {}, "overlap")

\* For "on" the files are written first.
WriteIncludes(p) ==
    /\ pc[p] = "include"
    /\ include' = TRUE
    /\ Goto(p, "rpc")
    /\ UNCHANGED <<row, filter, flag, live, unit, manifest, locals, counts>>

\* The CSCFs are told.  One that cannot be reached is taken for one without the
\* module: fine for "off", and "run Configure" for "on".
TellCscfs(p) ==
    /\ pc[p] = "rpc"
    /\ Goto(p, "persist")
    /\ \/ live' = goal[p] /\ UNCHANGED <<back, troubles, mishaps>>
       \/ /\ goal[p] /\ live' \in {live, TRUE}
          /\ back' = [back EXCEPT ![p] = IF @ = "scope" THEN "unwind" ELSE @]
          /\ UNCHANGED <<troubles, mishaps>>
       \/ /\ ~ goal[p] /\ Trouble /\ Note("tracing")
          /\ UNCHANGED <<live, back>>
    /\ UNCHANGED <<row, filter, flag, include, unit, manifest, sess, was, cap, goal,
                   ops, wanted, adrift>>

\* The flag is written last, and for "off" the files just before it.
PersistFlag(p) ==
    /\ pc[p] = "persist"
    /\ flag' = goal[p] /\ include' = goal[p]
    /\ wanted' = (wanted /\ (p \in Operators => goal[p]))
    /\ IF back[p] = "idle" THEN Answer(p)
       ELSE Goto(p, back[p]) /\ UNCHANGED locals
    /\ UNCHANGED <<row, filter, live, unit, manifest, ops, troubles, mishaps, adrift>>

\* A file cannot be read or written, when some may have been: start() unwinds,
\* the others go on.
SwitchThrows(p) ==
    /\ p \in Switching /\ Trouble /\ Note("tracing")
    /\ include' \in {include, goal[p]}
    /\ CASE back[p] = "idle" -> Answer(p)
         [] back[p] = "scope" -> Goto(p, "unwind") /\ UNCHANGED locals
         [] OTHER -> Goto(p, back[p]) /\ UNCHANGED locals
    /\ UNCHANGED <<row, filter, flag, live, unit, manifest, ops, wanted, adrift>>

\* A CSCF comes up with what its files say.  Between the two halves of "off"
\* it brings the tracing up again, which is noted.
CscfRestarts ==
    /\ live # include /\ Trouble
    /\ live' = include
    /\ NoteIf(\E p \in Procs : pc[p] = "persist" /\ ~ goal[p], "tracing")
    /\ UNCHANGED <<row, filter, flag, include, unit, manifest, pc, locals,
                   ops, wanted, adrift>>

AskSwitch(o, on) ==
    /\ pc[o] = "idle" /\ ops < MaxOps
    /\ ops' = ops + 1
    /\ wanted' = (wanted \/ on)
    /\ Switch(o, on, "idle")
    /\ UNCHANGED <<row, filter, host, sess, was, cap, troubles, adrift>>

-----------------------------------------------------------------------------
(* start() *)

\* getRunningSession() found none, or the request is refused.
StartCheck(p) ==
    /\ pc[p] = "idle" /\ ops < MaxOps /\ Running = {} /\ Unused # {}
    /\ ops' = ops + 1
    /\ Goto(p, "read")
    /\ UNCHANGED <<row, filter, host, locals, troubles, wanted, mishaps, adrift>>

\* tracingEnabled(), after the parties and the interfaces were looked up.
ReadTracing(p) ==
    /\ pc[p] = "read"
    /\ was' = [was EXCEPT ![p] = flag]
    /\ Goto(p, "claim")
    /\ UNCHANGED <<row, filter, host, sess, cap, goal, back, counts>>

NextId == CHOOSE i \in Unused : \A j \in Unused : i <= j

\* Mutant: the index on 'running' is not unique.
ClaimAnyway(p) ==
    /\ pc[p] = "claim" /\ Unused # {}
    /\ row' = [row EXCEPT ![NextId] = [status |-> "running", was |-> was[p], pcap |-> FALSE]]
    /\ sess' = [sess EXCEPT ![p] = NextId]
    /\ IF was[p] THEN Goto(p, "scope") /\ UNCHANGED <<goal, back, mishaps>>
       ELSE Switch(p, TRUE, "scope")
    /\ UNCHANGED <<filter, host, was, cap, ops, troubles, wanted, adrift>>

\* insertSession(): the unique index on 'running' lets one through.
Claim(p) ==
    /\ pc[p] = "claim" /\ Running = {} /\ Unused # {}
    /\ row' = [row EXCEPT ![NextId] = [status |-> "running", was |-> was[p], pcap |-> FALSE]]
    /\ sess' = [sess EXCEPT ![p] = NextId]
    /\ IF was[p] THEN Goto(p, "scope") /\ UNCHANGED <<goal, back, mishaps>>
       ELSE Switch(p, TRUE, "scope")
    /\ UNCHANGED <<filter, host, was, cap, ops, troubles, wanted, adrift>>

ClaimRefused(p) ==
    /\ pc[p] = "claim" /\ (Running # {} \/ Unused = {})
    /\ Answer(p)
    /\ UNCHANGED <<row, filter, host, counts>>

SetScope(p) ==
    /\ pc[p] = "scope"
    /\ filter' = sess[p]
    /\ Goto(p, "launch")
    /\ UNCHANGED <<row, host, locals, counts>>

\* pcap.start(): systemd-run accepts the unit, or says no, or times out when it
\* may have started it.
Launch(p) ==
    /\ pc[p] = "launch"
    /\ \/ unit' = unit \cup {sess[p]} /\ Goto(p, "confirm") /\ UNCHANGED <<troubles, adrift>>
       \/ unit' \in {unit, unit \cup {sess[p]}} /\ Goto(p, "unwind") /\ Trouble /\ SetAdrift(p)
    /\ UNCHANGED <<row, filter, flag, include, live, manifest, locals, ops, wanted, mishaps>>

\* The rest of pcap.start(): the unit is still active half a second later.
Confirm(p) ==
    /\ pc[p] = "confirm"
    /\ IF sess[p] \in unit
       THEN manifest' = [manifest EXCEPT ![sess[p]] = "running"] /\ Goto(p, "record")
       ELSE Goto(p, "unwind") /\ UNCHANGED manifest
    /\ UNCHANGED <<row, filter, flag, include, live, unit, locals, counts>>

RecordCapture(p) ==
    /\ pc[p] = "record"
    /\ row' = IF row[sess[p]].status = "deleted" THEN row
              ELSE [row EXCEPT ![sess[p]].pcap = TRUE]
    /\ Answer(p)
    /\ UNCHANGED <<filter, host, counts>>

\* Mutant: the filter is left set.
UnwindKeepsScope(p) ==
    /\ pc[p] = "unwind"
    /\ IF was[p] THEN Goto(p, "fail") /\ UNCHANGED <<goal, back, mishaps>>
       ELSE Switch(p, FALSE, "fail")
    /\ UNCHANGED <<row, filter, host, sess, was, cap, ops, troubles, wanted, adrift>>

\* unwind(): the filter goes, whosever it is, and tracing if start() put it on.
Unwind(p) ==
    /\ pc[p] = "unwind"
    /\ filter' = NoSession
    /\ IF was[p] THEN Goto(p, "fail") /\ UNCHANGED <<goal, back, mishaps>>
       ELSE Switch(p, FALSE, "fail")
    /\ UNCHANGED <<row, host, sess, was, cap, ops, troubles, wanted, adrift>>

Fail(p) ==
    /\ pc[p] = "fail"
    /\ Update(sess[p], "failed")
    /\ Answer(p)
    /\ UNCHANGED <<filter, host, counts>>

-----------------------------------------------------------------------------
(* stop() and reconcile() *)

AskStop(p) ==
    /\ p \in Stoppers /\ pc[p] = "idle" /\ ops < MaxOps
    /\ ops' = ops + 1
    /\ Goto(p, "find")
    /\ UNCHANGED <<row, filter, host, locals, troubles, wanted, mishaps, adrift>>

\* getRunningSession(); it is noted when another handler works on the session.
\* One that is still being started has a capture its row does not tell of.
Find(p) ==
    /\ pc[p] = "find"
    /\ IF Running = {} THEN Answer(p) /\ UNCHANGED <<mishaps, adrift>>
       ELSE \E i \in Running :
              /\ sess' = [sess EXCEPT ![p] = i]
              /\ was' = [was EXCEPT ![p] = row[i].was]
              /\ cap' = [cap EXCEPT ![p] = row[i].pcap]
              /\ NoteIf(\E q \in Procs : sess[q] = i, "overlap")
              /\ adrift' = adrift \cup (Running \cap {sess[q] : q \in Starters})
              /\ Goto(p, "clear")
              /\ UNCHANGED <<goal, back>>
    /\ UNCHANGED <<row, filter, host, ops, troubles, wanted>>

\* finish() clears the filter if it is this session's.
ClearScope(p) ==
    /\ pc[p] = "clear"
    /\ filter' = IF filter = sess[p] THEN NoSession ELSE filter
    /\ Goto(p, IF cap[p] THEN "mark" ELSE "restore")
    /\ UNCHANGED <<row, host, locals, counts>>

\* Mutant: a capture is stopped when its manifest says 'starting'.
MarkStoppingLate(p) ==
    /\ pc[p] = "mark"
    /\ IF manifest[sess[p]] = "none"
       THEN manifest' = [manifest EXCEPT ![sess[p]] = "stopping"] /\ Goto(p, "halt")
       ELSE Goto(p, "restore") /\ UNCHANGED manifest
    /\ UNCHANGED <<row, filter, flag, include, live, unit, locals, counts>>

\* pcap.stop() returns at once unless the manifest says 'running'.
MarkStopping(p) ==
    /\ pc[p] = "mark"
    /\ IF manifest[sess[p]] = "running"
       THEN manifest' = [manifest EXCEPT ![sess[p]] = "stopping"] /\ Goto(p, "halt")
       ELSE Goto(p, "restore") /\ UNCHANGED manifest
    /\ UNCHANGED <<row, filter, flag, include, live, unit, locals, counts>>

\* stopService(), and 'stopped' in the manifest; a failure is only logged.
StopUnit(p) ==
    /\ pc[p] = "halt"
    /\ \/ /\ unit' = unit \ {sess[p]}
          /\ manifest' = [manifest EXCEPT ![sess[p]] = "stopped"]
          /\ UNCHANGED <<troubles, adrift>>
       \/ Trouble /\ SetAdrift(p) /\ UNCHANGED <<unit, manifest>>
    /\ Goto(p, "restore")
    /\ UNCHANGED <<row, filter, flag, include, live, locals, ops, wanted, mishaps>>

\* Mutant: the condition is turned round.
RestoreTracingIfWas(p) ==
    /\ pc[p] = "restore"
    /\ IF was[p] /\ flag THEN Switch(p, FALSE, "close")
       ELSE Goto(p, "close") /\ UNCHANGED <<goal, back, mishaps>>
    /\ UNCHANGED <<row, filter, host, sess, was, cap, ops, troubles, wanted, adrift>>

\* Tracing goes off if the session found it off and the flag says on.
RestoreTracing(p) ==
    /\ pc[p] = "restore"
    /\ IF ~ was[p] /\ flag THEN Switch(p, FALSE, "close")
       ELSE Goto(p, "close") /\ UNCHANGED <<goal, back, mishaps>>
    /\ UNCHANGED <<row, filter, host, sess, was, cap, ops, troubles, wanted, adrift>>

\* Mutant: only a session with a capture is closed.
CloseCaptured(p) ==
    /\ pc[p] = "close"
    /\ IF cap[p] THEN Update(sess[p], IF p = Boot THEN "interrupted" ELSE "stopped")
       ELSE UNCHANGED row
    /\ Answer(p)
    /\ UNCHANGED <<filter, host, counts>>

\* The messages are counted and copied into the row, and the row is closed.
Close(p) ==
    /\ pc[p] = "close"
    /\ Update(sess[p], IF p = Boot THEN "interrupted" ELSE "stopped")
    /\ Answer(p)
    /\ UNCHANGED <<filter, host, counts>>

\* The database or the disk refuses: start() unwinds, and does not stop the
\* capture it has begun; the others end.
StoreFails(p) ==
    /\ pc[p] \in {"confirm", "record", "fail", "find", "close"} /\ Trouble
    /\ IF pc[p] \in {"confirm", "record"}
       THEN SetAdrift(p) /\ Goto(p, "unwind") /\ UNCHANGED <<mishaps, locals>>
       ELSE Note("row") /\ Answer(p) /\ UNCHANGED adrift
    /\ UNCHANGED <<row, filter, host, ops, wanted>>

-----------------------------------------------------------------------------
(* The rest *)

\* DELETE /call-debug/sessions/:id refuses a running one.
Delete(i) ==
    /\ row[i].status \in {"stopped", "interrupted", "failed"}
    /\ row' = [row EXCEPT ![i] = [status |-> "deleted", was |-> FALSE, pcap |-> FALSE]]
    /\ UNCHANGED <<filter, host, pc, locals, counts>>

\* dumpcap reaches a limit, or dies.
CaptureEnds(i) ==
    /\ i \in unit /\ unit' = unit \ {i}
    /\ UNCHANGED <<row, filter, flag, include, live, manifest, pc, locals, counts>>

\* Handlers a restart cuts short with tracing on and the flag off, and with a
\* capture that no row or manifest tells of.
TracingCut == \E p \in Procs : pc[p] \in {"rpc", "persist"} /\ goal[p]
CaptureCut == {p \in Procs : pc[p] \in {"confirm", "record", "halt"}}

\* The backend restarts: handlers and the filter are gone, reconcile() begins.
Restart ==
    /\ Trouble
    /\ filter' = NoSession
    /\ pc' = [p \in Procs |-> IF p = Boot THEN "find" ELSE "idle"]
    /\ sess' = [p \in Procs |-> NoSession]
    /\ was' = [p \in Procs |-> FALSE]
    /\ cap' = [p \in Procs |-> FALSE]
    /\ goal' = [p \in Procs |-> FALSE]
    /\ back' = [p \in Procs |-> "idle"]
    /\ NoteIf(TracingCut, "tracing")
    /\ adrift' = adrift \cup {sess[p] : p \in CaptureCut}
    /\ UNCHANGED <<row, host, ops, wanted>>

Step(p) ==
    \/ WriteIncludes(p) \/ TellCscfs(p) \/ PersistFlag(p)
    \/ p \in Starters /\ (\/ ReadTracing(p) \/ Claim(p) \/ ClaimRefused(p)
                          \/ SetScope(p) \/ Launch(p) \/ Confirm(p)
                          \/ RecordCapture(p) \/ Unwind(p) \/ Fail(p))
    \/ p \in Finishers /\ (\/ Find(p) \/ ClearScope(p) \/ MarkStopping(p) \/ StopUnit(p)
                           \/ RestoreTracing(p) \/ Close(p))

Next ==
    \/ \E p \in Procs : Step(p) \/ SwitchThrows(p) \/ StoreFails(p)
    \/ \E p \in Starters : StartCheck(p)
    \/ \E p \in Stoppers : AskStop(p)
    \/ \E o \in Operators, on \in BOOLEAN : AskSwitch(o, on)
    \/ \E i \in Ids : Delete(i) \/ CaptureEnds(i)
    \/ CscfRestarts \/ Restart

\* A handler that is under way goes on: its commands have timeouts.
Fairness == \A p \in Procs : WF_vars(Step(p))

Spec == Init /\ [][Next]_vars /\ Fairness

-----------------------------------------------------------------------------
(* Properties *)

Statuses == {"none", "running", "stopped", "interrupted", "failed", "deleted"}
Labels == {"idle", "include", "rpc", "persist", "read", "claim", "scope", "launch", "confirm",
           "record", "unwind", "fail", "find", "clear", "mark", "halt", "restore", "close"}

\* The kinds of the variables, and: a handler of start() works on a session
\* from its claim to its answer, and never before (call-debug-session.ts:250-337).
TypeOK ==
    /\ row \in [Ids -> [status : Statuses, was : BOOLEAN, pcap : BOOLEAN]]
    /\ filter \in Ids \cup {NoSession}
    /\ flag \in BOOLEAN /\ include \in BOOLEAN /\ live \in BOOLEAN
    /\ unit \subseteq Ids
    /\ manifest \in [Ids -> {"none", "running", "stopping", "stopped"}]
    /\ pc \in [Procs -> Labels]
    /\ sess \in [Procs -> Ids \cup {NoSession}]
    /\ was \in [Procs -> BOOLEAN] /\ cap \in [Procs -> BOOLEAN]
    /\ goal \in [Procs -> BOOLEAN]
    /\ back \in [Procs -> {"idle", "scope", "unwind", "fail", "close"}]
    /\ ops \in 0..MaxOps /\ troubles \in 0..MaxTroubles
    /\ wanted \in BOOLEAN /\ mishaps \subseteq {"overlap", "tracing", "row"}
    /\ adrift \subseteq Ids
    /\ \A p \in Starters : sess[p] = NoSession <=> pc[p] \in {"idle", "read", "claim"}

\* Of starts that race each other one gets a session: two are never being
\* started, run or wound up at once, unless a stop reached into one of them
\* (call-debug-store.ts:77-83, call-debug-session.ts:252-255).
OneSession ==
    "overlap" \notin mishaps =>
        Cardinality(Running \cup {sess[p] : p \in {q \in Starters : sess[q] # NoSession}}) <= 1

Quiet == \A p \in Procs : pc[p] = "idle"

\* With no handler under way, and if nothing failed to be undone, the collector
\* is scoped to the session that is running, and to none if none is
\* (call-debug-session.ts:282-287, 345-349, 392-401).
ScopeFollowsSession ==
    Quiet /\ mishaps \cap {"overlap", "row"} = {} =>
        filter = IF Running = {} THEN NoSession ELSE CHOOSE i \in Running : TRUE

\* Tracing does not outlive the session that put it on, not over a restart of
\* the backend or of a CSCF either: with no session and nobody asking for it, the
\* CSCFs do not trace and will not when they come up again
\* (call-debug-session.ts:357-364, 392-401).
TracingPutBack ==
    Quiet /\ mishaps \cap {"overlap", "tracing"} = {} /\ Running = {} /\ (live \/ include) =>
        wanted

\* A capture does not outlive its session (call-debug-session.ts:351-355), whatever
\* requests overlap and whichever sessions came before.  "Every failure must
\* unwind what already succeeded" (282) does not hold of it: `adrift` has the
\* sessions whose start failed when the unit may have been running, as unwind()
\* does not stop it, those stopped or cut off by a restart before their row or
\* their manifest told of the capture, and those whose unit could not be stopped.
CaptureFollowsSession == Quiet => unit \subseteq Running \cup adrift

\* reconcile() closes what a restart orphaned, wherever the restart came
\* (call-debug-session.ts:402-411).
OrphanClosed ==
    \A i \in Ids :
        (pc[Boot] = "find" /\ i \in Running) ~> (i \notin Running \/ "row" \in mishaps)
=============================================================================
