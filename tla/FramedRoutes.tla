----------------------------- MODULE FramedRoutes -----------------------------
(***************************************************************************)
(* Host routes for the networks behind a UE: syncStaticRoutes() of         *)
(* subscriber-management.ts, addRoute() and removeRoute() of               *)
(* tun-management.ts, and framed-routing-reconcile-service.ts, under       *)
(* application/use-cases.                                                  *)
(*                                                                         *)
(* A subscriber's document lists routes, each a network of a DNN; a route  *)
(* goes to the device that serves its DNN.  A request changes the document *)
(* and then removes and adds the routes in which it differs from the one   *)
(* it read.  A bulk request only changes documents.  Every minute a pass   *)
(* adds what the documents list, and removes nothing.  Nothing serialises  *)
(* them, and the exit code of an ip command is not looked at.              *)
(***************************************************************************)
EXTENDS Naturals, FiniteSets

CONSTANTS
    Requests,   \* handlers of requests on subscribers
    Timers,     \* periodic passes that may be under way at once
    Imsis, Dnns, Cidrs,
    Devs,       \* TUN devices
    Ogstun,     \* the device of a DNN that cannot be resolved
    NoDev,      \* the network has no route
    MaxOps,     \* bound on requests
    MaxTroubles \* bound on failed calls, moves of a DNN, restarts and reboots

ASSUME RouteBoundsAssumption == MaxOps \in Nat /\ MaxTroubles \in Nat

ASSUME RouteNamesAssumption ==
    Requests \cap Timers = {} /\ Ogstun \in Devs /\ NoDev \notin Devs

VARIABLES
    known,   \* subscribers that exist
    wants,   \* per subscriber: the static routes of its document
    dev,     \* per DNN: the device smf.yaml and upf.yaml give it
    kernel,  \* per network: the device of its route in the main table
    at,      \* where each request and pass is
    job,     \* the request, and the routes it read and writes
    rem,     \* routes still to be removed
    add,     \* routes still to be added
    hand,    \* the route addRoute() has deleted and will now add
    stray,   \* history: the networks whose route a mishap may have left behind
             \* since the host is up
    alone,   \* history: nothing else happened since the request began
    ops, troubles

host == <<dev, kernel, stray>>
docs == <<known, wants>>
work == <<rem, add, hand>>
routesVars == <<host, docs, at, job, work, alone, ops, troubles>>

Procs == Requests \cup Timers
Routes == Dnns \X Cidrs
Kinds == {"create", "update", "delete", "bulk"}

Jobs == [kind : Kinds, imsi : Imsis, old : SUBSET Routes, new : SUBSET Routes]

Wanted == UNION {wants[i] : i \in Imsis}

On(routes) == {<<x[2], dev[x[1]]>> : x \in routes}

RoutesInit ==
    /\ known \in SUBSET Imsis
    /\ wants \in [Imsis -> SUBSET Routes]
    /\ \A i \in Imsis \ known : wants[i] = {}
    /\ dev \in [Dnns -> Devs]
    /\ kernel = [c \in Cidrs |-> NoDev]
    /\ at = [p \in Procs |-> "idle"]
    /\ job = [p \in Procs |-> {}]
    /\ rem = [p \in Procs |-> {}]
    /\ add = [p \in Procs |-> {}]
    /\ hand = [p \in Procs |-> {}]
    /\ stray = {}
    /\ alone = [r \in Requests |-> FALSE]
    /\ ops = 0 /\ troubles = 0

Goto(p, label) == at' = [at EXCEPT ![p] = label]

Trouble == /\ troubles < MaxTroubles
           /\ troubles' = troubles + 1

(* A step of p ends the quiet of every other request, and a failure ends   *)
(* its own.                                                                *)
StepOf(p) ==
    alone' = [r \in Requests |-> r = p /\ alone[r] /\ troubles' = troubles]

-----------------------------------------------------------------------------
(* Requests on a subscriber.                                               *)

(* bulkAddApn(): the sessions of one DNN are replaced, or added.           *)
BulkNew(old, new) ==
    \E d \in Dnns, cs \in SUBSET Cidrs :
        new = {x \in old : x[1] # d} \cup ({d} \X cs)

(* findByImsi() or findAllFull(), and the checks on what it returns; a     *)
(* request that fails them changes nothing and is left out.                *)
Find(r, k, i, new) ==
    /\ at[r] = "idle" /\ ops < MaxOps
    /\ (k = "create") = (i \notin known)
    /\ k = "delete" => new = {}
    /\ k = "bulk" => BulkNew(wants[i], new)
    /\ job' = [job EXCEPT ![r] =
                  {[kind |-> k, imsi |-> i, old |-> wants[i], new |-> new]}]
    /\ ops' = ops + 1
    /\ alone' = [q \in Requests |-> q = r /\ \A p \in Procs \ {r} : at[p] = "idle"]
    /\ Goto(r, "write")
    /\ UNCHANGED <<host, docs, work, troubles>>

NetworksOf(routes) == {x[2] : x \in routes}

(* What the request of r lists anew, and what it lists no more.            *)
Entered(r) == UNION {j.new \ j.old : j \in job[r]}
Dropped(r) == UNION {j.old \ j.new : j \in job[r]}

(* The networks p is still going to add a route for.                       *)
Adding(p) ==
    {x[1] : x \in add[p] \cup hand[p]}
      \cup IF at[p] # "load" THEN {}
           ELSE NetworksOf(IF p \in Timers THEN job[p] ELSE Entered(p))

(* The routes p is still going to remove.                                  *)
Removing(p) == rem[p] \cup IF p \in Requests /\ at[p] = "load" THEN On(Dropped(p)) ELSE {}

(* Networks that no document lists any more and that r is not going to     *)
(* remove, as its request is a bulk one or the document is not the one it  *)
(* read; those another handler is still adding; and those r adds for a     *)
(* subscriber that is gone.                                                *)
LeftBehind(r, j) ==
    LET lapsed == Wanted \ Wanted' IN
    NetworksOf(IF j.kind = "bulk" THEN lapsed ELSE lapsed \ (j.old \ j.new))
      \cup (NetworksOf(lapsed) \cap UNION {Adding(p) : p \in Procs \ {r}})
      \cup IF j.kind = "bulk" \/ j.imsi \in known' THEN {} ELSE NetworksOf(j.new \ j.old)

(* The document is written.  Open5GS keeps IMSIs unique, so that a second  *)
(* creation fails; an update of a document that is gone matches nothing    *)
(* and goes on.                                                            *)
Write(r) ==
    \E j \in job[r] :
      /\ at[r] = "write"
      /\ IF j.kind = "create" /\ j.imsi \in known
         THEN /\ Goto(r, "idle")
              /\ job' = [job EXCEPT ![r] = {}]
              /\ UNCHANGED <<docs, stray>>
         ELSE /\ known' = CASE j.kind = "create" -> known \cup {j.imsi}
                            [] j.kind = "delete" -> known \ {j.imsi}
                            [] OTHER -> known
              /\ wants' = [wants EXCEPT ![j.imsi] =
                              IF j.imsi \in known' THEN j.new ELSE {}]
              /\ stray' = stray \cup LeftBehind(r, j)
              /\ IF j.kind = "bulk" \/ j.old = j.new
                 THEN Goto(r, "idle") /\ job' = [job EXCEPT ![r] = {}]
                 ELSE Goto(r, "load") /\ UNCHANGED job
      /\ UNCHANGED <<dev, kernel, work, ops, troubles>>
      /\ StepOf(r)

\* Mutant: the routes that are no longer listed are not looked for.
LoadAddsOnly(r) ==
    \E j \in job[r] :
      /\ at[r] = "load"
      /\ add' = [add EXCEPT ![r] = On(j.new \ j.old)]
      /\ Goto(r, "routes")
      /\ UNCHANGED <<host, docs, job, rem, hand, ops, troubles>>
      /\ StepOf(r)

(* resolveDnnDevMap() and the diff of the two documents.                   *)
Load(r) ==
    \E j \in job[r] :
      /\ at[r] = "load"
      /\ rem' = [rem EXCEPT ![r] = On(j.old \ j.new)]
      /\ add' = [add EXCEPT ![r] = On(j.new \ j.old)]
      /\ Goto(r, "routes")
      /\ UNCHANGED <<host, docs, job, hand, ops, troubles>>
      /\ StepOf(r)

(* The write or the load throws, and so does the request.                  *)
Throw(r) ==
    /\ at[r] \in {"write", "load"}
    /\ Trouble
    /\ stray' = stray \cup {x[1] : x \in Removing(r)}
    /\ job' = [job EXCEPT ![r] = {}]
    /\ Goto(r, "idle")
    /\ UNCHANGED <<dev, kernel, docs, work, ops>>
    /\ StepOf(r)

-----------------------------------------------------------------------------
(* The periodic pass.                                                      *)

\* Mutant: the pass is not repeated after an error.
ListUntilError(t) ==
    /\ at[t] = "idle" /\ Wanted # {} /\ troubles = 0
    /\ job' = [job EXCEPT ![t] = Wanted]
    /\ Goto(t, "load")
    /\ UNCHANGED <<host, docs, work, ops, troubles>>
    /\ StepOf(t)

List(t) ==
    /\ at[t] = "idle" /\ Wanted # {}
    /\ job' = [job EXCEPT ![t] = Wanted]
    /\ Goto(t, "load")
    /\ UNCHANGED <<host, docs, work, ops, troubles>>
    /\ StepOf(t)

\* Mutant: the pass puts every route on the default device.
LoadForPassOgstun(t) ==
    /\ at[t] = "load"
    /\ add' = [add EXCEPT ![t] = {<<x[2], Ogstun>> : x \in job[t]}]
    /\ job' = [job EXCEPT ![t] = {}]
    /\ Goto(t, "routes")
    /\ UNCHANGED <<host, docs, rem, hand, ops, troubles>>
    /\ StepOf(t)

LoadForPass(t) ==
    /\ at[t] = "load"
    /\ \/ /\ add' = [add EXCEPT ![t] = On(job[t])]
          /\ UNCHANGED <<troubles, stray>>
       \/ /\ Trouble  \* a file that does not load reads as an empty one
          /\ add' = [add EXCEPT ![t] = {<<x[2], Ogstun>> : x \in job[t]}]
          /\ stray' = stray \cup NetworksOf(job[t])
    /\ job' = [job EXCEPT ![t] = {}]
    /\ Goto(t, "routes")
    /\ UNCHANGED <<dev, kernel, docs, rem, hand, ops>>
    /\ StepOf(t)

-----------------------------------------------------------------------------
(* ip route del and ip route add.  The kernel keeps one route per network  *)
(* and metric: an add fails while there is one, on whatever device.        *)

Del(x) == kernel' = [kernel EXCEPT ![x[1]] = IF @ = x[2] THEN NoDev ELSE @]

NoCommand == Trouble /\ UNCHANGED kernel

RemoveRoute(p, x) ==
    /\ at[p] = "routes" /\ x \in rem[p]
    /\ \/ Del(x) /\ UNCHANGED <<troubles, stray>>
       \/ NoCommand /\ stray' = stray \cup {x[1]}
    /\ rem' = [rem EXCEPT ![p] = @ \ {x}]
    /\ UNCHANGED <<dev, docs, at, job, add, hand, ops>>
    /\ StepOf(p)

AddRouteDel(p, x) ==
    /\ at[p] = "routes" /\ rem[p] = {} /\ hand[p] = {}
    /\ x \in add[p]
    /\ \/ Del(x) /\ UNCHANGED troubles
       \/ NoCommand
    /\ add' = [add EXCEPT ![p] = @ \ {x}]
    /\ hand' = [hand EXCEPT ![p] = {x}]
    /\ UNCHANGED <<dev, stray, docs, at, job, rem, ops>>
    /\ StepOf(p)

AddRouteAdd(p) ==
    \E x \in hand[p] :
      /\ at[p] = "routes"
      /\ \/ /\ kernel' = [kernel EXCEPT ![x[1]] = IF @ = NoDev THEN x[2] ELSE @]
            /\ UNCHANGED troubles
         \/ NoCommand
      /\ hand' = [hand EXCEPT ![p] = {}]
      /\ UNCHANGED <<dev, stray, docs, at, job, rem, add, ops>>
      /\ StepOf(p)

Finish(p) ==
    /\ at[p] = "routes" /\ rem[p] \cup add[p] \cup hand[p] = {}
    /\ job' = [job EXCEPT ![p] = {}]
    /\ Goto(p, "idle")
    /\ UNCHANGED <<host, docs, work, ops, troubles>>
    /\ StepOf(p)

-----------------------------------------------------------------------------
(* The configuration and the host.                                         *)

(* An apply gives a DNN another device.  The routes of the old one stay,   *)
(* for a removal names the new one, and keep an add from taking effect.    *)
MoveDnn(d, v) ==
    /\ v # dev[d]
    /\ Trouble
    /\ dev' = [dev EXCEPT ![d] = v]
    /\ stray' = stray \cup {c \in Cidrs :
                  \/ <<d, c>> \in Wanted
                  \/ \E r \in Requests : at[r] = "load" /\ <<d, c>> \in Dropped(r)}
    /\ alone' = [r \in Requests |-> FALSE]
    /\ UNCHANGED <<kernel, docs, at, job, work, ops>>

AllLost ==
    /\ at' = [p \in Procs |-> "idle"]
    /\ job' = [p \in Procs |-> {}]
    /\ rem' = [p \in Procs |-> {}]
    /\ add' = [p \in Procs |-> {}]
    /\ hand' = [p \in Procs |-> {}]
    /\ alone' = [r \in Requests |-> FALSE]

(* The backend restarts, alone or with the host.                           *)
Restart ==
    /\ Trouble
    /\ AllLost
    /\ \/ /\ stray' = stray \cup {x[1] : x \in UNION {Removing(p) : p \in Procs}}
          /\ UNCHANGED kernel
       \/ /\ kernel' = [c \in Cidrs |-> NoDev]
          /\ stray' = {}
    /\ UNCHANGED <<dev, docs, ops>>

-----------------------------------------------------------------------------
RouteStep(p) ==
    \/ \E x \in Cidrs \X Devs : RemoveRoute(p, x) \/ AddRouteDel(p, x)
    \/ AddRouteAdd(p) \/ Finish(p)

RequestStep(r) == Write(r) \/ Load(r) \/ Throw(r) \/ RouteStep(r)

PassStep(t) == List(t) \/ LoadForPass(t) \/ RouteStep(t)

RoutesNext ==
    \/ \E r \in Requests, k \in Kinds, i \in Imsis, new \in SUBSET Routes :
          Find(r, k, i, new)
    \/ \E r \in Requests : RequestStep(r)
    \/ \E t \in Timers : PassStep(t)
    \/ \E d \in Dnns, v \in Devs : MoveDnn(d, v)
    \/ Restart

(* The interval fires for ever, and the commands of a pass come back: each *)
(* has a timeout.  Nothing is assumed of the requests.                     *)
Fairness == \A t \in Timers : WF_routesVars(PassStep(t))

RoutesSpec == RoutesInit /\ [][RoutesNext]_routesVars /\ Fairness

-----------------------------------------------------------------------------
(* The variables hold values of the shapes the code gives them; only a     *)
(* subscriber that exists lists routes.                                    *)
RoutesTypeOK ==
    /\ known \subseteq Imsis
    /\ wants \in [Imsis -> SUBSET Routes]
    /\ \A i \in Imsis \ known : wants[i] = {}
    /\ dev \in [Dnns -> Devs]
    /\ kernel \in [Cidrs -> Devs \cup {NoDev}]
    /\ stray \subseteq Cidrs
    /\ at \in [Procs -> {"idle", "write", "load", "routes"}]
    /\ \A r \in Requests : job[r] \subseteq Jobs
    /\ \A t \in Timers : job[t] \subseteq Routes
    /\ rem \in [Procs -> SUBSET (Cidrs \X Devs)]
    /\ add \in [Procs -> SUBSET (Cidrs \X Devs)]
    /\ hand \in [Procs -> SUBSET (Cidrs \X Devs)]
    /\ alone \in [Requests -> BOOLEAN]
    /\ ops \in 0..MaxOps /\ troubles \in 0..MaxTroubles

(* A request that nothing disturbs leaves the kernel as its answer says:   *)
(* what it added has a route, and what it took away and no other           *)
(* subscriber lists has none on the device of its DNN.                     *)
QuietSync ==
    [][\A r \in Requests : \A j \in job[r] :
        alone'[r] /\ at[r] = "routes" /\ at'[r] = "idle" =>
          /\ \A x \in j.new \ j.old : kernel[x[2]] # NoDev
          /\ \A x \in j.old \ j.new :
                x[2] \in {y[2] : y \in Wanted} \/ kernel[x[2]] # dev[x[1]]]_routesVars

Listed == {x[2] : x \in Wanted}

(* A network has a route, but for the moment between the two commands of   *)
(* addRoute().                                                             *)
Present(c) == kernel[c] # NoDev \/ \E p \in Procs : c \in {x[1] : x \in hand[p]}

Routed == \A c \in Listed : Present(c)

(* Every route of the kernel is the one of a document, on the device of    *)
(* its DNN, or a request under way is about to remove it, although lists   *)
(* and devices are read at different times and may both be old when the    *)
(* commands run.  Removals are left to the difference of two documents     *)
(* (framed-routing-reconcile-service.ts:24-28), so that a route is left    *)
(* for good by what `stray` notes and by nothing else: a bulk request, two *)
(* requests of one document, an update of a subscriber that is gone, a     *)
(* handler that adds what is no longer listed, a failed command or load, a *)
(* DNN that moves, a restart.                                              *)
RoutesExplained ==
    \A c \in Cidrs \ stray : kernel[c] # NoDev =>
        <<c, kernel[c]>> \in On(Wanted) \cup UNION {Removing(p) : p \in Procs}

(* Failures, restarts, reboots and requests that overlap are made up for   *)
(* by the pass: in the end every network listed stays routed.              *)
EventuallyRouted == <>[]Routed
=============================================================================
