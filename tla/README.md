# Verification of open5gs-nms

TLA+ modules, TLC configurations and TLAPS proofs for the backend of open5gs-nms, the management
system of an Open5GS mobile core (`src/backend/src`; paths below are relative to it unless they
start with `docs/`). The backend is one Node.js process. It edits the configuration of some twenty
systemd units, keeps kernel state (nftables rules, routes) in line with its databases, and guards
daemons of the host. A handler runs undisturbed from one `await` to the next, so an action of the
modules is the stretch between two awaits that touch shared state; everything else may happen in
between: other requests, timers, the host, a restart of the backend.

## Inventory

| Component | State | Operations | Interacts with |
|---|---|---|---|
| Configuration apply (`application/use-cases/apply-config.ts`, `infrastructure/yaml`, `infrastructure/system`) | mutex, YAML files in `/etc/open5gs`, backup directories, running units, `prometheus.yml`, audit entries | apply: diff, back up, save, sync Prometheus, restart and check each unit, roll back | the editors of single files (slice sync, APN profiles, migrations), on-demand backups, systemd |
| RAN block services (`application/use-cases/ran/{radio,gnb,hnb}-block-service.ts`) | SQLite table, rules of an nftables table | block, unblock, reconcile every minute | the kernel, the Iuh port of the HNB gateway |
| UE block service (`ran/ue-block-service.ts`) | table of IMSIs with `last_ip`, rules | block, unblock, reconcile | the core's list of attached UEs |
| EIGRP guard (`frr/eigrp-health-guard.ts`) | last restart, restarts of the window | check every two minutes, restart frr | frr, the kernel's routes |
| Audit log (`infrastructure/logging`) | entries in memory, `audit.json` and its temporary file | log, load at boot | every handler |
| Call debug and HEP collector (`sip-trace/`) | session row (at most one running), scope filter, queue, capture, tracing flag | start, stop, expire, reconcile at boot, flush | Kamailio, tcpdump, MongoDB |
| CDR synchronisation (`cdr/`) | positions in a state file, record store | sync every source, on a timer and on demand | Asterisk's CSV files, Kamailio's tables, MongoDB |
| Framed routing (`framed-routing-reconcile-service.ts`, `subscriber-management.ts`, `tun-management.ts`) | subscriber documents, kernel routes | create, update, delete, bulk change, reconcile | MongoDB, the kernel, the SMF and UPF configuration |
| OCS reservation guard (`ocs/`) | reservations of the charging system's buckets | sweep | the charging system |
| Backup, restore, restore of everything (`backup-restore.ts`, `backup-restart-usecase.ts`, ...) | backup directories, dumps | back up, restore, clean up, restart | systemd, MongoDB, the apply |
| Number assignment (`auto-assign-ips-usecase.ts`, `autoAssignMsisdn()` and `bulkAddApn()` of `subscriber-management.ts`) | subscriber documents | assign, overwrite, write back | MongoDB, UPF configuration, APN profiles |
| Log streaming (`infrastructure/websocket`) | subscriptions and their child processes | subscribe, unsubscribe, close | the frontend |
| Traffic accounting (`traffic-history/subscriber-ip-accounting.ts`) | counter rules of an nftables chain | reconcile on a timer, read the counters | the kernel, the subscribers' documents |
| Guard of pyhss-diameter (`ims/pyhss-diameter-guard.ts`) | samples of two counters, last restart | check every two minutes, restart the daemon | two Kamailio components, systemd |
| Packet capture (`pcap.ts`), IMS monitors (`ims/`), TWAMP | processes, counters, caches | poll, start, stop | the host |
| Migrations, source builds, controllers, radio planning, frontend | none of their own beyond the above | scripts and views | the host |

What makes them right, and what is hard about it:

* **Apply.** One at a time; a failure at any step leaves the files as they were; fields the UI does
  not know survive; a unit that is up runs what is on disk. Hard: some neighbours do not take the
  mutex, backups of one minute share a directory, the rollback's own restarts can fail, and a
  crash resumes nothing.
* **Block services.** In the end the rules say what the table says. Hard: passes list, read, delete
  and add in separate steps, are not serialised, and nft failures go unnoticed.
* **UE block.** A blocked UE is dropped wherever it is, and nobody else is. Hard: its address
  changes, is unknown while it is detached, and is recorded after the rules were written.
* **EIGRP guard.** A restart costs a routing outage: never two too close, never too many, and only
  for a real fault. Hard: limits in memory, tables read at different moments by commands that fail.
* **Call debug.** One session at a time; when it ends, or fails to start, or the backend restarts,
  the filter, the capture and the tracing it brought are gone. Hard: four pieces of state of which
  only one dies with the backend, a start and an end of eight steps each, unwinds, and a stop that
  may come at any moment.
* **Audit log.** What was logged is on disk, in a file that parses. Hard: every call rewrites the
  whole log through one temporary file, calls overlap, and a log that does not parse at boot is
  replaced by an empty one.
* **CDR.** Each record once, none skipped. Hard: the position is saved apart from the records, passes
  overlap, files rotate, rows of one table become visible out of the order of their ids, and a call
  has two rows that come in different passes.
* **Framed routing.** Every network a document lists is routed to the device of its DNN. Hard:
  documents and routes are changed in separate steps that nothing serialises, exit codes are not
  looked at, and the reconcile loop adds but never removes.
* **Number assignment.** No number is given twice, none is taken from a subscriber that was not to
  lose it. Hard: a run works from a list it read once, beside other runs and the operator, and it may
  run out of numbers or fail half way.
* **HEP collector.** Every datagram is accounted for, memory stays bounded, a session has the messages
  that arrived while it ran. Hard: a queue in memory, a database that hangs, batches of which a part
  fails, sessions that end while messages wait, counters that live as long as the process.
* **Restores.** After a restore the units run what it wrote, and success means that it wrote it. Hard:
  restores are not serialised, there is one restart job for all of them, directories are cleaned away
  meanwhile, and one kind of restore ends the backend.
* **Traffic accounting.** Each address is counted once in each direction, for its owner. Hard: the two
  rules of a pair are two commands, a failed listing looks like an empty chain, passes may meet.
* **Guard of pyhss-diameter.** A restart for timeouts that accumulate, none for isolated ones, none too
  soon after the last. Hard: counters start again with their component, answers are missing, the
  command of a restart may time out and work all the same.
* **Log streaming**: no process without a subscription.

`PROJECT.json` lists every component with what is modelled of it, and every hazard at its line.

## Modules

| Module | Models |
|---|---|
| `YamlDoc` | a YAML document as a set of fields, `loadRaw()`, `deepMerge()` and what `saveRaw()` makes of the result; a file may be missing, blank or half copied |
| `ApplyContract` | what an apply promises: the files in effect change only to what was asked or back, and each apply ends in one of its answers |
| `ApplyConfig` | the workflow step by step, the rollback, the neighbours outside the mutex, the clock and the crash |
| `ApplyConfig_proofs` | theorems about `ApplyConfig` |
| `RanBlock` | the algorithm the three RAN block services share |
| `RanBlock_proofs` | theorems about `RanBlock` |
| `UeBlock` | the UE block service |
| `EigrpGuard` | the guard and its limits |
| `CallDebug` | call debug sessions and what they switch on |
| `CallDebug_proofs` | theorems about `CallDebug` |
| `CdrSync` | the synchronisation of call detail records |
| `CdrSync_proofs` | theorems about `CdrSync`: its types, its files, its calls |
| `FramedRoutes` | the routes of subscribers, from the requests and from the reconcile loop |
| `Routes_proofs` | theorems about `EigrpGuard` and `FramedRoutes` |
| `AutoAssign` | the assignment of addresses and MSISDNs, and the bulk writes beside it |
| `Subscribers_proofs` | theorems about `AutoAssign` and `UeBlock` |
| `AuditLog` | the audit log and its file |
| `HepCollector` | the collector's queue and the messages of call debug sessions |
| `Traces_proofs` | theorems about `AuditLog` and `HepCollector` |
| `ConfigRestore` | restores of configuration files, the restart job, the full restore's run, the cleanup of backups |
| `ConfigRestore_proofs` | theorems about `ConfigRestore` |
| `MC*` | the instances TLC checks |

A module of theorems about two components extends both, so their variables and definitions have different
names (`HepNext`, `RoutesNext`, `UeNext` beside `Next`); nothing else joins the two.

**ApplyConfig.** `disk`, `backup[minute]`, `running` and `prom` are the host; `mutex`, `pc`, `k`
(the loop's position), `req`, `dir`, `base` (what `saveRaw()` read before it awaited), `cause` and
`unconfirmed` are the handler's locals; `outcome` and `audit` what it leaves behind. `Submit` and
`Refuse` are the mutex test, `ChooseBackupDir` ... `BackupFails` the backup, `SaveRead`, `SaveSkip`,
`SaveWrite` and `SaveFails` the save loop. `loadAll()` runs twice, at the diff and before the save loop:
a blank file loads as undefined, on which the loader of a required service throws (`DiffFails` answers the
error, `LoadExisting` starts the rollback), and for which an optional one is left out of `existing`, so that
its save is skipped. `Saved` is a whole save: the merge over what was read, then the cleaning of the merged
document, numbers, nulls and `localhost` alike, whoever wrote them. `RestartUnit`, `RestartSkipped` (a unit systemd does not
know, or a container), `RestartFails` and `VerifyUnit` the restart loop, `RestoreOpen`,
`RestoreFill` (`copyFile()` truncates before it fills), `Rerestart` and `RollbackDone` the rollback.
`EditLoad`, `EditRead`, `EditWrite` are `sync-sd-usecase.ts` and the other use cases that load,
patch and save one file, whole, as they loaded it; `SnapshotStart`, `SnapshotFile` are `createConfigBackup()`. `pre` (the files as the
apply found them), `stale` (units excused from running what is on disk), `found` (the files at the start) and
`fresh` (files saved with no document under them) are history variables. A file cut in the middle is `Torn`;
that a shorter text may still parse is not told from that.
The order of restarts is a constant; the code's is `SERVICE_RESTART_ORDER`, which begins with
mongodb, hss and pcrf, not with the NRF as `docs/features.md` has it.

**RanBlock.** `blocked` is the table, `rules` the kernel; a pass keeps what it listed (`seen`) and
what it still has to delete and add. `List` precedes `Plan` (the table is read after the rules), a
rule is one `Delete` or `Add`, a failed one is not noticed. The radio and gNB services have a fixed
port, so `Ports` is a singleton for them; the HNB service reads the port in each pass
(`ChangePort`). A rule's handle tells copies apart.

**UeBlock.** `row[u]` is the row's `last_ip`; `addr` the core. A rule drops the packets from an address or
those to it. `Plan` reads the table, `Clear` deletes rules of IMSIs that are not blocked, `AskAddresses` may
fail, `MoveRules` takes up an IMSI whose rules are not in place, `AddFrom` and `AddTo` add the two rules of a
pair, with an await between them, `RecordIp` is `setLastIp()`, after the rules were added. A failing `nft`
command is passed over, as the code does: a listing shows nothing, a rule to be deleted stays, a rule to be
added is missing, and the address is recorded all the same. `torn` is history: the IMSIs whose rules two
passes moved at once, of whose pair a pass saw or deleted the first rule before the second was there
(`first` remembers that rule), or whose move or deletion a failure or a restart cut short.

**EigrpGuard.** The network is `topo` (EIGRP's prefixes), `fib` (the nexthop of each kernel route) and `bare`
(nexthops without a gateway); `NetworkChanges` changes one row of one of them, at any time. The three tables
are read one by one, in any order (`ReadTable`), so they may show different moments. `ReadFails` is a command
that fails: `run()` takes its output for complete, so rows may be missing or cut short (`Printed`).
`Diagnosed` is what `diagnoseEigrpHealth()` finds affects traffic: a required prefix of the topology without a
kernel route, or a route over a nexthop without gateway. `RestartAllowed` is `restartAllowed()` with its
cooldown and window; `Remember` runs after the restart but stores the time of the decision. `Tick` stops
before the timeouts of a check would reach the next one: they add up to 90 s of 120 s. `moments` and `failed`
are history: what the network was while the check read, and the tables whose reading failed.

**CallDebug.** `row` is the collection of sessions, `filter` the collector's scope, `unit` and
`manifest` the captures, `live` what the CSCFs do, `include` what their files say they do when they come up
again (`CscfRestarts`), and `flag` what the IMS state says of it. A start
goes `StartCheck`, `ReadTracing`, `Claim` (the unique index), the switch, `SetScope`, `Launch`,
`Confirm`, `RecordCapture`, and from any failure to `Unwind` and `Fail`; a stop and `reconcile()`
are `Find`, `ClearScope`, `MarkStopping`, `StopUnit`, `RestoreTracing`, `Close`.
`setSipTracingEnabled()` is the same steps for everybody who calls it: `WriteIncludes` (for "on" the files are
written first), `TellCscfs`, `PersistFlag` (with the files, for "off"). `Launch` is `systemd-run`, which may
time out with the unit started. `mishaps` is history: what a failed command or a restart left behind
(`tracing`, `row`), and whether operations on a session or on the switch overlapped (`overlap`); a property is
excused only by the mishaps that concern it. `adrift` has the sessions whose capture the code does not end.

**CdrSync.** `file[s]` is a `Master.csv` (whole lines, and a line half written), `rows` and `visible`
Kamailio's tables before and after a commit, `stored` and `doc` the collection, `saved` the state
file, `cur` the copy a pass works on. `Begin` is `loadState()`; `ReadSource` reads a file in one go
(the calls are synchronous) and keeps whole lines only; `StoreLine` is one `upsertCdr()`, and the
position moves with the last; an error ends the file (`StoreLineFails`) or the tables
(`KamailioFails`), not the pass. `FetchAcc`, `FetchMissed`, `Lookup`, `StoreCall` and `StoreMissed`
are `syncKamailioAcc()`: the new rows of both tables, then all rows of each call. `Save` writes all
positions, `Crash` may leave the file torn. The collection is keyed by the record's own id, so
`stored` is a set and `doc` a function. `gen`, `late`, `apart` and `clashed` are history.

**FramedRoutes.** `wants` are the documents, `dev` what `resolveDnnDevMap()` finds, `kernel` the main
table. A request goes `Find`, `Write`, `Load` (the map and the diff of the two documents),
`RemoveRoute` for each, then `AddRouteDel` and `AddRouteAdd` for each, the two commands of
`addRoute()`; a bulk request ends at `Write`. A pass goes `List`, `LoadForPass` (a file that does not
load is an empty one: everything goes to `ogstun`) and the same route steps. An `ip` command whose
exit code is ignored either works or does nothing (`NoCommand`). An update of a document that is gone writes
nothing and adds its routes all the same. `stray` is history: the networks whose route may have been left
behind since the host is up, one reason at the step where it comes up (`LeftBehind`, `Throw`, `LoadForPass`,
`RemoveRoute`, `MoveDnn`, `Restart`).

**AutoAssign.** `held[u][p]` is what subscriber `u` holds of pool `p`, or in a `further` session, behind its
first one that is not for IMS; a run keeps what it listed (`seen`), where it is (`at`), its next number
(`cursor`) and whether its range is held inside the profile's (`clamped`: it is not when `findDynamicRange()`
failed, `LooksUp`). `List` is `findAllFull()`, `Occupied`
and `NextFree` the gap filling (which sees first sessions only), `Give` one write, `GiveFails` a write that throws (the addresses go
on, the MSISDNs end), `Exhausted` the `break` at the end of the range, `NextPhase` the step from the
internet to the IMS pool, `WriteBack` one `update()` of `bulkAddApn()`, which writes whole slices.
The gateway is passed over in the internet pool only, as in the code. MSISDNs have no upper end in
the code: instances give that pool numbers enough. An empty list of IMSIs means everybody, so a
request's scope is never empty. `clean` and `spoiled` are history.

**AuditLog.** `entries` is the list in memory, `tmp` and `audit` the two names, `disk` the inodes
they stand for, `fd` and `json` what a call of `persist()` writes and where. `Log` runs up to the
first await (the text of the list is made before it); `Open`, `Write` and `Rename` are the system
calls of `writeFile()` and `rename()`. `Restart` is `initialize()`. The machine does not lose what
was written: nothing in the code asks for more (`fsync`), and a power failure is not modelled.

**HepCollector.** `queue` holds the documents that wait, `flights` the batches being inserted, `stored`
the collection, `count` the statistics, `filter` the scope, `row` the sessions. `Datagram` is
`onDatagram()`, a single stretch up to the queue: `Ignore` for what is dropped, `Enqueue` for the rest,
with `Decide` for `call-scope.ts`, where a datagram says of which sessions it is a part (the matching of numbers and
dialogs is reduced to that). `Flush` is `flush()` up to the insertion, from the timer (`Tick`) or a full
queue; `InsertEnds` and `InsertFails` are its two ends, with a part of an unordered batch stored. A
session here goes `Claim`, `SetScope`, `Launch` or `Fail`; its end `Find`, `ClearScope`,
`CountMessages`, `ReadMessages`, `WriteSnapshot`, `Close`. Capture and tracing are in `CallDebug`.
`Sigterm`, `Disconnect` and `Exit` are `shutdown()` of `index.ts`. The expiry of messages by their age
is left out, and so is the collector's `stop()`, which nothing but tests calls.

**ConfigRestore.** A file is known by where its contents came from: `disk[f]` is what it holds,
`running[f]` what its unit read when it last restarted. `Begin` is the request; `Look` is `fileExists()`,
`Open` and `Fill` are `copyFile()` for one file, which truncates it before it fills it: a crash in between
leaves it `Torn`. `Replace` is the write of a default file, by rename. `OpenFails` is a source that is gone or
a file that cannot be opened, `FillFails` a copy that breaks off and leaves the file short or removes it;
`FileFails` says what comes of either, which differs by kind: a restore of a directory or of the defaults ends,
a selective one notes the error and goes on, a full one goes on. `ExtrasFail` is the failure of a file behind
those of the services, `FullFails` that of anything behind the files of a full restore. `Check` is the
existence test of the selective restore, `Extract` a full restore up to the configuration files,
`RestoreMongo` the second half of `restoreBoth()`. The order of the lists is `IsNext`: of the files that are
left the next one is taken. `Finish` is the route with `kickOffConfigReapply()`: `StartRestart`, or `Refused`
while a job runs. `FinishFull`, `Poll` and `EndFull` are the orchestrator's `run()`; its job has a step for the
core only when the restore copied a file of it (`any`), or the SUCI keys. The job is `restartCore17()`, a
`RestartUnit` at a time; it stops at the first unit that fails and is complete all the same. `ListOld` and
`RemoveFile` are `cleanupOldBackups()`. `Exit` and `Crash` lose everything but the host and the saved run.
Two restores may have one file open at a time; what comes out is either's contents or torn. `written`,
`shared` and `unapplied` are history: the files a restore wrote, those of them another wrote too, and the files
of restores that started no job for the core, or whose job did not get to their unit.

## Runs

| Run | Checks | Bounds |
|---|---|---|
| `MCApply` | mutex, backup is the pre-image, quiescent units run the disk, exact rollback, the contract, every apply answers | two applies of the same minute, three files of which an optional one is missing or blank, three units of which one is a container, one crash |
| `MCApplyNeighbours` | untouched fields survive as found or as cleaned, a rollback differs from the pre-image only where a neighbour interfered | one apply, one editor, one on-demand backup, two minutes |
| `MCRanBlock` | copies bounded, truthful answer, rules settle | two requests and a timer, one address, two ports, two rules per address, two changes, one trouble of any kind |
| `MCUeBlock` | the remembered address is one that is dropped, unblocked UEs end clear, blocked ones end dropped | a request and a timer, one UE, two addresses, three events: requests, moves, failures, restarts |
| `MCCallDebug` | one session, filter, tracing and capture follow the session, orphans are closed | two starts, a stop, an operator's switch, three requests, two sessions, one trouble |
| `MCEigrpGuard` | cooldown and cap, nothing forgotten, the verdict is justified by what was there while the check read | 8 minutes, check every 2, cooldown 3, window 7, two restarts, two prefixes of which one is required, one nexthop, two events: changes, failed commands, restarts of the backend |
| `MCCdrSync` | no position passes over a line or a row, the end of a call is kept, everything is indexed in the end | the timer's pass and the button's, one CSV file, one call, three inputs (half lines, rotations, rows), two troubles |
| `MCFramedRoutes` | every route is that of a document, but for those a mishap left behind, an undisturbed request leaves the kernel as it says, what is listed is routed in the end | two requests and a pass, two subscribers, one DNN, one network, two devices, two operations, one trouble |
| `MCAutoAssign` | no number twice, none taken away, everybody served | two runs, one edit, one trouble, three subscribers with first and further sessions of which one has no IMS session, four numbers, seven kinds of request |
| `MCAuditLog` | durable entries | four calls, two entries kept, two troubles |
| `MCHepCollector` | every datagram is accounted for, what a session counted is in its snapshot or the snapshot says that it is cut, no messages after its end, a late stop leaves the next session's scope | two sessions, two starts, two stops, the reconciliation at boot, three requests, three datagrams of three kinds, queue and batch of one, one trouble |
| `MCConfigRestore` | what a job was started for runs in the end, success means that the files were written, a full restore ends | two requests of five kinds or a cleanup, two files, two backups of which one lacks a file, two troubles |

No run checks types: theorems do, for every value of the constants.

Why the bounds are enough: two applies are what a mutex and a shared directory take to go wrong,
and the missing file, the container and the skipped file are the branches of the loops. Three passes
over one address give every overlap of list, plan, delete and add; the addresses of `RanBlock` do not
interact. In `UeBlock` the instance begins with any row and any address, so a pass that moves rules needs no
event, and three are enough for a move of the UE and a failure under way, or for an unblock and a block
between the two rules of a pair, with the request's pass beside the timer's. In `CallDebug` three requests
are two starts and a stop, or a start, a stop and a switch: every pair of operations overlaps, in
any two places, with a failure at any step. In `EigrpGuard` the
proportions of the code (interval < cooldown < window, cap reached within the window) are kept at
a smaller scale, so that the window slides past a restart within the clock's bound; two events are a change
between two readings and a failed third, or a restart of the backend between two restarts of frr, and of the
two prefixes one is required and one is not. In `CdrSync`
three inputs are the two rows of a call, whose commits cross, and a line of the file, or lines around
a rotation; two files would only be read one after the other, two calls only be stored so, and the two
troubles are a failure in a pass and a crash in the next. In `FramedRoutes` two subscribers list
the same network, which is what lets one request take away the route of the other; networks do not
interact. In `AutoAssign` four numbers less the gateway and the profile's static one leave two for
three subscribers, so the internet pool runs out, with a gap in the middle; without the clamp, after a
failed lookup, the static one is given too. In `AuditLog` three
overlapping calls can share an inode while a fourth follows by itself, and two entries make the
list drop its oldest. In `HepCollector` a queue of one overflows while a batch of one hangs and a third datagram
arrives, and a snapshot limit of one cuts a session of two messages; two sessions are what a late stop
needs, and a restart lets the reconciliation be that stop. Datagrams that are not SIP or cannot be
parsed take the same way as those that are dropped or have no number, and are left out of the instance. In `ConfigRestore` two requests overlap each other or the cleanup
in any place, with both in one file or one between the truncation and the filling of the other, two files let
the restart job be between its units, and the two troubles are a copy or a unit that fails and a crash; a third restore would only meet one job as the second does.

**Fairness.** Every command has a timeout (30 s unless it says otherwise) and file operations
return, so a handler or a pass keeps moving: weak fairness of its steps. The timer fires again:
weak fairness of `TimerFires`, or of the whole pass where it is one action after another
(`CdrSync`, `FramedRoutes`, the flush of `HepCollector`); there nothing is assumed of the passes of the button and of the requests.
In `ConfigRestore` a restore, the restart job and the timer of the exit keep moving; in `HepCollector` an
insertion ends or times out, and a shutdown that has begun ends.
Nothing is assumed of requests, of the network, of crashes or of
other actors. `CHECK_DEADLOCK FALSE` is said where a system ends: an instance's requests are all
answered, or its clock has run out.

**Where the code and its comments disagree.** Each of these was met while modelling; none has a run of
its own. (1) `finish()` switches tracing off whenever the session found it off and it is on, also when an
operator has asked for it since (`call-debug-session.ts:360`, against lines 357-359). (2) A run that
replaces addresses counts those of everybody in scope as free; when its range is used up it stops, and
those it did not get to keep addresses it has just given to others (`auto-assign-ips-usecase.ts:303`,
against lines 253-257). (3) A stop that comes while a start is still switching tracing on closes the row;
the start goes on and scopes the collector to a session that is over (`call-debug-session.ts:310`, against
`call-scope.ts:10`). (4) The end of a session counts and copies what the database holds; messages of its
last second are still queued (`call-debug-session.ts:375`, against `call-debug-store.ts:58`). (5) The
counter of messages that were scoped out is the collector's, and a session shows those of the sessions
before it as its own (`call-debug-session.ts:200`). (6) `shutdown()` never calls the collector's `stop()`,
so the queue is lost (`index.ts:947`, against `hep-collector.ts:211`). (7) A restore that ends while the
restart job of another is under way starts no job: units that were already through keep the old file
although the answer is success (`backup-controller.ts:96`, against lines 85-87). (8) A restore of a
directory that was cleaned away writes nothing, answers success and restarts all units
(`yaml-config-repository.ts:463`); the selective restore was taught to refuse that
(`backup-controller.ts:293-300`). (9) The run saved before the backend ends itself is never deleted: a full
restore that a crash cut short shows as the earlier one, complete
(`full-restore-orchestrator-usecase.ts:56`, against lines 42-43). (10) `saveRaw()` cleans the whole merged
document, also what no request named: digits become numbers, nulls go, and `localhost` in `db_uri` becomes
`127.0.0.1` (`yaml-config-repository.ts:580-581`, 641-648, against "kept as-is" in lines 541-545). (11) An apply
answers success although an optional file it was asked to write is blank and was passed over with a warning
(`apply-config.ts:137-139`, against `docs/features.md` on the rollback of what cannot be written). (12) Of the
two rules of a blocked UE the code never completes one: a listing between the two additions, and the deletion
of the first by an unblock that a block follows, leave a pair of which the UE's packets to or from it pass
(`ue-block-service.ts:87-96` and 130, against "its traffic goes nowhere" in lines 12-13). (13) An address that a
subscriber has in a session behind its first one that is not for IMS is given again
(`auto-assign-ips-usecase.ts:260-266`, against "every IP already held by ANY subscriber" in 253-255). (14) When
the lookup of the profile fails its range is no ceiling (line 67 of the same file, against "a hard ceiling
auto-assign can never exceed" in 74-78). (15) `assignIPv4ByApn()` writes the address to every session of the
APN's name, in all slices (`mongo-subscriber-repository.ts:206-210`, against "the first session" of its
comment). (16) A failed or cut `ip route show` reads as a kernel without routes, so frr is restarted over the
topology alone (`eigrp-health-guard.ts:212-215`, against "never from the EIGRP topology alone" in 27-33). (17)
A route is left for good by a bulk change, by two requests of one document, by an update of a subscriber that
is gone, which adds the route of a document it did not write (`subscriber-management.ts:260-261`), by a handler
that adds what is no longer listed, by a DNN that moves and by a failed `ip route del`
(`framed-routing-reconcile-service.ts:24-28` says that removals are handled precisely elsewhere). (18) A start
that fails after its capture began does not stop it: neither when the manifest or the row cannot be written nor
when `systemd-run` times out with the unit started (`call-debug-session.ts:283-287`, `pcap.ts:541-572`, against
"every failure must unwind what already succeeded", line 282). (19) A crash between the include files, the answer
of the CSCFs and the flag leaves them tracing, or tracing from their next restart on: `reconcile()` reads the
flag (`ims-controller.ts:3743`, against `call-debug-session.ts:392-401`). (20) A full restore whose files could
not be copied, one of which may be torn, starts a job without the step for the core and is 'complete'
(`backup-restore.ts:1102`, `backup-restart-usecase.ts:124`).

**What the excuses hide.** `CallDebug`'s properties hold while a session's operations do not overlap.
They do not when a stop reaches a session that is still starting:
the stop finds no capture and no tracing to end, and the start goes on to switch on all three for a session
whose row is closed; and when a second session starts meanwhile, the late first one takes its filter. A restart
between the answer of the CSCFs and the write of the flag leaves them tracing, because `reconcile()` reads the
flag, and so does a file of the switch that cannot be written (`tracing`). `CaptureFollowsSession` has no such
excuse but names the sessions whose capture stays (`adrift`): those whose start failed when the unit may have
been running, as `unwind()` does not stop it; those stopped or cut off by a restart before the row or the
manifest told of the capture; those whose unit could not be stopped. `UntouchedFieldsKept` excuses a file saved
with no document under it: one that was blank, or that a copy had truncated when the save read it. `RollbackExactApart` excuses a file that an on-demand backup of the same minute copied over the
apply's backup, with contents already written: a rollback then restores those.

`EigrpGuard` excuses the half of a fault of which the reading failed: nothing else can be known of it. So it
lets pass a restart because `ip route show` failed, but none because of the topology: what cannot be read is
no required prefix. `UeBlock` excuses an IMSI whose rules were left in disorder (`torn`). The code repairs that
disorder only by luck: a pass moves rules when there are none or the address is not the remembered one
(`ue-block-service.ts:130`), so when two passes moved the same UE to different addresses, or one saw or deleted
the first rule of a pair before the other was added, the row may name one address and the rules drop another,
or one direction only; every later pass then takes the rules for right, against the header's promise (lines
12-20) that the UE's traffic goes nowhere until it is unblocked. The same comes of a command that fails, of
which the code takes no notice, and of a restart between the steps. `CdrSync` excuses a row committed after a row with a larger
id (the position has passed it, and the rest of its call is stored with the next new row of the call,
if there is one), a call over which two passes met (the slower one may store its older document
last), and a file that was rotated and has outgrown the position before a pass looked: its first
lines are never read. `FramedRoutes` excuses a network whose route a mishap left behind (`stray`, point 17): it stays,
and as the kernel keeps one route per network the right one is refused from then on. `EventuallyRouted`
therefore says that what is listed has a route, not on which device. A reboot clears all of this. `AutoAssign` excuses pools in which runs overlapped with each other or with an edit, an edit gave a
number that was taken, or a run that replaces ended early or failed at a subscriber; `Distinct` compares first
sessions, as the code does, and `Served` speaks of the profile's range where it was found. `AuditLog`
speaks of entries put in place by a call that ran by itself: calls that overlap may leave a file that
does not parse, or one without the last entry, until the next call by itself; when the backend
restarts first, the whole log is gone.

`HepCollector` excuses sessions on which two handlers worked at once (`overlap`). Its `NewerScopeKept` has one
more excuse, a start: `start()` sets the filter without asking whether its session still runs
(`call-debug-session.ts:310`), so a start that a stop overtook takes the filter of the session after it. `ConfigRestore` excuses
files whose restore started no job for the core: a refused start, a restore of several files one of which failed
(the others are on disk and wait, `backup-controller.ts:308`), a full one that copied none, the defaults, which
restart nothing (`restore-defaults.ts`), a job that stopped at a unit that failed, a crash. Such a file may be
torn; its unit then fails at its next restart. `SuccessMeansRestored` says nothing of a file that another restore
wrote too, and of a whole restore nothing of files that a cleanup took away (point 8).

**Smaller ones, read off the source.** A file saved by another use case between the read and the write of
`saveRaw()` loses that edit (`yaml-config-repository.ts:571`; `UntouchedFieldsKept` speaks of the fields
nobody sets). A RAN pass takes an address with one of its two
rules for installed and never completes the set (`radio-block-service.ts:136`, against lines 10-13 of
its header). The address of a blocked UE that detached stays dropped when another UE gets it, who is then
blocked without being in the table (`ue-block-service.ts:127`). `docs/features.md:799-804` has the audit log as JSON lines, rotated and kept for ever: it is one JSON
array, cut at 10000 entries. A unit that fails all five checks is only logged and the
apply answers success (`apply-config.ts:238`), while `docs/features.md` promises verification and a
rollback; validation, step 1 of the documented workflow, is commented out
(`apply-config.ts:37`), and the rollback after a failed write leaves no audit entry although
`docs/features.md` lists rollbacks among the logged events (`apply-config.ts:143-154`). A full restore
is 'complete' also when its restart job was refused (`full-restore-orchestrator-usecase.ts:118`, against
line 14 of its header), and the job is 'complete' also when its step failed. `PUT /settings` of the
backups applies a retention once and saves none (`backup-controller.ts:206`).

## Proofs

`ApplyConfig_proofs` proves for every number of applies, files, units, minutes and crashes:

| Theorem | States |
|---|---|
| `TypeCorrect` | `Spec => []TypeOK` |
| `MutexTheorem` | `Spec => []MutexHeld` |
| `BackupTheorem` | `Alone /\ Spec => []BackupIsPreImage` |
| `RollbackTheorem` | `Alone /\ Spec => RollbackExact`: an apply that answers 'rolledback' has put back every file |
| `ApartTheorem` | `Spec => RollbackExactApart`: the same beside editors and on-demand backups, for the files they have no hand in |
| `UntouchedTheorem` | `Spec => []UntouchedFieldsKept`: a field nobody set stays as found or as cleaned |
| `RunsTheorem` | `Alone /\ Configured /\ Spec => []QuiescentRunsDisk` |
| `ContractTheorem` | `Alone /\ Spec => ImplementsContract`: the workflow refines `ApplyContract` |

`TypeCorrect`, `MutexTheorem`, `ApartTheorem` and `UntouchedTheorem` assume nothing; the others assume `Alone`:
no editor and no on-demand backup. `RollbackExactApart` names what `RollbackExact` loses beside them.
`Configured` says that every unit's file exists at first and that every unit is in the restart order:
a rollback leaves a file that did not exist, and its unit would not be running it. Assumptions on the
constants are those `ApplyConfig` names: the orders are sequences over the files and units, the backup
order names each file once, documents are distinct from the markers for missing, blank and torn files, and what is clean stays so.

The argument. `TypeOK` and `MutexHeld` are inductive together. For the backup the invariant is
strengthened by what the loop has copied so far: at position `k` of the backup loop the first `k - 1`
files of the directory are the pre-image, and, while the apply is in flight, the disk is the pre-image
until the first save. The mutex is what makes this inductive: no other apply can write the directory or
the disk. For the rollback, at position `k` of the restore loop the first `k - 1` files are back on
disk. `ApartTheorem` weakens each of these facts file by file: what an editor or a backup has touched
stays touched until the apply ends, and the rest is as before. For untouched fields the
invariant speaks of every document there is, on disk, in a backup directory, read by a save or held by an
editor: outside `fresh` files it has what was found in the fields nobody set, or its cleaned form, which
another save does not change. For the units, they run what the apply
found until the restarts begin, and from then on those the loop has been through run what is on disk
(`Serving`). For the contract, the invariant says at every point what is on disk (`Saving`): up to
position `k` of the save loop what the request makes of the files, beyond it what was found, and during
a rollback one of these or a torn file. A file that did not exist is in no backup directory
(`FilesKept`), so the rollback of an apply that shares the directory of its minute cannot bring it back.
Each end of an apply is then a step of the contract, and every other step leaves the files in effect
alone.

`Subscribers_proofs` proves of `AutoAssign`, for every number of runs, subscribers and numbers, any
ranges, requests and first holdings:

| Theorem | States |
|---|---|
| `TypeCorrect` | `Spec => []TypeOK` |
| `DistinctTheorem` | `Spec => []Distinct`: outside spoiled pools no number is held twice, but by a subscriber whose number is about to be replaced |
| `KeptTheorem` | `Spec => KeptUnlessReplaced` |
| `ServedTheorem` | `Spec => Served` |

`Distinct` is not inductive: that a run gives a free number depends on its list. The invariant adds
that a subscriber without a session of a slot holds no number of it (`LackingHaveNone`), that outside
spoiled pools at most one run is about a pool (`OneClaim`), and that the list of a run still shows
what the subscribers hold that it has not been through, while those it has been through hold numbers
below its cursor (`ListTrue`). A run that gives a number then meets no holder: not in its list, not
among those it has served, and nobody else writes the pool. The same list shows why nothing is taken
away: a run writes a number, or an old slice, over what its list has, which is what is there. For
`Served` the invariant adds that an undisturbed phase has settled everyone below its position and that
its cursor is inside the range it works in (`ServedSoFar`), which is the profile's too when it is clamped.

Of `UeBlock` it proves, for any number of UEs, addresses and troubles, and finitely many handlers and timers:

| Theorem | States |
|---|---|
| `UeTypeCorrect` | `UeSpec => []UeTypeOK` |
| `RowTheorem` | `UeSpec => []RowTrue`: the remembered address is one that is dropped both ways, or there is no rule at all |

`RowTrue` is not inductive: a pass that listed rules before they were moved may later delete some of them. The
invariant says of an IMSI that is not torn that it has no rule, or one pass is about to delete all it has, or
one of its rules is on the address and no pass that has read the table or is about to may delete that rule
and keep another (`DropsOn`, `Held`). That holds of the remembered address while nobody moves the rules
(`RowDrops`) and, from the addition on, of the address that is about to be recorded (`AddedDrops`), because one
pass at a time moves them (`OneMoves`). A pass lists all rules or none, and by the table it deletes those of an
IMSI all or none, so "that rule and no other" never comes up. That a new rule gets a handle no other has
rests on the rules being finitely many.

`Traces_proofs` proves of `AuditLog`, for every limit and any number of calls and failures:

| Theorem | States |
|---|---|
| `TypeCorrect` | `Spec => []TypeOK` |
| `DurableTheorem` | `Spec => []Durable` |

The strengthening: every list, in memory, on its way or on disk, has newer entries before older ones
(`ListsProper`); the temporary name never stands for what `audit.json` stands for, and a call that has
not opened a file has not created one (`NamesFresh`); a call by itself writes what is in memory, to
what has the temporary name, and while any other call is under way nothing is held to be safe
(`ByItself`); and what is safe is covered by the list in memory, so that the next list written covers
it too (`InMemory`).

Of `HepCollector` it proves, for any datagrams, sessions, handlers, failures, crashes and shutdowns, and any
limits:

| Theorem | States |
|---|---|
| `AccountTheorem` | `HepSpec => []Accounted` |
| `SealedTheorem` | `HepSpec => SealedAfterStop` |
| `ScopeTheorem` | `HepSpec => NewerScopeKept` |
| `SnapshotTheorem` | `HepSpec => []CountedInSnapshot` |

The sums of `Accounted` are cardinalities, so the invariant says that queue, batch and losses do not share a
document, that at most one batch flies, and that a document of this life has a number already given out, one
no later document gets (`QueueProper`, with everything finite, `AllFinite`). For the end of a session: the
unique index lets one run (`OneRuns`); unless handlers overlapped, one at most works on a session
(`OneWorks`), the filter is that of the running one, and not of one whose end or failure has begun
(`ScopeOfRunning`); what is queued after a session was closed is then not tagged with it. The late stop needs
less: it clears the filter only where it finds its own session. For the snapshot, what a stop counted is in
the collection when it reads, which only grows, so it is in what it reads, up to the limit and one more
(`ReadIsCounted`).

`Routes_proofs` proves of `EigrpGuard`, for every interval, cooldown, window and cap, and any number of
changes, failed commands and restarts of the backend:

| Theorem | States |
|---|---|
| `TypeCorrect` | `Spec => []TypeOK` |
| `ReasonTheorem` | `Spec => []VerdictJustified` |
| `LimitsTheorem` | `Spec => []LimitsKept` (cooldown and cap) |
| `MemoryTheorem` | `Spec => []NothingForgotten` |

The reason: while no command of a check failed and nothing changed since it began, what it has read
is what the network holds (`ReadingsTrue`), so a verdict on three tables is a verdict on the network.
The limits: a check ends before the next is due (`CheckInTime`); each restart belongs to one decision
of one life of the backend (`RestartsProper`); and from a decision on, the memory holds every restart
of this life in the window of that decision, is finite, and still allows a restart while one is being
carried out (`MemoryTrue`). The cap follows from counting: the restarts in the window of a new one map one
to one into the remembered times, which are fewer than the cap.

Of `FramedRoutes` it proves, for any number of requests, passes, subscribers, DNNs, networks and devices:

| Theorem | States |
|---|---|
| `RoutesTypeCorrect` | `RoutesSpec => []RoutesTypeOK` |
| `QuietTheorem` | `RoutesSpec => QuietSync` |
| `ExplainedTheorem` | `RoutesSpec => []RoutesExplained` |

For a request nothing disturbs: its subscriber is still as it read it, and as it wrote it later on
(`QuietWrite`, `QuietDoc`); what it has still to add is part of the difference, nothing is added before
everything is removed (`ToAdd`), and a network is either still to be touched or as it should be (`Gone`,
`There`), where an addition may take the place of a removal when both name one network. Only a process
at its routes has any, and one in its hand at most (`WorkProper`). For the routes that are explained,
everything on its way to the kernel must be: what is listed in a document, read by a pass or written by
a request was right since the host is up, when the devices are looked up it still is, because a DNN that
moves makes the new device right for all its networks, and so is what is queued or in hand (`HomeInv`).
`Placed` is one of the two conjuncts of `Routed`, of which `EventuallyRouted` speaks; the other, that
there is a route, is broken by every failure and restored by the next pass, so it stays with TLC.

`CdrSync_proofs` proves for any number of passes, sources, calls, inputs and failures:

| Theorem | States |
|---|---|
| `TypeCorrect` | `Spec => []TypeOK` |
| `PositionTheorem` | `Spec => []PositionCovered`: no saved position has passed over a line of its file |
| `EndTheorem` | `Spec => EndKept`: only a pass beside another takes the end of a call away |
| `RowsTheorem` | `Spec => []RowsCovered`: no saved position has passed over a row that is not excused |

For the files the invariant speaks of every position there is, saved or in the hands of a pass: it
belongs to no newer file than the one that is there, and if it belongs to that one, its lines are in
(`Covered`); and the lines in hand follow on lines that are in, or belong to a newer file than the
position, which then stays with the old one (`ChunkCovered`). For the calls: a call has one INVITE
row, before its BYE row and in one table (`RowsProper`); what says that a call ended says so for a
row (`DocsTrue`); and what a pass by itself has in hand is no older than what is stored
(`ApartTrue`). For the rows, every position is a row that is committed (`MarksVisible`), and a
row up to what a pass has fetched is in the collection or waits in its hands (`HandCovered`); a commit
cannot make a row below a position due, because it or the INVITE of its call then comes late
(`DueKept`). That a set of ids has a largest member rests on the well-foundedness of the naturals.

`RanBlock_proofs` proves for any number of passes, addresses, ports, slots, changes and troubles, the
passes being finitely many:

| Theorem | States |
|---|---|
| `TypeCorrect` | `Spec => []TypeOK` |
| `AnswerTheorem` | `Spec => QuietAnswer`: a request that nothing overlapped answers truthfully |
| `CopiesTheorem` | `Spec => []CopiesBounded` |

For the types, the rules are finitely many, so there is always a handle that none of them has. For the
answer: while a request is apart, what it has listed is what the kernel holds (`ApartTrue`), and what
it still has to delete and add makes up the difference to what it wants (`PlanTrue`). For the copies,
each copy of a rule is paid for: by a trouble, or by a pass that has seen none of them and cannot add
another (`CopiesPaid`).

`CallDebug_proofs` proves for any number of starts, stops, switches, sessions and troubles:

| Theorem | States |
|---|---|
| `TypeCorrect` | `Spec => []TypeOK` |
| `OneSessionTheorem` | `Spec => []OneSession` |
| `ScopeTheorem` | `Spec => []ScopeFollowsSession` |
| `TracingTheorem` | `Spec => []TracingPutBack` |
| `CaptureTheorem` | `Spec => []CaptureFollowsSession` |

First, where each kind of handler can be (`HandlersProper`); then, unless handlers overlapped, that at
most one of them works on a session, and on the one that runs (`RunningOne`, `SoleWorker`). With a
single worker its position says what the session has: the filter at each point of a start and of an
end (`FilterTrue`); a tracing nobody asked for is owed by a running session that found it off, until
the handler that ends it has switched it off, and the flag lags behind the CSCFs only while a handler
is about to write it (`TracingOwed`, `FlagTrue`, `WasTrue`); a capture belongs to a running session,
and one that nobody works on remembers its capture in its row and the manifest (`CaptureTrue`).

`ConfigRestore_proofs` proves for any number of files, backups, restores, cleanups, failures and restarts
of the backend:

| Theorem | States |
|---|---|
| `TypeCorrect` | `Spec => []TypeOK` |
| `ReappliedTheorem` | `Spec => []ReappliedWhenQuiet` |
| `SuccessTheorem` | `Spec => SuccessMeansRestored` |

A unit that does not run what its file holds waits in one of three places (`WaitTrue`): it is excused, or
the restore that wrote the file has not come to its end, or the job has still to get there; each step hands
what waits from one to the next. For success: what a restore without an error has not copied it has still
to copy, or it is not in the directory (`HandTrue`), whatever a cleanup removes meanwhile. The runs start
from the same `Spec`; fairness is needed for `FullRestoreEnds` only.

Every invariant and every action property that a run checks is proved. Only model-checked is liveness
(`ApplyAnswered`, `Settles`, `UnblockedClear`, `BlockedDropped`, `OrphanClosed`, `EventuallyIndexed`,
`EventuallyRouted`, `FullRestoreEnds`): it rests on fairness and on `ENABLED`, which the prover does not reach.

## Plan

1. Models: the traffic counters per subscriber (a pair of nftables rules per address, reconciled with the
   documents); the guard of pyhss-diameter (samples, window, cooldown, a restart that times out and works);
   `LogStream` (subscriptions and the child processes they own); the categories of a full restore beside
   the core configurations; a composition of `ConfigRestore` with `ApplyConfig`, a restore beside an apply.
2. Abstract specifications: `ApplyContract` (done); for the block services "the rules follow the
   table", implemented by `RanBlock` when passes do not overlap; for the CDR store "each record once".
3. Theorems: what the liveness properties rest on, as far as safety goes (for the block services, that a
   pass by itself leaves the rules as the table says); that no unblocked IMSI gets a rule after the last pass
   that read it as blocked.

## Not modelled

The text of YAML files, diffs and logs; the wording of answers; source builds and installation
scripts (sequences of shell commands); monitors that poll and export; authentication (one database
call each); radio planning (floating-point arithmetic without state); the frontend; templates,
vendored code and test drivers. The OCS reservation guard reads and writes back buckets of a charging
system that is not in the repository, so what may happen between the two would have to be guessed.
