# ECYCloudNode in TLA+

Specifications of ECYCloudNode (`src/`), the node agent of an SSPanel-style
proxy panel: an Xray core and three further protocol services, controlled by a
panel over HTTP.  The modules are translated from the Go code; `PROJECT.json`
maps every definition to the lines it stands for.

## 1. Inventory

| component | code | state it keeps | operations | what makes it correct |
|---|---|---|---|---|
| traffic ledger | `common/traffic/store.go`, `api/sspanel/traffic.go` | a bbolt file: counters, the pending report, the last confirmed id, an archive of confirmed reports, a cursor | Record, Pending, Confirm, RecoverAfter, Initialize; the report cycle `ReportUserTraffic` | every byte is billed exactly once, through crashes, lost answers and restored panels |
| record queue | `store.go` (`Record`, `writeRecords`), `CloseTraffic` | queued requests, one writer goroutine, the file handle | Record, commit, close, reopen | no acknowledged usage lost, no lost wakeup, no use after close |
| deferred receipts | `common/traffic/deferred.go` | confirmations, proofs and held records per report | receipts from three ways, merge, prune | a disposition of the panel is never forgotten |
| device slots | `common/limiter/limiter.go`, `device_*.go`, `rate.go` | per account: online slots with their last activity; pending panel confirmations; kicks to report | admit, renew (uplink), verify (downlink), sweep, user sync | the device limit holds; dead devices free their slot; nobody is kicked needlessly |
| global device limit | `common/limiter/global.go` | the same slots in Redis, a cache of answers, a cooling-down flag | CheckCurrent, Verify, SyncUsers | one limit over all nodes; an outage falls back to local slots |
| node controller | `service/controller/*.go` | node info, tag, user list, rebuild flag with back-off, automatic limits | Start, nodeInfoMonitor, userInfoMonitor, triggerRecovery, Close | after any failure the node converges to what the panel says |
| anytls, tuic, hysteria2 | `service/{anytls,tuic,hysteria2}` | the running server, users and their slots, node info, rebuild flag | Start, reloadNode with rollback, user sync, authenticate, Close | a failed reload leaves a consistent node that is retried |
| panel | `panel/panel.go` | the services, background retries, the config watcher | Start, retryNodes, hot reload, Close | no service outlives Close; reloads do not overlap |
| API client | `api/sspanel/sspanel.go` | ETags and cached answers | GETs and reports | an answer that is not understood is not cached as if it were |
| audit rules | `common/rule/rule.go` | rules, exempt users, hits not reported yet | Detect, GetDetectResult | every hit is reported at most once per period |
| certificates, dispatcher, net guard, unlock check, server status, tools | `common/mylego`, `app/mydispatcher`, ... | none to speak of | I/O | not modelled |

Interactions.  A connection passes `guardDataPath` (audit, slot, rate), then
every buffer is counted (`RecordUserTraffic`) and checked (`guardState.check`)
by goroutines of its own.  Once per `UpdatePeriodic` the node monitor fetches
node info and users and changes the inbound and the limiter; the user monitor
reports traffic, online devices, kicks and hits.  Both are
`task.Periodic` chains under `monitorMu`.  The panel is called by both, and
by admissions that need its confirmation (`ConsumeReclaimGrant`).

Hard parts: calls with an unknown outcome (30 s timeout, no automatic retry);
crashes between disk transactions and calls; a panel that goes back in time;
locks released around panel calls; entries loaded before a lock and judged
under it; rebuilds and reloads that fail half-way.  `PROJECT.json` lists them
line by line under `hazards`.

## 2. Modules

| module | models | composed of |
|---|---|---|
| `TrafficBatch` | which counters a report takes (`Store.Pending`'s walk): cursor, report size, one identity per UID, no overflow | - |
| `TrafficBilling` | abstract: usage is owed or billed, never both | - |
| `TrafficLedger` | the node's file, the report cycle, the network, the panel and its backups | extends `TrafficBatch`, implements `TrafficBilling` and the steps of `TrafficRotation` |
| `TrafficRotation` | the report cycle with users that never stop, the panel reduced to "accepts" or "the cycle fails" | extends `TrafficBatch` |
| `TrafficQueue` | `Record`, the writer goroutine, `CloseTraffic` | - |
| `DeferredLedger` | deferred receipts, proofs and their merge | - |
| `DeviceSlots` | one account's slots on one node, connections, panel confirmations, user sync | - |
| `NodeController` | the node monitor: rebuild, back-off, user diff | - |
| `GlobalDevices` | one account's slots in Redis, shared by nodes with user lists of different age | - |
| `ServiceReload` | one anytls, tuic or hysteria2 node: server, monitors, rollback, retry, Close | - |
| `PanelLifecycle` | Start, retries, hot reload and Close of the panel around such a node | extends `ServiceReload` |
| `ProtocolSlots` | one account's slots in those three services: shared ledgers, marks | - |
| `*_proofs` | theorems about the module of that name | extend that module |
| `MC*` | instances for TLC | extend the module of that name |

### TrafficLedger

State: the keys and buckets of the bbolt file are `initialized`, `totals`,
`cursor`, `pending`, `confirmed` and `history`; the locals of
`ReportUserTraffic` are `pc`, `batches`, `sent`, `progress`, `recovered`,
`outgoing`; the call in flight is `answer`; requests the node gave up on are in
`late` and may be served at any later time.  A bbolt transaction is one step,
because bbolt runs read-write transactions one at a time and commits them
atomically; between any two steps the node may crash (`Crash`), which resets
what is in memory.  `RestorePanel` puts the panel back to any state it was in.
Report ids are numbers in the order they are drawn instead of random 128-bit
strings (two random ids never collide).  A file that is new asks the panel where it is
(`ReadFirstProgress`) before it stores the answer (`PrepareTraffic`); the node may
die in between.  The node has one file: that it is lost, and a report of the lost
one arrives between these two steps, is not modelled.  One number stands for the pair
upload/download, which the code handles in the same statements.
`ImplementsRotation` maps the cycle to that of `TrafficRotation`: recovery,
restarts and calls without an answer are cycles that fail or steps that change
nothing it sees.

### TrafficQueue

A step of a caller or of the writer ends where another goroutine can run: the
mutex, the reply channel, the transaction.  `Commit` applies the requests of a
batch in their order (`Transaction`, one `AddRecord` each) or `CommitFails` refuses
them all; `refused` are the places in the batch whose request had an error.
`Reply` answers the callers of the batch, which never blocks; `acked` adds what
the answers without an error have promised (`Accepted`).  `cycle` is the place of
`ReportUserTraffic`, which reads under `trafficMu` from its first step to its
return: the draw, the panel's progress, merges and recoveries (`repairs` of them)
and the report, each with a call, any of which may end it (`CycleFails`).
`CloseTraffic` waits for `Readers`, the calls of Record and the cycle.  A cycle
sends one report here; `TrafficLedger` has several.

### DeferredLedger

A receipt is its metadata and its scopes (bit 1 the user's side, bit 2 the
node's); signatures, hashes and malformed receipts are left out.  `Merged` is
`rememberDeferred`; receipts arrive with an answer (`Confirm`), with the
panel's progress (`Arrives`) and with a recovery (`Recover`).

### DeviceSlots

`slots`/`age` are `UserOnlineSlots` with `LastSeen`; `version`/`limit` are the
user entries of the account; a connection goes through `out -> admit -> (ask ->
asking -> admit) -> admitted -> on`, and with each uplink check through
`checked -> renew -> on`.  `Connect` is the load of the user entry before
`slotMu` is taken, `Admit` is one turn of the loop of `admitSlot` under it,
`Hold`/`Granted`/`NotGranted` are the panel call, `Guard` is the place where
`guardDataPath` takes the `KickVersion` its guards check, `LoadEntry` and `Renew`
are `EnsureOnline`.  Time is in ticks of `Tick`; a slot outlives `Expiry` of
them.  Left out: `ValidUntil`, the global limit, third-party slots.

### NodeController

State: `nodeInfo`, `userList`, `rebuildPending`, `backoff`/`waiting` are the
controller's fields (whether `rebuildBackoff` is zero, whether `rebuildRetryAt` is
ahead); `inbound`, `outbound` are the handlers of the Xray core per tag, `limiter`
the limiter's user list per tag; `newInfo`, `newUsers`, `oldTag` are locals of
`nodeInfoMonitor`.  Each call is a step, so the panel's edits and connections (the
predicate `Serves`) fall between any two.  A user's variant stands for what
`userIdentity` keeps of the record.  A failing call ends the turn
(`FetchFails`, `AddNewTagFails`); removals do not fail, because Xray's managers
report only handlers and users they do not have, which the code checks or
accepts.  Left out: `Start`, `Close`, `triggerRecovery`, `userInfoMonitor`,
routing and audit rules, traffic counters.

### GlobalDevices

`redis` is the hash of one account: `kick` the version each device must have,
`v` and `lease` its entry (a lease per node), `policy` the limit each node
uploaded.  Every Lua script of `global.go` is one step on it (`WithKick` is
`kickPrelude`, `Admit` `admitScript`, `Evict` `evictScript`, `Synced`
`syncKickScript`, `Verify` `verifyScript`); between two scripts of one check
other nodes, the panel and the clock act, and each call may fail
(`CallFails`, which starts the break of `noteResult`).  The user lists the panel
ever gave are `history`; a node works with `users[n]`, has uploaded but not yet
installed `fetched[n]`, and owes Redis `pending[n]` after a failed upload
(`syncPending`).  Left out beside deadlines and third-party addresses: the limit
stored with a lease, on which `policyPrelude` falls back for a node that has a
lease but no uploaded policy (a renewal between the upload of a list without the
account and its installation leaves one).  `conn` and `verified` are the
connections and the cache of `Verify`.

### ServiceReload and PanelLifecycle

The three services are one program with three details that `kind` selects
(hysteria2 asks the service for users and its serve loop ends on its own; tuic
refuses an empty list and cannot update a stopped box).  `nodeInfo`,
`authUsers`, `builtUsers` and `mark` (`rebuildPending` with its back-off) are the
fields of the service; `box` is the server with what it was built from; `reload`
is where the holder of `reloadMu` is: `StartReload`, `Build`, `FailBuild` (which
begins the rollback), `FailRollback`, `Record`, `StartBox`.  Infos in `Refused` (of
another type of node, without a port) are dropped before the mutex (`RefuseNode`)
and by Start.  The code compares records by address; where certMonitor passes an
info equal to the service's, `FailBuild` takes either outcome (`MayBeSameInfo`).
`UpdateInboundUsers` may fail, which is only logged: the next period finds the
same users missing.  That users are malformed, so that tuic can never take the
list (`tuic/inbound.go:146`), is left out.  The monitors are
`node`, `user` and `cert`; each call to the panel, and each wait for a mutex,
ends a step.  `PanelLifecycle` adds `phase` (Start and Close of the panel), `retry`
(the goroutine of `retryNodes`) and `stop` (its channel); a service a retry has
started is registered (`RetryRegisters`) or closed again (`RetryCloses`) under
`access`.

### ProtocolSlots

The ledgers of `device_online.go` are maps shared by reference, so a ledger has an
identity: `book[k]` is the one credential k counts in, `held[c]` the one an
admission that asks the panel keeps meanwhile, `ledger[b]` its contents.
`SyncUsers` is `ReconcileDeviceSlots` with `ShareAccountSlots`, `Admit` and
`AdmitGranted`/`AdmitDenied` are the two rounds of `AdmitDeviceSlot`, `Ensured` is
`EnsureDeviceSlot`, `Report` the sweep of `collectUsage`.  `CheckCurrent` is asked
before each admission and after each renewal, during a break too (it asks Redis
again when the break is over), so `GloballyRefused` and `Recheck` may refuse
whether or not the global limit is in force.  hysteria2 closes a session
by a mark (`marking`, `blocked`) which a later traffic event takes (`Marked`);
`Disconnect` gives the slot back.

## 3. Runs

| run | what it asks | bounds and why they are enough |
|---|---|---|
| `ledger` | usage billed exactly once, archive sound, reports readable, one chain (which includes the types), each report takes an account or comes nearer to it, refinement of `TrafficBilling` and of the steps of `TrafficRotation` | 3 keys of 2 UIDs (one UID with two identities), reports of 2, counters to 2: a report can be cut by size, by identity and by overflow; 3 units of usage give 3 reports; 3 faults allow a lost answer, a late request and a restore in one behaviour; one recovery per cycle makes the limit bite |
| `ledger_live` | the archive brings back every state of the panel; the bill becomes complete | as above, with receipts always |
| `rotation` | every account gets its turn | 4 keys, reports of 2: two reports per round, identities split between them |
| `queue` | acknowledged usage is kept, one writer, no use after close, every call returns, closing gets its turn | 3 callers and 2 writer names (one may be finishing as the next starts), 4 calls so that calls arrive in every state of the writer, one failed commit or crash, any number of report cycles with up to one merge or recovery before the report |
| `deferred` | no disposition is forgotten; the merge loop ends | 2 reports, 3 receipts: confirmation, proof and one more that overlaps either |
| `slots` | no removed device comes back, a new slot fits, no needless or silent kick | 3 devices, limits 1 and 2: lowering the limit while a third device asks needs two evictions |
| `slots_expired` (violation) | fresh slots stay within a constant limit | 2 devices, limit 1 |
| `node` | never half-built and unmarked, serves only listed users, converges | 3 infos, two of which share a tag, so that rebuilds with and without a change of tag follow each other; 2 users with a good and a refused variant; 3 edits and 3 faults put a second change and a second failure inside a rebuild |
| `global` | a kick holds on every node, slots are taken within the limit and only for room | 2 nodes that see the one change at different times, 2 devices, limits 1 and 2, one failed call at any step: a node cut off from Redis with the older list meets one that uploaded the newer; `KickHolds` proves the first property without bounds |
| `global_live` | a device that lost its slot loses its connection | one followed connection, limit 1, one failure: the other device takes the slot through the other node while the cache or the break hides it |
| `panel` | server as believed, nothing outlives the panel, the last info and users are served | each kind; two infos, one that is refused and one that cannot be built, so that a rollback has something to go back to and may fail; 2 edits (info, users or a renewed certificate), one fault at any step, one replacement of the panel |
| `pslots` | one ledger, listed holders only, slots fit, silent slots are freed | 2 devices, one with two credentials, limit 1, two connections at a time; the lists kick a device, move it to its other credential, remove the second device and list it again; as many ledgers as can be referred to at once and one more |

A deadlock is reported as an error in all runs but `deferred`, where
nothing remains to do once no receipt may arrive and all proofs are merged, and
`panel`, where a process that was told to end has ended.

Fairness.  `TrafficLedger!FairSpec`: the cycle goes on (`task.Periodic` calls it
again after every return, `ReportUserTraffic` returns its errors to a caller
that only logs them) and the panel serves requests it got; recording, crashes,
restores and give-ups are not fair.  `TrafficRotation!Spec`: the same, with
strong fairness of drawing and confirming, that is, not every cycle fails.
`TrafficQueue!Spec`: goroutines that can run do run, and a cycle that began goes
on, since the HTTP client ends each of its calls after 30 seconds; nothing is
assumed of the start of cycles.  `DeferredLedger!Spec`: the
merge loop runs at the start of each cycle.  `NodeController!Spec`: a turn that
began goes on, `task.Periodic` starts the next one, and back-off ends; edits and
failures are bounded and not fair.  `GlobalDevices!FairSpec`: the clock runs,
`userMonitor` syncs every period, a connection with traffic is verified again and
again (its guards run with every buffer); nothing is assumed of the panel, of
new connections or of renewals.  `PanelLifecycle!FairSpec`: tasks are called every
period, Start, Close and the retry timer go on, back-off and the five seconds of
a recovery end; strong fairness where a goroutine waits for a mutex that others
take again and again (Go's mutexes do not starve a waiter for ever).
`ProtocolSlots!Spec`: time passes and the report cycle sweeps; nothing is assumed
of connections.

### Disagreement a run shows

* `slots_expired`: `admitSlot` renews an expired entry of its own device before
  expired entries are removed and without counting.  With limit 1: b's slot
  expires unnoticed; c connects into the room and expires too; b's open connection
  renews (`VerifyOnline` counts fresh slots only); c opens a new connection and
  `admitSlot` revives c's entry: two devices online.

### Seen while modelling, without a run

* `pruneDeferred` drops a held record after 90 days (`deferred.go:247`); a recovery
  then sends the report as it was before the panel set part of it aside, which
  the comment at `store.go:192` excludes.
* After a change of tag whose first rebuild fails in `addNewTag`, the next attempt
  takes the new tag for the old one, so `DeleteInboundLimiter` never sees the tag
  the node had before (`controller.go:405`).
* `PendingBatches` divides keys by the report size (`store.go:361`), but reports
  end early at a second identity of a UID; the next cycle catches up.
* A rollback that succeeds clears the rebuild mark while `nodeInfo` is the older
  one, so an info that cannot be built is tried in every period, without back-off.
* hysteria2's `Disconnect` frees the slot although another session of the device
  lives (`auth.go:281`), whose next renewal must find room; and a mark set by
  `guardOnline` after `Disconnect` stays in `blockedIDs` (`auth.go:288`).
* A new ledger stores the progress the panel answered (`traffic.go:110`).  If a
  report of a file that was lost is billed after that answer, the panel is ahead of
  an id the new file does not have: no archived report leads there
  (`store.go:RecoverAfter`), and the node reports nothing until it is repaired.
* A device kick taken by `TakeDeviceKicks` is lost if its report fails.
* `triggerRecovery` starts the tasks again whether or not an execution is still
  running.
* An automatic limit is kept under the user's record. When the panel changes the
  record meanwhile, the entry stays under the old one: its end writes the older
  panel speed until the next synchronisation, also while a newer limit of the
  same account runs (`controller.go:695`, `controller.go:755`).
* The changes of the configuration file within three seconds of a replacement are
  dropped, the last one too (`cmd/root.go`).

## 4. Proofs

Each `*_proofs` module proves its theorems for every value of the constants,
under the ASSUMEs of the module it extends, which TLC evaluates in the runs.

| module | theorem | states |
|---|---|---|
| `TrafficLedger_proofs` | `ChainInvariant` | `[]OneChain`, the inductive invariant |
| | `TypeCorrect`, `Balance` | `[]TypeOK`, `[]BillingBalance` |
| | `Covered` | `[]PendingCovered`: `Store.Confirm` never refuses the pending report (not run by itself, `OneChain` implies it) |
| | `Sound`, `Complete`, `Forgets` | `[]ArchiveSound`, `[]ReplayComplete`, `ForgetsOnlyBilled` |
| | `Readable` | `[]ReportIsValid`: reports on disk pass `validateReport` |
| | `Implements` | `Spec => Billing!Spec` |
| | `Rotates` | `Spec => Rotation!Safety` |
| | `TurnComes` | `InTurn`: each report takes an account or comes nearer to it |
| `TrafficQueue_proofs` | `QueueInvariant` | `[]QueueInv`, the inductive invariant |
| | `SingleWriter`, `NeverUnderCall` | `[]OneWriter`, `[]NoCallOnClosedFile` |
| | `AckedForGood` | `[]AckedIsKept` |
| `DeferredLedger_proofs` | `DeferredInvariant` | `[]DeferredInv`, the inductive invariant |
| | `ReceiptsCovered`, `EntriesAreAll` | `[]EveryReceiptCovered`, `[]EntriesComplete` |
| | `ProofsOutliveAge` | `ProofsSurvive` |
| `DeviceSlots_proofs` | `SlotsInvariant`, `SlotsTypes` | `[]SlotsInv`, the inductive invariant; `[]TypeOK` |
| | `OnlyListedHold` | `[]SlotHasUser` |
| | `NewSlotsFit`, `KicksMakeRoom` | `NewSlotFits`, `KickedOnlyForRoom` |
| `ProtocolSlots_proofs` | `LedgerInvariant` | `[]LedgerInv`, the inductive invariant |
| | `SharedLedger`, `ListedHold` | `[]OneLedger`, `[]HoldersListed` |
| | `TakenSlotsFit` | `SlotsFit` |
| `GlobalDevices_proofs` | `KickInvariant`, `GlobalTypes` | `[]KickInv`, the inductive invariant; `[]TypeOK` |
| | `KickHolds` | `[]KickedStaysOut` |
| | `LimitInvariant` | `[]LimitInv`, the inductive invariant of the limit |
| | `TakesFit`, `EvictionsMakeRoom` | `TakesWithinLimit`, `EvictsOnlyForRoom` |
| `NodeController_proofs` | `NodeInvariant` | `[]NodeInv`, the inductive invariant |
| | `NodeTypes`, `BuiltOrMarked`, `OnlyListed` | `[]TypeOK`, `[]NodeIsBuilt`, `[]ServesOnlyListed` |
| `PanelLifecycle_proofs` | `PanelInvariant`, `PanelTypes` | `[]PanelInv`, the inductive invariant; `[]PanelTypeOK` |
| | `BuiltOrMarked`, `KnowsUsers` | `[]NodeIsBuilt`, `[]KnowsBuiltUsers` |
| | `NoneOutlives` | `[]NothingOutlivesPanel` |

What the ASSUMEs ask is what the code has: limits, amounts and bounds are
numbers, sentinels differ from values; nodes, devices, credentials and
connections are finite (a process has finitely many, and a count of slots means
nothing otherwise); a receipt that the node takes names a user with a side
(`readDeferredConfirmation`), and one counts as in conflict only if it names all
users with both sides (`conflict` in `rememberDeferred`).

The arguments.

* Ledger.  That the bill plus the counters make up all usage says nothing of a
  request still on its way or of a backup.  The history variable `chain` gives each
  report the bill a panel has that accepted it and all before it; `OneChain` says
  that the pending report, the archive, the call in flight, late requests, the
  panel and all its backups are places on that chain, that bills grow along it,
  and that the archive has no gap when receipts are always returned.
* Reports.  `BatchFits` shows of the walk itself, for any counters, identities and
  limits, that a batch has one identity per UID, is no longer than the panel
  takes, and that its sums fit (the walk and the check add up in different
  orders, `SumAgrees`); with `[]OneChain` this gives `Readable`.
* Rotation.  Each action of the ledger is a step of `TrafficRotation` or changes
  nothing it sees.  What is not obvious: there is usage in `pending` exactly when
  there is a report (`ReportInv`), so the two modules draw and confirm under the
  same conditions; a recovery sends archived reports but leaves counters, cursor
  and pending report alone; and `SameWalk` makes the two modules' walks one.
  This is a refinement of steps: strong fairness of drawing and confirming is an
  assumption about calls that `TrafficLedger`, where calls may fail for ever, does
  not make.  What liveness rests on is proved: `Place(cursor, k)`, at most the
  number of keys, falls with each report that leaves account k out (`WaitsLess`),
  and a walk that takes nothing has met nobody, since one account alone always
  fits (`FirstFits`).
* Queue.  Whoever may touch the file holds the read lock, the report cycle like a
  call of Record, so `NeverUnderCall` needs no more than that a closing waits for
  `Readers`.  A caller waits in the queue or in one batch, never in both, and a writer
  that ended holds no batch.  `AckedIsKept` compares counters after a transaction
  with the promises made when its callers are answered, a step later.  The lemmas
  on `Transaction` and `Accepted` (by induction over the requests, `UpTo` and
  `LoopRuns`) say that the counters grow by exactly what is accepted, and
  `KeptInv` that callers do not change a request that waits.
* Deferred receipts.  What is kept of a report (`Kept`) stands for all the receipts
  that came: each is subsumed by the confirmation or a kept proof, or a conflict
  stands for them all.  A merge may drop a proof only if another one covers it, and
  covering is transitive, so nothing is lost on the way.
* Limiter.  A check under way started from an entry of its device
  (`LoadedEntry`), so the entry it finds unchanged under the lock exists.  The two
  action properties count: an admission adds one slot to a count below the
  limit, an eviction takes one out of a full account first.  Slots are finite
  because each step adds one at most.
* Ledgers of the services.  `HoldersListed` could break when an admission that
  waited puts its device into a map others have come to share.  `LedgerInv` adds that
  a map nobody refers to is empty and that a waiting admission carries a version
  that was listed, so that the check under the lock refuses a removed device.
  `FreshBook` (there is always a ledger nobody refers to) is where finiteness of
  credentials and connections is used.  For `TakenSlotsFit`, synchronisation, the
  sweep and the clock make no slot fresh (`UpkeepFits`), and whoever takes a slot
  has counted in the ledger it writes, purged in the same step; a new ledger is
  empty, so one that is forgotten and taken again counts from nothing.
* Shared limit.  `KickedStaysOut` compares the record in Redis with the list of each
  node.  `KickInv` puts the version in force between them: a device online has at
  least that version (`GoodRedis`), versions in force only grow (`KicksGrow`), and
  they have reached what a node has told Redis (`InPlace`), because its upload went
  through or is pending.  A device a node has dropped and forgotten is revoked for
  good (`Forgotten`), which is why the next upload of that node need not name it.
  A script counts with the limit of the check or the one its node uploaded last,
  whichever is larger; `LimitInv` says that the latter is that of the node's last
  list (`PolicyTold`) unless the upload is owed or a newer kick refuses the check
  anyway, so neither is above the largest limit in use.
* Node.  `NodeIsBuilt` speaks of the time between turns.  `NodeInv` adds that
  handlers exist only under the node's own tag and what each step of a rebuild
  finds: the mark, the node's info already the new one, an inbound without users
  until the old limiter is gone.  That inbound is why a failure there, which drops
  the fetched list, leaves nobody served who was only on that list.
* Service and panel.  `ServiceInv` says what the steps of a reload find (no server
  until one is recorded, which is then of the info in force and not started) and
  that a closed service is quiet.  `OneOwner` says who may have started the service:
  the panel that registered it or the one retry, never both, and neither while it
  is down.

Only model-checked: liveness (`AllUsageBilled`, `EveryAccountReported`,
`EveryCallReturns`, `CloseCompletes`, `ProofsMerged`, `SilentIsFreed`,
`OustedIsClosed`, `Converges` of node and panel).  It rests on fairness, and what
a weakly or strongly fair action needs is ENABLED, which the prover does not
reason about.  Every invariant and every action property that holds in a run is
proved.

## 5. Not modelled, and the plan

Not modelled for good: certificates, the dispatcher, net guard, unlock checks,
server status and tools (I/O, stateless or external); regular expressions of the
audit rules; the timing of rate limiters.

Left out of modelled components: `ValidUntil` and the cleanup it drives, several
accounts at once, third-party addresses in Redis, the options the panel gives
nodes, building of Xray's configuration, port hopping.

Next:

1. `userInfoMonitor`: automatic speed limits.
2. `currentTrafficPath` and `UpdateAPIHost`: hard links between ledger files, with a
   model of the file system and its crashes.
3. The API client's caches (`sspanel.go`): ETags against lists it could not parse.
4. Proofs: `TrafficQueue` as an implementation of `TrafficBilling` without
   restores.
