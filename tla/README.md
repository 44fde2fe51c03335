# uptop in TLA+

uptop is a self-hosted uptime monitor: a server that checks monitors, listens
to heartbeats and probe nodes, decides alerts, keeps a history, and may run as
a leader with a follower.  This directory holds TLA+ modules of its core and of
the services around it, the TLC runs that check them on small instances, and
TLAPS proofs of the properties that matter most.

    tlc -workers 2 -config MCEngine_pull.cfg MCEngine     # a run
    tlapm Engine_proofs.tla                               # a proof

## 1. Inventory

Paths are below `src/`.

| Part | State | Operations | What is hard | Correct when |
|---|---|---|---|---|
| **Engine** (`internal/monitor/{monitor,checks,alerts,sites,maintenance,history}.go`) | `liveState`, `tokenIndex`, `histories`, `maintCache`, `isActive`, `probeResults` | poll loop adds, edits and removes monitors; one `monitorRoutine` per monitor checks it; `RecordHeartbeat`; `IngestProbeResult`; `ToggleSitePause`; `SetActive` | every check reads a copy, waits, and is folded into an entry others have changed meanwhile | alerts are decided on the edges of outages, after the retries, never from an overtaken verdict; silence ends in DOWN |
| **Database writer** (`monitor.go`, `dbwriter.go`) | a bounded channel, one goroutine, two wait groups | `enqueueWrite`, `dbWriter`, `drainWrites`, `Stop` | shutdown while others enqueue; full queue; refused writes | order kept, nothing awaited is left behind, `Stop` ends |
| **Cluster follower** (`internal/cluster/cluster.go`) | `failures`, the engine's `isActive` | poll the leader's health, promote, step down | crashes, partitions, late answers, start order | promotes after three consecutive failures, steps down, does not stay out |
| **Maintenance windows** (`internal/store/sqlstore_maintenance.go`, `maintenance.go`, `internal/tui/tab_maint.go`) | rows, the engine's cache, the console's list and set | add after an overlap check, end, delete, prune; refresh, reload | three views of the same rows, each of another age; ids given out again | the views come to agree |
| **Probe aggregation** (`aggregator.go`, `checks.go:272`) | last report per node and monitor | aggregate by strategy, expire | concurrent reports, ties, old reports | the verdict follows from the fresh reports |
| **Probe node** (`internal/cluster/probe.go`) | registered or not, results between check and report | register, fetch assignments, check, report | lost requests, late handlers, crashes | checks the monitors of its region |
| **SLA** (`sla.go`, `internal/tui/data.go`) | the rows a console read | sums up- and downtime from the state-change log | boundaries of the window, order of equal times, a status that changes between read and computation | equals the time the monitor was really down |
| **Checker** (`checker.go`, `safedial.go`) | none | HTTP, ping, port, DNS checks | the network, cancellation | one verdict per check |
| **HTTP server** (`internal/server/server.go`) | none | push, health, probe API, import and export, status page | handlers run beside the routines | reaches the engine only through its operations |
| **Rate limiter** (`ratelimit.go`) | a bucket per visitor | `Allow`, eviction, sweep | a bucket that is dropped comes back full | never above the burst and the inflow, bounded memory |
| **Declarative configuration** (`internal/config`) | none | validate, apply, dry run, prune, export | many writes without a transaction | applying twice changes nothing, a dry run tells the truth |
| **Store** (`internal/store`) | the database | rows, ids, tokens, cascades, retention, secrets | id sequences that start over, tokens that must survive | what was written is read back |
| **Poll loop and dashboard edits** (`monitor.go:279`, `internal/tui`) | `liveState` against the table of sites | the console edits both, the loop copies the table | a row read before an edit is applied after it | the engine ends up with the table's configuration |
| **Terminal UI** (`internal/tui`) | one Model per console | `Update` with keys, clicks, ticks, replies | replies of overlapping commands in any order; a list that moves under the cursor | a key acts on the monitor that was selected |
| **Process and SSH access** (`cmd/uptop/main.go`) | a cache of public keys | start and stop order; login | a cache refreshed while the table changes | follower passive, store closed last, a removed key is out |
| Alert providers, Kuma importer, metrics, models | none | formatting and delivery | - | - |

How they interact: the poll loop, the routines, the HTTP handlers and the
dashboard share the engine's maps under one RWMutex that is held for one read
or one mutation at a time (`applyState`); everything that must be stored goes
through the channel to the writer; the follower's loop switches the engine
with `SetActive`; a probe node speaks HTTP to the leader's server.  Consoles,
`uptop apply` and the import write the database directly, and the engine
follows when its poll loop comes round.

## 2. Modules

| Module | What it is |
|---|---|
| `MonitorState` | a monitor's entry and the pure decisions on it: fold of a result or heartbeat, retries, certificate warning, which alert, which log row |
| `Engine` | the live state and its goroutines; EXTENDS `MonitorState` |
| `Pager` | abstract specification: outages open and close, an alert becomes due only on these edges and is sent once |
| `EngineProperties` | the engine's invariants, action properties, liveness, and the refinement of `Pager` |
| `MCEngine` + `MCEngine_*.cfg` | instances for TLC |
| `Engine_proofs` | theorems on all of `EngineProperties` but liveness |
| `DbWriter` + `DbWriter_*.cfg` | write queue, writer goroutine, `Stop` |
| `Failover` + `Failover_*.cfg` | leader, follower, network, process start |
| `Store` | the configuration tables as a value and the methods of `SQLStore` on it: ids, tokens, cascades, backup |
| `ConfigApply` | validate, apply, dry run, prune, export; EXTENDS `Store` |
| `SitePoll` | the poll loop against console edits and writers behind the engine's back; EXTENDS `Store` |
| `Probes` | probe nodes, the network, the leader's handlers and the aggregate |
| `RateLimiter` | the token buckets of the HTTP API |
| `KeyCache` | the SSH login's cache of public keys |
| `History` | the state-change log, the SLA report and its daily breakdown |
| `Windows` | maintenance windows and the three places that ask about them |
| `Dashboard` | one console's `Update` |
| `Services` | the seven service modules in one specification |
| `MCServices` + `MCServices_*.cfg` | the services for TLC |
| `MCDashboard` + `.cfg` | the console for TLC |
| `DbWriter_proofs`, `Failover_proofs`, `Dashboard_proofs` | theorems |
| `SitePoll_proofs`, `History_proofs`, `ConfigApply_proofs` | invariants of one service |
| `Services_proofs` | theorems on `Services`: those three carried over, the limiter, the login, the probes and the windows |

Definitions with the comment `\* mutant` are faulty variants of the definition
that follows them.  No specification uses them; they show that the properties
can tell the right code from a wrong one.

### Engine against the code

An entry `live[s]` is a `models.Site`: `cfg` (`SiteConfig`), `status`, `fails`
(`FailureCount`), `lastCheck`, `cert` and `warned` (`SentSSLWarning`).
`tokenIndex` is the set of monitors some token leads to (tokens are assumed
to be unique, as the store generates them); `hist[s]` is the newest entry of
the history, which is what seeds the status of a monitor that is added.

| Code | Actions |
|---|---|
| poll loop: unknown row, changed row, vanished row | `AddSite`, `UpdateSiteConfig`, `RemoveSite`; `RefreshMaintenance` |
| dashboard | `UpdateSiteConfig`, `ToggleSitePause`, `RemoveSite` |
| `cluster` | `SetActive` |
| `monitorRoutine`, `checkByID` | `CheckStart`, `RoutineExit` |
| `RunCheck` | `ProbeReturns` |
| `checkPush` | `CheckPush` |
| `checkGroup` | `RollUp` (scan), `GroupApply` (apply, record, log) |
| `handleStatusChange` | `Gate` (IsActive, maintenance), `Fold` (`applyState`), `Emit` (after the lock) |
| `RecordHeartbeat` | `BeatStart` (IsActive, token), `BeatApply`, `Emit` |
| `IngestProbeResult` | `ProbeReport`, then `Gate`, `Fold`, `Emit` |

The grain is the code's locking: what happens under one acquisition of the
engine lock is one step, and between two steps of a goroutine anything may
happen.  Abstractions, each of them deliberate:

* Every check the engine runs itself is `"http"`; `Results` is what it may
  return.  A certificate is none, fine, or soon to expire.
* Time is a logical clock.  Deadlines, the copy's age and the `After` tests are
  comparisons of it.  It stops at `MaxTime`; the routines do not.
* Two reads with nothing between them are one step: IsActive and the token
  (`BeatStart`), IsActive and the maintenance cache (`Gate`), the scan of a
  group's children with the cache (`RollUp`), the entry and the clock
  (`ProbeReport`).
* A routine may start its next check at any time, so stagger, jitter, the
  interval and the recheck channel (`signalRecheck`) need no state.  The
  routines of `Engine` run for ever; shutdown is `DbWriter`'s subject.
* `RemoveSite` deletes the entry and its history in one step; `recordCheck`
  and the queueing of the state-change row after it are one step.
* A late `Emit` may record history for a monitor that is gone, a removed
  monitor that comes back may be served by two routines for a while, and a
  group that is gone is still recorded and logged: all as in the code.
* `streak`, `lastPage`, `logged` and `drained` are history variables.
  `lastPage` is the last alert *decided*, in the order of folds; delivery
  happens in goroutines of its own.

### DbWriter and Failover against the code

`DbWriter`: a write is its number in the order of `enqueueWrite` calls.
`hand[d]` is the write the writer, or `Stop`'s own drain, is executing.  The
writer's `select` is the nondeterministic choice between `Receive` and
`WriterSeesCancel`; `MayRefuse` is where a cancelled context reaches the
store.  The wait groups are the guards of `AwaitCheckers` and `AwaitWriter`.

`Failover`: `Decide` is the body of the loop after the answer; `Boot` and
`Start` are `runServe` before and after `eng.Start`; leader, link and crashes
are the environment.  An answer reports how things were when it was given.
`Failover` models only the follower's engine's `active` flag and whether a
check is under way; what a stepped-down engine still applies is
`StepDownDrains` of `Engine`.

### The services against the code

| Module | State | Code | Actions |
|---|---|---|---|
| `ConfigApply` | `db`; `run` is the run under way with what Apply has in its hands: snapshot, maps, changes, what is left to do | `Apply` from the snapshot to the prune loops | one action per store write, in the order of `apply.go`; a write may fail |
| | | `Validate`, `Export` | operators, part of a run's start |
| `SitePoll` | `live`, `index`, `routines`, `poll` (rows read, ids still to apply), `cmds` (console writes on their way) | the loop in `Start`: `GetSites`, one lock per row, removals | `PollRead`, `PollApply`, `PollSweep` |
| | | form, pause, delete, also of a site that has just gone; the Cmds they return | `OpenForm`, `SubmitEdit`, `SubmitNew`, `TogglePause`, `PauseVanished`, `ConfirmDelete`; `CmdReads`, `CmdRuns`, `CmdFails` |
| | | apply, other consoles, import | `OutsideUpdate`, `OutsideDelete`, `Restore` |
| `Probes` | `region`, `idle` (sites probes do not check), `probe` (phase and results), `inbox` (handlers), `results`, `verdict` | `RunProbe`: register, then rounds | `Register`, `Ask`, `Report` and their losses, `Crash`, `Restart` |
| | | `handleProbeAssignments` | `Assigned`, part of `Ask` and `AskUnknown`; a pause or edit that makes a site one to assign or not: `Toggle` |
| | | `handleProbeResults`, `IngestProbeResult` | `Look`, `Record` (under `probeResultsMu`), `Apply`; the handler returns after its last result |
| `RateLimiter` | `visitors` | `Allow` with refill and `evictOldest`; the sweep | `Allow`, `Cleanup` |
| `KeyCache` | `cache`, `fresh`, `attempt` | `IsAllowed`, `refresh`; `Invalidate` | `Ask`, `Read`, `ReadFails`, `Fill`, `Match`; `Invalidate` after each change |
| `History` | `changes`, `unsaved`, `request`, `report` | the writer; the report's Cmd and its reply | `Save`, `Load`, `handleSLAData` |
| `Windows` | `windows`, `cache`, `loaded`, `maintSet` | form, end, delete and their Cmds; pruner; refresh; reload | the actions of these names |
| `Dashboard` | `ui` is the Model, `cmds` the Cmds under way with what they have read | `Update` and the key tables it calls | one action per key and screen, `handleTick`, `Replies` |

Abstractions in these modules:

* What is read off a row and never decided upon is one field: `body` in
  `Store`, an alert's settings, a column's order in `Dashboard` (`Rank`).
* `ConfigApply` numbers its placeholder ids below 0 as the code does.  A file's
  names and references are strings of a handful; YAML syntax is I/O.  `Work` is
  the set of what the loops of `Apply` go through, `Before` their order: the
  alerts, the groups, their children, the other monitors, what is pruned.  An
  exported file's lists are indexed by the ids of the rows, which have the same
  order as the places in the lists.
* In `SitePoll` a Cmd is one database statement (an id that is gone is not an
  error), except an update, which is two: `UpdateSite` reads the stored token
  (`CmdReads`, which also makes a first one for a push monitor) and then writes
  the whole row with it (`CmdRuns`), without a transaction.  Two Cmds run in
  either order, because each has a goroutine of its own, and their statements
  may alternate.  In `ConfigApply` nobody else writes, and `UpdateSite` is the
  two in one step.  An edit chooses the settings (`body`) and the type.  The
  console's list may still name a monitor the loop has just taken away
  (`Vanished`): pausing it writes "not paused" to the row, if there is one.
* In `Probes` a tick is one probe interval, so that `StaleAfter` counts rounds.
  Rounds are shorter than an interval and handlers than a round unless the
  budget of faults pays for a delay.  A probe without a region, like one whose
  region the leader cannot look up, is assigned every site that is not paused
  and no push monitor or group; `Deployments` has a deployment with both kinds
  of probes.
* `RateLimiter` counts tokens in units of time (a rate of 1), which turns the
  code's floating point into integers; the bucket and the cost are scaled with
  it.  `from`, `spent` and `evicted` belong to an observer.
* `History` has one monitor and broken or not for a status.  Percentages, MTTR
  and MTBF are quotients of the figures modelled.
* `Windows` gives windows a number `n` besides their id, so that a property can
  tell two windows of one id apart; `until`, `saw` and `warned` remember the end
  the form asked for, the windows and ends the check read, and what the form was
  told.  A query that fails has read nothing and warns of nothing, a warning
  that is not written does not count as one, and the window is added all the
  same (`CheckOverlap`); any other write that fails is dropped (`CmdFails`).
* `Dashboard` counts rows, not characters; two equal Cmds under way are one.
  Its `scene` says which keys the user presses: all keys of one part of the
  screen are in one scene, with ticks, replies and changes of the world in all.
  `tabSeq` is 0, 1, or 2 for every later number.  `Init` has a value receiver,
  so the bump its load gives `tabSeq` is lost: before the first tick, a second
  after the start, its reply is dropped, against the comment there ("so the
  dashboard isn't empty for the first second"), and the load of that tick has
  the same number.  The reply of either is then taken, in whatever order they
  come, until the next load.  The bound `Early` names the scenes in which the
  user may press keys before that next load; in the others the user waits for
  it, and ticks and replies come from the start in all of them.  The four
  queries of a load are one read.  A failed read of a history or a report
  leaves its panel empty (the negative ids).  With the cursor of the settings
  at -1 the keys that would index with it are left out (`Indexed`), see
  section 5.

### How the services are composed

The services meet in the database and in the engine, which `Store` and
`SitePoll` (rows), `Windows` (the cache `Engine` gates alerts with) and
`Probes` (the verdict `Engine` folds) model at the interface.  In `Services`
they share no variable: `part`, chosen in `Init`, says which of the seven
moves, the variables of the others keep one initial value, and a behaviour is
a behaviour of that one service.  The reachable states are the seven sets side
by side, and each service's fairness is asked of its own behaviours only.
This is a matter of running seven small models as one, not an interleaving.
The constants of the services are constants of `Services`, and each service's
assumption is part of `ServicesAssumption`; `MCServices` only gives values.

## 3. Runs

| Run | Shows | Instance |
|---|---|---|
| `pull` | `TypeOK`, `StepDownDrains`, `PagedIffBroken`, `RetriesExhausted`, `ImplementsPager`: one checked monitor with a routine and a handler that brings probe reports on the same monitor; edits between 0 and 1 retries, pauses, removals, cluster switches | results UP, DOWN, expired certificate; clock to 2; no windows |
| `push` | `TokenIndexExact`, `HeartbeatHonoured`, `ImplementsPager`, `DeadManSwitch`: deadline checks racing heartbeats, with edits of retries and token, a global window, seeds up and down | clock to 5, which is past every deadline of interval 1 with grace 2 |
| `group` | `LogFollowsStatus`, `GroupConverges`: a group and a child, each with a routine | a child that fails, both may be paused, removed, added again |
| `maintenance` | *violation* of `NoRecoveryAlertInMaintenance` | |
| `writer_stop` | `TypeOK`, `SavedInOrder`, `StopLeavesNothing`, `NoWriteAfterStop`, `StopEnds` | queue of 2, four writes, two checkers, one handler, faulty database |
| `writer_lost` | *violation* of `NoLostWrites` | as above, smaller, database not faulty |
| `failover_poll` | `TypeOK`, `ThreeStrikes`, `SplitBrainEnds`, `TakesOver` | threshold 3 as in the code, failures counted to 4 |
| `failover_boot` | *violation* of `ChecksOnlyWhenLeaderDown` | |
| `dashboard` | `CursorInRange`, `OnSelection`, `TablesNeverGoBack`, `PanelsSettle`: one console in five scenes | a group with a child and a site outside; one or two Cmds under way when a key is pressed; one change of the engine or the tables, or one failed load; keys before the second reload in the settings |
| `services`: config | `AppliedMatches`, `IdempotentClosed`, `DryRunTruth`, `RoundTrip` | four files (group with child, prunable reference, changed alerts and parents, a name twice), an empty and a grown database, three runs, one failed write |
| `services`: poll | `Settles`, `TokenStable`, `TokenIndexExact` | two first rows, one of them push, two edits of settings or type by the console or behind it, which is enough for two updates whose statements alternate |
| `services`: probes | `Converges`, `RegionRespected` | a probe in the site's region and one outside or without a region, three strategies, one fault, one change of the world |
| `services`: limiter | `LimitHolds` | two clients on one slot, burst 2, cost 1, clock to 4 |
| `services`: login | `RemovalTakesEffect` | two keys, one from the environment, three changes, one attempt |
| `services`: sla | `SlaTruth`, `OutagesAddUp` | windows of 2 and 4 ticks, days of 2, three changes |
| `services`: maint | `ViewsConverge`, `OverlapWarned` | a group and its child, durations "until ended" and 1, a list of 2, retention 1, two edits |
| `config_prune` | *violation* of `Idempotent` | as config |
| `incident` | *violation* of `IncidentsInform` | as maint |

Why the bounds are enough.  All races the properties speak of are between two
goroutines on one monitor, so one routine and one handler meet all of them;
`MaxRetries` 0 and 1 give a status change at once, a retry, and an edit that
moves the limit below or above the count; the queue of 2 fills while four
writes are issued.  `RetryCap` bounds only the history variable `streak` and
lies above every `MaxRetries`.  A second monitor would add only an
independent copy, except through groups and windows, which have their own
run.  The theorems below lift the most important properties to any number.

Fairness.  Goroutines are scheduled and timers fire, so each routine, each
handler's steps *after* its request has arrived, and the clock are weakly
fair; users, heartbeats, probe nodes, the cluster and the shutdown are not.
One weak fairness condition per goroutine is enough, because a goroutine has
one thing to do at a time.  In `Failover` the follower's loop is weakly fair
(its timer and its request's timeout expire); crashes, restarts and
partitions are not.

In `SitePoll` the poll loop (a timer) and the Cmds (goroutines) are fair, in
`Probes` a running probe, the handlers of requests that arrived and time, in
`Windows` the Cmds, the engine's refresh and the console's reload, in
`Dashboard` the ticks and the replies, each kind of Cmd by itself.  Users,
writers behind the engine's back, crashes, losses and failures of the database
never are.

The small bounds of the services, one by one.  Two edits are an edit and the
one that overtakes it; a third only repeats a pair.  Three runs of apply are a
run that breaks off, its repetition, and the run that should change nothing.
One client slot makes every second client evict; the window of the observer
begins anywhere.  One attempt at login meets every change of the table between
its two reads of the cache, and a second is covered by `RemovalProved`.  Two
windows overlap or do not, and the third id is the one given out again.  In
`Dashboard` three rows are the fewest with a group, a child and a neighbour,
and two Cmds of a kind are the fewest that can arrive in the wrong order.

The runs `writer_stop` and `services` turn deadlock checking off: a process
that was shut down really stops, and a service whose budget of edits, runs or
time is used up has nothing left to do.  In `dashboard` and the engine's runs
it is on.

### What the properties exclude

Where the code has a gap a property names it, instead of being left out:

* `SlaTruth`: a monitor that was already down when the window began is reported
  up until its first change.  The console reads the rows *since* the window's
  start, so "last transition before or at windowStart" (`sla.go`) never finds
  one before it.  The figure is right again when nothing changed in the window,
  because then the live status decides.
* `TablesNeverGoBack`: from the first tick to the next reload, the loads of
  `Init` and of that tick have one number, and the one that replies last is
  taken, however old what it read.  `messages.go:22-24` ("a slow load can never
  overwrite the result of a newer one"), `data.go:287-289` and
  `update.go:217-219` say otherwise; the property without the exception fails
  for this reason alone.
* `TokenStable`: an update whose row got another token between its two
  statements (`sqlstore.go:158` and `:169`; `Overtaken`) writes over that token.
  Two edits that turn a monitor into a push monitor at the same time each make
  a token, and the first one, which a console may have shown, stops working; a
  restore, or an id given out again, in between has the same effect.  Without
  the exception the property fails with the two edits of the run.
* `OverlapWarned`: a window for a group does not warn of one for a child of it;
  the query looks upwards only.  A query or warning that failed warns of
  nothing (`tab_maint.go:166`).  And it speaks of windows whose end is the one
  the check read.  `EndMaintenanceWindow` sets the end without asking whether
  the window has ended, so a second x on a stale list moves the end of a window
  that is over forward, possibly past the start of one that was checked against
  the earlier end.  An earlier form of the property missed this: it held with
  two edits and fails with four, which came out when it was to be proved.
* `PagedIffBroken` is about monitors that are http monitors in every
  configuration they may be given, and in no window.  A push monitor's LATE and
  STALE are not alerted and break the pairing of DOWN and RECOVERY, a group
  recovers without an alert, an edit of the type carries the status over, and
  under a window an edge is silent.
* `HeartbeatHonoured` is about monitors that are push monitors in every
  configuration they may be given: a check that began as an http check may end
  on a push monitor.
* `LogFollowsStatus` is about monitors that one routine alone serves, without
  reports and heartbeats: rows are queued after the lock is released, so two
  goroutines may queue them in the other order.  A group's PENDING is excepted
  as well (`checks.go`).
* `RemovalTakesEffect`: a key that a refresh read before its removal and stored
  after `Invalidate` is accepted until the TTL has passed (`overlaps`).
* `LimitHolds`: a client whose bucket was evicted starts with a full one.
* `RegionRespected`: a probe assigned its monitors while the leader did not know
  its region, because its one registration or the lookup failed (`blind`).
* `PanelsSettle`: a history or report whose read failed is not asked for again,
  and its panel stays empty.
* `OnSelection`: switching the section of the settings puts the cursor of the
  list of monitors to the top until the next refresh.
* `IdempotentClosed`: see `Idempotent` below.
* `DryRunTruth`: a row that refers to an id its sequence has yet to give out
  (`IdsUnused`).  `RoundTrip`: databases with a name twice, or a site whose
  alert or group is gone (`WellFormed`); the export leaves such references, and
  the children of such groups, out.
* `ViewsConverge`: windows that reach their end this very second, more windows
  than the console loads (100), active incidents.

### Five disagreements

* **`NoLostWrites`** (`monitor.go:192`).  After `cancel()` the writer's
  `select` may still pick the queue, and executes the write with the context
  that was just cancelled.  The store refuses it and the write is only noted
  in memory, against the comment of `dbWriter` and of the test that drains on
  stop ("no lost writes").
* **`NoRecoveryAlertInMaintenance`** (`checks.go:63`).  `RecordHeartbeat`
  alerts on a recovery from DOWN in maintenance; `handleStatusChange`, and
  the test for it, do not.
* **`ChecksOnlyWhenLeaderDown`** (`main.go:443`).  A starting follower's
  engine is active until `cluster.Start` runs.
* **`Idempotent`** (`apply.go:171`).  With `--prune` a monitor may refer to an
  alert that only the database has; the run attaches it and then deletes the
  alert, so the next run of the same file fails, against "Run it twice with
  the same file, second run changes nothing" (`docs/config-as-code.md:236`).
* **`IncidentsInform`** (`maintenance.go:50`).  The engine's cache takes active
  windows of every type, so an "Incident (informational)" window
  (`tab_maint.go:87-88`, `update_test.go:472`) holds alerts back.

## 4. Proofs

`Engine_proofs` holds for every set of monitors, routines and handlers, every
configuration and window, under `NoSiteAssumption` and `EngineAssumption`: goroutines are not shared between
the two kinds, "no monitor" is not a monitor, every `MaxRetries` a monitor may
be given is below `RetryCap`, and checks return UP, DOWN or SSL EXP.

* **`TypeCorrect`**: `Spec => []TypeOK`.  The type invariant is inductive
  because it bounds `fails` and every configuration's retries together.
  The fold is done once as a lemma on `FoldCheck` and reused.
* **`TokensExact`**: `tokenIndex` is exactly the set of live push monitors
  with a token.  Inductive with `TypeOK`; folds leave `cfg` alone
  (a lemma on `FoldCheck` and `FoldBeat`), which is the whole point of
  `applyState`'s comment on config fields.
* **`RetriesRespected`**: a DOWN alert needs more than `MaxRetries` failures.
  The invariant behind it is `FailuresHonest` (theorem `CountsHonest`):
  `FailureCount` never exceeds the failures folded since the last success,
  whatever edits and removals do.  An alert needs a status that becomes
  broken, so the count passed `MaxRetries` in that very fold.
* **`StepDownSafe`**: `StepDownDrains` is not inductive.  The strengthening
  says that while the engine is active nothing counts as drained, and that a
  goroutine in a phase past its `IsActive` test (`Cleared`) has drained nothing
  since the last step-down.
* **`ConfigsKept`**: type, token and parent of a live monitor are those of one
  configuration it may be given.  Folds write status, failures and times but no
  configuration, so only edits and pauses move it.
* **`JobsSound`**: what a goroutine carries from one lock to the next belongs to
  it.  `JobOK`: it serves its own monitor, in a phase a type of that monitor has;
  a verdict comes from a probe node, from a check, or from a heartbeat that was
  overdue by the copied entry (`Origin`); and the maintenance bit it read is
  unset if no window can be for the monitor (`MaintInv`).
* **`AlertsTruthful`**: `Spec => []PagedIffBroken`.  `PagedOK` is kept by every
  step: status and alert are decided in one critical section, so an overtaken
  verdict, a fold into a monitor that was removed and added again, and an edit
  of the retries keep the two together.  What it takes from `JobsSound` is that
  the fold is that of a check and is not held back by a window.
* **`HeartbeatsHonoured`**: `Spec => HeartbeatHonoured`.  The verdict was overdue by
  the copy (`Origin`); if a heartbeat came in between, the fold's stale test
  (`applyState` against `LastCheck`) turns it away.
* **`LogTruthful`**: `Spec => []LogFollowsStatus`.  `LogOK`: while the routine still
  has to log, the row it will queue is the monitor's status; otherwise the
  newest row queued is.
* **`PagerImplemented`**: `Spec => P!Spec`.  An outage is a broken status of a
  live monitor; the alert a goroutine owes is the one in its `effect`.  Every
  fold opens or closes one outage or none and owes an alert on an edge only
  (`StatusMove`), adds and removals are silent edges (`EditStep`), `Emit`
  sends (`SendStep`), the rest stutters.  The invariant it needs is
  `AlertsInv`: an alert is owed only between the fold and the emit, so a
  goroutine never overwrites one.  The theorem includes monitors that are
  removed and added again under late folds, and any number of goroutines on
  one monitor.

The other modules, each under the assumption its module states:

* **`OrderProved`, `StopProved`, `ClosedProved`** (`DbWriter`): for any
  goroutines, any size of the queue and a faulty database.  `WriterInv` orders
  the numbers: saved, below in hand, below queued, none above `issued`; the
  writer's drain has ended before Stop's begins; and once `Stop` has returned
  only outsiders' writes are in the queue.  The order alone is not inductive,
  because two drains could each hold a write.  **`TypeProved`** is part of it:
  the queue never holds more than its capacity.
* **`StrikesProved`, `TypeProved`** (`Failover`): for any threshold, the follower
  becomes active while polling only after that many failures in a row.
  `StrikesInv`: `failures` counts the trailing failures of `recent`, up to the
  cap, and stays below the threshold while it is passive.
* **`CursorOnRow`, `CursorOnSelection`, `TablesGoForward`** (`Dashboard`): for any
  monitors, groups, filters, sort orders, heights and windows, with any number
  of loads under way.  `DashInv` has two halves.  `Placed`: the cursor is on a
  row when there is one, and that is the row of the selected monitor as long
  as it is listed.  The two are proved together, because a refresh first makes
  a new list, then looks the selection up in it (`Follow`), then mends a cursor
  that found nothing (`clampCursor`).  All keys either leave list, cursor and
  selection alone (`Alike`) or place them anew; `Steady` says so of every step
  but a load's.  `LoadsInOrder`: only the load issued last is the newest, and
  what it has read is no older than what is on the screen; any other reply is
  dropped.  It begins with the second load of `Update`: until then the load of
  `Init` may hold older tables and be taken all the same.
* **`RegionProved`** (`Probes`): for any probes and sites, with regions or
  without on either side, under pauses, crashes, losses and late handlers, no
  result of a probe that has a region counts for a site outside it, unless the
  leader did not know the region.  A probe without one is given, and counts for,
  every site.  `RegionInv` carries the permission from the assignment to the
  report, the handler and the stored result.
* **`LimitProved`** (`RateLimiter`): for any clients, burst, cost and bound on
  visitors, as long as the cutoff is no shorter than a bucket needs to fill
  (`LimiterAssumption`).  The invariant bounds what a client has spent and what
  its bucket could hold by now together; a bucket that was dropped counts as
  full, which is why the cutoff matters.
* **`RemovalProved`** (`KeyCache`): for any number of attempts, keys and
  changes, no removed key is accepted unless a refresh under way had read it.
* **`IndexProved`, `TokenProved`** (`SitePoll`): for any database the store can
  have written (`PollAssumption`), any edits of any field, restores, and any
  order of the statements of updates that overlap.  A row's token changes only
  by a restore, or by the second statement of an update that was overtaken, and
  then that of the row it was for (`TokensKept`).
  Neither is inductive: the poll loop holds rows read earlier, rows are deleted,
  and an id is given out again once the table was empty.  `Owner` says that one map from
  tokens to ids fits every copy of a row there is, in the backup, the database,
  the loop's hands, the live map and the updates between their statements; a new
  row gets a token that no copy holds.
  This is why two live monitors never share a token, which the `Engine` takes
  for granted when it keeps `tokenIndex` as a set of monitors.
* **`OverlapProved`** (`Windows`): for any monitors, groups, durations and
  number of edits.  The check's answer is about rows it read, and belongs to a
  window that comes into being later, when those rows may have ended, gone, or
  handed their ids to others; a check that failed has read none, and nothing is
  claimed of it.  `Answers` keeps it true of the rows as they were
  read; it is inductive because a window's monitor and start never change
  (`Fewer`) and because no number is given twice, which `Numbers` and `Seen` say
  of windows, of windows on their way, and of what any check has read.

* **`SlaProved`, `FiguresProved`** (`History`): for any windows, any length of a
  day and any number of changes, whatever order the database gives equal times
  in.  `HistoryInv` says that the table is a true record of the past
  (`TableTrue`: between two changes the monitor was what the first of them
  says, before the first what it began as), that its last row, or the queue's,
  is the live status (`LastSaid`), that a request's rows are those of the table
  from its `since` on, newest first, up to the length the table then had
  (`RequestTrue`), and what the two properties say of the report
  (`ReportTrue`), in terms of a past that only grows.  That the walk is right
  is an induction over its turns: `Walk` is a recursive function on `0..Len`,
  `WalkTurns` shows that it exists, and each induction takes the least turn at
  which a claim fails (a set of naturals has a least element), because the
  library's induction theorems need an operator as parameter.

* **`MatchesProved`, `RerunProved`, `DryRunProved`, `RoundTripProved`**
  (`ConfigApply`): for any files and any databases the store can have made
  (`ConfigAssumption`), with doubled names and references that lead nowhere, any
  number of runs, and a write that fails at any point.  The invariant
  (`ApplyInv`) has a part for each of the questions.
  `RealInv` splits the database of a real run in two by what is left to do: a
  row the run has not come to is as in the snapshot (`AlertsPending`,
  `SitesPending`), one it is through with is as in the file (`AlertsDone`,
  `SitesDone`), the two maps are true of the tables (`MapTrue`, `GroupsDone`),
  and what is still to be pruned is exactly what the file does not list.  When
  nothing is left it is `Matches`.  The order of the loops matters twice: the
  alerts are all there when the first monitor refers to one, the groups when
  their first child does.
  `Fixed` says that a snapshot already is what the file asks for; a run that
  begins so stays `Quiet`, and has nothing to write.  It does after a run that
  reported success (`InForceAtEnd`), and after an export (`RoundInv`).
  `Planned` tells what a run has answered so far from the file, the snapshot and
  what is left to do, without the ids it works with: a placeholder or an id yet
  to be given out is one no row refers to (`IdPlan`), so each difference comes
  out the same.  `Answer` is what is true of it at the end, or where it gets
  stuck; there is one answer to a file and a snapshot, and a dry run leaves the
  snapshot as it was.
  Two of these properties had to be stated better to hold for every value of
  the constants: `DryRunTruth` fails for a database with a row that refers to an
  id its sequence has not reached (`fresh`), since the real run then hits it
  by accident, and `RoundTrip` fails when two rows have one name (`sound`).

`SitePoll_proofs`, `History_proofs` and `ConfigApply_proofs` prove these of the
services by themselves; `Services_proofs` proves the limiter, the login, the
probes and the windows, and all of them of `Services`, the specification the
run `services` checks: a step of the whole is a step of a service or leaves it
alone (`Steps`), so an invariant of a service is one of the whole.
`ConfigSame` and its likes say that the instances of a service in `Services` and
in the module with its proofs are the same operators.

Model-checked only.
All liveness (`DeadManSwitch`, `GroupConverges`, `StopEnds`, `SplitBrainEnds`,
`TakesOver`, `Settles`, `Converges`, `ViewsConverge`, `PanelsSettle`): the proof
system has no rules for fairness in use here.  The five disagreements of section 3 are
refuted by TLC and have nothing to prove.

## 5. Not modelled

* Alert providers, the Kuma importer, metrics and the status page's rendering:
  delivery or conversion without state.
* Wire protocols of the checks, the address filter, timeouts: a check is the
  result it returns.
* The console's views, widths, colours and scrolling of text, and the fields of
  its forms.
* SQL, encryption of secrets, the JSON format of a backup; the id sequences
  are SQLite's (`Store`), PostgreSQL's dialect is not modelled.
* Check history and its retention, nodes' last seen times, latencies, log
  messages, alert health.  None is read by a decision the properties speak of.
* Authentication, body limits and how a client's address is found.
* A restart of the leader under running probes, which empties `results`.

Four hazards have no property.  A check that shutdown cancels returns a DOWN
that is recorded and seeds DOWN at the next start (`checker.go:107`).  Half a
page down in an empty settings list puts its cursor at -1 (`update.go:622`),
and an edit key indexes with it once another console has added a row: a
property that says so would not hold.  Nor would one that rows of the
state-change log come in the order of the changes when two goroutines work on
one monitor (`alerts.go:153`).  An outage that began under a window, or that
passes from DOWN to LATE, goes without one of its two alerts (`alerts.go:181`);
the model does the same, but nothing in the repository says what is wanted, and
`Pager` allows it.

## 6. Plan

Done: the core (`MonitorState`, `Engine`, `Pager`), the writer, the follower,
the seven services, the console, and the theorems of section 4.

Left, in this order:

1. `Restart`: shutdown in flight, what is stored, seeding from history, the
   first check after it; `DbWriter` composed with `Engine`.
2. A dropped state-change row (full queue) in `History`.
3. `Engine` under `Windows` and `Probes` in one run, instead of through the
   interface.
