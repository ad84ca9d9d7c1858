# FANGS: a verification project

FANGS scans npm packages in a sandbox, watches the sandbox with an eBPF sensor,
and compares what it saw with a per-package baseline.  This directory holds TLA+
models of its concurrent and fault-prone parts, TLC configurations that check
them on small instances, and TLAPS proofs.

## 1. The system

| Part | State it keeps | Operations | Talks to |
|---|---|---|---|
| Dispatcher (`orchestrator/core`) | per runner: a job queue and a one-slot wake channel, in memory | `QueueJob`, `PollJob` | HTTP handlers |
| API server (`orchestrator/api`) | runner table, `differTimers`, in memory | register, heartbeat, poll, queue scan, events, result, pruner | everything |
| Differ (`orchestrator/differ`) | none between calls | `AnalyzeRun` | storage |
| Storage (`orchestrator/storage`) | runs, events, baselines, deviations, allowlists, packages, releases, notifiers, notifications | one transaction per call | server, CLI (another process), watcher |
| Watcher (`orchestrator/watcher`) | a copy of the package rows during a cycle | `PollOnce`, `pollPackage` | npm registry, storage, `SubmitScan` |
| Notifier (`orchestrator/notifier`) | one goroutine per delivery | `Trigger`, `deliverWithRetry` | storage, webhook targets |
| Runner (`cmd/fangs-runner`) | the current streamer, the job's status and context | poll loop, `runJob`, forwarder, heartbeat | server, sandbox, sensor |
| Event streamer (`runner/agent/events.go`) | queue of 1024, batch of 64, batch number | `Send`, `Close`, loop | server |
| Sensor (`runner/sensor`) | cgroup and path maps, ring buffer, dedup windows | `AddCgroup`, `RemoveCgroup`, `Events` | kernel, forwarder |
| Sandbox (`runner/sandbox`) | a container and its parent cgroup | launch, wait, stop | Docker |
| CLI (`cmd/fangs-cli`) | none | package, allow, baseline, notifier commands, listings | storage directly, server |
| Migrations (`storage/migrate.go`) | `schema_migrations` | `ApplyMigrations` | database; run by orchestrator and CLI |
| Configuration (`orchestrator/config`, `notifier/loader.go`) | none of its own | `ApplyAllowlist`, `LoadFromFile` at every start | storage |
| UI, metrics | none of their own | pages, counters | storage |

What is hard, and where the properties are aimed:

* **Unlock, then signal / unlock, then wait** in the dispatcher.
* **A debounced analysis per run**: POSTs keep arriving while the timer is pending,
  firing or running; `AnalyzeRun` makes up to seven storage calls that interleave
  with another analysis, with the CLI and with the retention pruner.
* **A stamp before a side effect**: the watcher marks a release as seen before its
  scan is accepted.
* **The end of a job**: deadline, container exit, shutdown, the forwarder, the
  streamer's queue and the final POSTs all meet in `runJob`'s deferred calls.
* **Retries of calls that may have worked**: webhooks, event POSTs, heartbeats.
* **Transactions of several statements** in the PostgreSQL backend: locks taken in
  map order, rollbacks, sequences, and a listing that needs a second connection.
* **Clean-up after a partial failure**: container, parent cgroup and sensor maps are
  set up in many calls, each of which may fail before or after it took effect.
* **Pairing records by time**: a connect by system call makes two records, one by
  io_uring makes one, and the reader may be late or the ring full.
* **State in memory only**: queues, timers, runner table and deliveries are lost on
  a restart, the database is not.

`PROJECT.json` lists every such hazard at its line with the properties aimed at it.

## 2. Modules

| Module | Models | Composition |
|---|---|---|
| `JobQueue` | what the dispatcher promises: one FIFO per runner | abstract |
| `Dispatcher` | `dispatcher.go` and `handlePollJob` | implements `JobQueue` |
| `Analysis` | `handleEvents`, `scheduleDiffer`, `AnalyzeRun`, `handleScanResult`, `baseline promote`, allowlist edits, retention | composes server, Differ, storage and CLI |
| `Watcher` | `pollPackage`, the submit closure, `package add/remove` | composes watcher, storage and CLI |
| `RunnerJob` | `runJob`, container watcher, forwarder, `EventStreamer` | composes runner, sensor queue, streamer, network |
| `Notifier` | `Trigger`, `deliverWithRetry`, log, target edits | composes notifier, storage and CLI |
| `Registry` | register, heartbeat, pruner, in discrete time | composes server and runner |
| `Store` | what `storage.Backend` promises: every call at once and entirely, or not at all | abstract |
| `Postgres` | `postgres.go` statement by statement, with row locks and the connection pool | implements `Store` |
| `Sandbox` | `docker.go`, `cgroup.go` and the calls of `runJob` around them | composes runner, Docker, cgroup tree and sensor map |
| `Sensor` | `sensor.go` and the probes of `sensor.bpf.c` | composes probes, ring, reader and filters |
| `Lifecycle` | start-up, migrations, configuration, crash and restart, and the life of a run from `SubmitScan` to its result | composes orchestrator, CLI, database and runner |
| `MC*` | model values and small functions for TLC | |
| `DispatcherProofs`, `AnalysisProofs`, `RunnerJobProofs`, `SandboxProofs`, `SensorProofs`, `NotifierProofs`, `PostgresProofs` | theorems about the module each is named after; `PostgresProofs` also about `Store` | each extends its module |
| `OrchestratorProofs` | theorems about `Lifecycle`, `Watcher` and `Registry`, the parts of the orchestrator process that have no proof module of their own | extends all three, which is why `Watcher` and `Registry` name their specifications `WatcherSpec` and `RegistrySpec` |

Conventions.  An action is a critical section, a storage transaction, or the code
between two points where another goroutine or process can get in.  Names follow the
source.  `X_something` in front of `X` is a faulty variant of `X` that no
specification uses; it shows that a property would notice that mistake.  What a
failing call does in the code (log and go on, or return) is a disjunct guarded by a
flag such as `StoreFaults`.

### Dispatcher
`mu` is implicit: each of its critical sections is an action.  `signals[r]` is the
one-slot channel; a send to a full channel changes nothing.  A poll goes
idle → check → wait → check … → respond.  Its context ends by the 25 s cap
(`expired`: the answer still arrives) or because the client left (`gone`: a job
written now is lost).  A poll of an unregistered runner is answered 404 before it
touches the dispatcher, which is no step here.

### Analysis
Fingerprints are abstract values; an event has one or none (`NoFP`: undecodable, or
suppressed by the built-in list).  `inMap`, `armed` and `orphans` describe
`differTimers`: the map entry outlives the firing of its timer until the callback
removes it, a `Reset` in that window re-arms the same timer, and the callback may
then remove an armed timer from the map, which still fires.  Each call of
`AnalyzeRun` is a value of `cpc`.  `Overlap` says whether an analysis may take so
long (more than the 2 s debounce) that the next one starts beside it.  `retired`
stands for the retention window having passed a finished run.  `alerted`,
`allowedEver` and `written` are history.  `Retire` waits until nothing of the run is in
flight: `PruneEvents` compares `ts_ns`, which the server sets on arrival, with a cutoff at
least a day old (`-retention-days`, an integer), while the last analysis follows the last POST by seconds.  `FinishPost`
takes `UpdateRunState` and `scheduleDiffer`, which follow each other in one handler, as one
step: no property tells the two apart.

### Watcher
Versions are names, here numbers, 0 is "never seen".  `Publish` moves the registry's
`latest` tag to any other version, back to an earlier one too, as `npm dist-tag` does;
`pollPackage` compares by inequality, so a version that becomes the latest again is a new
release to it.  `turns` counts how often each version became the latest, `moves` bounds the
moves.  The watcher's cycle works on `wrows`, its
copy.  Removing a package cascades to its releases, and the foreign key refuses
releases of a removed package.  `refused` and `touched` are history: submissions that
found no runner or died with the process, and rows somebody else changed.

### RunnerJob
`jpc` walks through `runJob` and its deferred calls in reverse order.  `jctx`
is the job's context, which ends by its deadline or by a cancel (container exit,
shutdown).  `ring` is the kernel's ring buffer together with the channel of
`Sensor.Events`.  `wire` holds POSTs the client gave up on that may still arrive.
A `send` on a closed channel panics: `crashed`.  `received` is what `handleEvents`
accepted, that is, answered with 200.  It does so also when `AppendEvents` fails
(`server.go:587`) and skips an event it cannot marshal (`:575`): the runner counts what was
accepted, and `Analysis` has the failing write.

### Notifier
`pc[k][t]` is the goroutine that delivers trigger k to target t; it works on a copy
of the row.  The POST (up to 10 s) and its row are two steps, so that a kill can fall
before, between or after them: such a delivery ends as `cut` (in or after a POST without
its row) or `killed` (elsewhere).  `answer` is what the goroutine carries from the one to
the other.  `unlogged` is history: deliveries with a row that could not be written
or went away with its target.  The severities are those `differ.go` writes and those `notifier.go`
ranks.

### Registry
Time passes in `Pass`, never over something that is due.  Durations are those of the
code in units of 5 s (heartbeat 30 s, its timeout 10 s, registration timeout 30 s,
pruner 30 s, cutoff 90 s).  One runner is enough: no handler looks at two entries.

### Store and Postgres
`Store` has one action per writing method, with the conflict clauses, foreign keys and
cascades of the schema; `request` is the call a goroutine is in.  The other modules
take a storage call as one step because of this contract.  `Postgres` refines it: a
call of several statements is a transaction under READ COMMITTED.  `newRows`,
`newEvents` and `newDevs` are what it wrote and nobody else sees; `lock` is the row
lock an upsert takes, `cur` the statement that waits for one; `nextId` is the
sequence, which a rollback does not give back.  A cycle of waiting transactions makes
one of them the victim.  `lister` is `ListPackages`, which holds one connection of the
pool while it queries with another.  `merges` and `used` are history.  `Prune` meets no
evidence of an open `WriteDeviations`, since its cutoff is a day old at least.

### Sandbox
`pc` walks through `runJob`: parent cgroup, registration, `Launch` (check, pull,
create, start, inspect, cgroup check), wait, and the deferred calls.  A failing call
may have taken effect or not; a create that did leaves a container nobody knows
(`lost`).  `kid` is the container's own cgroup, which the kernel reaps some time after
the exit and which makes `rmdir` fail until then.  `waiter` is the goroutine of
`runWait`, `watching` the one of `runJob`.  `kept` and `stuck` are what Docker or the
host refused to give back; a directory whose removal failed after a failed `AddCgroup` is
among them.  `stalled` is a daemon that takes calls and answers none, for good: its client
has no timeout (`docker.go:63`), so a call of it then ends only with its context, which is
the process's in `Launch`, none at all in `Launch`'s error paths and 15 s in `Stop`.
`stableCgroup` is satisfied with any cgroup but the root (`CgroupResolves`).

### Sensor
`AddCgroup` puts one prefix after the other into the shared map and rolls back when
one fails; jobs follow each other.  Every probe is an action that checks the cgroup
(and, for opens, the path) and puts a record into the ring, or counts a drop.  A
connect goes through `handle_connect` and then (`SyscallGoesOn`) `handle_tcp_connect`;
other connects may come in between.  The filters hold the keys that have not expired; `Tick` expires
one.  `alone`, `excess` and `disturbed` are history: system calls read minus kprobe
records of system calls read; events minus connects; destinations whose records overlapped,
were not paired (also because `RemoveCgroup` fell between the two), or were read too late.

### Lifecycle
`phase` is the orchestrator's start-up, `known` the versions a process read from
`schema_migrations` before it applies the rest, one transaction each.  `where` is the
place of a run's job; `attended` and `orphans` are event POSTs whose client still
waits or has left: their handlers may still write "done".  A crash forgets queue and
handlers and keeps the rows.  `lost`, `excused` and `settled` are history.  A poll that was
parked before its runner died or was evicted and takes a job all the same is a fault of
`Answered` here: the job is gone either way.

## 3. Runs

Each run shows its properties for every behaviour within the bounds.

| Run | Question | Result |
|---|---|---|
| `dispatcher_one_poll` | wake-ups, exactly-once hand-over, FIFO refinement, progress without timeouts | hold |
| `analysis_restream` | several POSTs, re-analysis, promotion, retention: is every finding accounted for, written once, evidenced, alerted, kept, and accepted before it is cleared? | yes |
| `analysis_faults` | storage failures, kill, overlapping analyses, promotion at any time: can a fingerprint slip into the baseline? | only through a promotion or an analysis that found it empty |
| `analysis_live` | allowlist edits, an ad-hoc run, a failed result: is every POST analysed in the end, with nothing left out? | yes |
| `watcher_edits` | adds and removals inside a poll, a tag that moves forth and back, failing calls, outages, restarts: orphan rows, repeated scans, forgotten releases? | none; a version is scanned once for each time it becomes the latest |
| `runnerjob_stream` | duplicates, honest counts, the status, the last word, termination, with failing and late POSTs | hold |
| `notifier_log` | the log, retries, removal of targets, termination, with a kill at any step | hold, but for the row of a POST that the kill cut off |
| `registry_fleet` | the cutoff against one lost and one slow call; restarts | kept; rejoin |
| `postgres_transactions` | interleaved transactions, rollbacks, deadlocks, retention, listings: the contract, the tables, does every call return? | hold |
| `sandbox_jobs` | any call failing before or after its effect, deadline, shutdown, a daemon that stops answering: leaks, unobserved workloads, hanging jobs or goroutines? | none, but for a job in `Launch` when the daemon stalls |
| `sensor_events` | partial registration, io_uring and system-call connects, overlap, full ring and channel, shutdown: wrong maps, swallowed or doubled connects, hidden names, a stuck stream? | none, but for connects hidden behind a system call without its own kprobe record |
| `lifecycle_restarts` | two migrating processes, crashes, dying runner, late POSTs: half migrations, missing configuration, pending runs without a job, overwritten results? | none; it comes up again and scans end |

**Bounds.**  Two runs, two fingerprints, at most two POSTs of a run and two concurrent
analyses suffice for every two-party race of `Analysis`: the storage calls of
different packages touch different rows.  `EventLimit` is 10, more than any run
posts.  `RunnerJob` has two jobs (a left-over event needs a next job) and queues of
one entry so that they overflow.  `Notifier` has two triggers and two attempts
(a first and a last one), with and without a threshold; `Watcher` two versions, so
that there is a "next" release, two moves of the tag (there and back), one add and one
outage or restart; `MaxTurns` is where the counter of scans stops and lies above what two
moves reach.  `Dispatcher` has two
jobs (which may be for one runner or for two); its invariants are proved for any
number.  `MaxLosses` = 1 is part of the claim of `registry_fleet`: two lost calls in
a row can evict a healthy runner, which then rejoins.  Symmetry is used for
fingerprints and, in `analysis_faults`, for callbacks, and in no liveness run.  `Postgres` has two callers, two baseline
keys and two rows per batch, the least that gives a lock cycle, a partly written
transaction and an id that a rollback burnt; three single statements suffice to
create a run, delete and cascade.  `Sandbox` has two jobs (a leak is seen by the
next), one fault anywhere and two removal attempts.  `Sensor` has two jobs that run,
so that records of one are read during the next, one that fails at its last prefix,
two calls of the workload on one destination, which is enough for a pair with an
unrelated record in it or after it, a ring of two and a channel of one so that both
fill up.  `Lifecycle` has
two migrations, two runs, two POSTs, and one crash, one fault and one console call at
any point.

Beyond the listed properties every module but the two abstract ones has a `TypeOK`
(`WatcherTypeOK`, `RegistryTypeOK`); all of them are proved.

**Deadlock** checking is off where the system may stop: bounded POSTs, jobs or
triggers are all done, or the runner has shut down or panicked.

**Fairness.**  Goroutines are scheduled, timers fire, and the HTTP calls between runner,
orchestrator, registry and webhook targets end by a timeout the code sets, hence weak
fairness of the steps they take.  The calls to Docker have none: in `Sandbox` a stalled
daemon never answers, and `JobEnds` says which calls then hold the runner.  `RunnerJob`
takes it as an assumption on the environment that `Launch` returns.  None is assumed
for runners that post, operators, publications, crashes or containers.  `Watcher`
needs strong fairness of the registry's answers, since a fetch may fail each time;
in `Postgres` the database executes what it was sent, hands a lock or a connection to a
waiter and breaks deadlocks, as PostgreSQL documents; in `Sandbox` Docker, until it
stalls, starts, moves and reaps containers, but a workload need not exit; in `Lifecycle` a supervisor starts
both programs again.  `Sensor` assumes nothing of the forwarder.
`dispatcher_one_poll` assumes none for poll timeouts, so it shows that the wake-up
suffices.

## 4. Proofs

TLAPS checks these for every value of the constants that satisfies the modules'
`ASSUME`s.

`DispatcherProofs`
* `TypeCorrect`: `Spec => []TypeOK`.  Its conjunct "a handler responds exactly while
  it holds a job" makes it inductive: `Respond` appends a job and never `NoJob`.
* `WakeupSafe`: `Spec => []NoLostWakeup`, assuming `OnePollPerRunner`, which the
  sequential main loop of a runner provides.  The invariant is inductive together with `TypeOK`.  The lemma
  `WakeupStep` goes through the actions: a poll parks only after it saw an empty queue
  (`PollCheck`), a job appended after that has not sent its wake yet (`QueueAppend`),
  sending it buffers one (`QueueSignal`), and only the poll itself could consume it
  (`PollWake`).  The last argument is where a second poll of the same runner breaks
  the theorem.
* `PlacesExact`: `Spec => []ExactlyOnePlace`, for any number of polls per runner.
  Counting places is not inductive, so `PlaceInv` spells it out: every place a job is
  found in belongs to its target (`Routed`), no queue holds a job twice and no two
  handlers hold one (`Unrepeated`), the kinds of place exclude each other
  (`Exclusive`), and a submitted job is in one of them (`Somewhere`).  A queue without
  repetitions is what makes taking its head remove the job from it.
* `Refines`: `Spec => ImplementsJobQueue`, assuming `OnePollPerRunner`.  The abstract
  queue of a runner is what its handler holds followed by the concrete queue; that is a
  sequence because there is one handler.  `QueueAppend` is the submission, `Respond` the
  delivery or drop of the first job, everything else a stutter.

`AnalysisProofs`.  The theorems state which of the model's disturbances they survive;
with each of the others TLC finds a counterexample (section 5), so no hypothesis can
be dropped.
* `TypeCorrect`: `TypeOK` relates a caller's step to the run it works on, which the
  later proofs need at every storage call.
* `Evidence` (`EvidenceHolds`), without hypotheses.  `StoreInv` says that ids are unique
  and below the sequence, that what an analysis has read is what the store has under
  that id, if anything, and that the event a row points to stays among the first
  `EventLimit` of its run: events are appended after it and pruned around it.  TLC checks
  it with a second analysis and retention (`analysis_restream`); overlap, failing calls and
  crashes are the proof's.
* `RetentionKeeps` (`FindingsOutliveRetention`), without hypotheses, from what each
  action may remove from `deviations`.
* `KnownBySeedOrPromote` (`KnownOnlyBySeedOrPromote`), without hypotheses: the copy of the
  baseline an analysis works on stays below the baseline (`BaseInv`), so what it takes for
  known and bumps is known already, and only one whose copy is empty seeds.  The copy may
  be stale: two analyses that both read an empty baseline both seed it (section 5).
* `PromotionAccepts` (`PromotionAcceptsWhatItClears`), for an operator who promotes only
  runs that are over (`~PromoteAnytime`).  That a run is over, `Over`, is stable; hence its
  deviations do not grow between the calls of the promotion, and `PromoteInv` carries
  "each one's event was read and is merged or suppressed" from call to call.
* `Unstacked` (`NotStacked`) without overlap and storage faults: one analysis per run
  (`OneCaller`), and between its delete and its write the run has no rows (`CleanInv`).
* `Alerted` (`FindingsAreAlerted`) without storage faults and crashes, but with overlap:
  `AlertInv` says that rows of a run that was not announced belong to an analysis that is
  still to announce it.
* `Unaccounted` (`NothingUnaccounted`) without overlap, faults, crashes and early
  promotion, for runs within the cap of `ListEventsByRun`: `AccountInv` says of a run
  without a POST or a timer on its way that the baseline or a finding has what its events
  show, or that the analysis under way has read it all at a step from which it will be
  merged or reported (`Stage`).  `RetiredInv` adds that retention only meets runs that
  are over.

`RunnerJobProofs`
* `TypeCorrect`, with the types in four groups.
* `FailureReported` (`FailureIsReported`): `FailInv` says that the watcher goroutine has
  set the status before it cancels the job.
* `ResultLast` (`ResultIsLast`): `LastInv` says that a run with a result has a streamer
  whose loop has exited and lies behind the current job.
* `StreamHonest` (`StreamIsHonest`): its parts are inductive only with an account of where
  events are.  An event exists in one place: the ring, the forwarder's hand, a queue, a
  batch, a POST that may still arrive, or what was accepted for a run (`OnceInv`); the
  events a run's streamer and the server hold are no more than `Send` accepted
  (`HeldInv`, with cardinalities); what was counted as sent was accepted (`SentInv`).

`SandboxProofs`
* `TypeCorrect`, `Observed` (`ObservedWhileRunning`) and `StrayFree` (`NoStray`).
  `SandboxInv` ties every container, cgroup and registration to the step of `runJob`
  whose deferred call will release it, or to a release that failed; that the cgroup
  is registered from before the create until after the remove is `WatchedInv`.

`NotifierProofs`
* `TypeCorrect`, `RetriesAreUsed` (`NoEarlyGiveUp`) and `LogSafe` (`LogHasTarget`).
  The inductive invariant `IInv` adds `Budget`: a goroutine that is to POST again has
  attempts left, and the slots of future triggers are untouched.  Without it neither
  the bound on attempts nor "the last failed row is attempt number `MaxAttempts`"
  is inductive.  `LogHasTarget` needs both the foreign key (`RecordStep`) and the
  cascade (the case of `Remove`).
* `LogComplete` (`LogTellsAll`): `Story` describes the rows of one delivery at every step
  of its goroutine; between the end of a POST and its row, and for ever after a kill there,
  the rows are one behind the attempts.

`PostgresProofs`
* `OpenTransactions`: `Spec => [](TypeOK /\ OpenTxOK)`, the inductive invariant.
  `OpenTxOK` says of an open transaction that its run exists, that a row it wrote is
  locked by it and still what the committed row calls for, that its ids are its own,
  and that its evidence is stored.  Without it a commit could not be shown to be the
  one step of `Store`: the value computed by an upsert is right at commit time only
  because the lock kept everybody else away from the row in between.
* `Refinement`: `Spec => ImplementsStore`.  `Store`'s variables are the committed rows,
  so the mapping is the identity: commits are the calls' effects, rollbacks and
  deadlock victims are `Fail`, everything inside a transaction is a stutter.
* `TablesSound` (`TablesAgree`) and `EvidenceIds` (`IdsAreForever`) are proved of
  `Store` (`Counts`, `References`) and carried over by `Refinement`.

`OrchestratorProofs`:
* `Migrations` (`MigrationsAtomic`): inductive with `KnownIsApplied`, "what a process
  takes for applied is applied", which survives the other process's migrations because
  nothing is ever taken back.  That no version is skipped needs the least unknown
  version to exist (`NextVersionIsFirst`, from the well-foundedness of `<`).
* `Configuration` (`ConfigInForce`): `ConfigInv` says the same of the two loading phases
  with the entries still to be written.
* `PendingRuns` and `FinalResults` (`PendingHasJob`, `ResultIsFinal`): `RunInv` adds that a
  POST somebody waits for belongs to a job on the runner, and that no POST of a settled
  run is left.  Without the latter `handleEvents` could overwrite the result.
* `LifecycleTypes`: `PostsCounted` says that the POSTs under way, waited for or given up, are
  no more than were sent, which is what bounds `orphans`.
* `WatcherTypes` and `ReleasesWatched` (`ReleasesAreWatched`, inductive with the types): the
  foreign key guards the insert, the delete cascades, and a stamp, being an `UPDATE`,
  revives no row.
* `ScannedOnce` (`OneScanPerRelease`): a version is `Due` while it was queued less often than
  it became the latest.  `OnceInv` says of a row nobody else has touched that the cycle's copy
  of it is current until it is polled (`CopyIsCurrent`), that nothing was queued too often and
  a tag that differs from the row is due (`QueuedInTurn`), that a version fetched is due unless
  the row already has it (`FetchedIsDue`), and that between stamp and submission the version is
  due (`StampedIsDue`).  It does not matter in which order the tag visits the versions.
* `NoneForgotten`: the safety half of `ScannedOrRefused`, without any condition on the row.
  A version that stands in `last_seen_version` is skipped by every later poll, so it must be
  accounted for: scanned, refused, waived, or about to be submitted by the watcher or the
  kickoff.  It is inductive together with the same statement about the cycle's copy
  (`CopyAccounted`), since a poll that finds its copy unchanged stamps the row and submits
  nothing; and what is accounted for stays so (`AccountedStays`), the restart included.
* `RegistryTypes` and `HealthyKept` (`HealthyIsKept`), under two conditions on the durations.
  With `Gap` the longer of heartbeat interval and heartbeat timeout, `LossesFit` is
  `Interval + MaxLosses * Gap + BeatTimeout <= Cutoff` and `RegistrationFits` is
  `RegTimeout <= Interval + Gap`.  `InTime` is the deadline that the argument keeps: the age
  of the entry, plus the time to the next call, plus what the losses still possible cost,
  plus one heartbeat timeout, is within the cutoff.  As time passes the first grows as the
  second shrinks; a lost call moves a gap from the third to the second.  The code's values
  (30 s, 10 s, 30 s, 90 s) satisfy both for one lost call (70 s) and not for two (100 s).
  `LossesFit` cannot be weakened: one unit less in `Cutoff` and TLC finds a living
  runner evicted (checked for `Interval`, `BeatTimeout`, `MaxLosses` = 6, 2, 1; 6, 2, 2; 3, 4, 2).

`SensorProofs`
* `FiltersAccount` (`HiddenIsKnown`): in `FilterInv` every marker of `connectDedup`
  is worth one system call not used yet (`alone + excess` counts those), and every name
  `tlsDedup` remembers was sent untagged.  It holds through expiry, loss and overlap, since
  those only remove markers.  It bounds what is hidden and does not exclude it (section 5).
* `MapsAreRight` (`MapsFollowJobs`): `MapsInv` keeps the current job's entries apart from
  those a failed delete left behind, so that taking them out restores the maps.
* `ConnectsCounted` (`OneEventPerConnect`): the count alone says nothing of the future, so
  `PairInv` looks at the order of records.  Between a system call's record, in the ring or
  already read (its marker is `pending`), and a later io_uring record of the destination
  lies the second record of the former (`Parted`), which uses the marker up; and that
  second record is in the ring or to come (`Followed`).  The proof showed that a connect
  cut off by `RemoveCgroup` leaves an unpaired record too.
* `TypeCorrect`, from the three invariants above.

Left to TLC are the liveness properties, which are out of the prover's reach:
`QueuedIsTaken`, `EveryPostSettles`, `ScannedOrRefused`, `JobEnds`, `DeliveryEnds`, `Rejoins`,
`EveryCallReturns`, `StreamEnds`, `ComesUp` and `EveryScanEnds`.  Several have a safety half
that is proved: `NoLostWakeup`, `NothingUnaccounted`, `NoneForgotten` and `PendingHasJob` say
that nothing is in a state from which no step would lead on.

## 5. Observations

Places where the code does something else than a comment or document says, or than a
reader might expect.  They were met while modelling; where a model shows one with other
constants, the constant and the property are given in brackets.

| Where | What |
|---|---|
| `differ/analyze.go:151` | an early analysis of half a stream flags the run as baseline and nothing clears the flag, so the findings of the rest are hidden from `fangs pending`; the README says "Any-deviation runs land in `fangs pending`" |
| `watcher/watcher.go:108` | a release is stamped before its scan is accepted: if no runner is registered it is never scanned (`refused` in `Watcher`) |
| `agent/events.go:137` | the final flush uses the context whose end triggered it, so its POST fails; "canceling it triggers a final flush" |
| `agent/events.go:83` | a send after `Close` panics (`crashed` in `RunnerJob`): the forwarder sends after releasing the lock |
| `core/dispatcher.go:47` | with two polls of one runner id a single buffered wake is not "sufficient": a job stays beside a parked poll until it times out [`RunnerOf` constant, `NoLostWakeup`] |
| `core/dispatcher.go:61` | a poll whose context has ended takes a job, and the job is lost with the connection [a step of `PollCheck` with `ctx` not live] |
| `core/dispatcher.go:26` | a restart forgets queued jobs; their runs stay pending (`lost` in `Lifecycle`) |
| `core/dispatcher.go:108` | run ids are the clock in nanoseconds; a clash would be ignored by `CreateRun`'s caller |
| `differ/analyze.go:136` | analyses that overlap (`Overlap`) leave two rows for a finding, or lose one [`NotStacked`, `NothingUnaccounted`] |
| `differ/analyze.go:83` | two analyses side by side may both find the baseline empty and seed it: the second one accepts its fingerprints into a baseline that is not empty any more |
| `sqlite.go:183` | with more events than `EventLimit` the later ones are never analysed [`EventLimit` = 1, `NothingUnaccounted`] |
| `postgres.go:431` | as many concurrent listings as the pool has connections wait for each other [`Pool` = 1 contradicts `PoolAssumption`] |
| `cli/baseline.go:103` | promoting a run that is still streaming clears findings it did not merge [`PromoteAnytime`, `PromotionAcceptsWhatItClears`] |
| `api/server.go:605` | a run is "done" from its first POST, and a POST that its client gave up on turns a failed run into a done one |
| `api/server.go:476` | a job is queued although `CreateRun` failed; its events and its result are then refused |
| `api/server.go:252` | three heartbeat intervals do not cover two lost calls and a slow third one: a living runner is evicted, and registers again [`MaxLosses` = 2, `HealthyIsKept`] |
| `config/config.go:146` | every storage error of an allow entry is logged as an existing entry (`excused` in `Lifecycle`) |
| `notifier/loader.go:45` | an empty notifiers file makes `LoadFromFile` index an empty slice |
| `storage/migrate.go:43` | the process that loses a migration race exits; its next start succeeds |
| `cli/package.go:83` | a poll between the insert and the stamp of `package add` queues the kickoff's scan as well |
| `cli/scan.go:78` | the help of `-runner` speaks of the first runner registered, the code uses the host name |
| `fangs-runner/main.go:91` | a record left in the ring buffer by one job is posted under the next run |
| `fangs-runner/main.go:392` | a job cut short by SIGTERM is reported as ok |
| `fangs-runner/main.go:219` | every run reports the cumulative drop counter, and the overview sums them |
| `fangs-runner/main.go:318` | the launch runs under the process's context: a long pull does not end with the job's deadline but uses it up, and a daemon or registry that stops answering holds the runner until SIGTERM [`Hanging` in `Sandbox`] |
| `sandbox/docker.go:98`, `:104`, `:116` | the removals in `Launch`'s error paths use a context that never ends: with a stalled daemon not even SIGTERM ends them |
| `api/server.go:587` | a failed `AppendEvents` is logged and the batch answered with 200: `events_emitted` counts events that are not stored |
| `watcher/watcher.go:112` | a `latest` tag that is moved back and forth again has the same version scanned once more (`turns` in `Watcher`) |
| `notifier/notifier.go:173` | a kill between a POST and its row leaves a delivered message the log does not know; the package comment says that the audit log records the last attempt |
| `agent/events.go:111` | dropped events leave no gap in the batch numbers |
| `sandbox/docker.go:92` | a container whose creation was not answered is leaked (`lost` in `Sandbox`); so is everything of a job when the runner is killed |
| `sandbox/docker.go:347` | a workload that exits before the first inspection fails its launch |
| `sensor/sensor.go:594` | a system-call connect without a kprobe record (UDP, or a repeated non-blocking call) and an io_uring connect to the same destination within the window become one event, although `sensor.go:119` says that the filter "never collapses two legitimate app-level connects to the same destination" (`HiddenIsKnown` bounds them); two overlapping pairs become three; a connect cut off by `RemoveCgroup` can hide an io_uring one of the next job with the same pid and destination (`disturbed` in `Sensor`) |
| `notifier/notifier.go:143` | a run analysed twice, or an answer that got lost, makes a target receive several webhooks; a restart leaves a log row that announces a retry that never comes |
| `notifier/notifier.go:133` | the Differ writes info, warn and crit, the notifier ranks low to critical: every threshold silences its target |

## 6. Not modelled

* The bytes of sensor records, the parsing of DNS and TLS payloads, and the
  normalisation and matching rules of the Differ: sequential string processing, which
  fingerprints, names and keys stand for here.
* Web UI, metrics, webhook texts and read-only listings: they change no state.  The
  ancestry walk of `lineage.go` is a page of its own that reads finished runs.
* TLS set-up, flag and YAML parsing, JSON encoding.
* SQLite's transactions statement by statement: the database lets one transaction
  write at a time, so a call is one step, as in `Store`.
* Docker, the kernel, npm and webhook targets are external; the models keep what the
  code sees of them.
* The sensor smoke test, a developer tool.

## 7. Plan

1. *(done)* Dispatcher with its abstract queue; ingest and analysis; watcher; runner
   job; notifier; registry.
2. *(done)* Storage contract and the PostgreSQL backend, with proofs; sandbox; sensor;
   start-up, migrations and the life of a run across restarts.
3. *(done)* Proofs: every safety property and action property that a run checks, every
   `TypeOK`, and both refinements.
4. Pure algorithms: the filter's matching, path normalisation, `ResolveRunPrefix`.
