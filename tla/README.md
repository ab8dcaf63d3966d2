# A TLA+ model of logs-cleaner

logs-cleaner is an agent that keeps the JSON logs of Docker containers small. It
walks `/var/lib/docker/containers`, truncates (or deletes) the logs over a
threshold, writes what it did to SQLite, and reports by HTTP, Prometheus, email,
Slack and Teams. The whole agent is one Go process; this directory models the
parts of it that keep state or decide something, checks them with TLC on small
instances, and proves their safety properties (all but one) and both refinements with
TLAPS.

All paths below are relative to `src/`.

## 1. Inventory

| Component | State | Operations | Talks to |
|---|---|---|---|
| Cleanup cycle, `internal/cleanup/cleaner.go` | `mu`, `lastResult`, the locals of a call | `New`, `Run`, `LastResult` (no caller) | log files, Docker, database |
| Policies, `internal/cleanup/policies.go` | none | `Apply` of truncate, delete, rotate, compress | log files |
| Process and pipeline, `cmd/agent/main.go` | where main is, the shutdown context | start-up, startup run, signal, shutdown; the pipeline closure | everything |
| Scheduler, `internal/scheduler/scheduler.go` | cron's entry and its running jobs | `Start`, `RunNow`, `Stop`, `NextRun` (no caller) | pipeline |
| History, `internal/storage/sqlite.go` | `cleanup_runs`, `container_cleans`, `log_size_snapshots` | `RecordRun`, `RecordLogSizeSnapshot`, `ListRuns`, `GetContainerCleanupCount`, `GetAggregateStats`, `GetTopContainersByCleanupCount`, `GetLogSizeHistory` | SQLite |
| Recommendations, `internal/reporting/recommendation.go` | locals of a call | `Analyze` | history |
| Docker client and insights, `internal/docker/` | none | `InspectByID`, `CollectInsights`, `CollectDockerSummary` | daemon |
| Metrics, `internal/metrics/` | Prometheus counters and gauges, `SelfMonitor` counters | `RecordRun`, `RecordDockerTelemetry`, `RecordServerTelemetry`, `Incr...`, `Snapshot` | - |
| HTTP server, `internal/server/` | requests in service | `Start`, `Shutdown`, `/health`, `/metrics`, `/api/history`, `/api/stats`, `/api/containers`, `queryInt` | history, metrics |
| Configuration, `internal/config/config.go` | the loaded `Config` | `MustLoad`, `Load`, `validate` | files, environment |
| Telemetry, `internal/telemetry/` | none | `Collect`, `CollectDocker`, `formatBytes` | /proc, Docker |
| Report and delivery, `internal/reporting/report.go`, `internal/email`, `internal/notification` | none | `Build`, `Send`, `Notify` | SMTP, webhooks |

How they interact. `main` opens everything, starts the HTTP server and cron, and
executes the pipeline once itself, under a context of 10 minutes. Cron executes
it again at every tick, in a new goroutine and under a context that never
expires. The pipeline calls `cleaner.Run`, and with its result updates the
metrics, asks for recommendations and delivers the report. Only `Run` is
serialised, by `mu.TryLock`; the rest of two pipelines may overlap. HTTP handlers
read the database and the metrics at any time. A signal makes main wait for
cron's jobs and then for HTTP requests.

What is hard, and what would make each part correct:

- **One cycle at a time**, in whatever way the last one ended; a panic must not
  leave the mutex locked, and a caller that is refused changes nothing.
- **Check and use far apart.** A log's size and its container's name are read in
  one loop and used in another, after a Docker call per container. In between the
  container writes, Docker rotates, the container is restarted or removed. Only
  oversized logs of containers that are not excluded may shrink.
- **Partial failure.** Any stat, inspection, truncation, snapshot or SQLite
  statement may fail. Every log must still be accounted for, the others must be
  cleaned, and the database must not hold half a run.
- **Deadline and crash** between the truncations and the record of the run.
- **Readers in motion**: `Analyze` asks one query per container while runs commit
  and rows leave the window.
- **Overlapping pipelines**: counters must count every run, gauges should show the
  last one, a report should show its own run, and no report may be lost without a
  trace.
- **Layers of configuration**: a file that is broken or not the first, a blank
  variable, a value from a layer nobody thought of.
- **Unsigned arithmetic** on readings that may be missing or inconsistent, and
  counts taken from two lists between which the daemon changes.
- **Shutdown**: no job may use the database after it is closed; requests should have
  their time to finish; the process should end.

PROJECT.json lists each of these hazards at the line where it bites.

## 2. Modules

| Module | What it is |
|---|---|
| `RunGate` | Abstract specification: what `Run` promises its callers. |
| `Cleaner` | The cleanup cycle and policies, with the host around them and the committed history. Refines `RunGate`. |
| `RunLog` | Abstract specification: what the history promises its readers, a log of whole runs. |
| `HistoryStore` | `RecordRun` statement by statement, and the API handlers that read. Refines `RunLog`. |
| `Agent` | main, scheduler, pipeline, metrics and HTTP shutdown, on top of `RunGate`. |
| `Reporting` | Insights, `Analyze`, the trend table and the deliveries, on top of `RunLog`. |
| `Configuration` | Files, environment, defaults, `Load` and `validate`. |
| `Telemetry` | Host readings, `formatBytes`, and the Docker summary. |
| `MCCleaner`, `MCHistory`, `MCReporting`, `MCConfiguration` | Constants and symmetries of the instances. |
| `CleanerProofs` | Theorems about the cycle: types, mutex, refinement, policy loop. |
| `CleanerSizeProofs` | Theorems about the cycle: what it does to the logs, and what it says it freed. |
| `CleanerRecordProofs` | Theorems about the cycle: what the history says of it. |
| `HistoryStoreProofs`, `AgentProofs`, `ReportingProofs`, `ConfigurationProofs`, `TelemetryProofs` | Theorems about the other modules. |

`Agent` and `Telemetry` need no MC module: their configurations give every
constant a value.

The two abstract specifications are where the parts meet. `Cleaner` is the only
thing `Agent` needs to know of a cycle, and it knows it as `RunGate`;
`HistoryStore` is the only thing `Reporting` needs to know of SQLite, and it knows
it as `RunLog`. Both refinements are checked and proved.

### Cleaner

`pc[p]` is where goroutine `p` is in `Run`; `run[p]` holds its local variables and
the `Result` it builds. The stages are those of the code: `discover`
(`discoverLogFiles`), `scan` (the loop of stat, inspection and snapshot, one
action per path), `Rank` (the sort and the top consumers), `process` and `apply`
(the policy loop; `ApplyStat` and `ApplyDone` are the two system calls of
`Apply`), `CollectInsights`, `RecordRun`, `Finish`. `Leave` is the deferred
unlock and is part of every action that returns or panics.

The host is external: `Grow`, `Rotate` (json-file rotation by Docker, which puts
an empty file in place), `Restart`, `Remove`. `held[f]` are bytes of a deleted
file that the daemon still has open; the auxiliary `written[f]` is all a container has
ever written. A log and its container are one value, as
Docker keeps one `<id>/<id>-json.log` per container, and the `**` walk
accepts no other name; a `log_glob` without `**` that matches several files of one
container is outside the model.

Abstractions:

- The walk of the directory is one step: a log created or removed during it could
  as well have been created or removed just after it.
- Stat, inspection and snapshot of one path are one step, but the deadline may also
  pass between the inspection and the snapshot: the entry then has its name and no
  snapshot (`ScanFile`). What the host does between them it can do just after them.
- The scan loop takes the paths in any order; the walk's order is that of the IDs,
  which carry no meaning.
- Sizes are small numbers. The threshold is compared as the code does, with `<`.
- The database is either open or its write fails; `DbMayFail` says whether a write
  may fail under a live context. A context that has expired fails every write and
  every inspection that comes after.
- `docker` and `db` are never nil, as main never passes nil.
- `size_mb`, image and duration are left out of the history's rows: no property
  tells them apart.

### HistoryStore

`tx` is the open transaction of `RecordRun`: what it has inserted so far
(`Begin`, `InsertRun`, one `InsertContainer` per entry, `Commit`). There is one
writer, because `Run` holds the mutex when it calls. `Rollback` is any failing
statement or an expired context; `Restart` is the death of the process and its
next start on the same file, perhaps under another `server_id`. Both leave the
committed tables alone, which is what SQLite provides. `clock` is what
`CURRENT_TIMESTAMP` gives to each statement.

`History`, `Stats` and `Containers` are the handlers `/api/history`, `/api/stats`
and `/api/containers` with the query each of them runs and any parameter a client
may send, a missing one, one that is no number, zero, negative, or too large
(`QueryInt`). `History` gives any result that `ORDER BY timestamp DESC LIMIT n`
allows, since rows of the same second come in any order. `answer` is what a client
was last told; its fields `of` and `server` are auxiliary. Readers are other
connections of the pool and see committed rows only (WAL).

`CleanedBy` is `SUM(logs_cleaned)`, written as the number of pairs of a run and one
of the logs it counts: a sum as the size of a set, which a proof can compare with
the number of rows.

`LogOf` is the refinement mapping to `RunLog`.

### Agent

`main` is where main is. `job[p]` is the step of the pipeline that goroutine `p`
executes next; `phase[p]` is its call of `Run`, which behaves as `RunGate` says.
`completed` numbers the runs in the order they end; `number[p]` is the one `p`'s
pipeline reports on; the auxiliary `rivals` are the runs whose pipelines had still
to set the gauges when the latest run ended. Four more auxiliary counters say what became
of the calls of `Run`: `cycles` have got the mutex, `errors` of them returned an error,
`panics` panicked, and `refused` calls were refused.
`CountRun` and `SetGauges` stand for the counters and the gauges of `Registry.RecordRun`. `Kill` is SIGKILL at any time, or SIGTERM before
`signal.NotifyContext`, that is, during start-up and the startup run.

Disabling email, notifications or the HTTP server removes steps that can already
pass without effect, so it needs no case of its own. A failure to listen is only
logged, and changes nothing here. `DeadlinePasses`: the 30 seconds of the shutdown pass
while main waits, in `Stop` for a tick or in `Shutdown` for a request; that the few
instructions between the two take 30 seconds is left out.

### Reporting

A pipeline `p` goes through `stage[p]`: `CleanupRun` is a whole cycle as the rest
of the pipeline sees it (the run it appends to `log`, one step by `RunLog`, and the
insights `CollectInsights` makes of the same containers). The run sees some of the logs; of
those, the ones in a member of `Large` are over the threshold, and some of them are
cleaned. The others, small, excluded or impossible to truncate, get their row too, with
`was_truncated = 0`, and in a dry run every row is such. `Ask` and `AskFails` are
the queries of `Analyze`, one for each name; `ListRuns` is the trend table; `Email`,
`NotifySlack` and `NotifyTeams` are the deliveries. Pipelines overlap: Cron
serialises nothing and `Run`'s mutex is free again after `CleanupRun`.

A container has three names: Docker's (`name`), its ID where the cleaner's
inspection failed (`id`), and 12 characters of it where the inspection of
`CollectInsights` failed (`short`). They are kept apart on purpose: a short name is
in no row. `Cleanups` are the rows a query of `Analyze` counts.

A message is accepted, refused, or arrives and is answered too late to count as
accepted. `config` ranges over the settings that make a difference: off, working,
enabled without a URL or a host, and a theme without a template. `missed` counts, as
an auxiliary, the reports a recipient never got.

### Configuration

`files[d]` is the `config.yaml` of directory `d` of the search path, absent, broken,
or with a value for some keys; `env[x]` a variable, unset, empty, or with a value.
`Start` is `MustLoad`: viper reads the first file found, `Known` are the keys
`Unmarshal` asks for, `Lookup` is viper's order of layers, and a bad value is
refused by the decoder (`Typed`) or by `validate` (`Validated`). Between two starts
somebody edits files and variables. Keys stand for their like: five kinds differ in
having a default, a short variable, a type or a check. viper is external and is
modelled by what the calls in `config.go` make it do.

### Telemetry

`ReadMemInfo` and `ReadDiskUsage` take any two numbers a reading may give, 0 for one
that is missing, and subtract them as `uint64`, modulo `Modulus`. `Exponent` and
`Divisor` are the two results of the loop of `formatBytes`, the second multiplied up
as a `uint64`; `Scale` is what it begins with and returns. `ListVolumes` and `ListAllContainers` are the two calls of
`CollectDockerSummary` that are combined into one number; each may fail, and the
daemon creates and removes volumes and containers in between.

## 3. Runs

Passing runs:

| Run | Instance | Shows |
|---|---|---|
| `Cycle` | one call; two logs of up to 3 units, threshold 2, one of an excluded container whose log Docker rotates; truncate, delete, rotate, dry run and malformed glob; 2 host events; SQLite may fail | a container known by name to be excluded is untouched (`ExcludedIsSpared`); every log has its outcome (`EverythingAccounted`); totals agree with rows (`TotalsMatchRows`); truncation reports no more than it freed (`ReclaimedWasFreed`); logs shrink only by policy and only over the threshold (`ShrinksOnlyByPolicy`) |
| `Overlap` | two goroutines, two calls, one crash; one log of up to 2 units that Docker rotates, threshold 1; truncate, delete and malformed glob; 2 host events; fairness | cycles exclude each other (`MutualExclusion`); what was done is in the history unless the context expired (`RecordedUnlessExpired`); snapshots cover the history (`SnapshotsCoverHistory`); all runs together report no more as reclaimed than was ever written (`ReclaimedOnce`); `Run` refines `RunGate` (`ImplementsGate`); a run with a deadline gives the lock back (`DeadlinedRunEnds`) |
| `History` | two servers, two names, 2 runs, clock to 2, windows to 2, limit 1, one failure or restart | runs are whole (`RunsAreWhole`); the newest are listed (`NewestListed`); nothing a client was told is taken back (`WhatWasReadStays`); the three handlers agree (`FrequenciesWithinRuns`); the transactions refine `RunLog` (`ImplementsRunLog`) |
| `Agent` | startup job, two cron goroutines, 2 ticks, one request, fairness | `NoJobOutlivesStop`; what became of every call of `Run`, panics and refusals included, is known at every moment (`OutcomesCounted`); gauges lag only behind a rival (`GaugesLagOnlyByOverlap`); `StartupEnds`; `QuietShutdownEnds` |
| `Reports` | two pipelines, two containers, the log of one of them over the threshold, 3 runs counting one of an earlier `server_id`, trigger 2, clock to 2, one fault, three configurations | `RecommendationsAreBacked`; `NoneMissed`; a report shows its own run (`OwnRunInTrend`); lost reports are counted (`LossesAreCounted`) |
| `Settings` | a key of each of five kinds, two directories, three edits | `NoFileIsIgnored`; a panic has a cause in force (`PanicsForCause`) |
| `Telemetry` | sizes 0, 4, 16 and 8191 in a register of 13 bits, unit 4, two volumes, two containers, three changes of the daemon | `NothingWraps`; `SuffixFits`; `SummaryIsPossible`; `UnusedIsExact` |

Each run but `Overlap` also checks its module's type invariant; `Cycle` has it for `Overlap`.

Runs that TLC refutes, each against a sentence of the documentation or a comment:

| Run | Refuted | What happens |
|---|---|---|
| `Exclusion` | `ExcludedNeverTruncated` | The inspection of an excluded container fails, its entry is named by the ID, and its log is truncated (README.md:88, "Never truncate these"). |
| `Unrecorded` | `CompletedRunIsRecorded` | A log is truncated, then the 10 minutes end, then `RecordRun` fails with the context; the run completes and is not in the history (README.md:16, "Persistent run history"). |
| `HungTick` | `EveryRunEnds` | A tick waits for Docker without a deadline and keeps the mutex (scheduler.go:69). |
| `NeverTruncated` | `RecommendedWereCleaned` | A container whose log never reaches the threshold is scanned by two runs, both of its rows have `was_truncated = 0`, and it is recommended as "cleaned" (recommendation.go:26). |
| `EnvIgnored` | `EverySettingFromEnv` | `AGENT_EMAIL_SMTP_HOST` is set, no file has the key, and the setting stays empty (README.md:74, "All settings can be overridden"). |

### Bounds

In `Cycle` two logs let one be excluded, fail or be larger than the other, which is all the
policy loop relates; the properties of the loop are proved for any number. Three
units with threshold 2 give a log below, at and above it, and room for a write
between any two steps. Two goroutines and two calls are the least that overlap,
follow one another, or have one refused during the other; the properties of the
mutex are proved for any number. One crash puts a restart between two cycles.
`Overlap` has one log, as it is about the calls: what logs have to do with each other is
the matter of `Cycle`. Its two host events let the container write to, or Docker rotate, a
log that the first run has truncated or deleted before the second finds it.

In `History` two runs and a limit of one leave a run out; a clock that goes to 2
puts a row inside and outside a window of 1, and two rows into the same second; two
servers let a restart change the ID between two runs. `RunsAreWhole` and the
refinement are proved for any number. In `Reports`, trigger and window are passed,
missed and lost with three runs; one log over the threshold and one below give rows of
both kinds in one run; two pipelines are the least that overlap; one fault
is one failing inspection, query, record or delivery, and more faults of
one kind only repeat it. Three edits give a key a value in a file and in both of its
variables, or a value in each directory and a variable, or break the first file after
the second was written. Three jobs let two ticks overlap each other and the startup
job. Telemetry's register holds exactly six powers of its unit and a remainder, as a
`uint64` holds six powers of 1024, so the last suffix is reached.

Symmetry is used in `History` (servers; names) and `Reports` (pipelines), where neither
the definitions nor the properties tell the members apart and no liveness is checked.

The passing runs' safety properties are also proved without these bounds (section 4), all
but `ReclaimedOnce`. What the instances add to that is that the interesting cases happen,
and the liveness properties.

`MaxSize`, `MaxCalls`, `MaxCrashes`, `MaxEvents`, `MaxRuns`, `MaxFails`,
`MaxFaults`, `MaxClock`, `MaxEdits` and `MaxTicks` bound what has no bound in the
code. Deadlock is not checked because the bounds, and the end of the process, make
every instance stop.

### Fairness

- Goroutines are scheduled, and file and SQLite calls return: `WF(Work(p))`.
- A Docker call returns if its context expires: `WF(AskDocker(p))` for the startup
  goroutine only. The client has no timeout and a tick uses
  `context.Background()`, so nothing is assumed for ticks; `HungTick` is the
  consequence.
- In `Agent`, main moves, time passes, and the startup job moves, by the same
  deadline. Nothing is assumed of ticks, HTTP clients, or signals.
- Nothing is assumed of the host.

## 4. Proofs

All theorems hold for every value of the constants that satisfies the named
assumptions of the module: any number of goroutines, logs, jobs, servers, keys,
volumes, and any bounds.

The assumptions are those the modules name: the sets are finite where the program's
are, names are distinct where Docker's are, thresholds, windows and limits are
integers of the range `validate` or the caller ensures, the bounds are natural
numbers, and the configurations considered are configurations.

The proofs about `Cleaner` build on each other: `CleanerRecordProofs` extends
`CleanerSizeProofs`, which extends `CleanerProofs`.

`CleanerProofs` proves, for any goroutines, logs, names, configurations and
bounds that satisfy the named assumptions of `Cleaner` (log names are finite, a
name belongs to one container and is not an ID, thresholds are integers):

| Theorem | States |
|---|---|
| `TypeCorrect` | `Spec => []TypeOK` |
| `MutexHolds` | `Spec => []MutualExclusion` |
| `RunImplementsGate` | `Spec => ImplementsGate`: `Run` refines `RunGate` |
| `AllAccounted` | `Spec => []EverythingAccounted` |
| `ExcludedAreSpared` | `Spec => []ExcludedIsSpared` |

The argument:

- `TypeOK` is not inductive: `ApplyDone` indexes `size` with `run[p].cur`, which
  may be `None`. `TypeInv` adds that it is a log at stage `apply`.
- `MutualExclusion` is not inductive: it does not tie the stage to the lock.
  `LockInv` says that a goroutine is inside `Run` exactly if it holds the lock;
  this is where it matters that the unlock is deferred on every path.
- The refinement follows from `LockInv`: a step of the cycle is a `Start`,
  `Reject`, `End`, `Return` or `Crash` of the gate or leaves `phase` alone, and
  `Start` needs that nobody is inside when the lock is free.
- The policy loop needs `PolicyInv`: at each stage, what has been handled is
  exactly the eligible part of what has been visited, and scanned, unreadable and
  still-to-scan logs are disjoint. `EverythingAccounted` is its consequence when the
  loop ends.
- `ExcludedIsSpared` adds that no recorded row calls an excluded container
  truncated; that a handled entry does not carry an excluded name comes from
  `PolicyInv`.

`CleanerSizeProofs`:

| Theorem | States |
|---|---|
| `OnlyPolicyShrinks` | `Spec => ShrinksOnlyByPolicy` |
| `ReclaimedIsTrue` | `Spec => []ReclaimedWasFreed` |

A log's size is read in the scan loop, read again by `Apply`, and changed in a third
step. That the log is over the threshold still at the third is no invariant of one
step: `SizeInv` says, of every goroutine inside `Run` and every log it has scanned and
not truncated, that the log is no smaller than either reading, or gone with its
container. Logs that Docker rotates are exempt, and that is the only exemption needed.
It is kept because nobody but the holder of the lock changes a size downwards
(`ApplyKeepsSizes`, which needs `LockInv`) and the host only appends or removes
(`HostKeepsSizes`). Then `ShrinkStep` finds the one step of `Next` that makes a log
shorter, and `ApplyFrees` that what it adds to `reclaimed` is no more than what it adds
to `freed`.

`CleanerRecordProofs`:

| Theorem | States |
|---|---|
| `TotalsAgree` | `Spec => []TotalsMatchRows` |
| `RunsAreRecorded` | `Spec => []RecordedUnlessExpired` |
| `SnapshotsComeFirst` | `Spec => []SnapshotsCoverHistory` |

- `TotalsMatchRows` speaks of rows in the history, which may be named by Docker or by
  ID. `CountInv` keeps the counter of a run equal to the number of logs it truncated,
  and `TruncatedRows` puts these in a one-to-one relation with the marked rows, since
  no two entries of a run have the same name (`EntryNamesDiffer`).
- `RecordedUnlessExpired` looks at a run that has ended; `RecordedInv` says the same
  from the moment `RecordRun` has returned. It is kept by the other goroutines because
  the history is only appended to (`HistoryGrows`).
- `SnapshotsCoverHistory` compares two counts that grow at different times.
  `SnapshotInv` adds that a cycle which has scanned a log, has not recorded its run and
  has not expired, is one snapshot ahead. A second such cycle would break it: there is
  none, by `LockInv` (`AheadHasLock`).

`HistoryStoreProofs`:

| Theorem | States |
|---|---|
| `StoreTyped` | `Spec => []TypeOK` |
| `RunsStayWhole` | `Spec => []RunsAreWhole` |
| `StoreImplementsLog` | `Spec => ImplementsRunLog`: `RecordRun` refines `RunLog` |
| `NewestAreListed` | `Spec => []NewestListed` |
| `AnswersStay` | `Spec => []WhatWasReadStays` |
| `FrequenciesAreRuns` | `Spec => []FrequenciesWithinRuns` |

`RunsAreWhole` speaks of committed rows only. `TxSound` says what the open
transaction holds: rows of different containers of its input, with the id of its
run, not older than it, truncated as the input says. At `Commit` these rows
correspond one to one to the input's containers (`NamedOnce`), which gives the
count; the id is new (`CommitEffect`), so that rows of older runs keep their run. The
refinement needs both, and that no run is from the future (`InThePast`).

What the handlers answer needs `ReadInv`: besides the above, that the runs are in the
order of their timestamps, that a run has one row per name, and that the tables are
finite (`TablesInv`). `HistoryTells`, `StatsTells` and `ContainersTell` show that an
answer is true when it is given, `AnswerKept` that no step makes it false, because
committed runs and rows stay (`TablesGrow`). `/api/stats` adds up `logs_cleaned`
while the property counts rows; `CleanedCounted` relates the two, run by run, through
`RunsAreWhole`. A frequency counts rows while the property counts runs;
`ContainersTell` maps each row to its run, injectively as names are unique in a run.

`AgentProofs`:

| Theorem | States |
|---|---|
| `AgentTyped` | `AgentSpec => []TypeOK` |
| `JobsEndFirst` | `AgentSpec => []NoJobOutlivesStop` |
| `GaugesAreRecent` | `AgentSpec => []GaugesLagOnlyByOverlap` |
| `AllCounted` | `AgentSpec => []OutcomesCounted` |

`Orderly` ties where main is to which jobs may be in progress; that main executes
the startup job itself, and `Stop` waits for the others, is all there is between a
pipeline and a closed database. `Fresh` says of every pipeline that still has to set
the gauges that it carries the latest run or a rival. `OutcomesCounted` is three balances:
results returned are counted or in a pipeline about to count them (`UncountedResults`),
likewise errors and refusals (`UncountedErrors`), and cycles have returned, panicked or are
executing (`Running`). Each is the size of a set of pipelines, of any number, that a step
changes by one pipeline (`CallAddsUp`, `EndAddsUp`, `ErrorIsCounted`, `ResultIsCounted`).

`ReportingProofs`, for any number of overlapping pipelines and containers, any window,
trigger count and length of the trend table:

| Theorem | States |
|---|---|
| `ReportingTyped` | `Spec => []TypeOK` |
| `EveryRecommendationIsBacked` | `Spec => []RecommendationsAreBacked` |
| `NoDueContainerMissed` | `Spec => []NoneMissed` |
| `TrendShowsOwnRun` | `Spec => []OwnRunInTrend` |
| `EveryLossIsCounted` | `Spec => []LossesAreCounted` |

`ReportInv` says of each pipeline on its own what it has gathered (`PipelineInv`), and
of the log that a run lists a name once, so that a number of rows is a number of runs
(`CleanupsCounted`).

- A step of one pipeline is for another at most a run that is appended
  (`OthersStay`): the runs that back a recommendation can only become more
  (`BackingGrows`), a container that is due stays due as long as the clock stands still
  (`DueGrows`), and an index of the log keeps its run (`LogGrows`). The clock only takes
  containers out of `due` (`TickStep`).
- `NoneMissed` is not inductive: it says nothing while Analyze is at work. `DueNow` and
  `NoneForgotten` say that what is due is due by the present log, and that a due
  container is yet to be asked about, has been recommended, or its query failed.
- `OwnRunInTrend` compares runs by their indices in the log; `RunsThere` says that
  these exist.
- `LossesAreCounted` is inductive with the types: `FailureCounted` and `LossNext` show
  that a delivery adds to `missed` only what it adds to the counter in the same step,
  but for the two exceptions.

`ConfigurationProofs`:

| Theorem | States |
|---|---|
| `ConfigurationTyped` | `Spec => []TypeOK` |
| `FilesAreHeeded` | `Spec => NoFileIsIgnored` |
| `PanicsAreJustified` | `Spec => PanicsForCause` |

The last two rest on the first file of the search path existing and being unique
(`FirstPosition`, from the well-foundedness of the naturals).

`TelemetryProofs`:

| Theorem | States |
|---|---|
| `TelemetryTyped` | `Spec => []TypeOK` |
| `NumbersFit` | `Spec => []NothingWraps` |
| `CountsArePossible` | `Spec => []SummaryIsPossible` |
| `UnusedAreCounted` | `Spec => []UnusedIsExact` |
| `SuffixesFit` | `Spec => []SuffixFits` |

`UnusedIsExact` needs that Docker keeps every volume that is mounted (`Mounted`), and
what has been gathered at each step (`Gathered`).

`SuffixFits` is about a loop, modelled by two recursive functions of a number. The
library's theorems on recursion and induction take an operator, which the provers do
not instantiate, so both are done here with sets. `LoopDefined` shows that a loop
which divides until its number is less than a unit computes a function: functions up to
a number exist (`FollowsSomeWay`) and agree (`FollowsOneWay`), each because a set of
counterexamples would have a least element (`LeastElement`, from the well-foundedness of
the naturals). `DivisorFits` is the invariant of the loop: the divisor is at most the
number of bytes, which is why it never wraps around, and the number left is less than a
unit. `ExponentFits` counts the passes for six powers of the unit; that there are no
more is the assumption `WordAssumption`, which holds of 2^64 and 1024.

Only model-checked:

- Liveness (`DeadlinedRunEnds`, `StartupEnds`, `QuietShutdownEnds`), which needs
  ENABLED and fairness.
- `ReclaimedOnce`, which adds up over all runs and all logs: the sums are folds over finite
  sets, and a proof needs induction on them.

The five properties TLC refutes are refuted on an instance, and no theorem is about
them.

No module declares a RECURSIVE operator.

## 5. Not modelled

- Report wording, templates, mail and webhook payloads, log output, JSON: functions
  of data without state, and no property is about their layout.
- HTTP routing, authentication, `/health` and `/metrics`: no state of their own.
- Registration of metrics, and the gauges of telemetry, which every pipeline sets
  to what it has read.
- Host name, address, OS, uptime, load, versions and image counts: single readings
  shown as they come.
- `GetLogSizeHistory`: the only caller passes a nil database, so the growth rate is
  always 0. `LastResult` and `NextRun` have no caller.
- The PRAGMAs of `New`: `busy_timeout` and `foreign_keys` are set on one connection
  of the pool only; with one writer and no deletions nothing here depends on them.
- A container renamed during a scan: names are fixed in `Cleaner` and `Reporting`.

Observations that are not runs:

- `cleaner.go:192` cleans a log of exactly `threshold_mb`; README.md:84 says
  "larger than this".
- Under `delete`, the size of a log that the daemon keeps open is reported as
  reclaimed although the space is not free (`held` in `Cleaner`; the help text is
  at metrics/prometheus.go:52).
- An overlapping older pipeline may set the gauges of the last run after the newer
  one (metrics/prometheus.go:64); `GaugesLagOnlyByOverlap` says how far they lag.
- `main.go:80-88` counts Docker failures by errors that `Collect` and
  `CollectDocker` never return: the self-monitor's Docker counter (README.md:18)
  stays 0, and where a Docker list fails its numbers are shown as 0.
- `main.go:183` starts the 30 seconds of the shutdown before `sched.Stop()`, which
  waits for a running tick without limit; nothing may be left for draining
  (api.go:84). `Agent` has these executions; no property is about them.
- A cycle that panics is recovered and logged, but is in no counter (`panics` in
  `OutcomesCounted`); metrics/prometheus.go:40 speaks of all cycles executed.
  `insights.go:84` panics if a directory name has fewer than 12 characters.
- A container whose second inspection fails is asked about by 12 characters of its ID, a
  name no row has, and is not flagged in this report (`NoneMissed` makes the exception).
- A run that is refused because another is in progress counts as a cleanup error
  (main.go:73).
- An enabled webhook without a URL sends nothing and reports nothing; a theme
  without a template is only logged (`LossesAreCounted` makes the two exceptions).
- `nextRun` in the pipeline is always the zero time.
- Without a `MemAvailable` line all memory counts as used (telemetry/server.go).
- README.md:64 mounts `/etc/logs-cleaner/config.yaml`; `config.go:139` reads
  `/etc/docker-cleanup-agent/`.
- A blank variable overrides nothing, so a setting of a file cannot be emptied by
  the environment.

## 6. Plan

1. Done: `RunGate`, `Cleaner`, `RunLog`, `HistoryStore`, `Agent`, `Reporting`,
   `Configuration`, `Telemetry`; every safety property of a passing run but
   `ReclaimedOnce`, and both refinements, as theorems.
2. Theorems the runs do not state: that the properties of `Reporting` hold of a history
   that `HistoryStore` produces, and those of `Agent` of the calls of `Cleaner`, by way
   of the refinements.
3. The part of the liveness arguments that is safety: that a measure of what a cycle
   has still to do decreases with each of its steps.
4. `ReclaimedOnce` as a theorem, from an account of each log: what was reported of it, what
   it holds, and what the daemon keeps of deleted files are together no more than what was
   written.
