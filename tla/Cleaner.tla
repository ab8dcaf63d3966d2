------------------------------ MODULE Cleaner ------------------------------
(***************************************************************************)
(* The cleanup cycle: cleaner.Run and the cleanup policies, with the       *)
(* container logs it works on and the history it writes.                   *)
(*                                                                         *)
(* Run is called by several goroutines (the startup run and one per cron   *)
(* tick).  It takes a mutex with TryLock, walks the log directory, reads   *)
(* each log's size and asks Docker for the container's name, ranks the     *)
(* logs by size, applies the policy to the oversized ones that are not     *)
(* excluded, asks Docker about the containers again, and writes the run to *)
(* SQLite.  Containers keep writing, Docker may rotate a log or remove a   *)
(* container, a Docker or SQLite call may fail, the caller's context may   *)
(* expire, and the process may die, all between any two of those steps.    *)
(*                                                                         *)
(* A log is identified with its container: Docker keeps one                *)
(* <id>/<id>-json.log per container, so the path f also stands for the     *)
(* container ID that ExtractContainerID reads off it.  Sizes are small     *)
(* numbers, one unit standing for some megabytes.                          *)
(***************************************************************************)
EXTENDS Integers, Sequences, FiniteSets, FiniteSetsExt

CONSTANTS
  Procs,         \* goroutines that call Run
  Deadlined,     \* those whose context has a deadline (the startup run)
  Files,         \* log files, and the IDs of the containers writing them
  Names,         \* container names
  NameOf,        \* NameOf[f]: the name Docker has for container f
  Excluded,      \* cleanup.excluded_containers, a list of names
  ShortIds,      \* files whose directory name has fewer than 12 characters
  Rotating,      \* containers whose log Docker itself rotates
  Threshold,     \* cleanup.threshold_mb
  TopConsumers,  \* cleanup.top_consumers
  Configs,       \* the configurations the agent may have been started with
  DbMayFail,     \* may a SQLite write fail although its context is alive?
  MaxSize,       \* bound: units a log or an unlinked log may hold
  MaxCalls,      \* bound: calls of Run
  MaxCrashes,    \* bound: deaths of the process
  MaxEvents,     \* bound: events at the host (writes, restarts, removals)
  None

Modes == {"truncate", "delete", "rotate", "compress"}

Config == [dryRun : BOOLEAN, mode : Modes, badGlob : BOOLEAN]

ASSUME ProcsAssumption == /\ Deadlined \subseteq Procs
                          /\ None \notin Procs
ASSUME FilesAssumption == /\ IsFiniteSet(Files)
                          /\ None \notin Files
                          /\ ShortIds \subseteq Files
                          /\ Rotating \subseteq Files
\* Docker keeps container names unique, and no name is a container ID.
ASSUME NamesAssumption == /\ NameOf \in [Files -> Names]
                          /\ \A f, g \in Files : NameOf[f] = NameOf[g] => f = g
                          /\ Names \cap Files = {}
                          /\ Excluded \subseteq Names
ASSUME ConfigsAssumption == Configs \subseteq Config
ASSUME NumbersAssumption == /\ Threshold \in Int
                            /\ TopConsumers \in Int
                            /\ MaxSize \in Nat
                            /\ MaxCalls \in Nat
                            /\ MaxCrashes \in Nat
                            /\ MaxEvents \in Nat
                            /\ DbMayFail \in BOOLEAN

VARIABLES
  config,      \* cleanup mode, dry run and glob, fixed when the agent starts
  \* The host: container logs and the Docker daemon.
  size,        \* size[f]: length of the file at path f, Absent if none
  held,        \* held[f]: bytes of f unlinked while its container has it open
  live,        \* live[f]: does container f exist?
  written,     \* auxiliary: written[f]: units container f has ever written
  \* The agent process.
  lock,        \* cleaner.mu: the goroutine holding it, or None
  pc,          \* pc[p]: where p is in Run, or how its last call ended
  run,         \* run[p]: the local variables and the Result of p's call
  lastResult,  \* cleaner.lastResult
  \* The database.
  history,     \* committed cleanup_runs, with their container_cleans
  snapshots,   \* snapshots[f]: rows of log_size_snapshots for container f
  \* Bounds.
  calls, crashes, events

hostVars == <<size, held, live, written>>
dbVars == <<history, snapshots>>
boundVars == <<calls, crashes, events>>
vars == <<config, hostVars, lock, pc, run, lastResult, dbVars, boundVars>>

Absent == -1

----------------------------------------------------------------------------
(* The local state of one call of Run.                                     *)

\* Stages of Run between TryLock and the deferred Unlock.
Inside == {"discover", "scan", "process", "apply", "record", "finish"}

Endings == {"ok", "error", "panic"}

Stages == {"idle", "already"} \cup Inside \cup Endings

RunState == [
  expired   : BOOLEAN,            \* the context's deadline has passed
  todo      : SUBSET Files,       \* discovered paths not yet scanned
  scanned   : SUBSET Files,       \* entries: paths whose os.Stat succeeded
  esize     : [Files -> Nat],     \* entry sizes, as scanned
  named     : SUBSET Files,       \* entries whose container was inspected
  top       : SUBSET Files,       \* result.TopConsumers
  pending   : SUBSET Files,       \* entries the policy loop has yet to visit
  cur       : Files \cup {None},  \* the file policy.Apply is working on
  curSize   : Nat,                \* its size when Apply looked
  truncated : SUBSET Files,       \* entries with WasTruncated
  statErrs  : SUBSET Files,       \* result.Errors of phase "stat"
  truncErrs : SUBSET Files,       \* result.Errors of phase "truncate"
  cleaned   : Nat,                \* result.LogsCleaned
  reclaimed : Nat,                \* result.SpaceReclaimedMB
  freed     : Nat]                \* auxiliary: disk space really given back

FreshRun == [
  expired |-> FALSE, todo |-> {}, scanned |-> {},
  esize |-> [f \in Files |-> 0], named |-> {}, top |-> {},
  pending |-> {}, cur |-> None, curSize |-> 0, truncated |-> {},
  statErrs |-> {}, truncErrs |-> {}, cleaned |-> 0, reclaimed |-> 0,
  freed |-> 0]

\* The name an entry carries: Docker's, or the container ID if the
\* inspection failed.
EntryName(r, f) == IF f \in r.named THEN NameOf[f] ELSE f

\* A row of cleanup_runs together with the container_cleans that refer to
\* it: one for every entry, whatever was done to it.
RunRow(r) == [
  dryRun     |-> config.dryRun,
  cleaned    |-> r.cleaned,
  reclaimed  |-> r.reclaimed,
  errors     |-> r.statErrs \cup r.truncErrs,
  containers |-> {[name |-> EntryName(r, f),
                   wasTruncated |-> f \in r.truncated] : f \in r.scanned}]

RunRowType == [
  dryRun : BOOLEAN, cleaned : Nat, reclaimed : Nat, errors : SUBSET Files,
  containers : SUBSET [name : Names \cup Files, wasTruncated : BOOLEAN]]

Init ==
  /\ config \in Configs
  /\ size \in [Files -> 0..MaxSize]
  /\ held = [f \in Files |-> 0]
  /\ live = [f \in Files |-> TRUE]
  /\ written = size
  /\ lock = None
  /\ pc = [p \in Procs |-> "idle"]
  /\ run = [p \in Procs |-> FreshRun]
  /\ lastResult = None
  /\ history = << >>
  /\ snapshots = [f \in Files |-> 0]
  /\ calls = 0
  /\ crashes = 0
  /\ events = 0

----------------------------------------------------------------------------
(* Run, step by step.                                                      *)

Goto(p, stage) == pc' = [pc EXCEPT ![p] = stage]

\* Mutant: the unlock is not deferred, and a return on an error skips it.
LeaveLocked(p, ending) ==
  /\ Goto(p, ending)
  /\ lock' = IF ending = "ok" THEN None ELSE lock

\* Run returns or panics: the deferred mu.Unlock() runs on every path.
Leave(p, ending) ==
  /\ Goto(p, ending)
  /\ lock' = None

\* Mutant: nobody looks at the mutex.
MutexIgnored == TRUE

MutexFree == lock = None

\* mu.TryLock() succeeds.
TryLock(p) ==
  /\ pc[p] = "idle" /\ calls < MaxCalls
  /\ MutexFree
  /\ lock' = p
  /\ Goto(p, "discover")
  /\ calls' = calls + 1
  /\ UNCHANGED <<config, hostVars, run, lastResult, dbVars, crashes, events>>

\* mu.TryLock() fails: return ErrAlreadyRunning.
Reject(p) ==
  /\ pc[p] = "idle" /\ calls < MaxCalls
  /\ ~MutexFree
  /\ Goto(p, "already")
  /\ calls' = calls + 1
  /\ UNCHANGED <<config, hostVars, lock, run, lastResult, dbVars, crashes, events>>

\* What discoverLogFiles finds: the logs there are.  A file created or removed
\* during the walk is one created or removed just after it.
Discovered == {f \in Files : size[f] # Absent}

\* discoverLogFiles and its only error, a malformed glob.
Discover(p) ==
  /\ pc[p] = "discover"
  /\ \/ /\ config.badGlob
        /\ Leave(p, "error")
        /\ UNCHANGED run
     \/ /\ ~config.badGlob
        /\ Goto(p, "scan")
        /\ run' = [run EXCEPT ![p].todo = Discovered]
        /\ UNCHANGED lock
  /\ UNCHANGED <<config, hostVars, lastResult, dbVars, boundVars>>

\* Mutant: the error of os.Stat is dropped.
StatNeverFails(f) == FALSE

\* os.Stat fails: the log is gone.
StatFails(f) == size[f] = Absent

\* One iteration of the scan loop when os.Stat fails.
ScanMissing(p, f) ==
  /\ pc[p] = "scan" /\ f \in run[p].todo
  /\ StatFails(f)
  /\ run' = [run EXCEPT ![p].todo = @ \ {f}, ![p].statErrs = @ \cup {f}]
  /\ UNCHANGED <<config, hostVars, lock, pc, lastResult, dbVars, boundVars>>

\* Mutant: only the logs about to be cleaned get a snapshot.
SnapshotIfOversized(f) ==
  [snapshots EXCEPT ![f] = IF size[f] >= Threshold THEN @ + 1 ELSE @]

\* db.RecordLogSizeSnapshot.
WithSnapshot(f) == [snapshots EXCEPT ![f] = @ + 1]

\* One iteration of the scan loop: stat, inspect, snapshot.  Inspecting
\* fails if the container is gone, the context has expired or the daemon
\* does not answer, and the entry is then named after the container ID.  The
\* context may expire between the two calls; a failed snapshot is ignored.
ScanFile(p, f) ==
  /\ pc[p] = "scan" /\ f \in run[p].todo
  /\ ~StatFails(f)
  /\ \E inspected, stored, expired \in BOOLEAN :
       /\ inspected => live[f] /\ ~run[p].expired
       /\ expired # run[p].expired => expired /\ p \in Deadlined
       /\ stored => ~expired
       /\ ~stored => expired \/ DbMayFail
       /\ run' = [run EXCEPT ![p].todo = @ \ {f},
                             ![p].expired = expired,
                             ![p].scanned = @ \cup {f},
                             ![p].esize[f] = size[f],
                             ![p].named = IF inspected THEN @ \cup {f} ELSE @]
       /\ snapshots' = IF stored THEN WithSnapshot(f) ELSE snapshots
  /\ UNCHANGED <<config, hostVars, lock, pc, lastResult, history, boundVars>>

TopN == IF TopConsumers <= 0 THEN 5 ELSE TopConsumers

\* The top of a descending sort by size; sort.Slice breaks ties arbitrarily.
TopSets(r) ==
  {T \in SUBSET r.scanned :
     /\ Cardinality(T) = IF Cardinality(r.scanned) < TopN
                           THEN Cardinality(r.scanned) ELSE TopN
     /\ \A f \in T, g \in r.scanned \ T : r.esize[f] >= r.esize[g]}

\* Sort the entries and copy the first TopN to the report, before any of
\* them is cleaned.
Rank(p) ==
  /\ pc[p] = "scan" /\ run[p].todo = {}
  /\ \E T \in TopSets(run[p]) :
       run' = [run EXCEPT ![p].top = T, ![p].pending = run[p].scanned]
  /\ Goto(p, "process")
  /\ UNCHANGED <<config, hostVars, lock, lastResult, dbVars, boundVars>>

\* The policy loop follows the same order: the top entries first, and by
\* descending scanned size.
IsNextEntry(r, f) ==
  /\ f \in r.pending
  /\ \A g \in r.pending : r.esize[g] <= r.esize[f]
  /\ r.pending \cap r.top # {} => f \in r.top

IsOversized(r, f) == r.esize[f] >= Threshold

\* Mutant: the exclusion list is matched against container IDs.
IsExcludedById(r, f) == f \in Excluded

IsExcluded(r, f) == EntryName(r, f) \in Excluded

Eligible(r, f) == IsOversized(r, f) /\ ~IsExcluded(r, f)

\* Mutant: the dry-run switch is not looked at.
DryRunIgnored == FALSE

DryRun == config.dryRun

\* Mutant: the policy loop breaks at the first error.
BreakOnError(r, f) ==
  [r EXCEPT !.pending = {}, !.cur = None, !.curSize = 0,
            !.truncErrs = @ \cup {f}]

\* Mutant: what Apply meant to reclaim is counted even if it failed.
CountOnError(r, f) ==
  [r EXCEPT !.pending = @ \ {f}, !.cur = None, !.curSize = 0,
            !.truncErrs = @ \cup {f}, !.reclaimed = @ + r.curSize]

\* Apply returned an error: record it and continue with the next entry.
WithError(r, f) ==
  [r EXCEPT !.pending = @ \ {f}, !.cur = None, !.curSize = 0,
            !.truncErrs = @ \cup {f}]

\* Mutant: WasTruncated is set on a copy of the entry.
CleanedCopy(r, f) ==
  [r EXCEPT !.cur = None, !.curSize = 0, !.cleaned = @ + 1,
            !.reclaimed = @ + r.curSize]

\* Apply succeeded: the entry, the count and the total are updated.
Cleaned(r, f) ==
  [r EXCEPT !.cur = None, !.curSize = 0, !.truncated = @ \cup {f},
            !.cleaned = @ + 1, !.reclaimed = @ + r.curSize]

\* Below the threshold, excluded, or a dry run: on to the next entry.
SkipEntry(p, f) ==
  /\ pc[p] = "process" /\ IsNextEntry(run[p], f)
  /\ ~Eligible(run[p], f) \/ DryRun
  /\ run' = [run EXCEPT ![p].pending = @ \ {f}]
  /\ UNCHANGED <<config, hostVars, lock, pc, lastResult, dbVars, boundVars>>

\* policy.Apply fails before it changes anything: the file is gone, or the
\* mode is one of the two that are not implemented.
ApplyRefused(p, f) ==
  /\ pc[p] = "process" /\ IsNextEntry(run[p], f)
  /\ Eligible(run[p], f) /\ ~DryRun
  /\ config.mode \in {"rotate", "compress"} \/ StatFails(f)
  /\ run' = [run EXCEPT ![p] = WithError(run[p], f)]
  /\ UNCHANGED <<config, hostVars, lock, pc, lastResult, dbVars, boundVars>>

\* policy.Apply of the truncate and delete policies: os.Stat.
ApplyStat(p, f) ==
  /\ pc[p] = "process" /\ IsNextEntry(run[p], f)
  /\ Eligible(run[p], f) /\ ~DryRun
  /\ config.mode \in {"truncate", "delete"} /\ ~StatFails(f)
  /\ run' = [run EXCEPT ![p].pending = @ \ {f},
                        ![p].cur = f, ![p].curSize = size[f]]
  /\ Goto(p, "apply")
  /\ UNCHANGED <<config, hostVars, lock, lastResult, dbVars, boundVars>>

\* policy.Apply: os.Truncate or os.Remove fails, because the file has gone
\* since or the agent may not write it; the error is recorded.
ApplyFailed(p) ==
  /\ pc[p] = "apply"
  /\ run' = [run EXCEPT ![p] = WithError(run[p], run[p].cur)]
  /\ Goto(p, "process")
  /\ UNCHANGED <<config, hostVars, lock, lastResult, dbVars, boundVars>>

\* os.Truncate(path, 0) empties the file.  os.Remove unlinks it; the daemon
\* of the running container keeps it open, and the bytes stay on the disk.
ApplyDone(p) ==
  LET f == run[p].cur
      unlinked == config.mode = "delete"
  IN
  /\ pc[p] = "apply"
  /\ ~StatFails(f)
  /\ size' = [size EXCEPT ![f] = IF unlinked THEN Absent ELSE 0]
  /\ held' = [held EXCEPT ![f] = IF unlinked THEN size[f] ELSE @]
  /\ run' = [run EXCEPT ![p] =
       [Cleaned(run[p], f) EXCEPT !.freed = IF unlinked THEN @ ELSE @ + size[f]]]
  /\ Goto(p, "process")
  /\ UNCHANGED <<config, live, written, lock, lastResult, dbVars, boundVars>>

\* docker.CollectInsights inspects every entry again.  Where that fails it
\* slices the first 12 characters off the container ID, which panics if the
\* directory name was shorter; the panic unwinds through Run.
CollectInsights(p) ==
  /\ pc[p] = "process" /\ run[p].pending = {}
  /\ \E failed \in SUBSET run[p].scanned :
       /\ {f \in run[p].scanned : ~live[f] \/ run[p].expired} \subseteq failed
       /\ \/ /\ failed \cap ShortIds # {}
             /\ Leave(p, "panic")
          \/ /\ failed \cap ShortIds = {}
             /\ Goto(p, "record")
             /\ UNCHANGED lock
  /\ UNCHANGED <<config, hostVars, run, lastResult, dbVars, boundVars>>

\* Mutant: a run that cleaned nothing is not worth a row.
RecordedIfCleaned(r) ==
  IF r.cleaned > 0 THEN Append(history, RunRow(r)) ELSE history

Recorded(r) == Append(history, RunRow(r))

\* db.RecordRun: one transaction (HistoryStore.tla has its steps).  Its
\* error is logged and otherwise ignored.
RecordRun(p) ==
  /\ pc[p] = "record"
  /\ \/ /\ ~run[p].expired
        /\ history' = Recorded(run[p])
     \/ /\ run[p].expired \/ DbMayFail
        /\ UNCHANGED history
  /\ Goto(p, "finish")
  /\ UNCHANGED <<config, hostVars, lock, run, lastResult, snapshots, boundVars>>

\* c.lastResult = result; return result, nil.
Finish(p) ==
  /\ pc[p] = "finish"
  /\ lastResult' = RunRow(run[p])
  /\ Leave(p, "ok")
  /\ UNCHANGED <<config, hostVars, run, dbVars, boundVars>>

\* The caller takes the outcome.
Return(p) ==
  /\ pc[p] \in Endings \cup {"already"}
  /\ Goto(p, "idle")
  /\ run' = [run EXCEPT ![p] = FreshRun]
  /\ UNCHANGED <<config, hostVars, lock, lastResult, dbVars, boundVars>>

----------------------------------------------------------------------------
(* The environment.                                                        *)

\* The deadline of the caller's context passes.
Expire(p) ==
  /\ p \in Deadlined /\ pc[p] \in Inside
  /\ run' = [run EXCEPT ![p].expired = TRUE]
  /\ UNCHANGED <<config, hostVars, lock, pc, lastResult, dbVars, boundVars>>

\* The process dies: SIGKILL, or SIGTERM before main asks to be notified.
\* The host and the database survive, nothing else does.
Crash ==
  /\ crashes < MaxCrashes
  /\ crashes' = crashes + 1
  /\ lock' = None
  /\ pc' = [p \in Procs |-> "idle"]
  /\ run' = [p \in Procs |-> FreshRun]
  /\ lastResult' = None
  /\ UNCHANGED <<config, hostVars, dbVars, calls, events>>

\* Something happens outside the agent.
HostEvent ==
  /\ events < MaxEvents
  /\ events' = events + 1

\* The container writes a unit: to the file at its path, or to the unlinked
\* file the daemon still has open.
Grow(f) ==
  /\ HostEvent /\ live[f]
  /\ \/ /\ size[f] # Absent /\ size[f] < MaxSize
        /\ size' = [size EXCEPT ![f] = @ + 1]
        /\ UNCHANGED held
     \/ /\ size[f] = Absent /\ held[f] < MaxSize
        /\ held' = [held EXCEPT ![f] = @ + 1]
        /\ UNCHANGED size
  /\ written' = [written EXCEPT ![f] = @ + 1]
  /\ UNCHANGED <<config, live, lock, pc, run, lastResult, dbVars,
                 calls, crashes>>

\* Docker rotates the log (--log-opt max-size): the full file is renamed to
\* a name the cleaner does not look for and an empty one takes its place.
Rotate(f) ==
  /\ HostEvent /\ live[f] /\ f \in Rotating /\ size[f] > 0
  /\ size' = [size EXCEPT ![f] = 0]
  /\ UNCHANGED <<config, held, live, written, lock, pc, run, lastResult, dbVars,
                 calls, crashes>>

\* The container is restarted: the daemon reopens the log at its path.
Restart(f) ==
  /\ HostEvent /\ live[f]
  /\ size' = [size EXCEPT ![f] = IF @ = Absent THEN 0 ELSE @]
  /\ held' = [held EXCEPT ![f] = 0]
  /\ UNCHANGED <<config, live, written, lock, pc, run, lastResult, dbVars,
                 calls, crashes>>

\* The container is removed, and its log with it.
Remove(f) ==
  /\ HostEvent /\ live[f]
  /\ live' = [live EXCEPT ![f] = FALSE]
  /\ size' = [size EXCEPT ![f] = Absent]
  /\ held' = [held EXCEPT ![f] = 0]
  /\ UNCHANGED <<config, written, lock, pc, run, lastResult, dbVars,
                 calls, crashes>>

Host == \E f \in Files : Grow(f) \/ Rotate(f) \/ Restart(f) \/ Remove(f)

----------------------------------------------------------------------------

\* Steps of Run that wait for the Docker daemon.
AskDocker(p) ==
  \/ \E f \in Files : ScanFile(p, f)
  \/ CollectInsights(p)

\* All other steps of Run once it has the lock.
Work(p) ==
  \/ Discover(p)
  \/ \E f \in Files :
       \/ ScanMissing(p, f) \/ SkipEntry(p, f)
       \/ ApplyRefused(p, f) \/ ApplyStat(p, f)
  \/ Rank(p) \/ ApplyFailed(p) \/ ApplyDone(p)
  \/ RecordRun(p) \/ Finish(p) \/ Return(p)

Next ==
  \/ \E p \in Procs :
       TryLock(p) \/ Reject(p) \/ AskDocker(p) \/ Work(p) \/ Expire(p)
  \/ Crash
  \/ Host

Spec == Init /\ [][Next]_vars

\* A goroutine inside Run keeps being scheduled, and file system and SQLite
\* calls return.  Docker calls are bounded only by the caller's context:
\* one is sure to return only if that context has a deadline.
Fairness ==
  /\ \A p \in Procs : WF_vars(Work(p))
  /\ \A p \in Deadlined : WF_vars(AskDocker(p))

FairSpec == Spec /\ Fairness

----------------------------------------------------------------------------
(* Properties.                                                             *)

TypeOK ==
  /\ config \in Configs
  /\ size \in [Files -> {Absent} \cup 0..MaxSize]
  /\ held \in [Files -> Nat]
  /\ live \in [Files -> BOOLEAN]
  /\ written \in [Files -> Nat]
  /\ lock \in Procs \cup {None}
  /\ pc \in [Procs -> Stages]
  /\ run \in [Procs -> RunState]
  /\ lastResult \in RunRowType \cup {None}
  /\ history \in Seq(RunRowType)
  /\ snapshots \in [Files -> Nat]
  /\ calls \in 0..MaxCalls
  /\ crashes \in 0..MaxCrashes
  /\ events \in 0..MaxEvents

\* Two cleanup cycles never overlap: the guard against concurrent runs
\* (cleaner.go, "a run is already in progress") holds whatever way the
\* earlier cycles ended: result, error, panic or death of the process.
MutualExclusion ==
  \A p, q \in Procs : pc[p] \in Inside /\ pc[q] \in Inside => p = q

\* A container that Docker named to this run, and whose name is excluded, is
\* not touched by this run and is never recorded as truncated: the name is
\* read in the scan loop and used, after sorting, in the policy loop.
ExcludedIsSpared ==
  /\ \A p \in Procs :
       \A f \in run[p].truncated \cup run[p].truncErrs \cup {run[p].cur} :
         f \in run[p].named => NameOf[f] \notin Excluded
  /\ \A i \in DOMAIN history : \A c \in history[i].containers :
       c.name \in Excluded => ~c.wasTruncated

\* When the policy loop is over, every log found in the directory has been
\* accounted for: it could not be read, or it was below the threshold, or its
\* name is excluded, or it was truncated, or its error is in the result.  No
\* log of the threshold or more is skipped because an earlier one failed.
EverythingAccounted ==
  \A p \in Procs : LET r == run[p] IN
    pc[p] \in {"record", "finish", "ok"} =>
      /\ r.pending = {} /\ r.todo = {} /\ r.cur = None
      /\ r.truncated \cap r.truncErrs = {}
      /\ r.statErrs \cap r.scanned = {}
      /\ r.truncated \cup r.truncErrs =
           IF config.dryRun THEN {}
           ELSE {f \in r.scanned : /\ r.esize[f] >= Threshold
                                   /\ EntryName(r, f) \notin Excluded}

\* The totals of a recorded run agree with its own container rows, and a
\* dry run claims nothing.
TotalsMatchRows ==
  \A i \in DOMAIN history : LET h == history[i] IN
    /\ h.cleaned = Cardinality({c \in h.containers : c.wasTruncated})
    /\ h.dryRun => h.cleaned = 0 /\ h.reclaimed = 0

\* Of the logs Docker does not rotate itself, one shrinks, while its
\* container is there, only because the goroutine that holds the lock
\* applies the policy to it, in a real run, to an entry that was eligible;
\* and although the size was checked steps before, the log is still over
\* the threshold at that moment.
ShrinksOnlyByPolicy ==
  [][\A f \in Files \ Rotating :
       size'[f] < size[f] /\ live'[f] =>
         /\ lock \in Procs /\ ~config.dryRun
         /\ f \in run'[lock].truncated \ run[lock].truncated
         /\ Eligible(run[lock], f)
         /\ size[f] >= Threshold]_vars

\* Under the truncate policy, what a run reports as reclaimed was given back
\* to the file system: what the container writes between Apply's Stat and its
\* Truncate is lost but not reported, so the report may only be too low.  Not
\* so if the run truncated a log that Docker rotates between the two.
ReclaimedWasFreed ==
  config.mode = "truncate" =>
    \A p \in Procs : run[p].truncated \cap Rotating = {} =>
      run[p].reclaimed <= run[p].freed

\* However many runs visit the same logs, of whatever goroutines, no unit is
\* reported as reclaimed twice: all the runs in the history together claim no
\* more than the containers have ever written.  A log whose cleaning failed, or
\* that was unlinked and is still being written, is not claimed again by the
\* next run.
ReclaimedOnce ==
  MapThenSumSet(LAMBDA i : history[i].reclaimed, DOMAIN history)
    <= MapThenSumSet(LAMBDA f : written[f], Files)

\* A run that ended normally and whose context did not expire is in the
\* history, unless SQLite itself failed.
RecordedUnlessExpired ==
  \A p \in Procs :
    pc[p] = "ok" /\ ~run[p].expired /\ ~DbMayFail =>
      \E i \in DOMAIN history : history[i] = RunRow(run[p])

\* As long as SQLite works, no run is in the history without the size
\* snapshots of all its containers: a run whose snapshots failed because its
\* context expired cannot be recorded either, and a crash loses the run
\* before the snapshots.
SnapshotsCoverHistory ==
  DbMayFail \/ \A f \in Files :
    Cardinality({i \in DOMAIN history :
      \E c \in history[i].containers : c.name \in {f, NameOf[f]}})
        <= snapshots[f]

\* Run implements the contract its callers rely on.
Gate == INSTANCE RunGate
          WITH phase <- [p \in Procs |->
                           IF pc[p] \in Inside THEN "running" ELSE pc[p]]
ImplementsGate == Gate!Spec

\* A run under a context with a deadline releases the lock: the startup run
\* cannot block the scheduled ones for ever.
DeadlinedRunEnds == \A p \in Deadlined : (lock = p) ~> (lock # p)

----------------------------------------------------------------------------
(* What the documentation says and the code does not guarantee.            *)

\* README.md, excluded_containers: "Never truncate these".
ExcludedNeverTruncated ==
  \A p \in Procs : \A f \in run[p].truncated : NameOf[f] \notin Excluded

\* README.md: "SQLite history - Persistent run history with per-container
\* tracking": a cycle that has truncated logs and returned its result is in
\* the history.
CompletedRunIsRecorded ==
  \A p \in Procs :
    pc[p] = "ok" /\ run[p].truncated # {} =>
      \E i \in DOMAIN history : history[i] = RunRow(run[p])

\* scheduler.go: Stop waits "for any in-progress run to finish": a run that
\* has the lock does finish.
EveryRunEnds == \A p \in Procs : (lock = p) ~> (lock # p)

=============================================================================
