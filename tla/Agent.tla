------------------------------- MODULE Agent -------------------------------
(***************************************************************************)
(* The process: main, the scheduler, the pipeline each job executes, the   *)
(* counters it updates, and the HTTP server's shutdown.                    *)
(*                                                                         *)
(* main opens the database, starts the HTTP server and the cron scheduler, *)
(* executes the pipeline once itself, and only then asks to be notified of *)
(* SIGTERM.  Cron starts every tick in a goroutine of its own, so a slow   *)
(* pipeline overlaps with the next one, with the startup one, and with the *)
(* shutdown.  Run itself is represented by the contract in RunGate, which  *)
(* Cleaner.tla implements.                                                 *)
(***************************************************************************)
EXTENDS RunGate, Integers, FiniteSets

CONSTANTS
  Startup,      \* the job main executes through RunNow
  Requests,     \* HTTP requests
  MaxTicks      \* bound: cron ticks

ASSUME StartupAssumption == Startup \in Procs
ASSUME TicksAssumption == MaxTicks \in Nat

Ticks == Procs \ {Startup}

VARIABLES
  main,         \* where main is
  cronOn,       \* is the scheduler started, and not yet told to stop?
  job,          \* job[p]: the step of the pipeline p executes next, or "off"
  number,       \* number[p]: which completed run p's pipeline reports on
  completed,    \* how many runs have returned a result
  rivals,       \* auxiliary: the runs whose pipelines had yet to set the
                \* gauges when the latest one returned its result
  cycles,       \* auxiliary: how many calls of Run have got the mutex
  errors,       \* auxiliary: how many of these have returned an error,
  panics,       \* ... and how many have panicked
  refused,      \* auxiliary: how many calls have been refused
  runsTotal,    \* cleanup_runs_total
  lastGauge,    \* the run last_cleanup_duration_seconds and _mb describe
  selfMon,      \* the SelfMonitor's counters
  inflight,     \* HTTP requests being served
  deadline,     \* the deadline of shutdownCtx
  ticks

outcome == <<completed, rivals>>
tally == <<cycles, errors, panics, refused>>
runVars == <<phase, job, number, outcome, tally>>
metricVars == <<runsTotal, lastGauge, selfMon>>
httpVars == <<inflight>>
mainVars == <<main, cronOn, deadline>>
vars == <<mainVars, runVars, metricVars, httpVars, ticks>>

\* Stages of main.  "failed" is os.Exit(1), "killed" a signal without handler.
Ended == {"exited", "failed", "killed"}

MainStages == {"setup", "http", "sched", "initial", "running", "waiting",
               "stopping", "draining"} \cup Ended

\* Steps of the pipeline, in the order of the closure in main.
JobStages == {"off", "run", "telemetry", "count", "gauges", "report",
              "email", "slack", "teams"}

Counters == {"cleanup", "docker", "smtp", "notif"}

InProgress(jobs) == {p \in jobs : job[p] # "off"}

AgentInit ==
  /\ Init
  /\ main = "setup" /\ cronOn = FALSE /\ deadline = "unset"
  /\ job = [p \in Procs |-> "off"]
  /\ number = [p \in Procs |-> 0]
  /\ completed = 0 /\ rivals = {}
  /\ cycles = 0 /\ errors = 0 /\ panics = 0 /\ refused = 0
  /\ runsTotal = 0 /\ lastGauge = 0
  /\ selfMon = [c \in Counters |-> 0]
  /\ inflight = {}
  /\ ticks = 0

----------------------------------------------------------------------------
(* main.                                                                   *)

\* Configuration, storage, Docker client, cleaner and scheduler are created;
\* if one of them fails the process exits.
Setup ==
  /\ main = "setup"
  /\ main' \in {"http", "failed"}
  /\ UNCHANGED <<cronOn, deadline, runVars, metricVars, httpVars, ticks>>

\* httpServer.Start returns at once; a failure to listen is only logged.
StartHTTP ==
  /\ main = "http"
  /\ main' = "sched"
  /\ UNCHANGED <<cronOn, deadline, runVars, metricVars, httpVars, ticks>>

\* sched.Start.  cron.AddFunc cannot fail: config.Load has parsed the cron
\* expression with a parser that accepts less.
StartScheduler ==
  /\ main = "sched"
  /\ main' = "initial" /\ cronOn' = TRUE
  /\ UNCHANGED <<deadline, runVars, metricVars, httpVars, ticks>>

\* sched.RunNow: main executes the pipeline itself.
RunNow ==
  /\ main = "initial"
  /\ main' = "running"
  /\ job' = [job EXCEPT ![Startup] = "run"]
  /\ UNCHANGED <<cronOn, deadline, phase, number, outcome, tally,
                 metricVars, httpVars, ticks>>

\* Mutant: RunNow waits for whatever pipeline is in progress.
AllJobsOver == InProgress(Procs) = {}

StartupOver == job[Startup] = "off"

\* RunNow returns; signal.NotifyContext.
AwaitSignal ==
  /\ main = "running" /\ StartupOver
  /\ main' = "waiting"
  /\ UNCHANGED <<cronOn, deadline, runVars, metricVars, httpVars, ticks>>

\* The signal: the 30 seconds of shutdownCtx start, and sched.Stop tells cron
\* to start no more jobs.
BeginShutdown ==
  /\ main = "waiting"
  /\ main' = "stopping" /\ cronOn' = FALSE /\ deadline' = "armed"
  /\ UNCHANGED <<runVars, metricVars, httpVars, ticks>>

\* Mutant: Stop does not wait for the context cron.Stop returns.
StopAtOnce == TRUE

\* <-ctx.Done(): cron's jobs have finished.
CronIdle == InProgress(Ticks) = {}

\* sched.Stop returns.
SchedulerStopped ==
  /\ main = "stopping" /\ CronIdle
  /\ main' = "draining"
  /\ UNCHANGED <<cronOn, deadline, runVars, metricVars, httpVars, ticks>>

\* Mutant: shutdownCtx has no deadline.
DrainedForGood == inflight = {}

\* httpServer.Shutdown returns: no request is being served, or shutdownCtx is
\* done.
Drained == inflight = {} \/ deadline = "passed"

\* main returns, and its deferred calls close the database.
Exit ==
  /\ main = "draining" /\ Drained
  /\ main' = "exited"
  /\ inflight' = {}
  /\ UNCHANGED <<cronOn, deadline, runVars, metricVars, ticks>>

\* SIGKILL at any time, or SIGTERM before signal.NotifyContext.
Kill ==
  /\ main \notin Ended
  /\ main' = "killed" /\ cronOn' = FALSE
  /\ Crash
  /\ job' = [p \in Procs |-> "off"]
  /\ inflight' = {}
  /\ UNCHANGED <<deadline, number, outcome, tally, metricVars, ticks>>

----------------------------------------------------------------------------
(* The scheduler and the pipeline.                                         *)

Step(p, stage) == job' = [job EXCEPT ![p] = stage]

\* A cron tick starts a job in a new goroutine.
Tick(p) ==
  /\ p \in Ticks /\ cronOn /\ ticks < MaxTicks
  /\ job[p] = "off"
  /\ Step(p, "run")
  /\ ticks' = ticks + 1
  /\ UNCHANGED <<mainVars, phase, number, outcome, tally, metricVars,
                 httpVars>>

\* cleaner.Run(ctx) is called.
Call(p) ==
  /\ job[p] = "run"
  /\ \/ Start(p) /\ cycles' = cycles + 1 /\ UNCHANGED refused
     \/ Reject(p) /\ refused' = refused + 1 /\ UNCHANGED cycles
  /\ UNCHANGED <<mainVars, job, number, outcome, errors, panics, metricVars,
                 httpVars, ticks>>

\* Mutant: numbered one too far.
NextRun == completed + 2

ThisRun == completed + 1

\* The goroutines whose run has a result that is not in the gauges yet.
BeforeGauges ==
  {q \in Procs : \/ job[q] \in {"telemetry", "count", "gauges"}
                 \/ job[q] = "run" /\ phase[q] = "ok"}

\* cleaner.Run ends.
RunEnds(p, ending) ==
  /\ End(p, ending)
  /\ \/ /\ ending = "ok"
        /\ completed' = completed + 1
        /\ rivals' = {number[q] : q \in BeforeGauges}
        /\ number' = [number EXCEPT ![p] = ThisRun]
        /\ UNCHANGED <<errors, panics>>
     \/ /\ ending = "error"
        /\ errors' = errors + 1
        /\ UNCHANGED <<outcome, number, panics>>
     \/ /\ ending = "panic"
        /\ panics' = panics + 1
        /\ UNCHANGED <<outcome, number, errors>>
  /\ UNCHANGED <<mainVars, job, cycles, refused, metricVars, httpVars, ticks>>

\* Mutant: a refused run is not an error.
CountErrorsOnly(p) ==
  IF phase[p] = "error" THEN [selfMon EXCEPT !["cleanup"] = @ + 1] ELSE selfMon

\* selfMon.IncrCleanupError, for whatever error Run returned.
CountCleanupError(p) == [selfMon EXCEPT !["cleanup"] = @ + 1]

\* Run returned an error: the pipeline returns it and the job is over.
PipelineFails(p) ==
  /\ job[p] = "run" /\ phase[p] \in {"error", "already"}
  /\ selfMon' = CountCleanupError(p)
  /\ Return(p) /\ Step(p, "off")
  /\ UNCHANGED <<mainVars, number, outcome, tally, runsTotal, lastGauge, httpVars, ticks>>

\* Run panicked: the scheduler's deferred recover logs it, and the job is over.
PipelinePanics(p) ==
  /\ job[p] = "run" /\ phase[p] = "panic"
  /\ Return(p) /\ Step(p, "off")
  /\ UNCHANGED <<mainVars, number, outcome, tally, metricVars, httpVars,
                 ticks>>

\* Run returned a result; selfMon.SetLastDurationMS.
PipelineGoesOn(p) ==
  /\ job[p] = "run" /\ phase[p] = "ok"
  /\ Return(p) /\ Step(p, "telemetry")
  /\ UNCHANGED <<mainVars, number, outcome, tally, metricVars, httpVars,
                 ticks>>

\* telemetry.Collect and CollectDocker.  Their own calls may fail, but
\* neither of them ever returns an error, so IncrDockerAPIFailure is not
\* reached.
CollectTelemetry(p) ==
  /\ job[p] = "telemetry"
  /\ Step(p, "count")
  /\ UNCHANGED <<mainVars, phase, number, outcome, tally, runsTotal,
                 lastGauge, selfMon, httpVars, ticks>>

CountInc(p) == runsTotal + 1

\* reg.RecordRun: the counters ...
CountRun(p) ==
  /\ job[p] = "count"
  /\ runsTotal' = CountInc(p)
  /\ Step(p, "gauges")
  /\ UNCHANGED <<mainVars, phase, number, outcome, tally, lastGauge,
                 selfMon, httpVars, ticks>>

\* Mutant: the gauges are set once.
GaugeOfFirst(p) == IF lastGauge = 0 THEN number[p] ELSE lastGauge

GaugeOf(p) == number[p]

\* ... and then the gauges of the last run.
SetGauges(p) ==
  /\ job[p] = "gauges"
  /\ lastGauge' = GaugeOf(p)
  /\ Step(p, "report")
  /\ UNCHANGED <<mainVars, phase, number, outcome, tally, runsTotal,
                 selfMon, httpVars, ticks>>

\* Analyze, ListRuns and the report, from the database.
BuildReport(p) ==
  /\ job[p] = "report"
  /\ Step(p, "email")
  /\ UNCHANGED <<mainVars, phase, number, outcome, tally, metricVars,
                 httpVars, ticks>>

\* The deliveries: one failing does not stop the others.
Delivery == [email |-> [counter |-> "smtp",  next |-> "slack"],
             slack |-> [counter |-> "notif", next |-> "teams"],
             teams |-> [counter |-> "notif", next |-> "off"]]

Deliver(p) ==
  /\ job[p] \in DOMAIN Delivery
  /\ LET d == Delivery[job[p]] IN
       /\ selfMon' \in {selfMon, [selfMon EXCEPT ![d.counter] = @ + 1]}
       /\ Step(p, d.next)
  /\ UNCHANGED <<mainVars, phase, number, outcome, tally, runsTotal,
                 lastGauge, httpVars, ticks>>

Pipeline(p) ==
  \/ Call(p) \/ (\E ending \in Endings : RunEnds(p, ending))
  \/ PipelineFails(p) \/ PipelinePanics(p) \/ PipelineGoesOn(p)
  \/ CollectTelemetry(p) \/ CountRun(p) \/ SetGauges(p) \/ BuildReport(p)
  \/ Deliver(p)

----------------------------------------------------------------------------
(* HTTP and time.                                                          *)

\* A request arrives while the server listens: until Shutdown is called.
Arrive(r) ==
  /\ main \in MainStages \ ({"setup", "http", "draining"} \cup Ended)
  /\ r \notin inflight
  /\ inflight' = inflight \cup {r}
  /\ UNCHANGED <<mainVars, runVars, metricVars, ticks>>

Serve(r) ==
  /\ r \in inflight
  /\ inflight' = inflight \ {r}
  /\ UNCHANGED <<mainVars, runVars, metricVars, ticks>>

\* 30 seconds have passed since the signal.  They pass while main waits: for
\* a job, in Stop, or for a request, in Shutdown.
DeadlinePasses ==
  /\ deadline = "armed"
  /\ \/ main = "stopping" /\ ~CronIdle
     \/ main = "draining"
  /\ deadline' = "passed"
  /\ UNCHANGED <<main, cronOn, runVars, metricVars, httpVars, ticks>>

----------------------------------------------------------------------------

\* Steps main takes by itself; BeginShutdown waits for somebody's signal.
Main ==
  \/ Setup \/ StartHTTP \/ StartScheduler \/ RunNow \/ AwaitSignal
  \/ SchedulerStopped \/ Exit

AgentNext ==
  \/ Main \/ BeginShutdown \/ Kill
  \/ \E p \in Procs : Tick(p) \/ Pipeline(p)
  \/ \E r \in Requests : Arrive(r) \/ Serve(r)
  \/ DeadlinePasses

AgentSpec == AgentInit /\ [][AgentNext]_vars

\* main is scheduled, time passes, and the startup pipeline moves on: its
\* context has a deadline, with which Run ends (DeadlinedRunEnds in Cleaner)
\* and Docker calls, queries and deliveries return.  Nothing is assumed of the
\* pipelines of cron ticks, whose context has none.
Fairness ==
  /\ WF_vars(Main)
  /\ WF_vars(Pipeline(Startup))
  /\ WF_vars(DeadlinePasses)

FairAgentSpec == AgentSpec /\ Fairness

----------------------------------------------------------------------------
(* Properties.                                                             *)

TypeOK ==
  /\ phase \in [Procs -> Phases]
  /\ main \in MainStages /\ cronOn \in BOOLEAN
  /\ deadline \in {"unset", "armed", "passed"}
  /\ job \in [Procs -> JobStages]
  /\ number \in [Procs -> 0..completed]
  /\ completed \in Nat /\ rivals \subseteq 1..completed
  /\ cycles \in Nat /\ errors \in Nat /\ panics \in Nat /\ refused \in Nat
  /\ runsTotal \in Nat /\ lastGauge \in 0..completed
  /\ selfMon \in [Counters -> Nat]
  /\ inflight \subseteq Requests
  /\ ticks \in 0..MaxTicks

\* No pipeline is anywhere between its first step and its last delivery when
\* the process drains its connections and closes the database: Stop waits
\* for the ticks, and main itself has executed the startup job.
NoJobOutlivesStop ==
  main \in {"draining", "exited"} =>
    InProgress(Procs) = {} /\ Running = {}

\* The pipelines whose outcome, a result or an error, is not counted yet.
UncountedResults ==
  {p \in Procs : \/ job[p] \in {"telemetry", "count"}
                 \/ job[p] = "run" /\ phase[p] = "ok"}

UncountedErrors == {p \in Procs : phase[p] \in {"error", "already"}}

\* Every call of Run is accounted for until the process is killed, however the
\* pipelines overlap: its result is in cleanup_runs_total, its error or its
\* refusal in the self-monitor, or its own pipeline is about to count it; it is
\* still executing; or it panicked, which neither counter shows.
OutcomesCounted ==
  main # "killed" =>
    /\ completed = runsTotal + Cardinality(UncountedResults)
    /\ errors + refused = selfMon["cleanup"] + Cardinality(UncountedErrors)
    /\ cycles = completed + errors + panics + Cardinality(Running)

\* Between jobs the gauges of the last run describe the latest one, or one
\* whose pipeline overlapped with its own: telemetry may keep an older
\* pipeline so long that it sets them after the newer one.
GaugesLagOnlyByOverlap ==
  InProgress(Procs) = {} /\ main \notin Ended =>
    lastGauge \in {completed} \cup rivals

\* The startup job cannot keep main from getting to wait for a signal: its
\* pipeline has a deadline, even if ticks run at the same time and never end.
StartupEnds == (main = "running") ~> (main # "running")

\* Unless a tick is still in progress, a shutdown ends, whatever the clients
\* of the HTTP server do.
QuietShutdownEnds ==
  (main = "stopping" /\ InProgress(Ticks) = {}) ~> (main \in Ended)

=============================================================================
