---------------------------- MODULE AgentProofs ----------------------------
(***************************************************************************)
(* Proofs about Agent, for any jobs, any requests and any number of ticks. *)
(***************************************************************************)
EXTENDS Agent, FiniteSetTheorems, TLAPS

----------------------------------------------------------------------------
(* Type correctness.                                                       *)

\* TypeOK is not inductive alone: the gauges take the number of a run, which
\* is one because a pipeline between Run and its gauges has a result; and a
\* goroutine is inside Run only while its job has not gone past it.
InsideRun == \A p \in Procs : phase[p] # "idle" => job[p] = "run"

Numbered == \A p \in BeforeGauges : number[p] \in 1..completed

TypeInv == TypeOK /\ InsideRun /\ Numbered

\* Every step of main, the scheduler, the pipelines and the HTTP server keeps
\* its state well typed (main.go, scheduler.go, prometheus.go).
LEMMA TypeNext == TypeInv /\ [AgentNext]_vars => TypeInv'
<1> SUFFICES ASSUME TypeInv, [AgentNext]_vars PROVE TypeInv'
  OBVIOUS
<1> USE DEF TypeInv, TypeOK, InsideRun, Numbered, BeforeGauges
<1> USE DEF runVars, metricVars, httpVars, mainVars, outcome, tally
<1> USE DEF MainStages, Ended, JobStages, Phases, Endings
<1>1. CASE Setup
  BY <1>1 DEF Setup
<1>2. CASE StartHTTP
  BY <1>2 DEF StartHTTP
<1>3. CASE StartScheduler
  BY <1>3 DEF StartScheduler
<1>4. CASE RunNow
  BY <1>4, StartupAssumption DEF RunNow
<1>5. CASE AwaitSignal
  BY <1>5 DEF AwaitSignal
<1>6. CASE BeginShutdown
  BY <1>6 DEF BeginShutdown
<1>7. CASE SchedulerStopped
  BY <1>7 DEF SchedulerStopped
<1>8. CASE Exit
  BY <1>8 DEF Exit
<1>9. CASE Kill
  BY <1>9 DEF Kill, Crash
<1>10. ASSUME NEW p \in Procs, Tick(p) PROVE TypeInv'
  BY <1>10, TicksAssumption DEF Tick, Ticks, Step
<1>11. ASSUME NEW p \in Procs, Call(p) PROVE TypeInv'
  BY <1>11 DEF Call, Start, Reject
<1>12. ASSUME NEW p \in Procs, NEW e \in Endings, RunEnds(p, e) PROVE TypeInv'
  <2> USE DEF RunEnds, End
  <2>1. CASE e = "ok"
    <3>1. completed' = completed + 1 /\ number' = [number EXCEPT ![p] = completed + 1]
      BY <1>12, <2>1 DEF ThisRun
    <3>2. number' \in [Procs -> 0..completed'] /\ lastGauge' \in 0..completed'
      BY <1>12, <3>1
    <3>3. rivals' \subseteq 1..completed'
      BY <1>12, <2>1, <3>1
    <3>4. phase' \in [Procs -> Phases] /\ InsideRun'
      BY <1>12, <2>1
    <3>5. \A q \in BeforeGauges' : q = p \/ q \in BeforeGauges
      BY <1>12
    <3>6. Numbered'
      BY <3>1, <3>5
    <3> QED
      BY <1>12, <3>1, <3>2, <3>3, <3>4, <3>6
  <2>2. CASE e # "ok"
    <3>1. /\ UNCHANGED <<completed, rivals, number, cycles, refused>>
          /\ errors' \in Nat /\ panics' \in Nat
      BY <1>12, <2>2
    <3>2. phase' \in [Procs -> Phases] /\ InsideRun'
      BY <1>12
    <3>3. BeforeGauges' = BeforeGauges
      BY <1>12, <2>2
    <3>4. TypeOK'
      BY <1>12, <3>1, <3>2
    <3>5. Numbered'
      BY <3>1, <3>3
    <3> QED
      BY <3>2, <3>4, <3>5
  <2> QED
    BY <2>1, <2>2
<1>13. ASSUME NEW p \in Procs, PipelineFails(p) PROVE TypeInv'
  BY <1>13 DEF PipelineFails, CountCleanupError, Return, Step, Counters
<1>14. ASSUME NEW p \in Procs, PipelinePanics(p) PROVE TypeInv'
  BY <1>14 DEF PipelinePanics, Return, Step
<1>15. ASSUME NEW p \in Procs, PipelineGoesOn(p) PROVE TypeInv'
  BY <1>15 DEF PipelineGoesOn, Return, Step
<1>16. ASSUME NEW p \in Procs, CollectTelemetry(p) PROVE TypeInv'
  BY <1>16 DEF CollectTelemetry, Step
<1>17. ASSUME NEW p \in Procs, CountRun(p) PROVE TypeInv'
  BY <1>17 DEF CountRun, CountInc, Step
<1>18. ASSUME NEW p \in Procs, SetGauges(p) PROVE TypeInv'
  BY <1>18 DEF SetGauges, GaugeOf, Step
<1>19. ASSUME NEW p \in Procs, BuildReport(p) PROVE TypeInv'
  BY <1>19 DEF BuildReport, Step
<1>20. ASSUME NEW p \in Procs, Deliver(p) PROVE TypeInv'
  BY <1>20 DEF Deliver, Delivery, Counters, Step
<1>21. ASSUME NEW r \in Requests, Arrive(r) \/ Serve(r) PROVE TypeInv'
  BY <1>21 DEF Arrive, Serve
<1>22. CASE DeadlinePasses
  BY <1>22 DEF DeadlinePasses
<1>23. CASE UNCHANGED vars
  BY <1>23 DEF vars
<1> QED
  BY <1>1, <1>2, <1>3, <1>4, <1>5, <1>6, <1>7, <1>8, <1>9, <1>10, <1>11, <1>12,
     <1>13, <1>14, <1>15, <1>16, <1>17, <1>18, <1>19, <1>20, <1>21, <1>22, <1>23
     DEF AgentNext, Main, Pipeline

\* The agent starts well typed.
LEMMA TypeInit == AgentInit => TypeInv
<1> SUFFICES ASSUME AgentInit PROVE TypeInv
  OBVIOUS
<1> USE DEF AgentInit
<1>1. /\ phase \in [Procs -> Phases]
      /\ job \in [Procs -> JobStages]
      /\ number \in [Procs -> 0..completed]
      /\ selfMon \in [Counters -> Nat]
  BY DEF Init, Phases, JobStages
<1>2. 0 \in 0..MaxTicks
  BY TicksAssumption
<1>3. /\ main \in MainStages /\ cronOn \in BOOLEAN
      /\ deadline \in {"unset", "armed", "passed"}
  BY DEF MainStages
<1>4. /\ completed \in Nat /\ rivals \subseteq 1..completed
      /\ cycles \in Nat /\ errors \in Nat /\ panics \in Nat /\ refused \in Nat
      /\ runsTotal \in Nat /\ lastGauge \in 0..completed
  OBVIOUS
<1>5. /\ inflight \subseteq Requests
      /\ ticks \in 0..MaxTicks
  BY <1>2
<1>6. TypeOK
  BY <1>1, <1>3, <1>4, <1>5, Zenon DEF TypeOK
<1>7. InsideRun /\ Numbered
  BY DEF Init, InsideRun, Numbered, BeforeGauges
<1> QED
  BY <1>6, <1>7 DEF TypeInv

\* The two facts of TypeInv a later proof needs hold in every state.
LEMMA AlwaysTyped == AgentSpec => []TypeInv
BY TypeInit, TypeNext, PTL DEF AgentSpec

\* The state of the process is always well typed (main.go).
THEOREM AgentTyped == AgentSpec => []TypeOK
<1>1. TypeInv => TypeOK
  BY DEF TypeInv
<1> QED
  BY <1>1, AlwaysTyped, PTL

----------------------------------------------------------------------------
(* Shutdown.                                                               *)

\* Where main may be while cron starts jobs, while the startup pipeline is in
\* progress, and while any is.
Orderly ==
  /\ cronOn => main \in {"initial", "running", "waiting"}
  /\ job[Startup] # "off" => main = "running"
  /\ main \in {"setup", "http", "sched", "draining"} \cup Ended =>
       \A p \in Procs : job[p] = "off"

\* A step of a pipeline is one of a job in progress; it moves main nowhere and
\* starts no other job.
LEMMA PipelineStep ==
  ASSUME TypeInv, NEW p \in Procs, Pipeline(p)
  PROVE  /\ job[p] # "off"
         /\ UNCHANGED <<main, cronOn, deadline, inflight>>
         /\ \A q \in Procs \ {p} : job'[q] = job[q]
<1> USE DEF TypeInv, TypeOK, mainVars, httpVars, Step
<1>1. CASE Call(p)
  BY <1>1 DEF Call
<1>2. ASSUME NEW e \in Endings, RunEnds(p, e)
      PROVE  job[p] # "off" /\ UNCHANGED <<mainVars, httpVars, job>>
  BY <1>2 DEF RunEnds, End, InsideRun
<1>3. CASE PipelineFails(p) \/ PipelinePanics(p) \/ PipelineGoesOn(p)
  BY <1>3 DEF PipelineFails, PipelinePanics, PipelineGoesOn, metricVars
<1>4. CASE CollectTelemetry(p) \/ CountRun(p) \/ SetGauges(p) \/ BuildReport(p)
  BY <1>4 DEF CollectTelemetry, CountRun, SetGauges, BuildReport
<1>5. CASE Deliver(p)
  BY <1>5 DEF Deliver, Delivery
<1> QED
  BY <1>1, <1>2, <1>3, <1>4, <1>5 DEF Pipeline

\* No step takes the process out of this order: cron is told to stop and has
\* stopped before main goes on, and RunNow returns before main waits for a
\* signal (scheduler.go, Stop; main.go, RunNow).
LEMMA OrderlyNext == TypeInv /\ Orderly /\ [AgentNext]_vars => Orderly'
<1> SUFFICES ASSUME TypeInv, Orderly, [AgentNext]_vars PROVE Orderly'
  OBVIOUS
<1> USE DEF Orderly, Ended, runVars, tally
<1>t. job \in [Procs -> JobStages] /\ main \in MainStages /\ Startup \in Procs
  BY StartupAssumption DEF TypeInv, TypeOK
<1>1. CASE Setup \/ StartHTTP \/ StartScheduler
  BY <1>1, <1>t DEF Setup, StartHTTP, StartScheduler
<1>2. CASE RunNow
  BY <1>2, <1>t DEF RunNow
<1>3. CASE AwaitSignal \/ BeginShutdown
  BY <1>3, <1>t DEF AwaitSignal, BeginShutdown, StartupOver
<1>4. CASE SchedulerStopped
  BY <1>4, <1>t DEF SchedulerStopped, CronIdle, InProgress, Ticks
<1>5. CASE Exit
  BY <1>5, <1>t DEF Exit
<1>6. CASE Kill
  BY <1>6, <1>t DEF Kill
<1>7. ASSUME NEW p \in Procs, Tick(p) PROVE Orderly'
  BY <1>7, <1>t DEF Tick, Ticks, Step, mainVars
<1>8. ASSUME NEW p \in Procs, Pipeline(p) PROVE Orderly'
  BY <1>8, <1>t, PipelineStep
<1>9. CASE UNCHANGED <<main, cronOn, job>>
  BY <1>9
<1>10. ASSUME NEW r \in Requests, Arrive(r) \/ Serve(r) PROVE Orderly'
  BY <1>9, <1>10 DEF Arrive, Serve, mainVars
<1>11. CASE DeadlinePasses \/ UNCHANGED vars
  BY <1>9, <1>11 DEF DeadlinePasses, vars, mainVars
<1> QED
  BY <1>1, <1>2, <1>3, <1>4, <1>5, <1>6, <1>7, <1>8, <1>10, <1>11
     DEF AgentNext, Main

\* The process is always in order.
LEMMA AlwaysOrderly == AgentSpec => []Orderly
<1>1. AgentInit => Orderly
  BY StartupAssumption DEF AgentInit, Orderly
<1> QED
  BY <1>1, AlwaysTyped, OrderlyNext, PTL DEF AgentSpec

\* No pipeline is in progress, and no goroutine inside Run, while the process
\* drains its connections and closes the database (scheduler.go, Stop).
THEOREM JobsEndFirst == AgentSpec => []NoJobOutlivesStop
<1>1. TypeInv /\ Orderly => NoJobOutlivesStop
  BY DEF TypeInv, InsideRun, Orderly, NoJobOutlivesStop, InProgress, Running, Ended
<1> QED
  BY <1>1, AlwaysTyped, AlwaysOrderly, PTL

----------------------------------------------------------------------------
(* Metrics.                                                                *)

\* A pipeline whose result is not in the gauges yet carries the number of the
\* latest run or of a rival of it; the gauges show one of these, or the
\* pipeline of the latest run has still to set them.
Fresh ==
  main \notin Ended =>
    /\ \A p \in BeforeGauges : number[p] \in {completed} \cup rivals
    /\ \/ lastGauge \in {completed} \cup rivals
       \/ \E p \in BeforeGauges : number[p] = completed

\* Most steps leave alone what Fresh is about.
LEMMA FreshStutter ==
  ASSUME Fresh, main' \notin Ended => main \notin Ended,
         BeforeGauges' = BeforeGauges,
         UNCHANGED <<number, completed, rivals, lastGauge>>
  PROVE  Fresh'
BY DEF Fresh

\* The gauges are set by the pipelines in any order (prometheus.go,
\* RecordRun), but each brings a number Fresh knows.
LEMMA FreshNext == TypeInv /\ Orderly /\ Fresh /\ [AgentNext]_vars => Fresh'
<1> SUFFICES ASSUME TypeInv, Orderly, Fresh, [AgentNext]_vars PROVE Fresh'
  OBVIOUS
<1> USE DEF Ended, runVars, metricVars, httpVars, mainVars, outcome, tally, Step, Return
<1>t. /\ job \in [Procs -> JobStages] /\ phase \in [Procs -> Phases]
      /\ number \in [Procs -> 0..completed] /\ InsideRun
  BY DEF TypeInv, TypeOK
<1>1. CASE Setup \/ StartHTTP \/ StartScheduler \/ AwaitSignal \/ BeginShutdown
           \/ SchedulerStopped \/ Exit
  BY <1>1, FreshStutter DEF Setup, StartHTTP, StartScheduler, AwaitSignal,
     BeginShutdown, SchedulerStopped, Exit, BeforeGauges
<1>2. CASE RunNow
  <2>1. BeforeGauges' = BeforeGauges
    BY <1>2, <1>t, StartupAssumption DEF RunNow, BeforeGauges, Orderly, InsideRun
  <2> QED
    BY <1>2, <2>1, FreshStutter DEF RunNow
<1>3. CASE Kill
  BY <1>3 DEF Kill, Fresh
<1>4. ASSUME NEW p \in Procs, Tick(p) PROVE Fresh'
  <2>1. BeforeGauges' = BeforeGauges
    BY <1>4, <1>t DEF Tick, BeforeGauges, InsideRun
  <2> QED
    BY <1>4, <2>1, FreshStutter DEF Tick
<1>5. ASSUME NEW p \in Procs, Call(p) PROVE Fresh'
  <2>1. BeforeGauges' = BeforeGauges
    BY <1>5, <1>t DEF Call, Start, Reject, BeforeGauges
  <2> QED
    BY <1>5, <2>1, FreshStutter DEF Call
<1>6. ASSUME NEW p \in Procs, NEW e \in Endings, RunEnds(p, e) PROVE Fresh'
  <2>1. job[p] = "run" /\ UNCHANGED <<main, job, lastGauge>>
        /\ phase' = [phase EXCEPT ![p] = e] /\ phase[p] = "running"
    BY <1>6, <1>t DEF RunEnds, End, InsideRun
  <2>2. CASE e = "ok"
    <3>1. BeforeGauges' = BeforeGauges \cup {p} /\ p \notin BeforeGauges
      BY <2>1, <2>2, <1>t DEF BeforeGauges
    <3>2. /\ completed' = completed + 1
          /\ rivals' = {number[q] : q \in BeforeGauges}
          /\ number' = [number EXCEPT ![p] = completed + 1]
      BY <1>6, <2>2 DEF RunEnds, ThisRun
    <3>3. number'[p] = completed'
      BY <3>2, <1>t
    <3>4. \A q \in BeforeGauges : number'[q] \in rivals'
      BY <3>1, <3>2, <1>t DEF BeforeGauges
    <3> QED
      BY <3>1, <3>3, <3>4 DEF Fresh
  <2>3. CASE e # "ok"
    <3>1. BeforeGauges' = BeforeGauges
      BY <2>1, <2>3, <1>t DEF BeforeGauges
    <3> QED
      BY <1>6, <2>1, <2>3, <3>1, FreshStutter DEF RunEnds
  <2> QED
    BY <2>2, <2>3
<1>7. ASSUME NEW p \in Procs, PipelineFails(p) \/ PipelinePanics(p) PROVE Fresh'
  <2>1. BeforeGauges' = BeforeGauges
    BY <1>7, <1>t DEF PipelineFails, PipelinePanics, BeforeGauges
  <2> QED
    BY <1>7, <2>1, FreshStutter DEF PipelineFails, PipelinePanics
<1>8. ASSUME NEW p \in Procs, PipelineGoesOn(p) \/ CollectTelemetry(p) \/ CountRun(p)
      PROVE  Fresh'
  <2>1. BeforeGauges' = BeforeGauges
    BY <1>8, <1>t DEF PipelineGoesOn, CollectTelemetry, CountRun, BeforeGauges
  <2> QED
    BY <1>8, <2>1, FreshStutter DEF PipelineGoesOn, CollectTelemetry, CountRun
<1>9. ASSUME NEW p \in Procs, SetGauges(p) PROVE Fresh'
  <2>1. p \in BeforeGauges /\ lastGauge' = number[p]
        /\ UNCHANGED <<main, number, completed, rivals>>
    BY <1>9 DEF SetGauges, GaugeOf, BeforeGauges
  <2>2. BeforeGauges' \subseteq BeforeGauges
    BY <1>9, <1>t DEF SetGauges, BeforeGauges
  <2> QED
    BY <2>1, <2>2 DEF Fresh
<1>10. ASSUME NEW p \in Procs, BuildReport(p) \/ Deliver(p) PROVE Fresh'
  <2>1. BeforeGauges' = BeforeGauges
    BY <1>10, <1>t DEF BuildReport, Deliver, Delivery, BeforeGauges
  <2> QED
    BY <1>10, <2>1, FreshStutter DEF BuildReport, Deliver
<1>11. ASSUME NEW r \in Requests, Arrive(r) \/ Serve(r) PROVE Fresh'
  BY <1>11, FreshStutter DEF Arrive, Serve, BeforeGauges
<1>12. CASE DeadlinePasses \/ UNCHANGED vars
  BY <1>12, FreshStutter DEF DeadlinePasses, vars, BeforeGauges
<1> QED
  BY <1>1, <1>2, <1>3, <1>4, <1>5, <1>6, <1>7, <1>8, <1>9, <1>10, <1>11, <1>12
     DEF AgentNext, Main, Pipeline

\* Between jobs the gauges are those of the latest run or of one it overlapped
\* with (prometheus.go, RecordRun).
THEOREM GaugesAreRecent == AgentSpec => []GaugesLagOnlyByOverlap
<1>1. AgentInit => Fresh
  BY DEF AgentInit, Init, Fresh, BeforeGauges
<1>2. TypeInv /\ Fresh => GaugesLagOnlyByOverlap
  BY DEF TypeInv, InsideRun, Fresh, GaugesLagOnlyByOverlap, BeforeGauges, InProgress
<1> QED
  BY <1>1, <1>2, AlwaysTyped, AlwaysOrderly, FreshNext, PTL DEF AgentSpec
----------------------------------------------------------------------------
(* What becomes of the calls of Run.                                       *)

\* What has been counted and what has not make up what has happened, and what
\* is executing and what has ended make up what has started.
ResultsAddUp ==
  /\ IsFiniteSet(UncountedResults)
  /\ completed = runsTotal + Cardinality(UncountedResults)

ErrorsAddUp ==
  /\ IsFiniteSet(UncountedErrors)
  /\ errors + refused = selfMon["cleanup"] + Cardinality(UncountedErrors)

CyclesAddUp ==
  /\ IsFiniteSet(Running)
  /\ cycles = completed + errors + panics + Cardinality(Running)

AddUp == main # "killed" => ResultsAddUp /\ ErrorsAddUp /\ CyclesAddUp

\* One more, or one fewer, in a finite set.
LEMMA OneMore ==
  ASSUME NEW S, NEW p, IsFiniteSet(S), p \notin S
  PROVE  IsFiniteSet(S \cup {p}) /\ Cardinality(S \cup {p}) = Cardinality(S) + 1
         /\ Cardinality(S) \in Nat
BY FS_AddElement, FS_CardinalityType

\* See OneMore.
LEMMA OneFewer ==
  ASSUME NEW S, NEW p, IsFiniteSet(S), p \in S
  PROVE  IsFiniteSet(S \ {p}) /\ Cardinality(S \ {p}) = Cardinality(S) - 1
         /\ Cardinality(S) \in Nat
BY FS_RemoveElement, FS_CardinalityType

\* A step that counts nothing and brings no outcome.
LEMMA AddUpStutter ==
  ASSUME AddUp, main' # "killed" => main # "killed",
         UncountedResults' = UncountedResults, UncountedErrors' = UncountedErrors,
         Running' = Running, UNCHANGED <<completed, runsTotal, tally>>,
         selfMon'["cleanup"] = selfMon["cleanup"]
  PROVE  AddUp'
BY DEF AddUp, ResultsAddUp, ErrorsAddUp, CyclesAddUp, tally

\* A part of the balance stays if nothing it is about changes.
LEMMA ResultsStay ==
  ASSUME ResultsAddUp, UncountedResults' = UncountedResults,
         UNCHANGED <<completed, runsTotal>>
  PROVE  ResultsAddUp'
BY DEF ResultsAddUp

\* See ResultsStay.
LEMMA ErrorsStay ==
  ASSUME ErrorsAddUp, UncountedErrors' = UncountedErrors,
         UNCHANGED <<errors, refused, selfMon>>
  PROVE  ErrorsAddUp'
BY DEF ErrorsAddUp

\* See ResultsStay.
LEMMA CyclesStay ==
  ASSUME CyclesAddUp, Running' = Running, UNCHANGED <<completed, cycles, errors, panics>>
  PROVE  CyclesAddUp'
BY DEF CyclesAddUp

\* A call of Run brings a cycle, or a refusal that is still to be counted
\* (cleaner.go, TryLock).
LEMMA CallAddsUp ==
  ASSUME TypeInv, ResultsAddUp, ErrorsAddUp, CyclesAddUp, NEW p \in Procs, Call(p)
  PROVE  ResultsAddUp' /\ ErrorsAddUp' /\ CyclesAddUp'
<1> USE DEF metricVars, outcome
<1>t. /\ phase \in [Procs -> Phases] /\ selfMon["cleanup"] \in Nat
      /\ completed \in Nat /\ cycles \in Nat /\ errors \in Nat /\ panics \in Nat
      /\ refused \in Nat
  BY DEF TypeInv, TypeOK, Counters
<1>1. UNCHANGED <<completed, runsTotal, selfMon, errors, panics, job>>
  BY DEF Call
<1>2. UncountedResults' = UncountedResults
  BY <1>1, <1>t DEF Call, Start, Reject, UncountedResults
<1>3. ResultsAddUp'
  BY <1>1, <1>2, ResultsStay
<1>4. CASE Start(p) /\ cycles' = cycles + 1 /\ UNCHANGED refused
  <2>1. UncountedErrors' = UncountedErrors
    BY <1>4, <1>t DEF Start, UncountedErrors
  <2>2. Running' = Running \cup {p} /\ p \notin Running
    BY <1>4, <1>t DEF Start, Running
  <2>3. CyclesAddUp'
    BY <1>1, <1>4, <1>t, <2>2, OneMore DEF CyclesAddUp
  <2> QED
    BY <1>1, <1>3, <1>4, <2>1, <2>3, ErrorsStay
<1>5. CASE Reject(p) /\ refused' = refused + 1 /\ UNCHANGED cycles
  <2>1. Running' = Running
    BY <1>5, <1>t DEF Reject, Running
  <2>2. UncountedErrors' = UncountedErrors \cup {p} /\ p \notin UncountedErrors
    BY <1>5, <1>t DEF Reject, UncountedErrors
  <2>3. ErrorsAddUp'
    BY <1>1, <1>5, <1>t, <2>2, OneMore DEF ErrorsAddUp
  <2> QED
    BY <1>1, <1>3, <1>5, <2>1, <2>3, CyclesStay
<1> QED
  BY <1>4, <1>5 DEF Call

\* A cycle that ends becomes a result, an error or a panic (cleaner.go, Run).
LEMMA EndAddsUp ==
  ASSUME TypeInv, ResultsAddUp, ErrorsAddUp, CyclesAddUp,
         NEW p \in Procs, NEW e \in Endings, RunEnds(p, e)
  PROVE  ResultsAddUp' /\ ErrorsAddUp' /\ CyclesAddUp'
<1> USE DEF metricVars, outcome
<1>t. /\ phase \in [Procs -> Phases] /\ selfMon["cleanup"] \in Nat
      /\ completed \in Nat /\ runsTotal \in Nat /\ cycles \in Nat
      /\ errors \in Nat /\ panics \in Nat /\ refused \in Nat
  BY DEF TypeInv, TypeOK, Counters
<1>1. /\ job[p] = "run" /\ UNCHANGED <<job, runsTotal, selfMon, cycles, refused>>
      /\ phase' = [phase EXCEPT ![p] = e] /\ phase[p] = "running"
  BY DEF RunEnds, End, TypeInv, InsideRun
<1>2. Running' = Running \ {p} /\ p \in Running
  BY <1>1, <1>t DEF Running, Endings
<1>3. IsFiniteSet(Running') /\ Cardinality(Running') = Cardinality(Running) - 1
      /\ Cardinality(Running) \in Nat
  BY <1>2, OneFewer DEF CyclesAddUp
<1>4. CASE e = "ok"
  <2>1. completed' = completed + 1 /\ UNCHANGED <<errors, panics>>
    BY <1>4 DEF RunEnds
  <2>2. UncountedResults' = UncountedResults \cup {p} /\ p \notin UncountedResults
    BY <1>1, <1>4, <1>t DEF UncountedResults
  <2>3. UncountedErrors' = UncountedErrors
    BY <1>1, <1>4, <1>t DEF UncountedErrors
  <2>4. ResultsAddUp'
    BY <1>1, <1>t, <2>1, <2>2, OneMore DEF ResultsAddUp
  <2>5. CyclesAddUp'
    BY <1>1, <1>3, <1>t, <2>1 DEF CyclesAddUp
  <2> QED
    BY <1>1, <2>1, <2>3, <2>4, <2>5, ErrorsStay
<1>5. CASE e = "error"
  <2>1. errors' = errors + 1 /\ UNCHANGED <<completed, panics>>
    BY <1>5 DEF RunEnds
  <2>2. UncountedErrors' = UncountedErrors \cup {p} /\ p \notin UncountedErrors
    BY <1>1, <1>5, <1>t DEF UncountedErrors
  <2>3. UncountedResults' = UncountedResults
    BY <1>1, <1>5, <1>t DEF UncountedResults
  <2>c. IsFiniteSet(UncountedErrors')
        /\ Cardinality(UncountedErrors') = Cardinality(UncountedErrors) + 1
        /\ Cardinality(UncountedErrors) \in Nat
    BY <2>2, OneMore DEF ErrorsAddUp
  <2>4. ErrorsAddUp'
    BY <1>1, <1>t, <2>1, <2>c DEF ErrorsAddUp
  <2>5. CyclesAddUp'
    BY <1>1, <1>3, <1>t, <2>1 DEF CyclesAddUp
  <2> QED
    BY <1>1, <2>1, <2>3, <2>4, <2>5, ResultsStay
<1>6. CASE e = "panic"
  <2>1. panics' = panics + 1 /\ UNCHANGED <<completed, errors>>
    BY <1>6 DEF RunEnds
  <2>2. UncountedErrors' = UncountedErrors /\ UncountedResults' = UncountedResults
    BY <1>1, <1>6, <1>t DEF UncountedErrors, UncountedResults
  <2>3. CyclesAddUp'
    BY <1>1, <1>3, <1>t, <2>1 DEF CyclesAddUp
  <2> QED
    BY <1>1, <2>1, <2>2, <2>3, ErrorsStay, ResultsStay
<1> QED
  BY <1>4, <1>5, <1>6 DEF Endings

\* The pipeline counts the error its call has returned (main.go,
\* IncrCleanupError).
LEMMA ErrorIsCounted ==
  ASSUME TypeInv, ResultsAddUp, ErrorsAddUp, CyclesAddUp, NEW p \in Procs,
         PipelineFails(p)
  PROVE  ResultsAddUp' /\ ErrorsAddUp' /\ CyclesAddUp'
<1> USE DEF outcome, tally, Return
<1>t. /\ job \in [Procs -> JobStages] /\ phase \in [Procs -> Phases]
      /\ selfMon \in [Counters -> Nat] /\ errors \in Nat /\ refused \in Nat
  BY DEF TypeInv, TypeOK
<1>n. selfMon["cleanup"] \in Nat
  BY <1>t DEF Counters
<1>1. /\ UNCHANGED <<completed, runsTotal, cycles, errors, panics, refused>>
      /\ selfMon'["cleanup"] = selfMon["cleanup"] + 1
  BY <1>t DEF PipelineFails, CountCleanupError, Counters
<1>2. UncountedErrors' = UncountedErrors \ {p} /\ p \in UncountedErrors
  BY <1>t DEF PipelineFails, UncountedErrors
<1>3. UncountedResults' = UncountedResults /\ Running' = Running
  BY <1>t DEF PipelineFails, UncountedResults, Running, Step
<1>c. IsFiniteSet(UncountedErrors')
      /\ Cardinality(UncountedErrors') = Cardinality(UncountedErrors) - 1
      /\ Cardinality(UncountedErrors) \in Nat
  BY <1>2, OneFewer DEF ErrorsAddUp
<1>4. ErrorsAddUp'
  BY <1>1, <1>c, <1>t, <1>n DEF ErrorsAddUp
<1> QED
  BY <1>1, <1>3, <1>4, ResultsStay, CyclesStay

\* RecordRun counts the result of its pipeline (prometheus.go, RecordRun).
LEMMA ResultIsCounted ==
  ASSUME TypeInv, ResultsAddUp, ErrorsAddUp, CyclesAddUp, NEW p \in Procs, CountRun(p)
  PROVE  ResultsAddUp' /\ ErrorsAddUp' /\ CyclesAddUp'
<1> USE DEF outcome, tally, Step
<1>t. /\ job \in [Procs -> JobStages] /\ completed \in Nat /\ runsTotal \in Nat
  BY DEF TypeInv, TypeOK
<1>1. /\ UNCHANGED <<completed, phase, selfMon, cycles, errors, panics, refused>>
      /\ runsTotal' = runsTotal + 1
  BY DEF CountRun, CountInc
<1>2. UncountedResults' = UncountedResults \ {p} /\ p \in UncountedResults
  BY <1>1, <1>t DEF CountRun, UncountedResults
<1>3. UncountedErrors' = UncountedErrors /\ Running' = Running
  BY <1>1 DEF UncountedErrors, Running
<1>c. IsFiniteSet(UncountedResults')
      /\ Cardinality(UncountedResults') = Cardinality(UncountedResults) - 1
      /\ Cardinality(UncountedResults) \in Nat
  BY <1>2, OneFewer DEF ResultsAddUp
<1>4. ResultsAddUp'
  BY <1>1, <1>c, <1>t DEF ResultsAddUp
<1> QED
  BY <1>1, <1>3, <1>4, ErrorsStay, CyclesStay

\* No step loses a call: a failing delivery takes no cleanup error back, and
\* what a pipeline counts is its own outcome (main.go).
LEMMA AddUpNext == TypeInv /\ Orderly /\ AddUp /\ [AgentNext]_vars => AddUp'
<1> SUFFICES ASSUME TypeInv, Orderly, AddUp, [AgentNext]_vars PROVE AddUp'
  OBVIOUS
<1> USE DEF runVars, metricVars, httpVars, mainVars, outcome, Step, Return
<1>t. /\ job \in [Procs -> JobStages] /\ phase \in [Procs -> Phases] /\ InsideRun
      /\ selfMon \in [Counters -> Nat] /\ "cleanup" \in Counters
  BY DEF TypeInv, TypeOK, Counters
<1>s. ASSUME UNCHANGED <<main, job, phase, completed, tally, runsTotal, selfMon>>
      PROVE  AddUp'
  BY <1>s, AddUpStutter DEF UncountedResults, UncountedErrors, Running
<1>1. CASE Setup \/ StartHTTP \/ StartScheduler \/ AwaitSignal \/ BeginShutdown
           \/ SchedulerStopped \/ Exit
  <2>1. /\ main' # "killed" => main # "killed"
        /\ UNCHANGED <<job, phase, completed, tally, runsTotal, selfMon>>
    BY <1>1 DEF Setup, StartHTTP, StartScheduler, AwaitSignal, BeginShutdown,
       SchedulerStopped, Exit
  <2> QED
    BY <2>1, AddUpStutter DEF UncountedResults, UncountedErrors, Running
<1>2. CASE RunNow
  <2>1. UncountedResults' = UncountedResults /\ UncountedErrors' = UncountedErrors
        /\ Running' = Running
    BY <1>2, <1>t, StartupAssumption
       DEF RunNow, UncountedResults, UncountedErrors, Running, Orderly, InsideRun
  <2> QED
    BY <1>2, <2>1, AddUpStutter DEF RunNow
<1>3. CASE Kill
  BY <1>3 DEF Kill, AddUp
<1>4. ASSUME NEW p \in Procs, Tick(p) PROVE AddUp'
  <2>1. UncountedResults' = UncountedResults /\ UncountedErrors' = UncountedErrors
        /\ Running' = Running
    BY <1>4, <1>t DEF Tick, UncountedResults, UncountedErrors, Running, InsideRun
  <2> QED
    BY <1>4, <2>1, AddUpStutter DEF Tick
<1>5. ASSUME NEW p \in Procs, Call(p) PROVE AddUp'
  <2>1. main' = main
    BY <1>5 DEF Call
  <2> QED
    BY <1>5, <2>1, CallAddsUp DEF AddUp
<1>6. ASSUME NEW p \in Procs, NEW e \in Endings, RunEnds(p, e) PROVE AddUp'
  <2>1. main' = main
    BY <1>6 DEF RunEnds
  <2> QED
    BY <1>6, <2>1, EndAddsUp DEF AddUp
<1>7. ASSUME NEW p \in Procs, PipelineFails(p) PROVE AddUp'
  <2>1. main' = main
    BY <1>7 DEF PipelineFails
  <2> QED
    BY <1>7, <2>1, ErrorIsCounted DEF AddUp
<1>8. ASSUME NEW p \in Procs,
             PipelinePanics(p) \/ PipelineGoesOn(p) \/ CollectTelemetry(p)
      PROVE  AddUp'
  <2>1. UncountedResults' = UncountedResults /\ UncountedErrors' = UncountedErrors
        /\ Running' = Running
    BY <1>8, <1>t DEF PipelinePanics, PipelineGoesOn, CollectTelemetry,
       UncountedResults, UncountedErrors, Running
  <2> QED
    BY <1>8, <2>1, AddUpStutter DEF PipelinePanics, PipelineGoesOn, CollectTelemetry
<1>9. ASSUME NEW p \in Procs, CountRun(p) PROVE AddUp'
  <2>1. main' = main
    BY <1>9 DEF CountRun
  <2> QED
    BY <1>9, <2>1, ResultIsCounted DEF AddUp
<1>10. ASSUME NEW p \in Procs, SetGauges(p) \/ BuildReport(p) PROVE AddUp'
  <2>1. UncountedResults' = UncountedResults /\ UncountedErrors' = UncountedErrors
        /\ Running' = Running
    BY <1>10, <1>t DEF SetGauges, BuildReport, UncountedResults, UncountedErrors, Running
  <2> QED
    BY <1>10, <2>1, AddUpStutter DEF SetGauges, BuildReport
<1>11. ASSUME NEW p \in Procs, Deliver(p) PROVE AddUp'
  <2>1. UncountedResults' = UncountedResults /\ UncountedErrors' = UncountedErrors
        /\ Running' = Running
    BY <1>11, <1>t DEF Deliver, Delivery, UncountedResults, UncountedErrors, Running
  <2>2. selfMon'["cleanup"] = selfMon["cleanup"]
    BY <1>11, <1>t DEF Deliver, Delivery
  <2> QED
    BY <1>11, <2>1, <2>2, AddUpStutter DEF Deliver
<1>12. ASSUME NEW r \in Requests, Arrive(r) \/ Serve(r) PROVE AddUp'
  BY <1>12, <1>s DEF Arrive, Serve
<1>13. CASE DeadlinePasses \/ UNCHANGED vars
  BY <1>13, <1>s DEF DeadlinePasses, vars
<1> QED
  BY <1>1, <1>2, <1>3, <1>4, <1>5, <1>6, <1>7, <1>8, <1>9, <1>10, <1>11, <1>12, <1>13
     DEF AgentNext, Main, Pipeline

\* What became of every call of Run is known at every moment: counted as a
\* result, counted as an error, about to be counted by its own pipeline, still
\* executing, or a panic, which is not counted (main.go, IncrCleanupError;
\* prometheus.go, RecordRun; scheduler.go, recover).
THEOREM AllCounted == AgentSpec => []OutcomesCounted
<1>1. AgentInit => AddUp
  <2> SUFFICES ASSUME AgentInit PROVE AddUp
    OBVIOUS
  <2>1. UncountedResults = {} /\ UncountedErrors = {} /\ Running = {}
    BY DEF AgentInit, Init, UncountedResults, UncountedErrors, Running
  <2> QED
    BY <2>1, FS_EmptySet
       DEF AgentInit, AddUp, ResultsAddUp, ErrorsAddUp, CyclesAddUp, Counters
<1>2. AddUp => OutcomesCounted
  BY DEF AddUp, ResultsAddUp, ErrorsAddUp, CyclesAddUp, OutcomesCounted
<1> QED
  BY <1>1, <1>2, AlwaysTyped, AlwaysOrderly, AddUpNext, PTL DEF AgentSpec
=============================================================================
