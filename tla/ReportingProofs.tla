--------------------------- MODULE ReportingProofs ---------------------------
(***************************************************************************)
(* Proofs about Reporting, for any containers, any number of overlapping   *)
(* pipelines, any window, trigger count and length of the trend table, and *)
(* any number of runs and failing calls.                                   *)
(***************************************************************************)
EXTENDS Reporting, FunctionTheorems, FiniteSetTheorems, SequenceTheorems, TLAPS

----------------------------------------------------------------------------
(* The inductive invariant.                                                *)

\* A run lists a container name once: a number of rows is one of runs.
OneRowPerName ==
  \A i \in DOMAIN log : \A r, s \in log[i].rows : r.name = s.name => r = s

\* The runs of the window that cleaned a container of a name.
Backing(n, since) ==
  {i \in DOMAIN log : \E row \in log[i].rows : row.name = n /\ row.time >= since}

\* What is true of each pipeline.  While Analyze runs, what it has found due
\* is due.
DueNow(p) == stage[p] = "analyze" => report[p].due \subseteq DueContainers

\* Whether the name of container c has been dealt with by p's Analyze.
Answered(p, c) ==
  \/ Called("name", c) \in report[p].failed
  \/ \E rec \in report[p].recs : rec.name = Called("name", c)

\* A container that is due is yet to be asked about or has been dealt with,
\* and when Analyze is over nothing is left to ask.
NoneForgotten(p) ==
  /\ stage[p] # "analyze" => report[p].todo = {}
  /\ \A c \in report[p].due \cap report[p].named :
       Called("name", c) \in report[p].todo \/ Answered(p, c)

\* Its own run is one of the server, and the trend table shows runs that are
\* there.
RunsThere(p) ==
  /\ report[p].own # 0 => report[p].own \in OwnRuns
  /\ report[p].trend # None => report[p].trend \subseteq DOMAIN log

\* RecommendationsAreBacked and OwnRunInTrend for one pipeline.
Backed(p) ==
  \A rec \in report[p].recs :
    /\ TriggerCount <= rec.count
    /\ rec.count <= Cardinality(Backing(rec.name, rec.at - WindowDays))

OwnShown(p) ==
  report[p].own # 0 /\ report[p].trend # None =>
    \/ report[p].own \in report[p].trend
    \/ /\ Cardinality(report[p].trend) = TrendRuns
       /\ \A i \in report[p].trend : log[i].time >= log[report[p].own].time

PipelineInv(p) ==
  DueNow(p) /\ NoneForgotten(p) /\ RunsThere(p) /\ Backed(p) /\ OwnShown(p)

ReportInv == TypeOK /\ OneRowPerName /\ \A p \in Pipelines : PipelineInv(p)

----------------------------------------------------------------------------
(* Counting cleanups.                                                      *)

\* The log counts are taken of.
LogSound == log \in Seq(History!Entry) /\ OneRowPerName

\* A query counts finitely many rows, each of another run.
CountsRuns ==
  \A n : /\ IsFiniteSet(Cleanups(n)) /\ CleanupCount(n) \in Nat
         /\ CleanupCount(n) <= Cardinality(Backing(n, clock - WindowDays))

\* A query counts finitely many rows, of as many different runs.
LEMMA CleanupsCounted == LogSound => CountsRuns
<1> SUFFICES ASSUME LogSound, NEW n
             PROVE  /\ IsFiniteSet(Cleanups(n)) /\ CleanupCount(n) \in Nat
                    /\ CleanupCount(n) <= Cardinality(Backing(n, clock - WindowDays))
  BY DEF CountsRuns
<1> DEFINE S == Cleanups(n)
           T == Backing(n, clock - WindowDays)
           f == [m \in S |-> m[1]]
<1>1. IsFiniteSet(T)
  <2>1. Len(log) \in Nat /\ DOMAIN log = 1..Len(log)
    BY LenProperties DEF LogSound
  <2>2. IsFiniteSet(DOMAIN log) /\ T \subseteq DOMAIN log
    BY <2>1, FS_Interval DEF Backing
  <2> QED
    BY <2>2, FS_Subset
<1>2. ASSUME NEW m \in S
      PROVE  /\ m = <<m[1], m[2]>> /\ m[1] \in DOMAIN log
             /\ m[2] \in log[m[1]].rows /\ m[2].name = n
             /\ m[2].time >= clock - WindowDays
  BY DEF Cleanups, InWindow
<1>3. f \in [S -> T]
  BY <1>2 DEF Backing
<1>4. \A l, m \in S : f[l] = f[m] => l = m
  BY <1>2 DEF LogSound, OneRowPerName
<1> HIDE DEF S, T, f
<1>5. IsFiniteSet(S) /\ Cardinality(S) <= Cardinality(T)
  BY <1>1, <1>3, <1>4, Fun_IsInj, FS_Injection
<1> QED
  BY <1>5, FS_CardinalityType DEF S, T, CleanupCount

\* So it does after a step.
LEMMA CleanupsCountedNext == LogSound' => CountsRuns'
BY CleanupsCounted, PTL

\* The run e is appended: it is the server's and lists a name once.
Appended(e) ==
  /\ e \in History!Entry /\ e.server = Server
  /\ \A r, s \in e.rows : r.name = s.name => r = s
  /\ log' = Append(log, e)

\* What is in the log stays there.
LEMMA LogGrows ==
  ASSUME LogSound, \/ log' = log
                   \/ \E e \in History!Entry : Appended(e)
  PROVE  /\ LogSound' /\ Len(log) \in Nat /\ DOMAIN log = 1..Len(log)
         /\ \A i \in DOMAIN log : i \in DOMAIN log' /\ log'[i] = log[i]
<1>1. Len(log) \in Nat /\ DOMAIN log = 1..Len(log)
  BY LenProperties DEF LogSound
<1>2. CASE log' = log
  BY <1>1, <1>2 DEF LogSound, OneRowPerName
<1>3. ASSUME NEW e \in History!Entry, Appended(e)
      PROVE  /\ LogSound'
             /\ \A i \in DOMAIN log : i \in DOMAIN log' /\ log'[i] = log[i]
  <2>1. /\ log' \in Seq(History!Entry) /\ Len(log') = Len(log) + 1
        /\ \A i \in 1..Len(log) : log'[i] = log[i]
        /\ log'[Len(log) + 1] = e
    BY <1>3, AppendProperties DEF Appended, LogSound
  <2>2. DOMAIN log' = 1..(Len(log) + 1)
    BY <2>1, LenProperties
  <2>3. ASSUME NEW i \in DOMAIN log', NEW r \in log'[i].rows, NEW s \in log'[i].rows,
               r.name = s.name
        PROVE  r = s
    <3>1. i \in 1..Len(log) \/ i = Len(log) + 1
      BY <1>1, <2>2
    <3>2. CASE i \in 1..Len(log)
      BY <1>1, <2>1, <2>3, <3>2 DEF LogSound, OneRowPerName
    <3>3. CASE i = Len(log) + 1
      BY <1>3, <2>1, <2>3, <3>3 DEF Appended
    <3> QED
      BY <3>1, <3>2, <3>3
  <2> QED
    BY <1>1, <2>1, <2>2, <2>3 DEF LogSound, OneRowPerName
<1> QED
  BY <1>1, <1>2, <1>3

\* So what was due stays due, as long as the time does.
LEMMA DueGrows ==
  ASSUME LogSound, clock' = clock,
         \/ log' = log
         \/ \E e \in History!Entry : Appended(e)
  PROVE  DueContainers \subseteq DueContainers'
<1> SUFFICES ASSUME NEW n PROVE CleanupCount(n) <= CleanupCount(n)'
                                 /\ CleanupCount(n) \in Nat /\ CleanupCount(n)' \in Nat
  BY ReportingAssumption DEF DueContainers
<1>1. LogSound' /\ \A i \in DOMAIN log : i \in DOMAIN log' /\ log'[i] = log[i]
  BY LogGrows
<1>2. CountsRuns /\ CountsRuns'
  BY <1>1, CleanupsCounted, CleanupsCountedNext
<1>3. Cleanups(n) \subseteq Cleanups(n)'
  BY <1>1 DEF Cleanups, InWindow
<1>4. IsFiniteSet(Cleanups(n)')
  BY <1>2 DEF CountsRuns
<1>5. Cardinality(Cleanups(n)) <= Cardinality(Cleanups(n)')
  BY <1>3, <1>4, FS_Subset
<1> QED
  BY <1>2, <1>5 DEF CountsRuns, CleanupCount

----------------------------------------------------------------------------
(* What a cleanup cycle leaves.                                            *)

\* There are finitely many containers, so those of a run and those that are due
\* can be counted.
LEMMA SetsAreFinite ==
  ASSUME NEW S \in SUBSET Containers
  PROVE  IsFiniteSet(S) /\ Cardinality(S) \in Nat
BY ReportingAssumption, FS_Subset, FS_CardinalityType

\* A run is recorded or not, and Analyze begins with the names of the second
\* inspection.
AnalyzeBegins(p, seen, unnamedAgain, recorded) ==
  /\ stage[p] = "off" /\ UNCHANGED <<config, clock, selfMon, missed>>
  /\ faults' \in 0..MaxFaults
  /\ \/ ~recorded /\ log' = log
     \/ recorded /\ \E e \in History!Entry : Appended(e)
  /\ stage' = [stage EXCEPT ![p] = "analyze"]
  /\ report' = [report EXCEPT ![p] = report'[p]]
  /\ report'[p] \in Report
  /\ report'[p].own = (IF recorded THEN Len(log') ELSE 0)
  /\ report'[p].named = seen \ unnamedAgain
  /\ report'[p].todo = {InsightName(c, unnamedAgain) : c \in seen}
  /\ report'[p].failed = {} /\ report'[p].recs = {} /\ report'[p].trend = None
  /\ report'[p].due = seen \cap DueContainers'

\* CleanupRun leaves the pipeline at Analyze with an empty report, and at most one
\* run more in the log (main.go, pipeline).
LEMMA RunEffect ==
  ASSUME TypeOK, NEW p \in Pipelines, NEW seen \in SUBSET Containers,
         NEW eligible \in SUBSET seen, NEW unnamed \in SUBSET seen,
         NEW unnamedAgain \in SUBSET seen,
         NEW recorded \in BOOLEAN,
         CleanupRun(p, seen, eligible, unnamed, unnamedAgain, recorded)
  PROVE  AnalyzeBegins(p, seen, unnamedAgain, recorded)
<1>1. /\ stage[p] = "off" /\ UNCHANGED <<config, clock, selfMon, missed>>
      /\ stage' = [stage EXCEPT ![p] = "analyze"]
      /\ Fault(Cardinality(unnamed) + Cardinality(unnamedAgain)
                 + Cardinality(Containers \ seen) + (IF recorded THEN 0 ELSE 1))
      /\ report' = [report EXCEPT ![p] =
           [NoReport EXCEPT !.own = IF recorded THEN Len(log') ELSE 0,
                            !.named = seen \ unnamedAgain,
                            !.todo = {InsightName(c, unnamedAgain) : c \in seen},
                            !.due = seen \cap DueContainers']]
  BY DEF CleanupRun
<1>2. faults' \in 0..MaxFaults
  <2>1. /\ Cardinality(unnamed) \in Nat /\ Cardinality(unnamedAgain) \in Nat
        /\ Cardinality(Containers \ seen) \in Nat
    BY SetsAreFinite
  <2>2. MaxFaults \in Nat /\ faults \in Nat
    BY ReportingAssumption DEF TypeOK
  <2> QED
    BY <1>1, <2>1, <2>2 DEF Fault
<1>3. \/ ~recorded /\ log' = log
      \/ recorded /\ \E e \in History!Entry : Appended(e)
  <2> DEFINE truncated == IF config.dryRun THEN {} ELSE eligible
             row(c) == [name |-> RowName(c, unnamed), time |-> clock,
                        wasTruncated |-> c \in truncated]
             e == [server |-> Server, cleaned |-> Cardinality(truncated), time |-> clock,
                   rows |-> {row(c) : c \in seen}]
  <2>1. \/ ~recorded /\ log' = log
        \/ recorded /\ History!Record(e)
    BY DEF CleanupRun
  <2>2. Cardinality(truncated) \in Nat /\ clock \in Nat
    BY SetsAreFinite DEF TypeOK
  <2>3. ASSUME NEW c \in seen PROVE row(c) \in History!Row
    <3>1. RowName(c, unnamed) \in Names
      BY DEF RowName, Called, Names
    <3>2. (c \in truncated) \in BOOLEAN
      OBVIOUS
    <3> HIDE DEF truncated
    <3> QED
      BY <2>2, <3>1, <3>2 DEF History!Row
  <2>4. {row(c) : c \in seen} \in SUBSET History!Row
    BY <2>3
  <2> HIDE DEF row, truncated
  <2>5. e \in History!Entry
    BY <2>2, <2>4 DEF History!Entry
  <2>6. recorded => Appended(e)
    BY <2>1, <2>5 DEF Appended, History!Record, History!Whole
  <2> QED
    BY <2>1, <2>5, <2>6
<1>4. NoReport \in Report
  BY DEF NoReport, Report
<1>5. /\ (IF recorded THEN Len(log') ELSE 0) \in Nat
      /\ seen \ unnamedAgain \in SUBSET Containers
      /\ {InsightName(c, unnamedAgain) : c \in seen} \in SUBSET Names
      /\ seen \cap DueContainers' \in SUBSET Containers
  <2>1. Len(log') \in Nat
    <3>1. log \in Seq(History!Entry)
      BY DEF TypeOK
    <3>2. ASSUME NEW e \in History!Entry, Appended(e) PROVE log' \in Seq(History!Entry)
      BY <3>1, <3>2, AppendProperties DEF Appended
    <3>3. log' \in Seq(History!Entry)
      BY <1>3, <3>1, <3>2
    <3> QED
      BY <3>3, LenProperties
  <2>2. \A c \in seen : InsightName(c, unnamedAgain) \in Names
    BY DEF InsightName, Called, Names
  <2> QED
    BY <2>1, <2>2 DEF DueContainers
<1> DEFINE own == IF recorded THEN Len(log') ELSE 0
           named == seen \ unnamedAgain
           todo == {InsightName(c, unnamedAgain) : c \in seen}
           due == seen \cap DueContainers'
<1> HIDE DEF own, named, todo, due
<1>6. report' = [report EXCEPT ![p] =
        [NoReport EXCEPT !.own = own, !.named = named, !.todo = todo, !.due = due]]
  BY <1>1 DEF own, named, todo, due
<1>7. report'[p]
        = [NoReport EXCEPT !.own = own, !.named = named, !.todo = todo, !.due = due]
  BY <1>6 DEF TypeOK
<1>8. /\ own \in Nat /\ named \in SUBSET Containers /\ todo \in SUBSET Names
      /\ due \in SUBSET Containers
  BY <1>5 DEF own, named, todo, due
<1>9. /\ report'[p] \in Report
      /\ report'[p].own = own /\ report'[p].named = named
      /\ report'[p].todo = todo /\ report'[p].due = due
      /\ report'[p].failed = NoReport.failed /\ report'[p].recs = NoReport.recs
      /\ report'[p].trend = NoReport.trend
  BY <1>4, <1>7, <1>8 DEF Report
<1>10. NoReport.failed = {} /\ NoReport.recs = {} /\ NoReport.trend = None
  BY DEF NoReport
<1>11. report' = [report EXCEPT ![p] = report'[p]]
  BY <1>6, <1>7
<1> QED
  BY <1>1, <1>2, <1>3, <1>9, <1>10, <1>11 DEF own, named, todo, due, AnalyzeBegins

\* What a query leaves as it is in the report.
OthersKept(p) ==
  /\ report'[p].own = report[p].own /\ report'[p].named = report[p].named
  /\ report'[p].trend = report[p].trend /\ report'[p].due = report[p].due

\* What a query that fails, and one that succeeds, does to the report.
LEMMA AskFailsEffect ==
  ASSUME report \in [Pipelines -> Report], NEW p \in Pipelines,
         NEW n \in report[p].todo, AskFails(p, n)
  PROVE  /\ stage[p] = "analyze" /\ Fault(1)
         /\ UNCHANGED <<config, log, clock, stage, selfMon, missed>>
         /\ report' = [report EXCEPT ![p] = report'[p]]
         /\ report'[p] \in Report /\ OthersKept(p)
         /\ report'[p].todo = report[p].todo \ {n}
         /\ report'[p].failed = report[p].failed \cup {n}
         /\ report'[p].recs = report[p].recs
<1> DEFINE failed == report[p].failed \cup {n}
<1>1. /\ stage[p] = "analyze" /\ Fault(1)
      /\ UNCHANGED <<config, log, clock, stage, selfMon, missed>>
      /\ report' = [report EXCEPT ![p].todo = @ \ {n}, ![p].failed = failed]
  BY DEF AskFails
<1>2. report[p] \in Report /\ n \in Names
  BY DEF Report
<1>3. failed \in SUBSET Names
  BY <1>2 DEF Report
<1> HIDE DEF failed
<1>4. report'[p] = [report[p] EXCEPT !.todo = @ \ {n}, !.failed = failed]
  BY <1>1
<1>5. /\ report'[p] \in Report /\ OthersKept(p)
      /\ report'[p].todo = report[p].todo \ {n}
      /\ report'[p].failed = failed
      /\ report'[p].recs = report[p].recs
  BY <1>2, <1>3, <1>4 DEF Report, OthersKept
<1>6. report' = [report EXCEPT ![p] = report'[p]]
  BY <1>1
<1> QED
  BY <1>1, <1>5, <1>6 DEF failed

\* A query that succeeds recommends a name that reached the count, and no other.
LEMMA AskEffect ==
  ASSUME report \in [Pipelines -> Report], clock \in Nat, CountsRuns,
         NEW p \in Pipelines, NEW n \in report[p].todo, Ask(p, n)
  PROVE  /\ stage[p] = "analyze"
         /\ UNCHANGED <<config, log, clock, stage, selfMon, missed, faults>>
         /\ report' = [report EXCEPT ![p] = report'[p]]
         /\ report'[p] \in Report /\ OthersKept(p)
         /\ report'[p].todo = report[p].todo \ {n}
         /\ report'[p].failed = report[p].failed
         /\ ~CountReaches(n) => report'[p].recs = report[p].recs
         /\ CountReaches(n) => report'[p].recs = report[p].recs
              \cup {[name |-> n, count |-> CleanupCount(n), at |-> clock]}
<1> DEFINE new == [name |-> n, count |-> CleanupCount(n), at |-> clock]
           recs == IF CountReaches(n) THEN report[p].recs \cup {new} ELSE report[p].recs
<1>1. /\ stage[p] = "analyze"
      /\ UNCHANGED <<config, log, clock, stage, selfMon, missed, faults>>
      /\ report' = [report EXCEPT ![p].todo = @ \ {n}, ![p].recs = recs]
  BY DEF Ask
<1>2. report[p] \in Report /\ n \in Names
  BY DEF Report
<1>3. new \in [name : Names, count : Nat, at : Nat]
  BY <1>2 DEF CountsRuns
<1>4. recs \in SUBSET [name : Names, count : Nat, at : Nat]
  <2> HIDE DEF new
  <2> QED
    BY <1>2, <1>3 DEF Report
<1> HIDE DEF recs
<1>5. report'[p] = [report[p] EXCEPT !.todo = @ \ {n}, !.recs = recs]
  BY <1>1
<1>6. /\ report'[p] \in Report /\ OthersKept(p)
      /\ report'[p].todo = report[p].todo \ {n}
      /\ report'[p].failed = report[p].failed
      /\ report'[p].recs = recs
  BY <1>2, <1>4, <1>5 DEF Report, OthersKept
<1>7. report' = [report EXCEPT ![p] = report'[p]]
  BY <1>1
<1> QED
  BY <1>1, <1>6, <1>7 DEF recs

----------------------------------------------------------------------------
(* Type correctness.                                                       *)

\* The bookkeeping of a delivery.
CountersTyped ==
  /\ selfMon \in [Counters -> Nat] /\ missed \in [Channels -> Nat]
  /\ faults \in 0..MaxFaults

\* The bound of the failing calls is kept.
LEMMA FaultTyped ==
  ASSUME CountersTyped, NEW n \in Nat, Fault(n)
  PROVE  faults' \in 0..MaxFaults
BY ReportingAssumption DEF CountersTyped, Fault

\* A delivery counts what it lost.
LEMMA SendTyped ==
  ASSUME CountersTyped, NEW ch \in Channels, NEW counter \in Counters,
         NEW outcome \in Outcomes, Send(ch, counter, outcome)
  PROVE  CountersTyped'
<1>1. faults' \in 0..MaxFaults
  BY FaultTyped DEF Send, FaultOf, CountersTyped
<1>2. selfMon' \in [Counters -> Nat]
  BY DEF Send, CountersTyped
<1>3. missed' \in [Channels -> Nat]
  BY DEF Send, CountersTyped
<1> QED
  BY <1>1, <1>2, <1>3 DEF CountersTyped

\* So does the email stage, with or without a delivery.
LEMMA EmailTyped ==
  ASSUME CountersTyped, NEW p \in Pipelines, Email(p)
  PROVE  CountersTyped'
<1>1. CASE \E outcome \in Outcomes : Send("email", "smtp", outcome)
  BY <1>1, SendTyped DEF Channels, Counters
<1>2. CASE UNCHANGED <<selfMon, missed, faults>>
  BY <1>2 DEF CountersTyped
<1>3. CASE missed' = [missed EXCEPT !["email"] = @ + 1] /\ UNCHANGED <<selfMon, faults>>
  BY <1>3 DEF CountersTyped, Channels
<1>4. CASE /\ missed' = [missed EXCEPT !["email"] = @ + 1]
           /\ selfMon' = [selfMon EXCEPT !["smtp"] = @ + 1] /\ UNCHANGED faults
  BY <1>4 DEF CountersTyped, Channels, Counters
<1> QED
  BY <1>1, <1>2, <1>3, <1>4 DEF Email

\* So does the stage of a webhook.
LEMMA NotifyTyped ==
  ASSUME CountersTyped, NEW ch \in {"slack", "teams"}, Notify(ch)
  PROVE  CountersTyped'
<1>1. CASE \E outcome \in Outcomes : Send(ch, "notif", outcome)
  BY <1>1, SendTyped DEF Channels, Counters
<1>2. CASE UNCHANGED <<selfMon, missed, faults>>
  BY <1>2 DEF CountersTyped
<1>3. CASE missed' = [missed EXCEPT ![ch] = @ + 1] /\ UNCHANGED <<selfMon, faults>>
  BY <1>3 DEF CountersTyped, Channels
<1> QED
  BY <1>1, <1>2, <1>3 DEF Notify

\* Every step of every pipeline keeps the types.
LEMMA TypeNext == TypeOK /\ OneRowPerName /\ [Next]_vars => TypeOK'
<1> SUFFICES ASSUME TypeOK, OneRowPerName, [Next]_vars PROVE TypeOK'
  OBVIOUS
<1>t. /\ stage \in [Pipelines -> Stages] /\ report \in [Pipelines -> Report]
      /\ config \in Setting /\ log \in Seq(History!Entry) /\ clock \in 0..MaxClock
      /\ CountersTyped
  BY DEF TypeOK, CountersTyped
<1>k. CountsRuns
  BY <1>t, CleanupsCounted DEF LogSound
<1>1. CASE UNCHANGED vars
  BY <1>1 DEF vars, TypeOK
<1>2. CASE Tick
  <2>1. clock' \in 0..MaxClock
        /\ UNCHANGED <<config, log, stage, selfMon, missed, faults>>
    BY <1>2, <1>t, ReportingAssumption DEF Tick
  <2>2. ASSUME NEW p \in Pipelines
        PROVE  [report[p] EXCEPT !.due = IF stage[p] = "analyze"
                                           THEN @ \cap DueContainers' ELSE @] \in Report
    BY <1>t DEF Report
  <2>3. report' \in [Pipelines -> Report]
    BY <1>2, <2>2 DEF Tick
  <2> QED
    BY <2>1, <2>3 DEF TypeOK
<1>3. ASSUME NEW p \in Pipelines, NEW seen \in SUBSET Containers,
             NEW eligible \in SUBSET seen, NEW unnamed \in SUBSET seen,
             NEW unnamedAgain \in SUBSET seen,
             NEW recorded \in BOOLEAN,
             CleanupRun(p, seen, eligible, unnamed, unnamedAgain, recorded)
      PROVE  TypeOK'
  <2>1. AnalyzeBegins(p, seen, unnamedAgain, recorded)
    BY <1>3, RunEffect
  <2>2. log' \in Seq(History!Entry)
    BY <1>t, <2>1, LogGrows DEF LogSound, AnalyzeBegins
  <2>3. stage' \in [Pipelines -> Stages] /\ report' \in [Pipelines -> Report]
    BY <1>t, <2>1 DEF Stages, AnalyzeBegins
  <2> QED
    BY <1>t, <2>1, <2>2, <2>3 DEF TypeOK, AnalyzeBegins, CountersTyped
<1>4. ASSUME NEW p \in Pipelines, NEW n \in report[p].todo, Ask(p, n) PROVE TypeOK'
  <2>1. clock \in Nat
    BY <1>t
  <2>2. /\ UNCHANGED <<config, log, clock, stage, selfMon, missed, faults>>
        /\ report' = [report EXCEPT ![p] = report'[p]] /\ report'[p] \in Report
    BY <1>4, <1>t, <1>k, <2>1, AskEffect
  <2> QED
    BY <1>t, <2>2 DEF TypeOK, CountersTyped
<1>5. ASSUME NEW p \in Pipelines, NEW n \in report[p].todo, AskFails(p, n) PROVE TypeOK'
  <2>1. /\ UNCHANGED <<config, log, clock, stage, selfMon, missed>> /\ Fault(1)
        /\ report' = [report EXCEPT ![p] = report'[p]] /\ report'[p] \in Report
    BY <1>5, <1>t, AskFailsEffect
  <2>2. faults' \in 0..MaxFaults
    BY <1>t, <2>1, FaultTyped
  <2> QED
    BY <1>t, <2>1, <2>2 DEF TypeOK, CountersTyped
<1>6. ASSUME NEW p \in Pipelines, ListRuns(p) PROVE TypeOK'
  <2>1. /\ UNCHANGED <<config, log, clock, selfMon, missed>>
        /\ stage' = [stage EXCEPT ![p] = "email"]
    BY <1>6 DEF ListRuns
  <2>2. stage' \in [Pipelines -> Stages]
    BY <1>t, <2>1 DEF Stages
  <2>3. CASE Fault(1) /\ UNCHANGED report
    BY <1>t, <2>1, <2>2, <2>3, FaultTyped DEF TypeOK
  <2>4. ASSUME NEW ids \in SUBSET OwnRuns, report' = [report EXCEPT ![p].trend = ids],
               UNCHANGED faults
        PROVE  TypeOK'
    <3>1. ids \in SUBSET Nat
      BY <1>t, LenProperties DEF OwnRuns
    <3>2. report' \in [Pipelines -> Report]
      BY <1>t, <2>4, <3>1 DEF Report
    <3> QED
      BY <2>1, <2>2, <2>4, <3>2 DEF TypeOK
  <2> QED
    BY <1>6, <2>3, <2>4 DEF ListRuns, kSubset
<1>7. ASSUME NEW p \in Pipelines, Email(p) PROVE TypeOK'
  <2>1. /\ UNCHANGED <<config, log, clock>> /\ stage' = [stage EXCEPT ![p] = "slack"]
        /\ report' = [report EXCEPT ![p] = NoReport]
    BY <1>7 DEF Email
  <2>2. NoReport \in Report
    BY DEF NoReport, Report
  <2>3. CountersTyped'
    BY <1>7, <1>t, EmailTyped
  <2> QED
    BY <1>t, <2>1, <2>2, <2>3 DEF TypeOK, Stages, CountersTyped
<1>8. ASSUME NEW p \in Pipelines, NotifySlack(p) \/ NotifyTeams(p) PROVE TypeOK'
  <2>1. /\ UNCHANGED <<config, log, clock, report>>
        /\ stage' = [stage EXCEPT ![p] = "teams"] \/ stage' = [stage EXCEPT ![p] = "off"]
    BY <1>8 DEF NotifySlack, NotifyTeams
  <2>2. CountersTyped'
    BY <1>8, <1>t, NotifyTyped DEF NotifySlack, NotifyTeams
  <2> QED
    BY <1>t, <2>1, <2>2 DEF TypeOK, Stages, CountersTyped
<1> QED
  BY <1>1, <1>2, <1>3, <1>4, <1>5, <1>6, <1>7, <1>8 DEF Next, Pipeline

----------------------------------------------------------------------------
(* The steps.                                                              *)

LogKept == log' = log \/ \E e \in History!Entry : Appended(e)

\* The backing of a recommendation is finite and never shrinks.
LEMMA BackingGrows ==
  ASSUME LogSound, LogKept, NEW n, NEW since, NEW k \in Nat,
         k <= Cardinality(Backing(n, since))
  PROVE  k <= Cardinality(Backing(n, since)')
<1>1. LogSound' /\ \A i \in DOMAIN log : i \in DOMAIN log' /\ log'[i] = log[i]
  BY LogGrows DEF LogKept
<1>2. Len(log') \in Nat /\ DOMAIN log' = 1..Len(log')
  BY <1>1, LenProperties DEF LogSound
<1>3. IsFiniteSet(DOMAIN log')
  BY <1>2, FS_Interval
<1>4. Backing(n, since)' \subseteq DOMAIN log'
  BY DEF Backing
<1>5. IsFiniteSet(Backing(n, since)')
  BY <1>3, <1>4, FS_Subset
<1>6. Backing(n, since) \subseteq Backing(n, since)'
  BY <1>1 DEF Backing
<1>7. /\ Cardinality(Backing(n, since)) \in Nat /\ Cardinality(Backing(n, since)') \in Nat
      /\ Cardinality(Backing(n, since)) <= Cardinality(Backing(n, since)')
  BY <1>5, <1>6, FS_Subset, FS_CardinalityType
<1> QED
  BY <1>7

\* What others do does not hurt a pipeline that makes no step.
LEMMA OthersStay ==
  ASSUME TypeOK, OneRowPerName, LogKept, clock' = clock,
         NEW q \in Pipelines, PipelineInv(q),
         stage'[q] = stage[q], report'[q] = report[q]
  PROVE  PipelineInv(q)'
<1>1. LogSound
  BY DEF LogSound, TypeOK
<1>2. \A i \in DOMAIN log : i \in DOMAIN log' /\ log'[i] = log[i]
  BY <1>1, LogGrows DEF LogKept
<1>3. DueNow(q)'
  BY <1>1, DueGrows DEF PipelineInv, DueNow, LogKept
<1>4. NoneForgotten(q)'
  BY DEF PipelineInv, NoneForgotten, Answered
<1>5. RunsThere(q)'
  BY <1>2 DEF PipelineInv, RunsThere, OwnRuns
<1>6. Backed(q)'
  <2> SUFFICES ASSUME NEW rec \in report[q].recs
               PROVE  /\ TriggerCount <= rec.count
                      /\ rec.count <= Cardinality(Backing(rec.name, rec.at - WindowDays)')
    BY DEF Backed, Backing
  <2>1. rec.count \in Nat
    BY DEF TypeOK, Report
  <2>2. /\ TriggerCount <= rec.count
        /\ rec.count <= Cardinality(Backing(rec.name, rec.at - WindowDays))
    BY DEF PipelineInv, Backed
  <2> QED
    BY <1>1, <2>1, <2>2, BackingGrows
<1>7. OwnShown(q)'
  BY <1>2 DEF PipelineInv, OwnShown, RunsThere, OwnRuns
<1> QED
  BY <1>3, <1>4, <1>5, <1>6, <1>7 DEF PipelineInv

\* The clock only makes containers less due.
LEMMA TickStep ==
  ASSUME ReportInv, Tick, NEW p \in Pipelines
  PROVE  PipelineInv(p)'
<1>1. /\ UNCHANGED <<log, stage>> /\ PipelineInv(p)
      /\ report'[p] = [report[p] EXCEPT !.due = IF stage[p] = "analyze"
                                         THEN @ \cap DueContainers' ELSE @]
      /\ report[p] \in Report
  BY DEF Tick, ReportInv, TypeOK
<1> DEFINE due == IF stage[p] = "analyze" THEN report[p].due \cap DueContainers'
                                          ELSE report[p].due
<1>2. due \subseteq report[p].due /\ (stage[p] = "analyze" => due \subseteq DueContainers')
  OBVIOUS
<1>3. report'[p] = [report[p] EXCEPT !.due = due]
  BY <1>1
<1> HIDE DEF due
<1>4. /\ report'[p].own = report[p].own /\ report'[p].named = report[p].named
      /\ report'[p].trend = report[p].trend /\ report'[p].due = due
      /\ report'[p].todo = report[p].todo /\ report'[p].failed = report[p].failed
      /\ report'[p].recs = report[p].recs
  BY <1>1, <1>3 DEF Report
<1>5. DueNow(p)'
  BY <1>1, <1>2, <1>4 DEF DueNow
<1>6. NoneForgotten(p)'
  BY <1>1, <1>2, <1>4 DEF PipelineInv, NoneForgotten, Answered
<1>7. RunsThere(p)' /\ Backed(p)' /\ OwnShown(p)'
  BY <1>1, <1>4 DEF PipelineInv, RunsThere, OwnRuns, Backed, Backing, OwnShown
<1> QED
  BY <1>5, <1>6, <1>7 DEF PipelineInv

\* Analyze begins with what is due.
LEMMA RunStep ==
  ASSUME ReportInv, NEW p \in Pipelines, NEW seen \in SUBSET Containers,
         NEW unnamedAgain \in SUBSET seen, NEW recorded \in BOOLEAN,
         AnalyzeBegins(p, seen, unnamedAgain, recorded)
  PROVE  PipelineInv(p)'
<1>1. LogSound /\ TypeOK
  BY DEF ReportInv, LogSound, TypeOK
<1>2. stage'[p] = "analyze"
  BY <1>1 DEF AnalyzeBegins, TypeOK
<1>3. DueNow(p)'
  BY DEF AnalyzeBegins, DueNow
<1>4. NoneForgotten(p)'
  <2>1. \A c \in seen \ unnamedAgain :
          InsightName(c, unnamedAgain) = Called("name", c)
    BY DEF InsightName
  <2>2. \A c \in seen \ unnamedAgain : Called("name", c) \in report'[p].todo
    BY <2>1 DEF AnalyzeBegins
  <2> QED
    BY <1>2, <2>2 DEF AnalyzeBegins, NoneForgotten
<1>5. RunsThere(p)' /\ OwnShown(p)'
  <2>1. CASE recorded
    <3>1. PICK e \in History!Entry : Appended(e)
      BY <2>1 DEF AnalyzeBegins
    <3>2. /\ log' \in Seq(History!Entry) /\ Len(log') = Len(log) + 1
          /\ Len(log) \in Nat /\ log'[Len(log) + 1] = e
      BY <1>1, <3>1, AppendProperties, LenProperties DEF Appended, LogSound
    <3>3. DOMAIN log' = 1..(Len(log) + 1)
      BY <3>2, LenProperties
    <3>4. Len(log') \in OwnRuns'
      BY <3>1, <3>2, <3>3 DEF OwnRuns, Appended
    <3> QED
      BY <2>1, <3>4 DEF AnalyzeBegins, RunsThere, OwnShown
  <2>2. CASE ~recorded
    BY <2>2 DEF AnalyzeBegins, RunsThere, OwnShown
  <2> QED
    BY <2>1, <2>2
<1>6. Backed(p)'
  BY DEF AnalyzeBegins, Backed
<1> QED
  BY <1>3, <1>4, <1>5, <1>6 DEF PipelineInv

\* A query that succeeds recommends what is due, and nothing that the log
\* does not back.
LEMMA AskStep ==
  ASSUME ReportInv, NEW p \in Pipelines, NEW n \in report[p].todo, Ask(p, n)
  PROVE  PipelineInv(p)'
<1>1. TypeOK /\ OneRowPerName /\ LogSound /\ PipelineInv(p) /\ clock \in Nat
      /\ report \in [Pipelines -> Report]
  BY DEF ReportInv, LogSound, TypeOK
<1>2. CountsRuns
  BY <1>1, CleanupsCounted
<1>3. /\ stage[p] = "analyze"
      /\ UNCHANGED <<config, log, clock, stage, selfMon, missed, faults>>
      /\ OthersKept(p)
      /\ report'[p].todo = report[p].todo \ {n}
      /\ report'[p].failed = report[p].failed
      /\ ~CountReaches(n) => report'[p].recs = report[p].recs
      /\ CountReaches(n) => report'[p].recs = report[p].recs
           \cup {[name |-> n, count |-> CleanupCount(n), at |-> clock]}
  BY <1>1, <1>2, AskEffect
<1>4. DueNow(p)' /\ RunsThere(p)' /\ OwnShown(p)'
  <2>1. DueContainers' = DueContainers
    BY <1>3 DEF DueContainers, CleanupCount, Cleanups, InWindow
  <2>2. DueNow(p)'
    BY <1>1, <1>3, <2>1 DEF PipelineInv, DueNow, OthersKept
  <2>3. RunsThere(p)' /\ OwnShown(p)'
    BY <1>1, <1>3 DEF PipelineInv, RunsThere, OwnShown, OthersKept, OwnRuns
  <2> QED
    BY <2>2, <2>3
<1>5. NoneForgotten(p)'
  <2>1. ASSUME NEW c \in report[p].due \cap report[p].named
        PROVE  Called("name", c) \in report'[p].todo \/ Answered(p, c)'
    <3>1. CASE Answered(p, c)
      BY <1>3, <3>1 DEF Answered
    <3>2. CASE Called("name", c) \in report[p].todo /\ Called("name", c) # n
      BY <1>3, <3>2
    <3>3. CASE Called("name", c) = n
      <4>1. CountReaches(n)
        BY <1>1, <1>3, <3>3 DEF PipelineInv, DueNow, DueContainers, CountReaches
      <4>2. [name |-> n, count |-> CleanupCount(n), at |-> clock] \in report'[p].recs
        BY <1>3, <4>1
      <4> QED
        BY <3>3, <4>2 DEF Answered
    <3> QED
      BY <1>1, <3>1, <3>2, <3>3 DEF PipelineInv, NoneForgotten
  <2> QED
    BY <1>3, <2>1 DEF NoneForgotten, OthersKept
<1>6. Backed(p)'
  <2>1. ASSUME NEW rec \in report'[p].recs
        PROVE  /\ TriggerCount <= rec.count
               /\ rec.count <= Cardinality(Backing(rec.name, rec.at - WindowDays))
    <3>1. CASE rec \in report[p].recs
      BY <1>1, <3>1 DEF PipelineInv, Backed
    <3>2. CASE CountReaches(n)
               /\ rec = [name |-> n, count |-> CleanupCount(n), at |-> clock]
      BY <1>2, <3>2 DEF CountReaches, CountsRuns
    <3> QED
      BY <1>3, <2>1, <3>1, <3>2
  <2> QED
    BY <1>3, <2>1 DEF Backed, Backing
<1> QED
  BY <1>4, <1>5, <1>6 DEF PipelineInv

\* A query that fails is noted.
LEMMA AskFailsStep ==
  ASSUME ReportInv, NEW p \in Pipelines, NEW n \in report[p].todo, AskFails(p, n)
  PROVE  PipelineInv(p)'
<1>1. PipelineInv(p) /\ report \in [Pipelines -> Report]
  BY DEF ReportInv, TypeOK
<1>2. /\ stage[p] = "analyze" /\ UNCHANGED <<log, clock, stage>>
      /\ OthersKept(p)
      /\ report'[p].todo = report[p].todo \ {n}
      /\ report'[p].failed = report[p].failed \cup {n}
      /\ report'[p].recs = report[p].recs
  BY <1>1, AskFailsEffect
<1>3. DueNow(p)'
  BY <1>1, <1>2 DEF PipelineInv, DueNow, OthersKept, DueContainers, CleanupCount,
                    Cleanups, InWindow
<1>4. RunsThere(p)' /\ OwnShown(p)' /\ Backed(p)'
  BY <1>1, <1>2 DEF PipelineInv, RunsThere, OwnShown, OthersKept, OwnRuns, Backed, Backing
<1>5. NoneForgotten(p)'
  BY <1>1, <1>2 DEF PipelineInv, NoneForgotten, OthersKept, Answered
<1> QED
  BY <1>3, <1>4, <1>5 DEF PipelineInv

\* The trend table shows the newest runs: where its own is missing it is full
\* of runs that are not older.
LEMMA ListStep ==
  ASSUME ReportInv, NEW p \in Pipelines, ListRuns(p)
  PROVE  PipelineInv(p)'
<1>1. /\ PipelineInv(p) /\ report[p] \in Report /\ log \in Seq(History!Entry)
      /\ report \in [Pipelines -> Report] /\ stage \in [Pipelines -> Stages]
  BY DEF ReportInv, TypeOK
<1>2. /\ stage[p] = "analyze" /\ report[p].todo = {}
      /\ stage'[p] = "email" /\ UNCHANGED <<log, clock>>
  BY <1>1 DEF ListRuns
<1>3. CASE UNCHANGED report
  BY <1>1, <1>2, <1>3
     DEF PipelineInv, DueNow, NoneForgotten, Answered, RunsThere, OwnRuns, Backed,
         Backing, OwnShown
<1> DEFINE size == IF Cardinality(OwnRuns) < TrendRuns THEN Cardinality(OwnRuns)
                                                       ELSE TrendRuns
<1>4. ASSUME NEW ids \in kSubset(size, OwnRuns),
             \A i \in ids, j \in OwnRuns \ ids : Before(i, j),
             report' = [report EXCEPT ![p].trend = ids]
      PROVE  PipelineInv(p)'
  <2>1. /\ report'[p].own = report[p].own /\ report'[p].named = report[p].named
        /\ report'[p].trend = ids /\ report'[p].due = report[p].due
        /\ report'[p].todo = report[p].todo /\ report'[p].failed = report[p].failed
        /\ report'[p].recs = report[p].recs
    BY <1>1, <1>4 DEF Report
  <2>2. IsFiniteSet(OwnRuns) /\ OwnRuns \subseteq DOMAIN log
    <3>1. Len(log) \in Nat /\ DOMAIN log = 1..Len(log)
      BY <1>1, LenProperties
    <3>2. IsFiniteSet(DOMAIN log)
      BY <3>1, FS_Interval
    <3> QED
      BY <3>2, FS_Subset DEF OwnRuns
  <2>3. ids \subseteq OwnRuns /\ Cardinality(ids) = size
    BY DEF kSubset
  <2>4. DueNow(p)' /\ NoneForgotten(p)' /\ Backed(p)'
    BY <1>1, <1>2, <2>1
       DEF PipelineInv, DueNow, NoneForgotten, Answered, Backed, Backing
  <2>5. RunsThere(p)'
    BY <1>1, <1>2, <2>1, <2>2, <2>3 DEF PipelineInv, RunsThere, OwnRuns
  <2>6. OwnShown(p)'
    <3> SUFFICES ASSUME report[p].own # 0, report[p].own \notin ids
                 PROVE  /\ Cardinality(ids) = TrendRuns
                        /\ \A i \in ids : log[i].time >= log[report[p].own].time
      BY <1>2, <2>1 DEF OwnShown
    <3>1. report[p].own \in OwnRuns \ ids
      BY <1>1 DEF PipelineInv, RunsThere
    <3>2. Cardinality(ids) # Cardinality(OwnRuns)
      BY <2>2, <2>3, <3>1, FS_Subset
    <3> QED
      BY <1>4, <2>3, <3>1, <3>2 DEF Before
  <2> QED
    BY <2>4, <2>5, <2>6 DEF PipelineInv
<1> QED
  BY <1>3, <1>4 DEF ListRuns

\* A report that was sent, and one that was not, is forgotten.
LEMMA DeliveryStep ==
  ASSUME ReportInv, NEW p \in Pipelines, Email(p) \/ NotifySlack(p) \/ NotifyTeams(p)
  PROVE  PipelineInv(p)'
<1>1. /\ PipelineInv(p) /\ report[p] \in Report
      /\ report \in [Pipelines -> Report] /\ stage \in [Pipelines -> Stages]
  BY DEF ReportInv, TypeOK
<1>2. /\ UNCHANGED <<log, clock>> /\ stage[p] # "analyze" /\ stage'[p] # "analyze"
      /\ report'[p] = NoReport \/ report'[p] = report[p]
  BY <1>1 DEF Email, NotifySlack, NotifyTeams
<1>3. CASE report'[p] = NoReport
  BY <1>2, <1>3 DEF NoReport, PipelineInv, DueNow, NoneForgotten, RunsThere, Backed, OwnShown
<1>4. CASE report'[p] = report[p]
  BY <1>1, <1>2, <1>4
     DEF PipelineInv, DueNow, NoneForgotten, Answered, RunsThere, OwnRuns, Backed,
         Backing, OwnShown
<1> QED
  BY <1>2, <1>3, <1>4

\* A step of one pipeline, as the others see it.
LEMMA StepOfOne ==
  ASSUME ReportInv, NEW p \in Pipelines, NEW q \in Pipelines \ {p}, Pipeline(p)
  PROVE  PipelineInv(q)'
<1>1. TypeOK /\ OneRowPerName /\ PipelineInv(q) /\ PipelineInv(p)
      /\ stage \in [Pipelines -> Stages] /\ report \in [Pipelines -> Report]
      /\ clock \in Nat
  BY DEF ReportInv, TypeOK
<1>2. CountsRuns
  BY <1>1, CleanupsCounted DEF LogSound, TypeOK
<1> SUFFICES LogKept /\ clock' = clock /\ stage'[q] = stage[q] /\ report'[q] = report[q]
  BY <1>1, OthersStay
<1>3. ASSUME NEW seen \in SUBSET Containers, NEW eligible \in SUBSET seen,
             NEW unnamed \in SUBSET seen, NEW unnamedAgain \in SUBSET seen, NEW recorded \in BOOLEAN,
             CleanupRun(p, seen, eligible, unnamed, unnamedAgain, recorded)
      PROVE  LogKept /\ clock' = clock /\ stage'[q] = stage[q] /\ report'[q] = report[q]
  <2>1. AnalyzeBegins(p, seen, unnamedAgain, recorded)
    BY <1>1, <1>3, RunEffect
  <2> QED
    BY <1>1, <2>1 DEF AnalyzeBegins, LogKept
<1>4. ASSUME NEW n \in report[p].todo, Ask(p, n) \/ AskFails(p, n)
      PROVE  LogKept /\ clock' = clock /\ stage'[q] = stage[q] /\ report'[q] = report[q]
  BY <1>1, <1>4 DEF Ask, AskFails, LogKept
<1>5. CASE ListRuns(p)
  BY <1>1, <1>5 DEF ListRuns, LogKept
<1>6. CASE Email(p) \/ NotifySlack(p) \/ NotifyTeams(p)
  BY <1>1, <1>6 DEF Email, NotifySlack, NotifyTeams, LogKept
<1> QED
  BY <1>3, <1>4, <1>5, <1>6 DEF Pipeline

\* And as it sees it itself.
LEMMA StepOfOwn ==
  ASSUME ReportInv, NEW p \in Pipelines, Pipeline(p)
  PROVE  PipelineInv(p)' /\ OneRowPerName'
<1>1. TypeOK /\ OneRowPerName /\ LogSound
  BY DEF ReportInv, LogSound, TypeOK
<1>2. ASSUME NEW seen \in SUBSET Containers, NEW eligible \in SUBSET seen,
             NEW unnamed \in SUBSET seen, NEW unnamedAgain \in SUBSET seen, NEW recorded \in BOOLEAN,
             CleanupRun(p, seen, eligible, unnamed, unnamedAgain, recorded)
      PROVE  PipelineInv(p)' /\ OneRowPerName'
  <2>1. AnalyzeBegins(p, seen, unnamedAgain, recorded)
    BY <1>1, <1>2, RunEffect
  <2>2. LogSound'
    BY <1>1, <2>1, LogGrows DEF AnalyzeBegins
  <2> QED
    BY <2>1, <2>2, RunStep DEF LogSound
<1>3. UNCHANGED log => OneRowPerName'
  BY <1>1 DEF OneRowPerName
<1>4. CASE \E n \in report[p].todo : Ask(p, n) \/ AskFails(p, n)
  BY <1>3, <1>4, AskStep, AskFailsStep DEF Ask, AskFails
<1>5. CASE ListRuns(p)
  BY <1>3, <1>5, ListStep DEF ListRuns
<1>6. CASE Email(p) \/ NotifySlack(p) \/ NotifyTeams(p)
  BY <1>3, <1>6, DeliveryStep DEF Email, NotifySlack, NotifyTeams
<1> QED
  BY <1>2, <1>4, <1>5, <1>6 DEF Pipeline

\* Every step keeps ReportInv.
LEMMA ReportNext == ReportInv /\ [Next]_vars => ReportInv'
<1> SUFFICES ASSUME ReportInv, [Next]_vars PROVE ReportInv'
  OBVIOUS
<1>1. TypeOK'
  BY TypeNext DEF ReportInv
<1> SUFFICES OneRowPerName' /\ \A q \in Pipelines : PipelineInv(q)'
  BY <1>1 DEF ReportInv
<1>2. CASE UNCHANGED vars
  BY <1>2
     DEF vars, ReportInv, OneRowPerName, PipelineInv, DueNow, NoneForgotten, Answered,
         RunsThere, OwnRuns, Backed, Backing, OwnShown, DueContainers, CleanupCount,
         Cleanups, InWindow
<1>3. CASE Tick
  <2>1. OneRowPerName'
    BY <1>3 DEF Tick, ReportInv, OneRowPerName
  <2> QED
    BY <1>3, <2>1, TickStep
<1>4. ASSUME NEW p \in Pipelines, Pipeline(p)
      PROVE  OneRowPerName' /\ \A q \in Pipelines : PipelineInv(q)'
  BY <1>4, StepOfOne, StepOfOwn
<1> QED
  BY <1>2, <1>3, <1>4 DEF Next

\* The history a process finds is empty or holds one run of before.
LEMMA ReportInit == Init => ReportInv
<1> SUFFICES ASSUME Init PROVE ReportInv
  OBVIOUS
<1>1. NoReport \in Report
  BY DEF NoReport, Report
<1>2. log \in Seq(History!Entry) /\ OneRowPerName
  <2>1. CASE log = << >>
    BY <2>1, EmptySeq DEF OneRowPerName
  <2>2. ASSUME NEW cs \in SUBSET Containers, log = <<OldRun(cs)>>
        PROVE  log \in Seq(History!Entry) /\ OneRowPerName
    <3> DEFINE row(c) == [name |-> Called("name", c), wasTruncated |-> TRUE, time |-> 0]
               rows == {row(c) : c \in cs}
    <3>1. \A c \in cs : Called("name", c) \in Names
      BY DEF Called, Names
    <3>2. \A c \in cs : row(c) \in History!Row
      <4>1. TRUE \in BOOLEAN /\ 0 \in Nat
        OBVIOUS
      <4> QED
        BY <3>1, <4>1 DEF History!Row
    <3>3. \A c, d \in cs : row(c).name = row(d).name => row(c) = row(d)
      OBVIOUS
    <3>4. rows \in SUBSET History!Row /\ \A r, s \in rows : r.name = s.name => r = s
      <4> HIDE DEF row
      <4> QED
        BY <3>2, <3>3
    <3>5. OldRun(cs) = [server |-> Former, cleaned |-> Cardinality(cs), time |-> 0,
                        rows |-> rows]
      BY DEF OldRun
    <3> HIDE DEF rows
    <3>6. OldRun(cs) \in History!Entry /\ OldRun(cs).rows = rows
      BY <3>4, <3>5, SetsAreFinite DEF History!Entry
    <3>7. log \in Seq(History!Entry) /\ Len(log) = 1 /\ log[1] = OldRun(cs)
      BY <2>2, <3>6
    <3>8. DOMAIN log = 1..1
      BY <3>7, LenProperties
    <3> QED
      BY <3>4, <3>6, <3>7, <3>8 DEF OneRowPerName
  <2> QED
    BY <2>1, <2>2 DEF Init
<1>3. TypeOK
  BY <1>1, <1>2, SettingsAssumption, ReportingAssumption
     DEF Init, TypeOK, Stages, Counters, Channels
<1>4. ASSUME NEW p \in Pipelines PROVE PipelineInv(p)
  <2>1. report[p] = NoReport /\ stage[p] = "off"
    BY DEF Init
  <2> QED
    BY <2>1 DEF NoReport, PipelineInv, DueNow, NoneForgotten, RunsThere, Backed, OwnShown
<1> QED
  BY <1>2, <1>3, <1>4 DEF ReportInv

\* ReportInv holds in every reachable state.
LEMMA ReportAlways == Spec => []ReportInv
BY ReportInit, ReportNext, PTL DEF Spec

----------------------------------------------------------------------------
(* The theorems.                                                           *)

\* Reports, counters and the history stay well-typed: every name a report or
\* a row carries is one of the three a container may have (main.go;
\* recommendation.go).
THEOREM ReportingTyped == Spec => []TypeOK
<1>1. ReportInv => TypeOK
  BY DEF ReportInv
<1> QED
  BY <1>1, ReportAlways, PTL

\* However the clock moves and whichever runs commit while Analyze asks, a
\* recommendation rests on TriggerCount runs of the window
\* (recommendation.go, Analyze; sqlite.go, GetContainerCleanupCount).
THEOREM EveryRecommendationIsBacked == Spec => []RecommendationsAreBacked
<1>1. ReportInv => RecommendationsAreBacked
  BY DEF ReportInv, PipelineInv, Backed, Backing, RecommendationsAreBacked
<1> QED
  BY <1>1, ReportAlways, PTL

\* No container that is due all the while Analyze runs is left out, unless
\* its own inspection or query fails (cleaner.go and insights.go, which name
\* it; recommendation.go, Analyze).
THEOREM NoDueContainerMissed == Spec => []NoneMissed
<1>1. ReportInv => NoneMissed
  BY DEF ReportInv, PipelineInv, NoneForgotten, Answered, NoneMissed
<1> QED
  BY <1>1, ReportAlways, PTL

\* The trend table of a report shows its own run, or is full of runs that
\* are not older (sqlite.go, ListRuns; main.go, pipeline).
THEOREM TrendShowsOwnRun == Spec => []OwnRunInTrend
<1>1. ReportInv => OwnRunInTrend
  BY DEF ReportInv, PipelineInv, OwnShown, OwnRunInTrend
<1> QED
  BY <1>1, ReportAlways, PTL

\* A failure that is counted may lose a report of its channel.
LEMMA FailureCounted ==
  ASSUME TypeOK, LossesAreCounted, UNCHANGED config, NEW ch \in Channels,
         missed' = missed \/ missed' = [missed EXCEPT ![ch] = @ + 1],
         IF ch = "email" THEN selfMon' = [selfMon EXCEPT !["smtp"] = @ + 1]
                         ELSE selfMon' = [selfMon EXCEPT !["notif"] = @ + 1]
  PROVE  LossesAreCounted'
<1>1. /\ selfMon \in [Counters -> Nat] /\ missed \in [Channels -> Nat]
      /\ Counters = {"smtp", "notif"} /\ Channels = {"email", "slack", "teams"}
  BY DEF TypeOK, Counters, Channels
<1>2. /\ missed["email"] \in Nat /\ missed["slack"] \in Nat /\ missed["teams"] \in Nat
      /\ selfMon["smtp"] \in Nat /\ selfMon["notif"] \in Nat
  BY <1>1
<1>3. \A c \in {"slack", "teams"} :
        /\ Countable(c) \in Nat
        /\ missed'[c] = missed[c] => Countable(c)' = Countable(c)
        /\ missed'[c] = missed[c] + 1 => Countable(c)' \in {Countable(c), Countable(c) + 1}
  BY <1>2 DEF Countable
<1>4. CASE ch = "email"
  <2>1. /\ missed'["email"] \in Nat /\ missed'["email"] <= missed["email"] + 1
        /\ missed'["slack"] = missed["slack"] /\ missed'["teams"] = missed["teams"]
        /\ selfMon'["smtp"] = selfMon["smtp"] + 1 /\ selfMon'["notif"] = selfMon["notif"]
    BY <1>1, <1>2, <1>4
  <2>2. Countable("slack")' = Countable("slack") /\ Countable("teams")' = Countable("teams")
    BY <1>3, <2>1
  <2>3. missed["email"] <= selfMon["smtp"] => missed'["email"] <= selfMon'["smtp"]
    BY <1>2, <2>1
  <2> QED
    BY <2>1, <2>2, <2>3 DEF LossesAreCounted
<1>5. CASE ch # "email"
  <2>1. /\ missed'["email"] = missed["email"]
        /\ \/ /\ missed'["slack"] = missed["slack"]
              /\ missed'["teams"] = missed["teams"]
           \/ /\ missed'["slack"] = missed["slack"] + 1
              /\ missed'["teams"] = missed["teams"]
           \/ /\ missed'["slack"] = missed["slack"]
              /\ missed'["teams"] = missed["teams"] + 1
        /\ selfMon'["smtp"] = selfMon["smtp"] /\ selfMon'["notif"] = selfMon["notif"] + 1
    BY <1>1, <1>2, <1>5
  <2>2. /\ Countable("slack") \in Nat /\ Countable("slack")' \in Nat
        /\ Countable("teams") \in Nat /\ Countable("teams")' \in Nat
        /\ Countable("slack")' + Countable("teams")'
             <= Countable("slack") + Countable("teams") + 1
    BY <1>3, <2>1
  <2>3. Countable("slack") + Countable("teams") <= selfMon["notif"] =>
          Countable("slack")' + Countable("teams")' <= selfMon'["notif"]
    BY <1>2, <2>1, <2>2
  <2> QED
    BY <2>1, <2>3 DEF LossesAreCounted
<1> QED
  BY <1>4, <1>5

\* A delivery that is lost is counted in the same step, or is one of those
\* that nothing counts.
LEMMA LossNext == TypeOK /\ LossesAreCounted /\ [Next]_vars => LossesAreCounted'
<1> SUFFICES ASSUME TypeOK, LossesAreCounted, [Next]_vars PROVE LossesAreCounted'
  OBVIOUS
<1>t. /\ selfMon \in [Counters -> Nat] /\ missed \in [Channels -> Nat]
      /\ Counters = {"smtp", "notif"} /\ Channels = {"email", "slack", "teams"}
  BY DEF TypeOK, Counters, Channels
<1>1. CASE UNCHANGED <<config, selfMon, missed>>
  BY <1>1 DEF LossesAreCounted, Countable
<1>2. ASSUME UNCHANGED config, NEW outcome \in Outcomes, NEW ch \in Channels,
             IF ch = "email" THEN Send(ch, "smtp", outcome) ELSE Send(ch, "notif", outcome)
      PROVE  LossesAreCounted'
  <2>1. CASE outcome = "ok"
    BY <1>1, <1>2, <2>1 DEF Send, Accepted
  <2>2. CASE outcome # "ok"
    BY <1>2, <2>2, FailureCounted DEF Send, Accepted
  <2> QED
    BY <2>1, <2>2
<1>3. ASSUME NEW p \in Pipelines, Email(p) PROVE LossesAreCounted'
  <2>1. UNCHANGED config
    BY <1>3 DEF Email
  <2>2. CASE UNCHANGED <<selfMon, missed, faults>>
    BY <1>1, <2>1, <2>2
  <2>3. CASE config.email = "no theme" /\ UNCHANGED selfMon
             /\ missed' = [missed EXCEPT !["email"] = @ + 1]
    BY <1>t, <2>1, <2>3 DEF LossesAreCounted, Countable
  <2>4. CASE /\ missed' = [missed EXCEPT !["email"] = @ + 1]
             /\ selfMon' = [selfMon EXCEPT !["smtp"] = @ + 1]
    BY <1>t, <2>1, <2>4, FailureCounted
  <2>5. CASE \E outcome \in Outcomes : Send("email", "smtp", outcome)
    BY <1>2, <1>t, <2>1, <2>5
  <2> QED
    BY <1>3, <2>2, <2>3, <2>4, <2>5 DEF Email
<1>4. ASSUME NEW ch \in {"slack", "teams"}, Notify(ch), UNCHANGED config
      PROVE  LossesAreCounted'
  <2>1. CASE UNCHANGED <<selfMon, missed, faults>>
    BY <1>1, <1>4, <2>1
  <2>2. CASE config[ch] = "no url" /\ UNCHANGED selfMon
             /\ missed' = [missed EXCEPT ![ch] = @ + 1]
    BY <1>t, <1>4, <2>2 DEF LossesAreCounted, Countable
  <2>3. CASE \E outcome \in Outcomes : Send(ch, "notif", outcome)
    BY <1>2, <1>4, <1>t, <2>3
  <2> QED
    BY <1>4, <2>1, <2>2, <2>3 DEF Notify
<1>5. ASSUME NEW p \in Pipelines, NotifySlack(p) \/ NotifyTeams(p)
      PROVE  LossesAreCounted'
  BY <1>4, <1>5 DEF NotifySlack, NotifyTeams
<1>6. ASSUME NEW p \in Pipelines, ListRuns(p) PROVE LossesAreCounted'
  BY <1>1, <1>6 DEF ListRuns
<1>7. ASSUME NEW p \in Pipelines, NEW n \in report[p].todo, Ask(p, n) \/ AskFails(p, n)
      PROVE  LossesAreCounted'
  BY <1>1, <1>7 DEF Ask, AskFails
<1>8. ASSUME NEW p \in Pipelines, NEW seen \in SUBSET Containers,
             NEW eligible \in SUBSET seen, NEW unnamed \in SUBSET seen,
             NEW unnamedAgain \in SUBSET seen,
             NEW recorded \in BOOLEAN,
             CleanupRun(p, seen, eligible, unnamed, unnamedAgain, recorded)
      PROVE  LossesAreCounted'
  BY <1>1, <1>8 DEF CleanupRun
<1>9. CASE Tick \/ UNCHANGED vars
  BY <1>1, <1>9 DEF Tick, vars
<1> QED
  BY <1>3, <1>5, <1>6, <1>7, <1>8, <1>9 DEF Next, Pipeline

\* The self-monitor counts at least as many failures as reports were lost,
\* but for a theme without a template and a webhook without a URL (main.go,
\* pipeline; sender.go; slack.go; teams.go).
THEOREM EveryLossIsCounted == Spec => []LossesAreCounted
<1>1. Init => LossesAreCounted
  BY DEF Init, LossesAreCounted, Countable, Channels, Counters
<1> QED
  BY <1>1, LossNext, ReportingTyped, PTL DEF Spec
=============================================================================
