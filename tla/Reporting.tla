------------------------------ MODULE Reporting ------------------------------
(***************************************************************************)
(* From a run to its report: the two names the cleaner gives a container,  *)
(* the history (RunLog), the recommendations (reporting/recommendation.go),*)
(* the trend table (ListRuns), and the deliveries by email, Slack and      *)
(* Teams (cmd/agent/main.go from line 95, internal/email,                  *)
(* internal/notification).                                                 *)
(*                                                                         *)
(* Only Run is serialised: while one pipeline asks its queries or sends    *)
(* its report, the run of another commits, and the clock moves.  The       *)
(* history may hold runs recorded under an earlier server_id.              *)
(***************************************************************************)
EXTENDS Integers, Sequences, FiniteSets, FiniteSetsExt

CONSTANTS
  Pipelines,     \* goroutines that execute the pipeline
  Containers,
  Server,        \* cfg.ServerID
  Former,        \* the server_id under which older runs were recorded
  WindowDays,    \* recommendations.window_days
  TriggerCount,  \* recommendations.trigger_count
  TrendRuns,     \* how many runs the trend table asks for
  Settings,      \* configurations to consider
  Large,         \* the sets of logs to consider that are over the threshold
  MaxRuns,       \* bound: recorded runs
  MaxFaults,     \* bound: calls that fail
  MaxClock,      \* bound: the clock
  None

ASSUME ReportingAssumption ==
  /\ IsFiniteSet(Containers) /\ Server # Former
  /\ WindowDays \in Nat /\ TriggerCount \in Int /\ TrendRuns \in Nat \ {0}
  /\ MaxRuns \in Nat /\ MaxFaults \in Nat /\ MaxClock \in Nat

VARIABLES
  config,   \* how the channels are configured
  log,      \* the history: see RunLog
  clock,
  stage,    \* stage[p]: the step of the pipeline p executes next
  report,   \* report[p]: what p's pipeline has gathered
  selfMon,  \* the SelfMonitor's counters
  missed,   \* auxiliary: missed[ch]: reports the recipient of an enabled
            \* channel never got
  faults

vars == <<config, log, clock, stage, report, selfMon, missed, faults>>

Channels == {"email", "slack", "teams"}
Counters == {"smtp", "notif"}

\* The configurations that matter: a dry run; email without a host, with a
\* theme that has no template; a webhook without a URL.
Setting == [dryRun : BOOLEAN,
            email : {"off", "no host", "no theme", "on"},
            slack : {"off", "no url", "on"},
            teams : {"off", "no url", "on"}]

ASSUME SettingsAssumption == Settings \subseteq Setting /\ Large \subseteq SUBSET Containers

\* What a container may be called: by Docker, by its full ID where the
\* cleaner's inspection failed, by 12 characters of it where the inspection
\* of CollectInsights failed.
Called(kind, c) == <<kind, c>>
Names == {"name", "id", "short"} \X Containers

History == INSTANCE RunLog WITH Servers <- {Server, Former}

Stages == {"off", "analyze", "email", "slack", "teams"}

\* What a pipeline has gathered: the id of its run (0 if it was not
\* recorded); the names of its insights Analyze has yet to ask about and
\* those whose query failed; the recommendations, each with the time it was
\* made; the trend table; and (auxiliary) the containers the second
\* inspection could name, and those that have been due since Analyze began,
\* as far as they were seen.
Report == [own      : Nat,
           named    : SUBSET Containers,
           todo     : SUBSET Names,
           failed   : SUBSET Names,
           recs     : SUBSET [name : Names, count : Nat, at : Nat],
           trend    : (SUBSET Nat) \cup {None},
           due      : SUBSET Containers]

NoReport == [own |-> 0, named |-> {}, todo |-> {}, failed |-> {},
             recs |-> {}, trend |-> None, due |-> {}]

\* A run that was recorded before this process was started.
OldRun(cs) ==
  [server |-> Former, cleaned |-> Cardinality(cs), time |-> 0,
   rows |-> {[name |-> Called("name", c), wasTruncated |-> TRUE, time |-> 0] : c \in cs}]

Init ==
  /\ config \in Settings
  /\ log \in {<< >>} \cup {<<OldRun(cs)>> : cs \in SUBSET Containers \ {{}}}
  /\ clock = 0
  /\ stage = [p \in Pipelines |-> "off"]
  /\ report = [p \in Pipelines |-> NoReport]
  /\ selfMon = [counter \in Counters |-> 0]
  /\ missed = [ch \in Channels |-> 0]
  /\ faults = 0

Fault(n) == faults + n <= MaxFaults /\ faults' = faults + n

----------------------------------------------------------------------------
(* Recommendations.                                                        *)

\* Mutant: the time condition is lost.
AnyTime(row) == TRUE

\* timestamp >= datetime('now', '-N days')
InWindow(row) == row.time >= clock - WindowDays

\* GetContainerCleanupCount: the rows of every server count, and whether or
\* not the container was truncated.
Cleanups(n) ==
  UNION {{i} \X {row \in log[i].rows : row.name = n /\ InWindow(row)} : i \in DOMAIN log}
CleanupCount(n) == Cardinality(Cleanups(n))

\* The containers a history of the window shows often enough under the name
\* Docker gives them.
DueContainers == {c \in Containers : CleanupCount(Called("name", c)) >= TriggerCount}

\* Mutant: Docker's leading slash is left on.
SlashedName(c, unnamed) ==
  IF c \in unnamed THEN Called("id", c) ELSE Called("/name", c)

\* Where the cleaner's own inspection fails the entry is named by the ID.
RowName(c, unnamed) == IF c \in unnamed THEN Called("id", c) ELSE Called("name", c)

\* Mutant: the name of the second inspection is not used.
IdOnly(c, unnamed) == Called("short", c)

\* Where the second inspection fails the insight is named by cid[:12].
InsightName(c, unnamed) ==
  IF c \in unnamed THEN Called("short", c) ELSE Called("name", c)

\* A cleanup cycle as its pipeline sees it: which logs could be read; which of
\* these the policy cleaned, or in a dry run would have (the rest is small, or
\* as well excluded or impossible to truncate); of which containers the inspections
\* failed; and whether RecordRun succeeded.  A row is written for every log
\* that could be read.  RunLog says that the run appears in one step.  Analyze
\* begins.
CleanupRun(p, seen, eligible, unnamed, unnamedAgain, recorded) ==
  /\ stage[p] = "off" /\ Len(log) < MaxRuns
  /\ Fault(Cardinality(unnamed) + Cardinality(unnamedAgain)
             + Cardinality(Containers \ seen) + (IF recorded THEN 0 ELSE 1))
  /\ \/ /\ recorded
        /\ LET truncated == IF config.dryRun THEN {} ELSE eligible IN
           History!Record(
             [server |-> Server, cleaned |-> Cardinality(truncated), time |-> clock,
              rows |-> {[name |-> RowName(c, unnamed), time |-> clock,
                         wasTruncated |-> c \in truncated] : c \in seen}])
     \/ ~recorded /\ UNCHANGED log
  /\ UNCHANGED <<config, clock, selfMon, missed>>
  /\ report' = [report EXCEPT ![p] =
       [NoReport EXCEPT !.own = IF recorded THEN Len(log') ELSE 0,
                        !.named = seen \ unnamedAgain,
                        !.todo = {InsightName(c, unnamedAgain) : c \in seen},
                        !.due = seen \cap DueContainers']]
  /\ stage' = [stage EXCEPT ![p] = "analyze"]

CountReaches(n) == CleanupCount(n) >= TriggerCount

\* One iteration of Analyze's loop, the query succeeding.
Ask(p, n) ==
  /\ stage[p] = "analyze" /\ n \in report[p].todo
  /\ report' = [report EXCEPT
       ![p].todo = @ \ {n},
       ![p].recs = IF CountReaches(n)
                     THEN @ \cup {[name |-> n, count |-> CleanupCount(n), at |-> clock]}
                     ELSE @]
  /\ UNCHANGED <<config, log, clock, stage, selfMon, missed, faults>>

\* One iteration of Analyze's loop, the query failing: on to the next name.
AskFails(p, n) ==
  /\ stage[p] = "analyze" /\ n \in report[p].todo
  /\ Fault(1)
  /\ report' = [report EXCEPT ![p].todo = @ \ {n}, ![p].failed = @ \cup {n}]
  /\ UNCHANGED <<config, log, clock, stage, selfMon, missed>>

----------------------------------------------------------------------------
(* The trend table.                                                        *)

OwnRuns == {i \in DOMAIN log : log[i].server = Server}

\* Mutant: ORDER BY timestamp without DESC.
OldestFirst(i, j) == log[i].time <= log[j].time

\* ORDER BY timestamp DESC
Before(i, j) == log[i].time >= log[j].time

\* Analyze is over; ListRuns.  Its error is dropped, and the report then has
\* no table.  The report is built.
ListRuns(p) ==
  /\ stage[p] = "analyze" /\ report[p].todo = {}
  /\ \/ \E ids \in kSubset(IF Cardinality(OwnRuns) < TrendRuns
                             THEN Cardinality(OwnRuns) ELSE TrendRuns, OwnRuns) :
          /\ \A i \in ids, j \in OwnRuns \ ids : Before(i, j)
          /\ report' = [report EXCEPT ![p].trend = ids]
          /\ UNCHANGED faults
     \/ Fault(1) /\ UNCHANGED report
  /\ stage' = [stage EXCEPT ![p] = "email"]
  /\ UNCHANGED <<config, log, clock, selfMon, missed>>

----------------------------------------------------------------------------
(* Deliveries.                                                             *)

\* What becomes of a message: "ok" (it arrived and was accepted, for Slack
\* with 200, for Teams also with 202); "refused" (another answer, or the
\* client was not able to send it); "late" (it arrived, but the answer did
\* not come within the 10 seconds of the client, or the context expired).
Outcomes == {"ok", "refused", "late"}

FaultOf(outcome) == IF outcome = "ok" THEN UNCHANGED faults ELSE Fault(1)

\* Mutant: an answer is an answer, whatever its status.
AnyStatus(outcome) == outcome # "late"

\* Send, Notify and post return nil.
Accepted(outcome) == outcome = "ok"

\* The step of the pipeline ends with or without an error, which is counted.
Send(ch, counter, outcome) ==
  /\ FaultOf(outcome)
  /\ selfMon' = IF Accepted(outcome) THEN selfMon
                ELSE [selfMon EXCEPT ![counter] = @ + 1]
  /\ missed' = IF outcome = "refused" THEN [missed EXCEPT ![ch] = @ + 1] ELSE missed

\* RenderReport and Sender.Send.  What the report says is of no consequence
\* from here on.
Email(p) ==
  /\ stage[p] = "email"
  /\ \/ config.email = "off" /\ UNCHANGED <<selfMon, missed, faults>>
     \/ /\ config.email = "no theme"  \* only logged
        /\ missed' = [missed EXCEPT !["email"] = @ + 1]
        /\ UNCHANGED <<selfMon, faults>>
     \/ /\ config.email = "no host"
        /\ missed' = [missed EXCEPT !["email"] = @ + 1]
        /\ selfMon' = [selfMon EXCEPT !["smtp"] = @ + 1]
        /\ UNCHANGED faults
     \/ /\ config.email = "on"
        /\ \E outcome \in Outcomes : Send("email", "smtp", outcome)
  /\ stage' = [stage EXCEPT ![p] = "slack"]
  /\ report' = [report EXCEPT ![p] = NoReport]
  /\ UNCHANGED <<config, log, clock>>

\* Notify, which without a URL returns nil.
Notify(ch) ==
  \/ config[ch] = "off" /\ UNCHANGED <<selfMon, missed, faults>>
  \/ /\ config[ch] = "no url"
     /\ missed' = [missed EXCEPT ![ch] = @ + 1]
     /\ UNCHANGED <<selfMon, faults>>
  \/ /\ config[ch] = "on"
     /\ \E outcome \in Outcomes : Send(ch, "notif", outcome)

NotifySlack(p) ==
  /\ stage[p] = "slack"
  /\ Notify("slack")
  /\ stage' = [stage EXCEPT ![p] = "teams"]
  /\ UNCHANGED <<config, log, clock, report>>

\* The last step of the pipeline.
NotifyTeams(p) ==
  /\ stage[p] = "teams"
  /\ Notify("teams")
  /\ stage' = [stage EXCEPT ![p] = "off"]
  /\ UNCHANGED <<config, log, clock, report>>

----------------------------------------------------------------------------

\* Time passes, and rows fall out of the window.
Tick ==
  /\ clock < MaxClock
  /\ clock' = clock + 1
  /\ UNCHANGED <<config, log, stage, selfMon, missed, faults>>
  /\ report' = [p \in Pipelines |->
       [report[p] EXCEPT !.due = IF stage[p] = "analyze" THEN @ \cap DueContainers' ELSE @]]

Pipeline(p) ==
  \/ \E seen \in SUBSET Containers, large \in Large, recorded \in BOOLEAN :
       \E unnamed, unnamedAgain \in SUBSET seen :
         CleanupRun(p, seen, seen \cap large, unnamed, unnamedAgain, recorded)
  \/ \E n \in report[p].todo : Ask(p, n) \/ AskFails(p, n)
  \/ ListRuns(p) \/ Email(p) \/ NotifySlack(p) \/ NotifyTeams(p)

Next == Tick \/ \E p \in Pipelines : Pipeline(p)

Spec == Init /\ [][Next]_vars

----------------------------------------------------------------------------
(* Properties.                                                             *)

TypeOK ==
  /\ config \in Setting
  /\ log \in Seq(History!Entry)
  /\ clock \in 0..MaxClock
  /\ stage \in [Pipelines -> Stages]
  /\ report \in [Pipelines -> Report]
  /\ selfMon \in [Counters -> Nat]
  /\ missed \in [Channels -> Nat]
  /\ faults \in 0..MaxFaults

\* A recommendation is backed by at least TriggerCount different runs that
\* were inside the window when it was made, although the clock moves and
\* other runs commit while Analyze asks its queries.
RecommendationsAreBacked ==
  \A p \in Pipelines : \A rec \in report[p].recs :
    LET backing == {i \in DOMAIN log : \E row \in log[i].rows :
                      row.name = rec.name /\ row.time >= rec.at - WindowDays} IN
    TriggerCount <= rec.count /\ rec.count <= Cardinality(backing)

\* A container that all the time Analyze ran has been in TriggerCount runs
\* of the window in which Docker was able to name it, that CollectInsights
\* could name too, and whose own query did not fail, is recommended: the
\* cleaner, which names it in the history, and CollectInsights, which names
\* it to Analyze, mean the same, under whatever server_id the runs were
\* recorded and whichever other inspections and queries failed.
NoneMissed ==
  \A p \in Pipelines : stage[p] \notin {"off", "analyze"} =>
    \A c \in report[p].due \cap report[p].named : LET n == Called("name", c) IN
      n \in report[p].failed \/ \E rec \in report[p].recs : rec.name = n

\* The trend table of a report shows the run it reports on, if that was
\* recorded and the query succeeded, unless runs that commit between the two
\* fill the table: it is never an older run that takes its place.
OwnRunInTrend ==
  \A p \in Pipelines :
    report[p].own # 0 /\ report[p].trend # None =>
      \/ report[p].own \in report[p].trend
      \/ /\ Cardinality(report[p].trend) = TrendRuns
         /\ \A i \in report[p].trend : log[i].time >= log[report[p].own].time

\* The losses of a webhook that has a URL.
Countable(ch) == IF config[ch] = "no url" THEN 0 ELSE missed[ch]

\* No report is lost in silence: whatever goes wrong with a message, however
\* the pipelines overlap, there are at least as many failures in the
\* self-monitor as reports that did not arrive; except that a theme without
\* a template is only logged, and a webhook without a URL not even that.
LossesAreCounted ==
  /\ config.email # "no theme" => missed["email"] <= selfMon["smtp"]
  /\ Countable("slack") + Countable("teams") <= selfMon["notif"]

----------------------------------------------------------------------------
(* What a comment says and the code does not guarantee.                    *)

\* recommendation.go: recommendations are for "containers that have been
\* cleaned >= triggerCount times".  A recommended container has been cleaned
\* at least once: even that is refuted.
RecommendedWereCleaned ==
  \A p \in Pipelines : \A rec \in report[p].recs :
    \E i \in DOMAIN log : \E row \in log[i].rows :
      row.name = rec.name /\ row.wasTruncated

=============================================================================
