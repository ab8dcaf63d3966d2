---------------------------- MODULE HistoryStore ----------------------------
(***************************************************************************)
(* The SQLite history (storage/sqlite.go) and the handlers of the HTTP API *)
(* that read it (server/api.go).                                           *)
(*                                                                         *)
(* RecordRun writes a run and one row per container in a transaction, a    *)
(* statement at a time; any statement may fail, the context may expire and *)
(* the process may die between two of them, and be started again under     *)
(* another server_id on the same file.  Only the goroutine that holds      *)
(* cleaner.mu calls RecordRun, so there is one writer.  The handlers read  *)
(* at the same time, one query each.  CURRENT_TIMESTAMP is the time of the *)
(* statement, not of the transaction, and has a resolution of a second;    *)
(* the clock here counts the units of the window.                          *)
(***************************************************************************)
EXTENDS Integers, Sequences, FiniteSets, FiniteSetsExt

CONSTANTS
  Servers,        \* values of server_id
  Names,          \* container names a row may carry
  DefaultLimit,   \* limit of a request that gives none
  MaxLimit,       \* largest limit a request may ask for
  DefaultWindow,  \* window_days of a request that gives none
  MaxWindow,      \* largest window_days a request may ask for
  MaxRuns,        \* bound: committed runs
  MaxFails,       \* bound: transactions that fail, and deaths of the process
  MaxClock,       \* bound: the clock
  Junk,           \* a parameter that is no integer
  None

ASSUME NamesAssumption == IsFiniteSet(Names) /\ None \notin Names
ASSUME ServersAssumption == Servers # {} /\ None \notin Servers
ASSUME LimitAssumption ==
  /\ MaxLimit \in Nat \ {0} /\ DefaultLimit \in 1..MaxLimit
  /\ MaxWindow \in Nat \ {0} /\ DefaultWindow \in 1..MaxWindow
ASSUME BoundsAssumption ==
  MaxRuns \in Nat /\ MaxFails \in Nat /\ MaxClock \in Nat

VARIABLES
  server,  \* cfg.ServerID of the running process
  runs,    \* committed rows of cleanup_runs; a row's id is its index
  cleans,  \* committed rows of container_cleans
  tx,      \* the open transaction of RecordRun, or None
  clock,   \* the time CURRENT_TIMESTAMP and datetime('now') give
  answer,  \* what a client of the API was last told, or None
  fails

tables == <<runs, cleans>>
vars == <<server, tables, tx, clock, answer, fails>>

\* A row of container_cleans.
CleanRow == [run : Nat \ {0}, name : Names, wasTruncated : BOOLEAN, time : Nat]

\* A row of cleanup_runs.
Run == [server : Servers, cleaned : Nat, time : Nat]

\* What the cleaner hands to RecordRun: the container entries, which of them
\* were truncated, and their count.
Input == [names : SUBSET Names, truncated : SUBSET Names, cleaned : Nat]

\* A transaction: what it has inserted so far.
Tx == [input : Input, inserted : BOOLEAN, id : Nat, time : Nat,
       rows : SUBSET CleanRow]

\* A response: the runs listed, and (auxiliary) of which ones; or the
\* totals; or the frequencies of the containers listed.
Answer ==
  [kind : {"history"}, server : Servers,
   found : SUBSET [id : Nat, run : Run], of : SUBSET Nat]
  \cup [kind : {"stats"}, server : Servers, runs : Nat, cleaned : Nat]
  \cup [kind : {"containers"}, server : Servers,
        counts : SUBSET [name : Names, count : Nat]]

\* storage.New on a file without tables.
Init ==
  /\ server \in Servers
  /\ runs = << >>
  /\ cleans = {}
  /\ tx = None
  /\ clock = 0
  /\ answer = None
  /\ fails = 0

----------------------------------------------------------------------------
(* RecordRun.                                                              *)

\* BeginTx.  The entries are distinct containers, and Docker's names are
\* unique.
Begin(names, truncated) ==
  /\ tx = None /\ Len(runs) < MaxRuns
  /\ tx' = [input |-> [names |-> names, truncated |-> truncated,
                       cleaned |-> Cardinality(truncated)],
            inserted |-> FALSE, id |-> 0, time |-> 0, rows |-> {}]
  /\ UNCHANGED <<server, tables, clock, answer, fails>>

\* Mutant: the result of the insert is not asked for its id.
NoInsertId == 0

\* Mutant: the id of the last run that was committed.
LastCommittedId == IF Len(runs) = 0 THEN 1 ELSE Len(runs)

\* The id follows the last committed one, since a rollback also takes back
\* the AUTOINCREMENT.
LastInsertId == Len(runs) + 1

\* INSERT INTO cleanup_runs.
InsertRun ==
  /\ tx # None /\ ~tx.inserted
  /\ tx' = [tx EXCEPT !.inserted = TRUE, !.id = LastInsertId, !.time = clock]
  /\ UNCHANGED <<server, tables, clock, answer, fails>>

\* Mutant: the container rows are inserted outside the transaction.
InsertUnguarded(row) ==
  /\ cleans' = cleans \cup {row}
  /\ tx' = [tx EXCEPT !.rows = @ \cup {row}]

\* tx.ExecContext of one row of container_cleans.
Insert(row) ==
  /\ tx' = [tx EXCEPT !.rows = @ \cup {row}]
  /\ UNCHANGED cleans

NotInserted(n) == \A row \in tx.rows : row.name # n

\* One iteration of the loop over input.Containers.
InsertContainer(n) ==
  /\ tx # None /\ tx.inserted
  /\ n \in tx.input.names /\ NotInserted(n)
  /\ Insert([run |-> tx.id, name |-> n,
             wasTruncated |-> n \in tx.input.truncated, time |-> clock])
  /\ UNCHANGED <<server, runs, clock, answer, fails>>

AllInserted == {row.name : row \in tx.rows} = tx.input.names

\* The row of cleanup_runs the transaction has inserted.
TxRun == [server |-> server, cleaned |-> tx.input.cleaned, time |-> tx.time]

\* tx.Commit.
Commit ==
  /\ tx # None /\ tx.inserted
  /\ AllInserted
  /\ runs' = Append(runs, TxRun)
  /\ cleans' = cleans \cup tx.rows
  /\ tx' = None
  /\ UNCHANGED <<server, clock, answer, fails>>

\* A statement or the commit fails, or the context expires: RecordRun returns
\* an error and the deferred tx.Rollback() undoes the rest.
Rollback ==
  /\ tx # None /\ fails < MaxFails
  /\ tx' = None
  /\ fails' = fails + 1
  /\ UNCHANGED <<server, tables, clock, answer>>

----------------------------------------------------------------------------
(* The handlers.  A query that fails is answered with status 500 and       *)
(* tells the client nothing.                                               *)

\* The values a query parameter may be sent with; None if it is missing.
Sent(most) == {None, Junk} \cup (-1)..(most + 1)

\* queryInt, whose min is 1 in every call.
QueryInt(sent, default, most) ==
  CASE sent = None -> default
    [] sent = Junk -> 1
    [] sent \notin {None, Junk} ->
         IF sent < 1 THEN 1 ELSE IF sent > most THEN most ELSE sent

\* The limits and windows the handlers pass on.
Limits == {QueryInt(sent, DefaultLimit, MaxLimit) : sent \in Sent(MaxLimit)}
Windows == {QueryInt(sent, DefaultWindow, MaxWindow) : sent \in Sent(MaxWindow)}

\* LIMIT: how many of n rows a query returns.  For SQLite a negative limit
\* is none.
Limited(n, limit) == IF limit < 0 \/ n < limit THEN n ELSE limit

\* Mutant: a reader sees the open transaction.
Uncommitted == IF tx # None /\ tx.inserted THEN Append(runs, TxRun) ELSE runs

\* What a query of another connection sees of cleanup_runs: WAL gives it the
\* committed rows.
Visible == runs

RunsOf(sid) == {i \in DOMAIN Visible : Visible[i].server = sid}

\* server_id of the request, or the server's own.
ServerOf(sent) == IF sent = None THEN server ELSE sent

\* Mutant: ORDER BY timestamp without DESC.
OldestFirst(i, j) == Visible[i].time <= Visible[j].time

\* ORDER BY timestamp DESC: rows of the same second come in any order.
Before(i, j) == Visible[i].time >= Visible[j].time

\* GET /api/history: ListRuns.
History(sentServer, limit) ==
  /\ LET sid == ServerOf(sentServer)
         size == Limited(Cardinality(RunsOf(sid)), limit) IN
       \E ids \in kSubset(size, RunsOf(sid)) :
         /\ \A i \in ids, j \in RunsOf(sid) \ ids : Before(i, j)
         /\ answer' = [kind |-> "history", server |-> sid,
                       found |-> {[id |-> i, run |-> Visible[i]] : i \in ids},
                       of |-> RunsOf(sid)]
  /\ UNCHANGED <<server, tables, tx, clock, fails>>

\* SUM(logs_cleaned) over some runs, as the set of what they count.
CleanedBy(ids) == UNION {{i} \X (1..Visible[i].cleaned) : i \in ids}

\* GET /api/stats: GetAggregateStats.
Stats(sentServer) ==
  /\ LET sid == ServerOf(sentServer) IN
       answer' = [kind |-> "stats", server |-> sid,
                  runs |-> Cardinality(RunsOf(sid)),
                  cleaned |-> Cardinality(CleanedBy(RunsOf(sid)))]
  /\ UNCHANGED <<server, tables, tx, clock, fails>>

\* Mutant: the join with cleanup_runs is lost.
RowsUnjoined(sid, window) == {row \in cleans : row.time >= clock - window}

\* The join of GetTopContainersByCleanupCount.
RowsJoined(sid, window) ==
  {row \in cleans : row.run \in RunsOf(sid) /\ row.time >= clock - window}

\* GET /api/containers: GetTopContainersByCleanupCount, always of the server
\* itself.
Containers(limit, window) ==
  /\ LET rows == RowsJoined(server, window)
         count == [n \in {row.name : row \in rows} |->
                     Cardinality({row \in rows : row.name = n})]
         size == Limited(Cardinality(DOMAIN count), limit) IN
       \E names \in kSubset(size, DOMAIN count) :
         /\ \A n \in names, m \in DOMAIN count \ names : count[n] >= count[m]
         /\ answer' = [kind |-> "containers", server |-> server,
                       counts |-> {[name |-> n, count |-> count[n]] : n \in names}]
  /\ UNCHANGED <<server, tables, tx, clock, fails>>

----------------------------------------------------------------------------
(* The environment.                                                        *)

Tick ==
  /\ clock < MaxClock
  /\ clock' = clock + 1
  /\ UNCHANGED <<server, tables, tx, answer, fails>>

\* The process ends, in the middle of a transaction or not, and storage.New
\* opens the file again: the tables are there (IF NOT EXISTS), SQLite rolls
\* the open transaction back.  What clients were told, they remember.
Restart(sid) ==
  /\ fails < MaxFails
  /\ fails' = fails + 1
  /\ server' = sid
  /\ tx' = None
  /\ UNCHANGED <<tables, clock, answer>>

Next ==
  \/ \E names \in SUBSET Names : \E truncated \in SUBSET names :
       Begin(names, truncated)
  \/ InsertRun
  \/ \E n \in Names : InsertContainer(n)
  \/ Commit
  \/ Rollback
  \/ \E sid \in Servers \cup {None}, limit \in Limits : History(sid, limit)
  \/ \E sid \in Servers \cup {None} : Stats(sid)
  \/ \E limit \in Limits, window \in Windows : Containers(limit, window)
  \/ Tick
  \/ \E sid \in Servers : Restart(sid)

Spec == Init /\ [][Next]_vars

----------------------------------------------------------------------------
(* Properties.                                                             *)

TypeOK ==
  /\ server \in Servers
  /\ runs \in Seq(Run)
  /\ cleans \subseteq CleanRow
  /\ tx \in Tx \cup {None}
  /\ clock \in 0..MaxClock
  /\ answer \in Answer \cup {None}
  /\ fails \in 0..MaxFails

\* A run and its container rows become visible together: whatever statement
\* fails and whenever the process dies, no row refers to a run that is not
\* there, and the count stored with a run is that of its truncated rows, so
\* that /api/stats and /api/containers never disagree.
RunsAreWhole ==
  /\ \A row \in cleans : row.run \in DOMAIN runs
  /\ \A i \in DOMAIN runs :
       runs[i].cleaned = Cardinality({row \in cleans : row.run = i /\ row.wasTruncated})

\* The statements of RecordRun implement the log its readers believe in:
\* every step of a transaction but its commit is invisible, a commit appends
\* one whole run, in which no container appears twice (so that the count of
\* the recommendation engine is a number of runs), and nothing that follows
\* changes it.
RowOf(row) ==
  [name |-> row.name, time |-> row.time, wasTruncated |-> row.wasTruncated]
RowsOf == [i \in DOMAIN runs |-> {RowOf(row) : row \in {r \in cleans : r.run = i}}]
LogOf ==
  [i \in DOMAIN runs |-> [server |-> runs[i].server, cleaned |-> runs[i].cleaned,
                          time |-> runs[i].time, rows |-> RowsOf[i]]]
Log == INSTANCE RunLog WITH log <- LogOf
ImplementsRunLog == Log!LogSpec

\* Whatever limit is sent, /api/history lists some run of the server if there
\* is one, no run of another, and no more than the largest limit; and it
\* leaves out no run while listing an older one, except when both carry the
\* same timestamp.
NewestListed ==
  answer # None /\ answer.kind = "history" =>
    /\ Cardinality(answer.found) <= MaxLimit
    /\ answer.of # {} => answer.found # {}
    /\ \A f \in answer.found :
         /\ f.run.server = answer.server
         /\ \A j \in answer.of \ {g.id : g \in answer.found} :
              f.id < j => runs[f.id].time = runs[j].time

RunsRecorded(sid) == Cardinality({i \in DOMAIN runs : runs[i].server = sid})

\* What a client was told stays true: no statement that fails later, and no
\* restart, takes back a run that was listed or totals that were given.
WhatWasReadStays ==
  answer # None =>
    CASE answer.kind = "history" ->
           \A f \in answer.found : f.id \in DOMAIN runs /\ runs[f.id] = f.run
      [] answer.kind = "stats" ->
           /\ answer.runs <= RunsRecorded(answer.server)
           /\ answer.cleaned <= Cardinality({row \in cleans : row.wasTruncated
                /\ row.run \in DOMAIN runs /\ runs[row.run].server = answer.server})
      [] answer.kind = "containers" ->
           \A c \in answer.counts :
             c.count <= Cardinality({row \in cleans : row.name = c.name})

\* /api/containers never shows a container cleaned more often than
\* /api/stats counts runs of the same server, although only one of the two
\* queries filters the table it counts.
FrequenciesWithinRuns ==
  answer # None /\ answer.kind = "containers" =>
    \A c \in answer.counts : c.count <= RunsRecorded(answer.server)

=============================================================================
