------------------------------- MODULE RunLog -------------------------------
(***************************************************************************)
(* What the history promises its readers: a log of whole runs, to which    *)
(* runs are appended and from which nothing is ever lost or changed, not   *)
(* by a failing statement and not by the death of the process.             *)
(*                                                                         *)
(* HistoryStore.tla shows that the transactions of storage/sqlite.go keep  *)
(* this promise; Reporting.tla is built on it.                             *)
(***************************************************************************)
EXTENDS Integers, Sequences, FiniteSets

CONSTANTS
  Servers,  \* server IDs under which runs are recorded
  Names     \* container names a row may carry

VARIABLE log  \* the runs, oldest first; a run's id is its index

\* A container of a run: a row of container_cleans.
Row == [name : Names, wasTruncated : BOOLEAN, time : Nat]

\* A run: its row of cleanup_runs, and its container rows.
Entry == [server : Servers, cleaned : Nat, time : Nat, rows : SUBSET Row]

Truncated(entry) == {row \in entry.rows : row.wasTruncated}

\* A run lists each container once, and its count is that of its rows.
Whole(entry) ==
  /\ entry.cleaned = Cardinality(Truncated(entry))
  /\ \A r, s \in entry.rows : r.name = s.name => r = s
  /\ \A r \in entry.rows : entry.time <= r.time

NotOlder(entry) == \A i \in DOMAIN log : log[i].time <= entry.time

LogInit == log = << >>

\* A run becomes visible, with all its rows, in one step.
Record(entry) ==
  /\ Whole(entry) /\ NotOlder(entry)
  /\ log' = Append(log, entry)

\* The run a step has appended.
RecordSome ==
  /\ Len(log') = Len(log) + 1
  /\ Record(log'[Len(log')])

LogSpec == LogInit /\ [][RecordSome]_log
=============================================================================
