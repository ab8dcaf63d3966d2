------------------------ MODULE CleanerRecordProofs ------------------------
(***************************************************************************)
(* Proofs about Cleaner: what the history says of a cycle.  Its totals are *)
(* those of its rows, it is there unless the context expired, and the      *)
(* snapshots of its containers are there before it.                        *)
(***************************************************************************)
EXTENDS CleanerSizeProofs, FunctionTheorems, FiniteSetTheorems, SequenceTheorems

----------------------------------------------------------------------------
(* Names and rows.                                                         *)

\* No two entries of a run carry the same name, whichever of them were
\* inspected.
LEMMA EntryNamesDiffer ==
  ASSUME NEW r, NEW f \in Files, NEW g \in Files, EntryName(r, f) = EntryName(r, g)
  PROVE  f = g
BY NamesAssumption DEF EntryName

\* The container rows of a run: there is one for f, under one of the names it
\* has, exactly if f was scanned.
LEMMA RowsOfRun ==
  ASSUME NEW r \in RunState, NEW f \in Files
  PROVE  (\E c \in RunRow(r).containers : c.name \in {f, NameOf[f]}) <=> f \in r.scanned
<1>1. ASSUME f \in r.scanned
      PROVE  \E c \in RunRow(r).containers : c.name \in {f, NameOf[f]}
  <2> DEFINE c == [name |-> EntryName(r, f), wasTruncated |-> f \in r.truncated]
  <2>1. c \in RunRow(r).containers
    BY <1>1 DEF RunRow
  <2>2. c.name \in {f, NameOf[f]}
    BY DEF EntryName
  <2> QED
    BY <2>1, <2>2
<1>2. ASSUME NEW c \in RunRow(r).containers, c.name \in {f, NameOf[f]}
      PROVE  f \in r.scanned
  <2>1. PICK g \in r.scanned :
          c = [name |-> EntryName(r, g), wasTruncated |-> g \in r.truncated]
    BY DEF RunRow
  <2>2. g \in Files /\ EntryName(r, g) \in {f, NameOf[f]}
    BY <1>2, <2>1 DEF RunState
  <2>3. f = g
    BY <2>2, NamesAssumption DEF EntryName
  <2> QED
    BY <2>1, <2>3
<1> QED
  BY <1>1, <1>2

\* As many rows are marked as truncated as logs were.
LEMMA TruncatedRows ==
  ASSUME NEW r \in RunState, r.truncated \subseteq r.scanned
  PROVE  Cardinality({c \in RunRow(r).containers : c.wasTruncated})
           = Cardinality(r.truncated)
<1> DEFINE T == r.truncated
           C == {c \in RunRow(r).containers : c.wasTruncated}
           row == [f \in T |-> [name |-> EntryName(r, f), wasTruncated |-> TRUE]]
<1>1. T \subseteq Files /\ IsFiniteSet(T)
  BY FilesAssumption, FS_Subset DEF RunState
<1>2. ASSUME NEW f \in T PROVE row[f] \in C
  <2>1. f \in r.scanned /\ (f \in r.truncated) = TRUE
    OBVIOUS
  <2>2. [name |-> EntryName(r, f), wasTruncated |-> f \in r.truncated]
          \in RunRow(r).containers
    BY <2>1 DEF RunRow
  <2>3. row[f] \in RunRow(r).containers
    BY <2>1, <2>2
  <2> QED
    BY <2>3
<1>3. ASSUME NEW c \in C PROVE \E f \in T : row[f] = c
  <2>1. PICK f \in r.scanned :
          c = [name |-> EntryName(r, f), wasTruncated |-> f \in r.truncated]
    BY DEF RunRow
  <2>2. (f \in r.truncated) = TRUE
    BY <2>1
  <2> QED
    BY <2>1, <2>2
<1>4. ASSUME NEW f \in T, NEW g \in T, row[f] = row[g] PROVE f = g
  <2>1. EntryName(r, f) = EntryName(r, g)
    BY <1>4
  <2> QED
    BY <1>1, <2>1, EntryNamesDiffer
<1>5. row \in [T -> C]
  BY <1>2
<1> HIDE DEF row, T, C
<1>6. row \in Bijection(T, C)
  BY <1>3, <1>4, <1>5, Fun_IsBij
<1>7. Cardinality(C) = Cardinality(T)
  BY <1>1, <1>6, FS_Bijection DEF ExistsBijection
<1> QED
  BY <1>7 DEF C, T

----------------------------------------------------------------------------
(* Totals.                                                                 *)

\* The two totals a call keeps beside its entries (cleaner.go, result).
Counted(r) ==
  /\ r.cleaned = Cardinality(r.truncated)
  /\ r.truncated = {} => r.reclaimed = 0

CountInv == \A p \in Procs : Counted(run[p])

\* A new call has counted nothing.
LEMMA FreshCounted == Counted(FreshRun)
BY FS_EmptySet DEF Counted, FreshRun

\* Every step keeps them: only a successful Apply changes the entries and the
\* totals, all three.
LEMMA CountNext ==
  TypeInv /\ PolicyInv /\ CountInv /\ [Next]_vars => CountInv'
<1> SUFFICES ASSUME TypeInv, PolicyInv, CountInv, [Next]_vars PROVE CountInv'
  OBVIOUS
<1>a. run \in [Procs -> RunState]
  BY DEF TypeInv, TypeOK
<1>b. ASSUME \A q \in Procs : /\ run'[q].truncated = run[q].truncated
                              /\ run'[q].reclaimed = run[q].reclaimed
                              /\ run'[q].cleaned = run[q].cleaned
      PROVE  CountInv'
  BY <1>b DEF CountInv, Counted
<1>1. ASSUME NEW p \in Procs,
             TryLock(p) \/ Reject(p) \/ CollectInsights(p) \/ RecordRun(p) \/ Finish(p)
      PROVE  CountInv'
  BY <1>1, <1>b DEF TryLock, Reject, CollectInsights, RecordRun, Finish
<1>2. ASSUME NEW p \in Procs,
             Discover(p) \/ Rank(p) \/ ApplyFailed(p) \/ Expire(p)
      PROVE  CountInv'
  <2>1. CASE Discover(p)
    BY <1>a, <1>b, <2>1 DEF Discover, RunState
  <2>2. CASE Rank(p)
    BY <1>a, <1>b, <2>2 DEF Rank, RunState
  <2>3. CASE ApplyFailed(p)
    <3>1. run' = [run EXCEPT ![p] = WithError(run[p], run[p].cur)]
      BY <2>3 DEF ApplyFailed
    <3> QED
      BY <1>a, <1>b, <3>1, WithErrorEffect
  <2>4. CASE Expire(p)
    BY <1>a, <1>b, <2>4 DEF Expire, RunState
  <2> QED
    BY <1>2, <2>1, <2>2, <2>3, <2>4
<1>3. ASSUME NEW p \in Procs, NEW f \in Files,
             \/ ScanMissing(p, f) \/ ScanFile(p, f) \/ SkipEntry(p, f)
             \/ ApplyRefused(p, f) \/ ApplyStat(p, f)
      PROVE  CountInv'
  <2>1. CASE ScanMissing(p, f)
    BY <1>a, <1>b, <2>1 DEF ScanMissing, RunState
  <2>2. CASE ScanFile(p, f)
    BY <1>a, <1>b, <2>2 DEF ScanFile, RunState
  <2>3. CASE SkipEntry(p, f)
    BY <1>a, <1>b, <2>3 DEF SkipEntry, RunState
  <2>4. CASE ApplyRefused(p, f)
    <3>1. run' = [run EXCEPT ![p] = WithError(run[p], f)]
      BY <2>4 DEF ApplyRefused
    <3> QED
      BY <1>a, <1>b, <3>1, WithErrorEffect
  <2>5. CASE ApplyStat(p, f)
    BY <1>a, <1>b, <2>5 DEF ApplyStat, RunState
  <2> QED
    BY <1>3, <2>1, <2>2, <2>3, <2>4, <2>5
<1>4. ASSUME NEW p \in Procs, ApplyDone(p) PROVE CountInv'
  <2> DEFINE r == run[p]
  <2>1. r.cur \notin r.truncated
    <3>1. pc[p] = "apply"
      BY <1>4 DEF ApplyDone
    <3> QED
      BY <3>1, CurrentLog
  <2>2. IsFiniteSet(r.truncated)
    BY <1>a, FilesAssumption, FS_Subset DEF RunState
  <2>3. Cardinality(r.truncated \cup {r.cur}) = Cardinality(r.truncated) + 1
    BY <2>1, <2>2, FS_AddElement
  <2>4. Counted(run'[p])
    BY <1>4, <2>3, ApplyDoneEffect DEF Counted, CountInv
  <2>5. \A q \in Procs \ {p} : Counted(run'[q])
    BY <1>4, ApplyDoneEffect DEF CountInv
  <2> QED
    BY <2>4, <2>5 DEF CountInv, Counted
<1>5. ASSUME NEW p \in Procs, Return(p) PROVE CountInv'
  BY <1>5, <1>a, FreshCounted DEF Return, CountInv, Counted
<1>6. CASE Crash
  BY <1>6, FreshCounted DEF Crash, CountInv, Counted
<1>7. CASE Host \/ UNCHANGED vars
  BY <1>7, <1>b DEF Host, Grow, Rotate, Restart, Remove, vars
<1> QED
  BY <1>1, <1>2, <1>3, <1>4, <1>5, <1>6, <1>7 DEF Next, AskDocker, Work

----------------------------------------------------------------------------
(* What is written to the history.                                         *)

\* Only RecordRun writes to it, and writes the row of a complete run.
LEMMA HistoryStep ==
  ASSUME [Next]_vars
  PROVE  \/ history' = history
         \/ \E p \in Procs : /\ RecordRun(p)
                             /\ history' = Append(history, RunRow(run[p]))
<1>1. ASSUME NEW p \in Procs, RecordRun(p)
      PROVE  \/ history' = history
             \/ history' = Append(history, RunRow(run[p]))
  BY <1>1 DEF RecordRun, Recorded
<1>2. ASSUME NEW p \in Procs,
             TryLock(p) \/ Reject(p) \/ Discover(p) \/ Rank(p) \/ ApplyFailed(p)
               \/ ApplyDone(p) \/ CollectInsights(p) \/ Finish(p) \/ Return(p)
               \/ Expire(p)
      PROVE  history' = history
  BY <1>2 DEF TryLock, Reject, Discover, Rank, ApplyFailed, ApplyDone,
     CollectInsights, Finish, Return, Expire, dbVars
<1>3. ASSUME NEW p \in Procs, NEW f \in Files,
             ScanMissing(p, f) \/ ScanFile(p, f) \/ SkipEntry(p, f)
               \/ ApplyRefused(p, f) \/ ApplyStat(p, f)
      PROVE  history' = history
  BY <1>3 DEF ScanMissing, ScanFile, SkipEntry, ApplyRefused, ApplyStat, dbVars
<1>4. CASE Crash \/ Host \/ UNCHANGED vars
  BY <1>4 DEF Crash, Host, Grow, Rotate, Restart, Remove, vars, dbVars
<1> QED
  BY <1>1, <1>2, <1>3, <1>4 DEF Next, AskDocker, Work

\* What appending a run does to the indices and to the runs before it.
LEMMA AppendedRun ==
  ASSUME TypeInv, NEW p \in Procs, history' = Append(history, RunRow(run[p]))
  PROVE  /\ Len(history) \in Nat /\ DOMAIN history = 1..Len(history)
         /\ DOMAIN history' = DOMAIN history \cup {Len(history) + 1}
         /\ Len(history) + 1 \notin DOMAIN history
         /\ \A i \in DOMAIN history : history'[i] = history[i]
         /\ history'[Len(history) + 1] = RunRow(run[p])
<1>1. history \in Seq(RunRowType) /\ RunRow(run[p]) \in RunRowType
  BY RunRowTyped DEF TypeInv, TypeOK
<1> QED
  BY <1>1, AppendProperties, LenProperties

\* The totals of a run that RecordRun writes are those of its rows.
LEMMA RowTotals ==
  ASSUME TypeInv, PolicyInv, CountInv, NEW p \in Procs, pc[p] = "record"
  PROVE  LET h == RunRow(run[p]) IN
         /\ h.cleaned = Cardinality({c \in h.containers : c.wasTruncated})
         /\ h.dryRun => h.cleaned = 0 /\ h.reclaimed = 0
<1> DEFINE r == run[p]
<1>1. r \in RunState /\ Counted(r) /\ CycleInv(r, "record")
  BY DEF TypeInv, TypeOK, PolicyInv, CountInv
<1>2. r.truncated \subseteq Handled(r)
  BY DEF Handled
<1>3. r.truncated \subseteq r.scanned
  BY <1>1, <1>2 DEF CycleInv
<1>4. config.dryRun => r.truncated = {}
  BY <1>1, <1>2 DEF CycleInv
<1>5. RunRow(r).cleaned = r.cleaned /\ RunRow(r).reclaimed = r.reclaimed
      /\ RunRow(r).dryRun = config.dryRun
  BY DEF RunRow
<1>6. Cardinality({c \in RunRow(r).containers : c.wasTruncated}) = r.cleaned
  BY <1>1, <1>3, TruncatedRows DEF Counted
<1>7. config.dryRun => r.cleaned = 0 /\ r.reclaimed = 0
  BY <1>1, <1>4, FS_EmptySet DEF Counted
<1> QED
  BY <1>5, <1>6, <1>7

\* The totals of a recorded run agree with its own container rows, and a dry run
\* claims nothing, for any number of logs and whichever of them failed
\* (cleaner.go, "Persist to database").
THEOREM TotalsAgree == Spec => []TotalsMatchRows
<1>1. TypeInv /\ PolicyInv /\ CountInv /\ TotalsMatchRows /\ [Next]_vars
        => TotalsMatchRows'
  <2> SUFFICES ASSUME TypeInv, PolicyInv, CountInv, TotalsMatchRows, [Next]_vars
               PROVE  TotalsMatchRows'
    OBVIOUS
  <2>1. CASE history' = history
    BY <2>1 DEF TotalsMatchRows
  <2>2. ASSUME NEW p \in Procs, RecordRun(p),
               history' = Append(history, RunRow(run[p]))
        PROVE  TotalsMatchRows'
    <3>1. pc[p] = "record"
      BY <2>2 DEF RecordRun
    <3> QED
      BY <2>2, <3>1, RowTotals, AppendedRun DEF TotalsMatchRows
  <2> QED
    BY <2>1, <2>2, HistoryStep
<1>2. Init => TotalsMatchRows /\ CountInv
  BY FreshCounted DEF Init, TotalsMatchRows, CountInv, Counted
<1> QED
  BY <1>1, <1>2, CountNext, PolicyAlways, PTL DEF Spec

----------------------------------------------------------------------------
(* A cycle is recorded unless its context expired.                         *)

\* It is there already when the cycle is about to end.
RecordedInv ==
  \A p \in Procs :
    pc[p] \in {"finish", "ok"} /\ ~run[p].expired /\ ~DbMayFail =>
      \E i \in DOMAIN history : history[i] = RunRow(run[p])

\* Nothing that is in the history is ever changed or taken from it.
LEMMA HistoryGrows ==
  ASSUME TypeInv, [Next]_vars
  PROVE  \A i \in DOMAIN history : i \in DOMAIN history' /\ history'[i] = history[i]
<1>1. ASSUME NEW p \in Procs, history' = Append(history, RunRow(run[p]))
      PROVE  \A i \in DOMAIN history : i \in DOMAIN history' /\ history'[i] = history[i]
  BY <1>1, AppendedRun
<1> QED
  BY <1>1, HistoryStep

\* A step of one goroutine preserves the invariant if it does for that
\* goroutine.
LEMMA OneRecorded ==
  ASSUME TypeInv, [Next]_vars, RecordedInv, config' = config, NEW p \in Procs,
         \A q \in Procs \ {p} : run'[q] = run[q] /\ pc'[q] = pc[q],
         pc'[p] \in {"finish", "ok"} /\ ~run'[p].expired /\ ~DbMayFail =>
           \E i \in DOMAIN history' : history'[i] = RunRow(run'[p])
  PROVE  RecordedInv'
<1>1. ASSUME NEW q \in Procs, pc'[q] \in {"finish", "ok"}, ~run'[q].expired, ~DbMayFail
      PROVE  \E i \in DOMAIN history' : history'[i] = RunRow(run'[q])
  <2>1. CASE q = p
    BY <1>1, <2>1
  <2>2. CASE q # p
    <3>1. PICK i \in DOMAIN history : history[i] = RunRow(run[q])
      BY <1>1, <2>2 DEF RecordedInv
    <3> QED
      BY <2>2, <3>1, HistoryGrows
  <2> QED
    BY <2>1, <2>2
<1>2. \A q \in Procs : RunRow(run[q])' = RunRow(run'[q])
  BY DEF RunRow, EntryName
<1> QED
  BY <1>1, <1>2 DEF RecordedInv

\* Every step preserves it: between RecordRun and the return nothing touches
\* the result but the expiry of the context.
LEMMA RecordedNext == TypeInv /\ RecordedInv /\ [Next]_vars => RecordedInv'
<1> SUFFICES ASSUME TypeInv, RecordedInv, [Next]_vars PROVE RecordedInv'
  OBVIOUS
<1>a. run \in [Procs -> RunState] /\ pc \in [Procs -> Stages]
  BY DEF TypeInv, TypeOK
<1>1. ASSUME NEW p \in Procs,
             \/ TryLock(p) \/ Reject(p) \/ Discover(p) \/ Rank(p)
             \/ ApplyFailed(p) \/ ApplyDone(p) \/ CollectInsights(p) \/ Return(p)
             \/ \E f \in Files : ApplyStat(p, f)
      PROVE  RecordedInv'
  <2>1. /\ config' = config /\ pc'[p] \notin {"finish", "ok"}
        /\ \A q \in Procs \ {p} : run'[q] = run[q] /\ pc'[q] = pc[q]
    BY <1>1, <1>a DEF TryLock, Reject, Discover, Rank, ApplyFailed, ApplyDone,
       CollectInsights, Return, ApplyStat, Goto, Leave
  <2> QED
    BY <2>1, OneRecorded
<1>2. ASSUME NEW p \in Procs, NEW f \in Files,
             ScanMissing(p, f) \/ ScanFile(p, f) \/ SkipEntry(p, f) \/ ApplyRefused(p, f)
      PROVE  RecordedInv'
  <2>1. /\ config' = config /\ pc' = pc /\ pc[p] \notin {"finish", "ok"}
        /\ \A q \in Procs \ {p} : run'[q] = run[q]
    BY <1>2, <1>a DEF ScanMissing, ScanFile, SkipEntry, ApplyRefused
  <2> QED
    BY <2>1, OneRecorded
<1>3. ASSUME NEW p \in Procs, RecordRun(p) PROVE RecordedInv'
  <2>1. /\ config' = config /\ run' = run
        /\ \A q \in Procs \ {p} : pc'[q] = pc[q]
    BY <1>3, <1>a DEF RecordRun, Goto
  <2>2. ASSUME ~run[p].expired, ~DbMayFail
        PROVE  \E i \in DOMAIN history' : history'[i] = RunRow(run[p])
    <3>1. history' = Append(history, RunRow(run[p]))
      BY <1>3, <2>2 DEF RecordRun, Recorded
    <3> QED
      BY <3>1, AppendedRun
  <2> QED
    BY <2>1, <2>2, OneRecorded
<1>4. ASSUME NEW p \in Procs, Finish(p) PROVE RecordedInv'
  <2>1. /\ config' = config /\ run' = run /\ pc[p] = "finish" /\ history' = history
        /\ \A q \in Procs \ {p} : pc'[q] = pc[q]
    BY <1>4, <1>a DEF Finish, Leave, Goto, dbVars
  <2> QED
    BY <2>1, OneRecorded DEF RecordedInv
<1>5. ASSUME NEW p \in Procs, Expire(p) PROVE RecordedInv'
  <2>1. /\ config' = config /\ pc' = pc /\ run'[p].expired
        /\ \A q \in Procs \ {p} : run'[q] = run[q]
    BY <1>5, <1>a DEF Expire, RunState
  <2> QED
    BY <2>1, OneRecorded
<1>6. CASE Crash
  BY <1>6 DEF Crash, RecordedInv
<1>7. CASE Host \/ UNCHANGED vars
  <2>1. UNCHANGED <<config, run, pc, history>>
    BY <1>7 DEF Host, Grow, Rotate, Restart, Remove, vars, dbVars
  <2> QED
    BY <2>1 DEF RecordedInv, RunRow, EntryName
<1> QED
  BY <1>1, <1>2, <1>3, <1>4, <1>5, <1>6, <1>7 DEF Next, AskDocker, Work

\* A run that ended normally and whose context did not expire is in the history,
\* unless SQLite itself failed, whatever the other goroutines do
\* (cleaner.go, "Persist to database").
THEOREM RunsAreRecorded == Spec => []RecordedUnlessExpired
<1>1. Init => RecordedInv
  BY DEF Init, RecordedInv
<1>2. RecordedInv => RecordedUnlessExpired
  BY DEF RecordedInv, RecordedUnlessExpired
<1>3. Spec => []TypeInv
  BY TypeInit, TypeNext, PTL DEF Spec
<1> QED
  BY <1>1, <1>2, <1>3, RecordedNext, PTL DEF Spec

----------------------------------------------------------------------------
(* Snapshots.                                                              *)

\* The runs in the history that have a row of container f.
RunsOf(f) ==
  {i \in DOMAIN history : \E c \in history[i].containers : c.name \in {f, NameOf[f]}}

\* The snapshot of f that goroutine p has written may still be followed by the
\* run.
Ahead(p, f) ==
  /\ pc[p] \in {"scan", "process", "apply", "record"}
  /\ f \in run[p].scanned /\ ~run[p].expired

\* Until then, there is one snapshot more than there are runs.
SnapshotInv ==
  DbMayFail \/ \A f \in Files :
    /\ Cardinality(RunsOf(f)) <= snapshots[f]
    /\ (\E p \in Procs : Ahead(p, f)) => Cardinality(RunsOf(f)) + 1 <= snapshots[f]

\* The index set of a history is finite.
LEMMA RunsOfFinite ==
  ASSUME TypeInv, NEW f
  PROVE  IsFiniteSet(RunsOf(f)) /\ Cardinality(RunsOf(f)) \in Nat
<1>1. DOMAIN history = 1..Len(history) /\ Len(history) \in Nat
  BY LenProperties DEF TypeInv, TypeOK
<1>2. IsFiniteSet(DOMAIN history)
  BY <1>1, FS_Interval
<1> QED
  BY <1>2, FS_Subset, FS_CardinalityType DEF RunsOf

\* A step that touches neither the history nor the snapshots preserves the
\* invariant if it lets no further run follow.
LEMMA SnapshotsStay ==
  ASSUME SnapshotInv, history' = history, snapshots' = snapshots,
         \A p \in Procs, f \in Files : Ahead(p, f)' => Ahead(p, f)
  PROVE  SnapshotInv'
BY DEF SnapshotInv, RunsOf

\* Who is ahead has the lock.
LEMMA AheadHasLock ==
  ASSUME LockInv, NEW p \in Procs, NEW q \in Procs, NEW f,
         pc[p] \in Inside, Ahead(q, f)
  PROVE  q = p
BY DEF LockInv, Ahead, Inside

\* A log is scanned and, unless the context has expired, gets its snapshot.
LEMMA ScanCovers ==
  ASSUME TypeInv, LockInv, SnapshotInv, NEW p \in Procs, NEW f \in Files, ScanFile(p, f)
  PROVE  SnapshotInv'
<1>a. run \in [Procs -> RunState] /\ snapshots \in [Files -> Nat]
  BY DEF TypeInv, TypeOK
<1>1. pc[p] = "scan" /\ pc' = pc /\ history' = history
      /\ \A q \in Procs \ {p} : run'[q] = run[q]
  BY <1>a DEF ScanFile
<1>2. PICK stored \in BOOLEAN, expired \in BOOLEAN :
        /\ expired # run[p].expired => expired
        /\ ~stored => expired \/ DbMayFail
        /\ snapshots' = IF stored THEN WithSnapshot(f) ELSE snapshots
        /\ run'[p].scanned = run[p].scanned \cup {f} /\ run'[p].expired = expired
  BY <1>a DEF ScanFile, RunState
<1>3. run'[p].scanned = run[p].scanned \cup {f} /\ (run[p].expired => run'[p].expired)
  BY <1>2
<1> SUFFICES ASSUME ~DbMayFail, NEW g \in Files
             PROVE  /\ Cardinality(RunsOf(g)) <= snapshots'[g]
                    /\ (\E q \in Procs : Ahead(q, g)') =>
                         Cardinality(RunsOf(g)) + 1 <= snapshots'[g]
  BY <1>1 DEF SnapshotInv, RunsOf
<1>4. /\ Cardinality(RunsOf(g)) \in Nat /\ snapshots[g] \in Nat
      /\ Cardinality(RunsOf(g)) <= snapshots[g]
      /\ (\E q \in Procs : Ahead(q, g)) => Cardinality(RunsOf(g)) + 1 <= snapshots[g]
  BY <1>a, RunsOfFinite DEF SnapshotInv
<1>5. ASSUME NEW q \in Procs, Ahead(q, g)', ~Ahead(q, g)
      PROVE  q = p /\ g = f /\ ~run'[p].expired
  BY <1>1, <1>3, <1>5 DEF Ahead
<1>6. CASE stored
  <2>1. snapshots'[g] = IF g = f THEN snapshots[g] + 1 ELSE snapshots[g]
    BY <1>a, <1>2, <1>6 DEF WithSnapshot
  <2> QED
    BY <1>4, <1>5, <2>1
<1>7. CASE ~stored
  <2>1. run'[p].expired /\ snapshots' = snapshots
    BY <1>2, <1>7
  <2> QED
    BY <1>4, <1>5, <2>1
<1> QED
  BY <1>6, <1>7

\* The run is recorded, and the snapshots of all its containers are there.
LEMMA RecordCovers ==
  ASSUME TypeInv, LockInv, SnapshotInv, NEW p \in Procs, RecordRun(p)
  PROVE  SnapshotInv'
<1>a. run \in [Procs -> RunState] /\ pc \in [Procs -> Stages] /\ snapshots \in [Files -> Nat]
  BY DEF TypeInv, TypeOK
<1>1. pc[p] = "record" /\ pc'[p] = "finish" /\ run' = run /\ snapshots' = snapshots
      /\ \A q \in Procs \ {p} : pc'[q] = pc[q]
  BY <1>a DEF RecordRun, Goto
<1>2. \A q \in Procs, g \in Files : ~Ahead(q, g)'
  BY <1>1, AheadHasLock DEF Ahead, Inside
<1>3. CASE history' = history
  BY <1>1, <1>2, <1>3, SnapshotsStay
<1>4. CASE ~run[p].expired /\ history' = Append(history, RunRow(run[p]))
  <2> SUFFICES ASSUME ~DbMayFail, NEW g \in Files
               PROVE  Cardinality(RunsOf(g)') <= snapshots[g]
    BY <1>1, <1>2 DEF SnapshotInv
  <2>1. RunsOf(g)' = IF g \in run[p].scanned THEN RunsOf(g) \cup {Len(history) + 1}
                     ELSE RunsOf(g)
    BY <1>4, <1>a, AppendedRun, RowsOfRun DEF RunsOf
  <2>2. /\ IsFiniteSet(RunsOf(g)) /\ Cardinality(RunsOf(g)) \in Nat
        /\ Len(history) + 1 \notin RunsOf(g)
    BY <1>4, AppendedRun, RunsOfFinite DEF RunsOf
  <2>3. CASE g \in run[p].scanned
    <3>1. Ahead(p, g)
      BY <1>1, <1>4, <2>3 DEF Ahead
    <3>2. Cardinality(RunsOf(g)) + 1 <= snapshots[g]
      BY <3>1 DEF SnapshotInv
    <3>3. Cardinality(RunsOf(g)') = Cardinality(RunsOf(g)) + 1
      BY <2>1, <2>2, <2>3, FS_AddElement
    <3> QED
      BY <3>2, <3>3
  <2>4. CASE g \notin run[p].scanned
    BY <2>1, <2>4 DEF SnapshotInv
  <2> QED
    BY <2>3, <2>4
<1> QED
  BY <1>3, <1>4 DEF RecordRun, Recorded

\* Every step preserves it.
LEMMA SnapshotNext ==
  TypeInv /\ LockInv /\ PolicyInv /\ SnapshotInv /\ [Next]_vars => SnapshotInv'
<1> SUFFICES ASSUME TypeInv, LockInv, PolicyInv, SnapshotInv, [Next]_vars
             PROVE  SnapshotInv'
  OBVIOUS
<1>a. run \in [Procs -> RunState] /\ pc \in [Procs -> Stages]
  BY DEF TypeInv, TypeOK
<1>b. \A q \in Procs : pc[q] \in {"idle", "discover"} => run[q].scanned = {}
  BY DEF PolicyInv, CycleInv
<1> USE DEF dbVars
<1>1. ASSUME NEW p \in Procs, history' = history, snapshots' = snapshots,
             \A q \in Procs \ {p} : run'[q] = run[q] /\ pc'[q] = pc[q],
             \A f \in Files : Ahead(p, f)' => Ahead(p, f)
      PROVE  SnapshotInv'
  <2>1. \A q \in Procs \ {p}, f \in Files : Ahead(q, f)' => Ahead(q, f)
    BY <1>1 DEF Ahead
  <2> QED
    BY <1>1, <2>1, SnapshotsStay
<1>2. ASSUME NEW p \in Procs, TryLock(p) \/ Reject(p) \/ CollectInsights(p) \/ Finish(p)
                                \/ Return(p)
      PROVE  SnapshotInv'
  <2>1. history' = history /\ snapshots' = snapshots
        /\ \A q \in Procs \ {p} : run'[q] = run[q] /\ pc'[q] = pc[q]
    BY <1>2, <1>a DEF TryLock, Reject, CollectInsights, Finish, Return, Goto, Leave
  <2>2. \A f \in Files : Ahead(p, f)' => Ahead(p, f)
    BY <1>2, <1>a DEF TryLock, Reject, CollectInsights, Finish, Return, Goto, Leave, Ahead
  <2> QED
    BY <1>1, <2>1, <2>2
<1>3. ASSUME NEW p \in Procs, Discover(p) PROVE SnapshotInv'
  <2>1. history' = history /\ snapshots' = snapshots
        /\ \A q \in Procs \ {p} : run'[q] = run[q] /\ pc'[q] = pc[q]
    BY <1>3, <1>a DEF Discover, Goto, Leave
  <2>2. run'[p].scanned = {}
    <3>1. pc[p] = "discover" /\ run'[p].scanned = run[p].scanned
      BY <1>3, <1>a DEF Discover, RunState
    <3> QED
      BY <1>b, <3>1
  <2> QED
    BY <1>1, <2>1, <2>2 DEF Ahead
<1>4. ASSUME NEW p \in Procs, NEW f \in Files,
             \/ ScanMissing(p, f) \/ SkipEntry(p, f) \/ ApplyRefused(p, f)
             \/ ApplyStat(p, f) \/ Rank(p) \/ ApplyFailed(p) \/ ApplyDone(p)
      PROVE  SnapshotInv'
  <2>1. history' = history /\ snapshots' = snapshots
        /\ pc[p] \in {"scan", "process", "apply"}
        /\ \A q \in Procs \ {p} : run'[q] = run[q] /\ pc'[q] = pc[q]
    BY <1>4, <1>a DEF ScanMissing, SkipEntry, ApplyRefused, ApplyStat, Rank,
       ApplyFailed, ApplyDone, Goto
  <2>2. run'[p].scanned = run[p].scanned /\ run'[p].expired = run[p].expired
    <3>1. CASE ScanMissing(p, f)
      BY <1>a, <3>1 DEF ScanMissing, RunState
    <3>2. CASE SkipEntry(p, f)
      BY <1>a, <3>2 DEF SkipEntry, RunState
    <3>3. CASE ApplyRefused(p, f)
      <4>1. run'[p] = WithError(run[p], f)
        BY <1>a, <3>3 DEF ApplyRefused
      <4> QED
        BY <1>a, <4>1, WithErrorEffect
    <3>4. CASE ApplyStat(p, f)
      BY <1>a, <3>4 DEF ApplyStat, RunState
    <3>5. CASE Rank(p)
      BY <1>a, <3>5 DEF Rank, RunState
    <3>6. CASE ApplyFailed(p)
      <4>1. run'[p] = WithError(run[p], run[p].cur)
        BY <1>a, <3>6 DEF ApplyFailed
      <4> QED
        BY <1>a, <4>1, WithErrorEffect
    <3>7. CASE ApplyDone(p)
      <4>1. run'[p].expired = run[p].expired
        BY <1>a, <3>7 DEF ApplyDone, Cleaned, RunState
      <4> QED
        BY <3>7, <4>1, ApplyDoneEffect
    <3> QED
      BY <1>4, <3>1, <3>2, <3>3, <3>4, <3>5, <3>6, <3>7
  <2> QED
    BY <1>1, <2>1, <2>2 DEF Ahead
<1>5. ASSUME NEW p \in Procs, NEW f \in Files, ScanFile(p, f) PROVE SnapshotInv'
  BY <1>5, ScanCovers
<1>6. ASSUME NEW p \in Procs, RecordRun(p) PROVE SnapshotInv'
  BY <1>6, RecordCovers
<1>7. ASSUME NEW p \in Procs, Expire(p) PROVE SnapshotInv'
  <2>1. history' = history /\ snapshots' = snapshots /\ pc' = pc /\ run'[p].expired
        /\ \A q \in Procs \ {p} : run'[q] = run[q]
    BY <1>7, <1>a DEF Expire, RunState
  <2> QED
    BY <1>1, <2>1 DEF Ahead
<1>8. CASE Crash
  <2>1. \A p \in Procs, f \in Files : ~Ahead(p, f)'
    BY <1>8 DEF Crash, Ahead
  <2> QED
    BY <1>8, <2>1, SnapshotsStay DEF Crash
<1>9. CASE Host \/ UNCHANGED vars
  <2>1. UNCHANGED <<run, pc, history, snapshots>>
    BY <1>9 DEF Host, Grow, Rotate, Restart, Remove, vars
  <2> QED
    BY <2>1, SnapshotsStay DEF Ahead
<1>10. Files # {} \/ Files = {}
  OBVIOUS
<1>11. ASSUME NEW p \in Procs, Rank(p) \/ ApplyFailed(p) \/ ApplyDone(p), Files = {}
       PROVE  SnapshotInv'
  BY <1>11 DEF SnapshotInv
<1> QED
  BY <1>2, <1>3, <1>4, <1>5, <1>6, <1>7, <1>8, <1>9, <1>10, <1>11
     DEF Next, AskDocker, Work

\* As long as SQLite works, no run is in the history without the size snapshots
\* of all its containers, through expiries and crashes (cleaner.go, scan loop and
\* "Persist to database").
THEOREM SnapshotsComeFirst == Spec => []SnapshotsCoverHistory
<1>1. Init => SnapshotInv
  <2> SUFFICES ASSUME Init PROVE SnapshotInv
    OBVIOUS
  <2>1. \A f \in Files : RunsOf(f) = {} /\ snapshots[f] = 0
    BY DEF Init, RunsOf
  <2>2. \A p \in Procs, f \in Files : ~Ahead(p, f)
    BY DEF Init, Ahead
  <2> QED
    BY <2>1, <2>2, FS_EmptySet DEF SnapshotInv
<1>2. SnapshotInv => SnapshotsCoverHistory
  BY DEF SnapshotInv, SnapshotsCoverHistory, RunsOf
<1> QED
  BY <1>1, <1>2, SnapshotNext, LockAlways, PolicyAlways, PTL DEF Spec

=============================================================================
