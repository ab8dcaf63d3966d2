--------------------------- MODULE CleanerProofs ---------------------------
(***************************************************************************)
(* Proofs about Cleaner, for every set of goroutines, logs, names and      *)
(* configurations, any threshold and any bounds.                           *)
(***************************************************************************)
EXTENDS Cleaner, TLAPS

----------------------------------------------------------------------------
(* Type correctness.                                                       *)

\* TypeOK is not inductive alone: ApplyDone and ApplyFailed work on run[p].cur,
\* which is a log only because ApplyStat has set it.
CurIsFile == \A p \in Procs : pc[p] = "apply" => run[p].cur \in Files

TypeInv == TypeOK /\ CurIsFile

\* The local state of a new call is well typed (cleaner.go, var declarations
\* of Run).
LEMMA FreshRunType == FreshRun \in RunState
BY DEF FreshRun, RunState

\* The row built for storage.RecordRun from a well-typed local state is well
\* typed (cleaner.go, "Persist to database").
LEMMA RunRowTyped ==
  ASSUME NEW r \in RunState, config \in Configs
  PROVE  RunRow(r) \in RunRowType
<1>1. config.dryRun \in BOOLEAN
  BY ConfigsAssumption DEF Config
<1>2. \A f \in Files : EntryName(r, f) \in Names \cup Files
  BY NamesAssumption DEF EntryName, RunState
<1>3. {[name |-> EntryName(r, f), wasTruncated |-> f \in r.truncated] :
          f \in r.scanned}
        \in SUBSET [name : Names \cup Files, wasTruncated : BOOLEAN]
  <2> SUFFICES ASSUME NEW f \in r.scanned
               PROVE  [name |-> EntryName(r, f), wasTruncated |-> f \in r.truncated]
                        \in [name : Names \cup Files, wasTruncated : BOOLEAN]
    OBVIOUS
  <2>1. EntryName(r, f) \in Names \cup Files
    BY <1>2 DEF RunState
  <2>2. (f \in r.truncated) \in BOOLEAN
    OBVIOUS
  <2> QED
    BY <2>1, <2>2, Zenon
<1>4. r.cleaned \in Nat /\ r.reclaimed \in Nat
        /\ r.statErrs \cup r.truncErrs \in SUBSET Files
  BY DEF RunState
<1> QED
  BY <1>1, <1>3, <1>4 DEF RunRow, RunRowType

\* Recording an error of Apply keeps the local state well typed.
LEMMA WithErrorType ==
  ASSUME NEW r \in RunState, NEW f \in Files
  PROVE  WithError(r, f) \in RunState /\ WithError(r, f).cur = None
BY DEF WithError, RunState

\* So does recording a success.
LEMMA CleanedType ==
  ASSUME NEW r \in RunState, NEW f \in Files
  PROVE  Cleaned(r, f) \in RunState /\ Cleaned(r, f).cur = None
<1>1. /\ r.cleaned + 1 \in Nat
      /\ r.reclaimed + r.curSize \in Nat
      /\ r.truncated \cup {f} \in SUBSET Files
  BY DEF RunState
<1> QED
  BY <1>1 DEF Cleaned, RunState

\* So does the expiry of the context.
LEMMA ExpiredType ==
  ASSUME NEW r \in RunState
  PROVE  /\ [r EXCEPT !.expired = TRUE] \in RunState
         /\ [r EXCEPT !.expired = TRUE].cur = r.cur
BY DEF RunState

\* The discovered logs are well typed.
LEMMA TodoType ==
  ASSUME NEW r \in RunState, NEW S \in SUBSET Files
  PROVE  [r EXCEPT !.todo = S] \in RunState
BY DEF RunState

\* The ranking is well typed.
LEMMA RankType ==
  ASSUME NEW r \in RunState, NEW T \in SUBSET Files, NEW S \in SUBSET Files
  PROVE  [r EXCEPT !.top = T, !.pending = S] \in RunState
BY DEF RunState

\* The other updates of the local state: a scanned log, the ranking, the log Apply is working on, the space it gave back.
LEMMA RunUpdates ==
  ASSUME NEW r \in RunState, NEW f \in Files, NEW n \in Nat,
         NEW S \in SUBSET Files, NEW b \in BOOLEAN
  PROVE  /\ [r EXCEPT !.todo = @ \ {f}, !.statErrs = @ \cup {f}] \in RunState
         /\ [r EXCEPT !.todo = @ \ {f}, !.expired = b, !.scanned = @ \cup {f},
                      !.esize[f] = n, !.named = S] \in RunState
         /\ [r EXCEPT !.pending = @ \ {f}] \in RunState
         /\ [r EXCEPT !.pending = @ \ {f}, !.cur = f, !.curSize = n] \in RunState
         /\ [r EXCEPT !.pending = @ \ {f}, !.cur = f, !.curSize = n].cur = f
         /\ [r EXCEPT !.freed = n] \in RunState
<1>4. [r EXCEPT !.todo = @ \ {f}, !.statErrs = @ \cup {f}] \in RunState
  BY DEF RunState
<1>5. [r EXCEPT !.todo = @ \ {f}, !.expired = b, !.scanned = @ \cup {f},
                !.esize[f] = n, !.named = S] \in RunState
  <2>1. [r.esize EXCEPT ![f] = n] \in [Files -> Nat]
    BY DEF RunState
  <2> QED
    BY <2>1 DEF RunState
<1>7. [r EXCEPT !.pending = @ \ {f}] \in RunState
  BY DEF RunState
<1>8. [r EXCEPT !.pending = @ \ {f}, !.cur = f, !.curSize = n] \in RunState
  BY DEF RunState
<1>9. [r EXCEPT !.pending = @ \ {f}, !.cur = f, !.curSize = n].cur = f
  BY DEF RunState
<1>10. [r EXCEPT !.freed = n] \in RunState
  BY DEF RunState
<1> QED
  BY <1>4, <1>5, <1>7, <1>8, <1>9, <1>10

\* The initial state is well typed.
LEMMA TypeInit == Init => TypeInv
<1> SUFFICES ASSUME Init PROVE TypeInv
  OBVIOUS
<1>1. TypeOK
  BY FreshRunType, NumbersAssumption DEF Init, TypeOK, Absent, Stages
<1>2. CurIsFile
  BY DEF Init, CurIsFile
<1> QED
  BY <1>1, <1>2 DEF TypeInv

\* One step of Run or of its environment keeps it well typed.
LEMMA TypeNext == TypeInv /\ [Next]_vars => TypeInv'
<1> SUFFICES ASSUME TypeInv, [Next]_vars PROVE TypeInv'
  OBVIOUS
<1> USE DEF TypeInv, Absent, boundVars, hostVars, dbVars
<1>a. \A q \in Procs : run[q] \in RunState
  BY DEF TypeOK
<1>1. ASSUME NEW p \in Procs, TryLock(p) PROVE TypeInv'
  BY <1>1, NumbersAssumption DEF TypeOK, CurIsFile, TryLock, Goto, Stages, Inside
<1>2. ASSUME NEW p \in Procs, Reject(p) PROVE TypeInv'
  BY <1>2, NumbersAssumption DEF TypeOK, CurIsFile, Reject, Goto, Stages
<1>3. ASSUME NEW p \in Procs, Discover(p) PROVE TypeInv'
  <2>1. [run[p] EXCEPT !.todo = Discovered] \in RunState
    BY <1>a, TodoType DEF Discovered
  <2>2. run' \in [Procs -> RunState]
    BY <1>3, <2>1 DEF TypeOK, Discover
  <2>3. pc' \in [Procs -> Stages] /\ lock' \in Procs \cup {None}
    BY <1>3 DEF TypeOK, Discover, Leave, Goto, Stages, Inside, Endings
  <2>4. CurIsFile'
    BY <1>3 DEF TypeOK, CurIsFile, Discover, Leave, Goto
  <2> QED
    BY <1>3, <2>2, <2>3, <2>4 DEF TypeOK, Discover
<1>4. ASSUME NEW p \in Procs, NEW f \in Files, ScanMissing(p, f) PROVE TypeInv'
  <2>1. [run[p] EXCEPT !.todo = @ \ {f}, !.statErrs = @ \cup {f}] \in RunState
    BY <1>a, RunUpdates
  <2> QED
    BY <1>4, <2>1 DEF TypeOK, CurIsFile, ScanMissing
<1>5. ASSUME NEW p \in Procs, NEW f \in Files, ScanFile(p, f) PROVE TypeInv'
  <2>1. PICK inspected \in BOOLEAN, stored \in BOOLEAN, expired \in BOOLEAN :
          /\ run' = [run EXCEPT ![p].todo = @ \ {f},
                                ![p].expired = expired,
                                ![p].scanned = @ \cup {f},
                                ![p].esize[f] = size[f],
                                ![p].named = IF inspected THEN @ \cup {f} ELSE @]
          /\ snapshots' = IF stored THEN WithSnapshot(f) ELSE snapshots
    BY <1>5 DEF ScanFile
  <2>2. size[f] \in Nat
    BY <1>5 DEF TypeOK, ScanFile, StatFails
  <2>a. (IF inspected THEN run[p].named \cup {f} ELSE run[p].named)
          \in SUBSET Files
    BY <1>a DEF RunState
  <2>3. [run[p] EXCEPT !.todo = @ \ {f}, !.expired = expired,
                       !.scanned = @ \cup {f}, !.esize[f] = size[f],
                       !.named = IF inspected THEN @ \cup {f} ELSE @] \in RunState
    BY <1>a, <2>2, <2>a, RunUpdates
  <2>4. run' \in [Procs -> RunState]
    BY <2>1, <2>3 DEF TypeOK
  <2>5. snapshots' \in [Files -> Nat]
    BY <2>1 DEF TypeOK, WithSnapshot
  <2> QED
    BY <1>5, <2>4, <2>5 DEF TypeOK, CurIsFile, ScanFile
<1>6. ASSUME NEW p \in Procs, Rank(p) PROVE TypeInv'
  <2>1. PICK T \in TopSets(run[p]) :
          run' = [run EXCEPT ![p].top = T, ![p].pending = run[p].scanned]
    BY <1>6 DEF Rank
  <2>2. [run[p] EXCEPT !.top = T, !.pending = run[p].scanned] \in RunState
    <3>1. T \in SUBSET Files /\ run[p].scanned \in SUBSET Files
      BY <1>a DEF RunState, TopSets
    <3> QED
      BY <1>a, <3>1, RankType
  <2> QED
    BY <1>6, <2>1, <2>2 DEF TypeOK, CurIsFile, Rank, Goto, Stages, Inside
<1>7. ASSUME NEW p \in Procs, NEW f \in Files, SkipEntry(p, f) PROVE TypeInv'
  <2>1. [run[p] EXCEPT !.pending = @ \ {f}] \in RunState
    BY <1>a, RunUpdates
  <2> QED
    BY <1>7, <2>1 DEF TypeOK, CurIsFile, SkipEntry
<1>8. ASSUME NEW p \in Procs, NEW f \in Files, ApplyRefused(p, f) PROVE TypeInv'
  BY <1>8, <1>a, WithErrorType DEF TypeOK, CurIsFile, ApplyRefused
<1>9. ASSUME NEW p \in Procs, NEW f \in Files, ApplyStat(p, f) PROVE TypeInv'
  <2>1. size[f] \in Nat
    BY <1>9 DEF TypeOK, ApplyStat, StatFails
  <2>2. [run[p] EXCEPT !.pending = @ \ {f}, !.cur = f, !.curSize = size[f]]
          \in RunState
    BY <1>a, <2>1, RunUpdates
  <2>a. [run[p] EXCEPT !.pending = @ \ {f}, !.cur = f, !.curSize = size[f]].cur = f
    BY <1>a, <2>1, RunUpdates
  <2>3. run' \in [Procs -> RunState] /\ run'[p].cur = f
    BY <1>9, <2>2, <2>a DEF ApplyStat, TypeOK
  <2>4. pc' \in [Procs -> Stages]
    BY <1>9 DEF ApplyStat, Goto, TypeOK, Stages, Inside
  <2>5. CurIsFile'
    BY <1>9, <2>3 DEF TypeOK, ApplyStat, Goto, CurIsFile
  <2> QED
    BY <1>9, <2>3, <2>4, <2>5 DEF TypeOK, ApplyStat
<1>10. ASSUME NEW p \in Procs, ApplyFailed(p) PROVE TypeInv'
  <2>1. WithError(run[p], run[p].cur) \in RunState
    BY <1>10, <1>a, WithErrorType DEF ApplyFailed, CurIsFile
  <2> QED
    BY <1>10, <2>1 DEF TypeOK, CurIsFile, ApplyFailed, Goto, Stages, Inside
<1>11. ASSUME NEW p \in Procs, ApplyDone(p) PROVE TypeInv'
  <2> DEFINE f == run[p].cur
  <2>1. f \in Files /\ size[f] \in Nat /\ size[f] \in 0..MaxSize
    BY <1>11 DEF TypeOK, CurIsFile, ApplyDone, StatFails
  <2> DEFINE r == Cleaned(run[p], f)
  <2>2. r \in RunState
    BY <2>1, <1>a, CleanedType
  <2>3. [r EXCEPT !.freed = IF config.mode = "delete" THEN @ ELSE @ + size[f]]
          \in RunState
    <3>1. (IF config.mode = "delete" THEN r.freed ELSE r.freed + size[f]) \in Nat
      BY <2>1, <2>2 DEF RunState
    <3> HIDE DEF r
    <3> QED
      BY <2>1, <2>2, <3>1, RunUpdates
  <2>4. run' \in [Procs -> RunState]
    BY <1>11, <2>3 DEF ApplyDone, TypeOK
  <2>5. size' \in [Files -> {Absent} \cup 0..MaxSize] /\ held' \in [Files -> Nat]
    BY <1>11, <2>1, NumbersAssumption DEF ApplyDone, TypeOK
  <2>6. pc' \in [Procs -> Stages]
    BY <1>11 DEF ApplyDone, Goto, TypeOK, Stages, Inside
  <2>7. CurIsFile'
    BY <1>11 DEF TypeOK, ApplyDone, Goto, CurIsFile
  <2> QED
    BY <1>11, <2>4, <2>5, <2>6, <2>7 DEF TypeOK, ApplyDone
<1>12. ASSUME NEW p \in Procs, CollectInsights(p) PROVE TypeInv'
  BY <1>12 DEF TypeOK, CurIsFile, CollectInsights, Leave, Goto, Stages, Inside,
    Endings
<1>13. ASSUME NEW p \in Procs, RecordRun(p) PROVE TypeInv'
  <2>1. RunRow(run[p]) \in RunRowType
    BY <1>a, RunRowTyped DEF TypeOK
  <2>a. history \in Seq(RunRowType)
    BY DEF TypeOK
  <2>b. Append(history, RunRow(run[p])) \in Seq(RunRowType)
    BY <2>1, <2>a
  <2>2. history' \in Seq(RunRowType)
    BY <1>13, <2>a, <2>b DEF RecordRun, Recorded
  <2> QED
    BY <1>13, <2>2 DEF TypeOK, CurIsFile, RecordRun, Goto, Stages, Inside
<1>14. ASSUME NEW p \in Procs, Finish(p) PROVE TypeInv'
  <2>1. RunRow(run[p]) \in RunRowType
    BY <1>a, RunRowTyped DEF TypeOK
  <2> QED
    BY <1>14, <2>1 DEF TypeOK, CurIsFile, Finish, Leave, Goto, Stages, Endings
<1>15. ASSUME NEW p \in Procs, Return(p) PROVE TypeInv'
  BY <1>15, FreshRunType DEF TypeOK, CurIsFile, Return, Goto, Stages
<1>16. ASSUME NEW p \in Procs, Expire(p) PROVE TypeInv'
  <2>1. [run[p] EXCEPT !.expired = TRUE] \in RunState
    BY <1>a, ExpiredType
  <2>2. [run[p] EXCEPT !.expired = TRUE].cur = run[p].cur
    BY <1>a, ExpiredType
  <2> QED
    BY <1>16, <2>1, <2>2 DEF TypeOK, CurIsFile, Expire
<1>17. CASE Crash
  BY <1>17, FreshRunType, NumbersAssumption DEF TypeOK, CurIsFile, Crash, Stages
<1>18. ASSUME NEW f \in Files, Grow(f) \/ Rotate(f) \/ Restart(f) \/ Remove(f)
       PROVE TypeInv'
  <2>a. events' \in 0..MaxEvents
    BY <1>18, NumbersAssumption DEF TypeOK, Grow, Rotate, Restart, Remove, HostEvent
  <2>b. live' \in [Files -> BOOLEAN]
    BY <1>18 DEF TypeOK, Grow, Rotate, Restart, Remove
  <2>c. size' \in [Files -> {Absent} \cup 0..MaxSize]
    <3>1. CASE Grow(f)
      <4>1. CASE size' = size
        BY <4>1 DEF TypeOK
      <4>2. CASE size[f] # Absent /\ size[f] < MaxSize
                   /\ size' = [size EXCEPT ![f] = @ + 1]
        <5>1. size \in [Files -> {Absent} \cup 0..MaxSize]
          BY DEF TypeOK
        <5>2. size[f] \in 0..MaxSize
          BY <4>2, <5>1
        <5>3. size[f] + 1 \in 0..MaxSize
          BY <4>2, <5>2, NumbersAssumption
        <5> QED
          BY <4>2, <5>1, <5>3
      <4> QED
        BY <3>1, <4>1, <4>2 DEF Grow
    <3>2. CASE Rotate(f)
      BY <3>2, NumbersAssumption DEF TypeOK, Rotate
    <3>3. CASE Restart(f)
      BY <3>3, NumbersAssumption DEF TypeOK, Restart
    <3>4. CASE Remove(f)
      BY <3>4, NumbersAssumption DEF TypeOK, Remove
    <3> QED
      BY <1>18, <3>1, <3>2, <3>3, <3>4
  <2>d. held' \in [Files -> Nat]
    <3>1. CASE Grow(f)
      <4>1. held \in [Files -> Nat] /\ held[f] + 1 \in Nat
        BY DEF TypeOK
      <4>2. held' = held \/ held' = [held EXCEPT ![f] = @ + 1]
        BY <3>1 DEF Grow
      <4> QED
        BY <4>1, <4>2
    <3>2. CASE Rotate(f) \/ Restart(f) \/ Remove(f)
      BY <3>2 DEF TypeOK, Rotate, Restart, Remove
    <3> QED
      BY <1>18, <3>1, <3>2
  <2>e. written' \in [Files -> Nat]
    BY <1>18 DEF TypeOK, Grow, Rotate, Restart, Remove
  <2> QED
    BY <1>18, <2>a, <2>b, <2>c, <2>d, <2>e DEF TypeOK, CurIsFile, Grow, Rotate, Restart, Remove
<1>19. CASE UNCHANGED vars
  BY <1>19 DEF TypeOK, CurIsFile, vars
<1> QED
  BY <1>1, <1>2, <1>3, <1>4, <1>5, <1>6, <1>7, <1>8, <1>9, <1>10, <1>11, <1>12,
     <1>13, <1>14, <1>15, <1>16, <1>17, <1>18, <1>19
     DEF Next, AskDocker, Work, Host

\* Every variable of the agent keeps its type: counts and totals stay natural
\* numbers, no call works on a path that is not a log.
THEOREM TypeCorrect == Spec => []TypeOK
<1>1. Spec => []TypeInv
  BY TypeInit, TypeNext, PTL DEF Spec
<1> QED
  BY <1>1, PTL DEF TypeInv

----------------------------------------------------------------------------
(* Mutual exclusion and the contract of Run.                               *)

\* The lock names exactly the goroutine that is between TryLock and the
\* deferred Unlock.
LockInv == \A p \in Procs : pc[p] \in Inside <=> lock = p

\* Every step keeps it: Leave releases the lock whenever a goroutine leaves
\* Inside, and a crash resets both (cleaner.go, mu).
LEMMA LockNext == TypeOK /\ LockInv /\ [Next]_vars => LockInv'
<1> SUFFICES ASSUME TypeOK, LockInv, [Next]_vars PROVE LockInv'
  OBVIOUS
<1> USE ProcsAssumption DEF LockInv, TypeOK, Inside
<1>1. ASSUME NEW p \in Procs, TryLock(p) \/ Reject(p) PROVE LockInv'
  BY <1>1 DEF TryLock, Reject, MutexFree, Goto
<1>2. ASSUME NEW p \in Procs, Discover(p) \/ CollectInsights(p) \/ Finish(p)
      PROVE LockInv'
  <2>1. CASE Discover(p)
    BY <2>1 DEF Discover, Leave, Goto, Endings
  <2>2. CASE CollectInsights(p)
    BY <2>2 DEF CollectInsights, Leave, Goto, Endings
  <2>3. CASE Finish(p)
    BY <2>3 DEF Finish, Leave, Goto, Endings
  <2> QED
    BY <1>2, <2>1, <2>2, <2>3
<1>3. ASSUME NEW p \in Procs, Rank(p) \/ ApplyFailed(p) \/ ApplyDone(p)
                                \/ RecordRun(p) \/ Return(p)
      PROVE LockInv'
  BY <1>3 DEF Rank, ApplyFailed, ApplyDone, RecordRun, Return, Goto, Endings
<1>4. ASSUME NEW p \in Procs, NEW f \in Files, ApplyStat(p, f) PROVE LockInv'
  BY <1>4 DEF ApplyStat, Goto
<1>5. ASSUME NEW p \in Procs, NEW f \in Files,
             ScanMissing(p, f) \/ ScanFile(p, f) \/ SkipEntry(p, f)
               \/ ApplyRefused(p, f)
      PROVE LockInv'
  BY <1>5 DEF ScanMissing, ScanFile, SkipEntry, ApplyRefused
<1>6. ASSUME NEW p \in Procs, Expire(p) PROVE LockInv'
  BY <1>6 DEF Expire
<1>7. CASE Crash
  BY <1>7 DEF Crash
<1>8. CASE Host
  BY <1>8 DEF Host, Grow, Rotate, Restart, Remove
<1>9. CASE UNCHANGED vars
  BY <1>9 DEF vars
<1> QED
  BY <1>1, <1>2, <1>3, <1>4, <1>5, <1>6, <1>7, <1>8, <1>9
     DEF Next, AskDocker, Work

\* The lock and the program counters agree in every reachable state.
LEMMA LockAlways == Spec => []LockInv
<1>1. Init => LockInv
  BY ProcsAssumption DEF Init, LockInv, Inside
<1> QED
  BY <1>1, LockNext, TypeCorrect, PTL DEF Spec

\* At most one cleanup cycle is in progress, whatever the number of
\* goroutines and however the earlier cycles ended.
THEOREM MutexHolds == Spec => []MutualExclusion
<1>1. LockInv => MutualExclusion
  BY DEF LockInv, MutualExclusion
<1> QED
  BY <1>1, LockAlways, PTL

\* The phase a caller sees.
Phase == [p \in Procs |-> IF pc[p] \in Inside THEN "running" ELSE pc[p]]

\* Every step of Run or of its environment is a step of the contract, or
\* leaves the phases alone.
LEMMA GateStep ==
  TypeOK /\ LockInv /\ LockInv' /\ [Next]_vars => [Gate!Next]_Phase
<1> SUFFICES ASSUME TypeOK, LockInv, LockInv', [Next]_vars
             PROVE  Gate!Next \/ UNCHANGED Phase
  BY DEF Phase
<1> USE DEF TypeOK, Inside, Phase
<1>1. ASSUME NEW p \in Procs, TryLock(p) PROVE Gate!Start(p)
  <2>1. pc[p] = "idle" /\ pc' = [pc EXCEPT ![p] = "discover"]
    BY <1>1 DEF TryLock, Goto
  <2>2. \A q \in Procs : pc[q] \notin Inside
    BY <1>1, ProcsAssumption DEF LockInv, TryLock, MutexFree
  <2>3. Gate!Running = {}
    BY <2>2 DEF Gate!Running, Stages, Endings
  <2>4. Phase' = [Phase EXCEPT ![p] = "running"]
    BY <2>1
  <2> QED
    BY <2>1, <2>3, <2>4 DEF Gate!Start
<1>2. ASSUME NEW p \in Procs, Reject(p) PROVE Gate!Reject(p)
  <2>1. pc[p] = "idle" /\ pc' = [pc EXCEPT ![p] = "already"]
    BY <1>2 DEF Reject, Goto
  <2>2. lock \in Procs /\ pc[lock] \in Inside
    BY <1>2 DEF LockInv, Reject, MutexFree
  <2> QED
    BY <2>1, <2>2 DEF Gate!Reject, Gate!Running
<1>3. ASSUME NEW p \in Procs, NEW e \in Endings, pc[p] \in Inside, Leave(p, e)
      PROVE  Gate!End(p, e)
  BY <1>3 DEF Gate!End, Leave, Goto, Endings
<1>4. ASSUME NEW p \in Procs, NEW stage \in Inside, pc[p] \in Inside, Goto(p, stage)
      PROVE  UNCHANGED Phase
  BY <1>4 DEF Goto
<1>5. ASSUME NEW p \in Procs, Discover(p) \/ CollectInsights(p) \/ Finish(p)
      PROVE  (\E e \in Endings : Gate!End(p, e)) \/ UNCHANGED Phase
  BY <1>3, <1>4, <1>5 DEF Discover, CollectInsights, Finish, Endings
<1>6. ASSUME NEW p \in Procs, Rank(p) \/ ApplyFailed(p) \/ ApplyDone(p)
                                \/ RecordRun(p)
      PROVE  UNCHANGED Phase
  BY <1>4, <1>6 DEF Rank, ApplyFailed, ApplyDone, RecordRun
<1>7. ASSUME NEW p \in Procs, Return(p) PROVE Gate!Return(p)
  BY <1>7 DEF Return, Goto, Endings, Gate!Return, Gate!Endings
<1>8. ASSUME NEW p \in Procs, NEW f \in Files, ApplyStat(p, f)
      PROVE  UNCHANGED Phase
  BY <1>4, <1>8 DEF ApplyStat
<1>9. ASSUME NEW p \in Procs, NEW f \in Files,
             ScanMissing(p, f) \/ ScanFile(p, f) \/ SkipEntry(p, f)
               \/ ApplyRefused(p, f)
      PROVE  UNCHANGED Phase
  BY <1>9 DEF ScanMissing, ScanFile, SkipEntry, ApplyRefused
<1>10. ASSUME NEW p \in Procs, Expire(p) PROVE UNCHANGED Phase
  BY <1>10 DEF Expire
<1>11. CASE Crash
  BY <1>11 DEF Crash, Gate!Next, Gate!Crash
<1>12. CASE Host
  BY <1>12 DEF Host, Grow, Rotate, Restart, Remove
<1>13. CASE UNCHANGED vars
  BY <1>13 DEF vars
<1> QED
  BY <1>1, <1>2, <1>5, <1>6, <1>7, <1>8, <1>9, <1>10, <1>11, <1>12, <1>13
     DEF Next, AskDocker, Work, Gate!Next, Endings, Gate!Endings

\* Run implements the contract RunGate states: Agent.tla may use the contract
\* in place of Run.
THEOREM RunImplementsGate == Spec => ImplementsGate
<1>1. Init => Gate!Init
  BY DEF Init, Gate!Init, Inside
<1>2. Spec => []([Gate!Next]_Phase)
  BY GateStep, TypeCorrect, LockAlways, PTL DEF Spec
<1> QED
  BY <1>1, <1>2, PTL DEF Spec, ImplementsGate, Gate!Spec, Phase

----------------------------------------------------------------------------
(* The policy loop.                                                        *)

\* The entries the policy has been applied to, or is being applied to.
Handled(r) == r.truncated \cup r.truncErrs \cup ({r.cur} \ {None})

\* What a call of Run knows at each stage.
CycleInv(r, stage) ==
  /\ stage \in {"idle", "already", "discover", "error"} =>
       r.todo = {} /\ r.scanned = {} /\ r.statErrs = {}
  /\ stage \in {"idle", "already", "discover", "error", "scan"} =>
       r.pending = {} /\ Handled(r) = {}
  /\ r.todo \cap (r.scanned \cup r.statErrs) = {}
  /\ r.scanned \cap r.statErrs = {}
  /\ stage \in {"process", "apply", "record", "finish", "ok", "panic"} =>
       /\ r.todo = {} /\ r.pending \subseteq r.scanned
       /\ Handled(r) = IF config.dryRun THEN {}
                       ELSE {f \in r.scanned \ r.pending : Eligible(r, f)}
  /\ stage \in {"record", "finish", "ok"} => r.pending = {}
  /\ stage # "apply" => r.cur = None
  /\ r.truncated \cap r.truncErrs = {}
  /\ r.cur \notin r.truncated \cup r.truncErrs

PolicyInv == \A p \in Procs : CycleInv(run[p], pc[p])

\* Whether an entry is eligible depends on what the scan found, and on
\* nothing the policy loop changes.
LEMMA EligibleStable ==
  ASSUME NEW r, NEW s, NEW f, s.esize = r.esize, s.named = r.named
  PROVE  Eligible(s, f) <=> Eligible(r, f)
BY DEF Eligible, IsOversized, IsExcluded, EntryName

\* A new call starts with nothing scanned and nothing handled.
LEMMA FreshCycle ==
  ASSUME NEW stage \in {"idle", "already", "discover"}
  PROVE  CycleInv(FreshRun, stage)
BY FilesAssumption DEF CycleInv, FreshRun, Handled

\* discoverLogFiles returns the logs to scan.
LEMMA DiscoverCycle ==
  ASSUME NEW r \in RunState, CycleInv(r, "discover"), NEW S \in SUBSET Files
  PROVE  CycleInv([r EXCEPT !.todo = S], "scan") /\ CycleInv(r, "error")
BY DEF CycleInv, Handled, RunState

\* The scan loop moves each log either to the entries or to the errors.
LEMMA ScanCycle ==
  ASSUME NEW r \in RunState, CycleInv(r, "scan"), NEW f \in r.todo,
         NEW n \in Nat, NEW N \in SUBSET Files, NEW b \in BOOLEAN
  PROVE  /\ CycleInv([r EXCEPT !.todo = @ \ {f}, !.statErrs = @ \cup {f}], "scan")
         /\ CycleInv([r EXCEPT !.todo = @ \ {f}, !.expired = b,
                               !.scanned = @ \cup {f}, !.esize[f] = n, !.named = N], "scan")
<1>1. CycleInv([r EXCEPT !.todo = @ \ {f}, !.statErrs = @ \cup {f}], "scan")
  BY DEF CycleInv, Handled, RunState
<1>2. CycleInv([r EXCEPT !.todo = @ \ {f}, !.expired = b,
                         !.scanned = @ \cup {f}, !.esize[f] = n, !.named = N], "scan")
  BY DEF CycleInv, Handled, RunState
<1> QED
  BY <1>1, <1>2

\* The policy loop starts with every entry pending.
LEMMA RankCycle ==
  ASSUME NEW r \in RunState, CycleInv(r, "scan"), r.todo = {},
         NEW T \in SUBSET Files
  PROVE  CycleInv([r EXCEPT !.top = T, !.pending = r.scanned], "process")
<1> DEFINE s == [r EXCEPT !.top = T, !.pending = r.scanned]
<1>1. /\ s.todo = {} /\ s.pending = r.scanned /\ s.scanned = r.scanned
      /\ s.statErrs = r.statErrs /\ s.truncated = r.truncated
      /\ s.truncErrs = r.truncErrs /\ s.cur = r.cur
  BY DEF RunState
<1>2. Handled(s) = {}
  BY <1>1 DEF CycleInv, Handled
<1> SUFFICES CycleInv(s, "process")
  OBVIOUS
<1> HIDE DEF s
<1>3. Handled(s) = IF config.dryRun THEN {}
                   ELSE {f \in s.scanned \ s.pending : Eligible(s, f)}
  BY <1>1, <1>2
<1>4. r.cur = None
  BY DEF CycleInv
<1> QED
  BY <1>1, <1>2, <1>3, <1>4 DEF CycleInv

\* An entry that is skipped was not eligible, or this is a dry run.
LEMMA SkipCycle ==
  ASSUME NEW r \in RunState, CycleInv(r, "process"), NEW f,
         IsNextEntry(r, f), ~Eligible(r, f) \/ DryRun
  PROVE  CycleInv([r EXCEPT !.pending = @ \ {f}], "process")
<1> DEFINE s == [r EXCEPT !.pending = @ \ {f}]
<1>1. /\ s.todo = r.todo /\ s.pending = r.pending \ {f} /\ s.scanned = r.scanned
      /\ s.statErrs = r.statErrs /\ s.truncated = r.truncated
      /\ s.truncErrs = r.truncErrs /\ s.cur = r.cur
      /\ s.esize = r.esize /\ s.named = r.named
  BY DEF RunState
<1>2. Handled(s) = Handled(r)
  BY <1>1 DEF Handled
<1>3. \A g : Eligible(s, g) <=> Eligible(r, g)
  BY <1>1, EligibleStable
<1> SUFFICES CycleInv(s, "process")
  OBVIOUS
<1> HIDE DEF s
<1>4. Handled(s) = IF config.dryRun THEN {}
                   ELSE {g \in s.scanned \ s.pending : Eligible(s, g)}
  <2>1. CASE config.dryRun
    BY <1>2, <2>1 DEF CycleInv
  <2>2. CASE ~config.dryRun
    <3>1. ~Eligible(r, f)
      BY <2>2 DEF DryRun
    <3>2. Handled(r) = {g \in r.scanned \ r.pending : Eligible(r, g)}
      BY <2>2 DEF CycleInv
    <3> QED
      BY <1>1, <1>2, <1>3, <2>2, <3>1, <3>2
  <2> QED
    BY <2>1, <2>2
<1>5. s.todo = {} /\ s.pending \subseteq s.scanned /\ s.cur = None
  BY <1>1 DEF CycleInv
<1> QED
  BY <1>1, <1>2, <1>4, <1>5 DEF CycleInv

\* Taking up an eligible entry in a real run (cleaner.go, policy.Apply).
LEMMA TakeCycle ==
  ASSUME NEW r \in RunState, NEW s \in RunState, CycleInv(r, "process"),
         NEW f \in Files, IsNextEntry(r, f), Eligible(r, f), ~DryRun,
         NEW stage \in {"process", "apply"},
         s.todo = r.todo, s.scanned = r.scanned, s.statErrs = r.statErrs,
         s.esize = r.esize, s.named = r.named, s.pending = r.pending \ {f},
         \/ /\ stage = "apply" /\ s.cur = f
            /\ s.truncated = r.truncated /\ s.truncErrs = r.truncErrs
         \/ /\ stage = "process" /\ s.cur = None
            /\ s.truncated = r.truncated /\ s.truncErrs = r.truncErrs \cup {f}
  PROVE  CycleInv(s, stage)
<1>1. r.cur = None /\ f \in r.pending /\ f \in r.scanned /\ f # None
  BY FilesAssumption DEF CycleInv, IsNextEntry
<1>2. Handled(s) = Handled(r) \cup {f}
  BY <1>1 DEF Handled
<1>3. \A g : Eligible(s, g) <=> Eligible(r, g)
  BY EligibleStable
<1>4. Handled(r) = {g \in r.scanned \ r.pending : Eligible(r, g)}
  BY DEF CycleInv, DryRun
<1>5. f \notin Handled(r)
  BY <1>1, <1>4
<1>6. Handled(s) = {g \in s.scanned \ s.pending : Eligible(s, g)}
  BY <1>1, <1>2, <1>3, <1>4
<1>7. s.truncated \cap s.truncErrs = {} /\ s.cur \notin s.truncated \cup s.truncErrs
  <2>1. f \notin r.truncated \cup r.truncErrs
    BY <1>5 DEF Handled
  <2>2. None \notin r.truncated \cup r.truncErrs
    BY FilesAssumption DEF RunState
  <2> QED
    BY <1>1, <2>1, <2>2 DEF CycleInv
<1>8. ~config.dryRun
  BY DEF DryRun
<1> QED
  BY <1>1, <1>6, <1>7, <1>8 DEF CycleInv

\* Apply returned: the entry moves to the truncated ones or to the errors.
LEMMA ApplyCycle ==
  ASSUME NEW r \in RunState, NEW s \in RunState, CycleInv(r, "apply"),
         r.cur \in Files, s.cur = None,
         s.todo = r.todo, s.scanned = r.scanned, s.statErrs = r.statErrs,
         s.esize = r.esize, s.named = r.named, s.pending = r.pending,
         \/ /\ s.truncated = r.truncated \cup {r.cur}
            /\ s.truncErrs = r.truncErrs
         \/ /\ s.truncated = r.truncated
            /\ s.truncErrs = r.truncErrs \cup {r.cur}
  PROVE  CycleInv(s, "process")
<1>1. Handled(s) = Handled(r)
  BY FilesAssumption DEF Handled
<1>2. \A g : Eligible(s, g) <=> Eligible(r, g)
  BY EligibleStable
<1>3. None \notin s.truncated \cup s.truncErrs
  BY FilesAssumption DEF RunState
<1>4. s.truncated \cap s.truncErrs = {}
  BY DEF CycleInv
<1> QED
  BY <1>1, <1>2, <1>3, <1>4 DEF CycleInv

\* Once no entry is pending the cycle may be recorded, or end in a panic.
LEMMA LaterCycle ==
  ASSUME NEW r \in RunState
  PROVE  /\ CycleInv(r, "process") /\ r.pending = {} =>
              CycleInv(r, "record") /\ CycleInv(r, "panic")
         /\ CycleInv(r, "record") => CycleInv(r, "finish")
         /\ CycleInv(r, "finish") => CycleInv(r, "ok")
         /\ CycleInv(r, "idle") => CycleInv(r, "already") /\ CycleInv(r, "discover")
BY DEF CycleInv

\* Expiry of the context changes none of this.
LEMMA ExpireCycle ==
  ASSUME NEW r \in RunState, NEW stage, CycleInv(r, stage)
  PROVE  CycleInv([r EXCEPT !.expired = TRUE], stage)
<1> DEFINE s == [r EXCEPT !.expired = TRUE]
<1>1. /\ s.todo = r.todo /\ s.pending = r.pending /\ s.scanned = r.scanned
      /\ s.statErrs = r.statErrs /\ s.truncated = r.truncated
      /\ s.truncErrs = r.truncErrs /\ s.cur = r.cur
      /\ s.esize = r.esize /\ s.named = r.named
  BY DEF RunState
<1>2. Handled(s) = Handled(r) /\ \A g : Eligible(s, g) <=> Eligible(r, g)
  BY <1>1, EligibleStable DEF Handled
<1> SUFFICES CycleInv(s, stage)
  OBVIOUS
<1> HIDE DEF s
<1>3. {f \in s.scanned \ s.pending : Eligible(s, f)}
        = {f \in r.scanned \ r.pending : Eligible(r, f)}
  BY <1>1, <1>2
<1> QED
  BY <1>1, <1>2, <1>3 DEF CycleInv

\* A step of one goroutine preserves the invariant if it does for that
\* goroutine.
LEMMA OneCycle ==
  ASSUME PolicyInv, config' = config, NEW p \in Procs,
         \A q \in Procs \ {p} : run'[q] = run[q] /\ pc'[q] = pc[q],
         CycleInv(run'[p], pc'[p])
  PROVE  PolicyInv'
<1>1. \A q \in Procs : CycleInv(run'[q], pc'[q])
  BY DEF PolicyInv
<1> QED
  BY <1>1 DEF PolicyInv, CycleInv, Handled, Eligible, IsOversized, IsExcluded,
     EntryName

\* Every step preserves the policy invariant (cleaner.go, Run, from the scan
\* loop to the end of the policy loop).
LEMMA PolicyNext == TypeInv /\ PolicyInv /\ [Next]_vars => PolicyInv'
<1> SUFFICES ASSUME TypeInv, PolicyInv, [Next]_vars PROVE PolicyInv'
  OBVIOUS
<1>a. run \in [Procs -> RunState] /\ pc \in [Procs -> Stages]
  BY DEF TypeInv, TypeOK
<1>b. \A q \in Procs : run[q] \in RunState /\ CycleInv(run[q], pc[q])
  BY <1>a DEF PolicyInv
<1>1. ASSUME NEW p \in Procs, TryLock(p) \/ Reject(p) PROVE PolicyInv'
  <2>1. run' = run /\ config' = config /\ CycleInv(run[p], "idle")
    BY <1>1, <1>b DEF TryLock, Reject
  <2>2. CycleInv(run[p], "already") /\ CycleInv(run[p], "discover")
    BY <2>1, <1>b, LaterCycle
  <2>3. \/ pc' = [pc EXCEPT ![p] = "already"]
        \/ pc' = [pc EXCEPT ![p] = "discover"]
    BY <1>1 DEF TryLock, Reject, Goto
  <2> QED
    BY <2>1, <2>2, <2>3, <1>a, OneCycle
<1>2. ASSUME NEW p \in Procs, Discover(p) PROVE PolicyInv'
  <2>1. CycleInv(run[p], "discover") /\ config' = config
    BY <1>2, <1>b DEF Discover
  <2>2. \A S \in SUBSET Files : CycleInv([run[p] EXCEPT !.todo = S], "scan")
    BY <2>1, <1>b, DiscoverCycle
  <2>3. CycleInv(run[p], "error")
    BY <2>1, <1>b, DiscoverCycle
  <2>4. CASE Leave(p, "error") /\ UNCHANGED run
    BY <2>1, <2>3, <2>4, <1>a, OneCycle DEF Leave, Goto
  <2>5. CASE Goto(p, "scan")
             /\ run' = [run EXCEPT ![p].todo = Discovered]
    BY <2>1, <2>2, <2>5, <1>a, OneCycle DEF Goto, Discovered
  <2> QED
    BY <1>2, <2>4, <2>5 DEF Discover
<1>3. ASSUME NEW p \in Procs, NEW f \in Files, ScanMissing(p, f)
      PROVE  PolicyInv'
  <2>1. CycleInv([run[p] EXCEPT !.todo = @ \ {f}, !.statErrs = @ \cup {f}],
                 "scan")
    BY <1>3, <1>b, ScanCycle DEF ScanMissing
  <2> QED
    BY <1>3, <2>1, <1>a, OneCycle DEF ScanMissing
<1>4. ASSUME NEW p \in Procs, NEW f \in Files, ScanFile(p, f)
      PROVE  PolicyInv'
  <2>1. PICK inspected \in BOOLEAN, expired \in BOOLEAN :
          run' = [run EXCEPT ![p].todo = @ \ {f},
                             ![p].expired = expired,
                             ![p].scanned = @ \cup {f},
                             ![p].esize[f] = size[f],
                             ![p].named = IF inspected THEN @ \cup {f} ELSE @]
    BY <1>4 DEF ScanFile
  <2> DEFINE N == IF inspected THEN run[p].named \cup {f} ELSE run[p].named
  <2>2. N \in SUBSET Files /\ size[f] \in Nat
    <3>1. run[p].named \in SUBSET Files
      BY <1>b DEF RunState
    <3>2. size[f] \in Nat
      BY <1>4 DEF ScanFile, StatFails, TypeInv, TypeOK, Absent
    <3> QED
      BY <3>1, <3>2
  <2>3. CycleInv([run[p] EXCEPT !.todo = @ \ {f}, !.expired = expired,
                                !.scanned = @ \cup {f}, !.esize[f] = size[f], !.named = N], "scan")
    <3> HIDE DEF N
    <3>1. run[p] \in RunState /\ CycleInv(run[p], "scan") /\ f \in run[p].todo
      BY <1>4, <1>b DEF ScanFile
    <3> QED
      BY <3>1, <2>2, ScanCycle
  <2>4. run'[p] = [run[p] EXCEPT !.todo = @ \ {f}, !.expired = expired,
                                !.scanned = @ \cup {f}, !.esize[f] = size[f], !.named = N]
    BY <2>1, <1>a
  <2> QED
    BY <1>4, <2>1, <2>3, <2>4, <1>a, OneCycle DEF ScanFile
<1>5. ASSUME NEW p \in Procs, Rank(p) PROVE PolicyInv'
  <2>1. PICK T \in TopSets(run[p]) :
          run' = [run EXCEPT ![p].top = T, ![p].pending = run[p].scanned]
    BY <1>5 DEF Rank
  <2>2. T \in SUBSET Files
    BY <1>b DEF RunState, TopSets
  <2>3. CycleInv([run[p] EXCEPT !.top = T, !.pending = run[p].scanned], "process")
    BY <1>5, <1>b, <2>2, RankCycle DEF Rank
  <2> QED
    BY <1>5, <2>1, <2>3, <1>a, OneCycle DEF Rank, Goto
<1>6. ASSUME NEW p \in Procs, NEW f \in Files, SkipEntry(p, f)
      PROVE  PolicyInv'
  <2>1. CycleInv([run[p] EXCEPT !.pending = @ \ {f}], "process")
    BY <1>6, <1>b, SkipCycle DEF SkipEntry
  <2> QED
    BY <1>6, <2>1, <1>a, OneCycle DEF SkipEntry
<1>7. ASSUME NEW p \in Procs, NEW f \in Files, ApplyRefused(p, f)
      PROVE  PolicyInv'
  <2> DEFINE s == WithError(run[p], f)
  <2>1. s \in RunState
    BY <1>b, WithErrorType
  <2>2. /\ s.todo = run[p].todo /\ s.scanned = run[p].scanned
        /\ s.statErrs = run[p].statErrs /\ s.esize = run[p].esize
        /\ s.named = run[p].named /\ s.pending = run[p].pending \ {f}
        /\ s.cur = None /\ s.truncated = run[p].truncated
        /\ s.truncErrs = run[p].truncErrs \cup {f}
    BY <1>b DEF WithError, RunState
  <2>3. CycleInv(s, "process")
    <3> HIDE DEF s
    <3> QED
      BY <1>7, <1>b, <2>1, <2>2, TakeCycle DEF ApplyRefused
  <2> QED
    BY <1>7, <2>3, <1>a, OneCycle DEF ApplyRefused
<1>8. ASSUME NEW p \in Procs, NEW f \in Files, ApplyStat(p, f)
      PROVE  PolicyInv'
  <2> DEFINE s == [run[p] EXCEPT !.pending = @ \ {f}, !.cur = f,
                                 !.curSize = size[f]]
  <2>0. size[f] \in Nat
    BY <1>8 DEF TypeInv, TypeOK, ApplyStat, StatFails, Absent
  <2>1. s \in RunState
    BY <1>b, <2>0, RunUpdates
  <2>2. /\ s.todo = run[p].todo /\ s.scanned = run[p].scanned
        /\ s.statErrs = run[p].statErrs /\ s.esize = run[p].esize
        /\ s.named = run[p].named /\ s.pending = run[p].pending \ {f}
        /\ s.cur = f /\ s.truncated = run[p].truncated
        /\ s.truncErrs = run[p].truncErrs
    BY <1>b DEF RunState
  <2>3. CycleInv(s, "apply")
    <3> HIDE DEF s
    <3> QED
      BY <1>8, <1>b, <2>1, <2>2, TakeCycle DEF ApplyStat
  <2> QED
    BY <1>8, <2>3, <1>a, OneCycle DEF ApplyStat, Goto
<1>9. ASSUME NEW p \in Procs, ApplyFailed(p) PROVE PolicyInv'
  <2> DEFINE r == run[p]
  <2> DEFINE s == WithError(r, r.cur)
  <2>1. r.cur \in Files /\ CycleInv(r, "apply") /\ r.cur \notin r.pending
    BY <1>9, <1>b, FilesAssumption
       DEF ApplyFailed, TypeInv, CurIsFile, CycleInv, Handled
  <2>2. s \in RunState
    BY <1>b, <2>1, WithErrorType
  <2>3. /\ s.todo = r.todo /\ s.scanned = r.scanned
        /\ s.statErrs = r.statErrs /\ s.esize = r.esize
        /\ s.named = r.named /\ s.pending = r.pending
        /\ s.cur = None /\ s.truncated = r.truncated
        /\ s.truncErrs = r.truncErrs \cup {r.cur}
    BY <1>b, <2>1 DEF WithError, RunState
  <2>4. CycleInv(s, "process")
    <3> HIDE DEF s
    <3> QED
      BY <1>b, <2>1, <2>2, <2>3, ApplyCycle
  <2> QED
    BY <1>9, <2>4, <1>a, OneCycle DEF ApplyFailed, Goto
<1>10. ASSUME NEW p \in Procs, ApplyDone(p) PROVE PolicyInv'
  <2> DEFINE r == run[p]
  <2> DEFINE n == IF config.mode = "delete" THEN r.freed
                  ELSE r.freed + size[r.cur]
  <2> DEFINE s == [Cleaned(r, r.cur) EXCEPT !.freed = n]
  <2>1. r.cur \in Files /\ CycleInv(r, "apply")
    BY <1>10, <1>b DEF ApplyDone, TypeInv, CurIsFile
  <2>2. size[r.cur] \in Nat /\ n \in Nat
    <3>1. size[r.cur] \in Nat
      BY <1>10, <2>1 DEF ApplyDone, TypeInv, TypeOK, StatFails, Absent
    <3>2. r.freed \in Nat
      BY <1>b DEF RunState
    <3> QED
      BY <3>1, <3>2
  <2>3. Cleaned(r, r.cur) \in RunState
    BY <1>b, <2>1, CleanedType
  <2>4. s \in RunState
    BY <2>1, <2>2, <2>3, RunUpdates
  <2>5. /\ s.todo = r.todo /\ s.scanned = r.scanned
        /\ s.statErrs = r.statErrs /\ s.esize = r.esize
        /\ s.named = r.named /\ s.pending = r.pending
        /\ s.cur = None /\ s.truncated = r.truncated \cup {r.cur}
        /\ s.truncErrs = r.truncErrs
    BY <1>b, <2>1 DEF Cleaned, RunState
  <2>6. CycleInv(s, "process")
    <3> HIDE DEF s
    <3> QED
      BY <1>b, <2>1, <2>4, <2>5, ApplyCycle
  <2>7. run'[p] = s
    BY <1>10, <1>a, <2>3 DEF ApplyDone, Cleaned
  <2> QED
    BY <1>10, <2>6, <2>7, <1>a, OneCycle DEF ApplyDone, Goto
<1>11. ASSUME NEW p \in Procs, CollectInsights(p) PROVE PolicyInv'
  <2>1. CycleInv(run[p], "record") /\ CycleInv(run[p], "panic")
    BY <1>11, <1>b, LaterCycle DEF CollectInsights
  <2>2. \/ pc' = [pc EXCEPT ![p] = "record"]
        \/ pc' = [pc EXCEPT ![p] = "panic"]
    BY <1>11 DEF CollectInsights, Leave, Goto
  <2> QED
    BY <1>11, <2>1, <2>2, <1>a, OneCycle DEF CollectInsights
<1>12. ASSUME NEW p \in Procs, RecordRun(p) PROVE PolicyInv'
  <2>1. CycleInv(run[p], "finish")
    BY <1>12, <1>b, LaterCycle DEF RecordRun
  <2> QED
    BY <1>12, <2>1, <1>a, OneCycle DEF RecordRun, Goto
<1>13. ASSUME NEW p \in Procs, Finish(p) PROVE PolicyInv'
  <2>1. CycleInv(run[p], "ok")
    BY <1>13, <1>b, LaterCycle DEF Finish
  <2> QED
    BY <1>13, <2>1, <1>a, OneCycle DEF Finish, Leave, Goto
<1>14. ASSUME NEW p \in Procs, Return(p) PROVE PolicyInv'
  <2>1. CycleInv(FreshRun, "idle")
    BY FreshCycle
  <2> QED
    BY <1>14, <2>1, <1>a, OneCycle DEF Return, Goto
<1>15. ASSUME NEW p \in Procs, Expire(p) PROVE PolicyInv'
  <2>1. CycleInv([run[p] EXCEPT !.expired = TRUE], pc[p])
    BY <1>b, ExpireCycle
  <2> QED
    BY <1>15, <2>1, <1>a, OneCycle DEF Expire
<1>16. CASE Crash
  <2>1. CycleInv(FreshRun, "idle")
    BY FreshCycle
  <2> QED
    BY <1>16, <2>1 DEF Crash, PolicyInv, CycleInv, Handled, Eligible,
       IsOversized, IsExcluded, EntryName
<1>17. CASE Host \/ UNCHANGED vars
  <2>1. run' = run /\ pc' = pc /\ config' = config
    BY <1>17 DEF Host, Grow, Rotate, Restart, Remove, vars
  <2> QED
    BY <2>1 DEF PolicyInv, CycleInv, Handled, Eligible, IsOversized,
       IsExcluded, EntryName
<1> QED
  BY <1>1, <1>2, <1>3, <1>4, <1>5, <1>6, <1>7, <1>8, <1>9, <1>10, <1>11,
     <1>12, <1>13, <1>14, <1>15, <1>16, <1>17 DEF Next, AskDocker, Work

\* The policy invariant holds in every reachable state.
LEMMA PolicyAlways == Spec => [](TypeInv /\ PolicyInv)
<1>1. Init => TypeInv /\ PolicyInv
  <2>1. Init => PolicyInv
    BY FreshCycle DEF Init, PolicyInv
  <2> QED
    BY <2>1, TypeInit
<1>2. TypeInv /\ PolicyInv /\ [Next]_vars => (TypeInv /\ PolicyInv)'
  BY TypeNext, PolicyNext
<1> QED
  BY <1>1, <1>2, PTL DEF Spec

\* When the policy loop is over, every log that was discovered has been
\* accounted for, whichever other logs failed.
THEOREM AllAccounted == Spec => []EverythingAccounted
<1>1. TypeInv /\ PolicyInv => EverythingAccounted
  <2> SUFFICES ASSUME TypeInv, PolicyInv, NEW p \in Procs,
                      pc[p] \in {"record", "finish", "ok"}
               PROVE  LET r == run[p] IN
                      /\ r.pending = {} /\ r.todo = {} /\ r.cur = None
                      /\ r.truncated \cap r.truncErrs = {}
                      /\ r.statErrs \cap r.scanned = {}
                      /\ r.truncated \cup r.truncErrs =
                           IF config.dryRun THEN {}
                           ELSE {f \in r.scanned : Eligible(r, f)}
    BY DEF EverythingAccounted, Eligible, IsOversized, IsExcluded
  <2>1. CycleInv(run[p], pc[p])
    BY DEF PolicyInv
  <2> QED
    BY <2>1 DEF CycleInv, Handled
<1> QED
  BY <1>1, PolicyAlways, PTL

\* What the history says of containers that carry an excluded name.
HistorySpares ==
  \A i \in DOMAIN history : \A c \in history[i].containers :
    c.name \in Excluded => ~c.wasTruncated

\* An entry the policy was applied to does not carry an excluded name
\* (cleaner.go, IsExcluded).
LEMMA HandledIsNotExcluded ==
  ASSUME NEW r \in RunState, NEW stage \in Stages, CycleInv(r, stage),
         NEW f \in Handled(r)
  PROVE  EntryName(r, f) \notin Excluded
BY DEF CycleInv, Stages, Inside, Endings, Eligible, IsExcluded

\* The row written for a run does not call an excluded container truncated.
LEMMA RowSpares ==
  ASSUME NEW r \in RunState, NEW stage \in Stages, CycleInv(r, stage),
         NEW c \in RunRow(r).containers, c.name \in Excluded
  PROVE  ~c.wasTruncated
<1>1. PICK f \in r.scanned :
        c = [name |-> EntryName(r, f), wasTruncated |-> f \in r.truncated]
  BY DEF RunRow
<1>2. EntryName(r, f) \in Excluded
  BY <1>1
<1>3. f \notin r.truncated
  BY <1>2, HandledIsNotExcluded DEF Handled
<1> QED
  BY <1>1, <1>3

\* Only RecordRun writes rows, and the rows it writes spare the excluded.
LEMMA HistoryNext ==
  TypeInv /\ PolicyInv /\ HistorySpares /\ [Next]_vars => HistorySpares'
<1> SUFFICES ASSUME TypeInv, PolicyInv, HistorySpares, [Next]_vars
             PROVE  HistorySpares'
  OBVIOUS
<1>1. ASSUME NEW p \in Procs, RecordRun(p), history' # history
      PROVE  HistorySpares'
  <2>1. history' = Append(history, RunRow(run[p]))
    BY <1>1 DEF RecordRun, Recorded
  <2>2. history \in Seq(RunRowType) /\ RunRow(run[p]) \in RunRowType
    BY RunRowTyped DEF TypeInv, TypeOK
  <2>3. \A c \in RunRow(run[p]).containers : c.name \in Excluded => ~c.wasTruncated
    BY RowSpares DEF TypeInv, TypeOK, PolicyInv
  <2> SUFFICES ASSUME NEW i \in DOMAIN history', NEW c \in history'[i].containers,
                      c.name \in Excluded
               PROVE  ~c.wasTruncated
    BY DEF HistorySpares
  <2>4. CASE i \in DOMAIN history
    <3>1. history'[i] = history[i]
      BY <2>1, <2>2, <2>4
    <3> QED
      BY <3>1, <2>4 DEF HistorySpares
  <2>5. CASE i = Len(history) + 1
    <3>1. history'[i] = RunRow(run[p])
      BY <2>1, <2>2, <2>5
    <3> QED
      BY <3>1, <2>3
  <2> QED
    BY <2>1, <2>2, <2>4, <2>5
<1>2. CASE history' = history
  BY <1>2 DEF HistorySpares
<1>3. ASSUME NEW p \in Procs,
             TryLock(p) \/ Reject(p) \/ Discover(p) \/ Rank(p) \/ ApplyFailed(p)
               \/ ApplyDone(p) \/ CollectInsights(p) \/ Finish(p) \/ Return(p)
               \/ Expire(p)
      PROVE  history' = history
  BY <1>3 DEF TryLock, Reject, Discover, Rank, ApplyFailed, ApplyDone,
     CollectInsights, Finish, Return, Expire, dbVars
<1>4. ASSUME NEW p \in Procs, NEW f \in Files,
             ScanMissing(p, f) \/ ScanFile(p, f) \/ SkipEntry(p, f)
               \/ ApplyRefused(p, f) \/ ApplyStat(p, f)
      PROVE  history' = history
  BY <1>4 DEF ScanMissing, ScanFile, SkipEntry, ApplyRefused, ApplyStat, dbVars
<1>5. CASE Crash \/ Host \/ UNCHANGED vars
  <2>1. history' = history
    BY <1>5 DEF Crash, Host, Grow, Rotate, Restart, Remove, vars, dbVars
  <2> QED
    BY <2>1, <1>2
<1> QED
  BY <1>1, <1>2, <1>3, <1>4, <1>5 DEF Next, AskDocker, Work

\* A container whose name Docker gave to the run, and whose name is excluded,
\* is not touched by the run, and no run says it truncated an excluded one.
THEOREM ExcludedAreSpared == Spec => []ExcludedIsSpared
<1>1. Init => HistorySpares
  BY DEF Init, HistorySpares
<1>2. Spec => []HistorySpares
  BY <1>1, HistoryNext, PolicyAlways, PTL DEF Spec
<1>3. TypeInv /\ PolicyInv /\ HistorySpares => ExcludedIsSpared
  <2> SUFFICES ASSUME TypeInv, PolicyInv, NEW p \in Procs,
                      NEW f \in run[p].truncated \cup run[p].truncErrs
                                  \cup {run[p].cur},
                      f \in run[p].named
               PROVE  NameOf[f] \notin Excluded
    BY DEF ExcludedIsSpared, HistorySpares
  <2>1. run[p] \in RunState /\ pc[p] \in Stages /\ CycleInv(run[p], pc[p])
    BY DEF TypeInv, TypeOK, PolicyInv
  <2>2. f # None
    BY <2>1, FilesAssumption DEF RunState
  <2>3. f \in Handled(run[p])
    BY <2>2 DEF Handled
  <2> QED
    BY <2>1, <2>3, HandledIsNotExcluded DEF EntryName
<1> QED
  BY <1>2, <1>3, PolicyAlways, PTL

=============================================================================
