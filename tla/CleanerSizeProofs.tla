------------------------- MODULE CleanerSizeProofs -------------------------
(***************************************************************************)
(* Proofs about Cleaner: what a cycle does to the logs, and what it says   *)
(* it has given back.  The size of a log is read in the scan loop, again   *)
(* in Apply, and changed in a third step; the container may write, and     *)
(* Docker may rotate or remove the log, before each of them.               *)
(***************************************************************************)
EXTENDS CleanerProofs

----------------------------------------------------------------------------
(* What stays true of the sizes that were read.                            *)

\* A log read by r is there no more because its container is not, or is not
\* smaller than it was when it was scanned and when Apply looked.
Unshrunk(r, f) ==
  /\ size[f] = Absent => ~live[f]
  /\ size[f] # Absent => /\ r.esize[f] <= size[f]
                         /\ f = r.cur => r.curSize <= size[f]

\* That holds of every log which Docker does not rotate and which the cycle
\* itself has not truncated.
Intact(r) == \A f \in r.scanned \ (r.truncated \cup Rotating) : Unshrunk(r, f)

SizeInv == \A p \in Procs : pc[p] \in Inside => Intact(run[p])

\* A step that leaves the scanned sizes alone, and the logs, keeps them true.
LEMMA StillIntact ==
  ASSUME NEW r \in RunState, NEW s \in RunState, Intact(r),
         s.scanned = r.scanned, s.truncated = r.truncated, s.esize = r.esize,
         s.cur = None \/ (s.cur = r.cur /\ s.curSize = r.curSize)
  PROVE  Intact(s)
<1> SUFFICES ASSUME NEW f \in s.scanned \ (s.truncated \cup Rotating)
             PROVE  Unshrunk(s, f)
  BY DEF Intact
<1>1. f \in Files /\ f # None
  BY FilesAssumption DEF RunState
<1>2. Unshrunk(r, f)
  BY DEF Intact
<1> QED
  BY <1>1, <1>2 DEF Unshrunk

\* A step of one goroutine in which the logs stay as they are preserves the
\* invariant if it does for that goroutine.
LEMMA OneIntact ==
  ASSUME SizeInv, size' = size, live' = live, NEW p \in Procs,
         \A q \in Procs \ {p} : run'[q] = run[q] /\ pc'[q] = pc[q],
         pc'[p] \in Inside => Intact(run'[p])
  PROVE  SizeInv'
<1>1. \A q \in Procs : pc'[q] \in Inside => Intact(run'[q])
  BY DEF SizeInv
<1>2. \A q \in Procs : Intact(run[q])' <=> Intact(run'[q])
  BY DEF Intact, Unshrunk
<1> QED
  BY <1>1, <1>2 DEF SizeInv

\* Recording an error of Apply changes neither sizes nor totals.
LEMMA WithErrorEffect ==
  ASSUME NEW r \in RunState, NEW f
  PROVE  LET s == WithError(r, f) IN
         /\ s.scanned = r.scanned /\ s.truncated = r.truncated
         /\ s.esize = r.esize /\ s.cur = None
         /\ s.reclaimed = r.reclaimed /\ s.freed = r.freed
         /\ s.cleaned = r.cleaned /\ s.expired = r.expired
BY DEF WithError, RunState

\* ApplyDone empties or unlinks one log, and moves it to the truncated ones.
LEMMA ApplyDoneEffect ==
  ASSUME TypeInv, NEW p \in Procs, ApplyDone(p)
  PROVE  /\ run[p].cur \in Files /\ run[p].cur # None
         /\ size[run[p].cur] \in Nat /\ size[run[p].cur] # Absent
         /\ \A g \in Files \ {run[p].cur} : size'[g] = size[g]
         /\ live' = live /\ config' = config
         /\ \A q \in Procs \ {p} : run'[q] = run[q] /\ pc'[q] = pc[q]
         /\ pc'[p] = "process"
         /\ run'[p] \in RunState /\ run'[p].cur = None
         /\ run'[p].scanned = run[p].scanned /\ run'[p].esize = run[p].esize
         /\ run'[p].truncated = run[p].truncated \cup {run[p].cur}
         /\ run'[p].reclaimed = run[p].reclaimed + run[p].curSize
         /\ run'[p].cleaned = run[p].cleaned + 1
         /\ config.mode # "delete" =>
              run'[p].freed = run[p].freed + size[run[p].cur]
<1> DEFINE r == run[p]
           n == IF config.mode = "delete" THEN r.freed ELSE r.freed + size[r.cur]
<1>1. run \in [Procs -> RunState] /\ r \in RunState /\ pc \in [Procs -> Stages]
      /\ size \in [Files -> {Absent} \cup 0..MaxSize]
  BY DEF TypeInv, TypeOK
<1>2. r.cur \in Files /\ r.cur # None /\ pc[p] = "apply"
  BY FilesAssumption DEF ApplyDone, TypeInv, CurIsFile
<1>3. size[r.cur] \in Nat /\ size[r.cur] # Absent
  BY <1>1, <1>2, NumbersAssumption DEF ApplyDone, StatFails, Absent
<1>4. \A g \in Files \ {r.cur} : size'[g] = size[g]
  BY <1>1 DEF ApplyDone
<1>5. run'[p] = [Cleaned(r, r.cur) EXCEPT !.freed = n]
  BY <1>1 DEF ApplyDone, Cleaned
<1>6. run'[p] \in RunState
  BY TypeNext, <1>1 DEF TypeInv, TypeOK, Next, Work
<1>7. /\ run'[p].cur = None
      /\ run'[p].scanned = r.scanned /\ run'[p].esize = r.esize
      /\ run'[p].truncated = r.truncated \cup {r.cur}
      /\ run'[p].reclaimed = r.reclaimed + r.curSize
      /\ run'[p].cleaned = r.cleaned + 1
      /\ run'[p].freed = n
  BY <1>1, <1>5 DEF Cleaned, RunState
<1>8. /\ live' = live /\ config' = config /\ pc'[p] = "process"
      /\ \A q \in Procs \ {p} : run'[q] = run[q] /\ pc'[q] = pc[q]
  BY <1>1 DEF ApplyDone, Goto
<1> QED
  BY <1>2, <1>3, <1>4, <1>6, <1>7, <1>8

\* What the invariants of CleanerProofs say of the log Apply works on.
LEMMA CurrentLog ==
  ASSUME TypeInv, PolicyInv, NEW p \in Procs, pc[p] = "apply"
  PROVE  LET r == run[p] IN
         /\ r.cur \in r.scanned \ r.truncated
         /\ Eligible(r, r.cur) /\ ~config.dryRun
<1> DEFINE r == run[p]
<1>1. CycleInv(r, "apply") /\ r.cur \in Handled(r)
  BY FilesAssumption DEF PolicyInv, TypeInv, CurIsFile, Handled
<1> QED
  BY <1>1 DEF CycleInv

\* The step of one goroutine on the logs (policies.go, Apply): the goroutine holds
\* the lock, so no other cycle relies on the size it changes.
LEMMA ApplyKeepsSizes ==
  ASSUME TypeInv, LockInv, SizeInv, NEW p \in Procs, ApplyDone(p)
  PROVE  SizeInv'
<1> DEFINE r == run[p]
<1>1. pc[p] = "apply" /\ r \in RunState
  BY DEF ApplyDone, TypeInv, TypeOK
<1>2. \A q \in Procs \ {p} : pc[q] \notin Inside
  BY <1>1 DEF LockInv, Inside
<1>3. Intact(r)
  BY <1>1 DEF SizeInv, Inside
<1>4. ASSUME NEW f \in run'[p].scanned \ (run'[p].truncated \cup Rotating)
      PROVE  Unshrunk(run[p], f)'
  <2>1. f \in r.scanned \ (r.truncated \cup Rotating) /\ f # r.cur /\ f \in Files
    BY <1>1, ApplyDoneEffect DEF RunState
  <2>2. size'[f] = size[f] /\ live' = live /\ run'[p].esize = r.esize
        /\ run'[p].cur = None /\ f # None
    BY <2>1, ApplyDoneEffect, FilesAssumption
  <2> QED
    BY <1>3, <2>1, <2>2 DEF Intact, Unshrunk
<1>5. Intact(run[p])'
  BY <1>4 DEF Intact
<1> QED
  BY <1>2, <1>5, ApplyDoneEffect DEF SizeInv

\* What the host does to a log that Docker does not rotate: it grows, or it goes
\* with its container.
LEMMA HostKeepsSizes ==
  ASSUME TypeInv, SizeInv, NEW f \in Files,
         Grow(f) \/ Rotate(f) \/ Restart(f) \/ Remove(f)
  PROVE  SizeInv'
<1>1. run' = run /\ pc' = pc
  BY DEF Grow, Rotate, Restart, Remove
<1>2. size \in [Files -> {Absent} \cup 0..MaxSize] /\ live \in [Files -> BOOLEAN]
      /\ run \in [Procs -> RunState]
  BY DEF TypeInv, TypeOK
<1> SUFFICES ASSUME NEW p \in Procs, pc[p] \in Inside,
                    NEW g \in run[p].scanned \ (run[p].truncated \cup Rotating)
             PROVE  Unshrunk(run[p], g)'
  BY <1>1 DEF SizeInv, Intact
<1>3. g \in Files /\ run[p] \in RunState /\ Unshrunk(run[p], g)
  BY <1>2 DEF SizeInv, Intact, RunState
<1>4. CASE g # f
  <2>1. size'[g] = size[g] /\ live'[g] = live[g]
    BY <1>2, <1>3, <1>4 DEF Grow, Rotate, Restart, Remove
  <2> QED
    BY <1>1, <1>3, <2>1 DEF Unshrunk
<1>5. CASE g = f
  <2>1. size[f] \in Int /\ run[p].esize[f] \in Nat /\ run[p].curSize \in Nat
        /\ (size[f] # Absent => size[f] \in Nat)
    BY <1>2, <1>3, <1>5, NumbersAssumption DEF RunState, Absent
  <2>2. CASE Grow(f)
    <3>1. \/ size'[f] = size[f] /\ live'[f] = live[f]
          \/ size[f] # Absent /\ size'[f] = size[f] + 1 /\ live'[f] = live[f]
      BY <1>2, <2>2 DEF Grow
    <3> QED
      BY <1>1, <1>3, <1>5, <2>1, <3>1 DEF Unshrunk, Absent
  <2>3. CASE Rotate(f)
    BY <1>5, <2>3 DEF Rotate
  <2>4. CASE Restart(f)
    <3>1. live[f] /\ size[f] # Absent /\ size'[f] = size[f]
      BY <1>2, <1>3, <1>5, <2>4 DEF Restart, Unshrunk
    <3> QED
      BY <1>1, <1>3, <1>5, <3>1 DEF Unshrunk
  <2>5. CASE Remove(f)
    <3>1. size'[f] = Absent /\ ~live'[f]
      BY <1>2, <2>5 DEF Remove
    <3> QED
      BY <1>5, <3>1 DEF Unshrunk
  <2> QED
    BY <2>2, <2>3, <2>4, <2>5
<1> QED
  BY <1>4, <1>5

\* A cycle that has scanned nothing relies on no size.
LEMMA NothingScanned ==
  ASSUME NEW r, r.scanned = {}
  PROVE  Intact(r)
BY DEF Intact

\* Every step keeps what was read true (cleaner.go, from the scan loop to
\* the policies' Apply).
LEMMA SizeNext ==
  TypeInv /\ LockInv /\ PolicyInv /\ SizeInv /\ [Next]_vars => SizeInv'
<1> SUFFICES ASSUME TypeInv, LockInv, PolicyInv, SizeInv, [Next]_vars PROVE SizeInv'
  OBVIOUS
<1> USE DEF hostVars
<1>a. run \in [Procs -> RunState] /\ pc \in [Procs -> Stages]
      /\ run' \in [Procs -> RunState]
  BY TypeNext DEF TypeInv, TypeOK
<1>b. \A q \in Procs : pc[q] \in Inside => Intact(run[q])
  BY DEF SizeInv
<1>c. \A q \in Procs : pc[q] \in {"idle", "discover"} => run[q].scanned = {}
  BY DEF PolicyInv, CycleInv
<1>1. ASSUME NEW p \in Procs,
             TryLock(p) \/ Reject(p) \/ CollectInsights(p) \/ RecordRun(p) \/ Finish(p)
      PROVE  SizeInv'
  <2>1. run' = run /\ size' = size /\ live' = live
        /\ \A q \in Procs \ {p} : pc'[q] = pc[q]
    BY <1>1, <1>a DEF TryLock, Reject, CollectInsights, RecordRun, Finish, Goto, Leave
  <2>2. pc[p] = "idle" \/ pc[p] \in Inside
    BY <1>1 DEF TryLock, Reject, CollectInsights, RecordRun, Finish, Inside
  <2>3. Intact(run[p])
    BY <1>b, <1>c, <2>2, NothingScanned
  <2> QED
    BY <2>1, <2>3, OneIntact
<1>2. ASSUME NEW p \in Procs, Discover(p) PROVE SizeInv'
  <2>1. pc[p] = "discover" /\ size' = size /\ live' = live
        /\ \A q \in Procs \ {p} : pc'[q] = pc[q] /\ run'[q] = run[q]
    BY <1>2, <1>a DEF Discover, Goto, Leave
  <2>2. run'[p].scanned = run[p].scanned
    BY <1>2, <1>a DEF Discover, RunState
  <2>3. Intact(run'[p])
    BY <1>c, <2>1, <2>2, NothingScanned
  <2> QED
    BY <2>1, <2>3, OneIntact
<1>3. ASSUME NEW p \in Procs, NEW f \in Files,
             ScanMissing(p, f) \/ SkipEntry(p, f) \/ ApplyRefused(p, f)
      PROVE  SizeInv'
  <2>1. pc[p] \in Inside /\ size' = size /\ live' = live /\ pc' = pc
        /\ \A q \in Procs \ {p} : run'[q] = run[q]
    BY <1>3, <1>a DEF ScanMissing, SkipEntry, ApplyRefused, Inside
  <2>2. /\ run'[p].scanned = run[p].scanned /\ run'[p].truncated = run[p].truncated
        /\ run'[p].esize = run[p].esize
        /\ \/ run'[p].cur = None
           \/ run'[p].cur = run[p].cur /\ run'[p].curSize = run[p].curSize
    <3>1. CASE ScanMissing(p, f)
      BY <1>a, <3>1 DEF ScanMissing, RunState
    <3>2. CASE SkipEntry(p, f)
      BY <1>a, <3>2 DEF SkipEntry, RunState
    <3>3. CASE ApplyRefused(p, f)
      <4>1. run'[p] = WithError(run[p], f) /\ run[p] \in RunState
        BY <1>a, <3>3 DEF ApplyRefused
      <4> QED
        BY <4>1, WithErrorEffect
    <3> QED
      BY <1>3, <3>1, <3>2, <3>3
  <2>3. Intact(run'[p])
    BY <1>a, <1>b, <2>1, <2>2, StillIntact
  <2> QED
    BY <2>1, <2>3, OneIntact
<1>4. ASSUME NEW p \in Procs, NEW f \in Files, ScanFile(p, f) PROVE SizeInv'
  <2>1. pc[p] \in Inside /\ size' = size /\ live' = live /\ pc' = pc
        /\ \A q \in Procs \ {p} : run'[q] = run[q]
    BY <1>4, <1>a DEF ScanFile, Inside
  <2>2. /\ run'[p].scanned = run[p].scanned \cup {f}
        /\ run'[p].truncated = run[p].truncated
        /\ run'[p].esize = [run[p].esize EXCEPT ![f] = size[f]]
        /\ run'[p].cur = run[p].cur
    BY <1>4, <1>a DEF ScanFile, RunState
  <2>3. run[p].cur = None /\ size[f] # Absent /\ size[f] \in Int
        /\ run[p] \in RunState
    BY <1>4, <1>a DEF ScanFile, StatFails, PolicyInv, CycleInv, TypeInv, TypeOK, Absent
  <2>4. ASSUME NEW g \in run'[p].scanned \ (run'[p].truncated \cup Rotating)
        PROVE  Unshrunk(run'[p], g)
    <3>1. g \in Files /\ g # None
      BY <2>2, <2>3, FilesAssumption DEF RunState
    <3>2. CASE g = f
      <4>1. run'[p].esize[f] = size[f]
        BY <2>2, <2>3 DEF RunState
      <4> QED
        BY <2>2, <2>3, <3>1, <3>2, <4>1 DEF Unshrunk
    <3>3. CASE g # f
      <4>1. run'[p].esize[g] = run[p].esize[g]
        BY <2>2, <2>3, <3>1, <3>3 DEF RunState
      <4>2. Unshrunk(run[p], g)
        BY <1>b, <2>1, <2>2, <3>3 DEF Intact
      <4> QED
        BY <2>2, <2>3, <3>1, <4>1, <4>2 DEF Unshrunk
    <3> QED
      BY <3>2, <3>3
  <2> QED
    BY <2>1, <2>4, OneIntact DEF Intact
<1>5. ASSUME NEW p \in Procs, Rank(p) \/ ApplyFailed(p) PROVE SizeInv'
  <2>1. pc[p] \in Inside /\ size' = size /\ live' = live
        /\ \A q \in Procs \ {p} : run'[q] = run[q] /\ pc'[q] = pc[q]
    BY <1>5, <1>a DEF Rank, ApplyFailed, Inside, Goto
  <2>2. /\ run'[p].scanned = run[p].scanned /\ run'[p].truncated = run[p].truncated
        /\ run'[p].esize = run[p].esize
        /\ \/ run'[p].cur = None
           \/ run'[p].cur = run[p].cur /\ run'[p].curSize = run[p].curSize
    <3>1. CASE Rank(p)
      BY <1>a, <3>1 DEF Rank, RunState
    <3>2. CASE ApplyFailed(p)
      <4>1. run'[p] = WithError(run[p], run[p].cur) /\ run[p] \in RunState
        BY <1>a, <3>2 DEF ApplyFailed
      <4> QED
        BY <4>1, WithErrorEffect
    <3> QED
      BY <1>5, <3>1, <3>2
  <2>3. Intact(run'[p])
    BY <1>a, <1>b, <2>1, <2>2, StillIntact
  <2> QED
    BY <2>1, <2>3, OneIntact
<1>6. ASSUME NEW p \in Procs, NEW f \in Files, ApplyStat(p, f) PROVE SizeInv'
  <2>1. pc[p] \in Inside /\ size' = size /\ live' = live
        /\ \A q \in Procs \ {p} : run'[q] = run[q] /\ pc'[q] = pc[q]
    BY <1>6, <1>a DEF ApplyStat, Inside, Goto
  <2>2. /\ run'[p].scanned = run[p].scanned /\ run'[p].truncated = run[p].truncated
        /\ run'[p].esize = run[p].esize
        /\ run'[p].cur = f /\ run'[p].curSize = size[f]
    BY <1>6, <1>a DEF ApplyStat, RunState
  <2>3. size[f] \in Int
    BY DEF TypeInv, TypeOK, Absent
  <2>4. Intact(run'[p])
    BY <1>b, <2>1, <2>2, <2>3 DEF Intact, Unshrunk
  <2> QED
    BY <2>1, <2>4, OneIntact
<1>7. ASSUME NEW p \in Procs, ApplyDone(p) PROVE SizeInv'
  BY <1>7, ApplyKeepsSizes
<1>8. ASSUME NEW p \in Procs, Return(p) PROVE SizeInv'
  <2>1. size' = size /\ live' = live /\ pc'[p] = "idle"
        /\ \A q \in Procs \ {p} : run'[q] = run[q] /\ pc'[q] = pc[q]
    BY <1>8, <1>a DEF Return, Goto
  <2> QED
    BY <2>1, OneIntact DEF Inside
<1>9. ASSUME NEW p \in Procs, Expire(p) PROVE SizeInv'
  <2>1. pc[p] \in Inside /\ size' = size /\ live' = live /\ pc' = pc
        /\ \A q \in Procs \ {p} : run'[q] = run[q]
    BY <1>9 DEF Expire
  <2>2. /\ run'[p].scanned = run[p].scanned /\ run'[p].truncated = run[p].truncated
        /\ run'[p].esize = run[p].esize
        /\ run'[p].cur = run[p].cur /\ run'[p].curSize = run[p].curSize
    BY <1>9, <1>a DEF Expire, RunState
  <2>3. Intact(run'[p])
    BY <1>a, <1>b, <2>1, <2>2, StillIntact
  <2> QED
    BY <2>1, <2>3, OneIntact
<1>10. CASE Crash
  BY <1>10 DEF Crash, SizeInv, Inside
<1>11. CASE Host
  BY <1>11, HostKeepsSizes DEF Host
<1>12. CASE UNCHANGED vars
  BY <1>12 DEF vars, SizeInv, Intact, Unshrunk
<1> QED
  BY <1>1, <1>2, <1>3, <1>4, <1>5, <1>6, <1>7, <1>8, <1>9, <1>10, <1>11, <1>12
     DEF Next, AskDocker, Work

\* What was read stays true in every reachable state, with the invariants of
\* CleanerProofs.
LEMMA SizeAlways == Spec => [](TypeInv /\ LockInv /\ PolicyInv /\ SizeInv)
<1>1. Init => SizeInv
  BY DEF Init, SizeInv, Inside
<1> QED
  BY <1>1, SizeNext, PolicyAlways, LockAlways, PTL DEF Spec

----------------------------------------------------------------------------
(* Only the policy shrinks a log.                                          *)

\* The only step that shortens a log that Docker does not rotate, and that has
\* its container still, is the policy's.
LEMMA ShrinkStep ==
  TypeInv /\ LockInv /\ PolicyInv /\ SizeInv /\ [Next]_vars =>
    \A f \in Files \ Rotating :
      size'[f] < size[f] /\ live'[f] =>
        /\ lock \in Procs /\ ~config.dryRun
        /\ f \in run'[lock].truncated \ run[lock].truncated
        /\ Eligible(run[lock], f)
        /\ size[f] >= Threshold
<1> SUFFICES ASSUME TypeInv, LockInv, PolicyInv, SizeInv, [Next]_vars,
                    NEW f \in Files \ Rotating, size'[f] < size[f], live'[f]
             PROVE  /\ lock \in Procs /\ ~config.dryRun
                    /\ f \in run'[lock].truncated \ run[lock].truncated
                    /\ Eligible(run[lock], f)
                    /\ size[f] >= Threshold
  OBVIOUS
<1>1. size[f] \in Int /\ size' # size
      /\ size \in [Files -> {Absent} \cup 0..MaxSize]
  <2>1. size[f] \in Int
    BY DEF TypeInv, TypeOK, Absent
  <2> QED
    BY <2>1 DEF TypeInv, TypeOK
<1>2. ASSUME NEW p \in Procs, ApplyDone(p)
      PROVE  /\ lock \in Procs /\ ~config.dryRun
             /\ f \in run'[lock].truncated \ run[lock].truncated
             /\ Eligible(run[lock], f)
             /\ size[f] >= Threshold
  <2>1. pc[p] = "apply" /\ lock = p
    BY <1>2 DEF ApplyDone, LockInv, Inside
  <2>2. f = run[p].cur
    BY <1>1, <1>2, ApplyDoneEffect
  <2>3. f \in run[p].scanned \ run[p].truncated /\ Eligible(run[p], f) /\ ~config.dryRun
    BY <2>1, <2>2, CurrentLog
  <2>4. f \in run'[p].truncated /\ size[f] # Absent
    BY <1>2, <2>2, ApplyDoneEffect
  <2>5. run[p].esize[f] <= size[f]
    BY <2>1, <2>3, <2>4 DEF SizeInv, Intact, Unshrunk, Inside
  <2>6. run[p].esize[f] >= Threshold /\ run[p].esize[f] \in Int
    BY <2>3 DEF Eligible, IsOversized, TypeInv, TypeOK, RunState
  <2> QED
    BY <1>1, <2>1, <2>3, <2>4, <2>5, <2>6, NumbersAssumption
<1>3. ASSUME NEW g \in Files, Grow(g) \/ Rotate(g) \/ Restart(g) \/ Remove(g)
      PROVE  FALSE
  <2>1. f = g
    BY <1>1, <1>3 DEF Grow, Rotate, Restart, Remove
  <2>2. ~Rotate(g) /\ ~Remove(g)
    <3>1. ~Rotate(g)
      BY <2>1 DEF Rotate
    <3>2. Remove(g) => ~live'[g]
      BY DEF Remove, TypeInv, TypeOK
    <3> QED
      BY <2>1, <3>1, <3>2
  <2>3. ~Grow(g)
    BY <1>1, <2>1 DEF Grow
  <2>4. ~Restart(g)
    BY <1>1, <2>1 DEF Restart, Absent
  <2> QED
    BY <1>3, <2>2, <2>3, <2>4
<1>4. ASSUME NEW p \in Procs,
             \/ TryLock(p) \/ Reject(p) \/ Discover(p) \/ Rank(p) \/ ApplyFailed(p)
             \/ CollectInsights(p) \/ RecordRun(p) \/ Finish(p) \/ Return(p)
             \/ Expire(p)
             \/ \E g \in Files : \/ ScanMissing(p, g) \/ ScanFile(p, g)
                                 \/ SkipEntry(p, g) \/ ApplyRefused(p, g)
                                 \/ ApplyStat(p, g)
      PROVE  size' = size
  BY <1>4 DEF TryLock, Reject, Discover, Rank, ApplyFailed, CollectInsights,
     RecordRun, Finish, Return, Expire, ScanMissing, ScanFile, SkipEntry,
     ApplyRefused, ApplyStat, hostVars
<1>5. CASE Crash \/ UNCHANGED vars
  BY <1>1, <1>5 DEF Crash, vars, hostVars
<1> QED
  BY <1>1, <1>2, <1>3, <1>4, <1>5 DEF Next, AskDocker, Work, Host

\* Of the logs Docker does not rotate, one gets shorter only because the cycle
\* that holds the lock applies the policy to it, in a real run, to an entry that
\* was eligible; and it is over the threshold still, although its size was
\* checked steps before (cleaner.go, policy loop; policies.go, Apply).
THEOREM OnlyPolicyShrinks == Spec => ShrinksOnlyByPolicy
BY SizeAlways, ShrinkStep, PTL DEF Spec, ShrinksOnlyByPolicy

----------------------------------------------------------------------------
(* What a run reports as reclaimed.                                        *)

\* The step that adds to both numbers adds no more to the one that is reported:
\* the log is not smaller than Apply found it (policies.go, TruncatePolicy.Apply).
LEMMA ApplyFrees ==
  ASSUME TypeInv, PolicyInv, SizeInv, ReclaimedWasFreed, NEW p \in Procs, ApplyDone(p)
  PROVE  ReclaimedWasFreed'
<1> DEFINE r == run[p]
<1>1. pc[p] = "apply" /\ r \in RunState
  BY DEF ApplyDone, TypeInv, TypeOK
<1> SUFFICES ASSUME config.mode = "truncate", NEW q \in Procs,
                    run'[q].truncated \cap Rotating = {}
             PROVE  run'[q].reclaimed <= run'[q].freed
  BY ApplyDoneEffect DEF ReclaimedWasFreed
<1>2. CASE q # p
  BY <1>2, ApplyDoneEffect DEF ReclaimedWasFreed
<1>3. CASE q = p
  <2>1. r.cur \notin Rotating /\ r.truncated \cap Rotating = {}
    BY <1>3, ApplyDoneEffect
  <2>2. r.reclaimed <= r.freed
    BY <2>1 DEF ReclaimedWasFreed
  <2>3. r.cur \in r.scanned \ r.truncated
    BY <1>1, CurrentLog
  <2>4. r.curSize <= size[r.cur] /\ size[r.cur] \in Nat
    BY <1>1, <2>1, <2>3, ApplyDoneEffect DEF SizeInv, Intact, Unshrunk, Inside
  <2>5. run'[p].reclaimed = r.reclaimed + r.curSize
        /\ run'[p].freed = r.freed + size[r.cur]
    BY ApplyDoneEffect
  <2>6. r.reclaimed \in Nat /\ r.freed \in Nat /\ r.curSize \in Nat
    BY <1>1 DEF RunState
  <2> QED
    BY <1>3, <2>2, <2>4, <2>5, <2>6
<1> QED
  BY <1>2, <1>3

\* No other step changes either number of a run, but to reset both.
LEMMA FreedNext ==
  TypeInv /\ PolicyInv /\ SizeInv /\ ReclaimedWasFreed /\ [Next]_vars => ReclaimedWasFreed'
<1> SUFFICES ASSUME TypeInv, PolicyInv, SizeInv, ReclaimedWasFreed, [Next]_vars
             PROVE  ReclaimedWasFreed'
  OBVIOUS
<1>a. run \in [Procs -> RunState]
  BY DEF TypeInv, TypeOK
<1>b. ASSUME config' = config,
             \A q \in Procs : /\ run'[q].truncated = run[q].truncated
                              /\ run'[q].reclaimed = run[q].reclaimed
                              /\ run'[q].freed = run[q].freed
      PROVE  ReclaimedWasFreed'
  BY <1>b DEF ReclaimedWasFreed
<1>c. FreshRun.reclaimed = 0 /\ FreshRun.freed = 0
  BY DEF FreshRun
<1>1. ASSUME NEW p \in Procs,
             TryLock(p) \/ Reject(p) \/ CollectInsights(p) \/ RecordRun(p) \/ Finish(p)
      PROVE  ReclaimedWasFreed'
  BY <1>1, <1>b DEF TryLock, Reject, CollectInsights, RecordRun, Finish
<1>2. ASSUME NEW p \in Procs,
             Discover(p) \/ Rank(p) \/ ApplyFailed(p) \/ Expire(p)
      PROVE  ReclaimedWasFreed'
  <2>1. CASE Discover(p)
    BY <1>a, <1>b, <2>1 DEF Discover, RunState
  <2>2. CASE Rank(p)
    BY <1>a, <1>b, <2>2 DEF Rank, RunState
  <2>3. CASE ApplyFailed(p)
    BY <1>a, <1>b, <2>3 DEF ApplyFailed, WithError, RunState
  <2>4. CASE Expire(p)
    BY <1>a, <1>b, <2>4 DEF Expire, RunState
  <2> QED
    BY <1>2, <2>1, <2>2, <2>3, <2>4
<1>3. ASSUME NEW p \in Procs, NEW f \in Files,
             \/ ScanMissing(p, f) \/ ScanFile(p, f) \/ SkipEntry(p, f)
             \/ ApplyRefused(p, f) \/ ApplyStat(p, f)
      PROVE  ReclaimedWasFreed'
  <2>1. CASE ScanMissing(p, f)
    BY <1>a, <1>b, <2>1 DEF ScanMissing, RunState
  <2>2. CASE ScanFile(p, f)
    BY <1>a, <1>b, <2>2 DEF ScanFile, RunState
  <2>3. CASE SkipEntry(p, f)
    BY <1>a, <1>b, <2>3 DEF SkipEntry, RunState
  <2>4. CASE ApplyRefused(p, f)
    BY <1>a, <1>b, <2>4 DEF ApplyRefused, WithError, RunState
  <2>5. CASE ApplyStat(p, f)
    BY <1>a, <1>b, <2>5 DEF ApplyStat, RunState
  <2> QED
    BY <1>3, <2>1, <2>2, <2>3, <2>4, <2>5
<1>4. ASSUME NEW p \in Procs, ApplyDone(p) PROVE ReclaimedWasFreed'
  BY <1>4, ApplyFrees
<1>5. ASSUME NEW p \in Procs, Return(p) PROVE ReclaimedWasFreed'
  BY <1>5, <1>a, <1>c DEF Return, ReclaimedWasFreed
<1>6. CASE Crash
  BY <1>6, <1>c DEF Crash, ReclaimedWasFreed
<1>7. CASE Host \/ UNCHANGED vars
  BY <1>7, <1>b DEF Host, Grow, Rotate, Restart, Remove, vars
<1> QED
  BY <1>1, <1>2, <1>3, <1>4, <1>5, <1>6, <1>7 DEF Next, AskDocker, Work

\* Under the truncate policy a run never reports more than it gave back, unless
\* it truncated a log that Docker rotates too.
THEOREM ReclaimedIsTrue == Spec => []ReclaimedWasFreed
<1>1. Init => ReclaimedWasFreed
  BY DEF Init, ReclaimedWasFreed, FreshRun
<1> QED
  BY <1>1, FreedNext, SizeAlways, PTL DEF Spec

=============================================================================
