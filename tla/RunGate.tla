------------------------------ MODULE RunGate ------------------------------
(***************************************************************************)
(* What cleaner.Run promises its callers (cleanup/cleaner.go), whatever it *)
(* does inside: at most one cleanup cycle is in progress, a caller that    *)
(* arrives during one is refused with ErrAlreadyRunning and changes        *)
(* nothing, and a cycle ends with a result, an error or a recovered panic. *)
(* Cleaner.tla is shown to implement this specification; Agent.tla is      *)
(* built on top of it.                                                     *)
(***************************************************************************)

CONSTANT Procs      \* the goroutines that call Run

VARIABLE phase      \* phase[p]: where p is in its call of Run

\* How a cycle that was let in may end: Run returned a result, Run returned
\* an error, or Run panicked (the caller's deferred recover caught it).
Endings == {"ok", "error", "panic"}

Phases == {"idle", "running", "already"} \cup Endings

Running == {p \in Procs : phase[p] = "running"}

Init == phase = [p \in Procs |-> "idle"]

\* mu.TryLock() succeeds.
Start(p) ==
  /\ phase[p] = "idle"
  /\ Running = {}
  /\ phase' = [phase EXCEPT ![p] = "running"]

\* mu.TryLock() fails: ErrAlreadyRunning.
Reject(p) ==
  /\ phase[p] = "idle"
  /\ Running # {}
  /\ phase' = [phase EXCEPT ![p] = "already"]

\* Run returns or panics; the deferred mu.Unlock() has run.
End(p, ending) ==
  /\ phase[p] = "running"
  /\ phase' = [phase EXCEPT ![p] = ending]

\* The caller has taken the outcome and may call again.
Return(p) ==
  /\ phase[p] \in Endings \cup {"already"}
  /\ phase' = [phase EXCEPT ![p] = "idle"]

\* The process dies; its memory, the mutex included, is gone.
Crash == phase' = [p \in Procs |-> "idle"]

Next ==
  \/ \E p \in Procs :
       \/ Start(p) \/ Reject(p) \/ Return(p)
       \/ \E ending \in Endings : End(p, ending)
  \/ Crash

Spec == Init /\ [][Next]_phase

=============================================================================
