------------------------------ MODULE Telemetry ------------------------------
(***************************************************************************)
(* What a pipeline gathers about the host and the Docker daemon between    *)
(* the run and the report: telemetry.Collect (telemetry/server.go) and     *)
(* CollectDockerSummary (docker/insights.go).                              *)
(*                                                                         *)
(* Collect reads /proc and statfs in 64-bit unsigned numbers; every read   *)
(* may fail or give nonsense, and the rest goes on.  The daemon is asked   *)
(* for its volumes and then for its containers, and changes in between.    *)
(* The strings (host name, address, OS, uptime, versions), the load and    *)
(* the images are single reads that nothing else is compared with, and are *)
(* left out.                                                               *)
(***************************************************************************)
EXTENDS Integers, FiniteSets

CONSTANTS
  Volumes,     \* Docker volumes
  Containers,  \* Docker containers
  Unit,        \* 1024 in formatBytes
  Modulus,     \* 2^64: the numbers of a uint64
  Sizes,       \* amounts of memory and disk to consider
  MaxEvents,   \* bound: changes of the daemon
  None

ASSUME TelemetryAssumption ==
  /\ IsFiniteSet(Volumes) /\ IsFiniteSet(Containers) /\ None \notin Containers
  /\ Unit \in Nat \ {0, 1} /\ Modulus \in Nat \ {0}
  /\ Sizes \subseteq 0..(Modulus - 1) /\ 0 \in Sizes
  /\ MaxEvents \in Nat
\* 2^64 is less than 1024^7.
ASSUME WordAssumption == Modulus <= Unit * Unit * Unit * Unit * Unit * Unit * Unit

VARIABLES
  volumes,     \* the volumes there are
  containers,  \* containers[c]: its state and the volumes it mounts, or None
  step,        \* what is gathered next
  server,      \* ServerTelemetry
  summary,     \* DockerSummary
  asked,       \* auxiliary: which of the two lists of the daemon came
  changed,     \* auxiliary: has the daemon changed since its volumes were
               \* asked for?
  events

daemon == <<volumes, containers>>
vars == <<daemon, step, server, summary, asked, changed, events>>

\* "created" stands for every state that is not counted.
States == {"created", "running", "exited", "paused"}
Container == [state : States, mounts : SUBSET Volumes]

Amount == 0..(Modulus - 1)
ServerTelemetry == [ramUsed : Amount, ramTotal : Amount,
                    diskUsed : Amount, diskTotal : Amount]
DockerSummary == [volumes : Nat, unused : Nat, total : Nat,
                  running : Nat, stopped : Nat, paused : Nat]

NoTelemetry == [ramUsed |-> 0, ramTotal |-> 0, diskUsed |-> 0, diskTotal |-> 0]
NoSummary == [volumes |-> 0, unused |-> 0, total |-> 0,
              running |-> 0, stopped |-> 0, paused |-> 0]

Init ==
  /\ volumes = {}
  /\ containers = [c \in Containers |-> None]
  /\ step = "memory"
  /\ server = NoTelemetry
  /\ summary = NoSummary
  /\ asked = {}
  /\ changed = FALSE
  /\ events = 0

----------------------------------------------------------------------------
(* Collect.                                                                *)

\* a - b of two uint64.
Minus(a, b) == (a - b) % Modulus

\* Mutant: the difference is taken as it comes.
DifferenceUnchecked(total, available) == Minus(total, available)

\* What is not available of a total; 0 if more is available than there is.
Used(total, available) ==
  IF available <= total THEN Minus(total, available) ELSE 0

\* readMemInfo.  A line that is missing or no number leaves 0, a file that
\* cannot be opened leaves both 0.
ReadMemInfo(total, available) ==
  /\ step = "memory"
  /\ server' = [server EXCEPT !.ramTotal = total,
                              !.ramUsed = Used(total, available)]
  /\ step' = "disk"
  /\ UNCHANGED <<daemon, summary, asked, changed, events>>

\* readDiskUsage.
ReadDiskUsage(total, available) ==
  /\ step = "disk"
  /\ server' = [server EXCEPT !.diskTotal = total,
                              !.diskUsed = Used(total, available)]
  /\ step' = "volumes"
  /\ UNCHANGED <<daemon, summary, asked, changed, events>>

\* The subtraction of DiskUsedFormatted.
DiskFree == Minus(server.diskTotal, server.diskUsed)

\* The loop of formatBytes from n on: how often it divides n, and the product
\* in div, which is a uint64.
Exponent[n \in Nat] == IF n < Unit THEN 0 ELSE 1 + Exponent[n \div Unit]
Divisor[n \in Nat] ==
  IF n < Unit THEN Unit ELSE (Unit * Divisor[n \div Unit]) % Modulus

\* Mutant: the loop begins at b.
ScaleUndivided(b) == [exp |-> Exponent[b], div |-> Divisor[b]]

\* formatBytes of what is not less than a unit: the index of the suffix, and
\* what the number is divided by.
Scale(b) == [exp |-> Exponent[b \div Unit], div |-> Divisor[b \div Unit]]

----------------------------------------------------------------------------
(* CollectDockerSummary.                                                   *)

\* ListVolumes; its failure is logged.
ListVolumes ==
  /\ step = "volumes"
  /\ \/ /\ summary' = [summary EXCEPT !.volumes = Cardinality(volumes)]
        /\ asked' = {"volumes"}
     \/ summary' = summary /\ asked' = {}
  /\ step' = "containers"
  /\ changed' = FALSE
  /\ UNCHANGED <<daemon, server, events>>

Existing == {c \in Containers : containers[c] # None}
InState(s) == Cardinality({c \in Existing : containers[c].state = s})

\* Mutant: every mount is counted.
MountCount ==
  Cardinality({m \in Existing \X Volumes : m[2] \in containers[m[1]].mounts})

\* usedVolumes.
UsedVolumes == Cardinality(UNION {containers[c].mounts : c \in Existing})

\* Mutant: the difference is not checked.
UnusedUnchecked == summary.volumes - UsedVolumes

Unused == IF summary.volumes < UsedVolumes THEN 0 ELSE summary.volumes - UsedVolumes

\* ListAllContainers; its failure is logged.  The telemetry is complete.
ListAllContainers ==
  /\ step = "containers"
  /\ \/ /\ summary' = [summary EXCEPT
             !.total = Cardinality(Existing), !.running = InState("running"),
             !.stopped = InState("exited"), !.paused = InState("paused"),
             !.unused = Unused]
        /\ asked' = asked \cup {"containers"}
     \/ UNCHANGED <<summary, asked>>
  /\ step' = "done"
  /\ UNCHANGED <<daemon, server, changed, events>>

\* The next pipeline begins.
Again ==
  /\ step = "done"
  /\ step' = "memory"
  /\ server' = NoTelemetry /\ summary' = NoSummary
  /\ asked' = {}
  /\ UNCHANGED <<daemon, changed, events>>

----------------------------------------------------------------------------
(* The daemon.                                                             *)

Event ==
  /\ events < MaxEvents
  /\ events' = events + 1
  /\ changed' = TRUE
  /\ UNCHANGED <<step, server, summary, asked>>

CreateVolume(v) ==
  /\ Event /\ v \notin volumes
  /\ volumes' = volumes \cup {v}
  /\ UNCHANGED containers

\* Docker removes no volume that a container, running or not, mounts.
RemoveVolume(v) ==
  /\ Event /\ v \in volumes
  /\ \A c \in Existing : v \notin containers[c].mounts
  /\ volumes' = volumes \ {v}
  /\ UNCHANGED containers

\* docker create or docker run, which creates the volumes that are missing.
CreateContainer(c, mounts, state) ==
  /\ Event /\ containers[c] = None
  /\ containers' = [containers EXCEPT ![c] = [state |-> state, mounts |-> mounts]]
  /\ volumes' = volumes \cup mounts

ChangeState(c, state) ==
  /\ Event /\ c \in Existing /\ containers[c].state # state
  /\ containers' = [containers EXCEPT ![c].state = state]
  /\ UNCHANGED volumes

RemoveContainer(c) ==
  /\ Event /\ c \in Existing
  /\ containers' = [containers EXCEPT ![c] = None]
  /\ UNCHANGED volumes

Next ==
  \/ \E total, available \in Sizes :
       ReadMemInfo(total, available) \/ ReadDiskUsage(total, available)
  \/ ListVolumes \/ ListAllContainers \/ Again
  \/ \E v \in Volumes : CreateVolume(v) \/ RemoveVolume(v)
  \/ \E c \in Containers :
       \/ \E mounts \in SUBSET Volumes, state \in {"created", "running"} :
            CreateContainer(c, mounts, state)
       \/ \E state \in States \ {"created"} : ChangeState(c, state)
       \/ RemoveContainer(c)

Spec == Init /\ [][Next]_vars

----------------------------------------------------------------------------
(* Properties.                                                             *)

TypeOK ==
  /\ volumes \subseteq Volumes
  /\ containers \in [Containers -> Container \cup {None}]
  /\ step \in {"memory", "disk", "volumes", "containers", "done"}
  /\ server \in ServerTelemetry
  /\ summary \in DockerSummary
  /\ asked \subseteq {"volumes", "containers"}
  /\ changed \in BOOLEAN
  /\ events \in 0..MaxEvents

\* Whatever the daemon does between the calls and whichever of them fail,
\* the counts of a summary are possible: no negative number of unused
\* volumes and no more than there are volumes, and no more containers in one
\* state or another than there are containers.
SummaryIsPossible ==
  /\ summary.unused \in 0..summary.volumes
  /\ summary.running + summary.stopped + summary.paused <= summary.total

\* If both lists came and the daemon did not change between them, the unused
\* volumes are exactly those that no container mounts, shared ones counted
\* once.
UnusedIsExact ==
  step = "done" /\ asked = {"volumes", "containers"} /\ ~changed =>
    summary.unused =
      Cardinality({v \in volumes : \A c \in Existing : v \notin containers[c].mounts})

\* No reading of the kernel, however inconsistent, wraps around: not more is
\* used, and not more is shown as free, than there is, so that no percentage
\* exceeds 100.
NothingWraps ==
  /\ server.ramUsed <= server.ramTotal
  /\ server.diskUsed <= server.diskTotal
  /\ DiskFree <= server.diskTotal

\* formatBytes finds the one suffix of "KMGTPE" that leaves a number from 1
\* to less than a unit, for every number a uint64 can hold: the index is
\* never out of range, and the divisor does not wrap around.
SuffixFits ==
  \A b \in {server.ramUsed, server.ramTotal, server.diskTotal, DiskFree} :
    b >= Unit =>
      /\ Scale(b).exp \in 0..5
      /\ Scale(b).div <= b /\ b < Scale(b).div * Unit

=============================================================================
