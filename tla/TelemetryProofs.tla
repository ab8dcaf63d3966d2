-------------------------- MODULE TelemetryProofs --------------------------
(***************************************************************************)
(* Proofs about Telemetry, for any volumes, containers and readings, any   *)
(* word length and any number of changes of the daemon.                    *)
(***************************************************************************)
EXTENDS Telemetry, FiniteSetTheorems, WellFoundedInduction, TLAPS

----------------------------------------------------------------------------
(* Readings of the kernel.                                                 *)

\* A difference that is checked first does not wrap (server.go, readMemInfo
\* and readDiskUsage).
LEMMA UsedFits ==
  ASSUME NEW total \in Amount, NEW available \in Amount
  PROVE  Used(total, available) \in 0..total
<1>1. Modulus \in Nat \ {0} /\ total \in Nat /\ available \in Nat /\ total < Modulus
  BY TelemetryAssumption DEF Amount
<1>2. CASE available <= total
  <2>1. total - available \in 0..(Modulus - 1)
    BY <1>1, <1>2
  <2>2. (total - available) % Modulus = total - available
    BY <1>1, <2>1
  <2> QED
    BY <1>1, <1>2, <2>2 DEF Used, Minus
<1>3. CASE ~(available <= total)
  BY <1>1, <1>3 DEF Used
<1> QED
  BY <1>2, <1>3

\* The readings are consistent among themselves.
ServerSound ==
  /\ server \in ServerTelemetry
  /\ server.ramUsed <= server.ramTotal
  /\ server.diskUsed <= server.diskTotal

\* Every reading keeps them so.
LEMMA ServerNext == ServerSound /\ [Next]_vars => ServerSound'
<1> SUFFICES ASSUME ServerSound, [Next]_vars PROVE ServerSound'
  OBVIOUS
<1>a. \A a \in Sizes : a \in Amount
  BY TelemetryAssumption DEF Amount
<1>1. ASSUME NEW total \in Sizes, NEW available \in Sizes, ReadMemInfo(total, available)
      PROVE  ServerSound'
  <2>1. total \in Amount /\ Used(total, available) \in 0..total
    BY <1>a, UsedFits
  <2>2. Used(total, available) \in Amount
    BY <2>1, TelemetryAssumption DEF Amount
  <2>3. server' = [server EXCEPT !.ramTotal = total, !.ramUsed = Used(total, available)]
    BY <1>1 DEF ReadMemInfo
  <2>4. server' \in ServerTelemetry
    BY <2>1, <2>2, <2>3 DEF ServerSound, ServerTelemetry
  <2>5. /\ server'.ramTotal = total /\ server'.ramUsed = Used(total, available)
        /\ server'.diskTotal = server.diskTotal /\ server'.diskUsed = server.diskUsed
    BY <2>3 DEF ServerSound, ServerTelemetry
  <2>6. server'.ramUsed <= server'.ramTotal
    BY <2>1, <2>5
  <2> QED
    BY <2>4, <2>5, <2>6 DEF ServerSound
<1>2. ASSUME NEW total \in Sizes, NEW available \in Sizes, ReadDiskUsage(total, available)
      PROVE  ServerSound'
  <2>1. total \in Amount /\ Used(total, available) \in 0..total
    BY <1>a, UsedFits
  <2>2. Used(total, available) \in Amount
    BY <2>1, TelemetryAssumption DEF Amount
  <2>3. server' = [server EXCEPT !.diskTotal = total, !.diskUsed = Used(total, available)]
    BY <1>2 DEF ReadDiskUsage
  <2>4. server' \in ServerTelemetry
    BY <2>1, <2>2, <2>3 DEF ServerSound, ServerTelemetry
  <2>5. /\ server'.diskTotal = total /\ server'.diskUsed = Used(total, available)
        /\ server'.ramTotal = server.ramTotal /\ server'.ramUsed = server.ramUsed
    BY <2>3 DEF ServerSound, ServerTelemetry
  <2>6. server'.diskUsed <= server'.diskTotal
    BY <2>1, <2>5
  <2> QED
    BY <2>4, <2>5, <2>6 DEF ServerSound
<1>3. CASE Again
  <2>1. server' = NoTelemetry /\ 0 \in Amount
    BY <1>3, TelemetryAssumption DEF Again, Amount
  <2> QED
    BY <2>1 DEF ServerSound, ServerTelemetry, NoTelemetry
<1>4. CASE UNCHANGED server
  BY <1>4 DEF ServerSound
<1>5. CASE ListVolumes \/ ListAllContainers \/ UNCHANGED vars
  BY <1>4, <1>5 DEF ListVolumes, ListAllContainers, vars
<1>6. CASE \E v \in Volumes : CreateVolume(v) \/ RemoveVolume(v)
  BY <1>4, <1>6 DEF CreateVolume, RemoveVolume, Event
<1>7. CASE \E c \in Containers :
             \/ \E mounts \in SUBSET Volumes, state \in {"created", "running"} :
                  CreateContainer(c, mounts, state)
             \/ \E state \in States \ {"created"} : ChangeState(c, state)
             \/ RemoveContainer(c)
  BY <1>4, <1>7 DEF CreateContainer, ChangeState, RemoveContainer, Event
<1> QED
  BY <1>1, <1>2, <1>3, <1>5, <1>6, <1>7 DEF Next

\* Before the first reading everything is 0.
LEMMA ServerInit == Init => ServerSound
<1>1. 0 \in Amount
  BY TelemetryAssumption DEF Amount
<1> QED
  BY <1>1 DEF Init, ServerSound, ServerTelemetry, NoTelemetry

\* No reading, however inconsistent, wraps around in an unsigned number
\* (server.go, readMemInfo, readDiskUsage, DiskUsedFormatted).
THEOREM NumbersFit == Spec => []NothingWraps
<1>1. ServerSound => NothingWraps
  <2> SUFFICES ASSUME ServerSound PROVE DiskFree <= server.diskTotal
    BY DEF ServerSound, NothingWraps
  <2>1. server.diskTotal \in Amount /\ server.diskUsed \in Amount
        /\ server.diskUsed <= server.diskTotal
    BY DEF ServerSound, ServerTelemetry
  <2>2. DiskFree = Used(server.diskTotal, server.diskUsed)
    BY <2>1 DEF DiskFree, Used
  <2>3. Used(server.diskTotal, server.diskUsed) \in 0..server.diskTotal
    BY <2>1, UsedFits
  <2> QED
    BY <2>1, <2>2, <2>3 DEF Amount
<1> QED
  BY <1>1, ServerInit, ServerNext, PTL DEF Spec

----------------------------------------------------------------------------
(* The summary.                                                            *)

DaemonTyped ==
  /\ volumes \subseteq Volumes
  /\ containers \in [Containers -> Container \cup {None}]

\* Docker keeps a volume as long as a container mounts it.
Mounted == \A c \in Existing : containers[c].mounts \subseteq volumes

\* What has been gathered at each step.
Gathered ==
  /\ step \in {"memory", "disk", "volumes"} => summary = NoSummary
  /\ step = "containers" =>
       /\ asked \subseteq {"volumes"}
       /\ summary = [NoSummary EXCEPT !.volumes = summary.volumes]
       /\ "volumes" \in asked /\ ~changed => summary.volumes = Cardinality(volumes)

SummaryInv ==
  /\ DaemonTyped /\ Mounted
  /\ summary \in DockerSummary /\ Gathered
  /\ SummaryIsPossible /\ UnusedIsExact

\* Sets without a common element add up.
LEMMA DisjointUnion ==
  ASSUME NEW S, NEW T, IsFiniteSet(S), IsFiniteSet(T), S \cap T = {}
  PROVE  /\ IsFiniteSet(S \cup T)
         /\ Cardinality(S \cup T) = Cardinality(S) + Cardinality(T)
<1>1. /\ IsFiniteSet(S \cup T)
      /\ Cardinality(S \cup T) = Cardinality(S) + Cardinality(T) - Cardinality(S \cap T)
  BY FS_Union
<1>2. Cardinality(S \cap T) = 0
  BY FS_EmptySet
<1>3. Cardinality(S) \in Nat /\ Cardinality(T) \in Nat
  BY FS_CardinalityType
<1> QED
  BY <1>1, <1>2, <1>3

\* Containers in different states are different containers.
LEMMA StatesAreDisjoint ==
  ASSUME DaemonTyped
  PROVE  /\ Cardinality(Existing) \in Nat
         /\ \A s \in States : InState(s) \in Nat
         /\ InState("running") + InState("exited") + InState("paused")
              <= Cardinality(Existing)
<1> DEFINE In(s) == {c \in Existing : containers[c].state = s}
<1>1. IsFiniteSet(Existing)
  BY TelemetryAssumption, FS_Subset DEF Existing
<1>2. \A s \in States : IsFiniteSet(In(s)) /\ Cardinality(In(s)) \in Nat
  <2> SUFFICES ASSUME NEW s \in States PROVE IsFiniteSet(In(s)) /\ Cardinality(In(s)) \in Nat
    OBVIOUS
  <2>1. In(s) \in SUBSET Existing
    OBVIOUS
  <2> HIDE DEF In
  <2> QED
    BY <1>1, <2>1, FS_Subset, FS_CardinalityType
<1>3. "running" \in States /\ "exited" \in States /\ "paused" \in States
  BY DEF States
<1>4. /\ In("running") \cap In("exited") = {}
      /\ (In("running") \cup In("exited")) \cap In("paused") = {}
      /\ (In("running") \cup In("exited")) \cup In("paused") \in SUBSET Existing
  OBVIOUS
<1>5. \A s : InState(s) = Cardinality(In(s))
  BY DEF InState
<1> HIDE DEF In
<1>6. /\ IsFiniteSet(In("running") \cup In("exited"))
      /\ Cardinality(In("running") \cup In("exited"))
           = Cardinality(In("running")) + Cardinality(In("exited"))
  BY <1>2, <1>3, <1>4, DisjointUnion
<1>7. Cardinality((In("running") \cup In("exited")) \cup In("paused"))
        = Cardinality(In("running") \cup In("exited")) + Cardinality(In("paused"))
  BY <1>2, <1>3, <1>4, <1>6, DisjointUnion
<1>8. Cardinality((In("running") \cup In("exited")) \cup In("paused"))
        <= Cardinality(Existing)
  BY <1>1, <1>4, FS_Subset
<1> QED
  BY <1>1, <1>2, <1>3, <1>5, <1>6, <1>7, <1>8, FS_CardinalityType

\* The volumes a container mounts, each counted once.
LEMMA MountsCounted ==
  ASSUME DaemonTyped, Mounted
  PROVE  /\ UsedVolumes \in Nat /\ Cardinality(volumes) \in Nat
         /\ UsedVolumes <= Cardinality(volumes)
         /\ Cardinality(volumes) - UsedVolumes =
              Cardinality({v \in volumes : \A c \in Existing : v \notin containers[c].mounts})
<1> DEFINE U == UNION {containers[c].mounts : c \in Existing}
           Free == {v \in volumes : \A c \in Existing : v \notin containers[c].mounts}
<1>1. IsFiniteSet(volumes)
  BY TelemetryAssumption, FS_Subset DEF DaemonTyped
<1>2. U \in SUBSET volumes
  BY DEF Mounted
<1>3. Free = volumes \ U
  OBVIOUS
<1>4. volumes \cap U = U
  BY <1>2
<1>5. UsedVolumes = Cardinality(U)
  BY DEF UsedVolumes
<1> HIDE DEF U, Free
<1>6. /\ IsFiniteSet(U) /\ Cardinality(U) <= Cardinality(volumes)
      /\ Cardinality(U) \in Nat /\ Cardinality(volumes) \in Nat
  BY <1>1, <1>2, FS_Subset, FS_CardinalityType
<1>7. Cardinality(Free) = Cardinality(volumes) - Cardinality(U)
  BY <1>1, <1>3, <1>4, FS_Difference
<1> QED
  BY <1>5, <1>6, <1>7 DEF Free
\* A change of the daemon keeps volumes that are mounted, and after it the
\* two lists are not comparable.
LEMMA DaemonNext ==
  ASSUME SummaryInv, Event, DaemonTyped', Mounted'
  PROVE  SummaryInv'
<1>1. changed' /\ UNCHANGED <<step, summary, asked>>
  BY DEF Event
<1> QED
  BY <1>1 DEF SummaryInv, Gathered, SummaryIsPossible, UnusedIsExact

\* The two lists of the daemon are combined into possible counts, whatever
\* happened between them (insights.go, CollectDockerSummary).
LEMMA SummaryNext == SummaryInv /\ [Next]_vars => SummaryInv'
<1> SUFFICES ASSUME SummaryInv, [Next]_vars PROVE SummaryInv'
  OBVIOUS
<1> USE DEF daemon
<1>t. DaemonTyped /\ Mounted /\ summary \in DockerSummary /\ Gathered
  BY DEF SummaryInv
<1>1. CASE ListVolumes
  <2>1. DaemonTyped' /\ Mounted'
    BY <1>1, <1>t DEF ListVolumes, DaemonTyped, Mounted, Existing
  <2>2. summary = NoSummary /\ step' = "containers" /\ ~changed'
        /\ UNCHANGED volumes
    BY <1>1, <1>t DEF ListVolumes, Gathered
  <2>3. CASE summary' = [summary EXCEPT !.volumes = Cardinality(volumes)]
             /\ asked' = {"volumes"}
    <3>1. Cardinality(volumes) \in Nat
      BY <1>t, MountsCounted
    <3>2. summary' = [volumes |-> Cardinality(volumes), unused |-> 0, total |-> 0,
                      running |-> 0, stopped |-> 0, paused |-> 0]
      BY <2>2, <2>3 DEF NoSummary
    <3>3. summary' \in DockerSummary /\ SummaryIsPossible'
      BY <3>1, <3>2 DEF DockerSummary, SummaryIsPossible
    <3>4. summary' = [NoSummary EXCEPT !.volumes = summary'.volumes]
      BY <3>2 DEF NoSummary
    <3> QED
      BY <2>1, <2>2, <2>3, <3>2, <3>3, <3>4 DEF SummaryInv, Gathered, UnusedIsExact
  <2>4. CASE summary' = summary /\ asked' = {}
    <3>1. summary' = [NoSummary EXCEPT !.volumes = summary'.volumes]
      BY <2>2, <2>4 DEF NoSummary
    <3> QED
      BY <1>t, <2>1, <2>2, <2>4, <3>1
         DEF SummaryInv, Gathered, UnusedIsExact, SummaryIsPossible
  <2> QED
    BY <1>1, <2>3, <2>4 DEF ListVolumes
<1>2. CASE ListAllContainers
  <2>1. DaemonTyped' /\ Mounted'
    BY <1>2, <1>t DEF ListAllContainers, DaemonTyped, Mounted, Existing
  <2>2. step = "containers" /\ step' = "done" /\ UNCHANGED <<daemon, changed>>
    BY <1>2 DEF ListAllContainers
  <2>3. CASE summary' = [summary EXCEPT
               !.total = Cardinality(Existing), !.running = InState("running"),
               !.stopped = InState("exited"), !.paused = InState("paused"),
               !.unused = Unused]
             /\ asked' = asked \cup {"containers"}
    <3> DEFINE n == Cardinality(Existing)
               r == InState("running")
               x == InState("exited")
               p == InState("paused")
               u == Unused
    <3>1. n \in Nat /\ r \in Nat /\ x \in Nat /\ p \in Nat /\ r + x + p <= n
      BY <1>t, StatesAreDisjoint DEF States
    <3>2. u \in Nat /\ u \in 0..summary.volumes
      <4>1. UsedVolumes \in Nat /\ summary.volumes \in Nat
        BY <1>t, MountsCounted DEF DockerSummary
      <4> QED
        BY <4>1 DEF Unused
    <3>3. summary' = [summary EXCEPT !.total = n, !.running = r, !.stopped = x,
                                     !.paused = p, !.unused = u]
      BY <2>3
    <3>4. asked' = {"volumes", "containers"} /\ ~changed' =>
            u = Cardinality({v \in volumes :
                               \A c \in Existing : v \notin containers[c].mounts})
      <4> SUFFICES ASSUME asked' = {"volumes", "containers"}, ~changed'
                   PROVE  u = Cardinality({v \in volumes :
                               \A c \in Existing : v \notin containers[c].mounts})
        OBVIOUS
      <4>1. summary.volumes = Cardinality(volumes)
        BY <1>t, <2>2, <2>3 DEF Gathered
      <4> QED
        BY <1>t, <4>1, MountsCounted DEF Unused
    <3> HIDE DEF n, r, x, p, u
    <3>5. summary' \in DockerSummary
      BY <1>t, <3>1, <3>2, <3>3 DEF DockerSummary
    <3>6. /\ summary'.unused = u /\ summary'.volumes = summary.volumes
          /\ summary'.running = r /\ summary'.stopped = x /\ summary'.paused = p
          /\ summary'.total = n
      BY <1>t, <3>3 DEF DockerSummary
    <3>7. SummaryIsPossible'
      BY <3>1, <3>2, <3>6 DEF SummaryIsPossible
    <3>8. UnusedIsExact'
      BY <2>2, <3>4, <3>6 DEF UnusedIsExact, Existing
    <3> QED
      BY <2>1, <2>2, <3>5, <3>7, <3>8 DEF SummaryInv, Gathered
  <2>4. CASE UNCHANGED <<summary, asked>>
    <3>1. "containers" \notin asked'
      BY <1>t, <2>2, <2>4 DEF Gathered
    <3> QED
      BY <1>t, <2>1, <2>2, <2>4, <3>1
         DEF SummaryInv, Gathered, UnusedIsExact, SummaryIsPossible
  <2> QED
    BY <1>2, <2>3, <2>4 DEF ListAllContainers
<1>3. CASE Again
  <2>1. summary' = NoSummary /\ step' = "memory" /\ UNCHANGED daemon
    BY <1>3 DEF Again
  <2>2. summary' \in DockerSummary /\ SummaryIsPossible'
    BY <2>1 DEF NoSummary, DockerSummary, SummaryIsPossible
  <2> QED
    BY <1>t, <2>1, <2>2
       DEF SummaryInv, DaemonTyped, Mounted, Existing, Gathered, UnusedIsExact
<1>4. ASSUME NEW total \in Sizes, NEW available \in Sizes,
             ReadMemInfo(total, available) \/ ReadDiskUsage(total, available)
      PROVE  SummaryInv'
  <2>1. /\ step \in {"memory", "disk"} /\ step' \in {"disk", "volumes"}
        /\ UNCHANGED <<daemon, summary, asked, changed>>
    BY <1>4 DEF ReadMemInfo, ReadDiskUsage
  <2> QED
    BY <2>1 DEF SummaryInv, DaemonTyped, Mounted, Existing, Gathered,
       SummaryIsPossible, UnusedIsExact
<1>5. ASSUME NEW v \in Volumes, CreateVolume(v) \/ RemoveVolume(v) PROVE SummaryInv'
  <2>1. DaemonTyped' /\ Mounted' /\ Event
    BY <1>5, <1>t DEF CreateVolume, RemoveVolume, DaemonTyped, Mounted, Existing
  <2> QED
    BY <2>1, DaemonNext
<1>6. ASSUME NEW c \in Containers, NEW mounts \in SUBSET Volumes,
             NEW state \in {"created", "running"}, CreateContainer(c, mounts, state)
      PROVE  SummaryInv'
  <2>1. [state |-> state, mounts |-> mounts] \in Container
    BY DEF Container, States
  <2>2. DaemonTyped' /\ Mounted' /\ Event
    BY <1>6, <1>t, <2>1 DEF CreateContainer, DaemonTyped, Mounted, Existing
  <2> QED
    BY <2>2, DaemonNext
<1>7. ASSUME NEW c \in Containers, NEW state \in States, ChangeState(c, state)
      PROVE  SummaryInv'
  <2>1. c \in Existing /\ containers[c] \in Container
    BY <1>7, <1>t DEF ChangeState, DaemonTyped, Existing
  <2>2. /\ [containers[c] EXCEPT !.state = state] \in Container
        /\ [containers[c] EXCEPT !.state = state].mounts = containers[c].mounts
    BY <2>1 DEF Container
  <2>3. containers' = [containers EXCEPT ![c] = [containers[c] EXCEPT !.state = state]]
        /\ UNCHANGED volumes
    BY <1>7 DEF ChangeState
  <2>4. DaemonTyped' /\ Mounted'
    BY <1>t, <2>1, <2>2, <2>3 DEF DaemonTyped, Mounted, Existing
  <2> QED
    BY <1>7, <2>4, DaemonNext DEF ChangeState
<1>8. ASSUME NEW c \in Containers, RemoveContainer(c) PROVE SummaryInv'
  <2>1. DaemonTyped' /\ Mounted' /\ Event
    BY <1>8, <1>t DEF RemoveContainer, DaemonTyped, Mounted, Existing
  <2> QED
    BY <2>1, DaemonNext
<1>9. CASE UNCHANGED vars
  BY <1>9 DEF vars, SummaryInv, DaemonTyped, Mounted, Existing, Gathered,
     SummaryIsPossible, UnusedIsExact
<1> QED
  BY <1>1, <1>2, <1>3, <1>4, <1>5, <1>6, <1>7, <1>8, <1>9 DEF Next

\* A daemon without containers and volumes.
LEMMA SummaryInit == Init => SummaryInv
<1> SUFFICES ASSUME Init PROVE SummaryInv
  OBVIOUS
<1>1. summary \in DockerSummary /\ SummaryIsPossible
  BY DEF Init, NoSummary, DockerSummary, SummaryIsPossible
<1> QED
  BY <1>1 DEF Init, SummaryInv, DaemonTyped, Mounted, Existing, Gathered, UnusedIsExact

\* No summary shows impossible counts (insights.go, CollectDockerSummary).
THEOREM CountsArePossible == Spec => []SummaryIsPossible
<1>1. SummaryInv => SummaryIsPossible
  BY DEF SummaryInv
<1> QED
  BY <1>1, SummaryInit, SummaryNext, PTL DEF Spec

\* If the daemon held still, the number of unused volumes is exact
\* (insights.go, CollectDockerSummary).
THEOREM UnusedAreCounted == Spec => []UnusedIsExact
<1>1. SummaryInv => UnusedIsExact
  BY DEF SummaryInv
<1> QED
  BY <1>1, SummaryInit, SummaryNext, PTL DEF Spec

----------------------------------------------------------------------------
(* Types.                                                                  *)

\* The order of the steps, and what is known of the daemon's answers.
ProgressTyped ==
  /\ step \in {"memory", "disk", "volumes", "containers", "done"}
  /\ asked \subseteq {"volumes", "containers"}
  /\ changed \in BOOLEAN
  /\ events \in 0..MaxEvents

\* A step is followed by the next one, in the middle of which the daemon may
\* change.
LEMMA ProgressNext == ProgressTyped /\ [Next]_vars => ProgressTyped'
<1> SUFFICES ASSUME ProgressTyped, [Next]_vars PROVE ProgressTyped'
  OBVIOUS
<1>1. ASSUME NEW total \in Sizes, NEW available \in Sizes,
             ReadMemInfo(total, available) \/ ReadDiskUsage(total, available)
      PROVE  ProgressTyped'
  BY <1>1 DEF ReadMemInfo, ReadDiskUsage, ProgressTyped
<1>2. CASE ListVolumes
  BY <1>2 DEF ListVolumes, ProgressTyped
<1>3. CASE ListAllContainers
  BY <1>3 DEF ListAllContainers, ProgressTyped
<1>4. CASE Again
  BY <1>4 DEF Again, ProgressTyped
<1>5. CASE Event
  <2>1. events' \in 0..MaxEvents
    BY <1>5, TelemetryAssumption DEF Event, ProgressTyped
  <2> QED
    BY <1>5, <2>1 DEF Event, ProgressTyped
<1>6. CASE UNCHANGED vars
  BY <1>6 DEF vars, ProgressTyped
<1> QED
  BY <1>1, <1>2, <1>3, <1>4, <1>5, <1>6
     DEF Next, CreateVolume, RemoveVolume, CreateContainer, ChangeState, RemoveContainer

\* Every number of a telemetry fits its register and every count of a summary
\* is a natural number, whichever calls fail (server.go, Collect; insights.go,
\* CollectDockerSummary).
THEOREM TelemetryTyped == Spec => []TypeOK
<1>1. Init => ProgressTyped
  <2>1. 0 \in 0..MaxEvents
    BY TelemetryAssumption
  <2> QED
    BY <2>1 DEF Init, ProgressTyped
<1>2. ServerSound /\ SummaryInv /\ ProgressTyped => TypeOK
  BY DEF ServerSound, SummaryInv, DaemonTyped, ProgressTyped, TypeOK
<1> QED
  BY <1>1, <1>2, ServerInit, ServerNext, SummaryInit, SummaryNext, ProgressNext, PTL
     DEF Spec

----------------------------------------------------------------------------
(* The loop of formatBytes.                                                *)

\* A set of numbers that is not empty has a least element.
LEMMA LeastElement ==
  ASSUME NEW S \in SUBSET Nat, S # {}
  PROVE  \E x \in S : \A y \in S : x <= y
<1> DEFINE Less == {ss \in Nat \X Nat : ss[1] < ss[2]}
<1>1. IsWellFoundedOn(Less, Nat)
  BY NatLessThanWellFounded DEF OpToRel
<1>2. \A x, y \in Nat : <<y, x>> \in Less <=> y < x
  OBVIOUS
<1> HIDE DEF Less
<1>3. PICK x \in S : \A y \in S : ~ (<<y, x>> \in Less)
  BY <1>1, WFMin, Zenon
<1>4. ASSUME NEW y \in S PROVE x <= y
  <2>1. x \in Nat /\ y \in Nat /\ ~ (y < x)
    BY <1>2, <1>3
  <2> QED
    BY <2>1
<1> QED
  BY <1>4

\* Each pass of the loop divides, and leaves something.
LEMMA Quotient ==
  ASSUME NEW n \in Nat
  PROVE  /\ n \div Unit \in Nat
         /\ (n \div Unit) * Unit <= n /\ n < ((n \div Unit) + 1) * Unit
         /\ n >= Unit => 1 <= n \div Unit /\ n \div Unit < n
<1>1. Unit \in Nat \ {0, 1}
  BY TelemetryAssumption
<1>2. n \div Unit \in Nat
  BY <1>1
<1>3. (n \div Unit) * Unit <= n
  BY <1>1
<1>4. n < ((n \div Unit) + 1) * Unit
  BY <1>1
<1>5. n >= Unit => 1 <= n \div Unit
  BY <1>1
<1>6. n >= Unit => n \div Unit < n
  BY <1>1
<1> QED
  BY <1>2, <1>3, <1>4, <1>5, <1>6

\* On the numbers of N, g begins with c and makes a step op for each division.
Follows(g, c, op, N) ==
  /\ g \in [N -> Nat]
  /\ \A k \in N : g[k] = IF k < Unit THEN c ELSE op[g[k \div Unit]]

\* Two such functions agree where both are defined.
LEMMA FollowsOneWay ==
  ASSUME NEW c, NEW op, NEW g, NEW h, NEW n \in Nat, NEW m \in Nat,
         Follows(g, c, op, 0..n), Follows(h, c, op, 0..m),
         NEW k \in (0..n) \cap (0..m)
  PROVE  g[k] = h[k]
<1> DEFINE T == {j \in (0..n) \cap (0..m) : g[j] # h[j]}
<1>1. SUFFICES ASSUME T # {} PROVE FALSE
  OBVIOUS
<1>2. T \in SUBSET Nat
  OBVIOUS
<1>3. PICK x \in T : \A y \in T : x <= y
  BY <1>1, <1>2, LeastElement
<1>4. x \in Nat /\ x \in 0..n /\ x \in 0..m /\ Unit \in Nat
  BY TelemetryAssumption
<1>5. CASE x < Unit
  BY <1>4, <1>5 DEF Follows
<1>6. CASE ~(x < Unit)
  <2> DEFINE q == x \div Unit
  <2>1. q \in Nat /\ q < x
    BY <1>4, <1>6, Quotient
  <2> HIDE DEF q
  <2>2. q \in (0..n) \cap (0..m) /\ ~(x <= q)
    BY <1>4, <2>1
  <2>3. g[q] = h[q]
    BY <1>3, <2>2
  <2> QED
    BY <1>4, <1>6, <2>3 DEF Follows, q
<1> QED
  BY <1>5, <1>6

\* There is one up to every number.
LEMMA FollowsSomeWay ==
  ASSUME NEW c \in Nat, NEW op \in [Nat -> Nat]
  PROVE  \A n \in Nat : \E g : Follows(g, c, op, 0..n)
<1> DEFINE T == {n \in Nat : ~ \E g : Follows(g, c, op, 0..n)}
<1>1. SUFFICES ASSUME T # {} PROVE FALSE
  OBVIOUS
<1>2. T \in SUBSET Nat
  OBVIOUS
<1>3. PICK n \in T : \A y \in T : n <= y
  BY <1>1, <1>2, LeastElement
<1>4. n \in Nat /\ Unit \in Nat \ {0, 1}
  BY TelemetryAssumption
<1>5. CASE n < Unit
  <2> DEFINE g == [k \in 0..n |-> c]
  <2>1. Follows(g, c, op, 0..n)
    BY <1>4, <1>5 DEF Follows
  <2> QED
    BY <1>3, <2>1
<1>6. CASE ~(n < Unit)
  <2>1. n - 1 \in Nat /\ ~(n <= n - 1)
    BY <1>4, <1>6
  <2>2. PICK h : Follows(h, c, op, 0..(n - 1))
    BY <1>3, <2>1
  <2> DEFINE v == op[h[n \div Unit]]
             g == [k \in 0..n |-> IF k = n THEN v ELSE h[k]]
  <2>3. n \div Unit \in 0..(n - 1)
    <3> DEFINE q == n \div Unit
    <3>1. q \in Nat /\ q < n
      BY <1>4, <1>6, Quotient
    <3> HIDE DEF q
    <3>2. q \in 0..(n - 1)
      BY <1>4, <3>1
    <3> QED
      BY <3>2 DEF q
  <2>4. v \in Nat
    BY <2>2, <2>3 DEF Follows
  <2>5. \A k \in 0..n : k = n \/ k \in 0..(n - 1)
    BY <1>4
  <2>6. \A k \in 0..(n - 1) : k \in 0..n /\ k # n
    BY <1>4
  <2>7. \A k \in 0..(n - 1) : g[k] = h[k] /\ h[k] \in Nat
    BY <2>2, <2>6 DEF Follows
  <2>8. n \in 0..n /\ g[n] = v
    BY <1>4
  <2>9. g \in [0..n -> Nat]
    BY <2>4, <2>5, <2>7
  <2> HIDE DEF g
  <2>10. ASSUME NEW k \in 0..n
         PROVE  g[k] = IF k < Unit THEN c ELSE op[g[k \div Unit]]
    <3>1. CASE k = n
      <4>1. g[n \div Unit] = h[n \div Unit]
        BY <2>3, <2>7
      <4> QED
        BY <1>6, <2>8, <3>1, <4>1
    <3>2. CASE k \in 0..(n - 1)
      <4>1. ~(k < Unit) => k \div Unit \in 0..(n - 1)
        <5>1. k \in Nat /\ k <= n - 1
          BY <1>4, <3>2
        <5> QED
          BY <1>4, <5>1, Quotient
      <4> QED
        BY <2>2, <2>7, <3>2, <4>1 DEF Follows
    <3> QED
      BY <2>5, <3>1, <3>2
  <2>11. Follows(g, c, op, 0..n)
    BY <2>9, <2>10 DEF Follows
  <2> QED
    BY <1>3, <2>11
<1> QED
  BY <1>5, <1>6

\* So there is one on all numbers: a loop that divides until its number is
\* less than a unit ends, and what it computes is a function.
LEMMA LoopDefined ==
  ASSUME NEW c \in Nat, NEW op \in [Nat -> Nat]
  PROVE  \E f \in [Nat -> Nat] :
           f = [n \in Nat |-> IF n < Unit THEN c ELSE op[f[n \div Unit]]]
<1> DEFINE G(n) == CHOOSE g : Follows(g, c, op, 0..n)
           f == [n \in Nat |-> G(n)[n]]
<1>1. \A n \in Nat : Follows(G(n), c, op, 0..n)
  BY FollowsSomeWay, Zenon
<1>u. Unit \in Nat \ {0, 1}
  BY TelemetryAssumption
<1> HIDE DEF G
<1>2. \A n \in Nat : n \in 0..n /\ G(n)[n] \in Nat
  BY <1>1 DEF Follows
<1>3. f \in [Nat -> Nat] /\ \A n \in Nat : f[n] = G(n)[n]
  BY <1>2
<1> HIDE DEF f
<1>4. ASSUME NEW n \in Nat
      PROVE  f[n] = IF n < Unit THEN c ELSE op[f[n \div Unit]]
  <2>1. CASE n < Unit
    BY <1>1, <1>2, <1>3, <2>1 DEF Follows
  <2>2. CASE ~(n < Unit)
    <3> DEFINE q == n \div Unit
    <3>1. q \in Nat /\ q < n
      BY <1>u, <2>2, Quotient
    <3>2. G(n)[n] = op[G(n)[q]]
      BY <1>1, <1>2, <2>2 DEF Follows
    <3> HIDE DEF q
    <3>3. q \in (0..n) \cap (0..q)
      BY <3>1
    <3>4. G(n)[q] = G(q)[q]
      BY <1>1, <3>1, <3>3, FollowsOneWay
    <3>5. f[n] = op[f[q]]
      BY <1>3, <3>1, <3>2, <3>4
    <3> QED
      BY <2>2, <3>5 DEF q
  <2> QED
    BY <2>1, <2>2
<1> QED
  BY <1>3, <1>4

\* What is a number after every pass, if it is before, is one at the end.
LEMMA LoopTyped ==
  ASSUME NEW f, f = [n \in Nat |-> f[n]],
         \A n \in Nat : (n >= Unit => f[n \div Unit] \in Nat) => f[n] \in Nat
  PROVE  f \in [Nat -> Nat]
<1> DEFINE T == {n \in Nat : f[n] \notin Nat}
<1>1. SUFFICES ASSUME T # {} PROVE FALSE
  OBVIOUS
<1>2. T \in SUBSET Nat
  OBVIOUS
<1>3. PICK n \in T : \A y \in T : n <= y
  BY <1>1, <1>2, LeastElement
<1>4. n >= Unit /\ f[n \div Unit] \notin Nat
  BY <1>3
<1> DEFINE q == n \div Unit
<1>5. q \in Nat /\ q < n
  BY <1>4, Quotient
<1> HIDE DEF q
<1>6. ~(n <= q)
  BY <1>5
<1>7. f[q] \in Nat
  BY <1>3, <1>5, <1>6
<1> QED
  BY <1>4, <1>7 DEF q

\* How often the loop divides (server.go, formatBytes).
LEMMA ExponentDefined ==
  /\ Exponent \in [Nat -> Nat]
  /\ \A n \in Nat : Exponent[n] = IF n < Unit THEN 0 ELSE 1 + Exponent[n \div Unit]
<1> DEFINE op == [x \in Nat |-> 1 + x]
<1>1. op \in [Nat -> Nat] /\ \A x \in Nat : op[x] = 1 + x
  OBVIOUS
<1> HIDE DEF op
<1>2. PICK f \in [Nat -> Nat] :
        f = [n \in Nat |-> IF n < Unit THEN 0 ELSE op[f[n \div Unit]]]
  <2>1. 0 \in Nat
    OBVIOUS
  <2> QED
    BY <1>1, <2>1, LoopDefined, Zenon
<1>3. \A n \in Nat : op[f[n \div Unit]] = 1 + f[n \div Unit]
  BY <1>1, <1>2, Quotient
<1>4. f = [n \in Nat |-> IF n < Unit THEN 0 ELSE 1 + f[n \div Unit]]
  BY <1>2, <1>3
<1>5. Exponent = [n \in Nat |-> IF n < Unit THEN 0 ELSE 1 + Exponent[n \div Unit]]
  BY <1>4, Zenon DEF Exponent
<1>6. \A n \in Nat : Exponent[n] = IF n < Unit THEN 0 ELSE 1 + Exponent[n \div Unit]
  BY <1>5, Zenon
<1>7. Exponent = [n \in Nat |-> Exponent[n]]
  BY <1>5, <1>6
<1>u. Unit \in Nat \ {0, 1}
  BY TelemetryAssumption
<1>8. \A n \in Nat : (n >= Unit => Exponent[n \div Unit] \in Nat) => Exponent[n] \in Nat
  <2> HIDE DEF Exponent
  <2> QED
    BY <1>6, <1>u
<1>9. Exponent \in [Nat -> Nat]
  BY <1>7, <1>8, LoopTyped
<1> QED
  BY <1>6, <1>9

\* What the loop multiplies div to.
LEMMA DivisorDefined ==
  /\ Divisor \in [Nat -> Nat]
  /\ \A n \in Nat :
       Divisor[n] = IF n < Unit THEN Unit ELSE (Unit * Divisor[n \div Unit]) % Modulus
<1> DEFINE op == [x \in Nat |-> (Unit * x) % Modulus]
<1>u. Unit \in Nat \ {0, 1} /\ Modulus \in Nat \ {0}
  BY TelemetryAssumption
<1>a. \A x \in Nat : (Unit * x) % Modulus \in Nat
  <2> SUFFICES ASSUME NEW x \in Nat PROVE (Unit * x) % Modulus \in Nat
    OBVIOUS
  <2>1. Unit * x \in Nat
    BY <1>u
  <2> QED
    BY <1>u, <2>1
<1>1. op \in [Nat -> Nat] /\ \A x \in Nat : op[x] = (Unit * x) % Modulus
  BY <1>a
<1> HIDE DEF op
<1>2. PICK f \in [Nat -> Nat] :
        f = [n \in Nat |-> IF n < Unit THEN Unit ELSE op[f[n \div Unit]]]
  BY <1>1, <1>u, LoopDefined
<1>3. \A n \in Nat : op[f[n \div Unit]] = (Unit * f[n \div Unit]) % Modulus
  BY <1>1, <1>2, Quotient
<1>4. f = [n \in Nat |-> IF n < Unit THEN Unit ELSE (Unit * f[n \div Unit]) % Modulus]
  BY <1>2, <1>3
<1>5. Divisor =
        [n \in Nat |-> IF n < Unit THEN Unit ELSE (Unit * Divisor[n \div Unit]) % Modulus]
  BY <1>4, Zenon DEF Divisor
<1>6. \A n \in Nat :
        Divisor[n] = IF n < Unit THEN Unit ELSE (Unit * Divisor[n \div Unit]) % Modulus
  BY <1>5, Zenon
<1>7. Divisor = [n \in Nat |-> Divisor[n]]
  BY <1>5, <1>6
<1>8. \A n \in Nat : (n >= Unit => Divisor[n \div Unit] \in Nat) => Divisor[n] \in Nat
  <2> SUFFICES ASSUME NEW n \in Nat, n >= Unit => Divisor[n \div Unit] \in Nat
               PROVE  Divisor[n] \in Nat
    OBVIOUS
  <2>1. CASE n < Unit
    BY <1>6, <1>u, <2>1
  <2>2. CASE ~(n < Unit)
    <3>1. Divisor[n \div Unit] \in Nat
      BY <1>u, <2>2
    <3>2. Divisor[n] = (Unit * Divisor[n \div Unit]) % Modulus
      BY <1>6, <2>2
    <3> QED
      BY <1>a, <3>1, <3>2
  <2> QED
    BY <2>1, <2>2
<1>9. Divisor \in [Nat -> Nat]
  BY <1>7, <1>8, LoopTyped
<1> QED
  BY <1>6, <1>9

\* One pass more for a number that is one power of the unit larger.
LEMMA OneMorePass ==
  ASSUME NEW a \in Nat, NEW k \in Nat,
         \A m \in Nat : m < a => Exponent[m] \in 0..k
  PROVE  \A n \in Nat : n < a * Unit => Exponent[n] \in 0..(k + 1)
<1> SUFFICES ASSUME NEW n \in Nat, n < a * Unit PROVE Exponent[n] \in 0..(k + 1)
  OBVIOUS
<1> DEFINE q == n \div Unit
<1>1. Unit \in Nat \ {0, 1}
  BY TelemetryAssumption
<1>2. q \in Nat /\ q < a
  BY <1>1
<1>3. Exponent[n] = IF n < Unit THEN 0 ELSE 1 + Exponent[q]
  BY ExponentDefined
<1> HIDE DEF q, Exponent
<1>4. Exponent[q] \in 0..k
  BY <1>2
<1> QED
  BY <1>3, <1>4

\* The six suffixes are enough.
LEMMA ExponentFits ==
  ASSUME NEW n \in Nat, n < Unit * Unit * Unit * Unit * Unit * Unit
  PROVE  Exponent[n] \in 0..5
<1> DEFINE p2 == Unit * Unit
           p3 == p2 * Unit
           p4 == p3 * Unit
           p5 == p4 * Unit
           p6 == p5 * Unit
<1>1. Unit \in Nat
  BY TelemetryAssumption
<1>2. p2 \in Nat
  BY <1>1
<1> HIDE DEF p2
<1>3. p3 \in Nat
  BY <1>1, <1>2
<1> HIDE DEF p3
<1>4. p4 \in Nat
  BY <1>1, <1>3
<1> HIDE DEF p4
<1>5. p5 \in Nat
  BY <1>1, <1>4
<1> HIDE DEF p5
<1>6. \A m \in Nat : m < Unit => Exponent[m] \in 0..0
  BY ExponentDefined
<1>7. \A m \in Nat : m < p2 => Exponent[m] \in 0..(0 + 1)
  BY <1>1, <1>6, OneMorePass DEF p2
<1>8. \A m \in Nat : m < p3 => Exponent[m] \in 0..(0 + 1 + 1)
  <2>1. 0 + 1 \in Nat
    OBVIOUS
  <2> QED
    BY <1>2, <1>7, <2>1, OneMorePass, Zenon DEF p3
<1>9. \A m \in Nat : m < p4 => Exponent[m] \in 0..(0 + 1 + 1 + 1)
  <2>1. 0 + 1 + 1 \in Nat
    OBVIOUS
  <2> QED
    BY <1>3, <1>8, <2>1, OneMorePass, Zenon DEF p4
<1>10. \A m \in Nat : m < p5 => Exponent[m] \in 0..(0 + 1 + 1 + 1 + 1)
  <2>1. 0 + 1 + 1 + 1 \in Nat
    OBVIOUS
  <2> QED
    BY <1>4, <1>9, <2>1, OneMorePass, Zenon DEF p5
<1>11. \A m \in Nat : m < p6 => Exponent[m] \in 0..(0 + 1 + 1 + 1 + 1 + 1)
  <2>1. 0 + 1 + 1 + 1 + 1 \in Nat
    OBVIOUS
  <2> QED
    BY <1>5, <1>10, <2>1, OneMorePass, Zenon DEF p6
<1>12. n < p6
  BY DEF p2, p3, p4, p5, p6
<1> HIDE DEF p6, Exponent
<1>13. Exponent[n] \in 0..(0 + 1 + 1 + 1 + 1 + 1)
  BY <1>11, <1>12
<1> QED
  BY <1>13

\* The divisor of a number is the power of the unit next above it, and does not
\* wrap around as long as the number of bytes itself does not.
LEMMA DivisorFits ==
  \A n \in Nat : n >= 1 /\ n * Unit < Modulus =>
                   Divisor[n] <= n * Unit /\ n < Divisor[n]
<1> DEFINE Good(n) == Divisor[n] <= n * Unit /\ n < Divisor[n]
           T == {n \in Nat : n >= 1 /\ n * Unit < Modulus /\ ~Good(n)}
<1>1. SUFFICES ASSUME T # {} PROVE FALSE
  OBVIOUS
<1>2. T \in SUBSET Nat
  OBVIOUS
<1>3. PICK n \in T : \A y \in T : n <= y
  BY <1>1, <1>2, LeastElement
<1>4. Unit \in Nat \ {0, 1} /\ Modulus \in Nat \ {0}
  BY TelemetryAssumption
<1>5. n \in Nat /\ n >= 1 /\ n * Unit < Modulus /\ ~Good(n)
  BY <1>3
<1>6. CASE n < Unit
  <2>1. Divisor[n] = Unit
    BY <1>5, <1>6, DivisorDefined
  <2>2. Unit <= n * Unit
    BY <1>4, <1>5
  <2> QED
    BY <1>5, <1>6, <2>1, <2>2
<1>7. CASE ~(n < Unit)
  <2> DEFINE m == n \div Unit
             d == Divisor[m]
  <2>1. m \in Nat /\ m * Unit <= n /\ n < (m + 1) * Unit /\ 1 <= m /\ m < n
    BY <1>4, <1>5, <1>7, Quotient
  <2>2. Divisor[n] = (Unit * d) % Modulus /\ d \in Nat
    BY <1>5, <1>7, <2>1, DivisorDefined
  <2> HIDE DEF m
  <2>3. n <= n * Unit
    BY <1>4, <1>5
  <2>4. m * Unit < Modulus
    <3> DEFINE x == m * Unit
               y == n * Unit
    <3>1. x \in Nat /\ y \in Nat
      BY <1>4, <1>5, <2>1
    <3>2. x <= n /\ n <= y /\ y < Modulus
      BY <1>5, <2>1, <2>3
    <3> HIDE DEF x, y
    <3>3. x < Modulus
      BY <1>4, <1>5, <3>1, <3>2
    <3> QED
      BY <3>3 DEF x
  <2>5. ~(n <= m)
    BY <1>5, <2>1
  <2>6. Good(m)
    BY <1>3, <2>1, <2>4, <2>5
  <2>7. d <= m * Unit /\ m < d
    BY <2>6
  <2> HIDE DEF d, Good
  <2>8. d <= n
    <3>1. m * Unit \in Nat
      BY <1>4, <2>1
    <3> QED
      BY <1>5, <2>1, <2>2, <2>7, <3>1
  <2>9. Unit * d <= n * Unit
    BY <1>4, <1>5, <2>2, <2>8
  <2>10. (m + 1) * Unit <= Unit * d
    BY <1>4, <2>1, <2>2, <2>7
  <2>11. Unit * d \in Nat /\ n * Unit \in Nat /\ (m + 1) * Unit \in Nat
    BY <1>4, <1>5, <2>1, <2>2
  <2>12. Unit * d < Modulus
    <3> DEFINE x == Unit * d
               y == n * Unit
    <3>1. x \in Nat /\ y \in Nat /\ x <= y /\ y < Modulus
      BY <1>5, <2>9, <2>11
    <3> HIDE DEF x, y
    <3>2. x < Modulus
      BY <1>4, <3>1
    <3> QED
      BY <3>2 DEF x
  <2>13. Divisor[n] = Unit * d
    <3> DEFINE x == Unit * d
    <3>1. x \in Nat /\ x < Modulus /\ Divisor[n] = x % Modulus
      BY <2>2, <2>11, <2>12
    <3> HIDE DEF x
    <3>2. Divisor[n] = x
      BY <1>4, <3>1
    <3> QED
      BY <3>2 DEF x
  <2>14. n < Unit * d
    <3> DEFINE x == Unit * d
               y == (m + 1) * Unit
    <3>1. x \in Nat /\ y \in Nat /\ n < y /\ y <= x
      BY <2>1, <2>10, <2>11
    <3> HIDE DEF x, y
    <3>2. n < x
      BY <1>5, <3>1
    <3> QED
      BY <3>2 DEF x
  <2>15. Good(n)
    BY <2>9, <2>13, <2>14 DEF Good
  <2> QED
    BY <1>5, <2>15
<1> QED
  BY <1>6, <1>7

\* formatBytes finds the one suffix that leaves a number from 1 to less than a
\* unit, for every number its parameter can hold (server.go, formatBytes).
LEMMA ScaleFits ==
  ASSUME NEW b \in Amount, b >= Unit
  PROVE  Scale(b).exp \in 0..5 /\ Scale(b).div <= b /\ b < Scale(b).div * Unit
<1> DEFINE n == b \div Unit
           d == Divisor[n]
           p6 == Unit * Unit * Unit * Unit * Unit * Unit
<1>1. Unit \in Nat \ {0, 1} /\ Modulus \in Nat \ {0} /\ b \in Nat /\ b < Modulus
  BY TelemetryAssumption DEF Amount
<1>2. n \in Nat /\ 1 <= n /\ n * Unit <= b /\ b < (n + 1) * Unit
  BY <1>1, Quotient
<1>3. p6 \in Nat
  <2>1. Unit * Unit \in Nat
    BY <1>1
  <2>2. Unit * Unit * Unit \in Nat
    BY <1>1, <2>1
  <2>3. Unit * Unit * Unit * Unit \in Nat
    BY <1>1, <2>2
  <2>4. Unit * Unit * Unit * Unit * Unit \in Nat
    BY <1>1, <2>3
  <2> QED
    BY <1>1, <2>4
<1>4. Modulus <= p6 * Unit
  BY WordAssumption
<1> HIDE DEF p6
<1>5. n < p6
  <2>1. b < p6 * Unit
    <3>1. p6 * Unit \in Nat
      BY <1>1, <1>3
    <3> QED
      BY <1>1, <1>4, <3>1
  <2> QED
    BY <1>1, <1>3, <2>1
<1>6. Exponent[n] \in 0..5
  BY <1>2, <1>5, ExponentFits DEF p6
<1> HIDE DEF n
<1>7. n * Unit \in Nat /\ n * Unit < Modulus
  <2>1. n * Unit \in Nat
    BY <1>1, <1>2
  <2> QED
    BY <1>1, <1>2, <2>1
<1>8. d \in Nat /\ d <= n * Unit /\ n < d
  BY <1>2, <1>7, DivisorFits, DivisorDefined
<1> HIDE DEF d
<1>9. d <= b
  BY <1>1, <1>2, <1>7, <1>8
<1>10. b < d * Unit
  <2>1. (n + 1) * Unit <= d * Unit
    BY <1>1, <1>2, <1>8
  <2>2. (n + 1) * Unit \in Nat /\ d * Unit \in Nat
    BY <1>1, <1>2, <1>8
  <2> QED
    BY <1>1, <1>2, <2>1, <2>2
<1> QED
  BY <1>6, <1>9, <1>10 DEF Scale, n, d

\* Every number shown has its suffix, whatever was read (server.go,
\* formatBytes and its callers).
THEOREM SuffixesFit == Spec => []SuffixFits
<1>1. ServerSound => SuffixFits
  <2> SUFFICES ASSUME ServerSound,
                      NEW b \in {server.ramUsed, server.ramTotal,
                                 server.diskTotal, DiskFree},
                      b >= Unit
               PROVE  Scale(b).exp \in 0..5 /\ Scale(b).div <= b /\ b < Scale(b).div * Unit
    BY DEF SuffixFits
  <2>1. /\ server.ramUsed \in Amount /\ server.ramTotal \in Amount
        /\ server.diskTotal \in Amount /\ server.diskUsed \in Amount
    BY DEF ServerSound, ServerTelemetry
  <2>2. DiskFree \in Amount
    BY <2>1, TelemetryAssumption DEF DiskFree, Minus, Amount
  <2> QED
    BY <2>1, <2>2, ScaleFits
<1> QED
  BY <1>1, ServerInit, ServerNext, PTL DEF Spec

=============================================================================
