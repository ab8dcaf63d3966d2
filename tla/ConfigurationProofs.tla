------------------------ MODULE ConfigurationProofs ------------------------
(***************************************************************************)
(* Proofs about Configuration, for any keys, any number of directories and *)
(* any contents of files and environment.                                  *)
(***************************************************************************)
EXTENDS Configuration, WellFoundedInduction, TLAPS

----------------------------------------------------------------------------
(* What Load reads.                                                        *)

\* A set of positions in the search path has a first one (config.go,
\* AddConfigPath).
LEMMA FirstPosition ==
  ASSUME NEW S \in SUBSET DOMAIN Dirs, S # {}
  PROVE  Min(S) \in S /\ \A j \in S : Min(S) <= j
<1>1. S \subseteq Nat
  BY KeysAssumption
<1> DEFINE Less == {ss \in Nat \X Nat : ss[1] < ss[2]}
<1>2. IsWellFoundedOn(Less, Nat)
  BY NatLessThanWellFounded DEF OpToRel
<1> HIDE DEF Less
<1>3. \E x \in S : \A y \in S : ~ (<<y, x>> \in Less)
  BY <1>1, <1>2, WFMin, Zenon
<1>4. \A x, y \in Nat : <<y, x>> \in Less <=> y < x
  BY DEF Less
<1>5. PICK x \in S : \A y \in S : ~ (<<y, x>> \in Less)
  BY <1>3
<1>6. ASSUME NEW y \in S PROVE x <= y
  <2>1. x \in Nat /\ y \in Nat
    BY <1>1
  <2>2. ~ (y < x)
    BY <1>4, <1>5, <2>1
  <2> QED
    BY <2>1, <2>2
<1> QED
  BY <1>5, <1>6 DEF Min

\* If some directory has a file, Found is the first of them, and the position
\* of the first file is unique (viper, ReadInConfig).
LEMMA FoundIsFirst ==
  /\ \A i \in DOMAIN Dirs : InForce(i) => Found = files[Dirs[i]]
  /\ Found # NoFile => \E i \in DOMAIN Dirs : InForce(i)
<1>a. \E n \in Nat : DOMAIN Dirs = 1..n
  BY KeysAssumption
<1>1. ASSUME NEW i \in DOMAIN Dirs, InForce(i)
      PROVE  Found = files[Dirs[i]]
  <2>1. i \in Present /\ Present \subseteq DOMAIN Dirs
    BY <1>1 DEF Present, InForce
  <2>2. Min(Present) \in Present /\ Min(Present) <= i
    BY <2>1, FirstPosition
  <2>3. Min(Present) \notin 1..(i - 1)
    BY <1>1, <2>2 DEF Present, InForce
  <2>4. Min(Present) = i
    BY <1>a, <2>1, <2>2, <2>3
  <2> QED
    BY <2>1, <2>4 DEF Found
<1>2. ASSUME Found # NoFile
      PROVE  \E i \in DOMAIN Dirs : InForce(i)
  <2>1. Present # {} /\ Present \subseteq DOMAIN Dirs
    BY <1>2 DEF Found, Present
  <2>2. Min(Present) \in Present /\ \A j \in Present : Min(Present) <= j
    BY <2>1, FirstPosition
  <2>3. \A j \in 1..(Min(Present) - 1) : j \in DOMAIN Dirs /\ j \notin Present
    BY <1>a, <2>1, <2>2
  <2>4. InForce(Min(Present))
    BY <2>2, <2>3 DEF InForce, Present
  <2> QED
    BY <2>1, <2>2, <2>4
<1> QED
  BY <1>1, <1>2

----------------------------------------------------------------------------
(* Type correctness.                                                       *)

\* What a key may hold before and after it is decoded.
LEMMA LookupType ==
  ASSUME TypeOK
  PROVE  /\ Found \in File
         /\ Decoded \in [Keys -> Values \cup {"default", "zero"}]
<1>1. NoFile \in File
  BY DEF NoFile, File
<1>2. Found \in File
  <2>1. CASE Present = {}
    BY <1>1, <2>1 DEF Found
  <2>2. CASE Present # {}
    <3>1. Present \subseteq DOMAIN Dirs
      BY DEF Present
    <3>2. Min(Present) \in DOMAIN Dirs
      BY <2>2, <3>1, FirstPosition
    <3> QED
      BY <2>2, <3>2 DEF Found, TypeOK, Places
  <2> QED
    BY <2>1, <2>2
<1>3. ASSUME NEW k \in Keys
      PROVE  Lookup(k) \in Values \cup {"default", "zero"}
  <2>1. Found.has[k] \in Values \cup {None}
    BY <1>2 DEF File
  <2>2. \A x : IsSet(x) => env[x] \in Values
    BY DEF IsSet, TypeOK
  <2> QED
    BY <2>1, <2>2 DEF Lookup
<1> QED
  BY <1>2, <1>3 DEF Decoded

\* The bound on edits is kept by each of them.
LEMMA EditCounts ==
  ASSUME edits \in 0..MaxEdits, Edit
  PROVE  edits' \in 0..MaxEdits
<1>1. MaxEdits \in Nat
  BY KeysAssumption, Zenon
<1> QED
  BY <1>1 DEF Edit

\* Variables and files keep their type, and so does the loaded Config, from
\* whatever layer each value came.
THEOREM ConfigurationTyped == Spec => []TypeOK
<1>1. Init => TypeOK
  BY KeysAssumption DEF Init, TypeOK, NoFile, File
<1>2. TypeOK /\ [Next]_vars => TypeOK'
  <2> SUFFICES ASSUME TypeOK, [Next]_vars PROVE TypeOK'
    OBVIOUS
  <2> USE DEF TypeOK
  <2>1. CASE Start
    BY <2>1, LookupType DEF Start
  <2>2. CASE Stop
    BY <2>2 DEF Stop
  <2>a. ASSUME NEW d \in Places, NEW g \in File, Edit,
               files' = [files EXCEPT ![d] = g], UNCHANGED env
        PROVE  TypeOK'
    <3>1. files' \in [Places -> File]
      BY <2>a
    <3>2. edits' \in 0..MaxEdits
      BY <2>a, EditCounts
    <3> QED
      BY <2>a, <3>1, <3>2 DEF Edit
  <2>b. \A d \in Places : files[d] \in File
    OBVIOUS
  <2>3. ASSUME NEW d \in Places, Spoil(d) PROVE TypeOK'
    <3>1. [NoFile EXCEPT !.state = "broken"] \in File
      BY DEF NoFile, File
    <3> QED
      BY <2>3, <2>a, <3>1 DEF Spoil
  <2>4. ASSUME NEW d \in Places, NEW k \in Keys, NEW v \in Values,
               WriteKey(d, k, v)
        PROVE  TypeOK'
    <3>1. [files[d] EXCEPT !.state = "ok", !.has[k] = v] \in File
      BY <2>b DEF File
    <3>2. files' = [files EXCEPT ![d] = [files[d] EXCEPT !.state = "ok", !.has[k] = v]]
      BY <2>4 DEF WriteKey
    <3> QED
      BY <2>4, <2>a, <3>1, <3>2 DEF WriteKey
  <2>5. ASSUME NEW x \in Variables, NEW v \in Values \cup {""}, SetEnv(x, v)
        PROVE  TypeOK'
    <3>1. edits' \in 0..MaxEdits
      BY <2>5, EditCounts DEF SetEnv
    <3>2. env' \in [Variables -> Values \cup {None, ""}]
      BY <2>5 DEF SetEnv
    <3> QED
      BY <2>5, <3>1, <3>2 DEF SetEnv, Edit
  <2>6. CASE UNCHANGED vars
    BY <2>6 DEF vars
  <2> QED
    BY <2>1, <2>2, <2>3, <2>4, <2>5, <2>6 DEF Next
<1> QED
  BY <1>1, <1>2, PTL DEF Spec

----------------------------------------------------------------------------
(* Which layer wins.                                                       *)

\* A step in which Load succeeds is Start, and Config is what was decoded.
LEMMA LoadingStep ==
  ASSUME [Next]_vars, Loads
  PROVE  /\ ~ReadFails /\ ~DecodeFails /\ ~Invalid
         /\ cfg' = Decoded
<1>1. ~ UNCHANGED vars /\ ~Stop
  BY DEF Loads, vars, Stop
<1>2. ~ \E d \in Places :
         Spoil(d) \/ \E k \in Keys, v \in Values : WriteKey(d, k, v)
  BY DEF Loads, Spoil, WriteKey, Edit
<1>3. ~ \E x \in Variables, v \in Values \cup {""} : SetEnv(x, v)
  BY DEF Loads, SetEnv, Edit
<1>4. Start
  BY <1>1, <1>2, <1>3 DEF Next
<1> QED
  BY <1>4 DEF Start, Loads

\* No start of the agent ignores a file: the first one found is well-formed,
\* and what it says is in force unless a variable overrides it (config.go,
\* ReadInConfig and Unmarshal).
THEOREM FilesAreHeeded == Spec => NoFileIsIgnored
<1>1. TypeOK /\ [Next]_vars =>
        (Loads =>
           \A i \in DOMAIN Dirs :
             InForce(i) =>
               /\ files[Dirs[i]].state = "ok"
               /\ \A k \in Keys :
                    files[Dirs[i]].has[k] # None /\ Empty(Long(k)) /\ Empty(Short(k)) =>
                      cfg'[k] = files[Dirs[i]].has[k])
  <2> SUFFICES ASSUME TypeOK, [Next]_vars, Loads, NEW i \in DOMAIN Dirs, InForce(i)
               PROVE  /\ files[Dirs[i]].state = "ok"
                      /\ \A k \in Keys :
                           files[Dirs[i]].has[k] # None /\ Empty(Long(k)) /\ Empty(Short(k)) =>
                             cfg'[k] = files[Dirs[i]].has[k]
    OBVIOUS
  <2>1. Found = files[Dirs[i]] /\ Found \in File
    BY FoundIsFirst, LookupType
  <2>2. cfg' = Decoded /\ Found.state # "broken"
    BY LoadingStep DEF ReadFails
  <2>3. files[Dirs[i]].state = "ok"
    BY <2>1, <2>2 DEF InForce, File
  <2>4. ASSUME NEW k \in Keys, Found.has[k] # None, Empty(Long(k)), Empty(Short(k))
        PROVE  Decoded[k] = Found.has[k]
    <3>1. ~IsSet(Long(k)) /\ ~IsSet(Short(k))
      BY <2>4 DEF IsSet, Empty
    <3> QED
      BY <2>4, <3>1 DEF Decoded, Known, Lookup
  <2> QED
    BY <2>1, <2>2, <2>3, <2>4
<1> QED
  BY <1>1, ConfigurationTyped, PTL DEF Spec, NoFileIsIgnored

----------------------------------------------------------------------------
(* What stops the agent.                                                   *)

\* A panic has a cause that is in force: a bad value is one that Lookup finds,
\* in a variable or in the first file (config.go, MustLoad).
THEOREM PanicsAreJustified == Spec => PanicsForCause
<1> DEFINE FileBroken == \E i \in DOMAIN Dirs : InForce(i) /\ files[Dirs[i]].state = "broken"
           Bad(k) == \/ env[Long(k)] = "bad"
                     \/ Empty(Long(k)) /\ ~Empty(Short(k)) /\ env[Short(k)] = "bad"
                     \/ /\ Empty(Long(k)) /\ Empty(Short(k))
                        /\ \E i \in DOMAIN Dirs : InForce(i) /\ files[Dirs[i]].has[k] = "bad"
<1>1. TypeOK /\ [Next]_vars =>
        (agent = "down" /\ agent' = "panicked" =>
           FileBroken \/ \E k \in Typed \cup Validated : Bad(k))
  <2> SUFFICES ASSUME TypeOK, [Next]_vars, agent = "down", agent' = "panicked"
               PROVE  FileBroken \/ \E k \in Typed \cup Validated : Bad(k)
    OBVIOUS
  <2>1. Start
    <3>1. ~ UNCHANGED vars /\ ~Stop
      BY DEF vars, Stop
    <3>2. ~ \E d \in Places :
             Spoil(d) \/ \E k \in Keys, v \in Values : WriteKey(d, k, v)
      BY DEF Spoil, WriteKey, Edit
    <3>3. ~ \E x \in Variables, v \in Values \cup {""} : SetEnv(x, v)
      BY DEF SetEnv, Edit
    <3> QED
      BY <3>1, <3>2, <3>3 DEF Next
  <2>2. ReadFails \/ DecodeFails \/ Invalid
    BY <2>1 DEF Start
  <2>3. ASSUME ReadFails PROVE FileBroken
    <3>1. Found # NoFile
      BY <2>3 DEF ReadFails, NoFile
    <3> QED
      BY <2>3, <3>1, FoundIsFirst DEF ReadFails
  <2>4. ASSUME NEW k \in Typed \cup Validated, Decoded[k] = "bad" PROVE Bad(k)
    <3>1. k \in Keys /\ Long(k) \in Variables
      BY KeysAssumption DEF Variables
    <3>2. Lookup(k) = "bad"
      BY <2>4, <3>1 DEF Decoded
    <3>3. \A x : IsSet(x) <=> ~Empty(x)
      BY DEF IsSet, Empty
    <3>4. CASE Found.has[k] = "bad" /\ Empty(Long(k)) /\ Empty(Short(k))
      <4>1. Found # NoFile
        BY <3>1, <3>4, KeysAssumption DEF NoFile, Values
      <4> QED
        BY <3>4, <4>1, FoundIsFirst
    <3> QED
      BY <3>2, <3>3, <3>4 DEF Lookup
  <2> QED
    BY <2>2, <2>3, <2>4 DEF DecodeFails, Invalid
<1> QED
  BY <1>1, ConfigurationTyped, PTL DEF Spec, PanicsForCause
=============================================================================
