---------------------------- MODULE Configuration ----------------------------
(***************************************************************************)
(* The configuration (internal/config/config.go): a file in one of several *)
(* directories, environment variables over it, defaults under it, decoded  *)
(* and validated once when the process starts.  Between two starts         *)
(* somebody edits files and variables.                                     *)
(*                                                                         *)
(* viper is external; what it does with the calls of Load is modelled:     *)
(* the first file found is the only one read; an empty variable counts as  *)
(* not set; Unmarshal asks only for the keys it knows, which are those     *)
(* with a default, those bound by name, and those in the file.             *)
(***************************************************************************)
EXTENDS Integers, Sequences, FiniteSets, FiniteSetsExt

CONSTANTS
  Dirs,       \* the directories of AddConfigPath, in their order
  Keys,       \* the keys of Config
  Defaulted,  \* those given to SetDefault
  Bound,      \* those bound to an AGENT_NOTIF_... variable
  Typed,      \* those of a number or a boolean
  Validated,  \* those validate checks
  MaxEdits,   \* bound: edits of files and variables
  None

\* Two good values of a key, and one that is malformed: of a typed key it
\* cannot be decoded, of a validated one it is refused, of any other it is a
\* value like the others.
Values == {"one", "two", "bad"}

ASSUME KeysAssumption ==
  /\ IsFiniteSet(Keys) /\ None \notin Keys \cup Values
  /\ Dirs \in Seq(STRING)
  /\ Defaulted \subseteq Keys /\ Bound \subseteq Keys /\ Typed \subseteq Keys
  /\ Validated \subseteq Keys
  /\ MaxEdits \in Nat

VARIABLES
  files,  \* files[d]: the config.yaml in directory d
  env,    \* env[x]: the environment variable x
  agent,  \* the process: not started, stopped by MustLoad, or past it
  cfg,    \* cfg[k]: the value in Config, once loaded
  edits

vars == <<files, env, agent, cfg, edits>>

\* A file that is not there, cannot be read or is no YAML; or the keys in it.
File == [state : {"absent", "broken", "ok"}, has : [Keys -> Values \cup {None}]]

NoFile == [state |-> "absent", has |-> [k \in Keys |-> None]]

\* The directories of the search path, which may each have a file.
Places == {Dirs[i] : i \in DOMAIN Dirs}

\* AGENT_ and the key, and the short forms.
Long(k) == <<"AGENT_", k>>
Short(k) == <<"AGENT_NOTIF_", k>>
Variables == {Long(k) : k \in Keys} \cup {Short(k) : k \in Bound}

Init ==
  /\ files = [d \in Places |-> NoFile]
  /\ env = [x \in Variables |-> None]
  /\ agent = "down"
  /\ cfg = [k \in Keys |-> "zero"]
  /\ edits = 0

----------------------------------------------------------------------------
(* Load.                                                                   *)

\* The first directory with a file, if there is one.
Present == {i \in DOMAIN Dirs : files[Dirs[i]].state # "absent"}
Found == IF Present = {} THEN NoFile ELSE files[Dirs[Min(Present)]]

\* Mutant: AllowEmptyEnv.
IsDefined(x) == x \in Variables /\ env[x] # None

IsSet(x) == x \in Variables /\ env[x] \notin {None, ""}

\* viper.Get: AutomaticEnv, BindEnv, the file, the default, in this order.
Lookup(k) ==
  CASE IsSet(Long(k)) -> env[Long(k)]
    [] ~IsSet(Long(k)) /\ IsSet(Short(k)) -> env[Short(k)]
    [] ~IsSet(Long(k)) /\ ~IsSet(Short(k)) /\ Found.has[k] # None -> Found.has[k]
    [] OTHER -> IF k \in Defaulted THEN "default" ELSE "zero"

\* AllKeys.
Known == Defaulted \cup Bound \cup {k \in Keys : Found.has[k] # None}

\* Unmarshal: what is not known keeps Go's zero value.
Decoded == [k \in Keys |-> IF k \in Known THEN Lookup(k) ELSE "zero"]

\* Mutant: whatever ReadInConfig returns is taken for "not found".
ReadIgnored == FALSE

\* Mutant: a file further down the path is read too.
AnyReadFails == \E i \in Present : files[Dirs[i]].state = "broken"

\* ReadInConfig returns an error that is not ConfigFileNotFoundError.
ReadFails == Found.state = "broken"

DecodeFails == \E k \in Typed : Decoded[k] = "bad"

\* validate.
Invalid == \E k \in Validated : Decoded[k] = "bad"

\* main begins: MustLoad panics or main has its Config.
Start ==
  /\ agent = "down"
  /\ IF ReadFails \/ DecodeFails \/ Invalid
       THEN agent' = "panicked" /\ UNCHANGED cfg
       ELSE agent' = "running" /\ cfg' = Decoded
  /\ UNCHANGED <<files, env, edits>>

\* The process ends, and is started again some time.
Stop ==
  /\ agent \in {"panicked", "running"}
  /\ agent' = "down"
  /\ cfg' = [k \in Keys |-> "zero"]
  /\ UNCHANGED <<files, env, edits>>

----------------------------------------------------------------------------
(* Whoever configures the agent.                                           *)

Edit ==
  /\ edits < MaxEdits
  /\ edits' = edits + 1
  /\ UNCHANGED <<agent, cfg>>

WriteKey(d, k, v) ==
  /\ Edit /\ files[d].state # "broken"
  /\ files' = [files EXCEPT ![d].state = "ok", ![d].has[k] = v]
  /\ UNCHANGED env

Spoil(d) ==
  /\ Edit /\ files[d].state # "broken"
  /\ files' = [files EXCEPT ![d] = [NoFile EXCEPT !.state = "broken"]]
  /\ UNCHANGED env

SetEnv(x, v) ==
  /\ Edit /\ env[x] # v
  /\ env' = [env EXCEPT ![x] = v]
  /\ UNCHANGED files

Next ==
  \/ Start \/ Stop
  \/ \E d \in Places :
       Spoil(d) \/ \E k \in Keys, v \in Values : WriteKey(d, k, v)
  \/ \E x \in Variables, v \in Values \cup {""} : SetEnv(x, v)

Spec == Init /\ [][Next]_vars

----------------------------------------------------------------------------
(* Properties.                                                             *)

TypeOK ==
  /\ files \in [Places -> File]
  /\ env \in [Variables -> Values \cup {None, ""}]
  /\ agent \in {"down", "panicked", "running"}
  /\ cfg \in [Keys -> Values \cup {"default", "zero"}]
  /\ edits \in 0..MaxEdits

\* A step in which Load succeeds.
Loads == agent = "down" /\ agent' = "running"

\* The file of the i-th directory is the first there is.
InForce(i) ==
  /\ files[Dirs[i]].state # "absent"
  /\ \A j \in 1..(i - 1) : files[Dirs[j]].state = "absent"

Empty(x) == x \in Variables => env[x] \in {None, ""}

\* The agent never runs beside a file it has not understood: if one of the
\* directories has a file, the first one is well-formed and each of its keys
\* (the excluded containers, say) is in force, unless a variable that is not
\* empty overrides it.  In particular a blank AGENT_... line of a .env file
\* takes nothing away.
NoFileIsIgnored ==
  [][Loads =>
       \A i \in DOMAIN Dirs :
         InForce(i) =>
           /\ files[Dirs[i]].state = "ok"
           /\ \A k \in Keys :
                files[Dirs[i]].has[k] # None /\ Empty(Long(k)) /\ Empty(Short(k)) =>
                  cfg'[k] = files[Dirs[i]].has[k]]_vars

\* The process only panics for a cause that is in force: a file that is not
\* found first, and a bad value that is overridden, keep nobody from starting.
PanicsForCause ==
  [][agent = "down" /\ agent' = "panicked" =>
       \/ \E i \in DOMAIN Dirs : InForce(i) /\ files[Dirs[i]].state = "broken"
       \/ \E k \in Typed \cup Validated :
            \/ env[Long(k)] = "bad"
            \/ Empty(Long(k)) /\ ~Empty(Short(k)) /\ env[Short(k)] = "bad"
            \/ /\ Empty(Long(k)) /\ Empty(Short(k))
               /\ \E i \in DOMAIN Dirs : InForce(i) /\ files[Dirs[i]].has[k] = "bad"]_vars

----------------------------------------------------------------------------
(* What the documentation says and the code does not guarantee.            *)

\* README.md: "All settings can be overridden via environment variables with
\* the `AGENT_` prefix."
EverySettingFromEnv ==
  [][Loads => \A k \in Keys : ~Empty(Long(k)) => cfg'[k] = env[Long(k)]]_vars

=============================================================================
