---------------------------- MODULE MCReporting ----------------------------
(* Small instances of Reporting: two overlapping pipelines, two containers. *)
EXTENDS Reporting, TLC

CONSTANTS p1, p2, app, web

\* The channels work; or each has its kind of misconfiguration.
Working == [dryRun |-> FALSE, email |-> "on", slack |-> "on", teams |-> "on"]
MCSettings ==
  {Working,
   [dryRun |-> TRUE, email |-> "no theme", slack |-> "no url", teams |-> "on"],
   [dryRun |-> FALSE, email |-> "no host", slack |-> "off", teams |-> "no url"]}

Quiet == {[dryRun |-> FALSE, email |-> "off", slack |-> "off", teams |-> "off"]}

\* The logs of app are over the threshold and those of web are not; or none is.
LargeApp == {{app}}
NoneLarge == {{}}

Symmetry == Permutations({p1, p2})
=============================================================================
