----------------------------- MODULE MCCleaner -----------------------------
(* Small instances of Cleaner: one log, or that and an excluded one's.     *)
EXTENDS Cleaner, TLC

CONSTANTS app, db          \* the two log files (and container IDs)

MCNameOf == app :> "app" @@ db :> "db-prod"
MCNames == {"app", "db-prod"}
MCExcluded == {"db-prod"}

\* A host with a single container.
OneName == app :> "app"

\* Configurations: the two implemented policies, one that is not, a dry run,
\* and a malformed glob.
In(mode) == [dryRun |-> FALSE, mode |-> mode, badGlob |-> FALSE]
Dry == [In("truncate") EXCEPT !.dryRun = TRUE]
BadGlob == [In("truncate") EXCEPT !.badGlob = TRUE]

TruncateOnly == {In("truncate")}
RealRuns == {In("truncate"), In("delete"), BadGlob}
Several == RealRuns \cup {In("rotate"), Dry}
=============================================================================
