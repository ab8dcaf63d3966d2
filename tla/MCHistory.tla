----------------------------- MODULE MCHistory -----------------------------
(* A small instance of HistoryStore, whose servers and names are alike.    *)
EXTENDS HistoryStore, TLC

CONSTANTS host, clone, app, web

Symmetry == Permutations({host, clone}) \cup Permutations({app, web})
=============================================================================
