---------------------------- MODULE MCDeadlines ----------------------------
(* Deadlines for TLC: calls and databases are interchangeable. *)
EXTENDS Deadlines, TLC

Symmetry == Permutations(Calls) \cup Permutations(Dbs)
=============================================================================
