----------------------------- MODULE MCSessions -----------------------------
(* Instances of Sessions for TLC. *)
EXTENDS Sessions, TLC

Perms == Permutations(Readers) \cup Permutations(Conns)
=============================================================================
