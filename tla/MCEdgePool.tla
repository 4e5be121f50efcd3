----------------------------- MODULE MCEdgePool -----------------------------
(* Small instances of EdgePool for TLC. *)
EXTENDS EdgePoolProofs, EdgePoolOwner, TLC

PoolSymmetry == Permutations(Backups) \cup Permutations(Edges)
Symmetry == PoolSymmetry \cup Permutations(Routers)
=============================================================================
