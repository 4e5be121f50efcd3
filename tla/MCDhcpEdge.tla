----------------------------- MODULE MCDhcpEdge -----------------------------
(* Small instances of DhcpEdge for TLC: a network with two subnets, and one*)
(* whose only subnet overlaps the second of them.                          *)
EXTENDS DhcpEdge, TLC

CONSTANTS n1, n2, s1, s2, s3

MCNetOf == s1 :> n1 @@ s2 :> n1 @@ s3 :> n2
Symmetry == Permutations(Threads) \cup Permutations(Edges) \cup Permutations(Slots)
=============================================================================
