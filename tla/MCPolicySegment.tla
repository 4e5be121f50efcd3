-------------------------- MODULE MCPolicySegment --------------------------
(* Small instances of PolicySegment: two IPv4 subnets and an IPv6 one. *)
EXTENDS PolicySegment, TLC

CONSTANTS s1, s2, s3

MCVer == s1 :> 4 @@ s2 :> 4 @@ s3 :> 6
Symmetry == Permutations(Threads) \cup Permutations(Routers) \cup Permutations({s1, s2})
=============================================================================
