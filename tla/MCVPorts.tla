----------------------------- MODULE MCVPorts -----------------------------
(* Small instances of VPorts for TLC. *)
EXTENDS VPorts, TLC
CONSTANTS t1, t2, p1, p2, d1, d2, i1, i2, k1, k2
Symmetry == Permutations(Threads) \cup Permutations(Ports) \cup Permutations(Devices) \cup Permutations(Ips)
            \cup Permutations(Indices)
=============================================================================
