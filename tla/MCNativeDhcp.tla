---------------------------- MODULE MCNativeDhcp ----------------------------
(* Small instances of NativeDhcp for TLC.                                  *)
EXTENDS NativeDhcp, TLC

Symmetry == Permutations(Threads) \cup Permutations(Subnets) \cup Permutations(Ports) \cup Permutations(Servers)

\* What a request has read and does not look at again tells no states apart.
Read(r) == [r EXCEPT !.seen = IF r.pc = "lock" /\ r.op # "delete" THEN @ ELSE {},
                     !.old = IF r.pc \in {"newLport2", "moveOut"} THEN @ ELSE NoSubnet]
View == <<netVars, subnet, portVars, dhcpVars, bindVars, lock, [t \in Threads |-> Read(th[t])]>>
=============================================================================
