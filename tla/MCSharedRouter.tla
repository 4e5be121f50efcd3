--------------------------- MODULE MCSharedRouter ---------------------------
(* Small instances of SharedRouter for TLC. *)
EXTENDS SharedRouter, TLC

Symmetry == Permutations(Threads) \cup Permutations(Edges)

\* What a later step may still read: not svc, which is only written, nor the part of a
\* request that its remaining steps do not use.
Bind == {"bindPool", "bindEdge", "bindNew", "bindIntf", "services"}
Rest(t) ==
  [th[t] EXCEPT !.rs = IF th[t].pc \in {"gwDb", "gwEdge", "fipPush"} THEN @ ELSE {},
                !.edge = IF th[t].pc \in Bind \cup {"fipPush"} THEN NoEdge ELSE @,
                !.op = IF th[t].pc \in {"addPool", "removePool", "leavePool"} THEN @ ELSE "none",
                !.net = IF th[t].pc \in Bind THEN NoNet ELSE @]
View == <<rtype, gw, nets, edgeOf, free, vnic, lock, [t \in Threads |-> Rest(t)], spoilt>>
=============================================================================
