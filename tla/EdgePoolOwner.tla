--------------------------- MODULE EdgePoolOwner ---------------------------
(* EdgePool implements EdgeOwner without sharing. *)
EXTENDS EdgePool

\* A router uses the edge that its row names.
UsersOf(e) == {r \in Routers : binding[r].edge = e}

Owner == INSTANCE EdgeOwner WITH
           Users <- Routers, Sharing <- FALSE,
           exists <- backend, users <- [e \in Edges |-> UsersOf(e)]

\* Every step of the pool, of the workers and of the housekeeper is a step of the
\* abstract owner: a router gets an edge nobody uses, gives it up before the next one,
\* and no edge is deleted under it (edge_utils.py, edge_appliance_driver.py).
ImplementsOwner == Owner!Spec
=============================================================================
