----------------------------- MODULE EdgeOwner -----------------------------
(***************************************************************************)
(* What EdgeManager promises about edge appliances, whatever it does to    *)
(* deploy, pool, share, repair and delete them: a logical router runs on   *)
(* an appliance that exists; it leaves one before it takes another; one    *)
(* that is in use is neither deleted nor given to somebody else, unless    *)
(* routers may share it.  EdgePool and SharedRouter implement this.        *)
(***************************************************************************)
CONSTANTS Edges, Users, Sharing

VARIABLES
  exists,    \* the appliances at the backend
  users      \* the routers bound to each edge

ownerVars == <<exists, users>>

Init == exists \subseteq Edges /\ users = [e \in Edges |-> {}]

Unbound(u) == \A e \in Edges : u \notin users[e]
Set(e, us) == users' = [users EXCEPT ![e] = us]

Deploy(e)   == e \notin exists /\ exists' = exists \cup {e} /\ UNCHANGED users
Destroy(e)  == users[e] = {} /\ exists' = exists \ {e} /\ UNCHANGED users
Take(e, u)  == e \in exists /\ users[e] = {} /\ Unbound(u) /\ Set(e, {u}) /\ UNCHANGED exists
Join(e, u)  == /\ Sharing /\ e \in exists /\ users[e] # {} /\ Unbound(u)
               /\ Set(e, users[e] \cup {u}) /\ UNCHANGED exists
Leave(e, u) == u \in users[e] /\ Set(e, users[e] \ {u}) /\ UNCHANGED exists

Next == \E e \in Edges : \/ Deploy(e) \/ Destroy(e)
                         \/ \E u \in Users : Take(e, u) \/ Join(e, u) \/ Leave(e, u)

Spec == Init /\ [][Next]_ownerVars
=============================================================================
