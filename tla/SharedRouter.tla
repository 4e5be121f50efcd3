---------------------------- MODULE SharedRouter ----------------------------
(***************************************************************************)
(* Shared routers of the NSX-V plugin: routers whose networks and gateways *)
(* do not conflict run on one edge; a change of an interface, of the       *)
(* gateway or of the type moves a router to another edge.  The requests    *)
(* run in API threads and nest the locks of the router, of the edge,       *)
(* 'nsx-shared-router-pool' and 'nsx-edge-router' in different orders.     *)
(*                                                                         *)
(* Allocation and collection of edges are those of EdgeOwner.  A network   *)
(* has one subnet; tenants share edges (share_edges_between_tenants) and   *)
(* addresses may overlap (allow_overlapping_ips).  The calls to the        *)
(* backend succeed: VcnsApiException, and the rollback that                *)
(* plugin.add_router_interface tries after it, are left out.  The driver's *)
(* own exceptions are not.                                                 *)
(***************************************************************************)
EXTENDS Naturals, FiniteSets

CONSTANTS
  Threads, Routers, Edges,
  Nets, ExtNets,     \* internal and external networks
  Overlap,           \* pairs of networks with overlapping subnets
  MaxNets,           \* vnics of an edge for internal networks
  NoThread, NoRouter, NoEdge, NoNet,
  Wanted,            \* {router, network}: bounds what the users connect
  MayDeleteBound     \* a router may be deleted while it is bound to an edge

ASSUME SharedAssumption ==
  /\ NoThread \notin Threads /\ NoRouter \notin Routers /\ NoEdge \notin Edges
  /\ NoNet \notin Nets \cup ExtNets /\ Nets \cap ExtNets = {}
  /\ Overlap \subseteq SUBSET (Nets \cup ExtNets)
  /\ MaxNets \in Nat /\ MayDeleteBound \in BOOLEAN
  \* Ids and the names of the locks differ.
  /\ Routers \cap (Edges \cup {NoEdge, "shared-router-pool", "edge-router"}) = {}
  /\ (Edges \cup {NoEdge}) \cap {"shared-router-pool", "edge-router"} = {}

VARIABLES
  rtype,   \* "shared", of another type (and edge), or "deleted"
  gw,      \* the external network of each router
  nets,    \* the networks its interface ports are on
  edgeOf,  \* the router binding
  free,    \* edges that are nobody's: pooled or not deployed
  vnic,    \* nsxv_edge_vnic_bindings: the networks of each edge
  svc,     \* routers whose NAT and firewall rules are configured on each edge
  lock,    \* holder of each named lock
  th,      \* the request of each thread
  spoilt   \* history: edges that an exception left with a port that is on no interface

dbVars == <<rtype, gw, nets>>
vars   == <<dbVars, edgeOf, free, vnic, svc, lock, th, spoilt>>

LockNames == Routers \cup Edges \cup {"shared-router-pool", "edge-router"}
Idle == [pc |-> "idle", op |-> "none", r |-> NoRouter, net |-> NoNet, edge |-> NoEdge, rs |-> {}]

-----------------------------------------------------------------------------
(* Conflicts between routers and networks                                  *)

Clash(ms, ns) == \E m \in ms, n \in ns : m = n \/ {m, n} \in Overlap
GwOf(r) == {gw[r]} \ {NoNet}
OnEdge(e) == {r \in Routers : edgeOf[r] = e /\ rtype[r] # "deleted"}
SameEdge(r) == IF edgeOf[r] = NoEdge THEN {} ELSE OnEdge(edgeOf[r])
ExtOf(rs) == UNION {GwOf(r) : r \in rs}

\* Different gateways.
GwConflict(r, q) == GwOf(r) # {} /\ GwOf(q) # {} /\ gw[r] # gw[q]
\* _get_available_and_conflicting_ids: different gateways, or overlapping subnets.
Conflict(r, q) == \/ GwConflict(r, q)
                  \/ Clash(nets[r] \cup GwOf(r), nets[q])
Available(r) == {q \in Routers \ {r} : rtype[q] = "shared" /\ ~Conflict(r, q)}
\* ... and the routers with a port on one of the networks.
ConflictRouters(r) == {q \in Routers \ {r} : \/ rtype[q] = "shared" /\ Conflict(r, q)
                                             \/ nets[r] \cap nets[q] # {}}
\* Networks whose subnets overlap some others.
Overlapping(ns) == {m \in (Nets \cup ExtNets) \ ns : Clash({m}, ns)}

\* is_router_conflict_on_edge
ConflictOnEdge(r, routers, networks, number) ==
  \/ SameEdge(r) \cap routers # {}
  \/ Cardinality(vnic[edgeOf[r]]) + number > MaxNets
  \/ vnic[edgeOf[r]] \cap networks # {}

\* bind_router_on_available_edge: edges of available routers with room for all networks,
\* those with most room first.
Fits(r) ==
  LET shared == {edgeOf[q] : q \in Available(r)} \ ({edgeOf[q] : q \in ConflictRouters(r)} \cup {NoEdge})
  IN {e \in shared : /\ Cardinality(vnic[e]) < MaxNets
                     /\ Cardinality(vnic[e]) + Cardinality(nets[r]) <= MaxNets
                     /\ vnic[e] \cap (Overlapping(nets[r]) \cup Overlapping(GwOf(r))) = {}}
Roomiest(es) == {e \in es : \A f \in es : Cardinality(vnic[e]) <= Cardinality(vnic[f])}

-----------------------------------------------------------------------------
(* Locks and the steps that several requests share                         *)

Can(l) == lock[l] = NoThread
Hold(t, l) == lock' = [lock EXCEPT ![l] = t]
Drop(t, names) == lock' = [l \in LockNames |-> IF l \in names /\ lock[l] = t THEN NoThread ELSE lock[l]]
Goto(t, label) == th' = [th EXCEPT ![t].pc = label]
Done(t) == Drop(t, LockNames) /\ th' = [th EXCEPT ![t] = Idle]
Begin(t, op, r, net, label) ==
  /\ th[t] = Idle
  /\ th' = [th EXCEPT ![t] = [pc |-> label, op |-> op, r |-> r, net |-> net,
                              edge |-> edgeOf[r], rs |-> SameEdge(r)]]

Push(e, rs) == svc' = [svc EXCEPT ![e] = rs]
\* _update_external_interface_on_routers raises for several external networks.
Raises(rs) == Cardinality(ExtOf(rs)) > 1
\* _remove_router_services_on_edge: refresh for the others, which may raise when the
\* external interface is reached, then delete the interfaces of the networks ns.
RemoveServices(r, e, ns) ==
  /\ Push(e, OnEdge(e) \ {r})
  /\ vnic' = IF Raises(OnEdge(e) \ {r}) THEN vnic ELSE [vnic EXCEPT ![e] = @ \ ns]
\* Mutant: the edge is given back whoever else is on it.
UnbindAlways(r) ==
  /\ edgeOf' = [edgeOf EXCEPT ![r] = NoEdge]
  /\ free' = free \cup {edgeOf[r]}
\* Mutant: the row of a router that is not the last one stays.
UnbindLast(r) ==
  IF SameEdge(r) = {r} THEN /\ edgeOf' = [edgeOf EXCEPT ![r] = NoEdge]
                            /\ free' = free \cup {edgeOf[r]}
                       ELSE UNCHANGED <<edgeOf, free>>
\* unbind_router_on_edge: the last router gives the edge back.
Unbind(r) ==
  /\ edgeOf' = [edgeOf EXCEPT ![r] = NoEdge]
  /\ free' = IF SameEdge(r) = {r} THEN free \cup {edgeOf[r]} ELSE free

-----------------------------------------------------------------------------
(* _bind_router_on_available_edge, _add_router_services_on_available_edge   *)

BindPool(t) ==
  /\ th[t].pc = "bindPool" /\ Can("shared-router-pool")
  /\ Hold(t, "shared-router-pool") /\ Goto(t, "bindEdge")
  /\ UNCHANGED <<dbVars, edgeOf, free, vnic, svc>>
BindShared(t) ==
  /\ th[t].pc = "bindEdge" /\ Can("edge-router")
  /\ \E e \in Roomiest(Fits(th[t].r)) : edgeOf' = [edgeOf EXCEPT ![th[t].r] = e]
  /\ Goto(t, "bindIntf")
  /\ UNCHANGED <<dbVars, free, vnic, svc, lock>>
\* _allocate_edge_appliance: the row first, then, under the lock of the edge, the
\* configuration of the appliance, which starts with the rows of no network.
BindNew(t) ==
  /\ th[t].pc = "bindEdge" /\ Can("edge-router") /\ Fits(th[t].r) = {}
  /\ \E e \in free : /\ edgeOf' = [edgeOf EXCEPT ![th[t].r] = e]
                     /\ free' = free \ {e} /\ spoilt' = spoilt \ {e}
                     /\ vnic' = [vnic EXCEPT ![e] = {}]
  /\ Hold(t, "edge-router") /\ Goto(t, "bindNew")
  /\ UNCHANGED <<dbVars, svc>>
BindNewDone(t) ==
  /\ th[t].pc = "bindNew" /\ Can(edgeOf[th[t].r])
  /\ Drop(t, {"edge-router"}) /\ Goto(t, "bindIntf")
  /\ UNCHANGED <<dbVars, edgeOf, free, vnic, svc>>
\* Mutant: the edge gets no interfaces.
BindBare(t) ==
  /\ th[t].pc = "bindIntf" /\ Can(edgeOf[th[t].r])
  /\ Drop(t, {"shared-router-pool"}) /\ Goto(t, "services")
  /\ UNCHANGED <<dbVars, edgeOf, free, vnic, svc>>
BindInterfaces(t) ==
  LET e == edgeOf[th[t].r] IN
  /\ th[t].pc = "bindIntf" /\ Can(e)
  /\ vnic' = [vnic EXCEPT ![e] = @ \cup nets[th[t].r]]
  /\ Drop(t, {"shared-router-pool"}) /\ Goto(t, "services")
  /\ UNCHANGED <<dbVars, edgeOf, free, svc>>
\* Several external networks on one edge: the exception ends the request.
AddServices(t) ==
  LET e == edgeOf[th[t].r] IN
  /\ th[t].pc = "services" /\ Can(e)
  /\ IF Raises(OnEdge(e)) THEN UNCHANGED svc ELSE Push(e, OnEdge(e))
  /\ Done(t)
  /\ UNCHANGED <<dbVars, edgeOf, free, vnic>>
Binding(t) == \/ BindNew(t)
              \/ /\ BindPool(t) \/ BindShared(t) \/ BindNewDone(t) \/ BindInterfaces(t)
                    \/ AddServices(t)
                 /\ UNCHANGED spoilt

-----------------------------------------------------------------------------
(* add_router_interface: the locks of the router, the pool and the edge.   *)

\* The plugin picks the driver by the type of the router; the driver takes the lock.
Choose(t, op, r, n, label) ==
  /\ th[t] = Idle /\ rtype[r] = "shared"
  /\ th' = [th EXCEPT ![t] = [Idle EXCEPT !.pc = label, !.op = op, !.r = r, !.net = n]]
  /\ UNCHANGED <<dbVars, edgeOf, free, vnic, svc, lock>>
Enter(t, chosen, label) ==
  LET r == th[t].r IN
  /\ th[t].pc = chosen /\ Can(r) /\ rtype[r] = "shared"
  /\ Hold(t, r) /\ th' = [th EXCEPT ![t].pc = label, ![t].edge = edgeOf[r]]
  /\ UNCHANGED <<dbVars, edgeOf, free, vnic, svc>>
StartAdd(t, r, n) == {r, n} \in Wanted /\ n \notin nets[r] /\ Choose(t, "add", r, n, "addLock")
EnterAdd(t) == Enter(t, "addLock", "addPool")
AddPort(t) ==
  LET r == th[t].r IN
  /\ th[t].pc = "addPool" /\ Can("shared-router-pool") /\ th[t].net \notin nets[r]
  /\ nets' = [nets EXCEPT ![r] = @ \cup {th[t].net}]
  /\ IF th[t].edge = NoEdge
     THEN Goto(t, "bindPool") /\ UNCHANGED lock
     ELSE Goto(t, "addEdge") /\ Hold(t, "shared-router-pool")
  /\ UNCHANGED <<rtype, gw, edgeOf, free, vnic, svc>>
\* Mutant: the router stays where it is.
AddStays(t) == FALSE
AddMustMove(t) ==
  LET r == th[t].r IN ConflictOnEdge(r, ConflictRouters(r), Overlapping(nets[r]), 1)
AddHere(t) ==
  /\ th[t].pc = "addEdge" /\ Can(th[t].edge) /\ Can("edge-router") /\ ~AddMustMove(t)
  /\ vnic' = [vnic EXCEPT ![th[t].edge] = @ \cup {th[t].net}]
  /\ Push(th[t].edge, SameEdge(th[t].r))
  /\ Done(t)
  /\ UNCHANGED <<dbVars, edgeOf, free>>
AddMove(t) ==
  /\ th[t].pc = "addEdge" /\ Can(th[t].edge) /\ Can("edge-router") /\ AddMustMove(t)
  /\ Goto(t, "addMove")
  /\ UNCHANGED <<dbVars, edgeOf, free, vnic, svc, lock>>
\* Mutant: the pool's lock is kept for the search of the next edge.
AddLeaveLocked(t) ==
  LET r == th[t].r  e == th[t].edge IN
  /\ th[t].pc = "addMove" /\ Can(e) /\ Can("edge-router")
  /\ ~Raises(OnEdge(e) \ {r})
  /\ RemoveServices(r, e, nets[r] \ {th[t].net})
  /\ Unbind(r)
  /\ Goto(t, "bindPool")
  /\ UNCHANGED <<dbVars, lock>>
\* The interface that was just added is on no edge yet.
AddLeave(t) ==
  LET r == th[t].r  e == th[t].edge IN
  /\ th[t].pc = "addMove" /\ Can(e) /\ Can("edge-router")
  /\ ~Raises(OnEdge(e) \ {r})
  /\ RemoveServices(r, e, nets[r] \ {th[t].net})
  /\ Unbind(r)
  /\ Drop(t, {"shared-router-pool"}) /\ Goto(t, "bindPool")
  /\ UNCHANGED dbVars
\* The exception leaves the router on the edge, with a port that is on none of its interfaces.
AddStuck(t) ==
  LET r == th[t].r  e == th[t].edge IN
  /\ th[t].pc = "addMove" /\ Can(e) /\ Can("edge-router")
  /\ Raises(OnEdge(e) \ {r})
  /\ RemoveServices(r, e, nets[r] \ {th[t].net})
  /\ Done(t) /\ spoilt' = spoilt \cup {e}
  /\ UNCHANGED <<dbVars, edgeOf, free>>
Adding(t) == \/ AddStuck(t)
             \/ /\ AddPort(t) \/ AddHere(t) \/ AddMove(t) \/ AddLeave(t)
                /\ UNCHANGED spoilt

(* remove_router_interface: the last interface unbinds the router.         *)

StartRemove(t, r, n) == n \in nets[r] /\ Choose(t, "remove", r, n, "removeLock")
EnterRemove(t) == Enter(t, "removeLock", "removePool")
RemovePort(t) ==
  /\ th[t].pc = "removePool" /\ Can("shared-router-pool") /\ th[t].net \in nets[th[t].r]
  /\ nets' = [nets EXCEPT ![th[t].r] = @ \ {th[t].net}]
  /\ Hold(t, "shared-router-pool") /\ Goto(t, "removeEdge")
  /\ UNCHANGED <<rtype, gw, edgeOf, free, vnic, svc>>
RemoveInterface(t) ==
  LET r == th[t].r  e == th[t].edge  last == nets[th[t].r] = {} IN
  /\ th[t].pc = "removeEdge" /\ Can(e) /\ Can("edge-router")
  /\ vnic' = [vnic EXCEPT ![e] = @ \ {th[t].net}]
  /\ Push(e, IF last THEN OnEdge(e) \ {r} ELSE OnEdge(e))
  /\ IF last /\ ~Raises(OnEdge(e) \ {r}) THEN Unbind(r) ELSE UNCHANGED <<edgeOf, free>>
  /\ Done(t)
  /\ UNCHANGED dbVars
Removing(t) == (RemovePort(t) \/ RemoveInterface(t)) /\ UNCHANGED spoilt

-----------------------------------------------------------------------------
(* A request about an interface gets the lock of its router; another one   *)
(* may have been there before it.                                          *)

\* The type was changed: the port is written (to a router that is on an edge of its own,
\* which is not modelled), but _get_available_and_conflicting_ids finds no such shared router.
OtherType(t) ==
  LET r == th[t].r IN
  /\ th[t].pc \in {"addLock", "removeLock"} /\ Can(r) /\ Can("shared-router-pool")
  /\ rtype[r] = "other"
  /\ nets' = [nets EXCEPT ![r] = IF th[t].op = "add" THEN @ \cup {th[t].net} ELSE @ \ {th[t].net}]
  /\ Done(t)
  /\ UNCHANGED <<rtype, gw, edgeOf, free, vnic, svc>>
\* The port was added or removed by the other request.
Refused(t) ==
  /\ th[t].pc \in {"addPool", "removePool"} /\ Can("shared-router-pool")
  /\ (th[t].op = "add") <=> (th[t].net \in nets[th[t].r])
  /\ Done(t)
  /\ UNCHANGED <<dbVars, edgeOf, free, vnic, svc>>
Entering(t) == (EnterAdd(t) \/ EnterRemove(t) \/ OtherType(t)) /\ UNCHANGED spoilt
Refusing(t) == Refused(t) /\ UNCHANGED spoilt

-----------------------------------------------------------------------------
(* update_router: the type (detach_router, attach_router) and the gateway. *)

\* The lock of the edge first, and 'nsx-shared-router-pool' under it; the exception ends the
\* request, and the router stays.
LeaveEdge(t) ==
  LET r == th[t].r  e == th[t].edge IN
  /\ RemoveServices(r, e, nets[r])
  /\ IF Raises(OnEdge(e) \ {r}) THEN Done(t) ELSE Hold(t, e) /\ Goto(t, "leavePool")
  /\ UNCHANGED <<dbVars, edgeOf, free>>
LeavePool(t) ==
  /\ th[t].pc = "leavePool" /\ Can("shared-router-pool") /\ Can("edge-router")
  /\ Unbind(th[t].r)
  /\ IF th[t].op = "detach"
     THEN Done(t) /\ rtype' = [rtype EXCEPT ![th[t].r] = "other"]
     ELSE Drop(t, Edges) /\ Goto(t, "bindPool") /\ UNCHANGED rtype
  /\ UNCHANGED <<gw, nets, vnic, svc>>

StartDetach(t, r) ==
  /\ rtype[r] = "shared" /\ edgeOf[r] # NoEdge /\ Can(r)
  /\ Hold(t, r) /\ Begin(t, "detach", r, NoNet, "detach")
  /\ UNCHANGED <<dbVars, edgeOf, free, vnic, svc>>
Detach(t) == th[t].pc = "detach" /\ Can(th[t].edge) /\ LeaveEdge(t)
StartAttach(t, r) ==
  /\ rtype[r] = "other" /\ Can(r)
  /\ rtype' = [rtype EXCEPT ![r] = "shared"]
  /\ Hold(t, r) /\ Begin(t, "attach", r, NoNet, "bindPool")
  /\ UNCHANGED <<gw, nets, edgeOf, free, vnic, svc>>

\* _update_router_gw_info reads the routers on the edge before it changes the gateway
\* in the database and before it waits for the lock of the edge.
GwRouters(t) == th[t].rs
StartGateway(t, r, g) ==
  /\ rtype[r] = "shared" /\ g # gw[r] /\ {r, g} \in Wanted \cup {{r, NoNet}} /\ Can(r)
  /\ Hold(t, r) /\ Begin(t, "gateway", r, g, "gwDb")
  /\ UNCHANGED <<dbVars, edgeOf, free, vnic, svc>>
GwDb(t) ==
  /\ th[t].pc = "gwDb"
  /\ gw' = [gw EXCEPT ![th[t].r] = th[t].net]
  /\ IF th[t].edge = NoEdge THEN Done(t) ELSE Goto(t, "gwEdge") /\ UNCHANGED lock
  /\ UNCHANGED <<rtype, nets, edgeOf, free, vnic, svc>>
GwMustMove(t) ==
  LET r == th[t].r IN
  \/ th[t].net # NoNet /\ ConflictOnEdge(r, {}, Overlapping(GwOf(r)), 0)
  \/ Raises(GwRouters(t))
GwHere(t) ==
  /\ th[t].pc = "gwEdge" /\ Can(th[t].edge) /\ Can("edge-router") /\ ~GwMustMove(t)
  /\ Push(th[t].edge, GwRouters(t))
  /\ Done(t)
  /\ UNCHANGED <<dbVars, edgeOf, free, vnic>>
GwMove(t) ==
  /\ th[t].pc = "gwEdge" /\ Can(th[t].edge) /\ Can("edge-router") /\ GwMustMove(t)
  /\ LeaveEdge(t)
Updating(t) == /\ Detach(t) \/ GwDb(t) \/ GwHere(t) \/ GwMove(t) \/ LeavePool(t)
               /\ UNCHANGED spoilt

-----------------------------------------------------------------------------
(* Floating IPs and deletion do not take the lock of the router.           *)

StartFloating(t, r) ==
  /\ rtype[r] = "shared" /\ edgeOf[r] # NoEdge
  /\ Begin(t, "floating", r, NoNet, "fipEdge")
  /\ UNCHANGED <<dbVars, edgeOf, free, vnic, svc, lock>>
\* _update_edge_router: under the lock of the edge the router was on.
FipEdge(t) ==
  LET rs == SameEdge(th[t].r) IN
  /\ th[t].pc = "fipEdge" /\ Can(th[t].edge)
  /\ IF Raises(rs) \/ rs = {}
     THEN Done(t)
     ELSE /\ Hold(t, th[t].edge)
          /\ th' = [th EXCEPT ![t].pc = "fipPush", ![t].rs = rs]
  /\ UNCHANGED <<dbVars, edgeOf, free, vnic, svc>>
FipPush(t) ==
  /\ th[t].pc = "fipPush"
  /\ IF edgeOf[th[t].r] = NoEdge THEN UNCHANGED svc ELSE Push(edgeOf[th[t].r], th[t].rs)
  /\ Done(t)
  /\ UNCHANGED <<dbVars, edgeOf, free, vnic>>
Floating(t) == (FipEdge(t) \/ FipPush(t)) /\ UNCHANGED spoilt

\* delete_router of a router without ports: the row goes, the edge is not asked about.
\* Users delete a router that no other request is at work on.
DeleteRouter(r) ==
  /\ rtype[r] = "shared" /\ nets[r] = {} /\ \A t \in Threads : th[t].r # r
  /\ edgeOf[r] # NoEdge => MayDeleteBound
  /\ rtype' = [rtype EXCEPT ![r] = "deleted"]
  /\ gw' = [gw EXCEPT ![r] = NoNet]
  /\ edgeOf' = [edgeOf EXCEPT ![r] = NoEdge]
  /\ UNCHANGED <<nets, free, vnic, svc, lock, th, spoilt>>

-----------------------------------------------------------------------------
Init ==
  /\ rtype \in [Routers -> {"shared", "other"}]
  /\ gw = [r \in Routers |-> NoNet] /\ nets = [r \in Routers |-> {}]
  /\ edgeOf = [r \in Routers |-> NoEdge] /\ free = Edges
  /\ vnic = [e \in Edges |-> {}] /\ svc = [e \in Edges |-> {}]
  /\ lock = [l \in LockNames |-> NoThread]
  /\ th = [t \in Threads |-> Idle] /\ spoilt = {}

Start(t, r) == /\ \/ \E n \in Nets : StartAdd(t, r, n) \/ StartRemove(t, r, n)
                  \/ \E g \in ExtNets \cup {NoNet} : StartGateway(t, r, g)
                  \/ StartDetach(t, r) \/ StartAttach(t, r) \/ StartFloating(t, r)
               /\ UNCHANGED spoilt
Work(t) == \/ Entering(t) \/ Refusing(t) \/ Adding(t) \/ Removing(t) \/ Binding(t)
           \/ Updating(t) \/ Floating(t)
Next == \/ \E t \in Threads : Work(t)
        \/ \E t \in Threads, r \in Routers : Start(t, r)
        \/ \E r \in Routers : DeleteRouter(r)

Spec == Init /\ [][Next]_vars

-----------------------------------------------------------------------------
(* Correctness                                                             *)

\* "if it is the last shared router on this edge - add it to the pool": an edge is out of
\* the pool exactly as long as some router is bound to it.
NoLeakedEdge == free = {e \in Edges : \A r \in Routers : edgeOf[r] # e}

\* "The routers with overlapping interface will be conflict": two routers share an edge
\* with overlapping networks only while the request that adds one of them is deciding,
\* under 'nsx-shared-router-pool', to move its router, or where the exception of
\* _update_external_interface_on_routers has ended that request in the middle (AddStuck).
NetworksApart ==
  \A r, q \in Routers :
    r # q /\ edgeOf[r] \notin {NoEdge} \cup spoilt /\ edgeOf[r] = edgeOf[q] /\ Clash(nets[r], nets[q])
      => \E t \in Threads : th[t].r \in {r, q} /\ th[t].pc \in {"addEdge", "addMove"}

\* The edge of a router that no request is at work on has an interface on each of its
\* networks, and an edge has no interface that belongs to no router: on every edge but
\* those on which that exception has left a port without its interface.
InterfacesInPlace ==
  /\ \A r \in Routers :
       edgeOf[r] \notin {NoEdge} \cup spoilt /\ Can(r) => nets[r] \subseteq vnic[edgeOf[r]]
  /\ \A e \in Edges \ (free \cup spoilt) :
       (\A r \in OnEdge(e) : Can(r)) => vnic[e] \subseteq UNION {nets[r] : r \in OnEdge(e)}

\* The locks a thread waits for.
Awaited(t) ==
  LET edge == {th[t].edge} \ {NoEdge}  now == {edgeOf[th[t].r]} IN
  CASE th[t].pc \in {"bindPool", "addPool", "removePool", "leavePool"} -> {"shared-router-pool"}
    [] th[t].pc \in {"addLock", "removeLock"} -> {th[t].r}
    [] th[t].pc = "bindEdge" -> {"edge-router"}
    [] th[t].pc \in {"bindNew", "bindIntf", "services"} -> now
    [] th[t].pc \in {"addEdge", "addMove", "removeEdge", "gwEdge"} -> edge \cup {"edge-router"}
    [] th[t].pc \in {"detach", "fipEdge"} -> edge
    [] OTHER -> {}
WaitsFor(t, u) == \E l \in Awaited(t) : lock[l] = u
Deadlocked(ts) == ts # {} /\ \A t \in ts : \E u \in ts : WaitsFor(t, u)

\* The only threads that can block each other for ever are one that waits for
\* 'nsx-shared-router-pool' under the lock of an edge (detach_router, a gateway change) and
\* one that waits for that edge under 'nsx-shared-router-pool'.
DeadlockIsInversion ==
  \A ts \in SUBSET Threads : Deadlocked(ts) => \E t \in ts : th[t].pc = "leavePool"

UsersOf(e) == {r \in Routers : edgeOf[r] = e}
Owner == INSTANCE EdgeOwner WITH
           Users <- Routers, Sharing <- TRUE, exists <- Edges,
           users <- [e \in Edges |-> UsersOf(e)]
\* Routers come to share an edge, and leave it, as EdgeOwner allows: never one that is
\* nobody's without allocating it, never two at once.
ImplementsOwner == Owner!Spec
=============================================================================
