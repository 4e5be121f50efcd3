------------------------- MODULE SharedRouterProofs -------------------------
(***************************************************************************)
(* Proofs about SharedRouter, for every number of threads, routers, edges  *)
(* and networks, as long as no router is deleted while it is bound: an     *)
(* edge is free exactly while no router is bound to it; the driver         *)
(* implements EdgeOwner with sharing; overlapping networks share an edge   *)
(* only while a request is about to part them, and the edges have the      *)
(* interfaces of the routers' ports, both except where an exception in the *)
(* middle of add_router_interface has left a port behind; a deadlock takes *)
(* the inversion of detach_router.                                         *)
(*                                                                         *)
(* The argument is that the row of a router is changed by the request that *)
(* holds the lock of the router alone: so it finds the router unbound when *)
(* it binds it, although it has left and taken other locks in between.     *)
(***************************************************************************)
EXTENDS SharedRouter, TLAPS

Labels == {"idle", "bindPool", "bindEdge", "bindNew", "bindIntf", "services", "addPool", "addEdge",
           "addMove", "removePool", "removeEdge", "detach", "leavePool", "gwDb", "gwEdge", "fipEdge",
           "fipPush", "addLock", "removeLock"}
\* A request that has yet to get the lock of its router, or needs none.
Waiting == {"addLock", "removeLock"}
Resting == {"idle", "fipEdge", "fipPush"} \cup Waiting
Ops == {"none", "add", "remove", "detach", "attach", "gateway", "floating"}
Request == [pc : Labels, op : Ops, r : Routers \cup {NoRouter}, net : Nets \cup ExtNets \cup {NoNet},
            edge : Edges \cup {NoEdge}, rs : SUBSET Routers]

Types ==
  /\ rtype \in [Routers -> {"shared", "other", "deleted"}]
  /\ edgeOf \in [Routers -> Edges \cup {NoEdge}] /\ free \subseteq Edges
  /\ lock \in [LockNames -> Threads \cup {NoThread}] /\ th \in [Threads -> Request]

\* A request other than a floating IP's works on its router under the router's lock.
Working(t) == th[t].pc \notin Resting
Locked ==
  \A t \in Threads :
    /\ Working(t) => th[t].r \in Routers /\ lock[th[t].r] = t /\ rtype[th[t].r] = "shared"
    /\ th[t].pc \in Waiting => th[t].r \in Routers

\* A request that is about to bind its router finds it unbound, one that has bound it finds
\* it bound, one that adds a port has read its edge.
ToBind(t) == th[t].pc \in {"bindPool", "bindEdge"}
HasBound(t) == th[t].pc \in {"bindNew", "bindIntf", "services"}
AddsPort(t) == th[t].pc \in {"addPool", "addEdge", "addMove"}
Expected ==
  \A t \in Threads : /\ ToBind(t) => edgeOf[th[t].r] = NoEdge
                     /\ HasBound(t) => edgeOf[th[t].r] # NoEdge
                     /\ AddsPort(t) => th[t].edge = edgeOf[th[t].r]

\* Only shared routers are bound.
BoundShared == \A r \in Routers : rtype[r] # "shared" => edgeOf[r] = NoEdge

IInv == Types /\ Locked /\ Expected /\ BoundShared /\ NoLeakedEdge

-----------------------------------------------------------------------------
(* Steps of a request                                                      *)

\* A step of t takes no lock of a router from another thread.
LockSafe(t) ==
  /\ lock' \in [LockNames -> Threads \cup {NoThread}]
  /\ \A r \in Routers, u \in Threads \ {t} : lock[r] = u => lock'[r] = u
LockKept(t) == LockSafe(t) /\ \A r \in Routers : lock[r] = t => lock'[r] = t

\* A step of t changes the row of the router r at most.
RowsOf(r) ==
  /\ rtype' \in [Routers -> {"shared", "other", "deleted"}]
  /\ edgeOf' \in [Routers -> Edges \cup {NoEdge}] /\ free' \subseteq Edges
  /\ \A q \in Routers \ {r} : rtype'[q] = rtype[q] /\ edgeOf'[q] = edgeOf[q]
  /\ rtype'[r] # "shared" => edgeOf'[r] = NoEdge
Unmoved == UNCHANGED <<rtype, edgeOf, free>>

\* A lock that is taken was free.
LEMMA HoldLocks == ASSUME IInv, NEW t \in Threads, NEW l, Can(l), Hold(t, l), NoThread \notin Threads
                   PROVE  LockKept(t)
  BY DEF IInv, Types, Can, Hold, LockKept, LockSafe, LockNames

\* A thread drops its own locks only.
LEMMA DropLocks == ASSUME IInv, NEW t \in Threads, NEW ls, Drop(t, ls)
                   PROVE  LockSafe(t) /\ (ls \cap Routers = {} => LockKept(t))
  BY DEF IInv, Types, Drop, LockSafe, LockKept, LockNames

\* What the request of t does to its router, the other requests have no part in.
LEMMA Frame ==
  ASSUME IInv, NEW t \in Threads, NEW r \in Routers, lock[r] \notin Threads \ {t}, RowsOf(r), LockSafe(t),
         th' \in [Threads -> Request], \A u \in Threads \ {t} : th'[u] = th[u],
         Working(t)' => th'[t].r \in Routers /\ lock'[th'[t].r] = t /\ rtype'[th'[t].r] = "shared",
         th'[t].pc \notin Waiting,
         ToBind(t)' => edgeOf'[th'[t].r] = NoEdge, HasBound(t)' => edgeOf'[th'[t].r] # NoEdge,
         AddsPort(t)' => th'[t].edge = edgeOf'[th'[t].r],
         NoLeakedEdge'
  PROVE  IInv'
  <1>1. ASSUME NEW u \in Threads \ {t}, Working(u)
        PROVE  th[u].r \in Routers \ {r} /\ lock'[th[u].r] = u
    BY <1>1 DEF IInv, Locked, LockSafe
  <1>2. Types' /\ BoundShared'
    BY DEF IInv, Types, BoundShared, RowsOf, LockSafe
  <1>3. Locked'
    BY <1>1 DEF IInv, Locked, RowsOf, Working
  <1>4. Expected'
    BY <1>1 DEF IInv, Expected, ToBind, HasBound, AddsPort, RowsOf, Working, Resting, Waiting
  <1> QED  BY <1>2, <1>3, <1>4 DEF IInv

\* A request goes on, and its router stays where it is.
LEMMA GoesOn ==
  ASSUME SharedAssumption, IInv, NEW t \in Threads, Working(t), LockKept(t), Unmoved,
         NEW label \in Labels \ Resting, Goto(t, label),
         label \in {"bindPool", "bindEdge"} => edgeOf[th[t].r] = NoEdge,
         label \in {"bindNew", "bindIntf", "services"} => edgeOf[th[t].r] # NoEdge,
         label \in {"addPool", "addEdge", "addMove"} => th[t].edge = edgeOf[th[t].r]
  PROVE  IInv'
  <1>1. th' \in [Threads -> Request] /\ (\A u \in Threads \ {t} : th'[u] = th[u])
        /\ th'[t].pc = label /\ th'[t].r = th[t].r /\ th'[t].edge = th[t].edge
    BY DEF Goto, IInv, Types, Request
  <1>2. th[t].r \in Routers /\ lock[th[t].r] = t /\ rtype[th[t].r] = "shared"
    BY DEF IInv, Locked
  <1>3. RowsOf(th[t].r) /\ NoLeakedEdge'
    BY <1>2 DEF IInv, Types, BoundShared, Unmoved, RowsOf, NoLeakedEdge
  <1> QED  BY <1>1, <1>2, <1>3, Frame DEF LockKept, ToBind, HasBound, AddsPort, Unmoved, Resting

\* A step after which t is at work on no router, and that changes none.
LEMMA Aside ==
  ASSUME IInv, NEW t \in Threads, LockSafe(t), Unmoved, th' \in [Threads -> Request],
         \A u \in Threads \ {t} : th'[u] = th[u], th'[t].pc \in Resting,
         th'[t].pc \in Waiting => th'[t].r \in Routers
  PROVE  IInv'
  <1>1. Types' /\ NoLeakedEdge' /\ BoundShared'
    BY DEF IInv, Types, BoundShared, NoLeakedEdge, Unmoved, LockSafe
  <1>2. ASSUME NEW u \in Threads \ {t}, Working(u) PROVE lock'[th[u].r] = u
    BY <1>2 DEF IInv, Locked, LockSafe
  <1> QED  BY <1>1, <1>2
           DEF IInv, Locked, Expected, Working, Resting, Waiting, ToBind, HasBound, AddsPort, Unmoved

\* A request ends, and its router stays where it is.
LEMMA Ends == ASSUME IInv, NEW t \in Threads, Done(t), Unmoved PROVE IInv'
  <1>1. Idle \in Request /\ Idle.pc = "idle"
    BY DEF Idle, Request, Labels, Ops
  <1>2. LockSafe(t)
    BY DropLocks DEF Done
  <1> QED  BY <1>1, <1>2, Aside DEF Done, IInv, Types, Resting, Waiting

\* A request starts with the lock of its router and what it read of it.
LEMMA Starts ==
  ASSUME SharedAssumption, IInv, NEW t \in Threads, NEW r \in Routers, NEW op \in Ops,
         NEW net \in Nets \cup ExtNets \cup {NoNet}, NEW label \in Labels \ Resting, Can(r), Hold(t, r),
         Begin(t, op, r, net, label), rtype' = [rtype EXCEPT ![r] = "shared"], UNCHANGED <<edgeOf, free>>,
         label \in {"bindPool", "bindEdge"} => edgeOf[r] = NoEdge,
         label \notin {"bindNew", "bindIntf", "services"}
  PROVE  IInv'
  <1> DEFINE q == [pc |-> label, op |-> op, r |-> r, net |-> net, edge |-> edgeOf[r], rs |-> SameEdge(r)]
  <1>1. q \in Request
    BY DEF IInv, Types, Request, SameEdge, OnEdge
  <1>2. th' \in [Threads -> Request] /\ (\A u \in Threads \ {t} : th'[u] = th[u]) /\ th'[t] = q
    BY <1>1 DEF Begin, IInv, Types
  <1>3. LockSafe(t) /\ lock'[r] = t /\ lock[r] \notin Threads \ {t}
    <2>1. LockKept(t)
      BY HoldLocks DEF SharedAssumption
    <2> QED  BY <2>1 DEF LockKept, Hold, Can, LockNames, IInv, Types, SharedAssumption
  <1>4. RowsOf(r) /\ NoLeakedEdge' /\ rtype'[r] = "shared"
    BY DEF IInv, Types, BoundShared, RowsOf, NoLeakedEdge
  <1>5. /\ th'[t].pc = label /\ th'[t].r = r /\ th'[t].edge = edgeOf[r]
        /\ label \notin Waiting /\ UNCHANGED edgeOf
    BY <1>2 DEF Resting
  <1> QED  BY <1>2, <1>3, <1>4, <1>5, Frame DEF ToBind, HasBound, AddsPort

\* ... or gets the lock that it has waited for.
LEMMA Enters ==
  ASSUME SharedAssumption, IInv, NEW t \in Threads, NEW chosen \in Waiting, NEW label \in {"addPool", "removePool"},
         Enter(t, chosen, label)
  PROVE  IInv'
  <1> DEFINE r == th[t].r
  <1>1. r \in Routers /\ Can(r) /\ rtype[r] = "shared" /\ Unmoved
    BY DEF Enter, IInv, Locked, Unmoved, dbVars
  <1>2. /\ th' \in [Threads -> Request] /\ \A u \in Threads \ {t} : th'[u] = th[u]
        /\ th'[t].pc = label /\ th'[t].r = r /\ th'[t].edge = edgeOf[r]
    <2> DEFINE q == [th[t] EXCEPT !.pc = label, !.edge = edgeOf[r]]
    <2>1. th[t] \in Request /\ edgeOf[r] \in Edges \cup {NoEdge} /\ th \in [Threads -> Request]
      BY <1>1 DEF IInv, Types
    <2>2. q \in Request /\ q.pc = label /\ q.r = r /\ q.edge = edgeOf[r]
      BY <2>1 DEF Request, Labels
    <2>3. th' = [th EXCEPT ![t] = q]
      BY <2>1 DEF Enter
    <2> QED  BY <2>1, <2>2, <2>3
  <1>3. LockSafe(t) /\ lock'[r] = t /\ lock[r] \notin Threads \ {t}
    <2>1. LockKept(t)
      BY <1>1, HoldLocks DEF Enter, SharedAssumption
    <2> QED  BY <1>1, <2>1 DEF Enter, LockKept, Hold, Can, LockNames, IInv, Types, SharedAssumption
  <1>4. RowsOf(r) /\ NoLeakedEdge'
    BY <1>1 DEF IInv, Types, BoundShared, Unmoved, RowsOf, NoLeakedEdge
  <1> QED  BY <1>1, <1>2, <1>3, <1>4, Frame DEF ToBind, HasBound, AddsPort, Waiting, Unmoved

\* unbind_router_on_edge: the edge becomes free with its last router.
LEMMA UnbindEffect ==
  ASSUME SharedAssumption, IInv, NEW r \in Routers, Unbind(r)
  PROVE  /\ edgeOf' \in [Routers -> Edges \cup {NoEdge}] /\ free' \subseteq Edges
         /\ edgeOf'[r] = NoEdge /\ \A q \in Routers \ {r} : edgeOf'[q] = edgeOf[q]
         /\ NoLeakedEdge'
  <1>1. edgeOf' = [edgeOf EXCEPT ![r] = NoEdge] /\ edgeOf \in [Routers -> Edges \cup {NoEdge}]
        /\ free \subseteq Edges /\ NoEdge \notin Edges
    BY DEF Unbind, IInv, Types, SharedAssumption
  <1>2. SameEdge(r) = {q \in Routers : edgeOf[q] = edgeOf[r] /\ edgeOf[r] # NoEdge}
    BY DEF SameEdge, OnEdge, IInv, BoundShared
  <1>3. CASE SameEdge(r) = {r}
    <2>1. free' = free \cup {edgeOf[r]} /\ edgeOf[r] \in Edges /\ \A q \in Routers \ {r} : edgeOf[q] # edgeOf[r]
      BY <1>1, <1>2, <1>3 DEF Unbind
    <2> QED  BY <1>1, <2>1 DEF IInv, NoLeakedEdge
  <1>4. CASE SameEdge(r) # {r}
    <2>1. free' = free /\ (edgeOf[r] = NoEdge \/ \E q \in Routers \ {r} : edgeOf[q] = edgeOf[r])
      BY <1>1, <1>2, <1>4 DEF Unbind
    <2> QED  BY <1>1, <2>1 DEF IInv, NoLeakedEdge
  <1> QED  BY <1>3, <1>4

\* A request unbinds its router, and goes on or ends.
LEMMA UnbindGoesOn ==
  ASSUME SharedAssumption, IInv, NEW t \in Threads, Working(t), Unbind(th[t].r),
         LockKept(t), UNCHANGED rtype, Goto(t, "bindPool")
  PROVE  IInv'
  <1>1. th' \in [Threads -> Request] /\ (\A u \in Threads \ {t} : th'[u] = th[u])
        /\ th'[t].pc = "bindPool" /\ th'[t].r = th[t].r
    <2>1. th \in [Threads -> Request] /\ th' = [th EXCEPT ![t].pc = "bindPool"]
      BY DEF Goto, IInv, Types
    <2>2. "bindPool" \in Labels
      BY DEF Labels
    <2> QED  BY <2>1, <2>2 DEF Request
  <1>2. th[t].r \in Routers /\ lock[th[t].r] = t /\ rtype[th[t].r] = "shared"
    BY DEF IInv, Locked
  <1>3. edgeOf'[th[t].r] = NoEdge /\ RowsOf(th[t].r) /\ NoLeakedEdge'
    BY <1>2, UnbindEffect DEF IInv, Types, RowsOf
  <1> QED  BY <1>1, <1>2, <1>3, Frame DEF LockKept, HasBound, AddsPort, Waiting
LEMMA UnbindEnds ==
  ASSUME SharedAssumption, IInv, NEW t \in Threads, Working(t), Unbind(th[t].r), Done(t),
         rtype' \in {rtype, [rtype EXCEPT ![th[t].r] = "other"]}
  PROVE  IInv'
  <1>1. Idle \in Request /\ Idle.pc = "idle"
    BY DEF Idle, Request, Labels, Ops
  <1>2. th' \in [Threads -> Request] /\ (\A u \in Threads \ {t} : th'[u] = th[u]) /\ th'[t].pc = "idle"
    BY <1>1 DEF Done, IInv, Types
  <1>3. th[t].r \in Routers /\ lock[th[t].r] = t
    BY DEF IInv, Locked
  <1>4. edgeOf'[th[t].r] = NoEdge /\ RowsOf(th[t].r) /\ NoLeakedEdge'
    BY <1>3, UnbindEffect DEF IInv, Types, RowsOf
  <1>5. LockSafe(t)
    BY DropLocks DEF Done
  <1> QED  BY <1>2, <1>3, <1>4, <1>5, Frame DEF Working, Resting, Waiting, ToBind, HasBound, AddsPort

\* A request binds its router, which was on no edge, to an edge that is free or shared.
LEMMA BindGoesOn ==
  ASSUME SharedAssumption, IInv, NEW t \in Threads, th[t].pc = "bindEdge", LockKept(t), UNCHANGED rtype,
         NEW e \in Edges, edgeOf' = [edgeOf EXCEPT ![th[t].r] = e],
         free' = free \ {e},
         NEW label \in {"bindNew", "bindIntf"}, Goto(t, label)
  PROVE  IInv'
  <1>1. th' \in [Threads -> Request] /\ (\A u \in Threads \ {t} : th'[u] = th[u])
        /\ th'[t].pc = label /\ th'[t].r = th[t].r
    BY DEF Goto, IInv, Types, Request, Labels
  <1>2. /\ th[t].r \in Routers /\ lock[th[t].r] = t /\ rtype[th[t].r] = "shared"
        /\ edgeOf[th[t].r] = NoEdge /\ NoEdge \notin Edges
    BY DEF IInv, Locked, Working, Resting, Waiting, Expected, ToBind, SharedAssumption
  <1>3. RowsOf(th[t].r)
    BY <1>2 DEF IInv, Types, RowsOf
  <1>4. NoLeakedEdge'
    BY <1>2 DEF IInv, Types, NoLeakedEdge
  <1>5. edgeOf'[th'[t].r] # NoEdge
    BY <1>1, <1>2 DEF IInv, Types
  <1> QED  BY <1>1, <1>2, <1>3, <1>4, <1>5, Frame DEF LockKept, ToBind, HasBound, AddsPort, Waiting

-----------------------------------------------------------------------------
(* The requests                                                            *)

\* _bind_router_on_available_edge and what follows it.
LEMMA BindingKeeps == ASSUME SharedAssumption, IInv, NEW t \in Threads, Binding(t) PROVE IInv'
  <1> USE DEF Working, Resting, Waiting, Labels
  <1>1. CASE BindPool(t)
    <2>1. edgeOf[th[t].r] = NoEdge
      BY <1>1 DEF BindPool, IInv, Expected, ToBind
    <2> QED  BY <1>1, <2>1, HoldLocks, GoesOn DEF BindPool, Unmoved, dbVars, SharedAssumption
  <1>2. CASE BindShared(t)
    <2>1. PICK e \in Fits(th[t].r) : edgeOf' = [edgeOf EXCEPT ![th[t].r] = e]
      BY <1>2 DEF BindShared, Roomiest
    <2>2. PICK q \in Routers : edgeOf[q] = e /\ e # NoEdge
      BY <2>1 DEF Fits, Available
    <2>3. e \in Edges /\ free' = free \ {e}
      BY <1>2, <2>2 DEF BindShared, IInv, Types, NoLeakedEdge
    <2>4. LockKept(t)
      BY <1>2 DEF BindShared, LockKept, LockSafe, IInv, Types
    <2> QED  BY <1>2, <2>1, <2>3, <2>4, BindGoesOn DEF BindShared, dbVars
  <1>3. CASE BindNew(t)
    <2>1. PICK e \in free : edgeOf' = [edgeOf EXCEPT ![th[t].r] = e] /\ free' = free \ {e}
      BY <1>3 DEF BindNew
    <2>2. LockKept(t)
      BY <1>3, HoldLocks DEF BindNew, SharedAssumption
    <2> QED  BY <1>3, <2>1, <2>2, BindGoesOn DEF BindNew, dbVars, IInv, Types
  <1>4. CASE BindNewDone(t)
    <2>1. edgeOf[th[t].r] # NoEdge
      BY <1>4 DEF BindNewDone, IInv, Expected, HasBound
    <2> QED  BY <1>4, <2>1, DropLocks, GoesOn DEF BindNewDone, Unmoved, dbVars, SharedAssumption
  <1>5. CASE BindInterfaces(t)
    <2>1. edgeOf[th[t].r] # NoEdge
      BY <1>5 DEF BindInterfaces, IInv, Expected, HasBound
    <2> QED  BY <1>5, <2>1, DropLocks, GoesOn DEF BindInterfaces, Unmoved, dbVars, SharedAssumption
  <1>6. CASE AddServices(t)
    BY <1>6, Ends DEF AddServices, Unmoved, dbVars
  <1> QED  BY <1>1, <1>2, <1>3, <1>4, <1>5, <1>6 DEF Binding

\* add_router_interface.
LEMMA AddingKeeps == ASSUME SharedAssumption, IInv, NEW t \in Threads, Adding(t) PROVE IInv'
  <1> USE DEF Working, Resting, Waiting, Labels
  <1>1. CASE AddPort(t)
    <2>1. th[t].edge = edgeOf[th[t].r]
      BY <1>1 DEF AddPort, IInv, Expected, AddsPort
    <2>2. CASE th[t].edge = NoEdge
      <3>1. LockKept(t)
        BY <1>1, <2>2 DEF AddPort, LockKept, LockSafe, IInv, Types
      <3> QED  BY <1>1, <2>1, <2>2, <3>1, GoesOn DEF AddPort, Unmoved
    <2>3. CASE th[t].edge # NoEdge
      BY <1>1, <2>1, <2>3, HoldLocks, GoesOn DEF AddPort, Unmoved, SharedAssumption
    <2> QED  BY <2>2, <2>3
  <1>2. CASE AddHere(t)
    BY <1>2, Ends DEF AddHere, Unmoved, dbVars
  <1>3. CASE AddMove(t)
    <2>1. LockKept(t)
      BY <1>3 DEF AddMove, LockKept, LockSafe, IInv, Types
    <2>2. th[t].edge = edgeOf[th[t].r]
      BY <1>3 DEF AddMove, IInv, Expected, AddsPort
    <2> QED  BY <1>3, <2>1, <2>2, GoesOn DEF AddMove, Unmoved, dbVars
  <1>4. CASE AddLeave(t)
    BY <1>4, DropLocks, UnbindGoesOn DEF AddLeave, dbVars, SharedAssumption
  <1>5. CASE AddStuck(t)
    BY <1>5, Ends DEF AddStuck, Unmoved, dbVars
  <1> QED  BY <1>1, <1>2, <1>3, <1>4, <1>5 DEF Adding

\* Requests about an interface that get the lock of their router, or stop there.
LEMMA EnteringKeeps ==
  ASSUME SharedAssumption, IInv, NEW t \in Threads, Entering(t) \/ Refusing(t)
  PROVE  IInv'
  <1>1. CASE EnterAdd(t) \/ EnterRemove(t)
    BY <1>1, Enters DEF EnterAdd, EnterRemove, Waiting
  <1>2. CASE OtherType(t) \/ Refused(t)
    BY <1>2, Ends DEF OtherType, Refused, Unmoved, dbVars
  <1> QED  BY <1>1, <1>2 DEF Entering, Refusing

\* remove_router_interface.
LEMMA RemovingKeeps == ASSUME SharedAssumption, IInv, NEW t \in Threads, Removing(t) PROVE IInv'
  <1> USE DEF Working, Resting, Waiting, Labels
  <1>1. CASE RemovePort(t)
    BY <1>1, HoldLocks, GoesOn DEF RemovePort, Unmoved, SharedAssumption
  <1>2. CASE RemoveInterface(t)
    BY <1>2, Ends, UnbindEnds DEF RemoveInterface, Unmoved, dbVars
  <1> QED  BY <1>1, <1>2 DEF Removing

\* update_router: the router's type and its gateway.
LEMMA UpdatingKeeps == ASSUME SharedAssumption, IInv, NEW t \in Threads, Updating(t) PROVE IInv'
  <1> USE DEF Working, Resting, Waiting, Labels
  <1>1. CASE Detach(t) \/ GwMove(t)
    <2>1. CASE Done(t)
      BY <1>1, <2>1, Ends DEF Detach, GwMove, LeaveEdge, Unmoved, dbVars
    <2>2. CASE ~Done(t)
      BY <1>1, <2>2, HoldLocks, GoesOn DEF Detach, GwMove, LeaveEdge, Unmoved, dbVars, SharedAssumption
    <2> QED  BY <2>1, <2>2
  <1>2. CASE GwDb(t)
    <2>1. CASE th[t].edge = NoEdge
      BY <1>2, <2>1, Ends DEF GwDb, Unmoved
    <2>2. CASE th[t].edge # NoEdge
      <3>1. LockKept(t)
        BY <1>2, <2>2 DEF GwDb, LockKept, LockSafe, IInv, Types
      <3> QED  BY <1>2, <2>2, <3>1, GoesOn DEF GwDb, Unmoved
    <2> QED  BY <2>1, <2>2
  <1>3. CASE GwHere(t)
    BY <1>3, Ends DEF GwHere, Unmoved, dbVars
  <1>4. CASE LeavePool(t)
    <2>1. CASE th[t].op = "detach"
      BY <1>4, <2>1, UnbindEnds DEF LeavePool
    <2>2. CASE th[t].op # "detach"
      BY <1>4, <2>2, DropLocks, UnbindGoesOn DEF LeavePool, SharedAssumption
    <2> QED  BY <2>1, <2>2
  <1> QED  BY <1>1, <1>2, <1>3, <1>4 DEF Updating

\* Floating IPs: without the lock of the router, whose row they leave alone.
LEMMA FloatingKeeps ==
  ASSUME SharedAssumption, IInv, NEW t \in Threads, Floating(t)
  PROVE  IInv'
  <1> DEFINE f == [th[t] EXCEPT !.pc = "fipPush", !.rs = SameEdge(th[t].r)]
  <1>0. th[t] \in Request /\ SameEdge(th[t].r) \subseteq Routers
    BY DEF SameEdge, OnEdge, IInv, Types
  <1>1. ASSUME FipEdge(t), Hold(t, th[t].edge), th' = [th EXCEPT ![t] = f] PROVE IInv'
    <2>1. LockSafe(t)
      BY <1>1, HoldLocks DEF FipEdge, SharedAssumption, LockKept
    <2>2. f \in Request /\ f.pc = "fipPush"
      BY <1>0 DEF Request, Labels
    <2> QED  BY <1>1, <2>1, <2>2, Aside DEF FipEdge, Unmoved, dbVars, IInv, Types, Resting, Waiting
  <1>2. CASE FipEdge(t)
    <2>1. CASE Done(t)
      BY <1>2, <2>1, Ends DEF FipEdge, Unmoved, dbVars
    <2>2. CASE ~Done(t)
      <3>1. Hold(t, th[t].edge) /\ th' = [th EXCEPT ![t].pc = "fipPush", ![t].rs = SameEdge(th[t].r)]
        BY <1>2, <2>2 DEF FipEdge
      <3>2. th' = [th EXCEPT ![t] = f]
        BY <3>1 DEF IInv, Types
      <3> QED  BY <1>1, <1>2, <3>1, <3>2
    <2> QED  BY <2>1, <2>2
  <1>3. CASE FipPush(t)
    BY <1>3, Ends DEF FipPush, Unmoved, dbVars
  <1> QED  BY <1>2, <1>3 DEF Floating

\* The begin of a request.
LEMMA StartKeeps ==
  ASSUME SharedAssumption, IInv, NEW t \in Threads, NEW r \in Routers, Start(t, r)
  PROVE  IInv'
  <1> USE DEF Labels, Ops, Resting, Waiting
  <1>0. rtype[r] = "shared" => [rtype EXCEPT ![r] = "shared"] = rtype
    BY DEF IInv, Types
  <1>1. ASSUME NEW n \in Nets, NEW op \in Ops, NEW label \in Waiting, Choose(t, op, r, n, label) PROVE IInv'
    <2>1. LockSafe(t) /\ Unmoved
      BY <1>1 DEF Choose, LockSafe, Unmoved, dbVars, IInv, Types
    <2>2. th' \in [Threads -> Request] /\ (\A u \in Threads \ {t} : th'[u] = th[u])
          /\ th'[t].pc = label /\ th'[t].r = r
      <3> DEFINE q == [Idle EXCEPT !.pc = label, !.op = op, !.r = r, !.net = n]
      <3>1. q \in Request /\ q.pc = label /\ q.r = r
        BY DEF Idle, Request
      <3>2. th \in [Threads -> Request] /\ th' = [th EXCEPT ![t] = q]
        BY <1>1 DEF Choose, IInv, Types
      <3> QED  BY <3>1, <3>2
    <2> QED  BY <2>1, <2>2, Aside
  <1>2. ASSUME NEW n \in Nets, StartAdd(t, r, n) \/ StartRemove(t, r, n) PROVE IInv'
    BY <1>1, <1>2 DEF StartAdd, StartRemove
  <1>3. ASSUME NEW g \in ExtNets \cup {NoNet}, StartGateway(t, r, g) PROVE IInv'
    BY <1>0, <1>3, Starts DEF StartGateway, dbVars
  <1>4. CASE StartDetach(t, r)
    BY <1>0, <1>4, Starts DEF StartDetach, dbVars
  <1>5. CASE StartAttach(t, r)
    <2>1. edgeOf[r] = NoEdge
      BY <1>5 DEF StartAttach, IInv, BoundShared
    <2> QED  BY <1>5, <2>1, Starts DEF StartAttach
  <1>6. CASE StartFloating(t, r)
    <2> DEFINE q == [pc |-> "fipEdge", op |-> "floating", r |-> r, net |-> NoNet, edge |-> edgeOf[r],
                     rs |-> SameEdge(r)]
    <2>1. SameEdge(r) \subseteq Routers /\ edgeOf[r] \in Edges \cup {NoEdge}
      BY DEF SameEdge, OnEdge, IInv, Types
    <2>2. q \in Request /\ q.pc = "fipEdge"
      BY <2>1 DEF Request
    <2>3. LockSafe(t)
      BY <1>6 DEF StartFloating, LockSafe, IInv, Types
    <2> QED  BY <1>6, <2>2, <2>3, Aside DEF StartFloating, Begin, Unmoved, dbVars, IInv, Types
  <1> QED  BY <1>1, <1>2, <1>3, <1>4, <1>5, <1>6 DEF Start

\* delete_router of a router that is on no edge and that no request works on.
LEMMA DeleteKeeps ==
  ASSUME SharedAssumption, ~MayDeleteBound, IInv, NEW r \in Routers, DeleteRouter(r)
  PROVE  IInv'
  <1>1. edgeOf[r] = NoEdge /\ edgeOf' = edgeOf /\ rtype' = [rtype EXCEPT ![r] = "deleted"]
    BY DEF DeleteRouter, IInv, Types
  <1>2. Types'
    BY <1>1 DEF DeleteRouter, IInv, Types
  <1>3. Locked' /\ Expected'
    BY <1>1 DEF DeleteRouter, IInv, Types, Locked, Expected, Working, ToBind, HasBound, AddsPort
  <1>4. BoundShared' /\ NoLeakedEdge'
    BY <1>1 DEF DeleteRouter, IInv, Types, BoundShared, NoLeakedEdge
  <1> QED  BY <1>2, <1>3, <1>4 DEF IInv

\* Each step of the system.
LEMMA NextKeeps == ASSUME SharedAssumption, ~MayDeleteBound, IInv, [Next]_vars PROVE IInv'
  <1>1. ASSUME NEW t \in Threads, Work(t) PROVE IInv'
    BY <1>1, EnteringKeeps, BindingKeeps, AddingKeeps, RemovingKeeps, UpdatingKeeps, FloatingKeeps DEF Work
  <1>2. CASE UNCHANGED vars
    BY <1>2 DEF vars, dbVars, IInv, Types, Locked, Expected, Working, Resting, Waiting, ToBind, HasBound,
                AddsPort, BoundShared,
                NoLeakedEdge
  <1> QED  BY <1>1, <1>2, StartKeeps, DeleteKeeps DEF Next

\* Nothing is bound at first.
LEMMA InitIInv == ASSUME SharedAssumption, Init PROVE IInv
  <1>1. Types
    BY DEF Init, Types, Idle, Request, Labels, Ops, LockNames
  <1>2. Locked /\ Expected /\ BoundShared /\ NoLeakedEdge
    BY DEF Init, Locked, Expected, Working, Resting, Waiting, ToBind, HasBound, AddsPort, BoundShared,
           NoLeakedEdge, Idle, SharedAssumption
  <1> QED  BY <1>1, <1>2 DEF IInv

\* unbind_router_on_edge frees an edge with its last router and no sooner, and
\* bind_router_on_available_edge takes it out of the pool, in whatever order requests nest
\* and drop the locks.
THEOREM EdgesAccounted == ASSUME ~MayDeleteBound PROVE Spec => []NoLeakedEdge
  <1>1. Init => IInv
    BY SharedAssumption, InitIInv
  <1>2. IInv /\ [Next]_vars => IInv'
    BY SharedAssumption, NextKeeps
  <1>3. IInv => NoLeakedEdge
    BY DEF IInv
  <1> QED  BY <1>1, <1>2, <1>3, PTL DEF Spec

-----------------------------------------------------------------------------
(* The refinement: a step binds one router, unbinds one, or rebinds none.  *)

Binds(r) == \E e \in Edges : edgeOf[r] = NoEdge /\ edgeOf' = [edgeOf EXCEPT ![r] = e]
Unbinds(r) == edgeOf' = [edgeOf EXCEPT ![r] = NoEdge]
Rebinds == edgeOf' = edgeOf \/ \E r \in Routers : Binds(r) \/ Unbinds(r)

\* What the requests do to the rows of the routers.
LEMMA WorkRebinds ==
  ASSUME SharedAssumption, IInv, NEW t \in Threads, Work(t)
  PROVE  Rebinds
  <1>1. CASE Binding(t)
    <2>1. CASE BindShared(t) \/ BindNew(t)
      <3>1. PICK e \in Edges : edgeOf' = [edgeOf EXCEPT ![th[t].r] = e]
        <4>1. \A e \in Fits(th[t].r) : e \in Edges
          BY DEF Fits, Available, IInv, Types
        <4> QED  BY <2>1, <4>1 DEF BindShared, BindNew, Roomiest, IInv, Types
      <3>2. th[t].r \in Routers /\ edgeOf[th[t].r] = NoEdge
        BY <2>1 DEF BindShared, BindNew, IInv, Locked, Working, Resting, Waiting, Expected, ToBind
      <3> QED  BY <3>1, <3>2 DEF Rebinds, Binds
    <2>2. CASE BindPool(t) \/ BindNewDone(t) \/ BindInterfaces(t) \/ AddServices(t)
      BY <2>2 DEF BindPool, BindNewDone, BindInterfaces, AddServices, Rebinds
    <2> QED  BY <1>1, <2>1, <2>2 DEF Binding
  <1>2. CASE Adding(t) \/ Removing(t)
    <2>1. CASE AddLeave(t) \/ RemoveInterface(t)
      <3>1. th[t].r \in Routers
        BY <2>1 DEF AddLeave, RemoveInterface, IInv, Locked, Working, Resting, Waiting
      <3> QED  BY <2>1, <3>1 DEF AddLeave, RemoveInterface, Unbind, Rebinds, Unbinds
    <2>2. CASE AddPort(t) \/ AddHere(t) \/ AddMove(t) \/ AddStuck(t) \/ RemovePort(t)
      BY <2>2 DEF AddPort, AddHere, AddMove, AddStuck, RemovePort, Rebinds
    <2> QED  BY <1>2, <2>1, <2>2 DEF Adding, Removing
  <1>3. CASE Updating(t) \/ Floating(t) \/ Entering(t) \/ Refusing(t)
    <2>1. CASE LeavePool(t)
      <3>1. th[t].r \in Routers
        BY <2>1 DEF LeavePool, IInv, Locked, Working, Resting, Waiting
      <3> QED  BY <2>1, <3>1 DEF LeavePool, Unbind, Rebinds, Unbinds
    <2>2. CASE Detach(t) \/ GwMove(t) \/ GwDb(t) \/ GwHere(t) \/ Floating(t) \/ Entering(t) \/ Refusing(t)
      BY <2>2 DEF Detach, GwMove, LeaveEdge, GwDb, GwHere, Floating, FipEdge, FipPush, Entering, EnterAdd,
                  EnterRemove, Enter, OtherType, Refusing, Refused, Rebinds
    <2> QED  BY <1>3, <2>1, <2>2 DEF Updating
  <1> QED  BY <1>1, <1>2, <1>3 DEF Work

\* And so does every step, the start of a request and the deletion of a router among them.
LEMMA NextRebinds == ASSUME SharedAssumption, ~MayDeleteBound, IInv, [Next]_vars PROVE Rebinds
  <1>1. ASSUME NEW t \in Threads, NEW r \in Routers, Start(t, r) PROVE Rebinds
    BY <1>1 DEF Start, StartAdd, StartRemove, Choose, StartGateway, StartDetach, StartAttach, StartFloating,
                Rebinds
  <1>2. ASSUME NEW r \in Routers, DeleteRouter(r) PROVE Rebinds
    BY <1>2 DEF DeleteRouter, Rebinds, Unbinds
  <1>3. CASE UNCHANGED vars
    BY <1>3 DEF vars, Rebinds
  <1> QED  BY <1>1, <1>2, <1>3, WorkRebinds DEF Next

\* Binding a router takes or joins an edge, unbinding it leaves one.
LEMMA OwnerStep ==
  ASSUME SharedAssumption, IInv, Rebinds
  PROVE  [Owner!Next]_(Owner!ownerVars)
  <1>0. edgeOf \in [Routers -> Edges \cup {NoEdge}] /\ NoEdge \notin Edges
    BY DEF IInv, Types, SharedAssumption
  <1>1. CASE edgeOf' = edgeOf
    BY <1>1 DEF Owner!ownerVars, UsersOf
  <1>2. ASSUME NEW r \in Routers, Binds(r) PROVE Owner!Next
    <2>1. PICK e \in Edges : edgeOf[r] = NoEdge /\ edgeOf' = [edgeOf EXCEPT ![r] = e]
      BY <1>2 DEF Binds
    <2>2. \A f \in Edges : UsersOf(f)' = IF f = e THEN UsersOf(e) \cup {r} ELSE UsersOf(f)
      BY <1>0, <2>1 DEF UsersOf
    <2>3. Owner!Set(e, UsersOf(e) \cup {r})
      BY <2>2 DEF Owner!Set
    <2>4. Owner!Unbound(r)
      BY <1>0, <2>1 DEF Owner!Unbound, UsersOf
    <2>5. UsersOf(e) = {} => UsersOf(e) \cup {r} = {r}
      OBVIOUS
    <2>6. Owner!Take(e, r) \/ Owner!Join(e, r)
      BY <2>3, <2>4, <2>5 DEF Owner!Take, Owner!Join, Owner!Set
    <2> QED  BY <2>6 DEF Owner!Next
  <1>3. ASSUME NEW r \in Routers, Unbinds(r), edgeOf[r] # NoEdge PROVE Owner!Next
    <2>1. PICK e \in Edges : edgeOf[r] = e
      BY <1>0, <1>3
    <2>2. \A f \in Edges : UsersOf(f)' = IF f = e THEN UsersOf(e) \ {r} ELSE UsersOf(f)
      BY <1>0, <1>3, <2>1 DEF UsersOf, Unbinds
    <2>3. Owner!Set(e, UsersOf(e) \ {r})
      BY <2>2 DEF Owner!Set
    <2>4. Owner!Leave(e, r)
      <3>1. r \in UsersOf(e)
        BY <2>1 DEF UsersOf
      <3> QED  BY <2>3, <3>1 DEF Owner!Leave, Owner!Set
    <2> QED  BY <2>4 DEF Owner!Next
  <1>4. ASSUME NEW r \in Routers, Unbinds(r), edgeOf[r] = NoEdge PROVE edgeOf' = edgeOf
    BY <1>0, <1>4 DEF Unbinds
  <1> QED  BY <1>1, <1>2, <1>3, <1>4 DEF Rebinds

\* The driver keeps what EdgeOwner promises: a router leaves one edge before it is bound to
\* another, and takes an edge that is free or joins one that is in use.
THEOREM SharedRouterImplementsOwner == ASSUME ~MayDeleteBound PROVE Spec => ImplementsOwner
  <1>1. Init => IInv
    BY SharedAssumption, InitIInv
  <1>2. IInv /\ [Next]_vars => IInv'
    BY SharedAssumption, NextKeeps
  <1>3. Init => Owner!Init
    BY SharedAssumption DEF Init, Owner!Init, UsersOf, SharedAssumption
  <1>4. IInv /\ [Next]_vars => [Owner!Next]_(Owner!ownerVars)
    BY SharedAssumption, NextRebinds, OwnerStep
  <1> QED  BY <1>1, <1>2, <1>3, <1>4, PTL DEF Spec, ImplementsOwner, Owner!Spec

-----------------------------------------------------------------------------
(* Overlapping networks.  No lock is needed for this: whoever puts a       *)
(* router on an edge looks in the same step at the routers that are there. *)

Deciding(t) == th[t].pc \in {"addEdge", "addMove"}
NetTypes == nets \in [Routers -> SUBSET Nets]
\* The network of a request about a port that is not there yet, or is there still.
Asking == {"addPool", "removePool"} \cup Waiting
Asked == \A t \in Threads : th[t].pc \in Asking => th[t].net \in Nets
NetsInv == IInv /\ NetTypes /\ Asked /\ NetworksApart

\* A step that puts no router on an edge, gives none a network and clears no edge, and
\* after which whoever was deciding is deciding still.
Harmless ==
  /\ spoilt \subseteq spoilt'
  /\ edgeOf' = edgeOf \/ \E r \in Routers : Unbinds(r)
  /\ nets' \in [Routers -> SUBSET Nets] /\ \A r \in Routers : nets'[r] \subseteq nets[r]
  /\ \A t \in Threads : Deciding(t) => Deciding(t)' /\ th'[t].r = th[t].r

\* Conflict is symmetric, and more networks have no fewer conflicts.
LEMMA ClashMonotone ==
  ASSUME NEW A, NEW B, NEW C, NEW D, A \subseteq C, B \subseteq D, Clash(A, B)
  PROVE  Clash(C, D) /\ Clash(D, C)
  <1>1. PICK m \in A, n \in B : m = n \/ {m, n} \in Overlap
    BY DEF Clash
  <1>2. {m, n} = {n, m} /\ m \in C /\ n \in D
    OBVIOUS
  <1> QED  BY <1>1, <1>2 DEF Clash

\* Such a step leaves overlapping networks apart.
LEMMA HarmlessKeeps == ASSUME SharedAssumption, NetsInv, Harmless PROVE NetTypes' /\ NetworksApart'
  <1>1. SUFFICES ASSUME NEW r \in Routers, NEW q \in Routers, r # q, edgeOf'[r] \notin {NoEdge} \cup spoilt',
                        edgeOf'[r] = edgeOf'[q], Clash(nets'[r], nets'[q])
                 PROVE  \E t \in Threads : th'[t].r \in {r, q} /\ Deciding(t)'
    BY DEF NetworksApart, Deciding, Harmless, NetTypes, Clash
  <1>2. edgeOf[r] \notin {NoEdge} \cup spoilt /\ edgeOf[r] = edgeOf[q]
    BY <1>1 DEF Harmless, Unbinds, NetsInv, IInv, Types
  <1>3. Clash(nets[r], nets[q])
    BY <1>1, ClashMonotone DEF Harmless
  <1>4. PICK t \in Threads : th[t].r \in {r, q} /\ Deciding(t)
    BY <1>1, <1>2, <1>3 DEF NetsInv, NetworksApart, Deciding
  <1> QED  BY <1>4 DEF Harmless

\* A step that puts the router r on an edge or ends the decision about it, and leaves the
\* other routers and their edges alone.
LEMMA DecisionKeeps ==
  ASSUME SharedAssumption, NetsInv, NEW r \in Routers, nets' = nets,
         edgeOf' \in [Routers -> Edges \cup {NoEdge}], \A q \in Routers \ {r} : edgeOf'[q] = edgeOf[q],
         \A q \in Routers \ {r} : edgeOf'[r] # NoEdge /\ edgeOf'[r] = edgeOf[q] => ~Clash(nets[r], nets[q]),
         \A t \in Threads : Deciding(t) /\ th[t].r # r => Deciding(t)' /\ th'[t].r = th[t].r,
         \A q \in Routers : edgeOf[q] \in spoilt => edgeOf[q] \in spoilt'
  PROVE  NetTypes' /\ NetworksApart'
  <1>1. SUFFICES ASSUME NEW p \in Routers, NEW q \in Routers, p # q, edgeOf'[p] \notin {NoEdge} \cup spoilt',
                        edgeOf'[p] = edgeOf'[q], Clash(nets[p], nets[q])
                 PROVE  \E t \in Threads : th'[t].r \in {p, q} /\ Deciding(t)'
    BY DEF NetworksApart, Deciding, NetTypes, Clash, NetsInv
  <1>2. p # r /\ q # r
    BY <1>1, ClashMonotone
  <1>3. PICK t \in Threads : th[t].r \in {p, q} /\ Deciding(t)
    BY <1>1, <1>2 DEF NetsInv, NetworksApart, Deciding
  <1> QED  BY <1>2, <1>3

\* bind_router_on_available_edge: no router on the edge is in conflict with this one.
LEMMA BindApart ==
  ASSUME SharedAssumption, NetsInv, NEW t \in Threads, BindNew(t) \/ (BindShared(t) /\ UNCHANGED spoilt)
  PROVE  NetTypes' /\ NetworksApart'
  <1> DEFINE r == th[t].r
  <1>1. r \in Routers /\ rtype[r] = "shared" /\ ~Deciding(t)
    BY DEF NetsInv, IInv, Locked, Working, Resting, Waiting, Binding, BindShared, BindNew, Deciding
  <1>2. nets' = nets /\ \A u \in Threads \ {t} : th'[u] = th[u]
    BY DEF BindShared, BindNew, dbVars, Goto, NetsInv, IInv, Types
  <1>3. PICK e \in Edges : edgeOf' = [edgeOf EXCEPT ![r] = e] /\ (e \in Fits(r) \/ e \in free)
    <2>1. \A e \in Fits(r) : e \in Edges
      BY DEF Fits, Available, NetsInv, IInv, Types
    <2> QED  BY <2>1 DEF BindShared, BindNew, Roomiest, NetsInv, IInv, Types
  <1>4. ASSUME NEW q \in Routers \ {r}, edgeOf[q] = e PROVE ~Clash(nets[r], nets[q])
    <2>1. e \in Fits(r)
      BY <1>3, <1>4 DEF NetsInv, IInv, NoLeakedEdge
    <2>2. q \notin ConflictRouters(r)
      BY <1>4, <2>1 DEF Fits
    <2>3. rtype[q] = "shared"
      BY <1>3, <1>4 DEF NetsInv, IInv, BoundShared, SharedAssumption
    <2>4. ~Clash(nets[r] \cup GwOf(r), nets[q])
      BY <2>2, <2>3 DEF ConflictRouters, Conflict
    <2> QED  BY <2>4, ClashMonotone
  <1>5. edgeOf' \in [Routers -> Edges \cup {NoEdge}] /\ edgeOf'[r] = e
        /\ \A q \in Routers \ {r} : edgeOf'[q] = edgeOf[q]
    BY <1>1, <1>3 DEF NetsInv, IInv, Types
  <1>6. ASSUME NEW q \in Routers, edgeOf[q] \in spoilt PROVE edgeOf[q] \in spoilt'
    BY <1>6 DEF BindNew, NetsInv, IInv, NoLeakedEdge
  <1> QED  BY <1>1, <1>2, <1>4, <1>5, <1>6, DecisionKeeps DEF Deciding

\* add_router_interface: the port is added while the request has yet to decide, or to a
\* router that is on no edge.
LEMMA PortApart ==
  ASSUME SharedAssumption, NetsInv, NEW t \in Threads, NEW n \in Nets, th[t].net = n, AddPort(t),
         UNCHANGED spoilt
  PROVE  NetTypes' /\ NetworksApart'
  <1> DEFINE r == th[t].r
  <1>1. r \in Routers /\ th[t].edge = edgeOf[r] /\ ~Deciding(t)
    BY DEF AddPort, NetsInv, IInv, Locked, Working, Resting, Waiting, Expected, AddsPort, Deciding
  <1>2. edgeOf' = edgeOf /\ nets' = [nets EXCEPT ![r] = @ \cup {n}]
    BY DEF AddPort
  <1>3. /\ \A u \in Threads \ {t} : th'[u] = th[u]
        /\ th'[t].r = r /\ (edgeOf[r] # NoEdge => th'[t].pc = "addEdge")
    BY <1>1 DEF AddPort, Goto, NetsInv, IInv, Types, Request
  <1>4. NetTypes' /\ \A q \in Routers \ {r} : nets'[q] = nets[q]
    BY <1>2 DEF NetsInv, NetTypes
  <1>5. SUFFICES ASSUME NEW p \in Routers, NEW q \in Routers, p # q, edgeOf[p] \notin {NoEdge} \cup spoilt,
                        edgeOf[p] = edgeOf[q], Clash(nets'[p], nets'[q])
                 PROVE  \E u \in Threads : th'[u].r \in {p, q} /\ Deciding(u)'
    BY <1>2, <1>4 DEF NetworksApart, Deciding, Clash
  <1>6. CASE r \in {p, q}
    BY <1>3, <1>5, <1>6 DEF Deciding
  <1>7. CASE r \notin {p, q}
    BY <1>1, <1>3, <1>4, <1>5, <1>7 DEF NetsInv, NetworksApart, Deciding
  <1> QED  BY <1>6, <1>7

\* A router of another type, whose port is written all the same, is on no edge.
LEMMA OtherApart ==
  ASSUME SharedAssumption, NetsInv, NEW t \in Threads, NEW n \in Nets, th[t].net = n, OtherType(t),
         UNCHANGED spoilt
  PROVE  NetTypes' /\ NetworksApart'
  <1> DEFINE r == th[t].r
  <1>1. r \in Routers /\ edgeOf[r] = NoEdge /\ ~Deciding(t)
    BY DEF OtherType, NetsInv, IInv, Locked, Waiting, BoundShared, Deciding
  <1>2. edgeOf' = edgeOf /\ NetTypes' /\ \A q \in Routers \ {r} : nets'[q] = nets[q]
    BY <1>1 DEF OtherType, NetsInv, NetTypes
  <1>3. \A u \in Threads \ {t} : th'[u] = th[u]
    BY DEF OtherType, Done, NetsInv, IInv, Types
  <1>4. SUFFICES ASSUME NEW p \in Routers, NEW q \in Routers, p # q, edgeOf[p] \notin {NoEdge} \cup spoilt,
                        edgeOf[p] = edgeOf[q], Clash(nets'[p], nets'[q])
                 PROVE  \E u \in Threads : th'[u].r \in {p, q} /\ Deciding(u)'
    BY <1>2 DEF NetworksApart, Deciding, Clash
  <1> QED  BY <1>1, <1>2, <1>3, <1>4 DEF NetsInv, NetworksApart, Deciding

\* The exception: the edge is spoilt from now on.
LEMMA StuckApart ==
  ASSUME SharedAssumption, NetsInv, NEW t \in Threads, AddStuck(t)
  PROVE  NetTypes' /\ NetworksApart'
  <1>1. /\ th[t].r \in Routers /\ th[t].edge = edgeOf[th[t].r] /\ nets' = nets /\ edgeOf' = edgeOf
        /\ \A u \in Threads \ {t} : th'[u] = th[u]
    BY DEF AddStuck, dbVars, Done, NetsInv, IInv, Locked, Working, Resting, Waiting, Expected, AddsPort, Types
  <1>2. spoilt' = spoilt \cup {edgeOf[th[t].r]}
    BY <1>1 DEF AddStuck
  <1>3. SUFFICES ASSUME NEW p \in Routers, NEW q \in Routers, p # q, edgeOf[p] \notin {NoEdge} \cup spoilt',
                        edgeOf[p] = edgeOf[q], Clash(nets[p], nets[q])
                 PROVE  \E u \in Threads : th'[u].r \in {p, q} /\ Deciding(u)'
    BY <1>1 DEF NetworksApart, Deciding, Clash, NetsInv, NetTypes
  <1>4. PICK u \in Threads : th[u].r \in {p, q} /\ Deciding(u)
    BY <1>2, <1>3 DEF NetsInv, NetworksApart, Deciding
  <1>5. u # t
    BY <1>2, <1>3, <1>4
  <1> QED  BY <1>1, <1>4, <1>5 DEF Deciding

\* The decision: the router stays where no router is in conflict with it, or leaves.
LEMMA AddApart ==
  ASSUME SharedAssumption, NetsInv, NEW t \in Threads, AddHere(t) \/ AddLeave(t), UNCHANGED spoilt
  PROVE  NetTypes' /\ NetworksApart'
  <1> DEFINE r == th[t].r
  <1>1. r \in Routers /\ nets' = nets /\ \A u \in Threads \ {t} : th'[u] = th[u]
    BY DEF AddHere, AddLeave, dbVars, Done, Goto, NetsInv, IInv, Locked, Working, Resting, Waiting, Types
  <1>2. CASE AddLeave(t)
    <2>1. edgeOf' \in [Routers -> Edges \cup {NoEdge}] /\ edgeOf'[r] = NoEdge
          /\ \A q \in Routers \ {r} : edgeOf'[q] = edgeOf[q]
      BY <1>1, <1>2 DEF AddLeave, Unbind, NetsInv, IInv, Types
    <2> QED  BY <1>1, <2>1, DecisionKeeps DEF Deciding
  <1>3. CASE AddHere(t)
    <2>1. edgeOf' = edgeOf /\ SameEdge(r) \cap ConflictRouters(r) = {}
      BY <1>3 DEF AddHere, AddMustMove, ConflictOnEdge
    <2>2. ASSUME NEW q \in Routers \ {r}, edgeOf[r] # NoEdge, edgeOf[r] = edgeOf[q]
          PROVE  ~Clash(nets[r], nets[q])
      <3>1. rtype[q] = "shared"
        BY <2>2 DEF NetsInv, IInv, BoundShared
      <3>2. q \notin ConflictRouters(r)
        BY <2>1, <2>2, <3>1 DEF SameEdge, OnEdge
      <3>3. ~Clash(nets[r] \cup GwOf(r), nets[q])
        BY <3>1, <3>2 DEF ConflictRouters, Conflict
      <3> QED  BY <3>3, ClashMonotone
    <2> QED  BY <1>1, <2>1, <2>2, DecisionKeeps DEF Deciding, NetsInv, IInv, Types
  <1> QED  BY <1>2, <1>3

\* A step of a request changes the request of no other thread, and not the network it is about.
LEMMA OwnRequest ==
  ASSUME SharedAssumption, IInv, NEW t \in Threads, Work(t)
  PROVE  /\ \A u \in Threads \ {t} : th'[u] = th[u]
         /\ th'[t].pc \in Asking => th[t].pc \in Asking /\ th'[t].net = th[t].net
  <1> USE DEF Asking, Waiting
  <1>1. th \in [Threads -> Request] /\ Idle.pc = "idle"
    BY DEF IInv, Types, Idle
  <1>2. CASE Binding(t)
    BY <1>1, <1>2 DEF Binding, BindPool, BindShared, BindNew, BindNewDone, BindInterfaces, AddServices,
                      Goto, Done, Request
  <1>3. CASE Adding(t) \/ Removing(t)
    BY <1>1, <1>3 DEF Adding, AddPort, AddHere, AddMove, AddLeave, AddStuck, Removing, RemovePort,
                      RemoveInterface, Goto, Done, Request
  <1>4. CASE Updating(t)
    BY <1>1, <1>4 DEF Updating, Detach, GwDb, GwHere, GwMove, LeaveEdge, LeavePool, Goto, Done, Request
  <1>5. CASE Floating(t)
    BY <1>1, <1>5 DEF Floating, FipEdge, FipPush, Done, Request
  <1>6. CASE OtherType(t) \/ Refused(t)
    BY <1>1, <1>6 DEF OtherType, Refused, Done
  <1>7. ASSUME NEW chosen \in Waiting, NEW label, Enter(t, chosen, label)
        PROVE  (\A u \in Threads \ {t} : th'[u] = th[u]) /\ th[t].pc \in Asking /\ th'[t].net = th[t].net
    BY <1>1, <1>7 DEF Enter, Request
  <1> QED  BY <1>2, <1>3, <1>4, <1>5, <1>6, <1>7 DEF Work, Entering, EnterAdd, EnterRemove, Refusing

\* A step of a request leaves overlapping networks apart.
LEMMA WorkApart ==
  ASSUME SharedAssumption, NetsInv, NEW t \in Threads, Work(t)
  PROVE  NetTypes' /\ Asked' /\ NetworksApart'
  <1>1. IInv /\ \A u \in Threads \ {t} : th'[u] = th[u]
    BY OwnRequest DEF NetsInv
  <1>2. Asked'
    BY OwnRequest DEF NetsInv, Asked
  <1>3. CASE BindNew(t) \/ (BindShared(t) /\ UNCHANGED spoilt)
    BY <1>2, <1>3, BindApart
  <1>4. CASE (AddPort(t) \/ OtherType(t)) /\ UNCHANGED spoilt
    BY <1>2, <1>4, PortApart, OtherApart DEF AddPort, OtherType, NetsInv, Asked, Asking, Waiting
  <1>5. CASE (AddHere(t) \/ AddLeave(t)) /\ UNCHANGED spoilt
    BY <1>2, <1>5, AddApart
  <1>6. CASE /\ \/ BindPool(t) \/ BindNewDone(t) \/ BindInterfaces(t) \/ AddServices(t) \/ Updating(t)
                \/ Floating(t) \/ EnterAdd(t) \/ EnterRemove(t) \/ Refused(t)
             /\ UNCHANGED spoilt
    <2> USE DEF EnterAdd, EnterRemove, Enter, Refused
    <2>1. nets' = nets /\ ~Deciding(t)
      BY <1>6 DEF BindPool, BindNewDone, BindInterfaces, AddServices, Updating, Detach, LeaveEdge, LeavePool,
                  GwDb, GwHere, GwMove, Floating, FipEdge, FipPush, dbVars, Deciding
    <2>2. edgeOf' = edgeOf \/ \E r \in Routers : Unbinds(r)
      <3>1. CASE LeavePool(t)
        <4>1. th[t].r \in Routers
          BY <1>1, <3>1 DEF LeavePool, IInv, Locked, Working, Resting, Waiting
        <4> QED  BY <3>1, <4>1 DEF LeavePool, Unbind, Unbinds
      <3>2. CASE ~LeavePool(t)
        BY <1>6, <3>2 DEF BindPool, BindNewDone, BindInterfaces, AddServices, Updating, Detach, LeaveEdge,
                          GwDb, GwHere, GwMove, Floating, FipEdge, FipPush
      <3> QED  BY <3>1, <3>2
    <2>3. Harmless
      BY <1>1, <1>6, <2>1, <2>2 DEF Harmless, Deciding, NetsInv, NetTypes
    <2> QED  BY <1>2, <2>3, HarmlessKeeps
  <1>7. CASE AddMove(t) /\ UNCHANGED spoilt
    <2>1. Harmless
      BY <1>1, <1>7 DEF AddMove, Goto, dbVars, Harmless, Deciding, NetsInv, NetTypes, IInv, Types, Request
    <2> QED  BY <1>2, <2>1, HarmlessKeeps
  <1>8. CASE Removing(t)
    <2>1. th[t].r \in Routers /\ ~Deciding(t)
      BY <1>1, <1>8 DEF Removing, RemovePort, RemoveInterface, IInv, Locked, Working, Resting, Waiting, Deciding
    <2>2. edgeOf' = edgeOf \/ Unbinds(th[t].r)
      BY <1>8 DEF Removing, RemovePort, RemoveInterface, Unbind, Unbinds
    <2>3. nets' \in [Routers -> SUBSET Nets] /\ \A r \in Routers : nets'[r] \subseteq nets[r]
      BY <1>8, <2>1 DEF Removing, RemovePort, RemoveInterface, dbVars, NetsInv, NetTypes
    <2>4. Harmless
      BY <1>1, <1>8, <2>1, <2>2, <2>3 DEF Harmless, Removing, Deciding
    <2> QED  BY <1>2, <2>4, HarmlessKeeps
  <1>9. CASE AddStuck(t)
    BY <1>2, <1>9, StuckApart
  <1> QED  BY <1>3, <1>4, <1>5, <1>6, <1>7, <1>8, <1>9
           DEF Work, Binding, Adding, Updating, Floating, Entering, Refusing

\* And so do the start of a request and the deletion of a router.
LEMMA NextApart ==
  ASSUME SharedAssumption, ~MayDeleteBound, NetsInv, [Next]_vars
  PROVE  NetsInv'
  <1>1. IInv'
    BY NextKeeps DEF NetsInv
  <1>2. ASSUME NEW t \in Threads, NEW r \in Routers, Start(t, r)
        PROVE  NetTypes' /\ Asked' /\ NetworksApart'
    <2>1. /\ edgeOf' = edgeOf /\ nets' = nets /\ th[t] = Idle
          /\ \A u \in Threads \ {t} : th'[u] = th[u]
          /\ th'[t].pc \in Asking => th'[t].net \in Nets
          /\ spoilt' = spoilt
      <3>1. th \in [Threads -> Request] /\ spoilt' = spoilt
        BY <1>2 DEF Start, NetsInv, IInv, Types
      <3>2. ASSUME NEW n \in Nets, StartAdd(t, r, n) \/ StartRemove(t, r, n)
            PROVE  /\ edgeOf' = edgeOf /\ nets' = nets /\ th[t] = Idle /\ th'[t].net = n
                   /\ \A u \in Threads \ {t} : th'[u] = th[u]
        <4>1. ASSUME NEW op, NEW label, Choose(t, op, r, n, label)
              PROVE  /\ edgeOf' = edgeOf /\ nets' = nets /\ th[t] = Idle /\ th'[t].net = n
                     /\ \A u \in Threads \ {t} : th'[u] = th[u]
          <5>1. th'[t] = [Idle EXCEPT !.pc = label, !.op = op, !.r = r, !.net = n]
            BY <3>1, <4>1 DEF Choose
          <5>2. th'[t].net = n
            BY <5>1 DEF Idle
          <5> QED  BY <3>1, <4>1, <5>2 DEF Choose, dbVars
        <4> QED  BY <3>2, <4>1 DEF StartAdd, StartRemove
      <3>3. ASSUME NEW g \in ExtNets \cup {NoNet}, StartGateway(t, r, g)
            PROVE  /\ edgeOf' = edgeOf /\ nets' = nets /\ th[t] = Idle /\ th'[t].pc \notin Asking
                   /\ \A u \in Threads \ {t} : th'[u] = th[u]
        BY <3>1, <3>3 DEF StartGateway, Begin, Asking, Waiting, dbVars
      <3>4. ASSUME StartDetach(t, r) \/ StartAttach(t, r) \/ StartFloating(t, r)
            PROVE  /\ edgeOf' = edgeOf /\ nets' = nets /\ th[t] = Idle /\ th'[t].pc \notin Asking
                   /\ \A u \in Threads \ {t} : th'[u] = th[u]
        BY <3>1, <3>4 DEF StartDetach, StartAttach, StartFloating, Begin, Asking, Waiting, dbVars
      <3> QED  BY <1>2, <3>1, <3>2, <3>3, <3>4 DEF Start
    <2>2. Harmless /\ Asked'
      BY <2>1 DEF Harmless, Deciding, Idle, Asked, NetsInv, NetTypes
    <2> QED  BY <2>2, HarmlessKeeps
  <1>3. ASSUME NEW r \in Routers, DeleteRouter(r) PROVE NetTypes' /\ Asked' /\ NetworksApart'
    <2>1. edgeOf' = edgeOf /\ nets' = nets /\ th' = th /\ spoilt' = spoilt
      BY <1>3 DEF DeleteRouter, NetsInv, IInv, Types
    <2> QED  BY <2>1, HarmlessKeeps DEF Harmless, Deciding, Asked, NetsInv, NetTypes
  <1>4. CASE UNCHANGED vars
    <2>1. Harmless /\ Asked'
      BY <1>4 DEF vars, dbVars, Harmless, Deciding, Asked, NetsInv, NetTypes
    <2> QED  BY <1>1, <2>1, HarmlessKeeps DEF NetsInv
  <1> QED  BY <1>1, <1>2, <1>3, <1>4, WorkApart DEF Next, NetsInv

\* Two routers with overlapping networks share an edge only while the request that adds one
\* of the networks is about to move its router away, or on an edge that an exception in the
\* middle of such a move has left so: bind_router_on_available_edge and
\* is_router_conflict_on_edge together leave no other gap, whatever requests do in between.
THEOREM NetworksNeverOverlap == ASSUME ~MayDeleteBound PROVE Spec => []NetworksApart
  <1>1. Init => NetsInv
    BY SharedAssumption, InitIInv DEF Init, NetsInv, NetTypes, Asked, Asking, Waiting, NetworksApart, Idle
  <1>2. NetsInv /\ [Next]_vars => NetsInv'
    BY SharedAssumption, NextApart
  <1>3. NetsInv => NetworksApart
    BY DEF NetsInv
  <1> QED  BY <1>1, <1>2, <1>3, PTL DEF Spec

-----------------------------------------------------------------------------
(* Deadlocks: which requests hold a lock.                                  *)

Shared == Edges \cup {"shared-router-pool", "edge-router"}
HolderAt(l) ==
  CASE l = "edge-router" -> {"bindNew"}
    [] l = "shared-router-pool" -> {"bindEdge", "bindNew", "bindIntf", "addEdge", "addMove", "removeEdge"}
    [] l \in Routers -> Labels \ Resting
    [] OTHER -> {"leavePool", "fipPush"}
Takes(t) ==
  \A l \in LockNames : lock'[l] \in Threads => \/ lock'[l] = lock[l] /\ lock[l] # t
                                               \/ lock'[l] = t /\ th'[t].pc \in HolderAt(l)
Holders == \A l \in LockNames : lock[l] \in Threads => th[lock[l]].pc \in HolderAt(l)

\* A step of a request takes no lock from another, and goes where the locks it has then
\* are held.
LEMMA HoldersStep ==
  ASSUME Holders, NEW t \in Threads, \A u \in Threads \ {t} : th'[u] = th[u], Takes(t)
  PROVE  Holders'
  BY DEF Takes, Holders

\* Each step of a request.
LEMMA WorkHolders ==
  ASSUME SharedAssumption, IInv, Holders, NEW t \in Threads, Work(t)
  PROVE  Holders'
  <1>1. /\ th \in [Threads -> Request] /\ lock \in [LockNames -> Threads \cup {NoThread}]
        /\ NoThread \notin Threads /\ LockNames = Routers \cup Shared
        /\ Routers \cap (Edges \cup {NoEdge, "shared-router-pool", "edge-router"}) = {}
    BY DEF IInv, Types, SharedAssumption, Shared, LockNames
  <1>2. \A u \in Threads \ {t} : th'[u] = th[u]
    BY OwnRequest
  <1> SUFFICES Takes(t)
    BY <1>2, HoldersStep
  <1>3. SUFFICES ASSUME NEW l \in LockNames, lock'[l] \in Threads
                 PROVE  \/ lock'[l] = lock[l] /\ lock[l] # t
                        \/ lock'[l] = t /\ th'[t].pc \in HolderAt(l)
    BY DEF Takes
  <1>4. lock[l] = t => th[t].pc \in HolderAt(l)
    BY <1>3 DEF Holders
  <1>5. ASSUME Done(t) PROVE lock'[l] = lock[l] /\ lock[l] # t
    BY <1>1, <1>3, <1>5 DEF Done, Drop
  <1> USE <1>1, <1>3, <1>4, <1>5 DEF Goto, Request, Labels, Resting, Waiting
  <1>6. CASE Binding(t)
    <2>1. CASE BindPool(t) \/ BindShared(t)
      BY <2>1 DEF BindPool, BindShared, Hold, HolderAt
    <2>2. CASE BindNew(t)
      BY <2>2 DEF BindNew, Hold, HolderAt
    <2>3. CASE BindNewDone(t) \/ BindInterfaces(t)
      BY <2>3 DEF BindNewDone, BindInterfaces, Drop, HolderAt
    <2>4. CASE AddServices(t)
      BY <2>4 DEF AddServices
    <2> QED  BY <1>6, <2>1, <2>2, <2>3, <2>4 DEF Binding
  <1>7. CASE Adding(t)
    <2>1. CASE AddPort(t)
      BY <2>1 DEF AddPort, Hold, HolderAt
    <2>2. CASE AddMove(t) \/ AddLeave(t)
      BY <2>2 DEF AddMove, AddLeave, Drop, HolderAt
    <2>3. CASE AddHere(t) \/ AddStuck(t)
      BY <2>3 DEF AddHere, AddStuck
    <2> QED  BY <1>7, <2>1, <2>2, <2>3 DEF Adding
  <1>8. CASE Removing(t)
    BY <1>8 DEF Removing, RemovePort, RemoveInterface, Hold, HolderAt
  <1>9. CASE Updating(t)
    <2>1. CASE Detach(t) \/ GwMove(t)
      BY <2>1 DEF Detach, GwMove, LeaveEdge, Hold, HolderAt, SharedAssumption, Shared
    <2>2. CASE GwDb(t) \/ GwHere(t)
      BY <2>2 DEF GwDb, GwHere, HolderAt
    <2>3. CASE LeavePool(t)
      BY <2>3 DEF LeavePool, Drop, HolderAt, SharedAssumption, Shared
    <2> QED  BY <1>9, <2>1, <2>2, <2>3 DEF Updating
  <1>10. CASE Floating(t)
    <2>1. CASE FipEdge(t)
      BY <2>1 DEF FipEdge, Hold, HolderAt, SharedAssumption, Shared
    <2>2. CASE FipPush(t)
      BY <2>2 DEF FipPush
    <2> QED  BY <1>10, <2>1, <2>2 DEF Floating
  <1>11. CASE Entering(t) \/ Refusing(t)
    <2>1. ASSUME NEW chosen \in Waiting, NEW label \in {"addPool", "removePool"}, Enter(t, chosen, label)
          PROVE  \/ lock'[l] = lock[l] /\ lock[l] # t
                 \/ lock'[l] = t /\ th'[t].pc \in HolderAt(l)
      <3>1. th[t].r \in Routers /\ th'[t].pc = label
        BY <2>1 DEF Enter, IInv, Locked
      <3>2. CASE l = th[t].r
        BY <2>1, <3>1, <3>2 DEF Enter, Hold, HolderAt
      <3>3. CASE l # th[t].r
        BY <2>1, <3>1, <3>3 DEF Enter, Hold, HolderAt
      <3> QED  BY <3>2, <3>3
    <2>2. CASE OtherType(t) \/ Refused(t)
      BY <2>2 DEF OtherType, Refused
    <2> QED  BY <1>11, <2>1, <2>2 DEF Entering, EnterAdd, EnterRemove, Refusing
  <1> QED  BY <1>6, <1>7, <1>8, <1>9, <1>10, <1>11 DEF Work

\* Each step of the system.
LEMMA NextHolders ==
  ASSUME SharedAssumption, ~MayDeleteBound, IInv, Holders, [Next]_vars
  PROVE  IInv' /\ Holders'
  <1>1. IInv'
    BY NextKeeps
  <1>2. ASSUME NEW t \in Threads, NEW r \in Routers, Start(t, r) PROVE Holders'
    <2>1. th[t].pc = "idle" /\ \A u \in Threads \ {t} : th'[u] = th[u]
      <3>1. th \in [Threads -> Request]
        BY DEF IInv, Types
      <3>2. CASE \E n \in Nets : StartAdd(t, r, n) \/ StartRemove(t, r, n)
        BY <3>1, <3>2 DEF StartAdd, StartRemove, Choose, Idle
      <3>3. CASE \E g \in ExtNets \cup {NoNet} : StartGateway(t, r, g)
        BY <3>1, <3>3 DEF StartGateway, Begin, Idle
      <3>4. CASE StartDetach(t, r) \/ StartAttach(t, r) \/ StartFloating(t, r)
        BY <3>1, <3>4 DEF StartDetach, StartAttach, StartFloating, Begin, Idle
      <3> QED  BY <1>2, <3>2, <3>3, <3>4 DEF Start
    <2>2. \/ lock' = lock
          \/ lock' = [lock EXCEPT ![r] = t] /\ th'[t].pc \in {"gwDb", "detach", "bindPool"}
      <3>1. th \in [Threads -> Request]
        BY DEF IInv, Types
      <3>2. CASE StartFloating(t, r) \/ \E n \in Nets : StartAdd(t, r, n) \/ StartRemove(t, r, n)
        BY <3>2 DEF StartAdd, StartRemove, Choose, StartFloating
      <3>3. CASE StartDetach(t, r) \/ StartAttach(t, r)
        BY <3>1, <3>3 DEF StartDetach, StartAttach, Begin, Hold
      <3>4. CASE \E g \in ExtNets \cup {NoNet} : StartGateway(t, r, g)
        BY <3>1, <3>4 DEF StartGateway, Begin, Hold
      <3> QED  BY <1>2, <3>2, <3>3, <3>4 DEF Start
    <2>3. \A l \in LockNames : "idle" \notin HolderAt(l)
      BY DEF HolderAt, Resting
    <2>4. {"gwDb", "detach", "bindPool"} \subseteq HolderAt(r)
      BY DEF HolderAt, Resting, Waiting, Labels, SharedAssumption
    <2>5. Takes(t)
      BY <2>1, <2>2, <2>3, <2>4 DEF Takes, Holders, IInv, Types
    <2> QED  BY <2>1, <2>5, HoldersStep
  <1>3. ASSUME NEW r \in Routers, DeleteRouter(r) PROVE Holders'
    BY <1>3 DEF DeleteRouter, Holders
  <1>4. CASE UNCHANGED vars
    <2>1. lock' = lock /\ th' = th
      BY <1>4 DEF vars
    <2> QED  BY <1>1, <2>1 DEF Holders
  <1> QED  BY <1>1, <1>2, <1>3, <1>4, WorkHolders DEF Next

\* Without a request in detach_router or a gateway change that waits for the pool, the
\* locks are taken in one order: the pool, 'nsx-edge-router', the edge.
LEMMA OneOrder ==
  ASSUME SharedAssumption, IInv, Holders
  PROVE  DeadlockIsInversion
  <1>1. SUFFICES ASSUME NEW ts \in SUBSET Threads, Deadlocked(ts), \A t \in ts : th[t].pc # "leavePool"
                 PROVE  FALSE
    BY DEF DeadlockIsInversion
  <1>2. ASSUME NEW t \in ts
        PROVE  \E l \in Awaited(t) : /\ lock[l] \in ts /\ l \in LockNames /\ th[lock[l]].pc \in HolderAt(l)
                                     /\ th[t].pc \notin Waiting => l \in Shared
    <2>1. PICK l \in Awaited(t) : lock[l] \in ts
      BY <1>1, <1>2 DEF Deadlocked, WaitsFor
    <2>2. l \in LockNames /\ (th[t].pc \notin Waiting => l \in Shared)
      <3>1. /\ th[t] \in Request /\ (HasBound(t) => edgeOf[th[t].r] \in Edges)
            /\ th[t].pc \in Waiting => th[t].r \in Routers
        BY <1>1, <1>2 DEF IInv, Types, Locked, Expected, HasBound, Working, Resting, Waiting
      <3> QED  BY <2>1, <3>1 DEF Awaited, HasBound, Request, Shared, Waiting, LockNames
    <2> QED  BY <1>1, <2>1, <2>2 DEF Holders
  <1>3. ASSUME NEW t \in ts, th[t].pc = "bindNew" PROVE FALSE
    <2>1. PICK l \in Awaited(t) : lock[l] \in ts /\ l \in Shared /\ th[lock[l]].pc \in HolderAt(l)
      BY <1>2, <1>3 DEF Waiting
    <2>2. l \in Edges
      BY <1>1, <1>3, <2>1 DEF Awaited, IInv, Types, Locked, Expected, HasBound, Working, Resting, Waiting
    <2> QED  BY <1>1, <1>2, <2>1, <2>2 DEF HolderAt, Awaited, SharedAssumption
  <1>4. ASSUME NEW t \in ts, th[t].pc \notin Waiting PROVE th[t].pc \in {"bindPool", "addPool", "removePool"}
    <2>1. SUFFICES ASSUME th[t].pc \notin {"bindPool", "addPool", "removePool"} PROVE FALSE
      OBVIOUS
    <2>2. PICK l \in Awaited(t) : lock[l] \in ts /\ l \in Shared /\ th[lock[l]].pc \in HolderAt(l)
      BY <1>2, <1>4
    <2>3. l \in Edges \cup {"edge-router"}
      <3>1. th[t] \in Request /\ (HasBound(t) => edgeOf[th[t].r] \in Edges)
        BY <1>1, <1>4 DEF IInv, Types, Locked, Expected, HasBound, Working, Resting, Waiting
      <3> QED  BY <1>1, <1>4, <2>1, <2>2, <3>1 DEF Awaited, HasBound, Request, Waiting
    <2>4. th[lock[l]].pc \notin {"leavePool", "fipPush"}
      <3>1. th[lock[l]].pc # "fipPush"
        BY <1>2, <2>2 DEF Awaited
      <3> QED  BY <1>1, <2>2, <3>1
    <2> QED  BY <1>3, <2>2, <2>3, <2>4 DEF HolderAt, SharedAssumption
  <1>5. PICK t \in ts : th[t].pc \notin Waiting
    <2>1. PICK u \in ts : TRUE
      BY <1>1 DEF Deadlocked
    <2>2. PICK l \in Awaited(u) : lock[l] \in ts /\ th[lock[l]].pc \in HolderAt(l)
      BY <1>2
    <2> QED  BY <2>2 DEF HolderAt, Resting, Waiting
  <1>6. PICK l \in Awaited(t) : lock[l] \in ts /\ l \in Shared /\ th[lock[l]].pc \in HolderAt(l)
    BY <1>2, <1>5
  <1>7. l = "shared-router-pool"
    BY <1>4, <1>5, <1>6 DEF Awaited
  <1> QED  BY <1>4, <1>6, <1>7 DEF HolderAt, Waiting

\* detach_router and gateway changes, which wait for 'nsx-shared-router-pool' under the lock
\* of an edge, are a part of every deadlock: without them the locks of the driver, nested
\* four deep and partly dropped and taken again, block nobody for ever.
THEOREM DeadlockNeedsInversion == ASSUME ~MayDeleteBound PROVE Spec => []DeadlockIsInversion
  <1>1. Init => IInv /\ Holders
    <2>1. ASSUME Init PROVE Holders
      BY <2>1, SharedAssumption DEF Init, Holders, LockNames, SharedAssumption
    <2> QED  BY <2>1, SharedAssumption, InitIInv
  <1>2. IInv /\ Holders /\ [Next]_vars => IInv' /\ Holders'
    BY SharedAssumption, NextHolders
  <1>3. IInv /\ Holders => DeadlockIsInversion
    BY SharedAssumption, OneOrder
  <1> QED  BY <1>1, <1>2, <1>3, PTL DEF Spec
-----------------------------------------------------------------------------
(* The interfaces of the edges: which of a router's networks its edge has  *)
(* an interface on while a request is at work on the router.               *)

\* A lock of a router is held by the request at work on the router.
RouterHolders == \A r \in Routers : lock[r] \in Threads => Working(lock[r]) /\ th[lock[r]].r = r

\* What a request knows at each of its steps: 'nsx-shared-router-pool' is its own, its router
\* is still on the edge it has read, its port is there now or is not any more.
AtPool == {"bindEdge", "bindNew", "bindIntf", "addEdge", "addMove", "removeEdge"}
OnItsEdge == {"addPool", "addEdge", "addMove", "removePool", "removeEdge", "detach", "gwDb", "gwEdge"}
Knows(t) ==
  /\ th[t].pc \in AtPool => lock["shared-router-pool"] = t
  /\ th[t].pc \in OnItsEdge => th[t].edge = edgeOf[th[t].r]
  /\ th[t].pc \in {"addEdge", "addMove", "detach", "gwEdge", "fipEdge"} => th[t].edge # NoEdge
  /\ th[t].pc \in {"addEdge", "addMove"} => th[t].net \in nets[th[t].r]
  /\ th[t].pc = "removeEdge" => th[t].net \in Nets \ nets[th[t].r]
Known == RouterHolders /\ \A t \in Threads : Knows(t)

\* The networks of a router that its edge has an interface on: not yet that of a port just
\* added, still that of a port just deleted, none before the router is on its edge in full
\* and after it has begun to leave.
Part(pc, n, ns) ==
  CASE pc \in {"addEdge", "addMove"} -> ns \ {n}
    [] pc = "removeEdge" -> ns \cup {n}
    [] pc \in {"bindNew", "bindIntf", "leavePool"} -> {}
    [] OTHER -> ns
Laid(r) ==
  CASE edgeOf[r] = NoEdge -> {}
    [] edgeOf[r] # NoEdge /\ lock[r] = NoThread -> nets[r]
    [] OTHER -> Part(th[lock[r]].pc, th[lock[r]].net, nets[r])

VnicTypes == vnic \in [Edges -> SUBSET Nets]
Disjoint == \A r, q \in Routers : r # q /\ edgeOf[r] = edgeOf[q] /\ edgeOf[r] \notin spoilt
                                   => Laid(r) \cap Laid(q) = {}
\* An edge in use, on which no exception has left a port behind, has the interfaces of its
\* routers and no others.
Exact ==
  \A e \in Edges \ (free \cup spoilt), n \in Nets :
    n \in vnic[e] <=> \E r \in Routers : edgeOf[r] = e /\ n \in Laid(r)
VnicInv == VnicTypes /\ Disjoint /\ Exact
IntfInv == NetsInv /\ Known /\ VnicInv

\* A request knows what its router has; a router nobody is at work on has all.
LEMMA LaidAtWork ==
  ASSUME SharedAssumption, IInv, NEW t \in Threads, Working(t), edgeOf[th[t].r] # NoEdge
  PROVE  Laid(th[t].r) = Part(th[t].pc, th[t].net, nets[th[t].r])
  BY DEF IInv, Locked, Laid, SharedAssumption
LEMMA LaidAtRest ==
  ASSUME NEW r \in Routers, edgeOf[r] # NoEdge, Can(r)
  PROVE  Laid(r) = nets[r]
  BY DEF Laid, Can

\* A step of t leaves the routers other than r alone.
Local(t, r) ==
  /\ \A u \in Threads \ {t} : th'[u] = th[u]
  /\ \A q \in Routers \ {r} : /\ lock[q] # t /\ lock'[q] = lock[q]
                              /\ edgeOf'[q] = edgeOf[q] /\ nets'[q] = nets[q]
  /\ lock["shared-router-pool"] \in Threads \ {t} => lock'["shared-router-pool"] = lock["shared-router-pool"]

LEMMA OthersLaid ==
  ASSUME SharedAssumption, IInv, NEW t \in Threads, NEW r \in Routers, Local(t, r),
         NEW q \in Routers \ {r}
  PROVE  edgeOf'[q] = edgeOf[q] /\ Laid(q)' = Laid(q)
  <1>1. lock[q] = NoThread \/ lock[q] \in Threads \ {t}
    BY DEF IInv, Types, LockNames, Local
  <1> QED  BY <1>1 DEF Laid, Local

\* What the others know stays true.
LEMMA OthersKnow ==
  ASSUME SharedAssumption, IInv, Known, NEW t \in Threads, NEW r \in Routers, Local(t, r),
         lock[r] \in Threads \ {t} => lock'[r] = lock[r] /\ edgeOf'[r] = edgeOf[r] /\ nets'[r] = nets[r],
         lock'[r] \in {lock[r], t, NoThread},
         lock'[r] = t => Working(t)' /\ th'[t].r = r,
         Knows(t)'
  PROVE  Known'
  <1>1. ASSUME NEW u \in Threads \ {t} PROVE Knows(u)'
    <2>1. Knows(u) /\ th'[u] = th[u] /\ th[u] \in Request
      BY DEF Known, Local, IInv, Types
    <2>2. CASE Working(u)
      <3>1. th[u].r \in Routers /\ lock[th[u].r] = u
        BY <2>2 DEF IInv, Locked
      <3>2. edgeOf'[th[u].r] = edgeOf[th[u].r] /\ nets'[th[u].r] = nets[th[u].r]
        BY <3>1 DEF Local
      <3> QED  BY <2>1, <3>2 DEF Knows, Local
    <2>3. CASE ~Working(u)
      BY <2>1, <2>3 DEF Knows, Working, Resting, Waiting, AtPool, OnItsEdge, Local
    <2> QED  BY <2>2, <2>3
  <1>2. ASSUME NEW q \in Routers, lock'[q] \in Threads PROVE (Working(lock[q]) /\ th[lock[q]].r = q)'
    <2>1. CASE lock'[q] = t
      BY <1>2, <2>1 DEF Local
    <2>2. CASE lock'[q] # t
      <3>1. lock'[q] = lock[q]
        BY <1>2, <2>2 DEF Local, SharedAssumption
      <3>2. th'[lock[q]] = th[lock[q]] /\ Working(lock[q]) /\ th[lock[q]].r = q
        BY <1>2, <2>2, <3>1 DEF Local, Known, RouterHolders
      <3> QED  BY <3>1, <3>2 DEF Working
    <2> QED  BY <2>1, <2>2
  <1> QED  BY <1>1, <1>2 DEF Known, RouterHolders

\* Interfaces of a router, those on S, are removed from its edge, or are added on networks
\* that no other router of the edge is on.
LosesOn(r, S) ==
  /\ spoilt \subseteq spoilt'
  /\ edgeOf'[r] \in {edgeOf[r], NoEdge} /\ free \subseteq free'
  /\ S \subseteq Laid(r) /\ Laid(r)' = Laid(r) \ S /\ vnic' \in [Edges -> SUBSET Nets]
  /\ \A e \in Edges \ free : vnic'[e] = IF e = edgeOf[r] THEN vnic[e] \ S ELSE vnic[e]
GainsOn(r, S) ==
  /\ edgeOf[r] # NoEdge /\ edgeOf'[r] = edgeOf[r] /\ free' = free
  /\ S \subseteq Nets /\ Laid(r)' = Laid(r) \cup S
  /\ vnic' = [vnic EXCEPT ![edgeOf[r]] = @ \cup S]
  /\ spoilt' = spoilt
  /\ \A q \in Routers \ {r} : edgeOf[q] = edgeOf[r] /\ edgeOf[r] \notin spoilt => Laid(q) \cap S = {}

LEMMA Loses ==
  ASSUME SharedAssumption, IInv, VnicInv, NEW t \in Threads, NEW r \in Routers, Local(t, r),
         NEW S, LosesOn(r, S)
  PROVE  VnicInv'
  <1> USE DEF LosesOn
  <1>1. \A q \in Routers \ {r} : edgeOf'[q] = edgeOf[q] /\ Laid(q)' = Laid(q)
    BY OthersLaid
  <1>2. edgeOf'[r] # edgeOf[r] => Laid(r)' = {}
    BY DEF Laid
  <1>3. \A p, q \in Routers : p # q /\ edgeOf[p] = edgeOf[q] /\ edgeOf[p] \notin spoilt
                               => Laid(p) \cap Laid(q) = {}
    BY DEF VnicInv, Disjoint
  <1>4. \A q \in Routers : Laid(q)' \subseteq Laid(q)
    BY <1>1
  <1>5. ASSUME NEW p \in Routers, NEW q \in Routers, p # q, edgeOf'[p] = edgeOf'[q], edgeOf'[p] \notin spoilt'
        PROVE  Laid(p)' \cap Laid(q)' = {}
    <2>1. CASE edgeOf[p] = edgeOf[q]
      <3>1. CASE edgeOf'[r] = edgeOf[r] \/ r \notin {p, q}
        BY <1>1, <1>3, <1>4, <1>5, <2>1, <3>1
      <3>2. CASE edgeOf'[r] # edgeOf[r] /\ r \in {p, q}
        BY <1>2, <3>2
      <3> QED  BY <3>1, <3>2
    <2>2. CASE edgeOf[p] # edgeOf[q]
      BY <1>1, <1>2, <1>5, <2>2
    <2> QED  BY <2>1, <2>2
  <1>6. ASSUME NEW e \in Edges \ (free' \cup spoilt'), NEW n \in Nets
        PROVE  n \in vnic'[e] <=> \E q \in Routers : edgeOf'[q] = e /\ n \in Laid(q)'
    <2>1. e \in Edges \ (free \cup spoilt) /\ (n \in vnic[e] <=> \E q \in Routers : edgeOf[q] = e /\ n \in Laid(q))
      BY DEF VnicInv, Exact
    <2>2. e # NoEdge
      BY DEF SharedAssumption
    <2>3. ASSUME n \in vnic'[e] PROVE \E q \in Routers : edgeOf'[q] = e /\ n \in Laid(q)'
      <3>1. n \in vnic[e] /\ ~(e = edgeOf[r] /\ n \in S)
        BY <2>1, <2>3
      <3>2. PICK q \in Routers : edgeOf[q] = e /\ n \in Laid(q)
        BY <2>1, <3>1
      <3>3. CASE q = r
        <4>1. n \in Laid(r)'
          BY <3>1, <3>2, <3>3
        <4>2. edgeOf'[r] = edgeOf[r]
          BY <1>2, <4>1
        <4> QED  BY <3>2, <3>3, <4>1, <4>2
      <3>4. CASE q # r
        <4>1. edgeOf'[q] = e /\ n \in Laid(q)'
          BY <1>1, <3>2, <3>4
        <4> QED  BY <4>1
      <3> QED  BY <3>3, <3>4
    <2>4. ASSUME NEW q \in Routers, edgeOf'[q] = e, n \in Laid(q)' PROVE n \in vnic'[e]
      <3>1. edgeOf[q] = e /\ n \in Laid(q)
        BY <1>1, <1>4, <2>2, <2>4
      <3>2. n \in vnic[e]
        BY <2>1, <3>1
      <3>3. ~(e = edgeOf[r] /\ n \in S)
        <4>1. CASE q = r
          BY <2>4, <4>1
        <4>2. CASE q # r
          BY <1>3, <2>1, <3>1, <4>2
        <4> QED  BY <4>1, <4>2
      <3> QED  BY <2>1, <3>2, <3>3
    <2> QED  BY <2>3, <2>4
  <1> QED  BY <1>5, <1>6 DEF VnicInv, VnicTypes, Disjoint, Exact

LEMMA Gains ==
  ASSUME SharedAssumption, IInv, VnicInv, NEW t \in Threads, NEW r \in Routers, Local(t, r),
         NEW S, GainsOn(r, S)
  PROVE  VnicInv'
  <1> USE DEF GainsOn
  <1>1. \A q \in Routers \ {r} : edgeOf'[q] = edgeOf[q] /\ Laid(q)' = Laid(q)
    BY OthersLaid
  <1>2. VnicTypes' /\ edgeOf[r] \in Edges
    BY DEF VnicInv, VnicTypes, IInv, Types
  <1>3. Disjoint'
    BY <1>1 DEF VnicInv, Disjoint
  <1>4. ASSUME NEW e \in Edges \ (free \cup spoilt), NEW n \in Nets
        PROVE  n \in vnic'[e] <=> \E q \in Routers : edgeOf'[q] = e /\ n \in Laid(q)'
    <2>1. n \in vnic[e] <=> \E q \in Routers : edgeOf[q] = e /\ n \in Laid(q)
      BY DEF VnicInv, Exact
    <2>2. n \in vnic'[e] <=> n \in vnic[e] \/ (e = edgeOf[r] /\ n \in S)
      BY <1>2 DEF VnicInv, VnicTypes
    <2>3. ASSUME n \in vnic'[e] PROVE \E q \in Routers : edgeOf'[q] = e /\ n \in Laid(q)'
      <3>1. CASE e = edgeOf[r] /\ n \in S
        <4>1. edgeOf'[r] = e /\ n \in Laid(r)'
          BY <3>1
        <4> QED  BY <4>1
      <3>2. CASE n \in vnic[e]
        <4>1. PICK q \in Routers : edgeOf[q] = e /\ n \in Laid(q)
          BY <2>1, <3>2
        <4>2. edgeOf'[q] = e /\ n \in Laid(q)'
          BY <1>1, <4>1
        <4> QED  BY <4>2
      <3> QED  BY <2>2, <2>3, <3>1, <3>2
    <2>4. ASSUME NEW q \in Routers, edgeOf'[q] = e, n \in Laid(q)' PROVE n \in vnic'[e]
      BY <1>1, <2>1, <2>2, <2>4
    <2> QED  BY <2>3, <2>4
  <1> QED  BY <1>2, <1>3, <1>4 DEF VnicInv, Exact

\* A router is bound to an edge, and has no interface there yet.
LEMMA Arrives ==
  ASSUME SharedAssumption, IInv, VnicInv, NEW t \in Threads, NEW r \in Routers, Local(t, r),
         edgeOf[r] = NoEdge, NEW e \in Edges, edgeOf'[r] = e, free' = free \ {e},
         Laid(r)' = {}, vnic' = IF e \in free THEN [vnic EXCEPT ![e] = {}] ELSE vnic,
         spoilt' = IF e \in free THEN spoilt \ {e} ELSE spoilt
  PROVE  VnicInv'
  <1>1. \A q \in Routers \ {r} : edgeOf'[q] = edgeOf[q] /\ Laid(q)' = Laid(q)
    BY OthersLaid
  <1>2. VnicTypes'
    BY DEF VnicInv, VnicTypes
  <1>3. Disjoint'
    <2>1. ASSUME NEW p \in Routers \ {r}, edgeOf[p] \notin spoilt' PROVE edgeOf[p] \notin spoilt
      BY <2>1 DEF IInv, NoLeakedEdge
    <2> QED  BY <1>1, <2>1 DEF VnicInv, Disjoint
  <1>4. ASSUME NEW f \in Edges \ (free' \cup spoilt'), NEW n \in Nets
        PROVE  n \in vnic'[f] <=> \E q \in Routers : edgeOf'[q] = f /\ n \in Laid(q)'
    <2>1. (\E q \in Routers : edgeOf'[q] = f /\ n \in Laid(q)') <=> \E q \in Routers : edgeOf[q] = f /\ n \in Laid(q)
      BY <1>1 DEF SharedAssumption
    <2>2. CASE f \in free
      <3>1. f = e /\ vnic'[f] = {}
        BY <2>2 DEF VnicInv, VnicTypes
      <3>2. \A q \in Routers : edgeOf[q] # f
        BY <2>2 DEF IInv, NoLeakedEdge
      <3> QED  BY <2>1, <3>1, <3>2
    <2>3. CASE f \notin free
      <3>1. vnic'[f] = vnic[f]
        BY <2>3 DEF VnicInv, VnicTypes
      <3> QED  BY <2>1, <2>3, <3>1 DEF VnicInv, Exact
    <2> QED  BY <2>2, <2>3
  <1> QED  BY <1>2, <1>3, <1>4 DEF VnicInv, Exact

\* No interface and no row changes.
LEMMA StaysLaid ==
  ASSUME VnicInv, \A r \in Routers : edgeOf'[r] = edgeOf[r] /\ Laid(r)' = Laid(r),
         UNCHANGED <<free, vnic, spoilt>>
  PROVE  VnicInv'
  BY DEF VnicInv, VnicTypes, Disjoint, Exact

\* The edge of the router r is spoilt from now on.
LEMMA Spoils ==
  ASSUME VnicInv, NEW r \in Routers, spoilt' = spoilt \cup {edgeOf[r]}, UNCHANGED <<edgeOf, free, vnic>>,
         \A q \in Routers \ {r} : Laid(q)' = Laid(q)
  PROVE  VnicInv'
  <1>1. VnicTypes' /\ Disjoint'
    BY DEF VnicInv, VnicTypes, Disjoint
  <1>2. ASSUME NEW e \in Edges \ (free \cup spoilt'), NEW n \in Nets
        PROVE  n \in vnic[e] <=> \E q \in Routers : edgeOf[q] = e /\ n \in Laid(q)'
    <2>1. n \in vnic[e] <=> \E q \in Routers : edgeOf[q] = e /\ n \in Laid(q)
      BY DEF VnicInv, Exact
    <2>2. \A q \in Routers : edgeOf[q] = e => Laid(q)' = Laid(q)
      OBVIOUS
    <2> QED  BY <2>1, <2>2
  <1> QED  BY <1>1, <1>2 DEF VnicInv, Exact

\* The steps of a request that works on a router.
AtWork(t) == Binding(t) \/ Adding(t) \/ Removing(t) \/ Updating(t) \/ Refusing(t)

\* The locks that a request takes and drops, and the row it writes.
LEMMA WorkLocal ==
  ASSUME SharedAssumption, IInv, NetTypes, Known, NEW t \in Threads, AtWork(t)
  PROVE  /\ Working(t) /\ th[t].r \in Routers /\ lock[th[t].r] = t /\ Local(t, th[t].r)
         /\ Done(t) \/ \E label \in Labels \ Resting : Goto(t, label) /\ lock'[th[t].r] = t
  <1> USE DEF Refusing, Refused
  <1> DEFINE r == th[t].r
  <1>1. Working(t)
    BY DEF AtWork, Binding, BindPool, BindShared, BindNew, BindNewDone, BindInterfaces, AddServices, Adding,
           AddPort, AddHere, AddMove, AddLeave, AddStuck, Removing, RemovePort, RemoveInterface, Updating,
           Detach, GwDb, GwHere, GwMove, LeavePool, Working, Resting, Waiting
  <1>2. r \in Routers /\ lock[r] = t
    BY <1>1 DEF IInv, Locked
  <1>3. \A u \in Threads \ {t} : th'[u] = th[u]
    BY OwnRequest DEF AtWork, Work
  <1>4. \A q \in Routers \ {r} : lock[q] # t
    BY DEF Known, RouterHolders
  <1>5. /\ lock \in [LockNames -> Threads \cup {NoThread}] /\ NoThread \notin Threads
        /\ Routers \subseteq LockNames /\ "shared-router-pool" \in LockNames
        /\ Routers \cap (Edges \cup {"shared-router-pool", "edge-router"}) = {}
        /\ "shared-router-pool" \notin Edges \cup {NoEdge}
    BY DEF IInv, Types, SharedAssumption, LockNames
  <1>6. th[t].edge \in Edges \cup {NoEdge}
    BY DEF IInv, Types, Request
  <1> DEFINE Locks(ls) == /\ \A q \in Routers \ {r} : lock'[q] = lock[q]
                          /\ lock["shared-router-pool"] \in Threads \ {t}
                               => lock'["shared-router-pool"] = lock["shared-router-pool"]
                          /\ ls \cap Routers = {} => lock'[r] = t
  <1>7. ASSUME NEW ls, Drop(t, ls) PROVE Locks(ls)
    BY <1>2, <1>4, <1>5, <1>7 DEF Drop
  <1>8. ASSUME NEW l \in Edges \cup {NoEdge, "shared-router-pool", "edge-router"}, Can(l), Hold(t, l), l \notin Routers
        PROVE  Locks({})
    BY <1>2, <1>5, <1>8 DEF Hold, Can
  <1>9. ASSUME UNCHANGED lock PROVE Locks({})
    BY <1>2, <1>9
  <1>10. edgeOf' = edgeOf \/ Unbinds(r) \/ (\E e \in Edges : edgeOf' = [edgeOf EXCEPT ![r] = e])
    <2>1. \A e \in Fits(r) : e \in Edges
      BY DEF Fits, Available, IInv, Types
    <2>2. free \subseteq Edges
      BY DEF IInv, Types
    <2> QED  BY <2>1, <2>2 DEF AtWork, Binding, BindPool, BindShared, BindNew, BindNewDone, BindInterfaces,
           AddServices, Adding, Roomiest, dbVars,
           AddPort, AddHere, AddMove, AddLeave, AddStuck, Removing, RemovePort, RemoveInterface, Updating, Detach, GwDb,
           GwHere, GwMove, LeaveEdge, LeavePool, Unbind, Unbinds
  <1>11. nets' = nets \/ (\E n : nets' = [nets EXCEPT ![r] = @ \cup {n}]) \/ (\E n : nets' = [nets EXCEPT ![r] = @ \ {n}])
    BY DEF AtWork, Binding, BindPool, BindShared, BindNew, BindNewDone, BindInterfaces, AddServices, Adding, dbVars,
           AddPort, AddHere, AddMove, AddLeave, AddStuck, Removing, RemovePort, RemoveInterface, Updating, Detach, GwDb,
           GwHere, GwMove, LeaveEdge, LeavePool
  <1>12. \A q \in Routers \ {r} : edgeOf'[q] = edgeOf[q] /\ nets'[q] = nets[q]
    <2>1. \A q \in Routers \ {r} : edgeOf'[q] = edgeOf[q]
      BY <1>2, <1>10 DEF Unbinds, IInv, Types
    <2>2. \A q \in Routers \ {r} : nets'[q] = nets[q]
      BY <1>2, <1>11 DEF NetTypes
    <2> QED  BY <2>1, <2>2
  <1>13. \/ Done(t) /\ Locks(LockNames)
         \/ \E label \in Labels \ Resting : Goto(t, label) /\ Locks({})
    <2> HIDE DEF Locks
    <2> USE DEF Labels, Resting, Waiting
    <2>0. Done(t) => Locks(LockNames)
      BY <1>7 DEF Done
    <2>1. CASE Binding(t)
      <3>1. Drop(t, {"edge-router"}) \/ Drop(t, {"shared-router-pool"}) => Locks({})
        BY <1>5, <1>7 DEF Locks
      <3> QED  BY <1>5, <1>8, <1>9, <2>0, <2>1, <3>1
            DEF Binding, BindPool, BindShared, BindNew, BindNewDone, BindInterfaces, AddServices
    <2>2. CASE Adding(t)
      <3>1. Drop(t, {"shared-router-pool"}) => Locks({})
        BY <1>5, <1>7 DEF Locks
      <3> QED  BY <1>5, <1>8, <1>9, <2>0, <2>2, <3>1 DEF Adding, AddPort, AddHere, AddMove, AddLeave, AddStuck
    <2>3. CASE Removing(t)
      BY <1>5, <1>8, <2>0, <2>3 DEF Removing, RemovePort, RemoveInterface
    <2>4. CASE Updating(t)
      <3>1. Drop(t, Edges) => Locks({})
        BY <1>5, <1>7 DEF Locks
      <3>2. CASE Detach(t) \/ GwMove(t)
        <4>1. th[t].edge # NoEdge
          BY <3>2 DEF Detach, GwMove, Known, Knows, OnItsEdge
        <4>2. th[t].edge \notin Routers
          BY <1>5, <1>6, <4>1
        <4> QED  BY <1>6, <1>8, <2>0, <3>2, <4>2 DEF Detach, GwMove, LeaveEdge
      <3>3. CASE GwDb(t) \/ GwHere(t) \/ LeavePool(t)
        BY <1>9, <2>0, <3>1, <3>3 DEF GwDb, GwHere, LeavePool
      <3> QED  BY <2>4, <3>2, <3>3 DEF Updating
    <2>5. CASE Refusing(t)
      BY <2>0, <2>5
    <2> QED  BY <2>1, <2>2, <2>3, <2>4, <2>5 DEF AtWork
  <1> QED  BY <1>1, <1>2, <1>3, <1>4, <1>12, <1>13 DEF Local

\* What a request knows at its next step.
LEMMA WorkKnows ==
  ASSUME SharedAssumption, IInv, NetTypes, Known, NEW t \in Threads, AtWork(t)
  PROVE  Known'
  <1> DEFINE r == th[t].r
  <1>1. /\ Working(t) /\ r \in Routers /\ lock[r] = t /\ Local(t, r)
        /\ Done(t) \/ \E label \in Labels \ Resting : Goto(t, label) /\ lock'[r] = t
    BY WorkLocal
  <1>2. /\ th \in [Threads -> Request] /\ lock \in [LockNames -> Threads \cup {NoThread}] /\ NoThread \notin Threads
        /\ "shared-router-pool" \in LockNames /\ r \in LockNames /\ nets \in [Routers -> SUBSET Nets]
        /\ {"shared-router-pool", "edge-router"} \cap (Edges \cup {NoEdge}) = {}
    BY <1>1 DEF IInv, Types, SharedAssumption, LockNames, NetTypes
  <1>3. Knows(t)
    BY DEF Known
  <1>4. ASSUME Done(t) PROVE lock'[r] = NoThread /\ Knows(t)'
    BY <1>1, <1>2, <1>4 DEF Done, Drop, Idle, Knows, AtPool, OnItsEdge
  <1>5. \/ lock'[r] = NoThread
        \/ lock'[r] = t /\ Working(t)' /\ th'[t].r = r
    <2>1. ASSUME NEW label \in Labels \ Resting, Goto(t, label)
          PROVE  th'[t].pc = label /\ th'[t].r = r
      BY <1>2, <2>1 DEF Goto, Request
    <2> QED  BY <1>1, <1>4, <2>1 DEF Working
  <1>6. ASSUME NEW label, Goto(t, label)
        PROVE  /\ th'[t].pc = label /\ th'[t].r = r /\ th'[t].net = th[t].net /\ th'[t].edge = th[t].edge
    BY <1>2, <1>6 DEF Goto, Request
  <1>7. Knows(t)'
    <2> USE <1>1, <1>2, <1>3 DEF Knows, AtPool, OnItsEdge
    <2>1. CASE Binding(t)
      <3>1. CASE BindPool(t)
        BY <1>6, <3>1 DEF BindPool, Hold
      <3>2. CASE BindShared(t)
        BY <1>6, <3>2 DEF BindShared
      <3>3. CASE BindNew(t)
        BY <1>6, <3>3 DEF BindNew, Hold
      <3>4. CASE BindNewDone(t)
        BY <1>6, <3>4 DEF BindNewDone, Drop
      <3>5. CASE BindInterfaces(t)
        BY <1>6, <3>5 DEF BindInterfaces
      <3>6. CASE AddServices(t)
        BY <1>4, <3>6 DEF AddServices
      <3> QED  BY <2>1, <3>1, <3>2, <3>3, <3>4, <3>5, <3>6 DEF Binding
    <2>2. CASE Adding(t)
      <3>1. CASE AddPort(t)
        BY <1>6, <3>1 DEF AddPort, Hold
      <3>2. CASE AddMove(t)
        BY <1>6, <3>2 DEF AddMove, dbVars
      <3>3. CASE AddLeave(t)
        BY <1>6, <3>3 DEF AddLeave
      <3>4. CASE AddHere(t) \/ AddStuck(t)
        BY <1>4, <3>4 DEF AddHere, AddStuck
      <3> QED  BY <2>2, <3>1, <3>2, <3>3, <3>4 DEF Adding
    <2>3. CASE Removing(t)
      <3>1. CASE RemovePort(t)
        BY <1>6, <3>1 DEF RemovePort, Hold
      <3>2. CASE RemoveInterface(t)
        BY <1>4, <3>2 DEF RemoveInterface
      <3> QED  BY <2>3, <3>1, <3>2 DEF Removing
    <2>4. CASE Updating(t)
      <3>1. CASE Detach(t) \/ GwMove(t)
        BY <1>4, <1>6, <3>1 DEF Detach, GwMove, LeaveEdge
      <3>2. CASE GwDb(t)
        BY <1>4, <1>6, <3>2 DEF GwDb
      <3>3. CASE GwHere(t)
        BY <1>4, <3>3 DEF GwHere
      <3>4. CASE LeavePool(t)
        BY <1>4, <1>6, <3>4 DEF LeavePool
      <3> QED  BY <2>4, <3>1, <3>2, <3>3, <3>4 DEF Updating
    <2>5. CASE Refusing(t)
      BY <1>4, <2>5 DEF Refusing, Refused
    <2> QED  BY <2>1, <2>2, <2>3, <2>4, <2>5 DEF AtWork
  <1> QED  BY <1>1, <1>2, <1>5, <1>7, OthersKnow

LaidAfter(t, r) ==
  /\ Laid(r) = IF edgeOf[r] = NoEdge THEN {} ELSE Part(th[t].pc, th[t].net, nets[r])
  /\ Done(t) => Laid(r)' = IF edgeOf'[r] = NoEdge THEN {} ELSE nets'[r]
  /\ \A label \in Labels \ Resting :
       ~Done(t) /\ Goto(t, label)
         => Laid(r)' = IF edgeOf'[r] = NoEdge THEN {} ELSE Part(label, th[t].net, nets'[r])

\* What the router of a request has after a step of the request.
LEMMA LaidNext ==
  ASSUME SharedAssumption, IInv, NetTypes, Known, NEW t \in Threads, AtWork(t), NEW r, r = th[t].r
  PROVE  LaidAfter(t, r)
  <1>1. /\ Working(t) /\ r \in Routers /\ lock[r] = t
        /\ Done(t) \/ \E label \in Labels \ Resting : Goto(t, label) /\ lock'[r] = t
    BY WorkLocal
  <1>2. th \in [Threads -> Request] /\ NoThread # t /\ r \in LockNames
    BY <1>1 DEF IInv, Types, SharedAssumption, LockNames
  <1>3. Laid(r) = IF edgeOf[r] = NoEdge THEN {} ELSE Part(th[t].pc, th[t].net, nets[r])
    BY <1>1, <1>2 DEF Laid
  <1>4. ASSUME Done(t) PROVE Laid(r)' = IF edgeOf'[r] = NoEdge THEN {} ELSE nets'[r]
    <2>1. lock'[r] = NoThread
      BY <1>1, <1>2, <1>4 DEF Done, Drop
    <2> QED  BY <2>1 DEF Laid
  <1>5. ASSUME NEW label \in Labels \ Resting, ~Done(t), Goto(t, label)
        PROVE  Laid(r)' = IF edgeOf'[r] = NoEdge THEN {} ELSE Part(label, th[t].net, nets'[r])
    <2>1. lock'[r] = t
      BY <1>1, <1>5
    <2>2. th'[t].pc = label /\ th'[t].net = th[t].net
      BY <1>2, <1>5 DEF Goto, Request
    <2> QED  BY <1>2, <2>1, <2>2 DEF Laid
  <1> QED  BY <1>3, <1>4, <1>5 DEF LaidAfter

\* Under 'nsx-shared-router-pool' no other router has an interface without a port, and while
\* nobody is deciding the networks of the routers of an edge differ.
LEMMA OthersAtPool ==
  ASSUME SharedAssumption, IntfInv, NEW t \in Threads, th[t].pc \in AtPool, NEW q \in Routers, q # th[t].r
  PROVE  /\ Laid(q) \subseteq nets[q]
         /\ ~Deciding(t) /\ edgeOf[q] = edgeOf[th[t].r] /\ edgeOf[q] \notin {NoEdge} \cup spoilt
              => nets[q] \cap nets[th[t].r] = {}
  <1>1. /\ IInv /\ RouterHolders /\ NetworksApart
        /\ \A u \in Threads : th[u].pc \in AtPool => lock["shared-router-pool"] = u
    BY DEF IntfInv, NetsInv, Known, Knows
  <1>2. th[t].r \in Routers
    BY <1>1 DEF IInv, Locked, Working, Resting, Waiting, AtPool
  <1>3. Laid(q) \subseteq nets[q]
    <2>1. CASE lock[q] \in Threads
      <3>1. th[lock[q]].r = q
        BY <1>1, <2>1 DEF RouterHolders
      <3>2. lock[q] # t
        BY <3>1
      <3>3. th[lock[q]].pc # "removeEdge"
        BY <1>1, <2>1, <3>2 DEF AtPool
      <3> QED  BY <3>3 DEF Laid, Part
    <2>2. CASE lock[q] \notin Threads
      BY <1>1, <2>2 DEF Laid, IInv, Types, LockNames
    <2> QED  BY <2>1, <2>2
  <1>4. ASSUME ~Deciding(t), edgeOf[q] = edgeOf[th[t].r], edgeOf[q] \notin {NoEdge} \cup spoilt, nets[q] \cap nets[th[t].r] # {}
        PROVE  FALSE
    <2>1. Clash(nets[q], nets[th[t].r])
      BY <1>4 DEF Clash
    <2>2. PICK u \in Threads : Deciding(u)
      BY <1>1, <1>2, <1>4, <2>1 DEF NetworksApart, Deciding
    <2> QED  BY <1>1, <1>4, <2>2 DEF Deciding, AtPool
  <1> QED  BY <1>3, <1>4

\* bind_router_on_available_edge and what follows it.
LEMMA BindingLays ==
  ASSUME SharedAssumption, IntfInv, NEW t \in Threads, Binding(t)
  PROVE  VnicInv'
  <1>1. IInv /\ NetTypes /\ Known /\ VnicInv /\ AtWork(t)
    BY DEF IntfInv, NetsInv, AtWork
  <1>2. PICK r \in Routers : r = th[t].r /\ Working(t) /\ lock[r] = t /\ Local(t, r)
    BY <1>1, WorkLocal
  <1>3. \A q \in Routers \ {r} : edgeOf'[q] = edgeOf[q] /\ Laid(q)' = Laid(q)
    BY <1>1, <1>2, OthersLaid
  <1>4. LaidAfter(t, r)
    BY <1>1, <1>2, LaidNext
  <1>5. th \in [Threads -> Request] /\ edgeOf \in [Routers -> Edges \cup {NoEdge}]
        /\ free \subseteq Edges /\ NoEdge \notin Edges
    BY <1>1 DEF IInv, Types, SharedAssumption
  <1>6. ASSUME NEW label \in Labels \ Resting, Goto(t, label) PROVE ~Done(t)
    BY <1>5, <1>6 DEF Goto, Done, Idle, Request, Resting
  <1> USE DEF LaidAfter, Resting, Waiting
  <1>7. CASE BindPool(t) /\ UNCHANGED spoilt
    BY <1>1, <1>2, <1>3, <1>4, <1>6, <1>7, StaysLaid DEF BindPool, dbVars, Labels, Part
  <1>8. CASE BindNew(t) \/ (BindShared(t) /\ UNCHANGED spoilt)
    <2>1. edgeOf[r] = NoEdge
      BY <1>1, <1>2, <1>8 DEF BindShared, BindNew, IInv, Expected, ToBind
    <2>2. PICK e \in Edges : /\ edgeOf' = [edgeOf EXCEPT ![r] = e] /\ free' = free \ {e}
                             /\ vnic' = IF e \in free THEN [vnic EXCEPT ![e] = {}] ELSE vnic
                             /\ spoilt' = IF e \in free THEN spoilt \ {e} ELSE spoilt
      <3>1. CASE BindNew(t)
        BY <1>2, <1>5, <3>1 DEF BindNew
      <3>2. CASE BindShared(t) /\ UNCHANGED spoilt
        <4>1. PICK e \in Fits(r) : edgeOf' = [edgeOf EXCEPT ![r] = e]
          BY <1>2, <3>2 DEF BindShared, Roomiest
        <4>2. PICK q \in Routers : edgeOf[q] = e /\ e # NoEdge
          BY <4>1 DEF Fits, Available
        <4>3. e \in Edges \ free
          BY <1>1, <1>5, <4>2 DEF IInv, NoLeakedEdge
        <4>4. e \in Edges /\ e \notin free /\ free' = free \ {e} /\ vnic' = vnic /\ spoilt' = spoilt
          BY <3>2, <4>3 DEF BindShared
        <4> QED  BY <4>1, <4>4
      <3> QED  BY <1>8, <3>1, <3>2
    <2>3. Laid(r)' = {}
      BY <1>2, <1>4, <1>6, <1>8 DEF BindShared, BindNew, Labels, Part
    <2> QED  BY <1>1, <1>2, <1>5, <2>1, <2>2, <2>3, Arrives
  <1>9. CASE BindNewDone(t) /\ UNCHANGED spoilt
    BY <1>1, <1>2, <1>3, <1>4, <1>6, <1>9, StaysLaid DEF BindNewDone, dbVars, Labels, Part
  <1>10. CASE BindInterfaces(t) /\ UNCHANGED spoilt
    <2>1. edgeOf[r] # NoEdge
      BY <1>1, <1>2, <1>10 DEF BindInterfaces, IInv, Expected, HasBound
    <2>2. Laid(r) = {} /\ Laid(r)' = nets[r] /\ nets[r] \in SUBSET Nets
      BY <1>1, <1>2, <1>4, <1>6, <1>10, <2>1 DEF BindInterfaces, dbVars, Labels, Part, NetTypes
    <2>3. \A q \in Routers \ {r} : edgeOf[q] = edgeOf[r] /\ edgeOf[r] \notin spoilt => Laid(q) \cap nets[r] = {}
      BY <1>2, <1>10, <2>1, OthersAtPool DEF BindInterfaces, AtPool, Deciding
    <2>4. vnic' = [vnic EXCEPT ![edgeOf[r]] = @ \cup nets[r]] /\ edgeOf' = edgeOf /\ free' = free /\ spoilt' = spoilt
      BY <1>2, <1>10 DEF BindInterfaces
    <2>5. PICK S \in SUBSET Nets : S = nets[r]
      BY <2>2
    <2>6. Laid(r)' = Laid(r) \cup S /\ edgeOf'[r] = edgeOf[r]
      BY <2>2, <2>4, <2>5
    <2> HIDE DEF LaidAfter
    <2>7. GainsOn(r, S)
      BY <2>1, <2>3, <2>4, <2>5, <2>6 DEF GainsOn
    <2> QED  BY <1>1, <1>2, <2>7, Gains
  <1>11. CASE AddServices(t) /\ UNCHANGED spoilt
    BY <1>1, <1>2, <1>3, <1>4, <1>11, StaysLaid DEF AddServices, dbVars, Part
  <1> QED  BY <1>7, <1>8, <1>9, <1>10, <1>11 DEF Binding

\* What the lemmas about the steps of a request start from.
LEMMA AtWorkFacts ==
  ASSUME SharedAssumption, IntfInv, NEW t \in Threads, AtWork(t)
  PROVE  /\ IInv /\ NetTypes /\ Known /\ VnicInv
         /\ \E r \in Routers :
              /\ r = th[t].r /\ Working(t) /\ lock[r] = t /\ Local(t, r) /\ LaidAfter(t, r)
              /\ \A q \in Routers \ {r} : edgeOf'[q] = edgeOf[q] /\ Laid(q)' = Laid(q)
         /\ th \in [Threads -> Request] /\ edgeOf \in [Routers -> Edges \cup {NoEdge}]
         /\ free \subseteq Edges /\ NoEdge \notin Edges /\ Knows(t)
         /\ \A label \in Labels \ {"idle"} : Goto(t, label) => ~Done(t)
  <1>1. IInv /\ NetTypes /\ Known /\ VnicInv
    BY DEF IntfInv, NetsInv
  <1>2. PICK r \in Routers : r = th[t].r /\ Working(t) /\ lock[r] = t /\ Local(t, r)
    BY <1>1, WorkLocal
  <1>3. \A q \in Routers \ {r} : edgeOf'[q] = edgeOf[q] /\ Laid(q)' = Laid(q)
    BY <1>1, <1>2, OthersLaid
  <1>4. LaidAfter(t, r)
    BY <1>1, <1>2, LaidNext
  <1>5. th \in [Threads -> Request] /\ edgeOf \in [Routers -> Edges \cup {NoEdge}]
        /\ free \subseteq Edges /\ NoEdge \notin Edges /\ Knows(t)
    BY <1>1 DEF IInv, Types, SharedAssumption, Known
  <1>6. ASSUME NEW label \in Labels \ {"idle"}, Goto(t, label) PROVE ~Done(t)
    BY <1>5, <1>6 DEF Goto, Done, Idle, Request
  <1> QED  BY <1>1, <1>2, <1>3, <1>4, <1>5, <1>6

\* The interfaces that a step of a request takes off the edge it has read.
TakesOffOn(r, S) ==
  /\ edgeOf[r] # NoEdge /\ vnic' = [vnic EXCEPT ![edgeOf[r]] = @ \ S]
  /\ S \subseteq Laid(r) /\ Laid(r)' = Laid(r) \ S
  /\ (edgeOf' = edgeOf /\ free' = free) \/ Unbind(r)
  /\ spoilt' = spoilt
LEMMA TakesOff ==
  ASSUME SharedAssumption, IntfInv, NEW t \in Threads, AtWork(t), NEW r \in Routers, r = th[t].r,
         NEW S, TakesOffOn(r, S)
  PROVE  VnicInv'
  <1> USE DEF TakesOffOn
  <1>1. IInv /\ VnicInv /\ Local(t, r) /\ edgeOf \in [Routers -> Edges \cup {NoEdge}] /\ free \subseteq Edges
    BY AtWorkFacts
  <1>2. edgeOf'[r] \in {edgeOf[r], NoEdge} /\ free \subseteq free'
    BY <1>1 DEF Unbind
  <1>3. /\ vnic' \in [Edges -> SUBSET Nets]
        /\ \A e \in Edges \ free : vnic'[e] = IF e = edgeOf[r] THEN vnic[e] \ S ELSE vnic[e]
    BY <1>1 DEF VnicInv, VnicTypes
  <1>4. LosesOn(r, S)
    BY <1>2, <1>3 DEF LosesOn
  <1> QED  BY <1>1, <1>4, Loses

\* add_router_interface.
LEMMA AddingLays ==
  ASSUME SharedAssumption, IntfInv, NEW t \in Threads, Adding(t)
  PROVE  VnicInv'
  <1>1. AtWork(t)
    BY DEF AtWork
  <1>2. PICK r \in Routers :
          /\ r = th[t].r /\ Working(t) /\ lock[r] = t /\ Local(t, r) /\ LaidAfter(t, r)
          /\ \A q \in Routers \ {r} : edgeOf'[q] = edgeOf[q] /\ Laid(q)' = Laid(q)
    BY <1>1, AtWorkFacts
  <1>3. /\ IInv /\ NetTypes /\ Known /\ VnicInv
        /\ th \in [Threads -> Request] /\ edgeOf \in [Routers -> Edges \cup {NoEdge}]
        /\ free \subseteq Edges /\ NoEdge \notin Edges /\ Knows(t)
        /\ \A label \in Labels \ {"idle"} : Goto(t, label) => ~Done(t)
    BY <1>1, AtWorkFacts
  <1> USE DEF Labels, Resting, Waiting, Part
  <1>4. CASE AddPort(t) /\ UNCHANGED spoilt
    <2>1. edgeOf' = edgeOf /\ vnic' = vnic /\ free' = free /\ nets'[r] = nets[r] \cup {th[t].net}
          /\ th[t].edge = edgeOf[r] /\ th[t].net \notin nets[r]
      BY <1>2, <1>3, <1>4 DEF AddPort, NetTypes, Knows, OnItsEdge
    <2>2. Laid(r)' = Laid(r)
      <3>1. CASE edgeOf[r] = NoEdge
        BY <2>1, <3>1 DEF Laid
      <3>2. CASE edgeOf[r] # NoEdge
        <4>1. Laid(r) = nets[r] /\ Laid(r)' = nets'[r] \ {th[t].net}
          BY <1>2, <1>3, <1>4, <2>1, <3>2 DEF AddPort, LaidAfter
        <4> QED  BY <2>1, <4>1
      <3> QED  BY <3>1, <3>2
    <2> QED  BY <1>2, <1>3, <1>4, <2>1, <2>2, StaysLaid
  <1>5. CASE AddHere(t) /\ UNCHANGED spoilt
    <2>0. PICK S : S = {th[t].net}
      OBVIOUS
    <2>1. /\ th[t].edge = edgeOf[r] /\ edgeOf[r] # NoEdge /\ th[t].net \in nets[r] /\ nets[r] \subseteq Nets
          /\ edgeOf' = edgeOf /\ edgeOf'[r] = edgeOf[r] /\ free' = free /\ nets' = nets
      BY <1>2, <1>3, <1>5 DEF AddHere, Knows, OnItsEdge, NetTypes, dbVars
    <2>2. Laid(r)' = Laid(r) \cup S
      BY <1>2, <1>3, <1>5, <2>0, <2>1 DEF AddHere, LaidAfter
    <2>3. \A q \in Routers \ {r} : edgeOf[q] = edgeOf[r] /\ edgeOf[r] \notin spoilt => Laid(q) \cap S = {}
      <3>1. SUFFICES ASSUME NEW q \in Routers \ {r}, edgeOf[q] = edgeOf[r] PROVE nets[q] \cap nets[r] = {}
        BY <1>2, <1>5, <2>0, <2>1, OthersAtPool DEF AddHere, AtPool
      <3>2. rtype[q] = "shared" /\ q \in SameEdge(r)
        BY <1>3, <2>1, <3>1 DEF IInv, BoundShared, SameEdge, OnEdge
      <3>3. q \notin ConflictRouters(r)
        BY <1>2, <1>5, <3>2 DEF AddHere, AddMustMove, ConflictOnEdge
      <3> QED  BY <3>3 DEF ConflictRouters
    <2>4. vnic' = [vnic EXCEPT ![edgeOf[r]] = @ \cup S]
      BY <1>2, <1>5, <2>0, <2>1 DEF AddHere
    <2>5. S \in SUBSET Nets
      BY <2>0, <2>1
    <2>6. GainsOn(r, S)
      BY <1>5, <2>1, <2>2, <2>3, <2>4, <2>5 DEF GainsOn
    <2> QED  BY <1>2, <1>3, <2>6, Gains
  <1>6. CASE AddMove(t) /\ UNCHANGED spoilt
    <2>1. edgeOf' = edgeOf /\ vnic' = vnic /\ free' = free /\ Laid(r)' = Laid(r)
      BY <1>2, <1>3, <1>6 DEF AddMove, LaidAfter, dbVars
    <2> QED  BY <1>2, <1>3, <1>6, <2>1, StaysLaid
  <1>7. CASE AddLeave(t) /\ UNCHANGED spoilt
    <2>0. PICK S : S = nets[r] \ {th[t].net}
      OBVIOUS
    <2>1. th[t].edge = edgeOf[r] /\ edgeOf[r] # NoEdge /\ Unbind(r) /\ edgeOf'[r] = NoEdge
      BY <1>2, <1>3, <1>7 DEF AddLeave, Knows, OnItsEdge, Unbind
    <2>2. Laid(r) = S
      BY <1>2, <1>7, <2>0, <2>1 DEF AddLeave, LaidAfter
    <2>3. Laid(r)' = {}
      BY <2>1 DEF Laid
    <2>4. vnic' = [vnic EXCEPT ![edgeOf[r]] = @ \ S]
      BY <1>2, <1>7, <2>0, <2>1 DEF AddLeave, RemoveServices
    <2>5. S \subseteq Laid(r) /\ Laid(r)' = Laid(r) \ S
      BY <2>2, <2>3
    <2>6. TakesOffOn(r, S)
      BY <1>7, <2>1, <2>4, <2>5 DEF TakesOffOn
    <2> QED  BY <1>1, <1>2, <2>6, TakesOff
  <1>8. CASE AddStuck(t)
    <2>1. th[t].edge = edgeOf[r] /\ vnic' = vnic /\ UNCHANGED <<edgeOf, free>>
      BY <1>2, <1>3, <1>8 DEF AddStuck, RemoveServices, Knows, OnItsEdge
    <2> QED  BY <1>2, <1>3, <1>8, <2>1, Spoils DEF AddStuck
  <1> QED  BY <1>4, <1>5, <1>6, <1>7, <1>8 DEF Adding

\* remove_router_interface.
LEMMA RemovingLays ==
  ASSUME SharedAssumption, IntfInv, NEW t \in Threads, Removing(t)
  PROVE  VnicInv'
  <1>1. AtWork(t)
    BY DEF AtWork
  <1>2. PICK r \in Routers :
          /\ r = th[t].r /\ Working(t) /\ lock[r] = t /\ Local(t, r) /\ LaidAfter(t, r)
          /\ \A q \in Routers \ {r} : edgeOf'[q] = edgeOf[q] /\ Laid(q)' = Laid(q)
    BY <1>1, AtWorkFacts
  <1>3. /\ IInv /\ NetTypes /\ Known /\ VnicInv
        /\ th \in [Threads -> Request] /\ edgeOf \in [Routers -> Edges \cup {NoEdge}]
        /\ free \subseteq Edges /\ NoEdge \notin Edges /\ Knows(t)
        /\ \A label \in Labels \ {"idle"} : Goto(t, label) => ~Done(t)
    BY <1>1, AtWorkFacts
  <1> USE DEF Labels, Resting, Waiting, Part
  <1>0. spoilt' = spoilt
    BY DEF Removing
  <1>4. CASE RemovePort(t)
    <2>1. edgeOf' = edgeOf /\ vnic' = vnic /\ free' = free /\ nets'[r] = nets[r] \ {th[t].net}
          /\ th[t].net \in nets[r]
      BY <1>2, <1>3, <1>4 DEF RemovePort, NetTypes
    <2>2. CASE edgeOf[r] # NoEdge
      <3>1. Laid(r) = nets[r] /\ Laid(r)' = nets'[r] \cup {th[t].net}
        BY <1>2, <1>3, <1>4, <2>1, <2>2 DEF RemovePort, LaidAfter
      <3>2. Laid(r)' = Laid(r)
        BY <2>1, <3>1
      <3> QED  BY <1>0, <1>2, <1>3, <2>1, <3>2, StaysLaid
    <2>3. CASE edgeOf[r] = NoEdge
      <3>1. Laid(r)' = Laid(r)
        BY <2>1, <2>3 DEF Laid
      <3> QED  BY <1>0, <1>2, <1>3, <2>1, <3>1, StaysLaid
    <2> QED  BY <2>2, <2>3
  <1>5. CASE RemoveInterface(t) /\ edgeOf[r] # NoEdge
    <2>0. PICK S : S = {th[t].net}
      OBVIOUS
    <2>1. /\ th[t].edge = edgeOf[r] /\ edgeOf[r] # NoEdge /\ th[t].net \notin nets[r] /\ nets' = nets
          /\ (edgeOf' = edgeOf /\ free' = free) \/ (nets[r] = {} /\ Unbind(r))
      BY <1>2, <1>3, <1>5 DEF RemoveInterface, Knows, OnItsEdge, dbVars
    <2>2. Laid(r) = nets[r] \cup S
      BY <1>2, <1>5, <2>0, <2>1 DEF RemoveInterface, LaidAfter
    <2>3. Laid(r)' = nets[r]
      BY <1>2, <1>3, <1>5, <2>1 DEF RemoveInterface, LaidAfter
    <2>4. vnic' = [vnic EXCEPT ![edgeOf[r]] = @ \ S]
      BY <1>2, <1>5, <2>0, <2>1 DEF RemoveInterface
    <2>5. S \subseteq Laid(r) /\ Laid(r)' = Laid(r) \ S
      BY <2>0, <2>1, <2>2, <2>3
    <2>6. TakesOffOn(r, S)
      BY <1>0, <2>1, <2>4, <2>5 DEF TakesOffOn
    <2> QED  BY <1>1, <1>2, <2>6, TakesOff
  <1>6. CASE RemoveInterface(t) /\ edgeOf[r] = NoEdge
    <2>1. th[t].edge = NoEdge /\ vnic' = vnic
      BY <1>2, <1>3, <1>6 DEF RemoveInterface, Knows, OnItsEdge, VnicInv, VnicTypes
    <2>2. edgeOf' = edgeOf /\ free' = free
      BY <1>2, <1>3, <1>6 DEF RemoveInterface, Unbind, SameEdge
    <2>3. Laid(r)' = Laid(r)
      BY <1>6, <2>2 DEF Laid
    <2> QED  BY <1>0, <1>2, <1>3, <2>1, <2>2, <2>3, StaysLaid
  <1> QED  BY <1>4, <1>5, <1>6 DEF Removing

\* update_router: a router leaves its interfaces before it leaves its edge.
LEMMA UpdatingLays ==
  ASSUME SharedAssumption, IntfInv, NEW t \in Threads, Updating(t)
  PROVE  VnicInv'
  <1>1. AtWork(t)
    BY DEF AtWork
  <1>2. PICK r \in Routers :
          /\ r = th[t].r /\ Working(t) /\ lock[r] = t /\ Local(t, r) /\ LaidAfter(t, r)
          /\ \A q \in Routers \ {r} : edgeOf'[q] = edgeOf[q] /\ Laid(q)' = Laid(q)
    BY <1>1, AtWorkFacts
  <1>3. /\ IInv /\ NetTypes /\ Known /\ VnicInv
        /\ th \in [Threads -> Request] /\ edgeOf \in [Routers -> Edges \cup {NoEdge}]
        /\ free \subseteq Edges /\ NoEdge \notin Edges /\ Knows(t)
        /\ \A label \in Labels \ {"idle"} : Goto(t, label) => ~Done(t)
    BY <1>1, AtWorkFacts
  <1> USE DEF Labels, Resting, Waiting, Part
  <1>0. spoilt' = spoilt
    BY DEF Updating
  <1>4. CASE (Detach(t) \/ GwMove(t)) /\ ~Raises(OnEdge(th[t].edge) \ {th[t].r})
    <2>0. PICK S : S = nets[r]
      OBVIOUS
    <2>1. /\ th[t].edge = edgeOf[r] /\ edgeOf[r] # NoEdge /\ nets' = nets
          /\ edgeOf' = edgeOf /\ free' = free
      BY <1>2, <1>3, <1>4 DEF Detach, GwMove, LeaveEdge, Knows, OnItsEdge, dbVars
    <2>2. Laid(r) = S
      BY <1>2, <1>4, <2>0, <2>1 DEF Detach, GwMove, LaidAfter
    <2>3. Laid(r)' = {}
      BY <1>2, <1>3, <1>4, <2>1 DEF Detach, GwMove, LeaveEdge, LaidAfter
    <2>4. vnic' = [vnic EXCEPT ![edgeOf[r]] = @ \ S]
      BY <1>2, <1>4, <2>0, <2>1 DEF Detach, GwMove, LeaveEdge, RemoveServices
    <2>5. S \subseteq Laid(r) /\ Laid(r)' = Laid(r) \ S
      BY <2>2, <2>3
    <2>6. TakesOffOn(r, S)
      BY <1>0, <2>1, <2>4, <2>5 DEF TakesOffOn
    <2> QED  BY <1>1, <1>2, <2>6, TakesOff
  <1>8. CASE (Detach(t) \/ GwMove(t)) /\ Raises(OnEdge(th[t].edge) \ {th[t].r})
    <2>1. vnic' = vnic /\ edgeOf' = edgeOf /\ free' = free /\ nets' = nets /\ Done(t)
      BY <1>8 DEF Detach, GwMove, LeaveEdge, RemoveServices, dbVars
    <2>2. Laid(r)' = Laid(r)
      BY <1>2, <1>8, <2>1 DEF Detach, GwMove, LaidAfter
    <2> QED  BY <1>0, <1>2, <1>3, <2>1, <2>2, StaysLaid
  <1>5. CASE GwDb(t)
    <2>1. edgeOf' = edgeOf /\ vnic' = vnic /\ free' = free /\ nets' = nets
      BY <1>5 DEF GwDb
    <2>2. Laid(r)' = Laid(r)
      BY <1>2, <1>3, <1>5, <2>1 DEF GwDb, LaidAfter
    <2> QED  BY <1>0, <1>2, <1>3, <2>1, <2>2, StaysLaid
  <1>6. CASE GwHere(t)
    <2>1. edgeOf' = edgeOf /\ vnic' = vnic /\ free' = free /\ nets' = nets
      BY <1>6 DEF GwHere, dbVars
    <2>2. Laid(r)' = Laid(r)
      BY <1>2, <1>3, <1>6, <2>1 DEF GwHere, LaidAfter
    <2> QED  BY <1>0, <1>2, <1>3, <2>1, <2>2, StaysLaid
  <1>7. CASE LeavePool(t)
    <2>1. Unbind(r) /\ vnic' = vnic /\ edgeOf'[r] = NoEdge
      BY <1>2, <1>3, <1>7 DEF LeavePool, Unbind
    <2>2. Laid(r) = {} /\ Laid(r)' = {}
      BY <1>2, <1>7, <2>1 DEF LeavePool, LaidAfter, Laid
    <2>3. LosesOn(r, {})
      BY <1>0, <1>3, <2>1, <2>2 DEF LosesOn, Unbind, VnicInv, VnicTypes
    <2> QED  BY <1>2, <1>3, <2>3, Loses
  <1> QED  BY <1>4, <1>5, <1>6, <1>7, <1>8 DEF Updating

\* Steps of requests that work on no router, or have yet to begin: they take no lock of a
\* router, and change the ports of none but one on no edge that nobody is at work on.
Idles(t) == /\ \A q \in Routers : lock'[q] = lock[q] /\ lock[q] # t
            /\ lock["shared-router-pool"] \in Threads \ {t} => lock'["shared-router-pool"] = lock["shared-router-pool"]
            /\ \A u \in Threads \ {t} : th'[u] = th[u]
            /\ ~Working(t)' /\ Knows(t)' /\ UNCHANGED <<edgeOf, free, vnic, spoilt>>
            /\ \A q \in Routers : nets'[q] # nets[q] => edgeOf[q] = NoEdge /\ Can(q)
LEMMA IdlesLays ==
  ASSUME SharedAssumption, IntfInv, NEW t \in Threads, Idles(t)
  PROVE  Known' /\ VnicInv'
  <1>1. IInv /\ Known /\ VnicInv
    BY DEF IntfInv, NetsInv
  <1>2. ASSUME NEW q \in Routers PROVE Laid(q)' = Laid(q)
    <2>1. lock[q] = NoThread \/ lock[q] \in Threads \ {t}
      BY <1>1 DEF IInv, Types, LockNames, Idles
    <2> QED  BY <2>1 DEF Laid, Idles
  <1>3. VnicInv'
    BY <1>1, <1>2, StaysLaid DEF Idles
  <1>4. RouterHolders'
    <2>1. ASSUME NEW q \in Routers, lock'[q] \in Threads PROVE (Working(lock[q]) /\ th[lock[q]].r = q)'
      BY <1>1, <2>1 DEF Idles, Known, RouterHolders, Working
    <2> QED  BY <2>1 DEF RouterHolders
  <1>5. ASSUME NEW u \in Threads PROVE Knows(u)'
    <2>1. CASE u = t
      BY <2>1 DEF Idles
    <2>2. CASE u # t
      <3>1. Knows(u) /\ th'[u] = th[u] /\ th[u] \in Request /\ NoThread \notin Threads
        BY <1>1, <2>2 DEF Idles, Known, IInv, Types, SharedAssumption
      <3>2. CASE Working(u)
        <4>1. nets'[th[u].r] = nets[th[u].r]
          BY <1>1, <3>1, <3>2 DEF Idles, IInv, Locked, Can
        <4> QED  BY <2>2, <3>1, <4>1 DEF Idles, Knows
      <3>3. CASE ~Working(u)
        BY <2>2, <3>1, <3>3 DEF Idles, Knows, Working, Resting, Waiting, AtPool, OnItsEdge
      <3> QED  BY <3>2, <3>3
    <2> QED  BY <2>1, <2>2
  <1> QED  BY <1>3, <1>4, <1>5 DEF Known
LEMMA FloatingLays ==
  ASSUME SharedAssumption, IntfInv, NEW t \in Threads, Floating(t) \/ (OtherType(t) /\ UNCHANGED spoilt)
  PROVE  Known' /\ VnicInv'
  <1>1. /\ IInv /\ RouterHolders /\ lock \in [LockNames -> Threads \cup {NoThread}]
        /\ th \in [Threads -> Request] /\ Routers \subseteq LockNames /\ NoThread \notin Threads /\ Knows(t)
        /\ "shared-router-pool" \in LockNames
        /\ Routers \cap (Edges \cup {"shared-router-pool", "edge-router"}) = {}
        /\ "shared-router-pool" \notin Edges \cup {NoEdge} /\ nets \in [Routers -> SUBSET Nets]
    BY DEF IntfInv, NetsInv, Known, IInv, Types, LockNames, NetTypes, SharedAssumption
  <1>2. \A q \in Routers : lock[q] # t
    BY <1>1 DEF Floating, FipEdge, FipPush, OtherType, RouterHolders, Working, Resting, Waiting
  <1>3. \A u \in Threads \ {t} : th'[u] = th[u]
    BY <1>1, OwnRequest DEF Work, Entering
  <1>4. ASSUME Done(t) PROVE /\ \A q \in Routers : lock'[q] = lock[q]
                             /\ ~Working(t)' /\ Knows(t)'
                             /\ lock["shared-router-pool"] \in Threads \ {t}
                                  => lock'["shared-router-pool"] = lock["shared-router-pool"]
    BY <1>1, <1>2, <1>4 DEF Done, Drop, Working, Resting, Waiting, Idle, Knows, AtPool, OnItsEdge
  <1>5. ASSUME FipEdge(t), ~Done(t)
        PROVE  /\ \A q \in Routers : lock'[q] = lock[q]
               /\ ~Working(t)' /\ Knows(t)'
               /\ lock'["shared-router-pool"] = lock["shared-router-pool"]
    <2>1. Hold(t, th[t].edge) /\ th' = [th EXCEPT ![t].pc = "fipPush", ![t].rs = SameEdge(th[t].r)]
      BY <1>5 DEF FipEdge
    <2>2. ~Working(t)' /\ Knows(t)'
      BY <1>1, <2>1 DEF Working, Resting, Waiting, Request, Knows, AtPool, OnItsEdge
    <2>3. th[t].edge \in Edges
      BY <1>1, <1>5 DEF FipEdge, Request, Knows
    <2> QED  BY <1>1, <2>1, <2>2, <2>3 DEF Hold
  <1>6. \A q \in Routers : nets'[q] # nets[q] => edgeOf[q] = NoEdge /\ Can(q)
    <2>1. CASE Floating(t)
      BY <2>1 DEF Floating, FipEdge, FipPush, dbVars
    <2>2. CASE OtherType(t)
      <3>1. th[t].r \in Routers /\ edgeOf[th[t].r] = NoEdge /\ Can(th[t].r)
        BY <1>1, <2>2 DEF OtherType, IInv, Locked, Waiting, BoundShared
      <3>2. \A q \in Routers \ {th[t].r} : nets'[q] = nets[q]
        BY <1>1, <2>2 DEF OtherType
      <3> QED  BY <3>1, <3>2
    <2> QED  BY <2>1, <2>2
  <1>7. CASE Floating(t)
    <2>1. Idles(t)
      BY <1>2, <1>3, <1>4, <1>5, <1>6, <1>7 DEF Idles, Floating, FipEdge, FipPush, dbVars
    <2> QED  BY <2>1, IdlesLays
  <1>8. CASE OtherType(t) /\ UNCHANGED spoilt
    <2>1. Idles(t)
      BY <1>2, <1>3, <1>4, <1>6, <1>8 DEF Idles, OtherType
    <2> QED  BY <2>1, IdlesLays
  <1> QED  BY <1>7, <1>8

\* The begin of a request with the lock of its router.
Begins(t, r) ==
  /\ Can(r) /\ Hold(t, r) /\ UNCHANGED <<nets, edgeOf, free, vnic, spoilt>>
  /\ th'[t].pc \in {"addPool", "removePool", "gwDb", "detach", "bindPool"}
  /\ th'[t].r = r /\ th'[t].edge = edgeOf[r]
  /\ th'[t].pc = "detach" => edgeOf[r] # NoEdge
  /\ \A u \in Threads \ {t} : th'[u] = th[u]
LEMMA BeginsLays ==
  ASSUME SharedAssumption, IntfInv, NEW t \in Threads, NEW r \in Routers, th[t].pc \in Resting, Begins(t, r)
  PROVE  Known' /\ VnicInv'
  <1>1. /\ IInv /\ NetTypes /\ Known /\ VnicInv /\ RouterHolders
        /\ lock \in [LockNames -> Threads \cup {NoThread}] /\ th \in [Threads -> Request]
        /\ Routers \subseteq LockNames /\ NoThread \notin Threads /\ "shared-router-pool" \notin Routers
    BY DEF IntfInv, NetsInv, Known, IInv, Types, LockNames, SharedAssumption
  <1>2. \A q \in Routers : lock[q] # t
    BY <1>1 DEF RouterHolders, Working
  <1>3. Local(t, r) /\ lock'[r] = t /\ lock[r] = NoThread
    BY <1>1, <1>2 DEF Begins, Local, Hold, Can
  <1>4. Knows(t)' /\ Working(t)'
    BY DEF Begins, Knows, Working, Resting, Waiting, AtPool, OnItsEdge
  <1>5. Known'
    BY <1>1, <1>3, <1>4, OthersKnow DEF Begins
  <1>6. Laid(r)' = Laid(r)
    BY <1>1, <1>3 DEF Begins, Laid, Part
  <1>7. \A q \in Routers \ {r} : edgeOf'[q] = edgeOf[q] /\ Laid(q)' = Laid(q)
    BY <1>1, <1>3, OthersLaid
  <1> QED  BY <1>1, <1>5, <1>6, <1>7, StaysLaid DEF Begins

\* A request about an interface gets the lock that it has waited for.
LEMMA EnterLays ==
  ASSUME SharedAssumption, IntfInv, NEW t \in Threads, EnterAdd(t) \/ EnterRemove(t), UNCHANGED spoilt
  PROVE  Known' /\ VnicInv'
  <1>1. PICK chosen \in Waiting, label \in {"addPool", "removePool"} : Enter(t, chosen, label)
    BY DEF EnterAdd, EnterRemove, Waiting
  <1>2. th[t].r \in Routers /\ th \in [Threads -> Request] /\ th[t].pc \in Resting
    BY <1>1 DEF Enter, IntfInv, NetsInv, IInv, Locked, Types, Resting
  <1>3. /\ th'[t].pc = label /\ th'[t].r = th[t].r /\ th'[t].edge = edgeOf[th[t].r]
        /\ \A u \in Threads \ {t} : th'[u] = th[u]
    BY <1>1, <1>2 DEF Enter, Request
  <1>4. Begins(t, th[t].r)
    BY <1>1, <1>3 DEF Enter, Begins, dbVars
  <1> QED  BY <1>2, <1>4, BeginsLays

\* The start of a request.
LEMMA StartLays ==
  ASSUME SharedAssumption, IntfInv, NEW t \in Threads, NEW r \in Routers, Start(t, r)
  PROVE  Known' /\ VnicInv'
  <1>1. /\ IInv /\ NetTypes /\ Known /\ VnicInv /\ RouterHolders
        /\ lock \in [LockNames -> Threads \cup {NoThread}] /\ th \in [Threads -> Request]
        /\ Routers \subseteq LockNames /\ NoThread \notin Threads /\ "shared-router-pool" \notin Routers
    BY DEF IntfInv, NetsInv, Known, IInv, Types, LockNames, SharedAssumption
  <1>2. th[t].pc = "idle" /\ (\A u \in Threads \ {t} : th'[u] = th[u]) /\ \A q \in Routers : lock[q] # t
    <2>1. th[t].pc = "idle"
      <3>1. th[t] = Idle
        BY DEF Start, StartAdd, StartRemove, Choose, StartGateway, StartDetach, StartAttach, StartFloating,
               Begin
      <3> QED  BY <3>1 DEF Idle
    <2>2. \A u \in Threads \ {t} : th'[u] = th[u]
      <3>1. CASE \E n \in Nets : StartAdd(t, r, n) \/ StartRemove(t, r, n)
        BY <1>1, <3>1 DEF StartAdd, StartRemove, Choose
      <3>2. CASE StartDetach(t, r) \/ StartAttach(t, r) \/ StartFloating(t, r)
        BY <1>1, <3>2 DEF StartDetach, StartAttach, StartFloating, Begin
      <3>3. CASE \E g \in ExtNets \cup {NoNet} : StartGateway(t, r, g)
        BY <1>1, <3>3 DEF StartGateway, Begin
      <3> QED  BY <3>1, <3>2, <3>3 DEF Start
    <2>3. \A q \in Routers : lock[q] # t
      BY <1>1, <2>1 DEF RouterHolders, Working, Resting
    <2> QED  BY <2>1, <2>2, <2>3
  <1>0. spoilt' = spoilt
    BY DEF Start
  <1>3. CASE StartFloating(t, r)
    <2>1. ~Working(t)' /\ Knows(t)'
      BY <1>1, <1>3 DEF StartFloating, Begin, Working, Resting, Waiting, Knows, AtPool, OnItsEdge
    <2> QED  BY <1>0, <1>2, <1>3, <2>1, IdlesLays DEF StartFloating, Idles, dbVars
  <1>5. ASSUME NEW op, NEW n, NEW label \in Waiting, Choose(t, op, r, n, label) PROVE Known' /\ VnicInv'
    <2>1. th'[t].pc = label
      BY <1>1, <1>5 DEF Choose, Idle
    <2>2. ~Working(t)' /\ Knows(t)'
      BY <2>1 DEF Working, Resting, Waiting, Knows, AtPool, OnItsEdge
    <2> QED  BY <1>0, <1>2, <1>5, <2>2, IdlesLays DEF Choose, Idles, dbVars
  <1>4. ASSUME StartDetach(t, r) \/ StartAttach(t, r) \/ \E g \in ExtNets \cup {NoNet} : StartGateway(t, r, g)
        PROVE  Known' /\ VnicInv'
    <2>1. Begins(t, r)
      <3>1. ASSUME NEW g \in ExtNets \cup {NoNet}, StartGateway(t, r, g) PROVE Begins(t, r)
        BY <1>0, <1>1, <1>2, <3>1 DEF StartGateway, Begin, Begins, dbVars
      <3>2. CASE StartDetach(t, r) \/ StartAttach(t, r)
        BY <1>0, <1>1, <1>2, <3>2 DEF StartDetach, StartAttach, Begin, Begins, dbVars
      <3> QED  BY <1>4, <3>1, <3>2
    <2> QED  BY <1>2, <2>1, BeginsLays DEF Resting
  <1> QED  BY <1>3, <1>4, <1>5 DEF Start, StartAdd, StartRemove, Waiting

\* A request that is refused leaves all as it is.
LEMMA RefusingLays ==
  ASSUME SharedAssumption, IntfInv, NEW t \in Threads, Refusing(t)
  PROVE  VnicInv'
  <1>1. AtWork(t)
    BY DEF AtWork
  <1>2. /\ VnicInv /\ th[t].pc \in {"addPool", "removePool"} /\ Done(t)
        /\ edgeOf' = edgeOf /\ nets' = nets /\ UNCHANGED <<free, vnic, spoilt>>
    BY DEF Refusing, Refused, dbVars, IntfInv
  <1>3. PICK r \in Routers :
          LaidAfter(t, r) /\ \A q \in Routers \ {r} : edgeOf'[q] = edgeOf[q] /\ Laid(q)' = Laid(q)
    BY <1>1, AtWorkFacts
  <1>4. Laid(r)' = Laid(r)
    BY <1>2, <1>3 DEF LaidAfter, Part
  <1> QED  BY <1>2, <1>3, <1>4, StaysLaid

\* Each step of the system.
LEMMA NextLays ==
  ASSUME SharedAssumption, ~MayDeleteBound, IntfInv, [Next]_vars
  PROVE  IntfInv'
  <1>1. NetsInv'
    BY NextApart DEF IntfInv
  <1>2. ASSUME NEW t \in Threads, AtWork(t) PROVE Known' /\ VnicInv'
    BY <1>2, WorkKnows, BindingLays, AddingLays, RemovingLays, UpdatingLays, RefusingLays
       DEF AtWork, IntfInv, NetsInv
  <1>3. ASSUME NEW r \in Routers, DeleteRouter(r) PROVE Known' /\ VnicInv'
    <2>1. edgeOf' = edgeOf /\ nets' = nets /\ th' = th /\ lock' = lock /\ vnic' = vnic /\ free' = free
          /\ spoilt' = spoilt
      BY <1>3 DEF DeleteRouter, IntfInv, NetsInv, IInv, Types
    <2>2. Known'
      BY <2>1 DEF IntfInv, Known, RouterHolders, Knows, Working
    <2>3. \A q \in Routers : Laid(q)' = Laid(q)
      BY <2>1 DEF Laid
    <2> QED  BY <2>1, <2>2, <2>3, StaysLaid DEF IntfInv
  <1>4. CASE UNCHANGED vars
    <2>1. edgeOf' = edgeOf /\ nets' = nets /\ th' = th /\ lock' = lock /\ vnic' = vnic /\ free' = free
          /\ spoilt' = spoilt
      BY <1>4 DEF vars, dbVars
    <2>2. Known'
      BY <2>1 DEF IntfInv, Known, RouterHolders, Knows, Working
    <2>3. \A q \in Routers : Laid(q)' = Laid(q)
      BY <2>1 DEF Laid
    <2> QED  BY <1>1, <2>1, <2>2, <2>3, StaysLaid DEF IntfInv
  <1>5. ASSUME NEW t \in Threads, Entering(t) PROVE Known' /\ VnicInv'
    BY <1>5, EnterLays, FloatingLays DEF Entering
  <1> QED  BY <1>1, <1>2, <1>3, <1>4, <1>5, FloatingLays, StartLays DEF Next, Work, AtWork, IntfInv

\* No interface at first.
LEMMA InitLays == ASSUME SharedAssumption, Init PROVE IntfInv
  <1>1. NetsInv
    BY InitIInv DEF Init, NetsInv, NetTypes, Asked, Asking, Waiting, NetworksApart, Idle
  <1>2. Known
    BY DEF Init, Known, RouterHolders, Knows, Idle, AtPool, OnItsEdge, LockNames, SharedAssumption
  <1>3. VnicInv
    BY DEF Init, VnicInv, VnicTypes, Disjoint, Exact, Laid
  <1> QED  BY <1>1, <1>2, <1>3 DEF IntfInv

\* The edge of a router at rest has its interfaces, and an edge whose routers are all at
\* rest has no other.
LEMMA AtRestInPlace == ASSUME SharedAssumption, IntfInv PROVE InterfacesInPlace
  <1>1. /\ IInv /\ NetTypes /\ VnicTypes /\ Exact /\ edgeOf \in [Routers -> Edges \cup {NoEdge}]
        /\ NoLeakedEdge /\ BoundShared /\ NoEdge \notin Edges
    BY DEF IntfInv, NetsInv, VnicInv, IInv, Types, SharedAssumption
  <1>2. ASSUME NEW r \in Routers, edgeOf[r] \notin {NoEdge} \cup spoilt, Can(r)
        PROVE  nets[r] \subseteq vnic[edgeOf[r]]
    <2>1. edgeOf[r] \in Edges \ free /\ nets[r] \subseteq Nets
      BY <1>1, <1>2 DEF NoLeakedEdge, NetTypes
    <2> QED  BY <1>1, <1>2, <2>1, LaidAtRest DEF Exact
  <1>3. ASSUME NEW e \in Edges \ (free \cup spoilt), \A r \in OnEdge(e) : Can(r)
        PROVE  vnic[e] \subseteq UNION {nets[r] : r \in OnEdge(e)}
    <2>1. ASSUME NEW n \in vnic[e] PROVE \E r \in OnEdge(e) : n \in nets[r]
      <3>1. n \in Nets
        BY <1>1, <2>1 DEF VnicTypes
      <3>2. PICK r \in Routers : edgeOf[r] = e /\ n \in Laid(r)
        BY <1>1, <2>1, <3>1 DEF Exact
      <3>3. r \in OnEdge(e)
        BY <1>1, <3>2 DEF OnEdge, BoundShared
      <3>4. Laid(r) = nets[r]
        BY <1>1, <1>3, <3>2, <3>3, LaidAtRest
      <3> QED  BY <3>2, <3>3, <3>4
    <2> QED  BY <2>1
  <1> QED  BY <1>2, <1>3 DEF InterfacesInPlace

\* A router that no request is at work on has an interface on each of its networks, and its
\* edge has none that belongs to no router, unless an exception has left a port of the edge's
\* routers on no interface: the interfaces that requests put on and take off an edge that
\* others share, under locks they drop in between, go astray in no other way.
THEOREM InterfacesMatchPorts == ASSUME ~MayDeleteBound PROVE Spec => []InterfacesInPlace
  <1>1. Init => IntfInv
    BY SharedAssumption, InitLays
  <1>2. IntfInv /\ [Next]_vars => IntfInv'
    BY SharedAssumption, NextLays
  <1>3. IntfInv => InterfacesInPlace
    BY SharedAssumption, AtRestInPlace
  <1> QED  BY <1>1, <1>2, <1>3, PTL DEF Spec
=============================================================================
