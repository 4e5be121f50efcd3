------------------------------ MODULE DhcpEdge ------------------------------
(***************************************************************************)
(* DHCP edges of the NSX-V plugin.  A network with a DHCP subnet has a row *)
(* that binds it to an edge, a slot (vnic and tunnel) of that edge in the  *)
(* table of vnics, and a sub-interface in that slot at the backend.        *)
(* Networks share an edge unless their subnets overlap; a new subnet may   *)
(* move its network to another edge.                                       *)
(*                                                                         *)
(* Requests on subnets and networks and the housekeeping job run in        *)
(* threads; each takes other locks: of the network, of its updates, of the *)
(* edge, 'nsx-dhcp-edge-pool'.  EdgePool has what is below the allocation  *)
(* of an edge.  The slots of an edge are tunnels of one vnic; networks of  *)
(* one availability zone, without metadata proxy and exclusive edges.      *)
(***************************************************************************)
EXTENDS Naturals, FiniteSets

CONSTANTS
  Threads, Nets, Subnets, Edges, Slots,
  NetOf,             \* the network of each subnet
  Overlap,           \* pairs of subnets whose addresses overlap
  Reserve,           \* slots that are kept for the metadata network
  MaxFaults,         \* failures of the backend
  Races,             \* what shares no lock may overlap: two requests on one network, the
                     \* choice of an edge with a deletion that does not lock the pool, the
                     \* job with requests on the edges it repairs
  NoThread, NoNet, NoSubnet, NoEdge, NoSlot

ASSUME DhcpAssumption ==
  /\ NetOf \in [Subnets -> Nets] /\ Overlap \subseteq SUBSET Subnets
  /\ Reserve \in Nat /\ MaxFaults \in Nat /\ Races \in BOOLEAN
  /\ NoThread \notin Threads /\ NoNet \notin Nets /\ NoSubnet \notin Subnets
  /\ NoEdge \notin Edges /\ NoSlot \notin Slots /\ IsFiniteSet(Slots) /\ Slots # {}

VARIABLES
  nets,    \* networks in the database
  subnet,  \* subnets in the database: "none", "on" (with DHCP) or "off"
  row,     \* nsxv_router_bindings of the networks: edge and status
  vnic,    \* nsxv_edge_vnic_bindings: the network of each slot of each edge
  iface,   \* sub-interfaces at the backend: the network of the switch, the addresses, and
           \* as history, whether a failed deletion or the job has left it there
  free,    \* edges that are nobody's: pooled, deleted or not deployed
  lock,    \* holder of each named lock
  th,      \* the request of each thread
  faults

dbVars   == <<nets, subnet>>
edgeVars == <<row, vnic, iface, free>>
vars     == <<dbVars, edgeVars, lock, th, faults>>

Pool == <<"dhcp-edge-pool">>
Net(n) == <<"net", n>>
Upd(n) == <<"dhcp-update", n>>
Edge(e) == <<"edge", e>>
LockNames == {Pool} \cup {Net(n) : n \in Nets} \cup {Upd(n) : n \in Nets} \cup {Edge(e) : e \in Edges}

NoRow == [edge |-> NoEdge, status |-> "none"]
Empty == [k \in Slots |-> NoNet]
NoIf  == [net |-> NoNet, ips |-> {}, left |-> FALSE]
NoIfs == [k \in Slots |-> NoIf]
Idle  == [pc |-> "idle", op |-> "none", s |-> NoSubnet, n |-> NoNet, edge |-> NoEdge,
          slot |-> NoSlot, bad |-> FALSE, ips |-> {}, avail |-> {}, conf |-> {}, seen |-> {}]

-----------------------------------------------------------------------------
SubnetsOf(n) == {s \in Subnets : NetOf[s] = n /\ subnet[s] # "none"}
Addresses(n) == {s \in SubnetsOf(n) : subnet[s] = "on"}
DhcpOn(n)    == Addresses(n) # {}
\* _get_conflicting_networks_for_subnet: the networks with overlapping subnets.
Clash(ss, qs) == \E s \in ss, q \in qs : {s, q} \in Overlap
Conflicting(n) == {m \in Nets \ {n} : Clash(SubnetsOf(n), SubnetsOf(m))}

OnEdge(e) == {n \in Nets : row[n].edge = e}
SlotsOf(e, n) == IF e = NoEdge THEN {} ELSE {k \in Slots : vnic[e][k] = n}
FreeSlots(e) == SlotsOf(e, NoNet)
\* Mutant: whatever the status of the row.
AnyStatus == Nets
\* _get_available_edges looks at ACTIVE rows only.
Active == {n \in Nets : row[n].status = "ACTIVE"}
ActiveEdges == {row[n].edge : n \in Active}
\* Mutant: every edge with room.
ConflictFull(n) == {e \in ActiveEdges : Cardinality(FreeSlots(e)) <= Reserve}
ConflictEdges(n) == {e \in ActiveEdges : Cardinality(FreeSlots(e)) <= Reserve}
                    \cup {row[m].edge : m \in Active \cap Conflicting(n)}

Can(l) == lock[l] = NoThread
Hold(t, l) == lock' = [lock EXCEPT ![l] = t]
Drop(t, ls) == lock' = [l \in LockNames |-> IF l \in ls /\ lock[l] = t THEN NoThread ELSE lock[l]]
Goto(t, label) == th' = [th EXCEPT ![t].pc = label]
Done(t) == Drop(t, LockNames) /\ th' = [th EXCEPT ![t] = Idle]
At(t, label) == th[t].pc = label
Begin(t, op, s, n, label) ==
  /\ th[t] = Idle
  /\ Races \/ \A u \in Threads : th[u].n # n /\ \A p \in th[u].seen : p[1] # n /\ p[2] # row[n].edge
  /\ th' = [th EXCEPT ![t] = [Idle EXCEPT !.pc = label, !.op = op, !.s = s, !.n = n]]
Fault == faults < MaxFaults /\ faults' = faults + 1

\* _mark_router_bindings_status_error
MarkError(r, e) == [n \in Nets |-> IF r[n].edge = e THEN [r[n] EXCEPT !.status = "ERROR"] ELSE r[n]]
\* Mutant: the edge is given back whoever else is on it.
UnbindAlways(r, n, e) ==
  /\ row' = [r EXCEPT ![n] = NoRow]
  /\ free' = free \cup {e}
\* _delete_dhcp_router_binding: the last network gives the edge back.
Unbind(r, n, e) ==
  /\ row' = [r EXCEPT ![n] = NoRow]
  /\ free' = IF \E m \in Nets \ {n} : r[m].edge = e THEN free ELSE free \cup {e}

-----------------------------------------------------------------------------
(* create_dhcp_edge_service                                                *)

\* Whether a request without the lock of the pool is deleting.
Unlocked(t) == th[t].op \in {"disable", "delnet"}
Repaired(e) == \E u \in Threads : \E p \in th[u].seen : p[2] = e
UnlockedDeletes == \E t \in Threads : Unlocked(t) /\ th[t].pc \in {"delSlot", "delIf"}

\* The row is read before the lock of the pool is taken.
ReadRow(t) ==
  /\ At(t, "read")
  /\ LET r == row[th[t].n] IN
     th' = [th EXCEPT ![t].pc = "pool", ![t].edge = r.edge, ![t].bad = r.status = "ERROR"]
  /\ UNCHANGED <<dbVars, edgeVars, lock, faults>>
LockPool(t) ==
  /\ At(t, "pool") /\ Can(Pool) /\ Hold(t, Pool)
  /\ LET conf == ConflictEdges(th[t].n) IN
     /\ Races \/ ~(UnlockedDeletes \/ \E e \in ActiveEdges \ conf : Repaired(e))
     /\ th' = [th EXCEPT ![t].pc = IF th[t].edge = NoEdge THEN "select" ELSE "stay",
                         ![t].conf = conf, ![t].avail = ActiveEdges \ conf]
  /\ UNCHANGED <<dbVars, edgeVars, faults>>
MustMove(t) == th[t].edge \in th[t].conf \/ th[t].bad
Stay(t) ==
  /\ At(t, "stay") /\ Can(Edge(th[t].edge)) /\ ~MustMove(t)
  /\ Drop(t, {Pool}) /\ Goto(t, "update")
  /\ UNCHANGED <<dbVars, edgeVars, faults>>
\* remove_network_from_dhcp_edge: without a slot, only the row goes.
Move(t) ==
  LET e == th[t].edge  n == th[t].n IN
  /\ At(t, "stay") /\ Can(Edge(e)) /\ MustMove(t)
  /\ IF SlotsOf(e, n) = {}
     THEN Unbind(row, n, e) /\ Goto(t, "select") /\ UNCHANGED <<vnic, lock>>
     ELSE \E k \in SlotsOf(e, n) :
            /\ vnic' = [vnic EXCEPT ![e][k] = NoNet]
            /\ Hold(t, Edge(e))
            /\ th' = [th EXCEPT ![t].pc = "moveIf", ![t].slot = k]
            /\ UNCHANGED <<row, free>>
  /\ UNCHANGED <<dbVars, iface, faults>>
\* Mutant: the sub-interface is left to the deletion of the edge.
DeleteRowOnly(t, ok) == ok /\ Unbind(row, th[t].n, th[t].edge) /\ UNCHANGED <<iface, faults>>
\* _delete_dhcp_internal_interface: a failure marks the rows of the edge, then the row goes.
DeleteIface(t, ok) ==
  LET e == th[t].edge  n == th[t].n IN
  /\ iface' = [iface EXCEPT ![e][th[t].slot] = IF ok \/ @ = NoIf THEN NoIf ELSE [@ EXCEPT !.left = TRUE]]
  /\ Unbind(IF ok THEN row ELSE MarkError(row, e), n, e)
  /\ IF ok THEN UNCHANGED faults ELSE Fault
MoveIf(t) ==
  /\ At(t, "moveIf")
  /\ \E ok \in BOOLEAN : DeleteIface(t, ok)
  /\ Drop(t, {Edge(th[t].edge)}) /\ Goto(t, "select")
  /\ UNCHANGED <<dbVars, vnic>>
\* An exception deletes the new subnet and no more; a subnet whose DHCP is enabled stays.
Failed(t) ==
  /\ subnet' = IF th[t].op = "create" THEN [subnet EXCEPT ![th[t].s] = "none"] ELSE subnet
  /\ Done(t)
\* reuse_existing_dhcp_edge: first the row, then the slot.
Reuse(t) ==
  LET n == th[t].n IN
  /\ At(t, "select")
  /\ \E e \in th[t].avail :
       IF row[n] # NoRow THEN Failed(t) /\ UNCHANGED row   \* duplicate row
       ELSE /\ row' = [row EXCEPT ![n] = [edge |-> e, status |-> "ACTIVE"]]
            /\ th' = [th EXCEPT ![t].pc = "slot", ![t].edge = e, ![t].bad = FALSE]
            /\ UNCHANGED <<subnet, lock>>
  /\ UNCHANGED <<nets, vnic, iface, free, faults>>
\* allocate_new_dhcp_edge, also when the backend has none of the edges active; the appliance
\* comes with its slots free.
New(t) ==
  LET n == th[t].n IN
  /\ At(t, "select")
  /\ IF th[t].avail = {} THEN UNCHANGED faults ELSE Fault
  /\ \E e \in free :
       IF row[n] # NoRow THEN Failed(t) /\ UNCHANGED <<row, vnic, iface, free>>
       ELSE /\ row' = [row EXCEPT ![n] = [edge |-> e, status |-> "ACTIVE"]]
            /\ free' = free \ {e}
            /\ vnic' = [vnic EXCEPT ![e] = Empty] /\ iface' = [iface EXCEPT ![e] = NoIfs]
            /\ th' = [th EXCEPT ![t].pc = "slot", ![t].edge = e, ![t].bad = FALSE]
            /\ UNCHANGED <<subnet, lock>>
  /\ UNCHANGED nets
NoNew(t) ==
  /\ At(t, "select") /\ th[t].avail = {} /\ Fault
  /\ Failed(t)
  /\ UNCHANGED <<nets, edgeVars>>
\* allocate_edge_vnic_with_tunnel_index: the query, and the update of the row it found.
FindSlot(t) ==
  /\ At(t, "slot")
  /\ IF FreeSlots(th[t].edge) = {} THEN Failed(t)
     ELSE \E k \in FreeSlots(th[t].edge) :
            /\ th' = [th EXCEPT ![t].pc = "setSlot", ![t].slot = k]
            /\ UNCHANGED <<subnet, lock>>
  /\ UNCHANGED <<nets, edgeVars, faults>>
SetSlot(t) ==
  /\ At(t, "setSlot")
  /\ vnic' = [vnic EXCEPT ![th[t].edge][th[t].slot] = th[t].n]
  /\ Drop(t, {Pool}) /\ Goto(t, "update")
  /\ UNCHANGED <<dbVars, row, iface, free, faults>>
Choosing(t) == \/ ReadRow(t) \/ LockPool(t) \/ Stay(t) \/ Move(t) \/ MoveIf(t)
               \/ Reuse(t) \/ New(t) \/ NoNew(t) \/ FindSlot(t) \/ SetSlot(t)

-----------------------------------------------------------------------------
(* update_dhcp_edge_service                                                *)

\* _update_dhcp_address: the edge and the slot are read before the edge is locked.
Update(t) ==
  LET n == th[t].n  e == row[n].edge IN
  /\ At(t, "update") /\ Can(Upd(n))
  /\ IF SlotsOf(e, n) = {} THEN Done(t)
     ELSE \E k \in SlotsOf(e, n) :
            /\ th' = [th EXCEPT ![t].pc = "updateIf", ![t].edge = e, ![t].slot = k,
                                 ![t].ips = Addresses(n)]
            /\ Hold(t, Upd(n))
  /\ UNCHANGED <<dbVars, edgeVars, faults>>
\* Sub-interfaces of the edge with overlapping addresses; those of dead networks are removed.
Clashing(t) == {j \in Slots \ {th[t].slot} : Clash(th[t].ips, iface[th[t].edge][j].ips)}
Dead(e, k) == iface[e][k].net \notin nets
\* A sub-interface that is there gets the addresses and keeps its switch.
UpdateIf(t) ==
  LET e == th[t].edge  k == th[t].slot IN
  /\ At(t, "updateIf") /\ Can(Edge(e)) /\ \A j \in Clashing(t) : Dead(e, j)
  /\ iface' = [iface EXCEPT ![e] = [j \in Slots |->
       IF j = k THEN [net |-> IF @[k] = NoIf THEN th[t].n ELSE @[k].net, ips |-> th[t].ips,
                      left |-> @[k].left /\ @[k].net # th[t].n]
       ELSE IF j \in Clashing(t) THEN NoIf ELSE @[j]]]
  /\ Done(t)
  /\ UNCHANGED <<dbVars, row, vnic, free, faults>>
UpdateFails(t) ==
  LET e == th[t].edge IN
  /\ At(t, "updateIf") /\ Can(Edge(e))
  /\ \/ (\E j \in Clashing(t) : ~Dead(e, j)) /\ UNCHANGED <<row, faults>>
     \/ Fault /\ row' = MarkError(row, e)
  /\ Failed(t)
  /\ UNCHANGED <<nets, vnic, iface, free>>
Updating(t) == Update(t) \/ UpdateIf(t) \/ UpdateFails(t)

-----------------------------------------------------------------------------
(* delete_dhcp_edge_service                                                *)

DeleteRead(t) ==
  LET n == th[t].n  e == row[n].edge IN
  /\ At(t, "delRead") /\ (Races \/ ~Unlocked(t) \/ Can(Pool))
  /\ IF SlotsOf(e, n) # {}
     THEN \E k \in SlotsOf(e, n) :
            /\ th' = [th EXCEPT ![t].pc = "delSlot", ![t].edge = e, ![t].slot = k]
            /\ UNCHANGED lock
     ELSE IF th[t].op = "delnet" THEN Goto(t, "delNet") /\ UNCHANGED lock ELSE Done(t)
  /\ UNCHANGED <<dbVars, edgeVars, faults>>
\* Mutant: the slot is freed with the interface, which only clears the backend.
DeleteKeepSlot(t) ==
  /\ At(t, "delSlot") /\ Can(Edge(th[t].edge))
  /\ Hold(t, Edge(th[t].edge)) /\ Goto(t, "delIf")
  /\ UNCHANGED <<dbVars, edgeVars, faults>>
\* free_edge_vnic_by_network raises when the slot is no longer the network's.
DeleteSlot(t) ==
  LET e == th[t].edge  n == th[t].n IN
  /\ At(t, "delSlot") /\ Can(Edge(e))
  /\ IF Cardinality(SlotsOf(e, n)) # 1 THEN Done(t) /\ UNCHANGED vnic
     ELSE /\ vnic' = [vnic EXCEPT ![e] = [k \in Slots |-> IF @[k] = n THEN NoNet ELSE @[k]]]
          /\ Hold(t, Edge(e)) /\ Goto(t, "delIf")
  /\ UNCHANGED <<dbVars, row, iface, free, faults>>
DeleteIf(t) ==
  /\ At(t, "delIf")
  /\ \E ok \in BOOLEAN : DeleteIface(t, ok)
  /\ IF th[t].op = "delnet" THEN Drop(t, {Edge(th[t].edge)}) /\ Goto(t, "delNet") ELSE Done(t)
  /\ UNCHANGED <<dbVars, vnic>>
Deleting(t) == DeleteRead(t) \/ DeleteSlot(t) \/ DeleteIf(t)

-----------------------------------------------------------------------------
(* Requests                                                                *)

\* create_subnet, under the lock of the network
StartCreate(t, s) ==
  LET n == NetOf[s] IN
  /\ n \in nets /\ subnet[s] = "none" /\ Can(Net(n))
  /\ Hold(t, Net(n)) /\ Begin(t, "create", s, n, "read")
  /\ subnet' = [subnet EXCEPT ![s] = "on"]
  /\ UNCHANGED <<nets, edgeVars, faults>>
\* delete_subnet, under the locks of the network and of the pool
StartDelete(t, s) ==
  /\ subnet[s] # "none" /\ Can(Net(NetOf[s]))
  /\ Hold(t, Net(NetOf[s])) /\ Begin(t, "delete", s, NetOf[s], "delPool")
  /\ UNCHANGED <<dbVars, edgeVars, faults>>
DeleteSubnet(t) ==
  LET s == th[t].s IN
  /\ At(t, "delPool") /\ Can(Pool)
  /\ subnet' = [subnet EXCEPT ![s] = "none"]
  /\ IF subnet[s] = "on"
     THEN Hold(t, Pool) /\ Goto(t, IF SubnetsOf(NetOf[s]) \ {s} = {} THEN "delRead" ELSE "update")
     ELSE Done(t)
  /\ UNCHANGED <<nets, edgeVars, faults>>
\* update_subnet locks the subnet only.
Updates(s) == \E t \in Threads : th[t].s = s /\ th[t].op \in {"disable", "enable"}
StartDisable(t, s) ==
  /\ subnet[s] = "on" /\ ~Updates(s)
  /\ subnet' = [subnet EXCEPT ![s] = "off"]
  /\ Begin(t, "disable", s, NetOf[s],
           IF \E q \in SubnetsOf(NetOf[s]) \ {s} : subnet[q] = "on" THEN "update" ELSE "delRead")
  /\ UNCHANGED <<nets, edgeVars, lock, faults>>
\* Mutant: as for a network that has an edge.
EnableUpdates(t, s) ==
  /\ subnet[s] = "off" /\ ~Updates(s)
  /\ subnet' = [subnet EXCEPT ![s] = "on"]
  /\ Begin(t, "enable", s, NetOf[s], "update")
  /\ UNCHANGED <<nets, edgeVars, lock, faults>>
StartEnable(t, s) ==
  /\ subnet[s] = "off" /\ ~Updates(s)
  /\ subnet' = [subnet EXCEPT ![s] = "on"]
  /\ Begin(t, "enable", s, NetOf[s], IF row[NetOf[s]] = NoRow THEN "enable" ELSE "update")
  /\ UNCHANGED <<nets, edgeVars, lock, faults>>
Enable(t) ==
  /\ At(t, "enable") /\ Can(Net(th[t].n))
  /\ Hold(t, Net(th[t].n)) /\ Goto(t, "read")
  /\ UNCHANGED <<dbVars, edgeVars, faults>>
\* update_port of the DHCP port
StartPort(t, n) ==
  /\ DhcpOn(n)
  /\ Begin(t, "port", NoSubnet, n, "update")
  /\ UNCHANGED <<dbVars, edgeVars, lock, faults>>
\* delete_network: the DHCP service first, the network and its subnets then.
StartDeleteNet(t, n) ==
  /\ n \in nets /\ \A u \in Threads : th[u].n # n
  /\ Begin(t, "delnet", NoSubnet, n, IF DhcpOn(n) THEN "delRead" ELSE "delNet")
  /\ UNCHANGED <<dbVars, edgeVars, lock, faults>>
DeleteNet(t) ==
  /\ At(t, "delNet")
  /\ nets' = nets \ {th[t].n}
  /\ subnet' = [s \in Subnets |-> IF NetOf[s] = th[t].n THEN "none" ELSE subnet[s]]
  /\ Done(t)
  /\ UNCHANGED <<edgeVars, faults>>
Request(t) == DeleteSubnet(t) \/ Enable(t) \/ DeleteNet(t)

-----------------------------------------------------------------------------
(* ErrorDhcpEdgeJob: repairs the edges of the rows that were in ERROR.     *)

StartJob(t) ==
  /\ th[t] = Idle /\ \A u \in Threads : th[u].op # "job"
  /\ LET bad == {n \in Nets : row[n].status = "ERROR"} IN
     /\ bad # {}
     /\ Races \/ \A u \in Threads, n \in bad :
                   th[u].n \notin OnEdge(row[n].edge) /\ row[n].edge \notin th[u].avail
     /\ th' = [th EXCEPT ![t] = [Idle EXCEPT !.pc = "jobPool", !.op = "job",
                                 !.seen = {<<n, row[n].edge>> : n \in bad}]]
  /\ UNCHANGED <<dbVars, edgeVars, lock, faults>>
\* The rows are grouped by edge under the lock of the pool.
JobGroup(t) ==
  /\ At(t, "jobPool") /\ Can(Pool)
  /\ Goto(t, "job")
  /\ UNCHANGED <<dbVars, edgeVars, lock, faults>>
JobNext(t, e) ==
  LET rest == {p \in th[t].seen : p[2] # e} IN
  IF rest = {} THEN Done(t)
  ELSE Drop(t, {Edge(e)}) /\ th' = [th EXCEPT ![t].pc = "job", ![t].seen = rest]
\* The slots of an edge with one more for each of the networks.
WithSlots(e, ns) ==
  {f \in [Slots -> Nets \cup {NoNet}] :
     /\ \A k \in Slots : f[k] # vnic[e][k] => vnic[e][k] = NoNet /\ f[k] \in ns
     /\ \A n \in ns : Cardinality({k \in Slots : f[k] = n}) = 1}
\* Step A: rows of dead networks, slots that are missing.
JobRows(t) ==
  /\ At(t, "job")
  /\ \E e \in {p[2] : p \in th[t].seen} :
       LET mine == {p[1] : p \in {q \in th[t].seen : q[2] = e}}
           lost == {n \in mine \cap nets : SlotsOf(e, n) = {}}
       IN /\ Can(Edge(e))
          /\ row' = [n \in Nets |-> IF n \in mine \ nets THEN NoRow ELSE row[n]]
          /\ IF Cardinality(FreeSlots(e)) < Cardinality(lost)
             THEN JobNext(t, e) /\ UNCHANGED vnic
             ELSE /\ \E f \in WithSlots(e, lost) : vnic' = [vnic EXCEPT ![e] = f]
                  /\ Hold(t, Edge(e))
                  /\ th' = [th EXCEPT ![t].pc = "jobSync", ![t].edge = e]
  /\ UNCHANGED <<dbVars, iface, free, faults>>
\* Steps B and C: slots of dead networks; the backend follows the table, except that a
\* sub-interface after one that is removed is skipped; the rows are ACTIVE again.
JobSync(t) ==
  LET e == th[t].edge
      table == [k \in Slots |-> IF vnic[e][k] \in nets THEN vnic[e][k] ELSE NoNet]
      wrong == {k \in Slots : iface[e][k].net \notin {NoNet, table[k]}}
  IN /\ At(t, "jobSync")
     /\ \E kept \in SUBSET {k \in wrong : table[k] = NoNet} :
          /\ 2 * Cardinality(kept) <= Cardinality(wrong)
          /\ iface' = [iface EXCEPT ![e] = [k \in Slots |->
               IF k \in kept THEN [@[k] EXCEPT !.left = TRUE] ELSE IF table[k] = NoNet THEN NoIf
               ELSE [net |-> table[k], left |-> FALSE,
                     ips |-> IF @[k].net = table[k] THEN @[k].ips ELSE Addresses(table[k])]]]
     /\ vnic' = [vnic EXCEPT ![e] = table]
     /\ row' = [n \in Nets |-> IF row[n].edge = e THEN [row[n] EXCEPT !.status = "ACTIVE"] ELSE row[n]]
     /\ JobNext(t, e)
     /\ UNCHANGED <<dbVars, free, faults>>
JobFails(t) ==
  /\ At(t, "jobSync") /\ Fault
  /\ JobNext(t, th[t].edge)
  /\ UNCHANGED <<dbVars, edgeVars>>
Job(t) == JobGroup(t) \/ JobRows(t) \/ JobSync(t) \/ JobFails(t)

-----------------------------------------------------------------------------
Init ==
  /\ nets = Nets /\ subnet = [s \in Subnets |-> "none"]
  /\ row = [n \in Nets |-> NoRow]
  /\ vnic = [e \in Edges |-> Empty] /\ iface = [e \in Edges |-> NoIfs]
  /\ free = Edges /\ lock = [l \in LockNames |-> NoThread]
  /\ th = [t \in Threads |-> Idle] /\ faults = 0

Start(t) == \/ \E s \in Subnets : \/ StartCreate(t, s) \/ StartDelete(t, s)
                                  \/ StartDisable(t, s) \/ StartEnable(t, s)
            \/ \E n \in Nets : StartPort(t, n) \/ StartDeleteNet(t, n)
            \/ StartJob(t)
Work(t) == Choosing(t) \/ Updating(t) \/ Deleting(t) \/ Request(t) \/ Job(t)
\* Nobody asks for anything: where the system may stop.
Rest == (\A t \in Threads : th[t] = Idle) /\ UNCHANGED vars
Next == (\E t \in Threads : Work(t) \/ Start(t)) \/ Rest
Spec == Init /\ [][Next]_vars

-----------------------------------------------------------------------------
(* Correctness                                                             *)

Labels == {"idle", "read", "pool", "stay", "moveIf", "select", "slot", "setSlot", "update",
           "updateIf", "delRead", "delSlot", "delIf", "delPool", "delNet", "enable", "jobPool", "job",
           "jobSync"}
Ops == {"none", "create", "delete", "disable", "enable", "port", "delnet", "job"}

\* Every variable keeps to its type.
TypeOK ==
  /\ nets \subseteq Nets /\ subnet \in [Subnets -> {"none", "on", "off"}]
  /\ row \in [Nets -> [edge : Edges \cup {NoEdge}, status : {"none", "ACTIVE", "ERROR"}]]
  /\ vnic \in [Edges -> [Slots -> Nets \cup {NoNet}]]
  /\ iface \in [Edges -> [Slots -> [net : Nets \cup {NoNet}, ips : SUBSET Subnets, left : BOOLEAN]]]
  /\ free \subseteq Edges /\ faults \in 0..MaxFaults
  /\ lock \in [LockNames -> Threads \cup {NoThread}]
  /\ th \in [Threads -> [pc : Labels, op : Ops, s : Subnets \cup {NoSubnet}, n : Nets \cup {NoNet},
       edge : Edges \cup {NoEdge}, slot : Slots \cup {NoSlot}, bad : BOOLEAN, ips : SUBSET Subnets,
       avail : SUBSET Edges, conf : SUBSET Edges, seen : SUBSET (Nets \X Edges)]]

\* A live network has at most one slot, on the edge of its row, unless a request is at work
\* on it.
Touched(n) == \E t \in Threads : th[t].n = n \/ th[t].op = "job"
SlotOfRow ==
  \A n \in nets, e \in Edges :
    SlotsOf(e, n) # {} /\ ~Touched(n) => row[n].edge = e /\ Cardinality(SlotsOf(e, n)) = 1

\* An edge that is nobody's has no rows; one without rows is nobody's, unless the job deleted
\* the row of a dead network.
NoLeakedEdge ==
  /\ \A e \in free : OnEdge(e) = {}
  /\ nets = Nets => \A e \in Edges \ free : OnEdge(e) # {}

\* Networks that overlap are not on one edge, while no failure made a row ERROR.
NoOverlap ==
  faults = 0 => \A e \in Edges : \A m, n \in OnEdge(e) :
                  m \in Conflicting(n) => Touched(m) \/ Touched(n)

\* The backend has no sub-interface of a live network that the table does not have, unless a
\* request is at work on that network: but for one whose deletion failed, until the job
\* removes it, and one the job skipped.
BackendAgrees ==
  \A e \in Edges, k \in Slots :
    LET n == iface[e][k].net
    IN n \in nets /\ ~iface[e][k].left /\ ~Touched(n) => vnic[e][k] = n

\* While the backend never failed, a network with DHCP that nobody works on has a slot and a
\* sub-interface with all its addresses, on the edge of its row.
ServedOn(e, k, n) ==
  /\ row[n] = [edge |-> e, status |-> "ACTIVE"]
  /\ vnic[e][k] = n /\ iface[e][k] = [net |-> n, ips |-> Addresses(n), left |-> FALSE]
Served ==
  faults = 0 => \A n \in nets : DhcpOn(n) /\ ~Touched(n) => \E e \in Edges, k \in Slots : ServedOn(e, k, n)
=============================================================================
