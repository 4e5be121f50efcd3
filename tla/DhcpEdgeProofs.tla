--------------------------- MODULE DhcpEdgeProofs ---------------------------
(***************************************************************************)
(* Proofs about DhcpEdge, for every number of threads, networks, subnets,  *)
(* edges and slots.  The types need no more than DhcpAssumption; the other *)
(* results are about requests that share no lock and do not overlap        *)
(* (~Races): slots and rows of a network agree, no edge is lost, networks  *)
(* that overlap are kept apart, the backend follows the table, and while   *)
(* it never fails every network is served.                                 *)
(***************************************************************************)
EXTENDS DhcpEdge, FiniteSetTheorems, TLAPS

Record == [pc : Labels, op : Ops, s : Subnets \cup {NoSubnet}, n : Nets \cup {NoNet},
           edge : Edges \cup {NoEdge}, slot : Slots \cup {NoSlot}, bad : BOOLEAN, ips : SUBSET Subnets,
           avail : SUBSET Edges, conf : SUBSET Edges, seen : SUBSET (Nets \X Edges)]

\* The steps of the choice of an edge, which are under the lock of the pool.
Choice == {"stay", "moveIf", "select", "slot", "setSlot"}
OpsAt(label) ==
  CASE label = "idle"                          -> {"none"}
    [] label \in {"jobPool", "job", "jobSync"} -> {"job"}
    [] label = "delPool"                       -> {"delete"}
    [] label = "delNet"                        -> {"delnet"}
    [] label = "enable"                        -> {"enable"}
    [] label \in {"read", "pool"} \cup Choice  -> {"create", "enable"}
    [] label \in {"update", "updateIf"}        -> {"create", "delete", "disable", "enable", "port"}
    [] OTHER                                   -> {"delete", "disable", "delnet"}
Working(r) == r.op \notin {"none", "job"}
\* The labels at which a request has an edge, and a slot of it.
EdgeLabels == {"stay", "moveIf", "slot", "setSlot", "updateIf", "delSlot", "delIf", "jobSync"}
SlotLabels == {"moveIf", "setSlot", "updateIf", "delSlot", "delIf"}

\* What a request is about.
Sound(r) ==
  /\ r.op \in OpsAt(r.pc)
  /\ IF Working(r) THEN r.n \in Nets ELSE r.n = NoNet
  /\ r.op \in {"create", "delete"} => r.s \in Subnets /\ NetOf[r.s] = r.n
  /\ r.pc \in EdgeLabels => r.edge \in Edges
  /\ r.pc \in SlotLabels => r.slot \in Slots
  /\ r.op # "job" => r.seen = {}
Rows == \A n \in Nets : row[n] = NoRow \/ (row[n].edge \in Edges /\ row[n].status \in {"ACTIVE", "ERROR"})
Types == TypeOK /\ th \in [Threads -> Record] /\ Rows /\ \A t \in Threads : Sound(th[t])

-----------------------------------------------------------------------------
(* Types                                                                   *)

\* The types of the tables, without the threads.
Tables ==
  /\ nets \subseteq Nets /\ subnet \in [Subnets -> {"none", "on", "off"}]
  /\ row \in [Nets -> [edge : Edges \cup {NoEdge}, status : {"none", "ACTIVE", "ERROR"}]]
  /\ vnic \in [Edges -> [Slots -> Nets \cup {NoNet}]]
  /\ iface \in [Edges -> [Slots -> [net : Nets \cup {NoNet}, ips : SUBSET Subnets, left : BOOLEAN]]]
  /\ free \subseteq Edges /\ faults \in 0..MaxFaults
  /\ lock \in [LockNames -> Threads \cup {NoThread}]
  /\ Rows

\* The types of the tables and of the threads.
LEMMA TypesSplit == Types <=> Tables /\ th \in [Threads -> Record] /\ \A t \in Threads : Sound(th[t])
  BY DEF Types, Tables, TypeOK, Record

\* The types after a step, from those of the tables and of the threads.
LEMMA TypesNext == Tables' /\ th' \in [Threads -> Record] /\ (\A t \in Threads : Sound(th'[t])) => Types'
  BY DEF Types, Tables, TypeOK, Record

\* The requests that may be at each label.
LEMMA Table ==
  /\ OpsAt("idle") = {"none"}
  /\ \A label \in {"jobPool", "job", "jobSync"} : OpsAt(label) = {"job"}
  /\ OpsAt("delPool") = {"delete"} /\ OpsAt("delNet") = {"delnet"} /\ OpsAt("enable") = {"enable"}
  /\ OpsAt("read") = {"create", "enable"} /\ OpsAt("pool") = {"create", "enable"}
  /\ \A label \in Choice : OpsAt(label) = {"create", "enable"}
  /\ OpsAt("update") = {"create", "delete", "disable", "enable", "port"}
  /\ OpsAt("updateIf") = {"create", "delete", "disable", "enable", "port"}
  /\ \A label \in {"delRead", "delSlot", "delIf"} : OpsAt(label) = {"delete", "disable", "delnet"}
  BY DEF OpsAt, Choice

\* A thread without a request.
LEMMA IdleSound ==
  /\ Idle \in Record /\ Sound(Idle) /\ Idle.pc = "idle" /\ Idle.op = "none" /\ Idle.n = NoNet
  /\ Idle.seen = {} /\ Idle.avail = {}
  BY Table DEF Idle, Record, Sound, Labels, Ops, Working, EdgeLabels, SlotLabels

\* The request of t becomes r.
LEMMA ThreadTypes ==
  ASSUME Types, NEW t \in Threads, NEW r \in Record, th' = [th EXCEPT ![t] = r], Sound(r)
  PROVE  th' \in [Threads -> Record] /\ th'[t] = r /\ (\A u \in Threads \ {t} : th'[u] = th[u])
         /\ \A u \in Threads : Sound(th'[u])
  BY DEF Types

\* A request goes on to a label it may be at.
LEMMA GotoTypes ==
  ASSUME Types, NEW t \in Threads, NEW label \in Labels, Goto(t, label), th[t].op \in OpsAt(label),
         label \in EdgeLabels => th[t].edge \in Edges, label \in SlotLabels => th[t].slot \in Slots
  PROVE  th' \in [Threads -> Record] /\ th'[t] = [th[t] EXCEPT !.pc = label]
         /\ (\A u \in Threads \ {t} : th'[u] = th[u]) /\ \A u \in Threads : Sound(th'[u])
  <1>1. th[t] \in Record /\ Sound(th[t]) /\ th \in [Threads -> Record]
    BY DEF Types
  <1> DEFINE r == [th[t] EXCEPT !.pc = label]
  <1>2. r \in Record
    BY <1>1 DEF Record
  <1>3. Sound(r)
    BY <1>1 DEF Sound, Record, Working
  <1>4. th' = [th EXCEPT ![t] = r]
    BY <1>1 DEF Goto
  <1> QED  BY <1>2, <1>3, <1>4, ThreadTypes

\* A request ends.
LEMMA DoneTypes ==
  ASSUME Types, NEW t \in Threads, Done(t)
  PROVE  th' \in [Threads -> Record] /\ th'[t] = Idle /\ (\A u \in Threads \ {t} : th'[u] = th[u])
         /\ \A u \in Threads : Sound(th'[u])
  BY IdleSound, ThreadTypes DEF Done

\* A request begins.
LEMMA BeginTypes ==
  ASSUME Types, NEW t \in Threads, NEW op \in Ops, NEW s \in Subnets \cup {NoSubnet}, NEW n \in Nets,
         NEW label \in Labels, Begin(t, op, s, n, label), op \in OpsAt(label), op \notin {"none", "job"},
         op \in {"create", "delete"} => s \in Subnets /\ NetOf[s] = n, label \notin EdgeLabels \cup SlotLabels
  PROVE  th' \in [Threads -> Record]
         /\ th'[t] = [Idle EXCEPT !.pc = label, !.op = op, !.s = s, !.n = n]
         /\ (\A u \in Threads \ {t} : th'[u] = th[u]) /\ \A u \in Threads : Sound(th'[u])
  <1> DEFINE r == [Idle EXCEPT !.pc = label, !.op = op, !.s = s, !.n = n]
  <1>1. r \in Record /\ r.pc = label /\ r.op = op /\ r.s = s /\ r.n = n /\ r.seen = {}
    BY IdleSound DEF Record
  <1>2. Sound(r)
    BY <1>1 DEF Sound, Working
  <1>3. th' = [th EXCEPT ![t] = r]
    BY DEF Begin
  <1> QED  BY <1>1, <1>2, <1>3, ThreadTypes

\* Locks are held by threads.
LEMMA LockTypes ==
  ASSUME Tables, NEW t \in Threads
  PROVE  /\ \A l \in LockNames : Hold(t, l) => lock' \in [LockNames -> Threads \cup {NoThread}]
         /\ \A ls : Drop(t, ls) => lock' \in [LockNames -> Threads \cup {NoThread}]
         /\ Done(t) => lock' \in [LockNames -> Threads \cup {NoThread}]
  BY DEF Tables, Hold, Drop, Done

\* The absence of a row.
LEMMA NoRowType == NoRow \in [edge : Edges \cup {NoEdge}, status : {"none", "ACTIVE", "ERROR"}] /\ NoRow.edge = NoEdge
                   /\ NoRow.status = "none"
  BY DEF NoRow

RowsIn(r) == /\ r \in [Nets -> [edge : Edges \cup {NoEdge}, status : {"none", "ACTIVE", "ERROR"}]]
             /\ \A n \in Nets : r[n] = NoRow \/ (r[n].edge \in Edges /\ r[n].status \in {"ACTIVE", "ERROR"})

\* _mark_router_bindings_status_error changes no edge of a row and no row that is not there.
LEMMA MarkTypes ==
  ASSUME NEW r, RowsIn(r), NEW e \in Edges
  PROVE  /\ RowsIn(MarkError(r, e))
         /\ \A n \in Nets : /\ MarkError(r, e)[n].edge = r[n].edge
                            /\ r[n].status = "ERROR" => MarkError(r, e)[n].status = "ERROR"
                            /\ r[n] = NoRow => MarkError(r, e)[n] = NoRow
                            /\ MarkError(r, e)[n] # r[n] => r[n].edge = e
  BY NoRowType, DhcpAssumption DEF RowsIn, MarkError

\* _delete_dhcp_router_binding empties one row, and gives back the edge when no other row
\* has it.
LEMMA UnbindTypes ==
  ASSUME NEW r, RowsIn(r), NEW n \in Nets, NEW e \in Edges, free \subseteq Edges, Unbind(r, n, e)
  PROVE  /\ RowsIn(row') /\ free' \subseteq Edges /\ row'[n] = NoRow
         /\ \A m \in Nets \ {n} : row'[m] = r[m]
         /\ free \subseteq free' /\ free' \subseteq free \cup {e}
         /\ (e \in free' \/ \E m \in Nets \ {n} : r[m].edge = e)
         /\ ((e \in free' \ free) => \A m \in Nets \ {n} : r[m].edge # e)
  BY NoRowType DEF RowsIn, Unbind

\* A network gets a row.
Binds(n, e) == row' = [row EXCEPT ![n] = [edge |-> e, status |-> "ACTIVE"]]
LEMMA BindTypes ==
  ASSUME RowsIn(row), NEW n \in Nets, NEW e \in Edges, Binds(n, e)
  PROVE  /\ RowsIn(row') /\ row'[n].edge = e /\ row'[n].status = "ACTIVE"
         /\ \A m \in Nets \ {n} : row'[m] = row[m]
  <1> DEFINE x == [edge |-> e, status |-> "ACTIVE"]
  <1>1. x \in [edge : Edges \cup {NoEdge}, status : {"none", "ACTIVE", "ERROR"}] /\ x.edge = e /\ x.status = "ACTIVE"
    OBVIOUS
  <1> HIDE DEF x
  <1>2. row' = [row EXCEPT ![n] = x]
    BY DEF x, Binds
  <1> QED  BY <1>1, <1>2 DEF RowsIn

\* What a request at a label is.
LEMMA AtSound ==
  ASSUME Types, NEW t \in Threads, th[t].pc # "idle"
  PROVE  /\ Tables /\ th[t] \in Record /\ Sound(th[t]) /\ th[t].op \in OpsAt(th[t].pc)
         /\ (Working(th[t]) => th[t].n \in Nets)
         /\ (th[t].pc \notin {"job", "jobSync", "jobPool"} => Working(th[t]))
  <1>1. Tables /\ th[t] \in Record /\ Sound(th[t])
    BY TypesSplit
  <1>2. th[t].pc \in Labels /\ th[t].op \in OpsAt(th[t].pc)
    BY <1>1 DEF Record, Sound
  <1>3. th[t].pc \notin {"job", "jobSync", "jobPool"} => Working(th[t])
    BY <1>2, Table DEF Labels, Working, Choice
  <1> QED  BY <1>1, <1>2, <1>3 DEF Sound

\* The rows of the table of bindings.
LEMMA RowsTables == Tables => RowsIn(row)
  BY DEF Tables, RowsIn, Rows

\* create_dhcp_edge_service reads the row.
LEMMA ReadRowTypes == ASSUME Types, NEW t \in Threads, ReadRow(t) PROVE Types'
  <1>1. Tables /\ th[t] \in Record /\ Sound(th[t]) /\ th[t].op \in OpsAt("read") /\ th[t].n \in Nets
    BY AtSound DEF ReadRow, At
  <1> DEFINE r == [th[t] EXCEPT !.pc = "pool", !.edge = row[th[t].n].edge, !.bad = (row[th[t].n].status = "ERROR")]
  <1>2. th' = [th EXCEPT ![t] = r]
    BY <1>1 DEF ReadRow, Types
  <1>3. r \in Record
    <2>1. row[th[t].n].edge \in Edges \cup {NoEdge} /\ "pool" \in Labels
      BY <1>1 DEF Tables, Labels
    <2> QED  BY <1>1, <2>1 DEF Record
  <1>4. Sound(r)
    BY <1>1, Table DEF Sound, Record, Working, EdgeLabels, SlotLabels
  <1>5. Tables'
    BY <1>1 DEF Tables, Rows, ReadRow, dbVars, edgeVars
  <1> QED  BY <1>2, <1>3, <1>4, <1>5, ThreadTypes, TypesNext

\* create_dhcp_edge_service looks for conflicts under the lock of the pool.
LEMMA LockPoolTypes == ASSUME Types, NEW t \in Threads, LockPool(t) PROVE Types'
  <1>1. Tables /\ th[t] \in Record /\ Sound(th[t]) /\ th[t].op \in OpsAt("pool") /\ th[t].n \in Nets
    BY AtSound DEF LockPool, At
  <1> DEFINE conf == ConflictEdges(th[t].n)
             label == IF th[t].edge = NoEdge THEN "select" ELSE "stay"
             r == [th[t] EXCEPT !.pc = label, !.conf = conf, !.avail = ActiveEdges \ conf]
  <1>2. th' = [th EXCEPT ![t] = r]
    BY <1>1 DEF LockPool, Types
  <1>3. ActiveEdges \subseteq Edges /\ conf \subseteq Edges
    BY <1>1, NoRowType DEF ActiveEdges, Active, ConflictEdges, Tables, Rows
  <1>4. label \in Labels /\ label \in {"select", "stay"} /\ label # "job"
    BY DEF Labels
  <1>5. r \in Record /\ r.op = th[t].op /\ r.pc = label /\ r.n = th[t].n /\ r.s = th[t].s
        /\ r.edge = th[t].edge
        /\ r.seen = th[t].seen
    <2> HIDE DEF conf, label
    <2> QED  BY <1>1, <1>3, <1>4 DEF Record
  <1>6. Sound(r)
    <2>1. label = "stay" => th[t].edge \in Edges
      BY <1>1 DEF Record
    <2> HIDE DEF r, label
    <2> QED  BY <1>1, <1>4, <1>5, <2>1, Table DEF Sound, Working, EdgeLabels, SlotLabels, Choice
  <1>7. Tables'
    BY <1>1, LockTypes DEF Tables, Rows, LockPool, dbVars, edgeVars, LockNames
  <1> QED  BY <1>2, <1>5, <1>6, <1>7, ThreadTypes, TypesNext

\* The network stays on its edge.
LEMMA StayTypes == ASSUME Types, NEW t \in Threads, Stay(t) PROVE Types'
  <1>1. Tables /\ th[t].op \in OpsAt("stay") 
    BY AtSound DEF Stay, At
  <1>2. th[t].op \in OpsAt("update") /\ "update" \in Labels \ (EdgeLabels \cup SlotLabels)
    BY <1>1, Table DEF Choice, Labels, EdgeLabels, SlotLabels
  <1>3. Tables'
    BY <1>1, LockTypes DEF Tables, Rows, Stay, dbVars, edgeVars
  <1> QED  BY <1>2, <1>3, GotoTypes, TypesNext DEF Stay

\* remove_network_from_dhcp_edge frees the slot, or deletes the row of a network without
\* one.
LEMMA MoveTypes == ASSUME Types, NEW t \in Threads, Move(t) PROVE Types'
  <1> DEFINE e == th[t].edge  n == th[t].n
  <1>1. Tables /\ th[t] \in Record /\ Sound(th[t]) /\ th[t].op \in OpsAt("stay") /\ n \in Nets
        /\ e \in Edges
    BY AtSound DEF Move, At, Sound, EdgeLabels
  <1>2. th[t].op \in OpsAt("select") /\ "select" \in Labels \ (EdgeLabels \cup SlotLabels)
        /\ th[t].op \in OpsAt("moveIf") /\ "moveIf" \in Labels
    BY <1>1, Table DEF Choice, Labels, EdgeLabels, SlotLabels
  <1>3. CASE SlotsOf(e, n) = {}
    <2>1. Unbind(row, n, e) /\ Goto(t, "select") /\ UNCHANGED <<vnic, lock, dbVars, iface, faults>>
      BY <1>3 DEF Move
    <2>2. RowsIn(row') /\ free' \subseteq Edges
      BY <1>1, <2>1, UnbindTypes, RowsTables DEF Tables
    <2>3. Tables'
      BY <1>1, <2>1, <2>2 DEF Tables, Rows, RowsIn, dbVars
    <2> QED  BY <1>2, <2>1, <2>3, GotoTypes, TypesNext
  <1>4. CASE SlotsOf(e, n) # {}
    <2>1. PICK k \in SlotsOf(e, n) :
            /\ vnic' = [vnic EXCEPT ![e][k] = NoNet]
            /\ Hold(t, Edge(e))
            /\ th' = [th EXCEPT ![t].pc = "moveIf", ![t].slot = k]
            /\ UNCHANGED <<row, free>>
      BY <1>4 DEF Move
    <2>2. k \in Slots /\ UNCHANGED <<dbVars, iface, faults>>
      BY <1>1 DEF SlotsOf, Move
    <2> DEFINE r == [th[t] EXCEPT !.pc = "moveIf", !.slot = k]
    <2>3. th' = [th EXCEPT ![t] = r] /\ r \in Record
      BY <1>1, <1>2, <2>1, <2>2 DEF Types, Record
    <2>4. Sound(r)
      BY <1>1, <1>2, <2>2 DEF Sound, Record, Working
    <2>5. Tables'
      BY <1>1, <2>1, <2>2, LockTypes DEF Tables, Rows, dbVars, LockNames
    <2> QED  BY <2>3, <2>4, <2>5, ThreadTypes, TypesNext
  <1> QED  BY <1>3, <1>4

\* The tables after the deletion of a sub-interface.
LEMMA DeleteIfaceTypes ==
  ASSUME Tables, NEW t \in Threads, th[t].edge \in Edges, th[t].n \in Nets, th[t].slot \in Slots,
         NEW ok \in BOOLEAN, DeleteIface(t, ok)
  PROVE  /\ RowsIn(row') /\ free' \subseteq Edges /\ faults' \in 0..MaxFaults
         /\ iface' \in [Edges -> [Slots -> [net : Nets \cup {NoNet}, ips : SUBSET Subnets, left : BOOLEAN]]]
  <1> DEFINE e == th[t].edge  n == th[t].n  k == th[t].slot
             r == IF ok THEN row ELSE MarkError(row, e)
  <1>1. RowsIn(r) /\ Unbind(r, n, e)
    BY RowsTables, MarkTypes DEF DeleteIface
  <1>2. RowsIn(row') /\ free' \subseteq Edges
    <2> HIDE DEF r
    <2> QED  BY <1>1, UnbindTypes DEF Tables
  <1>3. faults' \in 0..MaxFaults
    BY DhcpAssumption DEF DeleteIface, Fault, Tables
  <1>4. iface' \in [Edges -> [Slots -> [net : Nets \cup {NoNet}, ips : SUBSET Subnets, left : BOOLEAN]]]
    <2> DEFINE x == iface[e][k]
               y == IF ok \/ x = NoIf THEN NoIf ELSE [x EXCEPT !.left = TRUE]
    <2>1. x \in [net : Nets \cup {NoNet}, ips : SUBSET Subnets, left : BOOLEAN]
      BY DEF Tables
    <2>2. y \in [net : Nets \cup {NoNet}, ips : SUBSET Subnets, left : BOOLEAN]
      BY <2>1 DEF NoIf
    <2>3. iface' = [iface EXCEPT ![e] = [iface[e] EXCEPT ![k] = y]]
      BY DEF DeleteIface, Tables
    <2> HIDE DEF y
    <2> QED  BY <2>2, <2>3 DEF Tables
  <1> QED  BY <1>2, <1>3, <1>4

\* remove_network_from_dhcp_edge deletes the sub-interface and the row.
LEMMA MoveIfTypes == ASSUME Types, NEW t \in Threads, MoveIf(t) PROVE Types'
  <1>1. Tables /\ th[t].op \in OpsAt("moveIf") /\ th[t].n \in Nets /\ th[t].edge \in Edges
        /\ th[t].slot \in Slots
    BY AtSound DEF MoveIf, At, Sound, EdgeLabels, SlotLabels
  <1>2. th[t].op \in OpsAt("select") /\ "select" \in Labels \ (EdgeLabels \cup SlotLabels)
    BY <1>1, Table DEF Choice, Labels, EdgeLabels, SlotLabels
  <1>3. PICK ok \in BOOLEAN : DeleteIface(t, ok)
    BY DEF MoveIf
  <1>4. Tables'
    BY <1>1, <1>3, DeleteIfaceTypes, LockTypes DEF Tables, Rows, RowsIn, MoveIf, dbVars
  <1> QED  BY <1>2, <1>4, GotoTypes, TypesNext DEF MoveIf

\* A request that fails ends.
LEMMA FailedTypes ==
  ASSUME Types, NEW t \in Threads, th[t].pc # "idle", Failed(t)
  PROVE  /\ subnet' \in [Subnets -> {"none", "on", "off"}] /\ lock' \in [LockNames -> Threads \cup {NoThread}]
         /\ th' \in [Threads -> Record] /\ \A u \in Threads : Sound(th'[u])
  BY AtSound, DoneTypes, LockTypes DEF Failed, Tables

\* reuse_existing_dhcp_edge adds the row.
LEMMA ReuseTypes == ASSUME Types, NEW t \in Threads, Reuse(t) PROVE Types'
  <1> DEFINE n == th[t].n
  <1>1. Tables /\ th[t] \in Record /\ Sound(th[t]) /\ th[t].op \in OpsAt("select") /\ n \in Nets
        /\ th[t].pc # "idle"
    BY AtSound DEF Reuse, At
  <1>2. PICK e \in th[t].avail :
       IF row[n] # NoRow THEN Failed(t) /\ UNCHANGED row
       ELSE /\ row' = [row EXCEPT ![n] = [edge |-> e, status |-> "ACTIVE"]]
            /\ th' = [th EXCEPT ![t].pc = "slot", ![t].edge = e, ![t].bad = FALSE]
            /\ UNCHANGED <<subnet, lock>>
    BY DEF Reuse
  <1>3. e \in Edges /\ UNCHANGED <<nets, vnic, iface, free, faults>>
    BY <1>1 DEF Record, Reuse
  <1>4. CASE row[n] # NoRow
    <2>1. Tables'
      BY <1>1, <1>2, <1>3, <1>4, FailedTypes DEF Tables, Rows
    <2> QED  BY <1>1, <1>2, <1>4, <2>1, FailedTypes, TypesNext
  <1>5. CASE row[n] = NoRow
    <2> DEFINE r == [th[t] EXCEPT !.pc = "slot", !.edge = e, !.bad = FALSE]
    <2>1. th' = [th EXCEPT ![t] = r] /\ r \in Record
      BY <1>1, <1>2, <1>3, <1>5 DEF Types, Record, Labels
    <2>2. Sound(r)
      BY <1>1, <1>3, Table DEF Sound, Record, Working, Choice, EdgeLabels, SlotLabels
    <2>3. Tables'
      <3>1. Binds(n, e) /\ UNCHANGED <<subnet, lock>>
        BY <1>2, <1>5 DEF Binds
      <3>2. RowsIn(row')
        BY <1>1, <1>3, <3>1, BindTypes, RowsTables
      <3> QED  BY <1>1, <1>3, <3>1, <3>2 DEF Tables, Rows, RowsIn
    <2> QED  BY <2>1, <2>2, <2>3, ThreadTypes, TypesNext
  <1> QED  BY <1>4, <1>5

\* An edge whose slots are free.
LEMMA EmptyType == Empty \in [Slots -> Nets \cup {NoNet}]
                   /\ NoIfs \in [Slots -> [net : Nets \cup {NoNet}, ips : SUBSET Subnets, left : BOOLEAN]]
                   /\ NoIf.net = NoNet /\ NoIf.ips = {} /\ NoIf.left = FALSE
  BY DEF Empty, NoIfs, NoIf

\* The failures of the backend are bounded.
LEMMA FaultTypes == ASSUME Tables, Fault \/ UNCHANGED faults PROVE faults' \in 0..MaxFaults
  BY DhcpAssumption DEF Tables, Fault

\* allocate_new_dhcp_edge takes an edge.
LEMMA NewTypes == ASSUME Types, NEW t \in Threads, New(t) PROVE Types'
  <1> DEFINE n == th[t].n
  <1>1. Tables /\ th[t] \in Record /\ Sound(th[t]) /\ th[t].op \in OpsAt("select") /\ n \in Nets
        /\ th[t].pc # "idle"
    BY AtSound DEF New, At
  <1>2. PICK e \in free :
       IF row[n] # NoRow THEN Failed(t) /\ UNCHANGED <<row, vnic, iface, free>>
       ELSE /\ row' = [row EXCEPT ![n] = [edge |-> e, status |-> "ACTIVE"]]
            /\ free' = free \ {e}
            /\ vnic' = [vnic EXCEPT ![e] = Empty] /\ iface' = [iface EXCEPT ![e] = NoIfs]
            /\ th' = [th EXCEPT ![t].pc = "slot", ![t].edge = e, ![t].bad = FALSE]
            /\ UNCHANGED <<subnet, lock>>
    BY DEF New
  <1>3. e \in Edges /\ UNCHANGED nets /\ faults' \in 0..MaxFaults
    BY <1>1, FaultTypes DEF Tables, New
  <1>4. CASE row[n] # NoRow
    <2>1. Tables'
      BY <1>1, <1>2, <1>3, <1>4, FailedTypes DEF Tables, Rows
    <2> QED  BY <1>1, <1>2, <1>4, <2>1, FailedTypes, TypesNext
  <1>5. CASE row[n] = NoRow
    <2> DEFINE r == [th[t] EXCEPT !.pc = "slot", !.edge = e, !.bad = FALSE]
    <2>1. th' = [th EXCEPT ![t] = r] /\ r \in Record
      BY <1>1, <1>2, <1>3, <1>5 DEF Types, Record, Labels
    <2>2. Sound(r)
      BY <1>1, <1>3, Table DEF Sound, Record, Working, Choice, EdgeLabels, SlotLabels
    <2>3. Tables'
      <3>1. Binds(n, e)
        BY <1>2, <1>5 DEF Binds
      <3>2. RowsIn(row')
        BY <1>1, <1>3, <3>1, BindTypes, RowsTables
      <3>3. /\ vnic' \in [Edges -> [Slots -> Nets \cup {NoNet}]]
            /\ iface' \in [Edges -> [Slots -> [net : Nets \cup {NoNet}, ips : SUBSET Subnets, left : BOOLEAN]]]
        BY <1>1, <1>2, <1>3, <1>5, EmptyType DEF Tables
      <3>4. free' \subseteq Edges /\ UNCHANGED <<subnet, lock>>
        BY <1>1, <1>2, <1>5 DEF Tables
      <3> QED  BY <1>1, <1>3, <3>2, <3>3, <3>4 DEF Tables, Rows, RowsIn
    <2> QED  BY <2>1, <2>2, <2>3, ThreadTypes, TypesNext
  <1> QED  BY <1>4, <1>5

\* allocate_new_dhcp_edge fails.
LEMMA NoNewTypes == ASSUME Types, NEW t \in Threads, NoNew(t) PROVE Types'
  <1>1. Tables /\ th[t].pc # "idle"
    BY AtSound DEF NoNew, At
  <1>2. Tables'
    BY <1>1, FailedTypes, FaultTypes DEF NoNew, Tables, Rows, edgeVars
  <1> QED  BY <1>1, <1>2, FailedTypes, TypesNext DEF NoNew

\* allocate_edge_vnic_with_tunnel_index finds a free slot, or none.
LEMMA FindSlotTypes == ASSUME Types, NEW t \in Threads, FindSlot(t) PROVE Types'
  <1>1. Tables /\ th[t] \in Record /\ Sound(th[t]) /\ th[t].op \in OpsAt("slot") /\ th[t].pc # "idle"
        /\ th[t].edge \in Edges
    BY AtSound DEF FindSlot, At, Sound, EdgeLabels
  <1>2. UNCHANGED <<nets, edgeVars, faults>>
    BY DEF FindSlot
  <1>3. CASE FreeSlots(th[t].edge) = {}
    <2>1. Tables'
      BY <1>1, <1>2, <1>3, FailedTypes DEF FindSlot, Tables, Rows, edgeVars
    <2> QED  BY <1>1, <1>3, <2>1, FailedTypes, TypesNext DEF FindSlot
  <1>4. CASE FreeSlots(th[t].edge) # {}
    <2>1. PICK k \in FreeSlots(th[t].edge) :
            /\ th' = [th EXCEPT ![t].pc = "setSlot", ![t].slot = k]
            /\ UNCHANGED <<subnet, lock>>
      BY <1>4 DEF FindSlot
    <2>2. k \in Slots
      BY DEF FreeSlots, SlotsOf
    <2> DEFINE r == [th[t] EXCEPT !.pc = "setSlot", !.slot = k]
    <2>3. th' = [th EXCEPT ![t] = r] /\ r \in Record
      BY <1>1, <2>1, <2>2 DEF Types, Record, Labels
    <2>4. Sound(r)
      BY <1>1, <2>2, Table DEF Sound, Record, Working, Choice, EdgeLabels, SlotLabels
    <2>5. Tables'
      BY <1>1, <1>2, <2>1 DEF Tables, Rows, edgeVars
    <2> QED  BY <2>3, <2>4, <2>5, ThreadTypes, TypesNext
  <1> QED  BY <1>3, <1>4

\* allocate_edge_vnic_with_tunnel_index writes the slot.
LEMMA SetSlotTypes == ASSUME Types, NEW t \in Threads, SetSlot(t) PROVE Types'
  <1>1. Tables /\ th[t].op \in OpsAt("setSlot") /\ th[t].n \in Nets
    BY AtSound DEF SetSlot, At
  <1>2. th[t].op \in OpsAt("update") /\ "update" \in Labels \ (EdgeLabels \cup SlotLabels)
    BY <1>1, Table DEF Choice, Labels, EdgeLabels, SlotLabels
  <1>3. Tables'
    BY <1>1, LockTypes DEF Tables, Rows, SetSlot, dbVars
  <1> QED  BY <1>2, <1>3, GotoTypes, TypesNext DEF SetSlot

\* _update_dhcp_address reads the edge and the slot.
LEMMA UpdateTypes == ASSUME Types, NEW t \in Threads, Update(t) PROVE Types'
  <1> DEFINE n == th[t].n  e == row[n].edge
  <1>1. Tables /\ th[t] \in Record /\ Sound(th[t]) /\ th[t].op \in OpsAt("update") /\ n \in Nets
        /\ e \in Edges \cup {NoEdge}
    BY AtSound DEF Update, At, Tables
  <1>2. UNCHANGED <<dbVars, edgeVars, faults>>
    BY DEF Update
  <1>3. CASE SlotsOf(e, n) = {}
    <2>1. Done(t)
      BY <1>3 DEF Update
    <2>2. Tables'
      BY <1>1, <1>2, <2>1, LockTypes DEF Tables, Rows, edgeVars, dbVars
    <2> QED  BY <2>1, <2>2, DoneTypes, TypesNext
  <1>4. CASE SlotsOf(e, n) # {}
    <2>1. PICK k \in SlotsOf(e, n) :
            /\ th' = [th EXCEPT ![t].pc = "updateIf", ![t].edge = e, ![t].slot = k,
                                 ![t].ips = Addresses(n)]
            /\ Hold(t, Upd(n))
      BY <1>4 DEF Update
    <2>2. k \in Slots /\ e \in Edges
      BY <1>1, <1>4 DEF SlotsOf
    <2> DEFINE ips == Addresses(n)
    <2>3. ips \in SUBSET Subnets
      BY DEF Addresses, SubnetsOf
    <2> DEFINE r == [th[t] EXCEPT !.pc = "updateIf", !.edge = e, !.slot = k, !.ips = ips]
    <2>4. th' = [th EXCEPT ![t] = r] 
      BY <1>1, <2>1 DEF Types, Record
    <2>5. r \in Record /\ r.pc = "updateIf" /\ r.op = th[t].op /\ r.n = th[t].n /\ r.s = th[t].s
          /\ r.edge = e
          /\ r.slot = k /\ r.seen = th[t].seen
      <3>1. "updateIf" \in Labels
        BY DEF Labels
      <3> HIDE DEF ips, e
      <3> QED  BY <1>1, <2>2, <2>3, <3>1 DEF Record
    <2>7. Sound(r)
      <3> HIDE DEF r, e
      <3> QED  BY <1>1, <2>2, <2>5, Table DEF Sound, Working
    <2>6. Tables'
      BY <1>1, <1>2, <2>1, LockTypes DEF Tables, Rows, edgeVars, dbVars, LockNames
    <2> QED  BY <2>4, <2>5, <2>6, <2>7, ThreadTypes, TypesNext
  <1> QED  BY <1>3, <1>4

\* _update_dhcp_address updates the sub-interface.
LEMMA UpdateIfTypes == ASSUME Types, NEW t \in Threads, UpdateIf(t) PROVE Types'
  <1> DEFINE e == th[t].edge  k == th[t].slot
             f == [j \in Slots |->
       IF j = k THEN [net |-> IF iface[e][k] = NoIf THEN th[t].n ELSE iface[e][k].net, ips |-> th[t].ips,
                      left |-> iface[e][k].left /\ iface[e][k].net # th[t].n]
       ELSE IF j \in Clashing(t) THEN NoIf ELSE iface[e][j]]
  <1>1. Tables /\ th[t] \in Record /\ th[t].n \in Nets /\ e \in Edges /\ k \in Slots
    BY AtSound DEF UpdateIf, At, Sound, EdgeLabels, SlotLabels
  <1>2. f \in [Slots -> [net : Nets \cup {NoNet}, ips : SUBSET Subnets, left : BOOLEAN]]
    <2>1. th[t].ips \subseteq Subnets
          /\ iface[e] \in [Slots -> [net : Nets \cup {NoNet}, ips : SUBSET Subnets, left : BOOLEAN]]
      BY <1>1 DEF Record, Tables
    <2> HIDE DEF e, k
    <2> QED  BY <1>1, <2>1, EmptyType DEF NoIf
  <1>3. iface' = [iface EXCEPT ![e] = f]
    BY <1>1 DEF UpdateIf, Tables
  <1>4. Done(t) /\ UNCHANGED <<dbVars, row, vnic, free, faults>>
    BY DEF UpdateIf
  <1>5. Tables'
    <2> HIDE DEF f, e
    <2> QED  BY <1>1, <1>2, <1>3, <1>4, LockTypes DEF Tables, Rows, dbVars
  <1> QED  BY <1>4, <1>5, DoneTypes, TypesNext

\* _update_dhcp_address meets overlapping addresses, or a failure.
LEMMA UpdateFailsTypes == ASSUME Types, NEW t \in Threads, UpdateFails(t) PROVE Types'
  <1>1. Tables /\ th[t].edge \in Edges /\ th[t].pc # "idle"
    BY AtSound DEF UpdateFails, At, Sound, EdgeLabels
  <1>2. RowsIn(row') /\ faults' \in 0..MaxFaults
    BY <1>1, FaultTypes, MarkTypes, RowsTables DEF UpdateFails
  <1>3. Tables'
    BY <1>1, <1>2, FailedTypes DEF Tables, Rows, RowsIn, UpdateFails
  <1> QED  BY <1>1, <1>3, FailedTypes, TypesNext DEF UpdateFails

\* delete_dhcp_edge_service reads the edge and the slot.
LEMMA DeleteReadTypes == ASSUME Types, NEW t \in Threads, DeleteRead(t) PROVE Types'
  <1> DEFINE n == th[t].n  e == row[n].edge
  <1>1. Tables /\ th[t] \in Record /\ Sound(th[t]) /\ th[t].op \in OpsAt("delRead") /\ n \in Nets
        /\ e \in Edges \cup {NoEdge}
    BY AtSound DEF DeleteRead, At, Tables
  <1>2. UNCHANGED <<dbVars, edgeVars, faults>>
    BY DEF DeleteRead
  <1>3. CASE SlotsOf(e, n) # {}
    <2>1. PICK k \in SlotsOf(e, n) :
            /\ th' = [th EXCEPT ![t].pc = "delSlot", ![t].edge = e, ![t].slot = k]
            /\ UNCHANGED lock
      BY <1>3 DEF DeleteRead
    <2>2. k \in Slots /\ e \in Edges
      BY <1>1, <1>3 DEF SlotsOf
    <2> DEFINE r == [th[t] EXCEPT !.pc = "delSlot", !.edge = e, !.slot = k]
    <2>4. th' = [th EXCEPT ![t] = r] 
      BY <1>1, <2>1 DEF Types, Record
    <2>5. r \in Record /\ Sound(r)
      <3> HIDE DEF e
      <3> QED  BY <1>1, <2>2, Table DEF Sound, Record, Working, Labels
    <2>6. Tables'
      BY <1>1, <1>2, <2>1 DEF Tables, Rows, edgeVars, dbVars
    <2> QED  BY <2>4, <2>5, <2>6, ThreadTypes, TypesNext
  <1>4. CASE SlotsOf(e, n) = {} /\ th[t].op = "delnet"
    <2>1. Goto(t, "delNet") /\ UNCHANGED lock
      BY <1>4 DEF DeleteRead
    <2>2. Tables'
      BY <1>1, <1>2, <2>1 DEF Tables, Rows, edgeVars, dbVars
    <2>3. th[t].op \in OpsAt("delNet") /\ "delNet" \in Labels \ (EdgeLabels \cup SlotLabels)
      BY <1>4, Table DEF Labels, EdgeLabels, SlotLabels
    <2> QED  BY <2>1, <2>2, <2>3, GotoTypes, TypesNext
  <1>5. CASE SlotsOf(e, n) = {} /\ th[t].op # "delnet"
    <2>1. Done(t)
      BY <1>5 DEF DeleteRead
    <2>2. Tables'
      BY <1>1, <1>2, <2>1, LockTypes DEF Tables, Rows, edgeVars, dbVars
    <2> QED  BY <2>1, <2>2, DoneTypes, TypesNext
  <1> QED  BY <1>3, <1>4, <1>5

\* delete_dhcp_edge_service frees the slot.
LEMMA DeleteSlotTypes == ASSUME Types, NEW t \in Threads, DeleteSlot(t) PROVE Types'
  <1> DEFINE n == th[t].n  e == th[t].edge  f == [k \in Slots |-> IF vnic[e][k] = n THEN NoNet ELSE vnic[e][k]]
  <1>1. Tables /\ th[t] \in Record /\ Sound(th[t]) /\ th[t].op \in OpsAt("delSlot") /\ n \in Nets
        /\ e \in Edges /\ th[t].slot \in Slots
    BY AtSound DEF DeleteSlot, At, Sound, EdgeLabels, SlotLabels
  <1>2. UNCHANGED <<dbVars, row, iface, free, faults>>
    BY DEF DeleteSlot
  <1>3. CASE Cardinality(SlotsOf(e, n)) # 1
    <2>1. Tables'
      BY <1>1, <1>2, <1>3, LockTypes DEF DeleteSlot, Tables, Rows, dbVars
    <2> QED  BY <1>3, <2>1, DoneTypes, TypesNext DEF DeleteSlot
  <1>4. CASE Cardinality(SlotsOf(e, n)) = 1
    <2>1. vnic' = [vnic EXCEPT ![e] = f] /\ Hold(t, Edge(e)) /\ Goto(t, "delIf")
      BY <1>1, <1>4 DEF DeleteSlot, Tables
    <2>2. f \in [Slots -> Nets \cup {NoNet}]
      BY <1>1 DEF Tables
    <2>3. Tables'
      <3> HIDE DEF f
      <3> QED  BY <1>1, <1>2, <2>1, <2>2, LockTypes DEF Tables, Rows, dbVars, LockNames
    <2>4. th[t].op \in OpsAt("delIf") /\ "delIf" \in Labels
      BY <1>1, Table DEF Labels
    <2> QED  BY <1>1, <2>1, <2>3, <2>4, GotoTypes, TypesNext
  <1> QED  BY <1>3, <1>4

\* delete_dhcp_edge_service deletes the sub-interface and the row.
LEMMA DeleteIfTypes == ASSUME Types, NEW t \in Threads, DeleteIf(t) PROVE Types'
  <1>1. Tables /\ th[t].op \in OpsAt("delIf") /\ th[t].n \in Nets /\ th[t].edge \in Edges
        /\ th[t].slot \in Slots
    BY AtSound DEF DeleteIf, At, Sound, EdgeLabels, SlotLabels
  <1>2. PICK ok \in BOOLEAN : DeleteIface(t, ok)
    BY DEF DeleteIf
  <1>3. lock' \in [LockNames -> Threads \cup {NoThread}]
    BY <1>1, LockTypes DEF DeleteIf
  <1>4. Tables'
    BY <1>1, <1>2, <1>3, DeleteIfaceTypes DEF Tables, Rows, RowsIn, DeleteIf, dbVars
  <1>5. CASE th[t].op = "delnet"
    <2>3. th[t].op \in OpsAt("delNet") /\ "delNet" \in Labels \ (EdgeLabels \cup SlotLabels)
      BY <1>5, Table DEF Labels, EdgeLabels, SlotLabels
    <2> QED  BY <1>4, <1>5, <2>3, GotoTypes, TypesNext DEF DeleteIf
  <1>6. CASE th[t].op # "delnet"
    BY <1>4, <1>6, DoneTypes, TypesNext DEF DeleteIf
  <1> QED  BY <1>5, <1>6

\* create_subnet begins.
LEMMA StartCreateTypes == ASSUME Types, NEW t \in Threads, NEW s \in Subnets, StartCreate(t, s) PROVE Types'
  <1>1. Tables /\ NetOf[s] \in Nets
    BY TypesSplit, DhcpAssumption
  <1>2. Tables'
    BY <1>1, LockTypes DEF StartCreate, Tables, Rows, edgeVars, LockNames
  <1>3. "create" \in Ops /\ "read" \in Labels \ (EdgeLabels \cup SlotLabels) /\ "create" \in OpsAt("read")
    BY Table DEF Ops, Labels, EdgeLabels, SlotLabels
  <1> QED  BY <1>1, <1>2, <1>3, BeginTypes, TypesNext DEF StartCreate

\* delete_subnet begins.
LEMMA StartDeleteTypes == ASSUME Types, NEW t \in Threads, NEW s \in Subnets, StartDelete(t, s) PROVE Types'
  <1>1. Tables /\ NetOf[s] \in Nets
    BY TypesSplit, DhcpAssumption
  <1>2. Tables'
    BY <1>1, LockTypes DEF StartDelete, Tables, Rows, edgeVars, dbVars, LockNames
  <1>3. "delete" \in Ops /\ "delPool" \in Labels \ (EdgeLabels \cup SlotLabels)
        /\ "delete" \in OpsAt("delPool")
    BY Table DEF Ops, Labels, EdgeLabels, SlotLabels
  <1> QED  BY <1>1, <1>2, <1>3, BeginTypes, TypesNext DEF StartDelete

\* delete_subnet deletes the subnet under the lock of the pool.
LEMMA DeleteSubnetTypes == ASSUME Types, NEW t \in Threads, DeleteSubnet(t) PROVE Types'
  <1>1. Tables /\ th[t].op \in OpsAt("delPool") 
    BY AtSound DEF DeleteSubnet, At
  <1>2. lock' \in [LockNames -> Threads \cup {NoThread}]
    BY <1>1, LockTypes DEF DeleteSubnet, LockNames
  <1>3. Tables'
    BY <1>1, <1>2 DEF DeleteSubnet, Tables, Rows, edgeVars
  <1> DEFINE label == IF SubnetsOf(NetOf[th[t].s]) \ {th[t].s} = {} THEN "delRead" ELSE "update"
  <1>4. th[t].op \in OpsAt(label) /\ label \in Labels \ (EdgeLabels \cup SlotLabels)
    BY <1>1, Table DEF Labels, EdgeLabels, SlotLabels
  <1>5. Done(t) \/ Goto(t, label)
    BY DEF DeleteSubnet
  <1> HIDE DEF label
  <1>6. CASE Done(t)
    BY <1>3, <1>6, DoneTypes, TypesNext
  <1>7. CASE Goto(t, label)
    BY <1>3, <1>4, <1>7, GotoTypes, TypesNext
  <1> QED  BY <1>5, <1>6, <1>7

\* update_subnet disables DHCP.
LEMMA StartDisableTypes == ASSUME Types, NEW t \in Threads, NEW s \in Subnets, StartDisable(t, s) PROVE Types'
  <1>1. Tables /\ NetOf[s] \in Nets
    BY TypesSplit, DhcpAssumption
  <1>2. Tables'
    BY <1>1 DEF StartDisable, Tables, Rows, edgeVars
  <1> DEFINE label == IF \E q \in SubnetsOf(NetOf[s]) \ {s} : subnet[q] = "on" THEN "update" ELSE "delRead"
  <1>3. "disable" \in Ops /\ label \in Labels \ (EdgeLabels \cup SlotLabels) /\ "disable" \in OpsAt(label)
    BY Table DEF Ops, Labels, EdgeLabels, SlotLabels
  <1>4. Begin(t, "disable", s, NetOf[s], label)
    BY DEF StartDisable
  <1> HIDE DEF label
  <1> QED  BY <1>1, <1>2, <1>3, <1>4, BeginTypes, TypesNext

\* update_subnet enables DHCP.
LEMMA StartEnableTypes == ASSUME Types, NEW t \in Threads, NEW s \in Subnets, StartEnable(t, s) PROVE Types'
  <1>1. Tables /\ NetOf[s] \in Nets
    BY TypesSplit, DhcpAssumption
  <1>2. Tables'
    BY <1>1 DEF StartEnable, Tables, Rows, edgeVars
  <1> DEFINE label == IF row[NetOf[s]] = NoRow THEN "enable" ELSE "update"
  <1>3. "enable" \in Ops /\ label \in Labels \ (EdgeLabels \cup SlotLabels) /\ "enable" \in OpsAt(label)
    BY Table DEF Ops, Labels, EdgeLabels, SlotLabels
  <1>4. Begin(t, "enable", s, NetOf[s], label)
    BY DEF StartEnable
  <1> HIDE DEF label
  <1> QED  BY <1>1, <1>2, <1>3, <1>4, BeginTypes, TypesNext

\* update_subnet locks the network to create the service.
LEMMA EnableTypes == ASSUME Types, NEW t \in Threads, Enable(t) PROVE Types'
  <1>1. Tables /\ th[t].op \in OpsAt("enable") /\ th[t].n \in Nets
    BY AtSound DEF Enable, At
  <1>2. th[t].op \in OpsAt("read") /\ "read" \in Labels \ (EdgeLabels \cup SlotLabels)
    BY <1>1, Table DEF Labels, EdgeLabels, SlotLabels
  <1>3. Tables'
    BY <1>1, LockTypes DEF Enable, Tables, Rows, edgeVars, dbVars, LockNames
  <1> QED  BY <1>2, <1>3, GotoTypes, TypesNext DEF Enable

\* update_port begins.
LEMMA StartPortTypes == ASSUME Types, NEW t \in Threads, NEW n \in Nets, StartPort(t, n) PROVE Types'
  <1>1. Tables
    BY TypesSplit
  <1>2. Tables'
    BY <1>1 DEF StartPort, Tables, Rows, edgeVars, dbVars
  <1>3. "port" \in Ops /\ "update" \in Labels \ (EdgeLabels \cup SlotLabels) /\ "port" \in OpsAt("update")
    BY Table DEF Ops, Labels, EdgeLabels, SlotLabels
  <1> QED  BY <1>1, <1>2, <1>3, BeginTypes, TypesNext DEF StartPort

\* delete_network begins.
LEMMA StartDeleteNetTypes == ASSUME Types, NEW t \in Threads, NEW n \in Nets, StartDeleteNet(t, n) PROVE Types'
  <1>1. Tables
    BY TypesSplit
  <1>2. Tables'
    BY <1>1 DEF StartDeleteNet, Tables, Rows, edgeVars, dbVars
  <1> DEFINE label == IF DhcpOn(n) THEN "delRead" ELSE "delNet"
  <1>3. "delnet" \in Ops /\ label \in Labels \ (EdgeLabels \cup SlotLabels) /\ "delnet" \in OpsAt(label)
    BY Table DEF Ops, Labels, EdgeLabels, SlotLabels
  <1>4. Begin(t, "delnet", NoSubnet, n, label)
    BY DEF StartDeleteNet
  <1> HIDE DEF label
  <1> QED  BY <1>1, <1>2, <1>3, <1>4, BeginTypes, TypesNext

\* delete_network deletes the network and its subnets.
LEMMA DeleteNetTypes == ASSUME Types, NEW t \in Threads, DeleteNet(t) PROVE Types'
  <1>1. Tables
    BY TypesSplit
  <1>2. Tables'
    BY <1>1, LockTypes DEF DeleteNet, Tables, Rows, edgeVars
  <1> QED  BY <1>2, DoneTypes, TypesNext DEF DeleteNet

\* The job reads the rows in ERROR.
LEMMA StartJobTypes == ASSUME Types, NEW t \in Threads, StartJob(t) PROVE Types'
  <1> DEFINE bad == {n \in Nets : row[n].status = "ERROR"}  seen == {<<n, row[n].edge>> : n \in bad}
             r == [Idle EXCEPT !.pc = "jobPool", !.op = "job", !.seen = seen]
  <1>1. Tables
    BY TypesSplit
  <1>2. Tables'
    BY <1>1 DEF StartJob, Tables, Rows, edgeVars, dbVars
  <1>3. seen \in SUBSET (Nets \X Edges)
    BY <1>1, NoRowType DEF Tables, Rows
  <1>4. r \in Record /\ r.pc = "jobPool" /\ r.op = "job" /\ r.n = NoNet
    <2> HIDE DEF seen
    <2> QED  BY <1>3, IdleSound DEF Record, Labels, Ops
  <1>5. Sound(r)
    <2> HIDE DEF r
    <2> QED  BY <1>4, Table DEF Sound, Working, EdgeLabels, SlotLabels
  <1>6. th' = [th EXCEPT ![t] = r]
    BY DEF StartJob
  <1> HIDE DEF r
  <1> QED  BY <1>2, <1>4, <1>5, <1>6, ThreadTypes, TypesNext

\* The job groups the rows by edge.
LEMMA JobGroupTypes == ASSUME Types, NEW t \in Threads, JobGroup(t) PROVE Types'
  <1>1. Tables /\ th[t].op \in OpsAt("jobPool")
    BY AtSound DEF JobGroup, At
  <1>2. th[t].op \in OpsAt("job") /\ "job" \in Labels \ (EdgeLabels \cup SlotLabels)
    BY <1>1, Table DEF Labels, EdgeLabels, SlotLabels
  <1>3. Tables'
    BY <1>1 DEF JobGroup, Tables, Rows, edgeVars, dbVars
  <1> QED  BY <1>2, <1>3, GotoTypes, TypesNext DEF JobGroup

\* The job goes on to the next edge, or ends.
LEMMA JobNextTypes ==
  ASSUME Types, NEW t \in Threads, NEW e \in Edges, th[t].pc \in {"job", "jobSync"}, JobNext(t, e)
  PROVE  /\ lock' \in [LockNames -> Threads \cup {NoThread}]
         /\ th' \in [Threads -> Record] /\ \A u \in Threads : Sound(th'[u])
  <1>1. Tables /\ th[t] \in Record /\ Sound(th[t]) /\ th[t].op = "job"
    BY AtSound, Table
  <1> DEFINE rest == {p \in th[t].seen : p[2] # e}
  <1>2. CASE rest = {}
    BY <1>1, <1>2, DoneTypes, LockTypes DEF JobNext
  <1>3. CASE rest # {}
    <2> DEFINE r == [th[t] EXCEPT !.pc = "job", !.seen = rest]
    <2>1. Drop(t, {Edge(e)}) /\ th' = [th EXCEPT ![t] = r]
      BY <1>1, <1>3 DEF JobNext, Types, Record
    <2>2. r \in Record
      BY <1>1 DEF Record, Labels
    <2>3. Sound(r)
      BY <1>1, Table DEF Sound, Record, Working, EdgeLabels, SlotLabels
    <2> HIDE DEF r
    <2> QED  BY <1>1, <2>1, <2>2, <2>3, ThreadTypes, LockTypes
  <1> QED  BY <1>2, <1>3

\* A row that is emptied, and the networks of a repair.
LEMMA JobRowsTypes == ASSUME Types, NEW t \in Threads, JobRows(t) PROVE Types'
  <1>1. Tables /\ th[t] \in Record /\ Sound(th[t]) /\ th[t].op = "job" /\ th[t].pc = "job"
    BY AtSound, Table DEF JobRows, At
  <1>2. PICK e \in {p[2] : p \in th[t].seen} :
       LET mine == {p[1] : p \in {q \in th[t].seen : q[2] = e}}
           lost == {n \in mine \cap nets : SlotsOf(e, n) = {}}
       IN /\ Can(Edge(e))
          /\ row' = [n \in Nets |-> IF n \in mine \ nets THEN NoRow ELSE row[n]]
          /\ IF Cardinality(FreeSlots(e)) < Cardinality(lost)
             THEN JobNext(t, e) /\ UNCHANGED vnic
             ELSE /\ \E f \in WithSlots(e, lost) : vnic' = [vnic EXCEPT ![e] = f]
                  /\ Hold(t, Edge(e))
                  /\ th' = [th EXCEPT ![t].pc = "jobSync", ![t].edge = e]
    BY DEF JobRows
  <1> DEFINE mine == {p[1] : p \in {q \in th[t].seen : q[2] = e}}
             lost == {n \in mine \cap nets : SlotsOf(e, n) = {}}
  <1>3. e \in Edges /\ UNCHANGED <<dbVars, iface, free, faults>>
    BY <1>1 DEF Record, JobRows
  <1>4. RowsIn(row')
    <2>1. row' = [n \in Nets |-> IF n \in mine \ nets THEN NoRow ELSE row[n]]
      BY <1>2
    <2> HIDE DEF mine
    <2> QED  BY <1>1, <2>1, NoRowType DEF Tables, Rows, RowsIn
  <1>5. CASE Cardinality(FreeSlots(e)) < Cardinality(lost)
    <2>1. JobNext(t, e) /\ UNCHANGED vnic
      BY <1>2, <1>5
    <2>2. Tables'
      BY <1>1, <1>3, <1>4, <2>1, JobNextTypes DEF Tables, Rows, RowsIn, dbVars
    <2> QED  BY <1>1, <1>3, <2>1, <2>2, JobNextTypes, TypesNext
  <1>6. CASE ~(Cardinality(FreeSlots(e)) < Cardinality(lost))
    <2>1. PICK f \in WithSlots(e, lost) : vnic' = [vnic EXCEPT ![e] = f]
      BY <1>2, <1>6
    <2>2. Hold(t, Edge(e)) /\ th' = [th EXCEPT ![t].pc = "jobSync", ![t].edge = e]
      BY <1>2, <1>6
    <2> DEFINE r == [th[t] EXCEPT !.pc = "jobSync", !.edge = e]
    <2>3. th' = [th EXCEPT ![t] = r] /\ r \in Record
      BY <1>1, <1>3, <2>2 DEF Types, Record, Labels
    <2>4. Sound(r)
      BY <1>1, <1>3, Table DEF Sound, Record, Working, SlotLabels
    <2>5. f \in [Slots -> Nets \cup {NoNet}]
      BY DEF WithSlots
    <2>6. Tables'
      BY <1>1, <1>3, <1>4, <2>1, <2>2, <2>5, LockTypes DEF Tables, Rows, RowsIn, dbVars, LockNames
    <2> HIDE DEF r
    <2> QED  BY <2>3, <2>4, <2>6, ThreadTypes, TypesNext
  <1> QED  BY <1>5, <1>6

\* The slots of an edge without those of dead networks.
LiveSlots(e) == [k \in Slots |-> IF vnic[e][k] \in nets THEN vnic[e][k] ELSE NoNet]
\* The sub-interfaces of an edge after the job, which leaves those of the slots kept.
Synced(e, kept) == [k \in Slots |->
  IF k \in kept THEN [iface[e][k] EXCEPT !.left = TRUE] ELSE IF LiveSlots(e)[k] = NoNet THEN NoIf
  ELSE [net |-> LiveSlots(e)[k], left |-> FALSE,
        ips |-> IF iface[e][k].net = LiveSlots(e)[k] THEN iface[e][k].ips ELSE Addresses(LiveSlots(e)[k])]]

\* What the job does with the slots, the sub-interfaces and the rows of an edge.
LEMMA JobSyncEffect ==
  ASSUME Types, NEW t \in Threads, JobSync(t)
  PROVE  LET e == th[t].edge IN
         /\ e \in Edges /\ th[t].pc = "jobSync" /\ th[t].op = "job"
         /\ vnic' = [vnic EXCEPT ![e] = LiveSlots(e)]
         /\ \E kept \in SUBSET Slots : iface' = [iface EXCEPT ![e] = Synced(e, kept)]
                                       /\ \A k \in kept : LiveSlots(e)[k] = NoNet
         /\ row' = [n \in Nets |-> IF row[n].edge = e THEN [row[n] EXCEPT !.status = "ACTIVE"] ELSE row[n]]
         /\ JobNext(t, e) /\ UNCHANGED <<dbVars, free, faults>>
  <1> DEFINE e == th[t].edge
             table == [k \in Slots |-> IF vnic[e][k] \in nets THEN vnic[e][k] ELSE NoNet]
             wrong == {k \in Slots : iface[e][k].net \notin {NoNet, table[k]}}
  <1>1. Tables /\ e \in Edges /\ th[t].pc = "jobSync" /\ th[t].op = "job"
    <2>1. th[t].pc = "jobSync" /\ Tables /\ Sound(th[t])
      BY AtSound DEF JobSync, At
    <2> QED  BY <2>1, Table DEF Sound, EdgeLabels
  <1>2. PICK kept \in SUBSET {k \in wrong : table[k] = NoNet} :
          iface' = [iface EXCEPT ![e] = [k \in Slots |->
               IF k \in kept THEN [@[k] EXCEPT !.left = TRUE] ELSE IF table[k] = NoNet THEN NoIf
               ELSE [net |-> table[k], left |-> FALSE,
                     ips |-> IF @[k].net = table[k] THEN @[k].ips ELSE Addresses(table[k])]]]
    BY DEF JobSync
  <1>3. iface' = [iface EXCEPT ![e] = Synced(e, kept)] /\ kept \in SUBSET Slots
        /\ \A k \in kept : LiveSlots(e)[k] = NoNet
    BY <1>1, <1>2 DEF Synced, LiveSlots, Tables
  <1>4. vnic' = [vnic EXCEPT ![e] = LiveSlots(e)]
    BY DEF JobSync, LiveSlots
  <1> QED  BY <1>1, <1>3, <1>4 DEF JobSync

\* The job makes the backend follow the table.
LEMMA JobSyncTypes == ASSUME Types, NEW t \in Threads, JobSync(t) PROVE Types'
  <1> DEFINE e == th[t].edge
  <1>1. e \in Edges /\ th[t].pc = "jobSync" /\ vnic' = [vnic EXCEPT ![e] = LiveSlots(e)]
        /\ row' = [n \in Nets |-> IF row[n].edge = e THEN [row[n] EXCEPT !.status = "ACTIVE"] ELSE row[n]]
        /\ JobNext(t, e) /\ UNCHANGED <<dbVars, free, faults>>
    BY JobSyncEffect
  <1>2. PICK kept \in SUBSET Slots : iface' = [iface EXCEPT ![e] = Synced(e, kept)]
    BY JobSyncEffect
  <1>3. Tables
    BY TypesSplit
  <1>4. RowsIn(row')
    <2>1. ASSUME NEW n \in Nets, row[n].edge = e
          PROVE  /\ [row[n] EXCEPT !.status = "ACTIVE"] \in [edge : Edges \cup {NoEdge}, status : {"none", "ACTIVE", "ERROR"}]
                 /\ [row[n] EXCEPT !.status = "ACTIVE"].edge = e
                 /\ [row[n] EXCEPT !.status = "ACTIVE"].status = "ACTIVE"
      <3>1. row[n] \in [edge : Edges \cup {NoEdge}, status : {"none", "ACTIVE", "ERROR"}]
        BY <1>3 DEF Tables
      <3> QED  BY <2>1, <3>1
    <2>2. ASSUME NEW n \in Nets, row[n].edge = e
          PROVE  row'[n] \in [edge : Edges \cup {NoEdge}, status : {"none", "ACTIVE", "ERROR"}]
                 /\ row'[n].edge \in Edges /\ row'[n].status = "ACTIVE"
      BY <1>1, <2>1, <2>2
    <2>3. \A n \in Nets : row[n].edge # e => row'[n] = row[n]
      BY <1>1
    <2>4. row' \in [Nets -> [edge : Edges \cup {NoEdge}, status : {"none", "ACTIVE", "ERROR"}]]
      <3>1. \A n \in Nets : row'[n] \in [edge : Edges \cup {NoEdge}, status : {"none", "ACTIVE", "ERROR"}]
        BY <1>3, <2>2, <2>3 DEF Tables
      <3> QED  BY <1>1, <3>1
    <2>5. \A n \in Nets : row'[n] = NoRow \/ (row'[n].edge \in Edges /\ row'[n].status \in {"ACTIVE", "ERROR"})
      BY <1>3, <2>2, <2>3 DEF Tables, Rows
    <2> QED  BY <2>4, <2>5 DEF RowsIn
  <1>5. LiveSlots(e) \in [Slots -> Nets \cup {NoNet}]
    BY <1>1, <1>3 DEF LiveSlots, Tables
  <1>6. Synced(e, kept) \in [Slots -> [net : Nets \cup {NoNet}, ips : SUBSET Subnets, left : BOOLEAN]]
    <2>1. iface[e] \in [Slots -> [net : Nets \cup {NoNet}, ips : SUBSET Subnets, left : BOOLEAN]]
      BY <1>1, <1>3 DEF Tables
    <2>2. ASSUME NEW k \in Slots
          PROVE  [net |-> LiveSlots(e)[k], left |-> FALSE,
                  ips |-> IF iface[e][k].net = LiveSlots(e)[k] THEN iface[e][k].ips ELSE Addresses(LiveSlots(e)[k])]
                 \in [net : Nets \cup {NoNet}, ips : SUBSET Subnets, left : BOOLEAN]
      <3>1. Addresses(LiveSlots(e)[k]) \subseteq Subnets
        BY DEF Addresses, SubnetsOf
      <3> QED  BY <1>5, <2>1, <3>1
    <2>3. ASSUME NEW k \in Slots
          PROVE  [iface[e][k] EXCEPT !.left = TRUE] \in [net : Nets \cup {NoNet}, ips : SUBSET Subnets, left : BOOLEAN]
      BY <2>1
    <2> HIDE DEF e
    <2> QED  BY <2>2, <2>3, EmptyType DEF Synced, NoIf
  <1>7. lock' \in [LockNames -> Threads \cup {NoThread}] /\ th' \in [Threads -> Record]
        /\ \A u \in Threads : Sound(th'[u])
    BY <1>1, JobNextTypes
  <1>8. Tables'
    BY <1>1, <1>2, <1>3, <1>4, <1>5, <1>6, <1>7 DEF Tables, Rows, RowsIn, dbVars
  <1> QED  BY <1>7, <1>8, TypesNext

\* The job fails at an edge.
LEMMA JobFailsTypes == ASSUME Types, NEW t \in Threads, JobFails(t) PROVE Types'
  <1>1. Tables /\ th[t].edge \in Edges /\ th[t].pc = "jobSync"
    BY AtSound DEF JobFails, At, Sound, EdgeLabels
  <1>2. Tables'
    BY <1>1, JobNextTypes, FaultTypes DEF JobFails, Tables, Rows, edgeVars, dbVars
  <1> QED  BY <1>1, <1>2, JobNextTypes, TypesNext DEF JobFails

\* Every step keeps the types.
LEMMA NextTypes == ASSUME Types, [Next]_vars PROVE Types'
  <1>1. CASE UNCHANGED vars
    BY <1>1 DEF Types, TypeOK, Rows, vars, dbVars, edgeVars
  <1>2. ASSUME NEW t \in Threads, Choosing(t) PROVE Types'
    BY <1>2, ReadRowTypes, LockPoolTypes, StayTypes, MoveTypes, MoveIfTypes, ReuseTypes, NewTypes,
       NoNewTypes,
       FindSlotTypes, SetSlotTypes DEF Choosing
  <1>3. ASSUME NEW t \in Threads, Updating(t) \/ Deleting(t) PROVE Types'
    BY <1>3, UpdateTypes, UpdateIfTypes, UpdateFailsTypes, DeleteReadTypes, DeleteSlotTypes, DeleteIfTypes
    DEF Updating, Deleting
  <1>4. ASSUME NEW t \in Threads, Request(t) \/ Job(t) PROVE Types'
    BY <1>4, DeleteSubnetTypes, EnableTypes, DeleteNetTypes, JobGroupTypes, JobRowsTypes, JobSyncTypes,
       JobFailsTypes
    DEF Request, Job
  <1>5. ASSUME NEW t \in Threads, Start(t) PROVE Types'
    BY <1>5, StartCreateTypes, StartDeleteTypes, StartDisableTypes, StartEnableTypes, StartPortTypes,
       StartDeleteNetTypes, StartJobTypes DEF Start
  <1> QED  BY <1>1, <1>2, <1>3, <1>4, <1>5 DEF Next, Work, Rest

\* The types hold at first.
LEMMA InitTypes == ASSUME Init PROVE Types
  <1>1. th \in [Threads -> Record] /\ \A t \in Threads : Sound(th[t])
    BY IdleSound DEF Init
  <1>2. Tables
    BY NoRowType, EmptyType, DhcpAssumption DEF Init, Tables, Rows
  <1> QED  BY <1>1, <1>2, TypesSplit

\* Every variable keeps to its type, whatever the requests and the job share.
THEOREM TypeCorrect == Spec => []TypeOK
  <1>1. Init => Types
    BY InitTypes
  <1>2. Types /\ [Next]_vars => Types'
    BY NextTypes
  <1>3. Types => TypeOK
    BY DEF Types
  <1> QED  BY <1>1, <1>2, <1>3, PTL DEF Spec

-----------------------------------------------------------------------------
(* The invariant, for requests that do not overlap                         *)

\* Requests on one network follow one another, and there is one job.
Exclusive == \A t, u \in Threads :
  t # u => (th[t].n = th[u].n => th[t].n = NoNet) /\ ~(th[t].op = "job" /\ th[u].op = "job")
\* Where the lock of the pool is held; a deletion without it meets no choice.
UnderPool(r) == r.pc \in Choice \/ (r.op = "delete" /\ r.pc \in {"update", "updateIf", "delRead", "delSlot", "delIf"})
Locked == \A t \in Threads : UnderPool(th[t]) => lock[Pool] = t
Deletes(t) == Unlocked(t) /\ th[t].pc \in {"delSlot", "delIf"}
Alone == \A t, u \in Threads : th[t].pc \in Choice => ~Deletes(u)

\* Networks that are about to look for conflicts, and those that are about to act on them.
Waiting(m) == \E u \in Threads : th[u].n = m /\ th[u].pc \in {"read", "pool"}
Unsettled(u) == th[u].pc \in {"read", "pool", "moveIf"} \/ (th[u].pc = "stay" /\ MustMove(u))
Undecided(m) == \E u \in Threads : th[u].n = m /\ Unsettled(u)

\* What a request knows of the row of its network,
HasRow(t) == LET r == th[t] IN
  /\ Working(r) => r.n \in nets
  /\ r.pc \in {"pool", "stay", "moveIf", "slot", "setSlot", "updateIf", "delSlot", "delIf"} => row[r.n].edge = r.edge
  /\ r.pc = "select" => row[r.n] = NoRow
  /\ (r.pc \in {"pool", "stay"} /\ r.bad) => row[r.n].status = "ERROR"
\* of the edges it may choose,
Choosable == {"stay", "moveIf", "select"}
HasChoice(t) == LET r == th[t] IN
  /\ r.pc = "stay" => r.avail \cap r.conf = {}
  /\ r.pc \in Choosable => r.avail \cap free = {}
  /\ ((r.pc = "moveIf" \/ (r.pc = "stay" /\ r.bad)) /\ r.edge \in r.avail)
       => \E m \in Nets \ {r.n} : row[m].edge = r.edge
  /\ (r.pc \in Choosable /\ faults = 0)
       => \A m \in Conflicting(r.n) : row[m].edge \in r.avail => Waiting(m)
\* and of the slots of its network.
HasSlot(t) == LET r == th[t] IN
  /\ r.pc \in {"moveIf", "select", "slot", "setSlot", "delIf"} => \A e \in Edges, k \in Slots : vnic[e][k] # r.n
  /\ r.pc = "setSlot" => vnic[r.edge][r.slot] = NoNet
  /\ r.pc \in {"updateIf", "delSlot"} => vnic[r.edge][r.slot] = r.n
Current(t) == HasRow(t) /\ HasChoice(t) /\ HasSlot(t)

\* The edges that the job repairs are nobody else's business.
Spared(u, p) ==
  /\ th[u].n # p[1]
  /\ Working(th[u]) => row[th[u].n].edge # p[2]
  /\ th[u].pc \in Choosable => p[2] \notin th[u].avail
Repairs(t) ==
  /\ th[t].pc = "jobSync" => \E p \in th[t].seen : p[2] = th[t].edge
  /\ \A p \in th[t].seen :
       /\ p[2] \notin free
       /\ row[p[1]] = NoRow \/ row[p[1]].edge = p[2]
       /\ p[1] \in nets => row[p[1]].edge = p[2]
       /\ \A u \in Threads : Spared(u, p)

SubnetsLive == \A s \in Subnets : subnet[s] # "none" => NetOf[s] \in nets
OneSlot ==
  \A n \in nets, e \in Edges, k \in Slots : vnic[e][k] = n =>
    row[n].edge = e /\ \A j \in Slots : vnic[e][j] = n => j = k
Healthy == faults = 0 => \A n \in Nets : row[n].status # "ERROR"
Apart == faults = 0 => \A m, n \in Nets :
  (m \in Conflicting(n) /\ row[m].edge = row[n].edge /\ row[n].edge # NoEdge) => Undecided(m) \/ Undecided(n)
\* Sub-interfaces whose slot has just been freed.
Freed(e, k, n) == \E u \in Threads : /\ th[u].n = n /\ th[u].pc \in {"moveIf", "delIf"}
                                     /\ th[u].edge = e /\ th[u].slot = k
Agrees == \A e \in Edges, k \in Slots : LET n == iface[e][k].net IN
  (n \in nets /\ ~iface[e][k].left) => vnic[e][k] = n \/ Freed(e, k, n)

IInv == /\ Types /\ Exclusive /\ Locked /\ Alone
        /\ \A t \in Threads : Current(t) /\ Repairs(t)
        /\ SubnetsLive /\ OneSlot /\ NoLeakedEdge /\ Healthy /\ Apart /\ Agrees

-----------------------------------------------------------------------------
(* A step of a request, and what the others rely on                        *)

\* The request of t goes on or ends.
Goes(t) ==
  /\ Working(th[t]) /\ th[t].n \in nets
  /\ \A u \in Threads \ {t} : th'[u] = th[u]
  /\ th'[t] = Idle \/ (th'[t].n = th[t].n /\ th'[t].op = th[t].op)
  /\ lock' \in [LockNames -> Threads \cup {NoThread}]
  /\ \A l \in LockNames : lock'[l] = lock[l] \/ lock[l] \in {NoThread, t}
  /\ UnderPool(th'[t]) => lock'[Pool] = t
  /\ th'[t].pc \in Choice => th[t].pc \in Choice \/ (lock[Pool] = NoThread /\ ~UnlockedDeletes)
  /\ Deletes(t)' => Deletes(t) \/ lock[Pool] = NoThread
  /\ th[t].pc \in {"read", "pool"} => (th'[t].pc \in {"read", "pool"} /\ th'[t].n = th[t].n) \/ lock[Pool] = NoThread
  /\ th'[t].pc \in Choosable => \/ th[t].pc \in Choosable /\ th'[t].avail = th[t].avail
                                \/ \A e \in th'[t].avail : ~Repaired(e)

\* It changes no other network's row but to mark it, and no other network's slots; it gives
\* back its own edge, under the lock of the pool or in a deletion without.
Tabled(t) == LET n == th[t].n IN
  /\ \A m \in Nets \ {n} : row'[m].edge = row[m].edge /\ (row[m].status = "ERROR" => row'[m].status = "ERROR")
  /\ \/ row'[n].edge = row[n].edge
     \/ row'[n].edge = NoEdge /\ (lock[Pool] = t \/ Deletes(t))
     \/ th[t].pc = "select" /\ row'[n].edge \in th[t].avail \cup free
  /\ \A m \in nets \ {n}, e \in Edges, k \in Slots : vnic'[e][k] = m <=> vnic[e][k] = m
  /\ lock[Pool] = t \/ \A e \in Edges, k \in Slots : vnic[e][k] = NoNet => vnic'[e][k] = NoNet
  /\ free' \subseteq free \/ (free' \subseteq free \cup {row[n].edge} /\ row[n].edge # NoEdge
                              /\ (lock[Pool] = t \/ Deletes(t)))
  /\ nets' \subseteq nets /\ \A m \in nets \ nets' : m = n /\ th'[t].n = NoNet
  /\ \A s \in Subnets : subnet'[s] # "none" => subnet[s] # "none"
  /\ faults' = 0 => faults = 0

\* Without new subnets there are no new conflicts.
LEMMA ConflictsShrink ==
  ASSUME \A s \in Subnets : subnet'[s] # "none" => subnet[s] # "none"
  PROVE  \A n \in Nets, m \in Nets : (m \in Conflicting(n))' => m \in Conflicting(n)
  BY DEF Conflicting, Clash, SubnetsOf

\* 'nsx-dhcp-edge-pool' is one of the locks.
LEMMA PoolLock == Pool \in LockNames
  BY DEF LockNames

\* Where there is a thread with the pool, another one has not got it.
LEMMA GoesLocks ==
  ASSUME IInv, NEW t \in Threads, Goes(t), Types'
  PROVE  Exclusive' /\ Locked' /\ Alone'
  <1>1. \A u \in Threads \ {t} : th'[u] = th[u]
    BY DEF Goes
  <1>2. Exclusive'
    <2>1. th'[t].n \in {NoNet, th[t].n} /\ th'[t].op # "job"
      BY IdleSound DEF Goes, Working
    <2> QED  BY <1>1, <2>1 DEF IInv, Exclusive
  <1>3. Locked'
    <2>1. ASSUME NEW u \in Threads, UnderPool(th'[u]) PROVE lock'[Pool] = u
      <3>1. CASE u = t
        BY <2>1, <3>1 DEF Goes
      <3>2. CASE u # t
        <4>1. lock[Pool] = u
          BY <1>1, <2>1, <3>2 DEF IInv, Locked
        <4> QED  BY <4>1, <3>2, PoolLock, DhcpAssumption DEF Goes
      <3> QED  BY <3>1, <3>2
    <2> QED  BY <2>1 DEF Locked
  <1>4. Alone'
    <2>1. ASSUME NEW u \in Threads, NEW v \in Threads, th'[u].pc \in Choice, Deletes(v)' PROVE FALSE
      <3>1. u # v
        <4>1. Choice \cap {"delSlot", "delIf"} = {}
          BY DEF Choice
        <4> QED  BY <2>1, <4>1 DEF Deletes
      <3>2. \A w \in Threads \ {t} : Deletes(w)' <=> Deletes(w)
        BY <1>1 DEF Deletes, Unlocked
      <3>3. CASE u = t
        <4>1. Deletes(v)
          BY <2>1, <3>1, <3>2, <3>3
        <4>2. th[t].pc \in Choice \/ ~UnlockedDeletes
          BY <2>1, <3>3 DEF Goes
        <4>3. UnlockedDeletes
          BY <4>1 DEF UnlockedDeletes, Deletes
        <4> QED  BY <4>1, <4>2, <4>3 DEF IInv, Alone
      <3>4. CASE v = t
        <4>1. th[u].pc \in Choice
          BY <1>1, <2>1, <3>1, <3>4
        <4>2. lock[Pool] = u
          BY <4>1 DEF IInv, Locked, UnderPool
        <4>3. Deletes(t) \/ lock[Pool] = NoThread
          BY <2>1, <3>4 DEF Goes
        <4> QED  BY <4>1, <4>2, <4>3, DhcpAssumption DEF IInv, Alone
      <3>5. CASE u # t /\ v # t
        BY <1>1, <2>1, <3>2, <3>5 DEF IInv, Alone
      <3> QED  BY <3>3, <3>4, <3>5
    <2> QED  BY <2>1 DEF Alone
  <1> QED  BY <1>2, <1>3, <1>4

\* What another request knows of the row of its network stays true.
LEMMA RowKept ==
  ASSUME IInv, NEW t \in Threads, Goes(t), Tabled(t), Types', NEW u \in Threads \ {t}
  PROVE  HasRow(u)'
  <1>1. th'[u] = th[u] /\ HasRow(u) /\ Sound(th[u]) /\ th[u] \in Record
    BY DEF Goes, IInv, Current, Types
  <1>2. CASE ~Working(th[u])
    <2>1. th[u].pc \in {"idle", "job", "jobPool", "jobSync"}
      BY <1>1, <1>2, Table DEF Sound, Working, Record, Labels, Choice
    <2> QED  BY <1>1, <1>2, <2>1 DEF HasRow
  <1>3. CASE Working(th[u])
    <2>1. th[u].n \in nets /\ th[u].n \in Nets /\ th[u].n # th[t].n
      BY <1>1, <1>3, DhcpAssumption DEF Sound, HasRow, IInv, Exclusive
    <2>2. row'[th[u].n].edge = row[th[u].n].edge
          /\ (row[th[u].n].status = "ERROR" => row'[th[u].n].status = "ERROR") /\ th[u].n \in nets'
      BY <2>1 DEF Tabled
    <2>3. row[th[u].n] = NoRow => row'[th[u].n] = NoRow
      BY <2>1, <2>2, NoRowType, DhcpAssumption DEF Types, Rows
    <2> QED  BY <1>1, <2>2, <2>3 DEF HasRow
  <1> QED  BY <1>2, <1>3

\* What another request knows of the slots of its network stays true.
LEMMA SlotKept ==
  ASSUME IInv, NEW t \in Threads, Goes(t), Tabled(t), Types', NEW u \in Threads \ {t}
  PROVE  HasSlot(u)'
  <1>1. th'[u] = th[u] /\ HasRow(u) /\ HasSlot(u) /\ Sound(th[u]) /\ th[u] \in Record
    BY DEF Goes, IInv, Current, Types
  <1>2. CASE ~Working(th[u])
    <2>1. th[u].pc \in {"idle", "job", "jobPool", "jobSync"}
      BY <1>1, <1>2, Table DEF Sound, Working, Record, Labels, Choice
    <2> QED  BY <1>1, <1>2, <2>1 DEF HasSlot
  <1>3. CASE Working(th[u])
    <2>1. th[u].n \in nets /\ th[u].n \in Nets /\ th[u].n # th[t].n
      BY <1>1, <1>3, DhcpAssumption DEF Sound, HasRow, IInv, Exclusive
    <2>2. \A e \in Edges, k \in Slots : vnic'[e][k] = th[u].n <=> vnic[e][k] = th[u].n
      BY <2>1 DEF Tabled
    <2>3. th[u].pc \in SlotLabels => th[u].edge \in Edges /\ th[u].slot \in Slots
      BY <1>1 DEF Sound, EdgeLabels, SlotLabels
    <2>4. ASSUME th[u].pc = "setSlot" PROVE vnic'[th[u].edge][th[u].slot] = NoNet
      <3>1. lock[Pool] = u
        BY <2>4 DEF IInv, Locked, UnderPool, Choice
      <3> QED  BY <1>1, <2>3, <2>4, <3>1 DEF Tabled, HasSlot, SlotLabels
    <2> QED  BY <1>1, <2>2, <2>3, <2>4 DEF HasSlot, SlotLabels
  <1> QED  BY <1>2, <1>3

\* What another request knows of the edges it may choose stays true: nobody else gives an
\* edge back, or a row to an edge, under its lock.
LEMMA ChoiceKept ==
  ASSUME IInv, NEW t \in Threads, Goes(t), Tabled(t), Types', NEW u \in Threads \ {t}
  PROVE  HasChoice(u)'
  <1>1. th'[u] = th[u] /\ HasRow(u) /\ HasChoice(u) /\ Sound(th[u]) /\ th[u] \in Record
    BY DEF Goes, IInv, Current, Types
  <1>2. CASE th[u].pc \notin Choosable
    BY <1>1, <1>2 DEF HasChoice, Choosable
  <1>3. CASE th[u].pc \in Choosable
    <2>1. lock[Pool] = u /\ ~Deletes(t)
      BY <1>3 DEF IInv, Locked, Alone, UnderPool, Choice, Choosable
    <2>2. free' \subseteq free
      BY <2>1 DEF Tabled
    <2>3. Working(th[u]) /\ th[u].n \in Nets /\ th[u].n # th[t].n
      <3>1. th[u].op \in {"create", "enable"}
        BY <1>1, <1>3, Table DEF Sound, Choice, Choosable
      <3> QED  BY <1>1, <3>1, DhcpAssumption DEF Sound, Working, IInv, Exclusive
    <2>4. \A m \in Nets : row'[m].edge = row[m].edge
      <3>1. th[t].pc # "select"
        BY <2>1, DhcpAssumption DEF IInv, Locked, UnderPool, Choice
      <3>2. row'[th[t].n].edge = row[th[t].n].edge
        BY <2>1, <3>1 DEF Tabled
      <3> QED  BY <3>2 DEF Tabled
    <2>5. ASSUME (th[u].pc = "moveIf" \/ (th[u].pc = "stay" /\ th[u].bad)), th[u].edge \in th[u].avail
          PROVE  \E m \in Nets \ {th[u].n} : row'[m].edge = th[u].edge
      <3>1. PICK m \in Nets \ {th[u].n} : row[m].edge = th[u].edge
        BY <1>1, <2>5 DEF HasChoice
      <3> QED  BY <2>4, <3>1
    <2>6. ASSUME faults' = 0, NEW m \in (Conflicting(th[u].n))', row'[m].edge \in th[u].avail
          PROVE  Waiting(m)'
      <3>1. m \in Nets /\ (m \in Conflicting(th[u].n))'
        BY <2>6 DEF Conflicting
      <3>2. faults = 0 /\ m \in Conflicting(th[u].n) /\ row[m].edge \in th[u].avail
        BY <1>1, <2>3, <2>4, <2>6, <3>1, ConflictsShrink DEF Tabled
      <3>3. PICK v \in Threads : th[v].n = m /\ th[v].pc \in {"read", "pool"}
        BY <1>1, <1>3, <3>1, <3>2 DEF HasChoice, Waiting
      <3>4. v = t => th'[t].pc \in {"read", "pool"} /\ th'[t].n = th[t].n
        BY <2>1, <3>3, DhcpAssumption DEF Goes
      <3> QED  BY <3>3, <3>4 DEF Waiting, Goes
    <2> QED  BY <1>1, <2>2, <2>5, <2>6 DEF HasChoice, Choosable
  <1> QED  BY <1>2, <1>3

\* The job's edges stay nobody else's.
LEMMA RepairsKept ==
  ASSUME IInv, NEW t \in Threads, Goes(t), Tabled(t), Types', NEW u \in Threads
  PROVE  Repairs(u)'
  <1>1. th[t] \in Record /\ Sound(th[t]) /\ Working(th[t]) /\ th[t].n \in Nets
    BY DEF IInv, Types, Goes, Sound
  <1>2. CASE u = t
    <2>1. th'[t].op # "job" /\ Sound(th'[t])
      BY <1>1, IdleSound DEF Goes, Working, Types
    <2>2. th'[t].seen = {} /\ th'[t].pc # "jobSync"
      BY <2>1, Table DEF Sound
    <2> QED  BY <1>2, <2>2 DEF Repairs
  <1>3. CASE u # t
    <2>1. th'[u] = th[u] /\ Repairs(u) /\ th[u] \in Record
      BY <1>3 DEF Goes, IInv, Types
    <2>2. ASSUME NEW p \in th[u].seen
          PROVE  /\ p[2] \notin free'
                 /\ row'[p[1]] = NoRow \/ row'[p[1]].edge = p[2]
                 /\ p[1] \in nets' => row'[p[1]].edge = p[2]
                 /\ \A v \in Threads : Spared(v, p)'
      <3>1. p[1] \in Nets /\ p[2] \in Edges
        BY <2>1 DEF Record
      <3>2. p[2] \notin free /\ (row[p[1]] = NoRow \/ row[p[1]].edge = p[2]) /\ (p[1] \in nets
            => row[p[1]].edge = p[2])
            /\ \A v \in Threads : Spared(v, p)
        BY <2>1 DEF Repairs
      <3>3. p[1] # th[t].n /\ row[th[t].n].edge # p[2] /\ (th[t].pc \in Choosable
            => p[2] \notin th[t].avail)
        BY <1>1, <3>2 DEF Spared
      <3>4. p[2] \notin free'
        BY <3>2, <3>3 DEF Tabled
      <3>5. row'[p[1]].edge = row[p[1]].edge
        BY <3>1, <3>3 DEF Tabled
      <3>6. row[p[1]] = NoRow => row'[p[1]] = NoRow
        BY <3>1, <3>5, NoRowType, DhcpAssumption DEF Types, Rows
      <3>7. p[1] \in nets' => p[1] \in nets
        BY DEF Tabled
      <3>8. ASSUME NEW v \in Threads \ {t} PROVE Spared(v, p)'
        <4>1. th'[v] = th[v] /\ Spared(v, p) /\ Sound(th[v])
          BY <3>2 DEF Goes, IInv, Types
        <4>2. Working(th[v]) => row'[th[v].n].edge = row[th[v].n].edge
          BY <1>1, <4>1, DhcpAssumption DEF Tabled, Sound, IInv, Exclusive
        <4> QED  BY <4>1, <4>2 DEF Spared
      <3>9. Spared(t, p)'
        <4>1. th'[t].n # p[1]
          BY <1>1, <3>1, <3>3, IdleSound, DhcpAssumption DEF Goes
        <4>2. Working(th'[t]) => row'[th[t].n].edge # p[2] /\ th'[t].n = th[t].n
          <5>1. row'[th[t].n].edge # p[2]
            BY <3>1, <3>2, <3>3, DhcpAssumption DEF Tabled, Choosable
          <5>2. Working(th'[t]) => th'[t].n = th[t].n
            BY IdleSound DEF Goes, Working
          <5> QED  BY <5>1, <5>2
        <4>3. th'[t].pc \in Choosable => p[2] \notin th'[t].avail
          <5>1. Repaired(p[2])
            BY DEF Repaired
          <5> QED  BY <3>3, <5>1 DEF Goes
        <4> QED  BY <4>1, <4>2, <4>3 DEF Spared
      <3> QED  BY <3>2, <3>4, <3>5, <3>6, <3>7, <3>8, <3>9
    <2>3. th[u].pc = "jobSync" => \E p \in th[u].seen : p[2] = th[u].edge
      BY <2>1 DEF Repairs
    <2> QED  BY <2>1, <2>2, <2>3 DEF Repairs
  <1> QED  BY <1>2, <1>3

\* A step of a request keeps the invariant when it keeps what is about its own network.
LEMMA Keeps ==
  ASSUME IInv, NEW t \in Threads, Goes(t), Tabled(t), Types', Current(t)',
         SubnetsLive', OneSlot', NoLeakedEdge', Healthy', Apart', Agrees'
  PROVE  IInv'
  <1>1. Exclusive' /\ Locked' /\ Alone'
    BY GoesLocks
  <1>2. \A u \in Threads : Repairs(u)'
    BY RepairsKept
  <1>3. \A u \in Threads \ {t} : Current(u)'
    BY RowKept, SlotKept, ChoiceKept DEF Current
  <1>4. \A u \in Threads : Current(u)'
    BY <1>3
  <1> QED  BY <1>1, <1>2, <1>4 DEF IInv

\* The other networks keep their slots.
LEMMA OneSlotKept ==
  ASSUME IInv, NEW t \in Threads, Goes(t), Tabled(t),
         \A e \in Edges, k \in Slots : (th[t].n \in nets' /\ vnic'[e][k] = th[t].n) =>
           row'[th[t].n].edge = e /\ \A j \in Slots : vnic'[e][j] = th[t].n => j = k
  PROVE  OneSlot'
  <1>1. ASSUME NEW m \in nets', NEW e \in Edges, NEW k \in Slots, vnic'[e][k] = m, m # th[t].n
        PROVE  row'[m].edge = e /\ \A j \in Slots : vnic'[e][j] = m => j = k
    <2>1. m \in nets /\ m \in Nets
      BY <1>1 DEF Tabled, IInv, Types, TypeOK
    <2>2. \A j \in Slots : vnic'[e][j] = m => vnic[e][j] = m
      BY <1>1, <2>1 DEF Tabled
    <2>3. row[m].edge = e /\ \A j \in Slots : vnic[e][j] = m => j = k
      BY <1>1, <2>1, <2>2 DEF IInv, OneSlot
    <2> QED  BY <1>1, <2>1, <2>2, <2>3 DEF Tabled
  <1> QED  BY <1>1 DEF OneSlot

\* The other networks keep their sub-interfaces.
LEMMA AgreesKept ==
  ASSUME IInv, NEW t \in Threads, Goes(t), Tabled(t),
         \A e \in Edges, k \in Slots :
           \/ iface'[e][k].left \/ iface'[e][k].net \notin nets'
           \/ vnic'[e][k] = iface'[e][k].net
           \/ /\ iface'[e][k].net = iface[e][k].net /\ iface'[e][k].left = iface[e][k].left
              /\ ~(th[t].pc \in {"moveIf", "delIf"} /\ e = th[t].edge /\ k = th[t].slot)
              /\ vnic[e][k] = th[t].n => vnic'[e][k] = th[t].n \/ (th'[t].n = th[t].n /\ Freed(e, k, th[t].n)')
  PROVE  Agrees'
  <1>1. ASSUME NEW e \in Edges, NEW k \in Slots, NEW m, m = iface'[e][k].net, m \in nets', ~iface'[e][k].left,
               iface'[e][k].net = iface[e][k].net /\ iface'[e][k].left = iface[e][k].left,
               ~(th[t].pc \in {"moveIf", "delIf"} /\ e = th[t].edge /\ k = th[t].slot),
               vnic[e][k] = th[t].n => vnic'[e][k] = th[t].n \/ (th'[t].n = th[t].n /\ Freed(e, k, th[t].n)')
        PROVE  vnic'[e][k] = m \/ Freed(e, k, m)'
    <2>1. m \in nets /\ m = iface[e][k].net /\ ~iface[e][k].left
      BY <1>1 DEF Tabled
    <2>2. vnic[e][k] = m \/ Freed(e, k, m)
      BY <2>1 DEF IInv, Agrees
    <2>3. CASE m # th[t].n /\ vnic[e][k] = m
      BY <2>1, <2>3 DEF Tabled
    <2>4. CASE m = th[t].n /\ vnic[e][k] = m
      BY <1>1, <2>4 DEF Freed
    <2>5. CASE Freed(e, k, m)
      <3>1. PICK u \in Threads : th[u].n = m /\ th[u].pc \in {"moveIf", "delIf"} /\ th[u].edge = e
            /\ th[u].slot = k
        BY <2>5 DEF Freed
      <3>2. u # t
        BY <1>1, <3>1
      <3>3. th'[u] = th[u]
        BY <3>2 DEF Goes
      <3> QED  BY <3>1, <3>3 DEF Freed
    <2> QED  BY <2>2, <2>3, <2>4, <2>5
  <1>2. ASSUME NEW e \in Edges, NEW k \in Slots, NEW m, m = iface'[e][k].net, m \in nets', ~iface'[e][k].left
        PROVE  vnic'[e][k] = m \/ Freed(e, k, m)'
    BY <1>1, <1>2
  <1> QED  BY <1>2 DEF Agrees, Freed

\* No new pair of overlapping networks gets on one edge, unless one of them is still to
\* decide.
LEMMA ApartKept ==
  ASSUME IInv, NEW t \in Threads, Goes(t), Tabled(t), Types',
         \/ row'[th[t].n].edge = row[th[t].n].edge
            /\ (Unsettled(t) => \/ Unsettled(t)'
                                \/ \A m \in Nets : (/\ faults' = 0 /\ m # th[t].n
                                                   /\ row[m].edge = row[th[t].n].edge /\ row[th[t].n].edge # NoEdge)
                                     => m \notin Conflicting(th[t].n) /\ th[t].n \notin Conflicting(m))
         \/ row'[th[t].n].edge = NoEdge
  PROVE  Apart'
  <1> DEFINE n == th[t].n
  <1>1. ASSUME faults' = 0, NEW a \in Nets, NEW b \in Nets, (a \in Conflicting(b))',
               row'[a].edge = row'[b].edge, row'[b].edge # NoEdge
        PROVE  Undecided(a)' \/ Undecided(b)'
    <2>1. faults = 0 /\ a \in Conflicting(b) /\ a # b
      <3>1. a # b
        BY <1>1 DEF Conflicting
      <3> QED  BY <1>1, <3>1, ConflictsShrink DEF Tabled
    <2>2. row'[a].edge = row[a].edge /\ row'[b].edge = row[b].edge
      BY <1>1 DEF Tabled
    <2>3. PICK c \in {a, b} : Undecided(c)
      BY <1>1, <2>1, <2>2 DEF IInv, Apart
    <2>4. PICK u \in Threads : th[u].n = c /\ Unsettled(u)
      BY <2>3 DEF Undecided
    <2>5. CASE u # t
      <3>1. th'[u] = th[u]
        BY <2>5 DEF Goes
      <3>2. Unsettled(u)'
        BY <2>4, <3>1 DEF Unsettled, MustMove
      <3> QED  BY <2>4, <3>1, <3>2 DEF Undecided
    <2>6. CASE u = t
      <3>1. Unsettled(t)'
        BY <1>1, <2>1, <2>2, <2>4, <2>6
      <3>2. th'[t].n = n
        BY <3>1, IdleSound DEF Goes, Unsettled
      <3> QED  BY <2>4, <2>6, <3>1, <3>2 DEF Undecided
    <2> QED  BY <2>5, <2>6
  <1> QED  BY <1>1 DEF Apart

\* A step that leaves the slots, the sub-interfaces, the edges and the networks.
Quiet ==
  /\ UNCHANGED <<nets, vnic, iface, free>>
  /\ \A s \in Subnets : subnet'[s] # "none" => subnet[s] # "none"
  /\ \A m \in Nets : row'[m].edge = row[m].edge /\ (row[m].status = "ERROR" => row'[m].status = "ERROR")
  /\ faults' = 0 => faults = 0 /\ row' = row

\* A quiet step keeps the invariant.
LEMMA Quietly ==
  ASSUME IInv, NEW t \in Threads, Goes(t), Types', Quiet, Current(t)', th[t].pc \notin {"moveIf", "delIf"},
         Unsettled(t) => \/ Unsettled(t)'
                         \/ row[th[t].n].edge = NoEdge
                         \/ \A m \in Nets : (/\ faults' = 0 /\ m # th[t].n
                                            /\ row[m].edge = row[th[t].n].edge /\ row[th[t].n].edge # NoEdge)
                               => m \notin Conflicting(th[t].n) /\ th[t].n \notin Conflicting(m)
  PROVE  IInv'
  <1>1. Tabled(t) /\ th[t].n \in Nets
    <2>1. th[t].n \in Nets
      BY DEF IInv, Types, Goes, Sound
    <2> QED  BY <2>1 DEF Quiet, Tabled
  <1>2. SubnetsLive'
    BY DEF Quiet, IInv, SubnetsLive
  <1>3. OneSlot'
    BY <1>1, OneSlotKept DEF Quiet, IInv, OneSlot
  <1>4. NoLeakedEdge'
    <2>1. \A e : (OnEdge(e))' = OnEdge(e)
      BY DEF Quiet, OnEdge
    <2> QED  BY <2>1 DEF Quiet, IInv, NoLeakedEdge
  <1>5. Healthy'
    BY DEF Quiet, IInv, Healthy
  <1>6. Agrees'
    BY <1>1, AgreesKept DEF Quiet
  <1>7. Apart'
    BY <1>1, ApartKept DEF Quiet
  <1> QED  BY <1>1, <1>2, <1>3, <1>4, <1>5, <1>6, <1>7, Keeps

\* _get_conflicting_networks_for_subnet is symmetric.
LEMMA ConflictsMutual ==
  ASSUME NEW m \in Nets, NEW n \in Nets, m \in Conflicting(n)
  PROVE  n \in Conflicting(m)
  <1>1. PICK s \in SubnetsOf(n), q \in SubnetsOf(m) : {s, q} \in Overlap
    BY DEF Conflicting, Clash
  <1>2. {q, s} \in Overlap
    <2>1. {q, s} = {s, q}
      OBVIOUS
    <2> QED  BY <1>1, <2>1
  <1> QED  BY <1>1, <1>2 DEF Conflicting, Clash

\* What holds of a request at work.
LEMMA AtWork ==
  ASSUME IInv, NEW t \in Threads, th[t].pc \notin {"idle", "job", "jobPool", "jobSync"}
  PROVE  /\ Types /\ Tables /\ th[t] \in Record /\ Sound(th[t]) /\ th[t].op \in OpsAt(th[t].pc)
         /\ Working(th[t]) /\ th[t].n \in Nets /\ th[t].n \in nets /\ th[t].n # NoNet
         /\ Current(t) /\ HasRow(t) /\ HasChoice(t) /\ HasSlot(t)
         /\ UnderPool(th[t]) => lock[Pool] = t
  <1>1. Types /\ Current(t) /\ (UnderPool(th[t]) => lock[Pool] = t)
    BY DEF IInv, Locked
  <1> QED  BY <1>1, AtSound, DhcpAssumption DEF Current, HasRow

\* What happens to the locks.
LEMMA LocksMove ==
  ASSUME IInv, NEW t \in Threads
  PROVE  /\ \A l \in LockNames : Hold(t, l) =>
              /\ lock' \in [LockNames -> Threads \cup {NoThread}] /\ lock'[l] = t
              /\ \A q \in LockNames \ {l} : lock'[q] = lock[q]
         /\ \A ls : Drop(t, ls) =>
              /\ lock' \in [LockNames -> Threads \cup {NoThread}]
              /\ \A q \in LockNames : lock'[q] = lock[q] \/ lock[q] = t
              /\ \A q \in LockNames \ ls : lock'[q] = lock[q]
         /\ UNCHANGED lock => lock' \in [LockNames -> Threads \cup {NoThread}]
  <1>1. lock \in [LockNames -> Threads \cup {NoThread}]
    BY DEF IInv, Types, TypeOK
  <1> QED  BY <1>1 DEF Hold, Drop

\* A request that ends gives its locks back.
LEMMA IdleGoes ==
  ASSUME IInv, NEW t \in Threads, Done(t), th[t].pc \notin {"idle", "job", "jobPool", "jobSync", "read", "pool"}
  PROVE  Goes(t) /\ Current(t)' /\ ~Unsettled(t)' /\ th'[t] = Idle
  <1>1. Types /\ Working(th[t]) /\ th[t].n \in nets
    BY AtWork
  <1>2. th'[t] = Idle /\ \A u \in Threads \ {t} : th'[u] = th[u]
    BY <1>1, DoneTypes
  <1>3. th'[t].pc = "idle" /\ th'[t].op = "none" /\ th'[t].n = NoNet /\ ~Working(th'[t])
    BY <1>2, IdleSound DEF Working
  <1>4. Drop(t, LockNames)
    BY DEF Done
  <1>5. lock' \in [LockNames -> Threads \cup {NoThread}] /\ \A l \in LockNames : lock'[l] = lock[l] \/ lock[l] = t
    BY <1>4, LocksMove
  <1>6. Goes(t)
    BY <1>1, <1>2, <1>3, <1>5 DEF Goes, UnderPool, Choice, Choosable, Deletes
  <1>7. Current(t)'
    BY <1>3 DEF Current, HasRow, HasChoice, HasSlot, Choosable
  <1>8. ~Unsettled(t)'
    BY <1>3 DEF Unsettled
  <1> QED  BY <1>2, <1>6, <1>7, <1>8

\* After a failure there is no going back to none.
LEMMA FaultGrows ==
  ASSUME IInv
  PROVE  /\ Fault => faults' # 0
         /\ UNCHANGED faults => (faults' = 0 => faults = 0)
         /\ faults \in Nat
  BY DhcpAssumption DEF Fault, IInv, Types, TypeOK

\* A subnet that fails to be created goes again.
LEMMA FailedGoes ==
  ASSUME IInv, NEW t \in Threads, Failed(t), th[t].pc \notin {"idle", "job", "jobPool", "jobSync", "read", "pool"}
  PROVE  /\ Goes(t) /\ Current(t)' /\ ~Unsettled(t)' /\ th'[t] = Idle
         /\ \A s \in Subnets : subnet'[s] # "none" => subnet[s] # "none"
  <1>1. Done(t) /\ subnet \in [Subnets -> {"none", "on", "off"}]
    BY DEF Failed, IInv, Types, TypeOK
  <1> QED  BY <1>1, IdleGoes DEF Failed

\* ReadRow
LEMMA ReadRowKeeps == ASSUME IInv, NEW t \in Threads, ReadRow(t) PROVE IInv'
  <1>1. th[t].pc = "read"
    BY DEF ReadRow, At
  <1>2. Types /\ th[t] \in Record /\ th[t].op \in OpsAt("read") /\ Working(th[t]) /\ th[t].n \in Nets
        /\ th[t].n \in nets
    BY <1>1, AtWork
  <1> DEFINE r == [th[t] EXCEPT !.pc = "pool", !.edge = row[th[t].n].edge, !.bad = (row[th[t].n].status = "ERROR")]
  <1>3. th' = [th EXCEPT ![t] = r]
    BY <1>2 DEF ReadRow, Types
  <1>4. r.pc = "pool" /\ r.n = th[t].n /\ r.op = th[t].op /\ r.edge = row[th[t].n].edge
        /\ (r.bad => row[th[t].n].status = "ERROR")
    BY <1>2 DEF Record
  <1> HIDE DEF r
  <1>5. th'[t] = r /\ \A u \in Threads \ {t} : th'[u] = th[u]
    BY <1>2, <1>3 DEF Types
  <1>6. UNCHANGED <<dbVars, edgeVars, lock, faults>>
    BY DEF ReadRow
  <1>7. th[t].op \in {"create", "enable"}
    BY <1>2, Table
  <1>8. Goes(t)
    BY <1>1, <1>2, <1>4, <1>5, <1>6, <1>7, LocksMove DEF Goes, UnderPool, Choice, Choosable, Deletes
  <1>9. Current(t)'
    BY <1>2, <1>4, <1>5, <1>6 DEF Current, HasRow, HasChoice, HasSlot, Choosable, edgeVars, dbVars
  <1>10. Quiet
    BY <1>6 DEF Quiet, edgeVars, dbVars
  <1>11. Unsettled(t)'
    BY <1>4, <1>5 DEF Unsettled
  <1> QED  BY <1>1, <1>8, <1>9, <1>10, <1>11, ReadRowTypes, Quietly DEF IInv

\* An edge with an overlapping network is in conf while no row is in ERROR.
LEMMA ConflictFound ==
  ASSUME IInv, faults = 0, NEW n \in Nets, NEW m \in Conflicting(n), row[m].edge # NoEdge
  PROVE  row[m].edge \in ConflictEdges(n)
  <1>1. m \in Nets
    BY DEF Conflicting
  <1>2. row[m].status = "ACTIVE"
    <2>1. row[m] # NoRow
      BY NoRowType
    <2> QED  BY <1>1, <2>1 DEF IInv, Types, Rows, Healthy
  <1>3. m \in Active
    BY <1>1, <1>2 DEF Active
  <1> QED  BY <1>3 DEF ConflictEdges

\* What create_dhcp_edge_service reads under the lock of the pool: without failures every
\* row is ACTIVE, so the edges of all overlapping networks are excluded.
LEMMA LockPoolKeeps == ASSUME ~Races, IInv, NEW t \in Threads, LockPool(t) PROVE IInv'
  <1>1. th[t].pc = "pool"
    BY DEF LockPool, At
  <1>2. Types /\ Tables /\ th[t] \in Record /\ th[t].op \in OpsAt("pool") /\ Working(th[t])
        /\ th[t].n \in Nets
        /\ th[t].n \in nets /\ HasRow(t)
    BY <1>1, AtWork
  <1> DEFINE n == th[t].n
             conf == ConflictEdges(n)
             avail == ActiveEdges \ conf
             label == IF th[t].edge = NoEdge THEN "select" ELSE "stay"
             r == [th[t] EXCEPT !.pc = label, !.conf = conf, !.avail = avail]
  <1>3. th' = [th EXCEPT ![t] = r]
    BY <1>2 DEF LockPool, Types
  <1>4. r.pc = label /\ r.n = n /\ r.op = th[t].op /\ r.edge = th[t].edge /\ r.bad = th[t].bad
        /\ r.conf = conf
        /\ r.avail = avail
    <2> HIDE DEF conf, avail, label
    <2> QED  BY <1>2 DEF Record
  <1>5. th'[t] = r /\ \A u \in Threads \ {t} : th'[u] = th[u]
    <2> HIDE DEF r
    <2> QED  BY <1>2, <1>3 DEF Types
  <1>6. UNCHANGED <<dbVars, edgeVars, faults>> /\ lock[Pool] = NoThread /\ Hold(t, Pool)
    BY DEF LockPool, Can
  <1>7. ~UnlockedDeletes /\ \A e \in avail : ~Repaired(e)
    BY DEF LockPool
  <1>8. row[n].edge = th[t].edge /\ (th[t].bad => row[n].status = "ERROR")
    BY <1>1, <1>2 DEF HasRow
  <1>9. label \in {"select", "stay"}
    OBVIOUS
  <1>10. avail \cap free = {} /\ avail \subseteq Edges
    <2>1. \A e \in avail : e \in Edges /\ OnEdge(e) # {}
      BY <1>2, NoRowType DEF ActiveEdges, Active, Types, TypeOK, OnEdge, Rows
    <2> QED  BY <2>1 DEF IInv, NoLeakedEdge
  <1>11. ASSUME th[t].bad, th[t].edge \in avail PROVE \E m \in Nets \ {n} : row[m].edge = th[t].edge
    <2>1. PICK m \in Active : row[m].edge = th[t].edge
      BY <1>11 DEF ActiveEdges
    <2> QED  BY <1>8, <1>11, <2>1 DEF Active
  <1>12. ASSUME faults = 0, NEW m \in Conflicting(n) PROVE row[m].edge \notin avail
    <2>1. NoEdge \notin avail
      BY <1>10, DhcpAssumption
    <2> QED  BY <1>2, <1>12, <2>1, ConflictFound
  <1>13. ASSUME label = "select" PROVE \A e \in Edges, k \in Slots : vnic[e][k] # n
    BY <1>2, <1>8, <1>13, DhcpAssumption DEF IInv, OneSlot
  <1>14. label = "select" => row[n] = NoRow
    BY <1>2, <1>8, DhcpAssumption DEF Tables, Rows
  <1> HIDE DEF r
  <1>15. Goes(t)
    <2>1. lock' \in [LockNames -> Threads \cup {NoThread}] /\ lock'[Pool] = t
          /\ \A l \in LockNames : lock'[l] = lock[l] \/ lock[l] = NoThread
      BY <1>6, LocksMove, PoolLock
    <2>2. th'[t].pc \in {"select", "stay"} /\ th'[t].n = th[t].n /\ th'[t].op = th[t].op /\ th'[t].avail = avail
      BY <1>4, <1>5, <1>9
    <2> HIDE DEF avail, n
    <2> QED  BY <1>1, <1>2, <1>5, <1>6, <1>7, <2>1, <2>2 DEF Goes, Deletes
  <1>16. Current(t)'
    <2>0. UNCHANGED <<nets, row, vnic, free, faults>> /\ th'[t] = r
      BY <1>5, <1>6 DEF dbVars, edgeVars
    <2> HIDE DEF avail, label, conf
    <2>1. HasRow(t)'
      BY <1>2, <1>4, <1>8, <1>9, <1>14, <2>0 DEF HasRow
    <2>2. HasChoice(t)'
      <3>1. avail \cap conf = {}
        BY DEF avail
      <3>2. ASSUME faults' = 0, NEW m \in (Conflicting(th[t].n))' PROVE row'[m].edge \notin th'[t].avail
        <4>1. m \in Nets /\ (m \in Conflicting(th[t].n))'
          BY <3>2 DEF Conflicting
        <4>2. th'[t].n = n /\ th'[t].avail = avail
          BY <1>4, <2>0
        <4>3. m \in Conflicting(n)
          BY <1>2, <1>6, <4>1, <4>2, ConflictsShrink DEF dbVars
        <4> QED  BY <1>6, <1>12, <2>0, <3>2, <4>2, <4>3
      <3> QED  BY <1>4, <1>9, <1>10, <1>11, <2>0, <3>1, <3>2 DEF HasChoice, Choosable
    <2>3. HasSlot(t)'
      BY <1>4, <1>9, <1>13, <2>0 DEF HasSlot
    <2> QED  BY <2>1, <2>2, <2>3 DEF Current
  <1>17. Quiet
    BY <1>6 DEF Quiet, edgeVars, dbVars
  <1>18. Unsettled(t)' \/ row[n].edge = NoEdge
         \/ \A m \in Nets : (faults' = 0 /\ m # n /\ row[m].edge = row[n].edge /\ row[n].edge # NoEdge)
               => m \notin Conflicting(n) /\ n \notin Conflicting(m)
    <2>1. ASSUME row[n].edge # NoEdge, faults' = 0, NEW m \in Nets, row[m].edge = row[n].edge, m \in Conflicting(n)
          PROVE  Unsettled(t)'
      <3>1. row[m].edge \in conf
        BY <1>2, <1>6, <2>1, ConflictFound
      <3>2. r.pc = "stay" /\ r.edge \in r.conf
        BY <1>4, <1>8, <2>1, <3>1
      <3> QED  BY <1>5, <3>2 DEF Unsettled, MustMove
    <2> QED  BY <1>2, <2>1, ConflictsMutual
  <1> QED  BY <1>1, <1>15, <1>16, <1>17, <1>18, LockPoolTypes, Quietly DEF IInv

\* A request goes on to a label.
LEMMA GotoIs ==
  ASSUME Types, NEW t \in Threads, NEW label, Goto(t, label)
  PROVE  /\ th'[t].pc = label /\ th'[t].op = th[t].op /\ th'[t].n = th[t].n /\ th'[t].s = th[t].s
         /\ th'[t].edge = th[t].edge /\ th'[t].slot = th[t].slot /\ th'[t].bad = th[t].bad
         /\ th'[t].avail = th[t].avail /\ th'[t].conf = th[t].conf /\ th'[t].ips = th[t].ips
         /\ \A u \in Threads \ {t} : th'[u] = th[u]
  <1>1. th[t] \in Record /\ th'[t] = [th[t] EXCEPT !.pc = label] /\ \A u \in Threads \ {t} : th'[u] = th[u]
    BY DEF Types, Goto
  <1> QED  BY <1>1 DEF Record

\* The lock of the pool is another one than those of networks and edges.
LEMMA PoolApart == \A x : Pool # Net(x) /\ Pool # Upd(x) /\ Pool # Edge(x)
  BY DEF Pool, Net, Upd, Edge

\* A network stays where no overlapping network is.
LEMMA StayKeeps == ASSUME IInv, NEW t \in Threads, Stay(t) PROVE IInv'
  <1>1. th[t].pc = "stay"
    BY DEF Stay, At
  <1>2. Types /\ th[t].op \in OpsAt("stay") /\ Working(th[t]) /\ th[t].n \in Nets /\ th[t].n \in nets
    BY <1>1, AtWork
  <1>3. th'[t].pc = "update" /\ th'[t].op = th[t].op /\ th'[t].n = th[t].n
        /\ \A u \in Threads \ {t} : th'[u] = th[u]
    BY <1>2, GotoIs DEF Stay
  <1>4. UNCHANGED <<dbVars, edgeVars, faults>> /\ Drop(t, {Pool}) /\ ~MustMove(t)
    BY DEF Stay
  <1>5. th[t].op \in {"create", "enable"}
    BY <1>2, Table DEF Choice
  <1>6. Goes(t)
    <2>1. lock' \in [LockNames -> Threads \cup {NoThread}] /\ \A q \in LockNames : lock'[q] = lock[q] \/ lock[q] = t
      BY <1>4, LocksMove
    <2> QED  BY <1>1, <1>2, <1>3, <1>5, <2>1 DEF Goes, UnderPool, Choice, Choosable, Deletes
  <1>7. Current(t)'
    BY <1>2, <1>3, <1>4 DEF Current, HasRow, HasChoice, HasSlot, Choosable, dbVars
  <1>8. Quiet
    BY <1>4 DEF Quiet, edgeVars, dbVars
  <1>9. ~Unsettled(t)
    BY <1>1, <1>4 DEF Unsettled
  <1> QED  BY <1>1, <1>6, <1>7, <1>8, <1>9, StayTypes, Quietly DEF IInv

\* allocate_new_dhcp_edge fails: a failure of the backend.
LEMMA NoNewKeeps == ASSUME IInv, NEW t \in Threads, NoNew(t) PROVE IInv'
  <1>1. th[t].pc = "select" /\ Failed(t) /\ UNCHANGED <<nets, edgeVars>> /\ faults' # 0
    BY FaultGrows DEF NoNew, At
  <1>2. Quiet
    BY <1>1, FailedGoes DEF Quiet, edgeVars
  <1>3. ~Unsettled(t)
    BY <1>1 DEF Unsettled
  <1> QED  BY <1>1, <1>2, <1>3, FailedGoes, NoNewTypes, Quietly DEF IInv

\* The free slot that was found stays free under the lock of the pool.
LEMMA FindSlotKeeps == ASSUME IInv, NEW t \in Threads, FindSlot(t) PROVE IInv'
  <1>1. th[t].pc = "slot" /\ UNCHANGED <<nets, edgeVars, faults>> /\ ~Unsettled(t)
    BY DEF FindSlot, At, Unsettled
  <1>2. CASE FreeSlots(th[t].edge) = {}
    <2>1. Failed(t)
      BY <1>2 DEF FindSlot
    <2>2. Quiet
      BY <1>1, <2>1, FailedGoes, FaultGrows DEF Quiet, edgeVars
    <2> QED  BY <1>1, <2>1, <2>2, FailedGoes, FindSlotTypes, Quietly DEF IInv
  <1>3. CASE FreeSlots(th[t].edge) # {}
    <2>1. PICK k \in FreeSlots(th[t].edge) :
            /\ th' = [th EXCEPT ![t].pc = "setSlot", ![t].slot = k]
            /\ UNCHANGED <<subnet, lock>>
      BY <1>3 DEF FindSlot
    <2>2. Types /\ th[t] \in Record /\ Working(th[t]) /\ th[t].n \in nets /\ lock[Pool] = t
          /\ Current(t) /\ Sound(th[t])
      BY <1>1, AtWork DEF UnderPool, Choice
    <2>3. k \in Slots /\ vnic[th[t].edge][k] = NoNet
      BY <2>2 DEF FreeSlots, SlotsOf
    <2> DEFINE r == [th[t] EXCEPT !.pc = "setSlot", !.slot = k]
    <2>4. th' = [th EXCEPT ![t] = r] /\ r.pc = "setSlot" /\ r.slot = k /\ r.n = th[t].n /\ r.op = th[t].op
          /\ r.edge = th[t].edge
      BY <2>1, <2>2 DEF Types, Record
    <2> HIDE DEF r
    <2>5. th'[t].pc = "setSlot" /\ th'[t].slot = k /\ th'[t].n = th[t].n /\ th'[t].op = th[t].op
          /\ th'[t].edge = th[t].edge /\ \A u \in Threads \ {t} : th'[u] = th[u]
      BY <2>2, <2>4 DEF Types
    <2>6. Goes(t)
      BY <1>1, <2>1, <2>2, <2>5, LocksMove DEF Goes, Choice, Choosable, Deletes
    <2>7. Current(t)'
      <3>1. HasRow(t)'
        BY <1>1, <2>2, <2>5 DEF Current, HasRow, edgeVars
      <3>2. HasChoice(t)'
        BY <2>5 DEF HasChoice, Choosable
      <3>3. HasSlot(t)'
        BY <1>1, <2>2, <2>3, <2>5 DEF Current, HasSlot, edgeVars
      <3> QED  BY <3>1, <3>2, <3>3 DEF Current
    <2>8. Quiet
      BY <1>1, <2>1, FaultGrows DEF Quiet, edgeVars
    <2> QED  BY <1>1, <2>6, <2>7, <2>8, FindSlotTypes, Quietly DEF IInv
  <1> QED  BY <1>2, <1>3

\* _update_dhcp_address reads the edge of the row and the slot there.
LEMMA UpdateKeeps == ASSUME IInv, NEW t \in Threads, Update(t) PROVE IInv'
  <1> DEFINE n == th[t].n  e == row[n].edge
  <1>1. th[t].pc = "update" /\ UNCHANGED <<dbVars, edgeVars, faults>> /\ ~Unsettled(t)
    BY DEF Update, At, Unsettled
  <1>2. Quiet
    BY <1>1, FaultGrows DEF Quiet, edgeVars, dbVars
  <1>3. CASE SlotsOf(e, n) = {}
    <2>1. Done(t)
      BY <1>3 DEF Update
    <2> QED  BY <1>1, <1>2, <2>1, IdleGoes, UpdateTypes, Quietly DEF IInv
  <1>4. CASE SlotsOf(e, n) # {}
    <2>1. PICK k \in SlotsOf(e, n) :
            /\ th' = [th EXCEPT ![t].pc = "updateIf", ![t].edge = e, ![t].slot = k,
                                 ![t].ips = Addresses(n)]
            /\ Hold(t, Upd(n))
      BY <1>4 DEF Update
    <2>2. Types /\ th[t] \in Record /\ Working(th[t]) /\ n \in Nets /\ n \in nets /\ (UnderPool(th[t])
          => lock[Pool] = t)
      BY <1>1, AtWork
    <2>3. vnic[e][k] = n
      BY <2>1 DEF SlotsOf
    <2> DEFINE ips == Addresses(n)
               r == [th[t] EXCEPT !.pc = "updateIf", !.edge = e, !.slot = k, !.ips = ips]
    <2>4. th' = [th EXCEPT ![t] = r]
      BY <2>1, <2>2 DEF Types
    <2>5. r.pc = "updateIf" /\ r.slot = k /\ r.n = n /\ r.op = th[t].op /\ r.edge = e
      <3> HIDE DEF ips, e
      <3> QED  BY <2>2 DEF Record
    <2> HIDE DEF r
    <2>6. th'[t] = r /\ \A u \in Threads \ {t} : th'[u] = th[u]
      BY <2>2, <2>4 DEF Types
    <2>7. lock' \in [LockNames -> Threads \cup {NoThread}] /\ lock'[Pool] = lock[Pool]
          /\ \A l \in LockNames : lock'[l] = lock[l] \/ lock[l] = NoThread
      <3>1. Upd(n) \in LockNames /\ lock[Upd(n)] = NoThread
        BY <2>2 DEF LockNames, Update, Can
      <3> QED  BY <2>1, <3>1, LocksMove, PoolLock, PoolApart
    <2>8. Goes(t)
      <3>1. UnderPool(th'[t]) => UnderPool(th[t])
        BY <1>1, <2>5, <2>6 DEF UnderPool, Choice
      <3> HIDE DEF e
      <3> QED  BY <1>1, <2>2, <2>5, <2>6, <2>7, <3>1 DEF Goes, Choice, Choosable, Deletes
    <2>9. Current(t)'
      BY <1>1, <2>2, <2>3, <2>5, <2>6 DEF Current, HasRow, HasChoice, HasSlot, Choosable, edgeVars, dbVars
    <2> QED  BY <1>1, <1>2, <2>8, <2>9, UpdateTypes, Quietly DEF IInv
  <1> QED  BY <1>3, <1>4

\* _update_dhcp_address fails, and marks the rows of the edge or not.
LEMMA UpdateFailsKeeps == ASSUME IInv, NEW t \in Threads, UpdateFails(t) PROVE IInv'
  <1>1. th[t].pc = "updateIf" /\ Failed(t) /\ UNCHANGED <<nets, vnic, iface, free>> /\ ~Unsettled(t)
    BY DEF UpdateFails, At, Unsettled
  <1>2. UNCHANGED <<row, faults>> \/ (faults' # 0 /\ row' = MarkError(row, th[t].edge))
    BY FaultGrows DEF UpdateFails
  <1>3. Tables /\ th[t].edge \in Edges
    BY <1>1, AtWork DEF Sound, EdgeLabels
  <1>4. Quiet
    BY <1>1, <1>2, <1>3, FailedGoes, FaultGrows, MarkTypes, RowsTables DEF Quiet
  <1> QED  BY <1>1, <1>4, FailedGoes, UpdateFailsTypes, Quietly DEF IInv

\* delete_dhcp_edge_service reads the edge of the row and the slot there; without the lock
\* of the pool, while nobody chooses an edge.
LEMMA DeleteReadKeeps == ASSUME ~Races, IInv, NEW t \in Threads, DeleteRead(t) PROVE IInv'
  <1> DEFINE n == th[t].n  e == row[n].edge
  <1>1. th[t].pc = "delRead" /\ UNCHANGED <<dbVars, edgeVars, faults>> /\ ~Unsettled(t)
    BY DEF DeleteRead, At, Unsettled
  <1>2. Quiet
    BY <1>1, FaultGrows DEF Quiet, edgeVars, dbVars
  <1>3. Types /\ th[t] \in Record /\ Working(th[t]) /\ n \in Nets /\ n \in nets /\ (UnderPool(th[t])
        => lock[Pool] = t)
        /\ (Unlocked(t) => lock[Pool] = NoThread)
    BY <1>1, AtWork DEF DeleteRead, Can
  <1>4. CASE SlotsOf(e, n) = {} /\ th[t].op # "delnet"
    <2>1. Done(t)
      BY <1>4 DEF DeleteRead
    <2> QED  BY <1>1, <1>2, <2>1, IdleGoes, DeleteReadTypes, Quietly DEF IInv
  <1>5. CASE SlotsOf(e, n) = {} /\ th[t].op = "delnet"
    <2>1. Goto(t, "delNet") /\ UNCHANGED lock
      BY <1>5 DEF DeleteRead
    <2>2. th'[t].pc = "delNet" /\ th'[t].op = th[t].op /\ th'[t].n = n
          /\ \A u \in Threads \ {t} : th'[u] = th[u]
      BY <1>3, <2>1, GotoIs
    <2>3. Goes(t)
      BY <1>1, <1>3, <2>1, <2>2, LocksMove DEF Goes, UnderPool, Choice, Choosable, Deletes
    <2>4. Current(t)'
      BY <1>1, <1>3, <2>2 DEF Current, HasRow, HasChoice, HasSlot, Choosable, dbVars
    <2> QED  BY <1>1, <1>2, <2>3, <2>4, DeleteReadTypes, Quietly DEF IInv
  <1>6. CASE SlotsOf(e, n) # {}
    <2>1. PICK k \in SlotsOf(e, n) :
            /\ th' = [th EXCEPT ![t].pc = "delSlot", ![t].edge = e, ![t].slot = k]
            /\ UNCHANGED lock
      BY <1>6 DEF DeleteRead
    <2>2. vnic[e][k] = n
      BY <2>1 DEF SlotsOf
    <2> DEFINE r == [th[t] EXCEPT !.pc = "delSlot", !.edge = e, !.slot = k]
    <2>4. th' = [th EXCEPT ![t] = r]
      BY <1>3, <2>1 DEF Types
    <2>5. r.pc = "delSlot" /\ r.slot = k /\ r.n = n /\ r.op = th[t].op /\ r.edge = e
      <3> HIDE DEF e
      <3> QED  BY <1>3 DEF Record
    <2> HIDE DEF r
    <2>6. th'[t] = r /\ \A u \in Threads \ {t} : th'[u] = th[u]
      BY <1>3, <2>4 DEF Types
    <2>8. Goes(t)
      <3>1. UnderPool(th'[t]) => UnderPool(th[t])
        BY <1>1, <2>5, <2>6 DEF UnderPool, Choice
      <3>2. Deletes(t)' => lock[Pool] = NoThread
        BY <1>3, <2>5, <2>6 DEF Deletes, Unlocked
      <3> HIDE DEF e
      <3> QED  BY <1>1, <1>3, <2>1, <2>5, <2>6, <3>1, <3>2, LocksMove DEF Goes, Choice, Choosable
    <2>9. Current(t)'
      BY <1>1, <1>3, <2>2, <2>5, <2>6 DEF Current, HasRow, HasChoice, HasSlot, Choosable, edgeVars, dbVars
    <2> QED  BY <1>1, <1>2, <2>8, <2>9, DeleteReadTypes, Quietly DEF IInv
  <1> QED  BY <1>4, <1>5, <1>6

\* delete_subnet deletes the subnet: conflicts only go.
LEMMA DeleteSubnetKeeps == ASSUME IInv, NEW t \in Threads, DeleteSubnet(t) PROVE IInv'
  <1>1. th[t].pc = "delPool" /\ UNCHANGED <<nets, edgeVars, faults>> /\ ~Unsettled(t)
        /\ lock[Pool] = NoThread
        /\ subnet' = [subnet EXCEPT ![th[t].s] = "none"]
    BY DEF DeleteSubnet, At, Unsettled, Can
  <1>2. Types /\ Working(th[t]) /\ th[t].n \in nets /\ th[t].op \in OpsAt("delPool")
    BY <1>1, AtWork
  <1>3. Quiet
    BY <1>1, <1>2, FaultGrows DEF Quiet, edgeVars, Types, TypeOK
  <1> DEFINE label == IF SubnetsOf(NetOf[th[t].s]) \ {th[t].s} = {} THEN "delRead" ELSE "update"
  <1>4. Done(t) \/ (Hold(t, Pool) /\ Goto(t, label))
    BY DEF DeleteSubnet
  <1>5. label \in {"delRead", "update"}
    OBVIOUS
  <1> HIDE DEF label
  <1>6. CASE Done(t)
    BY <1>1, <1>3, <1>6, IdleGoes, DeleteSubnetTypes, Quietly DEF IInv
  <1>7. CASE Hold(t, Pool) /\ Goto(t, label)
    <2>1. th'[t].pc = label /\ th'[t].op = th[t].op /\ th'[t].n = th[t].n
          /\ \A u \in Threads \ {t} : th'[u] = th[u]
      BY <1>2, <1>7, GotoIs
    <2>2. lock' \in [LockNames -> Threads \cup {NoThread}] /\ lock'[Pool] = t
          /\ \A l \in LockNames : lock'[l] = lock[l] \/ lock[l] = NoThread
      BY <1>1, <1>7, LocksMove, PoolLock
    <2>3. Goes(t)
      BY <1>1, <1>2, <1>5, <2>1, <2>2 DEF Goes, Choice, Choosable, Deletes
    <2>4. Current(t)'
      BY <1>1, <1>2, <1>5, <2>1 DEF Current, HasRow, HasChoice, HasSlot, Choosable
    <2> QED  BY <1>1, <1>3, <2>3, <2>4, DeleteSubnetTypes, Quietly DEF IInv
  <1> QED  BY <1>4, <1>6, <1>7

\* update_subnet goes on to create the service.
LEMMA EnableKeeps == ASSUME IInv, NEW t \in Threads, Enable(t) PROVE IInv'
  <1>1. th[t].pc = "enable" /\ UNCHANGED <<dbVars, edgeVars, faults>> /\ ~Unsettled(t)
        /\ lock[Net(th[t].n)] = NoThread
    BY DEF Enable, At, Unsettled, Can
  <1>2. Types /\ Working(th[t]) /\ th[t].n \in Nets /\ th[t].n \in nets /\ th[t].op \in OpsAt("enable")
    BY <1>1, AtWork
  <1>3. Quiet
    BY <1>1, FaultGrows DEF Quiet, edgeVars, dbVars
  <1>4. th'[t].pc = "read" /\ th'[t].op = th[t].op /\ th'[t].n = th[t].n
        /\ \A u \in Threads \ {t} : th'[u] = th[u]
    BY <1>2, GotoIs DEF Enable
  <1>5. lock' \in [LockNames -> Threads \cup {NoThread}]
          /\ \A l \in LockNames : lock'[l] = lock[l] \/ lock[l] = NoThread
    <2>1. Net(th[t].n) \in LockNames
      BY <1>2 DEF LockNames
    <2> QED  BY <1>1, <2>1, LocksMove DEF Enable
  <1>6. th[t].op = "enable"
    BY <1>2, Table
  <1>7. Goes(t)
    BY <1>1, <1>2, <1>4, <1>5, <1>6 DEF Goes, UnderPool, Choice, Choosable, Deletes
  <1>8. Current(t)'
    BY <1>1, <1>2, <1>4 DEF Current, HasRow, HasChoice, HasSlot, Choosable, dbVars
  <1> QED  BY <1>1, <1>3, <1>7, <1>8, EnableTypes, Quietly DEF IInv

\* The rows after a binding is deleted: r is the table of rows, perhaps with errors marked.
LEMMA Unbinding ==
  ASSUME IInv, NEW t \in Threads, NEW n, NEW e, n = th[t].n, e = th[t].edge, n \in Nets, e \in Edges, row[n].edge = e,
         NEW r, r = row \/ (r = MarkError(row, e) /\ faults' # 0), Unbind(r, n, e)
  PROVE  /\ row'[n] = NoRow
         /\ \A m \in Nets \ {n} : row'[m].edge = row[m].edge /\ (row[m].status = "ERROR" => row'[m].status = "ERROR")
         /\ faults' = 0 => \A m \in Nets \ {n} : row'[m] = row[m]
         /\ free \subseteq free' /\ free' \subseteq free \cup {e}
         /\ e \in free' \/ \E m \in Nets \ {n} : row[m].edge = e
         /\ e \in free' \ free => \A m \in Nets \ {n} : row[m].edge # e
  <1>1. Tables /\ RowsIn(row) /\ free \subseteq Edges
    BY TypesSplit, RowsTables DEF IInv, Tables
  <1>2. RowsIn(r) /\ \A m \in Nets : r[m].edge = row[m].edge /\ (row[m].status = "ERROR"
        => r[m].status = "ERROR")
    BY <1>1, MarkTypes
  <1> QED  BY <1>1, <1>2, UnbindTypes

\* A request deletes the binding of its network, which has no slot.
LEMMA UnbindKeeps ==
  ASSUME IInv, NEW t \in Threads, Goes(t), NEW n, NEW e, n = th[t].n, e = th[t].edge, n \in Nets, e \in Edges, row[n].edge = e,
         NEW r, r = row \/ (r = MarkError(row, e) /\ faults' # 0), Unbind(r, n, e),
         lock[Pool] = t \/ Deletes(t), UNCHANGED <<dbVars, vnic>>, faults' = 0 => faults = 0,
         \A d \in Edges, k \in Slots : vnic[d][k] # n,
         \A d \in Edges, k \in Slots :
           \/ iface'[d][k].left \/ iface'[d][k].net \notin nets
           \/ iface'[d][k] = iface[d][k] /\ ~(th[t].pc \in {"moveIf", "delIf"} /\ d = e /\ k = th[t].slot),
         Types', Current(t)'
  PROVE  IInv'
  <1>1. /\ row'[n] = NoRow /\ row'[n].edge = NoEdge
        /\ \A m \in Nets \ {n} : row'[m].edge = row[m].edge /\ (row[m].status = "ERROR" => row'[m].status = "ERROR")
        /\ faults' = 0 => \A m \in Nets \ {n} : row'[m] = row[m]
        /\ free \subseteq free' /\ free' \subseteq free \cup {e}
        /\ e \in free' \/ \E m \in Nets \ {n} : row[m].edge = e
        /\ e \in free' \ free => \A m \in Nets \ {n} : row[m].edge # e
    <2>1. row'[n] = NoRow => row'[n].edge = NoEdge
      BY NoRowType
    <2> QED  BY <2>1, Unbinding
  <1>2. Tabled(t)
    BY <1>1, DhcpAssumption DEF Tabled, dbVars
  <1>3. SubnetsLive'
    BY DEF IInv, SubnetsLive, dbVars
  <1>4. OneSlot'
    BY <1>2, OneSlotKept DEF dbVars
  <1>5. NoLeakedEdge'
    <2>1. ASSUME NEW d \in free' PROVE OnEdge(d)' = {}
      <3>1. d \in Edges /\ d # NoEdge
        BY DhcpAssumption DEF Types, TypeOK
      <3>2. d \in free => \A m \in Nets : row[m].edge # d
        BY DEF IInv, NoLeakedEdge, OnEdge
      <3>3. \A m \in Nets \ {n} : row[m].edge # d
        BY <1>1, <3>2
      <3> QED  BY <1>1, <3>1, <3>3 DEF OnEdge
    <2>2. ASSUME nets' = Nets, NEW d \in Edges \ free' PROVE OnEdge(d)' # {}
      <3>1. PICK m \in Nets : row[m].edge = d
        BY <1>1, <2>2 DEF IInv, NoLeakedEdge, OnEdge, dbVars
      <3>2. \E c \in Nets \ {n} : row[c].edge = d
        BY <1>1, <2>2, <3>1
      <3> QED  BY <1>1, <3>2 DEF OnEdge
    <2> QED  BY <2>1, <2>2 DEF NoLeakedEdge
  <1>6. Healthy'
    BY <1>1, NoRowType DEF IInv, Healthy
  <1>7. Apart'
    BY <1>1, <1>2, ApartKept
  <1>8. Agrees'
    BY <1>2, AgreesKept DEF dbVars
  <1> QED  BY <1>2, <1>3, <1>4, <1>5, <1>6, <1>7, <1>8, Keeps

\* What a request that has left its edge may choose from.
LEMMA ChoiceLeft ==
  ASSUME IInv, NEW t \in Threads, NEW n, NEW e, n = th[t].n, e = th[t].edge, n \in Nets, e \in Edges, row[n].edge = e,
         NEW r, r = row \/ (r = MarkError(row, e) /\ faults' # 0), Unbind(r, n, e),
         UNCHANGED dbVars, faults' = 0 => faults = 0, th[t].pc \in Choosable,
         e \in th[t].avail => \E m \in Nets \ {n} : row[m].edge = e,
         th'[t].pc = "select", th'[t].n = n, th'[t].avail = th[t].avail, \A u \in Threads \ {t} : th'[u] = th[u]
  PROVE  HasChoice(t)'
  <1>1. /\ \A m \in Nets \ {n} : row'[m].edge = row[m].edge
        /\ free' \subseteq free \cup {e}
        /\ e \in free' \ free => \A m \in Nets \ {n} : row[m].edge # e
    BY Unbinding
  <1>2. HasChoice(t)
    BY DEF IInv, Current
  <1>3. th'[t].avail \cap free' = {}
    BY <1>1, <1>2 DEF HasChoice
  <1>4. ASSUME faults' = 0, NEW m \in (Conflicting(th[t].n))', row'[m].edge \in th'[t].avail PROVE Waiting(m)'
    <2>1. m \in Nets /\ (m \in Conflicting(th[t].n))' /\ m # th'[t].n
      BY <1>4 DEF Conflicting
    <2>2. m \in Conflicting(n) /\ m # n
      BY <2>1, ConflictsShrink DEF dbVars
    <2>3. Waiting(m)
      BY <1>1, <1>2, <1>4, <2>1, <2>2 DEF HasChoice
    <2>4. PICK u \in Threads : th[u].n = m /\ th[u].pc \in {"read", "pool"}
      BY <2>3 DEF Waiting
    <2>5. th'[u] = th[u]
      BY <2>2, <2>4
    <2> QED  BY <2>4, <2>5 DEF Waiting
  <1> QED  BY <1>3, <1>4 DEF HasChoice

\* remove_network_from_dhcp_edge: the last network on an edge that is left is not about to
\* choose that edge again.
LEMMA MoveKeeps == ASSUME IInv, NEW t \in Threads, Move(t) PROVE IInv'
  <1> DEFINE n == th[t].n  e == th[t].edge
  <1>1. th[t].pc = "stay" /\ UNCHANGED <<dbVars, iface, faults>> /\ lock[Edge(e)] = NoThread /\ MustMove(t)
    BY DEF Move, At, Can
  <1>2. /\ Types /\ Tables /\ th[t] \in Record /\ Sound(th[t]) /\ th[t].op \in OpsAt("stay") /\ Working(th[t])
        /\ n \in Nets /\ n \in nets /\ n # NoNet /\ lock[Pool] = t /\ HasRow(t) /\ HasChoice(t)
    BY <1>1, AtWork DEF UnderPool, Choice
  <1>3. e \in Edges /\ row[n].edge = e
    BY <1>1, <1>2 DEF Sound, EdgeLabels, HasRow
  <1>4. e \in th[t].avail => \E m \in Nets \ {n} : row[m].edge = e
    BY <1>1, <1>2 DEF HasChoice, MustMove
  <1>5. \A d \in Edges, k \in Slots : vnic[d][k] = n => d = e /\ \A j \in Slots : vnic[e][j] = n => j = k
    BY <1>2, <1>3 DEF IInv, OneSlot
  <1>6. faults' = 0 => faults = 0
    BY <1>1
  <1>7. CASE SlotsOf(e, n) = {}
    <2>1. Unbind(row, n, e) /\ Goto(t, "select") /\ UNCHANGED <<vnic, lock>>
      BY <1>7 DEF Move
    <2>2. th'[t].pc = "select" /\ th'[t].n = n /\ th'[t].op = th[t].op /\ th'[t].avail = th[t].avail
          /\ \A u \in Threads \ {t} : th'[u] = th[u]
      BY <1>2, <2>1, GotoIs
    <2>3. Goes(t)
      BY <1>1, <1>2, <2>1, <2>2, LocksMove DEF Goes, Choice, Choosable, Deletes
    <2>4. \A d \in Edges, k \in Slots : vnic[d][k] # n
      BY <1>3, <1>5, <1>7, DhcpAssumption DEF SlotsOf
    <2>5. HasChoice(t)'
      <3> HIDE DEF n, e
      <3> QED  BY <1>1, <1>2, <1>3, <1>4, <1>6, <2>1, <2>2, ChoiceLeft DEF Choosable, n, e
    <2>6. row'[n] = NoRow
      BY <2>1, <1>2 DEF Unbind, Tables
    <2>7. HasRow(t)' /\ HasSlot(t)'
      BY <1>1, <1>2, <2>1, <2>2, <2>4, <2>6 DEF HasRow, HasSlot, dbVars
    <2>8. Types' /\ Current(t)'
      BY <1>2, <2>5, <2>7, MoveTypes DEF Current
    <2>9. \A d \in Edges, k \in Slots : iface'[d][k] = iface[d][k] /\ th[t].pc \notin {"moveIf", "delIf"}
      BY <1>1
    <2> QED  BY <1>1, <1>2, <1>3, <1>6, <2>1, <2>3, <2>4, <2>8, <2>9, UnbindKeeps
  <1>8. CASE SlotsOf(e, n) # {}
    <2>1. PICK k \in SlotsOf(e, n) :
            /\ vnic' = [vnic EXCEPT ![e][k] = NoNet]
            /\ Hold(t, Edge(e))
            /\ th' = [th EXCEPT ![t].pc = "moveIf", ![t].slot = k]
            /\ UNCHANGED <<row, free>>
      BY <1>8 DEF Move
    <2>2. k \in Slots /\ vnic[e][k] = n
      BY <1>3, DhcpAssumption, <2>1 DEF SlotsOf
    <2> DEFINE r == [th[t] EXCEPT !.pc = "moveIf", !.slot = k]
    <2>3. th' = [th EXCEPT ![t] = r] /\ r.pc = "moveIf" /\ r.slot = k /\ r.n = n /\ r.op = th[t].op
          /\ r.edge = e /\ r.avail = th[t].avail /\ r.bad = th[t].bad
      BY <1>2, <2>1 DEF Types, Record
    <2> HIDE DEF r
    <2>4. th'[t].pc = "moveIf" /\ th'[t].slot = k /\ th'[t].n = n /\ th'[t].op = th[t].op
          /\ th'[t].bad = th[t].bad
          /\ th'[t].edge = e /\ th'[t].avail = th[t].avail /\ \A u \in Threads \ {t} : th'[u] = th[u]
      BY <1>2, <2>3 DEF Types
    <2>5. Goes(t)
      <3>1. lock' \in [LockNames -> Threads \cup {NoThread}] /\ lock'[Pool] = lock[Pool]
            /\ \A l \in LockNames : lock'[l] = lock[l] \/ lock[l] = NoThread
        <4>1. Edge(e) \in LockNames
          BY <1>3 DEF LockNames
        <4> QED  BY <1>1, <2>1, <4>1, LocksMove, PoolLock, PoolApart
      <3> QED  BY <1>1, <1>2, <2>4, <3>1 DEF Goes, Choice, Choosable, Deletes
    <2>6. /\ vnic'[e][k] = NoNet
          /\ \A d \in Edges, j \in Slots : (d # e \/ j # k) => vnic'[d][j] = vnic[d][j]
      BY <1>2, <1>3, <2>1, <2>2 DEF Tables
    <2>7. \A d \in Edges, j \in Slots : vnic'[d][j] # n
      BY <1>2, <1>5, <2>2, <2>6
    <2>8. Tabled(t)
      <3>1. \A m \in nets \ {n} : m # NoNet
        BY <1>2, DhcpAssumption DEF Tables
      <3> QED  BY <1>1, <1>2, <2>1, <2>2, <2>6, <3>1 DEF Tabled, dbVars
    <2>9. Current(t)'
      <3>1. HasRow(t)' /\ HasSlot(t)'
        <4>1. HasRow(t)'
          <5> HIDE DEF n, e
          <5> QED  BY <1>1, <1>2, <1>3, <2>1, <2>4 DEF HasRow, dbVars
        <4>2. HasSlot(t)'
          BY <2>4, <2>7 DEF HasSlot
        <4> QED  BY <4>1, <4>2
      <3>2. HasChoice(t)'
        <4>1. ASSUME faults' = 0, NEW m \in (Conflicting(th[t].n))', row'[m].edge \in th'[t].avail PROVE Waiting(m)'
          <5>1. m \in Nets /\ (m \in Conflicting(th[t].n))' /\ m # th'[t].n
            BY <4>1 DEF Conflicting
          <5>2. m \in Conflicting(n) /\ m # n
            BY <1>1, <1>2, <2>4, <5>1, ConflictsShrink DEF dbVars
          <5>3. Waiting(m)
            BY <1>1, <1>2, <2>1, <2>4, <4>1, <5>2 DEF HasChoice, Choosable
          <5>4. PICK u \in Threads : th[u].n = m /\ th[u].pc \in {"read", "pool"}
            BY <5>3 DEF Waiting
          <5>5. th'[u] = th[u]
            BY <2>4, <5>2, <5>4
          <5> QED  BY <5>4, <5>5 DEF Waiting
        <4>2. th'[t].avail \cap free' = {}
          BY <1>1, <1>2, <2>1, <2>4 DEF HasChoice, Choosable
        <4>3. th'[t].edge \in th'[t].avail => \E m \in Nets \ {th'[t].n} : row'[m].edge = th'[t].edge
          BY <1>1, <1>2, <1>4, <2>1, <2>4 DEF HasChoice
        <4>4. th'[t].pc = "moveIf"
          BY <2>4
        <4> QED  BY <4>1, <4>2, <4>3, <4>4 DEF HasChoice
      <3> QED  BY <3>1, <3>2 DEF Current
    <2>10. SubnetsLive' /\ Healthy'
      BY <1>1, <2>1 DEF IInv, SubnetsLive, Healthy, dbVars
    <2>11. NoLeakedEdge'
      BY <1>1, <2>1 DEF IInv, NoLeakedEdge, OnEdge, dbVars
    <2>12. OneSlot'
      BY <2>5, <2>7, <2>8, OneSlotKept
    <2>13. Apart'
      <3>1. Unsettled(t)'
        BY <2>4 DEF Unsettled
      <3> QED  BY <1>2, <2>1, <2>5, <2>8, <3>1, MoveTypes, ApartKept
    <2>14. Agrees'
      <3>1. \A d \in Edges, j \in Slots : vnic[d][j] = n => th'[t].n = n /\ (\E u \in Threads :
              th'[u].n = th'[t].n /\ th'[u].pc \in {"moveIf", "delIf"} /\ th'[u].edge = d /\ th'[u].slot = j)
        BY <1>5, <2>2, <2>4
      <3>2. \A d \in Edges, j \in Slots : vnic[d][j] = n => th'[t].n = n /\ Freed(d, j, th[t].n)'
        BY <3>1 DEF Freed
      <3> QED  BY <1>1, <2>5, <2>8, <3>2, AgreesKept
    <2> QED  BY <1>2, <2>5, <2>8, <2>9, <2>10, <2>11, <2>12, <2>13, <2>14, MoveTypes, Keeps
  <1> QED  BY <1>7, <1>8

\* _delete_dhcp_internal_interface removes the sub-interface or leaves it to the job.
LEMMA DeleteIfaceIs ==
  ASSUME IInv, NEW t \in Threads, th[t].edge \in Edges, th[t].slot \in Slots, NEW ok \in BOOLEAN, DeleteIface(t, ok)
  PROVE  /\ \A d \in Edges, k \in Slots :
              \/ iface'[d][k].left \/ iface'[d][k].net \notin nets
              \/ iface'[d][k] = iface[d][k] /\ ~(d = th[t].edge /\ k = th[t].slot)
         /\ faults' = 0 => faults = 0
         /\ \E r : (r = row \/ (r = MarkError(row, th[t].edge) /\ faults' # 0)) /\ Unbind(r, th[t].n, th[t].edge)
  <1> DEFINE e == th[t].edge  k == th[t].slot
             x == IF ok \/ iface[e][k] = NoIf THEN NoIf ELSE [iface[e][k] EXCEPT !.left = TRUE]
  <1>1. iface \in [Edges -> [Slots -> [net : Nets \cup {NoNet}, ips : SUBSET Subnets, left : BOOLEAN]]] /\ nets \subseteq Nets
    BY DEF IInv, Types, TypeOK
  <1>2. x.left \/ x.net \notin nets
    <2>1. NoIf.net = NoNet
      BY DEF NoIf
    <2>2. [iface[e][k] EXCEPT !.left = TRUE].left
      BY <1>1
    <2> QED  BY <1>1, <2>1, <2>2, DhcpAssumption
  <1>3. iface' = [iface EXCEPT ![e] = [iface[e] EXCEPT ![k] = x]]
    BY <1>1 DEF DeleteIface
  <1> HIDE DEF x
  <1>4. iface'[e][k] = x /\ \A d \in Edges, j \in Slots : d # e \/ j # k => iface'[d][j] = iface[d][j]
    BY <1>1, <1>3
  <1>5. Unbind(IF ok THEN row ELSE MarkError(row, e), th[t].n, e) /\ (IF ok THEN UNCHANGED faults ELSE faults' # 0)
    BY FaultGrows DEF DeleteIface
  <1>6. \E r : (r = row \/ (r = MarkError(row, e) /\ faults' # 0)) /\ Unbind(r, th[t].n, e)
    BY <1>5
  <1>7. faults' = 0 => faults = 0
    BY <1>5
  <1>8. \A d \in Edges, j \in Slots :
              \/ iface'[d][j].left \/ iface'[d][j].net \notin nets
              \/ iface'[d][j] = iface[d][j] /\ ~(d = e /\ j = k)
    BY <1>2, <1>4
  <1> QED  BY <1>6, <1>7, <1>8

\* remove_network_from_dhcp_edge deletes the sub-interface and the row.
LEMMA MoveIfKeeps == ASSUME IInv, NEW t \in Threads, MoveIf(t) PROVE IInv'
  <1> DEFINE n == th[t].n  e == th[t].edge
  <1>1. th[t].pc = "moveIf" /\ UNCHANGED <<dbVars, vnic>> /\ Drop(t, {Edge(e)}) /\ Goto(t, "select")
    BY DEF MoveIf, At
  <1>2. /\ Types /\ Tables /\ Sound(th[t]) /\ th[t].op \in OpsAt("moveIf") /\ Working(th[t])
        /\ n \in Nets /\ n \in nets /\ lock[Pool] = t /\ HasRow(t) /\ HasChoice(t) /\ HasSlot(t)
    BY <1>1, AtWork DEF UnderPool, Choice
  <1>3. e \in Edges /\ row[n].edge = e /\ th[t].slot \in Slots
        /\ \A d \in Edges, k \in Slots : vnic[d][k] # n
    BY <1>1, <1>2 DEF Sound, EdgeLabels, SlotLabels, HasRow, HasSlot
  <1>4. PICK ok \in BOOLEAN : DeleteIface(t, ok)
    BY DEF MoveIf
  <1>5. PICK r : (r = row \/ (r = MarkError(row, e) /\ faults' # 0)) /\ Unbind(r, n, e)
    BY <1>3, <1>4, DeleteIfaceIs
  <1>6. /\ faults' = 0 => faults = 0
        /\ \A d \in Edges, k \in Slots :
              \/ iface'[d][k].left \/ iface'[d][k].net \notin nets
              \/ iface'[d][k] = iface[d][k] /\ ~(d = e /\ k = th[t].slot)
    BY <1>3, <1>4, DeleteIfaceIs
  <1>7. th'[t].pc = "select" /\ th'[t].n = n /\ th'[t].op = th[t].op /\ th'[t].avail = th[t].avail
        /\ \A u \in Threads \ {t} : th'[u] = th[u]
    BY <1>1, <1>2, GotoIs
  <1>8. Goes(t)
    <2>1. lock' \in [LockNames -> Threads \cup {NoThread}] /\ (\A l \in LockNames : lock'[l] = lock[l] \/ lock[l] = t)
          /\ lock'[Pool] = t
      BY <1>1, <1>2, LocksMove, PoolLock, PoolApart
    <2> QED  BY <1>1, <1>2, <1>7, <2>1 DEF Goes, Choice, Choosable, Deletes
  <1>9. row'[n] = NoRow
    BY <1>2, <1>3, <1>5, Unbinding
  <1>10. Current(t)'
    <2>1. e \in th[t].avail => \E m \in Nets \ {n} : row[m].edge = e
      BY <1>1, <1>2 DEF HasChoice
    <2>2. HasChoice(t)'
      BY <1>1, <1>2, <1>3, <1>5, <1>6, <1>7, <2>1, ChoiceLeft DEF Choosable
    <2>3. HasRow(t)'
      BY <1>1, <1>2, <1>7, <1>9 DEF HasRow, dbVars
    <2>4. HasSlot(t)'
      BY <1>1, <1>3, <1>7 DEF HasSlot
    <2> QED  BY <2>2, <2>3, <2>4 DEF Current
  <1> QED  BY <1>1, <1>2, <1>3, <1>5, <1>6, <1>8, <1>10, MoveIfTypes, UnbindKeeps

\* delete_dhcp_edge_service deletes the sub-interface and the row.
LEMMA DeleteIfKeeps == ASSUME IInv, NEW t \in Threads, DeleteIf(t) PROVE IInv'
  <1> DEFINE n == th[t].n  e == th[t].edge
  <1>1. th[t].pc = "delIf" /\ UNCHANGED <<dbVars, vnic>>
    BY DEF DeleteIf, At
  <1>2. /\ Types /\ Tables /\ Sound(th[t]) /\ th[t].op \in OpsAt("delIf") /\ Working(th[t])
        /\ n \in Nets /\ n \in nets /\ (UnderPool(th[t]) => lock[Pool] = t) /\ HasRow(t) /\ HasSlot(t)
    BY <1>1, AtWork
  <1>3. e \in Edges /\ row[n].edge = e /\ th[t].slot \in Slots
        /\ \A d \in Edges, k \in Slots : vnic[d][k] # n
    BY <1>1, <1>2 DEF Sound, EdgeLabels, SlotLabels, HasRow, HasSlot
  <1>4. PICK ok \in BOOLEAN : DeleteIface(t, ok)
    BY DEF DeleteIf
  <1>5. PICK r : (r = row \/ (r = MarkError(row, e) /\ faults' # 0)) /\ Unbind(r, n, e)
    BY <1>3, <1>4, DeleteIfaceIs
  <1>6. /\ faults' = 0 => faults = 0
        /\ \A d \in Edges, k \in Slots :
              \/ iface'[d][k].left \/ iface'[d][k].net \notin nets
              \/ iface'[d][k] = iface[d][k] /\ ~(d = e /\ k = th[t].slot)
    BY <1>3, <1>4, DeleteIfaceIs
  <1>7. lock[Pool] = t \/ Deletes(t)
    BY <1>1, <1>2, Table DEF UnderPool, Deletes, Unlocked
  <1>8. Goes(t) /\ Current(t)'
    <2>1. CASE Done(t)
      BY <1>1, <2>1, IdleGoes
    <2>2. CASE Drop(t, {Edge(e)}) /\ Goto(t, "delNet") /\ th[t].op = "delnet"
      <3>1. th'[t].pc = "delNet" /\ th'[t].n = n /\ th'[t].op = th[t].op
            /\ \A u \in Threads \ {t} : th'[u] = th[u]
        BY <1>2, <2>2, GotoIs
      <3>2. lock' \in [LockNames -> Threads \cup {NoThread}] /\ \A l \in LockNames : lock'[l] = lock[l] \/ lock[l] = t
        BY <2>2, LocksMove
      <3>3. Goes(t)
        BY <1>1, <1>2, <3>1, <3>2 DEF Goes, UnderPool, Choice, Choosable, Deletes
      <3>4. Current(t)'
        BY <1>1, <1>2, <3>1 DEF Current, HasRow, HasChoice, HasSlot, Choosable, dbVars
      <3> QED  BY <3>3, <3>4
    <2> QED  BY <2>1, <2>2 DEF DeleteIf
  <1> QED  BY <1>1, <1>2, <1>3, <1>5, <1>6, <1>7, <1>8, DeleteIfTypes, UnbindKeeps

\* A request without a row or a slot gets the edge e.
LEMMA BindKeeps ==
  ASSUME IInv, NEW t \in Threads, th[t].pc = "select", NEW n, n = th[t].n, NEW e \in Edges,
         (e \in th[t].avail /\ UNCHANGED <<vnic, iface, free>>)
         \/ (/\ e \in free /\ free' = free \ {e}
             /\ vnic' = [vnic EXCEPT ![e] = Empty] /\ iface' = [iface EXCEPT ![e] = NoIfs]),
         row' = [row EXCEPT ![n] = [edge |-> e, status |-> "ACTIVE"]],
         th' = [th EXCEPT ![t].pc = "slot", ![t].edge = e, ![t].bad = FALSE],
         UNCHANGED <<dbVars, lock>>, faults' = 0 => faults = 0, Types'
  PROVE  IInv'
  <1>1. /\ Types /\ Tables /\ th[t] \in Record /\ th[t].op \in OpsAt("select") /\ Working(th[t])
        /\ n \in Nets /\ n \in nets /\ n # NoNet /\ lock[Pool] = t /\ HasRow(t) /\ HasChoice(t) /\ HasSlot(t)
    BY AtWork DEF UnderPool, Choice
  <1>2. row[n] = NoRow /\ row[n].edge = NoEdge /\ \A d \in Edges, k \in Slots : vnic[d][k] # n
    BY <1>1, NoRowType DEF HasRow, HasSlot
  <1>3. row'[n].edge = e /\ row'[n].status = "ACTIVE" /\ \A m \in Nets \ {n} : row'[m] = row[m]
    <2>1. RowsIn(row) /\ n \in Nets
      BY <1>1, RowsTables
    <2>2. Binds(n, e)
      BY DEF Binds
    <2> QED  BY <2>1, <2>2, BindTypes
  <1>4. e \in free => \A m \in Nets : row[m].edge # e
    BY DEF IInv, NoLeakedEdge, OnEdge
  <1>5. \A m \in nets, d \in Edges, k \in Slots : vnic'[d][k] = m <=> vnic[d][k] = m
    <2>1. CASE UNCHANGED vnic
      BY <2>1
    <2>2. CASE e \in free /\ vnic' = [vnic EXCEPT ![e] = Empty]
      <3>1. \A k \in Slots : vnic'[e][k] = NoNet
        BY <1>1, <2>2 DEF Tables, Empty
      <3>2. \A m \in nets, k \in Slots : vnic[e][k] # m
        BY <1>1, <1>4, <2>2 DEF IInv, OneSlot, Tables
      <3> QED  BY <1>1, <2>2, <3>1, <3>2, DhcpAssumption DEF Tables
    <2> QED  BY <2>1, <2>2
  <1> DEFINE r == [th[t] EXCEPT !.pc = "slot", !.edge = e, !.bad = FALSE]
  <1>6. th' = [th EXCEPT ![t] = r] /\ r.pc = "slot" /\ r.n = n /\ r.op = th[t].op /\ r.edge = e
    BY <1>1 DEF Types, Record
  <1> HIDE DEF r
  <1>7. th'[t].pc = "slot" /\ th'[t].n = n /\ th'[t].op = th[t].op /\ th'[t].edge = e
        /\ \A u \in Threads \ {t} : th'[u] = th[u]
    BY <1>1, <1>6 DEF Types
  <1>8. Goes(t)
    BY <1>1, <1>7, LocksMove DEF Goes, Choice, Choosable, Deletes
  <1>9. Tabled(t)
    BY <1>1, <1>3, <1>5 DEF Tabled, dbVars
  <1>10. Current(t)'
    <2>1. HasRow(t)' /\ HasChoice(t)'
      BY <1>1, <1>3, <1>7 DEF HasRow, HasChoice, Choosable, dbVars
    <2>2. HasSlot(t)'
      BY <1>1, <1>2, <1>5, <1>7 DEF HasSlot
    <2> QED  BY <2>1, <2>2 DEF Current
  <1>11. SubnetsLive'
    BY DEF IInv, SubnetsLive, dbVars
  <1>12. OneSlot'
    BY <1>1, <1>2, <1>5, <1>8, <1>9, OneSlotKept
  <1>13. NoLeakedEdge'
    <2>1. ASSUME NEW d \in free' PROVE OnEdge(d)' = {}
      <3>1. d \in free /\ d # e
        BY <1>1 DEF HasChoice, Choosable
      <3> QED  BY <1>3, <3>1 DEF IInv, NoLeakedEdge, OnEdge
    <2>2. ASSUME nets' = Nets, NEW d \in Edges \ free' PROVE OnEdge(d)' # {}
      <3>1. CASE d = e
        BY <1>1, <1>3, <3>1 DEF OnEdge
      <3>2. CASE d # e
        <4>1. PICK m \in Nets : row[m].edge = d
          BY <2>2, <3>2 DEF IInv, NoLeakedEdge, OnEdge, dbVars
        <4>2. m # n
          BY <1>2, <2>2, <4>1, DhcpAssumption
        <4> QED  BY <1>3, <4>1, <4>2 DEF OnEdge
      <3> QED  BY <3>1, <3>2
    <2> QED  BY <2>1, <2>2 DEF NoLeakedEdge
  <1>14. Healthy'
    BY <1>3 DEF IInv, Healthy
  <1>15. Apart'
    <2>1. ASSUME faults' = 0, NEW a \in Nets, NEW b \in Nets, (a \in Conflicting(b))',
                 row'[a].edge = row'[b].edge, row'[b].edge # NoEdge
          PROVE  Undecided(a)' \/ Undecided(b)'
      <3>1. faults = 0 /\ a \in Conflicting(b) /\ a # b
        <4>1. a # b
          BY <2>1 DEF Conflicting
        <4> QED  BY <2>1, <4>1, ConflictsShrink DEF dbVars
      <3>2. b \in Conflicting(a)
        BY <3>1, ConflictsMutual
      <3>3. CASE n \notin {a, b}
        <4>1. PICK c \in {a, b} : Undecided(c)
          BY <1>3, <2>1, <3>1, <3>3 DEF IInv, Apart
        <4>2. PICK u \in Threads : th[u].n = c /\ Unsettled(u)
          BY <4>1 DEF Undecided
        <4>3. u # t
          BY <3>3, <4>2
        <4>4. th'[u] = th[u]
          BY <1>7, <4>3
        <4>5. Unsettled(u)'
          BY <4>2, <4>4 DEF Unsettled, MustMove
        <4> QED  BY <4>2, <4>4, <4>5 DEF Undecided
      <3>4. CASE n \in {a, b}
        <4>1. PICK m \in {a, b} : m # n /\ m \in Conflicting(n) /\ row[m].edge = e
          BY <1>3, <2>1, <3>1, <3>2, <3>4
        <4>2. e \in th[t].avail
          BY <1>4, <4>1
        <4>3. Waiting(m)
          BY <1>1, <3>1, <4>1, <4>2 DEF HasChoice, Choosable
        <4>4. PICK u \in Threads : th[u].n = m /\ th[u].pc \in {"read", "pool"}
          BY <4>3 DEF Waiting
        <4>5. th'[u] = th[u]
          BY <1>7, <4>4
        <4> QED  BY <4>1, <4>4, <4>5 DEF Undecided, Unsettled
      <3> QED  BY <3>3, <3>4
    <2> QED  BY <2>1 DEF Apart
  <1>16. Agrees'
    <2>1. ASSUME NEW d \in Edges, NEW k \in Slots PROVE iface'[d][k].net \notin nets' \/ iface'[d][k] = iface[d][k]
      <3>1. CASE UNCHANGED iface
        BY <3>1
      <3>2. CASE iface' = [iface EXCEPT ![e] = NoIfs]
        <4>1. d = e => iface'[d][k] = NoIf
          BY <1>1, <3>2 DEF Tables, NoIfs
        <4>2. NoIf.net \notin nets'
          BY <1>1, DhcpAssumption DEF NoIf, dbVars, Tables
        <4>3. d # e => iface'[d][k] = iface[d][k]
          BY <1>1, <3>2 DEF Tables
        <4> QED  BY <4>1, <4>2, <4>3
      <3> QED  BY <3>1, <3>2
    <2> QED  BY <1>2, <1>8, <1>9, <2>1, AgreesKept
  <1> QED  BY <1>8, <1>9, <1>10, <1>11, <1>12, <1>13, <1>14, <1>15, <1>16, Keeps

\* reuse_existing_dhcp_edge binds the network to an edge without an overlapping one.
LEMMA ReuseKeeps == ASSUME IInv, NEW t \in Threads, Reuse(t) PROVE IInv'
  <1>1. th[t].pc = "select" /\ UNCHANGED <<nets, vnic, iface, free, faults>>
    BY DEF Reuse, At
  <1>2. Types /\ th[t] \in Record /\ row[th[t].n] = NoRow
    BY <1>1, AtWork DEF HasRow
  <1>3. PICK e \in th[t].avail :
          /\ row' = [row EXCEPT ![th[t].n] = [edge |-> e, status |-> "ACTIVE"]]
          /\ th' = [th EXCEPT ![t].pc = "slot", ![t].edge = e, ![t].bad = FALSE]
          /\ UNCHANGED <<subnet, lock>>
    BY <1>2 DEF Reuse
  <1>4. e \in Edges
    BY <1>2 DEF Record
  <1>5. Types' /\ (faults' = 0 => faults = 0) /\ UNCHANGED <<dbVars, lock>>
        /\ UNCHANGED <<vnic, iface, free>>
    BY <1>1, <1>2, <1>3, ReuseTypes DEF dbVars
  <1> QED  BY <1>1, <1>3, <1>4, <1>5, BindKeeps

\* allocate_new_dhcp_edge binds the network to an edge that nobody has.
LEMMA NewKeeps == ASSUME IInv, NEW t \in Threads, New(t) PROVE IInv'
  <1>1. th[t].pc = "select" /\ UNCHANGED nets
    BY DEF New, At
  <1>2. Types /\ Tables /\ row[th[t].n] = NoRow
    BY <1>1, AtWork DEF HasRow
  <1>3. PICK e \in free :
          /\ row' = [row EXCEPT ![th[t].n] = [edge |-> e, status |-> "ACTIVE"]]
          /\ free' = free \ {e}
          /\ vnic' = [vnic EXCEPT ![e] = Empty] /\ iface' = [iface EXCEPT ![e] = NoIfs]
          /\ th' = [th EXCEPT ![t].pc = "slot", ![t].edge = e, ![t].bad = FALSE]
          /\ UNCHANGED <<subnet, lock>>
    BY <1>2 DEF New
  <1>4. e \in Edges
    BY <1>2 DEF Tables
  <1>5. Types' /\ (faults' = 0 => faults = 0) /\ UNCHANGED <<dbVars, lock>>
    BY <1>1, <1>2, <1>3, NewTypes, FaultGrows DEF dbVars, New
  <1> QED  BY <1>1, <1>3, <1>4, <1>5, BindKeeps

\* A request changes the slots or the sub-interfaces of its network.
LEMMA PlaceKeeps ==
  ASSUME IInv, NEW t \in Threads, Goes(t), Types', Current(t)', ~Unsettled(t), UNCHANGED <<dbVars, row, free, faults>>,
         \A m \in nets \ {th[t].n}, e \in Edges, k \in Slots : vnic'[e][k] = m <=> vnic[e][k] = m,
         lock[Pool] = t \/ \A e \in Edges, k \in Slots : vnic[e][k] = NoNet => vnic'[e][k] = NoNet,
         \A e \in Edges, k \in Slots : vnic'[e][k] = th[t].n =>
           row[th[t].n].edge = e /\ \A j \in Slots : vnic'[e][j] = th[t].n => j = k,
         \A e \in Edges, k \in Slots :
           \/ iface'[e][k].net \notin nets \/ vnic'[e][k] = iface'[e][k].net
           \/ /\ iface'[e][k].net = iface[e][k].net /\ iface'[e][k].left = iface[e][k].left
              /\ ~(th[t].pc \in {"moveIf", "delIf"} /\ e = th[t].edge /\ k = th[t].slot)
              /\ vnic[e][k] = th[t].n => vnic'[e][k] = th[t].n \/ (th'[t].n = th[t].n /\ Freed(e, k, th[t].n)')
  PROVE  IInv'
  <1>1. Tabled(t)
    BY DEF Tabled, dbVars
  <1>2. SubnetsLive' /\ NoLeakedEdge' /\ Healthy'
    BY DEF IInv, SubnetsLive, NoLeakedEdge, OnEdge, Healthy, dbVars
  <1>3. OneSlot'
    BY <1>1, OneSlotKept
  <1>4. Agrees'
    BY <1>1, AgreesKept DEF dbVars
  <1>5. Apart'
    BY <1>1, ApartKept
  <1> QED  BY <1>1, <1>2, <1>3, <1>4, <1>5, Keeps

\* allocate_edge_vnic_with_tunnel_index gives the network its one slot.
LEMMA SetSlotKeeps == ASSUME IInv, NEW t \in Threads, SetSlot(t) PROVE IInv'
  <1> DEFINE n == th[t].n  e == th[t].edge  k == th[t].slot
  <1>1. th[t].pc = "setSlot" /\ ~Unsettled(t) /\ UNCHANGED <<dbVars, row, iface, free, faults>>
        /\ Drop(t, {Pool})
        /\ Goto(t, "update") /\ vnic' = [vnic EXCEPT ![e][k] = n]
    BY DEF SetSlot, At, Unsettled
  <1>2. /\ Types /\ Tables /\ Sound(th[t]) /\ th[t].op \in OpsAt("setSlot") /\ Working(th[t])
        /\ n \in Nets /\ n \in nets /\ n # NoNet /\ lock[Pool] = t /\ HasRow(t) /\ HasSlot(t)
    BY <1>1, AtWork DEF UnderPool, Choice
  <1>3. e \in Edges /\ k \in Slots /\ row[n].edge = e /\ vnic[e][k] = NoNet
        /\ \A d \in Edges, j \in Slots : vnic[d][j] # n
    BY <1>1, <1>2 DEF Sound, EdgeLabels, SlotLabels, HasRow, HasSlot
  <1>4. th'[t].pc = "update" /\ th'[t].op = th[t].op /\ th'[t].n = n
        /\ \A u \in Threads \ {t} : th'[u] = th[u]
    BY <1>1, <1>2, GotoIs
  <1>5. th[t].op \in {"create", "enable"}
    BY <1>2, Table DEF Choice
  <1>6. Goes(t)
    <2>1. lock' \in [LockNames -> Threads \cup {NoThread}] /\ \A q \in LockNames : lock'[q] = lock[q] \/ lock[q] = t
      BY <1>1, LocksMove
    <2> QED  BY <1>1, <1>2, <1>4, <1>5, <2>1 DEF Goes, UnderPool, Choice, Choosable, Deletes
  <1>7. Current(t)'
    BY <1>1, <1>2, <1>4 DEF Current, HasRow, HasChoice, HasSlot, Choosable, dbVars
  <1>8. vnic'[e][k] = n /\ \A d \in Edges, j \in Slots : (d # e \/ j # k) => vnic'[d][j] = vnic[d][j]
    BY <1>1, <1>2, <1>3 DEF Tables
  <1>9. \A m \in nets \ {n}, d \in Edges, j \in Slots : vnic'[d][j] = m <=> vnic[d][j] = m
    <2>1. NoNet \notin nets
      BY <1>2, DhcpAssumption DEF Tables
    <2> HIDE DEF n, e, k
    <2> QED  BY <1>3, <1>8, <2>1
  <1>10. \A d \in Edges, j \in Slots : vnic'[d][j] = n => row[n].edge = d /\ \A i \in Slots : vnic'[d][i] = n => i = j
    BY <1>3, <1>8
  <1>11. Types'
    BY <1>2, SetSlotTypes
  <1>12. \A d \in Edges, j \in Slots :
           \/ iface'[d][j].net \notin nets \/ vnic'[d][j] = iface'[d][j].net
           \/ /\ iface'[d][j].net = iface[d][j].net /\ iface'[d][j].left = iface[d][j].left
              /\ ~(th[t].pc \in {"moveIf", "delIf"} /\ d = th[t].edge /\ j = th[t].slot)
              /\ vnic[d][j] = n => vnic'[d][j] = n \/ (th'[t].n = th[t].n /\ Freed(d, j, th[t].n)')
    BY <1>1, <1>3
  <1> QED  BY <1>1, <1>2, <1>6, <1>7, <1>9, <1>10, <1>11, <1>12, PlaceKeeps DEF n

\* _update_dhcp_address updates the sub-interface of the slot, and removes those of dead
\* networks.
LEMMA UpdateIfKeeps == ASSUME IInv, NEW t \in Threads, UpdateIf(t) PROVE IInv'
  <1> DEFINE n == th[t].n  e == th[t].edge  k == th[t].slot
             f == [j \in Slots |->
       IF j = k THEN [net |-> IF iface[e][k] = NoIf THEN th[t].n ELSE iface[e][k].net, ips |-> th[t].ips,
                      left |-> iface[e][k].left /\ iface[e][k].net # th[t].n]
       ELSE IF j \in Clashing(t) THEN NoIf ELSE iface[e][j]]
  <1>1. th[t].pc = "updateIf" /\ ~Unsettled(t) /\ UNCHANGED <<dbVars, row, vnic, free, faults>> /\ Done(t)
    BY DEF UpdateIf, At, Unsettled
  <1>2. /\ Types /\ Tables /\ Sound(th[t]) /\ n \in Nets /\ n \in nets /\ n # NoNet /\ HasRow(t) /\ HasSlot(t)
    BY <1>1, AtWork
  <1>3. e \in Edges /\ k \in Slots /\ vnic[e][k] = n
    BY <1>1, <1>2 DEF Sound, EdgeLabels, SlotLabels, HasSlot
  <1>4. iface' = [iface EXCEPT ![e] = f]
    BY <1>2 DEF UpdateIf, Tables
  <1>5. \A d \in Edges, j \in Slots : iface'[d][j] = IF d = e THEN f[j] ELSE iface[d][j]
    <2> HIDE DEF f, e
    <2> QED  BY <1>2, <1>3, <1>4 DEF Tables
  <1>6. f[k].net = n \/ (f[k].net = iface[e][k].net /\ f[k].left = iface[e][k].left)
    <2>1. iface[e][k].left \in BOOLEAN
      BY <1>2, <1>3 DEF Tables
    <2> QED  BY <1>3, <2>1
  <1>7. NoIf.net \notin nets
    BY <1>2, DhcpAssumption DEF NoIf, Tables
  <1>8. \A j \in Slots \ {k} : f[j].net \notin nets \/ f[j] = iface[e][j]
    BY <1>7
  <1> HIDE DEF f
  <1>9. \A d \in Edges, j \in Slots :
          \/ iface'[d][j].net \notin nets \/ vnic'[d][j] = iface'[d][j].net
          \/ iface'[d][j].net = iface[d][j].net /\ iface'[d][j].left = iface[d][j].left
    BY <1>1, <1>3, <1>5, <1>6, <1>8
  <1>10. Goes(t) /\ Current(t)'
    BY <1>1, IdleGoes
  <1>11. \A d \in Edges, j \in Slots : vnic[d][j] = n => row[n].edge = d
         /\ \A i \in Slots : vnic[d][i] = n => i = j
    BY <1>2 DEF IInv, OneSlot
  <1> QED  BY <1>1, <1>2, <1>9, <1>10, <1>11, UpdateIfTypes, PlaceKeeps

\* free_edge_vnic_by_network frees the one slot of the network.
LEMMA DeleteSlotKeeps == ASSUME IInv, NEW t \in Threads, DeleteSlot(t) PROVE IInv'
  <1> DEFINE n == th[t].n  e == th[t].edge
             f == [k \in Slots |-> IF vnic[e][k] = n THEN NoNet ELSE vnic[e][k]]
  <1>1. th[t].pc = "delSlot" /\ ~Unsettled(t) /\ UNCHANGED <<dbVars, row, iface, free, faults>>
        /\ lock[Edge(e)] = NoThread
    BY DEF DeleteSlot, At, Unsettled, Can
  <1>2. /\ Types /\ Tables /\ Sound(th[t]) /\ th[t].op \in OpsAt("delSlot") /\ Working(th[t])
        /\ n \in Nets /\ n \in nets /\ n # NoNet /\ HasRow(t) /\ HasSlot(t) /\ (UnderPool(th[t]) => lock[Pool] = t)
    BY <1>1, AtWork
  <1>3. e \in Edges /\ th[t].slot \in Slots /\ row[n].edge = e /\ vnic[e][th[t].slot] = n
    BY <1>1, <1>2 DEF Sound, EdgeLabels, SlotLabels, HasRow, HasSlot
  <1>4. CASE Cardinality(SlotsOf(e, n)) # 1
    <2>1. Done(t) /\ UNCHANGED vnic
      BY <1>4 DEF DeleteSlot
    <2>2. Quiet
      BY <1>1, <2>1, FaultGrows DEF Quiet, dbVars
    <2> QED  BY <1>1, <2>1, <2>2, IdleGoes, DeleteSlotTypes, Quietly DEF IInv
  <1>5. CASE Cardinality(SlotsOf(e, n)) = 1
    <2>1. vnic' = [vnic EXCEPT ![e] = f] /\ Hold(t, Edge(e)) /\ Goto(t, "delIf")
      BY <1>2, <1>5 DEF DeleteSlot, Tables
    <2>2. th'[t].pc = "delIf" /\ th'[t].op = th[t].op /\ th'[t].n = n /\ th'[t].edge = e
          /\ th'[t].slot = th[t].slot
          /\ \A u \in Threads \ {t} : th'[u] = th[u]
      BY <1>2, <2>1, GotoIs
    <2>3. \A d \in Edges, k \in Slots : vnic'[d][k] = IF d = e /\ vnic[d][k] = n THEN NoNet ELSE vnic[d][k]
      BY <1>2, <1>3, <2>1 DEF Tables
    <2>4. \A d \in Edges, k \in Slots : vnic[d][k] = n => d = e /\ k = th[t].slot
      BY <1>2, <1>3 DEF IInv, OneSlot
    <2>5. \A d \in Edges, k \in Slots : vnic'[d][k] # n
      BY <1>2, <2>3, <2>4
    <2>6. \A m \in nets \ {n}, d \in Edges, k \in Slots : vnic'[d][k] = m <=> vnic[d][k] = m
      <3>1. \A m \in nets : m # NoNet
        BY <1>2, DhcpAssumption DEF Tables
      <3> QED  BY <2>3, <3>1
    <2>7. Goes(t)
      <3>1. lock' \in [LockNames -> Threads \cup {NoThread}] /\ lock'[Pool] = lock[Pool]
            /\ \A l \in LockNames : lock'[l] = lock[l] \/ lock[l] = NoThread
        <4>1. Edge(e) \in LockNames
          BY <1>3 DEF LockNames
        <4> QED  BY <1>1, <2>1, <4>1, LocksMove, PoolLock, PoolApart
      <3>2. UnderPool(th'[t]) => UnderPool(th[t])
        BY <1>1, <2>2 DEF UnderPool, Choice
      <3>3. Deletes(t)' => Deletes(t)
        BY <1>1, <2>2 DEF Deletes, Unlocked
      <3> QED  BY <1>1, <1>2, <2>2, <3>1, <3>2, <3>3 DEF Goes, Choice, Choosable
    <2>8. Current(t)'
      <3>1. HasRow(t)' /\ HasChoice(t)'
        BY <1>1, <1>2, <1>3, <2>2 DEF HasRow, HasChoice, Choosable, dbVars
      <3>2. HasSlot(t)'
        BY <2>2, <2>5 DEF HasSlot
      <3> QED  BY <3>1, <3>2 DEF Current
    <2>9. \A d \in Edges, k \in Slots : vnic[d][k] = n => th'[t].n = n /\ Freed(d, k, th[t].n)'
      <3>1. \A d \in Edges, k \in Slots : vnic[d][k] = n => \E u \in Threads :
              th'[u].n = th'[t].n /\ th'[u].pc \in {"moveIf", "delIf"} /\ th'[u].edge = d /\ th'[u].slot = k
        BY <2>2, <2>4
      <3> QED  BY <2>2, <3>1 DEF Freed
    <2>10. \A d \in Edges, k \in Slots :
           \/ iface'[d][k].net \notin nets \/ vnic'[d][k] = iface'[d][k].net
           \/ /\ iface'[d][k].net = iface[d][k].net /\ iface'[d][k].left = iface[d][k].left
              /\ ~(th[t].pc \in {"moveIf", "delIf"} /\ d = th[t].edge /\ k = th[t].slot)
              /\ vnic[d][k] = n => vnic'[d][k] = n \/ (th'[t].n = th[t].n /\ Freed(d, k, th[t].n)')
      BY <1>1, <2>9
    <2>11. \A d \in Edges, k \in Slots : vnic[d][k] = NoNet => vnic'[d][k] = NoNet
      BY <2>3
    <2>12. Types'
      BY <1>2, DeleteSlotTypes
    <2> QED  BY <1>1, <2>5, <2>6, <2>7, <2>8, <2>10, <2>11, <2>12, PlaceKeeps DEF n
  <1> QED  BY <1>4, <1>5

\* delete_network deletes the network after its service.
LEMMA DeleteNetKeeps == ASSUME IInv, NEW t \in Threads, DeleteNet(t) PROVE IInv'
  <1> DEFINE n == th[t].n
  <1>1. th[t].pc = "delNet" /\ ~Unsettled(t) /\ UNCHANGED <<edgeVars, faults>> /\ nets' = nets \ {n}
        /\ Done(t)
    BY DEF DeleteNet, At, Unsettled
  <1>2. \A s \in Subnets : subnet'[s] # "none" => subnet[s] # "none" /\ NetOf[s] # n
    BY DEF DeleteNet
  <1>3. Types /\ n \in Nets /\ n \in nets
    BY <1>1, AtWork
  <1>4. Goes(t) /\ Current(t)' /\ th'[t] = Idle
    BY <1>1, IdleGoes
  <1>5. Tabled(t)
    BY <1>1, <1>2, <1>4, IdleSound DEF Tabled, edgeVars
  <1>6. SubnetsLive'
    BY <1>1, <1>2 DEF IInv, SubnetsLive
  <1>7. OneSlot'
    BY <1>1, <1>4, <1>5, OneSlotKept
  <1>8. NoLeakedEdge'
    BY <1>1, <1>3 DEF IInv, NoLeakedEdge, OnEdge, edgeVars
  <1>9. Healthy'
    BY <1>1 DEF IInv, Healthy, edgeVars
  <1>10. Types'
    BY <1>3, DeleteNetTypes
  <1>11. Apart'
    BY <1>1, <1>4, <1>5, <1>10, ApartKept DEF edgeVars
  <1>12. Agrees'
    BY <1>1, <1>4, <1>5, AgreesKept DEF edgeVars
  <1> QED  BY <1>4, <1>5, <1>6, <1>7, <1>8, <1>9, <1>10, <1>11, <1>12, Keeps

-----------------------------------------------------------------------------
(* A request begins                                                        *)

\* A request begins on a network that nobody works on; a new subnet brings new conflicts to
\* a network that is to decide.
LEMMA BeginKeeps ==
  ASSUME ~Races, IInv, NEW t \in Threads, NEW op, op \notin {"none", "job"}, NEW s, NEW n \in nets,
         NEW label \in {"read", "delPool", "update", "delRead", "enable", "delNet"}, label = "delPool" \/ op # "delete",
         Begin(t, op, s, n, label), UNCHANGED <<nets, edgeVars, faults>>, SubnetsLive',
         lock' \in [LockNames -> Threads \cup {NoThread}], lock'[Pool] = lock[Pool],
         \A a, b \in Nets : (a \in Conflicting(b))' => a \in Conflicting(b) \/ (label = "read" /\ n \in {a, b}),
         Types'
  PROVE  IInv'
  <1>1. Types /\ th[t] = Idle /\ n \in Nets /\ n # NoNet
    BY DhcpAssumption DEF Begin, IInv, Types, TypeOK
  <1>2. \A u \in Threads : th[u].n # n /\ \A p \in th[u].seen : p[1] # n /\ p[2] # row[n].edge
    BY DEF Begin
  <1> DEFINE r == [Idle EXCEPT !.pc = label, !.op = op, !.s = s, !.n = n]
  <1>3. th' = [th EXCEPT ![t] = r]
    BY DEF Begin
  <1>4. r.pc = label /\ r.op = op /\ r.n = n /\ r.seen = {}
    BY DEF Idle
  <1> HIDE DEF r
  <1>5. th'[t].pc = label /\ th'[t].op = op /\ th'[t].n = n /\ th'[t].seen = {}
        /\ \A u \in Threads \ {t} : th'[u] = th[u]
    BY <1>1, <1>3, <1>4 DEF Types
  <1>6. th[t].pc = "idle" /\ th[t].n = NoNet
    BY <1>1, IdleSound
  <1>7. UNCHANGED <<nets, row, vnic, iface, free, faults>>
    BY DEF edgeVars
  <1>8. Exclusive'
    BY <1>2, <1>5, <1>6, <1>1 DEF IInv, Exclusive
  <1>9. Locked'
    <2>1. ~UnderPool(th'[t])
      BY <1>5 DEF UnderPool, Choice
    <2> QED  BY <1>5, <2>1 DEF IInv, Locked
  <1>10. Alone'
    <2>1. ~Deletes(t)' /\ th'[t].pc \notin Choice
      BY <1>5 DEF Deletes, Choice
    <2>2. \A u \in Threads \ {t} : Deletes(u)' <=> Deletes(u)
      BY <1>5 DEF Deletes, Unlocked
    <2> QED  BY <1>5, <2>1, <2>2 DEF IInv, Alone
  <1>11. \A m : Waiting(m) => Waiting(m)'
    BY <1>5, <1>6 DEF Waiting
  <1>12. label = "read" => Waiting(n)'
    BY <1>5 DEF Waiting
  <1>13. ASSUME NEW u \in Threads PROVE Current(u)'
    <2>1. CASE u = t
      <3>1. label \notin {"pool", "stay", "moveIf", "select", "slot", "setSlot", "updateIf", "delSlot", "delIf"}
        OBVIOUS
      <3> QED  BY <1>5, <1>7, <2>1, <3>1 DEF Current, HasRow, HasChoice, HasSlot, Choosable
    <2>2. CASE u # t
      <3>1. th'[u] = th[u] /\ HasRow(u) /\ HasChoice(u) /\ HasSlot(u) /\ Sound(th[u]) /\ th[u] \in Record
        BY <1>5, <2>2 DEF IInv, Current, Types
      <3>2. HasRow(u)' /\ HasSlot(u)'
        BY <1>7, <3>1 DEF HasRow, HasSlot
      <3>3. HasChoice(u)'
        <4>1. CASE th[u].pc \notin Choosable
          BY <3>1, <4>1 DEF HasChoice, Choosable
        <4>2. CASE th[u].pc \in Choosable
          <5>1. th[u].n \in Nets
            <6>1. th[u].op \in {"create", "enable"}
              BY <3>1, <4>2, Table DEF Sound, Choice, Choosable
            <6> QED  BY <3>1, <6>1 DEF Sound, Working
          <5>2. ASSUME faults' = 0, NEW m \in (Conflicting(th[u].n))', row'[m].edge \in th'[u].avail
                PROVE  Waiting(m)'
            <6>1. m \in Nets /\ (m \in Conflicting(th[u].n))'
              BY <5>2 DEF Conflicting
            <6>2. m \in Conflicting(th[u].n) \/ (label = "read" /\ m = n)
              BY <1>2, <3>1, <5>1, <6>1
            <6> QED  BY <1>7, <1>11, <1>12, <3>1, <4>2, <5>2, <6>2 DEF HasChoice
          <5> QED  BY <1>7, <3>1, <5>2 DEF HasChoice
        <4> QED  BY <4>1, <4>2
      <3> QED  BY <3>2, <3>3 DEF Current
    <2> QED  BY <2>1, <2>2
  <1>14. ASSUME NEW u \in Threads PROVE Repairs(u)'
    <2>1. CASE u = t
      BY <1>5, <2>1 DEF Repairs
    <2>2. CASE u # t
      <3>1. th'[u] = th[u] /\ Repairs(u)
        BY <1>5, <2>2 DEF IInv
      <3>2. \A p \in th[u].seen, v \in Threads \ {t} : Spared(v, p)'
        BY <1>5, <1>7, <3>1 DEF Repairs, Spared
      <3>3. \A p \in th[u].seen : Spared(t, p)'
        BY <1>2, <1>5, <1>7 DEF Spared, Choosable
      <3> QED  BY <1>7, <3>1, <3>2, <3>3 DEF Repairs
    <2> QED  BY <2>1, <2>2
  <1>15. OneSlot' /\ NoLeakedEdge' /\ Healthy'
    BY <1>7 DEF IInv, OneSlot, NoLeakedEdge, OnEdge, Healthy
  <1>16. Apart'
    <2>1. \A m \in Nets : Undecided(m) => Undecided(m)'
      <3>1. \A u \in Threads \ {t} : Unsettled(u) => Unsettled(u)'
        BY <1>5 DEF Unsettled, MustMove
      <3>2. ~Unsettled(t)
        BY <1>6 DEF Unsettled
      <3> QED  BY <1>5, <3>1, <3>2 DEF Undecided
    <2>2. label = "read" => Undecided(n)'
      BY <1>5 DEF Undecided, Unsettled
    <2>3. ASSUME faults' = 0, NEW a \in Nets, NEW b \in Nets, (a \in Conflicting(b))', row'[a].edge = row'[b].edge,
                 row'[b].edge # NoEdge
          PROVE  Undecided(a)' \/ Undecided(b)'
      <3>1. a \in Conflicting(b) \/ (label = "read" /\ n \in {a, b})
        BY <2>3
      <3> QED  BY <1>7, <2>1, <2>2, <2>3, <3>1 DEF IInv, Apart
    <2> QED  BY <2>3 DEF Apart
  <1>17. Agrees'
    <2>1. \A e \in Edges, k \in Slots : \A m : Freed(e, k, m) => Freed(e, k, m)'
      BY <1>5, <1>6 DEF Freed
    <2> QED  BY <1>7, <2>1 DEF IInv, Agrees
  <1> QED  BY <1>8, <1>9, <1>10, <1>13, <1>14, <1>15, <1>16, <1>17 DEF IInv

\* create_subnet adds the subnet.
LEMMA StartCreateKeeps ==
  ASSUME ~Races, IInv, NEW t \in Threads, NEW s \in Subnets, StartCreate(t, s)
  PROVE  IInv'
  <1> DEFINE n == NetOf[s]
  <1>1. /\ n \in nets /\ lock[Net(n)] = NoThread /\ Hold(t, Net(n)) /\ Begin(t, "create", s, n, "read")
        /\ subnet' = [subnet EXCEPT ![s] = "on"] /\ UNCHANGED <<nets, edgeVars, faults>>
    BY DEF StartCreate, Can
  <1>2. Types /\ Types' /\ subnet \in [Subnets -> {"none", "on", "off"}] /\ n \in Nets
    BY StartCreateTypes, DhcpAssumption DEF IInv, Types, TypeOK
  <1>3. \A q \in Subnets : subnet'[q] # "none" => subnet[q] # "none" \/ q = s
    BY <1>1, <1>2
  <1>4. SubnetsLive'
    BY <1>1, <1>3 DEF IInv, SubnetsLive
  <1>5. lock' \in [LockNames -> Threads \cup {NoThread}] /\ lock'[Pool] = lock[Pool]
    <2>1. Net(n) \in LockNames
      BY <1>2 DEF LockNames
    <2> QED  BY <1>1, <2>1, LocksMove, PoolLock, PoolApart
  <1>6. \A a, b \in Nets : (a \in Conflicting(b))' => a \in Conflicting(b) \/ ("read" = "read"
        /\ n \in {a, b})
    BY <1>3 DEF Conflicting, Clash, SubnetsOf
  <1> HIDE DEF n
  <1> QED  BY <1>1, <1>2, <1>4, <1>5, <1>6, BeginKeeps

\* A request that changes no lock and adds no subnet.
LEMMA StartKeeps ==
  ASSUME ~Races, IInv, NEW t \in Threads, NEW op, op \notin {"none", "job"}, NEW s, NEW n \in nets,
         NEW label \in {"delPool", "update", "delRead", "enable", "delNet"}, label = "delPool" \/ op # "delete",
         Begin(t, op, s, n, label), UNCHANGED <<nets, edgeVars, faults>>,
         \A q \in Subnets : subnet'[q] # "none" => subnet[q] # "none",
         lock' \in [LockNames -> Threads \cup {NoThread}], lock'[Pool] = lock[Pool], Types'
  PROVE  IInv'
  <1>1. SubnetsLive'
    BY DEF IInv, SubnetsLive
  <1>2. \A a, b \in Nets : (a \in Conflicting(b))' => a \in Conflicting(b) \/ (label = "read"
        /\ n \in {a, b})
    BY ConflictsShrink
  <1> QED  BY <1>1, <1>2, BeginKeeps

\* The network of a subnet is alive.
LEMMA NetLives == ASSUME IInv, NEW s \in Subnets, subnet[s] # "none" PROVE NetOf[s] \in nets
  BY DEF IInv, SubnetsLive

\* delete_subnet begins.
LEMMA StartDeleteKeeps ==
  ASSUME ~Races, IInv, NEW t \in Threads, NEW s \in Subnets, StartDelete(t, s)
  PROVE  IInv'
  <1> DEFINE n == NetOf[s]
  <1>1. /\ subnet[s] # "none" /\ Hold(t, Net(n)) /\ Begin(t, "delete", s, n, "delPool")
        /\ UNCHANGED <<dbVars, edgeVars, faults>>
    BY DEF StartDelete
  <1>2. Types' /\ n \in nets /\ n \in Nets
    BY <1>1, StartDeleteTypes, NetLives, DhcpAssumption DEF IInv
  <1>3. lock' \in [LockNames -> Threads \cup {NoThread}] /\ lock'[Pool] = lock[Pool]
    <2>1. Net(n) \in LockNames
      BY <1>2 DEF LockNames
    <2> QED  BY <1>1, <2>1, LocksMove, PoolLock, PoolApart
  <1>4. \A q \in Subnets : subnet'[q] # "none" => subnet[q] # "none"
    BY <1>1 DEF dbVars
  <1>5. UNCHANGED <<nets, edgeVars, faults>>
    BY <1>1 DEF dbVars
  <1> HIDE DEF n
  <1> QED  BY <1>1, <1>2, <1>3, <1>4, <1>5, StartKeeps

\* update_subnet disables DHCP.
LEMMA StartDisableKeeps ==
  ASSUME ~Races, IInv, NEW t \in Threads, NEW s \in Subnets, StartDisable(t, s)
  PROVE  IInv'
  <1> DEFINE n == NetOf[s]
             label == IF \E q \in SubnetsOf(NetOf[s]) \ {s} : subnet[q] = "on" THEN "update" ELSE "delRead"
  <1>1. /\ subnet[s] = "on" /\ subnet' = [subnet EXCEPT ![s] = "off"] /\ Begin(t, "disable", s, n, label)
        /\ UNCHANGED <<nets, edgeVars, lock, faults>>
    BY DEF StartDisable
  <1>2. Types' /\ n \in nets /\ subnet \in [Subnets -> {"none", "on", "off"}]
    BY <1>1, StartDisableTypes, NetLives DEF IInv, Types, TypeOK
  <1>3. label \in {"update", "delRead"}
    OBVIOUS
  <1>4. \A q \in Subnets : subnet'[q] # "none" => subnet[q] # "none"
    BY <1>1, <1>2
  <1>5. lock' \in [LockNames -> Threads \cup {NoThread}] /\ lock'[Pool] = lock[Pool]
    BY <1>1, LocksMove
  <1> HIDE DEF n, label
  <1> QED  BY <1>1, <1>2, <1>3, <1>4, <1>5, StartKeeps

\* update_subnet enables DHCP.
LEMMA StartEnableKeeps ==
  ASSUME ~Races, IInv, NEW t \in Threads, NEW s \in Subnets, StartEnable(t, s)
  PROVE  IInv'
  <1> DEFINE n == NetOf[s]
             label == IF row[NetOf[s]] = NoRow THEN "enable" ELSE "update"
  <1>1. /\ subnet[s] = "off" /\ subnet' = [subnet EXCEPT ![s] = "on"] /\ Begin(t, "enable", s, n, label)
        /\ UNCHANGED <<nets, edgeVars, lock, faults>>
    BY DEF StartEnable
  <1>2. Types' /\ n \in nets /\ subnet \in [Subnets -> {"none", "on", "off"}]
    BY <1>1, StartEnableTypes, NetLives DEF IInv, Types, TypeOK
  <1>3. label \in {"update", "enable"}
    OBVIOUS
  <1>4. \A q \in Subnets : subnet'[q] # "none" => subnet[q] # "none"
    BY <1>1, <1>2
  <1>5. lock' \in [LockNames -> Threads \cup {NoThread}] /\ lock'[Pool] = lock[Pool]
    BY <1>1, LocksMove
  <1> HIDE DEF n, label
  <1> QED  BY <1>1, <1>2, <1>3, <1>4, <1>5, StartKeeps

\* update_port begins.
LEMMA StartPortKeeps == ASSUME ~Races, IInv, NEW t \in Threads, NEW n \in Nets, StartPort(t, n) PROVE IInv'
  <1>1. /\ DhcpOn(n) /\ Begin(t, "port", NoSubnet, n, "update") /\ UNCHANGED <<dbVars, edgeVars, lock, faults>>
    BY DEF StartPort
  <1>2. n \in nets
    <2>1. \E s \in Subnets : NetOf[s] = n /\ subnet[s] # "none"
      BY <1>1 DEF DhcpOn, Addresses, SubnetsOf
    <2> QED  BY <2>1, NetLives
  <1>3. Types'
    BY StartPortTypes DEF IInv
  <1>4. (\A q \in Subnets : subnet'[q] # "none" => subnet[q] # "none")
        /\ UNCHANGED <<nets, edgeVars, faults>>
    BY <1>1 DEF dbVars
  <1>5. lock' \in [LockNames -> Threads \cup {NoThread}] /\ lock'[Pool] = lock[Pool]
    BY <1>1, LocksMove
  <1> QED  BY <1>1, <1>2, <1>3, <1>4, <1>5, StartKeeps

\* delete_network begins.
LEMMA StartDeleteNetKeeps ==
  ASSUME ~Races, IInv, NEW t \in Threads, NEW n \in Nets, StartDeleteNet(t, n)
  PROVE  IInv'
  <1> DEFINE label == IF DhcpOn(n) THEN "delRead" ELSE "delNet"
  <1>1. /\ n \in nets /\ Begin(t, "delnet", NoSubnet, n, label) /\ UNCHANGED <<dbVars, edgeVars, lock, faults>>
    BY DEF StartDeleteNet
  <1>2. Types'
    BY StartDeleteNetTypes DEF IInv
  <1>3. label \in {"delNet", "delRead"}
    OBVIOUS
  <1>4. (\A q \in Subnets : subnet'[q] # "none" => subnet[q] # "none")
        /\ UNCHANGED <<nets, edgeVars, faults>>
    BY <1>1 DEF dbVars
  <1>5. lock' \in [LockNames -> Threads \cup {NoThread}] /\ lock'[Pool] = lock[Pool]
    BY <1>1, LocksMove
  <1> HIDE DEF label
  <1> QED  BY <1>1, <1>2, <1>3, <1>4, <1>5, StartKeeps

-----------------------------------------------------------------------------
(* A step of the job                                                       *)

JobLabels == {"idle", "jobPool", "job", "jobSync"}
\* The job changes the edge e only: rows of dead networks, slots and sub-interfaces.
Mends(t, e) ==
  /\ \E p \in th[t].seen : p[2] = e
  /\ \A d \in Edges \ {e}, k \in Slots : vnic'[d][k] = vnic[d][k] /\ iface'[d][k] = iface[d][k]
  /\ \A m \in Nets : \/ row'[m] = row[m]
                     \/ row[m].edge = e /\ row'[m].edge = e /\ row'[m].status # "ERROR"
                     \/ row[m].edge = e /\ m \notin nets /\ row'[m] = NoRow
  /\ OneSlot'
  /\ \A k \in Slots : \/ iface'[e][k].left \/ iface'[e][k].net \notin nets
                      \/ vnic'[e][k] = iface'[e][k].net
                      \/ iface'[e][k] = iface[e][k] /\ (vnic[e][k] \in nets => vnic'[e][k] = vnic[e][k])

\* A step of the job keeps the invariant: it mends an edge that no request is about.
LEMMA JobKeeps ==
  ASSUME IInv, NEW t \in Threads, th[t].pc \in JobLabels, th'[t].pc \in JobLabels,
         \A u \in Threads \ {t} : th'[u] = th[u] /\ (th'[t].op = "job" => th[u].op # "job"),
         UNCHANGED <<dbVars, free>>, faults' = 0 => faults = 0,
         lock' \in [LockNames -> Threads \cup {NoThread}],
         \A l \in LockNames : lock'[l] = lock[l] \/ lock[l] \in {NoThread, t},
         NEW e, UNCHANGED <<row, vnic, iface>> \/ Mends(t, e), Types', Repairs(t)'
  PROVE  IInv'
  <1>1. Types /\ Tables /\ UNCHANGED <<nets, subnet>>
    BY TypesSplit DEF IInv, dbVars
  <1>2. th[t].n = NoNet /\ th'[t].n = NoNet /\ ~Working(th[t]) /\ ~Working(th'[t])
    <2>1. Sound(th[t]) /\ Sound(th'[t])
      BY <1>1 DEF Types
    <2> QED  BY <2>1, Table DEF Sound, JobLabels, Working
  <1>3. ~UnderPool(th[t]) /\ ~UnderPool(th'[t]) /\ ~Deletes(t) /\ ~Deletes(t)' /\ ~Unsettled(t)
        /\ ~Unsettled(t)'
    BY DEF JobLabels, UnderPool, Choice, Deletes, Unsettled
  <1>4. Exclusive'
    BY <1>2 DEF IInv, Exclusive
  <1>5. Locked'
    <2>1. ASSUME NEW u \in Threads, UnderPool(th'[u]) PROVE lock'[Pool] = u
      <3>1. u # t /\ lock[Pool] = u
        BY <1>3, <2>1 DEF IInv, Locked
      <3> QED  BY <3>1, PoolLock, DhcpAssumption
    <2> QED  BY <2>1 DEF Locked
  <1>6. Alone'
    <2>1. \A u \in Threads \ {t} : Deletes(u)' <=> Deletes(u)
      BY DEF Deletes, Unlocked
    <2>2. th'[t].pc \notin Choice
      BY DEF JobLabels, Choice
    <2> QED  BY <1>3, <2>1, <2>2 DEF IInv, Alone
  <1>7. \A m \in Nets : row'[m].edge = row[m].edge \/ (m \notin nets /\ row'[m].edge = NoEdge)
    BY NoRowType DEF Mends
  <1>8. OneSlot'
    BY <1>1 DEF Mends, IInv, OneSlot
  <1>9. ASSUME NEW u \in Threads \ {t}, Working(th[u])
        PROVE  /\ th[u].n \in nets /\ row'[th[u].n] = row[th[u].n]
               /\ \A d \in Edges, k \in Slots : vnic'[d][k] = th[u].n => vnic[d][k] = th[u].n
               /\ \A k \in Slots : row[th[u].n].edge \in Edges =>
                    vnic'[row[th[u].n].edge][k] = vnic[row[th[u].n].edge][k]
               /\ \A m \in Nets, d \in Edges : row[m].edge = d /\ d = row[th[u].n].edge => row'[m].edge = d
               /\ \A m \in Nets : (th[u].pc \in Choosable /\ row'[m].edge \in th[u].avail) => row[m].edge = row'[m].edge
    <2>1. th[u].n \in nets /\ th[u].n \in Nets /\ th[u].avail \subseteq Edges
      BY <1>1, <1>9 DEF IInv, Current, HasRow, Types, Tables, Record
    <2>2. CASE UNCHANGED <<row, vnic, iface>>
      BY <2>1, <2>2
    <2>3. CASE Mends(t, e)
      <3>1. row[th[u].n].edge # e /\ (th[u].pc \in Choosable => e \notin th[u].avail)
        BY <1>9, <2>3 DEF Mends, IInv, Repairs, Spared
      <3>2. row'[th[u].n] = row[th[u].n]
        BY <2>1, <2>3, <3>1 DEF Mends
      <3>3. \A d \in Edges, k \in Slots : vnic'[d][k] = th[u].n => vnic[d][k] = th[u].n
        BY <1>1, <1>8, <2>1, <2>3, <3>1, <3>2 DEF Mends, OneSlot
      <3>4. \A m \in Nets, d \in Edges : row[m].edge = d /\ d = row[th[u].n].edge => row'[m].edge = d
        <4>1. ASSUME NEW m \in Nets, row[m].edge \in Edges, row[m].edge = row[th[u].n].edge, row'[m].edge # row[m].edge
              PROVE FALSE
          <5>1. row[m].edge = e
            BY <2>3, <4>1 DEF Mends
          <5> QED  BY <3>1, <4>1, <5>1
        <4> QED  BY <4>1
      <3>5. \A k \in Slots : row[th[u].n].edge \in Edges =>
              vnic'[row[th[u].n].edge][k] = vnic[row[th[u].n].edge][k]
        BY <2>3, <3>1 DEF Mends
      <3>6. \A m \in Nets : (th[u].pc \in Choosable /\ row'[m].edge \in th[u].avail) => row[m].edge = row'[m].edge
        BY <1>7, <2>1, DhcpAssumption
      <3> QED  BY <2>1, <3>2, <3>3, <3>4, <3>5, <3>6
    <2> QED  BY <2>2, <2>3
  <1>10. \A m \in Nets : Undecided(m) => Undecided(m)'
    <2>1. \A u \in Threads \ {t} : Unsettled(u) => Unsettled(u)'
      BY DEF Unsettled, MustMove
    <2> QED  BY <1>3, <2>1 DEF Undecided
  <1>11. \A m : Waiting(m) => Waiting(m)'
    <2>1. th[t].pc \notin {"read", "pool"}
      BY DEF JobLabels
    <2> QED  BY <2>1 DEF Waiting
  <1>12. ASSUME NEW u \in Threads PROVE Current(u)'
    <2>1. CASE u = t
      <3>1. th'[t].pc \notin {"pool", "stay", "moveIf", "select", "slot", "setSlot", "updateIf", "delSlot", "delIf"}
        BY DEF JobLabels
      <3> QED  BY <1>2, <2>1, <3>1 DEF Current, HasRow, HasChoice, HasSlot, Choosable
    <2>2. CASE u # t /\ ~Working(th[u])
      <3>1. th'[u] = th[u] /\ Sound(th[u]) /\ th[u] \in Record
        BY <1>1, <2>2 DEF Types
      <3>2. th[u].pc \in JobLabels
        BY <2>2, <3>1, Table DEF Sound, Working, Record, Labels, Choice, JobLabels
      <3> QED  BY <2>2, <3>1, <3>2 DEF Current, HasRow, HasChoice, HasSlot, Choosable, JobLabels
    <2>3. CASE u # t /\ Working(th[u])
      <3>1. th'[u] = th[u] /\ HasRow(u) /\ HasChoice(u) /\ HasSlot(u) /\ Sound(th[u]) /\ th[u] \in Record
        BY <1>1, <2>3 DEF IInv, Current, Types
      <3>2. th[u].n \in nets /\ th[u].n \in Nets /\ row'[th[u].n] = row[th[u].n]
        BY <1>1, <1>9, <2>3 DEF Tables
      <3>3. HasRow(u)'
        BY <1>1, <3>1, <3>2 DEF HasRow
      <3>4. HasSlot(u)'
        <4>1. \A d \in Edges, k \in Slots : vnic'[d][k] = th[u].n => vnic[d][k] = th[u].n
          BY <1>9, <2>3
        <4>2. th[u].pc \in SlotLabels => th[u].edge \in Edges /\ th[u].slot \in Slots
              /\ row[th[u].n].edge = th[u].edge
          BY <3>1 DEF Sound, EdgeLabels, SlotLabels, HasRow
        <4>3. th[u].pc \in SlotLabels => vnic'[th[u].edge][th[u].slot] = vnic[th[u].edge][th[u].slot]
          BY <1>9, <2>3, <4>2
        <4> QED  BY <3>1, <4>1, <4>3 DEF HasSlot, SlotLabels
      <3>5. HasChoice(u)'
        <4>1. ASSUME (th[u].pc = "moveIf" \/ (th[u].pc = "stay" /\ th[u].bad)) /\ th[u].edge \in th[u].avail
              PROVE  \E m \in Nets \ {th[u].n} : row'[m].edge = th[u].edge
          <5>1. PICK m \in Nets \ {th[u].n} : row[m].edge = th[u].edge
            BY <3>1, <4>1 DEF HasChoice
          <5>2. th[u].edge \in Edges /\ th[u].edge = row[th[u].n].edge
            BY <3>1, <4>1 DEF Sound, EdgeLabels, HasRow
          <5>3. row'[m].edge = th[u].edge
            BY <1>9, <2>3, <5>1, <5>2
          <5> QED  BY <5>1, <5>3
        <4>2. ASSUME th[u].pc \in Choosable, faults' = 0, NEW m \in (Conflicting(th[u].n))', row'[m].edge \in th[u].avail
              PROVE  Waiting(m)'
          <5>1. m \in Nets /\ (m \in Conflicting(th[u].n))'
            BY <4>2 DEF Conflicting
          <5>2. m \in Conflicting(th[u].n)
            BY <1>1, <3>1, <3>2, <5>1, ConflictsShrink
          <5>3. row[m].edge \in th[u].avail
            BY <1>9, <2>3, <4>2, <5>1
          <5> QED  BY <1>11, <3>1, <4>2, <5>2, <5>3 DEF HasChoice
        <4> QED  BY <3>1, <4>1, <4>2 DEF HasChoice
      <3> QED  BY <3>3, <3>4, <3>5 DEF Current
    <2> QED  BY <2>1, <2>2, <2>3
  <1>13. ASSUME NEW u \in Threads PROVE Repairs(u)'
    <2>1. CASE u # t /\ th[u].op = "job"
      <3>1. th[t].op # "job"
        BY <2>1 DEF IInv, Exclusive
      <3>2. th[t].seen = {}
        BY <1>1, <3>1 DEF Types, Sound
      <3>3. UNCHANGED <<row, vnic, iface>> /\ th'[u] = th[u] /\ Repairs(u)
        BY <2>1, <3>2 DEF Mends, IInv
      <3>4. th'[t].pc \notin Choosable
        BY DEF JobLabels, Choosable
      <3>5. \A p \in th[u].seen, v \in Threads : Spared(v, p)'
        <4>1. \A p \in th[u].seen : p[1] # NoNet
          BY <1>1, DhcpAssumption DEF Types, Record
        <4> QED  BY <1>2, <3>3, <3>4, <4>1 DEF Repairs, Spared
      <3> QED  BY <1>1, <3>3, <3>5 DEF Repairs
    <2>2. CASE u # t /\ th[u].op # "job"
      <3>1. th[u].seen = {} /\ th'[u] = th[u] /\ th[u].pc # "jobSync"
        BY <1>1, <2>2, Table DEF Types, Sound
      <3> QED  BY <3>1 DEF Repairs
    <2> QED  BY <2>1, <2>2
  <1>14. SubnetsLive'
    BY <1>1 DEF IInv, SubnetsLive
  <1>15. NoLeakedEdge'
    <2>1. ASSUME NEW d \in free' PROVE OnEdge(d)' = {}
      <3>1. d \in Edges /\ d # NoEdge /\ \A m \in Nets : row[m].edge # d
        BY <1>1, <2>1, DhcpAssumption DEF IInv, NoLeakedEdge, OnEdge, Tables
      <3> QED  BY <1>7, <3>1 DEF OnEdge
    <2>2. ASSUME nets' = Nets, NEW d \in Edges \ free' PROVE OnEdge(d)' # {}
      BY <1>1, <1>7, <2>2 DEF IInv, NoLeakedEdge, OnEdge
    <2> QED  BY <2>1, <2>2 DEF NoLeakedEdge
  <1>16. Healthy'
    BY NoRowType DEF IInv, Healthy, Mends
  <1>17. Apart'
    <2>1. ASSUME faults' = 0, NEW a \in Nets, NEW b \in Nets, (a \in Conflicting(b))',
                 row'[a].edge = row'[b].edge, row'[b].edge # NoEdge
          PROVE  Undecided(a)' \/ Undecided(b)'
      <3>1. a \in Conflicting(b)
        BY <1>1, <2>1, ConflictsShrink
      <3> QED  BY <1>7, <1>10, <2>1, <3>1 DEF IInv, Apart
    <2> QED  BY <2>1 DEF Apart
  <1>18. Agrees'
    <2>1. \A d \in Edges, k \in Slots : \A m : Freed(d, k, m) => Freed(d, k, m)'
      <3>1. th[t].pc \notin {"moveIf", "delIf"}
        BY DEF JobLabels
      <3> QED  BY <3>1 DEF Freed
    <2>2. ASSUME NEW d \in Edges, NEW k \in Slots, NEW m, m = iface'[d][k].net, m \in nets', ~iface'[d][k].left
          PROVE  vnic'[d][k] = m \/ Freed(d, k, m)'
      <3>1. \/ vnic'[d][k] = m
            \/ iface'[d][k] = iface[d][k] /\ (vnic[d][k] \in nets => vnic'[d][k] = vnic[d][k])
        BY <1>1, <2>2 DEF Mends
      <3>2. CASE iface'[d][k] = iface[d][k] /\ (vnic[d][k] \in nets => vnic'[d][k] = vnic[d][k])
        <4>1. vnic[d][k] = m \/ Freed(d, k, m)
          BY <1>1, <2>2, <3>2 DEF IInv, Agrees
        <4> QED  BY <1>1, <2>1, <2>2, <3>2, <4>1
      <3> QED  BY <3>1, <3>2
    <2> QED  BY <2>2 DEF Agrees, Freed
  <1> QED  BY <1>4, <1>5, <1>6, <1>8, <1>12, <1>13, <1>14, <1>15, <1>16, <1>17, <1>18 DEF IInv

\* What is left to repair.
LEMMA RepairsLeft ==
  ASSUME IInv, NEW t \in Threads, th[t].pc \in JobLabels, th'[t].pc \in JobLabels, th'[t].seen \subseteq th[t].seen,
         th'[t].pc = "jobSync" => \E p \in th'[t].seen : p[2] = th'[t].edge,
         \A u \in Threads \ {t} : th'[u] = th[u], UNCHANGED <<nets, free>>,
         \A m \in Nets : row'[m].edge = row[m].edge \/ (m \notin nets /\ row'[m] = NoRow), Types'
  PROVE  Repairs(t)'
  <1>1. Types /\ Repairs(t) /\ Sound(th'[t])
    BY DEF IInv, Types
  <1>2. th'[t].n = NoNet /\ ~Working(th'[t]) /\ th'[t].pc \notin Choosable
    BY <1>1, Table DEF Sound, JobLabels, Working, Choosable
  <1>3. ASSUME NEW p \in th'[t].seen
        PROVE  /\ p[2] \notin free'
               /\ row'[p[1]] = NoRow \/ row'[p[1]].edge = p[2]
               /\ p[1] \in nets' => row'[p[1]].edge = p[2]
               /\ \A u \in Threads : Spared(u, p)'
    <2>1. p \in th[t].seen /\ p[1] \in Nets /\ p[1] # NoNet
      BY <1>1, <1>3, DhcpAssumption DEF Types, Record
    <2>2. p[2] \notin free /\ (row[p[1]] = NoRow \/ row[p[1]].edge = p[2]) /\ (p[1] \in nets
          => row[p[1]].edge = p[2])
          /\ \A u \in Threads : Spared(u, p)
      BY <1>1, <2>1 DEF Repairs
    <2>3. row[p[1]] = NoRow => row'[p[1]] = NoRow
      BY <2>1, NoRowType, DhcpAssumption DEF Types, Rows
    <2>4. ASSUME NEW u \in Threads PROVE Spared(u, p)'
      <3>1. CASE u = t
        BY <1>2, <2>1, <3>1 DEF Spared
      <3>2. CASE u # t
        <4>1. Working(th[u]) => th[u].n \in nets /\ th[u].n \in Nets
          BY <1>1 DEF IInv, Current, HasRow, Types, TypeOK
        <4> QED  BY <2>2, <3>2, <4>1 DEF Spared
      <3> QED  BY <3>1, <3>2
    <2> QED  BY <2>1, <2>2, <2>3, <2>4
  <1> QED  BY <1>3 DEF Repairs

\* The job goes on to the next edge, or ends.
LEMMA JobNextIs ==
  ASSUME IInv, NEW t \in Threads, NEW e, th[t].pc \in {"job", "jobSync"}, JobNext(t, e)
  PROVE  /\ th'[t].pc \in {"idle", "job"} /\ th'[t].seen \subseteq th[t].seen
         /\ \A u \in Threads \ {t} : th'[u] = th[u] /\ th[u].op # "job"
         /\ lock' \in [LockNames -> Threads \cup {NoThread}]
         /\ \A l \in LockNames : lock'[l] = lock[l] \/ lock[l] \in {NoThread, t}
  <1>1. Types /\ th[t] \in Record /\ th[t].op = "job"
    BY AtSound, Table DEF IInv, Types
  <1>2. \A u \in Threads \ {t} : th[u].op # "job"
    BY <1>1 DEF IInv, Exclusive
  <1> DEFINE rest == {p \in th[t].seen : p[2] # e}
  <1>3. CASE rest = {}
    <2>1. Done(t)
      BY <1>3 DEF JobNext
    <2>2. th'[t] = Idle /\ (\A u \in Threads \ {t} : th'[u] = th[u]) /\ Drop(t, LockNames)
      BY <1>1, <2>1, DoneTypes DEF Done
    <2> QED  BY <1>2, <2>2, IdleSound, LocksMove
  <1>4. CASE rest # {}
    <2> DEFINE r == [th[t] EXCEPT !.pc = "job", !.seen = rest]
    <2>1. Drop(t, {Edge(e)}) /\ th' = [th EXCEPT ![t] = r]
      BY <1>1, <1>4 DEF JobNext, Types, Record
    <2>2. r.pc = "job" /\ r.seen \subseteq th[t].seen
      BY <1>1 DEF Record
    <2> HIDE DEF r
    <2>3. th'[t] = r /\ \A u \in Threads \ {t} : th'[u] = th[u]
      BY <1>1, <2>1 DEF Types
    <2> QED  BY <1>2, <2>1, <2>2, <2>3, LocksMove
  <1> QED  BY <1>3, <1>4

\* The job begins with the edges of the rows in ERROR, which no request is about.
LEMMA StartJobKeeps == ASSUME ~Races, IInv, NEW t \in Threads, StartJob(t) PROVE IInv'
  <1> DEFINE bad == {n \in Nets : row[n].status = "ERROR"}  seen == {<<n, row[n].edge>> : n \in bad}
             r == [Idle EXCEPT !.pc = "jobPool", !.op = "job", !.seen = seen]
  <1>1. /\ th[t] = Idle /\ (\A u \in Threads : th[u].op # "job") /\ UNCHANGED <<dbVars, edgeVars, lock, faults>>
        /\ \A u \in Threads, n \in bad : th[u].n \notin OnEdge(row[n].edge) /\ row[n].edge \notin th[u].avail
        /\ th' = [th EXCEPT ![t] = r]
    BY DEF StartJob
  <1>2. Types /\ Tables /\ Types'
    BY TypesSplit, StartJobTypes DEF IInv
  <1>3. r.pc = "jobPool" /\ r.seen = seen
    <2> HIDE DEF seen
    <2> QED  BY DEF Idle
  <1> HIDE DEF r
  <1>4. th'[t] = r /\ \A u \in Threads \ {t} : th'[u] = th[u]
    BY <1>1, <1>2 DEF Types
  <1>5. th'[t].n = NoNet /\ ~Working(th'[t]) /\ th'[t].pc \notin Choosable
    <2>1. Sound(th'[t]) /\ th'[t].pc = "jobPool"
      BY <1>2, <1>3, <1>4 DEF Types
    <2> QED  BY <2>1, Table DEF Sound, Working, Choosable
  <1>6. ASSUME NEW p \in th'[t].seen
        PROVE  /\ p[2] \notin free'
               /\ row'[p[1]].edge = p[2]
               /\ \A u \in Threads : Spared(u, p)'
    <2>1. PICK n \in bad : p = <<n, row[n].edge>>
      BY <1>3, <1>4, <1>6
    <2>2. n \in Nets /\ p[1] = n /\ p[2] = row[n].edge /\ row[n].edge \in Edges /\ n # NoNet
      BY <1>2, <2>1, NoRowType, DhcpAssumption DEF Tables, Rows
    <2>3. p[2] \notin free /\ n \in OnEdge(p[2])
      BY <2>2 DEF IInv, NoLeakedEdge, OnEdge
    <2>4. ASSUME NEW u \in Threads \ {t} PROVE Spared(u, p)'
      <3>1. th'[u] = th[u] /\ th[u].n \notin OnEdge(p[2]) /\ p[2] \notin th[u].avail
        BY <1>1, <1>4, <2>1, <2>2
      <3>2. Working(th[u]) => th[u].n \in Nets
        BY <1>2 DEF Types, Sound
      <3> QED  BY <1>1, <2>2, <2>3, <3>1, <3>2 DEF Spared, OnEdge, edgeVars
    <2>5. Spared(t, p)'
      BY <1>5, <2>2 DEF Spared
    <2> QED  BY <1>1, <2>2, <2>3, <2>4, <2>5 DEF edgeVars
  <1>7. Repairs(t)'
    <2>1. th'[t].pc # "jobSync"
      BY <1>3, <1>4
    <2> QED  BY <1>6, <2>1 DEF Repairs
  <1>8. th[t].pc \in JobLabels /\ th'[t].pc \in JobLabels
    BY <1>1, <1>3, <1>4, IdleSound DEF JobLabels
  <1>9. lock' \in [LockNames -> Threads \cup {NoThread}]
    BY <1>1, LocksMove
  <1>10. UNCHANGED <<dbVars, free>> /\ UNCHANGED <<row, vnic, iface>>
    BY <1>1 DEF edgeVars
  <1>11. \A u \in Threads \ {t} : th'[u] = th[u] /\ (th'[t].op = "job" => th[u].op # "job")
    BY <1>1, <1>4
  <1>12. (faults' = 0 => faults = 0) /\ \A l \in LockNames : lock'[l] = lock[l] \/ lock[l] \in {NoThread, t}
    BY <1>1
  <1> HIDE DEF bad, seen
  <1> QED  BY <1>2, <1>7, <1>8, <1>9, <1>10, <1>11, <1>12, JobKeeps

\* The job groups the rows by edge.
LEMMA JobGroupKeeps == ASSUME IInv, NEW t \in Threads, JobGroup(t) PROVE IInv'
  <1>1. th[t].pc = "jobPool" /\ Goto(t, "job") /\ UNCHANGED <<dbVars, edgeVars, lock, faults>>
    BY DEF JobGroup, At
  <1>2. Types /\ Types' /\ th[t].op = "job"
    BY <1>1, AtSound, JobGroupTypes, Table DEF IInv
  <1>3. th'[t].pc = "job" /\ th'[t].seen = th[t].seen /\ \A u \in Threads \ {t} : th'[u] = th[u]
    BY <1>1, <1>2 DEF Goto, Types, Record
  <1>4. \A u \in Threads \ {t} : th[u].op # "job"
    BY <1>2 DEF IInv, Exclusive
  <1>5. lock' \in [LockNames -> Threads \cup {NoThread}]
    BY <1>1, LocksMove
  <1>6. UNCHANGED <<dbVars, free>> /\ UNCHANGED <<row, vnic, iface>> /\ UNCHANGED <<nets, free>>
    BY <1>1 DEF edgeVars, dbVars
  <1>7. th[t].pc \in JobLabels /\ th'[t].pc \in JobLabels /\ th'[t].pc # "jobSync"
    BY <1>1, <1>3 DEF JobLabels
  <1>8. Repairs(t)'
    BY <1>2, <1>3, <1>6, <1>7, RepairsLeft
  <1> QED  BY <1>1, <1>2, <1>3, <1>4, <1>5, <1>6, <1>7, <1>8, JobKeeps

\* The job fails at an edge.
LEMMA JobFailsKeeps == ASSUME IInv, NEW t \in Threads, JobFails(t) PROVE IInv'
  <1>1. th[t].pc = "jobSync" /\ faults' # 0 /\ JobNext(t, th[t].edge) /\ UNCHANGED <<dbVars, edgeVars>>
    BY FaultGrows DEF JobFails, At
  <1>2. /\ th'[t].pc \in {"idle", "job"} /\ th'[t].seen \subseteq th[t].seen
        /\ \A u \in Threads \ {t} : th'[u] = th[u] /\ th[u].op # "job"
        /\ lock' \in [LockNames -> Threads \cup {NoThread}]
        /\ \A l \in LockNames : lock'[l] = lock[l] \/ lock[l] \in {NoThread, t}
    BY <1>1, JobNextIs
  <1>3. Types'
    BY JobFailsTypes DEF IInv
  <1>4. UNCHANGED <<dbVars, free>> /\ UNCHANGED <<row, vnic, iface>> /\ UNCHANGED <<nets, free>>
    BY <1>1 DEF edgeVars, dbVars
  <1>5. th[t].pc \in JobLabels /\ th'[t].pc \in JobLabels /\ th'[t].pc # "jobSync"
    BY <1>1, <1>2 DEF JobLabels
  <1>6. Repairs(t)'
    BY <1>2, <1>3, <1>4, <1>5, RepairsLeft
  <1> QED  BY <1>1, <1>2, <1>3, <1>4, <1>5, <1>6, JobKeeps

\* The slots the job adds: one for each network that has none.
LEMMA AddedSlots ==
  ASSUME IInv, NEW e \in Edges, NEW ns, NEW f \in WithSlots(e, ns), vnic' = [vnic EXCEPT ![e] = f],
         \A n \in ns : n \in nets /\ row[n].edge = e /\ SlotsOf(e, n) = {}, UNCHANGED nets,
         \A n \in nets : row'[n] = row[n]
  PROVE  /\ OneSlot'
         /\ \A d \in Edges \ {e}, k \in Slots : vnic'[d][k] = vnic[d][k]
         /\ \A k \in Slots : vnic[e][k] \in nets => vnic'[e][k] = vnic[e][k]
  <1>1. Tables /\ NoNet \notin nets
    BY TypesSplit, DhcpAssumption DEF IInv, Tables
  <1>2. /\ \A k \in Slots : f[k] # vnic[e][k] => vnic[e][k] = NoNet /\ f[k] \in ns
        /\ \A n \in ns : Cardinality({k \in Slots : f[k] = n}) = 1
    BY DEF WithSlots
  <1>3. vnic'[e] = f /\ \A d \in Edges \ {e}, k \in Slots : vnic'[d][k] = vnic[d][k]
    BY <1>1 DEF Tables
  <1>4. ASSUME NEW n \in ns, NEW k \in Slots, NEW j \in Slots, f[k] = n, f[j] = n PROVE j = k
    <2> DEFINE S == {i \in Slots : f[i] = n}
    <2>1. IsFiniteSet(S) /\ Cardinality(S) = 1
      BY <1>2, FS_Subset, DhcpAssumption
    <2>2. PICK x : S = {x}
      BY <2>1, FS_Singleton
    <2> QED  BY <1>4, <2>2
  <1>5. ASSUME NEW n \in nets', NEW d \in Edges, NEW k \in Slots, vnic'[d][k] = n
        PROVE  row'[n].edge = d /\ \A j \in Slots : vnic'[d][j] = n => j = k
    <2>0. n \in nets /\ n # NoNet /\ row'[n] = row[n]
      BY <1>1
    <2>1. CASE d # e
      BY <1>3, <1>5, <2>0, <2>1 DEF IInv, OneSlot
    <2>2. CASE d = e /\ n \in ns
      BY <1>3, <1>4, <1>5, <2>0, <2>2
    <2>3. CASE d = e /\ n \notin ns
      <3>1. \A j \in Slots : f[j] = n => vnic[e][j] = n
        BY <1>2, <2>3
      <3> QED  BY <1>3, <1>5, <2>0, <2>3, <3>1 DEF IInv, OneSlot
    <2> QED  BY <2>1, <2>2, <2>3
  <1> QED  BY <1>1, <1>2, <1>3, <1>5 DEF OneSlot

\* The job deletes rows of dead networks and adds the slots that are missing.
LEMMA JobRowsKeeps == ASSUME IInv, NEW t \in Threads, JobRows(t) PROVE IInv'
  <1>1. Types /\ Types' /\ Tables /\ th[t] \in Record /\ Sound(th[t]) /\ th[t].op = "job"
        /\ th[t].pc = "job" /\ Repairs(t)
    BY AtSound, Table, JobRowsTypes DEF JobRows, At, IInv
  <1>2. PICK e \in {p[2] : p \in th[t].seen} :
       LET mine == {p[1] : p \in {q \in th[t].seen : q[2] = e}}
           lost == {n \in mine \cap nets : SlotsOf(e, n) = {}}
       IN /\ Can(Edge(e))
          /\ row' = [n \in Nets |-> IF n \in mine \ nets THEN NoRow ELSE row[n]]
          /\ IF Cardinality(FreeSlots(e)) < Cardinality(lost)
             THEN JobNext(t, e) /\ UNCHANGED vnic
             ELSE /\ \E f \in WithSlots(e, lost) : vnic' = [vnic EXCEPT ![e] = f]
                  /\ Hold(t, Edge(e))
                  /\ th' = [th EXCEPT ![t].pc = "jobSync", ![t].edge = e]
    BY DEF JobRows
  <1> DEFINE mine == {p[1] : p \in {q \in th[t].seen : q[2] = e}}
             lost == {n \in mine \cap nets : SlotsOf(e, n) = {}}
  <1>3. e \in Edges /\ (\E p \in th[t].seen : p[2] = e) /\ UNCHANGED <<dbVars, iface, free, faults>>
        /\ lock[Edge(e)] = NoThread
    BY <1>1, <1>2 DEF Record, JobRows, Can
  <1>4. \A n \in mine : n \in Nets /\ (row[n] = NoRow \/ row[n].edge = e) /\ (n \in nets => row[n].edge = e)
    BY <1>1 DEF Repairs, Record
  <1>5. \A m \in Nets : row'[m] = row[m] \/ (row[m].edge = e /\ m \notin nets /\ row'[m] = NoRow)
    <2>1. row' = [n \in Nets |-> IF n \in mine \ nets THEN NoRow ELSE row[n]]
      BY <1>2
    <2> HIDE DEF mine
    <2> QED  BY <1>4, <2>1
  <1>6. \A m \in Nets : row'[m].edge = row[m].edge \/ (m \notin nets /\ row'[m] = NoRow)
    BY <1>5
  <1>7. \A n \in nets : row'[n] = row[n]
    BY <1>1, <1>5 DEF Tables
  <1>8. \A n \in lost : n \in nets /\ row[n].edge = e /\ SlotsOf(e, n) = {}
    BY <1>4
  <1>9. th[t].pc \in JobLabels /\ (faults' = 0 => faults = 0) /\ UNCHANGED <<nets, free>>
        /\ UNCHANGED <<dbVars, free>>
    BY <1>1, <1>3 DEF JobLabels, dbVars
  <1>10. CASE Cardinality(FreeSlots(e)) < Cardinality(lost)
    <2>1. JobNext(t, e) /\ UNCHANGED vnic
      BY <1>2, <1>10
    <2>2. /\ th'[t].pc \in {"idle", "job"} /\ th'[t].seen \subseteq th[t].seen
          /\ \A u \in Threads \ {t} : th'[u] = th[u] /\ th[u].op # "job"
          /\ lock' \in [LockNames -> Threads \cup {NoThread}]
          /\ \A l \in LockNames : lock'[l] = lock[l] \/ lock[l] \in {NoThread, t}
      BY <1>1, <2>1, JobNextIs
    <2>3. th'[t].pc \in JobLabels /\ th'[t].pc # "jobSync"
      BY <2>2 DEF JobLabels
    <2>4. OneSlot'
      BY <1>3, <1>7, <2>1 DEF IInv, OneSlot, dbVars
    <2>5. Mends(t, e)
      BY <1>3, <1>5, <2>1, <2>4 DEF Mends
    <2>6. Repairs(t)'
      BY <1>1, <1>6, <1>9, <2>2, <2>3, RepairsLeft
    <2> HIDE DEF mine, lost
    <2> QED  BY <1>1, <1>9, <2>2, <2>3, <2>5, <2>6, JobKeeps
  <1>11. CASE ~(Cardinality(FreeSlots(e)) < Cardinality(lost))
    <2>1. PICK f \in WithSlots(e, lost) : vnic' = [vnic EXCEPT ![e] = f]
      BY <1>2, <1>11
    <2>2. Hold(t, Edge(e)) /\ th' = [th EXCEPT ![t].pc = "jobSync", ![t].edge = e]
      BY <1>2, <1>11
    <2> DEFINE r == [th[t] EXCEPT !.pc = "jobSync", !.edge = e]
    <2>3. th' = [th EXCEPT ![t] = r] /\ r.pc = "jobSync" /\ r.edge = e /\ r.seen = th[t].seen
      BY <1>1, <2>2 DEF Types, Record
    <2> HIDE DEF r
    <2>4. th'[t].pc = "jobSync" /\ th'[t].edge = e /\ th'[t].seen = th[t].seen
          /\ \A u \in Threads \ {t} : th'[u] = th[u]
      BY <1>1, <2>3 DEF Types
    <2>5. \A u \in Threads \ {t} : th[u].op # "job"
      BY <1>1 DEF IInv, Exclusive
    <2>6. lock' \in [LockNames -> Threads \cup {NoThread}] /\ \A l \in LockNames : lock'[l] = lock[l] \/ lock[l] = NoThread
      <3>1. Edge(e) \in LockNames
        BY <1>3 DEF LockNames
      <3> QED  BY <1>3, <2>2, <3>1, LocksMove
    <2> HIDE DEF mine, lost
    <2>7. /\ OneSlot'
          /\ \A d \in Edges \ {e}, k \in Slots : vnic'[d][k] = vnic[d][k]
          /\ \A k \in Slots : vnic[e][k] \in nets => vnic'[e][k] = vnic[e][k]
      BY <1>3, <1>7, <1>8, <1>9, <2>1, AddedSlots
    <2>8. Mends(t, e)
      BY <1>3, <1>5, <2>7 DEF Mends
    <2>9. th'[t].pc \in JobLabels
      BY <2>4 DEF JobLabels
    <2>10. Repairs(t)'
      BY <1>1, <1>3, <1>6, <1>9, <2>4, <2>9, RepairsLeft
    <2> QED  BY <1>1, <1>9, <2>4, <2>5, <2>6, <2>8, <2>9, <2>10, JobKeeps
  <1> QED  BY <1>10, <1>11

\* The job frees the slots of dead networks and makes the backend follow the table.
LEMMA JobSyncKeeps == ASSUME IInv, NEW t \in Threads, JobSync(t) PROVE IInv'
  <1> DEFINE e == th[t].edge
  <1>1. Types /\ Types' /\ Tables /\ Repairs(t) /\ NoNet \notin nets
    BY TypesSplit, JobSyncTypes, DhcpAssumption DEF IInv, Tables
  <1>2. /\ e \in Edges /\ th[t].pc = "jobSync" /\ vnic' = [vnic EXCEPT ![e] = LiveSlots(e)]
        /\ row' = [n \in Nets |-> IF row[n].edge = e THEN [row[n] EXCEPT !.status = "ACTIVE"] ELSE row[n]]
        /\ JobNext(t, e) /\ UNCHANGED <<dbVars, free, faults>>
    BY <1>1, JobSyncEffect
  <1>3. PICK kept \in SUBSET Slots : iface' = [iface EXCEPT ![e] = Synced(e, kept)]
                                     /\ \A k \in kept : LiveSlots(e)[k] = NoNet
    BY <1>1, JobSyncEffect
  <1>4. /\ th'[t].pc \in {"idle", "job"} /\ th'[t].seen \subseteq th[t].seen
        /\ \A u \in Threads \ {t} : th'[u] = th[u] /\ th[u].op # "job"
        /\ lock' \in [LockNames -> Threads \cup {NoThread}]
        /\ \A l \in LockNames : lock'[l] = lock[l] \/ lock[l] \in {NoThread, t}
    BY <1>2, JobNextIs
  <1>5. \A m \in Nets : row'[m] = row[m] \/ (row[m].edge = e /\ row'[m].edge = e
        /\ row'[m].status = "ACTIVE")
    BY <1>1, <1>2 DEF Tables
  <1>6. \A k \in Slots : LiveSlots(e)[k] = IF vnic[e][k] \in nets THEN vnic[e][k] ELSE NoNet
    BY DEF LiveSlots
  <1>7. vnic'[e] = LiveSlots(e) /\ \A d \in Edges \ {e}, k \in Slots : vnic'[d][k] = vnic[d][k] /\ iface'[d][k] = iface[d][k]
    BY <1>1, <1>2, <1>3 DEF Tables
  <1>8. OneSlot'
    <2>1. \A n \in nets, d \in Edges, k \in Slots : vnic'[d][k] = n => vnic[d][k] = n
      BY <1>1, <1>6, <1>7
    <2>2. \A n \in nets : row'[n].edge = row[n].edge
      BY <1>1, <1>5 DEF Tables
    <2> QED  BY <1>2, <2>1, <2>2 DEF IInv, OneSlot, dbVars
  <1>9. ASSUME NEW k \in Slots
        PROVE  iface'[e][k].left \/ iface'[e][k].net \notin nets \/ vnic'[e][k] = iface'[e][k].net
    <2>1. iface'[e] = Synced(e, kept)
      BY <1>1, <1>2, <1>3 DEF Tables
    <2>2. CASE k \in kept
      <3>1. iface'[e][k] = [iface[e][k] EXCEPT !.left = TRUE]
        BY <2>1, <2>2 DEF Synced
      <3>2. iface[e][k] \in [net : Nets \cup {NoNet}, ips : SUBSET Subnets, left : BOOLEAN]
        BY <1>1, <1>2 DEF Tables
      <3>3. iface'[e][k].left
        BY <3>1, <3>2
      <3> QED  BY <3>3
    <2>3. CASE k \notin kept /\ LiveSlots(e)[k] = NoNet
      <3>1. iface'[e][k] = NoIf
        BY <2>1, <2>3 DEF Synced
      <3> QED  BY <1>1, <3>1 DEF NoIf
    <2>4. CASE k \notin kept /\ LiveSlots(e)[k] # NoNet
      <3>1. PICK ips : iface'[e][k] = [net |-> LiveSlots(e)[k], left |-> FALSE, ips |-> ips]
        <4>1. iface'[e][k] = Synced(e, kept)[k]
          BY <2>1
        <4> QED  BY <2>4, <4>1 DEF Synced
      <3> QED  BY <1>7, <3>1
    <2> QED  BY <2>2, <2>3, <2>4
  <1>10. \E p \in th[t].seen : p[2] = e
    BY <1>1, <1>2 DEF Repairs
  <1>11. Mends(t, e)
    BY <1>5, <1>7, <1>8, <1>9, <1>10 DEF Mends
  <1>12. th[t].pc \in JobLabels /\ th'[t].pc \in JobLabels /\ th'[t].pc # "jobSync"
    BY <1>2, <1>4 DEF JobLabels
  <1>13. UNCHANGED <<nets, free>> /\ UNCHANGED <<dbVars, free>> /\ (faults' = 0 => faults = 0)
    BY <1>2 DEF dbVars
  <1>14. \A m \in Nets : row'[m].edge = row[m].edge \/ (m \notin nets /\ row'[m] = NoRow)
    BY <1>5
  <1>15. Repairs(t)'
    BY <1>1, <1>4, <1>12, <1>13, <1>14, RepairsLeft
  <1> HIDE DEF e
  <1> QED  BY <1>1, <1>4, <1>11, <1>12, <1>13, <1>15, JobKeeps

-----------------------------------------------------------------------------
(* The results                                                             *)

\* The invariant holds at first.
LEMMA InitSafe == ASSUME Init PROVE IInv
  <1>1. Types
    BY InitTypes
  <1>2. \A t \in Threads : th[t] = Idle /\ th[t].pc = "idle" /\ th[t].op = "none" /\ th[t].n = NoNet
        /\ th[t].seen = {}
    BY IdleSound DEF Init
  <1>3. Exclusive /\ Locked /\ Alone
    BY <1>2 DEF Exclusive, Locked, Alone, UnderPool, Choice, Deletes
  <1>4. \A t \in Threads : Current(t) /\ Repairs(t)
    BY <1>2 DEF Current, HasRow, HasChoice, HasSlot, Choosable, Repairs, Working
  <1>5. SubnetsLive
    BY DEF Init, SubnetsLive
  <1>6. \A n \in Nets : row[n].edge = NoEdge /\ row[n].status = "none"
    BY NoRowType DEF Init
  <1>7. OneSlot /\ Agrees
    <2>1. \A e \in Edges, k \in Slots : vnic[e][k] = NoNet /\ iface[e][k].net = NoNet
      BY DEF Init, Empty, NoIfs, NoIf
    <2> QED  BY <2>1, DhcpAssumption DEF Init, OneSlot, Agrees
  <1>8. NoLeakedEdge /\ Healthy /\ Apart
    BY <1>6, DhcpAssumption DEF Init, NoLeakedEdge, OnEdge, Healthy, Apart
  <1> QED  BY <1>1, <1>3, <1>4, <1>5, <1>7, <1>8 DEF IInv

\* Every step keeps the invariant.
LEMMA NextSafe == ASSUME ~Races, IInv, [Next]_vars PROVE IInv'
  <1>1. CASE UNCHANGED vars
    <2>1. UNCHANGED <<nets, subnet, row, vnic, iface, free, lock, th, faults>>
      BY <1>1 DEF vars, dbVars, edgeVars
    <2>2. Types'
      BY <1>1, NextTypes DEF IInv
    <2>3. Exclusive' /\ Locked' /\ Alone'
      BY <2>1 DEF IInv, Exclusive, Locked, Alone, Deletes, Unlocked
    <2>4. \A n : (Conflicting(n))' = Conflicting(n)
      BY <2>1 DEF Conflicting, Clash, SubnetsOf
    <2>5. ASSUME NEW t \in Threads PROVE Current(t)' /\ Repairs(t)'
      <3>1. Current(t) /\ Repairs(t) /\ th'[t] = th[t]
        BY <2>1 DEF IInv
      <3>2. HasRow(t)' /\ HasSlot(t)'
        BY <2>1, <3>1 DEF Current, HasRow, HasSlot
      <3>3. HasChoice(t)'
        <4>1. \A m : Waiting(m)' <=> Waiting(m)
          BY <2>1 DEF Waiting
        <4>2. (Conflicting(th[t].n))' = Conflicting(th[t].n)
          BY <2>4, <3>1
        <4> QED  BY <2>1, <3>1, <4>1, <4>2 DEF Current, HasChoice
      <3>4. \A p \in th[t].seen, u \in Threads : Spared(u, p)'
        BY <2>1, <3>1 DEF Repairs, Spared
      <3> QED  BY <2>1, <3>1, <3>2, <3>3, <3>4 DEF Current, Repairs
    <2>6. SubnetsLive' /\ OneSlot' /\ NoLeakedEdge' /\ Healthy'
      BY <2>1 DEF IInv, SubnetsLive, OneSlot, NoLeakedEdge, OnEdge, Healthy
    <2>7. Apart'
      <3>1. \A m \in Nets : Undecided(m)' <=> Undecided(m)
        BY <2>1 DEF Undecided, Unsettled, MustMove
      <3> QED  BY <2>1, <2>4, <3>1 DEF IInv, Apart
    <2>8. Agrees'
      BY <2>1 DEF IInv, Agrees, Freed
    <2> QED  BY <2>2, <2>3, <2>5, <2>6, <2>7, <2>8 DEF IInv
  <1>2. ASSUME NEW t \in Threads, Choosing(t) PROVE IInv'
    BY <1>2, ReadRowKeeps, LockPoolKeeps, StayKeeps, MoveKeeps, MoveIfKeeps, ReuseKeeps, NewKeeps,
       NoNewKeeps,
       FindSlotKeeps, SetSlotKeeps DEF Choosing
  <1>3. ASSUME NEW t \in Threads, Updating(t) \/ Deleting(t) PROVE IInv'
    BY <1>3, UpdateKeeps, UpdateIfKeeps, UpdateFailsKeeps, DeleteReadKeeps, DeleteSlotKeeps, DeleteIfKeeps
    DEF Updating, Deleting
  <1>4. ASSUME NEW t \in Threads, Request(t) \/ Job(t) PROVE IInv'
    BY <1>4, DeleteSubnetKeeps, EnableKeeps, DeleteNetKeeps, JobGroupKeeps, JobRowsKeeps, JobSyncKeeps,
       JobFailsKeeps
    DEF Request, Job
  <1>5. ASSUME NEW t \in Threads, Start(t) PROVE IInv'
    BY <1>5, StartCreateKeeps, StartDeleteKeeps, StartDisableKeeps, StartEnableKeeps, StartPortKeeps,
       StartDeleteNetKeeps, StartJobKeeps DEF Start
  <1> QED  BY <1>1, <1>2, <1>3, <1>4, <1>5 DEF Next, Work, Rest

\* What the invariant says of the network that nobody works on.
LEMMA SlotOfRowFollows == ASSUME IInv PROVE SlotOfRow
  <1>1. ASSUME NEW n \in nets, NEW e \in Edges, SlotsOf(e, n) # {}
        PROVE  row[n].edge = e /\ Cardinality(SlotsOf(e, n)) = 1
    <2>1. PICK k \in Slots : vnic[e][k] = n
      BY <1>1, DhcpAssumption DEF SlotsOf
    <2>2. row[n].edge = e /\ \A j \in Slots : vnic[e][j] = n => j = k
      BY <2>1 DEF IInv, OneSlot
    <2>3. SlotsOf(e, n) = {k}
      BY <2>1, <2>2, DhcpAssumption DEF SlotsOf
    <2> QED  BY <2>2, <2>3, FS_Singleton
  <1> QED  BY <1>1 DEF SlotOfRow

\* A network that is still to decide is touched.
LEMMA NoOverlapFollows == ASSUME IInv PROVE NoOverlap
  <1>1. ASSUME faults = 0, NEW e \in Edges, NEW m \in OnEdge(e), NEW n \in OnEdge(e), m \in Conflicting(n)
        PROVE  Touched(m) \/ Touched(n)
    <2>1. m \in Nets /\ n \in Nets /\ row[m].edge = row[n].edge /\ row[n].edge # NoEdge
      BY DhcpAssumption DEF OnEdge
    <2>2. Undecided(m) \/ Undecided(n)
      BY <1>1, <2>1 DEF IInv, Apart
    <2> QED  BY <2>2 DEF Undecided, Touched
  <1> QED  BY <1>1 DEF NoOverlap

\* A slot that has just been freed is that of a network that is touched.
LEMMA BackendFollows == ASSUME IInv PROVE BackendAgrees
  <1>1. \A e \in Edges, k \in Slots : \A n : Freed(e, k, n) => Touched(n)
    BY DEF Freed, Touched
  <1> QED  BY <1>1 DEF IInv, Agrees, BackendAgrees

\* The invariant of requests that share no lock and do not overlap.
THEOREM Invariant == ASSUME ~Races PROVE Spec => []IInv
  <1>1. Init => IInv
    BY InitSafe
  <1>2. IInv /\ [Next]_vars => IInv'
    BY NextSafe
  <1> QED  BY <1>1, <1>2, PTL DEF Spec

\* A live network that nobody works on has no slot but one on the edge of its row
\* (SlotOfRow).
THEOREM SlotsFollowRows == ASSUME ~Races PROVE Spec => []SlotOfRow
  <1>1. IInv => SlotOfRow
    BY SlotOfRowFollows
  <1> QED  BY <1>1, Invariant, PTL

\* An edge is nobody's exactly when it has no rows, unless the job deleted the row of a dead
\* network (NoLeakedEdge): _delete_dhcp_router_binding loses no edge and gives none back
\* that is in use.
THEOREM NoEdgeLeaks == ASSUME ~Races PROVE Spec => []NoLeakedEdge
  <1>1. IInv => NoLeakedEdge
    BY DEF IInv
  <1> QED  BY <1>1, Invariant, PTL

\* While the backend never failed, networks that overlap are kept on different edges by
\* create_dhcp_edge_service (NoOverlap).
THEOREM OverlapApart == ASSUME ~Races PROVE Spec => []NoOverlap
  <1>1. IInv => NoOverlap
    BY NoOverlapFollows
  <1> QED  BY <1>1, Invariant, PTL

\* Every sub-interface of a live network that nobody works on is in the slot that the table
\* has for it, but for those that a failed deletion or the job left (BackendAgrees).
THEOREM TableAndBackend == ASSUME ~Races PROVE Spec => []BackendAgrees
  <1>1. IInv => BackendAgrees
    BY BackendFollows
  <1> QED  BY <1>1, Invariant, PTL

-----------------------------------------------------------------------------
(* Every network is served, while the backend never failed                 *)

\* The subnets whose addresses a network may have at its edge: those that are there, but for
\* one that is created and has not found its edge yet, and one that is being deleted until
\* the edge is updated.
Fresh(s) == \E u \in Threads : th[u].op = "create" /\ th[u].s = s /\ Unsettled(u)
GoingLabels == {"update", "updateIf", "delRead", "delSlot", "delIf"}
Going(s) == \E u \in Threads : th[u].op = "delete" /\ th[u].s = s /\ th[u].pc \in GoingLabels
Held(n) == {s \in Subnets : NetOf[s] = n /\ ((subnet[s] # "none" /\ ~Fresh(s)) \/ Going(s))}

\* What a request knows, while no failure made a row ERROR: where its network is,
Placed(n) == \E e \in Edges, k \in Slots : row[n].edge = e /\ vnic[e][k] = n
HasPlace(t) == LET r == th[t] IN
  /\ r.pc \in {"moveIf", "delIf"} => vnic[r.edge][r.slot] = NoNet
  /\ r.pc \in {"read", "pool", "stay"} => row[r.n] = NoRow \/ Placed(r.n)
  /\ r.pc = "enable" => row[r.n] = NoRow
  /\ r.pc \in {"update", "updateIf"} => Placed(r.n)
  /\ r.pc = "updateIf" => r.ips = Addresses(r.n)
  /\ r.op # "delnet" => /\ r.pc = "delRead" => Placed(r.n)
                        /\ r.pc \in {"delRead", "delSlot", "delIf"} => ~DhcpOn(r.n)
\* and that there is room where it goes, and no overlapping addresses.
HasRoom(t) == LET r == th[t] IN
  /\ r.pc \in Choosable => \A e \in r.avail : FreeSlots(e) # {}
  /\ r.pc \in Choosable => \A m \in Nets \ {r.n} : row[m].edge \in r.avail => ~Clash(SubnetsOf(r.n), Held(m))
  /\ r.pc = "slot" => FreeSlots(r.edge) # {}
Knows(t) == th[t].op # "job" /\ ~th[t].bad /\ HasPlace(t) /\ HasRoom(t)

\* The sub-interfaces are those of the slots, with addresses that their networks hold.
Clean == \A e \in Edges, k \in Slots : ~iface[e][k].left /\ (iface[e][k].net = NoNet => iface[e][k] = NoIf)
Follows == \A e \in Edges, k \in Slots : iface[e][k].net # NoNet =>
             vnic[e][k] = iface[e][k].net \/ Freed(e, k, iface[e][k].net)
Holds == \A e \in Edges, k \in Slots : iface[e][k].net \in nets => iface[e][k].ips \subseteq Held(iface[e][k].net)
HeldApart == \A m, n \in Nets :
  (m # n /\ row[m].edge = row[n].edge /\ row[n].edge # NoEdge) => ~Clash(Held(n), Held(m))
\* A network that nobody works on, or that only waits for the pool, has no edge and no DHCP,
\* or its addresses.
Rested(n) == \/ row[n] = NoRow /\ ~DhcpOn(n)
             \/ \E e \in Edges, k \in Slots : /\ row[n].edge = e /\ vnic[e][k] = n
                                              /\ iface[e][k].net = n /\ iface[e][k].ips = Addresses(n)
Resting == \A n \in nets : (\A u \in Threads : th[u].n = n => th[u].pc = "delPool") => Rested(n)
\* Two requests have not freed one slot.
FreedApart == \A t, u \in Threads :
  ({th[t].pc, th[u].pc} \subseteq {"moveIf", "delIf"} /\ th[t].edge = th[u].edge /\ th[t].slot = th[u].slot) => t = u
Serving == (\A t \in Threads : Knows(t)) /\ Clean /\ Follows /\ FreedApart /\ Holds /\ HeldApart /\ Resting
SInv == IInv /\ (faults = 0 => Serving)

\* What a network with one request on it holds.
LEMMA HeldOf ==
  ASSUME Types, NEW t \in Threads, NEW n \in Nets, \A u \in Threads \ {t} : th[u].n # n
  PROVE  \A s \in Subnets : s \in Held(n) <=>
           NetOf[s] = n /\ \/ subnet[s] # "none" /\ ~(th[t].op = "create" /\ th[t].s = s /\ Unsettled(t))
                           \/ th[t].op = "delete" /\ th[t].s = s /\ th[t].pc \in GoingLabels
  <1>1. \A u \in Threads, s \in Subnets : (th[u].op \in {"create", "delete"} /\ th[u].s = s) => th[u].n = NetOf[s]
    BY DEF Types, Sound
  <1>2. ASSUME NEW s \in Subnets, NetOf[s] = n
        PROVE  /\ Fresh(s) <=> (th[t].op = "create" /\ th[t].s = s /\ Unsettled(t))
               /\ Going(s) <=> (th[t].op = "delete" /\ th[t].s = s /\ th[t].pc \in GoingLabels)
    <2>1. \A u \in Threads \ {t} : ~(th[u].op \in {"create", "delete"} /\ th[u].s = s)
      BY <1>1, <1>2
    <2> QED  BY <2>1 DEF Fresh, Going
  <1> QED  BY <1>2 DEF Held

\* The same after a step.
LEMMA HeldNext ==
  ASSUME Types', NEW t \in Threads, NEW n \in Nets, \A u \in Threads \ {t} : th'[u].n # n
  PROVE  \A s \in Subnets : s \in Held(n)' <=>
           NetOf[s] = n /\ \/ subnet'[s] # "none" /\ ~(th'[t].op = "create" /\ th'[t].s = s /\ Unsettled(t)')
                           \/ th'[t].op = "delete" /\ th'[t].s = s /\ th'[t].pc \in GoingLabels
  <1>1. \A u \in Threads, s \in Subnets : (th'[u].op \in {"create", "delete"} /\ th'[u].s = s) => th'[u].n = NetOf[s]
    BY DEF Types, Sound
  <1>2. ASSUME NEW s \in Subnets, NetOf[s] = n
        PROVE  /\ Fresh(s)' <=> (th'[t].op = "create" /\ th'[t].s = s /\ Unsettled(t)')
               /\ Going(s)' <=> (th'[t].op = "delete" /\ th'[t].s = s /\ th'[t].pc \in GoingLabels)
    <2>1. \A u \in Threads \ {t} : ~(th'[u].op \in {"create", "delete"} /\ th'[u].s = s)
      BY <1>1, <1>2
    <2> QED  BY <2>1 DEF Fresh, Going
  <1> QED  BY <1>2 DEF Held

\* A step of t on the network n: the other networks keep their rows, subnets, slots and
\* sub-interfaces; slots are taken, and addresses and edges got, under the lock of the pool.
Aside(t, n) ==
  /\ n \in nets /\ th[t].n \in {n, NoNet} /\ th'[t].n \in {n, NoNet}
  /\ \A u \in Threads \ {t} : th'[u] = th[u] /\ th[u].n # n
  /\ \A m \in Nets \ {n} : row'[m] = row[m]
  /\ \A s \in Subnets : NetOf[s] # n => subnet'[s] = subnet[s]
  /\ \A m \in nets \ {n}, e \in Edges, k \in Slots : vnic'[e][k] = m <=> vnic[e][k] = m
  /\ \A e \in Edges, k \in Slots :
       (iface[e][k].net \in nets \ {n} \/ iface'[e][k].net \in nets \ {n}) => iface'[e][k] = iface[e][k]
  /\ nets' \subseteq nets /\ nets \subseteq nets' \cup {n}
  /\ th[t].pc = "setSlot" \/ \A e \in Edges, k \in Slots : vnic[e][k] = NoNet => vnic'[e][k] = NoNet
  /\ lock[Pool] \in {t, NoThread} \/ (Held(n)' \subseteq Held(n) /\ row'[n].edge \in {row[n].edge, NoEdge})

\* The other networks hold what they held.
LEMMA HeldAside ==
  ASSUME IInv, Types', NEW t \in Threads, NEW n \in Nets, Aside(t, n), NEW m \in Nets, m # n
  PROVE  Held(m)' = Held(m) /\ SubnetsOf(m)' = SubnetsOf(m) /\ Addresses(m)' = Addresses(m)
  <1>1. SubnetsOf(m)' = SubnetsOf(m) /\ Addresses(m)' = Addresses(m)
    BY DEF Aside, SubnetsOf, Addresses
  <1>2. ASSUME NEW s \in Subnets, NetOf[s] = m PROVE (Fresh(s)' <=> Fresh(s)) /\ (Going(s)' <=> Going(s))
    <2>1. ~(th[t].op \in {"create", "delete"} /\ th[t].s = s) /\ ~(th'[t].op \in {"create", "delete"} /\ th'[t].s = s)
      BY <1>2, DhcpAssumption DEF IInv, Types, Sound, Aside
    <2>2. \A u \in Threads \ {t} : th'[u] = th[u] /\ (Unsettled(u)' <=> Unsettled(u))
      BY DEF Aside, Unsettled, MustMove
    <2> QED  BY <2>1, <2>2 DEF Fresh, Going
  <1>3. Held(m)' = Held(m)
    BY <1>2 DEF Held, Aside
  <1> QED  BY <1>1, <1>3

\* Networks that have a place keep it.
LEMMA PlaceAside ==
  ASSUME NEW t \in Threads, NEW n \in Nets, Aside(t, n), NEW m \in nets \ {n}, m \in Nets, Placed(m)
  PROVE  Placed(m)'
  BY DEF Aside, Placed

\* While a network is being moved or deleted, no slot is taken.
LEMMA FreedAside ==
  ASSUME IInv, NEW t \in Threads, NEW u \in Threads, u # t, th[u].pc \in {"moveIf", "delIf"} \cup Choosable \cup {"slot"}
  PROVE  th[t].pc # "setSlot"
  <1>1. th[u].pc \in Choice \/ th[u].pc = "delIf"
    BY DEF Choice, Choosable
  <1>2. th[u].pc \in Choice => lock[Pool] = u
    BY DEF IInv, Locked, UnderPool
  <1>3. th[u].pc = "delIf" => lock[Pool] = u \/ Deletes(u)
    <2>1. th[u].pc = "delIf" => th[u].op \in {"delete", "disable", "delnet"}
      BY Table DEF IInv, Types, Sound
    <2> QED  BY <2>1 DEF IInv, Locked, UnderPool, Deletes, Unlocked
  <1>4. th[t].pc = "setSlot" => lock[Pool] = t /\ ~Deletes(u)
    BY DEF IInv, Locked, UnderPool, Choice, Alone
  <1> QED  BY <1>1, <1>2, <1>3, <1>4

\* What another request knows stays true.
LEMMA KnowsAside ==
  ASSUME IInv, IInv', NEW t \in Threads, NEW n \in Nets, Aside(t, n), NEW u \in Threads \ {t}, Knows(u)
  PROVE  Knows(u)'
  <1>1. th'[u] = th[u] /\ Sound(th[u]) /\ th[u] \in Record /\ HasRow(u) /\ Types'
    BY DEF Aside, IInv, Types, Current
  <1>0. PICK m : m = th[u].n
    OBVIOUS
  <1>2. CASE ~Working(th[u])
    <2>1. th[u].pc = "idle"
      BY <1>1, <1>2, Table DEF Sound, Working, Record, Labels, Choice, Knows
    <2> QED  BY <1>1, <2>1 DEF Knows, HasPlace, HasRoom, Choosable
  <1>3. CASE Working(th[u])
    <2>1. m \in nets /\ m \in Nets /\ m # n
      BY <1>0, <1>1, <1>3 DEF Sound, HasRow, Aside
    <2>2. row'[m] = row[m] /\ SubnetsOf(m)' = SubnetsOf(m) /\ Addresses(m)' = Addresses(m)
          /\ (DhcpOn(m)' <=> DhcpOn(m))
      BY <1>1, <2>1, HeldAside DEF Aside, DhcpOn
    <2>3. Placed(m) => Placed(m)'
      BY <2>1, PlaceAside
    <2>4. th[u].pc \in SlotLabels => th[u].edge \in Edges /\ th[u].slot \in Slots
      BY <1>1 DEF Sound, EdgeLabels, SlotLabels
    <2>5. th[u].pc \in {"moveIf", "delIf"} => vnic'[th[u].edge][th[u].slot] = NoNet
      BY <2>4, FreedAside DEF Aside, Knows, HasPlace, SlotLabels
    <2>6. HasPlace(u)'
      <3>1. HasPlace(u)
        BY DEF Knows
      <3> QED  BY <1>0, <1>1, <2>2, <2>3, <2>5, <3>1 DEF HasPlace
    <2>7. HasRoom(u)'
      <3>1. CASE th[u].pc \notin Choosable \cup {"slot"}
        BY <1>1, <3>1 DEF HasRoom
      <3>2. CASE th[u].pc \in Choosable \cup {"slot"}
        <4>1. lock[Pool] = u /\ u # t /\ u # NoThread
          BY <3>2, DhcpAssumption DEF IInv, Locked, UnderPool, Choice, Choosable
        <4>2. \A e \in Edges, k \in Slots : vnic[e][k] = NoNet => vnic'[e][k] = NoNet
          BY <3>2, FreedAside DEF Aside
        <4>3. \A e \in Edges : FreeSlots(e) # {} => FreeSlots(e)' # {}
          BY <4>2, DhcpAssumption DEF FreeSlots, SlotsOf
        <4>4. th[u].avail \subseteq Edges /\ (th[u].pc = "slot" => th[u].edge \in Edges)
          BY <1>1 DEF Record, Sound, EdgeLabels
        <4>5. \A c \in Nets : Held(c)' \subseteq Held(c) /\ (row'[c].edge = row[c].edge \/ row'[c].edge = NoEdge)
          <5>1. Held(n)' \subseteq Held(n) /\ row'[n].edge \in {row[n].edge, NoEdge}
            BY <4>1 DEF Aside
          <5>2. \A c \in Nets \ {n} : Held(c)' = Held(c) /\ row'[c] = row[c]
            BY <1>1, HeldAside DEF Aside
          <5> QED  BY <5>1, <5>2
        <4>6. \A c \in Nets \ {m} : (th[u].pc \in Choosable /\ row'[c].edge \in th[u].avail)
                => ~Clash(SubnetsOf(m), Held(c)')
          <5>1. NoEdge \notin th[u].avail
            BY <4>4, DhcpAssumption
          <5>2. ASSUME NEW c \in Nets \ {m}, th[u].pc \in Choosable, row'[c].edge \in th[u].avail
                PROVE  ~Clash(SubnetsOf(m), Held(c)')
            <6>1. row[c].edge \in th[u].avail
              BY <4>5, <5>1, <5>2
            <6>2. ~Clash(SubnetsOf(m), Held(c))
              BY <1>0, <5>2, <6>1 DEF Knows, HasRoom
            <6> QED  BY <4>5, <6>2 DEF Clash
          <5> QED  BY <5>2
        <4>7. \A c \in Nets \ {m} : (th[u].pc \in Choosable /\ row'[c].edge \in th[u].avail)
                => ~Clash(SubnetsOf(m)', Held(c)')
          BY <2>2, <4>6
        <4>8. th[u].pc \in Choosable => \A e \in th[u].avail : FreeSlots(e)' # {}
          BY <4>3, <4>4 DEF Knows, HasRoom
        <4>9. th[u].pc = "slot" => FreeSlots(th[u].edge)' # {}
          <5>1. th[u].pc = "slot" => FreeSlots(th[u].edge) # {}
            BY DEF Knows, HasRoom
          <5> QED  BY <1>1, <4>3, <4>4, <5>1
        <4> QED  BY <1>0, <1>1, <4>7, <4>8, <4>9 DEF HasRoom, Clash
      <3> QED  BY <3>1, <3>2
    <2> QED  BY <1>1, <2>6, <2>7 DEF Knows
  <1> QED  BY <1>2, <1>3

\* A step on n keeps the others served; what is left is about n.
LEMMA AsideServes ==
  ASSUME IInv, IInv', Serving, NEW t \in Threads, NEW n \in Nets, Aside(t, n), Knows(t)', Clean', Follows',
         th'[t].pc \in {"moveIf", "delIf"} => vnic[th'[t].edge][th'[t].slot] # NoNet,
         n \in nets' => \A e \in Edges, k \in Slots : iface'[e][k].net = n => iface'[e][k].ips \subseteq Held(n)',
         \A m \in Nets \ {n} : (row'[n].edge = row[m].edge /\ row[m].edge # NoEdge)
           => ~Clash(Held(m), Held(n)') /\ ~Clash(Held(n)', Held(m)),
         n \in nets' => (th'[t].n = n /\ th'[t].pc # "delPool") \/ Rested(n)'
  PROVE  Serving'
  <1>1. Types' /\ nets' \subseteq Nets /\ nets \subseteq Nets
    BY DEF IInv, Types, TypeOK
  <1>2. \A u \in Threads : Knows(u)'
    BY KnowsAside DEF Serving
  <1>3. \A m \in Nets \ {n} : Held(m)' = Held(m) /\ Addresses(m)' = Addresses(m) /\ row'[m] = row[m]
    BY <1>1, HeldAside DEF Aside
  <1>4. Holds'
    <2>1. ASSUME NEW e \in Edges, NEW k \in Slots, NEW m \in nets', iface'[e][k].net = m, m # n
          PROVE  iface'[e][k].ips \subseteq Held(m)'
      <3>1. m \in nets \ {n} /\ iface'[e][k] = iface[e][k]
        BY <2>1 DEF Aside
      <3> QED  BY <1>1, <1>3, <2>1, <3>1 DEF Serving, Holds
    <2> QED  BY <2>1 DEF Holds
  <1>5. HeldApart'
    <2>1. ASSUME NEW m \in Nets, NEW c \in Nets, m # c, row'[m].edge = row'[c].edge, row'[c].edge # NoEdge
          PROVE  ~Clash(Held(c)', Held(m)')
      <3>1. CASE m # n /\ c # n
        BY <1>3, <2>1, <3>1 DEF Serving, HeldApart
      <3>2. CASE m = n \/ c = n
        BY <1>3, <2>1, <3>2
      <3> QED  BY <3>1, <3>2
    <2> QED  BY <2>1 DEF HeldApart, Clash
  <1>6. Resting'
    <2>1. ASSUME NEW m \in nets', m # n, \A u \in Threads : th'[u].n = m => th'[u].pc = "delPool"
          PROVE  Rested(m)'
      <3>1. m \in nets \ {n} /\ m \in Nets /\ m # NoNet
        BY <1>1, <2>1, DhcpAssumption DEF Aside
      <3>2. \A u \in Threads : th[u].n = m => th[u].pc = "delPool"
        BY <2>1, <3>1 DEF Aside
      <3>3. Rested(m)
        BY <3>1, <3>2 DEF Serving, Resting
      <3>4. row'[m] = row[m] /\ Addresses(m)' = Addresses(m) /\ (DhcpOn(m)' <=> DhcpOn(m))
        BY <1>3, <3>1 DEF DhcpOn
      <3>5. CASE row[m] = NoRow /\ ~DhcpOn(m)
        BY <3>4, <3>5 DEF Rested
      <3>6. ASSUME NEW e \in Edges, NEW k \in Slots, row[m].edge = e, vnic[e][k] = m, iface[e][k].net = m,
                   iface[e][k].ips = Addresses(m)
            PROVE  Rested(m)'
        <4>1. vnic'[e][k] = m /\ iface'[e][k] = iface[e][k]
          BY <3>1, <3>6 DEF Aside
        <4> QED  BY <3>4, <3>6, <4>1 DEF Rested
      <3> QED  BY <3>3, <3>5, <3>6 DEF Rested
    <2>2. ASSUME n \in nets', \A u \in Threads : th'[u].n = n => th'[u].pc = "delPool" PROVE Rested(n)'
      BY <2>2
    <2> QED  BY <2>1, <2>2 DEF Resting
  <1>7. FreedApart'
    <2>1. ASSUME NEW u \in Threads \ {t}, {th'[t].pc, th'[u].pc} \subseteq {"moveIf", "delIf"},
                 th'[t].edge = th'[u].edge, th'[t].slot = th'[u].slot
          PROVE  FALSE
      <3>1. th'[u] = th[u] /\ HasPlace(u)
        BY DEF Aside, Serving, Knows
      <3>2. vnic[th[u].edge][th[u].slot] = NoNet
        BY <2>1, <3>1 DEF HasPlace
      <3> QED  BY <2>1, <3>1, <3>2
    <2>2. ASSUME NEW u \in Threads \ {t}, NEW v \in Threads \ {t},
                 {th'[v].pc, th'[u].pc} \subseteq {"moveIf", "delIf"}, th'[v].edge = th'[u].edge, th'[v].slot = th'[u].slot
          PROVE  u = v
      BY <2>2 DEF Aside, Serving, FreedApart
    <2> QED  BY <2>1, <2>2 DEF FreedApart
  <1> QED  BY <1>2, <1>4, <1>5, <1>6, <1>7 DEF Serving

\* Nobody else works on the network of a request.
LEMMA OneRequest ==
  ASSUME IInv, NEW t \in Threads, th[t].pc \notin {"idle", "job", "jobPool", "jobSync"}
  PROVE  \A u \in Threads \ {t} : th[u].n # th[t].n
  BY AtWork DEF IInv, Exclusive

\* A network whose service is not being removed has its sub-interface in its slot.
LEMMA OnlyIface ==
  ASSUME IInv, Serving, NEW n \in nets, NEW e \in Edges, NEW k \in Slots, iface[e][k].net = n,
         \A u \in Threads : th[u].n = n => th[u].pc \notin {"moveIf", "delIf"}
  PROVE  vnic[e][k] = n /\ row[n].edge = e
         /\ \A d \in Edges, j \in Slots : (vnic[d][j] = n \/ iface[d][j].net = n) => d = e /\ j = k
  <1>1. n # NoNet /\ \A d \in Edges, j \in Slots : ~Freed(d, j, n)
    BY DhcpAssumption DEF IInv, Types, TypeOK, Freed
  <1>2. \A d \in Edges, j \in Slots : iface[d][j].net = n => vnic[d][j] = n
    BY <1>1 DEF Serving, Follows
  <1>3. \A d \in Edges, j \in Slots : vnic[d][j] = n => row[n].edge = d /\ \A i \in Slots : vnic[d][i] = n => i = j
    BY DEF IInv, OneSlot
  <1> QED  BY <1>2, <1>3

\* Overlapping is mutual.
LEMMA ClashMutual == ASSUME NEW a, NEW b, Clash(a, b) PROVE Clash(b, a)
  <1>1. PICK s \in a, q \in b : {s, q} \in Overlap
    BY DEF Clash
  <1>2. {q, s} = {s, q}
    OBVIOUS
  <1> QED  BY <1>1, <1>2 DEF Clash

\* A step that leaves the edges.
LEMMA StillServes ==
  ASSUME IInv, IInv', Serving, NEW t \in Threads, NEW n \in Nets, n \in nets, th[t].n \in {n, NoNet}, th'[t].n \in {n, NoNet},
         \A u \in Threads \ {t} : th'[u] = th[u] /\ th[u].n # n, UNCHANGED edgeVars,
         nets' \subseteq nets, nets \subseteq nets' \cup {n}, \A s \in Subnets : NetOf[s] # n => subnet'[s] = subnet[s],
         {th[t].pc, th'[t].pc} \cap {"moveIf", "delIf"} = {}, Knows(t)',
         n \in nets' => Held(n) \subseteq Held(n)'
                        \/ \A e \in Edges, k \in Slots : iface[e][k].net = n => iface[e][k].ips \subseteq Held(n)',
         Held(n)' \subseteq Held(n)
           \/ (/\ lock[Pool] \in {t, NoThread}
               /\ \A m \in Nets \ {n} : (row[n].edge = row[m].edge /\ row[m].edge # NoEdge) => ~Clash(Held(m), Held(n)')),
         n \in nets' => (th'[t].n = n /\ th'[t].pc # "delPool") \/ Rested(n)'
  PROVE  Serving'
  <1>1. UNCHANGED <<row, vnic, iface, free>>
    BY DEF edgeVars
  <1>2. Aside(t, n)
    BY <1>1 DEF Aside
  <1>3. Clean'
    BY <1>1 DEF Clean, Serving
  <1>4. Follows'
    <2>1. \A e, k, m : Freed(e, k, m) => Freed(e, k, m)'
      BY DEF Freed
    <2> QED  BY <1>1, <2>1 DEF Serving, Follows
  <1>5. n \in nets' => \A e \in Edges, k \in Slots : iface'[e][k].net = n => iface'[e][k].ips \subseteq Held(n)'
    BY <1>1 DEF Serving, Holds
  <1>6. ASSUME NEW m \in Nets \ {n}, row[n].edge = row[m].edge, row[m].edge # NoEdge
        PROVE  ~Clash(Held(m), Held(n)') /\ ~Clash(Held(n)', Held(m))
    <2>1. ~Clash(Held(m), Held(n)')
      <3>1. Held(n)' \subseteq Held(n) => ~Clash(Held(m), Held(n)')
        BY <1>6 DEF Serving, HeldApart, Clash
      <3> QED  BY <1>6, <3>1
    <2> QED  BY <2>1, ClashMutual
  <1> QED  BY <1>1, <1>2, <1>3, <1>4, <1>5, <1>6, AsideServes

\* A request goes on, with the same subnets and addresses.
LEMMA GoesOnServes ==
  ASSUME IInv, IInv', Serving, NEW t \in Threads, th[t].pc \notin {"idle", "job", "jobPool", "jobSync"},
         UNCHANGED <<dbVars, edgeVars>>, \A u \in Threads \ {t} : th'[u] = th[u],
         th'[t].n = th[t].n, th'[t].op = th[t].op, th'[t].s = th[t].s, th'[t].pc # "delPool",
         {th[t].pc, th'[t].pc} \cap {"moveIf", "delIf"} = {}, Knows(t)',
         th[t].op = "create" => (Unsettled(t)' <=> Unsettled(t)),
         th[t].op = "delete" => (th'[t].pc \in GoingLabels <=> th[t].pc \in GoingLabels)
  PROVE  Serving'
  <1>1. PICK n \in Nets : n = th[t].n /\ n \in nets
    BY AtWork
  <1>2. \A u \in Threads \ {t} : th'[u] = th[u] /\ th[u].n # n
    BY <1>1, OneRequest
  <1>3. Types /\ Types'
    BY DEF IInv
  <1>4. Held(n)' = Held(n)
    <2>1. \A s \in Subnets : s \in Held(n)' <=> s \in Held(n)
      BY <1>2, <1>3, HeldOf, HeldNext DEF dbVars
    <2> QED  BY <2>1 DEF Held
  <1> QED  BY <1>1, <1>2, <1>4, StillServes DEF dbVars

\* What a network that nobody works on is.
LEMMA RestedNet ==
  ASSUME IInv, Serving, NEW n \in nets, Rested(n) PROVE (row[n] = NoRow /\ ~DhcpOn(n)) \/ (row[n] # NoRow /\ Placed(n))
  BY NoRowType, DhcpAssumption DEF Rested, Placed

\* A request begins on a network that nobody works on.
LEMMA BeginServes ==
  ASSUME ~Races, IInv, IInv', Serving, NEW t \in Threads, NEW op, op \notin {"none", "job"}, NEW s, NEW n \in nets,
         NEW label \in {"read", "delPool", "update", "delRead", "enable", "delNet"}, Begin(t, op, s, n, label),
         UNCHANGED <<nets, edgeVars>>, \A q \in Subnets : NetOf[q] # n => subnet'[q] = subnet[q],
         \A q \in Subnets : (NetOf[q] = n /\ ~(label = "read" /\ s = q)) => (subnet'[q] = "none" <=> subnet[q] = "none"),
         label = "read" => op = "create" /\ subnet[s] = "none" /\ (row[n] = NoRow \/ Placed(n)),
         label = "delPool" => UNCHANGED subnet,
         label # "delPool" => op # "delete",
         label = "enable" => row[n] = NoRow,
         label = "update" => Placed(n),
         (label = "delRead" /\ op # "delnet") => Placed(n) /\ ~DhcpOn(n)'
  PROVE  Serving'
  <1>1. Types /\ Types' /\ th[t] = Idle /\ n \in Nets /\ n # NoNet
    BY DhcpAssumption DEF Begin, IInv, Types, TypeOK
  <1>2. \A u \in Threads : th[u].n # n
    BY DEF Begin
  <1> DEFINE r == [Idle EXCEPT !.pc = label, !.op = op, !.s = s, !.n = n]
  <1>3. th' = [th EXCEPT ![t] = r]
    BY DEF Begin
  <1>4. r.pc = label /\ r.op = op /\ r.n = n /\ r.s = s /\ ~r.bad
    BY DEF Idle
  <1> HIDE DEF r
  <1>5. th'[t].pc = label /\ th'[t].op = op /\ th'[t].n = n /\ th'[t].s = s /\ ~th'[t].bad
        /\ \A u \in Threads \ {t} : th'[u] = th[u]
    BY <1>1, <1>3, <1>4 DEF Types
  <1>6. th[t].pc = "idle" /\ th[t].op = "none" /\ th[t].n = NoNet
    BY <1>1, IdleSound
  <1>7. UNCHANGED <<row, vnic, iface, free>>
    BY DEF edgeVars
  <1>8. Placed(n) => Placed(n)'
    BY <1>7 DEF Placed
  <1>9. HasPlace(t)'
    BY <1>5, <1>7, <1>8 DEF HasPlace
  <1>10. Knows(t)'
    BY <1>5, <1>9 DEF Knows, HasRoom, Choosable
  <1>11. Held(n)' = Held(n)
    <2>1. \A q \in Subnets : q \in Held(n) <=> NetOf[q] = n /\ subnet[q] # "none"
      BY <1>1, <1>2, <1>6, HeldOf
    <2>2. \A q \in Subnets : q \in Held(n)' <=> NetOf[q] = n /\ subnet'[q] # "none" /\ ~(label = "read" /\ q = s)
      <3>1. label = "read" => Unsettled(t)'
        BY <1>5 DEF Unsettled
      <3>2. op = "create" => label = "read" \/ ~Unsettled(t)'
        BY <1>5 DEF Unsettled
      <3>3. op = "delete" => th'[t].pc \notin GoingLabels
        BY <1>5 DEF GoingLabels
      <3> QED  BY <1>1, <1>2, <1>5, <3>1, <3>2, <3>3, HeldNext
    <2>3. \A q \in Subnets : q \in Held(n)' <=> q \in Held(n)
      BY <2>1, <2>2
    <2> QED  BY <2>3 DEF Held
  <1>12. label = "delPool" => Rested(n)'
    <2>1. Rested(n)
      BY <1>2 DEF Serving, Resting
    <2>2. UNCHANGED subnet => Addresses(n)' = Addresses(n) /\ (DhcpOn(n)' <=> DhcpOn(n))
      BY DEF Addresses, SubnetsOf, DhcpOn
    <2> QED  BY <1>7, <2>1, <2>2 DEF Rested
  <1> QED  BY <1>1, <1>2, <1>5, <1>6, <1>10, <1>11, <1>12, StillServes

\* create_subnet begins.
LEMMA StartCreateServes ==
  ASSUME ~Races, IInv, IInv', Serving, NEW t \in Threads, NEW s \in Subnets, StartCreate(t, s) PROVE Serving'
  <1> DEFINE n == NetOf[s]
  <1>1. n \in nets /\ subnet[s] = "none" /\ Begin(t, "create", s, n, "read")
        /\ subnet' = [subnet EXCEPT ![s] = "on"] /\ UNCHANGED <<nets, edgeVars, faults>>
    BY DEF StartCreate
  <1>2. subnet \in [Subnets -> {"none", "on", "off"}] /\ \A u \in Threads : th[u].n # n
    BY <1>1 DEF IInv, Types, TypeOK, Begin
  <1>3. \A q \in Subnets \ {s} : subnet'[q] = subnet[q]
    BY <1>1, <1>2
  <1>4. row[n] = NoRow \/ Placed(n)
    <2>1. Rested(n)
      BY <1>1, <1>2 DEF Serving, Resting
    <2> QED  BY <1>1, <2>1, RestedNet
  <1> HIDE DEF n
  <1>5. \A q \in Subnets : NetOf[q] # n => subnet'[q] = subnet[q]
    BY <1>3 DEF n
  <1> QED  BY <1>1, <1>3, <1>4, <1>5, BeginServes

\* delete_subnet begins.
LEMMA StartDeleteServes ==
  ASSUME ~Races, IInv, IInv', Serving, NEW t \in Threads, NEW s \in Subnets, StartDelete(t, s) PROVE Serving'
  <1> DEFINE n == NetOf[s]
  <1>1. subnet[s] # "none" /\ Begin(t, "delete", s, n, "delPool") /\ UNCHANGED <<nets, subnet, edgeVars>>
    BY DEF StartDelete, dbVars
  <1>2. n \in nets
    BY <1>1, NetLives
  <1> HIDE DEF n
  <1> QED  BY <1>1, <1>2, BeginServes

\* update_subnet disables DHCP.
LEMMA StartDisableServes ==
  ASSUME ~Races, IInv, IInv', Serving, NEW t \in Threads, NEW s \in Subnets, StartDisable(t, s) PROVE Serving'
  <1> DEFINE n == NetOf[s]
             label == IF \E q \in SubnetsOf(NetOf[s]) \ {s} : subnet[q] = "on" THEN "update" ELSE "delRead"
  <1>1. /\ subnet[s] = "on" /\ subnet' = [subnet EXCEPT ![s] = "off"] /\ Begin(t, "disable", s, n, label)
        /\ UNCHANGED <<nets, edgeVars, lock, faults>>
    BY DEF StartDisable
  <1>2. n \in nets /\ subnet \in [Subnets -> {"none", "on", "off"}] /\ \A u \in Threads : th[u].n # n
    BY <1>1, NetLives DEF IInv, Types, TypeOK, Begin
  <1>3. subnet'[s] = "off" /\ \A q \in Subnets \ {s} : subnet'[q] = subnet[q]
    BY <1>1, <1>2
  <1>4. Placed(n)
    <2>1. Rested(n)
      BY <1>2 DEF Serving, Resting
    <2>2. DhcpOn(n)
      BY <1>1 DEF DhcpOn, Addresses, SubnetsOf
    <2> QED  BY <1>2, <2>1, <2>2, RestedNet
  <1>5. label = "delRead" => ~DhcpOn(n)'
    BY <1>3 DEF DhcpOn, Addresses, SubnetsOf
  <1>6. label \in {"update", "delRead"}
    OBVIOUS
  <1>7. \A q \in Subnets : (NetOf[q] # n => subnet'[q] = subnet[q]) /\ (subnet'[q] = "none" <=> subnet[q] = "none")
    BY <1>1, <1>3
  <1>8. label = "delRead" => Placed(n) /\ ~DhcpOn(n)'
    BY <1>4, <1>5
  <1> HIDE DEF n, label
  <1> QED  BY <1>1, <1>2, <1>4, <1>6, <1>7, <1>8, BeginServes

\* update_subnet enables DHCP.
LEMMA StartEnableServes ==
  ASSUME ~Races, IInv, IInv', Serving, NEW t \in Threads, NEW s \in Subnets, StartEnable(t, s) PROVE Serving'
  <1> DEFINE n == NetOf[s]
             label == IF row[NetOf[s]] = NoRow THEN "enable" ELSE "update"
  <1>1. /\ subnet[s] = "off" /\ subnet' = [subnet EXCEPT ![s] = "on"] /\ Begin(t, "enable", s, n, label)
        /\ UNCHANGED <<nets, edgeVars, lock, faults>>
    BY DEF StartEnable
  <1>2. n \in nets /\ subnet \in [Subnets -> {"none", "on", "off"}] /\ \A u \in Threads : th[u].n # n
    BY <1>1, NetLives DEF IInv, Types, TypeOK, Begin
  <1>3. subnet'[s] = "on" /\ \A q \in Subnets \ {s} : subnet'[q] = subnet[q]
    BY <1>1, <1>2
  <1>4. label = "update" => Placed(n)
    <2>1. Rested(n)
      BY <1>2 DEF Serving, Resting
    <2> QED  BY <1>2, <2>1, RestedNet
  <1>5. label \in {"update", "enable"} /\ (label = "enable" => row[n] = NoRow)
    OBVIOUS
  <1>6. \A q \in Subnets : (NetOf[q] # n => subnet'[q] = subnet[q]) /\ (subnet'[q] = "none" <=> subnet[q] = "none")
    BY <1>1, <1>3
  <1> HIDE DEF n, label
  <1> QED  BY <1>1, <1>2, <1>4, <1>5, <1>6, BeginServes

\* update_port begins.
LEMMA StartPortServes ==
  ASSUME ~Races, IInv, IInv', Serving, NEW t \in Threads, NEW n \in Nets, StartPort(t, n) PROVE Serving'
  <1>1. DhcpOn(n) /\ Begin(t, "port", NoSubnet, n, "update") /\ UNCHANGED <<nets, subnet, edgeVars>>
    BY DEF StartPort, dbVars
  <1>2. n \in nets /\ \A u \in Threads : th[u].n # n
    <2>1. \E s \in Subnets : NetOf[s] = n /\ subnet[s] # "none"
      BY <1>1 DEF DhcpOn, Addresses, SubnetsOf
    <2> QED  BY <1>1, <2>1, NetLives DEF Begin
  <1>3. Placed(n)
    <2>1. Rested(n)
      BY <1>2 DEF Serving, Resting
    <2> QED  BY <1>1, <1>2, <2>1, RestedNet
  <1> QED  BY <1>1, <1>2, <1>3, BeginServes

\* delete_network begins.
LEMMA StartDeleteNetServes ==
  ASSUME ~Races, IInv, IInv', Serving, NEW t \in Threads, NEW n \in Nets, StartDeleteNet(t, n) PROVE Serving'
  <1> DEFINE label == IF DhcpOn(n) THEN "delRead" ELSE "delNet"
  <1>1. /\ n \in nets /\ Begin(t, "delnet", NoSubnet, n, label) /\ UNCHANGED <<nets, subnet, edgeVars>>
    BY DEF StartDeleteNet, dbVars
  <1>2. label \in {"delNet", "delRead"}
    OBVIOUS
  <1> HIDE DEF label
  <1> QED  BY <1>1, <1>2, BeginServes

\* What a request knows at the labels without a choice.
LEMMA NoRoom == ASSUME NEW t \in Threads, th'[t].pc \notin Choosable \cup {"slot"} PROVE HasRoom(t)'
  BY DEF HasRoom

\* create_dhcp_edge_service reads the row.
LEMMA ReadRowServes == ASSUME IInv, IInv', faults = 0, Serving, NEW t \in Threads, ReadRow(t) PROVE Serving'
  <1>1. th[t].pc = "read" /\ UNCHANGED <<dbVars, edgeVars>>
    BY DEF ReadRow, At
  <1>2. /\ Types /\ th[t] \in Record /\ th[t].op \in OpsAt("read") /\ th[t].n \in Nets /\ HasPlace(t)
    BY <1>1, AtWork DEF Serving, Knows
  <1> DEFINE r == [th[t] EXCEPT !.pc = "pool", !.edge = row[th[t].n].edge, !.bad = (row[th[t].n].status = "ERROR")]
  <1>3. th' = [th EXCEPT ![t] = r]
    BY <1>2 DEF ReadRow, Types
  <1>4. r.pc = "pool" /\ r.n = th[t].n /\ r.op = th[t].op /\ r.s = th[t].s /\ r.bad = (row[th[t].n].status = "ERROR")
    BY <1>2 DEF Record
  <1> HIDE DEF r
  <1>5. th'[t] = r /\ \A u \in Threads \ {t} : th'[u] = th[u]
    BY <1>2, <1>3 DEF Types
  <1>6. ~th'[t].bad
    BY <1>2, <1>4, <1>5 DEF IInv, Healthy
  <1>7. th[t].op \in {"create", "enable"}
    BY <1>2, Table
  <1>8. HasPlace(t)'
    <2>1. row[th[t].n] = NoRow \/ Placed(th[t].n)
      BY <1>1, <1>2 DEF HasPlace
    <2>2. row'[th'[t].n] = NoRow \/ Placed(th[t].n)'
      BY <1>1, <1>4, <1>5, <2>1 DEF Placed, edgeVars
    <2> QED  BY <1>4, <1>5, <2>2 DEF HasPlace
  <1>9. Knows(t)'
    BY <1>4, <1>5, <1>6, <1>7, <1>8, NoRoom DEF Knows, Choosable
  <1>10. Unsettled(t)' /\ Unsettled(t)
    BY <1>1, <1>4, <1>5 DEF Unsettled
  <1> QED  BY <1>1, <1>4, <1>5, <1>7, <1>9, <1>10, GoesOnServes

\* An edge that may be chosen has a free slot and no overlapping addresses.
LEMMA Available ==
  ASSUME IInv, faults = 0, NEW n \in Nets, NEW e \in ActiveEdges \ ConflictEdges(n)
  PROVE  e \in Edges /\ FreeSlots(e) # {} /\ \A m \in Nets \ {n} : row[m].edge = e => m \notin Conflicting(n)
  <1>1. e \in Edges
    BY NoRowType DEF ActiveEdges, Active, IInv, Types, TypeOK, Rows
  <1>2. FreeSlots(e) # {}
    <2>1. ~(Cardinality(FreeSlots(e)) <= Reserve)
      BY DEF ConflictEdges
    <2>2. CASE FreeSlots(e) = {}
      BY <2>1, <2>2, FS_EmptySet, DhcpAssumption
    <2> QED  BY <2>2
  <1>3. ASSUME NEW m \in Nets \ {n}, row[m].edge = e, m \in Conflicting(n) PROVE FALSE
    BY <1>1, <1>3, ConflictFound, DhcpAssumption
  <1> QED  BY <1>1, <1>2, <1>3

\* Nobody's subnet is being deleted while the pool is free.
LEMMA HeldFree ==
  ASSUME IInv, lock[Pool] = NoThread, NEW m \in Nets
  PROVE  Held(m) \subseteq SubnetsOf(m)
  <1>1. \A s : ~Going(s)
    BY DhcpAssumption DEF Going, GoingLabels, IInv, Locked, UnderPool
  <1> QED  BY <1>1 DEF Held, SubnetsOf

\* create_dhcp_edge_service looks for conflicts under the lock of the pool: from here on the
\* addresses of a new subnet count, at the edge where the network stays.
LEMMA LockPoolServes ==
  ASSUME IInv, IInv', faults = 0, Serving, NEW t \in Threads, LockPool(t) PROVE Serving'
  <1>1. th[t].pc = "pool" /\ lock[Pool] = NoThread /\ UNCHANGED <<dbVars, edgeVars>>
    BY DEF LockPool, At, Can
  <1>2. /\ Types /\ Types' /\ th[t] \in Record /\ th[t].op \in OpsAt("pool") /\ HasRow(t) /\ HasPlace(t) /\ ~th[t].bad
    BY <1>1, AtWork DEF Serving, Knows, IInv
  <1>3. PICK n \in Nets : n = th[t].n /\ n \in nets
    BY <1>1, AtWork
  <1> DEFINE conf == ConflictEdges(n)
             avail == ActiveEdges \ conf
             label == IF th[t].edge = NoEdge THEN "select" ELSE "stay"
             r == [th[t] EXCEPT !.pc = label, !.conf = conf, !.avail = avail]
  <1>4. th' = [th EXCEPT ![t] = r]
    BY <1>2, <1>3 DEF LockPool, Types
  <1>5. r.pc = label /\ r.n = n /\ r.op = th[t].op /\ r.s = th[t].s /\ r.edge = th[t].edge /\ r.bad = th[t].bad
        /\ r.conf = conf /\ r.avail = avail
    <2> HIDE DEF conf, avail, label
    <2> QED  BY <1>2, <1>3 DEF Record
  <1>6. th'[t] = r /\ \A u \in Threads \ {t} : th'[u] = th[u]
    <2> HIDE DEF r
    <2> QED  BY <1>2, <1>4 DEF Types
  <1>7. \A u \in Threads \ {t} : th'[u] = th[u] /\ th[u].n # n
    BY <1>1, <1>3, <1>6, OneRequest
  <1>8. row[n].edge = th[t].edge /\ th[t].op \in {"create", "enable"}
    BY <1>1, <1>2, <1>3, Table DEF HasRow
  <1>9. label \in {"select", "stay"} /\ (label = "stay" => row[n].edge # NoEdge)
    BY <1>8
  <1>10. \A e \in avail : FreeSlots(e) # {} /\ \A m \in Nets \ {n} : row[m].edge = e => m \notin Conflicting(n)
    BY Available
  <1>11. UNCHANGED <<nets, subnet, row, vnic, iface>>
    BY <1>1 DEF dbVars, edgeVars
  <1> HIDE DEF r
  <1>12. HasPlace(t)'
    <2>1. row[n] = NoRow \/ Placed(n)
      BY <1>1, <1>2, <1>3 DEF HasPlace
    <2>2. row'[n] = NoRow \/ Placed(n)'
      BY <1>11, <2>1 DEF Placed
    <2> HIDE DEF label
    <2> QED  BY <1>5, <1>6, <1>9, <2>2 DEF HasPlace
  <1>13. \A s \in Subnets : (s \in Held(n) => s \in Held(n)') /\ (s \in Held(n)' => s \in SubnetsOf(n))
    <2>1. \A s \in Subnets : s \in Held(n) => NetOf[s] = n /\ subnet[s] # "none"
      BY <1>1, <1>2, <1>3, <1>7, <1>8, HeldOf
    <2>2. \A s \in Subnets : s \in Held(n) => ~(th[t].op = "create" /\ th[t].s = s)
      BY <1>1, <1>2, <1>7, <1>8, HeldOf DEF Unsettled
    <2>3. th'[t].op = th[t].op /\ th'[t].s = th[t].s
      BY <1>5, <1>6
    <2>4. \A s \in Subnets : s \in Held(n)' <=>
           NetOf[s] = n /\ \/ subnet'[s] # "none" /\ ~(th'[t].op = "create" /\ th'[t].s = s /\ Unsettled(t)')
                           \/ th'[t].op = "delete" /\ th'[t].s = s /\ th'[t].pc \in GoingLabels
      BY <1>2, <1>7, HeldNext
    <2> QED  BY <1>8, <1>11, <2>1, <2>2, <2>3, <2>4 DEF SubnetsOf
  <1>14. \A m \in Nets : Held(m) \subseteq SubnetsOf(m)
    BY <1>1, HeldFree
  <1>15. \A m \in Nets \ {n} : Held(m)' = Held(m) /\ SubnetsOf(n)' = SubnetsOf(n)
    <2>1. Aside(t, n)
      BY <1>1, <1>3, <1>5, <1>6, <1>7, <1>11 DEF Aside
    <2>2. SubnetsOf(n)' = SubnetsOf(n)
      BY <1>11 DEF SubnetsOf
    <2> QED  BY <1>2, <2>1, <2>2, HeldAside
  <1>16. \A m \in Nets \ {n} : m \notin Conflicting(n) => ~Clash(SubnetsOf(n), Held(m))
    BY <1>14 DEF Conflicting, Clash
  <1>17. HasRoom(t)'
    <2>1. ASSUME NEW e \in avail PROVE FreeSlots(e)' # {}
      BY <1>10, <1>11, <2>1 DEF FreeSlots, SlotsOf
    <2>2. ASSUME NEW m \in Nets \ {n}, row[m].edge \in avail PROVE ~Clash(SubnetsOf(n), Held(m))
      BY <1>10, <1>16, <2>2
    <2>3. ASSUME NEW m \in Nets \ {n}, row'[m].edge \in avail PROVE ~Clash(SubnetsOf(n), Held(m))'
      BY <1>11, <1>15, <2>2, <2>3 DEF Clash
    <2>4. th'[t].avail = avail /\ th'[t].n = n /\ th'[t].pc # "slot"
      BY <1>5, <1>6, <1>9
    <2> HIDE DEF avail
    <2> QED  BY <2>1, <2>3, <2>4 DEF HasRoom, Clash
  <1>18. Knows(t)'
    BY <1>2, <1>5, <1>6, <1>8, <1>12, <1>17 DEF Knows
  <1>19. Held(n)' \subseteq Held(n)
           \/ \A m \in Nets \ {n} : (row[n].edge = row[m].edge /\ row[m].edge # NoEdge) => ~Clash(Held(m), Held(n)')
    <2>1. CASE row[n].edge \in conf
      <3>1. ASSUME row[n].edge # NoEdge PROVE Unsettled(t)'
        BY <1>5, <1>6, <1>8, <2>1, <3>1 DEF Unsettled, MustMove
      <3>2. CASE row[n].edge # NoEdge
        <4>1. \A s \in Subnets : s \in Held(n)' => s \in Held(n)
          <5>1. Unsettled(t) /\ Unsettled(t)' /\ th'[t].op = th[t].op /\ th'[t].s = th[t].s
            BY <1>1, <1>5, <1>6, <3>1, <3>2 DEF Unsettled
          <5> QED  BY <1>2, <1>7, <1>8, <1>11, <5>1, HeldOf, HeldNext
        <4> QED  BY <4>1 DEF Held
      <3> QED  BY <3>2
    <2>2. CASE row[n].edge \notin conf
      <3>1. ASSUME NEW m \in Nets \ {n}, row[n].edge = row[m].edge, row[m].edge # NoEdge
            PROVE  ~Clash(Held(m), Held(n)')
        <4>1. m \notin Conflicting(n)
          BY <2>2, <3>1, ConflictFound
        <4>2. ~Clash(SubnetsOf(n), Held(m))
          BY <1>16, <4>1
        <4>3. Held(n)' \subseteq SubnetsOf(n)
          BY <1>13 DEF Held
        <4>4. ~Clash(Held(n)', Held(m))
          BY <4>2, <4>3 DEF Clash
        <4> QED  BY <4>4, ClashMutual
      <3> QED  BY <3>1
    <2> QED  BY <2>1, <2>2
  <1>20. Held(n) \subseteq Held(n)'
    BY <1>13 DEF Held
  <1>21. th'[t].n = n /\ th'[t].pc \in {"select", "stay"}
    BY <1>5, <1>6, <1>9
  <1> HIDE DEF conf, avail, label
  <1> QED  BY <1>1, <1>3, <1>7, <1>11, <1>18, <1>19, <1>20, <1>21, StillServes

\* A network stays at an edge where it has its slot.
LEMMA StayServes == ASSUME IInv, IInv', Serving, NEW t \in Threads, Stay(t) PROVE Serving'
  <1>1. th[t].pc = "stay" /\ UNCHANGED <<dbVars, edgeVars>> /\ ~MustMove(t) /\ Goto(t, "update")
    BY DEF Stay, At
  <1>2. /\ Types /\ th[t].op \in OpsAt("stay") /\ HasRow(t) /\ Sound(th[t]) /\ HasPlace(t) /\ Knows(t)
    BY <1>1, AtWork DEF Serving, Knows
  <1>3. th'[t].pc = "update" /\ th'[t].op = th[t].op /\ th'[t].n = th[t].n /\ th'[t].s = th[t].s /\ th'[t].bad = th[t].bad
        /\ \A u \in Threads \ {t} : th'[u] = th[u]
    BY <1>1, <1>2, GotoIs
  <1>4. Placed(th[t].n)
    <2>1. row[th[t].n].edge \in Edges
      BY <1>1, <1>2 DEF HasRow, Sound, EdgeLabels
    <2> QED  BY <1>1, <1>2, <2>1, NoRowType, DhcpAssumption DEF HasPlace
  <1>5. HasPlace(t)'
    BY <1>1, <1>3, <1>4 DEF HasPlace, Placed, edgeVars
  <1>6. Knows(t)'
    BY <1>2, <1>3, <1>5, NoRoom DEF Knows, Choosable
  <1>7. ~Unsettled(t)' /\ ~Unsettled(t) /\ th[t].op \in {"create", "enable"}
    BY <1>1, <1>2, <1>3, Table DEF Unsettled, Choice
  <1> QED  BY <1>1, <1>3, <1>6, <1>7, GoesOnServes

\* The slot that is found is free.
LEMMA FindSlotServes == ASSUME IInv, IInv', Serving, NEW t \in Threads, FindSlot(t) PROVE Serving'
  <1>1. th[t].pc = "slot" /\ UNCHANGED <<nets, edgeVars>>
    BY DEF FindSlot, At
  <1>2. /\ Types /\ th[t] \in Record /\ th[t].op \in OpsAt("slot") /\ HasRoom(t) /\ Knows(t)
    BY <1>1, AtWork DEF Serving, Knows
  <1>3. FreeSlots(th[t].edge) # {}
    BY <1>1, <1>2 DEF HasRoom
  <1>4. PICK k \in FreeSlots(th[t].edge) : th' = [th EXCEPT ![t].pc = "setSlot", ![t].slot = k] /\ UNCHANGED subnet
    BY <1>3 DEF FindSlot
  <1> DEFINE r == [th[t] EXCEPT !.pc = "setSlot", !.slot = k]
  <1>5. th' = [th EXCEPT ![t] = r] /\ r.pc = "setSlot" /\ r.n = th[t].n /\ r.op = th[t].op /\ r.s = th[t].s
        /\ r.bad = th[t].bad
    BY <1>2, <1>4 DEF Types, Record
  <1> HIDE DEF r
  <1>6. th'[t] = r /\ \A u \in Threads \ {t} : th'[u] = th[u]
    BY <1>2, <1>5 DEF Types
  <1>7. Knows(t)'
    BY <1>2, <1>5, <1>6, NoRoom DEF Knows, HasPlace, Choosable
  <1>8. ~Unsettled(t)' /\ ~Unsettled(t) /\ th[t].op \in {"create", "enable"}
    BY <1>1, <1>2, <1>5, <1>6, Table DEF Unsettled, Choice
  <1>9. UNCHANGED <<dbVars, edgeVars>>
    BY <1>1, <1>4 DEF dbVars
  <1> QED  BY <1>1, <1>5, <1>6, <1>7, <1>8, <1>9, GoesOnServes

\* _update_dhcp_address finds the slot.
LEMMA UpdateServes == ASSUME IInv, IInv', Serving, NEW t \in Threads, Update(t) PROVE Serving'
  <1>1. th[t].pc = "update" /\ UNCHANGED <<dbVars, edgeVars>>
    BY DEF Update, At
  <1>2. /\ Types /\ th[t] \in Record /\ HasPlace(t) /\ Knows(t)
    BY <1>1, AtWork DEF Serving, Knows
  <1>3. PICK n \in Nets : n = th[t].n
    BY <1>1, AtWork
  <1>4. Placed(n) /\ SlotsOf(row[n].edge, n) # {}
    <2>1. Placed(n)
      BY <1>1, <1>2, <1>3 DEF HasPlace
    <2> QED  BY <2>1, DhcpAssumption DEF Placed, SlotsOf
  <1> DEFINE e == row[n].edge  ips == Addresses(n)
  <1>5. PICK k \in SlotsOf(e, n) : th' = [th EXCEPT ![t].pc = "updateIf", ![t].edge = e, ![t].slot = k, ![t].ips = ips]
    BY <1>3, <1>4 DEF Update
  <1> DEFINE r == [th[t] EXCEPT !.pc = "updateIf", !.edge = e, !.slot = k, !.ips = ips]
  <1>6. th' = [th EXCEPT ![t] = r]
    BY <1>2, <1>5 DEF Types
  <1>7. r.pc = "updateIf" /\ r.n = n /\ r.op = th[t].op /\ r.s = th[t].s /\ r.bad = th[t].bad /\ r.ips = ips
    <2> HIDE DEF ips, e
    <2> QED  BY <1>2, <1>3 DEF Record
  <1> HIDE DEF r
  <1>8. th'[t] = r /\ \A u \in Threads \ {t} : th'[u] = th[u]
    BY <1>2, <1>6 DEF Types
  <1>9. Placed(n)' /\ ips = Addresses(n)'
    BY <1>1, <1>4 DEF Placed, Addresses, SubnetsOf, dbVars, edgeVars
  <1>10. HasPlace(t)'
    <2> HIDE DEF ips
    <2> QED  BY <1>7, <1>8, <1>9 DEF HasPlace
  <1>11. Knows(t)'
    BY <1>2, <1>7, <1>8, <1>10, NoRoom DEF Knows, Choosable
  <1>12. ~Unsettled(t)' /\ ~Unsettled(t)
    BY <1>1, <1>7, <1>8 DEF Unsettled
  <1>13. th'[t].pc \in GoingLabels /\ th[t].pc \in GoingLabels
    BY <1>1, <1>7, <1>8 DEF GoingLabels
  <1> HIDE DEF e, ips
  <1> QED  BY <1>1, <1>3, <1>7, <1>8, <1>11, <1>12, <1>13, GoesOnServes

\* delete_dhcp_edge_service finds the slot.
LEMMA DeleteReadServes == ASSUME IInv, IInv', Serving, NEW t \in Threads, DeleteRead(t) PROVE Serving'
  <1>1. th[t].pc = "delRead" /\ UNCHANGED <<dbVars, edgeVars>>
    BY DEF DeleteRead, At
  <1>2. /\ Types /\ th[t] \in Record /\ HasPlace(t) /\ Knows(t) /\ th[t].op \in OpsAt("delRead")
    BY <1>1, AtWork DEF Serving, Knows
  <1>3. PICK n \in Nets : n = th[t].n
    BY <1>1, AtWork
  <1> DEFINE e == row[n].edge
  <1>4. th[t].op # "delnet" => SlotsOf(e, n) # {}
    <2>1. th[t].op # "delnet" => Placed(n)
      BY <1>1, <1>2, <1>3 DEF HasPlace
    <2> QED  BY <2>1, DhcpAssumption DEF Placed, SlotsOf
  <1>5. ~Unsettled(t) /\ th[t].op # "create"
    BY <1>1, <1>2, Table DEF Unsettled
  <1>6. CASE SlotsOf(e, n) = {}
    <2>1. Goto(t, "delNet") /\ th[t].op = "delnet"
      BY <1>3, <1>4, <1>6 DEF DeleteRead
    <2>2. th'[t].pc = "delNet" /\ th'[t].op = th[t].op /\ th'[t].n = th[t].n /\ th'[t].s = th[t].s
          /\ th'[t].bad = th[t].bad /\ \A u \in Threads \ {t} : th'[u] = th[u]
      BY <1>2, <2>1, GotoIs
    <2>3. Knows(t)'
      BY <1>2, <2>1, <2>2, NoRoom DEF Knows, HasPlace, Choosable
    <2> QED  BY <1>1, <1>5, <2>1, <2>2, <2>3, GoesOnServes
  <1>7. CASE SlotsOf(e, n) # {}
    <2>1. PICK k \in SlotsOf(e, n) : th' = [th EXCEPT ![t].pc = "delSlot", ![t].edge = e, ![t].slot = k]
      BY <1>3, <1>7 DEF DeleteRead
    <2> DEFINE r == [th[t] EXCEPT !.pc = "delSlot", !.edge = e, !.slot = k]
    <2>2. th' = [th EXCEPT ![t] = r]
      BY <1>2, <2>1 DEF Types
    <2>3. r.pc = "delSlot" /\ r.n = n /\ r.op = th[t].op /\ r.s = th[t].s /\ r.bad = th[t].bad
      <3> HIDE DEF e
      <3> QED  BY <1>2, <1>3 DEF Record
    <2> HIDE DEF r
    <2>4. th'[t] = r /\ \A u \in Threads \ {t} : th'[u] = th[u]
      BY <1>2, <2>2 DEF Types
    <2>5. HasPlace(t)'
      <3>1. th[t].op # "delnet" => ~DhcpOn(n)
        BY <1>1, <1>2, <1>3 DEF HasPlace
      <3>2. DhcpOn(n)' <=> DhcpOn(n)
        BY <1>1 DEF DhcpOn, Addresses, SubnetsOf, dbVars
      <3> QED  BY <2>3, <2>4, <3>1, <3>2 DEF HasPlace
    <2>6. Knows(t)'
      BY <1>2, <2>3, <2>4, <2>5, NoRoom DEF Knows, Choosable
    <2>7. {th[t].pc, th'[t].pc} \subseteq GoingLabels
      BY <1>1, <2>3, <2>4 DEF GoingLabels
    <2> HIDE DEF e
    <2> QED  BY <1>1, <1>3, <1>5, <2>3, <2>4, <2>6, <2>7, GoesOnServes
  <1> QED  BY <1>6, <1>7

\* update_subnet goes on to create the service.
LEMMA EnableServes == ASSUME IInv, IInv', Serving, NEW t \in Threads, Enable(t) PROVE Serving'
  <1>1. th[t].pc = "enable" /\ UNCHANGED <<dbVars, edgeVars>> /\ Goto(t, "read")
    BY DEF Enable, At
  <1>2. /\ Types /\ th[t].op \in OpsAt("enable") /\ HasPlace(t) /\ Knows(t)
    BY <1>1, AtWork DEF Serving, Knows
  <1>3. th'[t].pc = "read" /\ th'[t].op = th[t].op /\ th'[t].n = th[t].n /\ th'[t].s = th[t].s /\ th'[t].bad = th[t].bad
        /\ \A u \in Threads \ {t} : th'[u] = th[u]
    BY <1>1, <1>2, GotoIs
  <1>4. HasPlace(t)'
    BY <1>1, <1>2, <1>3 DEF HasPlace, edgeVars
  <1>5. Knows(t)' /\ th[t].op = "enable"
    BY <1>2, <1>3, <1>4, NoRoom, Table DEF Knows, Choosable
  <1> QED  BY <1>1, <1>3, <1>5, GoesOnServes

\* delete_subnet deletes the subnet; its address is held until the edge is updated.
LEMMA DeleteSubnetServes == ASSUME IInv, IInv', Serving, NEW t \in Threads, DeleteSubnet(t) PROVE Serving'
  <1> DEFINE s == th[t].s
  <1>1. th[t].pc = "delPool" /\ UNCHANGED <<nets, edgeVars>> /\ subnet' = [subnet EXCEPT ![s] = "none"]
    BY DEF DeleteSubnet, At
  <1>2. /\ Types /\ Types' /\ Tables /\ Sound(th[t]) /\ th[t].op \in OpsAt("delPool") /\ Knows(t)
    BY <1>1, AtWork DEF Serving, IInv
  <1>3. PICK n \in Nets : n = th[t].n /\ n \in nets
    BY <1>1, AtWork
  <1>4. th[t].op = "delete" /\ s \in Subnets /\ NetOf[s] = n
    BY <1>2, <1>3, Table DEF Sound
  <1>5. subnet'[s] = "none" /\ \A q \in Subnets \ {s} : subnet'[q] = subnet[q]
    BY <1>1, <1>2, <1>4 DEF Tables
  <1>6. \A u \in Threads \ {t} : th[u].n # n
    BY <1>1, <1>3, OneRequest
  <1>7. Rested(n)
    BY <1>1, <1>3, <1>6 DEF Serving, Resting
  <1>8. \A q \in Subnets : NetOf[q] # n => subnet'[q] = subnet[q]
    BY <1>4, <1>5
  <1>9. UNCHANGED <<row, vnic, iface>>
    BY <1>1 DEF edgeVars
  <1>10. \A q \in Subnets : q \in Held(n) <=> NetOf[q] = n /\ subnet[q] # "none"
    BY <1>1, <1>2, <1>4, <1>6, HeldOf DEF GoingLabels
  <1>11. CASE subnet[s] = "on"
    <2> DEFINE label == IF SubnetsOf(NetOf[s]) \ {s} = {} THEN "delRead" ELSE "update"
    <2>1. Goto(t, label)
      BY <1>11 DEF DeleteSubnet
    <2>2. label \in {"delRead", "update"} /\ (label = "delRead" => SubnetsOf(n) \subseteq {s})
      BY <1>4
    <2> HIDE DEF label
    <2>3. th'[t].pc = label /\ th'[t].op = "delete" /\ th'[t].n = n /\ th'[t].s = s /\ th'[t].bad = th[t].bad
          /\ \A u \in Threads \ {t} : th'[u] = th[u]
      BY <1>2, <1>3, <1>4, <2>1, GotoIs
    <2>4. Placed(n)
      <3>1. DhcpOn(n)
        BY <1>4, <1>11 DEF DhcpOn, Addresses, SubnetsOf
      <3> QED  BY <1>3, <1>7, <3>1, RestedNet
    <2>5. label = "delRead" => ~DhcpOn(n)'
      BY <1>5, <2>2 DEF DhcpOn, Addresses, SubnetsOf
    <2>6. HasPlace(t)'
      <3>1. Placed(n)'
        BY <1>9, <2>4 DEF Placed
      <3> QED  BY <2>2, <2>3, <2>5, <3>1 DEF HasPlace
    <2>7. Knows(t)'
      BY <1>2, <2>2, <2>3, <2>6, NoRoom DEF Knows, Choosable
    <2>8. Held(n)' = Held(n)
      <3>1. \A q \in Subnets : q \in Held(n)' <=> NetOf[q] = n /\ (subnet'[q] # "none" \/ q = s)
        BY <1>2, <1>6, <2>2, <2>3, HeldNext DEF GoingLabels
      <3>2. \A q \in Subnets : q \in Held(n)' <=> q \in Held(n)
        BY <1>5, <1>10, <1>11, <3>1
      <3> QED  BY <3>2 DEF Held
    <2>9. th'[t].n = n /\ th'[t].pc # "delPool" /\ {th[t].pc, th'[t].pc} \cap {"moveIf", "delIf"} = {}
      BY <1>1, <2>2, <2>3
    <2> QED  BY <1>1, <1>3, <1>6, <1>8, <2>3, <2>7, <2>8, <2>9, StillServes
  <1>12. CASE subnet[s] # "on"
    <2>1. Done(t)
      BY <1>12 DEF DeleteSubnet
    <2>2. th'[t] = Idle /\ \A u \in Threads \ {t} : th'[u] = th[u]
      BY <1>2, <2>1, DoneTypes
    <2>3. th'[t].pc = "idle" /\ th'[t].op = "none" /\ th'[t].n = NoNet /\ ~th'[t].bad
      BY <2>2, IdleSound DEF Idle
    <2>4. Knows(t)'
      BY <2>3, NoRoom DEF Knows, HasPlace, Choosable
    <2>5. Addresses(n)' = Addresses(n)
      BY <1>5, <1>12 DEF Addresses, SubnetsOf
    <2>6. Rested(n)'
      BY <1>7, <1>9, <2>5 DEF Rested, DhcpOn
    <2>7. \A q \in Subnets : q \in Held(n)' <=> NetOf[q] = n /\ subnet'[q] # "none"
      BY <1>2, <1>6, <2>2, <2>3, HeldNext
    <2>8. Held(n)' \subseteq Held(n)
      <3>1. \A q \in Subnets : q \in Held(n)' => q \in Held(n)
        BY <1>5, <1>10, <2>7
      <3> QED  BY <3>1 DEF Held
    <2>9. ASSUME NEW e \in Edges, NEW k \in Slots, iface[e][k].net = n PROVE iface[e][k].ips \subseteq Held(n)'
      <3>1. \A u \in Threads : th[u].n = n => th[u].pc \notin {"moveIf", "delIf"}
        BY <1>1, <1>6
      <3>2. row[n].edge = e /\ \A d \in Edges, j \in Slots : vnic[d][j] = n => d = e /\ j = k
        BY <1>3, <2>9, <3>1, OnlyIface
      <3>3. iface[e][k].ips = Addresses(n)
        BY <1>7, <3>2, NoRowType, DhcpAssumption DEF Rested
      <3>4. \A q \in Addresses(n)' : q \in Held(n)'
        BY <2>7 DEF Addresses, SubnetsOf
      <3> QED  BY <2>5, <3>3, <3>4
    <2> QED  BY <1>1, <1>3, <1>6, <1>8, <2>2, <2>3, <2>4, <2>6, <2>8, <2>9, StillServes
  <1> QED  BY <1>11, <1>12

\* delete_network deletes the network: what is left of it at the edges is dead.
LEMMA DeleteNetServes == ASSUME IInv, IInv', Serving, NEW t \in Threads, DeleteNet(t) PROVE Serving'
  <1>1. th[t].pc = "delNet" /\ UNCHANGED edgeVars /\ nets' = nets \ {th[t].n} /\ Done(t)
        /\ subnet' = [s \in Subnets |-> IF NetOf[s] = th[t].n THEN "none" ELSE subnet[s]]
    BY DEF DeleteNet, At
  <1>2. Types /\ Types'
    BY DEF IInv
  <1>3. PICK n \in Nets : n = th[t].n /\ n \in nets
    BY <1>1, AtWork
  <1>4. \A u \in Threads \ {t} : th[u].n # n
    BY <1>1, <1>3, OneRequest
  <1>5. th'[t] = Idle /\ \A u \in Threads \ {t} : th'[u] = th[u]
    BY <1>1, <1>2, DoneTypes
  <1>6. th'[t].pc = "idle" /\ th'[t].op = "none" /\ th'[t].n = NoNet /\ ~th'[t].bad
    BY <1>5, IdleSound DEF Idle
  <1>7. Knows(t)'
    BY <1>6, NoRoom DEF Knows, HasPlace, Choosable
  <1>8. Held(n)' \subseteq Held(n)
    <2>1. \A q \in Subnets : ~(q \in Held(n)')
      BY <1>1, <1>2, <1>3, <1>4, <1>5, <1>6, HeldNext
    <2> QED  BY <2>1 DEF Held
  <1>9. nets' \subseteq nets /\ nets \subseteq nets' \cup {n} /\ n \notin nets'
        /\ \A s \in Subnets : NetOf[s] # n => subnet'[s] = subnet[s]
    BY <1>1, <1>3
  <1> QED  BY <1>1, <1>3, <1>4, <1>5, <1>6, <1>7, <1>8, <1>9, StillServes

\* A sub-interface of another network stays where it is.
LEMMA FollowsKept ==
  ASSUME Serving, NEW t \in Threads, \A u \in Threads \ {t} : th'[u] = th[u], NEW d \in Edges, NEW j \in Slots,
         NEW m, m = iface[d][j].net, m \notin {th[t].n, NoNet}, vnic[d][j] = m => vnic'[d][j] = m
  PROVE  vnic'[d][j] = m \/ Freed(d, j, m)'
  <1>1. CASE vnic[d][j] = m
    BY <1>1
  <1>2. CASE Freed(d, j, m)
    <2>1. PICK u \in Threads : th[u].n = m /\ th[u].pc \in {"moveIf", "delIf"} /\ th[u].edge = d /\ th[u].slot = j
      BY <1>2 DEF Freed
    <2>2. th'[u] = th[u]
      BY <2>1
    <2> QED  BY <2>1, <2>2 DEF Freed
  <1> QED  BY <1>1, <1>2 DEF Serving, Follows

\* A network that holds no more does not clash.
LEMMA StillApart ==
  ASSUME Serving, NEW n \in Nets, Held(n)' \subseteq Held(n), row'[n].edge \in {row[n].edge, NoEdge}
  PROVE  \A m \in Nets \ {n} : (row'[n].edge = row[m].edge /\ row[m].edge # NoEdge)
           => ~Clash(Held(m), Held(n)') /\ ~Clash(Held(n)', Held(m))
  <1>1. ASSUME NEW m \in Nets \ {n}, row'[n].edge = row[m].edge, row[m].edge # NoEdge
        PROVE  ~Clash(Held(m), Held(n)') /\ ~Clash(Held(n)', Held(m))
    <2>1. ~Clash(Held(n), Held(m))
      BY <1>1 DEF Serving, HeldApart
    <2>2. ~Clash(Held(n)', Held(m))
      BY <2>1 DEF Clash
    <2> QED  BY <2>2, ClashMutual
  <1> QED  BY <1>1

\* A request that leaves its edge still has room where it goes.
LEMMA RoomKept ==
  ASSUME IInv, Types', NEW t \in Threads, NEW n \in Nets, Aside(t, n), HasRoom(t), UNCHANGED subnet,
         th[t].pc \in Choosable, th'[t].pc \in Choosable, th[t].n = n, th'[t].n = n, th'[t].avail = th[t].avail
  PROVE  HasRoom(t)'
  <1>1. th[t].avail \subseteq Edges
    BY DEF IInv, Types, Record
  <1>2. SubnetsOf(n)' = SubnetsOf(n) /\ \A m \in Nets \ {n} : Held(m)' = Held(m) /\ row'[m] = row[m]
    BY HeldAside DEF SubnetsOf, Aside
  <1>3. ASSUME NEW e \in th[t].avail PROVE FreeSlots(e)' # {}
    <2>1. e \in Edges /\ e # NoEdge /\ FreeSlots(e) # {}
      BY <1>1, DhcpAssumption DEF HasRoom
    <2>2. \A k \in Slots : vnic[e][k] = NoNet => vnic'[e][k] = NoNet
      BY <2>1 DEF Aside, Choosable
    <2> QED  BY <2>1, <2>2 DEF FreeSlots, SlotsOf
  <1>4. \A m \in Nets \ {n} : row'[m].edge \in th[t].avail => ~Clash(SubnetsOf(n)', Held(m)')
    BY <1>2 DEF HasRoom
  <1>5. th'[t].pc # "slot"
    BY DEF Choosable
  <1> QED  BY <1>3, <1>4, <1>5 DEF HasRoom, Clash

\* remove_network_from_dhcp_edge frees the slot.
LEMMA MoveServes == ASSUME IInv, IInv', Serving, NEW t \in Threads, Move(t) PROVE Serving'
  <1>1. th[t].pc = "stay" /\ UNCHANGED <<dbVars, iface, faults>> /\ MustMove(t)
    BY DEF Move, At
  <1>2. /\ Types /\ Types' /\ Tables /\ th[t] \in Record /\ Sound(th[t]) /\ th[t].op \in OpsAt("stay") /\ HasRow(t)
        /\ HasPlace(t) /\ HasRoom(t) /\ Knows(t) /\ lock[Pool] = t
    BY <1>1, AtWork DEF Serving, Knows, IInv, UnderPool, Choice
  <1>3. PICK n \in Nets : n = th[t].n /\ n \in nets /\ n # NoNet
    BY <1>1, AtWork
  <1>4. PICK e \in Edges : e = th[t].edge /\ row[n].edge = e
    BY <1>1, <1>2, <1>3 DEF Sound, EdgeLabels, HasRow
  <1>5. SlotsOf(e, n) # {}
    <2>1. Placed(n)
      BY <1>1, <1>2, <1>3, <1>4, NoRowType, DhcpAssumption DEF HasPlace
    <2> QED  BY <1>4, <2>1, DhcpAssumption DEF Placed, SlotsOf
  <1>6. PICK k \in SlotsOf(e, n) :
          vnic' = [vnic EXCEPT ![e][k] = NoNet] /\ th' = [th EXCEPT ![t].pc = "moveIf", ![t].slot = k] /\ UNCHANGED <<row, free>>
    BY <1>3, <1>4, <1>5 DEF Move
  <1>7. k \in Slots /\ vnic[e][k] = n
    BY <1>6, DhcpAssumption DEF SlotsOf
  <1> DEFINE r == [th[t] EXCEPT !.pc = "moveIf", !.slot = k]
  <1>8. th' = [th EXCEPT ![t] = r]
    BY <1>2, <1>6 DEF Types
  <1>9. r.pc = "moveIf" /\ r.slot = k /\ r.n = n /\ r.op = th[t].op /\ r.s = th[t].s /\ r.edge = e
        /\ r.avail = th[t].avail /\ r.bad = th[t].bad
    BY <1>2, <1>3, <1>4, <1>7 DEF Record
  <1> HIDE DEF r
  <1>10. th'[t] = r /\ \A u \in Threads \ {t} : th'[u] = th[u]
    BY <1>2, <1>8 DEF Types
  <1>11. vnic'[e][k] = NoNet /\ \A d \in Edges, j \in Slots : (d # e \/ j # k) => vnic'[d][j] = vnic[d][j]
    BY <1>2, <1>6, <1>7 DEF Tables
  <1>12. \A u \in Threads \ {t} : th'[u] = th[u] /\ th[u].n # n
    BY <1>1, <1>3, <1>10, OneRequest
  <1>13. Aside(t, n)
    <2>1. \A m \in nets \ {n} : m # NoNet
      BY <1>2, DhcpAssumption DEF Tables
    <2>2. \A m \in nets \ {n}, d \in Edges, j \in Slots : vnic'[d][j] = m <=> vnic[d][j] = m
      BY <1>7, <1>11, <2>1
    <2>3. \A d \in Edges, j \in Slots : vnic[d][j] = NoNet => vnic'[d][j] = NoNet
      BY <1>11
    <2> QED  BY <1>1, <1>2, <1>3, <1>6, <1>9, <1>10, <1>12, <2>2, <2>3 DEF Aside, dbVars
  <1>14. Knows(t)'
    <2>1. HasPlace(t)'
      BY <1>2, <1>9, <1>10, <1>11 DEF HasPlace
    <2>2. HasRoom(t)'
      BY <1>1, <1>2, <1>3, <1>9, <1>10, <1>13, RoomKept DEF Choosable, dbVars
    <2> QED  BY <1>2, <1>9, <1>10, <2>1, <2>2 DEF Knows
  <1>15. Clean'
    BY <1>1 DEF Serving, Clean
  <1>16. Follows'
    <2>1. ASSUME NEW d \in Edges, NEW j \in Slots, NEW m, m = iface[d][j].net, m # NoNet
          PROVE  vnic'[d][j] = m \/ Freed(d, j, m)'
      <3>1. CASE m = n
        <4>1. \A u \in Threads : th[u].n = n => th[u].pc \notin {"moveIf", "delIf"}
          BY <1>1, <1>12
        <4>2. d = e /\ j = k
          <5>1. iface[d][j].net = n /\ n \in nets
            BY <1>3, <2>1, <3>1
          <5>2. \A c \in Edges, i \in Slots : vnic[c][i] = n => c = d /\ i = j
            BY <4>1, <5>1, OnlyIface
          <5> QED  BY <1>7, <5>2
        <4> QED  BY <1>9, <1>10, <3>1, <4>2 DEF Freed
      <3>2. CASE m # n
        <4>1. vnic[d][j] = m => vnic'[d][j] = m
          BY <1>7, <1>11, <3>2
        <4> QED  BY <1>3, <1>10, <2>1, <3>2, <4>1, FollowsKept
      <3> QED  BY <3>1, <3>2
    <2> QED  BY <1>1, <2>1 DEF Follows
  <1>17. Held(n)' = Held(n)
    <2>1. Unsettled(t) /\ Unsettled(t)' /\ th[t].op \in {"create", "enable"}
      BY <1>1, <1>2, <1>9, <1>10, Table DEF Unsettled, Choice
    <2>2. \A s \in Subnets : s \in Held(n)' <=> s \in Held(n)
      BY <1>1, <1>2, <1>9, <1>10, <1>12, <2>1, HeldOf, HeldNext DEF dbVars
    <2> QED  BY <2>2 DEF Held
  <1>18. \A d \in Edges, j \in Slots : iface'[d][j].net = n => iface'[d][j].ips \subseteq Held(n)'
    BY <1>1, <1>3, <1>17 DEF Serving, Holds
  <1>19. \A m \in Nets \ {n} : (row'[n].edge = row[m].edge /\ row[m].edge # NoEdge)
           => ~Clash(Held(m), Held(n)') /\ ~Clash(Held(n)', Held(m))
    BY <1>6, <1>17, StillApart
  <1>20. th'[t].n = n /\ th'[t].pc # "delPool" /\ vnic[th'[t].edge][th'[t].slot] # NoNet
    BY <1>3, <1>7, <1>9, <1>10
  <1> QED  BY <1>13, <1>14, <1>15, <1>16, <1>18, <1>19, <1>20, AsideServes

\* The sub-interface of a network is deleted with its row, and no other network's.
LEMMA IfaceGone ==
  ASSUME IInv, Serving, faults' = 0, NEW t \in Threads, th[t].pc \in {"moveIf", "delIf"}, NEW n \in Nets, n = th[t].n,
         NEW ok \in BOOLEAN, DeleteIface(t, ok), UNCHANGED <<dbVars, vnic>>, \A u \in Threads \ {t} : th'[u] = th[u],
         th'[t].n \in {n, NoNet}, lock[Pool] = t \/ Held(n)' \subseteq Held(n)
  PROVE  /\ Aside(t, n) /\ Clean' /\ Follows' /\ row'[n] = NoRow
         /\ \A d \in Edges, j \in Slots : iface'[d][j].net # n
  <1>1. Types /\ Tables /\ Sound(th[t]) /\ HasRow(t) /\ HasSlot(t) /\ n \in nets /\ n # NoNet /\ HasPlace(t)
    BY AtWork DEF Serving, Knows
  <1>2. PICK e \in Edges, k \in Slots : e = th[t].edge /\ k = th[t].slot
    BY <1>1 DEF Sound, EdgeLabels, SlotLabels
  <1>3. vnic[e][k] = NoNet /\ \A d \in Edges, j \in Slots : vnic[d][j] # n
    BY <1>1, <1>2 DEF HasPlace, HasSlot
  <1>4. ok
    BY FaultGrows DEF DeleteIface
  <1>5. iface'[e][k] = NoIf /\ \A d \in Edges, j \in Slots : (d # e \/ j # k) => iface'[d][j] = iface[d][j]
    <2>1. iface' = [iface EXCEPT ![e] = [iface[e] EXCEPT ![k] = NoIf]]
      BY <1>1, <1>2, <1>4 DEF DeleteIface, Tables
    <2> QED  BY <1>1, <2>1 DEF Tables
  <1>6. row'[n] = NoRow /\ \A m \in Nets \ {n} : row'[m] = row[m]
    BY <1>1, <1>2, <1>4, RowsTables, UnbindTypes DEF DeleteIface, Tables
  <1>7. NoIf.net = NoNet /\ NoIf.left = FALSE
    BY DEF NoIf
  <1>8. iface[e][k].net \in {n, NoNet}
    <2>1. ASSUME NEW m, m = iface[e][k].net, m \notin {n, NoNet} PROVE FALSE
      <3>1. Freed(e, k, m)
        BY <1>3, <2>1 DEF Serving, Follows
      <3>2. PICK u \in Threads : th[u].n = m /\ th[u].pc \in {"moveIf", "delIf"} /\ th[u].edge = e /\ th[u].slot = k
        BY <3>1 DEF Freed
      <3>3. u = t
        BY <1>2, <3>2 DEF Serving, FreedApart
      <3> QED  BY <2>1, <3>2, <3>3
    <2> QED  BY <2>1
  <1>9. \A u \in Threads \ {t} : th'[u] = th[u] /\ th[u].n # n
    BY OneRequest
  <1>10. ASSUME NEW d \in Edges, NEW j \in Slots, iface'[d][j].net = n PROVE FALSE
    <2>1. (d # e \/ j # k) /\ iface[d][j].net = n
      BY <1>1, <1>5, <1>7, <1>10
    <2>2. Freed(d, j, n)
      BY <1>1, <1>3, <2>1 DEF Serving, Follows
    <2>3. PICK u \in Threads : th[u].n = n /\ th[u].edge = d /\ th[u].slot = j
      BY <2>2 DEF Freed
    <2> QED  BY <1>2, <1>9, <2>1, <2>3
  <1>11. Clean'
    <2>1. ASSUME NEW d \in Edges, NEW j \in Slots
          PROVE  ~iface'[d][j].left /\ (iface'[d][j].net = NoNet => iface'[d][j] = NoIf)
      <3>1. CASE d = e /\ j = k
        BY <1>5, <1>7, <3>1
      <3>2. CASE d # e \/ j # k
        BY <1>5, <3>2 DEF Serving, Clean
      <3> QED  BY <3>1, <3>2
    <2> QED  BY <2>1 DEF Clean
  <1>12. Follows'
    <2>1. ASSUME NEW d \in Edges, NEW j \in Slots, NEW m, m = iface'[d][j].net, m # NoNet
          PROVE  vnic'[d][j] = m \/ Freed(d, j, m)'
      <3>1. m = iface[d][j].net /\ m # n
        BY <1>5, <1>7, <1>10, <2>1
      <3> QED  BY <2>1, <3>1, FollowsKept
    <2> QED  BY <2>1 DEF Follows
  <1>13. Aside(t, n)
    <2>1. ASSUME NEW d \in Edges, NEW j \in Slots, iface[d][j].net \in nets \ {n} \/ iface'[d][j].net \in nets \ {n}
          PROVE  iface'[d][j] = iface[d][j]
      <3>1. NoNet \notin nets
        BY <1>1, DhcpAssumption DEF Tables
      <3>2. ~(d = e /\ j = k)
        BY <1>5, <1>7, <1>8, <2>1, <3>1
      <3> QED  BY <1>5, <3>2
    <2>2. row'[n].edge \in {row[n].edge, NoEdge}
      BY <1>6, NoRowType
    <2> QED  BY <1>1, <1>6, <1>9, <2>1, <2>2 DEF Aside, dbVars
  <1> QED  BY <1>6, <1>10, <1>11, <1>12, <1>13

\* remove_network_from_dhcp_edge deletes the sub-interface.
LEMMA MoveIfServes == ASSUME IInv, IInv', faults' = 0, Serving, NEW t \in Threads, MoveIf(t) PROVE Serving'
  <1>1. th[t].pc = "moveIf" /\ UNCHANGED <<dbVars, vnic>> /\ Goto(t, "select")
    BY DEF MoveIf, At
  <1>2. Types /\ Types' /\ HasRoom(t) /\ Knows(t) /\ lock[Pool] = t
    BY <1>1, AtWork DEF Serving, Knows, IInv, UnderPool, Choice
  <1>3. PICK n \in Nets : n = th[t].n
    BY <1>1, AtWork
  <1>4. PICK ok \in BOOLEAN : DeleteIface(t, ok)
    BY DEF MoveIf
  <1>5. th'[t].pc = "select" /\ th'[t].n = n /\ th'[t].op = th[t].op /\ th'[t].avail = th[t].avail
        /\ th'[t].bad = th[t].bad /\ \A u \in Threads \ {t} : th'[u] = th[u]
    BY <1>1, <1>2, <1>3, GotoIs
  <1>6. Aside(t, n) /\ Clean' /\ Follows' /\ row'[n] = NoRow /\ \A d \in Edges, j \in Slots : iface'[d][j].net # n
    BY <1>1, <1>2, <1>3, <1>4, <1>5, IfaceGone
  <1>7. Knows(t)'
    <2>1. HasRoom(t)'
      BY <1>1, <1>2, <1>3, <1>5, <1>6, RoomKept DEF Choosable, dbVars
    <2>2. HasPlace(t)'
      BY <1>5 DEF HasPlace
    <2> QED  BY <1>2, <1>5, <2>1, <2>2 DEF Knows
  <1>8. row'[n].edge = NoEdge
    BY <1>6, NoRowType
  <1> QED  BY <1>5, <1>6, <1>7, <1>8, AsideServes

\* delete_dhcp_edge_service deletes the sub-interface: without DHCP, its network rests.
LEMMA DeleteIfServes == ASSUME IInv, IInv', faults' = 0, Serving, NEW t \in Threads, DeleteIf(t) PROVE Serving'
  <1>1. th[t].pc = "delIf" /\ UNCHANGED <<dbVars, vnic>>
    BY DEF DeleteIf, At
  <1>2. /\ Types /\ Types' /\ HasPlace(t) /\ Knows(t) /\ th[t].op \in OpsAt("delIf")
    BY <1>1, AtWork DEF Serving, Knows, IInv
  <1>3. PICK n \in Nets : n = th[t].n /\ n \in nets
    BY <1>1, AtWork
  <1>4. PICK ok \in BOOLEAN : DeleteIface(t, ok)
    BY DEF DeleteIf
  <1>5. /\ \A u \in Threads \ {t} : th'[u] = th[u]
        /\ ~th'[t].bad
        /\ \/ th'[t].pc = "idle" /\ th'[t].op = "none" /\ th'[t].n = NoNet /\ th[t].op # "delnet"
           \/ th'[t].pc = "delNet" /\ th'[t].op = "delnet" /\ th'[t].n = n
    <2>1. CASE th[t].op = "delnet"
      <3>1. Goto(t, "delNet")
        BY <2>1 DEF DeleteIf
      <3> QED  BY <1>2, <1>3, <2>1, <3>1, GotoIs DEF Knows
    <2>2. CASE th[t].op # "delnet"
      <3>1. Done(t)
        BY <2>2 DEF DeleteIf
      <3>2. th'[t] = Idle /\ \A u \in Threads \ {t} : th'[u] = th[u]
        BY <1>2, <3>1, DoneTypes
      <3> QED  BY <2>2, <3>2, IdleSound DEF Idle
    <2> QED  BY <2>1, <2>2
  <1>6. \A u \in Threads \ {t} : th'[u].n # n /\ th[u].n # n
    BY <1>1, <1>3, <1>5, OneRequest
  <1>7. Held(n)' \subseteq Held(n)
    <2>1. th[t].op # "create"
      BY <1>2, Table
    <2>2. \A s \in Subnets : s \in Held(n)' => NetOf[s] = n /\ subnet[s] # "none"
      BY <1>1, <1>2, <1>5, <1>6, HeldNext DEF dbVars
    <2>3. \A s \in Subnets : s \in Held(n)' => s \in Held(n)
      BY <1>2, <1>6, <2>1, <2>2, HeldOf
    <2> QED  BY <2>3 DEF Held
  <1>8. Aside(t, n) /\ Clean' /\ Follows' /\ row'[n] = NoRow /\ \A d \in Edges, j \in Slots : iface'[d][j].net # n
    BY <1>1, <1>3, <1>4, <1>5, <1>7, IfaceGone
  <1>9. Knows(t)'
    BY <1>5, NoRoom DEF Knows, HasPlace, Choosable
  <1>10. row'[n].edge = NoEdge
    BY <1>8, NoRowType
  <1>11. th[t].op # "delnet" => Rested(n)'
    <2>1. th[t].op # "delnet" => ~DhcpOn(n)
      BY <1>1, <1>2, <1>3 DEF HasPlace
    <2>2. DhcpOn(n)' <=> DhcpOn(n)
      BY <1>1 DEF DhcpOn, Addresses, SubnetsOf, dbVars
    <2> QED  BY <1>8, <2>1, <2>2 DEF Rested
  <1> QED  BY <1>5, <1>8, <1>9, <1>10, <1>11, AsideServes

\* What a network holds that has no subnet to delete.
LEMMA HeldThere ==
  ASSUME Types', NEW t \in Threads, NEW n \in Nets, \A u \in Threads \ {t} : th'[u].n # n, th'[t].op # "delete"
  PROVE  Held(n)' \subseteq SubnetsOf(n)'
  <1>1. \A s \in Subnets : s \in Held(n)' => NetOf[s] = n /\ subnet'[s] # "none"
    BY HeldNext
  <1> QED  BY <1>1 DEF Held, SubnetsOf

\* On an edge that is nobody's there is no sub-interface of a live network.
LEMMA FreeEdge ==
  ASSUME IInv, Serving, NEW e \in free, e \in Edges
  PROVE  /\ \A m \in Nets : row[m].edge # e
         /\ \A k \in Slots : iface[e][k].net \notin nets
         /\ \A k \in Slots : vnic[e][k] \notin nets
  <1>1. \A m \in Nets : row[m].edge # e
    BY DEF IInv, NoLeakedEdge, OnEdge
  <1>2. ASSUME NEW m \in nets, NEW k \in Slots PROVE vnic[e][k] # m
    BY <1>1 DEF IInv, OneSlot, Types, TypeOK
  <1>3. ASSUME NEW m \in nets, NEW k \in Slots, iface[e][k].net = m PROVE FALSE
    <2>1. m \in Nets /\ m # NoNet
      BY DhcpAssumption DEF IInv, Types, TypeOK
    <2>2. Freed(e, k, m)
      BY <1>2, <1>3, <2>1 DEF Serving, Follows
    <2>3. PICK u \in Threads : th[u].n = m /\ th[u].pc \in {"moveIf", "delIf"} /\ th[u].edge = e
      BY <2>2 DEF Freed
    <2>4. row[m].edge = e
      BY <2>3, AtWork DEF HasRow
    <2> QED  BY <1>1, <2>1, <2>4
  <1> QED  BY <1>1, <1>2, <1>3

\* A network gets an edge with room, and without overlapping addresses.
LEMMA BindServes ==
  ASSUME IInv, IInv', Serving, NEW t \in Threads, th[t].pc = "select", NEW n \in Nets, n = th[t].n, NEW e \in Edges,
         (e \in th[t].avail /\ UNCHANGED <<vnic, iface, free>>)
         \/ (e \in free /\ vnic' = [vnic EXCEPT ![e] = Empty] /\ iface' = [iface EXCEPT ![e] = NoIfs]),
         row' = [row EXCEPT ![n] = [edge |-> e, status |-> "ACTIVE"]],
         th' = [th EXCEPT ![t].pc = "slot", ![t].edge = e, ![t].bad = FALSE], UNCHANGED dbVars
  PROVE  Serving'
  <1>1. /\ Types /\ Types' /\ Tables /\ th[t] \in Record /\ th[t].op \in OpsAt("select") /\ n \in nets /\ n # NoNet
        /\ lock[Pool] = t /\ HasSlot(t) /\ HasRoom(t) /\ Knows(t)
    BY AtWork DEF UnderPool, Choice, Serving, Knows, IInv
  <1>2. \A d \in Edges, k \in Slots : vnic[d][k] # n
    BY <1>1 DEF HasSlot
  <1>3. row'[n].edge = e /\ \A m \in Nets \ {n} : row'[m] = row[m]
    <2>1. RowsIn(row) /\ Binds(n, e)
      BY <1>1, RowsTables DEF Binds
    <2> QED  BY <2>1, BindTypes
  <1> DEFINE r == [th[t] EXCEPT !.pc = "slot", !.edge = e, !.bad = FALSE]
  <1>4. th' = [th EXCEPT ![t] = r] /\ r.pc = "slot" /\ r.n = n /\ r.op = th[t].op /\ r.edge = e /\ r.bad = FALSE
    BY <1>1 DEF Types, Record
  <1> HIDE DEF r
  <1>5. th'[t] = r /\ \A u \in Threads \ {t} : th'[u] = th[u]
    BY <1>1, <1>4 DEF Types
  <1>6. \A u \in Threads \ {t} : th'[u] = th[u] /\ th[u].n # n
    BY <1>5, OneRequest
  <1>7. \A d \in Edges, j \in Slots :
          \/ UNCHANGED <<vnic[d][j], iface[d][j]>>
          \/ d = e /\ e \in free /\ vnic'[d][j] = NoNet /\ iface'[d][j] = NoIf
    BY <1>1 DEF Tables, Empty, NoIfs
  <1>8. NoNet \notin nets /\ NoIf.net = NoNet /\ NoIf.left = FALSE
    BY <1>1, DhcpAssumption DEF Tables, NoIf
  <1>9. \A j \in Slots : e \in free => vnic[e][j] \notin nets /\ iface[e][j].net \notin nets
    BY FreeEdge
  <1>10. Aside(t, n)
    <2>1. \A m \in nets \ {n}, d \in Edges, j \in Slots : vnic'[d][j] = m <=> vnic[d][j] = m
      BY <1>7, <1>8, <1>9
    <2>2. \A d \in Edges, j \in Slots : vnic[d][j] = NoNet => vnic'[d][j] = NoNet
      BY <1>7
    <2>3. \A d \in Edges, j \in Slots :
            (iface[d][j].net \in nets \ {n} \/ iface'[d][j].net \in nets \ {n}) => iface'[d][j] = iface[d][j]
      BY <1>7, <1>8, <1>9
    <2> QED  BY <1>1, <1>3, <1>4, <1>5, <1>6, <2>1, <2>2, <2>3 DEF Aside, dbVars
  <1>11. Clean'
    BY <1>7, <1>8 DEF Serving, Clean
  <1>12. ASSUME NEW d \in Edges, NEW j \in Slots, iface[d][j].net = n PROVE FALSE
    <2>1. Freed(d, j, n)
      BY <1>1, <1>2, <1>12 DEF Serving, Follows
    <2>2. PICK u \in Threads : th[u].n = n /\ th[u].pc \in {"moveIf", "delIf"}
      BY <2>1 DEF Freed
    <2> QED  BY <1>6, <2>2
  <1>13. \A d \in Edges, j \in Slots : iface'[d][j].net # n
    BY <1>1, <1>7, <1>8, <1>12
  <1>14. Follows'
    <2>1. ASSUME NEW d \in Edges, NEW j \in Slots, NEW m, m = iface'[d][j].net, m # NoNet
          PROVE  vnic'[d][j] = m \/ Freed(d, j, m)'
      <3>1. m = iface[d][j].net /\ m # n /\ vnic'[d][j] = vnic[d][j]
        BY <1>7, <1>8, <1>13, <2>1
      <3> QED  BY <1>5, <2>1, <3>1, FollowsKept
    <2> QED  BY <2>1 DEF Follows
  <1>15. FreeSlots(e)' # {}
    <2>1. CASE e \in th[t].avail /\ UNCHANGED <<vnic, iface, free>>
      <3>1. FreeSlots(e) # {}
        BY <1>1, <2>1 DEF HasRoom, Choosable
      <3> QED  BY <2>1, <3>1 DEF FreeSlots, SlotsOf
    <2>2. CASE e \in free /\ vnic' = [vnic EXCEPT ![e] = Empty]
      <3>1. \A j \in Slots : vnic'[e][j] = NoNet
        BY <1>1, <2>2 DEF Tables, Empty
      <3> QED  BY <3>1, DhcpAssumption DEF FreeSlots, SlotsOf
    <2> QED  BY <2>1, <2>2
  <1>16. Knows(t)'
    <2>1. HasRoom(t)'
      BY <1>4, <1>5, <1>15 DEF HasRoom, Choosable
    <2>2. HasPlace(t)'
      BY <1>4, <1>5 DEF HasPlace
    <2> QED  BY <1>1, <1>4, <1>5, <2>1, <2>2 DEF Knows
  <1>17. Held(n)' \subseteq SubnetsOf(n)
    <2>1. th'[t].op # "delete"
      BY <1>1, <1>4, <1>5, Table DEF Choice
    <2>2. \A u \in Threads \ {t} : th'[u].n # n
      BY <1>6
    <2>3. Held(n)' \subseteq SubnetsOf(n)'
      BY <1>1, <2>1, <2>2, HeldThere
    <2> QED  BY <2>3 DEF SubnetsOf, dbVars
  <1>18. ASSUME NEW m \in Nets \ {n}, row'[n].edge = row[m].edge, row[m].edge # NoEdge
         PROVE  ~Clash(Held(m), Held(n)') /\ ~Clash(Held(n)', Held(m))
    <2>1. row[m].edge = e /\ e \in th[t].avail
      <3>1. row[m].edge = e
        BY <1>3, <1>18
      <3> QED  BY <3>1, FreeEdge
    <2>2. ~Clash(SubnetsOf(n), Held(m))
      BY <1>1, <2>1 DEF HasRoom, Choosable
    <2>3. ~Clash(Held(n)', Held(m))
      BY <1>17, <2>2 DEF Clash
    <2> QED  BY <2>3, ClashMutual
  <1>19. th'[t].n = n /\ th'[t].pc = "slot"
    BY <1>4, <1>5
  <1> QED  BY <1>10, <1>11, <1>13, <1>14, <1>16, <1>18, <1>19, AsideServes

\* reuse_existing_dhcp_edge binds the network to an edge in use.
LEMMA ReuseServes == ASSUME IInv, IInv', Serving, NEW t \in Threads, Reuse(t) PROVE Serving'
  <1>1. th[t].pc = "select" /\ UNCHANGED <<nets, vnic, iface, free>>
    BY DEF Reuse, At
  <1>2. Types /\ th[t] \in Record /\ row[th[t].n] = NoRow
    BY <1>1, AtWork DEF HasRow
  <1>3. PICK n \in Nets : n = th[t].n
    BY <1>1, AtWork
  <1>4. PICK e \in th[t].avail :
          /\ row' = [row EXCEPT ![n] = [edge |-> e, status |-> "ACTIVE"]]
          /\ th' = [th EXCEPT ![t].pc = "slot", ![t].edge = e, ![t].bad = FALSE] /\ UNCHANGED subnet
    BY <1>2, <1>3 DEF Reuse
  <1>5. e \in Edges /\ UNCHANGED dbVars
    BY <1>1, <1>2, <1>4 DEF Record, dbVars
  <1> QED  BY <1>1, <1>3, <1>4, <1>5, BindServes

\* allocate_new_dhcp_edge binds the network to an edge of its own.
LEMMA NewServes == ASSUME IInv, IInv', Serving, NEW t \in Threads, New(t) PROVE Serving'
  <1>1. th[t].pc = "select" /\ UNCHANGED nets
    BY DEF New, At
  <1>2. Types /\ Tables /\ row[th[t].n] = NoRow
    BY <1>1, AtWork DEF HasRow
  <1>3. PICK n \in Nets : n = th[t].n
    BY <1>1, AtWork
  <1>4. PICK e \in free :
          /\ row' = [row EXCEPT ![n] = [edge |-> e, status |-> "ACTIVE"]]
          /\ vnic' = [vnic EXCEPT ![e] = Empty] /\ iface' = [iface EXCEPT ![e] = NoIfs]
          /\ th' = [th EXCEPT ![t].pc = "slot", ![t].edge = e, ![t].bad = FALSE] /\ UNCHANGED subnet
    BY <1>2, <1>3 DEF New
  <1>5. e \in Edges /\ UNCHANGED dbVars
    BY <1>1, <1>2, <1>4 DEF Tables, dbVars
  <1> QED  BY <1>1, <1>3, <1>4, <1>5, BindServes

\* There is no failure.
LEMMA NoNewServes == ASSUME IInv, faults' = 0, NEW t \in Threads, NoNew(t) PROVE FALSE
  BY FaultGrows DEF NoNew

\* What a network keeps holding while a request goes on.
LEMMA HeldSame ==
  ASSUME Types, Types', NEW t \in Threads, NEW n \in Nets, \A u \in Threads \ {t} : th'[u] = th[u] /\ th[u].n # n,
         UNCHANGED subnet, th'[t].op = th[t].op, th'[t].s = th[t].s,
         th[t].op = "create" => (Unsettled(t)' <=> Unsettled(t)),
         th[t].op = "delete" => (th'[t].pc \in GoingLabels <=> th[t].pc \in GoingLabels)
  PROVE  Held(n)' = Held(n)
  <1>1. \A u \in Threads \ {t} : th'[u].n # n
    OBVIOUS
  <1>2. \A s \in Subnets : s \in Held(n)' <=> s \in Held(n)
    BY <1>1, HeldOf, HeldNext
  <1> QED  BY <1>2 DEF Held

\* allocate_edge_vnic_with_tunnel_index gives the network its slot.
LEMMA SetSlotServes == ASSUME IInv, IInv', Serving, NEW t \in Threads, SetSlot(t) PROVE Serving'
  <1>1. th[t].pc = "setSlot" /\ UNCHANGED <<dbVars, row, iface, free, faults>> /\ Goto(t, "update")
    BY DEF SetSlot, At
  <1>2. /\ Types /\ Types' /\ Tables /\ Sound(th[t]) /\ th[t].op \in OpsAt("setSlot") /\ HasRow(t) /\ HasSlot(t)
        /\ Knows(t) /\ lock[Pool] = t
    BY <1>1, AtWork DEF Serving, IInv, UnderPool, Choice
  <1>3. PICK n \in Nets : n = th[t].n /\ n \in nets /\ n # NoNet
    BY <1>1, AtWork
  <1>4. PICK e \in Edges, k \in Slots : e = th[t].edge /\ k = th[t].slot
    BY <1>1, <1>2 DEF Sound, EdgeLabels, SlotLabels
  <1>5. row[n].edge = e /\ vnic[e][k] = NoNet /\ \A d \in Edges, j \in Slots : vnic[d][j] # n
    BY <1>1, <1>2, <1>3, <1>4 DEF HasRow, HasSlot
  <1>6. vnic'[e][k] = n /\ \A d \in Edges, j \in Slots : (d # e \/ j # k) => vnic'[d][j] = vnic[d][j]
    <2>1. vnic' = [vnic EXCEPT ![e][k] = n]
      BY <1>3, <1>4 DEF SetSlot
    <2> QED  BY <1>2, <2>1 DEF Tables
  <1>7. th'[t].pc = "update" /\ th'[t].op = th[t].op /\ th'[t].n = n /\ th'[t].s = th[t].s /\ th'[t].bad = th[t].bad
        /\ \A u \in Threads \ {t} : th'[u] = th[u]
    BY <1>1, <1>2, <1>3, GotoIs
  <1>8. \A u \in Threads \ {t} : th'[u] = th[u] /\ th[u].n # n
    BY <1>1, <1>3, <1>7, OneRequest
  <1>9. Held(n)' = Held(n)
    <2>1. ~Unsettled(t) /\ ~Unsettled(t)' /\ th[t].op # "delete"
      BY <1>1, <1>2, <1>7, Table DEF Unsettled, Choice
    <2> QED  BY <1>1, <1>2, <1>7, <1>8, <2>1, HeldSame DEF dbVars
  <1>10. Aside(t, n)
    <2>1. NoNet \notin nets
      BY <1>2, DhcpAssumption DEF Tables
    <2>2. \A m \in nets \ {n}, d \in Edges, j \in Slots : vnic'[d][j] = m <=> vnic[d][j] = m
      BY <1>5, <1>6, <2>1
    <2> QED  BY <1>1, <1>2, <1>3, <1>7, <1>8, <2>2 DEF Aside, dbVars
  <1>11. Clean'
    BY <1>1 DEF Serving, Clean
  <1>12. ASSUME NEW d \in Edges, NEW j \in Slots, iface[d][j].net = n PROVE FALSE
    <2>1. Freed(d, j, n)
      BY <1>3, <1>5, <1>12 DEF Serving, Follows
    <2>2. PICK u \in Threads : th[u].n = n /\ th[u].pc \in {"moveIf", "delIf"}
      BY <2>1 DEF Freed
    <2> QED  BY <1>1, <1>8, <2>2
  <1>13. Follows'
    <2>1. ASSUME NEW d \in Edges, NEW j \in Slots, NEW m, m = iface[d][j].net, m # NoNet
          PROVE  vnic'[d][j] = m \/ Freed(d, j, m)'
      <3>1. m # n /\ (vnic[d][j] = m => vnic'[d][j] = m)
        BY <1>5, <1>6, <1>12, <2>1
      <3> QED  BY <1>3, <1>7, <2>1, <3>1, FollowsKept
    <2> QED  BY <1>1, <2>1 DEF Follows
  <1>14. Knows(t)'
    <2>1. row'[n].edge = e
      BY <1>1, <1>5
    <2>2. Placed(n)'
      BY <1>6, <2>1 DEF Placed
    <2>3. HasPlace(t)'
      BY <1>7, <2>2 DEF HasPlace
    <2> QED  BY <1>2, <1>7, <2>3, NoRoom DEF Knows, Choosable
  <1>15. \A m \in Nets \ {n} : (row'[n].edge = row[m].edge /\ row[m].edge # NoEdge)
           => ~Clash(Held(m), Held(n)') /\ ~Clash(Held(n)', Held(m))
    BY <1>1, <1>9, StillApart
  <1>16. \A d \in Edges, j \in Slots : iface'[d][j].net # n
    BY <1>1, <1>12
  <1> QED  BY <1>7, <1>10, <1>11, <1>13, <1>14, <1>15, <1>16, AsideServes

\* free_edge_vnic_by_network frees the one slot of the network.
LEMMA DeleteSlotServes == ASSUME IInv, IInv', Serving, NEW t \in Threads, DeleteSlot(t) PROVE Serving'
  <1>1. th[t].pc = "delSlot" /\ UNCHANGED <<dbVars, row, iface, free, faults>>
    BY DEF DeleteSlot, At
  <1>2. /\ Types /\ Types' /\ Tables /\ Sound(th[t]) /\ th[t].op \in OpsAt("delSlot") /\ HasRow(t) /\ HasSlot(t)
        /\ HasPlace(t) /\ Knows(t)
    BY <1>1, AtWork DEF Serving, Knows, IInv
  <1>3. PICK n \in Nets : n = th[t].n /\ n \in nets /\ n # NoNet
    BY <1>1, AtWork
  <1>4. PICK e \in Edges, k \in Slots : e = th[t].edge /\ k = th[t].slot
    BY <1>1, <1>2 DEF Sound, EdgeLabels, SlotLabels
  <1>5. vnic[e][k] = n /\ \A d \in Edges, j \in Slots : vnic[d][j] = n => d = e /\ j = k
    <2>1. vnic[e][k] = n /\ row[n].edge = e
      BY <1>1, <1>2, <1>3, <1>4 DEF HasRow, HasSlot
    <2> QED  BY <1>3, <1>4, <2>1 DEF IInv, OneSlot
  <1>6. Cardinality(SlotsOf(e, n)) = 1
    <2>1. SlotsOf(e, n) = {k}
      BY <1>5, DhcpAssumption DEF SlotsOf
    <2> QED  BY <2>1, FS_Singleton
  <1>7. Goto(t, "delIf") /\ \A d \in Edges, j \in Slots : vnic'[d][j] = IF d = e /\ j = k THEN NoNet ELSE vnic[d][j]
    <2>1. Goto(t, "delIf") /\ vnic' = [vnic EXCEPT ![e] = [j \in Slots |-> IF vnic[e][j] = n THEN NoNet ELSE vnic[e][j]]]
      BY <1>2, <1>3, <1>4, <1>6 DEF DeleteSlot, Tables
    <2> QED  BY <1>2, <1>5, <2>1 DEF Tables
  <1>8. th'[t].pc = "delIf" /\ th'[t].op = th[t].op /\ th'[t].n = n /\ th'[t].s = th[t].s /\ th'[t].bad = th[t].bad
        /\ th'[t].edge = e /\ th'[t].slot = k /\ \A u \in Threads \ {t} : th'[u] = th[u]
    BY <1>2, <1>3, <1>4, <1>7, GotoIs
  <1>9. \A u \in Threads \ {t} : th'[u] = th[u] /\ th[u].n # n
    BY <1>1, <1>3, <1>8, OneRequest
  <1>10. Held(n)' = Held(n)
    <2>1. th[t].op # "create" /\ {th[t].pc, th'[t].pc} \subseteq GoingLabels
      BY <1>1, <1>2, <1>8, Table DEF GoingLabels
    <2> QED  BY <1>1, <1>2, <1>8, <1>9, <2>1, HeldSame DEF dbVars
  <1>11. Aside(t, n)
    <2>1. NoNet \notin nets
      BY <1>2, DhcpAssumption DEF Tables
    <2>2. \A m \in nets \ {n}, d \in Edges, j \in Slots : vnic'[d][j] = m <=> vnic[d][j] = m
      BY <1>5, <1>7, <2>1
    <2>3. \A d \in Edges, j \in Slots : vnic[d][j] = NoNet => vnic'[d][j] = NoNet
      BY <1>7
    <2> QED  BY <1>1, <1>3, <1>8, <1>9, <1>10, <2>2, <2>3 DEF Aside, dbVars
  <1>12. Clean'
    BY <1>1 DEF Serving, Clean
  <1>13. Follows'
    <2>1. ASSUME NEW d \in Edges, NEW j \in Slots, NEW m, m = iface[d][j].net, m # NoNet
          PROVE  vnic'[d][j] = m \/ Freed(d, j, m)'
      <3>1. CASE m = n
        <4>1. \A u \in Threads : th[u].n = n => th[u].pc \notin {"moveIf", "delIf"}
          BY <1>1, <1>9
        <4>2. vnic[d][j] = n
          <5>1. iface[d][j].net = n /\ n \in nets
            BY <1>3, <2>1, <3>1
          <5> QED  BY <4>1, <5>1, OnlyIface
        <4>3. d = e /\ j = k
          BY <1>5, <4>2
        <4> QED  BY <1>8, <3>1, <4>3 DEF Freed
      <3>2. CASE m # n
        <4>1. vnic[d][j] = m => vnic'[d][j] = m
          BY <1>5, <1>7, <3>2
        <4> QED  BY <1>3, <1>8, <2>1, <3>2, <4>1, FollowsKept
      <3> QED  BY <3>1, <3>2
    <2> QED  BY <1>1, <2>1 DEF Follows
  <1>14. Knows(t)'
    <2>1. th[t].op # "delnet" => ~DhcpOn(n)'
      <3>1. th[t].op # "delnet" => ~DhcpOn(n)
        BY <1>1, <1>2, <1>3 DEF HasPlace
      <3> QED  BY <1>1, <3>1 DEF DhcpOn, Addresses, SubnetsOf, dbVars
    <2>2. vnic'[e][k] = NoNet
      BY <1>7
    <2>3. HasPlace(t)'
      BY <1>8, <2>1, <2>2 DEF HasPlace
    <2> QED  BY <1>2, <1>8, <2>3, NoRoom DEF Knows, Choosable
  <1>15. \A m \in Nets \ {n} : (row'[n].edge = row[m].edge /\ row[m].edge # NoEdge)
           => ~Clash(Held(m), Held(n)') /\ ~Clash(Held(n)', Held(m))
    BY <1>1, <1>10, StillApart
  <1>16. \A d \in Edges, j \in Slots : iface'[d][j].net = n => iface'[d][j].ips \subseteq Held(n)'
    BY <1>1, <1>3, <1>10 DEF Serving, Holds
  <1>17. th'[t].n = n /\ th'[t].pc # "delPool" /\ vnic[th'[t].edge][th'[t].slot] # NoNet
    BY <1>3, <1>5, <1>8
  <1> QED  BY <1>11, <1>12, <1>13, <1>14, <1>15, <1>16, <1>17, AsideServes

\* What _update_dhcp_address finds at the edge: its own sub-interface, or none.
LEMMA OwnSlot ==
  ASSUME IInv, Serving, NEW t \in Threads, th[t].pc = "updateIf", NEW n \in Nets, n = th[t].n,
         NEW e \in Edges, NEW k \in Slots, e = th[t].edge, k = th[t].slot
  PROVE  /\ row[n].edge = e /\ vnic[e][k] = n /\ th[t].ips = Addresses(n)
         /\ iface[e][k].net \in {n, NoNet} /\ ~iface[e][k].left
         /\ iface[e][k] # NoIf => iface[e][k].net = n
         /\ \A d \in Edges, j \in Slots : iface[d][j].net = n => d = e /\ j = k
  <1>1. HasRow(t) /\ HasSlot(t) /\ HasPlace(t) /\ n \in nets /\ n # NoNet
    BY AtWork DEF Serving, Knows
  <1>2. row[n].edge = e /\ vnic[e][k] = n /\ th[t].ips = Addresses(n)
    BY <1>1 DEF HasRow, HasSlot, HasPlace
  <1>3. iface[e][k].net \in {n, NoNet}
    <2>1. ASSUME NEW m, m = iface[e][k].net, m \notin {n, NoNet} PROVE FALSE
      <3>1. Freed(e, k, m)
        BY <1>2, <2>1 DEF Serving, Follows
      <3>2. PICK u \in Threads : th[u].pc \in {"moveIf", "delIf"} /\ th[u].edge = e /\ th[u].slot = k
        BY <3>1 DEF Freed
      <3>3. vnic[e][k] = NoNet
        BY <3>2 DEF Serving, Knows, HasPlace
      <3> QED  BY <1>1, <1>2, <3>3
    <2> QED  BY <2>1
  <1>4. ~iface[e][k].left /\ (iface[e][k] # NoIf => iface[e][k].net = n)
    <2>1. ~iface[e][k].left /\ (iface[e][k].net = NoNet => iface[e][k] = NoIf)
      BY DEF Serving, Clean
    <2> QED  BY <1>3, <2>1
  <1>5. ASSUME NEW d \in Edges, NEW j \in Slots, iface[d][j].net = n PROVE d = e /\ j = k
    <2>1. \A u \in Threads : th[u].n = n => th[u].pc \notin {"moveIf", "delIf"}
      BY OneRequest
    <2>2. \A c \in Edges, i \in Slots : vnic[c][i] = n => c = d /\ i = j
      BY <1>1, <1>5, <2>1, OnlyIface
    <2> QED  BY <1>2, <2>2
  <1> QED  BY <1>2, <1>3, <1>4, <1>5

\* _update_dhcp_address gives the sub-interface its addresses, and removes those of dead
\* networks with the same.
LEMMA UpdateIfServes == ASSUME IInv, IInv', Serving, NEW t \in Threads, UpdateIf(t) PROVE Serving'
  <1>1. th[t].pc = "updateIf" /\ UNCHANGED <<dbVars, row, vnic, free, faults>> /\ Done(t)
    BY DEF UpdateIf, At
  <1>2. /\ Types /\ Types' /\ Tables /\ Sound(th[t]) /\ Knows(t)
    BY <1>1, AtWork DEF Serving, IInv
  <1>3. PICK n \in Nets : n = th[t].n /\ n \in nets /\ n # NoNet
    BY <1>1, AtWork
  <1>4. PICK e \in Edges, k \in Slots : e = th[t].edge /\ k = th[t].slot
    BY <1>1, <1>2 DEF Sound, EdgeLabels, SlotLabels
  <1>5. /\ row[n].edge = e /\ vnic[e][k] = n /\ th[t].ips = Addresses(n)
        /\ iface[e][k].net \in {n, NoNet} /\ ~iface[e][k].left
        /\ iface[e][k] # NoIf => iface[e][k].net = n
        /\ \A d \in Edges, j \in Slots : iface[d][j].net = n => d = e /\ j = k
    BY <1>1, <1>3, <1>4, OwnSlot
  <1> DEFINE own == [net |-> IF iface[e][k] = NoIf THEN n ELSE iface[e][k].net, ips |-> Addresses(n),
                     left |-> iface[e][k].left /\ iface[e][k].net # n]
             f == [j \in Slots |-> IF j = k THEN own ELSE IF j \in Clashing(t) THEN NoIf ELSE iface[e][j]]
  <1>6. own.net = n /\ own.ips = Addresses(n) /\ ~own.left
    BY <1>5
  <1>7. iface' = [iface EXCEPT ![e] = f] /\ \A j \in Clashing(t) : iface[e][j].net \notin nets
    <2>1. \A j \in Clashing(t) : iface[e][j].net \notin nets
      BY <1>4 DEF UpdateIf, Dead
    <2>2. iface' = [iface EXCEPT ![e] = [j \in Slots |->
            IF j = k THEN [net |-> IF iface[e][k] = NoIf THEN th[t].n ELSE iface[e][k].net, ips |-> th[t].ips,
                           left |-> iface[e][k].left /\ iface[e][k].net # th[t].n]
            ELSE IF j \in Clashing(t) THEN NoIf ELSE iface[e][j]]]
      BY <1>2, <1>4 DEF UpdateIf, Tables
    <2> QED  BY <1>3, <1>5, <2>1, <2>2
  <1> HIDE DEF own
  <1>8. /\ iface'[e][k] = own
        /\ \A d \in Edges, j \in Slots : (d # e \/ j # k) =>
             iface'[d][j] = iface[d][j] \/ (iface'[d][j] = NoIf /\ iface[d][j].net \notin nets)
    <2>1. iface'[e] = f /\ \A d \in Edges \ {e} : iface'[d] = iface[d]
      <3> HIDE DEF f
      <3> QED  BY <1>2, <1>7 DEF Tables
    <2> QED  BY <1>7, <2>1
  <1> HIDE DEF f
  <1>9. th'[t].pc = "idle" /\ th'[t].op = "none" /\ th'[t].n = NoNet /\ ~th'[t].bad /\ \A u \in Threads \ {t} : th'[u] = th[u]
    <2>1. th'[t] = Idle /\ \A u \in Threads \ {t} : th'[u] = th[u]
      BY <1>1, <1>2, DoneTypes
    <2> QED  BY <2>1, IdleSound DEF Idle
  <1>10. \A u \in Threads \ {t} : th'[u] = th[u] /\ th[u].n # n
    BY <1>1, <1>3, <1>9, OneRequest
  <1>11. \A s \in Subnets : s \in Held(n)' <=> NetOf[s] = n /\ subnet[s] # "none"
    <2>1. \A u \in Threads \ {t} : th'[u].n # n
      BY <1>10
    <2>2. \A s \in Subnets : s \in Held(n)' <=> NetOf[s] = n /\ subnet'[s] # "none"
      BY <1>2, <1>9, <2>1, HeldNext
    <2> QED  BY <1>1, <2>2 DEF dbVars
  <1>12. Held(n)' \subseteq Held(n)
    <2>1. ~Unsettled(t)
      BY <1>1 DEF Unsettled
    <2>2. \A s \in Subnets : s \in Held(n)' => s \in Held(n)
      BY <1>2, <1>10, <1>11, <2>1, HeldOf
    <2> QED  BY <2>2 DEF Held
  <1>13. Addresses(n) \subseteq Held(n)' /\ Addresses(n)' = Addresses(n)
    BY <1>1, <1>11 DEF Addresses, SubnetsOf, dbVars
  <1>14. NoNet \notin nets /\ NoIf.net = NoNet /\ NoIf.left = FALSE
    BY <1>2, DhcpAssumption DEF Tables, NoIf
  <1>15. Aside(t, n)
    <2>1. ASSUME NEW d \in Edges, NEW j \in Slots, iface[d][j].net \in nets \ {n} \/ iface'[d][j].net \in nets \ {n}
          PROVE  iface'[d][j] = iface[d][j]
      <3>1. d # e \/ j # k
        BY <1>5, <1>6, <1>8, <1>14, <2>1
      <3> QED  BY <1>8, <1>14, <2>1, <3>1
    <2> QED  BY <1>1, <1>3, <1>9, <1>10, <1>12, <2>1 DEF Aside, dbVars
  <1>16. Clean'
    <2>1. ASSUME NEW d \in Edges, NEW j \in Slots
          PROVE  ~iface'[d][j].left /\ (iface'[d][j].net = NoNet => iface'[d][j] = NoIf)
      <3>1. CASE d = e /\ j = k
        BY <1>3, <1>6, <1>8, <3>1
      <3>2. CASE d # e \/ j # k
        BY <1>8, <1>14, <3>2 DEF Serving, Clean
      <3> QED  BY <3>1, <3>2
    <2> QED  BY <2>1 DEF Clean
  <1>17. Follows'
    <2>1. ASSUME NEW d \in Edges, NEW j \in Slots, NEW m, m = iface'[d][j].net, m # NoNet
          PROVE  vnic'[d][j] = m \/ Freed(d, j, m)'
      <3>1. CASE d = e /\ j = k
        BY <1>1, <1>5, <1>6, <1>8, <2>1, <3>1
      <3>2. CASE d # e \/ j # k
        <4>1. m = iface[d][j].net /\ m # n
          BY <1>5, <1>8, <1>14, <2>1, <3>2
        <4> QED  BY <1>1, <1>3, <1>9, <2>1, <4>1, FollowsKept
      <3> QED  BY <3>1, <3>2
    <2> QED  BY <2>1 DEF Follows
  <1>18. Knows(t)'
    BY <1>9, NoRoom DEF Knows, HasPlace, Choosable
  <1>19. \A d \in Edges, j \in Slots : iface'[d][j].net = n => iface'[d][j].ips \subseteq Held(n)'
    <2>1. ASSUME NEW d \in Edges, NEW j \in Slots, iface'[d][j].net = n PROVE iface'[d][j] = own
      <3>1. iface[d][j].net = n \/ (d = e /\ j = k)
        BY <1>3, <1>8, <1>14, <2>1
      <3> QED  BY <1>5, <1>8, <3>1
    <2> QED  BY <1>6, <1>13, <2>1
  <1>20. \A m \in Nets \ {n} : (row'[n].edge = row[m].edge /\ row[m].edge # NoEdge)
           => ~Clash(Held(m), Held(n)') /\ ~Clash(Held(n)', Held(m))
    BY <1>1, <1>12, StillApart
  <1>21. Rested(n)'
    <2>1. row'[n].edge = e /\ vnic'[e][k] = n /\ iface'[e][k].net = n /\ iface'[e][k].ips = Addresses(n)'
      BY <1>1, <1>5, <1>6, <1>8, <1>13
    <2> QED  BY <2>1 DEF Rested
  <1> QED  BY <1>9, <1>15, <1>16, <1>17, <1>18, <1>19, <1>20, <1>21, AsideServes

\* Without a failure no live network has the addresses that are set.
LEMMA UpdateFailsServes == ASSUME IInv, faults' = 0, Serving, NEW t \in Threads, UpdateFails(t) PROVE FALSE
  <1>1. th[t].pc = "updateIf" /\ \E j \in Clashing(t) : ~Dead(th[t].edge, j)
    BY FaultGrows DEF UpdateFails, At
  <1>2. Types /\ Sound(th[t]) /\ th[t].op \in OpsAt("updateIf")
    BY <1>1, AtWork
  <1>3. PICK n \in Nets : n = th[t].n /\ n \in nets
    BY <1>1, AtWork
  <1>4. PICK e \in Edges, k \in Slots : e = th[t].edge /\ k = th[t].slot
    BY <1>1, <1>2 DEF Sound, EdgeLabels, SlotLabels
  <1>5. /\ row[n].edge = e /\ vnic[e][k] = n /\ th[t].ips = Addresses(n)
        /\ \A d \in Edges, j \in Slots : iface[d][j].net = n => d = e /\ j = k
    BY <1>1, <1>3, <1>4, OwnSlot
  <1>6. PICK j \in Slots \ {k} : Clash(Addresses(n), iface[e][j].ips) /\ iface[e][j].net \in nets
    BY <1>1, <1>4, <1>5 DEF Clashing, Dead
  <1>7. PICK m \in Nets : m = iface[e][j].net /\ m \in nets /\ m # n
    BY <1>2, <1>5, <1>6 DEF Types, TypeOK
  <1>8. row[m].edge = e
    <2>1. m # NoNet
      BY DhcpAssumption
    <2>2. CASE vnic[e][j] = m
      BY <1>7, <2>2 DEF IInv, OneSlot
    <2>3. CASE Freed(e, j, m)
      <3>1. PICK u \in Threads : th[u].n = m /\ th[u].pc \in {"moveIf", "delIf"} /\ th[u].edge = e
        BY <2>3 DEF Freed
      <3> QED  BY <3>1, AtWork DEF HasRow
    <2> QED  BY <1>7, <2>1, <2>2, <2>3 DEF Serving, Follows
  <1>9. iface[e][j].ips \subseteq Held(m)
    BY <1>7 DEF Serving, Holds
  <1>10. Addresses(n) \subseteq Held(n)
    <2>1. ~Unsettled(t) /\ \A u \in Threads \ {t} : th[u].n # n
      BY <1>1, <1>3, OneRequest DEF Unsettled
    <2>2. \A s \in Subnets : (NetOf[s] = n /\ subnet[s] # "none") => s \in Held(n)
      BY <1>2, <2>1, HeldOf
    <2> QED  BY <2>2 DEF Addresses, SubnetsOf
  <1>11. ~Clash(Held(n), Held(m))
    BY <1>5, <1>7, <1>8, DhcpAssumption DEF Serving, HeldApart
  <1> QED  BY <1>6, <1>9, <1>10, <1>11 DEF Clash

\* The job has nothing to do.
LEMMA NoJob ==
  ASSUME IInv, faults = 0, Serving, NEW t \in Threads
  PROVE  ~Job(t) /\ ~StartJob(t)
  <1>1. ~StartJob(t)
    BY DEF IInv, Healthy, StartJob
  <1>2. th[t].pc \notin {"jobPool", "job", "jobSync"}
    <2>1. th[t].op # "job" /\ Sound(th[t])
      BY DEF Serving, Knows, IInv, Types
    <2> QED  BY <2>1, Table DEF Sound
  <1>3. ~Job(t)
    BY <1>2 DEF Job, JobGroup, JobRows, JobSync, JobFails, At
  <1> QED  BY <1>1, <1>3

\* Nothing is done about the failures that there were.
LEMMA FaultsStay ==
  ASSUME IInv, [Next]_vars PROVE faults' = 0 => faults = 0
  <1>1. CASE UNCHANGED vars
    BY <1>1 DEF vars
  <1>2. ASSUME NEW t \in Threads, Choosing(t) PROVE UNCHANGED faults \/ Fault
    BY <1>2 DEF Choosing, ReadRow, LockPool, Stay, Move, MoveIf, DeleteIface, Reuse, New, NoNew, FindSlot, SetSlot
  <1>3. ASSUME NEW t \in Threads, Updating(t) PROVE UNCHANGED faults \/ Fault
    BY <1>3 DEF Updating, Update, UpdateIf, UpdateFails
  <1>4. ASSUME NEW t \in Threads, Deleting(t) PROVE UNCHANGED faults \/ Fault
    BY <1>4 DEF Deleting, DeleteRead, DeleteSlot, DeleteIf, DeleteIface
  <1>5. ASSUME NEW t \in Threads, Request(t) PROVE UNCHANGED faults
    BY <1>5 DEF Request, DeleteSubnet, Enable, DeleteNet
  <1>6. ASSUME NEW t \in Threads, Job(t) PROVE UNCHANGED faults \/ Fault
    BY <1>6 DEF Job, JobGroup, JobRows, JobSync, JobFails
  <1>7. ASSUME NEW t \in Threads, Start(t) PROVE UNCHANGED faults
    BY <1>7 DEF Start, StartCreate, StartDelete, StartDisable, StartEnable, StartPort, StartDeleteNet, StartJob
  <1>8. UNCHANGED faults \/ Fault
    BY <1>1, <1>2, <1>3, <1>4, <1>5, <1>6, <1>7 DEF Next, Work, Rest, vars
  <1> QED  BY <1>8, FaultGrows

\* A step that changes nothing.
LEMMA SameServes == ASSUME Serving, UNCHANGED vars PROVE Serving'
  <1>1. UNCHANGED <<nets, subnet, row, vnic, iface, free, lock, th, faults>>
    BY DEF vars, dbVars, edgeVars
  <1>2. \A n \in Nets : Held(n)' = Held(n)
    <2>1. \A u \in Threads : Unsettled(u)' <=> Unsettled(u)
      BY <1>1 DEF Unsettled, MustMove
    <2>2. \A s : (Fresh(s)' <=> Fresh(s)) /\ (Going(s)' <=> Going(s))
      BY <1>1, <2>1 DEF Fresh, Going
    <2> QED  BY <1>1, <2>2 DEF Held
  <1>3. \A n : SubnetsOf(n)' = SubnetsOf(n) /\ Addresses(n)' = Addresses(n) /\ (DhcpOn(n)' <=> DhcpOn(n))
    BY <1>1 DEF SubnetsOf, Addresses, DhcpOn
  <1>4. \A n : Placed(n)' <=> Placed(n)
    BY <1>1 DEF Placed
  <1>5. \A e : FreeSlots(e)' = FreeSlots(e)
    BY <1>1 DEF FreeSlots, SlotsOf
  <1>6. ASSUME NEW t \in Threads PROVE Knows(t)'
    <2>1. Knows(t) /\ th'[t] = th[t]
      BY <1>1 DEF Serving
    <2>2. PICK n : n = th[t].n
      OBVIOUS
    <2>3. HasPlace(t)'
      BY <1>1, <1>3, <1>4, <2>1, <2>2 DEF Knows, HasPlace
    <2>4. HasRoom(t)'
      <3>1. HasRoom(t)
        BY <2>1 DEF Knows
      <3>2. PICK e : e = th[t].edge
        OBVIOUS
      <3>3. th[t].pc \in Choosable => \A m \in Nets \ {n} : row'[m].edge \in th[t].avail => ~Clash(SubnetsOf(n)', Held(m)')
        BY <1>1, <1>2, <1>3, <2>2, <3>1 DEF HasRoom
      <3>4. th[t].pc \in Choosable => \A d \in th[t].avail : FreeSlots(d)' # {}
        BY <1>5, <3>1 DEF HasRoom
      <3>5. th[t].pc = "slot" => FreeSlots(e)' # {}
        BY <1>5, <3>1, <3>2 DEF HasRoom
      <3> QED  BY <2>1, <2>2, <3>2, <3>3, <3>4, <3>5 DEF HasRoom, Clash
    <2> QED  BY <2>1, <2>3, <2>4 DEF Knows
  <1>7. Clean' /\ FreedApart'
    BY <1>1 DEF Serving, Clean, FreedApart
  <1>8. Follows'
    BY <1>1 DEF Serving, Follows, Freed
  <1>9. Holds'
    <2>1. ASSUME NEW e \in Edges, NEW k \in Slots, NEW n \in nets, n = iface[e][k].net
          PROVE  iface[e][k].ips \subseteq Held(n)'
      <3>1. \A s : (Fresh(s)' <=> Fresh(s)) /\ (Going(s)' <=> Going(s))
        BY <1>1 DEF Fresh, Going, Unsettled, MustMove
      <3>2. Held(n)' = Held(n)
        BY <1>1, <3>1 DEF Held
      <3> QED  BY <2>1, <3>2 DEF Serving, Holds
    <2> QED  BY <1>1, <2>1 DEF Holds
  <1>10. HeldApart'
    <2>1. ASSUME NEW m \in Nets, NEW n \in Nets, m # n, row[m].edge = row[n].edge, row[n].edge # NoEdge
          PROVE  ~Clash(Held(n)', Held(m)')
      BY <1>2, <2>1 DEF Serving, HeldApart
    <2> QED  BY <1>1, <2>1 DEF HeldApart, Clash
  <1>11. Resting'
    <2>1. \A n : Rested(n) => Rested(n)'
      BY <1>1, <1>3 DEF Rested
    <2> QED  BY <1>1, <2>1 DEF Serving, Resting
  <1> QED  BY <1>6, <1>7, <1>8, <1>9, <1>10, <1>11 DEF Serving

\* At first there is nothing to serve.
LEMMA InitServes == ASSUME Init PROVE Serving
  <1>1. \A t \in Threads : th[t].pc = "idle" /\ th[t].op = "none" /\ ~th[t].bad
    BY DEF Init, Idle
  <1>2. \A n \in Nets : row[n] = NoRow /\ row[n].edge = NoEdge /\ ~DhcpOn(n)
    BY NoRowType DEF Init, DhcpOn, Addresses, SubnetsOf
  <1>3. \A e \in Edges, k \in Slots : iface[e][k] = NoIf /\ iface[e][k].net = NoNet /\ ~iface[e][k].left
    BY DEF Init, NoIfs, NoIf
  <1>4. \A t \in Threads : Knows(t)
    BY <1>1 DEF Knows, HasPlace, HasRoom, Choosable
  <1>5. Clean /\ Follows /\ FreedApart
    BY <1>1, <1>3 DEF Clean, Follows, FreedApart
  <1>6. Holds
    BY <1>3, DhcpAssumption DEF Init, Holds
  <1>7. HeldApart
    BY <1>2 DEF HeldApart
  <1>8. Resting
    BY <1>2 DEF Init, Resting, Rested
  <1> QED  BY <1>4, <1>5, <1>6, <1>7, <1>8 DEF Serving

\* Every step keeps every network served, while the backend never failed.
LEMMA NextServes == ASSUME ~Races, SInv, [Next]_vars PROVE SInv'
  <1>1. IInv /\ IInv'
    BY NextSafe DEF SInv
  <1>2. ASSUME faults' = 0 PROVE Serving'
    <2>1. faults = 0 /\ Serving
      BY <1>1, <1>2, FaultsStay DEF SInv
    <2>2. CASE UNCHANGED vars
      BY <2>1, <2>2, SameServes
    <2>3. ASSUME NEW t \in Threads, Choosing(t) PROVE Serving'
      BY <1>1, <1>2, <2>1, <2>3, ReadRowServes, LockPoolServes, StayServes, MoveServes, MoveIfServes, ReuseServes,
         NewServes, NoNewServes, FindSlotServes, SetSlotServes DEF Choosing
    <2>4. ASSUME NEW t \in Threads, Updating(t) \/ Deleting(t) PROVE Serving'
      BY <1>1, <1>2, <2>1, <2>4, UpdateServes, UpdateIfServes, UpdateFailsServes, DeleteReadServes, DeleteSlotServes,
         DeleteIfServes DEF Updating, Deleting
    <2>5. ASSUME NEW t \in Threads, Request(t) PROVE Serving'
      BY <1>1, <2>1, <2>5, DeleteSubnetServes, EnableServes, DeleteNetServes DEF Request
    <2>6. ASSUME NEW t \in Threads, Job(t) PROVE Serving'
      BY <1>1, <2>1, <2>6, NoJob
    <2>7. ASSUME NEW t \in Threads, Start(t) PROVE Serving'
      BY <1>1, <2>1, <2>7, StartCreateServes, StartDeleteServes, StartDisableServes, StartEnableServes, StartPortServes,
         StartDeleteNetServes, NoJob DEF Start
    <2> QED  BY <2>2, <2>3, <2>4, <2>5, <2>6, <2>7 DEF Next, Work, Rest
  <1> QED  BY <1>1, <1>2 DEF SInv

\* A network that rests and has DHCP is served.
LEMMA ServedFollows == ASSUME SInv PROVE Served
  <1>1. ASSUME faults = 0, NEW n \in nets, DhcpOn(n), ~Touched(n)
        PROVE  \E e \in Edges, k \in Slots : ServedOn(e, k, n)
    <2>1. Serving /\ Types /\ n \in Nets
      BY <1>1 DEF SInv, IInv, Types, TypeOK
    <2>2. Rested(n)
      BY <1>1, <2>1 DEF Serving, Resting, Touched
    <2>3. PICK e \in Edges, k \in Slots : row[n].edge = e /\ vnic[e][k] = n /\ iface[e][k].net = n /\ iface[e][k].ips = Addresses(n)
      BY <1>1, <2>2 DEF Rested
    <2>4. row[n] = [edge |-> e, status |-> "ACTIVE"]
      <3>1. row[n] \in [edge : Edges \cup {NoEdge}, status : {"none", "ACTIVE", "ERROR"}]
        BY <2>1 DEF Types, TypeOK
      <3>2. row[n].status = "ACTIVE"
        BY <1>1, <2>1, <2>3, NoRowType, DhcpAssumption DEF Types, Rows, SInv, IInv, Healthy
      <3> QED  BY <2>3, <3>1, <3>2
    <2>5. iface[e][k] = [net |-> n, ips |-> Addresses(n), left |-> FALSE]
      <3>1. iface[e][k] \in [net : Nets \cup {NoNet}, ips : SUBSET Subnets, left : BOOLEAN]
        BY <2>1 DEF Types, TypeOK
      <3>2. ~iface[e][k].left
        BY <2>1 DEF Serving, Clean
      <3>3. iface[e][k].left = FALSE
        BY <3>1, <3>2
      <3> QED  BY <2>3, <3>1, <3>3
    <2> QED  BY <2>3, <2>4, <2>5 DEF ServedOn
  <1> QED  BY <1>1 DEF Served

\* While the backend never failed, a network with DHCP that nobody works on has its row, its
\* slot and its sub-interface with all its addresses at one edge (Served):
\* create_dhcp_edge_service always finds it an edge with room and without overlapping
\* addresses, and _update_dhcp_address sets what the subnets are.
THEOREM NetworksServed == ASSUME ~Races PROVE Spec => []Served
  <1>1. Init => SInv
    BY InitSafe, InitServes DEF SInv
  <1>2. SInv /\ [Next]_vars => SInv'
    BY NextServes
  <1>3. SInv => Served
    BY ServedFollows
  <1> QED  BY <1>1, <1>2, <1>3, PTL DEF Spec
=============================================================================
