------------------------------ MODULE NativeDhcp ------------------------------
(***************************************************************************)
(* A network of the NSX-V3 plugin with native DHCP: its logical switch, its*)
(* IPv4 subnets, the ports of its instances and the DHCP server that the   *)
(* plugin keeps for it at the backend.  A server comes with a Neutron port,*)
(* a logical port, a row that binds it to the network, and a static binding*)
(* with a row of its own for each address of an instance; the Neutron port,*)
(* the logical port and the server of one enabling share an id here.       *)
(*                                                                         *)
(* Requests on subnets hold 'nsxv3_network_<id>' while they change the     *)
(* server; requests on ports, and the deletion of the network once DHCP is *)
(* off, hold no lock.  The handlers of networks and ports are those of the *)
(* NSX-V3 plugin, the rest is common_v3.                                   *)
(***************************************************************************)
EXTENDS Naturals, FiniteSets

CONSTANTS
  Threads, Subnets, Ports, Servers,
  NoThread, NoSubnet, NoPort, NoServer

ASSUME NativeDhcpAssumption ==
  /\ NoThread \notin Threads /\ NoSubnet \notin Subnets
  /\ NoPort \notin Ports /\ NoServer \notin Servers

VARIABLES
  net,      \* whether the database has the network
  switch,   \* what the backend has of it: the logical switch, the metadata port
  subnet,   \* subnets in the database: "none", "plain" or "dhcp"
  port,     \* ports in the database: the subnet of the address
  lport,    \* ports at the backend (and in neutron_nsx_port_mappings)
  service,  \* the row of neutron_nsx_service_bindings
  dport,    \* Neutron's DHCP ports
  dlport,   \* their logical ports
  server,   \* DHCP servers at the backend
  static,   \* static bindings at the backend: server, port, subnet
  rows,     \* neutron_nsx_dhcp_bindings
  orphan,   \* (history) servers that a failure the code does not undo, or the deletion of
            \* the network from under its server, may have left behind
  raced,    \* (history) ports that were being bound to a server while it was taken away
  lock,     \* holder of 'nsxv3_network_<id>'
  th        \* the request of each thread

netVars  == <<net, switch>>
portVars == <<port, lport, raced>>
dhcpVars == <<service, dport, dlport, server, orphan>>
bindVars == <<static, rows>>
vars     == <<netVars, subnet, portVars, dhcpVars, bindVars, lock, th>>

Idle == [pc |-> "idle", op |-> "none", s |-> NoSubnet, p |-> NoPort, old |-> NoSubnet, k |-> NoServer,
         q |-> NoPort, seen |-> {}, todo |-> {}, failed |-> FALSE]
SubnetOps == {"create", "enable", "disable", "delete"}
PortOps   == {"newport", "delport", "move"}
NetOps    == {"newnet", "delnet"}

At(t, label)   == th[t].pc = label
Goto(t, label) == th' = [th EXCEPT ![t].pc = label]
Done(t)        == /\ th' = [th EXCEPT ![t] = Idle]
                  /\ lock' = IF lock = t THEN NoThread ELSE lock
\* A request meets one failure of the backend at most.
CanFail(t)     == ~th[t].failed
FailTo(t, label) == th' = [th EXCEPT ![t].pc = label, ![t].failed = TRUE]

DhcpSubnets == {s \in Subnets : subnet[s] = "dhcp"}
OnSubnet(s) == {p \in Ports : port[p] = s}
\* super().delete_subnet refuses a subnet with ports in use.
Undo(s)     == IF OnSubnet(s) = {} THEN [subnet EXCEPT ![s] = "none"] ELSE subnet
Used        == orphan \cup dport \cup dlport \cup server \cup {service}

\* Two requests on one subnet, or on one port, follow one another; others overlap.  A
\* network that is created is a new one.
Begin(t, op, s, p, label) ==
  /\ th[t] = Idle
  /\ \A u \in Threads : (op \in SubnetOps /\ th[u].op \in SubnetOps => th[u].s # s)
                       /\ (op \in PortOps => th[u].p # p)
  /\ IF op = "newnet" THEN \A u \in Threads : th[u] = Idle
                      ELSE net /\ \A u \in Threads : th[u].op # "newnet"
  /\ th' = [th EXCEPT ![t] = [Idle EXCEPT !.pc = label, !.op = op, !.s = s, !.p = p,
                                          !.old = IF p = NoPort THEN NoSubnet ELSE port[p],
                                          !.seen = DhcpSubnets]]

-----------------------------------------------------------------------------
(* create_network, delete_network                                          *)

\* The logical switch is created before the rows.
StartNewNet(t) ==
  /\ ~net /\ switch = {} /\ Begin(t, "newnet", NoSubnet, NoPort, "netDb")
  /\ switch' = {"switch"}
  /\ UNCHANGED <<net, subnet, portVars, dhcpVars, bindVars, lock>>
NetDb(t) ==
  /\ At(t, "netDb")
  /\ \/ net' = TRUE /\ Goto(t, "md") /\ UNCHANGED <<switch, lock>>
     \/ switch' = {} /\ Done(t) /\ UNCHANGED net
  /\ UNCHANGED <<subnet, portVars, dhcpVars, bindVars>>
\* The port of the metadata proxy; should it fail, the switch and the network go.
NetMetadata(t) ==
  /\ At(t, "md")
  /\ \/ switch' = switch \cup {"md"} /\ UNCHANGED net
     \/ switch' = {} /\ net' = FALSE
  /\ Done(t)
  /\ UNCHANGED <<subnet, portVars, dhcpVars, bindVars>>

\* _delete_network_disable_dhcp
StartDeleteNet(t) ==
  /\ Begin(t, "delnet", NoSubnet, NoPort, "netLock")
  /\ UNCHANGED <<netVars, subnet, portVars, dhcpVars, bindVars, lock>>
NetLock(t) ==
  /\ At(t, "netLock") /\ lock = NoThread
  /\ IF \E p \in Ports : port[p] # NoSubnet
     THEN Goto(t, "netGone") /\ UNCHANGED lock
     ELSE Goto(t, "off") /\ lock' = t
  /\ UNCHANGED <<netVars, subnet, portVars, dhcpVars, bindVars>>
\* The rows that refer to the network go with it, and DHCP ports are deleted.
NetGone(t) ==
  /\ At(t, "netGone")
  /\ IF ~net \/ \E p \in Ports : port[p] # NoSubnet
     THEN th' = [th EXCEPT ![t] = Idle] /\ UNCHANGED <<net, subnet, service, dport, orphan>>
     ELSE /\ net' = FALSE /\ subnet' = [s \in Subnets |-> "none"]
          /\ service' = NoServer /\ dport' = {} /\ orphan' = orphan \cup ({service} \cap Servers)
          /\ Goto(t, "switchGone")
  /\ UNCHANGED <<switch, portVars, dlport, server, bindVars, lock>>
\* A failure leaves the switch behind.
SwitchGone(t) ==
  /\ At(t, "switchGone") /\ Done(t)
  /\ switch' \in {{}, switch}
  /\ UNCHANGED <<net, subnet, portVars, dhcpVars, bindVars>>

-----------------------------------------------------------------------------
(* Subnets.  create_ and update_subnet read the network before they take   *)
(* the lock, delete_subnet reads it under the lock.                        *)

CreatePlain(t, s) ==
  /\ th[t] = Idle /\ net /\ subnet[s] = "none"
  /\ \A u \in Threads : th[u].op # "newnet" /\ (th[u].op \in SubnetOps => th[u].s # s)
  /\ subnet' = [subnet EXCEPT ![s] = "plain"]
  /\ UNCHANGED <<netVars, portVars, dhcpVars, bindVars, lock, th>>
StartCreate(t, s) ==
  /\ subnet[s] = "none" /\ Begin(t, "create", s, NoPort, "lock")
  /\ UNCHANGED <<netVars, subnet, portVars, dhcpVars, bindVars, lock>>
StartUpdate(t, s) ==
  /\ \/ subnet[s] = "plain" /\ Begin(t, "enable", s, NoPort, "lock")
     \/ subnet[s] = "dhcp" /\ Begin(t, "disable", s, NoPort, "lock")
  /\ UNCHANGED <<netVars, subnet, portVars, dhcpVars, bindVars, lock>>
StartDelete(t, s) ==
  /\ \/ subnet[s] = "dhcp" /\ Begin(t, "delete", s, NoPort, "lock")
     \/ subnet[s] = "plain" /\ Begin(t, "delete", s, NoPort, "gone")
  /\ UNCHANGED <<netVars, subnet, portVars, dhcpVars, bindVars, lock>>

\* Mutant: the lock is not taken.
TurnOnUnlocked(t) ==
  /\ At(t, "lock") /\ th[t].op \in {"create", "enable"}
  /\ IF net /\ th[t].seen = {}
     THEN subnet' = [subnet EXCEPT ![th[t].s] = "dhcp"] /\ UNCHANGED lock /\ Goto(t, "off")
     ELSE Done(t) /\ UNCHANGED subnet
  /\ UNCHANGED <<netVars, portVars, dhcpVars, bindVars>>
\* _has_no_dhcp_enabled_subnet of the network that was read before.
TurnOn(t) ==
  /\ At(t, "lock") /\ th[t].op \in {"create", "enable"} /\ lock = NoThread
  /\ IF net /\ th[t].seen = {}
     THEN /\ subnet' = [subnet EXCEPT ![th[t].s] = "dhcp"]
          /\ lock' = t /\ Goto(t, "off")
     ELSE Done(t) /\ UNCHANGED subnet
  /\ UNCHANGED <<netVars, portVars, dhcpVars, bindVars>>
\* _validate_address_space refuses what was created.
BadAddress(t) ==
  /\ At(t, "off") /\ th[t].op = "create"
  /\ subnet' = Undo(th[t].s) /\ Done(t)
  /\ UNCHANGED <<netVars, portVars, dhcpVars, bindVars>>
\* _has_single_dhcp_enabled_subnet: otherwise the server stays.
TurnOff(t) ==
  /\ At(t, "lock") /\ th[t].op \in {"disable", "delete"} /\ lock = NoThread
  /\ LET single == IF th[t].op = "delete" THEN DhcpSubnets ELSE th[t].seen IN
     IF Cardinality(single) = 1
     THEN lock' = t /\ Goto(t, "off")
     ELSE Goto(t, "gone") /\ UNCHANGED lock
  /\ UNCHANGED <<netVars, subnet, portVars, dhcpVars, bindVars>>
\* The subnet itself: a subnet with ports in use cannot be deleted.
SubnetGone(t) ==
  /\ At(t, "gone")
  /\ subnet' = CASE ~net -> subnet
                 [] th[t].op = "disable" -> [subnet EXCEPT ![th[t].s] = "plain"]
                 [] OTHER -> Undo(th[t].s)
  /\ Done(t)
  /\ UNCHANGED <<netVars, portVars, dhcpVars, bindVars>>

-----------------------------------------------------------------------------
(* _disable_native_dhcp, also the first step of enabling                   *)

Disabling == {"off", "offPort", "offServer", "offService", "offRows"}
AfterOff  == [create |-> "read", enable |-> "read", disable |-> "gone", delete |-> "gone", delnet |-> "netGone"]
\* The deletion of the network leaves the lock, the others keep it.
Leave(t) == lock' = IF th[t].op = "delnet" THEN NoThread ELSE lock
Off(t) ==
  /\ At(t, "off")
  /\ IF service = NoServer
     THEN Goto(t, AfterOff[th[t].op]) /\ Leave(t)
     ELSE th' = [th EXCEPT ![t].pc = "offPort", ![t].k = service] /\ UNCHANGED lock
  /\ UNCHANGED <<netVars, subnet, portVars, dhcpVars, bindVars>>
\* _cleanup_port of the logical port that the Neutron port has; that a port is not
\* found is ignored.
OffPort(t) ==
  /\ At(t, "offPort") /\ Goto(t, "offServer")
  /\ dport' = dport \ {th[t].k} /\ dlport' = dlport \ ({th[t].k} \cap dport)
  /\ UNCHANGED <<orphan, netVars, subnet, portVars, service, server, bindVars, lock>>
\* The backend deletes the bindings of a server with it.
OffServer(t) ==
  /\ At(t, "offServer") /\ Goto(t, "offService")
  /\ server' = server \ {th[t].k} /\ static' = {b \in static : b[1] # th[t].k}
  /\ UNCHANGED <<orphan, netVars, subnet, portVars, service, dport, dlport, rows, lock>>
\* A port whose binding was made on this server may still get a row.
OffService(t) ==
  /\ At(t, "offService") /\ Goto(t, "offRows") /\ service' = NoServer
  /\ raced' = raced \cup {th[u].p : u \in {u \in Threads : th[u].op = "newport" /\ th[u].pc = "bindRow"}}
  /\ UNCHANGED <<orphan, netVars, subnet, port, lport, dport, dlport, server, bindVars, lock>>
\* Mutant: the rows of the bindings stay.
OffRowsKept(t) ==
  /\ At(t, "offRows") /\ th' = [th EXCEPT ![t].pc = AfterOff[th[t].op], ![t].k = NoServer]
  /\ Leave(t)
  /\ UNCHANGED <<netVars, subnet, portVars, dhcpVars, bindVars>>
OffRows(t) ==
  /\ At(t, "offRows") /\ th' = [th EXCEPT ![t].pc = AfterOff[th[t].op], ![t].k = NoServer]
  /\ Leave(t) /\ rows' = {b \in rows : b[1] # th[t].k}
  /\ UNCHANGED <<netVars, subnet, portVars, dhcpVars, static>>
\* A failure ends the request, but the deletion of a subnet goes on.  A new subnet is
\* deleted again when it is the backend's failure, not the database's.
OffFails(t) ==
  /\ th[t].pc \in Disabling \ {"off"} /\ CanFail(t)
  /\ IF th[t].op = "delete"
     THEN FailTo(t, "gone") /\ UNCHANGED <<subnet, lock>>
     ELSE /\ Done(t)
          /\ subnet' = IF th[t].op = "create" /\ th[t].pc \in {"offPort", "offServer"}
                       THEN Undo(th[t].s) ELSE subnet
  /\ orphan' = IF At(t, "offRows") THEN orphan \cup {th[t].k} ELSE orphan
  /\ UNCHANGED <<netVars, portVars, service, dport, dlport, server, bindVars>>

-----------------------------------------------------------------------------
(* _enable_native_dhcp                                                     *)

ReadPorts(t) ==
  /\ At(t, "read") /\ th' = [th EXCEPT ![t].pc = "dport", ![t].todo = OnSubnet(th[t].s)]
  /\ UNCHANGED <<netVars, subnet, portVars, dhcpVars, bindVars, lock>>
AddDhcpPort(t) ==
  /\ At(t, "dport") /\ net
  /\ \E k \in Servers \ Used :
       /\ dport' = dport \cup {k}
       /\ th' = [th EXCEPT ![t].pc = "server", ![t].k = k]
  /\ UNCHANGED <<orphan, netVars, subnet, portVars, service, dlport, server, bindVars, lock>>
\* There is no network, or no address left in the subnet; the subnet stays as it is.
NoDhcpPort(t) ==
  /\ At(t, "dport") /\ (CanFail(t) \/ ~net) /\ Done(t)
  /\ UNCHANGED <<netVars, subnet, portVars, dhcpVars, bindVars>>
AddServer(t) ==
  /\ At(t, "server") /\ server' = server \cup {th[t].k} /\ Goto(t, "dlport")
  /\ UNCHANGED <<orphan, netVars, subnet, portVars, service, dport, dlport, bindVars, lock>>
AddLogicalPort(t) ==
  /\ At(t, "dlport") /\ "switch" \in switch /\ dlport' = dlport \cup {th[t].k} /\ Goto(t, "service")
  /\ UNCHANGED <<orphan, netVars, subnet, portVars, service, dport, server, bindVars, lock>>
\* The backend refuses the server or its port: what was made is deleted, and so is
\* a new subnet, but not the update of a subnet.
EnableFails(t) ==
  LET k == th[t].k IN
  /\ th[t].pc \in {"server", "dlport"} /\ (CanFail(t) \/ (At(t, "dlport") /\ switch = {})) /\ Done(t)
  /\ server' = server \ {k} /\ dport' = dport \ {k}
  /\ subnet' = IF th[t].op = "create" THEN Undo(th[t].s) ELSE subnet
  /\ UNCHANGED <<orphan, netVars, portVars, service, dlport, bindVars>>
\* ServiceClusterUnavailable: the request ends, whatever was made stays.
Unavailable(t) ==
  /\ th[t].pc \in {"server", "dlport"} /\ CanFail(t) /\ Done(t)
  /\ orphan' = orphan \cup {th[t].k}
  /\ UNCHANGED <<netVars, subnet, portVars, service, dport, dlport, server, bindVars>>
\* Mutant: the row names another resource.
ServiceOfPort(t) ==
  /\ At(t, "service") /\ net
  /\ service' = th[t].s /\ th' = [th EXCEPT ![t].pc = "bind", ![t].k = NoServer]
  /\ UNCHANGED <<orphan, netVars, subnet, portVars, dport, dlport, server, bindVars, lock>>
AddService(t) ==
  /\ At(t, "service") /\ net
  /\ service' = th[t].k /\ th' = [th EXCEPT ![t].pc = "bind", ![t].k = NoServer]
  /\ UNCHANGED <<orphan, netVars, subnet, portVars, dport, dlport, server, bindVars, lock>>
\* The rows cannot be added.
ServiceFails(t) ==
  LET k == th[t].k IN
  /\ At(t, "service") /\ (CanFail(t) \/ ~net) /\ Done(t)
  /\ server' = server \ {k} /\ dport' = dport \ {k} /\ dlport' = dlport \ {k}
  /\ UNCHANGED <<orphan, netVars, subnet, portVars, service, bindVars>>

\* _add_port_mp_dhcp_binding for each port in todo; for a new port the subnet is its own.
AddBinding(t) ==
  /\ At(t, "bind")
  /\ IF th[t].todo = {} \/ service = NoServer \/ subnet[th[t].s] # "dhcp"
     THEN Done(t) /\ UNCHANGED static
     ELSE \E p \in th[t].todo :
            /\ service \in server /\ static' = static \cup {<<service, p, th[t].s>>}
            /\ th' = [th EXCEPT ![t].pc = "bindRow", ![t].k = service, ![t].q = p] /\ UNCHANGED lock
  /\ UNCHANGED <<netVars, subnet, portVars, dhcpVars, rows>>
\* Without the port there can be no row, and the binding is deleted.
AddRow(t) ==
  LET p == th[t].q
      b == <<th[t].k, p, th[t].s>>
  IN
  /\ At(t, "bindRow")
  /\ th' = [th EXCEPT ![t].pc = "bind", ![t].todo = @ \ {p}, ![t].q = NoPort, ![t].k = NoServer]
  /\ IF port[p] # NoSubnet THEN rows' = rows \cup {b} /\ UNCHANGED static
                           ELSE static' = static \ {b} /\ UNCHANGED rows
  /\ UNCHANGED <<netVars, subnet, portVars, dhcpVars, lock>>
\* Mutant: only the row of a new port is deleted again.
BindingFailsKept(t) ==
  /\ At(t, "bind") /\ th[t].todo # {} /\ service # NoServer /\ subnet[th[t].s] = "dhcp"
  /\ CanFail(t) \/ service \notin server
  /\ port' = IF th[t].op = "newport" THEN [port EXCEPT ![th[t].p] = NoSubnet] ELSE port
  /\ Done(t)
  /\ UNCHANGED <<netVars, subnet, lport, raced, dhcpVars, bindVars>>
\* A failure is ignored when DHCP is enabled; a new port is deleted again.
BindingFails(t) ==
  /\ At(t, "bind") /\ th[t].todo # {} /\ service # NoServer /\ subnet[th[t].s] = "dhcp"
  /\ CanFail(t) \/ service \notin server
  /\ IF th[t].op = "newport" THEN FailTo(t, "delLport") /\ UNCHANGED lock ELSE Done(t)
  /\ UNCHANGED <<netVars, subnet, portVars, dhcpVars, bindVars>>

-----------------------------------------------------------------------------
(* create_port, delete_port, update_port                                   *)

\* The rows of a port in the database go with it.
Deleted(p) == /\ port' = [port EXCEPT ![p] = NoSubnet] /\ rows' = {b \in rows : b[2] # p}
              /\ raced' = raced \ {p}
StartPort(t, p, s) ==
  /\ port[p] = NoSubnet /\ subnet[s] # "none"
  /\ Begin(t, "newport", s, p, "newLport") /\ port' = [port EXCEPT ![p] = s]
  /\ UNCHANGED <<netVars, subnet, lport, raced, dhcpVars, bindVars, lock>>
NewLport(t) ==
  LET p == th[t].p IN
  /\ At(t, "newLport")
  /\ \/ lport' = lport \cup {p} /\ th' = [th EXCEPT ![t].pc = "bind", ![t].todo = {p}]
        /\ UNCHANGED <<port, rows, raced, lock>>
     \/ Deleted(p) /\ Done(t) /\ UNCHANGED lport
  /\ UNCHANGED <<netVars, subnet, dhcpVars, static>>

StartDeletePort(t, p) ==
  /\ port[p] # NoSubnet /\ Begin(t, "delport", NoSubnet, p, "delLport")
  /\ UNCHANGED <<netVars, subnet, portVars, dhcpVars, bindVars, lock>>
\* A logical port that is gone already is an error.
DeleteLport(t) ==
  /\ At(t, "delLport")
  /\ \/ th[t].p \in lport /\ lport' = lport \ {th[t].p} /\ UNCHANGED lock
        /\ th' = [th EXCEPT ![t].pc = "unbind", ![t].todo = {b \in rows : b[2] = th[t].p}]
     \/ (CanFail(t) \/ th[t].p \notin lport) /\ Done(t) /\ UNCHANGED lport
  /\ UNCHANGED <<netVars, subnet, port, raced, dhcpVars, bindVars>>
\* _delete_port_mp_dhcp_binding: a binding that the server does not have is an error.
Unbind(t) ==
  /\ At(t, "unbind")
  /\ \E b \in th[t].todo \cap static :
       /\ static' = static \ {b} /\ rows' = rows \ {b}
       /\ th' = [th EXCEPT ![t].todo = @ \ {b}]
  /\ UNCHANGED <<netVars, subnet, portVars, dhcpVars, lock>>
UnbindFails(t) ==
  /\ At(t, "unbind") /\ \E b \in th[t].todo : CanFail(t) \/ b \notin static
  /\ Done(t)
  /\ UNCHANGED <<netVars, subnet, portVars, dhcpVars, bindVars>>
DeletePort(t) ==
  /\ At(t, "unbind") /\ th[t].todo = {} /\ Done(t)
  /\ Deleted(th[t].p)
  /\ UNCHANGED <<netVars, subnet, lport, dhcpVars, static>>

\* The address of a port moves to another subnet; should the backend refuse, it moves
\* back, unless that subnet is gone.
StartMove(t, p, s) ==
  /\ port[p] \notin {NoSubnet, s} /\ subnet[s] # "none"
  /\ Begin(t, "move", s, p, "newLport2") /\ port' = [port EXCEPT ![p] = s]
  /\ UNCHANGED <<netVars, subnet, lport, raced, dhcpVars, bindVars, lock>>
UpdateLport(t) ==
  /\ At(t, "newLport2")
  /\ \/ Goto(t, "moveOut") /\ UNCHANGED <<port, lock>>
     \/ /\ port' = IF subnet[th[t].old] = "none" THEN port ELSE [port EXCEPT ![th[t].p] = th[t].old]
        /\ Done(t)
  /\ UNCHANGED <<netVars, subnet, lport, raced, dhcpVars, bindVars>>
\* _update_port_mp_dhcp_binding: the bindings change at the server, their rows do not.
MoveOut(t) ==
  LET old == {b \in rows : b[2] = th[t].p /\ b[3] = th[t].old /\ subnet[b[3]] = "dhcp"} IN
  /\ At(t, "moveOut")
  /\ IF old \subseteq static THEN static' = static \ old /\ Goto(t, "moveIn") /\ UNCHANGED lock
                             ELSE Done(t) /\ UNCHANGED static
  /\ UNCHANGED <<netVars, subnet, portVars, dhcpVars, rows>>
MoveIn(t) ==
  /\ At(t, "moveIn") /\ Done(t)
  /\ static' = IF subnet[th[t].s] = "dhcp" /\ service \in server
               THEN static \cup {<<service, th[t].p, th[t].s>>} ELSE static
  /\ UNCHANGED <<netVars, subnet, portVars, dhcpVars, rows>>
MoveFails(t) ==
  /\ th[t].pc \in {"moveOut", "moveIn"} /\ CanFail(t) /\ Done(t)
  /\ UNCHANGED <<netVars, subnet, portVars, dhcpVars, bindVars>>

-----------------------------------------------------------------------------
Init ==
  /\ net = FALSE /\ switch = {} /\ subnet = [s \in Subnets |-> "none"]
  /\ port = [p \in Ports |-> NoSubnet] /\ lport = {}
  /\ service = NoServer /\ dport = {} /\ dlport = {} /\ server = {}
  /\ static = {} /\ rows = {} /\ orphan = {} /\ raced = {} /\ lock = NoThread /\ th = [t \in Threads |-> Idle]

Network(t) == StartNewNet(t) \/ NetDb(t) \/ NetMetadata(t) \/ StartDeleteNet(t) \/ NetLock(t) \/ NetGone(t)
              \/ SwitchGone(t)
Subnet(t) == \/ \E s \in Subnets : CreatePlain(t, s) \/ StartCreate(t, s) \/ StartUpdate(t, s) \/ StartDelete(t, s)
             \/ TurnOn(t) \/ BadAddress(t) \/ TurnOff(t) \/ SubnetGone(t)
Disable(t) == Off(t) \/ OffPort(t) \/ OffServer(t) \/ OffService(t) \/ OffRows(t) \/ OffFails(t)
Enable(t) == ReadPorts(t) \/ AddDhcpPort(t) \/ NoDhcpPort(t) \/ AddServer(t) \/ AddLogicalPort(t)
             \/ EnableFails(t) \/ Unavailable(t) \/ AddService(t) \/ ServiceFails(t) \/ AddBinding(t) \/ AddRow(t) \/ BindingFails(t)
Port(t) == \/ \E p \in Ports : StartDeletePort(t, p) \/ \E s \in Subnets : StartPort(t, p, s) \/ StartMove(t, p, s)
           \/ NewLport(t) \/ DeleteLport(t) \/ Unbind(t) \/ UnbindFails(t) \/ DeletePort(t)
           \/ UpdateLport(t) \/ MoveOut(t) \/ MoveIn(t) \/ MoveFails(t)
Next == \E t \in Threads : Network(t) \/ Subnet(t) \/ Disable(t) \/ Enable(t) \/ Port(t)
Spec == Init /\ [][Next]_vars

-----------------------------------------------------------------------------
(* Properties                                                              *)

Bindings == Servers \X Ports \X Subnets
TypeOK ==
  /\ net \in BOOLEAN /\ switch \subseteq {"switch", "md"}
  /\ subnet \in [Subnets -> {"none", "plain", "dhcp"}]
  /\ port \in [Ports -> Subnets \cup {NoSubnet}] /\ lport \subseteq Ports
  /\ service \in Servers \cup {NoServer} /\ dport \cup dlport \cup server \cup orphan \subseteq Servers
  /\ static \cup rows \subseteq Bindings /\ raced \subseteq Ports /\ lock \in Threads \cup {NoThread}

\* Every DHCP server, DHCP port and logical port of one is that of the network's row,
\* or of a request that enables or disables DHCP (_enable_native_dhcp, which disables
\* first, and _disable_native_dhcp), whatever port requests do meanwhile.  Left behind
\* are those an unavailable service cluster ended the request of, and those of a network
\* that was deleted while they were in its row.
Holders == {t \in Threads : th[t].op \in SubnetOps \cup NetOps}
NoLeakedServer == server \cup dport \cup dlport \subseteq {service} \cup {th[t].k : t \in Holders} \cup orphan

\* The rows of static bindings name the DHCP server of the network, or one whose rows are
\* about to go, and ports that the database has: otherwise the port could never be
\* deleted (_delete_port_mp_dhcp_binding).  Not so a port whose binding was made at the
\* server while _disable_native_dhcp took it away, nor rows it failed to delete.
RowsCurrent ==
  \A b \in rows :
    /\ port[b[2]] # NoSubnet
    /\ b[1] \in {service} \cup {th[t].k : t \in {t \in Threads : At(t, "offRows")}} \cup orphan \/ b[2] \in raced

\* At any time a port of the backend is a port of the database, and so it can be deleted
\* (create_port's and delete_port's order of steps).
NoLeakedPort == lport \subseteq {p \in Ports : port[p] # NoSubnet}
=============================================================================
