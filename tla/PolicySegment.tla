---------------------------- MODULE PolicySegment ----------------------------
(***************************************************************************)
(* An overlay network of the NSX policy plugin with policy DHCP: its       *)
(* subnets, its router interfaces, its DHCP port, and the segment that the *)
(* plugin keeps for it at the backend.  A segment has a subnet for each    *)
(* DHCP subnet and each router interface of the network, and the backend   *)
(* takes one of each IP version at most (_validate_segment_subnets_num).   *)
(*                                                                         *)
(* Requests on subnets hold 'nsxp_network_<id>', add_router_interface holds*)
(* a lock of another name and only while it checks and changes the         *)
(* database, remove_router_interface holds none.  A request computes the   *)
(* subnets of the segment in one step and sends them in another.           *)
(***************************************************************************)
EXTENDS Naturals, FiniteSets, FiniteSetsExt

CONSTANTS
  Threads, Subnets, Routers,
  Ver,        \* the IP version of each subnet
  NoThread, NoSubnet, NoRouter

ASSUME PolicySegmentAssumption ==
  /\ Ver \in [Subnets -> {4, 6}]
  /\ NoThread \notin Threads /\ NoSubnet \notin Subnets /\ NoRouter \notin Routers

VARIABLES
  net,     \* "none", "db" (the segment is not created yet), "up", "gone" (only the segment is left)
  sub,     \* subnets in the database: "none", "plain" or "dhcp"
  ifc,     \* the router that has an interface on each subnet
  dport,   \* the subnets of the addresses of the DHCP port
  seg,     \* subnets of the segment
  served,  \* those of them with a DHCP configuration
  tier1,   \* the router the segment is connected to
  lock,    \* holder of 'nsxp_network_<id>'
  rlock,   \* holder of the lock '<id>' of add_router_interface
  th,      \* the request of each thread
  clean    \* (history) no two requests have overlapped, and no failure was left as it was

dbVars  == <<net, sub, ifc, dport>>
segVars == <<seg, served, tier1>>
vars    == <<dbVars, segVars, lock, rlock, th, clean>>

Nothing == [subs |-> {}, served |-> {}]
Idle == [pc |-> "idle", op |-> "none", s |-> NoSubnet, r |-> NoRouter, seen |-> {}, want |-> Nothing, keep |-> FALSE]
NetOps == {"newnet", "delnet"}

At(t, label)   == th[t].pc = label
Goto(t, label) == th' = [th EXCEPT ![t].pc = label]
End(t)         == th' = [th EXCEPT ![t] = Idle]
Free(t)        == lock' = IF lock = t THEN NoThread ELSE lock
\* The bound on failures of the backend that the segment does not call for: they are
\* explored until requests overlap.
MayFail        == clean

DhcpSubnets == {s \in Subnets : sub[s] = "dhcp"}
Routed      == {s \in Subnets : ifc[s] # NoRouter}
RoutedBy(r) == {s \in Subnets : ifc[s] = r}

\* Requests on one subnet follow one another.
Begin(t, op, s, r, label) ==
  /\ th[t] = Idle /\ \A u \in Threads : s # NoSubnet => th[u].s # s
  /\ op = "newnet" \/ (net = "up" /\ \A u \in Threads : th[u].op \notin NetOps)
  /\ th' = [th EXCEPT ![t] = [Idle EXCEPT !.pc = label, !.op = op, !.s = s, !.r = r,
                                          !.seen = IF op \in {"create", "enable"} THEN DhcpSubnets ELSE {}]]
  /\ clean' = (clean /\ \A u \in Threads \ {t} : th[u] = Idle)
  /\ UNCHANGED <<segVars, lock, rlock>>

-----------------------------------------------------------------------------
(* _get_segment_subnets: a subnet with DHCP has its DHCP configuration if  *)
(* the DHCP port has an address of it; two of them are taken at most.      *)

Collect(deleted, routed) ==
  LET d == DhcpSubnets \ deleted
      own == IF routed = {} THEN Routed ELSE routed
  IN
  {[subs |-> x \cup own, served |-> x \cap dport] : x \in IF Cardinality(d) <= 2 THEN {d} ELSE kSubset(2, d)}

OnePerVersion(S) == \A s, x \in S : Ver[s] = Ver[x] => s = x
CanSend(t) == net = "up" /\ OnePerVersion(th[t].want.subs)
Send(t) == seg' = th[t].want.subs /\ served' = th[t].want.served

CollectFor(t, deleted, routed, label) ==
  /\ \E w \in Collect(deleted, routed) : th' = [th EXCEPT ![t].pc = label, ![t].want = w]
  /\ UNCHANGED <<dbVars, segVars, lock, rlock, clean>>

-----------------------------------------------------------------------------
(* create_network, delete_network                                          *)

StartNewNet(t) ==
  /\ net = "none" /\ Begin(t, "newnet", NoSubnet, NoRouter, "segment") /\ net' = "db"
  /\ UNCHANGED <<sub, ifc, dport>>
NewSegment(t) ==
  /\ At(t, "segment") /\ net' \in {"up", "none"} /\ End(t)
  /\ UNCHANGED <<sub, ifc, dport, segVars, lock, rlock, clean>>
StartDeleteNet(t) == Begin(t, "delnet", NoSubnet, NoRouter, "netLock") /\ UNCHANGED dbVars
\* The ports of routers keep the DHCP service (_has_active_port).
NetLock(t) ==
  /\ At(t, "netLock") /\ lock = NoThread
  /\ IF Routed = {} THEN lock' = t /\ Goto(t, "collectOff") ELSE Goto(t, "netGone") /\ UNCHANGED lock
  /\ UNCHANGED <<dbVars, segVars, rlock, clean>>
NetGone(t) ==
  /\ At(t, "netGone")
  /\ IF Routed = {}
     THEN /\ net' = "gone" /\ sub' = [s \in Subnets |-> "none"] /\ dport' = {} /\ Goto(t, "segmentGone")
     ELSE End(t) /\ UNCHANGED <<net, sub, dport>>
  /\ UNCHANGED <<ifc, segVars, lock, rlock, clean>>
\* Should this fail the segment stays, and no network knows of it any more.
SegmentGone(t) ==
  /\ At(t, "segmentGone") /\ End(t) /\ net' = "none"
  /\ seg' = {} /\ served' = {}  /\ tier1' = NoRouter
  /\ UNCHANGED <<sub, ifc, dport, lock, rlock, clean>>

-----------------------------------------------------------------------------
(* create_subnet, update_subnet: the network is read before the lock.      *)

StartCreate(t, s, op) ==
  /\ sub[s] = "none" /\ op \in {"plain", "create"}
  /\ Ver[s] = 6 => \A x \in Subnets : Ver[x] = 6 => sub[x] = "none"
  /\ Begin(t, op, s, NoRouter, "on") /\ UNCHANGED dbVars
StartUpdate(t, s) ==
  /\ \/ sub[s] = "plain" /\ Begin(t, "enable", s, NoRouter, "on")
     \/ sub[s] = "dhcp" /\ Begin(t, "disable", s, NoRouter, "off")
  /\ UNCHANGED dbVars
\* _has_dhcp_enabled_subnet, _validate_segment_subnets_num
SecondOfVersion(t) ==
  \E x \in th[t].seen \cup (Routed \ {th[t].s}) : Ver[x] = Ver[th[t].s]
TurnOn(t) ==
  LET s == th[t].s
      plain == th[t].op = "plain"
  IN
  /\ At(t, "on") /\ lock = NoThread
  /\ IF net = "up" /\ (plain \/ ~SecondOfVersion(t))
     THEN /\ sub' = [sub EXCEPT ![s] = IF plain THEN "plain" ELSE "dhcp"]
          /\ IF plain THEN End(t) /\ UNCHANGED lock ELSE lock' = t /\ th' = [th EXCEPT ![t].pc = "port", ![t].seen = {}]
     ELSE End(t) /\ UNCHANGED <<sub, lock>>
  /\ UNCHANGED <<net, ifc, dport, segVars, rlock, clean>>
\* _create_subnet_dhcp_port
AddDhcpPort(t) ==
  /\ At(t, "port") /\ dport' = dport \cup {th[t].s} /\ Goto(t, "collect")
  /\ UNCHANGED <<net, sub, ifc, segVars, lock, rlock, clean>>
CollectOn(t) == At(t, "collect") /\ CollectFor(t, {}, {}, "send")
SendOn(t) ==
  /\ At(t, "send") /\ CanSend(t) /\ Send(t) /\ Free(t)
  /\ IF th[t].op = "create" THEN End(t) ELSE th' = [th EXCEPT ![t].pc = "again", ![t].want = Nothing]
  /\ UNCHANGED <<dbVars, tier1, rlock, clean>>
\* A new subnet is deleted again, with its address of the DHCP port.  What reverts an
\* update is the old subnet, on which the update was written before the check: the
\* subnet and the address stay.
SendOnFails(t) ==
  LET new == th[t].op = "create" IN
  /\ At(t, "send") /\ (MayFail \/ ~CanSend(t)) /\ End(t) /\ Free(t)
  /\ sub' = IF new THEN [sub EXCEPT ![th[t].s] = "none"] ELSE sub
  /\ dport' = IF new THEN dport \ {th[t].s} ELSE dport
  /\ clean' = (clean /\ new)
  /\ UNCHANGED <<net, ifc, segVars, rlock>>
\* _update_nsx_net_dhcp, after the lock
CollectAgain(t) == At(t, "again") /\ CollectFor(t, {}, {}, "sendAgain")
SendAgain(t) ==
  /\ At(t, "sendAgain") /\ End(t)
  /\ \/ CanSend(t) /\ Send(t)
     \/ (MayFail \/ ~CanSend(t)) /\ UNCHANGED <<seg, served>>
  /\ UNCHANGED <<dbVars, tier1, lock, rlock, clean>>

-----------------------------------------------------------------------------
(* delete_subnet, and the part of update_subnet and delete_network that    *)
(* ends DHCP (_disable_network_dhcp).  An update comes here with the subnet*)
(* already changed in the database, a deletion before that.                *)

StartDelete(t, s) ==
  /\ sub[s] # "none" /\ ifc[s] = NoRouter
  /\ Begin(t, "delete", s, NoRouter, IF sub[s] = "dhcp" THEN "off" ELSE "gone") /\ UNCHANGED dbVars
TurnOff(t) ==
  /\ At(t, "off") /\ lock = NoThread /\ lock' = t /\ Goto(t, "collectOff")
  /\ sub' = IF th[t].op = "disable" /\ net = "up" THEN [sub EXCEPT ![th[t].s] = "plain"] ELSE sub
  /\ UNCHANGED <<net, ifc, dport, segVars, rlock, clean>>
\* Only the subnet loses DHCP if there is another one, or the network does.
CollectOff(t) ==
  LET keep == th[t].s # NoSubnet /\ Cardinality(DhcpSubnets) > 1 IN
  /\ At(t, "collectOff")
  /\ \E w \in Collect(IF keep THEN {th[t].s} ELSE DhcpSubnets, {}) :
       th' = [th EXCEPT ![t].pc = "sendOff", ![t].want = w, ![t].keep = keep]
  /\ UNCHANGED <<dbVars, segVars, lock, rlock, clean>>
SendOff(t) ==
  /\ At(t, "sendOff") /\ CanSend(t) /\ Send(t)
  /\ th' = [th EXCEPT ![t].pc = "portOff", ![t].want = Nothing]
  /\ UNCHANGED <<dbVars, tier1, lock, rlock, clean>>
AfterOff(t) ==
  CASE th[t].op = "disable" -> End(t)
    [] th[t].op = "delete"  -> th' = [th EXCEPT ![t] = [Idle EXCEPT !.pc = "gone", !.op = "delete", !.s = th[t].s]]
    [] OTHER                -> th' = [th EXCEPT ![t] = [Idle EXCEPT !.pc = "netGone", !.op = "delnet"]]
\* _delete_subnet_dhcp_port
PortOff(t) ==
  /\ At(t, "portOff") /\ AfterOff(t) /\ Free(t)
  /\ dport' = IF th[t].keep /\ Cardinality(dport) > 1 THEN dport \ {th[t].s} ELSE {}
  /\ UNCHANGED <<net, sub, ifc, segVars, rlock, clean>>
\* An update is reverted; the deletion of the subnet goes on, that of the network ends.
SendOffFails(t) ==
  LET s == th[t].s IN
  /\ At(t, "sendOff") /\ (MayFail \/ ~CanSend(t)) /\ Free(t)
  /\ sub' = IF th[t].op = "disable" /\ sub[s] = "plain" THEN [sub EXCEPT ![s] = "dhcp"] ELSE sub
  /\ IF th[t].op = "delnet" THEN End(t) ELSE AfterOff(t)
  /\ clean' = (clean /\ th[t].op # "delete")
  /\ UNCHANGED <<net, ifc, dport, segVars, rlock>>
\* A subnet with an interface of a router cannot be deleted.
SubnetGone(t) ==
  LET s == th[t].s IN
  /\ At(t, "gone") /\ End(t)
  /\ IF ifc[s] = NoRouter
     THEN sub' = [sub EXCEPT ![s] = "none"] /\ dport' = dport \ {s}
     ELSE UNCHANGED <<sub, dport>>
  /\ UNCHANGED <<net, ifc, segVars, lock, rlock, clean>>

-----------------------------------------------------------------------------
(* add_router_interface                                                    *)

StartAdd(t, r, s) ==
  /\ sub[s] # "none" /\ ifc[s] = NoRouter
  /\ Begin(t, "add", s, r, "validate") /\ UNCHANGED dbVars
\* _validate_multiple_subnets_routers, _validate_router_segment_subnets
MayAttach(r, s) ==
  /\ \A x \in Routed : ifc[x] = r /\ Ver[x] # Ver[s]
  /\ \A x \in DhcpSubnets \ {s} : Ver[x] # Ver[s]
\* Mutant: the lock is not taken.
ValidateUnlocked(t) ==
  /\ At(t, "validate")
  /\ IF MayAttach(th[t].r, th[t].s) THEN Goto(t, "attach") ELSE End(t)
  /\ UNCHANGED <<dbVars, segVars, lock, rlock, clean>>
Validate(t) ==
  /\ At(t, "validate") /\ rlock = NoThread
  /\ IF MayAttach(th[t].r, th[t].s) THEN rlock' = t /\ Goto(t, "attach") ELSE End(t) /\ UNCHANGED rlock
  /\ UNCHANGED <<dbVars, segVars, lock, clean>>
Attach(t) ==
  /\ At(t, "attach") /\ rlock' = NoThread
  /\ IF net = "up" THEN ifc' = [ifc EXCEPT ![th[t].s] = th[t].r] /\ Goto(t, "collectIf")
                   ELSE End(t) /\ UNCHANGED ifc
  /\ UNCHANGED <<net, sub, dport, segVars, lock, clean>>
CollectIf(t) == At(t, "collectIf") /\ CollectFor(t, {}, RoutedBy(th[t].r), "sendIf")
\* Mutant: the segment is connected to another resource.
SendIfSubnet(t) ==
  /\ At(t, "sendIf") /\ CanSend(t) /\ Send(t) /\ tier1' = th[t].s /\ End(t)
  /\ UNCHANGED <<dbVars, lock, rlock, clean>>
SendIf(t) ==
  /\ At(t, "sendIf") /\ CanSend(t) /\ Send(t) /\ tier1' = th[t].r /\ End(t)
  /\ UNCHANGED <<dbVars, lock, rlock, clean>>
\* Whatever fails after the database was changed, the interface is removed again.
SendIfFails(t) ==
  /\ At(t, "sendIf") /\ (MayFail \/ ~CanSend(t))
  /\ th' = [th EXCEPT ![t].pc = "detach", ![t].want = Nothing]
  /\ UNCHANGED <<dbVars, segVars, lock, rlock, clean>>

(* remove_router_interface                                                 *)
StartRemove(t, s) ==
  /\ ifc[s] # NoRouter /\ Begin(t, "remove", s, ifc[s], "detach") /\ UNCHANGED dbVars
Detach(t) ==
  /\ At(t, "detach") /\ ifc' = [ifc EXCEPT ![th[t].s] = NoRouter] /\ Goto(t, "collectRem")
  /\ UNCHANGED <<net, sub, dport, segVars, lock, rlock, clean>>
CollectRem(t) ==
  LET own == RoutedBy(th[t].r) IN
  /\ At(t, "collectRem")
  /\ \E w \in Collect({}, own) :
       th' = [th EXCEPT ![t].pc = "sendRem", ![t].want = w, ![t].keep = own # {}]
  /\ UNCHANGED <<dbVars, segVars, lock, rlock, clean>>
\* Mutant: the remaining subnets are not sent after the connectivity was removed.
DisconnectOnly(t) ==
  /\ At(t, "sendRem") /\ ~th[t].keep /\ net = "up" /\ tier1' = NoRouter /\ End(t)
  /\ UNCHANGED <<dbVars, seg, served, lock, rlock, clean>>
\* The connectivity goes with the last interface, in a call of its own.
Disconnect(t) ==
  /\ At(t, "sendRem") /\ ~th[t].keep /\ net = "up" /\ tier1' = NoRouter
  /\ IF th[t].want.subs = {} THEN seg' = {} /\ served' = {} /\ End(t)
                             ELSE Goto(t, "sendRest") /\ UNCHANGED <<seg, served>>
  /\ UNCHANGED <<dbVars, lock, rlock, clean>>
SendRem(t) ==
  /\ At(t, "sendRest") \/ (At(t, "sendRem") /\ th[t].keep)
  /\ CanSend(t) /\ Send(t) /\ End(t)
  /\ UNCHANGED <<dbVars, tier1, lock, rlock, clean>>
RemoveFails(t) ==
  /\ th[t].pc \in {"sendRem", "sendRest"} /\ (MayFail \/ ~CanSend(t)) /\ End(t) /\ clean' = FALSE
  /\ UNCHANGED <<dbVars, segVars, lock, rlock>>

-----------------------------------------------------------------------------
Init ==
  /\ net = "none" /\ sub = [s \in Subnets |-> "none"] /\ ifc = [s \in Subnets |-> NoRouter] /\ dport = {}
  /\ seg = {} /\ served = {} /\ tier1 = NoRouter
  /\ lock = NoThread /\ rlock = NoThread /\ th = [t \in Threads |-> Idle] /\ clean = TRUE

Networks(t) == StartNewNet(t) \/ NewSegment(t) \/ StartDeleteNet(t) \/ NetLock(t) \/ NetGone(t) \/ SegmentGone(t)
Enable(t) == \/ \E s \in Subnets : StartUpdate(t, s) \/ \E op \in {"plain", "create"} : StartCreate(t, s, op)
             \/ TurnOn(t) \/ AddDhcpPort(t) \/ CollectOn(t) \/ SendOn(t) \/ SendOnFails(t)
             \/ CollectAgain(t) \/ SendAgain(t)
Disable(t) == \/ \E s \in Subnets : StartDelete(t, s)
              \/ TurnOff(t) \/ CollectOff(t) \/ SendOff(t) \/ PortOff(t) \/ SendOffFails(t) \/ SubnetGone(t)
Interfaces(t) == \/ \E s \in Subnets : StartRemove(t, s) \/ \E r \in Routers : StartAdd(t, r, s)
                 \/ Validate(t) \/ Attach(t) \/ CollectIf(t) \/ SendIf(t) \/ SendIfFails(t)
                 \/ Detach(t) \/ CollectRem(t) \/ Disconnect(t) \/ SendRem(t) \/ RemoveFails(t)
Next == \E t \in Threads : Networks(t) \/ Enable(t) \/ Disable(t) \/ Interfaces(t)
Spec == Init /\ [][Next]_vars

-----------------------------------------------------------------------------
(* Properties                                                              *)

TypeOK ==
  /\ net \in {"none", "db", "up", "gone"} /\ sub \in [Subnets -> {"none", "plain", "dhcp"}]
  /\ ifc \in [Subnets -> Routers \cup {NoRouter}] /\ dport \cup seg \cup served \subseteq Subnets
  /\ tier1 \in Routers \cup {NoRouter} /\ lock \in Threads \cup {NoThread} /\ rlock \in Threads \cup {NoThread}

\* The subnets of a network are on one router, one of each IP version, whatever the
\* order of concurrent requests (_validate_multiple_subnets_routers under its lock).
OneRouter == \A s, x \in Routed : ifc[s] = ifc[x] /\ (Ver[s] = Ver[x] => s = x)

\* No subnet reaches the segment but for DHCP or a router, and every interface does.
\* After requests that did not overlap, failed ones among them, the segment is on the
\* router of the interfaces and the DHCP port has addresses of DHCP subnets only.
Quiet == clean /\ net = "up" /\ \A t \in Threads : th[t] = Idle
SegmentCurrent == Quiet =>
  /\ Routed \subseteq seg /\ seg \subseteq DhcpSubnets \cup Routed
  /\ {tier1} \ {NoRouter} = {ifc[s] : s \in Routed}
  /\ served \subseteq DhcpSubnets /\ dport \subseteq DhcpSubnets

\* "remove dhcp only from this subnet" (_disable_network_dhcp): every subnet with DHCP
\* that is still in the database has its configuration on the segment.
DhcpServed == Quiet => DhcpSubnets \subseteq served
=============================================================================
