-------------------------- MODULE NativeDhcpProofs --------------------------
(***************************************************************************)
(* Proofs about NativeDhcp, for every number of threads, subnets, ports and*)
(* servers, and all requests interleaved: no DHCP server is left behind,   *)
(* the rows of static bindings name the server of the network, and the     *)
(* backend has no port that the database has not, but for what orphan and  *)
(* raced keep account of.                                                  *)
(***************************************************************************)
EXTENDS NativeDhcp, TLAPS

Labels == {"idle", "netDb", "md", "netLock", "netGone", "switchGone", "lock", "gone", "off", "offPort",
           "offServer", "offService", "offRows", "read", "dport", "server", "dlport", "service", "bind", "bindRow",
           "newLport", "delLport", "unbind", "newLport2", "moveOut", "moveIn"}
Ops == {"none"} \cup SubnetOps \cup PortOps \cup NetOps
Request == [pc : Labels, op : Ops, s : Subnets \cup {NoSubnet}, p : Ports \cup {NoPort},
            old : Subnets \cup {NoSubnet}, k : Servers \cup {NoServer}, q : Ports \cup {NoPort},
            seen : SUBSET Subnets, todo : SUBSET (Ports \cup Bindings), failed : BOOLEAN]

\* The operations that come to each label.
Enabling  == {"read", "dport", "server", "dlport", "service"}
Binding   == {"bind", "bindRow"}
\* Those at which a request may have a server.
Serving   == {"offPort", "offServer", "offService", "offRows", "server", "dlport", "service", "bindRow", "gone"}
\* Those at which it has ports to bind to one that it makes.
Making    == {"dport", "server", "dlport", "service"}
OpsAt(label) ==
  CASE label = "idle"                                 -> {"none"}
    [] label \in {"netDb", "md"}                      -> {"newnet"}
    [] label \in {"netLock", "netGone", "switchGone"} -> {"delnet"}
    [] label = "lock"                                 -> SubnetOps
    [] label = "gone"                                 -> {"disable", "delete"}
    [] label \in Disabling                            -> SubnetOps \cup {"delnet"}
    [] label \in Enabling                             -> {"create", "enable"}
    [] label \in Binding                              -> {"create", "enable", "newport"}
    [] label = "newLport"                             -> {"newport"}
    [] label \in {"delLport", "unbind"}               -> {"newport", "delport"}
    [] OTHER                                          -> {"move"}

\* What a request is about, and what it has to do.
Sound(t) == LET r == th[t] IN
  /\ r.op \in OpsAt(r.pc)
  /\ r.op \in SubnetOps \cup {"newport", "move"} => r.s \in Subnets
  /\ r.op \in PortOps => r.p \in Ports
  /\ r.op = "move" => r.old \in Subnets
  /\ r.pc \in Binding => r.todo \subseteq (IF r.op = "newport" THEN {r.p} ELSE Ports)
  /\ r.pc = "bindRow" => r.q \in r.todo
  /\ r.pc \notin Serving => r.k = NoServer
  /\ r.pc \in Making => r.todo \subseteq Ports /\ (r.pc # "dport" => r.k \in Servers)
Types == TypeOK /\ th \in [Threads -> Request] /\ \A t \in Threads : Sound(t)

\* Requests on ports are on different ones, and a network that is made is alone.
Exclusive ==
  \A t, u \in Threads : t # u =>
    /\ th[t].op \in PortOps /\ th[u].op \in PortOps => th[t].p # th[u].p
    /\ th[t].op = "newnet" => th[u].op = "none"

\* The lock of the network is held from the first step that looks for its server on.
UnderLock(r) == r.pc \in Disabling \cup Enabling \/ (r.pc \in Binding /\ r.op \in SubnetOps)
                \/ (r.pc = "gone" /\ r.k # NoServer)
Locked == \A t \in Threads : UnderLock(th[t]) => lock = t

\* The server that a request is disabling or enabling, and the network's row: the row may
\* have gone with the network meanwhile, and a new port may be bound to a server that has.
Current(t) == LET r == th[t] IN
  /\ r.pc \in {"offPort", "offServer", "offService"} =>
       r.k \in Servers /\ (r.k = service \/ (r.k \in orphan /\ service = NoServer))
  /\ r.pc \in {"offServer", "offService", "offRows"} => r.k \notin dport \cup dlport \/ r.k \in orphan
  /\ r.pc \in {"offService", "offRows"} => r.k \notin server
  /\ r.pc = "offRows" => r.k \in Servers /\ service = NoServer
  /\ r.pc = "bindRow" =>
       r.k \in Servers /\ (r.k = service \/ r.k \in orphan \/ (r.op = "newport" /\ r.p \in raced))
  /\ r.pc \in Enabling => service = NoServer
  /\ r.pc \in {"server", "dlport"} => r.k \notin dlport
  /\ r.pc \in {"server", "dlport", "service"} /\ net => r.k \in dport
  /\ r.pc = "gone" => r.k \in {NoServer, service} \cup orphan

\* The port that a request is about.
PortHeld(t) == LET r == th[t] IN
  /\ r.pc = "newLport" => port[r.p] # NoSubnet /\ r.p \notin lport
  /\ r.pc = "unbind" => r.p \notin lport

\* The logical port of the network's server has its Neutron port.
Paired == service \in dlport => service \in dport

IInv == /\ Types /\ Exclusive /\ Locked
        /\ \A t \in Threads : Current(t) /\ PortHeld(t)
        /\ NoLeakedServer /\ RowsCurrent /\ NoLeakedPort /\ Paired

-----------------------------------------------------------------------------
(* A step of a request, and what the others rely on                        *)

\* The request of t goes on or ends.
Moves(t) ==
  /\ th' \in [Threads -> Request] /\ \A u \in Threads \ {t} : th'[u] = th[u]
  /\ Sound(t)' /\ th[t].op # "none"
  /\ th'[t].op = "none" \/ (th'[t].op = th[t].op /\ th'[t].s = th[t].s /\ th'[t].p = th[t].p)
  /\ lock' = lock \/ lock \in {NoThread, t}
  /\ UnderLock(th'[t]) => lock' = t

\* What the step of t may do to the server of the network, its port and its history, to
\* which others may be bound: much if it has the lock, else it may delete the network.
Own(t) ==
  /\ orphan \subseteq orphan'
  /\ UnderLock(th[t]) \/ /\ dlport' = dlport /\ dport' \subseteq dport /\ server' = server
                         /\ service' = service \/ (service' = NoServer /\ service \in orphan')
                         /\ net' => dport' = dport /\ (net \/ th[t].op = "newnet")
  /\ \/ service' = service \/ service = NoServer \/ service \in orphan'
     \/ \A u \in Threads \ {t} : th[u].pc = "bindRow" /\ th[u].op = "newport" => th[u].p \in raced'
  /\ \A p \in Ports : th[t].op \notin PortOps \/ p # th[t].p =>
       port'[p] = port[p] /\ (p \in lport' <=> p \in lport) /\ (p \in raced => p \in raced')

\* A step that leaves the server, ports and rows as they are.
Stays(t) == UNCHANGED <<dhcpVars, portVars, rows>> /\ (net' => net \/ th[t].op = "newnet")

\* The other requests are as they were, apart from that of t.
LEMMA MovesTypes ==
  ASSUME IInv, NEW t \in Threads, Moves(t), TypeOK'
  PROVE  Types' /\ Exclusive' /\ Locked'
  <1>1. Types'
    <2>1. ASSUME NEW u \in Threads \ {t} PROVE Sound(u)'
      BY <2>1 DEF IInv, Types, Moves, Sound
    <2> QED  BY <2>1 DEF Types, Moves
  <1>2. Exclusive'
    <2>1. ASSUME th'[t].op # "none"
          PROVE  th'[t].op = th[t].op /\ th'[t].s = th[t].s /\ th'[t].p = th[t].p
      BY <2>1 DEF Moves, IInv, Types, Request
    <2> QED  BY <2>1 DEF IInv, Exclusive, Moves, PortOps
  <1>3. Locked'
    BY NativeDhcpAssumption DEF IInv, Locked, Moves
  <1> QED  BY <1>1, <1>2, <1>3

\* What the others know of the server and of their ports stays true.
LEMMA OthersKeep ==
  ASSUME IInv, NEW t \in Threads, Moves(t), Own(t), NEW u \in Threads \ {t}
  PROVE  Current(u)' /\ PortHeld(u)'
  <1>0. th'[u] = th[u] /\ Sound(u) /\ Current(u) /\ PortHeld(u) /\ th[t].op # "none" /\ th[u].pc \in Labels
    BY DEF Moves, IInv, Types, Request
  <1>1. CASE UnderLock(th[u])
    <2>1. ~UnderLock(th[t])
      BY <1>1 DEF IInv, Locked
    <2>2. /\ dlport' = dlport /\ dport' \subseteq dport /\ server' = server
          /\ service' = service \/ (service' = NoServer /\ service \in orphan')
          /\ net' => dport' = dport /\ (net \/ th[t].op = "newnet")
          /\ orphan \subseteq orphan'
      BY <2>1 DEF Own
    <2>3. th[u].op # "none"
      BY <1>0, <1>1 DEF UnderLock, Sound, OpsAt, Disabling, Enabling, Binding, SubnetOps
    <2>4. th[t].op # "newnet"
      BY <2>3 DEF IInv, Exclusive
    <2>5. th[u].pc = "bindRow" => th[u].op # "newport"
      BY <1>1 DEF UnderLock, Disabling, Enabling, Binding, SubnetOps
    <2>6. Current(u)'
      BY <1>0, <2>2, <2>4, <2>5 DEF Current
    <2>7. PortHeld(u)'
      BY <1>0, <1>1 DEF PortHeld, UnderLock, Disabling, Enabling, Binding
    <2> QED  BY <2>6, <2>7
  <1>2. CASE ~UnderLock(th[u])
    <2>1. th[u].pc \notin Disabling \cup Enabling \cup {"server", "dlport", "service"}
          /\ (th[u].pc = "gone" => th[u].k = NoServer)
      BY <1>2 DEF UnderLock, Enabling
    <2>2. ASSUME th[u].pc = "bindRow" PROVE th[u].op = "newport" /\ th[u].p \in Ports
      BY <1>0, <1>2, <2>2 DEF UnderLock, Binding, Sound, OpsAt, SubnetOps, PortOps, Disabling, Enabling
    <2>3. \A p \in Ports : p = th[u].p /\ th[u].op \in PortOps =>
            port'[p] = port[p] /\ (p \in lport' <=> p \in lport) /\ (p \in raced => p \in raced')
      BY DEF Own, IInv, Exclusive
    <2>4. Current(u)'
      <3>1. CASE th[u].pc = "bindRow"
        <4>1. th[u].p \in raced => th[u].p \in raced'
          BY <2>2, <2>3, <3>1 DEF PortOps
        <4>2. orphan \subseteq orphan' /\ (service' = service \/ service = NoServer \/ service \in orphan'
                                           \/ th[u].p \in raced')
          BY <2>2, <3>1 DEF Own
        <4> QED  BY <1>0, <2>2, <3>1, <4>1, <4>2, NativeDhcpAssumption DEF Current, Enabling
      <3>2. CASE th[u].pc # "bindRow"
        BY <1>0, <2>1, <3>2 DEF Current, Disabling
      <3> QED  BY <3>1, <3>2
    <2>5. PortHeld(u)'
      <3>1. CASE th[u].pc \in {"newLport", "unbind"}
        <4>1. th[u].op \in PortOps /\ th[u].p \in Ports
          BY <1>0, <3>1 DEF Sound, OpsAt, PortOps, Disabling, Enabling, Binding
        <4> QED  BY <1>0, <2>3, <4>1 DEF PortHeld
      <3>2. CASE th[u].pc \notin {"newLport", "unbind"}
        BY <1>0, <3>2 DEF PortHeld
      <3> QED  BY <3>1, <3>2
    <2> QED  BY <2>4, <2>5
  <1> QED  BY <1>1, <1>2

\* A step that keeps its own part of the invariant keeps the invariant.
LEMMA Keeps ==
  ASSUME IInv, NEW t \in Threads, Moves(t), Own(t), TypeOK', Current(t)', PortHeld(t)',
         NoLeakedServer', RowsCurrent', NoLeakedPort', Paired'
  PROVE  IInv'
  <1>1. \A u \in Threads : Current(u)' /\ PortHeld(u)'
    BY OthersKeep
  <1> QED  BY <1>1, MovesTypes DEF IInv

\* The server that the request of t lets go is nobody's, or the network's, or left behind.
LEMMA Released ==
  ASSUME IInv, NEW t \in Threads, Moves(t), UNCHANGED dhcpVars,
         (th'[t].k = th[t].k /\ th'[t].op = th[t].op)
         \/ th[t].k \in {NoServer, service} \cup orphan \/ th[t].op = "newport"
  PROVE  NoLeakedServer'
  <1>1. ASSUME NEW x \in (server \cup dport \cup dlport)'
        PROVE  x \in ({service} \cup {th[u].k : u \in Holders} \cup orphan)'
    <2>1. x \in {service} \cup {th[u].k : u \in Holders} \cup orphan /\ x \in Servers
      BY <1>1 DEF IInv, Types, TypeOK, NoLeakedServer, dhcpVars
    <2>2. CASE \E u \in Holders : x = th[u].k
      <3>1. PICK u \in Holders : x = th[u].k
        BY <2>2
      <3>2. CASE u = t
        BY <2>1, <3>1, <3>2, NativeDhcpAssumption DEF dhcpVars, Holders, SubnetOps, NetOps
      <3>3. CASE u # t
        BY <3>1, <3>3 DEF Moves, Holders
      <3> QED  BY <3>2, <3>3
    <2> QED  BY <2>1, <2>2 DEF dhcpVars
  <1> QED  BY <1>1 DEF NoLeakedServer

\* The rows of bindings are current after a step that takes no port or server from them.
LEMMA RowsStay ==
  ASSUME IInv, NEW t \in Threads, Moves(t), rows' \subseteq rows, orphan \subseteq orphan',
         \A b \in rows' : port'[b[2]] # NoSubnet /\ (b[2] \in raced => b[2] \in raced'),
         service' = service \/ service = NoServer \/ service \in orphan'
         \/ (th'[t].pc = "offRows" /\ th'[t].k = service),
         th[t].pc = "offRows" => th[t].k \in orphan' \/ \A b \in rows' : b[1] # th[t].k
  PROVE  RowsCurrent'
  <1>1. ASSUME NEW b \in rows', b[2] \notin raced'
        PROVE  b[1] \in ({service} \cup {th[u].k : u \in {u \in Threads : At(u, "offRows")}} \cup orphan)'
    <2>1. b[1] \in {service} \cup {th[u].k : u \in {u \in Threads : At(u, "offRows")}} \cup orphan
          /\ b[1] \in Servers
      BY <1>1 DEF IInv, RowsCurrent, Types, TypeOK, Bindings
    <2>2. CASE \E u \in Threads : At(u, "offRows") /\ b[1] = th[u].k
      <3>1. PICK u \in Threads : At(u, "offRows") /\ b[1] = th[u].k
        BY <2>2
      <3>2. CASE u = t
        BY <1>1, <3>1, <3>2 DEF At
      <3>3. CASE u # t
        BY <3>1, <3>3 DEF Moves, At
      <3> QED  BY <3>2, <3>3
    <2>3. CASE b[1] = service
      BY <2>1, <2>3, NativeDhcpAssumption DEF At
    <2> QED  BY <2>1, <2>2, <2>3
  <1> QED  BY <1>1 DEF RowsCurrent

\* A step that changes neither the server, nor ports, nor rows.
LEMMA Quiet ==
  ASSUME IInv, NEW t \in Threads, Moves(t), Stays(t), TypeOK', Current(t)', PortHeld(t)', th[t].pc # "offRows",
         (th'[t].k = th[t].k /\ th'[t].op = th[t].op)
         \/ th[t].k \in {NoServer, service} \cup orphan \/ th[t].op = "newport"
  PROVE  IInv'
  <1>1. Own(t)
    BY DEF Own, Stays, dhcpVars, portVars
  <1>2. NoLeakedServer'
    BY Released DEF Stays
  <1>3. RowsCurrent'
    <2>1. \A b \in rows' : port'[b[2]] # NoSubnet /\ (b[2] \in raced => b[2] \in raced')
      BY DEF IInv, RowsCurrent, Stays, portVars
    <2> QED  BY <2>1, RowsStay DEF Stays, dhcpVars
  <1>4. NoLeakedPort' /\ Paired'
    BY DEF IInv, Paired, NoLeakedPort, Stays, dhcpVars, portVars
  <1> QED  BY <1>1, <1>2, <1>3, <1>4, Keeps

-----------------------------------------------------------------------------
(* The forms of a step                                                     *)

\* The operations at each label, one by one.
LEMMA Table ==
  /\ OpsAt("netDb") = {"newnet"} /\ OpsAt("md") = {"newnet"}
  /\ OpsAt("netLock") = {"delnet"} /\ OpsAt("netGone") = {"delnet"} /\ OpsAt("switchGone") = {"delnet"}
  /\ OpsAt("lock") = SubnetOps /\ OpsAt("gone") = {"disable", "delete"}
  /\ \A label \in Disabling : OpsAt(label) = SubnetOps \cup {"delnet"}
  /\ \A label \in Enabling : OpsAt(label) = {"create", "enable"}
  /\ \A label \in Binding : OpsAt(label) = {"create", "enable", "newport"}
  /\ OpsAt("newLport") = {"newport"} /\ OpsAt("delLport") = {"newport", "delport"}
  /\ OpsAt("unbind") = {"newport", "delport"} /\ OpsAt("newLport2") = {"move"}
  /\ OpsAt("moveOut") = {"move"} /\ OpsAt("moveIn") = {"move"}
  BY DEF OpsAt, Disabling, Enabling, Binding

\* A thread without a request.
LEMMA IdleType == Idle \in Request /\ Idle.pc = "idle" /\ Idle.op = "none" /\ Idle.k = NoServer
  BY DEF Idle, Request, Labels, Ops

\* What holds of a request at work.
AtWork(t) ==
  /\ th[t] \in Request /\ th[t].op \in OpsAt(th[t].pc) /\ th[t].op # "none"
  /\ Sound(t) /\ Current(t) /\ PortHeld(t) /\ (UnderLock(th[t]) => lock = t)

\* A request at work has an operation, which is one that comes to its label.
LEMMA Busy ==
  ASSUME IInv, NEW t \in Threads, th[t].pc # "idle"
  PROVE  AtWork(t)
  <1>1. th[t] \in Request /\ Sound(t)
    BY DEF IInv, Types
  <1>2. th[t].op # "none"
    BY <1>1 DEF Request, Labels, Sound, OpsAt, SubnetOps, Disabling, Enabling, Binding
  <1> QED  BY <1>1, <1>2 DEF AtWork, Sound, IInv, Locked

\* The end of a request, with the lock or without.
Ends(t) == th' = [th EXCEPT ![t] = Idle] /\ (lock' = lock \/ lock = t)

\* Done gives back the lock.
LEMMA DoneEnds == ASSUME NEW t, Done(t) PROVE Ends(t)
  BY DEF Done, Ends

\* The end of a request is a step of it, after which nothing is its own.
LEMMA EndMoves ==
  ASSUME IInv, NEW t \in Threads, th[t].pc # "idle", Ends(t)
  PROVE  Moves(t) /\ th'[t] = Idle /\ Current(t)' /\ PortHeld(t)'
  <1>1. th'[t] = Idle /\ th' \in [Threads -> Request] /\ \A u \in Threads \ {t} : th'[u] = th[u]
    BY IdleType DEF Ends, IInv, Types
  <1>2. Sound(t)' /\ Current(t)' /\ PortHeld(t)'
    BY <1>1, IdleType DEF Sound, OpsAt, Current, PortHeld, SubnetOps, PortOps, Disabling, Enabling,
       Binding, Making
  <1>3. ~UnderLock(th'[t])
    BY <1>1, IdleType DEF UnderLock, Disabling, Enabling, Binding
  <1> QED  BY <1>1, <1>2, <1>3, Busy, IdleType DEF AtWork, Moves, Ends

\* A request goes on with another label, another server, and perhaps a failure behind it.
MovesOn(t, label, k, failed) ==
  th' = [th EXCEPT ![t] = [th[t] EXCEPT !.pc = label, !.k = k, !.failed = failed]]
LEMMA StepMoves ==
  ASSUME IInv, NEW t \in Threads, th[t].pc # "idle", NEW label \in Labels, NEW k \in Servers \cup {NoServer},
         NEW failed \in BOOLEAN, MovesOn(t, label, k, failed),
         th[t].op \in OpsAt(label), label \notin Binding,
         k = NoServer \/ label \in Serving, label \in Making => k \in Servers /\ th[t].pc \in Making,
         lock' = lock \/ lock \in {NoThread, t},
         label \in Disabling \cup Enabling => lock' = t, (label = "gone" /\ k # NoServer) => lock' = t
  PROVE  Moves(t) /\ th'[t].pc = label /\ th'[t].k = k /\ th'[t].op = th[t].op /\ th'[t].p = th[t].p
         /\ th'[t].s = th[t].s
  <1>1. th[t] \in Request /\ Sound(t) /\ th[t].op # "none"
    BY Busy DEF AtWork
  <1> DEFINE r == [th[t] EXCEPT !.pc = label, !.k = k, !.failed = failed]
  <1>2. r \in Request /\ r.pc = label /\ r.k = k /\ r.op = th[t].op /\ r.s = th[t].s /\ r.p = th[t].p
        /\ r.old = th[t].old /\ r.todo = th[t].todo /\ r.q = th[t].q
    BY <1>1 DEF Request
  <1>3. th' = [th EXCEPT ![t] = r] /\ th \in [Threads -> Request]
    BY DEF MovesOn, IInv, Types
  <1> HIDE DEF r
  <1>4. th'[t] = r /\ th' \in [Threads -> Request] /\ \A u \in Threads \ {t} : th'[u] = th[u]
    BY <1>2, <1>3
  <1>5. Sound(t)'
    BY <1>1, <1>2, <1>4 DEF Sound, Binding
  <1>6. UnderLock(th'[t]) => lock' = t
    BY <1>2, <1>4 DEF UnderLock
  <1> QED  BY <1>1, <1>2, <1>4, <1>5, <1>6 DEF Moves

\* A request goes on with something else to do.
LEMMA TodoMoves ==
  ASSUME IInv, NEW t \in Threads, th[t].pc # "idle", NEW r \in Request, th' = [th EXCEPT ![t] = r],
         r.op = th[t].op, r.s = th[t].s, r.p = th[t].p, r.old = th[t].old, r.op \in OpsAt(r.pc),
         r.pc \in Binding => r.todo \subseteq (IF r.op = "newport" THEN {r.p} ELSE Ports),
         r.pc = "bindRow" => r.q \in r.todo, r.pc \notin Serving => r.k = NoServer,
         
         r.pc \in Making => r.todo \subseteq Ports /\ (r.pc # "dport" => r.k \in Servers),
         lock' = lock \/ lock \in {NoThread, t}, UnderLock(r) => lock' = t
  PROVE  Moves(t) /\ th'[t] = r
  <1>1. th[t] \in Request /\ Sound(t) /\ th[t].op # "none"
    BY Busy DEF AtWork
  <1>2. th'[t] = r /\ th' \in [Threads -> Request] /\ \A u \in Threads \ {t} : th'[u] = th[u]
    BY DEF IInv, Types
  <1>3. Sound(t)'
    BY <1>1, <1>2 DEF Sound
  <1> QED  BY <1>1, <1>2, <1>3 DEF Moves

\* A request goes to another label, whose facts hold.
LEMMA GotoMoves ==
  ASSUME IInv, NEW t \in Threads, th[t].pc # "idle", NEW label \in Labels, Goto(t, label),
         th[t].op \in OpsAt(label), label \notin Binding,
         th[t].k = NoServer \/ label \in Serving, label \in Making => th[t].k \in Servers
         /\ th[t].pc \in Making,
         lock' = lock \/ lock \in {NoThread, t},
         label \in Disabling \cup Enabling => lock' = t, (label = "gone" /\ th[t].k # NoServer) => lock' = t
  PROVE  Moves(t) /\ th'[t].pc = label /\ th'[t].k = th[t].k /\ th'[t].op = th[t].op /\ th'[t].p = th[t].p
         /\ th'[t].s = th[t].s
  <1>1. th[t] \in Request
    BY Busy DEF AtWork
  <1>2. PICK k \in Servers \cup {NoServer}, failed \in BOOLEAN : k = th[t].k /\ failed = th[t].failed
    BY <1>1 DEF Request
  <1>3. [th[t] EXCEPT !.pc = label] = [th[t] EXCEPT !.pc = label, !.k = k, !.failed = failed]
    BY <1>1, <1>2 DEF Request
  <1>4. MovesOn(t, label, k, failed)
    BY <1>3 DEF MovesOn, Goto, IInv, Types
  <1>5. k = NoServer \/ label \in Serving
    BY <1>2
  <1> QED  BY <1>2, <1>4, <1>5, StepMoves

\* The begin of a request.
LEMMA BeginKeeps ==
  ASSUME IInv, NEW t \in Threads, NEW op \in Ops, NEW s \in Subnets \cup {NoSubnet},
         NEW p \in Ports \cup {NoPort},
         NEW label \in {"netDb", "netLock", "lock", "gone", "newLport", "delLport", "newLport2"},
         Begin(t, op, s, p, label), op \in OpsAt(label),
         op \in SubnetOps \cup {"newport", "move"} => s \in Subnets,
         op \in PortOps <=> p \in Ports, op = "move" => port[p] \in Subnets,
         UNCHANGED <<net, dhcpVars, rows, lport, raced, lock>>, TypeOK',
         \A x \in Ports : x # p => port'[x] = port[x], p \in Ports => port'[p] # NoSubnet,
         label = "newLport" => port[p] = NoSubnet
  PROVE  IInv'
  <1> USE DEF SubnetOps, PortOps, NetOps, Disabling, Enabling, Binding, Making
  <1> DEFINE old == IF p = NoPort THEN NoSubnet ELSE port[p]
             r == [Idle EXCEPT !.pc = label, !.op = op, !.s = s, !.p = p, !.old = old, !.seen = DhcpSubnets]
  <1>1. old \in Subnets \cup {NoSubnet} /\ DhcpSubnets \subseteq Subnets
    BY DEF IInv, Types, TypeOK, DhcpSubnets
  <1>2. r \in Request /\ r.pc = label /\ r.op = op /\ r.s = s /\ r.p = p /\ r.old = old /\ r.k = NoServer
    <2>1. label \in Labels
      BY DEF Labels
    <2> HIDE DEF old
    <2> QED  BY <1>1, <2>1, IdleType DEF Request
  <1>3. th'[t] = r /\ th' \in [Threads -> Request] /\ \A u \in Threads \ {t} : th'[u] = th[u]
    BY <1>2 DEF IInv, Types, Begin
  <1>4. Types'
    <2>1. Sound(t)'
      BY <1>2, <1>3, NativeDhcpAssumption DEF Sound, OpsAt
    <2>2. ASSUME NEW u \in Threads \ {t} PROVE Sound(u)'
      BY <1>3, <2>2 DEF IInv, Types, Sound
    <2> QED  BY <1>3, <2>1, <2>2 DEF Types
  <1>5. Exclusive'
    <2>1. ASSUME NEW u \in Threads \ {t}
          PROVE  /\ op \in PortOps => th[u].p # p
                 /\ th[u].op # "newnet" \/ op = "none"
                 /\ op = "newnet" => th[u].op = "none"
      BY IdleType DEF Begin, OpsAt
    <2>2. th'[t].op = op /\ th'[t].p = p
      BY <1>2, <1>3
    <2> HIDE DEF r, old
    <2>3. ASSUME NEW x \in Threads, NEW u \in Threads, x # u
          PROVE  /\ th'[x].op \in PortOps /\ th'[u].op \in PortOps => th'[x].p # th'[u].p
                 /\ th'[x].op = "newnet" => th'[u].op = "none"
      <3>1. CASE x # t /\ u # t
        BY <1>3, <2>3, <3>1 DEF IInv, Exclusive
      <3>2. CASE x = t /\ u # t
        BY <1>3, <2>1, <2>2, <3>2
      <3>3. CASE x # t /\ u = t
        BY <1>3, <2>1, <2>2, <3>3
      <3> QED  BY <2>3, <3>1, <3>2, <3>3
    <2> QED  BY <2>3 DEF Exclusive
  <1>6. Locked'
    <2>1. ~UnderLock(r)
      BY <1>2 DEF UnderLock
    <2>2. ASSUME NEW u \in Threads, UnderLock(th'[u]) PROVE lock' = u
      <3>1. u # t /\ th'[u] = th[u]
        BY <1>3, <2>1, <2>2
      <3> QED  BY <2>2, <3>1 DEF IInv, Locked
    <2> QED  BY <2>2 DEF Locked
  <1>7. NoLeakedPort' /\ Paired'
    BY DEF IInv, NoLeakedPort, Paired, dhcpVars, Types, TypeOK
  <1>8. NoLeakedServer'
    <2>1. th[t].op = "none"
      BY IdleType DEF Begin
    <2>2. ASSUME NEW x \in (server \cup dport \cup dlport)'
          PROVE  x \in ({service} \cup {th[u].k : u \in Holders} \cup orphan)'
      <3>1. x \in {service} \cup {th[u].k : u \in Holders} \cup orphan
        BY <2>2 DEF IInv, NoLeakedServer, dhcpVars
      <3>2. ASSUME NEW u \in Holders PROVE u \in Threads \ {t} /\ u \in Holders' /\ th'[u].k = th[u].k
        BY <1>3, <2>1 DEF Holders
      <3> QED  BY <3>1, <3>2 DEF dhcpVars
    <2> QED  BY <2>2 DEF NoLeakedServer
  <1>9. Current(t)' /\ PortHeld(t)'
    <2>1. label = "newLport" => p \in Ports /\ p \notin lport
      BY DEF IInv, NoLeakedPort, OpsAt
    <2> QED  BY <1>2, <1>3, <2>1, NativeDhcpAssumption DEF Current, PortHeld, dhcpVars, OpsAt
  <1>10. ASSUME NEW u \in Threads \ {t} PROVE Current(u)' /\ PortHeld(u)'
    <2>1. th'[u] = th[u] /\ Current(u) /\ PortHeld(u) /\ Sound(u) /\ th[u].pc \in Labels
      BY <1>3 DEF IInv, Types, Request
    <2>2. th[u].pc \in {"newLport", "unbind"} => th[u].p \in Ports /\ (p \in Ports => th[u].p # p)
      BY <2>1 DEF Sound, OpsAt, Begin
    <2>3. Current(u)'
      BY <2>1 DEF Current, dhcpVars
    <2>4. PortHeld(u)'
      BY <2>1, <2>2, NativeDhcpAssumption DEF PortHeld, dhcpVars
    <2> QED  BY <2>3, <2>4
  <1>11. RowsCurrent'
    <2>1. ASSUME NEW b \in rows
          PROVE  b[1] \in ({service} \cup {th[u].k : u \in {u \in Threads : At(u, "offRows")}} \cup orphan)'
                 \/ b[2] \in raced
      <3>1. b[1] \in {service} \cup {th[u].k : u \in {u \in Threads : At(u, "offRows")}} \cup orphan
            \/ b[2] \in raced
        BY DEF IInv, RowsCurrent
      <3>2. ASSUME NEW u \in Threads, At(u, "offRows") PROVE At(u, "offRows")' /\ th'[u].k = th[u].k
        BY <1>3, <3>2, IdleType DEF At, Begin
      <3> QED  BY <3>1, <3>2 DEF dhcpVars
    <2>2. \A b \in rows : port'[b[2]] # NoSubnet
      BY DEF IInv, RowsCurrent, Types, TypeOK, Bindings
    <2> QED  BY <2>1, <2>2 DEF RowsCurrent
  <1> QED  BY <1>4, <1>5, <1>6, <1>7, <1>8, <1>9, <1>10, <1>11 DEF IInv

\* The end of a request that changes neither the server, nor ports, nor rows.
LEMMA EndQuiet ==
  ASSUME IInv, NEW t \in Threads, th[t].pc \notin {"idle", "offRows"}, Ends(t), Stays(t), TypeOK',
         th[t].k \in {NoServer, service} \cup orphan
  PROVE  IInv'
  BY EndMoves, Quiet

\* A request without a server goes on and leaves the server, ports and rows as they are.
LEMMA GotoQuiet ==
  ASSUME IInv, NEW t \in Threads, th[t].pc \notin {"idle", "offRows"}, Stays(t), TypeOK',
         NEW label \in {"md", "netGone", "off", "gone", "moveOut", "moveIn"}, Goto(t, label),
         th[t].op \in OpsAt(label), th[t].k = NoServer,
         lock' = lock \/ lock \in {NoThread, t}, label = "off" => lock' = t
  PROVE  IInv'
  <1>1. label \in Labels /\ label \notin Binding \cup Enabling \cup Making
    BY DEF Labels, Binding, Enabling, Making
  <1>2. label \in Disabling \cup Enabling => lock' = t
    BY <1>1 DEF Disabling
  <1>3. Moves(t) /\ th'[t].pc = label /\ th'[t].k = th[t].k
    BY <1>1, <1>2, GotoMoves
  <1>4. Current(t)' /\ PortHeld(t)'
    BY <1>1, <1>3 DEF Current, PortHeld
  <1> QED  BY <1>3, <1>4, Quiet

\* A step of the holder of the lock on the server of the network.
LEMMA ServerKeeps ==
  ASSUME IInv, NEW t \in Threads, UnderLock(th[t]), Moves(t), UNCHANGED portVars, rows' \subseteq rows, TypeOK',
         orphan \subseteq orphan', service' = service \/ service = NoServer,
         service' \in dlport' => service' \in dport',
         th[t].pc = "offRows" => th[t].k \in orphan' \/ \A b \in rows' : b[1] # th[t].k,
         Current(t)', PortHeld(t)', NoLeakedServer'
  PROVE  IInv'
  <1>1. Own(t)
    BY DEF Own, portVars
  <1>2. NoLeakedPort' /\ Paired'
    BY DEF IInv, NoLeakedPort, portVars, Paired
  <1>3. \A b \in rows' : port'[b[2]] # NoSubnet /\ (b[2] \in raced => b[2] \in raced')
    BY DEF IInv, RowsCurrent, portVars
  <1>4. RowsCurrent'
    BY <1>3, RowsStay
  <1> QED  BY <1>1, <1>2, <1>4, Keeps

\* A server that goes leaves nothing behind.
LEMMA Leftover ==
  ASSUME IInv, NEW t \in Threads, Moves(t), NEW k, th[t].op # "newport",
         (th'[t].k = th[t].k /\ th'[t].op = th[t].op) \/ th[t].k \in {NoServer, k},
         service' = service \/ service \in {NoServer, k},
         server' \subseteq server \cup {th'[t].k}, dport' \subseteq dport \cup {th'[t].k},
         dlport' \subseteq dlport \cup {th'[t].k}, orphan \subseteq orphan', TypeOK',
         th'[t].k # NoServer => t \in Holders',
         k \in server' \cup dport' \cup dlport' => k \in {service', th'[t].k} \cup orphan'
  PROVE  NoLeakedServer'
  <1>1. ASSUME NEW x \in (server \cup dport \cup dlport)', x # k, x # th'[t].k
        PROVE  x \in ({service} \cup {th[u].k : u \in Holders} \cup orphan)'
    <2>1. x \in server \cup dport \cup dlport
      BY <1>1
    <2>2. x \in {service} \cup {th[u].k : u \in Holders} \cup orphan /\ x \in Servers
      BY <2>1 DEF IInv, Types, TypeOK, NoLeakedServer
    <2>3. CASE \E u \in Holders : x = th[u].k
      <3>1. PICK u \in Holders : x = th[u].k
        BY <2>3
      <3>2. u # t
        BY <1>1, <2>2, <3>1, NativeDhcpAssumption
      <3> QED  BY <3>1, <3>2 DEF Moves, Holders
    <2> QED  BY <1>1, <2>2, <2>3, NativeDhcpAssumption
  <1>2. ASSUME NEW x \in (server \cup dport \cup dlport)', x = th'[t].k
        PROVE  x \in {th'[u].k : u \in Holders'}
    BY <1>2, NativeDhcpAssumption DEF TypeOK
  <1> QED  BY <1>1, <1>2 DEF NoLeakedServer

-----------------------------------------------------------------------------
(* The network and its subnets                                             *)

\* create_network makes the switch of a network that is not there.
LEMMA StartNewNetSafe == ASSUME IInv, NEW t \in Threads, StartNewNet(t) PROVE IInv'
  <1>1. TypeOK'
    BY DEF StartNewNet, IInv, Types, TypeOK, portVars, dhcpVars, bindVars
  <1>2. "newnet" \in Ops /\ "newnet" \notin SubnetOps \cup PortOps
    BY DEF Ops, SubnetOps, PortOps, NetOps
  <1>3. Begin(t, "newnet", NoSubnet, NoPort, "netDb") /\ UNCHANGED <<net, dhcpVars, rows, port, lport, raced, lock>>
    BY DEF StartNewNet, portVars, bindVars
  <1> QED  BY <1>1, <1>2, <1>3, BeginKeeps, Table, NativeDhcpAssumption

\* create_network adds the rows, or deletes the switch again.
LEMMA NetDbSafe == ASSUME IInv, NEW t \in Threads, NetDb(t) PROVE IInv'
  <1>1. th[t].pc = "netDb" /\ AtWork(t)
    BY Busy DEF NetDb, At
  <1>2. th[t].op = "newnet" /\ th[t].k = NoServer
    BY <1>1, Table DEF AtWork, Sound, Disabling, Serving
  <1>3. TypeOK' /\ Stays(t)
    BY <1>1, <1>2 DEF Stays, NetDb, IInv, Types, TypeOK, Done, portVars, dhcpVars, bindVars, netVars
  <1>4. CASE Goto(t, "md") /\ UNCHANGED lock
    BY <1>1, <1>2, <1>3, <1>4, Table, GotoQuiet
  <1>5. CASE Done(t)
    BY <1>1, <1>2, <1>3, <1>5, DoneEnds, EndQuiet
  <1> QED  BY <1>4, <1>5 DEF NetDb

\* create_network adds the metadata port, or deletes what it made.
LEMMA NetMetadataSafe == ASSUME IInv, NEW t \in Threads, NetMetadata(t) PROVE IInv'
  <1>1. th[t].pc = "md" /\ AtWork(t) /\ Done(t)
    BY Busy DEF NetMetadata, At
  <1>2. (net' = FALSE \/ net' = net) /\ UNCHANGED <<subnet, portVars, dhcpVars, bindVars>>
        /\ (switch' = {} \/ switch' = switch \cup {"md"})
    BY DEF NetMetadata
  <1>3. Stays(t)
    BY <1>2 DEF Stays, bindVars
  <1>4. TypeOK'
    BY <1>1, <1>2 DEF IInv, Types, TypeOK, Done, portVars, dhcpVars, bindVars
  <1>5. th[t].k = NoServer
    BY <1>1 DEF AtWork, Sound, Disabling, Serving
  <1> QED  BY <1>1, <1>3, <1>4, <1>5, DoneEnds, EndQuiet

\* delete_network begins.
LEMMA StartDeleteNetSafe == ASSUME IInv, NEW t \in Threads, StartDeleteNet(t) PROVE IInv'
  <1>1. TypeOK'
    BY DEF StartDeleteNet, IInv, Types, TypeOK, netVars, portVars, dhcpVars, bindVars
  <1>2. "delnet" \in Ops /\ "delnet" \notin SubnetOps \cup PortOps
    BY DEF Ops, SubnetOps, PortOps, NetOps
  <1>3. Begin(t, "delnet", NoSubnet, NoPort, "netLock") /\ UNCHANGED <<net, dhcpVars, rows, port, lport, raced, lock>>
    BY DEF StartDeleteNet, netVars, portVars, bindVars
  <1> QED  BY <1>1, <1>2, <1>3, BeginKeeps, Table, NativeDhcpAssumption

\* _delete_network_disable_dhcp takes the lock unless there are ports.
LEMMA NetLockSafe == ASSUME IInv, NEW t \in Threads, NetLock(t) PROVE IInv'
  <1>1. th[t].pc = "netLock" /\ AtWork(t) /\ lock = NoThread
    BY Busy DEF NetLock, At
  <1>2. TypeOK' /\ Stays(t)
    BY <1>1 DEF Stays, NetLock, IInv, Types, TypeOK, netVars, portVars, dhcpVars, bindVars
  <1>3. th[t].op = "delnet" /\ th[t].k = NoServer /\ "off" \in Disabling
    BY <1>1, Table DEF AtWork, Sound, Disabling, Serving
  <1>4. CASE (\E p \in Ports : port[p] # NoSubnet) /\ Goto(t, "netGone") /\ UNCHANGED lock
    BY <1>1, <1>2, <1>3, <1>4, Table, GotoQuiet
  <1>5. CASE Goto(t, "off") /\ lock' = t
    BY <1>1, <1>2, <1>3, <1>5, Table, GotoQuiet
  <1> QED  BY <1>4, <1>5 DEF NetLock

\* delete_network deletes the rows: the server went before, or ports refuse it.
LEMMA NetGoneSafe == ASSUME IInv, NEW t \in Threads, NetGone(t) PROVE IInv'
  <1>1. th[t].pc = "netGone" /\ AtWork(t)
    BY Busy DEF NetGone, At
  <1>2. TypeOK'
    BY DEF NetGone, IInv, Types, TypeOK, portVars, dhcpVars, bindVars
  <1>3. th[t].op = "delnet" /\ th[t].k = NoServer
    BY <1>1, Table DEF AtWork, Sound, Disabling, Serving
  <1>4. CASE th' = [th EXCEPT ![t] = Idle] /\ UNCHANGED <<net, service, dport, orphan>>
    <2>1. Ends(t) /\ Stays(t)
      BY <1>4 DEF NetGone, Ends, Stays, dhcpVars, bindVars
    <2> QED  BY <1>1, <1>2, <1>3, <2>1, EndQuiet
  <1>5. CASE /\ service' = NoServer /\ dport' = {} /\ net' = FALSE
             /\ orphan' = orphan \cup ({service} \cap Servers) /\ Goto(t, "switchGone")
    <2>1. service' = service \/ service \in orphan'
      BY <1>5 DEF IInv, Types, TypeOK
    <2>2. UNCHANGED <<portVars, rows, dlport, server, lock>>
      BY <1>5 DEF NetGone, bindVars
    <2>3. "switchGone" \in Labels /\ "switchGone" \notin Binding \cup Disabling \cup Enabling \cup Making
      BY DEF Labels, Binding, Disabling, Enabling, Making
    <2>4. Moves(t) /\ th'[t].pc = "switchGone" /\ th'[t].k = th[t].k /\ th'[t].op = th[t].op
      BY <1>1, <1>3, <1>5, <2>2, <2>3, Table, GotoMoves
    <2>5. Own(t)
      BY <1>5, <2>1, <2>2 DEF Own, portVars
    <2>6. Current(t)' /\ PortHeld(t)'
      BY <2>3, <2>4 DEF Current, PortHeld
    <2>7. NoLeakedPort' /\ Paired'
      BY <1>2, <1>5, <2>2, NativeDhcpAssumption DEF IInv, Types, TypeOK, NoLeakedPort, Paired, portVars
    <2>8. RowsCurrent'
      <3>1. \A b \in rows' : port'[b[2]] # NoSubnet /\ (b[2] \in raced => b[2] \in raced')
        BY <2>2 DEF IInv, RowsCurrent, portVars
      <3> QED  BY <1>1, <1>5, <2>1, <2>2, <2>4, <3>1, RowsStay
    <2>9. NoLeakedServer'
      <3>1. PICK k : k = service
        OBVIOUS
      <3>2. k \in server' \cup dport' \cup dlport' => k \in {service', th'[t].k} \cup orphan'
        BY <1>5, <2>1, <3>1
      <3> QED  BY <1>2, <1>3, <1>5, <2>2, <2>4, <3>1, <3>2, Leftover
    <2> QED  BY <1>2, <2>4, <2>5, <2>6, <2>7, <2>8, <2>9, Keeps
  <1> QED  BY <1>4, <1>5 DEF NetGone

\* delete_network deletes the switch.
LEMMA SwitchGoneSafe == ASSUME IInv, NEW t \in Threads, SwitchGone(t) PROVE IInv'
  <1>1. th[t].pc = "switchGone" /\ AtWork(t) /\ Done(t)
    BY Busy DEF SwitchGone, At
  <1>2. TypeOK' /\ Stays(t)
    BY <1>1 DEF Stays, SwitchGone, IInv, Types, TypeOK, Done, portVars, dhcpVars, bindVars, netVars
  <1>3. th[t].k = NoServer
    BY <1>1 DEF AtWork, Sound, Disabling, Serving
  <1> QED  BY <1>1, <1>2, <1>3, DoneEnds, EndQuiet

\* create_subnet without DHCP.
LEMMA CreatePlainSafe == ASSUME IInv, NEW t \in Threads, NEW s \in Subnets, CreatePlain(t, s) PROVE IInv'
  <1>1. UNCHANGED <<net, switch, port, lport, raced, service, dport, dlport, server, orphan, static, rows, lock, th>>
        /\ subnet' = [subnet EXCEPT ![s] = "plain"]
    BY DEF CreatePlain, netVars, portVars, dhcpVars, bindVars
  <1>2. Types'
    BY <1>1 DEF IInv, Types, TypeOK, Sound
  <1> QED  BY <1>1, <1>2 DEF IInv, Exclusive, Locked, Current, PortHeld, NoLeakedServer, Holders, RowsCurrent, At,
              NoLeakedPort, Paired

\* A request on a subnet begins.
LEMMA StartSubnetSafe ==
  ASSUME IInv, NEW t \in Threads, NEW s \in Subnets,
         StartCreate(t, s) \/ StartUpdate(t, s) \/ StartDelete(t, s)
  PROVE  IInv'
  <1>1. PICK op \in SubnetOps, label \in {"lock", "gone"} :
          Begin(t, op, s, NoPort, label) /\ (label = "gone" => op = "delete")
    BY DEF StartCreate, StartUpdate, StartDelete, SubnetOps
  <1>2. TypeOK' /\ UNCHANGED <<net, dhcpVars, rows, port, lport, raced, lock>>
    BY DEF StartCreate, StartUpdate, StartDelete, IInv, Types, TypeOK, netVars, portVars, dhcpVars, bindVars
  <1>3. op \in Ops /\ op \notin PortOps /\ op # "move" /\ op \in OpsAt(label)
    BY <1>1, Table DEF Ops, SubnetOps, PortOps
  <1> QED  BY <1>1, <1>2, <1>3, BeginKeeps, NativeDhcpAssumption

\* The lock is taken to enable the DHCP of a subnet.
LEMMA TurnOnSafe == ASSUME IInv, NEW t \in Threads, TurnOn(t) PROVE IInv'
  <1>1. th[t].pc = "lock" /\ AtWork(t) /\ lock = NoThread /\ th[t].op \in {"create", "enable"}
    BY Busy DEF TurnOn, At
  <1>2. TypeOK' /\ Stays(t)
    BY <1>1 DEF Stays, TurnOn, IInv, Types, TypeOK, Done, netVars, portVars, dhcpVars, bindVars
  <1>3. th[t].k = NoServer /\ "off" \in Disabling
    BY <1>1 DEF AtWork, Sound, Disabling, Serving
  <1>4. CASE Goto(t, "off") /\ lock' = t
    BY <1>1, <1>2, <1>3, <1>4, Table, GotoQuiet DEF SubnetOps
  <1>5. CASE Done(t)
    BY <1>1, <1>2, <1>3, <1>5, DoneEnds, EndQuiet
  <1> QED  BY <1>4, <1>5 DEF TurnOn

\* create_subnet deletes the subnet whose addresses are refused.
LEMMA BadAddressSafe == ASSUME IInv, NEW t \in Threads, BadAddress(t) PROVE IInv'
  <1>1. th[t].pc = "off" /\ AtWork(t) /\ Done(t)
    BY Busy DEF BadAddress, At
  <1>2. TypeOK' /\ Stays(t)
    BY <1>1 DEF Stays, BadAddress, Undo, OnSubnet, IInv, Types, TypeOK, Done, netVars, portVars, dhcpVars, bindVars
  <1>3. th[t].k = NoServer
    BY <1>1 DEF AtWork, Sound, Disabling, Serving
  <1> QED  BY <1>1, <1>2, <1>3, DoneEnds, EndQuiet

\* The lock is taken to disable the last subnet with DHCP.
LEMMA TurnOffSafe == ASSUME IInv, NEW t \in Threads, TurnOff(t) PROVE IInv'
  <1>1. th[t].pc = "lock" /\ AtWork(t) /\ lock = NoThread /\ th[t].op \in {"disable", "delete"}
    BY Busy DEF TurnOff, At
  <1>2. TypeOK' /\ Stays(t)
    BY <1>1 DEF Stays, TurnOff, IInv, Types, TypeOK, netVars, portVars, dhcpVars, bindVars
  <1>3. th[t].k = NoServer /\ "off" \in Disabling
    BY <1>1 DEF AtWork, Sound, Disabling, Serving
  <1>4. CASE Goto(t, "off") /\ lock' = t
    BY <1>1, <1>2, <1>3, <1>4, Table, GotoQuiet DEF SubnetOps
  <1>5. CASE Goto(t, "gone") /\ UNCHANGED lock
    BY <1>1, <1>2, <1>3, <1>5, Table, GotoQuiet
  <1> QED  BY <1>4, <1>5 DEF TurnOff

\* The subnet changes or goes, whether the server was disabled or it failed.
LEMMA SubnetGoneSafe == ASSUME IInv, NEW t \in Threads, SubnetGone(t) PROVE IInv'
  <1>1. th[t].pc = "gone" /\ AtWork(t) /\ Done(t)
    BY Busy DEF SubnetGone, At
  <1>2. TypeOK' /\ Stays(t)
    BY <1>1 DEF Stays, SubnetGone, Undo, OnSubnet, IInv, Types, TypeOK, Done, netVars, portVars, dhcpVars, bindVars
  <1>3. th[t].k \in {NoServer, service} \cup orphan
    BY <1>1 DEF AtWork, Current
  <1> QED  BY <1>1, <1>2, <1>3, DoneEnds, EndQuiet

-----------------------------------------------------------------------------
(* Disabling                                                               *)

\* _disable_native_dhcp reads the row of the server.
LEMMA OffSafe == ASSUME IInv, NEW t \in Threads, Off(t) PROVE IInv'
  <1>1. th[t].pc = "off" /\ AtWork(t) /\ lock = t
    BY Busy DEF Off, At, AtWork, UnderLock, Disabling
  <1>2. TypeOK' /\ Stays(t)
    BY <1>1 DEF Stays, Off, Leave, IInv, Types, TypeOK, netVars, portVars, dhcpVars, bindVars
  <1>3. th[t].k = NoServer /\ th[t].op \in SubnetOps \cup {"delnet"}
    BY <1>1, Table DEF AtWork, Sound, Disabling, Serving
  <1>4. CASE service = NoServer /\ Goto(t, AfterOff[th[t].op]) /\ Leave(t)
    <2>1. CASE th[t].op \in {"create", "enable"}
      <3>1. Goto(t, "read") /\ lock' = t
        BY <1>1, <1>4, <2>1 DEF AfterOff, Leave
      <3>2. "read" \in Labels /\ "read" \notin Binding \cup Making /\ "read" \in Enabling
        BY DEF Labels, Binding, Enabling, Making
      <3>3. Moves(t) /\ th'[t].pc = "read" /\ th'[t].k = NoServer
        BY <1>1, <1>3, <2>1, <3>1, <3>2, Table, GotoMoves
      <3>4. Current(t)' /\ PortHeld(t)'
        BY <1>2, <1>4, <3>3 DEF Current, PortHeld, Stays, dhcpVars
      <3> QED  BY <1>1, <1>2, <1>3, <3>3, <3>4, Quiet
    <2>2. CASE th[t].op \in {"disable", "delete"}
      <3>1. Goto(t, "gone") /\ lock' = t
        BY <1>1, <1>4, <2>2 DEF AfterOff, Leave
      <3> QED  BY <1>1, <1>2, <1>3, <2>2, <3>1, Table, GotoQuiet
    <2>3. CASE th[t].op = "delnet"
      <3>1. Goto(t, "netGone") /\ lock' = NoThread
        BY <1>1, <1>4, <2>3 DEF AfterOff, Leave
      <3> QED  BY <1>1, <1>2, <1>3, <1>4, <2>3, <3>1, Table, GotoQuiet
    <2> QED  BY <1>3, <2>1, <2>2, <2>3 DEF SubnetOps
  <1>5. CASE service # NoServer /\ th' = [th EXCEPT ![t].pc = "offPort", ![t].k = service] /\ UNCHANGED lock
    <2> DEFINE r == [th[t] EXCEPT !.pc = "offPort", !.k = service]
    <2>1. r = [th[t] EXCEPT !.pc = "offPort", !.k = service, !.failed = th[t].failed]
      BY <1>1 DEF AtWork, Request
    <2>2. PICK k \in Servers \cup {NoServer}, failed \in BOOLEAN : k = service /\ failed = th[t].failed
      BY <1>1 DEF AtWork, Request, IInv, Types, TypeOK
    <2>3. MovesOn(t, "offPort", k, failed)
      BY <1>5, <2>1, <2>2 DEF MovesOn, IInv, Types
    <2>4. "offPort" \in Labels /\ "offPort" \notin Binding \cup Making /\ "offPort" \in Serving
          /\ "offPort" \in Disabling
      BY DEF Labels, Binding, Serving, Disabling, Making
    <2>5. Moves(t) /\ th'[t].pc = "offPort" /\ th'[t].k = k
      <3>1. th[t].op \in OpsAt("offPort") /\ lock' = t /\ lock = t /\ th[t].pc # "idle"
        BY <1>1, <1>3, <1>5, <2>4, Table
      <3> HIDE DEF r
      <3> QED  BY <2>3, <2>4, <3>1, StepMoves
    <2>6. Current(t)' /\ PortHeld(t)'
      BY <1>2, <1>5, <2>2, <2>5 DEF Current, PortHeld, Stays, dhcpVars, Enabling
    <2> QED  BY <1>1, <1>2, <1>3, <2>5, <2>6, Quiet
  <1> QED  BY <1>4, <1>5 DEF Off

\* _disable_native_dhcp deletes the DHCP port, with the logical port that it has.
LEMMA OffPortSafe == ASSUME IInv, NEW t \in Threads, OffPort(t) PROVE IInv'
  <1>1. th[t].pc = "offPort" /\ AtWork(t) /\ UnderLock(th[t]) /\ lock = t
    BY Busy DEF OffPort, At, AtWork, UnderLock, Disabling
  <1>2. TypeOK' /\ UNCHANGED <<service, server, orphan, portVars, rows, lock>>
    BY <1>1 DEF OffPort, IInv, Types, TypeOK, netVars, portVars, bindVars
  <1>3. "offServer" \in Labels /\ "offServer" \notin Binding \cup Making
        /\ {"offPort", "offServer"} \subseteq Serving \cap Disabling
    BY DEF Labels, Binding, Serving, Disabling, Making
  <1>4. Moves(t) /\ th'[t].pc = "offServer" /\ th'[t].k = th[t].k /\ th'[t].op = th[t].op
    BY <1>1, <1>2, <1>3, Table, GotoMoves DEF OffPort, AtWork
  <1>5. th[t].k \in Servers /\ (th[t].k = service \/ (th[t].k \in orphan /\ service = NoServer))
    BY <1>1 DEF AtWork, Current
  <1>6. dport' = dport \ {th[t].k} /\ dlport' = dlport \ ({th[t].k} \cap dport)
        /\ (service \in dlport => service \in dport)
    BY DEF OffPort, IInv, Paired
  <1>7. Current(t)' /\ PortHeld(t)'
    BY <1>2, <1>4, <1>5, <1>6 DEF Current, PortHeld, Enabling
  <1>8. t \in Holders' /\ th[t].op # "newport"
    BY <1>1, <1>3, <1>4, Table DEF AtWork, Holders, SubnetOps, NetOps
  <1>9. NoLeakedServer'
    BY <1>2, <1>4, <1>6, <1>8, Leftover
  <1>10. service' \in dlport' => service' \in dport'
    BY <1>2, <1>6
  <1> QED  BY <1>1, <1>2, <1>4, <1>7, <1>9, <1>10, ServerKeeps

\* _disable_native_dhcp deletes the server.
LEMMA OffServerSafe == ASSUME IInv, NEW t \in Threads, OffServer(t) PROVE IInv'
  <1>1. th[t].pc = "offServer" /\ AtWork(t) /\ UnderLock(th[t]) /\ lock = t
    BY Busy DEF OffServer, At, AtWork, UnderLock, Disabling
  <1>2. TypeOK' /\ UNCHANGED <<service, dport, dlport, orphan, portVars, rows, lock>>
        /\ server' = server \ {th[t].k}
    BY <1>1 DEF OffServer, IInv, Types, TypeOK, netVars, portVars
  <1>3. "offService" \in Labels /\ "offService" \notin Binding \cup Making
        /\ {"offServer", "offService"} \subseteq Serving \cap Disabling
    BY DEF Labels, Binding, Serving, Disabling, Making
  <1>4. Moves(t) /\ th'[t].pc = "offService" /\ th'[t].k = th[t].k /\ th'[t].op = th[t].op
    BY <1>1, <1>2, <1>3, Table, GotoMoves DEF OffServer, AtWork
  <1>5. Current(t)' /\ PortHeld(t)'
    BY <1>1, <1>2, <1>4 DEF AtWork, Current, PortHeld, Enabling
  <1>6. t \in Holders' /\ th[t].op # "newport"
    BY <1>1, <1>3, <1>4, Table DEF AtWork, Holders, SubnetOps, NetOps
  <1>7. NoLeakedServer'
    BY <1>2, <1>4, <1>6, Leftover
  <1>8. service' \in dlport' => service' \in dport'
    BY <1>2 DEF IInv, Paired
  <1> QED  BY <1>1, <1>2, <1>4, <1>5, <1>7, <1>8, ServerKeeps

\* _disable_native_dhcp deletes the row of the server, to which ports may just be bound.
LEMMA OffServiceSafe == ASSUME IInv, NEW t \in Threads, OffService(t) PROVE IInv'
  <1>1. th[t].pc = "offService" /\ AtWork(t) /\ UnderLock(th[t]) /\ lock = t
    BY Busy DEF OffService, At, AtWork, UnderLock, Disabling
  <1> DEFINE late == {u \in Threads : th[u].op = "newport" /\ th[u].pc = "bindRow"}
  <1>2. UNCHANGED <<dport, dlport, server, orphan, net, port, lport, rows, lock>> /\ service' = NoServer
        /\ raced' = raced \cup {th[u].p : u \in late}
    BY DEF OffService, netVars, bindVars
  <1>3. TypeOK'
    <2>1. \A u \in late : th[u].p \in Ports
      BY DEF IInv, Types, Sound, PortOps
    <2>2. UNCHANGED <<netVars, subnet, bindVars>>
      BY DEF OffService
    <2> HIDE DEF late
    <2> QED  BY <1>2, <2>1, <2>2 DEF IInv, Types, TypeOK, netVars, bindVars
  <1>4. "offRows" \in Labels /\ "offRows" \notin Binding \cup Making
        /\ {"offService", "offRows"} \subseteq Serving \cap Disabling
    BY DEF Labels, Binding, Serving, Disabling, Making
  <1>5. Moves(t) /\ th'[t].pc = "offRows" /\ th'[t].k = th[t].k /\ th'[t].op = th[t].op
    BY <1>1, <1>2, <1>4, Table, GotoMoves DEF OffService, AtWork
  <1>6. th[t].k \in Servers /\ (th[t].k = service \/ service = NoServer)
    BY <1>1 DEF AtWork, Current
  <1>7. Current(t)' /\ PortHeld(t)'
    BY <1>1, <1>2, <1>5, <1>6 DEF AtWork, Current, PortHeld, Enabling
  <1>8. t \in Holders' /\ th[t].op # "newport"
    BY <1>1, <1>4, <1>5, Table DEF AtWork, Holders, SubnetOps, NetOps
  <1>9. NoLeakedServer'
    <2>1. PICK k : k = th[t].k
      OBVIOUS
    <2>2. service' = service \/ service \in {NoServer, k}
      BY <1>6, <2>1
    <2>3. UNCHANGED <<server, dport, dlport, orphan>>
      BY <1>2
    <2> HIDE DEF late
    <2> QED  BY <1>3, <1>5, <1>8, <2>1, <2>2, <2>3, Leftover
  <1>10. Own(t)
    <2>1. \A u \in Threads : th[u].pc = "bindRow" /\ th[u].op = "newport" => th[u].p \in raced'
      BY <1>2
    <2>2. raced \subseteq raced'
      BY <1>2
    <2> HIDE DEF late
    <2> QED  BY <1>1, <1>2, <2>1, <2>2 DEF Own
  <1>11. RowsCurrent'
    <2>1. \A b \in rows' : port'[b[2]] # NoSubnet /\ (b[2] \in raced => b[2] \in raced')
      BY <1>2 DEF IInv, RowsCurrent
    <2> HIDE DEF late
    <2> QED  BY <1>1, <1>2, <1>5, <1>6, <2>1, RowsStay
  <1>12. NoLeakedPort' /\ Paired'
    BY <1>2, NativeDhcpAssumption DEF IInv, Types, TypeOK, NoLeakedPort, Paired
  <1> QED  BY <1>3, <1>5, <1>7, <1>9, <1>10, <1>11, <1>12, Keeps

\* _disable_native_dhcp deletes the rows of the server's bindings.
LEMMA OffRowsSafe == ASSUME IInv, NEW t \in Threads, OffRows(t) PROVE IInv'
  <1>1. th[t].pc = "offRows" /\ AtWork(t) /\ UnderLock(th[t]) /\ lock = t
    BY Busy DEF OffRows, At, AtWork, UnderLock, Disabling
  <1>2. TypeOK' /\ UNCHANGED <<service, dport, dlport, server, orphan, portVars>>
    BY <1>1 DEF OffRows, Leave, IInv, Types, TypeOK, netVars, portVars, dhcpVars
  <1>3. service = NoServer /\ th[t].k \notin server /\ (th[t].k \notin dport \cup dlport \/ th[t].k \in orphan)
    BY <1>1 DEF AtWork, Current
  <1>4. rows' \subseteq rows /\ (\A b \in rows' : b[1] # th[t].k) /\ th[t].op # "newport"
    BY <1>1, Table DEF OffRows, AtWork, Disabling, SubnetOps
  <1>5. ASSUME NEW label \in {"read", "gone", "netGone"}, AfterOff[th[t].op] = label,
               th[t].op \in OpsAt(label),
               lock' = lock \/ label = "netGone"
        PROVE  IInv'
    <2>1. label \in Labels /\ label \notin Binding \cup Disabling \cup Making
      BY DEF Labels, Binding, Disabling, Making
    <2>2. PICK k \in Servers \cup {NoServer}, failed \in BOOLEAN : k = NoServer /\ failed = th[t].failed
      BY <1>1 DEF AtWork, Request
    <2>3. [th[t] EXCEPT !.pc = label, !.k = NoServer]
          = [th[t] EXCEPT !.pc = label, !.k = k, !.failed = failed]
      BY <1>1, <2>2 DEF AtWork, Request
    <2>4. MovesOn(t, label, k, failed)
      BY <1>5, <2>3 DEF MovesOn, OffRows, IInv, Types
    <2>5. lock' = t \/ label = "netGone"
      BY <1>1, <1>5
    <2>6. label \in Enabling => lock' = t
      BY <2>5 DEF Enabling
    <2>7. Moves(t) /\ th'[t].pc = label /\ th'[t].k = NoServer
      <3>1. th[t].pc # "idle" /\ lock = t /\ (label \in Disabling \cup Enabling => lock' = t)
        BY <1>1, <2>1, <2>6
      <3>2. (k = NoServer \/ label \in Serving) /\ ((label = "gone" /\ k # NoServer) => lock' = t)
        BY <2>2
      <3>3. Moves(t) /\ th'[t].pc = label /\ th'[t].k = k
        <4>1. th[t].op \in OpsAt(label)
          BY <1>5
        <4>2. label \in Labels /\ label \notin Binding
          BY <2>1
        <4>3. lock' = lock \/ lock \in {NoThread, t}
          BY <3>1
        <4>4. label \in Making => k \in Servers /\ th[t].pc \in Making
          BY <2>1
        <4> QED  BY <2>4, <3>1, <3>2, <4>1, <4>2, <4>3, <4>4, StepMoves
      <3> QED  BY <2>2, <3>3
    <2>8. Current(t)' /\ PortHeld(t)'
      BY <1>2, <1>3, <2>7 DEF Current, PortHeld
    <2>9. NoLeakedServer'
      <3>1. PICK x : x = th[t].k
        OBVIOUS
      <3> QED  BY <1>2, <1>3, <1>4, <2>7, <3>1, Leftover
    <2>10. service' \in dlport' => service' \in dport'
      BY <1>2 DEF IInv, Paired
    <2> QED  BY <1>1, <1>2, <1>4, <2>7, <2>8, <2>9, <2>10, ServerKeeps
  <1>6. th[t].op \in SubnetOps \cup {"delnet"}
    BY <1>1, Table DEF AtWork, Disabling
  <1>7. CASE th[t].op \in {"create", "enable"}
    BY <1>5, <1>7, Table DEF AfterOff, OffRows, Leave, Enabling
  <1>8. CASE th[t].op \in {"disable", "delete"}
    BY <1>5, <1>8, Table DEF AfterOff, OffRows, Leave
  <1>9. CASE th[t].op = "delnet"
    BY <1>5, <1>9, Table DEF AfterOff
  <1> QED  BY <1>6, <1>7, <1>8, <1>9 DEF SubnetOps

\* _disable_native_dhcp fails: the row still names what is left of the server, or the rows
\* of its bindings are left.
LEMMA OffFailsSafe == ASSUME IInv, NEW t \in Threads, OffFails(t) PROVE IInv'
  <1>1. th[t].pc \in {"offPort", "offServer", "offService", "offRows"} /\ AtWork(t) /\ UnderLock(th[t]) /\ lock = t
    BY Busy DEF OffFails, AtWork, UnderLock, Disabling
  <1>2. UNCHANGED <<net, portVars, service, dport, dlport, server, rows>>
        /\ orphan' = IF th[t].pc = "offRows" THEN orphan \cup {th[t].k} ELSE orphan
    BY DEF OffFails, At, netVars, bindVars
  <1>3. th[t].k \in Servers /\ th[t].k \in {service} \cup orphan'
    BY <1>1, <1>2 DEF AtWork, Current
  <1>4. TypeOK'
    BY <1>1, <1>2, <1>3 DEF OffFails, Undo, OnSubnet, Done, IInv, Types, TypeOK, netVars, portVars, bindVars
  <1>5. th[t].op # "newport" /\ th[t].op \in SubnetOps \cup NetOps
    BY <1>1, Table DEF AtWork, Disabling, SubnetOps, NetOps
  <1>6. orphan \subseteq orphan' /\ (th[t].pc = "offRows" => th[t].k \in orphan')
    BY <1>2
  <1>7. service' \in dlport' => service' \in dport'
    BY <1>2 DEF IInv, Paired
  <1>8. PICK x : x = th[t].k
    OBVIOUS
  <1>9. CASE th[t].op = "delete" /\ FailTo(t, "gone") /\ UNCHANGED lock
    <2>1. PICK k \in Servers \cup {NoServer} : k = th[t].k
      BY <1>1 DEF AtWork, Request
    <2>2. [th[t] EXCEPT !.pc = "gone", !.failed = TRUE]
          = [th[t] EXCEPT !.pc = "gone", !.k = k, !.failed = TRUE]
      BY <1>1, <2>1 DEF AtWork, Request
    <2>3. MovesOn(t, "gone", k, TRUE)
      BY <1>9, <2>2 DEF MovesOn, FailTo, IInv, Types
    <2>4. "gone" \in Labels /\ "gone" \notin Binding \cup Enabling \cup Making /\ "gone" \in Serving
      BY DEF Labels, Binding, Enabling, Serving, Making
    <2>5. Moves(t) /\ th'[t].pc = "gone" /\ th'[t].k = k /\ th'[t].op = th[t].op
      <3>1. th[t].pc # "idle" /\ lock = t /\ lock' = t /\ th[t].op \in OpsAt("gone")
        BY <1>1, <1>9, Table
      <3> QED  BY <2>3, <2>4, <3>1, StepMoves
    <2>6. Current(t)' /\ PortHeld(t)'
      BY <1>2, <1>3, <2>1, <2>4, <2>5 DEF Current, PortHeld
    <2>7. t \in Holders'
      BY <1>5, <2>5 DEF Holders
    <2>8. NoLeakedServer'
      BY <1>2, <1>4, <1>5, <1>6, <2>1, <2>5, <2>7, Leftover
    <2> QED  BY <1>1, <1>2, <1>4, <1>6, <1>7, <2>5, <2>6, <2>8, ServerKeeps
  <1>10. CASE Done(t)
    <2>1. Moves(t) /\ th'[t] = Idle /\ Current(t)' /\ PortHeld(t)'
      BY <1>1, <1>10, DoneEnds, EndMoves
    <2>2. th'[t].k = NoServer
      BY <2>1, IdleType
    <2>3. NoLeakedServer'
      BY <1>2, <1>3, <1>4, <1>5, <1>6, <1>8, <2>1, <2>2, Leftover
    <2> QED  BY <1>1, <1>2, <1>4, <1>6, <1>7, <2>1, <2>3, ServerKeeps
  <1> QED  BY <1>9, <1>10 DEF OffFails

-----------------------------------------------------------------------------
(* Enabling                                                                *)

\* _enable_native_dhcp reads the ports of the subnet.
LEMMA ReadPortsSafe == ASSUME IInv, NEW t \in Threads, ReadPorts(t) PROVE IInv'
  <1>1. th[t].pc = "read" /\ AtWork(t) /\ lock = t
    BY Busy DEF ReadPorts, At, AtWork, UnderLock, Enabling
  <1>2. TypeOK' /\ Stays(t) /\ UNCHANGED <<dhcpVars, lock>>
    BY <1>1 DEF Stays, ReadPorts, IInv, Types, TypeOK, netVars, portVars, dhcpVars, bindVars
  <1>3. th[t].k = NoServer /\ service = NoServer
    BY <1>1 DEF AtWork, Sound, Serving, Current, Enabling
  <1> DEFINE r == [th[t] EXCEPT !.pc = "dport", !.todo = OnSubnet(th[t].s)]
  <1>4. r \in Request /\ r.pc = "dport" /\ r.op = th[t].op /\ r.s = th[t].s /\ r.p = th[t].p
        /\ r.old = th[t].old /\ r.k = NoServer /\ r.todo = OnSubnet(th[t].s)
    BY <1>1, <1>3 DEF AtWork, Request, Labels, OnSubnet
  <1>5. "dport" \notin Binding /\ {"read", "dport"} \subseteq Enabling /\ OnSubnet(th[t].s) \subseteq Ports
    BY DEF Binding, Enabling, OnSubnet
  <1>6. th' = [th EXCEPT ![t] = r]
    BY DEF ReadPorts, IInv, Types
  <1>7. r.op \in OpsAt(r.pc)
    BY <1>1, <1>4, <1>5, Table DEF AtWork
  <1> HIDE DEF r
  <1>8. Moves(t) /\ th'[t] = r
    BY <1>1, <1>2, <1>4, <1>5, <1>6, <1>7, TodoMoves
  <1>9. Current(t)' /\ PortHeld(t)'
    BY <1>2, <1>3, <1>4, <1>8 DEF Current, PortHeld, dhcpVars
  <1> QED  BY <1>1, <1>2, <1>3, <1>4, <1>8, <1>9, Quiet

\* The server of a request that enables DHCP is its own.
LEMMA HoldsServer ==
  ASSUME NEW t \in Threads, AtWork(t), th[t].pc \in Enabling
  PROVE  th[t].op \in {"create", "enable"} /\ t \in Holders /\ th[t].op # "newport" /\ service = NoServer
         /\ th[t].pc # "offRows"
  BY Table DEF AtWork, Holders, SubnetOps, NetOps, Enabling, Current

\* _enable_native_dhcp makes the DHCP port.
LEMMA AddDhcpPortSafe == ASSUME IInv, NEW t \in Threads, AddDhcpPort(t) PROVE IInv'
  <1>1. th[t].pc = "dport" /\ AtWork(t) /\ UnderLock(th[t]) /\ lock = t
    BY Busy DEF AddDhcpPort, At, AtWork, UnderLock, Enabling
  <1>2. PICK k \in Servers \ Used : dport' = dport \cup {k}
        /\ th' = [th EXCEPT ![t].pc = "server", ![t].k = k]
    BY DEF AddDhcpPort
  <1>3. TypeOK' /\ UNCHANGED <<service, dlport, server, orphan, portVars, rows, lock>>
    BY <1>1, <1>2 DEF AddDhcpPort, IInv, Types, TypeOK, netVars, portVars, bindVars
  <1>4. th[t].k = NoServer /\ service = NoServer /\ k \notin dlport
    BY <1>1 DEF AtWork, Sound, Serving, Current, Enabling, Used
  <1>5. PICK failed \in BOOLEAN : failed = th[t].failed
    BY <1>1 DEF AtWork, Request
  <1>6. [th[t] EXCEPT !.pc = "server", !.k = k] = [th[t] EXCEPT !.pc = "server", !.k = k, !.failed = failed]
    BY <1>1, <1>5 DEF AtWork, Request
  <1>7. MovesOn(t, "server", k, failed)
    BY <1>2, <1>6 DEF MovesOn, IInv, Types
  <1>8. "server" \in Labels /\ "server" \notin Binding /\ "server" \in Serving
        /\ {"dport", "server"} \subseteq Enabling \cap Making
    BY DEF Labels, Binding, Serving, Enabling, Making
  <1>9. th[t].op \in OpsAt("server") /\ lock' = t
    BY <1>1, <1>3, <1>8, Table DEF AtWork
  <1>10. Moves(t) /\ th'[t].pc = "server" /\ th'[t].k = k /\ th'[t].op = th[t].op
    BY <1>1, <1>7, <1>8, <1>9, StepMoves
  <1>11. Current(t)' /\ PortHeld(t)'
    BY <1>2, <1>3, <1>4, <1>10 DEF Current, PortHeld
  <1>12. t \in Holders /\ t \in Holders' /\ th[t].op # "newport" /\ th[t].pc # "offRows"
    BY <1>1, <1>8, <1>10, HoldsServer DEF Holders
  <1>13. NoLeakedServer'
    BY <1>2, <1>3, <1>4, <1>10, <1>12, Leftover
  <1>14. service' \in dlport' => service' \in dport'
    BY <1>2, <1>3 DEF IInv, Paired
  <1> QED  BY <1>1, <1>3, <1>10, <1>11, <1>12, <1>13, <1>14, ServerKeeps

\* _enable_native_dhcp cannot make the DHCP port.
LEMMA NoDhcpPortSafe == ASSUME IInv, NEW t \in Threads, NoDhcpPort(t) PROVE IInv'
  <1>1. th[t].pc = "dport" /\ AtWork(t) /\ Done(t)
    BY Busy DEF NoDhcpPort, At
  <1>2. TypeOK' /\ Stays(t)
    BY <1>1 DEF Stays, NoDhcpPort, Done, IInv, Types, TypeOK, netVars, portVars, dhcpVars, bindVars
  <1>3. th[t].k = NoServer
    BY <1>1 DEF AtWork, Sound, Serving
  <1> QED  BY <1>1, <1>2, <1>3, DoneEnds, EndQuiet

\* _enable_native_dhcp makes the server.
LEMMA AddServerSafe == ASSUME IInv, NEW t \in Threads, AddServer(t) PROVE IInv'
  <1>1. th[t].pc = "server" /\ AtWork(t) /\ UnderLock(th[t]) /\ lock = t
    BY Busy DEF AddServer, At, AtWork, UnderLock, Enabling
  <1>2. service = NoServer /\ th[t].k \notin dlport /\ th[t].k \in Servers
    BY <1>1 DEF AtWork, Current, Sound, Making, Enabling, Request
  <1>3. UNCHANGED <<net, service, dport, dlport, orphan, portVars, rows, lock>>
    BY DEF AddServer, netVars, bindVars
  <1>4. "dlport" \in Labels /\ "dlport" \notin Binding /\ "dlport" \in Serving
        /\ {"server", "dlport"} \subseteq Enabling \cap Making
    BY DEF Labels, Binding, Serving, Enabling, Making
  <1>5. Moves(t) /\ th'[t].pc = "dlport" /\ th'[t].k = th[t].k /\ th'[t].op = th[t].op
    BY <1>1, <1>2, <1>3, <1>4, Table, GotoMoves DEF AddServer, AtWork
  <1>6. Current(t)' /\ PortHeld(t)'
    BY <1>1, <1>2, <1>3, <1>5 DEF AtWork, Current, PortHeld
  <1>7. t \in Holders /\ t \in Holders' /\ th[t].op # "newport" /\ th[t].pc # "offRows"
    BY <1>1, <1>4, <1>5, HoldsServer DEF Holders
  <1>8. TypeOK' /\ server' = server \cup {th[t].k}
    BY <1>1, <1>2, <1>3 DEF AddServer, IInv, Types, TypeOK, netVars, portVars, bindVars
  <1>9. NoLeakedServer'
    BY <1>3, <1>5, <1>7, <1>8, Leftover
  <1>10. service' \in dlport' => service' \in dport'
    BY <1>3 DEF IInv, Paired
  <1> QED  BY <1>1, <1>3, <1>5, <1>6, <1>7, <1>8, <1>9, <1>10, ServerKeeps

\* _enable_native_dhcp makes the logical port.
LEMMA AddLogicalPortSafe == ASSUME IInv, NEW t \in Threads, AddLogicalPort(t) PROVE IInv'
  <1>1. th[t].pc = "dlport" /\ AtWork(t) /\ UnderLock(th[t]) /\ lock = t
    BY Busy DEF AddLogicalPort, At, AtWork, UnderLock, Enabling
  <1>2. service = NoServer /\ th[t].k \in Servers
    BY <1>1 DEF AtWork, Current, Sound, Making, Enabling
  <1>3. UNCHANGED <<net, service, dport, server, orphan, portVars, rows, lock>>
    BY DEF AddLogicalPort, netVars, bindVars
  <1>4. "service" \in Labels /\ "service" \notin Binding /\ "service" \in Serving
        /\ {"dlport", "service"} \subseteq Enabling \cap Making
    BY DEF Labels, Binding, Serving, Enabling, Making
  <1>5. Moves(t) /\ th'[t].pc = "service" /\ th'[t].k = th[t].k /\ th'[t].op = th[t].op
    BY <1>1, <1>2, <1>3, <1>4, Table, GotoMoves DEF AddLogicalPort, AtWork
  <1>6. Current(t)' /\ PortHeld(t)'
    BY <1>1, <1>2, <1>3, <1>5 DEF AtWork, Current, PortHeld
  <1>7. t \in Holders /\ t \in Holders' /\ th[t].op # "newport" /\ th[t].pc # "offRows"
    BY <1>1, <1>4, <1>5, HoldsServer DEF Holders
  <1>8. TypeOK' /\ dlport' = dlport \cup {th[t].k}
    BY <1>1, <1>2, <1>3 DEF AddLogicalPort, IInv, Types, TypeOK, netVars, portVars, bindVars
  <1>9. NoLeakedServer'
    BY <1>3, <1>5, <1>7, <1>8, Leftover
  <1>10. service' \in dlport' => service' \in dport'
    BY <1>2, <1>3, <1>8, NativeDhcpAssumption DEF IInv, Paired
  <1> QED  BY <1>1, <1>3, <1>5, <1>6, <1>7, <1>8, <1>9, <1>10, ServerKeeps

\* A request that makes a server ends, and leaves nothing of it but to the orphans.
LEMMA GiveUp ==
  ASSUME IInv, NEW t \in Threads, th[t].pc \in Making, AtWork(t), Done(t), UNCHANGED <<service, portVars, rows>>,
         TypeOK',
         server' \subseteq server, dport' \subseteq dport, dlport' \subseteq dlport, orphan \subseteq orphan',
         th[t].k \in server' \cup dport' \cup dlport' => th[t].k \in orphan'
  PROVE  IInv'
  <1>1. th[t].pc # "idle" /\ UnderLock(th[t])
    BY DEF Making, UnderLock, Enabling
  <1>2. Moves(t) /\ th'[t] = Idle /\ Current(t)' /\ PortHeld(t)'
    BY <1>1, DoneEnds, EndMoves
  <1>3. th[t].op # "newport" /\ th[t].pc # "offRows" /\ service = NoServer
    BY HoldsServer DEF Making, Enabling
  <1>4. NoLeakedServer'
    <2>1. PICK k : k = th[t].k
      OBVIOUS
    <2>2. th'[t].k = NoServer
      BY <1>2, IdleType
    <2> QED  BY <1>2, <1>3, <2>1, <2>2, Leftover
  <1>5. service' \in dlport' => service' \in dport'
    BY <1>3, NativeDhcpAssumption DEF TypeOK
  <1> QED  BY <1>1, <1>2, <1>3, <1>4, <1>5, ServerKeeps

\* _enable_native_dhcp deletes what it made when the backend refuses the next.
LEMMA EnableFailsSafe == ASSUME IInv, NEW t \in Threads, EnableFails(t) PROVE IInv'
  <1>1. th[t].pc \in {"server", "dlport"} /\ AtWork(t) /\ Done(t)
    BY Busy DEF EnableFails
  <1>2. TypeOK'
    BY <1>1 DEF EnableFails, Undo, OnSubnet, Done, IInv, Types, TypeOK, netVars, portVars, bindVars
  <1>3. th[t].k \notin dlport
    BY <1>1 DEF AtWork, Current
  <1> QED  BY <1>1, <1>2, <1>3, GiveUp DEF EnableFails, Making, bindVars

\* _enable_native_dhcp leaves what it made to an unavailable service cluster.
LEMMA UnavailableSafe == ASSUME IInv, NEW t \in Threads, Unavailable(t) PROVE IInv'
  <1>1. th[t].pc \in Making /\ th[t].pc # "dport" /\ AtWork(t) /\ Done(t)
    BY Busy DEF Unavailable, Making
  <1>2. TypeOK'
    BY <1>1 DEF Unavailable, Done, AtWork, Sound, IInv, Types, TypeOK, netVars, portVars, bindVars
  <1> QED  BY <1>1, <1>2, GiveUp DEF Unavailable, bindVars

\* _enable_native_dhcp deletes what it made when its row cannot be added.
LEMMA ServiceFailsSafe == ASSUME IInv, NEW t \in Threads, ServiceFails(t) PROVE IInv'
  <1>1. th[t].pc \in Making /\ AtWork(t) /\ Done(t)
    BY Busy DEF ServiceFails, At, Making
  <1>2. TypeOK'
    BY <1>1 DEF ServiceFails, Done, IInv, Types, TypeOK, netVars, portVars, bindVars
  <1> QED  BY <1>1, <1>2, GiveUp DEF ServiceFails, bindVars

\* _enable_native_dhcp adds the row: the server is the network's now.
LEMMA AddServiceSafe == ASSUME IInv, NEW t \in Threads, AddService(t) PROVE IInv'
  <1>1. th[t].pc = "service" /\ AtWork(t) /\ UnderLock(th[t]) /\ lock = t
    BY Busy DEF AddService, At, AtWork, UnderLock, Enabling
  <1>2. service = NoServer /\ th[t].k \in Servers /\ service' = th[t].k
    BY <1>1 DEF AddService, AtWork, Current, Sound, Making, Enabling
  <1>3. UNCHANGED <<dport, dlport, server, orphan, portVars, rows, lock>> /\ th[t].k \in dport
    BY <1>1 DEF AddService, AtWork, Current, bindVars
  <1> DEFINE r == [th[t] EXCEPT !.pc = "bind", !.k = NoServer]
  <1>4. r \in Request /\ r.pc = "bind" /\ r.op = th[t].op /\ r.s = th[t].s /\ r.p = th[t].p
        /\ r.old = th[t].old /\ r.k = NoServer /\ r.todo = th[t].todo
    BY <1>1 DEF AtWork, Request, Labels
  <1>5. th[t].todo \subseteq Ports /\ th[t].op \in {"create", "enable"}
    BY <1>1, Table DEF AtWork, Sound, Enabling, Making
  <1>6. th' = [th EXCEPT ![t] = r]
    BY DEF AddService, IInv, Types
  <1>7. "bind" \in Binding /\ "bind" \notin Making \cup Enabling
    BY DEF Binding, Making, Enabling
  <1> HIDE DEF r
  <1>8. Moves(t) /\ th'[t] = r
    <2>1. th[t].pc # "idle" /\ r.op \in OpsAt(r.pc) /\ lock = t /\ lock' = t
      BY <1>1, <1>3, <1>4, <1>5, <1>7, Table
    <2>2. r.todo \subseteq (IF r.op = "newport" THEN {r.p} ELSE Ports) /\ r.pc # "bindRow"
          /\ r.pc \notin Making
      BY <1>4, <1>5, <1>7
    <2> QED  BY <1>4, <1>6, <2>1, <2>2, TodoMoves
  <1>9. Current(t)' /\ PortHeld(t)'
    BY <1>4, <1>7, <1>8 DEF Current, PortHeld
  <1>10. TypeOK'
    BY <1>1, <1>2, <1>3 DEF AddService, IInv, Types, TypeOK, netVars, portVars, bindVars
  <1>11. NoLeakedServer'
    <2>1. PICK k : k = th[t].k
      OBVIOUS
    <2>2. th'[t].k = NoServer
      BY <1>4, <1>8
    <2>3. th[t].op # "newport"
      BY <1>5
    <2> QED  BY <1>2, <1>3, <1>8, <1>10, <2>1, <2>2, <2>3, Leftover
  <1>12. RowsCurrent'
    <2>1. \A b \in rows' : port'[b[2]] # NoSubnet /\ (b[2] \in raced => b[2] \in raced')
      BY <1>3 DEF IInv, RowsCurrent, portVars
    <2> QED  BY <1>1, <1>2, <1>3, <1>8, <2>1, RowsStay
  <1>13. Own(t)
    BY <1>1, <1>2, <1>3 DEF Own, portVars
  <1>14. NoLeakedPort' /\ Paired'
    BY <1>2, <1>3 DEF IInv, NoLeakedPort, Paired, portVars
  <1> QED  BY <1>8, <1>9, <1>10, <1>11, <1>12, <1>13, <1>14, Keeps

\* _add_port_mp_dhcp_binding binds a port at the server of the network, or has none to bind.
LEMMA AddBindingSafe == ASSUME IInv, NEW t \in Threads, AddBinding(t) PROVE IInv'
  <1>1. th[t].pc = "bind" /\ AtWork(t) /\ "bind" \in Binding
    BY Busy DEF AddBinding, At, Binding
  <1>2. Stays(t)
    BY DEF Stays, AddBinding, netVars, portVars, dhcpVars, bindVars
  <1>3. th[t].k = NoServer /\ th[t].op \in {"create", "enable", "newport"}
    BY <1>1, Table DEF AtWork, Sound, Serving
  <1>4. th[t].todo \subseteq (IF th[t].op = "newport" THEN {th[t].p} ELSE Ports)
        /\ th[t].todo \subseteq Ports
        /\ th[t].s \in Subnets
    BY <1>1, <1>3 DEF AtWork, Sound, SubnetOps, PortOps
  <1>5. CASE Done(t) /\ UNCHANGED static
    <2>1. TypeOK'
      BY <1>1, <1>5 DEF AddBinding, Done, IInv, Types, TypeOK, netVars, portVars, dhcpVars
    <2> QED  BY <1>1, <1>2, <1>3, <1>5, <2>1, DoneEnds, EndQuiet
  <1>6. ASSUME NEW p \in th[t].todo, static' = static \cup {<<service, p, th[t].s>>}, service # NoServer,
               th' = [th EXCEPT ![t].pc = "bindRow", ![t].k = service, ![t].q = p], UNCHANGED lock
        PROVE  IInv'
    <2>1. service \in Servers /\ p \in Ports
      BY <1>4, <1>6 DEF IInv, Types, TypeOK
    <2>2. TypeOK'
      <3>1. UNCHANGED <<netVars, subnet, dhcpVars, portVars, rows, lock>>
        BY <1>6 DEF AddBinding
      <3>2. <<service, p, th[t].s>> \in Bindings
        BY <1>4, <2>1 DEF Bindings
      <3> QED  BY <1>6, <3>1, <3>2 DEF IInv, Types, TypeOK, netVars, portVars, dhcpVars
    <2> DEFINE r == [th[t] EXCEPT !.pc = "bindRow", !.k = service, !.q = p]
    <2>3. r \in Request /\ r.pc = "bindRow" /\ r.op = th[t].op /\ r.s = th[t].s /\ r.p = th[t].p
          /\ r.old = th[t].old /\ r.k = service /\ r.todo = th[t].todo /\ r.q = p
      BY <1>1, <2>1 DEF AtWork, Request, Labels
    <2>4. th' = [th EXCEPT ![t] = r]
      BY <1>6 DEF IInv, Types
    <2>5. "bindRow" \in Binding /\ "bindRow" \notin Making \cup Enabling \cup Disabling
          /\ "bindRow" \in Serving
      BY DEF Binding, Making, Enabling, Disabling, Serving
    <2> HIDE DEF r
    <2>6. Moves(t) /\ th'[t] = r
      <3>1. th[t].pc # "idle" /\ r.op \in OpsAt(r.pc) /\ lock' = lock /\ r.q \in r.todo
        BY <1>1, <1>3, <1>6, <2>3, <2>5, Table
      <3>2. UnderLock(r) => lock' = t
        BY <1>1, <1>6, <2>3, <2>5 DEF AtWork, UnderLock
      <3>3. r.todo \subseteq (IF r.op = "newport" THEN {r.p} ELSE Ports) /\ r.pc \notin Making
            /\ r.pc \in Serving
        BY <1>4, <2>3, <2>5
      <3> QED  BY <2>3, <2>4, <3>1, <3>2, <3>3, TodoMoves
    <2>7. Current(t)' /\ PortHeld(t)'
      BY <1>2, <2>1, <2>3, <2>5, <2>6 DEF Current, PortHeld, Stays, dhcpVars
    <2> QED  BY <1>1, <1>2, <1>3, <2>2, <2>6, <2>7, Quiet
  <1> QED  BY <1>5, <1>6 DEF AddBinding

\* _add_port_mp_dhcp_binding adds the row: the server is still the network's, or the port is
\* one of those that were being bound when the server went.
LEMMA AddRowSafe == ASSUME IInv, NEW t \in Threads, AddRow(t) PROVE IInv'
  <1>1. th[t].pc = "bindRow" /\ AtWork(t) /\ "bindRow" \in Binding
    BY Busy DEF AddRow, At, Binding
  <1>2. UNCHANGED <<net, dhcpVars, portVars, lock>>
    BY DEF AddRow, netVars
  <1>3. th[t].k \in Servers /\ th[t].op \in {"create", "enable", "newport"}
        /\ (th[t].k = service \/ th[t].k \in orphan \/ (th[t].op = "newport" /\ th[t].p \in raced))
    BY <1>1, Table DEF AtWork, Current
  <1>4. th[t].todo \subseteq (IF th[t].op = "newport" THEN {th[t].p} ELSE Ports)
        /\ th[t].todo \subseteq Ports
        /\ th[t].s \in Subnets /\ th[t].q \in th[t].todo
    BY <1>1, <1>3 DEF AtWork, Sound, SubnetOps, PortOps
  <1>5. th[t].k \in Servers /\ th[t].q \in Ports
    BY <1>3, <1>4 DEF IInv, Types, TypeOK
  <1>6. TypeOK'
    BY <1>4, <1>5 DEF AddRow, IInv, Types, TypeOK, Bindings, netVars, portVars, dhcpVars
  <1> DEFINE r == [th[t] EXCEPT !.pc = "bind", !.todo = @ \ {th[t].q}, !.q = NoPort, !.k = NoServer]
  <1>7. r \in Request /\ r.pc = "bind" /\ r.op = th[t].op /\ r.s = th[t].s /\ r.p = th[t].p
        /\ r.old = th[t].old /\ r.k = NoServer /\ r.todo \subseteq th[t].todo
    BY <1>1 DEF AtWork, Request, Labels
  <1>8. th' = [th EXCEPT ![t] = r]
    BY DEF AddRow, IInv, Types
  <1>9. "bind" \in Binding /\ "bind" \notin Making \cup Enabling \cup Disabling
    BY DEF Binding, Making, Enabling, Disabling
  <1> HIDE DEF r
  <1>10. Moves(t) /\ th'[t] = r
    <2>1. th[t].pc # "idle" /\ r.op \in OpsAt(r.pc) /\ lock' = lock /\ r.pc # "bindRow"
      BY <1>1, <1>2, <1>3, <1>7, <1>9, Table
    <2>2. UnderLock(r) => lock' = t
      BY <1>1, <1>2, <1>7, <1>9 DEF AtWork, UnderLock
    <2>3. r.todo \subseteq (IF r.op = "newport" THEN {r.p} ELSE Ports) /\ r.pc \notin Making
      BY <1>4, <1>7, <1>9
    <2> QED  BY <1>7, <1>8, <2>1, <2>2, <2>3, TodoMoves
  <1>11. Current(t)' /\ PortHeld(t)'
    BY <1>7, <1>9, <1>10 DEF Current, PortHeld
  <1>12. \A b \in rows' \ rows : b = <<th[t].k, th[t].q, th[t].s>> /\ port[th[t].q] # NoSubnet
    BY DEF AddRow
  <1>13. Own(t)
    BY <1>2, <1>3, <1>4, <1>12 DEF Own, dhcpVars, portVars, PortOps
  <1>14. NoLeakedServer'
    BY <1>2, <1>3, <1>10, Released
  <1>15. RowsCurrent'
    <2>1. ASSUME NEW b \in rows', b \notin rows
          PROVE  port[b[2]] # NoSubnet /\ (b[1] \in {service} \cup orphan \/ b[2] \in raced)
      <3>1. b[1] = th[t].k /\ b[2] = th[t].q /\ port[th[t].q] # NoSubnet
        BY <1>12, <2>1
      <3>2. th[t].op = "newport" => th[t].q = th[t].p
        BY <1>4
      <3> QED  BY <1>3, <3>1, <3>2
    <2>2. ASSUME NEW b \in rows', b \in rows, b[2] \notin raced
          PROVE  b[1] \in {service} \cup {th'[u].k : u \in {u \in Threads : th'[u].pc = "offRows"}} \cup orphan
      <3>1. b[1] \in {service} \cup {th[u].k : u \in {u \in Threads : th[u].pc = "offRows"}} \cup orphan
        BY <2>2 DEF IInv, RowsCurrent, At
      <3>2. ASSUME NEW u \in Threads, th[u].pc = "offRows" PROVE th'[u] = th[u]
        BY <1>1, <1>10, <3>2 DEF Moves
      <3> QED  BY <3>1, <3>2
    <2>3. \A b \in rows : port[b[2]] # NoSubnet
      BY DEF IInv, RowsCurrent
    <2>4. service' = service /\ orphan' = orphan /\ port' = port /\ raced' = raced
      BY <1>2 DEF dhcpVars, portVars
    <2> QED  BY <2>1, <2>2, <2>3, <2>4 DEF RowsCurrent, At
  <1>16. NoLeakedPort' /\ Paired'
    BY <1>2 DEF IInv, NoLeakedPort, Paired, dhcpVars, portVars
  <1> QED  BY <1>6, <1>10, <1>11, <1>13, <1>14, <1>15, <1>16, Keeps

\* _add_port_mp_dhcp_binding fails, and a new port is deleted again.
LEMMA BindingFailsSafe == ASSUME IInv, NEW t \in Threads, BindingFails(t) PROVE IInv'
  <1>1. th[t].pc = "bind" /\ AtWork(t)
    BY Busy DEF BindingFails, At
  <1>2. TypeOK' /\ Stays(t)
    BY <1>1 DEF Stays, BindingFails, Done, IInv, Types, TypeOK, netVars, portVars, dhcpVars, bindVars
  <1>3. th[t].k = NoServer
    BY <1>1 DEF AtWork, Sound, Serving
  <1>4. CASE th[t].op = "newport" /\ FailTo(t, "delLport") /\ UNCHANGED lock
    <2> DEFINE r == [th[t] EXCEPT !.pc = "delLport", !.failed = TRUE]
    <2>1. r \in Request /\ r.pc = "delLport" /\ r.op = th[t].op /\ r.s = th[t].s /\ r.p = th[t].p
          /\ r.old = th[t].old /\ r.k = NoServer
      BY <1>1, <1>3 DEF AtWork, Request, Labels
    <2>2. th' = [th EXCEPT ![t] = r]
      BY <1>4 DEF FailTo, IInv, Types
    <2>3. "delLport" \notin Binding \cup Making \cup Enabling \cup Disabling
      BY DEF Binding, Enabling, Making, Disabling
    <2> HIDE DEF r
    <2>4. Moves(t) /\ th'[t] = r
      <3>1. th[t].pc # "idle" /\ lock' = lock /\ r.op \in OpsAt(r.pc) /\ r.pc \notin Binding \cup Making
            /\ ~UnderLock(r) /\ r.pc # "bindRow"
        BY <1>1, <1>4, <2>1, <2>3, Table DEF UnderLock
      <3> QED  BY <2>1, <2>2, <3>1, TodoMoves
    <2>5. Current(t)' /\ PortHeld(t)'
      BY <2>1, <2>3, <2>4 DEF Current, PortHeld
    <2> QED  BY <1>1, <1>2, <1>3, <2>4, <2>5, Quiet
  <1>5. CASE Done(t)
    BY <1>1, <1>2, <1>3, <1>5, DoneEnds, EndQuiet
  <1> QED  BY <1>4, <1>5 DEF BindingFails

-----------------------------------------------------------------------------
(* Ports                                                                   *)

\* A step of a request on a port changes nothing of the server.
LEMMA PortKeeps ==
  ASSUME IInv, NEW t \in Threads, Moves(t), th[t].op \in PortOps, th[t].k = NoServer, th[t].pc # "offRows",
         UNCHANGED <<net, dhcpVars>>,
         \A p \in Ports : p # th[t].p =>
           port'[p] = port[p] /\ (p \in lport' <=> p \in lport) /\ (p \in raced => p \in raced'),
         rows' \subseteq rows, TypeOK', Current(t)', PortHeld(t)',
         th[t].p \in lport' => port'[th[t].p] # NoSubnet,
         \A b \in rows' : b[2] = th[t].p =>
           port'[b[2]] # NoSubnet /\ (b[2] \in raced => b[2] \in raced')
  PROVE  IInv'
  <1>1. Own(t)
    <2>1. th[t].op # "newnet" /\ UNCHANGED <<net, service, dport, dlport, server, orphan>>
      BY DEF PortOps, dhcpVars
    <2>2. net' => net \/ th[t].op = "newnet"
      BY <2>1
    <2> QED  BY <2>1, <2>2 DEF Own
  <1>2. NoLeakedServer'
    BY Released
  <1>3. NoLeakedPort' /\ Paired'
    BY DEF IInv, NoLeakedPort, Paired, Types, TypeOK, dhcpVars
  <1>4. RowsCurrent'
    <2>1. ASSUME NEW b \in rows'
          PROVE  port'[b[2]] # NoSubnet /\ (b[2] \in raced => b[2] \in raced')
      <3>1. b[2] \in Ports /\ port[b[2]] # NoSubnet
        BY DEF IInv, RowsCurrent, Types, TypeOK, Bindings
      <3> QED  BY <3>1
    <2>2. service' = service /\ orphan' = orphan
      BY DEF dhcpVars
    <2> QED  BY <2>1, <2>2, RowsStay
  <1> QED  BY <1>1, <1>2, <1>3, <1>4, Keeps

\* create_port adds the port to the database.
LEMMA StartPortSafe ==
  ASSUME IInv, NEW t \in Threads, NEW p \in Ports, NEW s \in Subnets, StartPort(t, p, s)
  PROVE  IInv'
  <1>1. Begin(t, "newport", s, p, "newLport") /\ UNCHANGED <<net, dhcpVars, rows, lport, raced, lock>>
        /\ port' = [port EXCEPT ![p] = s] /\ port[p] = NoSubnet
    BY DEF StartPort, netVars, bindVars
  <1>2. TypeOK'
    BY <1>1 DEF StartPort, IInv, Types, TypeOK, netVars, dhcpVars, bindVars
  <1>3. "newport" \in Ops /\ "newport" \in PortOps /\ "newport" # "move"
    BY DEF Ops, PortOps
  <1>4. \A x \in Ports : port'[x] = IF x = p THEN s ELSE port[x]
    BY <1>1 DEF IInv, Types, TypeOK
  <1> QED  BY <1>1, <1>2, <1>3, <1>4, BeginKeeps, Table, NativeDhcpAssumption

\* update_port gives a port an address of another subnet.
LEMMA StartMoveSafe ==
  ASSUME IInv, NEW t \in Threads, NEW p \in Ports, NEW s \in Subnets, StartMove(t, p, s)
  PROVE  IInv'
  <1>1. Begin(t, "move", s, p, "newLport2") /\ UNCHANGED <<net, dhcpVars, rows, lport, raced, lock>>
        /\ port' = [port EXCEPT ![p] = s] /\ port[p] # NoSubnet
    BY DEF StartMove, netVars, bindVars
  <1>2. TypeOK'
    BY <1>1 DEF StartMove, IInv, Types, TypeOK, netVars, dhcpVars, bindVars
  <1>3. "move" \in Ops /\ "move" \in PortOps /\ port[p] \in Subnets
    BY <1>1 DEF Ops, PortOps, IInv, Types, TypeOK
  <1>4. \A x \in Ports : port'[x] = IF x = p THEN s ELSE port[x]
    BY <1>1 DEF IInv, Types, TypeOK
  <1> QED  BY <1>1, <1>2, <1>3, <1>4, BeginKeeps, Table, NativeDhcpAssumption

\* delete_port begins.
LEMMA StartDeletePortSafe ==
  ASSUME IInv, NEW t \in Threads, NEW p \in Ports, StartDeletePort(t, p)
  PROVE  IInv'
  <1>1. Begin(t, "delport", NoSubnet, p, "delLport") /\ UNCHANGED <<net, dhcpVars, rows, port, lport, raced, lock>>
        /\ port[p] # NoSubnet
    BY DEF StartDeletePort, netVars, portVars, bindVars
  <1>2. TypeOK'
    BY <1>1 DEF StartDeletePort, IInv, Types, TypeOK, netVars, dhcpVars, bindVars
  <1>3. "delport" \in Ops /\ "delport" \in PortOps /\ "delport" \notin SubnetOps \cup {"newport", "move"}
    BY DEF Ops, PortOps, SubnetOps
  <1> QED  BY <1>1, <1>2, <1>3, BeginKeeps, Table, NativeDhcpAssumption

\* create_port makes the logical port, or deletes the row of the port.
LEMMA NewLportSafe == ASSUME IInv, NEW t \in Threads, NewLport(t) PROVE IInv'
  <1>1. th[t].pc = "newLport" /\ AtWork(t) /\ UNCHANGED <<net, dhcpVars>>
    BY Busy DEF NewLport, At, netVars
  <1>2. th[t].op = "newport" /\ th[t].k = NoServer /\ th[t].p \in Ports /\ th[t].op \in PortOps
    BY <1>1, Table DEF AtWork, Sound, Serving, PortOps
  <1>3. port[th[t].p] # NoSubnet /\ th[t].p \notin lport /\ \A b \in rows : port[b[2]] # NoSubnet
    BY <1>1 DEF AtWork, PortHeld, IInv, RowsCurrent
  <1>4. TypeOK'
    BY <1>1, <1>2 DEF NewLport, Deleted, Done, IInv, Types, TypeOK, netVars, dhcpVars
  <1>5. CASE lport' = lport \cup {th[t].p} /\ th' = [th EXCEPT ![t].pc = "bind", ![t].todo = {th[t].p}]
             /\ UNCHANGED <<port, rows, raced, lock>>
    <2> DEFINE r == [th[t] EXCEPT !.pc = "bind", !.todo = {th[t].p}]
    <2>1. r \in Request /\ r.pc = "bind" /\ r.op = th[t].op /\ r.s = th[t].s /\ r.p = th[t].p
          /\ r.old = th[t].old /\ r.k = NoServer /\ r.todo = {r.p}
      BY <1>1, <1>2 DEF AtWork, Request, Labels
    <2>2. th' = [th EXCEPT ![t] = r]
      BY <1>5 DEF IInv, Types
    <2>3. "bind" \notin Making \cup Enabling \cup Disabling /\ "bind" \in Binding
          /\ "newport" \notin SubnetOps
      BY DEF Binding, Enabling, Making, Disabling, SubnetOps
    <2> HIDE DEF r
    <2>4. Moves(t) /\ th'[t] = r
      <3>1. th[t].pc # "idle" /\ lock' = lock /\ r.op \in OpsAt(r.pc) /\ r.pc \notin Making
            /\ r.todo \subseteq (IF r.op = "newport" THEN {r.p} ELSE Ports) /\ r.pc # "bindRow"
        BY <1>1, <1>2, <1>5, <2>1, <2>3, Table
      <3>2. ~UnderLock(r)
        BY <1>2, <2>1, <2>3 DEF UnderLock
      <3> QED  BY <2>1, <2>2, <3>1, <3>2, TodoMoves
    <2>5. Current(t)' /\ PortHeld(t)'
      BY <2>1, <2>3, <2>4 DEF Current, PortHeld
    <2> QED  BY <1>1, <1>2, <1>3, <1>4, <1>5, <2>4, <2>5, PortKeeps
  <1>6. CASE Deleted(th[t].p) /\ Done(t) /\ UNCHANGED lport
    <2>1. Moves(t) /\ Current(t)' /\ PortHeld(t)'
      BY <1>1, <1>6, DoneEnds, EndMoves
    <2>2. \A p \in Ports : p # th[t].p => port'[p] = port[p] /\ (p \in raced => p \in raced')
      BY <1>6 DEF Deleted, IInv, Types, TypeOK
    <2>3. rows' \subseteq rows /\ \A b \in rows' : b[2] # th[t].p
      BY <1>6 DEF Deleted
    <2> QED  BY <1>1, <1>2, <1>3, <1>4, <1>6, <2>1, <2>2, <2>3, PortKeeps
  <1> QED  BY <1>5, <1>6 DEF NewLport

\* delete_port deletes the logical port, or ends there.
LEMMA DeleteLportSafe == ASSUME IInv, NEW t \in Threads, DeleteLport(t) PROVE IInv'
  <1>1. th[t].pc = "delLport" /\ AtWork(t) /\ UNCHANGED <<net, dhcpVars, port, raced, static, rows>>
    BY Busy DEF DeleteLport, At, netVars, bindVars
  <1>2. th[t].op \in {"newport", "delport"} /\ th[t].k = NoServer /\ th[t].p \in Ports
        /\ th[t].op \in PortOps
    BY <1>1, Table DEF AtWork, Sound, Serving, PortOps
  <1>3. TypeOK'
    BY <1>1 DEF DeleteLport, Done, IInv, Types, TypeOK, netVars, dhcpVars
  <1> DEFINE own == {b \in rows : b[2] = th[t].p}
  <1>4. CASE lport' = lport \ {th[t].p} /\ UNCHANGED lock
        /\ th' = [th EXCEPT ![t].pc = "unbind", ![t].todo = own]
    <2> DEFINE r == [th[t] EXCEPT !.pc = "unbind", !.todo = own]
    <2>1. own \subseteq Bindings
      BY DEF IInv, Types, TypeOK
    <2>2. r \in Request /\ r.pc = "unbind" /\ r.op = th[t].op /\ r.s = th[t].s /\ r.p = th[t].p
          /\ r.old = th[t].old /\ r.k = NoServer
      BY <1>1, <1>2, <2>1 DEF AtWork, Request, Labels
    <2>3. th' = [th EXCEPT ![t] = r]
      BY <1>4 DEF IInv, Types
    <2>4. "unbind" \notin Making \cup Enabling \cup Disabling \cup Binding
      BY DEF Binding, Enabling, Making, Disabling
    <2> HIDE DEF r, own
    <2>5. Moves(t) /\ th'[t] = r
      <3>1. th[t].pc # "idle" /\ lock' = lock /\ r.op \in OpsAt(r.pc) /\ r.pc \notin Making \cup Binding
            /\ r.pc # "bindRow" /\ ~UnderLock(r)
        BY <1>1, <1>2, <1>4, <2>2, <2>4, Table DEF UnderLock
      <3> QED  BY <2>2, <2>3, <3>1, TodoMoves
    <2>6. Current(t)' /\ PortHeld(t)'
      BY <1>4, <2>2, <2>4, <2>5 DEF Current, PortHeld
    <2>7. \A b \in rows : port[b[2]] # NoSubnet
      BY DEF IInv, RowsCurrent
    <2> QED  BY <1>1, <1>2, <1>3, <1>4, <2>5, <2>6, <2>7, PortKeeps
  <1>5. CASE Done(t) /\ UNCHANGED lport
    <2>1. Stays(t)
      BY <1>1, <1>5 DEF Stays, portVars
    <2> QED  BY <1>1, <1>2, <1>3, <1>5, <2>1, DoneEnds, EndQuiet
  <1> QED  BY <1>4, <1>5 DEF DeleteLport

\* _delete_port_mp_dhcp_binding deletes a binding and its row.
LEMMA UnbindSafe == ASSUME IInv, NEW t \in Threads, Unbind(t) PROVE IInv'
  <1>1. PICK b \in th[t].todo \cap static : static' = static \ {b} /\ rows' = rows \ {b}
                                            /\ th' = [th EXCEPT ![t].todo = @ \ {b}]
    BY DEF Unbind
  <1>2. th[t].pc = "unbind" /\ AtWork(t) /\ UNCHANGED <<net, dhcpVars, portVars, lock>>
    BY Busy DEF Unbind, At, netVars
  <1>3. th[t].op \in {"newport", "delport"} /\ th[t].k = NoServer /\ th[t].p \in Ports
        /\ th[t].op \in PortOps
    BY <1>2, Table DEF AtWork, Sound, Serving, PortOps
  <1>4. TypeOK'
    BY <1>1, <1>2 DEF Unbind, IInv, Types, TypeOK, netVars, portVars, dhcpVars
  <1> DEFINE r == [th[t] EXCEPT !.todo = @ \ {b}]
  <1>5. r \in Request /\ r.pc = "unbind" /\ r.op = th[t].op /\ r.s = th[t].s /\ r.p = th[t].p
        /\ r.old = th[t].old /\ r.k = NoServer
    BY <1>2, <1>3 DEF AtWork, Request
  <1>6. th' = [th EXCEPT ![t] = r]
    BY <1>1 DEF IInv, Types
  <1>7. "unbind" \notin Making \cup Enabling \cup Disabling \cup Binding
    BY DEF Binding, Enabling, Making, Disabling
  <1> HIDE DEF r
  <1>8. Moves(t) /\ th'[t] = r
    <2>1. th[t].pc # "idle" /\ lock' = lock /\ r.op \in OpsAt(r.pc) /\ r.pc \notin Making \cup Binding
          /\ r.pc # "bindRow" /\ ~UnderLock(r)
      BY <1>2, <1>3, <1>5, <1>7, Table DEF UnderLock
    <2> QED  BY <1>5, <1>6, <2>1, TodoMoves
  <1>9. Current(t)' /\ PortHeld(t)'
    BY <1>2, <1>5, <1>7, <1>8 DEF AtWork, Current, PortHeld, portVars
  <1>10. rows' \subseteq rows /\ port' = port /\ lport' = lport /\ raced' = raced
    BY <1>1, <1>2 DEF portVars
  <1>11. (th[t].p \in lport => port[th[t].p] # NoSubnet) /\ \A x \in rows : port[x[2]] # NoSubnet
    BY DEF IInv, RowsCurrent, NoLeakedPort
  <1> QED  BY <1>2, <1>3, <1>4, <1>8, <1>9, <1>10, <1>11, PortKeeps

\* _delete_port_mp_dhcp_binding meets a binding that the server does not have.
LEMMA UnbindFailsSafe == ASSUME IInv, NEW t \in Threads, UnbindFails(t) PROVE IInv'
  <1>1. th[t].pc = "unbind" /\ AtWork(t) /\ Done(t)
    BY Busy DEF UnbindFails, At
  <1>2. TypeOK' /\ Stays(t)
    BY <1>1 DEF Stays, UnbindFails, Done, IInv, Types, TypeOK, netVars, portVars, dhcpVars, bindVars
  <1>3. th[t].k = NoServer
    BY <1>1 DEF AtWork, Sound, Serving
  <1> QED  BY <1>1, <1>2, <1>3, DoneEnds, EndQuiet

\* delete_port deletes the port, which the backend has no more.
LEMMA DeletePortSafe == ASSUME IInv, NEW t \in Threads, DeletePort(t) PROVE IInv'
  <1>1. th[t].pc = "unbind" /\ AtWork(t) /\ Done(t) /\ UNCHANGED <<net, dhcpVars, lport, static>>
        /\ Deleted(th[t].p)
    BY Busy DEF DeletePort, At, netVars
  <1>2. th[t].op \in PortOps /\ th[t].k = NoServer /\ th[t].p \in Ports /\ th[t].p \notin lport
    BY <1>1, Table DEF AtWork, Sound, Serving, PortOps, PortHeld
  <1>3. TypeOK'
    BY <1>1 DEF DeletePort, Deleted, Done, IInv, Types, TypeOK, netVars, dhcpVars
  <1>4. Moves(t) /\ Current(t)' /\ PortHeld(t)'
    BY <1>1, DoneEnds, EndMoves
  <1>5. \A p \in Ports : p # th[t].p => port'[p] = port[p] /\ (p \in raced => p \in raced')
    BY <1>1 DEF Deleted, IInv, Types, TypeOK
  <1>6. rows' \subseteq rows /\ \A b \in rows' : b[2] # th[t].p
    BY <1>1 DEF Deleted
  <1> QED  BY <1>1, <1>2, <1>3, <1>4, <1>5, <1>6, PortKeeps

\* update_port updates the logical port, or gives the address back unless its subnet is gone.
LEMMA UpdateLportSafe == ASSUME IInv, NEW t \in Threads, UpdateLport(t) PROVE IInv'
  <1>1. th[t].pc = "newLport2" /\ AtWork(t) /\ UNCHANGED <<net, dhcpVars, lport, raced, static, rows>>
    BY Busy DEF UpdateLport, At, netVars, bindVars
  <1>2. th[t].op = "move" /\ th[t].op \in PortOps /\ th[t].k = NoServer /\ th[t].p \in Ports
        /\ th[t].old \in Subnets
    BY <1>1, Table DEF AtWork, Sound, Serving, PortOps
  <1>3. TypeOK'
    BY <1>1, <1>2 DEF UpdateLport, Done, Goto, IInv, Types, TypeOK, netVars, dhcpVars, bindVars
  <1>4. CASE Goto(t, "moveOut") /\ UNCHANGED <<port, lock>>
    <2>1. Stays(t)
      BY <1>1, <1>4 DEF Stays, portVars
    <2> QED  BY <1>1, <1>2, <1>3, <1>4, <2>1, Table, GotoQuiet
  <1>5. CASE Done(t) /\ (port' = port \/ port' = [port EXCEPT ![th[t].p] = th[t].old])
    <2>1. Moves(t) /\ Current(t)' /\ PortHeld(t)'
      BY <1>1, <1>5, DoneEnds, EndMoves
    <2>2. \A p \in Ports : port'[p] = port[p] \/ (p = th[t].p /\ port'[p] = th[t].old)
      BY <1>5 DEF IInv, Types, TypeOK
    <2>3. (th[t].p \in lport => port[th[t].p] # NoSubnet) /\ \A b \in rows : port[b[2]] # NoSubnet
      BY DEF IInv, NoLeakedPort, RowsCurrent
    <2> QED  BY <1>1, <1>2, <1>3, <2>1, <2>2, <2>3, PortKeeps, NativeDhcpAssumption
  <1> QED  BY <1>4, <1>5 DEF UpdateLport

\* _update_port_mp_dhcp_binding deletes the bindings of the old subnet.
LEMMA MoveOutSafe == ASSUME IInv, NEW t \in Threads, MoveOut(t) PROVE IInv'
  <1>1. th[t].pc = "moveOut" /\ AtWork(t) /\ Stays(t)
    BY Busy DEF Stays, MoveOut, At, netVars, portVars, dhcpVars, bindVars
  <1>2. th[t].op = "move" /\ th[t].k = NoServer
    BY <1>1, Table DEF AtWork, Sound, Serving
  <1>3. static' \subseteq static /\ (lock' = lock \/ lock' = NoThread)
    BY DEF MoveOut, Done
  <1>4. TypeOK'
    BY <1>1, <1>3 DEF MoveOut, IInv, Types, TypeOK, netVars, portVars, dhcpVars
  <1>5. CASE Goto(t, "moveIn") /\ UNCHANGED lock
    BY <1>1, <1>2, <1>4, <1>5, Table, GotoQuiet
  <1>6. CASE Done(t)
    BY <1>1, <1>2, <1>4, <1>6, DoneEnds, EndQuiet
  <1> QED  BY <1>5, <1>6 DEF MoveOut

\* _update_port_mp_dhcp_binding adds the binding of the new subnet.
LEMMA MoveInSafe == ASSUME IInv, NEW t \in Threads, MoveIn(t) PROVE IInv'
  <1>1. th[t].pc = "moveIn" /\ AtWork(t) /\ Done(t) /\ Stays(t)
    BY Busy DEF Stays, MoveIn, At, netVars, portVars, dhcpVars, bindVars
  <1>2. th[t].op = "move" /\ th[t].k = NoServer /\ th[t].p \in Ports /\ th[t].s \in Subnets
    BY <1>1, Table DEF AtWork, Sound, Serving, PortOps
  <1>3. TypeOK'
    BY <1>1, <1>2 DEF MoveIn, Done, IInv, Types, TypeOK, Bindings, netVars, portVars, dhcpVars
  <1> QED  BY <1>1, <1>2, <1>3, DoneEnds, EndQuiet

\* _update_port_mp_dhcp_binding fails.
LEMMA MoveFailsSafe == ASSUME IInv, NEW t \in Threads, MoveFails(t) PROVE IInv'
  <1>1. th[t].pc \in {"moveOut", "moveIn"} /\ AtWork(t) /\ Done(t) /\ Stays(t)
    BY Busy DEF Stays, MoveFails, bindVars, netVars, portVars, dhcpVars
  <1>2. th[t].k = NoServer
    BY <1>1 DEF AtWork, Sound, Serving
  <1>3. TypeOK'
    BY <1>1 DEF MoveFails, Done, IInv, Types, TypeOK, netVars, portVars, dhcpVars, bindVars
  <1> QED  BY <1>1, <1>2, <1>3, DoneEnds, EndQuiet

-----------------------------------------------------------------------------
(* The theorems                                                            *)

\* There is nothing at first.
LEMMA InitSafe == ASSUME Init PROVE IInv
  <1>1. \A t \in Threads : th[t] = Idle
    BY DEF Init
  <1>2. Types
    <2>1. ASSUME NEW t \in Threads PROVE Sound(t)
      BY <1>1, IdleType DEF Sound, OpsAt, SubnetOps, PortOps, Disabling, Enabling, Binding, Making
    <2> QED  BY <2>1, IdleType DEF Init, Types, TypeOK
  <1>3. \A t \in Threads : Current(t) /\ PortHeld(t) /\ ~UnderLock(th[t])
    BY <1>1, IdleType DEF Current, PortHeld, UnderLock, Binding, Enabling, Disabling
  <1>4. Exclusive /\ Locked
    BY <1>1, <1>3, IdleType DEF Exclusive, Locked, PortOps
  <1>5. NoLeakedServer /\ RowsCurrent /\ NoLeakedPort /\ Paired
    BY DEF Init, NoLeakedServer, RowsCurrent, NoLeakedPort, Paired
  <1> QED  BY <1>2, <1>3, <1>4, <1>5 DEF IInv

\* Every step keeps the invariant.
LEMMA NextSafe == ASSUME IInv, [Next]_vars PROVE IInv'
  <1>1. CASE UNCHANGED vars
    <2>1. UNCHANGED <<net, switch, subnet, port, lport, service, dport, dlport, server, orphan, static, rows, raced,
                      lock, th>>
      BY <1>1 DEF vars, netVars, portVars, dhcpVars, bindVars
    <2> QED  BY <2>1 DEF IInv, Types, TypeOK, Sound, Exclusive, Locked, Current, PortHeld, NoLeakedServer, Holders,
                         RowsCurrent, At, NoLeakedPort, Paired
  <1>2. ASSUME NEW t \in Threads, Network(t) PROVE IInv'
    BY <1>2, StartNewNetSafe, NetDbSafe, NetMetadataSafe, StartDeleteNetSafe, NetLockSafe, NetGoneSafe,
       SwitchGoneSafe
       DEF Network
  <1>3. ASSUME NEW t \in Threads, Subnet(t) PROVE IInv'
    BY <1>3, CreatePlainSafe, StartSubnetSafe, TurnOnSafe, BadAddressSafe, TurnOffSafe, SubnetGoneSafe
       DEF Subnet
  <1>4. ASSUME NEW t \in Threads, Disable(t) PROVE IInv'
    BY <1>4, OffSafe, OffPortSafe, OffServerSafe, OffServiceSafe, OffRowsSafe, OffFailsSafe DEF Disable
  <1>5. ASSUME NEW t \in Threads, Enable(t) PROVE IInv'
    BY <1>5, ReadPortsSafe, AddDhcpPortSafe, NoDhcpPortSafe, AddServerSafe, AddLogicalPortSafe, EnableFailsSafe,
       UnavailableSafe,
       AddServiceSafe, ServiceFailsSafe, AddBindingSafe, AddRowSafe, BindingFailsSafe DEF Enable
  <1>6. ASSUME NEW t \in Threads, Port(t) PROVE IInv'
    BY <1>6, StartDeletePortSafe, StartPortSafe, StartMoveSafe, NewLportSafe, DeleteLportSafe, UnbindSafe,
       UnbindFailsSafe, DeletePortSafe, UpdateLportSafe, MoveOutSafe, MoveInSafe, MoveFailsSafe DEF Port
  <1> QED  BY <1>1, <1>2, <1>3, <1>4, <1>5, <1>6 DEF Next

\* The inductive invariant: what the requests, interleaved as they may be, know of the
\* server, the ports and each other.
THEOREM Invariant == Spec => []IInv
  <1>1. Init => IInv
    BY InitSafe
  <1>2. IInv /\ [Next]_vars => IInv'
    BY NextSafe
  <1> QED  BY <1>1, <1>2, PTL DEF Spec

\* The variables keep their types (nsx_v3 and common_v3 keep an id of each kind in each column).
THEOREM TypeCorrect == Spec => []TypeOK
  <1>1. IInv => TypeOK
    BY DEF IInv, Types
  <1> QED  BY <1>1, Invariant, PTL

\* _enable_native_dhcp and _disable_native_dhcp leave no server, port or logical port
\* behind, however the requests on the network, its subnets and its ports interleave, but for
\* those in orphan: an unavailable service cluster ended the request that made them, or
\* the network was deleted while its row named them.
THEOREM NoServerLeaks == Spec => []NoLeakedServer
  <1>1. IInv => NoLeakedServer
    BY DEF IInv
  <1> QED  BY <1>1, Invariant, PTL

\* The rows of static bindings name ports of the database, and the DHCP server of the
\* network or one whose rows are about to go, but for those in orphan, whose rows could not
\* be deleted, and the ports in raced, bound while _disable_native_dhcp took the server away.
THEOREM RowsNameTheServer == Spec => []RowsCurrent
  <1>1. IInv => RowsCurrent
    BY DEF IInv
  <1> QED  BY <1>1, Invariant, PTL

\* At any time a port of the backend is a port of the database (create_port, delete_port).
THEOREM NoPortLeaks == Spec => []NoLeakedPort
  <1>1. IInv => NoLeakedPort
    BY DEF IInv
  <1> QED  BY <1>1, Invariant, PTL
=============================================================================
