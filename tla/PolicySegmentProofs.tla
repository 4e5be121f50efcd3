------------------------ MODULE PolicySegmentProofs ------------------------
(***************************************************************************)
(* Proofs about PolicySegment, for every number of threads, subnets and    *)
(* routers: the variables keep their types, whatever the order of          *)
(* concurrent requests the interfaces of a network are on one router, and  *)
(* requests that do not overlap leave the segment as the tables have it.   *)
(***************************************************************************)
EXTENDS PolicySegment, TLAPS

Want == [subs : SUBSET Subnets, served : SUBSET Subnets]
Labels == {"idle", "segment", "netLock", "netGone", "segmentGone", "on", "port", "collect", "send",
           "again", "sendAgain", "off", "collectOff", "sendOff", "portOff", "gone", "validate",
           "attach", "collectIf", "sendIf", "detach", "collectRem", "sendRem", "sendRest"}
Ops == {"none", "newnet", "delnet", "plain", "create", "enable", "disable", "delete", "add", "remove"}
Request == [pc : Labels, op : Ops, s : Subnets \cup {NoSubnet}, r : Routers \cup {NoRouter},
            seen : SUBSET Subnets, want : Want, keep : BOOLEAN]

\* The types of the variables, and the subnet that a request on one has.
Types ==
  /\ TypeOK /\ th \in [Threads -> Request]
  /\ \A t \in Threads : th[t].pc \in {"on", "port"} => th[t].s \in Subnets

\* What add_router_interface has checked is still true when it attaches the subnet: it
\* holds its lock, and no one else attaches a subnet without it.
Checked ==
  \A t \in Threads : th[t].pc = "attach" =>
    /\ rlock = t
    /\ \A x \in Routed : ifc[x] = th[t].r /\ Ver[x] # Ver[th[t].s]

IInv == Types /\ Checked /\ OneRouter

-----------------------------------------------------------------------------
(* Types                                                                   *)

\* The subnets that _get_segment_subnets collects are subnets.
LEMMA CollectTypes ==
  ASSUME TypeOK, NEW deleted, NEW routed \in SUBSET Subnets, NEW w \in Collect(deleted, routed)
  PROVE  w \in Want
  <1> DEFINE d == DhcpSubnets \ deleted
             own == IF routed = {} THEN Routed ELSE routed
  <1>1. PICK x \in IF Cardinality(d) <= 2 THEN {d} ELSE kSubset(2, d) :
          w = [subs |-> x \cup own, served |-> x \cap dport]
    BY DEF Collect
  <1>2. x \subseteq d
    BY <1>1 DEF kSubset
  <1>3. x \subseteq Subnets /\ own \subseteq Subnets
    BY <1>2 DEF DhcpSubnets, Routed
  <1> QED  BY <1>1, <1>3 DEF Want

-----------------------------------------------------------------------------
(* Steps of a request                                                      *)

\* A step of t that goes nowhere near "attach"; the subnet it adds to the DHCP port is one.
Moves(t) ==
  /\ th' \in [Threads -> Request] /\ \A u \in Threads \ {t} : th'[u] = th[u]
  /\ th'[t].pc # "attach" /\ (th'[t].pc \in {"on", "port"} => th'[t].s \in Subnets)

\* What a step of a request that attaches and detaches nothing leaves as it is.
LEMMA Frame ==
  ASSUME IInv, NEW t \in Threads, Moves(t), TypeOK', ifc' = ifc, rlock' = rlock
  PROVE  IInv'
  BY DEF IInv, Types, Checked, OneRouter, Routed, Moves

\* A request that has ended is one.
LEMMA IdleType == Idle \in Request
  BY DEF Idle, Request, Nothing, Want, Labels, Ops

\* A step that replaces the request of t.
LEMMA BecomesMoves ==
  ASSUME IInv, NEW t \in Threads, NEW q \in Request, th' = [th EXCEPT ![t] = q],
         q.pc # "attach", q.pc \in {"on", "port"} => q.s \in Subnets
  PROVE  Moves(t) /\ th'[t] = q
  <1>1. th \in [Threads -> Request]
    BY DEF IInv, Types
  <1>2. th' \in [Threads -> Request] /\ th'[t] = q /\ \A u \in Threads \ {t} : th'[u] = th[u]
    BY <1>1
  <1> QED  BY <1>2 DEF Moves

\* The end of a request.
LEMMA EndMoves == ASSUME IInv, NEW t \in Threads, End(t) PROVE Moves(t)
  <1>1. Idle.pc = "idle"
    BY DEF Idle
  <1>2. th' = [th EXCEPT ![t] = Idle]
    BY DEF End
  <1> QED  BY <1>1, <1>2, IdleType, BecomesMoves

\* A request goes on.
LEMMA GotoMoves ==
  ASSUME IInv, NEW t \in Threads, NEW label \in Labels \ {"attach", "on", "port"}, Goto(t, label)
  PROVE  Moves(t)
  <1>1. PICK old \in Request : old = th[t] /\ th \in [Threads -> Request]
    BY DEF IInv, Types
  <1> DEFINE q == [old EXCEPT !.pc = label]
  <1>2. q \in Request /\ q.pc = label
    BY DEF Request
  <1>3. th' = [th EXCEPT ![t] = q]
    BY <1>1 DEF Goto
  <1> HIDE DEF q
  <1> QED  BY <1>2, <1>3, BecomesMoves

\* A request has computed what it is to send.
LEMMA WantMoves ==
  ASSUME IInv, NEW t \in Threads, NEW label \in Labels \ {"attach", "on", "port"}, NEW w \in Want,
         th' = [th EXCEPT ![t].pc = label, ![t].want = w]
  PROVE  Moves(t)
  <1>1. PICK old \in Request : old = th[t] /\ th \in [Threads -> Request]
    BY DEF IInv, Types
  <1> DEFINE q == [old EXCEPT !.pc = label, !.want = w]
  <1>2. q \in Request /\ q.pc = label
    BY DEF Request
  <1>3. th' = [th EXCEPT ![t] = q]
    BY <1>1
  <1> HIDE DEF q
  <1> QED  BY <1>2, <1>3, BecomesMoves

\* DHCP is on for the subnet, and its address comes next.
LEMMA SeenMoves ==
  ASSUME IInv, NEW t \in Threads, th[t].s \in Subnets,
         th' = [th EXCEPT ![t].pc = "port", ![t].seen = {}]
  PROVE  Moves(t)
  <1>1. PICK old \in Request : old = th[t] /\ th \in [Threads -> Request] /\ "port" \in Labels
    BY DEF IInv, Types, Labels
  <1> DEFINE q == [old EXCEPT !.pc = "port", !.seen = {}]
  <1>2. q \in Request /\ q.pc = "port" /\ q.s \in Subnets
    BY <1>1 DEF Request
  <1>3. th' = [th EXCEPT ![t] = q]
    BY <1>1
  <1> HIDE DEF q
  <1> QED  BY <1>2, <1>3, BecomesMoves

\* A request has sent what it computed.
LEMMA ClearMoves ==
  ASSUME IInv, NEW t \in Threads, NEW label \in Labels \ {"attach", "on", "port"},
         th' = [th EXCEPT ![t].pc = label, ![t].want = Nothing]
  PROVE  Moves(t)
  <1>1. Nothing \in Want
    BY DEF Nothing, Want
  <1> QED  BY <1>1, WantMoves

\* The begin of a request.
LEMMA BeginMoves ==
  ASSUME IInv, NEW t \in Threads, NEW label \in Labels \ {"attach", "port"}, NEW op \in Ops,
         NEW s \in Subnets \cup {NoSubnet}, NEW r \in Routers \cup {NoRouter}, Begin(t, op, s, r, label),
         label = "on" => s \in Subnets
  PROVE  Moves(t)
  <1>1. DhcpSubnets \subseteq Subnets
    BY DEF DhcpSubnets
  <1> DEFINE q == [Idle EXCEPT !.pc = label, !.op = op, !.s = s, !.r = r,
                               !.seen = IF op \in {"create", "enable"} THEN DhcpSubnets ELSE {}]
  <1>2. q \in Request /\ q.pc = label /\ q.s = s
    BY <1>1, IdleType DEF Request
  <1>3. th' = [th EXCEPT ![t] = q]
    BY DEF Begin
  <1> HIDE DEF q
  <1> QED  BY <1>2, <1>3, BecomesMoves

\* What a request has computed, and whether anything is left for it to do.
LEMMA SentMoves ==
  ASSUME IInv, NEW t \in Threads, NEW label \in {"sendOff", "sendRem"}, NEW w \in Want,
         NEW keep \in BOOLEAN, th' = [th EXCEPT ![t].pc = label, ![t].want = w, ![t].keep = keep]
  PROVE  Moves(t)
  <1> DEFINE q == [th[t] EXCEPT !.pc = label, !.want = w, !.keep = keep]
  <1>1. th[t] \in Request /\ th \in [Threads -> Request] /\ label \in Labels
    BY DEF IInv, Types, Labels
  <1>2. q \in Request /\ q.pc = label
    BY <1>1 DEF Request
  <1>3. th' = [th EXCEPT ![t] = q]
    BY <1>1
  <1> HIDE DEF q
  <1> QED  BY <1>2, <1>3, BecomesMoves

\* A request computes the subnets of the segment.
LEMMA CollectForMoves ==
  ASSUME IInv, NEW t \in Threads, NEW deleted, NEW routed \in SUBSET Subnets,
         NEW label \in Labels \ {"attach", "on", "port"}, CollectFor(t, deleted, routed, label)
  PROVE  Moves(t)
  <1>1. PICK w \in Collect(deleted, routed) : th' = [th EXCEPT ![t].pc = label, ![t].want = w]
    BY DEF CollectFor
  <1>2. w \in Want
    BY CollectTypes DEF IInv, Types
  <1> QED  BY <1>1, <1>2, WantMoves

\* A request on a subnet ends with its DHCP, or goes on to delete what it is about.
LEMMA AfterOffMoves == ASSUME IInv, NEW t \in Threads, AfterOff(t) PROVE Moves(t)
  <1>1. ASSUME NEW pc \in {"gone", "netGone"}, NEW op \in {"delete", "delnet"},
               NEW s \in Subnets \cup {NoSubnet},
               th' = [th EXCEPT ![t] = [Idle EXCEPT !.pc = pc, !.op = op, !.s = s]]
        PROVE  Moves(t)
    <2>1. [Idle EXCEPT !.pc = pc, !.op = op, !.s = s] \in Request /\ Idle.s = NoSubnet
      BY IdleType DEF Request, Labels, Ops, Idle
    <2>2. [Idle EXCEPT !.pc = pc, !.op = op, !.s = s].pc = pc
      BY IdleType DEF Request
    <2> QED  BY <1>1, <2>1, <2>2, BecomesMoves
  <1>2. CASE th[t].op = "disable"
    BY <1>2, EndMoves DEF AfterOff
  <1>3. CASE th[t].op = "delete"
    <2>1. th' = [th EXCEPT ![t] = [Idle EXCEPT !.pc = "gone", !.op = "delete", !.s = th[t].s]]
      BY <1>3 DEF AfterOff
    <2>2. th[t].s \in Subnets \cup {NoSubnet}
      BY DEF IInv, Types, Request
    <2> QED  BY <1>1, <2>1, <2>2
  <1>4. CASE th[t].op \notin {"disable", "delete"}
    <2>1. th' = [th EXCEPT ![t] = [Idle EXCEPT !.pc = "netGone", !.op = "delnet"]]
      BY <1>4 DEF AfterOff
    <2>2. [Idle EXCEPT !.pc = "netGone", !.op = "delnet"] \in Request
          /\ [Idle EXCEPT !.pc = "netGone", !.op = "delnet"].pc = "netGone"
      BY IdleType DEF Request, Labels, Ops
    <2> QED  BY <2>1, <2>2, BecomesMoves
  <1> QED  BY <1>2, <1>3, <1>4

-----------------------------------------------------------------------------
(* The requests                                                            *)

\* create_network, delete_network.
LEMMA NetworksKeeps == ASSUME PolicySegmentAssumption, IInv, NEW t \in Threads, Networks(t) PROVE IInv'
  <1>1. CASE StartNewNet(t)
    <2>1. Moves(t)
      BY <1>1, BeginMoves DEF StartNewNet, Labels, Ops
    <2>2. TypeOK'
      BY <1>1 DEF IInv, Types, TypeOK, Request, Want, StartNewNet, Begin, segVars
    <2> QED  BY <1>1, <2>1, <2>2, Frame DEF StartNewNet, Begin, segVars
  <1>2. CASE NewSegment(t)
    <2>1. Moves(t)
      BY <1>2, EndMoves DEF NewSegment
    <2>2. TypeOK'
      BY <1>2 DEF IInv, Types, TypeOK, Request, Want, NewSegment, At, segVars
    <2> QED  BY <1>2, <2>1, <2>2, Frame DEF NewSegment, segVars
  <1>3. CASE StartDeleteNet(t)
    <2>1. Moves(t)
      BY <1>3, BeginMoves DEF StartDeleteNet, Labels, Ops
    <2>2. TypeOK'
      BY <1>3 DEF IInv, Types, TypeOK, Request, Want, StartDeleteNet, Begin, segVars, dbVars
    <2> QED  BY <1>3, <2>1, <2>2, Frame DEF StartDeleteNet, Begin, dbVars
  <1>4. CASE NetLock(t)
    <2>1. Moves(t)
      BY <1>4, GotoMoves DEF NetLock, Labels
    <2>2. TypeOK'
      BY <1>4 DEF IInv, Types, TypeOK, Request, Want, NetLock, At, dbVars, segVars
    <2> QED  BY <1>4, <2>1, <2>2, Frame DEF NetLock, dbVars
  <1>5. CASE NetGone(t)
    <2>1. Moves(t)
      BY <1>5, EndMoves, GotoMoves DEF NetGone, Labels
    <2>2. TypeOK'
      BY <1>5 DEF IInv, Types, TypeOK, Request, Want, NetGone, At, segVars
    <2> QED  BY <1>5, <2>1, <2>2, Frame DEF NetGone, segVars
  <1>6. CASE SegmentGone(t)
    <2>1. Moves(t)
      BY <1>6, EndMoves DEF SegmentGone
    <2>2. TypeOK'
      BY <1>6 DEF IInv, Types, TypeOK, Request, Want, SegmentGone, At
    <2> QED  BY <1>6, <2>1, <2>2, Frame DEF SegmentGone
  <1> QED  BY <1>1, <1>2, <1>3, <1>4, <1>5, <1>6 DEF Networks

\* create_subnet, update_subnet and what follows them.
LEMMA EnableKeeps == ASSUME PolicySegmentAssumption, IInv, NEW t \in Threads, Enable(t) PROVE IInv'
  <1>1. ASSUME NEW s \in Subnets, StartUpdate(t, s) PROVE IInv'
    <2>1. Moves(t)
      BY <1>1, BeginMoves DEF StartUpdate, Labels, Ops
    <2>2. TypeOK'
      BY <1>1 DEF IInv, Types, TypeOK, Request, Want, StartUpdate, Begin, segVars, dbVars
    <2> QED  BY <1>1, <2>1, <2>2, Frame DEF StartUpdate, Begin, dbVars
  <1>2. ASSUME NEW s \in Subnets, NEW op \in {"plain", "create"}, StartCreate(t, s, op) PROVE IInv'
    <2>1. Moves(t)
      BY <1>2, BeginMoves DEF StartCreate, Labels, Ops
    <2>2. TypeOK'
      BY <1>2 DEF IInv, Types, TypeOK, Request, Want, StartCreate, Begin, segVars, dbVars
    <2> QED  BY <1>2, <2>1, <2>2, Frame DEF StartCreate, Begin, dbVars
  <1>3. CASE TurnOn(t)
    <2>1. Moves(t)
      <3>1. CASE net = "up" /\ (th[t].op = "plain" \/ ~SecondOfVersion(t)) /\ th[t].op # "plain"
        <4>1. th' = [th EXCEPT ![t].pc = "port", ![t].seen = {}] /\ th[t].s \in Subnets
          BY <1>3, <3>1 DEF TurnOn, IInv, Types, At
        <4> QED  BY <4>1, SeenMoves
      <3>2. CASE End(t)
        BY <3>2, EndMoves
      <3> QED  BY <1>3, <3>1, <3>2 DEF TurnOn
    <2>2. TypeOK'
      BY <1>3 DEF IInv, Types, TypeOK, Request, Want, TurnOn, At, segVars
    <2> QED  BY <1>3, <2>1, <2>2, Frame DEF TurnOn, segVars
  <1>4. CASE AddDhcpPort(t)
    <2>1. Moves(t)
      BY <1>4, GotoMoves DEF AddDhcpPort, Labels
    <2>2. TypeOK'
      BY <1>4 DEF IInv, Types, TypeOK, Request, Want, AddDhcpPort, At, segVars
    <2> QED  BY <1>4, <2>1, <2>2, Frame DEF AddDhcpPort, segVars
  <1>5. CASE CollectOn(t)
    <2>1. Moves(t)
      BY <1>5, CollectForMoves DEF CollectOn, Labels, RoutedBy
    <2>2. TypeOK'
      BY <1>5 DEF IInv, Types, TypeOK, CollectOn, CollectFor, dbVars, segVars
    <2> QED  BY <1>5, <2>1, <2>2, Frame DEF CollectOn, CollectFor, dbVars
  <1>6. CASE SendOn(t)
    <2>1. Moves(t)
      BY <1>6, EndMoves, ClearMoves DEF SendOn, Labels
    <2>2. TypeOK'
      BY <1>6 DEF IInv, Types, TypeOK, Request, Want, SendOn, At, CanSend, Send, Free, dbVars
    <2> QED  BY <1>6, <2>1, <2>2, Frame DEF SendOn, dbVars
  <1>7. CASE SendOnFails(t)
    <2>1. Moves(t)
      BY <1>7, EndMoves DEF SendOnFails
    <2>2. TypeOK'
      BY <1>7 DEF IInv, Types, TypeOK, Request, Want, SendOnFails, At, CanSend, Free, segVars
    <2> QED  BY <1>7, <2>1, <2>2, Frame DEF SendOnFails, segVars
  <1>8. CASE CollectAgain(t)
    <2>1. Moves(t)
      BY <1>8, CollectForMoves DEF CollectAgain, Labels, RoutedBy
    <2>2. TypeOK'
      BY <1>8 DEF IInv, Types, TypeOK, CollectAgain, CollectFor, dbVars, segVars
    <2> QED  BY <1>8, <2>1, <2>2, Frame DEF CollectAgain, CollectFor, dbVars
  <1>9. CASE SendAgain(t)
    <2>1. Moves(t)
      BY <1>9, EndMoves DEF SendAgain
    <2>2. TypeOK'
      BY <1>9 DEF IInv, Types, TypeOK, Request, Want, SendAgain, At, CanSend, Send, dbVars
    <2> QED  BY <1>9, <2>1, <2>2, Frame DEF SendAgain, dbVars
  <1> QED  BY <1>1, <1>2, <1>3, <1>4, <1>5, <1>6, <1>7, <1>8, <1>9 DEF Enable

\* delete_subnet and the end of DHCP.
LEMMA DisableKeeps == ASSUME PolicySegmentAssumption, IInv, NEW t \in Threads, Disable(t) PROVE IInv'
  <1>1. ASSUME NEW s \in Subnets, StartDelete(t, s) PROVE IInv'
    <2>1. Moves(t)
      BY <1>1, BeginMoves DEF StartDelete, Labels, Ops
    <2>2. TypeOK'
      BY <1>1 DEF IInv, Types, TypeOK, Request, Want, StartDelete, Begin, segVars, dbVars
    <2> QED  BY <1>1, <2>1, <2>2, Frame DEF StartDelete, Begin, dbVars
  <1>2. CASE TurnOff(t)
    <2>1. Moves(t)
      BY <1>2, GotoMoves DEF TurnOff, Labels
    <2>2. TypeOK'
      BY <1>2 DEF IInv, Types, TypeOK, Request, Want, TurnOff, At, segVars
    <2> QED  BY <1>2, <2>1, <2>2, Frame DEF TurnOff, segVars
  <1>3. CASE CollectOff(t)
    <2> DEFINE last == ~(th[t].s # NoSubnet /\ Cardinality(DhcpSubnets) > 1)
    <2>1. PICK w \in Collect(IF last THEN DhcpSubnets ELSE {th[t].s}, {}), keep \in BOOLEAN :
            th' = [th EXCEPT ![t].pc = "sendOff", ![t].want = w, ![t].keep = keep]
      BY <1>3 DEF CollectOff
    <2>2. w \in Want 
      BY CollectTypes DEF IInv, Types, RoutedBy
    <2>3. Moves(t)
      BY <2>1, <2>2, SentMoves
    <2>4. TypeOK'
      BY <1>3 DEF IInv, Types, TypeOK, CollectOff, dbVars, segVars
    <2> QED  BY <1>3, <2>3, <2>4, Frame DEF CollectOff, dbVars
  <1>4. CASE SendOff(t)
    <2>1. Moves(t)
      BY <1>4, ClearMoves DEF SendOff, Labels
    <2>2. TypeOK'
      BY <1>4 DEF IInv, Types, TypeOK, Request, Want, SendOff, At, CanSend, Send, dbVars
    <2> QED  BY <1>4, <2>1, <2>2, Frame DEF SendOff, dbVars
  <1>5. CASE PortOff(t)
    <2>1. Moves(t)
      BY <1>5, AfterOffMoves DEF PortOff
    <2>2. TypeOK'
      BY <1>5 DEF IInv, Types, TypeOK, Request, Want, PortOff, At, Free, segVars
    <2> QED  BY <1>5, <2>1, <2>2, Frame DEF PortOff, segVars
  <1>6. CASE SendOffFails(t)
    <2>1. Moves(t)
      BY <1>6, AfterOffMoves, EndMoves DEF SendOffFails
    <2>2. TypeOK'
      BY <1>6 DEF IInv, Types, TypeOK, Request, Want, SendOffFails, At, CanSend, Free, segVars
    <2> QED  BY <1>6, <2>1, <2>2, Frame DEF SendOffFails, segVars
  <1>7. CASE SubnetGone(t)
    <2>1. Moves(t)
      BY <1>7, EndMoves DEF SubnetGone
    <2>2. TypeOK'
      BY <1>7 DEF IInv, Types, TypeOK, Request, Want, SubnetGone, At, segVars
    <2> QED  BY <1>7, <2>1, <2>2, Frame DEF SubnetGone, segVars
  <1> QED  BY <1>1, <1>2, <1>3, <1>4, <1>5, <1>6, <1>7 DEF Disable

\* add_router_interface, remove_router_interface.
LEMMA InterfacesKeeps == ASSUME PolicySegmentAssumption, IInv, NEW t \in Threads, Interfaces(t) PROVE IInv'
  <1>1. ASSUME NEW s \in Subnets, StartRemove(t, s) PROVE IInv'
    <2>1. Moves(t)
      BY <1>1, BeginMoves DEF StartRemove, Labels, Ops, IInv, Types, TypeOK
    <2>2. TypeOK'
      BY <1>1 DEF IInv, Types, TypeOK, Request, Want, StartRemove, Begin, segVars, dbVars
    <2> QED  BY <1>1, <2>1, <2>2, Frame DEF StartRemove, Begin, dbVars
  <1>2. ASSUME NEW r \in Routers, NEW s \in Subnets, StartAdd(t, r, s) PROVE IInv'
    <2>1. Moves(t)
      BY <1>2, BeginMoves DEF StartAdd, Labels, Ops
    <2>2. TypeOK'
      BY <1>2 DEF IInv, Types, TypeOK, Request, Want, StartAdd, Begin, segVars, dbVars
    <2> QED  BY <1>2, <2>1, <2>2, Frame DEF StartAdd, Begin, dbVars
  <1>3. CASE Validate(t)
    <2>1. CASE End(t) /\ UNCHANGED rlock
      <3>1. TypeOK'
        BY <1>3 DEF IInv, Types, TypeOK, Validate, dbVars, segVars
      <3> QED  BY <1>3, <2>1, <3>1, EndMoves, Frame DEF Validate, dbVars
    <2>2. CASE MayAttach(th[t].r, th[t].s) /\ rlock' = t /\ Goto(t, "attach")
      <3>1. th' \in [Threads -> Request] /\ \A u \in Threads \ {t} : th'[u] = th[u]
        BY <2>2 DEF Goto, IInv, Types, Request, Labels
      <3>2. th'[t].pc = "attach" /\ th'[t].r = th[t].r /\ th'[t].s = th[t].s
        BY <2>2 DEF Goto, IInv, Types, Request
      <3>3. TypeOK'
        BY <1>3, <2>2 DEF IInv, Types, TypeOK, Validate, dbVars, segVars
      <3>4. Types'
        BY <3>1, <3>2, <3>3 DEF IInv, Types
      <3>5. \A u \in Threads : th[u].pc # "attach"
        BY <1>3 DEF IInv, Checked, Validate, PolicySegmentAssumption
      <3>6. Checked' /\ OneRouter'
        BY <1>3, <2>2, <3>1, <3>2, <3>5 DEF IInv, Checked, OneRouter, Validate, dbVars, Routed, MayAttach
      <3> QED  BY <3>4, <3>6 DEF IInv
    <2> QED  BY <1>3, <2>1, <2>2 DEF Validate
  <1>4. CASE Attach(t)
    <2>1. Moves(t)
      BY <1>4, EndMoves, GotoMoves DEF Attach, Labels
    <2>2. TypeOK'
      BY <1>4 DEF IInv, Types, TypeOK, Request, Attach, segVars
    <2>3. \A u \in Threads : th'[u].pc # "attach"
      BY <1>4, <2>1 DEF IInv, Checked, Attach, At, Moves
    <2>4. \A x \in Routed : ifc[x] = th[t].r /\ Ver[x] # Ver[th[t].s]
      BY <1>4 DEF Attach, At, IInv, Checked
    <2>5. ASSUME ifc' = [ifc EXCEPT ![th[t].s] = th[t].r] PROVE OneRouter'
      <3>1. \A x \in Routed' : IF x = th[t].s THEN ifc'[x] = th[t].r ELSE x \in Routed /\ ifc'[x] = ifc[x]
        BY <2>5 DEF Routed, IInv, Types, TypeOK
      <3> QED  BY <2>4, <3>1 DEF OneRouter, IInv
    <2>6. ASSUME ifc' = ifc PROVE OneRouter'
      BY <2>6 DEF OneRouter, Routed, IInv
    <2>7. OneRouter'
      BY <1>4, <2>5, <2>6 DEF Attach
    <2> QED  BY <2>1, <2>2, <2>3, <2>7 DEF Moves, IInv, Types, Checked
  <1>5. CASE CollectIf(t)
    <2>1. Moves(t)
      BY <1>5, CollectForMoves DEF CollectIf, Labels, RoutedBy
    <2>2. TypeOK'
      BY <1>5 DEF IInv, Types, TypeOK, CollectIf, CollectFor, dbVars, segVars
    <2> QED  BY <1>5, <2>1, <2>2, Frame DEF CollectIf, CollectFor, dbVars
  <1>6. CASE SendIf(t)
    <2>1. Moves(t)
      BY <1>6, EndMoves DEF SendIf
    <2>2. TypeOK'
      BY <1>6 DEF IInv, Types, TypeOK, Request, Want, SendIf, At, CanSend, Send, dbVars
    <2> QED  BY <1>6, <2>1, <2>2, Frame DEF SendIf, dbVars
  <1>7. CASE SendIfFails(t)
    <2>1. Moves(t)
      BY <1>7, ClearMoves DEF SendIfFails, Labels
    <2>2. TypeOK'
      BY <1>7 DEF IInv, Types, TypeOK, Request, Want, SendIfFails, At, CanSend, dbVars, segVars
    <2> QED  BY <1>7, <2>1, <2>2, Frame DEF SendIfFails, dbVars
  <1>8. CASE Detach(t)
    <2>1. Moves(t)
      BY <1>8, GotoMoves DEF Detach, Labels
    <2>2. TypeOK'
      BY <1>8 DEF IInv, Types, TypeOK, Request, Detach, segVars
    <2>3. Routed' = Routed \ {th[t].s} /\ \A x \in Routed' : ifc'[x] = ifc[x]
      BY <1>8 DEF Detach, Routed, IInv, Types, TypeOK
    <2> QED  BY <1>8, <2>1, <2>2, <2>3 DEF Detach, Moves, IInv, Types, Checked, OneRouter
  <1>9. CASE CollectRem(t)
    <2>1. PICK w \in Collect({}, RoutedBy(th[t].r)), keep \in BOOLEAN :
            th' = [th EXCEPT ![t].pc = "sendRem", ![t].want = w, ![t].keep = keep]
      BY <1>9 DEF CollectRem
    <2>2. w \in Want 
      BY CollectTypes DEF IInv, Types, RoutedBy
    <2>3. Moves(t)
      BY <2>1, <2>2, SentMoves
    <2>4. TypeOK'
      BY <1>9 DEF IInv, Types, TypeOK, CollectRem, dbVars, segVars
    <2> QED  BY <1>9, <2>3, <2>4, Frame DEF CollectRem, dbVars
  <1>10. CASE Disconnect(t)
    <2>1. Moves(t)
      BY <1>10, EndMoves, GotoMoves DEF Disconnect, Labels
    <2>2. TypeOK'
      BY <1>10 DEF IInv, Types, TypeOK, Request, Want, Disconnect, At, dbVars
    <2> QED  BY <1>10, <2>1, <2>2, Frame DEF Disconnect, dbVars
  <1>11. CASE SendRem(t)
    <2>1. Moves(t)
      BY <1>11, EndMoves DEF SendRem
    <2>2. TypeOK'
      BY <1>11 DEF IInv, Types, TypeOK, Request, Want, SendRem, At, CanSend, Send, dbVars
    <2> QED  BY <1>11, <2>1, <2>2, Frame DEF SendRem, dbVars
  <1>12. CASE RemoveFails(t)
    <2>1. Moves(t)
      BY <1>12, EndMoves DEF RemoveFails
    <2>2. TypeOK'
      BY <1>12 DEF IInv, Types, TypeOK, Request, Want, RemoveFails, CanSend, dbVars, segVars
    <2> QED  BY <1>12, <2>1, <2>2, Frame DEF RemoveFails, dbVars
  <1> QED  BY <1>1, <1>2, <1>3, <1>4, <1>5, <1>6, <1>7, <1>8, <1>9, <1>10, <1>11, <1>12 DEF Interfaces
-----------------------------------------------------------------------------
\* The initial state.
LEMMA InitIInv == ASSUME PolicySegmentAssumption, Init PROVE IInv
  <1>1. Types
    BY IdleType DEF Init, Types, TypeOK, Idle
  <1>2. Checked /\ OneRouter
    BY DEF Init, Checked, OneRouter, Routed, Idle
  <1> QED  BY <1>1, <1>2 DEF IInv

\* Each step of the system.
LEMMA NextKeeps == ASSUME PolicySegmentAssumption, IInv, [Next]_vars PROVE IInv'
  <1>1. CASE Next
    BY <1>1, NetworksKeeps, EnableKeeps, DisableKeeps, InterfacesKeeps DEF Next
  <1>2. CASE UNCHANGED vars
    BY <1>2 DEF vars, dbVars, segVars, IInv, Types, TypeOK, Checked, OneRouter, Routed
  <1> QED  BY <1>1, <1>2

\* Whatever requests run at the same time, and whatever the backend refuses, the interfaces of
\* a network are on one router, with one subnet of each IP version at most
\* (_validate_multiple_subnets_routers, under the lock of add_router_interface).
THEOREM InterfacesOnOneRouter == Spec => []OneRouter
  <1>1. Init => IInv
    BY PolicySegmentAssumption, InitIInv
  <1>2. IInv /\ [Next]_vars => IInv'
    BY PolicySegmentAssumption, NextKeeps
  <1>3. IInv => OneRouter
    BY DEF IInv
  <1> QED  BY <1>1, <1>2, <1>3, PTL DEF Spec

\* Every request keeps the types of the tables, of the segment and of the locks.
THEOREM TypeCorrect == Spec => []TypeOK
  <1>1. Init => IInv
    BY PolicySegmentAssumption, InitIInv
  <1>2. IInv /\ [Next]_vars => IInv'
    BY PolicySegmentAssumption, NextKeeps
  <1>3. IInv => TypeOK
    BY DEF IInv, Types
  <1> QED  BY <1>1, <1>2, <1>3, PTL DEF Spec
-----------------------------------------------------------------------------
(* The segment after requests that did not overlap: what each request      *)
(* finds, and leaves, between its steps.                                   *)

\* The subnets S of a segment, V of them with a DHCP configuration, are those of the DHCP
\* subnets in D, not all of them perhaps, and of the interfaces R.
For(S, V, D, R) == R \subseteq S /\ S \subseteq D \cup R /\ V \subseteq D
\* The segment is connected to the router of the interfaces R.
Connected(R) == (\A s \in R : tier1 = ifc[s]) /\ (R = {} => tier1 = NoRouter)
Empty == /\ seg = {} /\ served = {} /\ tier1 = NoRouter /\ dport = {}
         /\ DhcpSubnets = {} /\ Routed = {}
Settled(D) == For(seg, served, D, Routed) /\ Connected(Routed)
Rest == \/ net = "none" /\ Empty
        \/ net = "up" /\ Settled(DhcpSubnets) /\ dport \subseteq DhcpSubnets

\* The labels of a request between a change of the database and that of the segment.
Enabling == {"port", "collect", "send"}
Disabling == {"collectOff", "sendOff"}
Attaching == {"collectIf", "sendIf"}
Detaching == {"collectRem", "sendRem", "sendRest"}

\* What is asked for at each label.
AskedFor(t) ==
  LET s == th[t].s  pc == th[t].pc  op == th[t].op IN
  /\ op \in {"plain", "create", "enable", "disable", "delete", "add", "remove"} => s \in Subnets
  /\ op = "delnet" => s = NoSubnet
  /\ op = "delete" => ifc[s] = NoRouter
  /\ pc \in {"on"} \cup Enabling => op \in {"plain", "create", "enable"}
  /\ pc = "off" => op \in {"disable", "delete"}
  /\ pc \in Disabling \cup {"portOff"} => op \in {"disable", "delete", "delnet"}
  /\ pc = "gone" => op = "delete"
  /\ pc \in {"netLock", "netGone"} => op = "delnet"
  /\ pc \in {"validate", "attach", "detach"} \cup Attaching \cup Detaching => op \in {"add", "remove"}
\* The DHCP subnets.
DhcpSteady(t) ==
  LET s == th[t].s  pc == th[t].pc  op == th[t].op  w == th[t].want IN
  /\ pc \in {"netLock", "netGone", "on", "again", "sendAgain", "off", "validate", "attach"}
       => Settled(DhcpSubnets)
  /\ pc \in Enabling => s \in DhcpSubnets /\ Settled(IF op = "create" THEN DhcpSubnets \ {s} ELSE DhcpSubnets)
  /\ pc \in {"send", "sendAgain"} => For(w.subs, w.served, DhcpSubnets, Routed)
  /\ pc \in Disabling => Settled(DhcpSubnets \cup {s}) /\ (op = "disable" => sub[s] = "plain")
  /\ pc \in {"off"} \cup Disabling /\ op = "delete" => s \in DhcpSubnets
  /\ pc = "sendOff" => For(w.subs, w.served, DhcpSubnets \ {s}, Routed)
  /\ pc \in {"portOff", "gone"} => Settled(DhcpSubnets \ {s})
  /\ pc = "portOff" /\ op = "disable" => sub[s] = "plain"
  /\ pc \in Disabling \cup {"portOff"} => dport \subseteq DhcpSubnets \cup {s}
  /\ pc \notin Disabling \cup {"portOff", "segment", "segmentGone"} => dport \subseteq DhcpSubnets
  /\ op \in {"plain", "create"} /\ pc = "on" => sub[s] = "none"
\* The interfaces.
IfcSteady(t) ==
  LET s == th[t].s  pc == th[t].pc  r == th[t].r  w == th[t].want IN
  /\ pc \in {"validate", "attach"} => s \notin Routed /\ r \in Routers
  /\ pc \in Attaching => For(seg, served, DhcpSubnets, Routed \ {s}) /\ Connected(Routed \ {s})
  /\ pc \in Attaching \cup {"detach"} => s \in Routed /\ ifc[s] = r
  /\ pc \in {"sendIf", "sendRem", "sendRest"} => For(w.subs, w.served, DhcpSubnets, Routed)
  /\ pc \in Detaching \cup {"detach"} => tier1 \in {r, NoRouter}
  /\ pc \in Detaching => r # NoRouter /\ \A x \in Routed : ifc[x] = r /\ tier1 = r
  /\ pc = "detach" => \A x \in Routed \ {s} : tier1 = r
  /\ pc = "sendRem" => th[t].keep = (Routed # {})
  /\ pc = "sendRest" => Routed = {} /\ tier1 = NoRouter
\* The network.
NetSteady(t) ==
  /\ th[t].pc = "segment" => net = "db" /\ Empty
  /\ th[t].pc = "segmentGone" => net = "gone" /\ DhcpSubnets = {} /\ Routed = {} /\ dport = {}
  /\ th[t].pc \notin {"segment", "segmentGone"} => net = "up"
Steady(t) == AskedFor(t) /\ DhcpSteady(t) /\ IfcSteady(t) /\ NetSteady(t)

\* Until requests overlap there is one at a time.
Steps == clean => /\ \A t, u \in Threads : th[t] # Idle /\ th[u] # Idle => t = u
                  /\ (\A t \in Threads : th[t] = Idle) => Rest
                  /\ \A t \in Threads : th[t] # Idle => th[t].pc # "idle" /\ Steady(t)

SegInv == IInv /\ Steps

\* The sets of DHCP subnets and of routed ones after a change of a table.
LEMMA SubSet ==
  ASSUME TypeOK, NEW s \in Subnets
  PROVE  /\ sub' = [sub EXCEPT ![s] = "dhcp"] => DhcpSubnets' = DhcpSubnets \cup {s}
         /\ sub' = [sub EXCEPT ![s] = "plain"] => DhcpSubnets' = DhcpSubnets \ {s} /\ sub'[s] = "plain"
         /\ sub' = [sub EXCEPT ![s] = "none"] => DhcpSubnets' = DhcpSubnets \ {s}
  BY DEF DhcpSubnets, TypeOK
LEMMA IfcSet ==
  ASSUME TypeOK, NEW s \in Subnets
  PROVE  /\ \A r \in Routers : ifc' = [ifc EXCEPT ![s] = r] /\ r # NoRouter =>
              Routed' = Routed \cup {s} /\ ifc'[s] = r /\ \A x \in Subnets \ {s} : ifc'[x] = ifc[x]
         /\ ifc' = [ifc EXCEPT ![s] = NoRouter] =>
              Routed' = Routed \ {s} /\ \A x \in Subnets \ {s} : ifc'[x] = ifc[x]
  BY DEF Routed, TypeOK
LEMMA SameSets ==
  /\ sub' = sub => DhcpSubnets' = DhcpSubnets
  /\ ifc' = ifc => Routed' = Routed
  BY DEF DhcpSubnets, Routed

\* _get_segment_subnets: the interfaces of the router of the network are all there are.
LEMMA CollectFit ==
  ASSUME NEW D, NEW R, R = {} \/ R = Routed, NEW w \in Collect(D, R)
  PROVE  For(w.subs, w.served, DhcpSubnets \ D, Routed)
  <1> DEFINE d == DhcpSubnets \ D
             own == IF R = {} THEN Routed ELSE R
  <1>1. PICK x \in IF Cardinality(d) <= 2 THEN {d} ELSE kSubset(2, d) :
          w = [subs |-> x \cup own, served |-> x \cap dport]
    BY DEF Collect
  <1>2. x \subseteq d
    BY <1>1 DEF kSubset
  <1> QED  BY <1>1, <1>2 DEF For

\* The request that is at work, until another begins.
LEMMA OnlyOne ==
  ASSUME SegInv, NEW t \in Threads, th[t].pc # "idle", clean
  PROVE  Steady(t) /\ th[t] # Idle /\ \A u \in Threads \ {t} : th[u] = Idle
  <1>1. th[t] # Idle
    BY DEF Idle
  <1> QED  BY <1>1 DEF SegInv, Steps

\* A step of the request, and the begin of one.
Goes(t) == th'[t].pc # "idle" /\ Steady(t)'
LEMMA OneStep ==
  ASSUME SegInv, NEW t \in Threads, th[t].pc # "idle", \A u \in Threads \ {t} : th'[u] = th[u], clean' => clean,
         clean' => (th'[t] = Idle /\ Rest') \/ Goes(t)
  PROVE  Steps'
  <1>1. SUFFICES ASSUME clean' PROVE /\ \A v, u \in Threads : th'[v] # Idle /\ th'[u] # Idle => v = u
                                     /\ (\A u \in Threads : th'[u] = Idle) => Rest'
                                     /\ \A u \in Threads : th'[u] # Idle => th'[u].pc # "idle" /\ Steady(u)'
    BY DEF Steps
  <1>2. \A u \in Threads \ {t} : th'[u] = Idle
    BY <1>1, OnlyOne
  <1>3. Idle.pc = "idle"
    BY DEF Idle
  <1> QED  BY <1>1, <1>2, <1>3 DEF Goes
LEMMA OneBegin ==
  ASSUME SegInv, NEW t \in Threads, \A u \in Threads \ {t} : th'[u] = th[u],
         clean' = (clean /\ \A u \in Threads \ {t} : th[u] = Idle),
         clean' => Goes(t)
  PROVE  Steps'
  <1>1. SUFFICES ASSUME clean' PROVE /\ \A v, u \in Threads : th'[v] # Idle /\ th'[u] # Idle => v = u
                                     /\ (\A u \in Threads : th'[u] = Idle) => Rest'
                                     /\ \A u \in Threads : th'[u] # Idle => th'[u].pc # "idle" /\ Steady(u)'
    BY DEF Steps
  <1>2. \A u \in Threads \ {t} : th'[u] = Idle
    BY <1>1
  <1>3. Idle.pc = "idle"
    BY DEF Idle
  <1> QED  BY <1>1, <1>2, <1>3 DEF Goes

\* What goes on with the fields of a request.
Becomes(t, label) == th'[t].pc = label /\ th'[t].op = th[t].op /\ th'[t].s = th[t].s /\ th'[t].r = th[t].r
                     /\ \A u \in Threads \ {t} : th'[u] = th[u]
LEMMA GotoBecomes ==
  ASSUME IInv, NEW t \in Threads, NEW label, Goto(t, label)
  PROVE  Becomes(t, label) /\ th'[t].want = th[t].want /\ th'[t].keep = th[t].keep
  BY DEF Goto, Becomes, IInv, Types, Request
LEMMA EndIdle == ASSUME IInv, NEW t \in Threads, End(t)
                 PROVE  th'[t] = Idle /\ \A u \in Threads \ {t} : th'[u] = th[u]
  BY DEF End, IInv, Types

\* The begin of a request that finds the network at rest.
LEMMA BeginFields ==
  ASSUME IInv, NEW t \in Threads, NEW op \in Ops, NEW s, NEW r, NEW label, Begin(t, op, s, r, label)
  PROVE  /\ th'[t].pc = label /\ th'[t].op = op /\ th'[t].s = s /\ th'[t].r = r
         /\ \A u \in Threads \ {t} : th'[u] = th[u]
         /\ clean' = (clean /\ \A u \in Threads \ {t} : th[u] = Idle) /\ UNCHANGED segVars
  BY DEF Begin, Idle, IInv, Types
LEMMA BeginAtRest ==
  ASSUME SegInv, NEW t \in Threads, NEW op \in Ops \ {"newnet"}, NEW s, NEW r, NEW label,
         Begin(t, op, s, r, label), clean'
  PROVE  net = "up" /\ Settled(DhcpSubnets) /\ dport \subseteq DhcpSubnets
  <1>1. \A u \in Threads : th[u] = Idle
    BY DEF Begin
  <1> QED  BY <1>1 DEF SegInv, Steps, Rest, Begin, Idle

\* create_network, delete_network.
LEMMA NetworksStep == ASSUME PolicySegmentAssumption, SegInv, NEW t \in Threads, Networks(t) PROVE Steps'
  <1> USE DEF Steady, AskedFor, DhcpSteady, IfcSteady, NetSteady, Enabling, Disabling, Attaching, Detaching
  <1>0. IInv /\ TypeOK
    BY DEF SegInv, IInv, Types
  <1>1. CASE StartNewNet(t)
    <2>1. /\ th'[t].pc = "segment" /\ th'[t].op = "newnet" /\ th'[t].s = NoSubnet
          /\ \A u \in Threads \ {t} : th'[u] = th[u]
          /\ clean' = (clean /\ \A u \in Threads \ {t} : th[u] = Idle) /\ UNCHANGED segVars
      BY <1>0, <1>1, BeginFields DEF StartNewNet, Ops
    <2>2. clean' => Empty
      <3>1. ASSUME clean' PROVE \A u \in Threads : th[u] = Idle
        BY <1>1, <3>1 DEF StartNewNet, Begin
      <3> QED  BY <1>1, <2>1, <3>1 DEF SegInv, Steps, Rest, StartNewNet
    <2>3. clean' => Empty' /\ net' = "db"
      BY <1>1, <2>1, <2>2, SameSets DEF Empty, StartNewNet, segVars
    <2>9. clean' => Goes(t)
      BY <2>1, <2>3 DEF Goes
    <2> QED  BY <2>1, <2>9, OneBegin
  <1>2. CASE NewSegment(t)
    <2>1. th'[t] = Idle /\ \A u \in Threads \ {t} : th'[u] = th[u]
      BY <1>0, <1>2, EndIdle DEF NewSegment
    <2>2. clean' => Rest'
      <3>1. clean' => Empty
        BY <1>2, OnlyOne DEF NewSegment, At
      <3>2. clean' => Empty'
        BY <1>2, <3>1, SameSets DEF Empty, NewSegment, segVars
      <3> QED  BY <1>2, <3>2 DEF NewSegment, Rest, Settled, For, Connected, Empty
    <2> QED  BY <1>2, <2>1, <2>2, OneStep DEF NewSegment, At
  <1>3. CASE StartDeleteNet(t)
    <2>1. /\ th'[t].pc = "netLock" /\ th'[t].op = "delnet" /\ th'[t].s = NoSubnet
          /\ \A u \in Threads \ {t} : th'[u] = th[u]
          /\ clean' = (clean /\ \A u \in Threads \ {t} : th[u] = Idle) /\ UNCHANGED segVars
      BY <1>0, <1>3, BeginFields DEF StartDeleteNet, Ops
    <2>2. clean' => net = "up" /\ Settled(DhcpSubnets) /\ dport \subseteq DhcpSubnets
      BY <1>3, BeginAtRest DEF StartDeleteNet, Ops
    <2>3. clean' => net' = "up" /\ Settled(DhcpSubnets)' /\ dport' \subseteq DhcpSubnets'
      BY <1>3, <2>1, <2>2, SameSets DEF Settled, Connected, StartDeleteNet, dbVars, segVars
    <2>9. clean' => Goes(t)
      BY <2>1, <2>3 DEF Goes
    <2> QED  BY <2>1, <2>9, OneBegin
  <1>4. CASE NetLock(t)
    <2>1. \E label \in {"collectOff", "netGone"} : Becomes(t, label)
      BY <1>0, <1>4, GotoBecomes DEF NetLock
    <2>2. clean => Steady(t) /\ th[t].pc = "netLock"
      BY <1>4, OnlyOne DEF NetLock, At
    <2>3. UNCHANGED <<net, seg, served, tier1, dport, ifc, sub>> /\ DhcpSubnets' = DhcpSubnets /\ Routed' = Routed
      BY <1>4, SameSets DEF NetLock, dbVars, segVars
    <2>4. clean => Goes(t)
      BY <2>1, <2>2, <2>3 DEF Goes, Becomes, Settled, For, Connected
    <2> QED  BY <1>4, <2>1, <2>4, OneStep DEF NetLock, At, Becomes
  <1>5. CASE NetGone(t)
    <2>2. clean => Steady(t) /\ th[t].pc = "netGone"
      BY <1>5, OnlyOne DEF NetGone, At
    <2>3. CASE Routed = {}
      <3>1. Becomes(t, "segmentGone")
        BY <1>0, <1>5, <2>3, GotoBecomes DEF NetGone
      <3>2. net' = "gone" /\ DhcpSubnets' = {} /\ Routed' = {} /\ dport' = {}
        BY <1>5, <2>3, SameSets DEF NetGone, DhcpSubnets
      <3>3. clean => Goes(t)
        BY <2>2, <3>1, <3>2 DEF Goes, Becomes
      <3> QED  BY <1>5, <3>1, <3>3, OneStep DEF NetGone, At, Becomes
    <2>4. CASE Routed # {}
      <3>1. th'[t] = Idle /\ \A u \in Threads \ {t} : th'[u] = th[u]
        BY <1>0, <1>5, <2>4, EndIdle DEF NetGone
      <3>2. UNCHANGED <<net, seg, served, tier1, dport, ifc, sub>> /\ DhcpSubnets' = DhcpSubnets /\ Routed' = Routed
        BY <1>5, <2>4, SameSets DEF NetGone, segVars
      <3>3. clean => Rest'
        BY <2>2, <3>2 DEF Rest, Settled, For, Connected
      <3> QED  BY <1>5, <3>1, <3>3, OneStep DEF NetGone, At
    <2> QED  BY <2>3, <2>4
  <1>6. CASE SegmentGone(t)
    <2>1. th'[t] = Idle /\ \A u \in Threads \ {t} : th'[u] = th[u]
      BY <1>0, <1>6, EndIdle DEF SegmentGone
    <2>2. clean => Steady(t) /\ th[t].pc = "segmentGone"
      BY <1>6, OnlyOne DEF SegmentGone, At
    <2>3. clean => Rest'
      BY <1>6, <2>2, SameSets DEF SegmentGone, Rest, Empty
    <2> QED  BY <1>6, <2>1, <2>3, OneStep DEF SegmentGone, At
  <1> QED  BY <1>1, <1>2, <1>3, <1>4, <1>5, <1>6 DEF Networks

\* What a step leaves as it is: the tables and the segment.
LEMMA Same ==
  ASSUME UNCHANGED <<dbVars, segVars>>
  PROVE  /\ UNCHANGED <<net, sub, ifc, dport, seg, served, tier1>>
         /\ DhcpSubnets' = DhcpSubnets /\ Routed' = Routed
  BY SameSets DEF dbVars, segVars

\* create_subnet, update_subnet.
LEMMA EnableStep == ASSUME PolicySegmentAssumption, SegInv, NEW t \in Threads, Enable(t) PROVE Steps'
  <1> USE DEF Steady, AskedFor, DhcpSteady, IfcSteady, NetSteady, Enabling, Disabling, Attaching, Detaching
  <1>0. IInv /\ TypeOK
    BY DEF SegInv, IInv, Types
  <1>1. ASSUME NEW s \in Subnets, NEW op \in {"enable", "disable", "plain", "create"}, NEW label \in {"on", "off"},
               Begin(t, op, s, NoRouter, label), UNCHANGED dbVars, op = "disable" <=> label = "off",
               op \in {"plain", "create"} => sub[s] = "none"
        PROVE  Steps'
    <2>1. /\ th'[t].pc = label /\ th'[t].op = op /\ th'[t].s = s
          /\ \A u \in Threads \ {t} : th'[u] = th[u]
          /\ clean' = (clean /\ \A u \in Threads \ {t} : th[u] = Idle) /\ UNCHANGED segVars
      BY <1>0, <1>1, BeginFields DEF Ops
    <2>2. clean' => net = "up" /\ Settled(DhcpSubnets) /\ dport \subseteq DhcpSubnets
      BY <1>1, BeginAtRest DEF Ops
    <2>3. /\ UNCHANGED <<net, sub, ifc, dport, seg, served, tier1>>
          /\ DhcpSubnets' = DhcpSubnets /\ Routed' = Routed
      BY <1>1, <2>1, Same
    <2>4. clean' => Goes(t)
      BY <1>1, <2>1, <2>2, <2>3 DEF Goes, Settled, For, Connected
    <2> QED  BY <2>1, <2>4, OneBegin
  <1>2. ASSUME NEW s \in Subnets, StartUpdate(t, s) PROVE Steps'
    BY <1>1, <1>2 DEF StartUpdate
  <1>3. ASSUME NEW s \in Subnets, NEW op \in {"plain", "create"}, StartCreate(t, s, op) PROVE Steps'
    BY <1>1, <1>3 DEF StartCreate
  <1>4. CASE TurnOn(t)
    <2>1. clean => Steady(t) /\ th[t].pc = "on"
      BY <1>4, OnlyOne DEF TurnOn, At
    <2>2. PICK s \in Subnets : s = th[t].s
      BY <1>4 DEF TurnOn, At, SegInv, IInv, Types
    <2>3. UNCHANGED <<net, ifc, dport, seg, served, tier1, clean>> /\ Routed' = Routed
      BY <1>4, SameSets DEF TurnOn, segVars
    <2>4. CASE End(t)
      <3>1. th'[t] = Idle /\ \A u \in Threads \ {t} : th'[u] = th[u]
        BY <1>0, <2>4, EndIdle
      <3>2. sub' = sub \/ (th[t].op = "plain" /\ sub' = [sub EXCEPT ![s] = "plain"])
        <4>1. th' # [th EXCEPT ![t].pc = "port", ![t].seen = {}]
          BY <1>0, <3>1 DEF Idle, IInv, Types, Request
        <4> QED  BY <1>4, <2>2, <4>1 DEF TurnOn
      <3>3. clean => DhcpSubnets' = DhcpSubnets
        <4>1. sub[s] = "none" => s \notin DhcpSubnets
          BY DEF DhcpSubnets
        <4>2. sub' = [sub EXCEPT ![s] = "plain"] => DhcpSubnets' = DhcpSubnets \ {s}
          BY <1>0, SubSet
        <4> QED  BY <2>1, <2>2, <3>2, <4>1, <4>2, SameSets
      <3>4. clean => Rest'
        BY <2>1, <2>3, <3>3 DEF Rest, Settled, For, Connected
      <3> QED  BY <1>4, <2>3, <3>1, <3>4, OneStep DEF TurnOn, At
    <2>5. CASE ~End(t)
      <3>1. th[t].op # "plain" /\ sub' = [sub EXCEPT ![s] = "dhcp"] /\ th' = [th EXCEPT ![t].pc = "port", ![t].seen = {}]
        BY <1>4, <2>2, <2>5 DEF TurnOn
      <3>2. Becomes(t, "port")
        BY <1>0, <3>1 DEF Becomes, IInv, Types, Request
      <3>3. DhcpSubnets' = DhcpSubnets \cup {s}
        BY <1>0, <2>2, <3>1, SubSet
      <3>4. th[t].op = "create" /\ clean => s \notin DhcpSubnets
        BY <2>1, <2>2 DEF DhcpSubnets
      <3>5. clean => Settled(IF th[t].op = "create" THEN DhcpSubnets \ {th[t].s} ELSE DhcpSubnets)'
        BY <2>1, <2>2, <2>3, <3>3, <3>2, <3>4 DEF Settled, For, Connected, Becomes
      <3>6. clean => Goes(t)
        <4>1. th'[t].pc = "port" /\ th'[t].op = th[t].op /\ th'[t].s = s /\ th[t].op # "plain"
          BY <2>2, <3>1, <3>2 DEF Becomes
        <4>2. clean => AskedFor(t)'
          BY <2>1, <4>1
        <4>3. clean => DhcpSteady(t)'
          BY <2>1, <2>2, <2>3, <3>3, <3>5, <4>1
        <4>4. clean => IfcSteady(t)' /\ NetSteady(t)'
          BY <2>1, <2>3, <4>1
        <4> QED  BY <4>1, <4>2, <4>3, <4>4 DEF Goes
      <3> QED  BY <1>4, <2>3, <3>2, <3>6, OneStep DEF TurnOn, At, Becomes
    <2> QED  BY <2>4, <2>5
  <1>5. CASE AddDhcpPort(t)
    <2>1. Becomes(t, "collect")
      BY <1>0, <1>5, GotoBecomes DEF AddDhcpPort
    <2>2. clean => Steady(t) /\ th[t].pc = "port"
      BY <1>5, OnlyOne DEF AddDhcpPort, At
    <2>3. UNCHANGED <<net, ifc, sub, seg, served, tier1, clean>> /\ Routed' = Routed /\ DhcpSubnets' = DhcpSubnets
          /\ dport' = dport \cup {th[t].s}
      BY <1>5, SameSets DEF AddDhcpPort, segVars
    <2>4. clean => Goes(t)
      BY <2>1, <2>2, <2>3 DEF Goes, Becomes, Settled, For, Connected
    <2> QED  BY <1>5, <2>1, <2>3, <2>4, OneStep DEF AddDhcpPort, At, Becomes
  <1>6. CASE CollectOn(t) \/ CollectAgain(t)
    <2>1. PICK label \in {"send", "sendAgain"} : CollectFor(t, {}, {}, label)
          /\ th[t].pc = IF label = "send" THEN "collect" ELSE "again"
      BY <1>6 DEF CollectOn, CollectAgain, At
    <2>2. PICK w \in Collect({}, {}) : th' = [th EXCEPT ![t].pc = label, ![t].want = w]
      BY <2>1 DEF CollectFor
    <2>3. Becomes(t, label) /\ th'[t].want = w
      BY <1>0, <2>2 DEF Becomes, IInv, Types, Request
    <2>4. For(w.subs, w.served, DhcpSubnets, Routed)
      BY CollectFit DEF For
    <2>5. UNCHANGED <<net, ifc, sub, dport, seg, served, tier1, clean>> /\ Routed' = Routed /\ DhcpSubnets' = DhcpSubnets
      BY <2>1, Same DEF CollectFor
    <2>6. clean => Steady(t)
      BY <2>1, OnlyOne
    <2>7. clean => Goes(t)
      BY <2>1, <2>3, <2>4, <2>5, <2>6 DEF Goes, Becomes, Settled, For, Connected
    <2> QED  BY <2>1, <2>3, <2>5, <2>7, OneStep DEF Becomes
  <1>7. CASE SendOn(t)
    <2>1. clean => Steady(t) /\ th[t].pc = "send"
      BY <1>7, OnlyOne DEF SendOn, At
    <2>2. UNCHANGED <<net, ifc, sub, dport, tier1, clean>> /\ Routed' = Routed /\ DhcpSubnets' = DhcpSubnets
          /\ seg' = th[t].want.subs /\ served' = th[t].want.served
      BY <1>7, SameSets DEF SendOn, dbVars, Send
    <2>3. CASE End(t)
      <3>1. th'[t] = Idle /\ \A u \in Threads \ {t} : th'[u] = th[u]
        BY <1>0, <2>3, EndIdle
      <3>2. clean => Rest'
        BY <2>1, <2>2 DEF Rest, Settled, For, Connected
      <3> QED  BY <1>7, <2>2, <3>1, <3>2, OneStep DEF SendOn, At
    <2>4. CASE ~End(t)
      <3>1. Becomes(t, "again")
        BY <1>0, <1>7, <2>4 DEF SendOn, Becomes, IInv, Types, Request
      <3>2. clean => Goes(t)
        BY <2>1, <2>2, <3>1 DEF Goes, Becomes, Settled, For, Connected
      <3> QED  BY <1>7, <2>2, <3>1, <3>2, OneStep DEF SendOn, At, Becomes
    <2> QED  BY <2>3, <2>4
  <1>8. CASE SendOnFails(t)
    <2>1. clean => Steady(t) /\ th[t].pc = "send"
      BY <1>8, OnlyOne DEF SendOnFails, At
    <2>2. th'[t] = Idle /\ \A u \in Threads \ {t} : th'[u] = th[u]
      BY <1>0, <1>8, EndIdle DEF SendOnFails
    <2>3. UNCHANGED <<net, ifc, seg, served, tier1>> /\ Routed' = Routed
      BY <1>8, SameSets DEF SendOnFails, segVars
    <2>4. ASSUME clean' PROVE Rest'
      <3>1. clean /\ th[t].op = "create" /\ sub' = [sub EXCEPT ![th[t].s] = "none"] /\ dport' = dport \ {th[t].s}
        BY <1>8, <2>4 DEF SendOnFails
      <3>2. th[t].s \in Subnets
        BY <2>1, <3>1
      <3>3. DhcpSubnets' = DhcpSubnets \ {th[t].s}
        BY <1>0, <3>1, <3>2, SubSet
      <3> QED  BY <2>1, <2>3, <3>1, <3>3 DEF Rest, Settled, For, Connected
    <2> QED  BY <1>8, <2>2, <2>4, OneStep DEF SendOnFails, At
  <1>9. CASE SendAgain(t)
    <2>1. clean => Steady(t) /\ th[t].pc = "sendAgain"
      BY <1>9, OnlyOne DEF SendAgain, At
    <2>2. th'[t] = Idle /\ \A u \in Threads \ {t} : th'[u] = th[u]
      BY <1>0, <1>9, EndIdle DEF SendAgain
    <2>3. UNCHANGED <<net, ifc, sub, dport, tier1, clean>> /\ Routed' = Routed /\ DhcpSubnets' = DhcpSubnets
          /\ \/ seg' = th[t].want.subs /\ served' = th[t].want.served
             \/ UNCHANGED <<seg, served>>
      BY <1>9, SameSets DEF SendAgain, dbVars, Send
    <2>4. clean => Rest'
      BY <2>1, <2>3 DEF Rest, Settled, For, Connected
    <2> QED  BY <1>9, <2>2, <2>3, <2>4, OneStep DEF SendAgain, At
  <1> QED  BY <1>2, <1>3, <1>4, <1>5, <1>6, <1>7, <1>8, <1>9 DEF Enable

\* What a request goes on with when the DHCP of what it deletes is off.
LEMMA AfterOffBecomes ==
  ASSUME IInv, NEW t \in Threads, AfterOff(t), th[t].op # "disable"
  PROVE  /\ \A u \in Threads \ {t} : th'[u] = th[u]
         /\ th[t].op = "delete" => th'[t].pc = "gone" /\ th'[t].op = "delete" /\ th'[t].s = th[t].s
         /\ th[t].op # "delete" => th'[t].pc = "netGone" /\ th'[t].op = "delnet" /\ th'[t].s = NoSubnet
  <1>1. th \in [Threads -> Request]
    BY DEF IInv, Types
  <1>2. CASE th[t].op = "delete"
    <2> DEFINE q == [Idle EXCEPT !.pc = "gone", !.op = "delete", !.s = th[t].s]
    <2>1. th' = [th EXCEPT ![t] = q]
      BY <1>2 DEF AfterOff
    <2>2. q.pc = "gone" /\ q.op = "delete" /\ q.s = th[t].s
      BY DEF Idle
    <2> HIDE DEF q
    <2> QED  BY <1>1, <1>2, <2>1, <2>2
  <1>3. CASE th[t].op # "delete"
    <2> DEFINE q == [Idle EXCEPT !.pc = "netGone", !.op = "delnet"]
    <2>1. th' = [th EXCEPT ![t] = q]
      BY <1>3 DEF AfterOff
    <2>2. q.pc = "netGone" /\ q.op = "delnet" /\ q.s = NoSubnet
      BY DEF Idle
    <2> HIDE DEF q
    <2> QED  BY <1>1, <1>3, <2>1, <2>2
  <1> QED  BY <1>2, <1>3

\* delete_subnet, and the end of DHCP.
LEMMA DisableStep == ASSUME PolicySegmentAssumption, SegInv, NEW t \in Threads, Disable(t) PROVE Steps'
  <1> USE DEF Steady, AskedFor, DhcpSteady, IfcSteady, NetSteady, Enabling, Disabling, Attaching, Detaching
  <1>0. IInv /\ TypeOK
    BY DEF SegInv, IInv, Types
  <1>1. ASSUME NEW s \in Subnets, StartDelete(t, s) PROVE Steps'
    <2>1. PICK label \in {"off", "gone"} :
            /\ Begin(t, "delete", s, NoRouter, label) /\ UNCHANGED dbVars /\ ifc[s] = NoRouter
            /\ label = "off" <=> s \in DhcpSubnets
      BY <1>1 DEF StartDelete, DhcpSubnets
    <2>2. /\ th'[t].pc = label /\ th'[t].op = "delete" /\ th'[t].s = s
          /\ \A u \in Threads \ {t} : th'[u] = th[u]
          /\ clean' = (clean /\ \A u \in Threads \ {t} : th[u] = Idle) /\ UNCHANGED segVars
      BY <1>0, <2>1, BeginFields DEF Ops
    <2>3. clean' => net = "up" /\ Settled(DhcpSubnets) /\ dport \subseteq DhcpSubnets
      BY <2>1, BeginAtRest DEF Ops
    <2>4. /\ UNCHANGED <<net, sub, ifc, dport, seg, served, tier1>>
          /\ DhcpSubnets' = DhcpSubnets /\ Routed' = Routed
      BY <2>1, <2>2, Same
    <2>5. label = "gone" => DhcpSubnets \ {s} = DhcpSubnets
      BY <2>1
    <2>6. clean' => Goes(t)
      BY <2>1, <2>2, <2>3, <2>4, <2>5 DEF Goes, Settled, For, Connected
    <2> QED  BY <2>2, <2>6, OneBegin
  <1>2. CASE TurnOff(t)
    <2>1. clean => Steady(t) /\ th[t].pc = "off"
      BY <1>2, OnlyOne DEF TurnOff, At
    <2>2. Becomes(t, "collectOff")
      BY <1>0, <1>2, GotoBecomes DEF TurnOff
    <2>3. UNCHANGED <<net, ifc, dport, seg, served, tier1, clean>> /\ Routed' = Routed
      BY <1>2, SameSets DEF TurnOff, segVars
    <2>4. ASSUME clean PROVE Goes(t)
      <3>1. CASE th[t].op = "disable"
        <4>1. PICK s \in Subnets : s = th[t].s
          BY <2>1, <2>4, <3>1
        <4>2. sub' = [sub EXCEPT ![s] = "plain"]
          BY <1>2, <2>1, <2>4, <3>1, <4>1 DEF TurnOff
        <4>3. DhcpSubnets' = DhcpSubnets \ {s} /\ sub'[s] = "plain"
          BY <1>0, <4>1, <4>2, SubSet
        <4>4. Settled(DhcpSubnets \cup {s})'
          BY <2>1, <2>3, <2>4, <4>3 DEF Settled, For, Connected
        <4>5. th'[t].pc = "collectOff" /\ th'[t].op = "disable" /\ th'[t].s = s
          BY <2>2, <3>1, <4>1 DEF Becomes
        <4>6. AskedFor(t)'
          BY <4>1, <4>5
        <4>7. DhcpSteady(t)'
          BY <2>1, <2>3, <2>4, <4>3, <4>4, <4>5
        <4>8. IfcSteady(t)' /\ NetSteady(t)'
          BY <2>1, <2>3, <2>4, <4>5
        <4> QED  BY <4>5, <4>6, <4>7, <4>8 DEF Goes
      <3>2. CASE th[t].op = "delete"
        <4>1. sub' = sub /\ DhcpSubnets' = DhcpSubnets
          BY <1>2, <3>2, SameSets DEF TurnOff
        <4>2. th'[t].pc = "collectOff" /\ th'[t].op = "delete" /\ th'[t].s = th[t].s
          BY <2>2, <3>2 DEF Becomes
        <4>3. Settled(DhcpSubnets \cup {th[t].s})'
          BY <2>1, <2>3, <2>4, <4>1, <4>2 DEF Settled, For, Connected
        <4>4. AskedFor(t)'
          BY <2>1, <2>3, <2>4, <3>2, <4>2
        <4>5. DhcpSteady(t)'
          BY <2>1, <2>3, <2>4, <3>2, <4>1, <4>2, <4>3
        <4>6. IfcSteady(t)' /\ NetSteady(t)'
          BY <2>1, <2>3, <2>4, <4>2
        <4> QED  BY <4>2, <4>4, <4>5, <4>6 DEF Goes
      <3> QED  BY <2>1, <2>4, <3>1, <3>2
    <2> QED  BY <1>2, <2>2, <2>3, <2>4, OneStep DEF TurnOff, At, Becomes
  <1>3. CASE CollectOff(t)
    <2>1. clean => Steady(t) /\ th[t].pc = "collectOff"
      BY <1>3, OnlyOne DEF CollectOff, At
    <2>2. PICK keep, D, w :
            /\ w \in Collect(D, {})
            /\ D = {th[t].s} \/ D = DhcpSubnets
            /\ th' = [th EXCEPT ![t].pc = "sendOff", ![t].want = w, ![t].keep = keep]
      BY <1>3 DEF CollectOff
    <2>3. Becomes(t, "sendOff") /\ th'[t].want = w
      BY <1>0, <2>2 DEF Becomes, IInv, Types, Request
    <2>4. For(w.subs, w.served, DhcpSubnets \ D, Routed)
      BY <2>2, CollectFit
    <2>5. For(w.subs, w.served, DhcpSubnets \ {th[t].s}, Routed)
      BY <2>2, <2>4 DEF For
    <2>6. UNCHANGED <<net, ifc, sub, dport, seg, served, tier1, clean>> /\ Routed' = Routed /\ DhcpSubnets' = DhcpSubnets
      BY <1>3, Same DEF CollectOff
    <2>7. clean => Goes(t)
      BY <2>1, <2>3, <2>5, <2>6 DEF Goes, Becomes, Settled, For, Connected
    <2>8. th[t].pc # "idle"
      BY <1>3 DEF CollectOff, At
    <2> QED  BY <2>3, <2>6, <2>7, <2>8, OneStep DEF Becomes
  <1>4. CASE SendOff(t)
    <2>1. clean => Steady(t) /\ th[t].pc = "sendOff"
      BY <1>4, OnlyOne DEF SendOff, At
    <2>2. Becomes(t, "portOff")
      BY <1>0, <1>4 DEF SendOff, Becomes, IInv, Types, Request
    <2>3. UNCHANGED <<net, ifc, sub, dport, tier1, clean>> /\ Routed' = Routed /\ DhcpSubnets' = DhcpSubnets
          /\ seg' = th[t].want.subs /\ served' = th[t].want.served
      BY <1>4, SameSets DEF SendOff, dbVars, Send
    <2>4. clean => Goes(t)
      BY <2>1, <2>2, <2>3 DEF Goes, Becomes, Settled, For, Connected
    <2>5. th[t].pc # "idle"
      BY <1>4 DEF SendOff, At
    <2> QED  BY <2>2, <2>3, <2>4, <2>5, OneStep DEF Becomes
  <1>5. CASE PortOff(t)
    <2>1. clean => Steady(t) /\ th[t].pc = "portOff"
      BY <1>5, OnlyOne DEF PortOff, At
    <2>2. UNCHANGED <<net, ifc, sub, seg, served, tier1, clean>> /\ Routed' = Routed /\ DhcpSubnets' = DhcpSubnets
      BY <1>5, SameSets DEF PortOff, segVars
    <2>3. dport' = dport \ {th[t].s} \/ dport' = {}
      BY <1>5 DEF PortOff
    <2>4. clean => dport' \subseteq DhcpSubnets
      BY <2>1, <2>3
    <2>5. CASE th[t].op = "disable"
      <3>1. th'[t] = Idle /\ \A u \in Threads \ {t} : th'[u] = th[u]
        BY <1>0, <1>5, <2>5, EndIdle DEF PortOff, AfterOff
      <3>2. clean => Rest'
        BY <2>1, <2>2, <2>4 DEF Rest, Settled, For, Connected
      <3> QED  BY <1>5, <2>2, <3>1, <3>2, OneStep DEF PortOff, At
    <2>6. CASE th[t].op = "delete"
      <3>1. th'[t].pc = "gone" /\ th'[t].op = "delete" /\ th'[t].s = th[t].s /\ \A u \in Threads \ {t} : th'[u] = th[u]
        BY <1>0, <1>5, <2>6, AfterOffBecomes DEF PortOff
      <3>2. clean => Goes(t)
        BY <2>1, <2>2, <2>4, <2>6, <3>1 DEF Goes, Settled, For, Connected
      <3> QED  BY <1>5, <2>2, <3>1, <3>2, OneStep DEF PortOff, At
    <2>7. CASE th[t].op \notin {"disable", "delete"}
      <3>1. th'[t].pc = "netGone" /\ th'[t].op = "delnet" /\ th'[t].s = NoSubnet /\ \A u \in Threads \ {t} : th'[u] = th[u]
        BY <1>0, <1>5, <2>7, AfterOffBecomes DEF PortOff
      <3>2. clean => Goes(t)
        BY <2>1, <2>2, <2>4, <2>7, <3>1 DEF Goes, Settled, For, Connected
      <3> QED  BY <1>5, <2>2, <3>1, <3>2, OneStep DEF PortOff, At
    <2> QED  BY <2>5, <2>6, <2>7
  <1>6. CASE SendOffFails(t)
    <2>1. clean => Steady(t) /\ th[t].pc = "sendOff"
      BY <1>6, OnlyOne DEF SendOffFails, At
    <2>2. UNCHANGED <<net, ifc, dport, seg, served, tier1>> /\ Routed' = Routed
      BY <1>6, SameSets DEF SendOffFails, segVars
    <2>3. ASSUME clean' PROVE th'[t] = Idle /\ Rest'
      <3>1. clean /\ (th[t].op = "disable" \/ th[t].op = "delnet")
        BY <1>6, <2>1, <2>3 DEF SendOffFails
      <3>2. th'[t] = Idle
        BY <1>0, <1>6, <3>1, EndIdle DEF SendOffFails, AfterOff
      <3>3. CASE th[t].op = "disable"
        <4>1. PICK s \in Subnets : s = th[t].s
          BY <2>1, <3>1, <3>3
        <4>2. sub' = [sub EXCEPT ![s] = "dhcp"]
          BY <1>6, <2>1, <3>1, <3>3, <4>1 DEF SendOffFails
        <4>3. DhcpSubnets' = DhcpSubnets \cup {s}
          BY <1>0, <4>1, <4>2, SubSet
        <4> QED  BY <2>1, <2>2, <3>1, <3>2, <4>1, <4>3 DEF Rest, Settled, For, Connected
      <3>4. CASE th[t].op = "delnet"
        <4>1. sub' = sub /\ DhcpSubnets' = DhcpSubnets
          BY <1>6, <3>4, SameSets DEF SendOffFails
        <4>2. NoSubnet \notin seg \cup served \cup dport /\ th[t].s = NoSubnet
          BY <1>0, <2>1, <3>1, <3>4 DEF TypeOK, PolicySegmentAssumption
        <4> QED  BY <2>1, <2>2, <3>1, <3>2, <4>1, <4>2 DEF Rest, Settled, For, Connected
      <3> QED  BY <3>1, <3>3, <3>4
    <2>4. \A u \in Threads \ {t} : th'[u] = th[u]
      BY <1>0, <1>6 DEF SendOffFails, AfterOff, End, IInv, Types
    <2> QED  BY <1>6, <2>3, <2>4, OneStep DEF SendOffFails, At
  <1>7. CASE SubnetGone(t)
    <2>1. clean => Steady(t) /\ th[t].pc = "gone"
      BY <1>7, OnlyOne DEF SubnetGone, At
    <2>2. UNCHANGED <<net, ifc, seg, served, tier1, clean>> /\ Routed' = Routed
      BY <1>7, SameSets DEF SubnetGone, segVars
    <2>3. th'[t] = Idle /\ \A u \in Threads \ {t} : th'[u] = th[u]
      BY <1>0, <1>7, EndIdle DEF SubnetGone
    <2>4. ASSUME clean PROVE Rest'
      <3>1. PICK s \in Subnets : s = th[t].s
        BY <2>1, <2>4
      <3>2. sub' = [sub EXCEPT ![s] = "none"] /\ dport' = dport \ {s}
        BY <1>7, <2>1, <2>4, <3>1 DEF SubnetGone
      <3>3. DhcpSubnets' = DhcpSubnets \ {s}
        BY <1>0, <3>1, <3>2, SubSet
      <3> QED  BY <2>1, <2>2, <2>4, <3>1, <3>2, <3>3 DEF Rest, Settled, For, Connected
    <2> QED  BY <1>7, <2>2, <2>3, <2>4, OneStep DEF SubnetGone, At
  <1> QED  BY <1>1, <1>2, <1>3, <1>4, <1>5, <1>6, <1>7 DEF Disable

\* add_router_interface, remove_router_interface.
LEMMA InterfacesStep == ASSUME PolicySegmentAssumption, SegInv, NEW t \in Threads, Interfaces(t) PROVE Steps'
  <1> USE DEF Steady, AskedFor, DhcpSteady, IfcSteady, NetSteady, Enabling, Disabling, Attaching, Detaching
  <1>0. IInv /\ TypeOK /\ OneRouter
    BY DEF SegInv, IInv, Types
  <1>1. ASSUME NEW s \in Subnets, StartRemove(t, s) PROVE Steps'
    <2>1. PICK r : r = ifc[s] /\ r # NoRouter /\ Begin(t, "remove", s, r, "detach") /\ UNCHANGED dbVars
      BY <1>1 DEF StartRemove
    <2>2. /\ th'[t].pc = "detach" /\ th'[t].op = "remove" /\ th'[t].s = s /\ th'[t].r = r
          /\ \A u \in Threads \ {t} : th'[u] = th[u]
          /\ clean' = (clean /\ \A u \in Threads \ {t} : th[u] = Idle) /\ UNCHANGED segVars
      BY <1>0, <2>1, BeginFields DEF Ops
    <2>3. clean' => net = "up" /\ Settled(DhcpSubnets) /\ dport \subseteq DhcpSubnets
      BY <2>1, BeginAtRest DEF Ops
    <2>4. /\ UNCHANGED <<net, sub, ifc, dport, seg, served, tier1>>
          /\ DhcpSubnets' = DhcpSubnets /\ Routed' = Routed
      BY <2>1, <2>2, Same
    <2>5. s \in Routed /\ \A x \in Routed : ifc[x] = r
      BY <1>0, <2>1 DEF Routed, OneRouter
    <2>6. clean' => tier1 = r
      BY <2>3, <2>5 DEF Settled, Connected
    <2>7. clean' => Goes(t)
      BY <2>1, <2>2, <2>3, <2>4, <2>5, <2>6 DEF Goes
    <2> QED  BY <2>2, <2>7, OneBegin
  <1>2. ASSUME NEW r \in Routers, NEW s \in Subnets, StartAdd(t, r, s) PROVE Steps'
    <2>1. Begin(t, "add", s, r, "validate") /\ UNCHANGED dbVars /\ s \notin Routed
      BY <1>2 DEF StartAdd, Routed
    <2>2. /\ th'[t].pc = "validate" /\ th'[t].op = "add" /\ th'[t].s = s /\ th'[t].r = r
          /\ \A u \in Threads \ {t} : th'[u] = th[u]
          /\ clean' = (clean /\ \A u \in Threads \ {t} : th[u] = Idle) /\ UNCHANGED segVars
      BY <1>0, <2>1, BeginFields DEF Ops
    <2>3. clean' => net = "up" /\ Settled(DhcpSubnets) /\ dport \subseteq DhcpSubnets
      BY <2>1, BeginAtRest DEF Ops
    <2>4. /\ UNCHANGED <<net, sub, ifc, dport, seg, served, tier1>>
          /\ DhcpSubnets' = DhcpSubnets /\ Routed' = Routed
      BY <2>1, <2>2, Same
    <2>5. clean' => Goes(t)
      BY <2>1, <2>2, <2>3, <2>4 DEF Goes, Settled, For, Connected
    <2> QED  BY <2>2, <2>5, OneBegin
  <1>3. CASE Validate(t)
    <2>1. clean => Steady(t) /\ th[t].pc = "validate"
      BY <1>3, OnlyOne DEF Validate, At
    <2>2. UNCHANGED <<net, sub, ifc, dport, seg, served, tier1, clean>> /\ DhcpSubnets' = DhcpSubnets /\ Routed' = Routed
      BY <1>3, Same DEF Validate
    <2>3. CASE Goto(t, "attach")
      <3>1. Becomes(t, "attach")
        BY <1>0, <2>3, GotoBecomes
      <3>2. clean => Goes(t)
        BY <2>1, <2>2, <3>1 DEF Goes, Becomes, Settled, For, Connected
      <3> QED  BY <1>3, <2>2, <3>1, <3>2, OneStep DEF Validate, At, Becomes
    <2>4. CASE End(t)
      <3>1. th'[t] = Idle /\ \A u \in Threads \ {t} : th'[u] = th[u]
        BY <1>0, <2>4, EndIdle
      <3>2. clean => Rest'
        BY <2>1, <2>2 DEF Rest, Settled, For, Connected
      <3> QED  BY <1>3, <2>2, <3>1, <3>2, OneStep DEF Validate, At
    <2> QED  BY <1>3, <2>3, <2>4 DEF Validate
  <1>4. CASE Attach(t)
    <2>1. clean => Steady(t) /\ th[t].pc = "attach"
      BY <1>4, OnlyOne DEF Attach, At
    <2>2. UNCHANGED <<net, sub, dport, seg, served, tier1, clean>> /\ DhcpSubnets' = DhcpSubnets
      BY <1>4, SameSets DEF Attach, segVars
    <2>3. CASE net = "up"
      <3>1. Becomes(t, "collectIf")
        BY <1>0, <1>4, <2>3, GotoBecomes DEF Attach
      <3>2. ASSUME clean PROVE Goes(t)
        <4>1. PICK s \in Subnets, r \in Routers : s = th[t].s /\ r = th[t].r
          BY <2>1, <3>2
        <4>2. ifc' = [ifc EXCEPT ![s] = r] /\ r # NoRouter
          BY <1>4, <2>3, <4>1 DEF Attach, PolicySegmentAssumption
        <4>3. Routed' = Routed \cup {s} /\ ifc'[s] = r /\ \A x \in Subnets \ {s} : ifc'[x] = ifc[x]
          BY <1>0, <4>1, <4>2, IfcSet
        <4>4. s \notin Routed /\ Routed \subseteq Subnets
          BY <2>1, <3>2, <4>1 DEF Routed
        <4>5. Routed' \ {s} = Routed /\ s \in Routed'
          BY <4>3, <4>4
        <4>6. (For(seg, served, DhcpSubnets, Routed \ {s}) /\ Connected(Routed \ {s}))'
          BY <2>1, <2>2, <3>2, <4>3, <4>4, <4>5 DEF Settled, For, Connected
        <4>7. th'[t].pc = "collectIf" /\ th'[t].op = th[t].op /\ th'[t].s = s /\ th'[t].r = r
          BY <3>1, <4>1 DEF Becomes
        <4>8. AskedFor(t)'
          BY <2>1, <3>2, <4>1, <4>7
        <4>9. DhcpSteady(t)' /\ NetSteady(t)'
          BY <2>1, <2>2, <3>2, <4>7
        <4>10. IfcSteady(t)'
          BY <2>1, <3>2, <4>3, <4>5, <4>6, <4>7
        <4> QED  BY <4>7, <4>8, <4>9, <4>10 DEF Goes
      <3> QED  BY <1>4, <2>2, <3>1, <3>2, OneStep DEF Attach, At, Becomes
    <2>4. CASE net # "up"
      <3>1. th'[t] = Idle /\ \A u \in Threads \ {t} : th'[u] = th[u]
        BY <1>0, <1>4, <2>4, EndIdle DEF Attach
      <3>2. ~clean
        BY <2>1, <2>4
      <3>3. th[t].pc # "idle"
        BY <1>4 DEF Attach, At
      <3> QED  BY <2>2, <3>1, <3>2, <3>3, OneStep
    <2> QED  BY <2>3, <2>4
  <1>5. CASE CollectIf(t)
    <2>1. clean => Steady(t) /\ th[t].pc = "collectIf"
      BY <1>5, OnlyOne DEF CollectIf, At
    <2>2. PICK own, w : own = RoutedBy(th[t].r) /\ w \in Collect({}, own)
                        /\ th' = [th EXCEPT ![t].pc = "sendIf", ![t].want = w]
      BY <1>5 DEF CollectIf, CollectFor
    <2>3. Becomes(t, "sendIf") /\ th'[t].want = w
      BY <1>0, <2>2 DEF Becomes, IInv, Types, Request
    <2>4. UNCHANGED <<net, ifc, sub, dport, seg, served, tier1, clean>> /\ Routed' = Routed /\ DhcpSubnets' = DhcpSubnets
      BY <1>5, Same DEF CollectIf, CollectFor
    <2>5. clean => own = Routed
      BY <1>0, <2>1, <2>2 DEF OneRouter, Routed, RoutedBy
    <2>6. clean => For(w.subs, w.served, DhcpSubnets, Routed)
      BY <2>2, <2>5, CollectFit DEF For
    <2>7. clean => Goes(t)
      BY <2>1, <2>3, <2>4, <2>6 DEF Goes, Becomes, For, Connected
    <2>8. th[t].pc # "idle"
      BY <1>5 DEF CollectIf, At
    <2> QED  BY <2>3, <2>4, <2>7, <2>8, OneStep DEF Becomes
  <1>6. CASE SendIf(t)
    <2>1. clean => Steady(t) /\ th[t].pc = "sendIf"
      BY <1>6, OnlyOne DEF SendIf, At
    <2>2. UNCHANGED <<net, ifc, sub, dport, clean>> /\ Routed' = Routed /\ DhcpSubnets' = DhcpSubnets
          /\ seg' = th[t].want.subs /\ served' = th[t].want.served /\ tier1' = th[t].r
      BY <1>6, SameSets DEF SendIf, dbVars, Send
    <2>3. th'[t] = Idle /\ \A u \in Threads \ {t} : th'[u] = th[u]
      BY <1>0, <1>6, EndIdle DEF SendIf
    <2>4. clean => \A x \in Routed : ifc[x] = th[t].r
      BY <1>0, <2>1 DEF OneRouter
    <2>5. clean => Rest'
      BY <2>1, <2>2, <2>4 DEF Rest, Settled, For, Connected
    <2> QED  BY <1>6, <2>2, <2>3, <2>5, OneStep DEF SendIf, At
  <1>7. CASE SendIfFails(t)
    <2>1. clean => Steady(t) /\ th[t].pc = "sendIf"
      BY <1>7, OnlyOne DEF SendIfFails, At
    <2>2. UNCHANGED <<net, sub, ifc, dport, seg, served, tier1, clean>> /\ DhcpSubnets' = DhcpSubnets /\ Routed' = Routed
      BY <1>7, Same DEF SendIfFails
    <2>3. Becomes(t, "detach")
      BY <1>0, <1>7 DEF SendIfFails, Becomes, IInv, Types, Request
    <2>4. clean => \A x \in Routed \ {th[t].s} : tier1 = th[t].r
      BY <1>0, <2>1 DEF OneRouter, Connected
    <2>5. clean => tier1 \in {th[t].r, NoRouter}
      BY <2>1, <2>4 DEF Connected
    <2>6. clean => Goes(t)
      BY <2>1, <2>2, <2>3, <2>4, <2>5 DEF Goes, Becomes
    <2>7. th[t].pc # "idle"
      BY <1>7 DEF SendIfFails, At
    <2> QED  BY <2>2, <2>3, <2>6, <2>7, OneStep DEF Becomes
  <1>8. CASE Detach(t)
    <2>1. clean => Steady(t) /\ th[t].pc = "detach"
      BY <1>8, OnlyOne DEF Detach, At
    <2>2. UNCHANGED <<net, sub, dport, seg, served, tier1, clean>> /\ DhcpSubnets' = DhcpSubnets
      BY <1>8, SameSets DEF Detach, segVars
    <2>3. Becomes(t, "collectRem")
      BY <1>0, <1>8, GotoBecomes DEF Detach
    <2>4. ASSUME clean PROVE Goes(t)
      <3>1. PICK s, r : s \in Subnets /\ s = th[t].s /\ r = th[t].r
        BY <2>1, <2>4
      <3>2. ifc' = [ifc EXCEPT ![s] = NoRouter]
        BY <1>8, <3>1 DEF Detach
      <3>3. Routed' = Routed \ {s} /\ \A x \in Subnets \ {s} : ifc'[x] = ifc[x]
        BY <1>0, <3>1, <3>2, IfcSet
      <3>4. r # NoRouter /\ \A x \in Routed : ifc[x] = r
        BY <1>0, <2>1, <2>4, <3>1 DEF OneRouter, Routed
      <3>5. \A x \in Routed' : ifc'[x] = r /\ tier1' = r
        BY <2>1, <2>2, <2>4, <3>1, <3>3, <3>4 DEF Routed
      <3>6. th'[t].pc = "collectRem" /\ th'[t].op = th[t].op /\ th'[t].s = s /\ th'[t].r = r
        BY <2>3, <3>1 DEF Becomes
      <3>7. AskedFor(t)'
        BY <2>1, <2>4, <3>1, <3>6
      <3>8. DhcpSteady(t)' /\ NetSteady(t)'
        BY <2>1, <2>2, <2>4, <3>6
      <3>9. IfcSteady(t)'
        BY <2>1, <2>2, <2>4, <3>1, <3>4, <3>5, <3>6
      <3> QED  BY <3>6, <3>7, <3>8, <3>9 DEF Goes
    <2> QED  BY <1>8, <2>2, <2>3, <2>4, OneStep DEF Detach, At, Becomes
  <1>9. CASE CollectRem(t)
    <2>1. clean => Steady(t) /\ th[t].pc = "collectRem"
      BY <1>9, OnlyOne DEF CollectRem, At
    <2>2. PICK own, w : own = RoutedBy(th[t].r) /\ w \in Collect({}, own)
                        /\ th' = [th EXCEPT ![t].pc = "sendRem", ![t].want = w, ![t].keep = own # {}]
      BY <1>9 DEF CollectRem
    <2>3. Becomes(t, "sendRem") /\ th'[t].want = w /\ th'[t].keep = (own # {})
      BY <1>0, <2>2 DEF Becomes, IInv, Types, Request
    <2>4. UNCHANGED <<net, ifc, sub, dport, seg, served, tier1, clean>> /\ Routed' = Routed /\ DhcpSubnets' = DhcpSubnets
      BY <1>9, Same DEF CollectRem
    <2>5. clean => own = Routed
      BY <2>1, <2>2 DEF Routed, RoutedBy
    <2>6. clean => For(w.subs, w.served, DhcpSubnets, Routed)
      BY <2>2, <2>5, CollectFit DEF For
    <2>7. clean => Goes(t)
      BY <2>1, <2>3, <2>4, <2>5, <2>6 DEF Goes, Becomes, For
    <2>8. th[t].pc # "idle"
      BY <1>9 DEF CollectRem, At
    <2> QED  BY <2>3, <2>4, <2>7, <2>8, OneStep DEF Becomes
  <1>10. CASE Disconnect(t)
    <2>1. clean => Steady(t) /\ th[t].pc = "sendRem"
      BY <1>10, OnlyOne DEF Disconnect, At
    <2>2. UNCHANGED <<net, ifc, sub, dport, clean>> /\ Routed' = Routed /\ DhcpSubnets' = DhcpSubnets /\ tier1' = NoRouter
      BY <1>10, SameSets DEF Disconnect, dbVars
    <2>3. clean => Routed = {}
      BY <1>10, <2>1 DEF Disconnect
    <2>4. CASE th[t].want.subs = {}
      <3>1. th'[t] = Idle /\ \A u \in Threads \ {t} : th'[u] = th[u]
        BY <1>0, <1>10, <2>4, EndIdle DEF Disconnect
      <3>2. seg' = {} /\ served' = {}
        BY <1>10, <2>4 DEF Disconnect
      <3>3. clean => Rest'
        BY <2>1, <2>2, <2>3, <3>2 DEF Rest, Settled, For, Connected
      <3> QED  BY <1>10, <2>2, <3>1, <3>3, OneStep DEF Disconnect, At
    <2>5. CASE th[t].want.subs # {}
      <3>1. Becomes(t, "sendRest") /\ th'[t].want = th[t].want
        BY <1>0, <1>10, <2>5, GotoBecomes DEF Disconnect
      <3>2. clean => Goes(t)
        BY <2>1, <2>2, <2>3, <3>1 DEF Goes, Becomes, For
      <3> QED  BY <1>10, <2>2, <3>1, <3>2, OneStep DEF Disconnect, At, Becomes
    <2> QED  BY <2>4, <2>5
  <1>11. CASE SendRem(t)
    <2>1. clean => Steady(t) /\ (th[t].pc = "sendRest" \/ (th[t].pc = "sendRem" /\ th[t].keep))
      BY <1>11, OnlyOne DEF SendRem, At
    <2>2. UNCHANGED <<net, ifc, sub, dport, tier1, clean>> /\ Routed' = Routed /\ DhcpSubnets' = DhcpSubnets
          /\ seg' = th[t].want.subs /\ served' = th[t].want.served
      BY <1>11, SameSets DEF SendRem, dbVars, Send
    <2>3. th'[t] = Idle /\ \A u \in Threads \ {t} : th'[u] = th[u]
      BY <1>0, <1>11, EndIdle DEF SendRem
    <2>4. clean => Connected(Routed)
      BY <2>1 DEF Connected
    <2>5. clean => Rest'
      BY <2>1, <2>2, <2>4 DEF Rest, Settled, For, Connected
    <2> QED  BY <1>11, <2>2, <2>3, <2>5, OneStep DEF SendRem, At
  <1>12. CASE RemoveFails(t)
    <2>1. th'[t] = Idle /\ \A u \in Threads \ {t} : th'[u] = th[u]
      BY <1>0, <1>12, EndIdle DEF RemoveFails
    <2> QED  BY <1>12, <2>1, OneStep DEF RemoveFails
  <1> QED  BY <1>1, <1>2, <1>3, <1>4, <1>5, <1>6, <1>7, <1>8, <1>9, <1>10, <1>11, <1>12 DEF Interfaces

\* The begin, and the steps.
LEMMA InitSteps == ASSUME PolicySegmentAssumption, Init PROVE Steps
  <1>1. Empty /\ net = "none"
    BY DEF Init, Empty, DhcpSubnets, Routed
  <1> QED  BY <1>1 DEF Init, Steps, Rest
LEMMA NextSteps == ASSUME PolicySegmentAssumption, SegInv, [Next]_vars PROVE Steps'
  <1>1. CASE Next
    BY <1>1, NetworksStep, EnableStep, DisableStep, InterfacesStep DEF Next
  <1>2. CASE UNCHANGED vars
    <2>1. UNCHANGED <<net, sub, ifc, dport, seg, served, tier1, th, clean>>
          /\ DhcpSubnets' = DhcpSubnets /\ Routed' = Routed
      BY <1>2, Same DEF vars
    <2>2. Rest => Rest'
      BY <2>1 DEF Rest, Empty, Settled, For, Connected
    <2>3. \A t \in Threads : Steady(t) => Steady(t)'
      BY <2>1 DEF Steady, AskedFor, DhcpSteady, IfcSteady, NetSteady, Empty, Settled, For, Connected
    <2> QED  BY <2>1, <2>2, <2>3 DEF SegInv, Steps
  <1> QED  BY <1>1, <1>2

\* At rest the segment is as the properties of the model have it.
LEMMA RestCurrent == ASSUME PolicySegmentAssumption, SegInv PROVE SegmentCurrent
  <1>1. SUFFICES ASSUME Quiet PROVE
          /\ Routed \subseteq seg /\ seg \subseteq DhcpSubnets \cup Routed
          /\ {tier1} \ {NoRouter} = {ifc[s] : s \in Routed}
          /\ served \subseteq DhcpSubnets /\ dport \subseteq DhcpSubnets
    BY DEF SegmentCurrent
  <1>2. Settled(DhcpSubnets) /\ dport \subseteq DhcpSubnets
    BY <1>1 DEF SegInv, Steps, Quiet, Rest
  <1>3. {tier1} \ {NoRouter} = {ifc[s] : s \in Routed}
    <2>1. CASE Routed = {}
      BY <1>2, <2>1 DEF Settled, Connected
    <2>2. CASE Routed # {}
      <3>1. \A s \in Routed : ifc[s] = tier1 /\ ifc[s] # NoRouter
        BY <1>2 DEF Settled, Connected, Routed
      <3> QED  BY <2>2, <3>1
    <2> QED  BY <2>1, <2>2
  <1> QED  BY <1>2, <1>3 DEF Settled, For

\* After requests that did not overlap, failed ones among them, the segment has a subnet for
\* each interface and for nothing but those and the subnets with DHCP, is connected to the
\* router of the interfaces and to none without one, and its DHCP configurations and the
\* addresses of the DHCP port are of subnets with DHCP: whatever failed on the way was
\* undone, in the database or at the backend.
THEOREM SegmentFollows == Spec => []SegmentCurrent
  <1>1. Init => SegInv
    BY PolicySegmentAssumption, InitIInv, InitSteps DEF SegInv
  <1>2. SegInv /\ [Next]_vars => SegInv'
    <2>1. SegInv => IInv
      BY DEF SegInv
    <2>2. SegInv' <=> IInv' /\ Steps'
      BY DEF SegInv
    <2> QED  BY <2>1, <2>2, PolicySegmentAssumption, NextKeeps, NextSteps
  <1>3. SegInv => SegmentCurrent
    BY PolicySegmentAssumption, RestCurrent
  <1> QED  BY <1>1, <1>2, <1>3, PTL DEF Spec
=============================================================================
