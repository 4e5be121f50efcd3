---------------------------- MODULE VPortsProofs ----------------------------
(***************************************************************************)
(* Proofs about VPorts: the static bindings (PortsServed), the groups of   *)
(* the vnics (PortsGrouped) and the exclude list (PortsExcluded).          *)
(*                                                                         *)
(* The inductive invariant is built in layers, each preserved by every     *)
(* step given the ones it names.                                           *)
(*   Base       types, where each request is, and who holds which lock;    *)
(*   Binding    (Base) every binding is its port's, and a port without one *)
(*              has a request on its way that will bind or delete it;      *)
(*   Rows       (Base) the port is as the request on it has read or left   *)
(*              it, and a vnic is one port's and of the device it is on;   *)
(*   Grouped    (Base, Rows) the backend has the groups that are due, or   *)
(*              those the holder of the lock of the device has yet to      *)
(*              change;                                                    *)
(*   Excluding  (Base, Rows) the machine is excluded as its ports ask, or  *)
(*              as the label of the holder of its lock says.               *)
(***************************************************************************)
EXTENDS VPorts, FiniteSetTheorems, TLAPS
-----------------------------------------------------------------------------
(* Types, labels and locks                                                 *)

Names     == Groups \cup {"spoofguard"}
AnyDevice == Devices \cup {NoDevice}
AnyVnic   == (AnyDevice \X Indices) \cup {NoVnic}
Port == [dev : AnyDevice, ip : Ips \cup {NoIp}, sec : BOOLEAN, groups : SUBSET Groups, vnic : AnyVnic,
         live : BOOLEAN]
Labels == {"idle", "lock", "bindCheck", "bind", "delRead", "plug", "addCount", "add", "removeCount",
           "remove", "db", "post", "groups", "unmap", "unbindRead", "unbind", "delVnic", "delDb"}
UpdateOps == {"plug", "attach", "detach", "secure", "unsecure", "regroup"}
Ops == {"none", "create", "delete"} \cup UpdateOps
Request == [pc : Labels, op : Ops, p : Ports \cup {NoPort}, arg : AnyDevice \cup Indices, orig : Port]

Types ==
  /\ db \in [Ports -> Port] /\ member \subseteq Names \X AnyVnic /\ excluded \subseteq AnyDevice
  /\ bind \subseteq Ports \X (Ips \cup {NoIp})
  /\ portLock \in [Ports -> Threads \cup {NoThread}] /\ deviceLock \in [Devices -> Threads \cup {NoThread}]
  /\ th \in [Threads -> Request] /\ off \subseteq AnyDevice \cup Ports
  /\ \A p \in Ports : Live(p) \/ db[p] = Absent

\* What a request is at work on, and at which of its labels.
Moving == {"attach", "detach"}
Changing == {"secure", "unsecure", "regroup"}
Asked(t) ==
  LET op == th[t].op  pc == th[t].pc  x == th[t].orig IN
  /\ pc = "idle" => th[t] = Idle
  /\ pc # "idle" => th[t].p \in Ports /\ x.live
  /\ op = "plug" => Compute(x) /\ th[t].arg \in Indices /\ x.vnic \in {NoVnic, <<x.dev, th[t].arg>>}
  /\ op = "attach" => th[t].arg \in Devices \ {x.dev}
  /\ op = "detach" => Compute(x)
  /\ op = "secure" => ~x.sec
  /\ op \in {"unsecure", "regroup"} => x.sec
  /\ pc = "lock" => Compute(x) /\ op \in UpdateOps \cup {"delete"}
  /\ pc = "plug" => op = "plug"
  /\ pc \in {"addCount", "add"} => op = "unsecure" \/ (op = "plug" /\ ~x.sec)
  /\ pc \in {"removeCount", "remove"} => op \in Moving \cup {"secure", "delete"} /\ ~x.sec
  /\ pc \in {"db", "post"} => op \in UpdateOps
  /\ pc = "groups" => op \in Changing
  /\ pc = "unmap" => op \in Moving
  /\ pc \in {"bindCheck", "bind"} => op \in {"create", "attach"}
  /\ pc \in {"delRead", "delVnic", "delDb"} => op = "delete"
  /\ pc \in {"unbindRead", "unbind"} => op \in Moving \cup {"delete"}
  /\ pc \in {"addCount", "add", "removeCount", "remove", "groups", "unmap"} =>
       Compute(x) /\ (op # "plug" => x.vnic # NoVnic)

\* The lock of the port is held during an update; that of the device it had from "lock" on.
Inside(t) == th[t].op # "create" /\ th[t].pc \notin {"idle", "lock", "delRead"}
Locks ==
  /\ \A t \in Threads : th[t].op \in UpdateOps => portLock[th[t].p] = t
  /\ \A t \in Threads : Inside(t) /\ Compute(th[t].orig) => deviceLock[th[t].orig.dev] = t
  /\ \A d \in Devices, t \in Threads : deviceLock[d] = t => Inside(t) /\ th[t].orig.dev = d
Base == Types /\ Locks /\ \A t \in Threads : Asked(t)

-----------------------------------------------------------------------------
(* The row of a port, and what the requests on it have read of it.         *)

\* A vnic is one port's.
OneVnic == \A p, q \in Ports : db[p].vnic # NoVnic /\ db[p].vnic = db[q].vnic => p = q
\* It is a vnic of the device of the port, except while a request moves the port.
Leaving(t) == th[t].op \in Moving /\ th[t].pc \in {"bindCheck", "bind", "post", "removeCount", "remove", "unmap"}
OnDevice(p) ==
  LET v == db[p].vnic IN
  v # NoVnic => /\ v \in Vnics
                /\ \/ db[p].dev = v[1] \/ v[1] \in off
                   \/ \E t \in Threads : th[t].p = p /\ Leaving(t) /\ th[t].orig.vnic = v
\* An update, and nobody else, changes the port: as it has read it, and then as it was asked.
Before(t) == th[t].pc \in {"lock", "plug", "db"}
Reads(t) ==
  LET x == th[t].orig
      y == db[th[t].p]
      z == IF Before(t) THEN x ELSE Updated(x, th[t].op, th[t].arg)
      w == IF th[t].op = "plug" /\ th[t].pc \notin {"lock", "plug"} THEN Plugged(t) ELSE x.vnic IN
  th[t].op \in UpdateOps =>
    /\ x.vnic # NoVnic => x.vnic \in Vnics /\ x.vnic[1] = x.dev
    /\ Live(th[t].p) =>
         /\ y.dev = z.dev /\ y.sec = z.sec /\ y.groups = z.groups
         /\ \/ y.vnic = w
            \/ y.vnic = NoVnic /\ (x.dev \in off \/ th[t].pc \in {"unbindRead", "unbind"})
\* A deletion of the port in the meantime has been noted.
Lives(t) ==
  /\ \/ th[t].op \in Changing /\ th[t].pc \in {"post", "addCount", "add", "removeCount", "remove", "groups"}
     \/ th[t].op = "plug" /\ th[t].pc \in {"addCount", "add", "db", "post"}
  /\ Compute(th[t].orig)
  => Live(th[t].p) \/ th[t].orig.dev \in off
\* The port of a deletion is as it was read.
Deletes(t) ==
  LET x == th[t].orig IN
  th[t].op = "delete" /\ th[t].pc \in {"removeCount", "remove", "delDb"} /\ Compute(x) /\ x.dev \notin off
    => db[th[t].p] = x /\ VnicOf(x) = x.vnic
Rows == /\ OneVnic /\ \A p \in Ports : OnDevice(p)
        /\ \A t \in Threads : Reads(t) /\ Lives(t) /\ Deletes(t)

-----------------------------------------------------------------------------
(* The groups of a vnic                                                    *)

NamesOf(x) == x.groups \cup (IF x.sec THEN {"spoofguard"} ELSE {})
DueIn(rows, v) == UNION {NamesOf(rows[p]) : p \in {q \in Ports : rows[q].vnic = v}}
Due(v) == DueIn(db, v)
\* Between the change of the port and that of the groups the vnic has the groups of before.
Pending(t) ==
  \/ Leaving(t)
  \/ th[t].op \in Changing /\ th[t].pc \in {"post", "addCount", "add", "removeCount", "remove", "groups"}
  \/ th[t].op = "delete" /\ th[t].pc \in {"removeCount", "remove", "delDb"}
Has(t) ==
  LET x == th[t].orig  y == Updated(x, th[t].op, th[t].arg) IN
  IF th[t].pc \in {"bindCheck", "bind", "post"} THEN NamesOf(x)
  ELSE IF th[t].op \in Changing THEN x.groups \cup (IF y.sec THEN {"spoofguard"} ELSE {}) ELSE {}
Shows(d, v) ==
  IF deviceLock[d] # NoThread /\ Pending(deviceLock[d]) /\ th[deviceLock[d]].orig.vnic = v
  THEN Has(deviceLock[d]) ELSE Due(v)
Right(d, k, g) == <<g, <<d, k>>>> \in member <=> g \in Shows(d, <<d, k>>)
\* The vnic of a port that is being moved is no other port's.
Left == \A t \in Threads, q \in Ports :
          Leaving(t) /\ th[t].orig.dev \notin off /\ db[q].vnic # NoVnic /\ db[q].vnic = th[t].orig.vnic => q = th[t].p
Grouped == Left /\ \A d \in Devices \ off, k \in Indices, g \in Names : Right(d, k, g)

-----------------------------------------------------------------------------
(* The exclude list                                                        *)

\* The unsecured ports of a machine that have one of its vnics.
Mine(y, d) == y.live /\ y.dev = d /\ y.vnic \in {d} \X Indices /\ ~y.sec
OwnIn(rows, d) == {p \in Ports : Mine(rows[p], d)}
Own(d) == OwnIn(db, d)
\* What a request r that holds the lock of the machine knows: is it in the list, and who are its ports?
Fits(listed, own, r) ==
  LET others == own \ {r.p} # {} IN
  /\ r.op = "delete" /\ r.pc = "removeCount" => listed /\ r.p \in own
  /\ r.op = "delete" /\ r.pc = "remove" => own = {r.p}
  /\ r.op = "delete" /\ r.pc = "delDb" => (listed <=> others)
  /\ /\ r.op \in Moving \cup {"secure"} /\ ~r.orig.sec /\ r.orig.vnic # NoVnic
     /\ r.pc \in {"bindCheck", "bind", "post", "removeCount"}
     => listed
  /\ r.op \in Moving \cup {"secure"} /\ r.pc = "remove" => own = {}
  /\ (r.op = "unsecure" /\ r.orig.vnic # NoVnic /\ r.pc = "post") \/ r.pc = "addCount"
       => r.p \in own /\ (others => listed)
  /\ r.pc = "add" => r.p \in own
  /\ \/ r.pc \in {"plug", "groups", "db", "unmap", "unbindRead", "unbind", "delVnic"}
     \/ /\ r.pc \in {"bindCheck", "bind", "post"}
        /\ r.op \in {"plug", "regroup"} \/ r.orig.vnic = NoVnic \/ (r.op \in Moving /\ r.orig.sec)
     => (listed <=> own # {})
Excludes(d) == IF deviceLock[d] = NoThread THEN d \in excluded <=> Own(d) # {}
               ELSE Fits(d \in excluded, Own(d), th[deviceLock[d]])
Excluding == \A d \in Devices \ off : Excludes(d)

-----------------------------------------------------------------------------
(* Static bindings                                                         *)

\* The address of a port does not change, and is no other port's.
SameIp(t) == th[t].pc # "idle" /\ Live(th[t].p) => th[t].orig.ip = db[th[t].p].ip
Binds(t) == \/ th[t].pc \in {"bindCheck", "bind"}
            \/ th[t].op = "delete" /\ th[t].pc \in {"delRead", "lock", "delVnic", "removeCount", "remove", "delDb"}
Binding ==
  /\ \A t \in Threads : SameIp(t)
  /\ \A b \in bind : Live(b[1]) => b[2] = db[b[1]].ip
  /\ \A p, q \in Ports : Live(p) /\ Live(q) /\ db[p].ip = db[q].ip => p = q
  /\ \A p \in Ports : Live(p) /\ Compute(db[p]) /\ p \notin off =>
       Bound(p) # {} \/ \E t \in Threads : th[t].p = p /\ Binds(t)

-----------------------------------------------------------------------------
(* Steps of a request: types and locks                                     *)

\* The vnic a request computes, the groups of one, and a port that has been updated.
LEMMA VnicType == ASSUME NEW x \in Port PROVE VnicOf(x) \in AnyVnic
  BY DEF VnicOf, Port, AnyVnic
LEMMA MembersType == ASSUME NEW x \in Port, NEW v \in AnyVnic PROVE MembersOf(x, v) \subseteq Names \X AnyVnic
  BY DEF MembersOf, Port, Names
LEMMA UpdatedType ==
  ASSUME NEW x \in Port, NEW op \in Ops, NEW arg, op = "attach" => arg \in Devices
  PROVE  /\ Updated(x, op, arg) \in Port /\ Updated(x, op, arg).live = x.live
         /\ Updated(x, op, arg).vnic = x.vnic /\ Updated(x, op, arg).ip = x.ip
         /\ op \notin Moving => Updated(x, op, arg).dev = x.dev
         /\ op \in Moving => Updated(x, op, arg).sec = x.sec /\ Updated(x, op, arg).groups = x.groups
         /\ op = "plug" => Updated(x, op, arg) = x
  BY DEF Updated, Port, AnyDevice, Groups, Ops, UpdateOps, Moving

\* What a step leaves of the others.
Alone(t) == th' \in [Threads -> Request] /\ \A u \in Threads \ {t} : th'[u] = th[u]
OthersAsked(t) == \A u \in Threads \ {t} : Asked(u)'
LEMMA AloneAsked == ASSUME Base, NEW t \in Threads, Alone(t) PROVE OthersAsked(t)
  BY DEF Base, Alone, OthersAsked, Asked

\* A request goes on, under the locks that it holds.
Goes(t, label) == Alone(t) /\ th'[t] = [th[t] EXCEPT !.pc = label] /\ Locks'
LEMMA GotoGoes ==
  ASSUME Base, NEW t \in Threads, NEW label \in Labels \ {"idle", "lock", "delRead"}, Goto(t, label),
         th[t].pc \notin {"idle", "lock", "delRead"}, UNCHANGED lockVars
  PROVE  Goes(t, label)
  <1>1. Alone(t) /\ th'[t] = [th[t] EXCEPT !.pc = label]
    BY DEF Goto, Base, Types, Request, Alone
  <1>2. th'[t].op = th[t].op /\ th'[t].p = th[t].p /\ th'[t].orig = th[t].orig /\ th'[t].pc = label
    BY <1>1 DEF Base, Types, Request
  <1>3. portLock' = portLock /\ deviceLock' = deviceLock
    BY DEF lockVars
  <1>4. \A u \in Threads : /\ th'[u].op = th[u].op /\ th'[u].p = th[u].p /\ th'[u].orig = th[u].orig
                           /\ Inside(u)' <=> Inside(u)
    BY <1>1, <1>2 DEF Alone, Inside
  <1>5. Locks'
    BY <1>3, <1>4 DEF Base, Locks
  <1> QED  BY <1>1, <1>5 DEF Goes

\* A request ends and releases its locks.
Ends(t) == Alone(t) /\ th'[t] = Idle /\ Locks'
           /\ portLock' \in [Ports -> Threads \cup {NoThread}] /\ deviceLock' \in [Devices -> Threads \cup {NoThread}]
           /\ \A d \in Devices : deviceLock'[d] = IF deviceLock[d] = t THEN NoThread ELSE deviceLock[d]
LEMMA EndEnds == ASSUME VPortsAssumption, Base, NEW t \in Threads, End(t) PROVE Ends(t)
  <1>1. Idle \in Request
    BY DEF Idle, Absent, Request, Labels, Ops, Port, AnyDevice, AnyVnic
  <1>2. Alone(t) /\ th'[t] = Idle
    BY <1>1 DEF End, Base, Types, Alone
  <1>3. /\ \A p \in Ports : portLock'[p] = IF portLock[p] = t THEN NoThread ELSE portLock[p]
        /\ \A d \in Devices : deviceLock'[d] = IF deviceLock[d] = t THEN NoThread ELSE deviceLock[d]
        /\ portLock' \in [Ports -> Threads \cup {NoThread}] /\ deviceLock' \in [Devices -> Threads \cup {NoThread}]
    BY DEF End, Base, Types
  <1>4. ASSUME NEW u \in Threads, th'[u].op \in UpdateOps PROVE portLock'[th'[u].p] = u
    <2>1. u # t
      BY <1>2, <1>4 DEF Idle, UpdateOps
    <2>2. th'[u] = th[u] /\ th[u].p \in Ports
      BY <1>2, <1>4, <2>1 DEF Alone, Base, Asked, Idle, UpdateOps
    <2> QED  BY <1>3, <1>4, <2>1, <2>2 DEF Base, Locks
  <1>5. ASSUME NEW u \in Threads, Inside(u)', Compute(th'[u].orig) PROVE deviceLock'[th'[u].orig.dev] = u
    <2>1. u # t
      BY <1>2, <1>5 DEF Idle, Inside
    <2>2. th'[u] = th[u] /\ th[u].orig.dev \in Devices
      BY <1>2, <1>5, <2>1 DEF Alone, Base, Types, Request, Port, Compute, AnyDevice
    <2> QED  BY <1>3, <1>5, <2>1, <2>2 DEF Base, Locks, Inside
  <1>6. ASSUME NEW d \in Devices, NEW u \in Threads, deviceLock'[d] = u PROVE (Inside(u) /\ th[u].orig.dev = d)'
    <2>1. u # t /\ deviceLock[d] = u
      BY <1>3, <1>6 DEF VPortsAssumption
    <2>2. th'[u] = th[u]
      BY <1>2, <2>1 DEF Alone
    <2> QED  BY <2>1, <2>2 DEF Base, Locks, Inside
  <1>7. Locks'
    BY <1>4, <1>5, <1>6 DEF Locks, Compute
  <1> QED  BY <1>2, <1>3, <1>7 DEF Ends

\* The variables other than the locks and the requests.
Data ==
  /\ db \in [Ports -> Port] /\ member \subseteq Names \X AnyVnic /\ excluded \subseteq AnyDevice
  /\ bind \subseteq Ports \X (Ips \cup {NoIp}) /\ off \subseteq AnyDevice \cup Ports
  /\ \A p \in Ports : Live(p) \/ db[p] = Absent
LEMMA EndBase == ASSUME VPortsAssumption, Base, NEW t \in Threads, End(t), Data' PROVE Base'
  <1>1. Ends(t)
    BY EndEnds
  <1>2. Asked(t)'
    BY <1>1 DEF Ends, Asked, Idle, UpdateOps, Moving, Changing
  <1>3. OthersAsked(t)
    BY <1>1, AloneAsked DEF Ends
  <1> QED  BY <1>1, <1>2, <1>3 DEF Ends, Alone, Base, Types, Data, OthersAsked
LEMMA GotoBase ==
  ASSUME Base, NEW t \in Threads, NEW label \in Labels \ {"idle", "lock", "delRead"}, Goto(t, label),
         th[t].pc \notin {"idle", "lock", "delRead"}, UNCHANGED lockVars, Data',
         Goes(t, label) => Asked(t)'
  PROVE  Base'
  <1>1. Goes(t, label)
    BY GotoGoes
  <1>2. OthersAsked(t)
    BY <1>1, AloneAsked DEF Goes
  <1> QED  BY <1>1, <1>2 DEF Goes, Alone, Base, Types, Data, OthersAsked, lockVars

\* A request that begins, or begins again as a deletion.
LEMMA AnewAlone ==
  ASSUME Base, NEW t \in Threads, NEW q \in Request, th' = [th EXCEPT ![t] = q]
  PROVE  Alone(t) /\ th'[t] = q /\ OthersAsked(t)
  <1>1. Alone(t) /\ th'[t] = q
    BY DEF Base, Types, Alone
  <1> QED  BY <1>1, AloneAsked
LEMMA AnewBase ==
  ASSUME VPortsAssumption, Base, NEW t \in Threads, NEW q \in Request, th' = [th EXCEPT ![t] = q], Data', deviceLock' = deviceLock,
         portLock' = portLock \/ (q.p \in Ports /\ portLock[q.p] = NoThread /\ portLock' = [portLock EXCEPT ![q.p] = t]),
         q.op \in UpdateOps => q.p \in Ports /\ portLock' = [portLock EXCEPT ![q.p] = t],
         Asked(t)',
         Inside(t)' => ~Compute(q.orig), ~Inside(t) \/ ~Compute(th[t].orig)
  PROVE  Base'
  <1>1. Alone(t) /\ th'[t] = q /\ OthersAsked(t)
    BY AnewAlone
  <1>2. portLock' \in [Ports -> Threads \cup {NoThread}] /\ deviceLock' \in [Devices -> Threads \cup {NoThread}]
    BY DEF Base, Types
  <1>3. ASSUME NEW u \in Threads, th'[u].op \in UpdateOps PROVE portLock'[th'[u].p] = u
    <2>1. CASE u = t
      BY <1>1, <1>3, <2>1 DEF Base, Types
    <2>2. CASE u # t
      <3>1. th'[u] = th[u] /\ portLock[th[u].p] = u /\ u # NoThread
        BY <1>1, <1>3, <2>2 DEF Alone, Base, Locks, VPortsAssumption
      <3>2. th[u].p \in Ports
        <4>1. Asked(u) /\ th[u].op # "none"
          BY <1>3, <3>1 DEF Base, UpdateOps
        <4> QED  BY <4>1 DEF Asked, Idle
      <3> QED  BY <3>1, <3>2 DEF Base, Types
    <2> QED  BY <2>1, <2>2
  <1>4. ASSUME NEW u \in Threads, Inside(u)', Compute(th'[u].orig) PROVE deviceLock'[th'[u].orig.dev] = u
    <2>1. u # t
      BY <1>1, <1>4
    <2> QED  BY <1>1, <1>4, <2>1 DEF Alone, Base, Locks, Inside
  <1>5. ASSUME NEW d \in Devices, NEW u \in Threads, deviceLock'[d] = u PROVE (Inside(u) /\ th[u].orig.dev = d)'
    <2>1. Inside(u) /\ th[u].orig.dev = d /\ NoDevice \notin Devices
      BY <1>5 DEF Base, Locks, VPortsAssumption
    <2>2. u # t
      BY <2>1 DEF Compute
    <2> QED  BY <1>1, <2>1, <2>2 DEF Alone, Inside
  <1>6. Locks'
    BY <1>3, <1>4, <1>5 DEF Locks, Compute
  <1> QED  BY <1>1, <1>2, <1>6 DEF Alone, Base, Types, Data, OthersAsked

\* A request takes the lock of the device.
LEMMA LockedBase ==
  ASSUME VPortsAssumption, Base, NEW t \in Threads, NEW label \in {"plug", "db", "delVnic"}, Locked(t, label),
         label = "plug" => th[t].op = "plug", label = "db" => th[t].op \in UpdateOps, label = "delVnic" => th[t].op = "delete"
  PROVE  Base' /\ Alone(t) /\ th'[t] = [th[t] EXCEPT !.pc = label]
  <1>1. th[t].pc = "lock" /\ Compute(th[t].orig)
    BY DEF Locked, At, Base, Asked
  <1>2. PICK d \in Devices : d = th[t].orig.dev
    BY <1>1 DEF Base, Types, Request, Port, Compute, AnyDevice
  <1>3. /\ deviceLock[d] = NoThread /\ deviceLock' = [deviceLock EXCEPT ![d] = t] /\ portLock' = portLock
        /\ th' = [th EXCEPT ![t].pc = label] /\ UNCHANGED <<db, member, excluded, bind, off>>
    BY <1>2 DEF Locked, Goto, backendVars
  <1>4. Alone(t) /\ th'[t] = [th[t] EXCEPT !.pc = label]
    BY <1>3 DEF Base, Types, Request, Alone, Labels
  <1>5. /\ th'[t].op = th[t].op /\ th'[t].p = th[t].p /\ th'[t].orig = th[t].orig /\ th'[t].pc = label
        /\ th'[t].arg = th[t].arg
    BY <1>4 DEF Base, Types, Request
  <1>6. /\ deviceLock' \in [Devices -> Threads \cup {NoThread}] /\ deviceLock'[d] = t
        /\ \A c \in Devices \ {d} : deviceLock'[c] = deviceLock[c]
    BY <1>3 DEF Base, Types
  <1>7. Inside(t)' /\ ~Inside(t) /\ th[t].op \in UpdateOps \cup {"delete"}
    BY <1>1, <1>5 DEF Inside, Base, Asked, UpdateOps
  <1>8. ASSUME NEW u \in Threads, th'[u].op \in UpdateOps PROVE portLock'[th'[u].p] = u
    BY <1>3, <1>4, <1>5, <1>8 DEF Alone, Base, Locks
  <1>9. ASSUME NEW u \in Threads, Inside(u)', Compute(th'[u].orig) PROVE deviceLock'[th'[u].orig.dev] = u
    <2>1. CASE u = t
      BY <1>2, <1>5, <1>6, <2>1
    <2>2. CASE u # t
      <3>1. th'[u] = th[u] /\ deviceLock[th[u].orig.dev] = u /\ th[u].orig.dev \in Devices
        BY <1>4, <1>9, <2>2 DEF Alone, Base, Locks, Inside, Types, Request, Port, Compute, AnyDevice
      <3>2. th[u].orig.dev # d
        BY <1>3, <3>1 DEF VPortsAssumption
      <3> QED  BY <1>6, <3>1, <3>2
    <2> QED  BY <2>1, <2>2
  <1>10. ASSUME NEW c \in Devices, NEW u \in Threads, deviceLock'[c] = u PROVE (Inside(u) /\ th[u].orig.dev = c)'
    <2>1. CASE c = d
      BY <1>2, <1>5, <1>6, <1>7, <1>10, <2>1
    <2>2. CASE c # d
      <3>1. deviceLock[c] = u
        BY <1>6, <1>10, <2>2
      <3>2. u # t /\ Inside(u) /\ th[u].orig.dev = c
        BY <1>7, <3>1 DEF Base, Locks
      <3> QED  BY <1>4, <3>2 DEF Alone, Inside
    <2> QED  BY <2>1, <2>2
  <1>11. Locks'
    BY <1>8, <1>9, <1>10 DEF Locks, Compute
  <1>12. Asked(t)'
    BY <1>1, <1>4, <1>5 DEF Base, Asked, UpdateOps, Moving, Changing
  <1>13. OthersAsked(t)
    BY <1>4, AloneAsked
  <1> QED  BY <1>3, <1>4, <1>6, <1>11, <1>12, <1>13 DEF Alone, Base, Types, OthersAsked, Live

\* The types and the locks, action by action.
DataVars == <<db, member, excluded, bind, off>>
LEMMA SameData == ASSUME Base, UNCHANGED DataVars PROVE Data'
  BY DEF Base, Types, Data, DataVars, Live
LEMMA BaseData == ASSUME Base PROVE Data
  BY DEF Base, Types, Data
LEMMA ThreadTypes ==
  ASSUME Base, NEW t \in Threads, th[t].pc # "idle"
  PROVE  /\ th[t] \in Request /\ th[t].p \in Ports /\ th[t].orig \in Port /\ th[t].orig.live /\ th[t].op \in Ops
         /\ VnicOf(th[t].orig) \in AnyVnic /\ MembersOf(th[t].orig, VnicOf(th[t].orig)) \subseteq Names \X AnyVnic
         /\ Asked(t)
  <1>1. th[t] \in Request /\ th[t].p \in Ports /\ th[t].orig \in Port /\ th[t].orig.live /\ th[t].op \in Ops /\ Asked(t)
    BY DEF Base, Types, Asked, Request
  <1> QED  BY <1>1, VnicType, MembersType

LEMMA CreateBase ==
  ASSUME VPortsAssumption, Base, NEW t \in Threads, NEW p \in Ports, NEW x \in NewPorts, Create(t, p, x) PROVE Base'
  <1>1. x \in Port /\ x.live
    <2>1. PICK d \in Devices \cup {NoDevice}, i \in Ips, s \in BOOLEAN :
            x = [dev |-> d, ip |-> i, sec |-> s, groups |-> IF s THEN {"sg"} ELSE {}, vnic |-> NoVnic, live |-> TRUE]
      BY DEF NewPorts
    <2> QED  BY <2>1 DEF Port, AnyDevice, AnyVnic, Groups
  <1>2. Data'
    BY <1>1 DEF Create, backendVars, Base, Types, Data, Live
  <1>3. th[t] = Idle /\ UNCHANGED lockVars
    BY DEF Create, MayStart
  <1>4. CASE Compute(x)
    <2>1. PICK q \in Request : q = [pc |-> "bindCheck", op |-> "create", p |-> p, arg |-> NoDevice, orig |-> x]
      BY <1>1 DEF Request, Labels, Ops, AnyDevice
    <2>2. th' = [th EXCEPT ![t] = q]
      BY <1>4, <2>1 DEF Create
    <2>3. th'[t] = q
      BY <2>2 DEF Base, Types
    <2>4. Asked(t)'
      BY <1>1, <2>1, <2>3 DEF Asked, UpdateOps, Moving, Changing
    <2>5. ~Inside(t) /\ ~Inside(t)' /\ q.op \notin UpdateOps
      BY <1>3, <2>1, <2>3 DEF Inside, Idle, UpdateOps
    <2> QED  BY <1>2, <1>3, <2>2, <2>4, <2>5, AnewBase DEF lockVars
  <1>5. CASE ~Compute(x)
    BY <1>2, <1>3, <1>5 DEF Create, lockVars, Base, Types, Data, Locks, Inside, Asked, Compute
  <1> QED  BY <1>4, <1>5

LEMMA StartUpdateBase ==
  ASSUME VPortsAssumption, Base, NEW t \in Threads, NEW p \in Ports, StartUpdate(t, p) PROVE Base'
  <1>1. db[p] \in Port /\ Live(p)
    BY DEF StartUpdate, Created, Base, Types
  <1>2. PICK x, u, q :
          /\ x \in Port /\ u \in Updates(x) /\ x = db[p] /\ q = [pc |-> LabelOf(x, "db"), op |-> u[1], p |-> p, arg |-> u[2], orig |-> x]
          /\ th' = [th EXCEPT ![t] = q]
    BY <1>1 DEF StartUpdate
  <1>3. /\ u[1] \in UpdateOps /\ u[2] \in AnyDevice \cup Indices
        /\ u[1] = "plug" => Compute(x) /\ u[2] \in Indices /\ x.vnic \in {NoVnic, <<x.dev, u[2]>>}
        /\ u[1] = "attach" => u[2] \in Devices \ {x.dev}
        /\ u[1] = "detach" => Compute(x)
        /\ u[1] = "secure" => ~x.sec
        /\ u[1] \in {"unsecure", "regroup"} => x.sec
    <2>1. CASE u[1] = "plug"
      BY <1>2, <2>1 DEF Updates, MayPlug, UpdateOps
    <2>2. CASE u[1] # "plug"
      BY <1>2, <2>2 DEF Updates, UpdateOps, AnyDevice
    <2> QED  BY <2>1, <2>2
  <1>4. q \in Request /\ q.pc = (IF Compute(x) THEN "lock" ELSE "db") /\ q.op = u[1] /\ q.p = p /\ q.arg = u[2] /\ q.orig = x
    BY <1>2, <1>3 DEF LabelOf, Request, Labels, Ops
  <1>5. th'[t] = q /\ th[t] = Idle
    BY <1>2 DEF StartUpdate, MayStart, Base, Types
  <1>6. Asked(t)'
    BY <1>1, <1>2, <1>3, <1>4, <1>5 DEF Asked, UpdateOps, Moving, Changing, Live
  <1>7. ~Inside(t) /\ (Inside(t)' => ~Compute(q.orig))
    BY <1>4, <1>5 DEF Inside, Idle
  <1>8. Data'
    BY SameData DEF StartUpdate, DataVars, backendVars
  <1>9. /\ deviceLock' = deviceLock /\ portLock[q.p] = NoThread /\ portLock' = [portLock EXCEPT ![q.p] = t]
    BY <1>4 DEF StartUpdate
  <1> QED  BY <1>2, <1>4, <1>6, <1>7, <1>8, <1>9, AnewBase

LEMMA DeleteOfBase ==
  ASSUME VPortsAssumption, Base, NEW t \in Threads, NEW p \in Ports, DeleteOf(t, p), Live(p), ~Inside(t),
         UNCHANGED <<db, backendVars, lockVars, off>>
  PROVE  Base' /\ Alone(t) /\ th'[t] = [pc |-> LabelOf(db[p], "delVnic"), op |-> "delete", p |-> p, arg |-> NoDevice, orig |-> db[p]]
  <1>1. PICK x, q :
          /\ x \in Port /\ x = db[p] /\ q = [pc |-> LabelOf(x, "delVnic"), op |-> "delete", p |-> p, arg |-> NoDevice, orig |-> x]
          /\ th' = [th EXCEPT ![t] = q]
    BY DEF DeleteOf, Base, Types
  <1>2. q \in Request /\ q.pc = (IF Compute(x) THEN "lock" ELSE "delVnic") /\ q.op = "delete" /\ q.p = p /\ q.orig = x
    BY <1>1 DEF LabelOf, Request, Labels, Ops, AnyDevice
  <1>3. Alone(t) /\ th'[t] = q
    BY <1>1, <1>2, AnewAlone
  <1>4. Asked(t)'
    BY <1>1, <1>2, <1>3 DEF Asked, UpdateOps, Moving, Changing, Live
  <1>5. (Inside(t)' => ~Compute(q.orig)) /\ q.op \notin UpdateOps
    BY <1>2, <1>3 DEF Inside, UpdateOps
  <1>6. Data'
    BY SameData DEF DataVars, backendVars
  <1>7. deviceLock' = deviceLock /\ portLock' = portLock
    BY DEF lockVars
  <1>8. Base'
    BY <1>1, <1>2, <1>4, <1>5, <1>6, <1>7, AnewBase
  <1> QED  BY <1>1, <1>3, <1>8

\* The labels of a step.
LEMMA CountBase ==
  ASSUME VPortsAssumption, Base, NEW t \in Threads, AddCount(t) \/ RemoveCount(t) PROVE Base'
  <1>1. PICK bound, label : /\ th[t].pc = IF label = "add" THEN "addCount" ELSE "removeCount"
                            /\ label \in {"add", "remove"} /\ Count(t, bound, label)
    BY DEF AddCount, RemoveCount, At
  <1>2. PICK l \in {label, After(t)} : Goto(t, l) /\ UNCHANGED <<db, backendVars, lockVars>>
    BY <1>1 DEF Count
  <1>3. Asked(t) /\ th[t] \in Request /\ th[t].orig \in Port
    BY <1>1, ThreadTypes
  <1>4. Data'
    <2>1. th[t].orig.dev \in AnyDevice
      BY <1>3 DEF Port
    <2> QED  BY <1>1, <1>2, <2>1, BaseData DEF Count, Data, backendVars, Live
  <1>5. l \in {"add", "remove", "db", "delDb", "unmap", "groups"}
    BY <1>1, <1>2 DEF After
  <1>6. Goes(t, l) => Asked(t)'
    BY <1>1, <1>2, <1>3 DEF Goes, Asked, After, UpdateOps, Moving, Changing, Request
  <1> QED  BY <1>1, <1>2, <1>4, <1>5, <1>6, GotoBase DEF Labels
LEMMA ListBase ==
  ASSUME VPortsAssumption, Base, NEW t \in Threads, Add(t) \/ Remove(t) PROVE Base'
  <1>1. th[t].pc \in {"add", "remove"} /\ Goto(t, After(t)) /\ UNCHANGED <<db, member, bind, lockVars>>
    BY DEF Add, Remove, List, At
  <1>2. Asked(t) /\ th[t] \in Request /\ th[t].orig \in Port
    BY <1>1, ThreadTypes
  <1>3. Data'
    <2>1. th[t].orig.dev \in AnyDevice
      BY <1>2 DEF Port
    <2>2. excluded' \subseteq excluded \cup {th[t].orig.dev} /\ off' \subseteq off \cup {th[t].orig.dev}
      BY DEF Add, Remove, List
    <2> QED  BY <1>1, <2>1, <2>2, BaseData DEF Data, Live
  <1>4. After(t) \in Labels \ {"idle", "lock", "delRead"}
    BY DEF After, Labels
  <1>5. Goes(t, After(t)) => Asked(t)'
    BY <1>1, <1>2 DEF Goes, Asked, After, UpdateOps, Moving, Changing, Request
  <1> QED  BY <1>1, <1>3, <1>4, <1>5, GotoBase

LEMMA BindBase ==
  ASSUME VPortsAssumption, Base, NEW t \in Threads, BindCheck(t) \/ Bind(t) \/ BindFails(t) PROVE Base'
  <1>1. th[t].pc \in {"bindCheck", "bind"} /\ UNCHANGED <<db, member, excluded>>
    BY DEF BindCheck, Bind, BindFails, At, backendVars
  <1>2. Asked(t) /\ th[t] \in Request /\ th[t].p \in Ports /\ th[t].orig \in Port
    BY <1>1, ThreadTypes
  <1>3. th[t].orig.ip \in Ips \cup {NoIp} /\ th[t].orig.dev \in AnyDevice
    BY <1>2 DEF Port
  <1>4. Data'
    <2>1. CASE BindCheck(t)
      BY <1>1, <2>1, BaseData DEF BindCheck, Data, backendVars, Live
    <2>2. CASE Bind(t)
      <3>1. off' \subseteq AnyDevice \cup Ports
        BY <2>2, BaseData DEF Bind, Data, Overlapping
      <3>2. bind' \subseteq Ports \X (Ips \cup {NoIp})
        BY <1>2, <1>3, <2>2, BaseData DEF Bind, Data
      <3> QED  BY <1>1, <3>1, <3>2, BaseData DEF Data, Live
    <2>3. CASE BindFails(t)
      BY <1>1, <1>2, <1>3, <2>3, BaseData DEF BindFails, Data, backendVars, Live
    <2> QED  BY <2>1, <2>2, <2>3
  <1>5. CASE End(t)
    BY <1>4, <1>5, EndBase
  <1>6. ASSUME NEW l \in {"bind", "post"}, Goto(t, l), UNCHANGED lockVars, l = "post" => th[t].op # "create" PROVE Base'
    <2>1. Goes(t, l) => Asked(t)'
      BY <1>1, <1>2, <1>6 DEF Goes, Asked, UpdateOps, Moving, Changing, Request
    <2> QED  BY <1>1, <1>4, <1>6, <2>1, GotoBase DEF Labels
  <1>7. CASE BindCheck(t) \/ Bind(t)
    BY <1>5, <1>6, <1>7 DEF BindCheck, Bind, BindNext
  <1>8. CASE BindFails(t) /\ th[t].op = "create"
    <2>1. PICK q : q = [th[t] EXCEPT !.pc = "delRead", !.op = "delete"]
      OBVIOUS
    <2>2. q \in Request /\ q.pc = "delRead" /\ q.op = "delete" /\ q.p = th[t].p /\ q.orig = th[t].orig
      BY <1>2, <2>1 DEF Request, Labels, Ops
    <2>3. th' = [th EXCEPT ![t] = q] /\ UNCHANGED lockVars
      BY <1>8, <2>1 DEF BindFails, Base, Types
    <2>4. th'[t] = q
      BY <2>2, <2>3, AnewAlone
    <2>5. Asked(t)'
      BY <1>1, <1>2, <2>2, <2>4 DEF Asked, UpdateOps, Moving, Changing
    <2>6. ~Inside(t) /\ ~Inside(t)' /\ q.op \notin UpdateOps
      BY <1>8, <2>2, <2>4 DEF Inside, UpdateOps
    <2> QED  BY <1>4, <2>2, <2>3, <2>5, <2>6, AnewBase DEF lockVars
  <1> QED  BY <1>5, <1>7, <1>8 DEF BindFails

LEMMA UnbindBase ==
  ASSUME VPortsAssumption, Base, NEW t \in Threads, UnbindRead(t) \/ Unbind(t) PROVE Base'
  <1>1. th[t].pc \in {"unbindRead", "unbind"} /\ UNCHANGED <<db, member, excluded>>
    BY DEF UnbindRead, Unbind, At, backendVars
  <1>2. Asked(t) /\ th[t] \in Request /\ th[t].p \in Ports
    BY <1>1, ThreadTypes
  <1>3. Data'
    BY <1>1, <1>2, BaseData DEF UnbindRead, Unbind, Data, backendVars, Live, Bound
  <1>4. CASE End(t)
    BY <1>3, <1>4, EndBase
  <1>5. CASE ~End(t)
    <2>1. Goto(t, "unbind") /\ UNCHANGED lockVars
      BY <1>5 DEF UnbindRead, Unbind
    <2>2. Goes(t, "unbind") => Asked(t)'
      BY <1>1, <1>2 DEF Goes, Asked, UpdateOps, Moving, Changing, Request
    <2> QED  BY <1>1, <1>3, <2>1, <2>2, GotoBase DEF Labels
  <1> QED  BY <1>4, <1>5

\* The vnic is mapped: the rows stay those of the same ports.
LEMMA MapData ==
  ASSUME Base, NEW t \in Threads, th[t].pc = "plug", Map(t)
  PROVE  /\ db' \in [Ports -> Port] /\ \A q \in Ports : Live(q)' \/ db'[q] = Absent
         /\ \A q \in Ports : /\ db'[q].live = db[q].live /\ db'[q].ip = db[q].ip /\ db'[q].dev = db[q].dev
  <1>1. CASE Known(t)
    BY <1>1, BaseData DEF Map, Data, Live
  <1>2. CASE ~Known(t)
    <2>1. PICK p, v, taken : /\ p = th[t].p /\ v = Plugged(t) /\ taken = Taken(t) /\ Live(p)
                             /\ db' = [q \in Ports |-> IF q = p THEN [db[q] EXCEPT !.vnic = v]
                                                       ELSE IF q \in taken THEN [db[q] EXCEPT !.vnic = NoVnic] ELSE db[q]]
      BY <1>2 DEF Map
    <2>2. v \in AnyVnic /\ \A q \in taken : Live(q)
      BY <2>1, ThreadTypes DEF Plugged, Taken, Asked, AnyVnic, Port
    <2>3. ASSUME NEW q \in Ports
          PROVE  /\ db'[q] \in Port /\ (Live(q)' \/ db'[q] = Absent)
                 /\ db'[q].live = db[q].live /\ db'[q].ip = db[q].ip /\ db'[q].dev = db[q].dev
      <3>1. db[q] \in Port /\ (Live(q) \/ db[q] = Absent) /\ NoVnic \in AnyVnic
        BY BaseData DEF Data, AnyVnic
      <3>2. CASE q = p
        BY <2>1, <2>2, <3>1, <3>2 DEF Live, Port
      <3>3. CASE q # p /\ q \in taken
        BY <2>1, <2>2, <3>1, <3>3 DEF Live, Port
      <3>4. CASE q # p /\ q \notin taken
        BY <2>1, <3>1, <3>4 DEF Live
      <3> QED  BY <3>2, <3>3, <3>4
    <2> QED  BY <2>1, <2>3
  <1> QED  BY <1>1, <1>2

LEMMA PlugBase == ASSUME VPortsAssumption, Base, NEW t \in Threads, Plug(t) \/ PlugFails(t) \/ PlugLost(t) PROVE Base'
  <1>1. th[t].pc = "plug" /\ Asked(t) /\ th[t] \in Request /\ th[t].p \in Ports /\ th[t].orig \in Port
    BY ThreadTypes DEF Plug, PlugFails, PlugLost, At
  <1>2. PICK x, v : x = th[t].orig /\ v = Plugged(t)
    OBVIOUS
  <1>3. v \in AnyVnic /\ x.dev \in Devices
    BY <1>1, <1>2 DEF Asked, AnyVnic, AnyDevice, Port, Compute, Plugged
  <1>4. ASSUME Plug(t) \/ PlugFails(t) PROVE Data'
    <2>1. Map(t) /\ UNCHANGED <<excluded, bind>> /\ member' \subseteq member \cup MembersOf(x, v)
      BY <1>2, <1>4 DEF Plug, PlugFails
    <2>2. off' \subseteq off \cup {x.dev, db[th[t].p].dev}
      BY <1>2, <1>4 DEF Plug, PlugFails, Stale
    <2>3. {x.dev, db[th[t].p].dev} \subseteq AnyDevice /\ MembersOf(x, v) \subseteq Names \X AnyVnic
      BY <1>1, <1>2, <1>3, MembersType, BaseData DEF Data, Port
    <2> QED  BY <1>1, <2>1, <2>2, <2>3, MapData, BaseData DEF Data
  <1>5. CASE Plug(t)
    <2>1. PICK l \in {"db", "addCount"} : l = (IF x.sec THEN "db" ELSE "addCount") /\ Goto(t, l) /\ UNCHANGED lockVars
      BY <1>2, <1>5 DEF Plug
    <2>2. Goes(t, l) => Asked(t)'
      BY <1>1, <1>2, <2>1 DEF Goes, Asked, UpdateOps, Moving, Changing, Request
    <2> QED  BY <1>1, <1>4, <1>5, <2>1, <2>2, GotoBase DEF Labels
  <1>6. CASE PlugFails(t)
    BY <1>4, <1>6, EndBase DEF PlugFails
  <1>7. CASE PlugLost(t)
    BY <1>7, SameData, EndBase DEF PlugLost, DataVars, backendVars
  <1> QED  BY <1>5, <1>6, <1>7

LEMMA UpdateDbBase == ASSUME VPortsAssumption, Base, NEW t \in Threads, UpdateDb(t) PROVE Base'
  <1>1. th[t].pc = "db" /\ Asked(t) /\ th[t] \in Request /\ th[t].p \in Ports /\ th[t].orig \in Port
    BY ThreadTypes DEF UpdateDb, At
  <1>2. PICK p : p = th[t].p
    OBVIOUS
  <1>3. CASE Live(p)
    <2>1. PICK y : y = Updated(db[p], th[t].op, th[t].arg)
      OBVIOUS
    <2>2. y \in Port /\ y.live
      <3>1. db[p] \in Port /\ db[p].live /\ (th[t].op = "attach" => th[t].arg \in Devices) /\ th[t].op \in Ops
        BY <1>1, <1>2, <1>3, BaseData DEF Data, Live, Asked, Request
      <3> QED  BY <2>1, <3>1, UpdatedType
    <2>3. db' = [db EXCEPT ![p] = y] /\ UNCHANGED <<lockVars, member, excluded, bind, off>>
      BY <1>2, <1>3, <2>1 DEF UpdateDb, backendVars
    <2>4. Data'
      BY <2>2, <2>3, BaseData DEF Data, Live
    <2>5. PICK l \in {"bindCheck", "post"} : l = (IF th[t].op = "attach" THEN "bindCheck" ELSE "post") /\ Goto(t, l)
      BY <1>2, <1>3 DEF UpdateDb
    <2>6. Goes(t, l) => Asked(t)'
      BY <1>1, <2>5 DEF Goes, Asked, UpdateOps, Moving, Changing, Request
    <2> QED  BY <1>1, <2>3, <2>4, <2>5, <2>6, GotoBase DEF Labels
  <1>4. CASE ~Live(p)
    <2>1. End(t) /\ UNCHANGED DataVars
      BY <1>2, <1>4 DEF UpdateDb, DataVars, backendVars
    <2> QED  BY <2>1, SameData, EndBase
  <1> QED  BY <1>3, <1>4

\* What leaves, and what is left where the backend refused.
LEMMA LeaveDoes ==
  ASSUME NEW ms, NEW d, Leave(ms, d)
  PROVE  /\ off \subseteq off' /\ off' \subseteq off \cup {d} /\ member' \subseteq member /\ member \ ms \subseteq member'
         /\ d \notin off' => member' = member \ ms
  BY DEF Leave

LEMMA PostBase == ASSUME VPortsAssumption, Base, NEW t \in Threads, Post(t) \/ PostFails(t) PROVE Base'
  <1>1. th[t].pc = "post" /\ Asked(t) /\ th[t] \in Request /\ th[t].p \in Ports /\ th[t].orig \in Port
        /\ VnicOf(th[t].orig) \in AnyVnic /\ UNCHANGED <<db, excluded, bind>>
    BY ThreadTypes DEF Post, PostFails, At, backendVars
  <1>2. Data'
    <2>1. member' \subseteq member \cup {<<"spoofguard", VnicOf(th[t].orig)>>} /\ off' \subseteq off \cup {th[t].orig.dev}
      <3>1. \A ms : Leave(ms, th[t].orig.dev) => member' \subseteq member /\ off' \subseteq off \cup {th[t].orig.dev}
        BY LeaveDoes
      <3> QED  BY <3>1 DEF Post, PostFails, backendVars
    <2>2. th[t].orig.dev \in AnyDevice
      BY <1>1 DEF Port
    <2> QED  BY <1>1, <2>1, <2>2, BaseData DEF Data, Live, Names
  <1>3. CASE End(t)
    BY <1>2, <1>3, EndBase
  <1>4. CASE ~End(t)
    <2>0. Post(t)
      BY <1>4 DEF PostFails
    <2>1. /\ th[t].orig.vnic # NoVnic /\ Compute(th[t].orig) /\ th[t].op # "plug" /\ UNCHANGED lockVars
          /\ Goto(t, CASE th[t].op \in {"attach", "detach"} -> IF th[t].orig.sec THEN "unmap" ELSE "removeCount"
                       [] th[t].op = "secure" -> "removeCount"
                       [] th[t].op = "unsecure" -> "addCount"
                       [] OTHER -> "groups")
      BY <1>4, <2>0 DEF Post
    <2>2. PICK l \in {"unmap", "removeCount", "addCount", "groups"} :
            /\ l = CASE th[t].op \in {"attach", "detach"} -> IF th[t].orig.sec THEN "unmap" ELSE "removeCount"
                     [] th[t].op = "secure" -> "removeCount"
                     [] th[t].op = "unsecure" -> "addCount"
                     [] OTHER -> "groups"
            /\ Goto(t, l)
      BY <2>1
    <2>3. Goes(t, l) => Asked(t)'
      <3>1. th[t].op \in UpdateOps
        BY <1>1 DEF Asked
      <3> QED  BY <1>1, <2>1, <2>2, <3>1 DEF Goes, Asked, UpdateOps, Moving, Changing, Request
    <2> QED  BY <1>1, <1>2, <2>1, <2>2, <2>3, GotoBase DEF Labels
  <1> QED  BY <1>3, <1>4

LEMMA RegroupBase == ASSUME VPortsAssumption, Base, NEW t \in Threads, Regroup(t) \/ RegroupFails(t) PROVE Base'
  <1>1. th[t].pc = "groups" /\ Asked(t) /\ th[t] \in Request /\ th[t].p \in Ports /\ th[t].orig \in Port
        /\ VnicOf(th[t].orig) \in AnyVnic /\ UNCHANGED <<db, excluded, bind>> /\ End(t)
    BY ThreadTypes DEF Regroup, RegroupFails, At
  <1>2. PICK new : new = Updated(th[t].orig, th[t].op, th[t].arg).groups
    OBVIOUS
  <1>3. new \subseteq Names
    <2>1. Updated(th[t].orig, th[t].op, th[t].arg) \in Port
      BY <1>1, UpdatedType DEF Asked, Request
    <2> QED  BY <1>2, <2>1 DEF Port, Names
  <1>4. member' \subseteq Names \X AnyVnic
    <2>1. member' \subseteq member \cup {<<g, VnicOf(th[t].orig)>> : g \in new \ th[t].orig.groups}
      BY <1>2 DEF Regroup, RegroupFails
    <2> QED  BY <1>1, <1>3, <2>1, BaseData DEF Data
  <1>5. off' \subseteq AnyDevice \cup Ports
    <2>1. off' \subseteq off \cup {th[t].orig.dev}
      BY DEF Regroup, RegroupFails
    <2> QED  BY <1>1, <2>1, BaseData DEF Data, Port
  <1>6. Data'
    BY <1>1, <1>4, <1>5, BaseData DEF Data, Live
  <1> QED  BY <1>1, <1>6, EndBase

LEMMA UnmapBase == ASSUME VPortsAssumption, Base, NEW t \in Threads, Unmap(t) PROVE Base'
  <1>1. th[t].pc = "unmap" /\ Asked(t) /\ th[t] \in Request /\ Goto(t, "unbindRead") /\ UNCHANGED lockVars
    BY ThreadTypes DEF Unmap, At
  <1>2. PICK p \in Ports : p = th[t].p
    BY <1>1, ThreadTypes
  <1>3. Data'
    <2>1. db' = [db EXCEPT ![p].vnic = NoVnic] /\ UNCHANGED <<member, excluded, bind, off>>
      BY <1>2 DEF Unmap, backendVars
    <2>2. db' \in [Ports -> Port]
      BY <2>1, BaseData DEF Data, Port, AnyVnic
    <2>3. \A q \in Ports : Live(q)' \/ db'[q] = Absent
      <3>1. \A x \in Port : x.vnic = NoVnic => [x EXCEPT !.vnic = NoVnic] = x
        BY DEF Port
      <3>2. db'[p] = [db[p] EXCEPT !.vnic = NoVnic] /\ \A q \in Ports \ {p} : db'[q] = db[q]
        BY <2>1, BaseData DEF Data
      <3>3. db[p] \in Port /\ (Live(p) \/ db[p] = Absent) /\ \A q \in Ports : Live(q) \/ db[q] = Absent
        BY BaseData DEF Data
      <3>4. Live(p)' \/ db'[p] = Absent
        BY <3>1, <3>2, <3>3 DEF Live, Port, Absent
      <3> QED  BY <3>2, <3>3, <3>4 DEF Live
    <2> QED  BY <2>1, <2>2, <2>3, BaseData DEF Data
  <1>4. Goes(t, "unbindRead") => Asked(t)'
    BY <1>1 DEF Goes, Asked, UpdateOps, Moving, Changing, Request
  <1> QED  BY <1>1, <1>3, <1>4, GotoBase DEF Labels

LEMMA DeleteVnicBase == ASSUME VPortsAssumption, Base, NEW t \in Threads, DeleteVnic(t) PROVE Base'
  <1>1. th[t].pc = "delVnic" /\ Asked(t) /\ th[t] \in Request /\ th[t].p \in Ports /\ th[t].orig \in Port
    BY ThreadTypes DEF DeleteVnic, At
  <1>2. UNCHANGED <<db, excluded, bind, lockVars>> /\ member' \subseteq member
    BY DEF DeleteVnic
  <1>3. Data'
    <2>1. off' \subseteq off \cup {th[t].orig.dev, db[th[t].p].dev}
      BY DEF DeleteVnic, Stale
    <2>2. {th[t].orig.dev, db[th[t].p].dev} \subseteq AnyDevice
      BY <1>1, BaseData DEF Data, Port
    <2> QED  BY <1>2, <2>1, <2>2, BaseData DEF Data, Live
  <1>4. PICK l \in {"removeCount", "delDb"} :
          /\ l = IF th[t].orig.vnic # NoVnic /\ ~th[t].orig.sec /\ Compute(th[t].orig) THEN "removeCount" ELSE "delDb"
          /\ Goto(t, l)
    BY DEF DeleteVnic
  <1>5. Goes(t, l) => Asked(t)'
    BY <1>1, <1>4 DEF Goes, Asked, UpdateOps, Moving, Changing, Request
  <1> QED  BY <1>1, <1>2, <1>3, <1>4, <1>5, GotoBase DEF Labels

LEMMA DeleteDbBase == ASSUME VPortsAssumption, Base, NEW t \in Threads, DeleteDb(t) PROVE Base'
  <1>1. th[t].pc = "delDb" /\ Asked(t) /\ th[t] \in Request /\ th[t].orig \in Port
    BY ThreadTypes DEF DeleteDb, At
  <1>2. PICK p \in Ports : p = th[t].p
    BY <1>1, ThreadTypes
  <1>3. Data'
    <2>1. db' = [db EXCEPT ![p] = Absent] /\ UNCHANGED <<member, excluded, bind>>
      BY <1>2 DEF DeleteDb, backendVars
    <2>2. Absent \in Port
      BY DEF Absent, Port, AnyDevice, AnyVnic
    <2>3. off' \subseteq off \cup {th[t].orig.dev, db[p].dev}
      BY <1>2 DEF DeleteDb, Stale
    <2>4. {th[t].orig.dev, db[p].dev} \subseteq AnyDevice
      BY <1>1, BaseData DEF Data, Port
    <2> QED  BY <2>1, <2>2, <2>3, <2>4, BaseData DEF Data, Live
  <1>4. CASE Live(p)
    <2>1. Goto(t, "unbindRead") /\ UNCHANGED lockVars
      BY <1>2, <1>4 DEF DeleteDb
    <2>2. Goes(t, "unbindRead") => Asked(t)'
      BY <1>1 DEF Goes, Asked, UpdateOps, Moving, Changing, Request
    <2> QED  BY <1>1, <1>3, <2>1, <2>2, GotoBase DEF Labels
  <1>5. CASE ~Live(p)
    BY <1>2, <1>3, <1>5, EndBase DEF DeleteDb
  <1> QED  BY <1>4, <1>5

LEMMA DeleteReadBase == ASSUME VPortsAssumption, Base, NEW t \in Threads, DeleteRead(t) PROVE Base'
  <1>1. th[t].pc = "delRead" /\ ~Inside(t) /\ th[t].p \in Ports
    BY ThreadTypes DEF DeleteRead, At, Inside
  <1>2. CASE Live(th[t].p)
    BY <1>1, <1>2, DeleteOfBase DEF DeleteRead
  <1>3. CASE ~Live(th[t].p)
    BY <1>3, EndBase, SameData DEF DeleteRead, DataVars, backendVars
  <1> QED  BY <1>2, <1>3

LEMMA InitBase == ASSUME VPortsAssumption, Init PROVE Base
  <1>1. Idle \in Request /\ Absent \in Port
    BY DEF Idle, Absent, Request, Labels, Ops, Port, AnyDevice, AnyVnic
  <1>2. Types
    BY <1>1 DEF Init, Types
  <1>3. Locks
    BY DEF Init, Locks, Inside, Idle, UpdateOps, VPortsAssumption
  <1>4. \A t \in Threads : Asked(t)
    BY DEF Init, Asked, Idle, UpdateOps, Moving, Changing
  <1> QED  BY <1>2, <1>3, <1>4 DEF Base
LEMMA NextBase == ASSUME VPortsAssumption, Base, [Next]_vars PROVE Base'
  <1>1. ASSUME NEW t \in Threads, Work(t) PROVE Base'
    <2>1. ASSUME NEW p \in Ports, StartDelete(t, p) PROVE Base'
      <3>1. Live(p) /\ ~Inside(t)
        BY <2>1 DEF StartDelete, Created, MayStart, Inside, Idle
      <3> QED  BY <2>1, <3>1, DeleteOfBase DEF StartDelete
    <2>2. CASE UpdateLock(t) \/ DeleteLock(t)
      <3>1. Base /\ Asked(t) /\ th[t].pc = "lock"
        BY <2>2 DEF UpdateLock, DeleteLock, Locked, At, Base
      <3>2. th[t].op \in UpdateOps \cup {"delete"}
        BY <3>1 DEF Asked
      <3> QED  BY <2>2, <3>2, LockedBase DEF UpdateLock, DeleteLock
    <2> QED  BY <1>1, <2>1, <2>2, CreateBase, StartUpdateBase, CountBase, ListBase, BindBase, UnbindBase,
                PlugBase, UpdateDbBase, PostBase, RegroupBase, UnmapBase, DeleteReadBase, DeleteVnicBase,
                DeleteDbBase DEF Work
  <1>2. CASE UNCHANGED vars
    BY <1>2 DEF vars, backendVars, lockVars, Base, Types, Locks, Inside, Asked, Live, Compute
  <1> QED  BY <1>1, <1>2 DEF Next, Rest

\* The variables keep their types, a request works on a device it has read only under the lock of
\* the device ('port-device-<device>'), and an update of a port only under the lock of the port.
THEOREM PortsLocked == Spec => [](Types /\ Locks)
  <1>1. Init => Base
    BY VPortsAssumption, InitBase
  <1>2. Base /\ [Next]_vars => Base'
    BY VPortsAssumption, NextBase
  <1>3. Base => Types /\ Locks
    BY DEF Base
  <1> QED  BY <1>1, <1>2, <1>3, PTL DEF Spec

-----------------------------------------------------------------------------
(* Static bindings                                                         *)

\* A step that creates no port: what it binds is the address of its port, and a port that
\* loses its binding, or that gets a device, has a request on it that binds it.
KeepsIps == \A q \in Ports : Live(q)' => Live(q) /\ db'[q].ip = db[q].ip
StillOn(t) == \/ th'[t].pc = "idle"
              \/ th[t].pc # "idle" /\ th'[t].p = th[t].p /\ th'[t].orig.ip = th[t].orig.ip
              \/ th'[t].p \in Ports /\ th'[t].orig = db[th'[t].p]
BindsOwn(t) == \A b \in bind' : b \in bind \/ (th[t].pc # "idle" /\ b = <<th[t].p, th[t].orig.ip>>)
StillServed(t) ==
  \A q \in Ports : Live(q)' /\ Compute(db'[q]) /\ q \notin off' =>
    \/ Bound(q)' # {}
    \/ th'[t].p = q /\ Binds(t)'
    \/ Compute(db[q]) /\ q \notin off /\ Bound(q) = {} /\ ~(th[t].p = q /\ Binds(t))
LEMMA BindingFrame ==
  ASSUME Base, Binding, NEW t \in Threads, Alone(t), KeepsIps, StillOn(t), BindsOwn(t), StillServed(t)
  PROVE  Binding'
  <1>1. ASSUME NEW u \in Threads PROVE SameIp(u)'
    <2>1. CASE u = t
      <3>1. ASSUME th'[t].pc # "idle", db'[th'[t].p].live PROVE th'[t].orig.ip = db'[th'[t].p].ip
        <4>1. CASE th[t].pc # "idle" /\ th'[t].p = th[t].p /\ th'[t].orig.ip = th[t].orig.ip
          <5>1. th[t].p \in Ports /\ SameIp(t)
            BY <4>1, ThreadTypes DEF Binding
          <5> QED  BY <3>1, <4>1, <5>1 DEF KeepsIps, SameIp, Live
        <4>2. CASE th'[t].p \in Ports /\ th'[t].orig = db[th'[t].p]
          BY <3>1, <4>2 DEF KeepsIps, Live
        <4> QED  BY <3>1, <4>1, <4>2 DEF StillOn
      <3> QED  BY <2>1, <3>1 DEF SameIp, Live
    <2>2. CASE u # t
      <3>1. th'[u] = th[u] /\ SameIp(u)
        BY <2>2 DEF Alone, Binding
      <3>2. ASSUME th[u].pc # "idle", db'[th[u].p].live PROVE th[u].orig.ip = db'[th[u].p].ip
        <4>1. th[u].p \in Ports
          BY <3>2, ThreadTypes
        <4> QED  BY <3>1, <3>2, <4>1 DEF KeepsIps, SameIp, Live
      <3> QED  BY <3>1, <3>2 DEF SameIp, Live
    <2> QED  BY <2>1, <2>2
  <1>2. ASSUME NEW b \in bind', db'[b[1]].live PROVE b[2] = db'[b[1]].ip
    <2>1. CASE b \in bind
      <3>1. b[1] \in Ports
        BY <2>1 DEF Base, Types
      <3> QED  BY <1>2, <2>1, <3>1 DEF KeepsIps, Binding, Live
    <2>2. CASE th[t].pc # "idle" /\ b = <<th[t].p, th[t].orig.ip>>
      <3>1. th[t].p \in Ports /\ SameIp(t)
        BY <2>2, ThreadTypes DEF Binding
      <3> QED  BY <1>2, <2>2, <3>1 DEF KeepsIps, SameIp, Live
    <2> QED  BY <2>1, <2>2 DEF BindsOwn
  <1>3. \A p, q \in Ports : Live(p)' /\ Live(q)' /\ db'[p].ip = db'[q].ip => p = q
    BY DEF KeepsIps, Binding
  <1>4. ASSUME NEW q \in Ports, Live(q)', Compute(db'[q]), q \notin off'
        PROVE  Bound(q)' # {} \/ \E u \in Threads : th'[u].p = q /\ Binds(u)'
    <2>1. CASE Compute(db[q]) /\ q \notin off /\ Bound(q) = {} /\ ~(th[t].p = q /\ Binds(t))
      <3>1. PICK u \in Threads : th[u].p = q /\ Binds(u)
        BY <1>4, <2>1 DEF KeepsIps, Binding
      <3>2. th'[u] = th[u]
        BY <2>1, <3>1 DEF Alone
      <3> QED  BY <3>1, <3>2 DEF Binds
    <2> QED  BY <1>4, <2>1 DEF StillServed
  <1> QED  BY <1>1, <1>2, <1>3, <1>4 DEF Binding, Compute, Live

\* A step that touches no binding, and no address or device.
SameAddress == \A q \in Ports : /\ Live(q)' <=> Live(q)
                                /\ db'[q].ip = db[q].ip /\ db'[q].dev = db[q].dev
LEMMA Untouched ==
  ASSUME Base, Binding, NEW t \in Threads, Alone(t), SameAddress, bind' = bind, off \subseteq off', StillOn(t),
         Binds(t) => \/ Binds(t)' /\ th'[t].p = th[t].p
                     \/ ~Live(th[t].p) \/ ~Compute(db[th[t].p]) \/ th[t].p \in off'
  PROVE  Binding'
  <1>1. KeepsIps /\ BindsOwn(t)
    BY DEF KeepsIps, BindsOwn, SameAddress
  <1>2. StillServed(t)
    BY DEF StillServed, SameAddress, Compute, Bound
  <1> QED  BY <1>1, <1>2, BindingFrame
LEMMA SameAddresses == ASSUME UNCHANGED db PROVE SameAddress
  BY DEF SameAddress, Live
LEMMA GoesOn ==
  ASSUME Base, NEW t \in Threads, NEW label, th[t].pc # "idle", Goes(t, label) \/ Ends(t)
  PROVE  Alone(t) /\ StillOn(t)
  BY ThreadTypes DEF Goes, Ends, Idle, StillOn, Request

LEMMA CreateBinding ==
  ASSUME VPortsAssumption, Base, Binding, NEW t \in Threads, NEW p \in Ports, NEW x \in NewPorts, Create(t, p, x)
  PROVE  Binding'
  <1>1. /\ db' = [db EXCEPT ![p] = x] /\ bind' = bind /\ off' = off /\ x.live /\ ~Live(p) /\ Bound(p) = {}
        /\ th[t] = Idle /\ (\A u \in Threads : th[u].p # p) /\ \A q \in Ports : db[q].ip # x.ip
    BY DEF Create, Fresh, backendVars, MayStart, NewPorts
  <1>2. /\ \A u \in Threads \ {t} : th'[u] = th[u]
        /\ th'[t] = IF Compute(x) THEN [pc |-> "bindCheck", op |-> "create", p |-> p, arg |-> NoDevice, orig |-> x] ELSE th[t]
    BY DEF Create, Base, Types
  <1>3. /\ db'[p] = x /\ \A q \in Ports \ {p} : db'[q] = db[q]
    BY <1>1 DEF Base, Types
  <1>4. ASSUME NEW u \in Threads PROVE SameIp(u)'
    <2>1. CASE th'[u] = th[u]
      <3>1. th[u].pc # "idle" => th[u].p \in Ports \ {p}
        BY <1>1, ThreadTypes
      <3> QED  BY <1>3, <2>1, <3>1 DEF Binding, SameIp, Live
    <2>2. CASE th'[u] # th[u]
      BY <1>2, <1>3, <2>2 DEF SameIp
    <2> QED  BY <2>1, <2>2
  <1>5. \A b \in bind' : db'[b[1]].live => b[2] = db'[b[1]].ip
    <2>1. \A b \in bind : b[1] \in Ports \ {p}
      BY <1>1 DEF Bound, Base, Types
    <2> QED  BY <1>1, <1>3, <2>1 DEF Binding, Live
  <1>6. \A q, r \in Ports : Live(q)' /\ Live(r)' /\ db'[q].ip = db'[r].ip => q = r
    BY <1>1, <1>3 DEF Binding, Live
  <1>7. ASSUME NEW q \in Ports, Live(q)', Compute(db'[q]), q \notin off'
        PROVE  Bound(q)' # {} \/ \E u \in Threads : th'[u].p = q /\ Binds(u)'
    <2>1. CASE q = p
      BY <1>2, <1>3, <1>7, <2>1 DEF Binds
    <2>2. CASE q # p
      <3>1. db'[q] = db[q] /\ Bound(q)' = Bound(q) /\ ~Binds(t)
        BY <1>1, <1>3, <2>2 DEF Bound, Binds, Idle
      <3> QED  BY <1>1, <1>2, <1>7, <3>1 DEF Binding, Binds, Live
    <2> QED  BY <2>1, <2>2
  <1> QED  BY <1>4, <1>5, <1>6, <1>7 DEF Binding, Compute, Live

LEMMA BindsBinding ==
  ASSUME VPortsAssumption, Base, Binding, NEW t \in Threads, BindCheck(t) \/ Bind(t) \/ BindFails(t) PROVE Binding'
  <1>1. /\ th[t].pc \in {"bindCheck", "bind"} /\ db' = db /\ th[t].p \in Ports /\ th[t] \in Request
    BY ThreadTypes DEF BindCheck, Bind, BindFails, At, backendVars
  <1>2. ASSUME NEW l \in {"bind", "post"}, BindNext(t, l) \/ (Goto(t, l) /\ UNCHANGED lockVars) PROVE Alone(t) /\ StillOn(t)
    <2>1. End(t) \/ Goes(t, l)
      BY <1>1, <1>2, GotoGoes DEF BindNext, Labels
    <2>2. End(t) => Ends(t)
      BY EndEnds
    <2>3. Idle.pc = "idle"
      BY DEF Idle
    <2> QED  BY <1>1, <2>1, <2>2, <2>3 DEF Goes, Ends, StillOn, Request
  <1>3. CASE BindCheck(t)
    <2>1. CASE Live(th[t].p)
      <3>1. th[t].pc = "bindCheck" /\ Goto(t, "bind") /\ UNCHANGED lockVars /\ UNCHANGED <<bind, off>>
        BY <1>3, <2>1 DEF BindCheck, At, backendVars
      <3>2. Goes(t, "bind")
        BY <3>1, GotoGoes DEF Labels
      <3>3. Alone(t) /\ StillOn(t) /\ Binds(t)' /\ th'[t].p = th[t].p
        BY <1>1, <1>2, <3>1, <3>2 DEF Goes, Binds, Request
      <3> QED  BY <1>1, <3>1, <3>3, SameAddresses, Untouched
    <2>2. CASE ~Live(th[t].p)
      <3>1. BindNext(t, "post") /\ UNCHANGED <<bind, off>>
        BY <1>3, <2>2 DEF BindCheck, backendVars
      <3> QED  BY <1>1, <1>2, <2>2, <3>1, SameAddresses, Untouched
    <2> QED  BY <2>1, <2>2
  <1>4. CASE Bind(t)
    <2>1. PICK p, i : /\ p = th[t].p /\ i = th[t].orig.ip /\ bind' = (bind \ (Overlapping(i) \cup Bound(p))) \cup {<<p, i>>}
                      /\ off' = IF Live(p) THEN off ELSE off \cup ({b[1] : b \in Overlapping(i)} \ {p})
                      /\ BindNext(t, "post")
      BY <1>4 DEF Bind
    <2>2. Alone(t) /\ StillOn(t)
      BY <1>2, <2>1
    <2>3. KeepsIps /\ BindsOwn(t)
      BY <1>1, <2>1 DEF KeepsIps, BindsOwn, Live
    <2>4. StillServed(t)
      <3>1. ASSUME NEW q \in Ports, Live(q), Compute(db[q]), q \notin off', Bound(q)' = {}
            PROVE  Compute(db[q]) /\ q \notin off /\ Bound(q) = {} /\ ~(th[t].p = q /\ Binds(t))
        <4>0. (\A b \in bind' : b[1] # q) /\ <<p, i>> \in bind'
          BY <2>1, <3>1 DEF Bound
        <4>1. q # p
          BY <4>0
        <4>2. ASSUME NEW b \in bind, b[1] = q PROVE FALSE
          <5>1. b \in Overlapping(i)
            BY <2>1, <3>1, <4>1, <4>2 DEF Bound
          <5>2. b[2] = i /\ db[q].ip = i
            BY <3>1, <4>2, <5>1 DEF Overlapping, Binding
          <5>3. CASE Live(p)
            <6>1. SameIp(t)
              BY DEF Binding
            <6>2. db[p].ip = i
              BY <1>1, <2>1, <5>3, <6>1 DEF SameIp
            <6> QED  BY <1>1, <2>1, <3>1, <4>1, <5>2, <5>3, <6>2 DEF Binding
          <5>4. CASE ~Live(p)
            BY <2>1, <3>1, <4>1, <4>2, <5>1, <5>4
          <5> QED  BY <5>3, <5>4
        <4> QED  BY <2>1, <3>1, <4>1, <4>2 DEF Bound
      <3> QED  BY <1>1, <3>1 DEF StillServed, Live
    <2> QED  BY <2>2, <2>3, <2>4, BindingFrame
  <1>5. CASE BindFails(t) /\ th[t].op # "create"
    <2>1. Ends(t) /\ bind' = bind /\ off' = off \cup ({th[t].p, th[t].orig.dev} \ {NoDevice})
      BY <1>5, EndEnds DEF BindFails, backendVars
    <2>2. StillOn(t) /\ th[t].p \in off'
      BY <1>1, <2>1 DEF Ends, StillOn, Idle, VPortsAssumption
    <2> QED  BY <1>1, <2>1, <2>2, SameAddresses, Untouched DEF Ends
  <1>6. CASE BindFails(t) /\ th[t].op = "create"
    <2>1. PICK q : q = [th[t] EXCEPT !.pc = "delRead", !.op = "delete"]
      OBVIOUS
    <2>2. q \in Request /\ q.pc = "delRead" /\ q.op = "delete" /\ q.p = th[t].p /\ q.orig = th[t].orig
      BY <1>1, <2>1 DEF Request, Labels, Ops
    <2>3. th' = [th EXCEPT ![t] = q] /\ UNCHANGED <<bind, off>>
      BY <1>6, <2>1 DEF BindFails, Base, Types, backendVars
    <2>4. Alone(t) /\ th'[t] = q
      BY <2>2, <2>3, AnewAlone
    <2>5. StillOn(t) /\ Binds(t)' /\ th'[t].p = th[t].p
      BY <1>1, <2>2, <2>4 DEF StillOn, Binds
    <2> QED  BY <1>1, <2>3, <2>4, <2>5, SameAddresses, Untouched
  <1> QED  BY <1>3, <1>4, <1>5, <1>6

LEMMA UnbindBinding ==
  ASSUME VPortsAssumption, Base, Binding, NEW t \in Threads, UnbindRead(t) \/ Unbind(t) PROVE Binding'
  <1>1. /\ th[t].pc \in {"unbindRead", "unbind"} /\ db' = db /\ th[t].p \in Ports /\ ~Binds(t)
    BY ThreadTypes DEF UnbindRead, Unbind, At, backendVars, Binds
  <1>2. Alone(t) /\ StillOn(t)
    <2>1. End(t) \/ (Goto(t, "unbind") /\ UNCHANGED lockVars)
      BY DEF UnbindRead, Unbind
    <2>2. Ends(t) \/ Goes(t, "unbind")
      BY <1>1, <2>1, EndEnds, GotoGoes DEF Labels
    <2> QED  BY <1>1, <2>2, GoesOn
  <1>3. CASE UnbindRead(t)
    <2>1. UNCHANGED <<bind, off>>
      BY <1>3 DEF UnbindRead, backendVars
    <2> QED  BY <1>1, <1>2, <2>1, SameAddresses, Untouched
  <1>4. CASE Unbind(t)
    <2>1. PICK p : p = th[t].p /\ bind' = bind \ Bound(p) /\ off' = IF Live(p) /\ Compute(db[p]) THEN off \cup {p} ELSE off
      BY <1>4 DEF Unbind
    <2>2. KeepsIps /\ BindsOwn(t)
      BY <1>1, <2>1 DEF KeepsIps, BindsOwn, Live
    <2>3. StillServed(t)
      <3>1. ASSUME NEW q \in Ports, Live(q), Compute(db[q]), q \notin off', Bound(q)' = {}
            PROVE  q \notin off /\ Bound(q) = {}
        <4>1. q # p
          BY <2>1, <3>1
        <4>2. \A b \in bind' : b[1] # q
          BY <3>1 DEF Bound
        <4>3. \A b \in bind : b[1] # q
          BY <2>1, <4>1, <4>2 DEF Bound
        <4> QED  BY <2>1, <3>1, <4>3 DEF Bound
      <3> QED  BY <1>1, <3>1 DEF StillServed, Live
    <2> QED  BY <1>2, <2>2, <2>3, BindingFrame
  <1> QED  BY <1>3, <1>4

\* The actions that leave bindings, addresses and devices alone.
LEMMA CountBinding ==
  ASSUME VPortsAssumption, Base, Binding, NEW t \in Threads, AddCount(t) \/ RemoveCount(t) \/ Add(t) \/ Remove(t)
  PROVE  Binding'
  <1>1. /\ th[t].pc \in {"addCount", "removeCount", "add", "remove"} /\ UNCHANGED <<db, bind, lockVars>> /\ off \subseteq off'
    BY DEF AddCount, RemoveCount, Count, Add, Remove, List, At, backendVars
  <1>2. PICK l \in {"add", "remove", "db", "delDb", "unmap", "groups"} :
          Goto(t, l) /\ (th[t].op = "delete" /\ th[t].pc \in {"removeCount", "remove"} => l \in {"remove", "delDb"})
    BY DEF AddCount, RemoveCount, Count, Add, Remove, List, After, At
  <1>3. Goes(t, l)
    BY <1>1, <1>2, GotoGoes DEF Labels
  <1>4. Binds(t) => Binds(t)' /\ th'[t].p = th[t].p
    BY <1>1, <1>2, <1>3, ThreadTypes DEF Binds, Goes, Request
  <1> QED  BY <1>1, <1>3, <1>4, GoesOn, SameAddresses, Untouched DEF Goes

LEMMA RowBinding ==
  ASSUME VPortsAssumption, Base, Binding, NEW t \in Threads, Plug(t) \/ PlugFails(t) \/ PlugLost(t) \/ Unmap(t) PROVE Binding'
  <1>1. /\ th[t].pc \in {"plug", "unmap"} /\ bind' = bind /\ off \subseteq off' /\ th[t].p \in Ports /\ ~Binds(t)
    BY ThreadTypes DEF Plug, PlugFails, PlugLost, Unmap, At, Stale, backendVars, Binds
  <1>2. SameAddress
    <2>1. CASE Plug(t) \/ PlugFails(t)
      <3>1. th[t].pc = "plug" /\ Map(t)
        BY <2>1 DEF Plug, PlugFails, At
      <3> QED  BY <3>1, MapData DEF SameAddress, Live
    <2>2. CASE PlugLost(t)
      BY <2>2, SameAddresses DEF PlugLost
    <2>3. CASE Unmap(t)
      BY <1>1, <2>3, BaseData DEF Unmap, Data, SameAddress, Live, Port
    <2> QED  BY <2>1, <2>2, <2>3
  <1>3. PICK l \in {"db", "addCount", "unbindRead"} : Ends(t) \/ Goes(t, l)
    <2>1. PICK l \in {"db", "addCount", "unbindRead"} : End(t) \/ (Goto(t, l) /\ UNCHANGED lockVars)
      BY DEF Plug, PlugFails, PlugLost, Unmap
    <2>2. Ends(t) \/ Goes(t, l)
      BY <1>1, <2>1, EndEnds, GotoGoes DEF Labels
    <2> QED  BY <2>2
  <1> QED  BY <1>1, <1>2, <1>3, GoesOn, Untouched

LEMMA PostBinding ==
  ASSUME VPortsAssumption, Base, Binding, NEW t \in Threads, Post(t) \/ PostFails(t) \/ Regroup(t) \/ RegroupFails(t)
  PROVE  Binding'
  <1>1. th[t].pc \in {"post", "groups"} /\ UNCHANGED <<db, bind>> /\ ~Binds(t)
    BY DEF Post, PostFails, Regroup, RegroupFails, At, Binds, backendVars
  <1>2. off \subseteq off'
    BY LeaveDoes DEF Post, PostFails, Regroup, RegroupFails
  <1>3. PICK l \in {"unmap", "removeCount", "addCount", "groups"} : Ends(t) \/ Goes(t, l)
    <2>1. PICK l \in {"unmap", "removeCount", "addCount", "groups"} : End(t) \/ (Goto(t, l) /\ UNCHANGED lockVars)
      BY DEF Post, PostFails, Regroup, RegroupFails
    <2>2. Ends(t) \/ Goes(t, l)
      BY <1>1, <2>1, EndEnds, GotoGoes DEF Labels
    <2> QED  BY <2>2
  <1> QED  BY <1>1, <1>2, <1>3, GoesOn, SameAddresses, Untouched

LEMMA UpdateDbBinding ==
  ASSUME VPortsAssumption, Base, Binding, NEW t \in Threads, UpdateDb(t) PROVE Binding'
  <1>1. /\ th[t].pc = "db" /\ Asked(t) /\ th[t] \in Request /\ th[t].p \in Ports /\ ~Binds(t) /\ UNCHANGED <<bind, off>>
    BY ThreadTypes DEF UpdateDb, At, Binds, backendVars
  <1>2. PICK p \in Ports : p = th[t].p
    BY <1>1
  <1>3. CASE Live(p)
    <2>1. PICK y, l : /\ y = Updated(db[p], th[t].op, th[t].arg) /\ db' = [db EXCEPT ![p] = y] /\ UNCHANGED lockVars
                      /\ l = (IF th[t].op = "attach" THEN "bindCheck" ELSE "post") /\ Goto(t, l)
      BY <1>2, <1>3 DEF UpdateDb
    <2>2. /\ y.live /\ y.ip = db[p].ip /\ (th[t].op \notin Moving => y.dev = db[p].dev)
          /\ th[t].op = "detach" => ~Compute(y)
      <3>1. db[p] \in Port /\ db[p].live /\ (th[t].op = "attach" => th[t].arg \in Devices) /\ th[t].op \in Ops
        BY <1>1, <1>3, BaseData DEF Data, Live, Asked, Request
      <3>2. th[t].op = "detach" => ~Compute(y)
        BY <2>1, <3>1 DEF Updated, Compute, Port
      <3> QED  BY <2>1, <3>1, <3>2, UpdatedType
    <2>3. db'[p] = y /\ \A q \in Ports \ {p} : db'[q] = db[q]
      BY <2>1, BaseData DEF Data
    <2>4. Goes(t, l)
      BY <1>1, <2>1, GotoGoes DEF Labels
    <2>5. KeepsIps /\ BindsOwn(t)
      BY <1>1, <1>3, <2>2, <2>3 DEF KeepsIps, BindsOwn, Live
    <2>6. StillServed(t)
      <3>1. ASSUME NEW q \in Ports, Live(q)', Compute(db'[q]), q \notin off', Bound(q)' = {}, ~(th'[t].p = q /\ Binds(t)')
            PROVE  Compute(db[q])
        <4>1. CASE q # p
          BY <2>3, <3>1, <4>1 DEF Compute
        <4>2. CASE q = p
          <5>1. th[t].op # "attach"
            BY <1>1, <1>2, <2>1, <2>4, <3>1, <4>2 DEF Goes, Binds, Request
          <5> QED  BY <2>2, <2>3, <3>1, <4>2, <5>1 DEF Compute, Moving
        <4> QED  BY <4>1, <4>2
      <3> QED  BY <1>1, <3>1 DEF StillServed, Bound
    <2> QED  BY <1>1, <2>4, <2>5, <2>6, GoesOn, BindingFrame
  <1>4. CASE ~Live(p)
    <2>1. End(t) /\ db' = db
      BY <1>2, <1>4 DEF UpdateDb
    <2> QED  BY <1>1, <2>1, EndEnds, GoesOn, SameAddresses, Untouched
  <1> QED  BY <1>3, <1>4

LEMMA StartBinding ==
  ASSUME VPortsAssumption, Base, Binding, NEW t \in Threads, NEW p \in Ports, StartUpdate(t, p) \/ StartDelete(t, p)
  PROVE  Binding'
  <1>1. UNCHANGED <<db, bind, off>> /\ th[t] = Idle /\ ~Binds(t) /\ Live(p) /\ ~Inside(t)
    BY DEF StartUpdate, StartDelete, backendVars, MayStart, Idle, Binds, Created, Inside
  <1>2. Alone(t) /\ th'[t].p = p /\ th'[t].orig = db[p]
    <2>1. CASE StartUpdate(t, p)
      <3>1. PICK u, q : q = [pc |-> LabelOf(db[p], "db"), op |-> u[1], p |-> p, arg |-> u[2], orig |-> db[p]]
                        /\ th' = [th EXCEPT ![t] = q]
        BY <2>1 DEF StartUpdate
      <3>2. th' \in [Threads -> Request]
        BY <2>1, StartUpdateBase DEF Base, Types
      <3> QED  BY <3>1, <3>2 DEF Alone, Base, Types
    <2>2. CASE StartDelete(t, p)
      <3>1. DeleteOf(t, p) /\ UNCHANGED <<db, backendVars, lockVars, off>>
        BY <2>2 DEF StartDelete
      <3>2. Alone(t) /\ th'[t] = [pc |-> LabelOf(db[p], "delVnic"), op |-> "delete", p |-> p, arg |-> NoDevice, orig |-> db[p]]
        BY <1>1, <3>1, DeleteOfBase
      <3> QED  BY <3>2
    <2> QED  BY <2>1, <2>2
  <1> QED  BY <1>1, <1>2, SameAddresses, Untouched DEF StillOn

LEMMA LockBinding ==
  ASSUME VPortsAssumption, Base, Binding, NEW t \in Threads, UpdateLock(t) \/ DeleteLock(t) PROVE Binding'
  <1>1. /\ th[t].pc = "lock" /\ UNCHANGED <<db, bind, off>> /\ Asked(t) /\ th[t] \in Request
    BY ThreadTypes DEF UpdateLock, DeleteLock, Locked, At, backendVars
  <1>2. PICK l \in {"plug", "db", "delVnic"} : /\ Alone(t) /\ th'[t] = [th[t] EXCEPT !.pc = l]
                                               /\ th[t].op = "delete" => l = "delVnic"
    BY <1>1, LockedBase DEF UpdateLock, DeleteLock, Asked
  <1>3. StillOn(t) /\ (Binds(t) => Binds(t)' /\ th'[t].p = th[t].p)
    BY <1>1, <1>2 DEF StillOn, Binds, Request
  <1> QED  BY <1>1, <1>2, <1>3, SameAddresses, Untouched

LEMMA DeleteBinding ==
  ASSUME VPortsAssumption, Base, Binding, NEW t \in Threads, DeleteRead(t) \/ DeleteVnic(t) \/ DeleteDb(t) PROVE Binding'
  <1>1. th[t].pc \in {"delRead", "delVnic", "delDb"} /\ bind' = bind /\ Asked(t) /\ th[t] \in Request /\ th[t].p \in Ports
    BY ThreadTypes DEF DeleteRead, DeleteVnic, DeleteDb, At, backendVars
  <1>2. th[t].op = "delete"
    BY <1>1 DEF Asked
  <1>3. CASE DeleteRead(t)
    <2>1. th[t].pc = "delRead" /\ UNCHANGED <<db, off>> /\ ~Inside(t)
      BY <1>3 DEF DeleteRead, At, Inside
    <2>2. CASE Live(th[t].p)
      <3>1. Alone(t) /\ th'[t] = [pc |-> LabelOf(db[th[t].p], "delVnic"), op |-> "delete", p |-> th[t].p,
                                  arg |-> NoDevice, orig |-> db[th[t].p]]
        BY <1>1, <1>3, <2>1, <2>2, DeleteOfBase DEF DeleteRead
      <3>2. StillOn(t) /\ Binds(t)' /\ th'[t].p = th[t].p
        BY <1>1, <3>1 DEF StillOn, Binds, LabelOf
      <3> QED  BY <1>1, <2>1, <3>1, <3>2, SameAddresses, Untouched
    <2>3. CASE ~Live(th[t].p)
      <3>1. Ends(t)
        BY <1>3, <2>3, EndEnds DEF DeleteRead
      <3> QED  BY <1>1, <2>1, <2>3, <3>1, GoesOn, SameAddresses, Untouched
    <2> QED  BY <2>2, <2>3
  <1>4. CASE DeleteVnic(t)
    <2>1. th[t].pc = "delVnic" /\ UNCHANGED <<db, lockVars>> /\ off \subseteq off'
      BY <1>4 DEF DeleteVnic, At, Stale
    <2>2. PICK l \in {"removeCount", "delDb"} : Goto(t, l)
      BY <1>4 DEF DeleteVnic
    <2>3. Goes(t, l)
      BY <2>1, <2>2, GotoGoes DEF Labels
    <2>4. Binds(t)' /\ th'[t].p = th[t].p
      BY <1>1, <1>2, <2>3 DEF Goes, Binds, Request
    <2> QED  BY <1>1, <2>1, <2>3, <2>4, GoesOn, SameAddresses, Untouched
  <1>5. CASE DeleteDb(t)
    <2>1. PICK p \in Ports : p = th[t].p
      BY <1>1
    <2>2. db' = [db EXCEPT ![p] = Absent] /\ off \subseteq off' /\ th[t].pc = "delDb"
      BY <1>5, <2>1 DEF DeleteDb, Stale, At
    <2>3. /\ db'[p] = Absent /\ ~Absent.live /\ \A q \in Ports \ {p} : db'[q] = db[q]
      BY <2>2, BaseData DEF Data, Absent
    <2>4. KeepsIps /\ BindsOwn(t) /\ StillServed(t)
      BY <1>1, <2>1, <2>2, <2>3 DEF KeepsIps, BindsOwn, StillServed, Live, Bound
    <2>5. Ends(t) \/ Goes(t, "unbindRead")
      <3>1. End(t) \/ (Goto(t, "unbindRead") /\ UNCHANGED lockVars)
        BY <1>5 DEF DeleteDb
      <3> QED  BY <2>2, <3>1, EndEnds, GotoGoes DEF Labels
    <2> QED  BY <2>2, <2>4, <2>5, GoesOn, BindingFrame
  <1> QED  BY <1>3, <1>4, <1>5

LEMMA NextBinding == ASSUME VPortsAssumption, Base, Binding, [Next]_vars PROVE Binding'
  <1>1. ASSUME NEW t \in Threads, Work(t) PROVE Binding'
    BY <1>1, CreateBinding, StartBinding, CountBinding, BindsBinding, UnbindBinding, LockBinding, RowBinding,
       UpdateDbBinding, PostBinding, DeleteBinding DEF Work
  <1>2. CASE UNCHANGED vars
    BY <1>2 DEF vars, backendVars, lockVars, Binding, SameIp, Binds, Bound, Live, Compute
  <1> QED  BY <1>1, <1>2 DEF Next, Rest
LEMMA InitBinding == ASSUME VPortsAssumption, Init PROVE Binding
  BY DEF Init, Binding, SameIp, Idle, Absent, Live

\* The port of an instance has its binding, whatever the requests on it and on the port whose
\* address it has got did at the same time: create_port, update_port, delete_port.
THEOREM PortsServed == Spec => []Served
  <1>1. Init => Base /\ Binding
    BY VPortsAssumption, InitBase, InitBinding
  <1>2. Base /\ Binding /\ [Next]_vars => (Base /\ Binding)'
    BY VPortsAssumption, NextBase, NextBinding
  <1>3. Base /\ Binding => Served
    BY DEF Binding, Served
  <1> QED  BY <1>1, <1>2, <1>3, PTL DEF Spec

-----------------------------------------------------------------------------
(* The rows of the ports                                                   *)

\* A step that changes no row: what it leaves of the others, and what it owes.
KeepsLeaving(t) ==
  Leaving(t) => \/ Leaving(t)' /\ th'[t].p = th[t].p /\ th'[t].orig = th[t].orig
                \/ th[t].orig.vnic = NoVnic \/ th[t].orig.vnic[1] \in off' \/ db'[th[t].p].vnic # th[t].orig.vnic
OwnRow(t) == (Reads(t) /\ Lives(t) /\ Deletes(t))'
LEMMA DeviceFrame ==
  ASSUME Base, Rows, NEW t \in Threads, NEW q \in Ports, Alone(t), off \subseteq off', KeepsLeaving(t),
         db'[q].dev = db[q].dev, db'[q].vnic = db[q].vnic
  PROVE  OnDevice(q)'
  <1>1. OnDevice(q) /\ db[q].vnic = db'[q].vnic
    BY DEF Rows
  <1>2. ASSUME db[q].vnic # NoVnic, NEW u \in Threads, th[u].p = q, Leaving(u), th[u].orig.vnic = db[q].vnic
        PROVE  db[q].vnic[1] \in off' \/ \E r \in Threads : th'[r].p = q /\ Leaving(r)' /\ th'[r].orig.vnic = db[q].vnic
    <2>1. CASE u = t
      BY <1>1, <1>2, <2>1 DEF KeepsLeaving
    <2>2. CASE u # t
      <3>1. th'[u] = th[u]
        BY <2>2 DEF Alone
      <3> QED  BY <1>2, <3>1 DEF Leaving
    <2> QED  BY <2>1, <2>2
  <1> QED  BY <1>1, <1>2 DEF OnDevice
LEMMA SameDbRows ==
  ASSUME Base, Rows, NEW t \in Threads, Alone(t), db' = db, off \subseteq off', KeepsLeaving(t), OwnRow(t)
  PROVE  Rows'
  <1>1. OneVnic' /\ \A p \in Ports : OnDevice(p)'
    <2>1. OneVnic'
      BY DEF Rows, OneVnic
    <2>2. \A p \in Ports : OnDevice(p)'
      BY DeviceFrame
    <2> QED  BY <2>1, <2>2
  <1>2. ASSUME NEW u \in Threads \ {t} PROVE Reads(u)' /\ Lives(u)' /\ Deletes(u)'
    <2>1. th'[u] = th[u] /\ Reads(u) /\ Lives(u) /\ Deletes(u)
      BY DEF Alone, Rows
    <2>2. Reads(u)'
      BY <2>1 DEF Reads, Before, Live, Plugged
    <2>3. Lives(u)'
      BY <2>1 DEF Lives, Live, Compute
    <2>4. Deletes(u)'
      BY <2>1 DEF Deletes, Compute, VnicOf
    <2> QED  BY <2>2, <2>3, <2>4
  <1> QED  BY <1>1, <1>2 DEF Rows, OwnRow

\* A request that goes on and changes no row.
Forward(t, label) ==
  LET op == th[t].op  pc == th[t].pc IN
  \/ pc = "lock" /\ op \in UpdateOps /\ label = IF op = "plug" THEN "plug" ELSE "db"
  \/ pc = "lock" /\ op = "delete" /\ label = "delVnic"
  \/ pc = "addCount" /\ label = "add"
  \/ pc = "removeCount" /\ label = "remove"
  \/ pc \in {"addCount", "add", "removeCount", "remove"} /\ label = After(t)
  \/ pc = "bindCheck" /\ label = "bind"
  \/ pc \in {"bindCheck", "bind"} /\ op = "attach" /\ label = "post"
  \/ pc = "post" /\ op \in Moving /\ label \in {"unmap", "removeCount"}
  \/ pc = "post" /\ op \in Changing /\ label \in {"removeCount", "addCount", "groups"}
  \/ pc = "unbindRead" /\ label = "unbind"
LEMMA ForwardRows ==
  ASSUME Base, Rows, NEW t \in Threads, NEW label, Goes(t, label), Forward(t, label), db' = db, off \subseteq off'
  PROVE  Rows'
  <1>1. th[t] \in Request /\ th[t].p \in Ports /\ th[t].orig \in Port /\ Asked(t) /\ th[t].op \in Ops
    <2>1. th[t].pc # "idle"
      BY DEF Forward
    <2> QED  BY <2>1, ThreadTypes
  <1>2. /\ th'[t].op = th[t].op /\ th'[t].p = th[t].p /\ th'[t].orig = th[t].orig /\ th'[t].arg = th[t].arg
        /\ th'[t].pc = label /\ Alone(t)
    BY <1>1 DEF Goes, Request
  <1>3. KeepsLeaving(t)
    BY <1>1, <1>2 DEF KeepsLeaving, Leaving, Forward, After, Moving, Changing
  <1>4. Reads(t)'
    <2>1. Reads(t)
      BY DEF Rows
    <2>2. th[t].op = "plug" => Updated(th[t].orig, th[t].op, th[t].arg) = th[t].orig
      BY DEF Updated
    <2>3. th[t].op \in UpdateOps => Before(t)' = Before(t) \/ th[t].op = "plug"
      BY <1>1, <1>2 DEF Before, Forward, After, Asked, UpdateOps, Moving, Changing
    <2>4. th[t].op = "plug" => (label \in {"lock", "plug"} <=> th[t].pc \in {"lock", "plug"})
      BY <1>1 DEF Forward, After, Asked, UpdateOps, Moving, Changing
    <2>5. th[t].pc \in {"unbindRead", "unbind"} => label \in {"unbindRead", "unbind"}
      BY DEF Forward, After
    <2> QED  BY <1>2, <2>1, <2>2, <2>3, <2>4, <2>5 DEF Reads, Live, Plugged
  <1>5. Lives(t)'
    <2>1. Lives(t)
      BY DEF Rows
    <2> QED  BY <1>1, <1>2, <2>1 DEF Lives, Forward, After, Asked, Live, Compute, Changing, Moving, UpdateOps
  <1>6. Deletes(t)'
    <2>1. Deletes(t)
      BY DEF Rows
    <2> QED  BY <1>1, <1>2, <2>1 DEF Deletes, Forward, After, Asked, Compute, VnicOf, Changing, Moving, UpdateOps
  <1> QED  BY <1>2, <1>3, <1>4, <1>5, <1>6, SameDbRows DEF OwnRow
LEMMA EndsRows ==
  ASSUME VPortsAssumption, Base, Rows, NEW t \in Threads, Ends(t), db' = db, off \subseteq off',
         Leaving(t) => ~Compute(th[t].orig) \/ th[t].orig.vnic = NoVnic \/ th[t].orig.dev \in off'
  PROVE  Rows'
  <1>1. OwnRow(t)
    BY DEF Ends, OwnRow, Reads, Lives, Deletes, Idle, UpdateOps, Changing
  <1>2. KeepsLeaving(t)
    <2>1. ASSUME Leaving(t), th[t].orig.vnic # NoVnic PROVE th[t].orig.vnic[1] \in off'
      <3>1. Reads(t) /\ th[t].op \in UpdateOps
        BY <2>1 DEF Rows, Leaving, Moving, UpdateOps
      <3>2. th[t].orig.vnic \in Vnics /\ th[t].orig.vnic[1] = th[t].orig.dev
        BY <2>1, <3>1 DEF Reads
      <3>3. Compute(th[t].orig)
        BY <3>2 DEF Vnics, Compute, VPortsAssumption
      <3> QED  BY <2>1, <3>2, <3>3
    <2> QED  BY <2>1 DEF KeepsLeaving
  <1> QED  BY <1>1, <1>2, SameDbRows DEF Ends

\* The actions that change no row.
LEMMA CountRows ==
  ASSUME VPortsAssumption, Base, Rows, NEW t \in Threads, AddCount(t) \/ RemoveCount(t) \/ Add(t) \/ Remove(t) PROVE Rows'
  <1>1. /\ th[t].pc \in {"addCount", "removeCount", "add", "remove"} /\ UNCHANGED <<db, lockVars>> /\ off \subseteq off'
    BY DEF AddCount, RemoveCount, Count, Add, Remove, List, At, backendVars
  <1>2. PICK l \in {"add", "remove", After(t)} : Goto(t, l) /\ Forward(t, l)
    BY DEF AddCount, RemoveCount, Count, Add, Remove, List, At, Forward
  <1>3. l \in Labels \ {"idle", "lock", "delRead"}
    BY DEF After, Labels
  <1>4. Goes(t, l)
    BY <1>1, <1>2, <1>3, GotoGoes
  <1> QED  BY <1>1, <1>2, <1>4, ForwardRows

LEMMA BindRows ==
  ASSUME VPortsAssumption, Base, Rows, NEW t \in Threads, BindCheck(t) \/ Bind(t) \/ BindFails(t) PROVE Rows'
  <1>1. /\ th[t].pc \in {"bindCheck", "bind"} /\ db' = db /\ off \subseteq off' /\ Asked(t) /\ th[t] \in Request
    BY ThreadTypes DEF BindCheck, Bind, BindFails, At, backendVars
  <1>2. ASSUME End(t), th[t].op = "create" \/ ({th[t].orig.dev} \ {NoDevice} \subseteq off') PROVE Rows'
    <2>1. Ends(t)
      BY <1>2, EndEnds
    <2>2. Leaving(t) => ~Compute(th[t].orig) \/ th[t].orig.dev \in off'
      BY <1>2 DEF Leaving, Moving, Compute
    <2> QED  BY <1>1, <2>1, <2>2, EndsRows
  <1>3. ASSUME NEW l \in {"bind", "post"}, Goto(t, l), UNCHANGED lockVars, Forward(t, l) PROVE Rows'
    <2>1. Goes(t, l)
      BY <1>1, <1>3, GotoGoes DEF Labels
    <2> QED  BY <1>1, <1>3, <2>1, ForwardRows
  <1>4. CASE BindCheck(t) \/ Bind(t)
    <2>1. \/ Goto(t, "bind") /\ UNCHANGED lockVars /\ th[t].pc = "bindCheck"
          \/ End(t) /\ th[t].op = "create"
          \/ Goto(t, "post") /\ UNCHANGED lockVars /\ th[t].op # "create"
      BY <1>4 DEF BindCheck, Bind, BindNext, At
    <2>2. th[t].op \in {"create", "attach"}
      BY <1>1 DEF Asked
    <2> QED  BY <1>1, <1>2, <1>3, <2>1, <2>2 DEF Forward
  <1>5. CASE BindFails(t) /\ th[t].op # "create"
    BY <1>2, <1>5 DEF BindFails
  <1>6. CASE BindFails(t) /\ th[t].op = "create"
    <2>1. PICK q : q = [th[t] EXCEPT !.pc = "delRead", !.op = "delete"]
      OBVIOUS
    <2>2. q \in Request /\ q.pc = "delRead" /\ q.op = "delete" /\ q.p = th[t].p /\ q.orig = th[t].orig
      BY <1>1, <2>1 DEF Request, Labels, Ops
    <2>3. th' = [th EXCEPT ![t] = q]
      BY <1>6, <2>1 DEF BindFails, Base, Types
    <2>4. Alone(t) /\ th'[t] = q
      BY <2>2, <2>3, AnewAlone
    <2>5. KeepsLeaving(t) /\ OwnRow(t)
      BY <1>6, <2>2, <2>4 DEF KeepsLeaving, Leaving, Moving, OwnRow, Reads, Lives, Deletes, UpdateOps, Changing
    <2> QED  BY <1>1, <2>4, <2>5, SameDbRows
  <1> QED  BY <1>4, <1>5, <1>6

LEMMA UnbindRows ==
  ASSUME VPortsAssumption, Base, Rows, NEW t \in Threads, UnbindRead(t) \/ Unbind(t) PROVE Rows'
  <1>1. /\ th[t].pc \in {"unbindRead", "unbind"} /\ db' = db /\ off \subseteq off' /\ ~Leaving(t)
    BY DEF UnbindRead, Unbind, At, backendVars, Leaving
  <1>2. CASE End(t)
    BY <1>1, <1>2, EndEnds, EndsRows
  <1>3. CASE ~End(t)
    <2>1. Goto(t, "unbind") /\ UNCHANGED lockVars /\ Forward(t, "unbind")
      BY <1>3 DEF UnbindRead, Unbind, Forward, At
    <2>2. Goes(t, "unbind")
      BY <1>1, <2>1, GotoGoes DEF Labels
    <2> QED  BY <1>1, <2>1, <2>2, ForwardRows
  <1> QED  BY <1>2, <1>3

LEMMA LockGoes ==
  ASSUME VPortsAssumption, Base, NEW t \in Threads, UpdateLock(t) \/ DeleteLock(t)
  PROVE  \E l \in {"plug", "db", "delVnic"} : Goes(t, l) /\ Forward(t, l)
  <1>1. /\ th[t].pc = "lock" /\ Asked(t) /\ th[t] \in Request
    BY ThreadTypes DEF UpdateLock, DeleteLock, Locked, At
  <1>2. PICK l \in {"plug", "db", "delVnic"} : Locked(t, l) /\ Forward(t, l)
    BY <1>1 DEF UpdateLock, DeleteLock, Forward, Asked, UpdateOps
  <1>3. /\ l = "plug" => th[t].op = "plug"
        /\ l = "db" => th[t].op \in UpdateOps
        /\ l = "delVnic" => th[t].op = "delete"
    BY <1>1, <1>2 DEF Forward
  <1>4. Goes(t, l)
    BY <1>2, <1>3, LockedBase DEF Goes, Base
  <1> QED  BY <1>2, <1>4
LEMMA LockRows == ASSUME VPortsAssumption, Base, Rows, NEW t \in Threads, UpdateLock(t) \/ DeleteLock(t) PROVE Rows'
  <1>1. UNCHANGED <<db, off>>
    BY DEF UpdateLock, DeleteLock, Locked
  <1> QED  BY <1>1, LockGoes, ForwardRows

\* Where "Processing compute port update" leads.
LEMMA PostGoes ==
  ASSUME VPortsAssumption, Base, NEW t \in Threads, Post(t)
  PROVE  \/ /\ Ends(t) /\ UNCHANGED <<member, off>>
            /\ th[t].orig.vnic = NoVnic \/ ~Compute(th[t].orig) \/ th[t].op = "plug"
         \/ /\ th[t].orig.vnic # NoVnic /\ Compute(th[t].orig) /\ th[t].op # "plug"
            /\ \/ /\ th[t].op \in Moving /\ Leave(MembersOf(th[t].orig, VnicOf(th[t].orig)), th[t].orig.dev)
                  /\ Goes(t, IF th[t].orig.sec THEN "unmap" ELSE "removeCount")
               \/ /\ th[t].op = "secure" /\ member' = member \cup {<<"spoofguard", VnicOf(th[t].orig)>>} /\ off' = off
                  /\ Goes(t, "removeCount")
               \/ /\ th[t].op = "unsecure" /\ Leave({<<"spoofguard", VnicOf(th[t].orig)>>}, th[t].orig.dev)
                  /\ Goes(t, "addCount")
               \/ th[t].op = "regroup" /\ UNCHANGED <<member, off>> /\ Goes(t, "groups")
  <1>1. /\ th[t].pc = "post" /\ th[t].op \in UpdateOps
    BY ThreadTypes DEF Post, At, Asked
  <1>2. CASE End(t)
    <2>1. Idle.pc = "idle" /\ \A l \in {"unmap", "removeCount", "addCount", "groups"} : ~Goto(t, l)
      BY <1>2 DEF Idle, End, Goto, Base, Types, Request
    <2>2. UNCHANGED <<member, off>> /\ (th[t].orig.vnic = NoVnic \/ ~Compute(th[t].orig) \/ th[t].op = "plug")
      BY <2>1 DEF Post
    <2> QED  BY <1>2, <2>2, EndEnds
  <1>3. CASE ~End(t)
    <2>1. th[t].orig.vnic # NoVnic /\ Compute(th[t].orig) /\ th[t].op # "plug" /\ UNCHANGED lockVars
      BY <1>3 DEF Post
    <2>2. \A l \in {"unmap", "removeCount", "addCount", "groups"} : Goto(t, l) => Goes(t, l)
      BY <1>1, <2>1, GotoGoes DEF Labels
    <2>3. CASE th[t].op \in Moving
      BY <2>1, <2>2, <2>3 DEF Post, Moving
    <2>4. CASE th[t].op = "secure"
      BY <2>1, <2>2, <2>4 DEF Post
    <2>5. CASE th[t].op = "unsecure"
      BY <2>1, <2>2, <2>5 DEF Post
    <2>6. CASE th[t].op = "regroup"
      BY <2>1, <2>2, <2>6 DEF Post
    <2> QED  BY <1>1, <2>1, <2>3, <2>4, <2>5, <2>6 DEF UpdateOps, Moving
  <1> QED  BY <1>2, <1>3
LEMMA PostRows == ASSUME VPortsAssumption, Base, Rows, NEW t \in Threads, Post(t) PROVE Rows'
  <1>1. /\ th[t].pc = "post" /\ db' = db /\ off \subseteq off'
    BY LeaveDoes DEF Post, At
  <1>2. CASE Ends(t) /\ (th[t].orig.vnic = NoVnic \/ ~Compute(th[t].orig) \/ th[t].op = "plug")
    <2>1. Leaving(t) => ~Compute(th[t].orig) \/ th[t].orig.vnic = NoVnic
      BY <1>2 DEF Leaving, Moving
    <2> QED  BY <1>1, <1>2, <2>1, EndsRows
  <1>3. ASSUME NEW l, Goes(t, l), Forward(t, l) PROVE Rows'
    BY <1>1, <1>3, ForwardRows
  <1> QED  BY <1>1, <1>2, <1>3, PostGoes DEF Forward, Changing

\* What ends a request and its hold of the vnic: done, or refused.
LEMMA RegroupRows ==
  ASSUME VPortsAssumption, Base, Rows, NEW t \in Threads, Regroup(t) \/ RegroupFails(t) \/ PostFails(t) \/ PlugLost(t)
  PROVE  Rows'
  <1>1. db' = db /\ off \subseteq off' /\ ~Leaving(t) /\ Ends(t)
    BY EndEnds DEF Regroup, RegroupFails, PostFails, PlugLost, Leaving, Moving, At
  <1> QED  BY <1>1, EndsRows

LEMMA StartUpdateRows ==
  ASSUME VPortsAssumption, Base, Rows, NEW t \in Threads, NEW p \in Ports, StartUpdate(t, p) PROVE Rows'
  <1>1. /\ UNCHANGED <<db, off>> /\ th[t] = Idle /\ Live(p) /\ off = {} /\ portLock[p] = NoThread
    BY DEF StartUpdate, backendVars, MayStart, Created
  <1>2. PICK x, u, q : /\ x = db[p] /\ x \in Port /\ u \in Updates(x)
                       /\ q = [pc |-> LabelOf(x, "db"), op |-> u[1], p |-> p, arg |-> u[2], orig |-> x]
                       /\ th' = [th EXCEPT ![t] = q]
    BY DEF StartUpdate, Base, Types
  <1>3. Alone(t) /\ th'[t] = q
    <2>1. th' \in [Threads -> Request]
      BY StartUpdateBase DEF Base, Types
    <2> QED  BY <1>2, <2>1 DEF Alone, Base, Types
  <1>4. KeepsLeaving(t) /\ Lives(t)' /\ Deletes(t)'
    <2>1. th'[t].pc \in {"lock", "db"} /\ th'[t].op # "delete"
      BY <1>2, <1>3 DEF LabelOf, Updates
    <2>2. th'[t].op = "plug" => Compute(x)
      BY <1>2, <1>3 DEF Updates, MayPlug
    <2>3. th'[t].op = "plug" => th'[t].pc = "lock"
      BY <1>2, <1>3, <2>2 DEF LabelOf
    <2> QED  BY <1>1, <2>1, <2>3 DEF KeepsLeaving, Leaving, Idle, Moving, Lives, Deletes, Changing
  <1>5. Reads(t)'
    <2>1. x.vnic # NoVnic => x.vnic \in Vnics /\ x.vnic[1] = x.dev
      <3>1. OnDevice(p)
        BY DEF Rows
      <3>2. ASSUME NEW r \in Threads, th[r].p = p, Leaving(r) PROVE FALSE
        <4>1. th[r].op \in UpdateOps
          BY <3>2 DEF Leaving, Moving, UpdateOps
        <4> QED  BY <1>1, <3>2, <4>1 DEF Base, Locks, VPortsAssumption
      <3> QED  BY <1>1, <1>2, <3>1, <3>2 DEF OnDevice
    <2>2. th'[t].pc \in {"lock", "db"} /\ (th'[t].op = "plug" => th'[t].pc = "lock")
      BY <1>2, <1>3 DEF LabelOf, Updates, MayPlug
    <2>3. th'[t].orig = x /\ th'[t].p = p /\ db'[p] = x
      BY <1>1, <1>2, <1>3
    <2>4. Before(t)'
      BY <2>2 DEF Before
    <2> QED  BY <2>1, <2>2, <2>3, <2>4 DEF Reads
  <1> QED  BY <1>1, <1>3, <1>4, <1>5, SameDbRows DEF OwnRow

LEMMA DeleteOfRows ==
  ASSUME VPortsAssumption, Base, Rows, NEW t \in Threads, NEW p \in Ports, DeleteOf(t, p), Live(p), ~Inside(t), ~Leaving(t),
         UNCHANGED <<db, backendVars, lockVars, off>>
  PROVE  Rows'
  <1>1. Alone(t) /\ th'[t] = [pc |-> LabelOf(db[p], "delVnic"), op |-> "delete", p |-> p, arg |-> NoDevice, orig |-> db[p]]
    BY DeleteOfBase
  <1>2. th'[t].pc \in {"lock", "delVnic"} /\ th'[t].op = "delete"
    BY <1>1 DEF LabelOf
  <1>3. OwnRow(t) /\ KeepsLeaving(t)
    BY <1>2 DEF OwnRow, Reads, Lives, Deletes, UpdateOps, Changing, KeepsLeaving
  <1> QED  BY <1>1, <1>3, SameDbRows

LEMMA DeleteReadRows == ASSUME VPortsAssumption, Base, Rows, NEW t \in Threads, DeleteRead(t) PROVE Rows'
  <1>1. th[t].pc = "delRead" /\ ~Inside(t) /\ ~Leaving(t) /\ th[t].p \in Ports /\ UNCHANGED <<db, backendVars, off>>
    BY ThreadTypes DEF DeleteRead, At, Inside, Leaving
  <1>2. CASE Live(th[t].p)
    BY <1>1, <1>2, DeleteOfRows DEF DeleteRead
  <1>3. CASE ~Live(th[t].p)
    BY <1>1, <1>3, EndEnds, EndsRows DEF DeleteRead
  <1> QED  BY <1>2, <1>3

LEMMA DeleteVnicRows == ASSUME VPortsAssumption, Base, Rows, NEW t \in Threads, DeleteVnic(t) PROVE Rows'
  <1>1. th[t].pc = "delVnic" /\ UNCHANGED <<db, lockVars>> /\ off \subseteq off' /\ Stale(t) \subseteq off'
        /\ th[t] \in Request /\ Asked(t)
    BY ThreadTypes DEF DeleteVnic, At, Stale
  <1>2. PICK l \in {"removeCount", "delDb"} : Goto(t, l)
    BY DEF DeleteVnic
  <1>3. Goes(t, l)
    BY <1>1, <1>2, GotoGoes DEF Labels
  <1>4. /\ th'[t].op = "delete" /\ th'[t].p = th[t].p /\ th'[t].orig = th[t].orig /\ th'[t].pc = l /\ Alone(t)
    BY <1>1, <1>3 DEF Goes, Request, Asked
  <1>5. KeepsLeaving(t) /\ Reads(t)' /\ Lives(t)'
    BY <1>1, <1>4 DEF KeepsLeaving, Leaving, Reads, Lives, UpdateOps, Changing
  <1>6. Deletes(t)'
    <2>1. ASSUME Compute(th[t].orig), th[t].orig.dev \notin off' PROVE db[th[t].p] = th[t].orig /\ VnicOf(th[t].orig) = th[t].orig.vnic
      BY <1>1, <2>1 DEF Stale, Compute
    <2> QED  BY <1>1, <1>4, <2>1 DEF Deletes, Compute, VnicOf
  <1> QED  BY <1>1, <1>4, <1>5, <1>6, SameDbRows DEF OwnRow

\* What a step does to a port that another request is at work on.
Does(t, q) ==
  \/ db'[q] = db[q]
  \/ /\ Inside(t)
     /\ \/ db'[q] = Absent /\ (db[q].dev \in off' \cup {NoDevice} \/ th[t].orig.dev = db[q].dev)
        \/ /\ db'[q] = [db[q] EXCEPT !.vnic = NoVnic] /\ db[q].vnic # NoVnic
           /\ db[q].vnic[1] \in off' /\ db[q].vnic[1] = th[t].orig.dev
        \/ th[t].op \in UpdateOps /\ th[t].p = q /\ (th[t].orig.dev = db[q].dev \/ VnicOf(db[q]) # db[q].vnic)
LEMMA OneHolder ==
  ASSUME Base, NEW t \in Threads, NEW u \in Threads, Inside(t), Inside(u), Compute(th[u].orig), th[t].orig.dev = th[u].orig.dev
  PROVE  t = u
  BY DEF Base, Locks, Compute
LEMMA OneUpdate ==
  ASSUME Base, NEW t \in Threads, NEW u \in Threads, th[t].op \in UpdateOps, th[u].op \in UpdateOps, th[t].p = th[u].p
  PROVE  t = u
  BY DEF Base, Locks
LEMMA OthersRows ==
  ASSUME VPortsAssumption, Base, Rows, NEW t \in Threads, Alone(t), off \subseteq off',
         \A q \in Ports : Does(t, q) \/ \A u \in Threads : th[u].p # q
  PROVE  \A u \in Threads \ {t} : Reads(u)' /\ Lives(u)' /\ Deletes(u)'
  <1> SUFFICES ASSUME NEW u \in Threads \ {t} PROVE Reads(u)' /\ Lives(u)' /\ Deletes(u)'
    OBVIOUS
  <1>1. th'[u] = th[u] /\ Reads(u) /\ Lives(u) /\ Deletes(u)
    BY DEF Alone, Rows
  <1>2. CASE th[u].pc = "idle"
    <2>1. th[u] = Idle
      BY <1>2 DEF Base, Asked
    <2> QED  BY <1>1, <2>1 DEF Reads, Lives, Deletes, Idle, UpdateOps, Changing
  <1>3. CASE th[u].pc # "idle"
    <2>1. PICK q \in Ports : q = th[u].p /\ Does(t, q)
      BY <1>3, ThreadTypes
    <2>2. PICK x \in Port : x = th[u].orig
      BY <1>3, ThreadTypes
    <2>3. Asked(u) /\ th[u].op \in Ops /\ db[q] \in Port /\ db'[q].live = Live(q)' /\ db[q].live = Live(q)
      BY <1>3, ThreadTypes DEF Base, Types, Live
    <2>4. Inside(t) /\ Inside(u) /\ Compute(x) => th[t].orig.dev # x.dev
      BY <2>2, OneHolder
    <2>5. th[u].op \in UpdateOps => ~(th[t].op \in UpdateOps /\ th[t].p = q)
      BY <2>1, OneUpdate
    <2>6. CASE db'[q] = db[q]
      <3>1. Reads(u)'
        BY <1>1, <2>1, <2>6 DEF Reads, Before, Live, Plugged
      <3>2. Lives(u)'
        BY <1>1, <2>1, <2>6 DEF Lives, Live, Compute
      <3>3. Deletes(u)'
        BY <1>1, <2>1, <2>6 DEF Deletes, Compute, VnicOf
      <3> QED  BY <3>1, <3>2, <3>3
    <2>7. CASE /\ Inside(t) /\ db'[q] = Absent
               /\ (db[q].dev \in off' \cup {NoDevice} \/ th[t].orig.dev = db[q].dev)
      <3>1. Reads(u)'
        <4>1. ~db'[q].live
          BY <2>7 DEF Absent
        <4> QED  BY <1>1, <2>1, <4>1 DEF Reads, Live
      <3>2. ASSUME /\ \/ th[u].op \in Changing /\ th[u].pc \in {"post", "addCount", "add", "removeCount", "remove", "groups"}
                      \/ th[u].op = "plug" /\ th[u].pc \in {"addCount", "add", "db", "post"}
                   /\ Compute(x)
            PROVE  x.dev \in off'
        <4>1. Live(q) \/ x.dev \in off
          BY <1>1, <2>1, <2>2, <3>2 DEF Lives
        <4>2. Live(q) => db[q].dev = x.dev
          <5>1. th[u].op \in UpdateOps /\ th[u].op \notin Moving /\ (th[u].op = "attach" => th[u].arg \in Devices)
            BY <3>2 DEF UpdateOps, Changing, Moving
          <5>2. Updated(x, th[u].op, th[u].arg).dev = x.dev
            BY <2>3, <5>1, UpdatedType
          <5> QED  BY <1>1, <2>1, <2>2, <5>1, <5>2 DEF Reads
        <4>3. Inside(u)
          BY <3>2 DEF Inside, Changing
        <4> QED  BY <2>4, <2>7, <3>2, <4>1, <4>2, <4>3 DEF Compute
      <3>3. ASSUME th[u].op = "delete", th[u].pc \in {"removeCount", "remove", "delDb"}, Compute(x), x.dev \notin off'
            PROVE  FALSE
        <4>1. db[q] = x /\ Inside(u)
          BY <1>1, <2>1, <2>2, <3>3 DEF Deletes, Inside
        <4> QED  BY <2>4, <2>7, <3>3, <4>1 DEF Compute
      <3> QED  BY <1>1, <2>1, <2>2, <3>1, <3>2, <3>3 DEF Lives, Deletes, Compute
    <2>8. CASE /\ Inside(t) /\ db'[q] = [db[q] EXCEPT !.vnic = NoVnic] /\ db[q].vnic # NoVnic
               /\ db[q].vnic[1] \in off' /\ db[q].vnic[1] = th[t].orig.dev
      <3>1. /\ db'[q].dev = db[q].dev /\ db'[q].sec = db[q].sec /\ db'[q].groups = db[q].groups /\ db'[q].vnic = NoVnic
            /\ db'[q].live = db[q].live
        BY <2>3, <2>8 DEF Port
      <3>2. ASSUME th[u].op \in UpdateOps, Live(q)
            PROVE  /\ th[u].op = "plug" => th[u].pc \in {"lock", "plug"}
                   /\ x.dev \in off'
        <4>1. th[u].op = "plug" => th[u].pc \in {"lock", "plug"}
          <5>1. ASSUME th[u].op = "plug", th[u].pc \notin {"lock", "plug"} PROVE FALSE
            <6>1. db[q].vnic = <<x.dev, th[u].arg>> /\ Compute(x) /\ Inside(u)
              BY <1>1, <1>3, <2>1, <2>2, <2>3, <2>8, <3>2, <5>1 DEF Reads, Plugged, Asked, Inside
            <6> QED  BY <2>4, <2>8, <6>1
          <5> QED  BY <5>1
        <4>2. x.vnic = db[q].vnic
          BY <1>1, <2>1, <2>2, <2>8, <3>2, <4>1 DEF Reads
        <4>3. x.vnic # NoVnic /\ x.vnic[1] = x.dev
          BY <1>1, <2>2, <2>8, <3>2, <4>2 DEF Reads
        <4> QED  BY <2>8, <4>1, <4>2, <4>3
      <3>3. Reads(u)'
        BY <1>1, <2>1, <2>2, <2>3, <3>1, <3>2 DEF Reads, Before
      <3>4. Lives(u)'
        BY <1>1, <2>1, <2>3, <3>1 DEF Lives, Compute
      <3>5. ASSUME th[u].op = "delete", th[u].pc \in {"removeCount", "remove", "delDb"}, Compute(x), x.dev \notin off'
            PROVE  FALSE
        <4>1. db[q] = x /\ VnicOf(x) = x.vnic
          BY <1>1, <2>1, <2>2, <3>5 DEF Deletes
        <4>2. x.vnic[1] = x.dev
          BY <2>8, <4>1 DEF VnicOf
        <4> QED  BY <2>8, <3>5, <4>1, <4>2
      <3> QED  BY <1>1, <2>2, <3>3, <3>4, <3>5 DEF Deletes, Compute
    <2>9. CASE /\ Inside(t) /\ th[t].op \in UpdateOps /\ th[t].p = q
               /\ (th[t].orig.dev = db[q].dev \/ VnicOf(db[q]) # db[q].vnic)
      <3>1. Reads(u)' /\ Lives(u)'
        BY <1>1, <2>5, <2>9 DEF Reads, Lives, UpdateOps, Changing
      <3>2. ASSUME th[u].op = "delete", th[u].pc \in {"removeCount", "remove", "delDb"}, Compute(x), x.dev \notin off'
            PROVE  FALSE
        <4>1. db[q] = x /\ VnicOf(x) = x.vnic /\ Inside(u)
          BY <1>1, <2>1, <2>2, <3>2 DEF Deletes, Inside
        <4> QED  BY <2>4, <2>9, <3>2, <4>1
      <3> QED  BY <1>1, <2>2, <3>1, <3>2 DEF Deletes, Compute
    <2> QED  BY <2>1, <2>6, <2>7, <2>8, <2>9 DEF Does
  <1> QED  BY <1>2, <1>3

LEMMA CreateRows ==
  ASSUME VPortsAssumption, Base, Rows, NEW t \in Threads, NEW p \in Ports, NEW x \in NewPorts, Create(t, p, x) PROVE Rows'
  <1>1. /\ db' = [db EXCEPT ![p] = x] /\ off' = off /\ x.vnic = NoVnic
        /\ th[t] = Idle /\ \A u \in Threads : th[u].p # p
    BY DEF Create, Fresh, MayStart, NewPorts
  <1>2. Alone(t) /\ (th'[t] = Idle \/ th'[t].op = "create")
    <2>1. th' \in [Threads -> Request]
      BY CreateBase DEF Base, Types
    <2> QED  BY <1>1, <2>1 DEF Create, Alone, Base, Types
  <1>3. db'[p] = x /\ \A q \in Ports \ {p} : db'[q] = db[q]
    BY <1>1 DEF Base, Types
  <1>4. OneVnic'
    BY <1>1, <1>3 DEF Rows, OneVnic
  <1>5. \A q \in Ports : OnDevice(q)'
    <2>1. OnDevice(p)'
      BY <1>1, <1>3 DEF OnDevice
    <2>2. KeepsLeaving(t)
      BY <1>1 DEF KeepsLeaving, Leaving, Idle, Moving
    <2> QED  BY <1>1, <1>2, <1>3, <2>1, <2>2, DeviceFrame
  <1>6. OwnRow(t)
    BY <1>2 DEF OwnRow, Reads, Lives, Deletes, Idle, UpdateOps, Changing
  <1>7. \A u \in Threads \ {t} : Reads(u)' /\ Lives(u)' /\ Deletes(u)'
    <2>1. \A q \in Ports : Does(t, q) \/ \A u \in Threads : th[u].p # q
      BY <1>1, <1>3 DEF Does
    <2> QED  BY <1>1, <1>2, <2>1, OthersRows
  <1> QED  BY <1>4, <1>5, <1>6, <1>7 DEF Rows, OwnRow

LEMMA UnmapRows == ASSUME VPortsAssumption, Base, Rows, NEW t \in Threads, Unmap(t) PROVE Rows'
  <1>1. /\ th[t].pc = "unmap" /\ Asked(t) /\ th[t] \in Request /\ th[t].p \in Ports /\ th[t].orig \in Port /\ off' = off
        /\ th[t].op \in Moving /\ Inside(t) /\ th[t].op \in UpdateOps
    BY ThreadTypes DEF Unmap, At, Asked, Inside, Moving, UpdateOps
  <1>2. PICK p \in Ports : p = th[t].p
    BY <1>1
  <1>3. Goes(t, "unbindRead")
    BY <1>1, GotoGoes DEF Unmap, Labels
  <1>4. /\ Alone(t) /\ th'[t].op = th[t].op /\ th'[t].p = p /\ th'[t].orig = th[t].orig /\ th'[t].arg = th[t].arg
        /\ th'[t].pc = "unbindRead"
    BY <1>1, <1>2, <1>3 DEF Goes, Request
  <1>5. /\ db[p] \in Port /\ db' = [db EXCEPT ![p].vnic = NoVnic] /\ db'[p] = [db[p] EXCEPT !.vnic = NoVnic]
        /\ \A q \in Ports \ {p} : db'[q] = db[q]
    BY <1>2, BaseData DEF Unmap, Data
  <1>6. /\ db'[p].vnic = NoVnic /\ db'[p].dev = db[p].dev /\ db'[p].sec = db[p].sec /\ db'[p].groups = db[p].groups
        /\ db'[p].live = db[p].live
    BY <1>5 DEF Port
  <1>7. OneVnic'
    BY <1>5, <1>6 DEF Rows, OneVnic
  <1>8. KeepsLeaving(t)
    BY <1>2, <1>6 DEF KeepsLeaving
  <1>9. \A q \in Ports : OnDevice(q)'
    <2>1. OnDevice(p)'
      BY <1>6 DEF OnDevice
    <2> QED  BY <1>1, <1>4, <1>5, <1>8, <2>1, DeviceFrame
  <1>10. OwnRow(t)
    <2>1. Reads(t)
      BY DEF Rows
    <2>2. Reads(t)'
      BY <1>1, <1>2, <1>4, <1>6, <2>1 DEF Reads, Before, Live, Moving
    <2> QED  BY <1>1, <1>4, <2>2 DEF OwnRow, Lives, Deletes, Changing, Moving
  <1>11. Does(t, p)
    <2>1. CASE db[p].vnic = NoVnic
      <3>1. \A y \in Port : y.vnic = NoVnic => [y EXCEPT !.vnic = NoVnic] = y
        BY DEF Port
      <3> QED  BY <1>5, <2>1, <3>1 DEF Does
    <2>2. CASE db[p].vnic # NoVnic
      <3>1. Live(p)
        BY <2>2 DEF Base, Types, Absent
      <3>2. Reads(t) /\ th[t].op # "plug" /\ ~Before(t)
        BY <1>1 DEF Rows, Moving, Before
      <3>3. db[p].vnic = th[t].orig.vnic /\ db[p].dev = Updated(th[t].orig, th[t].op, th[t].arg).dev
        BY <1>1, <1>2, <2>2, <3>1, <3>2 DEF Reads
      <3>4. db[p].vnic[1] = th[t].orig.dev
        BY <1>1, <2>2, <3>2, <3>3 DEF Reads
      <3>5. Updated(th[t].orig, th[t].op, th[t].arg).dev # th[t].orig.dev
        BY <1>1 DEF Updated, Asked, Moving, Compute, Port
      <3>6. VnicOf(db[p]) # db[p].vnic
        BY <2>2, <3>3, <3>4, <3>5 DEF VnicOf
      <3> QED  BY <1>1, <1>2, <3>6 DEF Does
    <2> QED  BY <2>1, <2>2
  <1>12. \A u \in Threads \ {t} : Reads(u)' /\ Lives(u)' /\ Deletes(u)'
    <2>1. \A q \in Ports : Does(t, q)
      BY <1>5, <1>11 DEF Does
    <2> QED  BY <1>1, <1>4, <2>1, OthersRows
  <1> QED  BY <1>7, <1>9, <1>10, <1>12 DEF Rows, OwnRow

LEMMA DeleteDbRows == ASSUME VPortsAssumption, Base, Rows, NEW t \in Threads, DeleteDb(t) PROVE Rows'
  <1>1. /\ th[t].pc = "delDb" /\ Asked(t) /\ th[t] \in Request /\ th[t].p \in Ports /\ th[t].op = "delete" /\ Inside(t)
    BY ThreadTypes DEF DeleteDb, At, Asked, Inside
  <1>2. PICK p \in Ports : p = th[t].p
    BY <1>1
  <1>3. /\ db' = [db EXCEPT ![p] = Absent] /\ off' = Stale(t) /\ off \subseteq off'
    BY <1>2 DEF DeleteDb, Stale
  <1>4. db'[p] = Absent /\ Absent.vnic = NoVnic /\ \A q \in Ports \ {p} : db'[q] = db[q]
    BY <1>3, BaseData DEF Data, Absent
  <1>5. Ends(t) \/ Goes(t, "unbindRead")
    <2>1. End(t) \/ (Goto(t, "unbindRead") /\ UNCHANGED lockVars)
      BY DEF DeleteDb
    <2> QED  BY <1>1, <2>1, EndEnds, GotoGoes DEF Labels
  <1>6. Alone(t) /\ (th'[t] = Idle \/ (th'[t].op = "delete" /\ th'[t].pc = "unbindRead"))
    BY <1>1, <1>5 DEF Ends, Goes, Request
  <1>7. OneVnic'
    BY <1>4 DEF Rows, OneVnic
  <1>8. KeepsLeaving(t)
    BY <1>1 DEF KeepsLeaving, Leaving, Moving
  <1>9. \A q \in Ports : OnDevice(q)'
    <2>1. OnDevice(p)'
      BY <1>4 DEF OnDevice
    <2> QED  BY <1>3, <1>4, <1>6, <1>8, <2>1, DeviceFrame
  <1>10. OwnRow(t)
    BY <1>6 DEF OwnRow, Reads, Lives, Deletes, Idle, UpdateOps, Changing
  <1>11. Does(t, p)
    BY <1>1, <1>2, <1>3, <1>4 DEF Does, Stale
  <1>12. \A u \in Threads \ {t} : Reads(u)' /\ Lives(u)' /\ Deletes(u)'
    <2>1. \A q \in Ports : Does(t, q)
      BY <1>4, <1>11 DEF Does
    <2> QED  BY <1>3, <1>6, <2>1, OthersRows
  <1> QED  BY <1>7, <1>9, <1>10, <1>12 DEF Rows, OwnRow

\* What mapping a vnic does: it is another port's no more.
Maps(t, p, v, taken) ==
  /\ p = th[t].p /\ v = Plugged(t) /\ p \notin taken /\ taken = Taken(t)
  /\ db'[p] = [db[p] EXCEPT !.vnic = v] /\ db'[p].vnic = v /\ db'[p].dev = th[t].orig.dev
  /\ db'[p].sec = db[p].sec /\ db'[p].groups = db[p].groups /\ db'[p].live /\ db[p].live
  /\ db[p].dev = th[t].orig.dev /\ db[p].sec = th[t].orig.sec /\ db[p].groups = th[t].orig.groups
  /\ \A q \in taken : db'[q] = [db[q] EXCEPT !.vnic = NoVnic] /\ db'[q].vnic = NoVnic /\ db[q].vnic = v
  /\ \A q \in Ports \ (taken \cup {p}) : db'[q] = db[q] /\ db[q].vnic # v
  /\ th[t].orig.vnic = NoVnic /\ db[p].vnic = NoVnic
LEMMA MapDoes ==
  ASSUME VPortsAssumption, Base, Rows, NEW t \in Threads, th[t].pc = "plug", Map(t), ~Known(t)
  PROVE  \E p \in Ports, v \in Vnics, taken \in SUBSET Ports : Maps(t, p, v, taken)
  <1>1. /\ Asked(t) /\ th[t].op = "plug" /\ th[t].p \in Ports /\ th[t].orig \in Port
    BY ThreadTypes DEF Asked
  <1>2. PICK p \in Ports, v \in Vnics : p = th[t].p /\ v = Plugged(t)
    BY <1>1 DEF Asked, Vnics, Compute, Port, AnyDevice, Plugged
  <1>3. PICK taken \in SUBSET Ports : taken = Taken(t) /\ taken = {q \in Ports \ {p} : Live(q) /\ db[q].vnic = v}
    BY <1>2 DEF Taken
  <1>4. /\ db' = [q \in Ports |-> IF q = p THEN [db[q] EXCEPT !.vnic = v]
                                  ELSE IF q \in taken THEN [db[q] EXCEPT !.vnic = NoVnic] ELSE db[q]]
        /\ Live(p)
    BY <1>2, <1>3 DEF Map
  <1>5. ASSUME NEW q \in taken PROVE db'[q] = [db[q] EXCEPT !.vnic = NoVnic] /\ db'[q].vnic = NoVnic /\ db[q].vnic = v
    <2>1. db[q] \in Port /\ q # p /\ q \in Ports
      BY <1>3, <1>5 DEF Base, Types
    <2>2. db'[q] = [db[q] EXCEPT !.vnic = NoVnic]
      BY <1>4, <1>5, <2>1
    <2> QED  BY <1>3, <1>5, <2>1, <2>2 DEF Port
  <1>6. db'[p] = [db[p] EXCEPT !.vnic = v]
    BY <1>4
  <1>7. ASSUME NEW q \in Ports \ (taken \cup {p}) PROVE db'[q] = db[q] /\ db[q].vnic # v
    <2>1. db'[q] = db[q]
      BY <1>4
    <2>2. db[q].vnic = v => ~Live(q)
      BY <1>3
    <2>3. ~Live(q) => db[q].vnic = NoVnic
      BY DEF Base, Types, Absent
    <2> QED  BY <2>1, <2>2, <2>3 DEF VPortsAssumption, Vnics
  <1>8. /\ db'[p].vnic = v /\ db'[p].dev = db[p].dev /\ db'[p].sec = db[p].sec /\ db'[p].groups = db[p].groups
        /\ db'[p].live /\ db[p].live
    <2>1. db[p] \in Port /\ db[p].live
      BY <1>4 DEF Base, Types, Live
    <2> QED  BY <1>6, <2>1 DEF Port
  <1>9. /\ db[p].dev = th[t].orig.dev /\ db[p].sec = th[t].orig.sec /\ db[p].groups = th[t].orig.groups
        /\ db[p].vnic \in {NoVnic, th[t].orig.vnic}
    <2>1. Reads(t) /\ Before(t) /\ th[t].op \in UpdateOps
      BY <1>1 DEF Rows, Before, UpdateOps
    <2> QED  BY <1>2, <1>4, <2>1 DEF Reads
  <1>10. th[t].orig.vnic = NoVnic
    BY <1>1 DEF Asked, Known, Plugged
  <1>11. p \notin taken
    BY <1>3
  <1>12. Maps(t, p, v, taken)
    BY <1>2, <1>3, <1>5, <1>6, <1>7, <1>8, <1>9, <1>10, <1>11 DEF Maps
  <1> QED  BY <1>12

\* What a request that plugs a vnic owes: of the vnic that was another port's, and of the port it read.
Noted(t) == off \subseteq off' /\ off' \subseteq off \cup ({th[t].orig.dev, db[th[t].p].dev} \ {NoDevice})
            /\ (Taken(t) # {} => th[t].orig.dev \in off')
LEMMA PlugNotes ==
  ASSUME VPortsAssumption, Base, NEW t \in Threads, Plug(t) \/ PlugFails(t)
  PROVE  /\ th[t].pc = "plug" /\ Asked(t) /\ th[t].op = "plug" /\ th[t].p \in Ports /\ th[t] \in Request
         /\ th[t].orig \in Port /\ th[t].orig.live /\ Inside(t) /\ ~Leaving(t) /\ ~Pending(t)
         /\ Compute(th[t].orig) /\ th[t].orig.dev \in Devices
         /\ Map(t) /\ Noted(t) /\ UNCHANGED <<excluded, bind>>
         /\ \A g, v : v # Plugged(t) => (<<g, v>> \in member' <=> <<g, v>> \in member)
         /\ \/ PlugFails(t) /\ Ends(t) /\ th[t].orig.dev \in off'
            \/ /\ Goes(t, IF th[t].orig.sec THEN "db" ELSE "addCount") /\ UNCHANGED lockVars
               /\ member' = member \cup MembersOf(th[t].orig, Plugged(t))
               /\ th[t].orig.dev \notin off' => th[t].orig = db[th[t].p]
  <1>1. /\ th[t].pc = "plug" /\ Asked(t) /\ th[t].op = "plug" /\ th[t].p \in Ports /\ th[t] \in Request
        /\ th[t].orig \in Port /\ th[t].orig.live /\ Compute(th[t].orig) /\ Map(t) /\ UNCHANGED <<excluded, bind>>
    BY ThreadTypes DEF Plug, PlugFails, At, Asked
  <1>2. th[t].orig.dev \in Devices /\ Inside(t) /\ ~Leaving(t) /\ ~Pending(t)
    BY <1>1 DEF Compute, Port, AnyDevice, Inside, Leaving, Pending, Moving, Changing
  <1>3. Noted(t)
    BY <1>1 DEF Plug, PlugFails, Noted, Stale, Compute
  <1>4. \A g, v : v # Plugged(t) => (<<g, v>> \in member' <=> <<g, v>> \in member)
    <2>1. PICK ms \in SUBSET MembersOf(th[t].orig, Plugged(t)) : member' = member \cup ms
      BY DEF Plug, PlugFails
    <2>2. \A g, v : <<g, v>> \in MembersOf(th[t].orig, Plugged(t)) => v = Plugged(t)
      BY DEF MembersOf
    <2> QED  BY <2>1, <2>2
  <1>5. CASE Plug(t)
    <2>1. PICK l \in {"db", "addCount"} : l = (IF th[t].orig.sec THEN "db" ELSE "addCount") /\ Goto(t, l) /\ UNCHANGED lockVars
      BY <1>5 DEF Plug
    <2>2. Goes(t, l)
      BY <1>1, <2>1, GotoGoes DEF Labels
    <2>3. th[t].orig.dev \notin off' => th[t].orig = db[th[t].p]
      BY <1>1, <1>5 DEF Plug, Stale, Compute
    <2> QED  BY <1>1, <1>2, <1>3, <1>4, <1>5, <2>1, <2>2, <2>3 DEF Plug
  <1>6. CASE PlugFails(t)
    BY <1>1, <1>2, <1>3, <1>4, <1>6, EndEnds DEF PlugFails
  <1> QED  BY <1>5, <1>6

\* A request that was at "plug" and has mapped the vnic has read its port.
LEMMA PlugOwn ==
  ASSUME VPortsAssumption, Base, Rows, NEW t \in Threads, Plug(t) \/ PlugFails(t) PROVE OwnRow(t) /\ Alone(t)
  <1>1. CASE Ends(t)
    BY <1>1 DEF Ends, OwnRow, Reads, Lives, Deletes, Idle, UpdateOps, Changing
  <1>2. CASE ~Ends(t)
    <2>1. PICK l \in {"db", "addCount"} : Goes(t, l)
      BY <1>2, PlugNotes
    <2>2. PICK x, p : /\ x = th[t].orig /\ p = th[t].p
                      /\ th[t] \in Request /\ th[t].op = "plug" /\ th[t].pc = "plug"
      BY PlugNotes
    <2>3. /\ Alone(t) /\ th'[t].op = "plug" /\ th'[t].p = p /\ th'[t].orig = x /\ th'[t].arg = th[t].arg
          /\ th'[t].pc = l /\ Plugged(t)' = Plugged(t)
      BY <2>1, <2>2 DEF Goes, Request, Plugged
    <2>4. Reads(t) /\ th[t].op \in UpdateOps /\ Before(t) /\ Updated(x, "plug", th[t].arg) = x /\ off \subseteq off'
      BY PlugNotes DEF Rows, UpdateOps, Before, Updated, Noted
    <2>5. CASE Known(t)
      <3>1. db' = db /\ x.vnic = Plugged(t)
        BY <2>2, <2>5, PlugNotes DEF Map, Known
      <3>2. x.dev \notin off' => x = db[p] /\ x.live
        BY <1>2, <2>2, PlugNotes
      <3>3. Reads(t)'
        <4>1. (IF Before(t) THEN x ELSE Updated(x, th[t].op, th[t].arg)) = x
          BY <2>4
        <4>2. /\ x.vnic # NoVnic => x.vnic \in Vnics /\ x.vnic[1] = x.dev
              /\ db[p].live =>
                   /\ db[p].dev = x.dev /\ db[p].sec = x.sec /\ db[p].groups = x.groups
                   /\ db[p].vnic = Plugged(t) \/ (db[p].vnic = NoVnic /\ x.dev \in off)
          BY <2>2, <2>4, <3>1, <4>1 DEF Reads, Live
        <4>3. PICK r : /\ r = th'[t] /\ r.op = "plug" /\ r.p = p /\ r.orig = x /\ r.pc \notin {"lock", "plug", "unbindRead", "unbind"}
                       /\ Updated(x, r.op, r.arg) = x /\ Plugged(t)' = Plugged(t)
          BY <2>3, <2>4
        <4> QED  BY <2>4, <3>1, <4>2, <4>3 DEF Reads, Live, Before
      <3>4. Lives(t)' /\ Deletes(t)'
        BY <2>3, <3>1, <3>2 DEF Lives, Deletes, Live
      <3> QED  BY <2>3, <3>3, <3>4 DEF OwnRow
    <2>6. CASE ~Known(t)
      <3>1. PICK v \in Vnics, taken \in SUBSET Ports : Maps(t, p, v, taken)
        <4>1. Map(t)
          BY PlugNotes
        <4>2. PICK r \in Ports, v \in Vnics, taken \in SUBSET Ports : Maps(t, r, v, taken)
          BY <2>2, <2>6, <4>1, MapDoes
        <4>3. r = p
          BY <2>2, <4>2 DEF Maps
        <4> QED  BY <4>2, <4>3
      <3>2. /\ db'[p].vnic = Plugged(t) /\ db'[p].dev = x.dev /\ db'[p].sec = x.sec /\ db'[p].groups = x.groups /\ db'[p].live
            /\ x.vnic = NoVnic
        BY <2>2, <3>1 DEF Maps
      <3>3. Reads(t)'
        BY <2>3, <2>4, <3>2 DEF Reads
      <3>4. Lives(t)' /\ Deletes(t)'
        BY <2>3, <3>2 DEF Lives, Deletes, Live
      <3> QED  BY <2>3, <3>3, <3>4 DEF OwnRow
    <2> QED  BY <2>5, <2>6
  <1> QED  BY <1>1, <1>2 DEF Ends

LEMMA PlugRows == ASSUME VPortsAssumption, Base, Rows, NEW t \in Threads, Plug(t) \/ PlugFails(t) PROVE Rows'
  <1>1. /\ th[t].pc = "plug" /\ th[t].op = "plug" /\ th[t].p \in Ports /\ Inside(t) /\ off \subseteq off' /\ KeepsLeaving(t)
        /\ OwnRow(t) /\ Alone(t)
    BY PlugNotes, PlugOwn DEF Noted, KeepsLeaving
  <1>2. CASE Known(t)
    <2>1. db' = db
      BY <1>2, PlugNotes DEF Map
    <2> QED  BY <1>1, <2>1, SameDbRows
  <1>3. CASE ~Known(t)
    <2>0. PICK p \in Ports, v \in Vnics, taken \in SUBSET Ports : Maps(t, p, v, taken)
      BY <1>3, PlugNotes, MapDoes
    <2>1. /\ p = th[t].p /\ v = <<th[t].orig.dev, th[t].arg>> /\ p \notin taken
          /\ db'[p].vnic = v /\ db'[p].dev = th[t].orig.dev /\ db[p].dev = th[t].orig.dev
          /\ \A q \in taken : db'[q] = [db[q] EXCEPT !.vnic = NoVnic] /\ db'[q].vnic = NoVnic /\ db[q].vnic = v
          /\ \A q \in Ports \ (taken \cup {p}) : db'[q] = db[q] /\ db[q].vnic # v
          /\ taken # {} => th[t].orig.dev \in off'
      BY <2>0, PlugNotes DEF Maps, Plugged, Noted
    <2>2. OneVnic'
      <3>1. ASSUME NEW q \in Ports, NEW r \in Ports, db'[q].vnic # NoVnic, db'[q].vnic = db'[r].vnic PROVE q = r
        <4>1. q \notin taken /\ r \notin taken
          BY <2>1, <3>1
        <4>2. CASE q # p /\ r # p
          BY <2>1, <3>1, <4>1, <4>2 DEF Rows, OneVnic
        <4>3. CASE q = p \/ r = p
          <5>1. db'[p].vnic = v /\ \A z \in Ports \ (taken \cup {p}) : db'[z].vnic # v
            BY <2>1
          <5> QED  BY <3>1, <4>1, <4>3, <5>1
        <4> QED  BY <4>2, <4>3
      <3> QED  BY <3>1 DEF OneVnic
    <2>3. \A q \in Ports : OnDevice(q)'
      <3>1. OnDevice(p)'
        <4>1. v \in Vnics /\ db'[p].vnic = v /\ db'[p].dev = v[1]
          BY <2>1
        <4> QED  BY <4>1 DEF OnDevice
      <3>2. \A q \in taken : OnDevice(q)'
        BY <2>1 DEF OnDevice
      <3>3. \A q \in Ports \ (taken \cup {p}) : OnDevice(q)'
        BY <1>1, <2>1, DeviceFrame
      <3> QED  BY <3>1, <3>2, <3>3
    <2>4. \A u \in Threads \ {t} : Reads(u)' /\ Lives(u)' /\ Deletes(u)'
      <3>1. Does(t, p)
        BY <1>1, <2>1 DEF Does, UpdateOps
      <3>2. ASSUME NEW q \in taken PROVE Does(t, q)
        <4>1. v[1] = th[t].orig.dev /\ v # NoVnic
          BY <2>1 DEF VPortsAssumption, Vnics
        <4> QED  BY <1>1, <2>1, <3>2, <4>1 DEF Does
      <3>3. \A q \in Ports : Does(t, q)
        BY <2>1, <3>1, <3>2 DEF Does
      <3> QED  BY <1>1, <3>3, OthersRows
    <2> QED  BY <1>1, <2>2, <2>3, <2>4 DEF Rows, OwnRow
  <1> QED  BY <1>2, <1>3

\* What the change of the port itself does.
Changes(t, p, y, l) ==
  /\ p = th[t].p /\ y = Updated(db[p], th[t].op, th[t].arg) /\ db'[p] = y
  /\ \A q \in Ports \ {p} : db'[q] = db[q]
  /\ y.live /\ y.vnic = db[p].vnic /\ y.dev = Updated(th[t].orig, th[t].op, th[t].arg).dev
  /\ y.sec = Updated(th[t].orig, th[t].op, th[t].arg).sec
  /\ y.groups = Updated(th[t].orig, th[t].op, th[t].arg).groups
  /\ db[p].dev = th[t].orig.dev /\ db[p].sec = th[t].orig.sec /\ db[p].groups = th[t].orig.groups
  /\ \/ y.vnic = IF th[t].op = "plug" THEN Plugged(t) ELSE th[t].orig.vnic
     \/ y.vnic = NoVnic /\ th[t].orig.dev \in off
  /\ l = (IF th[t].op = "attach" THEN "bindCheck" ELSE "post")
  /\ Goes(t, l) /\ UNCHANGED <<backendVars, lockVars, off>>
LEMMA UpdateDbDoes ==
  ASSUME VPortsAssumption, Base, Rows, NEW t \in Threads, UpdateDb(t), Live(th[t].p)
  PROVE  \E p \in Ports, y \in Port, l \in {"bindCheck", "post"} : Changes(t, p, y, l)
  <1>1. /\ th[t].pc = "db" /\ Asked(t) /\ th[t] \in Request /\ th[t].p \in Ports /\ th[t].orig \in Port /\ th[t].op \in UpdateOps
        /\ Reads(t) /\ Before(t)
    BY ThreadTypes DEF UpdateDb, At, Asked, Rows, Before
  <1>2. PICK p \in Ports : p = th[t].p
    BY <1>1
  <1>3. PICK y, l : /\ y = Updated(db[p], th[t].op, th[t].arg) /\ db' = [db EXCEPT ![p] = y]
                    /\ l = (IF th[t].op = "attach" THEN "bindCheck" ELSE "post") /\ l \in {"bindCheck", "post"} /\ Goto(t, l)
                    /\ UNCHANGED <<backendVars, lockVars, off>>
    BY <1>2 DEF UpdateDb
  <1>4. /\ db[p] \in Port /\ db[p].live /\ (th[t].op = "attach" => th[t].arg \in Devices) /\ th[t].op \in Ops
    BY <1>1, <1>2, BaseData DEF Data, Live, Asked, Ops
  <1>5. y \in Port /\ y.live /\ y.vnic = db[p].vnic
    BY <1>3, <1>4, UpdatedType
  <1>6. db'[p] = y /\ \A q \in Ports \ {p} : db'[q] = db[q]
    BY <1>3 DEF Base, Types
  <1>7. /\ db[p].dev = th[t].orig.dev /\ db[p].sec = th[t].orig.sec /\ db[p].groups = th[t].orig.groups
        /\ \/ db[p].vnic = IF th[t].op = "plug" THEN Plugged(t) ELSE th[t].orig.vnic
           \/ db[p].vnic = NoVnic /\ th[t].orig.dev \in off
    BY <1>1, <1>2, <1>4 DEF Reads, Live
  <1>8. /\ y.dev = Updated(th[t].orig, th[t].op, th[t].arg).dev
        /\ y.sec = Updated(th[t].orig, th[t].op, th[t].arg).sec
        /\ y.groups = Updated(th[t].orig, th[t].op, th[t].arg).groups
    <2>1. PICK x, z, op, arg : /\ x \in Port /\ z \in Port
                               /\ x = th[t].orig /\ z = db[p] /\ op = th[t].op /\ arg = th[t].arg
      BY <1>1, <1>4
    <2>2. x.dev = z.dev /\ x.sec = z.sec /\ x.groups = z.groups
      BY <1>7, <2>1
    <2>3. Updated(z, op, arg).dev = Updated(x, op, arg).dev
      BY <2>1, <2>2 DEF Updated, Port
    <2>4. Updated(z, op, arg).sec = Updated(x, op, arg).sec
      BY <2>1, <2>2 DEF Updated, Port
    <2>5. Updated(z, op, arg).groups = Updated(x, op, arg).groups
      BY <2>1, <2>2 DEF Updated, Port
    <2> QED  BY <1>3, <2>1, <2>3, <2>4, <2>5
  <1>9. Goes(t, l)
    BY <1>1, <1>3, GotoGoes DEF Labels
  <1>10. Changes(t, p, y, l)
    BY <1>2, <1>3, <1>5, <1>6, <1>7, <1>8, <1>9 DEF Changes
  <1> QED  BY <1>3, <1>5, <1>10

LEMMA UpdateDbRows == ASSUME VPortsAssumption, Base, Rows, NEW t \in Threads, UpdateDb(t) PROVE Rows'
  <1>1. /\ th[t].pc = "db" /\ Asked(t) /\ th[t] \in Request /\ th[t].p \in Ports /\ th[t].orig \in Port /\ th[t].op \in UpdateOps
        /\ Inside(t) /\ ~Leaving(t) /\ Reads(t) /\ off' = off
    BY ThreadTypes DEF UpdateDb, At, Asked, Inside, Leaving, UpdateOps, Rows
  <1>2. CASE ~Live(th[t].p)
    <2>1. Ends(t) /\ UNCHANGED <<db, off>>
      BY <1>2, EndEnds DEF UpdateDb
    <2> QED  BY <1>1, <2>1, EndsRows
  <1>3. CASE Live(th[t].p)
    <2>0. PICK p \in Ports, y \in Port, l \in {"bindCheck", "post"} : Changes(t, p, y, l)
      BY <1>3, UpdateDbDoes
    <2>1. /\ p = th[t].p /\ y = Updated(db[p], th[t].op, th[t].arg) /\ db'[p] = y
          /\ \A q \in Ports \ {p} : db'[q] = db[q]
          /\ y.live /\ y.vnic = db[p].vnic /\ y.dev = Updated(th[t].orig, th[t].op, th[t].arg).dev
          /\ y.sec = Updated(th[t].orig, th[t].op, th[t].arg).sec
          /\ y.groups = Updated(th[t].orig, th[t].op, th[t].arg).groups
          /\ db[p].dev = th[t].orig.dev
          /\ \/ y.vnic = IF th[t].op = "plug" THEN Plugged(t) ELSE th[t].orig.vnic
             \/ y.vnic = NoVnic /\ th[t].orig.dev \in off
          /\ l = (IF th[t].op = "attach" THEN "bindCheck" ELSE "post")
          /\ Goes(t, l)
      BY <2>0 DEF Changes
    <2>2. /\ Alone(t) /\ th'[t].op = th[t].op /\ th'[t].p = p /\ th'[t].orig = th[t].orig /\ th'[t].arg = th[t].arg
          /\ th'[t].pc = l
      BY <1>1, <2>1 DEF Goes, Request
    <2>3. OneVnic'
      BY <2>1 DEF Rows, OneVnic
    <2>4. KeepsLeaving(t)
      BY <1>1 DEF KeepsLeaving
    <2>5. OnDevice(p)'
      <3>1. CASE th[t].op \in Moving
        <4>1. Leaving(t)'
          BY <2>2, <3>1 DEF Leaving
        <4>2. th[t].op # "plug"
          BY <3>1 DEF Moving
        <4>3. y.vnic # NoVnic => y.vnic = th[t].orig.vnic /\ y.vnic \in Vnics
          BY <1>1, <2>1, <4>2 DEF Reads
        <4> QED  BY <2>1, <2>2, <4>1, <4>3 DEF OnDevice
      <3>2. CASE th[t].op \notin Moving
        <4>1. y.dev = th[t].orig.dev
          <5>1. th[t].op \in Ops /\ th[t].op # "attach"
            BY <1>1, <3>2 DEF Ops, Moving
          <5> QED  BY <1>1, <2>1, <3>2, <5>1, UpdatedType
        <4> QED  BY <1>1, <2>1, <2>2, <2>4, <4>1, DeviceFrame
      <3> QED  BY <3>1, <3>2
    <2>6. \A q \in Ports : OnDevice(q)'
      BY <1>1, <2>1, <2>2, <2>4, <2>5, DeviceFrame
    <2>7. OwnRow(t)
      <3>1. Reads(t)'
        <4>1. ~Before(t)' /\ (th[t].orig.vnic # NoVnic => th[t].orig.vnic \in Vnics /\ th[t].orig.vnic[1] = th[t].orig.dev)
          BY <1>1, <2>1, <2>2 DEF Before, Reads
        <4>2. LET x == Updated(th[t].orig, th[t].op, th[t].arg) IN
              y.dev = x.dev /\ y.sec = x.sec /\ y.groups = x.groups
          BY <2>1
        <4>3. /\ th'[t].pc \notin {"lock", "plug"} /\ th'[t].p = p /\ db'[p] = y /\ th'[t].orig = th[t].orig
              /\ th'[t].op = th[t].op /\ th'[t].arg = th[t].arg /\ off' = off
          BY <1>1, <2>1, <2>2
        <4>4. /\ \/ y.vnic = IF th[t].op = "plug" THEN Plugged(t) ELSE th[t].orig.vnic
                 \/ y.vnic = NoVnic /\ th[t].orig.dev \in off
              /\ Plugged(t)' = Plugged(t)
          BY <2>1, <2>2 DEF Plugged
        <4> QED  BY <4>1, <4>2, <4>3, <4>4 DEF Reads
      <3>2. Lives(t)' /\ Deletes(t)'
        BY <1>1, <2>1, <2>2 DEF Lives, Deletes, Live, UpdateOps
      <3> QED  BY <3>1, <3>2 DEF OwnRow
    <2>8. \A u \in Threads \ {t} : Reads(u)' /\ Lives(u)' /\ Deletes(u)'
      <3>1. \A q \in Ports : Does(t, q)
        BY <1>1, <2>1 DEF Does
      <3> QED  BY <1>1, <2>2, <3>1, OthersRows
    <2> QED  BY <2>3, <2>6, <2>7, <2>8 DEF Rows, OwnRow
  <1> QED  BY <1>2, <1>3

LEMMA InitRows == ASSUME VPortsAssumption, Init PROVE Rows
  BY DEF Init, Rows, OneVnic, OnDevice, Reads, Lives, Deletes, Absent, Idle, UpdateOps, Changing
LEMMA NextRows == ASSUME VPortsAssumption, Base, Rows, [Next]_vars PROVE Rows'
  <1>1. ASSUME NEW t \in Threads, Work(t) PROVE Rows'
    <2>1. ASSUME NEW p \in Ports, StartDelete(t, p) PROVE Rows'
      <3>1. Live(p) /\ ~Inside(t) /\ ~Leaving(t)
        BY <2>1 DEF StartDelete, Created, MayStart, Inside, Leaving, Idle
      <3> QED  BY <2>1, <3>1, DeleteOfRows DEF StartDelete
    <2> QED  BY <1>1, <2>1, CreateRows, StartUpdateRows, CountRows, BindRows, UnbindRows, LockRows, PlugRows,
                UpdateDbRows, PostRows, RegroupRows, UnmapRows, DeleteReadRows, DeleteVnicRows, DeleteDbRows DEF Work
  <1>2. CASE UNCHANGED vars
    <2>1. UNCHANGED <<db, off, th>>
      BY <1>2 DEF vars
    <2>2. OneVnic' /\ \A p \in Ports : OnDevice(p)'
      BY <2>1 DEF Rows, OneVnic, OnDevice, Leaving
    <2>3. \A t \in Threads : Reads(t)' /\ Lives(t)' /\ Deletes(t)'
      BY <2>1 DEF Rows, Reads, Before, Lives, Deletes, Live, Compute, VnicOf, Plugged
    <2> QED  BY <2>2, <2>3 DEF Rows
  <1> QED  BY <1>1, <1>2 DEF Next, Rest

-----------------------------------------------------------------------------
(* The groups of a vnic                                                    *)

LEMMA DueSame ==
  ASSUME NEW rows, NEW old, NEW v,
         \A q \in Ports : /\ rows[q].vnic = v <=> old[q].vnic = v
                          /\ old[q].vnic = v => NamesOf(rows[q]) = NamesOf(old[q])
  PROVE  DueIn(rows, v) = DueIn(old, v)
  BY DEF DueIn
LEMMA DueOne ==
  ASSUME NEW rows, NEW v, NEW p \in Ports, rows[p].vnic = v, \A q \in Ports : rows[q].vnic = v => q = p
  PROVE  DueIn(rows, v) = NamesOf(rows[p])
  BY DEF DueIn
LEMMA DueNone == ASSUME NEW rows, NEW v, \A q \in Ports : rows[q].vnic # v PROVE DueIn(rows, v) = {}
  BY DEF DueIn

\* The thread that holds the lock of a device.
LEMMA Holds ==
  ASSUME VPortsAssumption, Base, NEW t \in Threads, NEW d \in Devices, deviceLock[d] = t
  PROVE  /\ Inside(t) /\ th[t].orig.dev = d /\ Compute(th[t].orig) /\ th[t].pc # "idle" /\ t # NoThread
         /\ \A v : Shows(d, v) = IF Pending(t) /\ th[t].orig.vnic = v THEN Has(t) ELSE Due(v)
  BY DEF Base, Locks, VPortsAssumption, Compute, Inside, Shows

\* A step that gives no port a vnic, and starts no move.
Steady(t) ==
  /\ Alone(t) /\ off \subseteq off'
  /\ \A q \in Ports : db'[q].vnic \in {db[q].vnic, NoVnic}
  /\ Leaving(t)' => Leaving(t) /\ th'[t].p = th[t].p /\ th'[t].orig = th[t].orig
LEMMA LeftFrame == ASSUME Left, NEW t \in Threads, Steady(t) PROVE Left'
  <1>1. ASSUME NEW u \in Threads, NEW q \in Ports, Leaving(u)', th'[u].orig.dev \notin off', db'[q].vnic # NoVnic,
               db'[q].vnic = th'[u].orig.vnic
        PROVE  q = th'[u].p
    <2>1. Leaving(u) /\ th'[u].p = th[u].p /\ th'[u].orig = th[u].orig
      <3>1. CASE u = t
        BY <1>1, <3>1 DEF Steady
      <3>2. CASE u # t
        BY <1>1, <3>2 DEF Steady, Alone, Leaving
      <3> QED  BY <3>1, <3>2
    <2>2. db[q].vnic = db'[q].vnic
      BY <1>1 DEF Steady
    <2> QED  BY <1>1, <2>1, <2>2 DEF Left, Steady
  <1> QED  BY <1>1 DEF Left

\* A device whose lock another thread holds, or nobody.
LEMMA AwayGrouped ==
  ASSUME VPortsAssumption, Base, Grouped, NEW t \in Threads, Alone(t), off \subseteq off',
         NEW d \in Devices \ off', NEW k \in Indices, NEW g \in Names, deviceLock[d] # t, deviceLock'[d] = deviceLock[d],
         <<g, <<d, k>>>> \in member' <=> <<g, <<d, k>>>> \in member,
         \/ Due(<<d, k>>)' = Due(<<d, k>>)
         \/ deviceLock[d] # NoThread /\ Pending(deviceLock[d]) /\ th[deviceLock[d]].orig.vnic = <<d, k>>
  PROVE  Right(d, k, g)'
  <1>1. PICK v : v = <<d, k>>
    OBVIOUS
  <1>2. <<g, v>> \in member <=> g \in Shows(d, v)
    BY <1>1 DEF Grouped, Right
  <1>3. CASE deviceLock[d] = NoThread
    BY <1>1, <1>2, <1>3 DEF Right, Shows
  <1>4. CASE deviceLock[d] # NoThread
    <2>1. PICK u \in Threads : u = deviceLock[d] /\ u # t
      BY <1>4 DEF Base, Types
    <2>2. th'[u] = th[u] /\ deviceLock'[d] = u
      BY <2>1 DEF Alone
    <2>3. (Pending(u)' <=> Pending(u)) /\ Has(u)' = Has(u)
      BY <2>2 DEF Pending, Leaving, Has
    <2>4. Shows(d, v)' = Shows(d, v)
      BY <1>1, <1>4, <2>1, <2>2, <2>3 DEF Shows
    <2> QED  BY <1>1, <1>2, <2>4 DEF Right
  <1> QED  BY <1>3, <1>4

\* A step that changes neither what is due nor what a vnic has.
Quiet(t) ==
  /\ member' = member /\ \A v \in Vnics : Due(v)' = Due(v)
  /\ \A d \in Devices : deviceLock'[d] = deviceLock[d]
                        \/ (t \in {deviceLock[d], deviceLock'[d]} /\ NoThread \in {deviceLock[d], deviceLock'[d]} /\ ~Pending(t)')
  /\ Pending(t)' => Pending(t)
  /\ Pending(t) => \/ Pending(t)' /\ th'[t].orig = th[t].orig /\ Has(t)' = Has(t) /\ deviceLock' = deviceLock
                   \/ ~Pending(t)' /\ (th[t].orig.vnic = NoVnic \/ ~Compute(th[t].orig) \/ th[t].orig.dev \in off')
LEMMA QuietGrouped ==
  ASSUME VPortsAssumption, Base, Grouped, NEW t \in Threads, Steady(t), Quiet(t) PROVE Grouped'
  <1>1. Left'
    BY LeftFrame DEF Grouped
  <1>2. ASSUME NEW d \in Devices \ off', NEW k \in Indices, NEW g \in Names PROVE Right(d, k, g)'
    <2>1. PICK v \in Vnics : v = <<d, k>>
      BY DEF Vnics
    <2>2. (<<g, v>> \in member <=> g \in Shows(d, v)) /\ Due(v)' = Due(v) /\ member' = member /\ v # NoVnic
      BY <2>1 DEF Grouped, Right, Quiet, Steady, VPortsAssumption, Vnics
    <2>3. CASE deviceLock[d] # t /\ deviceLock'[d] = deviceLock[d]
      BY <2>1, <2>2, <2>3, AwayGrouped DEF Steady
    <2>4. CASE deviceLock[d] # t /\ deviceLock'[d] # deviceLock[d]
      <3>1. deviceLock[d] = NoThread /\ deviceLock'[d] = t /\ ~Pending(t)'
        BY <2>4 DEF Quiet
      <3>2. Shows(d, v) = Due(v) /\ Shows(d, v)' = Due(v)'
        BY <3>1 DEF Shows
      <3> QED  BY <2>1, <2>2, <3>2 DEF Right
    <2>5. CASE deviceLock[d] = t
      <3>1. /\ th[t].orig.dev = d /\ Compute(th[t].orig) /\ t # NoThread
            /\ Shows(d, v) = IF Pending(t) /\ th[t].orig.vnic = v THEN Has(t) ELSE Due(v)
        BY <2>5, Holds
      <3>2. CASE Pending(t)'
        <4>1. Pending(t) /\ th'[t].orig = th[t].orig /\ Has(t)' = Has(t) /\ deviceLock'[d] = t
          BY <2>5, <3>2 DEF Quiet
        <4>2. Shows(d, v)' = Shows(d, v)
          BY <2>2, <3>1, <3>2, <4>1 DEF Shows
        <4> QED  BY <2>1, <2>2, <4>2 DEF Right
      <3>3. CASE ~Pending(t)'
        <4>1. Pending(t) => th[t].orig.vnic = NoVnic
          BY <3>1, <3>3 DEF Quiet
        <4>2. deviceLock'[d] \in {t, NoThread}
          BY <2>5 DEF Quiet
        <4>3. Shows(d, v) = Due(v) /\ Shows(d, v)' = Due(v)'
          BY <2>2, <3>1, <3>3, <4>1, <4>2 DEF Shows
        <4> QED  BY <2>1, <2>2, <4>3 DEF Right
      <3> QED  BY <3>2, <3>3
    <2> QED  BY <2>3, <2>4, <2>5
  <1> QED  BY <1>1, <1>2 DEF Grouped

LEMMA DueUnchanged == ASSUME db' = db PROVE \A v \in Vnics : Due(v)' = Due(v)
  BY DEF Due
LEMMA QuietEnds ==
  ASSUME VPortsAssumption, Base, Grouped, NEW t \in Threads, Ends(t), UNCHANGED <<db, member>>, off \subseteq off',
         Pending(t) => th[t].orig.vnic = NoVnic \/ ~Compute(th[t].orig) \/ th[t].orig.dev \in off'
  PROVE  Grouped'
  <1>1. ~Pending(t)' /\ ~Leaving(t)'
    BY DEF Ends, Idle, Pending, Leaving, Moving, Changing
  <1>2. \A d \in Devices : deviceLock'[d] = deviceLock[d] \/ (deviceLock[d] = t /\ deviceLock'[d] = NoThread)
    BY DEF Ends
  <1>3. Steady(t)
    BY <1>1 DEF Steady, Ends
  <1>4. Quiet(t)
    BY <1>1, <1>2, DueUnchanged DEF Quiet
  <1> QED  BY <1>3, <1>4, QuietGrouped
LEMMA QuietForward ==
  ASSUME VPortsAssumption, Base, Grouped, NEW t \in Threads, NEW label, Goes(t, label), Forward(t, label),
         UNCHANGED <<db, member, deviceLock>>, off \subseteq off', th[t].pc # "lock", th[t].pc = "post" => th[t].op = "regroup"
  PROVE  Grouped'
  <1>1. th[t] \in Request /\ Asked(t) /\ th[t].op \in Ops
    <2>1. th[t].pc # "idle"
      BY DEF Forward
    <2> QED  BY <2>1, ThreadTypes
  <1>2. /\ th'[t].op = th[t].op /\ th'[t].p = th[t].p /\ th'[t].orig = th[t].orig /\ th'[t].arg = th[t].arg
        /\ th'[t].pc = label /\ Alone(t)
    BY <1>1 DEF Goes, Request
  <1>3. (Pending(t)' <=> Pending(t)) /\ (Leaving(t)' => Leaving(t))
    BY <1>1, <1>2 DEF Pending, Leaving, Forward, After, Asked, Moving, Changing
  <1>4. Pending(t) => Has(t)' = Has(t)
    <2>1. CASE th[t].pc = "post"
      <3>1. th[t].op = "regroup" /\ label \in {"removeCount", "addCount", "groups"} /\ th[t].orig \in Port
        BY <2>1, ThreadTypes DEF Forward, Moving, Changing
      <3>2. Updated(th[t].orig, th[t].op, th[t].arg).sec = th[t].orig.sec
        BY <3>1 DEF Updated, Port
      <3> QED  BY <1>2, <2>1, <3>1, <3>2 DEF Has, NamesOf, Changing
    <2>2. CASE th[t].pc \in {"bindCheck", "bind"}
      <3>1. label \in {"bindCheck", "bind", "post"}
        BY <2>2 DEF Forward
      <3> QED  BY <1>2, <2>2, <3>1 DEF Has
    <2>3. CASE th[t].pc \notin {"post", "bindCheck", "bind"}
      <3>1. label \notin {"post", "bindCheck", "bind"}
        BY <2>3 DEF Forward, After
      <3> QED  BY <1>2, <2>3, <3>1 DEF Has
    <2> QED  BY <2>1, <2>2, <2>3
  <1>5. Steady(t)
    BY <1>2, <1>3 DEF Steady
  <1>6. Quiet(t)
    BY <1>2, <1>3, <1>4, DueUnchanged DEF Quiet
  <1> QED  BY <1>5, <1>6, QuietGrouped
\* A request that begins, or takes its lock.
LEMMA QuietStart ==
  ASSUME VPortsAssumption, Base, Grouped, NEW t \in Threads, Alone(t), UNCHANGED <<db, member, off>>,
         ~Pending(t), ~Pending(t)',
         \A d \in Devices : deviceLock'[d] = deviceLock[d] \/ (deviceLock[d] = NoThread /\ deviceLock'[d] = t)
  PROVE  Grouped'
  <1>1. ~Leaving(t)'
    BY DEF Pending, Leaving
  <1>2. Steady(t)
    BY <1>1 DEF Steady
  <1>3. Quiet(t)
    BY DueUnchanged DEF Quiet
  <1> QED  BY <1>2, <1>3, QuietGrouped

LEMMA CountGrouped ==
  ASSUME VPortsAssumption, Base, Grouped, NEW t \in Threads, AddCount(t) \/ RemoveCount(t) \/ Add(t) \/ Remove(t)
  PROVE  Grouped'
  <1>1. /\ th[t].pc \in {"addCount", "removeCount", "add", "remove"} /\ UNCHANGED <<db, member, lockVars, deviceLock>>
        /\ off \subseteq off'
    BY DEF AddCount, RemoveCount, Count, Add, Remove, List, At, backendVars, lockVars
  <1>2. PICK l \in {"add", "remove", After(t)} : Goto(t, l) /\ Forward(t, l)
    BY DEF AddCount, RemoveCount, Count, Add, Remove, List, At, Forward
  <1>3. l \in Labels \ {"idle", "lock", "delRead"}
    BY DEF After, Labels
  <1>4. Goes(t, l)
    BY <1>1, <1>2, <1>3, GotoGoes
  <1> QED  BY <1>1, <1>2, <1>4, QuietForward

LEMMA BindGrouped ==
  ASSUME VPortsAssumption, Base, Grouped, NEW t \in Threads, BindCheck(t) \/ Bind(t) \/ BindFails(t) PROVE Grouped'
  <1>1. /\ th[t].pc \in {"bindCheck", "bind"} /\ UNCHANGED <<db, member>> /\ off \subseteq off' /\ Asked(t) /\ th[t] \in Request
    BY ThreadTypes DEF BindCheck, Bind, BindFails, At, backendVars
  <1>2. ASSUME End(t), th[t].op = "create" \/ ({th[t].orig.dev} \ {NoDevice} \subseteq off') PROVE Grouped'
    <2>1. Ends(t)
      BY <1>2, EndEnds
    <2>2. Pending(t) => ~Compute(th[t].orig) \/ th[t].orig.dev \in off'
      BY <1>2 DEF Pending, Leaving, Moving, Changing, Compute
    <2> QED  BY <1>1, <2>1, <2>2, QuietEnds
  <1>3. ASSUME NEW l \in {"bind", "post"}, Goto(t, l), UNCHANGED lockVars, Forward(t, l) PROVE Grouped'
    <2>1. Goes(t, l) /\ UNCHANGED deviceLock
      BY <1>1, <1>3, GotoGoes DEF Labels, lockVars
    <2> QED  BY <1>1, <1>3, <2>1, QuietForward
  <1>4. CASE BindCheck(t) \/ Bind(t)
    <2>1. \/ Goto(t, "bind") /\ UNCHANGED lockVars /\ th[t].pc = "bindCheck"
          \/ End(t) /\ th[t].op = "create"
          \/ Goto(t, "post") /\ UNCHANGED lockVars /\ th[t].op # "create"
      BY <1>4 DEF BindCheck, Bind, BindNext, At
    <2>2. th[t].op \in {"create", "attach"}
      BY <1>1 DEF Asked
    <2> QED  BY <1>1, <1>2, <1>3, <2>1, <2>2 DEF Forward
  <1>5. CASE BindFails(t) /\ th[t].op # "create"
    BY <1>2, <1>5 DEF BindFails
  <1>6. CASE BindFails(t) /\ th[t].op = "create"
    <2>1. PICK q : q = [th[t] EXCEPT !.pc = "delRead", !.op = "delete"]
      OBVIOUS
    <2>2. q \in Request /\ q.pc = "delRead" /\ q.op = "delete" /\ q.p = th[t].p /\ q.orig = th[t].orig
      BY <1>1, <2>1 DEF Request, Labels, Ops
    <2>3. th' = [th EXCEPT ![t] = q] /\ UNCHANGED <<deviceLock, off>>
      BY <1>6, <2>1 DEF BindFails, Base, Types, lockVars
    <2>4. Alone(t) /\ th'[t] = q
      BY <2>2, <2>3, AnewAlone
    <2>5. ~Pending(t) /\ ~Pending(t)'
      BY <1>6, <2>2, <2>4 DEF Pending, Leaving, Moving, Changing
    <2> QED  BY <1>1, <2>3, <2>4, <2>5, QuietStart
  <1> QED  BY <1>4, <1>5, <1>6

LEMMA UnbindGrouped ==
  ASSUME VPortsAssumption, Base, Grouped, NEW t \in Threads, UnbindRead(t) \/ Unbind(t) PROVE Grouped'
  <1>1. /\ th[t].pc \in {"unbindRead", "unbind"} /\ UNCHANGED <<db, member>> /\ off \subseteq off' /\ ~Pending(t)
    BY DEF UnbindRead, Unbind, At, backendVars, Pending, Leaving
  <1>2. CASE End(t)
    BY <1>1, <1>2, EndEnds, QuietEnds
  <1>3. CASE ~End(t)
    <2>1. Goto(t, "unbind") /\ UNCHANGED <<lockVars, deviceLock>> /\ Forward(t, "unbind")
      BY <1>3 DEF UnbindRead, Unbind, Forward, At, lockVars
    <2>2. Goes(t, "unbind")
      BY <1>1, <2>1, GotoGoes DEF Labels
    <2> QED  BY <1>1, <2>1, <2>2, QuietForward
  <1> QED  BY <1>2, <1>3

LEMMA LockGrouped == ASSUME VPortsAssumption, Base, Grouped, NEW t \in Threads, UpdateLock(t) \/ DeleteLock(t) PROVE Grouped'
  <1>1. UNCHANGED <<db, member, off>> /\ th[t].pc = "lock"
    BY DEF UpdateLock, DeleteLock, Locked, backendVars, At
  <1>2. PICK l \in {"plug", "db", "delVnic"} : Goes(t, l) /\ Forward(t, l)
    BY LockGoes
  <1>3. th[t] \in Request
    BY <1>1, ThreadTypes
  <1>4. ~Pending(t) /\ ~Pending(t)' /\ Alone(t)
    BY <1>1, <1>2, <1>3 DEF Goes, Pending, Leaving, Request
  <1>5. \A d \in Devices : deviceLock'[d] = deviceLock[d] \/ (deviceLock[d] = NoThread /\ deviceLock'[d] = t)
    BY DEF UpdateLock, DeleteLock, Locked, Base, Types
  <1> QED  BY <1>1, <1>4, <1>5, QuietStart

LEMMA StartUpdateGrouped ==
  ASSUME VPortsAssumption, Base, Grouped, NEW t \in Threads, NEW p \in Ports, StartUpdate(t, p) PROVE Grouped'
  <1>1. /\ UNCHANGED <<db, member, off, deviceLock>> /\ th[t] = Idle
    BY DEF StartUpdate, backendVars, MayStart
  <1>2. PICK u, q : /\ u \in Updates(db[p])
                    /\ q = [pc |-> LabelOf(db[p], "db"), op |-> u[1], p |-> p, arg |-> u[2], orig |-> db[p]]
                    /\ th' = [th EXCEPT ![t] = q]
    BY DEF StartUpdate
  <1>3. Alone(t) /\ th'[t] = q
    <2>1. th' \in [Threads -> Request]
      BY StartUpdateBase DEF Base, Types
    <2> QED  BY <1>2, <2>1 DEF Alone, Base, Types
  <1>4. ~Pending(t) /\ ~Pending(t)'
    BY <1>1, <1>2, <1>3 DEF Pending, Leaving, Idle, LabelOf, Moving, Changing
  <1> QED  BY <1>1, <1>3, <1>4, QuietStart

LEMMA DeleteOfGrouped ==
  ASSUME VPortsAssumption, Base, Grouped, NEW t \in Threads, NEW p \in Ports, DeleteOf(t, p), Live(p), ~Inside(t), ~Pending(t),
         UNCHANGED <<db, backendVars, lockVars, off>>
  PROVE  Grouped'
  <1>1. Alone(t) /\ th'[t] = [pc |-> LabelOf(db[p], "delVnic"), op |-> "delete", p |-> p, arg |-> NoDevice, orig |-> db[p]]
    BY DeleteOfBase
  <1>2. ~Pending(t)' /\ UNCHANGED <<member, deviceLock>>
    BY <1>1 DEF LabelOf, Pending, Leaving, backendVars, lockVars, Moving, Changing
  <1> QED  BY <1>1, <1>2, QuietStart
LEMMA DeleteReadGrouped == ASSUME VPortsAssumption, Base, Grouped, NEW t \in Threads, DeleteRead(t) PROVE Grouped'
  <1>1. th[t].pc = "delRead" /\ ~Inside(t) /\ ~Pending(t) /\ th[t].p \in Ports /\ UNCHANGED <<db, backendVars, member, off>>
    BY ThreadTypes DEF DeleteRead, At, Inside, Pending, Leaving, backendVars
  <1>2. CASE Live(th[t].p)
    BY <1>1, <1>2, DeleteOfGrouped DEF DeleteRead
  <1>3. CASE ~Live(th[t].p)
    BY <1>1, <1>3, EndEnds, QuietEnds DEF DeleteRead
  <1> QED  BY <1>2, <1>3

LEMMA CreateGrouped ==
  ASSUME VPortsAssumption, Base, Grouped, NEW t \in Threads, NEW p \in Ports, NEW x \in NewPorts, Create(t, p, x) PROVE Grouped'
  <1>1. /\ db' = [db EXCEPT ![p] = x] /\ UNCHANGED <<off, member, deviceLock>> /\ x.vnic = NoVnic /\ th[t] = Idle /\ ~Live(p)
    BY DEF Create, Fresh, MayStart, NewPorts, backendVars, lockVars
  <1>2. Alone(t) /\ (th'[t] = Idle \/ th'[t].op = "create")
    <2>1. th' \in [Threads -> Request]
      BY CreateBase DEF Base, Types
    <2> QED  BY <1>1, <2>1 DEF Create, Alone, Base, Types
  <1>3. db'[p] = x /\ db[p].vnic = NoVnic /\ \A q \in Ports \ {p} : db'[q] = db[q]
    BY <1>1 DEF Base, Types, Absent
  <1>4. ~Pending(t) /\ ~Pending(t)' /\ ~Leaving(t)'
    BY <1>1, <1>2 DEF Pending, Leaving, Idle, Moving, Changing
  <1>5. ASSUME NEW v \in Vnics PROVE Due(v)' = Due(v)
    <2>1. v # NoVnic
      BY DEF Vnics, VPortsAssumption
    <2>2. \A q \in Ports : /\ db'[q].vnic = v <=> db[q].vnic = v
                           /\ db[q].vnic = v => NamesOf(db'[q]) = NamesOf(db[q])
      BY <1>1, <1>3, <2>1
    <2> QED  BY <2>2, DueSame DEF Due
  <1>6. Steady(t)
    BY <1>1, <1>2, <1>3, <1>4 DEF Steady
  <1>7. Quiet(t)
    BY <1>1, <1>4, <1>5 DEF Quiet
  <1> QED  BY <1>6, <1>7, QuietGrouped

LEMMA MemberOf == ASSUME NEW x, NEW v, NEW g, NEW u PROVE <<g, u>> \in MembersOf(x, v) <=> g \in NamesOf(x) /\ u = v
  BY DEF MembersOf, NamesOf
LEMMA HeldNext ==
  ASSUME NEW t \in Threads, t # NoThread, NEW d \in Devices, deviceLock'[d] \in {t, NoThread}
  PROVE  \A v : Shows(d, v)' = IF deviceLock'[d] = t /\ Pending(t)' /\ th'[t].orig.vnic = v THEN Has(t)' ELSE Due(v)'
  BY DEF Shows

LEMMA UpdateDbGrouped == ASSUME VPortsAssumption, Base, Rows, Grouped, NEW t \in Threads, UpdateDb(t) PROVE Grouped'
  <1>1. /\ th[t].pc = "db" /\ Asked(t) /\ th[t] \in Request /\ th[t].p \in Ports /\ th[t].orig \in Port /\ th[t].op \in UpdateOps
        /\ Inside(t) /\ ~Leaving(t) /\ ~Pending(t) /\ Reads(t) /\ UNCHANGED <<member, off>>
    BY ThreadTypes DEF UpdateDb, At, Asked, Inside, Leaving, UpdateOps, Rows, Pending, backendVars
  <1>2. CASE ~Live(th[t].p)
    <2>1. Ends(t) /\ UNCHANGED <<db, off, member>>
      BY <1>1, <1>2, EndEnds DEF UpdateDb
    <2> QED  BY <1>1, <2>1, QuietEnds
  <1>3. CASE Live(th[t].p)
    <2>1. PICK p \in Ports, y \in Port, l \in {"bindCheck", "post"} : Changes(t, p, y, l)
      BY <1>3, UpdateDbDoes
    <2>2. /\ p = th[t].p /\ y = Updated(db[p], th[t].op, th[t].arg) /\ db'[p] = y
          /\ \A q \in Ports \ {p} : db'[q] = db[q]
          /\ y.vnic = db[p].vnic
          /\ db[p].sec = th[t].orig.sec /\ db[p].groups = th[t].orig.groups
          /\ \/ y.vnic = IF th[t].op = "plug" THEN <<th[t].orig.dev, th[t].arg>> ELSE th[t].orig.vnic
             \/ y.vnic = NoVnic /\ th[t].orig.dev \in off
          /\ l = (IF th[t].op = "attach" THEN "bindCheck" ELSE "post")
          /\ Goes(t, l) /\ deviceLock' = deviceLock
      BY <2>1 DEF Changes, lockVars, Plugged
    <2>3. /\ Alone(t) /\ th'[t].op = th[t].op /\ th'[t].p = p /\ th'[t].orig = th[t].orig /\ th'[t].arg = th[t].arg
          /\ th'[t].pc = l
      BY <1>1, <2>2 DEF Goes, Request
    <2>4. db[p].vnic # NoVnic => db[p].vnic[1] = th[t].orig.dev
      BY <1>1, <2>2 DEF Reads
    <2>5. Left'
      <3>1. ASSUME NEW u \in Threads, NEW q \in Ports, Leaving(u)', th'[u].orig.dev \notin off', db'[q].vnic # NoVnic,
                   db'[q].vnic = th'[u].orig.vnic
            PROVE  q = th'[u].p
        <4>1. db'[q].vnic = db[q].vnic
          BY <2>2
        <4>2. CASE u # t
          BY <1>1, <2>3, <3>1, <4>1, <4>2 DEF Alone, Grouped, Left, Leaving
        <4>3. CASE u = t
          <5>1. db[p].vnic = th[t].orig.vnic
            BY <1>1, <2>2, <2>3, <3>1, <4>3 DEF Leaving, Moving
          <5> QED  BY <2>3, <3>1, <4>1, <4>3, <5>1 DEF Rows, OneVnic
        <4> QED  BY <4>2, <4>3
      <3> QED  BY <3>1 DEF Left
    <2>6. ASSUME NEW v \in Vnics, v # db[p].vnic PROVE Due(v)' = Due(v)
      <3>1. \A q \in Ports : /\ db'[q].vnic = v <=> db[q].vnic = v
                             /\ db[q].vnic = v => NamesOf(db'[q]) = NamesOf(db[q])
        BY <2>2, <2>6
      <3> QED  BY <3>1, DueSame DEF Due
    <2>7. ASSUME NEW d \in Devices \ off', NEW k \in Indices, NEW g \in Names PROVE Right(d, k, g)'
      <3>0. <<d, k>> \in Vnics /\ \A v \in Vnics : v # NoVnic
        BY DEF Vnics, VPortsAssumption
      <3>1. PICK v \in Vnics : v = <<d, k>> /\ v # NoVnic
        BY <3>0
      <3>2. <<g, v>> \in member' <=> <<g, v>> \in member
        BY <1>1
      <3>3. CASE deviceLock[d] # t
        <4>1. d # th[t].orig.dev
          BY <1>1, <3>3, <3>1 DEF Base, Locks, Compute, VPortsAssumption
        <4>2. v # db[p].vnic
          BY <2>4, <3>1, <4>1
        <4> QED  BY <1>1, <2>2, <2>3, <2>6, <3>1, <3>2, <3>3, <4>2, AwayGrouped
      <3>4. CASE deviceLock[d] = t
        <4>1. t # NoThread /\ th[t].orig.dev = d /\ Shows(d, v) = Due(v)
          BY <1>1, <3>4, Holds
        <4>2. Shows(d, v)' = IF Pending(t)' /\ th[t].orig.vnic = v THEN Has(t)' ELSE Due(v)'
          BY <2>2, <2>3, <3>4, <4>1, HeldNext
        <4>3. <<g, v>> \in member <=> g \in Due(v)
          BY <1>1, <3>1, <4>1 DEF Grouped, Right
        <4>4. th[t].op # "plug" => db[p].vnic = th[t].orig.vnic
          BY <1>1, <2>2, <4>1
        <4>5. th[t].op = "plug" => ~Pending(t)' /\ Due(v)' = Due(v)
          <5>1. ASSUME th[t].op = "plug" PROVE ~Pending(t)' /\ \A q \in Ports : db'[q] = db[q]
            <6>1. Updated(db[p], "plug", th[t].arg) = db[p]
              BY DEF Updated
            <6> QED  BY <2>2, <2>3, <5>1, <6>1 DEF Pending, Leaving, Moving, Changing
          <5> QED  BY <5>1, DueSame DEF Due
        <4>6. th[t].op # "plug" => Pending(t)' /\ Has(t)' = NamesOf(th[t].orig)
          <5>1. th[t].op # "plug" => th[t].op \in Moving \cup Changing
            BY <1>1 DEF UpdateOps, Moving, Changing
          <5>2. l \in {"bindCheck", "post"} /\ (th[t].op \in Changing => l = "post")
            BY <2>2 DEF Changing
          <5> QED  BY <2>3, <5>1, <5>2 DEF Pending, Leaving, Has, Changing
        <4>7. th[t].op # "plug" /\ th[t].orig.vnic = v => Due(v) = NamesOf(th[t].orig)
          <5>1. ASSUME db[p].vnic = v PROVE Due(v) = NamesOf(db[p])
            <6>1. \A q \in Ports : db[q].vnic = v => q = p
              BY <3>1, <5>1 DEF Rows, OneVnic
            <6> QED  BY <5>1, <6>1, DueOne DEF Due
          <5> QED  BY <2>2, <4>4, <5>1 DEF NamesOf
        <4>8. th[t].op # "plug" /\ th[t].orig.vnic # v => Due(v)' = Due(v)
          BY <2>6, <4>4
        <4> QED  BY <3>1, <3>2, <4>2, <4>3, <4>5, <4>6, <4>7, <4>8 DEF Right
      <3> QED  BY <3>3, <3>4
    <2> QED  BY <2>5, <2>7 DEF Grouped
  <1> QED  BY <1>2, <1>3

\* A step of the thread that holds the lock: what it does elsewhere, and to its vnic.
Waits(t, v) == LET h == deviceLock[v[1]] IN h \notin {NoThread, t} /\ Pending(h) /\ th[h].orig.vnic = v
Elsewhere(t) ==
  \A v \in Vnics : v[1] \notin off' /\ ~(v = th[t].orig.vnic /\ v[1] = th[t].orig.dev) =>
    /\ \A g \in Names : <<g, v>> \in member' <=> <<g, v>> \in member
    /\ Due(v)' = Due(v) \/ Waits(t, v)
Here(t) ==
  LET w == th[t].orig.vnic IN
  w \in Vnics /\ w[1] = th[t].orig.dev /\ w[1] \notin off' =>
    \A g \in Names :
      (<<g, w>> \in member <=> IF Pending(t) THEN g \in Has(t) ELSE g \in Due(w)) =>
      (<<g, w>> \in member' <=> IF Pending(t)' THEN g \in Has(t)' ELSE g \in DueIn(db', w))
Releases(t) ==
  /\ \A d \in Devices : deviceLock'[d] = deviceLock[d] \/ (deviceLock[d] = t /\ deviceLock'[d] = NoThread /\ ~Pending(t)')
  /\ Pending(t)' => th'[t].orig = th[t].orig
LEMMA HeldGrouped ==
  ASSUME VPortsAssumption, Base, Grouped, NEW t \in Threads, Steady(t), Inside(t), Releases(t), Elsewhere(t), Here(t)
  PROVE  Grouped'
  <1>1. Left'
    BY LeftFrame DEF Grouped
  <1>2. ASSUME NEW d \in Devices \ off', NEW k \in Indices, NEW g \in Names PROVE Right(d, k, g)'
    <2>0. <<d, k>> \in Vnics /\ <<d, k>>[1] = d
      BY DEF Vnics
    <2>1. PICK v \in Vnics : v = <<d, k>> /\ v[1] = d
      BY <2>0
    <2>2. <<g, v>> \in member <=> g \in Shows(d, v)
      BY <2>1 DEF Grouped, Right, Steady
    <2>3. CASE deviceLock[d] # t
      <3>1. th[t].orig.dev # d /\ deviceLock'[d] = deviceLock[d]
        BY <2>3 DEF Base, Locks, Compute, VPortsAssumption, Releases
      <3>2. (<<g, v>> \in member' <=> <<g, v>> \in member) /\ (Due(v)' = Due(v) \/ Waits(t, v))
        BY <2>1, <3>1 DEF Elsewhere
      <3> QED  BY <2>1, <2>3, <3>1, <3>2, AwayGrouped DEF Steady, Waits
    <2>4. CASE deviceLock[d] = t
      <3>1. /\ t # NoThread /\ th[t].orig.dev = d
            /\ Shows(d, v) = IF Pending(t) /\ th[t].orig.vnic = v THEN Has(t) ELSE Due(v)
        BY <2>4, Holds
      <3>2. /\ deviceLock'[d] \in {t, NoThread} /\ (deviceLock'[d] # t => ~Pending(t)')
            /\ Pending(t)' => th'[t].orig = th[t].orig
        BY <2>4 DEF Releases
      <3>3. Shows(d, v)' = IF Pending(t)' /\ th[t].orig.vnic = v THEN Has(t)' ELSE Due(v)'
        <4>1. Shows(d, v)' = IF deviceLock'[d] = t /\ Pending(t)' /\ th'[t].orig.vnic = v THEN Has(t)' ELSE Due(v)'
          BY <3>1, <3>2, HeldNext
        <4> QED  BY <3>2, <4>1
      <3>4. CASE v # th[t].orig.vnic
        <4>1. (<<g, v>> \in member' <=> <<g, v>> \in member) /\ Due(v)' = Due(v)
          BY <2>1, <2>4, <3>4 DEF Elsewhere, Waits
        <4> QED  BY <2>1, <2>2, <3>1, <3>3, <3>4, <4>1 DEF Right
      <3>5. CASE v = th[t].orig.vnic
        <4>1. (<<g, v>> \in member <=> IF Pending(t) THEN g \in Has(t) ELSE g \in Due(v)) =>
              (<<g, v>> \in member' <=> IF Pending(t)' THEN g \in Has(t)' ELSE g \in Due(v)')
          BY <2>1, <3>1, <3>5 DEF Here, Due
        <4>2. <<g, v>> \in member <=> IF Pending(t) THEN g \in Has(t) ELSE g \in Due(v)
          BY <2>2, <3>1, <3>5
        <4>3. <<g, v>> \in member' <=> g \in Shows(d, v)'
          BY <3>3, <3>5, <4>1, <4>2
        <4> QED  BY <2>1, <4>3 DEF Right
      <3> QED  BY <3>4, <3>5
    <2> QED  BY <2>3, <2>4
  <1> QED  BY <1>1, <1>2 DEF Grouped

LEMMA OwnVnic == ASSUME NEW x, x.vnic \in Vnics, x.vnic[1] = x.dev, NoVnic \notin Vnics PROVE VnicOf(x) = x.vnic
  BY DEF VnicOf, Vnics
LEMMA NamesType == ASSUME NEW x \in Port PROVE NamesOf(x) \subseteq Names /\ "spoofguard" \notin x.groups
  BY DEF NamesOf, Port, Names, Groups
\* The vnic that a request of the holder names.
LEMMA NamedVnic ==
  ASSUME NEW x, NEW v \in Vnics, VnicOf(x) = v, NoVnic \notin Vnics PROVE v[1] = x.dev
  BY DEF VnicOf

\* A vnic that is plugged joins the groups of the port that was read.
LEMMA PlugGrouped ==
  ASSUME VPortsAssumption, Base, Rows, Grouped, NEW t \in Threads, Plug(t) \/ PlugFails(t) PROVE Grouped'
  <1>1. PICK p \in Ports, x \in Port :
          /\ p = th[t].p /\ x = th[t].orig /\ x.dev \in Devices /\ Compute(x)
          /\ th[t].pc = "plug" /\ th[t].op = "plug" /\ th[t] \in Request /\ Inside(t) /\ ~Leaving(t) /\ ~Pending(t)
    BY PlugNotes
  <1>2. PICK w : /\ w = Plugged(t) /\ w[1] = x.dev
                 /\ \A g, v : v # w => (<<g, v>> \in member' <=> <<g, v>> \in member)
    <2>1. Plugged(t)[1] = x.dev
      BY <1>1 DEF Plugged
    <2> QED  BY <2>1, PlugNotes
  <1>3. off \subseteq off' /\ (Taken(t) # {} => x.dev \in off') /\ Map(t)
    BY <1>1, PlugNotes DEF Noted
  <1>4. /\ Alone(t) /\ ~Pending(t)' /\ ~Leaving(t)'
        /\ \A d \in Devices : deviceLock'[d] = deviceLock[d] \/ (deviceLock[d] = t /\ deviceLock'[d] = NoThread)
    <2>1. CASE Ends(t)
      BY <2>1 DEF Ends, Idle, Pending, Leaving, Moving, Changing
    <2>2. CASE \E l : Goes(t, l) /\ UNCHANGED lockVars
      BY <1>1, <2>2 DEF Goes, Request, Pending, Leaving, Moving, Changing, lockVars
    <2> QED  BY <2>1, <2>2, PlugNotes
  <1>5. x.dev \notin off' => member' = member \cup MembersOf(x, w) /\ x = db[p]
    <2>1. th[t].orig.dev \notin off' =>
            member' = member \cup MembersOf(th[t].orig, Plugged(t)) /\ th[t].orig = db[th[t].p]
      BY PlugNotes
    <2> QED  BY <1>1, <1>2, <2>1
  <1>6. ASSUME x.dev \notin off', NEW g PROVE <<g, w>> \in member' <=> <<g, w>> \in member \/ g \in NamesOf(x)
    BY <1>5, <1>6, MemberOf
  <1>7. NoVnic \notin Vnics
    BY DEF VPortsAssumption, Vnics
  <1>8. CASE Known(t)
    <2>1. db' = db /\ x.vnic = w
      BY <1>1, <1>2, <1>3, <1>8 DEF Map, Known
    <2>2. Steady(t) /\ Releases(t)
      BY <1>3, <1>4, <2>1 DEF Steady, Releases
    <2>3. Elsewhere(t)
      BY <1>1, <1>2, <2>1, DueUnchanged DEF Elsewhere
    <2>4. Here(t)
      <3>1. ASSUME w \in Vnics, x.dev \notin off' PROVE DueIn(db, w) = NamesOf(x)
        <4>1. db[p].vnic = w /\ w # NoVnic
          BY <1>5, <1>7, <2>1, <3>1
        <4>2. \A q \in Ports : db[q].vnic = w => q = p
          BY <4>1 DEF Rows, OneVnic
        <4>3. DueIn(db, w) = NamesOf(db[p])
          BY <4>1, <4>2, DueOne
        <4> QED  BY <1>5, <3>1, <4>3
      <3>2. ASSUME w \in Vnics, x.dev \notin off', NEW g \in Names, <<g, w>> \in member <=> g \in Due(w)
            PROVE  <<g, w>> \in member' <=> g \in DueIn(db', w)
        <4>1. DueIn(db', w) = NamesOf(x) /\ Due(w) = NamesOf(x)
          BY <2>1, <3>1, <3>2 DEF Due
        <4> QED  BY <1>6, <3>2, <4>1
      <3> QED  BY <1>1, <1>2, <1>4, <2>1, <3>2 DEF Here
    <2> QED  BY <1>1, <2>2, <2>3, <2>4, HeldGrouped
  <1>9. CASE ~Known(t)
    <2>1. PICK taken \in SUBSET Ports :
            /\ w \in Vnics /\ p \notin taken /\ taken = Taken(t)
            /\ db'[p].vnic = w /\ db'[p].sec = x.sec /\ db'[p].groups = x.groups /\ db[p].vnic = NoVnic
            /\ \A q \in taken : db'[q].vnic = NoVnic /\ db[q].vnic = w
            /\ \A q \in Ports \ (taken \cup {p}) : db'[q] = db[q] /\ db[q].vnic # w
      <3>1. PICK r \in Ports, v \in Vnics, taken \in SUBSET Ports : Maps(t, r, v, taken)
        BY <1>1, <1>3, <1>9, MapDoes
      <3>2. r = p /\ v = w
        BY <1>1, <1>2, <3>1 DEF Maps
      <3>3. /\ r \notin taken /\ taken = Taken(t)
            /\ db'[r].vnic = v /\ db'[r].sec = th[t].orig.sec /\ db'[r].groups = th[t].orig.groups /\ db[r].vnic = NoVnic
        BY <3>1 DEF Maps
      <3>4. /\ \A q \in taken : db'[q].vnic = NoVnic /\ db[q].vnic = v
            /\ \A q \in Ports \ (taken \cup {r}) : db'[q] = db[q] /\ db[q].vnic # v
        BY <3>1 DEF Maps
      <3> QED  BY <1>1, <3>2, <3>3, <3>4
    <2>2. Left'
      <3>1. ASSUME NEW u \in Threads, NEW q \in Ports, Leaving(u)', th'[u].orig.dev \notin off', db'[q].vnic # NoVnic,
                   db'[q].vnic = th'[u].orig.vnic
            PROVE  q = th'[u].p
        <4>1. u # t /\ th'[u] = th[u] /\ Leaving(u)
          BY <1>4, <3>1 DEF Alone, Leaving
        <4>2. CASE q = p
          <5>1. Reads(u) /\ th[u].op \in UpdateOps /\ Inside(u)
            BY <4>1 DEF Rows, Leaving, Moving, UpdateOps, Inside
          <5>2. w[1] = th[u].orig.dev
            BY <2>1, <3>1, <4>1, <4>2, <5>1 DEF Reads
          <5>3. th[t].orig.dev = th[u].orig.dev
            BY <1>1, <1>2, <5>2
          <5> QED  BY <1>1, <4>1, <5>1, <5>3, OneHolder DEF Compute
        <4>3. CASE q # p
          <5>1. q \notin taken /\ db'[q] = db[q]
            BY <2>1, <3>1, <4>3
          <5> QED  BY <1>3, <3>1, <4>1, <5>1 DEF Grouped, Left
        <4> QED  BY <4>2, <4>3
      <3> QED  BY <3>1 DEF Left
    <2>3. ASSUME NEW v \in Vnics, v # w PROVE Due(v)' = Due(v)
      <3>1. \A q \in Ports : /\ db'[q].vnic = v <=> db[q].vnic = v
                             /\ db[q].vnic = v => NamesOf(db'[q]) = NamesOf(db[q])
        BY <1>7, <2>1, <2>3
      <3> QED  BY <3>1, DueSame DEF Due
    <2>4. ASSUME NEW d \in Devices \ off', NEW k \in Indices, NEW g \in Names PROVE Right(d, k, g)'
      <3>0. <<d, k>> \in Vnics /\ <<d, k>>[1] = d
        BY DEF Vnics
      <3>1. PICK v \in Vnics : v = <<d, k>> /\ v[1] = d
        BY <3>0
      <3>2. CASE deviceLock[d] # t
        <4>1. d # x.dev
          BY <1>1, <3>2 DEF Base, Locks, Compute
        <4>2. v # w
          BY <1>2, <3>1, <4>1
        <4>3. Due(v)' = Due(v) /\ (<<g, v>> \in member' <=> <<g, v>> \in member) /\ deviceLock'[d] = deviceLock[d]
          BY <1>2, <1>4, <2>3, <3>2, <4>2
        <4> QED  BY <1>3, <1>4, <3>1, <3>2, <4>3, AwayGrouped
      <3>3. CASE deviceLock[d] = t
        <4>1. t # NoThread /\ x.dev = d /\ Shows(d, v) = Due(v)
          BY <1>1, <3>3, Holds
        <4>2. Shows(d, v)' = Due(v)'
          <5>1. deviceLock'[d] \in {t, NoThread}
            BY <1>4, <3>3
          <5> QED  BY <1>4, <4>1, <5>1, HeldNext
        <4>3. <<g, v>> \in member <=> g \in Due(v)
          BY <1>3, <3>1, <4>1 DEF Grouped, Right
        <4>4. CASE v # w
          <5>1. Due(v)' = Due(v) /\ (<<g, v>> \in member' <=> <<g, v>> \in member)
            BY <1>2, <2>3, <4>4
          <5> QED  BY <3>1, <4>2, <4>3, <5>1 DEF Right
        <4>5. CASE v = w
          <5>1. \A q \in Ports \ {p} : db'[q].vnic # w /\ db[q].vnic # w
            BY <1>3, <2>1, <4>1
          <5>2. DueIn(db', w) = NamesOf(db'[p])
            BY <2>1, <5>1, DueOne
          <5>3. Due(w)' = NamesOf(x)
            BY <2>1, <5>2 DEF Due, NamesOf
          <5>4. \A q \in Ports : db[q].vnic # w
            BY <1>7, <2>1, <5>1
          <5>5. Due(w) = {}
            BY <5>4, DueNone DEF Due
          <5>6. <<g, w>> \in member' <=> <<g, w>> \in member \/ g \in NamesOf(x)
            BY <1>6, <4>1
          <5> QED  BY <3>1, <4>2, <4>3, <4>5, <5>3, <5>5, <5>6 DEF Right
        <4> QED  BY <4>4, <4>5
      <3> QED  BY <3>2, <3>3
    <2> QED  BY <2>2, <2>4 DEF Grouped
  <1> QED  BY <1>8, <1>9

LEMMA PostGrouped == ASSUME VPortsAssumption, Base, Rows, Grouped, NEW t \in Threads, Post(t) PROVE Grouped'
  <1>1. /\ th[t].pc = "post" /\ Asked(t) /\ th[t] \in Request /\ th[t].orig \in Port /\ th[t].op \in UpdateOps /\ Inside(t)
        /\ Reads(t) /\ UNCHANGED db /\ NoVnic \notin Vnics
    BY ThreadTypes DEF Post, At, Asked, Inside, UpdateOps, Rows, VPortsAssumption, Vnics
  <1>2. CASE Ends(t) /\ UNCHANGED <<member, off>> /\ (th[t].orig.vnic = NoVnic \/ ~Compute(th[t].orig) \/ th[t].op = "plug")
    <2>1. Pending(t) => th[t].op # "plug"
      BY DEF Pending, Leaving, Moving, Changing
    <2> QED  BY <1>1, <1>2, <2>1, QuietEnds
  <1>3. CASE ~Ends(t)
    <2>1. deviceLock' = deviceLock
      <3>1. ~End(t)
        BY <1>3, EndEnds
      <3> QED  BY <3>1 DEF Post, lockVars
    <2>2. CASE th[t].op = "regroup"
      <3>1. Goes(t, "groups") /\ UNCHANGED <<member, off>>
        BY <1>3, <2>2, PostGoes DEF Moving
      <3> QED  BY <1>1, <2>1, <2>2, <3>1, QuietForward DEF Forward, Changing
    <2>3. CASE th[t].op # "regroup"
      <3>1. PICK x, w, l :
              /\ x = th[t].orig /\ w = VnicOf(x) /\ x.vnic # NoVnic /\ Goes(t, l)
              /\ \/ th[t].op \in Moving /\ Leave(MembersOf(x, w), x.dev) /\ l \in {"unmap", "removeCount"}
                 \/ /\ th[t].op = "secure" /\ member' = member \cup {<<"spoofguard", w>>} /\ off' = off
                    /\ l = "removeCount"
                 \/ th[t].op = "unsecure" /\ Leave({<<"spoofguard", w>>}, x.dev) /\ l = "addCount"
        BY <1>3, <2>3, PostGoes
      <3>0. ASSUME NEW ms, Leave(ms, x.dev), \A g, v : <<g, v>> \in ms => v = w
            PROVE  /\ off \subseteq off' /\ \A g, v : v # w => (<<g, v>> \in member' <=> <<g, v>> \in member)
                   /\ x.dev \notin off' => member' = member \ ms
        <4>1. off \subseteq off' /\ member' \subseteq member /\ member \ ms \subseteq member'
              /\ (x.dev \notin off' => member' = member \ ms)
          BY <3>0, LeaveDoes
        <4> QED  BY <3>0, <4>1
      <3>9. /\ off \subseteq off' /\ \A g, v : v # w => (<<g, v>> \in member' <=> <<g, v>> \in member)
            /\ th[t].op \in Moving /\ x.dev \notin off' => member' = member \ MembersOf(x, w)
            /\ th[t].op = "unsecure" /\ x.dev \notin off' => member' = member \ {<<"spoofguard", w>>}
        <4>1. CASE th[t].op \in Moving
          <5>1. \A g, v : <<g, v>> \in MembersOf(x, w) => v = w
            BY MemberOf
          <5>2. Leave(MembersOf(x, w), x.dev) /\ th[t].op # "unsecure"
            BY <3>1, <4>1 DEF Moving
          <5> QED  BY <3>0, <5>1, <5>2
        <4>2. CASE th[t].op = "unsecure"
          <5>1. Leave({<<"spoofguard", w>>}, x.dev) /\ th[t].op \notin Moving
            BY <3>1, <4>2 DEF Moving
          <5>2. \A g, v : <<g, v>> \in {<<"spoofguard", w>>} => v = w
            OBVIOUS
          <5> QED  BY <3>0, <5>1, <5>2
        <4>3. CASE th[t].op = "secure"
          BY <3>1, <4>3 DEF Moving
        <4> QED  BY <3>1, <4>1, <4>2, <4>3
      <3>2. x.vnic \in Vnics /\ x.vnic[1] = x.dev /\ w = x.vnic
        BY <1>1, <3>1, OwnVnic DEF Reads
      <3>3. /\ th'[t].op = th[t].op /\ th'[t].p = th[t].p /\ th'[t].orig = x /\ th'[t].arg = th[t].arg
            /\ th'[t].pc = l /\ Alone(t)
        BY <1>1, <3>1 DEF Goes, Request
      <3>4. th[t].op \in Moving \cup {"secure", "unsecure"} /\ l \in {"unmap", "removeCount", "addCount"}
            /\ (l = "unmap" => th[t].op \in Moving)
        BY <3>1, <3>3 DEF Moving
      <3>5. Pending(t) /\ Pending(t)' /\ (Leaving(t)' => Leaving(t)) /\ Has(t) = NamesOf(x)
        BY <1>1, <3>1, <3>3, <3>4 DEF Pending, Leaving, Moving, Changing, Has
      <3>6. Steady(t) /\ Releases(t)
        BY <1>1, <2>1, <3>1, <3>3, <3>5, <3>9 DEF Steady, Releases
      <3>7. Elsewhere(t)
        BY <1>1, <3>1, <3>2, <3>9, DueUnchanged DEF Elsewhere
      <3>8. Here(t)
        <4>1. CASE th[t].op \in Moving
          <5>1. Has(t)' = {}
            BY <3>3, <3>4, <4>1 DEF Has, Moving, Changing
          <5>2. x.dev \notin off' => \A g \in Names : <<g, w>> \in member' <=> <<g, w>> \in member /\ g \notin NamesOf(x)
            BY <3>9, <4>1, MemberOf
          <5> QED  BY <3>1, <3>2, <3>5, <5>1, <5>2 DEF Here
        <4>2. CASE th[t].op = "secure"
          <5>1. Updated(x, th[t].op, th[t].arg).sec /\ ~x.sec
            BY <1>1, <3>1, <4>2 DEF Updated, Port, Asked
          <5>2. Has(t)' = x.groups \cup {"spoofguard"} /\ NamesOf(x) = x.groups
            BY <3>1, <3>3, <4>2, <5>1 DEF Has, Changing, Moving, NamesOf
          <5>3. \A g \in Names : <<g, w>> \in member' <=> <<g, w>> \in member \/ g = "spoofguard"
            BY <3>1, <4>2 DEF Moving
          <5> QED  BY <3>1, <3>2, <3>5, <5>2, <5>3 DEF Here
        <4>3. CASE th[t].op = "unsecure"
          <5>1. ~Updated(x, th[t].op, th[t].arg).sec /\ x.sec
            BY <1>1, <3>1, <4>3 DEF Updated, Port, Asked
          <5>2. Has(t)' = x.groups /\ NamesOf(x) = x.groups \cup {"spoofguard"} /\ "spoofguard" \notin x.groups
            BY <1>1, <3>1, <3>3, <4>3, <5>1, NamesType DEF Has, Changing, Moving, NamesOf
          <5>3. x.dev \notin off' => \A g \in Names : <<g, w>> \in member' <=> <<g, w>> \in member /\ g # "spoofguard"
            BY <3>9, <4>3
          <5> QED  BY <3>1, <3>2, <3>5, <5>2, <5>3 DEF Here
        <4> QED  BY <3>4, <4>1, <4>2, <4>3
      <3> QED  BY <1>1, <3>6, <3>7, <3>8, HeldGrouped
    <2> QED  BY <2>2, <2>3
  <1>4. Ends(t) => \A l \in {"unmap", "removeCount", "addCount", "groups"} : ~Goes(t, l)
    BY <1>1 DEF Ends, Goes, Idle, Request
  <1> QED  BY <1>2, <1>3, <1>4, PostGoes
\* A refusal that ends the request before any group changes.
LEMMA RefusedGrouped == ASSUME VPortsAssumption, Base, Grouped, NEW t \in Threads, PostFails(t) \/ PlugLost(t) PROVE Grouped'
  <1>1. Ends(t) /\ UNCHANGED <<db, member>> /\ off \subseteq off'
    BY EndEnds DEF PostFails, PlugLost, backendVars
  <1>2. Pending(t) => th[t].orig.dev \in off'
    BY DEF PostFails, PlugLost, At, Pending, Leaving
  <1> QED  BY <1>1, <1>2, QuietEnds

LEMMA RegroupGrouped == ASSUME VPortsAssumption, Base, Rows, Grouped, NEW t \in Threads, Regroup(t) PROVE Grouped'
  <1>1. /\ th[t].pc = "groups" /\ Asked(t) /\ th[t] \in Request /\ th[t].orig \in Port /\ th[t].op \in Changing /\ Inside(t)
        /\ Reads(t) /\ Lives(t) /\ UNCHANGED <<db, off>> /\ NoVnic \notin Vnics /\ th[t].p \in Ports /\ Ends(t)
    BY ThreadTypes, EndEnds DEF Regroup, At, Asked, Inside, Changing, Rows, VPortsAssumption, Vnics
  <1>2. PICK x, y, w : /\ x = th[t].orig /\ y = Updated(x, th[t].op, th[t].arg) /\ w = VnicOf(x)
                       /\ member' = (member \ {<<g, w>> : g \in x.groups \ y.groups}) \cup {<<g, w>> : g \in y.groups \ x.groups}
    BY DEF Regroup
  <1>3. x \in Port /\ y \in Port /\ x.vnic \in Vnics /\ x.vnic[1] = x.dev /\ w = x.vnic /\ Compute(x)
    <2>1. y \in Port
      BY <1>1, <1>2, UpdatedType DEF Changing, Ops, UpdateOps
    <2>2. x.vnic # NoVnic /\ Compute(x)
      BY <1>1, <1>2 DEF Asked, Changing
    <2> QED  BY <1>1, <1>2, <2>1, <2>2, OwnVnic DEF Reads, Changing, UpdateOps
  <1>4. Pending(t) /\ ~Pending(t)' /\ ~Leaving(t)' /\ Has(t) = x.groups \cup (IF y.sec THEN {"spoofguard"} ELSE {})
    BY <1>1, <1>2 DEF Ends, Idle, Pending, Leaving, Moving, Changing, Has
  <1>5. Steady(t) /\ Releases(t)
    BY <1>1, <1>4 DEF Steady, Releases, Ends
  <1>6. \A v, g : /\ <<g, v>> \in {<<h, w>> : h \in x.groups \ y.groups} <=> v = w /\ g \in x.groups \ y.groups
                  /\ <<g, v>> \in {<<h, w>> : h \in y.groups \ x.groups} <=> v = w /\ g \in y.groups \ x.groups
    OBVIOUS
  <1>7. Elsewhere(t)
    BY <1>1, <1>2, <1>3, <1>6, DueUnchanged DEF Elsewhere
  <1>8. Here(t)
    <2>1. ASSUME x.dev \notin off PROVE Due(w) = NamesOf(y)
      <3>1. Live(th[t].p)
        BY <1>1, <1>2, <1>3, <2>1 DEF Lives
      <3>2. th[t].op \in UpdateOps /\ th[t].op # "plug" /\ ~Before(t)
        BY <1>1 DEF Changing, UpdateOps, Before
      <3>3. PICK z : z = db[th[t].p] /\ z.vnic = w /\ z.sec = y.sec /\ z.groups = y.groups
        BY <1>1, <1>2, <1>3, <2>1, <3>1, <3>2 DEF Reads
      <3>4. \A q \in Ports : db[q].vnic = w => q = th[t].p
        BY <1>1, <1>3, <3>3 DEF Rows, OneVnic
      <3>5. DueIn(db, w) = NamesOf(z)
        BY <1>1, <3>3, <3>4, DueOne
      <3> QED  BY <3>3, <3>5 DEF NamesOf, Due
    <2>2. Due(w)' = Due(w)
      BY <1>1 DEF Due
    <2>3. \A g \in Names : <<g, w>> \in member' <=> (<<g, w>> \in member /\ g \notin x.groups \ y.groups) \/ g \in y.groups \ x.groups
      BY <1>2, <1>6
    <2>4. "spoofguard" \notin x.groups /\ "spoofguard" \notin y.groups
      BY <1>3, NamesType
    <2>5. ASSUME x.dev \notin off, NEW g \in Names, <<g, w>> \in member <=> g \in Has(t)
          PROVE  <<g, w>> \in member' <=> g \in Due(w)'
      <3>1. Due(w)' = y.groups \cup (IF y.sec THEN {"spoofguard"} ELSE {})
        BY <2>1, <2>2, <2>5 DEF NamesOf
      <3> QED  BY <1>4, <2>3, <2>4, <2>5, <3>1
    <2> QED  BY <1>1, <1>2, <1>3, <1>4, <2>5 DEF Here, Due
  <1> QED  BY <1>1, <1>5, <1>7, <1>8, HeldGrouped

LEMMA RegroupFailsGrouped == ASSUME VPortsAssumption, Base, Rows, Grouped, NEW t \in Threads, RegroupFails(t) PROVE Grouped'
  <1>1. PICK x \in Port : /\ x = th[t].orig /\ th[t].pc = "groups" /\ Asked(t) /\ th[t] \in Request /\ th[t].op \in Changing
                          /\ Inside(t) /\ Reads(t) /\ Ends(t) /\ db' = db /\ NoVnic \notin Vnics
    BY ThreadTypes, EndEnds DEF RegroupFails, At, Asked, Inside, Changing, Rows, VPortsAssumption, Vnics
  <1>2. VnicOf(x) = x.vnic /\ Compute(x)
    <2>1. x.vnic # NoVnic /\ Compute(x)
      BY <1>1 DEF Asked, Changing
    <2> QED  BY <1>1, <2>1, OwnVnic DEF Reads, Changing, UpdateOps
  <1>3. off \subseteq off' /\ x.dev \in off'
    BY <1>1 DEF RegroupFails
  <1>4. PICK left, joined : member' = (member \ {<<g, x.vnic>> : g \in left}) \cup {<<g, x.vnic>> : g \in joined}
    <2>1. PICK left, joined :
            member' = (member \ {<<g, VnicOf(th[t].orig)>> : g \in left}) \cup {<<g, VnicOf(th[t].orig)>> : g \in joined}
      BY DEF RegroupFails
    <2> QED  BY <1>1, <1>2, <2>1
  <1>5. ~Pending(t)' /\ ~Leaving(t)'
    BY <1>1 DEF Ends, Idle, Pending, Leaving, Moving, Changing
  <1>6. Steady(t) /\ Releases(t)
    BY <1>1, <1>3, <1>5 DEF Steady, Releases, Ends
  <1>7. Elsewhere(t)
    <2>1. ASSUME NEW g, NEW v, v # x.vnic PROVE <<g, v>> \in member' <=> <<g, v>> \in member
      BY <1>4, <2>1
    <2>2. ASSUME NEW v \in Vnics, v[1] \notin off', v = x.vnic PROVE v[1] = x.dev
      BY <1>1, <2>2 DEF Reads, Changing, UpdateOps
    <2> QED  BY <1>1, <2>1, <2>2, DueUnchanged DEF Elsewhere
  <1>8. Here(t)
    BY <1>1, <1>3 DEF Here
  <1> QED  BY <1>1, <1>6, <1>7, <1>8, HeldGrouped

LEMMA UnmapGrouped == ASSUME VPortsAssumption, Base, Rows, Grouped, NEW t \in Threads, Unmap(t) PROVE Grouped'
  <1>1. /\ th[t].pc = "unmap" /\ Asked(t) /\ th[t] \in Request /\ th[t].orig \in Port /\ th[t].op \in Moving /\ Inside(t)
        /\ Reads(t) /\ UNCHANGED <<member, off, deviceLock>> /\ th[t].p \in Ports /\ th[t].op \in UpdateOps
    BY ThreadTypes DEF Unmap, At, Asked, Inside, Moving, UpdateOps, Rows, backendVars, lockVars
  <1>2. PICK p, x : p \in Ports /\ p = th[t].p /\ x = th[t].orig
    BY <1>1
  <1>3. Goes(t, "unbindRead")
    BY <1>1, GotoGoes DEF Unmap, Labels
  <1>4. /\ Alone(t) /\ th'[t].op = th[t].op /\ th'[t].p = p /\ th'[t].orig = x /\ th'[t].pc = "unbindRead"
    BY <1>1, <1>2, <1>3 DEF Goes, Request
  <1>5. /\ db[p] \in Port /\ db'[p] = [db[p] EXCEPT !.vnic = NoVnic] /\ \A q \in Ports \ {p} : db'[q] = db[q]
    BY <1>2, BaseData DEF Unmap, Data
  <1>6. db'[p].vnic = NoVnic /\ \A v \in Vnics : v # NoVnic
    BY <1>5 DEF Port, VPortsAssumption, Vnics
  <1>7. Pending(t) /\ Leaving(t) /\ ~Pending(t)' /\ ~Leaving(t)' /\ Has(t) = {}
    BY <1>1, <1>4 DEF Pending, Leaving, Has, Moving, Changing
  <1>8. Steady(t) /\ Releases(t)
    BY <1>1, <1>4, <1>5, <1>6, <1>7 DEF Steady, Releases
  <1>9. Elsewhere(t)
    <2>1. ASSUME NEW v \in Vnics, ~(v = x.vnic /\ v[1] = x.dev) PROVE Due(v)' = Due(v)
      <3>1. db[p].vnic # v
        <4>1. ASSUME db[p].vnic = v PROVE FALSE
          <5>1. Live(p)
            BY <1>2, <1>6, <4>1 DEF Base, Types, Absent
          <5>2. v = x.vnic
            BY <1>1, <1>2, <1>6, <4>1, <5>1 DEF Reads, Moving
          <5> QED  BY <1>1, <1>2, <1>6, <2>1, <5>2 DEF Reads
        <4> QED  BY <4>1
      <3>2. \A q \in Ports : /\ db'[q].vnic = v <=> db[q].vnic = v
                             /\ db[q].vnic = v => NamesOf(db'[q]) = NamesOf(db[q])
        BY <1>5, <1>6, <3>1
      <3> QED  BY <3>2, DueSame DEF Due
    <2> QED  BY <1>1, <1>2, <2>1 DEF Elsewhere
  <1>10. Here(t)
    <2>1. ASSUME x.vnic \in Vnics, x.dev \notin off PROVE DueIn(db', x.vnic) = {}
      <3>1. \A q \in Ports : db[q].vnic = x.vnic => q = p
        BY <1>2, <1>6, <1>7, <2>1 DEF Grouped, Left
      <3>2. \A q \in Ports : db'[q].vnic # x.vnic
        BY <1>5, <1>6, <2>1, <3>1
      <3> QED  BY <3>2, DueNone
    <2> QED  BY <1>1, <1>2, <1>7, <2>1 DEF Here
  <1> QED  BY <1>1, <1>8, <1>9, <1>10, HeldGrouped

LEMMA DeleteVnicGrouped == ASSUME VPortsAssumption, Base, Rows, Grouped, NEW t \in Threads, DeleteVnic(t) PROVE Grouped'
  <1>1. /\ th[t].pc = "delVnic" /\ UNCHANGED <<db, deviceLock>> /\ th[t] \in Request /\ th[t].orig \in Port /\ th[t].p \in Ports
        /\ Asked(t) /\ th[t].op = "delete" /\ Inside(t) /\ NoVnic \notin Vnics
    BY ThreadTypes DEF DeleteVnic, At, Asked, Inside, lockVars, VPortsAssumption, Vnics
  <1>2. PICK x, w, p, kept : /\ p \in Ports /\ x = th[t].orig /\ w = VnicOf(x) /\ p = th[t].p
                             /\ member' = member \ ({m \in MembersOf(x, w) : m[1] # "provider"} \ kept)
                             /\ off' = Stale(t) \cup (IF kept # {} \/ <<"provider", w>> \in member THEN {x.dev} ELSE {})
    BY <1>1 DEF DeleteVnic
  <1>3. PICK l \in {"removeCount", "delDb"} : Goto(t, l)
    BY DEF DeleteVnic
  <1>4. Goes(t, l)
    BY <1>1, <1>3, GotoGoes DEF Labels, DeleteVnic
  <1>5. /\ Alone(t) /\ th'[t].op = "delete" /\ th'[t].p = p /\ th'[t].orig = x /\ th'[t].pc = l
    BY <1>1, <1>2, <1>4 DEF Goes, Request
  <1>6. ~Pending(t) /\ Pending(t)' /\ ~Leaving(t)' /\ Has(t)' = {} /\ off \subseteq off'
    BY <1>1, <1>2, <1>5 DEF Pending, Leaving, Has, Moving, Changing, Stale
  <1>7. Steady(t) /\ Releases(t)
    BY <1>1, <1>2, <1>5, <1>6 DEF Steady, Releases
  <1>8. x.dev \in Devices \ off' => x = db[p] /\ w = x.vnic /\ <<"provider", w>> \notin member
    BY <1>2 DEF Stale, VPortsAssumption
  <1>9. ASSUME NEW g, NEW v, v # w \/ x.dev \notin off'
        PROVE  <<g, v>> \in member' <=> <<g, v>> \in member /\ ~(v = w /\ g \in NamesOf(x) /\ g # "provider")
    <2>1. <<g, v>> \in MembersOf(x, w) <=> g \in NamesOf(x) /\ v = w
      BY MemberOf
    <2>2. x.dev \notin off' => kept = {}
      BY <1>2
    <2> QED  BY <1>2, <1>9, <2>1, <2>2
  <1>10. Elsewhere(t)
    <2>1. ASSUME NEW v \in Vnics, v[1] \notin off', ~(v = x.vnic /\ v[1] = x.dev) PROVE v # w
      <3>1. ASSUME v = w PROVE FALSE
        <4>1. v[1] = x.dev /\ x.dev \in Devices \ off'
          BY <1>1, <1>2, <2>1, <3>1, NamedVnic DEF Vnics
        <4> QED  BY <1>8, <2>1, <3>1, <4>1
      <3> QED  BY <3>1
    <2> QED  BY <1>1, <1>2, <1>9, <2>1, DueUnchanged DEF Elsewhere
  <1>11. Here(t)
    <2>1. ASSUME x.vnic \in Vnics, x.vnic[1] = x.dev, x.dev \notin off'
          PROVE  w = x.vnic /\ Due(w) = NamesOf(x) /\ <<"provider", w>> \notin member
      <3>1. x.dev \in Devices
        BY <2>1 DEF Vnics
      <3>2. x = db[p] /\ w = x.vnic /\ <<"provider", w>> \notin member
        BY <1>8, <2>1, <3>1
      <3>3. \A q \in Ports : db[q].vnic = w => q = p
        BY <1>1, <1>2, <2>1, <3>2 DEF Rows, OneVnic
      <3>4. DueIn(db, w) = NamesOf(db[p])
        BY <1>2, <3>2, <3>3, DueOne
      <3> QED  BY <3>2, <3>4 DEF Due
    <2>2. ASSUME x.vnic \in Vnics, x.vnic[1] = x.dev, x.dev \notin off', NEW g \in Names, <<g, w>> \in member <=> g \in Due(w)
          PROVE  <<g, w>> \notin member'
      BY <1>9, <2>1, <2>2
    <2> QED  BY <1>2, <1>6, <2>1, <2>2 DEF Here
  <1> QED  BY <1>1, <1>7, <1>10, <1>11, HeldGrouped

LEMMA DeleteDbGrouped == ASSUME VPortsAssumption, Base, Rows, Grouped, NEW t \in Threads, DeleteDb(t) PROVE Grouped'
  <1>1. /\ th[t].pc = "delDb" /\ Asked(t) /\ th[t] \in Request /\ th[t].p \in Ports /\ th[t].op = "delete" /\ Inside(t)
        /\ member' = member /\ Deletes(t) /\ NoVnic \notin Vnics
    BY ThreadTypes DEF DeleteDb, At, Asked, Inside, Rows, backendVars, VPortsAssumption, Vnics
  <1>2. PICK p, x : p \in Ports /\ p = th[t].p /\ x = th[t].orig
    BY <1>1
  <1>3. /\ db' = [db EXCEPT ![p] = Absent] /\ off' = Stale(t) /\ off \subseteq off'
    BY <1>2 DEF DeleteDb, Stale
  <1>4. db'[p] = Absent /\ Absent.vnic = NoVnic /\ \A q \in Ports \ {p} : db'[q] = db[q]
    BY <1>2, <1>3, BaseData DEF Data, Absent
  <1>5. Ends(t) \/ (Goes(t, "unbindRead") /\ deviceLock' = deviceLock)
    <2>1. End(t) \/ (Goto(t, "unbindRead") /\ UNCHANGED lockVars)
      BY DEF DeleteDb
    <2> QED  BY <1>1, <2>1, EndEnds, GotoGoes DEF Labels, lockVars
  <1>6. Alone(t) /\ (th'[t] = Idle \/ (th'[t].op = "delete" /\ th'[t].pc = "unbindRead"))
    BY <1>1, <1>5 DEF Ends, Goes, Request
  <1>7. Pending(t) /\ ~Pending(t)' /\ ~Leaving(t)' /\ Has(t) = {}
    BY <1>1, <1>6 DEF Pending, Leaving, Has, Moving, Changing, Idle
  <1>8. Steady(t) /\ Releases(t)
    BY <1>3, <1>4, <1>5, <1>6, <1>7 DEF Steady, Releases, Ends
  <1>9. Elsewhere(t)
    <2>1. ASSUME NEW v \in Vnics, v[1] \notin off', ~(v = x.vnic /\ v[1] = x.dev) PROVE Due(v)' = Due(v) \/ Waits(t, v)
      <3>1. CASE db[p].vnic # v
        <4>1. \A q \in Ports : /\ db'[q].vnic = v <=> db[q].vnic = v
                               /\ db[q].vnic = v => NamesOf(db'[q]) = NamesOf(db[q])
          BY <1>1, <1>4, <3>1
        <4> QED  BY <4>1, DueSame DEF Due
      <3>2. CASE db[p].vnic = v
        <4>1. v[1] \in Devices /\ v # NoVnic
          BY <1>1 DEF Vnics
        <4>2. db[p].dev # v[1]
          <5>1. ASSUME db[p].dev = v[1] PROVE FALSE
            <6>1. db[p] = x /\ VnicOf(x) = x.vnic
              BY <1>2, <1>3, <2>1, <4>1, <5>1 DEF Stale, VPortsAssumption
            <6> QED  BY <2>1, <3>2, <5>1, <6>1
          <5> QED  BY <5>1
        <4>3. PICK r \in Threads : th[r].p = p /\ Leaving(r) /\ th[r].orig.vnic = v
          BY <1>2, <1>3, <2>1, <3>2, <4>1, <4>2 DEF Rows, OnDevice
        <4>4. Reads(r) /\ th[r].op \in UpdateOps /\ Inside(r) /\ r # t
          BY <1>1, <4>3 DEF Rows, Leaving, Moving, UpdateOps, Inside
        <4>5. th[r].orig.dev = v[1]
          BY <4>1, <4>3, <4>4 DEF Reads
        <4>6. deviceLock[v[1]] = r
          BY <4>1, <4>4, <4>5 DEF Base, Locks, Compute, VPortsAssumption
        <4> QED  BY <4>3, <4>4, <4>6 DEF Waits, Pending, VPortsAssumption
      <3> QED  BY <3>1, <3>2
    <2> QED  BY <1>1, <1>2, <2>1 DEF Elsewhere
  <1>10. Here(t)
    <2>1. ASSUME x.vnic \in Vnics, x.vnic[1] = x.dev, x.dev \notin off' PROVE DueIn(db', x.vnic) = {}
      <3>1. Compute(x) /\ x.dev \notin off
        BY <1>3, <2>1 DEF Vnics, Compute, VPortsAssumption
      <3>2. db[p] = x
        BY <1>1, <1>2, <3>1 DEF Deletes
      <3>3. \A q \in Ports : db'[q].vnic # x.vnic
        BY <1>1, <1>2, <1>4, <2>1, <3>2 DEF Rows, OneVnic
      <3> QED  BY <3>3, DueNone
    <2> QED  BY <1>1, <1>2, <1>7, <2>1 DEF Here
  <1> QED  BY <1>1, <1>8, <1>9, <1>10, HeldGrouped

LEMMA InitGrouped == ASSUME VPortsAssumption, Init PROVE Grouped
  <1>1. \A v \in Vnics : Due(v) = {}
    <2>1. \A v \in Vnics : v # NoVnic
      BY DEF Vnics, VPortsAssumption
    <2> QED  BY <2>1, DueNone DEF Init, Due, Absent
  <1>2. Left
    BY DEF Init, Left, Leaving, Idle, Moving
  <1>3. ASSUME NEW d \in Devices, NEW k \in Indices, NEW g \in Names PROVE Right(d, k, g)
    <2>1. Shows(d, <<d, k>>) = {}
      BY <1>1 DEF Init, Shows, Vnics
    <2> QED  BY <2>1 DEF Init, Right
  <1> QED  BY <1>2, <1>3 DEF Grouped
LEMMA NextGrouped == ASSUME VPortsAssumption, Base, Rows, Grouped, [Next]_vars PROVE Grouped'
  <1>1. ASSUME NEW t \in Threads, Work(t) PROVE Grouped'
    <2>1. ASSUME NEW p \in Ports, StartDelete(t, p) PROVE Grouped'
      <3>1. Live(p) /\ ~Inside(t) /\ ~Pending(t)
        BY <2>1 DEF StartDelete, Created, MayStart, Inside, Pending, Leaving, Idle, Moving, Changing
      <3> QED  BY <2>1, <3>1, DeleteOfGrouped DEF StartDelete
    <2> QED  BY <1>1, <2>1, CreateGrouped, StartUpdateGrouped, CountGrouped, BindGrouped, UnbindGrouped, LockGrouped,
                PlugGrouped, UpdateDbGrouped, PostGrouped, RefusedGrouped, RegroupGrouped, RegroupFailsGrouped, UnmapGrouped, DeleteReadGrouped,
                DeleteVnicGrouped, DeleteDbGrouped DEF Work
  <1>2. CASE UNCHANGED vars
    <2>1. UNCHANGED <<db, off, th, member, deviceLock>>
      BY <1>2 DEF vars, backendVars, lockVars
    <2>2. Left'
      BY <2>1 DEF Grouped, Left, Leaving
    <2>3. \A d, v : Shows(d, v)' = Shows(d, v)
      BY <2>1 DEF Shows, Due, Pending, Leaving, Has
    <2>4. \A d \in Devices \ off', k \in Indices, g \in Names : Right(d, k, g)'
      BY <2>1, <2>3 DEF Grouped, Right
    <2> QED  BY <2>2, <2>4 DEF Grouped
  <1> QED  BY <1>1, <1>2 DEF Next, Rest

LEMMA GroupedAgree == ASSUME VPortsAssumption, Base, Grouped PROVE GroupsAgree
  <1>1. ASSUME NEW v \in Vnics, Unlocked(v[1])
        PROVE  {m \in member : m[2] = v} = UNION {MembersOf(db[p], v) : p \in {q \in Ports : db[q].vnic = v}}
    <2>1. PICK d, k : d \in Devices \ off /\ k \in Indices /\ v = <<d, k>> /\ deviceLock[d] = NoThread
      BY <1>1 DEF Vnics, Unlocked
    <2>2. \A g \in Names : <<g, v>> \in member <=> g \in Due(v)
      BY <2>1 DEF Grouped, Right, Shows
    <2>3. ASSUME NEW m \in member, m[2] = v PROVE \E p \in Ports : db[p].vnic = v /\ m \in MembersOf(db[p], v)
      <3>1. m[1] \in Names /\ m = <<m[1], v>>
        BY <2>3 DEF Base, Types
      <3>2. PICK p \in Ports : db[p].vnic = v /\ m[1] \in NamesOf(db[p])
        BY <2>2, <3>1 DEF Due, DueIn
      <3> QED  BY <3>1, <3>2, MemberOf
    <2>4. ASSUME NEW p \in Ports, db[p].vnic = v, NEW m \in MembersOf(db[p], v) PROVE m \in member /\ m[2] = v
      <3>1. PICK g : g \in NamesOf(db[p]) /\ m = <<g, v>>
        BY DEF MembersOf, NamesOf
      <3>2. g \in Names
        BY <3>1, NamesType DEF Base, Types
      <3> QED  BY <2>2, <2>4, <3>1, <3>2 DEF Due, DueIn
    <2> QED  BY <2>3, <2>4
  <1> QED  BY <1>1 DEF GroupsAgree

\* Whatever the requests on the ports of a machine do at the same time, a vnic is in the groups
\* of its port, and in no others, when they are done: update_port, delete_port and the vnic that
\* is plugged.  Not of the machines in off: a port that changed or went between its read and
\* the lock of the device, an index that was another port's, provider groups left at the
\* deletion, or a refusal of the backend that is only logged or ends the request half way.
THEOREM PortsGrouped == Spec => []GroupsAgree
  <1>1. Init => Base /\ Rows /\ Grouped
    BY VPortsAssumption, InitBase, InitRows, InitGrouped
  <1>2. Base /\ Rows /\ Grouped /\ [Next]_vars => (Base /\ Rows /\ Grouped)'
    BY VPortsAssumption, NextBase, NextRows, NextGrouped
  <1>3. Base /\ Rows /\ Grouped => GroupsAgree
    BY VPortsAssumption, GroupedAgree
  <1> QED  BY <1>1, <1>2, <1>3, PTL DEF Spec

-----------------------------------------------------------------------------
(* The exclude list                                                        *)

LEMMA CardinalityOne ==
  ASSUME NEW S, IsFiniteSet(S), NEW p \in S PROVE Cardinality(S) \in Nat /\ (Cardinality(S) <= 1 <=> S \ {p} = {})
  <1>1. /\ Cardinality(S) \in Nat /\ IsFiniteSet(S \ {p}) /\ Cardinality(S \ {p}) = Cardinality(S) - 1
    BY FS_CardinalityType, FS_RemoveElement
  <1>2. Cardinality(S \ {p}) \in Nat /\ (Cardinality(S \ {p}) = 0 <=> S \ {p} = {})
    BY <1>1, FS_CardinalityType, FS_EmptySet
  <1> QED  BY <1>1, <1>2
LEMMA CardinalityZero == ASSUME NEW S, IsFiniteSet(S) PROVE Cardinality(S) \in Nat /\ (Cardinality(S) <= 0 <=> S = {})
  <1>1. Cardinality(S) \in Nat /\ (Cardinality(S) = 0 <=> S = {})
    BY FS_CardinalityType, FS_EmptySet
  <1> QED  BY <1>1

LEMMA OwnOf ==
  ASSUME VPortsAssumption, NEW d \in Devices
  PROVE  Unsecured(d) \ Foreign(d) = Own(d) /\ IsFiniteSet(Unsecured(d)) /\ (Foreign(d) = {} => Unsecured(d) = Own(d))
  <1>1. Unsecured(d) \ Foreign(d) = Own(d)
    <2>1. NoVnic \notin {d} \X Indices
      BY DEF VPortsAssumption
    <2> QED  BY <2>1 DEF Unsecured, Foreign, Own, OwnIn, Mine, Live
  <1>2. IsFiniteSet(Unsecured(d))
    <2>1. Unsecured(d) \subseteq Ports
      BY DEF Unsecured
    <2> QED  BY <2>1, FS_Subset DEF VPortsAssumption
  <1> QED  BY <1>1, <1>2

\* A machine whose lock another thread holds, or nobody.
LEMMA AwayExcluding ==
  ASSUME Base, Excluding, NEW t \in Threads, Alone(t), off \subseteq off', NEW d \in Devices \ off',
         deviceLock[d] # t, deviceLock'[d] = deviceLock[d], Own(d)' = Own(d), d \in excluded' <=> d \in excluded
  PROVE  Excludes(d)'
  <1>1. Excludes(d)
    BY DEF Excluding
  <1>2. CASE deviceLock[d] = NoThread
    BY <1>1, <1>2 DEF Excludes
  <1>3. CASE deviceLock[d] # NoThread
    <2>1. PICK u \in Threads : u = deviceLock[d] /\ th'[u] = th[u]
      BY <1>3 DEF Base, Types, Alone
    <2>2. Fits(d \in excluded, Own(d), th[u])
      BY <1>1, <1>3, <2>1 DEF Excludes
    <2>3. Fits(d \in excluded', Own(d)', th'[u])
      BY <2>1, <2>2 DEF Fits
    <2> QED  BY <1>3, <2>1, <2>3 DEF Excludes
  <1> QED  BY <1>2, <1>3

\* A step leaves the machines alone whose lock another thread holds, or nobody.
Apart(t) == \A d \in Devices \ off' : deviceLock[d] # t => Own(d)' = Own(d) /\ (d \in excluded' <=> d \in excluded)
\* What it does to the machine whose lock its thread holds.
Turn(t) ==
  \A d \in Devices \ off' :
    deviceLock[d] = t /\ Inside(t) /\ th[t].orig.dev = d /\ Fits(d \in excluded, Own(d), th[t]) =>
      IF deviceLock'[d] = t THEN Fits(d \in excluded', Own(d)', th'[t]) ELSE d \in excluded' <=> Own(d)' # {}
LEMMA StepExcluding ==
  ASSUME VPortsAssumption, Base, Excluding, NEW t \in Threads, Alone(t), off \subseteq off',
         \A d \in Devices : deviceLock'[d] = deviceLock[d] \/ (deviceLock[d] = t /\ deviceLock'[d] = NoThread),
         Apart(t), Turn(t)
  PROVE  Excluding'
  <1> SUFFICES ASSUME NEW d \in Devices \ off' PROVE Excludes(d)'
    BY DEF Excluding
  <1>1. Excludes(d)
    BY DEF Excluding
  <1>2. CASE deviceLock[d] = t
    <2>1. /\ Inside(t) /\ th[t].orig.dev = d /\ t # NoThread /\ deviceLock'[d] \in {t, NoThread}
          /\ Fits(d \in excluded, Own(d), th[t])
      BY <1>1, <1>2, Holds DEF Excludes
    <2>2. IF deviceLock'[d] = t THEN Fits(d \in excluded', Own(d)', th'[t]) ELSE d \in excluded' <=> Own(d)' # {}
      BY <1>2, <2>1 DEF Turn
    <2> QED  BY <2>1, <2>2 DEF Excludes
  <1>3. CASE deviceLock[d] # t
    <2>1. deviceLock'[d] = deviceLock[d] /\ Own(d)' = Own(d) /\ (d \in excluded' <=> d \in excluded)
      BY <1>3 DEF Apart
    <2> QED  BY <1>3, <2>1, AwayExcluding
  <1> QED  BY <1>2, <1>3

LEMMA ApartSame == ASSUME NEW t, UNCHANGED <<db, excluded>> PROVE Apart(t)
  BY DEF Apart, Own
LEMMA EndsExcluding ==
  ASSUME VPortsAssumption, Base, Excluding, NEW t \in Threads, Ends(t), UNCHANGED <<db, excluded>>, off \subseteq off',
         Inside(t) /\ th[t].orig.dev \in Devices \ off' =>
           \/ th[t].pc \in {"plug", "groups", "db", "unbindRead", "unbind"}
           \/ th[t].pc = "post" /\ (th[t].orig.vnic = NoVnic \/ th[t].op = "plug")
  PROVE  Excluding'
  <1>1. Turn(t)
    <2> SUFFICES ASSUME NEW d \in Devices \ off', deviceLock[d] = t, Inside(t), th[t].orig.dev = d, Fits(d \in excluded, Own(d), th[t])
                 PROVE  deviceLock'[d] # t /\ (d \in excluded' <=> Own(d)' # {})
      BY DEF Turn
    <2>1. deviceLock'[d] # t
      BY DEF Ends, VPortsAssumption
    <2>2. d \in excluded <=> Own(d) # {}
      BY DEF Fits
    <2> QED  BY <2>1, <2>2 DEF Own
  <1>2. \A d \in Devices : deviceLock'[d] = deviceLock[d] \/ (deviceLock[d] = t /\ deviceLock'[d] = NoThread)
    BY DEF Ends
  <1>3. Alone(t)
    BY DEF Ends
  <1> QED  BY <1>1, <1>2, <1>3, ApartSame, StepExcluding
\* A request that goes on, and changes neither list nor port.
LEMMA ForwardExcluding ==
  ASSUME VPortsAssumption, Base, Excluding, NEW t \in Threads, NEW label, Goes(t, label), Forward(t, label),
         UNCHANGED <<db, excluded, deviceLock>>, off \subseteq off',
         th[t].pc \in {"bindCheck", "bind", "unbindRead"}
         \/ (th[t].pc = "post" /\ th[t].orig.vnic # NoVnic
             /\ \/ th[t].op \in Moving /\ label = IF th[t].orig.sec THEN "unmap" ELSE "removeCount"
                \/ th[t].op = "secure" /\ label = "removeCount"
                \/ th[t].op = "unsecure" /\ label = "addCount"
                \/ th[t].op = "regroup" /\ label = "groups")
  PROVE  Excluding'
  <1>1. th[t] \in Request /\ Asked(t) /\ th[t].op \in Ops
    <2>1. th[t].pc # "idle"
      BY DEF Forward
    <2> QED  BY <2>1, ThreadTypes
  <1>2. /\ th'[t].op = th[t].op /\ th'[t].p = th[t].p /\ th'[t].orig = th[t].orig /\ th'[t].pc = label /\ Alone(t)
    BY <1>1 DEF Goes, Request
  <1>3. Turn(t)
    <2> SUFFICES ASSUME NEW d \in Devices \ off', deviceLock[d] = t, Inside(t), th[t].orig.dev = d, Fits(d \in excluded, Own(d), th[t])
                 PROVE  Fits(d \in excluded', Own(d)', th'[t])
      BY DEF Turn
    <2>1. PICK own, x, op, p, pc : /\ own = Own(d) /\ x = th[t].orig /\ op = th[t].op /\ p = th[t].p /\ pc = th[t].pc
                                   /\ Own(d)' = own
      BY DEF Own
    <2>2. CASE pc \in {"bindCheck", "bind"}
      <3>1. label \in {"bind", "post"} /\ op \in {"create", "attach"}
        BY <1>1, <2>1, <2>2 DEF Forward, After, Asked
      <3> QED  BY <1>2, <2>1, <2>2, <3>1 DEF Fits, Moving, Inside
    <2>3. CASE pc = "unbindRead"
      <3>1. label = "unbind"
        BY <2>1, <2>3 DEF Forward, After
      <3> QED  BY <1>2, <2>1, <2>3, <3>1 DEF Fits
    <2>4. CASE pc = "post" /\ op \in Moving
      BY <1>2, <2>1, <2>4 DEF Fits, Moving
    <2>5. CASE pc = "post" /\ op \notin Moving
      <3>1. \/ op = "secure" /\ label = "removeCount" /\ ~x.sec /\ x.vnic # NoVnic
            \/ op = "unsecure" /\ label = "addCount" /\ x.vnic # NoVnic
            \/ op = "regroup" /\ label = "groups"
        BY <1>1, <2>1, <2>5 DEF Asked
      <3>2. CASE op = "secure"
        BY <1>2, <2>1, <2>5, <3>1, <3>2 DEF Fits, Moving
      <3>3. CASE op = "unsecure"
        BY <1>2, <2>1, <2>5, <3>1, <3>3 DEF Fits, Moving
      <3>4. CASE op = "regroup"
        BY <1>2, <2>1, <2>5, <3>1, <3>4 DEF Fits, Moving
      <3> QED  BY <3>1, <3>2, <3>3, <3>4
    <2> QED  BY <2>1, <2>2, <2>3, <2>4, <2>5
  <1>4. \A d \in Devices : deviceLock'[d] = deviceLock[d]
    OBVIOUS
  <1> QED  BY <1>2, <1>3, <1>4, ApartSame, StepExcluding

\* A request that holds no lock of a machine.
LEMMA OutsideExcluding ==
  ASSUME VPortsAssumption, Base, Excluding, NEW t \in Threads, Alone(t), ~Inside(t), UNCHANGED <<excluded, deviceLock>>,
         off \subseteq off', \A d \in Devices \ off' : Own(d)' = Own(d)
  PROVE  Excluding'
  <1>1. Apart(t) /\ Turn(t)
    BY DEF Apart, Turn
  <1> QED  BY <1>1, StepExcluding
LEMMA SameOwn == ASSUME db' = db PROVE \A d : Own(d)' = Own(d)
  BY DEF Own

LEMMA LockExcluding == ASSUME VPortsAssumption, Base, Excluding, NEW t \in Threads, UpdateLock(t) \/ DeleteLock(t) PROVE Excluding'
  <1>1. UNCHANGED <<db, excluded, off>> /\ th[t].pc = "lock" /\ deviceLock[th[t].orig.dev] = NoThread
        /\ deviceLock' = [deviceLock EXCEPT ![th[t].orig.dev] = t]
    BY DEF UpdateLock, DeleteLock, Locked, backendVars, At
  <1>2. PICK l \in {"plug", "db", "delVnic"} : Goes(t, l) /\ Forward(t, l)
    BY LockGoes
  <1>3. Alone(t) /\ th'[t].pc = l
    BY <1>1, <1>2, ThreadTypes DEF Goes, Request
  <1> SUFFICES ASSUME NEW d \in Devices \ off' PROVE Excludes(d)'
    BY DEF Excluding
  <1>4. CASE d = th[t].orig.dev
    <2>1. deviceLock'[d] = t /\ t # NoThread
      BY <1>1, <1>4 DEF Base, Types, VPortsAssumption
    <2>2. d \in excluded <=> Own(d) # {}
      BY <1>1, <1>4 DEF Excluding, Excludes
    <2>3. Fits(d \in excluded', Own(d)', th'[t])
      BY <1>1, <1>3, <2>2, SameOwn DEF Fits
    <2> QED  BY <2>1, <2>3 DEF Excludes
  <1>5. CASE d # th[t].orig.dev
    <2>1. deviceLock[d] # t /\ deviceLock'[d] = deviceLock[d]
      BY <1>1, <1>5 DEF Base, Types, Locks
    <2> QED  BY <1>1, <1>3, <2>1, SameOwn, AwayExcluding
  <1> QED  BY <1>4, <1>5

LEMMA StartUpdateExcluding ==
  ASSUME VPortsAssumption, Base, Excluding, NEW t \in Threads, NEW p \in Ports, StartUpdate(t, p) PROVE Excluding'
  <1>1. /\ UNCHANGED <<db, excluded, off, deviceLock>> /\ th[t] = Idle
    BY DEF StartUpdate, backendVars, MayStart
  <1>2. Alone(t)
    <2>1. th' \in [Threads -> Request]
      BY StartUpdateBase DEF Base, Types
    <2> QED  BY <2>1 DEF StartUpdate, Alone, Base, Types
  <1>3. ~Inside(t)
    BY <1>1 DEF Inside, Idle
  <1> QED  BY <1>1, <1>2, <1>3, SameOwn, OutsideExcluding

LEMMA DeleteOfExcluding ==
  ASSUME VPortsAssumption, Base, Excluding, NEW t \in Threads, NEW p \in Ports, DeleteOf(t, p), Live(p), ~Inside(t),
         UNCHANGED <<db, backendVars, lockVars, off>>
  PROVE  Excluding'
  <1>1. Alone(t) /\ UNCHANGED <<excluded, deviceLock>>
    BY DeleteOfBase DEF backendVars, lockVars
  <1> QED  BY <1>1, SameOwn, OutsideExcluding
LEMMA DeleteReadExcluding == ASSUME VPortsAssumption, Base, Excluding, NEW t \in Threads, DeleteRead(t) PROVE Excluding'
  <1>1. th[t].pc = "delRead" /\ ~Inside(t) /\ th[t].p \in Ports /\ UNCHANGED <<db, backendVars, excluded, off>>
    BY ThreadTypes DEF DeleteRead, At, Inside, backendVars
  <1>2. CASE Live(th[t].p)
    BY <1>1, <1>2, DeleteOfExcluding DEF DeleteRead
  <1>3. CASE ~Live(th[t].p)
    BY <1>1, <1>3, EndEnds, EndsExcluding DEF DeleteRead
  <1> QED  BY <1>2, <1>3

LEMMA CreateExcluding ==
  ASSUME VPortsAssumption, Base, Excluding, NEW t \in Threads, NEW p \in Ports, NEW x \in NewPorts, Create(t, p, x) PROVE Excluding'
  <1>1. db' = [db EXCEPT ![p] = x] /\ UNCHANGED <<off, excluded, deviceLock>> /\ x.vnic = NoVnic /\ th[t] = Idle /\ ~Live(p)
    BY DEF Create, Fresh, MayStart, NewPorts, backendVars, lockVars
  <1>2. Alone(t) /\ ~Inside(t)
    <2>1. th' \in [Threads -> Request]
      BY CreateBase DEF Base, Types
    <2> QED  BY <1>1, <2>1 DEF Create, Alone, Base, Types, Inside, Idle
  <1>3. db'[p] = x /\ \A q \in Ports \ {p} : db'[q] = db[q]
    BY <1>1 DEF Base, Types
  <1>4. ASSUME NEW d \in Devices PROVE Own(d)' = Own(d)
    <2>1. NoVnic \notin {d} \X Indices
      BY DEF VPortsAssumption
    <2>2. \A q \in Ports : Mine(db'[q], d) <=> Mine(db[q], d)
      BY <1>1, <1>3, <2>1 DEF Mine, Live
    <2> QED  BY <2>2 DEF Own, OwnIn
  <1> QED  BY <1>1, <1>2, <1>4, OutsideExcluding

LEMMA BindExcluding ==
  ASSUME VPortsAssumption, Base, Excluding, NEW t \in Threads, BindCheck(t) \/ Bind(t) \/ BindFails(t) PROVE Excluding'
  <1>1. /\ th[t].pc \in {"bindCheck", "bind"} /\ UNCHANGED <<db, excluded>> /\ off \subseteq off' /\ Asked(t) /\ th[t] \in Request
    BY ThreadTypes DEF BindCheck, Bind, BindFails, At, backendVars
  <1>2. ASSUME End(t), th[t].op = "create" \/ ({th[t].orig.dev} \ {NoDevice} \subseteq off') PROVE Excluding'
    <2>1. Ends(t)
      BY <1>2, EndEnds
    <2>2. ~(Inside(t) /\ th[t].orig.dev \in Devices \ off')
      BY <1>2 DEF Inside, VPortsAssumption
    <2> QED  BY <1>1, <2>1, <2>2, EndsExcluding
  <1>3. ASSUME NEW l \in {"bind", "post"}, Goto(t, l), UNCHANGED lockVars, Forward(t, l) PROVE Excluding'
    <2>1. Goes(t, l) /\ UNCHANGED deviceLock
      BY <1>1, <1>3, GotoGoes DEF Labels, lockVars
    <2> QED  BY <1>1, <1>3, <2>1, ForwardExcluding
  <1>4. CASE BindCheck(t) \/ Bind(t)
    <2>1. \/ Goto(t, "bind") /\ UNCHANGED lockVars /\ th[t].pc = "bindCheck"
          \/ End(t) /\ th[t].op = "create"
          \/ Goto(t, "post") /\ UNCHANGED lockVars /\ th[t].op # "create"
      BY <1>4 DEF BindCheck, Bind, BindNext, At
    <2>2. th[t].op \in {"create", "attach"}
      BY <1>1 DEF Asked
    <2> QED  BY <1>1, <1>2, <1>3, <2>1, <2>2 DEF Forward
  <1>5. CASE BindFails(t) /\ th[t].op # "create"
    BY <1>2, <1>5 DEF BindFails
  <1>6. CASE BindFails(t) /\ th[t].op = "create"
    <2>1. PICK q : q = [th[t] EXCEPT !.pc = "delRead", !.op = "delete"]
      OBVIOUS
    <2>2. q \in Request
      BY <1>1, <2>1 DEF Request, Labels, Ops
    <2>3. th' = [th EXCEPT ![t] = q] /\ UNCHANGED <<deviceLock, off>>
      BY <1>6, <2>1 DEF BindFails, Base, Types, lockVars
    <2>4. Alone(t) /\ ~Inside(t)
      BY <1>6, <2>2, <2>3, AnewAlone DEF Inside
    <2> QED  BY <1>1, <2>3, <2>4, SameOwn, OutsideExcluding
  <1> QED  BY <1>4, <1>5, <1>6

LEMMA UnbindExcluding ==
  ASSUME VPortsAssumption, Base, Excluding, NEW t \in Threads, UnbindRead(t) \/ Unbind(t) PROVE Excluding'
  <1>1. /\ th[t].pc \in {"unbindRead", "unbind"} /\ UNCHANGED <<db, excluded>> /\ off \subseteq off'
    BY DEF UnbindRead, Unbind, At, backendVars
  <1>2. CASE End(t)
    BY <1>1, <1>2, EndEnds, EndsExcluding
  <1>3. CASE ~End(t)
    <2>1. Goto(t, "unbind") /\ UNCHANGED <<lockVars, deviceLock>> /\ Forward(t, "unbind") /\ th[t].pc = "unbindRead"
      BY <1>3 DEF UnbindRead, Unbind, Forward, At, lockVars
    <2>2. Goes(t, "unbind")
      BY <1>1, <2>1, GotoGoes DEF Labels
    <2> QED  BY <1>1, <2>1, <2>2, ForwardExcluding
  <1> QED  BY <1>2, <1>3
LEMMA RegroupExcluding ==
  ASSUME VPortsAssumption, Base, Excluding, NEW t \in Threads, Regroup(t) \/ RegroupFails(t) \/ PostFails(t) \/ PlugLost(t)
  PROVE  Excluding'
  <1>1. /\ UNCHANGED <<db, excluded>> /\ off \subseteq off' /\ Ends(t)
        /\ th[t].pc \in {"groups", "plug"} \/ th[t].orig.dev \in off'
    BY EndEnds DEF Regroup, RegroupFails, PostFails, PlugLost, At, backendVars
  <1> QED  BY <1>1, EndsExcluding
LEMMA PostExcluding == ASSUME VPortsAssumption, Base, Excluding, NEW t \in Threads, Post(t) PROVE Excluding'
  <1>1. /\ th[t].pc = "post" /\ UNCHANGED <<db, excluded>> /\ off \subseteq off' /\ th[t] \in Request
    BY ThreadTypes, LeaveDoes DEF Post, At
  <1>2. CASE Ends(t) /\ (th[t].orig.vnic = NoVnic \/ ~Compute(th[t].orig) \/ th[t].op = "plug")
    <2>1. ~Compute(th[t].orig) => th[t].orig.dev \notin Devices
      BY DEF Compute, VPortsAssumption
    <2> QED  BY <1>1, <1>2, <2>1, EndsExcluding
  <1>3. ASSUME NEW l, l # "idle", Goes(t, l), Forward(t, l), th[t].orig.vnic # NoVnic,
               \/ th[t].op \in Moving /\ l = IF th[t].orig.sec THEN "unmap" ELSE "removeCount"
               \/ th[t].op = "secure" /\ l = "removeCount"
               \/ th[t].op = "unsecure" /\ l = "addCount"
               \/ th[t].op = "regroup" /\ l = "groups"
        PROVE  Excluding'
    <2>1. ~End(t)
      <3>1. th'[t].pc = l
        BY <1>1, <1>3 DEF Goes, Request
      <3> QED  BY <1>3, <3>1, EndEnds DEF Ends, Idle
    <2>2. deviceLock' = deviceLock
      BY <2>1 DEF Post, lockVars
    <2> QED  BY <1>1, <1>3, <2>2, ForwardExcluding
  <1> QED  BY <1>1, <1>2, <1>3, PostGoes DEF Forward, Changing

\* The count of the ports of the machine, and the change of the list it decides.
LEMMA Counting ==
  ASSUME VPortsAssumption, Base, NEW t \in Threads, th[t].pc \in {"addCount", "removeCount", "add", "remove"}
  PROVE  /\ th[t] \in Request /\ Inside(t) /\ Asked(t) /\ Compute(th[t].orig) /\ th[t].orig.dev \in Devices /\ th[t].p \in Ports
         /\ \A d \in Devices : deviceLock[d] # t => d # th[t].orig.dev
         /\ th[t].pc \in {"addCount", "add"} => th[t].op \in {"plug", "unsecure"} /\ After(t) \in {"db", "groups"}
         /\ th[t].pc \in {"removeCount", "remove"} =>
              \/ th[t].op = "delete" /\ After(t) = "delDb"
              \/ th[t].op \in Moving \cup {"secure"} /\ After(t) \in {"unmap", "groups"} /\ ~th[t].orig.sec /\ th[t].orig.vnic # NoVnic
  <1>1. th[t] \in Request /\ Asked(t) /\ Compute(th[t].orig) /\ th[t].p \in Ports /\ th[t].orig \in Port
    BY ThreadTypes DEF Asked
  <1>2. th[t].op # "create"
    BY <1>1 DEF Asked, Moving
  <1>3. Inside(t) /\ th[t].orig.dev \in Devices
    BY <1>1, <1>2 DEF Inside, Compute, Port, AnyDevice
  <1>4. \A d \in Devices : deviceLock[d] # t => d # th[t].orig.dev
    BY <1>1, <1>3 DEF Base, Locks
  <1>5. th[t].pc \in {"addCount", "add"} => th[t].op \in {"plug", "unsecure"} /\ After(t) \in {"db", "groups"}
    BY <1>1 DEF Asked, After
  <1>6. th[t].pc \in {"removeCount", "remove"} =>
          \/ th[t].op = "delete" /\ After(t) = "delDb"
          \/ th[t].op \in Moving \cup {"secure"} /\ After(t) \in {"unmap", "groups"} /\ ~th[t].orig.sec /\ th[t].orig.vnic # NoVnic
    BY <1>1 DEF Asked, After, Moving
  <1> QED  BY <1>1, <1>3, <1>4, <1>5, <1>6
LEMMA CountExcluding == ASSUME VPortsAssumption, Base, Excluding, NEW t \in Threads, AddCount(t) \/ RemoveCount(t) PROVE Excluding'
  <1>1. th[t].pc \in {"addCount", "removeCount"} /\ UNCHANGED <<db, excluded, deviceLock, lockVars>> /\ off \subseteq off'
        /\ off' = IF Foreign(th[t].orig.dev) = {} THEN off ELSE off \cup {th[t].orig.dev}
    BY DEF AddCount, RemoveCount, Count, At, backendVars, lockVars
  <1>2. PICK l : /\ l = IF th[t].pc = "addCount" THEN (IF Cardinality(Unsecured(th[t].orig.dev)) <= 1 THEN "add" ELSE After(t))
                        ELSE IF Cardinality(Unsecured(th[t].orig.dev)) <= (IF th[t].op = "delete" THEN 1 ELSE 0) THEN "remove" ELSE After(t)
                 /\ Goto(t, l)
    BY <1>1 DEF AddCount, RemoveCount, Count, At
  <1>3. l \in Labels \ {"idle", "lock", "delRead"}
    BY <1>2 DEF After, Labels
  <1>4. Goes(t, l)
    BY <1>1, <1>2, <1>3, GotoGoes
  <1>5. Alone(t) /\ th'[t].op = th[t].op /\ th'[t].p = th[t].p /\ th'[t].orig = th[t].orig /\ th'[t].pc = l
    BY <1>1, <1>4, Counting DEF Goes, Request
  <1>6. Turn(t)
    <2> SUFFICES ASSUME NEW d \in Devices \ off', deviceLock[d] = t, Inside(t), th[t].orig.dev = d, Fits(d \in excluded, Own(d), th[t])
                 PROVE  Fits(d \in excluded', Own(d)', th'[t])
      BY <1>1 DEF Turn
    <2>1. Unsecured(d) = Own(d) /\ IsFiniteSet(Own(d))
      BY <1>1, OwnOf
    <2>2. PICK own, p : own = Own(d) /\ p = th[t].p /\ Own(d)' = own /\ IsFiniteSet(own) /\ Unsecured(d) = own
      BY <1>1, <2>1, SameOwn
    <2>3. (Cardinality(own) <= 0 <=> own = {}) /\ (p \in own => (Cardinality(own) <= 1 <=> own \ {p} = {}))
      BY <2>2, CardinalityOne, CardinalityZero
    <2>4. CASE th[t].pc = "addCount"
      <3>1. p \in own /\ (own \ {p} # {} => d \in excluded) /\ th[t].op \in {"plug", "unsecure"} /\ After(t) \in {"db", "groups"}
        BY <2>2, <2>4, Counting DEF Fits
      <3>2. l = "add" \/ (l \in {"db", "groups"} /\ d \in excluded)
        BY <1>2, <2>2, <2>3, <2>4, <3>1
      <3> QED  BY <1>1, <1>5, <2>2, <3>1, <3>2 DEF Fits
    <2>5. CASE th[t].pc = "removeCount" /\ th[t].op = "delete"
      <3>1. p \in own /\ d \in excluded
        BY <2>2, <2>5 DEF Fits
      <3>2. \/ l = "remove" /\ own \ {p} = {}
            \/ l = "delDb" /\ own \ {p} # {}
        BY <1>2, <2>2, <2>3, <2>5, <3>1 DEF After
      <3>3. l = "remove" => own = {p}
        BY <3>1, <3>2
      <3> QED  BY <1>1, <1>5, <2>2, <2>5, <3>1, <3>2, <3>3 DEF Fits, Moving
    <2>6. CASE th[t].pc = "removeCount" /\ th[t].op # "delete"
      <3>1. /\ th[t].op \in Moving \cup {"secure"} /\ After(t) \in {"unmap", "groups"} /\ ~th[t].orig.sec
            /\ th[t].orig.vnic # NoVnic
        BY <2>6, Counting
      <3>2. d \in excluded
        BY <2>6, <3>1 DEF Fits
      <3>3. \/ l = "remove" /\ own = {}
            \/ l \in {"unmap", "groups"} /\ own # {}
        BY <1>2, <2>2, <2>3, <2>6, <3>1
      <3> QED  BY <1>1, <1>5, <2>2, <2>6, <3>1, <3>2, <3>3 DEF Fits
    <2> QED  BY <1>1, <2>4, <2>5, <2>6
  <1> QED  BY <1>1, <1>5, <1>6, ApartSame, StepExcluding

LEMMA ListExcluding == ASSUME VPortsAssumption, Base, Excluding, NEW t \in Threads, Add(t) \/ Remove(t) PROVE Excluding'
  <1>1. /\ th[t].pc \in {"add", "remove"} /\ UNCHANGED <<db, deviceLock, lockVars>> /\ Goto(t, After(t)) /\ off \subseteq off'
        /\ \/ excluded' = IF th[t].pc = "add" THEN excluded \cup {th[t].orig.dev} ELSE excluded \ {th[t].orig.dev}
           \/ excluded' = excluded /\ th[t].orig.dev \in off'
    BY DEF Add, Remove, List, At, lockVars
  <1>2. After(t) \in Labels \ {"idle", "lock", "delRead"}
    BY DEF After, Labels
  <1>3. Goes(t, After(t))
    BY <1>1, <1>2, GotoGoes
  <1>4. Alone(t) /\ th'[t].op = th[t].op /\ th'[t].p = th[t].p /\ th'[t].orig = th[t].orig /\ th'[t].pc = After(t)
    BY <1>1, <1>3, Counting DEF Goes, Request
  <1>5. Apart(t)
    BY <1>1, Counting, SameOwn DEF Apart
  <1>6. Turn(t)
    <2> SUFFICES ASSUME NEW d \in Devices \ off', deviceLock[d] = t, Inside(t), th[t].orig.dev = d, Fits(d \in excluded, Own(d), th[t])
                 PROVE  Fits(d \in excluded', Own(d)', th'[t])
      BY <1>1 DEF Turn
    <2>1. PICK own, p : own = Own(d) /\ p = th[t].p /\ Own(d)' = own
      BY <1>1, SameOwn
    <2>2. CASE th[t].pc = "add"
      <3>1. p \in own /\ d \in excluded' /\ After(t) \in {"db", "groups"}
        BY <1>1, <2>1, <2>2, Counting DEF Fits
      <3> QED  BY <1>4, <2>1, <3>1 DEF Fits
    <2>3. CASE th[t].pc = "remove" /\ th[t].op = "delete"
      <3>1. own = {p} /\ d \notin excluded' /\ After(t) = "delDb"
        BY <1>1, <2>1, <2>3 DEF Fits, After
      <3> QED  BY <1>4, <2>1, <2>3, <3>1 DEF Fits, Moving
    <2>4. CASE th[t].pc = "remove" /\ th[t].op # "delete"
      <3>1. th[t].op \in Moving \cup {"secure"} /\ After(t) \in {"unmap", "groups"}
        BY <2>4, Counting
      <3>2. own = {} /\ d \notin excluded'
        BY <1>1, <2>1, <2>4, <3>1 DEF Fits
      <3> QED  BY <1>4, <2>1, <2>4, <3>1, <3>2 DEF Fits
    <2> QED  BY <1>1, <2>2, <2>3, <2>4
  <1> QED  BY <1>1, <1>4, <1>5, <1>6, StepExcluding

\* A step that changes the row of one port only.
LEMMA OwnSame == ASSUME NEW d, \A q \in Ports : Mine(db'[q], d) <=> Mine(db[q], d) PROVE Own(d)' = Own(d)
  BY DEF Own, OwnIn
LEMMA OwnBut ==
  ASSUME NEW d, NEW p \in Ports, \A q \in Ports \ {p} : db'[q] = db[q]
  PROVE  Own(d)' \ {p} = Own(d) \ {p} /\ (p \in Own(d) <=> Mine(db[p], d)) /\ (p \in Own(d)' <=> Mine(db'[p], d))
  BY DEF Own, OwnIn
LEMMA NotHeld ==
  ASSUME VPortsAssumption, Base, NEW t \in Threads, Inside(t), NEW d \in Devices, deviceLock[d] # t PROVE d # th[t].orig.dev
  BY DEF Base, Locks, Compute, VPortsAssumption

\* The vnic that is plugged is one of the machine whose lock is held.
LEMMA PlugDoes ==
  ASSUME VPortsAssumption, Base, Rows, NEW t \in Threads, Plug(t) \/ PlugFails(t), Taken(t) = {},
         NEW p \in Ports, p = th[t].p, th[t].orig = db[p]
  PROVE  /\ Plugged(t) \in {db[p].dev} \X Indices /\ db'[p].vnic = Plugged(t)
         /\ db'[p].sec = db[p].sec /\ db'[p].dev = db[p].dev /\ db'[p].live
         /\ \A q \in Ports \ {p} : db'[q] = db[q]
  <1>1. th[t].pc = "plug" /\ Map(t) /\ db[p].live /\ Plugged(t) \in {db[p].dev} \X Indices
    <2>1. th[t].pc = "plug" /\ Map(t) /\ th[t].orig.live /\ Asked(t) /\ th[t].op = "plug"
      BY PlugNotes
    <2>2. th[t].arg \in Indices
      BY <2>1 DEF Asked
    <2> QED  BY <2>1, <2>2 DEF Plugged
  <1>2. CASE Known(t)
    BY <1>1, <1>2 DEF Map, Known
  <1>3. CASE ~Known(t)
    <2>1. PICK r \in Ports, v \in Vnics, taken \in SUBSET Ports : Maps(t, r, v, taken)
      BY <1>1, <1>3, MapDoes
    <2>2. r = p /\ v = Plugged(t) /\ taken = {}
      BY <2>1 DEF Maps
    <2>3. /\ db'[r].vnic = v /\ db'[r].sec = db[r].sec /\ db'[r].dev = th[t].orig.dev /\ db'[r].live
          /\ \A q \in Ports \ (taken \cup {r}) : db'[q] = db[q]
      BY <2>1 DEF Maps
    <2> QED  BY <1>1, <2>2, <2>3
  <1> QED  BY <1>2, <1>3
LEMMA PlugApart ==
  ASSUME VPortsAssumption, Base, Rows, NEW t \in Threads, Plug(t) \/ PlugFails(t) PROVE Apart(t)
  <1>1. th[t].pc = "plug" /\ Map(t) /\ Inside(t) /\ excluded' = excluded
    BY PlugNotes
  <1>2. CASE Known(t)
    BY <1>1, <1>2, ApartSame DEF Map
  <1>3. CASE ~Known(t)
    <2>1. PICK p \in Ports, w \in Vnics, taken \in SUBSET Ports : Maps(t, p, w, taken)
      BY <1>1, <1>3, MapDoes
    <2>2. /\ w[1] = th[t].orig.dev /\ db'[p].dev = th[t].orig.dev /\ db[p].dev = th[t].orig.dev
          /\ \A q \in taken : db'[q].vnic = NoVnic /\ db[q].vnic = w
          /\ \A q \in Ports \ (taken \cup {p}) : db'[q] = db[q]
      <3>1. w = Plugged(t) /\ Plugged(t)[1] = th[t].orig.dev
        BY <2>1 DEF Maps, Plugged
      <3>2. db'[p].dev = th[t].orig.dev /\ db[p].dev = th[t].orig.dev
        BY <2>1 DEF Maps
      <3>3. /\ \A q \in taken : db'[q].vnic = NoVnic /\ db[q].vnic = w
            /\ \A q \in Ports \ (taken \cup {p}) : db'[q] = db[q]
        BY <2>1 DEF Maps
      <3> QED  BY <3>1, <3>2, <3>3
    <2>3. ASSUME NEW d \in Devices, deviceLock[d] # t PROVE Own(d)' = Own(d)
      <3>1. d # th[t].orig.dev
        BY <1>1, <2>3, NotHeld
      <3>2. w \notin {d} \X Indices /\ NoVnic \notin {d} \X Indices
        BY <2>2, <3>1 DEF VPortsAssumption
      <3>3. \A q \in Ports : Mine(db'[q], d) <=> Mine(db[q], d)
        <4>1. ~Mine(db'[p], d) /\ ~Mine(db[p], d)
          BY <2>2, <3>1 DEF Mine
        <4>2. \A q \in taken : ~Mine(db'[q], d) /\ ~Mine(db[q], d)
          BY <2>2, <3>2 DEF Mine
        <4>3. \A q \in Ports \ (taken \cup {p}) : db'[q] = db[q]
          BY <2>2
        <4> QED  BY <4>1, <4>2, <4>3
      <3> QED  BY <3>3, OwnSame
    <2> QED  BY <1>1, <2>3 DEF Apart
  <1> QED  BY <1>2, <1>3
LEMMA PlugExcluding ==
  ASSUME VPortsAssumption, Base, Rows, Excluding, NEW t \in Threads, Plug(t) \/ PlugFails(t) PROVE Excluding'
  <1>1. PICK p \in Ports, x \in Port :
          /\ p = th[t].p /\ x = th[t].orig /\ x.dev \in Devices /\ Compute(x) /\ x.live
          /\ th[t].pc = "plug" /\ th[t].op = "plug" /\ th[t] \in Request /\ Asked(t) /\ Inside(t)
    BY PlugNotes
  <1>2. off \subseteq off' /\ (Taken(t) # {} => x.dev \in off') /\ Map(t) /\ UNCHANGED excluded
    BY <1>1, PlugNotes DEF Noted
  <1>3. CASE Ends(t) /\ x.dev \in off'
    <2>1. Turn(t)
      BY <1>1, <1>3 DEF Turn
    <2>2. Alone(t) /\ \A d \in Devices : deviceLock'[d] = deviceLock[d] \/ (deviceLock[d] = t /\ deviceLock'[d] = NoThread)
      BY <1>3 DEF Ends
    <2>3. Apart(t)
      BY PlugApart
    <2> QED  BY <1>2, <2>1, <2>2, <2>3, StepExcluding
  <1>4. CASE ~(Ends(t) /\ x.dev \in off')
    <2>1. PICK l : /\ l = (IF x.sec THEN "db" ELSE "addCount") /\ Goes(t, l) /\ deviceLock' = deviceLock
                   /\ x.dev \notin off' => x = db[p]
      BY <1>1, <1>4, PlugNotes DEF lockVars
    <2>2. Alone(t) /\ th'[t].op = "plug" /\ th'[t].p = p /\ th'[t].orig = x /\ th'[t].pc = l
      BY <1>1, <2>1 DEF Goes, Request
    <2>3. Turn(t)
      <3> SUFFICES ASSUME NEW d \in Devices \ off', deviceLock[d] = t, Inside(t), th[t].orig.dev = d, Fits(d \in excluded, Own(d), th[t])
                   PROVE  Fits(d \in excluded', Own(d)', th'[t])
        BY <2>1 DEF Turn
      <3>1. d = x.dev /\ x = db[p] /\ Taken(t) = {} /\ (d \in excluded <=> Own(d) # {})
        BY <1>1, <1>2, <2>1 DEF Fits
      <3>2. PICK new : /\ new = Own(d)' /\ new \ {p} = Own(d) \ {p} /\ (x.sec => new = Own(d)) /\ (~x.sec => p \in new)
        <4>1. PICK v : /\ v = Plugged(t) /\ v \in {d} \X Indices
                       /\ db'[p].vnic = v /\ db'[p].sec = x.sec /\ db'[p].dev = d /\ db'[p].live
                       /\ \A q \in Ports \ {p} : db'[q] = db[q]
          BY <3>1, <1>1, PlugDoes
        <4>2. \A q \in Ports \ {p} : db'[q] = db[q]
          BY <4>1
        <4>3. Own(d)' \ {p} = Own(d) \ {p} /\ (p \in Own(d) <=> Mine(db[p], d)) /\ (p \in Own(d)' <=> Mine(db'[p], d))
          BY <4>2, OwnBut
        <4>4. x.sec => p \notin Own(d) /\ p \notin Own(d)'
          BY <3>1, <4>1, <4>3 DEF Mine
        <4>5. ~x.sec => p \in Own(d)'
          BY <4>1, <4>3 DEF Mine
        <4> QED  BY <4>3, <4>4, <4>5
      <3>3. CASE x.sec
        BY <1>2, <2>1, <2>2, <3>1, <3>2, <3>3 DEF Fits
      <3>4. CASE ~x.sec
        <4>1. p \in new /\ (new \ {p} # {} => d \in excluded')
          BY <1>2, <3>1, <3>2, <3>4
        <4> QED  BY <2>1, <2>2, <3>2, <3>4, <4>1 DEF Fits
      <3> QED  BY <3>3, <3>4
    <2>4. Apart(t)
      BY PlugApart
    <2> QED  BY <1>2, <2>1, <2>2, <2>3, <2>4, StepExcluding
  <1> QED  BY <1>3, <1>4

LEMMA UpdateDbExcluding == ASSUME VPortsAssumption, Base, Rows, Excluding, NEW t \in Threads, UpdateDb(t) PROVE Excluding'
  <1>1. /\ th[t].pc = "db" /\ Asked(t) /\ th[t] \in Request /\ th[t].p \in Ports /\ th[t].orig \in Port /\ th[t].op \in UpdateOps
        /\ Inside(t) /\ Reads(t) /\ UNCHANGED <<excluded, off>>
    BY ThreadTypes DEF UpdateDb, At, Asked, Inside, UpdateOps, Rows, backendVars
  <1>2. CASE ~Live(th[t].p)
    <2>1. Ends(t) /\ UNCHANGED db
      BY <1>2, EndEnds DEF UpdateDb
    <2> QED  BY <1>1, <2>1, EndsExcluding
  <1>3. CASE Live(th[t].p)
    <2>1. PICK p \in Ports, y \in Port, l \in {"bindCheck", "post"} : Changes(t, p, y, l)
      BY <1>3, UpdateDbDoes
    <2>2. PICK x, op, arg : x = th[t].orig /\ op = th[t].op /\ arg = th[t].arg
      OBVIOUS
    <2>3. /\ p = th[t].p /\ y = Updated(db[p], op, arg) /\ db'[p] = y /\ \A q \in Ports \ {p} : db'[q] = db[q]
          /\ y.live /\ y.vnic = db[p].vnic /\ y.dev = Updated(x, op, arg).dev /\ y.sec = Updated(x, op, arg).sec
          /\ db[p].live /\ db[p].dev = x.dev /\ db[p].sec = x.sec
          /\ (op # "plug" /\ x.dev \notin off => y.vnic = x.vnic)
          /\ deviceLock' = deviceLock /\ Goes(t, l)
      BY <1>3, <2>1, <2>2 DEF Changes, lockVars, Live
    <2>4. Alone(t) /\ th'[t].op = op /\ th'[t].p = p /\ th'[t].orig = x /\ th'[t].pc = l
      BY <1>1, <2>2, <2>3 DEF Goes, Request
    <2>5. db[p].vnic # NoVnic => db[p].vnic \in Vnics /\ db[p].vnic[1] = x.dev
      <3>1. op = "plug" => x.dev \in Devices /\ arg \in Indices
        BY <1>1, <2>2 DEF Asked, Compute, Port, AnyDevice
      <3>2. x.vnic # NoVnic => x.vnic \in Vnics /\ x.vnic[1] = x.dev
        BY <1>1, <2>2 DEF Reads
      <3>3. db[p].vnic \in {NoVnic, IF op = "plug" THEN <<x.dev, arg>> ELSE x.vnic}
        BY <2>1, <2>2, <2>3 DEF Changes, Plugged
      <3>4. op = "plug" => <<x.dev, arg>> \in Vnics /\ <<x.dev, arg>>[1] = x.dev
        BY <3>1 DEF Vnics
      <3>5. CASE op = "plug"
        BY <3>3, <3>4, <3>5
      <3>6. CASE op # "plug"
        BY <3>2, <3>3, <3>6
      <3> QED  BY <3>5, <3>6
    <2>6. Apart(t)
      <3>1. ASSUME NEW d \in Devices, deviceLock[d] # t PROVE Own(d)' = Own(d)
        <4>1. d # x.dev
          BY <1>1, <2>2, <3>1, NotHeld
        <4>2. y.vnic \notin {d} \X Indices
          BY <2>3, <2>5, <4>1 DEF VPortsAssumption
        <4>3. \A q \in Ports : Mine(db'[q], d) <=> Mine(db[q], d)
          BY <2>3, <4>1, <4>2 DEF Mine
        <4> QED  BY <4>3, OwnSame
      <3> QED  BY <1>1, <3>1 DEF Apart
    <2>7. Turn(t)
      <3> SUFFICES ASSUME NEW d \in Devices \ off', deviceLock[d] = t, Inside(t), th[t].orig.dev = d, Fits(d \in excluded, Own(d), th[t])
                   PROVE  Fits(d \in excluded', Own(d)', th'[t])
        BY <2>3 DEF Turn
      <3>1. x.dev = d /\ d \notin off /\ (d \in excluded <=> Own(d) # {}) /\ NoVnic \notin {d} \X Indices
        BY <1>1, <2>2 DEF Fits, VPortsAssumption
      <3>2. PICK own, new : own = Own(d) /\ new = Own(d)' /\ new \ {p} = own \ {p} /\ (p \in own <=> Mine(db[p], d)) /\ (p \in new <=> Mine(db'[p], d))
        <4>1. \A q \in Ports \ {p} : db'[q] = db[q]
          BY <2>3
        <4>2. Own(d)' \ {p} = Own(d) \ {p} /\ (p \in Own(d) <=> Mine(db[p], d)) /\ (p \in Own(d)' <=> Mine(db'[p], d))
          BY <4>1, OwnBut
        <4> QED  BY <4>2
      <3>3. db[p].vnic # NoVnic => db[p].vnic \in {d} \X Indices
        BY <2>5, <3>1 DEF Vnics
      <3>4. /\ p \in own <=> ~x.sec /\ db[p].vnic # NoVnic
            /\ p \in new <=> y.dev = d /\ ~y.sec /\ db[p].vnic # NoVnic
        BY <2>3, <3>1, <3>2, <3>3 DEF Mine
      <3>5. op # "plug" => db[p].vnic = x.vnic
        BY <2>3, <3>1
      <3>6. CASE op \in Moving
        <4>1. y.dev # d
          <5>1. x \in Port /\ y.dev = Updated(x, op, arg).dev /\ x.dev = d
            BY <1>1, <2>2, <2>3, <3>1
          <5>2. (op = "attach" => arg # d) /\ (op = "detach" => d # NoDevice)
            BY <1>1, <2>2, <3>1 DEF Asked, Compute
          <5>3. CASE op = "attach"
            BY <5>1, <5>2, <5>3 DEF Updated, Port
          <5>4. CASE op = "detach"
            BY <5>1, <5>2, <5>4 DEF Updated, Port
          <5> QED  BY <3>6, <5>3, <5>4 DEF Moving
        <4>2. new = own \ {p} /\ op # "plug"
          BY <3>2, <3>4, <3>6, <4>1 DEF Moving
        <4>3. CASE ~x.sec /\ x.vnic # NoVnic
          <5>1. d \in excluded
            BY <3>1, <3>2, <3>4, <3>5, <4>2, <4>3
          <5> QED  BY <1>1, <2>4, <3>6, <4>3, <5>1 DEF Fits, Moving
        <4>4. CASE x.sec \/ x.vnic = NoVnic
          <5>1. new = own
            BY <3>4, <3>5, <4>2, <4>4
          <5>2. d \in excluded' <=> Own(d)' # {}
            BY <1>1, <3>1, <3>2, <5>1
          <5> QED  BY <2>4, <3>6, <4>4, <5>2 DEF Fits, Moving
        <4> QED  BY <4>3, <4>4
      <3>7. CASE op \notin Moving
        <4>1. l = "post" /\ op \in {"plug", "secure", "unsecure", "regroup"}
          BY <1>1, <2>1, <2>2, <3>7 DEF Changes, Moving, UpdateOps
        <4>2. y.dev = d /\ (op \in {"plug", "regroup"} => y.sec = x.sec) /\ (op = "secure" => y.sec /\ ~x.sec)
              /\ (op = "unsecure" => ~y.sec /\ x.sec)
          BY <1>1, <2>2, <2>3, <3>1, <4>1 DEF Updated, Port, Asked
        <4>3. CASE op \in {"plug", "regroup"} \/ x.vnic = NoVnic
          <5>1. op # "plug" /\ x.vnic = NoVnic => db[p].vnic = NoVnic
            BY <3>5
          <5>2. p \in own <=> p \in new
            BY <3>4, <4>2, <4>3, <5>1
          <5>3. own = new
            BY <3>2, <5>2
          <5>4. d \in excluded' <=> Own(d)' # {}
            BY <1>1, <3>1, <3>2, <5>3
          <5> QED  BY <2>4, <4>1, <4>3, <5>4 DEF Fits, Moving
        <4>4. CASE op = "secure" /\ x.vnic # NoVnic
          <5>1. d \in excluded
            BY <3>1, <3>2, <3>4, <3>5, <4>2, <4>4
          <5> QED  BY <1>1, <2>4, <4>1, <4>2, <4>4, <5>1 DEF Fits, Moving
        <4>5. CASE op = "unsecure" /\ x.vnic # NoVnic
          <5>1. p \in new /\ (new \ {p} # {} => d \in excluded)
            BY <3>1, <3>2, <3>4, <3>5, <4>2, <4>5
          <5>2. p \in Own(d)' /\ (Own(d)' \ {p} # {} => d \in excluded')
            BY <1>1, <3>2, <5>1
          <5> QED  BY <2>4, <4>1, <4>5, <5>2 DEF Fits, Moving
        <4> QED  BY <4>1, <4>3, <4>4, <4>5
      <3> QED  BY <3>6, <3>7
    <2> QED  BY <1>1, <2>3, <2>4, <2>6, <2>7, StepExcluding
  <1> QED  BY <1>2, <1>3

LEMMA UnmapExcluding == ASSUME VPortsAssumption, Base, Rows, Excluding, NEW t \in Threads, Unmap(t) PROVE Excluding'
  <1>1. /\ th[t].pc = "unmap" /\ Asked(t) /\ th[t] \in Request /\ th[t].orig \in Port /\ th[t].op \in Moving /\ Inside(t)
        /\ Reads(t) /\ UNCHANGED <<excluded, off, deviceLock>> /\ th[t].p \in Ports /\ th[t].op \in UpdateOps
    BY ThreadTypes DEF Unmap, At, Asked, Inside, Moving, UpdateOps, Rows, backendVars, lockVars
  <1>2. Goes(t, "unbindRead")
    BY <1>1, GotoGoes DEF Unmap, Labels
  <1>3. Alone(t) /\ th'[t].op = th[t].op /\ th'[t].p = th[t].p /\ th'[t].pc = "unbindRead"
    BY <1>1, <1>2 DEF Goes, Request
  <1>4. PICK p, x : p \in Ports /\ p = th[t].p /\ x = th[t].orig
    BY <1>1
  <1>5. /\ db[p] \in Port /\ db'[p] = [db[p] EXCEPT !.vnic = NoVnic] /\ \A q \in Ports \ {p} : db'[q] = db[q]
    BY <1>4, BaseData DEF Unmap, Data
  <1>6. db'[p].vnic = NoVnic
    BY <1>5 DEF Port
  <1>7. ASSUME NEW d \in Devices PROVE Own(d)' = Own(d)
    <2>1. NoVnic \notin {d} \X Indices
      BY DEF VPortsAssumption
    <2>2. ~Mine(db[p], d)
      <3>1. ASSUME Mine(db[p], d) PROVE FALSE
        <4>1. db[p].live /\ db[p].dev = d /\ db[p].vnic \in {d} \X Indices /\ db[p].vnic # NoVnic
          BY <2>1, <3>1 DEF Mine
        <4>2. db[p].vnic = x.vnic /\ db[p].dev = Updated(x, th[t].op, th[t].arg).dev
          BY <1>1, <1>4, <4>1 DEF Reads, Live, Before, Moving
        <4>3. x.vnic[1] = x.dev
          BY <1>1, <1>4, <4>1, <4>2 DEF Reads
        <4>4. x.dev = d
          BY <4>1, <4>2, <4>3
        <4>5. Updated(x, th[t].op, th[t].arg).dev # d
          BY <1>1, <1>4, <4>4 DEF Updated, Moving, Port, Asked, Compute
        <4> QED  BY <4>1, <4>2, <4>5
      <3> QED  BY <3>1
    <2>3. ~Mine(db'[p], d)
      BY <1>6, <2>1 DEF Mine
    <2> QED  BY <1>5, <2>2, <2>3, OwnSame
  <1>8. Apart(t)
    BY <1>1, <1>7 DEF Apart
  <1>9. Turn(t)
    <2> SUFFICES ASSUME NEW d \in Devices \ off', deviceLock[d] = t, Inside(t), th[t].orig.dev = d, Fits(d \in excluded, Own(d), th[t])
                 PROVE  Fits(d \in excluded', Own(d)', th'[t])
      BY <1>1 DEF Turn
    <2>1. d \in excluded' <=> Own(d)' # {}
      BY <1>1, <1>7 DEF Fits
    <2> QED  BY <1>3, <2>1 DEF Fits
  <1> QED  BY <1>1, <1>3, <1>8, <1>9, StepExcluding

LEMMA DeleteVnicExcluding == ASSUME VPortsAssumption, Base, Rows, Excluding, NEW t \in Threads, DeleteVnic(t) PROVE Excluding'
  <1>1. /\ th[t].pc = "delVnic" /\ UNCHANGED <<db, excluded, deviceLock, lockVars>> /\ th[t] \in Request /\ th[t].orig \in Port
        /\ th[t].p \in Ports /\ th[t].op = "delete" /\ Inside(t) /\ th[t].orig.live
    BY ThreadTypes DEF DeleteVnic, At, Asked, Inside, lockVars
  <1>2. PICK x, p : p \in Ports /\ x = th[t].orig /\ p = th[t].p
    BY <1>1
  <1>3. PICK l \in {"removeCount", "delDb"} :
          Goto(t, l) /\ (l = "removeCount" <=> x.vnic # NoVnic /\ ~x.sec /\ Compute(x))
    BY <1>2 DEF DeleteVnic
  <1>4. Goes(t, l)
    BY <1>1, <1>3, GotoGoes DEF Labels
  <1>5. Alone(t) /\ th'[t].op = "delete" /\ th'[t].p = p /\ th'[t].orig = x /\ th'[t].pc = l
    BY <1>1, <1>2, <1>4 DEF Goes, Request
  <1>6. off \subseteq off' /\ (x.dev \in Devices \ off' => x = db[p] /\ VnicOf(x) = x.vnic)
    BY <1>2 DEF DeleteVnic, Stale, VPortsAssumption
  <1>7. Turn(t)
    <2> SUFFICES ASSUME NEW d \in Devices \ off', deviceLock[d] = t, Inside(t), th[t].orig.dev = d, Fits(d \in excluded, Own(d), th[t])
                 PROVE  Fits(d \in excluded', Own(d)', th'[t])
      BY <1>1 DEF Turn
    <2>1. x.dev = d /\ x = db[p] /\ VnicOf(x) = x.vnic /\ Compute(x)
      BY <1>2, <1>6 DEF Compute, VPortsAssumption
    <2>2. PICK own : own = Own(d) /\ Own(d)' = own /\ (d \in excluded <=> own # {}) /\ (p \in own <=> Mine(db[p], d))
      BY <1>1, <1>2, SameOwn DEF Fits, Own, OwnIn
    <2>3. x.vnic # NoVnic => x.vnic \in {d} \X Indices
      BY <1>1, <1>2, <2>1 DEF VnicOf, Port, AnyVnic
    <2>4. p \in own <=> x.vnic # NoVnic /\ ~x.sec
      <3>1. NoVnic \notin {d} \X Indices
        BY DEF VPortsAssumption
      <3> QED  BY <1>1, <1>2, <2>1, <2>2, <2>3, <3>1 DEF Mine
    <2>5. \/ l = "removeCount" /\ p \in own
          \/ l = "delDb" /\ p \notin own
      BY <1>3, <2>1, <2>4
    <2>6. p \notin own => own \ {p} = own
      OBVIOUS
    <2> QED  BY <1>1, <1>5, <2>2, <2>5, <2>6 DEF Fits, Moving
  <1> QED  BY <1>1, <1>5, <1>6, <1>7, ApartSame, StepExcluding

LEMMA DeleteDbExcluding == ASSUME VPortsAssumption, Base, Rows, Excluding, NEW t \in Threads, DeleteDb(t) PROVE Excluding'
  <1>1. /\ th[t].pc = "delDb" /\ th[t] \in Request /\ th[t].p \in Ports /\ th[t].op = "delete" /\ Inside(t)
        /\ excluded' = excluded /\ Deletes(t) /\ th[t].orig.live
    BY ThreadTypes DEF DeleteDb, At, Asked, Inside, Rows, backendVars
  <1>2. PICK p, x : p \in Ports /\ p = th[t].p /\ x = th[t].orig
    BY <1>1
  <1>3. /\ db' = [db EXCEPT ![p] = Absent] /\ off' = Stale(t) /\ off \subseteq off'
    BY <1>2 DEF DeleteDb, Stale
  <1>4. db'[p] = Absent /\ ~Absent.live /\ \A q \in Ports \ {p} : db'[q] = db[q]
    BY <1>2, <1>3, BaseData DEF Data, Absent
  <1>5. \/ Ends(t) /\ ~Live(p)
        \/ Goes(t, "unbindRead") /\ deviceLock' = deviceLock
    <2>1. (End(t) /\ ~Live(p)) \/ (Goto(t, "unbindRead") /\ UNCHANGED lockVars)
      BY <1>2 DEF DeleteDb
    <2> QED  BY <1>1, <2>1, EndEnds, GotoGoes DEF Labels, lockVars
  <1>6. Alone(t) /\ \A d \in Devices : deviceLock'[d] = deviceLock[d] \/ (deviceLock[d] = t /\ deviceLock'[d] = NoThread)
    BY <1>5 DEF Ends, Goes
  <1>7. Apart(t)
    <2>1. ASSUME NEW d \in Devices \ off', deviceLock[d] # t PROVE Own(d)' = Own(d)
      <3>1. d # x.dev
        BY <1>1, <1>2, <2>1, NotHeld
      <3>2. ~Mine(db[p], d)
        BY <1>2, <1>3, <2>1, <3>1 DEF Stale, Mine, VPortsAssumption
      <3>3. \A q \in Ports : Mine(db'[q], d) <=> Mine(db[q], d)
        BY <1>4, <3>2 DEF Mine
      <3> QED  BY <3>3, OwnSame
    <2> QED  BY <1>1, <2>1 DEF Apart
  <1>8. Turn(t)
    <2> SUFFICES ASSUME NEW d \in Devices \ off', deviceLock[d] = t, Inside(t), th[t].orig.dev = d, Fits(d \in excluded, Own(d), th[t])
                 PROVE  deviceLock'[d] = t /\ Fits(d \in excluded', Own(d)', th'[t])
      BY DEF Turn
    <2>1. db[p] = x
      BY <1>1, <1>2, <1>3 DEF Deletes, Compute, VPortsAssumption
    <2>2. Live(p)
      BY <1>1, <1>2, <2>1 DEF Live
    <2>3. th'[t].pc = "unbindRead" /\ th'[t].op = "delete" /\ deviceLock'[d] = t
      BY <1>1, <1>5, <2>2 DEF Goes, Request
    <2>4. Own(d)' = Own(d) \ {p}
      <3>1. Own(d)' \ {p} = Own(d) \ {p} /\ (p \in Own(d)' <=> Mine(db'[p], d))
        BY <1>2, <1>4, OwnBut
      <3> QED  BY <1>4, <3>1 DEF Mine
    <2>5. d \in excluded <=> Own(d) \ {p} # {}
      BY <1>1, <1>2 DEF Fits
    <2> QED  BY <1>1, <2>3, <2>4, <2>5 DEF Fits
  <1> QED  BY <1>1, <1>3, <1>6, <1>7, <1>8, StepExcluding

LEMMA InitExcluding == ASSUME VPortsAssumption, Init PROVE Excluding
  <1>1. \A d \in Devices : Own(d) = {}
    BY DEF Init, Own, OwnIn, Mine, Absent
  <1> QED  BY <1>1 DEF Init, Excluding, Excludes
LEMMA NextExcluding == ASSUME VPortsAssumption, Base, Rows, Excluding, [Next]_vars PROVE Excluding'
  <1>1. ASSUME NEW t \in Threads, Work(t) PROVE Excluding'
    <2>1. ASSUME NEW p \in Ports, StartDelete(t, p) PROVE Excluding'
      <3>1. Live(p) /\ ~Inside(t)
        BY <2>1 DEF StartDelete, Created, MayStart, Inside, Idle
      <3> QED  BY <2>1, <3>1, DeleteOfExcluding DEF StartDelete
    <2> QED  BY <1>1, <2>1, CreateExcluding, StartUpdateExcluding, CountExcluding, ListExcluding, BindExcluding, UnbindExcluding,
                LockExcluding, PlugExcluding, UpdateDbExcluding, PostExcluding, RegroupExcluding, UnmapExcluding,
                DeleteReadExcluding, DeleteVnicExcluding, DeleteDbExcluding DEF Work
  <1>2. CASE UNCHANGED vars
    <2>1. UNCHANGED <<db, off, th, excluded, deviceLock>>
      BY <1>2 DEF vars, backendVars, lockVars
    <2> QED  BY <2>1 DEF Excluding, Excludes, Own
  <1> QED  BY <1>1, <1>2 DEF Next, Rest

\* The machines that have an unsecured port of their own are excluded from the firewall, and no
\* others: the first unsecured port adds one (_add_vm_to_exclude_list) and the last one removes it
\* (_remove_vm_from_exclude_list), though the ports are counted before the list is changed and
\* other requests run in between.  Not of the machines in off: see PortsGrouped; a refusal to
\* change the list is logged there too.
THEOREM PortsExcluded == Spec => []ExcludeAgrees
  <1>1. Init => Base /\ Rows /\ Excluding
    BY VPortsAssumption, InitBase, InitRows, InitExcluding
  <1>2. Base /\ Rows /\ Excluding /\ [Next]_vars => (Base /\ Rows /\ Excluding)'
    BY VPortsAssumption, NextBase, NextRows, NextExcluding
  <1>3. Base /\ Excluding => ExcludeAgrees
    <2>1. ASSUME Base, Excluding, NEW d \in Devices, Unlocked(d) PROVE d \in excluded <=> Unsecured(d) \ Foreign(d) # {}
      <3>1. d \in excluded <=> Own(d) # {}
        BY <2>1 DEF Unlocked, Excluding, Excludes
      <3> QED  BY <3>1, VPortsAssumption, OwnOf
    <2> QED  BY <2>1 DEF ExcludeAgrees
  <1> QED  BY <1>1, <1>2, <1>3, PTL DEF Spec
=============================================================================
