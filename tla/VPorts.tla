------------------------------- MODULE VPorts -------------------------------
(***************************************************************************)
(* Ports of the NSX-V plugin and what the backend keeps for them: the      *)
(* security groups and the spoofguard policy a vnic is in, the list of     *)
(* virtual machines excluded from the firewall because one of their vnics  *)
(* has no port security, and the static DHCP binding of each address.      *)
(*                                                                         *)
(* update_port holds 'port-update-<id>' and then 'port-device-<device>' of *)
(* the device the port had when it was read; delete_port reads the port    *)
(* before it takes the lock of the device; create_port takes no lock.      *)
(* One network with a DHCP edge; one security group and one provider       *)
(* group; spoofguard and the exclude list are enabled.  The backend may    *)
(* refuse to put a vnic into a group or to take it out, a change of the    *)
(* exclude list, and a binding; the machine is found in vCenter.           *)
(***************************************************************************)
EXTENDS Naturals, FiniteSets

CONSTANTS Threads, Ports, Devices, Indices, Ips, NoThread, NoIp, NoPort, NoDevice, NoVnic

ASSUME VPortsAssumption ==
  /\ NoThread \notin Threads /\ NoPort \notin Ports /\ NoDevice \notin Devices
  /\ NoVnic \notin Devices \X Indices /\ NoDevice \notin Ports /\ IsFiniteSet(Ports)

VARIABLES
  db,        \* ports in the database: device, address, port security, groups, and
             \* the vnic (nsxv_port_index_mappings)
  member,    \* vnics in "sg", "provider" and "spoofguard" at the backend
  excluded,  \* virtual machines in the exclude list
  bind,      \* static DHCP bindings of the edge (and nsxv_edge_dhcp_static_bindings):
             \* port and address
  portLock, deviceLock,
  th,        \* the request of each thread
  off        \* (history) devices and ports that a known weakness, or a refusal of the
             \* backend that is only logged or that ends the request, has put out of step

backendVars == <<member, excluded, bind>>
lockVars    == <<portLock, deviceLock>>
vars        == <<db, backendVars, lockVars, th, off>>

Vnics  == Devices \X Indices
Groups == {"sg", "provider"}
Absent == [dev |-> NoDevice, ip |-> NoIp, sec |-> FALSE, groups |-> {}, vnic |-> NoVnic, live |-> FALSE]
Idle   == [pc |-> "idle", op |-> "none", p |-> NoPort, arg |-> NoDevice, orig |-> Absent]

Live(p)        == db[p].live
Compute(x)     == x.dev # NoDevice
At(t, label)   == th[t].pc = label
Goto(t, label) == th' = [th EXCEPT ![t].pc = label]
\* The end of a request, and an exception: the locks are released.
End(t) == /\ th' = [th EXCEPT ![t] = Idle]
          /\ portLock' = [p \in Ports |-> IF portLock[p] = t THEN NoThread ELSE portLock[p]]
          /\ deviceLock' = [d \in Devices |-> IF deviceLock[d] = t THEN NoThread ELSE deviceLock[d]]

\* The name of a vnic is made of the device and the index of the port that was read.
VnicOf(x) == IF x.vnic = NoVnic THEN NoVnic ELSE <<x.dev, x.vnic[2]>>
\* What the backend should have of a port whose vnic is plugged.
MembersOf(x, v) == {<<g, v>> : g \in x.groups \cup (IF x.sec THEN {"spoofguard"} ELSE {})}

-----------------------------------------------------------------------------
(* The exclude list: a machine is added with its first port without        *)
(* security, and removed with the last one.                                *)

Unsecured(d) == {p \in Ports : Live(p) /\ db[p].dev = d /\ db[p].vnic # NoVnic /\ ~db[p].sec}
\* A port on its way to another device still has the vnic of the one it left.
Foreign(d)   == {p \in Unsecured(d) : db[p].vnic \notin {d} \X Indices}

\* What follows the change of the list in each request.
After(t) == CASE th[t].op = "plug" -> "db"
              [] th[t].op = "delete" -> "delDb"
              [] th[t].op \in {"attach", "detach"} -> "unmap"
              [] OTHER -> "groups"
Count(t, bound, label) ==
  LET d == th[t].orig.dev IN
  /\ Goto(t, IF Cardinality(Unsecured(d)) <= bound THEN label ELSE After(t))
  /\ off' = IF Foreign(d) = {} THEN off ELSE off \cup {d}
  /\ UNCHANGED <<db, backendVars, lockVars>>

AddCount(t) == At(t, "addCount") /\ Count(t, 1, "add")
\* Mutant: the port is always expected to be in the database still.
RemoveCountOne(t) == At(t, "removeCount") /\ Count(t, 1, "remove")
RemoveCount(t) ==
  At(t, "removeCount") /\ Count(t, IF th[t].op = "delete" THEN 1 ELSE 0, "remove")
\* A refusal (RequestBad) is logged, and the request goes on.
List(t, new) ==
  /\ \/ excluded' = new /\ UNCHANGED off
     \/ UNCHANGED excluded /\ off' = off \cup {th[t].orig.dev}
  /\ Goto(t, After(t))
  /\ UNCHANGED <<db, member, bind, lockVars>>
Add(t)    == At(t, "add") /\ List(t, excluded \cup {th[t].orig.dev})
Remove(t) == At(t, "remove") /\ List(t, excluded \ {th[t].orig.dev})

-----------------------------------------------------------------------------
(* Static bindings.  The port is looked up before the lock of the edge is  *)
(* taken; the backend refuses a second binding of an address, and the one  *)
(* that was there gives way.                                               *)

BindNext(t, label) == IF th[t].op = "create" THEN End(t) ELSE Goto(t, label) /\ UNCHANGED lockVars

BindCheck(t) ==
  /\ At(t, "bindCheck")
  /\ IF Live(th[t].p) THEN Goto(t, "bind") /\ UNCHANGED lockVars ELSE BindNext(t, "post")
  /\ UNCHANGED <<db, backendVars, off>>

Bound(p) == {b \in bind : b[1] = p}
Overlapping(i) == {b \in bind : b[2] = i}
Bind(t) ==
  LET p == th[t].p
      i == th[t].orig.ip IN
  /\ At(t, "bind")
  /\ bind' = (bind \ (Overlapping(i) \cup Bound(p))) \cup {<<p, i>>}
  /\ off' = IF Live(p) THEN off ELSE off \cup ({b[1] : b \in Overlapping(i)} \ {p})
  /\ BindNext(t, "post")
  /\ UNCHANGED <<db, member, excluded>>
\* The backend refuses it for long enough: create_port deletes the port, an update fails
\* where it is, with the vnic on the device the port has left.
BindFails(t) ==
  LET p == th[t].p IN
  /\ At(t, "bind")
  /\ IF th[t].op = "create"
       THEN /\ th' = [th EXCEPT ![t].pc = "delRead", ![t].op = "delete"]
            /\ UNCHANGED <<lockVars, off>>
       ELSE End(t) /\ off' = off \cup ({p, th[t].orig.dev} \ {NoDevice})
  /\ UNCHANGED <<db, backendVars>>
\* Mutant: the binding of the address is deleted, without a look at its port.
UnbindIp(t) ==
  /\ At(t, "unbind") /\ bind' = bind \ Overlapping(th[t].orig.ip) /\ End(t)
  /\ UNCHANGED <<db, member, excluded, off>>
\* Only the binding of this port is deleted, whatever has its address by now.
Unbind(t) ==
  LET p == th[t].p IN
  /\ At(t, "unbind")
  /\ bind' = bind \ Bound(p)
  /\ off' = IF Live(p) /\ Compute(db[p]) THEN off \cup {p} ELSE off
  /\ End(t)
  /\ UNCHANGED <<db, member, excluded>>

-----------------------------------------------------------------------------
(* create_port.  A port nobody refers to any more may come back as a new   *)
(* one; requests on a port start when it has been created.                 *)

\* The bound: requests start until something is out of step.
MayStart(t) == th[t] = Idle /\ off = {}

Fresh(p) == ~Live(p) /\ Bound(p) = {} /\ \A t \in Threads : th[t].p # p
Create(t, p, x) ==
  /\ MayStart(t) /\ Fresh(p)
  /\ \A q \in Ports : db[q].ip # x.ip
  /\ db' = [db EXCEPT ![p] = x]
  /\ th' = IF Compute(x)
             THEN [th EXCEPT ![t] = [pc |-> "bindCheck", op |-> "create", p |-> p, arg |-> NoDevice, orig |-> x]]
             ELSE th
  /\ UNCHANGED <<backendVars, lockVars, off>>
NewPorts ==
  {[dev |-> d, ip |-> i, sec |-> s, groups |-> IF s THEN {"sg"} ELSE {}, vnic |-> NoVnic, live |-> TRUE] :
     d \in Devices \cup {NoDevice}, i \in Ips, s \in BOOLEAN}

Created(p) == Live(p) /\ \A t \in Threads : th[t].p = p => th[t].op # "create"

\* The lock of the device the port had when it was read.
Locked(t, label) ==
  LET d == th[t].orig.dev IN
  /\ At(t, "lock") /\ deviceLock[d] = NoThread
  /\ deviceLock' = [deviceLock EXCEPT ![d] = t]
  /\ Goto(t, label)
  /\ UNCHANGED <<db, backendVars, portLock, off>>
LabelOf(x, label) == IF Compute(x) THEN "lock" ELSE label

-----------------------------------------------------------------------------
(* update_port: a vnic is plugged into a device, the port moves to another *)
(* device or leaves it, its port security or its groups change.            *)

Updated(x, op, arg) ==
  CASE op = "attach"   -> [x EXCEPT !.dev = arg]
    [] op = "detach"   -> [x EXCEPT !.dev = NoDevice]
    [] op = "secure"   -> [x EXCEPT !.sec = TRUE, !.groups = {"sg"}]
    [] op = "unsecure" -> [x EXCEPT !.sec = FALSE, !.groups = {}]
    [] op = "regroup"  -> [x EXCEPT !.groups = IF "provider" \in x.groups THEN {"sg"} ELSE Groups]
    [] OTHER           -> x

\* An index that another port has is taken from that port; a port is refused a second one.
MayPlug(x, i) == Compute(x) /\ x.vnic \in {NoVnic, <<x.dev, i>>}
Updates(x) ==
  {<<"plug", i>> : i \in {j \in Indices : MayPlug(x, j)}}
  \cup {<<"attach", d>> : d \in Devices \ {x.dev}}
  \cup (IF Compute(x) THEN {<<"detach", NoDevice>>} ELSE {})
  \cup (IF x.sec THEN {<<"unsecure", NoDevice>>, <<"regroup", NoDevice>>} ELSE {<<"secure", NoDevice>>})

StartUpdate(t, p) ==
  /\ MayStart(t) /\ Created(p) /\ portLock[p] = NoThread
  /\ portLock' = [portLock EXCEPT ![p] = t]
  /\ \E u \in Updates(db[p]) :
       th' = [th EXCEPT ![t] = [pc |-> LabelOf(db[p], "db"), op |-> u[1], p |-> p, arg |-> u[2], orig |-> db[p]]]
  /\ UNCHANGED <<db, backendVars, deviceLock, off>>
UpdateLock(t) == th[t].op # "delete" /\ Locked(t, IF th[t].op = "plug" THEN "plug" ELSE "db")

\* A known weakness: the port has changed, or is gone, since it was read without the lock of
\* the device, or was read while an update moved it.
Stale(t) == LET x == th[t].orig
                y == db[th[t].p]
            IN  IF x = y /\ VnicOf(x) = x.vnic THEN off ELSE off \cup ({x.dev, y.dev} \ {NoDevice})

\* The vnic is mapped to the port, unless the port that was read has it.
Plugged(t) == <<th[t].orig.dev, th[t].arg>>
Known(t)   == th[t].orig.vnic = Plugged(t)
Taken(t)   == {q \in Ports \ {th[t].p} : Live(q) /\ db[q].vnic = Plugged(t)}
Map(t) ==
  /\ Known(t) \/ Live(th[t].p)
  /\ db' = IF Known(t) THEN db
           ELSE [q \in Ports |-> IF q = th[t].p THEN [db[q] EXCEPT !.vnic = Plugged(t)]
                                 ELSE IF q \in Taken(t) THEN [db[q] EXCEPT !.vnic = NoVnic] ELSE db[q]]
\* It joins the groups of the port that was read, which may be gone if it had the vnic.
Plug(t) ==
  LET x == th[t].orig IN
  /\ At(t, "plug") /\ Map(t)
  /\ member' = member \cup MembersOf(x, Plugged(t))
  /\ off' = Stale(t) \cup (IF Taken(t) = {} THEN {} ELSE {x.dev})
  /\ Goto(t, IF x.sec THEN "db" ELSE "addCount")
  /\ UNCHANGED <<excluded, bind, lockVars>>
\* The backend refuses a group: the vnic stays mapped.
PlugFails(t) ==
  LET x == th[t].orig IN
  /\ At(t, "plug") /\ Map(t)
  /\ \E ms \in (SUBSET MembersOf(x, Plugged(t))) \ {MembersOf(x, Plugged(t))} : member' = member \cup ms
  /\ End(t) /\ off' = off \cup {x.dev}
  /\ UNCHANGED <<excluded, bind>>
\* A port that is gone gets no row.
PlugLost(t) ==
  /\ At(t, "plug") /\ ~Known(t) /\ ~Live(th[t].p)
  /\ End(t) /\ UNCHANGED <<db, backendVars, off>>

UpdateDb(t) ==
  LET p == th[t].p IN
  /\ At(t, "db")
  /\ IF Live(p)
       THEN /\ db' = [db EXCEPT ![p] = Updated(db[p], th[t].op, th[t].arg)]
            /\ Goto(t, IF th[t].op = "attach" THEN "bindCheck" ELSE "post")
            /\ UNCHANGED lockVars
       ELSE End(t) /\ UNCHANGED db
  /\ UNCHANGED <<backendVars, off>>

\* A vnic leaves groups or the policy; what the backend refuses is logged, and the request goes on.
Leave(ms, d) ==
  \E kept \in SUBSET (ms \cap member) :
    /\ member' = member \ (ms \ kept)
    /\ off' = IF kept = {} THEN off ELSE off \cup {d}
\* "Processing compute port update": the vnic that was read, the groups that were.
Post(t) ==
  LET x == th[t].orig IN
  /\ At(t, "post")
  /\ IF x.vnic = NoVnic \/ ~Compute(x) \/ th[t].op = "plug" THEN End(t) /\ UNCHANGED <<member, off>>
     ELSE CASE th[t].op \in {"attach", "detach"} ->
                 /\ Leave(MembersOf(x, VnicOf(x)), x.dev)
                 /\ Goto(t, IF x.sec THEN "unmap" ELSE "removeCount") /\ UNCHANGED lockVars
            [] th[t].op = "secure" ->
                 /\ member' = member \cup {<<"spoofguard", VnicOf(x)>>}
                 /\ Goto(t, "removeCount") /\ UNCHANGED <<lockVars, off>>
            [] th[t].op = "unsecure" ->
                 /\ Leave({<<"spoofguard", VnicOf(x)>>}, x.dev)
                 /\ Goto(t, "addCount") /\ UNCHANGED lockVars
            [] OTHER -> Goto(t, "groups") /\ UNCHANGED <<member, lockVars, off>>
  /\ UNCHANGED <<db, excluded, bind>>
\* The approved addresses of a port that is secured are refused: it has security in the
\* database, and its machine stays in the exclude list.
PostFails(t) ==
  LET x == th[t].orig IN
  /\ At(t, "post") /\ th[t].op = "secure" /\ x.vnic # NoVnic /\ Compute(x)
  /\ End(t) /\ off' = off \cup {x.dev}
  /\ UNCHANGED <<db, backendVars>>

\* Mutant: the vnic joins the new groups and stays in the old ones.
RegroupAdds(t) ==
  /\ At(t, "groups") /\ End(t)
  /\ member' = member \cup {<<g, VnicOf(th[t].orig)>> : g \in Updated(th[t].orig, th[t].op, th[t].arg).groups}
  /\ UNCHANGED <<db, excluded, bind, off>>
Regroup(t) ==
  LET x == th[t].orig
      new == Updated(x, th[t].op, th[t].arg).groups IN
  /\ At(t, "groups")
  /\ member' = (member \ {<<g, VnicOf(x)>> : g \in x.groups \ new}) \cup {<<g, VnicOf(x)>> : g \in new \ x.groups}
  /\ End(t)
  /\ UNCHANGED <<db, excluded, bind, off>>
\* A removal that is refused is logged, an addition that is refused ends the request.
RegroupFails(t) ==
  LET x == th[t].orig
      new == Updated(x, th[t].op, th[t].arg).groups IN
  /\ At(t, "groups")
  /\ \E left \in SUBSET (x.groups \ new), joined \in SUBSET (new \ x.groups) :
       /\ left # x.groups \ new \/ joined # new \ x.groups
       /\ member' = (member \ {<<g, VnicOf(x)>> : g \in left}) \cup {<<g, VnicOf(x)>> : g \in joined}
  /\ End(t) /\ off' = off \cup {x.dev}
  /\ UNCHANGED <<db, excluded, bind>>

Unmap(t) ==
  /\ At(t, "unmap")
  /\ db' = [db EXCEPT ![th[t].p].vnic = NoVnic]
  /\ Goto(t, "unbindRead")
  /\ UNCHANGED <<backendVars, lockVars, off>>
UnbindRead(t) ==
  /\ At(t, "unbindRead")
  /\ IF Bound(th[t].p) # {} THEN Goto(t, "unbind") /\ UNCHANGED lockVars ELSE End(t)
  /\ UNCHANGED <<db, backendVars, off>>

-----------------------------------------------------------------------------
(* delete_port                                                             *)

DeleteOf(t, p) == th' = [th EXCEPT ![t] = [pc |-> LabelOf(db[p], "delVnic"), op |-> "delete", p |-> p,
                                           arg |-> NoDevice, orig |-> db[p]]]
StartDelete(t, p) ==
  /\ MayStart(t) /\ Created(p) /\ DeleteOf(t, p)
  /\ UNCHANGED <<db, backendVars, lockVars, off>>
\* The port whose binding failed is deleted by create_port.
DeleteRead(t) ==
  /\ At(t, "delRead")
  /\ IF Live(th[t].p) THEN DeleteOf(t, th[t].p) /\ UNCHANGED lockVars ELSE End(t)
  /\ UNCHANGED <<db, backendVars, off>>
DeleteLock(t) == th[t].op = "delete" /\ Locked(t, "delVnic")

\* The provider groups are not among those the vnic leaves: a known weakness too.
DeleteVnic(t) ==
  LET x == th[t].orig
      ms == {m \in MembersOf(x, VnicOf(x)) : m[1] # "provider"} IN
  /\ At(t, "delVnic")
  /\ \E kept \in SUBSET (ms \cap member) :
       /\ member' = member \ (ms \ kept)
       /\ off' = Stale(t) \cup (IF kept # {} \/ <<"provider", VnicOf(x)>> \in member THEN {x.dev} ELSE {})
  /\ Goto(t, IF x.vnic # NoVnic /\ ~x.sec /\ Compute(x) THEN "removeCount" ELSE "delDb")
  /\ UNCHANGED <<db, excluded, bind, lockVars>>
DeleteDb(t) ==
  LET p == th[t].p IN
  /\ At(t, "delDb")
  /\ db' = [db EXCEPT ![p] = Absent]
  /\ IF Live(p) THEN Goto(t, "unbindRead") /\ UNCHANGED lockVars ELSE End(t)
  /\ off' = Stale(t)
  /\ UNCHANGED <<backendVars>>

-----------------------------------------------------------------------------
Init ==
  /\ db = [p \in Ports |-> Absent]
  /\ member = {} /\ excluded = {} /\ bind = {} /\ off = {}
  /\ portLock = [p \in Ports |-> NoThread] /\ deviceLock = [d \in Devices |-> NoThread]
  /\ th = [t \in Threads |-> Idle]

\* Nobody asks for anything: where the system may stop.
Rest == (\A t \in Threads : th[t] = Idle) /\ UNCHANGED vars

Work(t) ==
  \/ \E p \in Ports : \/ \E x \in NewPorts : Create(t, p, x)
                      \/ StartUpdate(t, p) \/ StartDelete(t, p)
  \/ AddCount(t) \/ Add(t) \/ RemoveCount(t) \/ Remove(t)
  \/ BindCheck(t) \/ Bind(t) \/ BindFails(t) \/ UnbindRead(t) \/ Unbind(t)
  \/ UpdateLock(t) \/ Plug(t) \/ PlugFails(t) \/ PlugLost(t) \/ UpdateDb(t) \/ Post(t) \/ PostFails(t)
  \/ Regroup(t) \/ RegroupFails(t) \/ Unmap(t)
  \/ DeleteRead(t) \/ DeleteLock(t) \/ DeleteVnic(t) \/ DeleteDb(t)
Next == (\E t \in Threads : Work(t)) \/ Rest

Spec == Init /\ [][Next]_vars

-----------------------------------------------------------------------------
(* Correctness                                                             *)

Unlocked(d) == d \notin off /\ deviceLock[d] = NoThread

\* A machine is excluded from the firewall exactly when one of its vnics has no port
\* security (_add_vm_to_exclude_list, _remove_vm_from_exclude_list): the machines no
\* request is at work on, but for those a stale read, a taken index or a refusal of the
\* backend has put out of step.
ExcludeAgrees ==
  \A d \in Devices : Unlocked(d) => (d \in excluded <=> Unsecured(d) \ Foreign(d) # {})

\* A vnic is in the groups and in the spoofguard policy of the port it is mapped to, and in
\* no others: the vnics of machines no request is at work on, with the same exceptions.
GroupsAgree ==
  \A v \in Vnics : Unlocked(v[1]) =>
    LET due == UNION {MembersOf(db[p], v) : p \in {q \in Ports : db[q].vnic = v}}
    IN  {m \in member : m[2] = v} = due

\* The port of an instance has its static DHCP binding, also when its address was another
\* port's a moment ago and that port's deletion has not reached the edge yet.
Served ==
  \A p \in Ports : Live(p) /\ Compute(db[p]) /\ p \notin off /\ (\A t \in Threads : th[t].p # p) => Bound(p) # {}
=============================================================================
