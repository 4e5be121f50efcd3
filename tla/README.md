# A TLA+ development of vmware-nsx

vmware-nsx is a set of Neutron core plugins that drive VMware NSX.  Most of it
translates requests: a REST call comes in, a REST call goes out, a row is
written.  What is hard in it is that a request is many such steps, that requests
run in threads next to each other, hold locks for some of the steps only, and
that any call to the backend may fail.

The NSX-V plugin has most state of its own.  There *edge* appliances (virtual
machines that route, NAT and serve DHCP) take minutes to deploy, are kept in a
pool, are given to routers and networks, shared and taken back, while API workers,
deployment threads, a housekeeper and the polling loop of the task manager all
work on the same tables.  The plugins for NSX-V3 and the policy API keep less, but
what the database and the backend say of a network must agree there too.  This
development models the pool, the two kinds of shared edges, the ports of NSX-V, the
task manager, and of the other two plugins the parts in which requests on one network
meet.

Source paths are relative to `src/vmware_nsx/`.

## 1. Inventory

| Part | State | Operations | What is hard |
|---|---|---|---|
| **Backup edge pool** (`plugins/nsx_v/vshield/edge_utils.py` EdgeManager, `edge_appliance_driver.py`) | `nsxv_router_bindings`, `nsxv_edge_vnic_bindings`, the appliances at the backend, two kinds of locks, a worker pool | construct and trim the pool, allocate, collect, deploy, delete, clean up | every step is a transaction of its own; work goes on outside the lock; restarts; time limits |
| **Housekeeping of backup edges** (`plugins/nsx_v/housekeeper/error_backup_edge.py`) | a list of rows read under the pool lock | repair or delete each row in ERROR | uses the list after releasing the lock |
| **Task manager** (`plugins/nsx_v/vshield/tasks/tasks.py`) | queue, tasks per resource, state and status of each task, events of waiters | add, wait, execute, poll, stop, start | two green threads on one dictionary; a thread killed at any callback |
| **Locks** (`common/locking.py`) | the owner of each name | acquire, release | held across calls to the backend |
| **DHCP edges** (`edge_utils.py` 1160-1560) | vnic and tunnel indices of each edge, DHCP bindings | create, update, delete the service of a network | bindings read before the lock is taken; a small table of indices |
| **Shared router driver** (`plugins/nsx_v/drivers/shared_router_driver.py`) | router bindings shared by routers | attach, detach, add and remove interfaces, gateway, routes; move to another edge on conflict | locks nested in two orders; the edge is read before it is locked |
| **Exclusive and distributed drivers** (`plugins/nsx_v/drivers/`) | one edge (or a pair) per router | the same, without sharing | two edges that must agree |
| **DHCP edge housekeeping** (`plugins/nsx_v/housekeeper/error_dhcp_edge.py`) | rows in ERROR | compare tables with the backend and repair | reads before it locks |
| **Housekeeper framework** (`plugins/common/housekeeper/`) | results of the last run | run, list | results cleared outside the lock |
| **Metadata proxy** (`plugins/nsx_v/md_proxy.py`) | internal network, proxy edges | create once, over several nodes | initialisation that races between nodes |
| **API client** (`api_client/`) | pool of connections, login cookie and semaphore of each provider | acquire, release, login, redirect | connections lost or released twice on errors |
| **NSX-V plugin** (`plugins/nsx_v/plugin.py`) | Neutron's tables, vnic indices, groups and exclude list at the backend | API handlers of networks, subnets, ports, routers, security groups | locks per port and per device, taken after the port was read |
| **Common V3/P code and NSX-V3 plugin** (`plugins/common_v3/plugin.py`, `plugins/nsx_v3/plugin.py`) | DHCP server, its port and bindings of each network; logical ports | API handlers | one lock per network for some of the handlers; steps undone by hand |
| **NSX policy plugin** (`plugins/nsx_p/plugin.py`) | the segment of each network | API handlers | the segment is computed in one step and sent in another; two locks for one network |
| TVD and DVS plugins; services; extensions; scripts | - | translation of requests | the state is in libraries or at the backend |

`PROJECT.json` has the full list with the status of each part and the reason
where it is not modelled (of a part with many files, the largest), and the hazards
with their lines.

**How the parts interact.**  API handlers (green threads of neutron-server) call
a router driver, which calls EdgeManager.  EdgeManager takes the named lock of the
pool, changes the tables, and hands deployments and deletions to a worker pool of
green threads, or deploys in the calling thread when the pool is empty.  The
deployment reports through `complete_edge_creation`.  The housekeeper is run by an
API call of the administrator.  Deletions of port groups and virtual wires go
through the task manager.  All of them share the tables, and after a restart only
the tables and the backend are left.  The shared router driver and the DHCP code
bind many routers or networks to one edge, choose it under a lock of their own
('nsx-shared-router-pool', 'nsx-dhcp-edge-pool') and then go through the pool's
allocation and collection.  The handlers of ports write the static DHCP bindings of
the edge that the handlers of subnets have made.  The V3 and policy plugins call the
backend through an external library, vmware_nsxlib, whose calls are steps here.

**What makes each part correct.**

* Pool: an edge never has two owners; nobody deletes an edge that a router owns; a
  row that is ACTIVE has an edge that can be used; no appliance is forgotten; a row
  sent to deletion stays there and disappears; the pool keeps to its bounds; the
  lock is always released; what fails is found and repaired.
* Task manager: tasks of one resource run one after the other in the order of
  their arrival; each has exactly one result; none is lost; stopping leaves
  nothing running; who waits is woken.
* DHCP edges: a network has one slot (vnic and tunnel) on the edge of its row;
  overlapping subnets never share an edge; table and backend agree; who has DHCP is
  served.
* Shared routers: routers with overlapping networks never share an edge; locks are
  never awaited in a cycle; an edge is freed with its last router; each interface is
  where its router is.
* Ports of NSX-V: a virtual machine is in the exclude list exactly while one of its
  vnics has no port security; a vnic is in the groups of its port; an instance has its
  static binding.
* Native DHCP of V3: the server, its port, its logical port and its row come and go
  together; the static bindings belong to the current server; no logical port is forgotten.
* Segments of the policy plugin: the interfaces of a network are on one router; the
  segment is what the database asks for.
* API client: a connection is in the pool or with one request; none is lost.

## 2. Modules

| Module | Models | Checked by |
|---|---|---|
| `EdgePool` | the backup edge pool with its worker threads, the housekeeping job, restarts, and the router operations that allocate and free edges | `MCEdgePool`, four runs |
| `EdgeOwner` | the abstract specification: what EdgeManager promises about appliances and their users | as a property of `EdgePool` and `SharedRouter` |
| `EdgePoolOwner` | the refinement of `EdgeOwner` by `EdgePool` | `MCEdgePool` |
| `EdgePoolProofs` | the inductive invariant of `EdgePool` and its proof | TLAPS; TLC checks the invariant too |
| `EdgePoolOwnerProofs` | what the pool promises to the routers: deletions, usable rows, leaks, the size of the pool, and the refinement of `EdgeOwner` | TLAPS |
| `SharedRouter` | routers that share edges: interfaces, gateway, type, floating IPs, and the refinement of `EdgeOwner` with sharing | `MCSharedRouter` |
| `SharedRouterProofs` | accounting of edges, overlap, interfaces, deadlocks and the refinement | TLAPS |
| `DhcpEdge` | networks on DHCP edges, from the handlers of the API down to slots and sub-interfaces, with the housekeeping job | `MCDhcpEdge` |
| `DhcpEdgeProofs` | types, slots, edges, overlap, table against backend, and networks served | TLAPS |
| `VPorts` | ports of NSX-V: vnics, groups, exclude list, static bindings | `MCVPorts` |
| `VPortsProofs` | locks, static bindings, groups and exclude list | TLAPS |
| `NativeDhcp` | a network of NSX-V3: its DHCP server, subnets, ports and static bindings | `MCNativeDhcp` |
| `NativeDhcpProofs` | servers, ports and bindings | TLAPS |
| `PolicySegment` | a network of the policy plugin: its subnets, router interfaces and segment | `MCPolicySegment`, two runs |
| `PolicySegmentProofs` | types, `OneRouter`, and the segment after requests that did not overlap | TLAPS |
| `TaskManager` | the task manager | `MCTaskManager`, two runs |
| `TaskManagerProofs` | order of the tasks, results, losses, and what stop() leaves | TLAPS |

### EdgePool

One pool: one availability zone, one appliance size, one edge type, centralised
edges.  The variables:

| Variable | In the code |
|---|---|
| `binding` | the rows of `nsxv_router_bindings`: status and edge_id of each router id; "NONE" is no row |
| `undated` | the PENDING_UPDATE rows whose `updated_at` is NULL: rows that were inserted in that state |
| `late` | rows that have been pending for more than MAX_EDGE_PENDING_SEC |
| `vnics` | the edges with rows in `nsxv_edge_vnic_bindings` |
| `backend` | the appliances NSX hosts |
| `poolLock`, `edgeLock` | owners of the locks 'nsx-edge-backup-pool' and the one named after each edge |
| `pc`, `rtr`, `bak`, `eid`, `cand`, `todo`, `ret`, `short` | each API thread: where it is, and the local variables it carries from one transaction to the next |
| `deploy` | the stage of `deploy_edge` for each router id |
| `deletes` | calls of `delete_edge` handed to the worker pool |
| `hkPc`, `hkTodo`, `hkCur` | the housekeeping job |

A step is one database transaction, one call to the backend, or the acquisition
of a lock with the first read under it.  The code's functions map to groups of
actions:

* `_check_backup_edge_pools` in the constructor: `BootClean`, `BootFill`, `BootTrim`.
* `_clean_all_error_edge_bindings`: `BeginClean` (the read), `Mark` and
  `SpawnDelete` (the rows, then one deletion at a time), `SpawnEnd`, `SpawnReturn`.
* `_allocate_edge_appliance`: `AllocLock` ... `AllocTake` under the pool lock,
  `AllocUnbind`, `AllocBind` outside it, `AllocEdge` and `AllocDone` under the lock
  of the edge; `AllocAdd` and `AllocDeployed` when no edge is available;
  `AllocCount` and `AllocRefill` for the refill; `AllocLost` for a row that went
  away.
* `_free_edge_appliance`: `FreeLock` ... `FreePool`, all under the pool lock.
* `deploy_edge` and `complete_edge_creation`: `DeployStart`, `DeployBackend`,
  `DeployRecord`, `DeployVnics`, `DeployDone`, `DeployGroups`, `DeployUndo`.
* `delete_edge`: `DeleteDb`, `DeleteBackend`.
* `ErrorBackupEdgeJob`: the `Hk...` actions.
* `Expire` is the passing of time, `Crash` the restart of neutron-server.

What the environment may do is chosen by constants, so that each run states what
it assumes: `MayExpire` (a thread may take longer than MAX_EDGE_PENDING_SEC),
`MayCrash` (restarts), `HostGroups` (`edge_host_groups` is configured), `EagerDelete`
(a router is deleted while it is created), `HkReadonly` (the default of
`housekeeping_readonly`).

Abstractions:

* The ids of new rows are uuids.  The model takes any id that no row, thread or job
  refers to; the same for edges.  So a freed id can come back, which finite
  instances need and which forbids nothing the code does.
* The backend answers the status of an edge with any value: the answer of one
  moment says nothing of the next.  It refuses calls at will, up to `MaxFaults` backup
  rows in ERROR at a time.  When it refuses to delete an appliance, `delete_edge`
  logs that and forgets it; nothing refers to it afterwards, and it leaves the model.
* `rename_edge` and the update of the name are not modelled, because their failure
  is swallowed; `update_edge` of a collection is, because it marks the row.
* The vnic rows of an edge are there or not; their indices belong to the DHCP part.

### EdgeOwner and its two refinements

`EdgeOwner` has two variables: the appliances that exist and the routers bound to each.
An appliance is deployed, destroyed when nobody uses it, taken by a router that is
bound to none, joined by a second one if `Sharing` allows it, and left.
`EdgePool` implements it without sharing: `exists` is `backend`, and a router uses the edge
that its row names; the transactions between which an edge is in nobody's row are
stutters.  `SharedRouter` implements it with sharing: all edges exist, since what is below the
allocation of an edge is `EdgePool`'s.

### SharedRouter

| Variable | In the code |
|---|---|
| `rtype`, `gw`, `nets` | router type, external network and interface ports of each router, in Neutron's tables |
| `edgeOf` | `nsxv_router_bindings`; `free` are the edges no router is bound to |
| `vnic` | `nsxv_edge_vnic_bindings`: the networks of each edge |
| `svc` | the routers whose NAT and firewall rules the edge was last configured with |
| `lock` | owners of the locks of routers and edges, of 'nsx-shared-router-pool' and 'nsx-edge-router' |
| `th` | the request of each thread: its place in the code, its router and network, the edge and the routers it read before it locked |

The requests and their actions: `add_router_interface` is `StartAdd`, `AddPort`, then `AddHere`
or `AddMove` and `AddLeave`; `remove_router_interface` is `StartRemove`, `RemovePort`,
`RemoveInterface`; `attach_router` and the rest of any move are the `Bind...` actions and
`AddServices`; `detach_router` is `StartDetach`, `Detach`, `LeavePool`; the gateway is
`StartGateway`, `GwDb`, `GwHere` or `GwMove` and `LeavePool`; floating IPs are `FipEdge`,
`FipPush`; `DeleteRouter` is one step.  A network has one subnet.  What is written on an edge
is the set of routers it is configured for.  A routine that asks for two locks before it
changes anything is one step that waits for both.

### DhcpEdge

| Variable | In the code |
|---|---|
| `nets`, `subnet` | networks, and subnets with and without DHCP |
| `row` | the row of each network in `nsxv_router_bindings` ("dhcp-<id>"): edge and status |
| `vnic` | `nsxv_edge_vnic_bindings`: which network has each slot (a vnic with a tunnel) of each edge |
| `iface` | the sub-interfaces at the backend: the switch, the addresses and, as history, whether a failed deletion or the job has left it there (`left`) |
| `free` | edges that are nobody's |
| `lock` | owners of 'nsx-dhcp-edge-pool', of the locks of networks, of their updates and of edges |

`create_dhcp_edge_service` reads the row (`ReadRow`), takes the pool's lock, and then stays or
moves to another edge (`LockPool` and what follows); `update_dhcp_edge_service` reads the slot before
it takes the lock of the edge; `delete_dhcp_edge_service` frees the slot, the sub-interface and
the row in three steps.  The job reads the rows in ERROR (`StartJob`), groups them by edge under the pool's
lock (`JobGroup`) and repairs one edge after the other (`JobRows`, `JobSync`).  A failure of the backend sets the row to ERROR.  `Races` (FALSE in the run)
says whether requests that share no lock may overlap where the code does not expect it
(section 7).

### VPorts

`db` holds for each port its device, address, port security, groups and vnic; `member`,
`excluded` and `bind` are what the backend has.  `update_port` takes 'port-update-<id>' and then
'port-device-<device>' (`StartUpdate`, `UpdateLock`), counts the ports of the device without
security (`AddCount`, `RemoveCount`) and changes the exclude list, the vnic, the groups and
the database in the order of the code, which differs with what is changed; `delete_port`
(`StartDelete`, ...) reads the port before it locks; `create_port` locks nothing.  `off` is
history: the devices and ports that one of the weaknesses of section 7 has put out of step.
The properties say nothing of them, and no request starts after it (the bound `MayStart`).

### NativeDhcp

One network.  `switch`, `lport`, `dlport`, `server`, `static` are at the backend; `net`, `subnet`,
`port`, `service`, `dport`, `rows` in the database.  A step is one transaction or one call, and
each call may fail; a request meets one failure at most.  What the handlers undo after a
failure they undo in steps of their own.  `orphan` is history: what a failure that
the code lets pass has left behind.  `Races` as in `DhcpEdge`.

### PolicySegment

One network.  A segment has a subnet for each DHCP subnet and each router interface
(`seg`), of which some are `served`.  A request collects the subnets in one step (`Collect...`) and sends
them in another (`Send...`), holding one lock, another, or none.  `clean` is history: no two
requests have overlapped and no failure has been left as it was.  `SegmentCurrent` is about clean
histories, `OneRouter` about all.  Failures of calls that succeed otherwise are explored
while `clean` holds.

### TaskManager

Green threads switch only in callbacks and in waits, so a step is the code from one
to the next.  `act` says for each actor (the main thread, the polling loop, a
stopping caller, a killed main thread at its last callback) which callback of which
task it is in.  `queue`, `tasks`, `req`, `stopped` are the manager's attributes.
`tasks` is the dictionary of queues as one sequence, in the order of `_enqueue`: the queue of
a resource is what of it is its own (`Fronts` are the first tasks of the queues), and the order of the
keys, in which `_check_pending_tasks` and `_abort` go through the dictionary, is left
open.  `state`, `status`, `retry_number`, `slot` are those of the tasks; `seen` and `size` are the iterator of
`_check_pending_tasks`, which Python 3 ends with a RuntimeError when the size of the
dictionary has changed.  `Attempt` is `_retry_task`, the callback all callers use.
`Stop` is `stop()`: `Kill` is what `greenthread.kill` does at each callback,
depending on the exception handlers around it.  `results` and `ids` are history.

## 3. Runs

| Run | Question | Instance |
|---|---|---|
| `edgepool_concurrent` | do two threads and the workers keep edges and selections exclusive, leak nothing, keep to the bounds of the pool, and implement `EdgeOwner`? | 2 threads, 2 routers, 4 backup rows, 4 edges, pool 1:2 |
| `edgepool_housekeeper` | with a housekeeper that repairs from its list: is no edge deleted under a router, is an ACTIVE row usable, does a deleted row stay deleted? | 2 threads, 1 router, 4 rows, 4 edges |
| `edgepool_restart` | is the invariant of the proofs true with restarts, rows that expire, routers deleted while they are created, and the housekeeper? | 2 threads, 1 router, 2 rows, 2 edges, pool 1:1 |
| `edgepool_liveness` | is the lock released, and do deletions end, with host groups? | 2 threads, 1 router, 3 rows, 3 edges |
| `tasks_stop` | order, results and losses, with stop and restart | 4 tasks, 2 resources |
| `tasks_liveness` | do all tasks end and all waiters resume? | 3 tasks, 2 resources, 1 waiter |
| `sharedrouter_requests` | are edges accounted for, networks apart, interfaces in place, deadlocks the known ones only, and is `EdgeOwner` implemented? | 2 threads, 2 routers, 2 edges, 2 networks, 2 external networks of which one overlaps, 2 vnics |
| `dhcpedge_requests` | has each network its slot, on an edge without conflict, and do table and backend agree, with failures and the job? | 2 threads, 2 networks, 3 subnets of which 2 overlap, 2 edges, 2 slots, 2 failures |
| `vports_requests` | do exclude list, groups and static bindings follow the ports? | 2 threads, 2 ports, 2 machines, 2 vnic indices, 2 addresses |
| `nativedhcp_requests` | do server, ports and bindings come and go together, with failures? | 2 threads, 2 subnets, 2 ports, 2 servers |
| `policysegment_requests` | is the segment what the database asks for, and are its interfaces on one router? | 2 threads, 2 IPv4 subnets and 1 IPv6 subnet, 2 routers |
| `policysegment_dual` | **violation**: DHCP that is disabled on one subnet of a dual-stack network is lost on the other, too | 1 thread, the same network |

In the last one `update_subnet` clears `enable_dhcp` before `_disable_network_dhcp` counts the
subnets with DHCP (`nsx_p/plugin.py` 1637 and 1282); the branch at 1289, "remove dhcp only from this
subnet", is never taken for two of them.

**Why the bounds are enough.**  Two threads are what the races need: each hazard is between one
request and one other actor, and a third thread could only wait for the same lock.  With a pool of
one to two rows, four ids let an allocation, a collection, a refill and a failed row exist at once;
the run with restarts has two of each because the crash multiplies the states, and there the pool
holds at most one row, so that a restart in the middle of a collection finds it too large
(`BootTrim`).  `MaxFaults` = 1 and `Workers` = 1 are the smallest values at which rows fail and
`spawn_n` blocks.  For the tasks, two resources and two tasks for each make both the queue of a resource
and the iteration over resources matter; two attempts make a task pending once.  For shared
routers, two routers can conflict over an equal network, over the network that overlaps an
external one, and over their gateways, and fill the two vnics of an edge; with two edges there is one to
move to.  For DHCP, the two networks conflict only while one of them has its second subnet, so that
they share an edge and have to part, and that network has two addresses on its sub-interface; the second failure can meet the repair of the first.  For
ports, two are what one machine needs for the count of ports without security to matter, and two machines what a
move needs.  For policy networks, the third subnet tells two subnets of one version from
two of different versions.

**Symmetry** is used in runs without liveness properties, on rows, edges, routers,
tasks, threads and ports, which no definition distinguishes; the overlapping network, the
subnets whose overlap or version matters and `Main` are left out of it.

**Deadlock** is checked in `edgepool_concurrent`, `edgepool_housekeeper`, `edgepool_liveness`,
`tasks_stop`, `dhcpedge_requests`, `vports_requests` (where the action `Rest` stands for clients that ask
for nothing more, so that a deadlock is requests that wait for each other's locks) and the
runs of `PolicySegment`.  It is off in the others: `edgepool_restart`, where the
bound on ids makes a refill wait for an id for ever; `tasks_liveness`, where all tasks are done in the
end; `sharedrouter_requests`, because the code's locks can block each other (`DeadlockIsInversion` says how); `nativedhcp_requests`,
where what failures leave behind uses up the ids of servers, and which has one lock.

**Fairness.**  `EdgePool`: every thread, each deployment, the deletions, the
constructor and the housekeeper are weakly fair: green threads that can run are run
by the hub, calls to the backend return or time out, and the administrator runs the
housekeeper again.  Weak fairness is enough because the only shared resource a
thread waits for, the pool lock, is asked for in `LockReleased` of its holder, not of
those who wait; nothing is claimed about which of them gets it.  New requests,
expiry and crashes are not fair.  `TaskManager`: the callbacks return, the main thread
and the looping call are run again.  The other modules claim no liveness: the locks of the
shared routers can deadlock, and the rest are requests that take one step after the other.

## 4. Proofs

### EdgePoolProofs

It proves about `EdgePool`, for every value of the constants that
satisfies `PoolAssumption`, whatever `MayCrash`, `MayExpire`, `EagerDelete` and
`HkReadonly` are, and with `HostGroups` = FALSE:

| Theorem | Statement |
|---|---|
| `PoolInvariant` | `Spec => []IInv` |
| `EdgesExclusive` | `Spec => []EdgeExclusive`: no two rows name one edge |
| `SelectionsExclusive` | `Spec => []SelectionExclusive`: no two allocations hold one row of the pool |
| `TypeCorrect` | `Spec => []TypeOK` |

The assumption on `HostGroups` is needed.  With host groups, `complete_edge_creation`
makes a row ACTIVE before `update_edge_host_groups`, which may fail and put it
into ERROR, so that the housekeeper takes up a row that an allocation has selected;
selections are then not exclusive.

**Why the two properties are not inductive.**  Between two transactions an edge is
named by no row: an allocation has deleted the row of the pool and not yet added
the one of the router, a collection the reverse, a deployment has an appliance and
has not recorded it.  And a row that one thread read is changed by others before
it is used: a list of candidates, a list to repair, a row being collected.  `IInv`
says what is true of these:

* `Shape`: the locals a label relies on are set; `Section`: who is at a label
  under the pool lock holds it.
* `Settled`: a row that is ACTIVE or in ERROR has no deployment in progress.  This is
  the part host groups break.
* `HkQuiet`, `CollectedQuiet`, `ChoosingQuiet`, `SelectedQuiet`: the rows the
  housekeeper has read, a row being collected, the rows a thread chooses from and the
  row it selected are in nobody else's hands, and have the status that keeps
  them so.
* `Carried`, `Offered`, `Recorded`: the edge a thread carries, the edges it may choose and
  the edge a deployment is about to record are named by no other row, thread or
  deployment.

**How the proof goes.**  `SetStatusEffect`, `EndDeployEffect`, `StageEffect` and
`FinishEffect` say what the operations on the tables and the threads do.
`FreshRow` and `FreshEdge` say that a new id is known to nobody.  Most steps give
nobody a new row and nobody a new edge: `RowsKept` and `EdgesKept` say this of a
step, and `RowsFrame` and `EdgesFrame` derive the ten relational parts of `IInv`
from them.  Each action then has a lemma (`AllocPickKeeps`, ...) that proves the types,
`Shape`, `Section` and the two frames; the actions that do hand over a row or an
edge (`AllocPick`, `AllocBind`, `FreeAdd`, `DeployRecord`, `HkRead`, ...) prove the parts
they disturb one by one.  `NextKeeps` puts the actions together.  `edgepool_restart`
checks `IInv` with TLC as well.

### EdgePoolOwnerProofs

It proves what the pool promises to the routers.  All theorems assume ~`HostGroups` and ~`MayExpire`:

| Theorem | Statement | Assumes also |
|---|---|---|
| `OwnerInvariant` | `Spec => [](IInv /\ OInv)` | |
| `RouterEdgesStay` | `Spec => []NoDeleteOfRouterEdge`: no deletion aims at an edge that a router owns | |
| `DeletedStayDeleted` | `Spec => NoResurrection`: a row sent to deletion is never used again | |
| `PoolImplementsOwner` | `Spec => ImplementsOwner`: the pool implements `EdgeOwner` | |
| `ActiveRowsUsable` | `Spec => []ActiveIsUsable`: an ACTIVE row has its appliance and its vnic rows | ~`MayCrash` |
| `NoEdgeForgotten` | `Spec => []NoLeakedEdge`: no step loses the id of an edge | ~`MayCrash`, ~`EagerDelete` |
| `PoolStaysBounded` | `Spec => []PoolBounded`: the pool outgrows its maximum only by pending refills and one edge | `HkReadonly` |

The first four and the last thus hold across restarts.  Why the assumptions are needed: a clean-up of expired rows deletes
the row of a deployment or an allocation that is merely slow (`MayExpire`); a restart between two transactions
of an allocation leaves its edge in no row, and one in the middle of a deployment leaves a row without vnic
rows, which, after a second one between the ERROR mark of its failed collection and the vnic rows written
then, the housekeeper makes ACTIVE (`MayCrash`); a router deleted while its edge is deployed takes away the row that
the deployment would record the edge in (`EagerDelete`);
the housekeeper returns a repaired edge to the pool without counting it (`HkReadonly`, the default of
`housekeeping_readonly`).

**`OInv`** adds to `IInv`, which says whose a row or an edge is, what the holder knows of it:

* `Control`: while `EdgeManager` is constructed nothing else runs; the clean-up of ERROR rows and the
  housekeeping job never run both; one request allocates for a router.
* `RowsOrderly`: the row of a router is never sent to deletion, a missing row has no edge, a backup that
  is being deployed is PENDING_CREATE, and its row has no edge before the deployment records it.
* `Holds` and `HkHolds`: the exact row that a request or the job has read or written is still in the
  table (a candidate is ACTIVE, a selected or collected row PENDING_UPDATE, a row to repair in ERROR).
* `Leaving`: what is handed to a worker is sent to deletion (`Sent`) and its edge `Doomed`: in no row but that one,
  with no request and no deployment.  This is what makes the deletion of an edge safe although
  it runs without the pool's lock.
* `Backed`: edges in use are at the backend.

The frame is `RowsStep` (of the rows in use only those of the actor change, and those sent to deletion go),
`Shrinks` (no edge gets an owner) and `DoomedStay`; `ThreadFrame`, `StatusStep`, `RouterStep`, `DeployMoves` and
`JobStep` carry `OInv` over the kinds of steps, and each action shows of which kind it is.  In the refinement
`AllocBind` and `DeployRecord` are `Take`, `FreeUnbind` is `Leave`, `DeployBackend` is `Deploy`,
`DeleteBackend` and `HkDestroy` are `Destroy`, and all else, a restart too, stutters.

**`Wired`** says where the vnic rows of an edge are while the row is on its way to ACTIVE: with
an ERROR row of the pool, unless the collection that failed has still to write them (`RowWired`); from the last stage of
a deployment on (`DeployWired`); with the edge a request carries (`ThreadWired`).  Whoever deletes vnic rows has a
doomed edge, or is the failed deployment of a router (`VnicsStep`).

**`Kept`** says who remembers an edge: the row of a deployment exists and has the edge that the
deployment has (`DeployKept`), and a router is in the hands of one request (`OneRequest`, `Deploys`), which
deletes exactly the row whose edge it has read (`ThreadKept`).  `Remembered` says of a step that whoever knew
of an edge has passed it on.

**`Counted`** bounds the pool with what is promised to it (`Pledged`): its rows, and those that the threads at `aRefill`
have decided to add but not yet added.  A refill adds what it pledged; counting pledges at most `MinPooled`, for a
pool below it; a collection keeps its edge only if the pool is below `MaxPooled`.  So `Pledged` is within `Limit`, the
largest of `MaxPooled`, `MinPooled + Refilled` and `MaxPooled + Refilled - 1`, where `Refilled` is what all other threads
may add, except for one edge that is in the pool and not yet counted (the pool's lock admits one), or that a restart
left there for the start-up check to trim.  The bound is reached: all threads count a pool that lacks `MinPooled`, a
collection fills it to its maximum, and then they add.

### SharedRouterProofs

For every value of the constants that satisfies `SharedAssumption`, with `MayDeleteBound` = FALSE:

| Theorem | Statement |
|---|---|
| `EdgesAccounted` | `Spec => []NoLeakedEdge`: an edge is free exactly while no router is bound to it |
| `SharedRouterImplementsOwner` | `Spec => ImplementsOwner`: the driver implements `EdgeOwner` with sharing |
| `NetworksNeverOverlap` | `Spec => []NetworksApart`: routers with overlapping networks share an edge only while the request that adds one of the networks is deciding where its router goes |
| `DeadlockNeedsInversion` | `Spec => []DeadlockIsInversion`: in every set of threads that block each other, one waits for the pool's lock under the lock of an edge |
| `InterfacesMatchPorts` | `Spec => []InterfacesInPlace`: a router nobody is at work on has an interface on each of its networks, and an edge of such routers has no other |

The assumption is needed: `delete_router` drops the row of a bound router and frees no edge
(section 7).  The invariant, `IInv`, adds to `NoLeakedEdge` that the request at work on a router
holds the router's lock and the router is shared (`Locked`), that it finds the router unbound when it is about to
bind it, bound when it has bound it, and on the edge it read when it is about to add a port
(`Expected`), and that only shared routers are bound (`BoundShared`).  A request drops the pool's lock
and takes it again between these steps, so the argument rests on the lock of the
router alone: nobody else changes that router's row (`Frame`).

The refinement follows: each step binds one unbound router, unbinds one, or rebinds none
(`NextRebinds`), which is `Take` or `Join`, `Leave`, or a stutter (`OwnerStep`).  For
`NetworksApart` no lock matters: whoever puts a router on an edge looks in the same step at the
routers that are there (`BindApart`, `AddApart`), and whoever adds a network to a bound router
is then deciding (`PortApart`).  For the deadlocks, `Holders` says where a request is while it
holds the lock of an edge, the pool's or 'nsx-edge-router'; without a request in `leavePool` the
locks are taken in the order pool, 'nsx-edge-router', edge, and a thread that holds the last
of them waits for none (`OneOrder`).

`InterfacesInPlace` speaks of routers at rest, and an edge may have one router at rest and three on
the move.  `Laid` therefore says of every router which of its networks the edge has an interface on,
by the label of the request that holds the router's lock: not the network of a port just added, still that
of a port just deleted, none while the router joins or leaves.  `Exact` says that the interfaces of an
edge are those of its routers' `Laid` networks, and `Disjoint`, which follows from `NetworksApart`, that no two
of its routers have one in common, so that removing the interfaces of one removes none of another.
`Knows` is what a request relies on between its steps.  `Loses`, `Gains` and `StaysLaid` say once what a step
does to the edges, and each action is one of them.

### PolicySegmentProofs

| Theorem | Statement |
|---|---|
| `InterfacesOnOneRouter` | `Spec => []OneRouter` |
| `SegmentFollows` | `Spec => []SegmentCurrent` |
| `TypeCorrect` | `Spec => []TypeOK` |

`OneRouter` is not inductive, because `add_router_interface` checks in one step and attaches in
another.  `Checked` says that what it has checked is true until it attaches: it holds the
lock of `add_router_interface`, and although nobody else respects that lock, the others only
detach, which makes the check no less true.  The subnets and the segment may change at any
time.

`SegmentCurrent` speaks of a network at rest.  `Steps` says what holds on the way there, as long as one request
was followed by the next: at most one is at work, the network is as `Rest` has it when there is none, and
`Steady` gives for each label of the one at work which subnets of the segment, of what it has computed to send
(`want`) and of the DHCP port are ahead of the tables or behind them.  So an enabled subnet is in the table
before it is in the segment, a disabled one is in the segment after it has left the table, and a request that fails
half-way either puts the table back, which is `Rest` again, or ends the history the property speaks of.
`OneStep` and `OneBegin` reduce `Steps` to the request at work, and every action proves its own label.

### NativeDhcpProofs

For every number of threads, subnets, ports and servers, with failures of every call, and with `Races` = FALSE:

| Theorem | Statement |
|---|---|
| `NoServerLeaks` | `Spec => []NoLeakedServer` |
| `RowsNameTheServer` | `Spec => []RowsCurrent` |
| `NoPortLeaks` | `Spec => []NoLeakedPort` |
| `TypeCorrect` | `Spec => []TypeOK` |
| `Invariant` | `Spec => []IInv` |

`_enable_native_dhcp` creates a port, a server and a logical port before it writes the service that makes
them the network's, and `_disable_native_dhcp` takes them away one by one.  `IInv` therefore says
who may be between these steps: `Exclusive`, requests that run at once are all on subnets or all on ports;
`Locked`, from the first look for the server on, a request on a subnet holds the lock of the network; `Current`, what
it has found is still so (no service while it enables, the service it read while it disables); `PortHeld`,
the same for the port a request is creating or deleting.  `Moves` and `Own` say of a step what the other
requests rely on, `OthersKeep` derives their part of `IInv` from it once, and each action
proves its own part.

### DhcpEdgeProofs

For every value of the constants that satisfies `DhcpAssumption`, `TypeCorrect`; the others with `Races` = FALSE.  The
assumption says that an edge has slots (`MAX_VNIC_NUM` vnics with up to `MAX_TUNNEL_NUM` tunnels in
`vshield/common/constants.py`): on a new edge without room an enabled subnet would not be served.

| Theorem | Statement |
|---|---|
| `TypeCorrect` | `Spec => []TypeOK` |
| `SlotsFollowRows` | `Spec => []SlotOfRow`: a network has one slot at most, on the edge of its row |
| `NoEdgeLeaks` | `Spec => []NoLeakedEdge`: an edge is free exactly while no network has a row on it |
| `OverlapApart` | `Spec => []NoOverlap`: without failures, overlapping networks share an edge only while one of them is still to be moved |
| `TableAndBackend` | `Spec => []BackendAgrees`: a sub-interface of a living network is where the table has its slot |
| `NetworksServed` | `Spec => []Served`: without failures, a network with DHCP that nobody works on is served |
| `Invariant` | `Spec => []IInv` |

**Why it needs an invariant.**  A request carries the edge and the slot of its network over many steps, and
locks differ from step to step.  `IInv` has four groups of conjuncts:

* Who excludes whom: one request for each network and one job (`Exclusive`); the choice of an edge, and a deletion that
  began under the pool's lock, hold it (`Locked`); a deletion without that lock meets no choice
  (`Alone`, which is where ~`Races` is needed).
* What a request has read is current: the edge of its row (`HasRow`), its slot and that it has none
  while it moves (`HasSlot`), and of the edges it chooses from, that none has become free and that, as long as nothing has
  failed, the networks in conflict on them are just before their own choice
  (`HasChoice`, `Waiting`).
* What the job relies on without a lock: the rows of the edges it has read stay on them, and no request has them or may
  choose them (`Repairs`, `Spared`).
* The tables: one slot (`OneSlot`), edges (`NoLeakedEdge`), no row in ERROR without a failure
  (`Healthy`), conflicts only with an undecided request (`Apart`, `Undecided`), sub-interfaces at their
  slot but for one just freed (`Agrees`, `Freed`).

`Apart` and `HasChoice` support each other: two networks that begin to overlap are both on their edge, and the
later one to choose finds the other decided, because choosing is under the pool's lock; the earlier
one may choose an edge with a network that is still to look, which then moves away.

**How the proof goes.**  `Goes` and `Tabled` say what a step of a request may do to others: its own row
and slots, marks of ERROR, its own edge given back under the pool's lock.  `GoesLocks`, `RowKept`, `SlotKept`,
`ChoiceKept`, `RepairsKept` and `ApartKept` derive the parts of `IInv` about the others.  Steps of one
kind share a lemma: `Quietly` (nothing but the thread and locks), `UnbindKeeps` (an edge given back), `PlaceKeeps`
(slots and sub-interfaces), `BindKeeps` (a new edge), `StartKeeps`, `JobKeeps`; each action shows that it is of its kind.

**Networks served.**  `Served` is about networks at rest, so its invariant, `SInv`, adds to `IInv` what requests
have done so far of what they owe, as long as nothing has failed (`Serving`):

* `Knows`: where the network of a request is, row, slot and addresses, for each label (`HasPlace`), and that there is
  room where it goes (`HasRoom`); the choice of an edge reserves that room under the pool's lock.
* `Holds`: the backend has no address of a network but those in `Held`, of its subnets that are there, but for one that
  is created and has not found its edge yet, and with one that is deleted until the edge is updated; `HeldApart`:
  networks on one edge hold no overlapping ones.
* `Clean`, `Follows`, `FreedApart`: a sub-interface is that of a slot of the table, or of a slot that one request has just
  freed and is about to delete at the backend.
* `Resting`: a network that nobody works on has neither row nor DHCP, or is in place with all its addresses. `Served`
  follows.

Without failures the job finds nothing to repair.  `Aside` says of a step on one network what it leaves of the
others; each action shows that, and the next `Knows` of its own request.

### TaskManagerProofs

For any number of tasks, resources, waiters and attempts, with or without stop(), and for
threads that wait for the same state of a task, too (`SharedWait`):

| Theorem | Statement |
|---|---|
| `Invariant` | `Spec => []IInv` |
| `TypeCorrect` | `Spec => []TypeOK` |
| `TasksInOrder` | `Spec => []InOrder`: a task waits until the earlier ones of its resource are done with |
| `ResultsOnce` | `Spec => []ResultOnce`: one result callback at most |
| `TasksKept` | `Spec => []NoTaskLost`: a task is in a queue or with a thread until it is over |
| `StopFinal` | `Spec => []StopIsFinal`: after stop() nothing runs and nothing is left |
| `PendingTold` | `Spec => []PendingReported`, with `MayStop` = FALSE |

The assumption of the last one is needed: a main thread killed in its result callback drops its task.

**Why it needs an invariant.**  The order of the tasks of a resource is spread over two queues and up to three threads,
and none of the properties says where a task may be.  `IInv` does:

* `Queued`: the tasks wait in the order in which they were added, those in `tasks` before those in `queue`.  Within
  `tasks` this is so for each resource only, because a task that the main thread executed goes behind tasks of other
  resources that were added later.
* `Places`: the main thread has a task that waits nowhere and whose resource has none in `tasks` (`Alone`: this is what it
  looked at before it executed the task, and only it adds to `tasks`, until stop() kills it); the monitor and stop() have
  the first task of a resource (`First`), which only they take away.
* `Control`: stop() waits for the monitor, so only one thread takes tasks away.
* `Progress`, `Results`, `Fresh`: what the phases say of a task's status, and that only tasks nobody has any more have
  had their result.
* `Ordered` is `InOrder` for the relation "was added before"; `Pending` is `NoTaskLost` as long as nobody stops the
  manager.

**How the proof goes.**  `LinesMove`, `LinesRemove` and `LinesEnqueue` say that moving tasks from the
queue, removing one and appending one keep the order.  `InTurn` is the heart: by `Queued` and `Places` no task that
waits, or that a thread has, precedes one that a thread has.  Every action sees to one task at most, and `Carry` derives
`Ordered`, `Results`, `NoTaskLost` and `Pending` for all of them from `InTurn` before and after the step.
`HandKeeps`, `LoopKeeps`, `MonitorKeeps` and `AbortKeeps` are the ways in which a thread goes on: with the same
task, round the loop of `run`, to the next task of the dictionary, and to the next task to abort.

### VPortsProofs

For any number of threads, ports, devices, vnic indices and addresses; `VPortsAssumption` says that there are
finitely many ports and that the values standing for "none" are not ports or devices:

| Theorem | Statement |
|---|---|
| `PortsLocked` | `Spec => [](Types /\ Locks)`: types, and which locks a request holds at which label |
| `PortsServed` | `Spec => []Served`: the port of an instance has its static binding |
| `PortsGrouped` | `Spec => []GroupsAgree`: a vnic is in the groups of its port |
| `PortsExcluded` | `Spec => []ExcludeAgrees`: a machine is excluded from the firewall exactly while one of its vnics has no port security |

All three say nothing of what `off` holds, that is, of ports and machines that one of the weaknesses of section 7 has
put out of step: the theorems say that there are no others.

**Why it needs an invariant.**  The properties are about machines and ports at rest, and one port's request may
disturb another's: `create_port` and `delete_port` take no lock of the port, a vnic changes hands when another port is
plugged with its index, and a port on its way to another machine takes its vnic along.  The invariant comes in layers:

* `Base`: types, what a request is at work on at each label (`Asked`), and `Locks`.
* `Binding`, for `Served`: the address a request read is still its port's (`SameIp`), a binding of a living port has the
  port's address, and a port without binding has a request that will bind or delete it (`Binds`).
* `Rows`, for the other two: an update finds the port as it has read it or as it has left it (`Reads`), a deletion as
  it has read it unless `off` says otherwise (`Deletes`, `Lives`), a vnic is one port's (`OneVnic`) and of the device of
  its port, or of one that a request is moving it away from (`OnDevice`).
* `Grouped`: the members of a vnic are the groups of its port or, while the holder of the lock of the device has
  changed the row and not yet the groups (`Pending`), those this holder still has to change (`Has`).  `Left` says that
  nobody else has the vnic of a port that is being moved.
* `Excluding`: a machine whose lock is free is in the list exactly if it has an unsecured port of its own (`Own`);
  while a request holds the lock, `Fits` says for each label what it may rely on: that it is the last
  unsecured port (`remove`), that the machine is in the list if there are others (`addCount`), and so on.

**How the proof goes.**  `Goes`, `Ends` and `Alone` say what a step leaves of the other requests, and `Forward` which
label follows which.  A step of the holder of a lock owes the next `Has` or `Fits` of its own device (`Here`, `Turn`) and
must not disturb the others (`Elsewhere`, `Apart`), which holds because a port it changes is of its own
device, or its vnic is, or `off` names the device.  `PlugDoes` and `UpdateDbDoes` state the effect of the two
actions that change the row of a port, once for all layers.

## 5. What is model-checked only

All invariants of `EdgePool` are theorems.  Those of `EdgePoolOwnerProofs` are promises of a server that meets
its time limits (and, two of them, keeps running), and TLC refutes them otherwise; for the edges a restart forgets
the administrator has `nsxadmin -r orphaned-edges`.

All invariants that a passing run of another module checks are theorems as well.  What stays with TLC is liveness:
`EveryTaskEnds` and `WaitReturns` of `TaskManager`, and the properties of `edgepool_liveness`.  They rest on fairness,
which the prover does not reach.

## 6. Assumptions on requests

Some interleavings are left out, each by a guard or a constant that is named:

* `SharedRouter`: users delete a router that no other request is at work on, and not while it is bound
  (`MayDeleteBound` = FALSE).
* `DhcpEdge` and `NativeDhcp`: requests that share no lock overlap only with `Races`, which the runs leave
  FALSE; the reads before a lock is taken are steps of their own in any case.  Without `Races`, the
  requests on one network follow one another, no network chooses an edge while a request without the
  pool's lock is giving one back, and the edges that the job repairs are in no request's hands.
* `VPorts`: a port is updated or deleted once it has been created.  An index that another port already has
  is refused if the port has another index itself.
* `PolicySegment` and `NativeDhcp`: requests on one subnet or one port follow one another, and the network is
  created before and deleted after the requests on it.  A network is deleted when
  it has no port or interface, as Neutron checks.
* `TaskManager`: one waiter for each state of a task (`SharedWait` = FALSE).

## 7. Where the code is weaker than it looks

Found while modelling, at the lines given.  Where a property would fail for one of these reasons, the
comment of the property or a constant says so.

*Pool* (`edge_utils.py`).
* The edge being collected is counted as pooled, so it is deleted although the pool has room for it (833).
* A row inserted as PENDING_UPDATE and never updated again has no `updated_at`, and no clean-up finds it (797).
* With host groups, a row is ACTIVE before the last step that may fail (2626).
* A row in ERROR without an edge ends every run of the housekeeping job (`error_backup_edge.py` 74).

*Task manager*: a main thread that is killed in a result callback loses the task (`tasks.py` 317).

*Shared routers* (`shared_router_driver.py`).
* `detach_router` and a gateway change wait for the pool's lock under the lock of the edge; adding,
  removing and moving interfaces do it the other way round (111, against 604-629 and 818-822).
* `_update_router_gw_info` reads the routers on the edge before it changes the gateway and before it waits
  for the edge (710): two routers with different gateways can stay on one edge.  No property is about
  gateways for that reason.
* `delete_router` removes the row of a bound router and does not free its edge (125).
* Floating IPs are written under the lock of an edge the router may have left (951).
* `update_routes` (342-371) has no caller.

*DHCP edges* (`edge_utils.py`, `plugin.py`).
* Deleting a network and disabling DHCP free the edge without 'nsx-dhcp-edge-pool' (`plugin.py` 3126-3147; the
  comment at 2847-2852 speaks of it), while another network is choosing it.
* `create_dhcp_edge_service` reads the row before it takes the pool's lock (1354); `update_dhcp_edge_service` reads edge and slot
  before it takes the edge's (1427).
* Conflicts are searched among ACTIVE rows (1185), so that after a failure networks that overlap can
  meet, which a comment says "should never happen" (643).
* The job that repairs an edge removes elements from the list of sub-interfaces it iterates over
  (`error_dhcp_edge.py` 190-215), so the one after a removed one is not looked at, and may stay although
  the table has no slot for it; and for an edge that has an ACTIVE row, too, it may settle the
  rows in ERROR without their sub-interfaces.
* The job reads the rows before it locks, deletes the rows of networks that are gone without freeing
  their edge (`error_dhcp_edge.py` 123), and repairs interfaces but not their addresses.
* Deleting the last DHCP subnet of a network that has another subnet keeps its service, and deleting
  the network then leaks row and slot (`plugin.py` 2870-2883, 1580-1581).

*Ports of NSX-V* (`plugin.py`).
* `delete_port` reads the port before the lock of its device (2748).
* A vnic index that a new port takes over leaves the old port's groups and exclude entry (`vnic_index_db.py` 77-96).
* A port that moves to another device counts its old vnic for the new one and deletes the
  static binding just created (2526 and 2597); a failure in between leaves the old vnic mapped.
* Provider groups are not left on deletion (2801; the comment at 2794 says "all NSXv Security-Groups").
* The static binding of a port that is deleted meanwhile can take the address of another.

*Native DHCP* (`common_v3/plugin.py`).
* The network is read before its lock is taken (2190 and 2212).
* `delete_subnet` disables DHCP before it finds that the subnet is in use (2418-2424).
* When the service cluster is unavailable, the port or the server of an attempt stay behind.
* `create_port` adds its binding (1798), and `update_port` changes it (1984), without the lock of the
  network; a row that is left so makes the port impossible to delete.

*Policy plugin* (`nsx_p/plugin.py`).
* The two locks of one network have different names (1508 'nsxp_network_<id>', 3171 the id), and `remove_router_interface` (3288) takes none.
* What `update_subnet` puts back after a failure is what it has just set, because `updated_data` is `orig_subnet` (1629).
* The last update of the segment, and its deletion, happen outside the lock.
* `delete_subnet` goes on when disabling DHCP fails (1585); a segment that cannot be deleted stays (836-843).
* Of more than two DHCP subnets, any two get into the segment (1193).
* The last DHCP subnet but one of a dual-stack network: the run `policysegment_dual`.

## 8. Not modelled

`PROJECT.json` gives the reason for each component.  Within the modelled ones: distributed routers and
their pairs of edges; the table of vnic indices of routers; the address of an interface that changes;
static routes of shared routers, which are refused; several tenants that do not share edges; exclusive
DHCP edges and the metadata network; networks and security groups of the NSX-V plugin, service insertion, mac
learning and QoS of ports; DHCP relay, router ports and bulk creation of V3; SLAAC, subnets without gateway,
VLAN interfaces, NAT, advertisement and firewall of tier-1 routers, and ports of the policy plugin.  A lock
of the coordinator that is lost is modelled nowhere.

## 9. Plan

What is left, in this order:

1. `ApiClientPool`: acquire, release, login and redirect of the NSX-MH client.
2. `Housekeeper`, `MetadataInit`: the results of concurrent runs, and the initialisation that
   several nodes run at once.
3. Networks and security groups of the NSX-V plugin.
