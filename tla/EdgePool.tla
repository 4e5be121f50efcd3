------------------------------ MODULE EdgePool ------------------------------
(***************************************************************************)
(* The backup edge pool of the NSX-V plugin: EdgeManager allocates an edge *)
(* appliance for a router out of a pool of pre-deployed "backup-" edges    *)
(* and collects it again when the router goes away, while green threads    *)
(* deploy and delete appliances and the error_backup_edge housekeeping job *)
(* repairs what failed.                                                    *)
(*                                                                         *)
(* Every actor works on one table, the router bindings, in transactions of *)
(* its own; a step of the model is one transaction, one backend call, or   *)
(* the acquisition of a lock with the first read under it.  One pool (one  *)
(* availability zone, appliance size and edge type) of centralized edges.  *)
(***************************************************************************)
EXTENDS Naturals, FiniteSets

CONSTANTS
  Threads,      \* API worker threads of neutron-server
  Main,         \* the thread that constructs EdgeManager
  Routers,      \* resource ids that ask for an edge
  Backups,      \* "backup-<uuid>" router ids; a bound on rows of the pool
  Edges,        \* appliances the backend can host; a bound
  NoRid, NoEdge, NoThread,
  Hk,           \* the housekeeper, as an owner of edge locks
  MinPooled, MaxPooled,     \* <min_edges>:<max_edges> of backup_edge_pool
  Workers,                  \* WORKER_POOL_SIZE
  MaxFaults,                \* bound: backup rows in ERROR through failures of the backend
  HkReadonly,               \* housekeeping_readonly
  \* What the environment may do:
  MayExpire,                \* a pending state may outlive MAX_EDGE_PENDING_SEC
  MayCrash,                 \* neutron-server may restart
  HostGroups,               \* edge_ha with edge_host_groups is configured
  EagerDelete               \* a router may be deleted while it is created

ASSUME PoolAssumption ==
  /\ Main \in Threads
  /\ Routers \cap Backups = {} /\ IsFiniteSet(Backups) /\ IsFiniteSet(Threads)
  /\ NoRid \notin Routers \cup Backups
  /\ NoEdge \notin Edges
  /\ NoThread \notin Threads /\ Hk \notin Threads \cup {NoThread}
  /\ MinPooled \in Nat /\ MaxPooled \in Nat /\ Workers \in Nat \ {0} /\ MaxFaults \in Nat
  /\ {HkReadonly, MayExpire, MayCrash, HostGroups, EagerDelete} \subseteq BOOLEAN

VARIABLES
  binding,   \* nsxv_router_bindings: status and edge_id of each row
  undated,   \* PENDING_UPDATE rows whose updated_at is still NULL
  late,      \* rows in a pending state for more than MAX_EDGE_PENDING_SEC
  vnics,     \* edges with rows in nsxv_edge_vnic_bindings
  backend,   \* the appliances NSX hosts
  poolLock,  \* holder of 'nsx-edge-backup-pool'
  edgeLock,  \* holder of the lock named after each edge
  pc, rtr, bak, eid, cand, todo, ret, short,  \* locals of each thread
  deploy,    \* deploy_edge in progress for each router id
  deletes,   \* delete_edge calls handed to the worker pool
  hkPc, hkTodo, hkCur       \* the error_backup_edge job

dbVars   == <<binding, undated, late, vnics>>
lockVars == <<poolLock, edgeLock>>
locals   == <<rtr, bak, eid, cand, todo, ret, short>>
jobVars  == <<deploy, deletes>>
hkVars   == <<hkPc, hkTodo, hkCur>>
vars     == <<dbVars, backend, lockVars, pc, locals, jobVars, hkVars>>

Rids    == Routers \cup Backups
Pending == {"PENDING_CREATE", "PENDING_UPDATE", "PENDING_DELETE"}
Pooled  == {"PENDING_CREATE", "PENDING_UPDATE", "ACTIVE"}
Row     == [status : Pending \cup {"NONE", "ACTIVE", "ERROR"}, edge : Edges \cup {NoEdge}]
Item    == [rid : Backups, edge : Edges \cup {NoEdge}]
NoRow   == [status |-> "NONE", edge |-> NoEdge]
NoItem  == [rid |-> NoRid, edge |-> NoEdge]

Stages  == {"none", "queued", "backend", "record", "vnics", "done", "groups", "undo",
            "ok", "raised"}
NoDeploy == [stage |-> "none", edge |-> NoEdge]

Exists(rid) == binding[rid].status # "NONE"
ItemOf(rid) == [rid |-> rid, edge |-> binding[rid].edge]

\* _get_backup_edge_bindings: the rows that count as pooled.
PoolRids == {b \in Backups : binding[b].status \in Pooled}

\* Ids that no row, thread or job refers to stand for fresh uuids.
RidsInUse == {rid \in Rids : Exists(rid) \/ deploy[rid].stage # "none"}
             \cup {bak[t] : t \in Threads} \cup {rtr[t] : t \in Threads}
             \cup {x.rid : x \in UNION {cand[t] \cup todo[t] : t \in Threads}}
             \cup {d.rid : d \in deletes} \cup {x.rid : x \in hkTodo} \cup {hkCur.rid}
EdgesInUse == {binding[rid].edge : rid \in Rids} \cup {deploy[rid].edge : rid \in Rids}
              \cup {eid[t] : t \in Threads} \cup vnics
              \cup {x.edge : x \in UNION {cand[t] \cup todo[t] : t \in Threads}}
              \cup {d.edge : d \in deletes} \cup {x.edge : x \in hkTodo} \cup {hkCur.edge}
MayFail == Cardinality({b \in Backups : binding[b].status = "ERROR"}) < MaxFaults
FreshBackups == Backups \ RidsInUse
FreshEdges   == Edges \ (backend \cup EdgesInUse)

\* add_, update_ and delete_nsxv_router_binding, one transaction each.
AddRow(rid, e, status) ==
  /\ binding' = [binding EXCEPT ![rid] = [status |-> status, edge |-> e]]
  /\ undated' = IF status = "PENDING_UPDATE" THEN undated \cup {rid} ELSE undated \ {rid}
  /\ late' = late \ {rid}
SetStatus(rids, status) ==
  LET found == {rid \in rids : Exists(rid)} IN
  /\ binding' = [rid \in Rids |-> IF rid \in found
                                  THEN [binding[rid] EXCEPT !.status = status]
                                  ELSE binding[rid]]
  /\ undated' = undated \ found
  /\ late' = late \ found
DeleteRow(rid) ==
  /\ binding' = [binding EXCEPT ![rid] = NoRow]
  /\ undated' = undated \ {rid}
  /\ late' = late \ {rid}

Goto(t, label) == pc' = [pc EXCEPT ![t] = label]
Finish(t) ==
  /\ Goto(t, "idle")
  /\ rtr' = [rtr EXCEPT ![t] = NoRid]
  /\ bak' = [bak EXCEPT ![t] = NoRid]
  /\ eid' = [eid EXCEPT ![t] = NoEdge]
  /\ cand' = [cand EXCEPT ![t] = {}]
  /\ todo' = [todo EXCEPT ![t] = {}]
  /\ ret' = [ret EXCEPT ![t] = "idle"]
  /\ short' = [short EXCEPT ![t] = 0]
ReleasePool == poolLock' = NoThread /\ UNCHANGED edgeLock
ReleaseEdge(e) == edgeLock' = [edgeLock EXCEPT ![e] = NoThread] /\ UNCHANGED poolLock

-----------------------------------------------------------------------------
(* The worker pool: deploy_edge and delete_edge run as green threads.      *)

Running == Cardinality(deletes)
           + Cardinality({b \in Backups : deploy[b].stage \notin {"none", "queued"}})
\* Mutant: the worker is not told the edge.
SpawnNoEdge(x) == /\ Running < Workers
                  /\ deletes' = deletes \cup {[rid |-> x.rid, edge |-> NoEdge, stage |-> "db"]}
Spawn(x) == /\ Running < Workers
            /\ deletes' = deletes \cup {[rid |-> x.rid, edge |-> x.edge, stage |-> "db"]}

Stage(rid, stage, e) == deploy' = [deploy EXCEPT ![rid] = [stage |-> stage, edge |-> e]]
\* A worker forgets its call; the thread that deploys for a router reads the result.
EndDeploy(rid, result) ==
  deploy' = [deploy EXCEPT ![rid] = IF rid \in Backups THEN NoDeploy
                                    ELSE [@ EXCEPT !.stage = result]]

\* _pool_creator hands the call to a free worker.
DeployStart(b) ==
  /\ deploy[b].stage = "queued"
  /\ Running < Workers
  /\ Stage(b, "backend", NoEdge)
  /\ UNCHANGED <<dbVars, backend, lockVars, pc, locals, deletes, hkVars>>

\* vcns.deploy_edge answers with a new edge, or fails.
DeployBackend(rid) ==
  /\ deploy[rid].stage = "backend"
  /\ \/ \E e \in FreshEdges : /\ backend' = backend \cup {e}
                              /\ Stage(rid, "record", e)
     \/ (rid \in Backups => MayFail) /\ Stage(rid, "undo", NoEdge) /\ UNCHANGED backend
  /\ UNCHANGED <<dbVars, lockVars, pc, locals, deletes, hkVars>>

\* The row learns its edge_id; NoResultFound if it went away meanwhile.
DeployRecord(rid) ==
  /\ deploy[rid].stage = "record"
  /\ IF Exists(rid)
     THEN /\ binding' = [binding EXCEPT ![rid].edge = deploy[rid].edge]
          /\ undated' = undated \ {rid}
          /\ Stage(rid, "vnics", deploy[rid].edge)
     ELSE /\ EndDeploy(rid, "raised")
          /\ UNCHANGED <<binding, undated>>
  /\ UNCHANGED <<late, vnics, backend, lockVars, pc, locals, deletes, hkVars>>

\* init_edge_vnic_binding; the rows of an edge are unique.
DeployVnics(rid) ==
  /\ deploy[rid].stage = "vnics"
  /\ IF deploy[rid].edge \in vnics
     THEN EndDeploy(rid, "raised") /\ UNCHANGED vnics
     ELSE /\ vnics' = vnics \cup {deploy[rid].edge}
          /\ Stage(rid, "done", deploy[rid].edge)
  /\ UNCHANGED <<binding, undated, late, backend, lockVars, pc, locals, deletes, hkVars>>

\* complete_edge_creation(True): the metadata service of a DHCP edge may fail first.
DeployDone(rid) ==
  /\ deploy[rid].stage = "done"
  /\ \/ /\ Exists(rid)
        /\ SetStatus({rid}, "ACTIVE")
        /\ IF HostGroups THEN Stage(rid, "groups", deploy[rid].edge)
                         ELSE EndDeploy(rid, "ok")
     \/ /\ ~Exists(rid)
        /\ EndDeploy(rid, "raised")
        /\ UNCHANGED <<binding, undated, late>>
     \/ /\ rid \in Routers
        /\ Stage(rid, "undo", deploy[rid].edge)
        /\ UNCHANGED <<binding, undated, late>>
  /\ UNCHANGED <<vnics, backend, lockVars, pc, locals, deletes, hkVars>>

\* update_edge_host_groups, after the row is ACTIVE: get_edge_appliances may fail.
DeployGroups(rid) ==
  /\ deploy[rid].stage = "groups"
  /\ \/ EndDeploy(rid, "ok")
     \/ Stage(rid, "undo", deploy[rid].edge)
  /\ UNCHANGED <<dbVars, backend, lockVars, pc, locals, deletes, hkVars>>

\* complete_edge_creation(False): ERROR, and the vnic rows go.
DeployUndo(rid) ==
  /\ deploy[rid].stage = "undo"
  /\ SetStatus({rid}, "ERROR")
  /\ vnics' = IF Exists(rid) THEN vnics \ {deploy[rid].edge} ELSE vnics
  /\ EndDeploy(rid, "raised")
  /\ UNCHANGED <<backend, lockVars, pc, locals, deletes, hkVars>>

\* Mutant: delete_edge serializes with the pool.
DeleteDbLocked(d) ==
  /\ d.stage = "db" /\ poolLock = NoThread
  /\ DeleteRow(d.rid)
  /\ vnics' = vnics \ {d.edge}
  /\ deletes' = deletes \ {d}
  /\ UNCHANGED <<backend, lockVars, pc, locals, deploy, hkVars>>
\* delete_edge: first the rows, then the appliance.
DeleteDb(d) ==
  /\ d.stage = "db"
  /\ DeleteRow(d.rid)
  /\ vnics' = vnics \ {d.edge}
  /\ deletes' = (deletes \ {d}) \cup
                (IF d.edge = NoEdge THEN {} ELSE {[d EXCEPT !.stage = "backend"]})
  /\ UNCHANGED <<backend, lockVars, pc, locals, deploy, hkVars>>

\* The appliance goes.  Should the backend refuse, delete_edge returns False and
\* forgets the edge: nothing ever refers to it again, so it too leaves the model.
DestroyEdge(e) == backend' = backend \ {e}
DeleteBackend(d) ==
  /\ d.stage = "backend"
  /\ DestroyEdge(d.edge)
  /\ deletes' = deletes \ {d}
  /\ UNCHANGED <<dbVars, lockVars, pc, locals, deploy, hkVars>>

-----------------------------------------------------------------------------
(* _clean_all_error_edge_bindings, and the spawning of deletions.          *)

CleanTargets ==
  {b \in Backups : \/ binding[b].status = "ERROR" /\ HkReadonly
                   \/ binding[b].status = "PENDING_CREATE" /\ b \in late
                   \/ /\ binding[b].status \in {"PENDING_UPDATE", "PENDING_DELETE"}
                      /\ b \in late \ undated}
\* The rows are read here and used in the steps that follow.
BeginClean(t, return) ==
  /\ todo' = [todo EXCEPT ![t] = {ItemOf(b) : b \in CleanTargets}]
  /\ ret' = [ret EXCEPT ![t] = return]
  /\ Goto(t, "mark")

\* _delete_backup_edges_on_db; rows that are gone are skipped.
Mark(t) ==
  /\ pc[t] = "mark"
  /\ SetStatus({x.rid : x \in todo[t]}, "PENDING_DELETE")
  /\ Goto(t, "spawn")
  /\ UNCHANGED <<vnics, backend, lockVars, locals, jobVars, hkVars>>

\* Mutant: only the rows are marked.
SpawnNothing(t) ==
  /\ pc[t] = "spawn" /\ todo[t] # {}
  /\ todo' = [todo EXCEPT ![t] = {}]
  /\ UNCHANGED <<dbVars, backend, lockVars, pc, rtr, bak, eid, cand, ret, short, jobVars, hkVars>>
\* _delete_backup_edges_at_backend: spawn_n waits for a free worker.
SpawnDelete(t) ==
  /\ pc[t] = "spawn" /\ todo[t] # {}
  /\ \E x \in todo[t] : /\ Spawn(x)
                        /\ todo' = [todo EXCEPT ![t] = @ \ {x}]
  /\ UNCHANGED <<dbVars, backend, lockVars, pc, rtr, bak, eid, cand, ret, short, deploy, hkVars>>
SpawnEnd(t) ==
  /\ pc[t] = "spawn" /\ todo[t] = {} /\ ret[t] \notin {"bEnd", "fEnd"}
  /\ Goto(t, ret[t])
  /\ UNCHANGED <<dbVars, backend, lockVars, locals, jobVars, hkVars>>
\* The last spawn of _free_edge_appliance and of the start-up check.
SpawnReturn(t) ==
  /\ pc[t] = "spawn" /\ todo[t] = {} /\ ret[t] \in {"bEnd", "fEnd"}
  /\ Finish(t)
  /\ IF ret[t] = "fEnd" THEN ReleasePool ELSE UNCHANGED lockVars
  /\ UNCHANGED <<dbVars, backend, jobVars, hkVars>>

\* One row is marked and its edge handed to a worker.
Discard(t, x, return) ==
  /\ Exists(x.rid)
  /\ SetStatus({x.rid}, "PENDING_DELETE")
  /\ todo' = [todo EXCEPT ![t] = {x}]
  /\ ret' = [ret EXCEPT ![t] = return]
  /\ Goto(t, "spawn")

\* _deploy_backup_edges_on_db and _deploy_backup_edges_at_backend.
AddBackups(new) ==
  /\ binding' = [rid \in Rids |-> IF rid \in new
                                  THEN [status |-> "PENDING_CREATE", edge |-> NoEdge]
                                  ELSE binding[rid]]
  /\ undated' = undated \ new
  /\ late' = late \ new
  /\ deploy' = [rid \in Rids |-> IF rid \in new THEN [stage |-> "queued", edge |-> NoEdge]
                                 ELSE deploy[rid]]

-----------------------------------------------------------------------------
(* _check_backup_edge_pools: EdgeManager's constructor, without the lock.  *)

Booting == pc[Main] \in {"bClean", "bCount"} \/ ret[Main] \in {"bCount", "bEnd"}

BootClean ==
  /\ pc[Main] = "bClean"
  /\ BeginClean(Main, "bCount")
  /\ UNCHANGED <<dbVars, backend, lockVars, rtr, bak, eid, cand, short, jobVars, hkVars>>

\* Too few: rows are added until there are MinPooled.
BootFill ==
  /\ pc[Main] = "bCount"
  /\ Cardinality(PoolRids) <= MaxPooled
  /\ \E new \in SUBSET FreshBackups :
       /\ Cardinality(new) = IF Cardinality(PoolRids) < MinPooled
                             THEN MinPooled - Cardinality(PoolRids) ELSE 0
       /\ AddBackups(new)
  /\ Finish(Main)
  /\ UNCHANGED <<vnics, backend, lockVars, deletes, hkVars>>

\* Too many: the first ones of the list are deleted, whatever their status.
BootTrim ==
  /\ pc[Main] = "bCount"
  /\ Cardinality(PoolRids) > MaxPooled
  /\ \E extra \in SUBSET PoolRids :
       /\ Cardinality(extra) = Cardinality(PoolRids) - MaxPooled
       /\ todo' = [todo EXCEPT ![Main] = {ItemOf(b) : b \in extra}]
       /\ SetStatus(extra, "PENDING_DELETE")
  /\ ret' = [ret EXCEPT ![Main] = "bEnd"]
  /\ Goto(Main, "spawn")
  /\ UNCHANGED <<vnics, backend, lockVars, rtr, bak, eid, cand, short, jobVars, hkVars>>

-----------------------------------------------------------------------------
(* _allocate_edge_appliance                                                *)

StartAlloc(t, r) ==
  /\ pc[t] = "idle" /\ ~Booting
  /\ r \notin RidsInUse
  /\ rtr' = [rtr EXCEPT ![t] = r]
  /\ Goto(t, "aLock")
  /\ UNCHANGED <<dbVars, backend, lockVars, bak, eid, cand, todo, ret, short, jobVars, hkVars>>

AllocLock(t) ==
  /\ pc[t] = "aLock" /\ poolLock = NoThread
  /\ poolLock' = t
  /\ BeginClean(t, "aList")
  /\ UNCHANGED <<dbVars, backend, edgeLock, rtr, bak, eid, cand, short, jobVars, hkVars>>

\* _get_available_router_binding lists the pool; only ACTIVE rows matter to it.
AllocList(t) ==
  /\ pc[t] = "aList"
  /\ cand' = [cand EXCEPT ![t] = {ItemOf(b) : b \in {c \in Backups : binding[c].status = "ACTIVE"}}]
  /\ Goto(t, "aPick")
  /\ UNCHANGED <<dbVars, backend, lockVars, rtr, bak, eid, todo, ret, short, jobVars, hkVars>>

\* random.choice, then the backend is asked for the status of the edge.  Whether
\* an edge answers ACTIVE may change at any time: the answer is a free choice.
AllocPick(t) ==
  /\ pc[t] = "aPick"
  /\ \E x \in cand[t] : /\ x.edge \in backend
                        /\ bak' = [bak EXCEPT ![t] = x.rid]
                        /\ eid' = [eid EXCEPT ![t] = x.edge]
  /\ cand' = [cand EXCEPT ![t] = {}]
  /\ Goto(t, "aTake")
  /\ UNCHANGED <<dbVars, backend, lockVars, rtr, todo, ret, short, jobVars, hkVars>>
\* An edge that is down, or whose status cannot be read, is discarded.
AllocDiscard(t) ==
  /\ pc[t] = "aPick"
  /\ \E x \in cand[t] : /\ Discard(t, x, "aPick")
                        /\ cand' = [cand EXCEPT ![t] = @ \ {x}]
  /\ UNCHANGED <<vnics, backend, lockVars, rtr, bak, eid, short, jobVars, hkVars>>
AllocNone(t) ==
  /\ pc[t] = "aPick" /\ cand[t] = {}
  /\ ReleasePool
  /\ Goto(t, "aAdd")
  /\ UNCHANGED <<dbVars, backend, locals, jobVars, hkVars>>

\* Mutant: the selected row stays ACTIVE.
AllocTakeUnmarked(t) ==
  /\ pc[t] = "aTake" /\ Exists(bak[t])
  /\ ReleasePool
  /\ Goto(t, "aUnbind")
  /\ UNCHANGED <<dbVars, backend, locals, jobVars, hkVars>>
\* PENDING_UPDATE keeps other threads from selecting the same row.
AllocTake(t) ==
  /\ pc[t] = "aTake" /\ Exists(bak[t])
  /\ SetStatus({bak[t]}, "PENDING_UPDATE")
  /\ ReleasePool
  /\ Goto(t, "aUnbind")
  /\ UNCHANGED <<vnics, backend, locals, jobVars, hkVars>>

\* Mutant: the pool row is kept.
AllocKeepRow(t) ==
  /\ pc[t] = "aUnbind"
  /\ Goto(t, "aBind")
  /\ UNCHANGED <<dbVars, backend, lockVars, locals, jobVars, hkVars>>
\* The pool row is replaced by the router's, in two transactions.
AllocUnbind(t) ==
  /\ pc[t] = "aUnbind"
  /\ DeleteRow(bak[t])
  /\ Goto(t, "aBind")
  /\ UNCHANGED <<vnics, backend, lockVars, locals, jobVars, hkVars>>
AllocBind(t) ==
  /\ pc[t] = "aBind"
  /\ AddRow(rtr[t], eid[t], "PENDING_CREATE")
  /\ Goto(t, "aEdge")
  /\ UNCHANGED <<vnics, backend, lockVars, locals, jobVars, hkVars>>
AllocEdge(t) ==
  /\ pc[t] = "aEdge" /\ edgeLock[eid[t]] = NoThread
  /\ edgeLock' = [edgeLock EXCEPT ![eid[t]] = t]
  /\ Goto(t, "aDone")
  /\ UNCHANGED <<dbVars, backend, poolLock, locals, jobVars, hkVars>>
\* complete_edge_creation and rename_edge, which swallows its own failures; the
\* host groups (after ACTIVE) or the metadata service (before) may fail and raise.
AllocDone(t) ==
  /\ pc[t] = "aDone" /\ Exists(rtr[t])
  /\ \/ SetStatus({rtr[t]}, "ACTIVE") /\ Goto(t, "aCount") /\ UNCHANGED locals
     \/ HostGroups /\ SetStatus({rtr[t]}, "ACTIVE") /\ Finish(t)
     \/ Finish(t) /\ UNCHANGED <<binding, undated, late>>
  /\ ReleaseEdge(eid[t])
  /\ UNCHANGED <<vnics, backend, jobVars, hkVars>>

\* No edge in the pool: the thread deploys one itself.
AllocAdd(t) ==
  /\ pc[t] = "aAdd"
  /\ AddRow(rtr[t], NoEdge, "PENDING_CREATE")
  /\ Stage(rtr[t], "backend", NoEdge)
  /\ Goto(t, "aDeploy")
  /\ UNCHANGED <<vnics, backend, lockVars, locals, deletes, hkVars>>
AllocDeployed(t) ==
  /\ pc[t] = "aDeploy" /\ deploy[rtr[t]].stage \in {"ok", "raised"}
  /\ IF deploy[rtr[t]].stage = "ok" THEN Goto(t, "aCount") /\ UNCHANGED locals
                                    ELSE Finish(t)
  /\ deploy' = [deploy EXCEPT ![rtr[t]] = NoDeploy]
  /\ UNCHANGED <<dbVars, backend, lockVars, deletes, hkVars>>

\* The refill counts and adds outside the lock.
AllocCount(t) ==
  /\ pc[t] = "aCount"
  /\ short' = [short EXCEPT ![t] = IF Cardinality(PoolRids) < MinPooled
                                   THEN MinPooled - Cardinality(PoolRids) ELSE 0]
  /\ Goto(t, "aRefill")
  /\ UNCHANGED <<dbVars, backend, lockVars, rtr, bak, eid, cand, todo, ret, jobVars, hkVars>>
AllocRefill(t) ==
  /\ pc[t] = "aRefill"
  /\ \E new \in SUBSET FreshBackups : Cardinality(new) = short[t] /\ AddBackups(new)
  /\ Finish(t)
  /\ UNCHANGED <<vnics, backend, lockVars, deletes, hkVars>>

\* NoResultFound from the update of a row that went away meanwhile.
AllocLost(t) ==
  /\ \/ pc[t] = "aTake" /\ ~Exists(bak[t]) /\ ReleasePool
     \/ pc[t] = "aDone" /\ ~Exists(rtr[t]) /\ ReleaseEdge(eid[t])
     \/ /\ pc[t] = "aPick" /\ \E x \in cand[t] : ~Exists(x.rid)
        /\ ReleasePool
  /\ Finish(t)
  /\ UNCHANGED <<dbVars, backend, jobVars, hkVars>>

-----------------------------------------------------------------------------
(* _free_edge_appliance, all of it under the pool lock                     *)

FreeLabels == {"fLock", "fUnbind", "fAdd", "fCheck", "fCount", "fUpdate", "fActive", "fError", "fPool"}
Freeing(t) == pc[t] \in FreeLabels \/ (pc[t] \in {"mark", "spawn"} /\ ret[t] \in {"fCount", "fEnd"})

StartFree(t, r) ==
  /\ pc[t] = "idle" /\ ~Booting
  /\ Exists(r) \/ (EagerDelete /\ \E u \in Threads : rtr[u] = r)
  /\ \A u \in Threads : rtr[u] = r => EagerDelete /\ ~Freeing(u)
  /\ rtr' = [rtr EXCEPT ![t] = r]
  /\ Goto(t, "fLock")
  /\ UNCHANGED <<dbVars, backend, lockVars, bak, eid, cand, todo, ret, short, jobVars, hkVars>>

\* The binding is read once; ret remembers whether its status was ERROR.
FreeLock(t) ==
  /\ pc[t] = "fLock" /\ poolLock = NoThread
  /\ IF Exists(rtr[t])
     THEN /\ poolLock' = t
          /\ eid' = [eid EXCEPT ![t] = binding[rtr[t]].edge]
          /\ ret' = [ret EXCEPT ![t] = IF binding[rtr[t]].status = "ERROR" THEN "fEnd" ELSE "fCount"]
          /\ Goto(t, "fUnbind")
          /\ UNCHANGED <<rtr, bak, cand, todo, short>>
     ELSE Finish(t) /\ UNCHANGED poolLock
  /\ UNCHANGED <<dbVars, backend, edgeLock, jobVars, hkVars>>
\* Mutant: the row of the router is kept.
FreeKeepRow(t) ==
  /\ pc[t] = "fUnbind"
  /\ Goto(t, "fAdd")
  /\ UNCHANGED <<dbVars, backend, lockVars, locals, jobVars, hkVars>>
FreeUnbind(t) ==
  /\ pc[t] = "fUnbind"
  /\ DeleteRow(rtr[t])
  /\ Goto(t, "fAdd")
  /\ UNCHANGED <<vnics, backend, lockVars, locals, jobVars, hkVars>>
FreeAdd(t) ==
  /\ pc[t] = "fAdd"
  /\ \E b \in FreshBackups : /\ bak' = [bak EXCEPT ![t] = b]
                             /\ AddRow(b, eid[t], "PENDING_UPDATE")
  /\ Goto(t, "fCheck")
  /\ UNCHANGED <<vnics, backend, lockVars, rtr, eid, cand, todo, ret, short, jobVars, hkVars>>

\* An edge in ERROR, inactive or of unknown status is deleted at once.
FreeDiscard(t) ==
  /\ pc[t] = "fCheck"
  /\ Discard(t, [rid |-> bak[t], edge |-> eid[t]], "fEnd")
  /\ UNCHANGED <<vnics, backend, lockVars, rtr, bak, eid, cand, short, jobVars, hkVars>>
FreeClean(t) ==
  /\ pc[t] = "fCheck" /\ ret[t] = "fCount"
  /\ eid[t] \in backend
  /\ BeginClean(t, "fCount")
  /\ UNCHANGED <<dbVars, backend, lockVars, rtr, bak, eid, cand, short, jobVars, hkVars>>

\* Mutant: the pool is never full.
FreeCollectAlways(t) ==
  /\ pc[t] = "fCount"
  /\ Goto(t, "fUpdate")
  /\ UNCHANGED <<dbVars, backend, lockVars, locals, jobVars, hkVars>>
\* "collect the edge to pool if pool not full": the count includes the edge itself.
FreeCollect(t) ==
  /\ pc[t] = "fCount"
  /\ Cardinality(PoolRids) < MaxPooled
  /\ Goto(t, "fUpdate")
  /\ UNCHANGED <<dbVars, backend, lockVars, locals, jobVars, hkVars>>
FreeSurplus(t) ==
  /\ pc[t] = "fCount"
  /\ Cardinality(PoolRids) >= MaxPooled
  /\ Discard(t, [rid |-> bak[t], edge |-> eid[t]], "fEnd")
  /\ UNCHANGED <<vnics, backend, lockVars, rtr, bak, eid, cand, short, jobVars, hkVars>>

\* update_edge renames the edge; complete_edge_update marks a failure on the row.
FreeUpdate(t) ==
  /\ pc[t] = "fUpdate"
  /\ \/ eid[t] \in backend /\ Goto(t, "fActive") /\ UNCHANGED <<binding, undated, late>>
     \/ MayFail /\ SetStatus({bak[t]}, "ERROR") /\ Goto(t, "fError")
  /\ UNCHANGED <<vnics, backend, lockVars, locals, jobVars, hkVars>>
\* Mutant: the vnic rows are cleaned and not initialised.
FreeVnicsCleaned(t) ==
  /\ pc[t] \in {"fActive", "fError"}
  /\ vnics' = vnics \ {eid[t]}
  /\ IF pc[t] = "fActive" THEN Goto(t, "fPool") /\ UNCHANGED <<poolLock, locals>>
                          ELSE Finish(t) /\ poolLock' = NoThread
  /\ UNCHANGED <<binding, undated, late, backend, edgeLock, jobVars, hkVars>>
\* The vnic rows are cleaned and initialised again in either case.
FreeVnics(t) ==
  /\ pc[t] \in {"fActive", "fError"}
  /\ vnics' = vnics \cup {eid[t]}
  /\ IF pc[t] = "fActive" THEN Goto(t, "fPool") /\ UNCHANGED <<poolLock, locals>>
                          ELSE Finish(t) /\ poolLock' = NoThread
  /\ UNCHANGED <<binding, undated, late, backend, edgeLock, jobVars, hkVars>>
FreePool(t) ==
  /\ pc[t] = "fPool"
  /\ SetStatus({bak[t]}, "ACTIVE")
  /\ ReleasePool
  /\ Finish(t)
  /\ UNCHANGED <<vnics, backend, jobVars, hkVars>>

-----------------------------------------------------------------------------
(* The housekeeping job error_backup_edge                                  *)

\* Mutants: the filter on the prefix, or on the status, is wrong.
BrokenAny == {rid \in Rids : binding[rid].status = "ERROR"}
BrokenOrDeleted == {b \in Backups : binding[b].status \in {"ERROR", "PENDING_DELETE"}}
Broken == {b \in Backups : binding[b].status = "ERROR"}
\* The rows are read under the pool lock and repaired outside it.
HkRead ==
  /\ hkPc = "idle" /\ ~HkReadonly /\ ~Booting
  /\ poolLock = NoThread
  /\ hkTodo' = {ItemOf(rid) : rid \in Broken}
  /\ hkTodo' # {}
  /\ hkPc' = "pick"
  /\ UNCHANGED <<dbVars, backend, lockVars, pc, locals, jobVars, hkCur>>
\* The lock is named after the edge: a row without one has no name to lock, and
\* the exception ends the job.
HkPick ==
  /\ hkPc = "pick"
  /\ \E x \in hkTodo :
       IF x.edge = NoEdge
       THEN hkPc' = "idle" /\ hkTodo' = {} /\ UNCHANGED <<hkCur, edgeLock>>
       ELSE /\ edgeLock[x.edge] = NoThread
            /\ edgeLock' = [edgeLock EXCEPT ![x.edge] = Hk]
            /\ hkCur' = x
            /\ hkTodo' = hkTodo \ {x}
            /\ hkPc' = "update"
  /\ UNCHANGED <<dbVars, backend, poolLock, pc, locals, jobVars>>
HkEnd ==
  /\ hkPc = "pick" /\ hkTodo = {}
  /\ hkPc' = "idle"
  /\ UNCHANGED <<dbVars, backend, lockVars, pc, locals, jobVars, hkTodo, hkCur>>
HkUpdate ==
  /\ hkPc = "update"
  /\ \/ /\ hkCur.edge \in backend
        /\ hkPc' = "activate"
        /\ UNCHANGED <<binding, undated, late>>
     \/ SetStatus({hkCur.rid}, "ERROR") /\ hkPc' = "purge"
  /\ UNCHANGED <<vnics, backend, lockVars, pc, locals, jobVars, hkTodo, hkCur>>
HkDone == /\ ReleaseEdge(hkCur.edge)
          /\ hkPc' = "pick" /\ hkCur' = NoItem /\ UNCHANGED hkTodo
HkActivate ==
  /\ hkPc = "activate"
  /\ IF Exists(hkCur.rid)
     THEN SetStatus({hkCur.rid}, "ACTIVE") /\ HkDone
     ELSE /\ hkPc' = "purge"
          /\ UNCHANGED <<binding, undated, late, lockVars, hkTodo, hkCur>>
  /\ UNCHANGED <<vnics, backend, pc, locals, jobVars>>
\* _delete_edge of the job; a row that is gone is skipped.
HkMark ==
  /\ hkPc = "purge"
  /\ SetStatus({hkCur.rid}, "PENDING_DELETE")
  /\ hkPc' = "erase"
  /\ UNCHANGED <<vnics, backend, lockVars, pc, locals, jobVars, hkTodo, hkCur>>
\* delete_edge in this thread.
HkPurge ==
  /\ hkPc = "erase"
  /\ DeleteRow(hkCur.rid)
  /\ vnics' = vnics \ {hkCur.edge}
  /\ hkPc' = "destroy"
  /\ UNCHANGED <<backend, lockVars, pc, locals, jobVars, hkTodo, hkCur>>
HkDestroy ==
  /\ hkPc = "destroy"
  /\ DestroyEdge(hkCur.edge)
  /\ HkDone
  /\ UNCHANGED <<dbVars, pc, locals, jobVars>>

-----------------------------------------------------------------------------
(* The environment                                                         *)

\* MAX_EDGE_PENDING_SEC pass over a pending backup row.
Expire(b) ==
  /\ MayExpire
  /\ binding[b].status \in Pending /\ b \notin late
  /\ late' = late \cup {b}
  /\ UNCHANGED <<binding, undated, vnics, backend, lockVars, pc, locals, jobVars, hkVars>>

\* neutron-server restarts: the tables and the backend stay, all else is lost.
Crash ==
  /\ MayCrash /\ ~Booting
  /\ pc' = [t \in Threads |-> IF t = Main THEN "bClean" ELSE "idle"]
  /\ rtr' = [t \in Threads |-> NoRid] /\ bak' = [t \in Threads |-> NoRid]
  /\ eid' = [t \in Threads |-> NoEdge]
  /\ cand' = [t \in Threads |-> {}] /\ todo' = [t \in Threads |-> {}]
  /\ ret' = [t \in Threads |-> "idle"] /\ short' = [t \in Threads |-> 0]
  /\ poolLock' = NoThread /\ edgeLock' = [e \in Edges |-> NoThread]
  /\ deploy' = [rid \in Rids |-> NoDeploy] /\ deletes' = {}
  /\ hkPc' = "idle" /\ hkTodo' = {} /\ hkCur' = NoItem
  /\ UNCHANGED <<dbVars, backend>>

-----------------------------------------------------------------------------
Init ==
  /\ binding = [rid \in Rids |-> NoRow]
  /\ undated = {} /\ late = {} /\ vnics = {}
  /\ backend = {}
  /\ poolLock = NoThread /\ edgeLock = [e \in Edges |-> NoThread]
  /\ pc = [t \in Threads |-> IF t = Main THEN "bClean" ELSE "idle"]
  /\ rtr = [t \in Threads |-> NoRid] /\ bak = [t \in Threads |-> NoRid]
  /\ eid = [t \in Threads |-> NoEdge]
  /\ cand = [t \in Threads |-> {}] /\ todo = [t \in Threads |-> {}]
  /\ ret = [t \in Threads |-> "idle"] /\ short = [t \in Threads |-> 0]
  /\ deploy = [rid \in Rids |-> NoDeploy] /\ deletes = {}
  /\ hkPc = "idle" /\ hkTodo = {} /\ hkCur = NoItem

Boot == BootClean \/ BootFill \/ BootTrim
Cleaning(t) == Mark(t) \/ SpawnDelete(t) \/ SpawnEnd(t) \/ SpawnReturn(t)
Allocating(t) ==
  \/ AllocLock(t) \/ AllocList(t) \/ AllocPick(t) \/ AllocDiscard(t) \/ AllocNone(t)
  \/ AllocTake(t) \/ AllocUnbind(t) \/ AllocBind(t) \/ AllocEdge(t) \/ AllocDone(t)
  \/ AllocAdd(t) \/ AllocDeployed(t) \/ AllocCount(t) \/ AllocRefill(t) \/ AllocLost(t)
Collecting(t) ==
  \/ FreeLock(t) \/ FreeUnbind(t) \/ FreeAdd(t) \/ FreeDiscard(t) \/ FreeClean(t)
  \/ FreeCollect(t) \/ FreeSurplus(t) \/ FreeUpdate(t) \/ FreeVnics(t) \/ FreePool(t)
Thread(t) == Cleaning(t) \/ Allocating(t) \/ Collecting(t)
DeployStep(rid) ==
  \/ DeployBackend(rid) \/ DeployRecord(rid) \/ DeployVnics(rid)
  \/ DeployDone(rid) \/ DeployGroups(rid) \/ DeployUndo(rid)
Worker == \/ \E b \in Backups : DeployStart(b)
          \/ \E rid \in Rids : DeployStep(rid)
          \/ \E d \in deletes : DeleteDb(d) \/ DeleteBackend(d)
Housekeeper == HkRead \/ HkPick \/ HkEnd \/ HkUpdate \/ HkActivate \/ HkMark \/ HkPurge \/ HkDestroy
Environment == Crash \/ \E b \in Backups : Expire(b)

Next == \/ Boot
        \/ \E t \in Threads : Thread(t)
        \/ \E t \in Threads, r \in Routers : StartAlloc(t, r) \/ StartFree(t, r)
        \/ Worker \/ Housekeeper \/ Environment

Spec == Init /\ [][Next]_vars

-----------------------------------------------------------------------------
(* Correctness                                                             *)

Labels == {"idle", "mark", "spawn", "bClean", "bCount", "aLock", "aList", "aPick", "aTake",
           "aUnbind", "aBind", "aEdge", "aDone", "aAdd", "aDeploy", "aCount", "aRefill"}
          \cup FreeLabels

\* Every variable keeps to its type.
TypeOK ==
  /\ binding \in [Rids -> Row]
  /\ undated \subseteq Rids /\ late \subseteq Rids
  /\ vnics \subseteq Edges /\ backend \subseteq Edges
  /\ poolLock \in Threads \cup {NoThread}
  /\ edgeLock \in [Edges -> Threads \cup {NoThread, Hk}]
  /\ pc \in [Threads -> Labels]
  /\ rtr \in [Threads -> Routers \cup {NoRid}]
  /\ bak \in [Threads -> Backups \cup {NoRid}]
  /\ eid \in [Threads -> Edges \cup {NoEdge}]
  /\ cand \in [Threads -> SUBSET Item] /\ todo \in [Threads -> SUBSET Item]
  /\ ret \in [Threads -> {"idle", "bCount", "bEnd", "aList", "aPick", "fCount", "fEnd"}]
  /\ short \in [Threads -> Nat]
  /\ deploy \in [Rids -> [stage : Stages, edge : Edges \cup {NoEdge}]]
  /\ deletes \subseteq [rid : Backups, edge : Edges \cup {NoEdge}, stage : {"db", "backend"}]
  /\ hkPc \in {"idle", "pick", "update", "activate", "purge", "erase", "destroy"}
  /\ hkTodo \subseteq Item
  /\ hkCur \in Item \cup {NoItem}

\* No edge serves two owners: two rows never name the same edge, whatever the
\* order of allocations, collections, repairs and restarts.
EdgeExclusive ==
  \A r1, r2 \in Rids :
    r1 # r2 /\ binding[r1].edge # NoEdge => binding[r1].edge # binding[r2].edge

\* "in case of other threads select the same router binding": two allocations
\* never hold the same row of the pool.
SelectionExclusive ==
  \A t, u \in Threads :
    t # u /\ pc[t] \in {"aTake", "aUnbind"} /\ pc[u] \in {"aTake", "aUnbind"} => bak[t] # bak[u]

\* No deletion in progress, of a worker or of the housekeeper, aims at an edge
\* that a router owns.
NoDeleteOfRouterEdge ==
  \A r \in Routers :
    binding[r].edge # NoEdge =>
      /\ \A d \in deletes : d.edge # binding[r].edge
      /\ hkPc \in {"purge", "erase", "destroy"} => hkCur.edge # binding[r].edge

\* A row that is ACTIVE, of a router or of the pool, has an edge at the backend
\* and the preallocated vnic rows of that edge.
ActiveIsUsable ==
  \A rid \in Rids :
    binding[rid].status = "ACTIVE" =>
      binding[rid].edge \in vnics /\ binding[rid].edge \in backend

\* An edge at the backend is known to a row or to a step in progress, unless the
\* backend refused to delete it: no step loses the id of an edge.
Owned(e) ==
  \/ \E rid \in Rids : binding[rid].edge = e \/ deploy[rid].edge = e
  \/ \E t \in Threads : eid[t] = e /\ pc[t] \in {"aBind", "fAdd"}
  \/ \E d \in deletes : d.edge = e
  \/ hkPc = "destroy" /\ hkCur.edge = e
NoLeakedEdge == \A e \in backend : Owned(e)

\* A row sent to deletion is never used again.
NoResurrection ==
  [][\A rid \in Rids : binding[rid].status = "PENDING_DELETE"
                        => binding'[rid].status \in {"PENDING_DELETE", "NONE"}]_vars

\* The pool outgrows its maximum only by what the refills of the other threads, which
\* count and add outside the lock, still add, and by the one edge that is being collected.
PoolBounded ==
  LET refilled == MinPooled * (Cardinality(Threads) - 1)
  IN  \/ Cardinality(PoolRids) <= MaxPooled + 1
      \/ Cardinality(PoolRids) <= MaxPooled + refilled
      \/ Cardinality(PoolRids) <= MinPooled + refilled + 1

-----------------------------------------------------------------------------
(* Liveness.  Green threads that can run do run, calls to the backend end  *)
(* (they time out), and the administrator keeps running the housekeeper.   *)
Fairness ==
  /\ WF_vars(Boot)
  /\ \A t \in Threads : WF_vars(Thread(t))
  /\ \A b \in Backups : WF_vars(DeployStart(b))
  /\ \A rid \in Rids : WF_vars(DeployStep(rid))
  /\ WF_vars(\E d \in deletes : DeleteDb(d) \/ DeleteBackend(d))
  /\ WF_vars(Housekeeper)
FairSpec == Spec /\ Fairness

\* The pool lock is always released, although its holder waits for the backend and
\* for free workers while it holds it.
LockReleased == \A t \in Threads : poolLock = t ~> poolLock # t

\* A row sent to deletion disappears (as long as the server does not restart).
DeletionEnds ==
  \A b \in Backups : binding[b].status = "PENDING_DELETE" ~> binding[b].status # "PENDING_DELETE"
=============================================================================
