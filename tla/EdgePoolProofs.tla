--------------------------- MODULE EdgePoolProofs ---------------------------
(***************************************************************************)
(* Proofs about EdgePool: for every number of threads, routers, backup     *)
(* rows and edges, with restarts, expired pending states and routers       *)
(* deleted while they are created, no edge ever has two owners, as long as *)
(* no edge host groups are configured.                                     *)
(*                                                                         *)
(* The inductive invariant IInv comes first, then what the operations on   *)
(* the tables and threads do, then two frames that carry IInv over a step  *)
(* that gives nobody a new row or edge, then one lemma per action.         *)
(***************************************************************************)
EXTENDS EdgePool, FiniteSetTheorems, TLAPS

\* The labels at which a thread holds the pool lock.
InSection(t) ==
  \/ pc[t] \in {"aList", "aPick", "aTake"}
  \/ pc[t] \in FreeLabels \ {"fLock"}
  \/ pc[t] \in {"mark", "spawn"} /\ ret[t] \in {"aList", "aPick", "fCount", "fEnd"}
Section == \A t \in Threads : InSection(t) => poolLock = t

\* The locals a label relies on are set.
Collected(t) == \/ pc[t] \in {"fCheck", "fCount", "fUpdate", "fActive", "fError", "fPool"}
                \/ pc[t] \in {"mark", "spawn"} /\ ret[t] \in {"fCount", "fEnd"}
Selected(t) == pc[t] \in {"aTake", "aUnbind"}
Choosing(t) == pc[t] = "aPick" \/ (pc[t] = "spawn" /\ ret[t] = "aPick")
Shape ==
  /\ \A t \in Threads :
       /\ pc[t] \in {"aLock", "aList", "aPick", "aTake", "aUnbind", "aBind", "aEdge", "aDone",
                     "aAdd", "aDeploy", "fLock", "fUnbind"} => rtr[t] \in Routers
       /\ pc[t] = "spawn" /\ ret[t] = "aPick" => rtr[t] \in Routers
       /\ pc[t] = "mark" /\ ret[t] = "aList" => rtr[t] \in Routers
       /\ pc[t] = "spawn" /\ ret[t] = "aList" => rtr[t] \in Routers
       /\ Collected(t) \/ Selected(t) => bak[t] \in Backups
       /\ pc[t] \in {"aTake", "aUnbind", "aBind", "aEdge", "aDone",
                     "fCount", "fUpdate", "fActive", "fError", "fPool"} => eid[t] \in Edges
       /\ pc[t] \in {"mark", "spawn"} /\ ret[t] = "fCount" => eid[t] \in Edges
       /\ pc[t] \in {"mark", "spawn"} => ret[t] # "idle"
       /\ pc[t] = "mark" => ret[t] \in {"bCount", "aList", "fCount"}
       /\ pc[t] \in {"fUnbind", "fAdd", "fCheck"} => ret[t] \in {"fCount", "fEnd"}
  /\ \A rid \in Rids : deploy[rid].stage \in {"record", "vnics"} => deploy[rid].edge \in Edges
  /\ hkPc \in {"update", "activate", "purge", "erase", "destroy"} =>
       hkCur \in Item /\ hkCur.edge \in Edges

\* A backup row that is ACTIVE or in ERROR has no deployment in progress.
Settled == \A b \in Backups : binding[b].status \in {"ACTIVE", "ERROR"} => deploy[b].stage = "none"

\* The rows the housekeeper still has to repair.
HkBusy == hkPc \in {"update", "activate", "purge", "erase", "destroy"}
HkRids == {x.rid : x \in hkTodo} \cup (IF HkBusy THEN {hkCur.rid} ELSE {})
HkDistinct ==
  /\ \A x, y \in hkTodo : x.rid = y.rid => x = y
  /\ HkBusy => \A x \in hkTodo : x.rid # hkCur.rid
HkQuiet ==
  /\ \A b \in HkRids : binding[b].status # "ACTIVE" /\ deploy[b].stage = "none"
  /\ HkDistinct

\* A row that is being collected is nobody else's.
CollectedQuiet ==
  \A t \in Threads : Collected(t) =>
    /\ deploy[bak[t]].stage = "none" /\ bak[t] \notin HkRids
    /\ \A u \in Threads : Selected(u) => bak[u] # bak[t]

\* The rows a thread chooses from, and the one it has selected.
ChoosingQuiet ==
  \A t \in Threads : Choosing(t) =>
    \A x \in cand[t] :
      /\ deploy[x.rid].stage = "none" /\ x.rid \notin HkRids
      /\ binding[x.rid].status # "ERROR"
      /\ \A u \in Threads : Selected(u) => bak[u] # x.rid
SelectedQuiet ==
  \A t \in Threads : Selected(t) =>
    /\ deploy[bak[t]].stage = "none" /\ bak[t] \notin HkRids
    /\ binding[bak[t]].status # "ERROR"
    /\ pc[t] = "aUnbind" => binding[bak[t]].status # "ACTIVE"

\* The edge a thread carries between two transactions.
Carries(t, e) ==
  eid[t] = e /\ pc[t] \in {"aTake", "aUnbind", "aBind", "fUnbind", "fAdd"}
Carried ==
  \A t \in Threads : \A e \in Edges : Carries(t, e) =>
    /\ \A u \in Threads : Carries(u, e) => u = t
    /\ \A rid \in Rids : deploy[rid].stage = "record" => deploy[rid].edge # e
    /\ \A rid \in Rids : binding[rid].edge = e =>
         \/ Selected(t) /\ rid = bak[t]
         \/ pc[t] = "fUnbind" /\ rid = rtr[t]
\* The edges a thread chooses from, and those being deployed.
Offered ==
  \A t \in Threads : Choosing(t) => \A x \in cand[t] : x.edge \in Edges =>
    /\ \A u \in Threads : ~Carries(u, x.edge)
    /\ \A rid \in Rids : deploy[rid].stage = "record" => deploy[rid].edge # x.edge
    /\ \A rid \in Rids : binding[rid].edge = x.edge => rid = x.rid
Recorded ==
  \A r1 \in Rids : deploy[r1].stage = "record" =>
    /\ \A rid \in Rids : binding[rid].edge # deploy[r1].edge
    /\ \A r2 \in Rids : r2 # r1 /\ deploy[r2].stage = "record" => deploy[r2].edge # deploy[r1].edge

\* The inductive invariant.  It needs the row of a backup to be ACTIVE only once its
\* deployment is over, which edge host groups break (see complete_edge_creation).
IInv ==
  /\ TypeOK /\ Shape /\ Section
  /\ Settled /\ HkQuiet /\ CollectedQuiet /\ ChoosingQuiet /\ SelectedQuiet
  /\ Carried /\ Offered /\ Recorded
  /\ EdgeExclusive /\ SelectionExclusive

-----------------------------------------------------------------------------
(* What the operations on the tables and on the threads do.                *)

\* update_nsxv_router_binding changes the status of the rows found and no edge_id.
LEMMA SetStatusEffect ==
  ASSUME binding \in [Rids -> Row], undated \subseteq Rids, late \subseteq Rids,
         NEW rids, NEW status \in Pending \cup {"ACTIVE", "ERROR"}, SetStatus(rids, status)
  PROVE  /\ binding' \in [Rids -> Row] /\ undated' \subseteq Rids /\ late' \subseteq Rids
         /\ \A rid \in Rids :
              /\ binding'[rid].edge = binding[rid].edge
              /\ rid \in rids /\ Exists(rid) => binding'[rid].status = status
              /\ ~(rid \in rids /\ Exists(rid)) => binding'[rid].status = binding[rid].status
  BY DEF SetStatus, Exists, Row, Pending

\* A deployment that ends leaves the others alone and keeps no edge it did not have.
LEMMA EndDeployEffect ==
  ASSUME deploy \in [Rids -> [stage : Stages, edge : Edges \cup {NoEdge}]],
         NEW rid \in Rids, NEW result \in {"ok", "raised"}, EndDeploy(rid, result)
  PROVE  /\ deploy' \in [Rids -> [stage : Stages, edge : Edges \cup {NoEdge}]]
         /\ \A r \in Rids : r # rid => deploy'[r] = deploy[r]
         /\ deploy'[rid].stage \in {"none", result}
         /\ rid \in Backups => deploy'[rid].stage = "none"
  BY DEF EndDeploy, Stages, NoDeploy

\* A deployment moves to its next stage.
LEMMA StageEffect ==
  ASSUME deploy \in [Rids -> [stage : Stages, edge : Edges \cup {NoEdge}]],
         NEW rid \in Rids, NEW stage \in Stages, NEW e \in Edges \cup {NoEdge}, Stage(rid, stage, e)
  PROVE  /\ deploy' \in [Rids -> [stage : Stages, edge : Edges \cup {NoEdge}]]
         /\ \A r \in Rids : r # rid => deploy'[r] = deploy[r]
         /\ deploy'[rid].stage = stage /\ deploy'[rid].edge = e
  BY DEF Stage, Stages

\* A thread that has finished is idle and holds no row, edge or list.
LEMMA FinishEffect ==
  ASSUME TypeOK, NEW t \in Threads, Finish(t)
  PROVE  /\ pc' \in [Threads -> Labels]
         /\ rtr' \in [Threads -> Routers \cup {NoRid}]
         /\ bak' \in [Threads -> Backups \cup {NoRid}]
         /\ eid' \in [Threads -> Edges \cup {NoEdge}]
         /\ cand' \in [Threads -> SUBSET Item] /\ todo' \in [Threads -> SUBSET Item]
         /\ ret' \in [Threads -> {"idle", "bCount", "bEnd", "aList", "aPick", "fCount", "fEnd"}]
         /\ short' \in [Threads -> Nat]
         /\ pc'[t] = "idle" /\ rtr'[t] = NoRid /\ bak'[t] = NoRid /\ eid'[t] = NoEdge
         /\ cand'[t] = {} /\ todo'[t] = {}
         /\ \A u \in Threads : u # t =>
              /\ pc'[u] = pc[u] /\ rtr'[u] = rtr[u] /\ bak'[u] = bak[u] /\ eid'[u] = eid[u]
              /\ cand'[u] = cand[u] /\ todo'[u] = todo[u] /\ ret'[u] = ret[u]
  BY DEF TypeOK, Finish, Goto, Labels, FreeLabels, Item

-----------------------------------------------------------------------------
(* What an ordinary step keeps.                                            *)

\* No row takes part in something new: none is deployed but those in deployment and
\* fresh ones, none becomes ACTIVE or ERROR, and no thread or job picks one up.
RowsKept ==
  /\ \A b \in Backups :
       /\ deploy'[b].stage # "none" =>
            /\ binding'[b].status \notin {"ACTIVE", "ERROR"}
            /\ deploy[b].stage # "none" \/ b \notin RidsInUse
       /\ binding'[b].status \in {"ACTIVE", "ERROR"} => binding'[b].status = binding[b].status
  /\ HkRids' \subseteq HkRids /\ HkDistinct'
  /\ \A u \in Threads :
       /\ Collected(u)' => Collected(u) /\ bak'[u] = bak[u]
       /\ Choosing(u)' => Choosing(u) /\ cand'[u] \subseteq cand[u]
       /\ Selected(u)' => Selected(u) /\ bak'[u] = bak[u]
       /\ pc'[u] = "aUnbind" => pc[u] = "aUnbind"

\* No edge gets a new owner: rows only lose theirs, no deployment has got a new edge,
\* and no thread picks one up.
EdgesKept ==
  /\ \A rid \in Rids :
       /\ binding'[rid].edge \in {binding[rid].edge, NoEdge}
       /\ deploy'[rid].stage = "record" => deploy'[rid] = deploy[rid]
  /\ \A u \in Threads :
       /\ \A e \in Edges : Carries(u, e)' =>
            /\ Carries(u, e)
            /\ Selected(u) => Selected(u)' /\ bak'[u] = bak[u]
            /\ pc[u] = "fUnbind" => pc'[u] = "fUnbind" /\ rtr'[u] = rtr[u]
       /\ Choosing(u)' => Choosing(u) /\ cand'[u] \subseteq cand[u]

\* A fresh row id is known to no thread and not to the housekeeper.
LEMMA FreshRow ==
  ASSUME TypeOK, NEW b \in Backups, b \notin RidsInUse
  PROVE  /\ ~Exists(b) /\ deploy[b].stage = "none" /\ b \notin HkRids
         /\ \A t \in Threads : bak[t] # b /\ \A x \in cand[t] : x.rid # b
  <1>1. /\ ~Exists(b) /\ deploy[b].stage = "none"
        /\ b \notin {x.rid : x \in hkTodo} /\ b # hkCur.rid
        /\ \A t \in Threads : bak[t] # b
        /\ b \notin {x.rid : x \in UNION {cand[t] \cup todo[t] : t \in Threads}}
    BY DEF RidsInUse, Rids
  <1>2. ASSUME NEW t \in Threads, NEW x \in cand[t] PROVE x.rid # b
    BY <1>1
  <1> QED  BY <1>1, <1>2 DEF HkRids

\* A fresh edge is named by no row, no deployment and no thread.
LEMMA FreshEdge ==
  ASSUME NEW e \in FreshEdges
  PROVE  /\ e \in Edges /\ e \notin backend
         /\ \A rid \in Rids : binding[rid].edge # e /\ deploy[rid].edge # e
         /\ \A t \in Threads : eid[t] # e /\ \A x \in cand[t] : x.edge # e
  <1>1. /\ e \in Edges /\ e \notin backend /\ e \notin EdgesInUse
    BY DEF FreshEdges
  <1>2. /\ \A rid \in Rids : binding[rid].edge # e /\ deploy[rid].edge # e
        /\ \A t \in Threads : eid[t] # e
        /\ e \notin {x.edge : x \in UNION {cand[t] \cup todo[t] : t \in Threads}}
    BY <1>1 DEF EdgesInUse
  <1>3. ASSUME NEW t \in Threads, NEW x \in cand[t] PROVE x.edge # e
    BY <1>2
  <1> QED  BY <1>1, <1>2, <1>3

\* The rows of the threads and of the housekeeper stay apart in an ordinary step.
LEMMA RowsFrame ==
  ASSUME PoolAssumption, IInv, TypeOK', RowsKept
  PROVE  Settled' /\ HkQuiet' /\ CollectedQuiet' /\ ChoosingQuiet' /\ SelectedQuiet'
         /\ SelectionExclusive'
  <1>1. Settled'
    BY DEF RowsKept, Settled
  <1>2. \A b \in Backups : b \notin RidsInUse =>
          /\ b \notin HkRids
          /\ \A t \in Threads : bak[t] # b /\ \A x \in cand[t] : x.rid # b
    BY FreshRow DEF IInv
  <1>3. HkRids \subseteq Backups
    BY DEF IInv, TypeOK, Shape, HkRids, HkBusy, Item
  <1>4. HkQuiet'
    BY <1>2, <1>3 DEF RowsKept, IInv, HkQuiet
  <1>5. CollectedQuiet'
    BY <1>2 DEF RowsKept, IInv, CollectedQuiet, Shape
  <1>6. ChoosingQuiet'
    <2>1. SUFFICES ASSUME NEW t \in Threads, Choosing(t)', NEW x \in cand'[t]
                   PROVE  /\ deploy'[x.rid].stage = "none" /\ x.rid \notin HkRids'
                          /\ binding'[x.rid].status # "ERROR"
                          /\ \A u \in Threads : Selected(u)' => bak'[u] # x.rid
      BY DEF ChoosingQuiet
    <2>2. Choosing(t) /\ x \in cand[t] /\ x.rid \in Backups
      BY <2>1 DEF RowsKept, IInv, TypeOK, Item
    <2> QED  BY <2>1, <2>2, <1>2 DEF RowsKept, IInv, ChoosingQuiet
  <1>7. SelectedQuiet'
    BY <1>2 DEF RowsKept, IInv, SelectedQuiet, Shape
  <1>8. SelectionExclusive'
    BY DEF RowsKept, IInv, SelectionExclusive, Selected
  <1> QED  BY <1>1, <1>4, <1>5, <1>6, <1>7, <1>8

\* An ordinary step gives no edge to a second owner.
LEMMA EdgesFrame ==
  ASSUME PoolAssumption, IInv, TypeOK', EdgesKept
  PROVE  Carried' /\ Offered' /\ Recorded' /\ EdgeExclusive'
  <1>1. Carried'
    BY DEF EdgesKept, IInv, Carried, PoolAssumption
  <1>2. Offered'
    BY DEF EdgesKept, IInv, Offered, PoolAssumption
  <1>3. Recorded'
    BY DEF EdgesKept, IInv, Recorded, Shape, PoolAssumption
  <1>4. EdgeExclusive'
    BY DEF EdgesKept, IInv, EdgeExclusive
  <1> QED  BY <1>1, <1>2, <1>3, <1>4

-----------------------------------------------------------------------------
(* The initial states.                                                     *)

USE DEF IInv, dbVars, lockVars, locals, jobVars, hkVars, Goto

\* Nothing exists yet and the start-up check is about to run.
LEMMA InitIInv == ASSUME PoolAssumption, Init PROVE IInv
  <1>1. TypeOK
    BY DEF Init, TypeOK, PoolAssumption, Rids, Row, NoRow, NoDeploy, Stages, Labels, NoItem
  <1>2. Shape /\ Section
    BY DEF Init, Shape, Section, InSection, Collected, Selected, FreeLabels, NoDeploy
  <1>3. Settled /\ HkQuiet /\ HkRids = {}
    BY DEF Init, Settled, HkQuiet, HkDistinct, HkRids, HkBusy, Rids, NoRow
  <1>4. CollectedQuiet /\ ChoosingQuiet /\ SelectedQuiet /\ SelectionExclusive
    BY DEF Init, CollectedQuiet, ChoosingQuiet, SelectedQuiet, SelectionExclusive, Collected,
           Choosing, Selected, FreeLabels
  <1>5. Carried /\ Offered /\ Recorded /\ EdgeExclusive
    BY DEF Init, Carried, Offered, Recorded, EdgeExclusive, Carries, Choosing, NoRow, NoDeploy
  <1> QED  BY <1>1, <1>2, <1>3, <1>4, <1>5

\* Nothing changes.
LEMMA StutterKeeps == ASSUME PoolAssumption, IInv, UNCHANGED vars PROVE IInv'
  <1>1. TypeOK'
    BY DEF vars, TypeOK
  <1>2. Shape'
    BY DEF vars, Shape, Collected, Selected
  <1>3. Section'
    BY DEF vars, Section, InSection
  <1>4. RowsKept
    BY DEF vars, RowsKept, Settled, HkQuiet, HkRids, HkBusy, HkDistinct, Collected, Choosing,
           Selected
  <1>5. EdgesKept
    BY DEF vars, EdgesKept, Carries, Choosing, Selected
  <1> QED  BY <1>1, <1>2, <1>3, <1>4, <1>5, RowsFrame, EdgesFrame

-----------------------------------------------------------------------------
(* The start-up check and the clean-up of late rows.                       *)

\* The constructor of EdgeManager reads the late rows without the lock.
LEMMA BootCleanKeeps ==
  ASSUME PoolAssumption, ~HostGroups, IInv, BootClean
  PROVE  IInv'
  <1>1. TypeOK'
    BY DEF TypeOK, Rids, Row, Labels, Item, BootClean, BeginClean, ItemOf, CleanTargets
  <1>2. Shape'
    BY DEF TypeOK, Shape, FreeLabels, Collected, Selected, BootClean, BeginClean
  <1>3. Section'
    BY DEF TypeOK, Section, FreeLabels, InSection, BootClean, BeginClean
  <1>4. RowsKept
    BY DEF TypeOK, Settled, HkQuiet, RowsKept, HkRids, HkBusy, HkDistinct, Collected, Choosing,
        Selected, BootClean, BeginClean
  <1>5. EdgesKept
    BY DEF EdgesKept, Carries, Selected, Choosing, BootClean, BeginClean
  <1> QED  BY <1>1, <1>2, <1>3, <1>4, <1>5, RowsFrame, EdgesFrame

\* The constructor adds the rows the pool lacks.
LEMMA BootFillKeeps ==
  ASSUME PoolAssumption, ~HostGroups, IInv, BootFill
  PROVE  IInv'
  <1>1. TypeOK'
    BY FinishEffect DEF TypeOK, Row, Pending, Stages, BootFill, AddBackups
  <1>2. Shape'
    BY FinishEffect DEF Shape, FreeLabels, Collected, Selected, BootFill, AddBackups
  <1>3. Section'
    BY FinishEffect DEF Section, FreeLabels, InSection, BootFill
  <1>4. RowsKept
    BY FinishEffect DEF Settled, HkQuiet, RowsKept, Rids, HkRids, HkBusy, HkDistinct,
        Collected, Choosing, Selected, BootFill, FreshBackups, AddBackups
  <1>5. EdgesKept
    BY FinishEffect DEF EdgesKept, Carries, Selected, Choosing, BootFill, AddBackups
  <1> QED  BY <1>1, <1>2, <1>3, <1>4, <1>5, RowsFrame, EdgesFrame

\* The constructor sends the surplus of the pool to deletion, whatever its status.
LEMMA BootTrimKeeps ==
  ASSUME PoolAssumption, ~HostGroups, IInv, BootTrim
  PROVE  IInv'
  <1>1. TypeOK'
    BY SetStatusEffect, SMTT(20) DEF TypeOK, BootTrim, PoolRids, ItemOf, Rids, Row, Pending,
        Item, Labels
  <1>2. Shape'
    BY DEF TypeOK, Shape, FreeLabels, Collected, Selected, BootTrim
  <1>3. Section'
    BY DEF TypeOK, Section, FreeLabels, InSection, BootTrim
  <1>4. RowsKept
    BY SetStatusEffect DEF TypeOK, Settled, HkQuiet, RowsKept, Rids, Pending, HkRids, HkBusy,
        HkDistinct, Collected, Choosing, Selected, BootTrim
  <1>5. EdgesKept
    BY SetStatusEffect DEF TypeOK, EdgesKept, Pending, Carries, Selected, Choosing, BootTrim
  <1> QED  BY <1>1, <1>2, <1>3, <1>4, <1>5, RowsFrame, EdgesFrame

\* Rows found late are marked PENDING_DELETE; rows that are gone are skipped.
LEMMA MarkKeeps ==
  ASSUME PoolAssumption, ~HostGroups, IInv, NEW t \in Threads, Mark(t)
  PROVE  IInv'
  <1>1. TypeOK'
    BY SetStatusEffect DEF TypeOK, Pending, Labels, Mark
  <1>2. Shape'
    BY DEF Shape, FreeLabels, Collected, Selected, Mark
  <1>3. Section'
    BY DEF Section, FreeLabels, InSection, Mark
  <1>4. RowsKept
    <2>1. \A r \in Rids : binding'[r].status \in {binding[r].status, "PENDING_DELETE"}
      BY SetStatusEffect DEF Mark, TypeOK, Pending
    <2>2. UNCHANGED <<bak, cand, ret, deploy, hkPc, hkTodo, hkCur>>
      BY DEF Mark
    <2>3. pc[t] = "mark" /\ pc'[t] = "spawn" /\ \A u \in Threads : u # t => pc'[u] = pc[u]
      BY DEF Mark, TypeOK
    <2>4. HkRids' = HkRids /\ HkDistinct'
      BY <2>2 DEF HkQuiet, HkDistinct, HkRids, HkBusy
    <2>5. Choosing(t)' => Choosing(t)
      BY <2>2, <2>3 DEF Shape, Choosing
    <2> QED  BY <2>1, <2>2, <2>3, <2>4, <2>5 DEF RowsKept, Settled, Collected, Choosing,
        Selected, Rids
  <1>5. EdgesKept
    BY SetStatusEffect DEF TypeOK, Shape, EdgesKept, Rids, Pending, Selected, Carries,
        Choosing, Mark
  <1> QED  BY <1>1, <1>2, <1>3, <1>4, <1>5, RowsFrame, EdgesFrame

\* A deletion is handed to a worker, which is told the row and the edge.
LEMMA SpawnDeleteKeeps ==
  ASSUME PoolAssumption, ~HostGroups, IInv, NEW t \in Threads, SpawnDelete(t)
  PROVE  IInv'
  <1>1. TypeOK'
    BY DEF TypeOK, Item, SpawnDelete, Spawn
  <1>2. Shape'
    BY DEF Shape, Collected, Selected, SpawnDelete
  <1>3. Section'
    BY DEF Section, InSection, SpawnDelete
  <1>4. RowsKept
    BY DEF Settled, HkQuiet, RowsKept, HkRids, HkBusy, HkDistinct, Collected, Choosing,
        Selected, SpawnDelete
  <1>5. EdgesKept
    BY DEF EdgesKept, Carries, Selected, Choosing, SpawnDelete
  <1> QED  BY <1>1, <1>2, <1>3, <1>4, <1>5, RowsFrame, EdgesFrame

\* The clean-up is over and its caller goes on.
LEMMA SpawnEndKeeps ==
  ASSUME PoolAssumption, ~HostGroups, IInv, NEW t \in Threads, SpawnEnd(t)
  PROVE  IInv'
  <1>1. TypeOK'
    BY DEF TypeOK, Labels, FreeLabels, SpawnEnd
  <1>2. Shape'
    <2>1. /\ pc[t] = "spawn" /\ ret[t] \in {"bCount", "aList", "aPick", "fCount"}
          /\ pc'[t] = ret[t] /\ \A u \in Threads : u # t => pc'[u] = pc[u]
      BY DEF TypeOK, Shape, SpawnEnd
    <2>2. UNCHANGED <<deploy, hkPc, hkCur, rtr, bak, eid, ret>>
      BY DEF SpawnEnd
    <2>3. ret[t] \in {"aList", "aPick", "fCount"} => rtr[t] \in Routers \/ ret[t] = "fCount"
      BY <2>1 DEF Shape
    <2> QED  BY <2>1, <2>2, <2>3 DEF Shape, FreeLabels, Collected, Selected
  <1>3. Section'
    BY DEF TypeOK, Section, FreeLabels, InSection, SpawnEnd
  <1>4. RowsKept
    BY DEF TypeOK, Settled, HkQuiet, RowsKept, HkRids, HkBusy, HkDistinct, Collected, Choosing,
        Selected, SpawnEnd
  <1>5. EdgesKept
    BY DEF TypeOK, EdgesKept, Carries, Selected, Choosing, SpawnEnd
  <1> QED  BY <1>1, <1>2, <1>3, <1>4, <1>5, RowsFrame, EdgesFrame

\* The last deletion of a collection or of the start-up check is handed over.
LEMMA SpawnReturnKeeps ==
  ASSUME PoolAssumption, ~HostGroups, IInv, NEW t \in Threads, SpawnReturn(t)
  PROVE  IInv'
  <1>1. TypeOK'
    BY FinishEffect DEF TypeOK, SpawnReturn, ReleasePool
  <1>2. Shape'
    BY FinishEffect DEF Shape, FreeLabels, Collected, Selected, SpawnReturn
  <1>3. Section'
    BY FinishEffect DEF Section, FreeLabels, InSection, SpawnReturn
  <1>4. RowsKept
    BY FinishEffect DEF Settled, HkQuiet, RowsKept, HkRids, HkBusy, HkDistinct, Collected,
        Choosing, Selected, SpawnReturn
  <1>5. EdgesKept
    BY FinishEffect DEF EdgesKept, Carries, Selected, Choosing, SpawnReturn
  <1> QED  BY <1>1, <1>2, <1>3, <1>4, <1>5, RowsFrame, EdgesFrame

-----------------------------------------------------------------------------
(* The allocation of an edge.                                              *)

\* A router without an edge asks for one.
LEMMA StartAllocKeeps ==
  ASSUME PoolAssumption, ~HostGroups, IInv, NEW t \in Threads, NEW r \in Routers, StartAlloc(t, r)
  PROVE  IInv'
  <1>1. TypeOK'
    BY DEF TypeOK, Labels, StartAlloc
  <1>2. Shape'
    BY DEF TypeOK, Shape, Collected, Selected, StartAlloc
  <1>3. Section'
    BY DEF Section, FreeLabels, InSection, StartAlloc
  <1>4. RowsKept
    BY DEF Settled, HkQuiet, RowsKept, HkRids, HkBusy, HkDistinct, Collected, Choosing,
        Selected, StartAlloc
  <1>5. EdgesKept
    BY DEF EdgesKept, Carries, Selected, Choosing, StartAlloc
  <1> QED  BY <1>1, <1>2, <1>3, <1>4, <1>5, RowsFrame, EdgesFrame

\* _allocate_edge_appliance takes the pool lock and reads the rows to clean up.
LEMMA AllocLockKeeps ==
  ASSUME PoolAssumption, ~HostGroups, IInv, NEW t \in Threads, AllocLock(t)
  PROVE  IInv'
  <1>1. TypeOK'
    BY DEF TypeOK, Rids, Row, Labels, Item, AllocLock, BeginClean, ItemOf, CleanTargets
  <1>2. Shape'
    BY DEF TypeOK, Shape, Collected, Selected, AllocLock, BeginClean
  <1>3. Section'
    BY DEF Section, InSection, AllocLock, BeginClean
  <1>4. RowsKept
    BY DEF TypeOK, Settled, HkQuiet, RowsKept, HkRids, HkBusy, HkDistinct, Collected, Choosing,
        Selected, AllocLock, BeginClean
  <1>5. EdgesKept
    BY DEF EdgesKept, Carries, Selected, Choosing, AllocLock, BeginClean
  <1> QED  BY <1>1, <1>2, <1>3, <1>4, <1>5, RowsFrame, EdgesFrame

\* The ACTIVE rows of the pool are listed: none is being deployed, collected or repaired.
LEMMA AllocListKeeps ==
  ASSUME PoolAssumption, ~HostGroups, IInv, NEW t \in Threads, AllocList(t)
  PROVE  IInv'
  <1>1. TypeOK'
    BY DEF TypeOK, Rids, Row, Labels, Item, AllocList, ItemOf
  <1>2. Shape'
    BY DEF Shape, Collected, Selected, AllocList
  <1>3. Section'
    BY DEF Section, InSection, AllocList
  <1>4. Settled'
    BY DEF Settled, AllocList
  <1>5. HkQuiet'
    BY DEF HkQuiet, HkRids, HkBusy, HkDistinct, AllocList
  <1>6. CollectedQuiet'
    BY DEF CollectedQuiet, Collected, HkRids, HkBusy, Selected, AllocList
  <1>7. ChoosingQuiet'
    BY DEF TypeOK, Section, Settled, HkQuiet, ChoosingQuiet, SelectedQuiet, InSection, HkRids,
        HkBusy, Choosing, Selected, AllocList, ItemOf
  <1>8. SelectedQuiet'
    BY DEF SelectedQuiet, Selected, HkRids, HkBusy, AllocList
  <1>9. SelectionExclusive'
    BY DEF SelectionExclusive, AllocList
  <1>10. Carried'
    BY DEF Carried, Carries, Selected, AllocList
  <1>11. Offered'
    BY DEF TypeOK, Section, SelectedQuiet, Carried, Offered, Recorded, EdgeExclusive, Rids,
        Labels, InSection, Selected, Carries, Choosing, AllocList, ItemOf
  <1>12. Recorded'
    BY DEF Recorded, AllocList
  <1>13. EdgeExclusive'
    BY DEF EdgeExclusive, AllocList
  <1> QED  BY <1>1, <1>2, <1>3, <1>4, <1>5, <1>6, <1>7, <1>8, <1>9, <1>10, <1>11, <1>12, <1>13

\* random.choice selects a row that no thread holds, and its edge.
LEMMA AllocPickKeeps ==
  ASSUME PoolAssumption, ~HostGroups, IInv, NEW t \in Threads, AllocPick(t)
  PROVE  IInv'
  <1>1. TypeOK'
    BY DEF TypeOK, Labels, Item, AllocPick
  <1>2. Shape'
    BY DEF TypeOK, Shape, Item, Collected, Selected, AllocPick
  <1>3. Section'
    BY DEF Section, InSection, AllocPick
  <1>4. Settled'
    BY DEF Settled, AllocPick
  <1>5. HkQuiet'
    BY DEF HkQuiet, HkRids, HkBusy, HkDistinct, AllocPick
  <1>6. CollectedQuiet'
    BY DEF Section, CollectedQuiet, InSection, FreeLabels, Collected, AllocPick
  <1>7. ChoosingQuiet'
    BY DEF Section, ChoosingQuiet, InSection, Choosing, HkRids, HkBusy, Selected, AllocPick
  <1>8. SelectedQuiet'
    BY SMTT(20) DEF TypeOK, ChoosingQuiet, SelectedQuiet, Choosing, Selected, HkRids, HkBusy,
        AllocPick
  <1>9. SelectionExclusive'
    BY DEF TypeOK, ChoosingQuiet, SelectionExclusive, Choosing, Selected, AllocPick
  <1>10. Carried'
    BY DEF TypeOK, Carried, Offered, Carries, Selected, Choosing, AllocPick
  <1>11. Offered'
    BY DEF Section, Offered, InSection, Choosing, Carries, AllocPick
  <1>12. Recorded'
    BY DEF Recorded, AllocPick
  <1>13. EdgeExclusive'
    BY DEF EdgeExclusive, AllocPick
  <1> QED  BY <1>1, <1>2, <1>3, <1>4, <1>5, <1>6, <1>7, <1>8, <1>9, <1>10, <1>11, <1>12, <1>13

\* A row whose edge does not answer is sent to deletion.
LEMMA AllocDiscardKeeps ==
  ASSUME PoolAssumption, ~HostGroups, IInv, NEW t \in Threads, AllocDiscard(t)
  PROVE  IInv'
  <1>1. TypeOK'
    BY SetStatusEffect DEF TypeOK, Pending, Labels, AllocDiscard, Discard
  <1>2. Shape'
    BY DEF TypeOK, Shape, Collected, Selected, AllocDiscard, Discard
  <1>3. Section'
    BY DEF Section, InSection, AllocDiscard, Discard
  <1>4. RowsKept
    BY SetStatusEffect DEF TypeOK, Settled, HkQuiet, RowsKept, Rids, Pending, HkRids, HkBusy,
        HkDistinct, Collected, Choosing, Selected, AllocDiscard, Discard
  <1>5. EdgesKept
    BY SetStatusEffect DEF TypeOK, EdgesKept, Pending, Carries, Selected, Choosing,
        AllocDiscard, Discard
  <1> QED  BY <1>1, <1>2, <1>3, <1>4, <1>5, RowsFrame, EdgesFrame

\* The pool is empty and its lock is given up.
LEMMA AllocNoneKeeps ==
  ASSUME PoolAssumption, ~HostGroups, IInv, NEW t \in Threads, AllocNone(t)
  PROVE  IInv'
  <1>1. TypeOK'
    BY DEF TypeOK, Labels, AllocNone, ReleasePool
  <1>2. Shape'
    BY DEF Shape, Collected, Selected, AllocNone
  <1>3. Section'
    BY DEF TypeOK, Section, FreeLabels, InSection, AllocNone
  <1>4. RowsKept
    BY DEF Settled, HkQuiet, RowsKept, HkRids, HkBusy, HkDistinct, Collected, Choosing,
        Selected, AllocNone
  <1>5. EdgesKept
    BY DEF EdgesKept, Carries, Selected, Choosing, AllocNone
  <1> QED  BY <1>1, <1>2, <1>3, <1>4, <1>5, RowsFrame, EdgesFrame

\* PENDING_UPDATE takes the selected row out of the pool before the lock is released.
LEMMA AllocTakeKeeps ==
  ASSUME PoolAssumption, ~HostGroups, IInv, NEW t \in Threads, AllocTake(t)
  PROVE  IInv'
  <1>1. TypeOK'
    BY SetStatusEffect DEF TypeOK, Pending, Labels, AllocTake, ReleasePool
  <1>2. Shape'
    BY DEF Shape, Collected, Selected, AllocTake
  <1>3. Section'
    BY DEF TypeOK, Section, FreeLabels, InSection, AllocTake
  <1>4. Settled'
    BY SetStatusEffect DEF TypeOK, Settled, Rids, Pending, AllocTake
  <1>5. HkQuiet'
    BY DEF TypeOK, Shape, HkQuiet, Rids, Item, HkRids, HkBusy, HkDistinct, AllocTake, SetStatus
  <1>6. CollectedQuiet'
    BY DEF CollectedQuiet, Collected, HkRids, HkBusy, Selected, AllocTake
  <1>7. ChoosingQuiet'
    BY SMTT(30), SetStatusEffect DEF TypeOK, ChoosingQuiet, Section, InSection, FreeLabels,
        Rids, Item, Pending, Choosing, HkRids, HkBusy, Selected, AllocTake
  <1>8. SelectedQuiet'
    <2>1. /\ \A r \in Rids : binding'[r].status \in {binding[r].status, "PENDING_UPDATE"}
          /\ binding'[bak[t]].status = "PENDING_UPDATE"
      BY SetStatusEffect DEF AllocTake, TypeOK, Shape, Selected, Rids, Pending
    <2>2. /\ pc[t] = "aTake" /\ \A u \in Threads : u # t => pc'[u] = pc[u]
          /\ UNCHANGED <<bak, deploy, hkPc, hkTodo, hkCur>>
      BY DEF AllocTake, TypeOK
    <2>3. HkRids' = HkRids
      BY <2>2 DEF HkRids, HkBusy
    <2>4. \A u \in Threads : Selected(u)' => Selected(u) /\ bak[u] \in Rids
      BY <2>2 DEF Shape, Selected, Rids
    <2> QED  BY <2>1, <2>2, <2>3, <2>4 DEF SelectedQuiet
  <1>9. SelectionExclusive'
    BY DEF SelectionExclusive, AllocTake
  <1>10. EdgesKept
    BY SetStatusEffect DEF TypeOK, EdgesKept, Pending, Carries, Selected, Choosing, AllocTake
  <1> QED  BY <1>1, <1>2, <1>3, <1>4, <1>5, <1>6, <1>7, <1>8, <1>9, <1>10, EdgesFrame

\* The row of the pool is deleted and the thread alone knows the edge.
LEMMA AllocUnbindKeeps ==
  ASSUME PoolAssumption, ~HostGroups, IInv, NEW t \in Threads, AllocUnbind(t)
  PROVE  IInv'
  <1>1. TypeOK'
    BY DEF TypeOK, Shape, Rids, Row, Labels, Selected, AllocUnbind, DeleteRow, NoRow
  <1>2. Shape'
    BY DEF Shape, Collected, Selected, AllocUnbind
  <1>3. Section'
    BY DEF Section, FreeLabels, InSection, AllocUnbind
  <1>4. RowsKept
    BY DEF Settled, HkQuiet, RowsKept, HkRids, HkBusy, HkDistinct, Collected, Choosing,
        Selected, AllocUnbind, DeleteRow, NoRow
  <1>5. Carried'
    BY DEF TypeOK, Carried, Carries, Selected, AllocUnbind, DeleteRow, NoRow
  <1>6. Offered'
    BY DEF Offered, Choosing, Carries, AllocUnbind, DeleteRow, NoRow
  <1>7. Recorded'
    BY DEF Shape, Recorded, AllocUnbind, DeleteRow, NoRow
  <1>8. EdgeExclusive'
    BY DEF EdgeExclusive, AllocUnbind, DeleteRow, NoRow
  <1> QED  BY <1>1, <1>2, <1>3, <1>4, <1>5, <1>6, <1>7, <1>8, RowsFrame

\* The router gets the edge no row names.
LEMMA AllocBindKeeps ==
  ASSUME PoolAssumption, ~HostGroups, IInv, NEW t \in Threads, AllocBind(t)
  PROVE  IInv'
  <1>1. TypeOK'
    BY DEF TypeOK, Shape, Rids, Row, Pending, Labels, AllocBind, AddRow
  <1>2. Shape'
    BY DEF Shape, Collected, Selected, AllocBind
  <1>3. Section'
    BY DEF Section, FreeLabels, InSection, AllocBind
  <1>4. RowsKept
    BY DEF Settled, HkQuiet, RowsKept, HkRids, HkBusy, HkDistinct, Collected, Choosing,
        Selected, AllocBind, AddRow
  <1>5. Carried'
    BY DEF TypeOK, Carried, Carries, Selected, AllocBind, AddRow
  <1>6. Offered'
    BY DEF Offered, Choosing, Carries, AllocBind, AddRow
  <1>7. Recorded'
    BY DEF Shape, Carried, Recorded, Carries, AllocBind, AddRow
  <1>8. EdgeExclusive'
    BY DEF Shape, Carried, EdgeExclusive, Selected, Carries, AllocBind, AddRow
  <1> QED  BY <1>1, <1>2, <1>3, <1>4, <1>5, <1>6, <1>7, <1>8, RowsFrame

\* The lock named after the edge is taken.
LEMMA AllocEdgeKeeps ==
  ASSUME PoolAssumption, ~HostGroups, IInv, NEW t \in Threads, AllocEdge(t)
  PROVE  IInv'
  <1>1. TypeOK'
    BY DEF TypeOK, Shape, Labels, AllocEdge
  <1>2. Shape'
    BY DEF Shape, Collected, Selected, AllocEdge
  <1>3. Section'
    BY DEF Section, FreeLabels, InSection, AllocEdge
  <1>4. RowsKept
    BY DEF Settled, HkQuiet, RowsKept, HkRids, HkBusy, HkDistinct, Collected, Choosing,
        Selected, AllocEdge
  <1>5. EdgesKept
    BY DEF EdgesKept, Carries, Selected, Choosing, AllocEdge
  <1> QED  BY <1>1, <1>2, <1>3, <1>4, <1>5, RowsFrame, EdgesFrame

\* complete_edge_creation marks the row of the router.
LEMMA AllocDoneKeeps ==
  ASSUME PoolAssumption, ~HostGroups, IInv, NEW t \in Threads, AllocDone(t)
  PROVE  IInv'
  <1>1. TypeOK'
    <2>1. /\ binding' \in [Rids -> Row] /\ undated' \subseteq Rids /\ late' \subseteq Rids
      BY SetStatusEffect DEF AllocDone, TypeOK, Pending
    <2>2. /\ pc' \in [Threads -> Labels]
          /\ rtr' \in [Threads -> Routers \cup {NoRid}]
          /\ bak' \in [Threads -> Backups \cup {NoRid}]
          /\ eid' \in [Threads -> Edges \cup {NoEdge}]
          /\ cand' \in [Threads -> SUBSET Item] /\ todo' \in [Threads -> SUBSET Item]
          /\ ret' \in [Threads -> {"idle", "bCount", "bEnd", "aList", "aPick", "fCount", "fEnd"}]
          /\ short' \in [Threads -> Nat]
      BY FinishEffect DEF AllocDone, TypeOK, Labels
    <2>3. edgeLock' \in [Edges -> Threads \cup {NoThread, Hk}] /\ poolLock' = poolLock
      BY DEF AllocDone, ReleaseEdge, TypeOK
    <2> QED  BY <2>1, <2>2, <2>3 DEF TypeOK, AllocDone
  <1>2. Shape'
    BY SetStatusEffect, FinishEffect DEF TypeOK, Shape, FreeLabels, Collected, Selected,
        AllocDone
  <1>3. Section'
    BY DEF TypeOK, Section, Rids, Labels, FreeLabels, InSection, AllocDone, Finish, ReleaseEdge
  <1>4. RowsKept
    BY SMTT(90), SetStatusEffect, FinishEffect DEF TypeOK, Settled, HkQuiet, RowsKept, Rids, HkRids,
        HkBusy, HkDistinct, Collected, Choosing, Selected, AllocDone
  <1>5. EdgesKept
    BY SetStatusEffect, FinishEffect DEF TypeOK, EdgesKept, Carries, Selected, Choosing,
        AllocDone
  <1> QED  BY <1>1, <1>2, <1>3, <1>4, <1>5, RowsFrame, EdgesFrame

\* The row of a router is added without an edge, for deploy_edge to complete.
LEMMA AllocAddKeeps ==
  ASSUME PoolAssumption, ~HostGroups, IInv, NEW t \in Threads, AllocAdd(t)
  PROVE  IInv'
  <1>1. TypeOK'
    BY StageEffect DEF TypeOK, Shape, Rids, Row, Pending, Labels, Stages, AllocAdd, AddRow
  <1>2. Shape'
    <2>1. /\ pc[t] = "aAdd" /\ pc'[t] = "aDeploy"
          /\ \A u \in Threads : u # t => pc'[u] = pc[u]
          /\ rtr[t] \in Routers /\ UNCHANGED <<rtr, bak, eid, ret, hkPc, hkCur>>
      BY DEF AllocAdd, TypeOK, Shape
    <2>2. /\ \A r \in Rids : r # rtr[t] => deploy'[r] = deploy[r]
          /\ deploy'[rtr[t]].stage = "backend"
      BY <2>1 DEF AllocAdd, Stage, TypeOK, Rids
    <2> QED  BY <2>1, <2>2 DEF Shape, Collected, Selected
  <1>3. Section'
    BY DEF Section, FreeLabels, InSection, AllocAdd
  <1>4. RowsKept
    <2>1. rtr[t] \in Routers /\ pc[t] = "aAdd" /\ UNCHANGED <<bak, cand, ret, hkPc, hkTodo, hkCur>>
      BY DEF AllocAdd, Shape
    <2>2. \A b \in Backups : deploy'[b] = deploy[b] /\ binding'[b] = binding[b]
      BY <2>1 DEF AllocAdd, Stage, AddRow, TypeOK, Rids, PoolAssumption
    <2>3. pc'[t] = "aDeploy" /\ \A u \in Threads : u # t => pc'[u] = pc[u]
      BY DEF AllocAdd, TypeOK
    <2>4. HkRids' = HkRids /\ HkDistinct'
      BY <2>1 DEF HkQuiet, HkDistinct, HkRids, HkBusy
    <2> QED  BY <2>1, <2>2, <2>3, <2>4 DEF RowsKept, Settled, Collected, Choosing, Selected, Rids
  <1>5. EdgesKept
    <2>1. rtr[t] \in Rids /\ pc[t] = "aAdd" /\ UNCHANGED <<rtr, bak, eid, cand, ret>>
      BY DEF AllocAdd, Shape, Rids
    <2>2. \A r \in Rids : /\ deploy'[r].stage = "record" => deploy'[r] = deploy[r]
                        /\ binding'[r].edge \in {binding[r].edge, NoEdge}
      BY <2>1 DEF AllocAdd, Stage, AddRow, TypeOK
    <2>3. pc'[t] = "aDeploy" /\ \A u \in Threads : u # t => pc'[u] = pc[u]
      BY DEF AllocAdd, TypeOK
    <2> QED  BY <2>1, <2>2, <2>3 DEF EdgesKept, Carries, Choosing, Selected
  <1> QED  BY <1>1, <1>2, <1>3, <1>4, <1>5, RowsFrame, EdgesFrame

\* The thread learns how its own deployment ended.
LEMMA AllocDeployedKeeps ==
  ASSUME PoolAssumption, ~HostGroups, IInv, NEW t \in Threads, AllocDeployed(t)
  PROVE  IInv'
  <1>1. TypeOK'
    <2>1. deploy' \in [Rids -> [stage : Stages, edge : Edges \cup {NoEdge}]]
      BY DEF AllocDeployed, TypeOK, NoDeploy, Stages
    <2>2. /\ pc' \in [Threads -> Labels]
          /\ rtr' \in [Threads -> Routers \cup {NoRid}]
          /\ bak' \in [Threads -> Backups \cup {NoRid}]
          /\ eid' \in [Threads -> Edges \cup {NoEdge}]
          /\ cand' \in [Threads -> SUBSET Item] /\ todo' \in [Threads -> SUBSET Item]
          /\ ret' \in [Threads -> {"idle", "bCount", "bEnd", "aList", "aPick", "fCount", "fEnd"}]
          /\ short' \in [Threads -> Nat]
      BY FinishEffect DEF AllocDeployed, TypeOK, Labels
    <2> QED  BY <2>1, <2>2 DEF TypeOK, AllocDeployed
  <1>2. Shape'
    BY SMTT(90), FinishEffect DEF TypeOK, Shape, FreeLabels, NoItem, Collected, Selected, AllocDeployed,
        NoDeploy
  <1>3. Section'
    BY FinishEffect DEF TypeOK, Section, Rids, FreeLabels, InSection, AllocDeployed
  <1>4. RowsKept
    BY FinishEffect DEF TypeOK, Settled, HkQuiet, RowsKept, HkRids, HkBusy, HkDistinct,
        Collected, Choosing, Selected, AllocDeployed
  <1>5. EdgesKept
    BY FinishEffect DEF TypeOK, EdgesKept, Carries, Selected, Choosing, AllocDeployed, NoDeploy
  <1> QED  BY <1>1, <1>2, <1>3, <1>4, <1>5, RowsFrame, EdgesFrame

\* The refill counts the pool outside the lock.
LEMMA AllocCountKeeps ==
  ASSUME PoolAssumption, ~HostGroups, IInv, NEW t \in Threads, AllocCount(t)
  PROVE  IInv'
  <1>1. TypeOK'
    <2>1. Cardinality(PoolRids) \in Nat
      BY FS_Subset, FS_CardinalityType DEF PoolRids, PoolAssumption
    <2>2. MinPooled \in Nat
      BY DEF PoolAssumption
    <2>3. (IF Cardinality(PoolRids) < MinPooled THEN MinPooled - Cardinality(PoolRids) ELSE 0) \in Nat
      BY <2>1, <2>2
    <2> QED  BY <2>3 DEF TypeOK, AllocCount, Labels
  <1>2. Shape'
    BY DEF Shape, FreeLabels, Collected, Selected, AllocCount
  <1>3. Section'
    BY DEF Section, FreeLabels, InSection, AllocCount
  <1>4. RowsKept
    BY DEF Settled, HkQuiet, RowsKept, HkRids, HkBusy, HkDistinct, Collected, Choosing,
        Selected, AllocCount
  <1>5. EdgesKept
    BY DEF EdgesKept, Carries, Selected, Choosing, AllocCount
  <1> QED  BY <1>1, <1>2, <1>3, <1>4, <1>5, RowsFrame, EdgesFrame

\* The refill adds rows under fresh ids and queues their deployments.
LEMMA AllocRefillKeeps ==
  ASSUME PoolAssumption, ~HostGroups, IInv, NEW t \in Threads, AllocRefill(t)
  PROVE  IInv'
  <1>1. TypeOK'
    BY FinishEffect DEF TypeOK, Row, Pending, Stages, AllocRefill, AddBackups
  <1>2. Shape'
    BY FinishEffect DEF Shape, FreeLabels, Collected, Selected, AllocRefill, AddBackups
  <1>3. Section'
    BY FinishEffect DEF Section, FreeLabels, InSection, AllocRefill
  <1>4. RowsKept
    BY FinishEffect DEF Settled, HkQuiet, RowsKept, Rids, HkRids, HkBusy, HkDistinct,
        Collected, Choosing, Selected, AllocRefill, FreshBackups, AddBackups
  <1>5. EdgesKept
    BY FinishEffect DEF EdgesKept, Carries, Selected, Choosing, AllocRefill, AddBackups
  <1> QED  BY <1>1, <1>2, <1>3, <1>4, <1>5, RowsFrame, EdgesFrame

\* The row went away and NoResultFound ends the allocation.
LEMMA AllocLostKeeps ==
  ASSUME PoolAssumption, ~HostGroups, IInv, NEW t \in Threads, AllocLost(t)
  PROVE  IInv'
  <1>1. TypeOK'
    BY FinishEffect DEF TypeOK, Row, Pending, Item, AllocLost, ReleasePool, ReleaseEdge
  <1>2. Shape'
    BY DEF TypeOK, Shape, FreeLabels, Collected, Selected, AllocLost, Finish
  <1>3. Section'
    BY FinishEffect DEF Section, FreeLabels, InSection, AllocLost, ReleaseEdge
  <1>4. RowsKept
    BY FinishEffect DEF Settled, HkQuiet, RowsKept, HkRids, HkBusy, HkDistinct, Collected,
        Choosing, Selected, AllocLost
  <1>5. EdgesKept
    BY FinishEffect DEF EdgesKept, Carries, Selected, Choosing, AllocLost
  <1> QED  BY <1>1, <1>2, <1>3, <1>4, <1>5, RowsFrame, EdgesFrame

-----------------------------------------------------------------------------
(* The collection of an edge.                                              *)

\* A router gives its edge back.
LEMMA StartFreeKeeps ==
  ASSUME PoolAssumption, ~HostGroups, IInv, NEW t \in Threads, NEW r \in Routers, StartFree(t, r)
  PROVE  IInv'
  <1>1. TypeOK'
    BY DEF TypeOK, Labels, FreeLabels, StartFree
  <1>2. Shape'
    BY DEF TypeOK, Shape, Collected, Selected, StartFree
  <1>3. Section'
    BY DEF Section, InSection, StartFree
  <1>4. RowsKept
    BY DEF Settled, HkQuiet, RowsKept, HkRids, HkBusy, HkDistinct, Collected, Choosing,
        Selected, StartFree
  <1>5. EdgesKept
    BY DEF EdgesKept, Carries, Selected, Choosing, StartFree
  <1> QED  BY <1>1, <1>2, <1>3, <1>4, <1>5, RowsFrame, EdgesFrame

\* _free_edge_appliance takes the pool lock and reads the edge of the router.
LEMMA FreeLockKeeps ==
  ASSUME PoolAssumption, ~HostGroups, IInv, NEW t \in Threads, FreeLock(t)
  PROVE  IInv'
  <1>1. TypeOK'
    <2>1. CASE Exists(rtr[t])
      <3>1. binding[rtr[t]].edge \in Edges \cup {NoEdge}
        BY DEF FreeLock, TypeOK, Shape, Rids, Row
      <3> QED  BY <2>1, <3>1, SMTT(20) DEF FreeLock, TypeOK, Labels, FreeLabels
    <2>2. CASE ~Exists(rtr[t])
      BY <2>2, FinishEffect DEF FreeLock, TypeOK
    <2> QED  BY <2>1, <2>2
  <1>2. Shape'
    BY FinishEffect DEF TypeOK, Shape, FreeLabels, NoItem, Collected, Selected, FreeLock
  <1>3. Section'
    BY FinishEffect DEF TypeOK, Section, FreeLabels, InSection, FreeLock
  <1>4. RowsKept
    BY FinishEffect DEF TypeOK, Settled, HkQuiet, RowsKept, HkRids, HkBusy, HkDistinct,
        Collected, Choosing, Selected, FreeLock
  <1>5. Carried'
    <2>1. UNCHANGED <<binding, deploy, rtr, bak>> \/ ~Exists(rtr[t])
      BY DEF FreeLock
    <2>2. \A u \in Threads : u # t =>
            pc'[u] = pc[u] /\ rtr'[u] = rtr[u] /\ bak'[u] = bak[u] /\ eid'[u] = eid[u]
      BY FinishEffect DEF FreeLock, TypeOK
    <2>3. CASE ~Exists(rtr[t])
      <3>1. pc'[t] = "idle" /\ pc[t] = "fLock" /\ UNCHANGED <<binding, deploy>>
        BY <2>3, FinishEffect DEF FreeLock
      <3> QED  BY <2>2, <3>1 DEF Carried, Carries, Selected
    <2>4. CASE Exists(rtr[t])
      <3>1. /\ pc[t] = "fLock" /\ pc'[t] = "fUnbind" /\ eid'[t] = binding[rtr[t]].edge
            /\ rtr[t] \in Routers /\ UNCHANGED <<binding, deploy, rtr, bak>>
        BY <2>4 DEF FreeLock, TypeOK, Shape
      <3>2. \A u \in Threads : pc[u] # "fUnbind"
        BY DEF FreeLock, Section, InSection, FreeLabels, PoolAssumption
      <3>3. \A u \in Threads : Selected(u) => bak[u] # rtr[t]
        BY <3>1 DEF Shape, PoolAssumption
      <3>4. \A u \in Threads : \A e \in Edges : Carries(u, e) => binding[rtr[t]].edge # e
        BY <3>1, <3>2, <3>3 DEF Carried, Rids
      <3>5. \A e \in Edges : binding[rtr[t]].edge = e =>
              /\ \A rid \in Rids : deploy[rid].stage = "record" => deploy[rid].edge # e
              /\ \A rid \in Rids : binding[rid].edge = e => rid = rtr[t]
        BY <3>1 DEF Recorded, EdgeExclusive, Rids, PoolAssumption
      <3> QED  BY <2>2, <3>1, <3>2, <3>4, <3>5 DEF Carried, Carries, Selected
    <2> QED  BY <2>3, <2>4
  <1>6. Offered'
    BY FinishEffect DEF TypeOK, Section, Offered, InSection, Choosing, FreeLock
  <1>7. Recorded'
    BY DEF Recorded, FreeLock
  <1>8. EdgeExclusive'
    BY DEF EdgeExclusive, FreeLock
  <1> QED  BY <1>1, <1>2, <1>3, <1>4, <1>5, <1>6, <1>7, <1>8, RowsFrame

\* The row of the router is deleted and the thread alone knows the edge.
LEMMA FreeUnbindKeeps ==
  ASSUME PoolAssumption, ~HostGroups, IInv, NEW t \in Threads, FreeUnbind(t)
  PROVE  IInv'
  <1>1. TypeOK'
    BY DEF TypeOK, Shape, Rids, Row, Labels, FreeLabels, FreeUnbind, DeleteRow, NoRow
  <1>2. Shape'
    BY DEF Shape, FreeLabels, Collected, Selected, FreeUnbind
  <1>3. Section'
    BY DEF Section, FreeLabels, InSection, FreeUnbind
  <1>4. RowsKept
    BY DEF Settled, HkQuiet, RowsKept, HkRids, HkBusy, HkDistinct, Collected, Choosing,
        Selected, FreeUnbind, DeleteRow, NoRow
  <1>5. Carried'
    BY DEF TypeOK, Carried, Carries, Selected, FreeUnbind, DeleteRow, NoRow
  <1>6. Offered'
    BY DEF Offered, Choosing, Carries, FreeUnbind, DeleteRow, NoRow
  <1>7. Recorded'
    BY DEF Shape, Recorded, FreeUnbind, DeleteRow, NoRow
  <1>8. EdgeExclusive'
    BY DEF EdgeExclusive, FreeUnbind, DeleteRow, NoRow
  <1> QED  BY <1>1, <1>2, <1>3, <1>4, <1>5, <1>6, <1>7, <1>8, RowsFrame

\* The edge is bound to a row with a fresh backup id.
LEMMA FreeAddKeeps ==
  ASSUME PoolAssumption, ~HostGroups, IInv, NEW t \in Threads, FreeAdd(t)
  PROVE  IInv'
  <1>1. TypeOK'
    BY DEF TypeOK, Rids, Row, Pending, Labels, FreeLabels, FreeAdd, FreshBackups, AddRow
  <1>2. Shape'
    BY DEF TypeOK, Shape, FreeLabels, Collected, Selected, FreeAdd, FreshBackups
  <1>3. Section'
    BY DEF Section, FreeLabels, InSection, FreeAdd
  <1>4. Settled'
    BY DEF Settled, FreeAdd, AddRow
  <1>5. HkQuiet'
    BY DEF HkQuiet, HkRids, HkBusy, HkDistinct, FreeAdd, AddRow
  <1>6. CollectedQuiet'
    <2>1. PICK b \in FreshBackups : bak' = [bak EXCEPT ![t] = b]
      BY DEF FreeAdd
    <2>2. /\ deploy[b].stage = "none" /\ b \notin HkRids
          /\ \A u \in Threads : bak[u] # b
      BY FreshRow DEF FreshBackups
    <2>3. /\ pc[t] = "fAdd" /\ pc'[t] = "fCheck" /\ bak'[t] = b
          /\ \A u \in Threads : u # t => pc'[u] = pc[u] /\ bak'[u] = bak[u]
          /\ UNCHANGED <<ret, deploy, hkPc, hkTodo, hkCur>>
      BY <2>1 DEF FreeAdd, TypeOK
    <2>4. \A u \in Threads : u # t => ~Collected(u)'
      BY <2>3 DEF Section, InSection, Collected, FreeLabels
    <2>5. \A u \in Threads : Selected(u)' => Selected(u) /\ u # t
      BY <2>3 DEF Selected
    <2>6. HkRids' = HkRids
      BY <2>3 DEF HkRids, HkBusy
    <2> QED  BY <2>2, <2>3, <2>4, <2>5, <2>6 DEF CollectedQuiet
  <1>7. ChoosingQuiet'
    BY SMTT(30), FreshRow DEF TypeOK, ChoosingQuiet, Section, InSection, FreeLabels, Rids,
        Item, Pending, Choosing, HkRids, HkBusy, Selected, FreeAdd, AddRow, FreshBackups
  <1>8. SelectedQuiet'
    BY DEF SelectedQuiet, Selected, HkRids, HkBusy, FreeAdd, AddRow
  <1>9. SelectionExclusive'
    BY DEF SelectionExclusive, FreeAdd
  <1>10. Carried'
    BY DEF TypeOK, Carried, Carries, Selected, FreeAdd, AddRow
  <1>11. Offered'
    BY DEF Offered, Choosing, Carries, FreeAdd, AddRow
  <1>12. Recorded'
    BY DEF Shape, Carried, Recorded, Carries, FreeAdd, AddRow
  <1>13. EdgeExclusive'
    BY DEF TypeOK, Section, HkQuiet, Carried, EdgeExclusive, Row, Pending, FreeLabels, Item,
        Stages, HkBusy, HkDistinct, Carries, Selected, FreeAdd, FreshBackups, AddRow
  <1> QED  BY <1>1, <1>2, <1>3, <1>4, <1>5, <1>6, <1>7, <1>8, <1>9, <1>10, <1>11, <1>12, <1>13

\* A collected edge that is not healthy is sent to deletion.
LEMMA FreeDiscardKeeps ==
  ASSUME PoolAssumption, ~HostGroups, IInv, NEW t \in Threads, FreeDiscard(t)
  PROVE  IInv'
  <1>1. TypeOK'
    BY SetStatusEffect DEF TypeOK, Shape, Pending, Labels, Item, Collected, FreeDiscard,
        Discard
  <1>2. Shape'
    BY DEF TypeOK, Shape, FreeLabels, Collected, Selected, FreeDiscard, Discard
  <1>3. Section'
    BY DEF Section, FreeLabels, InSection, FreeDiscard, Discard
  <1>4. RowsKept
    BY SetStatusEffect DEF TypeOK, Settled, HkQuiet, RowsKept, Rids, Pending, HkRids, HkBusy,
        HkDistinct, Collected, Choosing, Selected, FreeDiscard, Discard
  <1>5. EdgesKept
    BY SetStatusEffect DEF TypeOK, EdgesKept, Pending, Carries, Selected, Choosing,
        FreeDiscard, Discard
  <1> QED  BY <1>1, <1>2, <1>3, <1>4, <1>5, RowsFrame, EdgesFrame

\* The clean-up before the pool is counted reads the late rows.
LEMMA FreeCleanKeeps ==
  ASSUME PoolAssumption, ~HostGroups, IInv, NEW t \in Threads, FreeClean(t)
  PROVE  IInv'
  <1>1. TypeOK'
    BY DEF TypeOK, Rids, Row, Labels, Item, FreeClean, BeginClean, ItemOf, CleanTargets
  <1>2. Shape'
    BY DEF TypeOK, Shape, FreeLabels, Collected, Selected, FreeClean, BeginClean
  <1>3. Section'
    BY DEF Section, FreeLabels, InSection, FreeClean, BeginClean
  <1>4. RowsKept
    BY DEF Settled, HkQuiet, RowsKept, HkRids, HkBusy, HkDistinct, Collected, Choosing,
        Selected, FreeClean, BeginClean
  <1>5. EdgesKept
    BY DEF EdgesKept, Carries, Selected, Choosing, FreeClean, BeginClean
  <1> QED  BY <1>1, <1>2, <1>3, <1>4, <1>5, RowsFrame, EdgesFrame

\* The pool is not full.
LEMMA FreeCollectKeeps ==
  ASSUME PoolAssumption, ~HostGroups, IInv, NEW t \in Threads, FreeCollect(t)
  PROVE  IInv'
  <1>1. TypeOK'
    BY DEF TypeOK, Labels, FreeLabels, FreeCollect
  <1>2. Shape'
    BY DEF Shape, FreeLabels, Collected, Selected, FreeCollect
  <1>3. Section'
    BY DEF Section, FreeLabels, InSection, FreeCollect
  <1>4. RowsKept
    BY DEF Settled, HkQuiet, RowsKept, HkRids, HkBusy, HkDistinct, Collected, Choosing,
        Selected, FreeCollect
  <1>5. EdgesKept
    BY DEF EdgesKept, Carries, Selected, Choosing, FreeCollect
  <1> QED  BY <1>1, <1>2, <1>3, <1>4, <1>5, RowsFrame, EdgesFrame

\* The pool is full and the collected edge is sent to deletion.
LEMMA FreeSurplusKeeps ==
  ASSUME PoolAssumption, ~HostGroups, IInv, NEW t \in Threads, FreeSurplus(t)
  PROVE  IInv'
  <1>1. TypeOK'
    BY SMTT(90) DEF TypeOK, Shape, Rids, Row, Pending, Labels, FreeLabels, Item, NoItem, Collected,
        Selected, FreeSurplus, Discard, SetStatus
  <1>2. Shape'
    BY DEF TypeOK, Shape, FreeLabels, Collected, Selected, FreeSurplus, Discard
  <1>3. Section'
    BY DEF Section, FreeLabels, InSection, FreeSurplus, Discard
  <1>4. RowsKept
    BY SetStatusEffect DEF TypeOK, Settled, HkQuiet, RowsKept, Rids, Pending, HkRids, HkBusy,
        HkDistinct, Collected, Choosing, Selected, FreeSurplus, Discard
  <1>5. EdgesKept
    BY SetStatusEffect DEF TypeOK, EdgesKept, Pending, Carries, Selected, Choosing,
        FreeSurplus, Discard
  <1> QED  BY <1>1, <1>2, <1>3, <1>4, <1>5, RowsFrame, EdgesFrame

\* The edge is renamed, or its row goes to ERROR: the row is nobody else's.
LEMMA FreeUpdateKeeps ==
  ASSUME PoolAssumption, ~HostGroups, IInv, NEW t \in Threads, FreeUpdate(t)
  PROVE  IInv'
  <1>1. TypeOK'
    <2>1. binding' \in [Rids -> Row] /\ undated' \subseteq Rids /\ late' \subseteq Rids
      BY SetStatusEffect DEF TypeOK, FreeUpdate
    <2>2. pc' \in [Threads -> Labels]
      <3>1. pc \in [Threads -> Labels] /\ {"fActive", "fError"} \subseteq Labels
        BY DEF TypeOK, Labels, FreeLabels
      <3> QED  BY <3>1 DEF FreeUpdate
    <2>3. UNCHANGED <<vnics, backend, lockVars, locals, jobVars, hkVars>>
      BY DEF FreeUpdate
    <2> QED  BY <2>1, <2>2, <2>3 DEF TypeOK
  <1>2. Shape'
    BY DEF TypeOK, Shape, FreeLabels, Collected, Selected, FreeUpdate
  <1>3. Section'
    BY DEF TypeOK, Section, FreeLabels, InSection, FreeUpdate
  <1>4. Settled'
    BY DEF Settled, CollectedQuiet, Collected, FreeUpdate, SetStatus, Rids
  <1>5. HkQuiet'
    BY DEF TypeOK, Shape, HkQuiet, Rids, Row, Item, HkRids, HkBusy, HkDistinct, FreeUpdate,
        SetStatus
  <1>6. CollectedQuiet'
    BY DEF TypeOK, CollectedQuiet, Collected, HkRids, HkBusy, Selected, FreeUpdate
  <1>7. ChoosingQuiet'
    BY SMTT(30), SetStatusEffect DEF TypeOK, ChoosingQuiet, Section, InSection, FreeLabels,
        Rids, Item, Pending, Choosing, HkRids, HkBusy, Selected, FreeUpdate
  <1>8. SelectedQuiet'
    BY DEF TypeOK, Shape, CollectedQuiet, SelectedQuiet, Rids, Collected, Selected, HkRids,
        HkBusy, FreeUpdate, SetStatus
  <1>9. SelectionExclusive'
    BY DEF TypeOK, SelectionExclusive, FreeUpdate
  <1>10. EdgesKept
    BY SetStatusEffect DEF TypeOK, EdgesKept, Carries, Selected, Choosing, FreeUpdate
  <1> QED  BY <1>1, <1>2, <1>3, <1>4, <1>5, <1>6, <1>7, <1>8, <1>9, <1>10, EdgesFrame

\* The vnic rows of the collected edge are initialised again.
LEMMA FreeVnicsKeeps ==
  ASSUME PoolAssumption, ~HostGroups, IInv, NEW t \in Threads, FreeVnics(t)
  PROVE  IInv'
  <1>1. TypeOK'
    BY FinishEffect DEF TypeOK, Shape, Rids, Labels, FreeLabels, NoItem, Selected, FreeVnics
  <1>2. Shape'
    BY FinishEffect DEF TypeOK, Shape, FreeLabels, Collected, Selected, FreeVnics
  <1>3. Section'
    BY FinishEffect DEF TypeOK, Section, FreeLabels, InSection, FreeVnics
  <1>4. RowsKept
    BY FinishEffect DEF TypeOK, Settled, HkQuiet, RowsKept, HkRids, HkBusy, HkDistinct,
        Collected, Choosing, Selected, FreeVnics
  <1>5. EdgesKept
    BY FinishEffect DEF TypeOK, EdgesKept, Carries, Selected, Choosing, FreeVnics
  <1> QED  BY <1>1, <1>2, <1>3, <1>4, <1>5, RowsFrame, EdgesFrame

\* The collected row becomes ACTIVE: no deployment of it is in progress.
LEMMA FreePoolKeeps ==
  ASSUME PoolAssumption, ~HostGroups, IInv, NEW t \in Threads, FreePool(t)
  PROVE  IInv'
  <1>1. TypeOK'
    BY SetStatusEffect, FinishEffect DEF TypeOK, FreePool, ReleasePool
  <1>2. Shape'
    BY SetStatusEffect, FinishEffect DEF Shape, FreeLabels, Collected, Selected, FreePool
  <1>3. Section'
    BY FinishEffect DEF Section, FreeLabels, InSection, FreePool
  <1>4. Settled'
    <2>1. deploy[bak[t]].stage = "none" /\ UNCHANGED deploy
      BY DEF FreePool, CollectedQuiet, Collected
    <2>2. \A b \in Backups : b # bak[t] => binding'[b].status = binding[b].status
      BY SetStatusEffect DEF FreePool, TypeOK, Rids, Pending
    <2> QED  BY <2>1, <2>2 DEF Settled
  <1>5. HkQuiet'
    BY DEF TypeOK, Shape, HkQuiet, CollectedQuiet, Rids, Item, Collected, HkRids, HkBusy,
        HkDistinct, FreePool, SetStatus
  <1>6. CollectedQuiet'
    BY DEF TypeOK, CollectedQuiet, Collected, HkRids, HkBusy, Selected, FreePool, Finish
  <1>7. ChoosingQuiet'
    BY SMTT(30), SetStatusEffect DEF TypeOK, ChoosingQuiet, Section, InSection, FreeLabels,
        Rids, Item, Pending, Choosing, HkRids, HkBusy, Selected, FreePool, Finish, ReleasePool
  <1>8. SelectedQuiet'
    BY DEF Shape, CollectedQuiet, SelectedQuiet, Collected, Selected, Rids, HkRids, HkBusy,
        FreePool, SetStatus, Finish
  <1>9. SelectionExclusive'
    BY DEF SelectionExclusive, FreePool, Finish
  <1>10. EdgesKept
    BY SetStatusEffect, FinishEffect DEF TypeOK, EdgesKept, Carries, Selected, Choosing,
        FreePool
  <1> QED  BY <1>1, <1>2, <1>3, <1>4, <1>5, <1>6, <1>7, <1>8, <1>9, <1>10, EdgesFrame

-----------------------------------------------------------------------------
(* The workers.                                                            *)

\* A worker starts a queued deployment.
LEMMA DeployStartKeeps ==
  ASSUME PoolAssumption, ~HostGroups, IInv, NEW b \in Backups, DeployStart(b)
  PROVE  IInv'
  <1>1. TypeOK'
    BY StageEffect DEF TypeOK, Rids, Stages, DeployStart
  <1>2. Shape'
    BY DEF Shape, Collected, Selected, DeployStart, Stage
  <1>3. Section'
    BY DEF Section, InSection, DeployStart
  <1>4. RowsKept
    BY StageEffect DEF TypeOK, Settled, HkQuiet, RowsKept, Rids, Stages, HkRids, HkBusy,
        HkDistinct, Collected, Choosing, Selected, DeployStart
  <1>5. EdgesKept
    BY StageEffect DEF TypeOK, EdgesKept, Rids, Stages, Carries, Selected, Choosing,
        DeployStart
  <1> QED  BY <1>1, <1>2, <1>3, <1>4, <1>5, RowsFrame, EdgesFrame

\* The backend answers with an edge that nobody knows, or fails.
LEMMA DeployBackendKeeps ==
  ASSUME PoolAssumption, ~HostGroups, IInv, NEW rid \in Rids, DeployBackend(rid)
  PROVE  IInv'
  <1>1. TypeOK'
    BY StageEffect DEF TypeOK, Stages, DeployBackend, FreshEdges
  <1>2. Shape'
    <2>1. /\ \A r \in Rids : r # rid => deploy'[r] = deploy[r]
          /\ \/ deploy'[rid].stage = "record" /\ deploy'[rid].edge \in Edges
             \/ deploy'[rid].stage = "undo"
      BY DEF DeployBackend, Stage, FreshEdges, TypeOK
    <2>2. UNCHANGED <<pc, rtr, bak, eid, ret, hkPc, hkCur>>
      BY DEF DeployBackend
    <2> QED  BY <2>1, <2>2 DEF Shape, Collected, Selected
  <1>3. Section'
    BY DEF Section, InSection, DeployBackend
  <1>4. RowsKept
    <2>1. /\ deploy[rid].stage = "backend"
          /\ \A r \in Rids : r # rid => deploy'[r] = deploy[r]
      BY DEF DeployBackend, Stage, TypeOK
    <2>2. UNCHANGED <<binding, pc, bak, cand, ret, hkPc, hkTodo, hkCur>>
      BY DEF DeployBackend
    <2>3. HkRids' = HkRids /\ HkDistinct'
      BY <2>2 DEF HkQuiet, HkDistinct, HkRids, HkBusy
    <2> QED  BY <2>1, <2>2, <2>3 DEF RowsKept, Settled, Collected, Choosing, Selected, Rids
  <1>5. Carried'
    <2>1. CASE \E e \in FreshEdges : Stage(rid, "record", e)
      <3>1. PICK e \in FreshEdges : Stage(rid, "record", e)
        BY <2>1
      <3>2. /\ \A r \in Rids : binding[r].edge # e /\ deploy[r].edge # e
            /\ \A t \in Threads : eid[t] # e /\ \A x \in cand[t] : x.edge # e
            /\ e \in Edges
        BY FreshEdge
      <3>3. /\ \A r \in Rids : r # rid => deploy'[r] = deploy[r]
            /\ deploy'[rid].edge = e
        BY <3>1, <3>2, StageEffect DEF TypeOK, Stages
      <3>4. UNCHANGED <<binding, pc, rtr, bak, eid, cand, ret>>
        BY DEF DeployBackend
      <3> QED  BY <3>2, <3>3, <3>4 DEF Carried, Carries, Selected
    <2>2. CASE Stage(rid, "undo", NoEdge)
      <3>1. /\ \A r \in Rids : r # rid => deploy'[r] = deploy[r]
            /\ deploy'[rid].stage = "undo"
        BY <2>2, StageEffect DEF TypeOK, Stages
      <3>2. UNCHANGED <<binding, pc, rtr, bak, eid, cand, ret>>
        BY DEF DeployBackend
      <3> QED  BY <3>1, <3>2 DEF Carried, Carries, Selected
    <2> QED  BY <2>1, <2>2 DEF DeployBackend
  <1>6. Offered'
    <2>1. CASE \E e \in FreshEdges : Stage(rid, "record", e)
      <3>1. PICK e \in FreshEdges : Stage(rid, "record", e)
        BY <2>1
      <3>2. /\ \A r \in Rids : binding[r].edge # e /\ deploy[r].edge # e
            /\ \A t \in Threads : eid[t] # e /\ \A x \in cand[t] : x.edge # e
            /\ e \in Edges
        BY FreshEdge
      <3>3. /\ \A r \in Rids : r # rid => deploy'[r] = deploy[r]
            /\ deploy'[rid].edge = e
        BY <3>1, <3>2, StageEffect DEF TypeOK, Stages
      <3>4. UNCHANGED <<binding, pc, rtr, bak, eid, cand, ret>>
        BY DEF DeployBackend
      <3> QED  BY <3>2, <3>3, <3>4 DEF Offered, Carries, Choosing
    <2>2. CASE Stage(rid, "undo", NoEdge)
      <3>1. /\ \A r \in Rids : r # rid => deploy'[r] = deploy[r]
            /\ deploy'[rid].stage = "undo"
        BY <2>2, StageEffect DEF TypeOK, Stages
      <3>2. UNCHANGED <<binding, pc, rtr, bak, eid, cand, ret>>
        BY DEF DeployBackend
      <3> QED  BY <3>1, <3>2 DEF Offered, Carries, Choosing
    <2> QED  BY <2>1, <2>2 DEF DeployBackend
  <1>7. Recorded'
    <2>1. CASE \E e \in FreshEdges : Stage(rid, "record", e)
      <3>1. PICK e \in FreshEdges : Stage(rid, "record", e)
        BY <2>1
      <3>2. /\ \A r \in Rids : binding[r].edge # e /\ deploy[r].edge # e
            /\ \A t \in Threads : eid[t] # e /\ \A x \in cand[t] : x.edge # e
            /\ e \in Edges
        BY FreshEdge
      <3>3. /\ \A r \in Rids : r # rid => deploy'[r] = deploy[r]
            /\ deploy'[rid].edge = e
        BY <3>1, <3>2, StageEffect DEF TypeOK, Stages
      <3>4. UNCHANGED <<binding, pc, rtr, bak, eid, cand, ret>>
        BY DEF DeployBackend
      <3> QED  BY <3>2, <3>3, <3>4 DEF Recorded
    <2>2. CASE Stage(rid, "undo", NoEdge)
      <3>1. /\ \A r \in Rids : r # rid => deploy'[r] = deploy[r]
            /\ deploy'[rid].stage = "undo"
        BY <2>2, StageEffect DEF TypeOK, Stages
      <3>2. UNCHANGED <<binding, pc, rtr, bak, eid, cand, ret>>
        BY DEF DeployBackend
      <3> QED  BY <3>1, <3>2 DEF Recorded
    <2> QED  BY <2>1, <2>2 DEF DeployBackend
  <1>8. EdgeExclusive'
    BY DEF EdgeExclusive, DeployBackend
  <1> QED  BY <1>1, <1>2, <1>3, <1>4, <1>5, <1>6, <1>7, <1>8, RowsFrame

\* The row learns its edge, if it is still there.
LEMMA DeployRecordKeeps ==
  ASSUME PoolAssumption, ~HostGroups, IInv, NEW rid \in Rids, DeployRecord(rid)
  PROVE  IInv'
  <1>1. TypeOK'
    <2>1. deploy' \in [Rids -> [stage : Stages, edge : Edges \cup {NoEdge}]]
      BY StageEffect, EndDeployEffect DEF DeployRecord, TypeOK, Stages
    <2>2. deploy[rid].edge \in Edges \cup {NoEdge}
      BY DEF TypeOK
    <2>3. binding' \in [Rids -> Row]
      BY <2>2, SMTT(20) DEF DeployRecord, TypeOK, Row
    <2>4. undated' \subseteq Rids
      BY DEF DeployRecord, TypeOK
    <2> QED  BY <2>1, <2>3, <2>4 DEF DeployRecord, TypeOK
  <1>2. Shape'
    <2>1. /\ \A r \in Rids : r # rid => deploy'[r] = deploy[r]
          /\ deploy'[rid].stage \in {"record", "vnics"} => deploy'[rid].edge = deploy[rid].edge
          /\ deploy[rid].stage = "record"
      BY StageEffect, EndDeployEffect DEF DeployRecord, TypeOK, Stages
    <2>2. UNCHANGED <<pc, rtr, bak, eid, ret, hkPc, hkCur>>
      BY DEF DeployRecord
    <2> QED  BY <2>1, <2>2 DEF Shape, Collected, Selected
  <1>3. Section'
    BY DEF Section, InSection, DeployRecord
  <1>4. RowsKept
    BY SMTT(90), EndDeployEffect, StageEffect DEF TypeOK, Settled, HkQuiet, RowsKept, Rids, Row, Pending,
        Labels, Item, Stages, NoItem, HkRids, HkBusy, HkDistinct, Exists, Collected, Choosing,
        Selected, DeployRecord
  <1>5. Carried'
    <2>1. \A r \in Rids : deploy'[r].stage = "record" => r # rid /\ deploy'[r] = deploy[r]
      BY StageEffect, EndDeployEffect DEF DeployRecord, TypeOK, Stages
    <2>2. \A r \in Rids : \/ binding'[r].edge = binding[r].edge
                        \/ binding'[r].edge = deploy[rid].edge
      BY DEF DeployRecord, TypeOK, Row
    <2>3. deploy[rid].stage = "record" /\ UNCHANGED <<pc, rtr, bak, eid, cand, ret>>
      BY DEF DeployRecord
    <2> QED  BY <2>1, <2>2, <2>3 DEF Carried, Carries, Selected
  <1>6. Offered'
    <2>1. \A r \in Rids : deploy'[r].stage = "record" => r # rid /\ deploy'[r] = deploy[r]
      BY StageEffect, EndDeployEffect DEF DeployRecord, TypeOK, Stages
    <2>2. \A r \in Rids : \/ binding'[r].edge = binding[r].edge
                        \/ binding'[r].edge = deploy[rid].edge
      BY DEF DeployRecord, TypeOK, Row
    <2>3. deploy[rid].stage = "record" /\ UNCHANGED <<pc, rtr, bak, eid, cand, ret>>
      BY DEF DeployRecord
    <2> QED  BY <2>1, <2>2, <2>3 DEF Offered, Carries, Choosing
  <1>7. Recorded'
    <2>1. \A r \in Rids : deploy'[r].stage = "record" => r # rid /\ deploy'[r] = deploy[r]
      BY StageEffect, EndDeployEffect DEF DeployRecord, TypeOK, Stages
    <2>2. \A r \in Rids : \/ binding'[r].edge = binding[r].edge
                        \/ binding'[r].edge = deploy[rid].edge
      BY DEF DeployRecord, TypeOK, Row
    <2>3. \A r \in Rids : r # rid /\ deploy[r].stage = "record" => deploy[r].edge # deploy[rid].edge
      BY DEF DeployRecord, Recorded
    <2> QED  BY <2>1, <2>2, <2>3 DEF Recorded
  <1>8. EdgeExclusive'
    <2>1. \A r \in Rids : r # rid => binding'[r].edge = binding[r].edge
      BY DEF DeployRecord, TypeOK, Row
    <2>2. binding'[rid].edge = binding[rid].edge \/ binding'[rid].edge = deploy[rid].edge
      BY DEF DeployRecord, TypeOK, Row
    <2>3. \A r \in Rids : binding[r].edge # deploy[rid].edge
      BY DEF DeployRecord, Recorded
    <2> QED  BY <2>1, <2>2, <2>3 DEF EdgeExclusive
  <1> QED  BY <1>1, <1>2, <1>3, <1>4, <1>5, <1>6, <1>7, <1>8, RowsFrame

\* The vnic rows of a deployed edge are initialised.
LEMMA DeployVnicsKeeps ==
  ASSUME PoolAssumption, ~HostGroups, IInv, NEW rid \in Rids, DeployVnics(rid)
  PROVE  IInv'
  <1>1. TypeOK'
    BY EndDeployEffect, StageEffect DEF TypeOK, Shape, Stages, DeployVnics
  <1>2. Shape'
    BY SMTT(90) DEF TypeOK, Shape, Rids, Labels, FreeLabels, Collected, Selected, DeployVnics,
        EndDeploy, NoDeploy, Stage
  <1>3. Section'
    BY DEF Section, InSection, DeployVnics
  <1>4. RowsKept
    <2>1. /\ deploy[rid].stage \notin {"none", "ok"}
          /\ \A r \in Rids : r # rid => deploy'[r] = deploy[r]
      BY StageEffect, EndDeployEffect DEF DeployVnics, TypeOK, Stages
    <2>2. UNCHANGED <<binding, pc, bak, cand, ret, hkPc, hkTodo, hkCur>>
      BY DEF DeployVnics
    <2>3. HkRids' = HkRids /\ HkDistinct'
      BY <2>2 DEF HkQuiet, HkDistinct, HkRids, HkBusy
    <2> QED  BY <2>1, <2>2, <2>3 DEF RowsKept, Settled, Collected, Choosing, Selected, Rids
  <1>5. EdgesKept
    <2>1. \A r \in Rids : deploy'[r].stage = "record" => deploy'[r] = deploy[r]
      BY EndDeployEffect, StageEffect DEF TypeOK, Stages, DeployVnics
    <2>2. UNCHANGED <<binding, pc, rtr, eid, bak, cand, ret>>
      BY DEF DeployVnics
    <2> QED  BY <2>1, <2>2 DEF EdgesKept, Carries, Selected, Choosing
  <1> QED  BY <1>1, <1>2, <1>3, <1>4, <1>5, RowsFrame, EdgesFrame

\* complete_edge_creation makes the row ACTIVE and the deployment is over.
LEMMA DeployDoneKeeps ==
  ASSUME PoolAssumption, ~HostGroups, IInv, NEW rid \in Rids, DeployDone(rid)
  PROVE  IInv'
  <1>1. TypeOK'
    BY SetStatusEffect, EndDeployEffect, StageEffect DEF TypeOK, Shape, Stages, DeployDone
  <1>2. Shape'
    <2>1. /\ \A r \in Rids : r # rid => deploy'[r] = deploy[r]
          /\ deploy'[rid].stage \notin {"record", "vnics"}
      BY StageEffect, EndDeployEffect DEF DeployDone, TypeOK, Stages
    <2>2. UNCHANGED <<pc, rtr, bak, eid, ret, hkPc, hkCur>>
      BY DEF DeployDone
    <2> QED  BY <2>1, <2>2 DEF Shape, Collected, Selected
  <1>3. Section'
    BY DEF Section, InSection, DeployDone
  <1>4. Settled'
    BY DEF TypeOK, Settled, Rids, Row, DeployDone, SetStatus, Stage, EndDeploy, NoDeploy
  <1>5. HkQuiet'
    <2>1. /\ \A r \in Rids : r # rid => deploy'[r] = deploy[r]
          /\ deploy[rid].stage = "done"
      BY StageEffect, EndDeployEffect DEF DeployDone, TypeOK, Stages
    <2>2. \A r \in Rids : r # rid => binding'[r].status = binding[r].status
      BY SetStatusEffect DEF DeployDone, TypeOK, Pending
    <2>3. UNCHANGED <<pc, bak, ret, hkPc, hkTodo, hkCur>>
      BY DEF DeployDone
    <2>4. HkRids' = HkRids
      BY <2>3 DEF HkRids, HkBusy
    <2>5. HkDistinct'
      BY <2>3 DEF HkQuiet, HkDistinct, HkBusy
    <2>6. HkRids \subseteq Backups
      BY DEF TypeOK, Shape, HkRids, HkBusy, Item
    <2> QED  BY <2>1, <2>2, <2>4, <2>5, <2>6 DEF HkQuiet, Rids
  <1>6. CollectedQuiet'
    <2>1. /\ \A r \in Rids : r # rid => deploy'[r] = deploy[r]
          /\ deploy[rid].stage = "done"
      BY StageEffect, EndDeployEffect DEF DeployDone, TypeOK, Stages
    <2>2. UNCHANGED <<pc, bak, ret, hkPc, hkTodo, hkCur>>
      BY DEF DeployDone
    <2>3. HkRids' = HkRids
      BY <2>2 DEF HkRids, HkBusy
    <2>4. \A u \in Threads : Collected(u) => bak[u] \in Rids
      BY DEF Shape, Rids
    <2> QED  BY <2>1, <2>2, <2>3, <2>4 DEF CollectedQuiet, Collected, Selected
  <1>7. ChoosingQuiet'
    <2>1. \A r \in Rids : deploy[r].stage = "none" => deploy'[r].stage = "none"
      BY StageEffect, EndDeployEffect DEF DeployDone, TypeOK, Stages
    <2>2. \A r \in Rids : binding'[r].status = "ERROR" => binding[r].status = "ERROR"
      <3>1. CASE SetStatus({rid}, "ACTIVE")
        BY <3>1, SetStatusEffect, SMTT(20) DEF TypeOK
      <3>2. CASE UNCHANGED binding
        BY <3>2
      <3> QED  BY <3>1, <3>2 DEF DeployDone
    <2>3. UNCHANGED <<pc, bak, cand, ret>> /\ HkRids' = HkRids
      BY DEF DeployDone, HkRids, HkBusy
    <2>4. \A u \in Threads : \A x \in cand[u] : x.rid \in Rids
      BY DEF TypeOK, Item, Rids
    <2> QED  BY <2>1, <2>2, <2>3, <2>4 DEF ChoosingQuiet, Choosing, Selected
  <1>8. SelectedQuiet'
    BY SMTT(90) DEF TypeOK, Shape, SelectedQuiet, Rids, Row, NoItem, Selected, HkRids, HkBusy,
        DeployDone, Exists, SetStatus, Stage, EndDeploy, NoDeploy
  <1>9. SelectionExclusive'
    BY DEF SelectionExclusive, DeployDone
  <1>10. EdgesKept
    BY SetStatusEffect, EndDeployEffect, StageEffect DEF TypeOK, EdgesKept, Pending, Stages,
        Carries, Selected, Choosing, DeployDone, Exists
  <1> QED  BY <1>1, <1>2, <1>3, <1>4, <1>5, <1>6, <1>7, <1>8, <1>9, <1>10, EdgesFrame

\* update_edge_host_groups, which does not run without edge_host_groups.
LEMMA DeployGroupsKeeps ==
  ASSUME PoolAssumption, ~HostGroups, IInv, NEW rid \in Rids, DeployGroups(rid)
  PROVE  IInv'
  <1>1. TypeOK'
    BY EndDeployEffect, StageEffect DEF TypeOK, Stages, DeployGroups
  <1>2. Shape'
    <2>1. /\ \A r \in Rids : r # rid => deploy'[r] = deploy[r]
          /\ deploy'[rid].stage \notin {"record", "vnics"}
      BY StageEffect, EndDeployEffect DEF DeployGroups, TypeOK, Stages
    <2>2. UNCHANGED <<pc, rtr, bak, eid, ret, hkPc, hkCur>>
      BY DEF DeployGroups
    <2> QED  BY <2>1, <2>2 DEF Shape, Collected, Selected
  <1>3. Section'
    BY DEF Section, InSection, DeployGroups
  <1>4. RowsKept
    <2>1. /\ deploy[rid].stage \notin {"none", "ok"}
          /\ \A r \in Rids : r # rid => deploy'[r] = deploy[r]
      BY StageEffect, EndDeployEffect DEF DeployGroups, TypeOK, Stages
    <2>2. UNCHANGED <<binding, pc, bak, cand, ret, hkPc, hkTodo, hkCur>>
      BY DEF DeployGroups
    <2>3. HkRids' = HkRids /\ HkDistinct'
      BY <2>2 DEF HkQuiet, HkDistinct, HkRids, HkBusy
    <2> QED  BY <2>1, <2>2, <2>3 DEF RowsKept, Settled, Collected, Choosing, Selected, Rids
  <1>5. EdgesKept
    BY EndDeployEffect, StageEffect DEF TypeOK, EdgesKept, Rids, Stages, Carries, Selected,
        Choosing, DeployGroups
  <1> QED  BY <1>1, <1>2, <1>3, <1>4, <1>5, RowsFrame, EdgesFrame

\* complete_edge_creation(False) leaves the row in ERROR and the deployment is over.
LEMMA DeployUndoKeeps ==
  ASSUME PoolAssumption, ~HostGroups, IInv, NEW rid \in Rids, DeployUndo(rid)
  PROVE  IInv'
  <1>1. TypeOK'
    BY SetStatusEffect, EndDeployEffect DEF TypeOK, DeployUndo
  <1>2. Shape'
    BY DEF Shape, Collected, Selected, DeployUndo, EndDeploy, NoDeploy
  <1>3. Section'
    BY DEF Section, InSection, DeployUndo
  <1>4. Settled'
    BY SMTT(30), SetStatusEffect, EndDeployEffect DEF TypeOK, Settled, Rids, DeployUndo
  <1>5. HkQuiet'
    <2>1. HkRids' = HkRids /\ (HkDistinct' <=> HkDistinct)
      BY DEF DeployUndo, HkDistinct, HkRids, HkBusy
    <2>2. HkRids \subseteq Backups /\ Backups \subseteq Rids
      BY DEF TypeOK, Shape, HkRids, HkBusy, Item, Rids
    <2>3. \A r \in Rids : binding'[r].status = "ACTIVE" => binding[r].status = "ACTIVE"
      BY SetStatusEffect, SMTT(20) DEF TypeOK, DeployUndo
    <2>4. \A r \in Rids : r # rid => deploy'[r] = deploy[r]
      BY EndDeployEffect DEF TypeOK, DeployUndo
    <2>5. rid \in Backups => deploy'[rid].stage = "none"
      BY EndDeployEffect DEF TypeOK, DeployUndo
    <2> QED  BY <2>1, <2>2, <2>3, <2>4, <2>5 DEF HkQuiet
  <1>6. CollectedQuiet'
    BY DEF CollectedQuiet, Collected, HkRids, HkBusy, Selected, DeployUndo, EndDeploy
  <1>7. ChoosingQuiet'
    BY SetStatusEffect, EndDeployEffect DEF TypeOK, ChoosingQuiet, Rids, Item, Choosing,
        HkRids, HkBusy, Selected, DeployUndo
  <1>8. SelectedQuiet'
    BY DEF Shape, SelectedQuiet, Rids, Selected, HkRids, HkBusy, DeployUndo, SetStatus,
        EndDeploy
  <1>9. SelectionExclusive'
    BY DEF SelectionExclusive, DeployUndo
  <1>10. EdgesKept
    BY SetStatusEffect, EndDeployEffect DEF TypeOK, EdgesKept, Rids, Carries, Selected,
        Choosing, DeployUndo
  <1> QED  BY <1>1, <1>2, <1>3, <1>4, <1>5, <1>6, <1>7, <1>8, <1>9, <1>10, EdgesFrame

\* delete_edge deletes the row and the vnic rows.
LEMMA DeleteDbKeeps ==
  ASSUME PoolAssumption, ~HostGroups, IInv, NEW d \in deletes, DeleteDb(d)
  PROVE  IInv'
  <1>1. TypeOK'
    BY DEF TypeOK, Rids, Row, DeleteDb, DeleteRow, NoRow
  <1>2. Shape'
    BY DEF Shape, Collected, Selected, DeleteDb
  <1>3. Section'
    BY DEF Section, InSection, DeleteDb
  <1>4. RowsKept
    BY DEF Settled, HkQuiet, RowsKept, HkRids, HkBusy, HkDistinct, Collected, Choosing,
        Selected, DeleteDb, DeleteRow, NoRow
  <1>5. EdgesKept
    BY DEF EdgesKept, Carries, Selected, Choosing, DeleteDb, DeleteRow, NoRow
  <1> QED  BY <1>1, <1>2, <1>3, <1>4, <1>5, RowsFrame, EdgesFrame

\* delete_edge destroys the appliance.
LEMMA DeleteBackendKeeps ==
  ASSUME PoolAssumption, ~HostGroups, IInv, NEW d \in deletes, DeleteBackend(d)
  PROVE  IInv'
  <1>1. TypeOK'
    BY DEF TypeOK, DeleteBackend, DestroyEdge
  <1>2. Shape'
    BY DEF Shape, Collected, Selected, DeleteBackend
  <1>3. Section'
    BY DEF Section, InSection, DeleteBackend
  <1>4. RowsKept
    BY DEF Settled, HkQuiet, RowsKept, HkRids, HkBusy, HkDistinct, Collected, Choosing,
        Selected, DeleteBackend
  <1>5. EdgesKept
    BY DEF EdgesKept, Carries, Selected, Choosing, DeleteBackend
  <1> QED  BY <1>1, <1>2, <1>3, <1>4, <1>5, RowsFrame, EdgesFrame

-----------------------------------------------------------------------------
(* The housekeeper.                                                        *)

\* The housekeeper reads the rows in ERROR under the pool lock.
LEMMA HkReadKeeps ==
  ASSUME PoolAssumption, ~HostGroups, IInv, HkRead
  PROVE  IInv'
  <1>1. TypeOK'
    BY DEF TypeOK, Rids, Row, Item, HkRead, ItemOf, Broken
  <1>2. Shape'
    BY DEF Shape, Collected, Selected, HkRead
  <1>3. Section'
    BY DEF Section, InSection, HkRead
  <1>4. Settled'
    BY DEF Settled, HkRead
  <1>5. HkQuiet'
    BY DEF Settled, HkQuiet, HkRids, HkBusy, HkDistinct, HkRead, ItemOf, Broken
  <1>6. CollectedQuiet'
    BY DEF Section, CollectedQuiet, InSection, FreeLabels, Collected, HkRead
  <1>7. ChoosingQuiet'
    BY DEF Section, ChoosingQuiet, InSection, Choosing, HkRead
  <1>8. SelectedQuiet'
    BY DEF SelectedQuiet, Selected, HkRids, HkBusy, HkRead, ItemOf, Broken
  <1>9. SelectionExclusive'
    BY DEF SelectionExclusive, HkRead
  <1>10. EdgesKept
    BY DEF EdgesKept, Carries, Selected, Choosing, HkRead
  <1> QED  BY <1>1, <1>2, <1>3, <1>4, <1>5, <1>6, <1>7, <1>8, <1>9, <1>10, EdgesFrame

\* The housekeeper takes the lock of one edge, or ends at a row without one.
LEMMA HkPickKeeps ==
  ASSUME PoolAssumption, ~HostGroups, IInv, HkPick
  PROVE  IInv'
  <1>1. TypeOK'
    BY DEF TypeOK, HkPick
  <1>2. Shape'
    BY DEF TypeOK, Shape, Item, Collected, Selected, HkPick
  <1>3. Section'
    BY DEF Section, InSection, HkPick
  <1>4. RowsKept
    BY DEF Settled, HkQuiet, RowsKept, HkRids, HkBusy, HkDistinct, Collected, Choosing,
        Selected, HkPick
  <1>5. EdgesKept
    BY DEF EdgesKept, Carries, Selected, Choosing, HkPick
  <1> QED  BY <1>1, <1>2, <1>3, <1>4, <1>5, RowsFrame, EdgesFrame

\* The housekeeper has repaired all it has read.
LEMMA HkEndKeeps ==
  ASSUME PoolAssumption, ~HostGroups, IInv, HkEnd
  PROVE  IInv'
  <1>1. TypeOK'
    BY DEF TypeOK, HkEnd
  <1>2. Shape'
    BY DEF Shape, Collected, Selected, HkEnd
  <1>3. Section'
    BY DEF Section, InSection, HkEnd
  <1>4. RowsKept
    BY DEF Settled, RowsKept, HkRids, HkBusy, HkDistinct, Collected, Choosing, Selected, HkEnd
  <1>5. EdgesKept
    BY DEF EdgesKept, Carries, Selected, Choosing, HkEnd
  <1> QED  BY <1>1, <1>2, <1>3, <1>4, <1>5, RowsFrame, EdgesFrame

\* The housekeeper updates the edge, or leaves the row in ERROR.
LEMMA HkUpdateKeeps ==
  ASSUME PoolAssumption, ~HostGroups, IInv, HkUpdate
  PROVE  IInv'
  <1>1. TypeOK'
    BY SetStatusEffect DEF TypeOK, HkUpdate
  <1>2. Shape'
    BY DEF Shape, Collected, Selected, HkUpdate
  <1>3. Section'
    BY DEF Section, InSection, HkUpdate
  <1>4. Settled'
    BY SetStatusEffect DEF TypeOK, Settled, HkQuiet, ChoosingQuiet, Carried, Rids, Labels,
        HkRids, HkBusy, HkUpdate
  <1>5. HkQuiet'
    <2>1. HkRids' \subseteq HkRids /\ HkDistinct' /\ UNCHANGED deploy
      BY DEF HkUpdate, HkQuiet, HkDistinct, HkRids, HkBusy
    <2>2. \A r \in Rids : binding'[r].status = "ACTIVE" => binding[r].status = "ACTIVE"
      <3>1. CASE SetStatus({hkCur.rid}, "ERROR")
        BY <3>1, SetStatusEffect, SMTT(20) DEF TypeOK
      <3>2. CASE UNCHANGED binding
        BY <3>2
      <3> QED  BY <3>1, <3>2 DEF HkUpdate
    <2>3. HkRids \subseteq Backups
      BY DEF TypeOK, Shape, HkRids, HkBusy, Item
    <2> QED  BY <2>1, <2>2, <2>3 DEF HkQuiet, Rids
  <1>6. CollectedQuiet'
    BY DEF CollectedQuiet, Collected, HkRids, HkBusy, Selected, HkUpdate
  <1>7. ChoosingQuiet'
    <2>1. /\ UNCHANGED <<pc, bak, cand, ret, deploy>> /\ HkRids' \subseteq HkRids
          /\ hkCur.rid \in HkRids /\ HkRids \subseteq Backups
      BY DEF HkUpdate, TypeOK, Shape, HkRids, HkBusy, Item
    <2>2. \A r \in Rids \ HkRids : binding'[r].status = binding[r].status
      <3>1. CASE SetStatus({hkCur.rid}, "ERROR")
        BY <2>1, <3>1, SetStatusEffect, SMTT(20) DEF TypeOK
      <3>2. CASE UNCHANGED binding
        BY <3>2
      <3> QED  BY <3>1, <3>2 DEF HkUpdate
    <2>3. \A t \in Threads : \A x \in cand[t] : x.rid \in Rids
      BY DEF TypeOK, Item, Rids
    <2>4. \A u \in Threads : (Choosing(u)' <=> Choosing(u)) /\ (Selected(u)' <=> Selected(u))
      BY <2>1 DEF Choosing, Selected
    <2>5. \A t \in Threads : \A x \in cand[t] : Choosing(t) =>
            /\ deploy'[x.rid].stage = "none" /\ x.rid \notin HkRids'
            /\ binding'[x.rid].status # "ERROR"
            /\ \A u \in Threads : Selected(u) => bak'[u] # x.rid
      <3> SUFFICES ASSUME NEW t \in Threads, NEW x \in cand[t], Choosing(t)
                   PROVE  /\ deploy'[x.rid].stage = "none" /\ x.rid \notin HkRids'
                          /\ binding'[x.rid].status # "ERROR"
                          /\ \A u \in Threads : Selected(u) => bak'[u] # x.rid
        OBVIOUS
      <3>1. /\ deploy[x.rid].stage = "none" /\ x.rid \notin HkRids
            /\ binding[x.rid].status # "ERROR"
            /\ \A u \in Threads : Selected(u) => bak[u] # x.rid
        BY DEF ChoosingQuiet
      <3>2. binding'[x.rid].status = binding[x.rid].status
        BY <2>2, <2>3, <3>1
      <3> QED  BY <2>1, <3>1, <3>2
    <2>6. cand' = cand
      BY <2>1
    <2> QED  BY <2>4, <2>5, <2>6 DEF ChoosingQuiet
  <1>8. SelectedQuiet'
    BY DEF Shape, SelectedQuiet, Rids, Selected, HkRids, HkBusy, HkUpdate, SetStatus
  <1>9. SelectionExclusive'
    BY DEF SelectionExclusive, HkUpdate
  <1>10. EdgesKept
    BY SetStatusEffect DEF TypeOK, EdgesKept, Carries, Selected, Choosing, HkUpdate
  <1> QED  BY <1>1, <1>2, <1>3, <1>4, <1>5, <1>6, <1>7, <1>8, <1>9, <1>10, EdgesFrame

\* The housekeeper makes the row it repaired ACTIVE: nothing else was at work on it.
LEMMA HkActivateKeeps ==
  ASSUME PoolAssumption, ~HostGroups, IInv, HkActivate
  PROVE  IInv'
  <1>1. TypeOK'
    <2>1. binding' \in [Rids -> Row] /\ undated' \subseteq Rids /\ late' \subseteq Rids
      BY SetStatusEffect DEF TypeOK, HkActivate
    <2>2. edgeLock' \in [Edges -> Threads \cup {NoThread, Hk}] /\ poolLock' = poolLock
      BY DEF TypeOK, HkActivate, HkDone, ReleaseEdge
    <2>3. hkPc' \in {"pick", "purge"} /\ hkTodo' = hkTodo /\ hkCur' \in {hkCur, NoItem}
      BY DEF HkActivate, HkDone
    <2>4. UNCHANGED <<vnics, backend, pc, locals, jobVars>>
      BY DEF HkActivate
    <2> QED  BY <2>1, <2>2, <2>3, <2>4 DEF TypeOK
  <1>2. Shape'
    BY DEF Shape, Collected, Selected, HkActivate, HkDone
  <1>3. Section'
    BY DEF Section, InSection, HkActivate, HkDone, ReleaseEdge
  <1>4. Settled'
    BY SetStatusEffect DEF TypeOK, Settled, HkQuiet, CollectedQuiet, ChoosingQuiet, Rids,
        HkRids, HkBusy, HkActivate
  <1>5. HkQuiet'
    BY SMTT(30), SetStatusEffect DEF TypeOK, HkQuiet, Rids, Row, Item, Stages, NoItem, HkRids,
        HkBusy, HkDistinct, HkActivate, Exists, HkDone
  <1>6. CollectedQuiet'
    BY DEF CollectedQuiet, Collected, HkRids, HkBusy, Selected, HkActivate, HkDone
  <1>7. ChoosingQuiet'
    BY SMTT(30), SetStatusEffect DEF TypeOK, ChoosingQuiet, Section, InSection, FreeLabels,
        Rids, Item, Pending, Choosing, HkRids, HkBusy, Selected, HkActivate, HkDone
  <1>8. SelectedQuiet'
    BY DEF Shape, SelectedQuiet, Rids, Selected, HkRids, HkBusy, HkActivate, SetStatus, HkDone
  <1>9. SelectionExclusive'
    BY DEF SelectionExclusive, HkActivate
  <1>10. EdgesKept
    BY SetStatusEffect DEF TypeOK, EdgesKept, Carries, Selected, Choosing, HkActivate
  <1> QED  BY <1>1, <1>2, <1>3, <1>4, <1>5, <1>6, <1>7, <1>8, <1>9, <1>10, EdgesFrame

\* The housekeeper marks a row it cannot repair; a row that is gone is skipped.
LEMMA HkMarkKeeps ==
  ASSUME PoolAssumption, ~HostGroups, IInv, HkMark
  PROVE  IInv'
  <1>1. TypeOK'
    BY SetStatusEffect DEF TypeOK, Pending, HkMark
  <1>2. Shape'
    BY DEF Shape, Collected, Selected, HkMark
  <1>3. Section'
    BY DEF Section, InSection, HkMark
  <1>4. RowsKept
    BY SetStatusEffect DEF TypeOK, Settled, HkQuiet, RowsKept, Rids, Pending, HkRids, HkBusy,
        HkDistinct, Collected, Choosing, Selected, HkMark
  <1>5. EdgesKept
    BY SetStatusEffect DEF TypeOK, EdgesKept, Pending, Carries, Selected, Choosing, HkMark
  <1> QED  BY <1>1, <1>2, <1>3, <1>4, <1>5, RowsFrame, EdgesFrame

\* The housekeeper deletes the rows of an edge it cannot repair.
LEMMA HkPurgeKeeps ==
  ASSUME PoolAssumption, ~HostGroups, IInv, HkPurge
  PROVE  IInv'
  <1>1. TypeOK'
    BY DEF TypeOK, Shape, Rids, Row, Item, HkPurge, DeleteRow, NoRow
  <1>2. Shape'
    BY DEF Shape, Collected, Selected, HkPurge
  <1>3. Section'
    BY DEF Section, InSection, HkPurge
  <1>4. RowsKept
    BY DEF Settled, HkQuiet, RowsKept, HkRids, HkBusy, HkDistinct, Collected, Choosing,
        Selected, HkPurge, DeleteRow, NoRow
  <1>5. EdgesKept
    BY DEF EdgesKept, Carries, Selected, Choosing, HkPurge, DeleteRow, NoRow
  <1> QED  BY <1>1, <1>2, <1>3, <1>4, <1>5, RowsFrame, EdgesFrame

\* The housekeeper destroys the appliance.
LEMMA HkDestroyKeeps ==
  ASSUME PoolAssumption, ~HostGroups, IInv, HkDestroy
  PROVE  IInv'
  <1>1. TypeOK'
    BY DEF TypeOK, Shape, HkDestroy, DestroyEdge, HkDone, ReleaseEdge
  <1>2. Shape'
    BY DEF Shape, Collected, Selected, HkDestroy, HkDone
  <1>3. Section'
    BY DEF Section, InSection, HkDestroy, HkDone, ReleaseEdge
  <1>4. RowsKept
    BY DEF Settled, HkQuiet, RowsKept, HkRids, HkBusy, HkDistinct, Collected, Choosing,
        Selected, HkDestroy, HkDone
  <1>5. EdgesKept
    BY DEF EdgesKept, Carries, Selected, Choosing, HkDestroy
  <1> QED  BY <1>1, <1>2, <1>3, <1>4, <1>5, RowsFrame, EdgesFrame

-----------------------------------------------------------------------------
(* The environment.                                                        *)

\* A pending row grows old.
LEMMA ExpireKeeps ==
  ASSUME PoolAssumption, ~HostGroups, IInv, NEW b \in Backups, Expire(b)
  PROVE  IInv'
  <1>1. TypeOK'
    BY DEF TypeOK, Rids, Expire
  <1>2. Shape'
    BY DEF Shape, Collected, Selected, Expire
  <1>3. Section'
    BY DEF Section, InSection, Expire
  <1>4. RowsKept
    BY DEF Settled, HkQuiet, RowsKept, HkRids, HkBusy, HkDistinct, Collected, Choosing,
        Selected, Expire
  <1>5. EdgesKept
    BY DEF EdgesKept, Carries, Selected, Choosing, Expire
  <1> QED  BY <1>1, <1>2, <1>3, <1>4, <1>5, RowsFrame, EdgesFrame

\* A restart forgets every thread, deployment and deletion.
LEMMA CrashKeeps ==
  ASSUME PoolAssumption, ~HostGroups, IInv, Crash
  PROVE  IInv'
  <1>1. TypeOK'
    BY DEF TypeOK, Labels, Stages, Crash, NoDeploy
  <1>2. Shape'
    BY DEF Shape, FreeLabels, Collected, Selected, Crash, NoDeploy
  <1>3. Section'
    BY DEF Section, FreeLabels, InSection, Crash
  <1>4. RowsKept
    BY DEF RowsKept, Rids, HkRids, HkBusy, HkDistinct, Collected, Choosing, Selected, Crash,
        NoDeploy
  <1>5. EdgesKept
    BY DEF EdgesKept, Carries, Choosing, Crash, NoDeploy
  <1> QED  BY <1>1, <1>2, <1>3, <1>4, <1>5, RowsFrame, EdgesFrame

-----------------------------------------------------------------------------
(* Every step, and the theorems.                                           *)

\* Each step of a clean-up.
LEMMA CleaningKeeps ==
  ASSUME PoolAssumption, ~HostGroups, IInv, NEW t \in Threads, Cleaning(t)
  PROVE  IInv'
  BY MarkKeeps, SpawnDeleteKeeps, SpawnEndKeeps, SpawnReturnKeeps DEF Cleaning

\* Each step of an allocation.
LEMMA AllocatingKeeps ==
  ASSUME PoolAssumption, ~HostGroups, IInv, NEW t \in Threads, Allocating(t)
  PROVE  IInv'
  BY AllocLockKeeps, AllocListKeeps, AllocPickKeeps, AllocDiscardKeeps, AllocNoneKeeps,
     AllocTakeKeeps, AllocUnbindKeeps, AllocBindKeeps, AllocEdgeKeeps, AllocDoneKeeps,
     AllocAddKeeps, AllocDeployedKeeps, AllocCountKeeps, AllocRefillKeeps, AllocLostKeeps DEF
     Allocating

\* Each step of a collection.
LEMMA CollectingKeeps ==
  ASSUME PoolAssumption, ~HostGroups, IInv, NEW t \in Threads, Collecting(t)
  PROVE  IInv'
  BY FreeLockKeeps, FreeUnbindKeeps, FreeAddKeeps, FreeDiscardKeeps, FreeCleanKeeps,
     FreeCollectKeeps, FreeSurplusKeeps, FreeUpdateKeeps, FreeVnicsKeeps, FreePoolKeeps DEF
     Collecting

\* Each step of the worker pool.
LEMMA WorkerKeeps == ASSUME PoolAssumption, ~HostGroups, IInv, Worker PROVE IInv'
  <1>1. ASSUME NEW b \in Backups, DeployStart(b) PROVE IInv'
    BY <1>1, DeployStartKeeps
  <1>2. ASSUME NEW rid \in Rids, DeployStep(rid) PROVE IInv'
    BY <1>2, DeployBackendKeeps, DeployRecordKeeps, DeployVnicsKeeps, DeployDoneKeeps,
       DeployGroupsKeeps, DeployUndoKeeps DEF DeployStep
  <1>3. ASSUME NEW d \in deletes, DeleteDb(d) \/ DeleteBackend(d) PROVE IInv'
    BY <1>3, DeleteDbKeeps, DeleteBackendKeeps
  <1> QED  BY <1>1, <1>2, <1>3 DEF Worker

\* Each step of the housekeeper.
LEMMA HousekeeperKeeps == ASSUME PoolAssumption, ~HostGroups, IInv, Housekeeper PROVE IInv'
  BY HkReadKeeps, HkPickKeeps, HkEndKeeps, HkUpdateKeeps, HkActivateKeeps, HkMarkKeeps,
     HkPurgeKeeps, HkDestroyKeeps DEF Housekeeper

\* Each step of the system.
LEMMA NextKeeps == ASSUME PoolAssumption, ~HostGroups, IInv, Next PROVE IInv'
  <1>1. CASE Boot
    BY <1>1, BootCleanKeeps, BootFillKeeps, BootTrimKeeps DEF Boot
  <1>2. ASSUME NEW t \in Threads, Thread(t) PROVE IInv'
    BY <1>2, CleaningKeeps, AllocatingKeeps, CollectingKeeps DEF Thread
  <1>3. ASSUME NEW t \in Threads, NEW r \in Routers, StartAlloc(t, r) \/ StartFree(t, r)
        PROVE  IInv'
    BY <1>3, StartAllocKeeps, StartFreeKeeps
  <1>4. CASE Worker
    BY <1>4, WorkerKeeps
  <1>5. CASE Housekeeper
    BY <1>5, HousekeeperKeeps
  <1>6. CASE Environment
    BY <1>6, CrashKeeps, ExpireKeeps DEF Environment
  <1> QED  BY <1>1, <1>2, <1>3, <1>4, <1>5, <1>6 DEF Next

\* The invariant holds for any number of threads, routers, backup rows and edges, through
\* restarts, expired pending states and routers deleted while they are created, as long
\* as complete_edge_creation has no host groups to update after the row is ACTIVE.
THEOREM PoolInvariant == ASSUME ~HostGroups PROVE Spec => []IInv
  <1>1. Init => IInv
    BY PoolAssumption, InitIInv
  <1>2. IInv /\ [Next]_vars => IInv'
    BY PoolAssumption, NextKeeps, StutterKeeps
  <1> QED  BY <1>1, <1>2, PTL DEF Spec

\* Every operation on the bindings, the locks, the threads and the jobs keeps their types.
THEOREM TypeCorrect == ASSUME ~HostGroups PROVE Spec => []TypeOK
  <1>1. IInv => TypeOK
    OBVIOUS
  <1> QED  BY <1>1, PoolInvariant, PTL

\* _allocate_edge_appliance, _free_edge_appliance, deploy_edge, delete_edge and the
\* error_backup_edge job never bind one edge to two resources.
THEOREM EdgesExclusive == ASSUME ~HostGroups PROVE Spec => []EdgeExclusive
  <1>1. IInv => EdgeExclusive
    OBVIOUS
  <1> QED  BY <1>1, PoolInvariant, PTL

\* _get_available_router_binding never gives one row of the pool to two allocations, for
\* the status is PENDING_UPDATE before the pool lock is released.
THEOREM SelectionsExclusive == ASSUME ~HostGroups PROVE Spec => []SelectionExclusive
  <1>1. IInv => SelectionExclusive
    OBVIOUS
  <1> QED  BY <1>1, PoolInvariant, PTL

=============================================================================
