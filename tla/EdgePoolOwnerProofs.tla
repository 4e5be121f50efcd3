------------------------ MODULE EdgePoolOwnerProofs ------------------------
(***************************************************************************)
(* Proofs about what EdgePool promises to the routers, for every number of *)
(* threads, routers, backup rows and edges, as long as no edge host groups *)
(* are configured and no pending state outlives MAX_EDGE_PENDING_SEC: no   *)
(* edge of a router is deleted, no row sent to deletion comes back, and    *)
(* the pool implements EdgeOwner, also when the server restarts; as long   *)
(* as it does not, a row that is ACTIVE is usable, and, when no router is  *)
(* deleted while it is created, no step loses the id of an edge.           *)
(*                                                                         *)
(* IInv of EdgePoolProofs says whose a row or an edge is.  OInv adds what  *)
(* the holder knows of it: the status of the row, and that an edge sent to *)
(* deletion is in nobody's hands.  Wired adds where the vnic rows of an    *)
(* edge are, Kept who remembers an edge, and Counted how many rows the     *)
(* pool has and is about to get.                                           *)
(***************************************************************************)
EXTENDS EdgePoolProofs, EdgePoolOwner

RowIs(rid, status, e) == binding[rid] = [status |-> status, edge |-> e]

\* An edge that nobody can come to use.
Doomed(e) ==
  /\ \A rid \in Rids : binding[rid].edge = e => rid \in Backups /\ binding[rid].status = "PENDING_DELETE"
  /\ \A t \in Threads : ~Carries(t, e)
  /\ \A rid \in Rids : deploy[rid].stage = "record" => deploy[rid].edge # e
\* A row and an edge that are sent to deletion.
Sent(x) ==
  /\ ~Exists(x.rid) \/ RowIs(x.rid, "PENDING_DELETE", x.edge)
  /\ x.edge \in Edges => Doomed(x.edge)

\* The requests that allocate, and those that have not yet added the row of their router.
Clears(t, labels) == pc[t] \in {"mark", "spawn"} /\ ret[t] \in labels
Unbound(t) == \/ pc[t] \in {"aLock", "aList", "aPick", "aTake", "aUnbind", "aBind", "aAdd"}
              \/ Clears(t, {"aList", "aPick"})
Allocates(t) == Unbound(t) \/ pc[t] \in {"aEdge", "aDone", "aDeploy", "aCount", "aRefill"}
\* Those that collect an edge and have not yet sent it to deletion.
Renews(t) == pc[t] \in {"fCheck", "fCount", "fUpdate", "fActive", "fPool"} \/ Clears(t, {"fCount"})

\* A router with no row, for which nobody deploys.
Absent(r) == ~Exists(r) /\ deploy[r].stage = "none"
\* What a thread knows of the rows that it has read or written.
Holds(t) ==
  /\ pc[t] = "mark" => \A x \in todo[t] : HkReadonly /\ RowIs(x.rid, "ERROR", x.edge)
  /\ pc[t] = "spawn" => \A x \in todo[t] : Sent(x)
  /\ Choosing(t) => \A x \in cand[t] : RowIs(x.rid, "ACTIVE", x.edge)
  /\ pc[t] = "aTake" => RowIs(bak[t], "ACTIVE", eid[t])
  /\ pc[t] = "aUnbind" => RowIs(bak[t], "PENDING_UPDATE", eid[t])
  /\ Renews(t) => RowIs(bak[t], "PENDING_UPDATE", eid[t])
  /\ pc[t] = "fError" => RowIs(bak[t], "ERROR", eid[t])
  /\ Unbound(t) => Absent(rtr[t])
\* What the housekeeper and the workers know.
HkHolds ==
  /\ \A x \in hkTodo : RowIs(x.rid, "ERROR", x.edge)
  /\ hkPc \in {"update", "activate", "purge"} => RowIs(hkCur.rid, "ERROR", hkCur.edge)
  /\ hkPc \in {"erase", "destroy"} => Sent(hkCur)
Leaving == \A d \in deletes : Sent(d) /\ (d.stage = "backend" => d.edge \in Edges)

\* Nobody works while EdgeManager is constructed, and one of clean-up and job is idle.
MainBoots == \A t \in Threads :
  pc[t] \in {"bClean", "bCount"} \/ ret[t] \in {"bCount", "bEnd"} => t = Main
BootLabels == {"bClean", "bCount", "mark", "spawn"}
BootAlone == Booting => /\ pc[Main] \in BootLabels
                        /\ \A t \in Threads \ {Main} : pc[t] = "idle"
                        /\ hkPc = "idle" /\ \A rid \in Rids : deploy[rid].stage = "none"
HkAlone == HkReadonly => hkPc = "idle" /\ hkTodo = {}
\* One request allocates for a router, whose row is never that of the pool.
OneAlloc == \A t, u \in Threads : t # u /\ Allocates(t) /\ Allocates(u) => rtr[t] # rtr[u]
RouterRows == \A r \in Routers : binding[r].status # "PENDING_DELETE"
NoRows == \A rid \in Rids : ~Exists(rid) => binding[rid].edge = NoEdge
Deploying ==
  /\ \A b \in Backups : deploy[b].stage # "none" => binding[b].status = "PENDING_CREATE"
  /\ \A rid \in Rids : deploy[rid].stage \in {"queued", "backend", "record"} => binding[rid].edge = NoEdge
Control == MainBoots /\ BootAlone /\ HkAlone /\ OneAlloc
RowsOrderly == late = {} /\ RouterRows /\ NoRows /\ Deploying

\* The edges in use are at the backend.
Backed ==
  /\ \A rid \in Rids : binding[rid].edge \in Edges /\ binding[rid].status # "PENDING_DELETE"
                         => binding[rid].edge \in backend
  /\ \A t \in Threads, e \in Edges : Carries(t, e) => e \in backend
  /\ \A rid \in Rids : deploy[rid].stage = "record" => deploy[rid].edge \in backend

OInv == Control /\ RowsOrderly /\ (\A t \in Threads : Holds(t)) /\ HkHolds /\ Leaving /\ Backed

\* What no step does to a row that is sent to deletion.
Buried == \A rid \in Rids : binding[rid].status = "PENDING_DELETE"
                              => binding'[rid].status \in {"PENDING_DELETE", "NONE"}

-----------------------------------------------------------------------------
(* What a step may do to the rows and edges of the others.                 *)

\* The rows of which a thread knows the status.
OwnsRow(t, b) ==
  \/ pc[t] = "mark" /\ \E x \in todo[t] : x.rid = b
  \/ Choosing(t) /\ \E x \in cand[t] : x.rid = b
  \/ (Selected(t) \/ Renews(t) \/ pc[t] = "fError") /\ bak[t] = b
Same(u) == /\ pc'[u] = pc[u] /\ rtr'[u] = rtr[u] /\ bak'[u] = bak[u] /\ eid'[u] = eid[u]
           /\ cand'[u] = cand[u] /\ todo'[u] = todo[u] /\ ret'[u] = ret[u]

MyRows(t) == {b \in Backups : OwnsRow(t, b)}

\* Of the rows in use, only those of the actor change, and those sent to deletion go.
RowsStep(mine) ==
  \A b \in Backups : \/ binding'[b] = binding[b]
                     \/ b \in mine
                     \/ b \notin RidsInUse
                     \/ binding[b].status = "PENDING_DELETE" /\ binding'[b] = NoRow
\* No edge gets a new owner.
Shrinks ==
  /\ \A rid \in Rids : /\ binding'[rid].edge \in {binding[rid].edge, NoEdge}
                       /\ deploy'[rid].stage = "record" => deploy'[rid] = deploy[rid]
  /\ \A t \in Threads, e \in Edges : Carries(t, e)' => Carries(t, e)
\* Edges that nobody can come to use stay so, as long as somebody remembers them.
DoomedStay == \A e \in Edges \cap EdgesInUse : Doomed(e) => Doomed(e)'
\* What is handed to the workers is sent to deletion.
Handed == \A d \in deletes' : d \in deletes \/ (Sent(d)' /\ (d.stage = "backend" => d.edge \in Edges))
\* A thread goes on, and the others and the housekeeper do nothing.
Proceeds(t) ==
  /\ \A u \in Threads \ {t} : Same(u)
  /\ UNCHANGED hkVars
  /\ pc[t] # "idle" \/ ~Booting
  /\ (pc'[t] \in {"bClean", "bCount"} \/ ret'[t] \in {"bCount", "bEnd"})
       => (pc[t] \in {"bClean", "bCount"} \/ ret[t] \in {"bCount", "bEnd"})

-----------------------------------------------------------------------------
(* Frames.                                                                 *)

\* A fresh row id and a fresh edge are named nowhere.
LEMMA NamedInUse ==
  /\ \A t \in Threads : \A x \in cand[t] \cup todo[t] : x.rid \in RidsInUse /\ x.edge \in EdgesInUse
  /\ \A t \in Threads : bak[t] \in RidsInUse /\ rtr[t] \in RidsInUse /\ eid[t] \in EdgesInUse
  /\ \A d \in deletes \cup hkTodo \cup {hkCur} : d.rid \in RidsInUse /\ d.edge \in EdgesInUse
  /\ \A rid \in Rids : Exists(rid) => rid \in RidsInUse
  /\ \A rid \in Rids : deploy[rid].stage # "none" => rid \in RidsInUse
  <1>1. \A t \in Threads : \A x \in cand[t] \cup todo[t] : x \in UNION {cand[u] \cup todo[u] : u \in Threads}
    OBVIOUS
  <1>2. \A t \in Threads : \A x \in cand[t] \cup todo[t] : x.rid \in RidsInUse
    BY <1>1 DEF RidsInUse
  <1>3. \A t \in Threads : \A x \in cand[t] \cup todo[t] : x.edge \in EdgesInUse
    BY <1>1 DEF EdgesInUse
  <1>4. \A t \in Threads : bak[t] \in RidsInUse /\ rtr[t] \in RidsInUse
    BY DEF RidsInUse
  <1>5. \A t \in Threads : eid[t] \in EdgesInUse
    BY DEF EdgesInUse
  <1>6. \A d \in deletes \cup hkTodo \cup {hkCur} : d.rid \in RidsInUse
    BY DEF RidsInUse
  <1>7. \A d \in deletes \cup hkTodo \cup {hkCur} : d.edge \in EdgesInUse
    BY DEF EdgesInUse
  <1>8. \A rid \in Rids : Exists(rid) \/ deploy[rid].stage # "none" => rid \in RidsInUse
    BY DEF RidsInUse
  <1> QED  BY <1>2, <1>3, <1>4, <1>5, <1>6, <1>7, <1>8

\* What a thread knows the status of exists and is not sent to deletion.
LEMMA OwnedStatus ==
  ASSUME IInv, OInv, NEW t \in Threads, NEW b \in Backups, OwnsRow(t, b)
  PROVE  binding[b].status \in {"ACTIVE", "ERROR", "PENDING_UPDATE"} /\ b \in RidsInUse
  <1> SUFFICES binding[b].status \in {"ACTIVE", "ERROR", "PENDING_UPDATE"}
    BY NamedInUse DEF Exists, Rids
  <1>1. Holds(t)
    BY DEF OInv
  <1>2. CASE pc[t] = "mark" /\ \E x \in todo[t] : x.rid = b
    <2>1. PICK x \in todo[t] : x.rid = b
      BY <1>2
    <2>2. binding[b] = [status |-> "ERROR", edge |-> x.edge]
      BY <1>1, <1>2, <2>1 DEF Holds, RowIs
    <2> QED  BY <2>2
  <1>3. CASE Choosing(t) /\ \E x \in cand[t] : x.rid = b
    <2>1. PICK x \in cand[t] : x.rid = b
      BY <1>3
    <2>2. binding[b] = [status |-> "ACTIVE", edge |-> x.edge]
      BY <1>1, <1>3, <2>1 DEF Holds, RowIs
    <2> QED  BY <2>2
  <1>4. CASE Selected(t) /\ bak[t] = b
    <2>1. \/ binding[b] = [status |-> "ACTIVE", edge |-> eid[t]]
          \/ binding[b] = [status |-> "PENDING_UPDATE", edge |-> eid[t]]
      BY <1>1, <1>4 DEF Holds, RowIs, Selected
    <2> QED  BY <2>1
  <1>5. CASE (Renews(t) \/ pc[t] = "fError") /\ bak[t] = b
    <2>1. \/ binding[b] = [status |-> "ERROR", edge |-> eid[t]]
          \/ binding[b] = [status |-> "PENDING_UPDATE", edge |-> eid[t]]
      BY <1>1, <1>5 DEF Holds, RowIs
    <2> QED  BY <2>1
  <1> QED  BY <1>2, <1>3, <1>4, <1>5 DEF OwnsRow

\* Two threads do not know of one row.
LEMMA OwnedApart ==
  ASSUME PoolAssumption, IInv, OInv, NEW t \in Threads, NEW u \in Threads, t # u, NEW b \in Backups,
         OwnsRow(t, b), OwnsRow(u, b)
  PROVE  FALSE
  <1>1. ~Booting
    BY DEF OInv, Control, BootAlone, OwnsRow, Choosing, Selected, Renews, Clears, PoolAssumption
  <1>2. \A v \in Threads : OwnsRow(v, b) => InSection(v) \/ (pc[v] = "aUnbind" /\ bak[v] = b)
    BY <1>1 DEF IInv, Shape, OInv, Control, MainBoots, OwnsRow, InSection, Booting, Choosing, Selected,
       Renews,
       Clears, FreeLabels
  <1>3. ~(InSection(t) /\ InSection(u))
    BY DEF IInv, Section
  <1>4. ASSUME NEW v \in Threads, NEW w \in Threads, v # w, pc[v] = "aUnbind", bak[v] = b, OwnsRow(w, b)
        PROVE  FALSE
    <2> Holds(v) /\ Holds(w)
      BY DEF OInv
    <2>1. Selected(v) /\ binding[b].status = "PENDING_UPDATE"
      BY <1>4 DEF Selected, Holds, RowIs
    <2>2. CASE pc[w] = "mark" /\ \E x \in todo[w] : x.rid = b
      <3>1. PICK x \in todo[w] : x.rid = b
        BY <2>2
      <3>2. binding[b] = [status |-> "ERROR", edge |-> x.edge]
        BY <2>2, <3>1 DEF Holds, RowIs
      <3> QED  BY <2>1, <3>2
    <2>3. CASE Choosing(w) /\ \E x \in cand[w] : x.rid = b
      BY <1>4, <2>1, <2>3 DEF IInv, ChoosingQuiet
    <2>4. CASE Selected(w) /\ bak[w] = b
      BY <1>4, <2>1, <2>4 DEF IInv, SelectionExclusive, Selected
    <2>5. CASE (Renews(w) \/ pc[w] = "fError") /\ bak[w] = b
      <3>1. Collected(w)
        BY <2>5 DEF Renews, Clears, Collected
      <3> QED  BY <1>4, <2>1, <2>5, <3>1 DEF IInv, CollectedQuiet
    <2> QED  BY <1>4, <2>2, <2>3, <2>4, <2>5 DEF OwnsRow
  <1> QED  BY <1>2, <1>3, <1>4

\* Nor do a thread and the housekeeper.
LEMMA OwnedNotHk ==
  ASSUME IInv, OInv, NEW t \in Threads, NEW b \in Backups, OwnsRow(t, b)
  PROVE  b \notin HkRids
  <1>1. CASE pc[t] = "mark" /\ \E x \in todo[t] : x.rid = b
    BY <1>1 DEF OInv, Control, HkAlone, Holds, HkRids, HkBusy
  <1>2. CASE Choosing(t) /\ \E x \in cand[t] : x.rid = b
    BY <1>2 DEF IInv, ChoosingQuiet
  <1>3. CASE Selected(t) /\ bak[t] = b
    BY <1>3 DEF IInv, SelectedQuiet
  <1>4. CASE (Renews(t) \/ pc[t] = "fError") /\ bak[t] = b
    <2>1. Collected(t)
      BY <1>4 DEF Renews, Clears, Collected
    <2> QED  BY <1>4, <2>1 DEF IInv, CollectedQuiet
  <1> QED  BY <1>1, <1>2, <1>3, <1>4 DEF OwnsRow

\* A row and an edge that somebody remembers as sent to deletion stay sent.
LEMMA SentKept ==
  ASSUME NEW mine, RowsStep(mine), DoomedStay,
         \A b \in mine : binding[b].status \notin {"NONE", "PENDING_DELETE"},
         NEW x, x.rid \in Backups \cap RidsInUse, x.edge \in EdgesInUse, Sent(x)
  PROVE  Sent(x)'
  <1>1. binding'[x.rid] = binding[x.rid] \/ binding'[x.rid] = NoRow
    BY DEF RowsStep, Sent, RowIs, Exists
  <1>2. ~Exists(x.rid)' \/ RowIs(x.rid, "PENDING_DELETE", x.edge)'
    BY <1>1 DEF Sent, Exists, RowIs, NoRow
  <1>3. x.edge \in Edges => Doomed(x.edge)'
    BY DEF DoomedStay, Sent
  <1> QED  BY <1>2, <1>3 DEF Sent

\* Edges that nobody can come to use stay so while no edge gets an owner.
LEMMA ShrinksDoomed ==
  ASSUME PoolAssumption, NEW mine, RowsStep(mine), Shrinks,
         \A b \in mine : binding[b].status \notin {"NONE", "PENDING_DELETE"}
  PROVE  DoomedStay
  <1>1. ASSUME NEW e \in Edges, Doomed(e) PROVE Doomed(e)'
    <2>1. ASSUME NEW rid \in Rids, binding'[rid].edge = e
          PROVE  rid \in Backups /\ binding'[rid].status = "PENDING_DELETE"
      <3>1. binding[rid].edge = e
        BY <2>1 DEF Shrinks, PoolAssumption
      <3>2. rid \in Backups /\ binding[rid].status = "PENDING_DELETE"
        BY <1>1, <3>1 DEF Doomed
      <3>3. rid \in RidsInUse
        BY <3>2, NamedInUse DEF Exists
      <3>4. binding'[rid] # NoRow
        BY <2>1 DEF NoRow, PoolAssumption
      <3> QED  BY <3>2, <3>3, <3>4 DEF RowsStep
    <2>2. \A t \in Threads : ~Carries(t, e)'
      BY <1>1 DEF Shrinks, Doomed
    <2>3. \A rid \in Rids : deploy'[rid].stage = "record" => deploy'[rid].edge # e
      BY <1>1 DEF Shrinks, Doomed
    <2> QED  BY <2>1, <2>2, <2>3 DEF Doomed
  <1> QED  BY <1>1 DEF DoomedStay

\* The edges in use stay at the backend.
LEMMA ShrinksBacked ==
  ASSUME PoolAssumption, OInv, Shrinks, \A e \in backend \ backend' : Doomed(e),
         \A rid \in Rids : binding[rid].status = "PENDING_DELETE"
                             => binding'[rid].edge = NoEdge \/ binding'[rid].status = "PENDING_DELETE"
  PROVE  Backed'
  <1>1. ASSUME NEW rid \in Rids, binding'[rid].edge \in Edges, binding'[rid].status # "PENDING_DELETE"
        PROVE  binding'[rid].edge \in backend'
    <2>1. binding'[rid].edge = binding[rid].edge /\ binding[rid].status # "PENDING_DELETE"
      BY <1>1 DEF Shrinks, PoolAssumption
    <2> QED  BY <1>1, <2>1 DEF OInv, Backed, Doomed
  <1>2. ASSUME NEW t \in Threads, NEW e \in Edges, Carries(t, e)' PROVE e \in backend'
    BY <1>2 DEF OInv, Backed, Shrinks, Doomed
  <1>3. ASSUME NEW rid \in Rids, deploy'[rid].stage = "record" PROVE deploy'[rid].edge \in backend'
    BY <1>3 DEF OInv, Backed, Shrinks, Doomed
  <1> QED  BY <1>1, <1>2, <1>3 DEF Backed

\* A thread still knows what it knew after a step of somebody else.
LEMMA HoldsKept ==
  ASSUME PoolAssumption, IInv, OInv, NEW u \in Threads, Same(u), NEW mine, RowsStep(mine), DoomedStay,
         \A b \in mine : binding[b].status \notin {"NONE", "PENDING_DELETE"} /\ ~OwnsRow(u, b),
         Unbound(u) => Absent(rtr[u])'
  PROVE  Holds(u)'
  <1>1. Holds(u)
    BY DEF OInv
  <1>2. \A b \in Backups : OwnsRow(u, b) => binding'[b] = binding[b]
    BY OwnedStatus DEF RowsStep
  <1>3. (Choosing(u)' <=> Choosing(u)) /\ (Renews(u)' <=> Renews(u)) /\ (Unbound(u)' <=> Unbound(u))
    BY DEF Same, Choosing, Renews, Unbound, Clears
  <1>4. todo[u] \subseteq Item /\ cand[u] \subseteq Item
    BY DEF IInv, TypeOK
  <1>5. ASSUME pc'[u] = "mark", NEW x \in todo'[u]
        PROVE  HkReadonly /\ RowIs(x.rid, "ERROR", x.edge)'
    <2>1. x \in todo[u] /\ pc[u] = "mark" /\ x.rid \in Backups
      BY <1>5, <1>4 DEF Same, Item
    <2>2. OwnsRow(u, x.rid)
      BY <2>1 DEF OwnsRow
    <2> QED  BY <1>1, <1>2, <2>1, <2>2 DEF Holds, RowIs
  <1>6. ASSUME pc'[u] = "spawn", NEW x \in todo'[u] PROVE Sent(x)'
    <2>1. x \in todo[u] /\ pc[u] = "spawn" /\ x.rid \in Backups
      BY <1>6, <1>4 DEF Same, Item
    <2>2. Sent(x)
      BY <1>1, <2>1 DEF Holds
    <2>3. x.rid \in Backups \cap RidsInUse /\ x.edge \in EdgesInUse
      BY <2>1, NamedInUse
    <2> QED  BY <2>2, <2>3, SentKept
  <1>7. ASSUME Choosing(u)', NEW x \in cand'[u] PROVE RowIs(x.rid, "ACTIVE", x.edge)'
    <2>1. x \in cand[u] /\ Choosing(u) /\ x.rid \in Backups
      BY <1>7, <1>3, <1>4 DEF Same, Item
    <2>2. OwnsRow(u, x.rid)
      BY <2>1 DEF OwnsRow
    <2> QED  BY <1>1, <1>2, <2>1, <2>2 DEF Holds, RowIs
  <1>8. Selected(u) \/ Renews(u) \/ pc[u] = "fError" => binding'[bak[u]] = binding[bak[u]]
    <2>1. ASSUME Selected(u) \/ Renews(u) \/ pc[u] = "fError" PROVE bak[u] \in Backups /\ OwnsRow(u, bak[u])
      BY <2>1 DEF IInv, Shape, Renews, Clears, Collected, OwnsRow
    <2> QED  BY <2>1, <1>2
  <1>9. /\ pc'[u] = "aTake" => RowIs(bak[u], "ACTIVE", eid[u])'
        /\ pc'[u] = "aUnbind" => RowIs(bak[u], "PENDING_UPDATE", eid[u])'
        /\ Renews(u)' => RowIs(bak[u], "PENDING_UPDATE", eid[u])'
        /\ pc'[u] = "fError" => RowIs(bak[u], "ERROR", eid[u])'
    BY <1>1, <1>3, <1>8 DEF Same, Holds, RowIs, Selected
  <1>10. Unbound(u)' => Absent(rtr[u])'
    BY <1>3
  <1> QED  BY <1>5, <1>6, <1>7, <1>9, <1>10 DEF Holds

\* Whoever acts on rows that no other thread, and not the housekeeper, knows the status of
\* leaves everybody's knowledge true, and buries no row that is not sent to deletion.
LEMMA Frame ==
  ASSUME PoolAssumption, IInv, OInv, TypeOK', NEW mine, RowsStep(mine), DoomedStay, Handed,
         \A b \in mine : binding[b].status \notin {"NONE", "PENDING_DELETE"},
         \A u \in Threads : \/ Holds(u)'
                            \/ /\ Same(u) /\ (Unbound(u) => Absent(rtr[u])')
                               /\ \A b \in mine : ~OwnsRow(u, b),
         HkHolds' \/ (UNCHANGED hkVars /\ \A b \in mine : b \notin HkRids),
         RouterRows'
  PROVE  (\A u \in Threads : Holds(u)') /\ HkHolds' /\ Leaving' /\ Buried
  <1>1. ASSUME NEW u \in Threads PROVE Holds(u)'
    BY <1>1, HoldsKept
  <1>2. HkHolds'
    <2>1. SUFFICES ASSUME UNCHANGED hkVars, \A b \in mine : b \notin HkRids PROVE HkHolds'
      OBVIOUS
    <2>2. HkHolds /\ hkTodo \subseteq Item /\ (HkBusy => hkCur \in Item)
      BY DEF OInv, IInv, TypeOK, Shape, HkBusy
    <2>3. ASSUME NEW x \in hkTodo PROVE RowIs(x.rid, "ERROR", x.edge)'
      <3>1. RowIs(x.rid, "ERROR", x.edge) /\ x.rid \in Backups /\ x.rid \in HkRids /\ x.rid \in RidsInUse
        BY <2>2, NamedInUse DEF HkHolds, HkRids, Item
      <3> QED  BY <2>1, <3>1 DEF RowsStep, RowIs
    <2>4. ASSUME hkPc \in {"update", "activate", "purge"} PROVE RowIs(hkCur.rid, "ERROR", hkCur.edge)'
      <3>1. RowIs(hkCur.rid, "ERROR", hkCur.edge) /\ hkCur.rid \in Backups
            /\ hkCur.rid \in HkRids /\ hkCur.rid \in RidsInUse
        BY <2>2, <2>4, NamedInUse DEF HkHolds, HkRids, HkBusy, Item
      <3>2. binding'[hkCur.rid] = binding[hkCur.rid] /\ hkCur' = hkCur
        BY <2>1, <3>1 DEF RowsStep, RowIs, hkVars
      <3> QED  BY <3>1, <3>2 DEF RowIs
    <2>5. ASSUME hkPc \in {"erase", "destroy"} PROVE Sent(hkCur)'
      <3>1. PICK x : x = hkCur
        OBVIOUS
      <3>2. Sent(x) /\ x.rid \in Backups \cap RidsInUse /\ x.edge \in EdgesInUse
        BY <2>2, <2>5, <3>1, NamedInUse DEF HkHolds, HkBusy, Item
      <3>3. Sent(x)'
        BY <3>2, SentKept
      <3> QED  BY <2>1, <3>1, <3>3 DEF Sent, hkVars
    <2>6. UNCHANGED <<hkPc, hkTodo, hkCur>>
      BY <2>1 DEF hkVars
    <2> QED  BY <2>3, <2>4, <2>5, <2>6 DEF HkHolds
  <1>3. Leaving'
    <2>1. ASSUME NEW d \in deletes'
          PROVE  Sent(d)' /\ (d.stage = "backend" => d.edge \in Edges)
      <3>1. CASE d \in deletes
        <4>1. Sent(d) /\ (d.stage = "backend" => d.edge \in Edges)
          BY <3>1 DEF OInv, Leaving
        <4>2. d.rid \in Backups \cap RidsInUse /\ d.edge \in EdgesInUse
          BY <3>1, NamedInUse DEF IInv, TypeOK
        <4> QED  BY <4>1, <4>2, SentKept
      <3> QED  BY <3>1, <2>1 DEF Handed
    <2> QED  BY <2>1 DEF Leaving
  <1>4. ASSUME NEW rid \in Rids, binding[rid].status = "PENDING_DELETE"
        PROVE  binding'[rid].status \in {"PENDING_DELETE", "NONE"}
    <2>1. rid \in Backups /\ rid \in RidsInUse
      BY <1>4, NamedInUse DEF OInv, RowsOrderly, RouterRows, Rids, Exists, Absent
    <2> QED  BY <1>4, <2>1 DEF RowsStep, NoRow
  <1> QED  BY <1>1, <1>2, <1>3, <1>4 DEF Buried

\* The frame of a thread: it acts on the rows that it knows the status of.
LEMMA ThreadFrame ==
  ASSUME PoolAssumption, IInv, OInv, TypeOK', NEW t \in Threads, RowsStep(MyRows(t)), DoomedStay, Handed,
         Proceeds(t), Holds(t)', RouterRows',
         \A r \in Routers : Absent(r) => Absent(r)' \/ (r = rtr[t] /\ Allocates(t))
  PROVE  (\A u \in Threads : Holds(u)') /\ HkHolds' /\ Leaving' /\ Buried
  <1>1. \A b \in MyRows(t) : binding[b].status \notin {"NONE", "PENDING_DELETE"}
    BY OwnedStatus DEF MyRows
  <1>2. ASSUME NEW u \in Threads, u # t
        PROVE  Same(u) /\ (Unbound(u) => Absent(rtr[u])') /\ \A b \in MyRows(t) : ~OwnsRow(u, b)
    <2>1. Same(u)
      BY <1>2 DEF Proceeds
    <2>2. ASSUME Unbound(u) PROVE Absent(rtr[u])'
      <3>1. rtr[u] \in Routers /\ Absent(rtr[u])
        BY <2>2 DEF IInv, Shape, OInv, Holds, Unbound, Clears
      <3>2. Allocates(t) => rtr[u] # rtr[t]
        BY <1>2, <2>2 DEF OInv, Control, OneAlloc, Allocates
      <3>3. rtr'[u] = rtr[u]
        BY <2>1 DEF Same
      <3> QED  BY <3>1, <3>2, <3>3 DEF Exists, Absent
    <2>3. \A b \in MyRows(t) : ~OwnsRow(u, b)
      BY <1>2, OwnedApart DEF MyRows
    <2> QED  BY <2>1, <2>2, <2>3
  <1>3. UNCHANGED hkVars /\ \A b \in MyRows(t) : b \notin HkRids
    BY OwnedNotHk DEF MyRows, Proceeds
  <1> QED  BY <1>1, <1>2, <1>3, Frame

\* The control of a thread that goes on.
LEMMA ControlFrame ==
  ASSUME PoolAssumption, OInv, NEW t \in Threads, Proceeds(t),
         Allocates(t)' => Allocates(t) /\ rtr'[t] = rtr[t],
         pc[t] \in BootLabels => pc'[t] \in BootLabels \/ ret'[t] \notin {"bCount", "bEnd"},
         \A rid \in Rids : deploy[rid].stage = "none" => deploy'[rid].stage = "none" \/ ~Booting'
  PROVE  Control'
  <1>1. MainBoots'
    BY DEF OInv, Control, MainBoots, Proceeds, Same
  <1>2. Booting' => Booting
    BY DEF OInv, Control, MainBoots, Proceeds, Same, Booting, PoolAssumption
  <1>3. BootAlone'
    <2>1. ASSUME Booting' PROVE pc'[Main] \in BootLabels
      BY <1>2, <2>1 DEF OInv, Control, BootAlone, Booting, BootLabels, Proceeds, Same, PoolAssumption
    <2> QED  BY <1>2, <2>1 DEF OInv, Control, BootAlone, Proceeds, Same, hkVars
  <1>4. HkAlone'
    BY DEF OInv, Control, HkAlone, Proceeds, hkVars
  <1>5. OneAlloc'
    BY DEF OInv, Control, OneAlloc, Proceeds, Same, Allocates, Unbound, Clears
  <1> QED  BY <1>1, <1>3, <1>4, <1>5 DEF Control

\* A step of a thread that leaves the rows, the appliances and the jobs alone.
LEMMA QuietStep ==
  ASSUME PoolAssumption, IInv, OInv, TypeOK', NEW t \in Threads, Proceeds(t), Control', Holds(t)',
         UNCHANGED <<binding, late, backend, deploy, deletes>>,
         \A e \in Edges : Carries(t, e)' => Carries(t, e) \/ (e \in backend /\ ~Doomed(e))
  PROVE  OInv' /\ Buried
  <1>1. RowsStep(MyRows(t)) /\ Handed
    BY DEF RowsStep, Handed
  <1>2. \A u \in Threads, e \in Edges : Carries(u, e)' => Carries(u, e) \/ (e \in backend /\ ~Doomed(e))
    BY DEF Proceeds, Same, Carries
  <1>3. DoomedStay
    <2>1. ASSUME NEW e \in Edges, Doomed(e) PROVE Doomed(e)'
      BY <1>2, <2>1 DEF Doomed
    <2> QED  BY <2>1 DEF DoomedStay
  <1>4. Backed'
    BY <1>2 DEF OInv, Backed
  <1>5. RowsOrderly'
    BY DEF OInv, RowsOrderly, RouterRows, NoRows, Deploying, Exists, Absent
  <1>6. \A r \in Routers : Absent(r) => Absent(r)'
    BY DEF Exists, Absent
  <1>7. RouterRows'
    BY <1>5 DEF RowsOrderly
  <1>8. (\A u \in Threads : Holds(u)') /\ HkHolds' /\ Leaving' /\ Buried
    BY <1>1, <1>3, <1>6, <1>7, ThreadFrame
  <1> QED  BY <1>4, <1>5, <1>8 DEF OInv

-----------------------------------------------------------------------------
(* The steps of the threads that leave the rows alone.                     *)

\* Without late rows only those in ERROR are cleaned, and only in read-only housekeeping.
LEMMA CleanTargetsBroken ==
  ASSUME IInv, OInv, UNCHANGED binding, NEW x \in {ItemOf(b) : b \in CleanTargets}
  PROVE  HkReadonly /\ RowIs(x.rid, "ERROR", x.edge)'
  <1>1. PICK b \in CleanTargets : x = [rid |-> b, edge |-> binding[b].edge]
    BY DEF ItemOf
  <1>2. HkReadonly /\ b \in Backups /\ binding[b].status = "ERROR"
    BY DEF CleanTargets, OInv, RowsOrderly
  <1>3. binding[b] = [status |-> "ERROR", edge |-> binding[b].edge]
    BY <1>2 DEF IInv, TypeOK, Rids, Row
  <1> QED  BY <1>1, <1>2, <1>3 DEF RowIs

\* A request enters _allocate_edge_appliance for a router that has no row and no deployment;
\* no other request allocates for that router.
LEMMA StartAllocOwns ==
  ASSUME PoolAssumption, IInv, OInv, TypeOK', NEW t \in Threads, NEW r \in Routers, StartAlloc(t, r)
  PROVE  OInv' /\ Buried
  <1>1. /\ pc[t] = "idle" /\ pc'[t] = "aLock" /\ rtr'[t] = r /\ ret'[t] = ret[t] /\ ~Booting
        /\ r \notin RidsInUse
        /\ UNCHANGED <<binding, late, backend, deploy, deletes, hkVars>>
    BY DEF StartAlloc, IInv, TypeOK, dbVars, jobVars, Goto
  <1>2. Proceeds(t)
    BY DEF StartAlloc, IInv, TypeOK, Proceeds, Same, Goto
  <1>3. Absent(r) /\ \A u \in Threads : rtr[u] # r
    BY <1>1, NamedInUse DEF Rids, Absent
  <1>4. Control'
    <2>1. MainBoots' /\ ~Booting'
      BY <1>1, <1>2 DEF OInv, Control, MainBoots, Booting, Proceeds, Same, PoolAssumption
    <2>2. HkAlone'
      BY <1>1 DEF OInv, Control, HkAlone, hkVars
    <2>3. OneAlloc'
      BY <1>1, <1>2, <1>3 DEF OInv, Control, OneAlloc, Allocates, Unbound, Clears, Proceeds, Same
    <2> QED  BY <2>1, <2>2, <2>3 DEF Control, BootAlone
  <1>5. Holds(t)'
    BY <1>1, <1>3 DEF Holds, Choosing, Renews, Clears, Exists, Absent
  <1>6. \A e \in Edges : ~Carries(t, e)'
    BY <1>1 DEF Carries
  <1> QED  BY <1>1, <1>2, <1>4, <1>5, <1>6, QuietStep

\* A request enters _free_edge_appliance, also for a router that is still being created: it
\* knows no row yet.
LEMMA StartFreeOwns ==
  ASSUME PoolAssumption, IInv, OInv, TypeOK', NEW t \in Threads, NEW r \in Routers, StartFree(t, r)
  PROVE  OInv' /\ Buried
  <1>1. /\ pc[t] = "idle" /\ pc'[t] = "fLock"
        /\ UNCHANGED <<binding, late, backend, deploy, deletes, hkVars>>
    BY DEF StartFree, IInv, TypeOK, dbVars, jobVars, Goto
  <1>2. Proceeds(t)
    BY DEF StartFree, IInv, TypeOK, Proceeds, Same, Goto
  <1>3. Control'
    BY <1>1, <1>2, ControlFrame DEF Allocates, Unbound, Clears, BootLabels
  <1>4. Holds(t)'
    BY <1>1 DEF Holds, Choosing, Renews, Clears, Unbound
  <1>5. \A e \in Edges : ~Carries(t, e)'
    BY <1>1 DEF Carries
  <1> QED  BY <1>1, <1>2, <1>3, <1>4, <1>5, QuietStep

\* _check_backup_edge_pools reads the rows to clean up, which are in ERROR: no row is late.
LEMMA BootCleanOwns ==
  ASSUME PoolAssumption, IInv, OInv, TypeOK', BootClean
  PROVE  OInv' /\ Buried
  <1> Main \in Threads
    BY DEF PoolAssumption
  <1>1. /\ pc[Main] = "bClean" /\ pc'[Main] = "mark" /\ ret'[Main] = "bCount"
        /\ todo'[Main] = {ItemOf(b) : b \in CleanTargets}
        /\ UNCHANGED <<binding, late, backend, deploy, deletes, hkVars>>
    BY DEF BootClean, BeginClean, IInv, TypeOK, dbVars, jobVars, Goto
  <1>2. Proceeds(Main)
    BY DEF BootClean, BeginClean, IInv, TypeOK, Proceeds, Same, Goto
  <1>3. Control'
    BY <1>1, <1>2, ControlFrame DEF Allocates, Unbound, Clears, BootLabels
  <1>4. Holds(Main)'
    BY <1>1, CleanTargetsBroken DEF Holds, Choosing, Renews, Clears, Unbound
  <1>5. \A e \in Edges : ~Carries(Main, e)'
    BY <1>1 DEF Carries
  <1> QED  BY <1>1, <1>2, <1>3, <1>4, <1>5, QuietStep

\* _allocate_edge_appliance takes the pool lock and reads the rows to clean up.
LEMMA AllocLockOwns ==
  ASSUME PoolAssumption, IInv, OInv, TypeOK', NEW t \in Threads, AllocLock(t)
  PROVE  OInv' /\ Buried
  <1>1. /\ pc[t] = "aLock" /\ pc'[t] = "mark" /\ ret'[t] = "aList" /\ rtr'[t] = rtr[t]
        /\ todo'[t] = {ItemOf(b) : b \in CleanTargets}
        /\ UNCHANGED <<binding, late, backend, deploy, deletes, hkVars>>
    BY DEF AllocLock, BeginClean, IInv, TypeOK, dbVars, jobVars, Goto
  <1>2. Proceeds(t)
    BY DEF AllocLock, BeginClean, IInv, TypeOK, Proceeds, Same, Goto
  <1>3. Control'
    BY <1>1, <1>2, ControlFrame DEF Allocates, Unbound, Clears, BootLabels
  <1>4. Absent(rtr[t])
    BY <1>1 DEF OInv, Holds, Unbound
  <1>5. Holds(t)'
    BY <1>1, <1>4, CleanTargetsBroken DEF Holds, Choosing, Renews, Clears, Unbound, Exists, Absent
  <1>6. \A e \in Edges : ~Carries(t, e)'
    BY <1>1 DEF Carries
  <1> QED  BY <1>1, <1>2, <1>3, <1>5, <1>6, QuietStep

\* _free_edge_appliance reads the rows to clean up; the row it collects is not in ERROR.
LEMMA FreeCleanOwns ==
  ASSUME PoolAssumption, IInv, OInv, TypeOK', NEW t \in Threads, FreeClean(t)
  PROVE  OInv' /\ Buried
  <1>1. /\ pc[t] = "fCheck" /\ pc'[t] = "mark" /\ ret'[t] = "fCount" /\ bak'[t] = bak[t] /\ eid'[t] = eid[t]
        /\ todo'[t] = {ItemOf(b) : b \in CleanTargets}
        /\ UNCHANGED <<binding, late, backend, deploy, deletes, hkVars>>
    BY DEF FreeClean, BeginClean, IInv, TypeOK, dbVars, jobVars, Goto
  <1>2. Proceeds(t)
    BY DEF FreeClean, BeginClean, IInv, TypeOK, Proceeds, Same, Goto
  <1>3. Control'
    BY <1>1, <1>2, ControlFrame DEF Allocates, Unbound, Clears, BootLabels
  <1>4. RowIs(bak[t], "PENDING_UPDATE", eid[t])
    BY <1>1 DEF OInv, Holds, Renews
  <1>5. Holds(t)'
    BY <1>1, <1>4, CleanTargetsBroken DEF Holds, Choosing, Renews, Clears, Unbound, RowIs
  <1>6. \A e \in Edges : ~Carries(t, e)'
    BY <1>1 DEF Carries
  <1> QED  BY <1>1, <1>2, <1>3, <1>5, <1>6, QuietStep

\* _get_available_router_binding lists the ACTIVE rows of the pool.
LEMMA AllocListOwns ==
  ASSUME PoolAssumption, IInv, OInv, TypeOK', NEW t \in Threads, AllocList(t)
  PROVE  OInv' /\ Buried
  <1>1. /\ pc[t] = "aList" /\ pc'[t] = "aPick" /\ rtr'[t] = rtr[t] /\ ret'[t] = ret[t]
        /\ cand'[t] = {ItemOf(b) : b \in {c \in Backups : binding[c].status = "ACTIVE"}}
        /\ UNCHANGED <<binding, late, backend, deploy, deletes, hkVars>>
    BY DEF AllocList, IInv, TypeOK, dbVars, jobVars, Goto
  <1>2. Proceeds(t)
    BY DEF AllocList, IInv, TypeOK, Proceeds, Same, Goto
  <1>3. Control'
    BY <1>1, <1>2, ControlFrame DEF Allocates, Unbound, Clears, BootLabels
  <1>4. Absent(rtr[t])
    BY <1>1 DEF OInv, Holds, Unbound
  <1>5. ASSUME NEW x \in cand'[t] PROVE RowIs(x.rid, "ACTIVE", x.edge)'
    <2>1. PICK b \in Backups : binding[b].status = "ACTIVE" /\ x = [rid |-> b, edge |-> binding[b].edge]
      BY <1>1, <1>5 DEF ItemOf
    <2>2. binding[b] = [status |-> "ACTIVE", edge |-> binding[b].edge]
      BY <2>1 DEF IInv, TypeOK, Rids, Row
    <2> QED  BY <1>1, <2>1, <2>2 DEF RowIs
  <1>6. Holds(t)'
    BY <1>1, <1>4, <1>5 DEF Holds, Choosing, Renews, Clears, Unbound, Exists, Absent
  <1>7. \A e \in Edges : ~Carries(t, e)'
    BY <1>1 DEF Carries
  <1> QED  BY <1>1, <1>2, <1>3, <1>6, <1>7, QuietStep

\* One of the ACTIVE rows is chosen; its edge is at the backend and nobody deletes it.
LEMMA AllocPickOwns ==
  ASSUME PoolAssumption, IInv, OInv, TypeOK', NEW t \in Threads, AllocPick(t)
  PROVE  OInv' /\ Buried
  <1>1. PICK x \in cand[t] : x.edge \in backend /\ bak' = [bak EXCEPT ![t] = x.rid] /\ eid' = [eid EXCEPT ![t] = x.edge]
    BY DEF AllocPick
  <1>2. /\ pc[t] = "aPick" /\ pc'[t] = "aTake" /\ rtr'[t] = rtr[t] /\ bak'[t] = x.rid /\ eid'[t] = x.edge
        /\ UNCHANGED <<binding, late, backend, deploy, deletes, hkVars>>
    BY <1>1 DEF AllocPick, IInv, TypeOK, dbVars, jobVars, Goto
  <1>3. Proceeds(t)
    BY <1>1 DEF AllocPick, IInv, TypeOK, Proceeds, Same, Goto
  <1>4. Control'
    BY <1>2, <1>3, ControlFrame DEF Allocates, Unbound, Clears, BootLabels
  <1>5. RowIs(x.rid, "ACTIVE", x.edge) /\ Absent(rtr[t])
    BY <1>2 DEF OInv, Holds, Choosing, Unbound
  <1>6. Holds(t)'
    BY <1>2, <1>5 DEF Holds, Choosing, Renews, Clears, Unbound, RowIs, Exists, Absent
  <1>7. \A e \in Edges : Carries(t, e)' => e \in backend /\ ~Doomed(e)
    <2>1. x.rid \in Rids
      BY DEF IInv, TypeOK, Item, Rids
    <2> QED  BY <1>1, <1>2, <1>5, <2>1 DEF Carries, Doomed, RowIs
  <1> QED  BY <1>2, <1>3, <1>4, <1>6, <1>7, QuietStep

\* With no edge left in the pool the lock is released.
LEMMA AllocNoneOwns ==
  ASSUME PoolAssumption, IInv, OInv, TypeOK', NEW t \in Threads, AllocNone(t)
  PROVE  OInv' /\ Buried
  <1>1. /\ pc[t] = "aPick" /\ pc'[t] = "aAdd" /\ rtr'[t] = rtr[t]
        /\ UNCHANGED <<binding, late, backend, deploy, deletes, hkVars>>
    BY DEF AllocNone, IInv, TypeOK, dbVars, jobVars, locals, Goto
  <1>2. Proceeds(t)
    BY DEF AllocNone, IInv, TypeOK, Proceeds, Same, locals, Goto
  <1>3. Control'
    BY <1>1, <1>2, ControlFrame DEF Allocates, Unbound, Clears, BootLabels
  <1>4. Absent(rtr[t])
    BY <1>1 DEF OInv, Holds, Unbound
  <1>5. Holds(t)'
    BY <1>1, <1>4 DEF Holds, Choosing, Renews, Clears, Unbound, Exists, Absent
  <1>6. \A e \in Edges : ~Carries(t, e)'
    BY <1>1 DEF Carries
  <1> QED  BY <1>1, <1>2, <1>3, <1>5, <1>6, QuietStep

\* The allocating request takes the lock of its edge, or counts the pool: it learns nothing.
LEMMA AllocEdgeOwns ==
  ASSUME PoolAssumption, IInv, OInv, TypeOK', NEW t \in Threads, AllocEdge(t) \/ AllocCount(t)
  PROVE  OInv' /\ Buried
  <1>1. /\ pc[t] \in {"aEdge", "aCount"} /\ pc'[t] \in {"aDone", "aRefill"} /\ rtr'[t] = rtr[t]
        /\ UNCHANGED <<binding, late, backend, deploy, deletes, hkVars>>
    BY DEF AllocEdge, AllocCount, IInv, TypeOK, dbVars, jobVars, locals, Goto
  <1>2. Proceeds(t)
    BY DEF AllocEdge, AllocCount, IInv, TypeOK, Proceeds, Same, locals, Goto
  <1>3. Control'
    BY <1>1, <1>2, ControlFrame DEF Allocates, Unbound, Clears, BootLabels
  <1>4. Holds(t)'
    BY <1>1 DEF Holds, Choosing, Renews, Clears, Unbound
  <1>5. \A e \in Edges : ~Carries(t, e)'
    BY <1>1 DEF Carries
  <1> QED  BY <1>1, <1>2, <1>3, <1>4, <1>5, QuietStep

\* A thread that ends knows and carries nothing.
LEMMA FinishOwns ==
  ASSUME PoolAssumption, IInv, OInv, TypeOK', NEW t \in Threads, pc[t] # "idle", Finish(t), UNCHANGED hkVars
  PROVE  /\ Proceeds(t) /\ Holds(t)' /\ ~Allocates(t)' /\ ret'[t] = "idle" /\ \A e \in Edges : ~Carries(t, e)'
  <1>1. pc'[t] = "idle" /\ ret'[t] = "idle"
    BY DEF Finish, IInv, TypeOK, Goto
  <1>2. Proceeds(t)
    BY <1>1, FinishEffect DEF Proceeds, Same, IInv
  <1>3. Holds(t)' /\ ~Allocates(t)' /\ \A e \in Edges : ~Carries(t, e)'
    BY <1>1 DEF Holds, Choosing, Renews, Clears, Unbound, Allocates, Carries
  <1> QED  BY <1>1, <1>2, <1>3

\* A request that ends without writing knows nothing any more.
LEMMA FinishQuiet ==
  ASSUME PoolAssumption, IInv, OInv, TypeOK', NEW t \in Threads, pc[t] # "idle", Finish(t),
         UNCHANGED <<binding, late, backend, deploy, deletes, hkVars>>
  PROVE  OInv' /\ Buried
  <1>1. /\ Proceeds(t) /\ Holds(t)' /\ ~Allocates(t)' /\ ret'[t] = "idle" /\ \A e \in Edges : ~Carries(t, e)'
    BY FinishOwns
  <1>2. Control'
    BY <1>1, ControlFrame DEF BootLabels
  <1> QED  BY <1>1, <1>2, QuietStep

\* A request whose row is gone (NoResultFound), or whose last deletions are spawned, ends.
LEMMA AllocLostOwns ==
  ASSUME PoolAssumption, IInv, OInv, TypeOK', NEW t \in Threads, AllocLost(t) \/ SpawnReturn(t)
  PROVE  OInv' /\ Buried
  BY FinishQuiet DEF AllocLost, SpawnReturn, dbVars, jobVars

\* When all deletions of a clean-up are spawned the request goes on where it was.
LEMMA SpawnEndOwns ==
  ASSUME PoolAssumption, IInv, OInv, TypeOK', NEW t \in Threads, SpawnEnd(t)
  PROVE  OInv' /\ Buried
  <1>1. /\ pc[t] = "spawn" /\ ret[t] \in {"bCount", "aList", "aPick", "fCount"} /\ pc'[t] = ret[t]
        /\ ret'[t] = ret[t] /\ rtr'[t] = rtr[t] /\ bak'[t] = bak[t] /\ eid'[t] = eid[t] /\ cand'[t] = cand[t]
        /\ UNCHANGED <<binding, late, backend, deploy, deletes, hkVars>>
    BY DEF SpawnEnd, IInv, Shape, TypeOK, dbVars, jobVars, locals, Goto
  <1>2. Proceeds(t)
    BY <1>1 DEF SpawnEnd, IInv, TypeOK, Proceeds, Same, locals, Goto
  <1>3. Control'
    BY <1>1, <1>2, ControlFrame DEF Allocates, Unbound, Clears, BootLabels
  <1>4. Holds(t)
    BY DEF OInv
  <1>5. Holds(t)'
    <2>1. CASE ret[t] = "aPick"
      BY <1>1, <1>4, <2>1 DEF Holds, Choosing, Renews, Clears, Unbound, RowIs, Exists, Absent
    <2>2. CASE ret[t] # "aPick"
      BY <1>1, <1>4, <2>2 DEF Holds, Choosing, Renews, Clears, Unbound, RowIs, Exists, Absent
    <2> QED  BY <2>1, <2>2
  <1>6. \A e \in Edges : ~Carries(t, e)'
    BY <1>1 DEF Carries
  <1> QED  BY <1>1, <1>2, <1>3, <1>5, <1>6, QuietStep

\* _free_edge_appliance takes the pool lock and reads the row of its router, or finds none
\* and returns.
LEMMA FreeLockOwns ==
  ASSUME PoolAssumption, IInv, OInv, TypeOK', NEW t \in Threads, FreeLock(t)
  PROVE  OInv' /\ Buried
  <1>1. CASE ~Exists(rtr[t])
    BY <1>1, FinishQuiet DEF FreeLock, dbVars, jobVars
  <1>2. CASE Exists(rtr[t])
    <2>1. /\ pc[t] = "fLock" /\ pc'[t] = "fUnbind" /\ rtr'[t] = rtr[t] /\ eid'[t] = binding[rtr[t]].edge
          /\ ret'[t] \in {"fEnd", "fCount"}
          /\ UNCHANGED <<binding, late, backend, deploy, deletes, hkVars>>
      BY <1>2 DEF FreeLock, IInv, TypeOK, dbVars, jobVars, Goto
    <2>2. Proceeds(t)
      BY <1>2, <2>1 DEF FreeLock, IInv, TypeOK, Proceeds, Same, Goto
    <2>3. Control'
      BY <2>1, <2>2, ControlFrame DEF Allocates, Unbound, Clears, BootLabels
    <2>4. Holds(t)'
      BY <2>1 DEF Holds, Choosing, Renews, Clears, Unbound
    <2>5. rtr[t] \in Routers /\ rtr[t] \in Rids
      BY <2>1 DEF IInv, Shape, Rids
    <2>6. \A e \in Edges : Carries(t, e)' => e \in backend /\ ~Doomed(e)
      BY <2>1, <2>5 DEF Carries, Doomed, OInv, Backed, RowsOrderly, RouterRows, PoolAssumption
    <2> QED  BY <2>1, <2>2, <2>3, <2>4, <2>6, QuietStep
  <1> QED  BY <1>1, <1>2

\* The pool is not full: the edge will be collected.
LEMMA FreeCollectOwns ==
  ASSUME PoolAssumption, IInv, OInv, TypeOK', NEW t \in Threads, FreeCollect(t)
  PROVE  OInv' /\ Buried
  <1>1. /\ pc[t] = "fCount" /\ pc'[t] = "fUpdate" /\ bak'[t] = bak[t] /\ eid'[t] = eid[t]
        /\ UNCHANGED <<binding, late, backend, deploy, deletes, hkVars>>
    BY DEF FreeCollect, IInv, TypeOK, dbVars, jobVars, locals, Goto
  <1>2. Proceeds(t)
    BY <1>1 DEF FreeCollect, IInv, TypeOK, Proceeds, Same, locals, Goto
  <1>3. Control'
    BY <1>1, <1>2, ControlFrame DEF Allocates, Unbound, Clears, BootLabels
  <1>4. RowIs(bak[t], "PENDING_UPDATE", eid[t])
    BY <1>1 DEF OInv, Holds, Renews
  <1>5. Holds(t)'
    BY <1>1, <1>4 DEF Holds, Choosing, Renews, Clears, Unbound, RowIs
  <1>6. \A e \in Edges : ~Carries(t, e)'
    BY <1>1 DEF Carries
  <1> QED  BY <1>1, <1>2, <1>3, <1>5, <1>6, QuietStep

\* The vnic rows of the collected edge are written; no binding changes.
LEMMA FreeVnicsOwns ==
  ASSUME PoolAssumption, IInv, OInv, TypeOK', NEW t \in Threads, FreeVnics(t)
  PROVE  OInv' /\ Buried
  <1>1. CASE pc[t] = "fActive"
    <2>1. /\ pc[t] = "fActive" /\ pc'[t] = "fPool" /\ bak'[t] = bak[t] /\ eid'[t] = eid[t]
          /\ UNCHANGED <<binding, late, backend, deploy, deletes, hkVars>>
      BY <1>1 DEF FreeVnics, IInv, TypeOK, dbVars, jobVars, locals, Goto
    <2>2. Proceeds(t)
      BY <2>1 DEF FreeVnics, IInv, TypeOK, Proceeds, Same, locals, Goto
    <2>3. Control'
      BY <2>1, <2>2, ControlFrame DEF Allocates, Unbound, Clears, BootLabels
    <2>4. RowIs(bak[t], "PENDING_UPDATE", eid[t])
      BY <2>1 DEF OInv, Holds, Renews
    <2>5. Holds(t)'
      BY <2>1, <2>4 DEF Holds, Choosing, Renews, Clears, Unbound, RowIs
    <2>6. \A e \in Edges : ~Carries(t, e)'
      BY <2>1 DEF Carries
    <2> QED  BY <2>1, <2>2, <2>3, <2>5, <2>6, QuietStep
  <1>2. CASE pc[t] = "fError"
    BY <1>2, FinishQuiet DEF FreeVnics, jobVars
  <1> QED  BY <1>1, <1>2 DEF FreeVnics

-----------------------------------------------------------------------------
(* The steps of the threads that write rows.                               *)

\* A step of a thread after which no edge has a new owner.
LEMMA WriteStep ==
  ASSUME PoolAssumption, IInv, OInv, TypeOK', NEW t \in Threads, Proceeds(t), Control', RowsOrderly', Holds(t)',
         Handed, UNCHANGED backend, Shrinks, RowsStep(MyRows(t)),
         \A r \in Routers : Absent(r) => Absent(r)' \/ (r = rtr[t] /\ Allocates(t))
  PROVE  OInv' /\ Buried
  <1>1. \A b \in MyRows(t) : binding[b].status \notin {"NONE", "PENDING_DELETE"}
    BY OwnedStatus DEF MyRows
  <1>2. DoomedStay
    BY <1>1, ShrinksDoomed
  <1>3. RouterRows'
    BY DEF RowsOrderly
  <1>4. (\A u \in Threads : Holds(u)') /\ HkHolds' /\ Leaving' /\ Buried
    BY <1>2, <1>3, ThreadFrame
  <1>5. \A rid \in Rids : binding[rid].status = "PENDING_DELETE"
                            => binding'[rid].edge = NoEdge \/ binding'[rid].status = "PENDING_DELETE"
    BY <1>4 DEF RowsOrderly, NoRows, Exists, Absent, Buried
  <1>6. Backed'
    BY <1>5, ShrinksBacked
  <1> QED  BY <1>4, <1>6 DEF OInv

\* No step but those that pick up an edge gives a thread one.
LEMMA ShrinksOwner ==
  ASSUME NEW t \in Threads, Proceeds(t),
         \A rid \in Rids : /\ binding'[rid].edge \in {binding[rid].edge, NoEdge}
                           /\ deploy'[rid].stage = "record" => deploy'[rid] = deploy[rid],
         \A e \in Edges : Carries(t, e)' => Carries(t, e)
  PROVE  Shrinks
  BY DEF Shrinks, Proceeds, Same, Carries

\* _delete_backup_edges_at_backend hands an edge to a worker: its row is sent to deletion
\* already.
LEMMA SpawnDeleteOwns ==
  ASSUME PoolAssumption, IInv, OInv, TypeOK', NEW t \in Threads, SpawnDelete(t)
  PROVE  OInv' /\ Buried
  <1>1. PICK x \in todo[t] : Spawn(x) /\ todo' = [todo EXCEPT ![t] = @ \ {x}]
    BY DEF SpawnDelete
  <1>2. /\ pc[t] = "spawn" /\ pc' = pc /\ rtr' = rtr /\ bak' = bak /\ eid' = eid /\ cand' = cand /\ ret' = ret
        /\ todo'[t] = todo[t] \ {x}
        /\ deletes' = deletes \cup {[rid |-> x.rid, edge |-> x.edge, stage |-> "db"]}
        /\ UNCHANGED <<binding, late, backend, deploy, hkVars>>
    BY <1>1 DEF SpawnDelete, Spawn, IInv, TypeOK, dbVars
  <1>3. Proceeds(t)
    BY <1>1, <1>2 DEF IInv, TypeOK, Proceeds, Same
  <1>4. Control'
    BY <1>2, <1>3, ControlFrame DEF Allocates, Unbound, Clears, BootLabels
  <1>5. Shrinks
    BY <1>2 DEF Shrinks, Carries
  <1>6. RowsOrderly'
    BY <1>2 DEF OInv, RowsOrderly, RouterRows, NoRows, Deploying, Exists, Absent
  <1>7. \A y : Sent(y) => Sent(y)'
    BY <1>2 DEF Sent, Doomed, RowIs, Exists, Absent, Carries
  <1>8. \A y \in todo[t] : Sent(y)
    BY <1>2 DEF OInv, Holds
  <1>9. Handed
    <2>1. Sent([rid |-> x.rid, edge |-> x.edge, stage |-> "db"])'
      BY <1>7, <1>8 DEF Sent, RowIs, Exists, Absent, Doomed, Carries
    <2> QED  BY <1>2, <2>1 DEF Handed
  <1>10. Holds(t)'
    <2>1. Holds(t)
      BY DEF OInv
    <2>2. \A y \in todo'[t] : Sent(y)'
      BY <1>2, <1>7, <1>8
    <2> QED  BY <1>2, <2>1, <2>2 DEF Holds, Choosing, Renews, Clears, Unbound, RowIs, Exists, Absent
  <1>11. RowsStep(MyRows(t)) /\ \A r \in Routers : Absent(r) => Absent(r)'
    BY <1>2 DEF RowsStep, Exists, Absent
  <1> QED  BY <1>2, <1>3, <1>4, <1>5, <1>6, <1>9, <1>10, <1>11, WriteStep

\* The row of a free or chosen backup edge, once marked, is sent to deletion with its edge.
LEMMA MarkedSent ==
  ASSUME PoolAssumption, IInv, OInv, Shrinks, NEW b \in Backups, NEW e, binding[b].edge = e,
         binding'[b] = [status |-> "PENDING_DELETE", edge |-> e],
         \A u \in Threads : Selected(u) => bak[u] # b
  PROVE  \A x : x.rid = b /\ x.edge = e => Sent(x)'
  <1>1. ASSUME e \in Edges PROVE Doomed(e)'
    <2>1. ASSUME NEW rid \in Rids, binding'[rid].edge = e PROVE rid = b
      BY <1>1, <2>1 DEF Shrinks, IInv, EdgeExclusive, PoolAssumption, Rids
    <2>2. ASSUME NEW u \in Threads PROVE ~Carries(u, e)'
      <3>1. SUFFICES ASSUME Carries(u, e) PROVE FALSE
        BY <1>1 DEF Shrinks
      <3>2. b # rtr[u] \/ pc[u] # "fUnbind"
        BY DEF IInv, Shape, PoolAssumption
      <3> QED  BY <1>1, <3>1, <3>2 DEF IInv, Carried, Rids
    <2>3. \A rid \in Rids : deploy'[rid].stage = "record" => deploy'[rid].edge # e
      BY DEF Shrinks, IInv, Recorded, Rids
    <2> QED  BY <2>1, <2>2, <2>3 DEF Doomed
  <1> QED  BY <1>1 DEF Sent, RowIs

\* Rows that their thread knows, or any rows while EdgeManager is constructed, are marked
\* and handed to the thread as items to delete.
LEMMA MarkStep ==
  ASSUME PoolAssumption, IInv, OInv, TypeOK', NEW t \in Threads, Proceeds(t), Control',
         NEW rids \in SUBSET Backups, SetStatus(rids, "PENDING_DELETE"), UNCHANGED <<backend, deploy, deletes>>,
         \A b \in rids : /\ binding[b].status \notin {"NONE", "PENDING_DELETE"} /\ deploy[b].stage = "none"
                         /\ \A u \in Threads : Selected(u) => bak[u] # b,
         \A b \in rids : b \notin HkRids /\ \A u \in Threads \ {t} : ~OwnsRow(u, b),
         pc'[t] = "spawn", \A x \in todo'[t] : x.rid \in rids /\ x.edge = binding[x.rid].edge,
         Choosing(t)' => /\ Choosing(t)
                         /\ \A x \in cand'[t] : x \in cand[t] /\ x.rid \notin rids,
         Renews(t)' => Renews(t) /\ bak'[t] = bak[t] /\ eid'[t] = eid[t] /\ bak[t] \notin rids,
         Unbound(t)' => Unbound(t) /\ rtr'[t] = rtr[t]
  PROVE  OInv' /\ Buried
  <1>1. /\ late' = {}
        /\ \A rid \in Rids :
             /\ binding'[rid].edge = binding[rid].edge
             /\ rid \in rids => binding'[rid].status = "PENDING_DELETE"
             /\ rid \notin rids => binding'[rid].status = binding[rid].status
    BY SetStatusEffect DEF SetStatus, OInv, RowsOrderly, IInv, TypeOK, Pending, Exists, Absent
  <1>2. /\ \A rid \in Rids : binding'[rid] = [status |-> binding'[rid].status, edge |-> binding'[rid].edge]
        /\ \A rid \in Rids : binding[rid] = [status |-> binding[rid].status, edge |-> binding[rid].edge]
    BY DEF IInv, TypeOK, Row
  <1>3. \A rid \in Rids : rid \notin rids => binding'[rid] = binding[rid]
    BY <1>1, <1>2
  <1>4. Shrinks
    <2>1. \A e \in Edges : ~Carries(t, e)'
      BY DEF Carries
    <2> QED  BY <1>1, <2>1, ShrinksOwner
  <1>5. RowsStep(rids)
    BY <1>3 DEF RowsStep, Rids
  <1>6. DoomedStay
    BY <1>4, <1>5, ShrinksDoomed
  <1>7. \A b \in rids : \A x : x.rid = b /\ x.edge = binding[b].edge => Sent(x)'
    <2>1. ASSUME NEW b \in rids PROVE \A x : x.rid = b /\ x.edge = binding[b].edge => Sent(x)'
      <3>1. PICK e : e = binding[b].edge
        OBVIOUS
      <3>2. binding'[b] = [status |-> "PENDING_DELETE", edge |-> e] /\ b \in Backups
        BY <1>1, <1>2, <3>1 DEF Rids
      <3>3. \A x : x.rid = b /\ x.edge = e => Sent(x)'
        BY <1>4, <3>1, <3>2, MarkedSent
      <3> QED  BY <3>1, <3>3
    <2> QED  BY <2>1
  <1>8. RowsOrderly'
    <2>1. RouterRows' /\ NoRows'
      BY <1>1, <1>3 DEF OInv, RowsOrderly, RouterRows, NoRows, Exists, Absent, PoolAssumption, Rids
    <2>2. Deploying'
      BY <1>1 DEF OInv, RowsOrderly, Deploying, Rids
    <2> QED  BY <1>1, <2>1, <2>2 DEF RowsOrderly
  <1>9. Holds(t)'
    <2>1. Holds(t) /\ cand[t] \subseteq Item
      BY DEF OInv, IInv, TypeOK
    <2>2. \A x \in todo'[t] : Sent(x)'
      BY <1>7
    <2>3. ASSUME Choosing(t)', NEW x \in cand'[t] PROVE RowIs(x.rid, "ACTIVE", x.edge)'
      BY <2>1, <2>3, <1>3 DEF Holds, RowIs, Item, Rids
    <2>4. Renews(t)' => RowIs(bak[t], "PENDING_UPDATE", eid[t])'
      <3>1. Renews(t) => bak[t] \in Backups
        BY DEF IInv, Shape, Renews, Clears, Collected
      <3> QED  BY <2>1, <3>1, <1>3 DEF Holds, RowIs, Rids
    <2>5. Unbound(t)' => Absent(rtr[t])'
      <3>1. Unbound(t) => rtr[t] \in Routers /\ Absent(rtr[t])
        BY <2>1 DEF Holds, IInv, Shape, Unbound, Clears
      <3> QED  BY <3>1, <1>3 DEF Exists, Absent, Rids, PoolAssumption
    <2> QED  BY <2>2, <2>3, <2>4, <2>5 DEF Holds
  <1>10. Backed'
    BY <1>1, <1>4, ShrinksBacked DEF Rids
  <1>11. (\A u \in Threads : Holds(u)') /\ HkHolds' /\ Leaving' /\ Buried
    <2>1. ASSUME NEW u \in Threads, u # t
          PROVE  Same(u) /\ (Unbound(u) => Absent(rtr[u])') /\ \A b \in rids : ~OwnsRow(u, b)
      <3>1. Unbound(u) => rtr[u] \in Routers /\ Absent(rtr[u])
        BY DEF OInv, Holds, IInv, Shape, Unbound, Clears
      <3>2. Same(u)
        BY <2>1 DEF Proceeds
      <3> QED  BY <2>1, <3>1, <3>2, <1>3 DEF Exists, Absent, Rids, PoolAssumption, Same
    <2>2. UNCHANGED hkVars
      BY DEF Proceeds
    <2>3. Handed /\ RouterRows'
      BY <1>8 DEF Handed, RowsOrderly
    <2> QED  BY <1>5, <1>6, <1>9, <2>1, <2>2, <2>3, Frame
  <1> QED  BY <1>8, <1>10, <1>11 DEF OInv

\* _delete_backup_edges_on_db marks the rows of a clean-up, which are still in ERROR.
LEMMA MarkOwns ==
  ASSUME PoolAssumption, IInv, OInv, TypeOK', NEW t \in Threads, Mark(t)
  PROVE  OInv' /\ Buried
  <1> DEFINE rids == {x.rid : x \in todo[t]}
  <1>1. /\ pc[t] = "mark" /\ pc'[t] = "spawn" /\ SetStatus(rids, "PENDING_DELETE")
        /\ UNCHANGED <<rtr, bak, eid, cand, todo, ret, backend, deploy, deletes, hkVars>>
    BY DEF Mark, IInv, TypeOK, locals, jobVars, Goto
  <1>2. Proceeds(t)
    BY <1>1 DEF Mark, IInv, TypeOK, Proceeds, Same, Goto
  <1>3. Control'
    BY <1>1, <1>2, ControlFrame DEF Allocates, Unbound, Clears, BootLabels
  <1>4. ASSUME NEW x \in todo[t]
        PROVE  x \in Item /\ binding[x.rid].status = "ERROR" /\ binding[x.rid].edge = x.edge
    <2>1. x \in Item /\ binding[x.rid] = [status |-> "ERROR", edge |-> x.edge]
      BY <1>1 DEF OInv, Holds, RowIs, IInv, TypeOK
    <2> QED  BY <2>1
  <1>5. rids \in SUBSET Backups
    BY <1>4 DEF Item
  <1>6. ASSUME NEW b \in rids
        PROVE  /\ binding[b].status = "ERROR" /\ deploy[b].stage = "none" /\ OwnsRow(t, b) /\ b \in Backups
               /\ \A u \in Threads : Selected(u) => bak[u] # b
    <2>1. PICK x \in todo[t] : x.rid = b
      BY <1>6
    <2>2. binding[b].status = "ERROR"
      BY <2>1, <1>4
    <2> QED  BY <1>1, <1>5, <2>1, <2>2 DEF OwnsRow, IInv, Settled, SelectedQuiet
  <1>7. \A b \in rids : b \notin HkRids /\ \A u \in Threads \ {t} : ~OwnsRow(u, b)
    BY <1>6, OwnedNotHk, OwnedApart
  <1>8. \A x \in todo'[t] : x.rid \in rids /\ x.edge = binding[x.rid].edge
    BY <1>1, <1>4
  <1>9. ~Choosing(t)'
    BY <1>1 DEF IInv, Shape, Choosing
  <1>10. Renews(t)' => Renews(t) /\ bak'[t] = bak[t] /\ eid'[t] = eid[t] /\ bak[t] \notin rids
    <2>1. SUFFICES ASSUME Renews(t)' PROVE bak[t] \notin rids
      BY <1>1 DEF Renews, Clears
    <2>2. binding[bak[t]] = [status |-> "PENDING_UPDATE", edge |-> eid[t]]
      BY <1>1, <2>1 DEF Renews, Clears, OInv, Holds, RowIs
    <2>3. binding[bak[t]].status = "PENDING_UPDATE"
      BY <2>2
    <2> QED  BY <1>6, <2>3
  <1>11. Unbound(t)' => Unbound(t) /\ rtr'[t] = rtr[t]
    BY <1>1 DEF Unbound, Clears
  <1> HIDE DEF rids
  <1> QED  BY <1>1, <1>2, <1>3, <1>5, <1>6, <1>7, <1>8, <1>9, <1>10, <1>11, MarkStep

\* _get_available_router_binding discards an edge that is down: its row is still ACTIVE.
LEMMA AllocDiscardOwns ==
  ASSUME PoolAssumption, IInv, OInv, TypeOK', NEW t \in Threads, AllocDiscard(t)
  PROVE  OInv' /\ Buried
  <1>1. PICK x \in cand[t] : Discard(t, x, "aPick") /\ cand' = [cand EXCEPT ![t] = @ \ {x}]
    BY DEF AllocDiscard
  <1>2. /\ pc[t] = "aPick" /\ pc'[t] = "spawn" /\ ret'[t] = "aPick" /\ SetStatus({x.rid}, "PENDING_DELETE")
        /\ todo'[t] = {x} /\ cand'[t] = cand[t] \ {x}
        /\ UNCHANGED <<rtr, bak, eid, backend, deploy, deletes, hkVars>>
    BY <1>1 DEF AllocDiscard, Discard, IInv, TypeOK, jobVars, Goto
  <1>3. Proceeds(t)
    BY <1>1, <1>2 DEF AllocDiscard, Discard, IInv, TypeOK, Proceeds, Same, Goto
  <1>4. Control'
    BY <1>2, <1>3, ControlFrame DEF Allocates, Unbound, Clears, BootLabels
  <1>5. Choosing(t) /\ \A y \in cand[t] : y \in Item /\ binding[y.rid].status = "ACTIVE" /\ binding[y.rid].edge = y.edge
    <2>1. Choosing(t)
      BY <1>2 DEF Choosing
    <2>2. ASSUME NEW y \in cand[t]
          PROVE  y \in Item /\ binding[y.rid].status = "ACTIVE" /\ binding[y.rid].edge = y.edge
      <3>1. y \in Item /\ binding[y.rid] = [status |-> "ACTIVE", edge |-> y.edge]
        BY <2>1 DEF OInv, Holds, RowIs, IInv, TypeOK
      <3> QED  BY <3>1
    <2> QED  BY <2>1, <2>2
  <1>6. /\ x.rid \in Backups /\ binding[x.rid].status = "ACTIVE" /\ binding[x.rid].edge = x.edge
        /\ deploy[x.rid].stage = "none" /\ OwnsRow(t, x.rid)
        /\ \A u \in Threads : Selected(u) => bak[u] # x.rid
    BY <1>5 DEF Item, IInv, ChoosingQuiet, OwnsRow
  <1>7. x.rid \notin HkRids /\ \A u \in Threads \ {t} : ~OwnsRow(u, x.rid)
    BY <1>6, OwnedNotHk, OwnedApart
  <1>8. \A y \in cand'[t] : y \in cand[t] /\ y.rid \notin {x.rid}
    <2>1. ASSUME NEW y \in cand[t], y.rid = x.rid PROVE y = x
      <3>1. y.edge = x.edge /\ y \in Item /\ x \in Item
        BY <1>5, <2>1
      <3> QED  BY <2>1, <3>1 DEF Item
    <2> QED  BY <1>2, <2>1
  <1>9. ~Renews(t)' /\ Unbound(t)
    BY <1>2 DEF Renews, Clears, Unbound
  <1>10. {x.rid} \in SUBSET Backups
    BY <1>6
  <1> QED  BY <1>2, <1>3, <1>4, <1>5, <1>6, <1>7, <1>8, <1>9, <1>10, MarkStep

\* The edge that is being collected is discarded.
LEMMA FreeDiscardOwns ==
  ASSUME PoolAssumption, IInv, OInv, TypeOK', NEW t \in Threads, FreeDiscard(t) \/ FreeSurplus(t)
  PROVE  OInv' /\ Buried
  <1>1. /\ pc[t] \in {"fCheck", "fCount"} /\ pc'[t] = "spawn" /\ ret'[t] = "fEnd"
        /\ SetStatus({bak[t]}, "PENDING_DELETE")
        /\ todo'[t] = {[rid |-> bak[t], edge |-> eid[t]]}
        /\ UNCHANGED <<rtr, bak, eid, cand, backend, deploy, deletes, hkVars>>
    BY DEF FreeDiscard, FreeSurplus, Discard, IInv, TypeOK, jobVars, Goto
  <1>2. Proceeds(t)
    BY <1>1 DEF FreeDiscard, FreeSurplus, Discard, IInv, TypeOK, Proceeds, Same, Goto
  <1>3. Control'
    BY <1>1, <1>2, ControlFrame DEF Allocates, Unbound, Clears, BootLabels
  <1>4. RowIs(bak[t], "PENDING_UPDATE", eid[t]) /\ Renews(t) /\ Collected(t)
    BY <1>1 DEF OInv, Holds, Renews, Collected
  <1>5. /\ bak[t] \in Backups /\ binding[bak[t]].status = "PENDING_UPDATE" /\ binding[bak[t]].edge = eid[t]
        /\ deploy[bak[t]].stage = "none" /\ OwnsRow(t, bak[t])
        /\ \A u \in Threads : Selected(u) => bak[u] # bak[t]
    BY <1>4 DEF RowIs, IInv, Shape, CollectedQuiet, OwnsRow
  <1>6. bak[t] \notin HkRids /\ \A u \in Threads \ {t} : ~OwnsRow(u, bak[t])
    BY <1>5, OwnedNotHk, OwnedApart
  <1>7. ~Choosing(t)' /\ ~Renews(t)' /\ ~Unbound(t)'
    BY <1>1 DEF Choosing, Renews, Clears, Unbound
  <1>8. {bak[t]} \in SUBSET Backups
    BY <1>5
  <1>9. PICK b : b = bak[t]
    OBVIOUS
  <1>10. \A x \in todo'[t] : x.rid \in {b} /\ x.edge = binding[x.rid].edge
    BY <1>1, <1>5, <1>9
  <1> QED  BY <1>1, <1>2, <1>3, <1>5, <1>6, <1>7, <1>8, <1>9, <1>10, MarkStep

\* The start-up check deletes the surplus of the pool, whatever its status: nobody else
\* works yet, so no row is being deployed or already deleted by this process.
LEMMA BootTrimOwns ==
  ASSUME PoolAssumption, IInv, OInv, TypeOK', BootTrim
  PROVE  OInv' /\ Buried
  <1> Main \in Threads
    BY DEF PoolAssumption
  <1>1. PICK extra \in SUBSET PoolRids :
          todo' = [todo EXCEPT ![Main] = {ItemOf(b) : b \in extra}] /\ SetStatus(extra, "PENDING_DELETE")
    BY DEF BootTrim
  <1>2. /\ pc[Main] = "bCount" /\ pc'[Main] = "spawn" /\ ret'[Main] = "bEnd"
        /\ todo'[Main] = {ItemOf(b) : b \in extra}
        /\ UNCHANGED <<rtr, bak, eid, cand, backend, deploy, deletes, hkVars>>
    BY <1>1 DEF BootTrim, IInv, TypeOK, jobVars, Goto
  <1>3. Proceeds(Main)
    BY <1>1, <1>2 DEF BootTrim, IInv, TypeOK, Proceeds, Same, Goto
  <1>4. Control'
    BY <1>2, <1>3, ControlFrame DEF Allocates, Unbound, Clears, BootLabels
  <1>5. /\ \A u \in Threads \ {Main} : pc[u] = "idle"
        /\ hkPc = "idle" /\ \A rid \in Rids : deploy[rid].stage = "none"
    BY <1>2 DEF OInv, Control, BootAlone, Booting
  <1>6. \A u \in Threads : ~Selected(u) /\ \A b \in Backups : ~OwnsRow(u, b)
    BY <1>2, <1>5 DEF Selected, OwnsRow, Choosing, Renews, Clears
  <1>7. extra \in SUBSET Backups /\ \A b \in extra : binding[b].status \in Pooled
    BY DEF PoolRids
  <1>8. \A b \in extra : binding[b].status \notin {"NONE", "PENDING_DELETE"} /\ deploy[b].stage = "none"
    BY <1>5, <1>7 DEF Pooled, Rids
  <1>9. ASSUME NEW b \in extra PROVE b \notin HkRids
    <2>1. ASSUME NEW x \in hkTodo, x.rid = b PROVE FALSE
      <3>1. binding[b] = [status |-> "ERROR", edge |-> x.edge]
        BY <2>1 DEF OInv, HkHolds, RowIs
      <3>2. binding[b].status = "ERROR"
        BY <3>1
      <3> QED  BY <1>7, <1>9, <3>2 DEF Pooled
    <2> QED  BY <1>5, <2>1 DEF HkRids, HkBusy
  <1>10. \A x \in todo'[Main] : x.rid \in extra /\ x.edge = binding[x.rid].edge
    BY <1>2 DEF ItemOf
  <1>11. ~Choosing(Main)' /\ ~Renews(Main)' /\ ~Unbound(Main)'
    BY <1>2 DEF Choosing, Renews, Clears, Unbound
  <1> QED  BY <1>1, <1>2, <1>3, <1>4, <1>6, <1>7, <1>8, <1>9, <1>10, <1>11, MarkStep

\* A thread changes the status of the row that it has selected or collects.
LEMMA StatusStep ==
  ASSUME PoolAssumption, IInv, OInv, TypeOK', NEW t \in Threads, Proceeds(t), Control',
         NEW b \in Backups, OwnsRow(t, b), NEW status \in {"ACTIVE", "ERROR", "PENDING_UPDATE"},
         SetStatus({b}, status), UNCHANGED <<backend, deploy, deletes>>,
         \A e \in Edges : Carries(t, e)' => Carries(t, e),
         binding'[b] = [status |-> status, edge |-> binding[b].edge] => Holds(t)'
  PROVE  OInv' /\ Buried
  <1>1. binding[b].status \in {"ACTIVE", "ERROR", "PENDING_UPDATE"}
    BY OwnedStatus
  <1>2. /\ late' = {}
        /\ \A rid \in Rids :
             /\ binding'[rid].edge = binding[rid].edge
             /\ rid = b => binding'[rid].status = status
             /\ rid # b => binding'[rid].status = binding[rid].status
    BY <1>1, SetStatusEffect DEF SetStatus, OInv, RowsOrderly, IInv, TypeOK, Pending, Exists, Absent
  <1>3. /\ \A rid \in Rids : binding'[rid] = [status |-> binding'[rid].status, edge |-> binding'[rid].edge]
        /\ \A rid \in Rids : binding[rid] = [status |-> binding[rid].status, edge |-> binding[rid].edge]
    BY DEF IInv, TypeOK, Row
  <1>4. b \in Rids /\ b \notin Routers
    BY DEF Rids, PoolAssumption
  <1>5. \A rid \in Rids : rid # b => binding'[rid] = binding[rid]
    BY <1>2, <1>3
  <1>6. Holds(t)'
    BY <1>2, <1>3, <1>4
  <1>7. Shrinks
    BY <1>2, ShrinksOwner
  <1>8. RowsStep(MyRows(t))
    BY <1>5 DEF RowsStep, MyRows, Rids
  <1>9. RowsOrderly'
    <2>1. RouterRows' /\ NoRows'
      BY <1>1, <1>2, <1>4 DEF OInv, RowsOrderly, RouterRows, NoRows, Exists, Absent, Rids
    <2>2. Deploying'
      BY <1>1, <1>2 DEF OInv, RowsOrderly, Deploying, Rids
    <2> QED  BY <1>2, <2>1, <2>2 DEF RowsOrderly
  <1>10. \A r \in Routers : Absent(r) => Absent(r)'
    BY <1>4, <1>5 DEF Exists, Absent, Rids
  <1>11. Handed
    BY DEF Handed
  <1> QED  BY <1>6, <1>7, <1>8, <1>9, <1>10, <1>11, WriteStep

\* The selected row, still ACTIVE, becomes PENDING_UPDATE.
LEMMA AllocTakeOwns ==
  ASSUME PoolAssumption, IInv, OInv, TypeOK', NEW t \in Threads, AllocTake(t)
  PROVE  OInv' /\ Buried
  <1>1. /\ pc[t] = "aTake" /\ pc'[t] = "aUnbind" /\ SetStatus({bak[t]}, "PENDING_UPDATE")
        /\ UNCHANGED <<rtr, bak, eid, backend, deploy, deletes, hkVars>>
    BY DEF AllocTake, IInv, TypeOK, locals, jobVars, Goto
  <1>2. Proceeds(t)
    BY <1>1 DEF AllocTake, IInv, TypeOK, Proceeds, Same, locals, Goto
  <1>3. Control'
    BY <1>1, <1>2, ControlFrame DEF Allocates, Unbound, Clears, BootLabels
  <1>4. PICK b : b = bak[t]
    OBVIOUS
  <1>5. b \in Backups /\ OwnsRow(t, b) /\ rtr[t] \in Routers
    BY <1>1, <1>4 DEF OwnsRow, Selected, IInv, Shape
  <1>6. binding[b].edge = eid[t] /\ Absent(rtr[t])
    <2>1. binding[b] = [status |-> "ACTIVE", edge |-> eid[t]] /\ Absent(rtr[t])
      BY <1>1, <1>4 DEF OInv, Holds, RowIs, Unbound
    <2> QED  BY <2>1
  <1>7. \A e \in Edges : Carries(t, e)' => Carries(t, e)
    BY <1>1 DEF Carries
  <1>8. Absent(rtr[t])'
    <2>1. rtr[t] # b /\ rtr[t] \in Rids
      BY <1>5 DEF PoolAssumption, Rids
    <2> QED  BY <1>1, <1>4, <1>6, <2>1 DEF SetStatus, Exists, Absent
  <1>9. binding'[b] = [status |-> "PENDING_UPDATE", edge |-> binding[b].edge] => Holds(t)'
    BY <1>1, <1>4, <1>6, <1>8 DEF Holds, Choosing, Renews, Clears, Unbound, RowIs
  <1> QED  BY <1>1, <1>2, <1>3, <1>4, <1>5, <1>7, <1>9, StatusStep

\* The collected row, still PENDING_UPDATE, becomes ACTIVE: it returns to the pool.
LEMMA FreePoolOwns ==
  ASSUME PoolAssumption, IInv, OInv, TypeOK', NEW t \in Threads, FreePool(t)
  PROVE  OInv' /\ Buried
  <1>1. /\ pc[t] = "fPool" /\ Finish(t) /\ SetStatus({bak[t]}, "ACTIVE")
        /\ UNCHANGED <<backend, deploy, deletes, hkVars>>
    BY DEF FreePool, jobVars
  <1>2. /\ Proceeds(t) /\ Holds(t)' /\ ~Allocates(t)' /\ ret'[t] = "idle" /\ \A e \in Edges : ~Carries(t, e)'
    BY <1>1, FinishOwns
  <1>3. Control'
    BY <1>1, <1>2, ControlFrame DEF BootLabels
  <1>4. PICK b : b = bak[t]
    OBVIOUS
  <1>5. b \in Backups /\ OwnsRow(t, b)
    BY <1>1, <1>4 DEF OwnsRow, Renews, Collected, IInv, Shape
  <1> QED  BY <1>1, <1>2, <1>3, <1>4, <1>5, StatusStep

\* update_edge renames the collected edge; complete_edge_update sets its row to ERROR if
\* that fails.
LEMMA FreeUpdateOwns ==
  ASSUME PoolAssumption, IInv, OInv, TypeOK', NEW t \in Threads, FreeUpdate(t)
  PROVE  OInv' /\ Buried
  <1>1. /\ pc[t] = "fUpdate" /\ pc'[t] \in {"fActive", "fError"}
        /\ UNCHANGED <<rtr, bak, eid, backend, deploy, deletes, hkVars>>
    BY DEF FreeUpdate, IInv, TypeOK, locals, jobVars, Goto
  <1>2. Proceeds(t)
    BY <1>1 DEF FreeUpdate, IInv, TypeOK, Proceeds, Same, locals, Goto
  <1>3. Control'
    BY <1>1, <1>2, ControlFrame DEF Allocates, Unbound, Clears, BootLabels
  <1>4. binding[bak[t]] = [status |-> "PENDING_UPDATE", edge |-> eid[t]]
    BY <1>1 DEF OInv, Holds, Renews, RowIs
  <1>5. \A e \in Edges : ~Carries(t, e)'
    BY <1>1 DEF Carries
  <1>6. CASE pc'[t] = "fActive" /\ UNCHANGED <<binding, undated, late>>
    <2>1. Holds(t)'
      BY <1>1, <1>4, <1>6 DEF Holds, Choosing, Renews, Clears, Unbound, RowIs
    <2> QED  BY <1>1, <1>2, <1>3, <1>5, <1>6, <2>1, QuietStep
  <1>7. CASE pc'[t] = "fError" /\ SetStatus({bak[t]}, "ERROR")
    <2>1. PICK b : b = bak[t]
      OBVIOUS
    <2>2. b \in Backups /\ OwnsRow(t, b)
      BY <1>1, <2>1 DEF OwnsRow, Renews, Collected, IInv, Shape
    <2>3. binding'[b] = [status |-> "ERROR", edge |-> binding[b].edge] => Holds(t)'
      BY <1>1, <1>4, <1>7, <2>1 DEF Holds, Choosing, Renews, Clears, Unbound, RowIs
    <2> QED  BY <1>1, <1>2, <1>3, <1>5, <1>7, <2>1, <2>2, <2>3, StatusStep
  <1> QED  BY <1>1, <1>6, <1>7 DEF FreeUpdate, IInv, TypeOK, Goto

\* The row of the pool is deleted; the request carries its edge, which is nobody else's.
LEMMA AllocUnbindOwns ==
  ASSUME PoolAssumption, IInv, OInv, TypeOK', NEW t \in Threads, AllocUnbind(t)
  PROVE  OInv' /\ Buried
  <1>1. /\ pc[t] = "aUnbind" /\ pc'[t] = "aBind" /\ DeleteRow(bak[t])
        /\ UNCHANGED <<rtr, bak, eid, backend, deploy, deletes, hkVars>>
    BY DEF AllocUnbind, IInv, TypeOK, locals, jobVars, Goto
  <1>2. Proceeds(t)
    BY <1>1 DEF AllocUnbind, IInv, TypeOK, Proceeds, Same, locals, Goto
  <1>3. Control'
    BY <1>1, <1>2, ControlFrame DEF Allocates, Unbound, Clears, BootLabels
  <1>4. PICK b : b = bak[t]
    OBVIOUS
  <1>5. b \in Backups /\ b \in Rids /\ b \notin Routers /\ OwnsRow(t, b) /\ rtr[t] \in Routers /\ Selected(t)
    BY <1>1, <1>4 DEF OwnsRow, Selected, IInv, Shape, PoolAssumption, Rids
  <1>6. Absent(rtr[t])
    BY <1>1 DEF OInv, Holds, Unbound
  <1>7. late' = {} /\ binding'[b] = NoRow /\ \A rid \in Rids : rid # b => binding'[rid] = binding[rid]
    BY <1>1, <1>4, <1>5 DEF DeleteRow, OInv, RowsOrderly, IInv, TypeOK
  <1>8. Holds(t)'
    BY <1>1, <1>5, <1>6, <1>7 DEF Holds, Choosing, Renews, Clears, Unbound, Exists, Absent, Rids
  <1>9. Shrinks
    <2>1. \A e \in Edges : Carries(t, e)' => Carries(t, e)
      BY <1>1 DEF Carries
    <2> QED  BY <1>1, <1>2, <1>7, <2>1, ShrinksOwner DEF NoRow
  <1>10. RowsStep(MyRows(t))
    BY <1>5, <1>7 DEF RowsStep, MyRows, Rids
  <1>11. RowsOrderly'
    <2>1. RouterRows' /\ NoRows'
      BY <1>5, <1>7 DEF OInv, RowsOrderly, RouterRows, NoRows, Exists, Absent, Rids, NoRow
    <2>2. Deploying'
      <3>1. deploy[b].stage = "none"
        BY <1>4, <1>5 DEF IInv, SelectedQuiet
      <3> QED  BY <1>1, <1>5, <1>7, <3>1 DEF OInv, RowsOrderly, Deploying, Rids, NoRow
    <2> QED  BY <1>7, <2>1, <2>2 DEF RowsOrderly
  <1>12. \A r \in Routers : Absent(r) => Absent(r)'
    BY <1>1, <1>5, <1>7 DEF Exists, Absent, Rids
  <1>13. Handed
    BY <1>1 DEF Handed
  <1> QED  BY <1>1, <1>2, <1>3, <1>8, <1>9, <1>10, <1>11, <1>12, <1>13, WriteStep

\* A step of a thread that writes the row of its router, its deployment included.
LEMMA RouterStep ==
  ASSUME PoolAssumption, IInv, OInv, TypeOK', NEW t \in Threads, Proceeds(t), Control', Holds(t)',
         NEW r \in Routers, r = rtr[t], UNCHANGED <<backend, deletes>>, late' \subseteq late,
         \A rid \in Rids : rid # r => binding'[rid] = binding[rid] /\ deploy'[rid] = deploy[rid],
         binding'[r].status # "PENDING_DELETE", ~Exists(r)' => binding'[r].edge = NoEdge,
         Absent(r) => Absent(r)' \/ Allocates(t),
         deploy'[r].stage = "record" => deploy'[r] = deploy[r],
         deploy'[r].stage \in {"queued", "backend", "record"} => binding'[r].edge = NoEdge,
         binding'[r].edge \in {binding[r].edge, NoEdge} \/ Carries(t, binding'[r].edge),
         \A e \in Edges : Carries(t, e)' => Carries(t, e)
  PROVE  OInv' /\ Buried
  <1>1. r \in Rids /\ r \notin Backups /\ Backups \subseteq Rids /\ Routers \subseteq Rids
    BY DEF Rids, PoolAssumption
  <1>2. RowsStep(MyRows(t)) /\ Handed
    BY <1>1 DEF RowsStep, Handed
  <1>3. RowsOrderly'
    <2>1. RouterRows' /\ NoRows'
      BY <1>1 DEF OInv, RowsOrderly, RouterRows, NoRows, Exists, Absent
    <2>2. Deploying'
      BY <1>1 DEF OInv, RowsOrderly, Deploying
    <2>3. late' = {}
      BY DEF OInv, RowsOrderly
    <2> QED  BY <2>1, <2>2, <2>3 DEF RowsOrderly
  <1>4. \A u \in Threads, e \in Edges : Carries(u, e)' => Carries(u, e)
    BY DEF Proceeds, Same, Carries
  <1>5. DoomedStay
    <2>1. ASSUME NEW e \in Edges, Doomed(e) PROVE Doomed(e)'
      <3>1. ASSUME NEW rid \in Rids, binding'[rid].edge = e
            PROVE  rid \in Backups /\ binding'[rid].status = "PENDING_DELETE"
        <4>1. rid # r
          BY <1>1, <2>1, <3>1 DEF Doomed, PoolAssumption
        <4> QED  BY <2>1, <3>1, <4>1 DEF Doomed
      <3>2. \A u \in Threads : ~Carries(u, e)'
        BY <1>4, <2>1 DEF Doomed
      <3>3. \A rid \in Rids : deploy'[rid].stage = "record" => deploy'[rid].edge # e
        BY <1>1, <2>1 DEF Doomed
      <3> QED  BY <3>1, <3>2, <3>3 DEF Doomed
    <2> QED  BY <2>1 DEF DoomedStay
  <1>6. Backed'
    <2>1. ASSUME NEW rid \in Rids, binding'[rid].edge \in Edges, binding'[rid].status # "PENDING_DELETE"
          PROVE  binding'[rid].edge \in backend
      <3>1. CASE rid = r
        BY <1>1, <2>1, <3>1 DEF OInv, Backed, RowsOrderly, RouterRows, PoolAssumption
      <3>2. CASE rid # r
        BY <2>1, <3>2 DEF OInv, Backed
      <3> QED  BY <3>1, <3>2
    <2>2. \A rid \in Rids : deploy'[rid].stage = "record" => deploy'[rid].edge \in backend
      BY <1>1 DEF OInv, Backed
    <2> QED  BY <1>4, <2>1, <2>2 DEF OInv, Backed
  <1>7. \A s \in Routers : Absent(s) => Absent(s)' \/ (s = rtr[t] /\ Allocates(t))
    BY <1>1 DEF Exists, Absent
  <1>8. RouterRows'
    BY <1>3 DEF RowsOrderly
  <1>9. (\A u \in Threads : Holds(u)') /\ HkHolds' /\ Leaving' /\ Buried
    BY <1>2, <1>5, <1>7, <1>8, ThreadFrame
  <1> QED  BY <1>3, <1>6, <1>9 DEF OInv

\* The row of the router is added with the edge that the request carries.
LEMMA AllocBindOwns ==
  ASSUME PoolAssumption, IInv, OInv, TypeOK', NEW t \in Threads, AllocBind(t)
  PROVE  OInv' /\ Buried
  <1>1. /\ pc[t] = "aBind" /\ pc'[t] = "aEdge" /\ rtr[t] \in Routers /\ AddRow(rtr[t], eid[t], "PENDING_CREATE")
        /\ UNCHANGED <<rtr, bak, eid, backend, deploy, deletes, hkVars>>
    BY DEF AllocBind, IInv, TypeOK, Shape, locals, jobVars, Goto
  <1>2. Proceeds(t)
    BY <1>1 DEF AllocBind, IInv, TypeOK, Proceeds, Same, locals, Goto
  <1>3. Control'
    BY <1>1, <1>2, ControlFrame DEF Allocates, Unbound, Clears, BootLabels
  <1>4. Holds(t)'
    BY <1>1 DEF Holds, Choosing, Renews, Clears, Unbound
  <1>5. PICK r \in Routers : r = rtr[t]
    BY <1>1
  <1>6. /\ late' \subseteq late /\ binding'[r] = [status |-> "PENDING_CREATE", edge |-> eid[t]]
        /\ \A rid \in Rids : rid # r => binding'[rid] = binding[rid]
    BY <1>1, <1>5 DEF AddRow, IInv, TypeOK, Rids
  <1>7. binding'[r].status = "PENDING_CREATE" /\ binding'[r].edge = eid[t]
    BY <1>6
  <1>8. Allocates(t) /\ Carries(t, eid[t]) /\ \A e \in Edges : ~Carries(t, e)'
    BY <1>1 DEF Allocates, Unbound, Carries
  <1>9. deploy'[r].stage = "none"
    BY <1>1, <1>5 DEF OInv, Holds, Unbound, Absent
  <1> QED  BY <1>1, <1>2, <1>3, <1>4, <1>5, <1>6, <1>7, <1>8, <1>9, RouterStep DEF Exists, Absent

\* The row of the router is added without an edge, and its deployment starts.
LEMMA AllocAddOwns ==
  ASSUME PoolAssumption, IInv, OInv, TypeOK', NEW t \in Threads, AllocAdd(t)
  PROVE  OInv' /\ Buried
  <1>1. /\ pc[t] = "aAdd" /\ pc'[t] = "aDeploy" /\ rtr[t] \in Routers /\ AddRow(rtr[t], NoEdge, "PENDING_CREATE")
        /\ Stage(rtr[t], "backend", NoEdge)
        /\ UNCHANGED <<rtr, bak, eid, backend, deletes, hkVars>>
    BY DEF AllocAdd, IInv, TypeOK, Shape, locals, Goto
  <1>2. Proceeds(t)
    BY <1>1 DEF AllocAdd, IInv, TypeOK, Proceeds, Same, locals, Goto
  <1>3. PICK r \in Routers : r = rtr[t]
    BY <1>1
  <1>4. /\ late' \subseteq late /\ binding'[r] = [status |-> "PENDING_CREATE", edge |-> NoEdge]
        /\ deploy'[r] = [stage |-> "backend", edge |-> NoEdge]
        /\ \A rid \in Rids : rid # r => binding'[rid] = binding[rid] /\ deploy'[rid] = deploy[rid]
    BY <1>1, <1>3 DEF AddRow, Stage, IInv, TypeOK, Rids
  <1>5. /\ binding'[r].status = "PENDING_CREATE" /\ binding'[r].edge = NoEdge /\ deploy'[r].stage = "backend"
    BY <1>4
  <1>6. Control'
    <2>1. ~Booting'
      BY <1>1, <1>2 DEF OInv, Control, BootAlone, BootLabels, Booting, Proceeds, Same, PoolAssumption
    <2> QED  BY <1>1, <1>2, <2>1, ControlFrame DEF Allocates, Unbound, Clears, BootLabels
  <1>7. Holds(t)'
    BY <1>1 DEF Holds, Choosing, Renews, Clears, Unbound
  <1>8. Allocates(t) /\ \A e \in Edges : ~Carries(t, e)'
    BY <1>1 DEF Allocates, Unbound, Carries
  <1> QED  BY <1>1, <1>2, <1>3, <1>4, <1>5, <1>6, <1>7, <1>8, RouterStep DEF Exists

\* complete_edge_creation makes the row of the router ACTIVE, or fails and the request ends.
LEMMA AllocDoneOwns ==
  ASSUME PoolAssumption, ~HostGroups, IInv, OInv, TypeOK', NEW t \in Threads, AllocDone(t)
  PROVE  OInv' /\ Buried
  <1>1. CASE Finish(t) /\ UNCHANGED <<binding, undated, late>>
    BY <1>1, FinishQuiet DEF AllocDone, jobVars
  <1>2. CASE SetStatus({rtr[t]}, "ACTIVE") /\ Goto(t, "aCount") /\ UNCHANGED locals
    <2>1. /\ pc[t] = "aDone" /\ pc'[t] = "aCount" /\ rtr[t] \in Routers /\ Exists(rtr[t])
          /\ UNCHANGED <<rtr, bak, eid, backend, deploy, deletes, hkVars>>
      BY <1>2 DEF AllocDone, IInv, TypeOK, Shape, locals, jobVars, Goto
    <2>2. Proceeds(t)
      BY <1>2, <2>1 DEF AllocDone, IInv, TypeOK, Proceeds, Same, locals, Goto
    <2>3. PICK r \in Routers : r = rtr[t]
      BY <2>1
    <2>4. /\ late' \subseteq late
          /\ \A rid \in Rids : rid # r => binding'[rid] = binding[rid]
          /\ binding'[r].status = "ACTIVE" /\ binding'[r].edge = binding[r].edge
      BY <1>2, <2>1, <2>3 DEF SetStatus, IInv, TypeOK, Rids, Row, Exists
    <2>5. Control'
      BY <2>1, <2>2, ControlFrame DEF Allocates, Unbound, Clears, BootLabels
    <2>6. Holds(t)'
      BY <2>1 DEF Holds, Choosing, Renews, Clears, Unbound
    <2>7. \A e \in Edges : ~Carries(t, e)'
      BY <2>1 DEF Carries
    <2>8. deploy[r].stage \in {"queued", "backend", "record"} => binding[r].edge = NoEdge
      BY DEF OInv, RowsOrderly, Deploying, Rids
    <2> QED  BY <2>1, <2>2, <2>3, <2>4, <2>5, <2>6, <2>7, <2>8, RouterStep DEF Exists, Absent
  <1> QED  BY <1>1, <1>2 DEF AllocDone

\* The request learns how its deployment ended.
LEMMA AllocDeployedOwns ==
  ASSUME PoolAssumption, IInv, OInv, TypeOK', NEW t \in Threads, AllocDeployed(t)
  PROVE  OInv' /\ Buried
  <1>1. /\ pc[t] = "aDeploy" /\ rtr[t] \in Routers
        /\ deploy[rtr[t]].stage \in {"ok", "raised"} /\ deploy' = [deploy EXCEPT ![rtr[t]] = NoDeploy]
        /\ UNCHANGED <<binding, late, backend, deletes, hkVars>>
    BY DEF AllocDeployed, IInv, TypeOK, Shape, dbVars
  <1>2. PICK r \in Routers : r = rtr[t]
    BY <1>1
  <1>3. /\ deploy'[r].stage = "none" /\ \A rid \in Rids : rid # r => deploy'[rid] = deploy[rid]
    BY <1>1, <1>2 DEF NoDeploy, IInv, TypeOK, Rids
  <1>4. \A rid \in Rids : deploy[rid].stage = "none" => deploy'[rid].stage = "none"
    BY <1>3
  <1>5. /\ Proceeds(t) /\ Holds(t)' /\ Control' /\ \A e \in Edges : ~Carries(t, e)'
    <2>1. CASE Finish(t)
      <3>1. /\ Proceeds(t) /\ Holds(t)' /\ ~Allocates(t)' /\ ret'[t] = "idle" /\ \A e \in Edges : ~Carries(t, e)'
        BY <1>1, <2>1, FinishOwns
      <3> QED  BY <1>4, <3>1, ControlFrame DEF BootLabels
    <2>2. CASE Goto(t, "aCount") /\ UNCHANGED locals
      <3>1. pc'[t] = "aCount" /\ UNCHANGED <<rtr, bak, eid, ret>>
        BY <2>2 DEF IInv, TypeOK, locals, Goto
      <3>2. Proceeds(t)
        BY <1>1, <2>2, <3>1 DEF IInv, TypeOK, Proceeds, Same, locals, Goto
      <3>3. Control'
        BY <1>1, <1>4, <3>1, <3>2, ControlFrame DEF Allocates, Unbound, Clears, BootLabels
      <3>4. Holds(t)'
        BY <3>1 DEF Holds, Choosing, Renews, Clears, Unbound
      <3>5. \A e \in Edges : ~Carries(t, e)'
        BY <3>1 DEF Carries
      <3> QED  BY <3>2, <3>3, <3>4, <3>5
    <2> QED  BY <2>1, <2>2 DEF AllocDeployed
  <1>6. binding[r].status # "PENDING_DELETE" /\ (~Exists(r) => binding[r].edge = NoEdge)
    BY DEF OInv, RowsOrderly, RouterRows, NoRows, Rids
  <1> QED  BY <1>1, <1>2, <1>3, <1>5, <1>6, RouterStep DEF Exists, Absent

\* The row of the router is deleted; the request carries its edge.
LEMMA FreeUnbindOwns ==
  ASSUME PoolAssumption, IInv, OInv, TypeOK', NEW t \in Threads, FreeUnbind(t)
  PROVE  OInv' /\ Buried
  <1>1. /\ pc[t] = "fUnbind" /\ pc'[t] = "fAdd" /\ rtr[t] \in Routers /\ DeleteRow(rtr[t])
        /\ UNCHANGED <<rtr, bak, eid, backend, deploy, deletes, hkVars>>
    BY DEF FreeUnbind, IInv, TypeOK, Shape, locals, jobVars, Goto
  <1>2. Proceeds(t)
    BY <1>1 DEF FreeUnbind, IInv, TypeOK, Proceeds, Same, locals, Goto
  <1>3. PICK r \in Routers : r = rtr[t]
    BY <1>1
  <1>4. /\ late' \subseteq late /\ binding'[r].status = "NONE" /\ binding'[r].edge = NoEdge
        /\ \A rid \in Rids : rid # r => binding'[rid] = binding[rid]
    BY <1>1, <1>3 DEF DeleteRow, NoRow, IInv, TypeOK, Rids
  <1>5. Control'
    BY <1>1, <1>2, ControlFrame DEF Allocates, Unbound, Clears, BootLabels
  <1>6. Holds(t)'
    BY <1>1 DEF Holds, Choosing, Renews, Clears, Unbound
  <1>7. \A e \in Edges : Carries(t, e)' => Carries(t, e)
    BY <1>1 DEF Carries
  <1> QED  BY <1>1, <1>2, <1>3, <1>4, <1>5, <1>6, <1>7, RouterStep DEF Exists, Absent

\* Fresh rows are added and their deployments are handed to the workers.
LEMMA FillStep ==
  ASSUME PoolAssumption, IInv, OInv, TypeOK', NEW t \in Threads, pc[t] \in {"aRefill", "bCount"}, Finish(t),
         NEW new \in SUBSET FreshBackups, AddBackups(new), UNCHANGED <<backend, deletes, hkVars>>
  PROVE  OInv' /\ Buried
  <1>1. /\ Proceeds(t) /\ Holds(t)' /\ ~Allocates(t)' /\ ret'[t] = "idle" /\ \A e \in Edges : ~Carries(t, e)'
        /\ pc'[t] = "idle"
    BY FinishOwns, FinishEffect DEF IInv
  <1>2. \A b \in new : b \in Backups /\ b \notin RidsInUse /\ b \notin Routers
    BY DEF FreshBackups, PoolAssumption
  <1>3. \A b \in new : ~Exists(b) /\ binding[b].edge = NoEdge /\ deploy[b].stage = "none"
    BY <1>2, NamedInUse DEF OInv, RowsOrderly, NoRows, Rids
  <1>4. /\ late' = {}
        /\ \A rid \in Rids \ new : binding'[rid] = binding[rid] /\ deploy'[rid] = deploy[rid]
        /\ \A b \in new : /\ binding'[b].status = "PENDING_CREATE" /\ binding'[b].edge = NoEdge
                          /\ deploy'[b].stage = "queued"
    BY <1>2 DEF AddBackups, OInv, RowsOrderly, Rids
  <1>5. Control'
    <2>1. ~Booting'
      BY <1>1 DEF OInv, Control, MainBoots, BootAlone, Booting, Proceeds, Same, PoolAssumption
    <2> QED  BY <1>1, <2>1, ControlFrame DEF BootLabels
  <1>6. RowsOrderly'
    BY <1>2, <1>3, <1>4 DEF OInv, RowsOrderly, RouterRows, NoRows, Deploying, Exists, Rids
  <1>7. Shrinks
    <2>1. \A rid \in Rids : /\ binding'[rid].edge \in {binding[rid].edge, NoEdge}
                            /\ deploy'[rid].stage = "record" => deploy'[rid] = deploy[rid]
      BY <1>4
    <2> QED  BY <1>1, <2>1, ShrinksOwner
  <1>8. RowsStep(MyRows(t))
    BY <1>2, <1>4 DEF RowsStep, Rids
  <1>9. \A r \in Routers : Absent(r) => Absent(r)'
    BY <1>2, <1>4 DEF Exists, Absent, Rids
  <1>10. Handed
    BY DEF Handed
  <1> QED  BY <1>1, <1>5, <1>6, <1>7, <1>8, <1>9, <1>10, WriteStep

\* The start-up check, or the refill after an allocation, adds rows to the pool and queues
\* their deployment.
LEMMA FillOwns ==
  ASSUME PoolAssumption, IInv, OInv, TypeOK', BootFill \/ \E t \in Threads : AllocRefill(t)
  PROVE  OInv' /\ Buried
  <1>1. Main \in Threads
    BY DEF PoolAssumption
  <1>2. CASE BootFill
    BY <1>1, <1>2, FillStep DEF BootFill
  <1>3. ASSUME NEW t \in Threads, AllocRefill(t) PROVE OInv' /\ Buried
    BY <1>3, FillStep DEF AllocRefill
  <1> QED  BY <1>2, <1>3

\* The edge that the request carries gets a row of the pool, as PENDING_UPDATE.
LEMMA FreeAddOwns ==
  ASSUME PoolAssumption, IInv, OInv, TypeOK', NEW t \in Threads, FreeAdd(t)
  PROVE  OInv' /\ Buried
  <1>1. PICK b \in FreshBackups : bak' = [bak EXCEPT ![t] = b] /\ AddRow(b, eid[t], "PENDING_UPDATE")
    BY DEF FreeAdd
  <1>2. /\ pc[t] = "fAdd" /\ pc'[t] = "fCheck" /\ bak'[t] = b
        /\ UNCHANGED <<rtr, eid, backend, deploy, deletes, hkVars>>
    BY <1>1 DEF FreeAdd, IInv, TypeOK, jobVars, Goto
  <1>3. Proceeds(t)
    BY <1>1, <1>2 DEF FreeAdd, IInv, TypeOK, Proceeds, Same, Goto
  <1>4. Control'
    BY <1>2, <1>3, ControlFrame DEF Allocates, Unbound, Clears, BootLabels
  <1>5. /\ b \in Backups /\ b \in Rids /\ b \notin RidsInUse /\ b \notin Routers
        /\ ~Exists(b) /\ deploy[b].stage = "none" /\ Backups \subseteq Rids /\ Routers \subseteq Rids
    BY NamedInUse DEF FreshBackups, PoolAssumption, Rids
  <1>6. /\ late' = {} /\ binding'[b] = [status |-> "PENDING_UPDATE", edge |-> eid[t]]
        /\ \A rid \in Rids : rid # b => binding'[rid] = binding[rid]
    BY <1>1, <1>5 DEF AddRow, OInv, RowsOrderly, IInv, TypeOK
  <1>7. binding'[b].status = "PENDING_UPDATE" /\ binding'[b].edge = eid[t]
    BY <1>6
  <1>8. Holds(t)'
    BY <1>2, <1>6 DEF Holds, Choosing, Renews, Clears, Unbound, RowIs
  <1>9. RowsOrderly'
    <2>1. RouterRows' /\ NoRows'
      BY <1>5, <1>6, <1>7 DEF OInv, RowsOrderly, RouterRows, NoRows, Exists
    <2>2. Deploying'
      BY <1>2, <1>5, <1>6 DEF OInv, RowsOrderly, Deploying
    <2> QED  BY <1>6, <2>1, <2>2 DEF RowsOrderly
  <1>10. RowsStep(MyRows(t)) /\ Handed
    BY <1>2, <1>5, <1>6 DEF RowsStep, Handed
  <1>11. \A u \in Threads, e \in Edges : Carries(u, e)' => Carries(u, e)
    BY <1>2, <1>3 DEF Proceeds, Same, Carries
  <1>12. \A e \in Edges : e = eid[t] => Carries(t, e)
    BY <1>2 DEF Carries
  <1>13. DoomedStay
    <2>1. ASSUME NEW e \in Edges, Doomed(e) PROVE Doomed(e)'
      <3>1. \A rid \in Rids : binding'[rid].edge = e => rid # b
        BY <1>7, <1>12, <2>1 DEF Doomed
      <3>2. \A rid \in Rids : binding'[rid].edge = e => rid \in Backups /\ binding'[rid].status = "PENDING_DELETE"
        BY <1>6, <2>1, <3>1 DEF Doomed
      <3> QED  BY <1>2, <1>11, <2>1, <3>2 DEF Doomed
    <2> QED  BY <2>1 DEF DoomedStay
  <1>14. Backed'
    <2>1. ASSUME NEW rid \in Rids, binding'[rid].edge \in Edges, binding'[rid].status # "PENDING_DELETE"
          PROVE  binding'[rid].edge \in backend
      BY <1>6, <1>7, <1>12, <2>1 DEF OInv, Backed
    <2> QED  BY <1>2, <1>11, <2>1 DEF OInv, Backed
  <1>15. \A r \in Routers : Absent(r) => Absent(r)'
    BY <1>2, <1>5, <1>6 DEF Exists, Absent
  <1>16. RouterRows'
    BY <1>9 DEF RowsOrderly
  <1>17. (\A u \in Threads : Holds(u)') /\ HkHolds' /\ Leaving' /\ Buried
    BY <1>3, <1>8, <1>10, <1>13, <1>15, <1>16, ThreadFrame
  <1> QED  BY <1>4, <1>9, <1>14, <1>17 DEF OInv

-----------------------------------------------------------------------------
(* The steps of the workers.                                               *)

\* Those of the deployment of a row: a row of the pool is PENDING_CREATE until it ends.
LEMMA DeployMoves ==
  ASSUME PoolAssumption, IInv, OInv, TypeOK', NEW rid \in Rids, deploy[rid].stage # "none",
         \A r \in Rids : r # rid => binding'[r] = binding[r] /\ deploy'[r] = deploy[r],
         late' \subseteq late, UNCHANGED <<pc, locals, deletes, hkVars>>,
         binding'[rid].status # "PENDING_DELETE", ~Exists(rid)' => binding'[rid].edge = NoEdge,
         rid \in Backups /\ deploy'[rid].stage # "none" => binding'[rid].status = "PENDING_CREATE",
         deploy'[rid].stage \in {"queued", "backend", "record"} => binding'[rid].edge = NoEdge,
         DoomedStay, Backed'
  PROVE  OInv' /\ Buried
  <1>1. UNCHANGED <<rtr, bak, eid, cand, todo, ret, hkPc, hkTodo, hkCur>>
    BY DEF locals, hkVars
  <1>2. Control'
    <2>1. Booting => \A r \in Rids : deploy[r].stage = "none"
      BY DEF OInv, Control, BootAlone
    <2>2. ~Booting'
      BY <1>1, <2>1 DEF Booting
    <2>3. MainBoots' /\ HkAlone'
      BY <1>1 DEF OInv, Control, MainBoots, HkAlone
    <2>4. OneAlloc'
      BY <1>1 DEF OInv, Control, OneAlloc, Allocates, Unbound, Clears
    <2> QED  BY <2>2, <2>3, <2>4 DEF Control, BootAlone
  <1>3. RowsOrderly'
    <2>1. RouterRows' /\ NoRows'
      BY DEF OInv, RowsOrderly, RouterRows, NoRows, Exists, Rids
    <2>2. Deploying'
      BY DEF OInv, RowsOrderly, Deploying, Rids
    <2>3. late' = {}
      BY DEF OInv, RowsOrderly
    <2> QED  BY <2>1, <2>2, <2>3 DEF RowsOrderly
  <1>4. PICK mine : mine = {b \in Backups : b = rid}
    OBVIOUS
  <1>5. \A b \in mine : binding[b].status = "PENDING_CREATE"
    BY <1>4 DEF OInv, RowsOrderly, Deploying
  <1>6. RowsStep(mine)
    BY <1>4 DEF RowsStep, Rids
  <1>7. \A b \in mine : \A u \in Threads : ~OwnsRow(u, b)
    BY <1>4, <1>5, OwnedStatus
  <1>8. ASSUME NEW b \in mine PROVE b \notin HkRids
    <2>1. ASSUME NEW x, x \in hkTodo \/ (hkPc \in {"update", "activate", "purge"} /\ x = hkCur), x.rid = b PROVE FALSE
      <3>1. binding[b] = [status |-> "ERROR", edge |-> x.edge]
        BY <2>1 DEF OInv, HkHolds, RowIs
      <3> QED  BY <1>5, <1>8, <3>1
    <2>2. ASSUME hkPc \in {"erase", "destroy"}, hkCur.rid = b PROVE FALSE
      <3>1. ~Exists(b) \/ binding[b] = [status |-> "PENDING_DELETE", edge |-> hkCur.edge]
        BY <2>2 DEF OInv, HkHolds, Sent, RowIs
      <3> QED  BY <1>5, <1>8, <3>1 DEF Exists
    <2> QED  BY <2>1, <2>2 DEF HkRids, HkBusy
  <1>9. ASSUME NEW u \in Threads PROVE Same(u) /\ (Unbound(u) => Absent(rtr[u])')
    <2>1. Unbound(u) => rtr[u] \in Routers /\ Absent(rtr[u])
      BY DEF OInv, Holds, IInv, Shape, Unbound, Clears
    <2>2. Unbound(u) => rtr[u] # rid /\ rtr[u] \in Rids
      BY <2>1 DEF Absent, Rids
    <2> QED  BY <1>1, <2>1, <2>2 DEF Same, Absent, Exists
  <1>10. Handed /\ RouterRows'
    BY <1>3 DEF Handed, RowsOrderly
  <1>11. (\A u \in Threads : Holds(u)') /\ HkHolds' /\ Leaving' /\ Buried
    BY <1>5, <1>6, <1>7, <1>8, <1>9, <1>10, Frame
  <1> QED  BY <1>2, <1>3, <1>11 DEF OInv

\* One after which no edge has a new owner.
LEMMA DeployShrinks ==
  ASSUME PoolAssumption, IInv, OInv, TypeOK', NEW rid \in Rids, deploy[rid].stage # "none",
         \A r \in Rids : r # rid => binding'[r] = binding[r] /\ deploy'[r] = deploy[r],
         late' \subseteq late, UNCHANGED <<backend, pc, locals, deletes, hkVars>>,
         binding'[rid].edge = binding[rid].edge, deploy'[rid].stage \notin {"queued", "record"},
         deploy'[rid].stage = "backend" => deploy[rid].stage = "queued",
         binding'[rid].status # "PENDING_DELETE", Exists(rid)' <=> Exists(rid),
         rid \in Backups /\ deploy'[rid].stage # "none" => binding'[rid].status = binding[rid].status
  PROVE  OInv' /\ Buried
  <1>1. UNCHANGED <<rtr, bak, eid, cand, todo, ret>>
    BY DEF locals
  <1>2. Shrinks
    BY <1>1 DEF Shrinks, Carries
  <1>3. binding[rid].status # "PENDING_DELETE"
    BY DEF OInv, RowsOrderly, RouterRows, Deploying, Rids
  <1>4. DoomedStay
    <2>1. ASSUME NEW e \in Edges, Doomed(e) PROVE Doomed(e)'
      <3>1. \A r \in Rids : binding'[r].edge = e => r \in Backups /\ binding'[r].status = "PENDING_DELETE"
        BY <1>3, <2>1 DEF Doomed
      <3> QED  BY <1>2, <2>1, <3>1 DEF Doomed, Shrinks
    <2> QED  BY <2>1 DEF DoomedStay
  <1>5. Backed'
    BY <1>2, <1>3, ShrinksBacked
  <1>6. ~Exists(rid)' => binding'[rid].edge = NoEdge
    BY DEF OInv, RowsOrderly, NoRows
  <1>7. rid \in Backups /\ deploy'[rid].stage # "none" => binding'[rid].status = "PENDING_CREATE"
    BY DEF OInv, RowsOrderly, Deploying
  <1>8. deploy'[rid].stage \in {"queued", "backend", "record"} => binding'[rid].edge = NoEdge
    BY DEF OInv, RowsOrderly, Deploying
  <1> QED  BY <1>4, <1>5, <1>6, <1>7, <1>8, DeployMoves

\* A worker takes a deployment from the queue.
LEMMA DeployStartOwns ==
  ASSUME PoolAssumption, IInv, OInv, TypeOK', NEW b \in Backups, DeployStart(b)
  PROVE  OInv' /\ Buried
  <1>1. b \in Rids
    BY DEF Rids
  <1>2. /\ deploy[b].stage = "queued" /\ deploy'[b].stage = "backend"
        /\ \A r \in Rids : r # b => deploy'[r] = deploy[r]
        /\ UNCHANGED <<binding, late, backend, pc, locals, deletes, hkVars>>
    BY <1>1 DEF DeployStart, Stage, IInv, TypeOK, dbVars
  <1>3. binding[b].status # "PENDING_DELETE"
    BY <1>2 DEF OInv, RowsOrderly, Deploying
  <1> QED  BY <1>1, <1>2, <1>3, DeployShrinks DEF Exists

\* The backend answers a deployment with a new edge, or fails: an edge that nothing refers
\* to is not sent to deletion.
LEMMA DeployBackendOwns ==
  ASSUME PoolAssumption, IInv, OInv, TypeOK', NEW rid \in Rids, DeployBackend(rid)
  PROVE  OInv' /\ Buried
  <1>1. deploy[rid].stage = "backend" /\ UNCHANGED <<binding, late, pc, locals, deletes, hkVars>>
    BY DEF DeployBackend, dbVars
  <1>2. binding[rid].status # "PENDING_DELETE" /\ (rid \in Backups => binding[rid].status = "PENDING_CREATE")
        /\ binding[rid].edge = NoEdge /\ (~Exists(rid) => binding[rid].edge = NoEdge)
    BY <1>1 DEF OInv, RowsOrderly, Deploying, RouterRows, Rids
  <1>3. CASE Stage(rid, "undo", NoEdge) /\ UNCHANGED backend
    <2>1. deploy'[rid].stage = "undo" /\ \A r \in Rids : r # rid => deploy'[r] = deploy[r]
      BY <1>3 DEF Stage, IInv, TypeOK
    <2> QED  BY <1>1, <1>2, <1>3, <2>1, DeployShrinks DEF Exists
  <1>4. ASSUME NEW e \in FreshEdges, backend' = backend \cup {e}, Stage(rid, "record", e)
        PROVE  OInv' /\ Buried
    <2>1. /\ deploy'[rid].stage = "record" /\ deploy'[rid].edge = e
          /\ \A r \in Rids : r # rid => deploy'[r] = deploy[r]
      BY <1>4 DEF Stage, IInv, TypeOK
    <2>2. e \in Edges /\ e \notin EdgesInUse
      BY DEF FreshEdges
    <2>3. UNCHANGED <<rtr, bak, eid, cand, todo, ret>>
      BY <1>1 DEF locals
    <2>4. \A u \in Threads, f \in Edges : Carries(u, f)' <=> Carries(u, f)
      BY <1>1, <2>3 DEF Carries
    <2>5. DoomedStay
      <3>1. ASSUME NEW f \in Edges \cap EdgesInUse, Doomed(f) PROVE Doomed(f)'
        <4>1. \A r \in Rids : deploy'[r].stage = "record" => deploy'[r].edge # f
          BY <2>1, <2>2, <3>1 DEF Doomed
        <4> QED  BY <1>1, <2>4, <3>1, <4>1 DEF Doomed
      <3> QED  BY <3>1 DEF DoomedStay
    <2>6. Backed'
      <3>1. \A r \in Rids : deploy'[r].stage = "record" => deploy'[r].edge \in backend'
        BY <1>4, <2>1 DEF OInv, Backed
      <3> QED  BY <1>1, <1>4, <2>4, <3>1 DEF OInv, Backed
    <2> QED  BY <1>1, <1>2, <2>1, <2>5, <2>6, DeployMoves DEF Exists
  <1> QED  BY <1>3, <1>4 DEF DeployBackend

\* The row of the deployment learns its edge.
LEMMA DeployRecordOwns ==
  ASSUME PoolAssumption, IInv, OInv, TypeOK', NEW rid \in Rids, DeployRecord(rid)
  PROVE  OInv' /\ Buried
  <1>1. deploy[rid].stage = "record" /\ UNCHANGED <<late, backend, pc, locals, deletes, hkVars>>
    BY DEF DeployRecord
  <1>2. binding[rid].status # "PENDING_DELETE" /\ (rid \in Backups => binding[rid].status = "PENDING_CREATE")
        /\ deploy[rid].edge \in Edges
    BY <1>1 DEF OInv, RowsOrderly, Deploying, RouterRows, Rids, IInv, Shape
  <1>3. CASE ~Exists(rid)
    <2>1. rid \notin Backups
      BY <1>2, <1>3 DEF Exists
    <2>2. /\ deploy'[rid].stage \in {"none", "raised"} /\ binding' = binding
          /\ \A r \in Rids : r # rid => deploy'[r] = deploy[r]
      BY <1>3, EndDeployEffect DEF DeployRecord, IInv, TypeOK
    <2> QED  BY <1>1, <1>2, <2>1, <2>2, DeployShrinks DEF Exists
  <1>4. CASE Exists(rid)
    <2>1. PICK e \in Edges : e = deploy[rid].edge
      BY <1>2
    <2>2. /\ deploy'[rid].stage = "vnics" /\ deploy'[rid].edge = e
          /\ binding'[rid].edge = e /\ binding'[rid].status = binding[rid].status
          /\ \A r \in Rids : r # rid => deploy'[r] = deploy[r] /\ binding'[r] = binding[r]
      BY <1>4, <2>1 DEF DeployRecord, Stage, IInv, TypeOK, Row
    <2>3. UNCHANGED <<rtr, bak, eid, cand, todo, ret>>
      BY <1>1 DEF locals
    <2>4. \A u \in Threads, f \in Edges : Carries(u, f)' <=> Carries(u, f)
      BY <1>1, <2>3 DEF Carries
    <2>5. DoomedStay
      <3>1. ASSUME NEW f \in Edges, Doomed(f) PROVE Doomed(f)'
        <4>1. f # e
          BY <1>1, <2>1, <3>1 DEF Doomed
        <4>2. \A r \in Rids : binding'[r].edge = f => r # rid
          BY <2>2, <4>1
        <4>3. \A r \in Rids : binding'[r].edge = f => r \in Backups /\ binding'[r].status = "PENDING_DELETE"
          BY <2>2, <3>1, <4>2 DEF Doomed
        <4>4. \A r \in Rids : deploy'[r].stage = "record" => deploy'[r].edge # f
          BY <2>2, <3>1 DEF Doomed
        <4> QED  BY <2>4, <3>1, <4>3, <4>4 DEF Doomed
      <3> QED  BY <3>1 DEF DoomedStay
    <2>6. Backed'
      <3>1. \A r \in Rids : deploy'[r].stage = "record" => deploy'[r].edge \in backend
        BY <2>2 DEF OInv, Backed
      <3>2. ASSUME NEW r \in Rids, binding'[r].edge \in Edges, binding'[r].status # "PENDING_DELETE"
            PROVE  binding'[r].edge \in backend
        <4>1. CASE r = rid
          BY <1>1, <2>1, <2>2, <4>1 DEF OInv, Backed
        <4>2. CASE r # rid
          BY <2>2, <3>2, <4>2 DEF OInv, Backed
        <4> QED  BY <4>1, <4>2
      <3> QED  BY <1>1, <2>4, <3>1, <3>2 DEF OInv, Backed
    <2> QED  BY <1>1, <1>2, <1>4, <2>2, <2>5, <2>6, DeployMoves DEF Exists
  <1> QED  BY <1>3, <1>4

\* init_edge_vnic_binding, and update_edge_host_groups, change no binding.
LEMMA DeployVnicsOwns ==
  ASSUME PoolAssumption, IInv, OInv, TypeOK', NEW rid \in Rids, DeployVnics(rid) \/ DeployGroups(rid)
  PROVE  OInv' /\ Buried
  <1>1. /\ deploy[rid].stage \in {"vnics", "groups"}
        /\ UNCHANGED <<binding, late, backend, pc, locals, deletes, hkVars>>
    BY DEF DeployVnics, DeployGroups, dbVars
  <1>2. binding[rid].status # "PENDING_DELETE"
    BY <1>1 DEF OInv, RowsOrderly, Deploying, RouterRows, Rids
  <1>3. CASE \E result \in {"ok", "raised"} : EndDeploy(rid, result)
    <2>1. /\ deploy'[rid].stage \in {"none", "ok", "raised"}
          /\ \A r \in Rids : r # rid => deploy'[r] = deploy[r]
      BY <1>3, EndDeployEffect DEF IInv, TypeOK
    <2> QED  BY <1>1, <1>2, <2>1, DeployShrinks DEF Exists
  <1>4. CASE \E stage \in {"done", "undo"} : Stage(rid, stage, deploy[rid].edge)
    <2>1. /\ deploy'[rid].stage \in {"done", "undo"}
          /\ \A r \in Rids : r # rid => deploy'[r] = deploy[r]
      BY <1>4 DEF Stage, IInv, TypeOK
    <2> QED  BY <1>1, <1>2, <2>1, DeployShrinks DEF Exists
  <1> QED  BY <1>3, <1>4 DEF DeployVnics, DeployGroups

\* complete_edge_creation makes the deployed row ACTIVE. Without edge host groups this is
\* the last step of the deployment: nobody can select the row and see it fall back to ERROR.
LEMMA DeployDoneOwns ==
  ASSUME PoolAssumption, ~HostGroups, IInv, OInv, TypeOK', NEW rid \in Rids, DeployDone(rid)
  PROVE  OInv' /\ Buried
  <1>1. /\ deploy[rid].stage = "done" /\ UNCHANGED <<backend, pc, locals, deletes, hkVars>>
    BY DEF DeployDone
  <1>2. binding[rid].status # "PENDING_DELETE"
    BY <1>1 DEF OInv, RowsOrderly, Deploying, RouterRows, Rids
  <1>3. CASE Exists(rid) /\ SetStatus({rid}, "ACTIVE") /\ EndDeploy(rid, "ok")
    <2>1. /\ deploy'[rid].stage \in {"none", "ok"} /\ (rid \in Backups => deploy'[rid].stage = "none")
          /\ \A r \in Rids : r # rid => deploy'[r] = deploy[r]
      BY <1>3, EndDeployEffect DEF IInv, TypeOK
    <2>2. /\ late' \subseteq late /\ binding'[rid].status = "ACTIVE" /\ binding'[rid].edge = binding[rid].edge
          /\ \A r \in Rids : r # rid => binding'[r] = binding[r]
      BY <1>3 DEF SetStatus, IInv, TypeOK, Row
    <2> QED  BY <1>1, <1>3, <2>1, <2>2, DeployShrinks DEF Exists
  <1>4. CASE EndDeploy(rid, "raised") /\ UNCHANGED <<binding, undated, late>>
    <2>1. /\ deploy'[rid].stage \in {"none", "raised"}
          /\ \A r \in Rids : r # rid => deploy'[r] = deploy[r]
      BY <1>4, EndDeployEffect DEF IInv, TypeOK
    <2> QED  BY <1>1, <1>2, <1>4, <2>1, DeployShrinks DEF Exists
  <1>5. CASE Stage(rid, "undo", deploy[rid].edge) /\ UNCHANGED <<binding, undated, late>>
    <2>1. deploy'[rid].stage = "undo" /\ \A r \in Rids : r # rid => deploy'[r] = deploy[r]
      BY <1>5 DEF Stage, IInv, TypeOK
    <2> QED  BY <1>1, <1>2, <1>5, <2>1, DeployShrinks DEF Exists
  <1> QED  BY <1>3, <1>4, <1>5 DEF DeployDone

\* A failed deployment leaves its row in ERROR.
LEMMA DeployUndoOwns ==
  ASSUME PoolAssumption, IInv, OInv, TypeOK', NEW rid \in Rids, DeployUndo(rid)
  PROVE  OInv' /\ Buried
  <1>1. /\ deploy[rid].stage = "undo" /\ UNCHANGED <<backend, pc, locals, deletes, hkVars>>
    BY DEF DeployUndo
  <1>2. binding[rid].status # "PENDING_DELETE"
    BY <1>1 DEF OInv, RowsOrderly, Deploying, RouterRows, Rids
  <1>3. /\ deploy'[rid].stage \in {"none", "raised"} /\ (rid \in Backups => deploy'[rid].stage = "none")
        /\ \A r \in Rids : r # rid => deploy'[r] = deploy[r]
    BY EndDeployEffect DEF DeployUndo, IInv, TypeOK
  <1>4. /\ late' \subseteq late /\ binding'[rid].status \in {"ERROR", binding[rid].status}
        /\ binding'[rid].edge = binding[rid].edge /\ (Exists(rid)' <=> Exists(rid))
        /\ \A r \in Rids : r # rid => binding'[r] = binding[r]
    BY DEF DeployUndo, SetStatus, IInv, TypeOK, Row, Exists
  <1> QED  BY <1>1, <1>2, <1>3, <1>4, DeployShrinks

-----------------------------------------------------------------------------
(* The deletions, and the housekeeper.                                     *)

\* A step of a deletion or of the housekeeper, on rows of the pool that no thread knows.
LEMMA JobStep ==
  ASSUME PoolAssumption, IInv, OInv, TypeOK', NEW mine \in SUBSET Backups,
         \A b \in mine : /\ binding[b].status \notin {"NONE", "PENDING_DELETE"} /\ deploy[b].stage = "none"
                         /\ \A u \in Threads : ~OwnsRow(u, b)
                         /\ binding'[b].edge = binding[b].edge /\ binding'[b].status # "NONE",
         \A rid \in Rids : \/ rid \in mine
                           \/ binding'[rid] = binding[rid]
                           \/ rid \in Backups /\ binding[rid].status = "PENDING_DELETE" /\ binding'[rid] = NoRow,
         late' \subseteq late, UNCHANGED <<pc, locals, deploy>>, \A e \in backend \ backend' : Doomed(e),
         Handed, HkHolds' \/ (UNCHANGED hkVars /\ \A b \in mine : b \notin HkRids),
         Booting => hkPc' = "idle", HkReadonly => hkPc' = "idle" /\ hkTodo' = {}
  PROVE  OInv' /\ Buried
  <1>1. UNCHANGED <<rtr, bak, eid, cand, todo, ret>>
    BY DEF locals
  <1>2. Control'
    <2>1. MainBoots' /\ HkAlone'
      BY <1>1 DEF OInv, Control, MainBoots, HkAlone
    <2>2. BootAlone'
      BY <1>1 DEF OInv, Control, BootAlone, Booting
    <2>3. OneAlloc'
      BY <1>1 DEF OInv, Control, OneAlloc, Allocates, Unbound, Clears
    <2> QED  BY <2>1, <2>2, <2>3 DEF Control
  <1>3. mine \cap Routers = {} /\ Backups \subseteq Rids /\ Routers \subseteq Rids
        /\ NoRow.status = "NONE" /\ NoRow.edge = NoEdge
    BY DEF Rids, PoolAssumption, NoRow
  <1>4. \A r \in Routers : binding'[r] = binding[r]
    BY <1>3 DEF PoolAssumption
  <1>5. RowsOrderly'
    <2>1. RouterRows'
      BY <1>4 DEF OInv, RowsOrderly, RouterRows
    <2>2. NoRows'
      BY <1>3 DEF OInv, RowsOrderly, NoRows, Exists
    <2>3. Deploying'
      <3>1. ASSUME NEW b \in Backups, deploy[b].stage # "none" PROVE binding'[b].status = "PENDING_CREATE"
        <4>1. binding[b].status = "PENDING_CREATE" /\ b \notin mine /\ b \in Rids
          BY <1>3, <3>1 DEF OInv, RowsOrderly, Deploying
        <4> QED  BY <4>1
      <3>2. ASSUME NEW rid \in Rids, deploy[rid].stage \in {"queued", "backend", "record"}
            PROVE  binding'[rid].edge = NoEdge
        BY <1>3, <3>2 DEF OInv, RowsOrderly, Deploying
      <3> QED  BY <3>1, <3>2 DEF Deploying
    <2>4. late' = {}
      BY DEF OInv, RowsOrderly
    <2> QED  BY <2>1, <2>2, <2>3, <2>4 DEF RowsOrderly
  <1>6. Shrinks
    BY <1>1, <1>3 DEF Shrinks, Carries
  <1>7. RowsStep(mine)
    BY <1>3 DEF RowsStep
  <1>8. DoomedStay
    BY <1>6, <1>7, ShrinksDoomed
  <1>9. Backed'
    <2>1. \A rid \in Rids : binding[rid].status = "PENDING_DELETE"
                              => binding'[rid].edge = NoEdge \/ binding'[rid].status = "PENDING_DELETE"
      BY <1>3
    <2> QED  BY <1>6, <2>1, ShrinksBacked
  <1>10. ASSUME NEW u \in Threads PROVE Same(u) /\ (Unbound(u) => Absent(rtr[u])')
    <2>1. Unbound(u) => rtr[u] \in Routers /\ Absent(rtr[u])
      BY DEF OInv, Holds, IInv, Shape, Unbound, Clears
    <2> QED  BY <1>1, <1>4, <2>1 DEF Same, Absent, Exists
  <1>11. RouterRows'
    BY <1>5 DEF RowsOrderly
  <1>12. (\A u \in Threads : Holds(u)') /\ HkHolds' /\ Leaving' /\ Buried
    BY <1>7, <1>8, <1>10, <1>11, Frame
  <1> QED  BY <1>2, <1>5, <1>9, <1>12 DEF OInv

\* What is sent to deletion is a row that goes, or none.
LEMMA SentRow ==
  ASSUME IInv, OInv, NEW x, x.rid \in Backups, Sent(x), DeleteRow(x.rid)
  PROVE  /\ late' \subseteq late /\ binding'[x.rid] = NoRow
         /\ \A rid \in Rids : \/ binding'[rid] = binding[rid]
                              \/ rid \in Backups /\ binding[rid].status = "PENDING_DELETE" /\ binding'[rid] = NoRow
  <1>1. x.rid \in Rids
    BY DEF Rids
  <1>2. late' \subseteq late /\ binding' = [binding EXCEPT ![x.rid] = NoRow]
    BY DEF DeleteRow
  <1>3. binding'[x.rid] = NoRow /\ \A rid \in Rids : rid # x.rid => binding'[rid] = binding[rid]
    BY <1>1, <1>2 DEF IInv, TypeOK
  <1>4. CASE ~Exists(x.rid)
    <2>1. binding[x.rid].status = "NONE" /\ binding[x.rid].edge = NoEdge
      BY <1>1, <1>4 DEF OInv, RowsOrderly, NoRows, Exists
    <2>2. binding[x.rid] = NoRow
      BY <1>1, <2>1 DEF IInv, TypeOK, Row, NoRow
    <2> QED  BY <1>2, <1>3, <2>2
  <1>5. CASE RowIs(x.rid, "PENDING_DELETE", x.edge)
    <2>1. binding[x.rid] = [status |-> "PENDING_DELETE", edge |-> x.edge]
      BY <1>5 DEF RowIs
    <2>2. binding[x.rid].status = "PENDING_DELETE"
      BY <2>1
    <2> QED  BY <1>2, <1>3, <2>2
  <1> QED  BY <1>4, <1>5 DEF Sent

\* delete_edge removes the row of its edge, which is still sent to deletion.
LEMMA DeleteDbOwns ==
  ASSUME PoolAssumption, IInv, OInv, TypeOK', NEW d \in deletes, DeleteDb(d)
  PROVE  OInv' /\ Buried
  <1>1. /\ DeleteRow(d.rid) /\ UNCHANGED <<backend, pc, locals, deploy, hkVars>>
        /\ deletes' = (deletes \ {d}) \cup
                      (IF d.edge = NoEdge THEN {} ELSE {[d EXCEPT !.stage = "backend"]})
    BY DEF DeleteDb
  <1>2. Sent(d) /\ d.rid \in Backups /\ d.edge \in Edges \cup {NoEdge}
    BY DEF OInv, Leaving, IInv, TypeOK
  <1>3. /\ late' \subseteq late /\ binding'[d.rid] = NoRow
        /\ \A rid \in Rids : \/ binding'[rid] = binding[rid]
                             \/ rid \in Backups /\ binding[rid].status = "PENDING_DELETE" /\ binding'[rid] = NoRow
    BY <1>1, <1>2, SentRow
  <1>4. PICK w : w = [d EXCEPT !.stage = "backend"]
    OBVIOUS
  <1>5. w.rid = d.rid /\ w.edge = d.edge
    BY <1>4 DEF IInv, TypeOK
  <1>6. UNCHANGED <<rtr, bak, eid, cand, todo, ret>>
    BY <1>1 DEF locals
  <1>7. d.edge \in Edges => Doomed(d.edge)'
    <2>1. ASSUME d.edge \in Edges PROVE Doomed(d.edge)'
      <3>1. Doomed(d.edge)
        BY <1>2, <2>1 DEF Sent
      <3>2. \A rid \in Rids : binding'[rid].edge = d.edge
              => rid \in Backups /\ binding'[rid].status = "PENDING_DELETE"
        BY <1>3, <2>1, <3>1 DEF Doomed, NoRow, PoolAssumption
      <3> QED  BY <1>1, <1>6, <3>1, <3>2 DEF Doomed, Carries
    <2> QED  BY <2>1
  <1>8. Sent(w)'
    <2>1. ~Exists(w.rid)'
      BY <1>3, <1>5 DEF Exists, NoRow
    <2> QED  BY <1>5, <1>7, <2>1 DEF Sent
  <1>9. Handed
    BY <1>1, <1>2, <1>4, <1>5, <1>8 DEF Handed
  <1>10. /\ Booting => hkPc' = "idle"
         /\ HkReadonly => hkPc' = "idle" /\ hkTodo' = {}
    BY <1>1 DEF OInv, Control, BootAlone, HkAlone, hkVars
  <1>11. {} \in SUBSET Backups
    OBVIOUS
  <1> QED  BY <1>1, <1>3, <1>9, <1>10, <1>11, JobStep

\* delete_edge removes the appliance: nobody can come to use it.
LEMMA DeleteBackendOwns ==
  ASSUME PoolAssumption, IInv, OInv, TypeOK', NEW d \in deletes, DeleteBackend(d)
  PROVE  OInv' /\ Buried
  <1>1. /\ d.stage = "backend" /\ backend' = backend \ {d.edge} /\ deletes' = deletes \ {d}
        /\ UNCHANGED <<binding, late, pc, locals, deploy, hkVars>>
    BY DEF DeleteBackend, DestroyEdge, dbVars
  <1>2. Sent(d) /\ d.edge \in Edges
    BY <1>1 DEF OInv, Leaving
  <1>3. \A e \in backend \ backend' : Doomed(e)
    BY <1>1, <1>2 DEF Sent
  <1>4. Handed
    BY <1>1 DEF Handed
  <1>5. /\ Booting => hkPc' = "idle"
        /\ HkReadonly => hkPc' = "idle" /\ hkTodo' = {}
    BY <1>1 DEF OInv, Control, BootAlone, HkAlone, hkVars
  <1>6. {} \in SUBSET Backups
    OBVIOUS
  <1> QED  BY <1>1, <1>3, <1>4, <1>5, <1>6, JobStep

\* The job that only goes on: it reads, picks or skips rows.
LEMMA HkQuietOwns ==
  ASSUME PoolAssumption, IInv, OInv, TypeOK', HkHolds', UNCHANGED <<binding, late, backend, pc, locals, deploy, deletes>>,
         ~Booting, ~HkReadonly
  PROVE  OInv' /\ Buried
  <1>1. Handed /\ {} \in SUBSET Backups
    BY DEF Handed
  <1> QED  BY <1>1, JobStep

\* The job runs after the construction of EdgeManager, and unless housekeeping is read-only.
LEMMA HkRuns == ASSUME OInv, hkPc # "idle" PROVE ~Booting /\ ~HkReadonly
  BY DEF OInv, Control, BootAlone, HkAlone

\* The job error_backup_edge reads the rows in ERROR.
LEMMA HkReadOwns ==
  ASSUME PoolAssumption, IInv, OInv, TypeOK', HkRead
  PROVE  OInv' /\ Buried
  <1>1. /\ hkPc' = "pick" /\ hkTodo' = {ItemOf(rid) : rid \in Broken} /\ ~HkReadonly /\ ~Booting
        /\ UNCHANGED <<binding, late, backend, pc, locals, deploy, deletes>>
    BY DEF HkRead, dbVars, jobVars
  <1>2. ASSUME NEW x \in hkTodo' PROVE RowIs(x.rid, "ERROR", x.edge)'
    <2>1. PICK b \in Backups : binding[b].status = "ERROR" /\ x = [rid |-> b, edge |-> binding[b].edge]
      BY <1>1, <1>2 DEF ItemOf, Broken
    <2>2. binding[b] = [status |-> "ERROR", edge |-> binding[b].edge]
      BY <2>1 DEF IInv, TypeOK, Rids, Row
    <2> QED  BY <1>1, <2>1, <2>2 DEF RowIs
  <1>3. HkHolds'
    BY <1>1, <1>2 DEF HkHolds
  <1> QED  BY <1>1, <1>3, HkQuietOwns

\* The job takes the next row and the lock of its edge, or ends.
LEMMA HkPickOwns ==
  ASSUME PoolAssumption, IInv, OInv, TypeOK', HkPick \/ HkEnd
  PROVE  OInv' /\ Buried
  <1>1. hkPc = "pick" /\ UNCHANGED <<binding, late, backend, pc, locals, deploy, deletes>>
    BY DEF HkPick, HkEnd, dbVars, jobVars
  <1>2. ~Booting /\ ~HkReadonly
    BY <1>1, HkRuns
  <1>3. \A x \in hkTodo : RowIs(x.rid, "ERROR", x.edge)'
    BY <1>1 DEF OInv, HkHolds, RowIs
  <1>4. CASE hkPc' = "idle" /\ hkTodo' \subseteq hkTodo
    <2>1. HkHolds'
      BY <1>3, <1>4 DEF HkHolds
    <2> QED  BY <1>1, <1>2, <2>1, HkQuietOwns
  <1>5. ASSUME NEW x \in hkTodo, hkCur' = x, hkTodo' = hkTodo \ {x}, hkPc' = "update"
        PROVE  OInv' /\ Buried
    <2>1. HkHolds'
      BY <1>3, <1>5 DEF HkHolds, RowIs
    <2> QED  BY <1>1, <1>2, <2>1, HkQuietOwns
  <1>6. CASE HkEnd
    BY <1>4, <1>6 DEF HkEnd
  <1>7. CASE HkPick
    BY <1>4, <1>5, <1>7 DEF HkPick
  <1> QED  BY <1>6, <1>7

\* The row that the housekeeper repairs is in ERROR, and known to no thread.
LEMMA HkRow ==
  ASSUME PoolAssumption, IInv, OInv, hkPc \in {"update", "activate", "purge"}
  PROVE  /\ hkCur.rid \in Backups /\ hkCur.rid \in Rids /\ hkCur.rid \in HkRids /\ hkCur.edge \in Edges
         /\ binding[hkCur.rid].status = "ERROR" /\ binding[hkCur.rid].edge = hkCur.edge
         /\ deploy[hkCur.rid].stage = "none" /\ \A u \in Threads : ~OwnsRow(u, hkCur.rid)
         /\ \A x \in hkTodo : x.rid # hkCur.rid /\ x.rid \in Rids
  <1>1. hkCur \in Item /\ hkCur.edge \in Edges /\ hkTodo \subseteq Item
    BY DEF IInv, Shape, TypeOK
  <1>2. binding[hkCur.rid] = [status |-> "ERROR", edge |-> hkCur.edge]
    BY DEF OInv, HkHolds, RowIs
  <1>3. binding[hkCur.rid].status = "ERROR" /\ binding[hkCur.rid].edge = hkCur.edge
    BY <1>2
  <1>4. HkBusy /\ hkCur.rid \in HkRids
    BY DEF HkBusy, HkRids
  <1>5. \A x \in hkTodo : x.rid # hkCur.rid
    BY <1>4 DEF IInv, HkQuiet, HkDistinct
  <1>6. \A u \in Threads : ~OwnsRow(u, hkCur.rid)
    BY <1>1, <1>4, OwnedNotHk DEF Item
  <1> QED  BY <1>1, <1>3, <1>4, <1>5, <1>6 DEF Item, Rids, IInv, Settled

\* It changes the status of this row.
LEMMA HkStatus ==
  ASSUME PoolAssumption, IInv, OInv, TypeOK', hkPc \in {"update", "activate", "purge"},
         NEW status \in {"ACTIVE", "ERROR", "PENDING_DELETE"}, SetStatus({hkCur.rid}, status),
         UNCHANGED <<backend, pc, locals, deploy, deletes, hkTodo>>,
         (/\ binding'[hkCur.rid] = [status |-> status, edge |-> hkCur.edge]
          /\ Shrinks
          /\ \A x \in hkTodo : RowIs(x.rid, "ERROR", x.edge)')
            => HkHolds'
  PROVE  OInv' /\ Buried
  <1>1. PICK b \in Backups : b = hkCur.rid
    BY HkRow
  <1>2. /\ b \in Rids /\ binding[b].status = "ERROR" /\ binding[b].edge = hkCur.edge
        /\ deploy[b].stage = "none" /\ \A u \in Threads : ~OwnsRow(u, b)
        /\ \A x \in hkTodo : x.rid # b /\ x.rid \in Rids
    BY <1>1, HkRow
  <1>3. /\ late' \subseteq late /\ binding'[b].status = status /\ binding'[b].edge = binding[b].edge
        /\ binding'[b] = [status |-> status, edge |-> binding[b].edge]
        /\ \A rid \in Rids : rid # b => binding'[rid] = binding[rid]
    BY <1>1, <1>2 DEF SetStatus, IInv, TypeOK, Row, Exists
  <1>4. UNCHANGED <<rtr, bak, eid, cand, todo, ret>>
    BY DEF locals
  <1>5. Shrinks
    BY <1>3, <1>4 DEF Shrinks, Carries
  <1>6. \A x \in hkTodo : RowIs(x.rid, "ERROR", x.edge)'
    BY <1>2, <1>3 DEF OInv, HkHolds, RowIs
  <1>7. HkHolds'
    BY <1>1, <1>2, <1>3, <1>5, <1>6
  <1>8. Handed /\ {b} \in SUBSET Backups
    BY DEF Handed
  <1>9. ~Booting /\ ~HkReadonly
    BY HkRuns
  <1>10. \A c \in {b} : /\ binding[c].status \notin {"NONE", "PENDING_DELETE"} /\ deploy[c].stage = "none"
                        /\ \A u \in Threads : ~OwnsRow(u, c)
                        /\ binding'[c].edge = binding[c].edge /\ binding'[c].status # "NONE"
    BY <1>2, <1>3
  <1>11. \A rid \in Rids : rid \in {b} \/ binding'[rid] = binding[rid]
    BY <1>3
  <1> QED  BY <1>3, <1>7, <1>8, <1>9, <1>10, <1>11, JobStep

\* The job asks the backend to update the edge; on failure the row is ERROR, as it was.
LEMMA HkUpdateOwns ==
  ASSUME PoolAssumption, IInv, OInv, TypeOK', HkUpdate
  PROVE  OInv' /\ Buried
  <1>1. /\ hkPc = "update" /\ UNCHANGED <<backend, pc, locals, deploy, deletes, hkTodo, hkCur>>
    BY DEF HkUpdate, jobVars
  <1>2. CASE hkPc' = "activate" /\ UNCHANGED <<binding, undated, late>>
    <2>1. HkHolds'
      BY <1>1, <1>2 DEF OInv, HkHolds, RowIs
    <2> QED  BY <1>1, <1>2, <2>1, HkQuietOwns, HkRuns
  <1>3. CASE SetStatus({hkCur.rid}, "ERROR") /\ hkPc' = "purge"
    <2>1. ASSUME binding'[hkCur.rid] = [status |-> "ERROR", edge |-> hkCur.edge],
                 \A x \in hkTodo : RowIs(x.rid, "ERROR", x.edge)'
          PROVE  HkHolds'
      BY <1>1, <1>3, <2>1 DEF HkHolds, RowIs
    <2> QED  BY <1>1, <1>3, <2>1, HkStatus
  <1> QED  BY <1>2, <1>3 DEF HkUpdate

\* The job makes the repaired row ACTIVE: it was still in ERROR.
LEMMA HkActivateOwns ==
  ASSUME PoolAssumption, IInv, OInv, TypeOK', HkActivate
  PROVE  OInv' /\ Buried
  <1>1. /\ hkPc = "activate" /\ UNCHANGED <<backend, pc, locals, deploy, deletes, hkTodo>>
    BY DEF HkActivate, HkDone, jobVars
  <1>2. Exists(hkCur.rid)
    BY <1>1, HkRow DEF Exists
  <1>3. SetStatus({hkCur.rid}, "ACTIVE") /\ hkPc' = "pick"
    BY <1>2 DEF HkActivate, HkDone
  <1>4. ASSUME \A x \in hkTodo : RowIs(x.rid, "ERROR", x.edge)' PROVE HkHolds'
    BY <1>1, <1>3, <1>4 DEF HkHolds, RowIs
  <1> QED  BY <1>1, <1>3, <1>4, HkStatus

\* The job sends the row that it could not repair to deletion.
LEMMA HkMarkOwns ==
  ASSUME PoolAssumption, IInv, OInv, TypeOK', HkMark
  PROVE  OInv' /\ Buried
  <1>1. /\ hkPc = "purge" /\ hkPc' = "erase" /\ SetStatus({hkCur.rid}, "PENDING_DELETE")
        /\ UNCHANGED <<backend, pc, locals, deploy, deletes, hkTodo, hkCur>>
    BY DEF HkMark, jobVars
  <1>2. ASSUME binding'[hkCur.rid] = [status |-> "PENDING_DELETE", edge |-> hkCur.edge], Shrinks,
               \A x \in hkTodo : RowIs(x.rid, "ERROR", x.edge)'
        PROVE  HkHolds'
    <2>1. PICK b, x : b = hkCur.rid /\ x = hkCur
      OBVIOUS
    <2>2. b \in Backups /\ binding[b].edge = x.edge /\ b \in HkRids
      BY <1>1, <2>1, HkRow
    <2>3. \A u \in Threads : Selected(u) => bak[u] # b
      BY <2>2 DEF IInv, SelectedQuiet
    <2>4. PICK e : e = x.edge
      OBVIOUS
    <2>5. \A y : y.rid = b /\ y.edge = e => Sent(y)'
      BY <1>2, <2>1, <2>2, <2>3, <2>4, MarkedSent
    <2>6. Sent(x)'
      BY <2>1, <2>4, <2>5
    <2>7. Sent(hkCur)'
      BY <1>1, <2>1, <2>6 DEF Sent
    <2> QED  BY <1>1, <1>2, <2>7 DEF HkHolds, RowIs
  <1> QED  BY <1>1, <1>2, HkStatus

\* The job removes the row, which is still sent to deletion.
LEMMA HkPurgeOwns ==
  ASSUME PoolAssumption, IInv, OInv, TypeOK', HkPurge
  PROVE  OInv' /\ Buried
  <1>1. /\ hkPc = "erase" /\ hkPc' = "destroy" /\ DeleteRow(hkCur.rid)
        /\ UNCHANGED <<backend, pc, locals, deploy, deletes, hkTodo, hkCur>>
    BY DEF HkPurge, jobVars
  <1>2. PICK x : x = hkCur
    OBVIOUS
  <1>3. x.rid \in Backups /\ Sent(x) /\ DeleteRow(x.rid)
    BY <1>1, <1>2 DEF OInv, HkHolds, IInv, Shape, Item
  <1>4. /\ late' \subseteq late /\ binding'[x.rid] = NoRow
        /\ \A rid \in Rids : \/ binding'[rid] = binding[rid]
                             \/ rid \in Backups /\ binding[rid].status = "PENDING_DELETE" /\ binding'[rid] = NoRow
    BY <1>3, SentRow
  <1>5. UNCHANGED <<rtr, bak, eid, cand, todo, ret>>
    BY <1>1 DEF locals
  <1>6. x.edge \in Edges => Doomed(x.edge)'
    <2>1. ASSUME x.edge \in Edges PROVE Doomed(x.edge)'
      <3>1. Doomed(x.edge)
        BY <1>3, <2>1 DEF Sent
      <3>2. \A rid \in Rids : binding'[rid].edge = x.edge
              => rid \in Backups /\ binding'[rid].status = "PENDING_DELETE"
        BY <1>4, <2>1, <3>1 DEF Doomed, NoRow, PoolAssumption
      <3> QED  BY <1>1, <1>5, <3>1, <3>2 DEF Doomed, Carries
    <2> QED  BY <2>1
  <1>7. Sent(hkCur)'
    BY <1>1, <1>2, <1>4, <1>6 DEF Sent, Exists, NoRow
  <1>8. ASSUME NEW y \in hkTodo PROVE RowIs(y.rid, "ERROR", y.edge)'
    <2>1. binding[y.rid] = [status |-> "ERROR", edge |-> y.edge] /\ y.rid \in Rids
      BY DEF OInv, HkHolds, RowIs, IInv, TypeOK, Item, Rids
    <2>2. binding[y.rid].status = "ERROR"
      BY <2>1
    <2> QED  BY <1>4, <2>1, <2>2 DEF RowIs
  <1>9. HkHolds'
    BY <1>1, <1>7, <1>8 DEF HkHolds
  <1>10. Handed /\ {} \in SUBSET Backups
    BY <1>1 DEF Handed
  <1>11. ~Booting /\ ~HkReadonly
    BY <1>1, HkRuns
  <1> QED  BY <1>1, <1>4, <1>9, <1>10, <1>11, JobStep

\* The job removes the appliance: nobody can come to use it.
LEMMA HkDestroyOwns ==
  ASSUME PoolAssumption, IInv, OInv, TypeOK', HkDestroy
  PROVE  OInv' /\ Buried
  <1>1. /\ hkPc = "destroy" /\ hkPc' = "pick" /\ backend' = backend \ {hkCur.edge}
        /\ UNCHANGED <<binding, late, pc, locals, deploy, deletes, hkTodo>>
    BY DEF HkDestroy, HkDone, DestroyEdge, dbVars, jobVars
  <1>2. Sent(hkCur) /\ hkCur.edge \in Edges
    BY <1>1 DEF OInv, HkHolds, IInv, Shape
  <1>3. \A e \in backend \ backend' : Doomed(e)
    BY <1>1, <1>2 DEF Sent
  <1>4. HkHolds'
    BY <1>1 DEF OInv, HkHolds, RowIs
  <1>5. Handed /\ {} \in SUBSET Backups
    BY <1>1 DEF Handed
  <1>6. ~Booting /\ ~HkReadonly
    BY <1>1, HkRuns
  <1> QED  BY <1>1, <1>3, <1>4, <1>5, <1>6, JobStep

-----------------------------------------------------------------------------
(* Restarts, and the theorems.                                             *)

\* After a restart, and at the start, nobody knows or carries anything.
LEMMA Restarted ==
  ASSUME pc = [t \in Threads |-> IF t = Main THEN "bClean" ELSE "idle"],
         ret = [t \in Threads |-> "idle"],
         deploy = [rid \in Rids |-> NoDeploy], deletes = {},
         hkPc = "idle", hkTodo = {}, Main \in Threads
  PROVE  /\ Control /\ (\A t \in Threads : Holds(t)) /\ HkHolds /\ Leaving
         /\ \A t \in Threads, e \in Edges : ~Carries(t, e)
         /\ \A rid \in Rids : deploy[rid].stage = "none"
  <1>1. \A rid \in Rids : deploy[rid].stage = "none"
    BY DEF NoDeploy
  <1>2. MainBoots /\ HkAlone
    BY DEF MainBoots, HkAlone
  <1>3. BootAlone
    BY <1>1 DEF BootAlone, BootLabels
  <1>4. \A t \in Threads : ~Allocates(t) /\ Holds(t) /\ \A e \in Edges : ~Carries(t, e)
    BY DEF Allocates, Holds, Choosing, Renews, Clears, Unbound, Carries
  <1>5. OneAlloc
    BY <1>4 DEF OneAlloc
  <1>6. HkHolds /\ Leaving
    BY DEF HkHolds, Leaving
  <1> QED  BY <1>1, <1>2, <1>3, <1>4, <1>5, <1>6 DEF Control

\* The invariant holds at the start, with empty tables.
LEMMA InitOwns == ASSUME PoolAssumption, Init PROVE OInv
  <1>1. /\ Control /\ (\A t \in Threads : Holds(t)) /\ HkHolds /\ Leaving
        /\ \A t \in Threads, e \in Edges : ~Carries(t, e)
        /\ \A rid \in Rids : deploy[rid].stage = "none"
    BY Restarted DEF Init, PoolAssumption
  <1>2. \A rid \in Rids : binding[rid].edge = NoEdge /\ binding[rid].status = "NONE"
    BY DEF Init, NoRow
  <1>3. RowsOrderly
    BY <1>1, <1>2 DEF Init, RowsOrderly, RouterRows, NoRows, Deploying, Rids
  <1>4. Backed
    BY <1>1, <1>2 DEF Backed, PoolAssumption
  <1> QED  BY <1>1, <1>3, <1>4 DEF OInv

\* After a restart nobody knows anything of the rows, and rows sent to deletion stay so.
LEMMA CrashOwns == ASSUME PoolAssumption, IInv, OInv, Crash PROVE OInv' /\ Buried
  <1>1. UNCHANGED <<binding, late, backend>>
    BY DEF Crash, dbVars
  <1>2. /\ Control' /\ (\A t \in Threads : Holds(t)') /\ HkHolds' /\ Leaving'
        /\ \A t \in Threads, e \in Edges : ~Carries(t, e)'
        /\ \A rid \in Rids : deploy'[rid].stage = "none"
    <2>1. \A rid \in Rids : deploy'[rid].stage = "none"
      BY DEF Crash, NoDeploy
    <2>2. MainBoots' /\ HkAlone'
      BY DEF Crash, MainBoots, HkAlone
    <2>3. BootAlone'
      BY <2>1 DEF Crash, BootAlone, BootLabels, PoolAssumption
    <2>4. \A t \in Threads : ~Allocates(t)' /\ Holds(t)' /\ \A e \in Edges : ~Carries(t, e)'
      BY DEF Crash, Allocates, Holds, Choosing, Renews, Clears, Unbound, Carries
    <2>5. OneAlloc'
      BY <2>4 DEF OneAlloc
    <2>6. HkHolds' /\ Leaving'
      BY DEF Crash, HkHolds, Leaving
    <2> QED  BY <2>1, <2>2, <2>3, <2>4, <2>5, <2>6 DEF Control
  <1>3. RowsOrderly'
    BY <1>1, <1>2 DEF OInv, RowsOrderly, RouterRows, NoRows, Deploying, Exists, Rids
  <1>4. Backed'
    BY <1>1, <1>2 DEF OInv, Backed
  <1> QED  BY <1>1, <1>2, <1>3, <1>4 DEF OInv, Buried

\* A step that changes nothing keeps the invariant.
LEMMA StutterOwns == ASSUME PoolAssumption, IInv, OInv, TypeOK', UNCHANGED vars PROVE OInv' /\ Buried
  <1>1. UNCHANGED <<binding, late, backend, pc, locals, deploy, deletes, hkVars>>
    BY DEF vars, dbVars, jobVars
  <1>2. Handed /\ {} \in SUBSET Backups
    BY <1>1 DEF Handed
  <1>3. /\ Booting => hkPc' = "idle"
        /\ HkReadonly => hkPc' = "idle" /\ hkTodo' = {}
    BY <1>1 DEF OInv, Control, BootAlone, HkAlone, hkVars
  <1> QED  BY <1>1, <1>2, <1>3, JobStep

\* Every step of the requests, the workers, the housekeeper and the environment keeps the
\* invariant and revives no row that is sent to deletion.
LEMMA NextOwns ==
  ASSUME PoolAssumption, ~HostGroups, ~MayExpire, IInv, OInv, TypeOK', Next
  PROVE  OInv' /\ Buried
  <1>1. CASE Boot
    BY <1>1, BootCleanOwns, FillOwns, BootTrimOwns DEF Boot
  <1>2. ASSUME NEW t \in Threads, Thread(t) PROVE OInv' /\ Buried
    <2>1. CASE Cleaning(t)
      BY <2>1, MarkOwns, SpawnDeleteOwns, SpawnEndOwns, AllocLostOwns DEF Cleaning
    <2>2. CASE Allocating(t)
      BY <2>2, AllocLockOwns, AllocListOwns, AllocPickOwns, AllocDiscardOwns, AllocNoneOwns,
         AllocTakeOwns,
         AllocUnbindOwns, AllocBindOwns, AllocEdgeOwns, AllocDoneOwns, AllocAddOwns, AllocDeployedOwns,
         FillOwns, AllocLostOwns DEF Allocating
    <2>3. CASE Collecting(t)
      BY <2>3, FreeLockOwns, FreeUnbindOwns, FreeAddOwns, FreeDiscardOwns, FreeCleanOwns, FreeCollectOwns,
         FreeUpdateOwns, FreeVnicsOwns, FreePoolOwns DEF Collecting
    <2> QED  BY <1>2, <2>1, <2>2, <2>3 DEF Thread
  <1>3. ASSUME NEW t \in Threads, NEW r \in Routers, StartAlloc(t, r) \/ StartFree(t, r)
        PROVE  OInv' /\ Buried
    BY <1>3, StartAllocOwns, StartFreeOwns
  <1>4. CASE Worker
    <2>1. ASSUME NEW rid \in Rids, DeployStep(rid) PROVE OInv' /\ Buried
      BY <2>1, DeployBackendOwns, DeployRecordOwns, DeployVnicsOwns, DeployDoneOwns, DeployUndoOwns
         DEF DeployStep
    <2>2. ASSUME NEW d \in deletes, DeleteDb(d) \/ DeleteBackend(d) PROVE OInv' /\ Buried
      BY <2>2, DeleteDbOwns, DeleteBackendOwns
    <2> QED  BY <1>4, <2>1, <2>2, DeployStartOwns DEF Worker
  <1>5. CASE Housekeeper
    BY <1>5, HkReadOwns, HkPickOwns, HkUpdateOwns, HkActivateOwns, HkMarkOwns, HkPurgeOwns, HkDestroyOwns
       DEF Housekeeper
  <1>6. CASE Environment
    BY <1>6, CrashOwns DEF Environment, Expire
  <1> QED  BY <1>1, <1>2, <1>3, <1>4, <1>5, <1>6 DEF Next

\* The inductive invariant of EdgePool: in every reachable state a request, a worker and the
\* housekeeper still find the rows and edges they remember as they left them, although
\* _allocate_edge_appliance, _free_edge_appliance, the workers and the job error_backup_edge
\* release the pool lock, or never take it, between reading a row and writing it.
THEOREM OwnerInvariant == ASSUME ~HostGroups, ~MayExpire PROVE Spec => [](IInv /\ OInv)
  <1>1. Init => IInv /\ OInv
    BY PoolAssumption, InitIInv, InitOwns
  <1>2. IInv /\ OInv /\ [Next]_vars => (IInv /\ OInv)'
    <2>1. ASSUME IInv, [Next]_vars PROVE IInv'
      BY <2>1, PoolAssumption, NextKeeps, StutterKeeps
    <2>2. ASSUME IInv, OInv, [Next]_vars PROVE OInv'
      <3>1. IInv' /\ TypeOK'
        BY <2>1, <2>2 DEF IInv
      <3> QED  BY <2>2, <3>1, PoolAssumption, NextOwns, StutterOwns
    <2> QED  BY <2>1, <2>2
  <1> QED  BY <1>1, <1>2, PTL DEF Spec

\* NoDeleteOfRouterEdge: no deletion of a worker (delete_edge) or of the job
\* error_backup_edge ever aims at an edge that a router owns, for any number of threads,
\* routers, backup rows and edges, and across restarts.
THEOREM RouterEdgesStay == ASSUME ~HostGroups, ~MayExpire PROVE Spec => []NoDeleteOfRouterEdge
  <1>1. IInv /\ OInv => NoDeleteOfRouterEdge
    <2>1. SUFFICES ASSUME IInv, OInv, NEW r \in Routers, binding[r].edge # NoEdge
                   PROVE  /\ \A d \in deletes : d.edge # binding[r].edge
                          /\ hkPc \in {"purge", "erase", "destroy"} => hkCur.edge # binding[r].edge
      BY DEF NoDeleteOfRouterEdge
    <2>2. r \in Rids /\ r \notin Backups /\ binding[r].edge \in Edges
      BY <2>1, PoolAssumption DEF PoolAssumption, Rids, IInv, TypeOK, Row
    <2>3. ~Doomed(binding[r].edge)
      BY <2>2 DEF Doomed
    <2>4. \A d \in deletes : d.edge # binding[r].edge
      BY <2>1, <2>2, <2>3 DEF OInv, Leaving, Sent
    <2>5. hkPc \in {"erase", "destroy"} => hkCur.edge # binding[r].edge
      BY <2>1, <2>2, <2>3 DEF OInv, HkHolds, Sent
    <2>6. hkPc = "purge" => hkCur.edge # binding[r].edge
      BY <2>1, <2>2, HkRow, PoolAssumption DEF IInv, EdgeExclusive
    <2> QED  BY <2>4, <2>5, <2>6
  <1> QED  BY <1>1, OwnerInvariant, PTL

\* NoResurrection: a backup row that was set to PENDING_DELETE is never set to another
\* status by a step that read it earlier (complete_edge_update, the end of a deployment, the
\* housekeeper's repair); it stays or it goes.
THEOREM DeletedStayDeleted == ASSUME ~HostGroups, ~MayExpire PROVE Spec => NoResurrection
  <1>1. IInv /\ OInv /\ (IInv /\ OInv)' /\ [Next]_vars => [Buried]_vars
    BY PoolAssumption, NextOwns DEF IInv
  <1>2. [Buried]_vars <=> [\A rid \in Rids : binding[rid].status = "PENDING_DELETE"
                             => binding'[rid].status \in {"PENDING_DELETE", "NONE"}]_vars
    BY DEF Buried
  <1> QED  BY <1>1, <1>2, OwnerInvariant, PTL DEF Spec, NoResurrection

-----------------------------------------------------------------------------
(* The refinement of EdgeOwner, in the terms of its variables.             *)

users == [e \in Edges |-> UsersOf(e)]

\* A step that is none of the owner's.
OwnersKept == backend' = backend /\ \A r \in Routers : binding'[r].edge = binding[r].edge

\* A step that leaves the edges of the routers' rows alone changes no user.
LEMMA UsersKept ==
  ASSUME \A r \in Routers : binding'[r].edge = binding[r].edge
  PROVE  users' = users
  <1>1. \A e \in Edges : UsersOf(e)' = UsersOf(e)
    BY DEF UsersOf
  <1> QED  BY <1>1 DEF users

\* The row of one router changes.
LEMMA UsersMove ==
  ASSUME NEW r \in Routers, \A s \in Routers \ {r} : binding'[s].edge = binding[s].edge,
         NEW e \in Edges
  PROVE  /\ binding'[r].edge = e /\ binding[r].edge \notin Edges
              => users' = [users EXCEPT ![e] = @ \cup {r}]
         /\ binding[r].edge = e /\ binding'[r].edge \notin Edges
              => users' = [users EXCEPT ![e] = @ \ {r}]
  <1>1. ASSUME binding'[r].edge = e, binding[r].edge \notin Edges
        PROVE  users' = [users EXCEPT ![e] = @ \cup {r}]
    <2>1. ASSUME NEW f \in Edges PROVE UsersOf(f)' = IF f = e THEN UsersOf(f) \cup {r} ELSE UsersOf(f)
      BY <1>1, <2>1 DEF UsersOf
    <2> QED  BY <2>1 DEF users
  <1>2. ASSUME binding[r].edge = e, binding'[r].edge \notin Edges
        PROVE  users' = [users EXCEPT ![e] = @ \ {r}]
    <2>1. ASSUME NEW f \in Edges PROVE UsersOf(f)' = IF f = e THEN UsersOf(f) \ {r} ELSE UsersOf(f)
      BY <1>2, <2>1 DEF UsersOf
    <2> QED  BY <2>1 DEF users
  <1> QED  BY <1>1, <1>2

\* A router gets an edge that nobody uses.
LEMMA Takes ==
  ASSUME IInv, NEW r \in Routers, NEW e \in Edges \cap backend, \A s \in Routers : binding[s].edge # e,
         binding[r].edge \notin Edges, binding'[r].edge = e,
         \A s \in Routers \ {r} : binding'[s].edge = binding[s].edge, backend' = backend
  PROVE  Owner!Next
  <1>1. users[e] = {} /\ users' = [users EXCEPT ![e] = {r}]
    <2>1. users[e] = {}
      BY DEF users, UsersOf
    <2> QED  BY <2>1, UsersMove
  <1>2. \A f \in Edges : r \notin users[f]
    BY DEF users, UsersOf
  <1>3. Owner!Take(e, r)
    BY <1>1, <1>2 DEF Owner!Take, Owner!Unbound, Owner!Set, users
  <1> QED  BY <1>3 DEF Owner!Next

\* An edge that nobody can come to use goes.
LEMMA Destroys ==
  ASSUME IInv, NEW e \in Edges, Doomed(e), backend' = backend \ {e}, UNCHANGED binding, PoolAssumption
  PROVE  Owner!Next
  <1>1. \A r \in Routers : binding[r].edge # e
    BY DEF Doomed, Rids, PoolAssumption
  <1>2. users[e] = {} /\ users' = users
    BY <1>1, UsersKept DEF users, UsersOf
  <1>3. Owner!Destroy(e)
    BY <1>2 DEF Owner!Destroy, users
  <1> QED  BY <1>3 DEF Owner!Next

OwnerStep == Owner!Next \/ UNCHANGED <<backend, users>>

\* Such a step is a stutter of the owner.
LEMMA KeptStep == ASSUME OwnersKept PROVE OwnerStep
  BY UsersKept DEF OwnersKept, OwnerStep

\* update_nsxv_router_binding changes no edge.
LEMMA SetStatusOwners ==
  ASSUME IInv, NEW rids, NEW status \in Pending \cup {"ACTIVE", "ERROR"}, SetStatus(rids, status), backend' = backend
  PROVE  OwnersKept
  <1>1. \A rid \in Rids : binding'[rid].edge = binding[rid].edge
    BY SetStatusEffect DEF IInv, TypeOK
  <1> QED  BY <1>1 DEF OwnersKept, Rids

\* The start-up check writes rows of the pool only.
LEMMA BootOwner == ASSUME PoolAssumption, IInv, Boot PROVE OwnerStep
  <1>1. CASE BootClean
    BY <1>1, KeptStep DEF BootClean, dbVars, OwnersKept
  <1>2. CASE BootFill
    BY <1>2, KeptStep DEF BootFill, AddBackups, FreshBackups, PoolAssumption, OwnersKept, Rids
  <1>3. CASE BootTrim
    BY <1>3, KeptStep, SetStatusOwners DEF BootTrim, Pending
  <1> QED  BY <1>1, <1>2, <1>3 DEF Boot

\* A clean-up writes rows of the pool only.
LEMMA CleaningOwner == ASSUME PoolAssumption, IInv, NEW t \in Threads, Cleaning(t) PROVE OwnerStep
  <1>1. CASE Mark(t)
    BY <1>1, KeptStep, SetStatusOwners DEF Mark, Pending
  <1>2. CASE SpawnDelete(t) \/ SpawnEnd(t) \/ SpawnReturn(t)
    BY <1>2, KeptStep DEF SpawnDelete, SpawnEnd, SpawnReturn, dbVars, OwnersKept
  <1> QED  BY <1>1, <1>2 DEF Cleaning

\* Of _allocate_edge_appliance, only the row added for the router with an edge of the pool
\* is a step of the owner: the router takes an edge that nobody uses.
LEMMA AllocatingOwner == ASSUME PoolAssumption, IInv, OInv, NEW t \in Threads, Allocating(t) PROVE OwnerStep
  <1>1. CASE AllocLock(t) \/ AllocList(t) \/ AllocPick(t) \/ AllocNone(t) \/ AllocEdge(t) \/ AllocDeployed(t)
             \/ AllocCount(t) \/ AllocLost(t)
    BY <1>1, KeptStep DEF AllocLock, AllocList, AllocPick, AllocNone, AllocEdge, AllocDeployed,
       AllocCount,
       AllocLost, dbVars, OwnersKept
  <1>2. CASE AllocDiscard(t)
    BY <1>2, KeptStep, SetStatusOwners DEF AllocDiscard, Discard, Pending
  <1>3. CASE AllocTake(t)
    BY <1>3, KeptStep, SetStatusOwners DEF AllocTake, Pending
  <1>4. CASE AllocDone(t)
    <2>1. CASE SetStatus({rtr[t]}, "ACTIVE")
      BY <1>4, <2>1, KeptStep, SetStatusOwners DEF AllocDone
    <2>2. CASE UNCHANGED binding
      BY <1>4, <2>2, KeptStep DEF AllocDone, OwnersKept
    <2> QED  BY <1>4, <2>1, <2>2 DEF AllocDone
  <1>5. CASE AllocUnbind(t)
    <2>1. bak[t] \in Backups /\ pc[t] = "aUnbind"
      BY <1>5 DEF AllocUnbind, IInv, Shape, Selected
    <2>2. \A r \in Routers : binding'[r] = binding[r]
      BY <1>5, <2>1 DEF AllocUnbind, DeleteRow, PoolAssumption, IInv, TypeOK, Rids
    <2> QED  BY <1>5, <2>2, KeptStep DEF AllocUnbind, OwnersKept
  <1>6. CASE AllocAdd(t)
    <2>1. rtr[t] \in Routers /\ binding[rtr[t]].edge = NoEdge
      BY <1>6 DEF AllocAdd, IInv, Shape, OInv, Holds, Unbound, Absent, RowsOrderly, NoRows, Rids
    <2>2. \A r \in Routers : binding'[r].edge = binding[r].edge
      BY <1>6, <2>1 DEF AllocAdd, AddRow, IInv, TypeOK, Rids
    <2> QED  BY <1>6, <2>2, KeptStep DEF AllocAdd, OwnersKept
  <1>7. CASE AllocRefill(t)
    BY <1>7, KeptStep DEF AllocRefill, AddBackups, FreshBackups, PoolAssumption, OwnersKept, Rids
  <1>8. CASE AllocBind(t)
    <2>1. PICK r, e : r = rtr[t] /\ e = eid[t]
      OBVIOUS
    <2>2. pc[t] = "aBind" /\ r \in Routers /\ e \in Edges /\ Carries(t, e)
      BY <1>8, <2>1 DEF AllocBind, IInv, Shape, Carries
    <2>3. e \in backend
      BY <2>2 DEF OInv, Backed
    <2>4. \A s \in Routers : binding[s].edge # e
      BY <2>2 DEF IInv, Carried, Selected, Rids
    <2>5. binding[r].edge = NoEdge
      BY <2>1, <2>2 DEF OInv, Holds, Unbound, Absent, RowsOrderly, NoRows, Rids
    <2>6. /\ binding'[r].edge = e /\ \A s \in Routers \ {r} : binding'[s].edge = binding[s].edge
          /\ backend' = backend
      BY <1>8, <2>1, <2>2 DEF AllocBind, AddRow, IInv, TypeOK, Rids
    <2> QED  BY <2>2, <2>3, <2>4, <2>5, <2>6, Takes DEF PoolAssumption, OwnerStep
  <1> QED  BY <1>1, <1>2, <1>3, <1>4, <1>5, <1>6, <1>7, <1>8 DEF Allocating

\* Of _free_edge_appliance, only the deletion of the router's row is a step of the owner:
\* the router leaves its edge.
LEMMA CollectingOwner == ASSUME PoolAssumption, IInv, OInv, NEW t \in Threads, Collecting(t) PROVE OwnerStep
  <1>1. CASE FreeLock(t) \/ FreeClean(t) \/ FreeCollect(t) \/ FreeVnics(t)
    BY <1>1, KeptStep DEF FreeLock, FreeClean, FreeCollect, FreeVnics, dbVars, OwnersKept
  <1>2. CASE FreeDiscard(t) \/ FreeSurplus(t)
    BY <1>2, KeptStep, SetStatusOwners DEF FreeDiscard, FreeSurplus, Discard, Pending
  <1>3. CASE FreePool(t)
    BY <1>3, KeptStep, SetStatusOwners DEF FreePool, Pending
  <1>4. CASE FreeUpdate(t)
    <2>1. CASE SetStatus({bak[t]}, "ERROR")
      BY <1>4, <2>1, KeptStep, SetStatusOwners DEF FreeUpdate
    <2>2. CASE UNCHANGED binding
      BY <1>4, <2>2, KeptStep DEF FreeUpdate, OwnersKept
    <2> QED  BY <1>4, <2>1, <2>2 DEF FreeUpdate
  <1>5. CASE FreeAdd(t)
    BY <1>5, KeptStep DEF FreeAdd, AddRow, FreshBackups, PoolAssumption, OwnersKept, IInv, TypeOK, Rids
  <1>6. CASE FreeUnbind(t)
    <2>1. PICK r \in Routers : r = rtr[t]
      BY <1>6 DEF FreeUnbind, IInv, Shape
    <2>2. /\ binding'[r].edge = NoEdge /\ \A s \in Routers \ {r} : binding'[s].edge = binding[s].edge
          /\ backend' = backend
      BY <1>6, <2>1 DEF FreeUnbind, DeleteRow, NoRow, IInv, TypeOK, Rids
    <2>3. CASE binding[r].edge \in Edges
      <3>1. PICK e \in Edges : e = binding[r].edge
        BY <2>3
      <3>2. users' = [users EXCEPT ![e] = @ \ {r}]
        BY <2>2, <3>1, UsersMove DEF PoolAssumption
      <3>3. r \in users[e]
        BY <3>1 DEF users, UsersOf
      <3>4. Owner!Leave(e, r)
        BY <2>2, <3>2, <3>3 DEF Owner!Leave, Owner!Set, users
      <3> QED  BY <3>4 DEF OwnerStep, Owner!Next
    <2>4. CASE binding[r].edge \notin Edges
      <3>1. binding[r].edge = NoEdge
        BY <2>4 DEF IInv, TypeOK, Row, Rids
      <3> QED  BY <2>2, <3>1, KeptStep DEF OwnersKept
    <2> QED  BY <2>3, <2>4
  <1> QED  BY <1>1, <1>2, <1>3, <1>4, <1>5, <1>6 DEF Collecting

\* Of the workers, the answer of vcns.deploy_edge is a deployment of the owner, the row that
\* learns its edge a router that takes it, and delete_edge at the backend a destruction.
LEMMA WorkerOwner == ASSUME PoolAssumption, ~HostGroups, IInv, OInv, Worker PROVE OwnerStep
  <1>1. ASSUME NEW b \in Backups, DeployStart(b) PROVE OwnerStep
    BY <1>1, KeptStep DEF DeployStart, dbVars, OwnersKept
  <1>2. ASSUME NEW rid \in Rids, DeployStep(rid) PROVE OwnerStep
    <2>1. CASE DeployVnics(rid) \/ DeployGroups(rid)
      BY <2>1, KeptStep DEF DeployVnics, DeployGroups, dbVars, OwnersKept
    <2>2. CASE DeployUndo(rid)
      BY <2>2, KeptStep, SetStatusOwners DEF DeployUndo
    <2>3. CASE DeployDone(rid)
      <3>1. CASE SetStatus({rid}, "ACTIVE")
        BY <2>3, <3>1, KeptStep, SetStatusOwners DEF DeployDone
      <3>2. CASE UNCHANGED binding
        BY <2>3, <3>2, KeptStep DEF DeployDone, OwnersKept
      <3> QED  BY <2>3, <3>1, <3>2 DEF DeployDone
    <2>4. CASE DeployBackend(rid)
      <3>1. UNCHANGED binding
        BY <2>4 DEF DeployBackend, dbVars
      <3>2. CASE UNCHANGED backend
        BY <3>1, <3>2, KeptStep DEF OwnersKept
      <3>3. ASSUME NEW e \in FreshEdges, backend' = backend \cup {e} PROVE OwnerStep
        <4>1. users' = users /\ e \in Edges /\ e \notin backend
          BY <3>1, UsersKept, FreshEdge
        <4>2. Owner!Deploy(e)
          BY <3>3, <4>1 DEF Owner!Deploy, users
        <4> QED  BY <4>1, <4>2 DEF OwnerStep, Owner!Next
      <3> QED  BY <2>4, <3>2, <3>3 DEF DeployBackend
    <2>5. CASE DeployRecord(rid)
      <3>1. deploy[rid].stage = "record" /\ backend' = backend
        BY <2>5 DEF DeployRecord
      <3>2. CASE ~Exists(rid)
        BY <2>5, <3>1, <3>2, KeptStep DEF DeployRecord, OwnersKept
      <3>3. CASE Exists(rid) /\ rid \in Backups
        <4>1. \A r \in Routers : binding'[r] = binding[r]
          BY <2>5, <3>3 DEF DeployRecord, PoolAssumption, IInv, TypeOK, Rids
        <4> QED  BY <3>1, <4>1, KeptStep DEF OwnersKept
      <3>4. CASE Exists(rid) /\ rid \in Routers
        <4>1. PICK e \in Edges : e = deploy[rid].edge
          BY <3>1 DEF IInv, Shape
        <4>2. e \in backend /\ (\A s \in Routers : binding[s].edge # e) /\ binding[rid].edge = NoEdge
          BY <3>1, <4>1 DEF OInv, Backed, IInv, Recorded, RowsOrderly, Deploying, Rids
        <4>3. binding'[rid].edge = e /\ \A s \in Routers \ {rid} : binding'[s].edge = binding[s].edge
          BY <2>5, <3>4, <4>1 DEF DeployRecord, IInv, TypeOK, Rids, Row
        <4> QED  BY <3>1, <3>4, <4>2, <4>3, Takes DEF PoolAssumption, OwnerStep
      <3> QED  BY <3>2, <3>3, <3>4 DEF Rids
    <2> QED  BY <1>2, <2>1, <2>2, <2>3, <2>4, <2>5 DEF DeployStep
  <1>3. ASSUME NEW d \in deletes, DeleteDb(d) PROVE OwnerStep
    <2>1. d.rid \in Backups
      BY DEF IInv, TypeOK
    <2>2. \A r \in Routers : binding'[r] = binding[r]
      BY <1>3, <2>1 DEF DeleteDb, DeleteRow, PoolAssumption, IInv, TypeOK, Rids
    <2> QED  BY <1>3, <2>2, KeptStep DEF DeleteDb, OwnersKept
  <1>4. ASSUME NEW d \in deletes, DeleteBackend(d) PROVE OwnerStep
    <2>1. PICK e : e = d.edge
      OBVIOUS
    <2>2. e \in Edges /\ Doomed(e) /\ backend' = backend \ {e} /\ UNCHANGED binding
      BY <1>4, <2>1 DEF DeleteBackend, DestroyEdge, dbVars, OInv, Leaving, Sent
    <2> QED  BY <2>2, Destroys DEF OwnerStep
  <1> QED  BY <1>1, <1>2, <1>3, <1>4 DEF Worker

\* Of the housekeeper, the deletion at the backend is a destruction; the rest writes rows of
\* the pool.
LEMMA HousekeeperOwner == ASSUME PoolAssumption, IInv, OInv, Housekeeper PROVE OwnerStep
  <1>1. CASE HkRead \/ HkPick \/ HkEnd
    BY <1>1, KeptStep DEF HkRead, HkPick, HkEnd, dbVars, OwnersKept
  <1>2. CASE HkUpdate
    <2>1. CASE SetStatus({hkCur.rid}, "ERROR")
      BY <1>2, <2>1, KeptStep, SetStatusOwners DEF HkUpdate
    <2>2. CASE UNCHANGED binding
      BY <1>2, <2>2, KeptStep DEF HkUpdate, OwnersKept
    <2> QED  BY <1>2, <2>1, <2>2 DEF HkUpdate
  <1>3. CASE HkActivate
    <2>1. CASE SetStatus({hkCur.rid}, "ACTIVE")
      BY <1>3, <2>1, KeptStep, SetStatusOwners DEF HkActivate
    <2>2. CASE UNCHANGED binding
      BY <1>3, <2>2, KeptStep DEF HkActivate, OwnersKept
    <2> QED  BY <1>3, <2>1, <2>2 DEF HkActivate
  <1>4. CASE HkMark
    BY <1>4, KeptStep, SetStatusOwners DEF HkMark, Pending
  <1>5. CASE HkPurge
    <2>1. hkCur.rid \in Backups
      BY <1>5 DEF HkPurge, IInv, Shape, Item
    <2>2. \A r \in Routers : binding'[r] = binding[r]
      BY <1>5, <2>1 DEF HkPurge, DeleteRow, PoolAssumption, IInv, TypeOK, Rids
    <2> QED  BY <1>5, <2>2, KeptStep DEF HkPurge, OwnersKept
  <1>6. CASE HkDestroy
    <2>1. PICK e : e = hkCur.edge
      OBVIOUS
    <2>2. e \in Edges /\ Doomed(e) /\ backend' = backend \ {e} /\ UNCHANGED binding
      BY <1>6, <2>1 DEF HkDestroy, DestroyEdge, dbVars, OInv, HkHolds, Sent, IInv, Shape
    <2> QED  BY <2>2, Destroys DEF OwnerStep
  <1> QED  BY <1>1, <1>2, <1>3, <1>4, <1>5, <1>6 DEF Housekeeper

\* Every step of EdgePool is a step of EdgeOwner or a stutter.
LEMMA NextOwner ==
  ASSUME PoolAssumption, ~HostGroups, IInv, OInv, [Next]_vars
  PROVE  OwnerStep
  <1>1. ASSUME NEW t \in Threads, Thread(t) PROVE OwnerStep
    BY <1>1, CleaningOwner, AllocatingOwner, CollectingOwner DEF Thread
  <1>2. ASSUME NEW t \in Threads, NEW r \in Routers, StartAlloc(t, r) \/ StartFree(t, r) PROVE OwnerStep
    BY <1>2, KeptStep DEF StartAlloc, StartFree, dbVars, OwnersKept
  <1>3. CASE Environment
    BY <1>3, KeptStep DEF Environment, Crash, Expire, dbVars, OwnersKept
  <1>4. CASE UNCHANGED vars
    BY <1>4, KeptStep DEF vars, dbVars, OwnersKept
  <1> QED  BY <1>1, <1>2, <1>3, <1>4, BootOwner, WorkerOwner, HousekeeperOwner DEF Next

\* ImplementsOwner: the pool, with its rows, deployments, clean-ups, repairs and restarts,
\* implements EdgeOwner: a router takes an edge that exists and that no other router uses,
\* leaves it before it takes another, and no edge that is in use is destroyed (allocate,
\* free, deploy and delete of edge_utils.py and edge_appliance_driver.py).
THEOREM PoolImplementsOwner == ASSUME ~HostGroups, ~MayExpire PROVE Spec => ImplementsOwner
  <1>1. Init => Owner!Init
    <2>1. SUFFICES ASSUME Init PROVE backend \subseteq Edges /\ \A e \in Edges : UsersOf(e) = {}
      BY DEF Owner!Init
    <2>2. \A r \in Routers : binding[r].edge = NoEdge
      BY <2>1 DEF Init, NoRow, Rids
    <2> QED  BY <2>1, <2>2, PoolAssumption DEF Init, UsersOf, PoolAssumption
  <1>2. IInv /\ OInv /\ [Next]_vars => [Owner!Next]_(Owner!ownerVars)
    BY PoolAssumption, NextOwner DEF OwnerStep, Owner!ownerVars, users
  <1> QED  BY <1>1, <1>2, OwnerInvariant, PTL DEF Spec, ImplementsOwner, Owner!Spec

-----------------------------------------------------------------------------
(* ActiveIsUsable and NoLeakedEdge, for a server that does not restart.    *)

\* A row that the pool or the housekeeper may make ACTIVE has its vnic rows, but for the
\* one whose collection failed and that still waits for them.
RowWired(b) ==
  /\ binding[b].status = "ACTIVE" => binding[b].edge \in vnics
  /\ b \in Backups /\ binding[b].status = "ERROR" /\ binding[b].edge \in Edges
       => binding[b].edge \in vnics \/ \E t \in Threads : pc[t] = "fError" /\ bak[t] = b
\* The row of a deployment waits for it, until somebody deletes it.
DeployWired(rid) == LET d == deploy[rid] IN
  /\ d.stage \in {"queued", "backend", "record", "vnics", "done", "undo"} /\ Exists(rid)
       => binding[rid].status = "PENDING_CREATE"
  /\ d.stage \in {"vnics", "done", "undo"} /\ Exists(rid) => binding[rid].edge = d.edge
  /\ d.stage = "done" /\ Exists(rid) => d.edge \in vnics
  /\ d.stage = "undo" /\ rid \in Backups => d.edge = NoEdge
  /\ d.stage # "groups"
\* So do the edges that a request is about to make ACTIVE.
Rebinds(t) == pc[t] \in {"aEdge", "aDone"}
ThreadWired(t) ==
  /\ pc[t] \in {"aUnbind", "aBind", "fPool"} => eid[t] \in vnics
  /\ Rebinds(t) => deploy[rtr[t]].stage = "none"
  /\ Rebinds(t) /\ Exists(rtr[t]) => RowIs(rtr[t], "PENDING_CREATE", eid[t]) /\ eid[t] \in vnics
Wired == /\ \A rid \in Rids : RowWired(rid) /\ DeployWired(rid)
         /\ \A t \in Threads : ThreadWired(t)

\* The row of a deployment keeps the edge that the deployment has.
DeployKept(rid) == LET d == deploy[rid] IN
  /\ d.stage \in {"queued", "backend", "record"} => Exists(rid)
  /\ d.stage = "none" => d.edge = NoEdge
  /\ d.stage \notin {"none", "record"} => binding[rid].edge = d.edge
\* A router is in the hands of one request, which deploys for it or deletes its row.
ThreadKept(t) ==
  /\ pc[t] \in {"fLock", "fUnbind"} => deploy[rtr[t]].stage = "none"
  /\ pc[t] = "fUnbind" => binding[rtr[t]].edge = eid[t]
OneRequest == \A t, u \in Threads : t # u => rtr[t] \notin Routers \/ rtr[t] # rtr[u]
Deploys == \A r \in Routers : deploy[r].stage # "none" => \E t \in Threads : pc[t] = "aDeploy" /\ rtr[t] = r
Kept == /\ NoLeakedEdge /\ OneRequest /\ Deploys
        /\ \A rid \in Rids : DeployKept(rid)
        /\ \A t \in Threads : ThreadKept(t)

\* The vnic rows that a step may delete: of edges nobody can come to use, and of a router's
\* failed deployment.
VnicsStep ==
  \A e \in vnics \ vnics' :
    \/ Doomed(e)
    \/ \E r \in Routers : deploy[r].stage = "undo" /\ binding[r].edge = e /\ binding[r].status = "PENDING_CREATE"
\* The rows of the others, and those of their deployments.
WiredRows == \A rid \in Rids : binding'[rid] = binding[rid] \/ binding'[rid].status \in Pending \cup {"NONE"}
                               \/ RowWired(rid)'
WiredDeploys == \A rid \in Rids : \/ deploy'[rid].stage = "none" \/ DeployWired(rid)'
                                  \/ deploy'[rid] = deploy[rid] /\ binding'[rid] \in {binding[rid], NoRow}
\* A router for which nobody deploys is changed by its own request, or its row goes.
RoutersStep(me) ==
  \A r \in Routers : deploy[r].stage = "none" =>
    \/ deploy'[r].stage = "none" /\ binding'[r] \in {binding[r], NoRow}
    \/ \E u \in me : Allocates(u) /\ rtr[u] = r

\* An edge whose vnic rows go is in no row but one sent to deletion or of a failed deployment.
LEMMA LostVnics ==
  ASSUME PoolAssumption, IInv, OInv, VnicsStep, NEW e \in vnics \ vnics', NEW rid \in Rids, binding[rid].edge = e
  PROVE  binding[rid].status = "PENDING_DELETE" \/ (deploy[rid].stage = "undo" /\ binding[rid].status = "PENDING_CREATE")
  <1>1. CASE Doomed(e)
    BY <1>1 DEF Doomed
  <1>2. ASSUME NEW r \in Routers, deploy[r].stage = "undo", binding[r].edge = e, binding[r].status = "PENDING_CREATE"
        PROVE  rid = r
    <2>1. r \in Rids /\ e # NoEdge
      BY DEF Rids, IInv, TypeOK, PoolAssumption
    <2> QED  BY <1>2, <2>1 DEF IInv, EdgeExclusive
  <1> QED  BY <1>1, <1>2 DEF VnicsStep

\* Nor does a thread carry it.
LEMMA LostNotCarried ==
  ASSUME PoolAssumption, IInv, OInv, VnicsStep, NEW e \in vnics \ vnics', NEW t \in Threads, pc[t] = "aBind"
  PROVE  eid[t] # e
  <1>1. SUFFICES ASSUME eid[t] = e PROVE FALSE
    OBVIOUS
  <1>2. Carries(t, e) /\ e \in Edges
    BY <1>1 DEF Carries, IInv, TypeOK
  <1>3. ASSUME NEW r \in Routers, binding[r].edge = e PROVE FALSE
    <2>1. r \in Rids
      BY DEF Rids
    <2> QED  BY <1>2, <1>3, <2>1 DEF IInv, Carried, Selected
  <1> QED  BY <1>2, <1>3 DEF VnicsStep, Doomed

\* What a request relies on stays true while others act.
LEMMA ThreadWiredKept ==
  ASSUME PoolAssumption, IInv, OInv, Wired, VnicsStep, NEW me \in SUBSET Threads, RoutersStep(me),
         NEW u \in Threads \ me, Same(u)
  PROVE  ThreadWired(u)'
  <1>1. Holds(u) /\ ThreadWired(u)
    BY DEF OInv, Wired
  <1>2. ASSUME pc[u] \in {"aUnbind", "aBind", "fPool"} PROVE eid[u] \in vnics'
    <2>1. eid[u] \in vnics
      BY <1>1, <1>2 DEF ThreadWired
    <2>2. CASE pc[u] = "aBind"
      BY <2>1, <2>2, LostNotCarried
    <2>3. CASE pc[u] \in {"aUnbind", "fPool"}
      <3>1. bak[u] \in Rids
        BY <2>3 DEF IInv, Shape, Selected, Collected, Rids
      <3>2. binding[bak[u]] = [status |-> "PENDING_UPDATE", edge |-> eid[u]]
        BY <1>1, <2>3 DEF Holds, RowIs, Renews
      <3>3. binding[bak[u]].status = "PENDING_UPDATE" /\ binding[bak[u]].edge = eid[u]
        BY <3>2
      <3> QED  BY <2>1, <3>1, <3>3, LostVnics
    <2> QED  BY <1>2, <2>2, <2>3
  <1>3. ASSUME Rebinds(u)
        PROVE  deploy'[rtr[u]].stage = "none" /\ binding'[rtr[u]] \in {binding[rtr[u]], NoRow}
    <2>1. rtr[u] \in Routers /\ Allocates(u) /\ deploy[rtr[u]].stage = "none"
      BY <1>1, <1>3 DEF IInv, Shape, Rebinds, Allocates, ThreadWired
    <2>2. \A v \in me : ~(Allocates(v) /\ rtr[v] = rtr[u])
      BY <2>1 DEF OInv, Control, OneAlloc
    <2> QED  BY <2>1, <2>2 DEF RoutersStep
  <1>4. ASSUME Rebinds(u), binding'[rtr[u]].status # "NONE"
        PROVE  binding'[rtr[u]] = [status |-> "PENDING_CREATE", edge |-> eid[u]] /\ eid[u] \in vnics'
    <2>1. binding'[rtr[u]] = binding[rtr[u]] /\ Exists(rtr[u])
      BY <1>3, <1>4 DEF NoRow, Exists
    <2>2. binding[rtr[u]] = [status |-> "PENDING_CREATE", edge |-> eid[u]] /\ eid[u] \in vnics
          /\ deploy[rtr[u]].stage = "none" /\ rtr[u] \in Rids
      BY <1>1, <1>4, <2>1 DEF ThreadWired, RowIs, IInv, Shape, Rebinds, Rids
    <2>3. binding[rtr[u]].status = "PENDING_CREATE" /\ binding[rtr[u]].edge = eid[u]
      BY <2>2
    <2> QED  BY <2>1, <2>2, <2>3, LostVnics
  <1> QED  BY <1>2, <1>3, <1>4 DEF Same, ThreadWired, Rebinds, Exists, RowIs

\* The frame: whoever keeps to these leaves the others' rows, deployments and edges usable.
LEMMA WiredFrame ==
  ASSUME PoolAssumption, IInv, OInv, Wired, VnicsStep, WiredRows, WiredDeploys,
         NEW me \in SUBSET Threads, RoutersStep(me), \A u \in Threads \ me : Same(u),
         \A u \in me : /\ ThreadWired(u)'
                       /\ pc[u] = "fError" => eid[u] \in vnics'
  PROVE  Wired'
  <1>1. ASSUME NEW rid \in Rids PROVE RowWired(rid)'
    <2>1. CASE binding'[rid] = binding[rid]
      <3>1. RowWired(rid)
        BY DEF Wired
      <3>2. \A e \in vnics : binding[rid].edge = e /\ binding[rid].status \in {"ACTIVE", "ERROR"} => e \in vnics'
        BY LostVnics
      <3>3. ASSUME binding[rid].status = "ERROR", NEW t \in Threads, pc[t] = "fError", bak[t] = rid
            PROVE  binding[rid].edge \in vnics' \/ (pc'[t] = "fError" /\ bak'[t] = rid)
        <4>1. binding[rid] = [status |-> "ERROR", edge |-> eid[t]]
          BY <3>3 DEF OInv, Holds, RowIs
        <4>2. binding[rid].edge = eid[t]
          BY <4>1
        <4> QED  BY <3>3, <4>2 DEF Same
      <3> QED  BY <2>1, <3>1, <3>2, <3>3 DEF RowWired
    <2>2. CASE binding'[rid].status \in Pending \cup {"NONE"}
      BY <2>2 DEF RowWired, Pending
    <2> QED  BY <2>1, <2>2 DEF WiredRows
  <1>2. ASSUME NEW rid \in Rids PROVE DeployWired(rid)'
    <2>1. CASE deploy'[rid].stage = "none"
      BY <2>1 DEF DeployWired
    <2>2. CASE deploy'[rid] = deploy[rid] /\ binding'[rid] \in {binding[rid], NoRow}
      <3>1. DeployWired(rid)
        BY DEF Wired
      <3>2. deploy[rid].stage = "done" /\ Exists(rid) => binding[rid].edge \in vnics /\ binding[rid].status = "PENDING_CREATE"
        BY <3>1 DEF DeployWired
      <3>3. deploy[rid].stage = "done" /\ Exists(rid) => binding[rid].edge \in vnics'
        BY <3>2, LostVnics
      <3> QED  BY <2>2, <3>1, <3>3 DEF DeployWired, Exists, NoRow
    <2> QED  BY <2>1, <2>2 DEF WiredDeploys
  <1>3. ASSUME NEW u \in Threads PROVE ThreadWired(u)'
    BY <1>3, ThreadWiredKept
  <1> QED  BY <1>1, <1>2, <1>3 DEF Wired

-----------------------------------------------------------------------------
(* ActiveIsUsable: the steps.                                              *)

\* A step that leaves the rows, the vnic rows and the deployments alone.
LEMMA WiredQuiet ==
  ASSUME PoolAssumption, IInv, OInv, Wired, NEW me \in SUBSET Threads, \A u \in Threads \ me : Same(u),
         UNCHANGED <<binding, vnics, deploy>>, \A u \in me : pc[u] # "fError" /\ ThreadWired(u)'
  PROVE  Wired'
  <1>1. VnicsStep /\ WiredRows /\ WiredDeploys /\ RoutersStep(me)
    BY DEF VnicsStep, WiredRows, WiredDeploys, RoutersStep
  <1> QED  BY <1>1, WiredFrame

\* The labels at which a request relies on no vnic rows.
Plain(label) == label \notin {"aUnbind", "aBind", "aEdge", "aDone", "fPool"}
\* A thread goes on.
Alone(t) == \A u \in Threads \ {t} : Same(u)

\* The same, for one thread that goes on.
LEMMA WiredThread ==
  ASSUME PoolAssumption, IInv, OInv, Wired, NEW t \in Threads, Alone(t),
         UNCHANGED <<binding, vnics, deploy>>, pc[t] # "fError", ThreadWired(t)'
  PROVE  Wired'
  <1> DEFINE me == {t}
  <1>1. me \in SUBSET Threads /\ \A u \in Threads \ me : Same(u)
    BY DEF Alone
  <1>2. \A u \in me : pc[u] # "fError" /\ ThreadWired(u)'
    OBVIOUS
  <1> HIDE DEF me
  <1> QED  BY <1>1, <1>2, WiredQuiet

\* The steps of requests between their transactions, and those that only read.
LEMMA ReadingWired ==
  ASSUME PoolAssumption, IInv, OInv, Wired, NEW t \in Threads,
         \/ AllocLock(t) \/ AllocList(t) \/ AllocPick(t) \/ AllocNone(t) \/ AllocCount(t) \/ AllocLost(t)
         \/ SpawnDelete(t) \/ SpawnEnd(t) \/ SpawnReturn(t)
         \/ FreeLock(t) \/ FreeClean(t) \/ FreeCollect(t) \/ (FreeUpdate(t) /\ pc'[t] = "fActive")
         \/ (t = Main /\ BootClean) \/ \E r \in Routers : StartAlloc(t, r) \/ StartFree(t, r)
  PROVE  Wired'
  <1>1. CASE AllocLock(t) \/ AllocList(t) \/ AllocPick(t) \/ AllocNone(t) \/ AllocCount(t)
    <2>1. UNCHANGED <<binding, vnics, deploy>> /\ pc[t] # "fError" /\ Plain(pc'[t])
      BY <1>1 DEF AllocLock, AllocList, AllocPick, AllocNone, AllocCount, BeginClean, IInv, TypeOK,
         dbVars, jobVars,
         Goto, Plain
    <2>2. Alone(t)
      BY <1>1 DEF AllocLock, AllocList, AllocPick, AllocNone, AllocCount, BeginClean, IInv, TypeOK, Goto,
         Alone, Same,
         locals
    <2>3. ThreadWired(t)'
      BY <2>1 DEF ThreadWired, Plain, Rebinds
    <2> QED  BY <2>1, <2>2, <2>3, WiredThread
  <1>2. CASE AllocLost(t) \/ SpawnReturn(t)
    <2>1. UNCHANGED <<binding, vnics, deploy>> /\ pc[t] # "fError" /\ Finish(t)
      BY <1>2 DEF AllocLost, SpawnReturn, dbVars, jobVars
    <2>2. Alone(t) /\ pc'[t] = "idle"
      BY <2>1, FinishEffect DEF IInv, Alone, Same
    <2>3. ThreadWired(t)'
      BY <2>2 DEF ThreadWired, Rebinds
    <2> QED  BY <2>1, <2>2, <2>3, WiredThread
  <1>3. CASE SpawnDelete(t) \/ SpawnEnd(t)
    <2>1. UNCHANGED <<binding, vnics, deploy>> /\ pc[t] = "spawn" /\ Plain(pc'[t])
      BY <1>3 DEF SpawnDelete, SpawnEnd, IInv, TypeOK, dbVars, jobVars, Goto, Plain, locals
    <2>2. Alone(t)
      BY <1>3 DEF SpawnDelete, SpawnEnd, IInv, TypeOK, Goto, Alone, Same, locals
    <2>3. ThreadWired(t)'
      BY <2>1 DEF ThreadWired, Plain, Rebinds
    <2> QED  BY <2>1, <2>2, <2>3, WiredThread
  <1>4. CASE FreeLock(t)
    <2>1. UNCHANGED <<binding, vnics, deploy>> /\ pc[t] = "fLock"
      BY <1>4 DEF FreeLock, dbVars, jobVars
    <2>2. Alone(t) /\ Plain(pc'[t])
      <3>1. CASE Finish(t)
        BY <3>1, FinishEffect DEF IInv, Alone, Same, Plain
      <3>2. CASE ~Finish(t)
        BY <1>4, <3>2 DEF FreeLock, IInv, TypeOK, Goto, Alone, Same, Plain
      <3> QED  BY <3>1, <3>2
    <2>3. ThreadWired(t)'
      BY <2>2 DEF ThreadWired, Plain, Rebinds
    <2> QED  BY <2>1, <2>2, <2>3, WiredThread
  <1>5. CASE FreeClean(t) \/ FreeCollect(t) \/ (FreeUpdate(t) /\ pc'[t] = "fActive") \/ (t = Main /\ BootClean)
             \/ \E r \in Routers : StartAlloc(t, r) \/ StartFree(t, r)
    <2>1. UNCHANGED <<binding, vnics, deploy>> /\ pc[t] # "fError" /\ Plain(pc'[t])
      BY <1>5 DEF FreeClean, FreeCollect, FreeUpdate, BootClean, StartAlloc, StartFree, BeginClean, IInv,
         TypeOK,
         dbVars, jobVars, Goto, Plain
    <2>2. Alone(t)
      BY <1>5 DEF FreeClean, FreeCollect, FreeUpdate, BootClean, StartAlloc, StartFree, BeginClean, IInv,
         TypeOK,
         Goto, Alone, Same, locals
    <2>3. ThreadWired(t)'
      BY <2>1 DEF ThreadWired, Plain, Rebinds
    <2> QED  BY <2>1, <2>2, <2>3, WiredThread
  <1> QED  BY <1>1, <1>2, <1>3, <1>4, <1>5

\* The steps of the workers and the housekeeper that leave the rows alone.
LEMMA IdleWired ==
  ASSUME PoolAssumption, IInv, OInv, Wired,
         \/ HkRead \/ HkPick \/ HkEnd \/ HkDestroy \/ (HkUpdate /\ hkPc' = "activate")
         \/ \E d \in deletes : DeleteBackend(d)
  PROVE  Wired'
  <1>1. UNCHANGED <<binding, vnics, deploy>> /\ UNCHANGED <<pc, locals>>
    BY DEF HkRead, HkPick, HkEnd, HkDestroy, HkUpdate, DeleteBackend, dbVars, jobVars
  <1>2. \A u \in Threads \ {} : Same(u)
    BY <1>1 DEF Same, locals
  <1> QED  BY <1>1, <1>2, WiredQuiet

\* The edge of the request is locked.
LEMMA AllocEdgeWired ==
  ASSUME PoolAssumption, IInv, OInv, Wired, NEW t \in Threads, AllocEdge(t)
  PROVE  Wired'
  <1>1. /\ pc[t] = "aEdge" /\ pc'[t] = "aDone" /\ rtr'[t] = rtr[t] /\ eid'[t] = eid[t]
        /\ UNCHANGED <<binding, vnics, deploy>>
    BY DEF AllocEdge, IInv, TypeOK, dbVars, jobVars, Goto, locals
  <1>2. Alone(t)
    BY DEF AllocEdge, IInv, TypeOK, Goto, Alone, Same, locals
  <1>3. ThreadWired(t)
    BY DEF Wired
  <1>4. ThreadWired(t)'
    BY <1>1, <1>3 DEF ThreadWired, Rebinds, Exists, RowIs
  <1> QED  BY <1>1, <1>2, <1>4, WiredThread

\* The frame with one thread that acts, or none.
LEMMA WiredStep ==
  ASSUME PoolAssumption, IInv, OInv, Wired, VnicsStep, WiredRows, WiredDeploys, NEW t \in Threads, Alone(t),
         \/ Same(t) /\ RoutersStep({})
         \/ RoutersStep({t}) /\ ThreadWired(t)' /\ (pc[t] = "fError" => eid[t] \in vnics')
  PROVE  Wired'
  <1>1. CASE Same(t) /\ RoutersStep({})
    <2> DEFINE me == {}
    <2>1. me \in SUBSET Threads /\ RoutersStep(me) /\ \A u \in Threads \ me : Same(u)
      BY <1>1 DEF Alone
    <2>2. \A u \in me : ThreadWired(u)' /\ (pc[u] = "fError" => eid[u] \in vnics')
      OBVIOUS
    <2> HIDE DEF me
    <2> QED  BY <2>1, <2>2, WiredFrame
  <1>2. CASE RoutersStep({t}) /\ ThreadWired(t)' /\ (pc[t] = "fError" => eid[t] \in vnics')
    <2> DEFINE me == {t}
    <2>1. me \in SUBSET Threads /\ RoutersStep(me) /\ \A u \in Threads \ me : Same(u)
      BY <1>2 DEF Alone
    <2>2. \A u \in me : ThreadWired(u)' /\ (pc[u] = "fError" => eid[u] \in vnics')
      BY <1>2
    <2> HIDE DEF me
    <2> QED  BY <2>1, <2>2, WiredFrame
  <1> QED  BY <1>1, <1>2

\* A step that changes the status of rows of the pool without a deployment.
LEMMA StatusWired ==
  ASSUME PoolAssumption, IInv, OInv, Wired, NEW t \in Threads, Alone(t),
         Same(t) \/ (pc[t] # "fError" /\ ThreadWired(t)'),
         NEW rids \in SUBSET Backups, NEW status \in Pending \cup {"ACTIVE", "ERROR"}, SetStatus(rids, status),
         UNCHANGED <<vnics, deploy>>, \A b \in rids : deploy[b].stage = "none",
         status \in Pending \/ \A b \in rids : RowWired(b)'
  PROVE  Wired'
  <1>1. \A rid \in Rids : rid \notin rids => binding'[rid] = binding[rid]
    BY DEF SetStatus
  <1>2. \A rid \in rids : rid \in Rids /\ (binding'[rid] = binding[rid] \/ binding'[rid].status = status)
    BY DEF SetStatus, Rids, IInv, TypeOK, Row
  <1>3. VnicsStep /\ WiredRows
    <2>1. ASSUME NEW rid \in Rids
          PROVE  binding'[rid] = binding[rid] \/ binding'[rid].status \in Pending \cup {"NONE"} \/ RowWired(rid)'
      BY <1>1, <1>2
    <2> QED  BY <2>1 DEF VnicsStep, WiredRows
  <1>4. WiredDeploys
    BY <1>1, <1>2 DEF WiredDeploys
  <1>5. RoutersStep({}) /\ RoutersStep({t})
    <2>1. ASSUME NEW r \in Routers PROVE binding'[r] = binding[r]
      BY <1>1 DEF Rids, PoolAssumption
    <2> QED  BY <2>1 DEF RoutersStep
  <1> QED  BY <1>3, <1>4, <1>5, WiredStep

\* Rows go to deletion.
LEMMA MarkWired ==
  ASSUME PoolAssumption, IInv, OInv, Wired, NEW t \in Threads,
         Mark(t) \/ AllocDiscard(t) \/ FreeDiscard(t) \/ FreeSurplus(t) \/ (t = Main /\ BootTrim)
  PROVE  Wired'
  <1>1. PICK rids \in SUBSET Backups : SetStatus(rids, "PENDING_DELETE") /\ \A b \in rids : deploy[b].stage = "none"
    <2>1. CASE Mark(t)
      <3> DEFINE rids == {x.rid : x \in todo[t]}
      <3>1. rids \in SUBSET Backups /\ SetStatus(rids, "PENDING_DELETE")
        BY <2>1 DEF Mark, IInv, TypeOK, Item
      <3>2. ASSUME NEW x \in todo[t] PROVE deploy[x.rid].stage = "none"
        <4>1. binding[x.rid] = [status |-> "ERROR", edge |-> x.edge] /\ x.rid \in Backups
          <5>1. Holds(t) /\ pc[t] = "mark"
            BY <2>1 DEF Mark, OInv
          <5>2. x \in Item
            BY <3>2 DEF IInv, TypeOK
          <5> QED  BY <3>2, <5>1, <5>2 DEF Holds, RowIs, Item
        <4>2. binding[x.rid].status = "ERROR"
          BY <4>1
        <4> QED  BY <4>1, <4>2 DEF IInv, Settled
      <3> QED  BY <3>1, <3>2
    <2>2. CASE AllocDiscard(t)
      <3>1. PICK x \in cand[t] : SetStatus({x.rid}, "PENDING_DELETE")
        BY <2>2 DEF AllocDiscard, Discard
      <3>2. x.rid \in Backups /\ deploy[x.rid].stage = "none"
        BY <2>2 DEF AllocDiscard, IInv, TypeOK, Item, ChoosingQuiet, Choosing
      <3> QED  BY <3>1, <3>2
    <2>3. CASE FreeDiscard(t) \/ FreeSurplus(t)
      <3>1. SetStatus({bak[t]}, "PENDING_DELETE")
        BY <2>3 DEF FreeDiscard, FreeSurplus, Discard
      <3>2. bak[t] \in Backups /\ deploy[bak[t]].stage = "none"
        BY <2>3 DEF FreeDiscard, FreeSurplus, IInv, Shape, Collected, CollectedQuiet
      <3> QED  BY <3>1, <3>2
    <2>4. CASE BootTrim
      <3>1. PICK extra \in SUBSET PoolRids : SetStatus(extra, "PENDING_DELETE")
        BY <2>4 DEF BootTrim
      <3>2. extra \in SUBSET Backups /\ \A b \in extra : deploy[b].stage = "none"
        BY <2>4 DEF BootTrim, PoolRids, OInv, Control, BootAlone, Booting, Rids
      <3> QED  BY <3>1, <3>2
    <2> QED  BY <2>1, <2>2, <2>3, <2>4
  <1>2. UNCHANGED <<vnics, deploy>> /\ pc[t] # "fError" /\ pc'[t] = "spawn"
    BY DEF Mark, AllocDiscard, FreeDiscard, FreeSurplus, BootTrim, Discard, Goto, jobVars, IInv, TypeOK
  <1>3. Alone(t)
    <2>1. CASE Mark(t)
      BY <2>1 DEF Mark, Goto, Alone, Same, locals, IInv, TypeOK
    <2>2. CASE AllocDiscard(t) \/ FreeDiscard(t) \/ FreeSurplus(t)
      BY <2>2 DEF AllocDiscard, FreeDiscard, FreeSurplus, Discard, Goto, Alone, Same, IInv, TypeOK
    <2>3. CASE t = Main /\ BootTrim
      BY <2>3 DEF BootTrim, Goto, Alone, Same, IInv, TypeOK
    <2> QED  BY <2>1, <2>2, <2>3
  <1>4. ThreadWired(t)' /\ "PENDING_DELETE" \in Pending
    BY <1>2 DEF ThreadWired, Rebinds, Pending
  <1> QED  BY <1>1, <1>2, <1>3, <1>4, StatusWired

\* The selected row, which was ACTIVE, becomes PENDING_UPDATE.
LEMMA AllocTakeWired ==
  ASSUME PoolAssumption, IInv, OInv, Wired, NEW t \in Threads, AllocTake(t)
  PROVE  Wired'
  <1>1. /\ pc[t] = "aTake" /\ pc'[t] = "aUnbind" /\ eid'[t] = eid[t] /\ SetStatus({bak[t]}, "PENDING_UPDATE")
        /\ UNCHANGED <<vnics, deploy>>
    BY DEF AllocTake, Goto, locals, jobVars, IInv, TypeOK
  <1>2. Alone(t)
    BY DEF AllocTake, Goto, Alone, Same, locals, IInv, TypeOK
  <1>3. bak[t] \in Backups /\ bak[t] \in Rids /\ deploy[bak[t]].stage = "none"
    BY <1>1 DEF IInv, Shape, Selected, SelectedQuiet, Rids
  <1>4. binding[bak[t]] = [status |-> "ACTIVE", edge |-> eid[t]]
    BY <1>1 DEF OInv, Holds, RowIs
  <1>5. eid[t] \in vnics
    BY <1>3, <1>4 DEF Wired, RowWired
  <1>6. ThreadWired(t)' /\ "PENDING_UPDATE" \in Pending
    BY <1>1, <1>5 DEF ThreadWired, Rebinds, Pending
  <1> QED  BY <1>1, <1>2, <1>3, <1>6, StatusWired

\* The collected row becomes ACTIVE; its vnic rows have just been written.
LEMMA FreePoolWired ==
  ASSUME PoolAssumption, IInv, OInv, Wired, NEW t \in Threads, FreePool(t)
  PROVE  Wired'
  <1>1. pc[t] = "fPool" /\ SetStatus({bak[t]}, "ACTIVE") /\ Finish(t) /\ UNCHANGED <<vnics, deploy>>
    BY DEF FreePool, jobVars
  <1>2. Alone(t) /\ pc'[t] = "idle"
    BY <1>1, FinishEffect DEF IInv, Alone, Same
  <1>3. bak[t] \in Backups /\ bak[t] \in Rids /\ deploy[bak[t]].stage = "none"
    BY <1>1 DEF IInv, Shape, Collected, CollectedQuiet, Rids
  <1>4. binding[bak[t]] = [status |-> "PENDING_UPDATE", edge |-> eid[t]]
    BY <1>1 DEF OInv, Holds, Renews, RowIs
  <1>5. eid[t] \in vnics
    BY <1>1 DEF Wired, ThreadWired
  <1>6. PICK b \in Backups : b = bak[t]
    BY <1>3
  <1>7. binding'[b].status = "ACTIVE" /\ binding'[b].edge \in vnics'
    BY <1>1, <1>3, <1>4, <1>5, <1>6 DEF SetStatus, Exists
  <1>8. RowWired(b)'
    BY <1>7 DEF RowWired
  <1>9. ThreadWired(t)'
    BY <1>2 DEF ThreadWired, Rebinds
  <1> QED  BY <1>1, <1>2, <1>3, <1>6, <1>8, <1>9, StatusWired

\* complete_edge_update sets the collected row to ERROR; its vnic rows are written next.
LEMMA FreeUpdateWired ==
  ASSUME PoolAssumption, IInv, OInv, Wired, NEW t \in Threads, FreeUpdate(t)
  PROVE  Wired'
  <1>1. CASE pc'[t] = "fActive"
    BY <1>1, ReadingWired
  <1>2. CASE pc'[t] # "fActive"
    <2>1. /\ pc[t] = "fUpdate" /\ pc'[t] = "fError" /\ bak'[t] = bak[t] /\ SetStatus({bak[t]}, "ERROR")
          /\ UNCHANGED <<vnics, deploy>>
      BY <1>2 DEF FreeUpdate, Goto, locals, jobVars, IInv, TypeOK
    <2>2. Alone(t)
      BY DEF FreeUpdate, Goto, Alone, Same, locals, IInv, TypeOK
    <2>3. bak[t] \in Backups /\ bak[t] \in Rids /\ deploy[bak[t]].stage = "none"
      BY <2>1 DEF IInv, Shape, Collected, CollectedQuiet, Rids
    <2>4. binding[bak[t]] = [status |-> "PENDING_UPDATE", edge |-> eid[t]]
      BY <2>1 DEF OInv, Holds, Renews, RowIs
    <2>5. PICK b \in Backups : b = bak[t]
      BY <2>3
    <2>6. binding'[b].status = "ERROR"
      BY <2>1, <2>3, <2>4, <2>5 DEF SetStatus, Exists
    <2>7. RowWired(b)'
      BY <2>1, <2>5, <2>6 DEF RowWired
    <2>8. ThreadWired(t)'
      BY <2>1 DEF ThreadWired, Rebinds
    <2> QED  BY <2>1, <2>2, <2>3, <2>5, <2>7, <2>8, StatusWired
  <1> QED  BY <1>1, <1>2

\* The housekeeper: a row in ERROR that nobody collects has its vnic rows.
LEMMA HkStatusWired ==
  ASSUME PoolAssumption, IInv, OInv, Wired, HkUpdate \/ HkActivate \/ HkMark
  PROVE  Wired'
  <1> Main \in Threads
    BY DEF PoolAssumption
  <1>1. UNCHANGED <<vnics, deploy, pc, locals>> /\ hkPc \in {"update", "activate", "purge"}
    BY DEF HkUpdate, HkActivate, HkMark, jobVars
  <1>2. Alone(Main) /\ Same(Main)
    BY <1>1 DEF Alone, Same, locals
  <1>3. PICK b \in Backups : b = hkCur.rid
    BY <1>1, HkRow
  <1>4. /\ b \in Rids /\ binding[b].status = "ERROR" /\ binding[b].edge \in Edges
        /\ deploy[b].stage = "none" /\ \A u \in Threads : ~OwnsRow(u, b)
    BY <1>1, <1>3, HkRow
  <1>5. binding[b].edge \in vnics
    BY <1>4 DEF Wired, RowWired, OwnsRow
  <1>6. CASE binding' = binding
    <2>1. \A u \in Threads \ {} : Same(u)
      BY <1>1 DEF Same, locals
    <2> QED  BY <1>1, <1>6, <2>1, WiredQuiet
  <1>7. ASSUME NEW status \in {"ACTIVE", "ERROR", "PENDING_DELETE"}, SetStatus({b}, status)
        PROVE  Wired'
    <2>1. binding'[b].edge = binding[b].edge /\ binding'[b].status = status
      BY <1>4, <1>7, SetStatusEffect DEF IInv, TypeOK, Exists, Pending
    <2>2. RowWired(b)' /\ status \in Pending \cup {"ACTIVE", "ERROR"}
      BY <1>1, <1>5, <2>1 DEF RowWired, Pending
    <2> QED  BY <1>1, <1>2, <1>4, <1>7, <2>2, StatusWired
  <1>8. CASE HkUpdate
    BY <1>3, <1>6, <1>7, <1>8 DEF HkUpdate
  <1>9. CASE HkActivate
    BY <1>3, <1>6, <1>7, <1>9 DEF HkActivate
  <1>10. CASE HkMark
    BY <1>3, <1>7, <1>10 DEF HkMark
  <1> QED  BY <1>8, <1>9, <1>10

\* delete_nsxv_router_binding, by a request that then carries the edge.
LEMMA UnbindWired ==
  ASSUME PoolAssumption, IInv, OInv, Wired, NEW t \in Threads, AllocUnbind(t) \/ FreeUnbind(t)
  PROVE  Wired'
  <1>1. UNCHANGED <<vnics, deploy, eid>> /\ pc[t] # "fError" /\ (pc'[t] = "aBind" => pc[t] = "aUnbind") /\
        pc'[t] \in {"aBind", "fAdd"}
    BY DEF AllocUnbind, FreeUnbind, Goto, locals, jobVars, IInv, TypeOK
  <1>2. Alone(t)
    BY DEF AllocUnbind, FreeUnbind, Goto, Alone, Same, locals, IInv, TypeOK
  <1>3. ThreadWired(t)'
    BY <1>1 DEF Wired, ThreadWired, Rebinds
  <1>4. \A rid \in Rids : binding'[rid] = binding[rid] \/ binding'[rid] = NoRow
    BY DEF AllocUnbind, FreeUnbind, DeleteRow, IInv, TypeOK
  <1>5. VnicsStep /\ WiredRows /\ WiredDeploys
    BY <1>1, <1>4 DEF VnicsStep, WiredRows, WiredDeploys, NoRow
  <1>6. RoutersStep({t})
    BY <1>1, <1>4 DEF RoutersStep, Rids
  <1> QED  BY <1>1, <1>2, <1>3, <1>5, <1>6, WiredStep

\* delete_edge and the housekeeper delete the row and the vnic rows of an edge that nobody
\* can come to use.
LEMMA EraseWired ==
  ASSUME PoolAssumption, IInv, OInv, Wired, HkPurge \/ \E d \in deletes : DeleteDb(d)
  PROVE  Wired'
  <1> Main \in Threads
    BY DEF PoolAssumption
  <1>1. PICK x : Sent(x) /\ DeleteRow(x.rid) /\ vnics' = vnics \ {x.edge}
    BY DEF HkPurge, DeleteDb, OInv, HkHolds, Leaving
  <1>2. UNCHANGED <<deploy, pc, locals>>
    BY DEF HkPurge, DeleteDb, jobVars
  <1>3. Alone(Main) /\ Same(Main)
    BY <1>2 DEF Alone, Same, locals
  <1>4. \A rid \in Rids : binding'[rid] = binding[rid] \/ binding'[rid] = NoRow
    BY <1>1 DEF DeleteRow, IInv, TypeOK
  <1>5. WiredRows /\ WiredDeploys
    BY <1>2, <1>4 DEF WiredRows, WiredDeploys, NoRow
  <1>6. VnicsStep
    BY <1>1 DEF VnicsStep, Sent, IInv, TypeOK
  <1>7. RoutersStep({})
    BY <1>2, <1>4 DEF RoutersStep, Rids
  <1> QED  BY <1>3, <1>5, <1>6, <1>7, WiredStep

\* The vnic rows of the collected edge are written.
LEMMA FreeVnicsWired ==
  ASSUME PoolAssumption, IInv, OInv, Wired, NEW t \in Threads, FreeVnics(t)
  PROVE  Wired'
  <1>1. /\ UNCHANGED <<binding, deploy>> /\ vnics' = vnics \cup {eid[t]} /\ pc[t] \in {"fActive", "fError"}
        /\ pc[t] = "fActive" => Goto(t, "fPool") /\ UNCHANGED locals
        /\ pc[t] = "fError" => Finish(t)
    BY DEF FreeVnics, jobVars
  <1>2. Alone(t) /\ (pc'[t] = "idle" \/ (pc'[t] = "fPool" /\ eid'[t] = eid[t]))
    <2>1. CASE pc[t] = "fActive"
      BY <1>1, <2>1 DEF Goto, Alone, Same, locals, IInv, TypeOK
    <2>2. CASE pc[t] = "fError"
      BY <1>1, <2>2, FinishEffect DEF IInv, Alone, Same
    <2> QED  BY <1>1, <2>1, <2>2
  <1>3. ThreadWired(t)' /\ eid[t] \in vnics'
    BY <1>1, <1>2 DEF ThreadWired, Rebinds
  <1>4. VnicsStep /\ WiredRows /\ WiredDeploys /\ RoutersStep({t})
    BY <1>1 DEF VnicsStep, WiredRows, WiredDeploys, RoutersStep
  <1> QED  BY <1>2, <1>3, <1>4, WiredStep

\* The edge that the request carries gets the row of its router, or one of the pool.
LEMMA BindWired ==
  ASSUME PoolAssumption, IInv, OInv, Wired, NEW t \in Threads, AllocBind(t) \/ FreeAdd(t)
  PROVE  Wired'
  <1>1. UNCHANGED <<vnics, deploy, eid, rtr>> /\ pc[t] # "fError"
    BY DEF AllocBind, FreeAdd, Goto, locals, jobVars
  <1>2. Alone(t)
    BY DEF AllocBind, FreeAdd, Goto, Alone, Same, locals, IInv, TypeOK
  <1>3. CASE AllocBind(t)
    <2>1. PICK r \in Routers : r = rtr[t]
      BY <1>3 DEF AllocBind, IInv, Shape
    <2>2. r \in Rids /\ Absent(r) /\ Allocates(t) /\ pc'[t] = "aEdge"
      BY <1>3, <2>1 DEF AllocBind, OInv, Holds, Unbound, Allocates, Goto, IInv, TypeOK, Rids
    <2>3. binding'[r] = [status |-> "PENDING_CREATE", edge |-> eid[t]]
          /\ \A rid \in Rids : rid # r => binding'[rid] = binding[rid]
      BY <1>3, <2>1, <2>2 DEF AllocBind, AddRow, IInv, TypeOK
    <2>4. eid[t] \in vnics
      BY <1>3 DEF AllocBind, Wired, ThreadWired
    <2>5. ThreadWired(t)'
      BY <1>1, <2>1, <2>2, <2>3, <2>4 DEF ThreadWired, Rebinds, RowIs, Absent
    <2>6. VnicsStep
      BY <1>1 DEF VnicsStep
    <2>7. WiredRows
      BY <2>3 DEF WiredRows, Pending
    <2>8. WiredDeploys
      BY <1>1, <2>2, <2>3 DEF WiredDeploys, Absent
    <2>9. RoutersStep({t})
      BY <1>1, <2>1, <2>2, <2>3 DEF RoutersStep, Rids
    <2> QED  BY <1>1, <1>2, <2>5, <2>6, <2>7, <2>8, <2>9, WiredStep
  <1>4. CASE FreeAdd(t)
    <2>1. PICK b \in FreshBackups : AddRow(b, eid[t], "PENDING_UPDATE")
      BY <1>4 DEF FreeAdd
    <2>2. b \in Backups /\ b \in Rids /\ deploy[b].stage = "none"
      BY FreshRow DEF FreshBackups, IInv, Rids
    <2>3. binding'[b].status = "PENDING_UPDATE" /\ \A rid \in Rids : rid # b => binding'[rid] = binding[rid]
      BY <2>1, <2>2 DEF AddRow, IInv, TypeOK
    <2>4. ThreadWired(t)'
      BY <1>4 DEF FreeAdd, Goto, IInv, TypeOK, ThreadWired, Rebinds
    <2>5. VnicsStep /\ WiredRows /\ WiredDeploys
      BY <1>1, <2>2, <2>3 DEF VnicsStep, WiredRows, WiredDeploys, Pending
    <2>6. RoutersStep({t})
      BY <1>1, <2>2, <2>3 DEF RoutersStep, Rids, PoolAssumption
    <2> QED  BY <1>1, <1>2, <2>4, <2>5, <2>6, WiredStep
  <1> QED  BY <1>3, <1>4

\* complete_edge_creation by the request itself.
LEMMA AllocDoneWired ==
  ASSUME PoolAssumption, IInv, OInv, Wired, NEW t \in Threads, AllocDone(t)
  PROVE  Wired'
  <1>1. pc[t] = "aDone" /\ Exists(rtr[t]) /\ UNCHANGED <<vnics, deploy>>
    BY DEF AllocDone, jobVars
  <1>2. pc'[t] \in {"idle", "aCount"} /\ Alone(t)
    <2>1. CASE Finish(t)
      BY <2>1, FinishEffect DEF IInv, Alone, Same
    <2>2. CASE ~Finish(t)
      BY <2>2 DEF AllocDone, Goto, Alone, Same, locals, IInv, TypeOK
    <2> QED  BY <2>1, <2>2
  <1>3. ThreadWired(t)'
    BY <1>2 DEF ThreadWired, Rebinds
  <1>4. PICK r \in Routers : r = rtr[t]
    BY <1>1 DEF IInv, Shape
  <1>5. /\ r \in Rids /\ Allocates(t) /\ deploy[r].stage = "none"
        /\ binding[r] = [status |-> "PENDING_CREATE", edge |-> eid[t]] /\ eid[t] \in vnics
    BY <1>1, <1>4 DEF Wired, ThreadWired, Rebinds, RowIs, Allocates, Rids
  <1>6. binding' = binding \/ SetStatus({r}, "ACTIVE")
    BY <1>4 DEF AllocDone
  <1>7. \A rid \in Rids : rid # r => binding'[rid] = binding[rid]
    BY <1>6 DEF SetStatus
  <1>8. binding'[r] = binding[r] \/ RowWired(r)'
    <2>1. ASSUME SetStatus({r}, "ACTIVE") PROVE binding'[r].status = "ACTIVE" /\ binding'[r].edge \in vnics'
      BY <1>1, <1>5, <2>1 DEF SetStatus, Exists
    <2> QED  BY <1>6, <2>1 DEF RowWired
  <1>9. VnicsStep /\ WiredRows
    BY <1>1, <1>7, <1>8 DEF VnicsStep, WiredRows
  <1>10. WiredDeploys /\ RoutersStep({t})
    <2>1. WiredDeploys
      BY <1>1, <1>5, <1>7 DEF WiredDeploys
    <2>2. RoutersStep({t})
      BY <1>1, <1>4, <1>5, <1>7 DEF RoutersStep, Rids
    <2> QED  BY <2>1, <2>2
  <1> QED  BY <1>1, <1>2, <1>3, <1>9, <1>10, WiredStep

\* The row of a router is added and its deployment begins, or the deployment has ended.
LEMMA AllocAddWired ==
  ASSUME PoolAssumption, IInv, OInv, Wired, NEW t \in Threads, AllocAdd(t)
  PROVE  Wired'
  <1>1. PICK r \in Routers : r = rtr[t]
    BY DEF AllocAdd, IInv, Shape
  <1>2. r \in Rids /\ Allocates(t) /\ pc[t] = "aAdd" /\ pc'[t] = "aDeploy" /\ UNCHANGED vnics
    BY <1>1 DEF AllocAdd, Allocates, Unbound, Goto, IInv, TypeOK, Rids
  <1>3. Alone(t)
    BY DEF AllocAdd, Goto, Alone, Same, locals, IInv, TypeOK
  <1>4. /\ binding'[r].status = "PENDING_CREATE" /\ deploy'[r].stage = "backend"
        /\ \A rid \in Rids : rid # r => binding'[rid] = binding[rid] /\ deploy'[rid] = deploy[rid]
    BY <1>1, <1>2 DEF AllocAdd, AddRow, Stage, IInv, TypeOK
  <1>5. ThreadWired(t)'
    BY <1>2 DEF ThreadWired, Rebinds
  <1>6. VnicsStep /\ WiredRows
    BY <1>2, <1>4 DEF VnicsStep, WiredRows, Pending
  <1>7. DeployWired(r)'
    BY <1>4 DEF DeployWired
  <1>8. WiredDeploys
    BY <1>4, <1>7 DEF WiredDeploys
  <1>9. RoutersStep({t})
    BY <1>1, <1>2, <1>4 DEF RoutersStep, Rids
  <1> QED  BY <1>2, <1>3, <1>5, <1>6, <1>8, <1>9, WiredStep

\* The request reads the result of its deployment.
LEMMA AllocDeployedWired ==
  ASSUME PoolAssumption, IInv, OInv, Wired, NEW t \in Threads, AllocDeployed(t)
  PROVE  Wired'
  <1>1. PICK r \in Routers : r = rtr[t]
    BY DEF AllocDeployed, IInv, Shape
  <1>2. r \in Rids /\ Allocates(t) /\ pc[t] = "aDeploy" /\ UNCHANGED <<binding, vnics>>
    BY <1>1 DEF AllocDeployed, Allocates, dbVars, Rids
  <1>3. pc'[t] \in {"idle", "aCount"} /\ Alone(t)
    <2>1. CASE Finish(t)
      BY <2>1, FinishEffect DEF IInv, Alone, Same
    <2>2. CASE ~Finish(t)
      BY <2>2 DEF AllocDeployed, Goto, Alone, Same, locals, IInv, TypeOK
    <2> QED  BY <2>1, <2>2
  <1>4. deploy'[r].stage = "none" /\ \A rid \in Rids : rid # r => deploy'[rid] = deploy[rid]
    BY <1>1, <1>2 DEF AllocDeployed, NoDeploy, IInv, TypeOK
  <1>5. ThreadWired(t)'
    BY <1>3 DEF ThreadWired, Rebinds
  <1>6. VnicsStep /\ WiredRows /\ WiredDeploys
    BY <1>2, <1>4 DEF VnicsStep, WiredRows, WiredDeploys
  <1>7. RoutersStep({t})
    BY <1>1, <1>2, <1>4 DEF RoutersStep, Rids
  <1> QED  BY <1>2, <1>3, <1>5, <1>6, <1>7, WiredStep

\* Rows are added to the pool and their deployments queued.
LEMMA FillWired ==
  ASSUME PoolAssumption, IInv, OInv, Wired, BootFill \/ \E t \in Threads : AllocRefill(t)
  PROVE  Wired'
  <1>1. PICK t \in Threads : Finish(t) /\ pc[t] \in {"aRefill", "bCount"}
    BY DEF BootFill, AllocRefill, PoolAssumption
  <1>2. PICK new \in SUBSET FreshBackups : AddBackups(new)
    BY DEF BootFill, AllocRefill
  <1>3. UNCHANGED vnics
    BY DEF BootFill, AllocRefill
  <1>4. Alone(t) /\ pc'[t] = "idle"
    BY <1>1, FinishEffect DEF IInv, Alone, Same
  <1>5. \A b \in new : b \in Backups /\ b \in Rids /\ b \notin Routers
    BY DEF FreshBackups, Rids, PoolAssumption
  <1>6. /\ \A rid \in new : binding'[rid].status = "PENDING_CREATE" /\ deploy'[rid].stage = "queued"
        /\ \A rid \in Rids \ new : binding'[rid] = binding[rid] /\ deploy'[rid] = deploy[rid]
    BY <1>2, <1>5 DEF AddBackups
  <1>7. VnicsStep /\ WiredRows
    <2>1. ASSUME NEW rid \in Rids
          PROVE  binding'[rid] = binding[rid] \/ binding'[rid].status \in Pending \cup {"NONE"}
      BY <1>6 DEF Pending
    <2> QED  BY <1>3, <2>1 DEF VnicsStep, WiredRows
  <1>8. WiredDeploys
    <2>1. ASSUME NEW rid \in new PROVE DeployWired(rid)'
      BY <1>6 DEF DeployWired
    <2> QED  BY <1>6, <2>1 DEF WiredDeploys
  <1>9. RoutersStep({t})
    BY <1>5, <1>6 DEF RoutersStep, Rids
  <1>10. ThreadWired(t)'
    BY <1>4 DEF ThreadWired, Rebinds
  <1> QED  BY <1>1, <1>4, <1>7, <1>8, <1>9, <1>10, WiredStep

-----------------------------------------------------------------------------
(* ActiveIsUsable: the deployments.                                        *)

\* A deployment moves on, and its row with it.
LEMMA DeployMovesWired ==
  ASSUME PoolAssumption, IInv, OInv, Wired, VnicsStep, UNCHANGED <<pc, locals>>,
         NEW rid \in Rids, deploy[rid].stage # "none",
         \A r \in Rids : r # rid => binding'[r] = binding[r] /\ deploy'[r] = deploy[r],
         RowWired(rid)', DeployWired(rid)'
  PROVE  Wired'
  <1> Main \in Threads
    BY DEF PoolAssumption
  <1>1. Alone(Main) /\ Same(Main)
    BY DEF Alone, Same, locals
  <1>2. WiredRows /\ WiredDeploys
    BY DEF WiredRows, WiredDeploys
  <1>3. RoutersStep({})
    BY DEF RoutersStep, Rids
  <1> QED  BY <1>1, <1>2, <1>3, WiredStep

\* A deployment waits for its edge.
LEMMA DeployStartWired ==
  ASSUME PoolAssumption, IInv, OInv, Wired, NEW rid \in Backups, DeployStart(rid)
  PROVE  Wired'
  <1>1. /\ rid \in Rids /\ deploy[rid].stage = "queued" /\ deploy'[rid].stage = "backend"
        /\ UNCHANGED <<binding, vnics, pc, locals>> /\ \A r \in Rids : r # rid => deploy'[r] = deploy[r]
    BY DEF DeployStart, Stage, IInv, TypeOK, dbVars, Rids
  <1>2. RowWired(rid) /\ DeployWired(rid)
    BY <1>1 DEF Wired
  <1>3. RowWired(rid)' /\ DeployWired(rid)'
    <2>1. RowWired(rid)'
      BY <1>1, <1>2 DEF RowWired, locals
    <2>2. DeployWired(rid)'
      BY <1>1, <1>2 DEF DeployWired, Exists
    <2> QED  BY <2>1, <2>2
  <1>4. VnicsStep
    BY <1>1 DEF VnicsStep
  <1> QED  BY <1>1, <1>3, <1>4, DeployMovesWired

\* The backend answers with an edge that the row does not name yet.
LEMMA DeployBackendWired ==
  ASSUME PoolAssumption, IInv, OInv, Wired, NEW rid \in Rids, DeployBackend(rid)
  PROVE  Wired'
  <1>1. /\ deploy[rid].stage = "backend" /\ UNCHANGED <<binding, vnics, pc, locals>>
        /\ \A r \in Rids : r # rid => deploy'[r] = deploy[r]
        /\ deploy'[rid].stage = "record" \/ (deploy'[rid].stage = "undo" /\ deploy'[rid].edge = NoEdge)
    BY DEF DeployBackend, Stage, IInv, TypeOK, dbVars
  <1>2. RowWired(rid) /\ DeployWired(rid) /\ binding[rid].edge = NoEdge
    BY <1>1 DEF Wired, OInv, RowsOrderly, Deploying
  <1>3. RowWired(rid)'
    BY <1>1, <1>2 DEF RowWired, locals
  <1>4. DeployWired(rid)'
    BY <1>1, <1>2 DEF DeployWired, Exists
  <1>5. VnicsStep
    BY <1>1 DEF VnicsStep
  <1> QED  BY <1>1, <1>3, <1>4, <1>5, DeployMovesWired

\* The row learns its edge.
LEMMA DeployRecordWired ==
  ASSUME PoolAssumption, IInv, OInv, Wired, NEW rid \in Rids, DeployRecord(rid)
  PROVE  Wired'
  <1>1. deploy[rid].stage = "record" /\ UNCHANGED <<vnics, pc, locals>>
    BY DEF DeployRecord
  <1>2. RowWired(rid) /\ DeployWired(rid)
    BY DEF Wired
  <1>3. VnicsStep
    BY <1>1 DEF VnicsStep
  <1>4. CASE Exists(rid)
    <2>1. /\ deploy'[rid].stage = "vnics" /\ deploy'[rid].edge = binding'[rid].edge
          /\ binding'[rid].status = binding[rid].status
          /\ \A r \in Rids : r # rid => binding'[r] = binding[r] /\ deploy'[r] = deploy[r]
      BY <1>4 DEF DeployRecord, Stage, IInv, TypeOK, Row
    <2>2. binding'[rid].status = "PENDING_CREATE"
      BY <1>1, <1>2, <1>4, <2>1 DEF DeployWired
    <2>3. RowWired(rid)' /\ DeployWired(rid)'
      BY <2>1, <2>2 DEF RowWired, DeployWired
    <2> QED  BY <1>1, <1>3, <2>1, <2>3, DeployMovesWired
  <1>5. CASE ~Exists(rid)
    <2>1. /\ binding' = binding /\ deploy'[rid].stage \in {"none", "raised"}
          /\ \A r \in Rids : r # rid => deploy'[r] = deploy[r]
      BY <1>5, EndDeployEffect DEF DeployRecord, IInv, TypeOK
    <2>2. RowWired(rid)' /\ DeployWired(rid)'
      BY <1>5, <2>1 DEF RowWired, DeployWired, Exists
    <2> QED  BY <1>1, <1>3, <2>1, <2>2, DeployMovesWired
  <1> QED  BY <1>4, <1>5

\* The vnic rows are written, or were there.
LEMMA DeployVnicsWired ==
  ASSUME PoolAssumption, IInv, OInv, Wired, NEW rid \in Rids, DeployVnics(rid) \/ DeployGroups(rid)
  PROVE  Wired'
  <1>1. RowWired(rid) /\ DeployWired(rid)
    BY DEF Wired
  <1>2. DeployVnics(rid) /\ deploy[rid].stage = "vnics" /\ UNCHANGED <<binding, pc, locals>>
    BY <1>1 DEF DeployWired, DeployGroups, DeployVnics
  <1>3. /\ \A r \in Rids : r # rid => deploy'[r] = deploy[r]
        /\ \/ deploy'[rid].stage \in {"none", "raised"} /\ vnics' = vnics
           \/ /\ deploy'[rid].stage = "done" /\ deploy'[rid].edge = deploy[rid].edge
              /\ vnics' = vnics \cup {deploy[rid].edge}
    BY <1>2, EndDeployEffect DEF DeployVnics, Stage, IInv, TypeOK
  <1>4. VnicsStep
    BY <1>3 DEF VnicsStep
  <1>5. RowWired(rid)'
    BY <1>1, <1>2, <1>3 DEF RowWired, locals
  <1>6. DeployWired(rid)'
    BY <1>1, <1>2, <1>3 DEF DeployWired, Exists
  <1> QED  BY <1>2, <1>3, <1>4, <1>5, <1>6, DeployMovesWired

\* The row becomes ACTIVE, with its vnic rows.
LEMMA DeployDoneWired ==
  ASSUME PoolAssumption, ~HostGroups, IInv, OInv, Wired, NEW rid \in Rids, DeployDone(rid)
  PROVE  Wired'
  <1>1. deploy[rid].stage = "done" /\ UNCHANGED <<vnics, pc, locals>>
    BY DEF DeployDone
  <1>2. RowWired(rid) /\ DeployWired(rid)
    BY DEF Wired
  <1>3. VnicsStep
    BY <1>1 DEF VnicsStep
  <1>4. CASE Exists(rid) /\ SetStatus({rid}, "ACTIVE") /\ EndDeploy(rid, "ok")
    <2>1. /\ deploy'[rid].stage \in {"none", "ok"} /\ \A r \in Rids : r # rid => deploy'[r] = deploy[r]
      BY <1>4, EndDeployEffect DEF IInv, TypeOK
    <2>2. /\ binding'[rid].status = "ACTIVE" /\ binding'[rid].edge = binding[rid].edge
          /\ \A r \in Rids : r # rid => binding'[r] = binding[r]
      BY <1>4 DEF SetStatus, Exists, IInv, TypeOK, Row
    <2>3. RowWired(rid)' /\ DeployWired(rid)'
      BY <1>1, <1>2, <1>4, <2>1, <2>2 DEF RowWired, DeployWired
    <2> QED  BY <1>1, <1>3, <2>1, <2>2, <2>3, DeployMovesWired
  <1>5. CASE ~Exists(rid) /\ EndDeploy(rid, "raised") /\ UNCHANGED binding
    <2>1. /\ deploy'[rid].stage \in {"none", "raised"} /\ \A r \in Rids : r # rid => deploy'[r] = deploy[r]
      BY <1>5, EndDeployEffect DEF IInv, TypeOK
    <2>2. RowWired(rid)' /\ DeployWired(rid)'
      BY <1>5, <2>1 DEF RowWired, DeployWired, Exists
    <2> QED  BY <1>1, <1>3, <1>5, <2>1, <2>2, DeployMovesWired
  <1>6. CASE rid \in Routers /\ Stage(rid, "undo", deploy[rid].edge) /\ UNCHANGED binding
    <2>1. /\ deploy'[rid].stage = "undo" /\ deploy'[rid].edge = deploy[rid].edge
          /\ \A r \in Rids : r # rid => deploy'[r] = deploy[r]
      BY <1>6 DEF Stage, IInv, TypeOK
    <2>2. RowWired(rid)'
      BY <1>1, <1>2, <1>6 DEF RowWired, locals
    <2>3. DeployWired(rid)'
      BY <1>1, <1>2, <1>6, <2>1 DEF DeployWired, Exists, PoolAssumption
    <2> QED  BY <1>1, <1>3, <1>6, <2>1, <2>2, <2>3, DeployMovesWired
  <1> QED  BY <1>4, <1>5, <1>6 DEF DeployDone

\* The row goes to ERROR and its vnic rows go: a row of the pool has no edge then.
LEMMA DeployUndoWired ==
  ASSUME PoolAssumption, IInv, OInv, Wired, NEW rid \in Rids, DeployUndo(rid)
  PROVE  Wired'
  <1>1. deploy[rid].stage = "undo" /\ UNCHANGED <<pc, locals>>
    BY DEF DeployUndo
  <1>2. /\ deploy'[rid].stage \in {"none", "raised"} /\ \A r \in Rids : r # rid => deploy'[r] = deploy[r]
    BY EndDeployEffect DEF DeployUndo, IInv, TypeOK
  <1>3. /\ \A r \in Rids : r # rid => binding'[r] = binding[r]
        /\ binding'[rid].edge = binding[rid].edge
        /\ binding'[rid].status = IF Exists(rid) THEN "ERROR" ELSE "NONE"
    BY DEF DeployUndo, SetStatus, Exists, IInv, TypeOK, Row
  <1>4. RowWired(rid) /\ DeployWired(rid)
    BY DEF Wired
  <1>5. VnicsStep
    <2>1. SUFFICES ASSUME NEW e \in vnics \ vnics'
                   PROVE  \E r \in Routers : deploy[r].stage = "undo" /\ binding[r].edge = e
                                             /\ binding[r].status = "PENDING_CREATE"
      BY DEF VnicsStep
    <2>2. Exists(rid) /\ e = deploy[rid].edge /\ e # NoEdge
      BY <2>1 DEF DeployUndo, IInv, TypeOK, PoolAssumption
    <2>3. rid \in Routers /\ binding[rid].edge = e /\ binding[rid].status = "PENDING_CREATE"
      BY <1>1, <1>4, <2>2 DEF DeployWired, Rids
    <2> QED  BY <1>1, <2>3
  <1>6. RowWired(rid)'
    <2>1. rid \in Backups /\ Exists(rid) => binding[rid].edge = NoEdge
      BY <1>1, <1>4 DEF DeployWired
    <2> QED  BY <1>3, <2>1 DEF RowWired, PoolAssumption
  <1>7. DeployWired(rid)'
    BY <1>2 DEF DeployWired
  <1> QED  BY <1>1, <1>2, <1>3, <1>5, <1>6, <1>7, DeployMovesWired

\* Every step keeps what is wired usable, as long as the server does not restart.
LEMMA NextWired ==
  ASSUME PoolAssumption, ~HostGroups, ~MayExpire, ~MayCrash, IInv, OInv, Wired, Next
  PROVE  Wired'
  <1>1. CASE Boot
    BY <1>1, ReadingWired, FillWired, MarkWired DEF Boot, PoolAssumption
  <1>2. ASSUME NEW t \in Threads, Thread(t) PROVE Wired'
    <2>1. CASE Cleaning(t)
      BY <2>1, MarkWired, ReadingWired DEF Cleaning
    <2>2. CASE Allocating(t)
      BY <2>2, ReadingWired, MarkWired, AllocTakeWired, UnbindWired, BindWired, AllocEdgeWired,
         AllocDoneWired,
         AllocAddWired, AllocDeployedWired, FillWired DEF Allocating
    <2>3. CASE Collecting(t)
      BY <2>3, ReadingWired, MarkWired, UnbindWired, BindWired, FreeUpdateWired, FreeVnicsWired,
         FreePoolWired
         DEF Collecting
    <2> QED  BY <1>2, <2>1, <2>2, <2>3 DEF Thread
  <1>3. ASSUME NEW t \in Threads, NEW r \in Routers, StartAlloc(t, r) \/ StartFree(t, r) PROVE Wired'
    BY <1>3, ReadingWired
  <1>4. CASE Worker
    <2>1. ASSUME NEW rid \in Rids, DeployStep(rid) PROVE Wired'
      BY <2>1, DeployBackendWired, DeployRecordWired, DeployVnicsWired, DeployDoneWired, DeployUndoWired
         DEF DeployStep
    <2>2. ASSUME NEW d \in deletes, DeleteDb(d) \/ DeleteBackend(d) PROVE Wired'
      BY <2>2, EraseWired, IdleWired
    <2> QED  BY <1>4, <2>1, <2>2, DeployStartWired DEF Worker
  <1>5. CASE Housekeeper
    BY <1>5, IdleWired, HkStatusWired, EraseWired DEF Housekeeper
  <1>6. CASE Environment
    BY <1>6 DEF Environment, Expire, Crash
  <1> QED  BY <1>1, <1>2, <1>3, <1>4, <1>5, <1>6 DEF Next

\* ActiveIsUsable: as long as the server does not restart, a row that is ACTIVE has its
\* appliance and its vnic rows, whether a deployment (complete_edge_creation), an allocation,
\* a collection (update_edge) or the job error_backup_edge made it ACTIVE.
THEOREM ActiveRowsUsable == ASSUME ~HostGroups, ~MayExpire, ~MayCrash PROVE Spec => []ActiveIsUsable
  <1>1. Init => Wired
    <2>1. ASSUME Init, NEW rid \in Rids PROVE RowWired(rid) /\ DeployWired(rid)
      BY <2>1 DEF Init, NoRow, NoDeploy, RowWired, DeployWired
    <2>2. ASSUME Init, NEW t \in Threads PROVE ThreadWired(t)
      BY <2>2 DEF Init, ThreadWired, Rebinds
    <2> QED  BY <2>1, <2>2 DEF Wired
  <1>2. IInv /\ OInv /\ Wired /\ [Next]_vars => Wired'
    <2>1. ASSUME IInv, OInv, Wired, UNCHANGED vars PROVE Wired'
      <3>1. UNCHANGED <<binding, vnics, deploy, pc, locals>>
        BY <2>1 DEF vars, dbVars, jobVars
      <3>2. \A u \in Threads \ {} : Same(u)
        BY <3>1 DEF Same, locals
      <3> QED  BY <2>1, <3>1, <3>2, PoolAssumption, WiredQuiet
    <2> QED  BY <2>1, PoolAssumption, NextWired
  <1>3. IInv /\ OInv /\ Wired => ActiveIsUsable
    <2>1. SUFFICES ASSUME IInv, OInv, Wired, NEW rid \in Rids, binding[rid].status = "ACTIVE"
                   PROVE  binding[rid].edge \in vnics /\ binding[rid].edge \in backend
      BY DEF ActiveIsUsable
    <2>2. binding[rid].edge \in vnics
      BY <2>1 DEF Wired, RowWired
    <2>3. binding[rid].edge \in Edges
      BY <2>1, <2>2 DEF IInv, TypeOK
    <2> QED  BY <2>1, <2>2, <2>3 DEF OInv, Backed
  <1> QED  BY <1>1, <1>2, <1>3, OwnerInvariant, PTL DEF Spec

-----------------------------------------------------------------------------
(* NoLeakedEdge: the frame.                                                *)

\* Whoever knew of an edge at the backend has it remembered.
RowsRemembered == \A e \in backend', rid \in Rids : binding[rid].edge = e => Owned(e)'
DeploysRemembered == \A e \in backend', rid \in Rids : deploy[rid].edge = e => Owned(e)'
CarriedRemembered(t) == \A e \in backend' : eid[t] = e /\ pc[t] \in {"aBind", "fAdd"} => Owned(e)'
DeletesRemembered == \A d \in deletes : d.edge \in backend' => \E x \in deletes' : x.edge = d.edge
HkRemembered == hkPc = "destroy" => UNCHANGED <<hkPc, hkCur>> \/ hkCur.edge \notin backend'
Remembered(t) == /\ RowsRemembered /\ DeploysRemembered /\ DeletesRemembered /\ HkRemembered
                 /\ CarriedRemembered(t) \/ Same(t)
                 /\ \A e \in backend' \ backend : Owned(e)'
\* What a step may do to deployments and to the rows of routers.
KeptDeploys == \A rid \in Rids : \/ DeployKept(rid)'
                                 \/ /\ deploy'[rid] = deploy[rid] /\ binding'[rid].edge = binding[rid].edge
                                    /\ Exists(rid) => Exists(rid)'
KeptRouters(t) == \A r \in Routers :
  /\ deploy[r].stage = "none" => \/ deploy'[r].stage = "none" /\ binding'[r].edge = binding[r].edge
                                 \/ ~Same(t) /\ rtr[t] = r
  /\ deploy'[r].stage # "none" => \/ deploy[r].stage # "none" /\ (pc[t] = "aDeploy" /\ rtr[t] = r => Same(t))
                                  \/ pc'[t] = "aDeploy" /\ rtr'[t] = r

\* An edge that everybody who knew of it remembers is not leaked.
LEMMA RememberedStep ==
  ASSUME NoLeakedEdge, NEW t \in Threads, Alone(t), Remembered(t)
  PROVE  NoLeakedEdge'
  <1>1. SUFFICES ASSUME NEW e \in backend', e \in backend PROVE Owned(e)'
    BY DEF NoLeakedEdge, Remembered
  <1>2. Owned(e)
    BY <1>1 DEF NoLeakedEdge
  <1>3. CASE \E rid \in Rids : binding[rid].edge = e \/ deploy[rid].edge = e
    BY <1>3 DEF Remembered, RowsRemembered, DeploysRemembered
  <1>4. ASSUME NEW u \in Threads, eid[u] = e, pc[u] \in {"aBind", "fAdd"} PROVE Owned(e)'
    <2>1. CASE Same(u)
      BY <1>4, <2>1 DEF Same, Owned
    <2>2. CASE u = t /\ CarriedRemembered(t)
      BY <1>4, <2>2 DEF CarriedRemembered
    <2> QED  BY <2>1, <2>2 DEF Alone, Remembered
  <1>5. CASE \E d \in deletes : d.edge = e
    BY <1>5 DEF Remembered, DeletesRemembered, Owned
  <1>6. CASE hkPc = "destroy" /\ hkCur.edge = e
    BY <1>6 DEF Remembered, HkRemembered, Owned
  <1> QED  BY <1>2, <1>3, <1>4, <1>5, <1>6 DEF Owned

\* The frame: the rest of the invariant.
LEMMA KeptFrame ==
  ASSUME PoolAssumption, IInv, OInv, TypeOK', Kept, NEW t \in Threads, Alone(t), Remembered(t), KeptDeploys,
         KeptRouters(t), Same(t) \/ ThreadKept(t)',
         \/ rtr'[t] \in {rtr[t], NoRid}
         \/ \A u \in Threads \ {t} : rtr[u] # rtr'[t]
  PROVE  Kept'
  <1>1. NoLeakedEdge'
    BY RememberedStep DEF Kept
  <1>2. OneRequest'
    <2>1. NoRid \notin Routers
      BY DEF PoolAssumption, Rids
    <2> QED  BY <2>1 DEF Kept, OneRequest, Alone, Same
  <1>3. Deploys'
    <2>1. ASSUME NEW r \in Routers, deploy'[r].stage # "none"
          PROVE  \E u \in Threads : pc'[u] = "aDeploy" /\ rtr'[u] = r
      <3>1. CASE pc'[t] = "aDeploy" /\ rtr'[t] = r
        BY <3>1
      <3>2. CASE deploy[r].stage # "none" /\ (pc[t] = "aDeploy" /\ rtr[t] = r => Same(t))
        <4>1. PICK u \in Threads : pc[u] = "aDeploy" /\ rtr[u] = r
          BY <3>2 DEF Kept, Deploys
        <4> QED  BY <3>2, <4>1 DEF Alone, Same
      <3> QED  BY <2>1, <3>1, <3>2 DEF KeptRouters
    <2> QED  BY <2>1 DEF Deploys
  <1>4. ASSUME NEW rid \in Rids PROVE DeployKept(rid)'
    BY DEF Kept, KeptDeploys, DeployKept
  <1>5. ASSUME NEW u \in Threads PROVE ThreadKept(u)'
    <2>1. CASE Same(u)
      <3>1. ThreadKept(u)
        BY DEF Kept
      <3>2. ASSUME pc[u] \in {"fLock", "fUnbind"}
            PROVE  deploy'[rtr[u]].stage = "none" /\ binding'[rtr[u]].edge = binding[rtr[u]].edge
        <4>1. PICK r \in Routers : r = rtr[u]
          BY <3>2 DEF IInv, Shape
        <4>2. u # t => rtr[t] # r
          BY <4>1 DEF Kept, OneRequest
        <4> QED  BY <2>1, <3>1, <3>2, <4>1, <4>2 DEF ThreadKept, KeptRouters
      <3> QED  BY <2>1, <3>1, <3>2 DEF ThreadKept, Same
    <2>2. CASE u = t /\ ThreadKept(t)'
      BY <2>2
    <2> QED  BY <2>1, <2>2 DEF Alone
  <1> QED  BY <1>1, <1>2, <1>3, <1>4, <1>5 DEF Kept

\* Rows and deployments that keep their edges are remembered.
LEMMA NamesKept ==
  ASSUME \A rid \in Rids : binding'[rid].edge = binding[rid].edge /\ deploy'[rid].edge = deploy[rid].edge
  PROVE  RowsRemembered /\ DeploysRemembered
  BY DEF RowsRemembered, DeploysRemembered, Owned

\* A step that leaves the edges of all rows and the deployments alone.
LEMMA KeptQuiet ==
  ASSUME PoolAssumption, IInv, OInv, TypeOK', Kept, NEW t \in Threads, Alone(t),
         \A rid \in Rids : binding'[rid].edge = binding[rid].edge /\ (Exists(rid) => Exists(rid)'),
         UNCHANGED deploy, backend' \subseteq backend, DeletesRemembered, HkRemembered,
         \/ Same(t)
         \/ /\ pc[t] \notin {"aBind", "fAdd", "aDeploy"} /\ ThreadKept(t)'
            /\ rtr'[t] \in {rtr[t], NoRid} \/ \A u \in Threads \ {t} : rtr[u] # rtr'[t]
  PROVE  Kept'
  <1>1. RowsRemembered /\ DeploysRemembered
    BY NamesKept
  <1>2. CarriedRemembered(t) \/ Same(t)
    BY DEF CarriedRemembered
  <1>3. Remembered(t)
    BY <1>1, <1>2 DEF Remembered
  <1>4. KeptDeploys
    BY DEF KeptDeploys
  <1>5. KeptRouters(t)
    BY DEF KeptRouters, Rids
  <1>6. rtr'[t] \in {rtr[t], NoRid} \/ \A u \in Threads \ {t} : rtr[u] # rtr'[t]
    BY DEF Same
  <1> QED  BY <1>3, <1>4, <1>5, <1>6, KeptFrame

-----------------------------------------------------------------------------
(* NoLeakedEdge: the steps.                                                *)

\* A request that goes on and changes no row, deployment or edge.
LEMMA KeptRead ==
  ASSUME PoolAssumption, IInv, OInv, TypeOK', Kept, NEW t \in Threads, Alone(t),
         UNCHANGED <<binding, deploy, backend, hkPc, hkCur>>, deletes \subseteq deletes',
         pc[t] \notin {"aBind", "fAdd", "aDeploy"}, ThreadKept(t)',
         rtr'[t] \in {rtr[t], NoRid} \/ \A u \in Threads \ {t} : rtr[u] # rtr'[t]
  PROVE  Kept'
  <1>1. \A rid \in Rids : binding'[rid].edge = binding[rid].edge /\ (Exists(rid) => Exists(rid)')
    BY DEF Exists
  <1>2. DeletesRemembered /\ HkRemembered
    BY DEF DeletesRemembered, HkRemembered
  <1> QED  BY <1>1, <1>2, KeptQuiet

\* update_nsxv_router_binding changes the status of rows and no edge_id.
LEMMA StatusKeepsEdges ==
  ASSUME IInv,
         \/ binding' = binding
         \/ \E rids, status : status \in Pending \cup {"ACTIVE", "ERROR"} /\ SetStatus(rids, status)
  PROVE  \A rid \in Rids : binding'[rid].edge = binding[rid].edge /\ (Exists(rid) => Exists(rid)')
  <1>1. CASE binding' = binding
    BY <1>1 DEF Exists
  <1>2. CASE binding' # binding
    <2>1. PICK rids, status : status \in Pending \cup {"ACTIVE", "ERROR"} /\ SetStatus(rids, status)
      BY <1>2
    <2>2. ASSUME NEW rid \in Rids PROVE binding'[rid].edge = binding[rid].edge /\ (Exists(rid) => Exists(rid)')
      BY <2>1, SetStatusEffect DEF IInv, TypeOK, Exists, Pending
    <2> QED  BY <2>2
  <1> QED  BY <1>1, <1>2

\* The steps of requests between their transactions, and those that only read.
LEMMA ReadingKept ==
  ASSUME PoolAssumption, IInv, OInv, TypeOK', Kept, NEW t \in Threads,
         \/ AllocLock(t) \/ AllocList(t) \/ AllocPick(t) \/ AllocNone(t) \/ AllocCount(t) \/ AllocLost(t)
         \/ AllocEdge(t) \/ SpawnDelete(t) \/ SpawnEnd(t) \/ SpawnReturn(t) \/ FreeClean(t) \/ FreeCollect(t)
         \/ FreeVnics(t) \/ (t = Main /\ BootClean)
  PROVE  Kept'
  <1>1. UNCHANGED <<binding, deploy, backend, hkPc, hkCur>> /\ deletes \subseteq deletes'
    BY DEF AllocLock, AllocList, AllocPick, AllocNone, AllocCount, AllocLost, AllocEdge, SpawnDelete,
       Spawn, SpawnEnd,
       SpawnReturn, FreeClean, FreeCollect, FreeVnics, BootClean, dbVars, jobVars, hkVars
  <1>2. pc[t] \notin {"aBind", "fAdd", "aDeploy"}
    BY DEF AllocLock, AllocList, AllocPick, AllocNone, AllocCount, AllocLost, AllocEdge, SpawnDelete,
       SpawnEnd,
       SpawnReturn, FreeClean, FreeCollect, FreeVnics, BootClean
  <1>3. Alone(t) /\ pc'[t] \notin {"fLock", "fUnbind"} /\ rtr'[t] \in {rtr[t], NoRid}
    <2>1. CASE Finish(t)
      BY <2>1, FinishEffect DEF IInv, Alone, Same
    <2>2. CASE (AllocLock(t) \/ AllocList(t) \/ AllocPick(t) \/ AllocNone(t) \/ AllocCount(t)) /\ ~Finish(t)
      BY <2>2 DEF AllocLock, AllocList, AllocPick, AllocNone, AllocCount, BeginClean, Goto, Alone, Same,
         locals, IInv,
         TypeOK
    <2>3. CASE (AllocEdge(t) \/ FreeClean(t) \/ FreeCollect(t) \/ FreeVnics(t) \/ (t = Main /\ BootClean)) /\ ~Finish(t)
      BY <2>3 DEF AllocEdge, FreeClean, FreeCollect, FreeVnics, BootClean, BeginClean, Goto, Alone, Same,
         locals, IInv,
         TypeOK
    <2>4. CASE (SpawnDelete(t) \/ SpawnEnd(t)) /\ ~Finish(t)
      BY <2>4 DEF SpawnDelete, SpawnEnd, Goto, Alone, Same, locals, IInv, TypeOK
    <2> QED  BY <2>1, <2>2, <2>3, <2>4 DEF AllocLost, SpawnReturn
  <1>4. ThreadKept(t)'
    BY <1>3 DEF ThreadKept
  <1> QED  BY <1>1, <1>2, <1>3, <1>4, KeptRead

\* A request begins; nobody else works for its router.
LEMMA StartKept ==
  ASSUME PoolAssumption, ~EagerDelete, IInv, OInv, TypeOK', Kept, NEW t \in Threads, NEW r \in Routers,
         StartAlloc(t, r) \/ StartFree(t, r)
  PROVE  Kept'
  <1>1. /\ UNCHANGED <<binding, deploy, backend, hkPc, hkCur, deletes>> /\ pc[t] = "idle" /\ rtr'[t] = r
        /\ pc'[t] \in {"aLock", "fLock"}
    BY DEF StartAlloc, StartFree, Goto, IInv, TypeOK, dbVars, jobVars, hkVars
  <1>2. Alone(t)
    BY DEF StartAlloc, StartFree, Goto, Alone, Same, IInv, TypeOK
  <1>3. \A u \in Threads : rtr[u] # r
    BY NamedInUse DEF StartAlloc, StartFree
  <1>4. deploy[r].stage = "none"
    BY <1>3 DEF Kept, Deploys
  <1>5. ThreadKept(t)'
    BY <1>1, <1>4 DEF ThreadKept
  <1> QED  BY <1>1, <1>2, <1>3, <1>5, KeptRead

\* The binding of the router is read.
LEMMA FreeLockKept ==
  ASSUME PoolAssumption, IInv, OInv, TypeOK', Kept, NEW t \in Threads, FreeLock(t)
  PROVE  Kept'
  <1>1. UNCHANGED <<binding, deploy, backend, hkPc, hkCur, deletes>> /\ pc[t] = "fLock"
    BY DEF FreeLock, dbVars, jobVars, hkVars
  <1>2. CASE Finish(t)
    <2>1. Alone(t) /\ pc'[t] = "idle" /\ rtr'[t] = NoRid
      BY <1>2, FinishEffect DEF IInv, Alone, Same
    <2>2. ThreadKept(t)'
      BY <2>1 DEF ThreadKept
    <2> QED  BY <1>1, <2>1, <2>2, KeptRead
  <1>3. CASE ~Finish(t)
    <2>1. Alone(t)
      BY <1>3 DEF FreeLock, Goto, Alone, Same, IInv, TypeOK
    <2>2. rtr'[t] = rtr[t] /\ eid'[t] = binding[rtr[t]].edge
      BY <1>3 DEF FreeLock, IInv, TypeOK
    <2>3. deploy[rtr[t]].stage = "none"
      BY <1>1 DEF Kept, ThreadKept
    <2>4. ThreadKept(t)'
      BY <1>1, <2>2, <2>3 DEF ThreadKept
    <2> QED  BY <1>1, <2>1, <2>2, <2>4, KeptRead
  <1> QED  BY <1>2, <1>3

\* The steps of requests that change the status of rows.
LEMMA ThreadStatusKept ==
  ASSUME PoolAssumption, IInv, OInv, TypeOK', Kept, NEW t \in Threads,
         \/ Mark(t) \/ AllocDiscard(t) \/ FreeDiscard(t) \/ FreeSurplus(t) \/ (t = Main /\ BootTrim)
         \/ AllocTake(t) \/ FreePool(t) \/ FreeUpdate(t) \/ AllocDone(t)
  PROVE  Kept'
  <1>1. UNCHANGED <<deploy, backend, deletes, hkPc, hkCur>>
    BY DEF Mark, AllocDiscard, FreeDiscard, FreeSurplus, BootTrim, AllocTake, FreePool, FreeUpdate,
       AllocDone, jobVars,
       hkVars
  <1>2. pc[t] \notin {"aBind", "fAdd", "aDeploy"}
    BY DEF Mark, AllocDiscard, FreeDiscard, FreeSurplus, BootTrim, AllocTake, FreePool, FreeUpdate,
       AllocDone
  <1>3. Alone(t) /\ pc'[t] \notin {"fLock", "fUnbind"} /\ rtr'[t] \in {rtr[t], NoRid}
    <2>1. CASE Finish(t)
      BY <2>1, FinishEffect DEF IInv, Alone, Same
    <2>2. CASE (Mark(t) \/ AllocTake(t) \/ FreeUpdate(t) \/ AllocDone(t)) /\ ~Finish(t)
      BY <2>2 DEF Mark, AllocTake, FreeUpdate, AllocDone, Goto, Alone, Same, locals, IInv, TypeOK
    <2>3. CASE (AllocDiscard(t) \/ FreeDiscard(t) \/ FreeSurplus(t) \/ (t = Main /\ BootTrim)) /\ ~Finish(t)
      <3>1. /\ pc \in [Threads -> Labels] /\ cand \in [Threads -> SUBSET Item]
            /\ todo \in [Threads -> SUBSET Item] /\ DOMAIN ret = Threads /\ ret = [u \in Threads |-> ret[u]]
        BY DEF IInv, TypeOK
      <3>2. UNCHANGED <<rtr, bak, eid>> /\ Goto(t, "spawn")
        BY <2>3 DEF AllocDiscard, FreeDiscard, FreeSurplus, BootTrim, Discard
      <3>3. \A u \in Threads \ {t} : cand'[u] = cand[u] /\ todo'[u] = todo[u] /\ ret'[u] = ret[u]
        <4>1. CASE AllocDiscard(t)
          BY <3>1, <4>1 DEF AllocDiscard, Discard
        <4>2. CASE FreeDiscard(t)
          BY <3>1, <4>2 DEF FreeDiscard, Discard
        <4>3. CASE FreeSurplus(t)
          BY <3>1, <4>3 DEF FreeSurplus, Discard
        <4>4. CASE t = Main /\ BootTrim
          BY <3>1, <4>4 DEF BootTrim
        <4> QED  BY <2>3, <4>1, <4>2, <4>3, <4>4
      <3>4. pc'[t] = "spawn" /\ \A u \in Threads \ {t} : pc'[u] = pc[u]
        BY <3>1, <3>2 DEF Goto
      <3> QED  BY <3>2, <3>3, <3>4 DEF Alone, Same
    <2> QED  BY <2>1, <2>2, <2>3 DEF FreePool
  <1>4. \/ binding' = binding
        \/ \E rids, status : status \in Pending \cup {"ACTIVE", "ERROR"} /\ SetStatus(rids, status)
    BY DEF Mark, AllocDiscard, FreeDiscard, FreeSurplus, BootTrim, AllocTake, FreePool, FreeUpdate,
       AllocDone, Discard,
       Pending
  <1>5. \A rid \in Rids : binding'[rid].edge = binding[rid].edge /\ (Exists(rid) => Exists(rid)')
    BY <1>4, StatusKeepsEdges
  <1>6. DeletesRemembered /\ HkRemembered /\ ThreadKept(t)'
    BY <1>1, <1>3 DEF DeletesRemembered, HkRemembered, ThreadKept
  <1> QED  BY <1>1, <1>2, <1>3, <1>5, <1>6, KeptQuiet

\* The steps of the housekeeper and of the workers that delete no row.
LEMMA HkKept ==
  ASSUME PoolAssumption, IInv, OInv, TypeOK', Kept,
         \/ HkRead \/ HkPick \/ HkEnd \/ HkUpdate \/ HkActivate \/ HkMark \/ HkDestroy
         \/ \E d \in deletes : DeleteBackend(d)
  PROVE  Kept'
  <1> Main \in Threads
    BY DEF PoolAssumption
  <1>1. UNCHANGED <<deploy, pc, locals>> /\ backend' \subseteq backend
    BY DEF HkRead, HkPick, HkEnd, HkUpdate, HkActivate, HkMark, HkDestroy, DeleteBackend, DestroyEdge,
       jobVars
  <1>2. \/ binding' = binding
        \/ \E rids, status : status \in Pending \cup {"ACTIVE", "ERROR"} /\ SetStatus(rids, status)
    BY DEF HkRead, HkPick, HkEnd, HkUpdate, HkActivate, HkMark, HkDestroy, DeleteBackend, dbVars, Pending
  <1>3. \A rid \in Rids : binding'[rid].edge = binding[rid].edge /\ (Exists(rid) => Exists(rid)')
    BY <1>2, StatusKeepsEdges
  <1>4. Alone(Main) /\ Same(Main)
    BY <1>1 DEF Alone, Same, locals
  <1>5. DeletesRemembered
    <2>1. CASE UNCHANGED deletes
      BY <2>1 DEF DeletesRemembered
    <2>2. CASE \E d \in deletes : DeleteBackend(d)
      <3>1. PICK d \in deletes : DeleteBackend(d)
        BY <2>2
      <3> QED  BY <3>1 DEF DeleteBackend, DestroyEdge, DeletesRemembered
    <2> QED  BY <2>1, <2>2 DEF HkRead, HkPick, HkEnd, HkUpdate, HkActivate, HkMark, HkDestroy, jobVars
  <1>6. HkRemembered
    <2>1. CASE UNCHANGED <<hkPc, hkCur>> \/ hkPc # "destroy"
      BY <2>1 DEF HkRemembered
    <2>2. CASE HkDestroy
      BY <2>2 DEF HkDestroy, DestroyEdge, HkRemembered
    <2> QED  BY <2>1, <2>2 DEF HkRead, HkPick, HkEnd, HkUpdate, HkActivate, HkMark, DeleteBackend, hkVars
  <1> QED  BY <1>1, <1>3, <1>4, <1>5, <1>6, KeptQuiet

\* delete_nsxv_router_binding, by a request that then carries the edge.
LEMMA UnbindKept ==
  ASSUME PoolAssumption, IInv, OInv, TypeOK', Kept, NEW t \in Threads, AllocUnbind(t) \/ FreeUnbind(t)
  PROVE  Kept'
  <1>1. /\ UNCHANGED <<deploy, backend, deletes, hkPc, hkCur>> /\ eid'[t] = eid[t] /\ rtr'[t] = rtr[t]
        /\ pc[t] \in {"aUnbind", "fUnbind"} /\ pc'[t] \in {"aBind", "fAdd"}
    BY DEF AllocUnbind, FreeUnbind, Goto, locals, jobVars, hkVars, IInv, TypeOK
  <1>2. Alone(t)
    BY DEF AllocUnbind, FreeUnbind, Goto, Alone, Same, locals, IInv, TypeOK
  <1>3. PICK x \in Rids : /\ DeleteRow(x) /\ binding[x].edge = eid[t] /\ deploy[x].stage = "none"
                          /\ x \in Routers => pc[t] = "fUnbind" /\ rtr[t] = x
    <2>1. CASE AllocUnbind(t)
      <3>1. /\ bak[t] \in Backups /\ deploy[bak[t]].stage = "none" /\ DeleteRow(bak[t])
            /\ binding[bak[t]] = [status |-> "PENDING_UPDATE", edge |-> eid[t]]
        BY <2>1 DEF AllocUnbind, IInv, Shape, Selected, SelectedQuiet, OInv, Holds, RowIs
      <3>2. binding[bak[t]].edge = eid[t] /\ bak[t] \in Rids /\ bak[t] \notin Routers
        BY <3>1 DEF Rids, PoolAssumption
      <3> QED  BY <3>1, <3>2
    <2>2. CASE FreeUnbind(t)
      <3>1. /\ rtr[t] \in Routers /\ deploy[rtr[t]].stage = "none" /\ DeleteRow(rtr[t])
            /\ binding[rtr[t]].edge = eid[t] /\ pc[t] = "fUnbind"
        BY <2>2 DEF FreeUnbind, IInv, Shape, Kept, ThreadKept
      <3> QED  BY <3>1 DEF Rids
    <2> QED  BY <2>1, <2>2
  <1>4. binding'[x] = NoRow /\ \A rid \in Rids : rid # x => binding'[rid] = binding[rid]
    BY <1>3 DEF DeleteRow, IInv, TypeOK
  <1>5. RowsRemembered
    <2>1. ASSUME NEW e \in backend', NEW rid \in Rids, binding[rid].edge = e PROVE Owned(e)'
      <3>1. CASE rid = x
        BY <1>1, <1>3, <2>1, <3>1 DEF Owned
      <3>2. CASE rid # x
        BY <1>4, <2>1, <3>2 DEF Owned
      <3> QED  BY <3>1, <3>2
    <2> QED  BY <2>1 DEF RowsRemembered
  <1>6. DeploysRemembered
    BY <1>1 DEF DeploysRemembered, Owned
  <1>7. Remembered(t)
    BY <1>1, <1>5, <1>6 DEF Remembered, DeletesRemembered, HkRemembered, CarriedRemembered
  <1>8. KeptDeploys
    <2>1. DeployKept(x)'
      BY <1>1, <1>3 DEF Kept, DeployKept
    <2> QED  BY <1>1, <1>4, <2>1 DEF KeptDeploys, Exists
  <1>9. KeptRouters(t)
    BY <1>1, <1>3, <1>4 DEF KeptRouters, Rids, Same
  <1>10. ThreadKept(t)'
    BY <1>1 DEF ThreadKept
  <1> QED  BY <1>1, <1>2, <1>7, <1>8, <1>9, <1>10, KeptFrame

\* The edge that the request carries gets the row of its router, or one of the pool.
LEMMA BindKept ==
  ASSUME PoolAssumption, IInv, OInv, TypeOK', Kept, NEW t \in Threads, AllocBind(t) \/ FreeAdd(t)
  PROVE  Kept'
  <1>1. /\ UNCHANGED <<deploy, backend, deletes, hkPc, hkCur>> /\ eid'[t] = eid[t] /\ rtr'[t] = rtr[t]
        /\ pc[t] \in {"aBind", "fAdd"} /\ pc'[t] \in {"aEdge", "fCheck"}
    BY DEF AllocBind, FreeAdd, Goto, locals, jobVars, hkVars, IInv, TypeOK
  <1>2. Alone(t)
    BY DEF AllocBind, FreeAdd, Goto, Alone, Same, locals, IInv, TypeOK
  <1>3. PICK x \in Rids : /\ \E status \in {"PENDING_CREATE", "PENDING_UPDATE"} : AddRow(x, eid[t], status)
                          /\ ~Exists(x) /\ deploy[x].stage = "none" /\ (x \in Routers => rtr[t] = x)
    <2>1. CASE AllocBind(t)
      <3>1. rtr[t] \in Routers /\ Absent(rtr[t]) /\ AddRow(rtr[t], eid[t], "PENDING_CREATE")
        BY <2>1 DEF AllocBind, IInv, Shape, OInv, Holds, Unbound
      <3> QED  BY <3>1 DEF Absent, Rids
    <2>2. CASE FreeAdd(t)
      <3>1. PICK b \in FreshBackups : AddRow(b, eid[t], "PENDING_UPDATE")
        BY <2>2 DEF FreeAdd
      <3>2. b \in Rids /\ b \notin Routers /\ ~Exists(b) /\ deploy[b].stage = "none"
        BY FreshRow DEF FreshBackups, IInv, Rids, PoolAssumption
      <3> QED  BY <3>1, <3>2
    <2> QED  BY <2>1, <2>2
  <1>4. /\ binding'[x].edge = eid[t] /\ binding[x].edge = NoEdge
        /\ \A rid \in Rids : rid # x => binding'[rid] = binding[rid]
    BY <1>3 DEF AddRow, IInv, TypeOK, OInv, RowsOrderly, NoRows
  <1>5. RowsRemembered /\ DeploysRemembered /\ CarriedRemembered(t)
    <2>1. NoEdge \notin backend'
      BY <1>1 DEF IInv, TypeOK, PoolAssumption
    <2> QED  BY <1>1, <1>4, <2>1 DEF RowsRemembered, DeploysRemembered, CarriedRemembered, Owned
  <1>6. Remembered(t)
    BY <1>1, <1>5 DEF Remembered, DeletesRemembered, HkRemembered
  <1>7. KeptDeploys
    <2>1. DeployKept(x)'
      BY <1>1, <1>3 DEF Kept, DeployKept
    <2> QED  BY <1>1, <1>4, <2>1 DEF KeptDeploys, Exists
  <1>8. KeptRouters(t)
    BY <1>1, <1>3, <1>4 DEF KeptRouters, Rids, Same
  <1>9. ThreadKept(t)'
    BY <1>1 DEF ThreadKept
  <1> QED  BY <1>1, <1>2, <1>6, <1>7, <1>8, <1>9, KeptFrame

\* delete_edge and the housekeeper: the row goes, and the appliance is still to be deleted.
LEMMA EraseKept ==
  ASSUME PoolAssumption, IInv, OInv, TypeOK', Kept, NEW x, x.rid \in Backups, Sent(x), DeleteRow(x.rid),
         UNCHANGED <<deploy, backend, pc, locals>>, DeletesRemembered, hkPc # "destroy" \/ UNCHANGED <<hkPc, hkCur>>,
         x.edge \in Edges => Owned(x.edge)'
  PROVE  Kept'
  <1> Main \in Threads
    BY DEF PoolAssumption
  <1>1. Alone(Main) /\ Same(Main)
    BY DEF Alone, Same, locals
  <1>2. x.rid \in Rids /\ x.rid \notin Routers
    BY DEF Rids, PoolAssumption
  <1>3. /\ binding'[x.rid] = NoRow /\ \A rid \in Rids : rid # x.rid => binding'[rid] = binding[rid]
    BY <1>2 DEF DeleteRow, IInv, TypeOK
  <1>4. binding[x.rid].edge \in {x.edge, NoEdge} /\ binding[x.rid].status # "PENDING_CREATE"
    <2>1. CASE ~Exists(x.rid)
      BY <1>2, <2>1 DEF OInv, RowsOrderly, NoRows, Exists
    <2>2. CASE binding[x.rid] = [status |-> "PENDING_DELETE", edge |-> x.edge]
      BY <2>2
    <2> QED  BY <2>1, <2>2 DEF Sent, RowIs
  <1>5. deploy[x.rid].stage = "none"
    BY <1>4 DEF OInv, RowsOrderly, Deploying
  <1>6. backend' \subseteq Edges /\ NoEdge \notin backend'
    BY DEF IInv, TypeOK, PoolAssumption
  <1>7. RowsRemembered
    <2>1. ASSUME NEW e \in backend', NEW rid \in Rids, binding[rid].edge = e PROVE Owned(e)'
      <3>1. CASE rid = x.rid
        BY <1>4, <1>6, <2>1, <3>1
      <3>2. CASE rid # x.rid
        BY <1>3, <2>1, <3>2 DEF Owned
      <3> QED  BY <3>1, <3>2
    <2> QED  BY <2>1 DEF RowsRemembered
  <1>8. DeploysRemembered /\ HkRemembered
    BY DEF DeploysRemembered, HkRemembered, Owned
  <1>9. Remembered(Main)
    BY <1>1, <1>7, <1>8 DEF Remembered
  <1>10. KeptDeploys
    <2>1. DeployKept(x.rid)'
      BY <1>2, <1>5 DEF Kept, DeployKept
    <2> QED  BY <1>3, <2>1 DEF KeptDeploys, Exists
  <1>11. KeptRouters(Main)
    BY <1>1, <1>2, <1>3 DEF KeptRouters, Rids
  <1>12. rtr'[Main] = rtr[Main]
    BY <1>1 DEF Same
  <1> QED  BY <1>1, <1>9, <1>10, <1>11, <1>12, KeptFrame

\* Whoever deletes the row of an edge goes on to delete the edge.
LEMMA DeleteRowKept ==
  ASSUME PoolAssumption, IInv, OInv, TypeOK', Kept, HkPurge \/ \E d \in deletes : DeleteDb(d)
  PROVE  Kept'
  <1>1. UNCHANGED <<deploy, backend, pc, locals>>
    BY DEF HkPurge, DeleteDb, jobVars
  <1>2. CASE HkPurge
    <2>1. PICK x : x = hkCur
      OBVIOUS
    <2>2. x.rid \in Backups /\ Sent(x) /\ DeleteRow(x.rid)
      BY <1>2, <2>1 DEF HkPurge, OInv, HkHolds, IInv, Shape, Item
    <2>3. Owned(x.edge)'
      BY <1>2, <2>1 DEF HkPurge, Owned
    <2>4. DeletesRemembered /\ hkPc # "destroy"
      BY <1>2 DEF HkPurge, DeletesRemembered, jobVars
    <2> QED  BY <1>1, <2>2, <2>3, <2>4, EraseKept
  <1>3. ASSUME NEW d \in deletes, DeleteDb(d) PROVE Kept'
    <2>1. d.rid \in Backups /\ Sent(d) /\ DeleteRow(d.rid) /\ UNCHANGED <<hkPc, hkCur>>
      BY <1>3 DEF DeleteDb, OInv, Leaving, IInv, TypeOK, hkVars
    <2>2. d.edge # NoEdge => \E y \in deletes' : y.edge = d.edge
      <3>1. ASSUME d.edge # NoEdge PROVE [d EXCEPT !.stage = "backend"] \in deletes'
        BY <1>3, <3>1 DEF DeleteDb
      <3>2. [d EXCEPT !.stage = "backend"].edge = d.edge
        BY DEF IInv, TypeOK
      <3> QED  BY <3>1, <3>2
    <2>3. d.edge \in Edges => Owned(d.edge)'
      BY <2>2 DEF Owned, PoolAssumption
    <2>4. DeletesRemembered
      <3>1. ASSUME NEW y \in deletes, y.edge \in backend' PROVE \E z \in deletes' : z.edge = y.edge
        <4>1. CASE y = d
          BY <1>1, <2>2, <3>1, <4>1 DEF IInv, TypeOK, PoolAssumption
        <4>2. CASE y # d
          BY <1>3, <4>2 DEF DeleteDb
        <4> QED  BY <4>1, <4>2
      <3> QED  BY <3>1 DEF DeletesRemembered
    <2> QED  BY <1>1, <2>1, <2>3, <2>4, EraseKept
  <1> QED  BY <1>2, <1>3

\* The row of a router is added, and its deployment begins.
LEMMA AllocAddKept ==
  ASSUME PoolAssumption, IInv, OInv, TypeOK', Kept, NEW t \in Threads, AllocAdd(t)
  PROVE  Kept'
  <1>1. PICK r \in Routers : r = rtr[t]
    BY DEF AllocAdd, IInv, Shape
  <1>2. /\ r \in Rids /\ Absent(r) /\ pc[t] = "aAdd" /\ pc'[t] = "aDeploy" /\ rtr'[t] = r
        /\ UNCHANGED <<backend, deletes, hkPc, hkCur>>
    BY <1>1 DEF AllocAdd, OInv, Holds, Unbound, Goto, locals, hkVars, IInv, TypeOK, Rids
  <1>3. Alone(t)
    BY DEF AllocAdd, Goto, Alone, Same, locals, IInv, TypeOK
  <1>4. /\ binding'[r].edge = NoEdge /\ binding'[r].status = "PENDING_CREATE"
        /\ deploy'[r].stage = "backend" /\ deploy'[r].edge = NoEdge
        /\ \A rid \in Rids : rid # r => binding'[rid] = binding[rid] /\ deploy'[rid] = deploy[rid]
    BY <1>1, <1>2 DEF AllocAdd, AddRow, Stage, IInv, TypeOK
  <1>5. binding[r].edge = NoEdge /\ deploy[r].edge = NoEdge
    BY <1>2 DEF Absent, OInv, RowsOrderly, NoRows, Kept, DeployKept
  <1>6. RowsRemembered /\ DeploysRemembered
    BY <1>4, <1>5, NamesKept
  <1>7. Remembered(t)
    BY <1>2, <1>6 DEF Remembered, DeletesRemembered, HkRemembered, CarriedRemembered
  <1>8. KeptDeploys
    <2>1. DeployKept(r)'
      BY <1>4 DEF DeployKept, Exists
    <2> QED  BY <1>4, <2>1 DEF KeptDeploys, Exists
  <1>9. KeptRouters(t)
    BY <1>1, <1>2, <1>4 DEF KeptRouters, Rids, Same
  <1>10. ThreadKept(t)'
    BY <1>2 DEF ThreadKept
  <1>11. rtr'[t] = rtr[t]
    BY <1>1, <1>2
  <1> QED  BY <1>3, <1>7, <1>8, <1>9, <1>10, <1>11, KeptFrame

\* The request reads the result of its deployment, whose row has the edge.
LEMMA AllocDeployedKept ==
  ASSUME PoolAssumption, IInv, OInv, TypeOK', Kept, NEW t \in Threads, AllocDeployed(t)
  PROVE  Kept'
  <1>1. PICK r \in Routers : r = rtr[t]
    BY DEF AllocDeployed, IInv, Shape
  <1>2. /\ r \in Rids /\ pc[t] = "aDeploy" /\ deploy[r].stage \in {"ok", "raised"}
        /\ UNCHANGED <<binding, backend, deletes, hkPc, hkCur>>
    BY <1>1 DEF AllocDeployed, dbVars, hkVars, Rids
  <1>3. pc'[t] \in {"idle", "aCount"} /\ rtr'[t] \in {rtr[t], NoRid} /\ Alone(t)
    <2>1. CASE Finish(t)
      BY <2>1, FinishEffect DEF IInv, Alone, Same
    <2>2. CASE ~Finish(t)
      BY <2>2 DEF AllocDeployed, Goto, Alone, Same, locals, IInv, TypeOK
    <2> QED  BY <2>1, <2>2
  <1>4. deploy'[r] = NoDeploy /\ \A rid \in Rids : rid # r => deploy'[rid] = deploy[rid]
    BY <1>1, <1>2 DEF AllocDeployed, IInv, TypeOK
  <1>5. binding[r].edge = deploy[r].edge
    BY <1>2 DEF Kept, DeployKept
  <1>6. RowsRemembered
    BY <1>2 DEF RowsRemembered, Owned
  <1>7. DeploysRemembered
    <2>1. ASSUME NEW e \in backend', NEW rid \in Rids, deploy[rid].edge = e PROVE Owned(e)'
      <3>1. CASE rid = r
        BY <1>2, <1>5, <2>1, <3>1 DEF Owned
      <3>2. CASE rid # r
        BY <1>4, <2>1, <3>2 DEF Owned
      <3> QED  BY <3>1, <3>2
    <2> QED  BY <2>1 DEF DeploysRemembered
  <1>8. Remembered(t)
    BY <1>2, <1>6, <1>7 DEF Remembered, DeletesRemembered, HkRemembered, CarriedRemembered
  <1>9. KeptDeploys
    <2>1. DeployKept(r)'
      BY <1>4 DEF DeployKept, NoDeploy
    <2> QED  BY <1>2, <1>4, <2>1 DEF KeptDeploys, Exists
  <1>10. KeptRouters(t)
    <2>1. ~Same(t)
      BY <1>2, <1>3 DEF Same
    <2> QED  BY <1>1, <1>2, <1>4, <2>1 DEF KeptRouters, Rids, NoDeploy
  <1>11. ThreadKept(t)'
    BY <1>3 DEF ThreadKept
  <1> QED  BY <1>3, <1>8, <1>9, <1>10, <1>11, KeptFrame

\* Rows are added to the pool and their deployments queued.
LEMMA FillKept ==
  ASSUME PoolAssumption, IInv, OInv, TypeOK', Kept, BootFill \/ \E t \in Threads : AllocRefill(t)
  PROVE  Kept'
  <1>1. PICK t \in Threads : Finish(t) /\ pc[t] \in {"aRefill", "bCount"}
    BY DEF BootFill, AllocRefill, PoolAssumption
  <1>2. PICK new \in SUBSET FreshBackups : AddBackups(new)
    BY DEF BootFill, AllocRefill
  <1>3. UNCHANGED <<backend, deletes, hkPc, hkCur>>
    BY DEF BootFill, AllocRefill, hkVars
  <1>4. Alone(t) /\ pc'[t] = "idle" /\ rtr'[t] = NoRid
    BY <1>1, FinishEffect DEF IInv, Alone, Same
  <1>5. ASSUME NEW b \in new
        PROVE  /\ b \in Backups /\ b \in Rids /\ b \notin Routers
               /\ binding[b].edge = NoEdge /\ deploy[b].edge = NoEdge
    <2>1. b \in Backups /\ b \in Rids /\ b \notin Routers /\ ~Exists(b) /\ deploy[b].stage = "none"
      BY FreshRow DEF FreshBackups, IInv, Rids, PoolAssumption
    <2> QED  BY <2>1 DEF OInv, RowsOrderly, NoRows, Kept, DeployKept
  <1>6. /\ \A rid \in new : /\ binding'[rid].status = "PENDING_CREATE" /\ binding'[rid].edge = NoEdge
                            /\ deploy'[rid].stage = "queued" /\ deploy'[rid].edge = NoEdge
        /\ \A rid \in Rids \ new : binding'[rid] = binding[rid] /\ deploy'[rid] = deploy[rid]
    BY <1>2, <1>5 DEF AddBackups
  <1>7. RowsRemembered /\ DeploysRemembered
    <2>1. ASSUME NEW rid \in Rids
          PROVE  binding'[rid].edge = binding[rid].edge /\ deploy'[rid].edge = deploy[rid].edge
      BY <1>5, <1>6
    <2> QED  BY <2>1, NamesKept
  <1>8. Remembered(t)
    BY <1>1, <1>3, <1>7 DEF Remembered, DeletesRemembered, HkRemembered, CarriedRemembered
  <1>9. KeptDeploys
    <2>1. ASSUME NEW rid \in new PROVE DeployKept(rid)'
      BY <1>6 DEF DeployKept, Exists
    <2> QED  BY <1>6, <2>1 DEF KeptDeploys, Exists
  <1>10. KeptRouters(t)
    <2>1. \A r \in Routers : binding'[r] = binding[r] /\ deploy'[r] = deploy[r]
      BY <1>5, <1>6 DEF Rids
    <2> QED  BY <1>1, <2>1 DEF KeptRouters
  <1>11. ThreadKept(t)'
    BY <1>4 DEF ThreadKept
  <1> QED  BY <1>4, <1>8, <1>9, <1>10, <1>11, KeptFrame

-----------------------------------------------------------------------------
(* NoLeakedEdge: the deployments.                                          *)

\* A deployment moves on, and its edge stays with it or with its row.
LEMMA DeployMovesKept ==
  ASSUME PoolAssumption, IInv, OInv, TypeOK', Kept, UNCHANGED <<pc, locals, deletes, hkVars>>,
         NEW rid \in Rids, deploy[rid].stage # "none",
         \A r \in Rids : r # rid => binding'[r] = binding[r] /\ deploy'[r] = deploy[r],
         binding'[rid].edge = binding[rid].edge \/ binding[rid].edge = NoEdge,
         deploy[rid].edge \in {NoEdge, binding'[rid].edge}, DeployKept(rid)',
         backend' \subseteq backend \cup {deploy'[rid].edge}
  PROVE  Kept'
  <1> Main \in Threads
    BY DEF PoolAssumption
  <1>1. Alone(Main) /\ Same(Main)
    BY DEF Alone, Same, locals
  <1>2. NoEdge \notin backend'
    BY DEF IInv, TypeOK, PoolAssumption
  <1>3. ASSUME NEW e \in backend', NEW r \in Rids, binding[r].edge = e \/ deploy[r].edge = e PROVE Owned(e)'
    <2>1. CASE r = rid
      BY <1>2, <1>3, <2>1 DEF Owned
    <2>2. CASE r # rid
      BY <1>3, <2>2 DEF Owned
    <2> QED  BY <2>1, <2>2
  <1>4. RowsRemembered /\ DeploysRemembered
    BY <1>3 DEF RowsRemembered, DeploysRemembered
  <1>5. \A e \in backend' \ backend : Owned(e)'
    BY DEF Owned
  <1>6. Remembered(Main)
    BY <1>1, <1>4, <1>5 DEF Remembered, DeletesRemembered, HkRemembered, hkVars
  <1>7. KeptDeploys
    BY DEF KeptDeploys, Exists
  <1>8. KeptRouters(Main)
    BY <1>1 DEF KeptRouters, Rids
  <1>9. rtr'[Main] = rtr[Main]
    BY <1>1 DEF Same
  <1> QED  BY <1>1, <1>6, <1>7, <1>8, <1>9, KeptFrame

\* What a deployment that ends keeps of its edge.
LEMMA EndDeployKeeps ==
  ASSUME IInv, NEW rid \in Rids, NEW result \in {"ok", "raised"}, EndDeploy(rid, result)
  PROVE  /\ \/ deploy'[rid].stage = "none" /\ deploy'[rid].edge = NoEdge
            \/ deploy'[rid].stage = result /\ deploy'[rid].edge = deploy[rid].edge
         /\ \A r \in Rids : r # rid => deploy'[r] = deploy[r]
  <1>1. CASE rid \in Backups
    BY <1>1 DEF EndDeploy, NoDeploy, IInv, TypeOK
  <1>2. CASE rid \notin Backups
    <2>1. deploy'[rid] = [deploy[rid] EXCEPT !.stage = result] /\ \A r \in Rids : r # rid => deploy'[r] = deploy[r]
      BY <1>2 DEF EndDeploy, IInv, TypeOK
    <2>2. deploy[rid] \in [stage : Stages, edge : Edges \cup {NoEdge}]
      BY DEF IInv, TypeOK
    <2> QED  BY <2>1, <2>2
  <1> QED  BY <1>1, <1>2

\* The edge is recorded in the row, or none was deployed.
LEMMA DeployEarlyKept ==
  ASSUME PoolAssumption, IInv, OInv, TypeOK', Kept, NEW rid \in Rids,
         (rid \in Backups /\ DeployStart(rid)) \/ DeployBackend(rid) \/ DeployRecord(rid)
  PROVE  Kept'
  <1>1. /\ deploy[rid].stage \in {"queued", "backend", "record"} /\ UNCHANGED <<pc, locals, deletes, hkVars>>
    BY DEF DeployStart, DeployBackend, DeployRecord
  <1>2. DeployKept(rid) /\ Exists(rid) /\ binding[rid].edge = NoEdge
    BY <1>1 DEF Kept, DeployKept, OInv, RowsOrderly, Deploying
  <1>3. CASE DeployStart(rid)
    <2>1. /\ UNCHANGED <<binding, backend>> /\ deploy'[rid].stage = "backend" /\ deploy'[rid].edge = NoEdge
          /\ \A r \in Rids : r # rid => deploy'[r] = deploy[r]
      BY <1>3 DEF DeployStart, Stage, dbVars, IInv, TypeOK
    <2>2. deploy[rid].edge = NoEdge
      BY <1>2, <1>3 DEF DeployStart, DeployKept
    <2>3. DeployKept(rid)'
      BY <1>2, <2>1 DEF DeployKept, Exists
    <2> QED  BY <1>1, <1>2, <2>1, <2>2, <2>3, DeployMovesKept
  <1>4. CASE DeployBackend(rid)
    <2>1. /\ UNCHANGED binding /\ \A r \in Rids : r # rid => deploy'[r] = deploy[r]
          /\ \/ deploy'[rid].stage = "record"
             \/ deploy'[rid].stage = "undo" /\ deploy'[rid].edge = NoEdge
          /\ backend' \subseteq backend \cup {deploy'[rid].edge}
      BY <1>4 DEF DeployBackend, Stage, dbVars, IInv, TypeOK
    <2>2. deploy[rid].edge = NoEdge
      BY <1>2, <1>4 DEF DeployBackend, DeployKept
    <2>3. DeployKept(rid)'
      BY <1>2, <2>1 DEF DeployKept, Exists
    <2> QED  BY <1>1, <1>2, <2>1, <2>2, <2>3, DeployMovesKept
  <1>5. CASE DeployRecord(rid)
    <2>1. /\ binding'[rid].edge = deploy[rid].edge /\ backend' = backend
          /\ deploy'[rid].stage = "vnics" /\ deploy'[rid].edge = deploy[rid].edge
          /\ \A r \in Rids : r # rid => binding'[r] = binding[r] /\ deploy'[r] = deploy[r]
      BY <1>2, <1>5 DEF DeployRecord, Stage, IInv, TypeOK, Row
    <2>2. DeployKept(rid)'
      BY <2>1 DEF DeployKept
    <2> QED  BY <1>1, <1>2, <2>1, <2>2, DeployMovesKept
  <1> QED  BY <1>3, <1>4, <1>5

\* The row has the edge of its deployment, whichever way that ends.
LEMMA DeployLateKept ==
  ASSUME PoolAssumption, IInv, OInv, TypeOK', Kept, NEW rid \in Rids,
         DeployVnics(rid) \/ DeployDone(rid) \/ DeployGroups(rid) \/ DeployUndo(rid)
  PROVE  Kept'
  <1>1. /\ deploy[rid].stage \in {"vnics", "done", "groups", "undo"}
        /\ UNCHANGED <<pc, locals, deletes, hkVars, backend>>
    BY DEF DeployVnics, DeployDone, DeployGroups, DeployUndo
  <1>2. binding[rid].edge = deploy[rid].edge
    BY <1>1 DEF Kept, DeployKept
  <1>3. \A r \in Rids : binding'[r].edge = binding[r].edge /\ (r # rid => binding'[r] = binding[r])
    BY DEF DeployVnics, DeployDone, DeployGroups, DeployUndo, SetStatus, dbVars, IInv, TypeOK, Row
  <1>4. /\ \/ deploy'[rid].stage = "none" /\ deploy'[rid].edge = NoEdge
           \/ /\ deploy'[rid].edge = deploy[rid].edge
              /\ deploy'[rid].stage \in {"done", "groups", "undo", "ok", "raised"}
        /\ \A r \in Rids : r # rid => deploy'[r] = deploy[r]
    <2>1. CASE \E stage \in {"done", "groups", "undo"} : Stage(rid, stage, deploy[rid].edge)
      BY <2>1 DEF Stage, IInv, TypeOK
    <2>2. CASE \E result \in {"ok", "raised"} : EndDeploy(rid, result)
      BY <2>2, EndDeployKeeps
    <2> QED  BY <2>1, <2>2 DEF DeployVnics, DeployDone, DeployGroups, DeployUndo
  <1>5. DeployKept(rid)'
    BY <1>2, <1>3, <1>4 DEF DeployKept
  <1> QED  BY <1>1, <1>2, <1>3, <1>4, <1>5, DeployMovesKept

-----------------------------------------------------------------------------
\* No step loses the id of an edge, as long as the server does not restart and no router
\* is deleted while it is created.
LEMMA NextKept ==
  ASSUME PoolAssumption, ~MayExpire, ~MayCrash, ~EagerDelete, IInv, OInv, TypeOK', Kept, Next
  PROVE  Kept'
  <1>1. CASE Boot
    BY <1>1, ReadingKept, FillKept, ThreadStatusKept DEF Boot, PoolAssumption
  <1>2. ASSUME NEW t \in Threads, Thread(t) PROVE Kept'
    <2>1. CASE Cleaning(t)
      BY <2>1, ThreadStatusKept, ReadingKept DEF Cleaning
    <2>2. CASE Allocating(t)
      BY <2>2, ReadingKept, ThreadStatusKept, UnbindKept, BindKept, AllocAddKept, AllocDeployedKept,
         FillKept
         DEF Allocating
    <2>3. CASE Collecting(t)
      BY <2>3, ReadingKept, ThreadStatusKept, UnbindKept, BindKept, FreeLockKept DEF Collecting
    <2> QED  BY <1>2, <2>1, <2>2, <2>3 DEF Thread
  <1>3. ASSUME NEW t \in Threads, NEW r \in Routers, StartAlloc(t, r) \/ StartFree(t, r) PROVE Kept'
    BY <1>3, StartKept
  <1>4. CASE Worker
    <2>1. ASSUME NEW rid \in Rids, DeployStep(rid) PROVE Kept'
      BY <2>1, DeployEarlyKept, DeployLateKept DEF DeployStep
    <2>2. ASSUME NEW d \in deletes, DeleteDb(d) \/ DeleteBackend(d) PROVE Kept'
      BY <2>2, DeleteRowKept, HkKept
    <2>3. ASSUME NEW b \in Backups, DeployStart(b) PROVE Kept'
      BY <2>3, DeployEarlyKept DEF Rids
    <2> QED  BY <1>4, <2>1, <2>2, <2>3 DEF Worker
  <1>5. CASE Housekeeper
    BY <1>5, HkKept, DeleteRowKept DEF Housekeeper
  <1>6. CASE Environment
    BY <1>6 DEF Environment, Expire, Crash
  <1> QED  BY <1>1, <1>2, <1>3, <1>4, <1>5, <1>6 DEF Next

\* NoLeakedEdge: as long as the server does not restart and no router is deleted while it is
\* created, every edge at the backend is in a row, in a deployment, in the hands of the request
\* that moves it from one row to another, or on its way to deletion.
THEOREM NoEdgeForgotten ==
  ASSUME ~HostGroups, ~MayExpire, ~MayCrash, ~EagerDelete PROVE Spec => []NoLeakedEdge
  <1>1. Init => Kept
    <2>1. ASSUME Init, NEW rid \in Rids PROVE DeployKept(rid)
      BY <2>1 DEF Init, NoDeploy, DeployKept
    <2>2. ASSUME Init, NEW t \in Threads PROVE ThreadKept(t)
      BY <2>2 DEF Init, ThreadKept
    <2>3. Init => NoLeakedEdge /\ OneRequest /\ Deploys
      BY PoolAssumption DEF Init, NoLeakedEdge, OneRequest, Deploys, NoDeploy, PoolAssumption, Rids
    <2> QED  BY <2>1, <2>2, <2>3 DEF Kept
  <1>2. IInv /\ OInv /\ IInv' /\ Kept /\ [Next]_vars => Kept'
    <2>1. ASSUME IInv, OInv, IInv', Kept, UNCHANGED vars PROVE Kept'
      <3>1. UNCHANGED <<binding, deploy, pc, locals, deletes, hkVars, backend>>
        BY <2>1 DEF vars, dbVars, jobVars
      <3>2. Main \in Threads /\ Alone(Main) /\ Same(Main)
        BY <3>1, PoolAssumption DEF Alone, Same, locals, PoolAssumption
      <3>3. DeletesRemembered /\ HkRemembered
        BY <3>1 DEF DeletesRemembered, HkRemembered, hkVars
      <3> QED  BY <2>1, <3>1, <3>2, <3>3, PoolAssumption, KeptQuiet DEF IInv, Exists
    <2>2. IInv' => TypeOK'
      BY DEF IInv
    <2> QED  BY <2>1, <2>2, PoolAssumption, NextKept
  <1>3. Kept => NoLeakedEdge
    BY DEF Kept
  <1> QED  BY <1>1, <1>2, <1>3, OwnerInvariant, PTL DEF Spec

-----------------------------------------------------------------------------
(* How far the pool may outgrow its maximum.                               *)

\* An edge that a thread has added to the pool and not yet counted.
Uncounted(t) == pc[t] \in {"fCheck", "fCount"} \/ Clears(t, {"fCount"})
\* The rows that the threads have decided to add, and those that the others may still add.
Refilling == {x \in Threads \X (1..MinPooled) : pc[x[1]] = "aRefill" /\ x[2] <= short[x[1]]}
Refilled == MinPooled * (Cardinality(Threads) - 1)
Pledged == Cardinality(PoolRids) + Cardinality(Refilling)
Limit(n) == n <= MinPooled + Refilled \/ n < MaxPooled + Refilled \/ n <= MaxPooled

\* One more than the limit while a collected edge is not yet counted, or until the start-up
\* check has trimmed the pool that a crash left behind.
Counted ==
  /\ \A t \in Threads : pc[t] = "aRefill" => short[t] <= MinPooled
  /\ Limit(Pledged - 1)
  /\ (~Booting \/ ret[Main] = "bEnd") /\ (\A t \in Threads : ~Uncounted(t)) => Limit(Pledged)

\* The rows added to the pool, and the changes of the threads' decisions.
PoolKept == PoolRids' \subseteq PoolRids
RefillKept == \A u \in Threads : pc'[u] = "aRefill" => pc[u] = "aRefill" /\ short'[u] = short[u]
\* The start-up check ends only after the pool is trimmed.
BootKept == Booting /\ ret[Main] # "bEnd" => Booting' /\ ret'[Main] # "bEnd"
UncountedKept == \A u \in Threads : Uncounted(u) => Uncounted(u)'

\* What the refills of n threads can add.
LEMMA Products ==
  ASSUME PoolAssumption, NEW S \in SUBSET Threads, NEW n \in Nat
  PROVE  /\ IsFiniteSet(S) /\ Cardinality(S) \in Nat
         /\ IsFiniteSet(S \X (1..n)) /\ Cardinality(S \X (1..n)) = Cardinality(S) * n
  <1>1. IsFiniteSet(S) /\ Cardinality(S) \in Nat
    BY FS_Subset, FS_CardinalityType DEF PoolAssumption
  <1>2. IsFiniteSet(1..n) /\ Cardinality(1..n) = n
    BY FS_Interval
  <1> QED  BY <1>1, <1>2, FS_Product

LEMMA RefilledOfOthers ==
  ASSUME PoolAssumption, NEW t \in Threads
  PROVE  Refilled \in Nat /\ Cardinality((Threads \ {t}) \X (1..MinPooled)) = Refilled
  <1>1. IsFiniteSet(Threads) /\ Cardinality(Threads) \in Nat /\ MinPooled \in Nat
    BY FS_CardinalityType DEF PoolAssumption
  <1>2. Cardinality(Threads \ {t}) = Cardinality(Threads) - 1 /\ Cardinality(Threads \ {t}) \in Nat
    BY <1>1, FS_RemoveElement, FS_CardinalityType
  <1>3. Cardinality((Threads \ {t}) \X (1..MinPooled)) = Cardinality(Threads \ {t}) * MinPooled
    BY <1>1, Products
  <1>4. (Cardinality(Threads) - 1) * MinPooled = MinPooled * (Cardinality(Threads) - 1)
    BY <1>1
  <1>5. Refilled = Cardinality(Threads \ {t}) * MinPooled
    BY <1>2, <1>4 DEF Refilled
  <1>6. Cardinality(Threads \ {t}) * MinPooled \in Nat
    BY <1>1, <1>2
  <1> QED  BY <1>3, <1>5, <1>6

\* The sets are finite.
LEMMA PoolSize ==
  ASSUME PoolAssumption, NEW P \in SUBSET Backups, NEW Q \in SUBSET (Threads \X (1..MinPooled))
  PROVE  IsFiniteSet(P) /\ IsFiniteSet(Q) /\ Cardinality(P) \in Nat /\ Cardinality(Q) \in Nat
  <1>1. IsFiniteSet(Threads \X (1..MinPooled))
    BY Products DEF PoolAssumption
  <1> QED  BY <1>1, FS_Subset, FS_CardinalityType DEF PoolAssumption

LEMMA Sizes ==
  ASSUME PoolAssumption
  PROVE  /\ IsFiniteSet(PoolRids) /\ Cardinality(PoolRids) \in Nat
         /\ IsFiniteSet(Refilling) /\ Cardinality(Refilling) \in Nat
         /\ IsFiniteSet(PoolRids') /\ Cardinality(PoolRids') \in Nat
         /\ IsFiniteSet(Refilling') /\ Cardinality(Refilling') \in Nat
  <1>1. /\ PoolRids \in SUBSET Backups /\ PoolRids' \in SUBSET Backups
        /\ Refilling \in SUBSET (Threads \X (1..MinPooled))
        /\ Refilling' \in SUBSET (Threads \X (1..MinPooled))
    BY DEF PoolRids, Refilling
  <1> QED  BY <1>1, PoolSize

\* The limit is a bound: what is below it stays below it.
LEMMA LimitDown ==
  ASSUME PoolAssumption, NEW m \in Int, NEW n \in Int, m <= n, Limit(n)
  PROVE  Limit(m)
  <1>1. Refilled \in Nat /\ MinPooled \in Nat /\ MaxPooled \in Nat
    BY RefilledOfOthers DEF PoolAssumption
  <1> QED  BY <1>1 DEF Limit

LEMMA Within ==
  ASSUME PoolAssumption, NEW n \in Nat,
         n <= MinPooled + Refilled \/ n < MaxPooled + Refilled \/ n <= MaxPooled
  PROVE  Limit(n) /\ Limit(n - 1)
  <1>1. Refilled \in Nat /\ MinPooled \in Nat /\ MaxPooled \in Nat
    BY RefilledOfOthers DEF PoolAssumption
  <1>2. Limit(n)
    BY DEF Limit
  <1>3. n - 1 <= MinPooled + Refilled \/ n - 1 < MaxPooled + Refilled \/ n - 1 <= MaxPooled
    BY <1>1
  <1> QED  BY <1>2, <1>3 DEF Limit

\* A step that adds no row and decides to add none.
LEMMA FewerPledged ==
  ASSUME PoolAssumption, PoolKept, RefillKept
  PROVE  /\ Pledged' <= Pledged /\ Pledged \in Nat /\ Pledged' \in Nat
         /\ (\E b \in PoolRids : b \notin PoolRids') => Pledged' <= Pledged - 1
  <1>1. Refilling' \subseteq Refilling
    BY DEF Refilling, RefillKept
  <1>2. Cardinality(Refilling') <= Cardinality(Refilling)
    BY <1>1, Sizes, FS_Subset
  <1>3. Cardinality(PoolRids') <= Cardinality(PoolRids)
    BY Sizes, FS_Subset DEF PoolKept
  <1>4. ASSUME NEW b \in PoolRids, b \notin PoolRids' PROVE Cardinality(PoolRids') <= Cardinality(PoolRids) - 1
    <2>1. PoolRids' \in SUBSET (PoolRids \ {b})
      BY <1>4 DEF PoolKept
    <2>2. IsFiniteSet(PoolRids \ {b}) /\ Cardinality(PoolRids \ {b}) = Cardinality(PoolRids) - 1
      BY <1>4, Sizes, FS_RemoveElement
    <2> QED  BY <2>1, <2>2, FS_Subset
  <1> QED  BY <1>2, <1>3, <1>4, Sizes DEF Pledged

\* An ordinary step.
LEMMA CountFrame ==
  ASSUME PoolAssumption, Counted, PoolKept, RefillKept, BootKept,
         UncountedKept \/ \E b \in PoolRids : b \notin PoolRids'
  PROVE  Counted'
  <1>1. \A t \in Threads : pc'[t] = "aRefill" => short'[t] <= MinPooled
    BY DEF Counted, RefillKept
  <1>2. /\ Pledged' <= Pledged /\ Pledged \in Nat /\ Pledged' \in Nat
        /\ (\E b \in PoolRids : b \notin PoolRids') => Pledged' <= Pledged - 1
    BY FewerPledged
  <1>3. Limit(Pledged' - 1)
    BY <1>2, LimitDown DEF Counted
  <1>4. ASSUME (~Booting \/ ret[Main] = "bEnd")', \A t \in Threads : ~Uncounted(t)' PROVE Limit(Pledged')
    <2>1. CASE UncountedKept
      <3>1. Limit(Pledged)
        BY <1>4, <2>1 DEF Counted, BootKept, UncountedKept
      <3> QED  BY <1>2, <3>1, LimitDown
    <2>2. CASE \E b \in PoolRids : b \notin PoolRids'
      BY <1>2, <2>2, LimitDown DEF Counted
    <2> QED  BY <2>1, <2>2
  <1>5. Limit(Pledged)' = Limit(Pledged') /\ Limit(Pledged - 1)' = Limit(Pledged' - 1)
    BY DEF Limit, Refilled
  <1> QED  BY <1>1, <1>3, <1>4, <1>5 DEF Counted

USE DEF dbVars, lockVars, locals, jobVars, hkVars, Goto

\* A row enters the pool by its status.
LEMMA PoolKeptRows ==
  ASSUME \A b \in Backups : binding'[b].status \in Pooled => binding[b].status \in Pooled
  PROVE  PoolKept
  BY DEF PoolKept, PoolRids

\* A step of a thread after the start-up check, in which the others stay where they are.
Passes(t) == \A u \in Threads \ {t} : pc'[u] = pc[u] /\ ret'[u] = ret[u] /\ short'[u] = short[u]
LEMMA PassesKept ==
  ASSUME OInv, NEW t \in Threads, Passes(t), pc[t] # "idle" \/ ~Booting,
         pc[t] \notin {"mark", "spawn", "bClean", "bCount"}, pc'[t] # "aRefill"
  PROVE  RefillKept /\ BootKept /\ ((Uncounted(t) => Uncounted(t)') => UncountedKept)
  <1>1. RefillKept
    BY DEF RefillKept, Passes
  <1>2. BootKept
    BY DEF OInv, Control, BootAlone, BootLabels, BootKept, Booting, Passes
  <1>3. (Uncounted(t) => Uncounted(t)') => UncountedKept
    BY DEF Uncounted, Clears, UncountedKept, Passes
  <1> QED  BY <1>1, <1>2, <1>3

\* The steps of a thread.
LEMMA MarkCount == ASSUME PoolAssumption, IInv, OInv, Counted, NEW t \in Threads, Mark(t) PROVE Counted'
  <1>1. PoolKept
    <2>1. SetStatus({x.rid : x \in todo[t]}, "PENDING_DELETE")
      BY DEF Mark
    <2> QED  BY <2>1, PoolKeptRows DEF SetStatus, Pooled, Rids
  <1>2. RefillKept /\ BootKept /\ UncountedKept
    BY DEF Mark, RefillKept, BootKept, Booting, UncountedKept, Uncounted, Clears, IInv, TypeOK
  <1> QED  BY <1>1, <1>2, CountFrame

LEMMA SpawnCount ==
  ASSUME PoolAssumption, IInv, OInv, Counted, NEW t \in Threads, SpawnDelete(t) \/ SpawnEnd(t) \/ SpawnReturn(t)
  PROVE  Counted'
  <1>1. PoolKept
    BY PoolKeptRows DEF SpawnDelete, SpawnEnd, SpawnReturn
  <1>2. CASE SpawnDelete(t)
    <2>1. RefillKept /\ BootKept /\ UncountedKept
      BY <1>2 DEF SpawnDelete, RefillKept, BootKept, Booting, UncountedKept, Uncounted, Clears
    <2> QED  BY <1>1, <2>1, CountFrame
  <1>3. CASE SpawnEnd(t)
    <2>1. ret[t] \in {"bCount", "aList", "aPick", "fCount"}
      BY <1>3 DEF SpawnEnd, IInv, TypeOK, Shape
    <2>2. RefillKept /\ UncountedKept
      BY <1>3, <2>1 DEF SpawnEnd, RefillKept, UncountedKept, Uncounted, Clears, IInv, TypeOK
    <2>3. BootKept
      BY <1>3, <2>1 DEF SpawnEnd, BootKept, Booting, OInv, Control, MainBoots, BootAlone, IInv, TypeOK,
         PoolAssumption
    <2> QED  BY <1>1, <2>2, <2>3, CountFrame
  <1>4. CASE SpawnReturn(t)
    <2>1. RefillKept /\ UncountedKept
      BY <1>4 DEF SpawnReturn, Finish, RefillKept, UncountedKept, Uncounted, Clears, IInv, TypeOK
    <2>2. BootKept
      BY <1>4 DEF SpawnReturn, Finish, BootKept, Booting, OInv, Control, BootAlone, IInv, TypeOK,
         PoolAssumption
    <2> QED  BY <1>1, <2>1, <2>2, CountFrame
  <1> QED  BY <1>2, <1>3, <1>4

\* Those that leave the rows of the pool alone.
LEMMA StartCount ==
  ASSUME PoolAssumption, IInv, OInv, Counted, NEW t \in Threads, NEW r \in Routers,
         StartAlloc(t, r) \/ StartFree(t, r)
  PROVE  Counted'
  <1>1. PoolKept
    BY PoolKeptRows DEF StartAlloc, StartFree, dbVars
  <1>2. Passes(t) /\ pc[t] = "idle" /\ ~Booting /\ pc'[t] \in {"aLock", "fLock"} /\ ~Uncounted(t)
    BY DEF StartAlloc, StartFree, Passes, Uncounted, Clears, IInv, TypeOK
  <1> QED  BY <1>1, <1>2, PassesKept, CountFrame

LEMMA ReadingCount ==
  ASSUME PoolAssumption, IInv, OInv, Counted, NEW t \in Threads,
         \/ AllocLock(t) \/ AllocList(t) \/ AllocPick(t) \/ AllocNone(t) \/ AllocEdge(t) \/ AllocLost(t)
         \/ AllocDeployed(t) \/ FreeLock(t) \/ FreeClean(t) \/ FreeVnics(t)
  PROVE  Counted'
  <1>1. PoolKept
    BY PoolKeptRows DEF AllocLock, AllocList, AllocPick, AllocNone, AllocEdge, AllocLost, AllocDeployed,
       FreeLock, FreeClean, FreeVnics, dbVars
  <1>2. CASE AllocLock(t) \/ AllocList(t) \/ AllocPick(t) \/ AllocNone(t) \/ AllocEdge(t) \/ FreeClean(t)
    <2>1. /\ Passes(t) /\ pc[t] \notin {"idle", "mark", "spawn", "bClean", "bCount"} /\ pc'[t] # "aRefill"
          /\ Uncounted(t) => Uncounted(t)'
      BY <1>2 DEF AllocLock, AllocList, AllocPick, AllocNone, AllocEdge, FreeClean, BeginClean, Passes,
         Uncounted, Clears, IInv, TypeOK
    <2> QED  BY <1>1, <2>1, PassesKept, CountFrame
  <1>3. CASE AllocLost(t) \/ AllocDeployed(t) \/ FreeLock(t) \/ FreeVnics(t)
    <2>1. /\ Passes(t) /\ pc[t] \notin {"idle", "mark", "spawn", "bClean", "bCount"} /\ pc'[t] # "aRefill"
          /\ ~Uncounted(t)
      BY <1>3 DEF AllocLost, AllocDeployed, FreeLock, FreeVnics, Finish, Passes, Uncounted, Clears, IInv,
         TypeOK
    <2> QED  BY <1>1, <2>1, PassesKept, CountFrame
  <1> QED  BY <1>2, <1>3

\* Those that write the row of a router.
LEMMA RouterCount ==
  ASSUME PoolAssumption, IInv, OInv, Counted, NEW t \in Threads,
         AllocBind(t) \/ AllocDone(t) \/ AllocAdd(t) \/ FreeUnbind(t)
  PROVE  Counted'
  <1>1. rtr[t] \in Routers /\ rtr[t] \notin Backups /\ pc[t] \in {"aBind", "aDone", "aAdd", "fUnbind"}
    BY DEF AllocBind, AllocDone, AllocAdd, FreeUnbind, IInv, Shape, PoolAssumption
  <1>2. PoolKept
    <2>1. \A b \in Backups : binding'[b] = binding[b]
      BY <1>1 DEF AllocBind, AllocDone, AllocAdd, FreeUnbind, AddRow, DeleteRow, SetStatus, IInv, TypeOK, Rids
    <2> QED  BY <2>1, PoolKeptRows
  <1>3. Passes(t) /\ pc'[t] # "aRefill" /\ ~Uncounted(t)
    BY <1>1 DEF AllocBind, AllocDone, AllocAdd, FreeUnbind, Finish, Passes, Uncounted, Clears, IInv, TypeOK
  <1> QED  BY <1>1, <1>2, <1>3, PassesKept, CountFrame

\* Those that write the row of a backup edge that is in the pool, or take it out.
LEMMA RowCount ==
  ASSUME PoolAssumption, IInv, OInv, Counted, NEW t \in Threads,
         AllocTake(t) \/ AllocUnbind(t) \/ AllocDiscard(t) \/ FreeUpdate(t) \/ FreePool(t)
  PROVE  Counted'
  <1>1. Holds(t) /\ pc[t] \in {"aTake", "aUnbind", "aPick", "fUpdate", "fPool"}
    BY DEF OInv, AllocTake, AllocUnbind, AllocDiscard, FreeUpdate, FreePool
  <1>2. PICK b : b = bak[t]
    OBVIOUS
  <1>3. CASE AllocTake(t)
    <2>1. binding[b] = [status |-> "ACTIVE", edge |-> eid[t]]
      BY <1>1, <1>2, <1>3 DEF AllocTake, Holds, RowIs
    <2>2. binding[b].status \in Pooled
      BY <2>1 DEF Pooled
    <2>3. PoolKept
      BY <1>2, <1>3, <2>2, PoolKeptRows DEF AllocTake, SetStatus, Rids
    <2>4. Passes(t) /\ pc'[t] # "aRefill" /\ ~Uncounted(t) /\ pc[t] = "aTake"
      BY <1>3 DEF AllocTake, Passes, Uncounted, Clears, IInv, TypeOK
    <2> QED  BY <2>3, <2>4, PassesKept, CountFrame
  <1>4. CASE AllocUnbind(t)
    <2>1. PoolKept
      BY <1>4, PoolKeptRows DEF AllocUnbind, DeleteRow, NoRow, Pooled, IInv, TypeOK, Rids
    <2>2. Passes(t) /\ pc'[t] # "aRefill" /\ ~Uncounted(t) /\ pc[t] = "aUnbind"
      BY <1>4 DEF AllocUnbind, Passes, Uncounted, Clears, IInv, TypeOK
    <2> QED  BY <2>1, <2>2, PassesKept, CountFrame
  <1>5. CASE AllocDiscard(t)
    <2>1. PoolKept
      BY <1>5, PoolKeptRows DEF AllocDiscard, Discard, SetStatus, Pooled, Rids
    <2>2. Passes(t) /\ pc'[t] # "aRefill" /\ ~Uncounted(t) /\ pc[t] = "aPick"
      BY <1>5 DEF AllocDiscard, Discard, Passes, Uncounted, Clears, IInv, TypeOK
    <2> QED  BY <2>1, <2>2, PassesKept, CountFrame
  <1>6. CASE FreeUpdate(t)
    <2>1. PoolKept
      <3>1. CASE UNCHANGED binding
        BY <3>1, PoolKeptRows
      <3>2. CASE SetStatus({bak[t]}, "ERROR")
        BY <3>2, PoolKeptRows DEF SetStatus, Pooled, Rids
      <3> QED  BY <1>6, <3>1, <3>2 DEF FreeUpdate
    <2>2. Passes(t) /\ pc'[t] # "aRefill" /\ ~Uncounted(t) /\ pc[t] = "fUpdate"
      BY <1>6 DEF FreeUpdate, Passes, Uncounted, Clears, IInv, TypeOK
    <2> QED  BY <2>1, <2>2, PassesKept, CountFrame
  <1>7. CASE FreePool(t)
    <2>1. binding[b] = [status |-> "PENDING_UPDATE", edge |-> eid[t]]
      BY <1>1, <1>2, <1>7 DEF FreePool, Holds, RowIs, Renews
    <2>2. binding[b].status \in Pooled
      BY <2>1 DEF Pooled
    <2>3. PoolKept
      BY <1>2, <1>7, <2>2, PoolKeptRows DEF FreePool, SetStatus, Rids
    <2>4. Passes(t) /\ pc'[t] # "aRefill" /\ ~Uncounted(t) /\ pc[t] = "fPool"
      BY <1>7 DEF FreePool, Finish, Passes, Uncounted, Clears, IInv, TypeOK
    <2> QED  BY <2>3, <2>4, PassesKept, CountFrame
  <1> QED  BY <1>3, <1>4, <1>5, <1>6, <1>7

\* The refill counts the pool, and decides to add what is missing.
LEMMA AllocCountCount ==
  ASSUME PoolAssumption, IInv, OInv, Counted, NEW t \in Threads, AllocCount(t)
  PROVE  Counted'
  <1>1. /\ pc[t] = "aCount" /\ pc'[t] = "aRefill" /\ UNCHANGED <<binding, ret>>
        /\ short'[t] = IF Cardinality(PoolRids) < MinPooled THEN MinPooled - Cardinality(PoolRids) ELSE 0
        /\ \A u \in Threads \ {t} : pc'[u] = pc[u] /\ short'[u] = short[u]
    BY DEF AllocCount, IInv, TypeOK
  <1>2. PoolRids' = PoolRids
    BY <1>1 DEF PoolRids
  <1>3. /\ Cardinality(PoolRids) \in Nat /\ Cardinality(Refilling) \in Nat
        /\ Cardinality(Refilling') \in Nat /\ MinPooled \in Nat /\ MaxPooled \in Nat
        /\ Refilled \in Nat /\ Cardinality((Threads \ {t}) \X (1..MinPooled)) = Refilled
    BY Sizes, RefilledOfOthers DEF PoolAssumption
  <1>4. \A u \in Threads : pc'[u] = "aRefill" => short'[u] <= MinPooled
    BY <1>1, <1>3 DEF Counted
  <1>5. ~Booting /\ ~Booting' /\ (\A u \in Threads : Uncounted(u)' <=> Uncounted(u))
    <2>1. ~Booting
      BY <1>1 DEF OInv, Control, BootAlone, BootLabels
    <2>2. ~Booting'
      BY <1>1, <2>1 DEF Booting, IInv, TypeOK
    <2>3. \A u \in Threads : Uncounted(u)' <=> Uncounted(u)
      BY <1>1 DEF Uncounted, Clears
    <2> QED  BY <2>1, <2>2, <2>3
  <1>6. CASE Cardinality(PoolRids) >= MinPooled
    <2>1. short'[t] = 0
      BY <1>1, <1>3, <1>6
    <2>2. Refilling' = Refilling
      BY <1>1, <2>1 DEF Refilling
    <2>3. Pledged' = Pledged
      BY <1>2, <2>2 DEF Pledged
    <2> QED  BY <1>4, <1>5, <2>3 DEF Counted, Limit, Refilled
  <1>7. CASE Cardinality(PoolRids) < MinPooled
    <2> DEFINE others == (Threads \ {t}) \X (1..MinPooled)
               mine == {t} \X (1..short'[t])
    <2>1. short'[t] = MinPooled - Cardinality(PoolRids) /\ short'[t] \in Nat
      BY <1>1, <1>3, <1>7
    <2>2. Refilling' \subseteq others \cup mine
      BY <1>1, <2>1 DEF Refilling
    <2>3. IsFiniteSet(others) /\ Cardinality(others) = Refilled
      BY <1>3, Products DEF PoolAssumption
    <2>4. IsFiniteSet(mine) /\ Cardinality(mine) = short'[t]
      <3>1. Cardinality({t}) = 1
        BY FS_Singleton
      <3>2. Cardinality({t}) * short'[t] = short'[t]
        BY <2>1, <3>1
      <3> QED  BY <2>1, <3>2, Products
    <2> HIDE DEF others, mine
    <2>5. Cardinality(Refilling') <= Refilled + short'[t]
      <3>1. IsFiniteSet(others \cup mine)
        BY <2>3, <2>4, FS_Union
      <3>2. Cardinality(others \cup mine) = Refilled + short'[t] - Cardinality(others \cap mine)
        BY <2>3, <2>4, FS_Union
      <3>3. Cardinality(others \cap mine) \in Nat /\ Cardinality(others \cup mine) \in Nat
        BY <2>3, <3>1, FS_Intersection, FS_CardinalityType
      <3>4. Cardinality(Refilling') <= Cardinality(others \cup mine)
        BY <2>2, <3>1, FS_Subset
      <3> QED  BY <1>3, <2>1, <3>2, <3>3, <3>4
    <2>6. Pledged' <= MinPooled + Refilled
      BY <1>2, <1>3, <2>1, <2>5 DEF Pledged
    <2>7. Pledged' \in Nat
      BY <1>2, <1>3 DEF Pledged
    <2>8. Limit(Pledged') /\ Limit(Pledged' - 1)
      BY <2>6, <2>7, Within
    <2>9. Limit(Pledged)' /\ Limit(Pledged - 1)'
      BY <2>8 DEF Limit, Refilled
    <2> QED  BY <1>4, <2>9 DEF Counted
  <1> QED  BY <1>3, <1>6, <1>7

\* The rows that are added were pledged before.
LEMMA AllocRefillCount ==
  ASSUME PoolAssumption, IInv, OInv, Counted, NEW t \in Threads, AllocRefill(t)
  PROVE  Counted'
  <1>1. PICK new \in SUBSET FreshBackups : Cardinality(new) = short[t] /\ AddBackups(new)
    BY DEF AllocRefill
  <1>2. /\ pc[t] = "aRefill" /\ pc'[t] = "idle" /\ ret'[t] = "idle"
        /\ \A u \in Threads \ {t} : pc'[u] = pc[u] /\ ret'[u] = ret[u] /\ short'[u] = short[u]
    BY DEF AllocRefill, Finish, IInv, TypeOK
  <1>3. new \subseteq Backups /\ new \cap PoolRids = {} /\ PoolRids' = PoolRids \cup new
    <2>1. \A b \in new : b \in Backups /\ b \notin RidsInUse
      BY <1>1 DEF FreshBackups
    <2>2. \A b \in new : binding[b].status = "NONE"
      BY <2>1 DEF RidsInUse, Exists, Rids
    <2>3. new \subseteq Backups /\ new \cap PoolRids = {}
      BY <2>1, <2>2 DEF PoolRids, Pooled
    <2>4. \A b \in Backups : binding'[b] = IF b \in new THEN [status |-> "PENDING_CREATE", edge |-> NoEdge]
                                           ELSE binding[b]
      BY <1>1 DEF AddBackups, Rids
    <2>5. \A b \in Backups : binding'[b].status \in Pooled <=> (b \in new \/ binding[b].status \in Pooled)
      BY <2>4 DEF Pooled
    <2> QED  BY <2>3, <2>5 DEF PoolRids
  <1>4. Cardinality(PoolRids') = Cardinality(PoolRids) + short[t]
    <2>1. IsFiniteSet(new) /\ Cardinality(new) \in Nat
      BY <1>3, PoolSize
    <2>2. Cardinality(PoolRids \cap new) = 0
      BY <1>3, FS_EmptySet
    <2>3. Cardinality(PoolRids \cup new) = Cardinality(PoolRids) + Cardinality(new) - 0
      BY <2>1, <2>2, Sizes, FS_Union
    <2> QED  BY <1>1, <1>3, <2>1, <2>3, Sizes
  <1> DEFINE mine == {t} \X (1..short[t])
  <1>5. short[t] \in Nat /\ short[t] <= MinPooled /\ MinPooled \in Nat
    BY <1>2 DEF Counted, IInv, TypeOK, PoolAssumption
  <1>6. mine \subseteq Refilling /\ Refilling' = Refilling \ mine
    <2>1. mine \subseteq Refilling
      BY <1>2, <1>5 DEF Refilling
    <2>2. Refilling' \subseteq Refilling \ mine
      BY <1>2 DEF Refilling
    <2>3. Refilling \ mine \subseteq Refilling'
      BY <1>2, <1>5 DEF Refilling
    <2> QED  BY <2>1, <2>2, <2>3
  <1>7. IsFiniteSet(mine) /\ Cardinality(mine) = short[t]
    <2>1. Cardinality({t}) = 1
      BY FS_Singleton
    <2>2. Cardinality({t}) * short[t] = short[t]
      BY <1>5, <2>1
    <2> QED  BY <1>5, <2>2, Products
  <1> HIDE DEF mine
  <1>8. Cardinality(Refilling') = Cardinality(Refilling) - short[t]
    <2>1. Refilling \cap mine = mine
      BY <1>6
    <2> QED  BY <1>6, <1>7, <2>1, Sizes, FS_Difference
  <1>9. Pledged' = Pledged
    BY <1>4, <1>5, <1>8, Sizes DEF Pledged
  <1>10. ~Booting /\ (\A u \in Threads : Uncounted(u)' <=> Uncounted(u))
    <2>1. ~Booting
      BY <1>2 DEF OInv, Control, BootAlone, BootLabels
    <2>2. \A u \in Threads : Uncounted(u)' <=> Uncounted(u)
      BY <1>2 DEF Uncounted, Clears
    <2> QED  BY <2>1, <2>2
  <1>11. \A u \in Threads : pc'[u] = "aRefill" => short'[u] <= MinPooled
    BY <1>2 DEF Counted
  <1> QED  BY <1>9, <1>10, <1>11 DEF Counted, Limit, Refilled

\* The edge that is collected is added first; no other is at the time.
LEMMA FreeAddCount ==
  ASSUME PoolAssumption, IInv, OInv, Counted, NEW t \in Threads, FreeAdd(t)
  PROVE  Counted'
  <1>1. PICK b \in FreshBackups : AddRow(b, eid[t], "PENDING_UPDATE")
    BY DEF FreeAdd
  <1>2. /\ pc[t] = "fAdd" /\ pc'[t] = "fCheck" /\ UNCHANGED <<ret, short>>
        /\ \A u \in Threads \ {t} : pc'[u] = pc[u]
    BY DEF FreeAdd, IInv, TypeOK
  <1>3. \A u \in Threads : ~Uncounted(u)
    BY <1>2 DEF IInv, Section, InSection, Uncounted, Clears, FreeLabels
  <1>4. ~Booting
    BY <1>2 DEF OInv, Control, BootAlone, BootLabels
  <1>5. Limit(Pledged)
    BY <1>3, <1>4 DEF Counted
  <1>6. PoolRids' \subseteq PoolRids \cup {b}
    BY <1>1 DEF AddRow, PoolRids, IInv, TypeOK, Rids
  <1>7. Cardinality(PoolRids') <= Cardinality(PoolRids) + 1
    <2>1. IsFiniteSet(PoolRids \cup {b}) /\ Cardinality(PoolRids \cup {b}) <= Cardinality(PoolRids) + 1
      <3>1. /\ IsFiniteSet(PoolRids \cup {b})
            /\ Cardinality(PoolRids \cup {b}) = IF b \in PoolRids THEN Cardinality(PoolRids)
                                                ELSE Cardinality(PoolRids) + 1
        BY Sizes, FS_AddElement
      <3> QED  BY <3>1, Sizes
    <2>2. Cardinality(PoolRids') <= Cardinality(PoolRids \cup {b})
      BY <1>6, <2>1, FS_Subset
    <2>3. Cardinality(PoolRids \cup {b}) \in Nat
      BY <2>1, FS_CardinalityType
    <2> QED  BY <2>1, <2>2, <2>3, Sizes
  <1>8. Refilling' = Refilling
    BY <1>2 DEF Refilling
  <1>9. Limit(Pledged' - 1)
    <2>1. Pledged' - 1 <= Pledged /\ Pledged \in Int /\ Pledged' - 1 \in Int
      BY <1>7, <1>8, Sizes DEF Pledged
    <2> QED  BY <1>5, <2>1, LimitDown
  <1>10. Uncounted(t)'
    BY <1>2 DEF Uncounted
  <1>11. \A u \in Threads : pc'[u] = "aRefill" => short'[u] <= MinPooled
    BY <1>2 DEF Counted
  <1> QED  BY <1>9, <1>10, <1>11 DEF Counted, Limit, Refilled

\* An edge that is discarded, at once or as surplus, leaves the pool.
LEMMA FreeDiscardCount ==
  ASSUME PoolAssumption, IInv, OInv, Counted, NEW t \in Threads, FreeDiscard(t) \/ FreeSurplus(t)
  PROVE  Counted'
  <1>1. PICK b : b = bak[t]
    OBVIOUS
  <1>2. pc[t] \in {"fCheck", "fCount"} /\ SetStatus({b}, "PENDING_DELETE") /\ pc'[t] = "spawn"
    BY <1>1 DEF FreeDiscard, FreeSurplus, Discard, IInv, TypeOK
  <1>3. b \in Backups /\ Holds(t) /\ Renews(t)
    BY <1>1, <1>2 DEF IInv, Shape, Collected, OInv, Renews
  <1>4. binding[b] = [status |-> "PENDING_UPDATE", edge |-> eid[t]]
    BY <1>1, <1>3 DEF Holds, RowIs
  <1>5. binding[b].status = "PENDING_UPDATE" /\ binding'[b].status = "PENDING_DELETE"
    <2>1. binding[b].status = "PENDING_UPDATE"
      BY <1>4
    <2> QED  BY <1>2, <1>3, <2>1 DEF SetStatus, Exists, Rids, IInv, TypeOK, Row
  <1>6. b \in PoolRids /\ b \notin PoolRids'
    BY <1>3, <1>5 DEF PoolRids, Pooled
  <1>7. PoolKept
    BY <1>2, PoolKeptRows DEF SetStatus, Pooled, Rids
  <1>8. Passes(t) /\ pc'[t] # "aRefill"
    BY <1>2 DEF FreeDiscard, FreeSurplus, Discard, Passes, IInv, TypeOK
  <1>9. RefillKept /\ BootKept
    BY <1>2, <1>8, PassesKept
  <1> QED  BY <1>6, <1>7, <1>9, CountFrame

\* An edge that is kept has been counted, with the rows that are in the pool.
LEMMA FreeCollectCount ==
  ASSUME PoolAssumption, IInv, OInv, Counted, NEW t \in Threads, FreeCollect(t)
  PROVE  Counted'
  <1>1. /\ pc[t] = "fCount" /\ pc'[t] = "fUpdate" /\ UNCHANGED <<binding, ret, short>>
        /\ Cardinality(PoolRids) < MaxPooled /\ \A u \in Threads \ {t} : pc'[u] = pc[u]
    BY DEF FreeCollect, IInv, TypeOK
  <1>2. PoolRids' = PoolRids /\ Refilling' = Refilling
    BY <1>1 DEF PoolRids, Refilling
  <1>3. Cardinality(Refilling) <= Refilled
    <2>1. Refilling \subseteq (Threads \ {t}) \X (1..MinPooled)
      BY <1>1 DEF Refilling
    <2>2. IsFiniteSet((Threads \ {t}) \X (1..MinPooled))
      BY Products DEF PoolAssumption
    <2> QED  BY <2>1, <2>2, RefilledOfOthers, FS_Subset
  <1>4. Pledged' < MaxPooled + Refilled /\ Pledged' \in Nat /\ Refilled \in Nat /\ MaxPooled \in Nat
    <2>1. /\ Cardinality(PoolRids) \in Nat /\ Cardinality(Refilling) \in Nat /\ Refilled \in Nat
          /\ MaxPooled \in Nat
      BY Sizes, RefilledOfOthers DEF PoolAssumption
    <2>2. Pledged' = Cardinality(PoolRids) + Cardinality(Refilling)
      BY <1>2 DEF Pledged
    <2> QED  BY <1>1, <1>3, <2>1, <2>2
  <1>5. Limit(Pledged)' /\ Limit(Pledged - 1)'
    <2>1. Limit(Pledged') /\ Limit(Pledged' - 1)
      BY <1>4, Within
    <2> QED  BY <2>1 DEF Limit, Refilled
  <1>6. \A u \in Threads : pc'[u] = "aRefill" => short'[u] <= MinPooled
    BY <1>1 DEF Counted
  <1> QED  BY <1>5, <1>6 DEF Counted

\* The start-up check reads the late rows, then fills the pool or trims it.
LEMMA BootCleanCount == ASSUME PoolAssumption, IInv, OInv, Counted, BootClean PROVE Counted'
  <1>1. PoolKept
    BY PoolKeptRows DEF BootClean
  <1>2. /\ pc[Main] = "bClean" /\ pc'[Main] = "mark" /\ ret'[Main] = "bCount" /\ UNCHANGED short
        /\ \A u \in Threads \ {Main} : pc'[u] = pc[u] /\ ret'[u] = ret[u]
    BY DEF BootClean, BeginClean, IInv, TypeOK, PoolAssumption
  <1>3. RefillKept /\ UncountedKept /\ BootKept
    BY <1>2 DEF RefillKept, UncountedKept, BootKept, Uncounted, Clears, Booting
  <1> QED  BY <1>1, <1>3, CountFrame

\* Nobody refills or collects while EdgeManager is constructed.
LEMMA BootPledged ==
  ASSUME PoolAssumption, IInv, OInv, Counted, NEW n \in Nat, pc[Main] \in {"bClean", "bCount"},
         \A t \in Threads \ {Main} : pc'[t] = pc[t], pc'[Main] \in {"idle", "spawn"},
         Cardinality(PoolRids') <= n, n <= MinPooled \/ n <= MaxPooled
  PROVE  Counted'
  <1>1. \A t \in Threads : pc'[t] # "aRefill"
    BY DEF OInv, Control, BootAlone, Booting, BootLabels
  <1>2. Refilling' = {}
    BY <1>1 DEF Refilling
  <1>3. Pledged' = Cardinality(PoolRids')
    BY <1>2, FS_EmptySet, Sizes DEF Pledged
  <1>4. Limit(Pledged') /\ Limit(Pledged' - 1)
    <2>1. Cardinality(PoolRids') \in Nat /\ Refilled \in Nat /\ MinPooled \in Nat /\ MaxPooled \in Nat
      BY Sizes, RefilledOfOthers DEF PoolAssumption
    <2> QED  BY <1>3, <2>1 DEF Limit
  <1>5. Limit(Pledged)' /\ Limit(Pledged - 1)'
    BY <1>4 DEF Limit, Refilled
  <1> QED  BY <1>1, <1>5 DEF Counted

LEMMA BootFillCount == ASSUME PoolAssumption, IInv, OInv, Counted, BootFill PROVE Counted'
  <1>1. PICK new \in SUBSET FreshBackups :
          /\ Cardinality(new) = IF Cardinality(PoolRids) < MinPooled
                                THEN MinPooled - Cardinality(PoolRids) ELSE 0
          /\ AddBackups(new)
    BY DEF BootFill
  <1>2. /\ pc[Main] = "bCount" /\ pc'[Main] = "idle" /\ Cardinality(PoolRids) <= MaxPooled
        /\ \A u \in Threads \ {Main} : pc'[u] = pc[u]
    BY DEF BootFill, Finish, IInv, TypeOK, PoolAssumption
  <1>3. PoolRids' \subseteq PoolRids \cup new /\ new \subseteq Backups
    BY <1>1 DEF AddBackups, PoolRids, Rids, FreshBackups
  <1>4. /\ Cardinality(PoolRids) \in Nat /\ Cardinality(PoolRids') \in Nat
        /\ MinPooled \in Nat /\ MaxPooled \in Nat
    BY Sizes DEF PoolAssumption
  <1>5. Cardinality(PoolRids') <= Cardinality(PoolRids) + Cardinality(new)
    <2>1. IsFiniteSet(new) /\ Cardinality(new) \in Nat
      BY <1>3, PoolSize
    <2>2. /\ IsFiniteSet(PoolRids \cup new)
          /\ Cardinality(PoolRids \cup new) = Cardinality(PoolRids) + Cardinality(new) - Cardinality(PoolRids \cap new)
      BY <2>1, Sizes, FS_Union
    <2>3. Cardinality(PoolRids \cap new) \in Nat /\ Cardinality(PoolRids \cup new) \in Nat
      BY <2>2, Sizes, FS_Intersection, FS_CardinalityType
    <2>4. Cardinality(PoolRids') <= Cardinality(PoolRids \cup new)
      BY <1>3, <2>2, FS_Subset
    <2> QED  BY <1>4, <2>1, <2>2, <2>3, <2>4
  <1>6. CASE Cardinality(PoolRids) < MinPooled
    <2>1. Cardinality(PoolRids') <= MinPooled
      BY <1>1, <1>4, <1>5, <1>6
    <2> QED  BY <1>2, <1>4, <2>1, BootPledged
  <1>7. CASE Cardinality(PoolRids) >= MinPooled
    <2>1. Cardinality(PoolRids') <= MaxPooled
      BY <1>1, <1>2, <1>4, <1>5, <1>7
    <2> QED  BY <1>2, <1>4, <2>1, BootPledged
  <1> QED  BY <1>4, <1>6, <1>7

LEMMA BootTrimCount == ASSUME PoolAssumption, IInv, OInv, Counted, BootTrim PROVE Counted'
  <1>1. PICK extra \in SUBSET PoolRids :
          /\ Cardinality(extra) = Cardinality(PoolRids) - MaxPooled
          /\ SetStatus(extra, "PENDING_DELETE")
    BY DEF BootTrim
  <1>2. /\ pc[Main] = "bCount" /\ pc'[Main] = "spawn"
        /\ \A u \in Threads \ {Main} : pc'[u] = pc[u]
    BY DEF BootTrim, IInv, TypeOK, PoolAssumption
  <1>3. PoolRids' \subseteq PoolRids \ extra
    <2>1. \A b \in extra : b \in Backups /\ binding'[b].status = "PENDING_DELETE"
      BY <1>1 DEF SetStatus, PoolRids, Pooled, Exists, Rids, IInv, TypeOK, Row
    <2>2. \A b \in Backups \ extra : binding'[b] = binding[b]
      BY <1>1 DEF SetStatus, Rids
    <2> QED  BY <2>1, <2>2 DEF PoolRids, Pooled
  <1>4. /\ Cardinality(PoolRids) \in Nat /\ Cardinality(PoolRids') \in Nat /\ MaxPooled \in Nat
    BY Sizes DEF PoolAssumption
  <1>5. Cardinality(PoolRids') <= MaxPooled
    <2>1. PoolRids \cap extra = extra
      BY <1>1
    <2>2. IsFiniteSet(PoolRids \ extra) /\ Cardinality(PoolRids \ extra) = Cardinality(PoolRids) - Cardinality(extra)
      BY <2>1, Sizes, FS_Difference
    <2>3. Cardinality(PoolRids') <= Cardinality(PoolRids \ extra)
      BY <1>3, <2>2, FS_Subset
    <2> QED  BY <1>1, <1>4, <2>2, <2>3
  <1> QED  BY <1>2, <1>4, <1>5, BootPledged

\* Nothing else adds to the pool: not the workers, whose deployments are of rows that are
\* in it, and not a restart, which the start-up check follows.
LEMMA WorkerCount ==
  ASSUME PoolAssumption, ~HostGroups, IInv, OInv, Counted, Worker
  PROVE  Counted'
  <1>1. UNCHANGED <<pc, ret, short>>
    BY DEF Worker, DeployStart, DeployStep, DeployBackend, DeployRecord, DeployVnics, DeployDone,
       DeployGroups, DeployUndo, DeleteDb, DeleteBackend
  <1>2. RefillKept /\ BootKept /\ UncountedKept
    BY <1>1 DEF RefillKept, BootKept, UncountedKept, Booting, Uncounted, Clears
  <1>3. PoolKept
    <2>1. ASSUME NEW rid \in Rids, DeployStep(rid) PROVE PoolKept
      <3>1. CASE DeployBackend(rid) \/ DeployVnics(rid) \/ DeployGroups(rid)
        BY <3>1, PoolKeptRows DEF DeployBackend, DeployVnics, DeployGroups
      <3>2. CASE DeployRecord(rid)
        <4>1. \A b \in Backups : binding'[b].status = binding[b].status
          BY <3>2 DEF DeployRecord, IInv, TypeOK, Row, Rids
        <4> QED  BY <4>1, PoolKeptRows
      <3>3. CASE DeployDone(rid)
        <4>1. deploy[rid].stage = "done"
          BY <3>3 DEF DeployDone
        <4>2. rid \in Backups => binding[rid].status \in Pooled
          BY <4>1 DEF OInv, RowsOrderly, Deploying, Pooled
        <4>3. CASE UNCHANGED binding
          BY <4>3, PoolKeptRows
        <4>4. CASE SetStatus({rid}, "ACTIVE")
          BY <4>2, <4>4, PoolKeptRows DEF SetStatus, Rids
        <4> QED  BY <3>3, <4>3, <4>4 DEF DeployDone
      <3>4. CASE DeployUndo(rid)
        <4>1. SetStatus({rid}, "ERROR")
          BY <3>4 DEF DeployUndo
        <4> QED  BY <4>1, PoolKeptRows DEF SetStatus, Pooled, Rids
      <3> QED  BY <2>1, <3>1, <3>2, <3>3, <3>4 DEF DeployStep
    <2>2. ASSUME NEW d \in deletes, DeleteDb(d) PROVE PoolKept
      BY <2>2, PoolKeptRows DEF DeleteDb, DeleteRow, NoRow, Pooled, IInv, TypeOK, Rids
    <2>3. ASSUME NEW d \in deletes, DeleteBackend(d) PROVE PoolKept
      BY <2>3, PoolKeptRows DEF DeleteBackend
    <2>4. ASSUME NEW b \in Backups, DeployStart(b) PROVE PoolKept
      BY <2>4, PoolKeptRows DEF DeployStart
    <2> QED  BY <2>1, <2>2, <2>3, <2>4 DEF Worker
  <1> QED  BY <1>2, <1>3, CountFrame

LEMMA CrashCount == ASSUME PoolAssumption, Counted, Crash PROVE Counted'
  <1>1. /\ \A t \in Threads : pc'[t] # "aRefill" /\ ret'[t] = "idle"
        /\ pc'[Main] = "bClean" /\ Main \in Threads /\ UNCHANGED binding
    BY DEF Crash, PoolAssumption
  <1>2. Booting' /\ ret'[Main] # "bEnd" /\ RefillKept
    BY <1>1 DEF Booting, RefillKept
  <1>3. PoolKept
    BY <1>1, PoolKeptRows
  <1>4. Limit(Pledged' - 1)
    BY <1>2, <1>3, FewerPledged, LimitDown DEF Counted
  <1>5. Limit(Pledged - 1)'
    BY <1>4 DEF Limit, Refilled
  <1> QED  BY <1>1, <1>2, <1>5 DEF Counted

LEMMA InitCount == ASSUME PoolAssumption, Init PROVE Counted
  <1>1. \A t \in Threads : pc[t] # "aRefill" /\ ret[t] = "idle"
    BY DEF Init
  <1>2. Booting /\ ret[Main] # "bEnd"
    BY <1>1 DEF Init, Booting, PoolAssumption
  <1>3. PoolRids = {} /\ Refilling = {}
    BY <1>1 DEF Init, PoolRids, Pooled, NoRow, Refilling, Rids
  <1>4. Pledged = 0
    BY <1>3, FS_EmptySet DEF Pledged
  <1>5. Refilled \in Nat /\ MinPooled \in Nat /\ MaxPooled \in Nat
    BY RefilledOfOthers DEF PoolAssumption
  <1>6. Limit(Pledged - 1)
    BY <1>4, <1>5 DEF Limit
  <1> QED  BY <1>1, <1>2, <1>6 DEF Counted

\* Every step keeps the count, as long as the housekeeper repairs nothing.
LEMMA NextCount ==
  ASSUME PoolAssumption, ~HostGroups, ~MayExpire, HkReadonly, IInv, OInv, Counted, Next
  PROVE  Counted'
  <1>1. CASE Boot
    BY <1>1, BootCleanCount, BootFillCount, BootTrimCount DEF Boot
  <1>2. ASSUME NEW t \in Threads, Thread(t) PROVE Counted'
    <2>1. CASE Cleaning(t)
      BY <2>1, MarkCount, SpawnCount DEF Cleaning
    <2>2. CASE Allocating(t)
      BY <2>2, ReadingCount, RouterCount, RowCount, AllocCountCount, AllocRefillCount DEF Allocating
    <2>3. CASE Collecting(t)
      BY <2>3, ReadingCount, RouterCount, RowCount, FreeAddCount, FreeDiscardCount, FreeCollectCount
         DEF Collecting
    <2> QED  BY <1>2, <2>1, <2>2, <2>3 DEF Thread
  <1>3. ASSUME NEW t \in Threads, NEW r \in Routers, StartAlloc(t, r) \/ StartFree(t, r)
        PROVE  Counted'
    BY <1>3, StartCount
  <1>4. CASE Worker
    BY <1>4, WorkerCount
  <1>5. CASE Housekeeper
    BY <1>5 DEF Housekeeper, OInv, Control, HkAlone, HkRead, HkPick, HkEnd, HkUpdate, HkActivate, HkMark,
       HkPurge, HkDestroy
  <1>6. CASE Environment
    BY <1>6, CrashCount DEF Environment, Expire
  <1> QED  BY <1>1, <1>2, <1>3, <1>4, <1>5, <1>6 DEF Next

\* PoolBounded: whatever the interleaving of collections, which count the pool under its
\* lock, with refills, which count and add outside it (_allocate_edge_appliance), and across
\* restarts, the pool holds no more than its maximum, or what it needs at least, and what
\* the other threads may have decided to add, and one edge.  For any number of threads and
\* any size of the pool, while housekeeping is read-only: the job error_backup_edge returns
\* repaired edges to the pool without counting it.
THEOREM PoolStaysBounded ==
  ASSUME ~HostGroups, ~MayExpire, HkReadonly PROVE Spec => []PoolBounded
  <1>1. Init => Counted
    BY PoolAssumption, InitCount
  <1>2. IInv /\ OInv /\ Counted /\ [Next]_vars => Counted'
    <2>1. ASSUME IInv, OInv, Counted, UNCHANGED vars PROVE Counted'
      <3>1. PoolKept
        BY <2>1, PoolKeptRows DEF vars
      <3>2. RefillKept /\ BootKept /\ UncountedKept
        BY <2>1 DEF vars, RefillKept, BootKept, UncountedKept, Booting, Uncounted, Clears
      <3> QED  BY <2>1, <3>1, <3>2, PoolAssumption, CountFrame
    <2> QED  BY <2>1, PoolAssumption, NextCount
  <1>3. Counted => PoolBounded
    <2>1. SUFFICES ASSUME Counted PROVE PoolBounded
      OBVIOUS
    <2>2. /\ Cardinality(PoolRids) \in Nat /\ Cardinality(Refilling) \in Nat
          /\ MinPooled \in Nat /\ MaxPooled \in Nat /\ Refilled \in Nat
      BY PoolAssumption, Sizes, RefilledOfOthers DEF PoolAssumption
    <2>3. /\ Limit(Pledged - 1) /\ Pledged \in Int /\ Cardinality(PoolRids) <= Pledged
      BY <2>1, <2>2 DEF Counted, Pledged
    <2>4. \/ Cardinality(PoolRids) <= MaxPooled + 1
          \/ Cardinality(PoolRids) <= MaxPooled + Refilled
          \/ Cardinality(PoolRids) <= MinPooled + Refilled + 1
      BY <2>2, <2>3 DEF Limit
    <2> QED  BY <2>4 DEF PoolBounded, Refilled
  <1> QED  BY <1>1, <1>2, <1>3, OwnerInvariant, PTL DEF Spec
=============================================================================
