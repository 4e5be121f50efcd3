------------------------- MODULE TaskManagerProofs -------------------------
(***************************************************************************)
(* Theorems about TaskManager, for any number of tasks, resources, waiters *)
(* and attempts, whether the manager may be stopped or not.                *)
(*                                                                         *)
(* The inductive invariant says where a task may be and who may have it.   *)
(* The tasks of a resource wait in the order in which they were added,     *)
(* those that the monitor knows before those that the main thread has yet  *)
(* to receive; the main thread executes a task only if no other of its     *)
(* resource waits for the monitor, and the monitor and stop() have the     *)
(* first task of a resource.  So whoever executes a task has no earlier    *)
(* one of its resource left behind, and no two threads have the same task. *)
(*                                                                         *)
(* Every action sees to one task at most.  The lemma Carry says what       *)
(* follows for the others; LoopKeeps, MonitorKeeps, HandKeeps and          *)
(* AbortKeeps are the steps that a thread can end with, and the lemmas of  *)
(* the actions follow from them.                                           *)
(***************************************************************************)
EXTENDS TaskManager, FiniteSetTheorems, TLAPS

\* t was added before u, and they are of the same resource.
Before(t, u) == \E j \in DOMAIN ids : \E i \in 1..(j - 1) : ids[i] = t /\ ids[j] = u
Precedes(t, u) == Before(t, u) /\ resource_id[t] = resource_id[u]

\* What the manager knows of the tasks that wait in ts, for the monitor, and in q, for the
\* main thread: no task waits twice, and they wait in the order in which they were added,
\* those in q behind those in ts, where only the order within a resource matters.
Lines(ts, q) ==
  /\ ts \in Seq(Tasks) /\ q \in Seq(Tasks)
  /\ \A i, j \in DOMAIN ts : i # j => ts[i] # ts[j]
  /\ \A i, j \in DOMAIN q : i # j => q[i] # q[j]
  /\ \A i \in DOMAIN ts, j \in DOMAIN q : ts[i] # q[j]
  /\ \A i \in DOMAIN ts : ts[i] \in Added
  /\ \A i \in DOMAIN q : q[i] \in Added
  /\ \A i, j \in DOMAIN ts : i < j /\ resource_id[ts[i]] = resource_id[ts[j]] => Before(ts[i], ts[j])
  /\ \A i, j \in DOMAIN q : i < j => Before(q[i], q[j])
  /\ \A i \in DOMAIN ts, j \in DOMAIN q : resource_id[ts[i]] = resource_id[q[j]] => Before(ts[i], q[j])

Queued == Lines(tasks, queue)

\* The phases of the threads, and when they have a task.
Busy == {"start", "exec", "executed", "result"}
Shape ==
  /\ act["main"].phase \in {"off", "new", "wait"} \cup Busy
  /\ act["monitor"].phase \in {"off", "idle", "status"} \cup Busy
  /\ act["stop"].phase \in {"off", "join", "result"}
  /\ act["killed"].phase \in {"off", "result"}
  /\ \A a \in Actors : IF act[a].phase \in Busy \cup {"status"} THEN act[a].task \in Added
                                                               ELSE act[a].task = NoTask

\* Who runs when: stop() waits for the monitor, and nobody but it runs after that; before
\* the first start() nobody runs.
Control ==
  /\ stopped => act["main"] = Off
  /\ act["stop"] # Off => stopped
  /\ act["stop"].phase = "result" => act["monitor"] = Off
  /\ act["main"] = Off /\ ~stopped => act["monitor"] = Off
  /\ ~MayStop => ~stopped /\ act["killed"] = Off

\* A task that the main thread executes waits nowhere, nor does any other of its resource in
\* ts; the monitor and stop() have the first task of a resource.
Alone(t) == /\ t \notin ToSet(queue) \cup ToSet(tasks)
            /\ resource_id[t] \notin Keys(tasks)
            /\ \A u \in ToSet(queue) : resource_id[u] = resource_id[t] => Before(t, u)
First(t) == \E i \in Fronts(tasks) : tasks[i] = t
Places ==
  /\ act["main"].phase \in Busy => Alone(act["main"].task)
  /\ act["monitor"].phase \in Busy \cup {"status"} => First(act["monitor"].task)
  /\ act["stop"].phase = "result" => First(act["stop"].task)
  /\ act["killed"].phase = "result" =>
       /\ act["killed"].task \notin ToSet(queue) \cup ToSet(tasks)
       /\ act["killed"].task # act["main"].task

Hand(a) == act[a].phase \in Busy \cup {"status"}
InHand(t) == \E a \in Actors \ {"killed"} : Hand(a) /\ act[a].task = t

\* What has become of a task.
Begun(t) == state[t] >= START \/ \E a \in Actors : act[a] = Doing("start", t)
Over == {"COMPLETED", "ERROR"}
Progress ==
  /\ act["main"].phase \in {"exec", "executed", "result"} => state[act["main"].task] >= START
  /\ act["main"].phase = "executed" => status[act["main"].task] \in Over \cup {"PENDING"}
  /\ act["main"].phase = "result" => status[act["main"].task] \in Over
  /\ act["killed"].phase = "result" => /\ status[act["killed"].task] \in Over
                                       /\ state[act["killed"].task] >= START
\* A task that is not over has not had its result.
Results ==
  /\ \A t \in Tasks : results[t] \in {0, 1}
  /\ \A t \in Tasks : Held(t) \/ act["killed"].task = t => results[t] = 0
Fresh ==
  /\ \A t \in Added : resource_id[t] \in Resources
  /\ \A t \in Tasks \ Added : results[t] = 0 /\ state[t] = -1
\* A task that has begun is preceded by none that waits.
Ordered == \A t, u \in Tasks : Precedes(t, u) /\ Begun(u) => ~Held(t)
\* Nobody drops a task but stop().
Pending == ~MayStop => \A t \in Added : state[t] = RESULT \/ Held(t)

Core == TypeOK /\ Queued /\ Shape /\ Control /\ Places
IInv == Core /\ Progress /\ Results /\ Fresh /\ Ordered /\ NoTaskLost /\ Pending /\ StopIsFinal


-----------------------------------------------------------------------------
(* The two lines of tasks.                                                 *)

\* What is at the places of a sequence that is built from others.
LEMMA Places2 ==
  ASSUME NEW S, NEW s \in Seq(S), NEW q \in Seq(S)
  PROVE  /\ s \o q \in Seq(S) /\ DOMAIN (s \o q) = 1..(Len(s) + Len(q)) /\ Len(s) \in Nat /\ Len(q) \in Nat
         /\ DOMAIN s = 1..Len(s) /\ DOMAIN q = 1..Len(q)
         /\ \A i \in DOMAIN s : (s \o q)[i] = s[i]
         /\ \A i \in DOMAIN q : (s \o q)[Len(s) + i] = q[i]
         /\ \A i \in DOMAIN (s \o q) : i \in DOMAIN s \/ (i - Len(s) \in DOMAIN q /\ i > Len(s))
  OBVIOUS

LEMMA PartOf ==
  ASSUME NEW S, NEW q \in Seq(S), NEW m \in 1..(Len(q) + 1), NEW n \in 0..Len(q), m <= n + 1
  PROVE  /\ SubSeq(q, m, n) \in Seq(S) /\ DOMAIN SubSeq(q, m, n) = 1..(n - m + 1)
         /\ \A i \in DOMAIN SubSeq(q, m, n) : m + i - 1 \in DOMAIN q /\ SubSeq(q, m, n)[i] = q[m + i - 1]
  OBVIOUS

\* Tasks that leave the head of the queue, to wait for the monitor behind its tasks.
LEMMA LinesMove ==
  ASSUME NEW ts, NEW q, Lines(ts, q), NEW k \in 0..Len(q), NEW m \in (k + 1)..(Len(q) + 1)
  PROVE  Lines(ts \o SubSeq(q, 1, k), SubSeq(q, m, Len(q)))
  <1> DEFINE p == SubSeq(q, 1, k)
             r == SubSeq(q, m, Len(q))
             w == ts \o p
  <1>1. ts \in Seq(Tasks) /\ q \in Seq(Tasks) /\ Len(q) \in Nat /\ DOMAIN q = 1..Len(q)
    BY DEF Lines
  <1>2. p \in Seq(Tasks) /\ \A i \in DOMAIN p : i \in DOMAIN q /\ i <= k /\ p[i] = q[i]
    BY <1>1, PartOf
  <1>3. r \in Seq(Tasks) /\ \A i \in DOMAIN r : i \in Nat /\ m + i - 1 \in DOMAIN q /\ m + i - 1 > k /\ r[i] = q[m + i - 1]
    BY <1>1, PartOf
  <1>4. /\ w \in Seq(Tasks) /\ Len(ts) \in Nat /\ DOMAIN ts = 1..Len(ts)
        /\ \A i \in DOMAIN w : \/ i \in DOMAIN ts /\ w[i] = ts[i]
                               \/ i > Len(ts) /\ i - Len(ts) \in DOMAIN p /\ w[i] = p[i - Len(ts)]
    BY <1>1, <1>2, Places2
  <1> HIDE DEF p, r, w
  <1>5. \A i \in DOMAIN w : i \in Int
    BY <1>4
  <1>6. \A i \in DOMAIN w : \/ i \in DOMAIN ts /\ w[i] = ts[i]
                            \/ i > Len(ts) /\ i - Len(ts) \in DOMAIN q /\ i - Len(ts) <= k /\ w[i] = q[i - Len(ts)]
    BY <1>2, <1>4
  <1>7. \A i, j \in DOMAIN w : i # j => w[i] # w[j]
    <2> SUFFICES ASSUME NEW i \in DOMAIN w, NEW j \in DOMAIN w, i # j  PROVE w[i] # w[j]
      OBVIOUS
    <2>1. i \in Int /\ j \in Int /\ Len(ts) \in Int
      BY <1>4, <1>5
    <2>2. CASE i \in DOMAIN ts /\ w[i] = ts[i]
      <3>1. CASE j \in DOMAIN ts /\ w[j] = ts[j]
        BY <2>2, <3>1 DEF Lines
      <3>2. CASE j - Len(ts) \in DOMAIN q /\ w[j] = q[j - Len(ts)]
        BY <2>2, <3>2 DEF Lines
      <3> QED  BY <1>6, <3>1, <3>2
    <2>3. CASE i - Len(ts) \in DOMAIN q /\ w[i] = q[i - Len(ts)]
      <3>1. CASE j \in DOMAIN ts /\ w[j] = ts[j]
        BY <2>3, <3>1 DEF Lines
      <3>2. CASE j - Len(ts) \in DOMAIN q /\ w[j] = q[j - Len(ts)]
        <4>1. i - Len(ts) # j - Len(ts)
          BY <2>1
        <4> QED  BY <2>3, <3>2, <4>1 DEF Lines
      <3> QED  BY <1>6, <3>1, <3>2
    <2> QED  BY <1>6, <2>2, <2>3
  <1>8. \A i \in DOMAIN w, j \in DOMAIN r : w[i] # r[j]
    BY <1>1, <1>3, <1>4, <1>6 DEF Lines
  <1>9. (\A i \in DOMAIN w : w[i] \in Added) /\ (\A i \in DOMAIN r : r[i] \in Added)
    BY <1>3, <1>6 DEF Lines
  <1>10. \A i, j \in DOMAIN w : i < j /\ resource_id[w[i]] = resource_id[w[j]] => Before(w[i], w[j])
    <2> SUFFICES ASSUME NEW i \in DOMAIN w, NEW j \in DOMAIN w, i < j, resource_id[w[i]] = resource_id[w[j]]
                 PROVE  Before(w[i], w[j])
      OBVIOUS
    <2>1. i \in Int /\ j \in Int /\ Len(ts) \in Int /\ (j \in DOMAIN ts => j <= Len(ts))
      BY <1>4, <1>5
    <2>2. CASE i \in DOMAIN ts /\ w[i] = ts[i]
      <3>1. CASE j \in DOMAIN ts /\ w[j] = ts[j]
        BY <2>2, <3>1 DEF Lines
      <3>2. CASE j - Len(ts) \in DOMAIN q /\ w[j] = q[j - Len(ts)]
        BY <2>2, <3>2 DEF Lines
      <3> QED  BY <1>6, <3>1, <3>2
    <2>3. CASE i > Len(ts) /\ i - Len(ts) \in DOMAIN q /\ w[i] = q[i - Len(ts)]
      <3>1. j - Len(ts) \in DOMAIN q /\ w[j] = q[j - Len(ts)]
        BY <1>6, <2>1, <2>3
      <3>2. i - Len(ts) < j - Len(ts)
        BY <2>1
      <3> QED  BY <2>3, <3>1, <3>2 DEF Lines
    <2> QED  BY <1>6, <2>2, <2>3
  <1>11. \A i, j \in DOMAIN r : i < j => Before(r[i], r[j])
    <2> SUFFICES ASSUME NEW i \in DOMAIN r, NEW j \in DOMAIN r, i < j  PROVE Before(r[i], r[j])
      OBVIOUS
    <2>1. m + i - 1 \in DOMAIN q /\ m + j - 1 \in DOMAIN q /\ r[i] = q[m + i - 1] /\ r[j] = q[m + j - 1]
      BY <1>3
    <2>2. i \in Nat /\ j \in Nat /\ m \in Int
      BY <1>1, <1>3
    <2>3. m + i - 1 < m + j - 1
      BY <2>2
    <2> QED  BY <2>1, <2>3 DEF Lines
  <1>12. \A i \in DOMAIN w, j \in DOMAIN r : resource_id[w[i]] = resource_id[r[j]] => Before(w[i], r[j])
    <2> SUFFICES ASSUME NEW i \in DOMAIN w, NEW j \in DOMAIN r, resource_id[w[i]] = resource_id[r[j]]
                 PROVE  Before(w[i], r[j])
      OBVIOUS
    <2>1. m + j - 1 \in DOMAIN q /\ m + j - 1 > k /\ r[j] = q[m + j - 1]
      BY <1>3
    <2>2. CASE i \in DOMAIN ts /\ w[i] = ts[i]
      BY <2>1, <2>2 DEF Lines
    <2>3. CASE i > Len(ts) /\ i - Len(ts) \in DOMAIN q /\ i - Len(ts) <= k /\ w[i] = q[i - Len(ts)]
      <3>1. i - Len(ts) < m + j - 1
        BY <1>1, <1>4, <1>5, <2>1, <2>3
      <3> QED  BY <2>1, <2>3, <3>1 DEF Lines
    <2> QED  BY <1>6, <2>2, <2>3
  <1>13. \A i, j \in DOMAIN r : i # j => r[i] # r[j]
    <2> SUFFICES ASSUME NEW i \in DOMAIN r, NEW j \in DOMAIN r, i # j  PROVE r[i] # r[j]
      OBVIOUS
    <2>1. m + i - 1 \in DOMAIN q /\ m + j - 1 \in DOMAIN q /\ r[i] = q[m + i - 1] /\ r[j] = q[m + j - 1]
      BY <1>3
    <2>2. i \in Nat /\ j \in Nat /\ m \in Int
      BY <1>1, <1>3
    <2>3. m + i - 1 # m + j - 1
      BY <2>2
    <2> QED  BY <2>1, <2>3 DEF Lines
  <1>14. Lines(w, r)
    BY <1>3, <1>4, <1>7, <1>8, <1>9, <1>10, <1>11, <1>12, <1>13 DEF Lines
  <1> QED  BY <1>14 DEF w, p, r

\* Of two tasks only one was added first.
LEMMA OneOrder == TypeOK => \A t, u : ~(Before(t, u) /\ Before(u, t))
  <1> SUFFICES ASSUME TypeOK, NEW t, NEW u, Before(t, u), Before(u, t)  PROVE FALSE
    OBVIOUS
  <1>1. DOMAIN ids = 1..Len(ids) /\ Len(ids) \in Nat /\ \A i, j \in DOMAIN ids : ids[i] = ids[j] => i = j
    BY DEF TypeOK, IsInjective
  <1>2. PICK j \in DOMAIN ids : \E i \in 1..(j - 1) : ids[i] = t /\ ids[j] = u
    BY DEF Before
  <1>3. PICK i \in 1..(j - 1) : ids[i] = t /\ ids[j] = u
    BY <1>2
  <1>4. PICK k \in DOMAIN ids : \E m \in 1..(k - 1) : ids[m] = u /\ ids[k] = t
    BY DEF Before
  <1>5. PICK m \in 1..(k - 1) : ids[m] = u /\ ids[k] = t
    BY <1>4
  <1>6. i = k /\ j = m
    BY <1>1, <1>3, <1>5
  <1> QED  BY <1>1, <1>3, <1>5, <1>6

LEMMA Whose == TypeOK /\ Shape => \A t \in Tasks : Held(t) <=> t \in ToSet(queue) \cup ToSet(tasks) \/ InHand(t)
  BY TaskAssumption DEF Held, InHand, Hand, Shape, Actors

\* No task that waits, or is in the hands of a thread, precedes one that is in the hands of one.
Ahead == \A t, u \in Tasks : InHand(u) /\ Precedes(t, u) => ~Held(t)
LEMMA InTurn == Core => Ahead
  <1> SUFFICES ASSUME Core, NEW t \in Tasks, NEW u \in Tasks, InHand(u), Before(t, u),
                      resource_id[t] = resource_id[u], Held(t)
               PROVE  FALSE
    BY DEF Ahead, Precedes
  <1>1. TypeOK /\ Queued /\ Shape /\ Places
    BY DEF Core
  <1>2. ~Before(u, t) /\ ~Before(t, t) /\ ~Before(u, u)
    BY <1>1, OneOrder
  <1>3. \A x \in Tasks : InHand(x) => (Hand("main") /\ act["main"].task = x /\ Alone(x)) \/ First(x)
    BY <1>1 DEF InHand, Hand, Actors, Places, Shape, Busy
  <1>4. CASE First(u)
    <2>1. PICK i \in Fronts(tasks) : tasks[i] = u
      BY <1>4 DEF First
    <2>2. i \in DOMAIN tasks /\ \A j \in 1..(i - 1) : resource_id[tasks[j]] # resource_id[u]
      BY <2>1 DEF Fronts
    <2>3. DOMAIN tasks = 1..Len(tasks) /\ Len(tasks) \in Nat /\ DOMAIN queue = 1..Len(queue)
      BY <1>1 DEF Queued, Lines
    <2>4. \A j \in DOMAIN tasks : tasks[j] # t
      <3> SUFFICES ASSUME NEW j \in DOMAIN tasks, tasks[j] = t  PROVE FALSE
        OBVIOUS
      <3>1. j >= i
        BY <2>2, <2>3
      <3>2. j # i
        BY <1>2, <2>1
      <3>3. Before(u, t)
        BY <1>1, <2>1, <2>2, <2>3, <3>1, <3>2 DEF Queued, Lines
      <3> QED  BY <1>2, <3>3
    <2>5. \A j \in DOMAIN queue : queue[j] # t
      BY <1>1, <1>2, <2>1, <2>2 DEF Queued, Lines
    <2>6. InHand(t)
      BY <1>1, <2>4, <2>5, Whose DEF ToSet
    <2>7. Alone(t)
      BY <1>3, <2>4, <2>6 DEF First, Fronts
    <2> QED  BY <2>1, <2>2, <2>7 DEF Alone, Keys
  <1>5. CASE Hand("main") /\ act["main"].task = u /\ Alone(u)
    <2>1. t \notin ToSet(queue)
      BY <1>2, <1>5 DEF Alone
    <2>2. t \notin ToSet(tasks) /\ ~First(t)
      BY <1>5 DEF Alone, Keys, ToSet, First, Fronts
    <2>3. InHand(t)
      BY <1>1, <2>1, <2>2, Whose
    <2> QED  BY <1>2, <1>3, <1>5, <2>2, <2>3
  <1> QED  BY <1>3, <1>4, <1>5

\* A task that is done leaves the queue of its resource.
LEMMA Without ==
  ASSUME NEW ts \in Seq(Tasks), NEW i \in DOMAIN ts
  PROVE  /\ RemoveAt(ts, i) \in Seq(Tasks) /\ DOMAIN RemoveAt(ts, i) = 1..(Len(ts) - 1)
         /\ \A j \in 1..(Len(ts) - 1) : RemoveAt(ts, i)[j] = ts[IF j < i THEN j ELSE j + 1]
  <1> DEFINE p == SubSeq(ts, 1, i - 1)
             r == SubSeq(ts, i + 1, Len(ts))
  <1>1. Len(ts) \in Nat /\ DOMAIN ts = 1..Len(ts) /\ i \in 1..Len(ts)
    OBVIOUS
  <1>2. p \in Seq(Tasks) /\ DOMAIN p = 1..(i - 1) /\ \A j \in DOMAIN p : p[j] = ts[j]
    BY <1>1, PartOf
  <1>3. r \in Seq(Tasks) /\ DOMAIN r = 1..(Len(ts) - i) /\ \A j \in DOMAIN r : r[j] = ts[i + j]
    BY <1>1, PartOf
  <1>4. RemoveAt(ts, i) = p \o r
    BY DEF RemoveAt
  <1> HIDE DEF p, r
  <1>5. Len(p) = i - 1 /\ Len(r) = Len(ts) - i
    BY <1>1, <1>2, <1>3
  <1> DEFINE w == p \o r
  <1>6. /\ w \in Seq(Tasks) /\ DOMAIN w = 1..(Len(p) + Len(r))
        /\ \A j \in DOMAIN p : w[j] = p[j]
        /\ \A j \in DOMAIN r : w[Len(p) + j] = r[j]
    BY <1>2, <1>3, Places2
  <1> HIDE DEF w
  <1>7. DOMAIN w = 1..(Len(ts) - 1)
    BY <1>1, <1>5, <1>6
  <1>8. ASSUME NEW j \in 1..(Len(ts) - 1)
        PROVE  w[j] = ts[IF j < i THEN j ELSE j + 1]
    <2>1. CASE j < i
      <3>1. j \in DOMAIN p
        BY <1>1, <1>2, <2>1
      <3> QED  BY <1>2, <1>6, <2>1, <3>1
    <2>2. CASE ~(j < i)
      <3> DEFINE k == j - (i - 1)
      <3>1. k \in DOMAIN r /\ Len(p) + k = j /\ i + k = j + 1
        BY <1>1, <1>3, <1>5, <2>2
      <3> HIDE DEF k
      <3>2. w[j] = ts[j + 1]
        BY <1>3, <1>6, <3>1
      <3> QED  BY <2>2, <3>2
    <2> QED  BY <2>1, <2>2
  <1> QED  BY <1>4, <1>6, <1>7, <1>8 DEF w
LEMMA LinesRemove ==
  ASSUME NEW ts, NEW q, Lines(ts, q), NEW i \in DOMAIN ts
  PROVE  /\ Lines(RemoveAt(ts, i), q)
         /\ ToSet(RemoveAt(ts, i)) = ToSet(ts) \ {ts[i]}
         /\ Keys(RemoveAt(ts, i)) \subseteq Keys(ts)
  <1> DEFINE w == RemoveAt(ts, i)
             At(j) == IF j < i THEN j ELSE j + 1
  <1>1. ts \in Seq(Tasks) /\ Len(ts) \in Nat /\ DOMAIN ts = 1..Len(ts)
    BY DEF Lines
  <1>2. w \in Seq(Tasks) /\ DOMAIN w = 1..(Len(ts) - 1) /\ \A j \in DOMAIN w : w[j] = ts[At(j)]
    BY <1>1, Without
  <1> HIDE DEF w
  <1>3. \A j \in DOMAIN w : At(j) \in DOMAIN ts /\ At(j) # i
    BY <1>1, <1>2
  <1>4. \A j, k \in DOMAIN w : j < k => At(j) < At(k)
    BY <1>1, <1>2
  <1>5. \A j \in DOMAIN ts : j # i => \E k \in DOMAIN w : At(k) = j
    <2> SUFFICES ASSUME NEW j \in DOMAIN ts, j # i  PROVE \E k \in DOMAIN w : At(k) = j
      OBVIOUS
    <2>1. CASE j < i
      BY <1>1, <1>2, <2>1
    <2>2. CASE j > i
      <3>1. j - 1 \in DOMAIN w /\ At(j - 1) = j
        BY <1>1, <1>2, <2>2
      <3> QED  BY <3>1
    <2> QED  BY <1>1, <2>1, <2>2
  <1>6. \A j, k \in DOMAIN w : j # k => At(j) # At(k)
    BY <1>1, <1>2
  <1> HIDE DEF At
  <1>7. \A j, k \in DOMAIN w : j # k => w[j] # w[k]
    BY <1>2, <1>3, <1>6 DEF Lines
  <1>8. \A j \in DOMAIN w, k \in DOMAIN q : w[j] # q[k] /\ (resource_id[w[j]] = resource_id[q[k]] => Before(w[j], q[k]))
    BY <1>2, <1>3 DEF Lines
  <1>9. \A j \in DOMAIN w : w[j] \in Added
    BY <1>2, <1>3 DEF Lines
  <1>10. \A j, k \in DOMAIN w : j < k /\ resource_id[w[j]] = resource_id[w[k]] => Before(w[j], w[k])
    BY <1>2, <1>3, <1>4 DEF Lines
  <1>11. Lines(w, q)
    BY <1>2, <1>7, <1>8, <1>9, <1>10 DEF Lines
  <1>12. ToSet(w) = ToSet(ts) \ {ts[i]}
    BY <1>2, <1>3, <1>5 DEF ToSet, Lines
  <1>13. Keys(w) \subseteq Keys(ts)
    BY <1>2, <1>3 DEF Keys
  <1> QED  BY <1>11, <1>12, <1>13 DEF w

\* A pending task goes to the queue of its resource.
LEMMA Behind ==
  ASSUME NEW ts \in Seq(Tasks), NEW t \in Tasks
  PROVE  /\ Append(ts, t) \in Seq(Tasks) /\ Len(ts) \in Nat
         /\ DOMAIN ts = 1..Len(ts) /\ DOMAIN Append(ts, t) = 1..(Len(ts) + 1)
         /\ \A j \in DOMAIN ts : Append(ts, t)[j] = ts[j]
         /\ Append(ts, t)[Len(ts) + 1] = t
  OBVIOUS
LEMMA LinesEnqueue ==
  ASSUME Queued, NEW t \in Tasks, t \in Added, Alone(t)
  PROVE  /\ Lines(Enqueued(t), queue)
         /\ ToSet(Enqueued(t)) = ToSet(tasks) \cup {t}
         /\ \A i \in Fronts(tasks) : i \in Fronts(Enqueued(t)) /\ Enqueued(t)[i] = tasks[i]
  <1> DEFINE w == Enqueued(t)
             n == Len(tasks) + 1
  <1>1. Lines(tasks, queue)
    BY DEF Queued
  <1>2. /\ w \in Seq(Tasks) /\ Len(tasks) \in Nat
        /\ DOMAIN tasks = 1..Len(tasks) /\ DOMAIN w = DOMAIN tasks \cup {n}
        /\ \A j \in DOMAIN tasks : j < n /\ w[j] = tasks[j]
        /\ w[n] = t /\ n \in Nat
    <2>1. tasks \in Seq(Tasks)
      BY <1>1 DEF Lines
    <2> QED  BY <2>1, Behind DEF Enqueued
  <1> HIDE DEF w, n
  <1>3. /\ \A j \in DOMAIN tasks : tasks[j] # t /\ resource_id[tasks[j]] # resource_id[t]
        /\ \A j \in DOMAIN queue : queue[j] # t /\ (resource_id[queue[j]] = resource_id[t] => Before(t, queue[j]))
    BY DEF Alone, ToSet, Keys
  <1>4. /\ \A j, k \in DOMAIN w : j # k => w[j] # w[k]
        /\ \A j \in DOMAIN w : w[j] \in Added
    BY <1>1, <1>2, <1>3 DEF Lines
  <1>5. \A j \in DOMAIN w, k \in DOMAIN queue :
          w[j] # queue[k] /\ (resource_id[w[j]] = resource_id[queue[k]] => Before(w[j], queue[k]))
    BY <1>1, <1>2, <1>3 DEF Lines
  <1>6. \A j, k \in DOMAIN w : j < k /\ resource_id[w[j]] = resource_id[w[k]] => Before(w[j], w[k])
    BY <1>1, <1>2, <1>3 DEF Lines
  <1>7. Lines(w, queue)
    BY <1>1, <1>2, <1>4, <1>5, <1>6 DEF Lines
  <1>8. ToSet(w) = ToSet(tasks) \cup {t}
    BY <1>2 DEF ToSet
  <1>9. \A i \in Fronts(tasks) : i \in Fronts(w) /\ w[i] = tasks[i]
    BY <1>2 DEF Fronts
  <1> QED  BY <1>7, <1>8, <1>9 DEF w

-----------------------------------------------------------------------------
(* What the operators of the actions do.                                   *)

LEMMA MoveEffect ==
  ASSUME TypeOK, NEW t \in Tasks, NEW s \in States, MoveState(t, s)
  PROVE  /\ state' \in [Tasks -> States \cup {-1}] /\ waiting' \subseteq Waiters
         /\ slot' \in [Tasks -> [States -> Waiters \cup {NoWaiter}]]
         /\ state'[t] = s /\ s >= START /\ \A x \in Tasks : x # t => state'[x] = state[x]
  BY DEF TypeOK, MoveState, States, START, EXECUTED, RESULT

LEMMA AttemptEffect ==
  ASSUME TypeOK, NEW t \in Tasks, NEW answer, Attempt(t, answer)
  PROVE  retry_number' \in [Tasks -> 1..Retries]
  BY TaskAssumption DEF TypeOK, Attempt

\* The main thread moves the tasks of busy resources to the monitor's queues, and takes the
\* first task of another one.
LEMMA LoopEffect ==
  ASSUME NEW ts, Lines(ts, queue), NEW rq \in BOOLEAN, MainLoop(ts, rq)
  PROVE  /\ Lines(tasks', queue') /\ req' \in BOOLEAN
         /\ \A i \in Fronts(ts) : i \in Fronts(tasks') /\ tasks'[i] = ts[i]
         /\ \E t \in Tasks \cup {NoTask}, phase \in {"wait", "start"} :
              /\ act' = [act EXCEPT !["main"] = Doing(phase, t)]
              /\ ToSet(tasks') \cup ToSet(queue') = (ToSet(ts) \cup ToSet(queue)) \ {t}
              /\ phase = "wait" => t = NoTask
              /\ phase = "start" => /\ t \in ToSet(queue) /\ t \in Tasks /\ t \in Added
                                    /\ resource_id[t] \notin Keys(tasks')
                                    /\ \A u \in ToSet(queue') : Before(t, u)
  <1> DEFINE Follows(i) == resource_id[queue[i]] \in Keys(ts)
             Moved(k, m) == /\ tasks' = ts \o SubSeq(queue, 1, k)
                            /\ queue' = SubSeq(queue, m, Len(queue))
                            /\ \A i \in 1..k : Follows(i)
  <1>1. /\ ts \in Seq(Tasks) /\ queue \in Seq(Tasks) /\ Len(queue) \in Nat /\ Len(ts) \in Nat
        /\ DOMAIN queue = 1..Len(queue) /\ DOMAIN ts = 1..Len(ts)
    BY DEF Lines
  <1>2. ASSUME NEW k \in 0..Len(queue), NEW m \in (k + 1)..(Len(queue) + 1), Moved(k, m)
        PROVE  /\ Lines(tasks', queue')
               /\ \A i \in Fronts(ts) : i \in Fronts(tasks') /\ tasks'[i] = ts[i]
               /\ Keys(tasks') = Keys(ts)
               /\ ToSet(tasks') = ToSet(ts) \cup {queue[i] : i \in 1..k}
               /\ ToSet(queue') = {queue[i] : i \in m..Len(queue)}
    <2> DEFINE p == SubSeq(queue, 1, k)
    <2>1. Lines(tasks', queue')
      BY <1>2, LinesMove
    <2>2. p \in Seq(Tasks) /\ DOMAIN p = 1..k /\ \A i \in DOMAIN p : p[i] = queue[i]
      BY <1>1, PartOf
    <2> HIDE DEF p
    <2>3. /\ DOMAIN tasks' = 1..(Len(ts) + Len(p)) /\ Len(p) = k
          /\ \A i \in DOMAIN ts : tasks'[i] = ts[i]
          /\ \A i \in DOMAIN p : tasks'[Len(ts) + i] = p[i]
          /\ \A i \in DOMAIN tasks' : i \in DOMAIN ts \/ (i - Len(ts) \in DOMAIN p /\ i > Len(ts))
      <3>1. tasks' = ts \o p
        BY <1>2 DEF p
      <3>2. Len(p) = k
        BY <2>2
      <3> DEFINE w == ts \o p
      <3>3. /\ DOMAIN w = 1..(Len(ts) + Len(p)) /\ DOMAIN ts = 1..Len(ts) /\ DOMAIN p = 1..Len(p)
            /\ \A i \in DOMAIN ts : w[i] = ts[i]
            /\ \A i \in DOMAIN p : w[Len(ts) + i] = p[i]
            /\ \A i \in DOMAIN w : i \in DOMAIN ts \/ (i - Len(ts) \in DOMAIN p /\ i > Len(ts))
        BY <1>1, <2>2, Places2
      <3>4. tasks' = w
        BY <3>1
      <3> HIDE DEF w
      <3> QED  BY <3>2, <3>3, <3>4
    <2>4. \A i \in 1..k : Len(ts) + i \in DOMAIN tasks' /\ tasks'[Len(ts) + i] = queue[i]
      <3> SUFFICES ASSUME NEW i \in 1..k
                   PROVE  Len(ts) + i \in DOMAIN tasks' /\ tasks'[Len(ts) + i] = queue[i]
        OBVIOUS
      <3>1. Len(ts) + i \in 1..(Len(ts) + k)
        BY <1>1
      <3> QED  BY <2>2, <2>3, <3>1
    <2>5. \A i \in DOMAIN tasks' : \/ i \in DOMAIN ts /\ tasks'[i] = ts[i]
                                   \/ \E j \in 1..k : i = Len(ts) + j /\ tasks'[i] = queue[j]
      <3> SUFFICES ASSUME NEW i \in DOMAIN tasks', i \notin DOMAIN ts
                   PROVE  \E j \in 1..k : i = Len(ts) + j /\ tasks'[i] = queue[j]
        BY <2>3
      <3>1. i - Len(ts) \in 1..k /\ i = Len(ts) + (i - Len(ts))
        BY <1>1, <2>2, <2>3
      <3> QED  BY <2>4, <3>1
    <2>6. \A i \in DOMAIN ts : i \in DOMAIN tasks' /\ tasks'[i] = ts[i]
      BY <1>1, <2>3
    <2>7. \A i \in Fronts(ts) : i \in Fronts(tasks') /\ tasks'[i] = ts[i]
      BY <1>1, <2>6 DEF Fronts
    <2>8. ToSet(tasks') = ToSet(ts) \cup {queue[i] : i \in 1..k}
      BY <2>4, <2>5, <2>6 DEF ToSet
    <2>9. Keys(tasks') = Keys(ts)
      <3>1. Keys(ts) \subseteq Keys(tasks')
        BY <2>6 DEF Keys
      <3>2. \A i \in DOMAIN tasks' : resource_id[tasks'[i]] \in Keys(ts)
        BY <1>2, <2>5 DEF Keys
      <3> QED  BY <3>1, <3>2 DEF Keys
    <2>10. ToSet(queue') = {queue[i] : i \in m..Len(queue)}
      <3> DEFINE r == SubSeq(queue, m, Len(queue))
      <3>1. DOMAIN r = 1..(Len(queue) - m + 1) /\ \A i \in DOMAIN r : m + i - 1 \in DOMAIN queue /\ r[i] = queue[m + i - 1]
        BY <1>1, PartOf
      <3>2. queue' = r
        BY <1>2
      <3> HIDE DEF r
      <3>3. \A i \in m..Len(queue) : i - m + 1 \in DOMAIN r /\ m + (i - m + 1) - 1 = i
        BY <1>1, <3>1
      <3>4. \A i \in DOMAIN r : m + i - 1 \in m..Len(queue)
        BY <1>1, <3>1
      <3>5. \A i \in m..Len(queue) : \E j \in DOMAIN r : r[j] = queue[i]
        BY <3>1, <3>3
      <3>6. \A x \in ToSet(r) : \E i \in m..Len(queue) : x = queue[i]
        BY <3>1, <3>4 DEF ToSet
      <3>7. \A i \in m..Len(queue) : queue[i] \in ToSet(r)
        BY <3>5 DEF ToSet
      <3> QED  BY <3>2, <3>6, <3>7
    <2> QED  BY <2>1, <2>7, <2>8, <2>9, <2>10
  <1>3. CASE /\ \A i \in DOMAIN queue : Follows(i)
             /\ tasks' = ts \o queue
             /\ queue' = <<>> /\ req' = FALSE
             /\ act' = [act EXCEPT !["main"] = Doing("wait", NoTask)]
    <2>1. Moved(Len(queue), Len(queue) + 1)
      <3>1. queue \in Seq(Tasks)
        BY <1>1
      <3>2. SubSeq(queue, 1, Len(queue)) = queue /\ SubSeq(queue, Len(queue) + 1, Len(queue)) = <<>>
        BY <3>1
      <3> HIDE DEF Follows
      <3>3. \A i \in 1..Len(queue) : Follows(i)
        BY <1>1, <1>3
      <3>4. tasks' = ts \o SubSeq(queue, 1, Len(queue)) /\ queue' = SubSeq(queue, Len(queue) + 1, Len(queue))
        BY <1>3, <3>2
      <3> QED  BY <3>3, <3>4
    <2>2. NoTask \notin Tasks
      BY TaskAssumption
    <2> HIDE DEF Moved
    <2>3. /\ Lines(tasks', queue')
          /\ \A i \in Fronts(ts) : i \in Fronts(tasks') /\ tasks'[i] = ts[i]
          /\ ToSet(tasks') = ToSet(ts) \cup {queue[i] : i \in 1..Len(queue)}
          /\ ToSet(queue') = {queue[i] : i \in (Len(queue) + 1)..Len(queue)}
      BY <1>1, <1>2, <2>1
    <2>4. ToSet(tasks') \cup ToSet(queue') = (ToSet(ts) \cup ToSet(queue)) \ {NoTask}
      <3>1. ToSet(queue) = {queue[i] : i \in 1..Len(queue)}
        BY <1>1 DEF ToSet
      <3>2. ToSet(queue') = {}
        BY <1>1, <2>3
      <3>3. NoTask \notin ToSet(ts) \cup ToSet(queue)
        BY <1>1, <2>2 DEF ToSet
      <3> QED  BY <2>3, <3>1, <3>2, <3>3
    <2> QED  BY <1>3, <2>3, <2>4
  <1>4. CASE \E i \in DOMAIN queue :
               /\ ~Follows(i) /\ \A j \in 1..(i - 1) : Follows(j)
               /\ tasks' = ts \o SubSeq(queue, 1, i - 1)
               /\ queue' = SubSeq(queue, i + 1, Len(queue)) /\ req' = rq
               /\ act' = [act EXCEPT !["main"] = Doing("start", queue[i])]
    <2>1. PICK i \in DOMAIN queue :
               /\ ~Follows(i) /\ \A j \in 1..(i - 1) : Follows(j)
               /\ tasks' = ts \o SubSeq(queue, 1, i - 1)
               /\ queue' = SubSeq(queue, i + 1, Len(queue)) /\ req' = rq
               /\ act' = [act EXCEPT !["main"] = Doing("start", queue[i])]
      BY <1>4
    <2>2. Moved(i - 1, i + 1) /\ i - 1 \in 0..Len(queue) /\ i + 1 \in (i - 1 + 1)..(Len(queue) + 1)
      BY <1>1, <2>1
    <2> HIDE DEF Moved
    <2>3. /\ Lines(tasks', queue')
          /\ \A j \in Fronts(ts) : j \in Fronts(tasks') /\ tasks'[j] = ts[j]
          /\ Keys(tasks') = Keys(ts)
          /\ ToSet(tasks') = ToSet(ts) \cup {queue[j] : j \in 1..(i - 1)}
          /\ ToSet(queue') = {queue[j] : j \in (i + 1)..Len(queue)}
      BY <1>2, <2>2
    <2>4. queue[i] \in Tasks /\ queue[i] \in ToSet(queue) /\ queue[i] \in Added
      BY <1>1 DEF Lines, ToSet
    <2>5. \A u \in ToSet(queue') : Before(queue[i], u)
      <3> SUFFICES ASSUME NEW u \in ToSet(queue')  PROVE Before(queue[i], u)
        OBVIOUS
      <3>1. PICK j \in (i + 1)..Len(queue) : u = queue[j]
        BY <2>3
      <3>2. i \in Int /\ j \in DOMAIN queue /\ i < j
        BY <1>1, <3>1
      <3> QED  BY <3>1, <3>2 DEF Lines
    <2>6. \A j \in DOMAIN queue : j # i => queue[j] # queue[i]
      BY DEF Lines
    <2>7. queue[i] \notin ToSet(ts)
      BY DEF Lines, ToSet
    <2>8. ToSet(queue) = {queue[j] : j \in 1..(i - 1)} \cup {queue[i]} \cup {queue[j] : j \in (i + 1)..Len(queue)}
      BY <1>1 DEF ToSet
    <2>9. queue[i] \notin {queue[j] : j \in 1..(i - 1)} \cup {queue[j] : j \in (i + 1)..Len(queue)}
      BY <1>1, <2>6
    <2>10. ToSet(tasks') \cup ToSet(queue') = (ToSet(ts) \cup ToSet(queue)) \ {queue[i]}
      BY <2>3, <2>7, <2>8, <2>9
    <2> QED  BY <2>1, <2>3, <2>4, <2>5, <2>10
  <1> QED  BY <1>3, <1>4 DEF MainLoop

\* The monitor goes on to the first task of another resource, or its round is over.
LEMMA IterateEffect ==
  ASSUME NEW ts \in Seq(Tasks), \A i \in DOMAIN ts : resource_id[ts[i]] \in Resources,
         NEW done, done \subseteq Resources, NEW n \in Nat, Iterate(ts, done, n)
  PROVE  /\ seen' \subseteq Resources /\ size' \in Nat
         /\ \/ act' = [act EXCEPT !["monitor"] = Off]
            \/ ~stopped /\ act' = [act EXCEPT !["monitor"] = Doing("idle", NoTask)]
            \/ ~stopped /\ \E i \in Fronts(ts) : act' = [act EXCEPT !["monitor"] = Doing("status", ts[i])]
  <1>1. CASE Cardinality(Keys(ts)) # n \/ Keys(ts) \subseteq done \/ stopped
    BY <1>1 DEF Iterate
  <1>2. CASE ~(Cardinality(Keys(ts)) # n \/ Keys(ts) \subseteq done \/ stopped)
    <2>1. PICK i \in Fronts(ts) : /\ act' = [act EXCEPT !["monitor"] = Doing("status", ts[i])]
                                  /\ seen' = done \cup {resource_id[ts[i]]} /\ size' = n
      BY <1>2 DEF Iterate
    <2>2. resource_id[ts[i]] \in Resources
      BY DEF Fronts
    <2> QED  BY <1>2, <2>1, <2>2
  <1> QED  BY <1>1, <1>2

LEMMA KeysCount ==
  ASSUME NEW ts \in Seq(Tasks)
  PROVE  Cardinality(Keys(ts)) \in Nat
  <1> DEFINE f == [i \in 1..Len(ts) |-> resource_id[ts[i]]]
  <1>1. Len(ts) \in Nat /\ DOMAIN ts = 1..Len(ts)
    OBVIOUS
  <1>2. f \in Surjection(1..Len(ts), Keys(ts))
    BY <1>1 DEF Surjection, Keys
  <1>3. IsFiniteSet(1..Len(ts))
    BY <1>1, FS_Interval
  <1>4. IsFiniteSet(Keys(ts))
    BY <1>2, <1>3, FS_Surjection
  <1> QED  BY <1>4, FS_CardinalityType

-----------------------------------------------------------------------------
(* What steps have in common: they see to one task at most, t.             *)

\* A task that has begun, or is in the hands of a thread, is preceded by none that waits.
LEMMA Carry ==
  ASSUME IInv, Core', UNCHANGED <<ids, resource_id>>, NEW t,
         \A x \in Tasks \ {t} : Held(x)' <=> Held(x),
         \A x \in Tasks \ {t} : /\ state'[x] = state[x] /\ results'[x] = results[x]
                                /\ status'[x] = status[x] \/ Held(x),
         t \in Tasks =>
           /\ t \in Added /\ (Held(t) \/ act["killed"].task = t) /\ (Held(t)' => Held(t))
           /\ \/ Held(t)' /\ results'[t] = results[t]
              \/ ~Held(t)' /\ MayStop /\ status'[t] \in Over /\ results'[t] = results[t]
              \/ ~Held(t)' /\ act'["killed"].task # t /\ state'[t] = RESULT /\ results'[t] = results[t] + 1,
         \A x \in Tasks : act'["killed"].task = x => act["killed"].task = x \/ x = t,
         \A x \in Tasks : Begun(x)' => Begun(x) \/ InHand(x) \/ InHand(x)'
  PROVE  Results' /\ Fresh' /\ Ordered' /\ NoTaskLost' /\ Pending'
  <1>1. Added' = Added /\ \A x, y : Precedes(x, y)' <=> Precedes(x, y)
    BY DEF Added, Precedes, Before
  <1>2. \A x \in Tasks : Held(x)' => Held(x)
    OBVIOUS
  <1>3. \A x \in Tasks : results[x] \in {0, 1} /\ (Held(x) \/ act["killed"].task = x => results[x] = 0)
    BY DEF IInv, Results
  <1>4. Results'
    <2>1. \A x \in Tasks : results'[x] \in {0, 1}
      BY <1>3
    <2>2. \A x \in Tasks : Held(x)' \/ act'["killed"].task = x => results'[x] = 0
      BY <1>2, <1>3
    <2> QED  BY <2>1, <2>2 DEF Results
  <1>5. Fresh'
    BY <1>1 DEF IInv, Fresh
  <1>6. Ordered'
    <2>1. Ahead /\ Ahead'
      BY InTurn, PTL DEF IInv
    <2>2. ASSUME NEW x \in Tasks, NEW y \in Tasks, Precedes(x, y), Begun(y)'
          PROVE  ~Held(x)'
      <3>1. CASE Begun(y)
        BY <1>2, <2>2, <3>1 DEF IInv, Ordered
      <3>2. CASE InHand(y)
        BY <1>2, <2>1, <2>2, <3>2 DEF Ahead
      <3>3. CASE InHand(y)'
        BY <1>1, <2>1, <2>2, <3>3 DEF Ahead
      <3> QED  BY <2>2, <3>1, <3>2, <3>3
    <2> QED  BY <1>1, <2>2 DEF Ordered
  <1>7. NoTaskLost'
    <2> SUFFICES ASSUME NEW x \in Added
                 PROVE  state'[x] = RESULT \/ status'[x] \in Over \/ Held(x)'
      BY <1>1 DEF NoTaskLost, Over
    <2>1. x \in Tasks
      BY DEF IInv, Core, TypeOK, Added, ToSet
    <2>2. state[x] = RESULT \/ status[x] \in Over \/ Held(x)
      BY DEF IInv, NoTaskLost, Over
    <2> QED  BY <2>1, <2>2
  <1>8. Pending'
    <2> SUFFICES ASSUME ~MayStop, NEW x \in Added
                 PROVE  state'[x] = RESULT \/ Held(x)'
      BY <1>1 DEF Pending
    <2>1. x \in Tasks
      BY DEF IInv, Core, TypeOK, Added, ToSet
    <2>2. state[x] = RESULT \/ Held(x)
      BY DEF IInv, Pending
    <2> QED  BY <2>1, <2>2
  <1> QED  BY <1>4, <1>5, <1>6, <1>7, <1>8

\* A thread goes on with the task in its hands.
LEMMA HandStep ==
  ASSUME Core, NEW a \in {"main", "monitor"}, Hand(a), NEW p \in Busy,
         act' = [act EXCEPT ![a].phase = p],
         UNCHANGED <<queue, tasks, ids, resource_id, stopped>>
  PROVE  /\ act' \in [Actors -> [phase : Phases, task : Tasks \cup {NoTask}]]
         /\ Queued' /\ Shape' /\ Control' /\ Places'
         /\ act[a].task \in Tasks /\ act[a].task \in Added
         /\ act'[a].phase = p /\ act'[a].task = act[a].task
         /\ \A b \in Actors \ {a} : act'[b] = act[b]
         /\ \A x \in Tasks : (Held(x)' <=> Held(x)) /\ (InHand(act[a].task)' /\ Held(act[a].task))
  <1>1. TypeOK /\ Queued /\ Shape /\ Control /\ Places
    BY DEF Core
  <1>2. /\ act' \in [Actors -> [phase : Phases, task : Tasks \cup {NoTask}]]
        /\ act'[a].phase = p /\ act'[a].task = act[a].task
        /\ \A b \in Actors \ {a} : act'[b] = act[b]
    BY <1>1 DEF TypeOK, Actors, Busy, Phases
  <1>3. act[a].task \in Added
    BY <1>1 DEF Shape, Hand, Actors
  <1>4. act[a].task \in Tasks
    BY <1>1, <1>3 DEF TypeOK, Added, ToSet
  <1>5. Added' = Added /\ \A x, y : Before(x, y)' <=> Before(x, y)
    BY DEF Added, Before
  <1>6. Queued'
    BY <1>1, <1>5 DEF Queued, Lines
  <1>7. \A b \in Actors : act'[b].task = act[b].task
    BY <1>2
  <1>8. Shape'
    BY <1>1, <1>2, <1>3, <1>5 DEF Shape, Busy, Actors
  <1>9. Control'
    <2>1. act[a] # Off /\ act'[a] # Off
      BY <1>2 DEF Hand, Busy, Off
    <2> QED  BY <1>1, <1>2, <2>1 DEF Control, Actors
  <1>10. Places'
    <2>1. \A x : (First(x)' <=> First(x)) /\ (Alone(x)' <=> Alone(x))
      BY <1>5 DEF First, Alone, Fronts, Keys
    <2>2. /\ UNCHANGED <<queue, tasks>>
          /\ \A b \in Actors : act'[b].phase \in Busy \cup {"status"} => act[b].phase \in Busy \cup {"status"}
          /\ \A b \in {"stop", "killed"} : act'[b].phase = act[b].phase
      BY <1>2 DEF Hand, Busy, Actors
    <2>3. act'["main"].phase \in Busy => act["main"].phase \in Busy
      BY <1>1, <1>2, <2>2 DEF Shape, Hand, Busy, Actors
    <2>4. {"main", "monitor", "stop", "killed"} = Actors
      BY DEF Actors
    <2> QED  BY <1>1, <1>7, <2>1, <2>2, <2>3, <2>4 DEF Places
  <1>11. \A x \in Tasks : Held(x)' <=> Held(x)
    BY <1>7 DEF Held
  <1>12. InHand(act[a].task)' /\ Held(act[a].task)
    BY <1>2 DEF InHand, Hand, Held, Actors, Busy
  <1> QED  BY <1>2, <1>3, <1>4, <1>6, <1>8, <1>9, <1>10, <1>11, <1>12

\* A task that waits for nobody but the thread that has it.
LEMMA HandAlone ==
  ASSUME Core
  PROVE  /\ \A x : First(x) => act["main"].task # x /\ x \in Tasks /\ x \in Added
         /\ act["killed"].phase = "result" => ~Held(act["killed"].task)
  <1>1. TypeOK /\ Queued /\ Shape /\ Control /\ Places
    BY DEF Core
  <1>2. \A x : First(x) => x \in ToSet(tasks) /\ x \in Tasks /\ x \in Added
    BY <1>1 DEF First, Fronts, Queued, Lines, ToSet
  <1>3. \A x \in Tasks : act["main"].task = x => x \notin ToSet(tasks)
    BY <1>1, TaskAssumption DEF Shape, Places, Actors, Alone, Busy
  <1>4. ASSUME act["killed"].phase = "result"  PROVE ~Held(act["killed"].task)
    <2>1. act["killed"].task \in Tasks
      BY <1>1, <1>4 DEF Shape, TypeOK, Actors, Busy, Added, ToSet
    <2>2. act["killed"].task \notin ToSet(queue) \cup ToSet(tasks) /\ act["killed"].task # act["main"].task
      BY <1>1, <1>4 DEF Places
    <2>3. act["monitor"].task # act["killed"].task
      BY <1>1, <1>2, <2>1, <2>2, TaskAssumption DEF Shape, Places, Actors
    <2>4. act["stop"].task # act["killed"].task
      BY <1>1, <1>2, <2>1, <2>2, TaskAssumption DEF Shape, Places, Actors, Busy
    <2> QED  BY <2>2, <2>3, <2>4 DEF Held, Actors
  <1> QED  BY <1>2, <1>3, <1>4

LEMMA LinesTyped ==
  ASSUME NEW ts, NEW q, Lines(ts, q)
  PROVE  ts \in Seq(Tasks) /\ q \in Seq(Tasks) /\ IsInjective(ts) /\ IsInjective(q)
  BY DEF Lines, IsInjective

LEMMA HandTask ==
  ASSUME TypeOK, Shape
  PROVE  /\ Added \subseteq Tasks
         /\ \A a \in Actors : IF act[a].phase \in Busy \cup {"status"}
                             THEN act[a].task \in Added /\ act[a].task \in Tasks
                             ELSE act[a].task = NoTask
  <1>1. Added \subseteq Tasks
    BY DEF TypeOK, Added, ToSet
  <1> QED  BY <1>1 DEF Shape

-----------------------------------------------------------------------------
(* A task in the hands of a thread                                         *)

LEMMA HandKeeps ==
  ASSUME IInv, NEW a \in {"main", "monitor"}, Hand(a), NEW p \in Busy,
         act' = [act EXCEPT ![a].phase = p],
         UNCHANGED <<queue, tasks, ids, resource_id, stopped, results>>, TypeOK',
         \A x \in Tasks \ {act[a].task} : state'[x] = state[x] /\ status'[x] = status[x],
         a = "main" => /\ p # "start" => state'[act[a].task] >= START
                       /\ p = "executed" => status'[act[a].task] \in Over \cup {"PENDING"}
                       /\ p = "result" => status'[act[a].task] \in Over
  PROVE  IInv'
  <1>1. Core /\ Progress /\ Results /\ StopIsFinal
    BY DEF IInv
  <1>2. TypeOK /\ Queued /\ Shape /\ Control /\ Places
    BY <1>1 DEF Core
  <1>3. PICK t \in Tasks : act[a].task = t
    BY <1>1, HandStep
  <1>4. /\ Queued' /\ Shape' /\ Control' /\ Places' /\ t \in Added
        /\ act'[a].phase = p /\ act'[a].task = t
        /\ \A b \in Actors \ {a} : act'[b] = act[b]
        /\ \A x \in Tasks : (Held(x)' <=> Held(x))
        /\ InHand(act[a].task)' /\ Held(act[a].task)
    BY <1>1, <1>3, HandStep
  <1>5. InHand(t)' /\ Held(t) /\ Held(t)'
    BY <1>3, <1>4
  <1>6. Core'
    BY <1>4 DEF Core
  <1>7. a = "monitor" => act["main"].task # t
    BY <1>1, <1>2, <1>3, HandAlone DEF Hand, Places
  <1>8. act["killed"].phase = "result" => act["killed"].task # t
    BY <1>1, <1>5, HandAlone
  <1>9. Progress'
    <2>1. /\ act'["main"].phase \in {"exec", "executed", "result"} => state'[act'["main"].task] >= START
          /\ act'["main"].phase = "executed" => status'[act'["main"].task] \in Over \cup {"PENDING"}
          /\ act'["main"].phase = "result" => status'[act'["main"].task] \in Over
      <3>1. CASE a = "main"
        BY <1>3, <1>4, <3>1
      <3>2. CASE a = "monitor"
        <4>1. act'["main"] = act["main"]
          BY <1>4, <3>2 DEF Actors
        <4>2. act["main"].phase \in Busy => act["main"].task \in Tasks \ {t}
          BY <1>2, <1>7, <3>2, HandTask DEF Actors
        <4> QED  BY <1>1, <1>3, <4>1, <4>2 DEF Progress, Busy
      <3> QED  BY <3>1, <3>2
    <2>2. act'["killed"].phase = "result" => status'[act'["killed"].task] \in Over /\ state'[act'["killed"].task] >= START
      <3>1. act'["killed"] = act["killed"]
        BY <1>4 DEF Actors
      <3>2. act["killed"].phase = "result" => act["killed"].task \in Tasks \ {t}
        BY <1>2, <1>8, HandTask DEF Actors, Busy
      <3> QED  BY <1>1, <1>3, <3>1, <3>2 DEF Progress
    <2> QED  BY <2>1, <2>2 DEF Progress
  <1>10. \A x \in Tasks : Begun(x)' => Begun(x) \/ InHand(x) \/ InHand(x)'
    <2> SUFFICES ASSUME NEW x \in Tasks, Begun(x)', x # t  PROVE Begun(x)
      BY <1>5
    <2>1. state'[x] = state[x]
      BY <1>3
    <2>2. ASSUME NEW b \in Actors, act'[b] = Doing("start", x)  PROVE act[b] = Doing("start", x)
      BY <1>4, <2>2 DEF Doing
    <2> QED  BY <2>1, <2>2 DEF Begun
  <1>11. Results' /\ Fresh' /\ Ordered' /\ NoTaskLost' /\ Pending'
    <2>1. act'["killed"] = act["killed"]
      BY <1>4 DEF Actors
    <2> QED  BY <1>3, <1>4, <1>5, <1>6, <1>10, <2>1, Carry
  <1>12. StopIsFinal'
    <2>1. act[a] # Off /\ act'["stop"] = act["stop"]
      BY <1>4 DEF Hand, Busy, Off, Actors
    <2> QED  BY <1>1, <2>1 DEF StopIsFinal
  <1> QED  BY <1>6, <1>9, <1>11, <1>12 DEF IInv

LEMMA StartTaskKeeps ==
  ASSUME IInv, NEW a \in {"main", "monitor"}, StartTask(a)
  PROVE  IInv'
  <1>1. Hand(a) /\ TypeOK /\ Queued /\ Shape
    BY DEF StartTask, Hand, Busy, IInv, Core
  <1>2. PICK t \in Tasks : act[a].task = t
    BY <1>1, HandTask DEF Hand, Actors
  <1>3. /\ state' \in [Tasks -> States \cup {-1}] /\ waiting' \subseteq Waiters
        /\ slot' \in [Tasks -> [States -> Waiters \cup {NoWaiter}]]
        /\ state'[t] >= START /\ \A x \in Tasks : x # t => state'[x] = state[x]
    BY <1>1, <1>2, MoveEffect DEF StartTask, States, START
  <1>4. act' = [act EXCEPT ![a].phase = "exec"] /\ "exec" \in Busy
        /\ UNCHANGED <<queue, tasks, ids, resource_id, stopped, results, req, seen, size, status, retry_number>>
    BY DEF StartTask, Busy, taskVars
  <1>5. act' \in [Actors -> [phase : Phases, task : Tasks \cup {NoTask}]]
    BY <1>1, <1>4, HandStep DEF IInv
  <1>6. TypeOK'
    BY <1>1, <1>3, <1>4, <1>5 DEF TypeOK
  <1> QED  BY <1>1, <1>2, <1>3, <1>4, <1>6, HandKeeps

LEMMA ExecReturnKeeps ==
  ASSUME IInv, NEW a \in {"main", "monitor"}, ExecReturn(a)
  PROVE  IInv'
  <1>1. Hand(a) /\ TypeOK /\ Queued /\ Shape
    BY DEF ExecReturn, Hand, Busy, IInv, Core
  <1>2. PICK t \in Tasks : act[a].task = t
    BY <1>1, HandTask DEF Hand, Actors
  <1>3. PICK answer \in {"PENDING", "COMPLETED", "ERROR"} :
          Attempt(t, answer) /\ status' = [status EXCEPT ![t] = answer]
    BY <1>2 DEF ExecReturn
  <1>4. act' = [act EXCEPT ![a].phase = "executed"] /\ "executed" \in Busy
        /\ UNCHANGED <<queue, tasks, ids, resource_id, stopped, results, req, seen, size, state, slot, waiting>>
    BY DEF ExecReturn, Busy, stateVars
  <1>5. act' \in [Actors -> [phase : Phases, task : Tasks \cup {NoTask}]]
    BY <1>1, <1>4, HandStep DEF IInv
  <1>6. retry_number' \in [Tasks -> 1..Retries]
    BY <1>1, <1>3, AttemptEffect
  <1>7. status' \in [Tasks -> {"None", "PENDING", "COMPLETED", "ERROR", "ABORT"}] /\ status'[t] = answer
        /\ \A x \in Tasks \ {t} : status'[x] = status[x]
    BY <1>1, <1>3 DEF TypeOK
  <1>8. TypeOK'
    BY <1>1, <1>4, <1>5, <1>6, <1>7 DEF TypeOK
  <1>9. a = "main" => state'[t] >= START
    BY <1>2, <1>4 DEF ExecReturn, IInv, Progress
  <1>10. "executed" # "result" /\ status'[t] \in Over \cup {"PENDING"}
    BY <1>7 DEF Over
  <1> QED  BY <1>1, <1>2, <1>4, <1>7, <1>8, <1>9, <1>10, HandKeeps

LEMMA ToResultKeeps ==
  ASSUME IInv, NEW a \in {"main", "monitor"}, ToResult(a)
  PROVE  IInv'
  <1>1. Hand(a) /\ TypeOK /\ Queued /\ Shape
    BY DEF ToResult, Hand, Busy, IInv, Core
  <1>2. PICK t \in Tasks : act[a].task = t
    BY <1>1, HandTask DEF Hand, Actors
  <1>3. /\ state' \in [Tasks -> States \cup {-1}] /\ waiting' \subseteq Waiters
        /\ slot' \in [Tasks -> [States -> Waiters \cup {NoWaiter}]]
        /\ state'[t] >= START /\ \A x \in Tasks : x # t => state'[x] = state[x]
    BY <1>1, <1>2, MoveEffect DEF ToResult, States, EXECUTED
  <1>4. act' = [act EXCEPT ![a].phase = "result"] /\ "result" \in Busy
        /\ UNCHANGED <<queue, tasks, ids, resource_id, stopped, results, req, seen, size, status, retry_number>>
    BY DEF ToResult, Busy, taskVars
  <1>5. act' \in [Actors -> [phase : Phases, task : Tasks \cup {NoTask}]]
    BY <1>1, <1>4, HandStep DEF IInv
  <1>6. TypeOK'
    BY <1>1, <1>3, <1>4, <1>5 DEF TypeOK
  <1>7. a = "main" => status'[t] \in Over
    BY <1>2, <1>4 DEF ToResult, IInv, Progress
  <1> QED  BY <1>1, <1>2, <1>3, <1>4, <1>6, <1>7, HandKeeps

-----------------------------------------------------------------------------
(* The main thread                                                         *)

\* It is done with t, which waits in ts or has its result, and goes round its loop.
LEMMA LoopKeeps ==
  ASSUME IInv, NEW ts, Lines(ts, queue), \A i \in Fronts(tasks) : i \in Fronts(ts) /\ ts[i] = tasks[i],
         NEW t, act["main"].task = t, act["main"] # Off,
         ToSet(ts) \cup {t} = ToSet(tasks) \cup {t},
         NEW rq \in BOOLEAN, MainLoop(ts, rq),
         UNCHANGED <<ids, stopped, seen, size, resource_id, retry_number, status>>,
         state' \in [Tasks -> States \cup {-1}], waiting' \subseteq Waiters,
         slot' \in [Tasks -> [States -> Waiters \cup {NoWaiter}]], results' \in [Tasks -> Nat],
         \A x \in Tasks \ {t} : state'[x] = state[x] /\ results'[x] = results[x],
         t \in Tasks => \/ t \in ToSet(ts) /\ results'[t] = results[t]
                        \/ t \notin ToSet(ts) /\ state'[t] = RESULT /\ results'[t] = results[t] + 1
  PROVE  IInv'
  <1>1. Core /\ Progress /\ Results /\ StopIsFinal
    BY DEF IInv
  <1>2. TypeOK /\ Queued /\ Shape /\ Control /\ Places
    BY <1>1 DEF Core
  <1>3. /\ Lines(tasks', queue') /\ req' \in BOOLEAN
        /\ \A i \in Fronts(ts) : i \in Fronts(tasks') /\ tasks'[i] = ts[i]
    BY LoopEffect
  <1>4. PICK u \in Tasks \cup {NoTask}, phase \in {"wait", "start"} :
              /\ act' = [act EXCEPT !["main"] = Doing(phase, u)]
              /\ ToSet(tasks') \cup ToSet(queue') = (ToSet(ts) \cup ToSet(queue)) \ {u}
              /\ phase = "wait" => u = NoTask
              /\ phase = "start" => /\ u \in ToSet(queue) /\ u \in Tasks /\ u \in Added
                                    /\ resource_id[u] \notin Keys(tasks')
                                    /\ \A v \in ToSet(queue') : Before(u, v)
    BY LoopEffect
  <1>5. Added' = Added /\ \A x, y : Before(x, y)' <=> Before(x, y)
    BY DEF Added, Before
  <1>6. /\ act' \in [Actors -> [phase : Phases, task : Tasks \cup {NoTask}]]
        /\ act'["main"] = Doing(phase, u) /\ act'["main"].phase = phase /\ act'["main"].task = u
        /\ act'["monitor"] = act["monitor"] /\ act'["stop"] = act["stop"] /\ act'["killed"] = act["killed"]
    BY <1>2, <1>4 DEF TypeOK, Actors, Doing, Phases
  <1>7. Queued'
    BY <1>3, <1>5 DEF Queued, Lines
  <1>8. ~stopped /\ ~stopped' /\ act["stop"] = Off
    BY <1>2 DEF Control
  <1>9. TypeOK'
    BY <1>2, <1>3, <1>6, LinesTyped DEF TypeOK
  <1>10. Shape'
    <2>1. \A a \in Actors \ {"main"} : act'[a] = act[a]
      BY <1>6 DEF Actors
    <2>2. IF act'["main"].phase \in Busy \cup {"status"} THEN act'["main"].task \in Added
                                                         ELSE act'["main"].task = NoTask
      BY <1>4, <1>6 DEF Busy
    <2> QED  BY <1>2, <1>4, <1>5, <1>6, <2>1, <2>2 DEF Shape, Busy
  <1>11. Control'
    <2>1. act'["main"] # Off
      BY <1>6 DEF Off
    <2> QED  BY <1>2, <1>6, <1>8, <2>1 DEF Control
  <1>12. t \in Tasks => act["main"].phase \in Busy /\ Alone(t) /\ Held(t) /\ t \in Added
    <2>1. t \in Tasks => act["main"].phase \in Busy
      BY <1>2, TaskAssumption DEF Shape, Actors, Busy
    <2> QED  BY <1>2, <2>1, HandTask DEF Places, Held, Actors
  <1>13. t \in Tasks => /\ t \notin ToSet(queue) /\ act["monitor"].task # t /\ act["stop"].task # t
                        /\ act["killed"].task # t /\ u # t
    <2> SUFFICES ASSUME t \in Tasks
                 PROVE  /\ t \notin ToSet(queue) /\ act["monitor"].task # t /\ act["stop"].task # t
                        /\ act["killed"].task # t /\ u # t
      OBVIOUS
    <2>1. t # NoTask /\ t \notin ToSet(queue)
      BY <1>12, TaskAssumption DEF Alone
    <2>2. act["monitor"].task # t
      BY <1>1, <1>2, <2>1, HandAlone, HandTask DEF Places, Actors
    <2>3. act["stop"].task # t
      BY <1>2, <1>8, <2>1 DEF Off
    <2>4. act["killed"].task # t
      BY <1>2, <2>1, HandTask DEF Places, Actors, Shape, Busy
    <2> QED  BY <1>4, <2>1, <2>2, <2>3, <2>4
  <1>14. act["killed"].phase = "result" =>
           act["killed"].task \notin ToSet(queue) \cup ToSet(ts) /\ act["killed"].task \in Tasks \ {t}
    <2> SUFFICES ASSUME act["killed"].phase = "result"
                 PROVE  act["killed"].task \notin ToSet(queue) \cup ToSet(ts) /\ act["killed"].task \in Tasks \ {t}
      OBVIOUS
    <2>1. act["killed"].task \notin ToSet(queue) \cup ToSet(tasks) /\ act["killed"].task # t
      BY <1>2 DEF Places
    <2> QED  BY <1>2, <2>1, HandTask DEF Actors, Busy
  <1>15. Places'
    <2>1. phase = "start" => Alone(u)'
      BY <1>4, <1>5 DEF Alone, Keys
    <2>2. \A x : First(x) => First(x)'
      BY <1>3 DEF First, Fronts
    <2>3. act["killed"].phase = "result" =>
            /\ act["killed"].task \notin ToSet(queue') \cup ToSet(tasks')
            /\ act["killed"].task # u
      BY <1>4, <1>14, TaskAssumption
    <2> QED  BY <1>2, <1>4, <1>6, <2>1, <2>2, <2>3 DEF Places, Busy
  <1>16. Core'
    BY <1>7, <1>9, <1>10, <1>11, <1>15 DEF Core
  <1>17. \A x \in Tasks : Held(x)' <=> \/ x \in (ToSet(ts) \cup ToSet(queue)) \ {u} \/ x = u
                                       \/ act["monitor"].task = x \/ act["stop"].task = x
    BY <1>4, <1>6 DEF Held, Actors
  <1>18. \A x \in Tasks \ {t} : Held(x)' <=> Held(x)
    <2>1. \A x \in Tasks \ {t} : Held(x) <=> \/ x \in ToSet(ts) \cup ToSet(queue)
                                             \/ act["monitor"].task = x \/ act["stop"].task = x
      BY DEF Held, Actors
    <2>2. u \in Tasks => u \in ToSet(queue)
      BY <1>4, TaskAssumption
    <2> QED  BY <1>17, <2>1, <2>2
  <1>19. t \in Tasks => (Held(t)' <=> t \in ToSet(ts))
    BY <1>13, <1>17
  <1>20. \A x \in Tasks : Begun(x)' => Begun(x) \/ InHand(x) \/ InHand(x)'
    <2> SUFFICES ASSUME NEW x \in Tasks, Begun(x)', x # t, ~InHand(x)'  PROVE Begun(x)
      BY <1>12 DEF InHand, Hand, Actors
    <2>1. state'[x] = state[x]
      OBVIOUS
    <2>2. ASSUME NEW b \in Actors, act'[b] = Doing("start", x)  PROVE act[b] = Doing("start", x)
      <3>1. b # "main"
        BY <1>6, <2>2 DEF InHand, Hand, Actors, Busy, Doing
      <3> QED  BY <1>6, <2>2, <3>1 DEF Actors
    <2> QED  BY <2>1, <2>2 DEF Begun
  <1>21. Results' /\ Fresh' /\ Ordered' /\ NoTaskLost' /\ Pending'
    <2>1. t \in Tasks =>
           /\ t \in Added /\ (Held(t) \/ act["killed"].task = t) /\ (Held(t)' => Held(t))
           /\ \/ Held(t)' /\ results'[t] = results[t]
              \/ ~Held(t)' /\ MayStop /\ status'[t] \in Over /\ results'[t] = results[t]
              \/ ~Held(t)' /\ act'["killed"].task # t /\ state'[t] = RESULT /\ results'[t] = results[t] + 1
      BY <1>6, <1>12, <1>13, <1>19
    <2> QED  BY <1>6, <1>16, <1>18, <1>20, <2>1, Carry
  <1>22. Progress'
    BY <1>1, <1>4, <1>6, <1>14 DEF Progress
  <1>23. StopIsFinal'
    BY <1>8 DEF StopIsFinal
  <1> QED  BY <1>16, <1>21, <1>22, <1>23 DEF IInv

LEMMA MainWakeKeeps ==
  ASSUME IInv, MainWake
  PROVE  IInv'
  <1>1. TypeOK /\ Queued /\ Shape
    BY DEF IInv, Core
  <1>2. act["main"].task = NoTask /\ act["main"] # Off /\ NoTask \notin Tasks
    <2>1. act["main"].phase \in {"new", "wait"}
      BY DEF MainWake
    <2> QED  BY <1>1, <2>1, HandTask, TaskAssumption DEF Busy, Actors, Off
  <1>3. PICK rq \in BOOLEAN : MainLoop(tasks, rq)
    BY <1>1 DEF MainWake, TypeOK
  <1>4. UNCHANGED <<ids, stopped, seen, size, resource_id, retry_number, status, state, slot, waiting, results>>
    BY DEF MainWake, taskVars, stateVars
  <1>5. Lines(tasks, queue)
    BY <1>1 DEF Queued
  <1> QED  BY <1>1, <1>2, <1>3, <1>4, <1>5, LoopKeeps DEF TypeOK

LEMMA MainPendingKeeps ==
  ASSUME IInv, MainPending
  PROVE  IInv'
  <1>1. TypeOK /\ Queued /\ Shape /\ Places
    BY DEF IInv, Core
  <1>2. act["main"].phase \in Busy /\ act["main"] # Off
    BY DEF MainPending, Busy, Off
  <1>3. PICK t \in Tasks : act["main"].task = t /\ t \in Added /\ Alone(t)
    BY <1>1, <1>2, HandTask DEF Actors, Places
  <1>4. /\ state' \in [Tasks -> States \cup {-1}] /\ waiting' \subseteq Waiters
        /\ slot' \in [Tasks -> [States -> Waiters \cup {NoWaiter}]]
        /\ \A x \in Tasks : x # t => state'[x] = state[x]
    BY <1>1, <1>3, MoveEffect DEF MainPending, States, EXECUTED
  <1>5. MainLoop(Enqueued(t), req) /\ req \in BOOLEAN
    BY <1>1, <1>3 DEF MainPending, TypeOK
  <1>6. UNCHANGED <<ids, stopped, seen, size, resource_id, retry_number, status, results>>
    BY DEF MainPending, taskVars
  <1>7. /\ Lines(Enqueued(t), queue) /\ ToSet(Enqueued(t)) = ToSet(tasks) \cup {t}
        /\ \A i \in Fronts(tasks) : i \in Fronts(Enqueued(t)) /\ Enqueued(t)[i] = tasks[i]
    BY <1>1, <1>3, LinesEnqueue
  <1>8. results' \in [Tasks -> Nat]
    BY <1>1, <1>6 DEF TypeOK
  <1> QED  BY <1>2, <1>3, <1>4, <1>5, <1>6, <1>7, <1>8, LoopKeeps

LEMMA MainFinishKeeps ==
  ASSUME IInv, MainFinish
  PROVE  IInv'
  <1>1. TypeOK /\ Queued /\ Shape /\ Places
    BY DEF IInv, Core
  <1>2. act["main"].phase \in Busy /\ act["main"] # Off
    BY DEF MainFinish, Busy, Off
  <1>3. PICK t \in Tasks : act["main"].task = t /\ t \in Added /\ Alone(t)
    BY <1>1, <1>2, HandTask DEF Actors, Places
  <1>4. /\ state' \in [Tasks -> States \cup {-1}] /\ waiting' \subseteq Waiters
        /\ slot' \in [Tasks -> [States -> Waiters \cup {NoWaiter}]]
        /\ state'[t] = RESULT /\ \A x \in Tasks : x # t => state'[x] = state[x]
    BY <1>1, <1>3, MoveEffect DEF MainFinish, States
  <1>5. MainLoop(tasks, req) /\ req \in BOOLEAN /\ Lines(tasks, queue) /\ t \notin ToSet(tasks)
    BY <1>1, <1>3 DEF MainFinish, TypeOK, Queued, Alone
  <1>6. UNCHANGED <<ids, stopped, seen, size, resource_id, retry_number, status>>
    BY DEF MainFinish, taskVars
  <1>7. /\ results' \in [Tasks -> Nat] /\ results'[t] = results[t] + 1
        /\ \A x \in Tasks : x # t => results'[x] = results[x]
    BY <1>1, <1>3 DEF MainFinish, TypeOK
  <1> QED  BY <1>2, <1>3, <1>4, <1>5, <1>6, <1>7, LoopKeeps

-----------------------------------------------------------------------------
(* The looping call                                                        *)

\* It is done with t, which is pending or has its result, and goes on.
LEMMA MonitorKeeps ==
  ASSUME IInv, TypeOK', NEW t, act["monitor"].task = t, act["monitor"] # Off,
         UNCHANGED <<ids, queue, stopped, resource_id>>,
         Lines(tasks', queue), Keys(tasks') \subseteq Keys(tasks),
         NEW w \in [phase : Phases, task : Tasks \cup {NoTask}], act' = [act EXCEPT !["monitor"] = w],
         \/ w = Off \/ w = Doing("idle", NoTask)
         \/ w.phase \in {"status", "start"} /\ \E i \in Fronts(tasks') : w.task = tasks'[i],
         \A x \in Tasks \ {t} : state'[x] = state[x] /\ status'[x] = status[x] /\ results'[x] = results[x],
         ToSet(tasks') \cup {t} = ToSet(tasks) \cup {t},
         t \in Tasks => \/ t \in ToSet(tasks') /\ results'[t] = results[t]
                        \/ t \notin ToSet(tasks') /\ state'[t] = RESULT /\ results'[t] = results[t] + 1
  PROVE  IInv'
  <1>1. Core /\ Progress /\ Results /\ StopIsFinal
    BY DEF IInv
  <1>2. TypeOK /\ Queued /\ Shape /\ Control /\ Places
    BY <1>1 DEF Core
  <1>3. Added' = Added /\ \A x, y : Before(x, y)' <=> Before(x, y)
    BY DEF Added, Before
  <1>4. /\ act'["monitor"] = w
        /\ act'["main"] = act["main"] /\ act'["stop"] = act["stop"] /\ act'["killed"] = act["killed"]
    BY <1>2 DEF TypeOK, Actors
  <1>5. Queued'
    BY <1>3 DEF Queued, Lines
  <1>6. act["stop"].phase # "result" /\ act["stop"].task = NoTask
    BY <1>2, HandTask DEF Control, Shape, Busy, Actors
  <1>7. \/ w.phase \in {"off", "idle"} /\ w.task = NoTask
        \/ w.phase \in {"status", "start"} /\ w.task \in ToSet(tasks') /\ w.task \in Added /\ First(w.task)'
    <2>1. CASE w = Off \/ w = Doing("idle", NoTask)
      BY <2>1 DEF Off, Doing
    <2>2. CASE w.phase \in {"status", "start"} /\ \E i \in Fronts(tasks') : w.task = tasks'[i]
      <3>1. PICK i \in Fronts(tasks') : w.task = tasks'[i]
        BY <2>2
      <3>2. i \in DOMAIN tasks' /\ w.task \in Added
        BY <3>1 DEF Fronts, Lines
      <3>3. First(w.task)'
        BY <3>1 DEF First, Fronts
      <3> QED  BY <2>2, <3>1, <3>2, <3>3 DEF ToSet
    <2> QED  BY <2>1, <2>2
  <1>8. Shape'
    <2>1. IF act'["monitor"].phase \in Busy \cup {"status"} THEN act'["monitor"].task \in Added
                                                            ELSE act'["monitor"].task = NoTask
      BY <1>4, <1>7 DEF Busy
    <2>2. act'["monitor"].phase \in {"off", "idle", "status"} \cup Busy
      BY <1>4, <1>7 DEF Busy
    <2>3. \A a \in Actors \ {"monitor"} : act'[a] = act[a]
      BY <1>4 DEF Actors
    <2> QED  BY <1>2, <1>3, <1>4, <2>1, <2>2, <2>3 DEF Shape
  <1>9. Control'
    BY <1>2, <1>4, <1>6 DEF Control
  <1>10. t \in Tasks => act["monitor"].phase \in Busy \cup {"status"} /\ First(t) /\ Held(t) /\ t \in Added
    <2>1. t \in Tasks => act["monitor"].phase \in Busy \cup {"status"}
      BY <1>2, HandTask, TaskAssumption DEF Actors
    <2> QED  BY <1>2, <2>1, HandTask DEF Places, Held, Actors
  <1>11. t \in Tasks => /\ t \notin ToSet(queue) /\ act["main"].task # t /\ act["stop"].task # t
                        /\ act["killed"].task # t
    <2> SUFFICES ASSUME t \in Tasks
                 PROVE  /\ t \notin ToSet(queue) /\ act["main"].task # t /\ act["stop"].task # t
                        /\ act["killed"].task # t
      OBVIOUS
    <2>1. t # NoTask /\ act["main"].task # t
      BY <1>1, <1>10, HandAlone, TaskAssumption
    <2>2. t \notin ToSet(queue)
      BY <1>2, <1>10 DEF First, Fronts, Queued, Lines, ToSet
    <2>3. act["killed"].task # t
      BY <1>1, <1>2, <1>10, <2>1, HandAlone, HandTask DEF Actors, Shape, Busy
    <2> QED  BY <1>6, <2>1, <2>2, <2>3
  <1>12. ToSet(tasks') \subseteq ToSet(tasks)
    <2>1. CASE t \in Tasks
      BY <1>10, <2>1 DEF First, Fronts, ToSet
    <2>2. CASE t \notin Tasks
      <3>1. ToSet(tasks') \subseteq Tasks
        BY DEF Lines, ToSet
      <3> QED  BY <2>2, <3>1
    <2> QED  BY <2>1, <2>2
  <1>13. Places'
    <2>1. \A x : Alone(x) => Alone(x)'
      <3>1. \A x : resource_id'[x] = resource_id[x] /\ Keys(tasks)' = Keys(tasks')
        BY DEF Keys
      <3> QED  BY <1>3, <1>12, <3>1 DEF Alone
    <2> QED  BY <1>2, <1>4, <1>6, <1>7, <1>12, <2>1 DEF Places, Busy
  <1>14. Core'
    BY <1>5, <1>8, <1>9, <1>13 DEF Core
  <1>15. \A x \in Tasks : Held(x)' <=> x \in ToSet(queue) \cup ToSet(tasks') \/ act["main"].task = x
    <2>1. \A x \in Tasks : w.task = x => x \in ToSet(tasks')
      BY <1>7, TaskAssumption
    <2> QED  BY <1>4, <1>6, <2>1, TaskAssumption DEF Held, Actors
  <1>16. \A x \in Tasks \ {t} : Held(x)' <=> Held(x)
    BY <1>6, <1>15, TaskAssumption DEF Held, Actors
  <1>17. t \in Tasks => (Held(t)' <=> t \in ToSet(tasks'))
    BY <1>11, <1>15
  <1>18. \A x \in Tasks : Begun(x)' => Begun(x) \/ InHand(x) \/ InHand(x)'
    <2> SUFFICES ASSUME NEW x \in Tasks, Begun(x)', x # t, ~InHand(x)'  PROVE Begun(x)
      BY <1>10 DEF InHand, Hand, Actors
    <2>1. state'[x] = state[x]
      OBVIOUS
    <2>2. ASSUME NEW b \in Actors, act'[b] = Doing("start", x)  PROVE act[b] = Doing("start", x)
      <3>1. b # "monitor"
        BY <2>2 DEF InHand, Hand, Actors, Busy, Doing
      <3> QED  BY <1>4, <2>2, <3>1 DEF Actors
    <2> QED  BY <2>1, <2>2 DEF Begun
  <1>19. Results' /\ Fresh' /\ Ordered' /\ NoTaskLost' /\ Pending'
    <2>1. t \in Tasks =>
           /\ t \in Added /\ (Held(t) \/ act["killed"].task = t) /\ (Held(t)' => Held(t))
           /\ \/ Held(t)' /\ results'[t] = results[t]
              \/ ~Held(t)' /\ MayStop /\ status'[t] \in Over /\ results'[t] = results[t]
              \/ ~Held(t)' /\ act'["killed"].task # t /\ state'[t] = RESULT /\ results'[t] = results[t] + 1
      BY <1>4, <1>10, <1>11, <1>17
    <2> QED  BY <1>4, <1>14, <1>16, <1>18, <2>1, Carry
  <1>20. Progress'
    <2>1. \A a \in {"main", "killed"} : act[a].phase \in Busy => act[a].task \in Tasks \ {t}
      BY <1>2, <1>11, HandTask DEF Actors
    <2> QED  BY <1>1, <1>4, <2>1 DEF Progress, Busy
  <1>21. StopIsFinal'
    BY <1>1, <1>4 DEF StopIsFinal
  <1> QED  BY <1>14, <1>19, <1>20, <1>21 DEF IInv

\* The ways in which Iterate leaves the monitor.
Turns(ts) ==
  \/ act' = [act EXCEPT !["monitor"] = Off]
  \/ act' = [act EXCEPT !["monitor"] = Doing("idle", NoTask)]
  \/ \E i \in Fronts(ts), phase \in {"status", "start"} : act' = [act EXCEPT !["monitor"] = Doing(phase, ts[i])]
LEMMA Turn ==
  ASSUME TypeOK, NEW ts, ts \in Seq(Tasks), Turns(ts)
  PROVE  /\ act' \in [Actors -> [phase : Phases, task : Tasks \cup {NoTask}]]
         /\ \E w \in [phase : Phases, task : Tasks \cup {NoTask}] :
              /\ act' = [act EXCEPT !["monitor"] = w]
              /\ \/ w = Off \/ w = Doing("idle", NoTask)
                 \/ w.phase \in {"status", "start"} /\ \E i \in Fronts(ts) : w.task = ts[i]
  <1> DEFINE Kinds == [phase : Phases, task : Tasks \cup {NoTask}]
             Fine(w) == \/ w = Off \/ w = Doing("idle", NoTask)
                        \/ w.phase \in {"status", "start"} /\ \E i \in Fronts(ts) : w.task = ts[i]
  <1>1. \E w \in Kinds : act' = [act EXCEPT !["monitor"] = w] /\ Fine(w)
    <2>1. CASE act' = [act EXCEPT !["monitor"] = Off]
      <3>1. Off \in Kinds /\ Fine(Off)
        BY DEF Off, Phases
      <3> QED  BY <2>1, <3>1
    <2>2. CASE act' = [act EXCEPT !["monitor"] = Doing("idle", NoTask)]
      <3>1. Doing("idle", NoTask) \in Kinds /\ Fine(Doing("idle", NoTask))
        BY DEF Doing, Phases
      <3> QED  BY <2>2, <3>1
    <2>3. CASE \E i \in Fronts(ts), phase \in {"status", "start"} : act' = [act EXCEPT !["monitor"] = Doing(phase, ts[i])]
      <3>1. PICK i \in Fronts(ts), phase \in {"status", "start"} : act' = [act EXCEPT !["monitor"] = Doing(phase, ts[i])]
        BY <2>3
      <3>2. Doing(phase, ts[i]) \in Kinds /\ Fine(Doing(phase, ts[i]))
        BY DEF Doing, Phases, Fronts
      <3> QED  BY <3>1, <3>2
    <2> QED  BY <2>1, <2>2, <2>3 DEF Turns
  <1>2. act' \in [Actors -> Kinds]
    BY <1>1 DEF TypeOK
  <1> QED  BY <1>1, <1>2

LEMMA MonitorRoundKeeps ==
  ASSUME IInv, MonitorRound
  PROVE  IInv'
  <1>1. TypeOK /\ Queued /\ Shape /\ Fresh
    BY DEF IInv, Core
  <1>2. act["monitor"].task = NoTask /\ act["monitor"] # Off /\ NoTask \notin Tasks
    BY <1>1, HandTask, TaskAssumption DEF MonitorRound, Busy, Actors, Off
  <1>3. Lines(tasks, queue) /\ tasks \in Seq(Tasks) /\ \A i \in DOMAIN tasks : resource_id[tasks[i]] \in Resources
    BY <1>1 DEF Queued, Lines, Fresh
  <1>4. PICK n \in Nat : Iterate(tasks, {}, n)
    BY <1>3, KeysCount DEF MonitorRound
  <1>5. /\ seen' \subseteq Resources /\ size' \in Nat
        /\ \/ act' = [act EXCEPT !["monitor"] = Off]
           \/ ~stopped /\ act' = [act EXCEPT !["monitor"] = Doing("idle", NoTask)]
           \/ ~stopped /\ \E i \in Fronts(tasks) : act' = [act EXCEPT !["monitor"] = Doing("status", tasks[i])]
    BY <1>3, <1>4, IterateEffect
  <1>6. UNCHANGED <<ids, queue, tasks, req, stopped, resource_id, status, retry_number, state, slot, waiting, results>>
    BY DEF MonitorRound, taskVars, stateVars
  <1>7. /\ act' \in [Actors -> [phase : Phases, task : Tasks \cup {NoTask}]]
        /\ \E w \in [phase : Phases, task : Tasks \cup {NoTask}] :
              /\ act' = [act EXCEPT !["monitor"] = w]
              /\ \/ w = Off \/ w = Doing("idle", NoTask)
                 \/ w.phase \in {"status", "start"} /\ \E i \in Fronts(tasks) : w.task = tasks[i]
    <2>1. Turns(tasks)
      BY <1>5 DEF Turns
    <2> QED  BY <1>1, <1>3, <2>1, Turn
  <1>8. TypeOK'
    BY <1>1, <1>5, <1>6, <1>7 DEF TypeOK
  <1>9. Lines(tasks', queue) /\ Keys(tasks') \subseteq Keys(tasks) /\ ToSet(tasks') = ToSet(tasks)
    BY <1>3, <1>6
  <1> QED  BY <1>2, <1>6, <1>7, <1>8, <1>9, MonitorKeeps

\* Its task is pending, and it goes on to the next resource.
LEMMA MonitorLeaves ==
  ASSUME IInv, Hand("monitor"), Iterate(tasks, seen, size),
         UNCHANGED <<ids, queue, tasks, req, stopped, resource_id, results>>,
         state' \in [Tasks -> States \cup {-1}], waiting' \subseteq Waiters,
         slot' \in [Tasks -> [States -> Waiters \cup {NoWaiter}]],
         status' \in [Tasks -> {"None", "PENDING", "COMPLETED", "ERROR", "ABORT"}],
         retry_number' \in [Tasks -> 1..Retries],
         \A x \in Tasks \ {act["monitor"].task} : state'[x] = state[x] /\ status'[x] = status[x]
  PROVE  IInv'
  <1>1. TypeOK /\ Queued /\ Shape /\ Places /\ Fresh
    BY DEF IInv, Core
  <1>2. PICK t \in Tasks : act["monitor"].task = t /\ First(t)
    BY <1>1, HandTask DEF Hand, Actors, Places
  <1>3. act["monitor"] # Off /\ t \in ToSet(tasks)
    BY <1>2 DEF Hand, Busy, Off, First, Fronts, ToSet
  <1>4. Lines(tasks, queue) /\ tasks \in Seq(Tasks) /\ \A i \in DOMAIN tasks : resource_id[tasks[i]] \in Resources
    BY <1>1 DEF Queued, Lines, Fresh
  <1>5. /\ seen' \subseteq Resources /\ size' \in Nat
        /\ \/ act' = [act EXCEPT !["monitor"] = Off]
           \/ ~stopped /\ act' = [act EXCEPT !["monitor"] = Doing("idle", NoTask)]
           \/ ~stopped /\ \E i \in Fronts(tasks) : act' = [act EXCEPT !["monitor"] = Doing("status", tasks[i])]
    <2>1. seen \subseteq Resources /\ size \in Nat
      BY <1>1 DEF TypeOK
    <2> QED  BY <1>4, <2>1, IterateEffect
  <1>6. /\ act' \in [Actors -> [phase : Phases, task : Tasks \cup {NoTask}]]
        /\ \E w \in [phase : Phases, task : Tasks \cup {NoTask}] :
              /\ act' = [act EXCEPT !["monitor"] = w]
              /\ \/ w = Off \/ w = Doing("idle", NoTask)
                 \/ w.phase \in {"status", "start"} /\ \E i \in Fronts(tasks) : w.task = tasks[i]
    <2>1. Turns(tasks)
      BY <1>5 DEF Turns
    <2>2. TypeOK /\ tasks \in Seq(Tasks)
      BY <1>1, <1>4
    <2>3. PICK w \in [phase : Phases, task : Tasks \cup {NoTask}] :
            /\ act' = [act EXCEPT !["monitor"] = w]
            /\ \/ w = Off \/ w = Doing("idle", NoTask)
               \/ w.phase \in {"status", "start"} /\ \E i \in Fronts(tasks) : w.task = tasks[i]
      BY <2>1, <2>2, Turn
    <2>4. act' \in [Actors -> [phase : Phases, task : Tasks \cup {NoTask}]]
      BY <2>1, <2>2, Turn
    <2> QED  BY <2>3, <2>4
  <1>7. TypeOK'
    BY <1>1, <1>5, <1>6 DEF TypeOK
  <1>8. Lines(tasks', queue) /\ Keys(tasks') \subseteq Keys(tasks) /\ ToSet(tasks') = ToSet(tasks)
    BY <1>4
  <1>9. PICK w \in [phase : Phases, task : Tasks \cup {NoTask}] :
              /\ act' = [act EXCEPT !["monitor"] = w]
              /\ \/ w = Off \/ w = Doing("idle", NoTask)
                 \/ w.phase \in {"status", "start"} /\ \E i \in Fronts(tasks') : w.task = tasks'[i]
    BY <1>6
  <1>10. t \in ToSet(tasks') /\ \A x \in Tasks : results'[x] = results[x]
    BY <1>3
  <1>11. \A x \in Tasks \ {t} : state'[x] = state[x] /\ status'[x] = status[x] /\ results'[x] = results[x]
    BY <1>2
  <1> QED  BY <1>2, <1>3, <1>7, <1>8, <1>9, <1>10, <1>11, MonitorKeeps

LEMMA StatusReturnKeeps ==
  ASSUME IInv, StatusReturn
  PROVE  IInv'
  <1>1. TypeOK /\ Queued /\ Shape /\ Places
    BY DEF IInv, Core
  <1>2. Hand("monitor")
    BY DEF StatusReturn, Hand
  <1>3. PICK t \in Tasks : act["monitor"].task = t
    BY <1>1, <1>2, HandTask DEF Hand, Actors
  <1>4. PICK answer \in {"PENDING", "COMPLETED", "ERROR"} :
          /\ Attempt(t, answer) /\ status' = [status EXCEPT ![t] = answer]
          /\ IF answer = "PENDING"
             THEN Iterate(tasks, seen, size)
             ELSE act' = [act EXCEPT !["monitor"].phase = "result"] /\ UNCHANGED <<seen, size>>
    BY <1>3 DEF StatusReturn
  <1>5. UNCHANGED <<ids, queue, tasks, req, stopped, resource_id, state, slot, waiting, results>>
    BY DEF StatusReturn, stateVars
  <1>6. retry_number' \in [Tasks -> 1..Retries]
    BY <1>1, <1>4, AttemptEffect
  <1>7. status' \in [Tasks -> {"None", "PENDING", "COMPLETED", "ERROR", "ABORT"}]
        /\ \A x \in Tasks \ {t} : status'[x] = status[x]
    BY <1>1, <1>4 DEF TypeOK
  <1>8. CASE answer = "PENDING"
    <2>1. Iterate(tasks, seen, size)
      BY <1>4, <1>8
    <2>2. /\ state' \in [Tasks -> States \cup {-1}] /\ waiting' \subseteq Waiters
          /\ slot' \in [Tasks -> [States -> Waiters \cup {NoWaiter}]]
      BY <1>1, <1>5 DEF TypeOK
    <2> QED  BY <1>2, <1>3, <1>5, <1>6, <1>7, <2>1, <2>2, MonitorLeaves
  <1>9. CASE answer # "PENDING"
    <2>1. act' = [act EXCEPT !["monitor"].phase = "result"] /\ UNCHANGED <<seen, size>> /\ "result" \in Busy
      BY <1>4, <1>9 DEF Busy
    <2>2. act' \in [Actors -> [phase : Phases, task : Tasks \cup {NoTask}]]
      BY <1>2, <1>5, <2>1, HandStep DEF IInv
    <2>3. TypeOK'
      BY <1>1, <1>5, <1>6, <1>7, <2>1, <2>2 DEF TypeOK
    <2> QED  BY <1>2, <1>3, <1>5, <1>7, <2>1, <2>3, HandKeeps
  <1> QED  BY <1>8, <1>9

LEMMA MonitorPendingKeeps ==
  ASSUME IInv, MonitorPending
  PROVE  IInv'
  <1>1. TypeOK /\ Queued /\ Shape /\ Places
    BY DEF IInv, Core
  <1>2. Hand("monitor")
    BY DEF MonitorPending, Hand, Busy
  <1>3. PICK t \in Tasks : act["monitor"].task = t
    BY <1>1, <1>2, HandTask DEF Hand, Actors
  <1>4. /\ state' \in [Tasks -> States \cup {-1}] /\ waiting' \subseteq Waiters
        /\ slot' \in [Tasks -> [States -> Waiters \cup {NoWaiter}]]
        /\ \A x \in Tasks : x # t => state'[x] = state[x]
    BY <1>1, <1>3, MoveEffect DEF MonitorPending, States, EXECUTED
  <1>5. Iterate(tasks, seen, size)
        /\ UNCHANGED <<ids, queue, tasks, req, stopped, resource_id, status, retry_number, results>>
    BY DEF MonitorPending, taskVars
  <1>6. /\ status' \in [Tasks -> {"None", "PENDING", "COMPLETED", "ERROR", "ABORT"}]
        /\ retry_number' \in [Tasks -> 1..Retries]
    BY <1>1, <1>5 DEF TypeOK
  <1> QED  BY <1>2, <1>3, <1>4, <1>5, <1>6, MonitorLeaves

\* A task leaves the queue of its resource for good.
LEMMA DequeueEffect ==
  ASSUME Queued, NEW t, Dequeue(t)
  PROVE  /\ Lines(tasks', queue) /\ Keys(tasks') \subseteq Keys(tasks)
         /\ ToSet(tasks') = ToSet(tasks) \ {t}
  <1>1. PICK i \in DOMAIN tasks : tasks[i] = t /\ tasks' = RemoveAt(tasks, i)
    BY DEF Dequeue
  <1>2. Lines(tasks, queue)
    BY DEF Queued
  <1> QED  BY <1>1, <1>2, LinesRemove

LEMMA MonitorFinishKeeps ==
  ASSUME IInv, MonitorFinish
  PROVE  IInv'
  <1>1. TypeOK /\ Queued /\ Shape /\ Places /\ Fresh
    BY DEF IInv, Core
  <1>2. act["monitor"].phase = "result" /\ act["monitor"] # Off
    BY DEF MonitorFinish, Off
  <1>3. PICK t \in Tasks : act["monitor"].task = t
    BY <1>1, <1>2, HandTask DEF Busy, Actors
  <1>4. /\ state' \in [Tasks -> States \cup {-1}] /\ waiting' \subseteq Waiters
        /\ slot' \in [Tasks -> [States -> Waiters \cup {NoWaiter}]]
        /\ state'[t] = RESULT /\ \A x \in Tasks : x # t => state'[x] = state[x]
    BY <1>1, <1>3, MoveEffect DEF MonitorFinish, States
  <1>5. Dequeue(t)
    BY <1>3 DEF MonitorFinish
  <1>6. Lines(tasks', queue) /\ Keys(tasks') \subseteq Keys(tasks) /\ ToSet(tasks') = ToSet(tasks) \ {t}
    BY <1>1, <1>5, DequeueEffect
  <1>7. /\ results' \in [Tasks -> Nat] /\ results'[t] = results[t] + 1
        /\ \A x \in Tasks : x # t => results'[x] = results[x]
    BY <1>1, <1>3 DEF MonitorFinish, TypeOK
  <1>8. UNCHANGED <<ids, queue, req, stopped, resource_id, status, retry_number>>
    BY DEF MonitorFinish, taskVars
  <1>9. tasks' \in Seq(Tasks) /\ IsInjective(tasks') /\ \A i \in DOMAIN tasks' : resource_id[tasks'[i]] \in Resources
    <2>1. \A i \in DOMAIN tasks' : tasks'[i] \in Added
      BY <1>6 DEF Lines
    <2> QED  BY <1>1, <1>6, <2>1, LinesTyped DEF Fresh
  <1>10. seen \subseteq Resources /\ size \in Nat
    BY <1>1 DEF TypeOK
  <1> DEFINE r == resource_id[t]
  <1>11. /\ seen' \subseteq Resources /\ size' \in Nat
         /\ \/ act' = [act EXCEPT !["monitor"] = Off]
            \/ act' = [act EXCEPT !["monitor"] = Doing("idle", NoTask)]
            \/ \E i \in Fronts(tasks'), phase \in {"status", "start"} : act' = [act EXCEPT !["monitor"] = Doing(phase, tasks'[i])]
    <2>1. CASE r \notin Keys(tasks')
      <3>1. Iterate(tasks', seen \ {r}, size)
        BY <1>3, <2>1 DEF MonitorFinish
      <3>2. PICK ts : ts = tasks'
        OBVIOUS
      <3>3. PICK done \in SUBSET Resources : done = seen \ {r}
        BY <1>10
      <3>4. Iterate(ts, done, size) /\ ts \in Seq(Tasks) /\ \A i \in DOMAIN ts : resource_id[ts[i]] \in Resources
        BY <1>9, <3>1, <3>2, <3>3
      <3>5. /\ seen' \subseteq Resources /\ size' \in Nat
            /\ \/ act' = [act EXCEPT !["monitor"] = Off]
               \/ ~stopped /\ act' = [act EXCEPT !["monitor"] = Doing("idle", NoTask)]
               \/ ~stopped /\ \E i \in Fronts(ts) : act' = [act EXCEPT !["monitor"] = Doing("status", ts[i])]
        BY <1>10, <3>4, IterateEffect
      <3> QED  BY <3>2, <3>5
    <2>2. CASE ~(r \notin Keys(tasks'))
      BY <1>3, <1>10, <2>2 DEF MonitorFinish
    <2> QED  BY <2>1, <2>2
  <1>12. /\ act' \in [Actors -> [phase : Phases, task : Tasks \cup {NoTask}]]
         /\ \E w \in [phase : Phases, task : Tasks \cup {NoTask}] :
              /\ act' = [act EXCEPT !["monitor"] = w]
              /\ \/ w = Off \/ w = Doing("idle", NoTask)
                 \/ w.phase \in {"status", "start"} /\ \E i \in Fronts(tasks') : w.task = tasks'[i]
    <2>1. PICK ts \in Seq(Tasks) : ts = tasks'
      BY <1>9
    <2>2. Turns(ts)
      BY <1>11, <2>1 DEF Turns
    <2>3. /\ act' \in [Actors -> [phase : Phases, task : Tasks \cup {NoTask}]]
          /\ \E w \in [phase : Phases, task : Tasks \cup {NoTask}] :
              /\ act' = [act EXCEPT !["monitor"] = w]
              /\ \/ w = Off \/ w = Doing("idle", NoTask)
                 \/ w.phase \in {"status", "start"} /\ \E i \in Fronts(ts) : w.task = ts[i]
      BY <1>1, <2>2, Turn
    <2> QED  BY <2>1, <2>3
  <1>13. TypeOK'
    BY <1>1, <1>4, <1>7, <1>8, <1>9, <1>11, <1>12 DEF TypeOK
  <1>14. \A x \in Tasks \ {t} : state'[x] = state[x] /\ status'[x] = status[x] /\ results'[x] = results[x]
    BY <1>4, <1>7, <1>8
  <1>15. ToSet(tasks') \cup {t} = ToSet(tasks) \cup {t} /\ t \notin ToSet(tasks')
    BY <1>6
  <1>16. PICK w \in [phase : Phases, task : Tasks \cup {NoTask}] :
              /\ act' = [act EXCEPT !["monitor"] = w]
              /\ \/ w = Off \/ w = Doing("idle", NoTask)
                 \/ w.phase \in {"status", "start"} /\ \E i \in Fronts(tasks') : w.task = tasks'[i]
    BY <1>12
  <1> QED  BY <1>2, <1>3, <1>4, <1>6, <1>7, <1>8, <1>13, <1>14, <1>15, <1>16, MonitorKeeps

-----------------------------------------------------------------------------
(* stop() and the thread it kills                                          *)

\* The task of the main thread goes to the queue of its resource, or is its last.
LEMMA StopKeeps ==
  ASSUME IInv, Stop
  PROVE  IInv'
  <1>1. Core /\ Progress /\ Results /\ StopIsFinal
    BY DEF IInv
  <1>2. TypeOK /\ Queued /\ Shape /\ Control /\ Places
    BY <1>1 DEF Core
  <1>3. PICK phase \in {"wait", "start", "exec", "executed", "result"}, t \in Tasks \cup {NoTask} :
          act["main"].phase = phase /\ act["main"].task = t
    BY <1>2 DEF Stop, TypeOK, Actors
  <1>4. /\ MayStop /\ act["killed"] = Off /\ stopped' = TRUE /\ Kill(phase, t)
        /\ UNCHANGED <<ids, queue, req, seen, size, resource_id, status, retry_number, state, slot, waiting, results>>
    BY <1>3 DEF Stop, taskVars, stateVars
  <1>5. /\ IF phase = "wait" THEN t = NoTask ELSE t \in Tasks /\ t \in Added /\ Alone(t) /\ Held(t)
        /\ act["main"] # Off
    BY <1>2, <1>3, HandTask DEF Actors, Busy, Places, Off, Held
  <1>6. ~stopped /\ act["stop"] = Off
    BY <1>2, <1>5 DEF Control
  <1>7. Added' = Added /\ \A x, y : Before(x, y)' <=> Before(x, y)
    BY <1>4 DEF Added, Before
  <1> DEFINE requeue == phase \in {"start", "exec"} \/ (phase = "executed" /\ status[t] = "PENDING")
             over == phase = "executed" /\ ~requeue
  <1>8. /\ tasks' = IF requeue THEN Enqueued(t) ELSE tasks
        /\ act'["main"] = Off /\ act'["stop"] = Doing("join", NoTask)
        /\ act'["monitor"] = IF act["monitor"].phase = "idle" THEN Off ELSE act["monitor"]
        /\ act'["killed"] = IF over THEN Doing("result", t) ELSE Off
        /\ act' \in [Actors -> [phase : Phases, task : Tasks \cup {NoTask}]]
    <2>1. Off \in [phase : Phases, task : Tasks \cup {NoTask}]
      BY DEF Off, Phases
    <2>2. /\ Doing("join", NoTask) \in [phase : Phases, task : Tasks \cup {NoTask}]
          /\ Doing("result", t) \in [phase : Phases, task : Tasks \cup {NoTask}]
      BY DEF Doing, Phases
    <2> QED  BY <1>2, <1>4, <2>1, <2>2 DEF Kill, TypeOK, Actors
  <1>9. requeue => phase # "wait"
    OBVIOUS
  <1>10. over => status[t] \in Over /\ state[t] >= START
    BY <1>1, <1>3 DEF Progress
  <1>11. phase = "result" => status[t] \in Over
    BY <1>1, <1>3 DEF Progress
  <1>12. /\ Lines(tasks', queue)
         /\ ToSet(tasks') = IF requeue THEN ToSet(tasks) \cup {t} ELSE ToSet(tasks)
         /\ \A i \in Fronts(tasks) : i \in Fronts(tasks') /\ tasks'[i] = tasks[i]
    <2>1. CASE requeue
      BY <1>2, <1>5, <1>8, <1>9, <2>1, LinesEnqueue
    <2>2. CASE ~requeue
      BY <1>2, <1>8, <2>2 DEF Queued
    <2> QED  BY <2>1, <2>2
  <1>13. over => phase \in {"executed"}
    OBVIOUS
  <1>14. \/ requeue \/ over \/ phase \in {"wait", "result"}
    OBVIOUS
  <1> HIDE DEF requeue, over
  <1>15. Queued'
    BY <1>4, <1>7, <1>12 DEF Queued, Lines
  <1>16. TypeOK'
    BY <1>2, <1>4, <1>8, <1>12, LinesTyped DEF TypeOK
  <1>17. act'["monitor"].task = act["monitor"].task
         /\ (act'["monitor"].phase \in Busy \cup {"status"} => act'["monitor"] = act["monitor"])
    BY <1>2, <1>8, HandTask DEF Actors, Off, Busy
  <1>18. Shape'
    <2>1. \A a \in {"main", "stop"} : act'[a].phase \notin Busy \cup {"status"} /\ act'[a].task = NoTask
      BY <1>8 DEF Off, Doing, Busy
    <2>2. IF act'["killed"].phase \in Busy \cup {"status"} THEN act'["killed"].task \in Added
                                                           ELSE act'["killed"].task = NoTask
      BY <1>5, <1>8, <1>13 DEF Off, Doing, Busy
    <2>3. IF act'["monitor"].phase \in Busy \cup {"status"} THEN act'["monitor"].task \in Added
                                                            ELSE act'["monitor"].task = NoTask
      BY <1>2, <1>8, <1>17 DEF Off, Shape, Actors, Busy
    <2>4. \A a \in Actors : IF act'[a].phase \in Busy \cup {"status"} THEN act'[a].task \in Added
                                                                      ELSE act'[a].task = NoTask
      BY <2>1, <2>2, <2>3 DEF Actors
    <2>5. /\ act'["main"].phase = "off" /\ act'["stop"].phase = "join" /\ act'["killed"].phase \in {"off", "result"}
          /\ act'["monitor"].phase \in {"off", "idle", "status"} \cup Busy
      BY <1>2, <1>8 DEF Off, Doing, Shape
    <2> QED  BY <1>7, <2>4, <2>5 DEF Shape
  <1>19. Control'
    BY <1>4, <1>8 DEF Control, Off, Doing
  <1>20. Places'
    <2>1. \A x : First(x) => First(x)'
      <3>1. Fronts(tasks)' = Fronts(tasks')
        BY <1>4 DEF Fronts
      <3> QED  BY <1>12, <3>1 DEF First
    <2>2. act'["monitor"].phase \in Busy \cup {"status"} => First(act["monitor"].task)'
      <3>1. PICK m : m = act["monitor"].task
        OBVIOUS
      <3>2. act'["monitor"].phase \in Busy \cup {"status"} => act'["monitor"].task = m /\ First(m)'
        BY <1>2, <1>17, <2>1, <3>1 DEF Places
      <3> QED  BY <3>2
    <2>3. act'["killed"].phase = "result" =>
            /\ act'["killed"].task \notin ToSet(queue) \cup ToSet(tasks')
            /\ act'["killed"].task # act'["main"].task
      <3> SUFFICES ASSUME over
                   PROVE  t \notin ToSet(queue) \cup ToSet(tasks') /\ t # NoTask
        BY <1>8 DEF Off, Doing
      <3>1. ~requeue
        BY DEF over
      <3> QED  BY <1>5, <1>12, <1>13, <3>1, TaskAssumption DEF Alone
    <2>4. act'["main"].phase = "off" /\ act'["stop"].phase = "join" /\ queue' = queue
      BY <1>4, <1>8 DEF Off, Doing
    <2> QED  BY <2>2, <2>3, <2>4 DEF Places, Busy
  <1>21. Core'
    BY <1>15, <1>16, <1>18, <1>19, <1>20 DEF Core
  <1>22. \A x \in Tasks : Held(x)' <=> x \in ToSet(queue) \cup ToSet(tasks') \/ act["monitor"].task = x
    BY <1>4, <1>8, <1>17, TaskAssumption DEF Held, Actors, Off, Doing
  <1>23. \A x \in Tasks \ {t} : Held(x)' <=> Held(x)
    <2>1. \A x \in Tasks \ {t} : Held(x) <=> x \in ToSet(queue) \cup ToSet(tasks) \/ act["monitor"].task = x
      BY <1>3, <1>6, TaskAssumption DEF Held, Actors, Off
    <2> QED  BY <1>12, <1>22, <2>1
  <1>24. t \in Tasks => act["monitor"].task # t
    BY <1>1, <1>2, <1>3, HandAlone, HandTask, TaskAssumption DEF Places, Actors
  <1>25. t \in Tasks => (Held(t)' <=> requeue)
    BY <1>5, <1>12, <1>22, <1>24, TaskAssumption DEF Alone
  <1>26. t \in Tasks =>
           /\ t \in Added /\ (Held(t) \/ act["killed"].task = t) /\ (Held(t)' => Held(t))
           /\ \/ Held(t)' /\ results'[t] = results[t]
              \/ ~Held(t)' /\ MayStop /\ status'[t] \in Over /\ results'[t] = results[t]
              \/ ~Held(t)' /\ act'["killed"].task # t /\ state'[t] = RESULT /\ results'[t] = results[t] + 1
    BY <1>4, <1>5, <1>10, <1>11, <1>14, <1>25, TaskAssumption
  <1>27. \A x \in Tasks : act'["killed"].task = x => act["killed"].task = x \/ x = t
    BY <1>8, TaskAssumption DEF Off, Doing
  <1>28. \A x \in Tasks : Begun(x)' => Begun(x) \/ InHand(x) \/ InHand(x)'
    <2>1. \A x \in Tasks, a \in Actors : act'[a] = Doing("start", x) => act[a] = Doing("start", x)
      BY <1>8 DEF Off, Doing, Actors
    <2> QED  BY <1>4, <2>1 DEF Begun
  <1>29. \A x \in Tasks \ {t} : /\ state'[x] = state[x] /\ results'[x] = results[x]
                                /\ status'[x] = status[x] \/ Held(x)
    BY <1>4
  <1>30. Results' /\ Fresh' /\ Ordered' /\ NoTaskLost' /\ Pending'
    BY <1>4, <1>21, <1>23, <1>26, <1>27, <1>28, <1>29, Carry
  <1>31. Progress'
    BY <1>4, <1>8, <1>10 DEF Progress, Off, Doing
  <1>32. StopIsFinal'
    BY <1>8 DEF StopIsFinal, Off, Doing
  <1> QED  BY <1>21, <1>30, <1>31, <1>32 DEF IInv

\* A dying thread gives its task its result.
LEMMA KilledFinishKeeps ==
  ASSUME IInv, KilledFinish
  PROVE  IInv'
  <1>1. Core /\ Progress /\ Results /\ StopIsFinal
    BY DEF IInv
  <1>2. TypeOK /\ Queued /\ Shape /\ Control /\ Places
    BY <1>1 DEF Core
  <1>3. act["killed"].phase = "result"
    BY DEF KilledFinish
  <1>4. PICK t \in Tasks : act["killed"].task = t /\ t \in Added
    BY <1>2, <1>3, HandTask DEF Actors, Busy
  <1>5. ~Held(t) /\ Begun(t)
    BY <1>1, <1>3, <1>4, HandAlone DEF Progress, Begun
  <1>6. /\ state' \in [Tasks -> States \cup {-1}] /\ waiting' \subseteq Waiters
        /\ slot' \in [Tasks -> [States -> Waiters \cup {NoWaiter}]]
        /\ state'[t] = RESULT /\ \A x \in Tasks : x # t => state'[x] = state[x]
    BY <1>2, <1>4, MoveEffect DEF KilledFinish, States
  <1>7. /\ results' \in [Tasks -> Nat] /\ results'[t] = results[t] + 1
        /\ \A x \in Tasks : x # t => results'[x] = results[x]
    BY <1>2, <1>4 DEF KilledFinish, TypeOK
  <1>8. UNCHANGED <<ids, queue, tasks, req, stopped, seen, size, resource_id, status, retry_number>>
    BY DEF KilledFinish, taskVars
  <1>9. /\ act'["killed"] = Off /\ \A a \in Actors \ {"killed"} : act'[a] = act[a]
        /\ act' \in [Actors -> [phase : Phases, task : Tasks \cup {NoTask}]]
    BY <1>2 DEF KilledFinish, TypeOK, Actors, Off, Phases
  <1>10. act'["main"] = act["main"] /\ act'["monitor"] = act["monitor"] /\ act'["stop"] = act["stop"]
    BY <1>9 DEF Actors
  <1>11. Added' = Added /\ \A x, y : Before(x, y)' <=> Before(x, y)
    BY <1>8 DEF Added, Before
  <1>12. Queued'
    BY <1>2, <1>8, <1>11 DEF Queued, Lines
  <1>13. TypeOK'
    BY <1>2, <1>6, <1>7, <1>8, <1>9 DEF TypeOK
  <1>14. Shape'
    <2>1. act'["killed"].phase = "off" /\ act'["killed"].task = NoTask
      BY <1>9 DEF Off
    <2> QED  BY <1>2, <1>9, <1>10, <1>11, <2>1 DEF Shape, Busy
  <1>15. Control'
    BY <1>2, <1>8, <1>9, <1>10 DEF Control
  <1>16. Places'
    <2>1. \A x : (First(x)' <=> First(x)) /\ (Alone(x)' <=> Alone(x))
      BY <1>8, <1>11 DEF First, Alone, Fronts, Keys
    <2> QED  BY <1>2, <1>8, <1>9, <1>10, <2>1 DEF Places, Off
  <1>17. Core'
    BY <1>12, <1>13, <1>14, <1>15, <1>16 DEF Core
  <1>18. \A x \in Tasks : Held(x)' <=> Held(x)
    BY <1>8, <1>9 DEF Held
  <1>19. \A x \in Tasks : Begun(x)' => Begun(x) \/ InHand(x) \/ InHand(x)'
    <2>1. \A x \in Tasks, a \in Actors : act'[a] = Doing("start", x) => act[a] = Doing("start", x)
      BY <1>9 DEF Off, Doing, Actors
    <2> QED  BY <1>5, <1>6, <2>1 DEF Begun
  <1>20. act'["killed"].task = NoTask /\ NoTask \notin Tasks
    BY <1>9, TaskAssumption DEF Off
  <1>21. \A x \in Tasks : act'["killed"].task = x => act["killed"].task = x \/ x = t
    BY <1>20
  <1>22. ~Held(t)' /\ act'["killed"].task # t /\ state'[t] = RESULT /\ results'[t] = results[t] + 1
    BY <1>5, <1>6, <1>7, <1>18, <1>20
  <1>23. Results' /\ Fresh' /\ Ordered' /\ NoTaskLost' /\ Pending'
    BY <1>4, <1>6, <1>7, <1>8, <1>17, <1>18, <1>19, <1>21, <1>22, Carry
  <1>24. Progress'
    <2>1. act["main"].phase \in Busy => act["main"].task \in Tasks \ {t}
      BY <1>2, <1>3, <1>4, HandTask DEF Actors, Places
    <2> QED  BY <1>1, <1>6, <1>8, <1>9, <1>10, <2>1 DEF Progress, Off, Busy
  <1>25. StopIsFinal'
    BY <1>1, <1>8, <1>10 DEF StopIsFinal
  <1> QED  BY <1>17, <1>23, <1>24, <1>25 DEF IInv

-----------------------------------------------------------------------------
(* stop(), when the round of the monitor is over                           *)

\* It is done with t, or has emptied the queue, and aborts the next task.
LEMMA AbortKeeps ==
  ASSUME IInv, NEW t, act["stop"].task = t, act["stop"] # Off, act["monitor"] = Off,
         UNCHANGED <<ids, stopped, resource_id, req, seen, size, retry_number>>,
         Lines(tasks', queue'), AbortNext(tasks'),
         ToSet(tasks') \cup ToSet(queue') \cup {t} = ToSet(tasks) \cup ToSet(queue) \cup {t},
         state' \in [Tasks -> States \cup {-1}], waiting' \subseteq Waiters,
         slot' \in [Tasks -> [States -> Waiters \cup {NoWaiter}]], results' \in [Tasks -> Nat],
         \A x \in Tasks \ {t} : state'[x] = state[x] /\ results'[x] = results[x],
         t \in Tasks => /\ t \in Added /\ Held(t) /\ t \notin ToSet(tasks') \cup ToSet(queue')
                        /\ state'[t] = RESULT /\ results'[t] = results[t] + 1
  PROVE  IInv'
  <1>1. Core /\ Progress /\ Results /\ StopIsFinal
    BY DEF IInv
  <1>2. TypeOK /\ Queued /\ Shape /\ Control /\ Places
    BY <1>1 DEF Core
  <1>3. stopped /\ act["main"] = Off
    BY <1>2 DEF Control
  <1>4. Added' = Added /\ \A x, y : Before(x, y)' <=> Before(x, y)
    BY DEF Added, Before
  <1>5. tasks' \in Seq(Tasks) /\ \A i \in DOMAIN tasks' : tasks'[i] \in Added /\ tasks'[i] \in Tasks
    BY DEF Lines
  <1>6. PICK w \in [phase : Phases, task : Tasks \cup {NoTask}] :
          /\ act' = [act EXCEPT !["stop"] = w]
          /\ \/ w = Off /\ tasks' = <<>> /\ status' = status
             \/ /\ w.phase = "result" /\ w.task \in Tasks /\ w.task \in Added /\ w.task \in ToSet(tasks')
                /\ First(w.task)' /\ status' = [status EXCEPT ![w.task] = "ABORT"]
    <2>1. CASE tasks' = <<>> /\ act' = [act EXCEPT !["stop"] = Off] /\ UNCHANGED status
      <3>1. Off \in [phase : Phases, task : Tasks \cup {NoTask}]
        BY DEF Off, Phases
      <3> QED  BY <2>1, <3>1
    <2>2. CASE \E i \in Fronts(tasks') :
                 /\ act' = [act EXCEPT !["stop"] = Doing("result", tasks'[i])]
                 /\ status' = [status EXCEPT ![tasks'[i]] = "ABORT"]
      <3>1. PICK i \in Fronts(tasks') :
                 /\ act' = [act EXCEPT !["stop"] = Doing("result", tasks'[i])]
                 /\ status' = [status EXCEPT ![tasks'[i]] = "ABORT"]
        BY <2>2
      <3>2. i \in DOMAIN tasks'
        BY <3>1 DEF Fronts
      <3>3. PICK u \in Tasks : u = tasks'[i] /\ u \in Added /\ u \in ToSet(tasks')
        BY <1>5, <3>2 DEF ToSet
      <3>4. First(u)'
        BY <3>1, <3>3 DEF First, Fronts
      <3>5. Doing("result", u) \in [phase : Phases, task : Tasks \cup {NoTask}]
            /\ Doing("result", u).phase = "result" /\ Doing("result", u).task = u
        BY DEF Doing, Phases
      <3> QED  BY <3>1, <3>3, <3>4, <3>5
    <2> QED  BY <2>1, <2>2 DEF AbortNext
  <1>7. /\ act'["stop"] = w /\ act'["main"] = Off /\ act'["monitor"] = Off /\ act'["killed"] = act["killed"]
        /\ act' \in [Actors -> [phase : Phases, task : Tasks \cup {NoTask}]]
    BY <1>2, <1>3, <1>6 DEF TypeOK, Actors
  <1>8. status' \in [Tasks -> {"None", "PENDING", "COMPLETED", "ERROR", "ABORT"}]
    BY <1>2, <1>6 DEF TypeOK
  <1>9. TypeOK'
    BY <1>2, <1>7, <1>8, LinesTyped DEF TypeOK
  <1>10. Queued'
    BY <1>4 DEF Queued, Lines
  <1>11. Shape'
    <2>1. IF act'["stop"].phase \in Busy \cup {"status"} THEN act'["stop"].task \in Added
                                                         ELSE act'["stop"].task = NoTask
      BY <1>6, <1>7 DEF Busy, Off
    <2>2. /\ act'["stop"].phase \in {"off", "result"}
          /\ \A a \in {"main", "monitor"} : act'[a].phase = "off" /\ act'[a].task = NoTask
      BY <1>6, <1>7 DEF Off
    <2> QED  BY <1>2, <1>4, <1>7, <2>1, <2>2 DEF Shape, Busy, Actors
  <1>12. Control'
    BY <1>2, <1>3, <1>7 DEF Control
  <1>13. act["killed"].phase = "result" =>
           act["killed"].task \in Tasks \ {t} /\ act["killed"].task \notin ToSet(tasks') \cup ToSet(queue')
    <2> SUFFICES ASSUME act["killed"].phase = "result"
                 PROVE  act["killed"].task \in Tasks \ {t} /\ act["killed"].task \notin ToSet(tasks') \cup ToSet(queue')
      OBVIOUS
    <2>1. act["killed"].task \in Tasks /\ ~Held(act["killed"].task)
      BY <1>1, <1>2, HandTask, HandAlone DEF Busy, Actors
    <2>2. act["killed"].task # t
      BY <2>1
    <2> QED  BY <2>1, <2>2 DEF Held
  <1>14. Places'
    <2>1. act'["stop"].phase = "result" => First(act["stop"].task)'
      BY <1>6, <1>7 DEF Off
    <2>2. act'["killed"].phase = "result" =>
            /\ act'["killed"].task \notin ToSet(queue') \cup ToSet(tasks')
            /\ act'["killed"].task # act'["main"].task
      BY <1>7, <1>13, TaskAssumption DEF Off
    <2> QED  BY <1>7, <2>1, <2>2 DEF Places, Off, Busy
  <1>15. Core'
    BY <1>9, <1>10, <1>11, <1>12, <1>14 DEF Core
  <1>16. \A x \in Tasks : Held(x)' <=> x \in ToSet(queue') \cup ToSet(tasks')
    <2>1. \A x \in Tasks : act'["stop"].task = x => x \in ToSet(tasks')
      BY <1>6, <1>7, TaskAssumption DEF Off
    <2> QED  BY <1>7, <2>1, TaskAssumption DEF Held, Actors, Off
  <1>17. \A x \in Tasks \ {t} : Held(x)' <=> Held(x)
    <2>1. \A x \in Tasks \ {t} : Held(x) <=> x \in ToSet(queue) \cup ToSet(tasks)
      BY <1>3, TaskAssumption DEF Held, Actors, Off
    <2> QED  BY <1>16, <2>1
  <1>18. \A x \in Tasks \ {t} : /\ state'[x] = state[x] /\ results'[x] = results[x]
                                /\ status'[x] = status[x] \/ Held(x)
    <2>1. \A x \in Tasks \ {t} : status'[x] = status[x] \/ x \in ToSet(tasks')
      BY <1>2, <1>6 DEF TypeOK
    <2> QED  BY <1>16, <1>17, <2>1
  <1>19. t \in Tasks => act["killed"].task # t
    <2> SUFFICES ASSUME t \in Tasks  PROVE act["killed"].task # t
      OBVIOUS
    <2>1. CASE act["killed"].phase = "result"
      BY <1>13, <2>1
    <2>2. CASE act["killed"].phase # "result"
      <3>1. act["killed"].task = NoTask
        BY <1>2, <2>2, HandTask DEF Shape, Busy, Actors
      <3> QED  BY <3>1, TaskAssumption
    <2> QED  BY <2>1, <2>2
  <1>20. t \in Tasks =>
           /\ t \in Added /\ (Held(t) \/ act["killed"].task = t) /\ (Held(t)' => Held(t))
           /\ \/ Held(t)' /\ results'[t] = results[t]
              \/ ~Held(t)' /\ MayStop /\ status'[t] \in Over /\ results'[t] = results[t]
              \/ ~Held(t)' /\ act'["killed"].task # t /\ state'[t] = RESULT /\ results'[t] = results[t] + 1
    BY <1>7, <1>16, <1>19
  <1>21. \A x \in Tasks : Begun(x)' => Begun(x) \/ InHand(x) \/ InHand(x)'
    <2> SUFFICES ASSUME NEW x \in Tasks, Begun(x)', ~InHand(x)  PROVE Begun(x)
      OBVIOUS
    <2>1. x # t
      <3>1. t \in Tasks => Hand("stop")
        BY <1>2, HandTask, TaskAssumption DEF Hand, Actors
      <3> QED  BY <3>1 DEF InHand, Actors
    <2>2. ASSUME NEW a \in Actors, act'[a] = Doing("start", x)  PROVE act[a] = Doing("start", x)
      BY <1>6, <1>7, <2>2 DEF Off, Doing, Actors
    <2> QED  BY <2>1, <2>2 DEF Begun
  <1>22. Results' /\ Fresh' /\ Ordered' /\ NoTaskLost' /\ Pending'
    BY <1>7, <1>15, <1>17, <1>18, <1>20, <1>21, Carry
  <1>23. Progress'
    <2>1. act["killed"].phase = "result" =>
            /\ state'[act["killed"].task] = state[act["killed"].task]
            /\ status'[act["killed"].task] = status[act["killed"].task]
      BY <1>2, <1>6, <1>13 DEF TypeOK
    <2> QED  BY <1>1, <1>7, <2>1 DEF Progress, Off
  <1>24. StopIsFinal'
    BY <1>6, <1>7 DEF StopIsFinal, Off
  <1> QED  BY <1>15, <1>22, <1>23, <1>24 DEF IInv

LEMMA AbortBegins ==
  ASSUME IInv, Abort
  PROVE  IInv'
  <1>1. TypeOK /\ Queued /\ Shape
    BY DEF IInv, Core
  <1>2. /\ act["stop"].task = NoTask /\ NoTask \notin Tasks /\ act["stop"] # Off /\ act["monitor"] = Off
        /\ queue' = <<>> /\ tasks' = tasks \o queue /\ AbortNext(tasks')
    BY <1>1, HandTask, TaskAssumption DEF Abort, Busy, Actors, Off
  <1>3. UNCHANGED <<ids, stopped, resource_id, req, seen, size, retry_number, state, slot, waiting, results>>
    BY DEF Abort, stateVars
  <1>4. /\ Lines(tasks, queue) /\ tasks \in Seq(Tasks) /\ queue \in Seq(Tasks) /\ Len(queue) \in Nat
    BY <1>1 DEF Queued, Lines
  <1>5. Lines(tasks', queue')
    <2>1. Lines(tasks \o SubSeq(queue, 1, Len(queue)), SubSeq(queue, Len(queue) + 1, Len(queue)))
      BY <1>4, LinesMove
    <2>2. SubSeq(queue, 1, Len(queue)) = queue /\ SubSeq(queue, Len(queue) + 1, Len(queue)) = <<>>
      BY <1>4
    <2> QED  BY <1>2, <2>1, <2>2
  <1>6. ToSet(tasks') \cup ToSet(queue') = ToSet(tasks) \cup ToSet(queue)
    <2> DEFINE w == tasks \o queue
    <2>1. /\ DOMAIN w = 1..(Len(tasks) + Len(queue)) /\ Len(tasks) \in Nat
          /\ DOMAIN tasks = 1..Len(tasks) /\ DOMAIN queue = 1..Len(queue)
          /\ \A i \in DOMAIN tasks : w[i] = tasks[i]
          /\ \A i \in DOMAIN queue : w[Len(tasks) + i] = queue[i]
          /\ \A i \in DOMAIN w : i \in DOMAIN tasks \/ (i - Len(tasks) \in DOMAIN queue /\ i > Len(tasks))
      BY <1>4, Places2
    <2> HIDE DEF w
    <2>2. \A i \in DOMAIN queue : Len(tasks) + i \in DOMAIN w
      BY <1>4, <2>1
    <2>3. \A i \in DOMAIN w : w[i] \in ToSet(tasks) \cup ToSet(queue)
      <3> SUFFICES ASSUME NEW i \in DOMAIN w, i \notin DOMAIN tasks  PROVE w[i] \in ToSet(queue)
        BY <2>1 DEF ToSet
      <3>1. i - Len(tasks) \in DOMAIN queue /\ Len(tasks) + (i - Len(tasks)) = i
        BY <1>4, <2>1
      <3> QED  BY <2>1, <3>1 DEF ToSet
    <2>4. ToSet(w) = ToSet(tasks) \cup ToSet(queue)
      <3>1. \A i \in DOMAIN tasks : i \in DOMAIN w
        BY <1>4, <2>1
      <3> QED  BY <2>1, <2>2, <2>3, <3>1 DEF ToSet
    <2>5. ToSet(queue') = {}
      BY <1>2 DEF ToSet
    <2> QED  BY <1>2, <2>4, <2>5 DEF w
  <1> QED  BY <1>1, <1>2, <1>3, <1>5, <1>6, AbortKeeps DEF TypeOK

LEMMA AbortFinishKeeps ==
  ASSUME IInv, AbortFinish
  PROVE  IInv'
  <1>1. TypeOK /\ Queued /\ Shape /\ Control /\ Places
    BY DEF IInv, Core
  <1>2. act["stop"].phase = "result" /\ act["stop"] # Off /\ act["monitor"] = Off
    BY <1>1 DEF AbortFinish, Off, Control
  <1>3. PICK t \in Tasks : act["stop"].task = t /\ t \in Added /\ First(t)
    BY <1>1, <1>2, HandTask DEF Busy, Actors, Places
  <1>4. /\ state' \in [Tasks -> States \cup {-1}] /\ waiting' \subseteq Waiters
        /\ slot' \in [Tasks -> [States -> Waiters \cup {NoWaiter}]]
        /\ state'[t] = RESULT /\ \A x \in Tasks : x # t => state'[x] = state[x]
    BY <1>1, <1>3, MoveEffect DEF AbortFinish, States
  <1>5. Dequeue(t) /\ AbortNext(tasks')
        /\ UNCHANGED <<ids, queue, req, stopped, seen, size, resource_id, retry_number>>
    BY <1>3 DEF AbortFinish
  <1>6. Lines(tasks', queue) /\ ToSet(tasks') = ToSet(tasks) \ {t}
    BY <1>1, <1>5, DequeueEffect
  <1>7. /\ results' \in [Tasks -> Nat] /\ results'[t] = results[t] + 1
        /\ \A x \in Tasks : x # t => results'[x] = results[x]
    BY <1>1, <1>3 DEF AbortFinish, TypeOK
  <1>8. t \notin ToSet(queue) /\ Held(t)
    BY <1>1, <1>3 DEF First, Fronts, Queued, Lines, ToSet, Held, Actors
  <1>9. Lines(tasks', queue')
    BY <1>5, <1>6
  <1>10. /\ ToSet(tasks') \cup ToSet(queue') \cup {t} = ToSet(tasks) \cup ToSet(queue) \cup {t}
         /\ t \notin ToSet(tasks') \cup ToSet(queue')
    BY <1>5, <1>6, <1>8
  <1> QED  BY <1>2, <1>3, <1>4, <1>5, <1>7, <1>8, <1>9, <1>10, AbortKeeps

-----------------------------------------------------------------------------
(* The callers                                                             *)

\* A step that touches no task and no thread.
LEMMA Frame ==
  ASSUME IInv, TypeOK', UNCHANGED <<queue, tasks, act, stopped, resource_id, status, state, results, ids>>
  PROVE  IInv'
  <1>1. /\ Added' = Added /\ \A x, y : Before(x, y)' <=> Before(x, y)
        /\ \A x, y : Precedes(x, y)' <=> Precedes(x, y)
    BY DEF Added, Before, Precedes
  <1>2. \A x : /\ Held(x)' <=> Held(x)
               /\ Begun(x)' <=> Begun(x)
               /\ First(x)' <=> First(x)
               /\ Alone(x)' <=> Alone(x)
    BY <1>1 DEF Held, Begun, First, Alone, Fronts, Keys
  <1>3. Queued' /\ Shape' /\ Control' /\ Places'
    <2>1. Queued'
      BY <1>1 DEF IInv, Core, Queued, Lines
    <2>2. Shape' /\ Control'
      BY <1>1 DEF IInv, Core, Shape, Control
    <2>3. Places'
      BY <1>2 DEF IInv, Core, Places
    <2> QED  BY <2>1, <2>2, <2>3
  <1>4. Progress' /\ StopIsFinal'
    BY DEF IInv, Progress, StopIsFinal
  <1>5. Results' /\ Fresh' /\ Ordered' /\ NoTaskLost' /\ Pending'
    BY <1>1, <1>2 DEF IInv, Results, Fresh, Ordered, NoTaskLost, Pending
  <1> QED  BY <1>3, <1>4, <1>5 DEF IInv, Core

LEMMA WaitKeeps ==
  ASSUME IInv, NEW w \in Waiters, NEW t \in Tasks, NEW s \in States, Wait(w, t, s)
  PROVE  IInv'
  <1>1. TypeOK'
    BY DEF IInv, Core, TypeOK, Wait, taskVars
  <1> QED  BY <1>1, Frame DEF Wait, taskVars

LEMMA StutterKeeps ==
  ASSUME IInv, UNCHANGED vars
  PROVE  IInv'
  <1>1. TypeOK'
    BY DEF IInv, Core, TypeOK, vars, taskVars, stateVars
  <1> QED  BY <1>1, Frame DEF vars, taskVars, stateVars

\* The threads are new, and so have no task.
LEMMA StartKeeps ==
  ASSUME IInv, Start
  PROVE  IInv'
  <1>1. Core /\ Progress /\ Results /\ StopIsFinal
    BY DEF IInv
  <1>2. TypeOK /\ Queued /\ Shape /\ Control /\ Places
    BY <1>1 DEF Core
  <1>3. act["main"] = Off /\ act["stop"] = Off /\ act["monitor"] = Off
    BY <1>1, <1>2 DEF Start, Control, StopIsFinal
  <1>4. /\ stopped' = FALSE
        /\ UNCHANGED <<ids, queue, tasks, req, seen, size, resource_id, status, retry_number, state, slot, waiting, results>>
    BY DEF Start, taskVars, stateVars
  <1>5. /\ act'["main"] = Doing("new", NoTask) /\ act'["monitor"] = Doing("idle", NoTask)
        /\ act'["stop"] = Off /\ act'["killed"] = act["killed"]
        /\ act' \in [Actors -> [phase : Phases, task : Tasks \cup {NoTask}]]
    <2>1. /\ Doing("new", NoTask) \in [phase : Phases, task : Tasks \cup {NoTask}]
          /\ Doing("idle", NoTask) \in [phase : Phases, task : Tasks \cup {NoTask}]
      BY DEF Doing, Phases
    <2> QED  BY <1>2, <1>3, <2>1 DEF Start, TypeOK, Actors
  <1>6. Added' = Added /\ \A x, y : Before(x, y)' <=> Before(x, y)
    BY <1>4 DEF Added, Before
  <1>7. TypeOK'
    BY <1>2, <1>4, <1>5 DEF TypeOK
  <1>8. Queued'
    BY <1>2, <1>4, <1>6 DEF Queued, Lines
  <1>9. /\ act'["main"].phase = "new" /\ act'["monitor"].phase = "idle" /\ act'["stop"].phase = "off"
        /\ \A a \in {"main", "monitor", "stop"} : act'[a].task = NoTask /\ act[a].task = NoTask
    BY <1>3, <1>5 DEF Off, Doing
  <1>10. Shape'
    BY <1>2, <1>5, <1>6, <1>9 DEF Shape, Busy, Actors
  <1>11. Control'
    BY <1>2, <1>4, <1>5, <1>9 DEF Control, Off
  <1>12. Places'
    BY <1>2, <1>3, <1>4, <1>5, <1>9 DEF Places, Busy, Off
  <1>13. Core'
    BY <1>7, <1>8, <1>10, <1>11, <1>12 DEF Core
  <1>14. \A x \in Tasks : Held(x)' <=> Held(x)
    BY <1>4, <1>9 DEF Held, Actors
  <1>15. \A x \in Tasks : Begun(x)' => Begun(x) \/ InHand(x) \/ InHand(x)'
    BY <1>4, <1>5 DEF Begun, Actors, Doing, Off
  <1>16. Results' /\ Fresh' /\ Ordered' /\ NoTaskLost' /\ Pending'
    <2>1. NoTask \notin Tasks
      BY TaskAssumption
    <2> QED  BY <1>4, <1>5, <1>13, <1>14, <1>15, <2>1, Carry
  <1>17. Progress'
    BY <1>1, <1>4, <1>5, <1>9 DEF Progress
  <1>18. StopIsFinal'
    BY <1>4 DEF StopIsFinal
  <1> QED  BY <1>13, <1>16, <1>17, <1>18 DEF IInv

\* The new task is the last of all.
LEMMA AddKeeps ==
  ASSUME IInv, NEW t \in Tasks, Add(t)
  PROVE  IInv'
  <1>1. Core /\ Progress /\ Results /\ Fresh /\ Ordered /\ NoTaskLost /\ Pending /\ StopIsFinal
    BY DEF IInv
  <1>2. TypeOK /\ Queued /\ Shape /\ Control /\ Places
    BY <1>1 DEF Core
  <1>3. PICK r \in Resources : resource_id' = [resource_id EXCEPT ![t] = r]
    BY DEF Add
  <1>4. /\ t \notin Added /\ queue' = Append(queue, t) /\ ids' = Append(ids, t) /\ req' = TRUE
        /\ UNCHANGED <<tasks, stopped, act, seen, size, status, retry_number, state, slot, waiting, results>>
    BY DEF Add, stateVars
  <1>5. /\ ids' \in Seq(Tasks) /\ DOMAIN ids = 1..Len(ids) /\ Len(ids) \in Nat
        /\ DOMAIN ids' = 1..(Len(ids) + 1) /\ ids'[Len(ids) + 1] = t
        /\ \A i \in DOMAIN ids : ids'[i] = ids[i]
    BY <1>2, <1>4, Behind DEF TypeOK
  <1>6. Added' = Added \cup {t}
    BY <1>5 DEF Added, ToSet
  <1>7. \A x, y : Before(x, y)' <=> Before(x, y) \/ (x \in Added /\ y = t)
    <2> SUFFICES ASSUME NEW x, NEW y  PROVE Before(x, y)' <=> Before(x, y) \/ (x \in Added /\ y = t)
      OBVIOUS
    <2>1. ASSUME Before(x, y)'  PROVE Before(x, y) \/ (x \in Added /\ y = t)
      <3>1. PICK j \in DOMAIN ids' : \E i \in 1..(j - 1) : ids'[i] = x /\ ids'[j] = y
        BY <2>1 DEF Before
      <3>2. PICK i \in 1..(j - 1) : ids'[i] = x /\ ids'[j] = y
        BY <3>1
      <3>3. i \in DOMAIN ids /\ ids[i] = x
        BY <1>5, <3>1, <3>2
      <3>4. CASE j \in DOMAIN ids
        BY <1>5, <3>2, <3>3, <3>4 DEF Before
      <3>5. CASE j \notin DOMAIN ids
        <4>1. j = Len(ids) + 1
          BY <1>5, <3>5
        <4> QED  BY <1>5, <3>2, <3>3, <4>1 DEF Added, ToSet
      <3> QED  BY <3>4, <3>5
    <2>2. ASSUME Before(x, y)  PROVE Before(x, y)'
      <3>1. PICK j \in DOMAIN ids : \E i \in 1..(j - 1) : ids[i] = x /\ ids[j] = y
        BY <2>2 DEF Before
      <3>2. PICK i \in 1..(j - 1) : ids[i] = x /\ ids[j] = y
        BY <3>1
      <3>3. j \in DOMAIN ids' /\ i \in DOMAIN ids /\ ids'[i] = x /\ ids'[j] = y
        BY <1>5, <3>1, <3>2
      <3> QED  BY <3>2, <3>3 DEF Before
    <2>3. ASSUME x \in Added, y = t  PROVE Before(x, y)'
      <3>1. PICK i \in DOMAIN ids : ids[i] = x
        BY <2>3 DEF Added, ToSet
      <3>2. Len(ids) + 1 \in DOMAIN ids' /\ i \in 1..(Len(ids) + 1 - 1)
        BY <1>5, <3>1
      <3> QED  BY <1>5, <2>3, <3>1, <3>2 DEF Before
    <2> QED  BY <2>1, <2>2, <2>3
  <1>8. \A x \in Added : x # t /\ x \in Tasks /\ resource_id'[x] = resource_id[x]
    BY <1>2, <1>3, <1>4, HandTask DEF TypeOK
  <1>9. resource_id' \in [Tasks -> Resources \cup {NoResource}] /\ resource_id'[t] \in Resources
    BY <1>2, <1>3 DEF TypeOK
  <1>10. Lines(tasks, queue)
    BY <1>2 DEF Queued
  <1>11. /\ queue' \in Seq(Tasks) /\ Len(queue) \in Nat /\ DOMAIN queue = 1..Len(queue)
         /\ DOMAIN queue' = 1..(Len(queue) + 1) /\ queue'[Len(queue) + 1] = t
         /\ \A i \in DOMAIN queue : queue'[i] = queue[i]
    BY <1>2, <1>4, Behind DEF TypeOK
  <1>12. ToSet(queue') = ToSet(queue) \cup {t}
    BY <1>11 DEF ToSet
  <1>13. /\ \A i \in DOMAIN tasks : tasks[i] \in Added
         /\ \A i \in DOMAIN queue : queue[i] \in Added
    BY <1>10 DEF Lines
  <1>14. Queued'
    <2>1. \A i \in DOMAIN queue' : \/ i \in DOMAIN queue /\ queue'[i] = queue[i] /\ queue[i] \in Added
                                   \/ i = Len(queue) + 1 /\ queue'[i] = t
      BY <1>11, <1>13
    <2>2. \A i, j \in DOMAIN queue' : i # j => queue'[i] # queue'[j]
      BY <1>8, <1>10, <2>1 DEF Lines
    <2>3. \A i, j \in DOMAIN queue' : i < j => Before(queue'[i], queue'[j]) \/ (queue'[i] \in Added /\ queue'[j] = t)
      BY <1>10, <1>11, <1>13 DEF Lines
    <2>4. \A i \in DOMAIN tasks, j \in DOMAIN queue' :
            /\ tasks[i] # queue'[j]
            /\ resource_id'[tasks[i]] = resource_id'[queue'[j]] =>
                 Before(tasks[i], queue'[j]) \/ (tasks[i] \in Added /\ queue'[j] = t)
      BY <1>8, <1>10, <1>13, <2>1 DEF Lines
    <2>5. \A i, j \in DOMAIN tasks : i < j /\ resource_id'[tasks[i]] = resource_id'[tasks[j]] => Before(tasks[i], tasks[j])
      BY <1>8, <1>10, <1>13 DEF Lines
    <2>6. /\ \A i \in DOMAIN queue' : queue'[i] \in Added \cup {t}
          /\ \A i, j \in DOMAIN tasks : i # j => tasks[i] # tasks[j]
          /\ tasks' = tasks /\ tasks \in Seq(Tasks)
      BY <1>4, <1>10, <2>1 DEF Lines
    <2> QED  BY <1>6, <1>7, <1>11, <1>13, <2>2, <2>3, <2>4, <2>5, <2>6 DEF Queued, Lines
  <1>15. TypeOK'
    <2>1. IsInjective(ids')
      <3>1. \A i \in DOMAIN ids : ids[i] # t
        BY <1>4 DEF Added, ToSet
      <3>2. \A i, j \in DOMAIN ids : ids[i] = ids[j] => i = j
        BY <1>2 DEF TypeOK, IsInjective
      <3>3. \A i \in DOMAIN ids' : (i \in DOMAIN ids /\ ids'[i] = ids[i]) \/ (i = Len(ids) + 1 /\ ids'[i] = t)
        BY <1>5
      <3> QED  BY <3>1, <3>2, <3>3 DEF IsInjective
    <2>2. IsInjective(queue')
      BY <1>14, LinesTyped, <1>4, <1>8, <1>10, <1>11, <1>13 DEF Lines, IsInjective
    <2> QED  BY <1>2, <1>4, <1>5, <1>9, <1>11, <2>1, <2>2 DEF TypeOK
  <1>16. Shape' /\ Control'
    BY <1>2, <1>4, <1>6 DEF Shape, Control
  <1>17. /\ \A x : First(x) => First(x)'
         /\ \A x \in Added : Alone(x) => Alone(x)'
    <2>1. Keys(tasks)' = Keys(tasks) /\ Fronts(tasks)' = Fronts(tasks)
      <3>1. \A i \in DOMAIN tasks : resource_id'[tasks[i]] = resource_id[tasks[i]]
        BY <1>8, <1>13
      <3>2. Keys(tasks)' = Keys(tasks)
        BY <1>4, <3>1 DEF Keys
      <3>3. \A i \in DOMAIN tasks : \A j \in 1..(i - 1) : j \in DOMAIN tasks
        BY <1>10 DEF Lines
      <3>4. Fronts(tasks)' = Fronts(tasks)
        BY <1>4, <3>1, <3>3 DEF Fronts
      <3> QED  BY <3>2, <3>4
    <2>2. \A x : First(x) => First(x)'
      BY <1>4, <2>1 DEF First
    <2>3. ASSUME NEW x \in Added, Alone(x)  PROVE Alone(x)'
      <3>1. x \notin ToSet(queue') \cup ToSet(tasks')
        BY <1>4, <1>8, <1>12, <2>3 DEF Alone
      <3>2. resource_id'[x] \notin Keys(tasks)'
        BY <1>8, <2>1, <2>3 DEF Alone
      <3>3. \A u \in ToSet(queue) : u \in Added
        BY <1>13 DEF ToSet
      <3>4. \A u \in ToSet(queue') : resource_id'[u] = resource_id'[x] => Before(x, u)'
        BY <1>7, <1>8, <1>12, <2>3, <3>3 DEF Alone
      <3> QED  BY <3>1, <3>2, <3>4 DEF Alone
    <2> QED  BY <2>2, <2>3
  <1>18. Places'
    <2>1. \A a \in Actors : act[a].phase \in Busy \cup {"status"} => act[a].task \in Added
      BY <1>2 DEF Shape
    <2>2. act["killed"].phase = "result" => act["killed"].task \in Added
      BY <2>1 DEF Actors, Busy
    <2>3. act["main"].phase \in Busy => act["main"].task \in Added
      BY <2>1 DEF Actors
    <2> QED  BY <1>2, <1>4, <1>8, <1>12, <1>17, <2>2, <2>3 DEF Places
  <1>19. Core'
    BY <1>14, <1>15, <1>16, <1>18 DEF Core
  <1>20. \A x \in Tasks : Held(x)' <=> Held(x) \/ x = t
    BY <1>4, <1>12 DEF Held
  <1>21. \A x \in Tasks : Begun(x)' <=> Begun(x)
    BY <1>4 DEF Begun
  <1>22. ~Begun(t) /\ \A a \in Actors : act[a].task # t
    <2>1. \A a \in Actors : act[a].task # t
      BY <1>2, <1>8, HandTask, TaskAssumption
    <2>2. state[t] = -1
      BY <1>1, <1>4 DEF Fresh
    <2> QED  BY <2>1, <2>2 DEF Begun, Doing, START
  <1>23. Ordered'
    <2> SUFFICES ASSUME NEW x \in Tasks, NEW y \in Tasks, Precedes(x, y)', Begun(y)'  PROVE ~Held(x)'
      BY DEF Ordered
    <2>1. Begun(y) /\ y # t
      BY <1>21, <1>22
    <2>2. Before(x, y)
      BY <1>7, <2>1 DEF Precedes
    <2>3. x \in Added /\ y \in Added
      BY <1>5, <2>2 DEF Before, Added, ToSet
    <2>4. Precedes(x, y)
      BY <1>8, <2>2, <2>3 DEF Precedes
    <2> QED  BY <1>1, <1>8, <1>20, <2>1, <2>3, <2>4 DEF Ordered
  <1>24. Results' /\ Fresh'
    BY <1>1, <1>4, <1>6, <1>8, <1>9, <1>20 DEF Results, Fresh
  <1>25. NoTaskLost' /\ Pending'
    BY <1>1, <1>4, <1>6, <1>8, <1>20 DEF NoTaskLost, Pending
  <1>26. Progress' /\ StopIsFinal'
    BY <1>1, <1>4 DEF Progress, StopIsFinal
  <1> QED  BY <1>19, <1>23, <1>24, <1>25, <1>26 DEF IInv

-----------------------------------------------------------------------------
(* The theorems                                                            *)

LEMMA InitIInv == ASSUME Init PROVE IInv
  <1>1. /\ queue = <<>> /\ tasks = <<>> /\ ids = <<>> /\ stopped = FALSE
        /\ act = [a \in Actors |-> Off] /\ Added = {}
    BY DEF Init, Added, ToSet
  <1>2. \A a \in Actors : act[a] = Off /\ act[a].phase = "off" /\ act[a].task = NoTask
    BY <1>1 DEF Off
  <1>3. TypeOK
    <2>1. act \in [Actors -> [phase : Phases, task : Tasks \cup {NoTask}]]
      BY <1>1 DEF Off, Phases
    <2>2. /\ <<>> \in Seq(Tasks) /\ IsInjective(<<>>)
      BY DEF IsInjective
    <2>3. /\ retry_number \in [Tasks -> 1..Retries] /\ results \in [Tasks -> Nat]
          /\ state \in [Tasks -> States \cup {-1}]
      BY TaskAssumption DEF Init
    <2>4. /\ status \in [Tasks -> {"None", "PENDING", "COMPLETED", "ERROR", "ABORT"}]
          /\ resource_id \in [Tasks -> Resources \cup {NoResource}]
          /\ slot \in [Tasks -> [States -> Waiters \cup {NoWaiter}]]
      BY DEF Init
    <2> QED  BY <1>1, <2>1, <2>2, <2>3, <2>4 DEF Init, TypeOK
  <1>4. Queued
    BY <1>1 DEF Queued, Lines
  <1>5. Shape /\ Control
    BY <1>1, <1>2 DEF Shape, Control, Busy, Actors
  <1>6. Places
    BY <1>2 DEF Places, Busy, Actors
  <1>7. \A x \in Tasks : ~Held(x) /\ ~Begun(x) /\ results[x] = 0 /\ state[x] = -1
    BY <1>1, <1>2, TaskAssumption DEF Init, Held, Begun, ToSet, Doing, START
  <1>8. Progress /\ Results /\ Fresh /\ Ordered
    BY <1>1, <1>2, <1>7 DEF Progress, Results, Fresh, Ordered, Actors
  <1>9. NoTaskLost /\ Pending /\ StopIsFinal
    BY <1>1 DEF NoTaskLost, Pending, StopIsFinal
  <1> QED  BY <1>3, <1>4, <1>5, <1>6, <1>8, <1>9 DEF IInv, Core

LEMMA NextKeeps == IInv /\ [Next]_vars => IInv'
  <1> SUFFICES ASSUME IInv, [Next]_vars  PROVE IInv'
    OBVIOUS
  <1>1. ASSUME NEW a \in {"main", "monitor"}, Callbacks(a)  PROVE IInv'
    BY <1>1, StartTaskKeeps, ExecReturnKeeps, ToResultKeeps DEF Callbacks
  <1>2. CASE Callers
    BY <1>2, AddKeeps, WaitKeeps DEF Callers
  <1>3. CASE Start
    BY <1>3, StartKeeps
  <1>4. CASE Stop
    BY <1>4, StopKeeps
  <1>5. CASE Main
    BY <1>1, <1>5, MainWakeKeeps, MainPendingKeeps, MainFinishKeeps DEF Main
  <1>6. CASE Monitor
    BY <1>1, <1>6, MonitorRoundKeeps, StatusReturnKeeps, MonitorPendingKeeps, MonitorFinishKeeps DEF Monitor
  <1>7. CASE Stopping
    BY <1>7, AbortBegins, AbortFinishKeeps DEF Stopping
  <1>8. CASE KilledFinish
    BY <1>8, KilledFinishKeeps
  <1>9. CASE UNCHANGED vars
    BY <1>9, StutterKeeps
  <1> QED  BY <1>2, <1>3, <1>4, <1>5, <1>6, <1>7, <1>8, <1>9 DEF Next

\* The inductive invariant: where each task is, who may have it, and what has become of it.
THEOREM Invariant == Spec => []IInv
  <1>1. Init => IInv
    BY InitIInv
  <1> QED  BY <1>1, NextKeeps, PTL DEF Spec

\* Every variable keeps to its type, and no task is queued twice.
THEOREM TypeCorrect == Spec => []TypeOK
  <1>1. IInv => TypeOK
    BY DEF IInv, Core
  <1> QED  BY <1>1, Invariant, PTL

\* A task is not started before every task of its resource that was added earlier is done with.
THEOREM TasksInOrder == Spec => []InOrder
  <1>1. IInv => InOrder
    <2> SUFFICES ASSUME IInv, NEW j \in DOMAIN ids, NEW i \in 1..(j - 1),
                        resource_id[ids[i]] = resource_id[ids[j]], Begun(ids[j])
                 PROVE  ~Held(ids[i])
      BY DEF InOrder, Begun
    <2>1. DOMAIN ids = 1..Len(ids) /\ ids \in Seq(Tasks) /\ Len(ids) \in Nat
      BY DEF IInv, Core, TypeOK
    <2>2. ids[i] \in Tasks /\ ids[j] \in Tasks
      BY <2>1
    <2>3. Precedes(ids[i], ids[j])
      BY DEF Precedes, Before
    <2> QED  BY <2>2, <2>3 DEF IInv, Ordered
  <1> QED  BY <1>1, Invariant, PTL

\* The result callback of a task is called once at most, and never for one that is still queued.
THEOREM ResultsOnce == Spec => []ResultOnce
  <1>1. IInv => ResultOnce
    BY DEF IInv, Results, ResultOnce, Held
  <1> QED  BY <1>1, Invariant, PTL

\* A task is in a queue or with a thread until it is over.
THEOREM TasksKept == Spec => []NoTaskLost
  <1>1. IInv => NoTaskLost
    BY DEF IInv
  <1> QED  BY <1>1, Invariant, PTL

\* When stop() has returned, no thread of the manager is at work and no task is left to it.
THEOREM StopFinal == Spec => []StopIsFinal
  <1>1. IInv => StopIsFinal
    BY DEF IInv
  <1> QED  BY <1>1, Invariant, PTL

\* As long as nobody stops the manager, has_pending_task is true until every task has its result or
\* is in its result callback.
THEOREM PendingTold == ASSUME ~MayStop PROVE Spec => []PendingReported
  <1>1. IInv => PendingReported
    <2> SUFFICES ASSUME IInv, ~HasPending, NEW t \in Added
                 PROVE  state[t] = RESULT \/ act["main"] = Doing("result", t)
      BY DEF PendingReported
    <2>1. TypeOK /\ Shape /\ Places /\ Pending
      BY DEF IInv, Core
    <2>2. t \in Tasks /\ (state[t] = RESULT \/ Held(t))
      BY <2>1, HandTask DEF Pending
    <2>3. /\ ToSet(queue) = {} /\ ToSet(tasks) = {} /\ DOMAIN tasks = {}
          /\ act["main"].phase \notin {"start", "exec", "executed"}
      BY DEF HasPending, ToSet
    <2>4. \A x : ~First(x)
      BY <2>3 DEF First, Fronts
    <2>5. act["monitor"].task # t /\ act["stop"].task # t
      BY <2>1, <2>2, <2>4, HandTask, TaskAssumption DEF Places, Shape, Actors, Busy
    <2>6. ASSUME act["main"].task = t  PROVE act["main"] = Doing("result", t)
      <3>1. act["main"].phase = "result"
        BY <2>1, <2>2, <2>3, <2>6, HandTask, TaskAssumption DEF Shape, Actors, Busy
      <3>2. act["main"] \in [phase : Phases, task : Tasks \cup {NoTask}]
        BY <2>1 DEF TypeOK, Actors
      <3> QED  BY <2>6, <3>1, <3>2 DEF Doing
    <2> QED  BY <2>2, <2>3, <2>5, <2>6 DEF Held, Actors
  <1> QED  BY <1>1, Invariant, PTL
=============================================================================
