---------------------------- MODULE TaskManager ----------------------------
(***************************************************************************)
(* The task manager of the NSX-V vshield driver: it runs the deletions of  *)
(* port groups and virtual wires and retries them until they succeed or    *)
(* run out of attempts.                                                    *)
(*                                                                         *)
(* Its main green thread executes a task the moment it is taken off the    *)
(* queue, unless its resource already has tasks; a looping call polls the  *)
(* first task of each resource and, when one is over, executes those that  *)
(* wait behind it; stop() kills the main thread and aborts the rest.       *)
(* Green threads switch only inside callbacks and waits: a step is the     *)
(* code between two of those.                                              *)
(***************************************************************************)
EXTENDS Integers, FiniteSets, Sequences, SequencesExt

CONSTANTS
  Tasks, Resources, Waiters,
  NoTask, NoResource, NoWaiter,
  Retries,      \* max(nsxv.retries, 1)
  MayStop,      \* stop() and start() are called again
  SharedWait    \* two threads may wait for the same state of the same task

ASSUME TaskAssumption ==
  /\ NoTask \notin Tasks /\ NoResource \notin Resources /\ NoWaiter \notin Waiters
  /\ Retries \in Nat \ {0}
  /\ {MayStop, SharedWait} \subseteq BOOLEAN

VARIABLES
  queue,     \* _tasks_queue: tasks the main thread has not received
  tasks,     \* _tasks: all tasks in the order of _enqueue; the queue of a resource is
             \* what of them is its own, and the order of the dict's keys is left open
  req,       \* _req has been sent and not been reset
  stopped,   \* _stopped
  act,       \* what each thread is doing, and to which task
  seen, size,             \* the iterator of _check_pending_tasks
  resource_id, status, state, retry_number,   \* of each task
  results,   \* result callbacks that have run for a task
  ids,       \* the tasks in the order of their ids, which add() gives them
  slot,      \* Task._states: the event of each state of a task, as its waiter
  waiting    \* the threads blocked in Task.wait

taskVars == <<resource_id, status, retry_number>>
stateVars == <<state, slot, waiting>>
vars == <<queue, tasks, req, stopped, act, seen, size, taskVars, stateVars, results, ids>>

START == 0
EXECUTED == 1
RESULT == 3
States == {START, EXECUTED, RESULT}
Actors == {"main", "monitor", "stop", "killed"}
Off == [phase |-> "off", task |-> NoTask]
Doing(phase, t) == [phase |-> phase, task |-> t]

Added == ToSet(ids)
\* The keys of the dict, and where the first task of each is.
Keys(ts) == {resource_id[ts[i]] : i \in DOMAIN ts}
Fronts(ts) == {i \in DOMAIN ts : \A j \in 1..(i - 1) : resource_id[ts[j]] # resource_id[ts[i]]}

\* Mutant: the waiter of the state itself is not told.
MoveStateBelow(t, s) ==
  LET woken == {slot[t][x] : x \in {y \in States : y < s}} IN
  /\ state' = [state EXCEPT ![t] = s]
  /\ slot' = [slot EXCEPT ![t] = [x \in States |-> IF x <= s THEN NoWaiter ELSE @[x]]]
  /\ waiting' = waiting \ woken
\* Task._move_state: the waiter of the state and those of earlier states resume.
MoveState(t, s) ==
  LET woken == {slot[t][x] : x \in {y \in States : y <= s}} IN
  /\ state' = [state EXCEPT ![t] = s]
  /\ slot' = [slot EXCEPT ![t] = [x \in States |-> IF x <= s THEN NoWaiter ELSE @[x]]]
  /\ waiting' = waiting \ woken

\* Mutant: one attempt too many.
AttemptOneMore(t, answer) ==
  \/ answer = "COMPLETED" /\ UNCHANGED retry_number
  \/ retry_number[t] > Retries /\ answer = "ERROR" /\ UNCHANGED retry_number
  \/ /\ retry_number[t] <= Retries
     /\ answer = "PENDING"
     /\ retry_number' = [retry_number EXCEPT ![t] = @ + 1]
\* _retry_task, as execute and as status callback: one more attempt.
Attempt(t, answer) ==
  \/ answer = "COMPLETED" /\ UNCHANGED retry_number
  \/ /\ retry_number[t] + 1 > Retries
     /\ answer = "ERROR" /\ UNCHANGED retry_number
  \/ /\ retry_number[t] + 1 <= Retries
     /\ answer = "PENDING"
     /\ retry_number' = [retry_number EXCEPT ![t] = @ + 1]

\* _enqueue, and the removal of a task that is over.
Enqueued(t) == Append(tasks, t)
Dequeue(t) ==
  \E i \in DOMAIN tasks :
    /\ tasks[i] = t /\ \A j \in 1..(i - 1) : tasks[j] # t
    /\ tasks' = RemoveAt(tasks, i)

HasPendingQueued == queue # <<>> \/ tasks # <<>>   \* mutant: the task at hand is overlooked
HasPending == \/ queue # <<>> \/ tasks # <<>>
              \/ act["main"].phase \in {"start", "exec", "executed"}

\* Mutant: a task is executed although its resource has others.
MainLoopEager(ts, rq) ==
  /\ tasks' = ts
  /\ IF queue = <<>>
     THEN queue' = <<>> /\ req' = FALSE /\ act' = [act EXCEPT !["main"] = Doing("wait", NoTask)]
     ELSE queue' = Tail(queue) /\ req' = rq /\ act' = [act EXCEPT !["main"] = Doing("start", Head(queue))]
\* The loop of run(), up to the next task to execute or the wait for one: the tasks
\* of resources that have tasks join them.
MainLoop(ts, rq) ==
  LET Follows(i) == resource_id[queue[i]] \in Keys(ts) IN
  \/ /\ \A i \in DOMAIN queue : Follows(i)
     /\ tasks' = ts \o queue
     /\ queue' = <<>> /\ req' = FALSE
     /\ act' = [act EXCEPT !["main"] = Doing("wait", NoTask)]
  \/ \E i \in DOMAIN queue :
       /\ ~Follows(i) /\ \A j \in 1..(i - 1) : Follows(j)
       /\ tasks' = ts \o SubSeq(queue, 1, i - 1)
       /\ queue' = SubSeq(queue, i + 1, Len(queue)) /\ req' = rq
       /\ act' = [act EXCEPT !["main"] = Doing("start", queue[i])]

\* The next turn of the loop of _check_pending_tasks.  The dict has changed its size:
\* RuntimeError, which ends the round.
Iterate(ts, done, n) ==
  IF Cardinality(Keys(ts)) # n \/ Keys(ts) \subseteq done \/ stopped
  THEN /\ act' = [act EXCEPT !["monitor"] = IF stopped THEN Off ELSE Doing("idle", NoTask)]
       /\ seen' = {} /\ size' = 0
  ELSE \E i \in Fronts(ts) :
         /\ resource_id[ts[i]] \notin done
         /\ act' = [act EXCEPT !["monitor"] = Doing("status", ts[i])]
         /\ seen' = done \cup {resource_id[ts[i]]} /\ size' = n

-----------------------------------------------------------------------------
(* The callers                                                             *)

\* Mutant: the main thread is not told.
AddSilently(t) ==
  /\ t \notin Added
  /\ \E r \in Resources : resource_id' = [resource_id EXCEPT ![t] = r]
  /\ queue' = Append(queue, t) /\ ids' = Append(ids, t)
  /\ UNCHANGED <<tasks, req, stopped, act, seen, size, status, retry_number, stateVars, results>>
Add(t) ==
  /\ t \notin Added
  /\ \E r \in Resources : resource_id' = [resource_id EXCEPT ![t] = r]
  /\ queue' = Append(queue, t) /\ ids' = Append(ids, t)
  /\ req' = TRUE
  /\ UNCHANGED <<tasks, stopped, act, seen, size, status, retry_number, stateVars, results>>

\* Task.wait, for a state that is not reached yet; the tests never let two threads
\* wait for the same state of a task.
Wait(w, t, s) ==
  /\ w \notin waiting /\ t \in Added
  /\ state[t] < s
  /\ SharedWait \/ slot[t][s] = NoWaiter
  /\ slot' = [slot EXCEPT ![t][s] = w]
  /\ waiting' = waiting \cup {w}
  /\ UNCHANGED <<ids, queue, tasks, req, stopped, act, seen, size, taskVars, state, results>>

Start ==
  /\ act["main"] = Off /\ act["stop"] = Off
  /\ stopped' = FALSE
  /\ act' = [act EXCEPT !["main"] = Doing("new", NoTask), !["monitor"] = Doing("idle", NoTask)]
  /\ UNCHANGED <<ids, queue, tasks, req, seen, size, taskVars, stateVars, results>>

-----------------------------------------------------------------------------
(* A task in the hands of a thread                                         *)

\* The start monitors have run; the execute callback is called.
StartTask(a) ==
  /\ act[a].phase = "start"
  /\ MoveState(act[a].task, START)
  /\ act' = [act EXCEPT ![a].phase = "exec"]
  /\ UNCHANGED <<ids, queue, tasks, req, stopped, seen, size, taskVars, results>>
\* It returns; the executed monitors are called.
ExecReturn(a) ==
  /\ act[a].phase = "exec"
  /\ \E answer \in {"PENDING", "COMPLETED", "ERROR"} :
       /\ Attempt(act[a].task, answer)
       /\ status' = [status EXCEPT ![act[a].task] = answer]
  /\ act' = [act EXCEPT ![a].phase = "executed"]
  /\ UNCHANGED <<ids, queue, tasks, req, stopped, seen, size, resource_id, stateVars, results>>
\* A task that is over has its result callback called next.
ToResult(a) ==
  /\ act[a].phase = "executed" /\ status[act[a].task] # "PENDING"
  /\ MoveState(act[a].task, EXECUTED)
  /\ act' = [act EXCEPT ![a].phase = "result"]
  /\ UNCHANGED <<ids, queue, tasks, req, stopped, seen, size, taskVars, results>>

-----------------------------------------------------------------------------
(* The main thread                                                         *)

\* It starts, or wakes up from _get_task.
MainWake ==
  /\ \/ act["main"].phase = "new" /\ MainLoop(tasks, req)
     \/ act["main"].phase = "wait" /\ req /\ MainLoop(tasks, FALSE)
  /\ UNCHANGED <<ids, stopped, seen, size, taskVars, stateVars, results>>
\* A pending task is left to the monitor.
MainPending ==
  LET t == act["main"].task IN
  /\ act["main"].phase = "executed" /\ status[t] = "PENDING"
  /\ MoveState(t, EXECUTED)
  /\ MainLoop(Enqueued(t), req)
  /\ UNCHANGED <<ids, stopped, seen, size, taskVars, results>>
MainFinish ==
  LET t == act["main"].task IN
  /\ act["main"].phase = "result"
  /\ results' = [results EXCEPT ![t] = @ + 1]
  /\ MoveState(t, RESULT)
  /\ MainLoop(tasks, req)
  /\ UNCHANGED <<ids, stopped, seen, size, taskVars>>
\* The main thread was killed while it was about to give a task its result.
KilledFinish ==
  LET t == act["killed"].task IN
  /\ act["killed"].phase = "result"
  /\ results' = [results EXCEPT ![t] = @ + 1]
  /\ MoveState(t, RESULT)
  /\ act' = [act EXCEPT !["killed"] = Off]
  /\ UNCHANGED <<ids, queue, tasks, req, stopped, seen, size, taskVars>>

-----------------------------------------------------------------------------
(* The looping call _check_pending_tasks                                   *)

MonitorRound ==
  /\ act["monitor"].phase = "idle" /\ tasks # <<>>
  /\ Iterate(tasks, {}, Cardinality(Keys(tasks)))
  /\ UNCHANGED <<ids, queue, tasks, req, stopped, taskVars, stateVars, results>>
StatusReturn ==
  LET t == act["monitor"].task IN
  /\ act["monitor"].phase = "status"
  /\ \E answer \in {"PENDING", "COMPLETED", "ERROR"} :
       /\ Attempt(t, answer)
       /\ status' = [status EXCEPT ![t] = answer]
       /\ IF answer = "PENDING"
          THEN Iterate(tasks, seen, size)
          ELSE act' = [act EXCEPT !["monitor"].phase = "result"] /\ UNCHANGED <<seen, size>>
  /\ UNCHANGED <<ids, queue, tasks, req, stopped, resource_id, stateVars, results>>
\* A task that was executed after another is pending now: the next resource.
MonitorPending ==
  LET t == act["monitor"].task IN
  /\ act["monitor"].phase = "executed" /\ status[t] = "PENDING"
  /\ MoveState(t, EXECUTED)
  /\ Iterate(tasks, seen, size)
  /\ UNCHANGED <<ids, queue, tasks, req, stopped, taskVars, results>>
\* _dequeue: the next task of the resource is executed at once.
MonitorFinish ==
  LET t == act["monitor"].task
      r == resource_id[t]
  IN
  /\ act["monitor"].phase = "result"
  /\ results' = [results EXCEPT ![t] = @ + 1]
  /\ MoveState(t, RESULT)
  /\ Dequeue(t)
  /\ IF r \notin Keys(tasks')
     THEN Iterate(tasks', seen \ {r}, size)
     ELSE /\ \E i \in Fronts(tasks') :
               /\ resource_id[tasks'[i]] = r
               /\ act' = [act EXCEPT !["monitor"] = Doing("start", tasks'[i])]
          /\ UNCHANGED <<seen, size>>
  /\ UNCHANGED <<ids, queue, req, stopped, taskVars>>

-----------------------------------------------------------------------------
(* stop()                                                                  *)

\* Mutant: the killed task is forgotten.
KillForgets(phase, t) ==
  LET pending == phase = "executed" /\ status[t] = "PENDING"
  IN  /\ tasks' = IF pending THEN Enqueued(t) ELSE tasks
      /\ act' = [act EXCEPT !["main"] = Off,
                            !["monitor"] = IF @.phase = "idle" THEN Off ELSE @,
                            !["stop"] = Doing("join", NoTask),
                            !["killed"] = IF phase = "executed" /\ ~pending
                                          THEN Doing("result", t) ELSE Off]
\* Mutant: a task that is over is given its result and goes to the queue as well.
KillRequeues(phase, t) ==
  LET requeue == phase \in {"start", "exec", "executed"}
  IN  /\ tasks' = IF requeue THEN Enqueued(t) ELSE tasks
      /\ act' = [act EXCEPT !["main"] = Off,
                            !["monitor"] = IF @.phase = "idle" THEN Off ELSE @,
                            !["stop"] = Doing("join", NoTask),
                            !["killed"] = IF phase = "executed" /\ status[t] # "PENDING"
                                          THEN Doing("result", t) ELSE Off]
\* The main thread dies where it stands.  A task it was executing goes to the queue
\* of its resource; one that is over is given its result by the dying thread; one
\* whose result callback was running is dropped.  (copy.deepcopy of a task somebody
\* waits for is not modelled.)
Kill(phase, t) ==
  LET requeue == phase \in {"start", "exec"} \/ (phase = "executed" /\ status[t] = "PENDING")
  IN  /\ tasks' = IF requeue THEN Enqueued(t) ELSE tasks
      /\ act' = [act EXCEPT !["main"] = Off,
                            !["monitor"] = IF @.phase = "idle" THEN Off ELSE @,
                            !["stop"] = Doing("join", NoTask),
                            !["killed"] = IF phase = "executed" /\ ~requeue
                                          THEN Doing("result", t) ELSE Off]
Stop ==
  /\ MayStop /\ waiting = {} /\ act["killed"] = Off
  /\ act["main"].phase \in {"wait", "start", "exec", "executed", "result"}
  /\ stopped' = TRUE
  /\ Kill(act["main"].phase, act["main"].task)
  /\ UNCHANGED <<ids, queue, req, seen, size, taskVars, stateVars, results>>

\* The next task to abort: the first one of some resource.
AbortNext(ts) ==
  \/ ts = <<>> /\ act' = [act EXCEPT !["stop"] = Off] /\ UNCHANGED status
  \/ \E i \in Fronts(ts) :
       /\ act' = [act EXCEPT !["stop"] = Doing("result", ts[i])]
       /\ status' = [status EXCEPT ![ts[i]] = "ABORT"]
\* Mutant: stop() does not wait for the monitor.
AbortAtOnce ==
  /\ act["stop"].phase = "join"
  /\ queue' = <<>>
  /\ tasks' = tasks \o queue
  /\ AbortNext(tasks')
  /\ UNCHANGED <<ids, req, stopped, seen, size, resource_id, retry_number, stateVars, results>>
\* _abort, when the round of the monitor is over: first the queue is emptied.
Abort ==
  /\ act["stop"].phase = "join" /\ act["monitor"] = Off
  /\ queue' = <<>>
  /\ tasks' = tasks \o queue
  /\ AbortNext(tasks')
  /\ UNCHANGED <<ids, req, stopped, seen, size, resource_id, retry_number, stateVars, results>>
AbortFinish ==
  /\ act["stop"].phase = "result"
  /\ results' = [results EXCEPT ![act["stop"].task] = @ + 1]
  /\ MoveState(act["stop"].task, RESULT)
  /\ Dequeue(act["stop"].task)
  /\ AbortNext(tasks')
  /\ UNCHANGED <<ids, queue, req, stopped, seen, size, resource_id, retry_number>>

-----------------------------------------------------------------------------
Init ==
  /\ queue = <<>> /\ tasks = <<>>
  /\ req = FALSE /\ stopped = FALSE
  /\ act = [a \in Actors |-> Off]
  /\ seen = {} /\ size = 0
  /\ resource_id = [t \in Tasks |-> NoResource]
  /\ status = [t \in Tasks |-> "None"]
  /\ state = [t \in Tasks |-> -1]
  /\ retry_number = [t \in Tasks |-> 1]
  /\ results = [t \in Tasks |-> 0]
  /\ slot = [t \in Tasks |-> [s \in States |-> NoWaiter]]
  /\ waiting = {} /\ ids = <<>>

Callbacks(a) == StartTask(a) \/ ExecReturn(a) \/ ToResult(a)
Main == Callbacks("main") \/ MainWake \/ MainPending \/ MainFinish
Monitor == Callbacks("monitor") \/ MonitorRound \/ StatusReturn \/ MonitorPending \/ MonitorFinish
Stopping == Abort \/ AbortFinish
Callers == \/ \E t \in Tasks : Add(t)
           \/ \E w \in Waiters, t \in Tasks, s \in States : Wait(w, t, s)
Next == Callers \/ Start \/ Stop \/ Main \/ Monitor \/ Stopping \/ KilledFinish

Spec == Init /\ [][Next]_vars
\* Callbacks return, the hub runs every green thread that can run, and the looping
\* call comes round again.
Fairness == WF_vars(Start) /\ WF_vars(Main) /\ WF_vars(Monitor)
            /\ WF_vars(Stopping) /\ WF_vars(KilledFinish)
FairSpec == Spec /\ Fairness

-----------------------------------------------------------------------------
(* Correctness                                                             *)

Phases == {"off", "new", "wait", "idle", "join", "start", "exec", "executed", "status", "result"}
Executing == {"start", "exec", "executed", "status"}

\* Every variable keeps to its type, and no task is queued twice.
TypeOK ==
  /\ queue \in Seq(Tasks) /\ tasks \in Seq(Tasks) /\ IsInjective(queue) /\ IsInjective(tasks)
  /\ req \in BOOLEAN /\ stopped \in BOOLEAN
  /\ act \in [Actors -> [phase : Phases, task : Tasks \cup {NoTask}]]
  /\ seen \subseteq Resources /\ size \in Nat
  /\ resource_id \in [Tasks -> Resources \cup {NoResource}]
  /\ status \in [Tasks -> {"None", "PENDING", "COMPLETED", "ERROR", "ABORT"}]
  /\ state \in [Tasks -> States \cup {-1}]
  /\ retry_number \in [Tasks -> 1..Retries]
  /\ results \in [Tasks -> Nat]
  /\ slot \in [Tasks -> [States -> Waiters \cup {NoWaiter}]]
  /\ waiting \subseteq Waiters
  /\ ids \in Seq(Tasks) /\ IsInjective(ids)

\* A task that waits in one of the queues or is in the hands of a thread of the manager.
Held(t) == \/ t \in ToSet(queue) \cup ToSet(tasks)
           \/ \E a \in Actors \ {"killed"} : act[a].task = t

\* "append the task to same queue for ordered processing": a task is not started
\* before every task of its resource that was added earlier has its result, whichever
\* threads run them (a thread that was killed may still be at its last callback).
InOrder ==
  \A j \in DOMAIN ids : \A i \in 1..(j - 1) :
    /\ resource_id[ids[i]] = resource_id[ids[j]]
    /\ state[ids[j]] >= START \/ \E a \in Actors : act[a] = Doing("start", ids[j])
    => ~Held(ids[i])

\* Every task has its result callback called once at most, and none that has had its
\* result is still queued.
ResultOnce ==
  \A t \in Tasks :
    /\ results[t] <= 1
    /\ results[t] = 1 => t \notin ToSet(queue) \cup ToSet(tasks)

\* A task is in one of the queues or with a thread until it is over: the main thread
\* drops one only if it is killed inside its result callback.
NoTaskLost ==
  \A t \in Added : state[t] = RESULT \/ status[t] \in {"COMPLETED", "ERROR"} \/ Held(t)

\* Once stop() has returned, no callback of the manager runs but the last one of the
\* thread it killed, and no task is left behind.
StopIsFinal ==
  stopped /\ act["stop"] = Off =>
    tasks = <<>> /\ act["main"] = Off /\ act["monitor"] = Off

\* has_pending_task: nothing is pending only when every task has its result, or is
\* having its result callback called (as long as nobody stops the manager).
PendingReported ==
  ~HasPending => \A t \in Added : state[t] = RESULT \/ act["main"] = Doing("result", t)

\* Every task gets its result, although each round of the monitor may be cut short
\* by a change of the dict, and nobody who waits for a task waits forever.
EveryTaskEnds == \A t \in Tasks : t \in Added ~> state[t] = RESULT
WaitReturns == \A w \in Waiters : w \in waiting ~> w \notin waiting
=============================================================================
