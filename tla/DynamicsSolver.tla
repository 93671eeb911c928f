--------------------------- MODULE DynamicsSolver ---------------------------
(***************************************************************************)
(* The asynchronous trajectory solver of                                    *)
(* backend/src/modules/dynamics_solver.cpp: a pool of worker threads that   *)
(* take tasks from a priority queue, with callbacks or a future for the     *)
(* results, cancellation, and start()/stop() cycles.                        *)
(*                                                                          *)
(* Every critical section of mutex_ is one action.  What the code does      *)
(* outside the mutex is an action of its own: taking a task id, notify_one, *)
(* notify_all, the test of running_ at the head of worker_loop, the two     *)
(* counter updates after a task, the delivery of the result, the join.      *)
(* execute_task() works on the worker's own copy and catches every          *)
(* exception, so it always ends with a result; which one is not modelled.   *)
(* start() and stop() are called by one controlling thread (the owner of    *)
(* the object); submit and cancel by any number of clients.                 *)
(***************************************************************************)
EXTENDS Naturals, FiniteSets

CONSTANTS
    Workers,      \* the num_threads_ worker threads of one start()
    Clients,      \* threads that submit tasks
    Priorities,   \* values of SolverTask::priority that occur
    MaxTasks      \* bound on the number of submissions

ASSUME SolverAssumption ==
    /\ IsFiniteSet(Workers)
    /\ IsFiniteSet(Clients)
    /\ Priorities \subseteq Nat
    /\ Priorities # {}
    /\ MaxTasks \in Nat

TaskIds == 1..MaxTasks

VARIABLES
    running_,          \* TRUE between start() and stop()
    task_queue_,       \* the ids in the priority queue
    priority,          \* [TaskIds -> priority of the queued copy]
    cancelled_tasks_,  \* ids for which cancel_task() was called
    next_task_id_,     \* the id the next submission gets
    pending_count_,    \* what get_pending_count() returns
    completed_count_,  \* what get_completed_count() returns
    worker,            \* [Workers -> where the thread is in worker_loop()]
    holding,           \* [Workers -> the task it executes, 0 if none]
    client,            \* [Clients -> where the thread is in a submit call]
    mine,              \* [Clients -> the id of the task it is submitting, 0 if none]
    sync,              \* [Clients -> TRUE if the call is submit_task_sync()]
    controller,        \* where the owner is in stop()
    delivered          \* history: [TaskIds -> results delivered for the task]

queueVars   == <<task_queue_, priority, cancelled_tasks_>>
countVars   == <<pending_count_, completed_count_>>
workerVars  == <<worker, holding>>
clientVars  == <<client, mine, sync>>
controlVars == <<running_, controller>>
vars == <<queueVars, countVars, workerVars, clientVars, controlVars,
          next_task_id_, delivered>>

WorkerStates == {"none", "loop", "lock", "waiting", "execute", "count", "deliver", "exited"}
ClientStates == {"idle", "push", "notify", "blocked"}

InState(s)   == {w \in Workers : worker[w] = s}
Waiting      == InState("waiting")
Awake        == {w \in Workers : worker[w] \in {"loop", "lock"}}
Executing    == InState("execute")
Counting     == InState("count")
Pushing      == {c \in Clients : client[c] = "push"}
Notifying    == {c \in Clients : client[c] = "notify"}
Stopped      == ~running_ /\ controller = "idle"

\* The tasks priority_queue::top() may return: of equal priorities, any.
Top == {t \in task_queue_ : \A u \in task_queue_ : priority[u] <= priority[t]}

Init ==
    /\ running_ = FALSE
    /\ task_queue_ = {}
    /\ priority = [t \in TaskIds |-> CHOOSE p \in Priorities : TRUE]
    /\ cancelled_tasks_ = {}
    /\ next_task_id_ = 1
    /\ pending_count_ = 0
    /\ completed_count_ = 0
    /\ worker = [w \in Workers |-> "none"]
    /\ holding = [w \in Workers |-> 0]
    /\ client = [c \in Clients |-> "idle"]
    /\ mine = [c \in Clients |-> 0]
    /\ sync = [c \in Clients |-> FALSE]
    /\ controller = "idle"
    /\ delivered = [t \in TaskIds |-> 0]

-----------------------------------------------------------------------------
\* The owner: start() and stop(), the destructor included.  A start() of a running
\* solver and a stop() of a stopped one return without an effect.

\* start(): under the mutex, running_ = true and a thread per worker.
Start ==
    /\ Stopped
    /\ running_' = TRUE
    /\ worker' = [w \in Workers |-> "loop"]
    /\ UNCHANGED <<queueVars, countVars, holding, clientVars, controller,
                   next_task_id_, delivered>>

\* stop(): under the mutex, running_ = false.
StopFlag ==
    /\ running_
    /\ running_' = FALSE
    /\ controller' = "notify"
    /\ UNCHANGED <<queueVars, countVars, workerVars, clientVars, next_task_id_, delivered>>

\* Mutant: stop() forgets notify_all().
StopNotifyNobody ==
    /\ controller = "notify"
    /\ controller' = "join"
    /\ UNCHANGED <<queueVars, countVars, workerVars, clientVars, running_,
                   next_task_id_, delivered>>

\* stop(): cv_.notify_all().
StopNotifyAll ==
    /\ controller = "notify"
    /\ controller' = "join"
    /\ worker' = [w \in Workers |-> IF worker[w] = "waiting" THEN "lock" ELSE worker[w]]
    /\ UNCHANGED <<queueVars, countVars, holding, clientVars, running_,
                   next_task_id_, delivered>>

\* Mutant: stop() returns without joining its workers.
StopDetach ==
    /\ controller = "join"
    /\ controller' = "idle"
    /\ UNCHANGED <<queueVars, countVars, workerVars, clientVars, running_,
                   next_task_id_, delivered>>

\* stop(): join every worker, workers_.clear().
StopJoin ==
    /\ controller = "join"
    /\ \A w \in Workers : worker[w] = "exited"
    /\ controller' = "idle"
    /\ worker' = [w \in Workers |-> "none"]
    /\ UNCHANGED <<queueVars, countVars, holding, clientVars, running_,
                   next_task_id_, delivered>>

-----------------------------------------------------------------------------
\* The clients: submit_task(), submit_task_sync(), cancel_task().

\* next_task_id_.fetch_add(1), before the mutex is taken.
TakeId(c) ==
    /\ client[c] = "idle"
    /\ next_task_id_ <= MaxTasks
    /\ next_task_id_' = next_task_id_ + 1
    /\ mine' = [mine EXCEPT ![c] = next_task_id_]
    /\ \E s \in BOOLEAN : sync' = [sync EXCEPT ![c] = s]
    /\ client' = [client EXCEPT ![c] = "push"]
    /\ UNCHANGED <<queueVars, countVars, workerVars, controlVars, delivered>>

\* The copy enters the queue and pending_count_ grows, under the mutex; a solver
\* that is stopped accepts the task as well.
Push(c) ==
    /\ client[c] = "push"
    /\ task_queue_' = task_queue_ \cup {mine[c]}
    /\ \E p \in Priorities : priority' = [priority EXCEPT ![mine[c]] = p]
    /\ pending_count_' = pending_count_ + 1
    /\ client' = [client EXCEPT ![c] = "notify"]
    /\ UNCHANGED <<cancelled_tasks_, completed_count_, workerVars, mine, sync,
                   controlVars, next_task_id_, delivered>>

\* After notify_one() a submit_task() returns, a submit_task_sync() waits for the
\* future; the locals of a call that returns are gone.
Return(c) ==
    /\ client' = [client EXCEPT ![c] = "idle"]
    /\ mine' = [mine EXCEPT ![c] = 0]
    /\ sync' = [sync EXCEPT ![c] = FALSE]

AfterNotify(c) ==
    \/ ~sync[c] /\ Return(c)
    \/ sync[c] /\ client' = [client EXCEPT ![c] = "blocked"] /\ UNCHANGED <<mine, sync>>

\* Mutant: notify_one() is missing.
NotifyNobody(c) ==
    /\ client[c] = "notify"
    /\ AfterNotify(c)
    /\ UNCHANGED <<queueVars, countVars, workerVars, controlVars, next_task_id_, delivered>>

\* cv_.notify_one(), after the mutex was released.
NotifyOne(c) ==
    /\ client[c] = "notify"
    /\ AfterNotify(c)
    /\ IF Waiting = {}
         THEN UNCHANGED worker
         ELSE \E w \in Waiting : worker' = [worker EXCEPT ![w] = "lock"]
    /\ UNCHANGED <<queueVars, countVars, holding, controlVars, next_task_id_, delivered>>

\* submit_task_sync(): future.get() returns once the promise has its value.
SyncReturn(c) ==
    /\ client[c] = "blocked"
    /\ delivered[mine[c]] > 0
    /\ Return(c)
    /\ UNCHANGED <<queueVars, countVars, workerVars, controlVars, next_task_id_, delivered>>

\* cancel_task(): any id is accepted, whether its task is queued, running, done or
\* not submitted yet; a second call for an id in the set returns false.
CancelTask(t) ==
    /\ t \notin cancelled_tasks_
    /\ cancelled_tasks_' = cancelled_tasks_ \cup {t}
    /\ UNCHANGED <<task_queue_, priority, countVars, workerVars, clientVars, controlVars,
                   next_task_id_, delivered>>

-----------------------------------------------------------------------------
\* worker_loop().

\* while (running_.load()), outside the mutex.
LoopTest(w) ==
    /\ worker[w] = "loop"
    /\ worker' = [worker EXCEPT ![w] = IF running_ THEN "lock" ELSE "exited"]
    /\ UNCHANGED <<queueVars, countVars, holding, clientVars, controlVars,
                   next_task_id_, delivered>>

\* The predicate of cv_.wait() is false: nothing queued and still running.
Wait(w) ==
    /\ worker[w] = "lock"
    /\ task_queue_ = {}
    /\ running_
    /\ worker' = [worker EXCEPT ![w] = "waiting"]
    /\ UNCHANGED <<queueVars, countVars, holding, clientVars, controlVars,
                   next_task_id_, delivered>>

\* Stopped and nothing queued: return.
Quit(w) ==
    /\ worker[w] = "lock"
    /\ task_queue_ = {}
    /\ ~running_
    /\ worker' = [worker EXCEPT ![w] = "exited"]
    /\ UNCHANGED <<queueVars, countVars, holding, clientVars, controlVars,
                   next_task_id_, delivered>>

\* Mutant: cancelled_tasks_ is not consulted.
PopUnchecked(w) ==
    /\ worker[w] = "lock"
    /\ \E t \in Top :
          /\ task_queue_' = task_queue_ \ {t}
          /\ holding' = [holding EXCEPT ![w] = t]
    /\ worker' = [worker EXCEPT ![w] = "execute"]
    /\ UNCHANGED <<priority, cancelled_tasks_, countVars, clientVars, controlVars,
                   next_task_id_, delivered>>

\* The most urgent task is taken and not cancelled: it will be executed, even if
\* running_ has become false since the loop test.
PopTask(w) ==
    /\ worker[w] = "lock"
    /\ \E t \in Top \ cancelled_tasks_ :
          /\ task_queue_' = task_queue_ \ {t}
          /\ holding' = [holding EXCEPT ![w] = t]
    /\ worker' = [worker EXCEPT ![w] = "execute"]
    /\ UNCHANGED <<priority, cancelled_tasks_, countVars, clientVars, controlVars,
                   next_task_id_, delivered>>

\* Mutant: a dropped task stays in pending_count_.
DropWithoutPending(w) ==
    /\ worker[w] = "lock"
    /\ \E t \in Top \cap cancelled_tasks_ :
          /\ task_queue_' = task_queue_ \ {t}
          /\ cancelled_tasks_' = cancelled_tasks_ \ {t}
    /\ completed_count_' = completed_count_ + 1
    /\ worker' = [worker EXCEPT ![w] = "loop"]
    /\ UNCHANGED <<priority, pending_count_, holding, clientVars, controlVars,
                   next_task_id_, delivered>>

\* The most urgent task is cancelled: it is forgotten under the mutex, counted as
\* completed, and neither its callback nor its promise is ever used.
DropTask(w) ==
    /\ worker[w] = "lock"
    /\ \E t \in Top \cap cancelled_tasks_ :
          /\ task_queue_' = task_queue_ \ {t}
          /\ cancelled_tasks_' = cancelled_tasks_ \ {t}
    /\ pending_count_' = pending_count_ - 1
    /\ completed_count_' = completed_count_ + 1
    /\ worker' = [worker EXCEPT ![w] = "loop"]
    /\ UNCHANGED <<priority, holding, clientVars, controlVars, next_task_id_, delivered>>

\* A condition variable may wake a thread without a notification.
SpuriousWake(w) ==
    /\ worker[w] = "waiting"
    /\ worker' = [worker EXCEPT ![w] = "lock"]
    /\ UNCHANGED <<queueVars, countVars, holding, clientVars, controlVars,
                   next_task_id_, delivered>>

\* execute_task() returns; pending_count_.fetch_sub(1).
FinishExecute(w) ==
    /\ worker[w] = "execute"
    /\ pending_count_' = pending_count_ - 1
    /\ worker' = [worker EXCEPT ![w] = "count"]
    /\ UNCHANGED <<queueVars, completed_count_, holding, clientVars, controlVars,
                   next_task_id_, delivered>>

\* completed_count_.fetch_add(1), before anybody has the result.
CountCompleted(w) ==
    /\ worker[w] = "count"
    /\ completed_count_' = completed_count_ + 1
    /\ worker' = [worker EXCEPT ![w] = "deliver"]
    /\ UNCHANGED <<queueVars, pending_count_, holding, clientVars, controlVars,
                   next_task_id_, delivered>>

\* qt.callback(result), or qt.promise->set_value(result).
Deliver(w) ==
    /\ worker[w] = "deliver"
    /\ delivered' = [delivered EXCEPT ![holding[w]] = @ + 1]
    /\ holding' = [holding EXCEPT ![w] = 0]
    /\ worker' = [worker EXCEPT ![w] = "loop"]
    /\ UNCHANGED <<queueVars, countVars, clientVars, controlVars, next_task_id_>>

ClientStep(c) == Push(c) \/ NotifyOne(c) \/ SyncReturn(c)

WorkerStep(w) ==
    \/ LoopTest(w)
    \/ Wait(w)
    \/ Quit(w)
    \/ PopTask(w)
    \/ DropTask(w)
    \/ FinishExecute(w)
    \/ CountCompleted(w)
    \/ Deliver(w)

Next ==
    \/ Start
    \/ StopFlag
    \/ StopNotifyAll
    \/ StopJoin
    \/ \E c \in Clients : TakeId(c) \/ ClientStep(c)
    \/ \E t \in TaskIds : CancelTask(t)
    \/ \E w \in Workers : WorkerStep(w) \/ SpuriousWake(w)

Spec == Init /\ [][Next]_vars

\* Threads that can run do run.  Nobody has to submit, cancel, start or stop, but
\* a stop() that has begun goes on.
Fairness ==
    /\ \A w \in Workers : WF_vars(WorkerStep(w))
    /\ \A c \in Clients : WF_vars(ClientStep(c))
    /\ WF_vars(StopNotifyAll)
    /\ WF_vars(StopJoin)

FairSpec == Spec /\ Fairness

-----------------------------------------------------------------------------

Held == {holding[w] : w \in Workers}

\* The range of every variable, and which threads exist: a stopped solver has no
\* worker, a running one has all of them, and a worker has a task exactly while it
\* executes it or reports on it.
TypeOK ==
    /\ running_ \in BOOLEAN
    /\ task_queue_ \subseteq TaskIds
    /\ priority \in [TaskIds -> Priorities]
    /\ cancelled_tasks_ \subseteq TaskIds
    /\ next_task_id_ \in 1..(MaxTasks + 1)
    /\ pending_count_ \in Nat
    /\ completed_count_ \in Nat
    /\ worker \in [Workers -> WorkerStates]
    /\ holding \in [Workers -> TaskIds \cup {0}]
    /\ client \in [Clients -> ClientStates]
    /\ mine \in [Clients -> TaskIds \cup {0}]
    /\ sync \in [Clients -> BOOLEAN]
    /\ controller \in {"idle", "notify", "join"}
    /\ delivered \in [TaskIds -> Nat]
    /\ \A w \in Workers :
          holding[w] # 0 <=> worker[w] \in {"execute", "count", "deliver"}
    /\ \A w \in Workers : Stopped <=> worker[w] = "none"
    /\ running_ => controller = "idle" /\ \A w \in Workers : worker[w] # "exited"
    /\ \A c \in Clients : client[c] # "idle" <=> mine[c] # 0

\* get_pending_count() is the number of tasks queued or being executed, so it never
\* underflows, whatever is cancelled, left behind by a stop() or submitted while
\* the solver is stopped.
PendingExact ==
    pending_count_ = Cardinality(task_queue_) + Cardinality(Executing)

\* No submission is lost from the counters: every id handed out is still to be
\* pushed, pending, between the two counter updates, or completed.
CountersConserve ==
    pending_count_ + completed_count_ + Cardinality(Counting) + Cardinality(Pushing)
        = next_task_id_ - 1

\* A task is in one place at a time, so no two workers execute it and its result
\* is delivered at most once, across any number of start/stop cycles.
OnePlace ==
    /\ \A t \in TaskIds :
          /\ t >= next_task_id_ => t \notin task_queue_ \cup Held /\ delivered[t] = 0
          /\ t \in task_queue_ => t \notin Held /\ delivered[t] = 0
          /\ t \in Held => delivered[t] = 0
          /\ delivered[t] <= 1
    /\ \A v, w \in Workers : v # w /\ holding[v] = holding[w] => holding[v] = 0
    /\ \A c \in Clients :
          /\ mine[c] < next_task_id_
          /\ c \in Pushing =>
               /\ mine[c] \notin task_queue_ \cup Held
               /\ delivered[mine[c]] = 0
    /\ \A c, d \in Clients : c # d /\ mine[c] = mine[d] => mine[c] = 0

\* While the solver runs, no worker sleeps next to a queued task for which no
\* wake-up is under way: submit notifies outside the mutex and once per task, and
\* a woken worker may find that a busy one was faster.
NoLostSubmission ==
    running_ /\ Waiting # {} =>
        Cardinality(task_queue_) <= Cardinality(Notifying) + Cardinality(Awake)

\* After stop() has returned no callback runs and no future becomes ready until
\* the next start(), so the owner may destroy what the callbacks refer to.
QuietWhenStopped == [][Stopped => delivered' = delivered]_vars

\* stop() returns, although a worker may still pick up one queued task after
\* running_ has become false.
StopReturns == controller # "idle" ~> controller = "idle"

\* A task popped and dropped because it was cancelled.
Dropped(t) ==
    /\ t < next_task_id_
    /\ t \notin task_queue_ \cup Held \cup {mine[c] : c \in Pushing}
    /\ delivered[t] = 0

\* submit_task_sync() returns, unless its task is cancelled in time (the worker
\* then drops the promise's task while the caller's own reference keeps the future
\* from failing, and the caller waits for ever) or the solver is stopped.
SyncCallReturns ==
    \A c \in Clients :
        client[c] = "blocked" ~> \/ client[c] = "idle"
                                 \/ Dropped(mine[c])
                                 \/ ~running_

-----------------------------------------------------------------------------

\* How far a task has come, as a client sees it.
StageOf(t) ==
    CASE t \in task_queue_                             -> "queued"
      [] t \in Held                                    -> "running"
      [] delivered[t] > 0                              -> "delivered"
      [] Dropped(t)                                    -> "dropped"
      [] OTHER                                         -> "new"

Pool == INSTANCE TaskPool WITH
    stage     <- [t \in TaskIds |-> StageOf(t)],
    urgency   <- priority,
    cancelled <- cancelled_tasks_

\* The solver implements the task pool: at most one start and one result per task,
\* highest priority first, and a task cancelled while queued never starts.
ImplementsPool == Pool!PoolSpec

=============================================================================
