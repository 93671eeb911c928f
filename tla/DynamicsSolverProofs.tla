------------------------ MODULE DynamicsSolverProofs ------------------------
(***************************************************************************)
(* Proofs about DynamicsSolver for any finite sets of workers and clients,  *)
(* any priorities and any number of submissions, over any number of         *)
(* start/stop cycles.                                                       *)
(***************************************************************************)
EXTENDS DynamicsSolver, FiniteSetTheorems, TLAPS

USE SolverAssumption DEF SolverAssumption

\* The sets whose sizes the invariants compare are finite.
LEMMA Finiteness ==
  ASSUME TypeOK
  PROVE  /\ IsFiniteSet(task_queue_) /\ Cardinality(task_queue_) \in Nat
         /\ IsFiniteSet(Executing) /\ Cardinality(Executing) \in Nat
         /\ IsFiniteSet(Counting) /\ Cardinality(Counting) \in Nat
         /\ IsFiniteSet(Awake) /\ Cardinality(Awake) \in Nat
         /\ IsFiniteSet(Pushing) /\ Cardinality(Pushing) \in Nat
         /\ IsFiniteSet(Notifying) /\ Cardinality(Notifying) \in Nat
<1>1. IsFiniteSet(TaskIds)
  BY FS_Interval DEF TaskIds
<1>2. task_queue_ \in SUBSET TaskIds
  BY DEF TypeOK
<1>3. /\ Executing \in SUBSET Workers
      /\ Counting \in SUBSET Workers
      /\ Awake \in SUBSET Workers
  BY DEF Executing, Counting, Awake, InState
<1>4. Pushing \in SUBSET Clients /\ Notifying \in SUBSET Clients
  BY DEF Pushing, Notifying
<1>5. /\ IsFiniteSet(task_queue_) /\ IsFiniteSet(Executing) /\ IsFiniteSet(Counting)
      /\ IsFiniteSet(Awake) /\ IsFiniteSet(Pushing) /\ IsFiniteSet(Notifying)
  BY <1>1, <1>2, <1>3, <1>4, FS_Subset
<1> QED  BY <1>5, FS_CardinalityType

\* A set that gains an element is larger by one, a set that loses one is smaller.
LEMMA Gains ==
  ASSUME NEW S, IsFiniteSet(S), NEW x, x \notin S
  PROVE  Cardinality(S \cup {x}) = Cardinality(S) + 1
BY FS_AddElement

\* Taking a member out of a finite set lowers its size by one.
LEMMA Loses ==
  ASSUME NEW S, IsFiniteSet(S), NEW x, x \in S
  PROVE  /\ Cardinality(S \ {x}) = Cardinality(S) - 1
         /\ Cardinality(S) \in Nat \ {0}
<1>1. Cardinality(S \ {x}) = Cardinality(S) - 1
  BY FS_RemoveElement
<1>2. Cardinality(S) # 0
  BY FS_EmptySet
<1> QED  BY <1>1, <1>2, FS_CardinalityType

-----------------------------------------------------------------------------

\* Every variable stays in its range, and the workers that exist are those of the
\* controller's state; that pending_count_ does not underflow needs PendingExact.
LEMMA TypeStep ==
  ASSUME TypeOK, PendingExact, [Next]_vars
  PROVE  TypeOK'
<1> USE DEF TypeOK, WorkerStates, ClientStates
<1>a. CASE UNCHANGED vars
  BY <1>a DEF vars, queueVars, countVars, workerVars, clientVars, controlVars, Stopped
<1>1. CASE Start
  BY <1>1 DEF Start, queueVars, countVars, clientVars, Stopped
<1>2. CASE StopFlag
  BY <1>2 DEF StopFlag, queueVars, countVars, workerVars, clientVars, Stopped
<1>3. CASE StopNotifyAll
  BY <1>3 DEF StopNotifyAll, queueVars, countVars, clientVars, Stopped
<1>4. CASE StopJoin
  BY <1>4 DEF StopJoin, queueVars, countVars, clientVars, Stopped
<1>5. ASSUME NEW c \in Clients, TakeId(c)  PROVE TypeOK'
  <2>1. next_task_id_ \in TaskIds /\ next_task_id_' \in 1..(MaxTasks + 1)
    BY <1>5 DEF TakeId, TaskIds
  <2>2. next_task_id_ # 0
    BY <2>1 DEF TaskIds
  <2> QED
    BY <1>5, <2>1, <2>2 DEF TakeId, queueVars, countVars, workerVars, controlVars, Stopped
<1>6. ASSUME NEW c \in Clients, Push(c)  PROVE TypeOK'
  <2>1. mine[c] \in TaskIds
    BY <1>6 DEF Push
  <2> QED  BY <1>6, <2>1 DEF Push, workerVars, controlVars, Stopped
<1>7. ASSUME NEW c \in Clients, NotifyOne(c)  PROVE TypeOK'
  <2>1. /\ client' \in [Clients -> ClientStates]
        /\ mine' \in [Clients -> TaskIds \cup {0}]
        /\ sync' \in [Clients -> BOOLEAN]
        /\ \A d \in Clients : client'[d] # "idle" <=> mine'[d] # 0
    BY <1>7 DEF NotifyOne, AfterNotify, Return
  <2>2. \/ worker' = worker
        \/ \E w \in Waiting : worker' = [worker EXCEPT ![w] = "lock"]
    BY <1>7 DEF NotifyOne
  <2> QED
    BY <1>7, <2>1, <2>2
    DEF NotifyOne, Waiting, InState, queueVars, countVars, controlVars, Stopped
<1>8. ASSUME NEW c \in Clients, SyncReturn(c)  PROVE TypeOK'
  BY <1>8 DEF SyncReturn, Return, queueVars, countVars, workerVars, controlVars, Stopped
<1>9. ASSUME NEW t \in TaskIds, CancelTask(t)  PROVE TypeOK'
  BY <1>9 DEF CancelTask, countVars, workerVars, clientVars, controlVars, Stopped
<1>10. ASSUME NEW w \in Workers, LoopTest(w)  PROVE TypeOK'
  BY <1>10 DEF LoopTest, queueVars, countVars, clientVars, controlVars, Stopped
<1>11. ASSUME NEW w \in Workers, Wait(w)  PROVE TypeOK'
  BY <1>11 DEF Wait, queueVars, countVars, clientVars, controlVars, Stopped
<1>12. ASSUME NEW w \in Workers, Quit(w)  PROVE TypeOK'
  BY <1>12 DEF Quit, queueVars, countVars, clientVars, controlVars, Stopped
<1>13. ASSUME NEW w \in Workers, PopTask(w)  PROVE TypeOK'
  <2>1. PICK t \in Top : /\ task_queue_' = task_queue_ \ {t}
                         /\ holding' = [holding EXCEPT ![w] = t]
    BY <1>13 DEF PopTask
  <2>2. t \in TaskIds /\ t # 0
    BY <2>1 DEF Top, TaskIds
  <2> QED
    BY <1>13, <2>1, <2>2 DEF PopTask, countVars, clientVars, controlVars, Stopped
<1>14. ASSUME NEW w \in Workers, DropTask(w)  PROVE TypeOK'
  <2>1. PICK t \in Top : /\ task_queue_' = task_queue_ \ {t}
                         /\ cancelled_tasks_' = cancelled_tasks_ \ {t}
    BY <1>14 DEF DropTask
  <2>2. pending_count_ - 1 \in Nat
    <3>1. t \in task_queue_
      BY <2>1 DEF Top
    <3>2. Cardinality(task_queue_) \in Nat \ {0}
      BY <3>1, Finiteness, Loses
    <3> QED  BY <3>2, Finiteness DEF PendingExact
  <2>3. /\ worker' = [worker EXCEPT ![w] = "loop"]
        /\ worker[w] = "lock"
        /\ pending_count_' = pending_count_ - 1
        /\ completed_count_' = completed_count_ + 1
        /\ UNCHANGED <<priority, holding, client, mine, sync, running_, controller,
                       next_task_id_, delivered>>
    BY <1>14 DEF DropTask, clientVars, controlVars
  <2> QED  BY <2>1, <2>2, <2>3 DEF Stopped
<1>15. ASSUME NEW w \in Workers, SpuriousWake(w)  PROVE TypeOK'
  BY <1>15 DEF SpuriousWake, queueVars, countVars, clientVars, controlVars, Stopped
<1>16. ASSUME NEW w \in Workers, FinishExecute(w)  PROVE TypeOK'
  <2>1. pending_count_ - 1 \in Nat
    <3>1. w \in Executing
      BY <1>16 DEF FinishExecute, Executing, InState
    <3>2. Cardinality(Executing) \in Nat \ {0}
      BY <3>1, Finiteness, Loses
    <3> QED  BY <3>2, Finiteness DEF PendingExact
  <2> QED
    BY <1>16, <2>1 DEF FinishExecute, queueVars, clientVars, controlVars, Stopped
<1>17. ASSUME NEW w \in Workers, CountCompleted(w)  PROVE TypeOK'
  BY <1>17 DEF CountCompleted, queueVars, clientVars, controlVars, Stopped
<1>18. ASSUME NEW w \in Workers, Deliver(w)  PROVE TypeOK'
  <2>1. holding[w] \in TaskIds
    BY <1>18 DEF Deliver
  <2> QED
    BY <1>18, <2>1 DEF Deliver, queueVars, countVars, clientVars, controlVars, Stopped
<1> QED
  BY <1>a, <1>1, <1>2, <1>3, <1>4, <1>5, <1>6, <1>7, <1>8, <1>9, <1>10, <1>11, <1>12,
     <1>13, <1>14, <1>15, <1>16, <1>17, <1>18
  DEF Next, ClientStep, WorkerStep

-----------------------------------------------------------------------------

\* What each step does to the sets that are counted: one element moves at a time.
\* The steps of the controller move none of the workers that count.
LEMMA ControllerMoves ==
  ASSUME TypeOK, Start \/ StopFlag \/ StopNotifyAll \/ StopJoin
  PROVE  /\ Executing' = Executing /\ Counting' = Counting
         /\ Pushing' = Pushing /\ Notifying' = Notifying
         /\ Waiting' = {} \/ ~running_'
<1> USE DEF TypeOK, Executing, Counting, Waiting, InState, Pushing, Notifying, Stopped,
            queueVars, countVars, workerVars, clientVars, controlVars
<1>1. CASE Start
  BY <1>1 DEF Start
<1>2. CASE StopFlag
  BY <1>2 DEF StopFlag
<1>3. CASE StopNotifyAll
  BY <1>3 DEF StopNotifyAll
<1>4. CASE StopJoin
  BY <1>4 DEF StopJoin
<1> QED  BY <1>1, <1>2, <1>3, <1>4

\* A step of a client: it moves the client, and notify_one() wakes a waiting worker.
LEMMA ClientMoves ==
  ASSUME TypeOK, NEW c \in Clients
  PROVE  /\ TakeId(c) =>
              /\ c \notin Pushing /\ Pushing' = Pushing \cup {c} /\ Notifying' = Notifying
              /\ UNCHANGED <<Executing, Counting, Waiting, Awake>>
         /\ Push(c) =>
              /\ c \in Pushing /\ Pushing' = Pushing \ {c}
              /\ c \notin Notifying /\ Notifying' = Notifying \cup {c}
              /\ UNCHANGED <<Executing, Counting, Waiting, Awake>>
         /\ NotifyOne(c) =>
              /\ c \in Notifying /\ Notifying' = Notifying \ {c} /\ Pushing' = Pushing
              /\ Executing' = Executing /\ Counting' = Counting
              /\ \/ Waiting = {} /\ Waiting' = {}
                 \/ \E w \in Workers : w \notin Awake /\ Awake' = Awake \cup {w}
         /\ SyncReturn(c) =>
              /\ Pushing' = Pushing /\ Notifying' = Notifying
              /\ UNCHANGED <<Executing, Counting, Waiting, Awake>>
<1> USE DEF TypeOK, Executing, Counting, Waiting, Awake, InState, Pushing, Notifying
<1>1. ASSUME TakeId(c)
      PROVE  /\ c \notin Pushing /\ Pushing' = Pushing \cup {c} /\ Notifying' = Notifying
             /\ UNCHANGED <<Executing, Counting, Waiting, Awake>>
  BY <1>1 DEF TakeId, workerVars
<1>2. ASSUME Push(c)
      PROVE  /\ c \in Pushing /\ Pushing' = Pushing \ {c}
             /\ c \notin Notifying /\ Notifying' = Notifying \cup {c}
             /\ UNCHANGED <<Executing, Counting, Waiting, Awake>>
  BY <1>2 DEF Push, workerVars
<1>3. ASSUME NotifyOne(c)
      PROVE  /\ c \in Notifying /\ Notifying' = Notifying \ {c} /\ Pushing' = Pushing
             /\ Executing' = Executing /\ Counting' = Counting
             /\ \/ Waiting = {} /\ Waiting' = {}
                \/ \E w \in Workers : w \notin Awake /\ Awake' = Awake \cup {w}
  <2>1. /\ c \in Notifying /\ Notifying' = Notifying \ {c} /\ Pushing' = Pushing
    BY <1>3 DEF NotifyOne, AfterNotify, Return
  <2>2. CASE Waiting = {} /\ worker' = worker
    BY <2>1, <2>2
  <2>3. CASE \E w \in Waiting : worker' = [worker EXCEPT ![w] = "lock"]
    <3>1. PICK w \in Waiting : worker' = [worker EXCEPT ![w] = "lock"]
      BY <2>3
    <3>2. /\ w \in Workers /\ w \notin Awake /\ Awake' = Awake \cup {w}
          /\ Executing' = Executing /\ Counting' = Counting
      BY <3>1
    <3> QED  BY <2>1, <3>2
  <2> QED  BY <1>3, <2>2, <2>3 DEF NotifyOne
<1>4. ASSUME SyncReturn(c)
      PROVE  /\ Pushing' = Pushing /\ Notifying' = Notifying
             /\ UNCHANGED <<Executing, Counting, Waiting, Awake>>
  BY <1>4 DEF SyncReturn, Return, workerVars
<1> QED  BY <1>1, <1>2, <1>3, <1>4

\* A step of a worker: it moves that worker.
LEMMA WorkerMoves ==
  ASSUME TypeOK, NEW w \in Workers, WorkerStep(w) \/ SpuriousWake(w)
  PROVE  /\ Pushing' = Pushing /\ Notifying' = Notifying
         /\ LoopTest(w) =>
              /\ Executing' = Executing /\ Counting' = Counting
              /\ running_ => Awake' = Awake
         /\ Wait(w) \/ Quit(w) => Executing' = Executing /\ Counting' = Counting
         /\ PopTask(w) =>
              /\ w \notin Executing /\ Executing' = Executing \cup {w}
              /\ w \in Awake /\ Awake' = Awake \ {w}
              /\ Counting' = Counting
         /\ DropTask(w) => UNCHANGED <<Executing, Counting, Awake>>
         /\ SpuriousWake(w) =>
              /\ w \notin Awake /\ Awake' = Awake \cup {w}
              /\ Executing' = Executing /\ Counting' = Counting
         /\ FinishExecute(w) =>
              /\ w \in Executing /\ Executing' = Executing \ {w}
              /\ w \notin Counting /\ Counting' = Counting \cup {w}
              /\ Awake' = Awake
         /\ CountCompleted(w) =>
              /\ w \in Counting /\ Counting' = Counting \ {w}
              /\ Executing' = Executing /\ Awake' = Awake
         /\ Deliver(w) =>
              /\ w \notin Awake /\ Awake' = Awake \cup {w}
              /\ Executing' = Executing /\ Counting' = Counting
<1> USE DEF TypeOK, Executing, Counting, Awake, InState, Pushing, Notifying
<1>1. Pushing' = Pushing /\ Notifying' = Notifying
  BY DEF WorkerStep, LoopTest, Wait, Quit, PopTask, DropTask, SpuriousWake, FinishExecute,
         CountCompleted, Deliver, clientVars
<1>2. ASSUME LoopTest(w)
      PROVE  Executing' = Executing /\ Counting' = Counting /\ (running_ => Awake' = Awake)
  BY <1>2 DEF LoopTest
<1>3. ASSUME Wait(w) \/ Quit(w)  PROVE Executing' = Executing /\ Counting' = Counting
  BY <1>3 DEF Wait, Quit
<1>4. ASSUME PopTask(w)
      PROVE  /\ w \notin Executing /\ Executing' = Executing \cup {w}
             /\ w \in Awake /\ Awake' = Awake \ {w}
             /\ Counting' = Counting
  BY <1>4 DEF PopTask
<1>5. ASSUME DropTask(w)  PROVE UNCHANGED <<Executing, Counting, Awake>>
  BY <1>5 DEF DropTask
<1>6. ASSUME SpuriousWake(w)
      PROVE  /\ w \notin Awake /\ Awake' = Awake \cup {w}
             /\ Executing' = Executing /\ Counting' = Counting
  BY <1>6 DEF SpuriousWake
<1>7. ASSUME FinishExecute(w)
      PROVE  /\ w \in Executing /\ Executing' = Executing \ {w}
             /\ w \notin Counting /\ Counting' = Counting \cup {w}
             /\ Awake' = Awake
  BY <1>7 DEF FinishExecute
<1>8. ASSUME CountCompleted(w)
      PROVE  /\ w \in Counting /\ Counting' = Counting \ {w}
             /\ Executing' = Executing /\ Awake' = Awake
  BY <1>8 DEF CountCompleted
<1>9. ASSUME Deliver(w)
      PROVE  /\ w \notin Awake /\ Awake' = Awake \cup {w}
             /\ Executing' = Executing /\ Counting' = Counting
  BY <1>9 DEF Deliver
<1> QED  BY <1>1, <1>2, <1>3, <1>4, <1>5, <1>6, <1>7, <1>8, <1>9

-----------------------------------------------------------------------------

\* pending_count_ follows the queue and the executing workers through every step:
\* a push adds to both, a pop moves a task from one to the other, a dropped or a
\* finished task leaves both.
LEMMA PendingStep ==
  ASSUME TypeOK, PendingExact, OnePlace, [Next]_vars
  PROVE  PendingExact'
<1> USE DEF PendingExact
<1>0. Cardinality(task_queue_) \in Nat /\ Cardinality(Executing) \in Nat
  BY Finiteness
<1>1. CASE UNCHANGED <<task_queue_, pending_count_, Executing>>
  BY <1>1
<1>2. CASE Start \/ StopFlag \/ StopNotifyAll \/ StopJoin
  <2>1. UNCHANGED <<task_queue_, pending_count_>>
    BY <1>2 DEF Start, StopFlag, StopNotifyAll, StopJoin, queueVars, countVars
  <2> QED  BY <1>1, <1>2, <2>1, ControllerMoves
<1>3. ASSUME NEW c \in Clients, TakeId(c) \/ NotifyOne(c) \/ SyncReturn(c)
      PROVE  PendingExact'
  <2>1. UNCHANGED <<task_queue_, pending_count_>>
    BY <1>3 DEF TakeId, NotifyOne, SyncReturn, queueVars, countVars
  <2> QED  BY <1>1, <1>3, <2>1, ClientMoves
<1>4. ASSUME NEW c \in Clients, Push(c)  PROVE PendingExact'
  <2>1. /\ task_queue_' = task_queue_ \cup {mine[c]}
        /\ pending_count_' = pending_count_ + 1
    BY <1>4 DEF Push
  <2>2. mine[c] \notin task_queue_
    BY <1>4 DEF OnePlace, Push, Pushing
  <2>3. Cardinality(task_queue_') = Cardinality(task_queue_) + 1
    BY <2>1, <2>2, Finiteness, Gains
  <2>4. Executing' = Executing
    BY <1>4, ClientMoves
  <2> QED  BY <1>0, <2>1, <2>3, <2>4
<1>5. ASSUME NEW t \in TaskIds, CancelTask(t)  PROVE PendingExact'
  BY <1>1, <1>5 DEF CancelTask, countVars, workerVars, Executing, InState
<1>6. ASSUME NEW w \in Workers,
             LoopTest(w) \/ Wait(w) \/ Quit(w) \/ SpuriousWake(w) \/ CountCompleted(w)
               \/ Deliver(w)
      PROVE  PendingExact'
  <2>1. UNCHANGED <<task_queue_, pending_count_>>
    BY <1>6 DEF LoopTest, Wait, Quit, SpuriousWake, CountCompleted, Deliver,
                queueVars, countVars
  <2> QED  BY <1>1, <1>6, <2>1, WorkerMoves DEF WorkerStep
<1>7. ASSUME NEW w \in Workers, PopTask(w)  PROVE PendingExact'
  <2>1. PICK t \in task_queue_ : task_queue_' = task_queue_ \ {t}
    BY <1>7 DEF PopTask, Top
  <2>2. pending_count_' = pending_count_
    BY <1>7 DEF PopTask, countVars
  <2>3. Cardinality(task_queue_') = Cardinality(task_queue_) - 1
    BY <2>1, Finiteness, Loses
  <2>4. Cardinality(Executing') = Cardinality(Executing) + 1
    BY <1>7, WorkerMoves, Finiteness, Gains DEF WorkerStep
  <2> QED  BY <1>0, <2>2, <2>3, <2>4
<1>8. ASSUME NEW w \in Workers, DropTask(w)  PROVE PendingExact'
  <2>1. PICK t \in task_queue_ : task_queue_' = task_queue_ \ {t}
    BY <1>8 DEF DropTask, Top
  <2>2. pending_count_' = pending_count_ - 1
    BY <1>8 DEF DropTask
  <2>3. Cardinality(task_queue_') = Cardinality(task_queue_) - 1
    BY <2>1, Finiteness, Loses
  <2>4. Executing' = Executing
    BY <1>8, WorkerMoves DEF WorkerStep
  <2> QED  BY <1>0, <2>2, <2>3, <2>4
<1>9. ASSUME NEW w \in Workers, FinishExecute(w)  PROVE PendingExact'
  <2>1. task_queue_' = task_queue_ /\ pending_count_' = pending_count_ - 1
    BY <1>9 DEF FinishExecute, queueVars
  <2>2. Cardinality(Executing') = Cardinality(Executing) - 1
    BY <1>9, WorkerMoves, Finiteness, Loses DEF WorkerStep
  <2> QED  BY <1>0, <2>1, <2>2
<1>10. CASE UNCHANGED vars
  BY <1>1, <1>10 DEF vars, queueVars, countVars, workerVars, Executing, InState
<1> QED
  BY <1>2, <1>3, <1>4, <1>5, <1>6, <1>7, <1>8, <1>9, <1>10
  DEF Next, ClientStep, WorkerStep

\* An id handed out is followed from the client that pushes it through pending_count_
\* and the gap between the two counter updates to completed_count_.
LEMMA CountersStep ==
  ASSUME TypeOK, CountersConserve, [Next]_vars
  PROVE  CountersConserve'
<1> USE DEF CountersConserve
<1>0. /\ Cardinality(Counting) \in Nat /\ Cardinality(Pushing) \in Nat
      /\ pending_count_ \in Nat /\ completed_count_ \in Nat /\ next_task_id_ \in Nat
  BY Finiteness DEF TypeOK
<1>1. CASE UNCHANGED <<pending_count_, completed_count_, next_task_id_, Counting, Pushing>>
  BY <1>1
<1>2. CASE Start \/ StopFlag \/ StopNotifyAll \/ StopJoin
  <2>1. UNCHANGED <<pending_count_, completed_count_, next_task_id_>>
    BY <1>2 DEF Start, StopFlag, StopNotifyAll, StopJoin, countVars
  <2> QED  BY <1>1, <1>2, <2>1, ControllerMoves
<1>3. ASSUME NEW c \in Clients, TakeId(c)  PROVE CountersConserve'
  <2>1. /\ UNCHANGED <<pending_count_, completed_count_>>
        /\ next_task_id_' = next_task_id_ + 1
    BY <1>3 DEF TakeId, countVars
  <2>2. Counting' = Counting /\ Cardinality(Pushing') = Cardinality(Pushing) + 1
    BY <1>3, ClientMoves, Finiteness, Gains
  <2> QED  BY <1>0, <2>1, <2>2
<1>4. ASSUME NEW c \in Clients, Push(c)  PROVE CountersConserve'
  <2>1. /\ pending_count_' = pending_count_ + 1
        /\ UNCHANGED <<completed_count_, next_task_id_>>
    BY <1>4 DEF Push
  <2>2. Counting' = Counting /\ Cardinality(Pushing') = Cardinality(Pushing) - 1
    BY <1>4, ClientMoves, Finiteness, Loses
  <2> QED  BY <1>0, <2>1, <2>2
<1>5. ASSUME NEW c \in Clients, NotifyOne(c) \/ SyncReturn(c)  PROVE CountersConserve'
  <2>1. UNCHANGED <<pending_count_, completed_count_, next_task_id_>>
    BY <1>5 DEF NotifyOne, SyncReturn, countVars
  <2> QED  BY <1>1, <1>5, <2>1, ClientMoves
<1>6. ASSUME NEW t \in TaskIds, CancelTask(t)  PROVE CountersConserve'
  BY <1>1, <1>6
  DEF CancelTask, countVars, workerVars, clientVars, Counting, InState, Pushing
<1>7. ASSUME NEW w \in Workers,
             LoopTest(w) \/ Wait(w) \/ Quit(w) \/ SpuriousWake(w) \/ PopTask(w) \/ Deliver(w)
      PROVE  CountersConserve'
  <2>1. UNCHANGED <<pending_count_, completed_count_, next_task_id_>>
    BY <1>7 DEF LoopTest, Wait, Quit, SpuriousWake, PopTask, Deliver, countVars
  <2> QED  BY <1>1, <1>7, <2>1, WorkerMoves DEF WorkerStep
<1>8. ASSUME NEW w \in Workers, DropTask(w)  PROVE CountersConserve'
  <2>1. /\ pending_count_' = pending_count_ - 1
        /\ completed_count_' = completed_count_ + 1
        /\ next_task_id_' = next_task_id_
    BY <1>8 DEF DropTask
  <2>2. Counting' = Counting /\ Pushing' = Pushing
    BY <1>8, WorkerMoves DEF WorkerStep
  <2> QED  BY <1>0, <2>1, <2>2
<1>9. ASSUME NEW w \in Workers, FinishExecute(w)  PROVE CountersConserve'
  <2>1. /\ pending_count_' = pending_count_ - 1
        /\ UNCHANGED <<completed_count_, next_task_id_>>
    BY <1>9 DEF FinishExecute
  <2>2. Pushing' = Pushing /\ Cardinality(Counting') = Cardinality(Counting) + 1
    BY <1>9, WorkerMoves, Finiteness, Gains DEF WorkerStep
  <2> QED  BY <1>0, <2>1, <2>2
<1>10. ASSUME NEW w \in Workers, CountCompleted(w)  PROVE CountersConserve'
  <2>1. /\ completed_count_' = completed_count_ + 1
        /\ UNCHANGED <<pending_count_, next_task_id_>>
    BY <1>10 DEF CountCompleted
  <2>2. Pushing' = Pushing /\ Cardinality(Counting') = Cardinality(Counting) - 1
    BY <1>10, WorkerMoves, Finiteness, Loses DEF WorkerStep
  <2> QED  BY <1>0, <2>1, <2>2
<1>11. CASE UNCHANGED vars
  BY <1>1, <1>11
  DEF vars, countVars, workerVars, clientVars, Counting, InState, Pushing
<1> QED
  BY <1>2, <1>3, <1>4, <1>5, <1>6, <1>7, <1>8, <1>9, <1>10, <1>11
  DEF Next, ClientStep, WorkerStep

-----------------------------------------------------------------------------

\* What a task goes through keeps it in one place: an id is new until its client
\* pushes it, queued until one worker pops it, held until that worker delivers.
LEMMA OnePlaceStep ==
  ASSUME TypeOK, OnePlace, [Next]_vars
  PROVE  OnePlace'
<1> USE DEF OnePlace, Held, Pushing
<1>0. next_task_id_ \in Nat /\ \A t \in TaskIds : t \in Nat \ {0}
  BY DEF TypeOK, TaskIds
<1>1. CASE UNCHANGED <<task_queue_, holding, mine, delivered, next_task_id_, client>>
  BY <1>1
<1>2. CASE Start \/ StopFlag \/ StopNotifyAll \/ StopJoin
  BY <1>1, <1>2
  DEF Start, StopFlag, StopNotifyAll, StopJoin, queueVars, workerVars, clientVars
<1>3. ASSUME NEW c \in Clients, TakeId(c)  PROVE OnePlace'
  <2>1. /\ UNCHANGED <<task_queue_, holding, delivered>>
        /\ next_task_id_ \in TaskIds
        /\ next_task_id_' = next_task_id_ + 1
        /\ mine' = [mine EXCEPT ![c] = next_task_id_]
        /\ client' = [client EXCEPT ![c] = "push"]
    BY <1>3 DEF TakeId, queueVars, workerVars, TypeOK, TaskIds
  <2>2. \A d \in Clients : mine[d] \in Nat /\ mine[d] < next_task_id_
    BY <1>0 DEF TypeOK
  <2>3. \A d \in Clients : mine'[d] = IF d = c THEN next_task_id_ ELSE mine[d]
    BY <2>1 DEF TypeOK
  <2>4. Held' = Held /\ \A d \in Clients : d \in Pushing' => d = c \/ d \in Pushing
    BY <2>1 DEF TypeOK
  <2>5. \A t \in TaskIds :
           /\ t >= next_task_id_' => t \notin task_queue_' \cup Held' /\ delivered'[t] = 0
           /\ t \in task_queue_' => t \notin Held' /\ delivered'[t] = 0
           /\ t \in Held' => delivered'[t] = 0
           /\ delivered'[t] <= 1
    BY <1>0, <2>1, <2>4
  <2>6. \A d \in Clients : mine'[d] < next_task_id_'
    BY <1>0, <2>1, <2>2, <2>3
  <2>7. ASSUME NEW d \in Clients, d \in Pushing'
        PROVE  mine'[d] \notin task_queue_' \cup Held' /\ delivered'[mine'[d]] = 0
    BY <1>0, <2>1, <2>3, <2>4, <2>7
  <2>8. \A d, e \in Clients : d # e /\ mine'[d] = mine'[e] => mine'[d] = 0
    BY <1>0, <2>2, <2>3
  <2>9. holding' = holding
    BY <2>1
  <2> QED  BY <2>5, <2>6, <2>7, <2>8, <2>9
<1>4. ASSUME NEW c \in Clients, Push(c)  PROVE OnePlace'
  <2>1. /\ UNCHANGED <<holding, mine, delivered, next_task_id_>>
        /\ task_queue_' = task_queue_ \cup {mine[c]}
        /\ client' = [client EXCEPT ![c] = "notify"]
        /\ client[c] = "push"
    BY <1>4 DEF Push, workerVars
  <2>2. mine[c] \in TaskIds
    BY <2>1 DEF TypeOK
  <2> QED  BY <1>0, <2>1, <2>2 DEF TypeOK
<1>5. ASSUME NEW c \in Clients, NotifyOne(c) \/ SyncReturn(c)  PROVE OnePlace'
  <2>1. /\ UNCHANGED <<task_queue_, holding, delivered, next_task_id_>>
        /\ \/ mine' = mine
           \/ mine' = [mine EXCEPT ![c] = 0]
        /\ \/ client' = [client EXCEPT ![c] = "idle"]
           \/ client' = [client EXCEPT ![c] = "blocked"]
    BY <1>5 DEF NotifyOne, SyncReturn, AfterNotify, Return, queueVars, workerVars
  <2>2. client[c] # "push"
    BY <1>5 DEF NotifyOne, SyncReturn
  <2>3. next_task_id_ > 0
    BY DEF TypeOK
  <2> QED  BY <1>0, <2>1, <2>2, <2>3 DEF TypeOK
<1>6. ASSUME NEW t \in TaskIds, CancelTask(t)  PROVE OnePlace'
  BY <1>1, <1>6 DEF CancelTask, workerVars, clientVars
<1>7. ASSUME NEW w \in Workers,
             LoopTest(w) \/ Wait(w) \/ Quit(w) \/ SpuriousWake(w) \/ FinishExecute(w)
               \/ CountCompleted(w)
      PROVE  OnePlace'
  BY <1>1, <1>7
  DEF LoopTest, Wait, Quit, SpuriousWake, FinishExecute, CountCompleted, queueVars, clientVars
<1>8. ASSUME NEW w \in Workers, PopTask(w)  PROVE OnePlace'
  <2>1. PICK t \in task_queue_ : /\ task_queue_' = task_queue_ \ {t}
                                 /\ holding' = [holding EXCEPT ![w] = t]
    BY <1>8 DEF PopTask, Top
  <2>2. UNCHANGED <<mine, client, delivered, next_task_id_>> /\ holding[w] = 0
    BY <1>8 DEF PopTask, clientVars, TypeOK
  <2>3. t \in TaskIds
    BY DEF TypeOK
  <2> QED  BY <1>0, <2>1, <2>2, <2>3 DEF TypeOK
<1>9. ASSUME NEW w \in Workers, DropTask(w)  PROVE OnePlace'
  <2>1. PICK t \in task_queue_ : task_queue_' = task_queue_ \ {t}
    BY <1>9 DEF DropTask, Top
  <2>2. UNCHANGED <<mine, client, delivered, next_task_id_, holding>>
    BY <1>9 DEF DropTask, clientVars
  <2> QED  BY <2>1, <2>2
<1>10. ASSUME NEW w \in Workers, Deliver(w)  PROVE OnePlace'
  <2>1. /\ UNCHANGED <<task_queue_, mine, client, next_task_id_>>
        /\ holding' = [holding EXCEPT ![w] = 0]
        /\ delivered' = [delivered EXCEPT ![holding[w]] = delivered[holding[w]] + 1]
    BY <1>10 DEF Deliver, queueVars, clientVars
  <2>2. holding[w] \in TaskIds
    BY <1>10 DEF Deliver, TypeOK
  <2>3. delivered'[holding[w]] = 1
    BY <2>1, <2>2 DEF TypeOK
  <2>4. \A t \in TaskIds : t # holding[w] => delivered'[t] = delivered[t]
    BY <2>1 DEF TypeOK
  <2>5. \A v \in Workers : v # w => holding'[v] = holding[v] /\ holding[v] # holding[w]
    BY <1>0, <2>1, <2>2 DEF TypeOK
  <2>6. \A t \in TaskIds : t \in Held' => t \in Held /\ t # holding[w]
    BY <1>0, <2>1, <2>2, <2>5 DEF TypeOK
  <2>7. \A t \in TaskIds :
           /\ t >= next_task_id_' => t \notin task_queue_' \cup Held' /\ delivered'[t] = 0
           /\ t \in task_queue_' => t \notin Held' /\ delivered'[t] = 0
           /\ t \in Held' => delivered'[t] = 0
           /\ delivered'[t] <= 1
    BY <1>0, <2>1, <2>2, <2>3, <2>4, <2>6
  <2>8. \A u, v \in Workers : u # v /\ holding'[u] = holding'[v] => holding'[u] = 0
    BY <2>1 DEF TypeOK
  <2>9. \A c \in Clients :
           c \in Pushing' => /\ mine'[c] \notin task_queue_' \cup Held'
                             /\ delivered'[mine'[c]] = 0
    BY <2>1, <2>2, <2>4, <2>6 DEF TypeOK
  <2> QED  BY <2>1, <2>7, <2>8, <2>9
<1>11. CASE UNCHANGED vars
  BY <1>1, <1>11 DEF vars, queueVars, workerVars, clientVars
<1> QED
  BY <1>2, <1>3, <1>4, <1>5, <1>6, <1>7, <1>8, <1>9, <1>10, <1>11
  DEF Next, ClientStep, WorkerStep

-----------------------------------------------------------------------------

\* A queued task that nobody is about to fetch exists only while no worker sleeps: a
\* push brings its own notification, a notification turns into an awake worker, and
\* an awake worker goes to sleep only when the queue is empty.
LEMMA NoLostStep ==
  ASSUME TypeOK, OnePlace, NoLostSubmission, [Next]_vars
  PROVE  NoLostSubmission'
<1> USE DEF NoLostSubmission
<1>0. /\ Cardinality(task_queue_) \in Nat /\ Cardinality(Notifying) \in Nat
      /\ Cardinality(Awake) \in Nat
  BY Finiteness
<1>1. CASE UNCHANGED <<task_queue_, running_, Waiting, Notifying, Awake>>
  BY <1>1
<1>2. CASE Start \/ StopFlag \/ StopNotifyAll \/ StopJoin
  BY <1>2, ControllerMoves
<1>3. ASSUME NEW c \in Clients, TakeId(c) \/ SyncReturn(c)  PROVE NoLostSubmission'
  <2>1. UNCHANGED <<task_queue_, running_>>
    BY <1>3 DEF TakeId, SyncReturn, queueVars, controlVars
  <2> QED  BY <1>1, <1>3, <2>1, ClientMoves
<1>4. ASSUME NEW c \in Clients, Push(c)  PROVE NoLostSubmission'
  <2>1. /\ task_queue_' = task_queue_ \cup {mine[c]}
        /\ running_' = running_
    BY <1>4 DEF Push, controlVars
  <2>2. mine[c] \notin task_queue_
    BY <1>4 DEF OnePlace, Push, Pushing
  <2>3. Cardinality(task_queue_') = Cardinality(task_queue_) + 1
    BY <2>1, <2>2, Finiteness, Gains
  <2>4. Waiting' = Waiting /\ Awake' = Awake
    BY <1>4, ClientMoves
  <2>5. Cardinality(Notifying') = Cardinality(Notifying) + 1
    BY <1>4, ClientMoves, Finiteness, Gains
  <2> QED  BY <1>0, <2>1, <2>3, <2>4, <2>5
<1>5. ASSUME NEW c \in Clients, NotifyOne(c)  PROVE NoLostSubmission'
  <2>1. UNCHANGED <<task_queue_, running_>>
    BY <1>5 DEF NotifyOne, queueVars, controlVars
  <2>2. Cardinality(Notifying') = Cardinality(Notifying) - 1
    BY <1>5, ClientMoves, Finiteness, Loses
  <2>3. CASE Waiting' = {}
    BY <2>3
  <2>4. CASE \E w \in Workers : w \notin Awake /\ Awake' = Awake \cup {w}
    <3>1. Cardinality(Awake') = Cardinality(Awake) + 1
      BY <2>4, Finiteness, Gains
    <3>2. Waiting # {}
      BY <1>5, <2>4 DEF NotifyOne, Awake
    <3> QED  BY <1>0, <2>1, <2>2, <3>1, <3>2
  <2> QED  BY <1>5, <2>3, <2>4, ClientMoves
<1>6. ASSUME NEW t \in TaskIds, CancelTask(t)  PROVE NoLostSubmission'
  BY <1>1, <1>6
  DEF CancelTask, workerVars, clientVars, controlVars, Waiting, InState, Notifying, Awake
<1>7. ASSUME NEW w \in Workers, Wait(w) \/ Quit(w)  PROVE NoLostSubmission'
  <2>1. CASE Wait(w)
    <3>1. task_queue_' = {} /\ Notifying' = Notifying
      BY <2>1, WorkerMoves DEF Wait, queueVars, WorkerStep
    <3>2. Awake' = Awake \ {w} /\ w \in Awake
      BY <2>1 DEF Wait, Awake, TypeOK
    <3>3. Cardinality(task_queue_') = 0 /\ Cardinality(Awake') \in Nat
      BY <3>1, <3>2, FS_EmptySet, FS_RemoveElement, FS_CardinalityType, Finiteness
    <3> QED  BY <1>0, <3>1, <3>3
  <2>2. CASE Quit(w)
    BY <2>2 DEF Quit, controlVars
  <2> QED  BY <1>7, <2>1, <2>2
<1>8. ASSUME NEW w \in Workers, LoopTest(w) \/ DropTask(w) \/ FinishExecute(w)
               \/ CountCompleted(w)
      PROVE  NoLostSubmission'
  <2>1. running_' = running_ /\ Notifying' = Notifying
    BY <1>8, WorkerMoves DEF WorkerStep, LoopTest, DropTask, FinishExecute, CountCompleted,
                            controlVars
  <2>2. running_ => Awake' = Awake
    BY <1>8, WorkerMoves DEF WorkerStep
  <2>3. running_ => Waiting' = Waiting
    BY <1>8 DEF LoopTest, DropTask, FinishExecute, CountCompleted, Waiting, InState, TypeOK
  <2>4. Cardinality(task_queue_') <= Cardinality(task_queue_)
    <3>1. task_queue_' \in SUBSET task_queue_
      BY <1>8 DEF LoopTest, DropTask, FinishExecute, CountCompleted, queueVars
    <3> QED  BY <3>1, Finiteness, FS_Subset
  <2>5. Cardinality(task_queue_') \in Nat
    <3>1. task_queue_' \in SUBSET task_queue_
      BY <1>8 DEF LoopTest, DropTask, FinishExecute, CountCompleted, queueVars
    <3> QED  BY <3>1, Finiteness, FS_Subset, FS_CardinalityType
  <2> QED  BY <1>0, <2>1, <2>2, <2>3, <2>4, <2>5
<1>9. ASSUME NEW w \in Workers, PopTask(w)  PROVE NoLostSubmission'
  <2>1. PICK t \in task_queue_ : task_queue_' = task_queue_ \ {t}
    BY <1>9 DEF PopTask, Top
  <2>2. Cardinality(task_queue_') = Cardinality(task_queue_) - 1
    BY <2>1, Finiteness, Loses
  <2>3. Cardinality(Awake') = Cardinality(Awake) - 1 /\ Notifying' = Notifying
    BY <1>9, WorkerMoves, Finiteness, Loses DEF WorkerStep
  <2>4. Waiting' = Waiting /\ running_' = running_
    BY <1>9 DEF PopTask, Waiting, InState, TypeOK, controlVars
  <2> QED  BY <1>0, <2>2, <2>3, <2>4
<1>10. ASSUME NEW w \in Workers, SpuriousWake(w) \/ Deliver(w)  PROVE NoLostSubmission'
  <2>1. UNCHANGED <<task_queue_, running_>>
    BY <1>10 DEF SpuriousWake, Deliver, queueVars, controlVars
  <2>2. Cardinality(Awake') = Cardinality(Awake) + 1 /\ Notifying' = Notifying
    BY <1>10, WorkerMoves, Finiteness, Gains DEF WorkerStep
  <2>3. Waiting' # {} => Waiting # {}
    BY <1>10 DEF SpuriousWake, Deliver, Waiting, InState, TypeOK
  <2> QED  BY <1>0, <2>1, <2>2, <2>3
<1>11. CASE UNCHANGED vars
  BY <1>1, <1>11
  DEF vars, queueVars, workerVars, clientVars, controlVars, Waiting, InState, Notifying, Awake
<1> QED
  BY <1>2, <1>3, <1>4, <1>5, <1>6, <1>7, <1>8, <1>9, <1>10, <1>11
  DEF Next, ClientStep, WorkerStep

-----------------------------------------------------------------------------

\* The inductive invariant: the counters need that tasks are in one place, and the
\* type of pending_count_ needs what it counts.
SolverInv == TypeOK /\ PendingExact /\ CountersConserve /\ OnePlace /\ NoLostSubmission

\* SolverInv holds along every behaviour.
LEMMA SolverInvariant == Spec => []SolverInv
<1>1. ASSUME Init  PROVE SolverInv
  <2> USE <1>1 DEF Init
  <2>1. TypeOK
    <3>1. (CHOOSE p \in Priorities : TRUE) \in Priorities
      OBVIOUS
    <3>2. priority \in [TaskIds -> Priorities] /\ next_task_id_ \in 1..(MaxTasks + 1)
      BY <3>1
    <3>4. running_ \in BOOLEAN /\ ~running_
      BY Zenon
    <3>5. \A w \in Workers : Stopped <=> worker[w] = "none"
      BY <3>4 DEF Stopped
    <3>3. /\ worker \in [Workers -> WorkerStates] /\ holding \in [Workers -> TaskIds \cup {0}]
          /\ client \in [Clients -> ClientStates] /\ mine \in [Clients -> TaskIds \cup {0}]
          /\ sync \in [Clients -> BOOLEAN] /\ delivered \in [TaskIds -> Nat]
      BY DEF WorkerStates, ClientStates
    <3> QED  BY <3>1, <3>2, <3>3, <3>4, <3>5 DEF TypeOK
  <2>2. Executing = {} /\ Counting = {} /\ Pushing = {} /\ Waiting = {}
    BY DEF Executing, Counting, Pushing, Waiting, InState
  <2>3. PendingExact /\ CountersConserve /\ NoLostSubmission
    BY <2>2, FS_EmptySet DEF PendingExact, CountersConserve, NoLostSubmission
  <2>4. OnePlace
    BY <2>2 DEF OnePlace, Held, TaskIds
  <2> QED  BY <2>1, <2>3, <2>4 DEF SolverInv
<1>2. SolverInv /\ [Next]_vars => SolverInv'
  BY TypeStep, PendingStep, CountersStep, OnePlaceStep, NoLostStep DEF SolverInv
<1> QED  BY <1>1, <1>2, PTL DEF Spec

\* The ranges of the solver's variables, and the life of its threads.
THEOREM TypeCorrect == Spec => []TypeOK
<1>1. SolverInv => TypeOK
  BY DEF SolverInv
<1> QED  BY <1>1, SolverInvariant, PTL

\* get_pending_count() is the number of tasks queued or executing at all times.
THEOREM PendingIsExact == Spec => []PendingExact
<1>1. SolverInv => PendingExact
  BY DEF SolverInv
<1> QED  BY <1>1, SolverInvariant, PTL

\* Every id handed out is accounted for by the two counters.
THEOREM CountersAreConserved == Spec => []CountersConserve
<1>1. SolverInv => CountersConserve
  BY DEF SolverInv
<1> QED  BY <1>1, SolverInvariant, PTL

\* No task is executed by two workers or delivered twice.
THEOREM TaskInOnePlace == Spec => []OnePlace
<1>1. SolverInv => OnePlace
  BY DEF SolverInv
<1> QED  BY <1>1, SolverInvariant, PTL

\* Of a running solver's workers none sleeps next to a task nobody will fetch.
THEOREM NoSubmissionLost == Spec => []NoLostSubmission
<1>1. SolverInv => NoLostSubmission
  BY DEF SolverInv
<1> QED  BY <1>1, SolverInvariant, PTL

\* A stopped solver delivers nothing: it has no worker left.
THEOREM QuietAfterStop == Spec => QuietWhenStopped
<1>1. TypeOK /\ [Next]_vars => [Stopped => delivered' = delivered]_vars
  <2> SUFFICES ASSUME TypeOK, Next, Stopped  PROVE delivered' = delivered
    BY DEF vars
  <2>1. \A w \in Workers : ~Deliver(w)
    BY DEF Deliver, TypeOK
  <2> QED
    BY <2>1 DEF Next, ClientStep, WorkerStep, Start, StopFlag, StopNotifyAll, StopJoin,
       TakeId, Push, NotifyOne, SyncReturn, CancelTask, LoopTest, Wait, Quit, PopTask,
       DropTask, SpuriousWake, FinishExecute, CountCompleted
<1> QED  BY <1>1, TypeCorrect, PTL DEF Spec, QuietWhenStopped

-----------------------------------------------------------------------------

\* A task's stage is decided by the one place it is in.
LEMMA Stages ==
  ASSUME OnePlace, NEW t \in TaskIds
  PROVE  /\ StageOf(t) = "queued" <=> t \in task_queue_
         /\ StageOf(t) = "running" <=> t \in Held
         /\ StageOf(t) = "delivered" <=> t \notin task_queue_ \cup Held /\ delivered[t] > 0
         /\ StageOf(t) = "dropped" <=>
              t \notin task_queue_ \cup Held /\ ~(delivered[t] > 0) /\ Dropped(t)
         /\ StageOf(t) \in Pool!Stages
<1>1. /\ t \in task_queue_ => t \notin Held /\ ~(delivered[t] > 0)
      /\ t \in Held => ~(delivered[t] > 0)
      /\ Dropped(t) => t \notin task_queue_ /\ t \notin Held /\ ~(delivered[t] > 0)
  BY DEF OnePlace, Dropped
<1>2. t \in task_queue_ => StageOf(t) = "queued"
  BY <1>1 DEF StageOf
<1>3. t \in Held => StageOf(t) = "running"
  BY <1>1 DEF StageOf
<1>4. t \notin task_queue_ /\ t \notin Held /\ delivered[t] > 0 => StageOf(t) = "delivered"
  BY <1>1 DEF StageOf
<1>5. Dropped(t) => StageOf(t) = "dropped"
  BY <1>1 DEF StageOf
<1>6. t \notin task_queue_ /\ t \notin Held /\ ~(delivered[t] > 0) /\ ~Dropped(t)
        => StageOf(t) = "new"
  BY <1>1 DEF StageOf
<1> QED  BY <1>1, <1>2, <1>3, <1>4, <1>5, <1>6 DEF Pool!Stages

\* The same after a step, for the stages a task can enter.
LEMMA NextStages ==
  ASSUME OnePlace', NEW t \in TaskIds
  PROVE  /\ t \in task_queue_' => StageOf(t)' = "queued"
         /\ t \in Held' => StageOf(t)' = "running"
         /\ t \notin task_queue_' /\ t \notin Held' /\ delivered'[t] > 0
              => StageOf(t)' = "delivered"
         /\ Dropped(t)' => StageOf(t)' = "dropped"
<1>1. /\ t \in task_queue_' => t \notin Held' /\ ~(delivered'[t] > 0)
      /\ t \in Held' => ~(delivered'[t] > 0)
      /\ Dropped(t)' => t \notin task_queue_' /\ t \notin Held' /\ ~(delivered'[t] > 0)
  BY DEF OnePlace, Dropped
<1>2. t \in task_queue_' => StageOf(t)' = "queued"
  BY <1>1 DEF StageOf
<1>3. t \in Held' => StageOf(t)' = "running"
  BY <1>1 DEF StageOf
<1>4. t \notin task_queue_' /\ t \notin Held' /\ delivered'[t] > 0
        => StageOf(t)' = "delivered"
  BY <1>1 DEF StageOf
<1>5. Dropped(t)' => StageOf(t)' = "dropped"
  BY <1>1 DEF StageOf
<1> QED  BY <1>2, <1>3, <1>4, <1>5

\* A task whose place does not change keeps its stage.
LEMMA SameStage ==
  ASSUME NEW t \in TaskIds,
         t \in task_queue_' <=> t \in task_queue_, t \in Held' <=> t \in Held,
         delivered'[t] = delivered[t], Dropped(t)' <=> Dropped(t)
  PROVE  StageOf(t)' = StageOf(t)
BY DEF StageOf

\* Each step of the solver is a step of the task pool or leaves it alone: a push
\* submits, a pop begins or drops the most urgent task, a delivery delivers.
LEMMA PoolStep ==
  ASSUME TypeOK, OnePlace, OnePlace', [Next]_vars
  PROVE  [Pool!PoolNext]_(Pool!poolVars)
<1> DEFINE stage == [t \in TaskIds |-> StageOf(t)]
<1> USE DEF Pool!poolVars
<1>0. /\ next_task_id_ \in Nat
      /\ \A t \in TaskIds : t \in Nat \ {0} /\ delivered[t] \in Nat
  BY DEF TypeOK, TaskIds
<1>1. ASSUME task_queue_' = task_queue_, Held' = Held, delivered' = delivered,
             \A t \in TaskIds : Dropped(t)' <=> Dropped(t)
      PROVE  stage' = stage
  BY <1>1, SameStage
<1>2. ASSUME UNCHANGED <<task_queue_, holding, delivered, next_task_id_, client, mine>>
      PROVE  stage' = stage
  BY <1>1, <1>2 DEF Held, Dropped, Pushing
<1>3. CASE Start \/ StopFlag \/ StopNotifyAll \/ StopJoin
  BY <1>2, <1>3
  DEF Start, StopFlag, StopNotifyAll, StopJoin, queueVars, workerVars, clientVars
<1>4. ASSUME NEW c \in Clients, TakeId(c)  PROVE UNCHANGED Pool!poolVars
  <2>1. /\ UNCHANGED <<task_queue_, priority, cancelled_tasks_, holding, delivered>>
        /\ next_task_id_' = next_task_id_ + 1
        /\ mine' = [mine EXCEPT ![c] = next_task_id_]
        /\ client[c] = "idle" /\ client' = [client EXCEPT ![c] = "push"]
    BY <1>4 DEF TakeId, queueVars, workerVars
  <2>2. Pushing' = Pushing \cup {c} /\ c \notin Pushing
    BY <2>1 DEF Pushing, TypeOK
  <2>3. {mine'[d] : d \in Pushing'} = {mine[d] : d \in Pushing} \cup {next_task_id_}
    BY <2>1, <2>2 DEF Pushing, TypeOK
  <2>4. \A t \in TaskIds : Dropped(t)' <=> Dropped(t)
    BY <1>0, <2>1, <2>3 DEF Dropped, Held
  <2>5. stage' = stage
    BY <1>1, <2>1, <2>4 DEF Held
  <2> QED  BY <2>1, <2>5
<1>5. ASSUME NEW c \in Clients, Push(c)  PROVE Pool!PoolNext
  <2>2. PICK t \in TaskIds : t = mine[c]
    BY <1>5 DEF Push, TypeOK
  <2>1. /\ task_queue_' = task_queue_ \cup {t}
        /\ \E p \in Priorities : priority' = [priority EXCEPT ![t] = p]
        /\ UNCHANGED <<cancelled_tasks_, holding, delivered, next_task_id_, mine>>
        /\ c \in Pushing /\ Pushing' = Pushing \ {c}
    BY <1>5, <2>2 DEF Push, workerVars, Pushing, TypeOK
  <2>3. Held' = Held
    BY <2>1 DEF Held
  <2>4. StageOf(t) = "new"
    <3>1. t \notin task_queue_ \cup Held /\ delivered[t] = 0
      BY <2>1, <2>2 DEF OnePlace
    <3>2. ~Dropped(t)
      BY <2>1, <2>2 DEF Dropped
    <3> QED  BY <3>1, <3>2 DEF StageOf
  <2>5. StageOf(t)' = "queued"
    BY <2>1, <2>2, NextStages
  <2>6. ASSUME NEW u \in TaskIds, u # t  PROVE StageOf(u)' = StageOf(u)
    <3>1. u \in {mine'[d] : d \in Pushing'} <=> u \in {mine[d] : d \in Pushing}
      BY <2>1, <2>2, <2>6
    <3>2. Dropped(u)' <=> Dropped(u)
      BY <2>1, <2>3, <2>6, <3>1 DEF Dropped
    <3>3. /\ u \in task_queue_' <=> u \in task_queue_
          /\ u \in Held' <=> u \in Held
          /\ delivered'[u] = delivered[u]
      BY <2>1, <2>3, <2>6
    <3> QED  BY <2>6, <3>2, <3>3, SameStage
  <2>7. stage' = [stage EXCEPT ![t] = "queued"] /\ stage[t] = "new"
    BY <2>2, <2>4, <2>5, <2>6
  <2>8. Pool!Submit(t)
    BY <2>1, <2>7 DEF Pool!Submit
  <2> QED  BY <2>2, <2>8 DEF Pool!PoolNext
<1>6. ASSUME NEW c \in Clients, NotifyOne(c) \/ SyncReturn(c)
      PROVE  UNCHANGED Pool!poolVars
  <2>1. /\ UNCHANGED <<task_queue_, priority, cancelled_tasks_, holding, delivered,
                       next_task_id_>>
        /\ \/ mine' = mine
           \/ mine' = [mine EXCEPT ![c] = 0]
        /\ \/ client' = [client EXCEPT ![c] = "idle"]
           \/ client' = [client EXCEPT ![c] = "blocked"]
        /\ client[c] # "push"
    BY <1>6 DEF NotifyOne, SyncReturn, AfterNotify, Return, queueVars, workerVars
  <2>2. Pushing' = Pushing /\ \A d \in Pushing : mine'[d] = mine[d]
    BY <2>1 DEF Pushing, TypeOK
  <2>3. \A t \in TaskIds : Dropped(t)' <=> Dropped(t)
    BY <2>1, <2>2 DEF Dropped, Held
  <2>4. stage' = stage
    BY <1>1, <2>1, <2>3 DEF Held
  <2> QED  BY <2>1, <2>4
<1>7. ASSUME NEW t \in TaskIds, CancelTask(t)  PROVE Pool!PoolNext
  <2>1. stage' = stage
    BY <1>2, <1>7 DEF CancelTask, workerVars, clientVars
  <2>2. Pool!RequestCancel(t)
    BY <1>7, <2>1 DEF Pool!RequestCancel, CancelTask
  <2> QED  BY <2>2 DEF Pool!PoolNext
<1>8. ASSUME NEW w \in Workers,
             LoopTest(w) \/ Wait(w) \/ Quit(w) \/ SpuriousWake(w) \/ FinishExecute(w)
               \/ CountCompleted(w)
      PROVE  UNCHANGED Pool!poolVars
  BY <1>2, <1>8
  DEF LoopTest, Wait, Quit, SpuriousWake, FinishExecute, CountCompleted, queueVars, clientVars
<1>9. Pool!MostUrgent = Top
  <2>1. Pool!Queued = task_queue_
    BY Stages DEF Pool!Queued, TypeOK
  <2> QED  BY <2>1 DEF Pool!MostUrgent, Top, TypeOK
<1>10. ASSUME NEW w \in Workers, PopTask(w)  PROVE Pool!PoolNext
  <2>1. PICK t \in Top \ cancelled_tasks_ : /\ task_queue_' = task_queue_ \ {t}
                                            /\ holding' = [holding EXCEPT ![w] = t]
    BY <1>10 DEF PopTask
  <2>2. /\ UNCHANGED <<priority, cancelled_tasks_, client, mine, delivered, next_task_id_>>
        /\ holding[w] = 0
    BY <1>10 DEF PopTask, clientVars, TypeOK
  <2>3. t \in task_queue_ /\ t \in TaskIds
    BY DEF Top, TypeOK
  <2>4. \A u \in TaskIds : u \in Held' <=> u \in Held \/ u = t
    BY <1>0, <2>1, <2>2, <2>3 DEF Held, TypeOK
  <2>5. StageOf(t)' = "running"
    BY <2>3, <2>4, NextStages
  <2>6. ASSUME NEW u \in TaskIds, u # t  PROVE StageOf(u)' = StageOf(u)
    <3>1. Dropped(u)' <=> Dropped(u)
      BY <2>1, <2>2, <2>4, <2>6 DEF Dropped, Pushing
    <3> QED  BY <2>1, <2>2, <2>4, <2>6, <3>1, SameStage
  <2>7. stage' = [stage EXCEPT ![t] = "running"]
    BY <2>3, <2>5, <2>6
  <2>8. Pool!Begin(t)
    BY <1>9, <2>1, <2>2, <2>7 DEF Pool!Begin
  <2> QED  BY <2>3, <2>8 DEF Pool!PoolNext
<1>11. ASSUME NEW w \in Workers, DropTask(w)  PROVE Pool!PoolNext
  <2>1. PICK t \in Top \cap cancelled_tasks_ :
              /\ task_queue_' = task_queue_ \ {t}
              /\ cancelled_tasks_' = cancelled_tasks_ \ {t}
    BY <1>11 DEF DropTask
  <2>2. UNCHANGED <<priority, client, mine, delivered, next_task_id_, holding>>
    BY <1>11 DEF DropTask, clientVars
  <2>3. t \in task_queue_ /\ t \in TaskIds /\ Held' = Held
    BY <2>2 DEF Top, TypeOK, Held
  <2>4. StageOf(t)' = "dropped"
    <3>1. t \notin Held /\ delivered[t] = 0 /\ t < next_task_id_
      BY <1>0, <2>3 DEF OnePlace
    <3>2. t \notin {mine[c] : c \in Pushing}
      BY <2>3 DEF OnePlace, Pushing
    <3>3. Dropped(t)'
      BY <2>1, <2>2, <2>3, <3>1, <3>2 DEF Dropped, Pushing
    <3> QED  BY <2>3, <3>3, NextStages
  <2>5. ASSUME NEW u \in TaskIds, u # t  PROVE StageOf(u)' = StageOf(u)
    <3>1. Dropped(u)' <=> Dropped(u)
      BY <2>1, <2>2, <2>3, <2>5 DEF Dropped, Pushing
    <3> QED  BY <2>1, <2>2, <2>3, <2>5, <3>1, SameStage
  <2>6. stage' = [stage EXCEPT ![t] = "dropped"]
    BY <2>3, <2>4, <2>5
  <2>7. Pool!Drop(t)
    BY <1>9, <2>1, <2>2, <2>6 DEF Pool!Drop
  <2> QED  BY <2>3, <2>7 DEF Pool!PoolNext
<1>12. ASSUME NEW w \in Workers, Deliver(w)  PROVE Pool!PoolNext
  <2>2. PICK t \in TaskIds : t = holding[w]
    BY <1>12 DEF Deliver, TypeOK
  <2>1. /\ UNCHANGED <<task_queue_, priority, cancelled_tasks_, client, mine,
                       next_task_id_>>
        /\ holding' = [holding EXCEPT ![w] = 0]
        /\ delivered' = [delivered EXCEPT ![t] = delivered[t] + 1]
    BY <1>12, <2>2 DEF Deliver, queueVars, clientVars
  <2>3. t \in Held /\ t \notin task_queue_ /\ delivered[t] = 0
    BY <2>2 DEF OnePlace, Held
  <2>4. delivered'[t] = 1 /\ \A u \in TaskIds : u # t => delivered'[u] = delivered[u]
    BY <2>1, <2>2, <2>3 DEF TypeOK
  <2>5. \A u \in TaskIds : u \in Held' <=> u \in Held /\ u # t
    <3>1. \A v \in Workers : v # w => holding'[v] = holding[v] /\ holding[v] # t
      BY <1>0, <2>1, <2>2 DEF OnePlace, TypeOK
    <3>2. holding'[w] = 0
      BY <2>1 DEF TypeOK
    <3> QED  BY <1>0, <2>2, <3>1, <3>2 DEF Held
  <2>6. StageOf(t) = "running" /\ StageOf(t)' = "delivered"
    <3>1. StageOf(t) = "running"
      BY <2>3, Stages
    <3>2. t \notin task_queue_' /\ t \notin Held' /\ delivered'[t] > 0
      BY <2>1, <2>2, <2>3, <2>4, <2>5
    <3> QED  BY <2>2, <3>1, <3>2, NextStages
  <2>7. ASSUME NEW u \in TaskIds, u # t  PROVE StageOf(u)' = StageOf(u)
    <3>1. Dropped(u)' <=> Dropped(u)
      BY <2>1, <2>4, <2>5, <2>7 DEF Dropped, Pushing
    <3>2. /\ u \in task_queue_' <=> u \in task_queue_
          /\ u \in Held' <=> u \in Held
          /\ delivered'[u] = delivered[u]
      BY <2>1, <2>4, <2>5, <2>7
    <3> QED  BY <2>7, <3>1, <3>2, SameStage
  <2>8. stage' = [stage EXCEPT ![t] = "delivered"] /\ stage[t] = "running"
    BY <2>2, <2>6, <2>7
  <2>9. Pool!DeliverResult(t)
    BY <2>1, <2>8 DEF Pool!DeliverResult
  <2> QED  BY <2>2, <2>9 DEF Pool!PoolNext
<1>13. CASE UNCHANGED vars
  BY <1>2, <1>13 DEF vars, queueVars, workerVars, clientVars
<1>14. CASE Start \/ StopFlag \/ StopNotifyAll \/ StopJoin
  BY <1>3, <1>14
  DEF Start, StopFlag, StopNotifyAll, StopJoin, queueVars
<1> QED
  BY <1>4, <1>5, <1>6, <1>7, <1>8, <1>10, <1>11, <1>12, <1>13, <1>14
  DEF Next, ClientStep, WorkerStep

\* The solver, its threads, notifications and counters hidden, is the task pool: it
\* starts a task at most once, the most urgent first, delivers a result at most once
\* and never starts a task that was cancelled while it was queued.
THEOREM RefinesPool == Spec => ImplementsPool
<1>1. Init => Pool!PoolInit
  <2> SUFFICES ASSUME Init  PROVE Pool!PoolInit
    OBVIOUS
  <2>1. ASSUME NEW t \in TaskIds  PROVE StageOf(t) = "new"
    BY DEF Init, StageOf, Held, Dropped, TaskIds
  <2>2. (CHOOSE p \in Priorities : TRUE) \in Priorities
    OBVIOUS
  <2> QED  BY <2>1, <2>2 DEF Init, Pool!PoolInit
<1>2. SolverInv /\ SolverInv' /\ [Next]_vars => [Pool!PoolNext]_(Pool!poolVars)
  BY PoolStep DEF SolverInv
<1> QED  BY <1>1, <1>2, SolverInvariant, PTL DEF Spec, ImplementsPool, Pool!PoolSpec

=============================================================================
