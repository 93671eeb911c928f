---------------------------- MODULE MessageQueue ----------------------------
(***************************************************************************)
(* MessageQueue<T> of backend/include/message_queue.h: a deque guarded by   *)
(* mutex_, a condition variable cv_ and an atomic running_ flag.            *)
(*                                                                          *)
(* push() holds the mutex while it drops the oldest item and appends the    *)
(* new one, and calls notify_one() only after unlocking: two actions.       *)
(* wait_pop() is condition_variable::wait_for with a predicate: the         *)
(* predicate is evaluated under the mutex, the thread then blocks (which    *)
(* releases the mutex), and it evaluates the predicate again each time it   *)
(* is notified, wakes spuriously or times out.  stop() writes running_ and  *)
(* calls notify_all() WITHOUT the mutex, so it can run between a consumer's *)
(* predicate and its blocking: the state in between is "parking".           *)
(*                                                                          *)
(* Items are the numbers of their pushes.  The consumers are worker loops   *)
(* that call wait_pop() (or try_pop()) again and again.                     *)
(***************************************************************************)
EXTENDS BoundedDeque, FiniteSets

CONSTANTS
    Producers,   \* threads that call push()
    Consumers,   \* threads that call wait_pop() and try_pop()
    NoThread,    \* the value of mutex_ when nobody holds it
    MaxPushes    \* bound on the number of pushes

ASSUME QueueAssumption ==
    /\ MaxPushes \in Nat
    /\ IsFiniteSet(Producers)
    /\ IsFiniteSet(Consumers)
    /\ NoThread \notin Consumers

VARIABLES
    queue_,      \* the deque, oldest item first
    running_,    \* the atomic flag, TRUE from the constructor to stop()
    mutex_,      \* the consumer that holds the mutex between two actions
    producer,    \* [Producers -> where it is in push()]
    consumer,    \* [Consumers -> where it is in wait_pop()]
    stopping,    \* TRUE between stop()'s store and its notify_all()
    pushed,      \* history: the number of pushes so far
    popped       \* history: the last item a consumer got, 0 before the first

vars == <<queue_, running_, mutex_, producer, consumer, stopping, pushed, popped>>

ProducerStates == {"idle", "notify"}
ConsumerStates == {"idle", "parking", "blocked", "woken", "timedout"}

Blocked   == {c \in Consumers : consumer[c] = "blocked"}
Woken     == {c \in Consumers : consumer[c] \in {"woken", "timedout"}}
Notifiers == {p \in Producers : producer[p] = "notify"}

Init ==
    /\ queue_ = <<>>
    /\ running_ = TRUE
    /\ mutex_ = NoThread
    /\ producer = [p \in Producers |-> "idle"]
    /\ consumer = [c \in Consumers |-> "idle"]
    /\ stopping = FALSE
    /\ pushed = 0
    /\ popped = 0

-----------------------------------------------------------------------------

\* push(), lines under the lock; running_ is not consulted.
Push(p) ==
    /\ producer[p] = "idle"
    /\ mutex_ = NoThread
    /\ pushed < MaxPushes
    /\ queue_' = Enqueue(queue_, pushed + 1)
    /\ pushed' = pushed + 1
    /\ producer' = [producer EXCEPT ![p] = "notify"]
    /\ UNCHANGED <<running_, mutex_, consumer, stopping, popped>>

\* Mutant: push() returns without notify_one().
NotifyNobody(p) ==
    /\ producer[p] = "notify"
    /\ producer' = [producer EXCEPT ![p] = "idle"]
    /\ UNCHANGED <<queue_, running_, mutex_, consumer, stopping, pushed, popped>>

\* push(), cv_.notify_one() after unlock: it wakes one blocked thread, if any.
NotifyOne(p) ==
    /\ producer[p] = "notify"
    /\ producer' = [producer EXCEPT ![p] = "idle"]
    /\ IF Blocked = {}
         THEN UNCHANGED consumer
         ELSE \E c \in Blocked : consumer' = [consumer EXCEPT ![c] = "woken"]
    /\ UNCHANGED <<queue_, running_, mutex_, stopping, pushed, popped>>

-----------------------------------------------------------------------------

\* front(), pop_front(), return true.
Pop(c) ==
    /\ queue_ # <<>>
    /\ popped' = Head(queue_)
    /\ queue_' = Tail(queue_)
    /\ consumer' = [consumer EXCEPT ![c] = "idle"]

\* try_pop(): one critical section; on an empty queue it changes nothing.
TryPop(c) ==
    /\ consumer[c] = "idle"
    /\ mutex_ = NoThread
    /\ Pop(c)
    /\ UNCHANGED <<running_, mutex_, producer, stopping, pushed>>

\* Mutant: a stopped queue hands out no more items.
WaitPopItemIfRunning(c) ==
    /\ consumer[c] \in {"idle", "woken", "timedout"}
    /\ mutex_ = NoThread
    /\ running_
    /\ Pop(c)
    /\ UNCHANGED <<running_, mutex_, producer, stopping, pushed>>

\* wait_pop() takes the mutex, on entry or after a wake-up or a timeout, and
\* finds an item.
WaitPopItem(c) ==
    /\ consumer[c] \in {"idle", "woken", "timedout"}
    /\ mutex_ = NoThread
    /\ Pop(c)
    /\ UNCHANGED <<running_, mutex_, producer, stopping, pushed>>

\* wait_pop() returns false on an empty queue: stopped, or timed out.  (Called on
\* an empty stopped queue it returns false at once and changes nothing.)
WaitPopFalse(c) ==
    /\ \/ consumer[c] = "timedout"
       \/ consumer[c] = "woken" /\ ~running_
    /\ mutex_ = NoThread
    /\ queue_ = <<>>
    /\ consumer' = [consumer EXCEPT ![c] = "idle"]
    /\ UNCHANGED <<queue_, running_, mutex_, producer, stopping, pushed, popped>>

\* The predicate is false: the consumer, still holding the mutex, will block.
WaitPopPark(c) ==
    /\ consumer[c] \in {"idle", "woken"}
    /\ mutex_ = NoThread
    /\ queue_ = <<>>
    /\ running_
    /\ mutex_' = c
    /\ consumer' = [consumer EXCEPT ![c] = "parking"]
    /\ UNCHANGED <<queue_, running_, producer, stopping, pushed, popped>>

\* It blocks on cv_, which releases the mutex.
Block(c) ==
    /\ consumer[c] = "parking"
    /\ mutex_' = NoThread
    /\ consumer' = [consumer EXCEPT ![c] = "blocked"]
    /\ UNCHANGED <<queue_, running_, producer, stopping, pushed, popped>>

\* A condition variable may wake a thread without a notification.
SpuriousWake(c) ==
    /\ consumer[c] = "blocked"
    /\ consumer' = [consumer EXCEPT ![c] = "woken"]
    /\ UNCHANGED <<queue_, running_, mutex_, producer, stopping, pushed, popped>>

\* Mutant: wait() instead of wait_for(): no timeout ever ends the wait.
NeverTimeout(c) == FALSE /\ UNCHANGED vars

\* timeout_ms elapsed while the consumer was blocked.
Timeout(c) ==
    /\ consumer[c] = "blocked"
    /\ consumer' = [consumer EXCEPT ![c] = "timedout"]
    /\ UNCHANGED <<queue_, running_, mutex_, producer, stopping, pushed, popped>>

-----------------------------------------------------------------------------

\* stop(): the store, without the mutex.  stop() may be called again later.
StopFlag ==
    /\ ~stopping
    /\ running_' = FALSE
    /\ stopping' = TRUE
    /\ UNCHANGED <<queue_, mutex_, producer, consumer, pushed, popped>>

\* stop(): cv_.notify_all(), without the mutex: a parking consumer misses it.
StopNotifyAll ==
    /\ stopping
    /\ stopping' = FALSE
    /\ consumer' = [c \in Consumers |->
                      IF consumer[c] = "blocked" THEN "woken" ELSE consumer[c]]
    /\ UNCHANGED <<queue_, running_, mutex_, producer, pushed, popped>>

ConsumerStep(c) ==
    \/ WaitPopItem(c)
    \/ WaitPopFalse(c)
    \/ WaitPopPark(c)
    \/ Block(c)

Next ==
    \/ \E p \in Producers : Push(p) \/ NotifyOne(p)
    \/ \E c \in Consumers :
          \/ TryPop(c)
          \/ ConsumerStep(c)
          \/ SpuriousWake(c)
          \/ Timeout(c)
    \/ StopFlag
    \/ StopNotifyAll

Spec == Init /\ [][Next]_vars

\* The scheduler runs every thread that can run, a mutex is granted in the end
\* and wait_for() does time out.  Nobody has to push, stop or wake spuriously.
\* Popping needs strong fairness: the other threads take the mutex in between.
Fairness ==
    /\ \A p \in Producers : WF_vars(NotifyOne(p))
    /\ \A c \in Consumers : SF_vars(ConsumerStep(c)) /\ WF_vars(Timeout(c))
    /\ WF_vars(StopNotifyAll)

FairSpec == Spec /\ Fairness

-----------------------------------------------------------------------------

\* The range of every variable, and the discipline of the mutex: between two
\* actions it is held by the parking consumer and by nobody else.
TypeOK ==
    /\ queue_ \in Seq(1..MaxPushes)
    /\ running_ \in BOOLEAN
    /\ mutex_ \in Consumers \cup {NoThread}
    /\ producer \in [Producers -> ProducerStates]
    /\ consumer \in [Consumers -> ConsumerStates]
    /\ stopping \in BOOLEAN
    /\ pushed \in 0..MaxPushes
    /\ popped \in 0..MaxPushes
    /\ \A c \in Consumers : consumer[c] = "parking" <=> mutex_ = c

\* The queue holds exactly the newest pushes, in the order of push(), never
\* more than capacity_ of them, and every item a consumer has got is older than
\* all of them: overflow loses the oldest items only, and no item is delivered
\* twice or out of order however many producers and consumers race.
NewestInOrder ==
    /\ Len(queue_) <= Capacity
    /\ Len(queue_) <= pushed
    /\ \A i \in DOMAIN queue_ : queue_[i] = pushed - Len(queue_) + i
    /\ popped <= pushed - Len(queue_)

\* No push is forgotten: while a consumer is blocked, every item in the queue
\* has a notify_one() still to come or a consumer already woken for it, although
\* push() notifies after it has released the mutex.
NoLostPush ==
    Blocked # {} => Len(queue_) <= Cardinality(Notifiers) + Cardinality(Woken)

\* A consumer that found the predicate false parks on an empty queue: the mutex
\* it holds keeps every producer out until it has blocked.
ParkingSeesEmpty == mutex_ # NoThread => queue_ = <<>>

\* The inductive invariant: NoLostPush needs ParkingSeesEmpty, because a consumer
\* that blocks adds itself to Blocked without anybody being about to wake it.
QueueInv == TypeOK /\ NewestInOrder /\ ParkingSeesEmpty /\ NoLostPush

\* A consumer that is inside wait_pop() when the queue is stopped gets out of
\* it, even if stop() ran between its predicate and its blocking, so a service's
\* stop() can join its worker.
StopReleasesConsumers ==
    \A c \in Consumers :
        (~running_ /\ consumer[c] \in {"parking", "blocked"}) ~> (consumer[c] = "idle")

\* Every item is popped or dropped in the end, as long as a consumer loop runs.
ItemsLeave ==
    \A n \in 1..MaxPushes : (\E i \in DOMAIN queue_ : queue_[i] = n)
                            ~> (\A i \in DOMAIN queue_ : queue_[i] # n)

-----------------------------------------------------------------------------

\* The deque is a window over the numbered pushes.
Window == INSTANCE SlidingWindow WITH
    left  <- pushed - Len(queue_),
    right <- pushed,
    taken <- popped,
    open  <- running_

\* MessageQueue implements the sliding window: push, pop and stop are its
\* steps, the locking, waking and timing-out steps are invisible.
ImplementsWindow == Window!WindowSpec

=============================================================================
