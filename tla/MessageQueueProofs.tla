------------------------- MODULE MessageQueueProofs -------------------------
(***************************************************************************)
(* Proofs about MessageQueue for any number of producers and consumers, any *)
(* capacity of at least 1 and any number of pushes.                         *)
(***************************************************************************)
EXTENDS MessageQueue, BoundedDequeProofs, FiniteSetTheorems

\* Mutex and control-state bookkeeping is preserved by every step, so the ranges
\* of the variables and the lock discipline hold in every reachable state.
THEOREM TypeCorrect == Spec => []TypeOK
<1> USE QueueAssumption, CapacityAssumption DEF QueueAssumption, CapacityAssumption
<1>1. ASSUME Init  PROVE TypeOK
  <2>1. queue_ \in Seq(1..MaxPushes)
    BY <1>1, EmptySeq DEF Init
  <2>2. running_ \in BOOLEAN /\ stopping \in BOOLEAN
    BY <1>1, Zenon DEF Init
  <2>3. /\ mutex_ \in Consumers \cup {NoThread}
        /\ producer \in [Producers -> ProducerStates]
        /\ consumer \in [Consumers -> ConsumerStates]
    BY <1>1 DEF Init, ProducerStates, ConsumerStates
  <2>4. pushed \in 0..MaxPushes /\ popped \in 0..MaxPushes
    BY <1>1 DEF Init
  <2>5. \A c \in Consumers : consumer[c] = "parking" <=> mutex_ = c
    BY <1>1 DEF Init
  <2> QED  BY <2>1, <2>2, <2>3, <2>4, <2>5 DEF TypeOK
<1>2. ASSUME TypeOK, [Next]_vars  PROVE TypeOK'
  <2> USE <1>2 DEF TypeOK, ProducerStates, ConsumerStates
  <2>1. ASSUME NEW p \in Producers, Push(p)  PROVE TypeOK'
    <3>1. Enqueue(queue_, pushed + 1) \in Seq(1..MaxPushes)
      BY <2>1, EnqueueProperties DEF Push
    <3> QED  BY <2>1, <3>1 DEF Push
  <2>2. ASSUME NEW p \in Producers, NotifyOne(p)  PROVE TypeOK'
    BY <2>2 DEF NotifyOne, Blocked
  <2>3. ASSUME NEW c \in Consumers, TryPop(c) \/ WaitPopItem(c)  PROVE TypeOK'
    <3>1. Pop(c) /\ mutex_ = NoThread
      BY <2>3 DEF TryPop, WaitPopItem
    <3>2. Head(queue_) \in 1..MaxPushes /\ Tail(queue_) \in Seq(1..MaxPushes)
      BY <3>1 DEF Pop
    <3> QED  BY <2>3, <3>1, <3>2 DEF TryPop, WaitPopItem, Pop
  <2>4. ASSUME NEW c \in Consumers, WaitPopFalse(c)  PROVE TypeOK'
    BY <2>4 DEF WaitPopFalse
  <2>5. ASSUME NEW c \in Consumers, WaitPopPark(c)  PROVE TypeOK'
    BY <2>5 DEF WaitPopPark
  <2>6. ASSUME NEW c \in Consumers, Block(c)  PROVE TypeOK'
    BY <2>6 DEF Block
  <2>7. ASSUME NEW c \in Consumers, SpuriousWake(c) \/ Timeout(c)  PROVE TypeOK'
    BY <2>7 DEF SpuriousWake, Timeout
  <2>8. ASSUME StopFlag \/ StopNotifyAll  PROVE TypeOK'
    BY <2>8 DEF StopFlag, StopNotifyAll
  <2>9. ASSUME UNCHANGED vars  PROVE TypeOK'
    BY <2>9 DEF vars
  <2> QED
    BY <2>1, <2>2, <2>3, <2>4, <2>5, <2>6, <2>7, <2>8, <2>9, <1>2
    DEF Next, ConsumerStep
<1> QED  BY <1>1, <1>2, PTL DEF Spec

-----------------------------------------------------------------------------

\* The order and the capacity bound survive every step: only push() and pop touch
\* the deque.
LEMMA NewestInOrderStep ==
  ASSUME TypeOK, NewestInOrder, [Next]_vars
  PROVE  NewestInOrder'
<1> USE QueueAssumption, CapacityAssumption DEF QueueAssumption, CapacityAssumption
<1>0. /\ queue_ \in Seq(1..MaxPushes)
      /\ Len(queue_) \in Nat
      /\ pushed \in 0..MaxPushes
      /\ popped \in 0..MaxPushes
      /\ DOMAIN queue_ = 1..Len(queue_)
  BY DEF TypeOK
<1>1. CASE UNCHANGED <<queue_, pushed, popped>>
  BY <1>1 DEF NewestInOrder
<1>2. ASSUME NEW p \in Producers, Push(p)  PROVE NewestInOrder'
  <2>1. /\ queue_' = Enqueue(queue_, pushed + 1)
        /\ pushed + 1 \in 1..MaxPushes
        /\ pushed' = pushed + 1
        /\ popped' = popped
    BY <1>0, <1>2 DEF Push
  <2> DEFINE x == pushed + 1
             e == Enqueue(queue_, x)
  <2>2. /\ e \in Seq(1..MaxPushes)
        /\ Len(e) = IF Len(queue_) >= Capacity THEN Len(queue_) ELSE Len(queue_) + 1
        /\ \A i \in 1..Len(e) :
              e[i] = IF i = Len(e) THEN x ELSE queue_[i + (Len(queue_) + 1 - Len(e))]
    <3> DEFINE S == 1..MaxPushes
    <3>1. queue_ \in Seq(S) /\ x \in S
      BY <1>0, <2>1
    <3> HIDE DEF x, S
    <3>2. /\ e \in Seq(S)
          /\ Len(e) = IF Len(queue_) >= Capacity THEN Len(queue_) ELSE Len(queue_) + 1
          /\ \A i \in 1..Len(e) :
                e[i] = IF i = Len(e) THEN x ELSE queue_[i + (Len(queue_) + 1 - Len(e))]
      BY <3>1, EnqueueProperties
    <3> QED  BY <3>2 DEF S
  <2>3. queue_' = e
    BY <2>1
  <2> HIDE DEF e
  <2>6. /\ Len(e) \in Nat \ {0}
        /\ Len(e) <= Capacity
        /\ Len(e) = Len(queue_) \/ Len(e) = Len(queue_) + 1
        /\ x \in Nat
    <3>1. Len(e) = IF Len(queue_) >= Capacity THEN Len(queue_) ELSE Len(queue_) + 1
      BY <2>2
    <3>2. Len(queue_) <= Capacity /\ Len(queue_) \in Nat
      BY <1>0 DEF NewestInOrder
    <3>3. x \in Nat
      BY <2>1
    <3> QED  BY <3>1, <3>2, <3>3
  <2>4. ASSUME NEW i \in 1..Len(e)  PROVE e[i] = x - Len(e) + i
    <3>1. CASE i = Len(e)
      <4>1. e[i] = x
        BY <2>2, <3>1
      <4> HIDE DEF x
      <4> QED  BY <2>6, <3>1, <4>1
    <3>2. CASE i # Len(e)
      <4> DEFINE j == i + (Len(queue_) + 1 - Len(e))
      <4>1. j \in 1..Len(queue_)
        BY <1>0, <2>6, <3>2
      <4>2. e[i] = queue_[j]
        BY <2>2, <3>2
      <4>3. queue_[j] = pushed - Len(queue_) + j
        BY <1>0, <4>1 DEF NewestInOrder
      <4> QED  BY <1>0, <2>6, <4>1, <4>2, <4>3
    <3> QED  BY <3>1, <3>2
  <2>5. DOMAIN e = 1..Len(e)
    BY <2>2
  <2>7. pushed' = x /\ popped' = popped
    BY <2>1
  <2> HIDE DEF x
  <2>8. popped <= x - Len(e) /\ Len(e) <= x
    BY <1>0, <2>1, <2>6 DEF NewestInOrder, x
  <2> QED  BY <2>3, <2>4, <2>5, <2>6, <2>7, <2>8 DEF NewestInOrder
<1>3. ASSUME NEW c \in Consumers, TryPop(c) \/ WaitPopItem(c)  PROVE NewestInOrder'
  <2>1. /\ queue_ # <<>>
        /\ popped' = Head(queue_)
        /\ queue_' = Tail(queue_)
        /\ pushed' = pushed
    BY <1>3 DEF TryPop, WaitPopItem, Pop
  <2>2. /\ queue_' \in Seq(1..MaxPushes)
        /\ Len(queue_') = Len(queue_) - 1
        /\ \A i \in 1..Len(queue_') : queue_'[i] = queue_[i + 1]
        /\ popped' = queue_[1]
        /\ Len(queue_) >= 1
    BY <1>0, <2>1, HeadTailProperties, EmptySeq
  <2>3. DOMAIN queue_' = 1..Len(queue_')
    BY <2>2
  <2>4. ASSUME NEW i \in DOMAIN queue_'  PROVE queue_'[i] = pushed' - Len(queue_') + i
    <3>1. i + 1 \in DOMAIN queue_ /\ i \in 1..Len(queue_')
      BY <1>0, <2>2, <2>3
    <3>2. queue_[i + 1] = pushed - Len(queue_) + (i + 1)
      BY <3>1 DEF NewestInOrder
    <3> QED  BY <1>0, <2>1, <2>2, <3>1, <3>2
  <2>5. queue_[1] = pushed - Len(queue_) + 1
    BY <1>0, <2>2 DEF NewestInOrder
  <2> QED  BY <1>0, <2>1, <2>2, <2>4, <2>5 DEF NewestInOrder
<1> QED
  BY <1>1, <1>2, <1>3
  DEF Next, ConsumerStep, NotifyOne, WaitPopFalse, WaitPopPark, Block, SpuriousWake,
      Timeout, StopFlag, StopNotifyAll, vars

\* Nothing is pushed while a consumer that saw an empty queue holds the mutex.
LEMMA ParkingSeesEmptyStep ==
  ASSUME TypeOK, ParkingSeesEmpty, [Next]_vars
  PROVE  ParkingSeesEmpty'
BY DEF TypeOK, ParkingSeesEmpty, Next, ConsumerStep, Push, NotifyOne, TryPop, WaitPopItem,
       Pop, WaitPopFalse, WaitPopPark, Block, SpuriousWake, Timeout, StopFlag,
       StopNotifyAll, vars

\* The three thread sets are finite, so their cardinalities are natural numbers.
LEMMA ThreadSetsFinite ==
  ASSUME TypeOK
  PROVE  /\ IsFiniteSet(Notifiers) /\ Cardinality(Notifiers) \in Nat
         /\ IsFiniteSet(Woken) /\ Cardinality(Woken) \in Nat
         /\ Len(queue_) \in Nat
<1>1. Notifiers \in SUBSET Producers /\ Woken \in SUBSET Consumers
  BY DEF Notifiers, Woken
<1>2. IsFiniteSet(Producers) /\ IsFiniteSet(Consumers)
  BY QueueAssumption DEF QueueAssumption
<1> QED  BY <1>1, <1>2, FS_Subset, FS_CardinalityType DEF TypeOK

\* One notification per push is enough: each step that adds an item adds a
\* notifier, and each step that uses up a notifier or a woken consumer wakes
\* somebody, removes an item or finds the queue empty.
LEMMA NoLostPushStep ==
  ASSUME TypeOK, NewestInOrder, ParkingSeesEmpty, NoLostPush, [Next]_vars
  PROVE  NoLostPush'
<1>0. /\ IsFiniteSet(Notifiers) /\ Cardinality(Notifiers) \in Nat
      /\ IsFiniteSet(Woken) /\ Cardinality(Woken) \in Nat
      /\ Len(queue_) \in Nat
  BY ThreadSetsFinite
<1>1. ASSUME NEW p \in Producers, Push(p)  PROVE NoLostPush'
  <2>1. Notifiers' = Notifiers \cup {p} /\ p \notin Notifiers
    BY <1>1 DEF Push, Notifiers, TypeOK
  <2>2. Cardinality(Notifiers') = Cardinality(Notifiers) + 1
    BY <1>0, <2>1, FS_AddElement
  <2>3. Woken' = Woken /\ Blocked' = Blocked
    BY <1>1 DEF Push, Woken, Blocked
  <2>4. Len(queue_') \in {Len(queue_), Len(queue_) + 1}
    <3> DEFINE x == pushed + 1
    <3>1. x \in 1..MaxPushes /\ queue_ \in Seq(1..MaxPushes)
      BY <1>1, QueueAssumption DEF Push, TypeOK, QueueAssumption
    <3>2. queue_' = Enqueue(queue_, x)
      BY <1>1 DEF Push
    <3> HIDE DEF x
    <3> QED  BY <3>1, <3>2, EnqueueProperties
  <2> QED  BY <1>0, <2>2, <2>3, <2>4 DEF NoLostPush
<1>2. ASSUME NEW p \in Producers, NotifyOne(p)  PROVE NoLostPush'
  <2>1. CASE Blocked = {}
    BY <1>2, <2>1 DEF NotifyOne, NoLostPush, Blocked
  <2>2. CASE Blocked # {}
    <3>1. PICK c \in Blocked : consumer' = [consumer EXCEPT ![c] = "woken"]
      BY <1>2, <2>2 DEF NotifyOne
    <3>2. Notifiers' = Notifiers \ {p} /\ p \in Notifiers
      BY <1>2 DEF NotifyOne, Notifiers, TypeOK
    <3>3. Woken' = Woken \cup {c} /\ c \notin Woken
      BY <3>1 DEF Woken, Blocked, TypeOK
    <3>4. /\ Cardinality(Notifiers') = Cardinality(Notifiers) - 1
          /\ Cardinality(Woken') = Cardinality(Woken) + 1
      BY <1>0, <3>2, <3>3, FS_AddElement, FS_RemoveElement
    <3>5. queue_' = queue_
      BY <1>2 DEF NotifyOne
    <3> QED  BY <1>0, <2>2, <3>4, <3>5 DEF NoLostPush
  <2> QED  BY <2>1, <2>2
<1>3. ASSUME NEW c \in Consumers, TryPop(c) \/ WaitPopItem(c)  PROVE NoLostPush'
  <2>1. /\ consumer[c] # "blocked"
        /\ consumer' = [consumer EXCEPT ![c] = "idle"]
        /\ producer' = producer
        /\ queue_ # <<>>
        /\ queue_' = Tail(queue_)
    BY <1>3 DEF TryPop, WaitPopItem, Pop
  <2>2. Notifiers' = Notifiers /\ Blocked' = Blocked /\ Woken' = Woken \ {c}
    BY <2>1 DEF Notifiers, Blocked, Woken, TypeOK
  <2>3. Len(queue_') = Len(queue_) - 1
    BY <2>1, HeadTailProperties DEF TypeOK
  <2>4. /\ Cardinality(Woken') \in {Cardinality(Woken), Cardinality(Woken) - 1}
        /\ Cardinality(Notifiers') = Cardinality(Notifiers)
    BY <1>0, <2>2, FS_RemoveElement
  <2> QED  BY <1>0, <2>2, <2>3, <2>4 DEF NoLostPush
<1>4. ASSUME NEW c \in Consumers, WaitPopFalse(c) \/ WaitPopPark(c) \/ Block(c)
      PROVE  NoLostPush'
  <2>1. queue_' = <<>>
    BY <1>4, QueueAssumption
    DEF WaitPopFalse, WaitPopPark, Block, ParkingSeesEmpty, TypeOK, QueueAssumption
  <2>2. Len(queue_') = 0
    BY <2>1
  <2>3. Notifiers' = Notifiers
    BY <1>4 DEF WaitPopFalse, WaitPopPark, Block, Notifiers
  <2>4. Woken' = Woken \ {c}
    BY <1>4 DEF WaitPopFalse, WaitPopPark, Block, Woken, TypeOK
  <2>5. Cardinality(Notifiers') \in Nat /\ Cardinality(Woken') \in Nat
    BY <1>0, <2>3, <2>4, FS_RemoveElement, FS_CardinalityType
  <2> QED  BY <2>2, <2>5 DEF NoLostPush
<1>5. ASSUME NEW c \in Consumers, SpuriousWake(c) \/ Timeout(c)  PROVE NoLostPush'
  <2>1. /\ consumer[c] = "blocked"
        /\ Notifiers' = Notifiers
        /\ queue_' = queue_
    BY <1>5 DEF SpuriousWake, Timeout, Notifiers
  <2>2. Woken' = Woken \cup {c} /\ c \in Blocked /\ c \notin Woken
    BY <1>5, <2>1 DEF SpuriousWake, Timeout, Woken, Blocked, TypeOK
  <2>3. Cardinality(Woken') = Cardinality(Woken) + 1
    BY <1>0, <2>2, FS_AddElement
  <2> QED  BY <1>0, <2>1, <2>2, <2>3 DEF NoLostPush
<1>6. ASSUME StopNotifyAll  PROVE NoLostPush'
  BY <1>6 DEF StopNotifyAll, NoLostPush, Blocked
<1>7. ASSUME StopFlag \/ UNCHANGED vars  PROVE NoLostPush'
  BY <1>7 DEF StopFlag, vars, NoLostPush, Blocked, Woken, Notifiers
<1> QED
  BY <1>1, <1>2, <1>3, <1>4, <1>5, <1>6, <1>7 DEF Next, ConsumerStep

\* The inductive invariant holds in every reachable state.
LEMMA QueueInvariant == Spec => []QueueInv
<1>1. ASSUME Init  PROVE NewestInOrder /\ ParkingSeesEmpty /\ NoLostPush
  <2>1. queue_ = <<>> /\ pushed = 0 /\ popped = 0 /\ Blocked = {}
    BY <1>1 DEF Init, Blocked
  <2>2. Len(queue_) = 0 /\ DOMAIN queue_ = {}
    BY <2>1
  <2>3. NewestInOrder
    BY <2>1, <2>2, QueueAssumption, CapacityAssumption
    DEF NewestInOrder, QueueAssumption, CapacityAssumption
  <2> QED  BY <2>1, <2>3 DEF ParkingSeesEmpty, NoLostPush
<1>2. TypeOK /\ NewestInOrder /\ ParkingSeesEmpty /\ NoLostPush /\ [Next]_vars
        => NewestInOrder' /\ ParkingSeesEmpty' /\ NoLostPush'
  BY NewestInOrderStep, ParkingSeesEmptyStep, NoLostPushStep
<1> QED  BY <1>1, <1>2, TypeCorrect, PTL DEF Spec, QueueInv

\* For every number of threads and every capacity: the queue holds the newest
\* pushes in order and what was popped is older than all of them.
THEOREM QueueKeepsNewestInOrder == Spec => []NewestInOrder
BY QueueInvariant, PTL DEF QueueInv

\* For every number of threads: no consumer sleeps on an item for which no
\* wake-up is under way, although push() notifies outside the mutex.
THEOREM QueueLosesNoPush == Spec => []NoLostPush
BY QueueInvariant, PTL DEF QueueInv

-----------------------------------------------------------------------------

\* Every step of the queue is a step of the sliding window or leaves it alone.
THEOREM QueueImplementsWindow == Spec => ImplementsWindow
<1> USE QueueAssumption, CapacityAssumption DEF QueueAssumption, CapacityAssumption
<1>1. ASSUME Init  PROVE Window!WindowInit
  <2>1. pushed - Len(queue_) = 0
    <3>1. pushed = 0
      BY <1>1 DEF Init
    <3>2. Len(queue_) = 0
      BY <1>1 DEF Init
    <3> QED  BY <3>1, <3>2
  <2> QED  BY <1>1, <2>1, Zenon DEF Init, Window!WindowInit
<1>2. ASSUME QueueInv, [Next]_vars  PROVE [Window!WindowNext]_(Window!windowVars)
  <2>0. /\ queue_ \in Seq(1..MaxPushes)
        /\ Len(queue_) \in Nat
        /\ pushed \in 0..MaxPushes
        /\ Len(queue_) <= Capacity
        /\ Len(queue_) <= pushed
    BY <1>2 DEF QueueInv, TypeOK, NewestInOrder
  <2>1. ASSUME NEW p \in Producers, Push(p)  PROVE Window!Put
    <3> DEFINE x == pushed + 1
    <3>1. x \in 1..MaxPushes /\ pushed' = x /\ queue_' = Enqueue(queue_, x)
      BY <2>0, <2>1 DEF Push
    <3>2. popped' = popped /\ running_' = running_
      BY <2>1 DEF Push
    <3> HIDE DEF x
    <3>3. Len(queue_') = IF Len(queue_) >= Capacity THEN Len(queue_) ELSE Len(queue_) + 1
      BY <2>0, <3>1, EnqueueProperties
    <3>4. pushed - (pushed - Len(queue_)) = Len(queue_)
      BY <2>0
    <3>5. (pushed - Len(queue_))' = IF pushed - (pushed - Len(queue_)) >= Capacity
                                    THEN pushed - Len(queue_) + 1 ELSE pushed - Len(queue_)
      <4>1. (pushed - Len(queue_))' = x - Len(queue_')
        BY <3>1
      <4>2. CASE Len(queue_) >= Capacity
        BY <2>0, <3>3, <3>4, <4>1, <4>2 DEF x
      <4>3. CASE ~(Len(queue_) >= Capacity)
        BY <2>0, <3>3, <3>4, <4>1, <4>3 DEF x
      <4> QED  BY <4>2, <4>3
    <3> QED  BY <3>1, <3>2, <3>5, Zenon DEF Window!Put, x
  <2>2. ASSUME NEW c \in Consumers, TryPop(c) \/ WaitPopItem(c)  PROVE Window!Take
    <3>1. /\ queue_ # <<>>
          /\ popped' = Head(queue_)
          /\ queue_' = Tail(queue_)
          /\ pushed' = pushed
          /\ running_' = running_
      BY <2>2 DEF TryPop, WaitPopItem, Pop
    <3>2. Len(queue_') = Len(queue_) - 1 /\ Len(queue_) > 0 /\ popped' = queue_[1]
      BY <2>0, <3>1, HeadTailProperties, EmptySeq
    <3>3. queue_[1] = pushed - Len(queue_) + 1
      BY <1>2, <2>0, <3>2 DEF QueueInv, NewestInOrder
    <3> QED  BY <2>0, <3>1, <3>2, <3>3 DEF Window!Take
  <2>3. ASSUME StopFlag  PROVE Window!Close
    BY <2>3 DEF StopFlag, Window!Close
  <2>4. ASSUME UNCHANGED <<queue_, pushed, popped, running_>>
        PROVE  UNCHANGED Window!windowVars
    BY <2>4 DEF Window!windowVars
  <2> QED
    BY <1>2, <2>1, <2>2, <2>3, <2>4
    DEF Next, ConsumerStep, NotifyOne, WaitPopFalse, WaitPopPark, Block, SpuriousWake,
        Timeout, StopNotifyAll, vars, Window!WindowNext
<1> QED
  BY <1>1, <1>2, QueueInvariant, PTL DEF Spec, ImplementsWindow, Window!WindowSpec

=============================================================================
