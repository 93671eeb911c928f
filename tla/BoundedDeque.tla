---------------------------- MODULE BoundedDeque ----------------------------
(***************************************************************************)
(* The data of MessageQueue<T> (backend/include/message_queue.h): a deque   *)
(* of at most capacity_ items that makes room by forgetting the oldest.     *)
(***************************************************************************)
EXTENDS Naturals, Sequences

CONSTANT Capacity    \* capacity_

\* With capacity 0 push() would pop_front() an empty deque, which is undefined.
ASSUME CapacityAssumption == Capacity \in Nat \ {0}

\* Mutant: the new item, not the oldest, is lost when the queue is full.
EnqueueDropsNewest(q, x) == IF Len(q) >= Capacity THEN q ELSE Append(q, x)

\* The deque after push(): the oldest item makes room when it is full.
Enqueue(q, x) == Append(IF Len(q) >= Capacity THEN Tail(q) ELSE q, x)

\* q lists, in rising order, the latest of the numbers in S: those that are missing
\* have made room, so the deque is full and they are lower than all in it.
HoldsLatest(q, S) ==
    /\ Len(q) <= Capacity
    /\ \A i \in 1..Len(q) : q[i] \in S
    /\ \A i, j \in 1..Len(q) : i < j => q[i] < q[j]
    /\ \A n \in S : \/ \E i \in 1..Len(q) : q[i] = n
                    \/ Len(q) = Capacity /\ \A i \in 1..Len(q) : n < q[i]

=============================================================================
