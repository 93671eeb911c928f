-------------------------- MODULE BallisticResults --------------------------
(***************************************************************************)
(* The tables of BallisticSimulator (backend/src/ballistic_simulator.cpp):  *)
(* the latest result and the recent samples of each crossbow, filled by the *)
(* worker threads and, for a simulated shot, by the HTTP thread.  A thread  *)
(* computes without a lock and stores under result_mutex_.                  *)
(*                                                                          *)
(* SensorPipeline models the queue the samples come from and how the        *)
(* threads are started and stopped.  A sample is its place in taken, the    *)
(* order in which the threads got the samples from the queue.  What a       *)
(* result contains is left out: process_sensor_data() returns one for an    *)
(* unknown crossbow and after an exception as well.                         *)
(***************************************************************************)
EXTENDS Naturals, Sequences

CONSTANTS
    Workers,      \* the ballistic_threads worker threads
    Crossbows,    \* the ids that samples and requests carry
    RecentLimit,  \* the samples kept per crossbow (1000)
    MaxSamples,   \* bound on the samples
    MaxRequests   \* bound on the simulated shots

ASSUME BallisticAssumption ==
    /\ RecentLimit \in Nat \ {0}
    /\ MaxSamples \in Nat
    /\ MaxRequests \in Nat

VARIABLES
    taken,                \* history: the crossbow of each sample, in the order of the queue
    hand,                 \* [Workers -> the sample it works on, 0 if none]
    latest_results_,      \* [Crossbows -> what its latest result was computed for]
    recent_trajectories_, \* [Crossbows -> its recent samples, oldest first]
    request,              \* the crossbow of simulate_shot() at work, <<>> if none
    requests,             \* history: how many simulated shots were asked for
    stored                \* history: the samples whose results were stored, in order

vars == <<taken, hand, latest_results_, recent_trajectories_, request, requests, stored>>

\* What an entry of latest_results_ was computed for.
NoResult       == [from |-> "nothing", sample |-> 0]
OfSample(n)    == [from |-> "queue", sample |-> n]
OfRequest      == [from |-> "request", sample |-> 0]

Init ==
    /\ taken = <<>>
    /\ hand = [w \in Workers |-> 0]
    /\ latest_results_ = [c \in Crossbows |-> NoResult]
    /\ recent_trajectories_ = [c \in Crossbows |-> <<>>]
    /\ request = <<>> /\ requests = 0
    /\ stored = <<>>

-----------------------------------------------------------------------------
\* Mutant: when the limit is passed the new sample goes, not the oldest.
TrimNewest(q) == IF Len(q) > RecentLimit THEN SubSeq(q, 1, Len(q) - 1) ELSE q

\* The vector after its push_back(): erase(begin()) when the limit is passed.
Trim(q) == IF Len(q) > RecentLimit THEN Tail(q) ELSE q

\* wait_pop() hands a sample of crossbow c to a worker.
TakeSample(w, c) ==
    /\ hand[w] = 0
    /\ Len(taken) < MaxSamples
    /\ taken' = Append(taken, c)
    /\ hand' = [hand EXCEPT ![w] = Len(taken) + 1]
    /\ UNCHANGED <<latest_results_, recent_trajectories_, request, requests, stored>>

\* Mutant: an entry that exists is not replaced (emplace).
StoreIfAbsent(w) ==
    /\ hand[w] # 0
    /\ LET c == taken[hand[w]] IN
          /\ latest_results_' = [latest_results_ EXCEPT
                ![c] = IF @ = NoResult THEN OfSample(hand[w]) ELSE @]
          /\ recent_trajectories_' = [recent_trajectories_ EXCEPT ![c] = Trim(Append(@, hand[w]))]
    /\ stored' = Append(stored, hand[w])
    /\ hand' = [hand EXCEPT ![w] = 0]
    /\ UNCHANGED <<taken, request, requests>>

\* The result is computed; under the mutex it becomes the latest of its crossbow,
\* whatever is there by now, and the sample joins the recent ones.
StoreResult(w) ==
    /\ hand[w] # 0
    /\ LET c == taken[hand[w]] IN
          /\ latest_results_' = [latest_results_ EXCEPT ![c] = OfSample(hand[w])]
          /\ recent_trajectories_' = [recent_trajectories_ EXCEPT ![c] = Trim(Append(@, hand[w]))]
    /\ stored' = Append(stored, hand[w])
    /\ hand' = [hand EXCEPT ![w] = 0]
    /\ UNCHANGED <<taken, request, requests>>

\* An exception before the result is stored: worker_loop() logs it and goes on.
WorkerError(w) ==
    /\ hand[w] # 0
    /\ hand' = [hand EXCEPT ![w] = 0]
    /\ UNCHANGED <<taken, latest_results_, recent_trajectories_, request, requests, stored>>

\* /api/simulate-shot for crossbow c: simulate_shot() computes ...
Simulate(c) ==
    /\ request = <<>>
    /\ requests < MaxRequests
    /\ request' = <<c>>
    /\ requests' = requests + 1
    /\ UNCHANGED <<taken, hand, latest_results_, recent_trajectories_, stored>>

\* ... and stores its result among the latest ones, but nothing among the recent samples.
StoreSimulated ==
    /\ request # <<>>
    /\ latest_results_' = [latest_results_ EXCEPT ![request[1]] = OfRequest]
    /\ request' = <<>>
    /\ UNCHANGED <<taken, hand, recent_trajectories_, requests, stored>>

Next ==
    \/ \E w \in Workers :
          \/ \E c \in Crossbows : TakeSample(w, c)
          \/ StoreResult(w)
          \/ WorkerError(w)
    \/ \E c \in Crossbows : Simulate(c)
    \/ StoreSimulated

Spec == Init /\ [][Next]_vars

-----------------------------------------------------------------------------

Samples == 1..MaxSamples

\* The range of every variable.
TypeOK ==
    /\ taken \in Seq(Crossbows) /\ Len(taken) <= MaxSamples
    /\ hand \in [Workers -> 0..Len(taken)]
    /\ latest_results_ \in [Crossbows -> {NoResult, OfRequest} \cup {OfSample(n) : n \in Samples}]
    /\ recent_trajectories_ \in [Crossbows -> Seq(Samples)]
    /\ \A c \in Crossbows : Len(recent_trajectories_[c]) <= RecentLimit
    /\ request \in {<<>>} \cup {<<c>> : c \in Crossbows}
    /\ requests \in 0..MaxRequests
    /\ stored \in Seq(1..Len(taken))

Recent == INSTANCE BoundedDeque WITH Capacity <- RecentLimit

\* The recent samples of a crossbow are the last ones stored for it, each once and none
\* of another crossbow; errors and simulated shots leave no gap and no trace in them.
RecentAreLastStored ==
    \A c \in Crossbows :
        \E at \in [DOMAIN recent_trajectories_[c] -> DOMAIN stored] :
            /\ Recent!HoldsLatest(at, {k \in DOMAIN stored : taken[stored[k]] = c})
            /\ recent_trajectories_[c] = [i \in DOMAIN at |-> stored[at[i]]]

\* /api/ballistic-result: the latest result of a crossbow, if a sample's, is that of the
\* newest sample of the crossbow which has been processed.
LatestIsNewest ==
    \A c \in Crossbows :
        latest_results_[c].from = "queue" =>
            \A i \in DOMAIN stored :
                taken[stored[i]] = c => stored[i] <= latest_results_[c].sample

=============================================================================
