---------------------------- MODULE AnswerProofs ----------------------------
(***************************************************************************)
(* Theorems about what the HTTP server answers.                             *)
(*                                                                          *)
(* BallisticResults, the tables behind /ballistic-result: the ranges of its *)
(* state, and that the recent samples are the last stored, hold for any     *)
(* number of threads; that the latest result belongs to the newest sample   *)
(* holds for one thread only, which is the default of config_manager.h.     *)
(*                                                                          *)
(* Web, the server's connections and the page: the server gives its clients *)
(* the exchange that Exchange describes, no request of the page ends it,    *)
(* and what the page shows of a crossbow is what the server stores of it.   *)
(***************************************************************************)
EXTENDS Web, BallisticResults, SequenceTheorems, WellFoundedInduction, TLAPS

\* Trimming a vector that one push_back() has made too long.
LEMMA TrimBounded ==
  ASSUME NEW q \in Seq(Samples), Len(q) <= RecentLimit, NEW n \in Samples
  PROVE  /\ Trim(Append(q, n)) \in Seq(Samples)
         /\ Len(Trim(Append(q, n))) <= RecentLimit
<1> DEFINE a == Append(q, n)
<1>1. /\ a \in Seq(Samples)
      /\ Len(a) = Len(q) + 1
      /\ Len(q) \in Nat
      /\ RecentLimit \in Nat \ {0}
  BY BallisticAssumption DEF BallisticAssumption
<1> HIDE DEF a
<1>2. CASE Len(a) > RecentLimit
  <2>1. a # <<>>
    BY <1>1, <1>2
  <2>2. Tail(a) \in Seq(Samples) /\ Len(Tail(a)) = Len(a) - 1
    BY <1>1, <2>1
  <2> QED  BY <1>1, <1>2, <2>2 DEF Trim, a
<1>3. CASE ~(Len(a) > RecentLimit)
  BY <1>1, <1>3 DEF Trim, a
<1> QED  BY <1>2, <1>3

-----------------------------------------------------------------------------
\* The ranges hold initially ...
LEMMA InitType == Init => TypeOK
BY BallisticAssumption DEF Init, TypeOK, BallisticAssumption, NoResult

\* ... and every step keeps them.
LEMMA StepType ==
  ASSUME TypeOK, [Next]_vars
  PROVE  TypeOK'
<1>0. /\ RecentLimit \in Nat \ {0}
      /\ MaxSamples \in Nat
      /\ MaxRequests \in Nat
  BY BallisticAssumption DEF BallisticAssumption
<1>1. ASSUME NEW w \in Workers, NEW c \in Crossbows, TakeSample(w, c)
      PROVE  TypeOK'
  <2>1. /\ Len(taken) \in Nat
        /\ Len(taken) + 1 \in 0..MaxSamples
    BY <1>0, <1>1 DEF TypeOK, TakeSample
  <2>2. /\ taken' \in Seq(Crossbows)
        /\ Len(taken') = Len(taken) + 1
    BY <1>1 DEF TypeOK, TakeSample
  <2>3. hand' \in [Workers -> 0..Len(taken')]
    <3>1. 0..Len(taken) \subseteq 0..(Len(taken) + 1)
      BY <2>1
    <3> QED  BY <1>1, <2>1, <2>2, <3>1 DEF TypeOK, TakeSample
  <2>4. stored' \in Seq(1..Len(taken'))
    <3>1. 1..Len(taken) \subseteq 1..(Len(taken) + 1)
      BY <2>1
    <3>2. stored \in Seq(1..Len(taken))
      BY DEF TypeOK
    <3>3. stored \in Seq(1..(Len(taken) + 1))
      BY <3>1, <3>2
    <3> QED  BY <1>1, <2>2, <3>3 DEF TakeSample
  <2>5. UNCHANGED <<latest_results_, recent_trajectories_, request, requests>>
    BY <1>1 DEF TakeSample
  <2>6. Len(taken') <= MaxSamples
    BY <1>0, <2>1, <2>2
  <2> QED  BY <2>2, <2>3, <2>4, <2>5, <2>6 DEF TypeOK
<1>2. ASSUME NEW w \in Workers, StoreResult(w)
      PROVE  TypeOK'
  <2> DEFINE n == hand[w]
             c == taken[n]
  <2>1. /\ n \in 1..Len(taken)
        /\ n \in Samples
        /\ c \in Crossbows
    BY <1>0, <1>2 DEF TypeOK, StoreResult, Samples
  <2>2. /\ latest_results_' = [latest_results_ EXCEPT ![c] = OfSample(n)]
        /\ recent_trajectories_' =
              [recent_trajectories_ EXCEPT ![c] = Trim(Append(recent_trajectories_[c], n))]
        /\ stored' = Append(stored, n)
        /\ hand' = [hand EXCEPT ![w] = 0]
        /\ UNCHANGED <<taken, request, requests>>
    BY <1>2 DEF StoreResult
  <2> HIDE DEF n, c
  <2>3. /\ Trim(Append(recent_trajectories_[c], n)) \in Seq(Samples)
        /\ Len(Trim(Append(recent_trajectories_[c], n))) <= RecentLimit
    BY <2>1, TrimBounded DEF TypeOK
  <2>4. /\ recent_trajectories_' \in [Crossbows -> Seq(Samples)]
        /\ \A d \in Crossbows : Len(recent_trajectories_'[d]) <= RecentLimit
    <3> DEFINE t == Trim(Append(recent_trajectories_[c], n))
    <3>1. t \in Seq(Samples) /\ Len(t) <= RecentLimit
      BY <2>3
    <3>2. recent_trajectories_' = [recent_trajectories_ EXCEPT ![c] = t]
      BY <2>2
    <3> HIDE DEF t
    <3> QED  BY <2>1, <3>1, <3>2 DEF TypeOK
  <2>5. latest_results_' \in [Crossbows -> {NoResult, OfRequest} \cup {OfSample(k) : k \in Samples}]
    BY <2>1, <2>2 DEF TypeOK
  <2>6. stored' \in Seq(1..Len(taken'))
    BY <2>1, <2>2 DEF TypeOK
  <2>7. hand' \in [Workers -> 0..Len(taken')]
    <3>1. 0 \in 0..Len(taken)
      BY DEF TypeOK
    <3> QED  BY <2>2, <3>1 DEF TypeOK
  <2> QED  BY <2>2, <2>4, <2>5, <2>6, <2>7 DEF TypeOK
<1>3. ASSUME NEW w \in Workers, WorkerError(w)
      PROVE  TypeOK'
  <2>1. 0 \in 0..Len(taken)
    BY DEF TypeOK
  <2> QED  BY <1>3, <2>1 DEF TypeOK, WorkerError
<1>4. ASSUME NEW c \in Crossbows, Simulate(c)
      PROVE  TypeOK'
  BY <1>0, <1>4 DEF TypeOK, Simulate
<1>5. CASE StoreSimulated
  <2>1. PICK c \in Crossbows : request = <<c>>
    BY <1>5 DEF TypeOK, StoreSimulated
  <2>2. request[1] = c
    BY <2>1
  <2> QED  BY <1>5, <2>2 DEF TypeOK, StoreSimulated
<1>6. CASE UNCHANGED vars
  BY <1>6 DEF vars, TypeOK
<1> QED  BY <1>1, <1>2, <1>3, <1>4, <1>5, <1>6 DEF Next

\* The tables and the histories keep their ranges: no vector of recent samples is longer
\* than its limit, for any number of threads.
THEOREM TypeCorrect == Spec => []TypeOK
BY InitType, StepType, PTL DEF Spec

-----------------------------------------------------------------------------
\* What a sample at work adds to LatestIsNewest to make it inductive: it is newer than
\* every sample whose result was stored.  Two threads break it.
HandIsNewest ==
    \A w \in Workers : hand[w] # 0 => \A i \in DOMAIN stored : stored[i] < hand[w]

\* With one thread every step keeps both.
LEMMA StepNewest ==
  ASSUME \A v, w \in Workers : v = w,
         TypeOK, LatestIsNewest, HandIsNewest, [Next]_vars
  PROVE  LatestIsNewest' /\ HandIsNewest'
<1>0. /\ Len(taken) \in Nat
      /\ DOMAIN taken = 1..Len(taken)
      /\ \A i \in DOMAIN stored : stored[i] \in 1..Len(taken)
  BY DEF TypeOK
<1>1. ASSUME NEW w \in Workers, NEW c \in Crossbows, TakeSample(w, c)
      PROVE  LatestIsNewest' /\ HandIsNewest'
  <2>1. /\ hand' = [hand EXCEPT ![w] = Len(taken) + 1]
        /\ UNCHANGED <<stored, latest_results_>>
        /\ taken' = Append(taken, c)
    BY <1>1 DEF TakeSample
  <2>2. \A i \in DOMAIN stored : taken'[stored[i]] = taken[stored[i]]
    BY <1>0, <2>1 DEF TypeOK
  <2>3. HandIsNewest'
    <3>1. hand'[w] = Len(taken) + 1
      BY <2>1 DEF TypeOK
    <3> QED  BY <1>0, <2>1, <3>1 DEF HandIsNewest
  <2> QED  BY <2>1, <2>2, <2>3 DEF LatestIsNewest
<1>2. ASSUME NEW w \in Workers, StoreResult(w)
      PROVE  LatestIsNewest' /\ HandIsNewest'
  <2>1. PICK n \in 1..Len(taken), c \in Crossbows :
            /\ n = hand[w] /\ n # 0
            /\ c = taken[n]
    BY <1>0, <1>2 DEF TypeOK, StoreResult
  <2>2. /\ latest_results_' = [latest_results_ EXCEPT ![c] = OfSample(n)]
        /\ stored' = Append(stored, n)
        /\ hand' = [hand EXCEPT ![w] = 0]
        /\ taken' = taken
    BY <1>2, <2>1 DEF StoreResult
  <2>3. \A i \in DOMAIN stored' : \/ stored'[i] = n
                                  \/ i \in DOMAIN stored /\ stored'[i] = stored[i]
    <3>1. stored \in Seq(1..Len(taken))
      BY DEF TypeOK
    <3>2. /\ DOMAIN stored = 1..Len(stored)
          /\ Len(stored) \in Nat
          /\ DOMAIN Append(stored, n) = 1..(Len(stored) + 1)
          /\ \A i \in 1..Len(stored) : Append(stored, n)[i] = stored[i]
          /\ Append(stored, n)[Len(stored) + 1] = n
      BY <3>1
    <3>3. \A i \in 1..(Len(stored) + 1) : i \in 1..Len(stored) \/ i = Len(stored) + 1
      BY <3>2
    <3> QED  BY <2>2, <3>2, <3>3
  <2>4. \A i \in DOMAIN stored : stored[i] < n
    BY <2>1 DEF HandIsNewest
  <2>5. /\ latest_results_'[c] = OfSample(n)
        /\ \A d \in Crossbows : d # c => latest_results_'[d] = latest_results_[d]
    BY <2>2 DEF TypeOK
  <2>6. ASSUME NEW d \in Crossbows, latest_results_'[d].from = "queue",
               NEW i \in DOMAIN stored', taken'[stored'[i]] = d
        PROVE  stored'[i] <= latest_results_'[d].sample
    <3>1. CASE d = c
      BY <1>0, <2>3, <2>4, <2>5, <3>1 DEF OfSample
    <3>2. CASE d # c
      <4>1. stored'[i] # n
        BY <2>1, <2>2, <2>6, <3>2
      <4>2. i \in DOMAIN stored /\ stored'[i] = stored[i]
        BY <2>3, <4>1
      <4> QED  BY <2>2, <2>5, <2>6, <3>2, <4>2 DEF LatestIsNewest
    <3> QED  BY <3>1, <3>2
  <2>7. \A v \in Workers : hand'[v] = 0
    BY <2>2 DEF TypeOK
  <2> QED  BY <2>6, <2>7 DEF LatestIsNewest, HandIsNewest
<1>3. ASSUME NEW w \in Workers, WorkerError(w)
      PROVE  LatestIsNewest' /\ HandIsNewest'
  BY <1>3 DEF LatestIsNewest, HandIsNewest, WorkerError, TypeOK
<1>4. ASSUME NEW c \in Crossbows, Simulate(c)
      PROVE  LatestIsNewest' /\ HandIsNewest'
  BY <1>4 DEF LatestIsNewest, HandIsNewest, Simulate
<1>5. CASE StoreSimulated
  <2>1. \A c \in Crossbows : \/ latest_results_'[c] = OfRequest
                             \/ latest_results_'[c] = latest_results_[c]
    BY <1>5 DEF StoreSimulated, TypeOK
  <2>2. UNCHANGED <<taken, hand, stored>>
    BY <1>5 DEF StoreSimulated
  <2>3. OfRequest.from # "queue"
    BY DEF OfRequest
  <2> QED  BY <2>1, <2>2, <2>3 DEF LatestIsNewest, HandIsNewest
<1>6. CASE UNCHANGED vars
  BY <1>6 DEF vars, LatestIsNewest, HandIsNewest
<1> QED  BY <1>1, <1>2, <1>3, <1>4, <1>5, <1>6 DEF Next

\* With one ballistic thread the latest result of a crossbow, if a sample's, is that of
\* the newest sample processed, for any number of crossbows, samples and simulated shots.
THEOREM LatestOfOneThread ==
  ASSUME \A v, w \in Workers : v = w
  PROVE  Spec => []LatestIsNewest
<1>1. Init => LatestIsNewest /\ HandIsNewest
  BY DEF Init, LatestIsNewest, HandIsNewest
<1>2. TypeOK /\ LatestIsNewest /\ HandIsNewest /\ [Next]_vars => LatestIsNewest' /\ HandIsNewest'
  BY StepNewest
<1> QED  BY <1>1, <1>2, TypeCorrect, PTL DEF Spec

-----------------------------------------------------------------------------

\* The recent samples of a crossbow are a bounded deque.
Deque == INSTANCE BoundedDequeProofs WITH Capacity <- RecentLimit

\* The places among the stored samples of those of a crossbow; a list of the latest.
Places(order, of, c) == {k \in DOMAIN order : of[order[k]] = c}
LatestStored(order, of, c, list) ==
    \E at \in [DOMAIN list -> DOMAIN order] :
        /\ Deque!HoldsLatest(at, Places(order, of, c))
        /\ list = [i \in DOMAIN at |-> order[at[i]]]

\* The invariant in these words.
RecentInv == \A c \in Crossbows : LatestStored(stored, taken, c, recent_trajectories_[c])

\* It is what the property says.
LEMMA RecentInvIs == RecentInv => RecentAreLastStored
BY DEF RecentInv, LatestStored, Places, RecentAreLastStored, Deque!HoldsLatest, Recent!HoldsLatest

\* A sample that another crossbow's result is stored for, or that is only taken, is of
\* no account.
LEMMA PlacesStay ==
  ASSUME NEW T, NEW of \in Seq(T), NEW order \in Seq(1..Len(of)), NEW c, NEW d,
         NEW list, LatestStored(order, of, c, list)
  PROVE  /\ LatestStored(order, Append(of, d), c, list)
         /\ \A n \in 1..Len(of) : of[n] # c => LatestStored(Append(order, n), of, c, list)
<1>1. PICK at \in [DOMAIN list -> DOMAIN order] :
         /\ Deque!HoldsLatest(at, Places(order, of, c))
         /\ list = [i \in DOMAIN at |-> order[at[i]]]
  BY DEF LatestStored
<1>2. Places(order, Append(of, d), c) = Places(order, of, c)
  <2>1. \A k \in DOMAIN order : order[k] \in 1..Len(of) /\ Append(of, d)[order[k]] = of[order[k]]
    BY AppendProperties
  <2> QED  BY <2>1 DEF Places
<1>3. ASSUME NEW n \in 1..Len(of), of[n] # c  PROVE LatestStored(Append(order, n), of, c, list)
  <2> DEFINE more == Append(order, n)
  <2>1. /\ DOMAIN order = 1..Len(order) /\ Len(order) \in Nat /\ DOMAIN more = 1..(Len(order) + 1)
        /\ \A k \in 1..Len(order) : more[k] = order[k]
        /\ more[Len(order) + 1] = n
    BY AppendProperties
  <2> HIDE DEF more
  <2>2. Places(more, of, c) = Places(order, of, c)
    BY <1>3, <2>1 DEF Places
  <2>3. at \in [DOMAIN list -> DOMAIN more]
    BY <1>1, <2>1
  <2>4. \A i \in DOMAIN at : more[at[i]] = order[at[i]]
    BY <1>1, <2>1
  <2>5. list = [i \in DOMAIN at |-> more[at[i]]]
    BY <1>1, <2>4
  <2>6. LatestStored(more, of, c, list)
    BY <1>1, <2>2, <2>3, <2>5 DEF LatestStored
  <2> QED  BY <2>6 DEF more
<1> QED  BY <1>1, <1>2, <1>3 DEF LatestStored

\* A sample of the crossbow that is stored joins the recent ones at the end of both.
LEMMA SampleJoins ==
  ASSUME NEW U, NEW of, NEW order \in Seq(U), NEW n \in U, NEW list \in Seq(U),
         LatestStored(order, of, of[n], list)
  PROVE  LatestStored(Append(order, n), of, of[n], Trim(Append(list, n)))
<1> DEFINE c == of[n]
           more == Append(order, n)
           m == Len(order) + 1
           S == Places(order, of, c)
           e == Deque!Enqueue(list, n)
<1>1. RecentLimit \in Nat \ {0}
  BY BallisticAssumption DEF BallisticAssumption
<1>2. PICK at \in [DOMAIN list -> DOMAIN order] :
         /\ Deque!HoldsLatest(at, S)
         /\ list = [i \in DOMAIN at |-> order[at[i]]]
  BY DEF LatestStored
<1>3. /\ DOMAIN list = 1..Len(list) /\ Len(list) \in Nat
      /\ DOMAIN order = 1..Len(order) /\ Len(order) \in Nat
  OBVIOUS
<1>4. /\ at \in Seq(1..Len(order)) /\ Len(at) = Len(list) /\ at \in Seq(Nat)
      /\ \A i \in 1..Len(list) : list[i] = order[at[i]]
  <2>1. at \in [1..Len(list) -> 1..Len(order)]
    BY <1>2, <1>3
  <2>2. at \in Seq(1..Len(order)) /\ Len(at) = Len(list) /\ at \in Seq(Nat)
    <3> DEFINE l == Len(list)
               D == 1..Len(order)
    <3>1. at \in [1..l -> D] /\ l \in Nat /\ D \subseteq Nat
      BY <1>3, <2>1
    <3> HIDE DEF l, D
    <3>2. at \in Seq(D) /\ Len(at) = l
      BY <3>1
    <3>3. at \in Seq(Nat)
      BY <3>1, <3>2, SeqMonotonic
    <3> QED  BY <3>2, <3>3 DEF l, D
  <2>3. DOMAIN at = 1..Len(list)
    BY <2>1
  <2> QED  BY <1>2, <2>2, <2>3
<1>5. Len(at) <= RecentLimit
  BY <1>2 DEF Deque!HoldsLatest
<1> DEFINE p == Deque!Enqueue(at, m)
<1>6. /\ DOMAIN more = 1..m /\ more[m] = n
      /\ \A k \in 1..Len(order) : more[k] = order[k]
  BY AppendProperties
<1>7. /\ p \in Seq(1..m) /\ Len(e) = Len(p)
      /\ \A i \in 1..Len(e) : e[i] = more[p[i]]
  <2>1. /\ at \in Seq(1..Len(order)) /\ Len(at) <= RecentLimit /\ Len(list) = Len(at)
        /\ \A i \in 1..Len(list) : list[i] = order[at[i]]
    BY <1>4, <1>5
  <2> HIDE DEF S, c
  <2>2. p \in Seq(1..m)
    BY <1>1, <2>1, Deque!EnqueueTogether, SMTT(60)
  <2>3. Len(e) = Len(p)
    BY <1>1, <2>1, Deque!EnqueueTogether, SMTT(60)
  <2>4. \A i \in 1..Len(e) : e[i] = more[p[i]]
    BY <1>1, <2>1, Deque!EnqueueTogether, SMTT(60)
  <2> QED  BY <2>2, <2>3, <2>4
<1>8. e \in Seq(U)
  BY <1>1, Deque!EnqueueProperties
<1>9. Trim(Append(list, n)) = e
  <2>1. Len(list) <= RecentLimit
    BY <1>4, <1>5
  <2>2. e = IF Len(Append(list, n)) > RecentLimit THEN Tail(Append(list, n)) ELSE Append(list, n)
    BY <1>1, <2>1, Deque!EnqueueMakesRoom
  <2> QED  BY <2>2 DEF Trim
<1>10. Deque!HoldsLatest(p, S \cup {m})
  <2>1. S \in SUBSET Nat /\ m \in Nat /\ \A k \in S : k < m
    BY <1>3 DEF Places
  <2> HIDE DEF S, m
  <2> QED  BY <1>1, <1>2, <1>4, <2>1, Deque!EnqueueHoldsLatest
<1>11. Places(more, of, c) = S \cup {m}
  <2> HIDE DEF more
  <2> QED  BY <1>3, <1>6 DEF Places
<1> HIDE DEF p, e, m, S, more
<1>12. DOMAIN e = 1..Len(e) /\ DOMAIN p = 1..Len(e)
  BY <1>7, <1>8
<1>13. p \in [DOMAIN e -> DOMAIN more]
  <2> DEFINE D == 1..m
  <2>1. p \in Seq(D)
    BY <1>7
  <2> HIDE DEF D
  <2>2. p \in [1..Len(p) -> D]
    BY <2>1
  <2> QED  BY <1>7, <1>6, <1>12, <2>2 DEF D
<1>14. e = [i \in DOMAIN p |-> more[p[i]]]
  <2>1. e = [i \in DOMAIN e |-> e[i]]
    BY <1>8
  <2> QED  BY <1>7, <1>12, <2>1
<1>15. LatestStored(more, of, c, e)
  BY <1>10, <1>11, <1>13, <1>14 DEF LatestStored
<1> QED  BY <1>9, <1>15 DEF more

\* The recent samples stay the last stored, whichever thread stores its result next.
LEMMA RecentStep ==
  ASSUME TypeOK, RecentInv, [Next]_vars
  PROVE  RecentInv'
<1>0. /\ taken \in Seq(Crossbows) /\ stored \in Seq(1..Len(taken))
      /\ recent_trajectories_ \in [Crossbows -> Seq(Samples)] /\ stored \in Seq(Samples)
      /\ 1..Len(taken) \subseteq Samples
  <2>1. 1..Len(taken) \subseteq Samples
    BY BallisticAssumption DEF TypeOK, Samples, BallisticAssumption
  <2>2. stored \in Seq(1..Len(taken))
    BY DEF TypeOK
  <2>3. stored \in Seq(Samples)
    BY <2>1, <2>2, SeqMonotonic
  <2> QED  BY <2>1, <2>2, <2>3 DEF TypeOK
<1>1. ASSUME NEW w \in Workers, NEW c \in Crossbows, TakeSample(w, c)  PROVE RecentInv'
  <2>1. taken' = Append(taken, c) /\ UNCHANGED <<recent_trajectories_, stored>>
    BY <1>1 DEF TakeSample
  <2> QED  BY <1>0, <2>1, PlacesStay DEF RecentInv
<1>2. ASSUME NEW w \in Workers, StoreResult(w)  PROVE RecentInv'
  <2>1. PICK n \in 1..Len(taken) : n = hand[w]
    BY <1>0, <1>2 DEF TypeOK, StoreResult
  <2>2. /\ stored' = Append(stored, n) /\ taken' = taken /\ taken[n] \in Crossbows
        /\ recent_trajectories_' = [recent_trajectories_ EXCEPT ![taken[n]] = Trim(Append(@, n))]
    BY <1>0, <1>2, <2>1 DEF StoreResult
  <2>3. ASSUME NEW c \in Crossbows  PROVE LatestStored(stored', taken', c, recent_trajectories_'[c])
    <3>1. LatestStored(stored, taken, c, recent_trajectories_[c]) /\ recent_trajectories_[c] \in Seq(Samples)
      BY <1>0 DEF RecentInv
    <3>2. CASE c = taken[n]
      <4>1. recent_trajectories_'[c] = Trim(Append(recent_trajectories_[c], n))
        BY <1>0, <2>2, <3>2
      <4>2. n \in Samples
        BY <1>0
      <4> QED  BY <1>0, <2>2, <3>1, <3>2, <4>1, <4>2, SampleJoins
    <3>3. CASE c # taken[n]
      <4>1. recent_trajectories_'[c] = recent_trajectories_[c]
        BY <1>0, <2>2, <3>3
      <4> QED  BY <1>0, <2>2, <3>1, <3>3, <4>1, PlacesStay
    <3> QED  BY <3>2, <3>3
  <2> QED  BY <2>3 DEF RecentInv
<1>3. CASE \/ \E w \in Workers : WorkerError(w)
           \/ \E c \in Crossbows : Simulate(c)
           \/ StoreSimulated \/ UNCHANGED vars
  BY <1>3 DEF WorkerError, Simulate, StoreSimulated, vars, RecentInv
<1> QED  BY <1>1, <1>2, <1>3 DEF Next

\* The recent samples of each crossbow are the last ones stored for it, in the order of
\* their storing, for any number of threads and any limit.
THEOREM RecentOfAnyThreads == Spec => []RecentAreLastStored
<1>1. Init => RecentInv
  <2> SUFFICES ASSUME Init  PROVE RecentInv
    OBVIOUS
  <2>1. stored = <<>> /\ \A c \in Crossbows : recent_trajectories_[c] = <<>>
    BY DEF Init
  <2>2. Deque!HoldsLatest(<<>>, {})
    BY BallisticAssumption DEF Deque!HoldsLatest, BallisticAssumption
  <2>3. \A c : Places(<<>>, taken, c) = {}
    BY DEF Places
  <2>4. \A c : LatestStored(<<>>, taken, c, <<>>)
    <3> TAKE c
    <3>1. <<>> \in [DOMAIN <<>> -> DOMAIN <<>>] /\ <<>> = [i \in DOMAIN <<>> |-> <<>>[<<>>[i]]]
      OBVIOUS
    <3> QED  BY <2>2, <2>3, <3>1 DEF LatestStored
  <2> QED  BY <2>1, <2>4 DEF RecentInv
<1>2. TypeOK /\ RecentInv /\ [Next]_vars => RecentInv'
  BY RecentStep
<1> QED  BY <1>1, <1>2, TypeCorrect, RecentInvIs, PTL DEF Spec

-----------------------------------------------------------------------------
(* The connections of the server.                                          *)

Stages == {"none", "wire", "queued", "open", "answered", "reset"}
Pending == {"wire", "queued", "open"}

\* A connection that waits for its answer has its request.
ConnInv ==
    /\ conn = [c \in Clients |-> conn[c]]
    /\ \A c \in Clients :
          /\ conn[c].at \in Stages
          /\ At(c, Pending) => conn[c] = [at |-> conn[c].at, asked |-> conn[c].asked]

\* The thread runs while the server does, and a server that does not listen has no queue.
ThreadInv ==
    /\ server \in {"down", "up", "stopping", "stopped", "dead"}
    /\ thread \in {"none", "accept", "recv", "reply", "ended"}
    /\ Listening => thread # "none"
    /\ server = "up" => thread # "ended"
    /\ ~Listening => thread \in {"none", "ended"} /\ backlog = <<>>

\* The queue has each queued connection once, and nothing else.
BacklogInv ==
    /\ backlog \in Seq(Clients)
    /\ \A i, j \in DOMAIN backlog : backlog[i] = backlog[j] => i = j
    /\ \A c \in Clients : At(c, {"queued"}) <=> c \in Range(backlog)

\* One connection is open, the one served, and its reply is what it is owed.
Serving == thread \in {"recv", "reply"}
ServingInv ==
    /\ Serving => serving.client \in Clients
    /\ \A c \in Clients : At(c, {"open"}) <=> Serving /\ serving.client = c
    /\ thread = "reply" => serving.body = Owed(conn[serving.client].asked)

\* The page asks with a slot only when the one before was answered.
SlotInv ==
    /\ task = [s \in Slots |-> task[s]]
    /\ \A s \in Slots : task[s] = Idle <=> conn[s].at = "none"

ServerSide == ConnInv /\ ThreadInv /\ BacklogInv /\ ServingInv
ServerInv == ServerSide /\ SlotInv

-----------------------------------------------------------------------------
\* The requests of the page, and what page and stranger send.
Kinds == {"load", "sensor", "alerts", "status", "shot", "analysis"}
Sent(c, r) == c = Stranger \/ \E kind \in Kinds : \E id : r = Ask(kind, id)

\* What page and stranger do to a connection: they ask, or forget an answer.
ClientMove(c) ==
    /\ At(c, {"none", "answered", "reset"})
    /\ conn' = [conn EXCEPT ![c] = conn'[c]]
    /\ \/ conn'[c] = NoConn
       \/ conn'[c] = [at |-> "wire", asked |-> conn'[c].asked] /\ Sent(c, conn'[c].asked)

LEMMA FetchMoves ==
  ASSUME ConnInv, SlotInv, NEW s \in Slots, NEW kind \in Kinds, NEW id,
         At(s, {"none", "answered", "reset"}), Fetch(s, kind, id)
  PROVE  ClientMove(s) /\ SlotInv'
<1> DEFINE r == Ask(kind, id)
<1> HIDE DEF r
<1>0. s \in Clients /\ Slots \subseteq Clients
  BY AppAssumption DEF AppAssumption
<1>1. conn' = [conn EXCEPT ![s] = [at |-> "wire", asked |-> r]]
  BY DEF Fetch, Request, r
<1>2. conn'[s] = [at |-> "wire", asked |-> r] /\ \A t \in Clients \ {s} : conn'[t] = conn[t]
  BY <1>0, <1>1 DEF ConnInv
<1>3. task' = [task EXCEPT ![s] = [kind |-> kind]]
  BY DEF Fetch
<1>4. [kind |-> kind] # Idle
  BY DEF Idle, Kinds
<1>5. ClientMove(s)
  <2>1. conn' = [conn EXCEPT ![s] = conn'[s]]
    BY <1>1, <1>2, Zenon
  <2>2. conn'[s] = [at |-> "wire", asked |-> conn'[s].asked] /\ conn'[s].asked = r
    BY <1>2
  <2>3. Sent(s, r)
    BY DEF Sent, r
  <2> QED  BY <2>1, <2>2, <2>3 DEF ClientMove
<1>6. SlotInv'
  BY <1>0, <1>2, <1>3, <1>4 DEF SlotInv
<1> QED  BY <1>5, <1>6

LEMMA EndTaskMoves ==
  ASSUME ConnInv, SlotInv, NEW s \in Slots, At(s, {"answered", "reset"}), EndTask(s)
  PROVE  ClientMove(s) /\ SlotInv'
<1>0. s \in Clients /\ Slots \subseteq Clients
  BY AppAssumption DEF AppAssumption
<1>1. conn' = [conn EXCEPT ![s] = NoConn] /\ task' = [task EXCEPT ![s] = Idle]
  BY DEF EndTask
<1>2. conn'[s] = NoConn /\ \A t \in Clients \ {s} : conn'[t] = conn[t]
  BY <1>0, <1>1 DEF ConnInv
<1>3. ClientMove(s)
  BY <1>1, <1>2 DEF ClientMove, At
<1>4. SlotInv'
  BY <1>0, <1>1, <1>2 DEF SlotInv, NoConn
<1> QED  BY <1>3, <1>4

\* Every step of the page, the user or the stranger moves one connection, or none.
Outside == UserActs \/ StrangerActs \/ \E s \in Slots : Page(s)

LEMMA OutsideMoves ==
  ASSUME ConnInv, SlotInv, Outside
  PROVE  /\ UNCHANGED <<server, thread, serving, backlog>>
         /\ conn' = conn \/ \E c \in Clients : ClientMove(c)
         /\ SlotInv'
<1>0. Slots \subseteq Clients /\ Stranger \in Clients /\ Stranger \notin Slots
  BY WebAssumption DEF WebAssumption
<1>1. \A s \in Slots : task[s] = Idle => At(s, {"none", "answered", "reset"})
  BY DEF SlotInv, At
<1>2. \A kind : \A s \in Slots : Returned(s, kind) => At(s, {"answered", "reset"}) /\ At(s, {"none", "answered", "reset"})
  BY DEF Returned, Over, At
<1>3. ASSUME NEW s \in Slots, User(s)
      PROVE  /\ conn' = conn \/ \E c \in Clients : ClientMove(c)
             /\ SlotInv'
  <2>1. ASSUME NEW id \in types \cup {0}, SelectCrossbow(s, id)
        PROVE  /\ conn' = conn \/ \E c \in Clients : ClientMove(c)
               /\ SlotInv'
    <3>1. CASE id \in types
      BY <1>0, <1>1, <2>1, <3>1, FetchMoves DEF Kinds, SelectCrossbow, Refresh
    <3>2. CASE id \notin types
      BY <2>1, <3>2 DEF SelectCrossbow, SlotInv
    <3> QED  BY <3>1, <3>2
  <2>2. CASE PageShot(s)
    BY <1>0, <1>1, <2>2, FetchMoves DEF Kinds, PageShot
  <2>3. CASE PageAnalysis(s)
    BY <1>0, <1>1, <2>3, FetchMoves DEF Kinds, PageAnalysis
  <2> QED  BY <1>3, <2>1, <2>2, <2>3 DEF User
<1>4. CASE UserActs
  BY <1>3, <1>4 DEF UserActs
<1>5. CASE StrangerActs
  <2>1. PICK r \in Requests : conn' = Request(Stranger, r)
    BY <1>5 DEF StrangerActs
  <2>2. /\ conn'[Stranger] = [at |-> "wire", asked |-> r]
        /\ \A t \in Clients \ {Stranger} : conn'[t] = conn[t]
    BY <1>0, <2>1 DEF Request, ConnInv
  <2>3. ClientMove(Stranger)
    <3>1. conn' = [conn EXCEPT ![Stranger] = conn'[Stranger]]
      BY <2>1, <2>2, Zenon DEF Request
    <3>2. /\ conn'[Stranger] = [at |-> "wire", asked |-> conn'[Stranger].asked]
          /\ Sent(Stranger, conn'[Stranger].asked)
      BY <2>2 DEF Sent
    <3> QED  BY <1>5, <3>1, <3>2 DEF ClientMove, StrangerActs
  <2>4. SlotInv'
    BY <1>0, <1>5, <2>2 DEF SlotInv, StrangerActs, pageVars
  <2> QED  BY <1>0, <1>5, <2>3, <2>4 DEF StrangerActs
<1>6. ASSUME NEW s \in Slots, Page(s)
      PROVE  /\ UNCHANGED <<server, thread, serving, backlog>>
             /\ conn' = conn \/ \E c \in Clients : ClientMove(c)
             /\ SlotInv'
  <2>0. UNCHANGED <<server, thread, serving, backlog>>
    BY <1>6 DEF Page
  <2> SUFFICES ClientMove(s) /\ SlotInv'
    BY <1>0, <2>0
  <2>1. CASE TypesLoaded(s)
    BY <1>0, <1>2, <2>1, FetchMoves DEF Kinds, TypesLoaded, Refresh
  <2>2. CASE SensorData(s)
    BY <1>0, <1>2, <2>2, FetchMoves DEF Kinds, SensorData
  <2>3. CASE Alerts(s)
    BY <1>0, <1>2, <2>3, FetchMoves DEF Kinds, Alerts
  <2>4. CASE Status(s)
    BY <1>0, <1>2, <2>4, EndTaskMoves DEF Status
  <2>5. CASE ShotResult(s)
    BY <1>0, <1>2, <2>5, EndTaskMoves DEF ShotResult
  <2>6. CASE Analysis(s)
    BY <1>0, <1>2, <2>6, EndTaskMoves DEF Analysis
  <2>7. CASE PollSensorData(s)
    BY <1>0, <1>1, <2>7, FetchMoves DEF Kinds, PollSensorData
  <2> QED  BY <1>6, <2>1, <2>2, <2>3, <2>4, <2>5, <2>6, <2>7 DEF Page, Continue
<1> QED  BY <1>4, <1>5, <1>6 DEF Outside

-----------------------------------------------------------------------------
\* The parts of the invariant that the server keeps, and that a request which the page or a
\* stranger sends leaves alone.
LEMMA MoveKeepsInv ==
  ASSUME ConnInv, ThreadInv, BacklogInv, ServingInv, NEW c \in Clients, ClientMove(c),
         UNCHANGED <<server, thread, serving, backlog>>
  PROVE  ConnInv' /\ ThreadInv' /\ BacklogInv' /\ ServingInv'
<1>1. /\ conn'[c].at \in {"none", "wire"}
      /\ \A d \in Clients \ {c} : conn'[d] = conn[d]
      /\ conn' = [d \in Clients |-> conn'[d]]
  BY DEF ClientMove, ConnInv, NoConn
<1>2. conn[c].at \in {"none", "answered", "reset"}
  BY DEF ClientMove, At
<1>3. ConnInv'
  BY <1>1 DEF ConnInv, ClientMove, NoConn, Stages, Pending, At
<1>4. ThreadInv'
  BY DEF ThreadInv, Listening
<1>5. BacklogInv'
  BY <1>1, <1>2 DEF BacklogInv, At
<1>6. ServingInv'
  <2>1. Serving => serving.client # c
    BY <1>2 DEF ServingInv, At
  <2>2. Serving => conn'[serving.client] = conn[serving.client]
    BY <1>1, <2>1 DEF ServingInv
  <2>3. \A d \in Clients : At(d, {"open"})' <=> Serving /\ serving.client = d
    BY <1>1, <1>2 DEF ServingInv, At
  <2> QED  BY <2>2, <2>3 DEF ServingInv, Serving
<1> QED  BY <1>3, <1>4, <1>5, <1>6

LEMMA RangeOfQueue ==
  ASSUME NEW q \in Seq(Clients)
  PROVE  /\ \A c : c \in Range(q) <=> \E i \in 1..Len(q) : q[i] = c
         /\ Range(q) \subseteq Clients
         /\ q # <<>> => /\ Head(q) \in Clients /\ Tail(q) \in Seq(Clients)
                        /\ 1 \in DOMAIN q /\ Head(q) = q[1]
                        /\ Len(Tail(q)) = Len(q) - 1
                        /\ \A i \in 1..Len(q) - 1 : Tail(q)[i] = q[i + 1]
                        /\ q = <<Head(q)>> \o Tail(q)
<1>1. DOMAIN q = 1..Len(q) /\ Len(q) \in Nat /\ \A i \in 1..Len(q) : q[i] \in Clients
  OBVIOUS
<1>2. ASSUME q # <<>>
      PROVE  /\ Head(q) \in Clients /\ Tail(q) \in Seq(Clients)
             /\ 1 \in DOMAIN q /\ Head(q) = q[1]
             /\ Len(Tail(q)) = Len(q) - 1
             /\ \A i \in 1..Len(q) - 1 : Tail(q)[i] = q[i + 1]
             /\ q = <<Head(q)>> \o Tail(q)
  BY <1>1, <1>2, HeadTailProperties
<1> QED  BY <1>1, <1>2 DEF Range

\* The queue after one is taken in ...
LEMMA JoinsBacklog ==
  ASSUME BacklogInv, NEW c \in Clients, At(c, {"wire"}),
         backlog' = Append(backlog, c), conn' = [conn EXCEPT ![c].at = "queued"], ConnInv
  PROVE  BacklogInv'
<1>1. /\ backlog \in Seq(Clients) /\ Len(backlog) \in Nat
      /\ c \notin Range(backlog)
  BY DEF BacklogInv, At
<1>2. /\ backlog' \in Seq(Clients) /\ Len(backlog') = Len(backlog) + 1
      /\ \A i \in 1..Len(backlog) : backlog'[i] = backlog[i]
      /\ backlog'[Len(backlog) + 1] = c
  BY <1>1
<1>3. /\ DOMAIN backlog = 1..Len(backlog) /\ DOMAIN backlog' = 1..Len(backlog) + 1
      /\ \A d : d \in Range(backlog) <=> \E i \in 1..Len(backlog) : backlog[i] = d
      /\ \A d : d \in Range(backlog)' <=> \E i \in 1..Len(backlog) + 1 : backlog'[i] = d
  BY <1>1, <1>2, RangeOfQueue DEF Range
<1>4. \A d : d \in Range(backlog)' <=> d \in Range(backlog) \/ d = c
  BY <1>1, <1>2, <1>3
<1>5. \A i, j \in DOMAIN backlog' : backlog'[i] = backlog'[j] => i = j
  BY <1>1, <1>2, <1>3 DEF BacklogInv
<1>6. \A d \in Clients : At(d, {"queued"})' <=> At(d, {"queued"}) \/ d = c
  BY DEF At, ConnInv
<1> QED  BY <1>2, <1>4, <1>5, <1>6 DEF BacklogInv

\* ... and after the first is accepted.
LEMMA LeavesBacklog ==
  ASSUME BacklogInv, backlog # <<>>, backlog' = Tail(backlog),
         conn' = [conn EXCEPT ![Head(backlog)].at = "open"], ConnInv
  PROVE  BacklogInv' /\ At(Head(backlog), {"queued"})
<1> DEFINE h == Head(backlog)
<1>1. backlog \in Seq(Clients) /\ Len(backlog) \in Nat
  BY DEF BacklogInv
<1>2. /\ h \in Clients /\ backlog' \in Seq(Clients) /\ Len(backlog') = Len(backlog) - 1
      /\ 1 \in 1..Len(backlog) /\ h = backlog[1]
      /\ \A i \in 1..Len(backlog) - 1 : backlog'[i] = backlog[i + 1]
  BY <1>1, RangeOfQueue
<1>3. /\ DOMAIN backlog = 1..Len(backlog) /\ DOMAIN backlog' = 1..Len(backlog) - 1
      /\ \A d : d \in Range(backlog) <=> \E i \in 1..Len(backlog) : backlog[i] = d
      /\ \A d : d \in Range(backlog)' <=> \E i \in 1..Len(backlog) - 1 : backlog'[i] = d
  BY <1>1, <1>2, RangeOfQueue DEF Range
<1>4. \A i, j \in 1..Len(backlog) : backlog[i] = backlog[j] => i = j
  BY <1>3 DEF BacklogInv
<1>5. \A i, j \in DOMAIN backlog' : backlog'[i] = backlog'[j] => i = j
  BY <1>1, <1>2, <1>3, <1>4
<1>6. \A d : d \in Range(backlog)' <=> d \in Range(backlog) /\ d # h
  <2>1. ASSUME NEW i \in 1..Len(backlog) - 1
        PROVE  backlog[i + 1] # h /\ i + 1 \in 1..Len(backlog)
    BY <1>1, <1>2, <1>4
  <2>2. ASSUME NEW i \in 1..Len(backlog), backlog[i] # h
        PROVE  i - 1 \in 1..Len(backlog) - 1 /\ backlog'[i - 1] = backlog[i]
    BY <1>1, <1>2, <2>2
  <2>3. ASSUME NEW d, d \in Range(backlog)'
        PROVE  d \in Range(backlog) /\ d # h
    BY <1>2, <1>3, <2>1, <2>3
  <2>4. ASSUME NEW d, d \in Range(backlog), d # h
        PROVE  d \in Range(backlog)'
    BY <1>3, <2>2, <2>4
  <2> QED  BY <2>3, <2>4
<1>7. h \in Range(backlog)
  BY <1>2, <1>3
<1>8. \A d \in Clients : At(d, {"queued"})' <=> At(d, {"queued"}) /\ d # h
  BY <1>2 DEF At, ConnInv
<1> QED  BY <1>2, <1>5, <1>6, <1>7, <1>8 DEF BacklogInv

LEMMA ArriveKeepsInv ==
  ASSUME ServerSide, NEW c \in Clients, Arrive(c)
  PROVE  ServerSide'
<1>1. /\ conn[c] = [at |-> "wire", asked |-> conn[c].asked]
      /\ conn'[c] = [at |-> "queued", asked |-> conn[c].asked]
      /\ \A d \in Clients \ {c} : conn'[d] = conn[d]
      /\ conn' = [d \in Clients |-> conn'[d]]
  BY DEF ServerSide, Arrive, ConnInv, At, Pending
<1>2. ConnInv'
  BY <1>1 DEF ServerSide, ConnInv, Stages, Pending, At
<1>3. ThreadInv'
  BY DEF ServerSide, Arrive, ThreadInv, Listening
<1>4. BacklogInv'
  BY JoinsBacklog DEF ServerSide, Arrive
<1>5. ServingInv'
  <2>1. UNCHANGED <<thread, serving>> /\ conn[c].at = "wire"
    BY <1>1 DEF Arrive
  <2>2. Serving => serving.client # c
    BY <2>1 DEF ServerSide, ServingInv, At
  <2>3. Serving => conn'[serving.client] = conn[serving.client]
    BY <1>1, <2>2 DEF ServerSide, ServingInv
  <2>4. \A d \in Clients : At(d, {"open"})' <=> Serving /\ serving.client = d
    BY <1>1, <2>2 DEF ServerSide, ServingInv, At
  <2> QED  BY <2>1, <2>3, <2>4 DEF ServerSide, ServingInv, Serving
<1> QED  BY <1>2, <1>3, <1>4, <1>5 DEF ServerSide

LEMMA RefuseKeepsInv ==
  ASSUME ServerSide, NEW c \in Clients, Refuse(c)
  PROVE  ServerSide'
<1>1. /\ conn[c].at = "wire"
      /\ conn'[c] = [at |-> "reset"]
      /\ \A d \in Clients \ {c} : conn'[d] = conn[d]
      /\ conn' = [d \in Clients |-> conn'[d]]
  BY DEF ServerSide, Refuse, ConnInv, At
<1>2. ConnInv'
  BY <1>1 DEF ServerSide, ConnInv, Stages, Pending, At
<1>3. ThreadInv'
  BY DEF ServerSide, Refuse, ThreadInv, Listening
<1>4. BacklogInv'
  BY <1>1 DEF ServerSide, Refuse, BacklogInv, At
<1>5. ServingInv'
  <2>1. UNCHANGED <<thread, serving>>
    BY DEF Refuse
  <2>2. Serving => serving.client # c
    BY <1>1 DEF ServerSide, ServingInv, At
  <2>3. Serving => conn'[serving.client] = conn[serving.client]
    BY <1>1, <2>2 DEF ServerSide, ServingInv
  <2>4. \A d \in Clients : At(d, {"open"})' <=> Serving /\ serving.client = d
    BY <1>1, <2>2 DEF ServerSide, ServingInv, At
  <2> QED  BY <2>1, <2>3, <2>4 DEF ServerSide, ServingInv, Serving
<1> QED  BY <1>2, <1>3, <1>4, <1>5 DEF ServerSide

\* When the process ends nobody waits any more.
LEMMA EndKeepsInv ==
  ASSUME ServerSide, ProcessEnds
  PROVE  ServerSide'
<1>1. /\ server' = "dead" /\ thread' = "none" /\ backlog' = <<>>
      /\ \A c \in Clients : conn'[c] = IF conn[c].at \in Pending THEN [at |-> "reset"] ELSE conn[c]
      /\ conn' = [c \in Clients |-> conn'[c]]
  BY DEF ProcessEnds, ResetAll, Pending
<1>2. \A c \in Clients : conn'[c].at \in {"none", "answered", "reset"}
  BY <1>1 DEF ServerSide, ConnInv, Stages, Pending
<1>3. ConnInv'
  BY <1>1, <1>2 DEF ConnInv, Stages, Pending, At
<1>4. ThreadInv'
  BY <1>1 DEF ThreadInv, Listening
<1>5. BacklogInv'
  BY <1>1, <1>2 DEF BacklogInv, At, Range
<1>6. ServingInv'
  BY <1>1, <1>2 DEF ServingInv, Serving, At
<1> QED  BY <1>3, <1>4, <1>5, <1>6 DEF ServerSide

\* close() of the connection that is served, whatever has come of it.
LEMMA CloseKeepsInv ==
  ASSUME ServerSide, thread = "reply", NEW outcome, outcome.at \in {"answered", "reset"},
         CloseWith(outcome)
  PROVE  ServerSide'
<1> USE DEF ServerSide
<1> DEFINE c == serving.client
<1>1. /\ thread = "reply" /\ thread' = IF server = "up" THEN "accept" ELSE "ended"
      /\ UNCHANGED <<server, backlog>>
  BY DEF CloseWith, Loop
<1>2. c \in Clients /\ conn[c].at = "open"
  BY <1>1 DEF ServingInv, Serving, At
<1>3. /\ conn'[c] = outcome
      /\ \A d \in Clients \ {c} : conn'[d] = conn[d] /\ conn[d].at # "open"
      /\ conn' = [d \in Clients |-> conn'[d]]
  BY <1>1, <1>2 DEF CloseWith, ConnInv, ServingInv, Serving, At
<1> HIDE DEF c
<1>4. ConnInv'
  BY <1>2, <1>3 DEF ConnInv, Stages, Pending, At
<1>5. ThreadInv'
  BY <1>1 DEF ThreadInv, Listening
<1>6. BacklogInv'
  BY <1>1, <1>2, <1>3 DEF BacklogInv, At
<1>7. ServingInv'
  BY <1>1, <1>2, <1>3 DEF ServingInv, Serving, At
<1> QED  BY <1>4, <1>5, <1>6, <1>7

LEMMA ThreadKeepsInv ==
  ASSUME ServerSide, ServerThread
  PROVE  ServerSide'
<1> USE DEF ServerSide
<1>1. CASE Accept
  <2> DEFINE h == Head(backlog)
  <2>1. h \in Clients /\ BacklogInv' /\ conn[h].at = "queued"
    BY <1>1, LeavesBacklog, RangeOfQueue DEF Accept, BacklogInv, At
  <2>2. /\ conn[h] = [at |-> "queued", asked |-> conn[h].asked]
        /\ conn'[h] = [at |-> "open", asked |-> conn[h].asked]
        /\ \A d \in Clients \ {h} : conn'[d] = conn[d]
        /\ conn' = [d \in Clients |-> conn'[d]]
    BY <1>1, <2>1 DEF Accept, ConnInv, At, Pending
  <2>3. thread = "accept" /\ thread' = "recv" /\ server' = server /\ serving' = [client |-> h]
    BY <1>1 DEF Accept
  <2> HIDE DEF h
  <2>4. ConnInv'
    BY <2>1, <2>2 DEF ConnInv, Stages, Pending, At
  <2>5. ThreadInv'
    BY <2>3 DEF ThreadInv, Listening
  <2>6. \A d \in Clients : ~ At(d, {"open"})
    BY <2>3 DEF ServingInv, Serving
  <2>7. ServingInv'
    BY <2>1, <2>2, <2>3, <2>6 DEF ServingInv, Serving, At
  <2> QED  BY <2>1, <2>4, <2>5, <2>7
<1>2. CASE AcceptTimesOut
  <2>1. /\ thread = "accept" /\ thread' = "ended" /\ server # "up"
        /\ UNCHANGED <<server, serving, backlog, conn>>
    BY <1>2 DEF AcceptTimesOut, Loop
  <2>2. ThreadInv'
    BY <2>1 DEF ThreadInv, Listening
  <2>3. ServingInv'
    BY <2>1 DEF ServingInv, Serving, At
  <2>4. ConnInv' /\ BacklogInv'
    BY <2>1 DEF ConnInv, BacklogInv, At
  <2> QED  BY <2>2, <2>3, <2>4
<1>3. CASE Recv
  <2>1. CASE Owed(conn[serving.client].asked) = Ends
    BY <1>3, <2>1, EndKeepsInv DEF Recv
  <2>2. CASE Owed(conn[serving.client].asked) # Ends
    <3>1. /\ thread = "recv" /\ thread' = "reply"
          /\ serving' = [client |-> serving.client, body |-> Owed(conn[serving.client].asked)]
          /\ UNCHANGED <<server, backlog, conn>>
      BY <1>3, <2>2 DEF Recv
    <3>2. ThreadInv'
      BY <3>1 DEF ThreadInv, Listening
    <3>3. ServingInv'
      BY <3>1 DEF ServingInv, Serving, At, Owed
    <3>4. ConnInv' /\ BacklogInv'
      BY <3>1 DEF ConnInv, BacklogInv, At
    <3> QED  BY <3>2, <3>3, <3>4
  <2> QED  BY <2>1, <2>2
<1>4. CASE Reply
  <2>1. CASE CloseWith([at |-> "answered", body |-> serving.body])
    BY <1>4, <2>1, CloseKeepsInv DEF Reply, Gone, Unread
  <2>2. CASE CloseWith([at |-> "reset"])
    BY <1>4, <2>2, CloseKeepsInv DEF Reply, Gone, Unread
  <2>3. CASE ProcessEnds
    BY <2>3, EndKeepsInv
  <2> QED  BY <1>4, <2>1, <2>2, <2>3 DEF Reply, Gone
<1> QED  BY <1>1, <1>2, <1>3, <1>4 DEF ServerThread

LEMMA MainKeepsInv ==
  ASSUME ServerSide, MainThread
  PROVE  ServerSide'
<1> USE DEF ServerSide
<1>1. CASE Start
  <2>1. CASE ProcessEnds
    BY <2>1, EndKeepsInv
  <2>2. CASE ~ProcessEnds
    <3>1. /\ server = "down" /\ server' = "up" /\ thread' = "accept"
          /\ UNCHANGED <<serving, backlog, conn>>
      BY <1>1, <2>2 DEF Start
    <3>2. ThreadInv' /\ ~Serving
      BY <3>1 DEF ThreadInv, Listening, Serving
    <3>3. ServingInv'
      BY <3>1, <3>2 DEF ServingInv, Serving, At
    <3>4. ConnInv' /\ BacklogInv'
      BY <3>1 DEF ConnInv, BacklogInv, At
    <3> QED  BY <3>2, <3>3, <3>4
  <2> QED  BY <2>1, <2>2
<1>2. CASE Stop
  <2>1. /\ server = "up" /\ server' = "stopping"
        /\ UNCHANGED <<thread, serving, backlog, conn>>
    BY <1>2 DEF Stop
  <2>2. ThreadInv'
    BY <2>1 DEF ThreadInv, Listening
  <2>3. ConnInv' /\ BacklogInv' /\ ServingInv'
    BY <2>1 DEF ConnInv, BacklogInv, ServingInv, Serving, At, Owed
  <2> QED  BY <2>2, <2>3
<1>3. CASE Joined
  <2>1. /\ thread = "ended" /\ thread' = "ended" /\ server' = "stopped" /\ backlog' = <<>>
        /\ \A c \in Clients : conn'[c] = IF conn[c].at = "queued" THEN [at |-> "reset"] ELSE conn[c]
        /\ conn' = [c \in Clients |-> conn'[c]]
    BY <1>3 DEF Joined, ResetAll
  <2>2. ConnInv'
    BY <2>1 DEF ConnInv, Stages, Pending, At
  <2>3. ThreadInv'
    BY <2>1 DEF ThreadInv, Listening
  <2>4. BacklogInv'
    BY <2>1 DEF BacklogInv, At, Range
  <2>5. ServingInv'
    BY <2>1 DEF ServingInv, Serving, At
  <2> QED  BY <2>2, <2>3, <2>4, <2>5
<1> QED  BY <1>1, <1>2, <1>3 DEF MainThread

\* The server's steps: what the kernel, the server's thread and main() do.
ServerStep == (\E c \in Clients : Network(c)) \/ Server \/ Main

\* None of them makes a client forget, or ask: a connection stays, goes on, is reset, or is
\* answered with what its request is owed.
LEMMA ServerStepMoves ==
  ASSUME ServerSide, ServerStep, NEW c \in Clients
  PROVE  \/ conn'[c] = conn[c]
         \/ conn[c].at \in Pending /\ conn'[c].at \in Pending /\ conn'[c].asked = conn[c].asked
         \/ conn[c].at \in Pending /\ conn'[c] = [at |-> "reset"]
         \/ conn[c].at \in Pending /\ conn'[c] = [at |-> "answered", body |-> Owed(conn[c].asked)]
<1> USE DEF ServerSide
<1>1. ASSUME NEW S, S \subseteq Pending, conn' = ResetAll(S)
      PROVE  conn'[c] = conn[c] \/ (conn[c].at \in Pending /\ conn'[c] = [at |-> "reset"])
  BY <1>1 DEF ResetAll
<1>2. ASSUME NEW d \in Clients, Arrive(d)
      PROVE  conn'[c] = conn[c] \/ (conn[c].at \in Pending /\ conn'[c].at \in Pending /\ conn'[c].asked = conn[c].asked)
  <2>1. conn[d] = [at |-> "wire", asked |-> conn[d].asked]
    BY <1>2 DEF Arrive, ConnInv, At, Pending
  <2> QED  BY <1>2, <2>1 DEF Arrive, ConnInv, Pending
<1>3. ASSUME NEW d \in Clients, Refuse(d)
      PROVE  conn'[c] = conn[c] \/ (conn[c].at \in Pending /\ conn'[c] = [at |-> "reset"])
  BY <1>3 DEF Refuse, ConnInv, At, Pending
<1>4. ASSUME Accept
      PROVE  conn'[c] = conn[c] \/ (conn[c].at \in Pending /\ conn'[c].at \in Pending /\ conn'[c].asked = conn[c].asked)
  <2>1. Head(backlog) \in Clients /\ conn[Head(backlog)].at = "queued"
    BY <1>4, LeavesBacklog, RangeOfQueue DEF Accept, BacklogInv, At
  <2>2. conn[Head(backlog)] = [at |-> "queued", asked |-> conn[Head(backlog)].asked]
    BY <2>1 DEF ConnInv, At, Pending
  <2> QED  BY <1>4, <2>1, <2>2 DEF Accept, ConnInv, Pending
<1>5. ASSUME Recv
      PROVE  conn'[c] = conn[c] \/ (conn[c].at \in Pending /\ conn'[c] = [at |-> "reset"])
  BY <1>1, <1>5 DEF Recv, ProcessEnds, Pending
<1>6. ASSUME Reply
      PROVE  \/ conn'[c] = conn[c]
             \/ conn[c].at \in Pending /\ conn'[c] = [at |-> "reset"]
             \/ conn[c].at \in Pending /\ conn'[c] = [at |-> "answered", body |-> Owed(conn[c].asked)]
  <2>1. /\ serving.client \in Clients /\ conn[serving.client].at = "open"
        /\ serving.body = Owed(conn[serving.client].asked)
    BY <1>6 DEF Reply, Gone, Unread, ServingInv, Serving, At
  <2>2. CASE CloseWith([at |-> "answered", body |-> serving.body])
    BY <2>1, <2>2 DEF CloseWith, ConnInv, Pending
  <2>3. CASE CloseWith([at |-> "reset"])
    BY <2>1, <2>3 DEF CloseWith, ConnInv, Pending
  <2>4. CASE ProcessEnds
    BY <1>1, <2>4 DEF ProcessEnds, Pending
  <2> QED  BY <1>6, <2>2, <2>3, <2>4 DEF Reply, Gone
<1>7. ASSUME MainThread
      PROVE  conn'[c] = conn[c] \/ (conn[c].at \in Pending /\ conn'[c] = [at |-> "reset"])
  BY <1>1, <1>7 DEF MainThread, Start, Stop, Joined, ProcessEnds, Pending
<1>8. CASE \E d \in Clients : Network(d)
  BY <1>2, <1>3, <1>8 DEF Network
<1>9. CASE Server
  <2>1. CASE AcceptTimesOut
    BY <2>1 DEF AcceptTimesOut
  <2> QED  BY <1>4, <1>5, <1>6, <1>9, <2>1 DEF Server, ServerThread
<1>10. CASE Main
  BY <1>7, <1>10 DEF Main
<1> QED  BY <1>8, <1>9, <1>10 DEF ServerStep

LEMMA ServerStepKeepsInv ==
  ASSUME ServerSide, SlotInv, ServerStep
  PROVE  ServerSide' /\ SlotInv'
<1>1. ServerSide'
  BY ArriveKeepsInv, RefuseKeepsInv, ThreadKeepsInv, MainKeepsInv DEF ServerStep, Network, Server, Main
<1>2. \A c \in Clients : conn'[c].at = "none" <=> conn[c].at = "none"
  <2> SUFFICES ASSUME NEW c \in Clients PROVE conn'[c].at = "none" <=> conn[c].at = "none"
    OBVIOUS
  <2>1. CASE conn'[c] = conn[c]
    BY <2>1
  <2>2. CASE conn[c].at \in Pending /\ conn'[c].at \in Pending
    BY <2>2 DEF Pending
  <2>3. CASE conn[c].at \in Pending /\ conn'[c] = [at |-> "reset"]
    BY <2>3 DEF Pending
  <2>4. CASE conn[c].at \in Pending /\ conn'[c] = [at |-> "answered", body |-> Owed(conn[c].asked)]
    BY <2>4 DEF Pending
  <2> QED  BY <2>1, <2>2, <2>3, <2>4, ServerStepMoves
<1>3. task' = task /\ Slots \subseteq Clients
  BY WebAssumption DEF ServerStep, Network, Server, Main, pageVars, WebAssumption
<1>4. SlotInv'
  BY <1>2, <1>3 DEF SlotInv
<1> QED  BY <1>1, <1>4

LEMMA InitServer == WebInit => ServerInv
<1> SUFFICES ASSUME WebInit PROVE ServerInv
  OBVIOUS
<1> DEFINE first == CHOOSE s \in Slots : TRUE
           wire == [at |-> "wire", asked |-> Ask("load", 0)]
<1>1. /\ server = "down" /\ thread = "none" /\ backlog = <<>>
      /\ task = [s \in Slots |-> IF s = first THEN [kind |-> "load"] ELSE Idle]
      /\ conn = [c \in Clients |-> IF c = first THEN wire ELSE NoConn]
  BY DEF WebInit, ServerInit, PageInit
<1>2. Slots \subseteq Clients
  BY WebAssumption DEF WebAssumption
<1>3. wire = [at |-> "wire", asked |-> wire.asked] /\ wire.at = "wire" /\ NoConn.at = "none"
  BY DEF NoConn
<1>4. [kind |-> "load"] # Idle
  BY DEF Idle
<1> HIDE DEF first, wire
<1>5. conn = [c \in Clients |-> conn[c]] /\ \A c \in Clients : conn[c] \in {wire, NoConn}
  BY <1>1
<1>6. ConnInv
  BY <1>3, <1>5 DEF ConnInv, Stages, At, Pending
<1>7. ThreadInv
  BY <1>1 DEF ThreadInv, Listening
<1>8. BacklogInv
  BY <1>1, <1>3, <1>5 DEF BacklogInv, At, Range
<1>9. ServingInv
  BY <1>1, <1>3, <1>5 DEF ServingInv, Serving, At
<1>10. SlotInv
  BY <1>1, <1>2, <1>3, <1>4 DEF SlotInv
<1> QED  BY <1>6, <1>7, <1>8, <1>9, <1>10 DEF ServerInv, ServerSide

LEMMA StepServer == ServerInv /\ [WebNext]_webVars => ServerInv'
<1> SUFFICES ASSUME ServerInv, [WebNext]_webVars PROVE ServerInv'
  OBVIOUS
<1> USE DEF ServerInv
<1>1. CASE Outside
  <2>1. SlotInv' /\ UNCHANGED <<server, thread, serving, backlog>>
    BY <1>1, OutsideMoves DEF ServerSide
  <2>2. CASE conn' = conn
    BY <2>1, <2>2 DEF ServerSide, ConnInv, ThreadInv, BacklogInv, ServingInv, Serving, At, Listening, Owed
  <2>3. CASE \E c \in Clients : ClientMove(c)
    BY <2>1, <2>3, MoveKeepsInv DEF ServerSide
  <2> QED  BY <1>1, <2>1, <2>2, <2>3, OutsideMoves DEF ServerSide
<1>2. CASE ServerStep
  BY <1>2, ServerStepKeepsInv
<1>3. CASE UNCHANGED webVars
  <2>1. UNCHANGED <<server, thread, serving, backlog, conn, task>>
    BY <1>3 DEF webVars, serverVars, pageVars
  <2>2. ServerSide'
    BY <2>1 DEF ServerSide, ConnInv, ThreadInv, BacklogInv, ServingInv, Serving, At, Listening, Owed
  <2>3. SlotInv'
    BY <2>1 DEF SlotInv
  <2> QED  BY <2>2, <2>3
<1> QED  BY <1>1, <1>2, <1>3 DEF WebNext, Outside, ServerStep

THEOREM ServerInvariant == WebSpec => []ServerInv
<1>1. WebSpec => WebInit /\ [][WebNext]_webVars
  BY DEF WebSpec
<1> QED  BY <1>1, InitServer, StepServer, PTL

-----------------------------------------------------------------------------
\* What the abstract state is, at each place of a connection.
LEMMA CallIs ==
  ASSUME NEW c \in Clients
  PROVE  /\ conn[c].at \in Pending => /\ Calls[c] = [at |-> "waiting", owed |-> Owed(conn[c].asked)]
                                      /\ Calls[c].at = "waiting" /\ Calls[c].owed = Owed(conn[c].asked)
         /\ conn[c].at \notin Pending => Calls[c] = conn[c]
         /\ Exchange!Waiting(c) <=> Calls[c].at = "waiting"
BY DEF Calls, CallOf, At, Pending, Exchange!Waiting

LEMMA CallWillBe ==
  ASSUME NEW c \in Clients
  PROVE  /\ conn'[c].at \in Pending => /\ Calls'[c] = [at |-> "waiting", owed |-> Owed(conn'[c].asked)]
                                       /\ Calls'[c].at = "waiting"
         /\ conn'[c].at \notin Pending => Calls'[c] = conn'[c]
BY DEF Calls, CallOf, At, Pending, Owed

LEMMA CallsAre ==
  /\ Calls = [c \in Clients |-> Calls[c]]
  /\ Calls' = [c \in Clients |-> Calls'[c]]
BY DEF Calls

\* What a client waits for is settled by its request, wherever its connection is.
LEMMA CallStays ==
  ASSUME NEW c \in Clients,
         \/ conn'[c] = conn[c]
         \/ conn[c].at \in Pending /\ conn'[c].at \in Pending /\ conn'[c].asked = conn[c].asked
  PROVE  Calls'[c] = Calls[c]
<1>1. CASE conn'[c] = conn[c]
  <2>1. CASE conn[c].at \in Pending
    BY <1>1, <2>1, CallIs, CallWillBe
  <2>2. CASE conn[c].at \notin Pending
    <3>1. Calls[c] = conn[c]
      BY <2>2, CallIs
    <3>2. conn'[c].at \notin Pending
      BY <1>1, <2>2
    <3>3. Calls'[c] = conn'[c]
      BY <3>2, CallWillBe
    <3> QED  BY <1>1, <3>1, <3>3
  <2> QED  BY <2>1, <2>2
<1>2. CASE conn[c].at \in Pending /\ conn'[c].at \in Pending /\ conn'[c].asked = conn[c].asked
  BY <1>2, CallIs, CallWillBe
<1> QED  BY <1>1, <1>2

LEMMA WaitingIs ==
  ASSUME ConnInv, NEW c \in Clients
  PROVE  Exchange!Waiting(c) <=> conn[c].at \in Pending
<1>1. conn[c].at # "waiting"
  BY DEF ConnInv, Stages
<1> QED  BY <1>1, CallIs

\* Those taken in are the queued and the one served.
LEMMA InLineIs ==
  ASSUME ServerSide, NEW c \in Clients
  PROVE  /\ c \in Exchange!InLine <=> conn[c].at \in {"queued", "open"}
         /\ TakenIn \in Seq(Clients)
<1>1. backlog \in Seq(Clients)
  BY DEF ServerSide, BacklogInv
<1>2. /\ c \in Range(backlog) <=> conn[c].at = "queued"
      /\ conn[c].at = "open" <=> Serving /\ serving.client = c
      /\ Serving => serving.client \in Clients
  BY DEF ServerSide, BacklogInv, ServingInv, At
<1>3. CASE ~Serving
  BY <1>1, <1>2, <1>3 DEF TakenIn, Serving, Exchange!InLine, Range
<1>4. CASE Serving
  <2>1. TakenIn = <<serving.client>> \o backlog
    BY <1>4 DEF TakenIn, Serving
  <2>2. /\ Len(backlog) \in Nat
        /\ TakenIn \in Seq(Clients) /\ DOMAIN TakenIn = 1..Len(backlog) + 1
        /\ TakenIn[1] = serving.client
        /\ \A i \in 1..Len(backlog) : TakenIn[i + 1] = backlog[i]
    BY <1>1, <1>2, <1>4, <2>1
  <2>3. ASSUME NEW i \in 1..Len(backlog)
        PROVE  i + 1 \in DOMAIN TakenIn /\ TakenIn[i + 1] = backlog[i]
    BY <2>2, <2>3
  <2>4. ASSUME NEW i \in DOMAIN TakenIn, i # 1
        PROVE  i - 1 \in 1..Len(backlog) /\ TakenIn[i] = backlog[i - 1]
    BY <2>2, <2>4
  <2>5. c \in Exchange!InLine <=> c = serving.client \/ c \in Range(backlog)
    <3>1. c \in Exchange!InLine <=> \E i \in DOMAIN TakenIn : TakenIn[i] = c
      BY DEF Exchange!InLine
    <3>2. c \in Range(backlog) <=> \E i \in 1..Len(backlog) : backlog[i] = c
      BY <1>1, RangeOfQueue
    <3>3. 1 \in DOMAIN TakenIn
      BY <2>2
    <3> QED  BY <2>2, <2>3, <2>4, <3>1, <3>2, <3>3
  <2> QED  BY <1>2, <1>4, <2>2, <2>5
<1> QED  BY <1>3, <1>4

-----------------------------------------------------------------------------
\* A request or a forgotten answer is a turn of its client.
LEMMA MoveIsTurn ==
  ASSUME ServerSide, NEW c \in Clients, ClientMove(c),
         UNCHANGED <<server, thread, serving, backlog>>
  PROVE  Exchange!Turn(c)
<1>1. /\ conn[c].at \in {"none", "answered", "reset"}
      /\ conn'[c].at \in {"none", "wire"}
      /\ \A d \in Clients \ {c} : conn'[d] = conn[d]
  BY DEF ClientMove, ServerSide, ConnInv, At, NoConn
<1>2. ~ Exchange!Waiting(c)
  BY <1>1, WaitingIs DEF ServerSide, Pending
<1>3. Calls'[c].at \in {"none", "waiting"}
  BY <1>1, CallWillBe DEF Pending
<1>4. \A d \in Clients \ {c} : Calls'[d] = Calls[d]
  BY <1>1, CallStays
<1>5. Calls' = [Calls EXCEPT ![c] = Calls'[c]]
  BY <1>4, CallsAre
<1>6. Phase' = Phase /\ TakenIn' = TakenIn
  BY DEF Phase, Listening, TakenIn
<1> QED  BY <1>2, <1>3, <1>5, <1>6 DEF Exchange!Turn

LEMMA ArriveIsJoin ==
  ASSUME ServerSide, NEW c \in Clients, Arrive(c)
  PROVE  Exchange!Join(c)
<1>1. /\ conn[c].at = "wire" /\ Listening /\ server # "down"
      /\ backlog' = Append(backlog, c) /\ backlog \in Seq(Clients)
      /\ UNCHANGED <<server, thread, serving>>
  BY DEF Arrive, At, Listening, ServerSide, BacklogInv
<1>2. /\ conn'[c].at = "queued" /\ conn'[c].asked = conn[c].asked
      /\ \A d \in Clients \ {c} : conn'[d] = conn[d]
  BY <1>1 DEF Arrive, ServerSide, ConnInv, At, Pending
<1>3. Calls' = Calls
  <2>1. ASSUME NEW d \in Clients PROVE Calls'[d] = Calls[d]
    BY <1>1, <1>2, CallStays DEF Pending
  <2> QED  BY <2>1, CallsAre
<1>4. Phase = "open" /\ Phase' = Phase
  BY <1>1 DEF Phase, Listening
<1>5. Exchange!Waiting(c) /\ c \notin Exchange!InLine
  BY <1>1, WaitingIs, InLineIs DEF ServerSide, Pending
<1>6. TakenIn' = Append(TakenIn, c)
  <2>1. CASE Serving
    <3>1. serving.client \in Clients
      BY <2>1 DEF ServerSide, ServingInv
    <3>2. <<serving.client>> \o Append(backlog, c) = Append(<<serving.client>> \o backlog, c)
      BY <1>1, <3>1
    <3> QED  BY <1>1, <2>1, <3>2 DEF TakenIn, Serving
  <2>2. CASE ~Serving
    BY <1>1, <2>2 DEF TakenIn, Serving
  <2> QED  BY <2>1, <2>2
<1> QED  BY <1>3, <1>4, <1>5, <1>6 DEF Exchange!Join

LEMMA RefuseIsGiveUp ==
  ASSUME ServerSide, NEW c \in Clients, Refuse(c)
  PROVE  Exchange!GiveUp(c)
<1>1. /\ conn[c].at = "wire"
      /\ conn'[c] = [at |-> "reset"]
      /\ \A d \in Clients \ {c} : conn'[d] = conn[d]
      /\ UNCHANGED <<server, thread, serving, backlog>>
  BY DEF Refuse, ServerSide, ConnInv, At
<1>2. Calls' = Exchange!Reset({c})
  <2>1. Calls'[c] = [at |-> "reset"]
    <3>1. conn'[c].at \notin Pending
      BY <1>1 DEF Pending
    <3> QED  BY <1>1, <3>1, CallWillBe
  <2>2. \A d \in Clients \ {c} : Calls'[d] = Calls[d]
    BY <1>1, CallStays
  <2> QED  BY <2>1, <2>2, CallsAre DEF Exchange!Reset
<1>3. Phase' = Phase /\ TakenIn' = TakenIn
  BY <1>1 DEF Phase, Listening, TakenIn
<1>4. Exchange!Waiting(c) /\ c \notin Exchange!InLine
  BY <1>1, WaitingIs, InLineIs DEF ServerSide, Pending
<1> QED  BY <1>2, <1>3, <1>4 DEF Exchange!GiveUp

\* Whatever ends the process, everybody who waits is reset.
LEMMA EndIsEnd ==
  ASSUME ServerSide, ProcessEnds,
         \/ Phase = "new"
         \/ /\ Phase = "open" /\ TakenIn # <<>>
            /\ Calls[Head(TakenIn)].owed = Ends \/ Head(TakenIn) \notin Readers
  PROVE  Exchange!End
<1>1. \A c \in Clients : conn'[c] = IF conn[c].at \in Pending THEN [at |-> "reset"] ELSE conn[c]
  BY DEF ProcessEnds, ResetAll, Pending
<1>2. ASSUME NEW c \in Clients
      PROVE  Calls'[c] = IF Exchange!Waiting(c) THEN [at |-> "reset"] ELSE Calls[c]
  <2>1. CASE conn[c].at \in Pending
    <3>1. conn'[c] = [at |-> "reset"] /\ conn'[c].at \notin Pending
      BY <1>1, <2>1 DEF Pending
    <3> QED  BY <2>1, <3>1, CallWillBe, CallIs
  <2>2. CASE conn[c].at \notin Pending
    <3>1. conn'[c] = conn[c]
      BY <1>1, <2>2
    <3>2. ~Exchange!Waiting(c)
      BY <2>2, WaitingIs DEF ServerSide
    <3> QED  BY <3>1, <3>2, CallStays
  <2> QED  BY <2>1, <2>2
<1>3. Calls' = Exchange!Reset({c \in Clients : Exchange!Waiting(c)})
  BY <1>2, CallsAre DEF Exchange!Reset
<1>4. Phase' = "closed" /\ TakenIn' = <<>>
  BY DEF ProcessEnds, Phase, Listening, TakenIn
<1> QED  BY <1>3, <1>4 DEF Exchange!End

LEMMA ThreadIsExchange ==
  ASSUME ServerSide, ServerThread
  PROVE  \/ Exchange!Answer \/ Exchange!Lost \/ Exchange!End
         \/ UNCHANGED <<Phase, TakenIn, Calls>>
<1>0. backlog \in Seq(Clients)
  BY DEF ServerSide, BacklogInv
<1>1. CASE Accept
  <2> DEFINE h == Head(backlog)
  <2>1. /\ h \in Clients /\ conn[h].at = "queued"
        /\ backlog = <<h>> \o Tail(backlog)
    BY <1>0, <1>1, LeavesBacklog, RangeOfQueue DEF ServerSide, Accept, BacklogInv, At
  <2>2. /\ conn'[h].at = "open" /\ conn'[h].asked = conn[h].asked
        /\ \A d \in Clients \ {h} : conn'[d] = conn[d]
    BY <1>1, <2>1 DEF ServerSide, Accept, ConnInv, At, Pending
  <2>3. /\ thread = "accept" /\ thread' = "recv" /\ server' = server
        /\ serving' = [client |-> h] /\ backlog' = Tail(backlog)
    BY <1>1 DEF Accept
  <2> HIDE DEF h
  <2>4. Calls' = Calls
    <3>1. ASSUME NEW d \in Clients PROVE Calls'[d] = Calls[d]
      BY <2>1, <2>2, CallStays DEF Pending
    <3> QED  BY <3>1, CallsAre
  <2>5. TakenIn' = TakenIn /\ Phase' = Phase
    BY <2>1, <2>3 DEF TakenIn, Phase, Listening
  <2> QED  BY <2>4, <2>5
<1>2. CASE AcceptTimesOut
  <2>1. /\ thread = "accept" /\ thread' = "ended"
        /\ UNCHANGED <<server, serving, backlog, conn>>
    BY <1>2 DEF AcceptTimesOut, Loop
  <2>2. Calls' = Calls
    BY <2>1, CallStays, CallsAre
  <2> QED  BY <2>1, <2>2 DEF TakenIn, Phase, Listening
<1>3. ASSUME Serving
      PROVE  /\ Phase = "open" /\ server \in {"up", "stopping"} /\ TakenIn # <<>>
             /\ serving.client \in Clients /\ conn[serving.client].at = "open"
             /\ Head(TakenIn) = serving.client /\ Tail(TakenIn) = backlog
  <2>1. Listening /\ server # "down"
    BY <1>3 DEF ServerSide, ThreadInv, Serving, Listening
  <2>2. serving.client \in Clients /\ conn[serving.client].at = "open"
    BY <1>3 DEF ServerSide, ServingInv, At
  <2>3. TakenIn = <<serving.client>> \o backlog
    BY <1>3 DEF TakenIn, Serving
  <2>4. TakenIn # <<>> /\ Head(TakenIn) = serving.client /\ Tail(TakenIn) = backlog
    BY <1>0, <2>2, <2>3
  <2> QED  BY <2>1, <2>2, <2>4 DEF Phase, Listening
<1>4. CASE Recv
  <2>1. CASE Owed(conn[serving.client].asked) = Ends
    <3>1. Serving /\ ProcessEnds
      BY <1>4, <2>1 DEF Recv, Serving
    <3>2. Calls[Head(TakenIn)].owed = Ends
      <4>1. /\ Head(TakenIn) = serving.client /\ serving.client \in Clients
            /\ conn[serving.client].at \in Pending
        BY <1>3, <3>1 DEF Pending
      <4> QED  BY <2>1, <4>1, CallIs
    <3> QED  BY <1>3, <3>1, <3>2, EndIsEnd
  <2>2. CASE Owed(conn[serving.client].asked) # Ends
    <3>1. /\ thread = "recv" /\ thread' = "reply" /\ serving'.client = serving.client
          /\ UNCHANGED <<server, backlog, conn>>
      BY <1>4, <2>2 DEF Recv
    <3>2. Calls' = Calls
      BY <3>1, CallStays, CallsAre
    <3> QED  BY <3>1, <3>2 DEF TakenIn, Phase, Listening
  <2> QED  BY <2>1, <2>2
<1>5. CASE Reply
  <2> DEFINE c == serving.client
  <2>1. thread = "reply" /\ Serving
    BY <1>5 DEF Reply, Gone, Unread, Serving
  <2>2. serving.body = Owed(conn[c].asked)
    BY <2>1 DEF ServerSide, ServingInv
  <2>3. c \in Clients /\ conn[c].at = "open" /\ conn[c].at \in Pending
    BY <1>3, <2>1 DEF Pending
  <2>4. Calls[c].owed = Owed(conn[c].asked)
    BY <2>3, CallIs
  <2>5. ASSUME NEW outcome, outcome.at \in {"answered", "reset"}, CloseWith(outcome)
        PROVE  /\ Calls' = [Calls EXCEPT ![c] = outcome]
               /\ TakenIn' = backlog /\ Phase' = Phase
    <3>1. conn'[c] = outcome /\ \A d \in Clients \ {c} : conn'[d] = conn[d]
      BY <2>3, <2>5 DEF ServerSide, ConnInv, CloseWith
    <3>2. UNCHANGED <<server, backlog>> /\ thread' \in {"accept", "ended"}
      BY <2>5 DEF CloseWith, Loop
    <3>3. conn'[c].at \notin Pending
      BY <2>5, <3>1 DEF Pending
    <3>4. Calls'[c] = outcome
      BY <2>3, <3>1, <3>3, CallWillBe
    <3>5. \A d \in Clients \ {c} : Calls'[d] = Calls[d]
      BY <3>1, CallStays
    <3> QED  BY <3>2, <3>4, <3>5, CallsAre DEF TakenIn, Phase, Listening
  <2>6. CASE CloseWith([at |-> "answered", body |-> serving.body])
    <3>1. Calls' = [Calls EXCEPT ![c] = [at |-> "answered", body |-> Calls[c].owed]]
      BY <2>2, <2>4, <2>5, <2>6
    <3>2. TakenIn' = backlog /\ Phase' = Phase
      BY <2>5, <2>6
    <3> QED  BY <1>3, <2>1, <3>1, <3>2 DEF Exchange!Answer
  <2>7. CASE c \notin Readers /\ CloseWith([at |-> "reset"])
    <3>1. /\ Calls' = [Calls EXCEPT ![c] = [at |-> "reset"]]
          /\ TakenIn' = backlog /\ Phase' = Phase
      BY <2>5, <2>7
    <3>2. Calls' = Exchange!Reset({c})
      BY <2>3, <3>1, CallsAre DEF Exchange!Reset
    <3> QED  BY <1>3, <2>1, <2>7, <3>1, <3>2 DEF Exchange!Lost
  <2>8. CASE c \notin Readers /\ ProcessEnds
    BY <1>3, <2>1, <2>8, EndIsEnd
  <2> QED  BY <1>5, <2>6, <2>7, <2>8 DEF Reply, Gone, Unread
<1> QED  BY <1>1, <1>2, <1>4, <1>5 DEF ServerThread

LEMMA MainIsExchange ==
  ASSUME ServerSide, MainThread
  PROVE  Exchange!Open \/ Exchange!End \/ Exchange!Close \/ UNCHANGED <<Phase, TakenIn, Calls>>
<1>1. CASE Start
  <2>1. server = "down" /\ Phase = "new"
    BY <1>1 DEF Start, Phase
  <2>2. CASE ProcessEnds
    BY <2>1, <2>2, EndIsEnd
  <2>3. CASE ~ProcessEnds
    <3>1. server' = "up" /\ thread' = "accept" /\ UNCHANGED <<serving, backlog, conn>>
      BY <1>1, <2>3 DEF Start
    <3>2. thread \notin {"recv", "reply"}
      BY <2>1 DEF ServerSide, ThreadInv, Listening
    <3>3. Calls' = Calls
      BY <3>1, CallStays, CallsAre
    <3>4. Phase' = "open" /\ TakenIn' = TakenIn
      BY <3>1, <3>2 DEF Phase, Listening, TakenIn
    <3> QED  BY <2>1, <3>3, <3>4 DEF Exchange!Open
  <2> QED  BY <2>2, <2>3
<1>2. CASE Stop
  <2>1. /\ server = "up" /\ server' = "stopping"
        /\ UNCHANGED <<thread, serving, backlog, conn>>
    BY <1>2 DEF Stop
  <2>2. Calls' = Calls
    BY <2>1, CallStays, CallsAre
  <2> QED  BY <2>1, <2>2 DEF Phase, Listening, TakenIn
<1>3. CASE Joined
  <2>1. /\ server = "stopping" /\ server' = "stopped"
        /\ thread = "ended" /\ thread' = "ended" /\ backlog' = <<>>
        /\ \A c \in Clients : conn'[c] = IF conn[c].at = "queued" THEN [at |-> "reset"] ELSE conn[c]
    BY <1>3 DEF Joined, ResetAll
  <2>2. Phase = "open" /\ Phase' = "closed" /\ TakenIn' = <<>>
    BY <2>1 DEF Phase, Listening, TakenIn
  <2>3. ASSUME NEW c \in Clients
        PROVE  Calls'[c] = IF c \in Exchange!InLine THEN [at |-> "reset"] ELSE Calls[c]
    <3>1. conn[c].at # "open"
      BY <2>1 DEF ServerSide, ServingInv, Serving, At
    <3>2. c \in Exchange!InLine <=> conn[c].at = "queued"
      BY <3>1, InLineIs
    <3>3. CASE conn[c].at = "queued"
      <4>1. conn'[c] = [at |-> "reset"] /\ conn'[c].at \notin Pending
        BY <2>1, <3>3 DEF Pending
      <4> QED  BY <3>2, <3>3, <4>1, CallWillBe
    <3>4. CASE conn[c].at # "queued"
      <4>1. conn'[c] = conn[c]
        BY <2>1, <3>4
      <4> QED  BY <3>2, <3>4, <4>1, CallStays
    <3> QED  BY <3>3, <3>4
  <2>4. Calls' = Exchange!Reset(Exchange!InLine)
    BY <2>3, CallsAre DEF Exchange!Reset
  <2> QED  BY <2>2, <2>4 DEF Exchange!Close
<1> QED  BY <1>1, <1>2, <1>3 DEF MainThread

LEMMA StepIsExchange ==
  ServerInv /\ [WebNext]_webVars => [Exchange!ExchangeNext]_(Exchange!exchangeVars)
<1> SUFFICES ASSUME ServerInv, [WebNext]_webVars
             PROVE  Exchange!ExchangeNext \/ UNCHANGED <<Phase, TakenIn, Calls>>
  BY DEF Exchange!exchangeVars
<1> USE DEF ServerInv
<1>0. ASSUME UNCHANGED <<server, thread, serving, backlog, conn>>
      PROVE  UNCHANGED <<Phase, TakenIn, Calls>>
  <2>1. Calls' = Calls
    BY <1>0, CallStays, CallsAre
  <2> QED  BY <1>0, <2>1 DEF Phase, Listening, TakenIn
<1>1. CASE Outside
  <2>1. /\ UNCHANGED <<server, thread, serving, backlog>>
        /\ conn' = conn \/ \E c \in Clients : ClientMove(c)
    BY <1>1, OutsideMoves DEF ServerSide
  <2>2. ASSUME NEW c \in Clients, ClientMove(c) PROVE Exchange!ExchangeNext
    BY <2>1, <2>2, MoveIsTurn DEF Exchange!ExchangeNext
  <2> QED  BY <1>0, <2>1, <2>2
<1>2. CASE \E c \in Clients : Network(c)
  BY <1>2, ArriveIsJoin, RefuseIsGiveUp DEF Network, Exchange!ExchangeNext
<1>3. CASE Server
  BY <1>3, ThreadIsExchange DEF Server, Exchange!ExchangeNext
<1>4. CASE Main
  BY <1>4, MainIsExchange DEF Main, Exchange!ExchangeNext
<1>5. CASE UNCHANGED webVars
  BY <1>0, <1>5 DEF webVars, serverVars
<1> QED  BY <1>1, <1>2, <1>3, <1>4, <1>5 DEF WebNext, Outside

LEMMA InitIsExchange == WebInit => Exchange!ExchangeInit
<1> SUFFICES ASSUME WebInit PROVE Exchange!ExchangeInit
  OBVIOUS
<1> DEFINE first == CHOOSE s \in Slots : TRUE
           wire == [at |-> "wire", asked |-> Ask("load", 0)]
<1>1. /\ server = "down" /\ thread = "none" /\ backlog = <<>>
      /\ conn = [c \in Clients |-> IF c = first THEN wire ELSE NoConn]
  BY DEF WebInit, ServerInit, PageInit
<1>2. wire.at \in Pending /\ NoConn.at \notin Pending /\ NoConn.at = "none"
  BY DEF NoConn, Pending
<1> HIDE DEF first, wire
<1>3. ASSUME NEW c \in Clients
      PROVE  Calls[c].at \in {"none", "waiting"}
  <2>1. conn[c] = wire \/ conn[c] = NoConn
    BY <1>1
  <2>2. CASE conn[c] = wire
    BY <1>2, <2>2, CallIs
  <2>3. CASE conn[c] = NoConn
    <3>1. Calls[c] = NoConn
      BY <1>2, <2>3, CallIs
    <3> QED  BY <1>2, <3>1
  <2> QED  BY <2>1, <2>2, <2>3
<1>4. Phase = "new" /\ TakenIn = <<>>
  BY <1>1 DEF Phase, TakenIn
<1> QED  BY <1>3, <1>4 DEF Exchange!ExchangeInit

\* The server gives each client the exchange that Exchange describes.
THEOREM ServerIsExchange == WebSpec => ImplementsExchange
<1>1. WebSpec => WebInit /\ [][WebNext]_webVars
  BY DEF WebSpec
<1> QED
  BY <1>1, ServerInvariant, InitIsExchange, StepIsExchange, PTL
     DEF ImplementsExchange, Exchange!ExchangeSpec

-----------------------------------------------------------------------------
(* The requests of the page.                                                *)

\* The page sends two parameters at most, all of them numbers; each is read as it was sent,
\* the last too.
LEMMA OneParameter ==
  ASSUME NEW k, NEW x
  PROVE  ParseUrlParams(<< <<k, Number(x)>> >>) = [j \in {k} |-> Number(x)]
<1> DEFINE pairs == << <<k, Number(x)>> >>
           at(j) == Max({i \in 1..Len(pairs) : pairs[i][1] = j})
<1>1. Len(pairs) = 1 /\ pairs[1][1] = k /\ pairs[1][2] = Number(x)
  OBVIOUS
<1>2. {pairs[i][1] : i \in 1..Len(pairs)} = {k}
  BY <1>1
<1>3. {i \in 1..Len(pairs) : pairs[i][1] = k} = {1}
  BY <1>1
<1>4. at(k) = 1
  BY <1>3 DEF Max
<1>5. RunOn(Number(x)) = Number(x)
  BY DEF RunOn, Number
<1> HIDE DEF pairs
<1>6. ParseUrlParams(pairs) = [j \in {pairs[i][1] : i \in 1..Len(pairs)} |->
          IF at(j) = Len(pairs) THEN RunOn(pairs[Len(pairs)][2]) ELSE pairs[at(j)][2]]
  BY DEF ParseUrlParams
<1> HIDE DEF at
<1> QED  BY <1>1, <1>2, <1>4, <1>5, <1>6 DEF pairs

LEMMA TwoParameters ==
  ASSUME NEW k, NEW l, k # l, NEW x, NEW y
  PROVE  ParseUrlParams(<< <<k, Number(x)>>, <<l, Number(y)>> >>)
            = [j \in {k, l} |-> IF j = k THEN Number(x) ELSE Number(y)]
<1> DEFINE pairs == << <<k, Number(x)>>, <<l, Number(y)>> >>
           at(j) == Max({i \in 1..Len(pairs) : pairs[i][1] = j})
<1>1. /\ Len(pairs) = 2
      /\ pairs[1][1] = k /\ pairs[1][2] = Number(x)
      /\ pairs[2][1] = l /\ pairs[2][2] = Number(y)
  OBVIOUS
<1> HIDE DEF pairs
<1>2. {pairs[i][1] : i \in 1..Len(pairs)} = {k, l}
  BY <1>1
<1>3. /\ {i \in 1..Len(pairs) : pairs[i][1] = k} = {1}
      /\ {i \in 1..Len(pairs) : pairs[i][1] = l} = {2}
  BY <1>1
<1>4. at(k) = 1 /\ at(l) = 2
  BY <1>3 DEF Max
<1>5. RunOn(Number(y)) = Number(y)
  BY DEF RunOn, Number
<1>6. ParseUrlParams(pairs) = [j \in {pairs[i][1] : i \in 1..Len(pairs)} |->
          IF at(j) = Len(pairs) THEN RunOn(pairs[Len(pairs)][2]) ELSE pairs[at(j)][2]]
  BY DEF ParseUrlParams
<1> HIDE DEF at
<1>7. ParseUrlParams(pairs) = [j \in {k, l} |-> IF j = k THEN Number(x) ELSE Number(y)]
  BY <1>1, <1>2, <1>4, <1>5, <1>6
<1> QED  BY <1>7 DEF pairs

\* What each request of the page is owed: none of them ends the process.
LEMMA SensorRows ==
  ASSUME NEW id
  PROVE  Owed(Ask("sensor", id)) = [kind |-> "rows", about |-> id, n |-> RowsOf(id, 50)]
<1> DEFINE pairs == << <<"crossbow_id", Number(id)>>, <<"limit", Number(50)>> >>
           q == ParseUrlParams(pairs)
<1>1. Ask("sensor", id) = [path |-> "sensor-data", pairs |-> pairs]
  BY DEF Ask
<1>2. Ask("sensor", id) # Silent
  BY <1>1 DEF Silent
<1>3. q = [j \in {"crossbow_id", "limit"} |-> IF j = "crossbow_id" THEN Number(id) ELSE Number(50)]
  BY TwoParameters
<1> HIDE DEF q, pairs
<1>4. /\ DOMAIN q = {"crossbow_id", "limit"}
      /\ q["crossbow_id"] = Number(id) /\ q["limit"] = Number(50)
      /\ q["crossbow_id"].n = id /\ q["limit"].n = 50
      /\ q["crossbow_id"].is = "number" /\ q["limit"].is = "number"
  BY <1>3 DEF Number
<1>5. Rows(q, 100) = [kind |-> "rows", about |-> id, n |-> RowsOf(id, 50)]
  BY <1>4 DEF Rows, Reading, Given, ValueOf
<1>6. Handle(Ask("sensor", id)) = Rows(q, 100)
  BY <1>1 DEF Handle, Dispatch, GetSensorData, q
<1> QED  BY <1>2, <1>5, <1>6 DEF Owed

LEMMA PageRequestsAreRead ==
  ASSUME NEW kind \in Kinds, NEW id
  PROVE  Owed(Ask(kind, id)) # Ends
<1>0. Body("error") # Ends
  BY DEF Body, Ends
<1>1. CASE kind = "load"
  <2>1. Handle(Ask(kind, id)) = GetCrossbowTypes
    BY <1>1 DEF Handle, Dispatch, Ask
  <2> QED  BY <1>0, <2>1 DEF Owed, GetCrossbowTypes, About, Body, Ends
<1>2. CASE kind = "sensor"
  BY <1>2, SensorRows DEF Body, Ends
<1>3. CASE kind = "alerts"
  <2>1. Ask(kind, id) = [path |-> "alerts", pairs |-> <<>>]
    BY <1>3 DEF Ask
  <2>2. DOMAIN ParseUrlParams(<<>>) = {}
    BY DEF ParseUrlParams
  <2>3. Handle(Ask(kind, id)) = GetAlerts(ParseUrlParams(<<>>))
    BY <2>1 DEF Handle, Dispatch
  <2>4. GetAlerts(ParseUrlParams(<<>>)) # Ends
    BY <2>2 DEF GetAlerts, Reading, Given, About, Body, Ends
  <2> QED  BY <1>0, <2>3, <2>4 DEF Owed
<1>4. CASE kind = "status"
  <2>1. Handle(Ask(kind, id)) = GetSystemStatus
    BY <1>4 DEF Handle, Dispatch, Ask
  <2> QED  BY <1>0, <2>1 DEF Owed, GetSystemStatus, Body, Ends
<1>5. CASE kind = "shot"
  <2> DEFINE pairs == << <<"crossbow_id", Number(id)>>, <<"angle", Number(15)>> >>
             q == ParseUrlParams(pairs)
  <2>1. Ask(kind, id) = [path |-> "simulate-shot", pairs |-> pairs]
    BY <1>5 DEF Ask
  <2>2. q = [j \in {"crossbow_id", "angle"} |-> IF j = "crossbow_id" THEN Number(id) ELSE Number(15)]
    BY TwoParameters
  <2> HIDE DEF pairs, q
  <2>3. DOMAIN q = {"crossbow_id", "angle"} /\ \A k \in DOMAIN q : q[k].is = "number"
    BY <2>2 DEF Number
  <2>4. SimulateShot(q) # Ends
    BY <2>3 DEF SimulateShot, Reading, Given, About, Body, Ends
  <2>5. Handle(Ask(kind, id)) = SimulateShot(q)
    BY <2>1 DEF Handle, Dispatch, q
  <2> QED  BY <1>0, <2>4, <2>5 DEF Owed
<1>6. CASE kind = "analysis"
  <2> DEFINE pairs == << <<"crossbow_id", Number(id)>> >>
             q == ParseUrlParams(pairs)
  <2>1. Ask(kind, id) = [path |-> "run-analysis", pairs |-> pairs]
    BY <1>6 DEF Ask
  <2>2. q = [j \in {"crossbow_id"} |-> Number(id)]
    BY OneParameter
  <2> HIDE DEF pairs, q
  <2>3. DOMAIN q = {"crossbow_id"} /\ \A k \in DOMAIN q : q[k].is = "number"
    BY <2>2 DEF Number
  <2>4. RunAccuracyAnalysis(q) # Ends
    BY <2>3 DEF RunAccuracyAnalysis, GetAccuracy, Reading, Given, About, Body, Ends
  <2>5. Handle(Ask(kind, id)) = RunAccuracyAnalysis(q)
    BY <2>1 DEF Handle, Dispatch, q
  <2> QED  BY <1>0, <2>4, <2>5 DEF Owed
<1> QED  BY <1>1, <1>2, <1>3, <1>4, <1>5, <1>6 DEF Kinds

-----------------------------------------------------------------------------
\* No request that the page waits for would end the process.
NoneEnds == \A s \in Slots : At(s, Pending) => Owed(conn[s].asked) # Ends

LEMMA InitNoneEnds == WebInit => NoneEnds
<1> SUFFICES ASSUME WebInit, NEW s \in Slots, At(s, Pending) PROVE Owed(conn[s].asked) # Ends
  BY DEF NoneEnds
<1> DEFINE first == CHOOSE t \in Slots : TRUE
           wire == [at |-> "wire", asked |-> Ask("load", 0)]
<1>0. s \in Clients
  BY WebAssumption DEF WebAssumption
<1>1. conn = [d \in Clients |-> IF d = first THEN wire ELSE NoConn]
  BY DEF WebInit, PageInit
<1>2. NoConn.at \notin Pending /\ wire.asked = Ask("load", 0)
  BY DEF NoConn, Pending
<1> HIDE DEF first, wire
<1>3. conn[s].asked = Ask("load", 0)
  BY <1>0, <1>1, <1>2 DEF At
<1> QED  BY <1>3, PageRequestsAreRead DEF Kinds

\* The process ends before it has started, or in the turn of the stranger.
EndsInTurn == server' = "dead" /\ server # "dead" => server = "down" \/ serving.client = Stranger

LEMMA StepNoneEnds ==
  ASSUME ServerInv, NoneEnds, [WebNext]_webVars
  PROVE  NoneEnds' /\ EndsInTurn
<1>0. /\ Slots \subseteq Clients /\ Stranger \notin Slots /\ Slots \subseteq Readers
      /\ \A c \in Clients : c # Stranger => c \in Slots
  BY WebAssumption DEF WebAssumption
<1>1. CASE Outside
  <2>1. UNCHANGED <<server, thread, serving, backlog>>
    BY <1>1, OutsideMoves DEF ServerInv, ServerSide
  <2>2. CASE conn' = conn
    BY <2>1, <2>2 DEF NoneEnds, EndsInTurn, At, Owed
  <2>3. ASSUME NEW c \in Clients, ClientMove(c)
        PROVE  NoneEnds'
    <3>1. /\ \A d \in Clients \ {c} : conn'[d] = conn[d]
          /\ conn'[c].at \in Pending => Sent(c, conn'[c].asked)
      BY <2>3 DEF ClientMove, ServerInv, ServerSide, ConnInv, NoConn, Pending
    <3>2. ASSUME NEW s \in Slots, conn'[s].at \in Pending PROVE Owed(conn'[s].asked) # Ends
      <4>1. CASE s = c
        <5>1. PICK kind \in Kinds : \E id : conn'[s].asked = Ask(kind, id)
          BY <1>0, <3>1, <3>2, <4>1 DEF Sent
        <5> QED  BY <5>1, PageRequestsAreRead
      <4>2. CASE s # c
        <5>1. conn'[s] = conn[s]
          BY <1>0, <3>1, <4>2
        <5> QED  BY <3>2, <5>1 DEF NoneEnds, At
      <4> QED  BY <4>1, <4>2
    <3> QED  BY <3>2 DEF NoneEnds, At, Owed
  <2> QED  BY <1>1, <2>1, <2>2, <2>3, OutsideMoves DEF ServerInv, ServerSide, EndsInTurn
<1>2. CASE ServerStep
  <2>1. NoneEnds'
    <3>1. ASSUME NEW s \in Slots, conn'[s].at \in Pending PROVE Owed(conn'[s].asked) # Ends
      <4>1. CASE conn'[s] = conn[s]
        BY <3>1, <4>1 DEF NoneEnds, At
      <4>2. CASE conn[s].at \in Pending /\ conn'[s].asked = conn[s].asked
        BY <4>2 DEF NoneEnds, At
      <4>3. conn'[s] # [at |-> "reset"] /\ conn'[s] # [at |-> "answered", body |-> Owed(conn[s].asked)]
        BY <3>1 DEF Pending
      <4> QED  BY <1>0, <1>2, <4>1, <4>2, <4>3, ServerStepMoves DEF ServerInv
    <3> QED  BY <3>1 DEF NoneEnds, At, Owed
  <2>2. ASSUME server' = "dead", server \notin {"down", "dead"} PROVE serving.client = Stranger
    <3>1. (Recv /\ Owed(conn[serving.client].asked) = Ends) \/ Unread
      BY <1>2, <2>2 DEF ServerStep, Network, Arrive, Refuse, Server, ServerThread, Accept, AcceptTimesOut,
                        Recv, Reply, CloseWith, Gone, Main, MainThread, Start, Stop, Joined
    <3>2. serving.client \in Clients /\ At(serving.client, Pending)
      BY <3>1 DEF ServerInv, ServerSide, ServingInv, Serving, Recv, Unread, At, Pending
    <3>3. serving.client \notin Slots
      BY <1>0, <3>1, <3>2 DEF NoneEnds, Unread
    <3> QED  BY <1>0, <3>2, <3>3
  <2> QED  BY <2>1, <2>2 DEF EndsInTurn
<1>3. CASE UNCHANGED webVars
  <2>1. UNCHANGED <<server, conn>>
    BY <1>3 DEF webVars, serverVars
  <2> QED  BY <2>1 DEF NoneEnds, EndsInTurn, At, Owed
<1> QED  BY <1>1, <1>2, <1>3 DEF WebNext, Outside, ServerStep

\* Whatever the page is made to ask, in any order, and whatever it is answered: if the
\* process ends after start(), the server was at work on the stranger's connection, whose
\* request cannot be read or who has left.  The page is one that stays for its answers.
THEOREM PageNeverEndsServer ==
  WebSpec => [][server' = "dead" /\ server # "dead" => server = "down" \/ serving.client = Stranger]_webVars
<1>1. WebSpec => WebInit /\ [][WebNext]_webVars
  BY DEF WebSpec
<1>2. ServerInv /\ NoneEnds /\ [WebNext]_webVars
         => NoneEnds' /\ [server' = "dead" /\ server # "dead"
                             => server = "down" \/ serving.client = Stranger]_webVars
  BY StepNoneEnds DEF EndsInTurn
<1> QED  BY <1>1, <1>2, ServerInvariant, InitNoneEnds, PTL

-----------------------------------------------------------------------------
(* What the page shows.                                                     *)

\* Any set of natural numbers that is not empty has a least one, and Min() is it.
LEMMA LeastOf ==
  ASSUME NEW S, S \subseteq Nat, S # {}
  PROVE  Min(S) \in S
<1>1. PICK x \in S : \A y \in S : ~ (<<y, x>> \in OpToRel(<, Nat))
  BY NatLessThanWellFounded, WFMin
<1>2. \A y \in S : x <= y
  <2> SUFFICES ASSUME NEW y \in S  PROVE x <= y
    OBVIOUS
  <2>1. x \in Nat /\ y \in Nat /\ ~ (y < x)
    BY <1>1 DEF OpToRel
  <2> QED  BY <2>1
<1> QED  BY <1>2 DEF Min

\* What a request of the page asks for, and what it was answered.
AskedFor(s) ==
    \E id \in types \cup {0} :
        /\ task[s].kind = "sensor" => id # 0
        /\ At(s, Pending) => conn[s].asked = Ask(task[s].kind, id)
        /\ At(s, {"answered"}) => conn[s].body = Owed(Ask(task[s].kind, id))

LEMMA WillHaveAsked ==
  ASSUME NEW s, NEW id \in types' \cup {0},
         task'[s].kind = "sensor" => id # 0,
         conn'[s].at \in Pending => conn'[s].asked = Ask(task'[s].kind, id),
         conn'[s].at = "answered" => conn'[s].body = Owed(Ask(task'[s].kind, id))
  PROVE  AskedFor(s)'
BY DEF AskedFor, At, Ask, Owed

LEMMA StillAsked ==
  ASSUME NEW s, AskedFor(s), types' = types, task'[s] = task[s], conn'[s] = conn[s]
  PROVE  AskedFor(s)'
BY WillHaveAsked DEF AskedFor, At

\* The types are loaded once, by the first request; whatever is asked for later is of them.
PageInv ==
    /\ types \in {{}, Crossbow, Local}
    /\ selected \in types \cup {0}
    /\ \A s \in Slots : task[s] \in {[kind |-> k] : k \in Kinds \cup {"idle"}}
    /\ \A s, t \in Slots : task[s].kind = "load" /\ task[t].kind = "load" => s = t
    /\ types # {} => \A s \in Slots : task[s].kind # "load"
    /\ types = {} => \A s \in Slots : task[s].kind \in {"idle", "load"}
    /\ \A s \in Slots : task[s] = Idle \/ AskedFor(s)
    /\ ShownIsStored

LEMMA InitPage == WebInit => PageInv
<1> SUFFICES ASSUME WebInit PROVE PageInv
  OBVIOUS
<1> DEFINE first == CHOOSE s \in Slots : TRUE
           wire == [at |-> "wire", asked |-> Ask("load", 0)]
<1>1. /\ types = {} /\ selected = 0 /\ recent = NoData
      /\ task = [s \in Slots |-> IF s = first THEN [kind |-> "load"] ELSE Idle]
      /\ conn = [c \in Clients |-> IF c = first THEN wire ELSE NoConn]
  BY DEF WebInit, PageInit
<1>2. wire.at = "wire" /\ wire.asked = Ask("load", 0)
  OBVIOUS
<1>3. Slots \subseteq Clients
  BY WebAssumption DEF WebAssumption
<1> HIDE DEF first, wire
<1>4. ASSUME NEW s \in Slots
      PROVE  task[s] = Idle \/ AskedFor(s)
  <2>1. CASE s = first
    <3>1. conn[s] = wire /\ task[s].kind = "load"
      BY <1>1, <1>3, <2>1
    <3>2. 0 \in types \cup {0} /\ ~At(s, {"answered"})
      BY <1>2, <3>1 DEF At
    <3> QED  BY <1>2, <3>1, <3>2 DEF AskedFor
  <2>2. CASE s # first
    BY <1>1, <2>2
  <2> QED  BY <2>1, <2>2
<1> QED  BY <1>1, <1>4 DEF PageInv, ShownIsStored, Kinds, Idle

\* A slot that asks for something else than the types, or is done, keeps all of it.
LEMMA SlotKeepsPage ==
  ASSUME ServerInv, PageInv, NEW s \in Slots,
         types # {}, types' = types, selected' \in types \cup {0}, ShownIsStored',
         \/ \E kind \in Kinds \ {"load"} : \E id \in types \cup {0} :
               (kind = "sensor" => id # 0) /\ Fetch(s, kind, id)
         \/ EndTask(s)
  PROVE  PageInv'
<1>0. s \in Clients /\ Slots \subseteq Clients /\ task = [t \in Slots |-> task[t]] /\ conn = [c \in Clients |-> conn[c]]
  BY WebAssumption DEF WebAssumption, ServerInv, ServerSide, ConnInv, SlotInv
<1>1. ASSUME NEW k \in Kinds \cup {"idle"}, k # "load", task' = [task EXCEPT ![s] = [kind |-> k]],
             \A t \in Slots \ {s} : conn'[t] = conn[t],
             k = "idle" \/ AskedFor(s)'
      PROVE  PageInv'
  <2>1. task'[s] = [kind |-> k] /\ task'[s].kind = k /\ \A t \in Slots \ {s} : task'[t] = task[t]
    BY <1>0, <1>1
  <2>2. ASSUME NEW t \in Slots PROVE task'[t] = Idle \/ AskedFor(t)'
    <3>1. CASE t = s
      BY <1>1, <2>1, <3>1 DEF Idle
    <3>2. CASE t # s
      <4>1. task'[t] = task[t] /\ conn'[t] = conn[t]
        BY <1>1, <2>1, <3>2
      <4>2. CASE AskedFor(t)
        BY <4>1, <4>2, StillAsked
      <4> QED  BY <4>1, <4>2 DEF PageInv
    <3> QED  BY <3>1, <3>2
  <2>3. \A t \in Slots : task'[t] \in {[kind |-> j] : j \in Kinds \cup {"idle"}}
    BY <1>1, <2>1 DEF PageInv
  <2>4. \A t \in Slots : task'[t].kind # "load"
    BY <1>1, <2>1 DEF PageInv
  <2> QED  BY <2>2, <2>3, <2>4 DEF PageInv
<1>2. ASSUME NEW kind \in Kinds \ {"load"}, NEW id \in types \cup {0}, kind = "sensor" => id # 0, Fetch(s, kind, id)
      PROVE  PageInv'
  <2>1. /\ conn'[s] = [at |-> "wire", asked |-> Ask(kind, id)]
        /\ \A t \in Slots \ {s} : conn'[t] = conn[t]
        /\ task' = [task EXCEPT ![s] = [kind |-> kind]]
    BY <1>0, <1>2 DEF Fetch, Request
  <2>2. task'[s].kind = kind
    BY <1>0, <2>1
  <2>3. conn'[s].at = "wire" /\ conn'[s].asked = Ask(kind, id)
    BY <2>1
  <2>4. AskedFor(s)'
    BY <1>2, <2>2, <2>3, WillHaveAsked
  <2> QED  BY <1>1, <1>2, <2>1, <2>4
<1>3. CASE EndTask(s)
  BY <1>0, <1>1, <1>3 DEF EndTask, Idle
<1> QED  BY <1>2, <1>3

\* An answer to a poll has the rows of a crossbow that is known.
LEMMA RowsAreStored ==
  ASSUME ServerInv, PageInv, NEW s \in Slots, types' = types, SensorData(s)
  PROVE  ShownIsStored'
<1>1. CASE Answered(s, "rows") /\ conn[s].body.n > 0
  <2>1. At(s, {"answered"}) /\ task[s].kind = "sensor" /\ task[s] # Idle
    BY <1>1 DEF Answered, SensorData, Returned, Idle
  <2>2. PICK id \in types : conn[s].body = Owed(Ask("sensor", id))
    BY <2>1 DEF PageInv, AskedFor
  <2>3. conn[s].body.about = id /\ conn[s].body.n = RowsOf(id, 50)
    BY <2>2, SensorRows
  <2>4. id \in Crossbow /\ RowsOf(id, 50) = Min({Stored[id], 50})
    BY <1>1, <2>3 DEF RowsOf
  <2>5. recent' = [of |-> id, n |-> Min({Stored[id], 50})]
    BY <1>1, <2>3, <2>4 DEF SensorData
  <2>6. recent'.of = id /\ recent'.n = Min({Stored[id], 50})
    BY <2>5
  <2> QED  BY <2>2, <2>4, <2>6 DEF ShownIsStored
<1>2. CASE ~(Answered(s, "rows") /\ conn[s].body.n > 0)
  BY <1>2 DEF SensorData, PageInv, ShownIsStored
<1> QED  BY <1>1, <1>2

\* The answer to the first request, or none, settles the types; until then no other is sent.
LEMMA TypesKeepPage ==
  ASSUME ServerInv, PageInv, NEW s \in Slots, TypesLoaded(s)
  PROVE  PageInv'
<1> DEFINE known == IF Answered(s, "types") THEN conn[s].body.about ELSE Local
<1>0. s \in Clients /\ Slots \subseteq Clients /\ task = [t \in Slots |-> task[t]] /\ conn = [c \in Clients |-> conn[c]]
  BY WebAssumption DEF WebAssumption, ServerInv, ServerSide, ConnInv, SlotInv
<1>1. /\ task[s].kind = "load" /\ types = {} /\ task[s] # Idle
      /\ \A t \in Slots \ {s} : task[t] = Idle
  <2>1. task[s].kind = "load" /\ types = {}
    BY DEF TypesLoaded, Returned, PageInv
  <2>2. \A t \in Slots \ {s} : task[t].kind = "idle"
    BY <2>1 DEF PageInv
  <2>3. \A t \in Slots \ {s} : task[t] = Idle
    BY <2>2 DEF PageInv, Idle
  <2> QED  BY <2>1, <2>3 DEF Idle
<1>2. known \in {Crossbow, Local}
  <2>1. CASE Answered(s, "types")
    <3>1. PICK id \in types \cup {0} : conn[s].body = Owed(Ask("load", id))
      BY <1>1, <2>1 DEF Answered, PageInv, AskedFor
    <3>2. Ask("load", id) = [path |-> "crossbow-types", pairs |-> <<>>]
      BY DEF Ask
    <3>3. Ask("load", id) # Silent
      BY <3>2 DEF Silent
    <3>4. Handle(Ask("load", id)) = About("types", Crossbow)
      BY <3>2 DEF Handle, Dispatch, GetCrossbowTypes
    <3> QED  BY <2>1, <3>1, <3>3, <3>4 DEF Owed, About
  <2> QED  BY <2>1
<1>3. known # {} /\ known \subseteq Nat \ {0}
  BY <1>2, HandlerAssumption, AppAssumption DEF HandlerAssumption, AppAssumption
<1>4. Min(known) \in known /\ Min(known) # 0
  BY <1>3, LeastOf
<1>5. /\ types' = known /\ selected' = Min(known) /\ recent' = NoData
      /\ task' = [task EXCEPT ![s] = [kind |-> "sensor"]]
      /\ conn' = [conn EXCEPT ![s] = [at |-> "wire", asked |-> Ask("sensor", Min(known))]]
  BY DEF TypesLoaded, Refresh, Fetch, Request
<1> HIDE DEF known
<1>6. /\ task'[s] = [kind |-> "sensor"] /\ \A t \in Slots \ {s} : task'[t] = Idle
      /\ conn'[s].at = "wire" /\ conn'[s].asked = Ask("sensor", Min(known))
  BY <1>0, <1>1, <1>5
<1>7. AskedFor(s)'
  <2>1. Min(known) \in types' \cup {0} /\ task'[s].kind = "sensor"
    BY <1>4, <1>5, <1>6
  <2> QED  BY <1>4, <1>6, <2>1, WillHaveAsked
<1>8. \A t \in Slots : task'[t].kind \in {"sensor", "idle"} /\ task'[t] \in {[kind |-> k] : k \in Kinds \cup {"idle"}}
  BY <1>6 DEF Idle, Kinds
<1>9. \A t \in Slots : task'[t] = Idle \/ AskedFor(t)'
  BY <1>6, <1>7
<1>10. ShownIsStored'
  BY <1>5 DEF ShownIsStored
<1> QED  BY <1>2, <1>3, <1>4, <1>5, <1>8, <1>9, <1>10 DEF PageInv

LEMMA PageKeepsPage ==
  ASSUME ServerInv, PageInv, NEW s \in Slots, User(s) \/ Page(s)
  PROVE  PageInv'
<1>1. task[s] = Idle \/ types # {} \/ task[s].kind = "load"
  BY DEF PageInv, Idle
<1>2. selected # 0 => types # {} /\ selected \in types
  BY DEF PageInv
<1>3. ASSUME task[s].kind \in Kinds \ {"load"} PROVE types # {}
  BY <1>3 DEF PageInv, Kinds
<1>4. ASSUME UNCHANGED <<types, recent>> PROVE ShownIsStored'
  BY <1>4 DEF PageInv, ShownIsStored
<1>5. selected \in types \cup {0}
  BY DEF PageInv
<1>6. ASSUME NEW id \in types \cup {0}, SelectCrossbow(s, id) PROVE PageInv'
  <2>1. types # {} /\ types' = types
    BY <1>6 DEF SelectCrossbow
  <2>2. 0 \notin types
    BY HandlerAssumption, AppAssumption DEF HandlerAssumption, AppAssumption, PageInv
  <2>3. CASE id \in types
    <3>1. selected' = id /\ recent' = NoData /\ Fetch(s, "sensor", id)
      BY <1>6, <2>3 DEF SelectCrossbow, Refresh
    <3>2. ShownIsStored'
      BY <3>1 DEF ShownIsStored
    <3>3. id # 0 /\ selected' \in types \cup {0}
      BY <2>2, <2>3, <3>1
    <3> QED  BY <2>1, <3>1, <3>2, <3>3, SlotKeepsPage DEF Kinds
  <2>4. CASE id \notin types
    <3>1. selected' = 0 /\ UNCHANGED <<recent, task, conn>>
      BY <1>6, <2>4 DEF SelectCrossbow
    <3>2. \A t \in Slots : AskedFor(t) => AskedFor(t)'
      BY <2>1, <3>1, StillAsked
    <3> QED  BY <2>1, <3>1, <3>2, <1>4 DEF PageInv
  <2> QED  BY <2>3, <2>4
<1>7. CASE PageShot(s)
  BY <1>2, <1>4, <1>5, <1>7, SlotKeepsPage DEF PageShot, Kinds
<1>8. CASE PageAnalysis(s)
  BY <1>2, <1>4, <1>5, <1>8, SlotKeepsPage DEF PageAnalysis, Kinds
<1>9. CASE PollSensorData(s)
  BY <1>2, <1>4, <1>5, <1>9, SlotKeepsPage DEF PollSensorData, Kinds
<1>10. CASE TypesLoaded(s)
  BY <1>10, TypesKeepPage
<1>11. CASE SensorData(s)
  <2>1. types' = types /\ selected' = selected /\ Fetch(s, "alerts", 0) /\ task[s].kind = "sensor"
    BY <1>11 DEF SensorData, Returned
  <2>2. ShownIsStored'
    BY <1>11, <2>1, RowsAreStored
  <2>3. types # {}
    BY <2>1, <1>3 DEF Kinds
  <2> QED  BY <1>5, <2>1, <2>2, <2>3, SlotKeepsPage DEF Kinds
<1>12. CASE Alerts(s)
  <2>1. UNCHANGED <<types, selected, recent>> /\ Fetch(s, "status", 0) /\ task[s].kind = "alerts"
    BY <1>12 DEF Alerts, Returned
  <2>2. types # {}
    BY <2>1, <1>3 DEF Kinds
  <2> QED  BY <1>4, <1>5, <2>1, <2>2, SlotKeepsPage DEF Kinds
<1>13. CASE Status(s)
  <2>1. UNCHANGED <<types, selected, recent>> /\ EndTask(s) /\ task[s].kind = "status"
    BY <1>13 DEF Status, Returned
  <2>2. types # {}
    BY <2>1, <1>3 DEF Kinds
  <2> QED  BY <1>4, <1>5, <2>1, <2>2, SlotKeepsPage
<1>14. CASE ShotResult(s)
  <2>1. UNCHANGED <<types, selected, recent>> /\ EndTask(s) /\ task[s].kind = "shot"
    BY <1>14 DEF ShotResult, Returned
  <2>2. types # {}
    BY <2>1, <1>3 DEF Kinds
  <2> QED  BY <1>4, <1>5, <2>1, <2>2, SlotKeepsPage
<1>15. CASE Analysis(s)
  <2>1. UNCHANGED <<types, selected>> /\ EndTask(s) /\ task[s].kind = "analysis"
    BY <1>15 DEF Analysis, Returned
  <2>2. types # {}
    BY <2>1, <1>3 DEF Kinds
  <2>3. recent' = Simulated \/ recent' = recent
    BY <1>15 DEF Analysis
  <2>4. ShownIsStored'
    BY <2>1, <2>3 DEF PageInv, ShownIsStored
  <2> QED  BY <1>5, <2>1, <2>2, <2>4, SlotKeepsPage
<1> QED
  BY <1>6, <1>7, <1>8, <1>9, <1>10, <1>11, <1>12, <1>13, <1>14, <1>15 DEF User, Page, Continue

\* What the server does to a connection keeps what its request was.
LEMMA ServerKeepsPage ==
  ASSUME ServerInv, PageInv, ServerStep
  PROVE  PageInv'
<1>1. UNCHANGED pageVars /\ Slots \subseteq Clients
  BY WebAssumption DEF ServerStep, Network, Server, Main, WebAssumption
<1>2. UNCHANGED <<types, selected, recent, task>>
  BY <1>1 DEF pageVars
<1>3. ASSUME NEW s \in Slots, AskedFor(s)
      PROVE  AskedFor(s)'
  <2>1. PICK id \in types \cup {0} :
          /\ task[s].kind = "sensor" => id # 0
          /\ At(s, Pending) => conn[s].asked = Ask(task[s].kind, id)
          /\ At(s, {"answered"}) => conn[s].body = Owed(Ask(task[s].kind, id))
    BY <1>3 DEF AskedFor
  <2>2. /\ conn'[s].at \in Pending => conn'[s].asked = Ask(task[s].kind, id)
        /\ conn'[s].at = "answered" => conn'[s].body = Owed(Ask(task[s].kind, id))
    <3>1. CASE conn'[s] = conn[s]
      BY <2>1, <3>1 DEF At
    <3>2. CASE conn[s].at \in Pending /\ conn'[s].at \in Pending /\ conn'[s].asked = conn[s].asked
      BY <2>1, <3>2 DEF At, Pending
    <3>3. CASE conn'[s] = [at |-> "reset"]
      BY <3>3 DEF Pending
    <3>4. CASE conn[s].at \in Pending /\ conn'[s] = [at |-> "answered", body |-> Owed(conn[s].asked)]
      <4>1. conn'[s].at = "answered" /\ conn'[s].body = Owed(conn[s].asked)
        BY <3>4
      <4>2. conn[s].asked = Ask(task[s].kind, id)
        BY <2>1, <3>4 DEF At
      <4> QED  BY <4>1, <4>2 DEF Pending
    <3> QED  BY <1>1, <3>1, <3>2, <3>3, <3>4, ServerStepMoves DEF ServerInv
  <2> QED  BY <1>2, <2>1, <2>2, WillHaveAsked
<1>4. ShownIsStored'
  BY <1>2 DEF PageInv, ShownIsStored
<1> QED  BY <1>2, <1>3, <1>4 DEF PageInv

LEMMA StepPage ==
  ASSUME ServerInv, PageInv, [WebNext]_webVars
  PROVE  PageInv'
<1>1. ASSUME UNCHANGED pageVars, \A s \in Slots : conn'[s] = conn[s]
      PROVE  PageInv'
  <2>1. UNCHANGED <<types, selected, recent, task>>
    BY <1>1 DEF pageVars
  <2>2. \A s \in Slots : AskedFor(s) => AskedFor(s)'
    BY <1>1, <2>1, StillAsked
  <2>3. ShownIsStored'
    BY <2>1 DEF PageInv, ShownIsStored
  <2> QED  BY <2>1, <2>2, <2>3 DEF PageInv
<1>2. CASE StrangerActs
  <2>1. /\ UNCHANGED pageVars /\ Stranger \in Clients /\ Stranger \notin Slots /\ Slots \subseteq Clients
        /\ \E r : conn' = Request(Stranger, r)
    BY <1>2, WebAssumption DEF StrangerActs, WebAssumption
  <2>2. \A s \in Slots : conn'[s] = conn[s]
    BY <2>1 DEF Request, ServerInv, ServerSide, ConnInv
  <2> QED  BY <1>1, <2>1, <2>2
<1>3. CASE UNCHANGED webVars
  BY <1>1, <1>3 DEF webVars, serverVars, pageVars
<1>4. CASE UserActs \/ \E s \in Slots : Page(s)
  BY <1>4, PageKeepsPage DEF UserActs
<1>5. CASE ServerStep
  BY <1>5, ServerKeepsPage
<1> QED  BY <1>2, <1>3, <1>4, <1>5 DEF WebNext, ServerStep

\* What the page shows of a crossbow is what the server stores of it.
THEOREM PageShowsStored == WebSpec => []ShownIsStored
<1>1. WebSpec => WebInit /\ [][WebNext]_webVars
  BY DEF WebSpec
<1>2. ServerInv /\ PageInv /\ [WebNext]_webVars => PageInv'
  BY StepPage
<1>3. PageInv => ShownIsStored
  BY DEF PageInv
<1> QED  BY <1>1, <1>2, <1>3, ServerInvariant, InitPage, PTL
=============================================================================
