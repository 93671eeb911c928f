------------------------ MODULE SensorPipelineProofs ------------------------
(***************************************************************************)
(* Proofs about SensorPipeline for any number of threads per service, any   *)
(* queue capacity of at least 1 and any number of samples.                  *)
(***************************************************************************)
EXTENDS SensorPipeline, BoundedDequeProofs

\* The three services and their positions.
LEMMA OrderFacts ==
  /\ Len(Order) = 3 /\ DOMAIN Order = 1..3
  /\ Order[1] = "ballistic" /\ Order[2] = "accuracy" /\ Order[3] = "alarm"
  /\ \A i \in 1..3 : Order[i] \in Services
  /\ \A i, j \in 1..3 : Order[i] = Order[j] => i = j
  /\ \A s \in Services : \E i \in 1..3 : Order[i] = s
BY DEF Order, Services

\* main() has three services to start and to stop.
LEMMA OrderLength == Len(Order) = 3 /\ DOMAIN Order = 1..3
BY DEF Order

\* The process starts in a state of the right type.
LEMMA InitType == Init => TypeOK
<1> SUFFICES ASSUME Init  PROVE RangeOK /\ LifeOK
  BY DEF TypeOK
<1>1. /\ main \in MainStates
      /\ failing \in BOOLEAN
      /\ rx \in {"none", "loop", "recv", "exited"}
      /\ rxRunning \in BOOLEAN
      /\ bc \in {"none", "loop", "pop", "fan", "exited"}
      /\ bcRunning \in BOOLEAN
  BY DEF Init, MainStates
<1>2. /\ accepted \in 0..MaxSamples
      /\ data \in 0..MaxSamples
      /\ hand \in [Workers -> 0..MaxSamples]
  BY PipelineAssumption DEF PipelineAssumption, Init
<1>3. started \in 0..Len(Order) /\ fanned \in 0..(Len(Order) - 1)
  BY OrderLength DEF Init
<1>4. /\ raw \in Seq(Samples)
      /\ queue \in [Services -> Seq(Samples)]
      /\ offered \in [Services -> Seq(Samples)]
  BY EmptySeq DEF Init
<1>5. /\ running_ \in [Services -> BOOLEAN]
      /\ worker \in [Workers -> {"none", "loop", "pop", "handle", "exited"}]
      /\ handled \in [Services -> SUBSET Samples]
  BY DEF Init
<1>6. LifeOK
  BY OrderLength DEF Init, LifeOK, ReceiverStopping
<1> QED  BY <1>1, <1>2, <1>3, <1>4, <1>5, <1>6 DEF RangeOK

\* No step leaves the ranges.
LEMMA RangeStep ==
  ASSUME RangeOK, LifeOK, [Next]_vars
  PROVE  RangeOK'
<1>1. ASSUME BindOk \/ BindFails \/ SpawnBroadcaster \/ SetFlag  PROVE RangeOK'
  BY <1>1 DEF RangeOK, MainStates, BindOk, BindFails, SpawnBroadcaster, SetFlag, mainVars,
              rxVars, bcVars, serviceVars
<1>2. ASSUME StartService  PROVE RangeOK'
  <2>1. started' \in 0..Len(Order)
    BY <1>2, OrderLength DEF StartService, RangeOK, LifeOK
  <2>2. worker' \in [Workers -> {"none", "loop", "pop", "handle", "exited"}]
    BY <1>2 DEF StartService, RangeOK
  <2>3. running_' \in [Services -> BOOLEAN]
    BY <1>2 DEF StartService, RangeOK
  <2>4. main' \in MainStates
    BY <1>2 DEF StartService, MainStates
  <2> QED  BY <1>2, <2>1, <2>2, <2>3, <2>4 DEF StartService, RangeOK, rxVars, bcVars
<1>3. ASSUME HttpStarts \/ HttpFails \/ Shutdown  PROVE RangeOK'
  BY <1>3 DEF RangeOK, MainStates, HttpStarts, HttpFails, Shutdown, rxVars, bcVars, serviceVars
<1>4. ASSUME StopService  PROVE RangeOK'
  BY <1>4 DEF RangeOK, MainStates, StopService, rxVars, bcVars
<1>5. ASSUME JoinService  PROVE RangeOK'
  <2>1. started' \in 0..Len(Order)
    BY <1>5, OrderLength DEF JoinService, Stopped, RangeOK, LifeOK
  <2>2. main' \in MainStates
    BY <1>5 DEF JoinService, Stopped, MainStates
  <2> QED  BY <1>5, <2>1, <2>2 DEF JoinService, RangeOK, rxVars, bcVars, serviceVars
<1>6. ASSUME StopBroadcaster \/ StopReceiver \/ JoinReceiver \/ JoinBroadcaster
      PROVE  RangeOK'
  BY <1>6 DEF RangeOK, MainStates, StopBroadcaster, StopReceiver, JoinReceiver, JoinBroadcaster,
              rxVars, bcVars, serviceVars
<1>7. ASSUME RxTest \/ RxNothing  PROVE RangeOK'
  BY <1>7 DEF RangeOK, RxTest, RxNothing, mainVars, bcVars, serviceVars
<1>8. ASSUME RxAccept  PROVE RangeOK'
  <2>1. accepted + 1 \in Samples /\ accepted' \in 0..MaxSamples
    BY <1>8, PipelineAssumption DEF RxAccept, RangeOK, Samples, PipelineAssumption
  <2>2. raw' \in Seq(Samples)
    BY <1>8, <2>1, EnqueueProperties DEF RxAccept, RangeOK
  <2> QED  BY <1>8, <2>1, <2>2 DEF RxAccept, RangeOK, mainVars, bcVars, serviceVars
<1>9. ASSUME BcTest \/ BcMiss  PROVE RangeOK'
  BY <1>9 DEF RangeOK, BcTest, BcMiss, mainVars, rxVars, serviceVars
<1>10. ASSUME BcPop  PROVE RangeOK'
  <2>1. Head(raw) \in Samples /\ Tail(raw) \in Seq(Samples)
    BY <1>10, HeadTailProperties DEF BcPop, RangeOK
  <2>2. data' \in 0..MaxSamples /\ raw' \in Seq(Samples)
    BY <1>10, <2>1 DEF BcPop, Samples
  <2> QED  BY <1>10, <2>2 DEF BcPop, RangeOK, mainVars, rxVars, serviceVars
<1>11. ASSUME BcPush  PROVE RangeOK'
  <2> DEFINE s == Order[fanned + 1]
  <2>1. s \in Services
    BY OrderFacts DEF RangeOK
  <2>2. data \in Samples
    BY <1>11 DEF BcPush, RangeOK, LifeOK, Samples
  <2>3. /\ Enqueue(queue[s], data) \in Seq(Samples)
        /\ Append(offered[s], data) \in Seq(Samples)
    BY <2>1, <2>2, EnqueueProperties, AppendProperties DEF RangeOK
  <2>4. /\ queue' = [queue EXCEPT ![s] = Enqueue(@, data)]
        /\ offered' = [offered EXCEPT ![s] = Append(@, data)]
    BY <1>11 DEF BcPush
  <2>5. /\ fanned' \in 0..(Len(Order) - 1)
        /\ data' \in 0..MaxSamples
        /\ bc' \in {"none", "loop", "pop", "fan", "exited"}
    BY <1>11, OrderLength, PipelineAssumption DEF BcPush, RangeOK, PipelineAssumption
  <2> HIDE DEF s
  <2>6. queue' \in [Services -> Seq(Samples)] /\ offered' \in [Services -> Seq(Samples)]
    BY <2>1, <2>3, <2>4 DEF RangeOK
  <2> QED  BY <1>11, <2>5, <2>6 DEF BcPush, RangeOK, mainVars, rxVars
<1>12. ASSUME NEW w \in Workers, WorkerTest(w) \/ WorkerMiss(w)  PROVE RangeOK'
  BY <1>12 DEF WorkerTest, WorkerMiss, RangeOK, mainVars, rxVars, bcVars
<1>13. ASSUME NEW w \in Workers, WorkerPop(w)  PROVE RangeOK'
  <2> DEFINE q == queue[ServiceOf[w]]
  <2>1. ServiceOf[w] \in Services
    BY PipelineAssumption DEF PipelineAssumption
  <2>2. Head(q) \in Samples /\ Tail(q) \in Seq(Samples)
    BY <1>13, <2>1, HeadTailProperties DEF WorkerPop, RangeOK
  <2>3. queue' \in [Services -> Seq(Samples)]
    BY <1>13, <2>1, <2>2 DEF WorkerPop, RangeOK
  <2>4. hand' \in [Workers -> 0..MaxSamples]
    BY <1>13, <2>2 DEF WorkerPop, RangeOK, Samples
  <2> QED  BY <1>13, <2>3, <2>4 DEF WorkerPop, RangeOK, mainVars, rxVars, bcVars
<1>14. ASSUME NEW w \in Workers, WorkerHandle(w)  PROVE RangeOK'
  <2>1. hand[w] \in Samples
    BY <1>14 DEF WorkerHandle, RangeOK, LifeOK, Samples
  <2>2. handled' \in [Services -> SUBSET Samples]
    BY <1>14, <2>1 DEF WorkerHandle, RangeOK
  <2>3. hand' \in [Workers -> 0..MaxSamples]
    BY <1>14, PipelineAssumption DEF WorkerHandle, RangeOK, PipelineAssumption
  <2> QED  BY <1>14, <2>2, <2>3 DEF WorkerHandle, RangeOK, mainVars, rxVars, bcVars
<1>15. ASSUME UNCHANGED vars  PROVE RangeOK'
  BY <1>15 DEF vars, RangeOK, mainVars, rxVars, bcVars, serviceVars
<1> QED
  BY <1>1, <1>2, <1>3, <1>4, <1>5, <1>6, <1>7, <1>8, <1>9, <1>10, <1>11, <1>12, <1>13, <1>14,
     <1>15
  DEF Next, MainRuns, RxStep, BcStep, WorkerStep

\* No step breaks the life times of the threads.
LEMMA LifeStep ==
  ASSUME RangeOK, LifeOK, [Next]_vars
  PROVE  LifeOK'
<1>0. started \in 0..3 /\ fanned \in 0..2
  BY OrderLength DEF RangeOK
<1>1. ASSUME BindOk \/ BindFails \/ SpawnBroadcaster \/ SetFlag  PROVE LifeOK'
  <2>1. /\ started = 0 /\ UNCHANGED <<started, worker, hand, data, fanned>>
        /\ main' \in {"spawn", "failed", "flag", "start"}
    BY <1>1
    DEF LifeOK, BindOk, BindFails, SpawnBroadcaster, SetFlag, bcVars, serviceVars
  <2>2. \/ bc' = bc /\ (main' = "spawn" => bc = "none")
        \/ bc' = "loop" /\ bc # "fan" /\ main' = "flag"
    BY <1>1 DEF LifeOK, BindOk, BindFails, SpawnBroadcaster, SetFlag, bcVars
  <2> QED  BY <2>1, <2>2, OrderLength DEF LifeOK, ReceiverStopping
<1>2. ASSUME StartService  PROVE LifeOK'
  <2>1. /\ main' \in {"http", "start"}
        /\ started' = started + 1
        /\ main' = "start" => started' < 3
        /\ main' = "http" => started' = 3
        /\ UNCHANGED <<hand, data, bc, fanned>>
    BY <1>0, <1>2, OrderLength DEF StartService, LifeOK, bcVars
  <2>2. ASSUME NEW i \in 1..3, NEW w \in Workers, ServiceOf[w] = Order[i], i > started'
        PROVE  worker'[w] \in {"none", "exited"}
    <3>1. i # started + 1 /\ i > started /\ started + 1 \in 1..3
      BY <1>0, <1>2, <2>1, <2>2, OrderLength DEF StartService, LifeOK
    <3>2. ServiceOf[w] # Order[started + 1]
      BY <2>2, <3>1, OrderFacts
    <3> QED  BY <1>2, <2>2, <3>1, <3>2, OrderLength DEF StartService, LifeOK
  <2>3. ASSUME NEW w \in Workers  PROVE hand'[w] # 0 <=> worker'[w] = "handle"
    <3>1. CASE ServiceOf[w] = Order[started + 1]
      <4>1. started + 1 \in 1..3 /\ started + 1 > started
        BY <1>0, <1>2, OrderLength DEF StartService, LifeOK
      <4>2. worker[w] \in {"none", "exited"}
        BY <3>1, <4>1, OrderLength DEF LifeOK
      <4> QED  BY <1>2, <3>1, <4>2 DEF StartService, LifeOK
    <3>2. CASE ServiceOf[w] # Order[started + 1]
      BY <1>2, <3>2 DEF StartService, LifeOK
    <3> QED  BY <3>1, <3>2
  <2> QED
    BY <2>1, <2>2, <2>3, OrderLength DEF LifeOK, ReceiverStopping
<1>3. ASSUME HttpStarts \/ HttpFails \/ Shutdown  PROVE LifeOK'
  <2>1. started' = started /\ UNCHANGED <<worker, hand, data, bc, fanned>>
    BY <1>3 DEF HttpStarts, HttpFails, Shutdown, bcVars, serviceVars
  <2>2. started = 3 /\ \/ main' = "up" \/ main' = "stop"
    BY <1>3, OrderLength DEF LifeOK, HttpStarts, HttpFails, Shutdown
  <2> QED  BY <2>1, <2>2, OrderLength DEF LifeOK, ReceiverStopping
<1>4. ASSUME StopService  PROVE LifeOK'
  BY <1>4 DEF LifeOK, ReceiverStopping, StopService, bcVars
<1>5. ASSUME JoinService  PROVE LifeOK'
  BY <1>0, <1>5, OrderLength
  DEF LifeOK, ReceiverStopping, JoinService, Stopped, WorkersOf, bcVars, serviceVars
<1>6. ASSUME StopBroadcaster \/ StopReceiver \/ JoinReceiver \/ JoinBroadcaster
      PROVE  LifeOK'
  BY <1>6 DEF LifeOK, ReceiverStopping, StopBroadcaster, StopReceiver, JoinReceiver,
              JoinBroadcaster, bcVars, serviceVars
<1>7. ASSUME RxTest \/ RxNothing \/ RxAccept  PROVE LifeOK'
  BY <1>7 DEF LifeOK, RxTest, RxNothing, RxAccept, mainVars, bcVars, serviceVars
<1>8. ASSUME BcTest \/ BcMiss  PROVE LifeOK'
  BY <1>8 DEF LifeOK, BcTest, BcMiss, mainVars, serviceVars
<1>9. ASSUME BcPop  PROVE LifeOK'
  <2>1. data' # 0 /\ bc' = "fan" /\ UNCHANGED <<main, started, worker, hand>>
    <3>1. Head(raw) \in Samples
      BY <1>9, HeadTailProperties DEF BcPop, RangeOK
    <3> QED  BY <1>9, <3>1 DEF BcPop, Samples, mainVars, serviceVars
  <2>2. main \notin {"bind", "spawn"}
    BY <1>9 DEF BcPop, LifeOK
  <2> QED  BY <2>1, <2>2 DEF LifeOK
<1>10. ASSUME BcPush  PROVE LifeOK'
  BY <1>10 DEF LifeOK, BcPush, mainVars
<1>11. ASSUME NEW w \in Workers, WorkerTest(w) \/ WorkerMiss(w)  PROVE LifeOK'
  BY <1>11 DEF LifeOK, RangeOK, WorkerTest, WorkerMiss, mainVars, bcVars
<1>12. ASSUME NEW w \in Workers, WorkerPop(w)  PROVE LifeOK'
  <2>1. hand'[w] # 0
    <3>1. Head(queue[ServiceOf[w]]) \in Samples
      BY <1>12, HeadTailProperties, PipelineAssumption
      DEF WorkerPop, RangeOK, PipelineAssumption
    <3> QED  BY <1>12, <3>1 DEF WorkerPop, RangeOK, Samples
  <2>2. /\ worker'[w] = "handle"
        /\ UNCHANGED <<main, started, data, bc, fanned>>
        /\ \A v \in Workers \ {w} : hand'[v] = hand[v] /\ worker'[v] = worker[v]
    BY <1>12 DEF WorkerPop, RangeOK, mainVars, bcVars
  <2>3. worker[w] \notin {"none", "exited"}
    BY <1>12 DEF WorkerPop
  <2> QED  BY <2>1, <2>2, <2>3 DEF LifeOK
<1>13. ASSUME NEW w \in Workers, WorkerHandle(w)  PROVE LifeOK'
  BY <1>13 DEF LifeOK, RangeOK, WorkerHandle, mainVars, bcVars
<1>14. ASSUME UNCHANGED vars  PROVE LifeOK'
  BY <1>14 DEF vars, LifeOK, mainVars, bcVars, serviceVars
<1> QED
  BY <1>1, <1>2, <1>3, <1>4, <1>5, <1>6, <1>7, <1>8, <1>9, <1>10, <1>11, <1>12, <1>13, <1>14
  DEF Next, MainRuns, RxStep, BcStep, WorkerStep

\* Every variable keeps its range and every thread its life time.
THEOREM TypeCorrect == Spec => []TypeOK
<1>1. TypeOK /\ [Next]_vars => TypeOK'
  BY RangeStep, LifeStep DEF TypeOK
<1> QED  BY InitType, <1>1, PTL DEF Spec

-----------------------------------------------------------------------------
\* The variables that carry samples, and the steps that move one.

dataVars == <<accepted, raw, data, fanned, queue, hand, offered, handled>>

\* Five kinds of steps move a sample; any other leaves the data alone.
LEMMA DataSteps ==
  ASSUME [Next]_vars
  PROVE  \/ RxAccept
         \/ BcPop
         \/ BcPush
         \/ \E w \in Workers : WorkerPop(w) \/ WorkerHandle(w)
         \/ UNCHANGED dataVars
<1>1. ASSUME MainRuns \/ Shutdown  PROVE UNCHANGED dataVars
  BY <1>1
  DEF MainRuns, BindOk, BindFails, SpawnBroadcaster, SetFlag, StartService, HttpStarts,
      HttpFails, Shutdown, StopService, JoinService, StopBroadcaster, StopReceiver,
      JoinReceiver, JoinBroadcaster, dataVars, rxVars, bcVars, serviceVars
<1>2. ASSUME RxTest \/ RxNothing \/ BcTest \/ BcMiss  PROVE UNCHANGED dataVars
  BY <1>2 DEF RxTest, RxNothing, BcTest, BcMiss, dataVars, rxVars, bcVars, serviceVars
<1>3. ASSUME NEW w \in Workers, WorkerTest(w) \/ WorkerMiss(w)  PROVE UNCHANGED dataVars
  BY <1>3 DEF WorkerTest, WorkerMiss, dataVars, rxVars, bcVars
<1>4. ASSUME UNCHANGED vars  PROVE UNCHANGED dataVars
  BY <1>4 DEF vars, dataVars, rxVars, bcVars, serviceVars
<1> QED  BY <1>1, <1>2, <1>3, <1>4 DEF Next, RxStep, BcStep, WorkerStep

\* The services are offered samples that are at least as far apart as their places
\* in the order: the strengthening of OfferedInOrder that bounds, without an
\* induction over a queue, how much newer the last item is than the first.
Spaced(q) == \A i, j \in DOMAIN q : i <= j => q[i] + (j - i) <= q[j]

OfferedSpaced ==
    /\ Spaced(offered["alarm"])
    /\ data # 0 => \A i \in DOMAIN offered["alarm"] : offered["alarm"][i] < data

\* RawIsNewest is kept by every step.
LEMMA RawIsNewestStep ==
  ASSUME RangeOK, LifeOK, RawIsNewest, [Next]_vars
  PROVE  RawIsNewest'
<1> DEFINE Old == \A s \in Services : \A i \in DOMAIN offered[s] :
                      offered[s][i] <= accepted - Len(raw)
<1>a. /\ raw \in Seq(Samples)
      /\ Len(raw) \in Nat
      /\ DOMAIN raw = 1..Len(raw)
  BY DEF RangeOK
<1>b. accepted \in Nat /\ data \in Nat /\ Capacity \in Nat \ {0}
  BY PipelineAssumption, CapacityAssumption DEF RangeOK, PipelineAssumption, CapacityAssumption
<1>c. /\ Len(raw) <= Capacity
      /\ Len(raw) <= accepted
      /\ \A i \in 1..Len(raw) : raw[i] = accepted - Len(raw) + i
      /\ data <= accepted - Len(raw)
  BY <1>a DEF RawIsNewest
<1>d. Old
  BY DEF RawIsNewest
<1>e. \A s \in Services : \A i \in DOMAIN offered[s] : offered[s][i] \in Nat
  <2>1. ASSUME NEW s \in Services, NEW i \in DOMAIN offered[s]  PROVE offered[s][i] \in Samples
    <3>1. offered[s] \in Seq(Samples)
      BY DEF RangeOK
    <3> QED  BY <2>1, <3>1
  <2> QED  BY <2>1 DEF Samples
<1> HIDE DEF Old
<1>1. ASSUME RxAccept  PROVE RawIsNewest'
  <2> DEFINE e == Enqueue(raw, accepted + 1)
  <2>1. /\ accepted + 1 \in Samples
        /\ raw' = e
        /\ accepted' = accepted + 1
        /\ UNCHANGED <<data, offered>>
    BY <1>1, PipelineAssumption
    DEF RxAccept, RangeOK, Samples, PipelineAssumption, bcVars, serviceVars
  <2>2. Len(e) <= Capacity /\ Len(e) \in Nat /\ DOMAIN e = 1..Len(e)
    BY <1>a, <1>c, <2>1, EnqueueLength
  <2>3. /\ Len(e) <= accepted + 1
        /\ accepted - Len(raw) <= accepted + 1 - Len(e)
        /\ \A i \in 1..Len(e) : e[i] = accepted + 1 - Len(e) + i
    BY <1>a, <1>b, <1>c, <2>1, EnqueueNewest
  <2> HIDE DEF e
  <2>4. data <= accepted + 1 - Len(e)
    BY <1>a, <1>b, <1>c, <2>2, <2>3
  <2>5. \A s \in Services : \A i \in DOMAIN offered[s] :
            offered[s][i] <= accepted + 1 - Len(e)
    BY <1>a, <1>b, <1>d, <1>e, <2>2, <2>3 DEF Old
  <2>6. \A i \in DOMAIN raw' : raw'[i] = accepted' - Len(raw') + i
    BY <1>b, <2>1, <2>2, <2>3
  <2>7. Len(raw') <= Capacity /\ Len(raw') <= accepted' /\ data' <= accepted' - Len(raw')
    BY <1>b, <2>1, <2>2, <2>3, <2>4
  <2>8. \A s \in Services : \A i \in DOMAIN offered'[s] :
            offered'[s][i] <= accepted' - Len(raw')
    BY <1>b, <1>e, <2>1, <2>2, <2>5
  <2> QED  BY <2>6, <2>7, <2>8 DEF RawIsNewest
<1>2. ASSUME BcPop  PROVE RawIsNewest'
  <2> DEFINE t == Tail(raw)
  <2>1. raw' = t /\ data' = Head(raw) /\ UNCHANGED <<accepted, offered>> /\ raw # <<>>
    BY <1>2 DEF BcPop, rxVars, serviceVars
  <2>2. /\ t \in Seq(Samples) /\ Len(t) = Len(raw) - 1 /\ DOMAIN t = 1..Len(t)
        /\ \A i \in 1..Len(t) : t[i] = raw[i + 1]
        /\ Head(raw) = raw[1] /\ Len(raw) > 0
    BY <1>a, <2>1, HeadTailProperties
  <2> HIDE DEF t
  <2>3. Head(raw) = accepted - Len(t)
    BY <1>a, <1>b, <1>c, <2>2
  <2>4. \A i \in 1..Len(t) : t[i] = accepted - Len(t) + i
    BY <1>a, <1>b, <1>c, <2>2
  <2>5. Len(t) <= Capacity /\ Len(t) <= accepted /\ accepted - Len(raw) <= accepted - Len(t)
        /\ Len(t) \in Nat
    BY <1>a, <1>b, <1>c, <2>2
  <2>6. \A s \in Services : \A i \in DOMAIN offered[s] : offered[s][i] <= accepted - Len(t)
    BY <1>a, <1>b, <1>d, <1>e, <2>5 DEF Old
  <2>7. Head(raw) <= accepted - Len(t)
    BY <1>b, <2>3, <2>5
  <2> QED  BY <2>1, <2>2, <2>4, <2>5, <2>6, <2>7 DEF RawIsNewest
<1>3. ASSUME BcPush  PROVE RawIsNewest'
  <2> DEFINE s == Order[fanned + 1]
             a == Append(offered[s], data)
  <2>1. s \in Services
    BY OrderFacts DEF RangeOK
  <2>2. data \in Samples
    BY <1>3 DEF BcPush, RangeOK, LifeOK, Samples
  <2>3. /\ UNCHANGED <<raw, accepted>>
        /\ data' = data \/ data' = 0
        /\ offered' = [offered EXCEPT ![s] = a]
    BY <1>3 DEF BcPush, rxVars
  <2>4. offered[s] \in Seq(Samples)
    BY <2>1 DEF RangeOK
  <2>5. /\ DOMAIN a = 1..(Len(offered[s]) + 1)
        /\ DOMAIN offered[s] = 1..Len(offered[s])
        /\ Len(offered[s]) \in Nat
        /\ \A i \in 1..Len(offered[s]) : a[i] = offered[s][i]
        /\ a[Len(offered[s]) + 1] = data
    BY <2>2, <2>4, AppendProperties
  <2> HIDE DEF s, a
  <2>6. \A r \in Services : offered'[r] = IF r = s THEN a ELSE offered[r]
    BY <2>1, <2>3 DEF RangeOK
  <2>7. \A i \in DOMAIN a : a[i] <= accepted - Len(raw)
    BY <1>c, <1>d, <2>1, <2>5 DEF Old
  <2>8. \A r \in Services : \A i \in DOMAIN offered'[r] :
            offered'[r][i] <= accepted' - Len(raw')
    BY <1>d, <2>3, <2>6, <2>7 DEF Old
  <2>9. data' <= accepted - Len(raw)
    BY <1>a, <1>b, <1>c, <2>3
  <2> QED  BY <1>a, <1>c, <2>3, <2>8, <2>9 DEF RawIsNewest
<1>4. ASSUME NEW w \in Workers, WorkerPop(w) \/ WorkerHandle(w)  PROVE RawIsNewest'
  BY <1>4 DEF WorkerPop, WorkerHandle, RawIsNewest, rxVars, bcVars
<1>5. ASSUME UNCHANGED dataVars  PROVE RawIsNewest'
  BY <1>5 DEF dataVars, RawIsNewest
<1> QED  BY <1>1, <1>2, <1>3, <1>4, <1>5, DataSteps

\* The types of the sample numbers and of the sequences, in the form the steps need.
LEMMA SampleTypes ==
  ASSUME RangeOK
  PROVE  /\ accepted \in Nat /\ data \in Nat /\ fanned \in 0..2
         /\ Capacity \in Nat \ {0}
         /\ \A s \in Services :
               /\ offered[s] \in Seq(Samples)
               /\ Len(offered[s]) \in Nat
               /\ DOMAIN offered[s] = 1..Len(offered[s])
               /\ \A i \in 1..Len(offered[s]) : offered[s][i] \in Nat
         /\ \A s \in Services :
               /\ queue[s] \in Seq(Samples)
               /\ Len(queue[s]) \in Nat
               /\ DOMAIN queue[s] = 1..Len(queue[s])
               /\ \A i \in 1..Len(queue[s]) : queue[s][i] \in Nat
<1>1. accepted \in Nat /\ data \in Nat /\ fanned \in 0..2
  BY PipelineAssumption, OrderLength DEF RangeOK, PipelineAssumption
<1>2. Capacity \in Nat \ {0}
  BY CapacityAssumption DEF CapacityAssumption
<1>3. ASSUME NEW q \in Seq(Samples)
      PROVE  /\ Len(q) \in Nat
             /\ DOMAIN q = 1..Len(q)
             /\ \A i \in 1..Len(q) : q[i] \in Nat
  <2>1. \A i \in 1..Len(q) : q[i] \in Samples
    OBVIOUS
  <2> QED  BY <2>1 DEF Samples
<1>4. \A s \in Services : offered[s] \in Seq(Samples) /\ queue[s] \in Seq(Samples)
  BY DEF RangeOK
<1> QED  BY <1>1, <1>2, <1>3, <1>4

\* What one push of the broadcaster does to the services.
LEMMA PushFacts ==
  ASSUME RangeOK, LifeOK, BcPush
  PROVE  /\ Order[fanned + 1] \in Services
         /\ data \in Samples
         /\ UNCHANGED <<accepted, raw, hand, handled>>
         /\ \A r \in Services :
               /\ offered'[r] = IF r = Order[fanned + 1] THEN Append(offered[r], data)
                                                         ELSE offered[r]
               /\ queue'[r] = IF r = Order[fanned + 1] THEN Enqueue(queue[r], data)
                                                       ELSE queue[r]
         /\ fanned < 2 => fanned' = fanned + 1 /\ data' = data
         /\ fanned = 2 => fanned' = 0 /\ data' = 0
<1>1. Order[fanned + 1] \in Services
  BY SampleTypes, OrderFacts
<1>2. data \in Samples
  BY DEF BcPush, RangeOK, LifeOK, Samples
<1>3. UNCHANGED <<accepted, raw, hand, handled>>
  BY DEF BcPush, rxVars
<1>4. \A r \in Services :
         /\ offered'[r] = IF r = Order[fanned + 1] THEN Append(offered[r], data)
                                                   ELSE offered[r]
         /\ queue'[r] = IF r = Order[fanned + 1] THEN Enqueue(queue[r], data)
                                                 ELSE queue[r]
  BY <1>1 DEF BcPush, RangeOK
<1>5. /\ fanned < 2 => fanned' = fanned + 1 /\ data' = data
      /\ fanned = 2 => fanned' = 0 /\ data' = 0
  BY SampleTypes, OrderLength DEF BcPush
<1> QED  BY <1>1, <1>2, <1>3, <1>4, <1>5

\* Only a push of the broadcaster changes what the services were offered.
LEMMA FanOutAgreementStep ==
  ASSUME RangeOK, LifeOK, FanOutAgreement, [Next]_vars
  PROVE  FanOutAgreement'
<1> DEFINE o == offered["alarm"]
<1>a. \A i \in 1..3 : offered[Order[i]] = IF i <= fanned THEN Append(o, data) ELSE o
  BY OrderLength DEF FanOutAgreement
<1>b. "alarm" = Order[3] /\ "alarm" \in Services
  BY OrderFacts
<1>1. ASSUME BcPush  PROVE FanOutAgreement'
  <2> DEFINE s == Order[fanned + 1]
  <2>1. fanned \in 0..2 /\ fanned + 1 \in 1..3
    BY SampleTypes
  <2>2. offered[s] = o
    BY <1>a, <2>1
  <2>3. \A r \in Services : offered'[r] = IF r = s THEN Append(offered[r], data) ELSE offered[r]
    BY <1>1, PushFacts
  <2>4. \A i \in 1..3 : Order[i] \in Services /\ (Order[i] = s <=> i = fanned + 1)
    BY <2>1, OrderFacts
  <2>5. CASE fanned < 2
    <3>1. fanned' = fanned + 1 /\ data' = data
      BY <1>1, <2>5, PushFacts
    <3>2. offered'["alarm"] = o
      BY <1>b, <2>1, <2>3, <2>4, <2>5
    <3>3. ASSUME NEW i \in 1..3
          PROVE  offered'[Order[i]] = IF i <= fanned + 1 THEN Append(o, data) ELSE o
      <4>1. CASE i = fanned + 1
        <5>1. offered'[Order[i]] = Append(o, data)
          BY <2>2, <2>3, <2>4, <4>1
        <5> QED  BY <2>1, <4>1, <5>1
      <4>2. CASE i # fanned + 1
        <5>1. offered'[Order[i]] = offered[Order[i]]
          BY <2>3, <2>4, <4>2
        <5>2. i <= fanned + 1 <=> i <= fanned
          BY <2>1, <4>2
        <5> QED  BY <1>a, <5>1, <5>2
      <4> QED  BY <4>1, <4>2
    <3> QED  BY <3>1, <3>2, <3>3, OrderLength DEF FanOutAgreement
  <2>6. CASE fanned = 2
    <3>1. fanned' = 0
      BY <1>1, <2>6, PushFacts
    <3>2. offered'["alarm"] = Append(o, data)
      <4>1. s = "alarm"
        BY <1>b, <2>4, <2>6
      <4> QED  BY <1>b, <2>2, <2>3, <4>1
    <3>3. ASSUME NEW i \in 1..3  PROVE offered'[Order[i]] = Append(o, data)
      <4>1. CASE i = 3
        BY <1>b, <3>2, <4>1
      <4>2. CASE i # 3
        <5>1. offered'[Order[i]] = offered[Order[i]] /\ i <= fanned
          BY <2>3, <2>4, <2>6, <4>2
        <5> QED  BY <1>a, <5>1
      <4> QED  BY <4>1, <4>2
    <3>4. \A i \in 1..3 : ~(i <= fanned')
      BY <3>1
    <3> QED  BY <3>2, <3>3, <3>4, OrderLength DEF FanOutAgreement
  <2> QED  BY <2>1, <2>5, <2>6
<1>2. ASSUME BcPop  PROVE FanOutAgreement'
  <2>1. UNCHANGED <<offered, fanned>> /\ fanned = 0
    BY <1>2 DEF BcPop, LifeOK, serviceVars
  <2> QED  BY <1>a, <2>1, OrderLength DEF FanOutAgreement
<1>3. ASSUME \/ RxAccept
             \/ \E w \in Workers : WorkerPop(w) \/ WorkerHandle(w)
             \/ UNCHANGED dataVars
      PROVE  FanOutAgreement'
  BY <1>3 DEF RxAccept, WorkerPop, WorkerHandle, dataVars, FanOutAgreement, bcVars, serviceVars
<1> QED  BY <1>1, <1>2, <1>3, DataSteps

\* A new round starts with a sample from the raw queue, which is newer than every
\* one offered before; the last push of the round appends it.
LEMMA OfferedSpacedStep ==
  ASSUME RangeOK, LifeOK, RawIsNewest, FanOutAgreement, OfferedSpaced, [Next]_vars
  PROVE  OfferedSpaced'
<1> DEFINE o == offered["alarm"]
<1>a. /\ "alarm" = Order[3] /\ "alarm" \in Services
      /\ o \in Seq(Samples) /\ Len(o) \in Nat /\ DOMAIN o = 1..Len(o)
      /\ \A i \in 1..Len(o) : o[i] \in Nat
      /\ accepted \in Nat /\ data \in Nat /\ fanned \in 0..2
  BY OrderFacts, SampleTypes
<1>b. /\ \A i, j \in 1..Len(o) : i <= j => o[i] + (j - i) <= o[j]
      /\ data # 0 => \A i \in 1..Len(o) : o[i] < data
  BY <1>a DEF OfferedSpaced, Spaced
<1>1. ASSUME BcPush  PROVE OfferedSpaced'
  <2>1. data \in Samples /\ data \in Nat \ {0}
    BY <1>1, PushFacts DEF Samples
  <2>2. CASE fanned < 2
    <3>1. data' = data /\ offered'["alarm"] = o
      <4>1. Order[fanned + 1] # "alarm"
        BY <1>a, <2>2, OrderFacts
      <4> QED  BY <1>1, <1>a, <2>2, <4>1, PushFacts
    <3> QED  BY <3>1 DEF OfferedSpaced, Spaced
  <2>3. CASE fanned = 2
    <3> DEFINE a == Append(o, data)
    <3>1. data' = 0 /\ offered'["alarm"] = a
      <4>1. Order[fanned + 1] = "alarm"
        BY <1>a, <2>3
      <4> QED  BY <1>1, <1>a, <2>3, <4>1, PushFacts
    <3>2. a \in Seq(Samples) /\ DOMAIN a = 1..Len(a) /\ Samples \subseteq Nat
      BY <1>a, <2>1, AppendProperties DEF Samples
    <3>3. \A i \in 1..Len(a), j \in 1..Len(a) : i <= j => a[i] + (j - i) <= a[j]
      BY <1>a, <1>b, <2>1, <3>2, AppendSpaced
    <3> HIDE DEF a
    <3> QED  BY <3>1, <3>2, <3>3 DEF OfferedSpaced, Spaced
  <2> QED  BY <1>a, <2>2, <2>3
<1>2. ASSUME BcPop  PROVE OfferedSpaced'
  <2>1. UNCHANGED offered /\ data' = Head(raw) /\ raw # <<>>
    BY <1>2 DEF BcPop, serviceVars
  <2>2. Head(raw) = raw[1] /\ Len(raw) \in Nat \ {0} /\ DOMAIN raw = 1..Len(raw)
    BY <2>1, HeadTailProperties DEF RangeOK
  <2>3. Head(raw) = accepted - Len(raw) + 1
    BY <1>a, <2>2 DEF RawIsNewest
  <2>4. \A i \in 1..Len(o) : o[i] <= accepted - Len(raw)
    BY <1>a DEF RawIsNewest
  <2>5. \A i \in 1..Len(o) : o[i] < Head(raw)
    BY <1>a, <2>2, <2>3, <2>4
  <2> QED  BY <1>a, <2>1, <2>5 DEF OfferedSpaced
<1>3. ASSUME \/ RxAccept
             \/ \E w \in Workers : WorkerPop(w) \/ WorkerHandle(w)
             \/ UNCHANGED dataVars
      PROVE  OfferedSpaced'
  BY <1>3 DEF RxAccept, WorkerPop, WorkerHandle, dataVars, OfferedSpaced, Spaced, bcVars,
              serviceVars
<1> QED  BY <1>1, <1>2, <1>3, DataSteps

\* A push extends what was offered and its queue alike; a pop takes the head.
LEMMA QueueIsTailStep ==
  ASSUME RangeOK, LifeOK, QueueIsTail, [Next]_vars
  PROVE  QueueIsTail'
<1> DEFINE Good(q, o) == Len(q) <= Capacity /\ IsTailOf(q, o)
<1>a. \A s \in Services : Good(queue[s], offered[s])
  BY SampleTypes DEF QueueIsTail, IsTailOf
<1>b. (\A s \in Services : Good(queue'[s], offered'[s])) => QueueIsTail'
  <2>1. \A s \in Services : DOMAIN queue'[s] = 1..Len(queue'[s])
    BY RangeStep DEF RangeOK
  <2> QED  BY <2>1 DEF QueueIsTail, IsTailOf
<1>1. ASSUME BcPush, NEW s \in Services  PROVE Good(queue'[s], offered'[s])
  <2>1. CASE s # Order[fanned + 1]
    BY <1>a, <1>1, <2>1, PushFacts
  <2>2. CASE s = Order[fanned + 1]
    <3>1. /\ queue'[s] = Enqueue(queue[s], data)
          /\ offered'[s] = Append(offered[s], data)
          /\ data \in Samples
      BY <1>1, <2>2, PushFacts
    <3>2. queue[s] \in Seq(Samples) /\ offered[s] \in Seq(Samples)
      BY SampleTypes
    <3> QED  BY <1>a, <3>1, <3>2, EnqueueLength, EnqueueTail
  <2> QED  BY <2>1, <2>2
<1>2. ASSUME NEW w \in Workers, WorkerPop(w), NEW s \in Services
      PROVE  Good(queue'[s], offered'[s])
  <2>1. /\ offered'[s] = offered[s]
        /\ queue'[s] = IF s = ServiceOf[w] THEN Tail(queue[s]) ELSE queue[s]
        /\ queue[ServiceOf[w]] # <<>>
    BY <1>2 DEF WorkerPop, RangeOK
  <2>2. CASE s # ServiceOf[w]
    BY <1>a, <2>1, <2>2
  <2>3. CASE s = ServiceOf[w]
    <3>1. queue[s] \in Seq(Samples) /\ offered[s] \in Seq(Samples) /\ queue[s] # <<>>
      BY <2>1, <2>3, SampleTypes
    <3>2. IsTailOf(Tail(queue[s]), offered[s])
      BY <1>a, <3>1, PopTail
    <3>3. Len(Tail(queue[s])) <= Capacity
      <4>1. Len(Tail(queue[s])) = Len(queue[s]) - 1 /\ Len(queue[s]) \in Nat /\ Capacity \in Nat
        BY <3>1, HeadTailProperties, SampleTypes
      <4>2. Len(queue[s]) <= Capacity
        BY <1>a
      <4> QED  BY <4>1, <4>2
    <3> QED  BY <2>1, <2>3, <3>2, <3>3
  <2> QED  BY <2>2, <2>3
<1>3. ASSUME \/ RxAccept
             \/ BcPop
             \/ \E w \in Workers : WorkerHandle(w)
             \/ UNCHANGED dataVars
      PROVE  QueueIsTail'
  <2>1. UNCHANGED <<queue, offered>>
    BY <1>3 DEF RxAccept, BcPop, WorkerHandle, dataVars, serviceVars
  <2> QED  BY <2>1 DEF QueueIsTail
<1> HIDE DEF Good
<1> QED  BY <1>b, <1>1, <1>2, <1>3, DataSteps

\* What the agreement of the services makes of OfferedSpaced: every service is offered
\* ever newer samples, and the one it is offered next is newer than all of them.
LEMMA OfferedIncrease ==
  ASSUME RangeOK, LifeOK, FanOutAgreement, OfferedSpaced
  PROVE  /\ \A s \in Services : \A i \in 1..Len(offered[s]), j \in 1..Len(offered[s]) :
               i <= j => offered[s][i] + (j - i) <= offered[s][j]
         /\ data # 0 => \A i \in 1..Len(offered[Order[fanned + 1]]) :
                           offered[Order[fanned + 1]][i] < data
<1> DEFINE o == offered["alarm"]
<1>1. o \in Seq(Samples) /\ DOMAIN o = 1..Len(o) /\ fanned \in 0..2 /\ Samples \subseteq Nat
  BY SampleTypes, OrderFacts DEF Samples
<1>2. /\ \A i \in 1..Len(o), j \in 1..Len(o) : i <= j => o[i] + (j - i) <= o[j]
      /\ data # 0 => \A i \in 1..Len(o) : o[i] < data
  BY <1>1 DEF OfferedSpaced, Spaced
<1>3. \A k \in 1..3 : offered[Order[k]] = IF k <= fanned THEN Append(o, data) ELSE o
  BY OrderLength DEF FanOutAgreement
<1>4. ASSUME NEW k \in 1..3, NEW i \in 1..Len(offered[Order[k]]),
             NEW j \in 1..Len(offered[Order[k]]), i <= j
      PROVE  offered[Order[k]][i] + (j - i) <= offered[Order[k]][j]
  <2>1. CASE k <= fanned
    <3>1. data \in Samples /\ data # 0
      BY <1>1, <2>1 DEF RangeOK, LifeOK, Samples
    <3>2. \A m \in 1..Len(Append(o, data)), n \in 1..Len(Append(o, data)) :
             m <= n => Append(o, data)[m] + (n - m) <= Append(o, data)[n]
      BY <1>1, <1>2, <3>1, AppendSpaced
    <3>3. offered[Order[k]] = Append(o, data)
      BY <1>3, <2>1
    <3> QED  BY <1>4, <3>2, <3>3
  <2>2. CASE ~(k <= fanned)
    <3>1. offered[Order[k]] = o
      BY <1>3, <2>2
    <3> QED  BY <1>2, <1>4, <3>1
  <2> QED  BY <2>1, <2>2
<1>5. offered[Order[fanned + 1]] = o
  BY <1>1, <1>3
<1>6. \A s \in Services : \E k \in 1..3 : Order[k] = s
  BY OrderFacts
<1> HIDE DEF o
<1> QED  BY <1>2, <1>4, <1>5, <1>6

\* The samples in a queue were offered to its service, and they are as far apart.
LEMMA QueueIncrease ==
  ASSUME RangeOK, LifeOK, FanOutAgreement, OfferedSpaced, QueueIsTail, NEW s \in Services
  PROVE  /\ \A i \in 1..Len(queue[s]) : queue[s][i] \in Items(offered[s])
         /\ \A i \in 1..Len(queue[s]), j \in 1..Len(queue[s]) :
               i <= j => queue[s][i] + (j - i) <= queue[s][j]
<1> DEFINE q == queue[s]
           o == offered[s]
           d == Len(o) - Len(q)
<1>1. /\ Len(q) \in Nat /\ DOMAIN q = 1..Len(q)
      /\ Len(o) \in Nat /\ DOMAIN o = 1..Len(o)
      /\ \A i \in 1..Len(o) : o[i] \in Nat
  BY SampleTypes
<1>2. Len(q) <= Len(o) /\ \A i \in 1..Len(q) : q[i] = o[d + i]
  BY <1>1 DEF QueueIsTail
<1>3. \A i \in 1..Len(o), j \in 1..Len(o) : i <= j => o[i] + (j - i) <= o[j]
  BY OfferedIncrease
<1>4. \A i \in 1..Len(o) : o[i] \in Items(o)
  BY <1>1 DEF Items
<1> HIDE DEF q, o
<1>5. \A i \in 1..Len(q) : d + i \in 1..Len(o)
  BY <1>1, <1>2
<1>6. ASSUME NEW i \in 1..Len(q), NEW j \in 1..Len(q), i <= j  PROVE q[i] + (j - i) <= q[j]
  <2>1. d + i <= d + j /\ (d + j) - (d + i) = j - i
    BY <1>1, <1>6
  <2>2. o[d + i] + ((d + j) - (d + i)) <= o[d + j]
    <3> HIDE DEF d
    <3> QED  BY <1>3, <1>5, <2>1
  <2> QED  BY <1>2, <2>1, <2>2
<1> HIDE DEF d
<1> QED  BY <1>2, <1>4, <1>5, <1>6 DEF q, o

\* A push adds the newest sample behind whatever a thread has or had; a pop takes the
\* oldest of the queue, which is newer than whatever was popped before.
LEMMA HandledOnceStep ==
  ASSUME RangeOK, LifeOK, FanOutAgreement, OfferedSpaced, QueueIsTail, HandledOnce, [Next]_vars
  PROVE  HandledOnce'
<1>a. RangeOK' /\ \A s \in Services : queue'[s] \in Seq(Samples) /\ DOMAIN queue'[s] = 1..Len(queue'[s])
  BY RangeStep DEF RangeOK
<1>b. \A w \in Workers : ServiceOf[w] \in Services /\ hand[w] \in Nat
  BY PipelineAssumption DEF PipelineAssumption, RangeOK
<1>c. \A s \in Services :
         /\ queue[s] \in Seq(Samples) /\ Len(queue[s]) \in Nat /\ DOMAIN queue[s] = 1..Len(queue[s])
         /\ \A i \in 1..Len(queue[s]) : queue[s][i] \in Nat
         /\ offered[s] \in Seq(Samples) /\ DOMAIN offered[s] = 1..Len(offered[s])
         /\ \A i \in 1..Len(offered[s]) : offered[s][i] \in Nat
  BY SampleTypes
<1>1. ASSUME BcPush  PROVE HandledOnce'
  <2> DEFINE s == Order[fanned + 1]
  <2>1. /\ s \in Services /\ data \in Samples /\ data # 0 /\ data \in Nat
        /\ UNCHANGED <<hand, handled>>
        /\ \A r \in Services \ {s} : offered'[r] = offered[r] /\ queue'[r] = queue[r]
        /\ offered'[s] = Append(offered[s], data)
        /\ queue'[s] = Enqueue(queue[s], data)
    <3>1. /\ s \in Services /\ data \in Samples
          /\ UNCHANGED <<hand, handled>>
          /\ \A r \in Services :
                /\ offered'[r] = IF r = s THEN Append(offered[r], data) ELSE offered[r]
                /\ queue'[r] = IF r = s THEN Enqueue(queue[r], data) ELSE queue[r]
      BY <1>1, PushFacts
    <3>2. data # 0 /\ data \in Nat
      BY <3>1 DEF Samples
    <3> HIDE DEF s
    <3> QED  BY <3>1, <3>2
  <2>2. \A n \in Items(offered[s]) : n < data
    BY <1>c, <2>1, OfferedIncrease DEF Items
  <2> HIDE DEF s
  <2>3. Items(offered[s]) \subseteq Items(offered'[s])
    <3>1. /\ DOMAIN Append(offered[s], data) = 1..(Len(offered[s]) + 1)
          /\ \A i \in 1..Len(offered[s]) : Append(offered[s], data)[i] = offered[s][i]
      BY <1>c, <2>1, AppendProperties
    <3>2. \A i \in 1..Len(offered[s]) : i \in 1..(Len(offered[s]) + 1)
      BY <1>c, <2>1
    <3> QED  BY <1>c, <2>1, <3>1, <3>2 DEF Items
  <2>4. ASSUME NEW i \in DOMAIN queue'[s]
        PROVE  queue'[s][i] = data \/ \E j \in DOMAIN queue[s] : queue'[s][i] = queue[s][j]
    <3>1. Len(queue[s]) <= Capacity
      BY <2>1 DEF QueueIsTail
    <3> DEFINE q == queue[s]
               e == Enqueue(q, data)
    <3>2. q \in Seq(Samples) /\ DOMAIN q = 1..Len(q)
      BY <1>c, <2>1
    <3>3. \A k \in 1..Len(e) : e[k] = data \/ \E j \in 1..Len(q) : e[k] = q[j]
      <4>1. ASSUME NEW k \in 1..Len(e)
            PROVE  e[k] = data \/ \E j \in 1..Len(q) : e[k] = q[j]
        <5> DEFINE d == Len(q) + 1 - Len(e)
        <5>1. e[k] = data \/ (k + d \in 1..Len(q) /\ e[k] = q[k + d])
          BY <2>1, <3>1, <3>2, EnqueueItems
        <5> HIDE DEF d, e, q
        <5> QED  BY <5>1
      <4> QED  BY <4>1
    <3>4. queue'[s] = e /\ i \in 1..Len(e)
      BY <1>a, <2>1, <2>4
    <3> HIDE DEF e
    <3> QED  BY <3>2, <3>3, <3>4
  <2>5. ASSUME NEW n, n \in Items(offered[s]), \A j \in DOMAIN queue[s] : n < queue[s][j]
        PROVE  \A i \in DOMAIN queue'[s] : n < queue'[s][i]
    BY <2>2, <2>4, <2>5
  <2>6. ASSUME NEW w \in Workers, hand'[w] # 0
        PROVE  /\ hand'[w] \in Items(offered'[ServiceOf[w]]) \ handled'[ServiceOf[w]]
               /\ \A i \in DOMAIN queue'[ServiceOf[w]] : hand'[w] < queue'[ServiceOf[w]][i]
    <3>1. /\ hand'[w] = hand[w] /\ handled' = handled
          /\ hand[w] \in Items(offered[ServiceOf[w]]) \ handled[ServiceOf[w]]
          /\ \A i \in DOMAIN queue[ServiceOf[w]] : hand[w] < queue[ServiceOf[w]][i]
      BY <2>1, <2>6 DEF HandledOnce
    <3>2. CASE ServiceOf[w] = s
      BY <2>3, <2>5, <3>1, <3>2
    <3>3. CASE ServiceOf[w] # s
      BY <1>b, <2>1, <3>1, <3>3
    <3> QED  BY <3>2, <3>3
  <2>7. ASSUME NEW r \in Services
        PROVE  /\ handled'[r] \subseteq Items(offered'[r])
               /\ \A n \in handled'[r] : \A i \in DOMAIN queue'[r] : n < queue'[r][i]
    <3>1. /\ handled'[r] = handled[r]
          /\ handled[r] \subseteq Items(offered[r])
          /\ \A n \in handled[r] : \A i \in DOMAIN queue[r] : n < queue[r][i]
      BY <2>1 DEF HandledOnce
    <3>2. CASE r = s
      BY <2>3, <2>5, <3>1, <3>2
    <3>3. CASE r # s
      BY <2>1, <3>1, <3>3
    <3> QED  BY <3>2, <3>3
  <2>8. \A v, w \in Workers :
          v # w /\ ServiceOf[v] = ServiceOf[w] /\ hand'[v] = hand'[w] => hand'[w] = 0
    BY <2>1 DEF HandledOnce
  <2> QED  BY <2>6, <2>7, <2>8 DEF HandledOnce
<1>2. ASSUME NEW w \in Workers, WorkerPop(w)  PROVE HandledOnce'
  <2> DEFINE s == ServiceOf[w]
             q == queue[s]
  <2>1. /\ s \in Services /\ q # <<>>
        /\ UNCHANGED <<offered, handled>>
        /\ \A r \in Services \ {s} : queue'[r] = queue[r]
        /\ queue'[s] = Tail(q)
        /\ hand'[w] = Head(q)
        /\ \A v \in Workers \ {w} : hand'[v] = hand[v]
    BY <1>2, <1>b DEF WorkerPop, RangeOK
  <2>2. /\ Head(q) = q[1] /\ 1 \in 1..Len(q)
        /\ Len(Tail(q)) = Len(q) - 1 /\ DOMAIN Tail(q) = 1..(Len(q) - 1)
        /\ \A i \in 1..(Len(q) - 1) : Tail(q)[i] = q[i + 1] /\ i + 1 \in 1..Len(q)
    <3>1. Len(q) \in Nat \ {0}
      BY <1>c, <2>1
    <3>2. /\ Head(q) = q[1]
          /\ Tail(q) \in Seq(Samples) /\ Len(Tail(q)) = Len(q) - 1
          /\ \A i \in 1..Len(Tail(q)) : Tail(q)[i] = q[i + 1]
      BY <1>c, <2>1, HeadTailProperties
    <3> QED  BY <3>1, <3>2
  <2>3. q[1] \in Items(offered[s]) /\ \A j \in 1..Len(q) : q[1] + (j - 1) <= q[j]
    <3>1. /\ \A i \in 1..Len(q) : q[i] \in Items(offered[s])
          /\ \A i \in 1..Len(q), j \in 1..Len(q) : i <= j => q[i] + (j - i) <= q[j]
      BY <2>1, QueueIncrease
    <3>2. \A j \in 1..Len(q) : 1 <= j
      BY <1>c, <2>1
    <3> QED  BY <2>2, <3>1, <3>2
  <2>4. \A i \in DOMAIN queue'[s] : \E j \in DOMAIN q : queue'[s][i] = q[j]
    BY <1>c, <2>1, <2>2
  <2>5. \A i \in DOMAIN queue'[s] : q[1] < queue'[s][i]
    <3>1. ASSUME NEW i \in 1..(Len(q) - 1)  PROVE q[1] < q[i + 1]
      <4>1. i + 1 \in 1..Len(q) /\ 1 \in 1..Len(q)
        BY <2>2
      <4>2. q[1] \in Nat /\ q[i + 1] \in Nat
        BY <1>c, <2>1, <4>1
      <4>3. q[1] + ((i + 1) - 1) <= q[i + 1]
        BY <2>3, <4>1
      <4>4. i \in Nat /\ i >= 1
        BY <3>1, <1>c, <2>1
      <4> HIDE DEF q
      <4> QED  BY <4>2, <4>3, <4>4
    <3> QED  BY <2>1, <2>2, <3>1
  <2>6. /\ q[1] \notin handled[s]
        /\ \A v \in Workers : ServiceOf[v] = s /\ hand[v] # 0 => hand[v] # q[1]
    <3>1. 1 \in DOMAIN q /\ q[1] \in Nat
      BY <1>c, <2>1, <2>2
    <3>2. /\ \A n \in handled[s] : n < q[1]
          /\ \A v \in Workers : ServiceOf[v] = s /\ hand[v] # 0 => hand[v] < q[1]
      BY <2>1, <3>1 DEF HandledOnce
    <3> QED  BY <3>1, <3>2
  <2>7. q[1] # 0
    <3>1. q \in Seq(Samples) /\ 1 \in 1..Len(q)
      BY <1>c, <2>1, <2>2
    <3>2. q[1] \in Samples
      BY <3>1
    <3> QED  BY <3>2 DEF Samples
  <2>8. ASSUME NEW v \in Workers, hand'[v] # 0
        PROVE  /\ hand'[v] \in Items(offered'[ServiceOf[v]]) \ handled'[ServiceOf[v]]
               /\ \A i \in DOMAIN queue'[ServiceOf[v]] : hand'[v] < queue'[ServiceOf[v]][i]
    <3>1. CASE v = w
      BY <2>1, <2>2, <2>3, <2>5, <2>6, <3>1
    <3>2. CASE v # w
      <4>1. /\ hand'[v] = hand[v]
            /\ hand[v] \in Items(offered[ServiceOf[v]]) \ handled[ServiceOf[v]]
            /\ \A i \in DOMAIN queue[ServiceOf[v]] : hand[v] < queue[ServiceOf[v]][i]
        BY <2>1, <2>8, <3>2 DEF HandledOnce
      <4>2. CASE ServiceOf[v] = s
        <5>1. \A j \in DOMAIN q : hand[v] < q[j]
          BY <4>1, <4>2
        <5>2. \A i \in DOMAIN queue'[s] : hand[v] < queue'[s][i]
          BY <2>4, <5>1
        <5> HIDE DEF s
        <5> QED  BY <2>1, <4>1, <4>2, <5>2
      <4>3. CASE ServiceOf[v] # s
        BY <1>b, <2>1, <4>1, <4>3
      <4> QED  BY <4>2, <4>3
    <3> QED  BY <3>1, <3>2
  <2>9. ASSUME NEW u \in Workers, NEW v \in Workers, u # v, ServiceOf[u] = ServiceOf[v],
               hand'[u] = hand'[v]
        PROVE  hand'[v] = 0
    <3>1. CASE u = w
      BY <2>1, <2>2, <2>6, <2>9, <3>1
    <3>2. CASE v = w
      BY <2>1, <2>2, <2>6, <2>7, <2>9, <3>2
    <3>3. CASE u # w /\ v # w
      BY <2>1, <2>9, <3>3 DEF HandledOnce
    <3> QED  BY <3>1, <3>2, <3>3
  <2>10. ASSUME NEW r \in Services
         PROVE  /\ handled'[r] \subseteq Items(offered'[r])
                /\ \A n \in handled'[r] : \A i \in DOMAIN queue'[r] : n < queue'[r][i]
    <3>1. CASE r = s
      <4>1. \A n \in handled[s] : \A j \in DOMAIN q : n < q[j]
        BY <2>1 DEF HandledOnce
      <4>2. \A n \in handled[s] : \A i \in DOMAIN queue'[s] : n < queue'[s][i]
        BY <2>4, <4>1
      <4>3. handled[s] \subseteq Items(offered[s])
        BY <2>1 DEF HandledOnce
      <4> QED  BY <2>1, <3>1, <4>2, <4>3
    <3>2. CASE r # s
      BY <2>1, <3>2 DEF HandledOnce
    <3> QED  BY <3>1, <3>2
  <2> HIDE DEF s, q
  <2> QED  BY <2>8, <2>9, <2>10 DEF HandledOnce
<1>3. ASSUME NEW w \in Workers, WorkerHandle(w)  PROVE HandledOnce'
  <2> DEFINE s == ServiceOf[w]
  <2>1. /\ s \in Services /\ hand[w] # 0
        /\ UNCHANGED <<offered, queue>>
        /\ \A r \in Services \ {s} : handled'[r] = handled[r]
        /\ handled'[s] = handled[s] \cup {hand[w]}
        /\ hand'[w] = 0
        /\ \A v \in Workers \ {w} : hand'[v] = hand[v]
    BY <1>3, <1>b DEF WorkerHandle, RangeOK, LifeOK
  <2>2. ASSUME NEW v \in Workers, hand'[v] # 0
        PROVE  /\ hand'[v] \in Items(offered'[ServiceOf[v]]) \ handled'[ServiceOf[v]]
               /\ \A i \in DOMAIN queue'[ServiceOf[v]] : hand'[v] < queue'[ServiceOf[v]][i]
    <3>1. /\ v # w /\ hand'[v] = hand[v]
          /\ hand[v] \in Items(offered[ServiceOf[v]]) \ handled[ServiceOf[v]]
          /\ \A i \in DOMAIN queue[ServiceOf[v]] : hand[v] < queue[ServiceOf[v]][i]
      BY <2>1, <2>2 DEF HandledOnce
    <3>2. CASE ServiceOf[v] = s
      <4>1. hand[v] # hand[w]
        BY <2>1, <2>2, <3>1, <3>2 DEF HandledOnce
      <4> QED  BY <2>1, <3>1, <3>2, <4>1
    <3>3. CASE ServiceOf[v] # s
      BY <1>b, <2>1, <3>1, <3>3
    <3> QED  BY <3>2, <3>3
  <2>3. \A u, v \in Workers :
          u # v /\ ServiceOf[u] = ServiceOf[v] /\ hand'[u] = hand'[v] => hand'[v] = 0
    <3>1. ASSUME NEW u \in Workers, NEW v \in Workers, u # v, ServiceOf[u] = ServiceOf[v],
                 hand'[u] = hand'[v]
          PROVE  hand'[v] = 0
      <4>1. CASE u = w
        BY <2>1, <3>1, <4>1
      <4>2. CASE v = w
        BY <2>1, <4>2
      <4>3. CASE u # w /\ v # w
        BY <2>1, <3>1, <4>3 DEF HandledOnce
      <4> QED  BY <4>1, <4>2, <4>3
    <3> QED  BY <3>1
  <2>4. ASSUME NEW r \in Services
        PROVE  /\ handled'[r] \subseteq Items(offered'[r])
               /\ \A n \in handled'[r] : \A i \in DOMAIN queue'[r] : n < queue'[r][i]
    <3>1. /\ handled[r] \subseteq Items(offered[r])
          /\ \A n \in handled[r] : \A i \in DOMAIN queue[r] : n < queue[r][i]
      BY DEF HandledOnce
    <3>2. CASE r = s
      <4>1. /\ hand[w] \in Items(offered[s])
            /\ \A i \in DOMAIN queue[s] : hand[w] < queue[s][i]
        BY <2>1 DEF HandledOnce
      <4> QED  BY <2>1, <3>1, <3>2, <4>1
    <3>3. CASE r # s
      BY <2>1, <3>1, <3>3
    <3> QED  BY <3>2, <3>3
  <2> QED  BY <2>2, <2>3, <2>4 DEF HandledOnce
<1>4. ASSUME RxAccept \/ BcPop \/ UNCHANGED dataVars  PROVE HandledOnce'
  <2>1. UNCHANGED <<hand, queue, offered, handled>>
    BY <1>4 DEF RxAccept, BcPop, dataVars, serviceVars
  <2> QED  BY <2>1 DEF HandledOnce, Items
<1> QED  BY <1>1, <1>2, <1>3, <1>4, DataSteps

\* What a pop and a push leave of the items of a queue.
LEMMA PopItems ==
  ASSUME NEW q \in Seq(Samples), q # <<>>, NEW n \in Items(q)
  PROVE  n = Head(q) \/ n \in Items(Tail(q))
<1>1. PICK k \in 1..Len(q) : n = q[k]
  BY DEF Items
<1>2. /\ Head(q) = q[1] /\ Len(Tail(q)) = Len(q) - 1 /\ DOMAIN Tail(q) = 1..Len(Tail(q))
      /\ \A j \in 1..Len(Tail(q)) : Tail(q)[j] = q[j + 1]
      /\ Len(q) \in Nat
  BY HeadTailProperties
<1>3. CASE k = 1
  BY <1>1, <1>2, <1>3
<1>4. CASE k # 1
  <2>1. k - 1 \in 1..Len(Tail(q)) /\ (k - 1) + 1 = k
    BY <1>1, <1>2, <1>4
  <2>2. Tail(q)[k - 1] = q[(k - 1) + 1]
    BY <1>2, <2>1
  <2> QED  BY <1>1, <1>2, <2>1, <2>2 DEF Items
<1> QED  BY <1>3, <1>4

\* What a push() keeps, as sets of items: the new item is there, and of the old ones
\* at most the first is lost, and only from a full queue.
LEMMA PushItems ==
  ASSUME NEW q \in Seq(Samples), Len(q) <= Capacity, NEW x \in Samples
  PROVE  /\ x \in Items(Enqueue(q, x))
         /\ \A n \in Items(q) : n \in Items(Enqueue(q, x)) \/ (n = q[1] /\ Len(q) = Capacity)
<1> DEFINE e == Enqueue(q, x)
<1>1. /\ \E i \in 1..Len(e) : e[i] = x
      /\ \A k \in 1..Len(q) :
            \/ \E i \in 1..Len(e) : e[i] = q[k]
            \/ k = 1 /\ Len(q) = Capacity
  BY EnqueueKeeps
<1>2. DOMAIN e = 1..Len(e) /\ DOMAIN q = 1..Len(q)
  BY EnqueueLength
<1> HIDE DEF e
<1>3. x \in Items(e)
  BY <1>1, <1>2 DEF Items
<1>4. ASSUME NEW n \in Items(q)  PROVE n \in Items(e) \/ (n = q[1] /\ Len(q) = Capacity)
  BY <1>1, <1>2 DEF Items
<1> QED  BY <1>3, <1>4 DEF e

\* A sample leaves the raw queue for the broadcaster, the broadcaster for a queue, the
\* queue for a thread and the thread for handled; where overflow takes it instead, at
\* least Capacity newer ones have been accepted.
LEMMA NewestSurviveStep ==
  ASSUME RangeOK, LifeOK, RawIsNewest, FanOutAgreement, OfferedSpaced, QueueIsTail,
         NewestSurvive, [Next]_vars
  PROVE  NewestSurvive'
<1>a. /\ raw \in Seq(Samples) /\ Len(raw) \in Nat /\ Len(raw) <= Capacity
      /\ accepted \in Nat /\ data \in Nat /\ fanned \in 0..2 /\ Capacity \in Nat \ {0}
  BY SampleTypes DEF RawIsNewest, RangeOK
<1>b. ASSUME NEW s \in Services
      PROVE  /\ queue[s] \in Seq(Samples) /\ Len(queue[s]) \in Nat
             /\ \A i \in 1..Len(queue[s]) : queue[s][i] \in Nat
             /\ Len(queue[s]) <= Capacity
  BY SampleTypes DEF QueueIsTail
<1>1. ASSUME RxAccept  PROVE NewestSurvive'
  <2>1. /\ raw' = Enqueue(raw, accepted + 1) /\ accepted' = accepted + 1
        /\ accepted + 1 \in Samples
        /\ UNCHANGED <<data, fanned, queue, hand, handled>>
    BY <1>1, <1>a, PipelineAssumption
    DEF RxAccept, RangeOK, Samples, PipelineAssumption, bcVars, serviceVars
  <2>2. accepted + 1 \in Items(raw')
    BY <1>a, <2>1, PushItems
  <2>3. ASSUME NEW s \in Services, NEW n \in 1..(accepted + 1), n + Capacity > accepted + 1
        PROVE  Has(s, n)'
    <3>1. CASE n = accepted + 1
      BY <2>2, <3>1 DEF Has, Ahead
    <3>2. CASE n # accepted + 1
      <4>1. Has(s, n)
        BY <1>a, <2>3, <3>2 DEF NewestSurvive
      <4>2. CASE n \in Items(raw)
        <5>1. n \in Items(raw') \/ (n = raw[1] /\ Len(raw) = Capacity)
          BY <1>a, <2>1, <4>2, PushItems
        <5>2. Len(raw) = Capacity => raw[1] = accepted - Capacity + 1
          <6>1. Len(raw) = Capacity => 1 \in DOMAIN raw
            BY <1>a
          <6> QED  BY <1>a, <6>1 DEF RawIsNewest
        <5>3. n \in Items(raw')
          BY <1>a, <2>3, <5>1, <5>2
        <5> QED  BY <5>3 DEF Has, Ahead
      <4>3. CASE n \notin Items(raw)
        BY <2>1, <4>1, <4>3 DEF Has, Ahead
      <4> QED  BY <4>2, <4>3
    <3> QED  BY <3>1, <3>2
  <2> QED  BY <2>1, <2>3 DEF NewestSurvive
<1>2. ASSUME BcPop  PROVE NewestSurvive'
  <2>1. /\ raw # <<>> /\ data' = Head(raw) /\ raw' = Tail(raw)
        /\ data = 0 /\ fanned = 0 /\ fanned' = 0
        /\ UNCHANGED <<accepted, queue, hand, handled>>
    BY <1>2 DEF BcPop, LifeOK, rxVars, serviceVars
  <2>2. ASSUME NEW s \in Services, NEW n \in 1..accepted, n + Capacity > accepted
        PROVE  Has(s, n)'
    <3>1. Has(s, n) /\ n # data
      BY <1>a, <2>1, <2>2 DEF NewestSurvive
    <3>2. CASE n \in Items(raw)
      <4>1. n = data' \/ n \in Items(raw')
        BY <1>a, <2>1, <3>2, PopItems
      <4>2. \E i \in 1..3 : Order[i] = s /\ i > fanned'
        BY <2>1, OrderFacts
      <4> QED  BY <4>1, <4>2, OrderLength DEF Has, Ahead
    <3>3. CASE n \notin Items(raw)
      BY <2>1, <3>1, <3>3 DEF Has, Ahead
    <3> QED  BY <3>2, <3>3
  <2> QED  BY <2>1, <2>2 DEF NewestSurvive
<1>3. ASSUME BcPush  PROVE NewestSurvive'
  <2> DEFINE r == Order[fanned + 1]
  <2>1. /\ r \in Services /\ data \in Samples
        /\ UNCHANGED <<accepted, raw, hand, handled>>
        /\ \A s \in Services : queue'[s] = IF s = r THEN Enqueue(queue[s], data) ELSE queue[s]
        /\ fanned < 2 => fanned' = fanned + 1 /\ data' = data
    BY <1>3, PushFacts
  <2>2. \A i \in 1..3 : Order[i] = r => i = fanned + 1
    BY <1>a, OrderFacts
  <2>3. data \in Items(queue'[r])
    <3> HIDE DEF r
    <3> QED  BY <1>b, <2>1, PushItems
  <2>4. Len(queue[r]) = Capacity => queue[r][1] + Capacity <= accepted
    <3>0. ASSUME Len(queue[r]) = Capacity  PROVE queue[r][1] + Capacity <= accepted
      <4>1. /\ 1 \in 1..Len(queue[r]) /\ Capacity \in 1..Len(queue[r]) /\ 1 <= Capacity
            /\ queue[r][1] \in Nat /\ queue[r][Capacity] \in Nat
        BY <1>a, <1>b, <2>1, <3>0
      <4>2. queue[r][1] + (Capacity - 1) <= queue[r][Capacity]
        BY <2>1, <4>1, QueueIncrease
      <4>3. queue[r][Capacity] < data
        <5>1. queue[r][Capacity] \in Items(offered[r])
          BY <2>1, <4>1, QueueIncrease
        <5>2. \A i \in 1..Len(offered[r]) : offered[r][i] < data
          BY <2>1, OfferedIncrease DEF Samples
        <5> QED  BY <2>1, <5>1, <5>2, SampleTypes DEF Items
      <4>4. data <= accepted
        BY <1>a DEF RawIsNewest
      <4> HIDE DEF r
      <4> QED  BY <1>a, <4>1, <4>2, <4>3, <4>4
    <3> QED  BY <3>0
  <2> HIDE DEF r
  <2>5. ASSUME NEW s \in Services, NEW n \in 1..accepted, n + Capacity > accepted
        PROVE  Has(s, n)'
    <3>1. Has(s, n)
      BY <2>5 DEF NewestSurvive
    <3>2. CASE n \in Items(raw) \/ (\E w \in WorkersOf(s) : hand[w] = n) \/ n \in handled[s]
      BY <2>1, <3>2 DEF Has, Ahead
    <3>3. CASE n = data /\ \E i \in 1..3 : Order[i] = s /\ i > fanned
      <4>1. CASE s = r
        BY <2>3, <3>3, <4>1 DEF Has
      <4>2. CASE s # r
        <5>1. PICK i \in 1..3 : Order[i] = s /\ i > fanned
          BY <3>3
        <5>2. i # fanned + 1
          BY <4>2, <5>1 DEF r
        <5>3. i > fanned + 1 /\ fanned < 2
          BY <1>a, <5>1, <5>2
        <5>4. n = data' /\ i > fanned'
          BY <2>1, <3>3, <5>3
        <5> QED  BY <5>1, <5>4, OrderLength DEF Has, Ahead
      <4> QED  BY <4>1, <4>2
    <3>4. CASE n \in Items(queue[s])
      <4>1. CASE s = r
        <5>1. n \in Items(queue'[s]) \/ (n = queue[s][1] /\ Len(queue[s]) = Capacity)
          BY <1>b, <2>1, <3>4, <4>1, PushItems
        <5>2. ~(n = queue[s][1] /\ Len(queue[s]) = Capacity)
          BY <1>a, <2>4, <2>5, <4>1
        <5> QED  BY <5>1, <5>2 DEF Has
      <4>2. CASE s # r
        BY <2>1, <3>4, <4>2 DEF Has
      <4> QED  BY <4>1, <4>2
    <3> QED  BY <3>1, <3>2, <3>3, <3>4, OrderLength DEF Has, Ahead
  <2> QED  BY <2>1, <2>5 DEF NewestSurvive
<1>4. ASSUME NEW w \in Workers, WorkerPop(w)  PROVE NewestSurvive'
  <2> DEFINE r == ServiceOf[w]
  <2>1. /\ r \in Services /\ queue[r] # <<>>
        /\ UNCHANGED <<accepted, raw, data, fanned, handled>>
        /\ \A s \in Services : queue'[s] = IF s = r THEN Tail(queue[s]) ELSE queue[s]
        /\ hand[w] = 0 /\ hand'[w] = Head(queue[r])
        /\ \A v \in Workers \ {w} : hand'[v] = hand[v]
    <3>1. r \in Services
      BY PipelineAssumption DEF PipelineAssumption
    <3> QED  BY <1>4, <3>1 DEF WorkerPop, RangeOK, LifeOK, rxVars, bcVars
  <2>2. w \in WorkersOf(r)
    BY DEF WorkersOf
  <2> HIDE DEF r
  <2>3. ASSUME NEW s \in Services, NEW n \in 1..accepted, n + Capacity > accepted
        PROVE  Has(s, n)'
    <3>1. Has(s, n) /\ n # 0
      BY <1>a, <2>3 DEF NewestSurvive
    <3>2. CASE Ahead(s, n) \/ n \in handled[s]
      BY <2>1, <3>2 DEF Has, Ahead
    <3>3. CASE n \in Items(queue[s])
      <4>1. CASE s = r
        <5>1. n = Head(queue[r]) \/ n \in Items(Tail(queue[r]))
          BY <1>b, <2>1, <3>3, <4>1, PopItems
        <5> QED  BY <2>1, <2>2, <4>1, <5>1 DEF Has
      <4>2. CASE s # r
        BY <2>1, <3>3, <4>2 DEF Has
      <4> QED  BY <4>1, <4>2
    <3>4. CASE \E v \in WorkersOf(s) : hand[v] = n
      <4>1. PICK v \in WorkersOf(s) : hand[v] = n
        BY <3>4
      <4>2. v # w /\ v \in Workers
        BY <2>1, <3>1, <4>1 DEF WorkersOf
      <4> QED  BY <2>1, <4>1, <4>2 DEF Has
    <3> QED  BY <3>1, <3>2, <3>3, <3>4 DEF Has
  <2> QED  BY <2>1, <2>3 DEF NewestSurvive
<1>5. ASSUME NEW w \in Workers, WorkerHandle(w)  PROVE NewestSurvive'
  <2> DEFINE r == ServiceOf[w]
  <2>1. /\ r \in Services
        /\ UNCHANGED <<accepted, raw, data, fanned, queue>>
        /\ \A s \in Services : handled'[s] = IF s = r THEN handled[s] \cup {hand[w]}
                                                      ELSE handled[s]
        /\ \A v \in Workers \ {w} : hand'[v] = hand[v]
    <3>1. r \in Services
      BY PipelineAssumption DEF PipelineAssumption
    <3> QED  BY <1>5, <3>1 DEF WorkerHandle, RangeOK, rxVars, bcVars
  <2>2. \A s \in Services : w \in WorkersOf(s) => s = r
    BY DEF WorkersOf
  <2> HIDE DEF r
  <2>3. ASSUME NEW s \in Services, NEW n \in 1..accepted, n + Capacity > accepted
        PROVE  Has(s, n)'
    <3>1. Has(s, n)
      BY <2>3 DEF NewestSurvive
    <3>2. CASE Ahead(s, n) \/ n \in Items(queue[s]) \/ n \in handled[s]
      BY <2>1, <3>2 DEF Has, Ahead
    <3>3. CASE \E v \in WorkersOf(s) : hand[v] = n
      <4>1. PICK v \in WorkersOf(s) : hand[v] = n
        BY <3>3
      <4>2. CASE v = w
        BY <2>1, <2>2, <4>1, <4>2 DEF Has
      <4>3. CASE v # w
        <5>1. v \in Workers
          BY <4>1 DEF WorkersOf
        <5> QED  BY <2>1, <4>1, <4>3, <5>1 DEF Has
      <4> QED  BY <4>2, <4>3
    <3> QED  BY <3>1, <3>2, <3>3 DEF Has
  <2> QED  BY <2>1, <2>3 DEF NewestSurvive
<1>6. ASSUME UNCHANGED dataVars  PROVE NewestSurvive'
  BY <1>6 DEF dataVars, NewestSurvive, Has, Ahead
<1> QED  BY <1>1, <1>2, <1>3, <1>4, <1>5, <1>6, DataSteps

-----------------------------------------------------------------------------
\* The inductive invariant: no part of it is inductive without the ones before it.
PipelineInv ==
    /\ RangeOK
    /\ LifeOK
    /\ RawIsNewest
    /\ FanOutAgreement
    /\ OfferedSpaced
    /\ QueueIsTail
    /\ HandledOnce
    /\ NewestSurvive

\* The invariant holds initially ...
LEMMA InvInit == Init => PipelineInv
<1> SUFFICES ASSUME Init  PROVE PipelineInv
  OBVIOUS
<1>1. RangeOK /\ LifeOK
  BY InitType DEF TypeOK
<1>2. /\ \A s \in Services : queue[s] = <<>> /\ offered[s] = <<>> /\ handled[s] = {}
      /\ raw = <<>> /\ accepted = 0 /\ data = 0 /\ fanned = 0
      /\ \A w \in Workers : hand[w] = 0
      /\ Capacity \in Nat
  BY CapacityAssumption DEF Init, CapacityAssumption
<1>3. "alarm" \in Services /\ \A w \in Workers : ServiceOf[w] \in Services
  BY PipelineAssumption DEF Services, PipelineAssumption
<1>4. RawIsNewest
  BY <1>2 DEF RawIsNewest
<1>5. FanOutAgreement
  BY <1>2, <1>3, OrderFacts DEF FanOutAgreement
<1>6. OfferedSpaced
  BY <1>2, <1>3 DEF OfferedSpaced, Spaced
<1>7. QueueIsTail
  BY <1>2 DEF QueueIsTail
<1>8. HandledOnce
  BY <1>2, <1>3 DEF HandledOnce
<1>9. NewestSurvive
  BY <1>2 DEF NewestSurvive
<1> QED  BY <1>1, <1>4, <1>5, <1>6, <1>7, <1>8, <1>9 DEF PipelineInv

\* ... and is kept by every step ...
LEMMA InvStep == PipelineInv /\ [Next]_vars => PipelineInv'
BY RangeStep, LifeStep, RawIsNewestStep, FanOutAgreementStep, OfferedSpacedStep,
   QueueIsTailStep, HandledOnceStep, NewestSurviveStep
DEF PipelineInv

\* ... so it holds along every behaviour.
LEMMA Invariance == Spec => []PipelineInv
BY InvInit, InvStep, PTL DEF Spec

\* The raw queue holds the newest accepted samples in the order of their arrival.
THEOREM RawQueueKeepsNewest == Spec => []RawIsNewest
<1>1. PipelineInv => RawIsNewest
  BY DEF PipelineInv
<1> QED  BY <1>1, Invariance, PTL

\* The services are always offered the same samples in the same order.
THEOREM ServicesAgree == Spec => []FanOutAgreement
<1>1. PipelineInv => FanOutAgreement
  BY DEF PipelineInv
<1> QED  BY <1>1, Invariance, PTL

\* Samples are offered in the order in which they were accepted.
THEOREM OfferedInArrivalOrder == Spec => []OfferedInOrder
<1>1. PipelineInv => OfferedInOrder
  <2> DEFINE o == offered["alarm"]
  <2> SUFFICES ASSUME PipelineInv, NEW i \in DOMAIN o, NEW j \in DOMAIN o, i < j
               PROVE  o[i] < o[j]
    BY DEF OfferedInOrder, PipelineInv, OfferedSpaced
  <2>1. DOMAIN o = 1..Len(o) /\ \A k \in 1..Len(o) : o[k] \in Nat
    BY SampleTypes, OrderFacts DEF PipelineInv
  <2>2. o[i] + (j - i) <= o[j]
    BY <2>1 DEF PipelineInv, OfferedSpaced, Spaced
  <2> HIDE DEF o
  <2> QED  BY <2>1, <2>2
<1> QED  BY <1>1, Invariance, PTL

\* A service's queue is always the tail of what the service was offered.
THEOREM QueueHoldsTail == Spec => []QueueIsTail
<1>1. PipelineInv => QueueIsTail
  BY DEF PipelineInv
<1> QED  BY <1>1, Invariance, PTL

\* However many threads a service has, none of its samples is worked on twice.
THEOREM NoSampleTwice == Spec => []HandledOnce
<1>1. PipelineInv => HandledOnce
  BY DEF PipelineInv
<1> QED  BY <1>1, Invariance, PTL

\* Between the socket and a service's worker no sample overtakes another, doubles or is
\* lost but for the overwritten ones.
THEOREM OrderIsKept == Spec => []SamplesInOrder
<1>1. SamplesInOrder <=> /\ RawIsNewest /\ FanOutAgreement /\ OfferedInOrder
                         /\ QueueIsTail /\ HandledOnce
  BY DEF SamplesInOrder
<1> QED
  BY <1>1, RawQueueKeepsNewest, ServicesAgree, OfferedInArrivalOrder, QueueHoldsTail,
     NoSampleTwice, PTL

\* The newest queue_capacity accepted samples are never lost on the way to a service.
THEOREM NewestNeverLost == Spec => []NewestSurvive
<1>1. PipelineInv => NewestSurvive
  BY DEF PipelineInv
<1> QED  BY <1>1, Invariance, PTL

\* A handler runs in no service but one that is started and not yet joined.
THEOREM QuietOutside == Spec => QuietOutsideService
<1> DEFINE Quiet == \A i \in DOMAIN Order : i > started => handled'[Order[i]] = handled[Order[i]]
<1>1. TypeOK /\ [Next]_vars => [Quiet]_vars
  <2> SUFFICES ASSUME TypeOK, [Next]_vars, NEW i \in DOMAIN Order, i > started
               PROVE  handled'[Order[i]] = handled[Order[i]]
    OBVIOUS
  <2>1. ASSUME NEW w \in Workers, WorkerHandle(w)
        PROVE  handled'[Order[i]] = handled[Order[i]]
    <3>1. worker[w] = "handle" /\ worker[w] \notin {"none", "exited"}
      BY <2>1 DEF WorkerHandle
    <3>2. ServiceOf[w] # Order[i]
      BY <3>1 DEF TypeOK, LifeOK
    <3>3. handled' = [handled EXCEPT ![ServiceOf[w]] = @ \cup {hand[w]}]
          /\ Order[i] \in Services
      BY <2>1, OrderFacts DEF WorkerHandle
    <3> QED  BY <3>2, <3>3 DEF TypeOK, RangeOK
  <2>2. CASE UNCHANGED handled
    BY <2>2
  <2>3. ASSUME NEW w \in Workers, WorkerPop(w)
        PROVE  UNCHANGED handled
    BY <2>3 DEF WorkerPop
  <2>4. CASE RxAccept \/ BcPop \/ BcPush \/ UNCHANGED dataVars
    BY <2>2, <2>4 DEF RxAccept, BcPop, BcPush, dataVars, serviceVars
  <2> QED  BY <2>1, <2>2, <2>3, <2>4, DataSteps
<1> QED  BY <1>1, TypeCorrect, PTL DEF Spec, QuietOutsideService

-----------------------------------------------------------------------------

\* The targets of the abstract broadcast are the services of the process.
LEMMA BroadcastTargets == Broadcast!Targets = Services
BY OrderFacts, OrderLength DEF Broadcast!Targets

\* A push of the broadcaster opens or continues a round of the abstract broadcast.
LEMMA PushOffers ==
  ASSUME PipelineInv, BcPush
  PROVE  Broadcast!BroadcastNext
<1> USE DEF PipelineInv
<1> DEFINE o == offered["alarm"]
<1>1. /\ fanned \in 0..2 /\ data \in Samples /\ data # 0
      /\ UNCHANGED <<accepted, handled>>
      /\ offered' = [offered EXCEPT ![Order[fanned + 1]] = Append(@, data)]
  BY PushFacts, SampleTypes DEF BcPush, LifeOK
<1>2. \A i \in 1..3 : offered[Order[i]] = IF i <= fanned THEN Append(o, data) ELSE o
  BY OrderLength DEF FanOutAgreement
<1> HIDE DEF o
<1>3. CASE fanned = 0
  <2>1. \A i \in 1..3 : offered[Order[i]] = o
    BY <1>2, <1>3
  <2>2. \A s, r \in Broadcast!Targets : offered[s] = offered[r]
    BY <2>1, BroadcastTargets, OrderFacts
  <2>3. data \in 1..accepted
    <3>1. raw \in Seq(Samples) /\ Len(raw) \in Nat /\ accepted \in Nat /\ data \in Nat
      BY SampleTypes DEF RangeOK
    <3>2. data <= accepted - Len(raw)
      BY DEF RawIsNewest
    <3> QED  BY <1>1, <3>1, <3>2
  <2>4. \A i \in DOMAIN offered[Order[1]] : offered[Order[1]][i] < data
    <3>1. Order[fanned + 1] = Order[1] /\ Order[1] \in Services
      BY <1>3, OrderFacts
    <3>2. DOMAIN offered[Order[1]] = 1..Len(offered[Order[1]])
      BY <3>1, SampleTypes
    <3> QED  BY <1>1, <3>1, <3>2, OfferedIncrease
  <2>5. offered' = [offered EXCEPT ![Order[1]] = Append(@, data)]
    BY <1>1, <1>3
  <2>6. Broadcast!OfferFirst(data)
    BY <1>1, <2>2, <2>3, <2>4, <2>5 DEF Broadcast!OfferFirst
  <2> QED  BY <1>1, <2>6 DEF Broadcast!BroadcastNext
<1>4. CASE fanned # 0
  <2>1. /\ fanned \in 1..2 /\ fanned \in 1..3 /\ fanned <= fanned
        /\ fanned + 1 \in 1..3 /\ ~(fanned + 1 <= fanned)
    BY <1>1, <1>4
  <2>2. offered[Order[fanned]] = Append(o, data) /\ offered[Order[fanned + 1]] = o
    <3> DEFINE F(i) == IF i <= fanned THEN Append(o, data) ELSE o
    <3>1. F(fanned) = Append(o, data) /\ F(fanned + 1) = o
      BY <2>1
    <3>2. offered[Order[fanned]] = F(fanned) /\ offered[Order[fanned + 1]] = F(fanned + 1)
      <4>1. \A i \in 1..3 : offered[Order[i]] = F(i)
        BY <1>2
      <4> HIDE DEF F
      <4> QED  BY <2>1, <4>1
    <3> QED  BY <3>1, <3>2
  <2>3. offered' = [offered EXCEPT ![Order[fanned + 1]] = offered[Order[fanned]]]
    BY <1>1, <2>2
  <2>4. Broadcast!OfferNext(fanned, data)
    BY <1>1, <2>2, <2>3 DEF Broadcast!OfferNext
  <2> QED  BY <1>1, <2>1, <2>4, OrderLength DEF Broadcast!BroadcastNext
<1> QED  BY <1>3, <1>4

\* Every step of the pipeline is a step of the lossy broadcast or leaves it alone.
THEOREM PipelineImplementsBroadcast == Spec => ImplementsBroadcast
<1>1. Init => Broadcast!BroadcastInit
  BY BroadcastTargets DEF Init, Broadcast!BroadcastInit
<1>2. ASSUME PipelineInv, [Next]_vars
      PROVE  [Broadcast!BroadcastNext]_(Broadcast!broadcastVars)
  <2>1. ASSUME RxAccept  PROVE Broadcast!BroadcastNext
    <3>1. accepted + 1 \in Samples
      BY <1>2, <2>1, PipelineAssumption
      DEF PipelineInv, RxAccept, RangeOK, Samples, PipelineAssumption
    <3> QED
      BY <2>1, <3>1
      DEF RxAccept, serviceVars, Broadcast!AcceptSample, Broadcast!BroadcastNext
  <2>2. ASSUME BcPush  PROVE Broadcast!BroadcastNext
    BY <1>2, <2>2, PushOffers
  <2>3. ASSUME NEW w \in Workers, WorkerHandle(w)  PROVE Broadcast!BroadcastNext
    <3> DEFINE s == ServiceOf[w]
               n == hand[w]
    <3>1. s \in Broadcast!Targets
      BY BroadcastTargets, PipelineAssumption DEF PipelineAssumption
    <3>2. n # 0 /\ n \in Samples
      BY <1>2, <2>3 DEF WorkerHandle, PipelineInv, LifeOK, RangeOK, Samples
    <3>3. n \in {offered[s][i] : i \in DOMAIN offered[s]} \ handled[s]
      BY <1>2, <3>2 DEF PipelineInv, HandledOnce, Items
    <3>4. /\ handled' = [handled EXCEPT ![s] = @ \cup {n}]
          /\ UNCHANGED <<accepted, offered>>
      BY <2>3 DEF WorkerHandle, rxVars
    <3> HIDE DEF s, n
    <3>5. Broadcast!Handle(s, n)
      BY <3>3, <3>4 DEF Broadcast!Handle
    <3> QED  BY <3>1, <3>2, <3>5 DEF Broadcast!BroadcastNext
  <2>4. ASSUME BcPop \/ (\E w \in Workers : WorkerPop(w)) \/ UNCHANGED dataVars
        PROVE  UNCHANGED Broadcast!broadcastVars
    BY <2>4 DEF BcPop, WorkerPop, dataVars, rxVars, serviceVars, Broadcast!broadcastVars
  <2> QED  BY <1>2, <2>1, <2>2, <2>3, <2>4, DataSteps
<1> QED  BY <1>1, <1>2, Invariance, PTL DEF Spec, ImplementsBroadcast, Broadcast!BroadcastSpec

=============================================================================
