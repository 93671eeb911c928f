--------------------------- MODULE SensorPipeline ---------------------------
(***************************************************************************)
(* The backend process of backend/src/main.cpp: the UDP receiver thread     *)
(* (udp_receiver.cpp), the raw queue, the BroadcastingReceiver thread that  *)
(* pushes every sample into the three service queues one after another, the *)
(* worker threads of the three services, and the main thread that starts    *)
(* and stops them all.                                                      *)
(*                                                                          *)
(* A wait_pop() is one action here, an item or (on an empty queue) a miss:  *)
(* MessageQueue shows that its locking and waking add nothing to that.      *)
(* Queues keep accepting and handing out items after their stop(), which    *)
(* only ends a wait earlier, so the queues' own flags are left out.         *)
(* A sample is the number of the accepted datagram it came in.              *)
(***************************************************************************)
EXTENDS BoundedDeque

CONSTANTS
    Workers,      \* the service threads that call wait_pop()
    ServiceOf,    \* [Workers -> the service the thread belongs to]
    MaxSamples    \* bound on the accepted datagrams

\* The services in the order in which main() starts them, which is also the order
\* in which the broadcaster pushes to them.
Order == <<"ballistic", "accuracy", "alarm">>
Services == {"ballistic", "accuracy", "alarm"}

ASSUME PipelineAssumption ==
    /\ ServiceOf \in [Workers -> Services]
    /\ MaxSamples \in Nat

VARIABLES
    main,        \* where the main thread is
    started,     \* how many services, in Order, are started and not yet joined
    failing,     \* TRUE if main() returns because the HTTP server did not start
    rx,          \* the thread of UdpReceiver
    rxRunning,   \* UdpReceiver::Impl::running
    accepted,    \* UdpReceiver::Impl::received_count
    raw,         \* sensor_queue_udp
    bc,          \* the thread of BroadcastingReceiver
    bcRunning,   \* BroadcastingReceiver::running_
    data,        \* the sample that the broadcaster fans out, 0 if none
    fanned,      \* how many services have got it already
    queue,       \* [Services -> sensor_queue_ballistic/accuracy/alarm]
    running_,    \* [Services -> the flag of the service]
    worker,      \* [Workers -> where the thread is in worker_loop()]
    hand,        \* [Workers -> the sample it works on, 0 if none]
    offered,     \* history: [Services -> the samples pushed to its queue, in order]
    handled      \* history: [Services -> the samples its workers are done with]

mainVars    == <<main, started, failing>>
rxVars      == <<rx, rxRunning, accepted>>
bcVars      == <<bc, bcRunning, data, fanned>>
serviceVars == <<queue, running_, worker, hand, offered, handled>>
vars == <<mainVars, rxVars, raw, bcVars, serviceVars>>

WorkersOf(s) == {w \in Workers : ServiceOf[w] = s}
Items(q) == {q[i] : i \in DOMAIN q}
Running == main \notin {"failed", "terminated"}     \* the process still exists

Init ==
    /\ main = "bind" /\ started = 0 /\ failing = FALSE
    /\ rx = "none" /\ rxRunning = FALSE /\ accepted = 0
    /\ raw = <<>>
    /\ bc = "none" /\ bcRunning = FALSE /\ data = 0 /\ fanned = 0
    /\ queue = [s \in Services |-> <<>>]
    /\ running_ = [s \in Services |-> FALSE]
    /\ worker = [w \in Workers |-> "none"]
    /\ hand = [w \in Workers |-> 0]
    /\ offered = [s \in Services |-> <<>>]
    /\ handled = [s \in Services |-> {}]

-----------------------------------------------------------------------------
\* main(), starting.

\* UdpReceiver::start(): the socket is bound, running is set, the thread starts.
BindOk ==
    /\ main = "bind"
    /\ main' = "spawn"
    /\ rxRunning' = TRUE
    /\ rx' = "loop"
    /\ UNCHANGED <<started, failing, accepted, raw, bcVars, serviceVars>>

\* It cannot bind: main() returns 1, and nothing runs yet.
BindFails ==
    /\ main = "bind"
    /\ main' = "failed"
    /\ UNCHANGED <<started, failing, rxVars, raw, bcVars, serviceVars>>

\* BroadcastingReceiver::start() spawns its thread ...
SpawnBroadcaster ==
    /\ main = "spawn"
    /\ main' = "flag"
    /\ bc' = "loop"
    /\ UNCHANGED <<started, failing, rxVars, raw, bcRunning, data, fanned, serviceVars>>

\* ... and sets running_ afterwards.
SetFlag ==
    /\ main = "flag"
    /\ main' = "start"
    /\ bcRunning' = TRUE
    /\ UNCHANGED <<started, failing, rxVars, raw, bc, data, fanned, serviceVars>>

\* start() of the next service: running_, then its threads.
StartService ==
    /\ main = "start"
    /\ LET s == Order[started + 1] IN
          /\ running_' = [running_ EXCEPT ![s] = TRUE]
          /\ worker' = [w \in Workers |-> IF ServiceOf[w] = s THEN "loop" ELSE worker[w]]
    /\ started' = started + 1
    /\ main' = IF started + 1 = Len(Order) THEN "http" ELSE "start"
    /\ UNCHANGED <<failing, rxVars, raw, bcVars, queue, hand, offered, handled>>

HttpStarts ==
    /\ main = "http"
    /\ main' = "up"
    /\ UNCHANGED <<started, failing, rxVars, raw, bcVars, serviceVars>>

\* HttpServer::start() cannot bind or listen: main() returns 1, and the destructors
\* of its locals run, which stop() the services in the reverse order.
HttpFails ==
    /\ main = "http"
    /\ failing' = TRUE
    /\ main' = "stop"
    /\ UNCHANGED <<started, rxVars, raw, bcVars, serviceVars>>

-----------------------------------------------------------------------------
\* main(), stopping.

\* A signal has set g_shutdown; http_server->stop().
Shutdown ==
    /\ main = "up"
    /\ main' = "stop"
    /\ UNCHANGED <<started, failing, rxVars, raw, bcVars, serviceVars>>

\* stop() of the last service still started: running_ = false.
StopService ==
    /\ main = "stop"
    /\ running_' = [running_ EXCEPT ![Order[started]] = FALSE]
    /\ main' = "join"
    /\ UNCHANGED <<started, failing, rxVars, raw, bcVars, queue, worker, hand, offered, handled>>

\* After the last service, an ordinary shutdown stops the receiver; a failed start
\* destroys it, which is std::terminate() because its thread is joinable.
Stopped ==
    /\ started' = started - 1
    /\ main' = IF started > 1 THEN "stop" ELSE IF failing THEN "terminated" ELSE "bcflag"

\* Mutant: stop() does not wait for the service's threads.
DetachService ==
    /\ main = "join"
    /\ Stopped
    /\ UNCHANGED <<failing, rxVars, raw, bcVars, serviceVars>>

\* stop(): join the threads of the service.
JoinService ==
    /\ main = "join"
    /\ \A w \in WorkersOf(Order[started]) : worker[w] = "exited"
    /\ Stopped
    /\ UNCHANGED <<failing, rxVars, raw, bcVars, serviceVars>>

\* Mutant: BroadcastingReceiver::stop() leaves running_ alone.
KeepBroadcasting ==
    /\ main = "bcflag"
    /\ main' = "rxflag"
    /\ UNCHANGED <<started, failing, rxVars, raw, bcVars, serviceVars>>

\* BroadcastingReceiver::stop(): running_ = false, raw_queue_->stop().
StopBroadcaster ==
    /\ main = "bcflag"
    /\ main' = "rxflag"
    /\ bcRunning' = FALSE
    /\ UNCHANGED <<started, failing, rxVars, raw, bc, data, fanned, serviceVars>>

\* UdpReceiver::stop(): running = false.
StopReceiver ==
    /\ main = "rxflag"
    /\ main' = "rxjoin"
    /\ rxRunning' = FALSE
    /\ UNCHANGED <<started, failing, rx, accepted, raw, bcVars, serviceVars>>

JoinReceiver ==
    /\ main = "rxjoin"
    /\ rx = "exited"
    /\ main' = "bcjoin"
    /\ UNCHANGED <<started, failing, rxVars, raw, bcVars, serviceVars>>

JoinBroadcaster ==
    /\ main = "bcjoin"
    /\ bc = "exited"
    /\ main' = "done"
    /\ UNCHANGED <<started, failing, rxVars, raw, bcVars, serviceVars>>

MainRuns ==
    \/ BindOk \/ BindFails \/ SpawnBroadcaster \/ SetFlag \/ StartService
    \/ HttpStarts \/ HttpFails
    \/ StopService \/ JoinService
    \/ StopBroadcaster \/ StopReceiver \/ JoinReceiver \/ JoinBroadcaster

-----------------------------------------------------------------------------
\* The UDP receiver thread.

\* while (impl_->running).
RxTest ==
    /\ rx = "loop"
    /\ rx' = IF rxRunning THEN "recv" ELSE "exited"
    /\ UNCHANGED <<mainVars, rxRunning, accepted, raw, bcVars, serviceVars>>

\* recvfrom() times out, or its datagram does not parse or is not valid.
RxNothing ==
    /\ rx = "recv"
    /\ rx' = "loop"
    /\ UNCHANGED <<mainVars, rxRunning, accepted, raw, bcVars, serviceVars>>

\* A valid datagram: its sample is pushed to the raw queue and counted.
RxAccept ==
    /\ rx = "recv"
    /\ accepted < MaxSamples
    /\ raw' = Enqueue(raw, accepted + 1)
    /\ accepted' = accepted + 1
    /\ rx' = "loop"
    /\ UNCHANGED <<mainVars, rxRunning, bcVars, serviceVars>>

RxStep == Running /\ (RxTest \/ RxNothing \/ RxAccept)

-----------------------------------------------------------------------------
\* The broadcaster thread.

\* while (running_).
BcTest ==
    /\ bc = "loop"
    /\ bc' = IF bcRunning THEN "pop" ELSE "exited"
    /\ UNCHANGED <<mainVars, rxVars, raw, bcRunning, data, fanned, serviceVars>>

\* wait_pop() times out, or returns at once because the queue is stopped.
BcMiss ==
    /\ bc = "pop"
    /\ raw = <<>>
    /\ bc' = "loop"
    /\ UNCHANGED <<mainVars, rxVars, raw, bcRunning, data, fanned, serviceVars>>

\* wait_pop() returns the oldest sample.
BcPop ==
    /\ bc = "pop"
    /\ raw # <<>>
    /\ data' = Head(raw)
    /\ raw' = Tail(raw)
    /\ bc' = "fan"
    /\ UNCHANGED <<mainVars, rxVars, bcRunning, fanned, serviceVars>>

\* Mutant: the broadcast ends after the first two services.
BcPushTwo ==
    /\ bc = "fan"
    /\ LET s == Order[fanned + 1] IN
          /\ queue' = [queue EXCEPT ![s] = Enqueue(@, data)]
          /\ offered' = [offered EXCEPT ![s] = Append(@, data)]
    /\ IF fanned + 1 < Len(Order) - 1
         THEN fanned' = fanned + 1 /\ UNCHANGED <<bc, data>>
         ELSE fanned' = 0 /\ data' = 0 /\ bc' = "loop"
    /\ UNCHANGED <<mainVars, rxVars, raw, bcRunning, running_, worker, hand, handled>>

\* broadcast_(data): a push to the next service's queue, started or stopped alike.
BcPush ==
    /\ bc = "fan"
    /\ LET s == Order[fanned + 1] IN
          /\ queue' = [queue EXCEPT ![s] = Enqueue(@, data)]
          /\ offered' = [offered EXCEPT ![s] = Append(@, data)]
    /\ IF fanned + 1 < Len(Order)
         THEN fanned' = fanned + 1 /\ UNCHANGED <<bc, data>>
         ELSE fanned' = 0 /\ data' = 0 /\ bc' = "loop"
    /\ UNCHANGED <<mainVars, rxVars, raw, bcRunning, running_, worker, hand, handled>>

BcStep == Running /\ (BcTest \/ BcMiss \/ BcPop \/ BcPush)

-----------------------------------------------------------------------------
\* The service threads.

\* while (running_).
WorkerTest(w) ==
    /\ worker[w] = "loop"
    /\ worker' = [worker EXCEPT ![w] = IF running_[ServiceOf[w]] THEN "pop" ELSE "exited"]
    /\ UNCHANGED <<mainVars, rxVars, raw, bcVars, queue, running_, hand, offered, handled>>

WorkerMiss(w) ==
    /\ worker[w] = "pop"
    /\ queue[ServiceOf[w]] = <<>>
    /\ worker' = [worker EXCEPT ![w] = "loop"]
    /\ UNCHANGED <<mainVars, rxVars, raw, bcVars, queue, running_, hand, offered, handled>>

\* Mutant: the sample is copied but stays in the queue.
WorkerPeek(w) ==
    /\ worker[w] = "pop"
    /\ queue[ServiceOf[w]] # <<>>
    /\ hand' = [hand EXCEPT ![w] = Head(queue[ServiceOf[w]])]
    /\ worker' = [worker EXCEPT ![w] = "handle"]
    /\ UNCHANGED <<mainVars, rxVars, raw, bcVars, queue, running_, offered, handled>>

WorkerPop(w) ==
    /\ worker[w] = "pop"
    /\ queue[ServiceOf[w]] # <<>>
    /\ hand' = [hand EXCEPT ![w] = Head(queue[ServiceOf[w]])]
    /\ queue' = [queue EXCEPT ![ServiceOf[w]] = Tail(@)]
    /\ worker' = [worker EXCEPT ![w] = "handle"]
    /\ UNCHANGED <<mainVars, rxVars, raw, bcVars, running_, offered, handled>>

\* process_sensor_data() and its result, the shot history, or check_and_alert(); an
\* exception ends the sample as well.
WorkerHandle(w) ==
    /\ worker[w] = "handle"
    /\ handled' = [handled EXCEPT ![ServiceOf[w]] = @ \cup {hand[w]}]
    /\ hand' = [hand EXCEPT ![w] = 0]
    /\ worker' = [worker EXCEPT ![w] = "loop"]
    /\ UNCHANGED <<mainVars, rxVars, raw, bcVars, queue, running_, offered>>

WorkerStep(w) ==
    Running /\ (WorkerTest(w) \/ WorkerMiss(w) \/ WorkerPop(w) \/ WorkerHandle(w))

Next == MainRuns \/ Shutdown \/ RxStep \/ BcStep \/ \E w \in Workers : WorkerStep(w)

Spec == Init /\ [][Next]_vars

\* Every thread runs when it can; no signal and no datagram has to come.
Fairness ==
    /\ WF_vars(MainRuns)
    /\ WF_vars(Running /\ (RxTest \/ RxNothing))
    /\ WF_vars(BcStep)
    /\ \A w \in Workers : WF_vars(WorkerStep(w))

FairSpec == Spec /\ Fairness

-----------------------------------------------------------------------------

MainStates == {"bind", "spawn", "flag", "start", "http", "up", "stop", "join", "bcflag",
               "rxflag", "rxjoin", "bcjoin", "done", "failed", "terminated"}
Samples == 1..MaxSamples
ReceiverStopping == {"bcflag", "rxflag", "rxjoin", "bcjoin", "done"}

\* The range of every variable.
RangeOK ==
    /\ main \in MainStates
    /\ started \in 0..Len(Order)
    /\ failing \in BOOLEAN
    /\ rx \in {"none", "loop", "recv", "exited"}
    /\ rxRunning \in BOOLEAN
    /\ accepted \in 0..MaxSamples
    /\ raw \in Seq(Samples)
    /\ bc \in {"none", "loop", "pop", "fan", "exited"}
    /\ bcRunning \in BOOLEAN
    /\ data \in 0..MaxSamples
    /\ fanned \in 0..(Len(Order) - 1)
    /\ queue \in [Services -> Seq(Samples)]
    /\ running_ \in [Services -> BOOLEAN]
    /\ worker \in [Workers -> {"none", "loop", "pop", "handle", "exited"}]
    /\ hand \in [Workers -> 0..MaxSamples]
    /\ offered \in [Services -> Seq(Samples)]
    /\ handled \in [Services -> SUBSET Samples]

\* Which threads exist: those of a service between its start() and the end of its
\* join; a thread has a sample exactly while it works on one.
LifeOK ==
    /\ main \in {"bind", "spawn"} => bc = "none"
    /\ main \in {"stop", "join"} => started > 0
    /\ main \in {"bind", "spawn", "flag"} \cup ReceiverStopping => started = 0
    /\ main = "start" => started < Len(Order)
    /\ main \in {"http", "up"} => started = Len(Order)
    /\ \A w \in Workers : hand[w] # 0 <=> worker[w] = "handle"
    /\ \A i \in DOMAIN Order, w \in Workers :
          ServiceOf[w] = Order[i] /\ i > started => worker[w] \in {"none", "exited"}
    /\ data # 0 <=> bc = "fan"
    /\ data = 0 => fanned = 0

\* Every variable keeps its range and every thread its life time.
TypeOK == RangeOK /\ LifeOK

\* The raw queue holds the newest accepted samples in the order of their arrival,
\* and what the broadcaster holds or has pushed is older than all of them.
RawIsNewest ==
    /\ Len(raw) <= Capacity
    /\ Len(raw) <= accepted
    /\ \A i \in DOMAIN raw : raw[i] = accepted - Len(raw) + i
    /\ data <= accepted - Len(raw)
    /\ \A s \in Services : \A i \in DOMAIN offered[s] : offered[s][i] <= accepted - Len(raw)

\* The three services are offered the same samples in the same order; the only
\* difference at any time is the one sample being fanned out.
FanOutAgreement ==
    \A i \in DOMAIN Order :
        offered[Order[i]] = IF i <= fanned THEN Append(offered["alarm"], data)
                                           ELSE offered["alarm"]

\* A sample that is fanned out is newer than every one fanned out before it, although
\* overflow of the raw queue may have skipped some.
OfferedInOrder ==
    /\ \A i \in DOMAIN offered["alarm"], j \in DOMAIN offered["alarm"] :
          i < j => offered["alarm"][i] < offered["alarm"][j]
    /\ data # 0 => \A i \in DOMAIN offered["alarm"] : offered["alarm"][i] < data

\* A service's queue is the tail of what it was offered: overflow takes the oldest.
QueueIsTail ==
    \A s \in Services :
        /\ Len(queue[s]) <= Capacity
        /\ Len(queue[s]) <= Len(offered[s])
        /\ \A i \in DOMAIN queue[s] :
              queue[s][i] = offered[s][Len(offered[s]) - Len(queue[s]) + i]

\* A service never gets a sample twice, with any number of threads: the sample in
\* hand was offered, is not handled, is nobody else's, and is older than the queue.
HandledOnce ==
    /\ \A w \in Workers :
          hand[w] # 0 =>
              /\ hand[w] \in Items(offered[ServiceOf[w]]) \ handled[ServiceOf[w]]
              /\ \A i \in DOMAIN queue[ServiceOf[w]] : hand[w] < queue[ServiceOf[w]][i]
    /\ \A v, w \in Workers :
          v # w /\ ServiceOf[v] = ServiceOf[w] /\ hand[v] = hand[w] => hand[w] = 0
    /\ \A s \in Services :
          /\ handled[s] \subseteq Items(offered[s])
          /\ \A n \in handled[s] : \A i \in DOMAIN queue[s] : n < queue[s][i]

\* Order is kept and nothing is doubled from the socket to the handlers: the five facts
\* above, each about one stage and the ones before it.
SamplesInOrder == RawIsNewest /\ FanOutAgreement /\ OfferedInOrder /\ QueueIsTail /\ HandledOnce

\* Where service s has sample n: still ahead of its queue, queued, in hand or done.
Ahead(s, n) ==
    \/ n \in Items(raw)
    \/ n = data /\ \E i \in DOMAIN Order : Order[i] = s /\ i > fanned

Has(s, n) ==
    \/ Ahead(s, n)
    \/ n \in Items(queue[s])
    \/ \E w \in WorkersOf(s) : hand[w] = n
    \/ n \in handled[s]

\* Nothing is lost but by overflow: the newest queue_capacity accepted samples are
\* on their way to each of the three services or have been handled by it, whatever
\* the speeds of the threads and however far a shutdown has come.
NewestSurvive ==
    \A s \in Services, n \in 1..accepted : n + Capacity > accepted => Has(s, n)

\* Outside the time between a service's start() and the end of its stop() none of
\* its handlers runs, so main() may go on to destroy what they use.
QuietOutsideService ==
    [][\A i \in DOMAIN Order : i > started => handled'[Order[i]] = handled[Order[i]]]_vars

\* A shutdown comes to its end although samples keep arriving: each thread tests its
\* flag between two samples and each wait is bounded.
ShutdownEnds == main = "stop" ~> main \in {"done", "terminated"}

\* A sample accepted while the pipeline runs is handled by each running service that has
\* a thread (their number is configured), or is overtaken by queue_capacity newer ones.
SampleIsHandled ==
    \A s \in {ServiceOf[w] : w \in Workers}, n \in Samples :
        accepted >= n /\ running_[s] ~> \/ n \in handled[s]
                                        \/ accepted >= n + Capacity
                                        \/ ~running_[s]
                                        \/ bc = "exited"

Broadcast == INSTANCE LossyBroadcast

\* The pipeline implements the lossy broadcast: the queues, the threads and the
\* whole of starting and stopping are invisible in it.
ImplementsBroadcast == Broadcast!BroadcastSpec

\* main.cpp logs "All modules started successfully" and serves: README.md's data flow
\* then has a BroadcastingReceiver between the raw queue and the services.
FanOutAlive == main = "up" => bc # "exited"

=============================================================================
