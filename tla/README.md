# Verification of the crossbow simulation system

This directory holds a TLA+ development of the C++ backend in `backend/`, of the page in
`frontend/` that polls it, and of the sensor simulator in `simulator/`: modules that model their
threads, queues, tables, requests and library objects with what these compute, TLC configurations that check them on small
instances, and theorems that TLAPS proves for every value of the constants.

* `PROJECT.json` lists components, runs, mutants, the source lines of each definition, findings,
  hazards and theorems.
* Check a run: `tlc -config MCMessageQueue.cfg MessageQueue.tla`.
* Check a proof: `tlapm MessageQueueProofs.tla`.

Paths below are relative to the repository root.

## 1. The system

### 1.1 How a sample travels

```
 UDP datagram
   | UdpReceiver thread (udp_receiver.cpp)          parse, validate, push
   v
 sensor_queue_udp  (MessageQueue<SensorData>)
   | BroadcastingReceiver thread (main.cpp)         wait_pop, then three pushes
   v
 ballistic queue      accuracy queue        alarm queue        (three MessageQueues)
   | 1..n threads        | 1 thread            | 1 thread
   v                     v                     v
 latest_results_,     crossbow_data_        alert queue, MQTT, ClickHouseStorage,
 recent_trajectories_    | periodic thread  active_alerts_, last_alert_time_
   ^    |                v                     |
   |    |             latest_analyses_         |
   |    |                ^    |                |
   |    v                |    v                v
 HttpServer thread: simulates a shot, analyses on request, reads all of it
```

The main thread starts receiver, broadcaster and services in order, waits for a signal, and stops
HTTP and the services in the reverse order, the broadcaster and the receiver last, so that samples keep
arriving for services that are gone. All sharing is through mutexes,
condition variables and atomics; nothing is persisted (the storage is an in-memory stand-in), so
there is no recovery.

### 1.2 Components

| Component | State it keeps | Operations | Interacts with | What is hard | What makes it correct |
|---|---|---|---|---|---|
| Message queue (`include/message_queue.h`) | deque, capacity, mutex, condition variable, `running_` | `push`, `try_pop`, `wait_pop`, `stop` | every producer and consumer thread | notify outside the mutex; stop without it; overflow racing a pop; spurious wake-ups, timeouts | newest items, in order, once; no lost wake-up; `stop` frees waiters |
| UDP receiver (`udp_receiver.cpp`) | socket, thread, `running`, counters | `start`, `stop`, receive loop | network, raw queue | stop while a receive waits | it ends; each accepted datagram is one push |
| Main and broadcaster (`main.cpp`) | thread, `running_`, start order | start with early returns, fan-out, shutdown | all of the above and below | flag set after the thread is created; services stopped while samples flow | services see the same stream; shutdown ends; nothing runs after a join |
| Ballistic simulator (`ballistic_simulator.cpp`) | result and recent-sample tables | `worker_loop`, `simulate_shot`, reads | its queue, HTTP | several workers and the HTTP thread store in any order | a sample is handled once; tables hold what is latest |
| Accuracy service (`accuracy_analyzer_service.cpp`) | shot table, analysis table | worker, periodic loop, `run_analysis_now` | its queue, HTTP | copy, compute without a lock, store: two of them overlap | analyses are of one moment; an answer is fresh; shots get analysed |
| Alarm service (`alarm_mqtt_service.cpp`) | active alerts, times of last alerts, alert queue | `check_and_alert`, reads | its queue, MQTT, storage, HTTP | one time read for three checks, a clock that may jump, four sinks and exceptions | cooldown kept and silences nothing else; sinks agree |
| Storage (`clickhouse_storage.cpp`) | in-memory tables | inserts, queries | alarm service | trimming | the latest alerts are kept |
| Dynamics solver (`modules/dynamics_solver.cpp`) | priority queue, cancelled ids, counters, promises | `start`, `stop`, `submit_task`, `submit_task_sync`, `cancel_task`, `worker_loop` | its clients (so far `tests/test_modules.cpp:273-348`) | counters moved outside the mutex, cancellation, restart, a dropped promise | exact counters; one execution per task; priority; no lost submission |
| HTTP server (`http_server.cpp`) | socket, `running`, pointers to the services | `start`, `stop`, accept loop, query parsing, dispatch, 23 handlers | every service, the page | one thread for all clients; clients that send nothing, do not read or leave; `send` without a time limit; parsing that throws; numbers and signals that end the process | while nobody holds the thread for ever: every connection is answered in its turn or reset, and `stop` ends; answers are what the docs say |
| Page (`frontend/js/app.js`) | types, selected crossbow, recent data, trajectory | load, select, poll, simulate, analyse | HTTP | answers come after the selection changed; made-up data when there is no server | what is shown is what the server has of that crossbow, and of the selected one in the end, if there is anything |
| Scene (`frontend/js/crossbow_3d.js`) | two flags, shooting mode, targets, score | draw, release, shot, range shots, reset | user, browser's frames and timers | chains of animations that share flags; reset in the middle | flags come back; the score counts what was shot, but for the arrow a reset leaves in the air |
| Formation simulator (`formation_simulator.cpp`, `modules/formation_simulator_module.cpp`) | table, module's configuration, three targets, Q-learning | layouts, engagements, plans, training | HTTP, tests | ten shapes cut off at any number; three copies of the target; division by `episodes / 15` | places apart and complete; one target per answer; the best is the best |
| Virtual shooting (`modules/virtual_shooting.cpp`) | session, targets, shots | session, targets, fire, statistics | tests | any sequence of calls | health and hits agree |
| Bowstring materials (`bowstring_material.cpp`, `modules/string_comparator.cpp`) | table, comparator's configuration | interpolation, ranking, choice | HTTP, tests | measures of opposite senses, relative scores | a worse material does not win |
| Sight optics (`sight_optics.cpp`, `modules/sight_optimizer.cpp`) | table, calibrator's row of solutions | engraving, reading, ranking, grid search | HTTP, tests | bisection on a curve that falls again; random aims | scales within reach at 45 degrees are the best possible; an answer is consistent |
| Sensor simulator (`simulator/crossbow_simulator.py`) | settings, counts, wear | settings, shots, batches, argument precedence | UDP | a failing shot in a batch | settings are restored |
| Accuracy statistics (`accuracy_analyzer.cpp`) | none | means, deviations, scale adjustments | accuracy service | too few shots, two bins for one range | neutral answers below the minima |
| Configuration (`config_manager.h`), logging (`logger.h`), metrics (`metrics.h`) | values, level, counters | load with error paths, save, format, count | all | a file that is bad in the middle | what is written is read back |
| MQTT alert manager (`mqtt_alert_manager.cpp`) | callback | thresholds, publish | nobody: `main.cpp` creates the alarm service | - | one alert per threshold passed |
| Dynamics model (`dynamics_model.cpp`), database schema | none | integration of a flight; declarations | services | floating point | not modelled |

`hazards` in `PROJECT.json` gives, line by line, what is hard to test in this code and which
property would notice it going wrong.

## 2. The modules

| Module | Stands for | Used by |
|---|---|---|
| `BoundedDeque` | the deque of a `MessageQueue` with its overflow rule | `MessageQueue`, `SensorPipeline`, `AlarmService` |
| `SlidingWindow` | what a `MessageQueue` promises (abstract) | `MessageQueue` |
| `MessageQueue` | locks, waits, wake-ups and stop of the queue | - |
| `TaskPool` | what the solver promises about each task (abstract) | `DynamicsSolver` |
| `DynamicsSolver` | the solver | - |
| `LossyBroadcast` | what the process promises about samples (abstract) | `SensorPipeline` |
| `SensorPipeline` | receiver, broadcaster, three services, main: the composition | - |
| `AlarmService` | one alarm worker with its four sinks and the storage | - |
| `AccuracyService` | the tables of the accuracy service and three threads | - |
| `BallisticResults` | the tables of the ballistic simulator and its threads | - |
| `HttpHandlers` | query parsing, dispatch, what each handler answers (no state) | `HttpServer`, `AlertResolution` |
| `HttpServer` | the server's thread, the kernel's queue, `start`/`stop` | `App` |
| `Exchange` | what the server promises to its clients (abstract) | `Web` |
| `App` | the page: selection, polls, requests under way | `Web` |
| `Web` | the composition of page, network, server and a stranger | - |
| `AlertResolution` | `/resolve-alert` beside the list of active alerts | - |
| `Numbers` | square root, exponential, clamping on integers (no state) | the pure modules |
| `AccuracyAnalyzer` | the statistics of a list of shots (no state) | `MCAccuracyService` |
| `Support` | configuration, log format, storage, counters, MQTT alert manager, as operators on records | `MCAccuracyService` |
| `FormationLayout` | the table of formations; where each crossbow stands and when it fires (no state) | `FormationModule`, `HttpHandlers` |
| `FormationFire` | targets, probabilities, hit patterns, coverage, heat maps, rewards (no state) | `MCResearch` |
| `FormationLearning` | the Q-learning loop | `FormationModule` |
| `FormationModule` | the module's configuration, targets, evaluations, comparisons, training | `Research` |
| `VirtualShooting` | a shooting session | `Research` |
| `BowstringMaterial`, `BowstringMaterials` | one material, its table, formulas and measured data (no state); ranking and choice | `Research`, `HttpHandlers` |
| `SightOptics`, `SightCalibration`, `SightOptimizer` | the sights, the errors of an aim and the scores of a design (no state); engraving and reading scales; ranking and search | `Research`, `HttpHandlers` |
| `Crossbow3D` | the animations of the scene and its shooting range | `Research` |
| `SensorSimulator` | the settings, counts and batches of a simulator | `Research` |
| `Research` | the objects above, one in use per behaviour | - |
| `MC...` | instances for TLC | - |
| `...Proofs` | theorems | - |

How the pieces fit: `SensorPipeline` contains every thread's life and every queue, and treats
what a service does with a sample as one step. `AlarmService`, `AccuracyService` and
`BallisticResults` each open one of these steps up; the last two also have the HTTP thread's part in their tables.
`MessageQueue` justifies that a `wait_pop()` is one action in `SensorPipeline`: it refines a window
on which taking an item is atomic. `Web` puts the page and the server together over the kernel's
queue of connections. `Research` joins what nobody shares: each object belongs to one caller, so
their product would show nothing, and `focus` picks one at the start of a behaviour.

### 2.1 MessageQueue

`queue_`, `running_` and `mutex_` are the members. A push is two steps, the critical section
(`Push`) and `NotifyOne`, because the lock guard's scope ends before `cv_.notify_one()`. A
`wait_pop` is `condition_variable::wait_for` with a predicate, step by step: a consumer evaluates
the predicate holding the mutex and either pops or is *parking*, then `Block` releases the mutex,
then it is notified, wakes spuriously or times out and evaluates again. The state *parking* is
there because `stop()` takes no mutex and may notify in it. Items are the numbers of their pushes.

### 2.2 DynamicsSolver

One action per critical section, and one for each thing done outside of it: the id is taken before
the mutex (`next_task_id_` is atomic), the notification comes after it, both counters are updated
after the task in two steps, the callback or promise is served last. `start()` and `stop()` are
called by one owner, as in the tests; `submit_task` and `cancel_task` by any thread at any time,
also before `start()` and after `stop()`. `cancel_task` takes any id. A callback returns; what a task computes is left out (`execute_task` catches
every exception, so a result always comes).

The code's `submit_task_sync` keeps its own `shared_ptr` of the promise, so the future of a task
that is dropped (cancelled while queued) never fails, and the caller waits for ever.
`SyncCallReturns` says exactly when it does return.

### 2.3 SensorPipeline

The main thread walks through `main()`: bind or fail, create the broadcaster's thread and only
then set its flag, start the services in `Order`, start HTTP or fail (the process then terminates:
the broadcaster's `std::thread` is destroyed while joinable), stop and join each service, last started
first, then the broadcaster and the receiver. Every thread tests its flag, waits for an item (or misses) and works on it.
A sample is the number of its datagram. `offered` and `handled` are history.

Left out: counters (`parse_error_count`, `queue_full_count`, ...) that only reach the log; the queues' own `running_`
flags, since a queue keeps accepting and handing out items after its `stop()`; the analysis
thread of the accuracy service (in `AccuracyService`).

### 2.4 AlarmService

One worker takes a sample and passes the three checks in order. An alert is pushed to the alert
queue (which no code consumes, so it overflows), sent, stored, and under the mutex made active and
timed. The clock may show any time at each check, since it is the wall clock. One exception may
strike between any two sinks; `worker_loop` catches it and goes on with the next sample.

### 2.5 AccuracyService

`FileShot` is the worker's critical section. The periodic thread sleeps, scans the ids with enough
shots, and for each copies, computes, stores. A request copies, computes, stores, and the handler then
reads the table back, which is where the periodic thread may have come in between. The name the
handler reads with the result is left out. An analysis is the list of shots it was computed from;
what `AccuracyAnalyzer::analyze()` makes of such a list is in the module `AccuracyAnalyzer`.

### 2.6 BallisticResults

`TakeSample`, `StoreResult` and `WorkerError` are a worker's loop around the unlocked computation;
`Simulate` and `StoreSimulated` are `/api/simulate-shot` in the HTTP thread. The table entry says
which sample (or request) it was computed for, which is what the two threads can get wrong.

### 2.7 HttpHandlers, HttpServer, App, Web

`Handle(request)` is the dispatch with the handler it reaches. A query is a sequence of keys and
values that are numbers or words. `parse_url_params()` is given the whole request rather than its
target (`http_server.cpp:465`), so the last value runs on to the end: a number is still read from it, a word is no longer
the word that was sent (`RunOn`). `Ends` is the outcome of what ends the process: `std::stoul` of a word, `reserve()`
of a negative number, the division by `episodes / 15`. A body is named by what it is about.

`HttpServer` has the thread's loop (`Accept`, `AcceptTimesOut`, `Recv`, `Reply`), the kernel's side of a
connection (`Arrive`, `Refuse`) and `Start`, `Stop`, `Joined`. A handler is one step, as the mutexes it takes
are held briefly by anyone else. `running` is read at the end of a round, and a silent client takes
the thread for the second of `SO_RCVTIMEO`, which is a step here.

`Reply` is the `send()` of the whole answer (`http_server.cpp:532`) and `close()`. There is no `SO_SNDTIMEO`, so the thread
stays in `send()` as long as a client lets it, and as SIGPIPE is not ignored (`main.cpp:45-46`, flags 0), a client that has reset its
connection ends the process. `Readers` are the clients that stay until they have read their answer, the page's slots among
them; with any other the thread is `Unread`: it need not go on, and it may go on in three ways, with the answer sent, with the connection
reset, or with the end of the process (`Gone`). The modelled page is not closed while it waits; one that is
counts as a stranger.

`App` has the page's variables. A click, a tick of the poll timer and the continuation of an `await` are
steps; a request carries what it asked for, and its answer meets the selection of a later moment.
Two slots stand for the requests under way.

`Exchange` is what clients are promised, without sockets and threads: a line of those taken in, a phase (new, open, closed) and what
each client waits for or was given. Only the head of the line is answered, once, with what its request was owed when it was sent;
a client leaves the line otherwise only when it does not stay for its answer (`Lost`), or when the server closes or ends. `Web` maps to it: `Calls` forgets where a connection is while it
waits, `TakenIn` is the connection served before the kernel's queue, and `Accept`, `Recv` and `stop()` before the join are stutters.

`AlertResolution` puts the two handlers of alerts beside each other for finding 4.

### 2.8 Formations

`Layout(type, n, sx, sz)` gives the set of places of each of the ten shapes in exact integer coordinates
(twentieths of a centimetre), with id, delay and salvo group; a loop that stops at `num_crossbows` keeps the ids
below it. `FormationModule` has the three copies of the target (module, simulator, optimizer) that the calls set and read;
hits and coverage of an engagement are any of a set there; `FormationFire` says how they come about for given random numbers. `FormationLearning` has the training episode by episode and
step by step: the change of the number of crossbows every seventh episode, decaying step counts, early stop,
and the end of the process for too few episodes (`phase` "crashed", "thrown"). The Q table itself is left
out, because any action may be picked anyway.

### 2.9 Shooting, materials, sights, scene, simulator

`VirtualShooting` abstracts flight and aim to the set of targets a shot passes within reach of, and
keeps ids, health, destruction and counters. `BowstringMaterials` keeps normalisation, sort
and choice over measures that may be any. The choice for accuracy weighs accuracy, power and lifespan, each relative to the best candidate; the penalty on accuracy (`AccPenalty`)
is made of the string's mass and of what damping loses relative to the power (`bowstring_material.cpp:587-588`), so the loss is a measure of its own, and the power is the
square of the velocity; `BowstringMaterial` has the table and what a material's measures are computed from. `SightCalibration` keeps the bisection and the
interpolation between scales; the crossbow is a function from elevation to range. `SightOptimizer` keeps the ranking of random
spreads, with the percentage of improvement, and the grid search; the errors behind a spread are in `SightOptics`. `Crossbow3D` keeps a bag of the chains of frames and timers under way, each
of which ends in the next chain or in a change of flags; a frame that only draws is a stutter. `stray` is history: whether an arrow was in the air when the score was last set back. `SensorSimulator` has a batch shot by shot, with
a shot that raises an exception (a draw weight of 0 divides).

### 2.10 The pure modules

`AccuracyAnalyzer`, `BowstringMaterial`, `SightOptics`, `FormationFire` and `Support` have no variables: they are what the
services and library objects compute, as operators. Reals are integers in a unit that each module's header names (thousandths where
nothing else is said), divisions round down, and `Numbers` has the roots and exponentials. A random number of the code is an argument: a
hit pattern is a function of the draws that produced it. They are compared in `ASSUME`s with what the code promises at its boundaries
(an empty list, a value at a threshold, an unknown name), so the unit is as coarse as these comparisons allow; results
to the last digit of a `double` are not claimed.

## 3. The runs

| Run | Instance | Distinct states | Checks |
|---|---|---|---|
| `message_queue` | 2 producers, 2 consumers, capacity 2, 4 pushes | 2 485 | lost wake-ups, refinement of `SlidingWindow` (order, overflow, once), liveness of consumers and items |
| `dynamics_solver` | 2 workers, 2 clients, 2 priorities, 2 tasks | 401 444 | exact counter, wake-ups, quiet after stop, refinement of `TaskPool`, `stop()` and `submit_task_sync()` return |
| `sensor_pipeline` | 2 ballistic threads, capacity 2, 3 samples | 33 421 | order, no loss but by overflow, quiet outside service, refinement of `LossyBroadcast`, shutdown ends, samples are handled |
| `sensor_pipeline_race` | 3 threads, capacity 1, 2 samples | (violation) | finding 1 |
| `alarm_service` | 2 known crossbows, 1 unknown, 3 samples, times 2..4, 1 exception | 530 185 (with symmetry) | cooldown, completeness, sinks, both trimmed lists |
| `alarm_service_setting` | `debounce_seconds` above the cooldown | (violation) | finding 2 |
| `accuracy_service` | 2 crossbows, minimum 2, limit 3, 5 shots | 89 439 | snapshots, freshness of answers, analyses come |
| `ballistic_results` | 1 thread, 2 crossbows, limit 2, 5 samples, 2 requests | 32 252 | tables hold the latest |
| `ballistic_results_two` | 2 threads, 1 crossbow, 3 samples | (violation) | finding 3 |
| `research` | each object of 2.8 and 2.9 | 124 452 | placements, one target per answer, best of a training, hits and damage, ranking, scales, rounds, score, animations end, batches |
| `web` | 2 requests of the page, 1 stranger who may not read, queue of 2, 2 actions, crossbows with 3, 60 and no rows | 170 861 | refinement of `Exchange` (turns, one answer each, resets), what is shown is what is stored, `stop()` ends, connections end, the page catches up |
| `web_resolve` | 1 alert | (violation) | finding 4 |

The properties with the least obvious statements:

* `AnimationsEnd` has two parts: `animating` is always taken back, and so is the flag of a range shot whose bow was drawn
  for it. A shot that asks for the draw while another animation runs is not promised anything, and indeed
  its flag stays (`crossbow_3d.js:1099`).
* `ServerStops` and `ConnectionsEnd` suppose that no client holds the thread for ever by not reading (`[]<>~Unread`): the code sets no time
  limit on `send()`, so nothing holds without it. A client may do so for any finite time, again and again, and what it sends or does not
  send needs no such supposition, because `recv()` ends after a second.
* `PageCatchesUp` supposes this too, and that the server stays up from some time on; then the data shown end up as those of the selected crossbow if
  the server has rows of it. A late answer for another crossbow is shown under the new one (`app.js:293`) until an answer with rows of the new one comes. If the new one
  has no rows, none comes: the empty answers change nothing (`app.js:296`), and the other crossbow's rows stay.
* `ShownIsStored` lets the data shown be of another crossbow than the selected one, for the same reason; that they are never rows of
  one crossbow under the number of another is what it says.
* `HitsAreShots` allows one hit more than shots only if an arrow was in the air when the score was last set back (`stray`): R during a flight
  (`crossbow_3d.js:940`) leaves that arrow's hit without a shot. That hit is what the code does; that it is one at most, after any number of resets, is what is checked.
* `ScalesReadBack` speaks of each scale whose range is reached at 45 degrees, whatever the others of the span are. Of ranges that are only reached at a lower
  elevation it says nothing: the bisection takes for granted that ranges grow, and may turn away from the elevation that would do (`sight_optics.cpp:496`).
* `NoDominatedWinner` says of a ranking that a material which is better in one criterion and as good in the others comes first. The choice for accuracy has other measures: it
  is never a material that another candidate outlives while it is as light, as fast and loses no more to damping. A lighter, faster and longer-lived
  one that loses more may well not be chosen.

The pure functions (those of 2.10, discretisation, search space, spans, plans, argument precedence,
all 23 handlers) have no state to run; `MCResearch`, `MCWeb` and `MCAccuracyService` (the last for
`AccuracyAnalyzer` and `Support`) compare them in `ASSUME`s with what they have to satisfy, evaluated at the start of
these runs.

**Bounds.** `MaxPushes`, `MaxTasks`, `MaxSamples`, `MaxShots`, `MaxRequests`, `MaxTime`, `MaxFaults`, `MaxActions`, `MaxArrows`,
`MaxFields`, `MaxBatch`, `MaxMade` and `MaxSolved` bound counters the code does not bound.
They are one or two above the limits they have to pass: a queue of 2 with 4 pushes overflows twice while
a pop is under way; a table of 2 or 3 with 5 samples is trimmed repeatedly and between samples of another
crossbow; 3 samples with times 2..4 and a cooldown of 1 give alerts before, at and after the cooldown and a clock that goes
back. Two threads of each role show every pairwise race; the theorems of section 4 remove the bound
where they apply. The limits of the code (1000, 5000, 100, 500, backlog 10) are constants of the modules.

`research`: configurations of 4 crossbows (below the minimum of every shape but the line, so the clamp acts) and of 26 (no square, an odd last row; every
loop is cut off); 2 phases with at least 1 step and an early stop after the first converged episode, so that a training of
3 episodes, the first of which picks another number of crossbows as every seventh does, passes every branch; actions 2, 12 and 21 change formation, spacing and orientation; health 0, 3 and 4 halves gives a target destroyed at birth, one that survives a hit
and one killed exactly; three ranges by elevation (rising, falling again, with jumps) and six spans, among them a reversed one and a step of 0; a scene
of one target, one arrow in the air and three fields; batches of 2 with a draw weight of 0.

`web`: with two requests of the page and a stranger a queue of two is filled while the thread waits; two actions of user or
stranger suffice for a selection during a poll, for a bad number during one, or a silent client before one. With a queue of one the
page could give up every time it tries; the code's is 10. One crossbow has fewer rows than the 50 a poll asks for, one more, and one none.

**Deadlock.** Most runs say `CHECK_DEADLOCK FALSE`: with their bounded counters used up, or the
process stopped, the system really has no step left. That it does not get stuck *before* is what the liveness
properties say. The alarm runs check deadlock.

**Symmetry** is used only in the alarm run, over the known crossbows; it checks no liveness.

**Fairness** is what the code's scheduling gives. A thread that can run runs (weak fairness of each thread's
step). `MessageQueue` gives the consumer's step strong fairness: the mutex that a consumer wants
is taken and released by others in between, and a mutex that is released again and again is granted in
the end. A wait ends by its timeout (`wait_for` with 500 ms or `SO_RCVTIMEO`). The main thread's steps of shutdown, once
a signal came, are fair. In `Web` the event loop runs what is due and the poll timer ticks (each slot of the page), the
kernel hands a connection over or gives it up (each client), the server's thread runs unless it is in a `send()` to a client that does not read (`Unread`), and `start()` and the join of `stop()` go
on. In `Research` the browser's frames and timers run, fairly for each kind of chain; everything else there is a call that a user may leave out. Nobody has to
push, submit, cancel, shoot, ask, start, stop or send a signal, and spurious wake-ups are never required.

**Atomicity.** A handler of the HTTP server is one step in `Web`; the two that are not atomic, the requested analysis and the simulated shot,
are taken apart in `AccuracyService` and `BallisticResults`. The page runs in one thread, so that each of its event
handlers is one step. In `Crossbow3D` a draw takes at least 250 ms, so no 50 ms timer of an earlier chain
is still pending when it ends. A process that has ended is not started again.

**Mutants.** Each property of each passing run has a mutation of a mapped definition, of a kind a programmer may
write (a notification dropped, a trim off by one, a flag tested once, a join left out), that makes
TLC find the property violated. Each mutated operator stands next to the original with the comment "Mutant".

### Findings

1. `sensor_pipeline_race`: `BroadcastingReceiver::start()` creates its thread (`main.cpp:95`) before it
   sets `running_ = true` (`main.cpp:103`). If the new thread is faster it finds `false` and ends, and the process logs "All
   modules started successfully" and serves without anything reaching the services. All other
   pipeline properties hold in that case too; `SampleIsHandled` names it as an exception.
2. `alarm_service_setting`: `README.md:213` documents `debounce_seconds`, and
   `config_manager.h:144` loads it; `alarm_mqtt_service.cpp:71` uses the literal 10.0.
3. `ballistic_results_two`: `README.md:259` has `/ballistic-result` give the latest result, and
   `config.json` sets two ballistic threads; the one that finishes last wins (`ballistic_simulator.cpp:109`), so the entry
   of a crossbow may go back to an older sample and stay there. With one thread it cannot (theorem
   `LatestOfOneThread`).

4. `web_resolve`: `README.md:264` has `/resolve-alert/:id` mark an alert as handled; `handle_resolve_alert()`
   (`http_server.cpp:284`) answers `{"status":"ok"}` and touches no alert, so that it stays in the list.

Facts of the code that contradict no document and so appear in the models, or beside them, without a property:

* `MessageQueue` of capacity 0 pops an empty deque (`message_queue.h:24`); a solver callback that throws ends the
  process (`dynamics_solver.cpp:153`); after a failed bind `stop()` closes the descriptor's number a second time (`udp_receiver.cpp:96`).
* `generate_uuid()` and `std::localtime()` are shared by threads without a lock (`common.h:101`, `:117`).
* `parse_url_params()` runs the last value on (`http_server.cpp:465`), so a word as the last parameter is never recognised.
* Reads of values that were never set: the shot record (`ballistic_simulator.cpp:58`), a target that nobody set (`formation_simulator.cpp:730`), the
  plan of a salvo without crossbows (`:845`).
* A candidate sight weighs `base * (h / h0) * 0.6 + (r / r0) * 0.4`, so the second part is not scaled by the base weight
  (`sight_optics.cpp:747`); a span that ends before it starts makes the number of scales negative (`:538`).
* An answer without rows leaves the old data (`app.js:296`), and each poll appends all of its rows to the charts again (`:297`); the time of a
  flight is divided by its duration (`crossbow_3d.js:514`), and listeners are added each time the range is created (`:843`).
* `draw_weight` is taken as newtons by the string formulas (`bowstring_material.cpp:420`) and multiplied by 9.81 by the alarms and the
  dynamics model (`alarm_mqtt_service.cpp:120`, `dynamics_model.cpp:244`). `simulate_shot()` gives the launch angle in radians to
  `simulate_trajectory()`, which converts it from degrees once more (`bowstring_material.cpp:444`, `dynamics_model.cpp:324`).
* A simulated aim has no parallax: its distance is set to the target's just before the two are compared (`sight_optics.cpp:364`). Of the
  sensitivities of a string, those to length and diameter are always 0 (`string_comparator.cpp:240`, `:249`).
* Coverage counts against a sample that reaches 1.6 times the target in both directions (`formation_simulator.cpp:730`), so it ends below 100 %, and a point of the sample
  counts only if hit with more than 0.3, which is out of reach for a target of priority 1. A heat map counts what lies up to a cell outside its south and west edges
  (`formation_simulator_module.cpp:223`), and `project_hit_pattern()` divides by the distance, which is 0 for a crossbow on the target.
* A configuration file that is bad in the middle is logged as "using defaults" (`config_manager.h:80`), while the values read before the bad
  one stay. The formatter of the build without spdlog fills `{}` and prints `{:.4f}` as it is (`logger.h:29`).
* Three inserts of the storage succeed only when it is *not* connected (`clickhouse_storage.cpp:82`, `:90`, `:110`); its default table of crossbows
  (`:140`) agrees with `main.cpp:26` for the first crossbow only.
* A configuration value replaces an argument that equals the default (`crossbow_simulator.py:707`); a send may follow the close (`:576`).

## 4. The proofs

Each theorem holds for every number of threads, capacity, limit and bound allowed by the module's named
assumption.

| Module | Assumes | Theorems | Inductive invariant |
|---|---|---|---|
| `BoundedDequeProofs` | capacity at least 1 (`CapacityAssumption`) | lemmas on `Enqueue`: what it returns (`EnqueueProperties`), and that the list of the latest stays one (`EnqueueHoldsLatest`, `EnqueueMakesRoom`, `EnqueueTogether`) | - |
| `MessageQueueProofs` | finite sets of threads (`QueueAssumption`) | `TypeCorrect`, `QueueKeepsNewestInOrder`, `QueueLosesNoPush`, `QueueImplementsWindow` | `QueueInv` |
| `DynamicsSolverProofs` | finite sets of threads, priorities are naturals (`SolverAssumption`) | `TypeCorrect`, `PendingIsExact`, `CountersAreConserved`, `TaskInOnePlace`, `NoSubmissionLost`, `QuietAfterStop`, `RefinesPool` | `SolverInv` |
| `SensorPipelineProofs` | each thread belongs to one service (`PipelineAssumption`) | `TypeCorrect`, `RawQueueKeepsNewest`, `ServicesAgree`, `OfferedInArrivalOrder`, `QueueHoldsTail`, `NoSampleTwice`, `OrderIsKept`, `NewestNeverLost`, `QuietOutside`, `PipelineImplementsBroadcast` | `PipelineInv` |
| `AccuracyServiceProofs` | `MinShots` between 1 and `DataLimit` (`AccuracyAssumption`) | `TypeCorrect`, `AnswersAreFresh`, `ListsAreSnapshots` | `TypeOK /\ FreshInv`, `SnapshotInv` |
| `AnswerProofs` (on `BallisticResults`) | a positive limit (`BallisticAssumption`); one thread for `LatestOfOneThread` only | `TypeCorrect`, `LatestOfOneThread`, `RecentOfAnyThreads` | `TypeOK`, `LatestIsNewest /\ HandIsNewest`, `RecentInv` |
| `AnswerProofs` (on `Web`) | ids are positive and finitely many, the stranger has no slot of the page and the slots read their answers (`HandlerAssumption`, `AppAssumption`, `ServerAssumption`, `WebAssumption`) | `ServerInvariant`, `ServerIsExchange`, `PageNeverEndsServer`, `PageShowsStored` | `ServerInv`, `NoneEnds`, `PageInv` |
| `AlarmServiceProofs` | times and limits are naturals, known crossbows are crossbows (`AlarmAssumption`, `CapacityAssumption`) | `CooldownIsKept`, `SinksAlwaysAgree`, `NoAlarmIsMissed`, `ListsAlwaysHoldLatest` | `CooldownInv`, `SinksAgree`, `CompleteInv`, `ListsInv` |
| `ResearchProofs` | rewards are integers above the initial one (`LearningAssumption`, `RewardAssumption`), coverages have a least one (`ModuleAssumption`), the assumptions of the other objects (finite sets, naturals, measures that are integers); for `CalibrationReadsBack` also that each crossbow's range has one peak (`OnePeak`), for `FormationsAreValid` that the configured spacing is 1.5 m or more | `BestIsReturned`, `OneTargetPerAnswer`, `FormationsAreValid`, `BatchRestoresSettings`, `HitsAreDamage`, `HitsWereShots`, `AnswersAgree`, `WinnersAreNotDominated`, `CalibrationReadsBack` | `LearningInv`, `TargetInv`, `PlacementInv`, `BatchInv`, `SessionInv`, `SceneInv`, `Agreed`, `MaterialInv`, `CalibrationInv` |

Why the invariants are what they are:

* **QueueInv** = `TypeOK`, `NewestInOrder`, `ParkingSeesEmpty`, `NoLostPush`. The last is not inductive alone: a consumer
  that blocks joins the set of the blocked without anybody having to wake it, which is fine only because the queue it saw empty
  is still empty, and that holds because it kept the mutex (`ParkingSeesEmpty`).
* **SolverInv** joins the five safety invariants: the counters are exact only if no task is in two places
  (else removing it from the queue would not lower its size by one), and `pending_count_` is a natural only because it counts
  something.
* **PipelineInv** is a chain along the path of a sample: the raw queue holds the newest (`RawIsNewest`), the three
  histories agree (`FanOutAgreement`), are strictly increasing with a gap at least as wide as the distance of their places
  (`OfferedSpaced`), each service's queue is a tail of its history (`QueueIsTail`), what a thread holds is neither queued nor handled
  (`HandledOnce`), and together they give `NewestSurvive`. `OfferedSpaced` replaces an induction over the queue: an item pushed out of a
  queue of *k* is at least *k* older than the one that came in. `RangeOK` and `LifeOK` split `TypeOK` into ranges and the life of the threads.
* **FreshInv** follows what a request is owed through the copies: it is in the table, in the copy the request works on, in
  that of a periodic analysis of the same crossbow that started later, hence in the stored analysis in
  whatever order the two are stored. It also needs that the newest filed shot carries the greatest number.
* **HandIsNewest** says that a sample at work is newer than every one stored. Two threads break it, which is finding 3.

* **CooldownInv** = `RangeOK`, `AtWork`, `LastAlertIsLatest`, `LastTimeIsLatest`, `Debounced`. The cooldown is kept because what `check_and_alert`
  compares with is at least the time of every active alert of the crossbow but those of its own sample: the table has the
  latest time although the clock may be set back (an alert is only sent when its time is more than the cooldown above the last), and
  `last_time` was read from it before the check at work recorded anything.
* **CompleteInv** goes the other way: a time in the table is that of an alert that was recorded (`LastAlertWasRecorded`), so a sample that is
  kept silent has an alert to blame; `SentSoFar` says what the check at work owes to the kinds it has passed.
* **LearningInv** adds to `BestIsFirstMaximum` that rewards are integers, and that `best_reward` before the first step is below all of
  them. **TargetInv** adds that the module's target and its simulator's are set together; the optimizer's target, which training sets to another, is in
  no answer the property speaks of. **BatchInv** says what a batch under way will restore.
* **ListsInv**, **SnapshotInv**, **RecentInv** rest on one notion, `BoundedDeque.HoldsLatest(q, S)`: *q* is increasing, is of *S*, and what it
  lacks of *S* it lacks because it is full of later ones. It replaces `SelectSeq`, whose laws need an induction, and the three properties are stated with it. Pushing a
  number above all of *S* keeps it (`EnqueueHoldsLatest`). `ListsInv` adds that an alert between two sinks is later than all
  the next sink has (`Fresh`), and that the store cuts `StoreTrim` at once, so it may hold fewer (`StoreHolds`). `SnapshotInv` says it of a copy too, for some
  moment of the past: a shot that is filed afterwards leaves that moment alone (`SnapshotStays`). `RecentInv` holds for any number of threads, since it
  speaks of the order of storing. Several threads store samples in another order than they took them, so its lists are of places in the order of storing.
* **SessionInv** makes `DamageIsHits` inductive: ids are given out once, so no earlier hit counts for a new target (`nextTarget` is above the ids of targets and hits).
  `HitCount` of a list with one more shot follows from cardinalities, not from the list's recursion.
* **SceneInv** says that at most one arrow is on its way to the range, in one chain of the bag, that its flag is up while it flies (`OneArrow`), and that while there is one, no
  hit is counted beyond the shots. A reset in flight sets `stray`, and that arrow uses up the one hit that `HitsAreShots` then allows.
* **Agreed** is about one answer of the optimizer: percentages are cut to whole numbers of one and the same worst spread, so they are in the opposite order of the spreads
  (the lemmas on `div` are proved first). **MaterialInv** is `NoDominatedWinner` over the range of the measures: scores are monotone in each measure, accuracy falls as
  mass or loss grows or power falls (`AccuracyFalls`), a sort puts the higher first, and the choice among ties is bounded by both.
* **CalibrationInv** says that the table has the elevations the bisection finds, for ranges that grow by the step, and that an estimate read is one of that table.
  The rest is about the bisection alone (`BisectionFindsNearest`, `ElevationsAreOrdered`): where ranges rise it ends at an elevation nearest to the range
  asked for, and a longer range never gets a lower one, as long as the ranges are reached at 45 degrees; the scales before one that is reached are reached. It is an induction over the width of the bracket, done on the
  set of the widths for which the claim fails: that set has no least element, so it is empty (`AllNumbers`). That the recursive function exists at all
  is shown the same way (`BisectionExists`). A crossbow whose range had two peaks could read back between the wrong pair; `OnePeak` excludes it, and is evaluated for the crossbows of the run.
* **PlacementInv** only says that an answered placement was made with a configuration, whose spacing may have been changed since. The work of `FormationsAreValid` is in the shapes: each
  gives out the ids 0 to *n* - 1 row by row (`InRows`, or `InOrder` for a single row), and a later place is 1 m or more from an earlier one along a side (`FarApart`). Rows are told
  apart by quotients and roots rounded up (`RowMajor`, `RootIsUp`), without an enumeration, so it holds for every number of crossbows asked for, below and above the limits too,
  and for every spacing of 1.5 m or more (the module's default is 3 m).
* **ServerInv** = `ConnInv`, `ThreadInv`, `BacklogInv`, `ServingInv`, `SlotInv`. That each is answered once and in its turn rests on three facts that need each other:
  the kernel's queue has each queued connection once (`BacklogInv`), the one connection that is open is the one the thread works on
  (`ServingInv`), and a server that does not listen has neither (`ThreadInv`). `SlotInv` says that the page asks anew only with a request that has ended, without which one connection could have two requests.
* **PageInv** follows a request from the page to its answer: a connection that waits has the request of its slot's task, and one that was answered has what that request is owed (`AskedFor`).
  The types are loaded once, since until then there is no other request. **NoneEnds**, that no request of the page is owed the end of the process, needs what the handlers make of the page's requests, so these
  are read by `parse_url_params()` in the lemmas `OneParameter`, `TwoParameters`, `PageRequestsAreRead`. `PageNeverEndsServer` then says that a
  server that has started only ends while it is at work on the stranger's connection.

Refinements: `QueueImplementsWindow` maps the window's right edge to the number of pushes and its left edge to that less the length;
`RefinesPool` derives a task's stage from where it is; `PipelineImplementsBroadcast` keeps `accepted`, `offered` and `handled` and forgets the rest; `ServerIsExchange` maps as 2.7 says. Each is shown on the initial
state and, action by action, as a step or a stutter.

`QuietOutside` and `QuietAfterStop` are action properties: from the life of the threads in `TypeOK`, by the step that would break them.

**Only model-checked.** Liveness (`StopReleasesConsumers`, `ItemsLeave`, `StopReturns`, `SyncCallReturns`, `ShutdownEnds`,
`SampleIsHandled`, `ShotsGetAnalysed`, `ServerStops`, `ConnectionsEnd`, `PageCatchesUp`, `AnimationsEnd`): fairness and ENABLED are outside what the prover handles.
Of the safety properties, `PlacementsAreValid` for coils: nine of the ten shapes are proved (`FormationsAreValid`), but the rings of coils
are told apart by an approximation of the sine, a computation for each pair of places that the run does and the provers do not. And the `ASSUME`s about pure functions, which are evaluated on the inputs they name. Every other safety property of a passing run is a theorem; the
ranges and thread lives of the solver and the pipeline (`TypeOK`), which the theorems `TypeCorrect` state, are not checked by a run any more, as whatever breaks them breaks
`QuietWhenStopped` or `QuietOutsideService` in it.

## 5. What is not modelled

* The content of messages and the texts of answers and logs; charts and drawing of the page, and
  `frontend/js/components/*.js`, which `index.html` does not load.
* `dynamics_model.cpp`: the integration of one flight, floating point throughout, without state that outlives a call. Where a decision
  depends on it, the models let it yield any value of a set. Of the other formulas, those that nothing calls (the normal distribution's functions, the damping force).
* The logger with spdlog and the metrics with prometheus-cpp, which forward the same calls; the database schema, which no code of the process reads.
* Of the storage only `insert_alert` is called while the services run, and is a step of `AlarmService`; the other operations are
  functions in `Support`. The configuration is read once, before any thread starts, so its values are constants of the modules.
* The learner's policy gradient and the export of its Q table, which nothing calls; the simulator's endless sending loops.
* The contents of a datagram: the receiver accepts it or not.
* Capacity 0 and callbacks that throw (see section 3): `CapacityAssumption` excludes the first; the configuration
  loader does not.

## 6. Plan

Written, in this order, the busiest shared state first: `BoundedDeque`, `MessageQueue` / `SlidingWindow` and
their proofs; `DynamicsSolver` / `TaskPool`; `SensorPipeline` / `LossyBroadcast`; `AlarmService`; `AccuracyService`; `BallisticResults`; then
`HttpHandlers`, `HttpServer`, `App`, `Web`; the library objects joined in `Research`; the proofs of `AlarmService`, of the training, of the
module's targets and of batches; the pure modules of 2.10; the proofs of the trimmed lists, of sessions, scene, rankings and rounds; `Exchange` with the proofs of server and page; the proofs of the calibration and of the formations.

Worth adding next:

1. **UdpReceiver validation**: the ranges and the fields that may be absent, as a function on records, and the counters.
2. **The services behind the server**: `Exchange` owes an answer that is fixed when the request is sent, as the tables are constants of `Web`; with the tables of
   `AccuracyService` and `BallisticResults` it would be one of a state between arrival and answer.
3. **Proofs**: coils, by a bound on the sine's steps within a ring and the width of a ring.
4. **The dynamics model**: the order of its forces and the ends of its loop, with an acceleration that may be any.
