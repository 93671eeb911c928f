---------------------------- MODULE AlarmService ----------------------------
(***************************************************************************)
(* AlarmMqttService::check_and_alert() of backend/src/alarm_mqtt_service.cpp*)
(* as its one worker thread runs it: the three threshold checks of a sample,*)
(* the cooldown per crossbow, and the places an alert goes to one after the *)
(* other: the alert queue, MQTT, the storage (the callback set by main.cpp) *)
(* and, under alert_mutex_, the active alerts that /api/alerts shows.       *)
(*                                                                          *)
(* SensorPipeline models how samples reach the thread and how it is stopped.*)
(* The wall clock is the system's and may be set, so each check may read any*)
(* time. An alert is its number, the place of its record in log.            *)
(***************************************************************************)
EXTENDS BoundedDeque, FiniteSets

CONSTANTS
    Crossbows,        \* the ids that samples carry
    KnownCrossbows,   \* those that find_crossbow() finds
    Readings,         \* the sets of thresholds that a sample may exceed
    Cooldown,         \* cooldown
    DebounceSeconds,  \* config_.thresholds.debounce_seconds
    ActiveLimit,      \* active alerts kept per crossbow (100)
    StoreLimit,       \* alerts the storage keeps before it trims (1000) ...
    StoreTrim,        \* ... and how many it then erases (500)
    MaxTime,          \* bound on the time
    MaxSamples,       \* bound on the samples
    MaxFaults         \* bound on the samples that end in an exception

\* The alert types in the order in which check_and_alert() tests for them.
Kinds == <<"ARM_CRACK_RISK", "EXCESSIVE_TENSION", "HIGH_TEMPERATURE">>
KindSet == {"ARM_CRACK_RISK", "EXCESSIVE_TENSION", "HIGH_TEMPERATURE"}

ASSUME AlarmAssumption ==
    /\ KnownCrossbows \subseteq Crossbows
    /\ Readings \subseteq SUBSET KindSet
    /\ Cooldown \in Nat /\ DebounceSeconds \in Nat /\ MaxTime \in Nat
    /\ ActiveLimit \in Nat \ {0}
    /\ StoreLimit \in Nat \ {0}
    /\ StoreTrim \in 1..StoreLimit
    /\ MaxSamples \in Nat /\ MaxFaults \in Nat

\* Times of the system clock, which is long past the 0 of a new last_alert_time_ entry.
Times == (Cooldown + 1)..MaxTime

VARIABLES
    pc,           \* where the worker is
    now,          \* now_seconds
    last_time,    \* last_time
    kind,         \* the check that comes next or is at work, an index of Kinds
    active,       \* active_alerts_
    last_alert,   \* last_alert_time_, 0 if the crossbow has no entry
    alert_queue,  \* output_queue_
    stored,       \* ClickHouseStorage: alerts
    seen,         \* history: the samples, each with the time its check read
    log,          \* history: the alerts pushed, in order
    inserted,     \* history: the alerts that reached the storage
    recorded,     \* history: the alerts that became active, in order
    faulted       \* history: the samples whose check ended in an exception

checkVars   == <<pc, now, last_time, kind>>
sinkVars    == <<active, last_alert, alert_queue, stored>>
historyVars == <<seen, log, inserted, recorded, faulted>>
vars == <<checkVars, sinkVars, historyVars>>

Init ==
    /\ pc = "loop" /\ now = 0 /\ last_time = 0 /\ kind = 1
    /\ active = [c \in Crossbows |-> <<>>]
    /\ last_alert = [c \in Crossbows |-> 0]
    /\ alert_queue = <<>>
    /\ stored = <<>>
    /\ seen = <<>> /\ log = <<>> /\ inserted = {} /\ recorded = <<>> /\ faulted = {}

-----------------------------------------------------------------------------
\* vector::erase() of the first k elements.
EraseFront(q, k) == SubSeq(q, k + 1, Len(q))

\* The vector of active alerts after a push_back(): the last ActiveLimit.
Shorten(q) == IF Len(q) > ActiveLimit THEN EraseFront(q, Len(q) - ActiveLimit) ELSE q

\* The vector of insert_alert() after its push_back().
TrimStore(q) == IF Len(q) > StoreLimit THEN EraseFront(q, StoreTrim) ELSE q

Sample == seen[Len(seen)]       \* the sample in the worker's data
Alert  == Len(log)              \* the alert that is being sent

\* The check at hand is done: the next one, or the end of check_and_alert().
NextKind ==
    /\ kind' = IF kind < Len(Kinds) THEN kind + 1 ELSE 1
    /\ pc' = IF kind < Len(Kinds) THEN "check" ELSE "loop"

\* A threshold is exceeded and the crossbow's last alert is older than the cooldown.
Fires == Kinds[kind] \in Sample.exceeds /\ now - last_time > Cooldown

\* wait_pop() times out.
Idle ==
    /\ pc = "loop"
    /\ UNCHANGED vars

\* wait_pop() returns a sample of an unknown crossbow: check_and_alert() returns.
TakeUnknown(c, e) ==
    /\ pc = "loop"
    /\ Len(seen) < MaxSamples
    /\ c \notin KnownCrossbows
    /\ seen' = Append(seen, [crossbow |-> c, exceeds |-> e, time |-> 0])
    /\ UNCHANGED <<checkVars, sinkVars, log, inserted, recorded, faulted>>

\* A sample of a known crossbow: the time and the crossbow's last alert are read once.
Take(c, e, t) ==
    /\ pc = "loop"
    /\ Len(seen) < MaxSamples
    /\ c \in KnownCrossbows
    /\ seen' = Append(seen, [crossbow |-> c, exceeds |-> e, time |-> t])
    /\ now' = t
    /\ last_time' = last_alert[c]
    /\ kind' = 1
    /\ pc' = "check"
    /\ UNCHANGED <<sinkVars, log, inserted, recorded, faulted>>

Quiet ==
    /\ pc = "check"
    /\ ~Fires
    /\ NextKind
    /\ UNCHANGED <<now, last_time, sinkVars, historyVars>>

\* create_and_send(): the alert is built and pushed to the output queue.
PushAlert ==
    /\ pc = "check"
    /\ Fires
    /\ log' = Append(log, [sample |-> Len(seen), kind |-> Kinds[kind]])
    /\ alert_queue' = Enqueue(alert_queue, Len(log) + 1)
    /\ pc' = "store"
    /\ UNCHANGED <<now, last_time, kind, active, last_alert, stored, seen, inserted, recorded,
                   faulted>>

\* Mutant: the callback that inserts into the storage is not set.
StoreNowhere ==
    /\ pc = "store"
    /\ pc' = "record"
    /\ UNCHANGED <<now, last_time, kind, sinkVars, historyVars>>

\* publish_alert_mqtt() and alert_callback_(), which inserts it into the storage.
StoreAlert ==
    /\ pc = "store"
    /\ stored' = TrimStore(Append(stored, Alert))
    /\ inserted' = inserted \cup {Alert}
    /\ pc' = "record"
    /\ UNCHANGED <<now, last_time, kind, active, last_alert, alert_queue, seen, log, recorded,
                   faulted>>

\* Mutant: the end of the check forgets when it alerted.
RecordWithoutTime ==
    /\ pc = "record"
    /\ active' = [active EXCEPT ![Sample.crossbow] = Shorten(Append(@, Alert))]
    /\ recorded' = Append(recorded, Alert)
    /\ NextKind
    /\ UNCHANGED <<now, last_time, last_alert, alert_queue, stored, seen, log, inserted, faulted>>

\* Mutant: the later checks of a sample see the time of its own first alert.
RecordAndReread ==
    /\ pc = "record"
    /\ active' = [active EXCEPT ![Sample.crossbow] = Shorten(Append(@, Alert))]
    /\ last_alert' = [last_alert EXCEPT ![Sample.crossbow] = now]
    /\ last_time' = now
    /\ recorded' = Append(recorded, Alert)
    /\ NextKind
    /\ UNCHANGED <<now, alert_queue, stored, seen, log, inserted, faulted>>

\* Mutant: the active alerts are kept for all crossbows together.
RecordForAll ==
    /\ pc = "record"
    /\ active' = [c \in Crossbows |-> Shorten(Append(active[c], Alert))]
    /\ last_alert' = [last_alert EXCEPT ![Sample.crossbow] = now]
    /\ recorded' = Append(recorded, Alert)
    /\ NextKind
    /\ UNCHANGED <<now, last_time, alert_queue, stored, seen, log, inserted, faulted>>

\* Under alert_mutex_: the alert becomes active and starts the cooldown.
RecordAlert ==
    /\ pc = "record"
    /\ active' = [active EXCEPT ![Sample.crossbow] = Shorten(Append(@, Alert))]
    /\ last_alert' = [last_alert EXCEPT ![Sample.crossbow] = now]
    /\ recorded' = Append(recorded, Alert)
    /\ NextKind
    /\ UNCHANGED <<now, last_time, alert_queue, stored, seen, log, inserted, faulted>>

\* An exception leaves check_and_alert(), and worker_loop() goes on.
Throw ==
    /\ pc # "loop"
    /\ Cardinality(faulted) < MaxFaults
    /\ faulted' = faulted \cup {Len(seen)}
    /\ pc' = "loop"
    /\ UNCHANGED <<now, last_time, kind, sinkVars, seen, log, inserted, recorded>>

Next ==
    \/ Idle
    \/ \E c \in Crossbows, e \in Readings :
          \/ TakeUnknown(c, e)
          \/ \E t \in Times : Take(c, e, t)
    \/ Quiet \/ PushAlert \/ StoreAlert \/ RecordAlert \/ Throw

Spec == Init /\ [][Next]_vars

-----------------------------------------------------------------------------

Alerts == Nat \ {0}

\* The range of every variable.
TypeOK ==
    /\ pc \in {"loop", "check", "store", "record"}
    /\ now \in {0} \cup Times
    /\ last_time \in {0} \cup Times
    /\ kind \in 1..Len(Kinds)
    /\ active \in [Crossbows -> Seq(Alerts)]
    /\ last_alert \in [Crossbows -> {0} \cup Times]
    /\ alert_queue \in Seq(Alerts)
    /\ stored \in Seq(Alerts)
    /\ seen \in Seq([crossbow : Crossbows, exceeds : Readings, time : {0} \cup Times])
    /\ Len(seen) <= MaxSamples
    /\ log \in Seq([sample : 1..Len(seen), kind : KindSet])
    /\ inserted \subseteq 1..Len(log)
    /\ recorded \in Seq(1..Len(log))
    /\ faulted \subseteq 1..Len(seen)
    /\ pc # "loop" => /\ seen # <<>> /\ Sample.crossbow \in KnownCrossbows
                      /\ Sample.time = now
    /\ pc \in {"store", "record"} => /\ log # <<>>
                                     /\ log[Alert] = [sample |-> Len(seen), kind |-> Kinds[kind]]

SampleOf(a)   == seen[log[a].sample]
CrossbowOf(a) == SampleOf(a).crossbow
TimeOf(a)     == SampleOf(a).time

\* After an alert became active no other of its crossbow is sent, let alone recorded,
\* but for the same sample or more than d seconds later.
SilentFor(d) ==
    \A i \in DOMAIN recorded : \A b \in DOMAIN log :
        LET a == recorded[i] IN
        a < b /\ CrossbowOf(a) = CrossbowOf(b) /\ log[a].sample # log[b].sample
            => TimeOf(b) > TimeOf(a) + d

\* The cooldown holds whatever happens to the clock and to some of the alerts.
Debounced == SilentFor(Cooldown)

\* README.md documents debounce_seconds as the setting for it.
DebouncedAsConfigured == SilentFor(DebounceSeconds)

KindsSent(n) == {log[a].kind : a \in {b \in DOMAIN log : log[b].sample = n}}
Checked(n) == n < Len(seen) \/ pc = "loop"

\* A sample that is checked without an exception has raised all of its alerts, or none
\* and then because an earlier one of the crossbow is at most Cooldown seconds old.
NoMissedAlarm ==
    \A n \in DOMAIN seen \ faulted :
        /\ Checked(n)
        /\ seen[n].crossbow \in KnownCrossbows
        => \/ KindsSent(n) = seen[n].exceeds
           \/ /\ KindsSent(n) = {}
              /\ \E i \in DOMAIN recorded :
                    /\ log[recorded[i]].sample < n
                    /\ CrossbowOf(recorded[i]) = seen[n].crossbow
                    /\ seen[n].time <= TimeOf(recorded[i]) + Cooldown

\* An alert takes all of its places in the order queue, storage, active alerts, and
\* stops on the way only at the one where its sample's check ended in an exception.
SinksAgree ==
    /\ \A i \in DOMAIN recorded : recorded[i] \in inserted
    /\ \A a \in DOMAIN log :
          \/ \E i \in DOMAIN recorded : recorded[i] = a
          \/ a = Alert /\ (pc = "store" \/ (pc = "record" /\ a \in inserted))
          \/ /\ log[a].sample \in faulted
             /\ \A b \in DOMAIN log : log[b].sample = log[a].sample => b <= a

Shown == INSTANCE BoundedDeque WITH Capacity <- ActiveLimit

\* The alerts of a crossbow that became active.
RecordedOf(c) == {recorded[i] : i \in {j \in DOMAIN recorded : CrossbowOf(recorded[j]) = c}}
AtMost(m, n) == IF m < n THEN m ELSE n

\* What /api/alerts shows of a crossbow are its latest active alerts in the order they
\* were sent, all of them while they are few, and none of another crossbow.
ActiveIsLatest == \A c \in Crossbows : Shown!HoldsLatest(active[c], RecordedOf(c))

\* The storage holds the latest alerts it got, at least StoreLimit - StoreTrim + 1 of
\* them once it has trimmed, and never more than StoreLimit.
StoreIsLatest ==
    /\ Len(stored) <= StoreLimit
    /\ Len(stored) >= AtMost(Cardinality(inserted), StoreLimit - StoreTrim + 1)
    /\ \A i \in DOMAIN stored : stored[i] \in inserted
    /\ \A i, j \in DOMAIN stored : i < j => stored[i] < stored[j]
    /\ \A a \in inserted : stored # <<>> /\ a >= stored[1] => \E i \in DOMAIN stored : stored[i] = a

\* Each of the two trimmed lists holds the latest of what was put into it.
ListsHoldLatest == ActiveIsLatest /\ StoreIsLatest

=============================================================================
