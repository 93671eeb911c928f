-------------------------- MODULE AlarmServiceProofs --------------------------
(***************************************************************************)
(* Theorems about AlarmService, for any crossbows, thresholds, cooldown,     *)
(* limits and numbers of samples and exceptions: the cooldown is kept, it    *)
(* silences nothing else, the places an alert goes to agree, and the trimmed *)
(* lists among them hold the latest.                                         *)
(***************************************************************************)
EXTENDS AlarmService, FiniteSetTheorems, SequenceTheorems, TLAPS

\* A sample as the history keeps it.
SeenSamples == [crossbow : Crossbows, exceeds : SUBSET KindSet, time : Nat]

\* The part of TypeOK that the theorems need: what a check reads, and its histories.
RangeOK ==
    /\ pc \in {"loop", "check", "store", "record"}
    /\ now \in Nat /\ last_time \in Nat
    /\ kind \in 1..3
    /\ last_alert \in [Crossbows -> Nat]
    /\ seen \in Seq(SeenSamples)
    /\ log \in Seq([sample : Nat, kind : KindSet])
    /\ \A a \in 1..Len(log) : log[a].sample \in 1..Len(seen)
    /\ recorded \in Seq(Nat)
    /\ \A i \in 1..Len(recorded) : recorded[i] \in 1..Len(log)
    /\ inserted \subseteq 1..Len(log)
    /\ faulted \subseteq 1..Len(seen)

\* The check at work: its sample is the last, its time is the sample's, it has not
\* failed, and the alert between two sinks is the last one sent.
AtWork ==
    pc # "loop" =>
        /\ Len(seen) > 0
        /\ seen[Len(seen)].crossbow \in KnownCrossbows
        /\ seen[Len(seen)].time = now /\ now > Cooldown
        /\ Len(seen) \notin faulted
        /\ pc \in {"store", "record"} =>
              /\ Len(log) > 0
              /\ log[Len(log)] = [sample |-> Len(seen), kind |-> Kinds[kind]]
              /\ now - last_time > Cooldown
        /\ pc = "record" => Len(log) \in inserted

\* last_alert_time_ is the latest time of a recorded alert of the crossbow, and
\* last_time was read before the check at work recorded any.
LastAlertIsLatest ==
    \A i \in 1..Len(recorded) : TimeOf(recorded[i]) <= last_alert[CrossbowOf(recorded[i])]

LastTimeIsLatest ==
    pc # "loop" =>
        \A i \in 1..Len(recorded) :
            /\ CrossbowOf(recorded[i]) = seen[Len(seen)].crossbow
            /\ log[recorded[i]].sample # Len(seen)
            => TimeOf(recorded[i]) <= last_time

CooldownInv == RangeOK /\ AtWork /\ LastAlertIsLatest /\ LastTimeIsLatest /\ Debounced

-----------------------------------------------------------------------------
(* The bounds and the histories.                                           *)

\* The assumption in the form that arithmetic needs.
LEMMA Bounds ==
  /\ Cooldown \in Nat /\ KnownCrossbows \subseteq Crossbows
  /\ Readings \subseteq SUBSET KindSet
  /\ Times \subseteq Nat /\ \A t \in Times : t > Cooldown
  /\ Len(Kinds) = 3 /\ \A k \in 1..3 : Kinds[k] \in KindSet
<1>1. /\ Cooldown \in Nat /\ KnownCrossbows \subseteq Crossbows /\ MaxTime \in Nat
      /\ Readings \subseteq SUBSET KindSet
  BY AlarmAssumption DEF AlarmAssumption
<1>2. Times \subseteq Nat /\ \A t \in Times : t > Cooldown
  BY <1>1 DEF Times
<1>3. /\ Len(Kinds) = 3 /\ \A k \in 1..3 : Kinds[k] \in KindSet
  BY DEF Kinds, KindSet
<1> QED  BY <1>1, <1>2, <1>3

\* The histories are sequences over their indices.
LEMMA Domains ==
  ASSUME RangeOK
  PROVE  /\ Len(log) \in Nat /\ Len(seen) \in Nat /\ Len(recorded) \in Nat
         /\ DOMAIN log = 1..Len(log) /\ DOMAIN recorded = 1..Len(recorded)
         /\ DOMAIN seen = 1..Len(seen)
         /\ \A a \in 1..Len(log) : /\ log[a].sample \in 1..Len(seen)
                                   /\ TimeOf(a) \in Nat /\ CrossbowOf(a) \in Crossbows
         /\ \A n \in 1..Len(seen) : seen[n].time \in Nat /\ seen[n].crossbow \in Crossbows
<1>1. \A n \in 1..Len(seen) : seen[n].time \in Nat /\ seen[n].crossbow \in Crossbows
  <2> SUFFICES ASSUME NEW n \in 1..Len(seen)
               PROVE  seen[n].time \in Nat /\ seen[n].crossbow \in Crossbows
    OBVIOUS
  <2>1. seen \in Seq(SeenSamples)
    BY DEF RangeOK
  <2>2. seen[n] \in SeenSamples
    BY <2>1
  <2> QED  BY <2>2 DEF SeenSamples
<1>2. \A a \in 1..Len(log) : log[a].sample \in 1..Len(seen)
  BY DEF RangeOK
<1> QED  BY <1>1, <1>2 DEF RangeOK, TimeOf, CrossbowOf, SampleOf

\* An action adds a sample to the ones seen, or an alert to the log, or neither.
LEMMA StepGrows ==
  ASSUME RangeOK, [Next]_vars
  PROVE  /\ Len(log) <= Len(log') /\ Len(seen) <= Len(seen')
         /\ \A a \in 1..Len(log) : log'[a] = log[a]
         /\ \A n \in 1..Len(seen) : seen'[n] = seen[n]
<1>1. /\ Len(log) \in Nat /\ Len(seen) \in Nat
      /\ seen \in Seq(SeenSamples)
      /\ log \in Seq([sample : Nat, kind : KindSet])
  BY Domains DEF RangeOK
<1>2. CASE UNCHANGED <<seen, log>>
  BY <1>1, <1>2
<1>3. CASE \E x : seen' = Append(seen, x) /\ UNCHANGED log
  BY <1>1, <1>3
<1>4. CASE \E x : log' = Append(log, x) /\ UNCHANGED seen
  BY <1>1, <1>4
<1>5. \/ UNCHANGED <<seen, log>>
      \/ \E x : seen' = Append(seen, x) /\ UNCHANGED log
      \/ \E x : log' = Append(log, x) /\ UNCHANGED seen
  <2>1. CASE Next
    <3>1. ASSUME NEW c \in Crossbows, NEW e \in Readings, TakeUnknown(c, e)
          PROVE  \E x : seen' = Append(seen, x) /\ UNCHANGED log
      BY <3>1 DEF TakeUnknown
    <3>2. ASSUME NEW c \in Crossbows, NEW e \in Readings, NEW t \in Times, Take(c, e, t)
          PROVE  \E x : seen' = Append(seen, x) /\ UNCHANGED log
      BY <3>2 DEF Take
    <3>3. CASE PushAlert
      BY <3>3 DEF PushAlert
    <3>4. CASE Idle \/ Quiet \/ StoreAlert \/ RecordAlert \/ Throw
      BY <3>4 DEF Idle, Quiet, StoreAlert, RecordAlert, Throw, vars, historyVars
    <3> QED  BY <2>1, <3>1, <3>2, <3>3, <3>4 DEF Next
  <2>2. CASE UNCHANGED vars
    BY <2>2 DEF vars, historyVars
  <2> QED  BY <2>1, <2>2
<1> QED  BY <1>2, <1>3, <1>4, <1>5

\* What is said of an alert in the log is said for good.
LEMMA AlertsStay ==
  ASSUME RangeOK, [Next]_vars, NEW a \in 1..Len(log)
  PROVE  /\ a \in 1..Len(log') /\ log'[a].sample = log[a].sample
         /\ TimeOf(a)' = TimeOf(a) /\ CrossbowOf(a)' = CrossbowOf(a)
<1>1. log'[a] = log[a] /\ seen'[log[a].sample] = seen[log[a].sample] /\ a \in 1..Len(log')
  BY StepGrows, Domains
<1> QED  BY <1>1 DEF TimeOf, CrossbowOf, SampleOf

-----------------------------------------------------------------------------
(* RangeOK and AtWork are kept.                                            *)

\* A sample is seen: the ranges of the histories grow with it.
LEMMA SeenGrows ==
  ASSUME RangeOK, NEW c \in Crossbows, NEW e \in Readings, NEW t \in Nat,
         seen' = Append(seen, [crossbow |-> c, exceeds |-> e, time |-> t]),
         UNCHANGED <<log, recorded, inserted, faulted>>
  PROVE  /\ seen' \in Seq(SeenSamples)
         /\ Len(seen') = Len(seen) + 1
         /\ seen'[Len(seen) + 1] = [crossbow |-> c, exceeds |-> e, time |-> t]
         /\ \A a \in 1..Len(log') : log'[a].sample \in 1..Len(seen')
         /\ faulted' \subseteq 1..Len(seen')
         /\ Len(seen) + 1 \notin faulted'
<1>1. [crossbow |-> c, exceeds |-> e, time |-> t]
         \in SeenSamples
  BY Bounds DEF SeenSamples
<1>2. /\ seen' \in Seq(SeenSamples)
      /\ Len(seen') = Len(seen) + 1
      /\ seen'[Len(seen) + 1] = [crossbow |-> c, exceeds |-> e, time |-> t]
  BY <1>1 DEF RangeOK
<1>3. Len(seen) \in Nat
  BY Domains
<1>4. 1..Len(seen) \subseteq 1..Len(seen') /\ Len(seen) + 1 \notin 1..Len(seen)
  BY <1>2, <1>3
<1>5. /\ \A a \in 1..Len(log) : log[a].sample \in 1..Len(seen)
      /\ faulted \subseteq 1..Len(seen)
  BY DEF RangeOK
<1> QED  BY <1>2, <1>4, <1>5

\* The next check has a number, and the end of the last is the loop.
LEMMA NextKindRange ==
  ASSUME RangeOK, NextKind
  PROVE  kind' \in 1..3 /\ pc' \in {"check", "loop"}
<1>1. kind \in 1..3 /\ Len(Kinds) = 3
  BY Bounds DEF RangeOK
<1> QED  BY <1>1 DEF NextKind

\* Each action keeps the ranges and what is known of the check at work.
LEMMA StepAtWork ==
  ASSUME RangeOK, AtWork, [Next]_vars
  PROVE  RangeOK' /\ AtWork'
<1> USE DEF checkVars, sinkVars, historyVars
<1>0. /\ Len(log) \in Nat /\ Len(seen) \in Nat
      /\ now \in Nat /\ last_time \in Nat /\ Cooldown \in Nat
  BY Domains, Bounds DEF RangeOK
<1>1. ASSUME NEW c \in Crossbows, NEW e \in Readings, TakeUnknown(c, e)
      PROVE  RangeOK' /\ AtWork'
  <2>1. /\ seen' = Append(seen, [crossbow |-> c, exceeds |-> e, time |-> 0])
        /\ UNCHANGED <<log, recorded, inserted, faulted>>
    BY <1>1 DEF TakeUnknown
  <2>2. /\ seen' \in Seq(SeenSamples)
        /\ \A a \in 1..Len(log') : log'[a].sample \in 1..Len(seen')
        /\ faulted' \subseteq 1..Len(seen')
    BY <2>1, SeenGrows
  <2>3. RangeOK'
    BY <1>1, <2>1, <2>2 DEF RangeOK, TakeUnknown
  <2>4. AtWork'
    BY <1>1 DEF AtWork, TakeUnknown
  <2> QED  BY <2>3, <2>4
<1>2. ASSUME NEW c \in Crossbows, NEW e \in Readings, NEW t \in Times, Take(c, e, t)
      PROVE  RangeOK' /\ AtWork'
  <2>1. /\ seen' = Append(seen, [crossbow |-> c, exceeds |-> e, time |-> t])
        /\ UNCHANGED <<log, recorded, inserted, faulted>>
        /\ c \in KnownCrossbows /\ t \in Nat /\ t > Cooldown
        /\ pc' = "check" /\ now' = t /\ last_time' = last_alert[c] /\ kind' = 1
        /\ UNCHANGED sinkVars
    BY <1>2, Bounds DEF Take
  <2>2. /\ seen' \in Seq(SeenSamples)
        /\ Len(seen') = Len(seen) + 1
        /\ seen'[Len(seen) + 1] = [crossbow |-> c, exceeds |-> e, time |-> t]
        /\ \A a \in 1..Len(log') : log'[a].sample \in 1..Len(seen')
        /\ faulted' \subseteq 1..Len(seen')
        /\ Len(seen) + 1 \notin faulted'
    BY <2>1, SeenGrows
  <2>3. last_alert[c] \in Nat
    BY DEF RangeOK
  <2>4. RangeOK'
    BY <2>1, <2>2, <2>3 DEF RangeOK
  <2>5. AtWork'
    BY <1>0, <2>1, <2>2 DEF AtWork
  <2> QED  BY <2>4, <2>5
<1>3. CASE Quiet
  <2>1. pc' \in {"check", "loop"} /\ kind' \in 1..3 /\ pc = "check"
    BY <1>3, NextKindRange DEF Quiet
  <2>2. RangeOK'
    BY <1>3, <2>1 DEF RangeOK, Quiet
  <2>3. AtWork'
    BY <1>3, <2>1 DEF AtWork, Quiet
  <2> QED  BY <2>2, <2>3
<1>4. CASE PushAlert
  <2> DEFINE alert == [sample |-> Len(seen), kind |-> Kinds[kind]]
  <2>1. /\ pc = "check" /\ now - last_time > Cooldown /\ log' = Append(log, alert)
        /\ pc' = "store"
        /\ UNCHANGED <<now, last_time, kind, active, last_alert, stored, seen, inserted,
                       recorded, faulted>>
    BY <1>4 DEF PushAlert, Fires
  <2>2. alert \in [sample : Nat, kind : KindSet] /\ alert.sample \in 1..Len(seen)
    BY <1>0, <2>1, Bounds DEF RangeOK, AtWork
  <2> HIDE DEF alert
  <2>3. /\ log' \in Seq([sample : Nat, kind : KindSet])
        /\ Len(log') = Len(log) + 1 /\ log'[Len(log) + 1] = alert
        /\ \A a \in 1..Len(log) : log'[a] = log[a]
    BY <2>1, <2>2 DEF RangeOK
  <2>4. \A a \in 1..Len(log') : log'[a].sample \in 1..Len(seen)
    <3>1. \A a \in 1..Len(log) : log'[a].sample \in 1..Len(seen)
      BY <2>3 DEF RangeOK
    <3>2. \A a \in 1..Len(log') : a \in 1..Len(log) \/ a = Len(log) + 1
      BY <1>0, <2>3
    <3> QED  BY <2>2, <2>3, <3>1, <3>2
  <2>5. 1..Len(log) \subseteq 1..Len(log')
    BY <1>0, <2>3
  <2>6. RangeOK'
    BY <2>1, <2>3, <2>4, <2>5 DEF RangeOK
  <2>7. AtWork'
    BY <1>0, <2>1, <2>3 DEF AtWork, alert
  <2> QED  BY <2>6, <2>7
<1>5. CASE StoreAlert
  <2>1. Len(log) \in 1..Len(log)
    BY <1>0, <1>5 DEF AtWork, StoreAlert
  <2>2. RangeOK'
    BY <1>5, <2>1 DEF RangeOK, StoreAlert, Alert
  <2>3. AtWork'
    BY <1>5 DEF AtWork, StoreAlert, Alert
  <2> QED  BY <2>2, <2>3
<1>6. CASE RecordAlert
  <2>1. /\ Len(log) \in 1..Len(log) /\ Len(log) \in Nat
    BY <1>0, <1>6 DEF AtWork, RecordAlert
  <2>2. pc' \in {"check", "loop"} /\ kind' \in 1..3
    BY <1>6, NextKindRange DEF RecordAlert
  <2>3. recorded' = Append(recorded, Len(log))
    BY <1>6 DEF RecordAlert, Alert
  <2>4. recorded' \in Seq(Nat) /\ \A i \in 1..Len(recorded') : recorded'[i] \in 1..Len(log)
    BY <2>1, <2>3 DEF RangeOK
  <2>5. last_alert' \in [Crossbows -> Nat]
    BY <1>0, <1>6 DEF RangeOK, RecordAlert
  <2>6. RangeOK'
    BY <1>6, <2>2, <2>4, <2>5 DEF RangeOK, RecordAlert
  <2>7. AtWork'
    BY <1>6, <2>2 DEF AtWork, RecordAlert
  <2> QED  BY <2>6, <2>7
<1>7. CASE Throw
  <2>1. Len(seen) \in 1..Len(seen)
    BY <1>0, <1>7 DEF AtWork, Throw
  <2>2. RangeOK'
    BY <1>7, <2>1 DEF RangeOK, Throw
  <2>3. AtWork'
    BY <1>7 DEF AtWork, Throw
  <2> QED  BY <2>2, <2>3
<1>8. CASE Idle \/ UNCHANGED vars
  BY <1>8 DEF Idle, vars, RangeOK, AtWork
<1> QED  BY <1>1, <1>2, <1>3, <1>4, <1>5, <1>6, <1>7, <1>8 DEF Next

-----------------------------------------------------------------------------
(* The cooldown.                                                           *)

\* What is said of the alert that is being stored or recorded.
LEMMA LastAlertFacts ==
  ASSUME RangeOK, AtWork, pc \in {"store", "record"}
  PROVE  /\ Len(log) \in 1..Len(log) /\ log[Len(log)].sample = Len(seen)
         /\ TimeOf(Len(log)) = now /\ CrossbowOf(Len(log)) = seen[Len(seen)].crossbow
         /\ now - last_time > Cooldown
<1>1. /\ Len(log) > 0 /\ log[Len(log)] = [sample |-> Len(seen), kind |-> Kinds[kind]]
      /\ seen[Len(seen)].time = now /\ now - last_time > Cooldown
  BY DEF AtWork
<1> QED  BY <1>1, Domains DEF TimeOf, CrossbowOf, SampleOf

\* last_alert_time_ stays the latest time that was recorded.
LEMMA StepLastAlert ==
  ASSUME CooldownInv, [Next]_vars
  PROVE  LastAlertIsLatest'
<1> USE DEF CooldownInv
<1>0. /\ \A i \in 1..Len(recorded) : recorded[i] \in 1..Len(log)
      /\ \A a \in 1..Len(log) : TimeOf(a)' = TimeOf(a) /\ CrossbowOf(a)' = CrossbowOf(a)
  BY AlertsStay DEF RangeOK
<1>1. CASE RecordAlert
  <2> DEFINE c == seen[Len(seen)].crossbow
  <2>1. /\ recorded' = Append(recorded, Len(log))
        /\ last_alert' = [last_alert EXCEPT ![c] = now]
        /\ pc = "record" /\ UNCHANGED <<seen, log>>
    BY <1>1 DEF RecordAlert, Alert, Sample
  <2>2. /\ Len(log) \in 1..Len(log) /\ TimeOf(Len(log)) = now /\ CrossbowOf(Len(log)) = c
        /\ now - last_time > Cooldown
    BY <2>1, LastAlertFacts
  <2>3. c \in Crossbows /\ now \in Nat /\ last_time \in Nat /\ Cooldown \in Nat
    BY <2>1, Bounds DEF AtWork, RangeOK
  <2>4. last_alert' \in [Crossbows -> Nat] /\ last_alert'[c] = now
        /\ \A d \in Crossbows \ {c} : last_alert'[d] = last_alert[d]
    BY <2>1, <2>3 DEF RangeOK
  <2>5. ASSUME NEW i \in 1..Len(recorded)
        PROVE  TimeOf(recorded[i]) <= last_alert'[CrossbowOf(recorded[i])]
    <3>1. /\ recorded[i] \in 1..Len(log) /\ TimeOf(recorded[i]) \in Nat
          /\ CrossbowOf(recorded[i]) \in Crossbows
      BY Domains DEF RangeOK
    <3>2. CASE CrossbowOf(recorded[i]) # c
      BY <2>4, <3>1, <3>2 DEF LastAlertIsLatest
    <3>3. CASE CrossbowOf(recorded[i]) = c /\ log[recorded[i]].sample = Len(seen)
      <4>1. TimeOf(recorded[i]) = now
        BY <2>1, <3>3 DEF TimeOf, SampleOf, AtWork
      <4> QED  BY <2>3, <2>4, <3>3, <4>1
    <3>4. CASE CrossbowOf(recorded[i]) = c /\ log[recorded[i]].sample # Len(seen)
      <4>1. TimeOf(recorded[i]) <= last_time
        BY <2>1, <3>4 DEF LastTimeIsLatest
      <4> QED  BY <2>2, <2>3, <2>4, <3>1, <3>4, <4>1
    <3> QED  BY <3>2, <3>3, <3>4
  <2>6. /\ Len(recorded) \in Nat /\ Len(recorded') = Len(recorded) + 1
        /\ recorded'[Len(recorded) + 1] = Len(log)
        /\ \A i \in 1..Len(recorded) : recorded'[i] = recorded[i]
    BY <2>1 DEF RangeOK
  <2>7. \A a : TimeOf(a)' = TimeOf(a) /\ CrossbowOf(a)' = CrossbowOf(a)
    BY <2>1 DEF TimeOf, CrossbowOf, SampleOf
  <2>8. ASSUME NEW i \in 1..Len(recorded')
        PROVE  TimeOf(recorded'[i]) <= last_alert'[CrossbowOf(recorded'[i])]
    <3>1. CASE i \in 1..Len(recorded)
      BY <2>5, <2>6, <3>1
    <3>2. CASE i = Len(recorded) + 1
      BY <2>2, <2>3, <2>4, <2>6, <3>2
    <3> QED  BY <2>6, <3>1, <3>2
  <2> QED  BY <2>7, <2>8 DEF LastAlertIsLatest, TimeOf, CrossbowOf, SampleOf
<1>2. ASSUME UNCHANGED <<recorded, last_alert>> PROVE LastAlertIsLatest'
  BY <1>0, <1>2 DEF LastAlertIsLatest, TimeOf, CrossbowOf, SampleOf
<1>3. CASE Idle \/ Quiet \/ PushAlert \/ StoreAlert \/ Throw \/ UNCHANGED vars
  BY <1>2, <1>3 DEF Idle, Quiet, PushAlert, StoreAlert, Throw, vars, sinkVars, historyVars
<1>4. ASSUME NEW c \in Crossbows, NEW e \in Readings,
             TakeUnknown(c, e) \/ \E t \in Times : Take(c, e, t)
      PROVE  LastAlertIsLatest'
  BY <1>2, <1>4 DEF TakeUnknown, Take, sinkVars
<1> QED  BY <1>1, <1>3, <1>4 DEF Next

\* What a check read of the crossbow's last alert stays the latest before its sample.
LEMMA StepLastTime ==
  ASSUME CooldownInv, [Next]_vars
  PROVE  LastTimeIsLatest'
<1> USE DEF CooldownInv
<1>0. /\ \A i \in 1..Len(recorded) : recorded[i] \in 1..Len(log)
      /\ \A a \in 1..Len(log) : /\ TimeOf(a)' = TimeOf(a) /\ CrossbowOf(a)' = CrossbowOf(a)
                                /\ log'[a].sample = log[a].sample
  BY AlertsStay DEF RangeOK
<1>1. ASSUME NEW c \in Crossbows, NEW e \in Readings, NEW t \in Times, Take(c, e, t)
      PROVE  LastTimeIsLatest'
  <2>1. /\ seen' = Append(seen, [crossbow |-> c, exceeds |-> e, time |-> t])
        /\ last_time' = last_alert[c] /\ recorded' = recorded
    BY <1>1 DEF Take
  <2>2. seen'[Len(seen')].crossbow = c
    BY <2>1 DEF RangeOK
  <2> QED  BY <1>0, <2>1, <2>2 DEF LastTimeIsLatest, LastAlertIsLatest, TimeOf, CrossbowOf, SampleOf
<1>2. CASE RecordAlert
  <2>1. /\ recorded' = Append(recorded, Len(log)) /\ pc = "record"
        /\ UNCHANGED <<seen, log, last_time>>
    BY <1>2 DEF RecordAlert, Alert
  <2>2. log[Len(log)].sample = Len(seen)
    BY <2>1, LastAlertFacts
  <2>3. /\ Len(recorded) \in Nat /\ Len(recorded') = Len(recorded) + 1
        /\ recorded'[Len(recorded) + 1] = Len(log)
        /\ \A i \in 1..Len(recorded) : recorded'[i] = recorded[i]
    BY <2>1 DEF RangeOK
  <2>4. ASSUME NEW i \in 1..Len(recorded'),
               CrossbowOf(recorded'[i]) = seen[Len(seen)].crossbow,
               log[recorded'[i]].sample # Len(seen)
        PROVE  TimeOf(recorded'[i]) <= last_time
    <3>1. i \in 1..Len(recorded)
      BY <2>2, <2>3, <2>4
    <3> QED  BY <2>1, <2>3, <2>4, <3>1 DEF LastTimeIsLatest
  <2> QED  BY <2>1, <2>4 DEF LastTimeIsLatest, TimeOf, CrossbowOf, SampleOf
<1>3. ASSUME UNCHANGED <<recorded, last_time, seen>>, pc' # "loop" => pc # "loop"
      PROVE  LastTimeIsLatest'
  BY <1>0, <1>3 DEF LastTimeIsLatest, TimeOf, CrossbowOf, SampleOf
<1>4. CASE Idle \/ Quiet \/ PushAlert \/ StoreAlert \/ Throw \/ UNCHANGED vars
  BY <1>3, <1>4 DEF Idle, Quiet, PushAlert, StoreAlert, Throw, vars, checkVars, sinkVars, historyVars
<1>5. ASSUME NEW c \in Crossbows, NEW e \in Readings, TakeUnknown(c, e)
      PROVE  LastTimeIsLatest'
  BY <1>5 DEF TakeUnknown, checkVars, LastTimeIsLatest
<1> QED  BY <1>1, <1>2, <1>4, <1>5 DEF Next

\* An alert is only sent more than the cooldown after those recorded before.
LEMMA StepDebounced ==
  ASSUME CooldownInv, [Next]_vars, RangeOK'
  PROVE  Debounced'
<1> USE DEF CooldownInv
<1>0. /\ DOMAIN log = 1..Len(log) /\ DOMAIN log' = 1..Len(log') /\ Len(log) \in Nat
      /\ DOMAIN recorded = 1..Len(recorded) /\ DOMAIN recorded' = 1..Len(recorded')
      /\ \A i \in 1..Len(recorded) : recorded[i] \in 1..Len(log)
  BY DEF RangeOK
<1>1. \A a \in 1..Len(log) :
         /\ TimeOf(a)' = TimeOf(a) /\ CrossbowOf(a)' = CrossbowOf(a)
         /\ log'[a].sample = log[a].sample
  BY AlertsStay
<1>2. ASSUME NEW i \in 1..Len(recorded), NEW b \in 1..Len(log), recorded[i] < b,
             CrossbowOf(recorded[i]) = CrossbowOf(b), log[recorded[i]].sample # log[b].sample
      PROVE  TimeOf(b) > TimeOf(recorded[i]) + Cooldown
  BY <1>0, <1>2 DEF Debounced, SilentFor
<1>3. CASE PushAlert
  <2>1. /\ log' = Append(log, [sample |-> Len(seen), kind |-> Kinds[kind]])
        /\ pc = "check" /\ now - last_time > Cooldown /\ UNCHANGED <<seen, recorded>>
    BY <1>3 DEF PushAlert, Fires
  <2>2. Len(log') = Len(log) + 1 /\ log'[Len(log) + 1].sample = Len(seen)
    BY <2>1 DEF RangeOK
  <2> PICK new : new = Len(log) + 1
    OBVIOUS
  <2>3. TimeOf(new)' = now /\ CrossbowOf(new)' = seen[Len(seen)].crossbow
    BY <2>1, <2>2 DEF TimeOf, CrossbowOf, SampleOf, AtWork
  <2>4. ASSUME NEW a \in 1..Len(log), NEW b \in 1..Len(log'), a < b,
               \E i \in 1..Len(recorded) : recorded[i] = a,
               CrossbowOf(a) = CrossbowOf(b)', log[a].sample # log'[b].sample
        PROVE  TimeOf(b)' > TimeOf(a) + Cooldown
    <3>1. CASE b \in 1..Len(log)
      BY <1>1, <1>2, <2>4, <3>1
    <3>2. CASE b = new
      <4>1. TimeOf(a) <= last_time
        BY <2>1, <2>2, <2>3, <2>4, <3>2 DEF LastTimeIsLatest
      <4>2. /\ TimeOf(a) \in Nat /\ last_time \in Nat /\ now \in Nat
            /\ Cooldown \in Nat
        BY <1>0, Domains, Bounds DEF RangeOK
      <4> QED  BY <2>1, <2>3, <3>2, <4>1, <4>2
    <3> QED  BY <1>0, <2>2, <3>1, <3>2
  <2>5. ASSUME NEW i \in 1..Len(recorded'), NEW b \in 1..Len(log'), recorded'[i] < b,
               CrossbowOf(recorded[i])' = CrossbowOf(b)', log'[recorded'[i]].sample # log'[b].sample
        PROVE  TimeOf(b)' > TimeOf(recorded[i])' + Cooldown
    <3> PICK a : a = recorded[i]
      OBVIOUS
    <3>1. a = recorded'[i] /\ a \in 1..Len(log) /\ i \in 1..Len(recorded)
      BY <1>0, <2>1, <2>5
    <3>2. TimeOf(a)' = TimeOf(recorded[i])' /\ CrossbowOf(a)' = CrossbowOf(recorded[i])'
      BY <3>1 DEF TimeOf, CrossbowOf, SampleOf
    <3> QED  BY <1>1, <2>4, <2>5, <3>1, <3>2
  <2> QED  BY <1>0, <2>5 DEF Debounced, SilentFor
<1>4. CASE RecordAlert
  <2>1. /\ recorded' = Append(recorded, Len(log)) /\ UNCHANGED <<seen, log>>
    BY <1>4 DEF RecordAlert, Alert
  <2>2. /\ Len(recorded) \in Nat /\ Len(recorded') = Len(recorded) + 1
        /\ recorded'[Len(recorded) + 1] = Len(log)
        /\ \A i \in 1..Len(recorded) : recorded'[i] = recorded[i]
    BY <2>1 DEF RangeOK
  <2>3. ASSUME NEW i \in 1..Len(recorded'), NEW b \in 1..Len(log), recorded'[i] < b,
               CrossbowOf(recorded'[i]) = CrossbowOf(b), log[recorded'[i]].sample # log[b].sample
        PROVE  TimeOf(b) > TimeOf(recorded'[i]) + Cooldown
    <3>1. i \in 1..Len(recorded)
      BY <1>0, <2>2, <2>3
    <3> QED  BY <1>2, <2>2, <2>3, <3>1
  <2> QED  BY <1>0, <2>1, <2>3 DEF Debounced, SilentFor, TimeOf, CrossbowOf, SampleOf
<1>5. ASSUME UNCHANGED <<log, recorded>> PROVE Debounced'
  BY <1>0, <1>1, <1>2, <1>5 DEF Debounced, SilentFor, TimeOf, CrossbowOf, SampleOf
<1>6. CASE Idle \/ Quiet \/ StoreAlert \/ Throw \/ UNCHANGED vars
  BY <1>5, <1>6 DEF Idle, Quiet, StoreAlert, Throw, vars, historyVars
<1>7. ASSUME NEW c \in Crossbows, NEW e \in Readings,
             TakeUnknown(c, e) \/ \E t \in Times : Take(c, e, t)
      PROVE  Debounced'
  BY <1>5, <1>7 DEF TakeUnknown, Take
<1> QED  BY <1>3, <1>4, <1>6, <1>7 DEF Next

\* Nothing is recorded at first.
LEMMA InitCooldown == Init => CooldownInv
<1> SUFFICES ASSUME Init PROVE CooldownInv
  OBVIOUS
<1>1. RangeOK
  BY DEF Init, RangeOK
<1>2. AtWork /\ LastAlertIsLatest /\ LastTimeIsLatest /\ Debounced
  BY DEF Init, AtWork, LastAlertIsLatest, LastTimeIsLatest, Debounced, SilentFor
<1> QED  BY <1>1, <1>2 DEF CooldownInv

\* CooldownInv is inductive.
LEMMA CooldownAlways == Spec => []CooldownInv
<1>1. CooldownInv /\ [Next]_vars => CooldownInv'
  BY StepAtWork, StepLastAlert, StepLastTime, StepDebounced DEF CooldownInv
<1> QED  BY InitCooldown, <1>1, PTL DEF Spec

\* After an alert became active, none of its crossbow is sent within the cooldown but
\* those of the same sample, whatever the clock does and whichever sink fails.
THEOREM CooldownIsKept == Spec => []Debounced
<1>1. CooldownInv => Debounced
  BY DEF CooldownInv
<1> QED  BY CooldownAlways, <1>1, PTL

-----------------------------------------------------------------------------
(* The sinks.                                                              *)

\* Each sink has what the next one has, but for the alert on its way or cut short.
LEMMA StepSinks ==
  ASSUME RangeOK, AtWork, SinksAgree, [Next]_vars, RangeOK'
  PROVE  SinksAgree'
<1>0. /\ DOMAIN log = 1..Len(log) /\ DOMAIN log' = 1..Len(log')
      /\ DOMAIN recorded = 1..Len(recorded) /\ DOMAIN recorded' = 1..Len(recorded')
      /\ Len(log) \in Nat /\ Len(recorded) \in Nat /\ Len(seen) \in Nat
      /\ \A a \in 1..Len(log) : log[a].sample \in 1..Len(seen)
  BY DEF RangeOK
<1>1. \A i \in 1..Len(recorded) : recorded[i] \in inserted
  BY <1>0 DEF SinksAgree
<1>2. \A a \in 1..Len(log) :
         \/ \E i \in 1..Len(recorded) : recorded[i] = a
         \/ a = Len(log) /\ (pc = "store" \/ (pc = "record" /\ a \in inserted))
         \/ /\ log[a].sample \in faulted
            /\ \A b \in 1..Len(log) : log[b].sample = log[a].sample => b <= a
  BY <1>0 DEF SinksAgree, Alert
<1>3. CASE PushAlert
  <2>1. /\ log' = Append(log, [sample |-> Len(seen), kind |-> Kinds[kind]])
        /\ pc = "check" /\ pc' = "store" /\ UNCHANGED <<seen, recorded, inserted, faulted>>
    BY <1>3 DEF PushAlert
  <2>2. /\ Len(log') = Len(log) + 1 /\ log'[Len(log) + 1].sample = Len(seen)
        /\ \A a \in 1..Len(log) : log'[a] = log[a]
    BY <2>1 DEF RangeOK
  <2>3. Len(seen) \notin faulted
    BY <2>1 DEF AtWork
  <2>4. ASSUME NEW a \in 1..Len(log')
        PROVE  \/ \E i \in 1..Len(recorded) : recorded[i] = a
               \/ a = Len(log') /\ pc' = "store"
               \/ /\ log'[a].sample \in faulted
                  /\ \A b \in 1..Len(log') : log'[b].sample = log'[a].sample => b <= a
    <3>1. CASE a = Len(log) + 1
      BY <2>1, <2>2, <3>1
    <3>2. CASE a \in 1..Len(log) /\ log[a].sample \in faulted
                 /\ \A b \in 1..Len(log) : log[b].sample = log[a].sample => b <= a
      <4>1. \A b \in 1..Len(log') : b \in 1..Len(log) \/ b = Len(log) + 1
        BY <1>0, <2>2
      <4> QED  BY <2>2, <2>3, <3>2, <4>1
    <3>3. CASE a \in 1..Len(log) /\ \E i \in 1..Len(recorded) : recorded[i] = a
      BY <3>3
    <3> QED  BY <1>0, <1>2, <2>1, <2>2, <3>1, <3>2, <3>3
  <2> QED  BY <1>0, <1>1, <2>1, <2>4 DEF SinksAgree, Alert
<1>4. CASE StoreAlert
  <2>1. /\ pc = "store" /\ pc' = "record" /\ inserted' = inserted \cup {Len(log)}
        /\ UNCHANGED <<log, recorded, faulted>>
    BY <1>4 DEF StoreAlert, Alert, historyVars
  <2> QED  BY <1>0, <1>1, <1>2, <2>1 DEF SinksAgree, Alert
<1>5. CASE RecordAlert
  <2>1. /\ pc = "record" /\ recorded' = Append(recorded, Len(log))
        /\ UNCHANGED <<log, inserted, faulted>>
    BY <1>5 DEF RecordAlert, Alert
  <2>2. /\ Len(recorded') = Len(recorded) + 1 /\ recorded'[Len(recorded) + 1] = Len(log)
        /\ \A i \in 1..Len(recorded) : recorded'[i] = recorded[i]
    BY <2>1 DEF RangeOK
  <2>3. Len(log) \in inserted
    BY <2>1 DEF AtWork
  <2>4. \A i \in 1..Len(recorded') : recorded'[i] \in inserted
    <3>1. \A i \in 1..Len(recorded') : i \in 1..Len(recorded) \/ i = Len(recorded) + 1
      BY <1>0, <2>2
    <3> QED  BY <1>1, <2>2, <2>3, <3>1
  <2>5. ASSUME NEW a \in 1..Len(log)
        PROVE  \/ \E i \in 1..Len(recorded') : recorded'[i] = a
               \/ /\ log[a].sample \in faulted
                  /\ \A b \in 1..Len(log) : log[b].sample = log[a].sample => b <= a
    <3>1. CASE a = Len(log)
      BY <1>0, <2>2, <3>1
    <3>2. CASE \E i \in 1..Len(recorded) : recorded[i] = a
      BY <1>0, <2>2, <3>2
    <3> QED  BY <1>2, <2>1, <3>1, <3>2
  <2> QED  BY <1>0, <2>1, <2>4, <2>5 DEF SinksAgree
<1>6. CASE Throw
  <2>1. /\ pc # "loop" /\ faulted' = faulted \cup {Len(seen)}
        /\ UNCHANGED <<log, recorded, inserted>>
    BY <1>6 DEF Throw, sinkVars
  <2>2. ASSUME pc \in {"store", "record"}
        PROVE  log[Len(log)].sample = Len(seen)
    BY <2>2, LastAlertFacts
  <2>3. ASSUME NEW a \in 1..Len(log)
        PROVE  \/ \E i \in 1..Len(recorded) : recorded[i] = a
               \/ /\ log[a].sample \in faulted'
                  /\ \A b \in 1..Len(log) : log[b].sample = log[a].sample => b <= a
    <3>1. CASE a = Len(log) /\ pc \in {"store", "record"}
      BY <1>0, <2>1, <2>2, <3>1
    <3> QED  BY <1>2, <2>1, <3>1
  <2> QED  BY <1>0, <1>1, <2>1, <2>3 DEF SinksAgree
<1>7. ASSUME UNCHANGED <<log, recorded, inserted, faulted>>,
             pc \in {"store", "record"} => pc' = pc
      PROVE  SinksAgree'
  BY <1>0, <1>1, <1>2, <1>7 DEF SinksAgree, Alert
<1>8. CASE Idle \/ Quiet \/ UNCHANGED vars
  BY <1>7, <1>8 DEF Idle, Quiet, vars, checkVars, historyVars
<1>9. ASSUME NEW c \in Crossbows, NEW e \in Readings,
             TakeUnknown(c, e) \/ \E t \in Times : Take(c, e, t)
      PROVE  SinksAgree'
  BY <1>7, <1>9 DEF TakeUnknown, Take
<1> QED  BY <1>3, <1>4, <1>5, <1>6, <1>8, <1>9 DEF Next

\* Queue, storage and active alerts agree at all times, also when an exception leaves
\* an alert in some of them only.
THEOREM SinksAlwaysAgree == Spec => []SinksAgree
<1>1. Init => SinksAgree
  BY DEF Init, SinksAgree
<1>2. CooldownInv /\ CooldownInv' /\ SinksAgree /\ [Next]_vars => SinksAgree'
  BY StepSinks DEF CooldownInv
<1> QED  BY CooldownAlways, <1>1, <1>2, PTL DEF Spec

-----------------------------------------------------------------------------
(* Nothing else is silenced.                                               *)

\* An alert as the log keeps it.
LogRecords == [sample : Nat, kind : KindSet]

\* A crossbow that has a time in last_alert_time_ has a recorded alert of that time.
LastAlertWasRecorded ==
    \A c \in Crossbows : last_alert[c] # 0 =>
        \E i \in 1..Len(recorded) : /\ CrossbowOf(recorded[i]) = c
                                    /\ TimeOf(recorded[i]) = last_alert[c]

\* An earlier alert keeps sample n silent.
Silenced(n) ==
    \E i \in 1..Len(recorded) : /\ log[recorded[i]].sample < n
                                /\ CrossbowOf(recorded[i]) = seen[n].crossbow
                                /\ seen[n].time <= TimeOf(recorded[i]) + Cooldown

\* Kind j of the sample at work has been checked and sent.
Passed(j) == Kinds[j] \in Sample.exceeds /\ (j < kind \/ (j = kind /\ pc \in {"store", "record"}))

\* The check at work has sent what it passed, or the crossbow's last alert keeps it silent.
SentSoFar ==
    pc # "loop" =>
        \/ /\ now - last_time > Cooldown
           /\ \A j \in 1..3 : Kinds[j] \in KindsSent(Len(seen)) <=> Passed(j)
        \/ /\ ~(now - last_time > Cooldown) /\ pc = "check"
           /\ KindsSent(Len(seen)) = {} /\ Silenced(Len(seen))

\* NoMissedAlarm by its parts: the check of sample n has ended, and how.
Due(n) == /\ n \notin faulted /\ (n < Len(seen) \/ pc = "loop")
          /\ seen[n].crossbow \in KnownCrossbows
Complete(n) == KindsSent(n) = seen[n].exceeds \/ (KindsSent(n) = {} /\ Silenced(n))
AllComplete == \A n \in 1..Len(seen) : Due(n) => Complete(n)

CompleteInv == LastAlertWasRecorded /\ SentSoFar /\ AllComplete

\* The three kinds are different, and there is no other.
LEMMA KindFacts ==
  /\ Len(Kinds) = 3
  /\ KindSet = {Kinds[1], Kinds[2], Kinds[3]}
  /\ \A j, k \in 1..3 : Kinds[j] = Kinds[k] => j = k
<1>1. /\ Kinds[1] = "ARM_CRACK_RISK" /\ Kinds[2] = "EXCESSIVE_TENSION"
      /\ Kinds[3] = "HIGH_TEMPERATURE" /\ Len(Kinds) = 3
  BY DEF Kinds
<1>2. \A j \in 1..3 : j = 1 \/ j = 2 \/ j = 3
  OBVIOUS
<1> QED  BY <1>1, <1>2 DEF KindSet

\* NoMissedAlarm is AllComplete.
LEMMA MissedIs ==
  ASSUME RangeOK, AllComplete
  PROVE  NoMissedAlarm
<1>1. DOMAIN seen = 1..Len(seen) /\ DOMAIN recorded = 1..Len(recorded)
  BY Domains
<1> SUFFICES ASSUME NEW n \in 1..Len(seen), n \notin faulted, Checked(n),
                    seen[n].crossbow \in KnownCrossbows
             PROVE  \/ KindsSent(n) = seen[n].exceeds
                    \/ /\ KindsSent(n) = {}
                       /\ \E i \in DOMAIN recorded :
                             /\ log[recorded[i]].sample < n
                             /\ CrossbowOf(recorded[i]) = seen[n].crossbow
                             /\ seen[n].time <= TimeOf(recorded[i]) + Cooldown
  BY <1>1 DEF NoMissedAlarm
<1>2. Complete(n)
  BY DEF AllComplete, Due, Checked
<1> QED  BY <1>1, <1>2 DEF Complete, Silenced

\* What was sent for a sample is the kinds of its alerts in the log.
LEMMA SentIs ==
  ASSUME RangeOK, NEW n
  PROVE  /\ KindsSent(n) \subseteq KindSet
         /\ \A k : k \in KindsSent(n) <=> \E a \in 1..Len(log) : log[a].sample = n /\ log[a].kind = k
<1>1. DOMAIN log = 1..Len(log)
  BY Domains
<1>2. \A a \in 1..Len(log) : log[a].kind \in KindSet
  <2> SUFFICES ASSUME NEW a \in 1..Len(log)
               PROVE  log[a].kind \in KindSet
    OBVIOUS
  <2>1. log \in Seq(LogRecords)
    BY DEF RangeOK, LogRecords
  <2>2. log[a] \in LogRecords
    BY <2>1
  <2> QED  BY <2>2 DEF LogRecords
<1>3. \A k : k \in KindsSent(n) <=> \E a \in 1..Len(log) : log[a].sample = n /\ log[a].kind = k
  BY <1>1 DEF KindsSent
<1> QED  BY <1>2, <1>3

\* No action but PushAlert changes what was sent.
LEMMA SentStays ==
  ASSUME RangeOK, [Next]_vars, ~PushAlert, NEW n
  PROVE  KindsSent(n)' = KindsSent(n)
<1>1. ASSUME NEW c \in Crossbows, NEW e \in Readings,
             TakeUnknown(c, e) \/ \E t \in Times : Take(c, e, t)
      PROVE  log' = log
  BY <1>1 DEF TakeUnknown, Take
<1>2. ASSUME Idle \/ Quiet \/ StoreAlert \/ RecordAlert \/ Throw \/ UNCHANGED vars
      PROVE  log' = log
  BY <1>2 DEF Idle, Quiet, StoreAlert, RecordAlert, Throw, vars, historyVars
<1>3. log' = log
  BY <1>1, <1>2 DEF Next
<1> QED  BY <1>3 DEF KindsSent

\* PushAlert adds a kind of the sample at work.
LEMMA SentGrows ==
  ASSUME RangeOK, RangeOK', PushAlert, NEW n, NEW k
  PROVE  k \in KindsSent(n)' <=> k \in KindsSent(n) \/ (n = Len(seen) /\ k = Kinds[kind])
<1>1. log' = Append(log, [sample |-> Len(seen), kind |-> Kinds[kind]])
  BY DEF PushAlert
<1>2. /\ Len(log) \in Nat /\ Len(log') = Len(log) + 1
      /\ log'[Len(log) + 1] = [sample |-> Len(seen), kind |-> Kinds[kind]]
      /\ \A a \in 1..Len(log) : log'[a] = log[a]
  BY <1>1 DEF RangeOK
<1>3. \A a : a \in 1..(Len(log) + 1) <=> a \in 1..Len(log) \/ a = Len(log) + 1
  BY <1>2
<1>4. k \in KindsSent(n)' <=> \E a \in 1..Len(log') : log'[a].sample = n /\ log'[a].kind = k
  <2>1. DOMAIN log' = 1..Len(log')
    BY DEF RangeOK
  <2> QED  BY <2>1 DEF KindsSent
<1>5. k \in KindsSent(n) <=> \E a \in 1..Len(log) : log[a].sample = n /\ log[a].kind = k
  BY SentIs
<1>6. /\ [sample |-> Len(seen), kind |-> Kinds[kind]].sample = Len(seen)
      /\ [sample |-> Len(seen), kind |-> Kinds[kind]].kind = Kinds[kind]
  OBVIOUS
<1>7. /\ log'[Len(log) + 1].sample = Len(seen) /\ log'[Len(log) + 1].kind = Kinds[kind]
      /\ Len(log) + 1 \in 1..Len(log')
  BY <1>2, <1>3, <1>6
<1>8. CASE k \in KindsSent(n)'
  <2>1. PICK a \in 1..Len(log') : log'[a].sample = n /\ log'[a].kind = k
    BY <1>4, <1>8
  <2>2. CASE a \in 1..Len(log)
    <3>1. log'[a] = log[a]
      BY <1>2, <2>2
    <3>2. log[a].sample = n /\ log[a].kind = k
      BY <2>1, <3>1
    <3> QED  BY <1>5, <1>8, <2>2, <3>2
  <2>3. CASE a = Len(log) + 1
    <3>1. log'[a].sample = Len(seen) /\ log'[a].kind = Kinds[kind]
      BY <1>7, <2>3
    <3> QED  BY <1>8, <2>1, <3>1
  <2> QED  BY <1>2, <1>3, <2>1, <2>2, <2>3
<1>9. CASE k \in KindsSent(n)
  <2>1. PICK a \in 1..Len(log) : log[a].sample = n /\ log[a].kind = k
    BY <1>5, <1>9
  <2>2. a \in 1..Len(log') /\ log'[a] = log[a]
    BY <1>2, <1>3
  <2> QED  BY <1>4, <1>9, <2>1, <2>2
<1>10. CASE n = Len(seen) /\ k = Kinds[kind]
  BY <1>4, <1>7, <1>10
<1> QED  BY <1>8, <1>9, <1>10

\* Recorded alerts stay recorded, with what is said of them.
LEMMA RecordedStay ==
  ASSUME RangeOK, [Next]_vars, NEW i \in 1..Len(recorded), NEW a, a = recorded[i]
  PROVE  /\ i \in 1..Len(recorded') /\ recorded'[i] = a
         /\ a \in 1..Len(log) /\ log'[a].sample = log[a].sample
         /\ CrossbowOf(a)' = CrossbowOf(a) /\ TimeOf(a)' = TimeOf(a)
<1>1. recorded' = recorded \/ recorded' = Append(recorded, Len(log))
  <2>1. ASSUME NEW c \in Crossbows, NEW e \in Readings,
               TakeUnknown(c, e) \/ \E t \in Times : Take(c, e, t)
        PROVE  recorded' = recorded
    BY <2>1 DEF TakeUnknown, Take
  <2>2. CASE Idle \/ Quiet \/ PushAlert \/ StoreAlert \/ Throw \/ UNCHANGED vars
    BY <2>2 DEF Idle, Quiet, PushAlert, StoreAlert, Throw, vars, historyVars
  <2>3. CASE RecordAlert
    BY <2>3 DEF RecordAlert, Alert
  <2> QED  BY <2>1, <2>2, <2>3 DEF Next
<1>2. a \in 1..Len(log) /\ recorded \in Seq(Nat) /\ Len(log) \in Nat
  BY Domains DEF RangeOK
<1>3. i \in 1..Len(recorded') /\ recorded'[i] = a
  BY <1>1, <1>2
<1> QED  BY <1>2, <1>3, AlertsStay

\* A sample that is silenced stays so.
LEMMA SilencedStays ==
  ASSUME RangeOK, [Next]_vars, NEW n \in 1..Len(seen), Silenced(n)
  PROVE  Silenced(n)'
<1>1. PICK i \in 1..Len(recorded) :
         /\ log[recorded[i]].sample < n
         /\ CrossbowOf(recorded[i]) = seen[n].crossbow
         /\ seen[n].time <= TimeOf(recorded[i]) + Cooldown
  BY DEF Silenced
<1>2. PICK a : a = recorded[i]
  OBVIOUS
<1>3. /\ i \in 1..Len(recorded') /\ recorded'[i] = a
      /\ log'[a].sample = log[a].sample
      /\ CrossbowOf(a)' = CrossbowOf(a) /\ TimeOf(a)' = TimeOf(a)
  BY <1>2, RecordedStay
<1>4. seen'[n] = seen[n]
  BY StepGrows
<1>5. /\ log'[a].sample < n /\ CrossbowOf(a)' = seen'[n].crossbow
      /\ seen'[n].time <= TimeOf(a)' + Cooldown
  BY <1>1, <1>2, <1>3, <1>4
<1> QED  BY <1>3, <1>5 DEF Silenced, CrossbowOf, TimeOf, SampleOf

\* The alert that becomes active is the recorded one of its crossbow's last_alert_time_.
LEMMA StepLastRecorded ==
  ASSUME CooldownInv, LastAlertWasRecorded, [Next]_vars
  PROVE  LastAlertWasRecorded'
<1> USE DEF CooldownInv
<1> SUFFICES ASSUME NEW c \in Crossbows, last_alert'[c] # 0
             PROVE  \E i \in 1..Len(recorded') : \E a : /\ a = recorded'[i]
                                                        /\ CrossbowOf(a)' = c
                                                        /\ TimeOf(a)' = last_alert'[c]
  BY DEF LastAlertWasRecorded, CrossbowOf, TimeOf, SampleOf
<1>1. ASSUME last_alert[c] = last_alert'[c]
      PROVE  \E i \in 1..Len(recorded') : \E a : /\ a = recorded'[i]
                                                 /\ CrossbowOf(a)' = c
                                                 /\ TimeOf(a)' = last_alert'[c]
  <2>1. PICK i \in 1..Len(recorded) : /\ CrossbowOf(recorded[i]) = c
                                      /\ TimeOf(recorded[i]) = last_alert[c]
    BY <1>1 DEF LastAlertWasRecorded
  <2>2. PICK a : a = recorded[i]
    OBVIOUS
  <2>3. /\ i \in 1..Len(recorded') /\ recorded'[i] = a
        /\ CrossbowOf(a)' = CrossbowOf(a) /\ TimeOf(a)' = TimeOf(a)
    BY <2>2, RecordedStay
  <2> QED  BY <1>1, <2>1, <2>2, <2>3
<1>2. CASE RecordAlert
  <2>1. /\ recorded' = Append(recorded, Len(log))
        /\ last_alert' = [last_alert EXCEPT ![seen[Len(seen)].crossbow] = now]
        /\ pc = "record"
    BY <1>2 DEF RecordAlert, Alert, Sample
  <2>2. CASE c # seen[Len(seen)].crossbow
    BY <1>1, <2>1, <2>2 DEF RangeOK
  <2>3. CASE c = seen[Len(seen)].crossbow
    <3>1. PICK a : a = Len(log)
      OBVIOUS
    <3>2. a \in 1..Len(log) /\ TimeOf(a) = now /\ CrossbowOf(a) = c
      BY <2>1, <2>3, <3>1, LastAlertFacts
    <3>3. TimeOf(a)' = now /\ CrossbowOf(a)' = c
      BY <3>2, AlertsStay
    <3>4. last_alert'[c] = now
      BY <2>1, <2>3 DEF RangeOK
    <3>5. Len(recorded) + 1 \in 1..Len(recorded') /\ recorded'[Len(recorded) + 1] = a
      BY <2>1, <3>1, Domains DEF RangeOK
    <3> QED  BY <3>3, <3>4, <3>5
  <2> QED  BY <2>2, <2>3
<1>3. ASSUME NEW d \in Crossbows, NEW e \in Readings,
             TakeUnknown(d, e) \/ \E t \in Times : Take(d, e, t)
      PROVE  last_alert' = last_alert
  BY <1>3 DEF TakeUnknown, Take, sinkVars
<1>4. ASSUME Idle \/ Quiet \/ PushAlert \/ StoreAlert \/ Throw \/ UNCHANGED vars
      PROVE  last_alert' = last_alert
  BY <1>4 DEF Idle, Quiet, PushAlert, StoreAlert, Throw, vars, sinkVars
<1>5. RecordAlert \/ last_alert' = last_alert
  BY <1>3, <1>4 DEF Next
<1> QED  BY <1>1, <1>2, <1>5

\* A check begins with nothing sent, and an alert that keeps it silent was recorded.
LEMMA TakeSentSoFar ==
  ASSUME CooldownInv, CooldownInv', LastAlertWasRecorded, [Next]_vars,
         NEW c \in Crossbows, NEW e \in Readings, NEW t \in Times, Take(c, e, t)
  PROVE  SentSoFar'
<1> USE DEF CooldownInv
<1> DEFINE n == Len(seen) + 1
<1>1. /\ seen' = Append(seen, [crossbow |-> c, exceeds |-> e, time |-> t])
      /\ pc' = "check" /\ now' = t /\ last_time' = last_alert[c] /\ kind' = 1
      /\ UNCHANGED <<log, recorded>> /\ t \in Nat /\ t > Cooldown
  BY Bounds DEF Take, sinkVars
<1>2. /\ Len(seen) \in Nat /\ Len(seen') = n
      /\ seen'[n] = [crossbow |-> c, exceeds |-> e, time |-> t]
      /\ last_alert[c] \in Nat /\ Cooldown \in Nat
  BY <1>1, Bounds, Domains DEF RangeOK
<1>3. PICK m : m = n
  OBVIOUS
<1>4. \A k : k \notin KindsSent(m)'
  <2>1. DOMAIN log = 1..Len(log) /\ \A a \in 1..Len(log) : log[a].sample \in 1..Len(seen)
    BY Domains
  <2>2. m \notin 1..Len(seen)
    BY <1>2, <1>3
  <2> QED  BY <1>1, <2>1, <2>2 DEF KindsSent
<1>5. CASE t - last_alert[c] > Cooldown
  <2>1. \A j \in 1..3 : ~Passed(j)'
    BY <1>1 DEF Passed
  <2>2. \A j \in 1..3 : Kinds[j] \in KindsSent(m)' <=> Passed(j)'
    BY <1>4, <2>1
  <2>3. m = Len(seen')
    BY <1>2, <1>3
  <2> QED  BY <1>1, <1>5, <2>2, <2>3 DEF SentSoFar, KindsSent
<1>6. CASE ~(t - last_alert[c] > Cooldown)
  <2>1. last_alert[c] # 0 /\ t <= last_alert[c] + Cooldown
    BY <1>1, <1>2, <1>6
  <2>2. PICK i \in 1..Len(recorded) : /\ CrossbowOf(recorded[i]) = c
                                      /\ TimeOf(recorded[i]) = last_alert[c]
    BY <2>1 DEF LastAlertWasRecorded
  <2>3. PICK a : a = recorded[i]
    OBVIOUS
  <2>4. /\ i \in 1..Len(recorded') /\ recorded'[i] = a /\ a \in 1..Len(log)
        /\ log'[a].sample = log[a].sample
        /\ CrossbowOf(a)' = CrossbowOf(a) /\ TimeOf(a)' = TimeOf(a)
    BY <2>3, RecordedStay
  <2>5. log[a].sample < m
    BY <1>2, <1>3, <2>4, Domains
  <2>6. seen'[m].crossbow = c /\ seen'[m].time = t
    BY <1>2, <1>3
  <2>7. Silenced(m)'
    BY <2>1, <2>2, <2>3, <2>4, <2>5, <2>6 DEF Silenced, CrossbowOf, TimeOf, SampleOf
  <2>8. KindsSent(m)' = {}
    BY <1>4
  <2>9. m = Len(seen')
    BY <1>2, <1>3
  <2> QED  BY <1>1, <1>6, <2>7, <2>8, <2>9 DEF SentSoFar, KindsSent, Silenced
<1> QED  BY <1>5, <1>6

\* The end of one of the three checks, with or without an alert.
LEMMA CheckSentSoFar ==
  ASSUME CooldownInv, SentSoFar, [Next]_vars, NextKind, NEW n, n = Len(seen),
         UNCHANGED <<seen, now, last_time, log>>, pc # "loop",
         pc = "check" => ~Fires, pc = "store" => FALSE
  PROVE  /\ SentSoFar'
         /\ pc' = "loop" => Complete(n)
<1> USE DEF CooldownInv
<1>1. kind \in 1..3 /\ Len(Kinds) = 3 /\ \A j, k \in 1..3 : Kinds[j] = Kinds[k] => j = k
  BY KindFacts DEF RangeOK
<1>2. /\ kind < 3 => kind' = kind + 1 /\ pc' = "check"
      /\ kind = 3 => pc' = "loop"
      /\ pc \in {"check", "record"}
  BY <1>1 DEF NextKind, RangeOK
<1>3. KindsSent(n)' = KindsSent(n)
  BY DEF KindsSent
<1>4. CASE now - last_time > Cooldown
  <2>1. \A j \in 1..3 : Kinds[j] \in KindsSent(n) <=> Passed(j)
    BY <1>4 DEF SentSoFar
  <2>2. \A j \in 1..3 : Passed(j) <=> Kinds[j] \in Sample.exceeds /\ j <= kind
    <3>1. CASE pc = "record"
      BY <1>1, <3>1 DEF Passed
    <3>2. CASE pc = "check"
      <4>1. Kinds[kind] \notin Sample.exceeds
        BY <1>4, <3>2 DEF Fires
      <4> QED  BY <1>1, <3>2, <4>1 DEF Passed
    <3> QED  BY <1>2, <3>1, <3>2
  <2>3. CASE kind < 3
    <3>1. kind' = kind + 1 /\ pc' = "check"
      BY <1>2, <2>3
    <3>2. \A j \in 1..3 : Passed(j)' <=> Kinds[j] \in Sample.exceeds /\ j < kind + 1
      BY <3>1 DEF Passed, Sample
    <3>3. \A j \in 1..3 : Kinds[j] \in KindsSent(n)' <=> Passed(j)'
      BY <1>1, <1>3, <2>1, <2>2, <3>2
    <3> QED  BY <1>4, <3>1, <3>3 DEF SentSoFar, KindsSent
  <2>4. CASE kind = 3
    <3>1. \A j \in 1..3 : Kinds[j] \in KindsSent(n) <=> Kinds[j] \in Sample.exceeds
      BY <2>1, <2>2, <2>4
    <3>2. Sample.exceeds \subseteq KindSet
      <4>1. seen \in Seq(SeenSamples) /\ Len(seen) \in 1..Len(seen)
        BY Domains DEF RangeOK, AtWork
      <4>2. Sample \in SeenSamples
        BY <4>1 DEF Sample
      <4> QED  BY <4>2 DEF SeenSamples
    <3>3. KindsSent(n) = Sample.exceeds
      <4>1. \A k \in KindSet : \E j \in 1..3 : k = Kinds[j]
        BY KindFacts
      <4>2. \A k \in KindSet : k \in KindsSent(n) <=> k \in Sample.exceeds
        BY <3>1, <4>1
      <4>3. KindsSent(n) \subseteq KindSet
        BY SentIs
      <4> QED  BY <3>2, <4>2, <4>3
    <3>4. Complete(n)
      BY <3>3 DEF Complete, Sample
    <3> QED  BY <1>2, <2>4, <3>4 DEF SentSoFar
  <2> QED  BY <1>1, <2>3, <2>4
<1>5. CASE ~(now - last_time > Cooldown)
  <2>1. pc = "check" /\ KindsSent(n) = {} /\ Silenced(n)
    BY <1>5 DEF SentSoFar
  <2>2. n \in 1..Len(seen)
    BY Domains DEF AtWork
  <2>3. Silenced(n)'
    BY <2>1, <2>2, SilencedStays
  <2>4. SentSoFar'
    BY <1>2, <1>3, <1>5, <2>1, <2>3, NextKindRange DEF SentSoFar, KindsSent, Silenced
  <2>5. Complete(n)
    BY <2>1 DEF Complete
  <2> QED  BY <2>4, <2>5
<1> QED  BY <1>4, <1>5

\* Each action keeps what the check at work has sent in step with what it passed.
LEMMA StepSentSoFar ==
  ASSUME CooldownInv, CooldownInv', LastAlertWasRecorded, SentSoFar, [Next]_vars
  PROVE  SentSoFar'
<1> USE DEF CooldownInv
<1>0. PICK n : n = Len(seen)
  OBVIOUS
<1>1. ASSUME NEW c \in Crossbows, NEW e \in Readings, NEW t \in Times, Take(c, e, t)
      PROVE  SentSoFar'
  BY <1>1, TakeSentSoFar
<1>2. ASSUME NEW c \in Crossbows, NEW e \in Readings, TakeUnknown(c, e)
      PROVE  SentSoFar'
  BY <1>2 DEF TakeUnknown, checkVars, SentSoFar
<1>3. CASE Quiet
  <2>1. /\ UNCHANGED <<seen, now, last_time, log>> /\ NextKind /\ pc = "check" /\ ~Fires
    BY <1>3 DEF Quiet, historyVars
  <2> QED  BY <1>0, <2>1, CheckSentSoFar
<1>4. CASE RecordAlert
  <2>1. /\ UNCHANGED <<seen, now, last_time, log>> /\ NextKind /\ pc = "record"
    BY <1>4 DEF RecordAlert
  <2> QED  BY <1>0, <2>1, CheckSentSoFar
<1>5. CASE PushAlert
  <2>1. /\ pc = "check" /\ now - last_time > Cooldown /\ pc' = "store"
        /\ Kinds[kind] \in Sample.exceeds
        /\ UNCHANGED <<now, last_time, kind, seen>>
    BY <1>5 DEF PushAlert, Fires
  <2>2. \A j \in 1..3 : Kinds[j] \in KindsSent(n) <=> Kinds[j] \in Sample.exceeds /\ j < kind
    BY <1>0, <2>1 DEF SentSoFar, Passed
  <2>3. \A j \in 1..3 : Kinds[j] \in KindsSent(n)' <=> Kinds[j] \in KindsSent(n) \/ j = kind
    <3>1. kind \in 1..3 /\ \A j, k \in 1..3 : Kinds[j] = Kinds[k] => j = k
      BY KindFacts DEF RangeOK
    <3>2. \A k : k \in KindsSent(n)' <=> k \in KindsSent(n) \/ k = Kinds[kind]
      BY <1>0, <1>5, SentGrows
    <3> QED  BY <3>1, <3>2
  <2>4. \A j \in 1..3 : Passed(j)' <=> Kinds[j] \in Sample.exceeds /\ (j < kind \/ j = kind)
    BY <2>1 DEF Passed, Sample
  <2>5. \A j \in 1..3 : Kinds[j] \in KindsSent(n)' <=> Passed(j)'
    BY <2>1, <2>2, <2>3, <2>4
  <2>6. n = Len(seen')
    BY <1>0, <2>1
  <2> QED  BY <2>1, <2>5, <2>6 DEF SentSoFar, KindsSent
<1>6. CASE StoreAlert
  <2>1. /\ pc = "store" /\ pc' = "record" /\ UNCHANGED <<now, last_time, kind, seen, log>>
    BY <1>6 DEF StoreAlert
  <2>2. /\ now - last_time > Cooldown
        /\ \A j \in 1..3 : Kinds[j] \in KindsSent(n) <=> Passed(j)
    BY <1>0, <2>1 DEF SentSoFar
  <2>3. \A j \in 1..3 : Passed(j)' <=> Passed(j)
    BY <2>1 DEF Passed, Sample
  <2>4. KindsSent(n)' = KindsSent(n) /\ n = Len(seen')
    BY <1>0, <2>1 DEF KindsSent
  <2>5. \A j \in 1..3 : Kinds[j] \in KindsSent(n)' <=> Passed(j)'
    BY <2>2, <2>3, <2>4
  <2> QED  BY <2>1, <2>2, <2>4, <2>5 DEF SentSoFar, KindsSent
<1>7. CASE Throw
  BY <1>7 DEF Throw, SentSoFar
<1>8. CASE Idle \/ UNCHANGED vars
  <2>1. UNCHANGED <<pc, now, last_time, kind, seen, log, recorded>>
    BY <1>8 DEF Idle, vars, checkVars, historyVars
  <2> QED  BY <2>1 DEF SentSoFar, KindsSent, Passed, Sample, Silenced, CrossbowOf, TimeOf, SampleOf
<1> QED  BY <1>1, <1>2, <1>3, <1>4, <1>5, <1>6, <1>7, <1>8 DEF Next

\* A sample whose check has ended stays complete, and the one whose check ends is.
LEMMA StepComplete ==
  ASSUME CooldownInv, SentSoFar, AllComplete, [Next]_vars
  PROVE  AllComplete'
<1> USE DEF CooldownInv
<1> SUFFICES ASSUME NEW n \in 1..Len(seen'), Due(n)'
             PROVE  Complete(n)'
  BY DEF AllComplete
<1>1. /\ Len(seen) \in Nat /\ Len(seen') \in Nat /\ Len(seen) <= Len(seen')
      /\ \A m \in 1..Len(seen) : seen'[m] = seen[m]
  <2>1. Len(seen') = Len(seen) \/ Len(seen') = Len(seen) + 1
    <3>1. ASSUME NEW c \in Crossbows, NEW e \in Readings,
                 TakeUnknown(c, e) \/ \E t \in Times : Take(c, e, t)
          PROVE  Len(seen') = Len(seen) + 1
      <4>1. \E x : seen' = Append(seen, x)
        BY <3>1 DEF TakeUnknown, Take
      <4> QED  BY <4>1 DEF RangeOK
    <3>2. ASSUME Idle \/ Quiet \/ PushAlert \/ StoreAlert \/ RecordAlert \/ Throw \/ UNCHANGED vars
          PROVE  seen' = seen
      BY <3>2 DEF Idle, Quiet, PushAlert, StoreAlert, RecordAlert, Throw, vars, historyVars
    <3> QED  BY <3>1, <3>2 DEF Next
  <2> QED  BY <2>1, StepGrows, Domains
<1>2. /\ n \notin faulted' /\ (n < Len(seen') \/ pc' = "loop")
      /\ seen'[n].crossbow \in KnownCrossbows
  BY DEF Due
<1>3. ASSUME n \in 1..Len(seen), Complete(n), ~PushAlert \/ n # Len(seen)
      PROVE  Complete(n)'
  <2>1. KindsSent(n)' = KindsSent(n)
    <3>1. CASE PushAlert
      <4>1. \A k : k \in KindsSent(n)' <=> k \in KindsSent(n)
        BY <1>3, <3>1, SentGrows, StepAtWork
      <4> QED  BY <4>1
    <3>2. CASE ~PushAlert
      BY <3>2, SentStays
    <3> QED  BY <3>1, <3>2
  <2>2. Silenced(n) => Silenced(n)'
    BY <1>3, SilencedStays
  <2>3. seen'[n] = seen[n]
    BY <1>1, <1>3
  <2> QED  BY <1>3, <2>1, <2>2, <2>3 DEF Complete
<1>4. ASSUME NEW c \in Crossbows, NEW e \in Readings,
             TakeUnknown(c, e) \/ \E t \in Times : Take(c, e, t)
      PROVE  Complete(n)'
  <2>1. /\ pc = "loop" /\ log' = log /\ faulted' = faulted
        /\ \E t : seen' = Append(seen, [crossbow |-> c, exceeds |-> e, time |-> t])
        /\ c \notin KnownCrossbows \/ pc' = "check"
    BY <1>4 DEF TakeUnknown, Take
  <2>2. Len(seen') = Len(seen) + 1 /\ seen'[Len(seen) + 1].crossbow = c
    BY <1>1, <2>1 DEF RangeOK
  <2>3. n # Len(seen) + 1
    BY <1>2, <2>1, <2>2
  <2>4. n \in 1..Len(seen)
    BY <1>1, <2>2, <2>3
  <2>5. Complete(n)
    BY <1>1, <1>2, <2>1, <2>4 DEF AllComplete, Due
  <2>6. ~PushAlert
    BY <2>1 DEF PushAlert
  <2> QED  BY <1>3, <2>4, <2>5, <2>6
<1>5. CASE PushAlert
  <2>1. pc' = "store" /\ seen' = seen /\ faulted' = faulted
    BY <1>5 DEF PushAlert
  <2>2. n \in 1..Len(seen) /\ n < Len(seen)
    BY <1>2, <2>1
  <2>3. Complete(n)
    BY <1>1, <1>2, <2>1, <2>2 DEF AllComplete, Due
  <2> QED  BY <1>1, <1>3, <2>2, <2>3
<1>6. ASSUME ~PushAlert, seen' = seen, faulted' = faulted,
             n = Len(seen) /\ pc # "loop" => Complete(n)
      PROVE  Complete(n)'
  <2>1. n \in 1..Len(seen)
    BY <1>6
  <2>2. CASE n = Len(seen) /\ pc # "loop"
    BY <1>3, <1>6, <2>1, <2>2
  <2>3. CASE n < Len(seen) \/ pc = "loop"
    <3>1. Complete(n)
      BY <1>2, <1>6, <2>1, <2>3 DEF AllComplete, Due
    <3> QED  BY <1>3, <1>6, <2>1, <3>1
  <2> QED  BY <1>1, <2>1, <2>2, <2>3
<1>7. CASE Quiet \/ RecordAlert
  <2>1. /\ UNCHANGED <<seen, now, last_time, log, faulted>> /\ NextKind /\ ~PushAlert
        /\ (pc = "check" /\ ~Fires) \/ pc = "record"
    BY <1>7 DEF Quiet, RecordAlert, PushAlert, historyVars
  <2>2. n = Len(seen) /\ pc # "loop" => Complete(n)
    <3> SUFFICES ASSUME n = Len(seen)
                 PROVE  Complete(n)
      OBVIOUS
    <3>1. pc' = "loop"
      BY <1>1, <1>2, <2>1
    <3> QED  BY <2>1, <3>1, CheckSentSoFar
  <2> QED  BY <1>6, <2>1, <2>2
<1>8. CASE Throw
  <2>1. faulted' = faulted \cup {Len(seen)} /\ seen' = seen /\ ~PushAlert /\ pc # "loop"
    <3>1. pc # "check" \/ ~(pc' = "store")
      BY <1>8 DEF Throw
    <3> QED  BY <1>8, <3>1 DEF Throw, PushAlert
  <2>2. n \in 1..Len(seen) /\ n # Len(seen) /\ n \notin faulted
    BY <1>2, <2>1
  <2>3. n < Len(seen)
    BY <1>1, <2>2
  <2>4. Complete(n)
    BY <1>2, <2>1, <2>2, <2>3 DEF AllComplete, Due
  <2> QED  BY <1>3, <2>1, <2>2, <2>4
<1>9. CASE StoreAlert \/ Idle \/ UNCHANGED vars
  <2>1. seen' = seen /\ faulted' = faulted /\ ~PushAlert
    BY <1>9 DEF StoreAlert, Idle, vars, checkVars, historyVars, PushAlert
  <2>2. n = Len(seen) => pc = "loop"
    <3>1. pc' = pc \/ pc' = "record"
      BY <1>9 DEF StoreAlert, Idle, vars, checkVars
    <3>2. n = Len(seen) => pc' = "loop"
      BY <1>1, <1>2, <2>1
    <3> QED  BY <3>1, <3>2
  <2> QED  BY <1>6, <2>1, <2>2
<1> QED  BY <1>4, <1>5, <1>7, <1>8, <1>9 DEF Next

\* A sample that is checked without an exception has raised all of its alerts, or none
\* and then because an earlier one of the crossbow is at most Cooldown seconds old.
THEOREM NoAlarmIsMissed == Spec => []NoMissedAlarm
<1>1. Init => CompleteInv
  BY DEF Init, CompleteInv, LastAlertWasRecorded, SentSoFar, AllComplete
<1>2. CooldownInv /\ CooldownInv' /\ CompleteInv /\ [Next]_vars => CompleteInv'
  BY StepLastRecorded, StepSentSoFar, StepComplete DEF CompleteInv
<1>3. CooldownInv /\ CompleteInv => NoMissedAlarm
  BY MissedIs DEF CooldownInv, CompleteInv
<1> QED  BY CooldownAlways, <1>1, <1>2, <1>3, PTL DEF Spec

-----------------------------------------------------------------------------
(* The trimmed lists.                                                      *)

Deque == INSTANCE BoundedDequeProofs WITH Capacity <- ActiveLimit

\* q lists, in rising order, the latest of S as insert_alert() trims them.
StoreHolds(q, S) ==
    /\ Len(q) <= StoreLimit
    /\ Len(q) >= AtMost(Cardinality(S), StoreLimit - StoreTrim + 1)
    /\ \A i \in 1..Len(q) : q[i] \in S
    /\ \A i, j \in 1..Len(q) : i < j => q[i] < q[j]
    /\ \A a \in S : q # <<>> /\ a >= q[1] => \E i \in 1..Len(q) : q[i] = a

\* An alert on its way is later than all that came to the sink it goes to next.
Fresh ==
    /\ pc \in {"store", "record"} => \A i \in 1..Len(recorded) : recorded[i] < Len(log)
    /\ pc = "store" => \A a \in inserted : a < Len(log)

ListsInv ==
    /\ active \in [Crossbows -> Seq(Nat)]
    /\ stored \in Seq(Nat)
    /\ Fresh
    /\ ActiveIsLatest
    /\ StoreHolds(stored, inserted)

\* The limits in the form that arithmetic needs.
LEMMA Limits ==
  /\ ActiveLimit \in Nat \ {0} /\ StoreLimit \in Nat \ {0} /\ StoreTrim \in Nat \ {0}
  /\ StoreTrim <= StoreLimit
BY AlarmAssumption DEF AlarmAssumption

\* push_back() and erase() from the front are the push to a bounded deque.
LEMMA ShortenIsEnqueue ==
  ASSUME NEW q \in Seq(Nat), Len(q) <= ActiveLimit, NEW n \in Nat
  PROVE  Shorten(Append(q, n)) = Deque!Enqueue(q, n)
<1> DEFINE a == Append(q, n)
           l == SubSeq(a, 2, Len(a))
           t == Tail(a)
<1>1. /\ a \in Seq(Nat) /\ Len(a) = Len(q) + 1 /\ Len(q) \in Nat
  BY AppendProperties
<1>2. ActiveLimit \in Nat \ {0}
  BY Limits
<1>3. Deque!Enqueue(q, n) = IF Len(a) > ActiveLimit THEN t ELSE a
  BY <1>2, Deque!EnqueueMakesRoom, SMTT(60)
<1> HIDE DEF a
<1>4. CASE Len(a) > ActiveLimit
  <2>1. Len(a) - ActiveLimit = 1 /\ a # <<>> /\ Len(a) \in Nat /\ Len(a) >= 2
    BY <1>1, <1>2, <1>4
  <2>2. Shorten(a) = l
    <3>1. Shorten(a) = SubSeq(a, (Len(a) - ActiveLimit) + 1, Len(a))
      BY <1>4 DEF Shorten, EraseFront
    <3>2. (Len(a) - ActiveLimit) + 1 = 2
      BY <2>1
    <3> QED  BY <3>1, <3>2
  <2>3. t \in Seq(Nat) /\ Len(t) = Len(a) - 1 /\ \A i \in 1..Len(t) : t[i] = a[i + 1]
    BY <1>1, <2>1, HeadTailProperties
  <2>4. \A i \in 2..Len(a) : a[i] \in Nat
    BY <1>1
  <2>5. /\ l \in Seq(Nat) /\ Len(l) = Len(a) - 2 + 1
        /\ \A i \in 1..(Len(a) - 2 + 1) : l[i] = a[2 + i - 1]
    BY <2>1, <2>4, SubSeqProperties
  <2> HIDE DEF l, t
  <2>6. Len(l) = Len(t)
    BY <2>1, <2>3, <2>5
  <2>7. ASSUME NEW i \in 1..Len(l)  PROVE l[i] = t[i]
    <3>1. i \in 1..(Len(a) - 2 + 1) /\ 2 + i - 1 = i + 1 /\ i \in 1..Len(t)
      BY <2>1, <2>5, <2>6
    <3>2. l[i] = a[i + 1]
      BY <2>5, <3>1
    <3> QED  BY <2>3, <3>1, <3>2
  <2>8. l = t
    BY <2>3, <2>5, <2>6, <2>7, SeqEqual
  <2> QED  BY <1>3, <1>4, <2>2, <2>8 DEF a
<1>5. CASE ~(Len(a) > ActiveLimit)
  BY <1>3, <1>5 DEF Shorten, a
<1> QED  BY <1>4, <1>5

\* The trimmed vector has the last items of the one before and, behind them, the new one.
LEMMA TrimItems ==
  ASSUME NEW q \in Seq(Nat), Len(q) <= StoreLimit, NEW n \in Nat,
         NEW r, r = TrimStore(Append(q, n))
  PROVE  /\ r \in Seq(Nat) /\ Len(r) \in Nat \ {0} /\ r[Len(r)] = n
         /\ \E d \in Nat :
               /\ \A i \in 1..(Len(r) - 1) : r[i] = q[i + d]
               /\ Len(q) = Len(r) - 1 + d
               /\ \/ d = 0 /\ Len(r) <= StoreLimit
                  \/ d > 0 /\ d = StoreTrim /\ Len(r) = StoreLimit - StoreTrim + 1
<1> DEFINE a == Append(q, n)
<1>1. /\ a \in Seq(Nat) /\ Len(a) = Len(q) + 1 /\ Len(q) \in Nat
      /\ \A i \in 1..Len(q) : a[i] = q[i]
      /\ a[Len(q) + 1] = n
  BY AppendProperties
<1>2. r = IF Len(a) > StoreLimit THEN EraseFront(a, StoreTrim) ELSE a
  BY DEF TrimStore
<1> HIDE DEF a
<1>3. CASE Len(a) > StoreLimit
  <2> DEFINE d == StoreTrim
  <2>1. Len(a) = StoreLimit + 1 /\ d + 1 \in 1..Len(a) /\ d \in Nat \ {0} /\ Len(a) \in Nat
    BY <1>1, <1>3, Limits
  <2>2. r = SubSeq(a, d + 1, Len(a))
    BY <1>2, <1>3 DEF EraseFront
  <2>3. \A i \in (d + 1)..Len(a) : a[i] \in Nat
    BY <1>1, <2>1
  <2> HIDE DEF d
  <2>4. /\ SubSeq(a, d + 1, Len(a)) \in Seq(Nat)
        /\ Len(SubSeq(a, d + 1, Len(a))) = Len(a) - (d + 1) + 1
        /\ \A i \in 1..(Len(a) - (d + 1) + 1) : SubSeq(a, d + 1, Len(a))[i] = a[d + 1 + i - 1]
    BY <2>1, <2>3, SubSeqProperties
  <2>5. /\ r \in Seq(Nat) /\ Len(r) = Len(a) - (d + 1) + 1
        /\ \A i \in 1..(Len(a) - (d + 1) + 1) : r[i] = a[d + 1 + i - 1]
    BY <2>2, <2>4
  <2>6. Len(r) = StoreLimit - d + 1 /\ Len(r) \in Nat \ {0} /\ Len(q) = Len(r) - 1 + d
    BY <1>1, <2>1, <2>5, Limits
  <2>7. \A i \in 1..Len(r) : r[i] = a[i + d]
    <3> TAKE i \in 1..Len(r)
    <3>1. i \in 1..(Len(a) - (d + 1) + 1) /\ d + 1 + i - 1 = i + d
      BY <2>1, <2>5
    <3>2. r[i] = a[d + 1 + i - 1]
      BY <2>5, <3>1
    <3> QED  BY <3>1, <3>2
  <2>8. \A i \in 1..(Len(r) - 1) : r[i] = q[i + d]
    <3> TAKE i \in 1..(Len(r) - 1)
    <3>1. i \in 1..Len(r) /\ i + d \in 1..Len(q)
      BY <2>1, <2>6
    <3> QED  BY <1>1, <2>7, <3>1
  <2>9. r[Len(r)] = n
    <3>1. Len(r) \in 1..Len(r) /\ Len(r) + d = Len(q) + 1
      BY <2>1, <2>6
    <3>2. r[Len(r)] = a[Len(r) + d]
      BY <2>7, <3>1
    <3> QED  BY <1>1, <3>1, <3>2
  <2>10. d \in Nat /\ d > 0 /\ d = StoreTrim /\ Len(r) = StoreLimit - StoreTrim + 1
    BY <2>1, <2>6 DEF d
  <2> QED  BY <2>5, <2>6, <2>8, <2>9, <2>10
<1>4. CASE ~(Len(a) > StoreLimit)
  <2>1. r = a /\ Len(r) <= StoreLimit /\ Len(r) \in Nat \ {0} /\ Len(q) = Len(r) - 1 + 0
    BY <1>1, <1>2, <1>4, Limits
  <2>2. \A i \in 1..(Len(r) - 1) : r[i] = q[i + 0]
    BY <1>1, <2>1
  <2> QED  BY <1>1, <2>1, <2>2
<1> QED  BY <1>3, <1>4

\* An alert later than all that were inserted joins the storage's latest.
LEMMA TrimHoldsLatest ==
  ASSUME NEW S \in SUBSET Nat, IsFiniteSet(S), NEW q \in Seq(Nat), StoreHolds(q, S),
         NEW n \in Nat, \A m \in S : m < n
  PROVE  /\ TrimStore(Append(q, n)) \in Seq(Nat)
         /\ StoreHolds(TrimStore(Append(q, n)), S \cup {n})
<1> DEFINE r == TrimStore(Append(q, n))
           k == Cardinality(S)
           floor == StoreLimit - StoreTrim + 1
<1>1. Len(q) <= StoreLimit /\ Len(q) \in Nat
  BY DEF StoreHolds
<1>2. PICK d \in Nat :
         /\ \A i \in 1..(Len(r) - 1) : r[i] = q[i + d]
         /\ Len(q) = Len(r) - 1 + d
         /\ \/ d = 0 /\ Len(r) <= StoreLimit
            \/ d > 0 /\ d = StoreTrim /\ Len(r) = floor
  BY <1>1, TrimItems
<1>3. r \in Seq(Nat) /\ Len(r) \in Nat \ {0} /\ r[Len(r)] = n
  BY <1>1, TrimItems
<1> HIDE DEF r
<1>4. k \in Nat /\ Cardinality(S \cup {n}) = k + 1
  <2>1. n \notin S
    OBVIOUS
  <2> QED  BY <2>1, FS_CardinalityType, FS_AddElement
<1>5. floor \in Nat \ {0} /\ floor <= StoreLimit
  BY Limits
<1>6. Len(q) >= AtMost(k, floor)
  BY DEF StoreHolds
<1> HIDE DEF k, floor
<1>7. Len(r) <= StoreLimit
  BY <1>2, <1>5
<1>8. Len(r) >= AtMost(k + 1, floor)
  BY <1>2, <1>3, <1>4, <1>5, <1>6 DEF AtMost
<1>9. \A i \in 1..(Len(r) - 1) : i + d \in 1..Len(q) /\ r[i] = q[i + d] /\ r[i] \in S /\ r[i] < n
  <2> TAKE i \in 1..(Len(r) - 1)
  <2>1. i + d \in 1..Len(q) /\ r[i] = q[i + d]
    BY <1>2, <1>3
  <2> QED  BY <2>1 DEF StoreHolds
<1>10. \A i \in 1..Len(r) : i \in 1..(Len(r) - 1) \/ i = Len(r)
  BY <1>3
<1>11. \A i \in 1..Len(r) : r[i] \in S \cup {n}
  BY <1>3, <1>9, <1>10
<1>12. ASSUME NEW i \in 1..Len(r), NEW j \in 1..Len(r), i < j  PROVE r[i] < r[j]
  <2>1. i \in 1..(Len(r) - 1)
    BY <1>3, <1>12
  <2>2. CASE j = Len(r)
    BY <1>3, <1>9, <2>1, <2>2
  <2>3. CASE j # Len(r)
    <3>1. j \in 1..(Len(r) - 1) /\ i + d < j + d
      BY <1>3, <1>12, <2>3
    <3> QED  BY <1>9, <2>1, <3>1 DEF StoreHolds
  <2> QED  BY <2>2, <2>3
<1>13. ASSUME NEW a \in S \cup {n}, a >= r[1]
       PROVE  \E i \in 1..Len(r) : r[i] = a
  <2>1. CASE a = n
    <3>1. Len(r) \in 1..Len(r)
      BY <1>3
    <3> QED  BY <1>3, <2>1, <3>1
  <2>2. CASE a # n
    <3>1. a \in S /\ a < n /\ a \in Nat
      BY <2>2
    <3>2. 1 \in 1..(Len(r) - 1)
      <4>1. Len(r) # 1
        <5> SUFFICES ASSUME Len(r) = 1 PROVE FALSE
          OBVIOUS
        <5>1. r[1] = n
          BY <1>3
        <5>2. a >= n
          BY <1>13, <5>1
        <5> QED  BY <3>1, <5>2
      <4>2. Len(r) \in Nat \ {0}
        BY <1>3
      <4>3. \A m \in Nat \ {0} : m # 1 => 1 \in 1..(m - 1)
        OBVIOUS
      <4> QED  BY <4>1, <4>2, <4>3, Zenon
    <3>3. a >= q[1 + d] /\ 1 + d \in 1..Len(q)
      BY <1>9, <1>13, <3>2
    <3>4. \A j \in 1..Len(q) : q[j] \in Nat
      OBVIOUS
    <3>5. q # <<>> /\ 1 \in 1..Len(q)
      BY <1>1, <3>3
    <3>6. q[1] <= q[1 + d]
      <4>1. CASE d = 0
        BY <3>4, <3>5, <4>1
      <4>2. CASE d # 0
        <5>1. 1 < 1 + d
          BY <4>2
        <5>2. q[1] < q[1 + d]
          BY <3>3, <3>5, <5>1 DEF StoreHolds
        <5> QED  BY <3>3, <3>4, <3>5, <5>2
      <4> QED  BY <4>1, <4>2
    <3>7. a >= q[1]
      BY <3>1, <3>3, <3>4, <3>5, <3>6
    <3>8. PICK j \in 1..Len(q) : q[j] = a
      BY <3>1, <3>5, <3>7 DEF StoreHolds
    <3>9. ~(j < 1 + d)
      <4>1. j < 1 + d => q[j] < q[1 + d]
        BY <3>3 DEF StoreHolds
      <4> QED  BY <3>3, <3>4, <3>8, <4>1
    <3>10. j - d \in 1..(Len(r) - 1) /\ (j - d) + d = j
      BY <1>1, <1>2, <1>3, <3>9
    <3>11. r[j - d] = a
      BY <1>9, <3>8, <3>10, Zenon
    <3>12. j - d \in 1..Len(r)
      BY <1>3, <3>10
    <3> QED  BY <3>11, <3>12
  <2> QED  BY <2>1, <2>2
<1>14. StoreHolds(r, S \cup {n})
  BY <1>4, <1>7, <1>8, <1>11, <1>12, <1>13 DEF StoreHolds, floor
<1> QED  BY <1>3, <1>14 DEF r

\* The empty lists hold the latest of nothing.
LEMMA InitLists == Init => ListsInv
<1> SUFFICES ASSUME Init PROVE ListsInv
  OBVIOUS
<1>1. /\ active = [c \in Crossbows |-> <<>>] /\ stored = <<>> /\ recorded = <<>> /\ inserted = {}
      /\ pc = "loop"
  BY DEF Init
<1>2. \A c \in Crossbows : RecordedOf(c) = {}
  BY <1>1 DEF RecordedOf
<1>3. Shown!HoldsLatest(<<>>, {})
  BY Limits DEF Shown!HoldsLatest
<1>4. ActiveIsLatest
  BY <1>1, <1>2, <1>3 DEF ActiveIsLatest
<1>5. StoreHolds(<<>>, {})
  <2>1. Cardinality({}) = 0
    BY FS_EmptySet
  <2>2. AtMost(0, StoreLimit - StoreTrim + 1) <= 0
    BY Limits DEF AtMost
  <2> QED  BY Limits, <2>1, <2>2 DEF StoreHolds
<1> QED  BY <1>1, <1>4, <1>5 DEF ListsInv, Fresh

\* The crossbow of alert a in a log of samples, and those of c among the alerts r.
Owner(l, s, a) == s[l[a].sample].crossbow
OwnedIn(l, s, r, c) == {r[i] : i \in {j \in 1..Len(r) : Owner(l, s, r[j]) = c}}

\* An alert that becomes active joins those of its crossbow.
LEMMA OwnedGrow ==
  ASSUME NEW N \in Nat, NEW l, NEW s, NEW l2, NEW s2, NEW c, NEW r \in Seq(1..N), N > 0,
         \A a \in 1..N : Owner(l2, s2, a) = Owner(l, s, a)
  PROVE  /\ OwnedIn(l, s, r, c) \in SUBSET (1..N)
         /\ OwnedIn(l2, s2, r, c) = OwnedIn(l, s, r, c)
         /\ OwnedIn(l2, s2, Append(r, N), c)
               = IF Owner(l, s, N) = c THEN OwnedIn(l, s, r, c) \cup {N} ELSE OwnedIn(l, s, r, c)
<1> DEFINE r2 == Append(r, N)
           M  == Len(r) + 1
<1>1. /\ Len(r) \in Nat /\ Len(r2) = M /\ r2[M] = N
      /\ \A i \in 1..Len(r) : r2[i] = r[i] /\ r[i] \in 1..N
  BY AppendProperties
<1>2. N \in 1..N /\ \A j \in 1..M : j \in 1..Len(r) \/ j = M
  BY <1>1
<1>3. M \in 1..M /\ \A j \in 1..Len(r) : j \in 1..M
  BY <1>1
<1> HIDE DEF r2, M
<1>4. OwnedIn(l, s, r, c) \in SUBSET (1..N)
  BY <1>1 DEF OwnedIn
<1>5. OwnedIn(l2, s2, r, c) = OwnedIn(l, s, r, c)
  <2>1. {j \in 1..Len(r) : Owner(l2, s2, r[j]) = c} = {j \in 1..Len(r) : Owner(l, s, r[j]) = c}
    BY <1>1
  <2> QED  BY <2>1 DEF OwnedIn
<1>6. \A a : a \in OwnedIn(l, s, r, c) <=> \E j \in 1..Len(r) : r[j] = a /\ Owner(l, s, r[j]) = c
  BY DEF OwnedIn
<1>7. \A a : a \in OwnedIn(l2, s2, r2, c) <=> \E j \in 1..M : r2[j] = a /\ Owner(l2, s2, r2[j]) = c
  BY <1>1 DEF OwnedIn
<1>8. \A j \in 1..Len(r) : r2[j] = r[j] /\ Owner(l2, s2, r2[j]) = Owner(l, s, r[j])
  BY <1>1
<1>9. Owner(l2, s2, r2[M]) = Owner(l, s, N)
  BY <1>1, <1>2
<1>10. \A a : a \in OwnedIn(l2, s2, r2, c)
               <=> a \in OwnedIn(l, s, r, c) \/ (a = N /\ Owner(l, s, N) = c)
  <2> TAKE a
  <2>1. (\E j \in 1..M : r2[j] = a /\ Owner(l2, s2, r2[j]) = c)
           <=> \/ \E j \in 1..Len(r) : r2[j] = a /\ Owner(l2, s2, r2[j]) = c
               \/ r2[M] = a /\ Owner(l2, s2, r2[M]) = c
    BY <1>2, <1>3
  <2>2. (\E j \in 1..Len(r) : r2[j] = a /\ Owner(l2, s2, r2[j]) = c) <=> a \in OwnedIn(l, s, r, c)
    BY <1>6, <1>8, Zenon
  <2>3. (r2[M] = a /\ Owner(l2, s2, r2[M]) = c) <=> (a = N /\ Owner(l, s, N) = c)
    BY <1>1, <1>9, Zenon
  <2> QED  BY <1>7, <2>1, <2>2, <2>3, Zenon
<1>11. OwnedIn(l2, s2, r2, c)
          = IF Owner(l, s, N) = c THEN OwnedIn(l, s, r, c) \cup {N} ELSE OwnedIn(l, s, r, c)
  BY <1>10
<1> QED  BY <1>4, <1>5, <1>11 DEF r2

\* The alerts that became active, in the form of OwnedGrow.
LEMMA RecordedAre ==
  ASSUME RangeOK, [Next]_vars, RangeOK', NEW c \in Crossbows
  PROVE  /\ RecordedOf(c) = OwnedIn(log, seen, recorded, c)
         /\ RecordedOf(c)' = OwnedIn(log', seen', recorded', c)
         /\ \A a \in 1..Len(log) : Owner(log', seen', a) = Owner(log, seen, a)
         /\ recorded \in Seq(1..Len(log))
<1>0. /\ recorded \in Seq(Nat) /\ recorded' \in Seq(Nat)
      /\ \A i \in 1..Len(recorded) : recorded[i] \in 1..Len(log)
  BY DEF RangeOK
<1>1. /\ DOMAIN recorded = 1..Len(recorded) /\ DOMAIN recorded' = 1..Len(recorded')
      /\ recorded \in Seq(Nat) /\ \A i \in 1..Len(recorded) : recorded[i] \in 1..Len(log)
  BY <1>0
<1>2. RecordedOf(c) = OwnedIn(log, seen, recorded, c)
  BY <1>1 DEF RecordedOf, OwnedIn, Owner, CrossbowOf, SampleOf
<1>3. RecordedOf(c)' = OwnedIn(log', seen', recorded', c)
  BY <1>1 DEF RecordedOf, OwnedIn, Owner, CrossbowOf, SampleOf
<1>4. \A a \in 1..Len(log) : Owner(log', seen', a) = Owner(log, seen, a)
  BY StepGrows, Domains DEF Owner
<1>5. recorded \in Seq(1..Len(log))
  BY <1>1
<1> QED  BY <1>2, <1>3, <1>4, <1>5

\* The sinks of an action that pushes, stores or records nothing.
LEMMA ListsStay ==
  ASSUME RangeOK, RangeOK', ListsInv, [Next]_vars,
         UNCHANGED <<active, stored, inserted, recorded>>
  PROVE  ActiveIsLatest' /\ StoreHolds(stored', inserted')
<1>1. ASSUME NEW c \in Crossbows
      PROVE  Shown!HoldsLatest(active[c], RecordedOf(c)')
  <2>1. Len(log) \in Nat
    BY Domains
  <2>2. CASE Len(log) > 0
    <3>1. RecordedOf(c)' = RecordedOf(c)
      <4> DEFINE N == Len(log)
      <4>1. /\ recorded \in Seq(1..N) /\ N \in Nat /\ N > 0
            /\ \A a \in 1..N : Owner(log', seen', a) = Owner(log, seen, a)
        BY <2>1, <2>2, RecordedAre
      <4> HIDE DEF N
      <4>2. OwnedIn(log', seen', recorded, c) = OwnedIn(log, seen, recorded, c)
        <5>1. \A i \in 1..Len(recorded) :
                 Owner(log', seen', recorded[i]) = Owner(log, seen, recorded[i])
          BY <4>1
        <5>2. {j \in 1..Len(recorded) : Owner(log', seen', recorded[j]) = c}
                 = {j \in 1..Len(recorded) : Owner(log, seen, recorded[j]) = c}
          BY <5>1
        <5> QED  BY <5>2 DEF OwnedIn
      <4> QED  BY <4>2, RecordedAre
    <3> QED  BY <3>1 DEF ListsInv, ActiveIsLatest
  <2>3. CASE Len(log) = 0
    <3>1. Len(recorded) = 0
      BY <2>3, Domains DEF RangeOK
    <3>2. OwnedIn(log', seen', recorded, c) = {} /\ OwnedIn(log, seen, recorded, c) = {}
      BY <3>1 DEF OwnedIn
    <3>3. RecordedOf(c)' = RecordedOf(c)
      BY <3>2, RecordedAre
    <3> QED  BY <3>3 DEF ListsInv, ActiveIsLatest
  <2> QED  BY <2>1, <2>2, <2>3
<1>2. ActiveIsLatest'
  BY <1>1 DEF ActiveIsLatest
<1> QED  BY <1>2 DEF ListsInv

\* Each action keeps the lists and the order in which alerts come to them.
LEMMA StepLists ==
  ASSUME RangeOK, AtWork, RangeOK', SinksAgree, ListsInv, [Next]_vars
  PROVE  ListsInv'
<1>0. /\ Len(log) \in Nat /\ Len(recorded) \in Nat /\ recorded \in Seq(Nat)
      /\ \A i \in 1..Len(recorded) : recorded[i] \in 1..Len(log)
      /\ inserted \subseteq 1..Len(log)
      /\ active \in [Crossbows -> Seq(Nat)] /\ stored \in Seq(Nat)
  BY Domains DEF RangeOK, ListsInv
<1>1. CASE PushAlert
  <2>1. /\ log' = Append(log, [sample |-> Len(seen), kind |-> Kinds[kind]])
        /\ UNCHANGED <<active, stored, inserted, recorded>>
    BY <1>1 DEF PushAlert
  <2>2. Len(log') = Len(log) + 1
    BY <2>1 DEF RangeOK
  <2>3. Fresh'
    BY <1>0, <2>1, <2>2 DEF Fresh
  <2> QED  BY <1>0, <2>1, <2>3, ListsStay DEF ListsInv
<1>2. CASE StoreAlert
  <2>1. /\ pc = "store" /\ pc' = "record"
        /\ stored' = TrimStore(Append(stored, Len(log))) /\ inserted' = inserted \cup {Len(log)}
        /\ UNCHANGED <<active, log, seen, recorded>>
    BY <1>2 DEF StoreAlert, Alert
  <2>2. \A a \in inserted : a < Len(log)
    BY <2>1 DEF ListsInv, Fresh
  <2>3. inserted \in SUBSET Nat /\ IsFiniteSet(inserted)
    <3>1. IsFiniteSet(1..Len(log))
      BY <1>0, FS_Interval
    <3>2. IsFiniteSet(inserted)
      BY <1>0, <3>1, FS_Subset
    <3> QED  BY <1>0, <3>2
  <2>4. stored' \in Seq(Nat) /\ StoreHolds(stored', inserted')
    BY <1>0, <2>1, <2>2, <2>3, TrimHoldsLatest DEF ListsInv
  <2>5. Fresh'
    BY <2>1 DEF ListsInv, Fresh
  <2>6. ActiveIsLatest'
    <3>1. \A c \in Crossbows : RecordedOf(c)' = RecordedOf(c)
      BY <2>1, RecordedAre
    <3> QED  BY <2>1, <3>1 DEF ListsInv, ActiveIsLatest
  <2> QED  BY <1>0, <2>1, <2>4, <2>5, <2>6 DEF ListsInv
<1>3. CASE RecordAlert
  <2> DEFINE b == seen[Len(seen)].crossbow
             N == Len(log)
  <2>1. /\ pc = "record" /\ pc' \in {"check", "loop"}
        /\ active' = [active EXCEPT ![b] = Shorten(Append(@, N))]
        /\ recorded' = Append(recorded, N)
        /\ UNCHANGED <<stored, inserted, log, seen>>
    BY <1>3, NextKindRange DEF RecordAlert, Alert, Sample
  <2>2. /\ b \in Crossbows /\ N > 0 /\ N \in Nat /\ log[N].sample = Len(seen)
        /\ \A i \in 1..Len(recorded) : recorded[i] < N
    <3>1. N > 0 /\ log[N] = [sample |-> Len(seen), kind |-> Kinds[kind]] /\ Len(seen) > 0
      BY <2>1 DEF AtWork
    <3>2. Len(seen) \in 1..Len(seen)
      BY <3>1, Domains
    <3> QED  BY <1>0, <2>1, <3>1, <3>2, Domains DEF ListsInv, Fresh
  <2>3. Owner(log, seen, N) = b
    BY <2>2 DEF Owner
  <2> HIDE DEF b, N
  <2>4. ASSUME NEW c \in Crossbows
        PROVE  active'[c] \in Seq(Nat) /\ Shown!HoldsLatest(active'[c], RecordedOf(c)')
    <3> DEFINE R == OwnedIn(log, seen, recorded, c)
    <3>1. /\ RecordedOf(c) = R /\ RecordedOf(c)' = OwnedIn(log', seen', recorded', c)
          /\ \A a \in 1..N : Owner(log', seen', a) = Owner(log, seen, a)
          /\ recorded \in Seq(1..N)
      BY RecordedAre DEF N
    <3>2. /\ R \in SUBSET (1..N)
          /\ RecordedOf(c)' = IF b = c THEN R \cup {N} ELSE R
      BY <2>1, <2>2, <2>3, <3>1, OwnedGrow
    <3>3. \A m \in R : m < N
      BY <2>2 DEF OwnedIn
    <3> HIDE DEF R
    <3>4. R \in SUBSET Nat
      BY <2>2, <3>2
    <3>5. /\ Shown!HoldsLatest(active[c], R) /\ Deque!HoldsLatest(active[c], R)
          /\ active[c] \in Seq(Nat)
      BY <1>0, <3>1 DEF ListsInv, ActiveIsLatest, Shown!HoldsLatest, Deque!HoldsLatest
    <3>6. CASE b = c
      <4>1. active'[c] = Shorten(Append(active[c], N))
        BY <1>0, <2>1, <2>2, <3>6
      <4>2. Len(active[c]) <= ActiveLimit
        BY <3>5 DEF Deque!HoldsLatest
      <4>3. active'[c] = Deque!Enqueue(active[c], N)
        BY <2>2, <3>5, <4>1, <4>2, ShortenIsEnqueue
      <4>4. ActiveLimit \in Nat \ {0}
        BY Limits
      <4>5. /\ Deque!Enqueue(active[c], N) \in Seq(Nat)
            /\ Deque!HoldsLatest(Deque!Enqueue(active[c], N), R \cup {N})
        BY <2>2, <3>3, <3>4, <3>5, <4>4, Deque!EnqueueHoldsLatest, SMTT(60)
      <4> QED  BY <3>2, <3>6, <4>3, <4>5 DEF Shown!HoldsLatest, Deque!HoldsLatest
    <3>7. CASE b # c
      <4>1. active'[c] = active[c]
        BY <1>0, <2>1, <3>7
      <4>2. RecordedOf(c)' = R
        BY <3>2, <3>7
      <4> QED  BY <3>5, <4>1, <4>2
    <3> QED  BY <3>6, <3>7
  <2>5. active' \in [Crossbows -> Seq(Nat)]
    BY <1>0, <2>1, <2>4
  <2>6. Fresh'
    BY <2>1 DEF Fresh
  <2> QED  BY <1>0, <2>1, <2>4, <2>5, <2>6 DEF ListsInv, ActiveIsLatest
<1>4. ASSUME UNCHANGED <<active, stored, inserted, recorded, log>>,
             pc' = pc \/ pc' \in {"check", "loop"}
      PROVE  ListsInv'
  <2>1. Fresh'
    BY <1>4 DEF ListsInv, Fresh
  <2> QED  BY <1>0, <1>4, <2>1, ListsStay DEF ListsInv
<1>5. CASE Quiet
  BY <1>4, <1>5, NextKindRange DEF Quiet, sinkVars, historyVars
<1>6. CASE Throw
  BY <1>4, <1>6 DEF Throw, sinkVars
<1>7. CASE Idle \/ UNCHANGED vars
  BY <1>4, <1>7 DEF Idle, vars, checkVars, sinkVars, historyVars
<1>8. ASSUME NEW c \in Crossbows, NEW e \in Readings,
             TakeUnknown(c, e) \/ \E t \in Times : Take(c, e, t)
      PROVE  ListsInv'
  BY <1>4, <1>8 DEF TakeUnknown, Take, checkVars, sinkVars
<1> QED  BY <1>1, <1>2, <1>3, <1>5, <1>6, <1>7, <1>8 DEF Next

\* Whatever fails on the way, what /api/alerts shows of a crossbow and what the storage
\* keeps are the latest of what came there, in order, and no shorter than the limits say.
THEOREM ListsAlwaysHoldLatest == Spec => []ListsHoldLatest
<1>1. CooldownInv /\ CooldownInv' /\ SinksAgree /\ ListsInv /\ [Next]_vars => ListsInv'
  BY StepLists DEF CooldownInv
<1>2. ListsInv => ListsHoldLatest
  <2> SUFFICES ASSUME ListsInv PROVE ListsHoldLatest
    OBVIOUS
  <2>1. DOMAIN stored = 1..Len(stored)
    BY DEF ListsInv
  <2> QED  BY <2>1 DEF ListsInv, ListsHoldLatest, StoreIsLatest, StoreHolds
<1> QED  BY CooldownAlways, SinksAlwaysAgree, InitLists, <1>1, <1>2, PTL DEF Spec

=============================================================================
