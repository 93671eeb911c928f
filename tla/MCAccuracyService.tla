-------------------------- MODULE MCAccuracyService --------------------------
(***************************************************************************)
(* AccuracyService for TLC: two crossbows, and enough shots for one of them *)
(* to pass the limit; and what the functions of AccuracyAnalyzer and of     *)
(* Support yield.                                                           *)
(***************************************************************************)
EXTENDS AccuracyService, AccuracyAnalyzer, Support, TLC

Shot(x, y, range, angle) == [x |-> x, y |-> y, velocity |-> 600, range |-> range, angle |-> angle]
Drift(range) == Shot(40, -10, range, 2 * range + 700)
Near300(n) == [i \in 1..n |-> Drift(2900 + 10 * i)]

\* No shots are all zeros, one shot deviates from nothing and has no slope; the slope
\* of shots on a line is the line's, whatever their order.
ASSUME \A field \in DOMAIN Analyze(<<>>) \ {"adjustments"} : Analyze(<<>>)[field] = 0
ASSUME LET one == Analyze(<<Drift(1500)>>)
       IN  one.stdX = 0 /\ one.cep = 0 /\ one.scale = 0 /\ one.range = 1500 /\ one.adjustments = <<>>
ASSUME \A s \in SetToSeqs({Drift(r) : r \in {500, 900, 1000}}) : Analyze(s).scale = 200
\* An adjustment needs five shots, three of them closer than 30 m, and undoes half the
\* mean spread; one shot may count at two ranges that are close.
ASSUME SightAdjustments(Near300(4)) = <<>> /\ SightAdjustments(Near300(5)) = << <<3000, -15>> >>
ASSUME SightAdjustments([i \in 1..5 |-> Drift(IF i < 4 THEN 3300 ELSE 4600)]) = <<>>
ASSUME SightAdjustments([i \in 1..5 |-> Drift(750)]) = << <<500, -15>>, <<1000, -15>> >>
\* The error is no smaller than what either spread alone would make it.
ASSUME \A sx, sy \in {0, 3, 40, 500} :
    CircularErrorProbable(sx, sy) >= CircularErrorProbable(sx, 0)

----------------------------------------------------------------------------
(* A configuration that was written is read back, whatever was changed in it;  *)
(* a value of another type takes the settings after it along, not those before. *)
Changed(k) == [AppConfig EXCEPT ![k] = "other"]
ASSUME Range(ReadKeys) = DOMAIN ToJson(AppConfig).values /\ Len(ReadKeys) = 36
ASSUME \A k \in Range(ReadKeys) : Load(ToJson(Changed(k))) = Changed(k)
ASSUME \A file \in {Missing, NoObject, Object(<<>>, {})} : Load(file) = AppConfig
ASSUME Load(FileAfterLoad(Missing, TRUE)) = AppConfig /\ FileAfterLoad(Missing, FALSE) = Missing
ASSUME LET all == [k \in DOMAIN AppConfig |-> "other"]
           read == Load(Object(all, {<<"mqtt", "broker_port">>}))
       IN  {k \in DOMAIN AppConfig : read[k] # "other"} = {ReadKeys[i] : i \in 13..36}

ASSUME ParseLogLevel("verbose") = ParseLogLevel("info") /\ ParseLogLevel("critical") = 6
ASSUME \A at, level \in 1..6 : (Stream(at, level) = "none") = (level < at)
\* Only "{}" is filled in; without an argument left the rest of the text is lost.
ASSUME FormatStr(<<"CEP ", Hole, " of ", Hole, " m">>, <<"5">>) = <<"CEP ", "5", " of ">>
ASSUME FormatStr(<<"score {:.4f}">>, <<"0.9">>) = <<"score {:.4f}">>

----------------------------------------------------------------------------
(* The storage keeps the latest samples, at least limit - drop of them once it  *)
(* was full; what it has no list for succeeds exactly while it is disconnected. *)
Sample(n) == [id |-> 1 + (n % 2), n |-> n]
Filled(n) == InsertSensorBatch(Connect(Storage), [i \in 1..n |-> Sample(i)], 5, 2)[1].sensors
ASSUME \A n \in 0..12 : /\ Len(Filled(n)) <= 5 /\ (n >= 5 => Len(Filled(n)) >= 4)
                        /\ \A i \in DOMAIN Filled(n) : Filled(n)[i] = Sample(n - Len(Filled(n)) + i)
ASSUME InsertSensorData(Storage, Sample(1), 5, 2) = <<Storage, FALSE>>
ASSUME \A s \in {Storage, Connect(Storage)} : InsertNothing(s)[2] # InsertAlert(s, "a", 5, 2)[2]
ASSUME LET s == InsertSensorBatch(Connect(Storage), <<Sample(1), Sample(2), Sample(3)>>, 5, 2)[1]
       IN  SensorHistory(s, 2) = <<Sample(1), Sample(3)>> /\ SensorHistory(Disconnect(s), 0) = s.sensors
\* Only of the first crossbow do the two tables say the same.
ASSUME \A i \in 1..10 : /\ MainTypes[i].id = DefaultTypes[i].id
                       /\ (MainTypes[i] = DefaultTypes[i]) = (i = 1)
ASSUME CrossbowTypes(Storage) = DefaultTypes /\ ShotHistory(Storage) = <<>>
ASSUME CrossbowTypes(InsertCrossbowType(Storage, DefaultTypes[3])[1]) = <<DefaultTypes[3]>>

(* Every alert that fires is published and told; without a callback it only     *)
(* counts.  A sample at the thresholds alerts of nothing.                       *)
Quiet == [told |-> <<>>, callback |-> FALSE, metrics |-> Metrics]
At(bow) == [deformation |-> (8 * bow.length) \div 10, tension |-> (bow.weight * 14715) \div 1000,
            temperature |-> 60]
Above(bow) == [deformation |-> At(bow).deformation + 1, tension |-> At(bow).tension + 1,
               temperature |-> 61]
ASSUME \A bow \in Range(MainTypes \o DefaultTypes) :
    LET after == CheckAndAlert(SetAlertCallback(Quiet), Above(bow), bow)
    IN  /\ CheckAndAlert(Quiet, At(bow), bow) = <<Quiet, FALSE>>
        /\ after[2] /\ Len(after[1].told) = 3
        /\ after[1].metrics.counter["alerts_fired"] = 3
        /\ after[1].metrics.counter["alerts_mqtt_published"] = 3
ASSUME CheckAndAlert(Quiet, Above(DefaultTypes[1]), DefaultTypes[1])[1].told = <<>>
ASSUME LET m == SetQueueSize(CountRequest(CountRequest(Metrics, "/api/types"), "/api/types"), "alarm", 7)
       IN  m.requests["/api/types"] = 2 /\ m.size["alarm"] = 7 /\ m.counter = Metrics.counter

=============================================================================
