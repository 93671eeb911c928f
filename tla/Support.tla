--------------------------------- MODULE Support ---------------------------------
(* What the services of the process share: the configuration file (ConfigManager),*)
(* the logger, the mock storage (ClickHouseStorage), the counters of Metrics, and *)
(* MqttAlertManager.  Each object is a record, each method an operator on it.     *)
EXTENDS Integers, Sequences, FiniteSets, SequencesExt

----------------------------------------------------------------------------------
(* ConfigManager.  A key is <<section, name>>, a value its text.                  *)
In(section, names) == [i \in DOMAIN names |-> <<section, names[i]>>]

\* parse_json(): the keys in the order in which they are read.
ReadKeys ==
    In("", <<"udp_port", "http_port", "metrics_port", "queue_capacity", "ballistic_threads",
             "accuracy_batch_size", "accuracy_analysis_interval_ms", "alarm_check_interval_ms">>)
    \o In("log", <<"level", "file", "console">>)
    \o In("mqtt", <<"broker_host", "broker_port", "client_id", "topic_prefix", "username",
                    "password">>)
    \o In("thresholds", <<"deformation_ratio", "tension_ratio", "temperature_c",
                          "debounce_seconds">>)
    \o In("dynamics", <<"gravity", "air_density", "arrow_ref_area", "bow_efficiency",
                        "sound_speed", "penalty_stiffness", "penalty_damping",
                        "contact_threshold", "max_penalty_force">>)
    \o In("clickhouse", <<"host", "port", "database", "user", "password", "ttl_days">>)

\* AppConfig's initializers, in the order of ReadKeys.
AppConfig ==
    LET value == <<"9000", "8080", "9090", "10000", "1", "100", "5000", "1000",
                   "info", "crossbow_backend.log", "true",
                   "localhost", "1883", "crossbow_backend", "crossbow/alerts", "", "",
                   "0.08", "1.5", "60", "10",
                   "9.81", "1.225", "0.00025", "0.75", "343", "800000", "5000", "0.001", "5000",
                   "localhost", "9000", "crossbow_sim", "default", "", "30">>
    IN  [k \in Range(ReadKeys) |-> value[CHOOSE i \in DOMAIN ReadKeys : ReadKeys[i] = k]]

\* A file: missing, no JSON object, or an object with `values' of which those in `bad'
\* have another type than the setting (a section that is no object has a bad first key).
\* value() throws at the first of them; what was read before it is kept.
Missing == [kind |-> "missing"]
NoObject == [kind |-> "no object"]
Object(values, bad) == [kind |-> "object", values |-> values, bad |-> bad]

ReadOf(file) ==
    {ReadKeys[i] : i \in {i \in DOMAIN ReadKeys : \A j \in 1..i : ReadKeys[j] \notin file.bad}}
        \cap DOMAIN file.values
Load(file) ==
    IF file.kind # "object" THEN AppConfig
    ELSE [k \in DOMAIN AppConfig |-> IF k \in ReadOf(file) THEN file.values[k] ELSE AppConfig[k]]

\* to_json(): the sections again, and what each is written with.
Written ==
    << <<"", {"udp_port", "http_port", "metrics_port", "queue_capacity", "ballistic_threads",
              "accuracy_batch_size", "accuracy_analysis_interval_ms", "alarm_check_interval_ms"}>>,
       <<"log", {"level", "file", "console"}>>,
       <<"mqtt", {"broker_host", "broker_port", "client_id", "topic_prefix", "username",
                  "password"}>>,
       <<"thresholds", {"deformation_ratio", "tension_ratio", "temperature_c",
                        "debounce_seconds"}>>,
       <<"dynamics", {"gravity", "air_density", "arrow_ref_area", "bow_efficiency", "sound_speed",
                      "penalty_stiffness", "penalty_damping", "contact_threshold",
                      "max_penalty_force"}>>,
       <<"clickhouse", {"host", "port", "database", "user", "password", "ttl_days"}>> >>
ToJson(config) ==
    LET keys == UNION {{<<s[1], name>> : name \in s[2]} : s \in Range(Written)}
    IN  Object([k \in keys |-> config[k]], {})

\* load() of a missing file writes it, save_default() can only log that it failed.
FileAfterLoad(file, writable) ==
    IF file.kind = "missing" /\ writable THEN ToJson(AppConfig) ELSE file

----------------------------------------------------------------------------------
(* Logger without spdlog.                                                         *)
Levels == <<"trace", "debug", "info", "warn", "error", "critical">>
ParseLogLevel(text) ==
    IF \E i \in DOMAIN Levels : Levels[i] = text THEN CHOOSE i \in DOMAIN Levels : Levels[i] = text
    ELSE 3

\* The stream that a message of a level goes to while the logger is at another.
Stream(at, level) == IF level < at THEN "none" ELSE IF level >= 4 THEN "cerr" ELSE "cout"

\* format_str(): `format' is a list of pieces, of which "{}" is filled with the next of
\* the arguments, as long as there are any, and no other notation is.
Hole == "{}"
FormatStr(format, args) ==
    LET Before(i) == Cardinality({j \in 1..(i - 1) : format[j] = Hole})
        kept == {i \in DOMAIN format : \A j \in 1..i : format[j] = Hole => Before(j) < Len(args)}
    IN  [i \in kept |-> IF format[i] = Hole THEN args[Before(i) + 1] ELSE format[i]]

----------------------------------------------------------------------------------
(* ClickHouseStorage::Impl.  An insertion yields the storage and its answer;      *)
(* `limit' and `drop' are 50000 and 10000 for samples, 1000 and 500 for alerts.   *)
Storage == [connected |-> FALSE, types |-> <<>>, sensors |-> <<>>, alerts |-> <<>>]
Connect(s) == [s EXCEPT !.connected = TRUE]
Disconnect(s) == [s EXCEPT !.connected = FALSE]

Kept(list, x, limit, drop) ==
    LET longer == Append(list, x)
    IN  IF Len(longer) > limit THEN SubSeq(longer, drop + 1, Len(longer)) ELSE longer

InsertCrossbowType(s, type) == <<[s EXCEPT !.types = Append(@, type)], TRUE>>
InsertSensorData(s, data, limit, drop) ==
    IF ~s.connected THEN <<s, FALSE>>
    ELSE <<[s EXCEPT !.sensors = Kept(@, data, limit, drop)], TRUE>>
InsertSensorBatch(s, batch, limit, drop) ==
    IF ~s.connected THEN <<s, FALSE>>
    ELSE <<FoldLeft(LAMBDA t, data : InsertSensorData(t, data, limit, drop)[1], s, batch), TRUE>>
InsertAlert(s, alert, limit, drop) ==
    IF ~s.connected THEN <<s, FALSE>>
    ELSE <<[s EXCEPT !.alerts = Kept(@, alert, limit, drop)], TRUE>>

\* insert_trajectory_data(), insert_shot_record(), insert_accuracy_analysis() keep
\* nothing, and succeed when the storage is not connected.
InsertNothing(s) == <<s, ~s.connected>>

\* The hours are not looked at; 0 asks for every crossbow.
SensorHistory(s, id) == SelectSeq(s.sensors, LAMBDA d : id \in {0, d.id})
ShotHistory(s) == <<>>

\* get_crossbow_types(): those inserted, or these ten; weights in kg, lengths in
\* millimetres, the mass of the arrow in milligrams, ranges in metres.
Crossbow(id, weight, length, string, arrow, effective, most) ==
    [id |-> id, weight |-> weight, length |-> length, string |-> string, arrow |-> arrow,
     effective |-> effective, most |-> most]
DefaultTypes == <<Crossbow(1, 150, 1380, 1420, 65000, 150, 300),
                  Crossbow(2, 180, 1450, 1480, 72000, 180, 350),
                  Crossbow(3, 250, 1520, 1550, 85000, 220, 450),
                  Crossbow(4, 90, 950, 980, 45000, 80, 150),
                  Crossbow(5, 300, 1680, 1720, 100000, 250, 500),
                  Crossbow(6, 200, 1550, 1580, 78000, 200, 400),
                  Crossbow(7, 350, 1750, 1780, 95000, 300, 600),
                  Crossbow(8, 280, 1620, 1650, 88000, 260, 520),
                  Crossbow(9, 220, 1500, 1530, 80000, 210, 420),
                  Crossbow(10, 160, 1420, 1450, 68000, 160, 320)>>
\* The process does not ask the storage: main() has a table of its own.
MainTypes == <<Crossbow(1, 150, 1380, 1420, 65000, 150, 300),
               Crossbow(2, 180, 1450, 1500, 68000, 180, 350),
               Crossbow(3, 200, 1500, 1550, 70000, 200, 380),
               Crossbow(4, 120, 1200, 1250, 55000, 100, 200),
               Crossbow(5, 220, 1550, 1600, 72000, 220, 400),
               Crossbow(6, 250, 1600, 1650, 75000, 250, 450),
               Crossbow(7, 350, 1750, 1800, 80000, 300, 550),
               Crossbow(8, 280, 1650, 1700, 77000, 280, 480),
               Crossbow(9, 300, 1680, 1730, 78000, 290, 500),
               Crossbow(10, 260, 1600, 1650, 76000, 260, 460)>>
CrossbowTypes(s) == IF s.types # <<>> THEN s.types ELSE DefaultTypes

----------------------------------------------------------------------------------
(* Metrics without prometheus-cpp: counters, requests by endpoint, queue sizes.   *)
Counters == {"udp_received", "udp_errors", "ballistic_processed", "accuracy_processed",
             "alerts_fired", "alerts_mqtt_published"}
Metrics == [counter |-> [c \in Counters |-> 0], requests |-> <<>>,
            size |-> [q \in {"ballistic", "accuracy", "alarm"} |-> 0]]
Count(m, c) == [m EXCEPT !.counter[c] = @ + 1]
CountRequest(m, endpoint) ==
    [m EXCEPT !.requests = [e \in DOMAIN @ \cup {endpoint} |->
                               (IF e \in DOMAIN @ THEN @[e] ELSE 0) + IF e = endpoint THEN 1 ELSE 0]]
SetQueueSize(m, queue, size) == [m EXCEPT !.size[queue] = size]

----------------------------------------------------------------------------------
(* MqttAlertManager, with the metrics it counts in: `told' are the alerts its     *)
(* callback was given.  Deformations are in tenths of a millimetre, tensions in   *)
(* newtons.                                                                       *)
Publish(state, type, severity) ==
    [told |-> IF state.callback THEN Append(state.told, <<type, severity>>) ELSE state.told,
     callback |-> state.callback, metrics |-> Count(state.metrics, "alerts_mqtt_published")]
SetAlertCallback(state) == [state EXCEPT !.callback = TRUE]

\* check_and_alert(): three thresholds, each sample anew, connected or not.
CheckAndAlert(state, data, bow) ==
    LET checks == << <<data.deformation * 100 > 80 * bow.length, "ARM_CRACK_RISK", "CRITICAL">>,
                     <<data.tension * 1000 > bow.weight * 14715, "EXCESSIVE_TENSION", "WARNING">>,
                     <<data.temperature > 60, "HIGH_TEMPERATURE", "WARNING">> >>
        Alert(st, check) ==
            IF ~check[1] THEN st
            ELSE LET sent == Publish(st, check[2], check[3])
                 IN  [sent EXCEPT !.metrics = Count(@, "alerts_fired")]
    IN  <<FoldLeft(Alert, state, checks), \E i \in 1..3 : checks[i][1]>>

=================================================================================
