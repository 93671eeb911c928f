------------------------------ MODULE HttpHandlers ------------------------------
(* The requests HttpServer answers: how a query is parsed and what each handler   *)
(* makes of it.  A body is named by what it is about; the fields and the numbers  *)
(* in it are left out, and the optional services are all there, as in main().     *)
(*                                                                                *)
(* A query is a sequence of <<key, value>>, a value a number or a word.  stoul,   *)
(* stoi and stod throw for a word, nothing catches that, and the process ends.    *)
EXTENDS FormationLayout, SightOptics, BowstringMaterial, Sequences

CONSTANTS
    Crossbow,       \* ids of the configured crossbow types, none of them 0
    Stored          \* shots the analyzer service holds of each

ASSUME HandlerAssumption ==
    /\ Crossbow \subseteq Nat \ {0} /\ IsFiniteSet(Crossbow) /\ Crossbow # {}
    /\ Stored \in [Crossbow -> Nat]

Number(n) == [is |-> "number", n |-> n]
Word(w) == [is |-> "word", w |-> w]

\* parse_url_params() is called with the whole request: the last value runs on to
\* the end of it.  A number is still read, a word is not the same any more.
RunOn(v) == IF v.is = "word" THEN Word("run on") ELSE v
ParseUrlParams(pairs) ==
    LET n == Len(pairs)
        At(k) == Max({i \in 1..n : pairs[i][1] = k})
    IN  [k \in {pairs[i][1] : i \in 1..n} |->
            IF At(k) = n THEN RunOn(pairs[n][2]) ELSE pairs[At(k)][2]]

Given(q, k) == k \in DOMAIN q
ValueOf(q, k, default) == IF Given(q, k) THEN q[k].n ELSE default

Body(kind) == [kind |-> kind]
About(kind, x) == [kind |-> kind, about |-> x]
Ends == Body("ends")

\* The body, unless one of the numbers cannot be read.
Reading(q, keys, body) == IF \E k \in keys : Given(q, k) /\ q[k].is = "word" THEN Ends ELSE body

RowsOf(id, limit) == IF id \in Crossbow THEN Min({Stored[id], limit}) ELSE 0
Rows(q, limit) ==
    IF ~Given(q, "crossbow_id") THEN [kind |-> "rows", about |-> 0, n |-> 0]
    ELSE Reading(q, {"crossbow_id", "limit"},
                 [kind |-> "rows", about |-> q["crossbow_id"].n,
                  n |-> RowsOf(q["crossbow_id"].n, ValueOf(q, "limit", limit))])

GetCrossbowTypes == About("types", Crossbow)
GetSensorData(q) == Rows(q, 100)
GetShotHistory(q) == Rows(q, 50)
GetAlerts(q) == Reading(q, {"crossbow_id"}, About("alerts", ValueOf(q, "crossbow_id", 0)))
GetAccuracy(q) ==
    IF ~Given(q, "crossbow_id") THEN Body("empty")
    ELSE Reading(q, {"crossbow_id"}, About("analysis", q["crossbow_id"].n))
SimulateShot(q) ==
    IF ~Given(q, "crossbow_id") THEN Body("error")
    ELSE Reading(q, {"crossbow_id", "angle", "wind_speed", "wind_direction"},
                 About("shot", q["crossbow_id"].n))
RunAccuracyAnalysis(q) == IF ~Given(q, "crossbow_id") THEN Body("error") ELSE GetAccuracy(q)
ResolveAlert == Body("ok")
GetSystemStatus == Body("status")
GetBallisticResult(q) ==
    IF ~Given(q, "crossbow_id") THEN About("results", Crossbow)
    ELSE Reading(q, {"crossbow_id"}, About("result", q["crossbow_id"].n))

GetBowstringMaterials == About("materials", {m.name : m \in MaterialTable})
\* An unknown crossbow is replaced by the default one, 0 here; a missing id by the
\* first of the configured types.
CompareBowstrings(q) ==
    Reading(q, {"crossbow_id", "launch_angle"},
            About("comparison", IF ~Given(q, "crossbow_id") THEN Min(Crossbow)
                                ELSE IF q["crossbow_id"].n \in Crossbow THEN q["crossbow_id"].n ELSE 0))
\* A material that is not known by its name is taken for silk.
EfficiencyCurve(q) ==
    LET given == IF Given(q, "material") /\ q["material"].is = "word"
                 THEN Named(q["material"].w) ELSE UnknownMaterial
    IN  About("curve", IF given = UnknownMaterial THEN Silk.name ELSE given.name)
OptimizeBowstring(q) ==
    Reading(q, {"accuracy_weight", "power_weight", "durability_weight"}, Body("material"))

\* Sight types are 0..5; any other number is the design of zeros.
SightOf(q, key) == Known(ValueOf(q, key, 2)).type
GetSightDesigns == Body("designs")
SimulateSight(q) ==
    Reading(q, {"sight_type", "distance_m", "elevation_deg", "light_lux", "temperature_c"},
            About("aims", SightOf(q, "sight_type")))
\* Both vectors are reserved for the number of steps: a negative one throws.
CalibrateSight(q) ==
    LET span == [from |-> ValueOf(q, "start_range_m", 50), to |-> ValueOf(q, "end_range_m", 600),
                 by |-> ValueOf(q, "step_m", 50)]
    IN  Reading(q, {"sight_type", "start_range_m", "end_range_m", "step_m"},
                IF span.by <= 0 THEN [kind |-> "scales", about |-> 0, table |-> 0]
                ELSE IF StepsOf(span) < 0 THEN Ends
                ELSE [kind |-> "scales", table |-> StepsOf(span),
                      about |-> Min({StepsOf(span), Known(ValueOf(q, "sight_type", 2)).scales})])
OptimizeSight(q) ==
    Reading(q, {"base_type", "target_range_m", "accuracy_weight"},
            About("design", SightOf(q, "base_type")))

GetFormationTypes == About("formations", Formations)
PlacedBy(q, n, spacing) ==
    Cardinality(Layout(ValueOf(q, "formation_type", 0), ValueOf(q, "num_crossbows", n), spacing, 100))
SimulateFormation(q) ==
    Reading(q, {"formation_type", "num_crossbows", "volleys"}, About("engagement", PlacedBy(q, 36, 100)))
\* The list of formations is one word or number here; an unknown formation places
\* no crossbow, and is in the answer all the same.
CompareFormationTypes(q) ==
    Reading(q, {"num_crossbows", "volleys", "formations"},
            About("comparisons", IF Given(q, "formations") THEN {q["formations"].n} ELSE Formations \ {3}))
\* train_q_learning() divides by a fifteenth of the episodes, and reserves for all.
RlOptimize(q) ==
    LET episodes == ValueOf(q, "episodes", 200)
        n == ValueOf(q, "num_crossbows", 36)
    IN  Reading(q, {"num_crossbows", "episodes", "learning_rate", "discount_factor", "exploration_rate"},
                IF episodes < 0 \/ episodes \in 1..14 THEN Ends
                ELSE About("training", <<Max({6, n \div 3}), Min({80, n * 2})>>))
GeneratePlacements(q) ==
    Reading(q, {"formation_type", "num_crossbows", "center_x", "center_y", "orientation_deg",
                "spacing_multiplier"},
            About("placements", PlacedBy(q, 24, ValueOf(q, "spacing_multiplier", 100))))

\* The dispatch of the server's loop.  Any other path is answered, too.
Dispatch(path, q) ==
    CASE path = "crossbow-types" -> GetCrossbowTypes  [] path = "sensor-data" -> GetSensorData(q)
      [] path = "shot-history" -> GetShotHistory(q)   [] path = "alerts" -> GetAlerts(q)
      [] path = "accuracy" -> GetAccuracy(q)          [] path = "simulate-shot" -> SimulateShot(q)
      [] path = "run-analysis" -> RunAccuracyAnalysis(q)
      [] path = "resolve-alert" -> ResolveAlert
      [] path \in {"system-status", "/"} -> GetSystemStatus
      [] path = "ballistic-result" -> GetBallisticResult(q)
      [] path = "bowstring-materials" -> GetBowstringMaterials
      [] path = "bowstring-compare" -> CompareBowstrings(q)
      [] path = "bowstring-efficiency-curve" -> EfficiencyCurve(q)
      [] path = "bowstring-optimize" -> OptimizeBowstring(q)
      [] path = "sight-designs" -> GetSightDesigns    [] path = "sight-simulate" -> SimulateSight(q)
      [] path = "sight-calibrate" -> CalibrateSight(q)
      [] path = "sight-optimize" -> OptimizeSight(q)
      [] path = "formation-types" -> GetFormationTypes
      [] path = "formation-simulate" -> SimulateFormation(q)
      [] path = "formation-compare" -> CompareFormationTypes(q)
      [] path = "formation-rl-optimize" -> RlOptimize(q)
      [] path = "formation-placement" -> GeneratePlacements(q)
      [] OTHER -> Body("fallback")
Handle(request) == Dispatch(request.path, ParseUrlParams(request.pairs))
==================================================================================
