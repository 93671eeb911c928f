----------------------------- MODULE FormationModule -----------------------------
(* FormationSimulatorModule: a configuration, a target, and two helpers that     *)
(* each keep a target of their own, the simulator and the learning optimizer.    *)
(* The const methods change the optimizer, and the simulator's target is used    *)
(* in a plan that is otherwise made for a target given by the caller.            *)
(*                                                                               *)
(* An engagement is random: it has any number of hits up to the shots and the    *)
(* sample, of which the two ends are looked at, and any coverage of Coverages.   *)
EXTENDS FormationLayout, FormationLearning

CONSTANTS
    Targets,    \* what set_target() and the calls are given
    NoTarget,   \* the target before set_target()
    Configs,    \* of [crossbows, spacing (cm), salvos]
    Coverages   \* coverage_pct of an engagement

ASSUME ModuleAssumption ==
    /\ Coverages \subseteq Nat /\ \E c \in Coverages : \A d \in Coverages : c <= d
    /\ \A c \in Configs : c.crossbows \in Int /\ c.spacing \in Nat \ {0} /\ c.salvos \in Int

VARIABLES
    fmConfig,           \* config_
    fmTarget,           \* current_target_ of the module
    simTarget,          \* current_target_ of its FormationSimulator
    rlTarget,           \* target_ of its FormationRLOptimizer
    fmAnswer            \* what the last call returned, with the targets it used

moduleVars == <<fmConfig, fmTarget, simTarget, rlTarget, fmAnswer>>

NoAnswer == [call |-> "none"]

FormationInit ==
    /\ fmConfig \in Configs
    /\ fmTarget = NoTarget /\ simTarget = NoTarget /\ rlTarget = NoTarget
    /\ fmAnswer = NoAnswer

\* One thread uses the object: no call while train_rl() is at work.
Free == phase \in {"idle", "done"}

SetConfig(c) ==
    /\ Free /\ fmConfig' = c
    /\ UNCHANGED <<fmTarget, simTarget, rlTarget, fmAnswer>>

SetTarget(t) ==
    /\ Free
    /\ fmTarget' = t /\ simTarget' = t /\ rlTarget' = t
    /\ UNCHANGED <<fmConfig, fmAnswer>>

\* generate_placement(): spacing_m over the formation's safety spacing.
Placement(type) == Layout(type, fmConfig.crossbows, fmConfig.spacing, Get(type).safety)

\* simulate_engagement(): shots, the sampled hits, three of each crossbow, and the
\* rolled ones, one for each volley; the plan is made for the simulator's target.
Sample == 3
Shots(n, volleys) == n * Max({1, volleys})
Rolls(n, volleys) == n * Max({0, volleys})
Engagements(type, n, volleys, target) ==
    [type : {type}, placed : {n}, shots : {Shots(n, volleys)},
     tried : {Max({1, Shots(n, volleys) + Sample * n})},
     hits : {0, Sample * n + Rolls(n, volleys)}, coverage : Coverages,
     engaged : {target}, planned : {simTarget}]

\* generate_firing_plan(): the last group of the last volley, and half a second.
PlanTime(layout, volleys, interval) ==
    Max({p.delay : p \in layout} \cup {0}) + (volleys - 1) * interval + 500

\* optimize_salvo_timing(): volleys of n crossbows until `needed' are shot.
SalvoVolleys(n, needed) == Max({1, (needed + n - 1) \div n})

\* Without crossbows evaluate_coverage() and get_fire_density() return zeros.
Coverage(type, n, target) ==
    IF n = 0 THEN {[type |-> type, placed |-> 0, shots |-> 0, tried |-> 1, hits |-> 0,
                    coverage |-> 0, engaged |-> target, planned |-> target]}
    ELSE Engagements(type, n, fmConfig.salvos, target)

GeneratePlacement(type) ==
    /\ Free
    /\ fmAnswer' = [call |-> "placement", type |-> type,
                    crossbows |-> fmConfig.crossbows, layout |-> Placement(type)]
    /\ UNCHANGED <<fmConfig, fmTarget, simTarget, rlTarget>>

\* What the module's own placement of a type may yield against the module's target.
OwnCoverage(type) == Coverage(type, Cardinality(Placement(type)), fmTarget)

Evaluate(type) ==
    /\ Free
    /\ \E r \in OwnCoverage(type) :
           fmAnswer' = [call |-> "evaluate", results |-> {r}, best |-> r]
    /\ UNCHANGED <<fmConfig, fmTarget, simTarget, rlTarget>>

\* compare_formations(): one evaluation of each type, all of them for an empty
\* list, sorted by falling coverage.  In the rounds looked at all have the lowest
\* coverage but one, which is the best.
CompareFormations(call, types) ==
    LET list == IF types = {} THEN Formations ELSE types
        Lowest(t) == CHOOSE r \in OwnCoverage(t) :
                         r.hits = 0 /\ (r.placed = 0 \/ r.coverage = Min(Coverages))
        lows == {Lowest(t) : t \in list}
    IN  /\ Free
        /\ \E low \in {r \in lows : r.placed > 0 \/ \A s \in lows : s.placed = 0} :
               LET top == IF low.placed = 0 THEN low ELSE [low EXCEPT !.coverage = Max(Coverages)]
               IN  fmAnswer' = [call |-> call, results |-> (lows \ {low}) \cup {top}, best |-> top]
        /\ UNCHANGED <<fmConfig, fmTarget, simTarget, rlTarget>>

\* find_optimal_formation(target): the target it is given is not used.
FindOptimal == CompareFormations("optimal", {})

\* get_fire_density(placements, target): the caller's placements and target.
FireDensity(type, n, target) ==
    /\ Free
    /\ \E r \in Coverage(type, Cardinality(Layout(type, n, 1, 1)), target) :
           fmAnswer' = [call |-> "density", results |-> {r}, best |-> r]
    /\ UNCHANGED <<fmConfig, fmTarget, simTarget, rlTarget>>

\* train_rl(target, episodes), a const method, sets the optimizer's target and
\* trains with half to twice the configured crossbows.
TrainTask(episodes) ==
    [crossbows |-> fmConfig.crossbows, episodes |-> episodes,
     min |-> Max({4, fmConfig.crossbows \div 2}), max |-> 2 * fmConfig.crossbows,
     formation |-> TRUE, spacing |-> TRUE, orientation |-> TRUE]

\* Mutant: the simulator is given the target of the training.
TrainRlForAll(target, episodes) ==
    /\ rlTarget' = target /\ simTarget' = target
    /\ BeginTraining(TrainTask(episodes))
    /\ UNCHANGED <<fmConfig, fmTarget, fmAnswer>>

TrainRl(target, episodes) ==
    /\ rlTarget' = target
    /\ BeginTraining(TrainTask(episodes))
    /\ UNCHANGED <<fmConfig, fmTarget, simTarget, fmAnswer>>

FormationCall(Types, Crossbows) ==
    \/ \E c \in Configs : SetConfig(c)
    \/ \E t \in Targets : SetTarget(t)
    \/ FindOptimal
    \/ \E type \in Formations \cup Types : GeneratePlacement(type)
    \/ \E type \in Types : Evaluate(type)
    \/ \E types \in SUBSET Types : CompareFormations("compare", types)
    \/ \E type \in Types, n \in Crossbows, t \in Targets : FireDensity(type, n, t)

----------------------------------------------------------------------------------
(* Whatever was trained or asked for other targets before, an evaluation or a    *)
(* comparison is of one target throughout, the module's own: the hits are        *)
(* counted, and the plan is made, for the target of the last set_target().       *)
EvaluationsUseOneTarget ==
    fmAnswer.call \in {"evaluate", "compare", "optimal"} =>
        \A r \in fmAnswer.results : r.engaged = r.planned

(* No formation the module places, of any type and size, with a spacing of the   *)
(* configuration that is wide enough (1.5 m here), puts two crossbows closer     *)
(* than validate_placement() admits; each of the crossbows that the limits of    *)
(* the formation leave has one place, but that coils may not hold all of them.   *)
PlacementsAreValid ==
    fmAnswer.call = "placement" /\ fmAnswer.type \in Formations =>
        LET places == fmAnswer.layout
            n      == Clamp(fmConfig.crossbows, Get(fmAnswer.type))
            ids    == {p.id : p \in places}
        IN  fmAnswer.crossbows = fmConfig.crossbows =>
                /\ ValidPlacement(places)
                /\ Cardinality(ids) = Cardinality(places)
                /\ fmAnswer.type # 6 => ids = 0..(n - 1)
===================================================================================
