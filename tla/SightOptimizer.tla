----------------------------- MODULE SightOptimizer -----------------------------
(* Two optimizers of sights: the module that ranks the types by the spread of     *)
(* simulated aims (modules/sight_optimizer.cpp), and the grid search around one   *)
(* design behind /api/sight-optimize (SightOptimizer in sight_optics.cpp).        *)
(*                                                                                *)
(* Aims are random: each evaluation draws a new spread (CEP), any of Spreads, and *)
(* each score of the search is any of Scores.                                     *)
EXTENDS SightOptics, Sequences, FiniteSets, FiniteSetsExt, SequencesExt

CONSTANTS
    AimTargets,     \* what set_target() and recommend_sight() get: [range, radius]
    Spreads,        \* the CEP that estimate_sight_cep() may draw
    Scores,         \* what evaluate_design() may yield
    GridSamples     \* samples of height, radius and scales, [h, r, s]

ASSUME OptimizerAssumption ==
    /\ \A t \in AimTargets : t.range \in Int /\ t.radius \in Nat
    /\ Spreads \subseteq Nat /\ Spreads # {} /\ Scores \subseteq Int /\ Scores # {}
    /\ GridSamples.h \in Nat /\ GridSamples.r \in Nat /\ GridSamples.s \in Nat

VARIABLES
    aimTarget,      \* target_
    round           \* the last answer, with the target it was made for

optimizerVars == <<aimTarget, round>>

DefaultTarget == [range |-> 200, radius |-> 25]

OptimizerInit == aimTarget = DefaultTarget /\ round = [call |-> "none"]

\* set_target(): at least a metre away, at least a centimetre wide.
SetAimTarget(t) ==
    /\ aimTarget' = [range |-> Max({1, t.range}), radius |-> Max({1, t.radius})]
    /\ UNCHANGED round

\* compute_scale_calibration(): the span of ranges, in tenths of a metre.
CalibrationSpan(t) ==
    LET range == 10 * Max({1, t.range})
        from  == Max({100, range \div 4})
        to    == Max({from + 100, (3 * range) \div 2})
    IN  [from |-> from, to |-> to, by |-> Max({50, (to - from) \div 10})]

\* Mutant: against the best.
ImprovementOfBest(cep, all) ==
    LET best == Min(all)
    IN  IF best <= 0 \/ cep <= best THEN 0 ELSE (100 * (cep - best)) \div best

\* compute_improvement_pct(): against the worst of the same round.
Improvement(cep, all) ==
    LET worst == Max(all)
    IN  IF worst <= 0 \/ cep >= worst THEN 0 ELSE (100 * (worst - cep)) \div worst

\* evaluate() of one type after another, sorted by growing CEP: the first is any
\* of those with the smallest.
Rounds(types) ==
    UNION {LET worst == {cep[t] : t \in types}
               results == [t \in types |-> [cep |-> cep[t], improvement |-> Improvement(cep[t], worst)]]
           IN  {[first |-> t, results |-> results] : t \in {t \in types : cep[t] = Min(worst)}} :
           cep \in [types -> Spreads]}

AllTypes == {0, 3, 1, 6, 7}
CompareAll ==
    /\ \E r \in Rounds(AllTypes) :
           round' = [call |-> "compare", target |-> aimTarget, first |-> r.first, results |-> r.results]
    /\ UNCHANGED aimTarget

\* optimize(): of an empty list, of all types.  Only the best is returned.
Optimize(types) ==
    /\ \E r \in Rounds(IF types = {} THEN AllTypes ELSE types) :
           round' = [call |-> "optimize", target |-> aimTarget, first |-> r.first,
                     results |-> [t \in {r.first} |-> r.results[t]]]
    /\ UNCHANGED aimTarget

\* recommend_sight(target): works with its argument as target_, as it was given,
\* and restores target_ at the end.
Recommend(t) ==
    /\ \E r \in Rounds(AllTypes) :
           round' = [call |-> "recommend", target |-> t, first |-> r.first, results |-> r.results,
                     meets |-> r.results[r.first].cep * Max({1, t.range}) <= t.radius * 1000]
    /\ UNCHANGED aimTarget

\* grid_search_optimize(): candidates in the order of the three loops.
Base(type) == IF Known(type).type = Custom THEN RampSight ELSE Known(type)
Spread(lo, hi, i, n) == lo + ((hi - lo) * i) \div Max({1, n - 1})
Candidate(base, maxHeight, i, j, k) ==
    LET h  == Spread(Max({15, base.height \div 2}), Min({maxHeight, (8 * base.height) \div 5}), i, GridSamples.h)
        r  == Spread(Max({400, (7 * base.radius) \div 10}), (13 * base.radius) \div 10, j, GridSamples.r)
        sc == Spread(Max({3, base.scales - 3}), Min({16, base.scales + 6}), k, GridSamples.s)
    IN  [base EXCEPT !.height = h, !.radius = r, !.scales = sc,
                     !.interval = (10 * (base.far - base.near)) \div Max({1, sc - 1}),
                     !.weight = (6 * base.weight * h) \div (10 * base.height)
                                    + (4 * r) \div (10 * base.radius),
                     !.precision = Max({5, (base.precision * (100 + 5 * (sc - base.scales))) \div 100})]
Candidates(base, maxHeight) ==
    {Candidate(base, maxHeight, i, j, k) : i \in 0..(GridSamples.h - 1), j \in 0..(GridSamples.r - 1), k \in 0..(GridSamples.s - 1)}

\* evaluate_design(): what a design loses for a constraint it breaks, in tenths.
Penalty(d, max) == (IF d.height > max.height THEN 5 ELSE 0) + (IF d.weight > max.weight THEN 3 ELSE 0)
                     + (IF d.cost > max.cost THEN 2 ELSE 0)
Limits == [height |-> 80, weight |-> 200, cost |-> 100]

\* The score without chance: for weights in thousandths, and the CEP that was drawn.
DesignScore(d, cep, range, w, max) ==
    (((AccuracyScore(d, cep, range) * w.accuracy + UsabilityScore(d) * w.usability
         + ManufacturingScore(d, max) * w.manufacturing + HistoricalScore(d) * w.historical)
        \div 1000) * (10 - Penalty(d, max))) \div 10

\* The base, or a candidate whose score is above all before it.  The score of one
\* that is returned is its own, times what the penalty leaves.
GridSearch(type) ==
    LET base == Base(type)
    IN  \E best \in {base} \cup Candidates(base, Limits.height), score \in Scores :
            /\ round' = [call |-> "search", base |-> base, best |-> best,
                         score |-> score * (10 - Penalty(best, Limits))]
            /\ UNCHANGED aimTarget

\* explore_parameter_space(): fewer than two samples give no points.
ParameterSpace(maxHeight, n) ==
    IF n < 2 THEN {}
    ELSE {<<Spread(15, maxHeight, i, n), Spread(400, 1200, j, n)>> : i, j \in 0..(n - 1)}

SightCall(Types) ==
    \/ \E t \in AimTargets : SetAimTarget(t) \/ Recommend(t)
    \/ CompareAll
    \/ \E types \in SUBSET Types : Optimize(types)
    \/ \E type \in Types : GridSearch(type)

----------------------------------------------------------------------------------
(* The choice and the improvements of one answer tell the same story although    *)
(* each is computed from random aims: no sight has a larger improvement than the  *)
(* one recommended, the least precise has none, and no other sight that is more   *)
(* than a percent better than it is left without one.                             *)
RoundsAgree ==
    round.call \in {"compare", "recommend"} =>
        LET r == round.results
            worst == Max({r[t].cep : t \in DOMAIN r})
        IN  \A t \in DOMAIN r :
                /\ r[t].cep >= r[round.first].cep
                /\ r[t].improvement <= r[round.first].improvement
                /\ r[t].improvement = 0 <=> 100 * (worst - r[t].cep) < Max({1, worst})
==================================================================================
