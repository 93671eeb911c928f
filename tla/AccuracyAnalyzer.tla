---------------------------- MODULE AccuracyAnalyzer ----------------------------
(* The statistics of AccuracyAnalyzer, which AccuracyService asks for with a list *)
(* of shots.  A shot is [x, y, velocity, range, angle]: spreads in millimetres,   *)
(* velocities and ranges in tenths, angles in thousandths of a degree; means are  *)
(* rounded down, slopes are hundredths.                                           *)
EXTENDS Numbers, Sequences, SequencesExt

Values(shots, field) == [i \in DOMAIN shots |-> shots[i][field]]

Mean(values) == LET At(i) == values[i]
                IN  IF values = <<>> THEN 0 ELSE SumUpTo(Len(values), At) \div Len(values)

\* The sum of the products of two lists' deviations from their means.
CrossDeviation(v, w) ==
    LET Product(i) == (v[i] - Mean(v)) * (w[i] - Mean(w)) IN SumUpTo(Len(v), Product)

\* calculate_std(): of a sample, 0 of fewer than two.
Std(values) ==
    IF Len(values) < 2 THEN 0 ELSE Root(CrossDeviation(values, values) \div (Len(values) - 1))

CircularErrorProbable(sx, sy) == (1177 * Root(sx * sx + sy * sy)) \div 1000

\* The slope of the regression of the aim on the range, 0 when all ranges are equal.
OptimalSightScale(shots) ==
    LET ranges == Values(shots, "range")
        below == CrossDeviation(ranges, ranges)
    IN  IF shots = <<>> \/ below = 0 THEN 0
        ELSE (100 * CrossDeviation(ranges, Values(shots, "angle"))) \div below

\* calculate_sight_adjustments(): of five shots or more, at each of the ranges that has
\* three within 30 m, half the mean spread the other way.
RangeBins == <<500, 1000, 1500, 2000, 2500, 3000, 4000, 5000, 6000>>
SightAdjustments(shots) ==
    LET Nearby(bin) == SelectSeq(shots, LAMBDA s : s.range - bin < 300 /\ bin - s.range < 300)
        Adjust(bin) == <<bin, -((Mean(Values(Nearby(bin), "x")) + Mean(Values(Nearby(bin), "y")))
                                    \div 2)>>
        bins == SelectSeq(RangeBins, LAMBDA bin : Len(Nearby(bin)) >= 3)
    IN  IF Len(shots) < 5 THEN <<>> ELSE [i \in DOMAIN bins |-> Adjust(bins[i])]

\* analyze(): zeros and no adjustments for no shots.
Analyze(shots) ==
    LET M(field) == Mean(Values(shots, field))
        S(field) == Std(Values(shots, field))
    IN  [shots |-> Len(shots), meanX |-> M("x"), meanY |-> M("y"), stdX |-> S("x"), stdY |-> S("y"),
         cep |-> CircularErrorProbable(S("x"), S("y")), velocity |-> M("velocity"),
         stdVelocity |-> S("velocity"), range |-> M("range"),
         scale |-> OptimalSightScale(shots), adjustments |-> SightAdjustments(shots)]
=================================================================================
