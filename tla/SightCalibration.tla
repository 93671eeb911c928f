---------------------------- MODULE SightCalibration ----------------------------
(* SightScaleCalibrator: the elevation that carries an arrow to a range, the     *)
(* scales engraved for a row of ranges, and the range read back from a height.   *)
(*                                                                               *)
(* Elevations are ticks, Top of them for 45 degrees; tan and atan, which turn an *)
(* angle into a height on the sight and back, undo one another, so a height is   *)
(* named by its angle.  How far an arrow flies is any function of Reaches.       *)
EXTENDS SightOptics, Sequences, FiniteSetsExt

CONSTANTS
    Top,        \* ticks in 45 degrees
    Reaches,    \* range by elevation of the crossbows looked at
    Spans,      \* the [from, to, by] that a calibration is asked for
    Slips       \* manufacturing errors of a scale, in ticks

ASSUME CalibrationAssumption ==
    /\ Top \in Nat \ {0}
    /\ \A reach \in Reaches : reach \in [0..Top -> Nat]
    /\ \A s \in Spans : s.from \in Nat /\ s.to \in Nat /\ s.by \in Int
    /\ Slips \subseteq Int /\ 0 \in Slips

VARIABLES
    reach,      \* the crossbow, as DynamicsModel::simulate_trajectory() makes it shoot
    sight,      \* sight_
    solved,     \* the length of ballistic_ranges_ and ballistic_angles_
    scales,     \* what calibrate_scales() last returned, <<>> if it threw
    reading     \* what estimate_range_from_sight_height() last returned

calibrationVars == <<reach, sight, solved, scales, reading>>

NoReading == [angle |-> -1, range |-> -1]

CalibrationInit ==
    /\ reach \in Reaches /\ sight \in {Known(t) : t \in 0..5}
    /\ solved = 0 /\ scales = <<>> /\ reading = NoReading

SetCrossbow(r) ==
    /\ reach' = r /\ solved' = 0 /\ scales' = <<>> /\ reading' = NoReading
    /\ UNCHANGED sight

SetSightDesign(type) ==
    /\ sight' = Known(type) /\ scales' = <<>> /\ reading' = NoReading
    /\ UNCHANGED <<reach, solved>>

\* compute_required_elevation(): bisection of 0..45 degrees.  The last tick stands
\* for the halvings below it.  The first of the nearest elevations tried is kept.
Miss(a, range) == IF reach[a] > range THEN reach[a] - range ELSE range - reach[a]

\* Mutant: the later elevation, however near.
LaterTried(a, b, range) == b

Closer(a, b, range) == IF Miss(a, range) <= Miss(b, range) THEN a ELSE b
RequiredElevation(range) ==
    LET Nearest[p \in (0..Top) \X (0..Top)] ==
            LET mid  == (p[1] + p[2]) \div 2
                half == IF reach[mid] > range THEN <<p[1], mid>> ELSE <<mid, p[2]>>
            IN  IF p[2] <= p[1] + 1 THEN Closer(p[1], p[2], range)
                ELSE Closer(mid, Nearest[half], range)
    IN  Nearest[<<0, Top>>]

\* calibrate_scales(): at most scale_count scales, spread evenly over the span.
\* reserve() of a negative number throws.
Ranges(s, steps) ==
    [i \in 1..steps |-> s.from + ((i - 1) * (s.to - s.from)) \div Max({1, steps - 1})]
Scale(range, slip) ==
    LET a == RequiredElevation(range) IN [range |-> range, angle |-> a, height |-> a + slip]
CalibrateScales(s) ==
    /\ IF s.by <= 0 \/ StepsOf(s) < 0 THEN scales' = <<>> /\ UNCHANGED solved
       ELSE LET steps == Min({StepsOf(s), sight.scales})
            IN  \E slip \in Slips :
                    /\ scales' = [i \in 1..steps |->
                                     Scale(Ranges(s, steps)[i], IF i = 1 THEN 0 ELSE slip)]
                    /\ solved' = solved + steps
    /\ reading' = NoReading
    /\ UNCHANGED <<reach, sight>>

\* generate_ballistic_table(): not limited by the sight's scales.
BallisticTable(s) ==
    /\ s.by > 0 /\ StepsOf(s) >= 0
    /\ solved' = solved + StepsOf(s)
    /\ UNCHANGED <<reach, sight, scales, reading>>

\* estimate_range_from_sight_height(): the first pair of neighbours around the
\* angle, whichever of them is the higher; t is divided by at least 1e-6 degrees,
\* so a falling pair gives a range far off.
FarOff == 1000000
Estimate(a) ==
    LET n == Len(scales)
        around == {i \in 2..n : \/ scales[i - 1].angle <= a /\ a <= scales[i].angle
                                \/ scales[i].angle <= a /\ a <= scales[i - 1].angle}
        p == scales[Min(around) - 1]
        q == scales[Min(around)]
    IN  IF n < 2 THEN -1
        ELSE IF around # {} THEN
            IF a = p.angle THEN p.range
            ELSE IF q.angle > p.angle
                 THEN p.range + ((a - p.angle) * (q.range - p.range)) \div (q.angle - p.angle)
                 ELSE FarOff
        ELSE IF a < scales[1].angle THEN scales[1].range \div 2
        ELSE (6 * scales[n].range) \div 5

EstimateRange(a) ==
    /\ reading' = [angle |-> a, range |-> Estimate(a)]
    /\ UNCHANGED <<reach, sight, solved, scales>>

Calibration(MaxSolved) ==
    \/ \E r \in Reaches : SetCrossbow(r)
    \/ \E t \in 0..6 : SetSightDesign(t)
    \/ solved < MaxSolved /\ \E s \in Spans : CalibrateScales(s) \/ BallisticTable(s)
    \/ \E a \in 0..Top : EstimateRange(a)

----------------------------------------------------------------------------------
\* The range of a scale is reached at 45 degrees.
Reached(i) == scales[i].range <= reach[Top]
Farthest == CHOOSE a \in 0..Top : \A b \in 0..Top : reach[b] <= reach[a]

\* The range first grows with the elevation and may then fall.
OnePeak(f) ==
    \E peak \in 0..Top : \A a, b \in 0..Top :
        a <= b => (b <= peak => f[a] <= f[b]) /\ (peak <= a => f[b] <= f[a])

(* For a crossbow whose range first grows with the elevation and may then fall,   *)
(* and whatever span was asked for: of a scale whose range is reached at 45       *)
(* degrees, no elevation below that of the farthest shot comes nearer to the      *)
(* range than the bisection does; such scales of growing ranges are engraved in   *)
(* growing order, also next to scales that are not reached; and a range read back *)
(* between two of them lies between the ranges of two scales around the height.   *)
(* Nothing is said of the ranges between that of 45 degrees and the farthest      *)
(* shot, where the bisection may turn away from an elevation that would do.       *)
ScalesReadBack ==
    /\ \A i \in 1..Len(scales) : Reached(i) =>
           \A a \in 0..Farthest :
               Miss(scales[i].angle, scales[i].range) <= Miss(a, scales[i].range)
    /\ \A i \in 2..Len(scales) :
           Reached(i) /\ scales[i - 1].range <= scales[i].range
           => scales[i - 1].angle <= scales[i].angle
    /\ \A i \in 2..Len(scales) :
           Reached(i) /\ scales[i - 1].angle <= reading.angle /\ reading.angle <= scales[i].angle
           => \E j \in 2..i :
                  /\ scales[j - 1].angle <= reading.angle /\ reading.angle <= scales[j].angle
                  /\ Min({scales[j - 1].range, scales[j].range}) <= reading.range
                  /\ reading.range <= Max({scales[j - 1].range, scales[j].range})
==================================================================================
