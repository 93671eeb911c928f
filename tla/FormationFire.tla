------------------------------ MODULE FormationFire ------------------------------
(* What a formation's bolts reach: the geometry of a target, the probability of   *)
(* a hit, the pattern of the shots (FormationSimulator), how near and how dense   *)
(* they are (FormationSimulatorModule), and what the learning optimizer makes of  *)
(* an engagement.                                                                 *)
(*                                                                                *)
(* Lengths are in tenths of a metre, ratios in thousandths, directions in degrees.*)
(* A target is [type, x, y, width, depth, radius, priority]; a crossbow is        *)
(* [x, y, facing, effective, most], the last two from set_crossbow_types(), or    *)
(* the ranges of an unknown type; a point is [x, y].                              *)
EXTENDS FormationLayout, Numbers, Sequences

SinglePoint == 0
Rectangle == 1
Circle == 2
Linear == 3
Convoy == 4
Fortification == 5

UnknownRanges == [effective |-> 1800, most |-> 3500]
RangesOf(types, id) == IF id \in DOMAIN types THEN types[id] ELSE UnknownRanges

\* The direction in tenths of a degree, 0 or more.
RotatePoint(p, c, angle) ==
    LET dx == p.x - c.x
        dy == p.y - c.y
    IN  [x |-> c.x + (dx * Cosine(angle) - dy * Sine(angle)) \div 500,
         y |-> c.y + (dx * Sine(angle) + dy * Cosine(angle)) \div 500]

Distance(p, q) == Root((p.x - q.x) * (p.x - q.x) + (p.y - q.y) * (p.y - q.y))

TargetArea(t) ==
    CASE t.type = Rectangle     -> t.width * t.depth
      [] t.type = Circle        -> (314 * t.radius * t.radius) \div 100
      [] t.type = Linear        -> t.width * 30
      [] t.type = Convoy        -> (t.width * t.depth) \div 2
      [] t.type = Fortification -> (12 * t.width * t.depth) \div 10
      [] OTHER                  -> 100

Near(n, limit) == n < limit /\ -n < limit
IsPointInTarget(p, t) ==
    LET dx == p.x - t.x
        dy == p.y - t.y
        part == Within(0, 1000, (1000 * dx) \div Max({1, t.width}))
    IN  CASE t.type = SinglePoint   -> dx * dx + dy * dy < 400
          [] t.type = Rectangle     -> Near(2 * dx, t.width) /\ Near(2 * dy, t.depth)
          [] t.type = Circle        -> dx * dx + dy * dy < t.radius * t.radius
          [] t.type = Linear        -> Near(2 * dx, t.width) /\ Near(dy, 15)
          [] t.type = Convoy        -> Near((part * t.depth) \div 1000 - dy, t.radius)
          [] t.type = Fortification -> Near(20 * dx, 11 * t.width) /\ Near(20 * dy, 11 * t.depth)
          [] OTHER                  -> FALSE

\* std::atan2(dy, dx), rounded down.
Bearing(dx, dy) ==
    LET Left(a) == dy * Cosine((10 * a + 3600) % 3600) - dx * Sine((10 * a + 3600) % 3600)
    IN  IF dx = 0 /\ dy = 0 THEN 0 ELSE CHOOSE a \in -180..179 : Left(a) >= 0 /\ Left(a + 1) < 0

\* Three pieces: to the effective range, to the maximum range, beyond it.
RangeFactor(p, d) ==
    IF d < p.effective THEN 1000 - (100 * d) \div p.effective
    ELSE IF d < p.most THEN 900 - (900 * (d - p.effective)) \div (p.most - p.effective)
    ELSE (50 * Decay(d - p.most)) \div 1000

EstimateHitProbability(p, t) ==
    LET d     == Distance(p, t)
        sigma == Max({10, (15 * d) \div 1000})
        area  == 1000 - Decay(((TargetArea(t) * 159) \div sigma) \div sigma)
        aside == ((Bearing(t.x - p.x, t.y - p.y) - p.facing + 180) % 360) - 180
        angle == Decay((1000 * aside * aside) \div 2025)
    IN  Within(1, 980, (((((RangeFactor(p, d) * area) \div 1000) * angle) \div 1000) * t.priority)
                           \div 1000)

\* project_hit_pattern() for a list of draws [u, angle, range]: u below the probability
\* is a hit, the others are deviations, for a miss 2.5 times as large.  The angles are
\* small; the crossbow does not stand on the target.
ProjectHitPattern(p, t, draws) ==
    LET d     == Distance(p, t)
        sigma == Max({10, (12 * d) \div 1000})
        Shot(z) ==
            LET wide == IF z.u < EstimateHitProbability(p, t) THEN 10 ELSE 25
                aside == (wide * sigma * z.angle) \div 10
                along == d + (wide * sigma * z.range) \div 10
                dx == t.x - p.x
                dy == t.y - p.y
            IN  [x |-> p.x + (along * (dx - (aside * dy) \div d)) \div d,
                 y |-> p.y + (along * (dy + (aside * dx) \div d)) \div d]
    IN  [i \in DOMAIN draws |-> Shot(draws[i])]

\* calculate_target_coverage() for a sample of points: those that count are in the
\* target and hit with more than 0.3, but they are a share of the whole sample.
CalculateTargetCoverage(placements, t, sample) ==
    IF placements = {} \/ TargetArea(t) <= 0 THEN 0
    ELSE LET At(q) == [t EXCEPT !.type = SinglePoint, !.x = q.x, !.y = q.y]
             hits == {i \in DOMAIN sample :
                         /\ IsPointInTarget(sample[i], t)
                         /\ \E p \in placements : EstimateHitProbability(p, At(sample[i])) > 300}
         IN  (1000 * Cardinality(hits)) \div Len(sample)

\* FormationSimulator::compare_formations(): each type at its own spacing.
ComparedLayouts(types, n) ==
    [i \in DOMAIN types |-> [formation |-> types[i], placements |-> Layout(types[i], n, 1, 1)]]

----------------------------------------------------------------------------------
(* FormationSimulatorModule: how far the crossbows are, how close the hits lie.   *)
AverageDistance(placements, t) ==
    LET n == Len(placements)
        To(i) == Distance(placements[i], t)
    IN  IF n = 0 THEN 0 ELSE SumUpTo(n, To) \div n

\* compute_concentration_score() takes the area of any but a circle or a point from
\* its width and depth.
ConcentrationScore(pattern, t) ==
    LET n == Len(pattern)
        X(i) == pattern[i].x
        Y(i) == pattern[i].y
        mx == SumUpTo(n, X) \div n
        my == SumUpTo(n, Y) \div n
        Square(i) == (X(i) - mx) * (X(i) - mx) + (Y(i) - my) * (Y(i) - my)
        area == CASE t.type \in {Rectangle, Linear, Convoy, Fortification} -> t.width * t.depth
                  [] t.type = Circle -> (314 * t.radius * t.radius) \div 100
                  [] OTHER -> 100
        radius == IF area > 0 THEN Root((100 * area) \div 314) ELSE 10
    IN  IF n = 0 THEN 0
        ELSE Min({1000, (1000 * radius) \div Max({1, Root(SumUpTo(n, Square) \div n)})})

\* static_cast<int> of a quotient rounds towards zero: what lies less than a cell
\* before the first is counted in it.
Truncated(a, b) == IF a < 0 THEN -((-a) \div b) ELSE a \div b

\* generate_heatmap(): rows of y from the south, the fullest cell 1000.
GridSize == 20
GenerateHeatmap(placements, t, draws) ==
    LET Half(length) == IF t.radius > 0 THEN t.radius ELSE IF length > 0 THEN length \div 2 ELSE 500
        Cell(h, centre, half) == Truncated((h - (centre - half)) * GridSize, 2 * half)
        active == {p \in DOMAIN placements : placements[p].active}
        Hits(p) == ProjectHitPattern(placements[p], t, draws)
        hits == {<<p, i, Cell(Hits(p)[i].y, t.y, Half(t.depth)),
                         Cell(Hits(p)[i].x, t.x, Half(t.width))>> :
                    p \in active, i \in DOMAIN draws}
        cells == (0..(GridSize - 1)) \X (0..(GridSize - 1))
        Count(c) == Cardinality({h \in hits : <<h[3], h[4]>> = c})
        most == Max({Count(c) : c \in cells})
    IN  [c \in cells |-> IF most = 0 THEN 0 ELSE (1000 * Count(c)) \div most]

----------------------------------------------------------------------------------
(* FormationRLOptimizer: its settings, and what an engagement is worth.           *)
NewOptimizer == [types |-> <<>>, target |-> [type |-> SinglePoint], windX |-> 0, windY |-> 0,
                 visibility |-> 10, min |-> 6, max |-> 48,
                 formation |-> TRUE, spacing |-> TRUE, orientation |-> TRUE]
SetCrossbowTypes(o, types) == [o EXCEPT !.types = types]
SetEnvironment(o, x, y, visibility) ==
    [o EXCEPT !.windX = x, !.windY = y, !.visibility = visibility]
SetTrainingConditions(o, min, max, formation, spacing, orientation) ==
    [o EXCEPT !.min = min, !.max = max, !.formation = formation, !.spacing = spacing,
              !.orientation = orientation]

\* evaluate_reward(), in hundred-thousandths; weights are hundredths, the friendly risk
\* is a radius in metres.
EvaluateReward(e, w) ==
    e.hit * w.hit + e.coverage * w.coverage + e.saturation * w.saturation
      + e.logistics * w.logistics + 10 * Min({100, e.casualties}) * w.casualties - 50 * e.risk
=================================================================================
