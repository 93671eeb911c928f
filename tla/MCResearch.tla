-------------------------------- MODULE MCResearch --------------------------------
(* Small instances of the library objects.  Configurations are around the numbers *)
(* at which a formation changes its shape (few, a square, too many); the ranges   *)
(* of the crossbows rise to 45 degrees, rise and fall, or rise in jumps.          *)
EXTENDS Research, BowstringMaterial, FormationFire, TLC

CONSTANTS near, none, silk, sinew, hemp, unknown

MCConfigs == {[crossbows |-> 4, spacing |-> 150, salvos |-> 3],
              [crossbows |-> 26, spacing |-> 200, salvos |-> 0]}
MCCoverages == {0, 40}

\* The first is as good as the second in all, and lighter, faster and longer-lived than
\* the third, which damping leaves all of its power.
Metrics(m, e, v, l, c, d) ==
    [mass |-> m, efficiency |-> e, velocity |-> v, lifespan |-> l, creep |-> c, loss |-> d]
MCMeasures == {Metrics(0, 4, 5, 4, 1, 3), Metrics(0, 4, 5, 3, 2, 3), Metrics(1, 5, 4, 2, 0, 0)}

Rising == [a \in 0..16 |-> 3 * a]
Falling == [a \in 0..16 |-> IF a <= 11 THEN 5 * a ELSE 55 - 3 * (a - 11)]
Jumping == [a \in 0..16 |-> IF a < 6 THEN a ELSE IF a < 12 THEN 2 * a + 7 ELSE (a * a) \div 4]
MCReaches == {Rising, Falling, Jumping}
ASSUME \A f \in MCReaches : OnePeak(f)
MCSpans == {[from |-> 5, to |-> 40, by |-> 5], [from |-> 0, to |-> 33, by |-> 10],
            [from |-> 30, to |-> 60, by |-> 4], [from |-> 40, to |-> 10, by |-> 10],
            [from |-> 40, to |-> 38, by |-> 10], [from |-> 5, to |-> 9, by |-> 0]}
MCAimTargets == {[range |-> 0, radius |-> 40]}
MCGrid == [h |-> 2, r |-> 2, s |-> 2]

----------------------------------------------------------------------------------
(* The pure functions against what they have to satisfy.                          *)
StressCurve(m) == Dataset(m.points, (m.modulus * m.elongation) \div 1000, m.elongation)
Flipped(data) == [i \in 1..Len(data) |-> [x |-> data[i].y, y |-> data[i].x]]
Tested == {m \in MaterialTable : m.points > 0}

\* The measured stress grows with the strain, the interpolation meets each point,
\* grows between them, and is held beyond the break.
ASSUME \A m \in Tested :
    LET data == StressCurve(m)
        At(x) == FromZero(data, 1, m.elongation, x)
    IN  /\ \A i \in 1..m.points : At(data[i].x) = data[i].y
        /\ \A x \in 1..(m.elongation + 9) : At(x - 1) <= At(x)
        /\ At(m.elongation + 9) = data[m.points].y
\* Stress and strain are inverse to one another at the points, up to the break.
ASSUME \A m \in Tested :
    LET data == StressCurve(m)
    IN  \A i \in 1..m.points : FromZero(Flipped(data), 0, data[m.points].y, data[i].y) = data[i].x
\* Of hemp there are no points.
ASSUME Hemp \notin Tested /\ FromZero(<<>>, 35, 35, 7) = 245 /\ Held(<<>>, 760, 100, 50) = 760
ASSUME Named("horn") = Horn /\ Named("silk_thread") = Silk /\ Named("gut") = UnknownMaterial
ASSUME LET damping == <<[x |-> 0, y |-> 12], [x |-> 100, y |-> 15]>>
       IN  \A r \in -5..150 : Held(damping, 0, 100, r) \in 12..15
ASSUME PullRatios(100, 1000, 1) = <<100>> /\ PullRatios(100, 1000, 50)[50] = 1000
ASSUME \A days \in 0..5 : LET kept == Lifespan(days, 200, 700)
                          IN  \A d \in 2..days : kept[d] <= kept[d - 1]
ASSUME CustomMaterial("gut", 2000, 100, 1300, 100, 1000, 900).cycles = 50000

\* The rows of the Q table, for anything its arguments may be.
ASSUME \A f \in {-1, 0, 9, 99}, n \in {0, 4, 40}, d \in {0, 499, 900}, c \in {0, 50, 100} :
    Discretize([min |-> 4, max |-> 16], f, n, d, c) \in 0..1999

\* A custom formation is as long as the shortest list; three volleys of a placement
\* two seconds apart; volleys until two in three of ten are shot at.
ASSUME Cardinality(CustomLayout(5, 3, 4)) = 3 /\ CustomLayout(0, 3, 4) = {}
ASSUME PlanTime(Line(4, 250), 3, 2000) = 4700 /\ PlanTime({}, 1, 2000) = 500
ASSUME SalvoVolleys(3, 7) = 3 /\ SalvoVolleys(3, 0) = 1

\* The scales asked for lie on both sides of the target's range; the search space of
\* one sample is empty, of more it keeps its corners.
ASSUME \A range \in 0..600 : LET span == CalibrationSpan([range |-> range])
                             IN  span.from < span.to /\ StepsOf(span) \in 3..12
ASSUME ParameterSpace(80, 1) = {} /\ {<<15, 400>>, <<80, 1200>>} \subseteq ParameterSpace(80, 4)
ASSUME Synthesize(6).far > Known(5).far /\ Synthesize(2) = RampSight /\ Synthesize(8).type = Custom

\* A value of the configuration replaces an argument that is the default, also one that
\* was given on purpose; a text that is no number in the environment counts for nothing.
ASSUME Argument(Absent, Absent, 9100, 9000) = 9100 /\ Argument(9001, Absent, 9100, 9000) = 9001
ASSUME Argument(9000, Absent, 9100, 9000) = 9100 /\ Argument(Absent, Unread, Absent, 9000) = 9000
ASSUME CustomSetting(Unread, 90, 150) = 90 /\ CustomSetting(80, 90, 150) = 80
ASSUME Mode(3, TRUE, TRUE, 5, 1..10) = Mode(Absent, FALSE, TRUE, 5, 1..10)
ASSUME Mode(11, FALSE, TRUE, 5, 1..10) = "exit 1"
ASSUME Mode(3, FALSE, FALSE, 0, 1..10) = "one until Ctrl-C"

----------------------------------------------------------------------------------
(* Strings.  A material no longer on the curve has no efficiency at a shorter pull *)
(* that is more than its own; a heavier arrow is slower, a drier store lasts       *)
(* longer; a string's length and thickness change nothing that is looked at when   *)
(* its sensitivity to them is.                                                     *)
Bow == [weight |-> 350, length |-> 1750, string |-> 1780, arrow |-> 95000]
ASSUME \A m \in MaterialTable : \A pull \in {-100, 0, 350, 700, 1000, 1100} :
    /\ Efficiency(m, pull) \in 1..m.efficiency /\ EfficiencyAt(m, pull) \in 1..m.efficiency
    /\ Efficiency(m, pull) <= Efficiency(m, 700) + 5 /\ 2 * Damping(m, pull) \in m.damping..3 * m.damping
ASSUME \A m \in MaterialTable : LET curve == GenerateEfficiencyCurve(m, 0)
                                IN  curve = <<Efficiency(m, 0), Efficiency(m, 1000)>>
ASSUME \A m \in Tested : \A i \in 2..m.points : EfficiencyData(m)[i].x > EfficiencyData(m)[i - 1].x
ASSUME AddPoint(<<[x |-> 1, y |-> 5], [x |-> 4, y |-> 2]>>, [x |-> 3, y |-> 9])[2].y = 9
ASSUME \A m \in MaterialTable :
    LET light == SetArrowMass(Analyzer(Bow), 1)
        shot == BowstringShot(Analyzer(Bow), m)
        metrics == ShotMetrics(Analyzer(Bow), m)
    IN  /\ light.arrow = 5000 /\ BowstringShot(light, m).velocity > shot.velocity
        /\ SetDrawDistance(light, 0).draw = 100
        /\ metrics.velocity = shot.velocity /\ metrics.penalty \in 1000..2000
        /\ metrics.tension > Bow.weight /\ shot.life < m.cycles
        /\ VelocityFromEnergy(Analyzer(Bow), m, DrawEnergy(350, 1312)) >= shot.velocity
        /\ EstimateLifespan(m, 200, 30) = EstimateLifespan(m, 200, 40)
        /\ EstimateLifespan(m, 200, 90) < EstimateLifespan(m, 200, 40)
        /\ CreepFactor(m, 2000, 25) >= CreepFactor(m, 24, 20)
ASSUME \A m \in MaterialTable : LET s == Sensitivity(StringComparisonConfig, m, 10)
                                IN  s.length = 0 /\ s.diameter = 0 /\ s.draw = s.weight /\ s.arrow > 0
ASSUME Stiffness(Silk, 0, 700) = 0 /\ WaveSpeed(350, 0) = 0

(* Sights.  Of the sight's parallax nothing is left in an aim, which is at the     *)
(* distance the sight is set to; a budget is that of the last aim; equal draws     *)
(* have no spread, and the means of two deviations from the aim differ.            *)
Zero == [i \in 1..11 |-> 0]
One == [i \in 1..11 |-> 1]
Aimed(s, z) == Aim(NewOptics, s, FifteenDegrees, 0, 300, z)
ASSUME \A i \in DOMAIN Sights : LET s == Sights[i]
    IN  /\ ParallaxError(SetDistance(NewOptics, 300), s.radius, 300, 3) = 0
        /\ Aimed(s, One) = Aimed(s, [One EXCEPT ![3] = 9, ![4] = 9])
        /\ Aimed(s, One).optics.distance = 300 /\ ErrorBudget(Aimed(s, One).optics).distance = 300
        /\ Aimed(s, One).confidence <= 500 + 5 * NewOptics.experience
        /\ SightCep(NewOptics, s, 300, <<One, One, One>>) = 0
        /\ SightCep(NewOptics, s, 300, <<One, Zero, One>>) > 0
ASSUME \A s \in {Known(1), Known(7)} : /\ MechanicalPlay(s) >= 0
                                     /\ s.radius = 0 => ThermalDistortion(s, 99) = 0
ASSUME ParallaxError(NewOptics, 0, 300, 3) = 0 /\ ParallaxError(NewOptics, 750, 100, 3) > 0
ASSUME Refraction(0, 200, 1013) = 0 /\ HeatHaze(300, 350, 350) = 0 /\ HeatHaze(300, 200, 350) > 0
ASSUME LET o == SetUser(SetAmbient(NewOptics, -5, 200, 130, -1), 0, 101)
       IN  o.light = 1 /\ o.humidity = 100 /\ o.wind = 0 /\ o.acuity = 25 /\ o.experience = 100
ASSUME VisualError(SetUser(NewOptics, 100, 100), 300) < VisualError(NewOptics, 300)
ASSUME Glare(90000, 15).error > Glare(90000, 60).error /\ Glare(0, 15).error = 0
ASSUME KnownByName("ramp_sight") = RampSight /\ KnownByName("laser").type = Custom

\* Scores are between 0 and 1, and weights add up to 1 however they are given.
ASSUME \A s \in {Synthesize(t) : t \in 0..7} :
    /\ AccuracyScore(s, 200, SetTargetRange(300)) \in 0..1000 /\ UsabilityScore(s) \in 0..1000
    /\ AccuracyScore(s, 200, 300) <= AccuracyScore(s, 100, 300)
    /\ ManufacturingScore(s, [cost |-> 100, weight |-> 300]) \in 0..1000
    /\ HistoricalScore(s) \in 0..1000
ASSUME LET w == ObjectiveWeights([accuracy |-> 70, usability |-> 40,
                                  manufacturing |-> 50, historical |-> 40])
       IN  w.accuracy + w.usability + w.manufacturing + w.historical = 1000

(* Formations.  The bearing is the angle of the direction, a bolt without          *)
(* deviation hits the centre, the probability falls with the distance within each  *)
(* piece, and never reaches the 0.3 that a point of a target with a priority of 1  *)
(* needs to count as covered: such a target is never covered at all.               *)
Archer == [x |-> 0, y |-> 0, facing |-> 0, effective |-> 1800, most |-> 3500, active |-> TRUE]
Goal(type, x, y) == [type |-> type, x |-> x, y |-> y, width |-> 400, depth |-> 200, radius |-> 0,
                     priority |-> 1000]
Draw(u, angle, range) == [u |-> u, angle |-> angle, range |-> range]
Lattice(t) == [i \in 1..81 |-> [x |-> t.x + (((i - 1) % 9) - 4) * ((2 * t.width) \div 10),
                               y |-> t.y + (((i - 1) \div 9) - 4) * ((2 * t.depth) \div 10)]]
ASSUME \A a \in {-180, -90, -17, 0, 45, 90, 133} :
    Bearing(Cosine((10 * a + 3600) % 3600), Sine((10 * a + 3600) % 3600)) \in {a - 1, a}
ASSUME \A a \in {0, 900, 2250} : LET p == [x |-> 300, y |-> 400]
                                   o == [x |-> 0, y |-> 0]
                               IN  Distance(RotatePoint(p, o, a), o) \in 497..503
ASSUME \A pair \in {<<0, 900>>, <<900, 1799>>, <<1800, 3499>>, <<3500, 6000>>} : \A type \in 0..5 :
    LET P(d) == EstimateHitProbability(Archer, Goal(type, d, 0))
    IN  P(pair[1]) >= P(pair[2]) /\ P(pair[2]) \in 1..980 /\ P(pair[1]) >= P(-pair[1] - 9)
ASSUME \A d \in {0, 5, 50, 700, 1700, 3000} :
    EstimateHitProbability(Archer, Goal(SinglePoint, d, d)) < 300
ASSUME \A type \in 0..5 : LET t == Goal(type, 900, 300)
                         IN  CalculateTargetCoverage({Archer}, t, Lattice(t)) = 0
ASSUME LET t == [Goal(Rectangle, 60, 0) EXCEPT !.priority = 3000]
       IN  CalculateTargetCoverage({Archer}, t, Lattice(t)) \in 1..391
ASSUME CalculateTargetCoverage({}, Goal(Rectangle, 9, 9), <<>>) = 0
\* What is inside a target of each kind: its centre, and of the border nothing.
ASSUME \A type \in 0..6 : LET t == [Goal(type, 50, 70) EXCEPT !.radius = 90] IN
    /\ IsPointInTarget([x |-> 50, y |-> 70], t) = (type < 6) /\ TargetArea(t) > 0
    /\ ~IsPointInTarget([x |-> 270, y |-> 70], t) \/ type = Convoy
ASSUME IsPointInTarget([x |-> 450, y |-> 270], [Goal(Convoy, 50, 70) EXCEPT !.radius = 20])
ASSUME \A u \in {0, 999} : ProjectHitPattern(Archer, Goal(Circle, 1500, 300), <<Draw(u, 0, 0)>>)[1]
                               = [x |-> 1500, y |-> 300]
ASSUME LET p == ProjectHitPattern(Archer, Goal(Rectangle, 1500, 0), <<Draw(0, 0, 2), Draw(999, 0, 2)>>)
       IN  2 * (p[2].x - 1500) = 5 * (p[1].x - 1500)
ASSUME ConcentrationScore(<<[x |-> 1, y |-> 1]>>, Goal(Linear, 9, 9)) = 1000
ASSUME ConcentrationScore(<<>>, Goal(Linear, 9, 9)) = 0 /\ AverageDistance(<<>>, Archer) = 0
ASSUME AverageDistance(<<Archer, Archer>>, Goal(Circle, 30, 40)) = 50
\* A bolt that falls less than a cell short is counted in the first row, two cells not.
ASSUME LET draws == <<Draw(0, 0, -17), Draw(0, 0, -20)>>
           heat == GenerateHeatmap(<<Archer>>, Goal(Rectangle, 1000, 0), draws)
       IN  {c \in DOMAIN heat : heat[c] > 0} = {<<10, 0>>} /\ heat[<<10, 0>>] = 1000
ASSUME LET heat == GenerateHeatmap(<<>>, Goal(Rectangle, 1000, 0), <<>>)
       IN  \A c \in DOMAIN heat : heat[c] = 0

ASSUME GetByName("wedge") = Wedge /\ GetByName("tortoise").max = 0 /\ RangesOf(<<>>, 4) = UnknownRanges
ASSUME Cardinality(ComparedLayouts(<<1, 99>>, 9)[1].placements) = 9
ASSUME ComparedLayouts(<<99>>, 9)[1].placements = {}
ASSUME LET trained == SetTrainingConditions(NewOptimizer, 4, 16, TRUE, FALSE, FALSE)
           o == SetEnvironment(trained, 1, 2, 5)
       IN  NumActions(o) = 10 /\ Discretize(o, 3, 16, 0, 0) = 775 /\ SetCrossbowTypes(o, <<1>>).types = <<1>>
ASSUME LET weights == [hit |-> 30, coverage |-> 20, saturation |-> 20,
                       logistics |-> 10, casualties |-> 20]
           Won(n, risk) == [hit |-> 500, coverage |-> 0, saturation |-> 300, logistics |-> 700,
                            casualties |-> n, risk |-> risk]
       IN  /\ EvaluateReward(Won(100, 30), weights) = EvaluateReward(Won(5000, 30), weights)
           /\ EvaluateReward(Won(100, 31), weights) < EvaluateReward(Won(100, 30), weights)
===================================================================================
