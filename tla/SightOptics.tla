-------------------------------- MODULE SightOptics --------------------------------
(* sight_optics.cpp without its two stateful users (SightCalibration,              *)
(* SightOptimizer): the table of SightDesignDatabase with the two modern sights    *)
(* that the SightOptimizer module makes up, the errors of an aim                   *)
(* (OpticalErrorSimulator), and how a design is scored.                            *)
(*                                                                                 *)
(* Of a sight: lengths are in millimetres, ranges in metres, the interval of its   *)
(* scales in tenths of a metre, weights in grams, the expansion in millionths per  *)
(* degree, precision and ratings in hundredths; names and texts are left out.      *)
EXTENDS Numbers, Sequences

Sight(type, height, radius, scales, near, far, interval, expansion, precision, weight, cost, rating, durability) ==
    [type |-> type, height |-> height, radius |-> radius, scales |-> scales, near |-> near,
     far |-> far, interval |-> interval, expansion |-> expansion, precision |-> precision,
     weight |-> weight, cost |-> cost, rating |-> rating, durability |-> durability]

Custom == 99

BasicNotch   == Sight(0, 25, 600, 3, 50, 200, 750, 12, 100, 35, 5, 35, 90)
PinSight     == Sight(1, 45, 750, 5, 50, 300, 625, 17, 50, 58, 15, 55, 80)
RampSight    == Sight(2, 55, 850, 9, 50, 450, 500, 12, 30, 95, 35, 70, 70)
MultiPin     == Sight(3, 62, 900, 5, 100, 500, 1000, 17, 35, 120, 45, 75, 60)
TangentSight == Sight(4, 72, 1000, 14, 50, 600, 423, 19, 15, 155, 80, 85, 50)
PeepSight    == Sight(5, 58, 950, 12, 50, 600, 500, 12, 8, 130, 120, 92, 55)

Sights == <<BasicNotch, PinSight, RampSight, MultiPin, TangentSight, PeepSight>>

\* SightDesignDatabase::get(): an unknown type has a design of zeros.
Known(type) == IF type \in 0..5 THEN Sights[type + 1]
               ELSE Sight(Custom, 0, 0, 0, 0, 0, 0, 0, 0, 0, 0, 0, 0)

\* get(name): an unknown name is CUSTOM, which has no design either; the Chinese name of
\* each sight is left out.
SightNames == <<"basic_notch", "single_pin", "ramp_sight", "multi_pin",
                "tangent_bar_sight", "precision_peep">>
KnownByName(name) == Known(IF \E t \in 1..6 : SightNames[t] = name
                           THEN (CHOOSE t \in 1..6 : SightNames[t] = name) - 1 ELSE Custom)

\* SightOptimizer::synthesize_design(): 6 is the diopter, 7 the telescope.
Synthesize(type) ==
    CASE type = 6 -> Sight(6, 65, 980, 16, 50, 700, 437, 12, 5, 180, 200, 95, 50)
      [] type = 7 -> Sight(7, 75, 1100, 20, 50, 1000, 500, 23, 2, 450, 500, 98, 40)
      [] OTHER -> Known(type)

\* The scales in a span [from, to, by], by > 0: ceil((to - from) / by) + 1, which
\* is negative when the span ends before it starts.
StepsOf(span) == -((span.from - span.to) \div span.by) + 1

------------------------------------------------------------------------------------
(* OpticalErrorSimulator.  Light is in lux, temperatures in tenths of a degree,    *)
(* winds in tenths of m/s, the user's acuity in hundredths of a minute of arc,     *)
(* experience and humidity in hundredths; errors are in microradians, of which tan *)
(* and atan are taken to be the identity: none is above a hundredth of a radian.   *)
NewOptics == [light |-> 10000, warmth |-> 200, humidity |-> 50, wind |-> 20,
              acuity |-> 100, experience |-> 60, distance |-> 200]

SetAmbient(o, light, warmth, humidity, wind) ==
    [o EXCEPT !.light = Max({1, light}), !.warmth = warmth,
              !.humidity = Within(0, 100, humidity), !.wind = Max({0, wind})]
SetUser(o, acuity, experience) ==
    [o EXCEPT !.acuity = Max({25, acuity}), !.experience = Within(0, 100, experience)]
SetDistance(o, distance) == [o EXCEPT !.distance = Max({1, distance})]

VisualError(o, distance) ==
    LET acuity == (291 * o.acuity) \div 100
        far    == 1000 + 2 * Max({0, distance - 100})
        dark   == 1000 + Decay(o.light) \div 2
    IN  (((((acuity * far) \div 1000) * dark) \div 1000) * (1000 - 3 * o.experience)) \div 1000

\* Of an eye `offset' millimetres off the axis, for a sight free of parallax at `free'.
ParallaxError(o, radius, free, offset) ==
    IF radius <= 0 \/ free <= 0 THEN 0
    ELSE LET gap == IF o.distance > free THEN o.distance - free ELSE free - o.distance
         IN  (((2000000 * offset) \div radius) * gap) \div Max({1, o.distance + free})

Refraction(distance, warmth, pressure) ==
    IF distance <= 0 THEN 0 ELSE (((442 * pressure) \div (warmth + 2731)) * distance) \div 10000

HeatHaze(distance, warmth, ground) ==
    IF ground <= warmth \/ distance <= 0 THEN 0
    ELSE (8 * (ground - warmth) * (1000 - Decay((5 * distance) \div 2)))
             \div (10 * Max({100, distance}))

MechanicalPlay(s) == IF s.radius <= 0 THEN 0 ELSE (15000 * s.precision) \div s.radius
ThermalDistortion(s, delta) ==
    IF s.radius <= 0 THEN 0 ELSE (s.height * s.expansion * delta) \div (10 * s.radius)

\* The glare, and the contrast it takes, in thousandths.
Glare(light, sun) ==
    LET strength == Within(0, 1000, light \div 80)
    IN  [error |-> (800 * strength * Decay(((sun - 15) * (sun - 15) * 10) \div 9)) \div 1000000,
         contrast |-> (350 * strength) \div 1000]

\* get_current_error_budget(), of the distance set or aimed at last.
ErrorBudget(o) ==
    [acuity |-> o.acuity, parallax |-> 100, distance |-> o.distance, light |-> o.light,
     glare |-> Within(0, 1000, o.light \div 100),
     contrast |-> 10 + (90 * Tanh(o.light \div 5)) \div 1000,
     refraction |-> Refraction(o.distance, o.warmth, 1013),
     haze |-> HeatHaze(o.distance, o.warmth, 350), turbulence |-> 5 * o.wind,
     relaxation |-> 700 + 3 * o.experience, seconds10 |-> 30 - (15 * o.experience) \div 100,
     play |-> 100, thermal |-> 50, vibration |-> 30 + 2 * o.wind]

\* simulate_single_aim() for the eleven random numbers z it draws in this order, in
\* deviations from the mean; those of a Cauchy distribution are z[3] and z[4].  The
\* distance aimed at stays set.  Offsets are in millimetres, confidence in thousandths.
Aim(o, s, elevation, azimuth, distance, z) ==
    LET at     == [o EXCEPT !.distance = distance]
        visual == VisualError(at, distance) \div 2
        eye    == ParallaxError(at, s.radius, distance, 3) \div 2
        mech   == MechanicalPlay(s) \div 2
        haze   == HeatHaze(distance, o.warmth, 350)
        air    == 3 * o.wind
        up     == visual * z[1] + (eye \div 2) * z[3] + mech * z[6]
                    + (3 * ThermalDistortion(s, o.warmth - 200)) \div 10
                    - Refraction(distance, o.warmth, 1013) \div 2
                    + ((4 * haze) \div 10) * z[8] + air * z[9]
        side   == ((9 * visual) \div 10) * z[2] + ((4 * eye) \div 10) * z[4]
                    + Glare(o.light, 30).error * z[5] + ((8 * mech) \div 10) * z[7]
                    + (haze \div 2) * z[10] + ((13 * air) \div 10) * z[11]
        most   == Max({100, 5 * visual + 3 * mech + 3 * haze + 500})
    IN  [optics |-> at, elevation |-> elevation + up, azimuth |-> azimuth + side,
         x |-> (side * distance) \div 1000, y |-> (up * distance) \div 1000,
         confidence |-> (Max({0, 1000 - (1000 * Root(up * up + side * side)) \div most})
                             * (500 + 5 * o.experience)) \div 1000]

\* simulate_multiple_aims() and estimate_sight_cep(), for draws[i] of the i-th aim.
Aims(o, s, elevation, azimuth, distance, draws) ==
    [i \in 1..Len(draws) |-> Aim(o, s, elevation, azimuth, distance, draws[i])]
FifteenDegrees == 261799
SightCep(o, s, distance, draws) ==
    LET n == Len(draws)
        aims == Aims(o, s, FifteenDegrees, 0, distance, draws)
        Variance(v(_)) == LET Square(i) == v(i) * v(i)
                              sum == SumUpTo(n, v)
                          IN  (SumUpTo(n, Square) - (sum * sum) \div n) \div Max({1, n - 1})
        X(i) == aims[i].x
        Y(i) == aims[i].y
    IN  (1177 * Root(Variance(X) + Variance(Y))) \div 1000

------------------------------------------------------------------------------------
(* How SightOptimizer scores a design, in thousandths: its accuracy from the CEP   *)
(* (in millimetres) of aims at the range, its use, its making and its history.     *)
SetTargetRange(range) == Max({1, range})

AccuracyScore(s, cep, range) ==
    (500 * Decay((80 * cep) \div Max({100, range}))
       + 150 * (10000000 \div (10000 + s.height * s.height))
       + 200 * (1000 - Decay((5 * s.radius) \div 4))
       + 150 * (1000 - Decay(10000 \div Max({1, s.precision})))) \div 1000

UsabilityScore(s) ==
    (2500 * s.rating + 250 * (1000 - Decay((500 * s.scales) \div 3))
       + 200 * Decay(((s.interval - 500) * (s.interval - 500)) \div 250)
       + 150 * (1000 - Root(1000 * Within(0, 1000, 10 * (s.height - 30))))
       + 150 * (300000 \div (300 + s.weight))) \div 1000

\* With limits above 0.
ManufacturingScore(s, limits) ==
    (250 * (1000 - Decay(10000 \div Max({2, s.precision})))
       + 350 * (1000 - Within(0, 1000, (1000 * s.cost) \div limits.cost))
       + 200 * (1000 - Within(0, 1000, (1000 * s.weight) \div limits.weight))
       + 2000 * s.durability) \div 1000

HistoricalScore(s) ==
    IF s.type \in 0..5 THEN <<950, 900, 800, 700, 500, 200>>[s.type + 1]
    ELSE IF s.type = Custom THEN 300 ELSE 500

\* set_objective_weights(), given in hundredths: the share of each in their sum, or the
\* weights as they are if that is not positive.
ObjectiveWeights(w) ==
    LET sum == w.accuracy + w.usability + w.manufacturing + w.historical
    IN  [k \in DOMAIN w |-> IF sum <= 0 THEN 10 * w[k] ELSE (1000 * w[k]) \div sum]
====================================================================================
