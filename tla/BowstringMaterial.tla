----------------------------- MODULE BowstringMaterial -----------------------------
(* One material of a bowstring: the table of BowstringMaterialDatabase, what      *)
(* BowstringMaterial computes, its measured data included, and the figures that   *)
(* BowstringPerformanceAnalyzer and StringComparator derive for one material.     *)
(* How materials are ranked and chosen is in BowstringMaterials.                  *)
(*                                                                                *)
(* Modulus and strength are in megapascals, the density in kg/m3, thickness in    *)
(* tenths of a millimetre, the coefficient of temperature in ten-thousandths;     *)
(* elongation at break, efficiency, damping, moisture and ratios of the pull in   *)
(* thousandths; `points' is the size of the experimental dataset, 0 for none.     *)
(* A Chinese name is written as its English alias, beside which it stands.        *)
EXTENDS Numbers, SequencesExt

Material(alias, name, modulus, strength, density, elongation, damping, efficiency, cycles, moisture, warming, thickness, strands, points) ==
    [name |-> name, names |-> {name, alias}, modulus |-> modulus, strength |-> strength,
     density |-> density, elongation |-> elongation, damping |-> damping,
     efficiency |-> efficiency, cycles |-> cycles, moisture |-> moisture, warming |-> warming,
     thickness |-> thickness, strands |-> strands, points |-> points]

Sinew == Material("sinew", "animal_sinew", 1800, 120, 1150, 220, 1200, 880, 80000, 650, 80, 18,
                  14, 15)
Horn  == Material("horn", "animal_horn_sinew", 7500, 210, 1350, 90, 3800, 910, 45000, 450, 40,
                  22, 10, 13)
Silk  == Material("silk", "silk_thread", 10500, 420, 1380, 170, 2100, 930, 25000, 300, 20, 12,
                  32, 17)
Hemp  == Material("hemp", "hemp_fiber", 35000, 180, 1500, 35, 5500, 760, 120000, 250, 15, 35,
                  24, 0)

MaterialTable == {Sinew, Horn, Silk, Hemp}
UnknownMaterial == Material("unknown", "unknown", 0, 0, 0, 0, 0, 0, 0, 0, 0, 0, 0, 0)

\* get(name): the material of that name or alias.
Named(name) ==
    IF \E m \in MaterialTable : name \in m.names
    THEN CHOOSE m \in MaterialTable : name \in m.names ELSE UnknownMaterial

\* create_custom(): the caller's values, and the rest of no other material.
CustomMaterial(name, modulus, strength, density, elongation, damping, efficiency) ==
    Material(name, name, modulus, strength, density, elongation, damping, efficiency, 50000,
             400, 50, 20, 16, 0)

------------------------------------------------------------------------------------
(* The formulas of BowstringMaterial: masses are in milligrams, lengths in         *)
(* millimetres, areas in hundredths of a square millimetre, forces in newtons.     *)
StrandArea(m) == (314 * m.thickness * m.thickness * m.strands) \div 400
StringMass(m, length) == (m.density * ((length * StrandArea(m)) \div 100)) \div 1000

Stiffness(m, length, area) == IF length <= 0 THEN 0 ELSE (m.modulus * area) \div length

\* In m/s, of a string of so many milligrams per millimetre.
WaveSpeed(tension, linear) == IF linear <= 0 THEN 0 ELSE Root((1000 * tension) \div linear)

\* calculate_efficiency_at_pull(): three quarters of the efficiency, and most of the
\* fourth around 70 % of the pull.
EfficiencyAt(m, ratio) ==
    LET r == Within(0, 1000, ratio)
        bell == Decay(((r - 700) * (r - 700)) \div 250)
    IN  (750 * m.efficiency + (250 * m.efficiency * (300 + (700 * bell) \div 1000)) \div 1000)
            \div 1000

\* In millionths; temperatures in degrees.
CreepFactor(m, hours, warmth) ==
    1000000 + (((m.elongation * (10000 + m.warming * Max({0, warmth - 20}))) \div 1000)
                   * (1000 - Decay(hours))) \div 1000

\* In days; (1000 / (cycles + 1)) to the power of 0.7 is taken to that of 11/16.
CycleFactor(cycles) ==
    LET Half(x) == Root(1000 * x)
        second == Half(1000000 \div (cycles + 1))
        eighth == Half(Half(second))
    IN  (((second * eighth) \div 1000) * Half(eighth)) \div 1000
EstimateLifespan(m, cycles, humidity) ==
    LET dry == 1000000 \div (1000 + (m.moisture * Max({0, humidity - 40})) \div 100)
        days == (((m.cycles * 365) \div (365 * cycles + 1)) * CycleFactor(cycles)) \div 1000
    IN  (days * dry) \div 1000

------------------------------------------------------------------------------------
(* interpolate_stress(), _strain(), _efficiency(), _damping(): `data' is a list    *)
(* of [x, y] sorted by x; above the last point the value is held, between two      *)
(* points it lies on the line through them.                                        *)
Between(p, q, x) == IF q.x = p.x THEN p.y ELSE p.y + ((x - p.x) * (q.y - p.y)) \div (q.x - p.x)
Along(data, x) ==
    IF x >= data[Len(data)].x THEN data[Len(data)].y
    ELSE LET i == Min({i \in 2..Len(data) : data[i].x >= x}) IN Between(data[i - 1], data[i], x)

\* Stress and strain grow from 0 to the first point, by `slope' without any points.
FromZero(data, slope, limit, x) ==
    LET s == Min({x, limit})
    IN  IF data = <<>> \/ x <= 0 THEN slope * Max({0, x})
        ELSE IF s <= data[1].x THEN (data[1].y * s) \div data[1].x
        ELSE Along(data, s)
\* Efficiency and damping are held below the first point, too.
Held(data, otherwise, full, x) ==
    LET r == Max({0, Min({full, x})})
    IN  IF data = <<>> THEN otherwise ELSE IF r <= data[1].x THEN data[1].y ELSE Along(data, r)

\* add_experimental_dataset(): n points up to the elongation at break, where the
\* stress is 85 % of what the modulus gives.
Dataset(n, stress, elongation) ==
    [i \in 1..n |-> [x |-> ((i - 1) * elongation) \div (n - 1),
                     y |-> (stress * (i - 1) * (100 * (n - 1) * (n - 1) - 15 * (i - 1) * (i - 1)))
                              \div (100 * (n - 1) * (n - 1) * (n - 1))]]

\* calculate_efficiency_curve() and calculate_lifespan_curve(), in thousandths.
PullRatios(from, to, samples) ==
    [i \in 1..samples |-> from + ((i - 1) * (to - from)) \div Max({1, samples - 1})]
Lifespan(days, perDay, maxCycles) ==
    [day \in 1..days |-> LET left == Max({0, maxCycles - perDay * day})
                         IN  1000 - (250 * (maxCycles - left)) \div maxCycles]


\* add_experimental_point(): measured at an earlier pull, listed earlier.
AddPoint(data, point) == SortSeq(Append(data, point), LAMBDA p, q : p.x < q.x)

\* The other columns of the dataset, over the ratio of the pull.
Column(n, value) ==
    [i \in 1..n |-> LET r == ((i - 1) * 1000) \div (n - 1) IN [x |-> r, y |-> value[r]]]
EfficiencyData(m) ==
    LET Bell(r) == Decay((2 * (r - 700) * (r - 700)) \div 405)
        At[r \in 0..1000] == (720 * m.efficiency
                                + (280 * m.efficiency * (250 + (750 * Bell(r)) \div 1000)) \div 1000) \div 1000
    IN  Column(m.points, At)
DampingData(m) ==
    LET At[r \in 0..1000] == (m.damping * (1000 + (300 * r) \div 1000)) \div 1000
    IN  Column(m.points, At)

Efficiency(m, ratio) == Held(EfficiencyData(m), EfficiencyAt(m, ratio), 1000, ratio)
Damping(m, ratio) == Held(DampingData(m), m.damping, 1000, ratio)

------------------------------------------------------------------------------------
(* BowstringPerformanceAnalyzer: energies are in millijoules, velocities in tenths *)
(* of a metre per second.                                                          *)
Analyzer(bow) == [weight |-> bow.weight, draw |-> (3 * bow.length) \div 4, arrow |-> bow.arrow,
                  length |-> 2 * bow.string]
SetDrawDistance(analyzer, draw) == [analyzer EXCEPT !.draw = Max({100, draw})]
SetArrowMass(analyzer, grams) == [analyzer EXCEPT !.arrow = Max({5000, 1000 * grams})]

MaxTension(m) == (((m.strength * StrandArea(m)) \div 100) * 8) \div 10
Velocity(energy, mass) == Root(100 * ((2000 * energy) \div mass))
DrawEnergy(weight, draw) == (weight * draw) \div 3

\* estimate_velocity_from_energy() and simulate_shot() take a quarter of the string
\* along, and 28 % of it.
VelocityFromEnergy(analyzer, m, energy) ==
    Velocity((energy * EfficiencyAt(m, 1000)) \div 1000,
             analyzer.arrow + StringMass(m, analyzer.length) \div 4)
BowstringShot(analyzer, m) ==
    LET energy == DrawEnergy(analyzer.weight, analyzer.draw)
        mass == StringMass(m, analyzer.length)
        used == EfficiencyAt(m, 1000)
    IN  [mass |-> mass, efficiency |-> used,
         wave |-> WaveSpeed(analyzer.weight, mass \div analyzer.length),
         loss |-> (((energy * (1000 - used)) \div 1000) * 6) \div 10,
         decay |-> (5 * mass) \div Max({1, m.damping}), creep |-> CreepFactor(m, 2, 25) \div 20,
         life |-> Max({0, m.cycles - 1000}),
         velocity |-> Velocity((energy * used) \div 1000, analyzer.arrow + (28 * mass) \div 100)]

\* What compare_materials() reports of one material.
ShotMetrics(analyzer, m) ==
    LET shot == BowstringShot(analyzer, m)
        lost == (1000 * shot.loss) \div ((analyzer.weight * analyzer.draw) \div 2)
    IN  [velocity |-> shot.velocity, tension |-> MaxTension(m), mass |-> shot.mass, lost |-> lost,
         lifespan |-> EstimateLifespan(m, 200, 50),
         penalty |-> 1000 + Tanh((shot.mass \div 500 + 10 * lost + m.damping \div 2) \div 20)]

------------------------------------------------------------------------------------
(* StringComparator.                                                               *)
StringComparisonConfig == [length |-> 1200, diameter |-> 30, draw |-> 550, weight |-> 350,
                           arrow |-> 50000, humidity |-> 50, cycles |-> 100]

StoredEnergy(config, m) == (DrawEnergy(config.weight, config.draw) * Efficiency(m, 1000)) \div 1000
EstimateVelocity(config, m) ==
    LET mass == config.arrow + StringMass(m, config.length) \div 4
    IN  IF mass <= 0 THEN 0 ELSE Velocity(StoredEnergy(config, m), mass)

EvaluateMaterial(config, m) ==
    LET area == (314 * config.diameter * config.diameter) \div 400
    IN  [mass |-> StringMass(m, config.length), stiffness |-> Stiffness(m, config.length, area),
         efficiency |-> Efficiency(m, 1000), stored |-> StoredEnergy(config, m),
         velocity |-> EstimateVelocity(config, m),
         stress |-> (100 * config.weight) \div Max({1, area}),
         lifespan |-> EstimateLifespan(m, config.cycles, config.humidity),
         creep |-> CreepFactor(m, 24, 25)]

\* generate_efficiency_curve()
GenerateEfficiencyCurve(m, points) ==
    LET ratios == PullRatios(0, 1000, Max({2, points}))
    IN  [i \in DOMAIN ratios |-> Efficiency(m, ratios[i])]

\* get_parameter_sensitivity(): what one figure changes by, in thousandths of itself,
\* when one parameter is so many hundredths larger.
Sensitivity(config, m, percent) ==
    LET grown == 100 + Within(1, 50, percent)
        base == EvaluateMaterial(config, m)
        Change(parameter, figure) ==
            LET changed == EvaluateMaterial([config EXCEPT ![parameter] = (@ * grown) \div 100], m)
            IN  (1000 * Max({changed[figure] - base[figure], base[figure] - changed[figure]}))
                    \div Max({1, base[figure]})
    IN  [length |-> Change("length", "efficiency"), diameter |-> Change("diameter", "velocity"),
         weight |-> Change("weight", "stored"), draw |-> Change("draw", "stored"),
         arrow |-> Change("arrow", "velocity")]
====================================================================================
