---------------------------- MODULE BowstringMaterials ----------------------------
(* Bowstring materials: the ranking of StringComparator, and the choice of        *)
(* BowstringPerformanceAnalyzer.  What a formula yields for a material is any     *)
(* integer (the formulas are in BowstringMaterial); the code that sorts,          *)
(* normalises and selects is kept.                                                *)
EXTENDS Integers, Sequences, FiniteSets, FiniteSetsExt, SequencesExt

CONSTANTS
    Materials,      \* the types of the database
    Unknown,        \* BowstringMaterialType::UNKNOWN, and any type it does not hold
    Measures        \* what evaluate_material() and simulate_shot() may yield, on a scale
                    \* of sixty: [mass, efficiency, velocity, lifespan, creep, loss]

\* What a ranking goes by; the loss to damping counts in the choice for accuracy only.
Criteria == {"mass", "efficiency", "velocity", "lifespan", "creep"}

\* The code divides real numbers: on a scale of sixty, sixtieths tell all values apart.
ASSUME MaterialAssumption ==
    /\ IsFiniteSet(Materials) /\ Unknown \notin Materials
    /\ Measures \subseteq [Criteria \cup {"loss"} -> 0..59]

\* The configured weights, in hundredths; a light string and little creep are good.
Weight == [mass |-> 15, efficiency |-> 30, velocity |-> 25, lifespan |-> 20, creep |-> 10]

\* Mutant: a long life is bad.
LongLifeIsBad(c) == c \notin {"mass", "creep", "lifespan"}

HigherIsBetter(c) == c \notin {"mass", "creep"}

VARIABLES
    measured,       \* the metrics of each material under the present configuration
    verdict         \* what the last comparison returned

materialVars == <<measured, verdict>>

MaterialOf(type) == IF type \in Materials THEN type ELSE Unknown

MaterialInit == measured \in [Materials -> Measures] /\ verdict = [call |-> "none"]

\* set_config(): other lengths, weights of draw or arrows give other metrics.
Reconfigure ==
    /\ measured' \in [Materials -> Measures]
    /\ verdict' = [call |-> "none"]

\* normalize(), in sixtieths: 30 when all are equal.
Normalize(value, min, max, higher) ==
    IF min = max THEN 30
    ELSE LET up == (60 * (value - min)) \div (max - min)
         IN  IF higher THEN up ELSE 60 - up

\* compute_overall_score() over the materials that are compared.
Score(m, all) ==
    LET Part(c) == LET values == {measured[n][c] : n \in all}
                   IN  Weight[c] * Normalize(measured[m][c], Min(values), Max(values),
                                             HigherIsBetter(c))
    IN  Part("mass") + Part("efficiency") + Part("velocity") + Part("lifespan") + Part("creep")

\* compare_materials(): unknown types are skipped; sorted by falling score, equals
\* in any order.  `rank' holds the place of each, 1 for the first.
Rankings(types) ==
    LET all == {MaterialOf(t) : t \in types} \ {Unknown}
        score == [m \in all |-> Score(m, all)]
    IN  {rank \in [all -> 1..Cardinality(all)] :
            \A m, n \in all : m # n => rank[m] # rank[n] /\ (score[m] > score[n] => rank[m] < rank[n])}

CompareMaterials(types) ==
    /\ \E rank \in Rankings(types) : verdict' = [call |-> "compare", rank |-> rank]
    /\ UNCHANGED measured

\* find_optimal_material(): all types for an empty list; UNKNOWN when none is left.
FindOptimalMaterial(candidates) ==
    LET types == IF candidates = {} THEN Materials ELSE candidates
    IN  /\ \E rank \in Rankings(types) :
              verdict' = [call |-> "optimal", rank |-> rank,
                          best |-> IF DOMAIN rank = {} THEN Unknown
                                   ELSE CHOOSE m \in DOMAIN rank : rank[m] = 1]
        /\ UNCHANGED measured

\* optimize_material_for_accuracy(): each score relative to the highest of its kind,
\* the first candidate whose weighted sum is above all before it.  The penalty on
\* accuracy, in sixtieths, is twice the string's mass and five times what damping loses
\* of the power, which is the square of the velocity.
Power(m) == measured[m].velocity * measured[m].velocity
AccPenalty(m) == 2 * measured[m].mass + (300 * measured[m].loss) \div (Power(m) + 1)
Accuracy(m) == 3600 \div (60 + AccPenalty(m))
Relative(value, top) == (60 * value) \div (top + 1)
Suitability(list, k) ==
    LET m == list[k]
        all == Range(list)
    IN  60 * Relative(Accuracy(m), Max({Accuracy(n) : n \in all}))
          + 25 * Relative(Power(m), Max({Power(n) : n \in all}))
          + 15 * Relative(measured[m].lifespan, Max({measured[n].lifespan : n \in all}))
OptimizeForAccuracy(list) ==
    /\ verdict' = [call |-> "accuracy", list |-> list,
                   best |-> IF list = <<>> THEN Unknown
                            ELSE list[Min({k \in 1..Len(list) : \A j \in 1..Len(list) :
                                       Suitability(list, j) <= Suitability(list, k)})]]
    /\ UNCHANGED measured

\* BowstringPerformanceAnalyzer::compare_materials(): in the order of the list, the
\* first velocity that is not 0 the reference of all.
CompareVelocities(list) ==
    LET known == SelectSeq(list, LAMBDA t : MaterialOf(t) # Unknown)
        moving == {k \in 1..Len(known) : measured[known[k]].velocity # 0}
    IN  /\ verdict' = [call |-> "velocities", list |-> known,
                       reference |-> IF moving = {} THEN 0 ELSE measured[known[Min(moving)]].velocity]
        /\ UNCHANGED measured

MaterialCall ==
    \/ Reconfigure
    \/ \E types \in SUBSET (Materials \cup {Unknown}) :
           CompareMaterials(types) \/ FindOptimalMaterial(types)
    \/ \E set \in SUBSET Materials : \E list \in SetToSeqs(set) :
           OptimizeForAccuracy(list) \/ CompareVelocities(list \o <<Unknown>>)

----------------------------------------------------------------------------------
Dominates(m, n) ==
    /\ \A c \in {"mass", "creep"} : measured[m][c] <= measured[n][c]
    /\ \A c \in Criteria \ {"mass", "creep"} : measured[m][c] >= measured[n][c]
    /\ \E c \in Criteria : measured[m][c] # measured[n][c]

(* A material that another of those compared beats in some criterion and equals   *)
(* in all others is never ranked before it, although every score is relative to   *)
(* the set that is compared.  The choice for accuracy is no material that another *)
(* candidate outlives while it is as light and as fast and loses no more to       *)
(* damping; one that loses less may be chosen before a lighter and faster one.    *)
NoDominatedWinner ==
    /\ verdict.call \in {"compare", "optimal"} =>
           \A m, n \in DOMAIN verdict.rank : Dominates(m, n) => verdict.rank[m] < verdict.rank[n]
    /\ verdict.call = "accuracy" /\ verdict.best # Unknown =>
           \A k \in 1..Len(verdict.list) :
               LET m == measured[verdict.list[k]]
                   b == measured[verdict.best]
               IN  ~ /\ m.mass <= b.mass /\ m.velocity >= b.velocity /\ m.loss <= b.loss
                     /\ m.lifespan > b.lifespan
=================================================================================
