----------------------------- MODULE ResearchProofs -----------------------------
(* Theorems about Research, for any configurations, rewards, tasks and settings:  *)
(* what a training returns, what a batch of the simulator leaves, the target an   *)
(* evaluation of formations is made for, where the crossbows of a formation stand,*)
(* the hits of the virtual range and the arrows the page shows for them, the      *)
(* choices of materials and sights, and the scales that are engraved on a sight.  *)
EXTENDS Research, FiniteSetTheorems, SequenceTheorems, WellFoundedInduction, TLAPS

\* What a step does to the learning loop.
LEMMA LearningSteps ==
  ASSUME [Next]_researchVars
  PROVE  \/ UNCHANGED learningVars
         \/ Learning
         \/ \E t : BeginTraining(t)
<1>1. CASE Formation
  <2>1. CASE \E t \in Targets : TrainRl(t, 0)
    BY <2>1 DEF TrainRl
  <2> QED  BY <1>1, <2>1 DEF Formation, Learning
<1>2. CASE Training
  <2>1. CASE \E t \in Targets, e \in Episodes : TrainRl(t, e)
    BY <2>1 DEF TrainRl
  <2> QED  BY <1>2, <2>1 DEF Training
<1>3. CASE Session \/ Comparison \/ Engraving \/ Choosing \/ Showing \/ Simulating
  BY <1>3 DEF Session, Comparison, Engraving, Choosing, Showing, Simulating, ObjectsRest
<1>4. CASE UNCHANGED researchVars
  BY <1>4 DEF researchVars
<1> QED  BY <1>1, <1>2, <1>3, <1>4 DEF Next

\* What a step does to the sensor simulator.
LEMMA SimulatorSteps ==
  ASSUME [Next]_researchVars
  PROVE  UNCHANGED simulatorVars \/ SimulatorCall
<1>1. CASE Simulating
  BY <1>1 DEF Simulating
<1>2. CASE Formation \/ Training \/ Session \/ Comparison \/ Engraving \/ Choosing \/ Showing
  BY <1>2 DEF Formation, Training, Session, Comparison, Engraving, Choosing, Showing, benchVars
<1>3. CASE UNCHANGED researchVars
  BY <1>3 DEF researchVars, benchVars
<1> QED  BY <1>1, <1>2, <1>3 DEF Next

----------------------------------------------------------------------------------
(* The best of a training.                                                        *)

\* The rewards are integers above the one a training begins with.
LearningInv ==
    /\ \E S : trajectory \in Seq(S)
    /\ \A j \in 1..Len(trajectory) : trajectory[j].reward \in Rewards
    /\ best.reward \in Int
    /\ BestIsFirstMaximum

\* A sequence of anything may be appended to.
LEMMA AppendAny ==
  ASSUME NEW S, NEW s \in Seq(S), NEW x
  PROVE  /\ \E T : Append(s, x) \in Seq(T)
         /\ Len(Append(s, x)) = Len(s) + 1 /\ Len(s) \in Nat
         /\ Append(s, x)[Len(s) + 1] = x
         /\ \A j \in 1..Len(s) : Append(s, x)[j] = s[j]
<1>1. s \in Seq(S \cup {x}) /\ x \in S \cup {x}
  OBVIOUS
<1>2. Append(s, x) \in Seq(S \cup {x})
  BY <1>1
<1> QED  BY <1>2

\* A step of an episode keeps the best the first of the highest rewards.
LEMMA ObserveInv ==
  ASSUME LearningInv, NEW r \in Rewards, NEW x, x.reward = r,
         trajectory' = Append(trajectory, x),
         best' = IF r > best.reward THEN [reward |-> r, setting |-> x.setting] ELSE best
  PROVE  LearningInv'
<1> DEFINE n == Len(trajectory)
<1>1. PICK S : trajectory \in Seq(S)
  BY DEF LearningInv
<1>2. /\ \E T : trajectory' \in Seq(T)
      /\ Len(trajectory') = n + 1 /\ n \in Nat
      /\ trajectory'[n + 1] = x
      /\ \A j \in 1..n : trajectory'[j] = trajectory[j]
  <2>1. trajectory \in Seq(S)
    BY <1>1
  <2>2. /\ \E T : Append(trajectory, x) \in Seq(T)
        /\ Len(Append(trajectory, x)) = Len(trajectory) + 1 /\ Len(trajectory) \in Nat
        /\ Append(trajectory, x)[Len(trajectory) + 1] = x
        /\ \A j \in 1..Len(trajectory) : Append(trajectory, x)[j] = trajectory[j]
    BY <2>1, AppendAny, Zenon
  <2> QED
    BY <2>2, Zenon
<1>3. r \in Int /\ r > NoReward /\ Rewards \subseteq Int /\ best.reward \in Int /\ NoReward \in Int
  BY LearningAssumption, RewardAssumption DEF LearningAssumption, RewardAssumption, LearningInv, NoReward
<1>4. \A j \in 1..n : trajectory'[j].reward \in Rewards /\ trajectory[j].reward \in Rewards
  BY <1>2 DEF LearningInv
<1>5. \A j \in 1..(n + 1) : j \in 1..n \/ j = n + 1
  BY <1>2
<1>6. \A j \in 1..Len(trajectory') : trajectory'[j].reward \in Rewards
  BY <1>2, <1>4, <1>5
<1>7. best'.reward \in Int
  BY <1>3
<1>8. trajectory = <<>> <=> n = 0
  BY <1>1
<1>9. trajectory' # <<>>
  BY <1>1, <1>2
<1> HIDE DEF n
<1>10. CASE r > best.reward
  <2>1. best' = [reward |-> x.reward, setting |-> x.setting] /\ best'.reward = r
    BY <1>10
  <2>2. \A j \in 1..n : trajectory[j].reward <= best.reward
    BY <1>2, <1>8 DEF LearningInv, BestIsFirstMaximum, n
  <2>3. \A j \in 1..n : trajectory'[j].reward < r
    <3> SUFFICES ASSUME NEW j \in 1..n  PROVE trajectory'[j].reward < r
      OBVIOUS
    <3>1. trajectory'[j] = trajectory[j] /\ trajectory[j].reward \in Int
      BY <1>2, <1>3, <1>4
    <3>2. trajectory[j].reward <= best.reward
      BY <2>2
    <3> QED  BY <1>3, <1>10, <3>1, <3>2
  <2>4. n + 1 \in 1..Len(trajectory')
    BY <1>2
  <2>5. \A j \in 1..Len(trajectory') : /\ trajectory'[j].reward <= best'.reward
                                       /\ j < n + 1 => trajectory'[j].reward < best'.reward
    <3>1. \A j \in 1..n : trajectory'[j].reward \in Int
      BY <1>3, <1>4
    <3>2. \A j \in 1..n : /\ trajectory'[j].reward <= best'.reward
                          /\ trajectory'[j].reward < best'.reward
      <4> SUFFICES ASSUME NEW j \in 1..n
                   PROVE  trajectory'[j].reward <= r /\ trajectory'[j].reward < r
        BY <2>1
      <4>1. trajectory'[j].reward \in Int /\ trajectory'[j].reward < r
        BY <2>3, <3>1
      <4>2. r \in Int
        BY <1>3
      <4>3. \A v, w \in Int : v < w => v <= w
        OBVIOUS
      <4> QED  BY <4>1, <4>2, <4>3
    <3>3. trajectory'[n + 1].reward <= best'.reward /\ ~(n + 1 < n + 1)
      BY <1>2, <1>3, <2>1
    <3> QED  BY <1>2, <1>5, <3>2, <3>3
  <2>6. BestIsFirstMaximum'
    BY <1>2, <1>9, <2>1, <2>4, <2>5 DEF BestIsFirstMaximum
  <2> QED  BY <1>2, <1>6, <1>7, <2>6 DEF LearningInv
<1>11. CASE ~(r > best.reward)
  <2>1. best' = best
    BY <1>11
  <2>2. trajectory # <<>>
    BY <1>3, <1>11 DEF LearningInv, BestIsFirstMaximum
  <2>3. PICK k \in 1..n :
           /\ best = [reward |-> trajectory[k].reward, setting |-> trajectory[k].setting]
           /\ \A j \in 1..n : /\ trajectory[j].reward <= best.reward
                              /\ j < k => trajectory[j].reward < best.reward
    BY <2>2 DEF LearningInv, BestIsFirstMaximum, n
  <2>4. k \in 1..Len(trajectory') /\ trajectory'[k] = trajectory[k]
    BY <1>2
  <2>5. \A j \in 1..Len(trajectory') : /\ trajectory'[j].reward <= best.reward
                                       /\ j < k => trajectory'[j].reward < best.reward
    <3>1. \A j \in 1..n : /\ trajectory'[j].reward <= best.reward
                          /\ j < k => trajectory'[j].reward < best.reward
      BY <1>2, <2>3
    <3>2. trajectory'[n + 1].reward <= best.reward /\ ~(n + 1 < k)
      BY <1>2, <1>3, <1>11
    <3> QED  BY <1>2, <1>5, <3>1, <3>2
  <2>6. BestIsFirstMaximum'
    BY <1>9, <2>1, <2>3, <2>4, <2>5 DEF BestIsFirstMaximum
  <2> QED  BY <1>2, <1>6, <1>7, <2>6 DEF LearningInv
<1> QED  BY <1>10, <1>11

\* The setting that a training returns as the best is the one of the first observation
\* with the highest reward of the whole training.
THEOREM BestIsReturned == Spec => []BestIsFirstMaximum
<1>1. Init => LearningInv
  <2> SUFFICES ASSUME Init  PROVE LearningInv
    OBVIOUS
  <2>1. trajectory = <<>> /\ best.reward = NoReward
    BY DEF Init, LearningInit
  <2>2. trajectory \in Seq({}) /\ Len(trajectory) = 0 /\ best.reward \in Int
    BY <2>1 DEF NoReward
  <2> QED  BY <2>1, <2>2 DEF LearningInv, BestIsFirstMaximum
<1>2. LearningInv /\ [Next]_researchVars => LearningInv'
  <2> SUFFICES ASSUME LearningInv, [Next]_researchVars  PROVE LearningInv'
    OBVIOUS
  <2>1. ASSUME UNCHANGED <<trajectory, best>>
        PROVE  LearningInv'
    BY <2>1 DEF LearningInv, BestIsFirstMaximum
  <2>2. ASSUME NEW t, BeginTraining(t)
        PROVE  LearningInv'
    <3>1. trajectory' = <<>> /\ best'.reward = NoReward
      BY <2>2 DEF BeginTraining
    <3>2. trajectory' \in Seq({}) /\ Len(trajectory') = 0 /\ best'.reward \in Int
      BY <3>1 DEF NoReward
    <3> QED  BY <3>1, <3>2 DEF LearningInv, BestIsFirstMaximum
  <2>3. ASSUME NEW a \in ActionsOf(task), NEW r \in Rewards, TrainStep(a, r)
        PROVE  LearningInv'
    <3> DEFINE x == [action |-> a, reward |-> r, setting |-> Placed(cur')]
    <3>1. /\ trajectory' = Append(trajectory, x) /\ x.reward = r /\ x.setting = Placed(cur')
          /\ best' = IF r > best.reward THEN [reward |-> r, setting |-> x.setting] ELSE best
      BY <2>3 DEF TrainStep
    <3> QED  BY <3>1, ObserveInv
  <2>4. CASE StartEpisode \/ EndEpisode \/ FinishTraining \/ UNCHANGED learningVars
    BY <2>1, <2>4 DEF StartEpisode, EndEpisode, FinishTraining, learningVars
  <2> QED  BY <2>2, <2>3, <2>4, LearningSteps DEF Learning
<1>3. LearningInv => BestIsFirstMaximum
  BY DEF LearningInv
<1> QED  BY <1>1, <1>2, <1>3, PTL DEF Spec

----------------------------------------------------------------------------------
(* The settings of a batch.                                                       *)

\* A batch under way keeps the settings the caller asked for.
BatchInv ==
    /\ \/ batch = NoBatch
       \/ /\ batch \in [varies : SUBSET {"weight", "length"}, left : Nat \ {0}, original : {asked}]
    /\ BatchLeavesSettings

\* A batch leaves the simulator with the settings it found, also when a shot failed.
THEOREM BatchRestoresSettings == Spec => []BatchLeavesSettings
<1>1. Init => BatchInv
  BY DEF Init, SimulatorInit, BatchInv, BatchLeavesSettings
<1>2. BatchInv /\ [Next]_researchVars => BatchInv'
  <2> SUFFICES ASSUME BatchInv, SimulatorCall \/ UNCHANGED simulatorVars
               PROVE  BatchInv'
    BY SimulatorSteps
  <2>1. ASSUME NEW s \in Settings, SetTo(s)
        PROVE  BatchInv'
    BY <2>1 DEF SetTo, BatchInv, BatchLeavesSettings
  <2>2. CASE GenerateShotData \/ UNCHANGED simulatorVars
    BY <2>2 DEF GenerateShotData, simulatorVars, BatchInv, BatchLeavesSettings
  <2>3. ASSUME NEW varies \in SUBSET {"weight", "length"}, NEW n \in 0..MaxBatch,
               GenerateBatch(varies, n)
        PROVE  BatchInv'
    <3>1. /\ batch' = [varies |-> varies, left |-> n, original |-> crossbow]
          /\ crossbow = asked /\ asked' = asked /\ n \in Nat \ {0}
      BY <2>3, SimulatorAssumption
      DEF GenerateBatch, BatchInv, BatchLeavesSettings, SimulatorAssumption
    <3>2. batch' \in [varies : SUBSET {"weight", "length"}, left : Nat \ {0}, original : {asked'}]
      BY <3>1
    <3>3. batch' # NoBatch
      BY <3>1 DEF NoBatch
    <3> QED  BY <3>2, <3>3 DEF BatchInv, BatchLeavesSettings
  <2>4. CASE BatchShot
    <3>1. /\ batch \in [varies : SUBSET {"weight", "length"}, left : Nat \ {0}, original : {asked}]
          /\ asked' = asked
      BY <2>4 DEF BatchShot, BatchInv
    <3>2. CASE crossbow' = Finally(crossbow) /\ batch' = NoBatch
      BY <3>1, <3>2 DEF Finally, BatchInv, BatchLeavesSettings
    <3>3. CASE batch.left # 1 /\ batch' = [batch EXCEPT !.left = @ - 1]
      <4>1. batch' \in [varies : SUBSET {"weight", "length"}, left : Nat \ {0}, original : {asked}]
        BY <3>1, <3>3
      <4>2. batch' # NoBatch
        BY <4>1 DEF NoBatch
      <4> QED  BY <3>1, <4>1, <4>2 DEF BatchInv, BatchLeavesSettings
    <3>4. \/ crossbow' = Finally(crossbow) /\ batch' = NoBatch
          \/ batch.left # 1 /\ batch' = [batch EXCEPT !.left = @ - 1]
      BY <2>4 DEF BatchShot, Finally
    <3> QED  BY <3>2, <3>3, <3>4
  <2> QED  BY <2>1, <2>2, <2>3, <2>4 DEF SimulatorCall
<1>3. BatchInv => BatchLeavesSettings
  BY DEF BatchInv
<1> QED  BY <1>1, <1>2, <1>3, PTL DEF Spec

----------------------------------------------------------------------------------
(* The target of an evaluation.                                                   *)

\* What a step does to the formation module.
LEMMA ModuleSteps ==
  ASSUME [Next]_researchVars
  PROVE  \/ UNCHANGED moduleVars
         \/ FormationCall(Types, Crossbows)
         \/ UNCHANGED <<fmConfig, fmTarget, simTarget, fmAnswer>>
<1>1. CASE Formation
  <2>1. CASE \E t \in Targets : TrainRl(t, 0)
    BY <2>1 DEF TrainRl
  <2> QED  BY <1>1, <2>1 DEF Formation
<1>2. CASE Training
  <2>1. CASE \E t \in Targets, e \in Episodes : TrainRl(t, e)
    BY <2>1 DEF TrainRl
  <2> QED  BY <1>2, <2>1 DEF Training
<1>3. CASE Session \/ Comparison \/ Engraving \/ Choosing \/ Showing \/ Simulating
  BY <1>3 DEF Session, Comparison, Engraving, Choosing, Showing, Simulating, ObjectsRest
<1>4. CASE UNCHANGED researchVars
  BY <1>4 DEF researchVars
<1> QED  BY <1>1, <1>2, <1>3, <1>4 DEF Next

\* The smallest coverage is one.
LEMMA LowestCoverage == Min(Coverages) \in Coverages
BY ModuleAssumption DEF ModuleAssumption, Min

\* A result that is of one target, for the hits and for the plan.
OneTarget(r) == r.engaged = r.planned

\* As long as the simulator has the target, an engagement is of that target alone, also
\* in its other forms: one with the lowest coverage and no hits is among them.
LEMMA CoverageIsOfOne ==
  ASSUME simTarget = fmTarget, NEW type, NEW n
  PROVE  /\ \A r \in Coverage(type, n, fmTarget) :
               /\ OneTarget(r)
               /\ \A c : OneTarget([r EXCEPT !.coverage = c])
         /\ \E r \in Coverage(type, n, fmTarget) :
               r.hits = 0 /\ (r.placed = 0 \/ r.coverage = Min(Coverages))
<1>1. CASE n = 0
  <2> DEFINE e == [type |-> type, placed |-> 0, shots |-> 0, tried |-> 1, hits |-> 0,
                   coverage |-> 0, engaged |-> fmTarget, planned |-> fmTarget]
  <2>1. Coverage(type, n, fmTarget) = {e}
    BY <1>1 DEF Coverage
  <2>2. OneTarget(e) /\ e.hits = 0 /\ e.placed = 0
    BY DEF OneTarget
  <2>3. \A c : OneTarget([e EXCEPT !.coverage = c])
    BY DEF OneTarget
  <2> QED  BY <2>1, <2>2, <2>3
<1>2. CASE n # 0
  <2> DEFINE E == Engagements(type, n, fmConfig.salvos, fmTarget)
  <2>1. Coverage(type, n, fmTarget) = E
    BY <1>2 DEF Coverage
  <2>2. ASSUME NEW r \in E
        PROVE  OneTarget(r) /\ \A c : OneTarget([r EXCEPT !.coverage = c])
    <3>1. /\ r = [type |-> r.type, placed |-> r.placed, shots |-> r.shots, tried |-> r.tried,
                  hits |-> r.hits, coverage |-> r.coverage, engaged |-> r.engaged,
                  planned |-> r.planned]
          /\ r.engaged = fmTarget /\ r.planned = simTarget
      BY DEF Engagements
    <3> QED  BY <3>1 DEF OneTarget
  <2>3. \E r \in E : r.hits = 0 /\ r.coverage = Min(Coverages)
    <3> DEFINE e == [type |-> type, placed |-> n, shots |-> Shots(n, fmConfig.salvos),
                     tried |-> Max({1, Shots(n, fmConfig.salvos) + Sample * n}), hits |-> 0,
                     coverage |-> Min(Coverages), engaged |-> fmTarget, planned |-> simTarget]
    <3>1. e \in E
      BY LowestCoverage DEF Engagements
    <3>2. e.hits = 0 /\ e.coverage = Min(Coverages)
      OBVIOUS
    <3> QED  BY <3>1, <3>2
  <2> QED  BY <2>1, <2>2, <2>3
<1> QED  BY <1>1, <1>2

\* An evaluation is made for the target the simulator has, and the simulator for the module's.
TargetInv == simTarget = fmTarget /\ EvaluationsUseOneTarget

\* The rounds of compare_formations() are of one target.
LEMMA CompareIsOfOne ==
  ASSUME TargetInv, NEW call, NEW types, CompareFormations(call, types)
  PROVE  TargetInv'
<1> DEFINE list == IF types = {} THEN Formations ELSE types
           Good(t, r) == r.hits = 0 /\ (r.placed = 0 \/ r.coverage = Min(Coverages))
           Lowest(t) == CHOOSE r \in OwnCoverage(t) :
                            r.hits = 0 /\ (r.placed = 0 \/ r.coverage = Min(Coverages))
           lows == {Lowest(t) : t \in list}
<1>1. simTarget = fmTarget
  BY DEF TargetInv
<1>2. \A t : OneTarget(Lowest(t)) /\ \A c : OneTarget([Lowest(t) EXCEPT !.coverage = c])
  <2> TAKE t
  <2>1. Lowest(t) \in OwnCoverage(t)
    BY <1>1, CoverageIsOfOne DEF OwnCoverage
  <2> QED  BY <1>1, <2>1, CoverageIsOfOne DEF OwnCoverage
<1>3. PICK low \in lows :
         fmAnswer' = LET top == IF low.placed = 0 THEN low
                                ELSE [low EXCEPT !.coverage = Max(Coverages)]
                     IN  [call |-> call, results |-> (lows \ {low}) \cup {top}, best |-> top]
  BY DEF CompareFormations
<1> DEFINE top == IF low.placed = 0 THEN low ELSE [low EXCEPT !.coverage = Max(Coverages)]
<1>4. fmAnswer'.results = (lows \ {low}) \cup {top}
  BY <1>3
<1>5. \A r \in lows : OneTarget(r) /\ \A c : OneTarget([r EXCEPT !.coverage = c])
  BY <1>2
<1>6. OneTarget(top)
  BY <1>5
<1>7. \A r \in fmAnswer'.results : OneTarget(r)
  <2> HIDE DEF top, lows
  <2> QED  BY <1>4, <1>5, <1>6
<1>8. simTarget' = fmTarget'
  BY <1>1 DEF CompareFormations
<1> QED  BY <1>7, <1>8 DEF TargetInv, EvaluationsUseOneTarget, OneTarget

\* An evaluation or a comparison is of one target throughout, the module's own,
\* whatever was trained or asked for other targets before.
THEOREM OneTargetPerAnswer == Spec => []EvaluationsUseOneTarget
<1>1. Init => TargetInv
  BY DEF Init, FormationInit, NoAnswer, TargetInv, EvaluationsUseOneTarget
<1>2. TargetInv /\ [Next]_researchVars => TargetInv'
  <2> SUFFICES ASSUME TargetInv, [Next]_researchVars  PROVE TargetInv'
    OBVIOUS
  <2>1. ASSUME UNCHANGED <<fmTarget, simTarget, fmAnswer>>
        PROVE  TargetInv'
    BY <2>1 DEF TargetInv, EvaluationsUseOneTarget
  <2>2. CASE \E c \in Configs : SetConfig(c)
    BY <2>1, <2>2 DEF SetConfig
  <2>3. CASE \E t \in Targets : SetTarget(t)
    BY <2>3 DEF SetTarget, TargetInv, EvaluationsUseOneTarget
  <2>4. CASE FindOptimal
    BY <2>4, CompareIsOfOne DEF FindOptimal
  <2>5. ASSUME NEW type, GeneratePlacement(type)
        PROVE  TargetInv'
    BY <2>5 DEF GeneratePlacement, TargetInv, EvaluationsUseOneTarget
  <2>6. ASSUME NEW type, Evaluate(type)
        PROVE  TargetInv'
    <3>1. PICK r \in OwnCoverage(type) :
             fmAnswer' = [call |-> "evaluate", results |-> {r}, best |-> r]
      BY <2>6 DEF Evaluate
    <3>2. OneTarget(r) /\ simTarget' = fmTarget'
      BY <2>6, CoverageIsOfOne DEF Evaluate, OwnCoverage, TargetInv
    <3> QED  BY <3>1, <3>2 DEF TargetInv, EvaluationsUseOneTarget, OneTarget
  <2>7. CASE \E types \in SUBSET Types : CompareFormations("compare", types)
    BY <2>7, CompareIsOfOne
  <2>8. ASSUME NEW type, NEW n, NEW t, FireDensity(type, n, t)
        PROVE  TargetInv'
    BY <2>8 DEF FireDensity, TargetInv, EvaluationsUseOneTarget
  <2> QED  BY <2>1, <2>2, <2>3, <2>4, <2>5, <2>6, <2>7, <2>8, ModuleSteps DEF FormationCall, moduleVars
<1>3. TargetInv => EvaluationsUseOneTarget
  BY DEF TargetInv
<1> QED  BY <1>1, <1>2, <1>3, PTL DEF Spec

----------------------------------------------------------------------------------
(* Minima, maxima and quotients.                                                *)
\* Natural numbers, in order.
Before == {p \in Nat \X Nat : p[1] < p[2]}

\* A set of natural numbers that is not empty has a minimum, and Min() is it.
LEMMA MinIsLeast ==
  ASSUME NEW S, S \subseteq Nat, S # {}
  PROVE  Min(S) \in S /\ \A y \in S : Min(S) <= y
<1>1. Before = OpToRel(<, Nat)
  BY DEF Before, OpToRel
<1>2. PICK x \in S : \A y \in S : ~ (<<y, x>> \in Before)
  BY <1>1, NatLessThanWellFounded, WFMin
<1>3. \A y \in S : x <= y
  <2> SUFFICES ASSUME NEW y \in S  PROVE x <= y
    OBVIOUS
  <2>1. ~ (<<y, x>> \in Before) /\ x \in Nat /\ y \in Nat
    BY <1>2
  <2>2. ~ (y < x)
    BY <2>1 DEF Before
  <2> QED  BY <2>1, <2>2
<1> QED  BY <1>2, <1>3 DEF Min

\* A bounded set of natural numbers that is not empty has a maximum, and Max() is it.
LEMMA MaxIsGreatest ==
  ASSUME NEW S, S \subseteq Nat, S # {}, NEW n \in Nat, \A y \in S : y <= n
  PROVE  Max(S) \in S /\ \A y \in S : y <= Max(S)
<1> DEFINE gaps == {n - y : y \in S}
<1>1. gaps \subseteq Nat /\ gaps # {}
  <2>1. \A y \in S : n - y \in Nat
    OBVIOUS
  <2> QED  BY <2>1
<1>2. Min(gaps) \in gaps /\ \A g \in gaps : Min(gaps) <= g
  <2> HIDE DEF gaps
  <2> QED  BY <1>1, MinIsLeast
<1>3. PICK x \in S : Min(gaps) = n - x
  BY <1>2
<1>4. \A y \in S : y <= x
  <2> SUFFICES ASSUME NEW y \in S  PROVE y <= x
    OBVIOUS
  <2>1. n - x <= n - y
    BY <1>2, <1>3
  <2>2. x \in Nat /\ y \in Nat
    OBVIOUS
  <2> QED  BY <2>1, <2>2
<1> QED  BY <1>4 DEF Max

\* Division by a positive number.
LEMMA Quotient ==
  ASSUME NEW a \in Nat, NEW w \in Nat \ {0}
  PROVE  a \div w \in Nat /\ w * (a \div w) <= a /\ a < w * (a \div w) + w
OBVIOUS

\* A larger number has no smaller quotient.
LEMMA QuotientIsMonotonic ==
  ASSUME NEW a \in Nat, NEW b \in Nat, a <= b, NEW w \in Nat \ {0}
  PROVE  a \div w <= b \div w
<1> DEFINE p == a \div w
           q == b \div w
<1>1. p \in Nat /\ w * p <= a /\ q \in Nat /\ b < w * q + w
  BY Quotient
<1> HIDE DEF p, q
<1>2. SUFFICES ASSUME p >= q + 1  PROVE FALSE
  BY <1>1 DEF p, q
<1>3. PICK d \in Nat : p = q + 1 + d
  BY <1>1, <1>2
<1>4. w * p = w * q + w + w * d
  BY <1>1, <1>3
<1>5. w * d >= 0 /\ w * d \in Nat /\ w * q \in Nat
  BY <1>1
<1> QED  BY <1>1, <1>4, <1>5

\* A smaller number has none.
LEMMA QuotientIsZero ==
  ASSUME NEW a \in Nat, NEW w \in Nat \ {0}
  PROVE  a \div w = 0 <=> a < w
OBVIOUS

\* Sixty more than a number has a larger quotient, by no more than sixty.
LEMMA QuotientIsStrict ==
  ASSUME NEW a \in Nat, NEW b \in Nat, a + 60 <= b, NEW w \in 1..60
  PROVE  a \div w < b \div w
<1> DEFINE p == a \div w
           q == b \div w
<1>1. p \in Nat /\ w * p <= a /\ q \in Nat /\ b < w * q + w
  BY Quotient
<1> HIDE DEF p, q
<1>2. SUFFICES ASSUME p >= q  PROVE FALSE
  BY <1>1 DEF p, q
<1>3. PICK d \in Nat : p = q + d
  BY <1>1, <1>2
<1>4. w * p = w * q + w * d
  BY <1>1, <1>3
<1>5. w * d \in Nat /\ w * q \in Nat
  BY <1>1
<1> QED  BY <1>1, <1>4, <1>5

\* A larger divisor has no larger quotient.
LEMMA QuotientFalls ==
  ASSUME NEW a \in Nat, NEW v \in Nat \ {0}, NEW w \in Nat \ {0}, v <= w
  PROVE  a \div w <= a \div v
<1> DEFINE p == a \div w
           q == a \div v
<1>1. p \in Nat /\ w * p <= a /\ q \in Nat /\ a < v * q + v
  BY Quotient
<1> HIDE DEF p, q
<1>2. SUFFICES ASSUME p >= q + 1  PROVE FALSE
  BY <1>1 DEF p, q
<1>3. PICK d \in Nat, e \in Nat : p = q + 1 + d /\ w = v + e
  BY <1>1, <1>2
<1>4. w * p = v * q + v + v * d + e * p
  BY <1>1, <1>3
<1>5. v * d \in Nat /\ e * p \in Nat /\ v * q \in Nat
  BY <1>1
<1> QED  BY <1>1, <1>4, <1>5

----------------------------------------------------------------------------------
(* The shapes of formations.                                                 *)

\* Each of n crossbows has one place, far enough from the others.
WellPlaced(layout, n) ==
    /\ {p.id : p \in layout} = 0..(n - 1)
    /\ \A p, q \in layout : p.id = q.id => p = q
    /\ ValidPlacement(layout)

\* A distance of at least g is not a shorter one.
LEMMA Wide ==
  ASSUME NEW d \in Int, NEW g \in Int, d >= g \/ 0 - d >= g
  PROVE  d \notin (1 - g)..(g - 1)
OBVIOUS

\* Crossbows far apart along a side are apart.
LEMMA FarApart ==
  ASSUME NEW p, NEW q, p.x \in Int, q.x \in Int, p.y \in Int, q.y \in Int,
         \/ p.x - q.x >= 2000
         \/ q.x - p.x >= 2000
         \/ p.y - q.y >= 2000
         \/ q.y - p.y >= 2000
  PROVE  Apart(p, q, 100)
<1> DEFINE dx == p.x - q.x
           dy == p.y - q.y
           g == 20 * 100
<1>1. dx \in Int /\ dy \in Int /\ g \in Int
  OBVIOUS
<1>2. \/ dx >= g \/ 0 - dx >= g
      \/ dy >= g \/ 0 - dy >= g
  OBVIOUS
<1> HIDE DEF dx, dy, g
<1>3. CASE dx >= g \/ 0 - dx >= g
  <2>1. dx \notin (1 - g)..(g - 1)
    BY <1>1, <1>3, Wide
  <2> QED  BY <2>1 DEF Apart, dx, g
<1>4. CASE dy >= g \/ 0 - dy >= g
  <2>1. dy \notin (1 - g)..(g - 1)
    BY <1>1, <1>4, Wide
  <2> QED  BY <2>1 DEF Apart, dy, g
<1> QED  BY <1>2, <1>3, <1>4

\* Places that an index gives out.
LEMMA ByIndex ==
  ASSUME NEW n \in Nat, NEW S, NEW f, NEW layout,
         \A s \in S : f[s] \in layout,
         \A p \in layout : \E s \in S : p = f[s],
         \A s \in S : f[s].id \in 0..(n - 1),
         \A k \in 0..(n - 1) : \E s \in S : f[s].id = k,
         \A s, t \in S : f[s].id = f[t].id => s = t,
         \A s, t \in S : f[s].id < f[t].id => Apart(f[s], f[t], 100)
  PROVE  WellPlaced(layout, n)
<1>1. {p.id : p \in layout} = 0..(n - 1)
  OBVIOUS
<1>2. \A p, q \in layout : p.id = q.id => p = q
  OBVIOUS
<1>3. ValidPlacement(layout)
  BY DEF ValidPlacement
<1> QED  BY <1>1, <1>2, <1>3 DEF WellPlaced

\* Places in the order of their ids.
LEMMA InOrder ==
  ASSUME NEW n \in Nat, NEW f, NEW layout,
         \A i \in 0..(n - 1) : f[i] \in layout,
         \A p \in layout : \E i \in 0..(n - 1) : p = f[i],
         \A i \in 0..(n - 1) : f[i].id = i,
         \A i, j \in 0..(n - 1) : i < j => Apart(f[i], f[j], 100)
  PROVE  WellPlaced(layout, n)
<1> DEFINE S == 0..(n - 1)
<1>1. \A s \in S : f[s] \in layout
  OBVIOUS
<1>2. \A p \in layout : \E s \in S : p = f[s]
  OBVIOUS
<1>3. \A s \in S : f[s].id \in 0..(n - 1)
  OBVIOUS
<1>4. \A k \in 0..(n - 1) : \E s \in S : f[s].id = k
  OBVIOUS
<1>5. \A s, t \in S : f[s].id = f[t].id => s = t
  OBVIOUS
<1>6. \A s, t \in S : f[s].id < f[t].id => Apart(f[s], f[t], 100)
  OBVIOUS
<1> HIDE DEF S
<1> QED  BY <1>1, <1>2, <1>3, <1>4, <1>5, <1>6, ByIndex

\* Places in rows, in the order of their ids.
After(t, s) == s[1] < t[1] \/ (s[1] = t[1] /\ s[2] < t[2])

LEMMA InRows ==
  ASSUME NEW n \in Nat, NEW S, NEW f, NEW layout, S \subseteq Int \X Int,
         \A s \in S : f[s] \in layout,
         \A p \in layout : \E s \in S : p = f[s],
         \A s \in S : f[s].id \in 0..(n - 1),
         \A k \in 0..(n - 1) : \E s \in S : f[s].id = k,
         \A s, t \in S : After(t, s) => f[s].id < f[t].id /\ Apart(f[s], f[t], 100)
  PROVE  WellPlaced(layout, n)
<1>1. \A s, t \in S : s = t \/ After(t, s) \/ After(s, t)
  <2> SUFFICES ASSUME NEW s \in S, NEW t \in S  PROVE s = t \/ After(t, s) \/ After(s, t)
    OBVIOUS
  <2>1. s[1] \in Int /\ s[2] \in Int /\ t[1] \in Int /\ t[2] \in Int
    OBVIOUS
  <2>2. s = <<s[1], s[2]>> /\ t = <<t[1], t[2]>>
    OBVIOUS
  <2>3. s[1] = t[1] /\ s[2] = t[2] => s = t
    BY <2>2
  <2>4. s[1] < t[1] \/ t[1] < s[1] \/ s[1] = t[1]
    BY <2>1
  <2>5. s[2] < t[2] \/ t[2] < s[2] \/ s[2] = t[2]
    <3>1. \A a, b \in Int : a < b \/ b < a \/ a = b
      OBVIOUS
    <3> QED  BY <2>1, <3>1
  <2> QED  BY <2>3, <2>4, <2>5 DEF After
<1>2. \A s \in S : f[s].id \in Int
  OBVIOUS
<1>3. \A s, t \in S : f[s].id = f[t].id => s = t
  BY <1>1, <1>2
<1>4. \A s, t \in S : f[s].id < f[t].id => Apart(f[s], f[t], 100)
  BY <1>1, <1>2
<1> QED  BY <1>3, <1>4, ByIndex

\* There are as many places as ids.
LEMMA PlacedCounts ==
  ASSUME NEW n \in Nat, NEW layout, WellPlaced(layout, n)
  PROVE  Cardinality({p.id : p \in layout}) = Cardinality(layout)
<1> DEFINE ids == {p.id : p \in layout}
           at == [k \in ids |-> CHOOSE p \in layout : p.id = k]
<1>1. ids = 0..(n - 1) /\ IsFiniteSet(ids)
  <2>1. ids = 0..(n - 1)
    BY DEF WellPlaced
  <2>2. 0 \in Int /\ n - 1 \in Int
    OBVIOUS
  <2>3. IsFiniteSet(0..(n - 1))
    BY <2>2, FS_Interval
  <2> QED  BY <2>1, <2>3
<1>2. \A k \in ids : at[k] \in layout /\ at[k].id = k
  OBVIOUS
<1>3. \A p \in layout : p.id \in ids /\ at[p.id] = p
  <2> SUFFICES ASSUME NEW p \in layout PROVE p.id \in ids /\ at[p.id] = p
    OBVIOUS
  <2>1. p.id \in ids
    OBVIOUS
  <2>2. at[p.id] \in layout /\ at[p.id].id = p.id
    BY <2>1, <1>2
  <2> QED  BY <2>1, <2>2 DEF WellPlaced
<1> HIDE DEF at, ids
<1>4. at \in Bijection(ids, layout)
  <2>1. at \in [ids -> layout]
    BY <1>2 DEF at
  <2>2. \A j, k \in ids : at[j] = at[k] => j = k
    BY <1>2
  <2>3. \A p \in layout : \E k \in ids : at[k] = p
    BY <1>3
  <2> QED  BY <2>1, <2>2, <2>3 DEF Bijection, Injection, Surjection, IsInjective
<1>5. ExistsBijection(ids, layout)
  BY <1>4 DEF ExistsBijection
<1>6. Cardinality(layout) = Cardinality(ids)
  BY <1>1, <1>5, FS_Bijection
<1> QED  BY <1>6 DEF ids

----------------------------------------------------------------------------------
\* Quotients are as far apart.
LEMMA QuotientsApart ==
  ASSUME NEW a \in Int, NEW b \in Int, NEW m \in Nat \ {0}, NEW k \in Nat, a >= b + k * m
  PROVE  a \div m >= (b \div m) + k
<1>1. (b \div m) \in Int /\ m * (b \div m) <= b
  OBVIOUS
<1>2. (a \div m) \in Int /\ a < m * (a \div m) + m
  OBVIOUS
<1> DEFINE p == a \div m
           q == b \div m
<1> HIDE DEF p, q
<1>3. ASSUME p < q + k PROVE FALSE
  <2>1. p + 1 <= q + k
    BY <1>1, <1>2, <1>3 DEF p, q
  <2>2. m * (p + 1) <= m * (q + k)
    BY <2>1, <1>1, <1>2 DEF p, q
  <2>3. m * (p + 1) = m * p + m /\ m * (q + k) = m * q + k * m
    BY <1>1, <1>2 DEF p, q
  <2> QED  BY <1>1, <1>2, <2>2, <2>3 DEF p, q
<1> QED  BY <1>1, <1>2, <1>3 DEF p, q

----------------------------------------------------------------------------------
\* The crossbows of a line stand side by side.
LEMMA LinePlaced ==
  ASSUME NEW n \in Nat, NEW sx \in Nat, sx >= 100
  PROVE  WellPlaced(Line(n, sx), n)
<1> DEFINE f == [i \in 0..(n - 1) |->
                   Place(i, (20 * i - 10 * (n - 1)) * sx, 0, (i % 3) * 100, i % 3)]
<1>1. Line(n, sx) = {f[i] : i \in 0..(n - 1)}
  BY DEF Line
<1>2. \A i \in 0..(n - 1) : f[i].id = i
  BY DEF Place
<1>3. ASSUME NEW i \in 0..(n - 1), NEW j \in 0..(n - 1), i < j
      PROVE  Apart(f[i], f[j], 100)
  <2>1. /\ f[i].x = (20 * i - 10 * (n - 1)) * sx /\ f[i].y = 0
        /\ f[j].x = (20 * j - 10 * (n - 1)) * sx /\ f[j].y = 0
    BY DEF Place
  <2>2. PICK d \in Nat \ {0} : j = i + d
    BY <1>3
  <2>3. f[j].x - f[i].x = 20 * (d * sx)
    BY <2>1, <2>2
  <2>4. d * sx >= sx /\ d * sx \in Nat
    OBVIOUS
  <2>5. f[j].x - f[i].x >= 2000 /\ f[i].x \in Int /\ f[j].x \in Int /\ f[i].y \in Int /\ f[j].y \in Int
    BY <2>1, <2>3, <2>4
  <2> HIDE DEF f
  <2> QED  BY <2>5, FarApart
<1> HIDE DEF f
<1> DEFINE layout == Line(n, sx)
<1>4. /\ \A i \in 0..(n - 1) : f[i] \in layout
      /\ \A p \in layout : \E i \in 0..(n - 1) : p = f[i]
  BY <1>1
<1>5. \A i, j \in 0..(n - 1) : i < j => Apart(f[i], f[j], 100)
  BY <1>3
<1> HIDE DEF layout
<1>6. WellPlaced(layout, n)
  BY <1>2, <1>4, <1>5, InOrder
<1> QED  BY <1>6 DEF layout

\* An echelon, to either side, its crossbows 0.6 of a space apart in width.
LEMMA EchelonPlaced ==
  ASSUME NEW dir \in {-1, 1}, NEW n \in Nat, NEW sx \in Nat, sx >= 167, NEW sz \in Nat
  PROVE  WellPlaced(Echelon(dir, n, sx, sz), n)
<1> DEFINE f == [i \in 0..(n - 1) |->
                   Place(i, 12 * i * sx, dir * 16 * i * sz, (i % 5) * 80, i % 5)]
<1>1. Echelon(dir, n, sx, sz) = {f[i] : i \in 0..(n - 1)}
  BY DEF Echelon
<1>2. \A i \in 0..(n - 1) : f[i].id = i
  BY DEF Place
<1>3. ASSUME NEW i \in 0..(n - 1), NEW j \in 0..(n - 1), i < j
      PROVE  Apart(f[i], f[j], 100)
  <2>1. /\ f[i].x = 12 * i * sx /\ f[i].y = dir * 16 * i * sz
        /\ f[j].x = 12 * j * sx /\ f[j].y = dir * 16 * j * sz
    BY DEF Place
  <2>2. PICK d \in Nat \ {0} : j = i + d
    BY <1>3
  <2>3. f[j].x - f[i].x = 12 * (d * sx)
    BY <2>1, <2>2
  <2>4. d * sx >= sx /\ d * sx \in Nat
    OBVIOUS
  <2>5. f[j].x - f[i].x >= 2000 /\ f[i].x \in Int /\ f[j].x \in Int
    BY <2>1, <2>3, <2>4
  <2>6. f[i].y \in Int /\ f[j].y \in Int
    BY <2>1
  <2> HIDE DEF f
  <2> QED  BY <2>5, <2>6, FarApart
<1> HIDE DEF f
<1> DEFINE layout == Echelon(dir, n, sx, sz)
<1>4. /\ \A i \in 0..(n - 1) : f[i] \in layout
      /\ \A p \in layout : \E i \in 0..(n - 1) : p = f[i]
  BY <1>1
<1>5. \A i, j \in 0..(n - 1) : i < j => Apart(f[i], f[j], 100)
  BY <1>3
<1> HIDE DEF layout
<1>6. WellPlaced(layout, n)
  BY <1>2, <1>4, <1>5, InOrder
<1> QED  BY <1>6 DEF layout

\* The crossbows of a parabola are 0.8 of a space apart in width, or more.
LEMMA ParabolaPlaced ==
  ASSUME NEW n \in Nat, n >= 2, NEW sx \in Nat, sx >= 125, NEW sz \in Nat
  PROVE  WellPlaced(Parabola(n, sx, sz), n)
<1> DEFINE c(i) == 2 * i - (n - 1)
           f == [i \in 0..(n - 1) |->
                   Place(i, (8 * n * c(i) * sx) \div (n - 1),
                         (((6 * n * c(i) * sz) \div (n - 1)) * c(i)) \div (n - 1),
                         (i % 4) * 150, i % 4)]
<1>1. Parabola(n, sx, sz) = {f[i] : i \in 0..(n - 1)}
  BY DEF Parabola
<1>2. \A i \in 0..(n - 1) : f[i].id = i
  BY DEF Place
<1>3. ASSUME NEW i \in 0..(n - 1), NEW j \in 0..(n - 1), i < j
      PROVE  Apart(f[i], f[j], 100)
  <2> DEFINE a == 8 * n * c(i) * sx
             b == 8 * n * c(j) * sx
             w == ((6 * n * c(i) * sz) \div (n - 1)) * c(i)
             v == ((6 * n * c(j) * sz) \div (n - 1)) * c(j)
  <2>1. /\ f[i].x = a \div (n - 1) /\ f[j].x = b \div (n - 1)
        /\ f[i].y = w \div (n - 1) /\ f[j].y = v \div (n - 1)
    BY DEF Place
  <2>2. PICK d \in Nat \ {0} : j = i + d
    BY <1>3
  <2>3. n - 1 \in Nat \ {0} /\ c(i) \in Int /\ c(j) \in Int
    OBVIOUS
  <2>4. a \in Int /\ b \in Int /\ w \in Int /\ v \in Int
    <3>1. (6 * n * c(i) * sz) \div (n - 1) \in Int /\ (6 * n * c(j) * sz) \div (n - 1) \in Int
      BY <2>3
    <3>2. w \in Int
      BY <3>1, <2>3
    <3>3. v \in Int
      BY <3>1, <2>3
    <3>4. a \in Int
      BY <2>3
    <3>5. b \in Int
      BY <2>3
    <3> QED  BY <3>2, <3>3, <3>4, <3>5
  <2>5. b >= a + 2000 * (n - 1)
    <3>1. c(j) = c(i) + 2 * d
      BY <2>2
    <3>2. b = a + 16 * (n * (d * sx))
      BY <3>1, <2>3
    <3>3. d * sx >= 125 /\ d * sx \in Nat
      OBVIOUS
    <3>4. n * (d * sx) >= n * 125
      BY <3>3
    <3> HIDE DEF a, b, c
    <3> QED  BY <3>2, <3>4, <3>3, <2>4
  <2> HIDE DEF a, b, v, w, f
  <2>6. f[j].x >= f[i].x + 2000
    BY <2>1, <2>3, <2>4, <2>5, QuotientsApart
  <2>7. f[i].x \in Int /\ f[j].x \in Int /\ f[i].y \in Int /\ f[j].y \in Int
    BY <2>1, <2>3, <2>4
  <2> QED  BY <2>6, <2>7, FarApart
<1> HIDE DEF f
<1> DEFINE layout == Parabola(n, sx, sz)
<1>4. /\ \A i \in 0..(n - 1) : f[i] \in layout
      /\ \A p \in layout : \E i \in 0..(n - 1) : p = f[i]
  BY <1>1
<1>5. \A i, j \in 0..(n - 1) : i < j => Apart(f[i], f[j], 100)
  BY <1>3
<1> HIDE DEF layout
<1>6. WellPlaced(layout, n)
  BY <1>2, <1>4, <1>5, InOrder
<1> QED  BY <1>6 DEF layout

\* The root rounded up, of at most 16.
LEMMA RootIsUp ==
  ASSUME NEW lo \in Nat, lo <= 16, NEW p \in Nat, NEW q \in Nat, q <= 256 * p
  PROVE  RootUp(lo, p, q) \in lo..16 /\ p * RootUp(lo, p, q) * RootUp(lo, p, q) >= q
<1> DEFINE T == {r \in lo..16 : p * r * r >= q}
           m == Min(T)
<1>1. T \subseteq Nat /\ 16 \in T
  OBVIOUS
<1>2. m \in T /\ \A y \in T : m <= y
  <2> HIDE DEF T
  <2> QED  BY <1>1, MinIsLeast
<1>3. m \in lo..16 /\ p * m * m >= q
  <2> HIDE DEF m
  <2> QED  BY <1>2
<1>4. \A s \in lo..(m - 1) : p * s * s < q
  <2> SUFFICES ASSUME NEW s \in lo..(m - 1)  PROVE p * s * s < q
    OBVIOUS
  <2> HIDE DEF m
  <2>1. s \in lo..16 /\ s < m /\ s \in Nat
    BY <1>3
  <2>2. s \notin T
    BY <1>2, <1>3, <2>1
  <2>3. ~ (p * s * s >= q)
    BY <2>1, <2>2
  <2>4. p * s * s \in Int
    BY <2>1
  <2> QED  BY <2>3, <2>4
<1> HIDE DEF m
<1> QED  BY <1>3, <1>4 DEF RootUp

\* An id in rows that are all as long.
LEMMA RowMajor ==
  ASSUME NEW w \in Nat \ {0}, NEW r \in Nat, NEW n \in Nat, n <= r * w
  PROVE  /\ \A k \in 0..(n - 1) : /\ k \div w \in 0..(r - 1) /\ k % w \in 0..(w - 1)
                                  /\ (k \div w) * w + (k % w) = k
         /\ \A a, b \in Nat, i, j \in 0..(w - 1) :
                (a < b \/ (a = b /\ i < j)) => a * w + i < b * w + j
<1>1. ASSUME NEW k \in 0..(n - 1)
      PROVE  /\ k \div w \in 0..(r - 1) /\ k % w \in 0..(w - 1)
             /\ (k \div w) * w + (k % w) = k
  <2> DEFINE q == k \div w
             m == k % w
  <2>1. q \in Nat /\ m \in 0..(w - 1) /\ k = w * q + m /\ k \in Nat
    OBVIOUS
  <2>2. k < n
    OBVIOUS
  <2> HIDE DEF q, m
  <2>3. ASSUME q >= r PROVE FALSE
    <3>1. PICK e \in Nat : q = r + e
      BY <2>1, <2>3
    <3>2. w * q = r * w + w * e /\ w * e \in Nat /\ r * w \in Nat
      BY <3>1
    <3> QED  BY <2>1, <2>2, <3>2
  <2>4. w * q = q * w
    BY <2>1
  <2>5. q \in 0..(r - 1)
    BY <2>1, <2>3
  <2>6. q * w + m = k
    BY <2>1, <2>4
  <2>7. q \in 0..(r - 1) /\ m \in 0..(w - 1) /\ q * w + m = k
    BY <2>1, <2>5, <2>6
  <2> QED  BY <2>7 DEF q, m
<1>2. ASSUME NEW a \in Nat, NEW b \in Nat, NEW i \in 0..(w - 1), NEW j \in 0..(w - 1),
             a < b \/ (a = b /\ i < j)
      PROVE  a * w + i < b * w + j
  <2>1. CASE a < b
    <3>1. PICK d \in Nat : b = a + 1 + d
      BY <2>1
    <3>2. b * w = a * w + w + d * w /\ d * w \in Nat /\ a * w \in Nat
      BY <3>1
    <3> QED  BY <3>2
  <2>2. CASE a = b /\ i < j
    <3>1. a * w \in Nat
      OBVIOUS
    <3> QED  BY <2>2, <3>1
  <2> QED  BY <1>2, <2>1, <2>2
<1> QED  BY <1>1, <1>2

\* Places some steps apart.
LEMMA StepsApart ==
  ASSUME NEW x \in Int, NEW y \in Int, NEW c \in Nat, NEW d \in Nat \ {0}, NEW s \in Nat,
         NEW m \in Nat, c * s >= m, y - x = c * (d * s)
  PROVE  y - x >= m
<1>1. d * s >= s /\ d * s \in Nat
  OBVIOUS
<1>2. PICK e \in Nat : d * s = s + e
  BY <1>1
<1>3. c * (s + e) = c * s + c * e /\ c * e \in Nat /\ c * s \in Nat
  OBVIOUS
<1> QED  BY <1>2, <1>3

\* A grid as wide as it is deep.
LEMMA GridPlaced ==
  ASSUME NEW n \in 1..256, NEW sx \in Nat, sx >= 100, NEW sz \in Nat, sz >= 100
  PROVE  WellPlaced(Grid(n, sx, sz), n)
<1> DEFINE side == RootUp(1, 1, n)
<1>1. side \in 1..16 /\ n <= side * side
  <2>1. RootUp(1, 1, n) \in 1..16 /\ 1 * RootUp(1, 1, n) * RootUp(1, 1, n) >= n
    <3> DEFINE p == 1
    <3>1. n <= 256 * p /\ n \in Nat /\ p \in Nat /\ p <= 16
      OBVIOUS
    <3> HIDE DEF p
    <3>2. RootUp(p, p, n) \in p..16 /\ p * RootUp(p, p, n) * RootUp(p, p, n) >= n
      BY <3>1, RootIsUp
    <3> QED  BY <3>2 DEF p
  <2> HIDE DEF side
  <2>2. side \in 1..16 /\ 1 * side * side >= n
    BY <2>1 DEF side
  <2> QED  BY <2>2
<1> DEFINE S == {s \in (0..(side - 1)) \X (0..(side - 1)) : side * s[1] + s[2] < n}
           f == [s \in S |-> Place(side * s[1] + s[2], (20 * s[2] - 10 * (side - 1)) * sx,
                                   (20 * s[1] - 10 * (side - 1)) * sz,
                                   ((s[1] + s[2]) % 4) * 200, (s[1] + s[2]) % 4)]
<1>2. Grid(n, sx, sz) = {f[s] : s \in S}
  BY DEF Grid
<1> HIDE DEF side
<1>3. \A s \in S : /\ s[1] \in 0..(side - 1) /\ s[2] \in 0..(side - 1)
                   /\ f[s].id = side * s[1] + s[2] /\ side * s[1] + s[2] < n
                   /\ f[s].x = (20 * s[2] - 10 * (side - 1)) * sx
                   /\ f[s].y = (20 * s[1] - 10 * (side - 1)) * sz
  BY DEF Place
<1>4. S \subseteq Int \X Int
  BY <1>1
<1>5. /\ \A s \in S : f[s] \in Grid(n, sx, sz)
      /\ \A p \in Grid(n, sx, sz) : \E s \in S : p = f[s]
  <2> HIDE DEF f, S
  <2> QED  BY <1>2
<1>6. \A s \in S : f[s].id \in 0..(n - 1)
  <2> SUFFICES ASSUME NEW s \in S  PROVE f[s].id \in 0..(n - 1)
    OBVIOUS
  <2> HIDE DEF f, S
  <2>1. s[1] \in Nat /\ s[2] \in Nat /\ side \in Nat
    BY <1>1, <1>3
  <2>2. side * s[1] \in Nat
    BY <2>1
  <2> QED  BY <1>3, <2>1, <2>2
<1>7. \A k \in 0..(n - 1) : \E s \in S : f[s].id = k
  <2> SUFFICES ASSUME NEW k \in 0..(n - 1)  PROVE \E s \in S : f[s].id = k
    OBVIOUS
  <2>1. k \div side \in 0..(side - 1) /\ k % side \in 0..(side - 1)
        /\ (k \div side) * side + (k % side) = k
    BY <1>1, RowMajor
  <2> DEFINE s == <<k \div side, k % side>>
  <2>2. side * s[1] + s[2] = k
    <3>1. side \in Int
      BY <1>1
    <3> QED  BY <2>1, <3>1
  <2>3. s \in S
    BY <2>1, <2>2
  <2> HIDE DEF f, S, s
  <2> QED  BY <1>3, <2>2, <2>3
<1>8. \A s, t \in S : After(t, s) => f[s].id < f[t].id /\ Apart(f[s], f[t], 100)
  <2> SUFFICES ASSUME NEW s \in S, NEW t \in S, After(t, s)
               PROVE  f[s].id < f[t].id /\ Apart(f[s], f[t], 100)
    OBVIOUS
  <2> HIDE DEF f, S
  <2>1. /\ s[1] \in 0..(side - 1) /\ s[2] \in 0..(side - 1)
        /\ t[1] \in 0..(side - 1) /\ t[2] \in 0..(side - 1) /\ side \in Nat \ {0}
    BY <1>1, <1>3
  <2>2. f[s].id = side * s[1] + s[2] /\ f[t].id = side * t[1] + t[2]
    BY <1>3
  <2>3. f[s].id < f[t].id
    <3>1. s[1] * side + s[2] < t[1] * side + t[2]
      BY <1>1, <2>1, RowMajor DEF After
    <3> QED  BY <2>1, <2>2, <3>1
  <2>4. /\ f[s].x = (20 * s[2] - 10 * (side - 1)) * sx /\ f[t].x = (20 * t[2] - 10 * (side - 1)) * sx
        /\ f[s].y = (20 * s[1] - 10 * (side - 1)) * sz /\ f[t].y = (20 * t[1] - 10 * (side - 1)) * sz
    BY <1>3
  <2>5. f[s].x \in Int /\ f[t].x \in Int /\ f[s].y \in Int /\ f[t].y \in Int
    BY <2>1, <2>4
  <2>6. CASE s[1] < t[1]
    <3> DEFINE d == t[1] - s[1]
    <3>1. d \in Nat \ {0} /\ t[1] = s[1] + d
      BY <2>1, <2>6
    <3> HIDE DEF d
    <3>2. f[t].y - f[s].y = 20 * (d * sz)
      BY <2>1, <2>4, <3>1
    <3>3. 20 * sz >= 2000
      OBVIOUS
    <3>4. f[t].y - f[s].y >= 2000
      BY <2>5, <3>1, <3>2, <3>3, StepsApart
    <3> QED  BY <2>3, <2>5, <3>4, FarApart
  <2>7. CASE s[1] = t[1] /\ s[2] < t[2]
    <3> DEFINE d == t[2] - s[2]
    <3>1. d \in Nat \ {0} /\ t[2] = s[2] + d
      BY <2>1, <2>7
    <3> HIDE DEF d
    <3>2. f[t].x - f[s].x = 20 * (d * sx)
      BY <2>1, <2>4, <3>1
    <3>3. 20 * sx >= 2000
      OBVIOUS
    <3>4. f[t].x - f[s].x >= 2000
      BY <2>5, <3>1, <3>2, <3>3, StepsApart
    <3> QED  BY <2>3, <2>5, <3>4, FarApart
  <2> QED  BY <2>6, <2>7 DEF After
<1> HIDE DEF f, S
<1>9. n \in Nat
  OBVIOUS
<1> QED  BY <1>4, <1>5, <1>6, <1>7, <1>8, <1>9, InRows

\* A wedge: its row r begins after r * r crossbows, and 14 rows hold 196.
LEMMA WedgePlaced ==
  ASSUME NEW n \in 1..196, NEW sx \in Nat, sx >= 100, NEW sz \in Nat, sz >= 100
  PROVE  WellPlaced(WedgeRows(n, sx, sz), n)
<1> DEFINE S == {s \in (0..13) \X (0..26) : s[2] \in 0..(2 * s[1]) /\ s[1] * s[1] + s[2] < n}
           f == [s \in S |-> Place(s[1] * s[1] + s[2], (20 * s[2] - 10 * (2 * s[1] + 1)) * sx,
                                   -20 * s[1] * sz, s[1] * 200, s[1] % 4)]
           W(r, i) == Place(r * r + i, (20 * i - 10 * (2 * r + 1)) * sx, -20 * r * sz, r * 200, r % 4)
<1>1. \A s \in S : /\ s[1] \in 0..13 /\ s[2] \in 0..(2 * s[1])
                   /\ s[1] * s[1] + s[2] < n /\ f[s] = W(s[1], s[2])
  OBVIOUS
<1>2. \A r \in 0..13, i \in 0..26 : i \in 0..(2 * r) /\ r * r + i < n =>
          <<r, i>> \in S /\ f[<<r, i>>] = W(r, i)
  OBVIOUS
<1>3. \A p \in WedgeRows(n, sx, sz) : \E s \in S : p = f[s]
  <2> SUFFICES ASSUME NEW p \in WedgeRows(n, sx, sz)  PROVE \E s \in S : p = f[s]
    OBVIOUS
  <2>1. PICK r \in 0..13 : p \in {W(r, i) : i \in {i \in 0..(2 * r) : r * r + i < n}}
    BY DEF WedgeRows
  <2>2. PICK i \in 0..(2 * r) : r * r + i < n /\ p = W(r, i)
    BY <2>1
  <2>3. i \in 0..26
    OBVIOUS
  <2> HIDE DEF S, f, W
  <2> QED  BY <1>2, <2>2, <2>3
<1>4. \A s \in S : f[s] \in WedgeRows(n, sx, sz)
  <2> SUFFICES ASSUME NEW s \in S  PROVE f[s] \in WedgeRows(n, sx, sz)
    OBVIOUS
  <2>1. f[s] \in {W(s[1], i) : i \in {i \in 0..(2 * s[1]) : s[1] * s[1] + i < n}}
    BY <1>1
  <2> HIDE DEF S, f
  <2> QED  BY <1>1, <2>1 DEF WedgeRows
<1>5. \A s \in S : /\ f[s].id = s[1] * s[1] + s[2]
                   /\ f[s].x = (20 * s[2] - 10 * (2 * s[1] + 1)) * sx
                   /\ f[s].y = -20 * s[1] * sz
  BY <1>1 DEF Place
<1>6. S \subseteq Int \X Int
  OBVIOUS
<1> HIDE DEF S, f, W
<1>7. \A s \in S : f[s].id \in 0..(n - 1)
  <2> SUFFICES ASSUME NEW s \in S  PROVE f[s].id \in 0..(n - 1)
    OBVIOUS
  <2>1. s[1] \in Nat /\ s[2] \in Nat
    BY <1>1
  <2>2. s[1] * s[1] \in Nat
    BY <2>1
  <2> QED  BY <1>1, <1>5, <2>1, <2>2
<1>8. \A k \in 0..(n - 1) : \E s \in S : f[s].id = k
  <2> SUFFICES ASSUME NEW k \in 0..(n - 1)  PROVE \E s \in S : f[s].id = k
    OBVIOUS
  <2> DEFINE T == {r \in 0..13 : k < (r + 1) * (r + 1)}
             r == Min(T)
  <2>1. T \subseteq Nat /\ 13 \in T
    OBVIOUS
  <2>2. r \in T /\ \A y \in T : r <= y
    <3> HIDE DEF T
    <3> QED  BY <2>1, MinIsLeast
  <2>3. r \in 0..13 /\ k < (r + 1) * (r + 1)
    <3> HIDE DEF r
    <3> QED  BY <2>2
  <2> HIDE DEF r
  <2>4. r * r <= k
    <3>1. CASE r = 0
      BY <3>1
    <3>2. CASE r # 0
      <4>1. r - 1 \in 0..13 /\ r - 1 < r
        BY <2>3, <3>2
      <4>2. r - 1 \notin T
        <5> HIDE DEF T
        <5> QED  BY <2>2, <2>3, <4>1
      <4>3. ~ (k < (r - 1 + 1) * (r - 1 + 1))
        BY <4>1, <4>2
      <4>4. r - 1 + 1 = r /\ r * r \in Int
        BY <2>3
      <4>5. ~ (k < r * r)
        BY <4>3, <4>4
      <4> QED  BY <4>4, <4>5
    <3> QED  BY <3>1, <3>2
  <2> HIDE DEF T
  <2> DEFINE i == k - r * r
  <2>5. r * r \in Nat /\ (r + 1) * (r + 1) = r * r + 2 * r + 1
    BY <2>3
  <2>6. i \in 0..(2 * r) /\ i \in 0..26 /\ r * r + i = k
    BY <2>3, <2>4, <2>5
  <2> HIDE DEF i
  <2>7. k < n
    OBVIOUS
  <2>8. <<r, i>> \in S
    BY <1>2, <2>3, <2>6, <2>7
  <2>9. f[<<r, i>>].id = k
    BY <1>5, <2>6, <2>8
  <2> QED  BY <2>8, <2>9
<1>9. \A s, t \in S : After(t, s) => f[s].id < f[t].id /\ Apart(f[s], f[t], 100)
  <2> SUFFICES ASSUME NEW s \in S, NEW t \in S, After(t, s)
               PROVE  f[s].id < f[t].id /\ Apart(f[s], f[t], 100)
    OBVIOUS
  <2>1. s[1] \in Nat /\ s[2] \in Nat /\ t[1] \in Nat /\ t[2] \in Nat /\ s[2] <= 2 * s[1]
    <3>1. s[1] \in 0..13 /\ s[2] \in 0..(2 * s[1])
      BY <1>1
    <3>2. t[1] \in 0..13 /\ t[2] \in 0..(2 * t[1])
      BY <1>1
    <3> QED  BY <3>1, <3>2
  <2>2. f[s].id = s[1] * s[1] + s[2] /\ f[t].id = t[1] * t[1] + t[2]
    BY <1>5
  <2>3. /\ f[s].x = (20 * s[2] - 10 * (2 * s[1] + 1)) * sx
        /\ f[t].x = (20 * t[2] - 10 * (2 * t[1] + 1)) * sx
        /\ f[s].y = -20 * s[1] * sz /\ f[t].y = -20 * t[1] * sz
    BY <1>5
  <2>4. f[s].x \in Int /\ f[t].x \in Int /\ f[s].y \in Int /\ f[t].y \in Int
    BY <2>1, <2>3
  <2>5. CASE s[1] < t[1]
    <3> DEFINE d == t[1] - s[1]
    <3>1. d \in Nat \ {0} /\ t[1] = s[1] + d
      BY <2>1, <2>5
    <3> HIDE DEF d
    <3>2. f[s].y - f[t].y = 20 * (d * sz)
      BY <2>1, <2>3, <3>1
    <3>3. 20 * sz >= 2000
      OBVIOUS
    <3>4. f[s].y - f[t].y >= 2000
      BY <2>4, <3>1, <3>2, <3>3, StepsApart
    <3>5. f[s].id < f[t].id
      <4>1. t[1] * t[1] = s[1] * s[1] + 2 * (s[1] * d) + d * d
        BY <2>1, <3>1
      <4>2. s[1] * d >= s[1] /\ d * d >= 1 /\ s[1] * d \in Nat /\ d * d \in Nat /\ s[1] * s[1] \in Nat
        BY <2>1, <3>1
      <4> QED  BY <2>1, <2>2, <4>1, <4>2
    <3> QED  BY <2>4, <3>4, <3>5, FarApart
  <2>6. CASE s[1] = t[1] /\ s[2] < t[2]
    <3> DEFINE d == t[2] - s[2]
    <3>1. d \in Nat \ {0} /\ t[2] = s[2] + d
      BY <2>1, <2>6
    <3> HIDE DEF d
    <3>2. f[t].x - f[s].x = 20 * (d * sx)
      BY <2>1, <2>3, <2>6, <3>1
    <3>3. 20 * sx >= 2000
      OBVIOUS
    <3>4. f[t].x - f[s].x >= 2000
      BY <2>4, <3>1, <3>2, <3>3, StepsApart
    <3>5. s[1] * s[1] \in Nat
      BY <2>1
    <3>6. f[s].id < f[t].id
      BY <2>1, <2>2, <2>6, <3>1, <3>5
    <3> QED  BY <2>4, <3>4, <3>6, FarApart
  <2> QED  BY <2>5, <2>6 DEF After
<1>10. n \in Nat
  OBVIOUS
<1> QED  BY <1>3, <1>4, <1>6, <1>7, <1>8, <1>9, <1>10, InRows

\* A vee: its second side begins after the first, and both spread from the centre.
LEMMA VeePlaced ==
  ASSUME NEW n \in Nat \ {0}, NEW sx \in Nat, sx >= 100, NEW sz \in Nat, sz >= 125
  PROVE  WellPlaced(VeeSides(n, sx, sz), n)
<1> DEFINE half == (n + 1) \div 2
           S == {s \in {0, 1} \X (1..half) : s[1] * half + s[2] - 1 < n}
           f == [s \in S |-> Place(s[1] * half + s[2] - 1, (2 * s[1] - 1) * 10 * s[2] * sx,
                                   16 * s[2] * sz, s[2] * 120, (s[2] + s[1] * 3) % 6)]
<1>1. half \in Nat \ {0} /\ n <= 2 * half
  OBVIOUS
<1>2. VeeSides(n, sx, sz) = {f[s] : s \in S}
  BY DEF VeeSides
<1> HIDE DEF half
<1>3. \A s \in S : /\ s[1] \in {0, 1} /\ s[2] \in 1..half /\ s[1] * half + s[2] - 1 < n
                   /\ f[s].id = s[1] * half + s[2] - 1
                   /\ f[s].x = (2 * s[1] - 1) * 10 * s[2] * sx /\ f[s].y = 16 * s[2] * sz
  BY DEF Place
<1>4. S \subseteq Int \X Int
  BY <1>1
<1>5. /\ \A s \in S : f[s] \in VeeSides(n, sx, sz)
      /\ \A p \in VeeSides(n, sx, sz) : \E s \in S : p = f[s]
  <2> HIDE DEF f, S
  <2> QED  BY <1>2
<1> HIDE DEF f
<1>6. \A s \in S : f[s].id \in 0..(n - 1)
  <2> SUFFICES ASSUME NEW s \in S  PROVE f[s].id \in 0..(n - 1)
    OBVIOUS
  <2>1. s[1] \in {0, 1} /\ s[2] \in 1..half /\ s[1] * half + s[2] - 1 < n
        /\ f[s].id = s[1] * half + s[2] - 1
    BY <1>3
  <2> HIDE DEF S
  <2>2. CASE s[1] = 0
    BY <1>1, <2>1, <2>2
  <2>3. CASE s[1] = 1
    BY <1>1, <2>1, <2>3
  <2> QED  BY <2>1, <2>2, <2>3
<1>7. \A k \in 0..(n - 1) : \E s \in S : f[s].id = k
  <2> SUFFICES ASSUME NEW k \in 0..(n - 1)  PROVE \E s \in S : f[s].id = k
    OBVIOUS
  <2>1. CASE k < half
    <3>1. <<0, k + 1>> \in S
      BY <1>1, <2>1
    <3>2. f[<<0, k + 1>>].id = 0 * half + (k + 1) - 1
      BY <1>3, <3>1
    <3> HIDE DEF S
    <3> QED  BY <1>1, <3>1, <3>2
  <2>2. CASE k >= half
    <3>1. <<1, k - half + 1>> \in S
      BY <1>1, <2>2
    <3>2. f[<<1, k - half + 1>>].id = 1 * half + (k - half + 1) - 1
      BY <1>3, <3>1
    <3> HIDE DEF S
    <3> QED  BY <1>1, <3>1, <3>2
  <2> QED  BY <1>1, <2>1, <2>2
<1>8. \A s, t \in S : After(t, s) => f[s].id < f[t].id /\ Apart(f[s], f[t], 100)
  <2> SUFFICES ASSUME NEW s \in S, NEW t \in S, After(t, s)
               PROVE  f[s].id < f[t].id /\ Apart(f[s], f[t], 100)
    OBVIOUS
  <2> HIDE DEF S
  <2>1. /\ s[1] \in {0, 1} /\ s[2] \in 1..half /\ f[s].id = s[1] * half + s[2] - 1
        /\ f[s].x = (2 * s[1] - 1) * 10 * s[2] * sx /\ f[s].y = 16 * s[2] * sz
    BY <1>3
  <2>2. /\ t[1] \in {0, 1} /\ t[2] \in 1..half /\ f[t].id = t[1] * half + t[2] - 1
        /\ f[t].x = (2 * t[1] - 1) * 10 * t[2] * sx /\ f[t].y = 16 * t[2] * sz
    BY <1>3
  <2>3. f[s].x \in Int /\ f[t].x \in Int /\ f[s].y \in Int /\ f[t].y \in Int
    BY <1>1, <2>1, <2>2
  <2>4. CASE s[1] < t[1]
    <3>1. s[1] = 0 /\ t[1] = 1
      BY <2>1, <2>2, <2>4
    <3> DEFINE d == s[2] + t[2]
    <3>2. d \in Nat \ {0} /\ d >= 2
      BY <1>1, <2>1, <2>2
    <3>3. f[s].x = -(10 * (s[2] * sx)) /\ f[t].x = 10 * (t[2] * sx) /\ s[2] \in Int /\ t[2] \in Int
      BY <1>1, <2>1, <2>2, <3>1
    <3>4. f[t].x - f[s].x = 10 * (d * sx)
      BY <3>3
    <3> HIDE DEF d
    <3>5. PICK e \in Nat : d = 2 + e
      BY <3>2
    <3>6. d * sx = 2 * sx + e * sx /\ e * sx \in Nat
      BY <3>5
    <3>7. f[t].x - f[s].x >= 2000
      BY <3>4, <3>6
    <3>8. f[s].id < f[t].id
      BY <1>1, <2>1, <2>2, <3>1
    <3> QED  BY <2>3, <3>7, <3>8, FarApart
  <2>5. CASE s[1] = t[1] /\ s[2] < t[2]
    <3> DEFINE d == t[2] - s[2]
    <3>1. d \in Nat \ {0} /\ t[2] = s[2] + d /\ s[2] \in Int
      BY <1>1, <2>1, <2>2, <2>5
    <3> HIDE DEF d
    <3>2. f[t].y - f[s].y = 16 * (d * sz)
      BY <2>1, <2>2, <3>1
    <3>3. 16 * sz >= 2000
      OBVIOUS
    <3>4. f[t].y - f[s].y >= 2000
      BY <2>3, <3>1, <3>2, <3>3, StepsApart
    <3>5. s[1] * half \in Int
      BY <1>1, <2>1
    <3>6. f[s].id < f[t].id
      BY <2>1, <2>2, <2>5, <3>1, <3>5
    <3> QED  BY <2>3, <3>4, <3>6, FarApart
  <2> QED  BY <2>4, <2>5 DEF After
<1> HIDE DEF S
<1> QED  BY <1>4, <1>5, <1>6, <1>7, <1>8, InRows

\* A crane: a centre, and two wings that begin where it ends.
LEMMA CranePlaced ==
  ASSUME NEW n \in Nat \ {0}, NEW sx \in Nat, sx >= 150, NEW sz \in Nat
  PROVE  WellPlaced(Crane(n, sx, sz), n)
<1> DEFINE wing == n \div 3
           centre == n - 2 * wing
           S == ({0} \X (0..(centre - 1))) \cup ({1, 2} \X (1..wing))
           C(i) == Place(i, (18 * i - 9 * (centre - 1)) * sx, 0, 0, 0)
           W(w, i) == Place(centre + w * wing + i - 1,
                            (2 * w - 1) * (9 * (centre - 1) + 14 * i) * sx, 24 * i * sz,
                            i * 100, w + 1)
           f == [s \in S |-> IF s[1] = 0 THEN C(s[2]) ELSE W(s[1] - 1, s[2])]
<1>1. wing \in Nat /\ centre \in Nat \ {0} /\ n = centre + 2 * wing
  OBVIOUS
<1>2. Crane(n, sx, sz) = {C(i) : i \in 0..(centre - 1)} \cup {W(w, i) : w \in {0, 1}, i \in 1..wing}
  BY DEF Crane
<1> HIDE DEF wing, centre
<1>3. \A s \in S : \/ s[1] = 0 /\ s[2] \in 0..(centre - 1) /\ f[s] = C(s[2])
                   \/ s[1] \in {1, 2} /\ s[2] \in 1..wing /\ f[s] = W(s[1] - 1, s[2])
  OBVIOUS
<1>4. \A i \in 0..(centre - 1) : <<0, i>> \in S /\ f[<<0, i>>] = C(i)
  OBVIOUS
<1>5. \A w \in {0, 1}, i \in 1..wing : <<w + 1, i>> \in S /\ f[<<w + 1, i>>] = W(w, i)
  OBVIOUS
<1>6. S \subseteq Int \X Int
  BY <1>1
<1> HIDE DEF S, f
<1>7. \A i : C(i).id = i /\ C(i).x = (18 * i - 9 * (centre - 1)) * sx /\ C(i).y = 0
  BY DEF Place
<1>8. \A w, i : /\ W(w, i).id = centre + w * wing + i - 1
                /\ W(w, i).x = (2 * w - 1) * (9 * (centre - 1) + 14 * i) * sx
                /\ W(w, i).y = 24 * i * sz
  BY DEF Place
<1> HIDE DEF C, W
<1>9. \A p \in Crane(n, sx, sz) : \E s \in S : p = f[s]
  <2> SUFFICES ASSUME NEW p \in Crane(n, sx, sz)  PROVE \E s \in S : p = f[s]
    OBVIOUS
  <2>1. CASE p \in {C(i) : i \in 0..(centre - 1)}
    <3>1. PICK i \in 0..(centre - 1) : p = C(i)
      BY <2>1
    <3> QED  BY <1>4, <3>1
  <2>2. CASE p \in {W(w, i) : w \in {0, 1}, i \in 1..wing}
    <3>1. PICK w \in {0, 1}, i \in 1..wing : p = W(w, i)
      BY <2>2
    <3> QED  BY <1>5, <3>1
  <2> QED  BY <1>2, <2>1, <2>2
<1>10. \A s \in S : f[s] \in Crane(n, sx, sz)
  <2> SUFFICES ASSUME NEW s \in S  PROVE f[s] \in Crane(n, sx, sz)
    OBVIOUS
  <2>1. CASE s[1] = 0 /\ s[2] \in 0..(centre - 1) /\ f[s] = C(s[2])
    BY <1>2, <2>1
  <2>2. CASE s[1] \in {1, 2} /\ s[2] \in 1..wing /\ f[s] = W(s[1] - 1, s[2])
    <3>1. s[1] - 1 \in {0, 1}
      BY <2>2
    <3> QED  BY <1>2, <2>2, <3>1
  <2> QED  BY <1>3, <2>1, <2>2
<1>11. \A s \in S : f[s].id \in 0..(n - 1)
  <2> SUFFICES ASSUME NEW s \in S  PROVE f[s].id \in 0..(n - 1)
    OBVIOUS
  <2>1. CASE s[1] = 0 /\ s[2] \in 0..(centre - 1) /\ f[s] = C(s[2])
    BY <1>1, <1>7, <2>1
  <2>2. CASE s[1] = 1 /\ s[2] \in 1..wing /\ f[s] = W(0, s[2])
    <3>1. f[s].id = centre + 0 * wing + s[2] - 1
      BY <1>8, <2>2
    <3> QED  BY <1>1, <2>2, <3>1
  <2>3. CASE s[1] = 2 /\ s[2] \in 1..wing /\ f[s] = W(1, s[2])
    <3>1. f[s].id = centre + 1 * wing + s[2] - 1
      BY <1>8, <2>3
    <3> QED  BY <1>1, <2>3, <3>1
  <2> QED  BY <1>3, <2>1, <2>2, <2>3
<1>12. \A k \in 0..(n - 1) : \E s \in S : f[s].id = k
  <2> SUFFICES ASSUME NEW k \in 0..(n - 1)  PROVE \E s \in S : f[s].id = k
    OBVIOUS
  <2>1. CASE k < centre
    <3>1. k \in 0..(centre - 1)
      BY <1>1, <2>1
    <3> QED  BY <1>4, <1>7, <3>1
  <2>2. CASE k >= centre /\ k < centre + wing
    <3>1. k - centre + 1 \in 1..wing /\ 0 \in {0, 1}
      BY <1>1, <2>2
    <3>2. W(0, k - centre + 1).id = centre + 0 * wing + (k - centre + 1) - 1
      BY <1>8
    <3>3. W(0, k - centre + 1).id = k
      BY <1>1, <3>2
    <3> QED  BY <1>5, <3>1, <3>3
  <2>3. CASE k >= centre + wing
    <3>1. k - centre - wing + 1 \in 1..wing /\ 1 \in {0, 1}
      BY <1>1, <2>3
    <3>2. W(1, k - centre - wing + 1).id = centre + 1 * wing + (k - centre - wing + 1) - 1
      BY <1>8
    <3>3. W(1, k - centre - wing + 1).id = k
      BY <1>1, <3>2
    <3> QED  BY <1>5, <3>1, <3>3
  <2> QED  BY <1>1, <2>1, <2>2, <2>3
<1>13. \A s, t \in S : After(t, s) => f[s].id < f[t].id /\ Apart(f[s], f[t], 100)
  <2> SUFFICES ASSUME NEW s \in S, NEW t \in S, After(t, s)
               PROVE  f[s].id < f[t].id /\ Apart(f[s], f[t], 100)
    OBVIOUS
  <2> DEFINE c == 9 * (centre - 1)
             InCentre(u) == /\ u[1] = 0 /\ u[2] \in 0..(centre - 1) /\ f[u].id = u[2]
                            /\ f[u].x = 18 * (u[2] * sx) - c * sx /\ f[u].y = 0
             InLeft(u) == /\ u[1] = 1 /\ u[2] \in 1..wing /\ f[u].id = centre + u[2] - 1
                          /\ f[u].x = -(c * sx) - 14 * (u[2] * sx) /\ f[u].y \in Int
             InRight(u) == /\ u[1] = 2 /\ u[2] \in 1..wing /\ f[u].id = centre + wing + u[2] - 1
                           /\ f[u].x = c * sx + 14 * (u[2] * sx) /\ f[u].y \in Int
  <2>1. \A u \in S : InCentre(u) \/ InLeft(u) \/ InRight(u)
    <3> SUFFICES ASSUME NEW u \in S  PROVE InCentre(u) \/ InLeft(u) \/ InRight(u)
      OBVIOUS
    <3>1. CASE u[1] = 0 /\ u[2] \in 0..(centre - 1) /\ f[u] = C(u[2])
      <4>1. f[u].id = u[2] /\ f[u].x = (18 * u[2] - 9 * (centre - 1)) * sx /\ f[u].y = 0
        BY <1>7, <3>1
      <4>2. u[2] \in Int /\ centre \in Int
        BY <1>1, <3>1
      <4>3. f[u].x = 18 * (u[2] * sx) - c * sx
        BY <4>1, <4>2
      <4> QED  BY <3>1, <4>1, <4>3
    <3>2. CASE u[1] = 1 /\ u[2] \in 1..wing /\ f[u] = W(0, u[2])
      <4>1. /\ f[u].id = centre + 0 * wing + u[2] - 1
            /\ f[u].x = (2 * 0 - 1) * (9 * (centre - 1) + 14 * u[2]) * sx /\ f[u].y = 24 * u[2] * sz
        BY <1>8, <3>2
      <4>2. u[2] \in Int /\ centre \in Int /\ wing \in Int
        BY <1>1, <3>2
      <4>3. f[u].x = -(c * sx) - 14 * (u[2] * sx) /\ f[u].y \in Int /\ f[u].id = centre + u[2] - 1
        BY <4>1, <4>2
      <4> QED  BY <3>2, <4>3
    <3>3. CASE u[1] = 2 /\ u[2] \in 1..wing /\ f[u] = W(1, u[2])
      <4>1. /\ f[u].id = centre + 1 * wing + u[2] - 1
            /\ f[u].x = (2 * 1 - 1) * (9 * (centre - 1) + 14 * u[2]) * sx /\ f[u].y = 24 * u[2] * sz
        BY <1>8, <3>3
      <4>2. u[2] \in Int /\ centre \in Int /\ wing \in Int
        BY <1>1, <3>3
      <4>3. f[u].x = c * sx + 14 * (u[2] * sx) /\ f[u].y \in Int /\ f[u].id = centre + wing + u[2] - 1
        BY <4>1, <4>2
      <4> QED  BY <3>3, <4>3
    <3> QED  BY <1>3, <3>1, <3>2, <3>3
  <2>2. c \in Nat /\ c * sx \in Nat /\ s[2] \in Nat /\ t[2] \in Nat
        /\ s[2] * sx \in Nat /\ t[2] * sx \in Nat
    <3>1. \A u \in S : u[2] \in Nat
      BY <1>1, <2>1
    <3> QED  BY <1>1, <3>1
  <2>3. f[s].x \in Int /\ f[t].x \in Int /\ f[s].y \in Int /\ f[t].y \in Int
    <3> HIDE DEF c
    <3> QED  BY <2>1, <2>2
  <2>4. \A d \in Nat \ {0} : 14 * (d * sx) >= 2000 /\ 18 * (d * sx) >= 2000 /\ d * sx \in Nat
    <3> SUFFICES ASSUME NEW d \in Nat \ {0}
                 PROVE  14 * (d * sx) >= 2000 /\ 18 * (d * sx) >= 2000 /\ d * sx \in Nat
      OBVIOUS
    <3>1. d * sx >= sx /\ d * sx \in Nat
      OBVIOUS
    <3> QED  BY <3>1
  <2>5. CASE s[1] = t[1] /\ s[2] < t[2]
    <3> DEFINE d == t[2] - s[2]
    <3>1. d \in Nat \ {0} /\ t[2] = s[2] + d
      BY <2>2, <2>5
    <3> HIDE DEF d
    <3>2. t[2] * sx = s[2] * sx + d * sx
      BY <2>2, <3>1
    <3>3. 14 * (d * sx) >= 2000 /\ 18 * (d * sx) >= 2000 /\ d * sx \in Nat
      BY <2>4, <3>1
    <3> HIDE DEF c
    <3>4. CASE InCentre(s) /\ InCentre(t)
      <4>1. f[t].x - f[s].x = 18 * (d * sx)
        BY <2>2, <3>2, <3>4, <3>3
      <4>2. f[s].id < f[t].id
        BY <2>2, <2>5, <3>4
      <4> QED  BY <2>3, <3>3, <4>1, <4>2, FarApart
    <3>5. CASE InLeft(s) /\ InLeft(t)
      <4>1. f[s].x - f[t].x = 14 * (d * sx)
        BY <2>2, <3>2, <3>5, <3>3
      <4>2. f[s].id < f[t].id
        BY <1>1, <2>2, <2>5, <3>5
      <4> QED  BY <2>3, <3>3, <4>1, <4>2, FarApart
    <3>6. CASE InRight(s) /\ InRight(t)
      <4>1. f[t].x - f[s].x = 14 * (d * sx)
        BY <2>2, <3>2, <3>6, <3>3
      <4>2. f[s].id < f[t].id
        BY <1>1, <2>2, <2>5, <3>6
      <4> QED  BY <2>3, <3>3, <4>1, <4>2, FarApart
    <3>7. \/ InCentre(s) /\ InCentre(t)
          \/ InLeft(s) /\ InLeft(t)
          \/ InRight(s) /\ InRight(t)
      BY <2>1, <2>5
    <3> QED  BY <3>4, <3>5, <3>6, <3>7
  <2>6. CASE s[1] < t[1]
    <3>1. \A u : InRight(u) \/ InLeft(u) => 14 * (u[2] * sx) >= 2000 /\ u[2] * sx \in Nat
      <4> SUFFICES ASSUME NEW u, u[2] \in 1..wing  PROVE 14 * (u[2] * sx) >= 2000 /\ u[2] * sx \in Nat
        OBVIOUS
      <4>1. u[2] \in Nat \ {0}
        BY <1>1
      <4> QED  BY <2>4, <4>1
    <3>2. CASE InCentre(s) /\ InLeft(t)
      <4> HIDE DEF c
      <4>1. f[s].x - f[t].x = 18 * (s[2] * sx) + 14 * (t[2] * sx)
        BY <2>2, <3>2
      <4>2. f[s].x - f[t].x >= 2000
        BY <2>2, <3>1, <3>2, <4>1
      <4>3. f[s].id < f[t].id
        BY <1>1, <2>2, <3>2
      <4> QED  BY <2>3, <4>2, <4>3, FarApart
    <3>3. CASE InCentre(s) /\ InRight(t)
      <4> DEFINE e == centre - 1 - s[2]
      <4>1. e \in Nat /\ s[2] + e = centre - 1 /\ centre - 1 \in Nat
        BY <1>1, <3>3
      <4> HIDE DEF e
      <4>2. c * sx = 9 * (s[2] * sx) + 9 * (e * sx) /\ e * sx \in Nat
        BY <2>2, <4>1
      <4> HIDE DEF c
      <4>3. f[t].x - f[s].x = 18 * (e * sx) + 14 * (t[2] * sx)
        BY <2>2, <3>3, <4>2
      <4>4. f[t].x - f[s].x >= 2000
        BY <2>2, <3>1, <3>3, <4>2, <4>3
      <4>5. f[s].id < f[t].id
        BY <1>1, <2>2, <3>3
      <4> QED  BY <2>3, <4>4, <4>5, FarApart
    <3>4. CASE InLeft(s) /\ InRight(t)
      <4> HIDE DEF c
      <4>1. f[t].x - f[s].x = 2 * (c * sx) + 14 * (s[2] * sx) + 14 * (t[2] * sx)
        BY <2>2, <3>4
      <4>2. f[t].x - f[s].x >= 2000
        BY <2>2, <3>1, <3>4, <4>1
      <4>3. f[s].id < f[t].id
        BY <1>1, <2>2, <3>4
      <4> QED  BY <2>3, <4>2, <4>3, FarApart
    <3>5. \/ InCentre(s) /\ InLeft(t)
          \/ InCentre(s) /\ InRight(t)
          \/ InLeft(s) /\ InRight(t)
      BY <2>1, <2>6
    <3> QED  BY <3>2, <3>3, <3>4, <3>5
  <2> QED  BY <2>5, <2>6 DEF After
<1> QED  BY <1>6, <1>9, <1>10, <1>11, <1>12, <1>13, InRows

\* The smaller and the larger of two integers.
LEMMA Smaller ==
  ASSUME NEW a \in Int, NEW b \in Int
  PROVE  Min({a, b}) = IF a <= b THEN a ELSE b
<1>1. Min({a, b}) \in {a, b} /\ \A y \in {a, b} : Min({a, b}) <= y
  <2> DEFINE m == IF a <= b THEN a ELSE b
  <2>1. m \in {a, b} /\ \A y \in {a, b} : m <= y
    OBVIOUS
  <2> QED  BY <2>1 DEF Min
<1> QED  BY <1>1

LEMMA Larger ==
  ASSUME NEW a \in Int, NEW b \in Int
  PROVE  Max({a, b}) = IF a >= b THEN a ELSE b
<1>1. Max({a, b}) \in {a, b} /\ \A y \in {a, b} : Max({a, b}) >= y
  <2> DEFINE m == IF a >= b THEN a ELSE b
  <2>1. m \in {a, b} /\ \A y \in {a, b} : m >= y
    OBVIOUS
  <2> QED  BY <2>1 DEF Max
<1> QED  BY <1>1

\* Scales: rows of as many crossbows, of which the last is shorter.
LEMMA FishPlaced ==
  ASSUME NEW n \in 1..400, NEW sx \in Nat, sx >= 100, NEW sz \in Nat, sz >= 100
  PROVE  WellPlaced(Fish(n, sx, sz), n)
<1> DEFINE rows == RootUp(3, 10, 6 * n)
           cols == (n + rows - 1) \div rows
           InRow(r) == Min({cols, n - r * cols})
           P(r, i) == Place(r * cols + i, (20 * i - 10 * (InRow(r) - 1) + 10 * (r % 2)) * sx,
                            20 * r * sz, r * 150, r)
           S == {s \in (0..(rows - 1)) \X (0..(cols - 1)) : s[1] * cols + s[2] < n}
           f == [s \in S |-> P(s[1], s[2])]
<1>1. rows \in 3..16
  <2> DEFINE lo == 3
             p == 10
  <2>1. 6 * n <= 256 * p /\ 6 * n \in Nat /\ p \in Nat /\ lo \in Nat /\ lo <= 16
    OBVIOUS
  <2> HIDE DEF lo, p
  <2>2. RootUp(lo, p, 6 * n) \in lo..16
    BY <2>1, RootIsUp
  <2> QED  BY <2>2 DEF lo, p
<1>2. Fish(n, sx, sz) = UNION {{P(r, i) : i \in 0..(InRow(r) - 1)} : r \in 0..(rows - 1)}
  BY DEF Fish
<1> HIDE DEF rows
<1>3. cols \in Nat \ {0} /\ n <= rows * cols
  <2> DEFINE a == n + rows - 1
  <2>1. a \in Nat /\ a >= rows /\ rows \in Nat \ {0}
    BY <1>1
  <2>2. a \div rows \in Nat /\ rows * (a \div rows) <= a /\ a < rows * (a \div rows) + rows
    <3> HIDE DEF a
    <3> QED  BY <2>1, Quotient
  <2>3. cols \in Nat /\ a < rows * cols + rows
    BY <2>2
  <2> HIDE DEF cols
  <2>4. cols # 0
    <3> HIDE DEF a
    <3> QED  BY <2>1, <2>3
  <2>5. rows * cols \in Nat
    BY <2>1, <2>3
  <2> QED  BY <1>1, <2>3, <2>4, <2>5
<1> HIDE DEF cols
<1>4. \A r \in 0..(rows - 1) : InRow(r) \in Int /\ \A i \in Int : i <= InRow(r) - 1 <=> i < cols /\ r * cols + i < n
  <2> SUFFICES ASSUME NEW r \in 0..(rows - 1)
               PROVE  InRow(r) \in Int /\ \A i \in Int : i <= InRow(r) - 1 <=> i < cols /\ r * cols + i < n
    OBVIOUS
  <2>1. r * cols \in Int /\ cols \in Int /\ n \in Int
    BY <1>1, <1>3
  <2> DEFINE b == n - r * cols
  <2>2. b \in Int /\ n = b + r * cols
    BY <2>1
  <2> HIDE DEF b
  <2>3. Min({cols, b}) = IF cols <= b THEN cols ELSE b
    BY <2>1, <2>2, Smaller
  <2>4. InRow(r) = IF cols <= b THEN cols ELSE b
    BY <2>3 DEF b
  <2> HIDE DEF InRow
  <2> QED  BY <2>1, <2>2, <2>4
<1>5. \A s \in S : /\ s[1] \in 0..(rows - 1) /\ s[2] \in 0..(cols - 1)
                   /\ s[1] * cols + s[2] < n /\ f[s] = P(s[1], s[2])
  BY <1>1, <1>3
<1>6. \A r \in 0..(rows - 1), i \in 0..(cols - 1) : r * cols + i < n =>
          <<r, i>> \in S /\ f[<<r, i>>] = P(r, i)
  OBVIOUS
<1>7. S \subseteq Int \X Int
  BY <1>1, <1>3
<1> HIDE DEF S, f
<1>8. \A s \in S : /\ f[s].id = s[1] * cols + s[2]
                   /\ f[s].x = (20 * s[2] - 10 * (InRow(s[1]) - 1) + 10 * (s[1] % 2)) * sx
                   /\ f[s].y = 20 * s[1] * sz
  <2>1. \A r, i : /\ P(r, i).id = r * cols + i
                  /\ P(r, i).x = (20 * i - 10 * (InRow(r) - 1) + 10 * (r % 2)) * sx
                  /\ P(r, i).y = 20 * r * sz
    BY DEF Place
  <2> HIDE DEF P, InRow
  <2> QED  BY <1>5, <2>1
<1> HIDE DEF P, InRow
<1>14. n \in Nat /\ rows \in Nat /\ cols \in Nat \ {0} /\ n <= rows * cols
  BY <1>1, <1>3
<1>9. \A p \in Fish(n, sx, sz) : \E s \in S : p = f[s]
  <2> SUFFICES ASSUME NEW p \in Fish(n, sx, sz)  PROVE \E s \in S : p = f[s]
    OBVIOUS
  <2>1. PICK r \in 0..(rows - 1) : p \in {P(r, i) : i \in 0..(InRow(r) - 1)}
    BY <1>2
  <2>2. PICK i \in 0..(InRow(r) - 1) : p = P(r, i)
    BY <2>1
  <2>3. i \in Int /\ 0 <= i /\ i <= InRow(r) - 1
    BY <1>4, <2>2
  <2>4. i \in 0..(cols - 1) /\ r * cols + i < n
    BY <1>3, <1>4, <2>3
  <2> QED  BY <1>6, <2>2, <2>4
<1>10. \A s \in S : f[s] \in Fish(n, sx, sz)
  <2> SUFFICES ASSUME NEW s \in S  PROVE f[s] \in Fish(n, sx, sz)
    OBVIOUS
  <2>1. s[1] \in 0..(rows - 1) /\ s[2] \in 0..(cols - 1) /\ s[1] * cols + s[2] < n
        /\ f[s] = P(s[1], s[2])
    BY <1>5
  <2>2. s[2] \in Int /\ 0 <= s[2] /\ s[2] < cols
    BY <1>3, <2>1
  <2>3. s[2] <= InRow(s[1]) - 1 /\ InRow(s[1]) \in Int
    BY <1>4, <2>1, <2>2
  <2>4. s[2] \in 0..(InRow(s[1]) - 1)
    BY <2>2, <2>3
  <2>5. f[s] \in {P(s[1], i) : i \in 0..(InRow(s[1]) - 1)}
    BY <2>1, <2>4
  <2> QED  BY <1>2, <2>1, <2>5
<1>11. \A s \in S : f[s].id \in 0..(n - 1)
  <2> SUFFICES ASSUME NEW s \in S  PROVE f[s].id \in 0..(n - 1)
    OBVIOUS
  <2>1. s[1] \in Nat /\ s[2] \in Nat /\ cols \in Nat /\ s[1] * cols + s[2] < n
    BY <1>3, <1>5
  <2>2. s[1] * cols \in Nat
    BY <2>1
  <2> QED  BY <1>8, <2>1, <2>2
<1>12. \A k \in 0..(n - 1) : \E s \in S : f[s].id = k
  <2> SUFFICES ASSUME NEW k \in 0..(n - 1)  PROVE \E s \in S : f[s].id = k
    OBVIOUS
  <2>1. k \div cols \in 0..(rows - 1) /\ k % cols \in 0..(cols - 1)
        /\ (k \div cols) * cols + (k % cols) = k
    BY <1>14, RowMajor
  <2> DEFINE r == k \div cols
             i == k % cols
  <2> HIDE DEF r, i
  <2>2. r \in 0..(rows - 1) /\ i \in 0..(cols - 1) /\ r * cols + i = k
    BY <2>1 DEF r, i
  <2>3. k < n
    OBVIOUS
  <2>4. <<r, i>> \in S
    BY <1>6, <2>2, <2>3
  <2>5. f[<<r, i>>].id = k
    BY <1>8, <2>2, <2>4
  <2> QED  BY <2>4, <2>5
<1>13. \A s, t \in S : After(t, s) => f[s].id < f[t].id /\ Apart(f[s], f[t], 100)
  <2> SUFFICES ASSUME NEW s \in S, NEW t \in S, After(t, s)
               PROVE  f[s].id < f[t].id /\ Apart(f[s], f[t], 100)
    OBVIOUS
  <2>1. /\ s[1] \in Nat /\ s[2] \in 0..(cols - 1) /\ s[1] \in 0..(rows - 1)
        /\ t[1] \in Nat /\ t[2] \in 0..(cols - 1) /\ t[1] \in 0..(rows - 1)
    BY <1>1, <1>5
  <2>2. f[s].id = s[1] * cols + s[2] /\ f[t].id = t[1] * cols + t[2]
    BY <1>8
  <2>3. f[s].id < f[t].id
    <3>1. s[1] * cols + s[2] < t[1] * cols + t[2]
      BY <1>14, <2>1, RowMajor DEF After
    <3> QED  BY <2>2, <3>1
  <2> DEFINE u == 10 * (InRow(s[1]) - 1) - 10 * (s[1] % 2)
             v == 10 * (InRow(t[1]) - 1) - 10 * (t[1] % 2)
  <2>4. u \in Int /\ v \in Int /\ s[2] \in Int /\ t[2] \in Int
    BY <1>3, <1>4, <2>1
  <2>5. f[s].x = (20 * s[2] - u) * sx /\ f[t].x = (20 * t[2] - v) * sx
    <3>1. InRow(s[1]) \in Int /\ InRow(t[1]) \in Int /\ s[1] % 2 \in Int /\ t[1] % 2 \in Int
      BY <1>4, <2>1
    <3>2. /\ 20 * s[2] - u = 20 * s[2] - 10 * (InRow(s[1]) - 1) + 10 * (s[1] % 2)
          /\ 20 * t[2] - v = 20 * t[2] - 10 * (InRow(t[1]) - 1) + 10 * (t[1] % 2)
      BY <2>4, <3>1
    <3> QED  BY <1>8, <3>2
  <2>6. f[s].y = 20 * s[1] * sz /\ f[t].y = 20 * t[1] * sz
    BY <1>8
  <2>7. s[1] = t[1] => u = v
    OBVIOUS
  <2> HIDE DEF u, v
  <2>8. f[s].x \in Int /\ f[t].x \in Int /\ f[s].y \in Int /\ f[t].y \in Int
    BY <2>1, <2>4, <2>5, <2>6
  <2>9. CASE s[1] < t[1]
    <3> DEFINE d == t[1] - s[1]
    <3>1. d \in Nat \ {0} /\ t[1] = s[1] + d
      BY <2>1, <2>9
    <3> HIDE DEF d
    <3>2. f[t].y - f[s].y = 20 * (d * sz)
      BY <2>1, <2>6, <3>1
    <3>3. 20 * sz >= 2000
      OBVIOUS
    <3>4. f[t].y - f[s].y >= 2000
      BY <2>8, <3>1, <3>2, <3>3, StepsApart
    <3> QED  BY <2>3, <2>8, <3>4, FarApart
  <2>10. CASE s[1] = t[1] /\ s[2] < t[2]
    <3> DEFINE d == t[2] - s[2]
    <3>1. d \in Nat \ {0} /\ t[2] = s[2] + d
      BY <2>4, <2>10
    <3> HIDE DEF d
    <3>2. f[t].x - f[s].x = 20 * (d * sx)
      BY <2>4, <2>5, <2>7, <2>10, <3>1
    <3>3. 20 * sx >= 2000
      OBVIOUS
    <3>4. f[t].x - f[s].x >= 2000
      BY <2>8, <3>1, <3>2, <3>3, StepsApart
    <3> QED  BY <2>3, <2>8, <3>4, FarApart
  <2> QED  BY <2>9, <2>10 DEF After
<1> QED  BY <1>7, <1>9, <1>10, <1>11, <1>12, <1>13, <1>14, InRows

\* A quotient of at least k.
LEMMA QuotientAtLeast ==
  ASSUME NEW a \in Nat, NEW w \in Nat \ {0}, NEW k \in Nat, k * w <= a
  PROVE  a \div w \in Nat /\ a \div w >= k
<1> DEFINE q == a \div w
<1>1. q \in Nat /\ a < w * q + w
  BY Quotient
<1> HIDE DEF q
<1>2. ASSUME q < k PROVE FALSE
  <2> DEFINE e == k - q - 1
  <2>1. e \in Nat /\ k = q + 1 + e
    BY <1>1, <1>2
  <2> HIDE DEF e
  <2>2. k * w = w * q + w + e * w /\ e * w \in Nat /\ w * q \in Nat
    BY <1>1, <2>1
  <2> QED  BY <1>1, <2>2
<1> QED  BY <1>1, <1>2 DEF q

\* A number of crossbows within the limits of a formation.
LEMMA ClampIsWithin ==
  ASSUME NEW n \in Int, NEW d, d.min \in Nat, d.max \in Nat, d.min <= d.max
  PROVE  Clamp(n, d) \in d.min..d.max
<1> DEFINE m == Min({n, d.max})
<1>1. m = (IF n <= d.max THEN n ELSE d.max)
  BY Smaller
<1>2. m \in Int /\ m <= d.max
  BY <1>1
<1> HIDE DEF m
<1>3. Max({d.min, m}) = IF d.min >= m THEN d.min ELSE m
  BY <1>2, Larger
<1>4. Max({d.min, m}) \in d.min..d.max
  BY <1>2, <1>3
<1> QED  BY <1>4 DEF Clamp, m

\* The spaces of a formation whose spacing is at least 1.5 m.
LEMMA Spaces ==
  ASSUME NEW front \in Nat, NEW safety \in Nat \ {0}, NEW num \in Nat, num >= 150,
         NEW k \in Nat, k * safety <= front * 150
  PROVE  (front * num) \div safety \in Nat /\ (front * num) \div safety >= k
<1> DEFINE e == num - 150
<1>1. e \in Nat /\ num = 150 + e
  OBVIOUS
<1> HIDE DEF e
<1>2. front * num = front * 150 + front * e /\ front * e \in Nat /\ front * num \in Nat
  BY <1>1
<1>3. k * safety <= front * num
  BY <1>2
<1> QED  BY <1>2, <1>3, QuotientAtLeast

\* Of every shape but the coils, with a spacing of at least 1.5 m.
LEMMA LayoutPlaced ==
  ASSUME NEW type \in Formations, type # 6, NEW n \in Int, NEW num \in Nat, num >= 150
  PROVE  /\ WellPlaced(Layout(type, n, num, Get(type).safety), Clamp(n, Get(type)))
         /\ Clamp(n, Get(type)) \in Nat
<1> DEFINE d == Get(type)
           k == Clamp(n, d)
           sx == (d.front * num) \div d.safety
           sz == (d.depth * num) \div d.safety
           L == Layout(type, n, num, d.safety)
<1>1. L = CASE type = 0 -> Line(k, sx)              [] type = 1 -> WedgeRows(k, sx, sz)
            [] type = 2 -> Echelon(-1, k, sx, sz)   [] type = 3 -> Echelon(1, k, sx, sz)
            [] type = 4 -> VeeSides(k, sx, sz)      [] type = 5 -> Parabola(k, sx, sz)
            [] type = 6 -> Coiled(k, sx)            [] type = 7 -> Crane(k, sx, sz)
            [] type = 8 -> Grid(k, sx, sz)          [] type = 9 -> Fish(k, sx, sz)
            [] OTHER -> {}
  BY DEF Layout
<1>2. d = Database[type]
  BY DEF Get
<1> HIDE DEF L, k, sx, sz
<1> SUFFICES WellPlaced(L, k) /\ k \in Nat
  BY DEF L, k
<1>3. CASE type = 0
  <2>1. d.min = 3 /\ d.max = 200 /\ d.front = 250 /\ d.safety = 150
    BY <1>2, <1>3 DEF Database, Formations, LineAbreast, Design
  <2>2. k \in 3..200
    BY <2>1, ClampIsWithin DEF k
  <2>3. sx \in Nat /\ sx >= 100
    BY <2>1, Spaces DEF sx
  <2>4. L = Line(k, sx)
    BY <1>1, <1>3
  <2> QED  BY <2>2, <2>3, <2>4, LinePlaced
<1>4. CASE type = 1
  <2>1. d.min = 7 /\ d.max = 180 /\ d.front = 200 /\ d.depth = 250 /\ d.safety = 180
    BY <1>2, <1>4 DEF Database, Formations, Wedge, Design
  <2>2. k \in 7..180
    BY <2>1, ClampIsWithin DEF k
  <2>3. sx \in Nat /\ sx >= 100
    BY <2>1, Spaces DEF sx
  <2>4. sz \in Nat /\ sz >= 100
    BY <2>1, Spaces DEF sz
  <2>5. L = WedgeRows(k, sx, sz)
    BY <1>1, <1>4
  <2>6. k \in 1..196 /\ k \in Nat
    BY <2>2
  <2> QED  BY <2>3, <2>4, <2>5, <2>6, WedgePlaced
<1>5. CASE type = 2
  <2>1. d.min = 5 /\ d.max = 150 /\ d.front = 280 /\ d.depth = 220 /\ d.safety = 200
    BY <1>2, <1>5 DEF Database, Formations, EchelonLeft, Design
  <2>2. k \in 5..150
    BY <2>1, ClampIsWithin DEF k
  <2>3. sx \in Nat /\ sx >= 167
    BY <2>1, Spaces DEF sx
  <2>4. sz \in Nat /\ sz >= 0
    BY <2>1, Spaces DEF sz
  <2>5. L = Echelon(-1, k, sx, sz)
    BY <1>1, <1>5
  <2> QED  BY <2>2, <2>3, <2>4, <2>5, EchelonPlaced
<1>6. CASE type = 3
  <2>1. d.min = 5 /\ d.max = 150 /\ d.front = 280 /\ d.depth = 220 /\ d.safety = 200
    BY <1>2, <1>6 DEF Database, Formations, EchelonRight, Design
  <2>2. k \in 5..150
    BY <2>1, ClampIsWithin DEF k
  <2>3. sx \in Nat /\ sx >= 167
    BY <2>1, Spaces DEF sx
  <2>4. sz \in Nat /\ sz >= 0
    BY <2>1, Spaces DEF sz
  <2>5. L = Echelon(1, k, sx, sz)
    BY <1>1, <1>6
  <2> QED  BY <2>2, <2>3, <2>4, <2>5, EchelonPlaced
<1>7. CASE type = 4
  <2>1. d.min = 9 /\ d.max = 200 /\ d.front = 220 /\ d.depth = 300 /\ d.safety = 180
    BY <1>2, <1>7 DEF Database, Formations, Vee, Design
  <2>2. k \in 9..200
    BY <2>1, ClampIsWithin DEF k
  <2>3. sx \in Nat /\ sx >= 100
    BY <2>1, Spaces DEF sx
  <2>4. sz \in Nat /\ sz >= 125
    BY <2>1, Spaces DEF sz
  <2>5. L = VeeSides(k, sx, sz)
    BY <1>1, <1>7
  <2> QED  BY <2>2, <2>3, <2>4, <2>5, VeePlaced
<1>8. CASE type = 5
  <2>1. d.min = 10 /\ d.max = 250 /\ d.front = 240 /\ d.depth = 200 /\ d.safety = 180
    BY <1>2, <1>8 DEF Database, Formations, ArcherParabola, Design
  <2>2. k \in 10..250
    BY <2>1, ClampIsWithin DEF k
  <2>3. sx \in Nat /\ sx >= 125
    BY <2>1, Spaces DEF sx
  <2>4. sz \in Nat /\ sz >= 0
    BY <2>1, Spaces DEF sz
  <2>5. L = Parabola(k, sx, sz)
    BY <1>1, <1>8
  <2> QED  BY <2>2, <2>3, <2>4, <2>5, ParabolaPlaced
<1>9. CASE type = 7
  <2>1. d.min = 11 /\ d.max = 220 /\ d.front = 230 /\ d.depth = 280 /\ d.safety = 180
    BY <1>2, <1>9 DEF Database, Formations, CraneWing, Design
  <2>2. k \in 11..220
    BY <2>1, ClampIsWithin DEF k
  <2>3. sx \in Nat /\ sx >= 150
    BY <2>1, Spaces DEF sx
  <2>4. sz \in Nat /\ sz >= 0
    BY <2>1, Spaces DEF sz
  <2>5. L = Crane(k, sx, sz)
    BY <1>1, <1>9
  <2> QED  BY <2>2, <2>3, <2>4, <2>5, CranePlaced
<1>10. CASE type = 8
  <2>1. d.min = 9 /\ d.max = 144 /\ d.front = 250 /\ d.depth = 250 /\ d.safety = 200
    BY <1>2, <1>10 DEF Database, Formations, SquareGrid, Design
  <2>2. k \in 9..144
    BY <2>1, ClampIsWithin DEF k
  <2>3. sx \in Nat /\ sx >= 100
    BY <2>1, Spaces DEF sx
  <2>4. sz \in Nat /\ sz >= 100
    BY <2>1, Spaces DEF sz
  <2>5. L = Grid(k, sx, sz)
    BY <1>1, <1>10
  <2>6. k \in 1..256 /\ k \in Nat
    BY <2>2
  <2> QED  BY <2>3, <2>4, <2>5, <2>6, GridPlaced
<1>11. CASE type = 9
  <2>1. d.min = 8 /\ d.max = 200 /\ d.front = 220 /\ d.depth = 150 /\ d.safety = 180
    BY <1>2, <1>11 DEF Database, Formations, FishScale, Design
  <2>2. k \in 8..200
    BY <2>1, ClampIsWithin DEF k
  <2>3. sx \in Nat /\ sx >= 100
    BY <2>1, Spaces DEF sx
  <2>4. sz \in Nat /\ sz >= 100
    BY <2>1, Spaces DEF sz
  <2>5. L = Fish(k, sx, sz)
    BY <1>1, <1>11
  <2>6. k \in 1..400 /\ k \in Nat
    BY <2>2
  <2> QED  BY <2>3, <2>4, <2>5, <2>6, FishPlaced
<1> QED  BY <1>3, <1>4, <1>5, <1>6, <1>7, <1>8, <1>9, <1>10, <1>11 DEF Formations

\* An answered placement is one of the configuration it was made with, whose spacing is
\* at least 1.5 m.
PlacementInv ==
    /\ fmConfig \in Configs
    /\ fmAnswer.call = "placement" =>
           /\ fmAnswer.crossbows \in Int
           /\ \E num \in Nat :
                  /\ num >= 150
                  /\ fmAnswer.layout = Layout(fmAnswer.type, fmAnswer.crossbows, num,
                                              Get(fmAnswer.type).safety)

\* With a spacing of at least 1.5 m, whatever the number of crossbows, no shape but coils
\* puts two crossbows closer than validate_placement() admits, and each crossbow that the
\* limits of the formation leave has one place.
THEOREM FormationsAreValid ==
  ASSUME \A c \in Configs : c.spacing >= 150
  PROVE  Spec => [](fmAnswer.type # 6 => PlacementsAreValid)
<1>1. Init => PlacementInv
  BY DEF Init, FormationInit, NoAnswer, PlacementInv
<1>2. PlacementInv /\ [Next]_researchVars => PlacementInv'
  <2> SUFFICES ASSUME PlacementInv, [Next]_researchVars  PROVE PlacementInv'
    OBVIOUS
  <2>1. ASSUME UNCHANGED <<fmConfig, fmAnswer>>
        PROVE  PlacementInv'
    BY <2>1 DEF PlacementInv, Layout, Get
  <2>2. ASSUME NEW c \in Configs, SetConfig(c)
        PROVE  PlacementInv'
    <3>1. fmConfig' \in Configs /\ fmAnswer' = fmAnswer
      BY <2>2 DEF SetConfig
    <3> QED  BY <3>1 DEF PlacementInv
  <2>3. CASE \E t \in Targets : SetTarget(t)
    BY <2>1, <2>3 DEF SetTarget
  <2>4. ASSUME NEW call \in {"compare", "optimal"}, NEW types, CompareFormations(call, types)
        PROVE  PlacementInv'
    <3>1. fmConfig' = fmConfig /\ fmAnswer'.call = call
      BY <2>4 DEF CompareFormations
    <3> QED  BY <3>1 DEF PlacementInv
  <2>5. ASSUME NEW type, GeneratePlacement(type)
        PROVE  PlacementInv'
    <3>1. /\ fmConfig' = fmConfig
          /\ fmAnswer'.call = "placement" /\ fmAnswer'.type = type
          /\ fmAnswer'.crossbows = fmConfig.crossbows
          /\ fmAnswer'.layout = Layout(type, fmConfig.crossbows, fmConfig.spacing, Get(type).safety)
      BY <2>5 DEF GeneratePlacement, Placement
    <3>2. fmConfig.crossbows \in Int /\ fmConfig.spacing \in Nat /\ fmConfig.spacing >= 150
      BY ModuleAssumption DEF ModuleAssumption, PlacementInv
    <3> QED  BY <3>1, <3>2 DEF PlacementInv
  <2>6. ASSUME NEW type, Evaluate(type)
        PROVE  PlacementInv'
    BY <2>6 DEF Evaluate, PlacementInv
  <2>7. ASSUME NEW type, NEW n, NEW t, FireDensity(type, n, t)
        PROVE  PlacementInv'
    BY <2>7 DEF FireDensity, PlacementInv
  <2>8. CASE FormationCall(Types, Crossbows)
    BY <2>2, <2>3, <2>4, <2>5, <2>6, <2>7, <2>8 DEF FormationCall, FindOptimal
  <2> QED  BY <2>1, <2>8, ModuleSteps DEF moduleVars
<1>3. PlacementInv => (fmAnswer.type # 6 => PlacementsAreValid)
  <2> SUFFICES ASSUME PlacementInv, fmAnswer.type # 6, fmAnswer.call = "placement",
                      fmAnswer.type \in Formations, fmAnswer.crossbows = fmConfig.crossbows
               PROVE  LET places == fmAnswer.layout
                          n      == Clamp(fmConfig.crossbows, Get(fmAnswer.type))
                          ids    == {p.id : p \in places}
                      IN  /\ ValidPlacement(places)
                          /\ Cardinality(ids) = Cardinality(places)
                          /\ fmAnswer.type # 6 => ids = 0..(n - 1)
    BY DEF PlacementsAreValid
  <2> DEFINE places == fmAnswer.layout
             type == fmAnswer.type
             n == Clamp(fmConfig.crossbows, Get(type))
  <2>1. PICK num \in Nat : num >= 150 /\ places = Layout(type, fmConfig.crossbows, num, Get(type).safety)
    BY DEF PlacementInv
  <2>2. fmConfig.crossbows \in Int
    BY DEF PlacementInv
  <2>3. WellPlaced(places, n) /\ n \in Nat
    BY <2>1, <2>2, LayoutPlaced
  <2> HIDE DEF n, places
  <2>4. Cardinality({p.id : p \in places}) = Cardinality(places)
    BY <2>3, PlacedCounts
  <2>5. ValidPlacement(places) /\ {p.id : p \in places} = 0..(n - 1)
    BY <2>3 DEF WellPlaced
  <2> QED  BY <2>4, <2>5 DEF places, n
<1> QED  BY <1>1, <1>2, <1>3, PTL DEF Spec

----------------------------------------------------------------------------------
(* The virtual range.                                                           *)
\* What a step does to the session.
LEMMA ShootingSteps ==
  ASSUME [Next]_researchVars
  PROVE  UNCHANGED shootingVars \/ Shooting
<1>1. CASE Session
  BY <1>1 DEF Session
<1>2. CASE Formation \/ Training \/ Comparison \/ Engraving \/ Choosing \/ Showing \/ Simulating
  BY <1>2 DEF Formation, Training, Comparison, Engraving, Choosing, Showing, Simulating, ObjectsRest
<1>3. CASE UNCHANGED researchVars
  BY <1>3 DEF researchVars
<1> QED  BY <1>1, <1>2, <1>3 DEF Next

\* A target of the session, and the record of a shot.
Target == [id : Nat \ {0}, health : Int, destroyed : BOOLEAN, born : Int]
Record == [id : Nat, hit : Nat, counted : BOOLEAN]

\* How many shots of a list hit a target.
HitCount(list, id) == Cardinality({k \in 1..Len(list) : list[k].hit = id})

\* What DamageIsHits says of these targets and these shots.
Accounted(ts, list) ==
    \A k \in 1..Len(ts) :
        /\ ts[k].health = ts[k].born - 2 * HitCount(list, ts[k].id)
        /\ ts[k].destroyed <=> ts[k].health <= 0
        /\ \A j \in 1..Len(ts) : ts[j].id = ts[k].id => j = k

\* DamageIsHits says it of the targets and the shots, before and after a step.
LEMMA DamageIsAccounted ==
  /\ DamageIsHits <=> Accounted(targets, shots)
  /\ DamageIsHits' <=> Accounted(targets', shots')
BY DEF DamageIsHits, Accounted, HitCount, Hits

\* Ids are given out once: the next one is above those of the targets and of the hits.
SessionInv ==
    /\ targets \in Seq(Target) /\ shots \in Seq(Record)
    /\ nextTarget \in Nat \ {0} /\ nextShot \in Nat
    /\ \A k \in 1..Len(targets) : targets[k].id < nextTarget
    /\ \A k \in 1..Len(shots) : shots[k].hit < nextTarget
    /\ Accounted(targets, shots)

\* The components of targets.
LEMMA TargetTypes ==
  ASSUME NEW ts \in Seq(Target)
  PROVE  /\ Len(ts) \in Nat
         /\ \A k \in 1..Len(ts) : /\ ts[k] \in Target /\ ts[k].id \in Nat \ {0}
                                  /\ ts[k].health \in Int /\ ts[k].born \in Int
<1>1. Len(ts) \in Nat /\ \A k \in 1..Len(ts) : ts[k] \in Target
  OBVIOUS
<1>2. \A t \in Target : t.id \in Nat \ {0} /\ t.health \in Int /\ t.born \in Int
  BY DEF Target
<1> QED  BY <1>1, <1>2

\* A list of shots holds finitely many of one target.
LEMMA ShotTypes ==
  ASSUME NEW list \in Seq(Record)
  PROVE  /\ Len(list) \in Nat
         /\ \A k \in 1..Len(list) : list[k].hit \in Nat
         /\ \A id : /\ IsFiniteSet({k \in 1..Len(list) : list[k].hit = id})
                    /\ HitCount(list, id) \in Nat
<1>1. Len(list) \in Nat /\ \A k \in 1..Len(list) : list[k] \in Record
  OBVIOUS
<1>2. \A r \in Record : r.hit \in Nat
  BY DEF Record
<1>3. ASSUME NEW id
      PROVE  /\ IsFiniteSet({k \in 1..Len(list) : list[k].hit = id})
             /\ HitCount(list, id) \in Nat
  <2> DEFINE H == {k \in 1..Len(list) : list[k].hit = id}
  <2>1. IsFiniteSet(1..Len(list)) /\ H \in SUBSET (1..Len(list))
    BY <1>1, FS_Interval
  <2>2. IsFiniteSet(H)
    <3> HIDE DEF H
    <3> QED  BY <2>1, FS_Subset
  <2> QED  BY <2>2, FS_CardinalityType DEF HitCount
<1> QED  BY <1>1, <1>2, <1>3

\* One more shot in the list is one more hit for the target it names.
LEMMA ShotCounts ==
  ASSUME NEW list \in Seq(Record), NEW x \in Record, NEW id
  PROVE  HitCount(Append(list, x), id) = HitCount(list, id) + (IF x.hit = id THEN 1 ELSE 0)
<1> DEFINE n == Len(list)
           H == {k \in 1..n : list[k].hit = id}
           more == Append(list, x)
           G == {k \in 1..Len(more) : more[k].hit = id}
<1>1. Len(more) = n + 1 /\ n \in Nat /\ more[n + 1] = x /\ \A k \in 1..n : more[k] = list[k]
  OBVIOUS
<1>2. IsFiniteSet(H) /\ n + 1 \notin H /\ Cardinality(H) \in Nat
  <2>1. IsFiniteSet(H) /\ HitCount(list, id) \in Nat
    BY ShotTypes
  <2>2. n + 1 \notin H
    BY <1>1
  <2> QED  BY <2>1, <2>2 DEF HitCount
<1>3. G = IF x.hit = id THEN H \cup {n + 1} ELSE H
  BY <1>1
<1>4. Cardinality(H \cup {n + 1}) = Cardinality(H) + 1
  <2> HIDE DEF H
  <2> QED  BY <1>2, FS_AddElement
<1>5. HitCount(list, id) = Cardinality(H) /\ HitCount(more, id) = Cardinality(G)
  BY DEF HitCount
<1> HIDE DEF G, H, more
<1> QED  BY <1>2, <1>3, <1>4, <1>5 DEF more

\* No shot names a target that does not exist yet.
LEMMA NoHitsYet ==
  ASSUME SessionInv
  PROVE  HitCount(shots, nextTarget) = 0
<1> DEFINE H == {k \in 1..Len(shots) : shots[k].hit = nextTarget}
<1>1. \A k \in 1..Len(shots) : shots[k].hit \in Nat /\ shots[k].hit < nextTarget
  BY ShotTypes DEF SessionInv
<1>2. H = {}
  BY <1>1 DEF SessionInv
<1> QED  BY <1>2, FS_EmptySet DEF HitCount

\* A new target has no hits: no shot ever hit its id.
LEMMA AddTargetInv ==
  ASSUME SessionInv, NEW inRange \in BOOLEAN, NEW h \in Healths, AddTarget(inRange, h)
  PROVE  SessionInv'
<1> DEFINE n == Len(targets)
           b == Max({0, h})
           x == [id |-> nextTarget, health |-> b, destroyed |-> b <= 0, born |-> b]
<1>1. h \in Int /\ b \in Int
  BY ShootingAssumption DEF ShootingAssumption, Max
<1>2. UNCHANGED <<shots, nextShot>> /\ nextTarget \in Nat \ {0} /\ nextShot \in Nat
  BY DEF AddTarget, SessionInv
<1>3. CASE targets' = targets /\ nextTarget' = nextTarget
  BY <1>2, <1>3 DEF SessionInv
<1>4. CASE targets' = Append(targets, x) /\ nextTarget' = nextTarget + 1
  <2> HIDE DEF b
  <2>1. /\ x \in Target /\ x.id = nextTarget /\ x.health = x.born /\ x.born \in Int
        /\ x.destroyed <=> x.health <= 0
    <3>1. b \in Int /\ (b <= 0) \in BOOLEAN
      BY <1>1
    <3>2. x \in Target
      BY <1>2, <3>1 DEF Target
    <3> QED  BY <3>1, <3>2
  <2> HIDE DEF x
  <2>2. /\ targets' \in Seq(Target) /\ n \in Nat /\ Len(targets') = n + 1
        /\ targets'[n + 1] = x /\ \A k \in 1..n : targets'[k] = targets[k]
    BY <1>4, <2>1 DEF SessionInv
  <2>3. \A k \in 1..(n + 1) : k \in 1..n \/ k = n + 1
    BY <2>2
  <2>4. HitCount(shots, x.id) = 0
    BY <2>1, NoHitsYet
  <2>5. \A k \in 1..n : targets[k].id \in Nat /\ targets[k].id < nextTarget /\ targets[k].id # x.id
    BY <2>1, TargetTypes DEF SessionInv
  <2>6. \A k \in 1..(n + 1) : targets'[k].id < nextTarget'
    <3>1. \A k \in 1..n : targets'[k].id < nextTarget'
      BY <1>2, <1>4, <2>2, <2>5
    <3>2. targets'[n + 1].id < nextTarget'
      BY <1>2, <1>4, <2>1, <2>2
    <3> QED  BY <2>3, <3>1, <3>2
  <2>7. \A k \in 1..Len(shots) : shots[k].hit < nextTarget'
    BY <1>2, <1>4, ShotTypes DEF SessionInv
  <2>8. Accounted(targets', shots)
    <3>1. /\ x.health = x.born - 2 * HitCount(shots, x.id)
          /\ x.destroyed <=> x.health <= 0
          /\ \A j \in 1..(n + 1) : targets'[j].id = x.id => j = n + 1
      BY <2>1, <2>2, <2>3, <2>4, <2>5
    <3>2. ASSUME NEW k \in 1..n
          PROVE  /\ targets[k].health = targets[k].born - 2 * HitCount(shots, targets[k].id)
                 /\ targets[k].destroyed <=> targets[k].health <= 0
                 /\ \A j \in 1..(n + 1) : targets'[j].id = targets[k].id => j = k
      BY <2>2, <2>3, <2>5 DEF SessionInv, Accounted
    <3> QED  BY <2>2, <2>3, <3>1, <3>2 DEF Accounted
  <2> QED  BY <1>2, <1>4, <2>2, <2>6, <2>7, <2>8 DEF SessionInv
<1> QED  BY <1>3, <1>4 DEF AddTarget

\* Without a target, the others keep their order, their health and their ids.
LEMMA RemoveTargetInv ==
  ASSUME SessionInv, NEW id, RemoveTarget(id)
  PROVE  SessionInv'
<1> DEFINE kept == {k \in 1..Len(targets) : targets[k].id # id}
           m == Cardinality(kept)
<1>1. PICK at \in [1..m -> kept] : /\ \A i, j \in DOMAIN at : i < j => at[i] < at[j]
                                   /\ targets' = [i \in DOMAIN at |-> targets[at[i]]]
  BY DEF RemoveTarget
<1>2. Len(targets) \in Nat /\ \A k \in 1..Len(targets) : targets[k] \in Target
  BY DEF SessionInv
<1>3. m \in Nat
  <2>1. IsFiniteSet(1..Len(targets)) /\ kept \in SUBSET (1..Len(targets))
    BY <1>2, FS_Interval
  <2>2. IsFiniteSet(kept)
    BY <2>1, FS_Subset, Zenon
  <2> QED  BY <2>2, FS_CardinalityType
<1> HIDE DEF m
<1>4. \A i \in 1..m : at[i] \in 1..Len(targets)
  BY <1>1
<1>5. targets' \in Seq(Target) /\ Len(targets') = m /\ \A i \in 1..m : targets'[i] = targets[at[i]]
  BY <1>1, <1>2, <1>3, <1>4
<1>6. \A i, j \in 1..m : at[i] = at[j] => i = j
  BY <1>1, <1>2, <1>3, <1>4
<1>7. UNCHANGED <<shots, nextTarget, nextShot>>
  BY DEF RemoveTarget
<1>8. ASSUME NEW i \in 1..m
      PROVE  /\ targets'[i].health = targets'[i].born - 2 * HitCount(shots, targets'[i].id)
             /\ targets'[i].destroyed <=> targets'[i].health <= 0
             /\ \A j \in 1..m : targets'[j].id = targets'[i].id => j = i
  <2>1. targets'[i] = targets[at[i]] /\ at[i] \in 1..Len(targets)
    BY <1>4, <1>5
  <2>2. \A j \in 1..m : targets'[j] = targets[at[j]] /\ at[j] \in 1..Len(targets)
    BY <1>4, <1>5
  <2>3. \A j \in 1..m : targets'[j].id = targets'[i].id => at[j] = at[i]
    BY <2>1, <2>2 DEF SessionInv, Accounted
  <2> QED  BY <1>6, <2>1, <2>3 DEF SessionInv, Accounted
<1>9. Accounted(targets', shots')
  BY <1>5, <1>7, <1>8 DEF Accounted
<1> QED  BY <1>4, <1>5, <1>7, <1>9 DEF SessionInv

\* A shot that hits nothing.
LEMMA MissInv ==
  ASSUME SessionInv, NEW x \in Record, x.hit = 0,
         shots' = Append(shots, x), nextShot' = nextShot + 1,
         UNCHANGED <<targets, nextTarget>>
  PROVE  SessionInv'
<1>1. shots \in Seq(Record) /\ targets \in Seq(Target) /\ nextTarget \in Nat \ {0} /\ nextShot' \in Nat
  BY DEF SessionInv
<1>2. /\ shots' \in Seq(Record) /\ Len(shots') = Len(shots) + 1 /\ Len(shots) \in Nat
      /\ shots'[Len(shots) + 1] = x /\ \A k \in 1..Len(shots) : shots'[k] = shots[k]
  BY <1>1
<1>3. \A k \in 1..Len(shots') : shots'[k].hit < nextTarget
  <2>1. \A k \in 1..Len(shots') : k \in 1..Len(shots) \/ k = Len(shots) + 1
    BY <1>2
  <2> QED  BY <1>1, <1>2, <2>1 DEF SessionInv
<1>4. \A k \in 1..Len(targets) : HitCount(shots', targets[k].id) = HitCount(shots, targets[k].id)
  <2> TAKE k \in 1..Len(targets)
  <2>1. targets[k].id # 0
    BY <1>1, TargetTypes
  <2>2. HitCount(shots, targets[k].id) \in Nat
    BY <1>1, ShotTypes
  <2>3. HitCount(shots', targets[k].id)
          = HitCount(shots, targets[k].id) + (IF x.hit = targets[k].id THEN 1 ELSE 0)
    BY <1>1, ShotCounts
  <2> QED  BY <2>1, <2>2, <2>3
<1>5. Accounted(targets', shots')
  BY <1>4 DEF SessionInv, Accounted
<1> QED  BY <1>1, <1>2, <1>3, <1>5 DEF SessionInv

\* A target that is struck loses one health, and is destroyed if nothing is left.
LEMMA DamagedTarget ==
  ASSUME NEW t \in Target, ~t.destroyed
  PROVE  /\ Damaged(t) \in Target
         /\ Damaged(t).id = t.id /\ Damaged(t).born = t.born
         /\ Damaged(t).health = t.health - 2
         /\ Damaged(t).destroyed <=> Damaged(t).health <= 0
<1> DEFINE d == t.destroyed \/ t.health - 2 <= 0
<1>1. /\ t = [id |-> t.id, health |-> t.health, destroyed |-> t.destroyed, born |-> t.born]
      /\ t.id \in Nat \ {0} /\ t.health \in Int /\ t.born \in Int
  BY DEF Target
<1>2. d \in BOOLEAN /\ (d <=> t.health - 2 <= 0)
  OBVIOUS
<1>3. Damaged(t) = [[t EXCEPT !.health = t.health - 2] EXCEPT !.destroyed = d]
  BY DEF Damaged
<1> HIDE DEF d
<1>4. Damaged(t) = [id |-> t.id, health |-> t.health - 2, destroyed |-> d, born |-> t.born]
  BY <1>1, <1>3
<1> QED  BY <1>1, <1>2, <1>4 DEF Target

\* A shot that hits: one more hit, and the damage of it, for the target it is nearest to.
LEMMA FireInv ==
  ASSUME SessionInv, NEW strike \in SUBSET (1..Len(targets)), Fire(strike)
  PROVE  SessionInv'
<1>1. /\ nextShot \in Nat /\ nextShot' = nextShot + 1 /\ nextTarget \in Nat \ {0}
      /\ nextTarget' = nextTarget /\ nextShot' \in Nat
      /\ shots \in Seq(Record) /\ targets \in Seq(Target)
  BY DEF Fire, SessionInv
<1>2. CASE Struck(strike) = {}
  <2>1. Shot(0, TRUE) \in Record /\ Shot(0, TRUE).hit = 0
    BY <1>1 DEF Shot, Record
  <2>2. targets' = targets /\ shots' = Append(shots, Shot(0, TRUE))
    BY <1>2 DEF Fire
  <2> QED  BY <1>1, <2>1, <2>2, MissInv
<1>3. CASE Struck(strike) # {}
  <2> DEFINE k == Min(Struck(strike))
             x == Shot(targets[k].id, TRUE)
  <2>1. k \in 1..Len(targets) /\ ~targets[k].destroyed /\ targets[k] \in Target
    <3>1. Struck(strike) \subseteq Nat
      BY DEF Struck
    <3>2. k \in Struck(strike)
      BY <1>3, <3>1, MinIsLeast
    <3> QED  BY <1>1, <3>2 DEF Struck
  <2>2. targets' = [targets EXCEPT ![k] = Damaged(@)] /\ shots' = Append(shots, x)
    BY <1>3 DEF Fire
  <2> HIDE DEF k
  <2>3. /\ Damaged(targets[k]) \in Target
        /\ Damaged(targets[k]).id = targets[k].id /\ Damaged(targets[k]).born = targets[k].born
        /\ Damaged(targets[k]).health = targets[k].health - 2
        /\ Damaged(targets[k]).destroyed <=> Damaged(targets[k]).health <= 0
    BY <2>1, DamagedTarget
  <2>4. /\ targets' \in Seq(Target) /\ Len(targets') = Len(targets) /\ Len(targets) \in Nat
        /\ targets'[k] = Damaged(targets[k])
        /\ \A j \in 1..Len(targets) : j # k => targets'[j] = targets[j]
    BY <1>1, <2>1, <2>2, <2>3
  <2>5. x \in Record /\ x.hit = targets[k].id /\ targets[k].id \in Nat
    BY <1>1, <2>1, TargetTypes DEF Shot, Record
  <2> HIDE DEF x
  <2>6. /\ shots' \in Seq(Record) /\ Len(shots') = Len(shots) + 1 /\ Len(shots) \in Nat
        /\ shots'[Len(shots) + 1] = x /\ \A j \in 1..Len(shots) : shots'[j] = shots[j]
    BY <1>1, <2>2, <2>5
  <2>7. \A j \in 1..Len(targets) : targets'[j].id = targets[j].id
    BY <2>3, <2>4
  <2>8. \A j \in 1..Len(shots') : shots'[j].hit < nextTarget
    <3>1. \A j \in 1..Len(shots') : j \in 1..Len(shots) \/ j = Len(shots) + 1
      BY <2>6
    <3>2. x.hit < nextTarget
      BY <2>1, <2>5 DEF SessionInv
    <3> QED  BY <2>6, <3>1, <3>2 DEF SessionInv
  <2>9. \A id : /\ HitCount(shots, id) \in Nat
                /\ HitCount(shots', id) =
                      HitCount(shots, id) + (IF targets[k].id = id THEN 1 ELSE 0)
    BY <1>1, <2>2, <2>5, ShotTypes, ShotCounts
  <2>10. ASSUME NEW j \in 1..Len(targets)
         PROVE  /\ targets'[j].health = targets'[j].born - 2 * HitCount(shots', targets'[j].id)
                /\ targets'[j].destroyed <=> targets'[j].health <= 0
                /\ \A i \in 1..Len(targets) : targets'[i].id = targets'[j].id => i = j
    <3>1. /\ targets[j].health = targets[j].born - 2 * HitCount(shots, targets[j].id)
          /\ targets[j].destroyed <=> targets[j].health <= 0
          /\ \A i \in 1..Len(targets) : targets[i].id = targets[j].id => i = j
      BY DEF SessionInv, Accounted
    <3>2. \A i \in 1..Len(targets) : targets'[i].id = targets'[j].id => i = j
      BY <2>7, <3>1
    <3>3. CASE j = k
      <4>1. HitCount(shots', targets[k].id) = HitCount(shots, targets[k].id) + 1
        BY <2>9
      <4>2. targets[k].born \in Int /\ targets[k].health \in Int
        BY <1>1, <2>1, TargetTypes
      <4>3. targets[k].health - 2 = targets[k].born - 2 * HitCount(shots', targets[k].id)
        BY <2>9, <3>1, <3>3, <4>1, <4>2
      <4> QED  BY <2>3, <2>4, <3>2, <3>3, <4>3
    <3>4. CASE j # k
      <4>1. targets[j].id # targets[k].id /\ targets'[j] = targets[j]
        BY <2>1, <2>4, <3>1, <3>4
      <4>2. HitCount(shots', targets[j].id) = HitCount(shots, targets[j].id)
        BY <2>9, <4>1
      <4> QED  BY <3>1, <3>2, <4>1, <4>2
    <3> QED  BY <3>3, <3>4
  <2>11. Accounted(targets', shots')
    BY <2>4, <2>10 DEF Accounted
  <2>12. \A j \in 1..Len(targets') : targets'[j].id < nextTarget
    BY <2>4, <2>7 DEF SessionInv
  <2> QED  BY <1>1, <2>4, <2>6, <2>8, <2>11, <2>12 DEF SessionInv
<1> QED  BY <1>2, <1>3

\* Over any session a target has lost one health for each shot that names it, and is
\* destroyed exactly when none is left.
THEOREM HitsAreDamage == Spec => []DamageIsHits
<1>1. ASSUME targets = <<>>, shots = <<>>, nextTarget = 1, nextShot = 1
      PROVE  SessionInv
  <2>1. targets \in Seq(Target) /\ shots \in Seq(Record) /\ Len(targets) = 0 /\ Len(shots) = 0
    BY <1>1
  <2> QED  BY <1>1, <2>1 DEF SessionInv, Accounted
<1>2. Init => SessionInv
  BY <1>1 DEF Init, ShootingInit
<1>3. SessionInv /\ [Next]_researchVars => SessionInv'
  <2> SUFFICES ASSUME SessionInv, Shooting \/ UNCHANGED shootingVars  PROVE SessionInv'
    BY ShootingSteps
  <2>1. CASE StartSession \/ Reset
    <3>1. targets' = <<>> /\ shots' = <<>> /\ nextTarget' = 1 /\ nextShot' = 1
      BY <2>1 DEF StartSession, Reset, Clear
    <3>2. targets' \in Seq(Target) /\ shots' \in Seq(Record) /\ Len(targets') = 0 /\ Len(shots') = 0
      BY <3>1
    <3> QED  BY <3>1, <3>2 DEF SessionInv, Accounted
  <2>2. CASE UNCHANGED shootingVars
    BY <2>2 DEF shootingVars, SessionInv
  <2>3. CASE Misfire
    <3>1. Shot(0, FALSE) \in Record /\ Shot(0, FALSE).hit = 0
      BY DEF SessionInv, Shot, Record
    <3> QED  BY <2>3, <3>1, MissInv DEF Misfire
  <2> QED
    BY <2>1, <2>2, <2>3, AddTargetInv, RemoveTargetInv, FireInv DEF Shooting
<1>4. SessionInv => DamageIsHits
  BY DamageIsAccounted DEF SessionInv
<1> QED  BY <1>2, <1>3, <1>4, PTL DEF Spec

----------------------------------------------------------------------------------
(* The page's scene.                                                            *)
\* What a step does to the page's scene.
LEMMA SceneSteps ==
  ASSUME [Next]_researchVars
  PROVE  UNCHANGED sceneVars \/ Scene
<1>1. CASE Showing
  BY <1>1 DEF Showing
<1>2. CASE Formation \/ Training \/ Session \/ Comparison \/ Engraving \/ Choosing \/ Simulating
  BY <1>2 DEF Formation, Training, Session, Comparison, Engraving, Choosing, Simulating, benchVars
<1>3. CASE UNCHANGED researchVars
  BY <1>3 DEF researchVars, benchVars
<1> QED  BY <1>1, <1>2, <1>3 DEF Next

\* How often a bag holds a chain of callbacks.
Copies(c, bag) == IF c \in DOMAIN bag THEN bag[c] ELSE 0

\* A shot that waits, or flies, is one of the range.
Aimed(c) == c.kind \in {"userWait", "flight"} => c.hit # Plain

\* A bag of chains.
ChainBag(bag) == \A c \in DOMAIN bag : bag[c] \in Nat \ {0} /\ Aimed(c)

\* A chain takes the places of another: one copy less of the one, one more of the others.
LEMMA BecomesCopies ==
  ASSUME ChainBag(chains), NEW c \in DOMAIN chains, NEW next, Becomes(c, next),
         \A e \in next : Aimed(e)
  PROVE  /\ ChainBag(chains')
         /\ \A d : Copies(d, chains') = Copies(d, chains) - (IF d = c THEN 1 ELSE 0)
                                                          + (IF d \in next THEN 1 ELSE 0)
<1> DEFINE one == SetToBag({c})
           B == [e \in DOMAIN chains |-> IF e \in DOMAIN one THEN chains[e] - one[e] ELSE chains[e]]
           less == [e \in {d \in DOMAIN B : B[d] > 0} |-> B[e]]
           more == SetToBag(next)
<1>1. chains' = less (+) more
  BY DEF Becomes, (-)
<1>2. /\ DOMAIN less = {d \in DOMAIN chains : d = c => chains[c] > 1}
      /\ \A d \in DOMAIN less : less[d] = IF d = c THEN chains[d] - 1 ELSE chains[d]
  BY DEF ChainBag, SetToBag
<1>3. DOMAIN more = next /\ \A d \in next : more[d] = 1
  BY DEF SetToBag
<1> HIDE DEF less, more
<1>4. /\ DOMAIN chains' = (DOMAIN less) \cup next
      /\ \A d \in DOMAIN chains' :
            chains'[d] = (IF d \in DOMAIN less THEN less[d] ELSE 0) + (IF d \in next THEN 1 ELSE 0)
  BY <1>1, <1>3 DEF (+)
<1>5. \A d : Copies(d, chains') = Copies(d, chains) - (IF d = c THEN 1 ELSE 0)
                                                    + (IF d \in next THEN 1 ELSE 0)
  BY <1>2, <1>4 DEF Copies, ChainBag
<1>6. ChainBag(chains')
  BY <1>2, <1>4 DEF ChainBag
<1> QED  BY <1>5, <1>6

\* A chain that starts is one more.
LEMMA StartsCopies ==
  ASSUME ChainBag(chains), NEW c, Aimed(c), Starts(c)
  PROVE  /\ ChainBag(chains')
         /\ \A d : Copies(d, chains') = Copies(d, chains) + (IF d = c THEN 1 ELSE 0)
<1> DEFINE more == SetToBag({c})
<1>1. DOMAIN more = {c} /\ more[c] = 1
  BY DEF SetToBag
<1> HIDE DEF more
<1>2. /\ DOMAIN chains' = (DOMAIN chains) \cup {c}
      /\ \A d \in DOMAIN chains' :
            chains'[d] = (IF d \in DOMAIN chains THEN chains[d] ELSE 0) + (IF d = c THEN 1 ELSE 0)
  BY <1>1 DEF Starts, (+), more
<1>3. \A d : Copies(d, chains') = Copies(d, chains) + (IF d = c THEN 1 ELSE 0)
  BY <1>2 DEF Copies, ChainBag
<1>4. ChainBag(chains')
  BY <1>2 DEF ChainBag
<1> QED  BY <1>3, <1>4

\* At most one arrow flies, and the flag is up from its animation's start to its end.
OneArrow ==
    /\ \A c, d : Copies(c, chains) > 0 /\ Copies(d, chains) > 0 /\ Flying(c) /\ Flying(d) => c = d
    /\ \A c : Flying(c) => Copies(c, chains) <= 1
    /\ \A c : Copies(c, chains) > 0 /\ Flying(c) => (isAnimatingShot <=> c.kind # "userWait")

\* The hit that may be counted without a shot.
Astray == IF stray THEN 1 ELSE 0

\* The arrow in the air is a hit that may yet be counted.
SceneInv ==
    /\ ChainBag(chains)
    /\ hitsScored \in Nat /\ shotsFired \in Nat /\ field \in Nat
    /\ stray \in BOOLEAN
    /\ OneArrow
    /\ hitsScored <= shotsFired + Astray
    /\ (\E c : Copies(c, chains) > 0 /\ Flying(c)) => hitsScored + 1 <= shotsFired + Astray

\* A step that puts no arrow in the air.
LEMMA NoNewArrow ==
  ASSUME SceneInv, ChainBag(chains'),
         \A d : Copies(d, chains') \in Nat /\ (Flying(d) => Copies(d, chains') <= Copies(d, chains)),
         UNCHANGED <<isAnimatingShot, scoreVars>>, field' \in Nat
  PROVE  SceneInv'
<1>1. \A d : Copies(d, chains) \in Nat
  BY DEF SceneInv, ChainBag, Copies
<1>2. \A d : Copies(d, chains') > 0 /\ Flying(d) => Copies(d, chains) > 0
  BY <1>1
<1>3. OneArrow'
  BY <1>1, <1>2 DEF SceneInv, OneArrow
<1>4. Astray' = Astray /\ UNCHANGED <<hitsScored, shotsFired, stray>>
  BY DEF Astray, scoreVars
<1> QED  BY <1>2, <1>3, <1>4 DEF SceneInv

\* The arrow in the air is the only one.
LEMMA OnlyArrow ==
  ASSUME SceneInv, NEW c \in DOMAIN chains, Flying(c)
  PROVE  /\ \A d : Flying(d) => Copies(d, chains) = IF d = c THEN 1 ELSE 0
         /\ hitsScored + 1 <= shotsFired + Astray
<1>1. Copies(c, chains) > 0 /\ \A d : Copies(d, chains) \in Nat
  BY DEF SceneInv, ChainBag, Copies
<1> QED  BY <1>1 DEF SceneInv, OneArrow

\* The arrow in the air goes on.
LEMMA ArrowGoesOn ==
  ASSUME SceneInv, NEW c \in DOMAIN chains, Flying(c),
         NEW next, NEW d \in next, Flying(d), d.kind # "userWait",
         \A e \in next : Aimed(e) /\ (Flying(e) => e = d),
         Becomes(c, next), isAnimatingShot' = TRUE,
         UNCHANGED <<scoreVars, field>>
  PROVE  SceneInv'
<1>1. ChainBag(chains')
  BY BecomesCopies DEF SceneInv
<1>2. \A e : Flying(e) => Copies(e, chains') = IF e = d THEN 1 ELSE 0
  <2> TAKE e
  <2>1. Copies(e, chains') = Copies(e, chains) - (IF e = c THEN 1 ELSE 0) + (IF e \in next THEN 1 ELSE 0)
    BY BecomesCopies DEF SceneInv
  <2>2. Flying(e) => Copies(e, chains) = IF e = c THEN 1 ELSE 0
    BY OnlyArrow
  <2>3. Flying(e) => (e \in next <=> e = d)
    OBVIOUS
  <2> QED  BY <2>1, <2>2, <2>3
<1>3. \A e : Copies(e, chains') > 0 /\ Flying(e) => e = d
  BY <1>2
<1>4. OneArrow'
  BY <1>2, <1>3 DEF OneArrow
<1>5. hitsScored + 1 <= shotsFired + Astray
  BY OnlyArrow
<1>6. Astray' = Astray /\ UNCHANGED <<hitsScored, shotsFired, stray, field>>
  BY DEF Astray, scoreVars
<1> QED  BY <1>1, <1>4, <1>5, <1>6 DEF SceneInv

\* The arrow in the air is no more.
LEMMA ArrowEnds ==
  ASSUME SceneInv, NEW c \in DOMAIN chains, Flying(c),
         NEW next, \A e \in next : ~Flying(e) /\ Aimed(e), Becomes(c, next),
         hitsScored' \in {hitsScored, hitsScored + 1}, UNCHANGED <<shotsFired, stray, field>>
  PROVE  SceneInv'
<1>1. ChainBag(chains')
  BY BecomesCopies DEF SceneInv
<1>2. \A e : Flying(e) => Copies(e, chains') = 0
  <2> TAKE e
  <2>1. Copies(e, chains') = Copies(e, chains) - (IF e = c THEN 1 ELSE 0) + (IF e \in next THEN 1 ELSE 0)
    BY BecomesCopies DEF SceneInv
  <2>2. Flying(e) => Copies(e, chains) = IF e = c THEN 1 ELSE 0
    BY OnlyArrow
  <2> QED  BY <2>1, <2>2
<1>3. OneArrow'
  BY <1>2 DEF OneArrow
<1>4. hitsScored + 1 <= shotsFired + Astray
  BY OnlyArrow
<1>5. Astray' = Astray
  BY DEF Astray
<1> QED  BY <1>1, <1>2, <1>3, <1>4, <1>5 DEF SceneInv

\* Another chain goes on, to others that are no arrow in the air.
LEMMA OtherGoesOn ==
  ASSUME SceneInv, NEW c \in DOMAIN chains, NEW next,
         \A e \in next : ~Flying(e) /\ Aimed(e),
         Becomes(c, next), UNCHANGED <<isAnimatingShot, scoreVars, field>>
  PROVE  SceneInv'
<1>1. /\ ChainBag(chains')
      /\ \A d : Copies(d, chains') = Copies(d, chains) - (IF d = c THEN 1 ELSE 0)
                                                       + (IF d \in next THEN 1 ELSE 0)
  BY BecomesCopies DEF SceneInv
<1>2. \A d : Copies(d, chains) \in Nat /\ Copies(d, chains') \in Nat
  BY <1>1 DEF SceneInv, ChainBag, Copies
<1>3. \A d : Flying(d) => Copies(d, chains') <= Copies(d, chains)
  BY <1>1, <1>2
<1> QED  BY <1>1, <1>2, <1>3, NoNewArrow DEF SceneInv, Astray, scoreVars

\* A chain of the page's animations starts.
LEMMA PageStarts ==
  ASSUME SceneInv, NEW c, ~Flying(c), Aimed(c), Starts(c),
         UNCHANGED <<isAnimatingShot, scoreVars, field>>
  PROVE  SceneInv'
<1>1. /\ ChainBag(chains')
      /\ \A d : Copies(d, chains') = Copies(d, chains) + (IF d = c THEN 1 ELSE 0)
  BY StartsCopies DEF SceneInv
<1>2. \A d : Copies(d, chains) \in Nat /\ Copies(d, chains') \in Nat
  BY <1>1 DEF SceneInv, ChainBag, Copies
<1>3. \A d : Flying(d) => Copies(d, chains') <= Copies(d, chains)
  BY <1>1, <1>2
<1> QED  BY <1>1, <1>2, <1>3, NoNewArrow DEF SceneInv, Astray, scoreVars

\* A shot is only made when none is in the air.
LEMMA ShotStarts ==
  ASSUME SceneInv, NEW long \in BOOLEAN, HandleMouseUp(long)
  PROVE  SceneInv'
<1>1. UNCHANGED <<isAnimatingShot, field, hitsScored, stray>>
  BY DEF HandleMouseUp
<1>2. CASE UNCHANGED <<shotsFired, chains>>
  BY <1>1, <1>2 DEF SceneInv, OneArrow, Astray
<1>3. CASE ~ UNCHANGED <<shotsFired, chains>>
  <2>1. /\ ~isAnimatingShot /\ shotsFired' = shotsFired + 1
        /\ \A c \in DOMAIN chains : c.kind # "userWait"
    BY <1>3 DEF HandleMouseUp, PerformVirtualShot, BagToSet
  <2>2. PICK hit \in Hit : Starts(Chain("userWait", hit))
    BY <1>3 DEF HandleMouseUp, PerformVirtualShot
  <2> DEFINE a == Chain("userWait", hit)
  <2>3. Flying(a) /\ Aimed(a) /\ a.kind = "userWait"
    BY DEF SceneInv, Hit, Plain, Missed, Chain, Flying, Aimed
  <2> HIDE DEF a
  <2>4. /\ ChainBag(chains')
        /\ \A d : Copies(d, chains') = Copies(d, chains) + (IF d = a THEN 1 ELSE 0)
    BY <2>2, <2>3, StartsCopies DEF SceneInv, a
  <2>5. \A d : Flying(d) => Copies(d, chains) = 0
    BY <2>1 DEF SceneInv, OneArrow, Copies, ChainBag
  <2>6. \A d : Flying(d) => Copies(d, chains') = IF d = a THEN 1 ELSE 0
    BY <2>4, <2>5
  <2>7. OneArrow'
    BY <1>1, <2>1, <2>3, <2>6 DEF OneArrow
  <2>8. hitsScored + 1 <= shotsFired + 1 + Astray /\ Astray' = Astray
    BY <1>1 DEF SceneInv, Astray
  <2> QED  BY <1>1, <2>1, <2>4, <2>7, <2>8 DEF SceneInv, Astray
<1> QED  BY <1>2, <1>3

\* A frame of an animation: its chain goes on or ends, and no other does.
LEMMA FrameInv ==
  ASSUME SceneInv, NEW c \in DOMAIN chains, Frame(c)
  PROVE  SceneInv'
<1>1. /\ \A e \in {Chain("shotFlight", Plain), Chain("release", Plain), Chain("fall", c.hit)} :
            ~Flying(e) /\ Aimed(e)
      /\ Aimed(c)
  BY DEF Chain, Flying, Aimed, SceneInv, ChainBag
<1>2. CASE ShotDrawn(c)
  <2>1. PICK points \in {0, 2} : Becomes(c, IF points > 1 THEN {Chain("shotFlight", Plain)} ELSE {})
    BY <1>2 DEF ShotDrawn
  <2> QED  BY <1>1, <1>2, <2>1, OtherGoesOn DEF ShotDrawn, rangeVars
<1>3. CASE ShotLands(c)
  BY <1>3, OtherGoesOn DEF ShotLands, rangeVars
<1>4. CASE Drawn(c)
  <2> DEFINE d == Chain("release", c.hit)
  <2>1. Becomes(c, {d}) /\ UNCHANGED <<isAnimatingShot, scoreVars, field>>
    BY <1>4 DEF Drawn, rangeVars
  <2>2. d.kind = "release" /\ d.hit = c.hit /\ c.kind = "draw"
    BY <1>4 DEF Drawn, Chain
  <2>5. Aimed(d)
    BY <2>2 DEF Aimed
  <2> HIDE DEF d
  <2>3. CASE c.hit = Plain
    BY <2>1, <2>2, <2>3, <2>5, OtherGoesOn DEF Flying
  <2>4. CASE c.hit # Plain
    <3>1. Flying(c) /\ Flying(d) /\ Copies(c, chains) > 0
      BY <2>2, <2>4 DEF Flying, Copies, SceneInv, ChainBag
    <3>2. isAnimatingShot' <=> TRUE
      BY <2>1, <2>2, <3>1 DEF SceneInv, OneArrow
    <3> QED  BY <2>1, <2>2, <2>5, <3>1, <3>2, ArrowGoesOn
  <2> QED  BY <2>3, <2>4
<1>5. CASE Released(c)
  <2> DEFINE d == Chain("flight", c.hit)
             r == Chain("release", Plain)
  <2>1. UNCHANGED <<isAnimatingShot, scoreVars, field>>
    BY <1>5 DEF Released, rangeVars
  <2>2. d.kind = "flight" /\ d.hit = c.hit /\ c.kind = "release"
    BY <1>5 DEF Released, Chain
  <2>3. CASE c.hit = Plain
    BY <1>1, <1>5, <2>1, <2>3, OtherGoesOn DEF Released
  <2>4. CASE c.hit # Plain
    <3>1. Becomes(c, {r, d})
      BY <1>5, <2>4 DEF Released
    <3> HIDE DEF d, r
    <3>2. Flying(c) /\ Flying(d) /\ ~Flying(r) /\ Aimed(r) /\ Aimed(d) /\ Copies(c, chains) > 0
      BY <1>1, <2>2, <2>4 DEF Flying, Aimed, Copies, SceneInv, ChainBag, r
    <3>3. isAnimatingShot' <=> TRUE
      BY <2>1, <2>2, <3>2 DEF SceneInv, OneArrow
    <3> QED  BY <2>1, <2>2, <3>1, <3>2, <3>3, ArrowGoesOn
  <2> QED  BY <2>3, <2>4
<1>6. CASE PlayUserShotAnimation(c)
  <2> DEFINE d == Chain("draw", c.hit)
  <2>1. /\ isAnimatingShot' = TRUE /\ UNCHANGED <<scoreVars, field>>
        /\ Becomes(c, IF animating THEN {} ELSE {d}) /\ c.kind = "userWait"
    BY <1>6 DEF PlayUserShotAnimation
  <2>2. d.kind = "draw" /\ d.hit = c.hit
    BY DEF Chain
  <2> HIDE DEF d
  <2>3. Flying(c) /\ Flying(d) /\ Aimed(d)
    BY <1>1, <2>1, <2>2 DEF Flying, Aimed
  <2>4. CASE animating
    BY <2>1, <2>3, <2>4, ArrowEnds DEF scoreVars
  <2>5. CASE ~animating
    BY <2>1, <2>2, <2>3, <2>5, ArrowGoesOn
  <2> QED  BY <2>4, <2>5
<1>7. CASE ArrowLands(c)
  <2>1. CASE c.hit = Missed
    <3>1. Flying(c) /\ Becomes(c, {}) /\ UNCHANGED <<hitsScored, shotsFired, stray, field>>
      BY <1>7, <2>1 DEF ArrowLands, Flying, Missed, Plain
    <3> QED  BY <3>1, ArrowEnds
  <2>2. CASE c.hit # Missed
    <3>1. PICK next \in {{}, {Chain("fall", c.hit)}} : Becomes(c, next)
      BY <1>7, <2>2 DEF ArrowLands, RegisterHit
    <3>2. hitsScored' = hitsScored + 1 /\ UNCHANGED <<shotsFired, stray, field>> /\ c.kind = "flight"
      BY <1>7, <2>2 DEF ArrowLands, RegisterHit
    <3>3. Flying(c) /\ \A e \in next : ~Flying(e) /\ Aimed(e)
      BY <1>1, <3>1, <3>2 DEF Flying, Aimed
    <3> QED  BY <3>1, <3>2, <3>3, ArrowEnds
  <2> QED  BY <2>1, <2>2
<1>8. CASE TargetFalls(c)
  <2>1. Becomes(c, {}) /\ UNCHANGED <<isAnimatingShot, scoreVars, field>>
    BY <1>8 DEF TargetFalls
  <2> QED  BY <2>1, OtherGoesOn
<1> QED  BY <1>2, <1>3, <1>4, <1>5, <1>6, <1>7, <1>8 DEF Frame

\* The score counts no more hits than shots, but for the hit of an arrow that was in the
\* air when the score was last set back.
THEOREM HitsWereShots == Spec => []HitsAreShots
<1>1. Init => SceneInv
  <2> SUFFICES ASSUME SceneInit  PROVE SceneInv
    BY DEF Init
  <2>1. DOMAIN chains = {}
    BY DEF SceneInit, EmptyBag, SetToBag
  <2>2. \A c : Copies(c, chains) = 0
    BY <2>1 DEF Copies
  <2>3. ChainBag(chains) /\ OneArrow
    BY <2>1, <2>2 DEF ChainBag, OneArrow
  <2>4. hitsScored = 0 /\ shotsFired = 0 /\ field = 0 /\ stray = FALSE /\ Astray = 0
    BY DEF SceneInit, Astray
  <2>5. ~ \E c : Copies(c, chains) > 0 /\ Flying(c)
    BY <2>2
  <2>6. hitsScored <= shotsFired + Astray
    BY <2>4
  <2>7. hitsScored \in Nat /\ shotsFired \in Nat /\ field \in Nat /\ stray \in BOOLEAN
    BY <2>4
  <2> QED  BY <2>3, <2>5, <2>6, <2>7, Zenon DEF SceneInv
<1>2. SceneInv /\ [Next]_researchVars => SceneInv'
  <2> SUFFICES ASSUME SceneInv, Scene \/ UNCHANGED sceneVars  PROVE SceneInv'
    BY SceneSteps
  <2>1. CASE PlayDrawAnimation \/ PlayShotAnimation
    <3>1. \A c \in {Chain("draw", Plain), Chain("shotDraw", Plain)} : ~Flying(c) /\ Aimed(c)
      BY DEF Flying, Chain, Aimed
    <3> QED  BY <2>1, <3>1, PageStarts DEF PlayDrawAnimation, PlayShotAnimation, rangeVars
  <2>2. CASE KeyR \/ \E on \in BOOLEAN : EnableShootingMode(on)
    <3>1. UNCHANGED <<isAnimatingShot, chains>>
      BY <2>2 DEF KeyR, EnableShootingMode
    <3>2. CASE UNCHANGED <<field, scoreVars>>
      BY <3>1, <3>2 DEF scoreVars, SceneInv, OneArrow, Astray
    <3>3. CASE NewField
      <4>1. /\ field' = field + 1 /\ shotsFired' = 0 /\ hitsScored' = 0
            /\ stray' = \E c \in DOMAIN chains : Flying(c)
        BY <3>3 DEF NewField, BagToSet
      <4>2. \A c : Copies(c, chains) > 0 <=> c \in DOMAIN chains
        BY DEF SceneInv, ChainBag, Copies
      <4>3. (\E c : Copies(c, chains) > 0 /\ Flying(c)) => Astray' = 1
        BY <4>1, <4>2 DEF Astray
      <4> QED  BY <3>1, <4>1, <4>3 DEF SceneInv, OneArrow, Astray
    <3> QED  BY <2>2, <3>2, <3>3 DEF KeyR, EnableShootingMode
  <2>3. CASE HandleMouseDown \/ UNCHANGED sceneVars
    BY <2>3 DEF HandleMouseDown, sceneVars, rangeVars, scoreVars, SceneInv, OneArrow, Astray
  <2> QED  BY <2>1, <2>2, <2>3, ShotStarts, FrameInv DEF Scene, SceneInput, BagToSet
<1>3. SceneInv => HitsAreShots
  BY DEF SceneInv, HitsAreShots, Astray
<1> QED  BY <1>1, <1>2, <1>3, PTL DEF Spec

----------------------------------------------------------------------------------
(* The optimizer of sights.                                                     *)
\* The improvement of one spread among others, the worst of which is known.
LEMMA ImprovementFacts ==
  ASSUME NEW all, Max(all) \in Nat, NEW c \in Nat, c <= Max(all)
  PROVE  /\ Improvement(c, all) \in Nat
         /\ Improvement(c, all) = 0 <=> 100 * (Max(all) - c) < Max({1, Max(all)})
         /\ \A d \in Nat : d <= c => Improvement(c, all) <= Improvement(d, all)
<1> DEFINE w == Max(all)
<1>1. Max({1, w}) = IF w = 0 THEN 1 ELSE w
  <2> HIDE DEF w
  <2>1. w \in Nat
    BY DEF w
  <2>2. \A m \in {1, w} : (\A y \in {1, w} : m >= y) => m = IF w = 0 THEN 1 ELSE w
    BY <2>1
  <2>3. \E m \in {1, w} : \A y \in {1, w} : m >= y
    BY <2>1
  <2> QED  BY <2>2, <2>3 DEF Max
<1>2. \A d \in Nat : Improvement(d, all) = IF w <= 0 \/ d >= w THEN 0 ELSE (100 * (w - d)) \div w
  BY DEF Improvement
<1> HIDE DEF w
<1>3. w \in Nat /\ c <= w
  BY DEF w
<1>4. CASE w = 0 \/ c = w
  <2>1. Improvement(c, all) = 0
    BY <1>2, <1>3, <1>4
  <2>2. 100 * (w - c) < Max({1, w})
    BY <1>1, <1>3, <1>4
  <2>3. \A d \in Nat : Improvement(d, all) >= 0
    <3> TAKE d \in Nat
    <3>1. CASE w <= 0 \/ d >= w
      BY <1>2, <3>1
    <3>2. CASE ~(w <= 0 \/ d >= w)
      <4>1. 100 * (w - d) \in Nat /\ w \in Nat \ {0}
        BY <1>3, <3>2
      <4>2. Improvement(d, all) = (100 * (w - d)) \div w
        BY <1>2, <3>2
      <4>3. (100 * (w - d)) \div w \in Nat
        BY <4>1, Quotient
      <4> QED  BY <4>2, <4>3
    <3> QED  BY <3>1, <3>2
  <2> QED  BY <2>1, <2>2, <2>3 DEF w
<1>5. CASE w # 0 /\ c # w
  <2>1. w \in Nat \ {0} /\ 100 * (w - c) \in Nat /\ c < w
    BY <1>3, <1>5
  <2>2. Improvement(c, all) = (100 * (w - c)) \div w
    BY <1>2, <2>1
  <2>3. (100 * (w - c)) \div w \in Nat /\ ((100 * (w - c)) \div w = 0 <=> 100 * (w - c) < w)
    BY <2>1, Quotient, QuotientIsZero
  <2>4. ASSUME NEW d \in Nat, d <= c
        PROVE  Improvement(c, all) <= Improvement(d, all)
    <3>1. 100 * (w - d) \in Nat /\ 100 * (w - c) <= 100 * (w - d) /\ ~(w <= 0 \/ d >= w)
      BY <2>1, <2>4
    <3>2. (100 * (w - c)) \div w <= (100 * (w - d)) \div w
      BY <2>1, <3>1, QuotientIsMonotonic
    <3> QED  BY <1>2, <2>2, <3>1, <3>2
  <2>5. Max({1, w}) = w
    BY <1>1, <1>5
  <2> QED  BY <2>2, <2>3, <2>4, <2>5 DEF w
<1> QED  BY <1>4, <1>5

\* What the rounds over all types say.
Agreed(first, results) ==
    LET worst == Max({results[t].cep : t \in DOMAIN results})
    IN  \A t \in DOMAIN results :
            /\ results[t].cep >= results[first].cep
            /\ results[t].improvement <= results[first].improvement
            /\ results[t].improvement = 0 <=> 100 * (worst - results[t].cep) < Max({1, worst})

\* Every answer about all types is one that agrees: the first is the best by either measure.
LEMMA RoundsAreAgreed ==
  ASSUME NEW r \in Rounds(AllTypes)
  PROVE  Agreed(r.first, r.results)
<1>1. PICK cep \in [AllTypes -> Spreads] :
         LET ceps == {cep[t] : t \in AllTypes}
             results == [t \in AllTypes |-> [cep |-> cep[t], improvement |-> Improvement(cep[t], ceps)]]
         IN  \E t \in AllTypes : cep[t] = Min(ceps) /\ r = [first |-> t, results |-> results]
  BY DEF Rounds
<1> DEFINE ceps == {cep[t] : t \in AllTypes}
           results == [t \in AllTypes |-> [cep |-> cep[t], improvement |-> Improvement(cep[t], ceps)]]
<1>2. PICK first \in AllTypes : cep[first] = Min(ceps) /\ r = [first |-> first, results |-> results]
  BY <1>1
<1>3. \A t \in AllTypes : cep[t] \in Nat
  BY OptimizerAssumption DEF OptimizerAssumption
<1>4. ceps \subseteq Nat /\ ceps # {}
  BY <1>2, <1>3
<1>5. \A t \in AllTypes : cep[t] <= cep[0] + cep[1] + cep[3] + cep[6] + cep[7]
  BY <1>3 DEF AllTypes
<1>6. cep[0] + cep[1] + cep[3] + cep[6] + cep[7] \in Nat
  BY <1>3 DEF AllTypes
<1>7. \A y \in ceps : y <= cep[0] + cep[1] + cep[3] + cep[6] + cep[7]
  BY <1>5
<1>8. Max(ceps) \in Nat /\ \A y \in ceps : y <= Max(ceps)
  <2> HIDE DEF ceps
  <2> QED  BY <1>4, <1>6, <1>7, MaxIsGreatest
<1>9. \A y \in ceps : Min(ceps) <= y
  <2> HIDE DEF ceps
  <2> QED  BY <1>4, MinIsLeast
<1>10. DOMAIN results = AllTypes
       /\ \A t \in AllTypes : /\ results[t].cep = cep[t]
                              /\ results[t].improvement = Improvement(cep[t], ceps)
  OBVIOUS
<1>11. {results[t].cep : t \in DOMAIN results} = ceps
  BY <1>10
<1> HIDE DEF results
<1>12. \A t \in AllTypes : /\ cep[t] >= cep[first]
                           /\ Improvement(cep[t], ceps) <= Improvement(cep[first], ceps)
                           /\ Improvement(cep[t], ceps) = 0 <=>
                                 100 * (Max(ceps) - cep[t]) < Max({1, Max(ceps)})
  <2> TAKE t \in AllTypes
  <2>1. cep[t] \in ceps /\ cep[first] \in Nat /\ cep[t] \in Nat /\ cep[first] <= cep[t]
    BY <1>2, <1>3, <1>9
  <2>2. cep[t] <= Max(ceps)
    BY <1>8, <2>1
  <2> HIDE DEF ceps
  <2> QED  BY <1>8, <2>1, <2>2, ImprovementFacts
<1>13. Agreed(first, results)
  <2> HIDE DEF ceps
  <2> QED  BY <1>10, <1>11, <1>12 DEF Agreed
<1> QED  BY <1>2, <1>13

\* What a step does to the optimizer.
LEMMA OptimizerSteps ==
  ASSUME [Next]_researchVars
  PROVE  UNCHANGED optimizerVars \/ SightCall(SightTypes)
<1>1. CASE Choosing
  BY <1>1 DEF Choosing
<1>2. CASE Formation \/ Training \/ Session \/ Comparison \/ Engraving \/ Showing \/ Simulating
  BY <1>2 DEF Formation, Training, Session, Comparison, Engraving, Showing, Simulating, ObjectsRest
<1>3. CASE UNCHANGED researchVars
  BY <1>3 DEF researchVars
<1> QED  BY <1>1, <1>2, <1>3 DEF Next

\* A comparison and a recommendation rank the sights by one story: the spreads that were
\* drawn for them and the improvements computed from those.
THEOREM AnswersAgree == Spec => []RoundsAgree
<1>1. Init => RoundsAgree
  BY DEF Init, OptimizerInit, RoundsAgree
<1>2. RoundsAgree /\ [Next]_researchVars => RoundsAgree'
  <2> SUFFICES ASSUME RoundsAgree, SightCall(SightTypes) \/ UNCHANGED optimizerVars
               PROVE  RoundsAgree'
    BY OptimizerSteps
  <2>1. RoundsAgree' <=> (round'.call \in {"compare", "recommend"} =>
                             Agreed(round'.first, round'.results))
    BY DEF RoundsAgree, Agreed
  <2>2. ASSUME NEW t, SetAimTarget(t) \/ UNCHANGED optimizerVars
        PROVE  RoundsAgree'
    BY <2>2 DEF SetAimTarget, optimizerVars, RoundsAgree
  <2>3. ASSUME NEW t, Recommend(t)
        PROVE  RoundsAgree'
    <3>1. PICK r \in Rounds(AllTypes) : round'.first = r.first /\ round'.results = r.results
      BY <2>3 DEF Recommend
    <3> QED  BY <2>1, <3>1, RoundsAreAgreed
  <2>4. CASE CompareAll
    <3>1. PICK r \in Rounds(AllTypes) : round'.first = r.first /\ round'.results = r.results
      BY <2>4 DEF CompareAll
    <3> QED  BY <2>1, <3>1, RoundsAreAgreed
  <2>5. ASSUME NEW types, Optimize(types)
        PROVE  RoundsAgree'
    BY <2>1, <2>5 DEF Optimize
  <2>6. ASSUME NEW type, GridSearch(type)
        PROVE  RoundsAgree'
    BY <2>1, <2>6 DEF GridSearch
  <2> QED  BY <2>2, <2>3, <2>4, <2>5, <2>6 DEF SightCall
<1> QED  BY <1>1, <1>2, PTL DEF Spec

----------------------------------------------------------------------------------
(* The choice of materials.                                                     *)
\* A larger value is closer to the highest, by at most sixty sixtieths.
LEMMA RelativeFacts ==
  ASSUME NEW top \in Nat, NEW v \in 0..top
  PROVE  /\ Relative(v, top) \in 0..60
         /\ \A u \in 0..v : Relative(u, top) <= Relative(v, top)
         /\ \A u \in 0..v : u < v /\ top <= 59 => Relative(u, top) < Relative(v, top)
<1>1. top + 1 \in Nat \ {0} /\ 60 * v \in Nat /\ Relative(v, top) = (60 * v) \div (top + 1)
  BY DEF Relative
<1>2. Relative(v, top) \in Nat /\ (top + 1) * Relative(v, top) <= 60 * v
  BY <1>1, Quotient
<1>3. Relative(v, top) <= 60
  <2>1. SUFFICES ASSUME Relative(v, top) >= 61  PROVE FALSE
    BY <1>2
  <2>2. (top + 1) * Relative(v, top) >= (top + 1) * 61
    BY <1>1, <1>2, <2>1
  <2> QED  BY <1>2, <2>2
<1>4. ASSUME NEW u \in 0..v  PROVE Relative(u, top) <= Relative(v, top)
  <2>1. 60 * u \in Nat /\ 60 * u <= 60 * v /\ Relative(u, top) = (60 * u) \div (top + 1)
    BY DEF Relative
  <2> QED  BY <1>1, <2>1, QuotientIsMonotonic
<1>5. ASSUME NEW u \in 0..v, u < v, top <= 59  PROVE Relative(u, top) < Relative(v, top)
  <2>1. 60 * u \in Nat /\ 60 * u + 60 <= 60 * v /\ Relative(u, top) = (60 * u) \div (top + 1)
        /\ top + 1 \in 1..60
    BY <1>5 DEF Relative
  <2> QED  BY <1>1, <2>1, QuotientIsStrict
<1> QED  BY <1>2, <1>3, <1>4, <1>5

\* What is measured of a material.
LEMMA MeasuredTypes ==
  ASSUME measured \in [Materials -> Measures], NEW m \in Materials
  PROVE  \A c \in Criteria \cup {"loss"} : measured[m][c] \in 0..59
BY MaterialAssumption DEF MaterialAssumption

\* The normalised value of a criterion grows with what is good.
LEMMA NormalizeFacts ==
  ASSUME NEW lo \in 0..59, NEW hi \in 0..59, NEW u \in lo..hi, NEW v \in lo..hi, u <= v
  PROVE  /\ Normalize(u, lo, hi, TRUE) \in Int /\ Normalize(u, lo, hi, FALSE) \in Int
         /\ Normalize(v, lo, hi, TRUE) \in Int /\ Normalize(v, lo, hi, FALSE) \in Int
         /\ Normalize(u, lo, hi, TRUE) <= Normalize(v, lo, hi, TRUE)
         /\ Normalize(v, lo, hi, FALSE) <= Normalize(u, lo, hi, FALSE)
         /\ u < v => /\ Normalize(u, lo, hi, TRUE) < Normalize(v, lo, hi, TRUE)
                     /\ Normalize(v, lo, hi, FALSE) < Normalize(u, lo, hi, FALSE)
<1>1. CASE lo = hi
  BY <1>1 DEF Normalize
<1>2. CASE lo # hi
  <2> DEFINE w == hi - lo
             p == (60 * (u - lo)) \div w
             q == (60 * (v - lo)) \div w
  <2>1. w \in 1..60 /\ w \in Nat \ {0} /\ 60 * (u - lo) \in Nat /\ 60 * (v - lo) \in Nat
        /\ 60 * (u - lo) <= 60 * (v - lo) /\ (u < v => 60 * (u - lo) + 60 <= 60 * (v - lo))
    BY <1>2
  <2>2. /\ Normalize(u, lo, hi, TRUE) = p /\ Normalize(u, lo, hi, FALSE) = 60 - p
        /\ Normalize(v, lo, hi, TRUE) = q /\ Normalize(v, lo, hi, FALSE) = 60 - q
    BY <1>2 DEF Normalize
  <2> HIDE DEF w
  <2>3. p \in Nat /\ q \in Nat
    BY <2>1, Quotient
  <2>4. p <= q
    BY <2>1, QuotientIsMonotonic
  <2>5. u < v => p < q
    BY <2>1, QuotientIsStrict
  <2> HIDE DEF p, q
  <2>6. /\ p \in Int /\ q \in Int /\ 60 - p \in Int /\ 60 - q \in Int /\ 60 - q <= 60 - p
        /\ u < v => 60 - q < 60 - p
    BY <2>3, <2>4, <2>5
  <2> QED  BY <2>2, <2>4, <2>5, <2>6, Zenon
<1> QED  BY <1>1, <1>2

\* What one criterion adds to a score.
Part(c, m, all) ==
    LET values == {measured[n][c] : n \in all}
    IN  Weight[c] * Normalize(measured[m][c], Min(values), Max(values), HigherIsBetter(c))

\* A material that is as good in a criterion gets as much for it, a better one more.
LEMMA PartFacts ==
  ASSUME measured \in [Materials -> Measures], NEW all \in SUBSET Materials,
         NEW m \in all, NEW n \in all, NEW c \in Criteria,
         IF HigherIsBetter(c) THEN measured[m][c] >= measured[n][c]
                              ELSE measured[m][c] <= measured[n][c]
  PROVE  /\ Part(c, m, all) \in Int /\ Part(c, n, all) \in Int
         /\ Part(c, n, all) <= Part(c, m, all)
         /\ measured[m][c] # measured[n][c] => Part(c, n, all) < Part(c, m, all)
<1> DEFINE values == {measured[k][c] : k \in all}
           lo == Min(values)
           hi == Max(values)
           u == measured[m][c]
           v == measured[n][c]
<1>1. values \subseteq 0..59 /\ u \in values /\ v \in values
  BY MeasuredTypes
<1>2. lo \in values /\ hi \in values /\ lo <= u /\ lo <= v /\ u <= hi /\ v <= hi
  <2> HIDE DEF values, u, v
  <2>1. values \subseteq Nat /\ values # {} /\ \A y \in values : y <= 59
    BY <1>1
  <2>2. lo \in values /\ \A y \in values : lo <= y
    BY <2>1, MinIsLeast
  <2>3. hi \in values /\ \A y \in values : y <= hi
    BY <2>1, MaxIsGreatest
  <2> QED  BY <1>1, <2>2, <2>3
<1>3. /\ Part(c, m, all) = Weight[c] * Normalize(u, lo, hi, HigherIsBetter(c))
      /\ Part(c, n, all) = Weight[c] * Normalize(v, lo, hi, HigherIsBetter(c))
  BY DEF Part
<1>4. Weight[c] \in Nat /\ Weight[c] > 0
  BY DEF Weight, Criteria
<1>5. HigherIsBetter(c) \in BOOLEAN
  BY DEF HigherIsBetter
<1>6. lo \in 0..59 /\ hi \in 0..59 /\ u \in lo..hi /\ v \in lo..hi
  BY <1>1, <1>2
<1> HIDE DEF lo, hi, u, v
<1> DEFINE a == Normalize(u, lo, hi, HigherIsBetter(c))
           b == Normalize(v, lo, hi, HigherIsBetter(c))
<1>7. a \in Int /\ b \in Int /\ b <= a /\ (u # v => b < a)
  <2>1. CASE HigherIsBetter(c)
    <3>1. v <= u /\ HigherIsBetter(c) = TRUE
      BY <1>5, <2>1 DEF u, v
    <3>2. a = Normalize(u, lo, hi, TRUE) /\ b = Normalize(v, lo, hi, TRUE)
      BY <3>1, Zenon
    <3>3. /\ Normalize(u, lo, hi, TRUE) \in Int /\ Normalize(v, lo, hi, TRUE) \in Int
          /\ Normalize(v, lo, hi, TRUE) <= Normalize(u, lo, hi, TRUE)
          /\ v < u => Normalize(v, lo, hi, TRUE) < Normalize(u, lo, hi, TRUE)
      BY <1>6, <3>1, NormalizeFacts
    <3>4. u # v => v < u
      BY <1>6, <3>1
    <3> QED  BY <3>2, <3>3, <3>4, Zenon
  <2>2. CASE ~HigherIsBetter(c)
    <3>1. u <= v /\ HigherIsBetter(c) = FALSE
      BY <1>5, <2>2 DEF u, v
    <3>2. a = Normalize(u, lo, hi, FALSE) /\ b = Normalize(v, lo, hi, FALSE)
      BY <3>1, Zenon
    <3>3. /\ Normalize(u, lo, hi, FALSE) \in Int /\ Normalize(v, lo, hi, FALSE) \in Int
          /\ Normalize(v, lo, hi, FALSE) <= Normalize(u, lo, hi, FALSE)
          /\ u < v => Normalize(v, lo, hi, FALSE) < Normalize(u, lo, hi, FALSE)
      BY <1>6, <3>1, NormalizeFacts
    <3>4. u # v => u < v
      BY <1>6, <3>1
    <3> QED  BY <3>2, <3>3, <3>4, Zenon
  <2> QED  BY <2>1, <2>2
<1> HIDE DEF a, b
<1>8. \A w \in Nat : w > 0 => w * b <= w * a /\ (b < a => w * b < w * a)
  BY <1>7
<1>9. Weight[c] * a \in Int /\ Weight[c] * b \in Int
  BY <1>4, <1>7
<1> QED  BY <1>3, <1>4, <1>7, <1>8, <1>9 DEF a, b, u, v

\* The dominating material has the higher score.
LEMMA DominatesScore ==
  ASSUME measured \in [Materials -> Measures], NEW all \in SUBSET Materials,
         NEW m \in all, NEW n \in all, Dominates(m, n)
  PROVE  Score(m, all) > Score(n, all)
<1>1. \A k : Score(k, all) = Part("mass", k, all) + Part("efficiency", k, all)
                   + Part("velocity", k, all) + Part("lifespan", k, all) + Part("creep", k, all)
  BY DEF Score, Part
<1>2. \A c \in Criteria : IF HigherIsBetter(c) THEN measured[m][c] >= measured[n][c]
                                               ELSE measured[m][c] <= measured[n][c]
  BY DEF Dominates, HigherIsBetter, Criteria
<1>3. \A c \in Criteria : /\ Part(c, m, all) \in Int /\ Part(c, n, all) \in Int
                          /\ Part(c, n, all) <= Part(c, m, all)
                          /\ measured[m][c] # measured[n][c] => Part(c, n, all) < Part(c, m, all)
  BY <1>2, PartFacts
<1>4. \E c \in Criteria : measured[m][c] # measured[n][c]
  BY DEF Dominates
<1>5. \E c \in Criteria : Part(c, n, all) < Part(c, m, all)
  BY <1>3, <1>4
<1> QED  BY <1>1, <1>3, <1>5 DEF Criteria

\* A ranking puts the dominating material first.
LEMMA RankingDominates ==
  ASSUME measured \in [Materials -> Measures],
         NEW types \in SUBSET (Materials \cup {Unknown}), NEW rank \in Rankings(types),
         NEW m \in DOMAIN rank, NEW n \in DOMAIN rank, Dominates(m, n)
  PROVE  rank[m] < rank[n]
<1> DEFINE all == {MaterialOf(t) : t \in types} \ {Unknown}
<1>1. all \in SUBSET Materials
  BY DEF MaterialOf
<1>2. /\ DOMAIN rank = all
      /\ \A i, j \in all : i # j /\ Score(i, all) > Score(j, all) => rank[i] < rank[j]
  BY DEF Rankings
<1> HIDE DEF all
<1>3. Score(m, all) > Score(n, all)
  BY <1>1, <1>2, DominatesScore
<1>4. m # n
  BY DEF Dominates
<1> QED  BY <1>2, <1>3, <1>4

\* The list of a choice for accuracy.
IsList(list) ==
    /\ Len(list) \in Nat /\ DOMAIN list = 1..Len(list)
    /\ \A k \in 1..Len(list) : list[k] \in Materials

\* A hundred times sixty sixtieths.
MostSuitable == 6000

\* The highest of some values on a scale.
LEMMA TopIsHighest ==
  ASSUME NEW n \in Nat, NEW S, S \subseteq 0..n, S # {}
  PROVE  Max(S) \in S /\ \A y \in S : y <= Max(S)
<1>1. S \subseteq Nat /\ \A y \in S : y <= n
  OBVIOUS
<1> QED  BY <1>1, MaxIsGreatest

\* The square of the highest velocity, and the most of an accuracy.
MostPower == 59 * 59
Full == 3600

\* A faster arrow has more power.
LEMMA SquareFacts ==
  ASSUME NEW x \in 0..59, NEW y \in 0..x
  PROVE  x * x \in 0..MostPower /\ y * y \in Nat /\ y * y <= x * x
<1>1. y * y <= x * y /\ x * y <= x * x /\ y * y \in Nat /\ x * y \in Nat
  OBVIOUS
<1>2. x * x <= 59 * x /\ 59 * x <= 59 * 59 /\ x * x \in Nat
  OBVIOUS
<1> QED  BY <1>1, <1>2 DEF MostPower

\* Where power and accuracy lie.
LEMMA AccuracyFacts ==
  ASSUME measured \in [Materials -> Measures], NEW m \in Materials
  PROVE  /\ Power(m) \in 0..MostPower /\ MostPower \in Nat /\ Power(m) \in Nat
         /\ AccPenalty(m) \in Nat
         /\ Accuracy(m) \in 0..60
<1>1. measured[m].mass \in 0..59 /\ measured[m].velocity \in 0..59 /\ measured[m].loss \in 0..59
  BY MeasuredTypes DEF Criteria
<1>2. Power(m) \in 0..MostPower /\ MostPower \in Nat /\ Power(m) \in Nat
  <2>1. measured[m].velocity \in 0..measured[m].velocity
    BY <1>1
  <2>2. Power(m) \in 0..MostPower
    BY <1>1, <2>1, SquareFacts DEF Power
  <2>3. MostPower \in Nat
    BY DEF MostPower
  <2> QED  BY <2>2, <2>3
<1> DEFINE lost == 300 * measured[m].loss
<1>3. lost \in Nat /\ Power(m) + 1 \in Nat \ {0}
  BY <1>1, <1>2
<1>4. AccPenalty(m) = 2 * measured[m].mass + lost \div (Power(m) + 1)
  BY DEF AccPenalty
<1> HIDE DEF lost
<1>5. lost \div (Power(m) + 1) \in Nat
  BY <1>3, Quotient
<1>6. AccPenalty(m) \in Nat
  BY <1>1, <1>4, <1>5
<1> DEFINE w == 60 + AccPenalty(m)
           q == Full \div w
<1>7. Full \in Nat /\ Full = 60 * 60 /\ w \in Nat \ {0} /\ w >= 60 /\ Accuracy(m) = q
  BY <1>6 DEF Full, Accuracy
<1>8. q \in Nat /\ w * q <= Full
  BY <1>7, Quotient
<1> HIDE DEF w, q
<1>9. q <= 60
  <2>1. SUFFICES ASSUME q >= 61 PROVE FALSE
    BY <1>8
  <2>2. w * q >= 60 * q /\ 60 * q > 60 * 60
    BY <1>7, <1>8, <2>1
  <2>3. w * q \in Nat /\ 60 * q \in Nat /\ Full \in Nat
    BY <1>7, <1>8
  <2> QED  BY <1>7, <1>8, <2>2, <2>3
<1> QED  BY <1>2, <1>6, <1>7, <1>8, <1>9

\* A string that is as light, and loses no more of a power that is as high, shoots as straight.
LEMMA AccuracyFalls ==
  ASSUME measured \in [Materials -> Measures], NEW m \in Materials, NEW n \in Materials,
         measured[m].mass <= measured[n].mass, measured[m].velocity >= measured[n].velocity,
         measured[m].loss <= measured[n].loss
  PROVE  Power(n) <= Power(m) /\ Accuracy(n) <= Accuracy(m)
<1>1. /\ measured[m].mass \in 0..59 /\ measured[m].velocity \in 0..59 /\ measured[m].loss \in 0..59
      /\ measured[n].mass \in 0..59 /\ measured[n].velocity \in 0..59 /\ measured[n].loss \in 0..59
  BY MeasuredTypes DEF Criteria
<1>2. Power(n) <= Power(m)
  <2>1. measured[n].velocity \in 0..measured[m].velocity
    BY <1>1
  <2> QED  BY <1>1, <2>1, SquareFacts DEF Power
<1> DEFINE p == Power(m) + 1
           q == Power(n) + 1
           a == 300 * measured[m].loss
           b == 300 * measured[n].loss
<1>3. p \in Nat \ {0} /\ q \in Nat \ {0} /\ q <= p /\ a \in Nat /\ b \in Nat /\ a <= b
  BY <1>1, <1>2, AccuracyFacts
<1>4. AccPenalty(m) = 2 * measured[m].mass + a \div p /\ AccPenalty(n) = 2 * measured[n].mass + b \div q
  BY DEF AccPenalty
<1> HIDE DEF a, b, p, q
<1>5. a \div p <= b \div p /\ b \div p <= b \div q
  BY <1>3, QuotientIsMonotonic, QuotientFalls
<1>6. a \div p \in Nat /\ b \div p \in Nat /\ b \div q \in Nat
  BY <1>3, Quotient
<1>7. AccPenalty(m) <= AccPenalty(n)
  BY <1>1, <1>4, <1>5, <1>6
<1> DEFINE v == 60 + AccPenalty(m)
           w == 60 + AccPenalty(n)
<1>8. v \in Nat \ {0} /\ w \in Nat \ {0} /\ v <= w /\ Full \in Nat
  BY <1>7, AccuracyFacts DEF Full
<1>9. Accuracy(m) = Full \div v /\ Accuracy(n) = Full \div w
  BY DEF Accuracy, Full
<1> HIDE DEF v, w
<1>10. Full \div w <= Full \div v
  BY <1>8, QuotientFalls
<1> QED  BY <1>2, <1>9, <1>10

\* A candidate that is as straight, as powerful and lasts longer than another suits better.
LEMMA WeightedFacts ==
  ASSUME NEW topA \in Nat, NEW topV \in Nat, NEW topL \in 0..59,
         NEW a \in 0..topA, NEW v \in 0..topV, NEW l \in 0..topL,
         NEW b \in 0..topA, NEW w \in 0..topV, NEW k \in 0..topL
  PROVE  LET first  == 60 * Relative(a, topA) + 25 * Relative(v, topV) + 15 * Relative(l, topL)
             second == 60 * Relative(b, topA) + 25 * Relative(w, topV) + 15 * Relative(k, topL)
         IN  /\ first \in 0..MostSuitable /\ second \in 0..MostSuitable
             /\ b <= a /\ w <= v /\ k < l => second < first
<1> DEFINE ra == Relative(a, topA)
           rb == Relative(b, topA)
           rv == Relative(v, topV)
           rw == Relative(w, topV)
           rl == Relative(l, topL)
           rk == Relative(k, topL)
<1>1. topL \in Nat /\ topL <= 59
  OBVIOUS
<1>2. ra \in 0..60 /\ rv \in 0..60 /\ rl \in 0..60
  BY <1>1, RelativeFacts
<1>3. rb \in 0..60 /\ rw \in 0..60 /\ rk \in 0..60
  BY <1>1, RelativeFacts
<1>4. ASSUME b <= a, w <= v, k < l
      PROVE  rb <= ra /\ rw <= rv /\ rk < rl
  <2>1. b \in 0..a /\ w \in 0..v /\ k \in 0..l
    BY <1>4
  <2> QED  BY <1>1, <1>4, <2>1, RelativeFacts
<1> HIDE DEF ra, rb, rv, rw, rl, rk
<1>5. /\ 60 * ra + 25 * rv + 15 * rl \in 0..MostSuitable
      /\ 60 * rb + 25 * rw + 15 * rk \in 0..MostSuitable
      /\ rb <= ra /\ rw <= rv /\ rk < rl => 60 * rb + 25 * rw + 15 * rk < 60 * ra + 25 * rv + 15 * rl
  BY <1>2, <1>3 DEF MostSuitable
<1>6. b <= a /\ w <= v /\ k < l => 60 * rb + 25 * rw + 15 * rk < 60 * ra + 25 * rv + 15 * rl
  BY <1>4, <1>5, Zenon
<1> QED  BY <1>5, <1>6, Zenon DEF ra, rb, rv, rw, rl, rk

\* A candidate outlives another, and is as light, as fast, and as little of it is lost.
Outlives(m, n) ==
    /\ measured[m].mass <= measured[n].mass /\ measured[m].velocity >= measured[n].velocity
    /\ measured[m].loss <= measured[n].loss
    /\ measured[m].lifespan > measured[n].lifespan

\* The suitability of the candidates of a list: where it lies, and whose is higher.
LEMMA SuitabilityFacts ==
  ASSUME measured \in [Materials -> Measures], NEW list, IsList(list), NEW k \in 1..Len(list),
         NEW j \in 1..Len(list)
  PROVE  /\ Suitability(list, k) \in 0..MostSuitable
         /\ Outlives(list[k], list[j]) => Suitability(list, k) > Suitability(list, j)
<1> DEFINE all == Range(list)
           As == {Accuracy(n) : n \in all}
           Vs == {Power(n) : n \in all}
           Ls == {measured[n].lifespan : n \in all}
           p == list[k]
           q == list[j]
           topA == Max(As)
           topV == Max(Vs)
           topL == Max(Ls)
<1>1. all \subseteq Materials /\ p \in all /\ q \in all
  BY DEF Range, IsList
<1>2. \A n \in Materials : measured[n].lifespan \in 0..59
  BY MeasuredTypes DEF Criteria
<1>3. MostPower \in Nat /\ \A n \in Materials : Accuracy(n) \in 0..60 /\ Power(n) \in 0..MostPower
  BY <1>1, AccuracyFacts
<1>4. As \subseteq 0..60 /\ Accuracy(p) \in As /\ Accuracy(q) \in As
  BY <1>1, <1>3
<1>5. /\ Vs \subseteq 0..MostPower /\ Power(p) \in Vs /\ Power(q) \in Vs
      /\ Ls \subseteq 0..59 /\ measured[p].lifespan \in Ls /\ measured[q].lifespan \in Ls
  BY <1>1, <1>2, <1>3
<1>6. /\ Suitability(list, k) = 60 * Relative(Accuracy(p), topA)
                                  + 25 * Relative(Power(p), topV)
                                  + 15 * Relative(measured[p].lifespan, topL)
      /\ Suitability(list, j) = 60 * Relative(Accuracy(q), topA)
                                  + 25 * Relative(Power(q), topV)
                                  + 15 * Relative(measured[q].lifespan, topL)
  BY DEF Suitability
<1>7. Outlives(p, q) => /\ Accuracy(q) <= Accuracy(p) /\ Power(q) <= Power(p)
                        /\ measured[q].lifespan < measured[p].lifespan
  <2> SUFFICES ASSUME Outlives(p, q)
               PROVE  /\ Accuracy(q) <= Accuracy(p) /\ Power(q) <= Power(p)
                      /\ measured[q].lifespan < measured[p].lifespan
    OBVIOUS
  <2>1. p \in Materials /\ q \in Materials
    BY <1>1
  <2>2. measured[q].lifespan < measured[p].lifespan
    BY <1>2, <2>1 DEF Outlives
  <2> QED  BY <2>1, <2>2, AccuracyFalls DEF Outlives
<1> DEFINE a == Accuracy(p)
           b == Accuracy(q)
           v == Power(p)
           w == Power(q)
           l == measured[p].lifespan
           d == measured[q].lifespan
<1> HIDE DEF As, Vs, Ls, a, b, v, w, l, d
<1>9. topA \in As /\ \A y \in As : y <= topA
  BY <1>4, 60 \in Nat, TopIsHighest
<1>10. Vs # {} /\ Ls # {}
  BY <1>5
<1>11. topV \in Vs /\ (\A y \in Vs : y <= topV) /\ topL \in Ls /\ \A y \in Ls : y <= topL
  BY <1>3, <1>5, <1>10, 59 \in Nat, TopIsHighest
<1> HIDE DEF topA, topV, topL, MostPower
<1>12. a \in As /\ b \in As /\ v \in Vs /\ w \in Vs /\ l \in Ls /\ d \in Ls
  BY <1>4, <1>5 DEF a, b, v, w, l, d
<1>13. topA \in Nat /\ a \in 0..topA /\ b \in 0..topA
  BY <1>4, <1>9, <1>12
<1>14. topV \in Nat /\ v \in 0..topV /\ w \in 0..topV
  <2>1. topV \in Nat /\ v \in Nat /\ w \in Nat
    BY <1>3, <1>5, <1>11, <1>12
  <2>2. v <= topV /\ w <= topV
    BY <1>11, <1>12
  <2> QED  BY <2>1, <2>2
<1>15. topL \in 0..59 /\ l \in 0..topL /\ d \in 0..topL
  <2>1. topL \in 0..59 /\ l \in 0..59 /\ d \in 0..59
    BY <1>5, <1>11, <1>12
  <2>2. l <= topL /\ d <= topL
    BY <1>11, <1>12
  <2> QED  BY <2>1, <2>2
<1> DEFINE sk == 60 * Relative(a, topA) + 25 * Relative(v, topV) + 15 * Relative(l, topL)
           sj == 60 * Relative(b, topA) + 25 * Relative(w, topV) + 15 * Relative(d, topL)
<1>16. sk \in 0..MostSuitable /\ sj \in 0..MostSuitable /\ (b <= a /\ w <= v /\ d < l => sj < sk)
  BY <1>13, <1>14, <1>15, WeightedFacts, Zenon
<1>17. Suitability(list, k) = sk /\ Suitability(list, j) = sj
  BY <1>6 DEF a, b, v, w, l, d
<1>18. Outlives(p, q) => b <= a /\ w <= v /\ d < l
  BY <1>7 DEF a, b, v, w, l, d
<1> HIDE DEF sk, sj, p, q
<1>19. ASSUME Outlives(p, q) PROVE sk > sj
  BY <1>16, <1>18, <1>19 DEF MostSuitable
<1> QED  BY <1>16, <1>17, <1>19 DEF p, q

\* The choice for accuracy is none that another outlives and equals in the rest.
LEMMA ChoiceIsNotBeaten ==
  ASSUME measured \in [Materials -> Measures], NEW list, IsList(list), list # <<>>,
         Len(list) > 0,
         NEW k \in 1..Len(list)
  PROVE  LET choice == list[Min({i \in 1..Len(list) : \A j \in 1..Len(list) :
                                    Suitability(list, j) <= Suitability(list, i)})]
         IN  ~Outlives(list[k], choice)
<1> DEFINE tops == {i \in 1..Len(list) : \A j \in 1..Len(list) :
                       Suitability(list, j) <= Suitability(list, i)}
           values == {Suitability(list, i) : i \in 1..Len(list)}
<1>1. \A i \in 1..Len(list) : Suitability(list, i) \in 0..MostSuitable
  <2> TAKE i \in 1..Len(list)
  <2> QED  BY SuitabilityFacts, Zenon
<1>2. \A i \in 1..Len(list) : Suitability(list, i) \in values
  OBVIOUS
<1>3. Max(values) \in values /\ \A y \in values : y <= Max(values)
  <2>1. values \subseteq 0..MostSuitable
    BY <1>1, Zenon
  <2>2. values # {}
    BY <1>2
  <2> HIDE DEF values
  <2>3. MostSuitable \in Nat
    BY DEF MostSuitable
  <2> QED  BY <2>1, <2>2, <2>3, TopIsHighest, Zenon
<1>4. PICK i \in 1..Len(list) : Max(values) = Suitability(list, i)
  BY <1>3
<1>5. \A j \in 1..Len(list) : Suitability(list, j) <= Suitability(list, i)
  <2> HIDE DEF values
  <2> QED  BY <1>2, <1>3, <1>4, Zenon
<1>6. i \in tops
  BY <1>5, Zenon
<1>7. tops \subseteq 1..Len(list)
  BY Zenon
<1>8. Min(tops) \in tops
  <2> HIDE DEF tops
  <2>1. tops \subseteq Nat /\ tops # {}
    BY <1>6, <1>7 DEF IsList
  <2> QED  BY <2>1, MinIsLeast
<1> DEFINE t == Min(tops)
<1>9. t \in 1..Len(list) /\ Suitability(list, k) <= Suitability(list, t)
  BY <1>8, Zenon
<1> HIDE DEF t
<1>10. Suitability(list, k) \in 0..MostSuitable /\ Suitability(list, t) \in 0..MostSuitable
  BY <1>1, <1>9
<1>11. ~(Suitability(list, k) > Suitability(list, t))
  <2> DEFINE x == Suitability(list, k)
             y == Suitability(list, t)
  <2>1. x \in 0..MostSuitable /\ y \in 0..MostSuitable /\ x <= y
    BY <1>9, <1>10, Zenon
  <2> HIDE DEF x, y
  <2>2. ~(x > y)
    BY <2>1 DEF MostSuitable
  <2> QED  BY <2>2 DEF x, y
<1>12. ~Outlives(list[k], list[t])
  BY <1>9, <1>11, SuitabilityFacts
<1> QED  BY <1>12 DEF t

\* What a step does to the materials.
LEMMA MaterialSteps ==
  ASSUME [Next]_researchVars
  PROVE  UNCHANGED materialVars \/ MaterialCall
<1>1. CASE Comparison
  BY <1>1 DEF Comparison
<1>2. CASE Formation \/ Training \/ Session \/ Engraving \/ Choosing \/ Showing \/ Simulating
  BY <1>2 DEF Formation, Training, Session, Engraving, Choosing, Showing, Simulating, ObjectsRest
<1>3. CASE UNCHANGED researchVars
  BY <1>3 DEF researchVars
<1> QED  BY <1>1, <1>2, <1>3 DEF Next

\* What is measured is in range, and no winner is dominated.
MaterialInv == measured \in [Materials -> Measures] /\ NoDominatedWinner

\* A comparison: its ranking puts each material before those it dominates.
LEMMA RankingInv ==
  ASSUME MaterialInv, NEW types \in SUBSET (Materials \cup {Unknown}),
         CompareMaterials(types) \/ FindOptimalMaterial(types)
  PROVE  MaterialInv'
<1>1. measured' = measured /\ measured \in [Materials -> Measures]
  BY DEF CompareMaterials, FindOptimalMaterial, MaterialInv
<1>2. PICK kinds \in SUBSET (Materials \cup {Unknown}) :
         \E rank \in Rankings(kinds) : verdict'.rank = rank /\ verdict'.call \in {"compare", "optimal"}
  BY DEF CompareMaterials, FindOptimalMaterial
<1>3. PICK rank \in Rankings(kinds) : verdict'.rank = rank
  BY <1>2
<1>4. \A m, n \in DOMAIN rank : Dominates(m, n)' => rank[m] < rank[n]
  BY <1>1, RankingDominates DEF Dominates
<1>5. NoDominatedWinner'
  BY <1>2, <1>3, <1>4 DEF NoDominatedWinner
<1> QED  BY <1>1, <1>5 DEF MaterialInv

\* No ranking puts a material before one that dominates it, and the choice for accuracy is
\* none that another candidate outlives while it is as light, as fast and loses no more.
THEOREM WinnersAreNotDominated == Spec => []NoDominatedWinner
<1>1. Init => MaterialInv
  BY DEF Init, MaterialInit, MaterialInv, NoDominatedWinner
<1>2. MaterialInv /\ [Next]_researchVars => MaterialInv'
  <2> SUFFICES ASSUME MaterialInv, MaterialCall \/ UNCHANGED materialVars
               PROVE  MaterialInv'
    BY MaterialSteps
  <2>1. CASE Reconfigure
    BY <2>1 DEF Reconfigure, MaterialInv, NoDominatedWinner
  <2>2. CASE UNCHANGED materialVars
    BY <2>2 DEF materialVars, MaterialInv, NoDominatedWinner, Dominates
  <2>3. ASSUME NEW set \in SUBSET Materials, NEW list \in SetToSeqs(set), OptimizeForAccuracy(list)
        PROVE  MaterialInv'
    <3>1. measured' = measured /\ measured \in [Materials -> Measures]
      BY <2>3 DEF OptimizeForAccuracy, MaterialInv
    <3>2. /\ verdict'.call = "accuracy" /\ verdict'.list = list
          /\ list # <<>> => verdict'.best = list[Min({k \in 1..Len(list) : \A j \in 1..Len(list) :
                                       Suitability(list, j) <= Suitability(list, k)})]
      BY <2>3 DEF OptimizeForAccuracy
    <3>3. list \in [1..Cardinality(set) -> set] /\ Cardinality(set) \in Nat
      <4>1. IsFiniteSet(set)
        BY MaterialAssumption, FS_Subset DEF MaterialAssumption
      <4> QED  BY <4>1, FS_CardinalityType DEF SetToSeqs
    <3>4. list \in Seq(Materials)
      BY <3>3
    <3>5. IsList(list) /\ (Len(list) > 0 => list # <<>>)
      BY <3>4 DEF IsList
    <3>6. \A k \in 1..Len(list) :
             LET m == measured[list[k]]
                 b == measured[verdict'.best]
             IN  ~ /\ m.mass <= b.mass /\ m.velocity >= b.velocity /\ m.loss <= b.loss
                   /\ m.lifespan > b.lifespan
      <4> TAKE k \in 1..Len(list)
      <4>1. Len(list) > 0 /\ list # <<>>
        BY <3>5
      <4> QED  BY <3>1, <3>2, <3>5, <4>1, ChoiceIsNotBeaten DEF Outlives
    <3>7. NoDominatedWinner'
      BY <3>1, <3>2, <3>6 DEF NoDominatedWinner
    <3> QED  BY <3>1, <3>7 DEF MaterialInv
  <2>4. ASSUME NEW list, CompareVelocities(list)
        PROVE  MaterialInv'
    BY <2>4 DEF CompareVelocities, MaterialInv, NoDominatedWinner
  <2> QED  BY <2>1, <2>2, <2>3, <2>4, RankingInv DEF MaterialCall
<1>3. MaterialInv => NoDominatedWinner
  BY DEF MaterialInv
<1> QED  BY <1>1, <1>2, <1>3, PTL DEF Spec

----------------------------------------------------------------------------------
(* The bisection.                                                                 *)

\* The elevations between which it searches.
Brackets == (0..Top) \X (0..Top)
Half(p, range) ==
    LET mid == (p[1] + p[2]) \div 2
    IN  IF reach[mid] > range THEN <<p[1], mid>> ELSE <<mid, p[2]>>
Bisected(range, g) ==
    [p \in Brackets |->
        IF p[2] <= p[1] + 1 THEN Closer(p[1], p[2], range)
        ELSE Closer((p[1] + p[2]) \div 2, g[Half(p, range)], range)]
Bisection(range) == CHOOSE g : g = Bisected(range, g)

\* The elevation is what is found between none and 45 degrees.
LEMMA ElevationIsBisection ==
  ASSUME NEW range
  PROVE  RequiredElevation(range) = Bisection(range)[<<0, Top>>]
BY DEF RequiredElevation, Bisection, Bisected, Half, Brackets

\* The halves of a bracket are brackets, and narrower.
LEMMA HalfIsNarrower ==
  ASSUME NEW p \in Brackets, p[1] + 1 < p[2], NEW range
  PROVE  LET mid == (p[1] + p[2]) \div 2
         IN  /\ mid \in 0..Top /\ p[1] < mid /\ mid < p[2]
             /\ Half(p, range) \in {<<p[1], mid>>, <<mid, p[2]>>} /\ Half(p, range) \in Brackets
             /\ Half(p, range)[1] < Half(p, range)[2]
             /\ Half(p, range)[2] - Half(p, range)[1] < p[2] - p[1]
<1> DEFINE mid == (p[1] + p[2]) \div 2
<1>0. p[1] \in 0..Top /\ p[2] \in 0..Top /\ Top \in Nat
  BY CalibrationAssumption DEF Brackets
<1>1. mid \in 0..Top /\ p[1] < mid /\ mid < p[2]
  BY <1>0
<1>2. Half(p, range) = <<p[1], mid>> \/ Half(p, range) = <<mid, p[2]>>
  BY DEF Half
<1> HIDE DEF mid
<1>3. <<p[1], mid>> \in Brackets /\ <<mid, p[2]>> \in Brackets
  BY <1>0, <1>1 DEF Brackets
<1>4. /\ Half(p, range) \in {<<p[1], mid>>, <<mid, p[2]>>} /\ Half(p, range) \in Brackets
      /\ Half(p, range)[1] < Half(p, range)[2]
      /\ Half(p, range)[2] - Half(p, range)[1] < p[2] - p[1]
  BY <1>0, <1>1, <1>2, <1>3
<1> QED  BY <1>1, <1>4 DEF mid

\* A set of numbers with zero and the successor of each of its members has them all.
LEMMA AllNumbers ==
  ASSUME NEW S, 0 \in S, \A n \in Nat : n \in S => n + 1 \in S
  PROVE  Nat \subseteq S
<1> DEFINE rest == Nat \ S
<1>1. SUFFICES ASSUME rest # {}  PROVE FALSE
  OBVIOUS
<1>2. rest \subseteq Nat
  OBVIOUS
<1>3. Min(rest) \in rest /\ \A y \in rest : Min(rest) <= y
  <2> HIDE DEF rest
  <2> QED  BY <1>1, <1>2, MinIsLeast
<1>4. Min(rest) \in Nat /\ Min(rest) # 0 /\ Min(rest) \notin S
  BY <1>3
<1>5. Min(rest) - 1 \in Nat
  BY <1>4
<1>6. Min(rest) - 1 \notin rest
  BY <1>3, <1>5
<1>7. Min(rest) - 1 \in S
  BY <1>5, <1>6
<1>8. (Min(rest) - 1) + 1 = Min(rest)
  BY <1>4
<1> QED  BY <1>4, <1>5, <1>7, <1>8

\* There is a function that bisects, found bracket by bracket as they widen.
LEMMA BisectionExists ==
  ASSUME NEW range
  PROVE  Bisection(range) = Bisected(range, Bisection(range))
<1> DEFINE Upto(g, k) == \A p \in Brackets : p[2] - p[1] <= k => g[p] = Bisected(range, g)[p]
           S == {k \in Nat : \E g : Upto(g, k)}
<1>a. \A g : \A p \in Brackets : Bisected(range, g)[p] = IF p[2] <= p[1] + 1 THEN Closer(p[1], p[2], range)
        ELSE Closer((p[1] + p[2]) \div 2, g[Half(p, range)], range)
  BY DEF Bisected
<1>b. \A p \in Brackets : p[1] \in Int /\ p[2] \in Int /\ p[2] - p[1] <= Top
  BY CalibrationAssumption DEF Brackets
<1>1. 0 \in S
  <2> DEFINE g == [p \in Brackets |-> Closer(p[1], p[2], range)]
  <2>1. ASSUME NEW p \in Brackets, p[2] - p[1] <= 0  PROVE g[p] = Bisected(range, g)[p]
    BY <1>a, <1>b, <2>1
  <2>2. Upto(g, 0)
    BY <2>1
  <2> QED  BY <2>2
<1>2. ASSUME NEW k \in Nat, k \in S  PROVE k + 1 \in S
  <2>1. PICK g : Upto(g, k)
    BY <1>2
  <2> DEFINE h == Bisected(range, g)
  <2>2. ASSUME NEW p \in Brackets, p[2] - p[1] <= k + 1  PROVE h[p] = Bisected(range, h)[p]
    <3>1. CASE p[2] <= p[1] + 1
      BY <1>a, <3>1
    <3>2. CASE ~ (p[2] <= p[1] + 1)
      <4>1. p[1] + 1 < p[2]
        BY <1>b, <3>2
      <4>2. Half(p, range) \in Brackets /\ Half(p, range)[2] - Half(p, range)[1] < p[2] - p[1]
        BY <4>1, HalfIsNarrower
      <4>3. Half(p, range)[2] - Half(p, range)[1] <= k
        BY <1>b, <2>2, <4>2
      <4>4. g[Half(p, range)] = h[Half(p, range)]
        BY <2>1, <4>2, <4>3
      <4> QED  BY <1>a, <3>2, <4>4
    <3> QED  BY <3>1, <3>2
  <2>3. Upto(h, k + 1)
    <3> HIDE DEF h
    <3> QED  BY <2>2
  <2> QED  BY <2>3
<1>3. Top \in S
  <2> HIDE DEF S
  <2> QED  BY <1>1, <1>2, AllNumbers, CalibrationAssumption
<1>4. PICK g : Upto(g, Top)
  BY <1>3
<1>5. \A p \in Brackets : g[p] = Bisected(range, g)[p]
  BY <1>4, <1>b
<1> DEFINE h == Bisected(range, g)
<1>6. h = Bisected(range, h)
  <2>1. ASSUME NEW p \in Brackets  PROVE h[p] = Bisected(range, h)[p]
    <3>1. CASE p[2] <= p[1] + 1
      BY <1>a, <3>1
    <3>2. CASE ~ (p[2] <= p[1] + 1)
      <4>1. p[1] + 1 < p[2]
        BY <1>b, <3>2
      <4>2. Half(p, range) \in Brackets
        BY <4>1, HalfIsNarrower
      <4> QED  BY <1>a, <1>5, <3>2, <4>2
    <3> QED  BY <3>1, <3>2
  <2>2. \A r, f : Bisected(r, f) = [p \in Brackets |-> Bisected(r, f)[p]]
    BY DEF Bisected
  <2>3. h = [p \in Brackets |-> h[p]] /\ Bisected(range, h) = [p \in Brackets |-> Bisected(range, h)[p]]
    BY <2>2
  <2> HIDE DEF h
  <2> QED  BY <2>1, <2>3
<1> HIDE DEF h
<1> QED  BY <1>6 DEF Bisection

\* What is found between two elevations: the nearer, or the middle if it is as near
\* as what is found in the half the range lies in.
LEMMA BisectionStep ==
  ASSUME NEW range, NEW lo \in 0..Top, NEW hi \in 0..Top, lo < hi
  PROVE  LET mid == (lo + hi) \div 2
             found == Bisection(range)
         IN  /\ hi <= lo + 1 => found[<<lo, hi>>] = Closer(lo, hi, range)
             /\ hi > lo + 1 =>
                   /\ mid \in 0..Top /\ lo < mid /\ mid < hi
                   /\ reach[mid] > range => found[<<lo, hi>>] = Closer(mid, found[<<lo, mid>>], range)
                   /\ ~ (reach[mid] > range) => found[<<lo, hi>>] = Closer(mid, found[<<mid, hi>>], range)
<1> DEFINE p == <<lo, hi>>
           mid == (lo + hi) \div 2
<1>1. p \in Brackets /\ p[1] = lo /\ p[2] = hi
  BY DEF Brackets
<1>2. Bisection(range)[p] = Bisected(range, Bisection(range))[p]
  BY BisectionExists
<1>3. Bisection(range)[p] = IF p[2] <= p[1] + 1 THEN Closer(p[1], p[2], range)
        ELSE Closer((p[1] + p[2]) \div 2, Bisection(range)[Half(p, range)], range)
  BY <1>1, <1>2 DEF Bisected
<1>4. hi > lo + 1 => mid \in 0..Top /\ lo < mid /\ mid < hi
  BY CalibrationAssumption
<1>5. Half(p, range) = IF reach[mid] > range THEN <<lo, mid>> ELSE <<mid, hi>>
  BY DEF Half
<1>6. hi > lo + 1 <=> ~ (hi <= lo + 1)
  BY CalibrationAssumption
<1> HIDE DEF mid
<1>7. hi > lo + 1 => Bisection(range)[p] = Closer(mid, Bisection(range)[Half(p, range)], range)
  BY <1>1, <1>3, <1>6 DEF mid
<1>8. hi <= lo + 1 => Bisection(range)[p] = Closer(lo, hi, range)
  BY <1>1, <1>3
<1> QED  BY <1>4, <1>5, <1>7, <1>8 DEF mid

\* What Miss() and Closer() are for two elevations.
LEMMA CloserIs ==
  ASSUME reach \in [0..Top -> Nat], NEW a \in 0..Top, NEW b \in 0..Top, NEW range \in Nat
  PROVE  /\ Miss(a, range) \in Nat /\ Closer(a, b, range) \in {a, b}
         /\ Miss(Closer(a, b, range), range) <= Miss(a, range)
         /\ Miss(Closer(a, b, range), range) <= Miss(b, range)
<1>1. reach[a] \in Nat /\ reach[b] \in Nat
  OBVIOUS
<1>2. Miss(a, range) \in Nat /\ Miss(b, range) \in Nat
  BY <1>1 DEF Miss
<1> QED  BY <1>2 DEF Closer

\* The range grows with the elevation up to the farthest shot and falls after it.
LEMMA FarthestIsPeak ==
  ASSUME reach \in [0..Top -> Nat], OnePeak(reach)
  PROVE  /\ Farthest \in 0..Top
         /\ \A a, b \in 0..Top : a <= b => /\ b <= Farthest => reach[a] <= reach[b]
                                           /\ Farthest <= a => reach[b] <= reach[a]
<1>1. PICK peak \in 0..Top : \A a, b \in 0..Top :
          a <= b => (b <= peak => reach[a] <= reach[b]) /\ (peak <= a => reach[b] <= reach[a])
  BY DEF OnePeak
<1>2. \A a \in 0..Top : reach[a] \in Nat
  OBVIOUS
<1>3. \A b \in 0..Top : reach[b] <= reach[peak]
  <2> SUFFICES ASSUME NEW b \in 0..Top  PROVE reach[b] <= reach[peak]
    OBVIOUS
  <2>1. b <= peak \/ peak <= b
    BY CalibrationAssumption
  <2>2. peak <= peak
    BY CalibrationAssumption
  <2> QED  BY <1>1, <2>1, <2>2
<1>4. Farthest \in 0..Top /\ \A b \in 0..Top : reach[b] <= reach[Farthest]
  BY <1>3 DEF Farthest
<1>5. ASSUME NEW a \in 0..Top, NEW b \in 0..Top, a <= b
      PROVE  /\ b <= Farthest => reach[a] <= reach[b]
             /\ Farthest <= a => reach[b] <= reach[a]
  <2>1. CASE b <= peak
    <3>1. reach[a] <= reach[b]
      BY <1>1, <1>5, <2>1
    <3>2. Farthest <= a => Farthest <= a /\ a <= peak /\ Farthest \in 0..Top
      BY <1>4, <1>5, <2>1, CalibrationAssumption
    <3>3. Farthest <= a => reach[Farthest] <= reach[a]
      BY <1>1, <1>4, <3>2
    <3> QED  BY <1>2, <1>4, <3>1, <3>3
  <2>2. CASE peak <= a
    <3>1. reach[b] <= reach[a]
      BY <1>1, <1>5, <2>2
    <3>2. b <= Farthest => peak <= b
      BY <1>4, <1>5, <2>2, CalibrationAssumption
    <3>3. b <= Farthest => reach[Farthest] <= reach[b]
      BY <1>1, <1>4, <3>2
    <3> QED  BY <1>2, <1>4, <3>1, <3>3
  <2>3. CASE a <= peak /\ peak <= b
    <3>1. b <= Farthest => reach[Farthest] <= reach[b]
      BY <1>1, <1>4, <2>3
    <3>2. Farthest <= a => reach[Farthest] <= reach[a]
      BY <1>1, <1>4, <2>3
    <3> QED  BY <1>2, <1>4, <3>1, <3>2
  <2> QED  BY <1>5, <2>1, <2>2, <2>3, CalibrationAssumption
<1> QED  BY <1>4, <1>5

\* Between two elevations the bisection finds the nearest of those below the farthest
\* shot's, for a range that is reached at 45 degrees.
NearestBetween(lo, hi, range) ==
    LET found == Bisection(range)[<<lo, hi>>]
    IN  /\ found \in lo..hi
        /\ \A a \in lo..hi : a <= Farthest => Miss(found, range) <= Miss(a, range)

LEMMA BisectionFindsNearest ==
  ASSUME reach \in [0..Top -> Nat], OnePeak(reach), NEW range \in Nat, range <= reach[Top]
  PROVE  \A lo, hi \in 0..Top : lo < hi => NearestBetween(lo, hi, range)
<1> DEFINE S == {k \in Nat : \A lo, hi \in 0..Top : lo < hi /\ hi - lo <= k => NearestBetween(lo, hi, range)}
<1>0. \A a \in 0..Top : reach[a] \in Nat /\ Miss(a, range) \in Nat
  BY CloserIs
<1>1. 0 \in S
  BY CalibrationAssumption
<1>2. ASSUME NEW k \in Nat, k \in S  PROVE k + 1 \in S
  <2> SUFFICES ASSUME NEW lo \in 0..Top, NEW hi \in 0..Top, lo < hi, hi - lo <= k + 1
               PROVE  NearestBetween(lo, hi, range)
    OBVIOUS
  <2> DEFINE found == Bisection(range)[<<lo, hi>>]
             mid == (lo + hi) \div 2
  <2>1. CASE hi <= lo + 1
    <3>1. found = Closer(lo, hi, range)
      BY <2>1, BisectionStep
    <3>2. \A a \in lo..hi : a = lo \/ a = hi
      BY <2>1, CalibrationAssumption
    <3>3. found \in {lo, hi} /\ Miss(found, range) <= Miss(lo, range) /\ Miss(found, range) <= Miss(hi, range)
      BY <3>1, CloserIs
    <3> HIDE DEF found
    <3>4. found \in lo..hi
      BY <3>3, CalibrationAssumption
    <3>5. \A a \in lo..hi : Miss(found, range) <= Miss(a, range)
      BY <3>2, <3>3
    <3> QED  BY <3>4, <3>5 DEF NearestBetween, found
  <2>2. CASE hi > lo + 1
    <3>1. mid \in 0..Top /\ lo < mid /\ mid < hi
      BY <2>2, BisectionStep
    <3>2. CASE reach[mid] > range
      <4> DEFINE rest == Bisection(range)[<<lo, mid>>]
      <4>1. found = Closer(mid, rest, range)
        BY <2>2, <3>2, BisectionStep
      <4>2. NearestBetween(lo, mid, range)
        <5> HIDE DEF mid
        <5>1. mid - lo <= k
          BY <3>1, CalibrationAssumption
        <5> QED  BY <1>2, <3>1, <5>1
      <4>7. /\ rest \in lo..mid
            /\ \A a \in lo..mid : a <= Farthest => Miss(rest, range) <= Miss(a, range)
        BY <4>2 DEF NearestBetween
      <4> HIDE DEF mid, rest, found
      <4>3. rest \in lo..mid /\ rest \in 0..Top
        BY <3>1, <4>7, CalibrationAssumption
      <4>4. /\ found \in {mid, rest} /\ Miss(found, range) \in Nat
            /\ Miss(found, range) <= Miss(mid, range) /\ Miss(found, range) <= Miss(rest, range)
        BY <1>0, <3>1, <4>1, <4>3, CloserIs
      <4>5. ASSUME NEW a \in lo..hi, a <= Farthest  PROVE Miss(found, range) <= Miss(a, range)
        <5>1. a \in 0..Top
          BY CalibrationAssumption
        <5>2. CASE a <= mid
          <6>1. Miss(rest, range) <= Miss(a, range)
            BY <3>1, <4>5, <4>7, <5>1, <5>2, CalibrationAssumption
          <6> QED  BY <1>0, <4>3, <4>4, <5>1, <6>1
        <5>3. CASE mid <= a
          <6>1. reach[mid] <= reach[a]
            BY <3>1, <4>5, <5>1, <5>3, FarthestIsPeak
          <6>2. Miss(mid, range) <= Miss(a, range)
            BY <1>0, <3>1, <3>2, <5>1, <6>1 DEF Miss
          <6> QED  BY <1>0, <3>1, <4>4, <5>1, <6>2
        <5> QED  BY <3>1, <5>1, <5>2, <5>3, CalibrationAssumption
      <4>6. found \in lo..hi
        BY <3>1, <4>3, <4>4, CalibrationAssumption
      <4> QED  BY <4>5, <4>6 DEF NearestBetween, found
    <3>3. CASE ~ (reach[mid] > range)
      <4> DEFINE rest == Bisection(range)[<<mid, hi>>]
      <4>1. found = Closer(mid, rest, range)
        BY <2>2, <3>3, BisectionStep
      <4>2. NearestBetween(mid, hi, range)
        <5> HIDE DEF mid
        <5>1. hi - mid <= k
          BY <3>1, CalibrationAssumption
        <5> QED  BY <1>2, <3>1, <5>1
      <4>7. /\ rest \in mid..hi
            /\ \A a \in mid..hi : a <= Farthest => Miss(rest, range) <= Miss(a, range)
        BY <4>2 DEF NearestBetween
      <4> HIDE DEF mid, rest, found
      <4>3. rest \in mid..hi /\ rest \in 0..Top
        BY <3>1, <4>7, CalibrationAssumption
      <4>4. /\ found \in {mid, rest} /\ Miss(found, range) \in Nat
            /\ Miss(found, range) <= Miss(mid, range) /\ Miss(found, range) <= Miss(rest, range)
        BY <1>0, <3>1, <4>1, <4>3, CloserIs
      <4>5. ASSUME NEW a \in lo..hi, a <= Farthest  PROVE Miss(found, range) <= Miss(a, range)
        <5>1. a \in 0..Top
          BY CalibrationAssumption
        <5>2. CASE mid <= a
          <6>1. Miss(rest, range) <= Miss(a, range)
            BY <3>1, <4>5, <4>7, <5>1, <5>2, CalibrationAssumption
          <6> QED  BY <1>0, <4>3, <4>4, <5>1, <6>1
        <5>3. CASE a <= mid /\ mid <= Farthest
          <6>1. reach[a] <= reach[mid]
            BY <3>1, <5>1, <5>3, FarthestIsPeak
          <6>2. Miss(mid, range) <= Miss(a, range)
            BY <1>0, <3>1, <3>3, <5>1, <6>1 DEF Miss
          <6> QED  BY <1>0, <3>1, <4>4, <5>1, <6>2
        <5>4. CASE Farthest <= mid
          <6>1. reach[Top] <= reach[mid]
            BY <3>1, <5>4, FarthestIsPeak, CalibrationAssumption
          <6>2. Miss(mid, range) = 0
            BY <1>0, <3>1, <3>3, <6>1, CalibrationAssumption DEF Miss
          <6> QED  BY <1>0, <3>1, <4>4, <5>1, <6>2
        <5>5. mid <= a \/ (a <= mid /\ mid <= Farthest) \/ Farthest <= mid
          BY <3>1, <5>1, FarthestIsPeak, CalibrationAssumption
        <5> QED  BY <5>2, <5>3, <5>4, <5>5
      <4>6. found \in lo..hi
        BY <3>1, <4>3, <4>4, CalibrationAssumption
      <4> QED  BY <4>5, <4>6 DEF NearestBetween, found
    <3> QED  BY <3>2, <3>3
  <2> QED  BY <2>1, <2>2, CalibrationAssumption
<1>3. Nat \subseteq S
  <2> HIDE DEF S
  <2> QED  BY <1>1, <1>2, AllNumbers
<1>4. ASSUME NEW lo \in 0..Top, NEW hi \in 0..Top, lo < hi  PROVE NearestBetween(lo, hi, range)
  <2>1. hi - lo \in Nat /\ hi - lo <= hi - lo
    BY <1>4, CalibrationAssumption
  <2>2. hi - lo \in S
    BY <1>3, <2>1
  <2> QED  BY <1>4, <2>1, <2>2
<1> QED  BY <1>4

\* How far a number is from another.
Off(x, r) == IF x > r THEN x - r ELSE r - x

\* What is nearer to a range on its side of it, is nearer to one farther on that side.
LEMMA FarNeedsHigher ==
  ASSUME NEW near \in Nat, NEW far \in Nat, near <= far, NEW x \in Nat, NEW y \in Nat
  PROVE  /\ x <= near /\ Off(y, near) < Off(x, near) => Off(y, far) < Off(x, far)
         /\ far < x /\ Off(y, far) < Off(x, far) => Off(y, near) < Off(x, near)
         /\ x <= y /\ Off(y, near) < Off(x, near) => Off(y, far) < Off(x, far)
         /\ far <= y /\ y <= x /\ Off(y, near) < Off(x, near) => Off(y, far) < Off(x, far)
BY DEF Off

\* A longer range has no lower elevation.
LEMMA ElevationsAreOrdered ==
  ASSUME reach \in [0..Top -> Nat], OnePeak(reach),
         NEW near \in Nat, NEW far \in Nat, near <= far, far <= reach[Top]
  PROVE  \A lo, hi \in 0..Top :
             lo < hi => Bisection(near)[<<lo, hi>>] <= Bisection(far)[<<lo, hi>>]
<1> DEFINE n(lo, hi) == Bisection(near)[<<lo, hi>>]
           f(lo, hi) == Bisection(far)[<<lo, hi>>]
           S == {k \in Nat : \A lo, hi \in 0..Top : lo < hi /\ hi - lo <= k => n(lo, hi) <= f(lo, hi)}
<1>0. \A a \in 0..Top : reach[a] \in Nat
  OBVIOUS
<1>a. \A lo, hi \in 0..Top :
          lo < hi => /\ n(lo, hi) \in lo..hi /\ n(lo, hi) \in 0..Top
                     /\ f(lo, hi) \in lo..hi /\ f(lo, hi) \in 0..Top
                     /\ \A a \in lo..hi : a <= Farthest => /\ Miss(n(lo, hi), near) <= Miss(a, near)
                                                           /\ Miss(f(lo, hi), far) <= Miss(a, far)
  <2> SUFFICES ASSUME NEW lo \in 0..Top, NEW hi \in 0..Top, lo < hi
               PROVE  /\ n(lo, hi) \in lo..hi /\ n(lo, hi) \in 0..Top
                      /\ f(lo, hi) \in lo..hi /\ f(lo, hi) \in 0..Top
                      /\ \A a \in lo..hi : a <= Farthest => /\ Miss(n(lo, hi), near) <= Miss(a, near)
                                                            /\ Miss(f(lo, hi), far) <= Miss(a, far)
    OBVIOUS
  <2>1. near <= reach[Top]
    BY <1>0, CalibrationAssumption
  <2>2. NearestBetween(lo, hi, near) /\ NearestBetween(lo, hi, far)
    BY <2>1, BisectionFindsNearest
  <2>3. \A x \in lo..hi : x \in 0..Top
    BY CalibrationAssumption
  <2> QED  BY <2>2, <2>3 DEF NearestBetween
<1>1. 0 \in S
  BY CalibrationAssumption
<1>2. ASSUME NEW k \in Nat, k \in S  PROVE k + 1 \in S
  <2> SUFFICES ASSUME NEW lo \in 0..Top, NEW hi \in 0..Top, lo < hi, hi - lo <= k + 1
               PROVE  n(lo, hi) <= f(lo, hi)
    OBVIOUS
  <2> DEFINE mid == (lo + hi) \div 2
             b == n(lo, hi)
             c == f(lo, hi)
  <2>0. \A x, y \in 0..Top : x < y /\ y - x <= k => n(x, y) <= f(x, y)
    BY <1>2
  <2>1. CASE hi <= lo + 1
    <3>1. b = Closer(lo, hi, near) /\ c = Closer(lo, hi, far)
      BY <2>1, BisectionStep
    <3>2. hi = lo + 1 /\ (lo >= Farthest \/ hi <= Farthest)
      BY <2>1, FarthestIsPeak, CalibrationAssumption
    <3>3. lo >= Farthest => reach[Top] <= reach[hi] /\ reach[hi] <= reach[lo]
      BY FarthestIsPeak, CalibrationAssumption
    <3>4. hi <= Farthest => reach[lo] <= reach[hi]
      BY FarthestIsPeak
    <3> HIDE DEF b, c, n, f
    <3>5. b = hi /\ c = lo => FALSE
      <4> SUFFICES ASSUME Closer(lo, hi, near) = hi, Closer(lo, hi, far) = lo  PROVE FALSE
        BY <3>1
      <4>1. Miss(hi, near) < Miss(lo, near) /\ Miss(lo, far) <= Miss(hi, far)
        <5>1. Miss(lo, near) \in Nat /\ Miss(hi, near) \in Nat /\ Miss(lo, far) \in Nat /\ Miss(hi, far) \in Nat
          BY CloserIs
        <5> QED  BY <3>2, <5>1, CalibrationAssumption DEF Closer
      <4>2. \/ reach[lo] <= reach[hi]
            \/ far <= reach[hi] /\ reach[hi] <= reach[lo]
        BY <1>0, <3>2, <3>3, <3>4, CalibrationAssumption
      <4>3. Off(reach[hi], near) < Off(reach[lo], near)
        BY <4>1 DEF Miss, Off
      <4>4. Off(reach[hi], far) < Off(reach[lo], far)
        BY <1>0, <4>2, <4>3, FarNeedsHigher
      <4>5. Miss(hi, far) < Miss(lo, far)
        BY <4>4 DEF Miss, Off
      <4>6. Miss(hi, far) \in Nat /\ Miss(lo, far) \in Nat
        BY CloserIs
      <4> QED  BY <4>1, <4>5, <4>6
    <3>6. b \in {lo, hi} /\ c \in {lo, hi}
      BY <3>1 DEF Closer
    <3> QED  BY <3>2, <3>5, <3>6, CalibrationAssumption DEF b, c
  <2>2. CASE hi > lo + 1
    <3>1. mid \in 0..Top /\ lo < mid /\ mid < hi
      BY <2>2, BisectionStep
    <3> DEFINE nl == n(lo, mid)
               nh == n(mid, hi)
               fl == f(lo, mid)
               fh == f(mid, hi)
    <3>2. /\ reach[mid] > near => b = Closer(mid, nl, near)
          /\ ~ (reach[mid] > near) => b = Closer(mid, nh, near)
          /\ reach[mid] > far => c = Closer(mid, fl, far)
          /\ ~ (reach[mid] > far) => c = Closer(mid, fh, far)
      BY <2>2, BisectionStep
    <3> HIDE DEF mid
    <3>3. mid - lo <= k /\ hi - mid <= k
      BY <3>1, CalibrationAssumption
    <3>4. nl <= fl /\ nh <= fh
      <4> HIDE DEF n, f
      <4> QED  BY <2>0, <3>1, <3>3
    <3>5. /\ nl \in lo..mid /\ nl \in 0..Top /\ fl \in lo..mid /\ fl \in 0..Top
          /\ nh \in mid..hi /\ nh \in 0..Top /\ fh \in mid..hi /\ fh \in 0..Top
      <4> HIDE DEF n, f
      <4> QED  BY <1>a, <3>1
    <3>6. /\ \A a \in lo..mid : a <= Farthest => Miss(nl, near) <= Miss(a, near)
          /\ \A a \in mid..hi : a <= Farthest => Miss(fh, far) <= Miss(a, far)
      <4> HIDE DEF n, f
      <4> QED  BY <1>a, <3>1
    <3> HIDE DEF n, f, nl, nh, fl, fh, b, c
    <3>7. CASE near < reach[mid] /\ reach[mid] <= far
      <4>1. b = Closer(mid, nl, near) /\ c = Closer(mid, fh, far)
        BY <1>0, <3>1, <3>2, <3>7
      <4>2. b \in {mid, nl} /\ c \in {mid, fh}
        BY <4>1 DEF Closer
      <4> QED  BY <3>1, <3>5, <4>2, CalibrationAssumption DEF b, c
    <3>8. CASE reach[mid] <= near
      <4>1. b = Closer(mid, nh, near) /\ c = Closer(mid, fh, far)
        BY <1>0, <3>1, <3>2, <3>8
      <4>2. Miss(fh, far) <= Miss(nh, far)
        <5>1. CASE nh <= Farthest
          BY <3>5, <3>6, <5>1
        <5>2. CASE Farthest <= nh
          <6>1. reach[Top] <= reach[fh] /\ reach[fh] <= reach[nh]
            BY <3>4, <3>5, <5>2, FarthestIsPeak, CalibrationAssumption
          <6> QED  BY <1>0, <3>5, <6>1, CalibrationAssumption DEF Miss
        <5> QED  BY <3>5, <5>1, <5>2, FarthestIsPeak, CalibrationAssumption
      <4>3. b = nh /\ c = mid => nh = mid
        <5> SUFFICES ASSUME Closer(mid, nh, near) = nh, Closer(mid, fh, far) = mid, nh # mid, fh # mid
                     PROVE  FALSE
          BY <3>4, <3>5, <4>1, CalibrationAssumption
        <5>1. Miss(nh, near) < Miss(mid, near) /\ Miss(mid, far) <= Miss(fh, far)
          <6>1. Miss(nh, near) \in Nat /\ Miss(mid, near) \in Nat /\ Miss(mid, far) \in Nat /\ Miss(fh, far) \in Nat
            BY <3>1, <3>5, CloserIs
          <6> QED  BY <6>1 DEF Closer
        <5>2. Off(reach[nh], far) < Off(reach[mid], far)
          BY <1>0, <3>1, <3>5, <3>8, <5>1, FarNeedsHigher DEF Miss, Off
        <5>3. Miss(nh, far) < Miss(mid, far)
          BY <5>2 DEF Miss, Off
        <5>4. Miss(nh, far) \in Nat /\ Miss(mid, far) \in Nat /\ Miss(fh, far) \in Nat
          BY <3>1, <3>5, CloserIs
        <5> QED  BY <4>2, <5>1, <5>3, <5>4
      <4>4. b \in {mid, nh} /\ c \in {mid, fh}
        BY <4>1 DEF Closer
      <4> QED  BY <3>1, <3>4, <3>5, <4>3, <4>4, CalibrationAssumption DEF b, c
    <3>9. CASE far < reach[mid]
      <4>1. b = Closer(mid, nl, near) /\ c = Closer(mid, fl, far)
        BY <1>0, <3>1, <3>2, <3>9
      <4>2. b = mid /\ c = fl => fl = mid
        <5> SUFFICES ASSUME Closer(mid, nl, near) = mid, Closer(mid, fl, far) = fl, fl # mid, nl # mid
                     PROVE  FALSE
          BY <3>4, <3>5, <4>1, CalibrationAssumption
        <5>1. Miss(mid, near) <= Miss(nl, near) /\ Miss(fl, far) < Miss(mid, far)
          <6>1. Miss(nl, near) \in Nat /\ Miss(mid, near) \in Nat /\ Miss(mid, far) \in Nat /\ Miss(fl, far) \in Nat
            BY <3>1, <3>5, CloserIs
          <6> QED  BY <6>1 DEF Closer
        <5>2. CASE fl <= Farthest
          <6>1. Miss(nl, near) <= Miss(fl, near)
            BY <3>5, <3>6, <5>2
          <6>2. Off(reach[fl], near) < Off(reach[mid], near)
            BY <1>0, <3>1, <3>5, <3>9, <5>1, FarNeedsHigher DEF Miss, Off
          <6>3. Miss(fl, near) < Miss(mid, near)
            BY <6>2 DEF Miss, Off
          <6>4. Miss(nl, near) \in Nat /\ Miss(mid, near) \in Nat /\ Miss(fl, near) \in Nat
            BY <3>1, <3>5, CloserIs
          <6> QED  BY <5>1, <6>1, <6>3, <6>4
        <5>3. CASE Farthest <= fl
          <6>1. reach[mid] <= reach[fl]
            BY <3>1, <3>5, <5>3, FarthestIsPeak, CalibrationAssumption
          <6> QED  BY <1>0, <3>1, <3>5, <3>9, <5>1, <6>1 DEF Miss
        <5> QED  BY <3>5, <5>2, <5>3, FarthestIsPeak, CalibrationAssumption
      <4>3. b \in {mid, nl} /\ c \in {mid, fl}
        BY <4>1 DEF Closer
      <4> QED  BY <3>1, <3>4, <3>5, <4>2, <4>3, CalibrationAssumption DEF b, c
    <3> QED  BY <1>0, <3>1, <3>7, <3>8, <3>9
  <2> QED  BY <2>1, <2>2, CalibrationAssumption
<1>3. Nat \subseteq S
  <2> HIDE DEF S
  <2> QED  BY <1>1, <1>2, AllNumbers
<1>4. ASSUME NEW lo \in 0..Top, NEW hi \in 0..Top, lo < hi  PROVE n(lo, hi) <= f(lo, hi)
  <2>1. hi - lo \in Nat /\ hi - lo <= hi - lo
    BY <1>4, CalibrationAssumption
  <2>2. hi - lo \in S
    BY <1>3, <2>1
  <2> QED  BY <1>4, <2>1, <2>2
<1> QED  BY <1>4

----------------------------------------------------------------------------------
(* The scales.                                                                    *)

\* What a step does to the calibrator.
LEMMA CalibrationSteps ==
  ASSUME [Next]_researchVars
  PROVE  UNCHANGED calibrationVars \/ Calibration(MaxSolved)
<1>1. CASE Engraving
  BY <1>1 DEF Engraving
<1>2. CASE Formation \/ Training \/ Session \/ Comparison \/ Choosing \/ Showing \/ Simulating
  BY <1>2 DEF Formation, Training, Session, Comparison, Choosing, Showing, Simulating, ObjectsRest
<1>3. CASE UNCHANGED researchVars
  BY <1>3 DEF researchVars
<1> QED  BY <1>1, <1>2, <1>3 DEF Next

\* The elevations of the same crossbow.
LEMMA SameElevation ==
  ASSUME reach' = reach
  PROVE  \A i : RequiredElevation(scales[i].range)' = RequiredElevation(scales'[i].range)
BY DEF RequiredElevation, Closer, Miss

\* The readings of the same scales.
LEMMA SameEstimate ==
  ASSUME scales' = scales, NEW a
  PROVE  Estimate(a)' = Estimate(a)
BY DEF Estimate

\* The scales a sight is made for.
LEMMA SightScales ==
  ASSUME NEW t \in 0..6
  PROVE  Known(t).scales \in Nat
<1>1. CASE t = 6
  BY <1>1 DEF Known, Sight
<1>2. CASE t \in 0..5
  <2>1. \A i \in 1..6 : Sights[i].scales \in Nat
    BY DEF Sights, Sight, BasicNotch, PinSight, RampSight, MultiPin, TangentSight, PeepSight
  <2> QED  BY <1>2, <2>1 DEF Known
<1> QED  BY <1>1, <1>2

\* A span that ends before it starts has one scale at most.
LEMMA SpanSteps ==
  ASSUME NEW s \in Spans, s.by > 0, StepsOf(s) >= 0
  PROVE  StepsOf(s) \in Nat /\ (s.to < s.from => StepsOf(s) <= 1)
<1>1. s.from \in Nat /\ s.to \in Nat /\ s.by \in Nat \ {0}
  BY CalibrationAssumption
<1>2. (s.from - s.to) \div s.by \in Int
  BY <1>1
<1>3. s.to < s.from => (s.from - s.to) \div s.by >= 0
  <2>1. s.to < s.from => s.from - s.to \in Nat
    BY <1>1
  <2> QED  BY <1>1, <2>1, Quotient
<1> QED  BY <1>2, <1>3 DEF StepsOf

\* The ranges that are spread over a span are natural numbers, and grow.
LEMMA RangesGrow ==
  ASSUME NEW s \in Spans, NEW steps \in Nat, s.from <= s.to \/ steps <= 1
  PROVE  /\ \A i \in 1..steps : Ranges(s, steps)[i] \in Nat
         /\ \A i \in 2..steps : Ranges(s, steps)[i - 1] <= Ranges(s, steps)[i]
<1> DEFINE w == Max({1, steps - 1})
           d == s.to - s.from
<1>1. s.from \in Nat /\ s.to \in Nat
  BY CalibrationAssumption
<1>2. SUFFICES ASSUME steps >= 1
               PROVE  /\ \A i \in 1..steps : Ranges(s, steps)[i] \in Nat
                      /\ \A i \in 2..steps : Ranges(s, steps)[i - 1] <= Ranges(s, steps)[i]
  OBVIOUS
<1>3. w \in Nat \ {0}
  <2> DEFINE S == {1, steps - 1}
  <2>1. S \subseteq Nat /\ S # {} /\ (\A y \in S : y <= steps) /\ 1 \in S
    BY <1>2
  <2> HIDE DEF S
  <2>2. Max(S) \in S /\ \A y \in S : y <= Max(S)
    BY <2>1, MaxIsGreatest
  <2>3. Max(S) \in Nat /\ 1 <= Max(S)
    BY <2>1, <2>2
  <2> QED  BY <2>3 DEF S
<1> HIDE DEF w
<1>4. \A i \in 1..steps : Ranges(s, steps)[i] = s.from + ((i - 1) * d) \div w
  BY DEF Ranges, w
<1>5. \A i \in 1..steps : (i - 1) * d \in Nat
  <2> SUFFICES ASSUME NEW i \in 1..steps  PROVE (i - 1) * d \in Nat
    OBVIOUS
  <2>1. CASE steps <= 1
    BY <1>1, <2>1
  <2>2. CASE s.from <= s.to
    <3>1. d \in Nat /\ i - 1 \in Nat
      BY <1>1, <2>2
    <3> HIDE DEF d
    <3>2. \A x, y \in Nat : x * y \in Nat
      OBVIOUS
    <3> QED  BY <3>1, <3>2
  <2> QED  BY <2>1, <2>2
<1>6. \A i \in 1..steps : ((i - 1) * d) \div w \in Nat
  <2> HIDE DEF d
  <2> QED  BY <1>3, <1>5, Quotient
<1>7. \A i \in 1..steps : Ranges(s, steps)[i] \in Nat
  BY <1>1, <1>4, <1>6
<1>8. ASSUME NEW i \in 2..steps  PROVE Ranges(s, steps)[i - 1] <= Ranges(s, steps)[i]
  <2>1. i \in 1..steps /\ i - 1 \in 1..steps /\ i - 2 \in Nat
    OBVIOUS
  <2>2. d \in Nat
    BY <1>1, <2>1
  <2> HIDE DEF d
  <2>3. (i - 2) * d <= (i - 1) * d
    <3>1. (i - 1) * d = (i - 2) * d + d
      BY <2>1, <2>2
    <3>2. (i - 2) * d \in Int
      BY <2>1, <2>2
    <3> QED  BY <2>2, <3>1, <3>2
  <2>4. (i - 2) * d \in Nat /\ (i - 1) * d \in Nat
    <3>1. (i - 1) - 1 = i - 2
      BY <2>1
    <3> QED  BY <1>5, <2>1, <3>1
  <2>5. ((i - 2) * d) \div w <= ((i - 1) * d) \div w
    BY <1>3, <2>3, <2>4, QuotientIsMonotonic
  <2>6. Ranges(s, steps)[i - 1] = s.from + ((i - 2) * d) \div w
    <3>1. (i - 1) - 1 = i - 2
      BY <2>1
    <3> QED  BY <1>4, <2>1, <3>1
  <2>7. ((i - 2) * d) \div w \in Nat /\ ((i - 1) * d) \div w \in Nat
    BY <1>3, <2>4, Quotient
  <2> QED  BY <1>1, <1>4, <2>1, <2>5, <2>6, <2>7
<1> QED  BY <1>7, <1>8

\* The scales are those of the bisection for ranges that grow, and the reading is one
\* taken from them.
Engraved == [range : Nat, angle : 0..Top, height : Int]
CalibrationInv ==
    /\ reach \in Reaches
    /\ \E t \in 0..6 : sight = Known(t)
    /\ scales \in Seq(Engraved)
    /\ \A i \in 1..Len(scales) : scales[i].angle = RequiredElevation(scales[i].range)
    /\ \A i \in 2..Len(scales) : scales[i - 1].range <= scales[i].range
    /\ \/ reading = NoReading
       \/ \E a \in 0..Top : reading = [angle |-> a, range |-> Estimate(a)]

\* The elevation found is one of those between which it is looked for.
LEMMA ElevationType ==
  ASSUME NEW range
  PROVE  RequiredElevation(range) \in 0..Top
<1> DEFINE S == {k \in Nat : \A lo, hi \in 0..Top :
                     lo < hi /\ hi - lo <= k => Bisection(range)[<<lo, hi>>] \in 0..Top}
<1>1. 0 \in S
  BY CalibrationAssumption
<1>2. ASSUME NEW k \in Nat, k \in S  PROVE k + 1 \in S
  <2> SUFFICES ASSUME NEW lo \in 0..Top, NEW hi \in 0..Top, lo < hi, hi - lo <= k + 1
               PROVE  Bisection(range)[<<lo, hi>>] \in 0..Top
    OBVIOUS
  <2> DEFINE mid == (lo + hi) \div 2
  <2>1. CASE hi <= lo + 1
    <3>1. Bisection(range)[<<lo, hi>>] = Closer(lo, hi, range)
      BY <2>1, BisectionStep
    <3> QED  BY <3>1 DEF Closer
  <2>2. CASE hi > lo + 1
    <3>1. mid \in 0..Top /\ lo < mid /\ mid < hi
      BY <2>2, BisectionStep
    <3>2. \/ Bisection(range)[<<lo, hi>>] = Closer(mid, Bisection(range)[<<lo, mid>>], range)
          \/ Bisection(range)[<<lo, hi>>] = Closer(mid, Bisection(range)[<<mid, hi>>], range)
      BY <2>2, BisectionStep
    <3> HIDE DEF mid
    <3>3. mid - lo <= k /\ hi - mid <= k
      BY <3>1, CalibrationAssumption
    <3>4. Bisection(range)[<<lo, mid>>] \in 0..Top /\ Bisection(range)[<<mid, hi>>] \in 0..Top
      BY <1>2, <3>1, <3>3
    <3> QED  BY <3>1, <3>2, <3>4 DEF Closer
  <2> QED  BY <2>1, <2>2, CalibrationAssumption
<1>3. Top \in S
  <2> HIDE DEF S
  <2> QED  BY <1>1, <1>2, AllNumbers, CalibrationAssumption
<1>4. 0 \in 0..Top /\ Top \in 0..Top /\ 0 < Top /\ Top - 0 <= Top
  BY CalibrationAssumption
<1> QED  BY <1>3, <1>4, ElevationIsBisection

\* Every call keeps the invariant: a new crossbow or sight has no scales yet.
LEMMA CalibrationKeepsInv ==
  ASSUME CalibrationInv, Calibration(MaxSolved)
  PROVE  CalibrationInv'
<1>1. ASSUME NEW r \in Reaches, SetCrossbow(r)  PROVE CalibrationInv'
  BY <1>1 DEF SetCrossbow, CalibrationInv
<1>2. ASSUME NEW t \in 0..6, SetSightDesign(t)  PROVE CalibrationInv'
  BY <1>2 DEF SetSightDesign, CalibrationInv
<1>3. ASSUME NEW s \in Spans, CalibrateScales(s)  PROVE CalibrationInv'
  <2>0. /\ reach' = reach /\ reach' \in Reaches /\ sight' = sight /\ reading' = NoReading
        /\ \E t \in 0..6 : sight' = Known(t)
    BY <1>3 DEF CalibrateScales, CalibrationInv
  <2>1. CASE scales' = <<>>
    <3>1. \A i \in 1..Len(scales') : FALSE
      BY <2>1
    <3>2. \A i \in 2..Len(scales') : FALSE
      BY <2>1
    <3>3. scales' \in Seq(Engraved)
      BY <2>1
    <3> QED  BY <2>0, <3>1, <3>2, <3>3 DEF CalibrationInv
  <2>2. CASE ~ (s.by <= 0 \/ StepsOf(s) < 0)
    <3> DEFINE steps == Min({StepsOf(s), sight.scales})
    <3>1. s.by > 0 /\ StepsOf(s) >= 0 /\ s.from \in Nat /\ s.to \in Nat
      BY <2>2, CalibrationAssumption DEF StepsOf
    <3>2. StepsOf(s) \in Nat /\ (s.to < s.from => StepsOf(s) <= 1)
      BY <3>1, SpanSteps
    <3>3. sight.scales \in Nat
      BY SightScales DEF CalibrationInv
    <3>4. steps \in Nat /\ steps <= StepsOf(s)
      <4> DEFINE S == {StepsOf(s), sight.scales}
      <4>1. S \subseteq Nat /\ S # {} /\ StepsOf(s) \in S
        BY <3>2, <3>3
      <4> HIDE DEF S
      <4>2. Min(S) \in S /\ Min(S) <= StepsOf(s)
        BY <4>1, MinIsLeast
      <4> QED  BY <4>1, <4>2 DEF S
    <3>5. PICK slip \in Slips :
             scales' = [i \in 1..steps |-> Scale(Ranges(s, steps)[i], IF i = 1 THEN 0 ELSE slip)]
      BY <1>3, <2>2 DEF CalibrateScales
    <3> HIDE DEF steps
    <3>6. s.from <= s.to \/ steps <= 1
      BY <3>1, <3>2, <3>4
    <3>7. /\ \A i \in 1..steps : Ranges(s, steps)[i] \in Nat
          /\ \A i \in 2..steps : Ranges(s, steps)[i - 1] <= Ranges(s, steps)[i]
      BY <3>4, <3>6, RangesGrow
    <3>8. \A i \in 1..steps : /\ Scale(Ranges(s, steps)[i], IF i = 1 THEN 0 ELSE slip) \in Engraved
                              /\ scales'[i].range = Ranges(s, steps)[i]
                              /\ scales'[i].angle = RequiredElevation(scales'[i].range)
      <4> SUFFICES ASSUME NEW i \in 1..steps
                   PROVE  /\ Scale(Ranges(s, steps)[i], IF i = 1 THEN 0 ELSE slip) \in Engraved
                          /\ scales'[i].range = Ranges(s, steps)[i]
                          /\ scales'[i].angle = RequiredElevation(scales'[i].range)
        OBVIOUS
      <4> DEFINE r == Ranges(s, steps)[i]
                 l == IF i = 1 THEN 0 ELSE slip
      <4>1. r \in Nat /\ l \in Int
        BY <3>7, CalibrationAssumption
      <4>2. scales'[i] = Scale(r, l)
        BY <3>5
      <4> HIDE DEF r, l
      <4>3. Scale(r, l) = [range |-> r, angle |-> RequiredElevation(r), height |-> RequiredElevation(r) + l]
        BY DEF Scale
      <4>4. RequiredElevation(r) \in 0..Top /\ RequiredElevation(r) + l \in Int
        BY <4>1, ElevationType, CalibrationAssumption
      <4> QED  BY <4>1, <4>2, <4>3, <4>4 DEF Engraved, r, l
    <3>9. scales' \in Seq(Engraved) /\ Len(scales') = steps
      <4>1. scales' \in [1..steps -> Engraved]
        BY <3>5, <3>8
      <4> QED  BY <3>4, <4>1
    <3>10. \A i \in 1..Len(scales') : scales'[i].angle = RequiredElevation(scales[i].range)'
      BY <2>0, <3>8, <3>9, SameElevation
    <3>11. \A i \in 2..Len(scales') : scales'[i - 1].range <= scales'[i].range
      <4> SUFFICES ASSUME NEW i \in 2..steps  PROVE scales'[i - 1].range <= scales'[i].range
        BY <3>9
      <4>1. i \in 1..steps /\ i - 1 \in 1..steps
        BY <3>4
      <4> QED  BY <3>7, <3>8, <4>1
    <3> QED  BY <2>0, <3>9, <3>10, <3>11 DEF CalibrationInv
  <2> QED  BY <1>3, <2>1, <2>2 DEF CalibrateScales
<1>4. ASSUME UNCHANGED <<reach, sight, scales>>,
             reading' = reading \/ \E a \in 0..Top : reading' = [angle |-> a, range |-> Estimate(a)]
      PROVE  CalibrationInv'
  <2>1. \A i : RequiredElevation(scales[i].range)' = RequiredElevation(scales'[i].range)
    BY <1>4, SameElevation
  <2>2. \A a : Estimate(a)' = Estimate(a)
    BY <1>4, SameEstimate
  <2>3. reading' = NoReading \/ \E a \in 0..Top : reading' = [angle |-> a, range |-> Estimate(a)']
    BY <1>4, <2>2 DEF CalibrationInv
  <2>4. \A i \in 1..Len(scales') : scales'[i].angle = RequiredElevation(scales[i].range)'
    BY <1>4, <2>1 DEF CalibrationInv
  <2> QED  BY <1>4, <2>3, <2>4 DEF CalibrationInv
<1>5. ASSUME NEW s \in Spans, BallisticTable(s)  PROVE CalibrationInv'
  BY <1>4, <1>5 DEF BallisticTable
<1>6. ASSUME NEW a \in 0..Top, EstimateRange(a)  PROVE CalibrationInv'
  BY <1>4, <1>6 DEF EstimateRange
<1> QED  BY <1>1, <1>2, <1>3, <1>5, <1>6 DEF Calibration

\* What lies in a part of a growing stretch, lies in the stretch.
LEMMA Between ==
  ASSUME NEW x \in Nat, NEW w \in Nat \ {0}, x <= w, NEW d \in Nat
  PROVE  (x * d) \div w \in Nat /\ (x * d) \div w <= d
<1> DEFINE n == x * d
           q == n \div w
<1>1. n \in Nat /\ n <= w * d
  <2>1. PICK e \in Nat : w = x + e
    BY SMT
  <2>2. w * d = x * d + e * d /\ e * d \in Nat /\ x * d \in Nat
    BY <2>1
  <2> QED  BY <2>2
<1> HIDE DEF n
<1>2. q \in Nat /\ w * q <= n
  BY <1>1, Quotient
<1> HIDE DEF q
<1>3. SUFFICES ASSUME q >= d + 1  PROVE FALSE
  BY <1>1, <1>2 DEF q, n
<1>4. PICK e \in Nat : q = d + 1 + e
  BY <1>2, <1>3
<1>5. w * q = w * d + w + w * e /\ w * e \in Nat /\ w * d \in Nat
  BY <1>4
<1> QED  BY <1>1, <1>2, <1>5

\* The differences in an interpolation.
LEMMA Gaps ==
  ASSUME NEW a \in Nat, NEW b \in Nat, NEW c \in Nat, NEW r \in Nat, NEW s \in Nat,
         a <= b, b <= c, b # a, r <= s
  PROVE  /\ b - a \in Nat /\ c - a \in Nat \ {0} /\ b - a <= c - a /\ c > a
         /\ s - r \in Nat /\ (b - a) * (s - r) \in Int
<1>1. b - a \in Nat /\ c - a \in Nat \ {0} /\ b - a <= c - a /\ c > a /\ s - r \in Nat
  OBVIOUS
<1>2. \A x, y \in Nat : x * y \in Int
  OBVIOUS
<1> QED  BY <1>1, <1>2

\* An angle between two scales gives a range between those of two scales around it.
LEMMA ReadingIsBetween ==
  ASSUME CalibrationInv, NEW a \in 0..Top, NEW i \in 2..Len(scales),
         \A j \in 2..i : scales[j - 1].angle <= scales[j].angle,
         scales[i - 1].angle <= a, a <= scales[i].angle
  PROVE  \E j \in 2..i :
             /\ scales[j - 1].angle <= a /\ a <= scales[j].angle
             /\ Min({scales[j - 1].range, scales[j].range}) <= Estimate(a)
             /\ Estimate(a) <= Max({scales[j - 1].range, scales[j].range})
<1> DEFINE n == Len(scales)
           around == {k \in 2..n : \/ scales[k - 1].angle <= a /\ a <= scales[k].angle
                                   \/ scales[k].angle <= a /\ a <= scales[k - 1].angle}
           j == Min(around)
           p == scales[j - 1]
           q == scales[j]
<1>1. n \in Nat /\ i \in around
  BY DEF CalibrationInv
<1>2. j \in around /\ j <= i
  <2>1. around \subseteq Nat /\ around # {}
    BY <1>1
  <2>2. j \in around /\ \A k \in around : j <= k
    <3> HIDE DEF around
    <3> QED  BY <2>1, MinIsLeast
  <2> QED  BY <1>1, <2>2
<1> HIDE DEF j
<1>3. /\ j \in 2..n /\ j \in 2..i /\ j - 1 \in 1..n /\ j \in 1..n
      /\ \/ p.angle <= a /\ a <= q.angle
         \/ q.angle <= a /\ a <= p.angle
  BY <1>1, <1>2
<1>4. Estimate(a) = IF a = p.angle THEN p.range
                    ELSE IF q.angle > p.angle
                         THEN p.range + ((a - p.angle) * (q.range - p.range)) \div (q.angle - p.angle)
                         ELSE FarOff
  <2>1. ~ (n < 2) /\ around # {}
    BY <1>1
  <2> QED  BY <2>1 DEF Estimate, j
<1> HIDE DEF around
<1>5. p.range <= q.range /\ p.angle <= q.angle
  BY <1>3 DEF CalibrationInv
<1>6. p \in Engraved /\ q \in Engraved
  BY <1>1, <1>3 DEF CalibrationInv
<1> HIDE DEF p, q
<1>7. p.range \in Nat /\ q.range \in Nat /\ p.angle \in Nat /\ q.angle \in Nat /\ a \in Nat
  <2>1. p.angle \in 0..Top /\ q.angle \in 0..Top /\ p.range \in Nat /\ q.range \in Nat
    BY <1>6 DEF Engraved
  <2> QED  BY <2>1, CalibrationAssumption
<1>8. p.angle <= a /\ a <= q.angle
  BY <1>3, <1>5, <1>7, CalibrationAssumption
<1>9. p.range <= Estimate(a) /\ Estimate(a) <= q.range
  <2>1. CASE a = p.angle
    BY <1>4, <1>5, <1>7, <2>1
  <2>2. CASE a # p.angle
    <3> DEFINE x == a - p.angle
               w == q.angle - p.angle
               d == q.range - p.range
    <3>1. x \in Nat /\ w \in Nat \ {0} /\ x <= w /\ d \in Nat /\ q.angle > p.angle
      BY <1>5, <1>7, <1>8, <2>2, Gaps
    <3>2. Estimate(a) = p.range + (x * d) \div w
      BY <1>4, <2>2, <3>1
    <3> HIDE DEF x, w
    <3>3. (x * d) \div w \in Nat /\ (x * d) \div w <= d
      <4> HIDE DEF d
      <4> QED  BY <3>1, Between
    <3> QED  BY <1>7, <3>2, <3>3
  <2> QED  BY <2>1, <2>2
<1>10. Min({p.range, q.range}) <= p.range /\ q.range <= Max({p.range, q.range})
  <2> DEFINE S == {p.range, q.range}
  <2>1. S \subseteq Nat /\ S # {} /\ p.range \in S /\ q.range \in S /\ \A y \in S : y <= q.range
    BY <1>5, <1>7
  <2> HIDE DEF S
  <2>2. Min(S) <= p.range /\ q.range <= Max(S)
    BY <1>7, <2>1, MinIsLeast, MaxIsGreatest
  <2> QED  BY <2>2 DEF S
<1>11. /\ Min({p.range, q.range}) \in Int /\ Max({p.range, q.range}) \in Int /\ Estimate(a) \in Int
  <2> DEFINE S == {p.range, q.range}
  <2>1. S \subseteq Nat /\ S # {} /\ \A y \in S : y <= q.range
    BY <1>5, <1>7
  <2> HIDE DEF S
  <2>2. Min(S) \in Nat /\ Max(S) \in Nat
    BY <1>7, <2>1, MinIsLeast, MaxIsGreatest
  <2>3. Estimate(a) \in Int
    <3>1. CASE a = p.angle
      BY <1>4, <1>7, <3>1
    <3>2. CASE a # p.angle
      <4>1. q.angle > p.angle
        BY <1>5, <1>7, <1>8, <3>2, CalibrationAssumption
      <4> DEFINE x == (a - p.angle) * (q.range - p.range)
                 w == q.angle - p.angle
      <4>2. x \in Int /\ w \in Nat \ {0}
        BY <1>5, <1>7, <1>8, <3>2, Gaps
      <4>3. Estimate(a) = p.range + x \div w
        BY <1>4, <3>2, <4>1
      <4> HIDE DEF x, w
      <4>4. x \div w \in Int
        BY <4>2
      <4> QED  BY <1>7, <4>3, <4>4
    <3> QED  BY <3>1, <3>2
  <2> QED  BY <2>2, <2>3 DEF S
<1>12. Min({p.range, q.range}) <= Estimate(a) /\ Estimate(a) <= Max({p.range, q.range})
  <2> DEFINE lower == Min({p.range, q.range})
             upper == Max({p.range, q.range})
             e == Estimate(a)
  <2>1. lower \in Int /\ upper \in Int /\ e \in Int /\ lower <= p.range /\ p.range <= e
        /\ e <= q.range /\ q.range <= upper /\ p.range \in Int /\ q.range \in Int
    BY <1>7, <1>9, <1>10, <1>11
  <2> HIDE DEF lower, upper, e
  <2>2. lower <= e /\ e <= upper
    BY <2>1
  <2> QED  BY <2>2 DEF lower, upper, e
<1> QED  BY <1>3, <1>8, <1>12 DEF p, q

\* The bisection finds the nearest of the rising elevations, longer ranges lie higher,
\* and what is read between two scales lies between their ranges.
LEMMA CalibrationIsRight ==
  ASSUME CalibrationInv, OnePeak(reach)
  PROVE  ScalesReadBack
<1>0. reach \in [0..Top -> Nat]
  BY CalibrationAssumption DEF CalibrationInv
<1>1. Farthest \in 0..Top /\ 0 \in 0..Top /\ Top \in 0..Top /\ 0 < Top
  BY <1>0, FarthestIsPeak, CalibrationAssumption
<1>2. \A i \in 1..Len(scales) :
          /\ scales[i].range \in Nat /\ scales[i].angle \in 0..Top
          /\ scales[i].angle = Bisection(scales[i].range)[<<0, Top>>]
  <2> SUFFICES ASSUME NEW i \in 1..Len(scales)
               PROVE  /\ scales[i].range \in Nat /\ scales[i].angle \in 0..Top
                      /\ scales[i].angle = Bisection(scales[i].range)[<<0, Top>>]
    OBVIOUS
  <2>1. scales[i] \in Engraved
    BY DEF CalibrationInv
  <2>2. scales[i].angle = RequiredElevation(scales[i].range)
    BY DEF CalibrationInv
  <2> QED  BY <2>1, <2>2, ElevationIsBisection DEF Engraved
<1>3. ASSUME NEW i \in 1..Len(scales), Reached(i), NEW a \in 0..Farthest
      PROVE  Miss(scales[i].angle, scales[i].range) <= Miss(a, scales[i].range)
  <2>1. a \in 0..Top /\ a <= Farthest
    BY <1>1, CalibrationAssumption
  <2>2. NearestBetween(0, Top, scales[i].range)
    BY <1>0, <1>1, <1>2, <1>3, BisectionFindsNearest DEF Reached
  <2> QED  BY <1>2, <2>1, <2>2 DEF NearestBetween
<1>4. \A i \in 2..Len(scales) : i \in 1..Len(scales) /\ i - 1 \in 1..Len(scales) /\ i \in Nat
  <2>1. Len(scales) \in Nat
    BY DEF CalibrationInv
  <2> QED  BY <2>1
<1>5. ASSUME NEW i \in 2..Len(scales), Reached(i)  PROVE scales[i - 1].angle <= scales[i].angle
  <2>1. scales[i - 1].range <= scales[i].range
    BY DEF CalibrationInv
  <2>2. scales[i].range <= reach[Top]
    BY <1>5 DEF Reached
  <2>3. Bisection(scales[i - 1].range)[<<0, Top>>] <= Bisection(scales[i].range)[<<0, Top>>]
    BY <1>0, <1>1, <1>2, <1>4, <2>1, <2>2, ElevationsAreOrdered
  <2> QED  BY <1>2, <1>4, <2>3
\* The scales before one that is reached are reached.
<1>6. ASSUME NEW i \in 2..Len(scales), Reached(i)
      PROVE  \A j \in 2..i : Reached(j)
  <2> DEFINE S == {k \in Nat : i - k >= 2 => Reached(i - k)}
  <2>1. 0 \in S
    BY <1>4, <1>6
  <2>2. ASSUME NEW k \in Nat, k \in S  PROVE k + 1 \in S
    <3> SUFFICES ASSUME i - (k + 1) >= 2  PROVE Reached(i - (k + 1))
      OBVIOUS
    <3> DEFINE j == i - k
    <3>1. /\ j \in 2..Len(scales) /\ j - 1 = i - (k + 1)
          /\ j \in 1..Len(scales) /\ j - 1 \in 1..Len(scales)
      BY <1>4 DEF CalibrationInv
    <3>2. Reached(j)
      BY <1>4, <2>2, <3>1
    <3> HIDE DEF j
    <3>3. scales[j - 1].range <= scales[j].range /\ scales[j].range <= reach[Top]
      BY <3>1, <3>2 DEF CalibrationInv, Reached
    <3>4. scales[j - 1].range \in Nat /\ scales[j].range \in Nat /\ reach[Top] \in Nat
      BY <1>0, <1>1, <1>2, <3>1
    <3>5. Reached(j - 1)
      BY <3>3, <3>4 DEF Reached
    <3> QED  BY <3>1, <3>5
  <2>3. Nat \subseteq S
    <3> HIDE DEF S
    <3> QED  BY <2>1, <2>2, AllNumbers
  <2> TAKE j \in 2..i
  <2>4. i - j \in Nat /\ i - (i - j) = j /\ j >= 2
    BY <1>4
  <2>5. i - j \in S
    BY <2>3, <2>4
  <2> QED  BY <2>4, <2>5
<1>7. ASSUME NEW i \in 2..Len(scales), Reached(i),
             scales[i - 1].angle <= reading.angle, reading.angle <= scales[i].angle
      PROVE  \E j \in 2..i :
                 /\ scales[j - 1].angle <= reading.angle /\ reading.angle <= scales[j].angle
                 /\ Min({scales[j - 1].range, scales[j].range}) <= reading.range
                 /\ reading.range <= Max({scales[j - 1].range, scales[j].range})
  <2>1. scales[i - 1].angle \in 0..Top
    BY <1>2, <1>4
  <2>2. reading # NoReading
    BY <1>7, <2>1 DEF NoReading
  <2>3. PICK a \in 0..Top : reading = [angle |-> a, range |-> Estimate(a)]
    BY <2>2 DEF CalibrationInv
  <2>4. \A j \in 2..i : j \in 2..Len(scales) /\ Reached(j)
    BY <1>4, <1>6, <1>7 DEF CalibrationInv
  <2>5. \A j \in 2..i : scales[j - 1].angle <= scales[j].angle
    BY <1>5, <2>4
  <2> DEFINE e == Estimate(a)
  <2>6. \E j \in 2..i :
             /\ scales[j - 1].angle <= a /\ a <= scales[j].angle
             /\ Min({scales[j - 1].range, scales[j].range}) <= e
             /\ e <= Max({scales[j - 1].range, scales[j].range})
    BY <1>7, <2>3, <2>5, ReadingIsBetween
  <2> HIDE DEF e
  <2>7. reading.angle = a /\ reading.range = e
    BY <2>3 DEF e
  <2> QED  BY <2>6, <2>7
<1> QED  BY <1>3, <1>5, <1>7 DEF ScalesReadBack

(* Of crossbows whose range grows up to some elevation and falls after it, and in  *)
(* any span: the scales of ranges reached at 45 degrees are at the nearest of the  *)
(* elevations up to that of the farthest shot and in growing order, and a height   *)
(* between two of them is read back between two scales around it                   *)
(* (calibrate_scales(), estimate_range_from_sight_height()).                       *)
THEOREM CalibrationReadsBack ==
  ASSUME \A f \in Reaches : OnePeak(f)
  PROVE  Spec => []ScalesReadBack
<1>1. Init => CalibrationInv
  <2> SUFFICES ASSUME CalibrationInit  PROVE CalibrationInv
    BY DEF Init
  <2>1. scales \in Seq(Engraved) /\ Len(scales) = 0
    BY DEF CalibrationInit
  <2> QED  BY <2>1 DEF CalibrationInit, CalibrationInv
<1>2. CalibrationInv /\ [Next]_researchVars => CalibrationInv'
  <2> SUFFICES ASSUME CalibrationInv, [Next]_researchVars  PROVE CalibrationInv'
    OBVIOUS
  <2>1. CASE UNCHANGED calibrationVars
    <3>1. \A i : RequiredElevation(scales[i].range)' = RequiredElevation(scales'[i].range)
      BY <2>1, SameElevation DEF calibrationVars
    <3>2. \A a : Estimate(a)' = Estimate(a)
      BY <2>1, SameEstimate DEF calibrationVars
    <3>3. \A i \in 1..Len(scales') : scales'[i].angle = RequiredElevation(scales[i].range)'
      BY <2>1, <3>1 DEF calibrationVars, CalibrationInv
    <3> QED  BY <2>1, <3>2, <3>3 DEF calibrationVars, CalibrationInv
  <2> QED  BY <2>1, CalibrationSteps, CalibrationKeepsInv
<1>3. CalibrationInv => ScalesReadBack
  BY CalibrationIsRight DEF CalibrationInv
<1> QED  BY <1>1, <1>2, <1>3, PTL DEF Spec
=================================================================================
