---------------------------- MODULE FormationLearning ----------------------------
(* FormationRLOptimizer: the learning loop behind /api/formation-rl-optimize and *)
(* FormationSimulatorModule::train_rl().                                         *)
(*                                                                               *)
(* A reward is an integer the engagement yields, any of Rewards.  The Q table    *)
(* decides nothing the properties see: select_action() explores, or takes the    *)
(* best action of its row, and either way picks an action below get_num_actions. *)
(* Spacing is in hundredths, orientation in degrees.                             *)
EXTENDS FormationLayout, Sequences, FiniteSetsExt

CONSTANTS
    Phases,         \* 15 in the code: an episode has Phases steps, later fewer,
    MinSteps,       \* 5 in the code: but at least this many
    ConvergedLimit, \* 100 in the code: converged episodes before an early stop
    Rewards,        \* what evaluate_reward() may return
    Explored        \* the actions to look at, a bound on select_action()'s choice

ASSUME LearningAssumption ==
    /\ Phases \in Nat \ {0} /\ MinSteps \in Nat \ {0} /\ ConvergedLimit \in Nat
    /\ Rewards \subseteq Int /\ Explored \subseteq 0..22

VARIABLES
    phase,      \* "idle", "between" episodes, "training" in one, "done", or what
                \* ended the process: "crashed" (a division by zero), "thrown"
    task,       \* the arguments of set_training_conditions and train_q_learning
    ep, step,   \* the loop variables
    cur,        \* current_f, spacing, orientation, effective_crossbows
    best,       \* best_reward, with best_formation and best_params
    trajectory  \* result.training_trajectory; each entry with its best_params

learningVars == <<phase, task, ep, step, cur, best, trajectory>>

NoReward == -1000       \* best_reward = -1e9, below every reward
ASSUME RewardAssumption == \A r \in Rewards : r > NoReward

Start(n) == [formation |-> 0, spacing |-> 100, orientation |-> 0, crossbows |-> n]

\* What is kept of a setting: the number of crossbows it was tried with is not.
Placed(c) == [formation |-> c.formation, spacing |-> c.spacing, orientation |-> c.orientation]

NumActions(t) == 1 + (IF t.formation THEN 9 ELSE 0) + (IF t.spacing THEN 5 ELSE 0)
                   + (IF t.orientation THEN 8 ELSE 0)

ActionsOf(t) == Explored \cap 0..(NumActions(t) - 1)

\* The three branches on the action: a formation, a spacing, an orientation.
SpacingOf(a) == 70 + 15 * ((a - 10) % 5)
OrientationOf(a) == 45 * ((a - 20) % 8) - 180
Apply(t, c, a) ==
    IF t.formation /\ a \in 0..9 THEN [c EXCEPT !.formation = a]
    ELSE IF t.spacing /\ a \in 10..19 THEN [c EXCEPT !.spacing = SpacingOf(a)]
    ELSE IF t.orientation /\ a >= 20 THEN [c EXCEPT !.orientation = OrientationOf(a)]
    ELSE c

\* discretize_state(): the row of the Q table, from the formation, the crossbows,
\* the mean distance in metres and the coverage in percent.
Bin(x, top) == IF x < 0 THEN 0 ELSE IF x > top THEN top ELSE x
Discretize(t, f, crossbows, distance, coverage) ==
    LET width == IF (t.max - t.min) \div 7 > 1 THEN (t.max - t.min) \div 7 ELSE 1
    IN  Bin(f, 9) * 200 + Bin((crossbows - t.min) \div width, 7) * 25
          + Bin(distance \div 100, 4) * 5 + Bin(coverage \div 20, 4)

LearningInit ==
    /\ phase = "idle" /\ ep = 0 /\ step = 0 /\ trajectory = <<>>
    /\ task = [crossbows |-> 0, episodes |-> 0, min |-> 0, max |-> 0,
               formation |-> TRUE, spacing |-> TRUE, orientation |-> TRUE]
    /\ cur = Start(0)
    /\ best = [reward |-> NoReward, setting |-> Placed(Start(0))]

\* train_q_learning() is called: reserve() of a negative number of episodes throws.
BeginTraining(t) ==
    /\ phase \in {"idle", "done"}
    /\ task' = t
    /\ phase' = IF t.episodes < 0 THEN "thrown" ELSE "between"
    /\ ep' = 0 /\ step' = 0 /\ trajectory' = <<>>
    /\ cur' = Start(t.crossbows)
    /\ best' = [reward |-> NoReward, setting |-> Placed(Start(0))]

\* Every seventh episode is trained with another number of crossbows.  The number
\* of steps is divided by episodes / 15, which is 0 for fewer than 15 episodes.
StartEpisode ==
    /\ phase = "between" /\ ep < task.episodes
    /\ \E n \in IF ep % 7 = 0 THEN task.min..Max({task.min, task.max}) ELSE {task.crossbows} :
           cur' = Start(n)
    /\ phase' = IF task.episodes \div Phases = 0 THEN "crashed" ELSE "training"
    /\ step' = 0
    /\ UNCHANGED <<task, ep, best, trajectory>>

Steps == LET later == Phases - (ep \div (task.episodes \div Phases))
         IN  IF later > MinSteps THEN later ELSE MinSteps

\* Mutant: an equal reward replaces the best.
TrainStepLast(a, r) ==
    /\ phase = "training" /\ step < Steps
    /\ cur' = Apply(task, cur, a)
    /\ trajectory' = Append(trajectory, [action |-> a, reward |-> r, setting |-> Placed(cur')])
    /\ best' = IF r >= best.reward THEN [reward |-> r, setting |-> Placed(cur')] ELSE best
    /\ step' = step + 1
    /\ UNCHANGED <<phase, task, ep>>

\* One step: an action, the engagement of the formation it leads to, its reward.
TrainStep(a, r) ==
    /\ phase = "training" /\ step < Steps
    /\ cur' = Apply(task, cur, a)
    /\ trajectory' = Append(trajectory, [action |-> a, reward |-> r, setting |-> Placed(cur')])
    /\ best' = IF r > best.reward THEN [reward |-> r, setting |-> Placed(cur')] ELSE best
    /\ step' = step + 1
    /\ UNCHANGED <<phase, task, ep>>

\* The moving average is near the reward, or not: after more than ConvergedLimit
\* such episodes in the last 70 % the loop may break.
EndEpisode ==
    /\ phase = "training" /\ step = Steps
    /\ ep' = ep + 1
    /\ \/ phase' = "between"
       \/ 10 * (ep - ConvergedLimit) > 3 * task.episodes /\ phase' = "done"
    /\ UNCHANGED <<task, step, cur, best, trajectory>>

\* The ten formations are evaluated once more and the result is returned.
FinishTraining ==
    /\ phase = "between" /\ ep = task.episodes
    /\ phase' = "done"
    /\ UNCHANGED <<task, ep, step, cur, best, trajectory>>

Learning ==
    \/ StartEpisode
    \/ \E a \in ActionsOf(task), r \in Rewards : TrainStep(a, r)
    \/ EndEpisode
    \/ FinishTraining

LearningSpec(Tasks) ==
    LearningInit /\ [][Learning \/ \E t \in Tasks : BeginTraining(t)]_learningVars

----------------------------------------------------------------------------------
LearningTypeOK ==
    /\ phase \in {"idle", "between", "training", "done", "crashed", "thrown"}
    /\ ep \in Nat /\ step \in Nat
    /\ cur.formation \in Formations
    /\ cur.spacing \in {70, 85, 100, 115, 130}
    /\ cur.orientation \in {-180, -135, -90, 0}
    /\ best.reward \in Rewards \cup {NoReward}
    /\ best.setting.formation \in Formations

(* The setting that is returned as the best is the one of the first observation  *)
(* with the highest reward of the whole training, over all its episodes, steps   *)
(* and changes of formation, spacing and orientation.                            *)
BestIsFirstMaximum ==
    IF trajectory = <<>> THEN best.reward = NoReward
    ELSE \E k \in 1..Len(trajectory) :
            /\ best = [reward |-> trajectory[k].reward, setting |-> trajectory[k].setting]
            /\ \A j \in 1..Len(trajectory) :
                  /\ trajectory[j].reward <= best.reward
                  /\ j < k => trajectory[j].reward < best.reward
=================================================================================
