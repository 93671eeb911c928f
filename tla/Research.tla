-------------------------------- MODULE Research --------------------------------
(* What is used alone: the library objects of the later versions (formation       *)
(* simulator, virtual shooting, string comparator, sight calibrator and optimizer)*)
(* as their callers use them, the page's scene, and a sensor simulator.  Each     *)
(* belongs to one user and shares nothing with the others, so a behaviour uses    *)
(* one of them, the `focus' picked at its start.                                  *)
EXTENDS FormationModule, VirtualShooting, BowstringMaterials, SightCalibration,
        SightOptimizer, Crossbow3D, SensorSimulator

CONSTANTS
    Types,          \* formation types asked for, some of which may not exist
    Crossbows,      \* numbers of crossbows in a request
    Episodes,       \* episodes asked of train_rl()
    SightTypes,     \* sight types asked for
    MaxSolved       \* bound on the elevations a calibrator is made to solve

VARIABLE focus

benchVars == <<sceneVars, simulatorVars>>
researchVars == <<focus, moduleVars, learningVars, shootingVars, materialVars,
                  calibrationVars, optimizerVars, benchVars>>

Parts == {"formation", "training", "shooting", "materials", "calibration", "sights",
          "scene", "simulator"}

\* The objects that are not in focus are in one of their initial states.
Init ==
    /\ focus \in Parts
    /\ LearningInit /\ FormationInit /\ ShootingInit /\ OptimizerInit /\ SceneInit
    /\ SimulatorInit
    /\ focus # "simulator" => crossbow = (CHOOSE s \in Settings : s.weight # 0)
    /\ focus \notin {"formation", "training"} => fmConfig = CHOOSE c \in Configs : TRUE
    /\ focus = "training" => \A c \in Configs : fmConfig.crossbows <= c.crossbows
    /\ CalibrationInit
    /\ focus # "calibration" => reach = (CHOOSE r \in Reaches : TRUE) /\ sight = Known(0)
    /\ MaterialInit
    /\ focus # "materials" => measured = [m \in Materials |-> CHOOSE v \in Measures : TRUE]

Formation ==
    /\ focus = "formation"
    /\ \/ FormationCall(Types, Crossbows) /\ UNCHANGED learningVars
       \/ \E t \in Targets : TrainRl(t, 0)
       \/ FinishTraining /\ UNCHANGED moduleVars
    /\ UNCHANGED <<focus, shootingVars, materialVars, calibrationVars, optimizerVars, benchVars>>

Training ==
    /\ focus = "training"
    /\ \/ \E t \in Targets, e \in Episodes : phase = "idle" /\ TrainRl(t, e)
       \/ Learning /\ UNCHANGED moduleVars
    /\ UNCHANGED <<focus, shootingVars, materialVars, calibrationVars, optimizerVars, benchVars>>

Session ==
    /\ focus = "shooting" /\ Shooting
    /\ UNCHANGED <<focus, moduleVars, learningVars, materialVars, calibrationVars, optimizerVars, benchVars>>

Comparison ==
    /\ focus = "materials" /\ MaterialCall
    /\ UNCHANGED <<focus, moduleVars, learningVars, shootingVars, calibrationVars, optimizerVars, benchVars>>

Engraving ==
    /\ focus = "calibration" /\ Calibration(MaxSolved)
    /\ UNCHANGED <<focus, moduleVars, learningVars, shootingVars, materialVars, optimizerVars, benchVars>>

Choosing ==
    /\ focus = "sights" /\ SightCall(SightTypes)
    /\ UNCHANGED <<focus, moduleVars, learningVars, shootingVars, materialVars, calibrationVars, benchVars>>

ObjectsRest == UNCHANGED <<focus, moduleVars, learningVars, shootingVars, materialVars,
                           calibrationVars, optimizerVars>>

Showing == focus = "scene" /\ Scene /\ UNCHANGED simulatorVars /\ ObjectsRest

Simulating == focus = "simulator" /\ SimulatorCall /\ UNCHANGED sceneVars /\ ObjectsRest

Next ==
    \/ Formation \/ Training \/ Session \/ Comparison \/ Engraving \/ Choosing \/ Showing
    \/ Simulating

FrameRuns(kind, range) ==
    focus = "scene" /\ FramesRun(kind, range) /\ UNCHANGED simulatorVars /\ ObjectsRest

\* Nothing here runs by itself but the frames and timers of the scene.
Fairness ==
    /\ \A kind \in PageChains : WF_researchVars(FrameRuns(kind, FALSE))
    /\ \A kind \in RangeChains : WF_researchVars(FrameRuns(kind, TRUE))

Spec == Init /\ [][Next]_researchVars /\ Fairness
==================================================================================
