----------------------------- MODULE SensorSimulator -----------------------------
(* crossbow_simulator.py: one CrossbowSimulator used by its caller, and what main() *)
(* makes of the environment, the command line and a configuration file.            *)
(*                                                                                 *)
(* The physics of a shot is left out: a shot reads the settings, adds to the count *)
(* and to the wear, and fails for a draw weight of 0, by which the deformation is  *)
(* divided.  Wear is in steps; WornOut of them are the 1.0 at which it is held.    *)
EXTENDS Integers, FiniteSetsExt

CONSTANTS
    Weights,        \* draw weights; 0 is one that makes a shot fail
    Lengths,        \* bow lengths
    MaxBatch,       \* bound on the shots of a batch
    MaxMade,        \* bound on the shots of the simulator
    WornOut

ASSUME SimulatorAssumption ==
    /\ Weights \subseteq Int /\ Lengths \subseteq Int
    /\ MaxBatch \in Nat /\ MaxMade \in Nat /\ WornOut \in Nat

VARIABLES
    crossbow,       \* self.crossbow: the settings that shots read
    asked,          \* the settings the caller last asked for
    shotCount,      \* shot_count
    wear,           \* arm_wear
    batch           \* the generate_batch() under way: what it varies, the settings it
                    \* began with, the shots to go

simulatorVars == <<crossbow, asked, shotCount, wear, batch>>

Settings == [weight : Weights, length : Lengths]
NoBatch == [varies |-> {}, left |-> 0]

SimulatorInit ==
    /\ crossbow \in {s \in Settings : s.weight # 0} /\ asked = crossbow
    /\ shotCount = 0 /\ wear = 0
    /\ batch = NoBatch

\* set_draw_weight(), set_bow_dimensions(); set_arrow_mass() is like them.
SetTo(settings) ==
    /\ batch = NoBatch
    /\ crossbow' = settings /\ asked' = settings
    /\ UNCHANGED <<shotCount, wear, batch>>

Fails(settings) == settings.weight = 0

\* generate_shot_data(): counted and worn before anything can fail.
Made ==
    /\ shotCount < MaxMade
    /\ shotCount' = shotCount + 1
    /\ \E w \in 0..1 : wear' = Min({WornOut, wear + w})

GenerateShotData ==
    /\ batch = NoBatch /\ Made
    /\ UNCHANGED <<crossbow, asked, batch>>

GenerateBatch(varies, count) ==
    /\ batch = NoBatch /\ count > 0
    /\ batch' = [varies |-> varies, left |-> count, original |-> crossbow]
    /\ UNCHANGED <<crossbow, asked, shotCount, wear>>

\* What is drawn anew for the next shot.
Varied == {[weight |-> w, length |-> l] :
              w \in IF "weight" \in batch.varies THEN Weights ELSE {crossbow.weight},
              l \in IF "length" \in batch.varies THEN Lengths ELSE {crossbow.length}}

\* Mutant: put back after the last shot only.
FinallyIfDone(settings) == IF Fails(settings) THEN settings ELSE batch.original

\* finally: what the batch began with, also when a shot fails.
Finally(settings) == batch.original

BatchShot ==
    /\ batch # NoBatch /\ Made
    /\ \E settings \in Varied :
          IF Fails(settings) \/ batch.left = 1
          THEN crossbow' = Finally(settings) /\ batch' = NoBatch
          ELSE crossbow' = settings /\ batch' = [batch EXCEPT !.left = @ - 1]
    /\ UNCHANGED asked

SimulatorCall ==
    \/ \E s \in Settings : SetTo(s)
    \/ GenerateShotData
    \/ \E varies \in SUBSET {"weight", "length"}, n \in 0..MaxBatch : GenerateBatch(varies, n)
    \/ BatchShot

----------------------------------------------------------------------------------
(* main(): where a value comes from.  Absent is one that is not given, and Unread *)
(* a text that is no number, which get_env_float() takes for none.                *)
Absent == -1
Unread == -2
GetEnv(env, default) == IF env \in {Absent, Unread} THEN default ELSE env

\* A configured value replaces an argument that equals the default, given or not.
Argument(given, env, config, builtin) ==
    LET default == GetEnv(env, builtin)
        arg == IF given = Absent THEN default ELSE given
    IN  IF config # Absent /\ arg = default THEN config ELSE arg

\* The draw weight, the lengths, the mass and the wear have no option.
CustomSetting(env, config, builtin) ==
    IF GetEnv(env, config) = Absent THEN builtin ELSE GetEnv(env, config)

\* What main() then does; --single-shot and --burst only count with one crossbow.
Mode(id, all, single, burst, known) ==
    IF id = Absent \/ id = 0 \/ all THEN "all until Ctrl-C"
    ELSE IF id \notin known THEN "exit 1"
    ELSE IF single THEN "one shot"
    ELSE IF burst # Absent /\ burst # 0 THEN "burst"
    ELSE "one until Ctrl-C"

----------------------------------------------------------------------------------
(* A batch leaves the simulator with the settings it found, whatever it varied    *)
(* and also when one of its shots failed on the way; the shots it made, the       *)
(* failed one too, stay counted.                                                  *)
BatchLeavesSettings == batch = NoBatch => crossbow = asked
=================================================================================
