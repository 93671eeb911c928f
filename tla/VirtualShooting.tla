----------------------------- MODULE VirtualShooting -----------------------------
(* VirtualShooting: a session with targets, an aim and shots, used by one thread.*)
(*                                                                               *)
(* Coordinates are abstracted to what the code decides from them: a place for a  *)
(* target or an aim is in range or not, the parameters of a shot are valid or    *)
(* not, and the random aim error lets a shot fall within the radius of any set   *)
(* of targets.  Scores, radii and velocities are left out; health is in halves.  *)
EXTENDS Integers, Sequences, FiniteSets, FiniteSetsExt

CONSTANTS
    MaxTargets,     \* config.max_targets
    Healths,        \* what add_target() is given
    MaxShots        \* bound on the ids of shots and targets

ASSUME ShootingAssumption ==
    MaxTargets \in Nat \ {0} /\ Healths \subseteq Int /\ MaxShots \in Nat

VARIABLES
    active,         \* session_active_
    targets,        \* targets_: id, health, destroyed, and the health it was born with
    shots,          \* shots_: id, hit_target_id (0: none), whether it was counted
    nextTarget,     \* next_target_id_
    nextShot,       \* next_shot_id_
    counted         \* shots that are in total_velocity_sum_ and total_distance_sum_

shootingVars == <<active, targets, shots, nextTarget, nextShot, counted>>

ShootingInit ==
    /\ active = FALSE
    /\ targets = <<>> /\ shots = <<>>
    /\ nextTarget = 1 /\ nextShot = 1 /\ counted = 0

Clear(act) ==
    /\ active' = act
    /\ targets' = <<>> /\ shots' = <<>>
    /\ nextTarget' = 1 /\ nextShot' = 1 /\ counted' = 0

StartSession == Clear(TRUE)
Reset == Clear(FALSE)

\* add_target(): refused without a session, at the limit or out of range.
AddTarget(inRange, health) ==
    /\ nextTarget <= MaxShots
    /\ LET h == Max({0, health})
       IN  IF active /\ Len(targets) < MaxTargets /\ inRange
           THEN /\ targets' = Append(targets, [id |-> nextTarget, health |-> h,
                                               destroyed |-> h <= 0, born |-> h])
                /\ nextTarget' = nextTarget + 1
           ELSE UNCHANGED <<targets, nextTarget>>
    /\ UNCHANGED <<active, shots, nextShot, counted>>

\* remove_target(): the other targets keep their order, the shots keep their ids.
RemoveTarget(id) ==
    /\ active
    /\ LET kept == {k \in 1..Len(targets) : targets[k].id # id}
       IN  \E at \in [1..Cardinality(kept) -> kept] :
              /\ \A i, j \in DOMAIN at : i < j => at[i] < at[j]
              /\ targets' = [i \in DOMAIN at |-> targets[at[i]]]
    /\ UNCHANGED <<active, shots, nextTarget, nextShot, counted>>

Shot(hit, valid) == [id |-> nextShot, hit |-> hit, counted |-> valid]

\* fire() without a session or with invalid parameters: a shot that hits nothing.
Misfire ==
    /\ nextShot <= MaxShots
    /\ shots' = Append(shots, Shot(0, FALSE))
    /\ nextShot' = nextShot + 1
    /\ UNCHANGED <<active, targets, nextTarget, counted>>

\* The first target in the vector that is not destroyed and is within reach.
Struck(reach) == {k \in 1..Len(targets) : k \in reach /\ ~targets[k].destroyed}

\* Mutant: destroyed only when nothing at all is left over.
DamagedToZero(t) == [t EXCEPT !.health = @ - 2, !.destroyed = @ \/ t.health - 2 = 0]

Damaged(t) == [t EXCEPT !.health = @ - 2, !.destroyed = @ \/ t.health - 2 <= 0]

Fire(reach) ==
    /\ active /\ nextShot <= MaxShots
    /\ IF Struck(reach) = {}
       THEN /\ shots' = Append(shots, Shot(0, TRUE))
            /\ UNCHANGED targets
       ELSE LET k == Min(Struck(reach))
            IN  /\ shots' = Append(shots, Shot(targets[k].id, TRUE))
                /\ targets' = [targets EXCEPT ![k] = Damaged(@)]
    /\ nextShot' = nextShot + 1
    /\ counted' = counted + 1
    /\ UNCHANGED <<active, nextTarget>>

Shooting ==
    \/ StartSession \/ Reset \/ Misfire
    \/ \E inRange \in BOOLEAN, h \in Healths : AddTarget(inRange, h)
    \/ \E id \in 1..MaxShots : RemoveTarget(id)
    \/ \E reach \in SUBSET (1..Len(targets)) : Fire(reach)

ShootingSpec == ShootingInit /\ [][Shooting]_shootingVars

\* get_stats()
Hits(id) == {k \in 1..Len(shots) : shots[k].hit = id}
Stats == [total |-> Len(shots),
          hits |-> Cardinality({k \in 1..Len(shots) : shots[k].hit # 0}),
          misses |-> Cardinality(Hits(0)),
          averaged |-> counted,
          destroyed |-> Cardinality({k \in 1..Len(targets) : targets[k].destroyed})]

----------------------------------------------------------------------------------
ShootingTypeOK ==
    /\ active \in BOOLEAN
    /\ Len(targets) <= MaxTargets /\ Len(shots) <= MaxShots
    /\ nextShot = Len(shots) + 1
    /\ \A k \in 1..Len(targets) : targets[k].id < nextTarget /\ targets[k].destroyed \in BOOLEAN
    /\ counted <= Len(shots)

(* The hits of the shot list are the damage of the targets: over any sequence of *)
(* added, removed and struck targets, a target has lost one health for each shot *)
(* that names it, is destroyed exactly when nothing is left, and is not struck   *)
(* again after that; an id is never used for a second target of the session.     *)
DamageIsHits ==
    \A k \in 1..Len(targets) :
        LET t == targets[k]
        IN  /\ t.health = t.born - 2 * Cardinality(Hits(t.id))
            /\ t.destroyed <=> t.health <= 0
            /\ \A j \in 1..Len(targets) : targets[j].id = t.id => j = k
=================================================================================
