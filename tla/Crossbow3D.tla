------------------------------- MODULE Crossbow3D -------------------------------
(* Crossbow3D: the animations of the page's scene and its shooting range.        *)
(*                                                                               *)
(* Every animation is a chain of frames and timers that hands on to the next one *)
(* and, at its end, changes the flags that keep others from starting.  `chains'  *)
(* is the bag of the chains under way; a frame that only draws is a stutter, and *)
(* the browser lets any chain finish first.  What is drawn, the aim, the score   *)
(* of a ring and the camera are left out; so is drawPowerPercent, which each     *)
(* draw sets again before it is used.                                            *)
EXTENDS Integers, Bags

CONSTANTS
    TargetCount,    \* shootingExperience.targetCount
    HitsPerTarget,  \* shootingExperience.hitsPerTarget
    MaxArrows,       \* bound on the shots between two resets
    MaxFields       \* bound on the target fields created

ASSUME SceneAssumption ==
    TargetCount \in Nat /\ HitsPerTarget \in Nat \ {0} /\ MaxArrows \in Nat /\ MaxFields \in Nat

VARIABLES
    animating, isAnimatingShot,     \* the flags, of the animations and of the range
    shootingMode, isDrawing,
    field,          \* which field of targets stands, counted from 1
    standing,        \* of that field: hitCount and active of each; <<>> without one
    shotsFired, hitsScored,
    stray,          \* history: an arrow was in the air when the score was last set back
    chains

scoreVars == <<shotsFired, hitsScored, stray>>
rangeVars == <<isAnimatingShot, shootingMode, isDrawing, field, standing, scoreVars>>
sceneVars == <<animating, rangeVars, chains>>

Missed == [field |-> 0, target |-> 0]
Plain == [field |-> -1, target |-> 0]       \* an animation without a callback
Chain(kind, hit) == [kind |-> kind, hit |-> hit]
PageChains == {"draw", "release", "shotDraw", "shotFlight"}
RangeChains == {"draw", "release", "userWait", "flight", "fall"}
\* An arrow on its way to the range, from the click on.
Flying(c) == c.kind \in {"userWait", "draw", "release", "flight"} /\ c.hit # Plain

SceneInit ==
    /\ animating = FALSE /\ isAnimatingShot = FALSE
    /\ shootingMode = FALSE /\ isDrawing = FALSE
    /\ field = 0 /\ standing = <<>>
    /\ shotsFired = 0 /\ hitsScored = 0 /\ stray = FALSE
    /\ chains = EmptyBag

\* A chain becomes another one, or several, or none.
Becomes(c, next) == chains' = (chains (-) SetToBag({c})) (+) SetToBag(next)
Starts(next) == chains' = chains (+) SetToBag({next})

----------------------------------------------------------------------------------
(* The page: the button that draws the bow, and the shot of /api/simulate-shot.   *)
PlayDrawAnimation ==
    /\ ~animating
    /\ animating' = TRUE /\ Starts(Chain("draw", Plain))
    /\ UNCHANGED rangeVars

PlayShotAnimation ==
    /\ ~animating
    /\ animating' = TRUE /\ Starts(Chain("shotDraw", Plain))
    /\ UNCHANGED rangeVars

\* Mutant: only an animation that flew takes the flag back.
ShotDrawnOnly(c) ==
    /\ c.kind = "shotDraw"
    /\ \E points \in {0, 2} : Becomes(c, IF points > 1 THEN {Chain("shotFlight", Plain)} ELSE {})
    /\ UNCHANGED <<animating, rangeVars>>

\* The string is drawn and 200 ms are over; a trajectory of less than two points is not
\* flown.
ShotDrawn(c) ==
    /\ c.kind = "shotDraw"
    /\ \E points \in {0, 2} :
          /\ Becomes(c, IF points > 1 THEN {Chain("shotFlight", Plain)} ELSE {})
          /\ animating' = (animating /\ points > 1)
    /\ UNCHANGED rangeVars

\* 500 ms after the arrow has come down
ShotLands(c) ==
    /\ c.kind = "shotFlight"
    /\ Becomes(c, {})
    /\ animating' = FALSE
    /\ UNCHANGED rangeVars

\* playDrawAnimation() at its end, and 300 ms later
Drawn(c) ==
    /\ c.kind = "draw"
    /\ Becomes(c, {Chain("release", c.hit)})
    /\ UNCHANGED <<animating, rangeVars>>

\* playReleaseAnimation() at its end; the callback of the range's shot releases the
\* string once more, without a callback and without the flag, and lets the arrow fly.
Released(c) ==
    /\ c.kind = "release"
    /\ animating' = FALSE
    /\ Becomes(c, IF c.hit = Plain THEN {}
                  ELSE {Chain("release", Plain), Chain("flight", c.hit)})
    /\ UNCHANGED rangeVars

----------------------------------------------------------------------------------
(* The range.                                                                     *)
NewField ==
    /\ field < MaxFields /\ field' = field + 1
    /\ standing' = [k \in 1..TargetCount |-> [hitCount |-> 0, active |-> TRUE]]
    /\ shotsFired' = 0 /\ hitsScored' = 0
    /\ stray' = \E c \in BagToSet(chains) : Flying(c)

EnableShootingMode(on) ==
    /\ shootingMode' = on
    /\ IF on THEN NewField
       ELSE standing' = <<>> /\ UNCHANGED <<field, scoreVars>>
    /\ UNCHANGED <<animating, isAnimatingShot, isDrawing, chains>>

\* The R key: a new field and a new score, whatever is in the air.
KeyR ==
    /\ shootingMode /\ NewField
    /\ UNCHANGED <<animating, isAnimatingShot, shootingMode, isDrawing, chains>>

\* The mouse or the space bar.
HandleMouseDown ==
    /\ shootingMode /\ ~isDrawing
    /\ isDrawing' = TRUE
    /\ UNCHANGED <<animating, isAnimatingShot, shootingMode, field, standing, scoreVars, chains>>

\* checkTargetHits(): the trajectory passes through a target that stands, or none.
Hit == {Missed} \cup {[field |-> field, target |-> k] : k \in {j \in DOMAIN standing : standing[j].active}}

\* Mutant: a second arrow while one is in the air.
PerformAnotherShot ==
    /\ shotsFired < MaxArrows
    /\ shotsFired' = shotsFired + 1
    /\ \E hit \in Hit : Starts(Chain("userWait", hit))

PerformVirtualShot ==
    IF isAnimatingShot THEN UNCHANGED <<shotsFired, chains>>
    ELSE /\ shotsFired < MaxArrows
         /\ shotsFired' = shotsFired + 1
         /\ \E hit \in Hit : Starts(Chain("userWait", hit))

\* A draw of less than minDrawTimeMs shoots nothing; a longer one takes more than the
\* 50 ms after which an earlier shot's animation begins.
HandleMouseUp(long) ==
    /\ shootingMode /\ isDrawing
    /\ isDrawing' = FALSE
    /\ IF long THEN /\ \A c \in BagToSet(chains) : c.kind # "userWait"
                    /\ PerformVirtualShot
       ELSE UNCHANGED <<shotsFired, chains>>
    /\ UNCHANGED <<animating, isAnimatingShot, shootingMode, field, standing, hitsScored, stray>>

\* playUserShotAnimation(): the flag is set first; playDrawAnimation() does nothing, its
\* callback included, while another animation has the string.
PlayUserShotAnimation(c) ==
    /\ c.kind = "userWait"
    /\ isAnimatingShot' = TRUE
    /\ Becomes(c, IF animating THEN {} ELSE {Chain("draw", c.hit)})
    /\ animating' = TRUE
    /\ UNCHANGED <<shootingMode, isDrawing, field, standing, scoreVars>>

\* registerHit(), also of a target of a field that is gone.
RegisterHit(c) ==
    LET k == c.hit.target
        stands == c.hit.field = field /\ k \in DOMAIN standing
        count == IF stands THEN standing[k].hitCount + 1 ELSE 0
    IN  /\ hitsScored' = hitsScored + 1
        /\ standing' = IF stands THEN [standing EXCEPT ![k].hitCount = count] ELSE standing
        /\ Becomes(c, IF count >= HitsPerTarget THEN {Chain("fall", c.hit)} ELSE {})

ArrowLands(c) ==
    /\ c.kind = "flight"
    /\ isAnimatingShot' = FALSE
    /\ IF c.hit = Missed THEN Becomes(c, {}) /\ UNCHANGED <<standing, hitsScored>>
       ELSE RegisterHit(c)
    /\ UNCHANGED <<animating, shootingMode, isDrawing, field, shotsFired, stray>>

\* animateTargetDestruction() at its end
TargetFalls(c) ==
    /\ c.kind = "fall"
    /\ Becomes(c, {})
    /\ standing' = IF c.hit.field = field /\ c.hit.target \in DOMAIN standing
                  THEN [standing EXCEPT ![c.hit.target].active = FALSE] ELSE standing
    /\ UNCHANGED <<animating, isAnimatingShot, shootingMode, isDrawing, field, scoreVars>>

----------------------------------------------------------------------------------
Frame(c) ==
    \/ ShotDrawn(c) \/ ShotLands(c) \/ Drawn(c) \/ Released(c)
    \/ PlayUserShotAnimation(c) \/ ArrowLands(c) \/ TargetFalls(c)

SceneInput ==
    \/ PlayDrawAnimation \/ PlayShotAnimation
    \/ \E on \in BOOLEAN : EnableShootingMode(on)
    \/ KeyR \/ HandleMouseDown
    \/ \E long \in BOOLEAN : HandleMouseUp(long)

Scene == SceneInput \/ \E c \in BagToSet(chains) : Frame(c)

\* The browser runs every frame and timer that is due, those of the page's animations
\* (range = FALSE) and of the range's; the user need do nothing.
FramesRun(kind, range) ==
    \E c \in BagToSet(chains) : c.kind = kind /\ (c.hit # Plain) = range /\ Frame(c)

----------------------------------------------------------------------------------
(* At most one arrow is in the air, so the score counts no more hits than shots,  *)
(* but for the hit of the one that was in the air when the score was set back: R  *)
(* during a flight leaves one hit, and no more, without a shot.                   *)
HitsAreShots == hitsScored <= shotsFired + (IF stray THEN 1 ELSE 0)

\* The shot whose animation began is still under way.
InTheAir == isAnimatingShot /\ \E c \in BagToSet(chains) : c.kind # "fall" /\ c.hit # Plain

(* The flags come back: an animation of the scene ends, whichever others began or *)
(* ended meanwhile, and so does the animation of an arrow once the bow was drawn  *)
(* for it; until then every button and every shot is silently ignored.            *)
AnimationsEnd == (animating ~> ~animating) /\ (InTheAir ~> ~isAnimatingShot)
=================================================================================
