--------------------------- MODULE MCAlarmService ---------------------------
(***************************************************************************)
(* AlarmService for TLC: two known crossbows and an unknown one, times on   *)
(* both sides of the cooldown, limits small enough to be passed.            *)
(***************************************************************************)
EXTENDS AlarmService, TLC

CONSTANTS c1, c2, unknown    \* model values

MCKnown == {c1, c2}
MCCrossbows == MCKnown \cup {unknown}
MCReadings == {{}, {"ARM_CRACK_RISK"}, {"EXCESSIVE_TENSION", "HIGH_TEMPERATURE"}, KindSet}

Symmetry == Permutations(MCKnown)

=============================================================================
