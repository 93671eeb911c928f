-------------------------- MODULE MCSensorPipeline --------------------------
(***************************************************************************)
(* Small instances of SensorPipeline: one or two ballistic workers b, one   *)
(* thread a of the accuracy service, one thread m of the alarm service.     *)
(***************************************************************************)
EXTENDS SensorPipeline, TLC

CONSTANTS b1, b2, a1, m1

MCServiceOf == [w \in Workers |-> CASE w = a1 -> "accuracy"
                                    [] w = m1 -> "alarm"
                                    [] OTHER  -> "ballistic"]
=============================================================================
