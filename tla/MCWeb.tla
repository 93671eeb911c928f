---------------------------------- MODULE MCWeb ----------------------------------
(* Two requests of the page at a time, a stranger that sends nothing or a word    *)
(* where a number belongs and need not read its answer, and room for two in the   *)
(* listening socket's queue.  Of the crossbows one has a few rows, one more than  *)
(* the page asks for, and one none.                                               *)
EXTENDS Web

CONSTANTS s1, s2, other

MCStored == [c \in Crossbow |-> CASE c = 1 -> 3 [] c = 2 -> 60 [] OTHER -> 0]
BadNumber == [path |-> "sensor-data", pairs |-> <<<<"crossbow_id", Word("abc")>>>>]
MCRequests == {Silent, BadNumber}

----------------------------------------------------------------------------------
(* Each handler on requests that tell its cases apart: what is answered without   *)
(* parameters, for limits and unknown ids, for a word as the last parameter, and  *)
(* which requests end the process.                                                *)
Fetched(path, pairs) == Handle([path |-> path, pairs |-> pairs])
Num(k, n) == <<k, Number(n)>>
Text(k, w) == <<k, Word(w)>>

Plain == {"crossbow-types", "sensor-data", "shot-history", "alerts", "accuracy", "simulate-shot",
          "run-analysis", "resolve-alert", "system-status", "ballistic-result", "/", "elsewhere",
          "bowstring-materials", "bowstring-compare", "bowstring-efficiency-curve",
          "bowstring-optimize", "sight-designs", "sight-simulate", "sight-calibrate",
          "sight-optimize", "formation-types", "formation-simulate", "formation-compare",
          "formation-rl-optimize", "formation-placement"}

ASSUME \A path \in Plain : Fetched(path, <<>>) # Ends
ASSUME Fetched("sensor-data", <<Num("crossbow_id", 2), Num("limit", 4)>>)
          = [kind |-> "rows", about |-> 2, n |-> 4]
ASSUME Fetched("sensor-data", <<Num("crossbow_id", 77)>>).n = 0
ASSUME Fetched("simulate-shot", <<Num("crossbow_id", 1), Text("angle", "steep")>>) = Ends
ASSUME LET hemp == Text("material", "hemp")
       IN  /\ Fetched("bowstring-efficiency-curve", <<hemp, Num("points", 9)>>).about = "hemp_fiber"
           /\ Fetched("bowstring-efficiency-curve", <<hemp>>).about = "silk_thread"
ASSUME Fetched("sight-calibrate", <<Num("sight_type", 2)>>).table = 12
ASSUME Fetched("sight-calibrate", <<Num("start_range_m", 600), Num("end_range_m", 100), Num("step_m", 50)>>) = Ends
ASSUME Fetched("formation-rl-optimize", <<Num("episodes", 14)>>) = Ends
ASSUME Fetched("formation-rl-optimize", <<Num("episodes", 15)>>) # Ends
ASSUME Fetched("formation-placement", <<Num("formation_type", 6), Num("num_crossbows", 77)>>).about < 77
ASSUME Fetched("formation-placement", <<Num("formation_type", 12)>>).about = 0
==================================================================================
