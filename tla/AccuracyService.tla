--------------------------- MODULE AccuracyService ---------------------------
(***************************************************************************)
(* The tables of AccuracyAnalyzerService                                    *)
(* (backend/src/accuracy_analyzer_service.cpp) and the three threads that   *)
(* share them: the worker that files each shot under its crossbow, the      *)
(* periodic analysis, and the HTTP thread, which analyses on request        *)
(* (/api/run-analysis in http_server.cpp).  Both analyses copy the shots    *)
(* under data_mutex_, compute without a lock and store under                *)
(* analysis_mutex_, so they may overlap.                                    *)
(*                                                                          *)
(* SensorPipeline models how shots reach the worker and how it is joined.   *)
(* A shot is its place in log.  An analysis is the list of the shots it was *)
(* computed from; the statistics and the crossbow's name are left out.      *)
(***************************************************************************)
EXTENDS Naturals, Sequences

CONSTANTS
    Crossbows,    \* the ids that shots and requests carry
    MinShots,     \* what the periodic analysis wants of a crossbow (10)
    DataLimit,    \* the shots kept per crossbow (5000)
    MaxShots      \* bound on the shots

ASSUME AccuracyAssumption ==
    /\ Crossbows \subseteq Nat
    /\ MinShots \in Nat \ {0}
    /\ DataLimit \in Nat
    /\ MinShots <= DataLimit
    /\ MaxShots \in Nat

VARIABLES
    running_,          \* FALSE once stop() has been called
    crossbow_data_,    \* [Crossbows -> the shots kept, oldest first]
    latest_analyses_,  \* [Crossbows -> the analysis last stored, <<>> if none or empty]
    analyst,           \* where the thread is in periodic_analysis_loop()
    ids,               \* the ids it has still to analyse in this round
    shots,             \* its copy of the shots of the first of them
    request,           \* where the HTTP thread is in handle_run_accuracy_analysis()
    id,                \* the crossbow asked for
    copy,              \* run_analysis_now()'s copy of its shots
    due,               \* history: the shots that the answer must cover
    log                \* history: the crossbow of each shot, in the order of arrival

tableVars   == <<crossbow_data_, latest_analyses_>>
analystVars == <<analyst, ids, shots>>
requestVars == <<request, id, copy, due>>
vars == <<running_, tableVars, analystVars, requestVars, log>>

Init ==
    /\ running_ = TRUE
    /\ crossbow_data_ = [c \in Crossbows |-> <<>>]
    /\ latest_analyses_ = [c \in Crossbows |-> <<>>]
    /\ analyst = "sleep" /\ ids = {} /\ shots = <<>>
    /\ request = "idle" /\ id \in Crossbows /\ copy = <<>> /\ due = <<>>
    /\ log = <<>>

-----------------------------------------------------------------------------
\* The worker.

\* The last n of a sequence, all of it if it is shorter.
LastOf(q, n) == IF Len(q) <= n THEN q ELSE SubSeq(q, Len(q) - n + 1, Len(q))

\* Mutant: the wrong end is erased when the limit is passed.
FileShotKeepOldest(c) ==
    /\ Len(log) < MaxShots
    /\ log' = Append(log, c)
    /\ crossbow_data_' = [crossbow_data_ EXCEPT
          ![c] = IF Len(@) < DataLimit THEN Append(@, Len(log) + 1) ELSE @]
    /\ UNCHANGED <<running_, latest_analyses_, analystVars, requestVars>>

\* A shot is appended to its crossbow's and the oldest beyond the limit are erased.
FileShot(c) ==
    /\ Len(log) < MaxShots
    /\ log' = Append(log, c)
    /\ crossbow_data_' = [crossbow_data_ EXCEPT ![c] = LastOf(Append(@, Len(log) + 1), DataLimit)]
    /\ UNCHANGED <<running_, latest_analyses_, analystVars, requestVars>>

-----------------------------------------------------------------------------
\* The periodic analysis.

\* The interval is over: if (!running_) break.
Wake ==
    /\ analyst = "sleep"
    /\ analyst' = IF running_ THEN "scan" ELSE "exited"
    /\ UNCHANGED <<running_, tableVars, ids, shots, requestVars, log>>

\* Mutant: exactly MinShots shots are not enough.
ScanMore ==
    /\ analyst = "scan"
    /\ ids' = {c \in Crossbows : Len(crossbow_data_[c]) > MinShots}
    /\ analyst' = "next"
    /\ UNCHANGED <<running_, tableVars, shots, requestVars, log>>

\* The crossbows with enough shots are listed.
Scan ==
    /\ analyst = "scan"
    /\ ids' = {c \in Crossbows : Len(crossbow_data_[c]) >= MinShots}
    /\ analyst' = "next"
    /\ UNCHANGED <<running_, tableVars, shots, requestVars, log>>

\* The ids are in the order of the map.
First == CHOOSE c \in ids : \A d \in ids : c <= d

\* The shots of the next crossbow are copied.
CopyShots ==
    /\ analyst = "next"
    /\ ids # {}
    /\ shots' = crossbow_data_[First]
    /\ analyst' = "store"
    /\ UNCHANGED <<running_, tableVars, ids, requestVars, log>>

\* Mutant: the analysis is stored under the last id of the list.
StoreUnderLast ==
    /\ analyst = "store"
    /\ latest_analyses_' =
          [latest_analyses_ EXCEPT ![CHOOSE c \in ids : \A d \in ids : d <= c] = shots]
    /\ ids' = ids \ {First}
    /\ shots' = <<>>
    /\ analyst' = "next"
    /\ UNCHANGED <<running_, crossbow_data_, requestVars, log>>

\* They have been analysed, and the analysis is stored whatever is there by now.
StoreAnalysis ==
    /\ analyst = "store"
    /\ latest_analyses_' = [latest_analyses_ EXCEPT ![First] = shots]
    /\ ids' = ids \ {First}
    /\ shots' = <<>>
    /\ analyst' = "next"
    /\ UNCHANGED <<running_, crossbow_data_, requestVars, log>>

\* The list is done: while (running_), and sleep.
RoundOver ==
    /\ analyst = "next"
    /\ ids = {}
    /\ analyst' = IF running_ THEN "sleep" ELSE "exited"
    /\ UNCHANGED <<running_, tableVars, ids, shots, requestVars, log>>

Analyst == Wake \/ Scan \/ CopyShots \/ StoreAnalysis \/ RoundOver

-----------------------------------------------------------------------------
\* The HTTP thread: handle_run_accuracy_analysis().

\* A request for crossbow c.  The client may count on the shots stored by now, unless
\* the periodic thread is analysing an older copy of them.
Ask(c) ==
    /\ running_
    /\ request = "idle"
    /\ request' = "copy"
    /\ id' = c
    /\ due' = IF analyst = "store" /\ c = First THEN shots ELSE crossbow_data_[c]
    /\ UNCHANGED <<running_, tableVars, analystVars, copy, log>>

\* run_analysis_now() copies the shots ...
RequestCopy ==
    /\ request = "copy"
    /\ copy' = crossbow_data_[id]
    /\ request' = "store"
    /\ UNCHANGED <<running_, tableVars, analystVars, id, due, log>>

\* Mutant: the analysis is returned but not stored.
RequestForget ==
    /\ request = "store"
    /\ copy' = <<>>
    /\ request' = "read"
    /\ UNCHANGED <<running_, tableVars, analystVars, id, due, log>>

\* ... and stores its analysis of them, whatever is there by now.
RequestStore ==
    /\ request = "store"
    /\ latest_analyses_' = [latest_analyses_ EXCEPT ![id] = copy]
    /\ copy' = <<>>
    /\ request' = "read"
    /\ UNCHANGED <<running_, crossbow_data_, analystVars, id, due, log>>

\* handle_get_accuracy() answers with what it finds stored for the crossbow.
Answer ==
    /\ request = "read"
    /\ due' = <<>>
    /\ request' = "idle"
    /\ UNCHANGED <<running_, tableVars, analystVars, id, copy, log>>

Http == RequestCopy \/ RequestStore \/ Answer

-----------------------------------------------------------------------------

\* stop(): main() calls it once the HTTP server is stopped.
Stop ==
    /\ running_
    /\ request = "idle"
    /\ running_' = FALSE
    /\ UNCHANGED <<tableVars, analystVars, requestVars, log>>

Next ==
    \/ \E c \in Crossbows : FileShot(c) \/ Ask(c)
    \/ Analyst \/ Http
    \/ Stop

Spec == Init /\ [][Next]_vars

\* Both threads run; the interval ends.  Nobody has to shoot, ask or stop.
FairSpec == Spec /\ WF_vars(Analyst) /\ WF_vars(Http)

-----------------------------------------------------------------------------

ShotNumbers == 1..MaxShots

\* The range of every variable.
TypeOK ==
    /\ running_ \in BOOLEAN
    /\ crossbow_data_ \in [Crossbows -> Seq(ShotNumbers)]
    /\ latest_analyses_ \in [Crossbows -> Seq(ShotNumbers)]
    /\ analyst \in {"sleep", "scan", "next", "store", "exited"}
    /\ ids \subseteq Crossbows
    /\ shots \in Seq(ShotNumbers)
    /\ analyst = "store" => ids # {} /\ Len(shots) >= MinShots
    /\ request \in {"idle", "copy", "store", "read"}
    /\ id \in Crossbows
    /\ copy \in Seq(ShotNumbers)
    /\ due \in Seq(ShotNumbers)
    /\ log \in Seq(Crossbows)
    /\ Len(log) <= MaxShots
    /\ ~running_ => request = "idle"

Recent == INSTANCE BoundedDeque WITH Capacity <- DataLimit

\* The list has the shots of crossbow c that are kept when the first t have arrived.
IsKeptOf(list, c, t) == Recent!HoldsLatest(list, {n \in 1..t : log[n] = c})

\* The table holds the latest shots of each crossbow, and each analysis, stored or at
\* work, is of the shots of its own crossbow as they were at one moment: no torn list,
\* no list of two crossbows, however the three threads interleave.
AnalysesAreSnapshots ==
    LET IsSnapshot(c, a) == \E t \in 0..Len(log) : IsKeptOf(a, c, t) IN
    /\ \A c \in Crossbows :
          /\ IsKeptOf(crossbow_data_[c], c, Len(log))
          /\ IsSnapshot(c, latest_analyses_[c])
    /\ analyst = "store" => IsSnapshot(First, shots)
    /\ request = "store" => IsSnapshot(id, copy)

Covers(a, b) == b # <<>> => a # <<>> /\ b[Len(b)] <= a[Len(a)]

\* The answer to /api/run-analysis covers the shots stored when it was asked for.  The
\* one exception is an older periodic analysis at work at that moment, which may be
\* stored in between; it costs the shots since its own copy and no more.
AnswerIsFresh == request = "read" => Covers(latest_analyses_[id], due)

\* While the service runs, every shot of a crossbow with enough of them is covered by
\* an analysis in the end, without anybody asking for one.
ShotsGetAnalysed ==
    \A n \in ShotNumbers, c \in Crossbows :
        /\ n \in DOMAIN log /\ log[n] = c
        /\ Len(crossbow_data_[c]) >= MinShots
        ~> Covers(latest_analyses_[c], <<n>>) \/ ~running_

=============================================================================
