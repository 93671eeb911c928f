----------------------------------- MODULE App -----------------------------------
(* CrossbowApp: the page, its selected crossbow, and the requests it has under    *)
(* way.  A click, a tick of the timer and the continuation of an await are one    *)
(* step each; nothing waits for a request to end before another is sent, and      *)
(* what an answer does depends on the selection at that later moment.             *)
EXTENDS HttpServer

CONSTANTS
    Slots,          \* requests of the page at once, a bound
    Local           \* ids of the types the page knows without a server

ASSUME AppAssumption ==
    Slots \subseteq Clients /\ Local \subseteq Nat \ {0} /\ IsFiniteSet(Local) /\ Local # {}

VARIABLES
    types,          \* crossbowTypes, {} before they are loaded
    selected,       \* the id of selectedCrossbow, 0 for none
    recent,         \* recentData: of which crossbow, and how much
    task            \* what each request is for

pageVars == <<types, selected, recent, task>>

NoData == [of |-> 0, n |-> 0]
Simulated == [of |-> -1, n |-> 50]      \* simulateAccuracyData()
Idle == [kind |-> "idle"]

Ask(kind, id) ==
    CASE kind = "load"     -> [path |-> "crossbow-types", pairs |-> <<>>]
      [] kind = "sensor"   -> [path |-> "sensor-data",
                               pairs |-> <<<<"crossbow_id", Number(id)>>, <<"limit", Number(50)>>>>]
      [] kind = "alerts"   -> [path |-> "alerts", pairs |-> <<>>]
      [] kind = "status"   -> [path |-> "system-status", pairs |-> <<>>]
      [] kind = "shot"     -> [path |-> "simulate-shot",
                               pairs |-> <<<<"crossbow_id", Number(id)>>, <<"angle", Number(15)>>>>]
      [] kind = "analysis" -> [path |-> "run-analysis", pairs |-> <<<<"crossbow_id", Number(id)>>>>]

Fetch(s, kind, id) ==
    /\ task' = [task EXCEPT ![s] = [kind |-> kind]]
    /\ conn' = Request(s, Ask(kind, id))
EndTask(s) ==
    /\ task' = [task EXCEPT ![s] = Idle]
    /\ conn' = [conn EXCEPT ![s] = NoConn]
Returned(s, kind) == task[s].kind = kind /\ Over(s)
Answered(s, kind) == At(s, {"answered"}) /\ conn[s].body.kind = kind

\* init(): the page is open and asks for the types, with whichever slot.
PageInit ==
    LET first == CHOOSE s \in Slots : TRUE
    IN  /\ types = {} /\ selected = 0 /\ recent = NoData
        /\ task = [s \in Slots |-> IF s = first THEN [kind |-> "load"] ELSE Idle]
        /\ conn = [c \in Clients |->
                      IF c = first THEN [at |-> "wire", asked |-> Ask("load", 0)] ELSE NoConn]

\* refreshData() forgets the data and polls.
Refresh(s, id) ==
    /\ selected' = id /\ recent' = NoData
    /\ Fetch(s, "sensor", id)

\* loadCrossbowTypes(): the first type is selected, and polling starts.
TypesLoaded(s) ==
    LET known == IF Answered(s, "types") THEN conn[s].body.about ELSE Local
    IN  /\ Returned(s, "load")
        /\ types' = known
        /\ Refresh(s, Min(known))

\* The empty option of the list selects nothing and refreshes nothing.
SelectCrossbow(s, id) ==
    /\ task[s] = Idle /\ types # {}
    /\ IF id \in types THEN Refresh(s, id) ELSE selected' = 0 /\ UNCHANGED <<recent, task, conn>>
    /\ UNCHANGED types

\* The timer of startDataPolling().
PollSensorData(s) ==
    /\ task[s] = Idle /\ selected # 0
    /\ Fetch(s, "sensor", selected)
    /\ UNCHANGED <<types, selected, recent>>

\* Mutant: only a page without data takes the rows.
SensorDataOnce(s) ==
    /\ Returned(s, "sensor")
    /\ recent' = IF Answered(s, "rows") /\ conn[s].body.n > 0 /\ recent = NoData
                 THEN [of |-> conn[s].body.about, n |-> conn[s].body.n] ELSE recent
    /\ Fetch(s, "alerts", 0)
    /\ UNCHANGED <<types, selected>>

\* Mutant: rows are taken for those of the crossbow that is selected by now.
SensorDataOfSelected(s) ==
    /\ Returned(s, "sensor")
    /\ recent' = IF Answered(s, "rows") /\ conn[s].body.n > 0
                 THEN [of |-> selected, n |-> conn[s].body.n] ELSE recent
    /\ Fetch(s, "alerts", 0)
    /\ UNCHANGED <<types, selected>>

\* Rows are taken whatever is selected by now; no rows, or no answer, change nothing.
SensorData(s) ==
    /\ Returned(s, "sensor")
    /\ recent' = IF Answered(s, "rows") /\ conn[s].body.n > 0
                 THEN [of |-> conn[s].body.about, n |-> conn[s].body.n] ELSE recent
    /\ Fetch(s, "alerts", 0)
    /\ UNCHANGED <<types, selected>>

\* The alerts and the status are shown, or what stands for them without an answer.
Alerts(s) ==
    /\ Returned(s, "alerts") /\ Fetch(s, "status", 0)
    /\ UNCHANGED <<types, selected, recent>>
Status(s) ==
    /\ Returned(s, "status") /\ EndTask(s)
    /\ UNCHANGED <<types, selected, recent>>

PageShot(s) ==
    /\ task[s] = Idle /\ selected # 0
    /\ Fetch(s, "shot", selected)
    /\ UNCHANGED <<types, selected, recent>>

\* applyShotResult() shows the server's result, or simulateShotLocal() makes one up; a
\* trajectory on the screen is of no account for the requests.
ShotResult(s) ==
    /\ Returned(s, "shot")
    /\ EndTask(s)
    /\ UNCHANGED <<types, selected, recent>>

PageAnalysis(s) ==
    /\ task[s] = Idle /\ selected # 0
    /\ Fetch(s, "analysis", selected)
    /\ UNCHANGED <<types, selected, recent>>

\* runLocalAnalysis() makes its data up when there are fewer than five.
Analysis(s) ==
    /\ Returned(s, "analysis")
    /\ recent' = IF At(s, {"reset"}) /\ recent.n < 5 THEN Simulated ELSE recent
    /\ EndTask(s)
    /\ UNCHANGED <<types, selected>>

User(s) ==
    \/ \E id \in types \cup {0} : SelectCrossbow(s, id)
    \/ PageShot(s)
    \/ PageAnalysis(s)

Continue(s) ==
    TypesLoaded(s) \/ SensorData(s) \/ Alerts(s) \/ Status(s) \/ ShotResult(s) \/ Analysis(s)
=================================================================================
