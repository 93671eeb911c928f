----------------------------- MODULE AlertResolution -----------------------------
(* An operator marks alerts as handled: /resolve-alert beside the list that       *)
(* get_active_alerts() answers to /alerts.                                        *)
EXTENDS HttpHandlers

CONSTANT Alerts     \* ids of the alerts that may come up

VARIABLES
    active,         \* what the alarm service holds
    answered        \* the alerts whose resolution was answered "ok"

\* The alarm service adds an alert.
Raise(a) ==
    /\ a \notin active /\ active' = active \cup {a}
    /\ answered' = answered \ {a}

\* handle_resolve_alert() answers, and calls nothing.
Resolve(a) ==
    /\ Handle([path |-> "resolve-alert", pairs |-> <<<<"id", Number(a)>>>>]) = Body("ok")
    /\ answered' = answered \cup {a}
    /\ UNCHANGED active

Init == active = {} /\ answered = {}
Next == \E a \in Alerts : Raise(a) \/ Resolve(a)
Spec == Init /\ [][Next]_<<active, answered>>

(* An alert whose resolution was answered is not in the list of alerts any more.  *)
ResolvedAlertsClose == active \cap answered = {}
==================================================================================
