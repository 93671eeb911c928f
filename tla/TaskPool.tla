------------------------------ MODULE TaskPool ------------------------------
(***************************************************************************)
(* What DynamicsSolver (backend/include/modules/dynamics_solver.h) promises *)
(* about each task handed to it: it is started at most once, highest        *)
(* priority first, its result is delivered at most once, and a task whose   *)
(* cancellation was requested before it started never starts.               *)
(***************************************************************************)
EXTENDS Naturals

CONSTANTS
    TaskIds,      \* the task ids
    Priorities    \* the priorities, a set of naturals

VARIABLES
    stage,        \* [TaskIds -> how far the task has come]
    urgency,      \* [TaskIds -> its priority, once submitted]
    cancelled     \* the tasks whose cancellation is requested and not honoured yet

poolVars == <<stage, urgency, cancelled>>

Stages == {"new", "queued", "running", "delivered", "dropped"}

PoolInit ==
    /\ stage = [t \in TaskIds |-> "new"]
    /\ urgency \in [TaskIds -> Priorities]
    /\ cancelled = {}

Queued == {t \in TaskIds : stage[t] = "queued"}
MostUrgent == {t \in Queued : \A u \in Queued : urgency[u] <= urgency[t]}

Submit(t) ==
    /\ stage[t] = "new"
    /\ stage' = [stage EXCEPT ![t] = "queued"]
    /\ \E p \in Priorities : urgency' = [urgency EXCEPT ![t] = p]
    /\ UNCHANGED cancelled

RequestCancel(t) ==
    /\ cancelled' = cancelled \cup {t}
    /\ UNCHANGED <<stage, urgency>>

Begin(t) ==
    /\ t \in MostUrgent
    /\ t \notin cancelled
    /\ stage' = [stage EXCEPT ![t] = "running"]
    /\ UNCHANGED <<urgency, cancelled>>

Drop(t) ==
    /\ t \in MostUrgent
    /\ t \in cancelled
    /\ stage' = [stage EXCEPT ![t] = "dropped"]
    /\ cancelled' = cancelled \ {t}
    /\ UNCHANGED urgency

DeliverResult(t) ==
    /\ stage[t] = "running"
    /\ stage' = [stage EXCEPT ![t] = "delivered"]
    /\ UNCHANGED <<urgency, cancelled>>

PoolNext ==
    \E t \in TaskIds :
        Submit(t) \/ RequestCancel(t) \/ Begin(t) \/ Drop(t) \/ DeliverResult(t)

PoolSpec == PoolInit /\ [][PoolNext]_poolVars

=============================================================================
