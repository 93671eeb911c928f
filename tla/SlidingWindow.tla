---------------------------- MODULE SlidingWindow ----------------------------
(***************************************************************************)
(* What MessageQueue<T> (backend/include/message_queue.h) promises to the   *)
(* threads that share one: a window over the numbered stream of pushes.     *)
(* Push number n enters at the right end; an item leaves at the left end,   *)
(* because a consumer takes it or because the window is full.  Nothing is   *)
(* reordered, duplicated or invented, and only the oldest item is ever lost.*)
(***************************************************************************)
EXTENDS Naturals

CONSTANT Capacity      \* the size_t capacity given to the constructor

VARIABLES
    left,    \* how many items have left the window
    right,   \* how many items have entered it
    taken,   \* the number of the last item a consumer took, 0 before the first
    open     \* FALSE once the window was closed

windowVars == <<left, right, taken, open>>

WindowInit ==
    /\ left = 0
    /\ right = 0
    /\ taken = 0
    /\ open = TRUE

\* A push always succeeds, before and after Close; a full window slides.
Put ==
    /\ right' = right + 1
    /\ left' = IF right - left >= Capacity THEN left + 1 ELSE left
    /\ UNCHANGED <<taken, open>>

\* A consumer takes the oldest item present.
Take ==
    /\ left < right
    /\ left' = left + 1
    /\ taken' = left + 1
    /\ UNCHANGED <<right, open>>

Close ==
    /\ open' = FALSE
    /\ UNCHANGED <<left, right, taken>>

WindowNext == Put \/ Take \/ Close

WindowSpec == WindowInit /\ [][WindowNext]_windowVars

=============================================================================
