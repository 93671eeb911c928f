--------------------------- MODULE LossyBroadcast ---------------------------
(***************************************************************************)
(* What the backend (backend/src/main.cpp) promises about the samples it    *)
(* accepts: it may skip some under load, but it offers the same samples, in *)
(* the order of their arrival, to each service, and a service handles what  *)
(* it was offered at most once, possibly with gaps.                         *)
(***************************************************************************)
EXTENDS Naturals, Sequences

CONSTANTS
    Order,      \* the services, in the order in which a sample is offered
    Samples     \* the numbers of the accepted samples

VARIABLES
    accepted,   \* how many samples were accepted
    offered,    \* [services -> the samples offered to it, in order]
    handled     \* [services -> the samples it has handled]

broadcastVars == <<accepted, offered, handled>>

Targets == {Order[i] : i \in DOMAIN Order}

BroadcastInit ==
    /\ accepted = 0
    /\ offered = [s \in Targets |-> <<>>]
    /\ handled = [s \in Targets |-> {}]

AcceptSample ==
    /\ accepted + 1 \in Samples
    /\ accepted' = accepted + 1
    /\ UNCHANGED <<offered, handled>>

\* A new round: the sample is newer than every one offered before.
OfferFirst(n) ==
    /\ \A s, t \in Targets : offered[s] = offered[t]
    /\ n \in 1..accepted
    /\ \A i \in DOMAIN offered[Order[1]] : offered[Order[1]][i] < n
    /\ offered' = [offered EXCEPT ![Order[1]] = Append(@, n)]
    /\ UNCHANGED <<accepted, handled>>

\* The round goes on with the next service.
OfferNext(i, n) ==
    /\ offered[Order[i]] = Append(offered[Order[i + 1]], n)
    /\ offered' = [offered EXCEPT ![Order[i + 1]] = offered[Order[i]]]
    /\ UNCHANGED <<accepted, handled>>

Handle(s, n) ==
    /\ n \in {offered[s][i] : i \in DOMAIN offered[s]} \ handled[s]
    /\ handled' = [handled EXCEPT ![s] = @ \cup {n}]
    /\ UNCHANGED <<accepted, offered>>

BroadcastNext ==
    \/ AcceptSample
    \/ \E n \in Samples :
          \/ OfferFirst(n)
          \/ \E i \in 1..(Len(Order) - 1) : OfferNext(i, n)
          \/ \E s \in Targets : Handle(s, n)

BroadcastSpec == BroadcastInit /\ [][BroadcastNext]_broadcastVars

=============================================================================
