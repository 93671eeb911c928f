----------------------------------- MODULE Web -----------------------------------
(* The page and the server it talks to, with one client of another kind that      *)
(* sends what it likes, or nothing, to the same thread.                           *)
EXTENDS App

CONSTANTS
    Stranger,       \* the other client
    Requests,       \* what it asks
    MaxActions      \* bound on the user's and the stranger's actions together

ASSUME WebAssumption ==
    /\ Clients = Slots \cup {Stranger} /\ Stranger \notin Slots
    /\ Slots \subseteq Readers /\ MaxActions \in Nat

VARIABLE left       \* actions the user and the stranger still take

webVars == <<serverVars, pageVars, left>>

WebInit == ServerInit /\ PageInit /\ left = MaxActions

Act == left > 0 /\ left' = left - 1

UserActs ==
    /\ Act /\ \E s \in Slots : User(s)
    /\ UNCHANGED <<server, thread, serving, backlog>>

StrangerActs ==
    /\ Act /\ At(Stranger, {"none", "answered", "reset"})
    /\ \E r \in Requests : conn' = Request(Stranger, r)
    /\ UNCHANGED <<server, thread, serving, backlog, pageVars>>

Page(s) ==
    /\ Continue(s) \/ PollSensorData(s)
    /\ UNCHANGED <<server, thread, serving, backlog, left>>

Network(c) == (Arrive(c) \/ Refuse(c)) /\ UNCHANGED <<pageVars, left>>
Server == ServerThread /\ UNCHANGED <<pageVars, left>>
Main == MainThread /\ UNCHANGED <<pageVars, left>>

WebNext ==
    \/ UserActs \/ StrangerActs
    \/ \E s \in Slots : Page(s)
    \/ \E c \in Clients : Network(c)
    \/ Server \/ Main

\* The event loop runs what is due, the timer ticks, the kernel hands connections
\* over or gives them up, and the server's threads run, but for a send() to a client
\* that does not read.  Nobody has to stop the server.
WebFairness ==
    /\ \A s \in Slots : WF_webVars(Page(s))
    /\ \A c \in Clients : WF_webVars(Network(c))
    /\ WF_webVars(~Unread /\ Server)
    /\ WF_webVars((Start \/ Joined) /\ UNCHANGED <<pageVars, left>>)

WebSpec == WebInit /\ [][WebNext]_webVars /\ WebFairness

----------------------------------------------------------------------------------
(* While the server stays up and nobody holds its thread for ever, the data the   *)
(* page shows are in the end those of the crossbow that is selected, if it has    *)
(* any, although answers for another one may come late, the page may have made    *)
(* its data up, and a stranger takes the server's only thread.  For a crossbow    *)
(* without rows the answer is empty and changes nothing: late rows of another one *)
(* stay on the screen.                                                            *)
PageCatchesUp ==
    <>[](server = "up") /\ []<>~Unread =>
        <>[](selected # 0 /\ RowsOf(selected, 50) > 0 => recent.of = selected)

(* The rows the page shows are of a crossbow it knows, and as many as the server  *)
(* stores of that one, up to the 50 it asked for: whatever was selected since the *)
(* request was sent, and in whatever order the answers of several come.           *)
ShownIsStored ==
    \/ recent \in {NoData, Simulated}
    \/ /\ recent.of \in types \cap Crossbow
       /\ recent.n = Min({Stored[recent.of], 50})

\* The exchange that clients see: their connections, those that were taken in and
\* not answered, and whether any is taken in.
CallOf(c) ==
    IF At(c, {"wire", "queued", "open"}) THEN [at |-> "waiting", owed |-> Owed(conn[c].asked)]
    ELSE conn[c]
Calls == [c \in Clients |-> CallOf(c)]
TakenIn == IF thread \in {"recv", "reply"} THEN <<serving.client>> \o backlog ELSE backlog
Phase == IF server = "down" THEN "new" ELSE IF Listening THEN "open" ELSE "closed"

Exchange == INSTANCE Exchange WITH Fatal <- Ends, phase <- Phase, line <- TakenIn, call <- Calls

(* Page and strangers see an exchange of requests and answers: each connection is *)
(* answered in its turn, once, with what its own request is owed, however often   *)
(* its client asks again, and whenever the server is stopped or the process ends. *)
ImplementsExchange == Exchange!ExchangeSpec
==================================================================================
