-------------------------------- MODULE Exchange --------------------------------
(* What the HTTP server (backend/src/http_server.cpp) promises to its clients:    *)
(* connections are served one at a time, in the order in which they were taken    *)
(* in; each is answered at most once, with what its own request is owed, or reset *)
(* when it is not taken in, when it does not stay to read its answer, when the    *)
(* server stops, or when the process ends; and the process ends before it serves, *)
(* or in the turn of a client whose request ends it or that does not stay.        *)
EXTENDS Naturals, Sequences

CONSTANTS
    Clients,    \* connections that may exist at once
    Readers,    \* those that stay to read their answers
    Fatal       \* what is owed to a request that ends the process

VARIABLES
    phase,      \* "new", "open", "closed"
    line,       \* the clients taken in and not answered, the one served first
    call        \* what each client waits for, or was given

exchangeVars == <<phase, line, call>>

InLine == {line[i] : i \in DOMAIN line}
Waiting(c) == call[c].at = "waiting"
Reset(S) == [c \in Clients |-> IF c \in S THEN [at |-> "reset"] ELSE call[c]]

ExchangeInit ==
    /\ phase = "new" /\ line = <<>>
    /\ \A c \in Clients : call[c].at \in {"none", "waiting"}

\* A client connects and asks for anything, or forgets what it was given.
Turn(c) ==
    /\ ~ Waiting(c)
    /\ call'[c].at \in {"none", "waiting"} /\ call' = [call EXCEPT ![c] = call'[c]]
    /\ UNCHANGED <<phase, line>>

Open == phase = "new" /\ phase' = "open" /\ UNCHANGED <<line, call>>

Join(c) ==
    /\ phase = "open" /\ Waiting(c) /\ c \notin InLine
    /\ line' = Append(line, c)
    /\ UNCHANGED <<phase, call>>

GiveUp(c) ==
    /\ Waiting(c) /\ c \notin InLine
    /\ call' = Reset({c})
    /\ UNCHANGED <<phase, line>>

Answer ==
    /\ phase = "open" /\ line # <<>>
    /\ call' = [call EXCEPT ![Head(line)] = [at |-> "answered", body |-> call[Head(line)].owed]]
    /\ line' = Tail(line)
    /\ UNCHANGED phase

Lost ==
    /\ phase = "open" /\ line # <<>> /\ Head(line) \notin Readers
    /\ call' = Reset({Head(line)})
    /\ line' = Tail(line)
    /\ UNCHANGED phase

Close ==
    /\ phase = "open" /\ phase' = "closed"
    /\ call' = Reset(InLine) /\ line' = <<>>

End ==
    /\ \/ phase = "new"
       \/ phase = "open" /\ line # <<>> /\ (call[Head(line)].owed = Fatal \/ Head(line) \notin Readers)
    /\ phase' = "closed"
    /\ call' = Reset({c \in Clients : Waiting(c)}) /\ line' = <<>>

ExchangeNext ==
    \/ \E c \in Clients : Turn(c) \/ Join(c) \/ GiveUp(c)
    \/ Open \/ Answer \/ Lost \/ Close \/ End

ExchangeSpec == ExchangeInit /\ [][ExchangeNext]_exchangeVars
==================================================================================
