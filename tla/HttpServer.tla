------------------------------- MODULE HttpServer -------------------------------
(* HttpServer: one thread accepts, reads, answers and closes one connection at a  *)
(* time.  The listening socket's time limit of a second is inherited by each      *)
(* connection.  start() and stop() are called by the main thread; what a handler  *)
(* makes of a request is Handle of HttpHandlers, one step here: the mutexes it    *)
(* takes are held by nobody for long.                                             *)
(*                                                                                *)
(* A client has one connection at a time: it is "wire" while the kernel has no    *)
(* room for it, then "queued" in the listening socket, "open" after accept(),     *)
(* and in the end "answered" or "reset".                                          *)
EXTENDS HttpHandlers, TLC

CONSTANTS
    Clients,        \* connections that may exist at once
    Readers,        \* the clients that stay until they have read their answers
    Backlog         \* 10 in the code, the argument of listen()

ASSUME ServerAssumption == Readers \subseteq Clients /\ Backlog \in Nat \ {0}

VARIABLES
    server,         \* "down", "up", "stopping", "stopped"; "dead" when main() returned
                    \* early or an exception left the server's thread
    thread,         \* where the server's thread is
    serving,        \* client_fd and what was read from it
    backlog,        \* the queue of the listening socket
    conn            \* what each client's connection has come to

serverVars == <<server, thread, serving, backlog, conn>>

Nobody == [client |-> "nobody"]
Silent == [path |-> "silent"]   \* connects and sends nothing, or leaves at once
NoConn == [at |-> "none"]

ServerInit ==
    server = "down" /\ thread = "none" /\ serving = Nobody /\ backlog = <<>>

At(c, places) == conn[c].at \in places
Over(c) == At(c, {"answered", "reset"})
Request(c, r) == [conn EXCEPT ![c] = [at |-> "wire", asked |-> r]]

\* The process ends, or only its listening socket is closed: connections are reset.
ResetAll(which) == [c \in Clients |-> IF conn[c].at \in which THEN [at |-> "reset"] ELSE conn[c]]
ProcessEnds ==
    /\ server' = "dead" /\ thread' = "none" /\ serving' = Nobody /\ backlog' = <<>>
    /\ conn' = ResetAll({"wire", "queued", "open"})

\* socket(), bind() and listen() succeed, or start() returns false and main() 1.
Start ==
    /\ server = "down"
    /\ \/ /\ server' = "up" /\ thread' = "accept"
          /\ UNCHANGED <<serving, backlog, conn>>
       \/ ProcessEnds

----------------------------------------------------------------------------------
(* The kernel's side of a connection.                                             *)

Listening == server \in {"up", "stopping"}

Arrive(c) ==
    /\ At(c, {"wire"}) /\ Listening /\ Len(backlog) < Backlog
    /\ backlog' = Append(backlog, c)
    /\ conn' = [conn EXCEPT ![c].at = "queued"]
    /\ UNCHANGED <<server, thread, serving>>

\* Nobody listens, or the queue stays full for longer than the client waits.
Refuse(c) ==
    /\ At(c, {"wire"})
    /\ ~Listening \/ Len(backlog) = Backlog
    /\ conn' = [conn EXCEPT ![c] = [at |-> "reset"]]
    /\ UNCHANGED <<server, thread, serving, backlog>>

----------------------------------------------------------------------------------
(* The server's thread.                                                           *)

\* while (running), read at the end of each round.
Loop == IF server = "up" THEN "accept" ELSE "ended"

Accept ==
    /\ thread = "accept" /\ backlog # <<>>
    /\ thread' = "recv" /\ serving' = [client |-> Head(backlog)]
    /\ backlog' = Tail(backlog)
    /\ conn' = [conn EXCEPT ![Head(backlog)].at = "open"]
    /\ UNCHANGED server

\* A second passes without a connection, and the loop goes on: after 100 ms, with
\* nothing changed, while the server is running.
AcceptTimesOut ==
    /\ thread = "accept" /\ backlog = <<>>
    /\ thread' = Loop /\ server # "up"
    /\ UNCHANGED <<server, serving, backlog, conn>>

\* Mutant: the connection is read without a time limit.
RecvUnlimited ==
    /\ thread = "recv" /\ conn[serving.client].asked # Silent
    /\ thread' = "reply"
    /\ serving' = [client |-> serving.client, body |-> Handle(conn[serving.client].asked)]
    /\ UNCHANGED <<server, backlog, conn>>

\* recv() returns the request, or nothing within the second: then no handler runs.
Owed(asked) == IF asked = Silent THEN Body("error") ELSE Handle(asked)
Recv ==
    LET owed == Owed(conn[serving.client].asked)
    IN  /\ thread = "recv"
        /\ IF owed = Ends THEN ProcessEnds
           ELSE /\ thread' = "reply"
                /\ serving' = [client |-> serving.client, body |-> owed]
                /\ UNCHANGED <<server, backlog, conn>>

\* close() with what the connection has come to, and the next round.
CloseWith(outcome) ==
    /\ conn' = [conn EXCEPT ![serving.client] = outcome]
    /\ serving' = Nobody /\ thread' = Loop
    /\ UNCHANGED <<server, backlog>>

\* send() of the whole answer has no time limit.  A client that does not stay to read
\* holds the thread, for ever if it likes, where the answer outgrows the buffers of the
\* kernel; it has its connection reset by leaving, or by an error of send() that nobody
\* looks at; and if it left before, SIGPIPE, which main() does not ignore, ends the process.
Unread == thread = "reply" /\ serving.client \notin Readers
Gone == Unread /\ (CloseWith([at |-> "reset"]) \/ ProcessEnds)

\* Mutant: a server that was stopped in between leaves without close().
ReplyWhileRunning ==
    \/ thread = "reply" /\ CloseWith(IF server = "up" THEN [at |-> "answered", body |-> serving.body]
                                     ELSE conn[serving.client])
    \/ Gone

Reply ==
    \/ thread = "reply" /\ CloseWith([at |-> "answered", body |-> serving.body])
    \/ Gone

ServerThread == Accept \/ AcceptTimesOut \/ Recv \/ Reply

\* stop(): running = false, join(), close() of the listening socket.
Stop ==
    /\ server = "up" /\ server' = "stopping"
    /\ UNCHANGED <<thread, serving, backlog, conn>>
\* Mutant: the queue is thrown away without a word to those in it.
JoinedSilently ==
    /\ server = "stopping" /\ thread = "ended"
    /\ server' = "stopped" /\ backlog' = <<>>
    /\ UNCHANGED <<thread, serving, conn>>
Joined ==
    /\ server = "stopping" /\ thread = "ended"
    /\ server' = "stopped" /\ backlog' = <<>>
    /\ conn' = ResetAll({"queued"})
    /\ UNCHANGED <<thread, serving>>

MainThread == Start \/ Stop \/ Joined

----------------------------------------------------------------------------------
(* Unless some client holds the thread for ever by not reading its answer, a     *)
(* stop() comes to its end: the thread leaves accept() and recv() after a second  *)
(* at the latest, whatever clients send or do not send, and join() returns.       *)
ServerStops == []<>~Unread => (server = "stopping" ~> server \in {"stopped", "dead"})

(* With the same exception, a connection is answered or reset in the end, when    *)
(* the server stops, dies or never started, too, and when its queue is full.      *)
ConnectionsEnd ==
    []<>~Unread => \A c \in Clients : At(c, {"wire"}) ~> (Over(c) \/ At(c, {"none"}))
=================================================================================
