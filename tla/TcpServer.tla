----------------------------- MODULE TcpServer ------------------------------
(***************************************************************************)
(* TcpServer and TcpConnection (src/src/tcp.cc), with the connection       *)
(* handler RpcServer installs (src/src/rpc.cc): the thread that starts and *)
(* stops the server, the accept thread, and one thread per connection.     *)
(* Messages are abstracted to whether a transfer succeeds and whether the  *)
(* request in it can be decoded.                                           *)
(***************************************************************************)
EXTENDS Integers, Sequences

CONSTANTS
    Conns,     \* the connections that may be accepted
    MaxCalls   \* how many calls of recv or send a message may take

ASSUME MaxCallsConstant == MaxCalls \in Nat \ {0}

VARIABLES
    main,         \* where the thread in start() and stop() is
    todo,         \* the connections cleanup_connections has yet to close
    closing,      \* the one it is in the middle of closing, if any
    server_fd,    \* whether the listening socket is open
    should_stop,
    accepting,    \* where accept_loop is
    accepted,     \* the connection it is about to hand over
    active,       \* active_connections_
    list_mutex,   \* who holds connections_mutex_
    connected,    \* connected_ of each connection
    fd,           \* socket_fd_ of each connection: "none", "open" or "closed" (-1)
    using,        \* the state of socket_fd_ when the recv or send in progress began
    calls,        \* which recv or send of its transfer it is
    socket_mutex, \* who holds socket_mutex_ of each connection
    pc,           \* where the handler thread of each connection is
    io,           \* which transfer of the request it is at
    bad           \* whether it answers a request it could not decode

mainVars == <<main, todo, closing, server_fd, should_stop>>
acceptVars == <<accepting, accepted>>
listVars == <<active, list_mutex>>
connVars == <<connected, fd, using, calls, socket_mutex>>
handlerVars == <<pc, io, bad>>
vars == <<mainVars, acceptVars, listVars, connVars, handlerVars>>

Free == "free"
Transfers == <<"receive_length", "receive_data", "send_length", "send_data">>

Init ==
    /\ main = "init" /\ todo = {} /\ closing = {}
    /\ server_fd = "none" /\ should_stop = FALSE
    /\ accepting = "none" /\ accepted = {}
    /\ active = {} /\ list_mutex = Free
    /\ connected = [c \in Conns |-> FALSE]
    /\ fd = [c \in Conns |-> "none"]
    /\ using = [c \in Conns |-> "none"]
    /\ calls = [c \in Conns |-> 0]
    /\ socket_mutex = [c \in Conns |-> Free]
    /\ pc = [c \in Conns |-> "none"]
    /\ io = [c \in Conns |-> 1]
    /\ bad = [c \in Conns |-> FALSE]
-----------------------------------------------------------------------------
\* start(): the socket is created, bound and listening, or closed again.
Start ==
    /\ main = "init"
    /\ \/ main' = "running" /\ server_fd' = "open" /\ accepting' = "loop"
       \/ main' = "stopped" /\ server_fd' = "closed" /\ UNCHANGED accepting
    /\ UNCHANGED <<todo, closing, should_stop, accepted, listVars, connVars, handlerVars>>

\* stop(), up to close_socket.
Stop ==
    /\ main = "running"
    /\ should_stop' = TRUE /\ main' = "close_socket"
    /\ UNCHANGED <<todo, closing, server_fd, acceptVars, listVars, connVars, handlerVars>>

CloseSocket ==
    /\ main = "close_socket"
    /\ server_fd' = "closed" /\ main' = "join_accept"
    /\ UNCHANGED <<todo, closing, should_stop, acceptVars, listVars, connVars, handlerVars>>

\* Mutant: the accept thread is not joined before the connections are closed.
JoinAccept_skipped ==
    /\ main = "join_accept"
    /\ main' = "cleanup"
    /\ UNCHANGED <<todo, closing, server_fd, should_stop, acceptVars, listVars, connVars, handlerVars>>

JoinAccept ==
    /\ main = "join_accept" /\ accepting = "done"
    /\ main' = "cleanup"
    /\ UNCHANGED <<todo, closing, server_fd, should_stop, acceptVars, listVars, connVars, handlerVars>>

\* cleanup_connections holds connections_mutex_ until every connection is closed.
Cleanup ==
    /\ main = "cleanup" /\ list_mutex = Free
    /\ list_mutex' = "main" /\ todo' = active /\ main' = "closing"
    /\ UNCHANGED <<closing, server_fd, should_stop, acceptVars, active, connVars, handlerVars>>

\* Mutant: connected_ is read and not cleared.
Exchange_load(c) == UNCHANGED <<connected, fd, using, calls, socket_mutex>>

\* TcpConnection::close, first half: only the caller that finds connected_ set, and
\* clears it, goes on to close the descriptor.
Exchange(c) ==
    /\ connected' = [connected EXCEPT ![c] = FALSE]
    /\ UNCHANGED <<fd, using, calls, socket_mutex>>

\* Mutant: close() does not wait for socket_mutex_.
CloseFd_unlocked(c) ==
    /\ fd' = [fd EXCEPT ![c] = "closed"]
    /\ UNCHANGED <<connected, using, calls, socket_mutex>>

\* The second half, under socket_mutex_.
CloseFd(c) ==
    /\ socket_mutex[c] = Free
    /\ fd' = [fd EXCEPT ![c] = "closed"]
    /\ UNCHANGED <<connected, using, calls, socket_mutex>>

CleanupExchange(c) ==
    /\ main = "closing" /\ closing = {} /\ c \in todo
    /\ Exchange(c)
    /\ todo' = todo \ {c}
    /\ closing' = IF connected[c] THEN {c} ELSE {}
    /\ UNCHANGED <<main, server_fd, should_stop, acceptVars, listVars, handlerVars>>

CleanupClose(c) ==
    /\ c \in closing
    /\ CloseFd(c)
    /\ closing' = {}
    /\ UNCHANGED <<main, todo, server_fd, should_stop, acceptVars, listVars, handlerVars>>

\* active_connections_.clear() and the end of the guard.
CleanupDone ==
    /\ main = "closing" /\ todo = {} /\ closing = {}
    /\ active' = {} /\ list_mutex' = Free /\ main' = "join"
    /\ UNCHANGED <<todo, closing, server_fd, should_stop, acceptVars, connVars, handlerVars>>

\* Mutant: the handler threads are not joined.
JoinHandlers_skipped ==
    /\ main = "join"
    /\ main' = "stopped"
    /\ UNCHANGED <<todo, closing, server_fd, should_stop, acceptVars, listVars, connVars,
                   handlerVars>>

\* Every thread of connection_threads_ is joined.
JoinHandlers ==
    /\ main = "join" /\ \A c \in Conns : pc[c] \in {"none", "done"}
    /\ main' = "stopped"
    /\ UNCHANGED <<todo, closing, server_fd, should_stop, acceptVars, listVars, connVars,
                   handlerVars>>
-----------------------------------------------------------------------------
\* accept_loop.
AcceptLoop ==
    /\ accepting = "loop"
    /\ accepting' = IF should_stop THEN "done" ELSE "accept"
    /\ UNCHANGED <<mainVars, accepted, listVars, connVars, handlerVars>>

\* accept() returns a connection, which may happen as long as the socket is open.
Accept(c) ==
    /\ accepting = "accept" /\ server_fd = "open" /\ fd[c] = "none"
    /\ fd' = [fd EXCEPT ![c] = "open"]
    /\ connected' = [connected EXCEPT ![c] = TRUE]
    /\ accepted' = {c} /\ accepting' = "add"
    /\ UNCHANGED <<mainVars, listVars, using, calls, socket_mutex, handlerVars>>

\* accept() fails: at any time, and for good once the socket is shut down.
AcceptFails ==
    /\ accepting = "accept"
    /\ accepting' = IF should_stop THEN "done" ELSE "loop"
    /\ UNCHANGED <<mainVars, accepted, listVars, connVars, handlerVars>>

add_connection(c) ==
    /\ accepting = "add" /\ c \in accepted /\ list_mutex = Free
    /\ active' = active \cup {c} /\ accepting' = "spawn"
    /\ UNCHANGED <<mainVars, accepted, list_mutex, connVars, handlerVars>>

Spawn(c) ==
    /\ accepting = "spawn" /\ c \in accepted
    /\ pc' = [pc EXCEPT ![c] = "top"]
    /\ accepted' = {} /\ accepting' = "loop"
    /\ UNCHANGED <<mainVars, listVars, connVars, io, bad>>
-----------------------------------------------------------------------------
Goto(c, where) == pc' = [pc EXCEPT ![c] = where]
Others == <<mainVars, acceptVars, listVars>>

\* process_request returns false, or the loop ends: its locals are gone.
Leave(c) == Goto(c, "close") /\ io' = [io EXCEPT ![c] = 1] /\ bad' = [bad EXCEPT ![c] = FALSE]

\* The head of RpcServer::handle_connection's loop.
Loop(c) ==
    /\ pc[c] = "top"
    /\ Goto(c, IF connected[c] THEN "check" ELSE "close")
    /\ io' = [io EXCEPT ![c] = 1]
    /\ UNCHANGED <<Others, connVars, bad>>

\* send and receive_exact look at connected_ first, without the mutex.
Check(c) ==
    /\ pc[c] = "check"
    /\ IF connected[c] /\ fd[c] = "open" THEN Goto(c, "lock") /\ UNCHANGED <<io, bad>> ELSE Leave(c)
    /\ UNCHANGED <<Others, connVars>>

LockSocket(c) ==
    /\ pc[c] = "lock" /\ socket_mutex[c] = Free
    /\ socket_mutex' = [socket_mutex EXCEPT ![c] = "handler"]
    /\ using' = [using EXCEPT ![c] = fd[c]]
    /\ calls' = [calls EXCEPT ![c] = 1]
    /\ Goto(c, "io")
    /\ UNCHANGED <<Others, connected, fd, io, bad>>

\* The call has moved a part of the message: the loop of send and receive_exact goes on with
\* the rest of it, still under the mutex and without another look at connected_.
TransferPart(c) ==
    /\ pc[c] = "io" /\ using[c] = "open" /\ calls[c] < MaxCalls
    /\ calls' = [calls EXCEPT ![c] = @ + 1]
    /\ using' = [using EXCEPT ![c] = fd[c]]
    /\ UNCHANGED <<Others, connected, fd, socket_mutex, handlerVars>>

UnlockSocket(c) ==
    /\ socket_mutex' = [socket_mutex EXCEPT ![c] = Free]
    /\ using' = [using EXCEPT ![c] = "none"]
    /\ calls' = [calls EXCEPT ![c] = 0]
    /\ UNCHANGED fd

\* The last call has completed the transfer.  After the length of a request its data, then the command;
\* after the response the next request, or the end if the request could not be decoded.
\* A length that is zero or too large ends the connection.
TransferDone(c) ==
    /\ pc[c] = "io" /\ using[c] = "open"
    /\ UnlockSocket(c) /\ UNCHANGED connected
    /\ \/ /\ Transfers[io[c]] \in {"receive_length", "send_length"}
          /\ Goto(c, "check") /\ io' = [io EXCEPT ![c] = @ + 1] /\ UNCHANGED bad
       \/ Transfers[io[c]] = "receive_length" /\ Leave(c)
       \/ Transfers[io[c]] = "receive_data" /\ Goto(c, "dispatch") /\ UNCHANGED <<io, bad>>
       \/ Transfers[io[c]] = "send_data" /\ bad[c] /\ Leave(c)
       \/ Transfers[io[c]] = "send_data" /\ ~bad[c] /\ Goto(c, "top") /\ UNCHANGED <<io, bad>>
    /\ UNCHANGED Others

\* A call ends the transfer early: the peer closed the connection, the call failed or was
\* without a byte for the 30 seconds of SO_RCVTIMEO or SO_SNDTIMEO, or the descriptor was
\* closed between the check and the lock.
TransferFails(c) ==
    /\ pc[c] = "io"
    /\ UnlockSocket(c)
    /\ connected' = [connected EXCEPT ![c] = FALSE]
    /\ Leave(c)
    /\ UNCHANGED Others

\* process_request with the request in hand: the command is executed, or could not be
\* decoded; the response is sent, unless it is too large.
Dispatch(c) ==
    /\ pc[c] = "dispatch"
    /\ \/ Goto(c, "check") /\ io' = [io EXCEPT ![c] = @ + 1] /\ bad' \in {bad, [bad EXCEPT ![c] = TRUE]}
       \/ Leave(c)
    /\ UNCHANGED <<Others, connVars>>

\* TcpServer::handle_connection after the handler: conn->close() and remove_connection.
HandlerExchange(c) ==
    /\ pc[c] = "close"
    /\ Exchange(c)
    /\ Goto(c, IF connected[c] THEN "close_fd" ELSE "remove")
    /\ UNCHANGED <<Others, io, bad>>

HandlerClose(c) ==
    /\ pc[c] = "close_fd"
    /\ CloseFd(c)
    /\ Goto(c, "remove")
    /\ UNCHANGED <<Others, io, bad>>

remove_connection(c) ==
    /\ pc[c] = "remove" /\ list_mutex = Free
    /\ active' = active \ {c}
    /\ Goto(c, "done")
    /\ UNCHANGED <<mainVars, acceptVars, list_mutex, connVars, io, bad>>
-----------------------------------------------------------------------------
Main ==
    \/ CloseSocket \/ JoinAccept \/ Cleanup \/ CleanupDone \/ JoinHandlers
    \/ \E c \in Conns : CleanupExchange(c) \/ CleanupClose(c)
Acceptor == AcceptLoop \/ \E c \in Conns : add_connection(c) \/ Spawn(c)
Exchanging(c) ==
    \/ Loop(c) \/ Check(c) \/ LockSocket(c) \/ TransferPart(c) \/ TransferDone(c) \/ TransferFails(c)
    \/ HandlerExchange(c) \/ HandlerClose(c) \/ remove_connection(c)
Handler(c) == Exchanging(c) \/ Dispatch(c)

\* The server has stopped, and its threads with it.
Stopped == main = "stopped" /\ UNCHANGED vars

Next ==
    \/ Start \/ Stop \/ Main \/ Acceptor \/ AcceptFails \/ Stopped
    \/ \E c \in Conns : Accept(c) \/ Handler(c)

Spec == Init /\ [][Next]_vars
\* Threads run, and accept() returns once its socket is shut down.  A transfer ends: each
\* call moves a byte at least, or ends it after 30 seconds at the latest, and a message has
\* MAX_MESSAGE_SIZE bytes at most.  (A peer that sends byte after byte may still draw it out
\* for far longer than the 30 seconds.)  That a command gets its answer is the affair of the
\* state machine, which has no timeout of its own: Server says when it does.
Transferring ==
    /\ WF_vars(Main)
    /\ WF_vars(Acceptor)
    /\ WF_vars(server_fd = "closed" /\ AcceptFails)
    /\ \A c \in Conns : WF_vars(Exchanging(c))
Answering == \A c \in Conns : WF_vars(Dispatch(c))
-----------------------------------------------------------------------------
\* Every thread is at a place it can be at.  A socket mutex is held exactly during a
\* transfer, and the list mutex only by the thread that closes the connections.
TypeOK ==
    /\ main \in {"init", "running", "close_socket", "join_accept", "cleanup", "closing",
                 "join", "stopped"}
    /\ accepting \in {"none", "loop", "accept", "add", "spawn", "done"}
    /\ server_fd \in {"none", "open", "closed"} /\ should_stop \in BOOLEAN
    /\ accepted \subseteq Conns /\ active \subseteq Conns
    /\ todo \subseteq Conns /\ closing \subseteq Conns
    /\ list_mutex = (IF main = "closing" THEN "main" ELSE Free)
    /\ connected \in [Conns -> BOOLEAN]
    /\ fd \in [Conns -> {"none", "open", "closed"}]
    /\ using \in [Conns -> {"none", "open", "closed"}] /\ calls \in [Conns -> 0..MaxCalls]
    /\ pc \in [Conns -> {"none", "top", "check", "lock", "io", "dispatch", "close", "close_fd",
                         "remove", "done"}]
    /\ io \in [Conns -> DOMAIN Transfers] /\ bad \in [Conns -> BOOLEAN]
    /\ socket_mutex = [c \in Conns |-> IF pc[c] = "io" THEN "handler" ELSE Free]
    /\ \A c \in Conns : connected[c] => fd[c] = "open"

\* A descriptor is never closed under a recv or send that uses it: nobody else's file or
\* connection can get its number while a thread still reads from it or writes to it.
NotClosedInUse == \A c \in Conns : using[c] = "open" => fd[c] = "open"

\* Once the connections are cleaned up there is none that is still connected, not even
\* one accepted while stop() was running, so no handler starts another request.
CleanupComplete == main \in {"join", "stopped"} => \A c \in Conns : ~connected[c]

\* When stop() has returned no thread of the server is left: main destroys RpcServer and
\* shuts the state machine down next, and a handler would use both.
NothingLeftRunning ==
    main = "stopped" =>
        /\ active = {} /\ accepting \in {"none", "done"}
        /\ \A c \in Conns : pc[c] \in {"none", "done"}

\* A connection whose handler has finished is closed.
ClosedWhenDone == \A c \in Conns : pc[c] = "done" => fd[c] = "closed"
=============================================================================
