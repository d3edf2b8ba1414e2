---------------------------- MODULE ServerProofs ----------------------------
(***************************************************************************)
(* The safety properties of TcpServer, for any number of connections, and  *)
(* from them those of the server process; at the end the configuration it  *)
(* is started with, for any options, files and flags.                      *)
(***************************************************************************)
EXTENDS Server, Config, TLAPS

\* What the places of a handler say about its connection: it has a descriptor, uses it
\* only inside a transfer, and once past the exchange of close() is disconnected.
HandlerPlaces ==
    \A c \in Conns :
        /\ fd[c] = "none" => pc[c] = "none"
        /\ using[c] # "none" => pc[c] = "io"
        /\ pc[c] = "dispatch" => io[c] = 2
        /\ pc[c] \in {"close_fd", "remove", "done"} => ~connected[c]

\* A connection is known to the list, or about to be added to it, as long as it is
\* connected; those the cleanup is through with are not.
KnownWhileConnected ==
    \A c \in Conns : connected[c] =>
        /\ c \in active \/ (accepting = "add" /\ c \in accepted)
        /\ main = "closing" => c \in todo

\* The connection in the accept thread's hands is fresh, and the one in the cleanup's
\* hands is past the exchange of close().
InHand ==
    /\ \A c \in accepted : fd[c] # "none" /\ pc[c] = "none" /\ accepted = {c}
    /\ \A c \in closing : main = "closing" /\ ~connected[c] /\ fd[c] # "none"

\* Where the accept thread is while stop() goes on.
AcceptorGone ==
    /\ main \in {"cleanup", "closing", "join"} => accepting = "done"
    /\ main \in {"init", "stopped"} => accepting \in {"none", "done"}
    /\ main = "init" => accepting = "none" /\ active = {} /\ \A c \in Conns : fd[c] = "none"
    /\ main \in {"join", "stopped"} => active = {}

\* The inductive invariant.
Inv ==
    /\ TypeOK
    /\ HandlerPlaces
    /\ KnownWhileConnected
    /\ InHand
    /\ AcceptorGone
    /\ NotClosedInUse
    /\ CleanupComplete
    /\ NothingLeftRunning

\* A request takes four transfers, and the receive_data of process_request is the second.
LEMMA FourTransfers ==
  /\ DOMAIN Transfers = 1..4
  /\ \A i \in 1..4 : Transfers[i] \in {"receive_length", "send_length"} => i + 1 \in 1..4
  /\ \A i \in 1..4 : Transfers[i] = "receive_data" => i = 2
<1>1. \A i \in 1..4 : i = 1 \/ i = 2 \/ i = 3 \/ i = 4
  OBVIOUS
<1>2. /\ DOMAIN Transfers = 1..4
      /\ Transfers[1] = "receive_length" /\ Transfers[2] = "receive_data"
      /\ Transfers[3] = "send_length" /\ Transfers[4] = "send_data"
  BY DEF Transfers
<1> QED
  BY <1>1, <1>2

\* A server that was just constructed satisfies the invariant.
LEMMA InitInv == Init => Inv
<1> SUFFICES ASSUME Init PROVE Inv
  OBVIOUS
<1>1. TypeOK
  <2>1. io \in [Conns -> DOMAIN Transfers]
    BY FourTransfers DEF Init
  <2>2. socket_mutex = [c \in Conns |-> IF pc[c] = "io" THEN "handler" ELSE Free]
    BY DEF Init
  <2>3. calls \in [Conns -> 0..MaxCalls]
    BY MaxCallsConstant DEF Init
  <2> QED
    BY <2>1, <2>2, <2>3 DEF Init, TypeOK
<1>2. HandlerPlaces /\ KnownWhileConnected /\ InHand /\ AcceptorGone
  BY DEF Init, HandlerPlaces, KnownWhileConnected, InHand, AcceptorGone
<1>3. NotClosedInUse /\ CleanupComplete /\ NothingLeftRunning
  BY DEF Init, NotClosedInUse, CleanupComplete, NothingLeftRunning
<1> QED
  BY <1>1, <1>2, <1>3 DEF Inv

\* Every step of main, of accept_loop and of a handler thread preserves it.
LEMMA StepInv == Inv /\ [Next]_vars => Inv'
<1> SUFFICES ASSUME Inv, [Next]_vars PROVE Inv'
  OBVIOUS
<1> USE DEF Inv, TypeOK, HandlerPlaces, KnownWhileConnected, InHand, AcceptorGone, NotClosedInUse,
            CleanupComplete, NothingLeftRunning, Free, mainVars, acceptVars, listVars, connVars,
            handlerVars, Others, Goto, Leave, UnlockSocket, Exchange, CloseFd
<1>1. CASE Start
  BY <1>1, FourTransfers DEF Start
<1>2. CASE Stop
  BY <1>2, FourTransfers DEF Stop
<1>3. CASE CloseSocket
  BY <1>3, FourTransfers DEF CloseSocket
<1>4. CASE JoinAccept
  BY <1>4, FourTransfers DEF JoinAccept
<1>5. CASE Cleanup
  BY <1>5, FourTransfers DEF Cleanup
<1>6. CASE CleanupDone
  BY <1>6, FourTransfers DEF CleanupDone
<1>7. CASE JoinHandlers
  BY <1>7, FourTransfers DEF JoinHandlers
<1>8. CASE AcceptLoop
  BY <1>8, FourTransfers DEF AcceptLoop
<1>9. CASE AcceptFails
  BY <1>9, FourTransfers DEF AcceptFails
<1>10. ASSUME NEW c \in Conns, CleanupExchange(c) PROVE Inv'
  BY <1>10, FourTransfers DEF CleanupExchange
<1>11. ASSUME NEW c \in Conns, CleanupClose(c) PROVE Inv'
  <2>1. TypeOK'
    BY <1>11, FourTransfers DEF CleanupClose
  <2>2. HandlerPlaces'
    BY <1>11, FourTransfers DEF CleanupClose
  <2>3. KnownWhileConnected'
    BY <1>11, FourTransfers DEF CleanupClose
  <2>4. AcceptorGone'
    BY <1>11, FourTransfers DEF CleanupClose
  <2>5. NotClosedInUse'
    BY <1>11, FourTransfers DEF CleanupClose
  <2>6. CleanupComplete'
    BY <1>11, FourTransfers DEF CleanupClose
  <2>7. NothingLeftRunning'
    BY <1>11, FourTransfers DEF CleanupClose
  <2>8. InHand'
    BY <1>11, FourTransfers DEF CleanupClose
  <2> QED
    BY <2>1, <2>2, <2>3, <2>4, <2>5, <2>6, <2>7, <2>8
<1>12. ASSUME NEW c \in Conns, Accept(c) PROVE Inv'
  BY <1>12, FourTransfers DEF Accept
<1>13. ASSUME NEW c \in Conns, add_connection(c) PROVE Inv'
  <2>1. TypeOK'
    BY <1>13, FourTransfers DEF add_connection
  <2>2. HandlerPlaces'
    BY <1>13, FourTransfers DEF add_connection
  <2>3. KnownWhileConnected'
    BY <1>13, FourTransfers DEF add_connection
  <2>4. AcceptorGone'
    BY <1>13, FourTransfers DEF add_connection
  <2>5. NotClosedInUse'
    BY <1>13, FourTransfers DEF add_connection
  <2>6. CleanupComplete'
    BY <1>13, FourTransfers DEF add_connection
  <2>7. NothingLeftRunning'
    BY <1>13, FourTransfers DEF add_connection
  <2>8. InHand'
    BY <1>13, FourTransfers DEF add_connection
  <2> QED
    BY <2>1, <2>2, <2>3, <2>4, <2>5, <2>6, <2>7, <2>8
<1>14. ASSUME NEW c \in Conns, Spawn(c) PROVE Inv'
  <2>1. TypeOK'
    BY <1>14, FourTransfers DEF Spawn
  <2>2. HandlerPlaces'
    BY <1>14, FourTransfers DEF Spawn
  <2>3. KnownWhileConnected'
    BY <1>14, FourTransfers DEF Spawn
  <2>4. AcceptorGone'
    BY <1>14, FourTransfers DEF Spawn
  <2>5. NotClosedInUse'
    BY <1>14, FourTransfers DEF Spawn
  <2>6. CleanupComplete'
    BY <1>14, FourTransfers DEF Spawn
  <2>7. NothingLeftRunning'
    BY <1>14, FourTransfers DEF Spawn
  <2>8. InHand'
    BY <1>14, FourTransfers DEF Spawn
  <2> QED
    BY <2>1, <2>2, <2>3, <2>4, <2>5, <2>6, <2>7, <2>8
<1>15. ASSUME NEW c \in Conns, Loop(c) PROVE Inv'
  BY <1>15, FourTransfers DEF Loop
<1>16. ASSUME NEW c \in Conns, Check(c) PROVE Inv'
  <2>1. TypeOK'
    <3>1. io' \in [Conns -> DOMAIN Transfers] /\ bad' \in [Conns -> BOOLEAN]
      <4>1. io' \in {io, [io EXCEPT ![c] = 1]} /\ bad' \in {bad, [bad EXCEPT ![c] = FALSE]}
        BY <1>16, Zenon DEF Check
      <4>2. io \in [Conns -> DOMAIN Transfers] /\ bad \in [Conns -> BOOLEAN]
        OBVIOUS
      <4> HIDE DEF Inv
      <4>3. io' \in [Conns -> DOMAIN Transfers]
        BY <4>1, <4>2, FourTransfers
      <4>4. [bad EXCEPT ![c] = FALSE] \in [Conns -> BOOLEAN]
        BY <4>2
      <4> QED
        BY <4>1, <4>2, <4>3, <4>4
    <3>2. pc' \in [Conns -> {"none", "top", "check", "lock", "io", "dispatch", "close",
                             "close_fd", "remove", "done"}]
      BY <1>16 DEF Check
    <3>3. socket_mutex' = [d \in Conns |-> IF pc'[d] = "io" THEN "handler" ELSE Free]
      BY <1>16 DEF Check
    <3> QED
      BY <1>16, <3>1, <3>2, <3>3 DEF Check
  <2>2. HandlerPlaces'
    BY <1>16, FourTransfers DEF Check
  <2>3. KnownWhileConnected' /\ InHand'
    BY <1>16 DEF Check
  <2>4. AcceptorGone'
    BY <1>16 DEF Check
  <2>5. NotClosedInUse' /\ CleanupComplete'
    BY <1>16 DEF Check
  <2>6. NothingLeftRunning'
    BY <1>16 DEF Check
  <2> QED
    BY <2>1, <2>2, <2>3, <2>4, <2>5, <2>6
<1>17. ASSUME NEW c \in Conns, LockSocket(c) PROVE Inv'
  <2>1. TypeOK'
    <3>1. calls' \in [Conns -> 0..MaxCalls]
      BY <1>17, MaxCallsConstant DEF LockSocket
    <3>2. using' \in [Conns -> {"none", "open", "closed"}]
      BY <1>17 DEF LockSocket
    <3>3. socket_mutex' = [d \in Conns |-> IF pc'[d] = "io" THEN "handler" ELSE Free]
      BY <1>17 DEF LockSocket
    <3> QED
      BY <1>17, <3>1, <3>2, <3>3 DEF LockSocket
  <2>2. HandlerPlaces'
    BY <1>17, FourTransfers DEF LockSocket
  <2>3. KnownWhileConnected'
    BY <1>17, FourTransfers DEF LockSocket
  <2>4. AcceptorGone'
    BY <1>17, FourTransfers DEF LockSocket
  <2>5. NotClosedInUse'
    BY <1>17, FourTransfers DEF LockSocket
  <2>6. CleanupComplete'
    BY <1>17, FourTransfers DEF LockSocket
  <2>7. NothingLeftRunning'
    BY <1>17, FourTransfers DEF LockSocket
  <2>8. InHand'
    BY <1>17, FourTransfers DEF LockSocket
  <2> QED
    BY <2>1, <2>2, <2>3, <2>4, <2>5, <2>6, <2>7, <2>8
<1>18. ASSUME NEW c \in Conns, TransferDone(c) PROVE Inv'
  <2>1. TypeOK'
    <3>1. io' \in [Conns -> DOMAIN Transfers]
      BY <1>18, FourTransfers DEF TransferDone
    <3>2. socket_mutex' = [d \in Conns |-> IF pc'[d] = "io" THEN "handler" ELSE Free]
      <4>1. \E where \in {"check", "close", "dispatch", "top"} : pc' = [pc EXCEPT ![c] = where]
        BY <1>18 DEF TransferDone
      <4>2. socket_mutex' = [socket_mutex EXCEPT ![c] = Free]
        BY <1>18 DEF TransferDone
      <4>3. /\ socket_mutex = [d \in Conns |-> IF pc[d] = "io" THEN "handler" ELSE Free]
            /\ DOMAIN pc = Conns
        OBVIOUS
      <4>4. \A d \in Conns : d # c => pc'[d] = pc[d]
        BY <4>1, <4>3
      <4>5. pc'[c] # "io"
        BY <4>1, <4>3
      <4> HIDE DEF Inv
      <4> QED
        BY <4>2, <4>3, <4>4, <4>5
    <3>3. pc' \in [Conns -> {"none", "top", "check", "lock", "io", "dispatch", "close",
                             "close_fd", "remove", "done"}]
      BY <1>18 DEF TransferDone
    <3>4. connected' \in [Conns -> BOOLEAN] /\ bad' \in [Conns -> BOOLEAN]
      BY <1>18 DEF TransferDone
    <3>5. \A d \in Conns : connected'[d] => fd'[d] = "open"
      BY <1>18 DEF TransferDone
    <3>6. using' \in [Conns -> {"none", "open", "closed"}] /\ calls' \in [Conns -> 0..MaxCalls]
      BY <1>18, MaxCallsConstant DEF TransferDone
    <3> QED
      BY <1>18, <3>1, <3>2, <3>3, <3>4, <3>5, <3>6 DEF TransferDone
  <2>2. HandlerPlaces'
    BY <1>18, FourTransfers DEF TransferDone
  <2>3. KnownWhileConnected'
    BY <1>18, FourTransfers DEF TransferDone
  <2>4. AcceptorGone'
    BY <1>18, FourTransfers DEF TransferDone
  <2>5. NotClosedInUse'
    BY <1>18, FourTransfers DEF TransferDone
  <2>6. CleanupComplete'
    BY <1>18, FourTransfers DEF TransferDone
  <2>7. NothingLeftRunning'
    BY <1>18, FourTransfers DEF TransferDone
  <2>8. InHand'
    BY <1>18, FourTransfers DEF TransferDone
  <2> QED
    BY <2>1, <2>2, <2>3, <2>4, <2>5, <2>6, <2>7, <2>8
<1>19. ASSUME NEW c \in Conns, TransferFails(c) PROVE Inv'
  <2>1. TypeOK'
    <3>1. io' \in [Conns -> DOMAIN Transfers]
      BY <1>19, FourTransfers DEF TransferFails
    <3>2. socket_mutex' = [d \in Conns |-> IF pc'[d] = "io" THEN "handler" ELSE Free]
      BY <1>19 DEF TransferFails
    <3>3. pc' \in [Conns -> {"none", "top", "check", "lock", "io", "dispatch", "close",
                             "close_fd", "remove", "done"}]
      BY <1>19 DEF TransferFails
    <3>4. connected' \in [Conns -> BOOLEAN] /\ bad' \in [Conns -> BOOLEAN]
      BY <1>19 DEF TransferFails
    <3>5. \A d \in Conns : connected'[d] => fd'[d] = "open"
      BY <1>19 DEF TransferFails
    <3>6. using' \in [Conns -> {"none", "open", "closed"}] /\ calls' \in [Conns -> 0..MaxCalls]
      BY <1>19, MaxCallsConstant DEF TransferFails
    <3> QED
      BY <1>19, <3>1, <3>2, <3>3, <3>4, <3>5, <3>6 DEF TransferFails
  <2>2. HandlerPlaces'
    BY <1>19, FourTransfers DEF TransferFails
  <2>3. KnownWhileConnected'
    BY <1>19, FourTransfers DEF TransferFails
  <2>4. AcceptorGone'
    BY <1>19, FourTransfers DEF TransferFails
  <2>5. NotClosedInUse'
    BY <1>19, FourTransfers DEF TransferFails
  <2>6. CleanupComplete'
    BY <1>19, FourTransfers DEF TransferFails
  <2>7. NothingLeftRunning'
    BY <1>19, FourTransfers DEF TransferFails
  <2>8. InHand'
    BY <1>19, FourTransfers DEF TransferFails
  <2> QED
    BY <2>1, <2>2, <2>3, <2>4, <2>5, <2>6, <2>7, <2>8
<1>20. ASSUME NEW c \in Conns, Dispatch(c) PROVE Inv'
  <2>1. TypeOK'
    <3>1. io' \in [Conns -> DOMAIN Transfers]
      BY <1>20, FourTransfers DEF Dispatch
    <3>2. socket_mutex' = [d \in Conns |-> IF pc'[d] = "io" THEN "handler" ELSE Free]
      BY <1>20 DEF Dispatch
    <3>3. pc' \in [Conns -> {"none", "top", "check", "lock", "io", "dispatch", "close",
                             "close_fd", "remove", "done"}]
      BY <1>20 DEF Dispatch
    <3>4. bad' \in [Conns -> BOOLEAN]
      <4>1. bad' \in {bad, [bad EXCEPT ![c] = TRUE], [bad EXCEPT ![c] = FALSE]}
        BY <1>20, Zenon DEF Dispatch
      <4> QED
        BY <4>1
    <3>5. \A d \in Conns : connected'[d] => fd'[d] = "open"
      BY <1>20 DEF Dispatch
    <3>6. using' \in [Conns -> {"none", "open", "closed"}]
      BY <1>20 DEF Dispatch
    <3> QED
      BY <1>20, <3>1, <3>2, <3>3, <3>4, <3>5, <3>6 DEF Dispatch
  <2>2. HandlerPlaces'
    BY <1>20, FourTransfers DEF Dispatch
  <2>3. KnownWhileConnected'
    BY <1>20, FourTransfers DEF Dispatch
  <2>4. AcceptorGone'
    BY <1>20, FourTransfers DEF Dispatch
  <2>5. NotClosedInUse'
    BY <1>20, FourTransfers DEF Dispatch
  <2>6. CleanupComplete'
    BY <1>20, FourTransfers DEF Dispatch
  <2>7. NothingLeftRunning'
    BY <1>20, FourTransfers DEF Dispatch
  <2>8. InHand'
    BY <1>20, FourTransfers DEF Dispatch
  <2> QED
    BY <2>1, <2>2, <2>3, <2>4, <2>5, <2>6, <2>7, <2>8
<1>21. ASSUME NEW c \in Conns, HandlerExchange(c) PROVE Inv'
  BY <1>21, FourTransfers DEF HandlerExchange
<1>22. ASSUME NEW c \in Conns, HandlerClose(c) PROVE Inv'
  BY <1>22, FourTransfers DEF HandlerClose
<1>23. ASSUME NEW c \in Conns, remove_connection(c) PROVE Inv'
  BY <1>23, FourTransfers DEF remove_connection
<1>24. ASSUME NEW c \in Conns, TransferPart(c) PROVE Inv'
  <2>1. TypeOK'
    <3>1. calls' \in [Conns -> 0..MaxCalls]
      BY <1>24, MaxCallsConstant DEF TransferPart
    <3>2. using' \in [Conns -> {"none", "open", "closed"}]
      BY <1>24 DEF TransferPart
    <3> QED
      BY <1>24, <3>1, <3>2 DEF TransferPart
  <2>2. HandlerPlaces' /\ KnownWhileConnected' /\ InHand' /\ AcceptorGone'
    BY <1>24 DEF TransferPart
  <2>3. NotClosedInUse'
    BY <1>24 DEF TransferPart
  <2>4. CleanupComplete' /\ NothingLeftRunning'
    BY <1>24 DEF TransferPart
  <2> QED
    BY <2>1, <2>2, <2>3, <2>4
<1>25. CASE UNCHANGED vars
  BY <1>25 DEF vars
<1> HIDE DEF Inv
<1> QED
  BY <1>1, <1>2, <1>3, <1>4, <1>5, <1>6, <1>7, <1>8, <1>9, <1>10, <1>11, <1>12, <1>13, <1>14, <1>15, <1>16, <1>17, <1>18, <1>19, <1>20, <1>21, <1>22, <1>23, <1>24, <1>25
     DEF Next, Main, Acceptor, Handler, Exchanging, Stopped

\* Every behaviour of the server satisfies the inductive invariant.
THEOREM InvHolds == Spec => []Inv
  BY InitInv, StepInv, PTL DEF Spec

\* The threads, locks, lists and descriptors of the server are always well formed; in
\* particular socket_mutex_ is held during transfers only, and connections_mutex_ by
\* cleanup_connections only.
THEOREM TypeCorrect == Spec => []TypeOK
<1>1. Inv => TypeOK
  BY DEF Inv
<1> QED
  BY <1>1, InvHolds, PTL

\* TcpConnection::close never closes a descriptor under a transfer that uses it.
THEOREM DescriptorsSafe == Spec => []NotClosedInUse
<1>1. Inv => NotClosedInUse
  BY DEF Inv
<1> QED
  BY <1>1, InvHolds, PTL

\* No connection accepted while stop() runs escapes cleanup_connections.
THEOREM CleanupReachesAll == Spec => []CleanupComplete
<1>1. Inv => CleanupComplete
  BY DEF Inv
<1> QED
  BY <1>1, InvHolds, PTL

\* No thread of the server outlives stop().
THEOREM ThreadsGone == Spec => []NothingLeftRunning
<1>1. Inv => NothingLeftRunning
  BY DEF Inv
<1> QED
  BY <1>1, InvHolds, PTL

-----------------------------------------------------------------------------
\* What the TCP server has come to when main() is at each place.
TcpInStep ==
    /\ at \in {"configure", "storage", "directories", "brpc", "raft", "rpc"} => main = "init"
    /\ at = "serve" => main = "running"
    /\ at = "stop_rpc" => main # "init"
    /\ at \in {"stop_raft", "join_raft", "stop_brpc", "exit"} => main \in {"init", "stopped"}

\* A command in the state machine belongs to a handler in dispatch_command.
CommandsInHand == \A c \in Conns : serving[c] # "none" => pc[c] = "dispatch"

\* The node is told to stop before it is joined; the listening socket is open from start()
\* to close_socket() only; and main() is going to return 0 if stop() was called, and 1 if
\* start-up has failed.
Progress ==
    /\ at = "join_raft" => raft # "up"
    /\ main \notin {"running", "close_socket"} => server_fd # "open"
    /\ main \in {"init", "running"} => ~should_stop
    /\ main \notin {"init", "running", "stopped"} => should_stop
    /\ at = "stop_rpc" /\ main = "stopped" => should_stop
    /\ at \in {"stop_raft", "join_raft", "stop_brpc", "exit"} => (code = 0 <=> should_stop)
    /\ at \notin {"stop_raft", "join_raft", "stop_brpc", "exit"} => code = 0

\* The inductive invariant.
ServerInv ==
    /\ Inv
    /\ ServerTypeOK
    /\ TcpInStep
    /\ CommandsInHand
    /\ Progress
    /\ OnlyLiveParts
    /\ ExitClean

\* A process that has just begun satisfies the invariant.
LEMMA ServerInitInv == ServerInit => ServerInv
<1> SUFFICES ASSUME ServerInit PROVE ServerInv
  OBVIOUS
<1>1. Inv
  BY InitInv DEF ServerInit
<1>2. ServerTypeOK /\ TcpInStep /\ CommandsInHand /\ Progress
  BY Zenon DEF ServerInit, Init, ServerTypeOK, TcpInStep, CommandsInHand, Progress
<1>3. OnlyLiveParts /\ ExitClean
  BY Zenon DEF ServerInit, Init, OnlyLiveParts, ExitClean
<1> QED
  BY <1>1, <1>2, <1>3 DEF ServerInv

\* Every step of the process is a step of TcpServer, or leaves TcpServer alone.
LEMMA ServerStepIsTcpStep == [ServerNext]_serverVars => [Next]_vars
<1> SUFFICES ASSUME [ServerNext]_serverVars PROVE [Next]_vars
  OBVIOUS
<1>1. CASE UNCHANGED serverVars
  BY <1>1 DEF serverVars
<1>2. CASE signal_handler \/ EnterApply \/ LeaveApply \/ RenameToItself \/ Exited
  BY <1>2 DEF signal_handler, EnterApply, LeaveApply, RenameToItself, Exited, serverVars
<1>3. CASE MainThread
  BY <1>3 DEF MainThread, Configure, init_storage, init_raft_directories, init_brpc_server,
              init_raft_node, initialize_rpc_server, MainLoop, StopRpc, RpcStopped, ShutdownRaft,
              JoinRaft, ShutdownBrpc, Next
<1>4. CASE (Acceptor /\ Inside) \/ (AcceptFails /\ Inside)
  BY <1>4 DEF Next
<1>5. ASSUME NEW c \in Conns, (Accept(c) /\ Inside) \/ HandlerThread(c) \/ RunClosure(c)
      PROVE  [Next]_vars
  BY <1>5 DEF HandlerThread, HandlerIO, Apply, ReadDone, Answered, RunClosure, Next, Handler
<1> QED
  BY <1>1, <1>2, <1>3, <1>4, <1>5 DEF ServerNext

\* Every step of main(), of a handler in the state machine, of raft's thread and of
\* TcpServer preserves the invariant.
LEMMA ServerStepInv == ServerInv /\ [ServerNext]_serverVars => ServerInv'
<1> SUFFICES ASSUME ServerInv, [ServerNext]_serverVars PROVE ServerInv'
  OBVIOUS
<1>0. Inv'
  BY ServerStepIsTcpStep, StepInv DEF ServerInv
<1> DEFINE Rest == ServerTypeOK /\ TcpInStep /\ CommandsInHand /\ Progress /\ OnlyLiveParts /\ ExitClean
<1> SUFFICES Rest'
  BY <1>0 DEF ServerInv
\* The threads of TcpServer run between start() and the end of stop() only.
<1>a. at \notin {"serve", "stop_rpc"} =>
        accepting \in {"none", "done"} /\ \A c \in Conns : pc[c] \in {"none", "done"}
  BY DEF ServerInv, Inv, TypeOK, HandlerPlaces, AcceptorGone, NothingLeftRunning, TcpInStep, ServerTypeOK
<1>b. \A c \in Conns : pc'[c] \notin {"none", "done"} => main' \notin {"init", "stopped"}
  BY <1>0 DEF Inv, TypeOK, HandlerPlaces, AcceptorGone, NothingLeftRunning
<1> USE DEF ServerTypeOK, TcpInStep, CommandsInHand, Progress, OnlyLiveParts, ExitClean
<1>1. CASE signal_handler
  BY <1>1, <1>a, <1>b, Zenon DEF ServerInv, signal_handler, Proceed, FailTo, vars, mainVars, acceptVars, listVars, connVars,
     handlerVars, processVars, machineVars
<1>2. CASE Configure
  BY <1>2, <1>a, <1>b DEF ServerInv, Configure, Proceed, FailTo, vars, mainVars, acceptVars, listVars, connVars,
     handlerVars, processVars, machineVars
<1>3. CASE init_storage
  BY <1>3, <1>a, <1>b DEF ServerInv, init_storage, Proceed, FailTo, vars, mainVars, acceptVars, listVars, connVars,
     handlerVars, processVars, machineVars
<1>4. CASE init_raft_directories
  BY <1>4, <1>a, <1>b DEF ServerInv, init_raft_directories, Proceed, FailTo, vars, mainVars, acceptVars, listVars, connVars,
     handlerVars, processVars, machineVars
<1>5. CASE init_brpc_server
  BY <1>5, <1>a, <1>b DEF ServerInv, init_brpc_server, Proceed, FailTo, vars, mainVars, acceptVars, listVars, connVars,
     handlerVars, processVars, machineVars
<1>6. CASE init_raft_node
  BY <1>6, <1>a, <1>b DEF ServerInv, init_raft_node, Proceed, FailTo, vars, mainVars, acceptVars, listVars, connVars,
     handlerVars, processVars, machineVars
<1>7. CASE initialize_rpc_server
  BY <1>7, <1>a, <1>b DEF ServerInv, initialize_rpc_server, Start, Proceed, FailTo, vars, mainVars, acceptVars, listVars, connVars,
     handlerVars, processVars, machineVars
<1>8. CASE MainLoop
  BY <1>8, <1>a, <1>b, Zenon DEF ServerInv, MainLoop, Proceed, FailTo, vars, mainVars, acceptVars, listVars, connVars,
     handlerVars, processVars, machineVars
<1>9. CASE StopRpc
  BY <1>9, <1>a, <1>b, Zenon DEF ServerInv, StopRpc, Stop, Proceed, FailTo, vars, mainVars, acceptVars, listVars, connVars,
     handlerVars, processVars, machineVars
<1>10. CASE RpcStopped
  BY <1>10, <1>a, <1>b, Zenon DEF ServerInv, RpcStopped, Proceed, FailTo, vars, mainVars, acceptVars, listVars, connVars,
     handlerVars, processVars, machineVars
<1>11. CASE ShutdownRaft
  BY <1>11, <1>a, <1>b, Zenon DEF ServerInv, ShutdownRaft, Proceed, FailTo, vars, mainVars, acceptVars, listVars, connVars,
     handlerVars, processVars, machineVars
<1>12. CASE JoinRaft
  BY <1>12, <1>a, <1>b, Zenon DEF ServerInv, JoinRaft, Proceed, FailTo, vars, mainVars, acceptVars, listVars, connVars,
     handlerVars, processVars, machineVars
<1>13. CASE ShutdownBrpc
  BY <1>13, <1>a, <1>b, Zenon DEF ServerInv, ShutdownBrpc, Proceed, FailTo, vars, mainVars, acceptVars, listVars, connVars,
     handlerVars, processVars, machineVars
<1>14. CASE EnterApply
  BY <1>14, <1>a, <1>b, Zenon DEF ServerInv, EnterApply, Proceed, FailTo, vars, mainVars, acceptVars, listVars, connVars,
     handlerVars, processVars, machineVars
<1>15. CASE LeaveApply \/ RenameToItself
  <2>1. applying = "entry" /\ applying' \in {"no", "stuck"}
    BY <1>15, Zenon DEF LeaveApply, RenameToItself
  <2>2. UNCHANGED <<vars, processVars, storage, raft, brpc, serving>>
    BY <1>15, Zenon DEF LeaveApply, RenameToItself
  <2> QED
    BY <2>1, <2>2 DEF ServerInv, vars, mainVars, acceptVars, handlerVars, processVars
<1>16. CASE Main /\ Inside
  <2>1. at = "stop_rpc" /\ main \notin {"init", "running", "stopped"}
    BY <1>16, Zenon DEF ServerInv, Inv, TypeOK, InHand, Main, CloseSocket, JoinAccept, Cleanup, CleanupDone,
                 JoinHandlers, CleanupExchange, CleanupClose
  <2>2. should_stop' = should_stop /\ main' \notin {"init", "running"} /\ pc' = pc
    BY <1>16, <2>1, Zenon DEF Main, CloseSocket, JoinAccept, Cleanup, CleanupDone, JoinHandlers,
                 CleanupExchange, CleanupClose, handlerVars, connVars, mainVars
  <2>3. main' \notin {"running", "close_socket"} => server_fd' # "open"
    BY <1>16, <2>1, Zenon DEF ServerInv, Main, CloseSocket, JoinAccept, Cleanup, CleanupDone, JoinHandlers,
                 CleanupExchange, CleanupClose, handlerVars, connVars, mainVars
  <2> QED
    BY <1>16, <2>1, <2>2, <2>3, Zenon DEF ServerInv, Inside, processVars, machineVars
<1>17. CASE (Acceptor \/ AcceptFails \/ \E c \in Conns : Accept(c)) /\ Inside
  <2>1. at \in {"serve", "stop_rpc"} /\ UNCHANGED mainVars
    BY <1>17, <1>a, Zenon DEF Acceptor, AcceptLoop, add_connection, Spawn, AcceptFails, Accept
  <2>2. \A d \in Conns : (pc[d] = "dispatch") = (pc'[d] = "dispatch")
    BY <1>17 DEF ServerInv, Inv, TypeOK, InHand, Acceptor, AcceptLoop, add_connection, Spawn, AcceptFails, Accept,
                 handlerVars
  <2>3. Inside
    BY <1>17, Zenon
  <2>4. ServerTypeOK' /\ CommandsInHand'
    BY <2>2, <2>3, Zenon DEF ServerInv, Inside, processVars, machineVars
  <2>5. TcpInStep' /\ Progress'
    BY <2>1, <2>3, Zenon DEF ServerInv, Inside, processVars, machineVars, mainVars
  <2>6. OnlyLiveParts'
    BY <2>1, <2>2, <2>3, Zenon DEF ServerInv, Inside, processVars, machineVars
  <2>7. ExitClean'
    BY <2>1, <2>3, Zenon DEF Inside, processVars
  <2> QED
    BY <2>4, <2>5, <2>6, <2>7, Zenon
<1>18. ASSUME NEW c \in Conns, HandlerIO(c) PROVE Rest'
  <2>1. at \in {"serve", "stop_rpc"} /\ UNCHANGED mainVars /\ pc[c] # "dispatch"
    BY <1>18, <1>a, Zenon DEF HandlerIO, Exchanging, Loop, Check, LockSocket, TransferPart, TransferDone,
                 TransferFails, HandlerExchange, HandlerClose, remove_connection, Others
  <2>2. \A d \in Conns : pc[d] = "dispatch" => pc'[d] = "dispatch"
    <3>1. UNCHANGED pc \/ \E where : Goto(c, where)
      BY <1>18, Zenon DEF HandlerIO, Exchanging, Loop, Check, LockSocket, TransferPart, TransferDone,
                      TransferFails, Leave, HandlerExchange, HandlerClose, remove_connection, handlerVars
    <3> QED
      BY <2>1, <3>1, Zenon DEF ServerInv, Inv, TypeOK, Goto
  <2>3. Inside
    BY <1>18, Zenon DEF HandlerIO
  <2>4. ServerTypeOK' /\ CommandsInHand'
    BY <2>2, <2>3, Zenon DEF ServerInv, Inside, processVars, machineVars
  <2>5. TcpInStep' /\ Progress'
    BY <2>1, <2>3, Zenon DEF ServerInv, Inside, processVars, machineVars, mainVars
  <2>6. OnlyLiveParts'
    BY <2>1, <2>3, Zenon DEF ServerInv, Inside, processVars, machineVars
  <2>7. ExitClean'
    BY <2>1, <2>3, Zenon DEF Inside, processVars
  <2> QED
    BY <2>4, <2>5, <2>6, <2>7, Zenon
<1>19. ASSUME NEW c \in Conns, Apply(c) \/ ReadDone(c) \/ RunClosure(c) PROVE Rest'
  BY <1>19 DEF ServerInv, Apply, ReadDone, RunClosure, vars, mainVars, acceptVars, handlerVars, processVars,
               machineVars
<1>20. ASSUME NEW c \in Conns, Answered(c) PROVE Rest'
  <2>1. at \in {"serve", "stop_rpc"} /\ UNCHANGED mainVars
    BY <1>20, <1>a, Zenon DEF Answered, Dispatch, Others
  <2>2. \A d \in Conns \ {c} : pc'[d] = pc[d]
    BY <1>20 DEF ServerInv, Inv, TypeOK, Answered, Dispatch, Leave, Goto
  <2> QED
    BY <1>20, <2>1, <2>2, Zenon DEF ServerInv, Answered, processVars, machineVars, mainVars
<1>21. CASE UNCHANGED serverVars
  BY <1>21 DEF ServerInv, serverVars, vars, mainVars, acceptVars, handlerVars, processVars, machineVars
<1> HIDE DEF Rest
<1> QED
  BY <1>1, <1>2, <1>3, <1>4, <1>5, <1>6, <1>7, <1>8, <1>9, <1>10, <1>11, <1>12, <1>13, <1>14, <1>15, <1>16, <1>17, <1>18, <1>19, <1>20, <1>21, Zenon
     DEF ServerNext, MainThread, HandlerThread, Exited

\* Every behaviour of the process satisfies the inductive invariant.
THEOREM ServerInvHolds == ServerSpec => []ServerInv
  BY ServerInitInv, ServerStepInv, PTL DEF ServerSpec

\* At every place main() can be at, the state machine has exactly the components that
\* main() has made by then and not taken down yet.
THEOREM ServerTypeCorrect == ServerSpec => []ServerTypeOK
<1>1. ServerInv => ServerTypeOK
  BY DEF ServerInv
<1> QED
  BY <1>1, ServerInvHolds, PTL

\* No handler, and no thread of raft, meets a storage or a raft node that is not there yet
\* or not there any more.
THEOREM PartsLiveWhenUsed == ServerSpec => []OnlyLiveParts
<1>1. ServerInv => OnlyLiveParts
  BY DEF ServerInv
<1> QED
  BY <1>1, ServerInvHolds, PTL

\* main() returns only after all that it has started is stopped.
THEOREM ExitIsClean == ServerSpec => []ExitClean
<1>1. ServerInv => ExitClean
  BY DEF ServerInv
<1> QED
  BY <1>1, ServerInvHolds, PTL

\* The process drives TcpServer the way the specification of TcpServer allows: start() once,
\* stop() once and after it, and an answer to each command.
THEOREM ServerImplementsTcpServer == ServerSpec => Spec
<1>1. ServerInit => Init
  BY DEF ServerInit
<1> QED
  BY <1>1, ServerStepIsTcpStep, PTL DEF ServerSpec, Spec
-----------------------------------------------------------------------------
\* An option keeps the value it was given last.
LEMMA OverFacts ==
  ASSUME NEW set, NEW config
  PROVE  /\ DOMAIN Over(set, config) = Options
         /\ \A o \in Options : o \in DOMAIN set => Over(set, config)[o] = set[o]
         /\ \A o \in Options : o \notin DOMAIN set => Over(set, config)[o] = config[o]
  BY Zenon DEF Over

\* What load_from_file returns: an error, or the options in the file, and a port that is one.
LEMMA LoadedFromFile ==
  ASSUME NEW path, NEW readable, NEW file, load_from_file(path, readable, file).ok
  PROVE  LET config == load_from_file(path, readable, file).value IN
         /\ path = "" => config = Default
         /\ path # "" => config = Over(file, Default)
         /\ config["rpc_port"] \in 0..PortModulus - 1
<1>1. \A v : Ok(v).ok /\ Ok(v).value = v /\ ~Error.ok
  BY Zenon DEF Ok, Error
<1>2. "rpc_port" \in Options /\ "rpc_port" \notin Strings
  BY ConfigConstants, Zenon DEF Options, Numbers
<1>3. Default["rpc_port"] \in 0..PortModulus - 1
  <2>1. Default["rpc_port"] = 3
    BY <1>2, Zenon DEF Default
  <2> QED
    BY <2>1, ConfigConstants
<1>4. CASE path = ""
  <2>1. load_from_file(path, readable, file) = Ok(Default)
    BY <1>4, Zenon DEF load_from_file
  <2> QED
    BY <1>1, <1>3, <1>4, <2>1, Zenon
<1>5. CASE path # ""
  <2>1. load_from_file(path, readable, file) = parse_yaml(readable, file)
    BY <1>5, Zenon DEF load_from_file
  <2>2. ~("rpc_port" \in DOMAIN file /\ file["rpc_port"] \notin 0..PortModulus - 1)
    BY <1>1, <2>1, Zenon DEF parse_yaml
  <2>3. load_from_file(path, readable, file) = Ok(Over(file, Default))
    BY <1>1, <2>1, Zenon DEF parse_yaml
  <2>4. Over(file, Default)["rpc_port"] \in 0..PortModulus - 1
    BY <1>2, <1>3, <2>2, OverFacts
  <2> QED
    BY <1>1, <1>5, <2>3, <2>4, Zenon
<1> QED
  BY <1>4, <1>5, Zenon

\* A number is positive or counts as absent, and a port that fits 16 bits is not changed by
\* narrowing it.
LEMMA NotNarrowed ==
  /\ 0 <= 0
  /\ \A n \in Int :
        /\ ~(n > 0) => n <= 0
        /\ ~(n >= PortModulus) => n < PortModulus
        /\ n > 0 => ~(n <= 0) /\ (n < PortModulus => n % PortModulus = n)
  BY ConfigConstants

\* load_configuration returns what the file and the flags make together, if it makes sense.
LEMMA LoadedIs ==
  ASSUME NEW path, NEW readable, NEW file, NEW flags
  PROVE  LET loaded == load_from_file(path, readable, file)
             config == apply_command_line_flags(loaded.value, flags)
         IN  load_configuration(path, readable, file, flags) =
                 IF loaded.ok /\ validate(config) THEN Ok(config) ELSE Error
  BY Zenon DEF load_configuration

\* Whatever is in the file and on the command line, main() goes on only with a configuration
\* that StateMachine::init accepts and whose port can be bound: no later check of the options
\* can fail.
THEOREM ConfigurationUsable ==
  ASSUME NEW path, NEW readable, NEW file, NEW flags, flags["rpc_port"] \in Int,
         load_configuration(path, readable, file, flags).ok
  PROVE  Usable(load_configuration(path, readable, file, flags).value)
<1> DEFINE loaded == load_from_file(path, readable, file)
           config == apply_command_line_flags(loaded.value, flags)
<1>1. \A v : Ok(v).value = v /\ ~Error.ok
  BY Zenon DEF Ok, Error
<1>2. loaded.ok /\ validate(config) /\ load_configuration(path, readable, file, flags) = Ok(config)
  BY <1>1, LoadedIs, Zenon
<1>3. config["rpc_port"] \in 0..PortModulus - 1
  <2>1. "rpc_port" \in Options /\ "rpc_port" \notin Strings
    BY ConfigConstants, Zenon DEF Options, Numbers
  <2>2. config["rpc_port"] = IF flags["rpc_port"] <= 0 THEN loaded.value["rpc_port"]
                             ELSE flags["rpc_port"] % PortModulus
    BY <2>1, Zenon DEF apply_command_line_flags
  <2>3. loaded.value["rpc_port"] \in 0..PortModulus - 1
    BY <1>2, LoadedFromFile, Zenon
  <2>4. flags["rpc_port"] % PortModulus \in 0..PortModulus - 1
    BY ConfigConstants
  <2> QED
    BY <2>2, <2>3, <2>4, Zenon
<1> HIDE DEF config
<1>4. config["rpc_port"] \in 1..PortModulus - 1
  <2>1. config["rpc_port"] # 0
    BY <1>2, Zenon DEF validate
  <2> QED
    BY <1>3, <2>1, ConfigConstants
<1>5. StateMachineAccepts(config) /\ config["snapshot_interval_s"] >= 0
  BY <1>2, Zenon DEF validate, StateMachineAccepts
<1> QED
  BY <1>1, <1>2, <1>4, <1>5, Zenon DEF Usable

\* Unless the port given has more than 16 bits, the server starts with exactly what was heard of the
\* command line, else with what is in the file, else with the defaults, or not at all; an
\* option set to "" or to a number that is not positive changes nothing in what the others
\* or the file say.
THEOREM ConfigurationAsGiven ==
  ASSUME NEW path, NEW readable, NEW file, NEW given, ~WidePort(given),
         \A o \in DOMAIN given \ Strings : given[o] \in Int,
         path = "" => DOMAIN file = {}
  PROVE  load_configuration(path, readable, file, Over(given, NoFlags))
             = AskedFor(path, readable, file, Heard(given))
<1> DEFINE flags == Over(given, NoFlags)
           heard == Heard(given)
           loaded == load_from_file(path, readable, file)
           wanted == Over(heard, Over(file, Default))
<1>1. \A v : Ok(v).ok /\ Ok(v).value = v
  BY Zenon DEF Ok
<1>2. CASE ~loaded.ok
  <2>1. path # "" /\ ~parse_yaml(readable, file).ok
    BY <1>1, <1>2, Zenon DEF load_from_file
  <2> QED
    BY <1>2, <2>1, LoadedIs, Zenon DEF AskedFor
<1>3. CASE loaded.ok
  <2>1. loaded.value = Over(file, Default)
    <3>1. CASE path = ""
      <4>1. Over(file, Default) = Default
        BY <3>1, Zenon DEF Over, Default
      <4> QED
        BY <1>3, <3>1, <4>1, LoadedFromFile, Zenon
    <3>2. CASE path # ""
      BY <1>3, <3>2, LoadedFromFile, Zenon
    <3> QED
      BY <3>1, <3>2, Zenon
  <2>2. ~(path # "" /\ ~parse_yaml(readable, file).ok)
    BY <1>3, Zenon DEF load_from_file
  <2>3. /\ \A o \in Options : o \in DOMAIN given => flags[o] = given[o]
        /\ \A o \in Options : o \notin DOMAIN given => flags[o] = NoFlags[o]
    BY Zenon DEF Over
  <2>4. /\ \A o : o \in DOMAIN heard <=>
               o \in DOMAIN given /\ (IF o \in Strings THEN given[o] # "" ELSE given[o] > 0)
        /\ \A o \in DOMAIN heard : heard[o] = given[o]
    BY Zenon DEF Heard
  <2> HIDE DEF flags, heard
  <2>5. ASSUME NEW config PROVE apply_command_line_flags(config, flags) = Over(heard, config)
    <3>1. ASSUME NEW o \in Options
          PROVE  (IF o \in Strings THEN IF flags[o] # "" THEN flags[o] ELSE config[o]
                  ELSE IF flags[o] <= 0 THEN config[o]
                  ELSE IF o = "rpc_port" THEN flags[o] % PortModulus ELSE flags[o])
                 = IF o \in DOMAIN heard THEN heard[o] ELSE config[o]
      <4>1. CASE o \notin DOMAIN heard
        <5>1. o \in Strings => flags[o] = ""
          BY <2>3, <2>4, <4>1, Zenon DEF NoFlags
        <5>2. o \notin Strings /\ o \in DOMAIN given => flags[o] \in Int /\ ~(flags[o] > 0)
          BY <2>3, <2>4, <4>1, Zenon
        <5>3. o \notin Strings => flags[o] <= 0
          BY <2>3, <5>2, NotNarrowed, Zenon DEF NoFlags
        <5> QED
          BY <4>1, <5>1, <5>3, Zenon
      <4>2. CASE o \in DOMAIN heard /\ o \in Strings
        <5>1. flags[o] = heard[o] /\ heard[o] # ""
          BY <2>3, <2>4, <4>2, Zenon
        <5> QED
          BY <4>2, <5>1, Zenon
      <4>3. CASE o \in DOMAIN heard /\ o \notin Strings
        <5>1. flags[o] = heard[o] /\ heard[o] = given[o] /\ o \in DOMAIN given /\ given[o] > 0
          BY <2>3, <2>4, <4>3, Zenon
        <5>2. given[o] \in Int
          BY <4>3, <5>1, Zenon
        <5>3. o = "rpc_port" => given[o] < PortModulus
          BY <5>1, <5>2, NotNarrowed, Zenon DEF WidePort
        <5>4. ~(given[o] <= 0) /\ (o = "rpc_port" => given[o] % PortModulus = given[o])
          BY <5>1, <5>2, <5>3, NotNarrowed, Zenon
        <5> QED
          BY <4>3, <5>1, <5>4, Zenon
      <4> QED
        BY <4>1, <4>2, <4>3, Zenon
    <3> QED
      BY <3>1, Zenon DEF apply_command_line_flags, Over
  <2>6. apply_command_line_flags(loaded.value, flags) = wanted
    BY <2>1, <2>5, Zenon
  <2>7. load_configuration(path, readable, file, flags) = IF validate(wanted) THEN Ok(wanted) ELSE Error
    BY <1>3, <2>6, LoadedIs, Zenon
  <2> QED
    BY <2>2, <2>7, Zenon DEF AskedFor, flags, heard
<1> QED
  BY <1>2, <1>3, Zenon
=============================================================================
