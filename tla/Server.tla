------------------------------- MODULE Server -------------------------------
(***************************************************************************)
(* The server process: main() (src/src/main.cc), StateMachine::init and    *)
(* shutdown (src/src/state_machine.cc), and the TcpServer they start and   *)
(* stop.  A handler's command is followed into the state machine, where a  *)
(* read uses the storage and a write waits for raft to run its closure;    *)
(* raft's own thread applies entries to the storage.                       *)
(***************************************************************************)
EXTENDS TcpServer

VARIABLES
    at,        \* where main() is
    code,      \* what it is going to return
    running,   \* g_running
    storage,   \* whether storage_ exists
    raft,      \* raft_node_: "none", "up", or "stopping" between shutdown and join
    brpc,      \* brpc_server_: "none", "made" or "up"
    serving,   \* the command of each handler: "none", "reading", "waiting" or "answered"
    applying   \* on_apply in raft's thread: "no", "entry", or "stuck" in an entry for ever

processVars == <<at, code, running>>
machineVars == <<storage, raft, brpc, applying>>
serverVars == <<vars, processVars, machineVars, serving>>

ServerInit ==
    /\ Init
    /\ at = "configure" /\ code = 0 /\ running = TRUE
    /\ storage = FALSE /\ raft = "none" /\ brpc = "none" /\ applying = "no"
    /\ serving = [c \in Conns |-> "none"]
-----------------------------------------------------------------------------
\* SIGINT or SIGTERM, at any time from the installation of the handlers on.
signal_handler ==
    /\ at # "exit"
    /\ running' = FALSE
    /\ UNCHANGED <<vars, at, code, machineVars, serving>>

\* A step of start-up goes on to the next one, or fails: then main() returns 1 after
\* taking down what there is.
Proceed(here, next) == at = here /\ at' = next /\ UNCHANGED <<code, running>>
FailTo(here, next) == at = here /\ at' = next /\ code' = 1 /\ UNCHANGED running

\* load_configuration, and the parsing of peer_addr.
Configure ==
    /\ Proceed("configure", "storage") \/ FailTo("configure", "exit")
    /\ UNCHANGED <<vars, machineVars, serving>>

\* StateMachine::init, step by step.
init_storage ==
    /\ Proceed("storage", "directories") \/ FailTo("storage", "stop_raft")
    /\ storage' = TRUE
    /\ UNCHANGED <<vars, raft, brpc, applying, serving>>

init_raft_directories ==
    /\ Proceed("directories", "brpc") \/ FailTo("directories", "stop_raft")
    /\ UNCHANGED <<vars, machineVars, serving>>

\* Mutant: a bRPC server that does not start is taken for one that does.
init_brpc_server_unchecked ==
    /\ Proceed("brpc", "raft") /\ brpc' \in {"made", "up"}
    /\ UNCHANGED <<vars, storage, raft, applying, serving>>

init_brpc_server ==
    /\ \/ Proceed("brpc", "raft") /\ brpc' = "up"
       \/ FailTo("brpc", "stop_raft") /\ brpc' = "made"
    /\ UNCHANGED <<vars, storage, raft, applying, serving>>

init_raft_node ==
    /\ \/ Proceed("raft", "rpc") /\ raft' = "up"
       \/ FailTo("raft", "stop_raft") /\ raft' = "none"
    /\ UNCHANGED <<vars, storage, brpc, applying, serving>>

\* Mutant: main() returns without taking down the state machine.
initialize_rpc_server_returns ==
    /\ Start
    /\ IF main' = "running" THEN Proceed("rpc", "serve") ELSE FailTo("rpc", "exit")
    /\ UNCHANGED <<machineVars, serving>>

\* Mutant: g_running is set here, and a signal that came before is forgotten.
initialize_rpc_server_sets ==
    /\ Start
    /\ at = "rpc" /\ running' = TRUE
    /\ IF main' = "running" THEN at' = "serve" /\ UNCHANGED code ELSE at' = "stop_raft" /\ code' = 1
    /\ UNCHANGED <<machineVars, serving>>

\* initialize_rpc_server.
initialize_rpc_server ==
    /\ Start
    /\ IF main' = "running" THEN Proceed("rpc", "serve") ELSE FailTo("rpc", "stop_raft")
    /\ UNCHANGED <<machineVars, serving>>

\* The main loop looks at g_running every 100 ms.
MainLoop ==
    /\ ~running /\ Proceed("serve", "stop_rpc")
    /\ UNCHANGED <<vars, machineVars, serving>>

\* shutdown_server: the RPC server first; stop() is TcpServer's.
StopRpc ==
    /\ at = "stop_rpc" /\ Stop
    /\ UNCHANGED <<processVars, machineVars, serving>>

RpcStopped ==
    /\ main = "stopped" /\ Proceed("stop_rpc", "stop_raft")
    /\ UNCHANGED <<vars, machineVars, serving>>

\* StateMachine::shutdown, called by shutdown_server or by the destructor when init has
\* failed: raft is told to stop, and takes up no further entries.
ShutdownRaft ==
    /\ Proceed("stop_raft", "join_raft")
    /\ raft' = IF raft = "up" THEN "stopping" ELSE "none"
    /\ UNCHANGED <<vars, storage, brpc, applying, serving>>

\* Mutant: the node is destroyed without waiting for its threads.
JoinRaft_skipped ==
    /\ Proceed("join_raft", "stop_brpc")
    /\ raft' = "none"
    /\ UNCHANGED <<vars, storage, brpc, applying, serving>>

\* join() returns when raft's thread is done and every closure has been run.
JoinRaft ==
    /\ applying = "no" /\ \A c \in Conns : serving[c] # "waiting"
    /\ Proceed("join_raft", "stop_brpc")
    /\ raft' = "none"
    /\ UNCHANGED <<vars, storage, brpc, applying, serving>>

\* The bRPC server, and then the state machine with its storage.
ShutdownBrpc ==
    /\ Proceed("stop_brpc", "exit")
    /\ brpc' = "none" /\ storage' = FALSE
    /\ UNCHANGED <<vars, raft, applying, serving>>
-----------------------------------------------------------------------------
\* A handler is inside dispatch_command: a read is carried out on its thread; a write is
\* refused if this node is not the leader, or handed to raft.
Apply(c) ==
    /\ pc[c] = "dispatch" /\ serving[c] = "none"
    /\ \E how \in {"reading", "waiting", "answered"} : serving' = [serving EXCEPT ![c] = how]
    /\ UNCHANGED <<vars, processVars, machineVars>>

ReadDone(c) ==
    /\ serving[c] = "reading"
    /\ serving' = [serving EXCEPT ![c] = "answered"]
    /\ UNCHANGED <<vars, processVars, machineVars>>

\* Mutant: closures are run only while the server is serving.
RunClosure_serving(c) ==
    /\ at = "serve" /\ serving[c] = "waiting"
    /\ serving' = [serving EXCEPT ![c] = "answered"]
    /\ UNCHANGED <<vars, processVars, machineVars>>

\* Raft runs the closure, with success or with an error (external).
RunClosure(c) ==
    /\ raft # "none" /\ serving[c] = "waiting"
    /\ serving' = [serving EXCEPT ![c] = "answered"]
    /\ UNCHANGED <<vars, processVars, machineVars>>

\* dispatch_command returns, and the handler goes on as in TcpServer.
Answered(c) ==
    /\ serving[c] = "answered" /\ Dispatch(c)
    /\ serving' = [serving EXCEPT ![c] = "none"]
    /\ UNCHANGED <<processVars, machineVars>>

\* on_apply, in raft's thread and while the node is up, takes up the entries it is given,
\* one after the other, and returns ...
EnterApply ==
    /\ raft = "up" /\ applying = "no"
    /\ applying' = "entry"
    /\ UNCHANGED <<vars, processVars, storage, raft, brpc, serving>>

LeaveApply ==
    /\ applying = "entry"
    /\ applying' = "no"
    /\ UNCHANGED <<vars, processVars, storage, raft, brpc, serving>>

\* ... unless one of them renames a path to itself: Storage::rename then waits for the write
\* lock that it has just taken itself.
RenameToItself ==
    /\ applying = "entry"
    /\ applying' = "stuck"
    /\ UNCHANGED <<vars, processVars, storage, raft, brpc, serving>>
-----------------------------------------------------------------------------
\* The steps of TcpServer that do not leave it.
Inside == UNCHANGED <<processVars, machineVars, serving>>
HandlerIO(c) == Exchanging(c) /\ Inside

MainThread ==
    \/ Configure \/ init_storage \/ init_raft_directories \/ init_brpc_server \/ init_raft_node
    \/ initialize_rpc_server \/ MainLoop \/ StopRpc \/ RpcStopped \/ ShutdownRaft
    \/ JoinRaft \/ ShutdownBrpc
    \/ Main /\ Inside
HandlerThread(c) == HandlerIO(c) \/ Apply(c) \/ ReadDone(c) \/ Answered(c)

\* main() has returned.
Exited == at = "exit" /\ UNCHANGED serverVars

ServerNext ==
    \/ signal_handler \/ MainThread \/ EnterApply \/ LeaveApply \/ RenameToItself \/ Exited
    \/ Acceptor /\ Inside
    \/ AcceptFails /\ Inside
    \/ \E c \in Conns : (Accept(c) /\ Inside) \/ HandlerThread(c) \/ RunClosure(c)

ServerSpec == ServerInit /\ [][ServerNext]_serverVars
\* A call of the storage begins: one of an entry, or one of a handler's read.
NewCall == EnterApply \/ \E c \in Conns : Apply(c) /\ serving'[c] = "reading"
StuckApply == applying = "stuck"

\* Threads run and transfers end, as in TcpServer; no signal has to come.  Of the storage
\* only what FileLocker gives: reads get past each other, but keep an entry waiting as long
\* as others of them begin, and entries a read as long as there are any.  So an entry is
\* through once no more calls begin, unless it is stuck, and a read once there are no
\* entries.  Raft runs every closure it was given, as it applies the entry and what is
\* before it, or gives up the leadership and fails it.
FairServerSpec ==
    /\ ServerSpec
    /\ WF_serverVars(MainThread)
    /\ WF_serverVars(Acceptor /\ Inside)
    /\ WF_serverVars(server_fd = "closed" /\ AcceptFails /\ Inside)
    /\ \A c \in Conns : WF_serverVars(HandlerIO(c) \/ Apply(c) \/ Answered(c))
    /\ <>[](applying = "no") => \A c \in Conns : WF_serverVars(ReadDone(c))
    /\ <>[][~NewCall]_serverVars =>
         /\ WF_serverVars(LeaveApply \/ RenameToItself)
         /\ \A c \in Conns : WF_serverVars(~StuckApply /\ RunClosure(c))
-----------------------------------------------------------------------------
\* main() is at a place it can be at, and the components are those it has made by then and
\* not taken down yet: past init_brpc_server the bRPC server has really started, past
\* init_raft_node the node, and none of them is left when main() returns.
ServerTypeOK ==
    /\ at \in {"configure", "storage", "directories", "brpc", "raft", "rpc", "serve", "stop_rpc",
               "stop_raft", "join_raft", "stop_brpc", "exit"}
    /\ code \in {0, 1} /\ running \in BOOLEAN /\ storage \in BOOLEAN
    /\ applying \in {"no", "entry", "stuck"}
    /\ raft \in {"none", "up", "stopping"} /\ brpc \in {"none", "made", "up"}
    /\ serving \in [Conns -> {"none", "reading", "waiting", "answered"}]
    /\ (storage <=> at \notin {"configure", "storage", "exit"})
    /\ at \in {"configure", "storage", "directories", "brpc", "exit"} => brpc = "none"
    /\ at \in {"configure", "storage", "directories", "brpc", "raft", "stop_brpc", "exit"} => raft = "none"
    /\ at \in {"raft", "rpc", "serve", "stop_rpc"} => brpc = "up"
    /\ at \in {"rpc", "serve", "stop_rpc"} => raft = "up"
    /\ raft = "stopping" => at = "join_raft"

\* Nobody uses a component before it is made or after it is taken down: a handler that is
\* executing a command finds the storage and the raft node, a write that waits has a node
\* that will wake it up, and raft's thread finds the storage it applies entries to.
OnlyLiveParts ==
    /\ \A c \in Conns : pc[c] = "dispatch" => storage /\ raft = "up"
    /\ applying # "no" => storage /\ raft # "none"
    /\ raft # "none" => brpc = "up"

\* When main() returns, after a signal or because start-up failed at any step, everything
\* that was started has been stopped: no thread, no listening socket, no raft node and no
\* bRPC server is left.  It returns 0 exactly if the server had started and was stopped.
ExitClean ==
    at = "exit" =>
        /\ raft = "none" /\ brpc = "none" /\ ~storage /\ applying = "no"
        /\ server_fd # "open" /\ accepting \in {"none", "done"}
        /\ \A c \in Conns : pc[c] \in {"none", "done"}
        /\ code = 0 <=> should_stop

\* A signal ends the process, whenever it comes, during start-up or with clients connected
\* and reads and writes in progress, provided that no entry gets on_apply stuck and that
\* entries do not come without end.  If they do, stop() waits for a handler whose command
\* has no timeout, or join() for on_apply.
SignalStops ==
    <>[]~StuckApply /\ <>[][~EnterApply]_serverVars => (~running ~> at = "exit")

\* The process uses TcpServer as its specification allows and keeps its threads going, and
\* every command that was taken up gets its answer once no others begin, unless on_apply is
\* stuck.
TcpServerAsSpecified ==
    /\ Spec /\ Transferring
    /\ <>[]~StuckApply /\ <>[][~NewCall]_serverVars => Answering
=============================================================================
