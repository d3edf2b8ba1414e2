# A TLA+ model of Diarkis

Diarkis is a replicated file system: clients send commands to a server over TCP,
the server puts commands that change files into a raft log, and every server
applies the log to files on its own disk. This directory models it in TLA+,
checks the models with TLC, and proves with TLAPS the safety properties of the
locks, of the storage, of the replicated state machine, of the TCP server, of the server
process and its configuration, and of the protocol between client and server.

## The system and its parts

| Part | Source | Concurrency | Modules |
|---|---|---|---|
| `FileLocker`, `ReadLock`, `WriteLock` | `src/src/storage.cc` 92-188 | connection threads, applier | `FileLocker`, `FileLockerProofs` |
| path functions | `src/src/storage.cc` 37-88, 217-241 | pure | `Paths` |
| `Storage` | `src/src/storage.cc` 190-529 | connection threads, applier | `FileSystem`, `StorageOps`, `InodeTree`, `AtomicStorage`, `Storage`, `StorageInvariant`, `StorageRefinement`, `StorageTreeProofs`, `StorageInvariantProofs`, `StorageProtectedProofs`, `StorageProofs` |
| `StateMachine`, `RaftClosure` | `src/src/state_machine.cc`, `raft_closure.h` | connection threads, raft callbacks, crashes | `RaftLog`, `StateMachine`, `StateMachineInvariant`, `StateMachineProofs` |
| `TcpServer`, `TcpConnection` | `src/src/tcp.cc` | main, accept thread, handlers | `TcpServer`, `ServerProofs` |
| `RpcServer`, `MessageProtocol` | `src/src/rpc.cc` | a handler per connection | `RpcService`, `Rpc`, `RpcInvariant`, `RpcProofs` |
| client library | `src/client/cpp/src` | one thread per `Client` object | `RpcService`, `Rpc`, `RpcInvariant`, `RpcProofs` |
| `ServerConfig`, `ConfigLoader` | `src/src/config.cc` | pure | `Config`, `ServerProofs` |
| `main`, `StateMachine::init` and `shutdown` | `src/src/main.cc`, `state_machine.cc` 38-150 | main, handlers, raft, signals | `Server`, `ServerProofs` |

A request goes through them in this order: a method of `Client` makes it a message
and sends it. A handler thread of `TcpServer` receives it (`RpcServer::process_request`). Reads go straight to the local
`Storage` on that thread. Writes go to `StateMachine::apply_write_command`, which
proposes them to raft and sleeps on a `RaftClosure`. Raft calls `on_apply` on one
thread per node (the *applier* below), which calls `Storage` and runs the closure.
So `Storage` sees many readers and one writer, and `FileLocker` keeps them apart.

## The modules

**FileLocker.** `locks` is `locks_`, `asleep` the threads in `cv_.wait`.
`script[t]` is the list of guards the call of thread `t` constructs, `pos[t]` how
many of them are constructed, and `leaving` the threads that have begun to destroy
theirs. An action is one critical section of `mutex_`: one turn of the loop in
`lock_read` or `lock_write`, an unlock, or a spurious wakeup.

**Paths.** A path is a sequence of tokens: slashes, `.`, `..` and names. `Walk` is
the kernel's walk (external). NUL bytes are left out.

**FileSystem, StorageOps.** A tree is a partial function from locations to
directories and files. `FileSystem` has the POSIX calls (external), `StorageOps`
each `Storage` operation as a function of the tree, and `apply_command`. An operator is
the outcome of a call that returns, and `Returns` says which do: all but a `RENAME` of a
path to itself, which waits for its own lock (`storage.cc:428`).

**AtomicStorage, Storage.** `AtomicStorage` is what callers are promised: each
call takes effect in one instant; a failed write may leave a part of its contents. What
an operation does in that instant is a parameter, for which `StorageRefinement` gives
`apply_command` and `read_file` of `StorageOps`. `Storage` is the code, one system call
at a time, over inodes (`InodeTree`), with the locks of `FileLocker` (an `INSTANCE`)
around the calls. It implements both `AtomicStorage` (`CallsAreAtomic`, in
`StorageRefinement`) and `FileLocker` (theorem `LocksKept`). The refinement mapping shows
the files as they were before the write in progress (the history variable `before`) until
its descriptor is closed.

**RaftLog, StateMachine.** `RaftLog` is braft as `state_machine.cc` uses it
(external): one committed log, a leader that may not know it was deposed,
proposals that a new leader inherits or drops. An entry that only a deposed leader
has is never committed, although raft could revive it if that node is elected
again before anything else is committed; a client sees the same as with an
inherited entry. `StateMachine` has an action for each step of
`apply_write_command` (leader check, `raft_node_->apply`, waking up), for each
turn of `on_apply`, for the callbacks, and for crash and restart. A crash may
happen in the middle of an entry and leaves the files on disk. A restart replays
the log from the last snapshot. `model` and `high` are history variables: the
tree after each entry, and the last entry that may have touched a node's disk;
`damaged` is explained below.
Commands are applied by `apply_command` of `StorageOps`. A node whose next entry never
returns applies nothing more (`Stuck`). An election is won only
after the callbacks of the node's last loss of leadership have run.

**TcpServer.** The main thread in `start` and `stop`, `accept_loop`, and a handler
per connection. A request is four transfers (length and data, both ways); each is
the unlocked test of `connected_`, the lock, and one or more calls of `recv` or `send`
(`TransferPart`) under it: the loops of `send` and `receive_exact` do not look at
`connected_` again. Cleanup closes the connections in any order (the code: in list order).
`using` records whether the descriptor was open when the call began, and `calls` how many
there have been.

**RpcService, Rpc.** `RpcService` is what a caller of `send_command` can rely on: a
command is carried out at most once; a response that the server made belongs to
this call and says what happened to it; after "not sent" and "not connected" the
command is never carried out; after "unanswered" and "RPC error" it may have been,
or may still be. `Rpc` is the code on both sides. A connection has a stream in each
direction, and a message in it is a length and then data. `hand` is the message a
handler holds. A transfer is one action. It fails because the other end has closed,
or at any time because of the network or a timeout, and then a part of the data may
have been sent. Sizes are numbers of units, so that narrowing a size to 32 bits is
a `%`. A command is decoded only if the server has received as many bytes as its
encoding has; when the length has wrapped around the server reads the beginning of
the data, answers with an error and closes. `server[k] = "leaked"` is a connection that the
handler has left without closing it (run `tcp_leak`). `runs`, `via` and `fault` are
history variables.

**Server.** It extends `TcpServer`: its state is that of `TcpServer`, where `main()`
is (`at`), and which components exist. `StateMachine::init` is an action per step,
each of which may fail. `options_.validate()` has no failure here: it accepts whatever
`main` has accepted (`LoadedIsUsable` of run `inputs`, theorem `ConfigurationUsable`). A handler that is in `dispatch_command` reads, or
waits for raft to run its closure, or is refused. Raft's thread is outside `on_apply`, in
an entry, or stuck in one that renames a path to itself. `Server` implements `TcpServer`
(`TcpServerAsSpecified`), with the fairness of its threads and transfers (`Transferring`);
that a command gets its answer (`Answering`) holds once no others begin, if `on_apply` is
not stuck.

**Config.** A configuration, the contents of a file and the flags are functions from
options to values. One string option stands for the six, which the code treats
alike. A file that is not YAML, and a value in it of the wrong type, is not readable.

## The runs

| Run | Instance | Shows |
|---|---|---|
| `locker` | 3 readers, 2 paths, renames both ways | exact table, exclusion, no lost wakeup, no deadlock, waits end |
| `locker_same_path` | renames of a path to itself | **violated**: the applier waits for itself (`storage.cc:428`) |
| `inputs` | all paths of up to 6 tokens; configurations with edge values | accepted paths stay inside; cleaning keeps the meaning; the server starts with the options as given, a number that is not positive and `""` on the command line counting as not given, or not at all |
| `storage` | 2 readers that read without end, 2 commands, 1 fault | the code implements `AtomicStorage`; an open file stays where it is and as its reader or writer knows it; every call returns once no new ones begin, but for a `RENAME` of a path to itself |
| `storage_alias` | `a` and `./a` | **violated**: a torn read (`storage.cc:344`) |
| `cluster` | 2 nodes, 3 requests, 2 elections, 1 crash, 2 snapshots, 1 fault | success means committed and on disk; refusal means never executed; undamaged nodes agree after replay; a read shows what its own node has acknowledged, and at a leader that has applied what it inherited what anybody has |
| `cluster_live` | 2 nodes, a write and a `RENAME` of a path to itself, 2 elections, 1 crash, 1 fault | every request is answered, unless its node is stuck in that `RENAME` |
| `cluster_append` | 1 append, 1 crash | **violated**: appended twice (`state_machine.cc:46`) |
| `cluster_snapshot` | 2 writes, 2 snapshots | **violated**: files missing after a snapshot (`state_machine.cc:419`) |
| `rpc` | 2 calls, sizes from 1 to 5 units | the code implements `RpcService`; values mean what they say; failures have a cause; calls return, handlers end |
| `server` | 2 connections, 2 calls per transfer | parts are there when used, exit is clean, descriptors safe, cleanup complete, threads gone; a signal ends the process if entries cease and none is stuck; `TcpServer` is implemented |
| `tcp_leak` | 1 connection | **violated**: the descriptor is never closed (`tcp.cc:140`) |

The violated ones are described under `findings` in `PROJECT.json`. Where a
property fails in one run and holds in another, the passing run says under which
restriction the code keeps it. In `storage`, a file is named by one path string
and no directory is renamed; a reader below a directory that is renamed while the
file is rewritten under its new path sees a torn file, as in `storage_alias`. In
`cluster`, the commands are such that repeating them is harmless (`WRITE_FILE` and
`DELETE_FILE` of one file; `RENAME` and `APPEND_FILE` are not), and `NodesAgree`
and `ReadsShowPromised` leave out nodes that loaded a snapshot or met a disk fault
(`damaged`). Both kinds of damage last: after a fault `on_apply` goes on with the
next entry (`state_machine.cc:361`).

`ReadsShowPromised` is as much as the code keeps. `apply_read_command` does not look at
`is_leader_` (`state_machine.cc:214`): every node answers reads from its own disk. A
follower, a deposed leader, and a new leader that has not yet applied the entries it was
elected with may therefore miss what other nodes have acknowledged, by any number of
entries. While a restarted node replays its log it goes back in time; the property says
nothing until it has caught up with what was on its disk.

`LoadedAsGiven` takes `""` and numbers that are not positive on the command line for options that are not given
(`Heard`), which is how `apply_command_line_flags` tells them (`config.cc:116`). So a
snapshot interval of 0 can be set in the file only, and "All configuration options can be
overridden via command line" (`src/README.md:112`) does not hold for these values. It says
nothing of ports of more than 16 bits (`WidePort`), which are narrowed and then used;
`LoadedIsUsable` covers those too.

**Bounds.** Three readers are enough for two of them to share a lock while a third
waits. Two paths are enough for both orders of a rename. Two nodes are enough for
a leader and a lagging follower, a deposed leader beside its successor, and a
restarted node that leads again; `RaftLog` has no quorums, so a third node adds
nothing but a second follower. Two elections give one change of leader, two
snapshots are what it takes to cut the log (raft keeps it back to the snapshot
before). Two connections are enough for one to be served while another is being
accepted or closed, and for one command to wait for raft while another reads. Two calls
of `recv` or `send` (`MaxCalls`) are enough for a connection to be shut down between two
parts of one transfer. Reads are not bounded in `storage`, and take no part in its `count`.
Two calls of `send_command` are enough for an answer that comes too late to meet another
call. In `rpc` messages
of 1 and 2 units fit, 3 are too many, and the lengths of 4 and 5 units wrap around to 0
and 1 (`MAX_MESSAGE_SIZE` is 100 MB, and the modulus 2^32). Ports are modulo 4
instead of 2^16. `MaxFileSize` 2 lets an append exceed the size a read accepts.
Only `cluster`, which checks safety alone, uses symmetry (of the nodes).
`CHECK_DEADLOCK FALSE` is set where the number of calls or requests is bounded and
the run ends when they are used up; `locker`, `storage` and `server` check for deadlock.

**Fairness.** A thread inside a call keeps running (all modules): mutexes are held
for a few instructions or, in `TcpConnection`, for a transfer. A transfer ends because a
message has a bounded size and each `recv` or `send` moves a byte or fails, after 30 seconds
at the latest; the 30 seconds are for one call, so a peer that sends a byte now and then
can draw a transfer out. The client's sockets have the same timeouts, which is what `Rpc`
assumes of both sides; it also assumes that `dispatch_command` returns, which `StateMachine`
and `Server` look into. Raft's part in `StateMachine`: callbacks run, a leader in office
commits, a deposed one finds out.

`closure_ptr->wait()`, `on_apply` and the locks have no timeout. `Server` therefore assumes
of the storage only what `FileLocker` gives: a read ends once no entry is being applied, and
an entry, with the closures that wait for it, once no new reads and entries begin and none
is stuck. The same premises stand in the properties. `ApplierServed`, `CallsFinish` and
`CallsReturn` are about calls after which no new ones begin, since a read lock is granted
beside others although a writer waits, and readers that keep coming starve the applier.
`SignalStops` needs no such premise for reads, which cease when `stop()` has closed the
connections, but one for entries, which come from other nodes until `shutdown()`.

Where an action contains file operations its weak fairness is written
`<>[]condition => []<><<action>>_vars`, with the condition under which it is enabled, which
spares TLC evaluating them inside `ENABLED`. Nobody has to start a call, connect, send a
request, stand for election, restart or stop the server.

## The proofs

`FileLockerProofs` proves, for any finite set of readers and any paths and renames
(assumption `LockerConstants`), type correctness, `MutualExclusion`,
`TableMatchesGuards` and `NoLostWakeup`. They are proved together as one inductive
invariant: exclusion follows from the table saying exactly what the guards hold
(`TableMatchesGuards`), whose proof for an unlock needs that a thread that is
leaving holds a guard (`LeavingHolds`) and that no call holds the same guard twice
(`GuardsDistinct`). `NoDeadlock` proves `SomebodyCanRelease` from the assumption
that no rename has two equal paths; run `locker_same_path` shows what happens
otherwise.

`ServerProofs` proves, of `TcpServer`, type correctness, `NotClosedInUse`, `CleanupComplete` and
`NothingLeftRunning` for any set of connections. The invariant adds that a
connected connection is in the list or in the accept thread's hands, and during
the cleanup still to be closed (`KnownWhileConnected`); that the accept thread has
ended before the cleanup begins (`AcceptorGone`); and what each place of a handler
says about its connection (`HandlerPlaces`, `InHand`).

Of `Server` it proves `ServerTypeOK`, `OnlyLiveParts` and `ExitClean`, and that every
behaviour of `Server` is one of `TcpServer` (`ServerImplementsTcpServer`), which makes
the theorems about `TcpServer` facts about the process. The invariant `ServerInv`
takes that of `TcpServer` and says where `main()` and `TcpServer` can be at the same
time (`TcpInStep`), which components exist at each place of `main()` (`ServerTypeOK`), that
a command in the state machine is a handler's (`CommandsInHand`), and what has happened
before a return of 0 or 1 (`Progress`). With them a handler that is in
`dispatch_command` means that `main()` is in the main loop or in `stop()`.

At its end `ServerProofs` proves what `Server` takes from `Config`, for any options, any
file and any flags, from the assumption `ConfigConstants`: what `main()` goes on with is
accepted by `StateMachine::init`, and its port can be bound (`ConfigurationUsable`); and it
is exactly what was heard of what was asked for (`AskedFor`, `Heard`), or the server does
not start (`ConfigurationAsGiven`, for ports of 16 bits). The hypotheses say only that a number on
the command line is an integer, and that without a path there is no file. These are
`LoadedIsUsable` and `LoadedAsGiven` of run `inputs` without its bounds.

`RpcProofs` proves `TypeOK`, `ValuesMeanWhatTheySay`, `FailuresExplained` and the refinement
(`ServiceImplemented`) for any number of calls and any sizes, from the assumption
`RpcConstants`. The invariant, `RpcInv` in `RpcInvariant`, says that the streams of a connection hold messages
of one call only, in the order in which they are sent (`UpStream`, `ClientStream`,
`DownStream`), and of the current call if the client still has the connection. A command
that can still be executed (`Pending`) has not been executed, is on one connection only,
and has not been reported as not sent (`PendingNotRun`, `ResponsesTrue`). What a handler
holds belongs to a call of its connection (`InHand`), and a call runs once (`RunsOnce`).
For `FailuresExplained` two invariants are added that `RpcInv` does not need. A length, on
its way or in a handler's hands, is the size of its own request narrowed to 32 bits, and an
answer that is sent is one the client accepts (`LengthsTrue`): so a handler that refuses a
length, or finds that the data does not make a command, has met a request that is too
large. And the server closes a connection under the client, or decides to, and a call
fails, only if the connection has met a fault or a message that is too large
(`BreaksExcused`); such an excuse is never lost, because no step changes what was asked,
over which connection, or what was run for it.

The proofs about `Storage` are for any readers, commands and paths, from the assumption
`StorageConstants`. `StorageTreeProofs` has the facts about trees, with inodes and with
contents: what each system call does to `ContentsOf`, and that it does the same as its
counterpart in `FileSystem`. `StorageInvariantProofs` proves that the invariant `Inv` is
kept (what the place a call has reached says about its variables and about its guards) and
that the code uses its locks as `FileLocker` specifies (`LocksKept`). Inside `StorageProofs`
the invariant of `FileLockerProofs` is therefore one of `Storage`, and with it exclusion.
`TypeCorrect` needs no more.

The rest needs that the path strings in use keep files apart (`PathsApart`), which is a
hypothesis of the theorems and not of the model: `storage_alias` shows what happens without
it. It says that a file that is read has one name, and that no `RENAME`, `WRITE_FILE` or
`APPEND_FILE` is of a path that the path of a read goes through. `WRITE_FILE` and
`APPEND_FILE` belong there because they may create the file: a reader of `a/b` is told that
`a` is no directory as soon as `a` is open, when the write of `a` has not taken effect
yet. The instance of run `storage` has such paths (an `ASSUME` of `MCStorage`, which TLC
evaluates). `StorageProtectedProofs` proves that `Protected` is kept: an open file
is still what its path names, a reader has read the beginning of the file as it is, and what
is on disk in the middle of a write is what a write of the part written so far would have
left. `FilesProtected` and `WriterIsAlone` follow.

`CallsAtomic` is the refinement of `AtomicStorage`. A command takes effect when its last
system call succeeds or fails: for the commands of one call that is a fact about trees
(`TreeAtomic`); for a write it is `Writing`, the part of `Protected` that compares the disk
with `before`, with all of the contents written, or with a part of them when the disk
failed (`PartWritten`). A read takes effect when it ends. At that moment a write of
another file may be in progress, which the reader sees on disk and the mapping does not
show. `ReadView` proves that the file it reads is the same in both, since by exclusion and
`PathsApart` they differ at one location only, which is neither that of the file nor above
it (`WithElsewhere`).

`StateMachineProofs` proves, for any number of nodes and requests and any commands,
`TypeOK`, `AckedIsCommitted` and `RefusedNeverRuns`, and, until the first crash,
`NodesAgree` and `ReadsShowPromised`. (After a crash they depend on the commands: run
`cluster` checks them for commands that can be repeated, and `cluster_append` shows that
they fail for others.) The constants are unconstrained but for `NoneIsNoNode`. The
invariant, `Inv` in `StateMachineInvariant`, says where a request can be at each of its
stages, and that what has been refused is neither in the log nor in the queue (`Handled`);
that no entry is there twice (`EntriesOnce`); that a node's places in the log are in order,
first entry, snapshot, applied, on disk, end of the log (`PlacesInOrder`); that the entries
after the point at which the leader took office are its own proposals (`LeaderOwns`), so
that once it has applied what was before them its reads show what anybody has acknowledged; and that a node which has not been damaged has the tree of its
place in the log as long as nobody has crashed (`InStep`).

Only model-checked: liveness, that is `ApplierServed`, `CallsFinish`, `CallsReturn`,
`RequestsAnswered`, `HandlersEnd`, `SignalStops` and the fairness part of
`TcpServerAsSpecified` (out of the prover's reach); the path functions
(`ValidStaysInside`, `ResolveFaithful`), which are folds over sequences and need induction
over data; and `NodesAgree` and `ReadsShowPromised` after a crash, which hold for some
commands only.

## Not modelled

- `list_directory`: it takes no lock and changes nothing. What it returns while files
  come and go is up to `readdir`, and an error of `readdir` is taken for the end.
- msgpack: a command is a kind and a size, a response an outcome and a size.
- Two threads that use one `Client` object: it has no lock, and nothing in its header promises one.
- `src/examples`: a program that calls the client, with no control of its own.
- The callbacks of the state machine that only log.
- Memory (the closures that are never deleted), the growth of
  `connection_threads_`, durations, logging (also that of the signal handler), and power failures that lose directory entries which were not synced.
