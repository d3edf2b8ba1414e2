---------------------------- MODULE StateMachine ----------------------------
(***************************************************************************)
(* src/src/state_machine.cc on every node of a cluster: write commands go  *)
(* from a client through the leader's raft node into the log, and from the *)
(* log into the storage of each node; reads are answered from the storage  *)
(* of the node asked.  Nodes crash and restart, take snapshots, and meet   *)
(* disk faults.                                                            *)
(***************************************************************************)
EXTENDS RaftLog, StorageOps

CONSTANTS CommandOf,    \* CommandOf[r]: the command of request r
          MaxLogEntry,  \* MAX_LOG_ENTRY_SIZE, in chunks of contents
          MaxCrashes, MaxSnapshots, MaxFaults

VARIABLES up,         \* the nodes whose process runs
          is_leader,  \* is_leader_ of each node
          applied,    \* applied[n]: the index of the last entry on_apply was given
          disk,       \* disk[n]: the files under base_path of n
          snapshot,   \* snapshot[n]: the index of n's last snapshot
          first,      \* first[n]: entries up to this index are gone from n's log
          request,    \* request[r]: where apply_write_command for r stands
          count,      \* how many crashes, snapshots and faults there have been
          high,       \* history: the last entry whose effects may be on disk[n]
          damaged,    \* history: the nodes that met a disk fault or loaded a snapshot
          model       \* history: model[i + 1] is the tree after entry i of the log

nodeVars == <<up, is_leader, applied, disk, snapshot, first, count, high, damaged, model>>
vars == <<raftVars, nodeVars, request>>

New == [stage |-> "new", node |-> None, status |-> "none", response |-> "none"]
Index(r) == CHOOSE i \in 1..Len(log) : log[i] = r
Committed(r) == r \in Range(log)

Init ==
    /\ RaftInit
    /\ up = Nodes
    /\ is_leader = [n \in Nodes |-> FALSE]
    /\ applied = [n \in Nodes |-> 0]
    /\ disk = [n \in Nodes |-> EmptyTree]
    /\ snapshot = [n \in Nodes |-> 0]
    /\ first = [n \in Nodes |-> 0]
    /\ request = [r \in Requests |-> New]
    /\ count = [crashes |-> 0, snapshots |-> 0, faults |-> 0]
    /\ high = [n \in Nodes |-> 0]
    /\ damaged = {}
    /\ model = <<EmptyTree>>

-----------------------------------------------------------------------------
\* Mutant: the refusal of a node that is not the leader does not return.
CheckLeader_goes_on(n, r) ==
    /\ n \in up /\ request[r].stage = "new"
    /\ request' = [request EXCEPT ![r] =
            [New EXCEPT !.stage = "checked", !.node = n,
                        !.response = IF is_leader[n] THEN "none" ELSE "refused"]]
    /\ UNCHANGED <<raftVars, nodeVars>>

\* apply_write_command, up to raft_node_->apply: a node that does not think it is the
\* leader names the one it follows, and a command too large for the log is turned away.
CheckLeader(n, r) ==
    /\ n \in up /\ request[r].stage = "new"
    /\ request' = [request EXCEPT ![r] =
            IF is_leader[n] /\ Len(CommandOf[r].contents) <= MaxLogEntry
            THEN [New EXCEPT !.stage = "checked", !.node = n]
            ELSE [New EXCEPT !.stage = "answered", !.response = "refused"]]
    /\ UNCHANGED <<raftVars, nodeVars>>

\* RaftClosure::Run, which ends closure_ptr->wait().
Run(r, status) == request' = [request EXCEPT ![r].stage = "done", ![r].status = status]

\* Mutant: the task may be handed to raft again.
Apply_again(r) ==
    LET n == request[r].node IN
    /\ request[r].stage \in {"checked", "waiting"}
    /\ IF n \in believes
       THEN Propose(n, r) /\ request' = [request EXCEPT ![r].stage = "waiting"]
       ELSE Run(r, "error") /\ UNCHANGED raftVars
    /\ UNCHANGED nodeVars

\* raft_node_->apply(task).  If the node lost the leadership since the check, raft runs
\* the closure with an error at once.
Apply(r) ==
    LET n == request[r].node IN
    /\ request[r].stage = "checked"
    /\ IF n \in believes
       THEN Propose(n, r) /\ request' = [request EXCEPT ![r].stage = "waiting"]
       ELSE Run(r, "error") /\ UNCHANGED raftVars
    /\ UNCHANGED nodeVars

\* Raft gives up on a task of a node that is no longer leader: Run with an error.
FailClosure(r) ==
    /\ request[r].stage = "waiting" /\ request[r].node \notin believes
    /\ Run(r, "error")
    /\ UNCHANGED <<raftVars, nodeVars>>

\* Mutant: the status of the closure is not looked at.
Respond_success(r) ==
    /\ request[r].stage = "done"
    /\ request' = [request EXCEPT ![r].stage = "answered", ![r].status = "none",
                                  ![r].response = "ok"]
    /\ UNCHANGED <<raftVars, nodeVars>>

\* closure_ptr->wait() returns after Run; the status becomes the response.
Respond(r) ==
    /\ request[r].stage = "done"
    /\ request' = [request EXCEPT ![r].stage = "answered", ![r].status = "none",
                                  ![r].response = IF request[r].status = "Ok" THEN "ok" ELSE "error"]
    /\ UNCHANGED <<raftVars, nodeVars>>

\* The trees a command may leave behind when the disk fails under it.
Partial(tree, c) ==
    {tree} \cup {apply_command(tree, [c EXCEPT !.contents = SubSeq(@, 1, written)]).tree :
                    written \in IF c.type \in {"WRITE_FILE", "APPEND_FILE"}
                                THEN 0..Len(c.contents) ELSE {}}

HasEntry(n) == n \in up /\ applied[n] < Len(log)
NextEntry(n) == log[applied[n] + 1]
CanApply(n) == HasEntry(n) /\ Returns(CommandOf[NextEntry(n)])
Stuck(n) == HasEntry(n) /\ ~CanApply(n)
Larger(i, j) == IF i < j THEN j ELSE i
HasClosure(n, r) == request[r].node = n /\ request[r].stage = "waiting"

\* Mutant: an entry that nobody on this node waits for is not applied.
Applied_if_done(n, outcome) ==
    LET r == NextEntry(n) IN
    /\ disk' = [disk EXCEPT ![n] = IF HasClosure(n, r) THEN outcome.tree ELSE @]
    /\ applied' = [applied EXCEPT ![n] = @ + 1]
    /\ high' = [high EXCEPT ![n] = Larger(@, applied[n] + 1)]
    /\ IF HasClosure(n, r) THEN Run(r, outcome.err) ELSE UNCHANGED request
    /\ UNCHANGED <<raftVars, up, is_leader, snapshot, first, model>>

\* Mutant: the closure of a command that fails is not run.
Applied_runs_ok(n, outcome) ==
    LET r == NextEntry(n) IN
    /\ disk' = [disk EXCEPT ![n] = outcome.tree]
    /\ applied' = [applied EXCEPT ![n] = @ + 1]
    /\ high' = [high EXCEPT ![n] = Larger(@, applied[n] + 1)]
    /\ IF HasClosure(n, r) /\ outcome.err = "Ok" THEN Run(r, outcome.err) ELSE UNCHANGED request
    /\ UNCHANGED <<raftVars, up, is_leader, snapshot, first, model>>

\* Mutant: the closure is run before the command.
Applied_runs_first(n, outcome) ==
    LET r == NextEntry(n) IN
    /\ IF HasClosure(n, r)
       THEN Run(r, "Ok") /\ UNCHANGED <<disk, applied, high>>
       ELSE /\ disk' = [disk EXCEPT ![n] = outcome.tree]
            /\ applied' = [applied EXCEPT ![n] = @ + 1]
            /\ high' = [high EXCEPT ![n] = Larger(@, applied[n] + 1)]
            /\ UNCHANGED request
    /\ UNCHANGED <<raftVars, up, is_leader, snapshot, first, model>>

\* One turn of on_apply's loop, with the outcome of apply_command: the closure, if this
\* node proposed the entry and still waits for it, gets the status and is run.
Applied(n, outcome) ==
    LET r == NextEntry(n) IN
    /\ disk' = [disk EXCEPT ![n] = outcome.tree]
    /\ applied' = [applied EXCEPT ![n] = @ + 1]
    /\ high' = [high EXCEPT ![n] = Larger(@, applied[n] + 1)]
    /\ IF HasClosure(n, r) THEN Run(r, outcome.err) ELSE UNCHANGED request
    /\ UNCHANGED <<raftVars, up, is_leader, snapshot, first, model>>

on_apply(n) ==
    /\ CanApply(n)
    /\ Applied(n, apply_command(disk[n], CommandOf[NextEntry(n)]))
    /\ UNCHANGED <<count, damaged>>

Counted(what, bound) == count[what] < bound /\ count' = [count EXCEPT ![what] = @ + 1]

\* The same when the disk fails: the error is logged, and reported if a client waits.
on_apply_fault(n) ==
    /\ CanApply(n)
    /\ \E tree \in Partial(disk[n], CommandOf[NextEntry(n)]) :
            Applied(n, [err |-> "IoError", tree |-> tree])
    /\ damaged' = damaged \cup {n}
    /\ Counted("faults", MaxFaults)

-----------------------------------------------------------------------------
\* Raft's part: an election is won only once everything the last loss of leadership
\* calls for (on_leader_stop, failing the closures) has been done.
BecomeLeader(n) ==
    /\ n \in up /\ ~is_leader[n] /\ \A r \in Requests : ~HasClosure(n, r)
    /\ Elect(n)
    /\ UNCHANGED <<nodeVars, request>>

LoseLeadership(n) == StepDown(n) /\ UNCHANGED <<nodeVars, request>>

CommitEntry ==
    /\ Commit
    /\ model' = Append(model, apply_command(model[Len(model)], CommandOf[Head(pending)]).tree)
    /\ UNCHANGED <<up, is_leader, applied, disk, snapshot, first, count, high, damaged, request>>

\* Called once the first entry of the node's own term has been applied.
on_leader_start(n) ==
    /\ n \in believes /\ ~is_leader[n] /\ applied[n] >= start[n]
    /\ is_leader' = [is_leader EXCEPT ![n] = TRUE]
    /\ UNCHANGED <<raftVars, up, applied, disk, snapshot, first, count, high, damaged, model,
                   request>>

on_leader_stop(n) ==
    /\ n \in up /\ n \notin believes /\ is_leader[n]
    /\ is_leader' = [is_leader EXCEPT ![n] = FALSE]
    /\ UNCHANGED <<raftVars, up, applied, disk, snapshot, first, count, high, damaged, model,
                   request>>

\* The process ends, perhaps in the middle of an entry.  Callers get no answer.
Crash(n) ==
    /\ n \in up
    /\ RaftCrash(n)
    /\ up' = up \ {n}
    /\ is_leader' = [is_leader EXCEPT ![n] = FALSE]
    /\ \E tree \in {disk[n]} \cup
            IF CanApply(n) THEN Partial(disk[n], CommandOf[NextEntry(n)])
                                \cup {apply_command(disk[n], CommandOf[NextEntry(n)]).tree}
            ELSE {} :
        /\ disk' = [disk EXCEPT ![n] = tree]
        /\ high' = [high EXCEPT ![n] = IF tree = disk[n] THEN @ ELSE Larger(@, applied[n] + 1)]
    /\ request' = [r \in Requests |->
            IF request[r].node = n /\ request[r].stage # "answered"
            THEN [New EXCEPT !.stage = "answered", !.response = "lost"]
            ELSE request[r]]
    /\ Counted("crashes", MaxCrashes)
    /\ UNCHANGED <<applied, snapshot, first, damaged, model>>

\* init: base_path is kept as it is, on_snapshot_load loads nothing, and raft replays
\* the log from the last snapshot on.
Restart(n) ==
    /\ n \notin up
    /\ up' = up \cup {n}
    /\ applied' = [applied EXCEPT ![n] = snapshot[n]]
    /\ UNCHANGED <<raftVars, is_leader, disk, snapshot, first, count, high, damaged, model, request>>

\* The snapshot is empty.  Raft drops the log up to the snapshot before it.
on_snapshot_save(n) ==
    /\ n \in up /\ applied[n] > snapshot[n]
    /\ snapshot' = [snapshot EXCEPT ![n] = applied[n]]
    /\ first' = [first EXCEPT ![n] = snapshot[n]]
    /\ Counted("snapshots", MaxSnapshots)
    /\ UNCHANGED <<raftVars, up, is_leader, applied, disk, high, damaged, model, request>>

\* A follower whose log ends before the leader's begins is sent the leader's snapshot:
\* raft moves it to the snapshot's index and calls on_snapshot_load, which loads nothing.
on_snapshot_load(n) ==
    /\ n \in up \ believes /\ leader \notin {None, n}
    /\ applied[n] = high[n] /\ high[n] < first[leader]
    /\ applied' = [applied EXCEPT ![n] = snapshot[leader]]
    /\ high' = [high EXCEPT ![n] = snapshot[leader]]
    /\ snapshot' = [snapshot EXCEPT ![n] = snapshot[leader]]
    /\ first' = [first EXCEPT ![n] = snapshot[leader]]
    /\ damaged' = damaged \cup {n}
    /\ UNCHANGED <<raftVars, up, is_leader, disk, count, model, request>>

\* READ_FILE is answered from the node's own storage, whether or not it is the leader.
apply_read_command(n, path) == read_file(disk[n], path)

-----------------------------------------------------------------------------
Handle(r) == Apply(r) \/ FailClosure(r) \/ Respond(r)
Flag(n) == on_leader_start(n) \/ on_leader_stop(n)

Next ==
    \/ CommitEntry
    \/ \E r \in Requests : Handle(r) \/ \E n \in Nodes : CheckLeader(n, r)
    \/ \E n \in Nodes :
        \/ on_apply(n) \/ on_apply_fault(n) \/ Flag(n)
        \/ BecomeLeader(n) \/ LoseLeadership(n)
        \/ Crash(n) \/ Restart(n)
        \/ on_snapshot_save(n) \/ on_snapshot_load(n)

Spec == Init /\ [][Next]_vars
\* Threads and raft's callback queue keep running, a leader in office commits what it
\* proposes, and a deposed leader finds out.  No request has to arrive, no election has
\* to be held, and no node that is down has to return.
\* (The conjuncts with <>[] are the weak fairness of CommitEntry and of on_apply(n), with
\* the condition under which they are enabled written out.)
FairSpec ==
    /\ Spec
    /\ <>[](leader # None /\ pending # <<>>) => []<><<CommitEntry>>_vars
    /\ \A r \in Requests : WF_vars(Handle(r))
    /\ \A n \in Nodes :
        /\ WF_vars(Flag(n)) /\ WF_vars(LoseLeadership(n))
        /\ <>[]CanApply(n) => []<><<on_apply(n)>>_vars
-----------------------------------------------------------------------------
\* Where every request, and every node's place in the log, can be.  An entry is in the
\* log or in the leader's queue once at most.
TypeOK ==
    /\ up \subseteq Nodes /\ believes \subseteq up
    /\ leader \in believes \cup {None}
    /\ log \in Seq(Requests) /\ pending \in Seq(Requests)
    /\ IsInjective(log \o pending)
    /\ is_leader \in [Nodes -> BOOLEAN]
    /\ \A n \in Nodes :
        /\ first[n] <= snapshot[n] /\ snapshot[n] <= applied[n]
        /\ applied[n] <= Len(log) /\ high[n] <= Len(log)
    /\ \A r \in Requests :
        /\ request[r].stage \in {"new", "checked", "waiting", "done", "answered"}
        /\ request[r].response \in {"none", "ok", "error", "refused", "lost"}
    /\ Len(model) = Len(log) + 1

\* A write that was answered with success is in the committed log, and the node that
\* answered had its effects on disk before it did.  No crash, change of leader or
\* snapshot takes that back.
AckedIsCommitted ==
    \A r \in Requests :
        request[r].response = "ok" => Committed(r) /\ Index(r) <= high[request[r].node]

\* A request that was turned away (not the leader, or too large) never takes effect:
\* the client may send it elsewhere without it running twice.
RefusedNeverRuns ==
    \A r \in Requests : request[r].response = "refused" => r \notin Range(log \o pending)

\* A node that has applied all it ever applied holds exactly the files that the log up to
\* there describes.
Agrees(n) == applied[n] >= high[n] => disk[n] = model[applied[n] + 1]

\* Nodes agree, through crashes in the middle of an entry, the replay that follows and
\* changes of leader, as long as their disks work and no snapshot is sent to them.
NodesAgree == \A n \in up \ damaged : Agrees(n)

\* Nodes agree after snapshots and disk faults too.
DamagedNodesAgree == \A n \in up : Agrees(n)

\* The acknowledged writes that a read at n has to show: those n has answered itself, in
\* whatever office, and all of them while n leads and has applied what it was elected with.
\* (A node answers reads whether or not it leads: a follower, and a new leader that has not
\* come that far yet, may miss what others have acknowledged.)
Promised(n) ==
    {r \in Requests :
        /\ request[r].response = "ok"
        /\ request[r].node = n \/ (n = leader /\ applied[n] >= start[n])}

\* A read misses nothing of that, also when leaders have changed, n was deposed, or has
\* crashed and replayed what it had applied: what n answers for every path is what the log
\* up to some entry says, an entry no older than any of the writes promised.
ReadsShowPromised ==
    \A n \in up \ damaged : applied[n] >= high[n] =>
        \E k \in 0..Len(log) :
            /\ \A r \in Promised(n) : Committed(r) /\ Index(r) <= k
            /\ \A path \in {CommandOf[r].path : r \in Requests} :
                    apply_read_command(n, path) = read_file(model[k + 1], path)

\* closure_ptr->wait() has no timeout, so this is what keeps a connection thread from
\* hanging: every request is answered, whatever happens to the leader meanwhile, unless the
\* node that took it is stuck in an entry that renames a path to itself.
RequestsAnswered ==
    \A r \in Requests :
        request[r].stage # "new" ~> request[r].stage = "answered" \/ Stuck(request[r].node)
=============================================================================
