----------------------- MODULE StateMachineInvariant ------------------------
(***************************************************************************)
(* The inductive invariant behind what a client may conclude from the      *)
(* answers of the state machine.                                           *)
(***************************************************************************)
EXTENDS StateMachine

InLog(r) == \E i \in 1..Len(log) : log[i] = r
InQueue(r) == \E j \in 1..Len(pending) : pending[j] = r

\* The node that answers for r has applied it.
OnDisk(r) ==
    /\ request[r].node \in Nodes
    /\ \E i \in 1..Len(log) : log[i] = r /\ i <= high[request[r].node]

Stages == {"new", "checked", "waiting", "done", "answered"}
Responses == {"none", "ok", "error", "refused", "lost"}

\* The types of the variables.
Types ==
    /\ up \subseteq Nodes /\ believes \subseteq up /\ leader \in believes \cup {None}
    /\ log \in Seq(Requests) /\ pending \in Seq(Requests)
    /\ is_leader \in [Nodes -> BOOLEAN]
    /\ applied \in [Nodes -> Nat] /\ snapshot \in [Nodes -> Nat] /\ first \in [Nodes -> Nat]
    /\ high \in [Nodes -> Nat] /\ start \in [Nodes -> Nat]
    /\ disk = [n \in Nodes |-> disk[n]] /\ damaged \subseteq Nodes
    /\ count \in [crashes : Nat, snapshots : Nat, faults : Nat]

RequestTypes ==
    /\ request = [r \in Requests |-> request[r]]
    /\ \A r \in Requests :
        request[r] \in [stage : Stages, node : Nodes \cup {None}, status : {request[r].status},
                        response : Responses]

\* The places of a node in the log are in order.
PlacesInOrder ==
    \A n \in Nodes : first[n] <= snapshot[n] /\ snapshot[n] <= applied[n]
                     /\ applied[n] <= high[n] /\ high[n] <= Len(log)

\* An entry is in the log or in the leader's queue once at most.
EntriesOnce ==
    /\ \A i, j \in 1..Len(log) : log[i] = log[j] => i = j
    /\ \A i, j \in 1..Len(pending) : pending[i] = pending[j] => i = j
    /\ \A i \in 1..Len(log) : \A j \in 1..Len(pending) : log[i] # pending[j]

\* A request that raft was not given, or was refused, is nowhere; a status or an answer that
\* says success is given by a node that has applied the request.
Handled ==
    \A r \in Requests :
        /\ request[r].stage \in {"new", "checked"} \/ request[r].response = "refused" =>
               ~InLog(r) /\ ~InQueue(r)
        /\ request[r].stage # "answered" => request[r].response = "none"
        /\ request[r].stage = "done" /\ request[r].status = "Ok" => OnDisk(r)
        /\ request[r].response = "ok" => OnDisk(r)

\* What the leader in office did not find when it was elected it has proposed itself, and
\* what it found it has applied by the time it accepts writes.
LeaderOwns ==
    leader # None =>
        /\ \A i \in 1..Len(log) : i > start[leader] => request[log[i]].node = leader
        /\ \A j \in 1..Len(pending) :
               Len(log) + j > start[leader] => request[pending[j]].node = leader
        /\ is_leader[leader] => start[leader] <= applied[leader]

\* The history of the trees follows the log.
ModelFollows ==
    /\ model \in Seq(Range(model)) /\ Len(model) = Len(log) + 1
    /\ \A i \in 1..Len(log) : model[i + 1] = apply_command(model[i], CommandOf[log[i]]).tree

\* Until the first crash every node has applied each entry up to its place once.
InStep ==
    count.crashes = 0 =>
        /\ up = Nodes
        /\ \A n \in Nodes : /\ applied[n] = high[n]
                            /\ n \notin damaged => disk[n] = model[applied[n] + 1]

\* The inductive invariant.
Inv ==
    /\ Types
    /\ RequestTypes
    /\ PlacesInOrder
    /\ EntriesOnce
    /\ Handled
    /\ LeaderOwns
    /\ ModelFollows
    /\ InStep

=============================================================================
