------------------------- MODULE StateMachineProofs -------------------------
(***************************************************************************)
(* What a client may conclude from the answers of the state machine, for   *)
(* clusters of any size, any commands and any number of crashes, elections *)
(* and snapshots; and, until the first crash, that the nodes agree and the *)
(* leader's reads are fresh.                                               *)
(***************************************************************************)
EXTENDS StateMachineInvariant, TLAPS

\* What Append does to the committed log and the queue.
LEMMA AppendFacts ==
    ASSUME NEW T, NEW s \in Seq(T), NEW x \in T
    PROVE  /\ Append(s, x) \in Seq(T) /\ Len(Append(s, x)) = Len(s) + 1
           /\ \A i \in 1..Len(s) : Append(s, x)[i] = s[i]
           /\ Append(s, x)[Len(s) + 1] = x
  OBVIOUS

\* What Head and Tail do to the queue.
LEMMA TailFacts ==
    ASSUME NEW T, NEW s \in Seq(T), s # <<>>
    PROVE  /\ Len(s) \in Nat \ {0} /\ Head(s) = s[1] /\ s[1] \in T
           /\ Tail(s) \in Seq(T) /\ Len(Tail(s)) = Len(s) - 1
           /\ \A i \in 1..Len(s) - 1 : Tail(s)[i] = s[i + 1]
  OBVIOUS

\* The committed log followed by the queue.
LEMMA ConcatFacts ==
    ASSUME NEW T, NEW s \in Seq(T), NEW u \in Seq(T)
    PROVE  /\ DOMAIN (s \o u) = 1..Len(s) + Len(u)
           /\ \A i \in 1..Len(s) : (s \o u)[i] = s[i]
           /\ \A i \in 1..Len(s) + Len(u) : i > Len(s) => (s \o u)[i] = u[i - Len(s)]
  <1>1. DOMAIN (s \o u) = 1..Len(s) + Len(u) OBVIOUS
  <1>2. \A i \in 1..Len(s) : (s \o u)[i] = s[i] OBVIOUS
  <1>3. \A i \in 1..Len(s) + Len(u) : i > Len(s) => (s \o u)[i] = u[i - Len(s)] OBVIOUS
  <1> QED BY <1>1, <1>2, <1>3

\* A queue that is inherited is the beginning of the queue.
LEMMA PrefixFacts ==
    ASSUME NEW T, NEW s \in Seq(T), NEW k \in 0..Len(s)
    PROVE  /\ SubSeq(s, 1, k) \in Seq(T) /\ Len(SubSeq(s, 1, k)) = k /\ k <= Len(s)
           /\ \A i \in 1..k : SubSeq(s, 1, k)[i] = s[i]
  OBVIOUS

\* The history of trees is a sequence of its own elements, also with one more.
LEMMA HistoryGrows ==
    ASSUME NEW s, s \in Seq(Range(s)), NEW x
    PROVE  /\ Append(s, x) \in Seq(Range(Append(s, x))) /\ Len(Append(s, x)) = Len(s) + 1
           /\ \A i \in 1..Len(s) : Append(s, x)[i] = s[i]
           /\ Append(s, x)[Len(s) + 1] = x
  <1> DEFINE T == Range(s) \cup {x}
             u == Append(s, x)
  <1>1. s \in Seq(T) /\ x \in T OBVIOUS
  <1>2. u \in Seq(T) /\ Len(u) = Len(s) + 1 /\ (\A i \in 1..Len(s) : u[i] = s[i])
        /\ u[Len(s) + 1] = x
    BY <1>1, AppendFacts
  <1>3. \A i \in 1..Len(u) : u[i] \in Range(u) BY <1>2 DEF Range
  <1>4. u \in Seq(Range(u)) BY <1>2, <1>3
  <1> QED BY <1>2, <1>4

\* What RaftClosure::Run changes: the stage and the status of one request.
LEMMA RunFacts ==
    ASSUME Inv, NEW r \in Requests, NEW s, Run(r, s)
    PROVE  /\ RequestTypes'
           /\ request'[r].stage = "done" /\ request'[r].status = s
           /\ request'[r].node = request[r].node /\ request'[r].response = request[r].response
           /\ \A q \in Requests \ {r} : request'[q] = request[q]
  BY DEF Inv, RequestTypes, Run, Stages, Responses

\* LeaderOwns is kept by a step that leaves the log and the queue alone, and what the leader
\* has proposed to the leader.
LEMMA OwnsKept ==
    ASSUME Types, LeaderOwns, log' = log, pending' = pending, start' = start,
           leader' \in {leader, None}, applied' \in [Nodes -> Nat],
           leader # None => /\ applied[leader] <= applied'[leader]
                            /\ is_leader'[leader] => start[leader] <= applied[leader],
           leader # None => \A q \in Requests : InLog(q) \/ InQueue(q) =>
                               (request[q].node = leader => request'[q].node = leader)
    PROVE  LeaderOwns'
  <1> SUFFICES ASSUME leader' # None PROVE LeaderOwns' BY DEF LeaderOwns
  <1>1. leader' = leader /\ leader \in Nodes BY NoneIsNoNode DEF Types
  <1>2. start[leader] \in Nat /\ applied[leader] \in Nat /\ applied'[leader] \in Nat
        /\ Len(log) \in Nat
    BY <1>1 DEF Types
  <1>3. ASSUME NEW i \in 1..Len(log), i > start[leader]
        PROVE  request'[log[i]].node = leader
    <2>1. log[i] \in Requests /\ InLog(log[i]) BY DEF Types, InLog
    <2>2. request[log[i]].node = leader BY <1>1, <1>3 DEF LeaderOwns
    <2> QED BY <2>1, <2>2, <1>1
  <1>4. ASSUME NEW j \in 1..Len(pending), Len(log) + j > start[leader]
        PROVE  request'[pending[j]].node = leader
    <2>1. pending[j] \in Requests /\ InQueue(pending[j]) BY DEF Types, InQueue
    <2>2. request[pending[j]].node = leader BY <1>1, <1>4 DEF LeaderOwns
    <2> QED BY <2>1, <2>2, <1>1
  <1>5. is_leader'[leader] => start[leader] <= applied'[leader] BY <1>1, <1>2
  <1> QED BY <1>1, <1>3, <1>4, <1>5 DEF LeaderOwns

\* A step that changes requests only, and neither the node nor, backwards, the fate of any.
LEMMA RequestStep ==
    ASSUME Inv, UNCHANGED <<raftVars, nodeVars>>, RequestTypes', NEW r \in Requests,
           \A q \in Requests \ {r} : request'[q] = request[q],
           request'[r].node = request[r].node,
           request'[r].stage \in {"done", "answered"}, request'[r].response # "refused",
           request'[r].stage # "answered" => request'[r].response = "none",
           request'[r].stage = "done" => request'[r].status # "Ok",
           request'[r].response = "ok" => OnDisk(r)
    PROVE  Inv'
  <1> USE DEF raftVars, nodeVars
  <1>1. Types' /\ PlacesInOrder' /\ EntriesOnce' /\ ModelFollows' /\ InStep'
    BY DEF Inv, Types, PlacesInOrder, EntriesOnce, ModelFollows, InStep
  <1>2. \A q \in Requests : request'[q].node = request[q].node OBVIOUS
  <1>3. \A q \in Requests : (InLog(q)' <=> InLog(q)) /\ (InQueue(q)' <=> InQueue(q))
                            /\ (OnDisk(q)' <=> OnDisk(q))
    BY <1>2 DEF InLog, InQueue, OnDisk
  <1>4. Handled' BY <1>3 DEF Inv, Handled
  <1>5. LeaderOwns'
    <2>1. leader # None => leader \in Nodes BY DEF Inv, Types
    <2>2. leader # None => applied[leader] \in Nat BY <2>1 DEF Inv, Types
    <2> QED BY <1>2, <2>1, <2>2, OwnsKept DEF Inv, Types, LeaderOwns
  <1> QED BY <1>1, <1>4, <1>5 DEF Inv

\* apply_write_command up to raft_node_->apply: the request is nowhere yet.
LEMMA CheckLeaderStep ==
    ASSUME Inv, NEW n \in Nodes, NEW r \in Requests, CheckLeader(n, r)
    PROVE  Inv'
  <1> USE DEF raftVars, nodeVars
  <1>1. Types' /\ PlacesInOrder' /\ EntriesOnce' /\ ModelFollows' /\ InStep'
    BY DEF Inv, Types, PlacesInOrder, EntriesOnce, ModelFollows, InStep, CheckLeader
  <1>2. ~InLog(r) /\ ~InQueue(r) BY DEF Inv, Handled, CheckLeader
  <1>3. RequestTypes' /\ (\A q \in Requests \ {r} : request'[q] = request[q])
        /\ request'[r].response \in {"none", "refused"}
        /\ request'[r].stage \in {"checked", "answered"}
        /\ (request'[r].stage # "answered" => request'[r].response = "none")
    BY DEF Inv, RequestTypes, CheckLeader, New, Stages, Responses
  <1>4. \A q \in Requests : (InLog(q)' <=> InLog(q)) /\ (InQueue(q)' <=> InQueue(q))
    BY DEF InLog, InQueue, CheckLeader
  <1>5. \A q \in Requests \ {r} : OnDisk(q)' <=> OnDisk(q)
    BY <1>3 DEF OnDisk, CheckLeader
  <1>6. Handled' BY <1>2, <1>3, <1>4, <1>5 DEF Inv, Handled
  <1>7. LeaderOwns'
    <2>1. leader # None => leader \in Nodes BY DEF Inv, Types
    <2>2. leader # None => applied[leader] \in Nat BY <2>1 DEF Inv, Types
    <2>3. log' = log /\ pending' = pending /\ start' = start /\ leader' = leader
          /\ applied' = applied /\ is_leader' = is_leader /\ applied \in [Nodes -> Nat]
      BY DEF Inv, Types, CheckLeader
    <2>4. leader # None /\ is_leader[leader] => start[leader] <= applied[leader]
      BY DEF Inv, LeaderOwns
    <2>5. \A q \in Requests : InLog(q) \/ InQueue(q) => request'[q] = request[q]
      BY <1>2, <1>3
    <2> QED BY <2>2, <2>3, <2>4, <2>5, OwnsKept DEF Inv
  <1> QED BY <1>1, <1>3, <1>6, <1>7 DEF Inv

\* Run with an error, and the answer made of the status.
LEMMA HandleStep ==
    ASSUME Inv, NEW r \in Requests,
           \/ FailClosure(r) \/ Respond(r)
           \/ request[r].stage = "checked" /\ Run(r, "error") /\ UNCHANGED <<raftVars, nodeVars>>
    PROVE  Inv'
  <1>1. CASE Respond(r)
    <2>1. RequestTypes' /\ (\A q \in Requests \ {r} : request'[q] = request[q])
          /\ request'[r].stage = "answered" /\ request'[r].node = request[r].node
          /\ request'[r].response = IF request[r].status = "Ok" THEN "ok" ELSE "error"
      BY <1>1 DEF Inv, RequestTypes, Respond, Stages, Responses
    <2>2. request'[r].response = "ok" => OnDisk(r)
      BY <1>1, <2>1 DEF Inv, Handled, Respond
    <2>3. UNCHANGED <<raftVars, nodeVars>> /\ request'[r].response # "refused"
      BY <1>1, <2>1 DEF Respond
    <2> QED BY <2>1, <2>2, <2>3, RequestStep
  <1>2. CASE ~Respond(r)
    <2>1. Run(r, "error") /\ UNCHANGED <<raftVars, nodeVars>>
          /\ request[r].stage \in {"checked", "waiting"}
      BY <1>2 DEF FailClosure
    <2>2. request[r].response = "none" BY <2>1 DEF Inv, Handled
    <2> QED BY <2>1, <2>2, RunFacts, RequestStep
  <1> QED BY <1>1, <1>2

\* raft_node_->apply: the leader queues the entry, which is nowhere yet.
LEMMA ApplyStep ==
    ASSUME Inv, NEW r \in Requests, Apply(r)
    PROVE  Inv'
  <1>1. CASE request[r].node \notin believes
    BY <1>1, HandleStep DEF Apply
  <1>2. CASE request[r].node \in believes
    <2> DEFINE n == request[r].node
    <2> USE DEF raftVars, nodeVars
    <2>1. /\ Propose(n, r) /\ UNCHANGED nodeVars
          /\ request' = [request EXCEPT ![r].stage = "waiting"]
          /\ request[r].stage = "checked"
      BY <1>2 DEF Apply
    <2>2. RequestTypes' /\ (\A q \in Requests \ {r} : request'[q] = request[q])
          /\ request'[r].stage = "waiting" /\ request'[r].node = n
          /\ request'[r].response = "none"
      BY <2>1 DEF Inv, RequestTypes, Handled, Stages, Responses
    <2>3. ~InLog(r) /\ ~InQueue(r) /\ n \in Nodes
      BY <1>2, <2>1 DEF Inv, Handled, Types
    <2>4. /\ pending' \in Seq(Requests) /\ Len(pending') \in Nat /\ Len(pending) \in Nat
          /\ \A j \in 1..Len(pending') :
                \/ j \in 1..Len(pending) /\ pending'[j] = pending[j]
                \/ j = Len(pending) + 1 /\ pending'[j] = r /\ n = leader
      BY <2>1, AppendFacts DEF Inv, Types, Propose
    <2>5. Types' /\ PlacesInOrder' /\ ModelFollows' /\ InStep'
      BY <2>1, <2>4 DEF Inv, Types, PlacesInOrder, ModelFollows, InStep, Propose
    <2>6. EntriesOnce'
      <3>1. log' = log BY <2>1 DEF Propose
      <3>2. \A i \in 1..Len(log) : log[i] # r BY <2>3 DEF InLog
      <3>3. \A j \in 1..Len(pending) : pending[j] # r BY <2>3 DEF InQueue
      <3> QED BY <2>4, <3>1, <3>2, <3>3 DEF Inv, EntriesOnce
    <2>7. \A q \in Requests : (InLog(q)' <=> InLog(q)) /\ (OnDisk(q)' <=> OnDisk(q))
      BY <2>1, <2>2 DEF InLog, OnDisk, Propose
    <2>8. \A q \in Requests \ {r} : InQueue(q)' => InQueue(q)
      BY <2>4 DEF InQueue
    <2>9. Handled' BY <2>2, <2>7, <2>8 DEF Inv, Handled
    <2>10. LeaderOwns'
      <3> SUFFICES ASSUME leader # None PROVE LeaderOwns'
        BY <2>1 DEF LeaderOwns, Propose
      <3>1. UNCHANGED <<log, leader, start, is_leader, applied>> BY <2>1 DEF Propose
      <3>2. \A q \in Requests : request'[q].node = request[q].node BY <2>2
      <3>3. \A i \in 1..Len(log) : log[i] \in Requests BY DEF Inv, Types
      <3>4. \A j \in 1..Len(pending) : pending[j] \in Requests BY DEF Inv, Types
      <3>5. ASSUME NEW j \in 1..Len(pending'), Len(log) + j > start[leader]
            PROVE  request'[pending'[j]].node = leader
        BY <2>2, <2>4, <3>2, <3>4, <3>5 DEF Inv, LeaderOwns
      <3> QED BY <3>1, <3>2, <3>3, <3>5 DEF Inv, LeaderOwns
    <2> QED BY <2>2, <2>5, <2>6, <2>9, <2>10 DEF Inv
  <1> QED BY <1>1, <1>2

\* One turn of on_apply's loop: the node's place moves by one entry, the tree becomes what
\* the outcome says, and a request that waits for the entry here has its status.
LEMMA AppliedStep ==
    ASSUME Inv, NEW n \in Nodes, NEW outcome, CanApply(n), Applied(n, outcome),
           count' \in [crashes : Nat, snapshots : Nat, faults : Nat],
           count'.crashes = count.crashes, damaged \subseteq damaged', damaged' \subseteq Nodes,
           n \in damaged' \/ outcome = apply_command(disk[n], CommandOf[NextEntry(n)])
    PROVE  Inv'
  <1> USE DEF raftVars
  <1>a. applied[n] \in Nat /\ high[n] \in Nat /\ Len(log) \in Nat /\ applied[n] < Len(log)
    BY DEF Inv, Types, CanApply, HasEntry
  <1>b. PICK at \in 1..Len(log) : at = applied[n] + 1 BY <1>a
  <1>c. PICK r \in Requests : r = log[at]
    <2>1. log \in Seq(Requests) BY DEF Inv, Types
    <2> QED BY <2>1
  <1>1. /\ at \in 1..Len(log) /\ applied[n] \in Nat /\ high[n] \in Nat /\ r \in Requests
        /\ log[at] = r /\ Len(log) \in Nat /\ at = applied[n] + 1 /\ r = NextEntry(n)
    BY <1>a, <1>b, <1>c DEF NextEntry
  <1>2. /\ UNCHANGED <<log, pending, leader, believes, start, up, is_leader, snapshot, first, model>>
        /\ disk' = [disk EXCEPT ![n] = outcome.tree]
        /\ applied' = [applied EXCEPT ![n] = at]
        /\ high' = [high EXCEPT ![n] = Larger(@, at)]
        /\ IF HasClosure(n, r) THEN Run(r, outcome.err) ELSE UNCHANGED request
    BY <1>1 DEF Applied
  <1>d. high'[n] = Larger(high[n], at) /\ applied'[n] = at
        /\ high' \in [Nodes -> Nat] /\ applied' \in [Nodes -> Nat]
        /\ \A m \in Nodes \ {n} : applied'[m] = applied[m] /\ high'[m] = high[m]
    <2>1. high \in [Nodes -> Nat] /\ applied \in [Nodes -> Nat] BY DEF Inv, Types
    <2>2. Larger(high[n], at) \in Nat /\ at \in Nat BY <1>1 DEF Larger
    <2> QED BY <1>2, <2>1, <2>2
  <1>3. /\ applied' \in [Nodes -> Nat] /\ high' \in [Nodes -> Nat]
        /\ \A m \in Nodes : high[m] <= high'[m] /\ high'[m] <= Len(log)
                            /\ applied[m] <= applied'[m] /\ applied'[m] <= high'[m]
        /\ at <= high'[n] /\ applied'[n] = at
        /\ (applied[n] = high[n] => high'[n] = at)
        /\ \A m \in Nodes \ {n} : applied'[m] = applied[m] /\ high'[m] = high[m]
    <2>1. \A m \in Nodes : /\ high[m] \in Nat /\ applied[m] \in Nat
                           /\ applied[m] <= high[m] /\ high[m] <= Len(log)
      BY DEF Inv, Types, PlacesInOrder
    <2>2. high[n] <= high'[n] /\ high'[n] <= Len(log) /\ at <= high'[n]
          /\ (applied[n] = high[n] => high'[n] = at)
      BY <1>1, <1>d, <2>1 DEF Larger
    <2>3. \A m \in Nodes \ {n} : high[m] <= high'[m] /\ high'[m] <= Len(log)
                                 /\ applied[m] <= applied'[m] /\ applied'[m] <= high'[m]
      BY <1>d, <2>1
    <2>4. applied[n] <= applied'[n] /\ applied'[n] <= high'[n] BY <1>1, <1>d, <2>2
    <2> QED BY <1>d, <2>2, <2>3, <2>4
  <1>4. disk' = [m \in Nodes |-> disk'[m]] /\ disk'[n] = outcome.tree
        /\ \A m \in Nodes \ {n} : disk'[m] = disk[m]
    BY <1>2 DEF Inv, Types
  <1>5. Types' BY <1>2, <1>3, <1>4 DEF Inv, Types
  <1>6. PlacesInOrder'
    BY <1>2, <1>3 DEF Inv, Types, PlacesInOrder
  <1>7. EntriesOnce' /\ ModelFollows'
    BY <1>2 DEF Inv, EntriesOnce, ModelFollows
  <1>8. InStep'
    <2> SUFFICES ASSUME count.crashes = 0 PROVE InStep' BY DEF InStep
    <2>1. up' = Nodes BY <1>2 DEF Inv, InStep
    <2>2. \A m \in Nodes : applied'[m] = high'[m] BY <1>3 DEF Inv, InStep
    <2>3. \A m \in Nodes \ {n} : m \notin damaged' => disk'[m] = model[applied'[m] + 1]
      BY <1>3, <1>4 DEF Inv, InStep
    <2>4. ASSUME n \notin damaged' PROVE disk'[n] = model[applied'[n] + 1]
      <3>1. disk[n] = model[at] BY <1>1, <2>4 DEF Inv, InStep
      <3>2. model[at + 1] = apply_command(model[at], CommandOf[log[at]]).tree
        BY <1>1 DEF Inv, ModelFollows
      <3> QED BY <1>1, <1>3, <1>4, <2>4, <3>1, <3>2
    <2> QED BY <1>2, <2>1, <2>2, <2>3, <2>4 DEF InStep
  <1>9. /\ RequestTypes' /\ \A q \in Requests \ {r} : request'[q] = request[q]
        /\ request'[r].node = request[r].node /\ request'[r].response = request[r].response
        /\ request'[r] = request[r] \/ /\ request[r].stage = "waiting" /\ request[r].node = n
                                       /\ request'[r].stage = "done"
    BY <1>1, <1>2, RunFacts DEF Inv, RequestTypes, HasClosure
  <1>10. \A q \in Requests : (InLog(q)' <=> InLog(q)) /\ (InQueue(q)' <=> InQueue(q))
    BY <1>2 DEF InLog, InQueue
  <1>11. \A q \in Requests : OnDisk(q) => OnDisk(q)'
    <2> SUFFICES ASSUME NEW q \in Requests, OnDisk(q) PROVE OnDisk(q)' OBVIOUS
    <2>1. request'[q].node = request[q].node BY <1>9
    <2>2. PICK i \in 1..Len(log) : log[i] = q /\ i <= high[request[q].node] BY DEF OnDisk
    <2>3. request[q].node \in Nodes BY DEF OnDisk
    <2>4. high[request[q].node] <= high'[request[q].node]
          /\ high[request[q].node] \in Nat /\ high'[request[q].node] \in Nat
      BY <1>3, <2>3 DEF Inv, Types
    <2>5. i <= high'[request[q].node] BY <2>2, <2>4
    <2> QED BY <1>2, <2>1, <2>2, <2>3, <2>5 DEF OnDisk
  <1>12. request'[r] # request[r] => OnDisk(r)'
    <2> SUFFICES ASSUME request'[r] # request[r] PROVE OnDisk(r)' OBVIOUS
    <2>1. request'[r].node = n BY <1>9
    <2> QED BY <1>1, <1>2, <1>3, <2>1 DEF OnDisk
  <1>13. Handled'
    <2>1. \A q \in Requests \ {r} : request'[q] = request[q] BY <1>9
    <2>2. CASE request'[r] = request[r]
      BY <2>1, <2>2, <1>10, <1>11 DEF Inv, Handled
    <2>3. CASE request'[r] # request[r]
      <3>1. request[r].response = "none" BY <1>1, <1>9, <2>3 DEF Inv, Handled
      <3> QED BY <2>1, <2>3, <3>1, <1>9, <1>10, <1>11, <1>12 DEF Inv, Handled
    <2> QED BY <2>2, <2>3
  <1>14. LeaderOwns'
    <2>1. leader # None => leader \in Nodes BY DEF Inv, Types
    <2>2. leader # None /\ is_leader[leader] => start[leader] <= applied[leader]
      BY DEF Inv, LeaderOwns
    <2>3. \A q \in Requests : request'[q].node = request[q].node BY <1>9
    <2> QED BY <1>2, <1>3, <2>1, <2>2, <2>3, OwnsKept DEF Inv
  <1> QED BY <1>5, <1>6, <1>7, <1>8, <1>9, <1>13, <1>14 DEF Inv

\* on_apply, on a working disk and on one that fails.
LEMMA OnApplyStep ==
    ASSUME Inv, NEW n \in Nodes, on_apply(n) \/ on_apply_fault(n)
    PROVE  Inv'
  <1>1. CASE on_apply(n)
    BY <1>1, AppliedStep DEF on_apply, Inv, Types
  <1>2. CASE on_apply_fault(n)
    <2>1. PICK tree : Applied(n, [err |-> "IoError", tree |-> tree])
      BY <1>2 DEF on_apply_fault
    <2>2. CanApply(n) /\ damaged' = damaged \cup {n} /\ damaged \subseteq Nodes
      BY <1>2 DEF on_apply_fault, Inv, Types
    <2>3. count' \in [crashes : Nat, snapshots : Nat, faults : Nat]
          /\ count'.crashes = count.crashes
      <3>1. count' = [count EXCEPT !["faults"] = @ + 1] BY <1>2 DEF on_apply_fault, Counted
      <3>2. count \in [crashes : Nat, snapshots : Nat, faults : Nat] BY DEF Inv, Types
      <3> QED BY <3>1, <3>2
    <2> QED BY <2>1, <2>2, <2>3, AppliedStep
  <1> QED BY <1>1, <1>2

\* An election: the new leader's queue begins like the old one, and its own entries come
\* after all of it.
LEMMA BecomeLeaderStep ==
    ASSUME Inv, NEW n \in Nodes, BecomeLeader(n)
    PROVE  Inv'
  <1> USE DEF nodeVars
  <1>a. pending \in Seq(Requests) /\ log \in Seq(Requests) BY DEF Inv, Types
  <1>b. PICK k \in 0..Len(pending) :
            /\ pending' = SubSeq(pending, 1, k)
            /\ start' = [start EXCEPT ![n] = Len(log) + k]
    BY DEF BecomeLeader, Elect
  <1>c. PICK u : u = SubSeq(pending, 1, k) OBVIOUS
  <1>2. u \in Seq(Requests) /\ Len(u) = k /\ Len(u) <= Len(pending)
        /\ \A i \in 1..Len(u) : u[i] = pending[i]
    BY <1>a, <1>c, PrefixFacts
  <1>1. pending' = u /\ start' = [start EXCEPT ![n] = Len(log) + Len(u)] BY <1>b, <1>c, <1>2
  <1>3. UNCHANGED <<log, request, nodeVars>> /\ leader' = n /\ believes' = believes \cup {n}
        /\ n \in up /\ ~is_leader[n]
    BY DEF BecomeLeader, Elect
  <1>4. Len(u) \in Nat /\ Len(pending) \in Nat /\ Len(log) \in Nat
    BY <1>2, <1>a
  <1>5. start' \in [Nodes -> Nat] /\ start'[n] = Len(log) + Len(u)
    <2>1. start \in [Nodes -> Nat] BY DEF Inv, Types
    <2> QED BY <1>1, <1>4, <2>1
  <1>6. Types' BY <1>1, <1>2, <1>3, <1>5 DEF Inv, Types
  <1>7. RequestTypes' /\ PlacesInOrder' /\ ModelFollows' /\ InStep'
    BY <1>3 DEF Inv, RequestTypes, PlacesInOrder, ModelFollows, InStep
  <1>8. EntriesOnce'
    <2>1. \A i \in 1..Len(u) : i \in 1..Len(pending) /\ u[i] = pending[i] BY <1>2, <1>4
    <2>2. \A i, j \in 1..Len(u) : u[i] = u[j] => i = j BY <2>1 DEF Inv, EntriesOnce
    <2>3. \A i \in 1..Len(log) : \A j \in 1..Len(u) : log[i] # u[j]
      BY <2>1 DEF Inv, EntriesOnce
    <2>4. pending' = u /\ log' = log BY <1>1, <1>3
    <2> QED BY <2>2, <2>3, <2>4 DEF Inv, EntriesOnce
  <1>9. \A q \in Requests : (InLog(q)' <=> InLog(q)) /\ (InQueue(q)' => InQueue(q))
                            /\ (OnDisk(q)' <=> OnDisk(q))
    BY <1>1, <1>2, <1>3, <1>4 DEF InLog, InQueue, OnDisk
  <1>10. Handled' BY <1>3, <1>9 DEF Inv, Handled
  <1>11. LeaderOwns'
    <2>1. \A i \in 1..Len(log) : ~(i > start'[n]) BY <1>4, <1>5
    <2>2. \A j \in 1..Len(u) : ~(Len(log) + j > start'[n]) BY <1>4, <1>5
    <2>3. log' = log /\ pending' = u /\ leader' = n /\ ~is_leader'[n] BY <1>1, <1>3
    <2> QED BY <2>1, <2>2, <2>3 DEF LeaderOwns
  <1> QED BY <1>6, <1>7, <1>8, <1>10, <1>11 DEF Inv

\* Steps that change nothing but who thinks it leads.
LEMMA LeadershipStep ==
    ASSUME Inv, NEW n \in Nodes, LoseLeadership(n) \/ Flag(n)
    PROVE  Inv'
  <1> USE DEF raftVars, nodeVars
  <1>1. /\ UNCHANGED <<log, pending, leader, start, up, applied, disk, snapshot, first, count,
                       high, damaged, model, request>>
        /\ believes' \in {believes, believes \ {n}} /\ (n = leader => believes' = believes)
    BY DEF LoseLeadership, Flag, on_leader_start, on_leader_stop, StepDown
  <1>2. is_leader' \in [Nodes -> BOOLEAN]
        /\ \A m \in Nodes : is_leader'[m] => is_leader[m] \/ start[m] <= applied[m]
    <2>1. is_leader \in [Nodes -> BOOLEAN] BY DEF Inv, Types
    <2>2. CASE LoseLeadership(n) BY <2>1, <2>2 DEF LoseLeadership
    <2>3. CASE on_leader_start(n)
      <3>1. start[n] \in Nat /\ applied[n] \in Nat BY DEF Inv, Types
      <3>2. start[n] <= applied[n] BY <2>3, <3>1 DEF on_leader_start
      <3> QED BY <2>1, <2>3, <3>2 DEF on_leader_start
    <2>4. CASE on_leader_stop(n) BY <2>1, <2>4 DEF on_leader_stop
    <2> QED BY <2>2, <2>3, <2>4 DEF Flag
  <1>3. Types' BY <1>1, <1>2 DEF Inv, Types
  <1>4. RequestTypes' /\ PlacesInOrder' /\ EntriesOnce' /\ ModelFollows' /\ InStep'
    BY <1>1 DEF Inv, RequestTypes, PlacesInOrder, EntriesOnce, ModelFollows, InStep
  <1>5. Handled' BY <1>1 DEF Inv, Handled, InLog, InQueue, OnDisk
  <1>6. LeaderOwns'
    <2>1. leader # None => leader \in Nodes BY DEF Inv, Types
    <2>2. leader # None /\ is_leader'[leader] => start[leader] <= applied[leader]
      BY <1>2, <2>1 DEF Inv, LeaderOwns
    <2>3. leader # None => applied[leader] \in Nat BY <2>1 DEF Inv, Types
    <2>4. applied' \in [Nodes -> Nat] BY <1>1 DEF Inv, Types
    <2>5. leader # None => applied[leader] <= applied'[leader] BY <1>1, <2>3
    <2>6. leader # None => \A q \in Requests : InLog(q) \/ InQueue(q) =>
                              (request[q].node = leader => request'[q].node = leader)
      BY <1>1, Zenon
    <2>7. /\ Types /\ LeaderOwns /\ log' = log /\ pending' = pending /\ start' = start
          /\ leader' \in {leader, None}
      BY <1>1 DEF Inv
    <2> QED BY <2>2, <2>4, <2>5, <2>6, <2>7, OwnsKept
  <1> QED BY <1>3, <1>4, <1>5, <1>6 DEF Inv

\* An entry moves from the leader's queue into the log.
LEMMA CommitStep ==
    ASSUME Inv, CommitEntry
    PROVE  Inv'
  <1> USE DEF raftVars, nodeVars
  <1>1. /\ UNCHANGED <<leader, believes, start, up, is_leader, applied, disk, snapshot, first,
                       count, high, damaged, request>>
        /\ pending # <<>> /\ leader # None
        /\ log' = Append(log, Head(pending)) /\ pending' = Tail(pending)
        /\ model' = Append(model, apply_command(model[Len(model)], CommandOf[Head(pending)]).tree)
    BY DEF CommitEntry, Commit
  <1>2. log \in Seq(Requests) /\ pending \in Seq(Requests) /\ Len(log) \in Nat
    BY DEF Inv, Types
  <1>3. PICK e \in Requests : e = Head(pending) BY <1>1, <1>2, TailFacts
  <1>4. /\ Len(pending) \in Nat \ {0} /\ pending[1] = e
        /\ pending' \in Seq(Requests) /\ Len(pending') = Len(pending) - 1
        /\ \A j \in 1..Len(pending') : pending'[j] = pending[j + 1]
    BY <1>1, <1>2, <1>3, TailFacts
  <1>5. /\ log' \in Seq(Requests) /\ Len(log') = Len(log) + 1 /\ log'[Len(log) + 1] = e
        /\ \A i \in 1..Len(log) : log'[i] = log[i]
    BY <1>1, <1>2, <1>3, AppendFacts
  <1>6. Types' BY <1>1, <1>4, <1>5 DEF Inv, Types
  <1>7. RequestTypes' BY <1>1 DEF Inv, RequestTypes
  <1>8. PlacesInOrder' BY <1>1, <1>2, <1>5 DEF Inv, Types, PlacesInOrder
  <1>9. EntriesOnce'
    <2>1. \A i \in 1..Len(log) : log[i] # e BY <1>4 DEF Inv, EntriesOnce
    <2>2. \A j \in 1..Len(pending') : pending'[j] # e BY <1>4 DEF Inv, EntriesOnce
    <2>3. \A i, j \in 1..Len(pending') : pending'[i] = pending'[j] => i = j
      BY <1>4 DEF Inv, EntriesOnce
    <2>4. \A i, j \in 1..Len(log') : log'[i] = log'[j] => i = j
      BY <1>2, <1>5, <2>1 DEF Inv, EntriesOnce
    <2>5. \A i \in 1..Len(log') : \A j \in 1..Len(pending') : log'[i] # pending'[j]
      <3>1. \A i \in 1..Len(log) : \A j \in 1..Len(pending') : log[i] # pending'[j]
        BY <1>4 DEF Inv, EntriesOnce
      <3> QED BY <1>2, <1>5, <2>2, <3>1
    <2> QED BY <2>3, <2>4, <2>5 DEF EntriesOnce
  <1>10. Handled'
    <2>1. \A q \in Requests : InLog(q)' => InLog(q) \/ InQueue(q)
      BY <1>2, <1>4, <1>5 DEF InLog, InQueue
    <2>2. \A q \in Requests : InQueue(q)' => InQueue(q)
      BY <1>4 DEF InQueue
    <2>3. \A q \in Requests : OnDisk(q) => OnDisk(q)'
      BY <1>1, <1>2, <1>5 DEF OnDisk
    <2> QED BY <1>1, <2>1, <2>2, <2>3 DEF Inv, Handled
  <1>11. LeaderOwns'
    <2>1. leader \in Nodes /\ start[leader] \in Nat BY <1>1 DEF Inv, Types
    <2>2. \A i \in 1..Len(log') : i > start[leader] => request[log'[i]].node = leader
      BY <1>1, <1>2, <1>4, <1>5, <2>1 DEF Inv, LeaderOwns
    <2>3. \A j \in 1..Len(pending') :
              Len(log') + j > start[leader] => request[pending'[j]].node = leader
      BY <1>1, <1>2, <1>4, <1>5, <2>1 DEF Inv, LeaderOwns
    <2> QED BY <1>1, <2>2, <2>3 DEF Inv, LeaderOwns
  <1>12. /\ model' \in Seq(Range(model')) /\ Len(model') = Len(model) + 1
         /\ \A i \in 1..Len(model) : model'[i] = model[i]
         /\ model'[Len(model) + 1] = apply_command(model[Len(model)], CommandOf[e]).tree
    BY <1>1, <1>3, HistoryGrows DEF Inv, ModelFollows
  <1>13. ModelFollows'
    <2>1. Len(model) = Len(log) + 1 /\ model[Len(model)] = model[Len(log) + 1]
      BY DEF Inv, ModelFollows
    <2>2. \A i \in 1..Len(log) : model'[i + 1] = apply_command(model'[i], CommandOf[log'[i]]).tree
      <3> SUFFICES ASSUME NEW i \in 1..Len(log)
                   PROVE  model'[i + 1] = apply_command(model'[i], CommandOf[log'[i]]).tree
        OBVIOUS
      <3>1. i \in 1..Len(model) /\ i + 1 \in 1..Len(model) BY <1>2, <2>1
      <3>2. model'[i] = model[i] /\ model'[i + 1] = model[i + 1] /\ log'[i] = log[i]
        BY <1>5, <1>12, <3>1
      <3> QED BY <3>2 DEF Inv, ModelFollows
    <2>3. model'[Len(log) + 2] = apply_command(model'[Len(log) + 1], CommandOf[log'[Len(log) + 1]]).tree
      BY <1>2, <1>5, <1>12, <2>1
    <2> QED BY <1>2, <1>5, <1>12, <2>1, <2>2, <2>3 DEF ModelFollows
  <1>14. InStep'
    <2>1. \A n \in Nodes : applied[n] \in Nat /\ applied[n] + 1 \in 1..Len(model)
      <3>1. \A n \in Nodes : /\ applied[n] \in Nat /\ high[n] \in Nat
                             /\ applied[n] <= high[n] /\ high[n] <= Len(log)
        BY DEF Inv, Types, PlacesInOrder
      <3>2. Len(model) = Len(log) + 1 BY DEF Inv, ModelFollows
      <3> SUFFICES ASSUME NEW n \in Nodes
                   PROVE  applied[n] \in Nat /\ applied[n] + 1 \in 1..Len(model)
        OBVIOUS
      <3>3. /\ applied[n] \in Nat /\ high[n] \in Nat
            /\ applied[n] <= high[n] /\ high[n] <= Len(log)
        BY <3>1
      <3> QED BY <1>2, <3>2, <3>3
    <2>2. \A n \in Nodes : model'[applied[n] + 1] = model[applied[n] + 1] BY <1>12, <2>1
    <2> QED BY <1>1, <2>2 DEF Inv, InStep
  <1> QED BY <1>6, <1>7, <1>8, <1>9, <1>10, <1>11, <1>13, <1>14 DEF Inv

\* The process of n ends: its callers get no answer, and the entry it was at may be on disk.
LEMMA CrashStep ==
    ASSUME Inv, NEW n \in Nodes, Crash(n)
    PROVE  Inv'
  <1>1. /\ UNCHANGED <<log, pending, start, applied, snapshot, first, damaged, model>>
        /\ believes' = believes \ {n} /\ leader' = IF leader = n THEN None ELSE leader
        /\ up' = up \ {n} /\ is_leader' = [is_leader EXCEPT ![n] = FALSE]
    BY DEF Crash, RaftCrash
  <1>2. PICK tree : /\ disk' = [disk EXCEPT ![n] = tree]
                    /\ high' = [high EXCEPT ![n] =
                                  IF tree = disk[n] THEN @ ELSE Larger(@, applied[n] + 1)]
                    /\ tree # disk[n] => CanApply(n)
    BY DEF Crash
  <1>3. \A m \in Nodes : /\ high[m] \in Nat /\ applied[m] \in Nat
                         /\ applied[m] <= high[m] /\ high[m] <= Len(log)
    BY DEF Inv, Types, PlacesInOrder
  <1>4. /\ high' \in [Nodes -> Nat]
        /\ \A m \in Nodes : high[m] <= high'[m] /\ high'[m] <= Len(log)
    <2>1. high \in [Nodes -> Nat] /\ Len(log) \in Nat BY DEF Inv, Types
    <2>2. CASE tree = disk[n] BY <1>2, <1>3, <2>1, <2>2
    <2>3. CASE tree # disk[n]
      <3>1. applied[n] < Len(log) BY <1>2, <2>3 DEF CanApply, HasEntry
      <3>2. Larger(high[n], applied[n] + 1) \in Nat /\ high[n] <= Larger(high[n], applied[n] + 1)
            /\ Larger(high[n], applied[n] + 1) <= Len(log)
        BY <1>3, <2>1, <3>1 DEF Larger
      <3> QED BY <1>2, <1>3, <2>1, <2>3, <3>2
    <2> QED BY <2>2, <2>3
  <1>5. count' \in [crashes : Nat, snapshots : Nat, faults : Nat] /\ count'.crashes # 0
    <2>1. count' = [count EXCEPT !["crashes"] = @ + 1] BY DEF Crash, Counted
    <2>2. count \in [crashes : Nat, snapshots : Nat, faults : Nat] BY DEF Inv, Types
    <2> QED BY <2>1, <2>2
  <1>6. Types' BY <1>1, <1>2, <1>4, <1>5 DEF Inv, Types
  <1>7. PlacesInOrder'
    <2>1. \A m \in Nodes : high'[m] \in Nat BY <1>4
    <2>2. \A m \in Nodes : applied[m] <= high'[m] BY <1>3, <1>4, <2>1
    <2> QED BY <1>1, <1>4, <2>2 DEF Inv, PlacesInOrder
  <1>8. EntriesOnce' /\ ModelFollows' /\ InStep'
    BY <1>1, <1>5 DEF Inv, EntriesOnce, ModelFollows, InStep
  <1>9. /\ request' = [r \in Requests |-> request'[r]]
        /\ \A r \in Requests :
            \/ request'[r] = request[r] /\ (request[r].node # n \/ request[r].stage = "answered")
            \/ /\ request[r].node = n
               /\ request'[r] = [stage |-> "answered", node |-> None, status |-> "none",
                                 response |-> "lost"]
    BY DEF Crash, New
  <1>10. RequestTypes' BY <1>9 DEF Inv, RequestTypes, Stages, Responses
  <1>11. \A q \in Requests : (InLog(q)' <=> InLog(q)) /\ (InQueue(q)' <=> InQueue(q))
    BY <1>1 DEF InLog, InQueue
  <1>12. \A q \in Requests : OnDisk(q) /\ request'[q] = request[q] => OnDisk(q)'
    <2> SUFFICES ASSUME NEW q \in Requests, OnDisk(q), request'[q] = request[q]
                 PROVE  OnDisk(q)'
      OBVIOUS
    <2>1. PICK i \in 1..Len(log) : log[i] = q /\ i <= high[request[q].node] BY DEF OnDisk
    <2>2. request[q].node \in Nodes BY DEF OnDisk
    <2>3. high[request[q].node] <= high'[request[q].node]
          /\ high[request[q].node] \in Nat /\ high'[request[q].node] \in Nat
      BY <1>3, <1>4, <2>2
    <2>4. i <= high'[request[q].node] BY <2>1, <2>3
    <2> QED BY <1>1, <2>1, <2>2, <2>4 DEF OnDisk
  <1>13. Handled' BY <1>9, <1>11, <1>12 DEF Inv, Handled
  <1>14. LeaderOwns'
    <2>1. CASE leader = n BY <1>1, <2>1 DEF LeaderOwns
    <2>2. CASE leader # n
      <3>1. leader # None => leader \in Nodes BY DEF Inv, Types
      <3>2. leader' = leader /\ applied' = applied /\ applied \in [Nodes -> Nat]
            /\ (leader # None => is_leader'[leader] = is_leader[leader])
        BY <1>1, <2>2, <3>1 DEF Inv, Types
      <3>3. leader # None /\ is_leader[leader] => start[leader] <= applied[leader]
        BY DEF Inv, LeaderOwns
      <3>4. \A q \in Requests : request[q].node = leader => request'[q].node = leader
        BY <1>9, <2>2
      <3>5. leader # None => applied[leader] <= applied[leader] BY <1>3, <3>1
      <3> QED BY <1>1, <3>2, <3>3, <3>4, <3>5, OwnsKept DEF Inv
    <2> QED BY <2>1, <2>2
  <1> QED BY <1>6, <1>7, <1>8, <1>10, <1>13, <1>14 DEF Inv

\* Restarts and snapshots move the places of one node in the log, in order, and never
\* back from what is on its disk.
LEMMA PlacesStep ==
    ASSUME Inv, NEW n \in Nodes,
           UNCHANGED <<log, pending, leader, believes, start, is_leader, disk, model, request>>,
           up \subseteq up', up' \subseteq Nodes, damaged \subseteq damaged', damaged' \subseteq Nodes,
           count' \in [crashes : Nat, snapshots : Nat, faults : Nat],
           count'.crashes = count.crashes,
           applied' \in [Nodes -> Nat], snapshot' \in [Nodes -> Nat],
           first' \in [Nodes -> Nat], high' \in [Nodes -> Nat],
           \A m \in Nodes \ {n} : /\ applied'[m] = applied[m] /\ snapshot'[m] = snapshot[m]
                                  /\ first'[m] = first[m] /\ high'[m] = high[m],
           first'[n] <= snapshot'[n], snapshot'[n] <= applied'[n], applied'[n] <= high'[n],
           high'[n] <= Len(log), high[n] <= high'[n],
           leader = n => applied'[n] = applied[n],
           count.crashes = 0 => /\ applied'[n] = high'[n]
                                /\ applied'[n] = applied[n] \/ n \in damaged'
    PROVE  Inv'
  <1>1. Types' BY DEF Inv, Types
  <1>2. RequestTypes' /\ EntriesOnce' /\ ModelFollows'
    BY DEF Inv, RequestTypes, EntriesOnce, ModelFollows
  <1>3. PlacesInOrder' BY DEF Inv, PlacesInOrder
  <1>4. InStep'
    <2> SUFFICES ASSUME count.crashes = 0 PROVE InStep' BY DEF InStep
    <2>1. up' = Nodes BY DEF Inv, InStep
    <2>2. \A m \in Nodes : applied'[m] = high'[m]
      BY DEF Inv, InStep
    <2>3. ASSUME NEW m \in Nodes, m \notin damaged' PROVE disk[m] = model[applied'[m] + 1]
      <3>1. applied'[m] = applied[m] BY <2>3
      <3>2. disk[m] = model[applied[m] + 1] BY <2>3 DEF Inv, InStep
      <3> QED BY <3>1, <3>2
    <2> QED BY <2>1, <2>2, <2>3 DEF InStep
  <1>5. ASSUME NEW m \in Nodes
        PROVE  high[m] <= high'[m] /\ high[m] \in Nat /\ high'[m] \in Nat
    <2>1. high[m] \in Nat /\ high'[m] \in Nat BY DEF Inv, Types
    <2>2. CASE m = n BY <2>1, <2>2
    <2>3. CASE m # n
      <3>1. high'[m] = high[m] BY <2>3
      <3> QED BY <2>1, <3>1
    <2> QED BY <2>2, <2>3
  <1>6. \A q \in Requests : OnDisk(q) => OnDisk(q)'
    <2> SUFFICES ASSUME NEW q \in Requests, OnDisk(q) PROVE OnDisk(q)' OBVIOUS
    <2>1. PICK i \in 1..Len(log) : log[i] = q /\ i <= high[request[q].node] BY DEF OnDisk
    <2>2. request[q].node \in Nodes BY DEF OnDisk
    <2>3. PICK m \in Nodes : m = request[q].node BY <2>2
    <2>4. i <= high'[m]
      <3>1. i <= high[m] /\ i \in Int BY <2>1, <2>3
      <3>2. high[m] <= high'[m] /\ high[m] \in Nat /\ high'[m] \in Nat BY <1>5
      <3> QED BY <3>1, <3>2
    <2> QED BY <2>1, <2>2, <2>3, <2>4 DEF OnDisk
  <1>7. Handled' BY <1>6 DEF Inv, Handled, InLog, InQueue
  <1>8. LeaderOwns'
    <2>1. leader # None => leader \in Nodes BY DEF Inv, Types
    <2>2. leader # None => applied'[leader] = applied[leader] /\ applied[leader] \in Nat
      BY <2>1 DEF Inv, Types
    <2>3. leader # None /\ is_leader[leader] => start[leader] <= applied[leader]
      BY DEF Inv, LeaderOwns
    <2>4. leader # None => applied[leader] <= applied'[leader] BY <2>2
    <2>5. Types /\ LeaderOwns BY DEF Inv
    <2> QED BY <2>3, <2>4, <2>5, OwnsKept
  <1> QED BY <1>1, <1>2, <1>3, <1>4, <1>7, <1>8 DEF Inv

\* The facts the three steps below start from.
LEMMA PlacesFacts ==
    ASSUME Inv
    PROVE  /\ applied \in [Nodes -> Nat] /\ snapshot \in [Nodes -> Nat]
           /\ first \in [Nodes -> Nat] /\ high \in [Nodes -> Nat] /\ Len(log) \in Nat
           /\ \A n \in Nodes : /\ first[n] <= snapshot[n] /\ snapshot[n] <= applied[n]
                               /\ applied[n] <= high[n] /\ high[n] <= Len(log)
           /\ up \subseteq Nodes /\ damaged \subseteq Nodes
           /\ leader # None => leader \in up /\ leader \in Nodes
           /\ count \in [crashes : Nat, snapshots : Nat, faults : Nat]
           /\ count.crashes = 0 => up = Nodes /\ \A n \in Nodes : applied[n] = high[n]
  BY DEF Inv, Types, PlacesInOrder, InStep

\* A restart replays the log from the last snapshot, on the files that are there.
LEMMA RestartStep ==
    ASSUME Inv, NEW n \in Nodes, Restart(n)
    PROVE  Inv'
  <1> USE DEF raftVars
  <1>1. /\ UNCHANGED <<log, pending, leader, believes, start, is_leader, disk, model, request,
                       snapshot, first, count, high, damaged>>
        /\ n \notin up /\ up' = up \cup {n} /\ applied' = [applied EXCEPT ![n] = snapshot[n]]
    BY DEF Restart
  <1>2. applied' \in [Nodes -> Nat] /\ applied'[n] = snapshot[n]
        /\ \A m \in Nodes \ {n} : applied'[m] = applied[m]
    BY <1>1, PlacesFacts
  <1>3. first[n] <= snapshot[n] /\ snapshot[n] <= snapshot[n] /\ snapshot[n] <= high[n]
        /\ high[n] <= Len(log) /\ high[n] <= high[n]
    BY PlacesFacts
  <1>4. count.crashes # 0 /\ leader # n BY <1>1, PlacesFacts, NoneIsNoNode
  <1>5. up \subseteq up' /\ up' \subseteq Nodes BY <1>1, PlacesFacts
  <1> QED BY <1>1, <1>2, <1>3, <1>4, <1>5, PlacesFacts, PlacesStep

\* A snapshot is taken at the place on_apply has reached.
LEMMA SnapshotSaveStep ==
    ASSUME Inv, NEW n \in Nodes, on_snapshot_save(n)
    PROVE  Inv'
  <1> USE DEF raftVars
  <1>1. /\ UNCHANGED <<log, pending, leader, believes, start, is_leader, disk, model, request,
                       up, applied, high, damaged>>
        /\ snapshot' = [snapshot EXCEPT ![n] = applied[n]]
        /\ first' = [first EXCEPT ![n] = snapshot[n]]
        /\ count' = [count EXCEPT !["snapshots"] = @ + 1]
    BY DEF on_snapshot_save, Counted
  <1>2. /\ snapshot' \in [Nodes -> Nat] /\ snapshot'[n] = applied[n]
        /\ first' \in [Nodes -> Nat] /\ first'[n] = snapshot[n]
        /\ \A m \in Nodes \ {n} : snapshot'[m] = snapshot[m] /\ first'[m] = first[m]
    BY <1>1, PlacesFacts
  <1>3. snapshot[n] <= applied[n] /\ applied[n] <= applied[n] /\ applied[n] <= high[n]
        /\ high[n] <= Len(log) /\ high[n] <= high[n]
    BY PlacesFacts
  <1>4. count' \in [crashes : Nat, snapshots : Nat, faults : Nat]
        /\ count'.crashes = count.crashes
    <2>1. count \in [crashes : Nat, snapshots : Nat, faults : Nat] BY PlacesFacts
    <2> QED BY <1>1, <2>1
  <1> QED BY <1>1, <1>2, <1>3, <1>4, PlacesFacts, PlacesStep

\* A node that is too far behind jumps to the leader's snapshot and counts as damaged.
LEMMA SnapshotLoadStep ==
    ASSUME Inv, NEW n \in Nodes, on_snapshot_load(n)
    PROVE  Inv'
  <1> USE DEF raftVars
  <1> DEFINE to == snapshot[leader]
  <1>1. /\ UNCHANGED <<log, pending, leader, believes, start, is_leader, disk, model, request,
                       up, count>>
        /\ leader # None /\ leader # n /\ high[n] < first[leader]
        /\ applied' = [applied EXCEPT ![n] = to] /\ high' = [high EXCEPT ![n] = to]
        /\ snapshot' = [snapshot EXCEPT ![n] = to] /\ first' = [first EXCEPT ![n] = to]
        /\ damaged' = damaged \cup {n}
    BY DEF on_snapshot_load
  <1>2. leader \in Nodes BY <1>1, PlacesFacts
  <1>3. to \in Nat /\ high[n] <= to /\ to <= Len(log) /\ to <= to
    BY <1>1, <1>2, PlacesFacts
  <1> HIDE DEF to
  <1>4. /\ applied' \in [Nodes -> Nat] /\ high' \in [Nodes -> Nat]
        /\ snapshot' \in [Nodes -> Nat] /\ first' \in [Nodes -> Nat]
        /\ applied'[n] = to /\ high'[n] = to /\ snapshot'[n] = to /\ first'[n] = to
        /\ \A m \in Nodes \ {n} : /\ applied'[m] = applied[m] /\ snapshot'[m] = snapshot[m]
                                  /\ first'[m] = first[m] /\ high'[m] = high[m]
    BY <1>1, <1>3, PlacesFacts
  <1>5. damaged \subseteq damaged' /\ damaged' \subseteq Nodes /\ n \in damaged'
    BY <1>1, PlacesFacts
  <1> QED BY <1>1, <1>3, <1>4, <1>5, PlacesFacts, PlacesStep

-----------------------------------------------------------------------------
\* The invariant holds when every node has been started.
LEMMA InvInit == Init => Inv
  <1> SUFFICES ASSUME Init PROVE Inv OBVIOUS
  <1> USE DEF Init, RaftInit
  <1>1. Types BY DEF Types
  <1>a. log = <<>> /\ Len(log) = 0 /\ Len(pending) = 0 OBVIOUS
  <1>2. RequestTypes BY DEF RequestTypes, New, Stages, Responses
  <1>3. PlacesInOrder /\ EntriesOnce BY <1>a DEF PlacesInOrder, EntriesOnce
  <1>4. Handled BY <1>a DEF Handled, New, InLog, InQueue
  <1>5. LeaderOwns BY DEF LeaderOwns
  <1>6. Len(model) = 1 /\ model[1] = EmptyTree /\ model \in Seq(Range(model))
    <2>1. Len(model) = 1 /\ model[1] = EmptyTree OBVIOUS
    <2>2. EmptyTree \in Range(model) BY <2>1 DEF Range
    <2> QED BY <2>1, <2>2
  <1>7. ModelFollows /\ InStep BY <1>a, <1>6 DEF ModelFollows, InStep
  <1> QED BY <1>1, <1>2, <1>3, <1>4, <1>5, <1>7 DEF Inv

\* Every step of every node keeps the invariant.
LEMMA InvNext ==
    ASSUME Inv, [Next]_vars
    PROVE  Inv'
  <1>1. CASE UNCHANGED vars
    <2> USE <1>1 DEF vars, raftVars, nodeVars
    <2>1. Types' /\ RequestTypes' /\ PlacesInOrder' /\ EntriesOnce'
      BY DEF Inv, Types, RequestTypes, PlacesInOrder, EntriesOnce
    <2>2. Handled' BY DEF Inv, Handled, InLog, InQueue, OnDisk
    <2>3. LeaderOwns' /\ ModelFollows' /\ InStep'
      BY DEF Inv, LeaderOwns, ModelFollows, InStep
    <2> QED BY <2>1, <2>2, <2>3 DEF Inv
  <1>2. CASE CommitEntry BY <1>2, CommitStep
  <1>3. ASSUME NEW r \in Requests, Handle(r) PROVE Inv'
    BY <1>3, ApplyStep, HandleStep DEF Handle
  <1>4. ASSUME NEW r \in Requests, NEW n \in Nodes, CheckLeader(n, r) PROVE Inv'
    BY <1>4, CheckLeaderStep
  <1>5. ASSUME NEW n \in Nodes,
               \/ on_apply(n) \/ on_apply_fault(n) \/ Flag(n)
               \/ BecomeLeader(n) \/ LoseLeadership(n)
        PROVE  Inv'
    BY <1>5, OnApplyStep, LeadershipStep, BecomeLeaderStep
  <1>6. ASSUME NEW n \in Nodes,
               \/ Crash(n) \/ Restart(n) \/ on_snapshot_save(n) \/ on_snapshot_load(n)
        PROVE  Inv'
    BY <1>6, CrashStep, RestartStep, SnapshotSaveStep, SnapshotLoadStep
  <1> QED BY <1>1, <1>2, <1>3, <1>4, <1>5, <1>6 DEF Next

\* The invariant holds for clusters of any size, through any elections, crashes, restarts,
\* snapshots and disk faults.
THEOREM InvHolds == Spec => []Inv
  <1>1. Inv /\ [Next]_vars => Inv' BY InvNext
  <1> QED BY InvInit, <1>1, PTL DEF Spec

\* The index of an entry is where it is.
LEMMA IndexOf ==
    ASSUME Inv, NEW r, NEW i \in 1..Len(log), log[i] = r
    PROVE  Index(r) = i
  <1>1. \A j \in 1..Len(log) : log[j] = r => j = i BY DEF Inv, EntriesOnce
  <1> QED BY <1>1 DEF Index

\* Every request and every node's place in the log is where it can be; no entry is in the
\* log or in the queue twice.
THEOREM ClusterTypeCorrect == Spec => []TypeOK
  <1>1. ASSUME Inv PROVE TypeOK
    <2> DEFINE s == log \o pending
    <2>1. /\ log \in Seq(Requests) /\ pending \in Seq(Requests)
          /\ Len(log) \in Nat /\ Len(pending) \in Nat
      BY <1>1 DEF Inv, Types
    <2>2. /\ DOMAIN s = 1..Len(log) + Len(pending)
          /\ \A i \in 1..Len(log) : s[i] = log[i]
          /\ \A i \in 1..Len(log) + Len(pending) : i > Len(log) => s[i] = pending[i - Len(log)]
      BY <2>1, ConcatFacts
    <2> HIDE DEF s
    <2>3. ASSUME NEW i \in DOMAIN s, NEW j \in DOMAIN s, s[i] = s[j] PROVE i = j
      <3>1. CASE i <= Len(log) /\ j <= Len(log)
        BY <1>1, <2>1, <2>2, <2>3, <3>1 DEF Inv, EntriesOnce
      <3>2. CASE i > Len(log) /\ j > Len(log)
        <4>1. i - Len(log) \in 1..Len(pending) /\ j - Len(log) \in 1..Len(pending)
          BY <2>1, <2>2, <3>2
        <4>2. i - Len(log) = j - Len(log)
          BY <1>1, <2>2, <2>3, <3>2, <4>1 DEF Inv, EntriesOnce
        <4> QED BY <2>1, <2>2, <4>2
      <3>3. CASE i <= Len(log) /\ j > Len(log)
        <4>1. i \in 1..Len(log) /\ j - Len(log) \in 1..Len(pending) BY <2>1, <2>2, <3>3
        <4> QED BY <1>1, <2>2, <2>3, <3>3, <4>1 DEF Inv, EntriesOnce
      <3>4. CASE i > Len(log) /\ j <= Len(log)
        <4>1. j \in 1..Len(log) /\ i - Len(log) \in 1..Len(pending) BY <2>1, <2>2, <3>4
        <4> QED BY <1>1, <2>2, <2>3, <3>4, <4>1 DEF Inv, EntriesOnce
      <3> QED BY <2>1, <2>2, <3>1, <3>2, <3>3, <3>4
    <2>4. IsInjective(log \o pending) BY <2>3 DEF IsInjective, s
    <2>5. \A n \in Nodes :
            /\ first[n] <= snapshot[n] /\ snapshot[n] <= applied[n]
            /\ applied[n] <= Len(log) /\ high[n] <= Len(log)
      <3> SUFFICES ASSUME NEW n \in Nodes
                   PROVE  /\ first[n] <= snapshot[n] /\ snapshot[n] <= applied[n]
                          /\ applied[n] <= Len(log) /\ high[n] <= Len(log)
        OBVIOUS
      <3>1. applied[n] \in Nat /\ high[n] \in Nat BY <1>1 DEF Inv, Types
      <3>2. /\ first[n] <= snapshot[n] /\ snapshot[n] <= applied[n]
            /\ applied[n] <= high[n] /\ high[n] <= Len(log)
        BY <1>1 DEF Inv, PlacesInOrder
      <3> QED BY <2>1, <3>1, <3>2
    <2>6. \A r \in Requests : request[r].stage \in Stages /\ request[r].response \in Responses
      BY <1>1 DEF Inv, RequestTypes
    <2>7. Len(model) = Len(log) + 1 BY <1>1 DEF Inv, ModelFollows
    <2> QED BY <1>1, <2>4, <2>5, <2>6, <2>7 DEF Inv, Types, TypeOK, Stages, Responses
  <1> QED BY InvHolds, <1>1, PTL

\* A write answered with success is committed, and on the disk of the node that answered,
\* for good.
THEOREM AckedHolds == Spec => []AckedIsCommitted
  <1>1. ASSUME Inv PROVE AckedIsCommitted
    <2> SUFFICES ASSUME NEW r \in Requests, request[r].response = "ok"
                 PROVE  Committed(r) /\ Index(r) <= high[request[r].node]
      BY DEF AckedIsCommitted
    <2>1. PICK i \in 1..Len(log) : log[i] = r /\ i <= high[request[r].node]
      BY <1>1 DEF Inv, Handled, OnDisk
    <2>2. Index(r) = i BY <1>1, <2>1, IndexOf
    <2>3. r \in Range(log) BY <1>1, <2>1 DEF Inv, Types, Range
    <2> QED BY <2>1, <2>2, <2>3 DEF Committed
  <1> QED BY InvHolds, <1>1, PTL

\* A request that was turned away never gets into the log, on no node.
THEOREM RefusedHolds == Spec => []RefusedNeverRuns
  <1>1. ASSUME Inv PROVE RefusedNeverRuns
    <2> SUFFICES ASSUME NEW r \in Requests, request[r].response = "refused",
                        r \in Range(log \o pending)
                 PROVE  FALSE
      BY DEF RefusedNeverRuns
    <2>1. log \in Seq(Requests) /\ pending \in Seq(Requests) BY <1>1 DEF Inv, Types
    <2>2. PICK i \in DOMAIN (log \o pending) : (log \o pending)[i] = r BY DEF Range
    <2>3. i \in 1..Len(log) + Len(pending) /\ Len(log) \in Nat /\ Len(pending) \in Nat
      BY <2>1
    <2>4. CASE i <= Len(log)
      <3>1. i \in 1..Len(log) /\ log[i] = r BY <2>1, <2>2, <2>3, <2>4
      <3> QED BY <1>1, <3>1 DEF Inv, Handled, InLog
    <2>5. CASE i > Len(log)
      <3>1. i - Len(log) \in 1..Len(pending) /\ pending[i - Len(log)] = r
        BY <2>1, <2>2, <2>3, <2>5
      <3> QED BY <1>1, <3>1 DEF Inv, Handled, InQueue
    <2> QED BY <2>3, <2>4, <2>5
  <1> QED BY InvHolds, <1>1, PTL

\* Until the first crash, the nodes agree whatever the commands are: on_apply runs each
\* entry once on each, also APPEND_FILE (which a replay after a crash runs again).
THEOREM NodesAgreeUntilCrash == Spec => [](count.crashes = 0 => NodesAgree)
  <1>1. ASSUME Inv PROVE count.crashes = 0 => NodesAgree
    BY <1>1 DEF Inv, Types, InStep, NodesAgree, Agrees
  <1> QED BY InvHolds, <1>1, PTL

\* Until the first crash, a read misses no write that its node has acknowledged, and none at
\* all at a leader that has applied what it was elected with, whatever the commands are and
\* however often the leader changes: what such a leader did not apply then it has proposed,
\* and acknowledged, itself.
THEOREM PromisedUntilCrash == Spec => [](count.crashes = 0 => ReadsShowPromised)
  <1>1. ASSUME Inv, count.crashes = 0 PROVE ReadsShowPromised
    <2> SUFFICES ASSUME NEW n \in up \ damaged
                 PROVE  \E k \in 0..Len(log) :
                          /\ \A r \in Promised(n) : Committed(r) /\ Index(r) <= k
                          /\ \A path \in {CommandOf[r].path : r \in Requests} :
                                apply_read_command(n, path) = read_file(model[k + 1], path)
      BY DEF ReadsShowPromised
    <2>1. n \in Nodes BY <1>1 DEF Inv, Types
    <2>2. /\ applied[n] \in Nat /\ high[n] \in Nat /\ start[n] \in Nat /\ Len(log) \in Nat
          /\ applied[n] <= high[n] /\ high[n] <= Len(log)
      BY <1>1, <2>1 DEF Inv, Types, PlacesInOrder
    <2>3. disk[n] = model[applied[n] + 1] /\ high[n] = applied[n] BY <1>1, <2>1 DEF Inv, InStep
    <2>4. ASSUME NEW r \in Promised(n) PROVE Committed(r) /\ Index(r) <= applied[n]
      <3>1. r \in Requests /\ request[r].response = "ok" BY <2>4 DEF Promised
      <3>2. PICK i \in 1..Len(log) : log[i] = r /\ i <= high[request[r].node]
        BY <1>1, <3>1 DEF Inv, Handled, OnDisk
      <3>3. Index(r) = i BY <1>1, <3>2, IndexOf
      <3>4. Committed(r) BY <1>1, <3>2 DEF Inv, Types, Range, Committed
      <3>5. CASE request[r].node = n
        BY <2>3, <3>2, <3>3, <3>4, <3>5
      <3>6. CASE n = leader /\ applied[n] >= start[n] /\ i <= start[n]
        BY <2>2, <3>3, <3>4, <3>6
      <3>7. CASE n = leader /\ applied[n] >= start[n] /\ i > start[n]
        <4>1. leader # None BY <2>1, <3>7, NoneIsNoNode
        <4>2. request[r].node = n BY <1>1, <2>1, <3>2, <3>7, <4>1 DEF Inv, LeaderOwns
        <4> QED BY <3>5, <4>2
      <3> QED BY <2>2, <2>4, <3>5, <3>6, <3>7 DEF Promised
    <2>5. applied[n] \in 0..Len(log) BY <2>2
    <2> QED BY <2>3, <2>4, <2>5 DEF apply_read_command
  <1>2. Inv => (count.crashes = 0 => ReadsShowPromised) BY <1>1
  <1> QED BY InvHolds, <1>2, PTL
=============================================================================
