------------------------------ MODULE RaftLog -------------------------------
(***************************************************************************)
(* The replicated log braft provides, as src/src/state_machine.cc relies   *)
(* on it (braft itself is not part of the repository).  Agreement is taken *)
(* as given: there is one committed log.  What is not hidden is what its   *)
(* users must cope with: leaders that do not know they were deposed,       *)
(* proposals that are dropped or survive a change of leader, and logs that *)
(* are cut off behind a snapshot.                                          *)
(***************************************************************************)
EXTENDS Integers, Sequences

CONSTANTS Nodes, Requests, None, MaxElections

ASSUME NoneIsNoNode == None \notin Nodes

VARIABLES log,        \* the committed entries: a sequence of requests
          pending,    \* the entries of the current leader that are not committed yet
          leader,     \* the node of the current term that can commit, or None
          believes,   \* the nodes whose raft node is in the leader state
          start,      \* start[n]: where the first entry of n's own term is in the log
          elections

raftVars == <<log, pending, leader, believes, start, elections>>

RaftInit ==
    /\ log = <<>>
    /\ pending = <<>>
    /\ leader = None
    /\ believes = {}
    /\ start = [n \in Nodes |-> 0]
    /\ elections = 0

\* n wins an election.  It has every committed entry, and as much of what its
\* predecessor had not committed as had reached it; the predecessor is not told.
Elect(n) ==
    /\ n # leader /\ n \notin believes
    /\ elections < MaxElections
    /\ \E inherited \in 0..Len(pending) :
        /\ pending' = SubSeq(pending, 1, inherited)
        /\ start' = [start EXCEPT ![n] = Len(log) + inherited]
    /\ leader' = n
    /\ believes' = believes \cup {n}
    /\ elections' = elections + 1
    /\ UNCHANGED log

Commit ==
    /\ leader # None /\ pending # <<>>
    /\ log' = Append(log, Head(pending))
    /\ pending' = Tail(pending)
    /\ UNCHANGED <<leader, believes, start, elections>>

\* A deposed leader finds out.
StepDown(n) ==
    /\ n \in believes /\ n # leader
    /\ believes' = believes \ {n}
    /\ UNCHANGED <<log, pending, leader, start, elections>>

\* n's process stops: if it was the leader there is none until the next election.
RaftCrash(n) ==
    /\ believes' = believes \ {n}
    /\ leader' = IF leader = n THEN None ELSE leader
    /\ UNCHANGED <<log, pending, start, elections>>

\* Node::apply on a node in the leader state; a deposed leader's entry goes nowhere.
Propose(n, r) ==
    /\ n \in believes
    /\ pending' = IF n = leader THEN Append(pending, r) ELSE pending
    /\ UNCHANGED <<log, leader, believes, start, elections>>
=============================================================================
