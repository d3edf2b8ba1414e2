------------------------------- MODULE MCRpc --------------------------------
(* Messages of one and two units fit, three are too many; four and five     *)
(* units have lengths that wrap around to zero and one.                     *)
EXTENDS Rpc

\* Commands of every kind and of every size.
SomeRequests ==
    {[kind |-> "write", size |-> n] : n \in 2..5} \cup {[kind |-> "read", size |-> 1]}
=============================================================================
