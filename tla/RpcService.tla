----------------------------- MODULE RpcService -----------------------------
(***************************************************************************)
(* What a caller of the client library may rely on, whatever happens to    *)
(* the network and to the server in between: a call runs at most once on   *)
(* the server; an answer is the answer to that very call; a call reported  *)
(* as not sent has not run and never will; only a call that went           *)
(* unanswered may have run or not, and may still run later.                *)
(***************************************************************************)
EXTENDS Integers, Sequences

CONSTANTS
    Calls,     \* the calls a client makes
    None,
    MaxData    \* the largest amount of data or entries in a response

VARIABLES
    asked,    \* the calls that were made
    runs,     \* what the server made of each call, each time it ran it
    response  \* the response send_command returned to each call, or None

vars == <<asked, runs, response>>

Unsent == {"not_connected", "not_sent"}   \* "Not connected to server", "Failed to send request"
Unknown == {"unanswered", "rpc"}          \* "Failed to receive response", "RPC error"

Responses ==
    [success : {TRUE}, error : {"none"}, data : 0..MaxData] \cup
    [success : {FALSE}, error : {"server"} \cup Unsent \cup Unknown, data : {0}]

Init ==
    /\ asked = {}
    /\ runs = [c \in Calls |-> <<>>]
    /\ response = [c \in Calls |-> None]

\* One call at a time: the client library has no lock.
Ask(c) ==
    /\ c \notin asked /\ \A d \in asked : response[d] # None
    /\ asked' = asked \cup {c}
    /\ UNCHANGED <<runs, response>>

MayRun(c) ==
    /\ c \in asked /\ runs[c] = <<>>
    /\ response[c] = None \/ response[c].error \in Unknown

Run(c, outcome) ==
    /\ MayRun(c)
    /\ runs' = [runs EXCEPT ![c] = <<outcome>>]
    /\ UNCHANGED <<asked, response>>

\* What may be said of a call that ran as recorded.
Truthful(c, r) ==
    \/ r.error = "none" /\ runs[c] = <<r>>
    \/ r.error = "server" /\ (runs[c] = <<>> \/ runs[c] = <<r>>)
    \/ r.error \in Unsent /\ runs[c] = <<>>
    \/ r.error \in Unknown

Answer(c, r) ==
    /\ c \in asked /\ response[c] = None
    /\ Truthful(c, r)
    /\ response' = [response EXCEPT ![c] = r]
    /\ UNCHANGED <<asked, runs>>

Next == \E c \in Calls : Ask(c) \/ \E r \in Responses : Run(c, r) \/ Answer(c, r)

Spec == Init /\ [][Next]_vars
=============================================================================
