--------------------------- MODULE RpcInvariant ----------------------------
(***************************************************************************)
(* The inductive invariant of Rpc: what makes the client and the server    *)
(* keep the promise of RpcService.  A connection carries the messages of   *)
(* one call at a time, so that an answer cannot meet another call; and a   *)
(* command that can still be executed has not been executed and has not    *)
(* been answered.                                                          *)
(***************************************************************************)
EXTENDS Rpc

Active == {"receive_data", "dispatch", "send_length", "send_data"}
Busy == {"dispatch", "send_length", "send_data"}

\* A response that a handler may give to call c.
Truth(c, r) ==
    /\ r \in S!Responses
    /\ \/ r.error = "none" /\ runs[c] = <<r>>
       \/ r.error = "server" /\ (runs[c] = <<>> \/ runs[c] = <<r>>)

\* Call c can still be executed by the handler of connection k: all of its data is on its
\* way, or in dispatch_command's hands.
Pending(c, k) ==
    \/ \E i \in DOMAIN up[k] :
          up[k][i].type = "data" /\ up[k][i].call = c /\ up[k][i].n = request[c].size
    \/ handler[k] = "dispatch" /\ hand[k].call = c

\* The client makes one call at a time, and a call it has not sent has not run.
CallsInOrder ==
    /\ cur # None => request[cur] # None /\ response[cur] = None
    /\ \A c \in Calls : request[c] = None => response[c] = None /\ runs[c] = <<>> /\ via[c] = None
    /\ \A c \in Calls : request[c] # None /\ c # cur => response[c] # None
    /\ place \in {"connect", "send_length", "send_data"} => runs[cur] = <<>>
    /\ place = "connect" => via[cur] = None /\ conn = None
    /\ place \notin {"idle", "connect"} => via[cur] = conn

\* The two ends of a connection agree on how far it has got.
ConnectionEnds ==
    \A k \in Calls :
        /\ server[k] = "none" => handler[k] = "none" /\ up[k] = <<>> /\ down[k] = <<>>
        /\ request[k] = None \/ (k = cur /\ place = "connect") => server[k] = "none"
        /\ ~Listening(k) => up[k] = <<>>
        /\ server[k] = "backlog" => handler[k] = "none"
        /\ server[k] = "open" => handler[k] \notin {"none", "gone"}
        /\ k \in ending => handler[k] \in {"send_length", "send_data", "gone"}
        /\ conn = k => server[k] # "none"

\* What is on its way to the server is one message, of one call that has not run, and
\* nothing follows it.
OnItsWay(k, i) ==
    LET x == up[k][i] IN
    /\ x.call \in Calls /\ request[x.call] # None /\ via[x.call] = k /\ runs[x.call] = <<>>
    /\ conn = k => x.call = cur
    /\ x.type = "length" => i = 1 /\ handler[k] \in {"none", "receive_length"}
    /\ x.type = "data" => i = Len(up[k]) /\ x.n <= request[x.call].size
UpStream ==
    \A k \in Calls :
        /\ \A i \in DOMAIN up[k] : OnItsWay(k, i)
        /\ handler[k] \in Busy /\ k \notin ending => up[k] = <<>>

\* Between calls, and until the data of a request is sent, there is nothing else under way
\* on the client's connection.
ClientStream ==
    \A k \in Calls : conn = k =>
        /\ place \in {"idle", "send_length"} =>
               up[k] = <<>> /\ down[k] = <<>> /\ handler[k] \in {"none", "receive_length", "gone"}
        /\ place = "send_data" =>
               /\ down[k] = <<>>
               /\ handler[k] \in {"none", "receive_length", "receive_data", "gone"}
               /\ \A i \in DOMAIN up[k] : up[k][i].type = "length"
        /\ handler[k] \in Active => hand[k].call = cur

\* The answer on its way is the last thing the handler did for the call in progress.
DownStream ==
    \A k \in Calls :
        /\ down[k] # <<>> => conn = k
        /\ \A i \in DOMAIN down[k] :
            /\ down[k][i].call = cur
            /\ down[k][i].type = "data" =>
                  /\ i = Len(down[k]) /\ up[k] = <<>> /\ handler[k] \in {"receive_length", "gone"}
                  /\ Truth(cur, down[k][i].resp)

\* What a handler has in hand belongs to its connection, and its answer is true.
InHand ==
    \A k \in Calls :
        /\ handler[k] \in Active =>
               hand[k].call \in Calls /\ request[hand[k].call] # None /\ via[hand[k].call] = k
        /\ handler[k] = "receive_data" => hand[k].n > 0
        /\ handler[k] \in {"send_length", "send_data"} => Truth(hand[k].call, hand[k].resp)

\* A call that can still be executed has not been, and the caller was told nothing final.
PendingNotRun ==
    \A c, k \in Calls : Pending(c, k) =>
        runs[c] = <<>> /\ (response[c] = None \/ response[c].error \in S!Unknown)

\* What the caller was told is true, and stays true.
ResponsesTrue == \A c \in Calls : response[c] # None => S!Truthful(c, response[c])

\* A call has run at most once, and only a read returned data.
RunsOnce ==
    \A c \in Calls : runs[c] = <<>> \/
        \E r \in S!Responses : runs[c] = <<r>> /\ (request[c].kind = "write" => r.data = 0)

\* The inductive invariant.
RpcInv ==
    /\ TypeOK
    /\ CallsInOrder
    /\ ConnectionEnds
    /\ UpStream
    /\ ClientStream
    /\ DownStream
    /\ InHand
    /\ PendingNotRun
    /\ ResponsesTrue
    /\ RunsOnce

\* Something is known that explains why connection k may break: a fault, or a call that has
\* used it with a request or an answer that is too large.
Excused(k) == k \in fault \/ \E c \in Calls : via[c] = k /\ TooLarge(c)

\* The length that goes before a request is its size narrowed to 32 bits, also in the hands
\* of the handler, and an answer that is sent is one that the client accepts.
LengthsTrue ==
    \A k \in Calls :
        /\ \A i \in DOMAIN up[k] : up[k][i].type = "length" =>
               up[k][i].n = request[up[k][i].call].size % LengthModulus
        /\ handler[k] = "receive_data" => hand[k].n = request[hand[k].call].size % LengthModulus
        /\ handler[k] \in {"send_length", "send_data"} => Acceptable(Encoded(hand[k].resp))
        /\ \A i \in DOMAIN down[k] : down[k][i].type = "length" => Acceptable(down[k][i].n)

\* The server closes a connection under the client, or makes up its mind to do so, only with
\* an excuse, and so does a call that fails.
BreaksExcused ==
    /\ \A k \in Calls : conn = k /\ (server[k] = "closed" \/ k \in ending) => Excused(k)
    /\ \A c \in Calls :
           response[c] # None /\ response[c].error \in {"not_sent", "unanswered", "rpc"}
           => via[c] # None /\ Excused(via[c])
=============================================================================
