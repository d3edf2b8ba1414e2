-------------------------------- MODULE Rpc ---------------------------------
(***************************************************************************)
(* The protocol between the client library (src/client/cpp) and RpcServer  *)
(* (src/src/rpc.cc): calls of one Client object, one at a time, over       *)
(* connections that it opens when it has none; on the server a handler per *)
(* connection.  A message is a length and then the data, each a transfer   *)
(* of its own.  Sizes are in units, so that a message of the largest size, *)
(* one too large, and one whose size does not fit the 32 bits of the       *)
(* length are all small numbers.                                           *)
(***************************************************************************)
EXTENDS Integers, Sequences

CONSTANTS
    MaxCalls,      \* the number of calls the client makes
    None,
    Requests,      \* the commands it may send: [kind, size]
    MaxData,       \* the largest amount of data in a response
    MaxMessage,    \* MAX_MESSAGE_SIZE, and the 100 MB of the client
    LengthModulus  \* 2^32: a length is a uint32_t

\* The calls, numbered in their order; a connection is named after the call that opened it.
Calls == 1..MaxCalls
\* "read" stands for READ_FILE and LIST_DIR, "write" for the commands that change files.
Kinds == {"write", "read"}

VARIABLES
    request,   \* the command of each call, None before it is made
    response,  \* the Response that send_command returned, None before
    cur,       \* the call in progress
    place,     \* where send_command is
    conn,      \* conn_: the open connection
    expect,    \* msg_len of the client's receive_message
    up, down,  \* what is on its way to the server and to the client, per connection
    server,    \* the server's end: "none", "backlog", "open", "leaked" or "closed"
    handler,   \* where the handler of each connection is
    hand,      \* the message it has received or is about to send
    ending,    \* the connections whose handler returns after the response
    runs,      \* history: what dispatch_command returned for each call, each time
    via,       \* history: the connection that each call used
    fault      \* history: the connections that something other than the messages broke

clientVars == <<request, response, cur, place, conn, expect, via>>
serverVars == <<server, handler, hand, ending, runs>>
vars == <<clientVars, up, down, serverVars, fault>>

S == INSTANCE RpcService WITH asked <- {c \in Calls : request[c] # None}

ASSUME RpcConstants ==
    /\ MaxCalls \in Nat
    /\ None \notin Nat /\ None \notin Requests /\ None \notin S!Responses
    /\ Requests \subseteq [kind : Kinds, size : Nat \ {0}]
    /\ MaxData \in Nat /\ MaxMessage \in Nat \ {0}
    /\ LengthModulus \in Nat /\ LengthModulus > MaxMessage

Length(c, n) == [type |-> "length", call |-> c, n |-> n, resp |-> None]
Data(c, n, r) == [type |-> "data", call |-> c, n |-> n, resp |-> r]
Nothing == Length(None, 0)

\* commands::Response, as dispatch_command makes it.
Result(success, data) ==
    [success |-> success, error |-> IF success THEN "none" ELSE "server", data |-> data]
Failure(error) == [success |-> FALSE, error |-> error, data |-> 0]
\* The size of an encoded response.
Encoded(r) == 1 + r.data
\* A sanity check that both sides make of a length.
Acceptable(n) == n # 0 /\ n <= MaxMessage

Init ==
    /\ request = [c \in Calls |-> None] /\ response = [c \in Calls |-> None]
    /\ cur = None /\ place = "idle" /\ conn = None /\ expect = 0
    /\ via = [c \in Calls |-> None]
    /\ up = [k \in Calls |-> <<>>] /\ down = [k \in Calls |-> <<>>]
    /\ server = [k \in Calls |-> "none"] /\ handler = [k \in Calls |-> "none"]
    /\ hand = [k \in Calls |-> Nothing] /\ ending = {}
    /\ runs = [c \in Calls |-> <<>>]
    /\ fault = {}
-----------------------------------------------------------------------------
\* Mutant: it is not looked at whether there is a connection.
send_command_unconnected(c, q) ==
    /\ place = "idle" /\ request[c] = None /\ \A d \in 1..c - 1 : request[d] # None
    /\ request' = [request EXCEPT ![c] = q]
    /\ cur' = c
    /\ place' = "send_length"
    /\ via' = [via EXCEPT ![c] = conn]
    /\ UNCHANGED <<response, conn, expect, up, down, serverVars, fault>>

\* A method of Client fills in a command and calls send_command, which connects if
\* there is no connection.  is_connected only knows whether the socket was opened.
send_command(c, q) ==
    /\ place = "idle" /\ request[c] = None /\ \A d \in 1..c - 1 : request[d] # None
    /\ request' = [request EXCEPT ![c] = q]
    /\ cur' = c
    /\ place' = IF conn = None THEN "connect" ELSE "send_length"
    /\ via' = [via EXCEPT ![c] = conn]
    /\ UNCHANGED <<response, conn, expect, up, down, serverVars, fault>>

Return(r) ==
    /\ response' = [response EXCEPT ![cur] = r]
    /\ cur' = None /\ place' = "idle" /\ expect' = 0
    /\ UNCHANGED <<request, via>>

connect ==
    /\ place = "connect"
    /\ place' = "send_length" /\ conn' = cur
    /\ via' = [via EXCEPT ![cur] = cur]
    /\ server' = [server EXCEPT ![cur] = "backlog"]
    /\ UNCHANGED <<request, response, cur, expect, up, down, handler, hand, ending, runs, fault>>

connect_fails ==
    /\ place = "connect"
    /\ Return(Failure("not_connected"))
    /\ UNCHANGED <<conn, up, down, serverVars, fault>>

disconnect ==
    /\ conn' = None
    /\ down' = [down EXCEPT ![conn] = <<>>]

\* A transfer of the client fails: the server has closed the connection, or the network
\* fails, or 30 seconds have passed.
Broken == fault' = IF server[conn] = "closed" THEN fault ELSE fault \cup {conn}

\* What is sent to an end that will not read any more is lost.
Listening(k) == server[k] \in {"backlog", "open"}
SendUp(k, item) == up' = IF Listening(k) THEN [up EXCEPT ![k] = Append(@, item)] ELSE up
SendDown(k, item) == down' = IF conn = k THEN [down EXCEPT ![k] = Append(@, item)] ELSE down

\* send_message: the size is narrowed to 32 bits, and not compared with anything.
send_length ==
    /\ place = "send_length"
    /\ SendUp(conn, Length(cur, request[cur].size % LengthModulus))
    /\ place' = "send_data"
    /\ UNCHANGED <<request, response, cur, conn, expect, via, down, serverVars, fault>>

send_data ==
    /\ place = "send_data"
    /\ SendUp(conn, Data(cur, request[cur].size, None))
    /\ place' = "receive_length"
    /\ UNCHANGED <<request, response, cur, conn, expect, via, down, serverVars, fault>>

\* "Failed to send request"; a part of the data may have been sent.
send_fails ==
    /\ place \in {"send_length", "send_data"}
    /\ \/ UNCHANGED up
       \/ /\ place = "send_data"
          /\ \E n \in 1..request[cur].size - 1 : SendUp(conn, Data(cur, n, None))
    /\ Broken
    /\ Return(Failure("not_sent")) /\ disconnect
    /\ UNCHANGED serverVars

Arrived(channel, type, n) ==
    channel # <<>> /\ Head(channel).type = type /\ Head(channel).n >= n

receive_length ==
    /\ place = "receive_length" /\ Arrived(down[conn], "length", 0)
    /\ LET n == Head(down[conn]).n IN
       \/ /\ Acceptable(n) /\ place' = "receive_data" /\ expect' = n
          /\ down' = [down EXCEPT ![conn] = Tail(@)]
          /\ UNCHANGED <<request, response, cur, conn, via>>
       \/ ~Acceptable(n) /\ Return(Failure("unanswered")) /\ disconnect
    /\ UNCHANGED <<up, serverVars, fault>>

receive_data ==
    /\ place = "receive_data" /\ Arrived(down[conn], "data", expect)
    /\ down' = [down EXCEPT ![conn] = Tail(@)]
    /\ Return(Head(down[conn]).resp)
    /\ UNCHANGED <<conn, up, serverVars, fault>>

\* Mutant: the connection is kept after a failed receive.
receive_fails_connected ==
    /\ place \in {"receive_length", "receive_data"}
    /\ Broken
    /\ Return(Failure("unanswered"))
    /\ UNCHANGED <<conn, up, down, serverVars>>

\* Mutant: the request is sent again, over a new connection.
receive_fails_retry ==
    /\ place \in {"receive_length", "receive_data"}
    /\ Broken
    /\ place' = "connect" /\ disconnect
    /\ UNCHANGED <<request, response, cur, expect, via, up, serverVars>>

\* Mutant: the socket has no receive timeout.
receive_fails_no_timeout ==
    /\ place \in {"receive_length", "receive_data"}
    /\ server[conn] = "closed"
    /\ Broken
    /\ Return(Failure("unanswered")) /\ disconnect
    /\ UNCHANGED <<up, serverVars>>

\* "Failed to receive response": the answer may still be on its way.
receive_fails ==
    /\ place \in {"receive_length", "receive_data"}
    /\ Broken
    /\ Return(Failure("unanswered")) /\ disconnect
    /\ UNCHANGED <<up, serverVars>>

\* "RPC error": packing the command, or making room for the response, throws.
exception ==
    /\ place \in {"send_length", "receive_data"}
    /\ fault' = fault \cup {conn}
    /\ Return(Failure("rpc")) /\ disconnect
    /\ UNCHANGED <<up, serverVars>>
-----------------------------------------------------------------------------
Goto(k, where) == handler' = [handler EXCEPT ![k] = where]
\* Something happens that breaks the connection, if the client still has it.
Blame(k) == fault' = IF conn = k THEN fault \cup {k} ELSE fault

Accept(k) ==
    /\ server[k] = "backlog"
    /\ server' = [server EXCEPT ![k] = "open"]
    /\ Goto(k, "receive_length")
    /\ UNCHANGED <<clientVars, up, down, hand, ending, runs, fault>>

\* The handler returns, with its end of the connection closed, or open and not read.
End(k, how) ==
    /\ Goto(k, "gone")
    /\ server' = [server EXCEPT ![k] = how]
    /\ hand' = [hand EXCEPT ![k] = Nothing]
    /\ up' = [up EXCEPT ![k] = <<>>]

\* Mutant: the largest message is refused.
ReceiveLength_strict(k) ==
    /\ handler[k] = "receive_length" /\ server[k] = "open" /\ Arrived(up[k], "length", 0)
    /\ \/ /\ Head(up[k]).n \in 1..MaxMessage - 1
          /\ up' = [up EXCEPT ![k] = Tail(@)] /\ hand' = [hand EXCEPT ![k] = Head(up[k])]
          /\ Goto(k, "receive_data") /\ UNCHANGED server
       \/ Head(up[k]).n \notin 1..MaxMessage - 1 /\ End(k, "closed")
    /\ UNCHANGED <<clientVars, down, ending, runs, fault>>

ReceiveLength(k) ==
    /\ handler[k] = "receive_length" /\ server[k] = "open" /\ Arrived(up[k], "length", 0)
    /\ \/ /\ Acceptable(Head(up[k]).n)
          /\ up' = [up EXCEPT ![k] = Tail(@)] /\ hand' = [hand EXCEPT ![k] = Head(up[k])]
          /\ Goto(k, "receive_data") /\ UNCHANGED server
       \/ ~Acceptable(Head(up[k]).n) /\ End(k, "closed")
    /\ UNCHANGED <<clientVars, down, ending, runs, fault>>

\* A command is decoded if all of its data was received.  The beginning of one is not, and
\* the answer says so; what is left of the data stays in the stream.
ReceiveData(k) ==
    /\ handler[k] = "receive_data" /\ server[k] = "open" /\ Arrived(up[k], "data", hand[k].n)
    /\ LET item == Head(up[k])
           rest == [item EXCEPT !.n = @ - hand[k].n]
           whole == request[item.call].size = hand[k].n IN
       /\ up' = [up EXCEPT ![k] = (IF rest.n = 0 THEN <<>> ELSE <<rest>>) \o Tail(@)]
       /\ Goto(k, IF whole THEN "dispatch" ELSE "send_length")
       /\ hand' = [hand EXCEPT ![k] = [item EXCEPT !.resp = IF whole THEN None ELSE Failure("server")]]
       /\ ending' = IF whole THEN ending ELSE ending \cup {k}
    /\ UNCHANGED <<clientVars, down, server, runs, fault>>

\* Only a read has data to return.
Outcomes(c) ==
    {Result(FALSE, 0)} \cup
    {Result(TRUE, n) : n \in 0..(IF request[c].kind = "read" THEN MaxData ELSE 0)}

\* dispatch_command.  A response that is too large is not sent; an exception is answered
\* with an error, and ends the connection.
Dispatch(k) ==
    /\ handler[k] = "dispatch"
    /\ \E r \in Outcomes(hand[k].call) :
          /\ runs' = [runs EXCEPT ![hand[k].call] = Append(@, r)]
          /\ \/ /\ Encoded(r) <= MaxMessage
                /\ Goto(k, "send_length") /\ hand' = [hand EXCEPT ![k].resp = r]
                /\ \/ UNCHANGED <<ending, fault>>
                   \/ ~r.success /\ ending' = ending \cup {k} /\ Blame(k)
                /\ UNCHANGED <<server, up>>
             \/ Encoded(r) > MaxMessage /\ End(k, "closed") /\ UNCHANGED <<ending, fault>>
    /\ UNCHANGED <<clientVars, down>>

SendLength(k) ==
    /\ handler[k] = "send_length" /\ server[k] = "open"
    /\ SendDown(k, Length(hand[k].call, Encoded(hand[k].resp)))
    /\ Goto(k, "send_data")
    /\ UNCHANGED <<clientVars, up, server, hand, ending, runs, fault>>

SendData(k) ==
    /\ handler[k] = "send_data" /\ server[k] = "open"
    /\ SendDown(k, Data(hand[k].call, Encoded(hand[k].resp), hand[k].resp))
    /\ \/ k \in ending /\ End(k, "closed")
       \/ /\ k \notin ending
          /\ Goto(k, "receive_length") /\ hand' = [hand EXCEPT ![k] = Nothing]
          /\ UNCHANGED <<server, up>>
    /\ UNCHANGED <<clientVars, ending, runs, fault>>

Transferring == {"receive_length", "receive_data", "send_length", "send_data"}

\* Mutant: that the client has closed the connection goes unnoticed.
Fails_unnoticed(k) ==
    /\ handler[k] \in Transferring /\ conn = k
    /\ End(k, IF server[k] = "open" THEN "leaked" ELSE "closed")
    /\ Blame(k)
    /\ UNCHANGED <<clientVars, down, ending, runs>>

\* A transfer of the handler fails: the client has closed the connection, or the network
\* fails, or 30 seconds have passed.  After stop() the descriptor is closed already.  A part
\* of the response may have been sent.
Fails(k) ==
    /\ handler[k] \in Transferring
    /\ End(k, IF server[k] = "open" THEN "leaked" ELSE "closed")
    /\ \/ UNCHANGED down
       \/ /\ handler[k] = "send_data" /\ server[k] = "open"
          /\ \E n \in 1..Encoded(hand[k].resp) - 1 :
                SendDown(k, Data(hand[k].call, n, hand[k].resp))
    /\ Blame(k)
    /\ UNCHANGED <<clientVars, ending, runs>>

\* Making room for the data throws: the connection is closed.
Throws(k) ==
    /\ handler[k] = "receive_data" /\ server[k] = "open"
    /\ End(k, "closed")
    /\ Blame(k)
    /\ UNCHANGED <<clientVars, down, ending, runs>>

\* stop() closes the connection under its handler.
Stop(k) ==
    /\ Listening(k)
    /\ server' = [server EXCEPT ![k] = "closed"]
    /\ up' = [up EXCEPT ![k] = <<>>]
    /\ Blame(k)
    /\ UNCHANGED <<clientVars, down, handler, hand, ending, runs>>
-----------------------------------------------------------------------------
Client ==
    \/ connect \/ connect_fails \/ send_length \/ send_data \/ send_fails
    \/ receive_length \/ receive_data \/ receive_fails \/ exception
Handler(k) ==
    \/ Accept(k) \/ ReceiveLength(k) \/ ReceiveData(k) \/ Dispatch(k)
    \/ SendLength(k) \/ SendData(k) \/ Fails(k) \/ Throws(k)

Next ==
    \/ \E c \in Calls, q \in Requests : send_command(c, q)
    \/ Client
    \/ \E k \in Calls : Handler(k) \/ Stop(k)

Spec == Init /\ [][Next]_vars
\* Threads run, and no transfer takes for ever: each of its finitely many calls moves a byte
\* or ends it, at its timeout of 30 seconds if not before.  Dispatch is taken to return: its
\* wait for raft has no timeout, and StateMachine and Server say when it ends.
FairSpec == Spec /\ WF_vars(Client) /\ \A k \in Calls : WF_vars(Handler(k))
-----------------------------------------------------------------------------
\* What the method of Client that made the call returns: 0 or -1, the number of bytes, or
\* the number of entries.  read_file and list_directory have no value for a failure.
Value(c) ==
    LET r == response[c] IN
    IF request[c].kind = "write" THEN (IF r.success THEN 0 ELSE -1)
    ELSE IF r.success THEN r.data ELSE 0

Places == {"idle", "connect", "send_length", "send_data", "receive_length", "receive_data"}
HandlerPlaces == {"none", "receive_length", "receive_data", "dispatch", "send_length", "send_data",
                  "gone"}
Items == [type : {"length", "data"}, call : Calls \cup {None}, n : Nat,
          resp : S!Responses \cup {None}]

\* Every thread is at a place it can be at.  The client has a call in hand exactly when it
\* is not idle, and a connection while it sends and receives.
TypeOK ==
    /\ request \in [Calls -> Requests \cup {None}]
    /\ response \in [Calls -> S!Responses \cup {None}]
    /\ cur \in Calls \cup {None} /\ conn \in Calls \cup {None}
    /\ place \in Places /\ expect \in Nat
    /\ via \in [Calls -> Calls \cup {None}]
    /\ up \in [Calls -> Seq(Items)] /\ down \in [Calls -> Seq(Items)]
    /\ server \in [Calls -> {"none", "backlog", "open", "leaked", "closed"}]
    /\ handler \in [Calls -> HandlerPlaces] /\ hand \in [Calls -> Items]
    /\ ending \subseteq Calls /\ fault \subseteq Calls
    /\ runs \in [Calls -> Seq(S!Responses)]
    /\ (cur = None) = (place = "idle")
    /\ place \notin {"idle", "connect"} => conn # None

\* The client and the server together keep the promise of RpcService: at most one run per
\* call, no answer to another call, nothing run that was reported as not sent.
Service == S!Spec

\* What a method of Client returns can be relied on: 0 from a call that changes files means
\* that it was carried out, once, and a number of bytes or entries is what was read.
ValuesMeanWhatTheySay ==
    \A c \in Calls : response[c] # None =>
        /\ request[c].kind = "write" /\ Value(c) = 0 => runs[c] = <<Result(TRUE, 0)>>
        /\ request[c].kind = "read" /\ Value(c) > 0 => runs[c] = <<Result(TRUE, Value(c))>>

TooLarge(c) ==
    \/ request[c].size > MaxMessage
    \/ runs[c] # <<>> /\ Encoded(runs[c][1]) > MaxMessage

\* A call whose messages fit, and those of the calls before it on the same connection, gets
\* an answer unless a timeout, the network, stop() or a lack of memory broke the
\* connection: neither side ever closes it, or loses its place in the stream, by itself.
FailuresExplained ==
    \A c \in Calls :
        /\ response[c] # None /\ response[c].error \in {"not_sent", "unanswered", "rpc"}
        /\ via[c] \notin fault
        => \E d \in Calls : via[d] = via[c] /\ TooLarge(d)

\* Every call returns, also when the server has left its end of the connection open and
\* nobody reads from it: the client has timeouts of its own.
CallsReturn == \A c \in Calls : request[c] # None ~> response[c] # None

\* A handler does not outlive its connection for ever: once the client has given it up the
\* thread ends, given that the command it may be in returns.
HandlersEnd == \A k \in Calls : (server[k] # "none" /\ conn # k) ~> handler[k] \in {"none", "gone"}
=============================================================================
