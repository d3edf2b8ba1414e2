----------------------------- MODULE RpcProofs -----------------------------
(***************************************************************************)
(* The client and the server together implement RpcService, for any number *)
(* of calls and any sizes.  First facts about messages and streams; then   *)
(* every step preserves RpcInv: the client's, those of the connections     *)
(* (accept, the end of a handler, stop()) and those of a handler; then the *)
(* theorems; at last what lets a call fail, and why.                       *)
(***************************************************************************)
EXTENDS RpcInvariant, TLAPS

\* Nothing on its way is a sequence too.
LEMMA EmptySeq ==
  ASSUME NEW T PROVE <<>> \in Seq(T) /\ \A s \in Seq(T) : (s = <<>>) <=> (Len(s) = 0)
OBVIOUS

\* None is neither a call, nor a command, nor a response; responses are records.
LEMMA NoneApart ==
  /\ None \notin Calls /\ None \notin Requests /\ None \notin S!Responses
  /\ Calls \subseteq Nat
  /\ \A r \in S!Responses : r.data \in Nat
<1>1. \A r \in S!Responses : r.data \in Nat
  <2>1. \A r \in [success : {TRUE}, error : {"none"}, data : 0..MaxData] : r.data \in Nat
    BY RpcConstants
  <2>2. \A r \in [success : {FALSE}, error : {"server"} \cup S!Unsent \cup S!Unknown, data : {0}] :
            r.data \in Nat
    OBVIOUS
  <2> QED
    BY <2>1, <2>2, Zenon DEF S!Responses
<1>2. Calls \subseteq Nat
  BY RpcConstants DEF Calls
<1> QED
  BY <1>1, <1>2, RpcConstants, Zenon

\* The messages a connection is made of are items.
LEMMA Messages ==
  /\ \A c \in Calls, n \in Nat : Length(c, n) \in Items /\ Data(c, n, None) \in Items
  /\ \A c \in Calls, n \in Nat, r \in S!Responses : Data(c, n, r) \in Items
  /\ Nothing \in Items
  BY Zenon DEF Length, Data, Nothing, Items

\* What a handler or send_command reports is a response.
LEMMA Reports ==
  /\ \A e \in {"server", "not_connected", "not_sent", "unanswered", "rpc"} : Failure(e) \in S!Responses
  /\ \A c \in Calls : Outcomes(c) \subseteq S!Responses
<1>1. \A e \in {"server", "not_connected", "not_sent", "unanswered", "rpc"} : Failure(e) \in S!Responses
  BY Zenon DEF Failure, S!Responses, S!Unsent, S!Unknown
<1>2. ASSUME NEW c \in Calls, NEW r \in Outcomes(c) PROVE r \in S!Responses
  <2>1. CASE r = Result(FALSE, 0)
    BY <2>1, Zenon DEF Result, S!Responses
  <2>2. ASSUME NEW n \in 0..MaxData, r = Result(TRUE, n) PROVE r \in S!Responses
    BY <2>2, Zenon DEF Result, S!Responses
  <2>3. 0..(IF request[c].kind = "read" THEN MaxData ELSE 0) \subseteq 0..MaxData
    BY RpcConstants
  <2> QED
    BY <1>2, <2>1, <2>2, <2>3, Zenon DEF Outcomes
<1> QED
  BY <1>1, <1>2, Zenon

\* A message is put behind the others on its way.
LEMMA PutBehind ==
  ASSUME NEW s \in Seq(Items), NEW x \in Items, NEW t, t = Append(s, x)
  PROVE  /\ t \in Seq(Items) /\ t # <<>> /\ Len(t) \in DOMAIN t
         /\ \A i \in DOMAIN t : \/ i \in DOMAIN s /\ i # Len(t) /\ t[i] = s[i]
                                \/ i = Len(t) /\ t[i] = x
<1>1. Len(s) \in Nat /\ DOMAIN s = 1..Len(s)
  OBVIOUS
<1>2. t \in Seq(Items) /\ DOMAIN t = 1..Len(s) + 1 /\ Len(t) = Len(s) + 1
  OBVIOUS
<1>3. t[Len(s) + 1] = x /\ \A i \in 1..Len(s) : t[i] = s[i]
  OBVIOUS
<1>4. \A i \in 1..Len(s) + 1 : (i \in 1..Len(s) /\ i # Len(s) + 1) \/ i = Len(s) + 1
  BY <1>1
<1>5. t # <<>> /\ Len(t) \in DOMAIN t
  BY <1>1, <1>2
<1>6. \A i \in DOMAIN t : \/ i \in DOMAIN s /\ i # Len(t) /\ t[i] = s[i]
                          \/ i = Len(t) /\ t[i] = x
  <2> TAKE i \in DOMAIN t
  <2>1. CASE i \in 1..Len(s) /\ i # Len(s) + 1
    BY <1>1, <1>2, <1>3, <2>1, Zenon
  <2>2. CASE i = Len(s) + 1
    BY <1>2, <1>3, <2>2, Zenon
  <2> QED
    BY <1>2, <1>4, <2>1, <2>2, Zenon
<1> QED
  BY <1>2, <1>5, <1>6, Zenon

\* A message is taken from the front.
LEMMA TakeFront ==
  ASSUME NEW s \in Seq(Items), s # <<>>, NEW t, t = Tail(s)
  PROVE  /\ t \in Seq(Items) /\ 1 \in DOMAIN s /\ Head(s) = s[1] /\ s[1] \in Items
         /\ \A i \in DOMAIN t : /\ i + 1 \in DOMAIN s /\ t[i] = s[i + 1] /\ i + 1 # 1
                                /\ i + 1 = Len(s) => i = Len(t)
         /\ Len(s) = 1 => t = <<>>
<1>1. DOMAIN s = 1..Len(s) /\ Len(s) \in Nat /\ Len(s) >= 1
  OBVIOUS
<1>2. Head(s) = s[1] /\ s[1] \in Items
  BY <1>1
<1>3. t \in Seq(Items) /\ Len(t) = Len(s) - 1
  BY <1>1
<1>4. DOMAIN t = 1..Len(s) - 1
  BY <1>1, <1>3
<1>5. \A i \in 1..Len(s) - 1 : t[i] = s[i + 1]
  BY <1>1
<1>6. \A n \in Nat : \A i \in 1..n - 1 : i + 1 \in 1..n /\ i + 1 # 1 /\ (i + 1 = n => i = n - 1)
  OBVIOUS
<1>7. Len(s) = 1 => t = <<>>
  BY <1>3, EmptySeq
<1>8. \A i \in DOMAIN t : i + 1 \in DOMAIN s /\ t[i] = s[i + 1]
  BY <1>1, <1>4, <1>5, <1>6, Zenon
<1>9. \A i \in DOMAIN t : i + 1 # 1 /\ (i + 1 = Len(s) => i = Len(t))
  BY <1>1, <1>3, <1>4, <1>6, Zenon
<1>10. 1 \in DOMAIN s
  BY <1>1
<1> QED
  BY <1>2, <1>3, <1>7, <1>8, <1>9, <1>10, Zenon

\* Before the first call there is nothing.
LEMMA RpcInitInv == Init => RpcInv
<1> SUFFICES ASSUME Init PROVE RpcInv
  BY Zenon
<1> USE NoneApart, Messages DEF Init
<1>1. TypeOK
  BY DEF TypeOK, Places, HandlerPlaces
<1>2. CallsInOrder /\ ConnectionEnds
  BY Zenon DEF CallsInOrder, ConnectionEnds, Listening
<1>3. UpStream /\ ClientStream /\ DownStream
  BY DEF UpStream, ClientStream, DownStream
<1>4. InHand /\ PendingNotRun
  BY Zenon DEF InHand, PendingNotRun, Pending, Active
<1>5. ResponsesTrue /\ RunsOnce
  BY Zenon DEF ResponsesTrue, RunsOnce
<1> QED
  BY <1>1, <1>2, <1>3, <1>4, <1>5, Zenon DEF RpcInv

\* A call that can still be executed was made over that connection.
LEMMA PendingPlace ==
  ASSUME RpcInv, NEW c \in Calls, NEW k \in Calls, Pending(c, k)
  PROVE  /\ via[c] = k /\ request[c] # None
         /\ up[k] # <<>> \/ handler[k] = "dispatch"
  BY DEF RpcInv, UpStream, OnItsWay, InHand, Pending, Active

\* Whenever the client gives up a connection, and the call with it, everything on its way
\* to the client is lost and what is on its way to the server stays.
LEMMA GiveUp ==
  ASSUME RpcInv, cur \in Calls, NEW r \in S!Responses, Return(r), S!Truthful(cur, r),
         r.error \in S!Unknown \/ \A k \in Calls : ~Pending(cur, k),
         conn' = None, down' = [k \in Calls |-> <<>>], UNCHANGED serverVars, fault' \subseteq Calls,
         up' \in [Calls -> Seq(Items)], UpStream', \A k \in Calls : ~Listening(k) => up'[k] = <<>>,
         \A c, k \in Calls : Pending(c, k)' => Pending(c, k)
  PROVE  RpcInv'
<1> USE NoneApart DEF Return, serverVars
<1>1. TypeOK'
  <2>1. down' \in [Calls -> Seq(Items)]
    BY EmptySeq, Zenon
  <2>2. response' \in [Calls -> S!Responses \cup {None}]
    BY Zenon DEF RpcInv, TypeOK
  <2>3. cur' = None /\ place' = "idle" /\ expect' = 0 /\ UNCHANGED <<request, via>>
    BY Zenon
  <2> QED
    BY <2>1, <2>2, <2>3, SMTT(30) DEF RpcInv, TypeOK, Places
<1>2. CallsInOrder'
  BY Zenon DEF RpcInv, TypeOK, CallsInOrder
<1>3. ConnectionEnds'
  BY Zenon DEF RpcInv, ConnectionEnds, Listening, TypeOK
<1>4. ClientStream' /\ DownStream'
  BY DEF ClientStream, DownStream
<1>5. InHand'
  BY Zenon DEF RpcInv, InHand, Truth
<1>6. PendingNotRun'
  <2> SUFFICES ASSUME NEW c \in Calls, NEW k \in Calls, Pending(c, k)
               PROVE  runs[c] = <<>> /\ (response'[c] = None \/ response'[c].error \in S!Unknown)
    BY Zenon DEF PendingNotRun
  <2>1. CASE c = cur
    BY <2>1, Zenon DEF RpcInv, PendingNotRun, TypeOK
  <2>2. CASE c # cur
    BY <2>2, Zenon DEF RpcInv, PendingNotRun, TypeOK
  <2> QED
    BY <2>1, <2>2, Zenon
<1>7. ResponsesTrue'
  <2> SUFFICES ASSUME NEW c \in Calls, response'[c] # None PROVE S!Truthful(c, response[c])'
    BY Zenon DEF ResponsesTrue
  <2>1. CASE c = cur
    BY <2>1, Zenon DEF RpcInv, TypeOK, S!Truthful
  <2>2. CASE c # cur
    BY <2>2, Zenon DEF RpcInv, TypeOK, ResponsesTrue, S!Truthful
  <2> QED
    BY <2>1, <2>2, Zenon
<1>8. RunsOnce'
  BY Zenon DEF RpcInv, RunsOnce
<1> QED
  BY <1>1, <1>2, <1>3, <1>4, <1>5, <1>6, <1>7, <1>8, Zenon DEF RpcInv

\* The same when the client sends nothing at the end.
LEMMA GiveUpSilently ==
  ASSUME RpcInv, cur \in Calls, NEW r \in S!Responses, Return(r), S!Truthful(cur, r),
         r.error \in S!Unknown \/ \A k \in Calls : ~Pending(cur, k),
         conn' = None, down' = [k \in Calls |-> <<>>], UNCHANGED <<up, serverVars>>,
         fault' \subseteq Calls
  PROVE  RpcInv'
<1>1. UNCHANGED <<request, via, up, handler, ending, runs>>
  BY Zenon DEF Return, serverVars
<1>2. UpStream'
  BY <1>1, NoneApart, SMTT(30) DEF RpcInv, UpStream, OnItsWay
<1>3. up' \in [Calls -> Seq(Items)] /\ \A k \in Calls : ~Listening(k) => up'[k] = <<>>
  BY Zenon DEF RpcInv, TypeOK, ConnectionEnds
<1>4. \A c, k \in Calls : Pending(c, k)' => Pending(c, k)
  BY <1>1, Zenon DEF Pending, serverVars
<1> QED
  BY <1>2, <1>3, <1>4, GiveUp, Zenon

\* disconnect() empties the only connection that has something on its way to the client.
LEMMA Disconnected ==
  ASSUME RpcInv, conn \in Calls, disconnect
  PROVE  conn' = None /\ down' = [k \in Calls |-> <<>>]
  BY Zenon DEF RpcInv, TypeOK, DownStream, disconnect

\* send_command begins a call.
LEMMA SendCommandInv ==
  ASSUME RpcInv, NEW c \in Calls, NEW q \in Requests, send_command(c, q) PROVE RpcInv'
<1> USE NoneApart DEF send_command, serverVars
<1>1. TypeOK'
  BY Zenon DEF RpcInv, TypeOK, Places
<1>2. CallsInOrder'
  BY SMTT(30) DEF RpcInv, TypeOK, CallsInOrder
<1>3. ConnectionEnds'
  BY DEF RpcInv, TypeOK, CallsInOrder, ConnectionEnds, Listening
<1>4. UpStream'
  BY SMTT(30) DEF RpcInv, TypeOK, UpStream, OnItsWay, ClientStream
<1>5. ClientStream' /\ DownStream'
  BY SMTT(30) DEF RpcInv, TypeOK, ClientStream, DownStream, InHand
<1>6. InHand'
  BY Zenon DEF RpcInv, TypeOK, InHand, Truth
<1>7. PendingNotRun'
  <2> SUFFICES ASSUME NEW d \in Calls, NEW k \in Calls, Pending(d, k)' PROVE Pending(d, k)
    BY Zenon DEF RpcInv, PendingNotRun
  <2>1. d # c
    BY DEF RpcInv, UpStream, OnItsWay, InHand, Active, Pending
  <2> QED
    BY <2>1, Zenon DEF RpcInv, TypeOK, Pending
<1>8. ResponsesTrue' /\ RunsOnce'
  BY SMTT(30) DEF RpcInv, TypeOK, CallsInOrder, ResponsesTrue, RunsOnce, S!Truthful
<1> QED
  BY <1>1, <1>2, <1>3, <1>4, <1>5, <1>6, <1>7, <1>8, Zenon DEF RpcInv

\* connect opens the connection that is named after the call.
LEMMA ConnectInv ==
  ASSUME RpcInv, connect PROVE RpcInv'
<1> USE NoneApart DEF connect
<1>1. TypeOK'
  BY Zenon DEF RpcInv, TypeOK, Places
<1>2. CallsInOrder'
  BY Zenon DEF RpcInv, TypeOK, CallsInOrder
<1>3. ConnectionEnds'
  BY Zenon DEF RpcInv, TypeOK, CallsInOrder, ConnectionEnds, Listening
<1>4. UpStream'
  BY SMTT(30) DEF RpcInv, TypeOK, CallsInOrder, ConnectionEnds, UpStream, OnItsWay
<1>5. ClientStream' /\ DownStream'
  BY DEF RpcInv, TypeOK, CallsInOrder, ConnectionEnds, ClientStream, DownStream, Active
<1>6. InHand'
  <2>1. \A k \in Calls : handler[k] \in Active => hand[k].call # cur
    BY DEF RpcInv, TypeOK, CallsInOrder, InHand
  <2>2. \A k \in Calls : handler[k] \in Active => via'[hand[k].call] = k
    BY <2>1, Zenon DEF RpcInv, TypeOK, InHand
  <2> QED
    BY <2>2, Zenon DEF RpcInv, InHand, Truth
<1>7. PendingNotRun' /\ ResponsesTrue' /\ RunsOnce'
  BY Zenon DEF RpcInv, PendingNotRun, Pending, ResponsesTrue, RunsOnce, S!Truthful
<1> QED
  BY <1>1, <1>2, <1>3, <1>4, <1>5, <1>6, <1>7, Zenon DEF RpcInv

\* A call that gets no connection returns without having been sent.
LEMMA ConnectFailsInv ==
  ASSUME RpcInv, connect_fails PROVE RpcInv'
<1> DEFINE r == Failure("not_connected")
<1>1. cur \in Calls /\ conn = None /\ via[cur] = None /\ runs[cur] = <<>>
  BY NoneApart, Zenon DEF RpcInv, TypeOK, CallsInOrder, connect_fails
<1>2. r \in S!Responses /\ S!Truthful(cur, r)
  BY <1>1, Reports, Zenon DEF Failure, S!Truthful, S!Unsent
<1>3. \A k \in Calls : ~Pending(cur, k)
  BY <1>1, PendingPlace, NoneApart, Zenon
<1>4. conn' = None /\ down' = [k \in Calls |-> <<>>]
  BY <1>1, NoneApart DEF RpcInv, TypeOK, DownStream, connect_fails
<1>5. Return(r) /\ UNCHANGED <<up, serverVars>> /\ fault' \subseteq Calls
  BY Zenon DEF connect_fails, RpcInv, TypeOK
<1> HIDE DEF r
<1> QED
  BY <1>1, <1>2, <1>3, <1>4, <1>5, GiveUpSilently, Zenon

\* While the client is sending, what it has sent of the request cannot be executed yet.
LEMMA NotPendingBeforeSent ==
  ASSUME RpcInv, place \in {"send_length", "send_data"}
  PROVE  /\ cur \in Calls /\ conn \in Calls /\ via[cur] = conn /\ runs[cur] = <<>>
         /\ request[cur] \in Requests /\ request[cur].size \in Nat \ {0}
         /\ \A k \in Calls : ~Pending(cur, k)
<1>1. cur \in Calls /\ conn \in Calls /\ via[cur] = conn /\ runs[cur] = <<>> /\ request[cur] \in Requests
  BY NoneApart, Zenon DEF RpcInv, TypeOK, CallsInOrder
<1>2. request[cur].size \in Nat \ {0}
  BY <1>1, RpcConstants, Zenon
<1>3. ASSUME NEW k \in Calls, Pending(cur, k) PROVE FALSE
  BY <1>1, <1>3, PendingPlace DEF RpcInv, ClientStream, Pending
<1> QED
  BY <1>1, <1>2, <1>3, Zenon

\* send_message of the client sends the length of the request.
LEMMA SendLengthOfRequestInv ==
  ASSUME RpcInv, send_length PROVE RpcInv'
<1> DEFINE x == Length(cur, request[cur].size % LengthModulus)
<1>1. /\ cur \in Calls /\ conn \in Calls /\ via[cur] = conn /\ runs[cur] = <<>>
      /\ request[cur] \in Requests /\ request[cur] # None
  BY NotPendingBeforeSent, NoneApart, Zenon DEF send_length
<1>2. x \in Items /\ x.type = "length" /\ x.call = cur
  <2>1. request[cur].size % LengthModulus \in Nat
    BY NotPendingBeforeSent, RpcConstants DEF send_length
  <2> QED
    BY <1>1, <2>1, Messages, Zenon DEF Length
<1>3. up[conn] = <<>> /\ down[conn] = <<>> /\ handler[conn] \in {"none", "receive_length", "gone"}
  BY <1>1, Zenon DEF RpcInv, ClientStream, send_length
<1>4. Listening(conn) => handler[conn] \in {"none", "receive_length"}
  BY <1>1, <1>3, Zenon DEF RpcInv, ConnectionEnds, Listening
<1>5. PICK s \in Seq(Items) :
        /\ up' = [up EXCEPT ![conn] = s]
        /\ s = <<>> \/ (Listening(conn) /\ s # <<>> /\ Len(s) = 1 /\ DOMAIN s = {1} /\ s[1] = x)
  <2>1. CASE Listening(conn)
    <3>1. Append(up[conn], x) = <<x>>
      BY <1>3
    <3>2. <<x>> \in Seq(Items) /\ Len(<<x>>) = 1 /\ DOMAIN <<x>> = {1} /\ <<x>>[1] = x /\ <<x>> # <<>>
      BY <1>2
    <3>3. up' = [up EXCEPT ![conn] = <<x>>]
      BY <2>1, <3>1, Zenon DEF send_length, SendUp
    <3> QED
      BY <2>1, <3>2, <3>3, Zenon
  <2>2. CASE ~Listening(conn)
    <3>1. up' = [up EXCEPT ![conn] = <<>>]
      BY <1>1, <1>3, <2>2, Zenon DEF RpcInv, TypeOK, send_length, SendUp
    <3> QED
      BY <3>1, EmptySeq, Zenon
  <2> QED
    BY <2>1, <2>2, Zenon
<1>6. place' = "send_data" /\ UNCHANGED <<request, response, cur, conn, expect, via, down, serverVars, fault>>
  BY Zenon DEF send_length
<1> HIDE DEF x
<1> USE NoneApart DEF serverVars
<1>7. TypeOK'
  <2>1. up' \in [Calls -> Seq(Items)]
    BY <1>1, <1>5, Zenon DEF RpcInv, TypeOK
  <2> QED
    BY <1>1, <1>6, <2>1, Zenon DEF RpcInv, TypeOK, Places
<1>8. CallsInOrder'
  BY <1>6, Zenon DEF RpcInv, TypeOK, CallsInOrder, send_length
<1>9. ConnectionEnds'
  BY <1>1, <1>5, <1>6, SMTT(30) DEF RpcInv, TypeOK, ConnectionEnds, Listening, send_length
<1>10. UpStream'
  <2> SUFFICES ASSUME NEW k \in Calls
               PROVE  /\ \A i \in DOMAIN up'[k] : OnItsWay(k, i)'
                      /\ handler[k] \in Busy /\ k \notin ending => up'[k] = <<>>
    BY <1>6, Zenon DEF UpStream
  <2>1. CASE k # conn
    BY <1>1, <1>5, <1>6, <2>1, SMTT(30) DEF RpcInv, TypeOK, UpStream, OnItsWay
  <2>2. CASE k = conn
    BY <1>1, <1>2, <1>3, <1>4, <1>5, <1>6, <2>2, SMTT(30) DEF RpcInv, TypeOK, OnItsWay, Busy
  <2> QED
    BY <2>1, <2>2, Zenon
<1>11. ClientStream'
  BY <1>1, <1>2, <1>3, <1>5, <1>6 DEF RpcInv, TypeOK, ClientStream
<1>12. DownStream'
  BY <1>1, <1>3, <1>5, <1>6, SMTT(30) DEF RpcInv, TypeOK, DownStream, Truth
<1>13. InHand'
  BY <1>6, Zenon DEF RpcInv, InHand, Truth
<1>14. PendingNotRun'
  <2>1. \A c, k \in Calls : Pending(c, k)' => Pending(c, k)
    BY <1>1, <1>2, <1>5, <1>6, SMTT(30) DEF RpcInv, TypeOK, Pending
  <2> QED
    BY <1>6, <2>1, Zenon DEF RpcInv, PendingNotRun
<1>15. ResponsesTrue' /\ RunsOnce'
  BY <1>6, Zenon DEF RpcInv, ResponsesTrue, RunsOnce, S!Truthful
<1> QED
  BY <1>7, <1>8, <1>9, <1>10, <1>11, <1>12, <1>13, <1>14, <1>15, Zenon DEF RpcInv

\* send_message of the client sends the data: from now on the call can be executed.
LEMMA SendDataOfRequestInv ==
  ASSUME RpcInv, send_data PROVE RpcInv'
<1> DEFINE x == Data(cur, request[cur].size, None)
<1>1. cur \in Calls /\ conn \in Calls /\ via[cur] = conn /\ runs[cur] = <<>> /\ request[cur] # None
  BY NotPendingBeforeSent, NoneApart, Zenon DEF send_data
<1>2. x \in Items /\ x.type = "data" /\ x.call = cur /\ x.n = request[cur].size /\ x.n <= request[cur].size
  <2>1. request[cur].size \in Nat
    BY NotPendingBeforeSent, Zenon DEF send_data
  <2> QED
    BY <1>1, <2>1, Messages DEF Data
<1>3. /\ down[conn] = <<>> /\ up[conn] \in Seq(Items)
      /\ handler[conn] \in {"none", "receive_length", "receive_data", "gone"}
      /\ \A i \in DOMAIN up[conn] : up[conn][i].type = "length"
  BY <1>1, Zenon DEF RpcInv, TypeOK, ClientStream, send_data
<1>4. /\ place' = "receive_length"
      /\ UNCHANGED <<request, response, cur, conn, expect, via, down, serverVars, fault>>
  BY Zenon DEF send_data
<1>5. \/ Listening(conn) /\ up' = [up EXCEPT ![conn] = Append(up[conn], x)]
      \/ up' = up
  BY Zenon DEF send_data, SendUp
<1> HIDE DEF x
<1>6. PICK s \in Seq(Items) :
        /\ up' = [up EXCEPT ![conn] = s]
        /\ s # <<>> => Listening(conn) \/ s = up[conn]
        /\ \A i \in DOMAIN s :
              \/ i \in DOMAIN up[conn] /\ s[i] = up[conn][i]
              \/ i = Len(s) /\ s[i] = x
  <2>1. CASE Listening(conn) /\ up' = [up EXCEPT ![conn] = Append(up[conn], x)]
    <3>1. PICK s : s = Append(up[conn], x)
      BY Zenon
    <3>2. s \in Seq(Items)
      BY <1>2, <1>3, <3>1, PutBehind, Zenon
    <3>5. \A i \in DOMAIN s : \/ i \in DOMAIN up[conn] /\ s[i] = up[conn][i]
                              \/ i = Len(s) /\ s[i] = x
      BY <1>2, <1>3, <3>1, PutBehind
    <3>4. up' = [up EXCEPT ![conn] = s]
      BY <2>1, <3>1, Zenon
    <3> QED
      BY <2>1, <3>2, <3>4, <3>5, Zenon
  <2>2. CASE up' = up
    BY <1>1, <1>3, <2>2, Zenon DEF RpcInv, TypeOK
  <2> QED
    BY <1>5, <2>1, <2>2, Zenon
<1> USE NoneApart DEF serverVars
<1>7. TypeOK'
  <2>1. up' \in [Calls -> Seq(Items)]
    BY <1>1, <1>6, Zenon DEF RpcInv, TypeOK
  <2> QED
    BY <1>1, <1>4, <2>1, Zenon DEF RpcInv, TypeOK, Places, send_data
<1>8. CallsInOrder'
  BY <1>4, Zenon DEF RpcInv, TypeOK, CallsInOrder, send_data
<1>9. ConnectionEnds'
  BY <1>1, <1>4, <1>6, Zenon DEF RpcInv, TypeOK, ConnectionEnds, Listening, send_data
<1>10. UpStream'
  <2> SUFFICES ASSUME NEW k \in Calls
               PROVE  /\ \A i \in DOMAIN up'[k] : OnItsWay(k, i)'
                      /\ handler[k] \in Busy /\ k \notin ending => up'[k] = <<>>
    BY <1>4, Zenon DEF UpStream
  <2>1. CASE k # conn
    BY <1>1, <1>4, <1>6, <2>1, SMTT(30) DEF RpcInv, TypeOK, UpStream, OnItsWay
  <2>2. CASE k = conn
    <3>1. up'[k] = s
      BY <1>6, <2>2, Zenon DEF RpcInv, TypeOK
    <3>2. handler[k] \notin Busy
      BY <1>3, <2>2, Zenon DEF Busy
    <3>3. ASSUME NEW i \in DOMAIN s, i \in DOMAIN up[conn], s[i] = up[conn][i] PROVE OnItsWay(k, i)'
      BY <1>3, <1>4, <2>2, <3>1, <3>3, SMTT(30) DEF RpcInv, UpStream, OnItsWay
    <3>4. ASSUME NEW i \in DOMAIN s, i = Len(s), s[i] = x PROVE OnItsWay(k, i)'
      BY <1>1, <1>2, <1>4, <2>2, <3>1, <3>4, Zenon DEF OnItsWay
    <3> QED
      BY <1>6, <2>2, <3>1, <3>2, <3>3, <3>4
  <2> QED
    BY <2>1, <2>2, Zenon
<1>11. ClientStream'
  BY <1>1, <1>3, <1>4, <1>6, Zenon DEF RpcInv, TypeOK, ClientStream
<1>12. DownStream'
  BY <1>1, <1>3, <1>4, <1>6, SMTT(30) DEF RpcInv, TypeOK, DownStream, Truth
<1>13. InHand'
  BY <1>4, Zenon DEF RpcInv, InHand, Truth
<1>14. PendingNotRun'
  <2>1. ASSUME NEW c \in Calls, NEW k \in Calls, Pending(c, k)', c # cur PROVE Pending(c, k)
    <3>1. CASE k = conn
      <4>1. up'[k] = s
        BY <1>6, <3>1, Zenon DEF RpcInv, TypeOK
      <4>2. \A i \in DOMAIN s : s[i].call = c => i \in DOMAIN up[k] /\ s[i] = up[k][i]
        BY <1>2, <1>6, <2>1, <3>1, Zenon
      <4> QED
        BY <1>4, <2>1, <4>1, <4>2, Zenon DEF Pending
    <3>2. CASE k # conn
      <4>1. up'[k] = up[k]
        BY <1>6, <3>2, Zenon DEF RpcInv, TypeOK
      <4> QED
        BY <1>4, <2>1, <4>1, Zenon DEF Pending
    <3> QED
      BY <3>1, <3>2, Zenon
  <2>2. response[cur] = None
    BY <1>1, Zenon DEF RpcInv, CallsInOrder
  <2> QED
    BY <1>1, <1>4, <2>1, <2>2, Zenon DEF RpcInv, PendingNotRun
<1>15. ResponsesTrue' /\ RunsOnce'
  BY <1>4, Zenon DEF RpcInv, ResponsesTrue, RunsOnce, S!Truthful
<1> QED
  BY <1>7, <1>8, <1>9, <1>10, <1>11, <1>12, <1>13, <1>14, <1>15, Zenon DEF RpcInv

\* What a call that failed while it was being sent is told.
LEMMA NotSentIsTrue ==
  ASSUME RpcInv, place \in {"send_length", "send_data"}
  PROVE  Failure("not_sent") \in S!Responses /\ S!Truthful(cur, Failure("not_sent"))
  BY NotPendingBeforeSent, Reports, Zenon DEF Failure, S!Truthful, S!Unsent

\* Sending fails: no part of the request that was sent can be executed.
LEMMA SendFailsInv ==
  ASSUME RpcInv, send_fails PROVE RpcInv'
<1> DEFINE r == Failure("not_sent")
<1>1. /\ cur \in Calls /\ conn \in Calls /\ via[cur] = conn /\ request[cur] # None /\ runs[cur] = <<>>
      /\ request[cur].size \in Nat /\ \A k \in Calls : ~Pending(cur, k)
  BY NotPendingBeforeSent, NoneApart, Zenon DEF send_fails
<1>2. r \in S!Responses /\ S!Truthful(cur, r) /\ Return(r)
  BY NotSentIsTrue, Zenon DEF send_fails
<1>3. conn' = None /\ down' = [k \in Calls |-> <<>>] /\ UNCHANGED serverVars
  BY <1>1, Disconnected, Zenon DEF send_fails
<1>4. fault' \subseteq Calls
  BY <1>1, Zenon DEF RpcInv, TypeOK, send_fails, Broken
<1> HIDE DEF r
<1>5. CASE UNCHANGED up
  BY <1>1, <1>2, <1>3, <1>4, <1>5, GiveUpSilently, Zenon
<1>6. CASE place = "send_data" /\ \E n \in 1..request[cur].size - 1 : SendUp(conn, Data(cur, n, None))
  <2>1. PICK n \in 1..request[cur].size - 1 : SendUp(conn, Data(cur, n, None))
    BY <1>6, Zenon
  <2>2. PICK x : x = Data(cur, n, None)
    BY Zenon
  <2>3. x \in Items /\ x.type = "data" /\ x.call = cur /\ x.n = n /\ n < request[cur].size
    BY <1>1, <2>2, Messages DEF Data
  <2>4. CASE ~Listening(conn)
    BY <1>5, <2>1, <2>4, Zenon DEF SendUp
  <2>5. CASE Listening(conn)
    <3>1. up[conn] \in Seq(Items) /\ \A i \in DOMAIN up[conn] : up[conn][i].type = "length"
      BY <1>1, <1>6, Zenon DEF RpcInv, TypeOK, ClientStream
    <3>2. PICK s : s = Append(up[conn], x)
      BY Zenon
    <3>3. s \in Seq(Items)
      BY <2>3, <3>1, <3>2, PutBehind, Zenon
    <3>5. \A i \in DOMAIN s : \/ i \in DOMAIN up[conn] /\ s[i] = up[conn][i]
                              \/ i = Len(s) /\ s[i] = x
      BY <2>3, <3>1, <3>2, PutBehind
    <3>6. up' = [up EXCEPT ![conn] = s]
      BY <2>1, <2>2, <2>5, <3>2, Zenon DEF SendUp
    <3>7. up' \in [Calls -> Seq(Items)] /\ up'[conn] = s /\ \A k \in Calls : k # conn => up'[k] = up[k]
      BY <1>1, <3>3, <3>6, Zenon DEF RpcInv, TypeOK
    <3>8. \A k \in Calls : ~Listening(k) => up'[k] = <<>>
      BY <2>5, <3>7, Zenon DEF RpcInv, ConnectionEnds
    <3>9. UNCHANGED <<request, via, handler, hand, ending, runs>>
      BY <1>2, <1>3, Zenon DEF Return, serverVars
    <3>10. \A c, k \in Calls : Pending(c, k)' => Pending(c, k)
      <4> SUFFICES ASSUME NEW c \in Calls, NEW k \in Calls, Pending(c, k)' PROVE Pending(c, k)
        BY Zenon
      <4>1. CASE k = conn
        <5>1. \A i \in DOMAIN s : s[i].call = c /\ s[i].n = request[c].size =>
                  i \in DOMAIN up[k] /\ s[i] = up[k][i]
          BY <1>1, <2>3, <3>5, <4>1
        <5> QED
          BY <3>7, <3>9, <4>1, <5>1, Zenon DEF Pending
      <4>2. CASE k # conn
        BY <3>7, <3>9, <4>2, Zenon DEF Pending
      <4> QED
        BY <4>1, <4>2, Zenon
    <3>11. UpStream'
      <4>1. ASSUME NEW k \in Calls, NEW i \in DOMAIN up'[k], k # conn PROVE OnItsWay(k, i)'
        BY <1>3, <3>7, <3>9, <4>1, NoneApart DEF RpcInv, UpStream, OnItsWay
      <4>6. PICK k : k = conn
        BY Zenon
      <4>2. handler[conn] \notin Busy
        BY <1>1, <1>6, Zenon DEF RpcInv, ClientStream, Busy
      <4>3. ASSUME NEW i \in DOMAIN s, i \in DOMAIN up[conn], s[i] = up[conn][i] PROVE OnItsWay(k, i)'
        <5>1. OnItsWay(k, i) /\ k \in Calls /\ up[k][i].type = "length"
          BY <1>1, <3>1, <4>3, <4>6, Zenon DEF RpcInv, UpStream
        <5>2. up'[k][i] = up[k][i] /\ conn' # k
          BY <1>3, <3>7, <4>3, <4>6, <5>1, NoneApart, Zenon
        <5> QED
          BY <3>9, <5>1, <5>2, Zenon DEF OnItsWay
      <4>4. ASSUME NEW i \in DOMAIN s, i = Len(s), s[i] = x PROVE OnItsWay(k, i)'
        BY <4>6, <1>1, <1>3, <2>3, <3>7, <3>9, <4>4, NoneApart DEF OnItsWay
      <4>5. \A j \in Calls : handler[j] \in Busy /\ j \notin ending => up'[j] = <<>>
        BY <3>7, <4>2, Zenon DEF RpcInv, UpStream
      <4> QED
        BY <3>5, <3>7, <3>9, <4>1, <4>3, <4>4, <4>5, <4>6, Zenon DEF UpStream
    <3> QED
      BY <1>1, <1>2, <1>3, <1>4, <3>7, <3>8, <3>10, <3>11, GiveUp, Zenon
  <2> QED
    BY <2>4, <2>5, Zenon
<1> QED
  BY <1>5, <1>6, Zenon DEF send_fails

\* The failures that say nothing about the call end in the same way.
LEMMA UnknownInv ==
  ASSUME RpcInv, conn \in Calls, cur \in Calls, NEW e \in S!Unknown, Return(Failure(e)), disconnect,
         UNCHANGED <<up, serverVars>>, fault' \subseteq Calls
  PROVE  RpcInv'
<1> DEFINE r == Failure(e)
<1>1. r \in S!Responses /\ r.error \in S!Unknown
  BY Reports, Zenon DEF Failure, S!Unknown
<1>2. S!Truthful(cur, r)
  BY <1>1, Zenon DEF S!Truthful
<1>3. Return(r)
  BY Zenon
<1>4. conn' = None /\ down' = [k \in Calls |-> <<>>]
  BY Disconnected, Zenon
<1> HIDE DEF r
<1> QED
  BY <1>1, <1>2, <1>3, <1>4, GiveUpSilently, Zenon

\* No answer comes, or an exception is caught.
LEMMA ReceiveFailsInv ==
  ASSUME RpcInv, receive_fails \/ exception PROVE RpcInv'
<1>1. conn \in Calls /\ cur \in Calls
  BY Zenon DEF RpcInv, TypeOK, receive_fails, exception
<1>2. fault' \subseteq Calls
  BY <1>1, Zenon DEF RpcInv, TypeOK, receive_fails, exception, Broken
<1>3. \E e \in S!Unknown : Return(Failure(e))
  BY Zenon DEF receive_fails, exception, S!Unknown
<1>4. disconnect /\ UNCHANGED <<up, serverVars>>
  BY Zenon DEF receive_fails, exception
<1> QED
  BY <1>1, <1>2, <1>3, <1>4, UnknownInv, Zenon

\* receive_message of the client gets the length of the answer.
LEMMA ReceiveLengthOfAnswerInv ==
  ASSUME RpcInv, receive_length PROVE RpcInv'
<1>1. conn \in Calls /\ cur \in Calls
  BY Zenon DEF RpcInv, TypeOK, receive_length
<1>2. CASE Return(Failure("unanswered")) /\ disconnect
  BY <1>1, <1>2, UnknownInv, Zenon DEF RpcInv, TypeOK, receive_length, S!Unknown
<1>3. CASE /\ place' = "receive_data" /\ expect' = Head(down[conn]).n
           /\ down' = [down EXCEPT ![conn] = Tail(down[conn])]
           /\ UNCHANGED <<request, response, cur, conn, via>>
  <2>1. PICK t : t = Tail(down[conn])
    BY Zenon
  <2>2. down[conn] \in Seq(Items) /\ down[conn] # <<>>
    BY <1>1, Zenon DEF RpcInv, TypeOK, receive_length, Arrived
  <2>3. /\ t \in Seq(Items) /\ Head(down[conn]) \in Items
        /\ \A i \in DOMAIN t : /\ i + 1 \in DOMAIN down[conn] /\ t[i] = down[conn][i + 1]
                               /\ i + 1 = Len(down[conn]) => i = Len(t)
    BY <2>1, <2>2, TakeFront, Zenon
  <2>4. place = "receive_length" /\ UNCHANGED <<up, serverVars, fault>>
    BY Zenon DEF receive_length
  <2>5. Head(down[conn]).n \in Nat
    BY <2>3, Zenon DEF Items
  <2>6. down' = [down EXCEPT ![conn] = t]
    BY <1>3, <2>1, Zenon
  <2> USE NoneApart DEF serverVars
  <2>7. TypeOK'
    <3>1. down' \in [Calls -> Seq(Items)]
      BY <1>1, <2>3, <2>6, Zenon DEF RpcInv, TypeOK
    <3> QED
      BY <1>3, <2>4, <2>5, <3>1, Zenon DEF RpcInv, TypeOK, Places
  <2>8. CallsInOrder'
    BY <1>3, <2>4, Zenon DEF RpcInv, CallsInOrder
  <2>9. ConnectionEnds'
    BY <1>1, <1>3, <2>4, <2>6, Zenon DEF RpcInv, TypeOK, ConnectionEnds, Listening
  <2>10. UpStream' /\ ClientStream'
    <3>1. \A k \in Calls : \A i \in DOMAIN up[k] : OnItsWay(k, i)' = OnItsWay(k, i)
      BY <1>3, <2>4 DEF OnItsWay
    <3>2. UpStream'
      BY <2>4, <3>1, Zenon DEF RpcInv, UpStream
    <3>3. ClientStream'
      BY <1>3, <2>4, Zenon DEF RpcInv, ClientStream
    <3> QED
      BY <3>2, <3>3, Zenon
  <2>11. DownStream'
    <3> SUFFICES ASSUME NEW k \in Calls
                 PROVE  /\ down'[k] # <<>> => conn = k
                        /\ \A i \in DOMAIN down'[k] :
                             /\ down'[k][i].call = cur
                             /\ down'[k][i].type = "data" =>
                                   /\ i = Len(down'[k]) /\ up[k] = <<>>
                                   /\ handler[k] \in {"receive_length", "gone"}
                                   /\ Truth(cur, down'[k][i].resp)
      BY <1>3, <2>4, SMTT(30) DEF DownStream, Truth
    <3>1. CASE k # conn
      BY <2>6, <3>1 DEF RpcInv, TypeOK, DownStream
    <3>2. CASE k = conn
      <4>1. down'[k] = t
        BY <2>6, <3>2, Zenon DEF RpcInv, TypeOK
      <4>2. ASSUME NEW i \in DOMAIN t
            PROVE  \E j \in DOMAIN down[k] : t[i] = down[k][j] /\ (j = Len(down[k]) => i = Len(t))
        BY <2>3, <3>2, Zenon
      <4>3. ASSUME NEW j \in DOMAIN down[k]
            PROVE  /\ down[k][j].call = cur
                   /\ down[k][j].type = "data" =>
                         /\ j = Len(down[k]) /\ up[k] = <<>> /\ handler[k] \in {"receive_length", "gone"}
                         /\ Truth(cur, down[k][j].resp)
        BY Zenon DEF RpcInv, DownStream
      <4>4. ASSUME NEW i \in DOMAIN t
            PROVE  /\ t[i].call = cur
                   /\ t[i].type = "data" =>
                         /\ i = Len(t) /\ up[k] = <<>> /\ handler[k] \in {"receive_length", "gone"}
                         /\ Truth(cur, t[i].resp)
        BY <4>2, <4>3, Zenon
      <4> QED
        BY <3>2, <4>1, <4>4, Zenon
    <3> QED
      BY <3>1, <3>2, Zenon
  <2>12. InHand' /\ PendingNotRun'
    <3>1. InHand'
      BY <1>3, <2>4, Zenon DEF RpcInv, InHand, Truth
    <3>2. \A c, k \in Calls : Pending(c, k)' => Pending(c, k)
      BY <1>3, <2>4, Zenon DEF Pending
    <3> QED
      BY <1>3, <2>4, <3>1, <3>2, Zenon DEF RpcInv, PendingNotRun
  <2>13. ResponsesTrue' /\ RunsOnce'
    BY <1>3, <2>4, Zenon DEF RpcInv, ResponsesTrue, RunsOnce, S!Truthful
  <2> QED
    BY <2>7, <2>8, <2>9, <2>10, <2>11, <2>12, <2>13, Zenon DEF RpcInv
<1> QED
  BY <1>2, <1>3, Zenon DEF receive_length

\* receive_message of the client gets the answer itself: it is the last thing on its way,
\* true of the call in progress, and nothing of the call is left on the server.
LEMMA ReceiveDataOfAnswerInv ==
  ASSUME RpcInv, receive_data PROVE RpcInv'
<1> DEFINE r == down[conn][1].resp
<1>1. conn \in Calls /\ cur \in Calls /\ down[conn] \in Seq(Items) /\ down[conn] # <<>> /\ via[cur] = conn
  BY Zenon DEF RpcInv, TypeOK, CallsInOrder, receive_data, Arrived
<1>2. PICK t : t = Tail(down[conn])
  BY Zenon
<1>3. /\ 1 \in DOMAIN down[conn] /\ Head(down[conn]) = down[conn][1]
      /\ Len(down[conn]) = 1 => t = <<>>
  BY <1>1, <1>2, TakeFront, Zenon
<1>4. down[conn][1].type = "data" /\ Return(r)
  BY <1>3, Zenon DEF receive_data, Arrived
<1>5. /\ Len(down[conn]) = 1 /\ up[conn] = <<>> /\ handler[conn] \in {"receive_length", "gone"}
      /\ Truth(cur, r)
  BY <1>1, <1>3, <1>4, Zenon DEF RpcInv, DownStream
<1>6. UNCHANGED <<conn, up, serverVars, fault>>
  BY Zenon DEF receive_data
<1>7. down' = [down EXCEPT ![conn] = <<>>]
  BY <1>2, <1>3, <1>5, Zenon DEF receive_data
<1>8. down' = [k \in Calls |-> <<>>]
  BY <1>1, <1>7, Zenon DEF RpcInv, TypeOK, DownStream
<1>9. \A k \in Calls : ~Pending(cur, k)
  BY <1>1, <1>5, PendingPlace, Zenon
<1>10. r \in S!Responses /\ S!Truthful(cur, r)
  BY <1>5, Zenon DEF Truth, S!Truthful
<1> HIDE DEF r
<1>11. /\ response' = [response EXCEPT ![cur] = r] /\ cur' = None /\ place' = "idle" /\ expect' = 0
       /\ UNCHANGED <<request, via>>
  BY <1>4, Zenon DEF Return
<1> USE NoneApart DEF serverVars
<1>12. TypeOK'
  <2>1. down' \in [Calls -> Seq(Items)]
    BY <1>8, EmptySeq, Zenon
  <2>2. response' \in [Calls -> S!Responses \cup {None}]
    BY <1>10, <1>11, Zenon DEF RpcInv, TypeOK
  <2> QED
    BY <1>6, <1>11, <2>1, <2>2, Zenon DEF RpcInv, TypeOK, Places
<1>13. CallsInOrder'
  BY <1>1, <1>6, <1>10, <1>11, Zenon DEF RpcInv, TypeOK, CallsInOrder
<1>14. ConnectionEnds'
  <2>1. \A k \in Calls : down'[k] = <<>>
    BY <1>8, Zenon
  <2>2. place = "receive_data"
    BY Zenon DEF receive_data
  <2> QED
    BY <1>6, <1>11, <2>1, <2>2, Zenon DEF RpcInv, ConnectionEnds, Listening
<1>15. UpStream'
  <2> SUFFICES ASSUME NEW k \in Calls, NEW i \in DOMAIN up[k] PROVE OnItsWay(k, i)'
    BY <1>6, Zenon DEF RpcInv, UpStream
  <2>1. OnItsWay(k, i)
    BY Zenon DEF RpcInv, UpStream
  <2>2. conn # k
    BY <1>5
  <2> QED
    BY <1>6, <1>11, <2>1, <2>2, Zenon DEF OnItsWay
<1>16. ClientStream' /\ DownStream'
  BY <1>1, <1>5, <1>6, <1>8, <1>11 DEF RpcInv, ClientStream, DownStream, Active
<1>17. InHand'
  BY <1>6, <1>11, Zenon DEF RpcInv, InHand, Truth
<1>18. PendingNotRun'
  <2>1. \A c, k \in Calls : Pending(c, k)' => Pending(c, k)
    BY <1>6, <1>11, Zenon DEF Pending
  <2>2. \A c \in Calls : c # cur => response'[c] = response[c]
    BY <1>11, Zenon DEF RpcInv, TypeOK
  <2> QED
    BY <1>6, <1>9, <2>1, <2>2, Zenon DEF RpcInv, PendingNotRun
<1>19. ResponsesTrue' /\ RunsOnce'
  <2>1. ASSUME NEW c \in Calls, response'[c] # None PROVE S!Truthful(c, response[c])'
    <3>1. CASE c = cur
      BY <1>6, <1>10, <1>11, <3>1, Zenon DEF RpcInv, TypeOK, S!Truthful
    <3>2. CASE c # cur
      BY <1>6, <1>11, <2>1, <3>2, Zenon DEF RpcInv, TypeOK, ResponsesTrue, S!Truthful
    <3> QED
      BY <3>1, <3>2, Zenon
  <2> QED
    BY <1>6, <1>11, <2>1, Zenon DEF RpcInv, ResponsesTrue, RunsOnce
<1> QED
  BY <1>12, <1>13, <1>14, <1>15, <1>16, <1>17, <1>18, <1>19, Zenon DEF RpcInv

\* A connection is accepted.
LEMMA AcceptInv ==
  ASSUME RpcInv, NEW k \in Calls, Accept(k) PROVE RpcInv'
<1> USE NoneApart DEF Accept, Goto, clientVars
<1>1. TypeOK'
  BY Zenon DEF RpcInv, TypeOK, HandlerPlaces
<1>2. CallsInOrder' /\ ConnectionEnds'
  BY Zenon DEF RpcInv, TypeOK, CallsInOrder, ConnectionEnds, Listening
<1>3. UpStream' /\ ClientStream'
  BY SMTT(30) DEF RpcInv, TypeOK, ConnectionEnds, UpStream, OnItsWay, ClientStream, Active, Busy
<1>4. DownStream'
  <2>1. handler[k] = "none" /\ \A j \in Calls : j # k => handler'[j] = handler[j]
    BY Zenon DEF RpcInv, TypeOK, ConnectionEnds
  <2>2. UNCHANGED <<down, up, conn, cur, runs>>
    BY Zenon
  <2>3. \A r : Truth(cur, r)' = Truth(cur, r)
    BY <2>2, Zenon DEF Truth
  <2>4. \A i \in DOMAIN down[k] : down[k][i].type # "data"
    BY <2>1, Zenon DEF RpcInv, DownStream
  <2> SUFFICES ASSUME NEW j \in Calls, NEW i \in DOMAIN down[j], down[j][i].type = "data"
               PROVE  /\ i = Len(down[j]) /\ up[j] = <<>>
                      /\ handler'[j] \in {"receive_length", "gone"}
                      /\ Truth(cur, down[j][i].resp)
    BY <2>2, <2>3 DEF RpcInv, DownStream
  <2> QED
    BY <2>1, <2>4, Zenon DEF RpcInv, DownStream
<1>5. InHand'
  BY Zenon DEF RpcInv, TypeOK, InHand, Truth, Active
<1>6. PendingNotRun'
  <2>1. \A c, j \in Calls : Pending(c, j)' => Pending(c, j)
    BY Zenon DEF RpcInv, TypeOK, Pending
  <2> QED
    BY <2>1, Zenon DEF RpcInv, PendingNotRun
<1>7. ResponsesTrue' /\ RunsOnce'
  BY Zenon DEF RpcInv, ResponsesTrue, RunsOnce, S!Truthful
<1> QED
  BY <1>1, <1>2, <1>3, <1>4, <1>5, <1>6, <1>7, Zenon DEF RpcInv

\* A handler returns.  What was on its way to it is lost; what it has sent stays true.
LEMMA EndInv ==
  ASSUME RpcInv, NEW k \in Calls, handler[k] \notin {"none", "gone"},
         NEW how \in {"leaked", "closed"}, End(k, how), UNCHANGED <<clientVars, ending, runs>>,
         fault' \subseteq Calls,
         down' = down \/ (handler[k] = "send_data" /\ down' \in [Calls -> Seq(Items)] /\ DownStream'),
         \A j \in Calls : j # k => down'[j] = down[j]
  PROVE  RpcInv'
<1>1. /\ handler' = [handler EXCEPT ![k] = "gone"] /\ server' = [server EXCEPT ![k] = how]
      /\ hand' = [hand EXCEPT ![k] = Nothing] /\ up' = [up EXCEPT ![k] = <<>>]
      /\ UNCHANGED <<request, response, cur, place, conn, expect, via, ending, runs>>
  BY Zenon DEF End, Goto, clientVars
<1>2. /\ handler'[k] = "gone" /\ server'[k] = how /\ up'[k] = <<>>
      /\ \A j \in Calls : j # k => /\ handler'[j] = handler[j] /\ server'[j] = server[j]
                                   /\ hand'[j] = hand[j] /\ up'[j] = up[j]
  BY <1>1, Zenon DEF RpcInv, TypeOK
<1> USE NoneApart
<1>3. TypeOK'
  <2>1. up' \in [Calls -> Seq(Items)] /\ hand' \in [Calls -> Items] /\ down' \in [Calls -> Seq(Items)]
    BY <1>1, Messages, EmptySeq, Zenon DEF RpcInv, TypeOK
  <2>2. handler' \in [Calls -> HandlerPlaces]
    BY <1>1, Zenon DEF RpcInv, TypeOK, HandlerPlaces
  <2> QED
    BY <1>1, <2>1, <2>2, Zenon DEF RpcInv, TypeOK
<1>4. CallsInOrder'
  BY <1>1, Zenon DEF RpcInv, CallsInOrder
<1>5. ConnectionEnds'
  <2>1. UNCHANGED <<request, cur, place, conn, ending>> /\ ConnectionEnds
    BY <1>1, Zenon DEF RpcInv
  <2> QED
    BY <1>2, <2>1 DEF ConnectionEnds, Listening
<1>6. UpStream'
  <2>1. UNCHANGED <<request, cur, conn, via, ending, runs>> /\ UpStream
    BY <1>1, Zenon DEF RpcInv
  <2> QED
    BY <1>2, <2>1, SMTT(30) DEF UpStream, OnItsWay, Busy
<1>7. ClientStream'
  <2>1. UNCHANGED <<cur, place, conn>> /\ ClientStream
    BY <1>1, Zenon DEF RpcInv
  <2> QED
    BY <1>2, <2>1 DEF ClientStream, Active
<1>8. DownStream'
  <2>1. CASE down' = down
    <3>1. \A c \in Calls, r \in S!Responses : Truth(c, r) => Truth(c, r)'
      BY <1>1, Zenon DEF Truth
    <3> QED
      BY <1>1, <1>2, <2>1, <3>1 DEF RpcInv, DownStream, Truth
  <2> QED
    BY <2>1, Zenon
<1>9. InHand'
  <2>1. \A c, r : Truth(c, r)' = Truth(c, r)
    BY <1>1, Zenon DEF Truth
  <2>2. ASSUME NEW j \in Calls, j # k
        PROVE  /\ handler'[j] \in Active =>
                     /\ hand'[j].call \in Calls /\ request'[hand'[j].call] # None
                     /\ via'[hand'[j].call] = j
               /\ handler'[j] = "receive_data" => hand'[j].n > 0
               /\ handler'[j] \in {"send_length", "send_data"} => Truth(hand[j].call, hand[j].resp)'
    BY <1>1, <1>2, <2>1, <2>2 DEF RpcInv, InHand
  <2> QED
    BY <1>2, <2>2, Zenon DEF InHand, Active
<1>10. PendingNotRun'
  <2>1. \A c, j \in Calls : Pending(c, j)' => Pending(c, j)
    BY <1>1, <1>2 DEF Pending
  <2> QED
    BY <1>1, <2>1, Zenon DEF RpcInv, PendingNotRun
<1>11. ResponsesTrue' /\ RunsOnce'
  BY <1>1, Zenon DEF RpcInv, ResponsesTrue, RunsOnce, S!Truthful
<1> QED
  BY <1>3, <1>4, <1>5, <1>6, <1>7, <1>8, <1>9, <1>10, <1>11, Zenon DEF RpcInv

\* The answer, or a part of it, is put on its way to the client.
LEMMA AnswerDown ==
  ASSUME RpcInv, NEW k \in Calls, handler[k] = "send_data", NEW n \in Nat,
         SendDown(k, Data(hand[k].call, n, hand[k].resp)), UNCHANGED <<clientVars, runs>>,
         NEW where \in {"receive_length", "gone"}, Goto(k, where), up' = [up EXCEPT ![k] = <<>>]
  PROVE  /\ down' \in [Calls -> Seq(Items)] /\ DownStream'
         /\ \A j \in Calls : j # k => down'[j] = down[j]
<1>1. UNCHANGED <<request, response, cur, place, conn, expect, via, runs>>
  BY Zenon DEF clientVars
<1>2. PICK x : x = Data(hand[k].call, n, hand[k].resp)
  BY Zenon
<1>3. Truth(hand[k].call, hand[k].resp) /\ hand[k].call \in Calls /\ (conn = k => hand[k].call = cur)
  BY Zenon DEF RpcInv, InHand, ClientStream, Active
<1>4. x \in Items /\ x.type = "data" /\ x.call = hand[k].call /\ x.resp = hand[k].resp
  BY <1>2, <1>3, Messages, Zenon DEF Data, Truth
<1>5. /\ handler'[k] = where /\ up'[k] = <<>>
      /\ \A j \in Calls : j # k => handler'[j] = handler[j] /\ up'[j] = up[j]
  BY Zenon DEF RpcInv, TypeOK, Goto
<1>6. \A i \in DOMAIN down[k] : down[k][i].type # "data" /\ down[k][i].call = cur
  BY Zenon DEF RpcInv, DownStream
<1>7. CASE conn # k
  <2>1. down' = down /\ down[k] = <<>>
    BY <1>7, Zenon DEF RpcInv, DownStream, SendDown
  <2>2. UNCHANGED <<request, cur, conn, runs>> /\ down \in [Calls -> Seq(Items)] /\ DownStream
    BY <1>1, Zenon DEF RpcInv, TypeOK
  <2> QED
    BY <1>5, <1>7, <2>1, <2>2, SMTT(30) DEF DownStream, Truth
<1>8. CASE conn = k
  <2>1. PICK s : s = Append(down[k], x)
    BY Zenon
  <2>2. down[k] \in Seq(Items)
    BY Zenon DEF RpcInv, TypeOK
  <2>3. /\ s \in Seq(Items)
        /\ \A i \in DOMAIN s : \/ i \in DOMAIN down[k] /\ s[i] = down[k][i]
                               \/ i = Len(s) /\ s[i] = x
    BY <1>4, <2>1, <2>2, PutBehind
  <2>4. down' = [down EXCEPT ![k] = s]
    BY <1>2, <1>8, <2>1, Zenon DEF SendDown
  <2>5. /\ down' \in [Calls -> Seq(Items)] /\ down'[k] = s
        /\ \A j \in Calls : j # k => down'[j] = down[j] /\ down[j] = <<>>
    BY <1>8, <2>3, <2>4, Zenon DEF RpcInv, TypeOK, DownStream
  <2>6. Truth(cur, x.resp)'
    BY <1>1, <1>3, <1>4, <1>8, Zenon DEF Truth
  <2>7. \A i \in DOMAIN s : s[i].call = cur /\ (s[i].type = "data" => i = Len(s) /\ s[i] = x)
    BY <1>3, <1>4, <1>6, <1>8, <2>3, Zenon
  <2>8. DownStream'
    <3>1. UNCHANGED <<cur, conn>>
      BY <1>1, Zenon
    <3> QED
      BY <1>5, <1>8, <2>5, <2>6, <2>7, <3>1 DEF DownStream
  <2> QED
    BY <2>5, <2>8, Zenon
<1> QED
  BY <1>7, <1>8, Zenon

\* A transfer of a handler fails, or it has no room for the data.
LEMMA HandlerFailsInv ==
  ASSUME RpcInv, NEW k \in Calls, Fails(k) \/ Throws(k) PROVE RpcInv'
<1>1. fault' \subseteq Calls
  BY DEF RpcInv, TypeOK, Fails, Throws, Blame
<1>2. PICK how \in {"leaked", "closed"} : End(k, how)
  BY Zenon DEF Fails, Throws
<1>3. handler[k] \notin {"none", "gone"} /\ UNCHANGED <<clientVars, ending, runs>>
  BY Zenon DEF Fails, Throws, Transferring
<1>4. CASE down' = down
  BY <1>1, <1>2, <1>3, <1>4, EndInv, Zenon
<1>5. ASSUME handler[k] = "send_data", NEW n \in 1..Encoded(hand[k].resp) - 1,
             SendDown(k, Data(hand[k].call, n, hand[k].resp))
      PROVE  RpcInv'
  <2>1. n \in Nat
    OBVIOUS
  <2>2. Goto(k, "gone") /\ up' = [up EXCEPT ![k] = <<>>]
    BY <1>2, Zenon DEF End
  <2>3. /\ down' \in [Calls -> Seq(Items)] /\ DownStream'
        /\ \A j \in Calls : j # k => down'[j] = down[j]
    BY <1>3, <1>5, <2>1, <2>2, AnswerDown, Zenon
  <2> QED
    BY <1>1, <1>2, <1>3, <1>5, <2>3, EndInv, Zenon
<1> QED
  BY <1>4, <1>5, Zenon DEF Fails, Throws

\* stop() closes a connection: what was on its way to the server is lost.
LEMMA StopInv ==
  ASSUME RpcInv, NEW k \in Calls, Stop(k) PROVE RpcInv'
<1>1. /\ server' = [server EXCEPT ![k] = "closed"] /\ up' = [up EXCEPT ![k] = <<>>]
      /\ UNCHANGED <<request, response, cur, place, conn, expect, via, down, handler, hand, ending, runs>>
  BY Zenon DEF Stop, clientVars
<1>2. /\ server'[k] = "closed" /\ up'[k] = <<>>
      /\ \A j \in Calls : j # k => server'[j] = server[j] /\ up'[j] = up[j]
  BY <1>1, Zenon DEF RpcInv, TypeOK
<1>3. TypeOK'
  <2>1. up' \in [Calls -> Seq(Items)]
    BY <1>1, EmptySeq, Zenon DEF RpcInv, TypeOK
  <2>2. fault' \subseteq Calls
    BY Zenon DEF RpcInv, TypeOK, Stop, Blame
  <2> QED
    BY <1>1, <2>1, <2>2, Zenon DEF RpcInv, TypeOK
<1>4. CallsInOrder'
  BY <1>1, Zenon DEF RpcInv, CallsInOrder
<1>5. ConnectionEnds'
  <2>1. UNCHANGED <<request, cur, place, conn, down, handler, ending>> /\ ConnectionEnds /\ server[k] # "none"
    BY <1>1, Zenon DEF RpcInv, Stop, Listening
  <2> QED
    BY <1>2, <2>1 DEF ConnectionEnds, Listening
<1>6. UpStream'
  <2>1. UNCHANGED <<request, cur, conn, handler, via, ending, runs>> /\ UpStream
    BY <1>1, Zenon DEF RpcInv
  <2> QED
    BY <1>2, <2>1, SMTT(30) DEF UpStream, OnItsWay
<1>7. ClientStream' /\ DownStream'
  <2>1. UNCHANGED <<request, cur, place, conn, down, handler, hand, runs>> /\ ClientStream /\ DownStream
    BY <1>1, Zenon DEF RpcInv
  <2> QED
    BY <1>2, <2>1 DEF ClientStream, DownStream, Truth
<1>8. InHand'
  BY <1>1, Zenon DEF RpcInv, InHand, Truth
<1>9. PendingNotRun'
  <2>1. UNCHANGED <<request, handler, hand>>
    BY <1>1, Zenon
  <2>2. \A c, j \in Calls : Pending(c, j)' => Pending(c, j)
    BY <1>2, <2>1 DEF Pending
  <2> QED
    BY <1>1, <2>2, Zenon DEF RpcInv, PendingNotRun
<1>10. ResponsesTrue' /\ RunsOnce'
  BY <1>1, Zenon DEF RpcInv, ResponsesTrue, RunsOnce, S!Truthful
<1> QED
  BY <1>3, <1>4, <1>5, <1>6, <1>7, <1>8, <1>9, <1>10, Zenon DEF RpcInv

\* receive_length of a handler: the length is taken from the front, or the handler returns.
LEMMA HandlerReceiveLengthInv ==
  ASSUME RpcInv, NEW k \in Calls, ReceiveLength(k) PROVE RpcInv'
<1>1. CASE End(k, "closed")
  BY <1>1, EndInv, Zenon DEF RpcInv, TypeOK, ReceiveLength
<1>2. CASE /\ Acceptable(Head(up[k]).n)
           /\ up' = [up EXCEPT ![k] = Tail(up[k])] /\ hand' = [hand EXCEPT ![k] = Head(up[k])]
           /\ Goto(k, "receive_data") /\ UNCHANGED server
  <2>1. PICK t : t = Tail(up[k])
    BY Zenon
  <2>2. up[k] \in Seq(Items) /\ up[k] # <<>> /\ handler[k] = "receive_length" /\ server[k] = "open"
    BY Zenon DEF RpcInv, TypeOK, ReceiveLength, Arrived
  <2>3. /\ t \in Seq(Items) /\ 1 \in DOMAIN up[k] /\ Head(up[k]) = up[k][1] /\ up[k][1] \in Items
        /\ \A i \in DOMAIN t : /\ i + 1 \in DOMAIN up[k] /\ t[i] = up[k][i + 1] /\ i + 1 # 1
                               /\ i + 1 = Len(up[k]) => i = Len(t)
    BY <2>1, <2>2, TakeFront, Zenon
  <2>4. OnItsWay(k, 1) /\ up[k][1].n \in Nat /\ up[k][1].n > 0
    BY <1>2, <2>3 DEF RpcInv, UpStream, Acceptable, Items
  <2>5. ASSUME NEW i \in DOMAIN t
        PROVE  \E j \in DOMAIN up[k] : /\ t[i] = up[k][j] /\ up[k][j].type = "data"
                                       /\ j = Len(up[k]) /\ i = Len(t) /\ OnItsWay(k, j)
    <3>1. PICK j \in DOMAIN up[k] : t[i] = up[k][j] /\ j # 1 /\ (j = Len(up[k]) => i = Len(t))
      BY <2>3, Zenon
    <3>2. OnItsWay(k, j) /\ up[k][j] \in Items
      BY <2>2, <3>1 DEF RpcInv, UpStream
    <3>3. up[k][j].type \in {"length", "data"}
      BY <3>2, Zenon DEF Items
    <3> QED
      BY <3>1, <3>2, <3>3, Zenon DEF OnItsWay
  <2>6. /\ up' = [up EXCEPT ![k] = t] /\ hand' = [hand EXCEPT ![k] = up[k][1]]
        /\ handler' = [handler EXCEPT ![k] = "receive_data"]
        /\ UNCHANGED <<request, response, cur, place, conn, expect, via, down, server, ending, runs, fault>>
    BY <1>2, <2>1, <2>3, Zenon DEF ReceiveLength, Goto, clientVars
  <2>7. /\ up'[k] = t /\ hand'[k] = up[k][1] /\ handler'[k] = "receive_data"
        /\ \A j \in Calls : j # k => up'[j] = up[j] /\ hand'[j] = hand[j] /\ handler'[j] = handler[j]
    BY <2>6, Zenon DEF RpcInv, TypeOK
  <2> USE NoneApart
  <2>8. TypeOK'
    <3>1. up' \in [Calls -> Seq(Items)] /\ hand' \in [Calls -> Items]
      BY <2>3, <2>6, Zenon DEF RpcInv, TypeOK
    <3>2. handler' \in [Calls -> HandlerPlaces]
      BY <2>6, Zenon DEF RpcInv, TypeOK, HandlerPlaces
    <3> QED
      BY <2>6, <3>1, <3>2, Zenon DEF RpcInv, TypeOK
  <2>9. CallsInOrder'
    BY <2>6, Zenon DEF RpcInv, CallsInOrder
  <2>10. ConnectionEnds'
    BY <2>2, <2>6, <2>7 DEF RpcInv, ConnectionEnds, Listening
  <2>11. UpStream'
    <3>1. ASSUME NEW i \in DOMAIN t PROVE OnItsWay(k, i)'
      BY <2>5, <2>6, <2>7, SMTT(30) DEF OnItsWay
    <3>2. \A j \in Calls : j # k => \A i \in DOMAIN up[j] : OnItsWay(j, i)'
      BY <2>6, <2>7, SMTT(30) DEF RpcInv, UpStream, OnItsWay
    <3> QED
      BY <2>6, <2>7, <3>1, <3>2, Zenon DEF RpcInv, UpStream, Busy
  <2>12. ClientStream'
    <3>1. conn = k => up[k][1].call = cur /\ place \notin {"idle", "send_length"}
      BY <2>2, <2>4, Zenon DEF RpcInv, ClientStream, OnItsWay
    <3>2. conn = k /\ place = "send_data" => t = <<>>
      BY <2>3, <2>5 DEF RpcInv, ClientStream
    <3> QED
      BY <2>3, <2>5, <2>6, <2>7, <3>1, <3>2, SMTT(30) DEF RpcInv, ClientStream
  <2>13. DownStream'
    <3>1. \A i \in DOMAIN down[k] : down[k][i].type # "data"
      BY <2>2, Zenon DEF RpcInv, DownStream
    <3> QED
      BY <2>6, <2>7, <3>1, SMTT(30) DEF RpcInv, DownStream, Truth
  <2>14. InHand'
    <3>1. \A c, r : Truth(c, r)' = Truth(c, r)
      BY <2>6, Zenon DEF Truth
    <3> QED
      BY <2>4, <2>6, <2>7, <3>1, SMTT(30) DEF RpcInv, InHand, OnItsWay, Active
  <2>15. PendingNotRun'
    <3>1. \A c, j \in Calls : Pending(c, j)' => Pending(c, j)
      BY <2>5, <2>6, <2>7 DEF Pending
    <3> QED
      BY <2>6, <3>1, Zenon DEF RpcInv, PendingNotRun
  <2>16. ResponsesTrue' /\ RunsOnce'
    BY <2>6, Zenon DEF RpcInv, ResponsesTrue, RunsOnce, S!Truthful
  <2> QED
    BY <2>8, <2>9, <2>10, <2>11, <2>12, <2>13, <2>14, <2>15, <2>16, Zenon DEF RpcInv
<1> QED
  BY <1>1, <1>2, Zenon DEF ReceiveLength

\* send_message of a handler sends the length of the answer.
LEMMA HandlerSendLengthInv ==
  ASSUME RpcInv, NEW k \in Calls, SendLength(k) PROVE RpcInv'
<1>1. /\ handler[k] = "send_length" /\ server[k] = "open"
      /\ handler' = [handler EXCEPT ![k] = "send_data"]
      /\ UNCHANGED <<request, response, cur, place, conn, expect, via, up, server, hand, ending, runs, fault>>
  BY Zenon DEF SendLength, Goto, clientVars
<1>2. /\ handler'[k] = "send_data" /\ \A j \in Calls : j # k => handler'[j] = handler[j]
  BY <1>1, Zenon DEF RpcInv, TypeOK
<1>3. /\ hand[k].call \in Calls /\ hand[k].resp \in S!Responses /\ (conn = k => hand[k].call = cur)
      /\ \A i \in DOMAIN down[k] : down[k][i].type # "data"
  BY <1>1, Zenon DEF RpcInv, InHand, ClientStream, DownStream, Active, Truth
<1>4. PICK s \in Seq(Items) :
        /\ down' = [down EXCEPT ![k] = s] /\ (conn # k => s = <<>>)
        /\ \A i \in DOMAIN s : s[i].type # "data" /\ s[i].call = cur
  <2>1. CASE conn # k
    <3>1. down' = [down EXCEPT ![k] = <<>>]
      BY <2>1, Zenon DEF RpcInv, TypeOK, DownStream, SendLength, SendDown
    <3>2. PICK s \in Seq(Items) : s = <<>>
      BY EmptySeq, Zenon
    <3>3. \A i \in DOMAIN s : FALSE
      BY <3>2
    <3> QED
      BY <3>1, <3>2, <3>3, Zenon
  <2>2. CASE conn = k
    <3>1. PICK x : x = Length(hand[k].call, Encoded(hand[k].resp))
      BY Zenon
    <3>2. Encoded(hand[k].resp) \in Nat
      BY <1>3, NoneApart DEF Encoded
    <3>3. x \in Items /\ x.type = "length" /\ x.call = cur
      BY <1>3, <2>2, <3>1, <3>2, Messages, Zenon DEF Length
    <3>4. PICK s : s = Append(down[k], x)
      BY Zenon
    <3>5. down[k] \in Seq(Items) /\ \A i \in DOMAIN down[k] : down[k][i].call = cur
      BY Zenon DEF RpcInv, TypeOK, DownStream
    <3>6. /\ s \in Seq(Items)
          /\ \A i \in DOMAIN s : (i \in DOMAIN down[k] /\ s[i] = down[k][i]) \/ s[i] = x
      BY <3>3, <3>4, <3>5, PutBehind
    <3>7. down' = [down EXCEPT ![k] = s]
      BY <2>2, <3>1, <3>4, Zenon DEF SendLength, SendDown
    <3>8. \A i \in DOMAIN s : s[i].type # "data" /\ s[i].call = cur
      BY <1>3, <3>3, <3>5, <3>6, Zenon
    <3> QED
      BY <2>2, <3>6, <3>7, <3>8, Zenon
  <2> QED
    BY <2>1, <2>2, Zenon
<1>5. down'[k] = s /\ \A j \in Calls : j # k => down'[j] = down[j]
  BY <1>4, Zenon DEF RpcInv, TypeOK
<1>6. TypeOK'
  <2>1. down' \in [Calls -> Seq(Items)]
    BY <1>4, Zenon DEF RpcInv, TypeOK
  <2>2. handler' \in [Calls -> HandlerPlaces]
    BY <1>1, Zenon DEF RpcInv, TypeOK, HandlerPlaces
  <2> QED
    BY <1>1, <2>1, <2>2, Zenon DEF RpcInv, TypeOK
<1>7. CallsInOrder'
  BY <1>1, Zenon DEF RpcInv, CallsInOrder
<1>8. ConnectionEnds'
  BY <1>1, <1>2, <1>5 DEF RpcInv, ConnectionEnds, Listening
<1>9. UpStream'
  BY <1>1, <1>2 DEF RpcInv, UpStream, OnItsWay, Busy
<1>10. ClientStream'
  BY <1>1, <1>2, <1>3, <1>5 DEF RpcInv, ClientStream, Active
<1>11. DownStream'
  BY <1>1, <1>2, <1>4, <1>5, SMTT(30) DEF RpcInv, DownStream, Truth
<1>12. InHand'
  <2>1. \A c, r : Truth(c, r)' = Truth(c, r)
    BY <1>1, Zenon DEF Truth
  <2> QED
    BY <1>1, <1>2, <2>1, Zenon DEF RpcInv, InHand, Active
<1>13. PendingNotRun'
  <2>1. \A c, j \in Calls : Pending(c, j)' => Pending(c, j)
    BY <1>1, <1>2, Zenon DEF Pending
  <2> QED
    BY <1>1, <2>1, Zenon DEF RpcInv, PendingNotRun
<1>14. ResponsesTrue' /\ RunsOnce'
  BY <1>1, Zenon DEF RpcInv, ResponsesTrue, RunsOnce, S!Truthful
<1> QED
  BY <1>6, <1>7, <1>8, <1>9, <1>10, <1>11, <1>12, <1>13, <1>14, Zenon DEF RpcInv

-----------------------------------------------------------------------------
\* send_message of a handler sends the answer; the handler returns or waits for the next
\* request.
LEMMA HandlerSendDataInv ==
  ASSUME RpcInv, NEW k \in Calls, SendData(k) PROVE RpcInv'
<1> DEFINE n == Encoded(hand[k].resp)
<1>1. /\ handler[k] = "send_data" /\ server[k] = "open"
      /\ SendDown(k, Data(hand[k].call, n, hand[k].resp)) /\ UNCHANGED <<clientVars, ending, runs, fault>>
  BY Zenon DEF SendData
<1>2. n \in Nat
  BY <1>1, NoneApart DEF RpcInv, InHand, Truth, Encoded
<1> HIDE DEF n
<1>3. CASE End(k, "closed")
  <2>1. Goto(k, "gone") /\ up' = [up EXCEPT ![k] = <<>>]
    BY <1>3, Zenon DEF End
  <2>2. /\ down' \in [Calls -> Seq(Items)] /\ DownStream'
        /\ \A j \in Calls : j # k => down'[j] = down[j]
    BY <1>1, <1>2, <2>1, AnswerDown, Zenon
  <2>3. fault' \subseteq Calls
    BY <1>1, Zenon DEF RpcInv, TypeOK
  <2> QED
    BY <1>1, <1>3, <2>2, <2>3, EndInv, Zenon
<1>4. CASE /\ k \notin ending /\ Goto(k, "receive_length") /\ hand' = [hand EXCEPT ![k] = Nothing]
           /\ UNCHANGED <<server, up>>
  <2>1. up[k] = <<>> /\ up' = [up EXCEPT ![k] = <<>>]
    BY <1>1, <1>4 DEF RpcInv, TypeOK, UpStream, Busy
  <2>2. /\ down' \in [Calls -> Seq(Items)] /\ DownStream'
        /\ \A j \in Calls : j # k => down'[j] = down[j]
    BY <1>1, <1>2, <1>4, <2>1, AnswerDown, Zenon
  <2>3. UNCHANGED <<request, response, cur, place, conn, expect, via, server, up, ending, runs, fault>>
    BY <1>1, <1>4, Zenon DEF clientVars
  <2>4. /\ handler'[k] = "receive_length"
        /\ \A j \in Calls : j # k => handler'[j] = handler[j] /\ hand'[j] = hand[j]
    BY <1>4, Zenon DEF RpcInv, TypeOK, Goto
  <2>5. TypeOK'
    <3>1. handler' \in [Calls -> HandlerPlaces] /\ hand' \in [Calls -> Items]
      BY <1>4, Messages, Zenon DEF RpcInv, TypeOK, Goto, HandlerPlaces
    <3> QED
      BY <2>2, <2>3, <3>1, Zenon DEF RpcInv, TypeOK
  <2>6. CallsInOrder'
    BY <2>3, Zenon DEF RpcInv, CallsInOrder
  <2>7. ConnectionEnds'
    <3>1. UNCHANGED <<request, cur, place, conn, server, up, ending>> /\ ConnectionEnds
      BY <2>3, Zenon DEF RpcInv
    <3>2. server[k] = "open" /\ k \notin ending /\ \A j \in Calls : j # k => down'[j] = down[j]
      BY <1>1, <1>4, <2>2, Zenon
    <3> QED
      BY <2>4, <3>1, <3>2 DEF ConnectionEnds, Listening
  <2>8. UpStream'
    <3>1. UNCHANGED <<request, cur, conn, via, up, ending, runs>> /\ UpStream
      BY <2>3, Zenon DEF RpcInv
    <3> QED
      BY <2>1, <2>4, <3>1, SMTT(30) DEF UpStream, OnItsWay, Busy
  <2>9. ClientStream'
    <3>1. UNCHANGED <<cur, place, conn, up>> /\ ClientStream
      BY <2>3, Zenon DEF RpcInv
    <3>2. handler[k] = "send_data" /\ \A j \in Calls : j # k => down'[j] = down[j]
      BY <1>1, <2>2, Zenon
    <3> QED
      BY <2>1, <2>4, <3>1, <3>2 DEF ClientStream, Active
  <2>10. InHand'
    <3>1. \A c, r : Truth(c, r)' = Truth(c, r)
      BY <2>3, Zenon DEF Truth
    <3>2. ASSUME NEW j \in Calls, j # k
          PROVE  /\ handler'[j] \in Active =>
                       /\ hand'[j].call \in Calls /\ request'[hand'[j].call] # None
                       /\ via'[hand'[j].call] = j
                 /\ handler'[j] = "receive_data" => hand'[j].n > 0
                 /\ handler'[j] \in {"send_length", "send_data"} => Truth(hand[j].call, hand[j].resp)'
      BY <2>3, <2>4, <3>1, <3>2, Zenon DEF RpcInv, InHand
    <3> QED
      BY <2>4, <3>2, Zenon DEF InHand, Active
  <2>11. PendingNotRun'
    <3>1. \A c, j \in Calls : Pending(c, j)' => Pending(c, j)
      BY <2>3, <2>4, Zenon DEF Pending
    <3> QED
      BY <2>3, <3>1, Zenon DEF RpcInv, PendingNotRun
  <2>12. ResponsesTrue' /\ RunsOnce'
    BY <2>3, Zenon DEF RpcInv, ResponsesTrue, RunsOnce, S!Truthful
  <2> QED
    BY <2>2, <2>5, <2>6, <2>7, <2>8, <2>9, <2>10, <2>11, <2>12, Zenon DEF RpcInv
<1> QED
  BY <1>3, <1>4, Zenon DEF SendData

\* receive_data of a handler: a whole command can be executed from now on and nothing
\* follows it; of the beginning of one, nothing can be.
LEMMA HandlerReceiveDataInv ==
  ASSUME RpcInv, NEW k \in Calls, ReceiveData(k) PROVE RpcInv'
<1> DEFINE item == up[k][1]
           c == item.call
           rest == [item EXCEPT !.n = item.n - hand[k].n]
           whole == request[c].size = hand[k].n
<1>1. /\ handler[k] = "receive_data" /\ server[k] = "open" /\ up[k] # <<>> /\ up[k] \in Seq(Items)
      /\ Head(up[k]).type = "data" /\ Head(up[k]).n >= hand[k].n
  BY Zenon DEF RpcInv, TypeOK, ReceiveData, Arrived
<1>2. PICK t : t = Tail(up[k])
  BY Zenon
<1>3. 1 \in DOMAIN up[k] /\ Head(up[k]) = item /\ item \in Items /\ (Len(up[k]) = 1 => t = <<>>)
  BY <1>1, <1>2, TakeFront, Zenon
<1>4. OnItsWay(k, 1) /\ item.type = "data" /\ item.n >= hand[k].n
  BY <1>1, <1>3, Zenon DEF RpcInv, UpStream
<1>5. /\ c \in Calls /\ request[c] # None /\ via[c] = k /\ runs[c] = <<>> /\ (conn = k => c = cur)
      /\ t = <<>> /\ item.n <= request[c].size
  BY <1>3, <1>4, Zenon DEF OnItsWay
<1>6. request[c] \in Requests /\ request[c].size \in Nat /\ item.n \in Nat /\ hand[k].n \in Nat /\ hand[k].n > 0
  <2>1. request[c] \in Requests /\ hand[k] \in Items
    BY <1>5, Zenon DEF RpcInv, TypeOK
  <2>2. request[c].size \in Nat
    BY <2>1, RpcConstants, Zenon
  <2>3. item.n \in Nat /\ hand[k].n \in Nat
    BY <1>3, <2>1, Zenon DEF Items
  <2>4. hand[k].n > 0
    BY <1>1, Zenon DEF RpcInv, InHand
  <2> QED
    BY <2>1, <2>2, <2>3, <2>4, Zenon
<1>7. PICK x : x = rest
  BY Zenon
<1>8. x \in Items /\ x.call = c /\ x.type = "data" /\ x.n = item.n - hand[k].n
  BY <1>3, <1>4, <1>6, <1>7 DEF Items
<1>9. x.n < request[c].size /\ (whole => x.n = 0) /\ (whole => item.n = request[c].size)
  BY <1>4, <1>5, <1>6, <1>8, SMTT(30)
<1>10. PICK s \in Seq(Items) :
         /\ up' = [up EXCEPT ![k] = s]
         /\ s = <<>> \/ (~whole /\ Len(s) = 1 /\ DOMAIN s = {1} /\ s[1] = x)
  <2>1. up' = [up EXCEPT ![k] = (IF x.n = 0 THEN <<>> ELSE <<x>>) \o t]
    BY <1>2, <1>3, <1>7, Zenon DEF ReceiveData
  <2>2. CASE x.n = 0
    <3>1. <<>> \o t = <<>>
      BY <1>5
    <3>2. up' = [up EXCEPT ![k] = <<>>]
      BY <2>1, <2>2, <3>1, Zenon
    <3> QED
      BY <3>2, EmptySeq, Zenon
  <2>3. CASE x.n # 0
    <3>1. <<x>> \o t = <<x>>
      BY <1>5
    <3>2. <<x>> \in Seq(Items) /\ Len(<<x>>) = 1 /\ DOMAIN <<x>> = {1} /\ <<x>>[1] = x
      BY <1>8
    <3>3. up' = [up EXCEPT ![k] = <<x>>]
      BY <2>1, <2>3, <3>1, Zenon
    <3> QED
      BY <1>9, <2>3, <3>2, <3>3, Zenon
  <2> QED
    BY <2>2, <2>3, Zenon
<1>11. PICK y : y = [item EXCEPT !.resp = IF whole THEN None ELSE Failure("server")]
  BY Zenon
<1>12. y \in Items /\ y.call = c /\ (~whole => y.resp = Failure("server"))
  <2>1. (IF whole THEN None ELSE Failure("server")) \in S!Responses \cup {None}
    BY Reports, Zenon
  <2> QED
    BY <1>3, <1>11, <2>1, Zenon DEF Items
<1>13. PICK w \in {"dispatch", "send_length"} :
         /\ handler' = [handler EXCEPT ![k] = w] /\ hand' = [hand EXCEPT ![k] = y]
         /\ w = "dispatch" => whole /\ ending' = ending
         /\ w = "send_length" => ~whole /\ ending' = ending \cup {k}
  BY <1>3, <1>11, Zenon DEF ReceiveData, Goto
<1>14. UNCHANGED <<request, response, cur, place, conn, expect, via, down, server, runs, fault>>
  BY Zenon DEF ReceiveData, clientVars
<1>15. w = "dispatch" => Pending(c, k)
  BY <1>3, <1>4, <1>9, <1>13, Zenon DEF Pending
<1>16. w = "send_length" => Truth(c, y.resp)
  BY <1>5, <1>12, <1>13, Reports DEF Truth, Failure
<1>17. /\ w = "dispatch" => s = <<>>
       /\ s = <<>> \/ (Len(s) = 1 /\ DOMAIN s = {1} /\ s[1] = x)
  BY <1>10, <1>13, Zenon
<1>18. /\ \A i \in DOMAIN down[k] : down[k][i].type # "data"
       /\ conn = k => place \notin {"idle", "send_length", "send_data"}
  <2>1. conn = k => place \notin {"idle", "send_length"}
    BY <1>1, Zenon DEF RpcInv, ClientStream
  <2>2. conn = k => place # "send_data"
    BY <1>3, <1>4, Zenon DEF RpcInv, ClientStream
  <2>3. \A i \in DOMAIN down[k] : down[k][i].type # "data"
    BY <1>1, Zenon DEF RpcInv, DownStream
  <2> QED
    BY <2>1, <2>2, <2>3, Zenon
<1>19. /\ up'[k] = s /\ hand'[k] = y /\ handler'[k] = w
       /\ \A j \in Calls : j # k => up'[j] = up[j] /\ hand'[j] = hand[j] /\ handler'[j] = handler[j]
  BY <1>10, <1>13, Zenon DEF RpcInv, TypeOK
<1>20. PICK d \in Calls : d = c
  BY <1>5, Zenon
<1> HIDE DEF item, rest, whole, c
<1> USE NoneApart
<1>21. TypeOK'
  <2>1. up' \in [Calls -> Seq(Items)] /\ hand' \in [Calls -> Items]
    BY <1>10, <1>12, <1>13, Zenon DEF RpcInv, TypeOK
  <2>2. handler' \in [Calls -> HandlerPlaces] /\ ending' \subseteq Calls
    BY <1>13, Zenon DEF RpcInv, TypeOK, HandlerPlaces
  <2> QED
    BY <1>14, <2>1, <2>2, Zenon DEF RpcInv, TypeOK
<1>22. CallsInOrder'
  BY <1>14, Zenon DEF RpcInv, CallsInOrder
<1>23. ConnectionEnds'
  BY <1>1, <1>13, <1>14, <1>19, SMTT(30) DEF RpcInv, ConnectionEnds, Listening
<1>24. UpStream'
  <2>1. ASSUME NEW i \in DOMAIN s PROVE OnItsWay(k, i)'
    <3>4. s # <<>>
      BY <2>1
    <3>5. x.call = d
      BY <1>8, <1>20, Zenon
    <3>1. i = 1 /\ i = Len(s) /\ s[i] = x /\ x.call = d
      BY <1>17, <2>1, <3>4, <3>5, Zenon
    <3>2. x.n <= request[d].size
      BY <1>6, <1>8, <1>9, <1>20
    <3>3. /\ d \in Calls /\ request[d] # None /\ via[d] = k /\ runs[d] = <<>> /\ (conn = k => d = cur)
          /\ x.type = "data"
      BY <1>5, <1>8, <1>20, Zenon
    <3> QED
      BY <1>14, <1>19, <3>1, <3>2, <3>3, Zenon DEF OnItsWay
  <2>2. \A j \in Calls : j # k => \A i \in DOMAIN up[j] : OnItsWay(j, i)'
    <3> SUFFICES ASSUME NEW j \in Calls, j # k, NEW i \in DOMAIN up[j] PROVE OnItsWay(j, i)'
      BY Zenon
    <3>1. OnItsWay(j, i)
      BY Zenon DEF RpcInv, UpStream
    <3>2. up'[j] = up[j] /\ handler'[j] = handler[j]
      BY <1>19, Zenon
    <3> QED
      BY <1>14, <3>1, <3>2, Zenon DEF OnItsWay
  <2>3. \A j \in Calls : j # k /\ j \notin ending' => j \notin ending
    BY <1>13, Zenon
  <2>4. handler'[k] \in Busy /\ k \notin ending' => s = <<>>
    BY <1>13, <1>17, Zenon
  <2> QED
    BY <1>19, <2>1, <2>2, <2>3, <2>4, Zenon DEF RpcInv, UpStream
<1>25. ClientStream'
  BY <1>5, <1>12, <1>14, <1>18, <1>19 DEF RpcInv, ClientStream
<1>26. DownStream'
  BY <1>14, <1>18, <1>19, SMTT(30) DEF RpcInv, DownStream, Truth
<1>27. InHand'
  <2>1. \A b, r : Truth(b, r)' = Truth(b, r)
    BY <1>14, Zenon DEF Truth
  <2>2. ASSUME NEW j \in Calls, j # k
        PROVE  /\ handler'[j] \in Active =>
                     /\ hand'[j].call \in Calls /\ request'[hand'[j].call] # None
                     /\ via'[hand'[j].call] = j
               /\ handler'[j] = "receive_data" => hand'[j].n > 0
               /\ handler'[j] \in {"send_length", "send_data"} => Truth(hand[j].call, hand[j].resp)'
    BY <1>14, <1>19, <2>1, <2>2, Zenon DEF RpcInv, InHand
  <2>3. /\ hand'[k].call \in Calls /\ request'[hand'[k].call] # None /\ via'[hand'[k].call] = k
        /\ handler'[k] # "receive_data"
        /\ handler'[k] \in {"send_length", "send_data"} => Truth(hand[k].call, hand[k].resp)'
    BY <1>5, <1>12, <1>14, <1>16, <1>19, <2>1, Zenon
  <2> QED
    BY <2>2, <2>3, Zenon DEF InHand
<1>28. PendingNotRun'
  <2> SUFFICES ASSUME NEW b \in Calls, NEW j \in Calls, Pending(b, j)' PROVE Pending(b, j)
    BY <1>14, Zenon DEF RpcInv, PendingNotRun
  <2>1. CASE j # k
    BY <1>14, <1>19, <2>1, Zenon DEF Pending
  <2>2. CASE j = k
    <3>1. w = "dispatch" /\ b = c
      BY <1>8, <1>9, <1>6, <1>12, <1>14, <1>17, <1>19, <2>2 DEF Pending
    <3> QED
      BY <1>15, <2>2, <3>1, Zenon
  <2> QED
    BY <2>1, <2>2, Zenon
<1>29. ResponsesTrue' /\ RunsOnce'
  BY <1>14, Zenon DEF RpcInv, ResponsesTrue, RunsOnce, S!Truthful
<1> QED
  BY <1>21, <1>22, <1>23, <1>24, <1>25, <1>26, <1>27, <1>28, <1>29, Zenon DEF RpcInv

\* dispatch_command of a handler: the call had not run, and nobody else can run it.
LEMMA DispatchInv ==
  ASSUME RpcInv, NEW k \in Calls, Dispatch(k) PROVE RpcInv'
<1>1. PICK c \in Calls : /\ c = hand[k].call /\ request[c] # None /\ via[c] = k
  BY Zenon DEF RpcInv, InHand, Dispatch, Active
<1>2. PICK r \in Outcomes(c) :
        /\ runs' = [runs EXCEPT ![c] = Append(runs[c], r)]
        /\ \/ /\ Goto(k, "send_length") /\ hand' = [hand EXCEPT ![k].resp = r]
              /\ \/ UNCHANGED <<ending, fault>>
                 \/ ~r.success /\ ending' = ending \cup {k} /\ Blame(k)
              /\ UNCHANGED <<server, up>>
           \/ End(k, "closed") /\ UNCHANGED <<ending, fault>>
  BY <1>1, Zenon DEF Dispatch
<1>3. handler[k] = "dispatch" /\ UNCHANGED <<request, response, cur, place, conn, expect, via, down>>
  BY Zenon DEF Dispatch, clientVars
<1>4. Pending(c, k) /\ runs[c] = <<>> /\ (response[c] = None \/ response[c].error \in S!Unknown)
  BY <1>1, <1>3, Zenon DEF RpcInv, Pending, PendingNotRun
<1>5. r \in S!Responses /\ (request[c].kind = "write" => r.data = 0) /\ r.error \in {"none", "server"}
  <2>1. r \in S!Responses
    BY <1>2, Reports, Zenon
  <2>2. CASE r = Result(FALSE, 0)
    BY <2>1, <2>2, Zenon DEF Result
  <2>3. CASE \E n \in 0..(IF request[c].kind = "read" THEN MaxData ELSE 0) : r = Result(TRUE, n)
    <3>1. PICK n \in 0..(IF request[c].kind = "read" THEN MaxData ELSE 0) : r = Result(TRUE, n)
      BY <2>3, Zenon
    <3>2. request[c].kind = "write" => n = 0
      BY <3>1
    <3> QED
      BY <2>1, <3>1, <3>2, Zenon DEF Result
  <2> QED
    BY <1>2, <2>2, <2>3, Zenon DEF Outcomes
<1>6. runs'[c] = <<r>> /\ \A b \in Calls : b # c => runs'[b] = runs[b]
  <2>1. Append(runs[c], r) = <<r>>
    BY <1>4
  <2> QED
    BY <1>2, <2>1, Zenon DEF RpcInv, TypeOK
<1>7. k \notin ending /\ up[k] = <<>>
  BY <1>3, Zenon DEF RpcInv, ConnectionEnds, UpStream, Busy
<1>8. server[k] = "open" \/ server[k] = "closed" \/ server[k] = "leaked"
  BY <1>3, Zenon DEF RpcInv, TypeOK, ConnectionEnds
<1>9. PICK w \in {"send_length", "gone"}, y \in Items, z \in {server[k], "closed"} :
        /\ handler' = [handler EXCEPT ![k] = w] /\ hand' = [hand EXCEPT ![k] = y]
        /\ server' = [server EXCEPT ![k] = z] /\ (w = "send_length" => z = server[k])
        /\ w = "gone" => z = "closed"
        /\ up' = up
        /\ w = "send_length" => y.call = c /\ y.resp = r
        /\ w = "gone" => ending' = ending
        /\ ending' = ending \/ ending' = ending \cup {k}
  <2>1. CASE /\ Goto(k, "send_length") /\ hand' = [hand EXCEPT ![k].resp = r]
             /\ ending' = ending \/ ending' = ending \cup {k}
             /\ UNCHANGED <<server, up>>
    <3>1. PICK y : y = [hand[k] EXCEPT !.resp = r]
      BY Zenon
    <3>2. hand[k] \in Items
      BY Zenon DEF RpcInv, TypeOK
    <3>3. y \in Items /\ y.call = c /\ y.resp = r
      BY <1>1, <1>5, <3>1, <3>2, Zenon DEF Items
    <3>4. hand' = [hand EXCEPT ![k] = y]
      BY <2>1, <3>1, Zenon
    <3>5. server' = [server EXCEPT ![k] = server[k]]
      BY <2>1, Zenon DEF RpcInv, TypeOK
    <3> QED
      BY <2>1, <3>3, <3>4, <3>5, Zenon DEF Goto
  <2>2. CASE End(k, "closed") /\ UNCHANGED <<ending, fault>>
    <3>1. up' = up
      BY <1>7, <2>2, Zenon DEF RpcInv, TypeOK, End
    <3> QED
      BY <2>2, <3>1, Messages, Zenon DEF End, Goto
  <2> QED
    BY <1>2, <2>1, <2>2, Zenon
<1>10. /\ handler'[k] = w /\ hand'[k] = y /\ server'[k] = z
       /\ \A j \in Calls : j # k => handler'[j] = handler[j] /\ hand'[j] = hand[j] /\ server'[j] = server[j]
  BY <1>9, Zenon DEF RpcInv, TypeOK
<1> USE NoneApart
<1>11. conn = k => /\ cur = c /\ place \notin {"idle", "connect", "send_length", "send_data"}
  <2>1. conn = k => /\ hand[k].call = cur /\ place \notin {"idle", "send_length", "send_data"}
    BY <1>1, <1>3, Zenon DEF RpcInv, ClientStream, Active
  <2>2. conn = k => place # "connect"
    BY <1>1, Zenon DEF RpcInv, CallsInOrder
  <2> QED
    BY <1>1, <2>1, <2>2, Zenon
<1>12. cur = c => conn = k /\ place \notin {"idle", "connect", "send_length", "send_data"}
  <2>1. cur = c => place # "idle" /\ place # "connect"
    BY <1>1 DEF RpcInv, TypeOK, CallsInOrder
  <2> QED
    BY <1>1, <1>11, <2>1, Zenon DEF RpcInv, CallsInOrder
<1>13. \A i \in DOMAIN down[k] : down[k][i].type # "data"
  BY <1>3, Zenon DEF RpcInv, DownStream
<1>14. TypeOK'
  <2>1. runs' \in [Calls -> Seq(S!Responses)]
    <3>1. runs[c] \in Seq(S!Responses)
      BY <1>5, Zenon DEF RpcInv, TypeOK
    <3>2. Append(runs[c], r) \in Seq(S!Responses)
      BY <1>5, <3>1
    <3> QED
      BY <1>2, <3>2, Zenon DEF RpcInv, TypeOK
  <2>2. handler' \in [Calls -> HandlerPlaces] /\ hand' \in [Calls -> Items]
    BY <1>9, Zenon DEF RpcInv, TypeOK, HandlerPlaces
  <2>3. server' \in [Calls -> {"none", "backlog", "open", "leaked", "closed"}]
    BY <1>9, Zenon DEF RpcInv, TypeOK
  <2>4. ending' \subseteq Calls /\ fault' \subseteq Calls
    BY <1>2, <1>9, Zenon DEF RpcInv, TypeOK, Blame
  <2> QED
    BY <1>3, <1>9, <2>1, <2>2, <2>3, <2>4, Zenon DEF RpcInv, TypeOK
<1>15. CallsInOrder'
  <2>1. request[c] # None /\ \A b \in Calls : b # c => runs'[b] = runs[b]
    BY <1>1, <1>6, Zenon
  <2>2. UNCHANGED <<request, response, cur, place, conn, via>>
    BY <1>3, Zenon
  <2>3. place \in {"connect", "send_length", "send_data"} => cur \in Calls /\ cur # c
    BY <1>12, Zenon DEF RpcInv, TypeOK
  <2>4. place \in {"connect", "send_length", "send_data"} => runs'[cur] = <<>>
    BY <2>1, <2>3, Zenon DEF RpcInv, CallsInOrder
  <2>5. \A b \in Calls : request[b] = None => response[b] = None /\ runs'[b] = <<>> /\ via[b] = None
    BY <2>1, Zenon DEF RpcInv, CallsInOrder
  <2> QED
    BY <2>2, <2>4, <2>5, Zenon DEF RpcInv, CallsInOrder
<1>16. ConnectionEnds'
  BY <1>3, <1>7, <1>8, <1>9, <1>10 DEF RpcInv, ConnectionEnds, Listening
<1>17. UpStream'
  <2>1. ASSUME NEW j \in Calls, NEW i \in DOMAIN up[j] PROVE OnItsWay(j, i)'
    <3>1. j # k /\ OnItsWay(j, i)
      BY <1>7 DEF RpcInv, UpStream
    <3>2. up[j][i].call # c
      BY <1>1, <3>1, Zenon DEF OnItsWay
    <3> QED
      BY <1>3, <1>6, <1>9, <1>10, <3>1, <3>2, Zenon DEF OnItsWay
  <2>2. \A j \in Calls : handler'[j] \in Busy /\ j \notin ending' => up[j] = <<>>
    BY <1>7, <1>9, <1>10, Zenon DEF RpcInv, UpStream
  <2> QED
    BY <1>9, <2>1, <2>2, Zenon DEF UpStream
<1>18. ClientStream'
  BY <1>3, <1>9, <1>10, <1>11 DEF RpcInv, ClientStream, Active
<1>19. DownStream'
  <2>1. \A b \in Calls : \A q : b # c => Truth(b, q)' = Truth(b, q)
    BY <1>6, Zenon DEF Truth
  <2> SUFFICES ASSUME NEW j \in Calls
               PROVE  /\ down[j] # <<>> => conn = j
                      /\ \A i \in DOMAIN down[j] :
                           /\ down[j][i].call = cur
                           /\ down[j][i].type = "data" =>
                                 /\ i = Len(down[j]) /\ up[j] = <<>>
                                 /\ handler'[j] \in {"receive_length", "gone"}
                                 /\ Truth(cur, down[j][i].resp)'
    BY <1>3, <1>9 DEF DownStream, Truth
  <2>2. CASE j = k
    BY <1>13, <2>2, Zenon DEF RpcInv, DownStream
  <2>3. CASE j # k
    <3>1. down[j] # <<>> => conn = j /\ cur # c
      BY <1>12, <2>3, Zenon DEF RpcInv, DownStream
    <3>2. DOMAIN down[j] # {} => cur \in Calls /\ cur # c
      BY <3>1, SMTT(30) DEF RpcInv, TypeOK, ClientStream
    <3>3. ASSUME NEW i \in DOMAIN down[j]
          PROVE  /\ down[j][i].call = cur
                 /\ down[j][i].type = "data" =>
                       /\ i = Len(down[j]) /\ up[j] = <<>> /\ handler[j] \in {"receive_length", "gone"}
                       /\ Truth(cur, down[j][i].resp)
      BY Zenon DEF RpcInv, DownStream
    <3> QED
      BY <1>3, <1>10, <2>1, <2>3, <3>1, <3>2, <3>3, Zenon
  <2> QED
    BY <2>2, <2>3, Zenon
<1>20. InHand'
  <2>1. \A b \in Calls : \A q : b # c => Truth(b, q)' = Truth(b, q)
    BY <1>6, Zenon DEF Truth
  <2>2. ASSUME NEW j \in Calls, j # k
        PROVE  /\ handler'[j] \in Active =>
                     /\ hand'[j].call \in Calls /\ request'[hand'[j].call] # None
                     /\ via'[hand'[j].call] = j
               /\ handler'[j] = "receive_data" => hand'[j].n > 0
               /\ handler'[j] \in {"send_length", "send_data"} => Truth(hand[j].call, hand[j].resp)'
    <3>1. handler[j] \in Active => hand[j].call \in Calls /\ hand[j].call # c
      BY <1>1, <2>2, Zenon DEF RpcInv, InHand
    <3>2. handler[j] \in {"send_length", "send_data"} => handler[j] \in Active
      BY Zenon DEF Active
    <3>3. handler[j] \in {"send_length", "send_data"} => Truth(hand[j].call, hand[j].resp)
      BY Zenon DEF RpcInv, InHand
    <3>4. handler'[j] \in {"send_length", "send_data"} => Truth(hand[j].call, hand[j].resp)'
      BY <1>10, <2>1, <2>2, <3>1, <3>2, <3>3, Zenon
    <3> QED
      BY <1>3, <1>10, <2>2, <3>4, Zenon DEF RpcInv, InHand
  <2>3. w = "send_length" => Truth(hand[k].call, hand[k].resp)'
    BY <1>5, <1>6, <1>9, <1>10, Zenon DEF Truth
  <2> QED
    BY <1>1, <1>3, <1>9, <1>10, <2>2, <2>3 DEF InHand, Active
<1>21. PendingNotRun'
  <2> SUFFICES ASSUME NEW b \in Calls, NEW j \in Calls, Pending(b, j)'
               PROVE  Pending(b, j) /\ b # c
    BY <1>3, <1>6, Zenon DEF RpcInv, PendingNotRun
  <2>1. j # k
    BY <1>7, <1>9, <1>10 DEF Pending
  <2>2. Pending(b, j)
    BY <1>3, <1>9, <1>10, <2>1, Zenon DEF Pending
  <2>3. via[b] = j
    BY <2>2, PendingPlace, Zenon
  <2> QED
    BY <1>1, <2>1, <2>2, <2>3, Zenon
<1>22. ResponsesTrue'
  <2> SUFFICES ASSUME NEW b \in Calls, response[b] # None PROVE S!Truthful(b, response[b])'
    BY <1>3, Zenon DEF ResponsesTrue
  <2>1. CASE b = c
    BY <1>3, <1>4, <2>1, Zenon DEF S!Truthful
  <2>2. CASE b # c
    BY <1>3, <1>6, <2>2, Zenon DEF RpcInv, ResponsesTrue, S!Truthful
  <2> QED
    BY <2>1, <2>2, Zenon
<1>23. RunsOnce'
  BY <1>3, <1>5, <1>6, Zenon DEF RpcInv, RunsOnce
<1> QED
  BY <1>14, <1>15, <1>16, <1>17, <1>18, <1>19, <1>20, <1>21, <1>22, <1>23, Zenon DEF RpcInv

\* Every step of the client and of the server preserves the invariant.
LEMMA RpcStepInv == RpcInv /\ [Next]_vars => RpcInv'
<1> SUFFICES ASSUME RpcInv, [Next]_vars PROVE RpcInv'
  BY Zenon
<1>1. CASE \E c \in Calls, q \in Requests : send_command(c, q)
  BY <1>1, SendCommandInv, Zenon
<1>2. CASE Client
  BY <1>2, ConnectInv, ConnectFailsInv, SendLengthOfRequestInv, SendDataOfRequestInv, SendFailsInv,
     ReceiveLengthOfAnswerInv, ReceiveDataOfAnswerInv, ReceiveFailsInv, Zenon DEF Client
<1>3. CASE \E k \in Calls : Handler(k)
  BY <1>3, AcceptInv, HandlerReceiveLengthInv, HandlerReceiveDataInv, DispatchInv,
     HandlerSendLengthInv, HandlerSendDataInv, HandlerFailsInv, Zenon DEF Handler
<1>4. CASE \E k \in Calls : Stop(k)
  BY <1>4, StopInv, Zenon
<1>5. CASE UNCHANGED vars
  <2> USE <1>5 DEF vars, clientVars, serverVars
  <2>1. TypeOK' /\ CallsInOrder'
    BY Zenon DEF RpcInv, TypeOK, CallsInOrder
  <2>2. ConnectionEnds' /\ UpStream' /\ ClientStream'
    <3>1. ConnectionEnds'
      <4>1. server' = server /\ handler' = handler /\ up' = up /\ down' = down /\ request' = request
            /\ cur' = cur /\ place' = place /\ conn' = conn /\ ending' = ending
        BY Zenon
      <4>2. ConnectionEnds
        BY Zenon DEF RpcInv
      <4> QED
        BY <4>1, <4>2, Zenon DEF ConnectionEnds, Listening
    <3>2. UpStream'
      BY SMTT(30) DEF RpcInv, UpStream, OnItsWay
    <3>3. ClientStream'
      BY Zenon DEF RpcInv, ClientStream
    <3> QED
      BY <3>1, <3>2, <3>3, Zenon
  <2>3. DownStream' /\ InHand'
    BY SMTT(30) DEF RpcInv, DownStream, InHand, Truth
  <2>4. PendingNotRun'
    BY Zenon DEF RpcInv, PendingNotRun, Pending
  <2>5. ResponsesTrue' /\ RunsOnce'
    BY Zenon DEF RpcInv, ResponsesTrue, RunsOnce, S!Truthful
  <2> QED
    BY <2>1, <2>2, <2>3, <2>4, <2>5, Zenon DEF RpcInv
<1> QED
  BY <1>1, <1>2, <1>3, <1>4, <1>5, Zenon DEF Next

\* The invariant holds in every reachable state, for any number of calls and any sizes.
THEOREM RpcInvHolds == Spec => []RpcInv
  BY RpcInitInv, RpcStepInv, PTL DEF Spec

\* TypeOK: the client and every handler are always at a place they can be at, and the
\* client has a connection whenever send_command uses one.
THEOREM RpcTypeCorrect == Spec => []TypeOK
<1>1. RpcInv => TypeOK
  BY Zenon DEF RpcInv
<1> QED
  BY <1>1, RpcInvHolds, PTL

\* ValuesMeanWhatTheySay: a method of Client that returns 0, or a number of bytes or
\* entries, says what the server did for this very call, and did once.
THEOREM ValuesHold == Spec => []ValuesMeanWhatTheySay
<1>1. ASSUME RpcInv PROVE ValuesMeanWhatTheySay
  <2> SUFFICES ASSUME NEW c \in Calls, response[c] # None
               PROVE  /\ request[c].kind = "write" /\ Value(c) = 0 => runs[c] = <<Result(TRUE, 0)>>
                      /\ request[c].kind = "read" /\ Value(c) > 0 => runs[c] = <<Result(TRUE, Value(c))>>
    BY Zenon DEF ValuesMeanWhatTheySay
  <2>1. PICK r \in S!Responses : r = response[c]
    BY <1>1, Zenon DEF RpcInv, TypeOK
  <2>2. S!Truthful(c, r)
    BY <1>1, <2>1, Zenon DEF RpcInv, ResponsesTrue
  <2>3. \A d \in 0..MaxData : [success |-> TRUE, error |-> "none", data |-> d] = Result(TRUE, d)
    BY Zenon DEF Result
  <2>4. r.success => \E d \in 0..MaxData : r = Result(TRUE, d)
    BY <2>1, <2>3, Zenon DEF S!Responses
  <2>5. \A d : Result(TRUE, d).error = "none" /\ Result(TRUE, d).data = d /\ Result(TRUE, d).success
    BY Zenon DEF Result
  <2>6. CASE r.success
    <3>1. PICK d \in 0..MaxData : r = Result(TRUE, d)
      BY <2>4, <2>6, Zenon
    <3>2. runs[c] = <<r>>
      BY <2>2, <2>5, <3>1, Zenon DEF S!Truthful, S!Unsent, S!Unknown
    <3>3. request[c].kind = "write" => d = 0
      <4>1. runs[c] # <<>>
        BY <3>2
      <4>2. PICK o \in S!Responses : runs[c] = <<o>> /\ (request[c].kind = "write" => o.data = 0)
        BY <1>1, <4>1, Zenon DEF RpcInv, RunsOnce
      <4>3. o = r
        BY <3>2, <4>2
      <4> QED
        BY <2>5, <3>1, <4>2, <4>3, Zenon
    <3>4. request[c].kind # "write" => Value(c) = d
      BY <2>1, <2>5, <2>6, <3>1, Zenon DEF Value
    <3> QED
      BY <3>1, <3>2, <3>3, <3>4, Zenon
  <2>7. CASE ~r.success
    <3>1. Value(c) = IF request[c].kind = "write" THEN -1 ELSE 0
      BY <2>1, <2>7, Zenon, Zenon DEF Value
    <3>2. request[c].kind = "write" => Value(c) # 0
      BY <3>1
    <3>3. request[c].kind = "read" => ~(Value(c) > 0)
      BY <3>1
    <3> QED
      BY <3>2, <3>3, Zenon
  <2> QED
    BY <2>6, <2>7, Zenon
<1> QED
  BY <1>1, RpcInvHolds, PTL

\* send_command returning a response that is true of the call is RpcService's Answer.
LEMMA ReturnIsAnswer ==
  ASSUME RpcInv, cur \in Calls, NEW r \in S!Responses, Return(r), S!Truthful(cur, r), UNCHANGED runs
  PROVE  S!Next
<1>1. PICK c \in Calls : c = cur
  BY Zenon
<1>2. request[c] # None /\ response[c] = None /\ S!Truthful(c, r)
  BY <1>1, NoneApart, Zenon DEF RpcInv, CallsInOrder
<1>3. response' = [response EXCEPT ![c] = r] /\ request' = request
  BY <1>1, Zenon DEF Return
<1>4. S!Answer(c, r)
  BY <1>2, <1>3, Zenon DEF S!Answer
<1> QED
  BY <1>4, Zenon DEF S!Next

\* The answer that receive_data returns is true of the call in progress.
LEMMA AnswerIsTrue ==
  ASSUME RpcInv, receive_data
  PROVE  \E r \in S!Responses : Return(r) /\ S!Truthful(cur, r)
<1>1. conn \in Calls /\ down[conn] \in Seq(Items) /\ down[conn] # <<>>
  BY Zenon DEF RpcInv, TypeOK, receive_data, Arrived
<1>2. PICK t : t = Tail(down[conn])
  BY Zenon
<1>3. 1 \in DOMAIN down[conn] /\ Head(down[conn]) = down[conn][1]
  BY <1>1, <1>2, TakeFront, Zenon
<1>4. down[conn][1].type = "data" /\ Return(down[conn][1].resp)
  BY <1>3, Zenon DEF receive_data, Arrived
<1>5. Truth(cur, down[conn][1].resp)
  BY <1>1, <1>3, <1>4, Zenon DEF RpcInv, DownStream
<1> QED
  BY <1>4, <1>5, Zenon DEF Truth, S!Truthful

\* dispatch_command is RpcService's Run: the call may still run, and runs once.
LEMMA DispatchIsRun ==
  ASSUME RpcInv, NEW k \in Calls, Dispatch(k)
  PROVE  S!Next
<1>1. PICK c \in Calls : c = hand[k].call /\ request[c] # None
  BY Zenon DEF RpcInv, InHand, Dispatch, Active
<1>2. PICK r \in Outcomes(c) : runs' = [runs EXCEPT ![c] = Append(runs[c], r)]
  BY <1>1, Zenon DEF Dispatch
<1>3. r \in S!Responses
  BY <1>2, Reports, Zenon
<1>4. Pending(c, k) /\ runs[c] = <<>> /\ (response[c] = None \/ response[c].error \in S!Unknown)
  BY <1>1, Zenon DEF RpcInv, Pending, PendingNotRun, Dispatch
<1>5. Append(runs[c], r) = <<r>>
  BY <1>4
<1>6. UNCHANGED <<request, response>>
  BY Zenon DEF Dispatch, clientVars
<1>7. S!Run(c, r)
  BY <1>1, <1>2, <1>4, <1>5, <1>6, Zenon DEF S!Run, S!MayRun
<1> QED
  BY <1>3, <1>7, Zenon DEF S!Next

\* Every step of the client or of the server is a step of RpcService, or changes nothing
\* that a caller sees.
LEMMA StepServes == RpcInv /\ [Next]_vars => [S!Next]_(S!vars)
<1> SUFFICES ASSUME RpcInv, [Next]_vars PROVE S!Next \/ UNCHANGED S!vars
  BY Zenon
<1>1. ASSUME UNCHANGED <<request, response, runs>> PROVE UNCHANGED S!vars
  BY <1>1, Zenon DEF S!vars
<1>2. ASSUME NEW c \in Calls, NEW q \in Requests, send_command(c, q) PROVE S!Next
  <2>1. c \notin {d \in Calls : request[d] # None}
    BY <1>2, Zenon DEF send_command
  <2>2. \A d \in {b \in Calls : request[b] # None} : response[d] # None
    BY <1>2, NoneApart DEF send_command, RpcInv, TypeOK, CallsInOrder
  <2>3. {d \in Calls : request'[d] # None} = {d \in Calls : request[d] # None} \cup {c}
    BY <1>2, NoneApart DEF send_command, RpcInv, TypeOK
  <2>4. UNCHANGED <<runs, response>>
    BY <1>2, Zenon DEF send_command, serverVars
  <2>5. S!Ask(c)
    BY <2>1, <2>2, <2>3, <2>4, Zenon DEF S!Ask
  <2> QED
    BY <2>5, Zenon DEF S!Next
<1>3. ASSUME Client PROVE S!Next \/ UNCHANGED S!vars
  <2>1. place # "idle" /\ cur \in Calls /\ UNCHANGED runs
    <3>1. place # "idle"
      BY <1>3, Zenon DEF Client, connect, connect_fails, send_length, send_data, send_fails,
         receive_length, receive_data, receive_fails, exception
    <3>2. UNCHANGED runs
      BY <1>3, Zenon DEF Client, connect, connect_fails, send_length, send_data, send_fails,
         receive_length, receive_data, receive_fails, exception, serverVars
    <3>3. cur \in Calls
      BY <3>1, Zenon DEF RpcInv, TypeOK
    <3> QED
      BY <3>1, <3>2, <3>3, Zenon
  <2>2. CASE connect_fails
    <3>1. runs[cur] = <<>> /\ Return(Failure("not_connected"))
      BY <2>2, Zenon DEF connect_fails, RpcInv, CallsInOrder
    <3>2. Failure("not_connected") \in S!Responses /\ S!Truthful(cur, Failure("not_connected"))
      BY <3>1, Reports, Zenon DEF Failure, S!Truthful, S!Unsent
    <3> QED
      BY <2>1, <3>1, <3>2, ReturnIsAnswer, Zenon
  <2>3. CASE send_fails
    BY <2>1, <2>3, NotSentIsTrue, ReturnIsAnswer, Zenon DEF send_fails
  <2>4. ASSUME NEW e \in S!Unknown, Return(Failure(e)) PROVE S!Next
    <3>1. Failure(e) \in S!Responses /\ S!Truthful(cur, Failure(e))
      BY Reports, Zenon DEF Failure, S!Truthful, S!Unknown
    <3> QED
      BY <2>1, <2>4, <3>1, ReturnIsAnswer, Zenon
  <2>5. CASE receive_data
    BY <2>1, <2>5, AnswerIsTrue, ReturnIsAnswer, Zenon
  <2>6. CASE receive_length
    BY <1>1, <2>1, <2>4, <2>6, Zenon DEF receive_length, S!Unknown
  <2>7. CASE receive_fails \/ exception
    BY <2>4, <2>7, Zenon DEF receive_fails, exception, S!Unknown
  <2>8. CASE connect \/ send_length \/ send_data
    BY <1>1, <2>1, <2>8, Zenon DEF connect, send_length, send_data
  <2> QED
    BY <1>3, <2>2, <2>3, <2>5, <2>6, <2>7, <2>8, Zenon DEF Client
<1>4. ASSUME NEW k \in Calls, Handler(k) \/ Stop(k) PROVE S!Next \/ UNCHANGED S!vars
  <2>1. CASE Dispatch(k)
    BY <2>1, DispatchIsRun, Zenon
  <2>2. CASE ~Dispatch(k)
    BY <1>1, <1>4, <2>2, Zenon DEF Handler, Accept, ReceiveLength, ReceiveData, SendLength, SendData, Fails,
       Throws, Stop, clientVars
  <2> QED
    BY <2>1, <2>2, Zenon
<1>5. CASE UNCHANGED vars
  BY <1>1, <1>5, Zenon DEF vars, clientVars, serverVars
<1> QED
  BY <1>2, <1>3, <1>4, <1>5, Zenon DEF Next

\* Service: the client and the server together implement RpcService.  A call runs at most
\* once, an answer is the answer to that very call, and what was reported as not sent
\* never runs, whatever happens to connections and to the server in between.
THEOREM ServiceImplemented == Spec => Service
<1>1. Init => S!Init
  BY Zenon DEF Init, S!Init
<1> QED
  BY <1>1, StepServes, RpcInvHolds, PTL DEF Spec, Service, S!Spec

\* What has been asked, the connection of a call, what was run for it and the faults stay.
LEMMA HistoryKept ==
  ASSUME RpcInv, [Next]_vars
  PROVE  /\ \A c \in Calls : request[c] # None => request'[c] = request[c]
         /\ \A c \in Calls : via[c] # None => via'[c] = via[c]
         /\ \A c \in Calls : runs[c] # <<>> => runs'[c] = runs[c]
         /\ fault \subseteq fault'
<1>1. \A c \in Calls : request[c] # None => request'[c] = request[c]
  <2>1. ASSUME NEW c \in Calls, NEW q \in Requests, send_command(c, q)
        PROVE  \A d \in Calls : request[d] # None => request'[d] = request[d]
    BY <2>1, Zenon DEF send_command, RpcInv, TypeOK
  <2>2. CASE UNCHANGED request
    BY <2>2, Zenon
  <2>3. ASSUME Client PROVE UNCHANGED request
    BY <2>3, Zenon DEF Client, connect, connect_fails, send_length, send_data, send_fails,
       receive_length, receive_data, receive_fails, exception, Return
  <2>4. ASSUME NEW k \in Calls, Handler(k) \/ Stop(k) PROVE UNCHANGED request
    BY <2>4, Zenon DEF Handler, Accept, ReceiveLength, ReceiveData, Dispatch, SendLength, SendData,
       Fails, Throws, Stop, clientVars
  <2> QED
    BY <2>1, <2>2, <2>3, <2>4, Zenon DEF Next, vars, clientVars
<1>2. \A c \in Calls : via[c] # None => via'[c] = via[c]
  <2>1. ASSUME NEW c \in Calls, NEW q \in Requests, send_command(c, q)
        PROVE  \A d \in Calls : via[d] # None => via'[d] = via[d]
    BY <2>1, Zenon DEF send_command, RpcInv, TypeOK, CallsInOrder
  <2>2. CASE UNCHANGED via
    BY <2>2, Zenon
  <2>3. CASE connect
    <3>1. via[cur] = None /\ via' = [via EXCEPT ![cur] = cur]
      BY <2>3, Zenon DEF connect, RpcInv, CallsInOrder
    <3> QED
      BY <3>1, Zenon DEF RpcInv, TypeOK
  <2>4. ASSUME Client, ~connect PROVE UNCHANGED via
    BY <2>4, Zenon DEF Client, connect_fails, send_length, send_data, send_fails,
       receive_length, receive_data, receive_fails, exception, Return
  <2>5. ASSUME NEW k \in Calls, Handler(k) \/ Stop(k) PROVE UNCHANGED via
    BY <2>5, Zenon DEF Handler, Accept, ReceiveLength, ReceiveData, Dispatch, SendLength, SendData,
       Fails, Throws, Stop, clientVars
  <2> QED
    BY <2>1, <2>2, <2>3, <2>4, <2>5, Zenon DEF Next, vars, clientVars
<1>3. \A c \in Calls : runs[c] # <<>> => runs'[c] = runs[c]
  <2>1. ASSUME NEW k \in Calls, Dispatch(k)
        PROVE  \A c \in Calls : runs[c] # <<>> => runs'[c] = runs[c]
    <3>1. PICK b \in Calls : b = hand[k].call
      BY <2>1, Zenon DEF RpcInv, InHand, Dispatch, Active
    <3>2. PICK r : runs' = [runs EXCEPT ![b] = Append(runs[b], r)]
      BY <2>1, <3>1, Zenon DEF Dispatch
    <3>3. runs[b] = <<>>
      BY <2>1, <3>1, Zenon DEF RpcInv, Pending, PendingNotRun, Dispatch
    <3> QED
      BY <3>2, <3>3, Zenon DEF RpcInv, TypeOK
  <2>2. CASE UNCHANGED runs
    BY <2>2, Zenon
  <2>3. ASSUME NEW c \in Calls, NEW q \in Requests, send_command(c, q) PROVE UNCHANGED runs
    BY <2>3, Zenon DEF send_command, serverVars
  <2>4. ASSUME Client PROVE UNCHANGED runs
    BY <2>4, Zenon DEF Client, connect, connect_fails, send_length, send_data, send_fails,
       receive_length, receive_data, receive_fails, exception, serverVars
  <2>5. ASSUME NEW k \in Calls, Handler(k) \/ Stop(k), ~Dispatch(k) PROVE UNCHANGED runs
    BY <2>5, Zenon DEF Handler, Accept, ReceiveLength, ReceiveData, SendLength, SendData,
       Fails, Throws, Stop
  <2> QED
    BY <2>1, <2>2, <2>3, <2>4, <2>5, Zenon DEF Next, vars, serverVars
<1>4. fault \subseteq fault'
  <2>1. ASSUME NEW c \in Calls, NEW q \in Requests, send_command(c, q) PROVE UNCHANGED fault
    BY <2>1, Zenon DEF send_command
  <2>2. ASSUME Client PROVE fault \subseteq fault'
    BY <2>2, Zenon DEF Client, connect, connect_fails, send_length, send_data, send_fails,
       receive_length, receive_data, receive_fails, exception, Broken
  <2>3. ASSUME NEW k \in Calls, Handler(k) \/ Stop(k) PROVE fault \subseteq fault'
    BY <2>3, Zenon DEF Handler, Accept, ReceiveLength, ReceiveData, Dispatch, SendLength, SendData,
       Fails, Throws, Stop, Blame
  <2> QED
    BY <2>1, <2>2, <2>3, Zenon DEF Next, vars
<1> QED
  BY <1>1, <1>2, <1>3, <1>4, Zenon

\* An excuse lasts.
LEMMA ExcusedStays ==
  ASSUME RpcInv, [Next]_vars, NEW k \in Calls, Excused(k)
  PROVE  Excused(k)'
<1>1. CASE k \in fault
  BY <1>1, HistoryKept, Zenon DEF Excused
<1>2. ASSUME NEW c \in Calls, via[c] = k, TooLarge(c) PROVE Excused(k)'
  <2>1. via'[c] = k /\ request'[c] = request[c]
    BY <1>2, HistoryKept, NoneApart, Zenon DEF RpcInv, CallsInOrder
  <2>2. runs[c] # <<>> => runs'[c] = runs[c]
    BY HistoryKept, Zenon
  <2>3. TooLarge(c)'
    BY <1>2, <2>1, <2>2, Zenon DEF TooLarge, Encoded
  <2> QED
    BY <2>1, <2>3, Zenon DEF Excused
<1> QED
  BY <1>1, <1>2, Zenon DEF Excused

\* What is in a stream after a message was put into it, or taken from its front.
LEMMA StreamFrom ==
  ASSUME NEW s \in Seq(Items), NEW t
  PROVE  /\ \A x \in Items : t = Append(s, x) =>
                \A i \in DOMAIN t : (\E j \in DOMAIN s : t[i] = s[j]) \/ t[i] = x
         /\ s # <<>> /\ t = Tail(s) => \A i \in DOMAIN t : \E j \in DOMAIN s : t[i] = s[j]
         /\ t = <<>> => \A i \in DOMAIN t : FALSE
<1>1. ASSUME NEW x \in Items, t = Append(s, x), NEW i \in DOMAIN t
      PROVE  (\E j \in DOMAIN s : t[i] = s[j]) \/ t[i] = x
  BY <1>1, PutBehind
<1>2. ASSUME s # <<>>, t = Tail(s), NEW i \in DOMAIN t PROVE \E j \in DOMAIN s : t[i] = s[j]
  BY <1>2, TakeFront
<1>3. t = <<>> => \A i \in DOMAIN t : FALSE
  OBVIOUS
<1> QED
  BY <1>1, <1>2, <1>3, Zenon

\* What is on its way to the server was there before, or the client has just sent it.
LEMMA SentUp ==
  ASSUME TypeOK, NEW h \in Calls, NEW x \in Items, SendUp(h, x), NEW k \in Calls,
         NEW i \in DOMAIN up'[k]
  PROVE  (\E j \in DOMAIN up[k] : up'[k][i] = up[k][j]) \/ up'[k][i] = x
<1>1. CASE up' = up
  BY <1>1, Zenon
<1>2. CASE up' = [up EXCEPT ![h] = Append(up[h], x)]
  <2>1. CASE k = h
    <3>1. PICK s, t : s = up[k] /\ t = up'[k]
      BY Zenon
    <3>2. s \in Seq(Items) /\ t = Append(s, x)
      BY <1>2, <2>1, <3>1, Zenon DEF TypeOK
    <3>3. \A j \in DOMAIN t : (\E l \in DOMAIN s : t[j] = s[l]) \/ t[j] = x
      BY <3>2, StreamFrom
    <3> QED
      BY <2>1, <3>1, <3>3, Zenon
  <2>2. CASE k # h
    BY <1>2, <2>2, Zenon DEF TypeOK
  <2> QED
    BY <2>1, <2>2, Zenon
<1> QED
  BY <1>1, <1>2, Zenon DEF SendUp

\* What is on its way to the client was there before, or a handler has just sent it.
LEMMA SentDown ==
  ASSUME TypeOK, NEW h \in Calls, NEW x \in Items, SendDown(h, x), NEW k \in Calls,
         NEW i \in DOMAIN down'[k]
  PROVE  (\E j \in DOMAIN down[k] : down'[k][i] = down[k][j]) \/ (k = h /\ down'[k][i] = x)
<1>1. CASE down' = down
  BY <1>1, Zenon
<1>2. CASE down' = [down EXCEPT ![h] = Append(down[h], x)]
  <2>1. CASE k = h
    <3>1. PICK s, t : s = down[k] /\ t = down'[k]
      BY Zenon
    <3>2. s \in Seq(Items) /\ t = Append(s, x)
      BY <1>2, <2>1, <3>1, Zenon DEF TypeOK
    <3>3. \A j \in DOMAIN t : (\E l \in DOMAIN s : t[j] = s[l]) \/ t[j] = x
      BY <3>2, StreamFrom
    <3> QED
      BY <2>1, <3>1, <3>3, Zenon
  <2>2. CASE k # h
    BY <1>2, <2>2, Zenon DEF TypeOK
  <2> QED
    BY <2>1, <2>2, Zenon
<1> QED
  BY <1>1, <1>2, Zenon DEF SendDown

\* A length on its way to the server was there before, or is that of the request which the
\* client is sending.
LEMMA LengthUpFrom ==
  ASSUME RpcInv, [Next]_vars, NEW k \in Calls, NEW i \in DOMAIN up'[k],
         up'[k][i].type = "length"
  PROVE  \/ \E j \in DOMAIN up[k] : up'[k][i] = up[k][j]
         \/ /\ cur \in Calls /\ request[cur] # None
            /\ up'[k][i] = Length(cur, request[cur].size % LengthModulus)
<1> DEFINE Old == \E j \in DOMAIN up[k] : up'[k][i] = up[k][j]
<1>1. TypeOK /\ up[k] \in Seq(Items) /\ up \in [Calls -> Seq(Items)]
  BY Zenon DEF RpcInv, TypeOK
<1>2. CASE UNCHANGED up
  BY <1>2, Zenon
<1>3. ASSUME NEW c \in Calls, NEW q \in Requests, send_command(c, q) PROVE UNCHANGED up
  BY <1>3, Zenon DEF send_command
<1>4. ASSUME Client, ~send_length PROVE Old
  <2>1. ASSUME NEW n \in Nat, conn \in Calls, cur \in Calls, SendUp(conn, Data(cur, n, None))
        PROVE  Old
    <3>1. Data(cur, n, None) \in Items /\ Data(cur, n, None).type # "length"
      BY <2>1, Messages, Zenon DEF Data
    <3> QED
      BY <1>1, <2>1, <3>1, SentUp, Zenon
  <2>2. place \notin {"idle", "connect"} => cur \in Calls /\ conn \in Calls /\ request[cur] \in Requests
    BY NoneApart, Zenon DEF RpcInv, TypeOK, CallsInOrder
  <2>3. request[cur] \in Requests => request[cur].size \in Nat /\ 1..request[cur].size - 1 \subseteq Nat
    BY RpcConstants
  <2>4. CASE send_data
    BY <2>1, <2>2, <2>3, <2>4, Zenon DEF send_data
  <2>5. CASE send_fails
    BY <1>2, <2>1, <2>2, <2>3, <2>5, Zenon DEF send_fails
  <2>6. ASSUME ~send_data, ~send_fails PROVE UNCHANGED up
    BY <1>4, <2>6, Zenon DEF Client, connect, connect_fails, receive_length, receive_data,
       receive_fails, exception
  <2> QED
    BY <1>2, <2>4, <2>5, <2>6, Zenon
<1>5. CASE send_length
  <2>1. /\ cur \in Calls /\ conn \in Calls /\ request[cur] \in Requests /\ request[cur] # None
        /\ SendUp(conn, Length(cur, request[cur].size % LengthModulus))
    BY <1>5, NoneApart, Zenon DEF send_length, RpcInv, TypeOK, CallsInOrder
  <2>2. request[cur].size % LengthModulus \in Nat
    BY <2>1, RpcConstants
  <2>3. Length(cur, request[cur].size % LengthModulus) \in Items
    BY <2>1, <2>2, Messages, Zenon
  <2> QED
    BY <1>1, <2>1, <2>3, SentUp, Zenon
<1>6. ASSUME NEW h \in Calls, up' = [up EXCEPT ![h] = <<>>] PROVE Old
  <2>1. k = h => up'[k] = <<>>
    BY <1>1, <1>6, Zenon
  <2>2. k # h => up'[k] = up[k]
    BY <1>1, <1>6, Zenon
  <2>3. \A j \in DOMAIN <<>> : FALSE
    OBVIOUS
  <2> QED
    BY <2>1, <2>2, <2>3, Zenon
<1>7. ASSUME NEW h \in Calls, up[h] # <<>>, up' = [up EXCEPT ![h] = Tail(up[h])] PROVE Old
  <2>1. CASE k = h
    <3>1. PICK s, t : s = up[k] /\ t = up'[k]
      BY Zenon
    <3>2. s \in Seq(Items) /\ s # <<>> /\ t = Tail(s)
      BY <1>1, <1>7, <2>1, <3>1, Zenon
    <3>3. \A j \in DOMAIN t : \E l \in DOMAIN s : t[j] = s[l]
      BY <3>2, StreamFrom
    <3> QED
      BY <3>1, <3>3, Zenon
  <2>2. CASE k # h
    BY <1>1, <1>7, <2>2, Zenon
  <2> QED
    BY <2>1, <2>2, Zenon
<1>8. ASSUME NEW h \in Calls, ReceiveData(h) PROVE Old
  <2>1. PICK s, t, x, y :
          /\ s = up[h] /\ t = Tail(s) /\ x = Head(s) /\ y = [x EXCEPT !.n = x.n - hand[h].n]
          /\ up' = [up EXCEPT ![h] = (IF y.n = 0 THEN <<>> ELSE <<y>>) \o t]
          /\ s # <<>> /\ x.type = "data"
    BY <1>8, Zenon DEF ReceiveData, Arrived
  <2>2. s \in Seq(Items) /\ t \in Seq(Items) /\ x \in Items
    BY <1>1, <2>1, TakeFront
  <2>3. y.type = "data"
    BY <2>1, <2>2, Zenon DEF Items
  <2>4. \A j \in DOMAIN (<<>> \o t) : j \in DOMAIN t /\ (<<>> \o t)[j] = t[j]
    BY <2>2
  <2>5. \A j \in DOMAIN (<<y>> \o t) : (<<y>> \o t)[j] = y \/ \E l \in DOMAIN t : (<<y>> \o t)[j] = t[l]
    <3>1. Len(t) \in Nat /\ DOMAIN t = 1..Len(t)
      BY <2>2
    <3>2. DOMAIN (<<y>> \o t) = 1..Len(t) + 1 /\ (<<y>> \o t)[1] = y
          /\ \A j \in 2..Len(t) + 1 : (<<y>> \o t)[j] = t[j - 1]
      BY <2>2, <3>1
    <3>3. \A j \in 1..Len(t) + 1 : j = 1 \/ (j \in 2..Len(t) + 1 /\ j - 1 \in 1..Len(t))
      BY <3>1
    <3> QED
      BY <3>1, <3>2, <3>3, Zenon
  <2>6. up'[k] = IF k = h THEN (IF y.n = 0 THEN <<>> ELSE <<y>>) \o t ELSE up[k]
    BY <1>1, <2>1, Zenon
  <2>7. CASE k # h
    BY <2>6, <2>7, Zenon
  <2>8. CASE k = h
    <3>1. \A l \in DOMAIN t : \E j \in DOMAIN s : t[l] = s[j]
      BY <2>1, <2>2, StreamFrom
    <3>2. up'[k][i] = y \/ \E l \in DOMAIN t : up'[k][i] = t[l]
      BY <2>4, <2>5, <2>6, <2>8, Zenon
    <3>3. up'[k][i] # y
      BY <2>3, Zenon
    <3>4. s = up[k]
      BY <2>1, <2>8, Zenon
    <3> QED
      BY <3>1, <3>2, <3>3, <3>4, Zenon
  <2> QED
    BY <2>7, <2>8, Zenon
<1>9. ASSUME NEW h \in Calls, Handler(h) \/ Stop(h), ~ReceiveData(h) PROVE Old
  BY <1>2, <1>6, <1>7, <1>9, Zenon DEF Handler, Accept, ReceiveLength, Dispatch, SendLength,
     SendData, Fails, Throws, Stop, End, Arrived
<1> QED
  BY <1>2, <1>3, <1>4, <1>5, <1>8, <1>9, Zenon DEF Next, vars

\* A length on its way to the client was there before, or is that of the answer which the
\* handler is sending.
LEMMA LengthDownFrom ==
  ASSUME RpcInv, [Next]_vars, NEW k \in Calls, NEW i \in DOMAIN down'[k],
         down'[k][i].type = "length"
  PROVE  \/ \E j \in DOMAIN down[k] : down'[k][i] = down[k][j]
         \/ /\ handler[k] = "send_length"
            /\ down'[k][i] = Length(hand[k].call, Encoded(hand[k].resp))
<1> DEFINE Old == \E j \in DOMAIN down[k] : down'[k][i] = down[k][j]
<1>1. TypeOK /\ down[k] \in Seq(Items) /\ down \in [Calls -> Seq(Items)]
  BY Zenon DEF RpcInv, TypeOK
<1>2. CASE UNCHANGED down
  BY <1>2, Zenon
<1>3. ASSUME NEW c \in Calls, NEW q \in Requests, send_command(c, q) PROVE UNCHANGED down
  BY <1>3, Zenon DEF send_command
<1>4. ASSUME NEW h \in Calls, down' = [down EXCEPT ![h] = <<>>] PROVE Old
  <2>1. k = h => down'[k] = <<>>
    BY <1>1, <1>4, Zenon
  <2>2. k # h => down'[k] = down[k]
    BY <1>1, <1>4, Zenon
  <2>3. \A j \in DOMAIN <<>> : FALSE
    OBVIOUS
  <2> QED
    BY <2>1, <2>2, <2>3, Zenon
<1>5. ASSUME NEW h \in Calls, down[h] # <<>>, down' = [down EXCEPT ![h] = Tail(down[h])] PROVE Old
  <2>1. CASE k = h
    <3>1. PICK s, t : s = down[k] /\ t = down'[k]
      BY Zenon
    <3>2. s \in Seq(Items) /\ s # <<>> /\ t = Tail(s)
      BY <1>1, <1>5, <2>1, <3>1, Zenon
    <3>3. \A j \in DOMAIN t : \E l \in DOMAIN s : t[j] = s[l]
      BY <3>2, StreamFrom
    <3> QED
      BY <3>1, <3>3, Zenon
  <2>2. CASE k # h
    BY <1>1, <1>5, <2>2, Zenon
  <2> QED
    BY <2>1, <2>2, Zenon
<1>6. ASSUME Client PROVE Old
  <2>1. place \notin {"idle", "connect"} => conn \in Calls
    BY NoneApart, Zenon DEF RpcInv, TypeOK
  <2>2. CASE receive_length \/ receive_data
    BY <1>4, <1>5, <2>1, <2>2, Zenon DEF receive_length, receive_data, disconnect, Arrived
  <2>3. CASE send_fails \/ receive_fails \/ exception
    BY <1>4, <2>1, <2>3, Zenon DEF send_fails, receive_fails, exception, disconnect
  <2>4. CASE connect \/ connect_fails \/ send_length \/ send_data
    BY <1>2, <2>4, Zenon DEF connect, connect_fails, send_length, send_data
  <2> QED
    BY <1>6, <2>2, <2>3, <2>4, Zenon DEF Client
<1>7. ASSUME NEW h \in Calls, handler[h] \in {"send_length", "send_data"}
      PROVE  /\ hand[h].call \in Calls /\ hand[h].resp \in S!Responses
             /\ Encoded(hand[h].resp) \in Nat /\ 1..Encoded(hand[h].resp) - 1 \subseteq Nat
  <2>1. hand[h].call \in Calls /\ hand[h].resp \in S!Responses
    BY <1>7, Zenon DEF RpcInv, InHand, Active, Truth
  <2>2. Encoded(hand[h].resp) \in Nat
    BY <2>1, NoneApart DEF Encoded
  <2> QED
    BY <2>1, <2>2
<1>8. ASSUME NEW h \in Calls, NEW n \in Nat, NEW c \in Calls, NEW r \in S!Responses,
             SendDown(h, Data(c, n, r))
      PROVE  Old
  <2>1. Data(c, n, r) \in Items /\ Data(c, n, r).type # "length"
    BY Messages, Zenon DEF Data
  <2> QED
    BY <1>1, <1>8, <2>1, SentDown, Zenon
<1>9. ASSUME NEW h \in Calls, SendLength(h)
      PROVE  Old \/ (handler[k] = "send_length"
                     /\ down'[k][i] = Length(hand[k].call, Encoded(hand[k].resp)))
  <2>1. /\ handler[h] = "send_length"
        /\ SendDown(h, Length(hand[h].call, Encoded(hand[h].resp)))
    BY <1>9, Zenon DEF SendLength
  <2>2. Length(hand[h].call, Encoded(hand[h].resp)) \in Items
    BY <1>7, <2>1, Messages, Zenon
  <2>3. Old \/ (k = h /\ down'[k][i] = Length(hand[h].call, Encoded(hand[h].resp)))
    BY <1>1, <2>1, <2>2, SentDown, Zenon
  <2> QED
    BY <2>1, <2>3, Zenon
<1>10. ASSUME NEW h \in Calls, SendData(h) \/ Fails(h) PROVE Old
  BY <1>2, <1>7, <1>8, <1>10, Zenon DEF SendData, Fails
<1>11. ASSUME NEW h \in Calls, Handler(h) \/ Stop(h), ~SendLength(h), ~SendData(h), ~Fails(h)
       PROVE  UNCHANGED down
  BY <1>11, Zenon DEF Handler, Accept, ReceiveLength, ReceiveData, Dispatch, Throws, Stop
<1> QED
  BY <1>2, <1>3, <1>6, <1>9, <1>10, <1>11, Zenon DEF Next, vars

\* What a handler holds when it waits for data, or sends, it held before, or has just got:
\* a length from the stream, or an answer that is not too large.
LEMMA HeldFrom ==
  ASSUME RpcInv, [Next]_vars, NEW k \in Calls
  PROVE  /\ handler'[k] = "receive_data" =>
              \/ handler[k] = "receive_data" /\ hand'[k] = hand[k]
              \/ \E j \in DOMAIN up[k] : up[k][j].type = "length" /\ hand'[k] = up[k][j]
         /\ handler'[k] \in {"send_length", "send_data"} =>
              \/ handler[k] \in {"send_length", "send_data"} /\ hand'[k] = hand[k]
              \/ Acceptable(Encoded(hand'[k].resp))
<1> DEFINE Holds ==
             /\ handler'[k] = "receive_data" =>
                  \/ handler[k] = "receive_data" /\ hand'[k] = hand[k]
                  \/ \E j \in DOMAIN up[k] : up[k][j].type = "length" /\ hand'[k] = up[k][j]
             /\ handler'[k] \in {"send_length", "send_data"} =>
                  \/ handler[k] \in {"send_length", "send_data"} /\ hand'[k] = hand[k]
                  \/ Acceptable(Encoded(hand'[k].resp))
<1>1. handler \in [Calls -> HandlerPlaces] /\ hand \in [Calls -> Items] /\ up \in [Calls -> Seq(Items)]
  BY Zenon DEF RpcInv, TypeOK
<1>2. ASSUME handler'[k] = handler[k], hand'[k] = hand[k] PROVE Holds
  BY <1>2, Zenon
<1>3. ASSUME UNCHANGED <<handler, hand>> PROVE Holds
  BY <1>2, <1>3, Zenon
<1>4. ASSUME NEW h \in Calls, NEW how, End(h, how) PROVE Holds
  BY <1>1, <1>2, <1>4, Zenon DEF End, Goto
<1>5. ASSUME NEW c \in Calls, NEW q \in Requests, send_command(c, q) PROVE Holds
  BY <1>3, <1>5, Zenon DEF send_command, serverVars
<1>6. ASSUME Client PROVE Holds
  BY <1>3, <1>6, Zenon DEF Client, connect, connect_fails, send_length, send_data, send_fails,
     receive_length, receive_data, receive_fails, exception, serverVars
<1>7. ASSUME NEW h \in Calls, Accept(h) PROVE Holds
  BY <1>1, <1>2, <1>7, Zenon DEF Accept, Goto
<1>8. ASSUME NEW h \in Calls, ReceiveLength(h) PROVE Holds
  <2>1. CASE End(h, "closed")
    BY <1>4, <2>1, Zenon
  <2>2. CASE hand' = [hand EXCEPT ![h] = Head(up[h])] /\ Goto(h, "receive_data")
    <3>1. \E j \in DOMAIN up[h] : Head(up[h]) = up[h][j]
      <4>1. up[h] \in Seq(Items) /\ up[h] # <<>>
        BY <1>1, <1>8, Zenon DEF ReceiveLength, Arrived
      <4> QED
        BY <4>1
    <3>2. Head(up[h]).type = "length"
      BY <1>8, Zenon DEF ReceiveLength, Arrived
    <3>3. hand'[h] = Head(up[h]) /\ handler'[h] = "receive_data"
      BY <1>1, <2>2, Zenon DEF Goto
    <3>4. k # h => hand'[k] = hand[k] /\ handler'[k] = handler[k]
      BY <1>1, <2>2, Zenon DEF Goto
    <3> QED
      BY <1>2, <3>1, <3>2, <3>3, <3>4, Zenon
  <2> QED
    BY <1>8, <2>1, <2>2, Zenon DEF ReceiveLength
<1>9. ASSUME NEW h \in Calls, NEW x \in Items, NEW r, hand' = [hand EXCEPT ![h] = [x EXCEPT !.resp = r]],
             \/ Goto(h, "dispatch")
             \/ Goto(h, "send_length") /\ Acceptable(Encoded(r))
      PROVE  Holds
  <2>1. [x EXCEPT !.resp = r].resp = r
    BY Zenon DEF Items
  <2>2. hand'[h].resp = r
    BY <1>1, <1>9, <2>1, Zenon
  <2>3. handler'[h] = "dispatch" \/ (handler'[h] = "send_length" /\ Acceptable(Encoded(r)))
    BY <1>1, <1>9, Zenon DEF Goto
  <2>4. k # h => hand'[k] = hand[k] /\ handler'[k] = handler[k]
    BY <1>1, <1>9, Zenon DEF Goto
  <2> QED
    BY <1>2, <2>2, <2>3, <2>4, Zenon
<1>10. ASSUME NEW h \in Calls, ReceiveData(h) PROVE Holds
  <2>1. PICK x, r : /\ x = Head(up[h]) /\ hand' = [hand EXCEPT ![h] = [x EXCEPT !.resp = r]]
                    /\ \/ Goto(h, "dispatch")
                       \/ Goto(h, "send_length") /\ r = Failure("server")
    BY <1>10, Zenon DEF ReceiveData
  <2>2. x \in Items
    <3>1. up[h] \in Seq(Items) /\ up[h] # <<>>
      BY <1>1, <1>10, Zenon DEF ReceiveData, Arrived
    <3> QED
      BY <2>1, <3>1
  <2>3. Acceptable(Encoded(Failure("server")))
    BY RpcConstants DEF Acceptable, Encoded, Failure
  <2> QED
    BY <1>9, <2>1, <2>2, <2>3, Zenon
<1>11. ASSUME NEW h \in Calls, Dispatch(h) PROVE Holds
  <2>1. CASE End(h, "closed")
    BY <1>4, <2>1, Zenon
  <2>2. ASSUME NEW r \in Outcomes(hand[h].call), Encoded(r) <= MaxMessage, Goto(h, "send_length"),
               hand' = [hand EXCEPT ![h] = [hand[h] EXCEPT !.resp = r]]
        PROVE  Holds
    <3>1. hand[h] \in Items /\ hand[h].call \in Calls
      BY <1>1, <1>11, Zenon DEF Dispatch, RpcInv, InHand, Active
    <3>2. r \in S!Responses
      BY <3>1, Reports, Zenon
    <3>3. Acceptable(Encoded(r))
      BY <2>2, <3>2, NoneApart DEF Acceptable, Encoded
    <3> QED
      BY <1>9, <2>2, <3>1, <3>3, Zenon
  <2> QED
    BY <1>11, <2>1, <2>2, Zenon DEF Dispatch
<1>12. ASSUME NEW h \in Calls, SendLength(h) PROVE Holds
  <2>1. handler[h] = "send_length" /\ handler'[h] = "send_data" /\ hand' = hand
    BY <1>1, <1>12, Zenon DEF SendLength, Goto
  <2>2. k # h => handler'[k] = handler[k]
    BY <1>1, <1>12, Zenon DEF SendLength, Goto
  <2> QED
    BY <1>2, <2>1, <2>2, Zenon
<1>13. ASSUME NEW h \in Calls, SendData(h) PROVE Holds
  <2>1. CASE End(h, "closed")
    BY <1>4, <2>1, Zenon
  <2>2. CASE Goto(h, "receive_length") /\ hand' = [hand EXCEPT ![h] = Nothing]
    BY <1>1, <1>2, <2>2, Zenon DEF Goto
  <2> QED
    BY <1>13, <2>1, <2>2, Zenon DEF SendData
<1>14. ASSUME NEW h \in Calls, Fails(h) \/ Throws(h) \/ Stop(h) PROVE Holds
  BY <1>3, <1>4, <1>14, Zenon DEF Fails, Throws, Stop
<1>15. Holds
  BY <1>3, <1>5, <1>6, <1>7, <1>8, <1>10, <1>11, <1>12, <1>13, <1>14, Zenon
     DEF Next, Handler, vars, serverVars
<1> QED
  BY <1>15, Zenon

\* What the lengths say stays true.
LEMMA LengthsStep ==
  ASSUME RpcInv, LengthsTrue, [Next]_vars
  PROVE  LengthsTrue'
<1> SUFFICES ASSUME NEW k \in Calls
             PROVE  /\ \A i \in DOMAIN up'[k] : up'[k][i].type = "length" =>
                          up'[k][i].n = request'[up'[k][i].call].size % LengthModulus
                    /\ handler'[k] = "receive_data" =>
                          hand'[k].n = request'[hand'[k].call].size % LengthModulus
                    /\ handler'[k] \in {"send_length", "send_data"} => Acceptable(Encoded(hand'[k].resp))
                    /\ \A i \in DOMAIN down'[k] : down'[k][i].type = "length" => Acceptable(down'[k][i].n)
  BY Zenon DEF LengthsTrue
<1>0. \A c, n : Length(c, n).call = c /\ Length(c, n).n = n
  BY Zenon DEF Length
<1>1. ASSUME NEW j \in DOMAIN up[k], up[k][j].type = "length"
      PROVE  up[k][j].n = request'[up[k][j].call].size % LengthModulus
  <2>1. up[k][j].call \in Calls /\ request[up[k][j].call] # None
    BY Zenon DEF RpcInv, UpStream, OnItsWay
  <2>2. request'[up[k][j].call] = request[up[k][j].call]
    BY <2>1, HistoryKept, Zenon
  <2>3. up[k][j].n = request[up[k][j].call].size % LengthModulus
    BY <1>1, Zenon DEF LengthsTrue
  <2> QED
    BY <2>2, <2>3, Zenon
<1>2. ASSUME NEW i \in DOMAIN up'[k], up'[k][i].type = "length"
      PROVE  up'[k][i].n = request'[up'[k][i].call].size % LengthModulus
  <2>1. ASSUME cur \in Calls, request[cur] # None,
               up'[k][i] = Length(cur, request[cur].size % LengthModulus)
        PROVE  up'[k][i].n = request'[up'[k][i].call].size % LengthModulus
    <3>1. up'[k][i].call = cur /\ up'[k][i].n = request[cur].size % LengthModulus
      BY <1>0, <2>1
    <3> QED
      BY <2>1, <3>1, HistoryKept, Zenon
  <2>2. ASSUME NEW j \in DOMAIN up[k], up'[k][i] = up[k][j]
        PROVE  up'[k][i].n = request'[up'[k][i].call].size % LengthModulus
    BY <1>1, <1>2, <2>2, Zenon
  <2> QED
    BY <1>2, <2>1, <2>2, LengthUpFrom, Zenon
<1>3. ASSUME handler'[k] = "receive_data"
      PROVE  hand'[k].n = request'[hand'[k].call].size % LengthModulus
  <2>1. ASSUME handler[k] = "receive_data", hand'[k] = hand[k]
        PROVE  hand'[k].n = request'[hand'[k].call].size % LengthModulus
    <3>1. hand[k].call \in Calls /\ request[hand[k].call] # None
      BY <2>1, Zenon DEF RpcInv, InHand, Active
    <3>2. request'[hand[k].call] = request[hand[k].call]
      BY <3>1, HistoryKept, Zenon
    <3>3. hand[k].n = request[hand[k].call].size % LengthModulus
      BY <2>1, Zenon DEF LengthsTrue
    <3> QED
      BY <2>1, <3>2, <3>3, Zenon
  <2>2. ASSUME NEW j \in DOMAIN up[k], up[k][j].type = "length", hand'[k] = up[k][j]
        PROVE  hand'[k].n = request'[hand'[k].call].size % LengthModulus
    BY <1>1, <2>2, Zenon
  <2> QED
    BY <1>3, <2>1, <2>2, HeldFrom, Zenon
<1>4. handler'[k] \in {"send_length", "send_data"} => Acceptable(Encoded(hand'[k].resp))
  <2>1. handler[k] \in {"send_length", "send_data"} => Acceptable(Encoded(hand[k].resp))
    BY Zenon DEF LengthsTrue
  <2> QED
    BY <2>1, HeldFrom, Zenon
<1>5. ASSUME NEW i \in DOMAIN down'[k], down'[k][i].type = "length"
      PROVE  Acceptable(down'[k][i].n)
  <2>1. ASSUME NEW j \in DOMAIN down[k], down'[k][i] = down[k][j] PROVE Acceptable(down'[k][i].n)
    <3>1. down[k][j].type = "length" => Acceptable(down[k][j].n)
      BY Zenon DEF LengthsTrue
    <3> QED
      BY <1>5, <2>1, <3>1, Zenon
  <2>2. ASSUME handler[k] = "send_length", down'[k][i] = Length(hand[k].call, Encoded(hand[k].resp))
        PROVE  Acceptable(down'[k][i].n)
    <3>1. Acceptable(Encoded(hand[k].resp))
      BY <2>2, Zenon DEF LengthsTrue
    <3>2. down'[k][i].n = Encoded(hand[k].resp)
      BY <1>0, <2>2, Zenon
    <3> QED
      BY <3>1, <3>2, Zenon
  <2> QED
    BY <1>5, <2>1, <2>2, LengthDownFrom, Zenon
<1> QED
  BY <1>2, <1>3, <1>4, <1>5, Zenon

\* A length that is not that of the request, or is refused, belongs to one that is too large.
LEMMA WrongLength ==
  ASSUME NEW n \in Nat \ {0}, n # n % LengthModulus \/ ~Acceptable(n % LengthModulus)
  PROVE  n > MaxMessage
<1>1. n <= MaxMessage => n % LengthModulus = n
  BY RpcConstants
<1> QED
  BY <1>1, RpcConstants DEF Acceptable

\* The server closes the client's connection, or decides to, with an excuse.
LEMMA ClosedFrom ==
  ASSUME RpcInv, LengthsTrue, [Next]_vars, NEW k \in Calls, conn' = k,
         server'[k] = "closed" \/ k \in ending'
  PROVE  Excused(k)' \/ (conn = k /\ (server[k] = "closed" \/ k \in ending))
<1> DEFINE Before == conn = k /\ (server[k] = "closed" \/ k \in ending)
<1>1. server \in [Calls -> {"none", "backlog", "open", "leaked", "closed"}]
  BY Zenon DEF RpcInv, TypeOK
<1>2. CASE UNCHANGED <<conn, server, ending>>
  BY <1>2, Zenon
<1>3. ASSUME NEW c \in Calls, request[c] # None, via[c] = k,
             \/ request[c].size # request[c].size % LengthModulus
             \/ ~Acceptable(request[c].size % LengthModulus)
      PROVE  Excused(k)'
  <2>1. request[c].size \in Nat \ {0}
    BY <1>3, RpcConstants DEF RpcInv, TypeOK
  <2>2. request[c].size > MaxMessage
    BY <1>3, <2>1, WrongLength
  <2> QED
    BY <1>3, <2>2, ExcusedStays, Zenon DEF Excused, TooLarge
<1>4. ASSUME NEW h \in Calls, Blame(h), UNCHANGED conn, UNCHANGED ending,
             \/ server' = [server EXCEPT ![h] = "closed"]
             \/ server' = [server EXCEPT ![h] = "leaked"]
      PROVE  Excused(k)' \/ Before
  <2>1. CASE h = k
    BY <1>4, <2>1, Zenon DEF Blame, Excused
  <2>2. CASE h # k
    <3>1. server'[k] = server[k]
      BY <1>1, <1>4, <2>2, Zenon
    <3> QED
      BY <1>4, <3>1, Zenon
  <2> QED
    BY <2>1, <2>2, Zenon
<1>5. ASSUME NEW c \in Calls, NEW q \in Requests, send_command(c, q) PROVE Before
  BY <1>2, <1>5, Zenon DEF send_command, serverVars
<1>6. ASSUME Client PROVE Before
  <2>1. CASE connect
    <3>1. cur = k /\ server' = [server EXCEPT ![k] = "backlog"] /\ ending' = ending /\ server[k] = "none"
      BY <2>1, Zenon DEF connect, RpcInv, ConnectionEnds
    <3>2. server'[k] # "closed"
      BY <1>1, <3>1, Zenon
    <3>3. k \notin ending
      BY <3>1, Zenon DEF RpcInv, ConnectionEnds
    <3> QED
      BY <3>1, <3>2, <3>3, Zenon
  <2>2. CASE UNCHANGED conn
    <3>1. CASE connect
      BY <2>1, <3>1, Zenon
    <3>2. CASE ~connect
      BY <1>2, <1>6, <2>2, <3>2, Zenon DEF Client, connect_fails, send_length, send_data, send_fails,
         receive_length, receive_data, receive_fails, exception, serverVars
    <3> QED
      BY <3>1, <3>2, Zenon
  <2>3. conn' # None
    BY NoneApart, Zenon
  <2>4. ~connect => UNCHANGED conn
    BY <1>6, <2>3, Zenon DEF Client, connect_fails, send_length, send_data, send_fails,
       receive_length, receive_data, receive_fails, exception, disconnect
  <2> QED
    BY <2>1, <2>2, <2>4, Zenon
<1>7. ASSUME NEW h \in Calls, Accept(h) PROVE Before
  <2>1. server'[k] = "closed" => server[k] = "closed"
    BY <1>1, <1>7, Zenon DEF Accept
  <2> QED
    BY <1>7, <2>1, Zenon DEF Accept, clientVars
<1>8. ASSUME NEW h \in Calls, ReceiveLength(h) PROVE Excused(k)' \/ Before
  <2>1. conn = k /\ ending' = ending
    BY <1>8, Zenon DEF ReceiveLength, clientVars
  <2>2. CASE server'[k] = server[k]
    BY <2>1, <2>2, Zenon
  <2>3. CASE server'[k] # server[k]
    <3>1. h = k /\ ~Acceptable(Head(up[k]).n)
      BY <1>1, <1>8, <2>3, Zenon DEF ReceiveLength, End
    <3>2. up[k] \in Seq(Items) /\ up[k] # <<>> /\ Head(up[k]).type = "length"
      BY <1>8, <3>1, Zenon DEF ReceiveLength, Arrived, RpcInv, TypeOK
    <3>3. PICK j \in DOMAIN up[k] : up[k][j] = Head(up[k])
      BY <3>2
    <3>4. PICK c : c = up[k][j].call
      BY Zenon
    <3>5. c \in Calls /\ request[c] # None /\ via[c] = k
      BY <3>4, Zenon DEF RpcInv, UpStream, OnItsWay
    <3>6. up[k][j].n = request[c].size % LengthModulus
      BY <3>2, <3>3, <3>4, Zenon DEF LengthsTrue
    <3> QED
      BY <1>3, <3>1, <3>3, <3>5, <3>6, Zenon
  <2> QED
    BY <2>2, <2>3, Zenon
<1>9. ASSUME NEW h \in Calls, ReceiveData(h) PROVE Excused(k)' \/ Before
  <2>1. conn = k /\ server' = server
    BY <1>9, Zenon DEF ReceiveData, clientVars
  <2>2. CASE k \notin ending' \/ k \in ending
    BY <2>1, <2>2, Zenon
  <2>3. CASE k \in ending' /\ k \notin ending
    <3>1. h = k /\ request[Head(up[k]).call].size # hand[k].n
      BY <1>9, <2>3, Zenon DEF ReceiveData
    <3>2. up[k] \in Seq(Items) /\ up[k] # <<>> /\ handler[k] = "receive_data"
      BY <1>9, <3>1, Zenon DEF ReceiveData, Arrived, RpcInv, TypeOK
    <3>3. PICK j \in DOMAIN up[k] : up[k][j] = Head(up[k])
      BY <3>2
    <3>4. up[k][j].call = cur /\ hand[k].call = cur
      BY <2>1, <3>2, Zenon DEF RpcInv, UpStream, OnItsWay, ClientStream, Active
    <3>5. cur \in Calls /\ request[cur] # None /\ via[cur] = k
      BY <3>2, <3>4, Zenon DEF RpcInv, InHand, Active
    <3>6. hand[k].n = request[cur].size % LengthModulus
      BY <3>2, <3>4, Zenon DEF LengthsTrue
    <3>7. request[cur].size # hand[k].n
      BY <3>1, <3>3, <3>4, Zenon
    <3> QED
      BY <1>3, <3>5, <3>6, <3>7, Zenon
  <2> QED
    BY <2>2, <2>3, Zenon
<1>10. ASSUME NEW h \in Calls, Dispatch(h) PROVE Excused(k)' \/ Before
  <2>1. conn = k /\ via' = via
    BY <1>10, Zenon DEF Dispatch, clientVars
  <2>2. CASE h # k
    <3>1. server'[k] = server[k] /\ (k \in ending' => k \in ending)
      BY <1>1, <1>10, <2>2, Zenon DEF Dispatch, End
    <3> QED
      BY <2>1, <3>1, Zenon
  <2>3. CASE h = k
    <3>1. PICK c \in Calls : c = hand[k].call /\ via[c] = k /\ runs[c] = <<>>
      BY <1>10, <2>3, Zenon DEF Dispatch, RpcInv, InHand, Active, Pending, PendingNotRun
    <3>2. CASE k \in ending' /\ k \notin ending
      BY <1>10, <2>1, <2>3, <3>2, Zenon DEF Dispatch, Blame, Excused
    <3>3. ASSUME NEW r, Encoded(r) > MaxMessage, runs' = [runs EXCEPT ![c] = Append(runs[c], r)]
          PROVE  Excused(k)'
      <4>1. runs'[c] = Append(<<>>, r)
        BY <3>1, <3>3, Zenon DEF RpcInv, TypeOK
      <4>2. runs'[c] # <<>> /\ runs'[c][1] = r
        BY <4>1
      <4>3. TooLarge(c)'
        BY <3>3, <4>2, Zenon DEF TooLarge, Encoded
      <4> QED
        BY <2>1, <3>1, <4>3, Zenon DEF Excused
    <3>4. CASE server' # server
      BY <1>10, <2>3, <3>1, <3>3, <3>4, Zenon DEF Dispatch
    <3> QED
      BY <2>1, <3>2, <3>4, Zenon
  <2> QED
    BY <2>2, <2>3, Zenon
<1>11. ASSUME NEW h \in Calls, SendLength(h) PROVE Before
  BY <1>2, <1>11, Zenon DEF SendLength, clientVars
<1>12. ASSUME NEW h \in Calls, SendData(h) PROVE Before
  <2>1. conn = k /\ ending' = ending
    BY <1>12, Zenon DEF SendData, clientVars
  <2>2. server'[k] = server[k] \/ k \in ending
    BY <1>1, <1>12, Zenon DEF SendData, End
  <2> QED
    BY <2>1, <2>2, Zenon
<1>13. ASSUME NEW h \in Calls, Fails(h) \/ Throws(h) \/ Stop(h) PROVE Excused(k)' \/ Before
  BY <1>4, <1>13, Zenon DEF Fails, Throws, Stop, End, clientVars
<1>14. CASE UNCHANGED vars
  BY <1>2, <1>14, Zenon DEF vars, clientVars, serverVars
<1> QED
  BY <1>5, <1>6, <1>7, <1>8, <1>9, <1>10, <1>11, <1>12, <1>13, <1>14, Zenon DEF Next, Handler

\* A call fails with an excuse.
LEMMA FailedFrom ==
  ASSUME RpcInv, LengthsTrue, BreaksExcused, [Next]_vars, NEW c \in Calls, response'[c] # None,
         response'[c].error \in {"not_sent", "unanswered", "rpc"}
  PROVE  via'[c] # None /\ Excused(via[c])'
<1> DEFINE Explained == via'[c] # None /\ Excused(via[c])'
<1>1. CASE response'[c] = response[c]
  <2>1. PICK k : k = via[c]
    BY Zenon
  <2>2. k # None /\ Excused(k)
    BY <1>1, <2>1, Zenon DEF BreaksExcused
  <2>3. k \in Calls /\ via'[c] = k
    BY <2>1, <2>2, HistoryKept, Zenon DEF RpcInv, TypeOK
  <2>4. Excused(k)'
    BY <2>2, <2>3, ExcusedStays, Zenon
  <2> QED
    BY <2>2, <2>3, <2>4, Zenon DEF Excused
<1>2. ASSUME NEW r, Return(r), response'[c] # response[c] PROVE c = cur /\ response'[c] = r
  BY <1>2, Zenon DEF Return, RpcInv, TypeOK
<1>3. ASSUME place \notin {"idle", "connect"} PROVE conn \in Calls /\ via[cur] = conn
  BY <1>3, NoneApart, Zenon DEF RpcInv, TypeOK, CallsInOrder
<1>4. ASSUME NEW e, place \notin {"idle", "connect"}, Return(Failure(e)), Broken \/ conn \in fault',
             response'[c] # response[c]
      PROVE  Explained
  <2>1. c = cur /\ conn \in Calls /\ via[c] = conn /\ via' = via
    BY <1>2, <1>3, <1>4, Zenon DEF Return
  <2>2. PICK k \in Calls : k = conn
    BY <2>1, Zenon
  <2>3. Excused(k)'
    <3>1. CASE k \in fault'
      BY <3>1, Zenon DEF Excused
    <3>2. CASE server[k] = "closed"
      BY <2>2, <3>2, ExcusedStays, Zenon DEF BreaksExcused
    <3> QED
      BY <1>4, <2>2, <3>1, <3>2, Zenon DEF Broken
  <2>4. via'[c] = k
    BY <2>1, <2>2, Zenon
  <2> QED
    BY <2>3, <2>4, NoneApart, Zenon DEF Excused
<1>5. ASSUME NEW b \in Calls, NEW q \in Requests, send_command(b, q) PROVE response' = response
  BY <1>5, Zenon DEF send_command
<1>6. ASSUME Client, response'[c] # response[c] PROVE Explained
  <2>1. CASE connect \/ send_length \/ send_data
    BY <1>6, <2>1, Zenon DEF connect, send_length, send_data
  <2>2. CASE connect_fails
    <3>1. response'[c] = Failure("not_connected")
      BY <1>2, <1>6, <2>2, Zenon DEF connect_fails
    <3>2. Failure("not_connected").error = "not_connected"
      BY Zenon DEF Failure
    <3> QED
      BY <3>1, <3>2
  <2>3. CASE send_fails
    BY <1>4, <1>6, <2>3, Zenon DEF send_fails
  <2>4. CASE receive_fails
    BY <1>4, <1>6, <2>4, Zenon DEF receive_fails
  <2>5. CASE exception
    BY <1>4, <1>6, <2>5, Zenon DEF exception
  <2>6. CASE receive_length
    <3>1. conn \in Calls /\ down[conn] \in Seq(Items) /\ down[conn] # <<>>
          /\ Head(down[conn]).type = "length"
      BY <1>3, <2>6, Zenon DEF receive_length, Arrived, RpcInv, TypeOK
    <3>2. PICK j \in DOMAIN down[conn] : down[conn][j] = Head(down[conn])
      BY <3>1
    <3>3. Acceptable(Head(down[conn]).n)
      BY <3>1, <3>2, Zenon DEF LengthsTrue
    <3> QED
      BY <1>6, <2>6, <3>3, Zenon DEF receive_length
  <2>7. CASE receive_data
    <3>1. conn \in Calls /\ down[conn] \in Seq(Items) /\ down[conn] # <<>>
          /\ Head(down[conn]).type = "data"
      BY <1>3, <2>7, Zenon DEF receive_data, Arrived, RpcInv, TypeOK
    <3>2. PICK j \in DOMAIN down[conn] : down[conn][j] = Head(down[conn])
      BY <3>1
    <3>3. Truth(cur, Head(down[conn]).resp)
      BY <3>1, <3>2, Zenon DEF RpcInv, DownStream
    <3>4. response'[c] = Head(down[conn]).resp
      BY <1>2, <1>6, <2>7, Zenon DEF receive_data
    <3>5. response'[c].error \in {"none", "server"}
      BY <3>3, <3>4, Zenon DEF Truth
    <3> QED
      BY <3>5
  <2> QED
    BY <1>6, <2>1, <2>2, <2>3, <2>4, <2>5, <2>6, <2>7, Zenon DEF Client
<1>7. ASSUME NEW h \in Calls, Handler(h) \/ Stop(h) PROVE response' = response
  BY <1>7, Zenon DEF Handler, Accept, ReceiveLength, ReceiveData, Dispatch, SendLength, SendData,
     Fails, Throws, Stop, clientVars
<1>8. CASE UNCHANGED vars
  BY <1>1, <1>8, Zenon DEF vars, clientVars
<1> QED
  BY <1>1, <1>5, <1>6, <1>7, <1>8, Zenon DEF Next

\* FailuresExplained: a call fails, other than because it could not connect, only when a
\* timeout, the network, stop() or a lack of memory has broken its connection, or a message
\* on it was too large, for any number of calls and any sizes: neither side loses its place
\* in the stream or closes a connection by itself.
THEOREM FailuresHaveCauses == Spec => []FailuresExplained
<1> DEFINE Causes == LengthsTrue /\ BreaksExcused
<1>1. Init => Causes
  <2> SUFFICES ASSUME Init PROVE Causes
    BY Zenon
  <2>1. \A c \in Calls : response[c] = None /\ conn # c
    BY NoneApart, Zenon DEF Init
  <2>2. \A i \in DOMAIN <<>> : FALSE
    OBVIOUS
  <2>3. \A k \in Calls : up[k] = <<>> /\ down[k] = <<>> /\ handler[k] = "none"
    BY Zenon DEF Init
  <2> QED
    BY <2>1, <2>2, <2>3, Zenon DEF LengthsTrue, BreaksExcused
<1>2. RpcInv /\ Causes /\ [Next]_vars => Causes'
  <2> SUFFICES ASSUME RpcInv, LengthsTrue, BreaksExcused, [Next]_vars PROVE BreaksExcused'
    BY LengthsStep, Zenon
  <2>1. ASSUME NEW k \in Calls, conn' = k, server'[k] = "closed" \/ k \in ending'
        PROVE  Excused(k)'
    <3>1. conn = k /\ (server[k] = "closed" \/ k \in ending) => Excused(k)
      BY Zenon DEF BreaksExcused
    <3> QED
      BY <2>1, <3>1, ClosedFrom, ExcusedStays, Zenon
  <2> QED
    BY <2>1, FailedFrom, Zenon DEF BreaksExcused
<1>3. RpcInv /\ Causes => FailuresExplained
  BY Zenon DEF BreaksExcused, Excused, FailuresExplained
<1> QED
  BY <1>1, <1>2, <1>3, RpcInvHolds, PTL DEF Spec
=============================================================================
