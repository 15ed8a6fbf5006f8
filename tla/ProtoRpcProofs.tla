--------------------------- MODULE ProtoRpcProofs ---------------------------
(***************************************************************************)
(* Requests between two endpoints, for any requests, types, retries and     *)
(* session losses: a request is handled only by the other end, and no more  *)
(* often than it was sent.                                                  *)
(***************************************************************************)
EXTENDS ProtoRpc, SequenceTheorems, TLAPS

\* What the proof needs of the types.
RpcTypes ==
    /\ up \in BOOLEAN
    /\ net \in [End -> Seq(Message)]
    /\ table \subseteq Request
    /\ future \in [Request -> {"none", "open", "value", "exception"}]
    /\ stage \in [Request -> Stage]
    /\ sends \in [Request -> Nat]
    /\ handled \in [End -> [Request -> Nat]]

\* Request r, not an answer to it, is in the queue q; no request is there twice.
Asks(q, r) == \E k \in DOMAIN q : q[k].id = r /\ q[k].mask # DO_SUCCESS
AsksOnce(q) ==
    \A j, k \in DOMAIN q :
        q[j].mask # DO_SUCCESS /\ q[k].mask # DO_SUCCESS /\ q[j].id = q[k].id => j = k

\* A request on the wire goes to the other end, has been sent once more than it
\* was handled there, and is not about to be sent again.
Underway(e, r) ==
    /\ e = Other(OwnerOf[r])
    /\ handled[e][r] < sends[r]
    /\ stage[r] \notin {"new", "retry"} /\ future[r] # "exception"

\* The inductive invariant.  Without a session nothing is on the wire: a retry
\* after a loss never meets the request it repeats.
RpcInv ==
    /\ RpcTypes
    /\ ~up => \A e \in End : net[e] = <<>>
    /\ \A e \in End : AsksOnce(net[e])
    /\ \A e \in End, r \in Request : Asks(net[e], r) => Underway(e, r)
    /\ HandledBySending

-----------------------------------------------------------------------------
(* Queues. *)

\* The two ends.
LEMMA Ends ==
    \A e \in End : Other(e) \in End /\ Other(e) # e /\ Other(Other(e)) = e
BY DEF End, Other

\* Taking the first message.
LEMMA Taken ==
    ASSUME NEW q \in Seq(Message), q # <<>>
    PROVE  /\ Tail(q) \in Seq(Message) /\ Head(q) \in Message
           /\ \A r \in Request : Asks(Tail(q), r) => Asks(q, r)
           /\ Head(q).mask # DO_SUCCESS => Asks(q, Head(q).id)
           /\ AsksOnce(q) =>
                 /\ AsksOnce(Tail(q))
                 /\ Head(q).mask # DO_SUCCESS => ~Asks(Tail(q), Head(q).id)
<1>1. /\ Tail(q) \in Seq(Message) /\ Head(q) \in Message /\ Head(q) = q[1]
      /\ Len(q) \in Nat /\ DOMAIN q = 1..Len(q) /\ 1 \in DOMAIN q
      /\ DOMAIN Tail(q) = 1..(Len(q) - 1)
      /\ \A k \in DOMAIN Tail(q) : k + 1 \in DOMAIN q /\ Tail(q)[k] = q[k + 1]
  OBVIOUS
<1>2. QED
  BY <1>1 DEF Asks, AsksOnce

\* Adding a message.
LEMMA Added ==
    ASSUME NEW q \in Seq(Message), NEW m \in Message
    PROVE  /\ Append(q, m) \in Seq(Message)
           /\ \A r \in Request : Asks(Append(q, m), r) => Asks(q, r) \/ (r = m.id /\ m.mask # DO_SUCCESS)
           /\ AsksOnce(q) /\ (m.mask = DO_SUCCESS \/ ~Asks(q, m.id)) => AsksOnce(Append(q, m))
<1> DEFINE p == Append(q, m)
<1>1. /\ p \in Seq(Message) /\ Len(q) \in Nat /\ DOMAIN q = 1..Len(q)
      /\ DOMAIN p = 1..(Len(q) + 1) /\ p[Len(q) + 1] = m
      /\ \A k \in DOMAIN q : p[k] = q[k]
  OBVIOUS
<1> HIDE DEF p
<1>2. \A k \in DOMAIN p : \/ k \in DOMAIN q /\ p[k] = q[k]
                          \/ k = Len(q) + 1 /\ p[k] = m
  BY <1>1
<1>3. QED
  BY <1>1, <1>2 DEF Asks, AsksOnce, p

-----------------------------------------------------------------------------
(* Actions. *)

\* Sending a request, first or again.
LEMMA SendSteps ==
    ASSUME RpcInv, NEW r \in Request, stage[r] \in {"new", "retry"}, NEW left,
           SendAsyncRequest(r, left)
    PROVE  RpcInv'
<1> DEFINE o == Other(OwnerOf[r])
           m == [id |-> r, mask |-> TypeOf[r]]
<1>1. RpcTypes /\ o \in End /\ UNCHANGED <<up, handled>>
  BY Ends, RpcAssumption DEF RpcInv, SendAsyncRequest
<1>2. CASE up
  <2>1. /\ net' = [net EXCEPT ![o] = Append(@, m)]
        /\ table' = table \cup {r}
        /\ future' = [future EXCEPT ![r] = "open"]
        /\ stage' = [stage EXCEPT ![r] = "sent"]
        /\ sends' = [sends EXCEPT ![r] = @ + 1]
    BY <1>2 DEF SendAsyncRequest
  <2>2. m \in Message /\ m.id = r /\ m.mask # DO_SUCCESS
    BY RpcAssumption DEF Message
  <2> HIDE DEF m
  <2>3. ~Asks(net[o], r) /\ AsksOnce(net[o]) /\ net[o] \in Seq(Message)
    BY <1>1 DEF RpcInv, Underway, RpcTypes
  <2>4. /\ Append(net[o], m) \in Seq(Message) /\ AsksOnce(Append(net[o], m))
        /\ \A x \in Request : Asks(Append(net[o], m), x) => Asks(net[o], x) \/ x = r
    BY <2>2, <2>3, Added
  <2>5. \A e \in End : net'[e] = IF e = o THEN Append(net[o], m) ELSE net[e]
    BY <1>1, <2>1 DEF RpcTypes
  <2>6. RpcTypes'
    BY <1>1, <2>1, <2>4 DEF RpcTypes, Stage
  <2>7. \A e \in End : AsksOnce(net'[e])
    BY <2>4, <2>5 DEF RpcInv
  <2>8. HandledBySending'
    BY SMTT(30), <1>1, <2>1, Ends, RpcAssumption DEF RpcInv, HandledBySending, RpcTypes
  <2>9. ASSUME NEW e \in End, NEW x \in Request, Asks(net'[e], x)
        PROVE  Underway(e, x)'
    <3>1. CASE e = o /\ x = r
      <4>1. handled[o][r] <= sends[r] /\ handled[o][r] \in Nat /\ sends[r] \in Nat
        BY <1>1 DEF RpcInv, HandledBySending, RpcTypes
      <4>2. handled'[o][r] < sends'[r]
        BY <1>1, <2>1, <4>1 DEF RpcTypes
      <4>3. stage'[r] = "sent" /\ future'[r] = "open"
        BY <1>1, <2>1 DEF RpcTypes
      <4>4. QED
        BY <3>1, <4>2, <4>3 DEF Underway
    <3>2. CASE ~(e = o /\ x = r)
      <4>1. Asks(net[e], x)
        BY <2>4, <2>5, <2>9, <3>2
      <4>2. Underway(e, x) /\ x # r
        BY <4>1 DEF RpcInv, Underway
      <4>3. QED
        BY <1>1, <2>1, <4>2 DEF Underway, RpcTypes
    <3>3. QED
      BY <3>1, <3>2
  <2>10. QED
    BY <1>1, <1>2, <2>6, <2>7, <2>8, <2>9 DEF RpcInv, Asks, AsksOnce
<1>3. CASE ~up
  <2>1. UNCHANGED <<net, table, future, sends>> /\ stage' = [stage EXCEPT ![r] = Unsent(left)]
    BY <1>3 DEF SendAsyncRequest
  <2>2. \A e \in End, x \in Request : ~Asks(net'[e], x)
    BY <1>3, <2>1 DEF RpcInv, Asks
  <2>3. RpcTypes'
    BY <1>1, <2>1 DEF RpcTypes, Stage, Unsent
  <2>4. HandledBySending'
    BY <1>1, <2>1 DEF RpcInv, HandledBySending
  <2>5. QED
    BY <1>1, <1>3, <2>1, <2>2, <2>3, <2>4 DEF RpcInv, Asks, AsksOnce
<1>4. QED
  BY <1>2, <1>3

\* A step that leaves the wire and the counts alone, sends no request back to
\* the start that is on the wire and breaks no promise.
LEMMA LocalSteps ==
    ASSUME RpcInv, UNCHANGED <<up, net, sends, handled>>, RpcTypes',
           \A x \in Request :
               /\ stage'[x] \in {"new", "retry"} => stage[x] \in {"new", "retry"} \/ future[x] = "exception"
               /\ future'[x] = "exception" => future[x] = "exception"
    PROVE  RpcInv'
BY DEF RpcInv, Underway, HandledBySending, Asks, AsksOnce

\* Handling a message: a request is handled by the end it was meant for, and is
\* off the wire; an answer leaves the counts alone.
LEMMA ReceiveSteps ==
    ASSUME RpcInv, NEW e \in End, OnReceive(e)
    PROVE  RpcInv'
<1> DEFINE o == Other(e)
           m == Head(net[e])
           answers == OwnerOf[m.id] = e /\ m.id \in table
           request == ~answers /\ m.mask \in Type
<1>1. /\ RpcTypes /\ o \in End /\ o # e /\ Other(o) = e
      /\ net[e] \in Seq(Message) /\ net[o] \in Seq(Message) /\ net[e] # <<>>
  BY SMTT(30), Ends DEF RpcInv, RpcTypes, OnReceive
<1>2. /\ Tail(net[e]) \in Seq(Message) /\ AsksOnce(Tail(net[e]))
      /\ \A r \in Request : Asks(Tail(net[e]), r) => Asks(net[e], r)
      /\ m \in Message
      /\ m.mask # DO_SUCCESS => Asks(net[e], m.id) /\ ~Asks(Tail(net[e]), m.id)
  BY <1>1, Taken DEF RpcInv
<1>3. m.id \in Request /\ (m.mask \in Type => m.mask # DO_SUCCESS)
  BY <1>2, RpcAssumption DEF Message
<1>4. UNCHANGED <<up, stage, sends>> /\ up
  BY <1>1 DEF OnReceive, RpcInv
<1>5. /\ table' = IF answers THEN table \ {m.id} ELSE table
      /\ future' = IF answers THEN [future EXCEPT ![m.id] = "value"] ELSE future
      /\ handled' = IF request THEN [handled EXCEPT ![e][m.id] = @ + 1] ELSE handled
      /\ net' = [net EXCEPT ![e] = Tail(@),
                            ![Other(e)] = IF request /\ up THEN Append(@, Reply(m)) ELSE @]
  BY DEF OnReceive
<1>6. request => Underway(e, m.id) /\ ~Asks(Tail(net[e]), m.id)
  BY <1>2, <1>3 DEF RpcInv
<1>7. Reply(m) \in Message /\ Reply(m).mask = DO_SUCCESS
  BY <1>3 DEF Reply, Message
<1> HIDE DEF m, request, answers
<1>8. /\ net' \in [End -> Seq(Message)]
      /\ net'[e] = Tail(net[e])
      /\ net'[o] = net[o] \/ net'[o] = Append(net[o], Reply(m))
      /\ \A x \in End : x = e \/ x = o
  <2>1. Append(net[o], Reply(m)) \in Seq(Message)
    BY <1>1, <1>7, Added
  <2>2. \A x \in End : x = e \/ x = o
    BY DEF End, Other
  <2>3. QED
    BY Zenon, <1>1, <1>2, <1>5, <2>1, <2>2 DEF RpcTypes
<1>9. /\ AsksOnce(net'[o]) /\ AsksOnce(net'[e])
      /\ \A r \in Request : Asks(net'[o], r) => Asks(net[o], r)
  <2>1. /\ AsksOnce(Append(net[o], Reply(m)))
        /\ \A r \in Request : Asks(Append(net[o], Reply(m)), r) => Asks(net[o], r)
    BY <1>1, <1>7, Added DEF RpcInv
  <2>2. AsksOnce(net[o])
    BY <1>1 DEF RpcInv
  <2>3. QED
    BY Zenon, <1>2, <1>8, <2>1, <2>2
<1>10. RpcTypes'
  <2>1. up' \in BOOLEAN /\ stage' \in [Request -> Stage] /\ sends' \in [Request -> Nat]
    BY <1>1, <1>4 DEF RpcTypes
  <2>2. table' \subseteq Request
        /\ future' \in [Request -> {"none", "open", "value", "exception"}]
    BY <1>1, <1>3, <1>5 DEF RpcTypes
  <2>3. handled' \in [End -> [Request -> Nat]]
    <3>1. handled \in [End -> [Request -> Nat]]
      BY <1>1 DEF RpcTypes
    <3>2. [handled[e] EXCEPT ![m.id] = @ + 1] \in [Request -> Nat]
      BY <1>3, <3>1
    <3>3. QED
      BY <1>5, <3>1, <3>2
  <2>4. QED
    BY <1>8, <2>1, <2>2, <2>3 DEF RpcTypes
<1>11. ASSUME NEW x \in End, NEW r \in Request, ~(request /\ x = e /\ r = m.id)
       PROVE  handled'[x][r] = handled[x][r]
  BY <1>1, <1>3, <1>5, <1>11 DEF RpcTypes
<1>12. \A r \in Request : future'[r] = "exception" => future[r] = "exception"
  BY <1>1, <1>3, <1>5 DEF RpcTypes
<1>13. ASSUME NEW x \in End, NEW r \in Request, Asks(net'[x], r)
       PROVE  Underway(x, r)'
  <2>1. Asks(net[x], r) /\ ~(request /\ x = e /\ r = m.id)
    BY Zenon, <1>2, <1>6, <1>8, <1>9, <1>13, <1>1
  <2>2. Underway(x, r)
    BY <2>1 DEF RpcInv
  <2>3. QED
    BY <1>4, <1>11, <1>12, <2>1, <2>2 DEF Underway
<1>14. HandledBySending'
  <2> SUFFICES ASSUME NEW r \in Request
               PROVE  /\ handled'[OwnerOf[r]][r] = 0
                      /\ handled'[Other(OwnerOf[r])][r] <= sends'[r]
    BY DEF HandledBySending
  <2>1. /\ handled[OwnerOf[r]][r] = 0 /\ handled[Other(OwnerOf[r])][r] <= sends[r]
        /\ OwnerOf[r] \in End /\ Other(OwnerOf[r]) \in End /\ OwnerOf[r] # Other(OwnerOf[r])
    BY Ends, RpcAssumption DEF RpcInv, HandledBySending
  <2>2. CASE ~(request /\ r = m.id)
    BY <1>4, <1>11, <2>1, <2>2
  <2>3. CASE request /\ r = m.id
    <3>1. e = Other(OwnerOf[r]) /\ handled[e][r] < sends[r]
      BY <1>6, <2>3 DEF Underway
    <3>2. handled'[e][r] = handled[e][r] + 1 /\ handled[e][r] \in Nat /\ sends[r] \in Nat
      BY <1>1, <1>5, <2>3 DEF RpcTypes
    <3>3. handled'[OwnerOf[r]][r] = 0
      BY <1>11, <2>1, <3>1
    <3>4. QED
      BY <1>4, <3>1, <3>2, <3>3
  <2>4. QED
    BY <2>2, <2>3
<1>15. /\ (~up => \A x \in End : net[x] = <<>>)'
       /\ (\A x \in End : AsksOnce(net[x]))'
       /\ (\A x \in End, r \in Request : Asks(net[x], r) => Underway(x, r))'
  <2>1. up'
    BY <1>4
  <2>2. \A x \in End : AsksOnce(net'[x])
    BY Zenon, <1>8, <1>9
  <2>3. \A x \in End, r \in Request : Asks(net'[x], r) => Underway(x, r)'
    BY <1>13
  <2>4. QED
    BY <2>1, <2>2, <2>3 DEF AsksOnce, Asks
<1>16. QED
  BY <1>10, <1>14, <1>15 DEF RpcInv

\* Losing the session, and a new handshake while nothing is on the wire.
LEMMA SessionSteps ==
    ASSUME RpcInv, Drop \/ OnHandshaked
    PROVE  RpcInv'
<1>1. /\ \A e \in End : net'[e] = <<>>
      /\ net' \in [End -> Seq(Message)] /\ UNCHANGED <<stage, sends, handled>>
  <2>1. net \in [End -> Seq(Message)]
    BY DEF RpcInv, RpcTypes
  <2>2. CASE Drop
    <3>1. net' = [e \in End |-> <<>>] /\ UNCHANGED <<stage, sends, handled>>
      BY <2>2 DEF Drop
    <3>2. <<>> \in Seq(Message)
      OBVIOUS
    <3>3. QED
      BY <3>1, <3>2
  <2>3. CASE OnHandshaked
    BY <2>1, <2>3 DEF OnHandshaked, RpcInv
  <2>4. QED
    BY <2>2, <2>3
<1>2. RpcTypes'
  BY Zenon, <1>1 DEF RpcInv, RpcTypes, Drop, OnHandshaked
<1>3. HandledBySending'
  BY <1>1 DEF RpcInv, HandledBySending
<1>4. \A e \in End, r \in Request : ~Asks(net'[e], r) /\ AsksOnce(net'[e])
  BY <1>1 DEF Asks, AsksOnce
<1>5. QED
  BY <1>1, <1>2, <1>3, <1>4 DEF RpcInv, Asks, AsksOnce

\* Filing the future: only a broken promise sends the request back to retry.
LEMMA FileSteps ==
    ASSUME RpcInv, NEW r \in Request, FileFuture(r)
    PROVE  RpcInv'
<1>1. UNCHANGED <<up, net, sends, handled, table, future>>
  BY DEF FileFuture
<1>2. RpcTypes'
  BY Zenon, <1>1 DEF RpcInv, RpcTypes, FileFuture, Stage, Unsent
<1>3. \A x \in Request :
          stage'[x] \in {"new", "retry"} => stage[x] \in {"new", "retry"} \/ future[x] = "exception"
  BY DEF RpcInv, RpcTypes, FileFuture
<1>4. QED
  BY <1>1, <1>2, <1>3, LocalSteps

\* The thread that waits for an answer never starts a request again.
LEMMA ThreadSteps ==
    ASSUME RpcInv, NEW r \in Request, Thread(r)
    PROVE  RpcInv'
<1>1. UNCHANGED <<up, net, sends, handled>>
  BY DEF Thread, TakeFuture, GetResponse, GiveUp, ReleaseExpired
<1>2. stage' = [stage EXCEPT ![r] = "done"] \/ stage' = [stage EXCEPT ![r] = "waiting"]
         \/ stage' = [stage EXCEPT ![r] = "expired"]
  BY DEF Thread, TakeFuture, GetResponse, GiveUp, ReleaseExpired
<1>3. /\ table' \subseteq table
      /\ \/ future' = future
         \/ took[r] \in Request /\ future' = [future EXCEPT ![took[r]] = "value"]
  BY DEF RpcInv, RpcTypes, Thread, TakeFuture, GetResponse, GiveUp, ReleaseExpired
<1>4. RpcTypes'
  BY Zenon, <1>1, <1>2, <1>3 DEF RpcInv, RpcTypes, Stage
<1>5. \A x \in Request :
          /\ stage'[x] \in {"new", "retry"} => stage[x] \in {"new", "retry"}
          /\ future'[x] = "exception" => future[x] = "exception"
  BY <1>2, <1>3 DEF RpcInv, RpcTypes
<1>6. QED
  BY <1>1, <1>4, <1>5, LocalSteps

\* The inductive invariant: nothing is on the wire without a session, and a
\* request is on the wire at most once, on its way to the other end.
THEOREM RpcInvariance == Spec => []RpcInv
<1>1. Init => RpcInv
  <2> SUFFICES ASSUME Init PROVE RpcInv
    OBVIOUS
  <2>1. /\ \A e \in End : net[e] = <<>>
        /\ \A r \in Request : handled[OwnerOf[r]][r] = 0
                           /\ handled[Other(OwnerOf[r])][r] = 0 /\ sends[r] = 0
    BY Ends, RpcAssumption DEF Init
  <2>2. RpcTypes
    BY DEF Init, RpcTypes, Stage
  <2>3. QED
    BY <2>1, <2>2 DEF RpcInv, HandledBySending, Asks, AsksOnce
<1>2. RpcInv /\ [Next]_vars => RpcInv'
  <2> SUFFICES ASSUME RpcInv, [Next]_vars PROVE RpcInv'
    OBVIOUS
  <2>1. ASSUME NEW r \in Request, SendRpcRequest(r) \/ RetryTimer(r)
        PROVE  RpcInv'
    BY <2>1, SendSteps DEF SendRpcRequest, RetryTimer
  <2>2. ASSUME NEW r \in Request, FileFuture(r)
        PROVE  RpcInv'
    BY <2>2, FileSteps
  <2>3. ASSUME NEW r \in Request, Thread(r)
        PROVE  RpcInv'
    BY <2>3, ThreadSteps
  <2>4. ASSUME NEW e \in End, OnReceive(e)
        PROVE  RpcInv'
    BY <2>4, ReceiveSteps
  <2>5. CASE Drop \/ OnHandshaked
    BY <2>5, SessionSteps
  <2>6. CASE UNCHANGED vars
    BY <2>6 DEF vars, RpcInv, RpcTypes, HandledBySending, Underway, Asks, AsksOnce
  <2>7. QED
    BY <2>1, <2>2, <2>3, <2>4, <2>5, <2>6 DEF Next
<1>3. QED
  BY <1>1, <1>2, PTL DEF Spec

\* A request is handled only by the end it was sent to and no more often than
\* it was sent, for any requests, types, retries and losses of the session.
THEOREM HandledNoMoreThanSent == Spec => []HandledBySending
<1>1. RpcInv => HandledBySending
  BY DEF RpcInv
<1>2. QED
  BY <1>1, RpcInvariance, PTL
=============================================================================
