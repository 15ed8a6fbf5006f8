------------------------ MODULE TunnelManagerProofs ------------------------
(***************************************************************************)
(* The tunnel's control plane for any services, stream ids, retries, losses *)
(* and calls: no tunnel without a peer, no accepted stream without its      *)
(* forward, and no stream that is ready before its own OPEN was handled.    *)
(***************************************************************************)
EXTENDS TunnelManagerLemmas

-----------------------------------------------------------------------------
(* onTunnelMessage. *)

\* Handling an event keeps the invariant.
LEMMA HandleSteps ==
    ASSUME TunnelInv, NEW e \in End, Handle(e)
    PROVE  TunnelInv'
<1> DEFINE f == Head(inbox[e])
           q == Tail(inbox[e])
           Rest == UNCHANGED <<link, services, opens, drawn, losses, stops>>
<1>1. inbox[e] # <<>> /\ inbox[e] \in Seq(Message) /\ Rest
  BY SMTT(30) DEF Handle, Ignore, HandleOpen, HandleOpenAck, HandleData, HandleClose, OnPeerDisconnected,
         Receives, TunnelInv, Types, QueuesOK
<1>2. LeftOf(e, q)
  BY <1>1 DEF LeftOf
<1>3. /\ q \in Seq(Message) /\ f \in Message
      /\ f.mask = "OPEN_ACK" => HasAck(inbox[e], f.token)
      /\ f.mask = "OPEN" => ~HasOpen(q, f.token)
      /\ f.mask = "OPEN" => HasOpen(inbox[e], f.token)
  <2>1. OpensOnce(inbox[e])
    BY DEF TunnelInv, Tokens
  <2>2. f.mask = "OPEN" => HasOpen(inbox[e], f.token)
    BY <1>1 DEF HasOpen
  <2>3. QED
    BY SMTT(30), <1>1, <2>1, <2>2, TailOfQueue
<1>4. [inbox EXCEPT ![e] = Tail(@)] = Sent(e, q, <<>>) /\ <<>> \in Seq(Message) /\ Answering(q, <<>>)
  <2>1. Answering(q, <<>>)
    BY DEF Answering, HasAck
  <2>2. QED
    BY Zenon, <1>1, <2>1, Takes DEF TunnelInv, Types
<1>5. f.mask # "LOST" => /\ f.id \in Id /\ f.token \in Token /\ f.service \in Service \cup {None}
                         /\ f.ok \in BOOLEAN
  BY <1>3 DEF Message, Frame, Lost
<1>6. f.mask \in {"OPEN", "OPEN_ACK"} => f.token <= opens
  BY <1>3, <1>5 DEF TunnelInv, Tokens, Given
<1>7. f.mask = "OPEN_ACK" => ~HasOpen(inbox[Other(e)], f.token)
  <2>1. Other(e) \in End /\ Other(Other(e)) = e
    BY Ends
  <2>2. QED
    BY SMTT(30), <1>3, <1>5, <2>1 DEF TunnelInv, Tokens, Unanswered
<1>8. ASSUME NEW I \in SUBSET Id, streams' = Without(e, I) \/ streams' = streams,
             inbox' = [inbox EXCEPT ![e] = Tail(@)], UNCHANGED <<peer, forwards>>
      PROVE  TunnelInv'
  BY Zenon, <1>1, <1>2, <1>4, <1>8, DestroyStep
<1>9. CASE Ignore(e)
  BY Zenon, <1>8, <1>9 DEF Ignore
<1>10. CASE HandleData(e)
  BY Zenon, <1>8, <1>10 DEF HandleData
<1>11. CASE HandleClose(e)
  <2>1. f.mask = "CLOSE" /\ {f.id} \in SUBSET Id
    BY <1>5, <1>11 DEF HandleClose, Receives
  <2>2. QED
    BY <1>8, <1>11, <2>1 DEF HandleClose
<1>12. CASE OnPeerDisconnected(e)
  <2>1. /\ StreamsOK'
        /\ \A x \in End, i \in Id : Has(x, i)' => Has(x, i) /\ streams'[x][i] = streams[x][i]
        /\ \A x \in End, t \in Token : /\ Dialed(x, t)' => Dialed(x, t)
                                       /\ ReadyAt(x, t)' => ReadyAt(x, t)
        /\ \A i \in Id : ~Has(e, i)'
    BY <1>12, Destroys DEF OnPeerDisconnected, TunnelInv, Types
  <2>2. QueuesOK' /\ Tokens'
    BY Zenon, <1>1, <1>2, <1>4, <1>12, <2>1, SendsNoOpen DEF OnPeerDisconnected, TunnelInv, Types, Answering
  <2>3. ForwardsOK'
    BY SMTT(30), <1>12, FS_EmptySet, TunnelAssumption DEF OnPeerDisconnected, TunnelInv, Types, ForwardsOK
  <2>4. OthersOK'
    BY <1>1, <1>12 DEF OnPeerDisconnected, TunnelInv, Types, OthersOK
  <2>5. /\ peer' = [peer EXCEPT ![e] = FALSE] /\ forwards' = [forwards EXCEPT ![e] = {}]
        /\ peer \in [End -> BOOLEAN] /\ forwards \in [End -> SUBSET Service]
    BY <1>12 DEF OnPeerDisconnected, TunnelInv, Types, ForwardsOK, OthersOK
  <2>6. NoPeerNoTunnel' /\ AcceptedHasForward'
    BY <2>1, <2>5 DEF TunnelInv, NoPeerNoTunnel, AcceptedHasForward
  <2>7. QED
    BY SMTT(30), <2>1, <2>2, <2>3, <2>4, <2>6 DEF TunnelInv, Types
<1>13. CASE HandleOpen(e)
  <2>1. f.mask = "OPEN" /\ peer[e] /\ UNCHANGED <<peer, forwards>>
    BY <1>13 DEF HandleOpen, Receives
  <2>2. CASE f.service \in services[e] /\ ~Has(e, f.id)
    <3> DEFINE new == [service |-> f.service, token |-> f.token, dialer |-> TRUE,
                       ready |-> FALSE, dial |-> "dialing", attempts |-> 0, app |-> "silent"]
    <3>1. f.service \in Service
      BY <2>2 DEF TunnelInv, Types, OthersOK
    <3>2. new \in Stream
      BY SMTT(30), <1>5, <2>1, <3>1, TunnelAssumption DEF Stream
    <3>3. streams' = [streams EXCEPT ![e][f.id] = new] /\ inbox' = Sent(e, q, <<>>)
      BY Zenon, <1>4, <1>13, <2>2 DEF HandleOpen
    <3>4. new.dialer /\ new.token = f.token
      OBVIOUS
    <3> HIDE DEF new
    <3>5. QED
      BY ZenonT(30), <1>1, <1>2, <1>3, <1>4, <1>5, <1>6, <2>1, <3>2, <3>3, <3>4, WriteStep
  <2>3. CASE ~(f.service \in services[e] /\ ~Has(e, f.id))
    <3> DEFINE fs == <<OpenAck(f.id, f.token, FALSE)>>
    <3>1. streams' = streams /\ inbox' = Sent(e, q, fs)
      BY SMTT(30), <1>13, <2>3 DEF HandleOpen
    <3>2. fs \in Seq(Message) /\ Answering(q, fs)
      BY Zenon, <1>3, <1>5, <1>6, <2>1, Replies
    <3> HIDE DEF fs
    <3>3. QED
      BY Zenon, <1>1, <1>2, <2>1, <3>1, <3>2, DestroyStep
  <2>4. QED
    BY <2>2, <2>3
<1>14. CASE HandleOpenAck(e)
  <2>1. f.mask = "OPEN_ACK" /\ UNCHANGED <<peer, forwards>>
    BY SMTT(30), <1>14 DEF HandleOpenAck, Receives
  <2>2. CASE Answers(e, f) /\ f.ok
    <3> DEFINE st == [streams[e][f.id] EXCEPT !.ready = TRUE]
               new == Pumped(st)
    <3>1. /\ Has(e, f.id) /\ ~streams[e][f.id].dialer /\ streams[e][f.id].token = f.token
          /\ streams[e][f.id] \in Stream /\ peer[e]
          /\ streams[e][f.id].dial = "up" /\ streams[e][f.id].service \in forwards[e]
      BY SMTT(30), <1>5, <2>1, <2>2, Existing DEF Answers
    <3>2. /\ st \in Stream /\ ~st.dialer /\ st.token = f.token
          /\ st.dial = "up" /\ st.service \in forwards[e]
      BY Zenon, <3>1 DEF Stream
    <3>3. streams' = [streams EXCEPT ![e][f.id] = new] /\ inbox' = Sent(e, q, PumpFrames(f.id, st))
      BY SMTT(30), <1>14, <2>2 DEF HandleOpenAck
    <3> HIDE DEF st
    <3>4. /\ new \in Stream /\ ~new.dialer /\ new.token = f.token
          /\ new.dial = "up" /\ new.service \in forwards[e]
      BY <3>2 DEF Pumped, Stream
    <3>5. PumpFrames(f.id, st) \in {<<>>, <<Data(f.id, f.token)>>}
      BY <3>2 DEF PumpFrames
    <3>6. PumpFrames(f.id, st) \in Seq(Message) /\ Answering(q, PumpFrames(f.id, st))
      BY Zenon, <1>5, <2>1, <3>5, Replies
    <3> HIDE DEF new
    <3>7. QED
      BY ZenonT(30), <1>1, <1>2, <1>5, <1>6, <1>7, <2>1, <3>1, <3>3, <3>4, <3>6, WriteStep
  <2>3. CASE Answers(e, f) /\ ~f.ok
    <3>1. {f.id} \in SUBSET Id /\ streams' = Without(e, {f.id}) /\ inbox' = [inbox EXCEPT ![e] = Tail(@)]
      BY SMTT(30), <1>5, <1>14, <2>1, <2>3 DEF HandleOpenAck
    <3>2. QED
      BY SMTT(30), <1>8, <2>1, <3>1
  <2>4. CASE ~Answers(e, f)
    BY Zenon, <1>8, <1>14, <2>1, <2>4 DEF HandleOpenAck
  <2>5. QED
    BY <2>2, <2>3, <2>4
<1>15. QED
  BY SMTT(30), <1>9, <1>10, <1>11, <1>12, <1>13, <1>14 DEF Handle

-----------------------------------------------------------------------------
(* Calls and new connections. *)

\* The state of streams and queues stays as it is.
LEMMA TunnelsUnchanged ==
    ASSUME TunnelInv, UNCHANGED <<inbox, streams, opens>>
    PROVE  QueuesOK' /\ StreamsOK' /\ Tokens'
BY SMTT(30) DEF TunnelInv, Types, QueuesOK, StreamsOK, Tokens, Given, Unanswered, HasOpen, HasAck, OpensOnce,
       Dialed, ReadyAt, Has

\* An OPEN with a new token joins a queue.
LEMMA OpenSent ==
    ASSUME NEW q \in Seq(Message), NEW f \in Message, f.mask = "OPEN", ~HasOpen(q, f.token)
    PROVE  /\ \A t \in Token : /\ HasOpen(q \o <<f>>, t) => HasOpen(q, t) \/ t = f.token
                               /\ HasAck(q \o <<f>>, t) => HasAck(q, t)
           /\ OpensOnce(q) => OpensOnce(q \o <<f>>)
<1> DEFINE r == q \o <<f>>
<1>1. /\ Len(q) \in Nat /\ DOMAIN q = 1..Len(q) /\ DOMAIN r = 1..(Len(q) + 1)
      /\ r[Len(q) + 1] = f
      /\ \A k \in DOMAIN q : r[k] = q[k]
  OBVIOUS
<1> HIDE DEF r
<1>2. \A k \in DOMAIN r : \/ k \in DOMAIN q /\ r[k] = q[k]
                          \/ k = Len(q) + 1 /\ r[k] = f
  BY <1>1
<1>3. \A t \in Token : /\ HasOpen(r, t) => HasOpen(q, t) \/ t = f.token
                       /\ HasAck(r, t) => HasAck(q, t)
  BY <1>2 DEF HasOpen, HasAck
<1>4. OpensOnce(q) => OpensOnce(r)
  BY <1>2 DEF OpensOnce, HasOpen
<1>5. QED
  BY <1>3, <1>4 DEF r

\* acceptLocalConnection gives its stream a token nobody has seen.
LEMMA AcceptStep ==
    ASSUME TunnelInv, NEW e \in End, NEW s \in Service, AcceptLocalConnection(e, s)
    PROVE  TunnelInv'
<1> DEFINE t == opens + 1
<1>1. PICK i \in NextStreamId(e) :
          /\ drawn' = drawn \cup {i}
          /\ streams' = IF peer[e]
                        THEN [streams EXCEPT ![e][i] =
                                [service |-> s, token |-> t, dialer |-> FALSE,
                                 ready |-> FALSE, dial |-> "up", attempts |-> 0,
                                 app |-> "silent"]]
                        ELSE streams
          /\ inbox' = Sent(e, inbox[e], <<Open(i, s, t)>>)
  BY Zenon DEF AcceptLocalConnection
<1>2. /\ s \in forwards[e] /\ opens' = t /\ t \in Token /\ opens \in Nat /\ t \in 0..MaxOpens
      /\ UNCHANGED <<link, peer, services, forwards, losses, stops>>
  BY TunnelAssumption DEF AcceptLocalConnection, TunnelInv, Types, OthersOK, Token
<1>3. i \in Id /\ peer[e]
  BY <1>2, TunnelAssumption DEF NextStreamId, TunnelInv, NoPeerNoTunnel
<1> DEFINE new == [service |-> s, token |-> t, dialer |-> FALSE, ready |-> FALSE,
                   dial |-> "up", attempts |-> 0, app |-> "silent"]
           f == Open(i, s, t)
<1>4. /\ new \in Stream /\ ~new.dialer /\ ~new.ready /\ new.dial = "up"
      /\ new.service = s
  BY <1>2, TunnelAssumption DEF Stream
<1>5. f \in Message /\ f.mask = "OPEN" /\ f.token = t
  BY <1>2, <1>3 DEF Open, Message, Frame
<1>6. streams' = [streams EXCEPT ![e][i] = new] /\ inbox' = Sent(e, inbox[e], <<f>>)
  BY <1>1, <1>3
<1> HIDE DEF t, new, f
<1>7. /\ StreamsOK'
      /\ streams'[e][i] = new
      /\ \A x \in End, j \in Id : x # e \/ j # i => streams'[x][j] = streams[x][j]
      /\ \A x \in End, u \in Token : /\ Dialed(x, u)' => Dialed(x, u)
                                     /\ ReadyAt(x, u)' => ReadyAt(x, u)
  BY ZenonT(30), <1>3, <1>4, <1>6, Writes DEF TunnelInv, Types
<1>8. /\ inbox[e] \in Seq(Message) /\ inbox[Other(e)] \in Seq(Message) /\ <<f>> \in Seq(Message)
      /\ Other(e) \in End /\ \A x \in End : x = e \/ x = Other(e)
  BY <1>5, Ends DEF TunnelInv, Types, QueuesOK, End, Other
<1>9. /\ inbox' \in [End -> Seq(Message)]
      /\ inbox'[e] = inbox[e]
      /\ inbox'[Other(e)] \in {inbox[Other(e)], inbox[Other(e)] \o <<f>>}
  BY Zenon, <1>6, <1>8, Sends DEF TunnelInv, Types
<1>10. \A x \in End : ~HasOpen(inbox[x], t) /\ ~HasAck(inbox[x], t) /\ ~Dialed(x, t) /\ ~ReadyAt(x, t)
  BY <1>2 DEF TunnelInv, Tokens, Given, t
<1>11. /\ OpensOnce(inbox'[Other(e)])
       /\ \A u \in Token :
             /\ HasOpen(inbox'[Other(e)], u) => HasOpen(inbox[Other(e)], u) \/ u = t
             /\ HasAck(inbox'[Other(e)], u) => HasAck(inbox[Other(e)], u)
  <2>1. OpensOnce(inbox[Other(e)]) /\ ~HasOpen(inbox[Other(e)], f.token)
    BY <1>5, <1>8, <1>10 DEF TunnelInv, Tokens
  <2>2. CASE inbox'[Other(e)] = inbox[Other(e)]
    BY <2>1, <2>2
  <2>3. CASE inbox'[Other(e)] = inbox[Other(e)] \o <<f>>
    BY SMTT(30), <1>5, <1>8, <2>1, <2>3, OpenSent
  <2>4. QED
    BY SMTT(30), <1>9, <2>2, <2>3
<1>12. \A x \in End : OpensOnce(inbox'[x])
  BY Zenon, <1>8, <1>9, <1>11 DEF TunnelInv, Tokens
<1>13. \A x \in End, u \in Token : /\ HasOpen(inbox'[x], u) => HasOpen(inbox[x], u) \/ u = t
                                   /\ HasAck(inbox'[x], u) => HasAck(inbox[x], u)
  BY Zenon, <1>8, <1>9, <1>11
<1>14. Given'
  <2> SUFFICES ASSUME NEW x \in End, NEW u \in Token,
                      HasOpen(inbox'[x], u) \/ HasAck(inbox'[x], u) \/ Dialed(x, u)' \/ ReadyAt(x, u)'
               PROVE  u <= opens'
    BY DEF Given, HasOpen, HasAck
  <2>1. u <= opens \/ u = t
    BY <1>7, <1>13 DEF TunnelInv, Tokens, Given
  <2>2. QED
    BY <1>2, <2>1 DEF t, Token
<1>15. Unanswered'
  <2> SUFFICES ASSUME NEW x \in End, NEW u \in Token, HasOpen(inbox'[x], u)
               PROVE  ~Dialed(x, u)' /\ ~HasAck(inbox'[Other(x)], u) /\ ~ReadyAt(Other(x), u)'
    BY DEF Unanswered, HasOpen, HasAck
  <2>1. ~Dialed(x, u) /\ ~HasAck(inbox[Other(x)], u) /\ ~ReadyAt(Other(x), u)
    BY <1>10, <1>13, Ends DEF TunnelInv, Tokens, Unanswered
  <2>2. QED
    BY <1>7, <1>13, <2>1, Ends
<1>16. Tokens' /\ QueuesOK'
  BY SMTT(30), <1>9, <1>12, <1>14, <1>15 DEF Tokens, OpensOnce, QueuesOK
<1>17. ForwardsOK' /\ OthersOK'
  BY <1>1, <1>2, <1>3 DEF TunnelInv, Types, ForwardsOK, OthersOK
<1>18. NoPeerNoTunnel'
  BY <1>2, <1>3, <1>7 DEF TunnelInv, NoPeerNoTunnel, Has
<1>19. AcceptedHasForward'
  BY SMTT(30), <1>2, <1>4, <1>7 DEF TunnelInv, AcceptedHasForward, Has
<1>20. QED
  BY SMTT(30), <1>7, <1>16, <1>17, <1>18, <1>19 DEF TunnelInv, Types

\* Closing the accepted streams of the services in S and notifying the peer.
LEMMA ClosesAccepted ==
    ASSUME TunnelInv, NEW e \in End, NEW S \in SUBSET Service, NEW I \in SUBSET Id,
           streams' = Without(e, I), opens' = opens,
           inbox' = Sent(e, inbox[e], CloseFrames(e, Accepted(e, S)))
    PROVE  /\ QueuesOK' /\ StreamsOK' /\ Tokens'
           /\ \A x \in End, i \in Id : Has(x, i)' => Has(x, i) /\ streams'[x][i] = streams[x][i]
           /\ \A i \in I : ~Has(e, i)'
<1> DEFINE fs == CloseFrames(e, Accepted(e, S))
<1>1. fs \in Seq(Message) /\ \A k \in DOMAIN fs : fs[k].mask = "CLOSE"
  BY Closing DEF TunnelInv, Types, Accepted
<1>2. /\ StreamsOK'
      /\ \A x \in End, i \in Id : Has(x, i)' => Has(x, i) /\ streams'[x][i] = streams[x][i]
      /\ \A x \in End, t \in Token : /\ Dialed(x, t)' => Dialed(x, t)
                                     /\ ReadyAt(x, t)' => ReadyAt(x, t)
      /\ \A i \in I : ~Has(e, i)'
  BY Destroys DEF TunnelInv, Types
<1> HIDE DEF fs
<1>3. \A t \in Token : ~HasAck(fs, t)
  BY <1>1 DEF HasAck
<1>4. inbox' = Sent(e, inbox[e], fs) /\ LeftOf(e, inbox[e])
  BY DEF fs, LeftOf
<1>5. QueuesOK' /\ Tokens'
  <2>1. QueuesOK /\ Tokens
    BY DEF TunnelInv, Types
  <2>2. \A k \in DOMAIN fs : fs[k].mask # "OPEN"
    BY <1>1
  <2>3. QED
    BY Zenon, <1>1, <1>2, <1>3, <1>4, <2>1, <2>2, SendsNoOpen
<1>6. QED
  BY <1>2, <1>5

\* A call of NetworkUtil or SessionManager keeps the invariant.
LEMMA CallSteps ==
    ASSUME TunnelInv, NEW e \in End, Calls(e)
    PROVE  TunnelInv'
<1> USE DEF Types
<1>1. CASE SetPeer(e)
  <2>1. QueuesOK' /\ StreamsOK' /\ Tokens'
    BY <1>1, TunnelsUnchanged DEF SetPeer
  <2>2. ForwardsOK' /\ OthersOK'
    BY <1>1 DEF SetPeer, TunnelInv, ForwardsOK, OthersOK
  <2>3. NoPeerNoTunnel' /\ AcceptedHasForward'
    BY <1>1 DEF SetPeer, TunnelInv, OthersOK, NoPeerNoTunnel, AcceptedHasForward, Has
  <2>4. QED
    BY <2>1, <2>2, <2>3 DEF TunnelInv
<1>2. ASSUME NEW s \in Service, RegisterService(e, s) \/ UnregisterService(e, s)
      PROVE  TunnelInv'
  <2>1. /\ UNCHANGED <<link, inbox, peer, forwards, streams, opens, drawn, losses, stops>>
        /\ services' \in [End -> SUBSET Service]
    BY <1>2 DEF RegisterService, UnregisterService, TunnelInv, OthersOK
  <2>2. QueuesOK' /\ StreamsOK' /\ Tokens'
    BY <2>1, TunnelsUnchanged
  <2>3. ForwardsOK' /\ OthersOK'
    BY <2>1 DEF TunnelInv, ForwardsOK, OthersOK
  <2>4. NoPeerNoTunnel' /\ AcceptedHasForward'
    BY <2>1 DEF TunnelInv, NoPeerNoTunnel, AcceptedHasForward, Has
  <2>5. QED
    BY <2>2, <2>3, <2>4 DEF TunnelInv
<1>3. ASSUME NEW s \in Service, StartLocalForward(e, s)
      PROVE  TunnelInv'
  <2>1. QueuesOK' /\ StreamsOK' /\ Tokens'
    BY <1>3, TunnelsUnchanged DEF StartLocalForward
  <2>2. /\ IsFiniteSet(forwards[e] \cup {s})
        /\ Cardinality(forwards[e] \cup {s}) <= kMaxForwards
    <3>1. /\ IsFiniteSet(forwards[e]) /\ Cardinality(forwards[e]) < kMaxForwards /\ s \notin forwards[e]
      BY <1>3 DEF StartLocalForward, TunnelInv, ForwardsOK
    <3>2. /\ Cardinality(forwards[e]) \in Nat /\ IsFiniteSet(forwards[e] \cup {s})
          /\ Cardinality(forwards[e] \cup {s}) = Cardinality(forwards[e]) + 1
      BY <3>1, FS_AddElement, FS_CardinalityType
    <3>3. QED
      BY <3>1, <3>2, TunnelAssumption
  <2>3. ForwardsOK'
    BY <1>3, <2>2 DEF StartLocalForward, TunnelInv, ForwardsOK
  <2>4. OthersOK'
    BY <1>3 DEF StartLocalForward, TunnelInv, OthersOK
  <2>5. NoPeerNoTunnel' /\ AcceptedHasForward'
    BY <1>3 DEF StartLocalForward, TunnelInv, ForwardsOK, NoPeerNoTunnel, AcceptedHasForward, Has
  <2>6. QED
    BY <2>1, <2>3, <2>4, <2>5 DEF TunnelInv
<1>4. ASSUME NEW s \in Service, StopLocalForward(e, s)
      PROVE  TunnelInv'
  <2>1. /\ QueuesOK' /\ StreamsOK' /\ Tokens'
        /\ \A x \in End, i \in Id : Has(x, i)' => Has(x, i) /\ streams'[x][i] = streams[x][i]
        /\ \A i \in Accepted(e, {s}) : ~Has(e, i)'
    <3>1. {s} \in SUBSET Service /\ Accepted(e, {s}) \in SUBSET Id
      BY DEF Accepted
    <3>2. QED
      BY Zenon, <1>4, <3>1, ClosesAccepted DEF StopLocalForward
  <2>2. /\ IsFiniteSet(forwards[e] \ {s})
        /\ Cardinality(forwards[e] \ {s}) <= kMaxForwards
    <3>1. /\ IsFiniteSet(forwards[e]) /\ Cardinality(forwards[e]) <= kMaxForwards /\ s \in forwards[e]
      BY <1>4 DEF StopLocalForward, TunnelInv, ForwardsOK
    <3>2. /\ Cardinality(forwards[e]) \in Nat /\ IsFiniteSet(forwards[e] \ {s})
          /\ Cardinality(forwards[e] \ {s}) = Cardinality(forwards[e]) - 1
      BY <3>1, FS_RemoveElement, FS_CardinalityType
    <3>3. QED
      BY <3>1, <3>2, TunnelAssumption
  <2>3. ForwardsOK'
    BY <1>4, <2>2 DEF StopLocalForward, TunnelInv, ForwardsOK
  <2>4. OthersOK'
    BY <1>4 DEF StopLocalForward, TunnelInv, OthersOK
  <2>5. /\ forwards' = [forwards EXCEPT ![e] = @ \ {s}] /\ peer' = peer
        /\ forwards \in [End -> SUBSET Service]
    BY <1>4 DEF StopLocalForward, TunnelInv, ForwardsOK
  <2>6. NoPeerNoTunnel'
    BY <2>1, <2>5 DEF TunnelInv, NoPeerNoTunnel
  <2>7. AcceptedHasForward'
    BY <2>1, <2>5 DEF TunnelInv, AcceptedHasForward, Accepted
  <2>8. QED
    BY <2>1, <2>3, <2>4, <2>6, <2>7 DEF TunnelInv
<1>5. ASSUME NEW keepPeer \in BOOLEAN, StopTunnels(e, keepPeer)
      PROVE  TunnelInv'
  <2>1. /\ QueuesOK' /\ StreamsOK' /\ Tokens'
        /\ \A x \in End, i \in Id : Has(x, i)' => Has(x, i) /\ streams'[x][i] = streams[x][i]
        /\ \A i \in Id : ~Has(e, i)'
    <3>1. forwards[e] \in SUBSET Service
      BY DEF TunnelInv, ForwardsOK
    <3>2. QED
      BY <1>5, <3>1, ClosesAccepted DEF StopTunnels
  <2>2. ForwardsOK'
    BY <1>5, FS_EmptySet, TunnelAssumption DEF StopTunnels, TunnelInv, ForwardsOK
  <2>3. OthersOK'
    BY <1>5, TunnelAssumption DEF StopTunnels, TunnelInv, OthersOK
  <2>4. /\ forwards' = [forwards EXCEPT ![e] = {}] /\ forwards \in [End -> SUBSET Service]
        /\ \A x \in End : x # e => peer'[x] = peer[x]
    BY <1>5 DEF StopTunnels, TunnelInv, ForwardsOK, OthersOK
  <2>5. NoPeerNoTunnel' /\ AcceptedHasForward'
    BY <2>1, <2>4 DEF TunnelInv, NoPeerNoTunnel, AcceptedHasForward
  <2>6. QED
    BY <2>1, <2>2, <2>3, <2>5 DEF TunnelInv
<1>6. QED
  BY SMTT(30), <1>1, <1>2, <1>3, <1>4, <1>5, AcceptStep DEF Calls

-----------------------------------------------------------------------------
(* The session. *)

\* What is left of a queue after a cut, perhaps with a reported loss.
LEMMA CutThenLost ==
    ASSUME TunnelInv, NEW x \in End, NEW r,
           NEW n \in 0..Len(inbox[x]),
           r = SubSeq(inbox[x], 1, n) \/ r = Append(SubSeq(inbox[x], 1, n), Lost)
    PROVE  /\ r \in Seq(Message) /\ OpensOnce(r)
           /\ \A t \in Token : /\ HasOpen(r, t) => HasOpen(inbox[x], t)
                               /\ HasAck(r, t) => HasAck(inbox[x], t)
<1> DEFINE c == SubSeq(inbox[x], 1, n)
<1>1. inbox[x] \in Seq(Message) /\ OpensOnce(inbox[x])
  BY DEF TunnelInv, Types, QueuesOK, Tokens
<1>2. /\ c \in Seq(Message) /\ OpensOnce(c)
      /\ \A t \in Token : /\ HasOpen(c, t) => HasOpen(inbox[x], t)
                          /\ HasAck(c, t) => HasAck(inbox[x], t)
  BY <1>1, CutQueue
<1> HIDE DEF c
<1>3. /\ <<Lost>> \in Seq(Message) /\ \A k \in DOMAIN <<Lost>> : <<Lost>>[k].mask # "OPEN"
      /\ \A t \in Token : ~HasAck(<<Lost>>, t)
      /\ Append(c, Lost) = c \o <<Lost>>
  <2>1. Lost \in Message /\ Lost.mask = "LOST"
    BY DEF Message, Lost
  <2>2. Append(c, Lost) = c \o <<Lost>>
    BY <1>2, <2>1, AppendIsConcat
  <2>3. QED
    BY <2>1, <2>2 DEF HasAck
<1>4. CASE r = c
  BY <1>2, <1>4
<1>5. CASE r = c \o <<Lost>>
  BY Zenon, <1>2, <1>3, <1>5, Concatenated
<1>6. QED
  BY SMTT(30), <1>3, <1>4, <1>5 DEF c

\* A loss, a reconnection or a missed pong keeps the invariant.
LEMMA SessionSteps ==
    ASSUME TunnelInv, Session
    PROVE  TunnelInv'
<1> DEFINE Shorter(x, r) ==
        \E n \in 0..Len(inbox[x]) : r = SubSeq(inbox[x], 1, n) \/ r = Append(SubSeq(inbox[x], 1, n), Lost)
<1>1. UNCHANGED <<peer, services, forwards, streams, opens, drawn, stops>> /\ OthersOK'
  <2>1. /\ UNCHANGED <<peer, services, forwards, streams, opens, drawn, stops>>
        /\ link' \in {link, TRUE, FALSE}
        /\ losses' = losses \/ (losses < MaxLosses /\ losses' = losses + 1)
    BY Zenon DEF Session, LinkDown, LinkUp, SessionReplaced, PingOut
  <2>2. OthersOK
    BY DEF TunnelInv, Types
  <2>3. losses \in 0..MaxLosses /\ link \in BOOLEAN
    BY <2>2 DEF OthersOK
  <2>4. losses' \in 0..MaxLosses
    BY <2>1, <2>3, TunnelAssumption
  <2>5. link' \in BOOLEAN
    BY <2>1, <2>3, Zenon
  <2>6. QED
    BY SMTT(30), <2>1, <2>2, <2>4, <2>5 DEF OthersOK
<1>2. \A x \in End : /\ inbox[x] \in Seq(Message) /\ Len(inbox[x]) \in Nat
                     /\ SubSeq(inbox[x], 1, Len(inbox[x])) = inbox[x]
  <2> TAKE x \in End
  <2>1. inbox[x] \in Seq(Message)
    BY DEF TunnelInv, Types, QueuesOK
  <2>2. QED
    BY <2>1, LenProperties, SubSeqFull
<1>3. \A q \in Cuts : /\ DOMAIN q = End
                      /\ \A x \in End : \E n \in 0..Len(inbox[x]) : q[x] = SubSeq(inbox[x], 1, n)
  BY SMTT(30) DEF Cuts
<1>4. inbox \in [End -> Seq(Message)]
  BY DEF TunnelInv, Types, QueuesOK
<1>5. DOMAIN inbox' = End /\ inbox' = [x \in DOMAIN inbox' |-> inbox'[x]] /\ \A x \in End : Shorter(x, inbox'[x])
  <2>1. CASE LinkDown
    <3>1. PICK q \in Cuts : inbox' = [x \in End |-> Append(q[x], Lost)]
      BY <2>1 DEF LinkDown
    <3>2. QED
      BY Zenon, <1>3, <3>1
  <2>2. CASE LinkUp
    BY <1>2, <1>4, <2>2 DEF LinkUp
  <2>3. CASE SessionReplaced
    <3>1. PICK q \in Cuts : inbox' = [q EXCEPT !["c"] = Append(@, Lost)]
      BY Zenon, <2>3 DEF SessionReplaced
    <3>2. QED
      BY Zenon, <1>3, <3>1
  <2>4. CASE PingOut
    <3>1. inbox' = [inbox EXCEPT !["c"] = Append(@, Lost)]
      BY <2>4 DEF PingOut
    <3>2. DOMAIN inbox' = End /\ inbox' = [x \in DOMAIN inbox' |-> inbox'[x]]
      BY Zenon, <1>4, <3>1
    <3>3. \A x \in End : /\ inbox'[x] = inbox[x] \/ inbox'[x] = Append(inbox[x], Lost)
                         /\ Len(inbox[x]) \in 0..Len(inbox[x])
      BY <1>2, <1>4, <3>1
    <3>4. QED
      BY SMTT(30), <1>2, <3>2, <3>3
  <2>5. QED
    BY SMTT(30), <2>1, <2>2, <2>3, <2>4 DEF Session
<1>6. \A x \in End : /\ inbox'[x] \in Seq(Message) /\ OpensOnce(inbox'[x])
                     /\ \A t \in Token : /\ HasOpen(inbox'[x], t) => HasOpen(inbox[x], t)
                                         /\ HasAck(inbox'[x], t) => HasAck(inbox[x], t)
  BY Zenon, <1>5, CutThenLost
<1>7. QueuesOK'
  BY <1>5, <1>6 DEF QueuesOK
<1>8. \A x \in End, t \in Token : Dialed(x, t)' = Dialed(x, t) /\ ReadyAt(x, t)' = ReadyAt(x, t)
  BY <1>1 DEF Dialed, ReadyAt, Has
<1>9. Given'
  <2> SUFFICES ASSUME NEW x \in End, NEW t \in Token,
                      HasOpen(inbox'[x], t) \/ HasAck(inbox'[x], t) \/ Dialed(x, t)' \/ ReadyAt(x, t)'
               PROVE  t <= opens
    BY <1>1 DEF Given, HasOpen, HasAck
  <2>1. QED
    BY <1>6, <1>8 DEF TunnelInv, Tokens, Given
<1>10. Unanswered'
  <2> SUFFICES ASSUME NEW x \in End, NEW t \in Token, HasOpen(inbox'[x], t)
               PROVE  ~Dialed(x, t)' /\ ~HasAck(inbox'[Other(x)], t) /\ ~ReadyAt(Other(x), t)'
    BY DEF Unanswered, HasOpen, HasAck
  <2>1. QED
    BY <1>6, <1>8, Ends DEF TunnelInv, Tokens, Unanswered
<1>11. Tokens'
  BY <1>6, <1>9, <1>10 DEF Tokens, OpensOnce
<1>12. StreamsOK' /\ ForwardsOK' /\ NoPeerNoTunnel' /\ AcceptedHasForward'
  BY <1>1 DEF TunnelInv, Types, StreamsOK, ForwardsOK, NoPeerNoTunnel, AcceptedHasForward, Has
<1>13. QED
  BY <1>1, <1>7, <1>11, <1>12 DEF TunnelInv, Types

-----------------------------------------------------------------------------
(* The theorems. *)

\* The invariant holds at the start.
LEMMA InitInv == Init => TunnelInv
<1> SUFFICES ASSUME Init
             PROVE  TunnelInv
  OBVIOUS
<1>1. \A e \in End : inbox[e] = <<>> /\ forwards[e] = {} /\ \A i \in Id : ~Has(e, i)
  BY DEF Init, Has
<1>2. QueuesOK /\ StreamsOK
  BY <1>1, EmptySeq DEF Init, QueuesOK, StreamsOK
<1>3. ForwardsOK /\ OthersOK
  BY <1>1, FS_EmptySet, TunnelAssumption DEF Init, ForwardsOK, OthersOK
<1>4. \A e \in End, t \in Token :
          ~HasOpen(inbox[e], t) /\ ~HasAck(inbox[e], t) /\ ~Dialed(e, t) /\ ~ReadyAt(e, t)
  BY <1>1 DEF HasOpen, HasAck, Dialed, ReadyAt
<1>5. Tokens
  BY <1>1, <1>4 DEF Tokens, Given, Unanswered, OpensOnce
<1>6. NoPeerNoTunnel /\ AcceptedHasForward
  BY <1>1 DEF NoPeerNoTunnel, AcceptedHasForward
<1>7. QED
  BY SMTT(30), <1>2, <1>3, <1>5, <1>6 DEF TunnelInv, Types

\* Every step keeps it.
LEMMA NextInv == TunnelInv /\ [Next]_vars => TunnelInv'
<1> SUFFICES ASSUME TunnelInv, [Next]_vars
             PROVE  TunnelInv'
  OBVIOUS
<1>1. CASE Session
  BY <1>1, SessionSteps
<1>2. ASSUME NEW e \in End, Calls(e)
      PROVE  TunnelInv'
  BY <1>2, CallSteps
<1>3. ASSUME NEW e \in End, Handle(e)
      PROVE  TunnelInv'
  BY <1>3, HandleSteps
<1>4. ASSUME NEW e \in End, NEW i \in Id, Timers(e, i) \/ Sockets(e, i)
      PROVE  TunnelInv'
  BY <1>4, StreamSteps
<1>5. CASE UNCHANGED vars
  <2>1. QueuesOK' /\ StreamsOK' /\ Tokens'
    BY <1>5, TunnelsUnchanged DEF vars
  <2>2. ForwardsOK' /\ OthersOK' /\ NoPeerNoTunnel' /\ AcceptedHasForward'
    BY <1>5 DEF vars, TunnelInv, Types, ForwardsOK, OthersOK, NoPeerNoTunnel, AcceptedHasForward, Has
  <2>3. QED
    BY <2>1, <2>2 DEF TunnelInv, Types
<1>6. QED
  BY SMTT(30), <1>1, <1>2, <1>3, <1>4, <1>5 DEF Next

\* TunnelInv is an invariant of the two TunnelManager objects.
THEOREM Invariance == Spec => []TunnelInv
BY InitInv, NextInv, PTL DEF Spec

\* The variables of both TunnelManager objects keep their types, and an end
\* never has more than kMaxForwards forwards.
THEOREM TypeCorrect == Spec => []TypeOK
<1>1. Message \subseteq Event
  <2>1. Token \subseteq 0..MaxOpens /\ 0 \in 0..MaxOpens
    BY TunnelAssumption DEF Token
  <2>2. Frame \subseteq Event
    BY Zenon, <2>1 DEF Frame, Event
  <2>3. Lost \in Event
    BY <2>1 DEF Lost, Event
  <2>4. QED
    BY <2>2, <2>3 DEF Message
<1>2. Seq(Message) \subseteq Seq(Event)
  BY <1>1, SeqMonotonic
<1>3. TunnelInv => TypeOK
  BY <1>2 DEF TunnelInv, Types, QueuesOK, StreamsOK, ForwardsOK, OthersOK, TypeOK
<1>4. QED
  BY <1>3, Invariance, PTL

\* An end without a peer holds no forward and no stream, whatever events and
\* calls came in whatever order: onPeerDisconnected and stopTunnels leave none.
THEOREM NoTunnelWithoutPeer == Spec => []NoPeerNoTunnel
<1>1. TunnelInv => NoPeerNoTunnel
  BY DEF TunnelInv
<1>2. QED
  BY <1>1, Invariance, PTL

\* Every accepted stream has a listening forward, so stopLocalForward finds it.
THEOREM AcceptedIsForwarded == Spec => []AcceptedHasForward
<1>1. TunnelInv => AcceptedHasForward
  BY DEF TunnelInv
<1>2. QED
  BY <1>1, Invariance, PTL

\* The token of OPEN_ACK keeps an accepted stream from becoming ready by the
\* answer to another one, also when stream ids are drawn again and again, frames
\* are lost and the session is replaced under the tunnel.
THEOREM ReadyByItsOwnAnswer == Spec => []ReadyWasOpened
<1>1. TunnelInv => ReadyWasOpened
  <2> SUFFICES ASSUME TunnelInv, NEW e \in End, NEW i \in Id, NEW k \in DOMAIN inbox[Other(e)],
                      Has(e, i), ~streams[e][i].dialer, streams[e][i].ready,
                      inbox[Other(e)][k].mask = "OPEN",
                      inbox[Other(e)][k].token = streams[e][i].token
               PROVE  FALSE
    BY DEF ReadyWasOpened
  <2>1. ~HasOpen(inbox[Other(e)], streams[e][i].token)
    BY Existing
  <2>2. QED
    BY <2>1 DEF HasOpen
<1>2. QED
  BY <1>1, Invariance, PTL

=============================================================================
