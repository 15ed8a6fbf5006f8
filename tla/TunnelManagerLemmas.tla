------------------------ MODULE TunnelManagerLemmas ------------------------
(***************************************************************************)
(* The inductive invariant of the tunnel control plane, and what sending,   *)
(* taking and closing do to it; the steps of sockets and timers.           *)
(***************************************************************************)
EXTENDS TunnelManager, FiniteSetTheorems, SequenceTheorems, TLAPS

Frame ==
    [mask : {"OPEN", "OPEN_ACK", "DATA", "CLOSE"}, id : Id, token : Token,
     service : Service \cup {None}, ok : BOOLEAN]
Message == Frame \cup {Lost}

\* TypeOK, with the frames and the forwards described more closely; the socket
\* of an accepted stream is connected from the start.
QueuesOK == inbox \in [End -> Seq(Message)]
StreamsOK ==
    /\ streams \in [End -> [Id -> Stream \cup {None}]]
    /\ \A e \in End, i \in Id : Has(e, i) /\ ~streams[e][i].dialer => streams[e][i].dial = "up"
ForwardsOK ==
    /\ forwards \in [End -> SUBSET Service]
    /\ \A e \in End : IsFiniteSet(forwards[e]) /\ Cardinality(forwards[e]) <= kMaxForwards
OthersOK ==
    /\ link \in BOOLEAN
    /\ peer \in [End -> BOOLEAN]
    /\ services \in [End -> SUBSET Service]
    /\ opens \in 0..MaxOpens
    /\ drawn \subseteq Id
    /\ losses \in 0..MaxLosses
    /\ stops \in 0..MaxStops
Types == QueuesOK /\ StreamsOK /\ ForwardsOK /\ OthersOK

\* A queue holds an OPEN, or an answer, of token t; no two OPENs of one token.
HasOpen(q, t) == \E k \in DOMAIN q : q[k].mask = "OPEN" /\ q[k].token = t
HasAck(q, t) == \E k \in DOMAIN q : q[k].mask = "OPEN_ACK" /\ q[k].token = t
OpensOnce(q) ==
    \A j, k \in DOMAIN q :
        q[j].mask = "OPEN" /\ q[k].mask = "OPEN" /\ q[j].token = q[k].token => j = k

Dialed(e, t) == \E i \in Id : Has(e, i) /\ streams[e][i].dialer /\ streams[e][i].token = t
ReadyAt(e, t) ==
    \E i \in Id : Has(e, i) /\ ~streams[e][i].dialer /\ streams[e][i].ready /\ streams[e][i].token = t

\* No token is in use that acceptLocalConnection has not given yet.
Given ==
    \A e \in End, t \in Token :
        HasOpen(inbox[e], t) \/ HasAck(inbox[e], t) \/ Dialed(e, t) \/ ReadyAt(e, t) => t <= opens

\* While the OPEN of a token is on its way nobody has dialed for it, answered
\* it or become ready by an answer.
Unanswered ==
    \A e \in End, t \in Token :
        HasOpen(inbox[e], t) =>
            ~Dialed(e, t) /\ ~HasAck(inbox[Other(e)], t) /\ ~ReadyAt(Other(e), t)

Tokens == Given /\ (\A e \in End : OpensOnce(inbox[e])) /\ Unanswered

\* The inductive invariant.
TunnelInv == Types /\ NoPeerNoTunnel /\ AcceptedHasForward /\ Tokens

-----------------------------------------------------------------------------
(* Queues. *)

\* The two ends of a session.
LEMMA Ends ==
    \A e \in End : Other(e) \in End /\ Other(e) # e /\ Other(Other(e)) = e
BY DEF End, Other

\* Taking the first event adds none, and leaves no second OPEN of its token.
LEMMA TailOfQueue ==
    ASSUME NEW q \in Seq(Message), q # <<>>
    PROVE  /\ Tail(q) \in Seq(Message) /\ Head(q) \in Message
           /\ \A t \in Token : /\ HasOpen(Tail(q), t) => HasOpen(q, t)
                               /\ HasAck(Tail(q), t) => HasAck(q, t)
           /\ Head(q).mask = "OPEN_ACK" => HasAck(q, Head(q).token)
           /\ OpensOnce(q) =>
                 /\ OpensOnce(Tail(q))
                 /\ Head(q).mask = "OPEN" => ~HasOpen(Tail(q), Head(q).token)
<1>1. /\ Tail(q) \in Seq(Message) /\ Head(q) \in Message /\ Head(q) = q[1]
      /\ Len(q) \in Nat /\ DOMAIN q = 1..Len(q) /\ 1 \in DOMAIN q
      /\ DOMAIN Tail(q) = 1..(Len(q) - 1)
      /\ \A k \in DOMAIN Tail(q) : k + 1 \in DOMAIN q /\ Tail(q)[k] = q[k + 1]
  OBVIOUS
<1>2. QED
  BY SMTT(30), <1>1 DEF HasOpen, HasAck, OpensOnce

\* Sending frames other than OPEN adds no OPEN.
LEMMA Concatenated ==
    ASSUME NEW q \in Seq(Message), NEW fs \in Seq(Message),
           \A k \in DOMAIN fs : fs[k].mask # "OPEN"
    PROVE  /\ q \o fs \in Seq(Message)
           /\ \A t \in Token : /\ HasOpen(q \o fs, t) => HasOpen(q, t)
                               /\ HasAck(q \o fs, t) => HasAck(q, t) \/ HasAck(fs, t)
           /\ OpensOnce(q) => OpensOnce(q \o fs)
<1> DEFINE r == q \o fs
<1>1. /\ r \in Seq(Message) /\ Len(q) \in Nat /\ Len(fs) \in Nat
      /\ DOMAIN q = 1..Len(q) /\ DOMAIN fs = 1..Len(fs) /\ DOMAIN r = 1..(Len(q) + Len(fs))
      /\ \A k \in DOMAIN r : r[k] = IF k <= Len(q) THEN q[k] ELSE fs[k - Len(q)]
  BY ConcatProperties, LenProperties
<1> HIDE DEF r
<1>2. \A k \in DOMAIN r : \/ k \in DOMAIN q /\ r[k] = q[k]
                          \/ k - Len(q) \in DOMAIN fs /\ r[k] = fs[k - Len(q)]
  BY <1>1
<1>3. \A k \in DOMAIN r : r[k].mask = "OPEN" => k \in DOMAIN q /\ r[k] = q[k]
  BY <1>2
<1>4. \A t \in Token : HasOpen(r, t) => HasOpen(q, t)
  BY <1>3 DEF HasOpen
<1>5. \A t \in Token : HasAck(r, t) => HasAck(q, t) \/ HasAck(fs, t)
  BY <1>2 DEF HasAck
<1>6. OpensOnce(q) => OpensOnce(r)
  BY <1>3 DEF OpensOnce
<1>7. QED
  BY <1>1, <1>4, <1>5, <1>6 DEF r

\* Nor does cutting a queue.
LEMMA CutQueue ==
    ASSUME NEW q \in Seq(Message), NEW n \in 0..Len(q)
    PROVE  /\ SubSeq(q, 1, n) \in Seq(Message)
           /\ \A t \in Token : /\ HasOpen(SubSeq(q, 1, n), t) => HasOpen(q, t)
                               /\ HasAck(SubSeq(q, 1, n), t) => HasAck(q, t)
           /\ OpensOnce(q) => OpensOnce(SubSeq(q, 1, n))
<1>1. /\ Len(q) \in Nat /\ DOMAIN q = 1..Len(q)
      /\ SubSeq(q, 1, n) \in Seq(Message) /\ DOMAIN SubSeq(q, 1, n) = 1..n
      /\ \A k \in 1..n : SubSeq(q, 1, n)[k] = q[k]
  OBVIOUS
<1>2. QED
  BY <1>1 DEF HasOpen, HasAck, OpensOnce

-----------------------------------------------------------------------------
(* Frames. *)

\* What end e does to the queues by leaving q of its own and sending fs.
LEMMA Sends ==
    ASSUME QueuesOK, NEW e \in End, NEW q \in Seq(Message), NEW fs \in Seq(Message)
    PROVE  /\ Sent(e, q, fs) \in [End -> Seq(Message)]
           /\ Sent(e, q, fs)[e] = q
           /\ Sent(e, q, fs)[Other(e)] \in {inbox[Other(e)], inbox[Other(e)] \o fs}
<1>1. inbox[Other(e)] \o fs \in Seq(Message)
  BY Ends, ConcatProperties DEF QueuesOK
<1>2. QED
  BY Zenon, <1>1, Ends DEF Sent, QueuesOK

\* The CLOSE frames of any set of streams.
LEMMA Closing ==
    ASSUME StreamsOK, NEW e \in End, NEW I \in SUBSET Id, \A i \in I : Has(e, i)
    PROVE  /\ CloseFrames(e, I) \in Seq(Message)
           /\ \A k \in DOMAIN CloseFrames(e, I) : CloseFrames(e, I)[k].mask = "CLOSE"
<1> DEFINE n == Cardinality(I)
           Onto(f) == \A i \in I : \E k \in DOMAIN f : f[k] = i
           order == CHOOSE f \in [1..n -> I] : Onto(f)
<1>1. n \in Nat /\ ExistsBijection(1..n, I)
  BY TunnelAssumption, FS_Subset, FS_CardinalityType
<1>2. PICK g \in [1..n -> I] : Onto(g)
  BY <1>1 DEF ExistsBijection, Bijection, Surjection
<1>3. order \in [1..n -> I]
  BY Zenon, <1>2
<1> HIDE DEF order
<1>4. \A k \in 1..n : /\ order[k] \in Id
                      /\ streams[e][order[k]].token \in Token
  BY <1>3 DEF StreamsOK, Stream, Has
<1>5. CloseFrames(e, I) = [k \in 1..n |-> Close(order[k], streams[e][order[k]].token)]
  BY DEF CloseFrames, order
<1>6. \A k \in 1..n : Close(order[k], streams[e][order[k]].token) \in Message
  BY <1>4 DEF Close, Message, Frame
<1>7. CloseFrames(e, I) \in Seq(Message)
  BY SMTT(30), <1>1, <1>5, <1>6, IsASeq
<1>8. QED
  BY <1>5, <1>7 DEF Close

\* End e may have taken the first event of its queue: q is what is left.
LeftOf(e, q) == q = inbox[e] \/ (inbox[e] # <<>> /\ q = Tail(inbox[e]))

\* A step that only takes an event, if that.
LEMMA Takes ==
    ASSUME QueuesOK, NEW e \in End
    PROVE  /\ inbox = Sent(e, inbox[e], <<>>)
           /\ inbox[e] # <<>> => [inbox EXCEPT ![e] = Tail(@)] = Sent(e, Tail(inbox[e]), <<>>)
           /\ <<>> \in Seq(Message) /\ \A t \in Token : ~HasAck(<<>>, t)
<1>1. inbox[Other(e)] \in Seq(Message) /\ inbox[Other(e)] \o <<>> = inbox[Other(e)]
  BY Ends, ConcatEmptySeq DEF QueuesOK
<1>2. inbox = Sent(e, inbox[e], <<>>)
  BY <1>1, Ends DEF Sent, QueuesOK
<1>3. [inbox EXCEPT ![e] = Tail(@)] = Sent(e, Tail(inbox[e]), <<>>)
  BY Zenon, <1>1, Ends DEF Sent, QueuesOK
<1>4. <<>> \in Seq(Message) /\ \A t \in Token : ~HasAck(<<>>, t)
  BY EmptySeq DEF HasAck
<1>5. QED
  BY <1>2, <1>3, <1>4

\* A step that sends no OPEN keeps Tokens, if its answers and the streams it
\* dials or makes ready are of tokens whose OPEN is no longer on its way.
LEMMA SendsNoOpen ==
    ASSUME QueuesOK, Tokens, opens' = opens,
           NEW e \in End, NEW q, LeftOf(e, q),
           NEW fs \in Seq(Message), \A k \in DOMAIN fs : fs[k].mask # "OPEN",
           inbox' = Sent(e, q, fs),
           \A t \in Token : HasAck(fs, t) => t <= opens /\ ~HasOpen(q, t),
           \A x \in End, t \in Token :
               /\ Dialed(x, t)' => Dialed(x, t) \/ (t <= opens /\ x = e /\ ~HasOpen(q, t))
               /\ ReadyAt(x, t)' => ReadyAt(x, t) \/ (t <= opens /\ ~HasOpen(inbox[Other(x)], t))
    PROVE  QueuesOK' /\ Tokens'
<1>1. q \in Seq(Message) /\ OpensOnce(q) /\ \A t \in Token : /\ HasOpen(q, t) => HasOpen(inbox[e], t)
                                                             /\ HasAck(q, t) => HasAck(inbox[e], t)
  <2>1. inbox[e] \in Seq(Message) /\ OpensOnce(inbox[e])
    BY DEF QueuesOK, Tokens
  <2>2. CASE q = inbox[e]
    BY <2>1, <2>2
  <2>3. CASE inbox[e] # <<>> /\ q = Tail(inbox[e])
    BY <2>1, <2>3, TailOfQueue
  <2>4. QED
    BY <2>2, <2>3 DEF LeftOf
<1>2. /\ inbox' \in [End -> Seq(Message)]
      /\ inbox'[e] = q
      /\ inbox'[Other(e)] \in {inbox[Other(e)], inbox[Other(e)] \o fs}
  BY Zenon, <1>1, Sends
<1>3. /\ OpensOnce(inbox'[Other(e)])
      /\ \A t \in Token : /\ HasOpen(inbox'[Other(e)], t) => HasOpen(inbox[Other(e)], t)
                          /\ HasAck(inbox'[Other(e)], t) => HasAck(inbox[Other(e)], t) \/ HasAck(fs, t)
  <2>1. inbox[Other(e)] \in Seq(Message) /\ OpensOnce(inbox[Other(e)])
    BY Ends DEF QueuesOK, Tokens
  <2>2. CASE inbox'[Other(e)] = inbox[Other(e)]
    BY <2>1, <2>2
  <2>3. CASE inbox'[Other(e)] = inbox[Other(e)] \o fs
    BY SMTT(30), <2>1, <2>3, Concatenated
  <2>4. QED
    BY SMTT(30), <1>2, <2>2, <2>3
<1>4. \A x \in End : x = e \/ x = Other(e)
  BY DEF End, Other
<1>5. \A x \in End : OpensOnce(inbox'[x])
  BY SMTT(30), <1>1, <1>2, <1>3, <1>4
<1>6. \A x \in End, t \in Token :
          /\ HasOpen(inbox'[x], t) => HasOpen(inbox[x], t)
          /\ HasAck(inbox'[x], t) => HasAck(inbox[x], t) \/ (x = Other(e) /\ HasAck(fs, t))
  BY SMTT(30), <1>1, <1>2, <1>3, <1>4
<1>7. Given'
  <2> SUFFICES ASSUME NEW x \in End, NEW t \in Token,
                      HasOpen(inbox'[x], t) \/ HasAck(inbox'[x], t) \/ Dialed(x, t)' \/ ReadyAt(x, t)'
               PROVE  t <= opens
    BY DEF Given, HasOpen, HasAck
  <2>1. QED
    BY <1>6 DEF Tokens, Given
<1>8. Unanswered'
  <2> SUFFICES ASSUME NEW x \in End, NEW t \in Token, HasOpen(inbox'[x], t)
               PROVE  ~Dialed(x, t)' /\ ~HasAck(inbox'[Other(x)], t) /\ ~ReadyAt(Other(x), t)'
    BY SMTT(30) DEF Unanswered, HasOpen, HasAck
  <2>1. HasOpen(inbox[x], t) /\ ~Dialed(x, t) /\ ~HasAck(inbox[Other(x)], t) /\ ~ReadyAt(Other(x), t)
    BY <1>6 DEF Tokens, Unanswered
  <2>2. x = e => HasOpen(q, t)
    BY <1>2
  <2>3. ~HasAck(inbox'[Other(x)], t)
    BY SMTT(30), <1>6, <2>1, <2>2, Ends
  <2>4. QED
    BY SMTT(30), <2>1, <2>2, <2>3, Ends
<1>9. QED
  BY SMTT(30), <1>2, <1>5, <1>7, <1>8 DEF Tokens, OpensOnce, QueuesOK

-----------------------------------------------------------------------------
(* Streams. *)

\* Destroying streams, or none.
LEMMA Destroys ==
    ASSUME StreamsOK, NEW e \in End, NEW I \in SUBSET Id,
           streams' = Without(e, I) \/ streams' = streams
    PROVE  /\ StreamsOK'
           /\ \A x \in End, i \in Id : Has(x, i)' => Has(x, i) /\ streams'[x][i] = streams[x][i]
           /\ \A x \in End, t \in Token : /\ Dialed(x, t)' => Dialed(x, t)
                                          /\ ReadyAt(x, t)' => ReadyAt(x, t)
           /\ streams' = Without(e, I) => \A i \in I : ~Has(e, i)'
<1>1. streams' \in [End -> [Id -> Stream \cup {None}]]
  BY DEF StreamsOK, Without
<1>2. \A x \in End, i \in Id : streams'[x][i] # None => streams'[x][i] = streams[x][i]
  BY DEF StreamsOK, Without
<1>3. streams' = Without(e, I) => \A i \in I : streams'[e][i] = None
  BY DEF StreamsOK, Without
<1>4. QED
  BY SMTT(30), <1>1, <1>2, <1>3 DEF StreamsOK, Has, Dialed, ReadyAt

\* Writing the entry of one stream.
LEMMA Writes ==
    ASSUME StreamsOK, NEW e \in End, NEW i \in Id, NEW st \in Stream,
           ~st.dialer => st.dial = "up",
           streams' = [streams EXCEPT ![e][i] = st]
    PROVE  /\ StreamsOK'
           /\ streams'[e][i] = st
           /\ \A x \in End, j \in Id : x # e \/ j # i => streams'[x][j] = streams[x][j]
           /\ \A x \in End, t \in Token :
                 /\ Dialed(x, t)' => Dialed(x, t) \/ (x = e /\ st.dialer /\ t = st.token)
                 /\ ReadyAt(x, t)' =>
                        ReadyAt(x, t) \/ (x = e /\ ~st.dialer /\ st.ready /\ t = st.token)
<1>1. streams' \in [End -> [Id -> Stream \cup {None}]]
  BY DEF StreamsOK
<1>2. streams'[e][i] = st
  BY DEF StreamsOK
<1>3. \A x \in End, j \in Id : x # e \/ j # i => streams'[x][j] = streams[x][j]
  BY DEF StreamsOK
<1>4. \A x \in End, j \in Id :
          Has(x, j)' /\ ~streams'[x][j].dialer => streams'[x][j].dial = "up"
  BY <1>2, <1>3 DEF StreamsOK, Has
<1>5. ASSUME NEW x \in End, NEW t \in Token, Dialed(x, t)'
      PROVE  Dialed(x, t) \/ (x = e /\ st.dialer /\ t = st.token)
  BY <1>2, <1>3, <1>5 DEF Dialed, Has
<1>6. ASSUME NEW x \in End, NEW t \in Token, ReadyAt(x, t)'
      PROVE  ReadyAt(x, t) \/ (x = e /\ ~st.dialer /\ st.ready /\ t = st.token)
  BY SMTT(30), <1>2, <1>3, <1>6 DEF ReadyAt, Has
<1>7. QED
  BY SMTT(30), <1>1, <1>2, <1>3, <1>4, <1>5, <1>6 DEF StreamsOK

-----------------------------------------------------------------------------
(* Steps of two common shapes, at an end e that leaves q of its queue and     *)
(* sends the frames fs.                                                      *)

Answering(q, fs) ==
    /\ \A k \in DOMAIN fs : fs[k].mask # "OPEN"
    /\ \A t \in Token : HasAck(fs, t) => t <= opens /\ ~HasOpen(q, t)

\* Streams are destroyed, or none.
LEMMA DestroyStep ==
    ASSUME TunnelInv, NEW e \in End, NEW I \in SUBSET Id,
           streams' = Without(e, I) \/ streams' = streams,
           NEW q, LeftOf(e, q), NEW fs \in Seq(Message), Answering(q, fs),
           inbox' = Sent(e, q, fs),
           UNCHANGED <<link, peer, services, forwards, opens, drawn, losses, stops>>
    PROVE  TunnelInv'
<1>1. /\ StreamsOK'
      /\ \A x \in End, i \in Id : Has(x, i)' => Has(x, i) /\ streams'[x][i] = streams[x][i]
      /\ \A x \in End, t \in Token : /\ Dialed(x, t)' => Dialed(x, t)
                                     /\ ReadyAt(x, t)' => ReadyAt(x, t)
  BY Destroys DEF TunnelInv, Types
<1>2. QueuesOK' /\ Tokens'
  BY <1>1, SendsNoOpen DEF TunnelInv, Types, Answering
<1>3. ForwardsOK' /\ OthersOK'
  BY DEF TunnelInv, Types, ForwardsOK, OthersOK
<1>4. NoPeerNoTunnel' /\ AcceptedHasForward'
  BY <1>1 DEF TunnelInv, NoPeerNoTunnel, AcceptedHasForward
<1>5. QED
  BY SMTT(30), <1>1, <1>2, <1>3, <1>4 DEF TunnelInv, Types

\* One stream is created or changed.
LEMMA WriteStep ==
    ASSUME TunnelInv, NEW e \in End, NEW i \in Id, NEW st \in Stream,
           streams' = [streams EXCEPT ![e][i] = st],
           NEW q, LeftOf(e, q), NEW fs \in Seq(Message), Answering(q, fs),
           inbox' = Sent(e, q, fs),
           UNCHANGED <<link, peer, services, forwards, opens, drawn, losses, stops>>,
           peer[e], st.dialer \/ st.ready => st.token <= opens,
           st.dialer => ~HasOpen(q, st.token),
           ~st.dialer => st.dial = "up" /\ st.service \in forwards[e],
           ~st.dialer /\ st.ready => ~HasOpen(inbox[Other(e)], st.token)
    PROVE  TunnelInv'
<1>1. /\ StreamsOK'
      /\ streams'[e][i] = st
      /\ \A x \in End, j \in Id : x # e \/ j # i => streams'[x][j] = streams[x][j]
      /\ \A x \in End, t \in Token :
            /\ Dialed(x, t)' => Dialed(x, t) \/ (x = e /\ st.dialer /\ t = st.token)
            /\ ReadyAt(x, t)' =>
                   ReadyAt(x, t) \/ (x = e /\ ~st.dialer /\ st.ready /\ t = st.token)
  BY ZenonT(30), Writes DEF TunnelInv, Types
<1>2. QueuesOK' /\ Tokens'
  BY SMTT(30), <1>1, SendsNoOpen DEF TunnelInv, Types, Answering
<1>3. ForwardsOK' /\ OthersOK'
  BY DEF TunnelInv, Types, ForwardsOK, OthersOK
<1>4. NoPeerNoTunnel'
  BY <1>1 DEF TunnelInv, NoPeerNoTunnel, Has
<1>5. AcceptedHasForward'
  BY <1>1 DEF TunnelInv, AcceptedHasForward, Has
<1>6. QED
  BY SMTT(30), <1>1, <1>2, <1>3, <1>4, <1>5 DEF TunnelInv, Types

\* What the invariant says of a stream.
LEMMA Existing ==
    ASSUME TunnelInv, NEW e \in End, NEW i \in Id, Has(e, i)
    PROVE  LET st == streams[e][i]
           IN  /\ st \in Stream /\ st.token \in Token
               /\ peer[e]
               /\ st.dialer \/ st.ready => st.token <= opens
               /\ st.dialer => ~HasOpen(inbox[e], st.token)
               /\ ~st.dialer => st.dial = "up" /\ st.service \in forwards[e]
               /\ ~st.dialer /\ st.ready => ~HasOpen(inbox[Other(e)], st.token)
<1> DEFINE st == streams[e][i]
<1>1. st \in Stream /\ st.token \in Token /\ st.dialer \in BOOLEAN
  BY DEF TunnelInv, Types, StreamsOK, Stream, Has
<1>2. peer[e] /\ (~st.dialer => st.dial = "up" /\ st.service \in forwards[e])
  BY DEF TunnelInv, Types, StreamsOK, NoPeerNoTunnel, AcceptedHasForward
<1>3. CASE st.dialer
  <2>1. Dialed(e, st.token)
    BY <1>3 DEF Dialed
  <2>2. QED
    BY SMTT(30), <1>1, <1>2, <1>3, <2>1 DEF TunnelInv, Tokens, Given, Unanswered
<1>4. CASE ~st.dialer /\ st.ready
  <2>1. ReadyAt(e, st.token)
    BY <1>4 DEF ReadyAt
  <2>2. QED
    BY SMTT(30), <1>1, <1>2, <1>4, <2>1, Ends DEF TunnelInv, Tokens, Given, Unanswered
<1>5. QED
  BY SMTT(30), <1>1, <1>2, <1>3, <1>4

\* An answer to an OPEN that is no longer on its way, a DATA or CLOSE frame, or
\* nothing.
LEMMA Replies ==
    ASSUME NEW q, NEW i \in Id, NEW t \in Token, NEW r \in BOOLEAN
    PROVE  /\ <<>> \in Seq(Message) /\ Answering(q, <<>>)
           /\ <<Data(i, t)>> \in Seq(Message) /\ Answering(q, <<Data(i, t)>>)
           /\ <<Close(i, t)>> \in Seq(Message) /\ Answering(q, <<Close(i, t)>>)
           /\ <<OpenAck(i, t, r)>> \in Seq(Message)
           /\ t <= opens /\ ~HasOpen(q, t) => Answering(q, <<OpenAck(i, t, r)>>)
<1>1. /\ Data(i, t) \in Message /\ Close(i, t) \in Message /\ OpenAck(i, t, r) \in Message
      /\ Data(i, t).mask = "DATA" /\ Close(i, t).mask = "CLOSE"
      /\ OpenAck(i, t, r).mask = "OPEN_ACK" /\ OpenAck(i, t, r).token = t
  BY DEF OpenAck, Data, Close, Message, Frame
<1>2. QED
  BY <1>1 DEF Answering, HasAck

-----------------------------------------------------------------------------
(* Sockets and timers. *)

\* A timer or a socket event of a stream keeps the invariant.
LEMMA StreamSteps ==
    ASSUME TunnelInv, NEW e \in End, NEW i \in Id, Timers(e, i) \/ Sockets(e, i)
    PROVE  TunnelInv'
<1> DEFINE st == streams[e][i]
           q == inbox[e]
           Rest == UNCHANGED <<link, peer, services, forwards, opens, drawn, losses, stops>>
<1>1. Has(e, i) /\ Rest
  BY SMTT(30) DEF Timers, Sockets, ConnectTimeout, DialService, LocalWrite, Connected, DialError, SocketClosed
<1>2. /\ st \in Stream /\ st.token \in Token /\ peer[e]
      /\ st.dialer \/ st.ready => st.token <= opens
      /\ st.dialer => ~HasOpen(q, st.token)
      /\ ~st.dialer => st.dial = "up" /\ st.service \in forwards[e]
      /\ ~st.dialer /\ st.ready => ~HasOpen(inbox[Other(e)], st.token)
  BY SMTT(30), <1>1, Existing
<1>3. LeftOf(e, q)
  BY DEF LeftOf
<1>4. /\ q \in Seq(Message) /\ {i} \in SUBSET Id
      /\ inbox = Sent(e, q, <<>>)
  BY Takes DEF TunnelInv, Types, QueuesOK
<1>5. /\ <<>> \in Seq(Message) /\ Answering(q, <<>>)
      /\ <<Data(i, st.token)>> \in Seq(Message) /\ Answering(q, <<Data(i, st.token)>>)
      /\ <<Close(i, st.token)>> \in Seq(Message) /\ Answering(q, <<Close(i, st.token)>>)
      /\ \A r \in BOOLEAN : /\ <<OpenAck(i, st.token, r)>> \in Seq(Message)
                            /\ st.dialer => Answering(q, <<OpenAck(i, st.token, r)>>)
  BY Zenon, <1>2, Replies
<1> HIDE DEF q, st, Rest
<1>6. ASSUME NEW fs \in {<<>>, <<Close(i, st.token)>>, <<OpenAck(i, st.token, FALSE)>>},
             fs = <<OpenAck(i, st.token, FALSE)>> => st.dialer,
             streams' = Without(e, {i}), inbox' = Sent(e, q, fs)
      PROVE  TunnelInv'
  <2>1. fs \in Seq(Message) /\ Answering(q, fs)
    BY Zenon, <1>5, <1>6
  <2>2. QED
    BY SMTT(30), <1>1, <1>3, <1>4, <1>6, <2>1, DestroyStep DEF Rest
<1>7. ASSUME NEW fs \in {<<>>, <<Data(i, st.token)>>, <<OpenAck(i, st.token, TRUE)>>},
             fs = <<OpenAck(i, st.token, TRUE)>> => st.dialer,
             NEW new \in Stream, streams' = [streams EXCEPT ![e][i] = new],
             inbox' = Sent(e, q, fs),
             new.dialer = st.dialer, new.token = st.token, new.service = st.service,
             ~st.dialer => new.dial = "up" /\ new.ready = st.ready
      PROVE  TunnelInv'
  <2>1. fs \in Seq(Message) /\ Answering(q, fs)
    BY Zenon, <1>5, <1>7
  <2>2. QED
    BY Zenon, <1>1, <1>2, <1>3, <1>7, <2>1, WriteStep DEF Rest
<1>8. CASE ConnectTimeout(e, i)
  <2>1. /\ streams' = Without(e, {i})
        /\ inbox' = Sent(e, q, IF st.dialer THEN <<OpenAck(i, st.token, FALSE)>>
                                            ELSE <<Close(i, st.token)>>)
    BY <1>8 DEF ConnectTimeout, st, q
  <2>2. Close(i, st.token) # OpenAck(i, st.token, FALSE)
    BY DEF Close, OpenAck
  <2>3. QED
    BY Zenon, <1>6, <2>1, <2>2
<1>9. CASE SocketClosed(e, i)
  <2>1. streams' = Without(e, {i}) /\ inbox' = Sent(e, q, <<Close(i, st.token)>>)
    BY <1>9 DEF SocketClosed, st, q
  <2>2. Close(i, st.token) # OpenAck(i, st.token, FALSE)
    BY DEF Close, OpenAck
  <2>3. QED
    BY Zenon, <1>6, <2>1, <2>2
<1>10. CASE DialService(e, i)
  <2>1. st.dialer
    BY SMTT(30), <1>2, <1>10 DEF DialService, st
  <2>2. CASE st.service \in services[e]
    <3> DEFINE new == [st EXCEPT !.dial = "dialing"]
    <3>1. new \in Stream /\ new.dialer = st.dialer /\ new.token = st.token /\ new.service = st.service
      BY <1>2 DEF Stream
    <3>2. streams' = [streams EXCEPT ![e][i] = new] /\ inbox' = inbox
      BY SMTT(30), <1>10, <2>2 DEF DialService, st, TunnelInv, Types, StreamsOK
    <3>3. QED
      BY Zenon, <1>4, <1>7, <2>1, <3>1, <3>2
  <2>3. CASE st.service \notin services[e]
    BY SMTT(30), <1>6, <1>10, <2>1, <2>3 DEF DialService, st, q
  <2>4. QED
    BY <2>2, <2>3
<1>11. CASE DialError(e, i)
  <2>1. st.dialer
    BY SMTT(30), <1>2, <1>11 DEF DialError, st
  <2>2. CASE st.attempts < kDialAttempts
    <3> DEFINE new == [st EXCEPT !.attempts = @ + 1, !.dial = "waiting"]
    <3>1. st.attempts + 1 \in 0..kDialAttempts
      BY <1>2, <2>2, TunnelAssumption DEF Stream
    <3>2. new \in Stream /\ new.dialer = st.dialer /\ new.token = st.token /\ new.service = st.service
      BY Zenon, <1>2, <3>1 DEF Stream
    <3>3. streams' = [streams EXCEPT ![e][i] = new] /\ inbox' = inbox
      BY ZenonT(30), <1>11, <2>2 DEF DialError, st, TunnelInv, Types, StreamsOK
    <3>4. QED
      BY Zenon, <1>4, <1>7, <2>1, <3>2, <3>3
  <2>3. CASE ~(st.attempts < kDialAttempts)
    BY SMTT(30), <1>6, <1>11, <2>1, <2>3 DEF DialError, st, q
  <2>4. QED
    BY <2>2, <2>3
<1>12. CASE Connected(e, i)
  <2> DEFINE new == [st EXCEPT !.ready = TRUE, !.dial = "up"]
  <2>1. st.dialer
    BY SMTT(30), <1>2, <1>12 DEF Connected, st
  <2>2. new \in Stream /\ new.dialer = st.dialer /\ new.token = st.token /\ new.service = st.service
    BY Zenon, <1>2 DEF Stream
  <2>3. streams' = [streams EXCEPT ![e][i] = new]
    BY Zenon, <1>12 DEF Connected, st, TunnelInv, Types, StreamsOK
  <2>4. inbox' = Sent(e, q, <<OpenAck(i, st.token, TRUE)>>)
    BY <1>12 DEF Connected, st, q
  <2>5. QED
    BY Zenon, <1>7, <2>1, <2>2, <2>3, <2>4
<1>13. CASE LocalWrite(e, i)
  <2> DEFINE wrote == [st EXCEPT !.app = "wrote"]
             new == Pumped(wrote)
  <2>1. /\ wrote \in Stream /\ wrote.dialer = st.dialer /\ wrote.token = st.token
        /\ wrote.service = st.service /\ wrote.ready = st.ready /\ wrote.dial = st.dial
    BY <1>2 DEF Stream
  <2>2. /\ streams' = [streams EXCEPT ![e][i] = new]
        /\ inbox' = Sent(e, q, PumpFrames(i, wrote))
    BY <1>13 DEF LocalWrite, st, q
  <2> HIDE DEF wrote
  <2>3. /\ new \in Stream /\ new.dialer = st.dialer /\ new.token = st.token
        /\ new.service = st.service /\ new.ready = st.ready /\ new.dial = st.dial
    BY <2>1 DEF Pumped, Stream
  <2>4. PumpFrames(i, wrote) \in {<<>>, <<Data(i, st.token)>>}
    BY <2>1 DEF PumpFrames
  <2>5. Data(i, st.token) # OpenAck(i, st.token, TRUE)
    BY DEF Data, OpenAck
  <2> HIDE DEF new
  <2>6. QED
    BY Zenon, <1>2, <1>7, <2>2, <2>3, <2>4, <2>5
<1>14. QED
  BY SMTT(30), <1>8, <1>9, <1>10, <1>11, <1>12, <1>13 DEF Timers, Sockets
=============================================================================
