--------------------------- MODULE TunnelManager ---------------------------
(***************************************************************************)
(* The control plane of the tunnel: two TunnelManager objects, one at the  *)
(* client end "c" and one at the server end "s" of a session, that open,   *)
(* answer, time out, retry and close streams with TUNNEL_OPEN, OPEN_ACK,   *)
(* DATA and CLOSE frames.  Flow control inside a stream is TunnelFlow's.   *)
(*                                                                         *)
(* inbox[e] is the Qt event queue through which NetworkUtil hands session  *)
(* events to end e: received frames and, when the session is reported      *)
(* gone, a "LOST" event (handleConnectStatus).  DATA and CLOSE frames do   *)
(* not carry a token in the code; here their token records which stream    *)
(* sent them, so that a frame meeting another stream can be noticed.       *)
(***************************************************************************)
EXTENDS Integers, Sequences, FiniteSets

CONSTANTS
    Service,         \* service ids
    Id,              \* stream ids
    IdsOf,           \* [End -> SUBSET Id]: what the random generator of an end draws
    FreshIds,        \* assumption: no draw repeats an earlier one (ids have 32 bits)
    Exposed,         \* services registered at both ends from the start
    kDialAttempts,   \* retries of a failing dial
    kMaxForwards,    \* most local forwards of one end
    MaxOpens,        \* bound: local connections accepted in a behaviour
    MaxLosses,       \* bound: session losses in a behaviour
    MaxStops,        \* bound: calls of NetworkUtil::stopTunnels
    None

VARIABLES
    link,        \* the session can carry frames
    inbox,       \* [End -> Seq(Event)]
    peer,        \* [End -> BOOLEAN]: _peerIp names the other end
    services,    \* [End -> SUBSET Service]: _services
    forwards,    \* [End -> SUBSET Service]: _forwards
    streams,     \* [End -> [Id -> Stream or None]]: _streams
    opens,       \* local connections accepted so far; tokens are 1..opens
    drawn,       \* ids drawn so far
    losses,      \* session losses so far
    stops        \* stopTunnels calls so far

vars == <<link, inbox, peer, services, forwards, streams, opens, drawn, losses, stops>>

End == {"c", "s"}
Other(e) == IF e = "c" THEN "s" ELSE "c"

ASSUME TunnelAssumption ==
    /\ IsFiniteSet(Id) /\ IdsOf \in [End -> SUBSET Id]
    /\ FreshIds \in BOOLEAN
    /\ Exposed \subseteq Service
    /\ kDialAttempts \in Nat
    /\ kMaxForwards \in Nat \ {0}
    /\ MaxOpens \in Nat /\ MaxLosses \in Nat /\ MaxStops \in Nat
    /\ None \notin Service

Token == 1..MaxOpens
Stream ==
    [service : Service, token : Token, dialer : BOOLEAN, ready : BOOLEAN,
     dial : {"dialing", "waiting", "up"}, attempts : 0..kDialAttempts,
     app : {"silent", "wrote", "pumped"}]
Event ==
    [mask : {"OPEN", "OPEN_ACK", "DATA", "CLOSE", "LOST"}, id : Id \cup {None},
     token : 0..MaxOpens, service : Service \cup {None}, ok : BOOLEAN]

TypeOK ==
    /\ link \in BOOLEAN
    /\ inbox \in [End -> Seq(Event)]
    /\ peer \in [End -> BOOLEAN]
    /\ services \in [End -> SUBSET Service]
    /\ forwards \in [End -> SUBSET Service]
    /\ \A e \in End : Cardinality(forwards[e]) <= kMaxForwards
    /\ streams \in [End -> [Id -> Stream \cup {None}]]
    /\ opens \in 0..MaxOpens
    /\ drawn \subseteq Id
    /\ losses \in 0..MaxLosses
    /\ stops \in 0..MaxStops

Init ==
    /\ link = TRUE
    /\ inbox = [e \in End |-> <<>>]
    /\ peer = [e \in End |-> FALSE]
    /\ services = [e \in End |-> Exposed]
    /\ forwards = [e \in End |-> {}]
    /\ streams = [e \in End |-> [i \in Id |-> None]]
    /\ opens = 0
    /\ drawn = {}
    /\ losses = 0
    /\ stops = 0

-----------------------------------------------------------------------------
(* Frames. *)

Open(i, s, t) == [mask |-> "OPEN", id |-> i, token |-> t, service |-> s, ok |-> TRUE]
OpenAck(i, t, r) == [mask |-> "OPEN_ACK", id |-> i, token |-> t, service |-> None, ok |-> r]
Data(i, t) == [mask |-> "DATA", id |-> i, token |-> t, service |-> None, ok |-> TRUE]
Close(i, t) == [mask |-> "CLOSE", id |-> i, token |-> t, service |-> None, ok |-> TRUE]
Lost == [mask |-> "LOST", id |-> None, token |-> 0, service |-> None, ok |-> TRUE]

\* The inboxes after end e has sent the frames fs, with q left of its own
\* inbox.  Without a peer or a session the frames go nowhere.
Sent(e, q, fs) ==
    [inbox EXCEPT ![e] = q,
                  ![Other(e)] = IF peer[e] /\ link THEN @ \o fs ELSE @]

Has(e, i) == streams[e][i] # None

\* The streams after the ids in I are destroyed at end e.
Without(e, I) == [streams EXCEPT ![e] = [i \in Id |-> IF i \in I THEN None ELSE @[i]]]

\* The CLOSE frames destroyStream sends for the ids in I, in some order.
CloseFrames(e, I) ==
    LET order == CHOOSE f \in [1..Cardinality(I) -> I] : \A i \in I : \E k \in DOMAIN f : f[k] = i
    IN  [k \in 1..Cardinality(I) |-> Close(order[k], streams[e][order[k]].token)]

-----------------------------------------------------------------------------
(* Calls of NetworkUtil and SessionManager. *)

RegisterService(e, s) ==
    /\ s \notin services[e]
    /\ services' = [services EXCEPT ![e] = @ \cup {s}]
    /\ UNCHANGED <<link, inbox, peer, forwards, streams, opens, drawn, losses, stops>>

UnregisterService(e, s) ==
    /\ s \in services[e] \ Exposed
    /\ services' = [services EXCEPT ![e] = @ \ {s}]
    /\ UNCHANGED <<link, inbox, peer, forwards, streams, opens, drawn, losses, stops>>

SetPeer(e) ==
    /\ ~peer[e]
    /\ peer' = [peer EXCEPT ![e] = TRUE]
    /\ UNCHANGED <<link, inbox, services, forwards, streams, opens, drawn, losses, stops>>

\* Fails without a peer and at the limit; an existing forward is kept.
StartLocalForward(e, s) ==
    /\ peer[e]
    /\ s \notin forwards[e]
    /\ Cardinality(forwards[e]) < kMaxForwards
    /\ forwards' = [forwards EXCEPT ![e] = @ \cup {s}]
    /\ UNCHANGED <<link, inbox, peer, services, streams, opens, drawn, losses, stops>>

\* The accepted streams of the services in S at end e.
Accepted(e, S) ==
    {i \in Id : Has(e, i) /\ ~streams[e][i].dialer /\ streams[e][i].service \in S}

\* (mutation) the listener goes, its streams stay
StopLocalForwardKeeps(e, s) ==
    /\ s \in forwards[e]
    /\ forwards' = [forwards EXCEPT ![e] = @ \ {s}]
    /\ UNCHANGED <<link, inbox, peer, services, streams, opens, drawn, losses, stops>>

\* Stopping a forward closes its accepted streams and tells the peer.
StopLocalForward(e, s) ==
    /\ s \in forwards[e]
    /\ forwards' = [forwards EXCEPT ![e] = @ \ {s}]
    /\ streams' = Without(e, Accepted(e, {s}))
    /\ inbox' = Sent(e, inbox[e], CloseFrames(e, Accepted(e, {s})))
    /\ UNCHANGED <<link, peer, services, opens, drawn, losses, stops>>

\* NetworkUtil::stopTunnels: every forward is stopped with notification, then
\* the streams that are left, the dialed ones, are destroyed without.  Most
\* callers clear the peer next; switchPeripheralShared does not.
StopTunnels(e, keepPeer) ==
    /\ stops < MaxStops
    /\ stops' = stops + 1
    /\ forwards' = [forwards EXCEPT ![e] = {}]
    /\ streams' = Without(e, Id)
    /\ inbox' = Sent(e, inbox[e], CloseFrames(e, Accepted(e, forwards[e])))
    /\ peer' = [peer EXCEPT ![e] = @ /\ keepPeer]
    /\ UNCHANGED <<link, services, opens, drawn, losses>>

-----------------------------------------------------------------------------
(* Local sockets and timers. *)

\* nextStreamId: a random draw that skips the ids known locally, and only
\* those: an id may come again, or be one the other end has drawn.
NextStreamId(e) == {i \in IdsOf[e] : ~Has(e, i) /\ (FreshIds => i \notin drawn)}

\* (mutation) data flows before the OPEN is answered
AcceptLocalConnectionReady(e, s) ==
    /\ s \in forwards[e]
    /\ opens < MaxOpens
    /\ opens' = opens + 1
    /\ \E i \in NextStreamId(e) :
          /\ drawn' = drawn \cup {i}
          /\ streams' = IF peer[e]
                        THEN [streams EXCEPT ![e][i] =
                                [service |-> s, token |-> opens + 1, dialer |-> FALSE,
                                 ready |-> TRUE, dial |-> "up", attempts |-> 0,
                                 app |-> "silent"]]
                        ELSE streams
          /\ inbox' = Sent(e, inbox[e], <<Open(i, s, opens + 1)>>)
    /\ UNCHANGED <<link, peer, services, forwards, losses, stops>>

\* acceptLocalConnection for one pending connection.
AcceptLocalConnection(e, s) ==
    /\ s \in forwards[e]
    /\ opens < MaxOpens
    /\ opens' = opens + 1
    /\ \E i \in NextStreamId(e) :
          /\ drawn' = drawn \cup {i}
          /\ streams' = IF peer[e]
                        THEN [streams EXCEPT ![e][i] =
                                [service |-> s, token |-> opens + 1, dialer |-> FALSE,
                                 ready |-> FALSE, dial |-> "up", attempts |-> 0,
                                 app |-> "silent"]]
                        ELSE streams
          /\ inbox' = Sent(e, inbox[e], <<Open(i, s, opens + 1)>>)
    /\ UNCHANGED <<link, peer, services, forwards, losses, stops>>

\* A stream after pump(): a ready one sends what its application has written.
Pumped(st) == IF st.ready /\ st.app = "wrote" THEN [st EXCEPT !.app = "pumped"] ELSE st
PumpFrames(i, st) == IF st.ready /\ st.app = "wrote" THEN <<Data(i, st.token)>> ELSE <<>>

\* readyRead on an accepted socket or on a connected dialed one.
LocalWrite(e, i) ==
    /\ Has(e, i)
    /\ LET st == streams[e][i]
           wrote == [st EXCEPT !.app = "wrote"]
       IN  /\ st.app = "silent"
           /\ st.dial = "up"
           /\ streams' = [streams EXCEPT ![e][i] = Pumped(wrote)]
           /\ inbox' = Sent(e, inbox[e], PumpFrames(i, wrote))
    /\ UNCHANGED <<link, peer, services, forwards, opens, drawn, losses, stops>>

\* The dialed service accepted the connection.
Connected(e, i) ==
    /\ Has(e, i)
    /\ LET st == streams[e][i]
       IN  /\ st.dial = "dialing"
           /\ streams' = [streams EXCEPT ![e][i].ready = TRUE, ![e][i].dial = "up"]
           /\ inbox' = Sent(e, inbox[e], <<OpenAck(i, st.token, TRUE)>>)
    /\ UNCHANGED <<link, peer, services, forwards, opens, drawn, losses, stops>>

\* (mutation) one attempt too many
DialErrorOffByOne(e, i) ==
    /\ Has(e, i)
    /\ LET st == streams[e][i]
       IN  /\ st.dial = "dialing"
           /\ IF st.attempts <= kDialAttempts
              THEN /\ streams' = [streams EXCEPT ![e][i].attempts = @ + 1,
                                                 ![e][i].dial = "waiting"]
                   /\ UNCHANGED inbox
              ELSE /\ streams' = Without(e, {i})
                   /\ inbox' = Sent(e, inbox[e], <<OpenAck(i, st.token, FALSE)>>)
    /\ UNCHANGED <<link, peer, services, forwards, opens, drawn, losses, stops>>

\* The dialed service refused it: wait for the retry timer, or give up.
DialError(e, i) ==
    /\ Has(e, i)
    /\ LET st == streams[e][i]
       IN  /\ st.dial = "dialing"
           /\ IF st.attempts < kDialAttempts
              THEN /\ streams' = [streams EXCEPT ![e][i].attempts = @ + 1,
                                                 ![e][i].dial = "waiting"]
                   /\ UNCHANGED inbox
              ELSE /\ streams' = Without(e, {i})
                   /\ inbox' = Sent(e, inbox[e], <<OpenAck(i, st.token, FALSE)>>)
    /\ UNCHANGED <<link, peer, services, forwards, opens, drawn, losses, stops>>

\* dialService: the retry timer fired.  The service may be gone by now.
DialService(e, i) ==
    /\ Has(e, i)
    /\ LET st == streams[e][i]
       IN  /\ st.dial = "waiting"
           /\ IF st.service \in services[e]
              THEN /\ streams' = [streams EXCEPT ![e][i].dial = "dialing"]
                   /\ UNCHANGED inbox
              ELSE /\ streams' = Without(e, {i})
                   /\ inbox' = Sent(e, inbox[e], <<OpenAck(i, st.token, FALSE)>>)
    /\ UNCHANGED <<link, peer, services, forwards, opens, drawn, losses, stops>>

\* (mutation) an accepted stream times out without telling the peer
ConnectTimeoutSilent(e, i) ==
    /\ Has(e, i)
    /\ LET st == streams[e][i]
       IN  /\ ~st.ready
           /\ streams' = Without(e, {i})
           /\ inbox' = Sent(e, inbox[e],
                            IF st.dialer THEN <<OpenAck(i, st.token, FALSE)>> ELSE <<>>)
    /\ UNCHANGED <<link, peer, services, forwards, opens, drawn, losses, stops>>

\* (mutation) only dialed streams have a connect timer
ConnectTimeoutDialer(e, i) ==
    /\ Has(e, i)
    /\ streams[e][i].dialer
    /\ ~streams[e][i].ready
    /\ streams' = Without(e, {i})
    /\ inbox' = Sent(e, inbox[e], <<OpenAck(i, streams[e][i].token, FALSE)>>)
    /\ UNCHANGED <<link, peer, services, forwards, opens, drawn, losses, stops>>

\* The connect timer of a stream that is still not ready.
ConnectTimeout(e, i) ==
    /\ Has(e, i)
    /\ LET st == streams[e][i]
       IN  /\ ~st.ready
           /\ streams' = Without(e, {i})
           /\ inbox' = Sent(e, inbox[e],
                            IF st.dialer THEN <<OpenAck(i, st.token, FALSE)>>
                                         ELSE <<Close(i, st.token)>>)
    /\ UNCHANGED <<link, peer, services, forwards, opens, drawn, losses, stops>>

\* disconnected, or an error on a socket that was connected.
SocketClosed(e, i) ==
    /\ Has(e, i)
    /\ streams[e][i].dial = "up"
    /\ streams' = Without(e, {i})
    /\ inbox' = Sent(e, inbox[e], <<Close(i, streams[e][i].token)>>)
    /\ UNCHANGED <<link, peer, services, forwards, opens, drawn, losses, stops>>

-----------------------------------------------------------------------------
(* onTunnelMessage: end e takes the next event from its queue. *)

Receives(e, mask) == inbox[e] # <<>> /\ Head(inbox[e]).mask = mask

\* Only OPEN_ACK is looked at when no peer is selected.
Ignore(e) ==
    /\ inbox[e] # <<>>
    /\ ~peer[e]
    /\ Head(inbox[e]).mask \in {"OPEN", "DATA", "CLOSE", "LOST"}
    /\ inbox' = [inbox EXCEPT ![e] = Tail(@)]
    /\ UNCHANGED <<link, peer, services, forwards, streams, opens, drawn, losses, stops>>

HandleOpen(e) ==
    /\ Receives(e, "OPEN")
    /\ peer[e]
    /\ LET f == Head(inbox[e])
       IN  IF f.service \in services[e] /\ ~Has(e, f.id)
           THEN /\ streams' = [streams EXCEPT ![e][f.id] =
                                 [service |-> f.service, token |-> f.token, dialer |-> TRUE,
                                  ready |-> FALSE, dial |-> "dialing", attempts |-> 0,
                                  app |-> "silent"]]
                /\ inbox' = [inbox EXCEPT ![e] = Tail(@)]
           ELSE /\ inbox' = Sent(e, Tail(inbox[e]), <<OpenAck(f.id, f.token, FALSE)>>)
                /\ UNCHANGED streams
    /\ UNCHANGED <<link, peer, services, forwards, opens, drawn, losses, stops>>

\* (mutation) an answer is matched by id alone
AnswersById(e, f) == Has(e, f.id) /\ ~streams[e][f.id].dialer

\* Does the OPEN_ACK f answer a stream end e accepted?
Answers(e, f) ==
    /\ Has(e, f.id)
    /\ ~streams[e][f.id].dialer
    /\ streams[e][f.id].token = f.token

HandleOpenAck(e) ==
    /\ Receives(e, "OPEN_ACK")
    /\ LET f == Head(inbox[e])
           st == [streams[e][f.id] EXCEPT !.ready = TRUE]
       IN  IF Answers(e, f)
           THEN IF f.ok
                THEN /\ streams' = [streams EXCEPT ![e][f.id] = Pumped(st)]
                     /\ inbox' = Sent(e, Tail(inbox[e]), PumpFrames(f.id, st))
                ELSE /\ streams' = Without(e, {f.id})
                     /\ inbox' = [inbox EXCEPT ![e] = Tail(@)]
           ELSE /\ inbox' = [inbox EXCEPT ![e] = Tail(@)]
                /\ UNCHANGED streams
    /\ UNCHANGED <<link, peer, services, forwards, opens, drawn, losses, stops>>

\* The chunk is queued on the stream, ready or not, or dropped: see TunnelFlow.
HandleData(e) ==
    /\ Receives(e, "DATA")
    /\ peer[e]
    /\ inbox' = [inbox EXCEPT ![e] = Tail(@)]
    /\ UNCHANGED <<link, peer, services, forwards, streams, opens, drawn, losses, stops>>

HandleClose(e) ==
    /\ Receives(e, "CLOSE")
    /\ peer[e]
    /\ inbox' = [inbox EXCEPT ![e] = Tail(@)]
    /\ streams' = Without(e, {Head(inbox[e]).id})
    /\ UNCHANGED <<link, peer, services, forwards, opens, drawn, losses, stops>>

\* (mutation) the forwards survive the peer
OnPeerDisconnectedKeeps(e) ==
    /\ Receives(e, "LOST")
    /\ peer[e]
    /\ inbox' = [inbox EXCEPT ![e] = Tail(@)]
    /\ streams' = Without(e, Id)
    /\ peer' = [peer EXCEPT ![e] = FALSE]
    /\ UNCHANGED <<link, services, forwards, opens, drawn, losses, stops>>

\* (mutation) only the accepted streams are destroyed
OnPeerDisconnectedAccepted(e) ==
    /\ Receives(e, "LOST")
    /\ peer[e]
    /\ inbox' = [inbox EXCEPT ![e] = Tail(@)]
    /\ streams' = Without(e, Accepted(e, forwards[e]))
    /\ forwards' = [forwards EXCEPT ![e] = {}]
    /\ peer' = [peer EXCEPT ![e] = FALSE]
    /\ UNCHANGED <<link, services, opens, drawn, losses, stops>>

\* onPeerDisconnected: the streams go first, so stopping the forwards finds
\* none to notify about.
OnPeerDisconnected(e) ==
    /\ Receives(e, "LOST")
    /\ peer[e]
    /\ inbox' = [inbox EXCEPT ![e] = Tail(@)]
    /\ streams' = Without(e, Id)
    /\ forwards' = [forwards EXCEPT ![e] = {}]
    /\ peer' = [peer EXCEPT ![e] = FALSE]
    /\ UNCHANGED <<link, services, opens, drawn, losses, stops>>

-----------------------------------------------------------------------------
(* The session under the tunnel. *)

\* The inboxes when the session's socket dies: what has reached an event
\* queue stays there (every LOST has), frames behind it may be lost.
Cuts ==
    {q \in [End -> UNION {{SubSeq(inbox[e], 1, k) : k \in 0..Len(inbox[e])} : e \in End}] :
        \A e \in End :
            /\ q[e] \in {SubSeq(inbox[e], 1, k) : k \in 0..Len(inbox[e])}
            /\ \A k \in DOMAIN inbox[e] : inbox[e][k].mask = "LOST" => k <= Len(q[e])}

\* The connection breaks and both ends report it.
LinkDown ==
    /\ link
    /\ losses < MaxLosses
    /\ losses' = losses + 1
    /\ link' = FALSE
    /\ \E q \in Cuts : inbox' = [e \in End |-> Append(q[e], Lost)]
    /\ UNCHANGED <<peer, services, forwards, streams, opens, drawn, stops>>

LinkUp ==
    /\ ~link
    /\ link' = TRUE
    /\ UNCHANGED <<inbox, peer, services, forwards, streams, opens, drawn, losses, stops>>

\* The client reconnects while the server still holds its old session: the
\* client reports the loss, the server keeps the peer and reports nothing.
SessionReplaced ==
    /\ link
    /\ losses < MaxLosses
    /\ losses' = losses + 1
    /\ \E q \in Cuts : inbox' = [q EXCEPT !["c"] = Append(@, Lost)]
    /\ UNCHANGED <<link, peer, services, forwards, streams, opens, drawn, stops>>

\* The client has missed three pongs and reports the peer gone; the session
\* itself stays up.
PingOut ==
    /\ link
    /\ losses < MaxLosses
    /\ losses' = losses + 1
    /\ inbox' = [inbox EXCEPT !["c"] = Append(@, Lost)]
    /\ UNCHANGED <<link, peer, services, forwards, streams, opens, drawn, stops>>

-----------------------------------------------------------------------------

Handle(e) ==
    \/ Ignore(e) \/ HandleOpen(e) \/ HandleOpenAck(e) \/ HandleData(e)
    \/ HandleClose(e) \/ OnPeerDisconnected(e)

Timers(e, i) == ConnectTimeout(e, i) \/ DialService(e, i)

Sockets(e, i) == LocalWrite(e, i) \/ Connected(e, i) \/ DialError(e, i) \/ SocketClosed(e, i)

Calls(e) ==
    \/ SetPeer(e)
    \/ \E s \in Service :
          \/ RegisterService(e, s) \/ UnregisterService(e, s)
          \/ StartLocalForward(e, s) \/ StopLocalForward(e, s)
          \/ AcceptLocalConnection(e, s)
    \/ \E keepPeer \in BOOLEAN : StopTunnels(e, keepPeer)

Session == LinkDown \/ LinkUp \/ SessionReplaced \/ PingOut

Next ==
    \/ Session
    \/ \E e \in End :
          \/ Calls(e) \/ Handle(e)
          \/ \E i \in Id : Timers(e, i) \/ Sockets(e, i)

Spec == Init /\ [][Next]_vars

\* Qt delivers queued events, and its timers fire.
Fairness ==
    \A e \in End : WF_vars(Handle(e)) /\ \A i \in Id : WF_vars(Timers(e, i))

FairSpec == Spec /\ Fairness

-----------------------------------------------------------------------------
(* Properties. *)

\* Without a selected peer an end holds no stream and no forward:
\* onPeerDisconnected, and every caller that clears the peer, tears both down.
NoPeerNoTunnel ==
    \A e \in End : ~peer[e] => forwards[e] = {} /\ \A i \in Id : ~Has(e, i)

\* Every accepted stream belongs to a forward that is still listening, so that
\* stopLocalForward reaches every stream it has to close.
AcceptedHasForward ==
    \A e \in End : \A i \in Id :
        Has(e, i) /\ ~streams[e][i].dialer => streams[e][i].service \in forwards[e]

\* An accepted stream becomes ready only by the answer to its own OPEN, which
\* handleOpenAck tells by the token: while the OPEN is still on its way the
\* stream is not ready, though an answer to an earlier stream of the same id
\* may arrive.
ReadyWasOpened ==
    \A e \in End : \A i \in Id : \A k \in DOMAIN inbox[Other(e)] :
        LET f == inbox[Other(e)][k]
        IN  (/\ Has(e, i) /\ ~streams[e][i].dialer /\ streams[e][i].ready
             /\ f.mask = "OPEN")
            => f.token # streams[e][i].token

\* handleData queues a chunk also on a stream that is still being dialed, and
\* the connected handler would then use the stream after flushing that queue,
\* which may have destroyed it: no DATA ever waits for such a stream, as long as
\* no stream id is drawn twice (FreshIds).
NoDataWhileDialing ==
    \A e \in End : \A k \in DOMAIN inbox[e] :
        LET f == inbox[e][k]
        IN  f.mask = "DATA" /\ Has(e, f.id) /\ streams[e][f.id].dialer => streams[e][f.id].ready

Quiet == \A e \in End : inbox[e] = <<>>

\* The stream of id i at end e has its counterpart at the other end.
Paired(e, i) ==
    LET o == Other(e)
    IN  /\ Has(o, i)
        /\ streams[o][i].ready
        /\ streams[o][i].token = streams[e][i].token
        /\ streams[o][i].dialer # streams[e][i].dialer

\* While the session holds and nobody calls stopTunnels, no ready stream is
\* left behind: once all frames are handled it has a ready counterpart.
NoOrphan ==
    (losses = 0 /\ stops = 0 /\ Quiet) =>
        \A e \in End : \A i \in Id : Has(e, i) /\ streams[e][i].ready => Paired(e, i)

\* The connect timer resolves every open: a stream becomes ready at both ends
\* or is gone from both, as long as the session holds and stopTunnels is not
\* called.
OpenResolves ==
    \A i \in Id :
        (\E e \in End : Has(e, i)) ~>
            \/ \A e \in End : Has(e, i) /\ streams[e][i].ready
            \/ \A e \in End : ~Has(e, i)
            \/ losses > 0 \/ stops > 0

\* A reported loss ends every stream of the end it is reported to, also the
\* ones created between the loss and the event: onPeerDisconnected finds the
\* peer and destroys all, or the peer was cleared and nothing is left.
LossEndsStreams ==
    \A e \in End : \A i \in Id :
        (Has(e, i) /\ \E k \in DOMAIN inbox[e] : inbox[e][k].mask = "LOST") ~> ~Has(e, i)
=============================================================================
