---------------------------- MODULE ProtoServer ----------------------------
(***************************************************************************)
(* The session table of the listening endpoint: which session a message to  *)
(* a peer goes to, the mapping between the real address of a peer and the   *)
(* address its connection comes from (NAT), what is reported to the layer   *)
(* above, and the heartbeat.  All handlers run on the one asio thread.      *)
(* A host is named by its real address.                                    *)
(***************************************************************************)
EXTENDS Naturals, Sequences, SequencesExt

CONSTANTS
    Host,          \* peers, by real address
    Addr,          \* addresses connections come from; a host not behind NAT is its own
    AddrsOf,       \* [Host -> SUBSET Addr]
    SharedAddr,    \* may two hosts be connected from one address at a time?
    MaxSessions,   \* bound: connections accepted in a behaviour
    None

VARIABLES
    sessions,   \* Seq(Session): _session_ids, in order of registration
    opened,     \* connections accepted so far; session ids are 1..opened
    lost,       \* ids of sessions whose client vanished without closing
    realToRemote, remoteToReal,   \* _real_to_remote_ip, _remote_to_real_ip
    pings,      \* [Addr -> Nat or None]: _ping_remotes
    armed,      \* the heartbeat timer runs
    reported    \* [Addr -> what onStateChanged was last told]

vars == <<sessions, opened, lost, realToRemote, remoteToReal, pings, armed, reported>>

ASSUME ServerAssumption ==
    /\ AddrsOf \in [Host -> SUBSET Addr]
    /\ SharedAddr \in BOOLEAN
    /\ MaxSessions \in Nat
    /\ None \notin Host \cup Addr \cup Nat

\* stage: the TLS handshake is on, done, or done and the real address told.
Session == [id : 1..MaxSessions, host : Host, addr : Addr,
            stage : {"connected", "handshaked", "told"}]

TypeOK ==
    /\ sessions \in Seq(Session)
    /\ opened \in 0..MaxSessions
    /\ lost \subseteq 1..opened
    /\ realToRemote \in [Host -> Addr \cup {None}]
    /\ remoteToReal \in [Addr -> Host \cup {None}]
    /\ pings \in [Addr -> 0..3 \cup {None}]
    /\ armed \in BOOLEAN
    /\ reported \in [Addr -> {None, "connected", "disconnected", "pingout"}]

Init ==
    /\ sessions = <<>>
    /\ opened = 0
    /\ lost = {}
    /\ realToRemote = [h \in Host |-> None]
    /\ remoteToReal = [a \in Addr |-> None]
    /\ pings = [a \in Addr |-> None]
    /\ armed = FALSE
    /\ reported = [a \in Addr |-> None]

At(a) == {k \in DOMAIN sessions : sessions[k].addr = a}

-----------------------------------------------------------------------------

OnConnected(h, a) ==
    /\ a \in AddrsOf[h]
    /\ opened < MaxSessions
    /\ SharedAddr \/ \A k \in At(a) : sessions[k].host = h
    /\ opened' = opened + 1
    /\ sessions' = Append(sessions, [id |-> opened + 1, host |-> h, addr |-> a,
                                     stage |-> "connected"])
    /\ reported' = [reported EXCEPT ![a] = "connected"]
    /\ UNCHANGED <<lost, realToRemote, remoteToReal, pings, armed>>

\* The client of session k is still there and its session is at this stage.
Alive(k, stage) == sessions[k].id \notin lost /\ sessions[k].stage = stage

OnHandshaked(k) ==
    /\ Alive(k, "connected")
    /\ sessions' = [sessions EXCEPT ![k].stage = "handshaked"]
    /\ UNCHANGED <<opened, lost, realToRemote, remoteToReal, pings, armed, reported>>

\* (mutation) only the mapping of the real address is replaced
HandleRealIPMappingKeeps(k) ==
    LET real == sessions[k].host
        remote == sessions[k].addr
    IN  /\ Alive(k, "handshaked")
        /\ sessions' = [sessions EXCEPT ![k].stage = "told"]
        /\ realToRemote' = [realToRemote EXCEPT ![real] = remote]
        /\ remoteToReal' = [remoteToReal EXCEPT ![remote] = real]
        /\ UNCHANGED <<opened, lost, pings, armed, reported>>

\* The first thing a client sends after the handshake is its real address.
HandleRealIPMapping(k) ==
    LET real == sessions[k].host
        remote == sessions[k].addr
    IN  /\ Alive(k, "handshaked")
        /\ sessions' = [sessions EXCEPT ![k].stage = "told"]
        /\ realToRemote' = [h \in Host |->
               IF h = real THEN remote
               ELSE IF h = remoteToReal[remote] THEN None ELSE realToRemote[h]]
        /\ remoteToReal' = [a \in Addr |->
               IF a = remote THEN real
               ELSE IF a = realToRemote[real] THEN None ELSE remoteToReal[a]]
        /\ UNCHANGED <<opened, lost, pings, armed, reported>>

\* (mutation) the timer is started for the very first ping only
HandlePingOnce(k) ==
    LET a == sessions[k].addr
    IN  /\ Alive(k, "told")
        /\ pings' = [pings EXCEPT ![a] = 0]
        /\ armed' = (armed \/ opened = 1)
        /\ UNCHANGED <<sessions, opened, lost, realToRemote, remoteToReal, reported>>

\* (mutation) the ping is counted instead of reset
HandlePingCounts(k) ==
    LET a == sessions[k].addr
    IN  /\ Alive(k, "told")
        /\ pings' = [pings EXCEPT ![a] = IF @ = None THEN 0 ELSE @ + 1]
        /\ armed' = (armed \/ \A b \in Addr : pings[b] = None)
        /\ UNCHANGED <<sessions, opened, lost, realToRemote, remoteToReal, reported>>

HandlePing(k) ==
    LET a == sessions[k].addr
    IN  /\ Alive(k, "told")
        /\ pings' = [pings EXCEPT ![a] = 0]
        /\ armed' = (armed \/ \A b \in Addr : pings[b] = None)
        /\ UNCHANGED <<sessions, opened, lost, realToRemote, remoteToReal, reported>>

\* (mutation) the peer is reported gone with every session
OnDisconnectedReports(k) ==
    LET a == sessions[k].addr
    IN  /\ sessions[k].id \notin lost
        /\ sessions' = RemoveAt(sessions, k)
        /\ realToRemote' = [h \in Host |-> IF h = remoteToReal[a] THEN None ELSE realToRemote[h]]
        /\ remoteToReal' = [remoteToReal EXCEPT ![a] = None]
        /\ reported' = [reported EXCEPT ![a] = "disconnected"]
        /\ UNCHANGED <<opened, lost, pings, armed>>

\* (mutation) the mapping is not cleaned up
OnDisconnectedKeeps(k) ==
    LET a == sessions[k].addr
    IN  /\ sessions[k].id \notin lost
        /\ sessions' = RemoveAt(sessions, k)
        /\ reported' = IF \E j \in At(a) : j # k THEN reported
                       ELSE [reported EXCEPT ![a] = "disconnected"]
        /\ UNCHANGED <<opened, lost, realToRemote, remoteToReal, pings, armed>>

\* While another session of the address is registered the peer is not gone.
OnDisconnected(k) ==
    LET a == sessions[k].addr
        replaced == \E j \in At(a) : j # k
    IN  /\ sessions[k].id \notin lost
        /\ sessions' = RemoveAt(sessions, k)
        /\ IF replaced
           THEN UNCHANGED <<realToRemote, remoteToReal, reported>>
           ELSE /\ realToRemote' = [h \in Host |->
                       IF h = remoteToReal[a] THEN None ELSE realToRemote[h]]
                /\ remoteToReal' = [remoteToReal EXCEPT ![a] = None]
                /\ reported' = [reported EXCEPT ![a] = "disconnected"]
        /\ UNCHANGED <<opened, lost, pings, armed>>

\* The client loses power or its network: no message and no close any more.
Vanish(k) ==
    /\ sessions[k].id \notin lost
    /\ lost' = lost \cup {sessions[k].id}
    /\ UNCHANGED <<sessions, opened, realToRemote, remoteToReal, pings, armed, reported>>

\* The counters are compared with 3 and reset by pings; no code raises them.
OnHeartbeatTimeout ==
    /\ armed
    /\ IF sessions = <<>>
       THEN /\ pings' = [a \in Addr |-> None]
            /\ armed' = FALSE
            /\ UNCHANGED reported
       ELSE LET out == {a \in Addr : pings[a] = 3}
            IN  /\ pings' = [a \in Addr |-> IF a \in out THEN None ELSE pings[a]]
                /\ armed' = (\E a \in Addr \ out : pings[a] # None)
                /\ reported' = [a \in Addr |-> IF a \in out THEN "pingout" ELSE reported[a]]
    /\ UNCHANGED <<sessions, opened, lost, realToRemote, remoteToReal>>

-----------------------------------------------------------------------------
(* Where onSend sends a message to target: an index of sessions, or None. *)

\* (mutation) the first session found
Oldest(a) == IF At(a) = {} THEN None ELSE CHOOSE k \in At(a) : \A j \in At(a) : k <= j

Newest(a) == IF At(a) = {} THEN None ELSE CHOOSE k \in At(a) : \A j \in At(a) : j <= k

Route(target) ==
    IF target \in Addr /\ At(target) # {} THEN Newest(target)
    ELSE IF target \in Host /\ realToRemote[target] # None
         THEN Newest(realToRemote[target])
         ELSE None

-----------------------------------------------------------------------------

Next ==
    \/ \E h \in Host, a \in Addr : OnConnected(h, a)
    \/ \E k \in DOMAIN sessions :
          OnHandshaked(k) \/ HandleRealIPMapping(k) \/ HandlePing(k)
             \/ OnDisconnected(k) \/ Vanish(k)
    \/ OnHeartbeatTimeout

Spec == Init /\ [][Next]_vars
FairSpec == Spec /\ WF_vars(OnHeartbeatTimeout)

-----------------------------------------------------------------------------
(* Properties. *)

\* The two address maps are inverse to each other, whatever the order in which
\* hosts connect, tell their real address, move to another address and leave.
MapsInverse ==
    \A h \in Host, a \in Addr : realToRemote[h] = a <=> remoteToReal[a] = h

\* A mapping never outlives the sessions of its address: onDisconnected cleans
\* it up with the last of them.
MappedIsConnected == \A a \in Addr : remoteToReal[a] # None => At(a) # {}

\* Both hold together: handleRealIPMapping, which moves a host and displaces
\* another in one step, and onDisconnected, which tears sessions down late and
\* out of order, leave neither half a mapping nor one without a session.
MapsConsistent == MapsInverse /\ MappedIsConnected

\* The layer above believes a peer connected exactly while a session of its
\* address is registered: a reconnect whose old session is torn down late does
\* not report the peer as gone.
ReportedIffConnected == \A a \in Addr : (reported[a] = "connected") <=> (At(a) # {})

\* A message to a host goes to a session of that host, by its address or
\* through the mapping, or nowhere.
RouteReachesHost ==
    \A h \in Host : Route(h) # None => sessions[Route(h)].host = h

\* A client that reconnected from the same address is reached through a session
\* that works, not through one that its vanished predecessor left behind.
LiveBeatsDead ==
    \A h \in Host :
        (Route(h) # None /\ sessions[Route(h)].id \in lost) =>
            \A k \in At(sessions[Route(h)].addr) :
                k > Route(h) => sessions[k].id \in lost

\* While the server keeps count of the pings of some client its timer runs.
HeartbeatRuns == (\E a \in Addr : pings[a] # None) => armed

\* A client that has pinged and then vanished for good is reported by the
\* heartbeat.
VanishedIsReported ==
    \A a \in Addr :
        (pings[a] # None /\ At(a) # {} /\ \A k \in At(a) : sessions[k].id \in lost)
            ~> (reported[a] # "connected" \/ \E k \in At(a) : sessions[k].id \notin lost)
=============================================================================
