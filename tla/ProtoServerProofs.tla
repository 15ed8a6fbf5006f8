------------------------- MODULE ProtoServerProofs -------------------------
(***************************************************************************)
(* The address maps of ProtoServer, for any number of hosts, addresses and  *)
(* sessions: they are inverse to each other, and a mapping never outlives   *)
(* the sessions of its address.                                            *)
(***************************************************************************)
EXTENDS ProtoServer, SequenceTheorems, TLAPS

\* What the proofs need of the types.
MapTypes ==
    /\ sessions \in Seq(Session)
    /\ opened \in 0..MaxSessions
    /\ realToRemote \in [Host -> Addr \cup {None}]
    /\ remoteToReal \in [Addr -> Host \cup {None}]

\* The inductive invariant.
MapInv == MapTypes /\ MapsInverse /\ MappedIsConnected

\* Removing an element keeps every other one, possibly at the index before.
LEMMA RemoveAtFacts ==
    ASSUME NEW S, NEW s \in Seq(S), NEW k \in DOMAIN s
    PROVE  /\ RemoveAt(s, k) \in Seq(S)
           /\ \A j \in DOMAIN s : j # k => \E i \in DOMAIN RemoveAt(s, k) : RemoveAt(s, k)[i] = s[j]
<1> DEFINE p == SubSeq(s, 1, k - 1)
           q == SubSeq(s, k + 1, Len(s))
<1>1. k \in 1..Len(s) /\ Len(s) \in Nat
  BY LenProperties
<1>2. p \in Seq(S) /\ Len(p) = k - 1 /\ \A i \in 1..(k - 1) : p[i] = s[i]
  BY <1>1, SubSeqProperties
<1>3. /\ q \in Seq(S)
      /\ Len(q) = Len(s) - k
      /\ \A i \in 1..(Len(s) - k) : q[i] = s[k + i]
  <2>1. CASE k = Len(s)
    BY <1>1, <2>1, SubSeqProperties
  <2>2. CASE k # Len(s)
    BY SMTT(30), <1>1, <2>2, SubSeqProperties
  <2>3. QED
    BY <2>1, <2>2
<1>4. RemoveAt(s, k) = p \o q
  BY DEF RemoveAt
<1> HIDE DEF p, q
<1>5. /\ p \o q \in Seq(S)
      /\ Len(p \o q) = Len(s) - 1
      /\ \A i \in 1..(Len(s) - 1) : (p \o q)[i] = IF i <= k - 1 THEN p[i] ELSE q[i - (k - 1)]
  BY SMTT(30), <1>1, <1>2, <1>3, ConcatProperties
<1>6. DOMAIN (p \o q) = 1..(Len(s) - 1)
  BY <1>5, LenProperties
<1>7. ASSUME NEW j \in DOMAIN s, j # k
      PROVE  \E i \in DOMAIN (p \o q) : (p \o q)[i] = s[j]
  <2>1. j \in 1..Len(s)
    BY LenProperties
  <2>2. CASE j < k
    <3>1. j \in 1..(Len(s) - 1) /\ j <= k - 1 /\ j \in 1..(k - 1)
      BY <1>1, <2>1, <2>2
    <3>2. QED
      BY SMTT(30), <3>1, <1>2, <1>5, <1>6
  <2>3. CASE j > k
    <3>1. /\ j - 1 \in 1..(Len(s) - 1)
          /\ ~(j - 1 <= k - 1)
          /\ j - k \in 1..(Len(s) - k)
          /\ (j - 1) - (k - 1) = j - k
          /\ k + (j - k) = j
      BY <1>1, <2>1, <2>3
    <3>2. (p \o q)[j - 1] = q[j - k]
      BY Zenon, <3>1, <1>5
    <3>3. q[j - k] = s[j]
      BY <3>1, <1>3
    <3>4. QED
      BY Zenon, <3>1, <3>2, <3>3, <1>6
  <2>4. QED
    BY SMTT(30), <1>1, <1>7, <2>1, <2>2, <2>3
<1>8. QED
  BY <1>4, <1>5, <1>7

\* The fields of a registered session.
LEMMA SessionFields ==
    ASSUME sessions \in Seq(Session), NEW k \in DOMAIN sessions
    PROVE  sessions[k] \in Session /\ sessions[k].host \in Host /\ sessions[k].addr \in Addr
<1>1. sessions[k] \in Session
  BY ElementOfSeq, LenProperties
<1>2. QED
  BY <1>1 DEF Session

LEMMA MapInit == Init => MapInv
<1> SUFFICES ASSUME Init PROVE MapInv
  OBVIOUS
<1>1. MapTypes
  BY ServerAssumption DEF Init, MapTypes
<1>2. MapsInverse
  BY ServerAssumption DEF Init, MapsInverse
<1>3. MappedIsConnected
  BY DEF Init, MappedIsConnected
<1>4. QED
  BY <1>1, <1>2, <1>3 DEF MapInv

\* A step that only changes the stage of a session leaves its address alone.
LEMMA StageChange ==
    ASSUME sessions \in Seq(Session), NEW k \in DOMAIN sessions,
           NEW stage \in {"connected", "handshaked", "told"},
           sessions' = [sessions EXCEPT ![k].stage = stage]
    PROVE  /\ sessions' \in Seq(Session)
           /\ \A a : At(a)' = At(a)
<1>1. [sessions[k] EXCEPT !.stage = stage] \in Session
  BY SMTT(30), SessionFields DEF Session
<1>2. sessions' = [sessions EXCEPT ![k] = [sessions[k] EXCEPT !.stage = stage]]
  OBVIOUS
<1>3. sessions' \in Seq(Session)
  BY <1>1, <1>2, ExceptSeq
<1>4. DOMAIN sessions' = DOMAIN sessions
  BY <1>2
<1>5. \A j \in DOMAIN sessions : sessions'[j].addr = sessions[j].addr
  <2>1. [sessions[k] EXCEPT !.stage = stage].addr = sessions[k].addr
    BY SessionFields DEF Session
  <2>2. QED
    BY <2>1, <1>2
<1>6. QED
  BY SMTT(30), <1>3, <1>4, <1>5 DEF At

LEMMA MapConnected ==
    ASSUME MapInv, NEW h \in Host, NEW a \in Addr, OnConnected(h, a)
    PROVE  MapInv'
<1> DEFINE new == [id |-> opened + 1, host |-> h, addr |-> a, stage |-> "connected"]
<1>1. new \in Session
  BY ServerAssumption DEF MapInv, MapTypes, OnConnected, Session
<1>2. sessions' = Append(sessions, new) /\ sessions \in Seq(Session)
  BY DEF MapInv, MapTypes, OnConnected
<1> HIDE DEF new
<1>3. /\ sessions' \in Seq(Session)
      /\ DOMAIN sessions \subseteq DOMAIN sessions'
      /\ \A j \in DOMAIN sessions : sessions'[j] = sessions[j]
  BY SMTT(30), <1>1, <1>2, AppendProperties, LenProperties
<1>4. MapTypes'
  BY <1>3, ServerAssumption DEF MapInv, MapTypes, OnConnected
<1>5. MapsInverse'
  BY DEF MapInv, MapsInverse, OnConnected
<1>6. MappedIsConnected'
  <2>1. \A b \in Addr : At(b) \subseteq At(b)'
    BY <1>3 DEF At
  <2>2. QED
    BY <2>1 DEF MapInv, MappedIsConnected, OnConnected
<1>7. QED
  BY <1>4, <1>5, <1>6 DEF MapInv

LEMMA MapHandshaked ==
    ASSUME MapInv, NEW k \in DOMAIN sessions, OnHandshaked(k)
    PROVE  MapInv'
<1>1. sessions \in Seq(Session) /\ sessions' = [sessions EXCEPT ![k].stage = "handshaked"]
  BY DEF MapInv, MapTypes, OnHandshaked
<1>2. sessions' \in Seq(Session) /\ \A a : At(a)' = At(a)
  BY Zenon, <1>1, StageChange
<1>3. QED
  BY <1>2 DEF MapInv, MapTypes, MapsInverse, MappedIsConnected, OnHandshaked

LEMMA MapRealIP ==
    ASSUME MapInv, NEW k \in DOMAIN sessions, HandleRealIPMapping(k)
    PROVE  MapInv'
<1> DEFINE real == sessions[k].host
           remote == sessions[k].addr
<1>1. sessions \in Seq(Session) /\ sessions' = [sessions EXCEPT ![k].stage = "told"]
  BY DEF MapInv, MapTypes, HandleRealIPMapping
<1>2. sessions' \in Seq(Session) /\ \A a : At(a)' = At(a)
  BY Zenon, <1>1, StageChange
<1>3. real \in Host /\ remote \in Addr
  BY <1>1, SessionFields
<1>4. /\ realToRemote' = [h \in Host |->
             IF h = real THEN remote
             ELSE IF h = remoteToReal[remote] THEN None ELSE realToRemote[h]]
      /\ remoteToReal' = [a \in Addr |->
             IF a = remote THEN real
             ELSE IF a = realToRemote[real] THEN None ELSE remoteToReal[a]]
      /\ opened' = opened
  BY DEF HandleRealIPMapping
<1>5. k \in At(remote)
  BY DEF At
<1> HIDE DEF real, remote
<1>6. MapTypes'
  BY SMTT(30), <1>2, <1>3, <1>4 DEF MapInv, MapTypes
<1>7. MapsInverse'
  <2> SUFFICES ASSUME NEW h \in Host, NEW a \in Addr
               PROVE  realToRemote'[h] = a <=> remoteToReal'[a] = h
    BY DEF MapsInverse
  <2>1. None # a /\ None # h
    BY ServerAssumption
  <2>2. \A g \in Host, b \in Addr : realToRemote[g] = b <=> remoteToReal[b] = g
    BY DEF MapInv, MapsInverse
  <2>3. QED
    BY SMTT(30), <1>3, <1>4, <2>1, <2>2
<1>8. MappedIsConnected'
  BY SMTT(30), <1>2, <1>3, <1>4, <1>5 DEF MapInv, MappedIsConnected
<1>9. QED
  BY <1>6, <1>7, <1>8 DEF MapInv

LEMMA MapDisconnected ==
    ASSUME MapInv, NEW k \in DOMAIN sessions, OnDisconnected(k)
    PROVE  MapInv'
<1> DEFINE a == sessions[k].addr
<1>1. sessions \in Seq(Session) /\ sessions' = RemoveAt(sessions, k) /\ opened' = opened
  BY DEF MapInv, MapTypes, OnDisconnected
<1>2. /\ sessions' \in Seq(Session)
      /\ \A j \in DOMAIN sessions : j # k => \E i \in DOMAIN sessions' : sessions'[i] = sessions[j]
  BY <1>1, RemoveAtFacts
<1>3. a \in Addr
  BY <1>1, SessionFields
<1>4. \A b \in Addr : (\E j \in At(b) : j # k) => At(b)' # {}
  BY <1>2 DEF At
<1>5. \A b \in Addr : b # a /\ At(b) # {} => At(b)' # {}
  BY <1>4 DEF At
<1>6. CASE \E j \in At(a) : j # k
  <2>1. realToRemote' = realToRemote /\ remoteToReal' = remoteToReal
    BY <1>6 DEF OnDisconnected
  <2>2. \A b \in Addr : At(b) # {} => At(b)' # {}
    BY SMTT(30), <1>3, <1>4, <1>5, <1>6
  <2>3. QED
    BY SMTT(30), <1>1, <1>2, <2>1, <2>2 DEF MapInv, MapTypes, MapsInverse, MappedIsConnected
<1>7. CASE ~(\E j \in At(a) : j # k)
  <2>1. /\ realToRemote' = [h \in Host |->
               IF h = remoteToReal[a] THEN None ELSE realToRemote[h]]
        /\ remoteToReal' = [remoteToReal EXCEPT ![a] = None]
    BY <1>7 DEF OnDisconnected
  <2> HIDE DEF a
  <2>2. MapTypes'
    BY SMTT(30), <1>1, <1>2, <1>3, <2>1 DEF MapInv, MapTypes
  <2>3. MapsInverse'
    <3> SUFFICES ASSUME NEW h \in Host, NEW b \in Addr
                 PROVE  realToRemote'[h] = b <=> remoteToReal'[b] = h
      BY DEF MapsInverse
    <3>1. None # b /\ None # h
      BY ServerAssumption
    <3>2. \A g \in Host, c \in Addr : realToRemote[g] = c <=> remoteToReal[c] = g
      BY DEF MapInv, MapsInverse
    <3>3. remoteToReal \in [Addr -> Host \cup {None}]
      BY DEF MapInv, MapTypes
    <3>4. QED
      BY SMTT(30), <1>3, <2>1, <3>1, <3>2, <3>3
  <2>4. MappedIsConnected'
    BY SMTT(30), <1>3, <1>5, <2>1 DEF MapInv, MapTypes, MappedIsConnected
  <2>5. QED
    BY <2>2, <2>3, <2>4 DEF MapInv
<1>8. QED
  BY <1>6, <1>7

\* The other steps touch neither the table nor the maps.
LEMMA MapUntouched ==
    ASSUME MapInv, UNCHANGED <<sessions, opened, realToRemote, remoteToReal>>
    PROVE  MapInv'
BY DEF MapInv, MapTypes, MapsInverse, MappedIsConnected, At

LEMMA MapStep == MapInv /\ [Next]_vars => MapInv'
<1> SUFFICES ASSUME MapInv, [Next]_vars PROVE MapInv'
  OBVIOUS
<1>1. CASE \E h \in Host, a \in Addr : OnConnected(h, a)
  BY <1>1, MapConnected
<1>2. ASSUME NEW k \in DOMAIN sessions, OnHandshaked(k) PROVE MapInv'
  BY <1>2, MapHandshaked
<1>3. ASSUME NEW k \in DOMAIN sessions, HandleRealIPMapping(k) PROVE MapInv'
  BY <1>3, MapRealIP
<1>4. ASSUME NEW k \in DOMAIN sessions, HandlePing(k) PROVE MapInv'
  BY <1>4, MapUntouched DEF HandlePing
<1>5. ASSUME NEW k \in DOMAIN sessions, OnDisconnected(k) PROVE MapInv'
  BY <1>5, MapDisconnected
<1>6. ASSUME NEW k \in DOMAIN sessions, Vanish(k) PROVE MapInv'
  BY <1>6, MapUntouched DEF Vanish
<1>7. CASE OnHeartbeatTimeout
  BY <1>7, MapUntouched DEF OnHeartbeatTimeout
<1>8. CASE UNCHANGED vars
  BY <1>8, MapUntouched DEF vars
<1>9. QED
  BY SMTT(30), <1>1, <1>2, <1>3, <1>4, <1>5, <1>6, <1>7, <1>8 DEF Next

LEMMA MapInvariant == Spec => []MapInv
BY MapInit, MapStep, PTL DEF Spec

\* handleRealIPMapping and onDisconnected keep _real_to_remote_ip and
\* _remote_to_real_ip inverse to each other, and onDisconnected removes the
\* mapping of an address with its last session, for any hosts and addresses.
THEOREM MapsTheorem == Spec => []MapsConsistent
<1>1. MapInv => MapsConsistent
  BY DEF MapInv, MapsConsistent
<1>2. QED
  BY MapInvariant, <1>1, PTL
=============================================================================
