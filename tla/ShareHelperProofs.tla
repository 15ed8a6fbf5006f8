------------------------- MODULE ShareHelperProofs -------------------------
(***************************************************************************)
(* Cooperation for any number of devices, applications, switches and faults: *)
(* no barrier client runs while sharing is off, and the applicant of a       *)
(* session is not displaced while it lasts.                                  *)
(***************************************************************************)
EXTENDS ShareHelper, SequenceTheorems, TLAPS

Field ==
    {"recv", "replied", "timedOut", "confirming", "waiting", "supports", "port", "useTunnel",
     "sender", "target", "connected", "shown", "asked", "dialog", "confirmAddr", "peer",
     "forward", "on", "client", "server", "probes", "announce"}

\* A helper that has neither applied nor been applied to has no target, no
\* session and nothing to answer; a client runs only while sharing is on.
Good(s) ==
    /\ DOMAIN s = Field
    /\ s.client # "off" => s.on
    /\ s.recv /\ s.sender = None => s.target = None /\ ~s.connected /\ s.shown = {} /\ ~s.asked

\* The applicant stays while the session lasts.
Keeps(s, r) == s.recv /\ s.connected /\ r.connected => r.sender = s.sender

\* The inductive invariant.
ShareInv ==
    /\ net \in [Dev -> Seq(Message)] /\ gui \in [Dev -> Seq(Message)]
    /\ DOMAIN st = Dev /\ \A d \in Dev : Good(st[d])

\* What the parts of the handlers leave alone.
Mild(s, r) ==
    /\ DOMAIN r = Field
    /\ r.on = s.on /\ (r.client # "off" => r.on)
    /\ r.recv = s.recv /\ r.sender = s.sender /\ r.target = s.target
    /\ r.connected = s.connected /\ r.shown = s.shown
    /\ r.asked => s.asked

-----------------------------------------------------------------------------
(* Parts of the handlers. *)

\* A mild change keeps a helper good and its session as it is.
LEMMA MildIsGood ==
    ASSUME NEW s, NEW r, Good(s), Mild(s, r)
    PROVE  Good(r) /\ Keeps(s, r)
BY DEF Good, Mild, Keeps

\* startClientBarrier looks at the setting.
LEMMA Starts ==
    ASSUME NEW s, DOMAIN s = Field, s.client # "off" => s.on
    PROVE  Mild(s, StartClientBarrier(s))
BY DEF StartClientBarrier, Mild, Field

\* The other parts start no client.
LEMMA Stops ==
    ASSUME NEW s, DOMAIN s = Field, s.client # "off" => s.on
    PROVE  Mild(s, EndTunnel(s)) /\ Mild(s, StopClient(s)) /\ Mild(s, StopServer(s))
<1>1. Mild(s, EndTunnel(s))
  BY DEF EndTunnel, Mild, Field
<1>2. Mild(s, StopClient(s))
  BY DEF StopClient, Mild, Field
<1>3. Mild(s, StopServer(s))
  BY DEF StopServer, Mild, Field
<1>4. QED
  BY <1>1, <1>2, <1>3

\* Nor does a fallback from the tunnel start one against the setting.
LEMMA StartsDirect ==
    ASSUME NEW s, DOMAIN s = Field, s.client # "off" => s.on
    PROVE  Mild(s, Direct(s))
<1> DEFINE t == [s EXCEPT !.port = FALSE, !.useTunnel = FALSE]
<1>1. DOMAIN t = Field /\ Mild(s, t) /\ (t.client # "off" => t.on)
  BY DEF Mild, Field
<1> HIDE DEF t
<1>2. Mild(t, StartClientBarrier(t))
  BY <1>1, Starts
<1>3. QED
  BY <1>1, <1>2 DEF Mild, Direct, t

\* Nor does startTunnelBarrier, whether or not its forward starts.
LEMMA StartsTunnelled ==
    ASSUME NEW s, DOMAIN s = Field, s.client # "off" => s.on, NEW ip,
           NEW r \in StartTunnelBarrier(s, ip)
    PROVE  Mild(s, r)
<1>1. CASE r = s
  BY <1>1 DEF Mild
<1>2. CASE r # s
  <2>1. PICK ok \in BOOLEAN : r = StartClientBarrier([s EXCEPT !.peer = ip, !.forward = ok, !.port = ok,
                                 !.useTunnel = ok, !.asked = ok /\ @])
    BY Zenon, <1>2 DEF StartTunnelBarrier
  <2> DEFINE t == [s EXCEPT !.peer = ip, !.forward = ok, !.port = ok,
                            !.useTunnel = ok, !.asked = ok /\ @]
  <2>2. DOMAIN t = Field /\ Mild(s, t) /\ (t.client # "off" => t.on)
    BY Zenon DEF Mild, Field
  <2> HIDE DEF t
  <2>3. Mild(t, StartClientBarrier(t))
    BY <2>2, Starts
  <2>4. QED
    BY <2>1, <2>2, <2>3 DEF Mild, t
<1>3. QED
  BY <1>1, <1>2

\* switchPeripheralShared is told the setting: it stops the client when sharing
\* is off, so it may be called with a client that still runs.
LEMMA Switches ==
    ASSUME NEW s, DOMAIN s = Field, NEW on, s.on = on, NEW r \in SwitchPeripheralShared(s, on)
    PROVE  Mild(s, r)
<1>1. CASE ~on
  BY ZenonT(30), <1>1 DEF SwitchPeripheralShared, SwitchOff, StopClient, Mild, Field
<1>2. CASE on
  <2>1. r \in {s} \/ r \in StartTunnelBarrier(s, s.sender) \/ r \in {StartClientBarrier(s)}
    BY <1>2 DEF SwitchPeripheralShared
  <2>2. s.on /\ Mild(s, s)
    BY <1>2 DEF Mild
  <2>3. QED
    BY <2>1, <2>2, Starts, StartsTunnelled
<1>3. QED
  BY <1>1, <1>2

-----------------------------------------------------------------------------
(* Queues. *)

\* A queue takes a message, or gives its first.
LEMMA Queue ==
    ASSUME NEW Q \in [Dev -> Seq(Message)], NEW d \in Dev
    PROVE  /\ \A m \in Message : Post(Q, d, m) \in [Dev -> Seq(Message)]
           /\ Q[d] # <<>> => /\ [Q EXCEPT ![d] = Tail(@)] \in [Dev -> Seq(Message)]
                             /\ Head(Q[d]) \in Message /\ Head(Q[d]).from \in Dev
<1>1. Q[d] \in Seq(Message)
  OBVIOUS
<1>2. \A m \in Message : Append(Q[d], m) \in Seq(Message)
  BY <1>1
<1>3. \A m \in Message : Post(Q, d, m) \in [Dev -> Seq(Message)]
  BY <1>2 DEF Post
<1>4. ASSUME Q[d] # <<>>
      PROVE  Tail(Q[d]) \in Seq(Message) /\ Head(Q[d]) \in Message
  BY <1>1, <1>4
<1>5. \A m \in Message : m.from \in Dev
  BY Zenon DEF Message
<1>6. QED
  BY <1>1, <1>3, <1>4, <1>5

\* The messages of the handlers.
LEMMA Messages ==
    ASSUME NEW d \in Dev
    PROVE  /\ \A t \in {"APPLY", "STOP", "CANCELED", "UNABLE", "READY", "STOPSERVER", "EXCEPTED"} :
                  Msg(t, d, "") \in Message
           /\ Msg("APPLY", d, "tunnel") \in Message
           /\ \A f \in {"accept", "refuse", "busy"} : Msg("RESULT", d, f) \in Message
BY DEF Msg, Message

\* A device makes a step from a good helper to a good one.
LEMMA OneStep ==
    ASSUME ShareInv, NEW d \in Dev, NEW r, st' = [st EXCEPT ![d] = r],
           Good(r), Keeps(st[d], r),
           net' \in [Dev -> Seq(Message)], gui' \in [Dev -> Seq(Message)]
    PROVE  ShareInv' /\ \A x \in Dev : Keeps(st[x], st'[x])
<1>1. \A x \in Dev : st'[x] = IF x = d THEN r ELSE st[x]
  BY DEF ShareInv
<1>2. \A x \in Dev : Keeps(st[x], st[x])
  BY DEF Keeps
<1>3. DOMAIN st' = Dev
  BY DEF ShareInv
<1>4. \A x \in Dev : Good(st'[x]) /\ Keeps(st[x], st'[x])
  BY <1>1, <1>2 DEF ShareInv
<1>5. QED
  BY <1>3, <1>4 DEF ShareInv, Good

\* No helper changes.
LEMMA NoStep ==
    ASSUME ShareInv, st' = st,
           net' \in [Dev -> Seq(Message)], gui' \in [Dev -> Seq(Message)]
    PROVE  ShareInv' /\ \A x \in Dev : Keeps(st[x], st'[x])
BY DEF ShareInv, Good, Keeps

Kept == ShareInv' /\ \A x \in Dev : Keeps(st[x], st'[x])

-----------------------------------------------------------------------------
(* Actions. *)

\* What the user does keeps the invariant and the session.
LEMMA UserSteps ==
    ASSUME ShareInv, NEW d \in Dev, User(d)
    PROVE  Kept
<1> DEFINE s == st[d]
<1>1. /\ net \in [Dev -> Seq(Message)] /\ gui \in [Dev -> Seq(Message)]
      /\ Good(s) /\ DOMAIN s = Field /\ (s.client # "off" => s.on)
  BY DEF ShareInv, Good
<1>2. /\ \A p \in Dev, m \in Message : Post(net, p, m) \in [Dev -> Seq(Message)]
      /\ \A m \in Message : Post(gui, d, m) \in [Dev -> Seq(Message)]
  BY Zenon, <1>1, Queue
<1>3. ASSUME NEW r, Step(d, r), Mild(s, r), net' \in [Dev -> Seq(Message)], gui' = gui
      PROVE  Kept
  BY Zenon, <1>1, <1>3, MildIsGood, OneStep DEF Step, Kept
<1>4. ASSUME NEW p \in Dev, ConnectToDevice(d, p)
      PROVE  Kept
  <2>1. CASE s.connected
    <3> DEFINE r == [s EXCEPT !.dialog = "fail"]
    <3>1. Step(d, r) /\ net' = net /\ gui' = gui
      BY <1>4, <2>1 DEF ConnectToDevice
    <3>2. Mild(s, r)
      BY <1>1 DEF Mild, Field
    <3>3. QED
      BY <1>1, <1>3, <3>1, <3>2
  <2>2. CASE ~s.connected
    <3> DEFINE r == [s EXCEPT !.target = p, !.recv = FALSE, !.replied = FALSE,
                            !.timedOut = FALSE, !.supports = FALSE, !.port = FALSE,
                            !.useTunnel = FALSE, !.peer = p, !.dialog = "wait",
                            !.confirming = TRUE, !.confirmAddr = p]
    <3>1. /\ Step(d, r) /\ gui' = gui
          /\ net' = Post(net, p, Msg("APPLY", d, IF d \in Old THEN "" ELSE "tunnel"))
      BY Zenon, <1>4, <2>2 DEF ConnectToDevice
    <3>2. Good(r) /\ Keeps(s, r)
      BY Zenon, <1>1, <2>2 DEF Good, Keeps, Field
    <3>3. net' \in [Dev -> Seq(Message)]
      BY Zenon, <1>2, <3>1, Messages
    <3>4. QED
      BY Zenon, <1>1, <3>1, <3>2, <3>3, OneStep DEF Step, Kept
  <2>3. QED
    BY <2>1, <2>2
<1>5. ASSUME NEW p \in Dev, DisconnectToDevice(d, p)
      PROVE  Kept
  <2> DEFINE e == EndTunnel(StopClient(s))
             t == IF e.target = None THEN p ELSE e.target
             r == [e EXCEPT !.useTunnel = FALSE, !.target = t, !.connected = FALSE,
                            !.shown = @ \ {p, t}, !.asked = FALSE]
  <2>1. /\ Step(d, r) /\ p \in s.shown
        /\ net' = IF st[d].confirmAddr = p THEN Post(net, p, Msg("STOP", d, "")) ELSE net
        /\ gui' = Post(gui, d, Msg("STOPSERVER", d, ""))
    BY Zenon, <1>5 DEF DisconnectToDevice
  <2>2. Mild(s, e)
    <3>1. Mild(s, StopClient(s))
      BY <1>1, Stops
    <3>2. Mild(StopClient(s), e)
      BY <3>1, Stops DEF Mild
    <3>3. QED
      BY <3>1, <3>2 DEF Mild
  <2> HIDE DEF e
  <2>3. Good(r) /\ Keeps(s, r)
    BY Zenon, <1>1, <2>1, <2>2 DEF Good, Keeps, Mild, Field
  <2>4. net' \in [Dev -> Seq(Message)] /\ gui' \in [Dev -> Seq(Message)]
    BY Zenon, <1>1, <1>2, <2>1, Messages
  <2> HIDE DEF r
  <2>5. QED
    BY Zenon, <2>1, <2>3, <2>4, OneStep DEF Step, Kept
<1>6. CASE CancelShareApply(d)
  <2> DEFINE r == [EndTunnel(s) EXCEPT !.dialog = "none"]
  <2>1. /\ Step(d, r) /\ gui' = gui
        /\ net' = IF s.confirmAddr = s.target THEN Post(net, s.target, Msg("CANCELED", d, "")) ELSE net
    BY Zenon, <1>6 DEF CancelShareApply
  <2>2. Mild(s, r)
    <3>1. Mild(s, EndTunnel(s))
      BY <1>1, Stops
    <3>2. QED
      BY <3>1 DEF Mild, Field
  <2>3. net' \in [Dev -> Seq(Message)]
    <3>1. Msg("CANCELED", d, "") \in Message
      BY Zenon, Messages
    <3>2. \A p : Post(net, p, Msg("CANCELED", d, "")) \in [Dev -> Seq(Message)]
      BY Zenon, <1>1, <1>2, <3>1 DEF Post
    <3>3. QED
      BY Zenon, <1>1, <2>1, <3>2
  <2>4. QED
    BY Zenon, <1>3, <2>1, <2>2, <2>3
<1>7. CASE CloseDialog(d) \/ NoticeExpires(d)
  <2>1. PICK r \in {[s EXCEPT !.dialog = "none"], [s EXCEPT !.asked = FALSE]} :
            Step(d, r) /\ net' = net /\ gui' = gui
    BY <1>7 DEF CloseDialog, NoticeExpires
  <2>2. Mild(s, r)
    BY ZenonT(30), <1>1, <2>1 DEF Mild, Field
  <2>3. QED
    BY <1>1, <1>3, <2>1, <2>2
<1>8. CASE Accept(d)
  <2> DEFINE p == s.sender
             a == [s EXCEPT !.replied = TRUE, !.timedOut = FALSE, !.confirming = FALSE,
                    !.peer = p, !.port = FALSE, !.useTunnel = FALSE, !.target = p,
                    !.connected = TRUE, !.shown = @ \cup {p}, !.asked = FALSE]
             w == [a EXCEPT !.waiting = TRUE]
  <2>1. /\ s.asked /\ gui' = gui
        /\ Step(d, w) \/ \E r \in SwitchPeripheralShared(a, a.on) : Step(d, r)
        /\ net' = IF a.confirmAddr = p THEN Post(net, p, Msg("RESULT", d, "accept")) ELSE net
    BY <1>8 DEF Accept
  <2>2. /\ DOMAIN a = Field /\ Good(a) /\ Keeps(s, a) /\ a.sender = s.sender /\ a.recv = s.recv
        /\ a.connected
    BY Zenon, <1>1, <2>1 DEF Good, Keeps, Field
  <2>3. net' \in [Dev -> Seq(Message)]
    <3>1. Msg("RESULT", d, "accept") \in Message
      BY Zenon, Messages
    <3>2. \A x : Post(net, x, Msg("RESULT", d, "accept")) \in [Dev -> Seq(Message)]
      BY Zenon, <1>1, <1>2, <3>1 DEF Post
    <3>3. QED
      BY <1>1, <2>1, <3>2
  <2>4. Mild(a, w)
    BY Zenon, <2>2 DEF Mild, Field, Good
  <2> HIDE DEF a, w
  <2>5. PICK r : Step(d, r) /\ Mild(a, r)
    BY <2>1, <2>2, <2>4, Switches
  <2>6. Good(r) /\ Keeps(s, r)
    BY Zenon, <2>2, <2>5, MildIsGood DEF Mild, Keeps
  <2>7. QED
    BY Zenon, <1>1, <2>1, <2>3, <2>5, <2>6, OneStep DEF Step, Kept
<1>9. CASE Reject(d)
  <2> DEFINE r == [s EXCEPT !.replied = TRUE, !.timedOut = FALSE, !.confirming = FALSE, !.asked = FALSE]
  <2>1. /\ Step(d, r) /\ gui' = gui
        /\ net' = IF s.confirmAddr = s.sender THEN Post(net, s.sender, Msg("RESULT", d, "refuse")) ELSE net
    BY <1>9 DEF Reject
  <2>2. Mild(s, r)
    BY <1>1 DEF Mild, Field
  <2>3. net' \in [Dev -> Seq(Message)]
    <3>1. Msg("RESULT", d, "refuse") \in Message
      BY Zenon, Messages
    <3>2. \A x : Post(net, x, Msg("RESULT", d, "refuse")) \in [Dev -> Seq(Message)]
      BY Zenon, <1>1, <1>2, <3>1 DEF Post
    <3>3. QED
      BY <1>1, <2>1, <3>2
  <2>4. QED
    BY <1>3, <2>1, <2>2, <2>3
<1>10. CASE OnAppAttributeChanged(d)
  <2> DEFINE o == [s EXCEPT !.on = ~@]
  <2>1. PICK r \in SwitchPeripheralShared(o, ~s.on) : Step(d, r) /\ net' = net /\ gui' = gui
    BY <1>10 DEF OnAppAttributeChanged
  <2>2. DOMAIN o = Field /\ o.on = ~s.on
    BY <1>1 DEF Field
  <2>3. Mild(o, r)
    BY Zenon, <2>1, <2>2, Switches
  <2>4. /\ o.recv = s.recv /\ o.sender = s.sender /\ o.target = s.target
        /\ o.connected = s.connected /\ o.shown = s.shown /\ o.asked = s.asked
    BY <1>1 DEF Field
  <2> HIDE DEF o
  <2>5. Good(r) /\ Keeps(s, r)
    BY <1>1, <2>3, <2>4 DEF Mild, Good, Keeps
  <2>6. QED
    BY Zenon, <1>1, <2>1, <2>5, OneStep DEF Step, Kept
<1>11. CASE StopCooperation(d)
  <2> DEFINE r == [Fresh EXCEPT !.on = s.on]
             n == Post(net, s.target, Msg("STOP", d, ""))
  <2>1. /\ Step(d, r)
        /\ net' = [n EXCEPT ![d] = <<>>] \/ net' = [net EXCEPT ![d] = <<>>]
        /\ gui' = [gui EXCEPT ![d] = <<>>]
    BY Zenon, <1>11 DEF StopCooperation
  <2>2. Good(r) /\ Keeps(s, r)
    BY DEF Good, Keeps, Fresh, Field
  <2>3. n \in [Dev -> Seq(Message)]
    <3>1. Msg("STOP", d, "") \in Message
      BY Zenon, Messages
    <3>2. QED
      BY Zenon, <1>1, <1>2, <3>1 DEF Post
  <2> HIDE DEF r, n
  <2>4. net' \in [Dev -> Seq(Message)] /\ gui' \in [Dev -> Seq(Message)]
    <3>1. <<>> \in Seq(Message)
      OBVIOUS
    <3>2. QED
      BY Zenon, <1>1, <2>1, <2>3, <3>1
  <2>5. QED
    BY Zenon, <2>1, <2>2, <2>4, OneStep DEF Step, Kept
<1>12. QED
  BY <1>4, <1>5, <1>6, <1>7, <1>8, <1>9, <1>10, <1>11 DEF User

\* So do timers and probes.
LEMMA TimerSteps ==
    ASSUME ShareInv, NEW d \in Dev, Timers(d)
    PROVE  Kept
<1> DEFINE s == st[d]
<1>1. /\ net \in [Dev -> Seq(Message)] /\ gui \in [Dev -> Seq(Message)]
      /\ Good(s) /\ DOMAIN s = Field /\ (s.client # "off" => s.on)
  BY DEF ShareInv, Good
<1>2. ASSUME NEW r, Step(d, r), Mild(s, r), net' \in [Dev -> Seq(Message)], gui' = gui
      PROVE  Kept
  BY Zenon, <1>1, <1>2, MildIsGood, OneStep DEF Step, Kept
<1>3. CASE OnVerifyTimeout(d)
  <2> DEFINE v == [s EXCEPT !.confirming = FALSE, !.timedOut = TRUE]
             r == IF v.replied THEN v
                  ELSE IF v.recv THEN [v EXCEPT !.asked = FALSE]
                  ELSE [v EXCEPT !.dialog = IF @ = "none" THEN @ ELSE "retry"]
  <2>1. Step(d, r) /\ net' = net /\ gui' = gui
    BY <1>3 DEF OnVerifyTimeout
  <2>2. Mild(s, r)
    BY <1>1 DEF Mild, Field
  <2>3. QED
    BY <1>1, <1>2, <2>1, <2>2
<1>4. CASE BarrierReadyTimeout(d)
  <2> DEFINE v == [s EXCEPT !.waiting = FALSE]
  <2>1. PICK r \in {v, Direct(v)} : Step(d, r) /\ net' = net /\ gui' = gui
    BY <1>4 DEF BarrierReadyTimeout
  <2>2. Mild(s, v)
    BY <1>1 DEF Mild, Field
  <2> HIDE DEF v
  <2>3. Mild(s, r)
    <3>1. Mild(v, Direct(v))
      BY <2>2, StartsDirect DEF Mild
    <3>2. QED
      BY <2>1, <2>2, <3>1 DEF Mild
  <2>4. QED
    BY <1>1, <1>2, <2>1, <2>3
<1>5. ASSUME NEW p \in Dev, SendBarrierReady(d, p)
      PROVE  Kept
  <2> DEFINE r == [s EXCEPT !.announce = @ \ {p}]
  <2>1. /\ Step(d, r) /\ gui' = gui
        /\ net' = IF d \in Old THEN net ELSE Post(net, p, Msg("READY", d, ""))
    BY Zenon, <1>5 DEF SendBarrierReady
  <2>2. Mild(s, r)
    BY <1>1 DEF Mild, Field
  <2>3. net' \in [Dev -> Seq(Message)]
    BY Zenon, <1>1, <2>1, Queue, Messages
  <2>4. QED
    BY Zenon, <1>2, <2>1, <2>2, <2>3
<1>6. CASE ProbeConnected(d) \/ ProbeFailed(d)
  <2> DEFINE v == [s EXCEPT !.probes = @ - 1]
  <2>1. PICK r : /\ r = Direct(v) \/ r \in StartTunnelBarrier(v, s.sender)
                 /\ Step(d, r) /\ net' = net /\ gui' = gui
    BY <1>6 DEF ProbeConnected, ProbeFailed
  <2>2. Mild(s, v)
    BY <1>1 DEF Mild, Field
  <2> HIDE DEF v
  <2>3. Mild(v, r)
    BY <2>1, <2>2, StartsDirect, StartsTunnelled DEF Mild
  <2>4. Mild(s, r)
    BY <2>2, <2>3 DEF Mild
  <2>5. QED
    BY <1>1, <1>2, <2>1, <2>4
<1>7. QED
  BY <1>3, <1>4, <1>5, <1>6 DEF Timers

\* So do the calls queued on the GUI thread.
LEMMA QueuedSteps ==
    ASSUME ShareInv, NEW d \in Dev, Handle(d)
    PROVE  Kept
<1> DEFINE s == st[d]
           p == Head(gui[d]).from
<1>1. /\ net \in [Dev -> Seq(Message)] /\ gui \in [Dev -> Seq(Message)] /\ gui[d] # <<>>
      /\ Good(s) /\ DOMAIN s = Field /\ (s.client # "off" => s.on)
  BY Zenon DEF ShareInv, Good, Handle, NotifyConnectRequest, HandleConnectResult, HandleBarrierReady,
         HandleDisConnectResult, HandleCancelCooperApply, HandleStopShareServer, OnShareExcepted, Queued
<1>2. p \in Dev /\ p # None /\ [gui EXCEPT ![d] = Tail(@)] \in [Dev -> Seq(Message)]
  BY SMTT(30), <1>1, Queue, ShareAssumption
<1>3. ASSUME NEW r, Step(d, r), Mild(s, r) \/ (Good(r) /\ Keeps(s, r)), net' = net, Handled(d)
      PROVE  Kept
  BY Zenon, <1>1, <1>2, <1>3, MildIsGood, OneStep DEF Step, Kept, Handled
<1>4. Mild(s, s) /\ Mild(s, EndTunnel(s)) /\ Mild(s, StopServer(s))
  BY <1>1, Stops DEF Mild
<1>5. CASE NotifyConnectRequest(d)
  <2>1. CASE Cooperating(s) \/ (s.recv /\ s.connected)
    <3>1. net' = Post(net, p, Msg("RESULT", d, "busy")) /\ st' = st /\ Handled(d)
      BY <1>5, <2>1 DEF NotifyConnectRequest
    <3>2. net' \in [Dev -> Seq(Message)]
      BY Zenon, <1>1, <1>2, <3>1, Queue, Messages
    <3>3. QED
      BY <1>2, <3>1, <3>2, NoStep DEF Handled, Kept
  <2>2. CASE ~(Cooperating(s) \/ (s.recv /\ s.connected))
    <3> DEFINE e == EndTunnel(s)
               r == [e EXCEPT !.replied = FALSE, !.timedOut = FALSE,
                              !.recv = TRUE, !.sender = p, !.useTunnel = FALSE,
                              !.supports = (Head(gui[d]).flag = "tunnel"),
                              !.confirming = FALSE, !.asked = TRUE]
    <3>1. Step(d, r) /\ net' = net /\ Handled(d)
      BY <1>5, <2>2 DEF NotifyConnectRequest
    <3>2. Mild(s, e)
      BY <1>4
    <3> HIDE DEF e, p
    <3>3. Good(r) /\ Keeps(s, r)
      BY <1>2, <2>2, <3>2 DEF Mild, Good, Keeps, Field
    <3> HIDE DEF r
    <3>4. QED
      BY <1>3, <3>1, <3>3
  <2>3. QED
    BY <2>1, <2>2
<1>6. CASE HandleConnectResult(d)
  <2> DEFINE a == [s EXCEPT !.replied = TRUE, !.confirming = FALSE]
             failed == [a EXCEPT !.dialog = "fail", !.target = None, !.connected = FALSE]
             started == [a EXCEPT !.server = TRUE, !.client = "off", !.peer = a.target,
                                 !.announce = @ \cup {a.target}, !.connected = TRUE,
                                 !.shown = @ \cup {a.target}, !.asked = FALSE,
                                 !.dialog = "none"]
  <2>1. /\ net' = net /\ Handled(d)
        /\ \/ Step(d, a)
           \/ Step(d, failed)
           \/ Step(d, [failed EXCEPT !.server = FALSE])
           \/ Step(d, started) /\ a.target # None
    BY <1>6 DEF HandleConnectResult
  <2>2. Mild(s, a)
    BY <1>1 DEF Mild, Field
  <2> HIDE DEF a
  <2>3. Good(a) /\ DOMAIN a = Field /\ Keeps(s, a)
    BY Zenon, <1>1, <2>2, MildIsGood DEF Mild
  <2>4. Good(failed) /\ Keeps(s, failed)
    BY <2>3 DEF Good, Keeps, Field
  <2>5. Good([failed EXCEPT !.server = FALSE]) /\ Keeps(s, [failed EXCEPT !.server = FALSE])
    BY <2>3 DEF Good, Keeps, Field
  <2>6. a.target # None => Good(started) /\ Keeps(s, started)
    BY <2>2, <2>3 DEF Good, Keeps, Field, Mild
  <2> HIDE DEF failed, started
  <2>7. QED
    BY <1>3, <2>1, <2>3, <2>4, <2>5, <2>6
<1>7. CASE HandleBarrierReady(d)
  <2> DEFINE b == [s EXCEPT !.waiting = FALSE, !.sender = p, !.peer = p]
             c == [b EXCEPT !.probes = @ + 1]
  <2>1. /\ net' = net /\ Handled(d)
        /\ \/ Step(d, s)
           \/ s.recv /\ s.connected /\ s.sender \in {None, p} /\ (Step(d, b) \/ Step(d, c))
    BY <1>7 DEF HandleBarrierReady
  <2>2. s.recv /\ s.connected /\ s.sender \in {None, p} => s.sender = p
    BY <1>1 DEF Good
  <2> HIDE DEF p
  <2>3. s.sender = p => Mild(s, b) /\ Mild(s, c)
    BY <1>1 DEF Mild, Field
  <2> HIDE DEF b, c
  <2>4. QED
    BY <1>3, <1>4, <2>1, <2>2, <2>3
<1>8. CASE HandleDisConnectResult(d)
  <2>1. CASE s.target = None
    BY Zenon, <1>2, <1>1, <1>8, <2>1, NoStep DEF HandleDisConnectResult, Handled, Kept
  <2>2. CASE s.target # None
    <3> DEFINE e == EndTunnel(StopClient(s))
               r == [e EXCEPT !.useTunnel = FALSE, !.connected = FALSE, !.shown = @ \ {s.target},
                              !.target = None, !.asked = FALSE]
    <3>1. /\ Step(d, r) /\ net' = net
          /\ gui' = [gui EXCEPT ![d] = Append(Tail(@), Msg("STOPSERVER", d, ""))]
      BY Zenon, <1>8, <2>2 DEF HandleDisConnectResult
    <3>2. Mild(s, e)
      <4>1. Mild(s, StopClient(s))
        BY <1>1, Stops
      <4>2. Mild(StopClient(s), e)
        BY <4>1, Stops DEF Mild
      <4>3. QED
        BY <4>1, <4>2 DEF Mild
    <3> HIDE DEF e
    <3>3. Good(r) /\ Keeps(s, r)
      BY <1>1, <2>2, <3>2 DEF Good, Keeps, Mild, Field
    <3>4. gui' \in [Dev -> Seq(Message)]
      <4>1. Msg("STOPSERVER", d, "") \in Message
        BY Zenon, Messages
      <4>2. gui[d] \in Seq(Message) /\ gui[d] # <<>>
        BY <1>1
      <4>3. Append(Tail(gui[d]), Msg("STOPSERVER", d, "")) \in Seq(Message)
        BY Zenon, <4>1, <4>2, HeadTailProperties, AppendProperties
      <4>4. QED
        BY Zenon, <1>1, <3>1, <4>3
    <3> HIDE DEF r
    <3>5. QED
      BY Zenon, <1>1, <3>1, <3>3, <3>4, OneStep DEF Step, Kept
  <2>3. QED
    BY <2>1, <2>2
<1>9. CASE HandleCancelCooperApply(d)
  <2>1. PICK r \in {s, [s EXCEPT !.asked = FALSE]} : Step(d, r) /\ net' = net /\ Handled(d)
    BY <1>9 DEF HandleCancelCooperApply
  <2>2. Mild(s, r)
    BY Zenon, <1>1, <2>1 DEF Mild, Field
  <2>3. QED
    BY <1>3, <2>1, <2>2
<1>10. CASE HandleStopShareServer(d)
  BY <1>3, <1>4, <1>10 DEF HandleStopShareServer
<1>11. CASE OnShareExcepted(d)
  <2>1. PICK r \in {s, [EndTunnel(s) EXCEPT !.dialog = "fail"]} : Step(d, r) /\ net' = net /\ Handled(d)
    BY <1>11 DEF OnShareExcepted
  <2>2. Mild(s, r)
    BY <1>4, <2>1 DEF Mild, Field
  <2>3. QED
    BY <1>3, <2>1, <2>2
<1>12. QED
  BY <1>5, <1>6, <1>7, <1>8, <1>9, <1>10, <1>11 DEF Handle

\* So do network callbacks and faults.
LEMMA NetworkSteps ==
    ASSUME ShareInv, NEW d \in Dev, MsgCb(d) \/ Faulty(d)
    PROVE  Kept
<1> DEFINE s == st[d]
<1>1. /\ net \in [Dev -> Seq(Message)] /\ gui \in [Dev -> Seq(Message)]
      /\ Good(s) /\ DOMAIN s = Field /\ (s.client # "off" => s.on)
  BY DEF ShareInv, Good
<1>2. net[d] # <<>> =>
          /\ [net EXCEPT ![d] = Tail(@)] \in [Dev -> Seq(Message)]
          /\ Head(net[d]) \in Message /\ Head(net[d]).from \in Dev
  BY Zenon, <1>1, Queue
<1>3. CASE MsgCb(d)
  <2> DEFINE r == [s EXCEPT !.confirmAddr = Head(net[d]).from]
  <2>1. /\ net[d] # <<>>
        /\ gui' = Post(gui, d, Head(net[d])) /\ net' = [net EXCEPT ![d] = Tail(@)]
        /\ st' = [st EXCEPT ![d] = r] \/ st' = st
    BY <1>3 DEF MsgCb
  <2>2. gui' \in [Dev -> Seq(Message)] /\ net' \in [Dev -> Seq(Message)]
    BY Zenon, <1>1, <1>2, <2>1, Queue
  <2>3. Mild(s, r)
    BY <1>1 DEF Mild, Field
  <2> HIDE DEF r
  <2>4. QED
    BY Zenon, <1>1, <2>1, <2>2, <2>3, MildIsGood, OneStep, NoStep DEF Kept
<1>4. CASE Lose(d)
  BY <1>1, <1>2, <1>4, NoStep DEF Lose, Kept
<1>5. CASE ApplyUnanswered(d)
  <2>1. /\ net[d] # <<>> /\ st' = st
        /\ net' = net \/ net' = [net EXCEPT ![d] = Tail(@)]
        /\ gui' = Post(gui, Head(net[d]).from, Msg("UNABLE", d, ""))
    BY Zenon, <1>5 DEF ApplyUnanswered
  <2>2. gui' \in [Dev -> Seq(Message)]
    BY Zenon, <1>1, <1>2, <2>1, Queue, Messages
  <2>3. QED
    BY Zenon, <1>1, <1>2, <2>1, <2>2, NoStep DEF Kept
<1>6. CASE Overtake(d)
  <2> DEFINE q == net[d]
             o == <<q[2], q[1]>> \o SubSeq(q, 3, Len(q))
  <2>1. st' = st /\ gui' = gui /\ net' = [net EXCEPT ![d] = o] /\ q \in Seq(Message) /\ Len(q) > 1
    BY <1>1, <1>6 DEF Overtake
  <2>2. q[1] \in Message /\ q[2] \in Message
    BY <2>1, ElementOfSeq
  <2>3. SubSeq(q, 3, Len(q)) \in Seq(Message)
    BY <2>1
  <2>4. o \in Seq(Message)
    BY <2>2, <2>3
  <2> HIDE DEF o
  <2>5. QED
    BY <1>1, <2>1, <2>4, NoStep DEF Kept
<1>7. CASE SessionLost(d)
  <2> DEFINE r == [s EXCEPT !.forward = FALSE, !.peer = None]
  <2>1. /\ Step(d, r) /\ net' = net
        /\ gui' = gui \/ gui' = Post(gui, d, Msg("EXCEPTED", d, ""))
    BY Zenon, <1>7 DEF SessionLost
  <2>2. Mild(s, r)
    BY <1>1 DEF Mild, Field
  <2>3. gui' \in [Dev -> Seq(Message)]
    <3>1. Msg("EXCEPTED", d, "") \in Message
      BY Zenon, Messages
    <3>2. Post(gui, d, Msg("EXCEPTED", d, "")) \in [Dev -> Seq(Message)]
      BY Zenon, <1>1, <3>1, Queue
    <3>3. QED
      BY Zenon, <1>1, <2>1, <3>2
  <2> HIDE DEF r
  <2>4. QED
    BY Zenon, <1>1, <2>1, <2>2, <2>3, MildIsGood, OneStep DEF Step, Kept
<1>8. QED
  BY <1>3, <1>4, <1>5, <1>6, <1>7 DEF Faulty

-----------------------------------------------------------------------------
(* The theorems. *)

\* ShareInv is inductive, and no step displaces the applicant of a session.
LEMMA NextKeeps == ShareInv /\ [Next]_vars => ShareInv' /\ \A x \in Dev : Keeps(st[x], st'[x])
<1> SUFFICES ASSUME ShareInv, [Next]_vars
             PROVE  Kept
  BY DEF Kept
<1>1. CASE Next
  BY <1>1, UserSteps, TimerSteps, QueuedSteps, NetworkSteps DEF Next
<1>2. CASE UNCHANGED vars
  <2>1. st' = st /\ net' = net /\ gui' = gui
    BY <1>2 DEF vars
  <2>2. net \in [Dev -> Seq(Message)] /\ gui \in [Dev -> Seq(Message)]
    BY DEF ShareInv
  <2>3. QED
    BY <2>1, <2>2, NoStep DEF Kept
<1>3. QED
  BY <1>1, <1>2

\* It holds at the start.
LEMMA InitShare == Init => ShareInv
<1> SUFFICES ASSUME Init
             PROVE  ShareInv
  OBVIOUS
<1>1. Good(Fresh)
  BY DEF Good, Fresh, Field
<1>2. QED
  BY <1>1 DEF Init, ShareInv

\* However probes, the fallback timer, BARRIER_READY and the setting interleave,
\* on any number of devices, no barrier client runs while sharing is off.
THEOREM NoClientUnshared == Spec => []ClientOnlyWhenShared
<1>1. ShareInv => ClientOnlyWhenShared
  BY DEF ShareInv, Good, ClientOnlyWhenShared
<1>2. QED
  BY <1>1, InitShare, NextKeeps, PTL DEF Spec

\* No request, answer or BARRIER_READY, late, lost or overtaken, replaces the
\* applicant of a session that lasts.
THEOREM ApplicantStays == Spec => SessionKept
<1>1. ShareInv /\ [Next]_vars =>
          [\A d \in Dev : st[d].recv /\ st[d].connected /\ st'[d].connected
                              => st'[d].sender = st[d].sender]_vars
  BY NextKeeps DEF Keeps
<1>2. QED
  BY <1>1, InitShare, NextKeeps, PTL DEF Spec, SessionKept

=============================================================================
