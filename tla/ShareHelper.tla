---------------------------- MODULE ShareHelper ----------------------------
(***************************************************************************)
(* Cooperation (shared mouse and keyboard) between devices: the ShareHelper *)
(* object of every device, with the parts of NetworkUtil and of the barrier *)
(* process manager it drives.  The device that applies becomes the barrier  *)
(* server, the one that accepts becomes the client, directly or through the *)
(* reverse tunnel.                                                          *)
(*                                                                         *)
(* net[d] holds the requests on their way to d, gui[d] the calls queued on  *)
(* its GUI thread.  A device is the record st[d]; the field names are those *)
(* of ShareHelperPrivate, shortened.  The Linux build is modelled: requests *)
(* are answered from a notification, which any later one makes void.        *)
(***************************************************************************)
EXTENDS Integers, Sequences, FiniteSets

CONSTANTS
    Dev,          \* devices
    Initiators,   \* devices whose user may ask for cooperation
    Old,          \* devices with a build that has no tunnel and sends no BARRIER_READY
    MaxApplies,   \* bound: applications of one device
    MaxToggles,   \* bound: switches of the peripheral sharing setting
    MaxQuits,     \* bound: disconnects, dialogs closed, waits and notices ended, cancels
    MaxFaults,    \* bound: requests lost or overtaken, sessions lost, failing starts
    None

VARIABLES
    st,           \* [Dev -> Helper]
    net,          \* [Dev -> Seq(Message)]
    gui,          \* [Dev -> Seq(Message)]
    applies, toggles, quits, faults    \* the bounded counters

vars == <<st, net, gui, applies, toggles, quits, faults>>

ASSUME ShareAssumption ==
    /\ Initiators \subseteq Dev /\ Old \subseteq Dev
    /\ MaxApplies \in Nat /\ MaxToggles \in Nat /\ MaxQuits \in Nat /\ MaxFaults \in Nat
    /\ None \notin Dev

Message ==
    [type : {"APPLY", "RESULT", "READY", "STOP", "CANCELED", "UNABLE", "STOPSERVER", "EXCEPTED"},
     from : Dev, flag : {"", "tunnel", "accept", "refuse", "busy"}]
Helper ==
    [recv : BOOLEAN, replied : BOOLEAN, timedOut : BOOLEAN,
     confirming : BOOLEAN,             \* confirmTimer runs
     waiting : BOOLEAN,                \* barrierReadyTimer runs
     supports : BOOLEAN,               \* peerSupportsTunnel
     port : BOOLEAN,                   \* tunnelPort > 0
     useTunnel : BOOLEAN,
     sender : Dev \cup {None},         \* senderDeviceIp
     target : Dev \cup {None},         \* targetDeviceInfo
     connected : BOOLEAN,              \* its connectStatus is Connected
     shown : SUBSET Dev,               \* devices the list shows as Connected
     asked : BOOLEAN,                  \* a notification offers Accept and Reject
     dialog : {"none", "wait", "fail", "retry"},
     confirmAddr : Dev \cup {None},    \* NetworkUtil's confirmTargetAddress
     peer : Dev \cup {None},           \* the tunnel peer
     forward : BOOLEAN,                \* the tunnel forwards "barrier"
     on : BOOLEAN,                     \* the PeripheralShareKey setting
     client : {"off", "direct", "tunnel"},
     server : BOOLEAN,                 \* the barrier processes that run
     probes : 0..2,                    \* running probeBarrierServer calls
     announce : SUBSET Dev]            \* BARRIER_READYs due 200 ms after a start

Fresh ==
    [recv |-> TRUE, replied |-> FALSE, timedOut |-> FALSE, confirming |-> FALSE,
     waiting |-> FALSE, supports |-> FALSE, port |-> FALSE, useTunnel |-> FALSE,
     sender |-> None, target |-> None, connected |-> FALSE, shown |-> {},
     asked |-> FALSE, dialog |-> "none", confirmAddr |-> None, peer |-> None,
     forward |-> FALSE, on |-> TRUE, client |-> "off", server |-> FALSE,
     probes |-> 0, announce |-> {}]

\* Every helper, queue and counter holds values of its type.
TypeOK ==
    /\ st \in [Dev -> Helper]
    /\ net \in [Dev -> Seq(Message)] /\ gui \in [Dev -> Seq(Message)]
    /\ applies \in [Dev -> 0..MaxApplies] /\ toggles \in 0..MaxToggles
    /\ quits \in 0..MaxQuits /\ faults \in 0..MaxFaults
    /\ \A d \in Dev : (st[d].connected => st[d].target # None)

Init ==
    /\ st = [d \in Dev |-> Fresh]
    /\ net = [d \in Dev |-> <<>>] /\ gui = [d \in Dev |-> <<>>]
    /\ applies = [d \in Dev |-> 0] /\ toggles = 0 /\ quits = 0 /\ faults = 0

-----------------------------------------------------------------------------
(* Parts of the handlers, as functions of the helper record. *)

Msg(t, d, f) == [type |-> t, from |-> d, flag |-> f]
Post(queues, d, m) == [queues EXCEPT ![d] = Append(@, m)]

\* stopTunnels, the clearing of the tunnel peer and the reset of tunnelPort,
\* with the ready timer stopped: what every end of a session does first.
EndTunnel(s) == [s EXCEPT !.waiting = FALSE, !.forward = FALSE, !.peer = None, !.port = FALSE]

\* A barrier service starts, and stops without a process of its own, by
\* terminating every barrier process of the device.
StopClient(s) == [s EXCEPT !.client = "off", !.server = @ /\ s.client # "off"]
StopServer(s) == [s EXCEPT !.server = FALSE, !.client = IF s.server THEN @ ELSE "off"]

\* Mutant: the client starts although sharing is switched off.
StartClientBarrierUnshared(s) ==
    IF s.recv /\ (s.port \/ s.sender # None)
    THEN [s EXCEPT !.client = IF s.port THEN "tunnel" ELSE "direct", !.server = FALSE]
    ELSE s

StartClientBarrier(s) ==
    IF s.recv /\ s.on /\ (s.port \/ s.sender # None)
    THEN [s EXCEPT !.client = IF s.port THEN "tunnel" ELSE "direct", !.server = FALSE]
    ELSE s

Direct(s) == StartClientBarrier([s EXCEPT !.port = FALSE, !.useTunnel = FALSE])

\* Mutant: nothing is started when the forward cannot be.
StartTunnelBarrierGivesUp(s, ip) ==
    IF ~(s.recv /\ s.connected /\ s.on) THEN {s}
    ELSE {[s EXCEPT !.peer = ip], StartClientBarrier([s EXCEPT !.peer = ip, !.forward = TRUE,
                                     !.port = TRUE, !.useTunnel = TRUE])}

\* The possible outcomes of startTunnelBarrier: the forward starts or not.
StartTunnelBarrier(s, ip) ==
    IF ~(s.recv /\ s.connected /\ s.on) THEN {s}
    ELSE {StartClientBarrier([s EXCEPT !.peer = ip, !.forward = ok, !.port = ok,
                                 !.useTunnel = ok, !.asked = ok /\ @]) : ok \in BOOLEAN}

\* Mutant: tunnelPort outlives the forward it belongs to.
SwitchOffKeepsPort(s) == [StopClient(s) EXCEPT !.waiting = FALSE, !.forward = FALSE]

SwitchOff(s) ==
    [StopClient(s) EXCEPT !.waiting = FALSE, !.forward = FALSE, !.port = FALSE]

SwitchPeripheralShared(s, on) ==
    IF ~on THEN {SwitchOff(s)}
    ELSE IF ~s.recv THEN {s}
    ELSE IF ~s.port /\ s.useTunnel /\ s.sender # None THEN StartTunnelBarrier(s, s.sender)
    ELSE {StartClientBarrier(s)}

Cooperating(s) == s.server \/ s.client # "off"

Step(d, s) == st' = [st EXCEPT ![d] = s]
Count == UNCHANGED <<applies, toggles, quits, faults>>
Quit == quits < MaxQuits /\ quits' = quits + 1 /\ UNCHANGED <<applies, toggles, faults>>

-----------------------------------------------------------------------------
(* What the user does. *)

\* The connect button of device p, or Retry in the dialog.  Retry passes the
\* target; without one it dereferences a null pointer.
ConnectToDevice(d, p) ==
    /\ d \in Initiators /\ p # d /\ applies[d] < MaxApplies
    /\ \/ st[d].dialog = "none" /\ p \notin st[d].shown
       \/ st[d].dialog = "retry" /\ p = st[d].target
    /\ IF st[d].connected
       THEN /\ Step(d, [st[d] EXCEPT !.dialog = "fail"])
            /\ UNCHANGED net
       ELSE /\ Step(d, [st[d] EXCEPT !.target = p, !.recv = FALSE, !.replied = FALSE,
                            !.timedOut = FALSE, !.supports = FALSE, !.port = FALSE,
                            !.useTunnel = FALSE, !.peer = p, !.dialog = "wait",
                            !.confirming = TRUE, !.confirmAddr = p])
            /\ net' = Post(net, p, Msg("APPLY", d, IF d \in Old THEN "" ELSE "tunnel"))
    /\ applies' = [applies EXCEPT ![d] = @ + 1]
    /\ UNCHANGED <<gui, toggles, quits, faults>>

CancelShareApply(d) ==
    /\ st[d].dialog = "wait" /\ st[d].target # None
    /\ Step(d, [EndTunnel(st[d]) EXCEPT !.dialog = "none"])
    /\ net' = IF st[d].confirmAddr = st[d].target
              THEN Post(net, st[d].target, Msg("CANCELED", d, "")) ELSE net
    /\ UNCHANGED gui /\ Quit

CloseDialog(d) ==
    /\ st[d].dialog # "none"
    /\ Step(d, [st[d] EXCEPT !.dialog = "none"])
    /\ UNCHANGED <<net, gui>> /\ Quit

\* Stopping the client is immediate, stopping the server is a queued call.
DisconnectToDevice(d, p) ==
    /\ p \in st[d].shown
    /\ LET s == EndTunnel(StopClient(st[d]))
           t == IF s.target = None THEN p ELSE s.target
       IN  Step(d, [s EXCEPT !.useTunnel = FALSE, !.target = t,
                       !.connected = FALSE, !.shown = @ \ {p, t}, !.asked = FALSE])
    /\ net' = IF st[d].confirmAddr = p THEN Post(net, p, Msg("STOP", d, "")) ELSE net
    /\ gui' = Post(gui, d, Msg("STOPSERVER", d, ""))
    /\ Quit

Accept(d) ==
    /\ st[d].asked
    /\ LET p == st[d].sender
           s == [st[d] EXCEPT !.replied = TRUE, !.timedOut = FALSE, !.confirming = FALSE,
                    !.peer = p, !.port = FALSE, !.useTunnel = FALSE, !.target = p,
                    !.connected = TRUE, !.shown = @ \cup {p}, !.asked = FALSE]
       IN  /\ IF s.on /\ s.supports
              THEN Step(d, [s EXCEPT !.waiting = TRUE])
              ELSE \E r \in SwitchPeripheralShared(s, s.on) : Step(d, r)
           /\ net' = IF s.confirmAddr = p THEN Post(net, p, Msg("RESULT", d, "accept")) ELSE net
    /\ UNCHANGED gui /\ Count

Reject(d) ==
    /\ st[d].asked
    /\ Step(d, [st[d] EXCEPT !.replied = TRUE, !.timedOut = FALSE, !.confirming = FALSE,
                   !.asked = FALSE])
    /\ net' = IF st[d].confirmAddr = st[d].sender
              THEN Post(net, st[d].sender, Msg("RESULT", d, "refuse")) ELSE net
    /\ UNCHANGED gui /\ Count

\* The notification closes by itself after ten seconds.
NoticeExpires(d) ==
    /\ st[d].asked
    /\ Step(d, [st[d] EXCEPT !.asked = FALSE])
    /\ UNCHANGED <<net, gui>> /\ Quit

OnAppAttributeChanged(d) ==
    /\ toggles < MaxToggles
    /\ \E r \in SwitchPeripheralShared([st[d] EXCEPT !.on = ~@], ~st[d].on) : Step(d, r)
    /\ toggles' = toggles + 1
    /\ UNCHANGED <<net, gui, applies, quits, faults>>

\* The application quits and is started again: its sessions close, its
\* barrier processes stop, and the setting is all that stays.
StopCooperation(d) ==
    /\ Step(d, [Fresh EXCEPT !.on = st[d].on])
    /\ net' = IF st[d].connected /\ st[d].confirmAddr = st[d].target
              THEN [Post(net, st[d].target, Msg("STOP", d, "")) EXCEPT ![d] = <<>>]
              ELSE [net EXCEPT ![d] = <<>>]
    /\ gui' = [gui EXCEPT ![d] = <<>>] /\ Quit

-----------------------------------------------------------------------------
(* Timers and probes. *)

OnVerifyTimeout(d) ==
    /\ st[d].confirming
    /\ LET s == [st[d] EXCEPT !.confirming = FALSE, !.timedOut = TRUE]
       IN  Step(d, IF s.replied THEN s
                   ELSE IF s.recv THEN [s EXCEPT !.asked = FALSE]
                   ELSE [s EXCEPT !.dialog = IF @ = "none" THEN @ ELSE "retry"])
    /\ UNCHANGED <<net, gui>> /\ Quit

\* Eight seconds after an accept without BARRIER_READY: connect directly.
BarrierReadyTimeout(d) ==
    /\ st[d].waiting
    /\ LET s == [st[d] EXCEPT !.waiting = FALSE]
       IN  Step(d, IF s.recv /\ s.connected THEN Direct(s) ELSE s)
    /\ UNCHANGED <<net, gui>> /\ Count

SendBarrierReady(d, p) ==
    /\ p \in st[d].announce
    /\ Step(d, [st[d] EXCEPT !.announce = @ \ {p}])
    /\ net' = IF d \in Old THEN net ELSE Post(net, p, Msg("READY", d, ""))
    /\ UNCHANGED gui /\ Count

\* A probe finds the barrier port open, or its last attempt fails.
ProbeConnected(d) ==
    /\ st[d].probes > 0
    /\ Step(d, Direct([st[d] EXCEPT !.probes = @ - 1]))
    /\ UNCHANGED <<net, gui>> /\ Count

ProbeFailed(d) ==
    /\ st[d].probes > 0
    /\ \E r \in StartTunnelBarrier([st[d] EXCEPT !.probes = @ - 1], st[d].sender) : Step(d, r)
    /\ UNCHANGED <<net, gui>> /\ Count

-----------------------------------------------------------------------------
(* Requests from the network: NetworkUtil's callback runs on a network       *)
(* thread, remembers who applied and queues a call for the GUI thread.       *)

MsgCb(d) ==
    /\ net[d] # <<>>
    /\ gui' = Post(gui, d, Head(net[d]))
    /\ net' = [net EXCEPT ![d] = Tail(@)]
    /\ st' = IF Head(net[d]).type = "APPLY"
             THEN [st EXCEPT ![d].confirmAddr = Head(net[d]).from] ELSE st
    /\ Count

\* A request is given up after its retries; for APPLY_SHARE a missing answer
\* can also be reported to the applicant, whether or not the request arrived.
Lose(d) ==
    /\ net[d] # <<>> /\ faults < MaxFaults
    /\ net' = [net EXCEPT ![d] = Tail(@)]
    /\ faults' = faults + 1
    /\ UNCHANGED <<st, gui, applies, toggles, quits>>

ApplyUnanswered(d) ==
    /\ net[d] # <<>> /\ Head(net[d]).type = "APPLY" /\ faults < MaxFaults
    /\ \E arrives \in BOOLEAN : net' = IF arrives THEN net ELSE [net EXCEPT ![d] = Tail(@)]
    /\ gui' = Post(gui, Head(net[d]).from, Msg("UNABLE", d, ""))
    /\ faults' = faults + 1
    /\ UNCHANGED <<st, applies, toggles, quits>>

\* A request that found no session is retried while a later one is sent.
Overtake(d) ==
    /\ Len(net[d]) > 1 /\ faults < MaxFaults
    /\ net' = [net EXCEPT ![d] = <<@[2], @[1]>> \o SubSeq(@, 3, Len(@))]
    /\ faults' = faults + 1
    /\ UNCHANGED <<st, gui, applies, toggles, quits>>

\* The session of the tunnel peer is lost; a missing pong is also reported.
SessionLost(d) ==
    /\ st[d].peer # None /\ faults < MaxFaults
    /\ Step(d, [st[d] EXCEPT !.forward = FALSE, !.peer = None])
    /\ \E pingout \in BOOLEAN :
          gui' = IF pingout THEN Post(gui, d, Msg("EXCEPTED", d, "")) ELSE gui
    /\ faults' = faults + 1
    /\ UNCHANGED <<net, applies, toggles, quits>>

-----------------------------------------------------------------------------
(* Queued calls on the GUI thread. *)

Queued(d, t) == gui[d] # <<>> /\ Head(gui[d]).type = t
Handled(d) == gui' = [gui EXCEPT ![d] = Tail(@)]

\* Mutant: only running barrier processes make a device busy.
NotifyConnectRequestIdle(d) ==
    /\ Queued(d, "APPLY")
    /\ LET p == Head(gui[d]).from
       IN  IF Cooperating(st[d])
           THEN net' = Post(net, p, Msg("RESULT", d, "busy")) /\ UNCHANGED st
           ELSE /\ Step(d, [EndTunnel(st[d]) EXCEPT !.replied = FALSE, !.timedOut = FALSE,
                              !.recv = TRUE, !.sender = p, !.useTunnel = FALSE,
                              !.supports = TRUE, !.confirming = FALSE, !.asked = TRUE])
                /\ UNCHANGED net
    /\ Handled(d) /\ Count

NotifyConnectRequest(d) ==
    /\ Queued(d, "APPLY")
    /\ LET p == Head(gui[d]).from
       IN  IF Cooperating(st[d]) \/ (st[d].recv /\ st[d].connected)
           THEN /\ net' = Post(net, p, Msg("RESULT", d, "busy"))
                /\ UNCHANGED st
           ELSE /\ Step(d, [EndTunnel(st[d]) EXCEPT !.replied = FALSE, !.timedOut = FALSE,
                              !.recv = TRUE, !.sender = p, !.useTunnel = FALSE,
                              !.supports = (Head(gui[d]).flag = "tunnel"),
                              !.confirming = FALSE, !.asked = TRUE])
                /\ UNCHANGED net
    /\ Handled(d) /\ Count

\* Mutant: an answer is used although the application has no target any more.
HandleConnectResultBlind(d) ==
    /\ Queued(d, "RESULT")
    /\ Step(d, [st[d] EXCEPT !.server = TRUE, !.connected = TRUE, !.dialog = "none"])
    /\ Handled(d) /\ UNCHANGED net /\ Count

\* The answer to an application.  It does not say which one it answers.
HandleConnectResult(d) ==
    /\ Queued(d, "RESULT") \/ Queued(d, "UNABLE")
    /\ LET s == [st[d] EXCEPT !.replied = TRUE, !.confirming = FALSE]
           failed == [s EXCEPT !.dialog = "fail", !.target = None, !.connected = FALSE]
       IN  IF s.target = None \/ s.timedOut THEN Step(d, s) /\ UNCHANGED faults
           ELSE IF Head(gui[d]).flag # "accept" THEN Step(d, failed) /\ UNCHANGED faults
           ELSE \/ /\ Step(d, [s EXCEPT !.server = TRUE, !.client = "off", !.peer = s.target,
                                 !.announce = @ \cup {s.target}, !.connected = TRUE,
                                 !.shown = @ \cup {s.target}, !.asked = FALSE,
                                 !.dialog = "none"])
                   /\ UNCHANGED faults
                \/ /\ faults < MaxFaults
                   /\ Step(d, [failed EXCEPT !.server = FALSE])
                   /\ faults' = faults + 1
    /\ Handled(d) /\ UNCHANGED <<net, applies, toggles, quits>>

\* Mutant: a BARRIER_READY of any device counts.
HandleBarrierReadyOfAnyone(d) ==
    /\ Queued(d, "READY")
    /\ Step(d, IF ~st[d].recv \/ ~st[d].connected THEN st[d]
               ELSE [st[d] EXCEPT !.waiting = FALSE, !.sender = Head(gui[d]).from,
                                  !.peer = Head(gui[d]).from])
    /\ Handled(d) /\ UNCHANGED net /\ Count

HandleBarrierReady(d) ==
    /\ Queued(d, "READY")
    /\ LET s == st[d]
           r == [s EXCEPT !.waiting = FALSE, !.sender = Head(gui[d]).from,
                          !.peer = Head(gui[d]).from]
       IN  Step(d, IF ~s.recv \/ ~s.connected \/ s.sender \notin {None, Head(gui[d]).from} THEN s
                   ELSE IF ~s.on \/ s.client # "off" \/ s.probes = 2 THEN r
                   ELSE [r EXCEPT !.probes = @ + 1])
    /\ Handled(d) /\ UNCHANGED net /\ Count

HandleDisConnectResult(d) ==
    /\ Queued(d, "STOP")
    /\ IF st[d].target = None
       THEN UNCHANGED st /\ Handled(d)
       ELSE /\ Step(d, [EndTunnel(StopClient(st[d])) EXCEPT !.useTunnel = FALSE,
                            !.connected = FALSE, !.shown = @ \ {st[d].target},
                            !.target = None, !.asked = FALSE])
            /\ gui' = [gui EXCEPT ![d] = Append(Tail(@), Msg("STOPSERVER", d, ""))]
    /\ UNCHANGED net /\ Count

HandleCancelCooperApply(d) ==
    /\ Queued(d, "CANCELED")
    /\ Step(d, IF st[d].recv /\ ~st[d].replied THEN [st[d] EXCEPT !.asked = FALSE] ELSE st[d])
    /\ Handled(d) /\ UNCHANGED net /\ Count

HandleStopShareServer(d) ==
    /\ Queued(d, "STOPSERVER")
    /\ Step(d, StopServer(st[d]))
    /\ Handled(d) /\ UNCHANGED net /\ Count

OnShareExcepted(d) ==
    /\ Queued(d, "EXCEPTED")
    /\ Step(d, IF st[d].connected THEN [EndTunnel(st[d]) EXCEPT !.dialog = "fail"] ELSE st[d])
    /\ Handled(d) /\ UNCHANGED net /\ Count

-----------------------------------------------------------------------------
\* A call the GUI thread has queued for itself runs in the next round of its
\* event loop: the user does not come in between.
Settled(d) == \A i \in DOMAIN gui[d] : gui[d][i].type # "STOPSERVER"

User(d) ==
    \/ \E p \in Dev : ConnectToDevice(d, p) \/ DisconnectToDevice(d, p)
    \/ CancelShareApply(d) \/ CloseDialog(d) \/ Accept(d) \/ Reject(d)
    \/ NoticeExpires(d) \/ OnAppAttributeChanged(d) \/ StopCooperation(d)
Timers(d) ==
    \/ OnVerifyTimeout(d) \/ BarrierReadyTimeout(d) \/ ProbeConnected(d) \/ ProbeFailed(d)
    \/ \E p \in Dev : SendBarrierReady(d, p)
Handle(d) ==
    \/ NotifyConnectRequest(d) \/ HandleConnectResult(d) \/ HandleBarrierReady(d)
    \/ HandleDisConnectResult(d) \/ HandleCancelCooperApply(d)
    \/ HandleStopShareServer(d) \/ OnShareExcepted(d)
Faulty(d) == Lose(d) \/ ApplyUnanswered(d) \/ Overtake(d) \/ SessionLost(d)

Next == \E d \in Dev : (Settled(d) /\ User(d)) \/ Timers(d) \/ MsgCb(d) \/ Handle(d) \/ Faulty(d)

Spec == Init /\ [][Next]_vars
\* Queued calls are handled and started timers and probes end.  Nothing is
\* assumed of the user or of the network.
FairSpec ==
    /\ Spec
    /\ \A d \in Dev : WF_vars(Handle(d)) /\ WF_vars(BarrierReadyTimeout(d))
                     /\ WF_vars(ProbeConnected(d) \/ ProbeFailed(d))

-----------------------------------------------------------------------------
(* Properties. *)

\* A barrier client never runs while peripheral sharing is switched off,
\* however probes, the fallback timer and late BARRIER_READYs interleave with
\* the setting.
ClientOnlyWhenShared == \A d \in Dev : st[d].client # "off" => st[d].on

\* A barrier client is pointed at the local tunnel port only while the tunnel
\* listens there: no path starts it with the port of a stopped forward.
TunnelledStartHasForward ==
    [][\A d \in Dev : st'[d].client = "tunnel" /\ st[d].client # "tunnel"
                          => st'[d].forward]_vars

\* The applicant of a session is not displaced while the session lasts: a
\* request that comes in meanwhile, even before the barrier client runs, is
\* answered busy, and neither it nor a BARRIER_READY changes senderDeviceIp.
SessionKept ==
    [][\A d \in Dev : st[d].recv /\ st[d].connected /\ st'[d].connected
                          => st'[d].sender = st[d].sender]_vars

\* While a device takes part in a session, the tunnel serves the other party
\* of that session and no other device.
TunnelPeerIsTarget ==
    \A d \in Dev : st[d].connected /\ st[d].peer # None => st[d].peer = st[d].target

\* A device that has accepted and shares its peripherals gets its barrier
\* client, whether or not BARRIER_READY arrives and whatever a probe finds,
\* unless the cooperation ends, sharing is switched off or the session with
\* the peer is lost.
AcceptedGetsClient ==
    \A d \in Dev : (st[d].recv /\ st[d].connected /\ st[d].on /\ st[d].peer # None)
                      ~> \/ st[d].client # "off" \/ ~st[d].connected \/ ~st[d].on
                         \/ st[d].peer = None

=============================================================================
