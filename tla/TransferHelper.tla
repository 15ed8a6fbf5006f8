--------------------------- MODULE TransferHelper ---------------------------
(***************************************************************************)
(* The file-transfer dialogue on top of TransferJob: TransferHelper's      *)
(* status, its wait/progress dialog and its notification, the application, *)
(* the receiver's answer and the cancellations, through the functions of   *)
(* NetworkUtil that send them.  The Linux build is modelled, and every     *)
(* device has a tunnel manager, so that an application always offers the   *)
(* tunnel.                                                                 *)
(***************************************************************************)
EXTENDS TransferJob, FiniteSets

CONSTANTS
    Senders,       \* devices whose user starts transfers
    Patient        \* assumption: a user who starts a transfer has seen the last one end

VARIABLE ui    \* [Dev -> TransferHelper and the transfer part of NetworkUtil]

vars == <<jobVars, ui>>

ASSUME TransferHelperAssumption == Senders \subseteq Dev /\ Patient \in BOOLEAN

Ui ==
    [status : {"Idle", "Connecting", "Confirming", "Transfering"},
     target : Dev \cup {None},                \* targetDeviceIp
     role : {"Server", "Client"},
     timer : BOOLEAN,                         \* confirmTimer runs
     timedOut : BOOLEAN,                      \* isTransTimeout
     dialog : {"none", "wait", "progress"},   \* the dialog with a button to press
     notice : {"none", "ask", "progress"},    \* the notification with an action
     confirm : Dev \cup {None, Elsewhere},    \* confirmTargetAddress
     peerTunnel : BOOLEAN,                    \* peerTransTunnel
     combi : Dev \cup {None},                 \* _nextCombi: an application awaits the login
     answers : 0..MaxJobs,                    \* RPC results of applications to come
     failures : 0..MaxJobs]                   \* RPC calls that will time out

\* Every table, queue and dialogue holds values of its type; in particular the
\* download thread never counts past the last name.
TypeOK == JobTypeOK /\ ui \in [Dev -> Ui]

\* role has no initial value in the code.
Init ==
    /\ JobInit
    /\ \E role \in [Dev -> {"Server", "Client"}] :
          ui = [d \in Dev |->
                  [status |-> "Idle", target |-> None, role |-> role[d], timer |-> FALSE,
                   timedOut |-> FALSE, dialog |-> "none", notice |-> "none", confirm |-> None,
                   peerTunnel |-> FALSE, combi |-> None, answers |-> 0,
                   failures |-> 0]]

-----------------------------------------------------------------------------
(* What the user sees. *)

\* transferResult: the sender's dialog turns to the result page, a receiver's
\* notification is replaced.
Result(u) == IF u.role = "Server" THEN [u EXCEPT !.dialog = "none"]
                                  ELSE [u EXCEPT !.notice = "none"]

\* updateProgress: only while the transfer is active.
Progress(u) ==
    IF u.status # "Transfering" THEN u
    ELSE IF u.role = "Server" THEN [u EXCEPT !.dialog = "progress"]
                              ELSE [u EXCEPT !.notice = "progress"]

\* cancelTransfer: nothing when Idle; a click only hides the dialog.
CancelTransfer(u, click) ==
    IF u.status = "Idle" THEN u
    ELSE IF click THEN [u EXCEPT !.status = "Idle", !.dialog = "none"]
                  ELSE Result([u EXCEPT !.status = "Idle"])

Set(d, u) == ui' = [ui EXCEPT ![d] = u]

-----------------------------------------------------------------------------
(* The sender. *)

\* sendTransApply, up to the call itself.
Applied(u, p) == [u EXCEPT !.confirm = p, !.peerTunnel = FALSE, !.combi = None]

\* The user has seen what became of earlier applications and transfers, and the
\* receiver has ended the last one or been told to.
Told(d, p) ==
    \/ \E k \in DOMAIN net[d][p] : net[d][p][k].type = "CANCLE"
    \/ \E k \in DOMAIN gui[p] : gui[p][k].type = "CANCELJOB"
Settled(d, p) ==
    /\ jb[d].worker[p] = 0
    /\ \A j \in Job : Running(j) => thr[j].stop \/ Told(d, p)
    /\ ui[d].combi = None /\ ui[d].answers = 0 /\ ui[d].failures = 0
    /\ \A k \in DOMAIN net[d][p] : net[d][p][k].type # "APPLY"
    /\ \A k \in DOMAIN gui[d] : gui[d][k].type \notin {"RPCRESULT", "STATUS"}

\* tryTransApply sends at once with a login, otherwise it waits for one.
TryTransApply(d, u, p) ==
    \/ Set(d, Applied(u, p)) /\ net' = Sent(d, p, Msg("APPLY"))
    \/ Set(d, [u EXCEPT !.combi = p]) /\ UNCHANGED net

WaitForConfirm(u) == [u EXCEPT !.timedOut = FALSE, !.timer = TRUE, !.dialog = "wait"]

\* TransferHelper::sendFiles.  A status other than Idle is reset and nothing sent.
SendTo(d, p) ==
    /\ d \in Senders /\ p # d
    /\ asked < MaxJobs /\ Room
    /\ ~Joining(d)
    /\ Patient => Settled(d, p)
    /\ asked' = asked + 1
    /\ LET u == [ui[d] EXCEPT !.target = p]
       IN  \/ /\ u.status # "Idle"
              /\ Set(d, [u EXCEPT !.status = "Idle"])
              /\ UNCHANGED net
           \/ /\ u.status = "Idle"
              /\ TryTransApply(d, WaitForConfirm([u EXCEPT !.status = "Connecting"]), p)
    /\ UNCHANGED <<jb, thr, gui, trouble>>

\* Mutant: the slot is emptied and nothing sent.
LoggedInSilent(d) ==
    /\ ui[d].combi # None
    /\ ~Joining(d)
    /\ Set(d, [ui[d] EXCEPT !.combi = None])
    /\ UNCHANGED jobVars

\* doNextCombiRequest when the login is answered.
LoggedIn(d) ==
    /\ ui[d].combi # None
    /\ ~Joining(d)
    /\ Set(d, Applied(ui[d], ui[d].combi))
    /\ net' = Sent(d, ui[d].combi, Msg("APPLY"))
    /\ UNCHANGED <<jb, thr, gui, trouble, asked>>

\* The result of the APPLY_TRANS call, an empty one after its timeout.
RpcResult(d, ok) ==
    /\ \/ /\ ui[d].answers > 0
          /\ Set(d, [ui[d] EXCEPT !.answers = @ - 1])
          /\ IF ok THEN UNCHANGED trouble ELSE Fault
       \/ /\ ui[d].failures > 0 /\ ~ok
          /\ Set(d, [ui[d] EXCEPT !.failures = @ - 1])
          /\ UNCHANGED trouble
    /\ gui' = [gui EXCEPT ![d] = Append(@, Ev("RPCRESULT", d, 0, ok, ""))]
    /\ UNCHANGED <<jb, thr, net, asked>>

HandleAsyncRpcResult(d) ==
    /\ Turn(d, "RPCRESULT")
    /\ gui' = Popped(d, <<Ev("STATUS", d, 0, Head(gui[d]).ok, "")>>)
    /\ UNCHANGED <<jb, thr, net, trouble, ui, asked>>

OnConnectStatusChanged(d) ==
    /\ Turn(d, "STATUS")
    /\ LET e == Head(gui[d])
       IN  Set(d, IF e.ok THEN [ui[d] EXCEPT !.status = "Confirming"]
                  ELSE IF ui[d].status = "Idle" THEN ui[d]
                  ELSE Result([ui[d] EXCEPT !.status = "Idle"]))
    /\ gui' = Popped(d, <<>>)
    /\ UNCHANGED <<jb, thr, net, trouble, asked>>

\* onVerifyTimeout: the confirm timer is over.
OnVerifyTimeout(d) ==
    /\ ui[d].timer
    /\ ~Joining(d)
    /\ LET u == [ui[d] EXCEPT !.timer = FALSE, !.timedOut = TRUE]
       IN  Set(d, IF u.status = "Confirming" THEN [u EXCEPT !.status = "Idle", !.dialog = "none"]
                                             ELSE u)
    /\ UNCHANGED jobVars

\* doSendFiles: only to the address last applied to or applied from.
DoSendFiles(d, p) ==
    IF ui[d].confirm = p
    THEN SendFiles(d, p, ui[d].peerTunnel /\ TunnelFree(d, p))
    ELSE UNCHANGED <<jb, thr, net, trouble>>

Accepted(d) ==
    /\ Turn(d, "ACCEPTED")
    /\ IF ui[d].status = "Confirming"
       THEN /\ Set(d, Progress([ui[d] EXCEPT !.status = "Transfering", !.role = "Server"]))
            /\ DoSendFiles(d, ui[d].target)
       ELSE /\ Set(d, [ui[d] EXCEPT !.status = "Idle"])
            /\ UNCHANGED <<jb, thr, net, trouble>>
    /\ gui' = Popped(d, <<>>)
    /\ UNCHANGED asked

Rejected(d) ==
    /\ Turn(d, "REJECTED")
    /\ LET u == [ui[d] EXCEPT !.status = "Idle"]
       IN  Set(d, [(IF u.timedOut THEN u ELSE Result(u)) EXCEPT !.dialog = "none"])
    /\ gui' = Popped(d, <<>>)
    /\ UNCHANGED <<jb, thr, net, trouble, asked>>

CancelApply(d, p) ==
    net' = IF ui[d].confirm = p THEN Sent(d, p, Msg("CANCELED")) ELSE net

\* cancelTransferApply: the wait dialog is closed.
CancelTransferApply(d) ==
    /\ ui[d].dialog = "wait"
    /\ Happens("cancel")
    /\ ~Joining(d)
    /\ Set(d, [ui[d] EXCEPT !.status = "Idle", !.timer = FALSE, !.dialog = "none"])
    /\ CancelApply(d, ui[d].target)
    /\ UNCHANGED <<jb, thr, gui, asked>>

-----------------------------------------------------------------------------
(* Both sides. *)

\* cancelTrans: only for the address last applied to or applied from.
CancelTrans(d, p) ==
    IF ui[d].confirm = p
    THEN CancelSyncFile(d, p, "", gui[d])
    ELSE UNCHANGED <<jb, thr, net, gui>>

\* The cancel button of the wait or the progress page, or of the notification.
Cancel(d) ==
    /\ Happens("cancel")
    /\ ~Joining(d)
    /\ \/ ui[d].dialog # "none" /\ Set(d, CancelTransfer(ui[d], TRUE))
       \/ ui[d].notice = "progress"
          /\ Set(d, [CancelTransfer(ui[d], TRUE) EXCEPT !.notice = "none"])
    /\ ui[d].target # None
    /\ CancelTrans(d, ui[d].target)
    /\ UNCHANGED asked

OnTransChanged(d) ==
    /\ Turn(d, "CHANGED")
    /\ LET w == Head(gui[d]).what
           u == ui[d]
       IN  Set(d, CASE w = "CANCELED" -> CancelTransfer(u, FALSE)
                    [] w = "EXCEPTION" -> Result([u EXCEPT !.status = "Idle"])
                    [] w = "START" -> Progress([u EXCEPT !.status = "Transfering"])
                    [] w = "FINISH" -> Result([u EXCEPT !.status = "Idle"]))
    /\ gui' = Popped(d, <<>>)
    /\ UNCHANGED <<jb, thr, net, trouble, asked>>

\* handleConnectStatus: a lost tunnel peer ends the forwards; the dialogue is
\* told through the queue.
HandleConnectStatus(d) ==
    /\ Turn(d, "LOST")
    /\ LET e == Head(gui[d])
       IN  /\ jb' = IF jb[d].peer = e.peer
                    THEN [jb EXCEPT ![d].peer = None, ![d].forwards = {}] ELSE jb
           /\ gui' = Popped(d, <<IF e.what = "PINGOUT"
                                 THEN Ev("EXCEPTED", e.peer, 0, TRUE, "")
                                 ELSE Ev("STATUS", e.peer, 0, FALSE, "")>>)
    /\ UNCHANGED <<thr, net, trouble, ui, asked>>

OnTransferExcepted(d) ==
    /\ Turn(d, "EXCEPTED")
    /\ LET p == Head(gui[d]).peer
       IN  IF ui[d].status = "Idle"
           THEN gui' = Popped(d, <<>>) /\ UNCHANGED <<jb, thr, net, ui>>
           ELSE /\ Set(d, Result(CancelTransfer(ui[d], TRUE)))
                /\ IF ui[d].confirm = p
                   THEN CancelSyncFile(d, p, "", Tail(gui[d]))
                   ELSE gui' = Popped(d, <<>>) /\ UNCHANGED <<jb, thr, net>>
    /\ UNCHANGED <<trouble, asked>>

-----------------------------------------------------------------------------
(* The receiver. *)

\* msg_cb, on the network thread; the call is answered at once.
ApplyTrans(p, d) ==
    /\ Receives(p, d, "APPLY")
    /\ net' = Taken(p, d)
    /\ ui' = [ui EXCEPT ![d].confirm = p, ![p].answers = @ + 1]
    /\ gui' = [gui EXCEPT ![d] = Append(@, Ev("REQUEST", p, 0, TRUE, ""))]
    /\ UNCHANGED <<jb, thr, trouble, asked>>

\* The receiver's answer, and whether it can serve its end of the tunnel.
ApplyTransResult(p, d) ==
    /\ Receives(p, d, "RESULT")
    /\ net' = Taken(p, d)
    /\ LET m == Head(net[p][d])
       IN  /\ Set(d, [ui[d] EXCEPT !.peerTunnel = m.ok /\ m.tunnel])
           /\ gui' = [gui EXCEPT ![d] =
                        Append(@, Ev(IF m.ok THEN "ACCEPTED" ELSE "REJECTED", p, 0, TRUE, ""))]
    /\ UNCHANGED <<jb, thr, trouble, asked>>

ApplyCanceled(p, d) ==
    /\ Receives(p, d, "CANCELED")
    /\ net' = Taken(p, d)
    /\ gui' = [gui EXCEPT ![d] = Append(@, Ev("CANCELAPPLY", p, 0, TRUE, ""))]
    /\ UNCHANGED <<jb, thr, trouble, ui, asked>>

NotifyTransferRequest(d) ==
    /\ Turn(d, "REQUEST")
    /\ Set(d, [ui[d] EXCEPT !.target = Head(gui[d]).peer, !.notice = "ask"])
    /\ gui' = Popped(d, <<>>)
    /\ UNCHANGED <<jb, thr, net, trouble, asked>>

HandleCancelTransferApply(d) ==
    /\ Turn(d, "CANCELAPPLY")
    /\ Set(d, [ui[d] EXCEPT !.notice = "none"])
    /\ gui' = Popped(d, <<>>)
    /\ UNCHANGED <<jb, thr, net, trouble, asked>>

\* replyTransRequest: an accepting device selects its tunnel peer.
ReplyTransRequest(d, p, agree) ==
    LET tunnel == agree /\ TunnelFree(d, p)
    IN  IF ui[d].confirm = p
        THEN /\ jb' = IF tunnel THEN [jb EXCEPT ![d].peer = p] ELSE jb
             /\ net' = Sent(d, p, [Msg("RESULT") EXCEPT !.ok = agree, !.tunnel = tunnel])
        ELSE UNCHANGED <<jb, net>>

\* The user presses accept or reject.
Reply(d, agree) ==
    /\ ui[d].notice = "ask"
    /\ ~Joining(d)
    /\ Set(d, [ui[d] EXCEPT !.notice = "none", !.role = IF agree THEN "Client" ELSE @])
    /\ ReplyTransRequest(d, ui[d].target, agree)
    /\ UNCHANGED <<thr, gui, trouble, asked>>

\* The notification expires or is closed.
Expire(d) ==
    /\ ui[d].notice = "ask"
    /\ Set(d, [ui[d] EXCEPT !.notice = "none"])
    /\ UNCHANGED jobVars

-----------------------------------------------------------------------------
(* The session between two devices. *)

\* The applications of p to d are lost with the messages ms.
FailApplies(u, ms) ==
    [u EXCEPT !.failures = @ + Cardinality({k \in DOMAIN ms : ms[k].type = "APPLY"})]

\* A request is lost after its retries.
Lose(p, d) ==
    /\ net[p][d] # <<>>
    /\ Fault
    /\ net' = Taken(p, d)
    /\ Set(p, FailApplies(ui[p], <<Head(net[p][d])>>))
    /\ UNCHANGED <<jb, thr, gui, asked>>

\* The session breaks, both ends report it, and the next request finds a new one.
Disconnected(p, d) ==
    /\ p # d
    /\ Fault
    /\ net' = [net EXCEPT ![p][d] = <<>>, ![d][p] = <<>>]
    /\ ui' = [ui EXCEPT ![p] = FailApplies(@, net[p][d]), ![d] = FailApplies(@, net[d][p])]
    /\ gui' = [gui EXCEPT ![p] = Append(@, Ev("LOST", d, 0, TRUE, "DISCONNECTED")),
                          ![d] = Append(@, Ev("LOST", p, 0, TRUE, "DISCONNECTED"))]
    /\ UNCHANGED <<jb, thr, asked>>

\* A client misses its pongs.
PingOut(d, p) ==
    /\ p # d
    /\ Fault
    /\ gui' = [gui EXCEPT ![d] = Append(@, Ev("LOST", p, 0, TRUE, "PINGOUT"))]
    /\ UNCHANGED <<jb, thr, net, ui, asked>>

-----------------------------------------------------------------------------
(* Other uses of the device, which share the tunnel manager, the address to *)
(* confirm and the slot of the request that awaits a login.                 *)

\* ShareHelper::connectToDevice: a cooperation with another device takes the
\* tunnel, and no forward stops; its application goes out now or after a login.
ConnectToDevice(d) ==
    /\ Fault
    /\ ~Joining(d)
    /\ jb' = [jb EXCEPT ![d].peer = Elsewhere]
    /\ \E loggedIn \in BOOLEAN :
          Set(d, [ui[d] EXCEPT !.combi = None, !.confirm = IF loggedIn THEN Elsewhere ELSE @])
    /\ UNCHANGED <<thr, net, gui, asked>>

\* APPLY_SHARE of another device: msg_cb, then notifyConnectRequest, which
\* stops all forwards unless the device is cooperating.
ApplyShare(d) ==
    /\ Fault
    /\ Set(d, [ui[d] EXCEPT !.confirm = Elsewhere])
    /\ gui' = [gui EXCEPT ![d] = Append(@, Ev("SHARE", d, 0, TRUE, ""))]
    /\ UNCHANGED <<jb, thr, net, asked>>

NotifyConnectRequest(d) ==
    /\ Turn(d, "SHARE")
    /\ \/ UNCHANGED jb
       \/ jb' = [jb EXCEPT ![d].peer = None, ![d].forwards = {}]
    /\ gui' = Popped(d, <<>>)
    /\ UNCHANGED <<thr, net, trouble, ui, asked>>

\* trySearchDevice overwrites the slot.
TrySearchDevice(d) ==
    /\ ui[d].combi # None
    /\ Fault
    /\ ~Joining(d)
    /\ Set(d, [ui[d] EXCEPT !.combi = None])
    /\ UNCHANGED <<jb, thr, net, gui, asked>>

-----------------------------------------------------------------------------

GuiEvents(d) ==
    \/ JobHandlers(d) /\ UNCHANGED ui
    \/ HandleAsyncRpcResult(d) \/ OnConnectStatusChanged(d) \/ Accepted(d) \/ Rejected(d)
    \/ OnTransChanged(d) \/ HandleConnectStatus(d) \/ OnTransferExcepted(d)
    \/ NotifyTransferRequest(d) \/ HandleCancelTransferApply(d) \/ NotifyConnectRequest(d)
Requests(p, d) ==
    \/ JobRequests(p, d) /\ UNCHANGED ui
    \/ ApplyTrans(p, d) \/ ApplyTransResult(p, d) \/ ApplyCanceled(p, d)
Threads(j) == Download(j) /\ UNCHANGED ui
User(d) ==
    \/ \E p \in Dev : SendTo(d, p)
    \/ CancelTransferApply(d) \/ Cancel(d) \/ Expire(d)
    \/ \E agree \in BOOLEAN : Reply(d, agree)
    \/ ConnectToDevice(d) \/ TrySearchDevice(d)
Session(p, d) == Lose(p, d) \/ Disconnected(p, d) \/ PingOut(p, d)

Next ==
    \/ \E d \in Dev :
          \/ GuiEvents(d) \/ User(d) \/ ApplyShare(d) \/ LoggedIn(d) \/ OnVerifyTimeout(d)
          \/ \E ok \in BOOLEAN : RpcResult(d, ok)
          \/ \E p \in Dev : Requests(p, d) \/ Session(p, d)
    \/ \E j \in Job : Threads(j)

Spec == Init /\ [][Next]_vars

-----------------------------------------------------------------------------
(* Properties. *)

Known(j) == thr[j].from # None
Sending(j) == Known(j) /\ jb[thr[j].from].worker[thr[j].to] = j
Receiving(j) == Known(j) /\ jb[thr[j].to].worker[thr[j].from] = j

Calm == trouble["fault"] = 0
\* Nothing is under way: no event, request, RPC result or download is left.
Quiet ==
    /\ \A d \in Dev :
          /\ gui[d] = <<>> /\ \A p \in Dev : net[d][p] = <<>>
          /\ ui[d].combi = None /\ ui[d].answers = 0 /\ ui[d].failures = 0
    /\ \A j \in Job : ~Running(j)

\* No transfer follows both a cancellation and a fault.  A REQ_TRANS_CANCLE that
\* is lost leaves the receiver at work: the next transfer takes the place of its
\* worker and forward, and both properties below fail.
CancelKept == asked > 1 => trouble["fault"] = 0 \/ trouble["cancel"] = 0

\* The end or the failure of one transfer never releases the next one with the
\* same peer: onFinished and onException carry the peer's address only, so the
\* worker in _trans_workers must still be the one that emitted the event when
\* it is handled.
OwnEvents ==
    CancelKept => \A d \in Dev : gui[d] # <<>> =>
        LET e == Head(gui[d])
        IN  e.type \in {"FINISHED", "EXCEPTION"} => jb[d].worker[e.peer] \in {0, e.job}

\* Every listening file server, every transfer service and every local forward
\* belongs to a worker that _trans_workers still holds, so that
\* releaseTransWorker will end it: finish, exception, cancellation by either
\* end, and the next transfer leave none behind.
ResourcesOwned ==
    CancelKept =>
        \A d \in Dev :
            /\ \A j \in jb[d].services \cup jb[d].forwards :
                  \E p \in Dev : jb[d].tjob[p] = j /\ jb[d].worker[p] = j
            /\ \A j \in jb[d].servers : jb[d].worker[thr[j].to] = j

\* The two devices never wait for each other: as long as something is under way,
\* a thread, a handler or a timer other than the user's can take a step.  The
\* GUI thread joins the download thread in ~FileClient, and through the tunnel
\* the thread's request needs that GUI thread: the request must end without it.
NoStandstill ==
    Quiet \/ \/ \E j \in Job : ENABLED Threads(j)
             \/ \E d \in Dev : ENABLED GuiEvents(d)
             \/ \E d \in Dev : ENABLED LoggedIn(d)
             \/ \E d \in Dev, ok \in BOOLEAN : ENABLED RpcResult(d, ok)
             \/ \E p, d \in Dev : ENABLED Requests(p, d)

\* When everything under way has been dealt with, no device keeps a receiving
\* worker, whatever was cancelled, lost or failed; and without a fault, a loss
\* or another use of the device, none keeps a sending one either.  A sender has
\* no deadline of its own: only webfinish, an error that its server sees and the
\* peer's REQ_TRANS_CANCLE release it.
NothingLeft == Quiet => \A j \in Job : ~Receiving(j) /\ (Calm => ~Sending(j))

\* An application does not hang: when everything under way has been dealt with,
\* TransferHelper no longer shows Connecting, whether the request went out at
\* once or waited in _nextCombi for the login, was cancelled meanwhile or not.
\* A search or a cooperation that overwrites the slot is excluded (Calm).
ApplicationResolves == Quiet /\ Calm => \A d \in Dev : ui[d].status # "Connecting"

\* A transfer that nobody cancels and nothing disturbs downloads every name
\* completely, and afterwards no TransferHelper shows Transfering, although
\* START and FINISH take two hops through the event queue and the release of
\* the worker only one.
UndisturbedCompletes ==
    (Quiet /\ Calm /\ trouble["cancel"] = 0) =>
        /\ \A j \in Job : Known(j) => thr[j].pc = "done" /\ ~thr[j].short
        /\ \A d \in Dev : ui[d].status # "Transfering"
=============================================================================
