---------------------------- MODULE TransferJob ----------------------------
(***************************************************************************)
(* File transfers below the dialogue: SessionManager keeps at most one     *)
(* TransferWorker per peer (_trans_workers, the job id is the peer's       *)
(* address) and one tunnel service or forward per peer (_tunnel_jobs).     *)
(* The sender's worker runs a FileServer, the receiver's a FileClient      *)
(* whose download thread fetches the names one after the other.            *)
(*                                                                         *)
(* A job number stands for one call of sendFiles: its web binding, its     *)
(* port, its tunnel service and, at the receiver, its download thread.     *)
(* gui[d] is the Qt event queue of device d: queued signals and            *)
(* invokeMethod calls run in the order in which they were posted.  The     *)
(* job of an event is not in the code, which only passes the peer; it      *)
(* records which worker emitted it.  Of a worker's notices only START and  *)
(* FINISH are kept: the others change no state but the numbers shown.      *)
(***************************************************************************)
EXTENDS Integers, Sequences

CONSTANTS
    Dev,          \* devices
    None,         \* no device
    Elsewhere,    \* a device outside Dev, with which one may cooperate
    Names,        \* names per transfer
    MaxJobs,      \* bound: transfers the users ask for in a behaviour
    MaxFaults,    \* bound: faults, losses and other uses of a device
    MaxEvents     \* bound: transfers, faults and cancellations together

VARIABLES
    jb,       \* [Dev -> SessionManager and TunnelManager of a device]
    thr,      \* [Job -> transfer]
    net,      \* [Dev -> [Dev -> Seq(Message)]]: requests under way, by sender
    gui,      \* [Dev -> Seq(Event)]
    trouble,  \* [Trouble -> Nat]: cancellations; faults, losses and other uses of a device
    asked     \* transfers the users have asked for

jobVars == <<jb, thr, net, gui, trouble, asked>>

ASSUME TransferJobAssumption ==
    /\ Names \in Nat \ {0}
    /\ MaxJobs \in Nat \ {0}
    /\ MaxFaults \in Nat /\ MaxEvents \in Nat
    /\ {None, Elsewhere} \cap Dev = {}

Job == 1..MaxJobs
Trouble == {"fault", "cancel"}
Reason == {"", "net_error", "error"}    \* error: io_error, not_found or fs_exception
Device ==
    [worker : [Dev -> 0..MaxJobs],         \* _trans_workers, 0 where there is none
     tjob : [Dev -> 0..MaxJobs],           \* _tunnel_jobs
     bound : 0..MaxJobs,                   \* the transfer in WebBinder and TokenCache
     servers : SUBSET Job,                 \* listening FileServers
     peer : Dev \cup {None, Elsewhere},    \* TunnelManager::peer
     services : SUBSET Job,                \* registered transfer services
     forwards : SUBSET Job]                \* local forwards
Transfer ==
    [from : Dev \cup {None}, to : Dev \cup {None},
     loop : BOOLEAN,       \* the server listens on the loopback interface only
     tunnel : BOOLEAN,     \* the receiver fetches through a forward
     pc : {"none", "start", "info", "body", "finish", "answered", "done"},
     left : 0..Names,      \* names not walked yet
     stop : BOOLEAN,       \* FileClient::_stop
     short : BOOLEAN]      \* some name was not received completely
Message == [type : {"APPLY", "RESULT", "CANCELED", "DATAS", "CANCLE"},
            job : 0..MaxJobs, ok : BOOLEAN, tunnel : BOOLEAN, reason : Reason]
Event == [type : {"DATA", "CANCELJOB", "EXCEPTION", "FINISHED", "NOTIFY", "CHANGED", "LOST",
                  "REQUEST", "ACCEPTED", "REJECTED", "CANCELAPPLY", "RPCRESULT", "STATUS",
                  "EXCEPTED", "SHARE"},
          peer : Dev, job : 0..MaxJobs, ok : BOOLEAN,
          what : Reason \cup {"START", "FINISH", "CANCELED", "EXCEPTION",
                              "DISCONNECTED", "PINGOUT"}]

JobTypeOK ==
    /\ jb \in [Dev -> Device]
    /\ thr \in [Job -> Transfer]
    /\ net \in [Dev -> [Dev -> Seq(Message)]]
    /\ gui \in [Dev -> Seq(Event)]
    /\ trouble \in [Trouble -> 0..MaxEvents]
    /\ asked \in 0..MaxJobs

Fresh == [from |-> None, to |-> None, loop |-> FALSE, tunnel |-> FALSE, pc |-> "none",
          left |-> Names, stop |-> FALSE, short |-> FALSE]

JobInit ==
    /\ jb = [d \in Dev |-> [worker |-> [p \in Dev |-> 0], tjob |-> [p \in Dev |-> 0],
                            bound |-> 0, servers |-> {}, peer |-> None,
                            services |-> {}, forwards |-> {}]]
    /\ thr = [j \in Job |-> Fresh]
    /\ net = [d \in Dev |-> [p \in Dev |-> <<>>]]
    /\ gui = [d \in Dev |-> <<>>]
    /\ trouble = [t \in Trouble |-> 0]
    /\ asked = 0

-----------------------------------------------------------------------------
(* Messages and events. *)

Msg(type) == [type |-> type, job |-> 0, ok |-> TRUE, tunnel |-> FALSE, reason |-> ""]
Ev(type, peer, job, ok, what) ==
    [type |-> type, peer |-> peer, job |-> job, ok |-> ok, what |-> what]
Notify(j, p, what) == Ev("NOTIFY", p, j, TRUE, what)
Changed(p, what) == Ev("CHANGED", p, 0, TRUE, what)

Sent(d, p, m) == [net EXCEPT ![d][p] = Append(@, m)]
Receives(p, d, type) == net[p][d] # <<>> /\ Head(net[p][d]).type = type
Taken(p, d) == [net EXCEPT ![p][d] = Tail(@)]

Room == asked + trouble["fault"] + trouble["cancel"] < MaxEvents
Happens(t) == Room /\ trouble' = [trouble EXCEPT ![t] = @ + 1]
Fault == trouble["fault"] < MaxFaults /\ Happens("fault")

-----------------------------------------------------------------------------
(* Workers. *)

Running(j) == thr[j].pc \notin {"none", "done"}

\* The GUI thread waits in ~FileClient for the download thread of a worker
\* that has left the table.
Joining(d) ==
    \E j \in Job : Running(j) /\ thr[j].to = d /\ jb[d].worker[thr[j].from] # j

Turn(d, type) == gui[d] # <<>> /\ Head(gui[d]).type = type /\ ~Joining(d)
Popped(d, es) == [gui EXCEPT ![d] = Tail(@) \o es]

\* The worker emits what its server or client reports as long as it is in
\* the table: the callback is a weak pointer, and stop() clears it.
Emits(d, p, j, es) == IF jb[d].worker[p] = j THEN es ELSE <<>>

\* Mutant: the tunnel job is left behind.
ReleasedKeepsTunnel(d, p) ==
    LET j == jb[d].worker[p]
        sends == j # 0 /\ thr[j].from = d
    IN  [jb[d] EXCEPT !.worker[p] = 0,
                      !.bound = IF sends THEN 0 ELSE @,
                      !.servers = IF sends THEN @ \ {j} ELSE @]

\* releaseTransWorker: stop the worker, forget it, release its tunnel job.
\* stop() of a sender clears the bindings of all senders.
Released(d, p) ==
    LET j == jb[d].worker[p]
        sends == j # 0 /\ thr[j].from = d
    IN  [jb[d] EXCEPT !.worker[p] = 0,
                      !.bound = IF sends THEN 0 ELSE @,
                      !.servers = IF sends THEN @ \ {j} ELSE @,
                      !.services = @ \ {jb[d].tjob[p]},
                      !.forwards = @ \ {jb[d].tjob[p]},
                      !.tjob[p] = 0]
Stopped(d, p) ==
    LET j == jb[d].worker[p]
    IN  IF j # 0 /\ thr[j].to = d THEN [thr EXCEPT ![j].stop = TRUE] ELSE thr

\* handleCancelTrans reports the end also when there was nothing to release.
CancelReport(p, reason) == Changed(p, IF reason = "" THEN "CANCELED" ELSE "EXCEPTION")

\* Mutant: the peer is not told.
CancelSyncFileSilent(d, p, reason, queue) ==
    /\ jb' = [jb EXCEPT ![d] = Released(d, p)]
    /\ thr' = Stopped(d, p)
    /\ gui' = [gui EXCEPT ![d] = Append(queue, CancelReport(p, reason))]
    /\ UNCHANGED net

\* cancelSyncFile: tell the peer, unless the network failed, then cancel here.
\* queue is what is left of the device's event queue.
CancelSyncFile(d, p, reason, queue) ==
    /\ net' = IF reason = "net_error" THEN net
              ELSE Sent(d, p, [Msg("CANCLE") EXCEPT !.reason = reason])
    /\ jb' = [jb EXCEPT ![d] = Released(d, p)]
    /\ thr' = Stopped(d, p)
    /\ gui' = [gui EXCEPT ![d] = Append(queue, CancelReport(p, reason))]

\* ensureTunnelPeer: never replaces another active peer.
TunnelFree(d, p) == jb[d].peer \in {None, p}

\* The number of the next transfer.
NextJob == CHOOSE j \in Job : thr[j].from = None /\ \A i \in 1..(j - 1) : thr[i].from # None

\* Mutant: the names are not bound.
StartSendUnbound(device, j) == [device EXCEPT !.servers = @ \cup {j}]

\* tryStartSend: start the server and bind the names in place of any others.
StartSend(device, j) == [device EXCEPT !.servers = @ \cup {j}, !.bound = j]

\* tryStartReceive: start the download thread.
StartReceive(j, fwd) == [thr EXCEPT ![j].pc = "start", ![j].tunnel = fwd]

\* sendFiles: register the service, start the server, enter the tables and
\* announce the transfer.  An older worker of the peer leaves the table without
\* stop(): its server goes on.  Without the service the server is reached
\* directly.  When the server does not start, nothing is left and nobody is told.
SendFiles(d, p, useTunnel) ==
    LET j == NextJob
        selected == [jb EXCEPT ![d].peer = IF useTunnel THEN p ELSE @]
    IN  \/ \E loop \in BOOLEAN :
             /\ loop => useTunnel
             /\ IF useTunnel /\ ~loop THEN Fault ELSE UNCHANGED trouble
             /\ jb' = [selected EXCEPT ![d] = [StartSend(@, j) EXCEPT
                           !.worker[p] = j,
                           !.tjob[p] = IF loop THEN j ELSE @,
                           !.services = IF loop THEN @ \cup {j} ELSE @]]
             /\ thr' = [thr EXCEPT ![j] = [Fresh EXCEPT !.from = d, !.to = p, !.loop = loop]]
             /\ net' = Sent(d, p, [Msg("DATAS") EXCEPT !.job = j])
        \/ /\ Fault
           /\ jb' = selected
           /\ UNCHANGED <<thr, net>>

-----------------------------------------------------------------------------
(* Handlers on the GUI thread. *)

\* handleTransData: open the forward, or fall back to the sender's endpoint.
HandleTransData(d) ==
    /\ Turn(d, "DATA")
    /\ LET p == Head(gui[d]).peer
           j == Head(gui[d]).job
           able == thr[j].loop /\ TunnelFree(d, p)
       IN  \E fwd \in BOOLEAN :
              /\ fwd => able
              /\ IF able /\ ~fwd THEN Fault ELSE UNCHANGED trouble
              /\ jb' = [jb EXCEPT ![d].worker[p] = j,
                                  ![d].tjob[p] = IF fwd THEN j ELSE @,
                                  ![d].forwards = IF fwd THEN @ \cup {j} ELSE @,
                                  ![d].peer = IF able THEN p ELSE @]
              /\ thr' = StartReceive(j, fwd)
    /\ gui' = Popped(d, <<>>)
    /\ UNCHANGED <<net, asked>>

\* Mutant: the end is reported and the worker kept.
HandleCancelTransReportOnly(d) ==
    /\ Turn(d, "CANCELJOB")
    /\ gui' = Popped(d, <<CancelReport(Head(gui[d]).peer, Head(gui[d]).what)>>)
    /\ UNCHANGED <<jb, thr, net, trouble, asked>>

HandleCancelTrans(d) ==
    /\ Turn(d, "CANCELJOB")
    /\ LET e == Head(gui[d])
       IN  /\ jb' = [jb EXCEPT ![d] = Released(d, e.peer)]
           /\ thr' = Stopped(d, e.peer)
           /\ gui' = Popped(d, <<CancelReport(e.peer, e.what)>>)
    /\ UNCHANGED <<net, trouble, asked>>

HandleTransException(d) ==
    /\ Turn(d, "EXCEPTION")
    /\ CancelSyncFile(d, Head(gui[d]).peer, Head(gui[d]).what, Tail(gui[d]))
    /\ UNCHANGED <<trouble, asked>>

HandleTransFinish(d) ==
    /\ Turn(d, "FINISHED")
    /\ jb' = [jb EXCEPT ![d] = Released(d, Head(gui[d]).peer)]
    /\ thr' = Stopped(d, Head(gui[d]).peer)
    /\ gui' = Popped(d, <<>>)
    /\ UNCHANGED <<net, trouble, asked>>

\* handleTransChanged passes a worker's notice on, once more through the queue.
HandleTransChanged(d) ==
    /\ Turn(d, "NOTIFY")
    /\ gui' = Popped(d, <<Changed(Head(gui[d]).peer, Head(gui[d]).what)>>)
    /\ UNCHANGED <<jb, thr, net, trouble, asked>>

-----------------------------------------------------------------------------
(* Requests that SessionWorker hands to SessionManager. *)

OnTransData(p, d) ==
    /\ Receives(p, d, "DATAS")
    /\ net' = Taken(p, d)
    /\ gui' = [gui EXCEPT ![d] = Append(@, Ev("DATA", p, Head(net[p][d]).job, TRUE, ""))]
    /\ UNCHANGED <<jb, thr, trouble, asked>>

OnCancelJob(p, d) ==
    /\ Receives(p, d, "CANCLE")
    /\ net' = Taken(p, d)
    /\ gui' = [gui EXCEPT ![d] = Append(@, Ev("CANCELJOB", p, 0, TRUE, Head(net[p][d]).reason))]
    /\ UNCHANGED <<jb, thr, trouble, asked>>

-----------------------------------------------------------------------------
(* The download thread of job j. *)

\* The file server of job j answers: it listens and, through the tunnel, both
\* ends still know the service and both GUI threads move the frames.
Served(j) ==
    LET f == thr[j].from
        t == thr[j].to
    IN  /\ j \in jb[f].servers
        /\ IF thr[j].tunnel
           THEN /\ j \in jb[t].forwards /\ j \in jb[f].services
                /\ jb[t].peer = f /\ jb[f].peer = t
                /\ ~Joining(t) /\ ~Joining(f)
           ELSE ~thr[j].loop

Post(j, atFrom, atTo) ==
    LET f == thr[j].from
        t == thr[j].to
    IN  [gui EXCEPT ![f] = @ \o Emits(f, t, j, atFrom), ![t] = @ \o Emits(t, f, j, atTo)]

Exception(j, p, reason) == <<Ev("EXCEPTION", p, j, TRUE, reason)>>

\* Mutant: the request waits for its answer for ever.
UnansweredWaits(j, atTo) == Served(j) /\ Fault /\ gui' = Post(j, <<>>, atTo)

\* A request of thread j goes unanswered, and the client reports atTo: nobody
\* serves it, stop() has disconnected the client, or it is a fault.  The
\* server's end of a connection may report that it broke.
Unanswered(j, atTo) ==
    \/ /\ IF Served(j) /\ ~thr[j].stop THEN Fault ELSE UNCHANGED trouble
       /\ gui' = Post(j, <<>>, atTo)
    \/ /\ thr[j].tunnel \/ Served(j)
       /\ Fault
       /\ gui' = Post(j, Exception(j, thr[j].to, "net_error"), atTo)

\* Mutant: the walk does not notice its last name.
WalkedOn(j, short) ==
    [thr EXCEPT ![j].left = @ - 1, ![j].short = @ \/ short, ![j].pc = "info"]

\* Thread j goes on to the next name, or to the end.
Walked(j, short) ==
    [thr EXCEPT ![j].left = @ - 1,
                ![j].short = @ \/ short,
                ![j].pc = IF thr[j].left = 1 THEN "finish" ELSE "info"]

\* walkDownload: webstart is reported at both ends, if the server hears it.
WebStart(j) ==
    /\ thr[j].pc = "start"
    /\ thr' = [thr EXCEPT ![j].pc = "info"]
    /\ LET f == thr[j].from
           t == thr[j].to
       IN  \/ /\ Served(j)
              /\ gui' = Post(j, <<Notify(j, t, "START")>>, <<Notify(j, f, "START")>>)
              /\ UNCHANGED trouble
           \/ Unanswered(j, <<Notify(j, f, "START")>>)
    /\ UNCHANGED <<jb, net, asked>>

\* requestInfo: a name without an answer, or unknown to the binder, becomes an
\* empty file and the walk goes on without looking at _stop.
RequestInfo(j) ==
    /\ thr[j].pc = "info"
    /\ \/ /\ Served(j)
          /\ thr' = IF jb[thr[j].from].bound = j
                    THEN [thr EXCEPT ![j].pc = "body"]
                    ELSE Walked(j, TRUE)
          /\ UNCHANGED <<gui, trouble>>
       \/ Unanswered(j, <<>>) /\ thr' = Walked(j, TRUE)
    /\ UNCHANGED <<jb, net, asked>>

\* After a file the walk ends if _stop is set.
AfterFile(j, short) ==
    IF thr[j].stop THEN [thr EXCEPT ![j].pc = "done"] ELSE Walked(j, short)

\* downloadFile.  An error is only reported: the walk goes on.  A connection
\* that ends within the body counts as the end of the file, and five seconds
\* without data end it silently.  A bound file that has vanished is reported at
\* both ends, an unbound name and a failing disk at the receiver only.
DownloadFile(j) ==
    /\ thr[j].pc = "body"
    /\ LET f == thr[j].from
           t == thr[j].to
           error == Exception(j, f, "error")
       IN  \/ /\ Served(j) /\ jb[f].bound = j
              /\ thr' = AfterFile(j, FALSE)
              /\ UNCHANGED <<gui, trouble>>
           \/ /\ Served(j) /\ jb[f].bound # j
              /\ thr' = AfterFile(j, TRUE)
              /\ gui' = Post(j, <<>>, error)
              /\ UNCHANGED trouble
           \/ /\ thr' = AfterFile(j, TRUE)
              /\ Unanswered(j, <<>>) \/ Unanswered(j, Exception(j, f, "net_error"))
           \/ /\ Fault
              /\ thr' = AfterFile(j, TRUE)
              /\ \/ gui' = Post(j, <<>>, error)
                 \/ /\ Served(j) /\ jb[f].bound = j
                    /\ gui' = Post(j, Exception(j, t, "error"), error)
    /\ UNCHANGED <<jb, net, asked>>

Finish(p, j) == <<Notify(j, p, "FINISH"), Ev("FINISHED", p, j, TRUE, "")>>

\* webfinish: the server reports the end to its worker, then the client to its
\* own when the answer is there.
WebFinish(j) ==
    /\ thr[j].pc = "finish"
    /\ thr' = [thr EXCEPT ![j].pc = "answered"]
    /\ \/ /\ Served(j)
          /\ gui' = Post(j, Finish(thr[j].to, j), <<>>)
          /\ UNCHANGED trouble
       \/ Unanswered(j, <<>>)
    /\ UNCHANGED <<jb, net, asked>>

WebFinished(j) ==
    /\ thr[j].pc = "answered"
    /\ thr' = [thr EXCEPT ![j].pc = "done"]
    /\ gui' = Post(j, <<>>, Finish(thr[j].from, j))
    /\ UNCHANGED <<jb, net, trouble, asked>>

-----------------------------------------------------------------------------

JobHandlers(d) ==
    \/ HandleTransData(d) \/ HandleCancelTrans(d) \/ HandleTransException(d)
    \/ HandleTransFinish(d) \/ HandleTransChanged(d)
Download(j) ==
    WebStart(j) \/ RequestInfo(j) \/ DownloadFile(j) \/ WebFinish(j) \/ WebFinished(j)
JobRequests(p, d) == OnTransData(p, d) \/ OnCancelJob(p, d)
=============================================================================
