------------------------------ MODULE ProtoRpc ------------------------------
(***************************************************************************)
(* Asynchronous requests between two session endpoints "a" and "b"          *)
(* (ProtoEndpoint over the generated request table of FinalClient).         *)
(*                                                                         *)
(* Every request carries its own id, and is sent by sendRpcRequest, which   *)
(* retries while no session takes it.  asyncRequest registers the request   *)
(* in the table, then files its future under the request's TYPE; a detached *)
(* thread takes the future of that type and waits for it for three seconds. *)
(* A message whose id is not in the table is handled as a request, and is   *)
(* answered under the same id with the mask DO_SUCCESS.                     *)
(***************************************************************************)
EXTENDS Naturals, Sequences

CONSTANTS
    Request,          \* the requests of a behaviour
    OwnerOf,          \* [Request -> End]: who sends it
    TypeOf,           \* [Request -> Type]
    Type,             \* request types (masks) the other end answers
    kRpcRetryCount,   \* retries of a request no session takes
    MaxDrops,         \* bound: session losses
    None

VARIABLES
    up,         \* the session carries messages
    net,        \* [End -> Seq(Message)]: on the way to an end
    table,      \* ids in _requests_by_id of their owner
    future,     \* [Request -> state of its promise]
    slot,       \* [End -> [Type -> Request or None]]: _responses_by_type
    stage,      \* [Request -> where sendRpcRequest and its thread are]
    remaining,  \* [Request -> retries left]
    took,       \* [Request -> the request whose future its thread took]
    result,     \* [Request -> what the result handler was given]
    sends,      \* [Request -> how often it was put on the wire]
    handled,    \* [End -> [Request -> how often it was handled as a request]]
    drops       \* session losses so far

vars == <<up, net, table, future, slot, stage, remaining, took, result, sends, handled, drops>>

End == {"a", "b"}
Other(e) == IF e = "a" THEN "b" ELSE "a"
DO_SUCCESS == "DO_SUCCESS"

ASSUME RpcAssumption ==
    /\ OwnerOf \in [Request -> End]
    /\ TypeOf \in [Request -> Type]
    /\ kRpcRetryCount \in Nat /\ MaxDrops \in Nat
    /\ DO_SUCCESS \notin Type
    /\ None \notin Request

Message == [id : Request, mask : Type \cup {DO_SUCCESS}]

\* "new": not asked for yet; "sent": registered, its future not filed yet;
\* "filed": its thread has not run yet; "waiting": its thread polls the
\* future; "expired": the poll is over and the entry not released yet.
Stage == {"new", "retry", "sent", "filed", "waiting", "expired", "done", "dropped"}

TypeOK ==
    /\ up \in BOOLEAN
    /\ net \in [End -> Seq(Message)]
    /\ table \subseteq Request
    /\ future \in [Request -> {"none", "open", "value", "exception"}]
    /\ slot \in [End -> [Type -> Request \cup {None}]]
    /\ stage \in [Request -> Stage]
    /\ remaining \in [Request -> 0..kRpcRetryCount]
    /\ took \in [Request -> Request \cup {None}]
    /\ result \in [Request -> {None, "empty", "answer"}]
    /\ sends \in [Request -> Nat]
    /\ handled \in [End -> [Request -> Nat]]
    /\ drops \in 0..MaxDrops

Init ==
    /\ up = TRUE
    /\ net = [e \in End |-> <<>>]
    /\ table = {}
    /\ future = [r \in Request |-> "none"]
    /\ slot = [e \in End |-> [t \in Type |-> None]]
    /\ stage = [r \in Request |-> "new"]
    /\ remaining = [r \in Request |-> kRpcRetryCount]
    /\ took = [r \in Request |-> None]
    /\ result = [r \in Request |-> None]
    /\ sends = [r \in Request |-> 0]
    /\ handled = [e \in End |-> [r \in Request |-> 0]]
    /\ drops = 0

-----------------------------------------------------------------------------
(* Sending. *)

\* (mutation) one retry too many
UnsentOffByOne(left) == IF left >= 0 THEN "retry" ELSE "dropped"

\* scheduleRpcRetry: wait for the timer, or give up without a word.
Unsent(left) == IF left > 0 THEN "retry" ELSE "dropped"

\* sendAsyncRequest up to FinalClient::request, which sends and registers.
\* With no session to take it the request is retried left more times.
SendAsyncRequest(r, left) ==
    /\ remaining' = [remaining EXCEPT ![r] = left]
    /\ IF up
       THEN /\ net' = [net EXCEPT ![Other(OwnerOf[r])] = Append(@, [id |-> r, mask |-> TypeOf[r]])]
            /\ table' = table \cup {r}
            /\ future' = [future EXCEPT ![r] = "open"]
            /\ stage' = [stage EXCEPT ![r] = "sent"]
            /\ sends' = [sends EXCEPT ![r] = @ + 1]
       ELSE /\ stage' = [stage EXCEPT ![r] = Unsent(left)]
            /\ UNCHANGED <<net, table, future, sends>>
    /\ UNCHANGED <<up, slot, took, result, handled, drops>>

SendRpcRequest(r) == stage[r] = "new" /\ SendAsyncRequest(r, kRpcRetryCount)

RetryTimer(r) == stage[r] = "retry" /\ SendAsyncRequest(r, remaining[r] - 1)

\* asyncRequest, second half: a promise already broken counts as not sent, and
\* the request is retried; otherwise its future is filed, unless one of the
\* same type is still there, and the thread is started.
FileFuture(r) ==
    LET e == OwnerOf[r]
        t == TypeOf[r]
    IN  /\ stage[r] = "sent"
        /\ IF future[r] = "exception"
           THEN /\ stage' = [stage EXCEPT ![r] = Unsent(remaining[r])]
                /\ UNCHANGED slot
           ELSE /\ stage' = [stage EXCEPT ![r] = "filed"]
                /\ slot' = [slot EXCEPT ![e][t] = IF @ = None THEN r ELSE @]
        /\ UNCHANGED <<up, net, table, future, remaining, took, result, sends, handled, drops>>

-----------------------------------------------------------------------------
(* The thread that waits for the answer. *)

\* getResponse takes the future filed under the type, if there is one.
TakeFuture(r) ==
    LET e == OwnerOf[r]
        t == TypeOf[r]
    IN  /\ stage[r] = "filed"
        /\ took' = [took EXCEPT ![r] = slot[e][t]]
        /\ slot' = [slot EXCEPT ![e][t] = None]
        /\ IF slot[e][t] = None
           THEN /\ stage' = [stage EXCEPT ![r] = "done"]
                /\ result' = [result EXCEPT ![r] = "empty"]
           ELSE /\ stage' = [stage EXCEPT ![r] = "waiting"]
                /\ UNCHANGED result
        /\ UNCHANGED <<up, net, table, future, remaining, sends, handled, drops>>

GetResponse(r) ==
    /\ stage[r] = "waiting"
    /\ future[took[r]] = "value"
    /\ stage' = [stage EXCEPT ![r] = "done"]
    /\ result' = [result EXCEPT ![r] = "answer"]
    /\ UNCHANGED <<up, net, table, future, slot, remaining, took, sends, handled, drops>>

\* (mutation) no time limit
GiveUpBroken(r) ==
    /\ stage[r] = "waiting"
    /\ future[took[r]] = "exception"
    /\ stage' = [stage EXCEPT ![r] = "expired"]
    /\ UNCHANGED <<up, net, table, future, slot, remaining, took, result, sends, handled, drops>>

\* The three seconds are over, or the promise was broken.
GiveUp(r) ==
    /\ stage[r] = "waiting"
    /\ future[took[r]] \in {"open", "exception"}
    /\ stage' = [stage EXCEPT ![r] = "expired"]
    /\ UNCHANGED <<up, net, table, future, slot, remaining, took, result, sends, handled, drops>>

\* (mutation) the entry of an unanswered request stays
ReleaseNothing(r) ==
    /\ stage[r] = "expired"
    /\ stage' = [stage EXCEPT ![r] = "done"]
    /\ result' = [result EXCEPT ![r] = "empty"]
    /\ UNCHANGED <<up, net, table, future, slot, remaining, took, sends, handled, drops>>

\* An empty answer is fed to the table so that it forgets the request.
ReleaseExpired(r) ==
    /\ stage[r] = "expired"
    /\ table' = table \ {took[r]}
    /\ future' = IF took[r] \in table THEN [future EXCEPT ![took[r]] = "value"] ELSE future
    /\ stage' = [stage EXCEPT ![r] = "done"]
    /\ result' = [result EXCEPT ![r] = "empty"]
    /\ UNCHANGED <<up, net, slot, remaining, took, sends, handled, drops>>

-----------------------------------------------------------------------------
(* Receiving. *)

\* (mutation) the answer keeps the mask of the request
ReplySameMask(m) == m

\* onReceivedMessage answers a request under its id, always with DO_SUCCESS.
Reply(m) == [id |-> m.id, mask |-> DO_SUCCESS]

\* (mutation) while a request waits, whatever arrives is its answer
OnReceiveWhileWaiting(e) ==
    /\ net[e] # <<>>
    /\ LET m == Head(net[e])
           mine == {r \in table : OwnerOf[r] = e}
           request == mine = {} /\ m.mask \in Type
       IN  /\ table' = table \ mine
           /\ future' = [r \in Request |-> IF r \in mine THEN "value" ELSE future[r]]
           /\ handled' = IF request THEN [handled EXCEPT ![e][m.id] = @ + 1] ELSE handled
           /\ net' = [net EXCEPT ![e] = Tail(@),
                                 ![Other(e)] = IF request /\ up THEN Append(@, Reply(m)) ELSE @]
    /\ UNCHANGED <<up, slot, stage, remaining, took, result, sends, drops>>

\* onReceive: an id in the receiver's own table is an answer; anything else is
\* a request of the peer.  A mask nobody handles has no effect and no answer.
OnReceive(e) ==
    /\ net[e] # <<>>
    /\ LET m == Head(net[e])
           answers == OwnerOf[m.id] = e /\ m.id \in table
           request == ~answers /\ m.mask \in Type
       IN  /\ table' = IF answers THEN table \ {m.id} ELSE table
           /\ future' = IF answers THEN [future EXCEPT ![m.id] = "value"] ELSE future
           /\ handled' = IF request THEN [handled EXCEPT ![e][m.id] = @ + 1] ELSE handled
           /\ net' = [net EXCEPT ![e] = Tail(@),
                                 ![Other(e)] = IF request /\ up THEN Append(@, Reply(m)) ELSE @]
    /\ UNCHANGED <<up, slot, stage, remaining, took, result, sends, drops>>

-----------------------------------------------------------------------------
(* The session. *)

\* What is on the wire is lost.  Neither side touches its table.
Drop ==
    /\ up
    /\ drops < MaxDrops
    /\ up' = FALSE
    /\ net' = [e \in End |-> <<>>]
    /\ drops' = drops + 1
    /\ UNCHANGED <<table, future, slot, stage, remaining, took, result, sends, handled>>

\* A new handshake: the client end "a" resets, breaking its open promises.
OnHandshaked ==
    LET broken == {r \in table : OwnerOf[r] = "a"}
    IN  /\ ~up
        /\ up' = TRUE
        /\ table' = table \ broken
        /\ future' = [r \in Request |-> IF r \in broken THEN "exception" ELSE future[r]]
        /\ UNCHANGED <<net, slot, stage, remaining, took, result, sends, handled, drops>>

-----------------------------------------------------------------------------

Thread(r) == TakeFuture(r) \/ GetResponse(r) \/ GiveUp(r) \/ ReleaseExpired(r)

Next ==
    \/ \E r \in Request : SendRpcRequest(r) \/ RetryTimer(r) \/ FileFuture(r) \/ Thread(r)
    \/ \E e \in End : OnReceive(e)
    \/ Drop
    \/ OnHandshaked

Spec == Init /\ [][Next]_vars

\* Threads and timers run.
FairSpec ==
    Spec /\ \A r \in Request : WF_vars(RetryTimer(r) \/ FileFuture(r) \/ Thread(r))

-----------------------------------------------------------------------------
(* Properties. *)

\* A request is handled only by the other end, and no more often than it was
\* sent: a late answer, whose request has expired and which onReceive takes
\* for a request, sets nothing off and is not answered in turn.
HandledBySending ==
    \A r \in Request :
        /\ handled[OwnerOf[r]][r] = 0
        /\ handled[Other(OwnerOf[r])][r] <= sends[r]

\* A request whose thread is done, and of which no message is on the way any
\* more, is no longer in the request table: getResponse releases what was
\* never answered.
DoneIsReleased ==
    \A r \in Request :
        (/\ stage[r] = "done"
         /\ \A e \in End : \A k \in DOMAIN net[e] : net[e][k].id # r)
        => r \notin table

\* With a thread per request, each waits for the answer to its own request,
\* and reports an answer only when the peer has handled that request.
AnswersItsOwn ==
    \A r \in Request :
        /\ stage[r] \in {"waiting", "expired"} => took[r] = r
        /\ result[r] = "answer" => handled[Other(OwnerOf[r])][r] > 0

\* Every request that is asked for ends: its handler is called or, when no
\* session took it in kRpcRetryCount retries, it is dropped.
RequestEnds == \A r \in Request : (stage[r] # "new") ~> (stage[r] \in {"done", "dropped"})
=============================================================================
