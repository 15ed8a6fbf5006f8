----------------------------- MODULE TunnelFlow -----------------------------
(***************************************************************************)
(* The data plane of one tunnel stream (TunnelManager): bytes read from    *)
(* the local socket of the end "src" are cut into TUNNEL_DATA frames,      *)
(* queued by the end "dst", written to its local socket and acknowledged   *)
(* with TUNNEL_ACK frames, under a credit window of kWindowSize bytes.     *)
(*                                                                         *)
(* The two directions of a stream share no variable, so one direction is   *)
(* modelled.  A byte is its position in the stream: byte i is the i-th     *)
(* byte that the source socket delivered.  A frame [mask, lo, hi] carries  *)
(* (DATA) or acknowledges (ACK) bytes lo+1 .. hi; hi - lo is the frame's   *)
(* size or its "consumed" field.  The session below the tunnel is FIFO.    *)
(***************************************************************************)
EXTENDS Integers, Sequences

CONSTANTS
    kChunkSize,        \* largest payload of a DATA frame
    kWindowSize,       \* credit: most bytes sent and not acknowledged
    kWindowLowWater,   \* acknowledgements restart the pump below this mark
    kMaxPending,       \* most bytes the receiving end queues
    kReadBufferSize,   \* cap of the source socket's read buffer
    MaxBytes           \* bound: bytes the local application ever produces

\* tunnelmanager.h:123-130 has 16K, 256K, 64K, 1M and twice the window.
ASSUME FlowAssumption ==
    /\ kChunkSize \in Nat \ {0}
    /\ kWindowSize \in Nat \ {0}
    /\ kWindowLowWater \in 1..kWindowSize
    /\ kMaxPending \in Nat /\ kWindowSize <= kMaxPending
    /\ kReadBufferSize \in Nat \ {0}
    /\ MaxBytes \in Nat

VARIABLES
    up,          \* [End -> BOOLEAN]: the end still has the Stream object
    ready,       \* Stream::ready of the source end
    produced,    \* bytes that have reached the source socket's read buffer
    sent,        \* bytes read from it and put into DATA frames
    unacked,     \* Stream::unacked of the source end
    toDst,       \* frames in flight to dst: DATA and CLOSE
    toSrc,       \* frames in flight to src: ACK and CLOSE
    pending,     \* Stream::pending of the destination end
    wbuf,        \* Qt's write buffer of the destination socket
    delivered    \* bytes the destination socket has handed to the application

vars == <<up, ready, produced, sent, unacked, toDst, toSrc, pending, wbuf, delivered>>

End == {"src", "dst"}
Mask == {"DATA", "ACK", "CLOSE"}
Frame == [mask : Mask, lo : Nat, hi : Nat]

Lesser(a, b) == IF a < b THEN a ELSE b

\* The bytes of a DATA frame.
Bytes(f) == [i \in 1..(f.hi - f.lo) |-> f.lo + i]

TypeOK ==
    /\ up \in [End -> BOOLEAN]
    /\ ready \in BOOLEAN
    /\ produced \in 0..MaxBytes
    /\ sent \in 0..produced
    /\ unacked \in 0..kWindowSize
    /\ toDst \in Seq(Frame)
    /\ toSrc \in Seq(Frame)
    /\ pending \in Seq(Nat)
    /\ wbuf \in Seq(Nat)
    /\ delivered \in Seq(Nat)

Init ==
    /\ up = [e \in End |-> TRUE]
    /\ ready = FALSE
    /\ produced = 0
    /\ sent = 0
    /\ unacked = 0
    /\ toDst = <<>>
    /\ toSrc = <<>>
    /\ pending = <<>>
    /\ wbuf = <<>>
    /\ delivered = <<>>

-----------------------------------------------------------------------------
(* The source end. *)

\* The frames the pump loop cuts bytes lo+1 .. lo+n into: full chunks, then
\* the rest.
NumChunks(n) == (n + kChunkSize - 1) \div kChunkSize
Chunks(lo, n) ==
    [k \in 1..NumChunks(n) |->
        [mask |-> "DATA",
         lo   |-> lo + (k - 1) * kChunkSize,
         hi   |-> lo + Lesser(k * kChunkSize, n)]]

\* How many bytes pump() takes: the loop runs while there is credit and the
\* socket has bytes, and never reads past the window.
Credit(u, avail) == Lesser(avail, kWindowSize - u)

\* TunnelManager::pump, called with p bytes produced and u bytes unacked.
Pump(isReady, p, u) ==
    LET n == IF isReady /\ u < kWindowSize THEN Credit(u, p - sent) ELSE 0
    IN  /\ sent' = sent + n
        /\ unacked' = u + n
        /\ toDst' = toDst \o Chunks(sent, n)

\* Fault: an answer that comes after the stream was destroyed still pumps.
BecomeReadyLate ==
    /\ ~ready
    /\ ready' = TRUE
    /\ Pump(TRUE, produced, unacked)
    /\ UNCHANGED <<up, produced, toSrc, pending, wbuf, delivered>>

\* The source end becomes ready: handleOpenAck on the listening side, the
\* connected handler on the dialing side.  Bytes that arrived earlier wait in
\* the read buffer and are pumped now.
BecomeReady ==
    /\ up["src"]
    /\ ~ready
    /\ ready' = TRUE
    /\ Pump(TRUE, produced, unacked)
    /\ UNCHANGED <<up, produced, toSrc, pending, wbuf, delivered>>

\* QTcpSocket::readyRead: n more bytes are in the read buffer, which Qt caps.
ReadyRead(n) ==
    /\ up["src"]
    /\ produced + n <= MaxBytes
    /\ produced + n - sent <= kReadBufferSize
    /\ produced' = produced + n
    /\ Pump(ready, produced + n, unacked)
    /\ UNCHANGED <<up, ready, toSrc, pending, wbuf, delivered>>

\* Fault: the credit is given back but nothing restarts the pump.
HandleAckNoPump ==
    /\ toSrc # <<>>
    /\ Head(toSrc).mask = "ACK"
    /\ toSrc' = Tail(toSrc)
    /\ unacked' = IF up["src"] THEN unacked - (Head(toSrc).hi - Head(toSrc).lo) ELSE unacked
    /\ UNCHANGED <<up, ready, produced, sent, toDst, pending, wbuf, delivered>>

\* The used credit after an acknowledgement, never below zero.
CreditAfter(u, consumed) == IF consumed > u THEN 0 ELSE u - consumed

\* TunnelManager::handleAck: give the credit back and
\* restart the pump under the low water mark.
HandleAck ==
    /\ toSrc # <<>>
    /\ Head(toSrc).mask = "ACK"
    /\ toSrc' = Tail(toSrc)
    /\ LET u == CreditAfter(unacked, Head(toSrc).hi - Head(toSrc).lo)
       IN  IF up["src"]
           THEN Pump(ready /\ u < kWindowLowWater, produced, u)
           ELSE UNCHANGED <<sent, unacked, toDst>>
    /\ UNCHANGED <<up, ready, produced, pending, wbuf, delivered>>

-----------------------------------------------------------------------------
(* The destination end. *)

\* A CLOSE frame covers no byte; it stands at the position it is sent at.
CloseFrame(pos) == [mask |-> "CLOSE", lo |-> pos, hi |-> pos]

\* destroyStream with notification at the destination end, which also loses
\* its queue and its socket's write buffer; frames is what it has sent before.
DestroyDst(frames) ==
    /\ up' = [up EXCEPT !["dst"] = FALSE]
    /\ pending' = <<>>
    /\ wbuf' = <<>>
    /\ toSrc' = Append(frames, CloseFrame(Len(delivered')))

\* TunnelManager::flushPending with the bytes p queued, q in Qt's write
\* buffer and the frames sent so far in flight.  The socket takes any number of bytes, none only while it still
\* has some to drain (BytesWritten then flushes again).  A failing write
\* destroys the stream and notifies the peer.
Flush(p, q, frames) ==
    \/ \E w \in 0..Len(p) :
          /\ w = 0 => (p = <<>> \/ q # <<>>)
          /\ pending' = SubSeq(p, w + 1, Len(p))
          /\ wbuf' = q \o SubSeq(p, 1, w)
          /\ toSrc' = frames
          /\ UNCHANGED up
    \/ /\ p # <<>>
       /\ DestroyDst(frames)

\* Fault: a chunk is acknowledged when it is queued.
HandleDataAcks ==
    /\ toDst # <<>>
    /\ Head(toDst).mask = "DATA"
    /\ toDst' = Tail(toDst)
    /\ UNCHANGED <<up, ready, produced, sent, unacked, wbuf, delivered>>
    /\ pending' = pending \o Bytes(Head(toDst))
    /\ toSrc' = Append(toSrc, [Head(toDst) EXCEPT !.mask = "ACK"])

\* Fault: a chunk is written before the bytes that still wait in the queue.
HandleDataOvertakes ==
    /\ toDst # <<>>
    /\ Head(toDst).mask = "DATA"
    /\ up["dst"]
    /\ toDst' = Tail(toDst)
    /\ UNCHANGED <<ready, produced, sent, unacked, delivered>>
    /\ Flush(Bytes(Head(toDst)) \o pending, wbuf, toSrc)

\* TunnelManager::handleData.  The chunk is queued first and flushed from the
\* queue; a queue above kMaxPending destroys the stream.
HandleData ==
    /\ toDst # <<>>
    /\ Head(toDst).mask = "DATA"
    /\ toDst' = Tail(toDst)
    /\ UNCHANGED <<ready, produced, sent, unacked, delivered>>
    /\ LET chunk == Bytes(Head(toDst))
       IN  \/ /\ ~up["dst"]
              /\ UNCHANGED <<up, toSrc, pending, wbuf>>
           \/ /\ up["dst"]
              /\ IF Len(pending) + Len(chunk) > kMaxPending
                 THEN DestroyDst(toSrc)
                 ELSE Flush(pending \o chunk, wbuf, toSrc)

\* Fault: everything handed to the socket is acknowledged on each signal.
BytesWrittenAcksAll(n) ==
    /\ up["dst"]
    /\ n <= Len(wbuf)
    /\ delivered' = delivered \o SubSeq(wbuf, 1, n)
    /\ LET ack == [mask |-> "ACK", lo |-> Len(delivered), hi |-> Len(delivered) + Len(wbuf)]
       IN  Flush(pending, SubSeq(wbuf, n + 1, Len(wbuf)), Append(toSrc, ack))
    /\ UNCHANGED <<ready, produced, sent, unacked, toDst>>

\* QTcpSocket::bytesWritten: n bytes left Qt's write buffer.  Only now are
\* they acknowledged; then the queue is flushed again.
BytesWritten(n) ==
    /\ up["dst"]
    /\ n <= Len(wbuf)
    /\ delivered' = delivered \o SubSeq(wbuf, 1, n)
    /\ LET ack == [mask |-> "ACK", lo |-> Len(delivered), hi |-> Len(delivered) + n]
       IN  Flush(pending, SubSeq(wbuf, n + 1, Len(wbuf)), Append(toSrc, ack))
    /\ UNCHANGED <<ready, produced, sent, unacked, toDst>>

-----------------------------------------------------------------------------
(* The end of a stream: destroyStream aborts the local socket, so whatever  *)
(* the end still buffers is gone.                                           *)

\* The local socket closed or failed: destroyStream with notification.
SocketClosedAtSrc ==
    /\ up["src"]
    /\ up' = [up EXCEPT !["src"] = FALSE]
    /\ toDst' = Append(toDst, CloseFrame(sent))
    /\ UNCHANGED <<ready, produced, sent, unacked, toSrc, pending, wbuf, delivered>>

SocketClosedAtDst ==
    /\ up["dst"]
    /\ UNCHANGED <<ready, produced, sent, unacked, toDst, delivered>>
    /\ DestroyDst(toSrc)

\* TunnelManager::handleClose: destroy without notifying back.
HandleCloseAtDst ==
    /\ toDst # <<>>
    /\ Head(toDst).mask = "CLOSE"
    /\ toDst' = Tail(toDst)
    /\ up' = [up EXCEPT !["dst"] = FALSE]
    /\ pending' = <<>>
    /\ wbuf' = <<>>
    /\ UNCHANGED <<ready, produced, sent, unacked, toSrc, delivered>>

HandleCloseAtSrc ==
    /\ toSrc # <<>>
    /\ Head(toSrc).mask = "CLOSE"
    /\ toSrc' = Tail(toSrc)
    /\ up' = [up EXCEPT !["src"] = FALSE]
    /\ UNCHANGED <<ready, produced, sent, unacked, toDst, pending, wbuf, delivered>>

-----------------------------------------------------------------------------

Next ==
    \/ BecomeReady
    \/ \E n \in 1..kReadBufferSize : ReadyRead(n)
    \/ HandleAck
    \/ HandleData
    \/ \E n \in 1..Len(wbuf) : BytesWritten(n)
    \/ SocketClosedAtSrc
    \/ SocketClosedAtDst
    \/ HandleCloseAtDst
    \/ HandleCloseAtSrc

Spec == Init /\ [][Next]_vars

\* The event loops run: a received frame is handled, and the application
\* behind the destination socket keeps reading what it is given.
Fairness ==
    /\ WF_vars(HandleAck)
    /\ WF_vars(HandleData)
    /\ WF_vars(\E n \in 1..Len(wbuf) : BytesWritten(n))

FairSpec == Spec /\ Fairness

-----------------------------------------------------------------------------
(* Properties. *)

\* The application behind the destination socket receives the bytes of the
\* source socket in order, none lost in the middle, none twice: handleData
\* queues behind "pending" and flushPending writes only from its front.
InOrder == \A i \in 1..Len(delivered) : delivered[i] = i

\* The window is end to end: handleData may queue a chunk and Qt may buffer
\* it, but the source never runs more than kWindowSize bytes ahead of what
\* the destination application has taken, because the acknowledgement waits
\* for bytesWritten.
WindowBounds == sent - Len(delivered) <= kWindowSize

\* A DATA frame never meets the overflow branch of handleData: the credit the
\* source respects is at most what the destination may queue.
NoPendingOverflow ==
    toDst # <<>> /\ Head(toDst).mask = "DATA" /\ up["dst"]
        => Len(pending) + Len(Bytes(Head(toDst))) <= kMaxPending

\* The clamp in handleAck never acts: an acknowledgement gives back credit
\* the source still holds as used, so credit is neither lost nor invented.
AckWithinCredit ==
    toSrc # <<>> /\ Head(toSrc).mask = "ACK" /\ up["src"]
        => Head(toSrc).hi - Head(toSrc).lo <= unacked

\* The frames of q cover the bytes a+1 .. b, each exactly once and in order.
Covers(q, a, b) ==
    /\ q = <<>> => a = b
    /\ q # <<>> => q[1].lo = a /\ q[Len(q)].hi = b
    /\ \A i \in 1..Len(q) : a <= q[i].lo /\ q[i].lo <= q[i].hi /\ q[i].hi <= b
    /\ \A i, j \in 1..Len(q) : i < j => q[i].hi <= q[j].lo
    /\ \A i \in 1..(Len(q) - 1) : q[i].hi = q[i + 1].lo

\* The bytes of s are base+1, base+2, ...
Counts(s, base) == \A i \in 1..Len(s) : s[i] = base + i

\* How far the destination end has read the stream.
Received == Len(delivered) + Len(wbuf) + Len(pending)

\* Why the four invariants above hold: every byte of the stream is in exactly
\* one place.  The bytes given, buffered and queued at the destination are
\* consecutive, the DATA frames in flight carry on where they stop and end
\* where the pump stands, and the ACK frames in flight carry on from the
\* source's account (sent - unacked) up to what has been given.
FlowInv ==
    /\ TypeOK
    /\ Counts(delivered, 0)
    /\ Counts(wbuf, Len(delivered))
    /\ Counts(pending, Len(delivered) + Len(wbuf))
    /\ Received <= sent
    /\ sent - Len(delivered) <= kWindowSize
    /\ up["dst"] => Covers(toDst, Received, sent)
    /\ up["src"] => /\ sent - unacked <= Len(delivered)
                    /\ Covers(toSrc, sent - unacked, Len(delivered))

\* No stall: every byte that reaches the read buffer of a ready stream is
\* delivered unless an end of the stream goes away.  The pump is driven only
\* by readyRead, by the stream becoming ready and by acknowledgements under
\* the low water mark; no timer retries it.
NoStall ==
    \A n \in 1..MaxBytes :
        (ready /\ produced >= n)
            ~> (Len(delivered) >= n \/ ~up["src"] \/ ~up["dst"])

\* What the data plane promises its users (see BytePipe).
Pipe == INSTANCE BytePipe WITH Capacity <- kWindowSize, open <- up,
                               taken <- sent, given <- delivered
PipeSpec == Pipe!Spec

=============================================================================
