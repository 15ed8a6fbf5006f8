-------------------------- MODULE TunnelFlowProofs --------------------------
(* Proofs about TunnelFlow, for every value of its constants. *)
EXTENDS TunnelFlowLemmas

-----------------------------------------------------------------------------
(* FlowInv is inductive. *)

LEMMA InitFlowInv == Init => FlowInv
  <1> SUFFICES ASSUME Init PROVE FlowInv
    OBVIOUS
  <1>1. TypeOK
    <2>1. up \in [End -> BOOLEAN] /\ ready \in BOOLEAN
      BY Zenon DEF Init
    <2>2. produced \in 0..MaxBytes /\ sent \in 0..produced /\ unacked \in 0..kWindowSize
      BY FlowAssumption DEF Init
    <2>3. /\ toDst \in Seq(Frame) /\ toSrc \in Seq(Frame)
          /\ pending \in Seq(Nat) /\ wbuf \in Seq(Nat) /\ delivered \in Seq(Nat)
      BY EmptySeq DEF Init
    <2> QED BY <2>1, <2>2, <2>3 DEF TypeOK
  <1>2. Len(delivered) = 0 /\ Len(wbuf) = 0 /\ Len(pending) = 0 /\ sent = 0 /\ unacked = 0
    BY DEF Init
  <1>3. /\ Counts(delivered, 0)
        /\ Counts(wbuf, Len(delivered))
        /\ Counts(pending, Len(delivered) + Len(wbuf))
    BY <1>2 DEF Counts
  <1>4. Received = 0
    BY <1>2 DEF Received
  <1>5. Covers(toDst, Received, sent) /\ Covers(toSrc, sent - unacked, Len(delivered))
    <2>1. toDst = <<>> /\ toSrc = <<>> /\ sent - unacked = 0
      BY <1>2 DEF Init
    <2>2. Covers(<<>>, 0, 0)
      BY CoversEmpty
    <2> QED BY <1>2, <1>4, <2>1, <2>2
  <1> QED BY <1>1, <1>2, <1>3, <1>4, <1>5, FlowAssumption DEF FlowInv

\* A step that pumps at the source leaves the destination end alone; toSrc may
\* only lose frames the source has accounted for.
LEMMA SourceStep ==
    ASSUME FlowInv, NEW r \in BOOLEAN, NEW p \in sent..MaxBytes, NEW u \in 0..kWindowSize,
           up["src"], sent - u <= Len(delivered), Pump(r, p, u),
           ready' \in BOOLEAN, produced' = p,
           toSrc' \in Seq(Frame), Covers(toSrc', sent - u, Len(delivered)),
           UNCHANGED <<up, pending, wbuf, delivered>>
    PROVE  FlowInv'
  <1>1. /\ sent' \in sent..p
        /\ unacked' \in 0..kWindowSize
        /\ sent' - unacked' = sent - u
        /\ sent' - Len(delivered) <= kWindowSize
        /\ toDst' \in Seq(Frame)
        /\ up["dst"] => Covers(toDst', Received, sent')
    BY PumpStep
  <1>2. sent \in Nat /\ MaxBytes \in Nat /\ Received <= sent /\ Received \in Nat
    BY FlowAssumption, LenProperties DEF FlowInv, TypeOK, Received
  <1>3. Received' = Received
    BY DEF Received
  <1>4. TypeOK'
    BY SMTT(30), <1>1, <1>2 DEF FlowInv, TypeOK
  <1>5. Received' <= sent'
    BY <1>1, <1>2, <1>3
  <1>6. /\ Counts(delivered, 0)'
        /\ Counts(wbuf, Len(delivered))'
        /\ Counts(pending, Len(delivered) + Len(wbuf))'
    BY DEF FlowInv
  <1> QED BY <1>1, <1>3, <1>4, <1>5, <1>6 DEF FlowInv

\* A step of the destination end leaves the source end alone.  What it gains
\* on the bytes it has delivered it acknowledges.
LEMMA DestinationStep ==
    ASSUME FlowInv,
           UNCHANGED <<ready, produced, sent, unacked>>,
           up' \in {up, [up EXCEPT !["dst"] = FALSE]},
           toDst' \in Seq(Frame), toSrc' \in Seq(Frame),
           pending' \in Seq(Nat), wbuf' \in Seq(Nat), delivered' \in Seq(Nat),
           Counts(delivered', 0), Counts(wbuf', Len(delivered')),
           Counts(pending', Len(delivered') + Len(wbuf')),
           Len(delivered) <= Len(delivered'),
           Received' <= sent,
           up'["dst"] => Covers(toDst', Received', sent),
           up["src"] => Covers(toSrc', sent - unacked, Len(delivered'))
    PROVE  FlowInv'
  <1>1. /\ sent \in Nat /\ unacked \in Nat /\ kWindowSize \in Nat
        /\ Len(delivered) \in Nat /\ Len(delivered') \in Nat
    BY FlowAssumption, LenProperties DEF FlowInv, TypeOK
  <1>2. up' \in [End -> BOOLEAN] /\ up'["src"] = up["src"]
    BY Zenon DEF FlowInv, TypeOK, End
  <1>3. TypeOK'
    BY <1>2 DEF FlowInv, TypeOK
  <1>4. sent' - Len(delivered') <= kWindowSize
    BY <1>1 DEF FlowInv
  <1>5. up'["src"] => sent' - unacked' <= Len(delivered')
    BY <1>1, <1>2 DEF FlowInv
  <1> QED BY <1>2, <1>3, <1>4, <1>5 DEF FlowInv

\* The CLOSE frame a destination end sends last keeps the run of frames.
LEMMA CloseKeepsCover ==
    ASSUME NEW q \in Seq(Frame), NEW a \in Int, NEW d \in Nat
    PROVE  /\ Append(q, CloseFrame(d)) \in Seq(Frame)
           /\ Covers(q, a, d) /\ a <= d => Covers(Append(q, CloseFrame(d)), a, d)
  <1> DEFINE f == CloseFrame(d)
  <1>1. f \in Frame /\ f.lo = d /\ f.hi = d /\ f.lo <= f.hi
    BY DEF CloseFrame, Frame, Mask
  <1> HIDE DEF f
  <1>2. Append(q, f) \in Seq(Frame)
    BY <1>1, AppendProperties
  <1>3. ASSUME Covers(q, a, d), a <= d PROVE Covers(Append(q, f), a, d)
    <2>1. d \in Int
      OBVIOUS
    <2>2. Covers(Append(q, f), a, f.hi)
      BY <1>1, <1>3, <2>1, CoversAppend
    <2> QED BY <1>1, <2>2
  <1> QED BY <1>2, <1>3 DEF f

LEMMA FlowInvStep == FlowInv /\ [Next]_vars => FlowInv'
  <1> SUFFICES ASSUME FlowInv, [Next]_vars PROVE FlowInv'
    OBVIOUS
  <1>0. /\ kWindowSize \in Nat /\ MaxBytes \in Nat
        /\ sent \in 0..produced /\ produced \in 0..MaxBytes
        /\ unacked \in 0..kWindowSize /\ ready \in BOOLEAN
        /\ up \in [End -> BOOLEAN]
        /\ toDst \in Seq(Frame) /\ toSrc \in Seq(Frame)
        /\ pending \in Seq(Nat) /\ wbuf \in Seq(Nat) /\ delivered \in Seq(Nat)
        /\ Counts(delivered, 0) /\ Counts(wbuf, Len(delivered))
        /\ Counts(pending, Len(delivered) + Len(wbuf))
        /\ Received <= sent
        /\ up["dst"] => Covers(toDst, Received, sent)
        /\ up["src"] => /\ sent - unacked <= Len(delivered)
                        /\ Covers(toSrc, sent - unacked, Len(delivered))
    BY FlowAssumption DEF FlowInv, TypeOK
  <1>a. /\ Len(delivered) \in Nat /\ Len(wbuf) \in Nat /\ Len(pending) \in Nat
        /\ Received = Len(delivered) + Len(wbuf) + Len(pending) /\ Received \in Nat
        /\ sent \in Nat /\ sent - unacked \in Int /\ unacked \in Nat
    BY <1>0, LenProperties DEF Received
  <1>b. Received' = Len(delivered') + Len(wbuf') + Len(pending')
    BY DEF Received
  <1>c. ASSUME up["dst"], DestroyDst(toSrc),
               UNCHANGED <<ready, produced, sent, unacked, delivered>>,
               toDst' \in Seq(Frame)
        PROVE  FlowInv'
    <2>1. /\ up' = [up EXCEPT !["dst"] = FALSE] /\ pending' = <<>> /\ wbuf' = <<>>
          /\ toSrc' = Append(toSrc, CloseFrame(Len(delivered)))
      BY <1>c DEF DestroyDst
    <2>2. toSrc' \in Seq(Frame)
      BY Zenon, <2>1, <1>0, <1>a, CloseKeepsCover
    <2>3. up["src"] => Covers(toSrc', sent - unacked, Len(delivered))
      BY <2>1, <1>0, <1>a, CloseKeepsCover
    <2>4. ~up'["dst"]
      BY <2>1, <1>0 DEF End
    <2>5. Len(pending') = 0 /\ Len(wbuf') = 0 /\ pending' \in Seq(Nat) /\ wbuf' \in Seq(Nat)
      BY <2>1
    <2>6. Counts(wbuf', Len(delivered')) /\ Counts(pending', Len(delivered') + Len(wbuf'))
      BY <2>5 DEF Counts
    <2>7. Received' <= sent /\ Len(delivered) <= Len(delivered')
      BY <2>5, <1>c, <1>0, <1>a, <1>b
    <2> QED BY <2>1, <2>2, <2>3, <2>4, <2>5, <2>6, <2>7, <1>c, <1>0, DestinationStep
  <1>1. CASE BecomeReady
    <2>1. produced \in sent..MaxBytes
      BY <1>0, <1>a
    <2> QED BY Zenon, <1>0, <1>1, <2>1, SourceStep DEF BecomeReady
  <1>2. ASSUME NEW n \in 1..kReadBufferSize, ReadyRead(n) PROVE FlowInv'
    <2>1. produced + n \in sent..MaxBytes
      BY <1>0, <1>a, <1>2, FlowAssumption DEF ReadyRead
    <2> QED BY SMTT(30), <1>0, <1>2, <2>1, SourceStep DEF ReadyRead
  <1>3. CASE HandleAck
    <2> DEFINE f == Head(toSrc)
               u == CreditAfter(unacked, f.hi - f.lo)
    <2>0. toSrc # <<>> /\ toSrc' = Tail(toSrc)
      BY <1>3 DEF HandleAck
    <2>1. CASE up["src"]
      <3>1. /\ f \in Frame
            /\ Tail(toSrc) \in Seq(Frame)
            /\ f.lo = sent - unacked
            /\ sent - unacked <= f.hi /\ f.hi <= Len(delivered)
            /\ Covers(Tail(toSrc), f.hi, Len(delivered))
        BY SMTT(30), <2>0, <2>1, <1>0, <1>a, CoversTail
      <3>2. f.hi \in Nat
        BY <3>1, FrameFields
      <3>3. Len(delivered) <= sent
        BY <1>0, <1>a
      <3>4. u \in 0..kWindowSize /\ sent - u = f.hi
        <4>1. /\ sent \in Nat /\ unacked \in Nat /\ kWindowSize \in Nat
              /\ unacked <= kWindowSize /\ sent - unacked <= f.hi /\ f.hi <= sent
          BY SMTT(30), <3>1, <3>2, <3>3, <1>0, <1>a
        <4> HIDE DEF f
        <4>2. u = CreditAfter(unacked, f.hi - (sent - unacked))
          BY <3>1
        <4> HIDE DEF u
        <4> DEFINE v == CreditAfter(unacked, f.hi - (sent - unacked))
        <4>3. v \in 0..kWindowSize /\ sent - v = f.hi
          BY <4>1, <3>2 DEF CreditAfter
        <4>4. u = v
          BY <4>2
        <4> HIDE DEF v
        <4> QED BY <4>3, <4>4
      <3>5. Pump(ready /\ u < kWindowLowWater, produced, u)
        BY <1>3, <2>1 DEF HandleAck
      <3>6. produced \in sent..MaxBytes
        BY <1>0, <1>a
      <3>7. UNCHANGED <<up, ready, produced, pending, wbuf, delivered>>
        BY <1>3 DEF HandleAck
      <3> HIDE DEF u
      <3>8. (ready /\ u < kWindowLowWater) \in BOOLEAN
        OBVIOUS
      <3>9. Covers(toSrc', sent - u, Len(delivered)) /\ toSrc' \in Seq(Frame)
        BY <2>0, <3>1, <3>4
      <3>10. sent - u <= Len(delivered)
        BY <3>1, <3>4
      <3> QED BY Zenon, <1>0, <2>1, <3>4, <3>5, <3>6, <3>7, <3>8, <3>9, <3>10, SourceStep
    <2>2. CASE ~up["src"]
      <3>1. UNCHANGED <<up, ready, produced, pending, wbuf, delivered, sent, unacked, toDst>>
        BY <1>3, <2>2 DEF HandleAck
      <3>2. toSrc' \in Seq(Frame)
        BY <2>0, <1>0, HeadTailProperties
      <3> QED BY SMTT(30), <3>1, <3>2, <2>2 DEF FlowInv, TypeOK, Received
    <2> QED BY <2>1, <2>2
  <1>4. CASE HandleData
    <2> DEFINE f == Head(toDst)
               chunk == Bytes(f)
    <2>0. /\ toDst # <<>> /\ toDst' = Tail(toDst)
          /\ UNCHANGED <<ready, produced, sent, unacked, delivered>>
      BY <1>4 DEF HandleData
    <2>1. toDst' \in Seq(Frame)
      BY <2>0, <1>0, HeadTailProperties
    <2>2. CASE ~up["dst"] /\ UNCHANGED <<up, toSrc, pending, wbuf>>
      BY SMTT(30), <2>0, <2>1, <2>2 DEF FlowInv, TypeOK, Received
    <2>3. CASE up["dst"] /\ DestroyDst(toSrc)
      BY <2>0, <2>1, <2>3, <1>c
    <2>4. CASE up["dst"] /\ Flush(pending \o chunk, wbuf, toSrc)
      <3>1. /\ f \in Frame /\ f.lo = Received
            /\ Received <= f.hi /\ f.hi <= sent
            /\ Covers(Tail(toDst), f.hi, sent)
        BY <2>0, <2>4, <1>0, <1>a, CoversTail
      <3>2. f.hi \in Nat
        BY <3>1, FrameFields
      <3>3. chunk \in Seq(Nat) /\ Len(chunk) = f.hi - Received /\ Counts(chunk, Received)
        BY <3>1, BytesCount
      <3> DEFINE p == pending \o chunk
                 b == Len(delivered) + Len(wbuf)
      <3>4. b \in Nat /\ Received = b + Len(pending)
        BY <1>a
      <3>5. p \in Seq(Nat) /\ Len(p) = Len(pending) + Len(chunk) /\ Counts(p, b)
        <4> HIDE DEF b, chunk, f
        <4>1. Counts(pending, b)
          BY <1>0 DEF b
        <4> QED BY Zenon, <4>1, <3>3, <3>4, <1>0, CountsConcat
      <3>6. Flush(p, wbuf, toSrc)
        BY <2>4
      <3> HIDE DEF p, chunk, f
      <3>7. /\ pending' \in Seq(Nat) /\ wbuf' \in Seq(Nat)
            /\ Counts(wbuf', Len(delivered)) /\ Counts(pending', Len(delivered) + Len(wbuf'))
            /\ \/ /\ up' = up
                  /\ toSrc' = toSrc
                  /\ Len(wbuf') + Len(pending') = Len(wbuf) + Len(p)
               \/ /\ up' = [up EXCEPT !["dst"] = FALSE]
                  /\ toSrc' = Append(toSrc, CloseFrame(Len(delivered')))
                  /\ Len(wbuf') + Len(pending') = 0
        BY Zenon, <3>5, <3>6, <1>0, <1>a, FlushStep
      <3>8. /\ Len(wbuf') \in Nat /\ Len(pending') \in Nat
            /\ delivered' = delivered /\ Len(delivered) <= Len(delivered')
        BY <3>7, <2>0, <1>a, LenProperties
      <3>9. CASE up' = up /\ toSrc' = toSrc /\ Len(wbuf') + Len(pending') = Len(wbuf) + Len(p)
        <4>1. Received' = f.hi
          <5>1. Len(delivered') = Len(delivered)
            BY <3>8
          <5>2. Len(wbuf') + Len(pending') = Len(wbuf) + (Len(pending) + (f.hi - Received))
            BY <3>3, <3>5, <3>9
          <5>3. Received' = Len(delivered) + (Len(wbuf) + (Len(pending) + (f.hi - Received)))
            BY <5>1, <5>2, <3>8, <1>a, <1>b
          <5> QED BY <5>3, <3>2, <1>a
        <4> QED BY <4>1, <3>1, <3>7, <3>8, <3>9, <2>0, <2>1, <1>0, DestinationStep
      <3>10. CASE /\ up' = [up EXCEPT !["dst"] = FALSE]
                  /\ toSrc' = Append(toSrc, CloseFrame(Len(delivered')))
                  /\ Len(wbuf') + Len(pending') = 0
        <4>1. Received' <= sent
          BY SMTT(30), <3>8, <3>10, <1>0, <1>a, <1>b
        <4>2. ~up'["dst"]
          BY <3>10, <1>0 DEF End
        <4>3. /\ toSrc' \in Seq(Frame)
              /\ up["src"] => Covers(toSrc', sent - unacked, Len(delivered'))
          BY Zenon, <3>8, <3>10, <1>0, <1>a, CloseKeepsCover
        <4> QED BY <4>1, <4>2, <4>3, <3>7, <3>8, <3>10, <2>0, <2>1, <1>0, DestinationStep
      <3> QED BY <3>7, <3>9, <3>10
    <2> QED BY <2>2, <2>3, <2>4, <1>4 DEF HandleData
  <1>5. ASSUME NEW n \in 1..Len(wbuf), BytesWritten(n) PROVE FlowInv'
    <2> DEFINE front == SubSeq(wbuf, 1, n)
               rest == SubSeq(wbuf, n + 1, Len(wbuf))
               d == Len(delivered)
               ack == [mask |-> "ACK", lo |-> d, hi |-> d + n]
               frames == Append(toSrc, ack)
    <2>0. /\ up["dst"] /\ delivered' = delivered \o front
          /\ Flush(pending, rest, frames)
          /\ UNCHANGED <<ready, produced, sent, unacked, toDst>>
      BY <1>5 DEF BytesWritten
    <2>1. front \in Seq(Nat) /\ Len(front) = n /\ Counts(front, d)
      <3>1. 0 \in 0..Len(wbuf) /\ n \in 0..Len(wbuf) /\ n \in Nat
        BY <1>a
      <3>2. /\ SubSeq(wbuf, 0 + 1, n) \in Seq(Nat)
            /\ Len(SubSeq(wbuf, 0 + 1, n)) = n - 0
            /\ Counts(SubSeq(wbuf, 0 + 1, n), d + 0)
        BY SMTT(30), <3>1, <1>0, <1>a, CountsSub
      <3> QED BY <3>1, <3>2, <1>a
    <2>2. rest \in Seq(Nat) /\ Len(rest) = Len(wbuf) - n /\ Counts(rest, d + n)
      <3>1. n \in 0..Len(wbuf) /\ Len(wbuf) \in n..Len(wbuf)
        BY <1>a
      <3> QED BY SMTT(30), <3>1, <1>0, <1>a, CountsSub
    <2> HIDE DEF front, rest
    <2>3. delivered' \in Seq(Nat) /\ Len(delivered') = d + n /\ Counts(delivered', 0)
      <3>1. Counts(front, 0 + Len(delivered))
        BY <2>1, <1>a
      <3> QED BY Zenon, <2>0, <2>1, <3>1, <1>0, CountsConcat
    <2>4. n \in Nat /\ d \in Nat /\ d + n \in Nat /\ d + n <= sent
      BY SMTT(30), <1>0, <1>a
    <2>5. ack \in Frame /\ ack.lo = d /\ ack.hi = d + n /\ ack.lo <= ack.hi
      BY <2>4 DEF Frame, Mask
    <2> HIDE DEF ack
    <2>6. /\ frames \in Seq(Frame)
          /\ up["src"] => Covers(frames, sent - unacked, d + n)
      <3>1. frames \in Seq(Frame)
        BY <2>5, <1>0, AppendProperties
      <3>2. ASSUME up["src"] PROVE Covers(frames, sent - unacked, d + n)
        <4>1. Covers(toSrc, sent - unacked, d) /\ sent - unacked <= d /\ d \in Int
          BY <3>2, <1>0, <1>a
        <4>2. Covers(frames, sent - unacked, ack.hi)
          BY SMTT(30), <4>1, <2>5, <1>0, <1>a, CoversAppend
        <4> QED BY <4>2, <2>5
      <3> QED BY <3>1, <3>2
    <2> HIDE DEF frames
    <2>7. Counts(pending, (d + n) + Len(rest))
      <3>1. (d + n) + Len(rest) = d + Len(wbuf)
        BY <2>2, <2>4, <1>a
      <3> QED BY <3>1, <1>0
    <2>8. /\ pending' \in Seq(Nat) /\ wbuf' \in Seq(Nat)
          /\ Counts(wbuf', d + n) /\ Counts(pending', (d + n) + Len(wbuf'))
          /\ \/ /\ up' = up
                /\ toSrc' = frames
                /\ Len(wbuf') + Len(pending') = Len(rest) + Len(pending)
             \/ /\ up' = [up EXCEPT !["dst"] = FALSE]
                /\ toSrc' = Append(frames, CloseFrame(Len(delivered')))
                /\ Len(wbuf') + Len(pending') = 0
      BY Zenon, <2>0, <2>2, <2>4, <2>7, <1>0, FlushStep
    <2>9. /\ Len(wbuf') \in Nat /\ Len(pending') \in Nat
          /\ Len(delivered) <= Len(delivered') /\ toDst' \in Seq(Frame)
          /\ Counts(wbuf', Len(delivered'))
          /\ Counts(pending', Len(delivered') + Len(wbuf'))
      BY <2>0, <2>3, <2>4, <2>8, <1>0, LenProperties
    <2>10. CASE up' = up /\ toSrc' = frames /\ Len(wbuf') + Len(pending') = Len(rest) + Len(pending)
      <3>1. Received' = Received
        <4>1. Len(wbuf') + Len(pending') = (Len(wbuf) - n) + Len(pending)
          BY <2>2, <2>10
        <4>2. Received' = (d + n) + Len(wbuf') + Len(pending')
          BY <2>3, <1>b
        <4>3. Len(wbuf') \in Nat /\ Len(pending') \in Nat
          BY <2>9
        <4>4. Received' = (d + n) + ((Len(wbuf) - n) + Len(pending))
          BY SMTT(30), <4>1, <4>2, <4>3, <2>4
        <4> QED BY <4>4, <2>4, <1>a
      <3>2. up["src"] => Covers(toSrc', sent - unacked, Len(delivered'))
        BY <2>3, <2>6, <2>10
      <3> QED BY <3>1, <3>2, <2>0, <2>3, <2>6, <2>8, <2>9, <2>10, <1>0, DestinationStep
    <2>11. CASE /\ up' = [up EXCEPT !["dst"] = FALSE]
                /\ toSrc' = Append(frames, CloseFrame(Len(delivered')))
                /\ Len(wbuf') + Len(pending') = 0
      <3>1. Received' <= sent
        <4>1. Len(wbuf') = 0 /\ Len(pending') = 0
          BY <2>9, <2>11
        <4>2. Received' = d + n
          BY <4>1, <2>3, <2>4, <1>b
        <4> QED BY <4>2, <2>4
      <3>2. ~up'["dst"]
        BY <2>11, <1>0 DEF End
      <3>3. toSrc' \in Seq(Frame)
        BY Zenon, <2>3, <2>4, <2>6, <2>11, <1>a, CloseKeepsCover
      <3>4. ASSUME up["src"] PROVE Covers(toSrc', sent - unacked, Len(delivered'))
        <4>1. Covers(frames, sent - unacked, d + n) /\ sent - unacked <= d + n
          BY <2>4, <2>6, <3>4, <1>0, <1>a
        <4> QED BY SMTT(30), <4>1, <2>3, <2>4, <2>6, <2>11, <1>a, CloseKeepsCover
      <3> QED BY <3>1, <3>2, <3>3, <3>4, <2>0, <2>3, <2>8, <2>9, <2>11, <1>0, DestinationStep
    <2> QED BY SMTT(30), <2>8, <2>10, <2>11
  <1>6. CASE SocketClosedAtSrc
    <2> DEFINE f == CloseFrame(sent)
    <2>1. f \in Frame /\ f.lo = sent /\ f.hi = sent
      BY <1>a DEF CloseFrame, Frame, Mask
    <2>2. toDst' = Append(toDst, f)
      BY <1>6 DEF SocketClosedAtSrc
    <2> HIDE DEF f
    <2>3. toDst' \in Seq(Frame)
      BY <2>1, <2>2, <1>0, AppendProperties
    <2>4. up["dst"] => Covers(toDst', Received, sent)
      <3> SUFFICES ASSUME up["dst"] PROVE Covers(Append(toDst, f), Received, f.hi)
        BY <2>1, <2>2
      <3>1. Covers(toDst, Received, sent) /\ Received \in Int /\ sent \in Int
        BY <1>0, <1>a
      <3>2. f.lo <= f.hi
        BY <2>1, <1>a
      <3> QED BY Zenon, <2>1, <3>1, <3>2, <1>0, CoversAppend
    <2>5. /\ up' = [up EXCEPT !["src"] = FALSE]
          /\ UNCHANGED <<ready, produced, sent, unacked, toSrc, pending, wbuf, delivered>>
      BY <1>6 DEF SocketClosedAtSrc
    <2>6. up' \in [End -> BOOLEAN] /\ up'["dst"] = up["dst"] /\ ~up'["src"]
      BY <2>5, <1>0 DEF End
    <2>7. TypeOK'
      BY <2>3, <2>5, <2>6 DEF FlowInv, TypeOK
    <2> QED BY <2>4, <2>5, <2>6, <2>7 DEF FlowInv, Received
  <1>7. CASE SocketClosedAtDst
    <2>1. /\ up["dst"] /\ DestroyDst(toSrc)
          /\ UNCHANGED <<ready, produced, sent, unacked, toDst, delivered>>
      BY <1>7 DEF SocketClosedAtDst
    <2>2. toDst' \in Seq(Frame)
      BY <2>1, <1>0
    <2> QED BY <2>1, <2>2, <1>c
  <1>8. CASE HandleCloseAtDst
    <2>1. toDst' \in Seq(Frame)
      BY <1>8, <1>0, HeadTailProperties DEF HandleCloseAtDst
    <2>2. /\ up' = [up EXCEPT !["dst"] = FALSE] /\ pending' = <<>> /\ wbuf' = <<>>
          /\ UNCHANGED <<ready, produced, sent, unacked, toSrc, delivered>>
      BY <1>8 DEF HandleCloseAtDst
    <2>3. ~up'["dst"]
      BY <2>2, <1>0 DEF End
    <2>4. Len(pending') = 0 /\ Len(wbuf') = 0 /\ pending' \in Seq(Nat) /\ wbuf' \in Seq(Nat)
      BY <2>2
    <2>5. Counts(wbuf', Len(delivered')) /\ Counts(pending', Len(delivered') + Len(wbuf'))
      BY <2>4 DEF Counts
    <2>6. Received' <= sent
      BY <2>2, <2>4, <1>0, <1>a, <1>b
    <2>7. Len(delivered) <= Len(delivered')
      BY <2>2, <1>a
    <2> QED BY <2>1, <2>2, <2>3, <2>4, <2>5, <2>6, <2>7, <1>0, DestinationStep
  <1>9. CASE HandleCloseAtSrc
    <2>1. toSrc' \in Seq(Frame)
      BY <1>9, <1>0, HeadTailProperties DEF HandleCloseAtSrc
    <2>2. /\ up' = [up EXCEPT !["src"] = FALSE]
          /\ UNCHANGED <<ready, produced, sent, unacked, toDst, pending, wbuf, delivered>>
      BY <1>9 DEF HandleCloseAtSrc
    <2>3. up' \in [End -> BOOLEAN] /\ up'["dst"] = up["dst"] /\ ~up'["src"]
      BY <2>2, <1>0 DEF End
    <2>4. TypeOK'
      BY <2>1, <2>2, <2>3 DEF FlowInv, TypeOK
    <2> QED BY <2>2, <2>3, <2>4 DEF FlowInv, Received
  <1>10. CASE UNCHANGED vars
    BY <1>10 DEF vars, FlowInv, TypeOK, Received
  <1> QED BY <1>1, <1>2, <1>3, <1>4, <1>5, <1>6, <1>7, <1>8, <1>9, <1>10 DEF Next

-----------------------------------------------------------------------------
(* The results. *)

\* Every reachable state satisfies the inductive invariant: each byte of the
\* stream is in exactly one place, whatever the window, chunk and queue sizes.
THEOREM FlowInvariant == Spec => []FlowInv
  BY InitFlowInv, FlowInvStep, PTL DEF Spec

\* The types of the two ends' Stream fields, in particular that the used
\* credit stays between zero and kWindowSize.
THEOREM TypeCorrect == Spec => []TypeOK
  <1>1. FlowInv => TypeOK
    BY DEF FlowInv
  <1> QED BY <1>1, FlowInvariant, PTL

\* The destination application is given a prefix of the source's byte stream:
\* queueing behind "pending" and flushing from its front never reorders,
\* loses or repeats a byte.
THEOREM OrderTheorem == Spec => []InOrder
  <1>1. FlowInv => InOrder
    <2> SUFFICES ASSUME FlowInv, NEW i \in 1..Len(delivered) PROVE delivered[i] = i
      BY DEF InOrder
    <2>1. delivered[i] = 0 + i
      BY DEF FlowInv, Counts
    <2>2. Len(delivered) \in Nat
      BY LenProperties DEF FlowInv, TypeOK
    <2> QED BY <2>1, <2>2
  <1> QED BY <1>1, FlowInvariant, PTL

\* The source never runs more than kWindowSize bytes ahead of the destination
\* application: the backpressure of pump() and sendAck() is end to end.
THEOREM WindowTheorem == Spec => []WindowBounds
  <1>1. FlowInv => WindowBounds
    BY DEF FlowInv, WindowBounds
  <1> QED BY <1>1, FlowInvariant, PTL

\* The overflow branch of handleData is dead code for a peer that runs this
\* pump, for every window not larger than the queue.
THEOREM OverflowTheorem == Spec => []NoPendingOverflow
  <1>1. FlowInv => NoPendingOverflow
    <2> SUFFICES ASSUME FlowInv, toDst # <<>>, up["dst"]
                 PROVE  Len(pending) + Len(Bytes(Head(toDst))) <= kMaxPending
      BY DEF NoPendingOverflow
    <2> DEFINE f == Head(toDst)
    <2>0. /\ sent \in Nat /\ toDst \in Seq(Frame)
          /\ Len(delivered) \in Nat /\ Len(wbuf) \in Nat /\ Len(pending) \in Nat
          /\ Received = Len(delivered) + Len(wbuf) + Len(pending)
          /\ Received \in Int /\ sent \in Int
      BY LenProperties, FlowAssumption DEF FlowInv, TypeOK, Received
    <2>1. Covers(toDst, Received, sent) /\ sent - Len(delivered) <= kWindowSize
      BY DEF FlowInv
    <2>2. f \in Frame /\ f.lo = Received /\ Received <= f.hi /\ f.hi <= sent
      BY <2>0, <2>1, CoversTail
    <2>3. f.hi \in Nat
      BY <2>2, FrameFields
    <2>4. Len(Bytes(f)) = f.hi - Received
      BY <2>2, BytesCount
    <2> HIDE DEF f
    <2>5. Len(pending) + (f.hi - Received) <= sent - Len(delivered)
      BY SMTT(30), <2>0, <2>2, <2>3
    <2> QED BY SMTT(30), <2>0, <2>1, <2>3, <2>4, <2>5, FlowAssumption DEF f
  <1> QED BY <1>1, FlowInvariant, PTL

\* The clamp of handleAck never acts: credit is neither lost nor invented.
THEOREM CreditTheorem == Spec => []AckWithinCredit
  <1>1. FlowInv => AckWithinCredit
    <2> SUFFICES ASSUME FlowInv, toSrc # <<>>, up["src"]
                 PROVE  Head(toSrc).hi - Head(toSrc).lo <= unacked
      BY DEF AckWithinCredit
    <2> DEFINE f == Head(toSrc)
    <2>0. /\ sent \in Nat /\ unacked \in Nat /\ toSrc \in Seq(Frame)
          /\ Len(delivered) \in Nat /\ Len(wbuf) \in Nat /\ Len(pending) \in Nat
          /\ sent - unacked \in Int /\ Len(delivered) \in Int
          /\ Received = Len(delivered) + Len(wbuf) + Len(pending)
      BY LenProperties, FlowAssumption DEF FlowInv, TypeOK, Received
    <2>1. Covers(toSrc, sent - unacked, Len(delivered)) /\ Received <= sent
      BY DEF FlowInv
    <2>2. f \in Frame /\ f.lo = sent - unacked /\ f.hi <= Len(delivered)
      BY <2>0, <2>1, CoversTail
    <2>3. f.hi \in Nat
      BY <2>2, FrameFields
    <2> HIDE DEF f
    <2>4. f.hi - (sent - unacked) <= unacked
      BY SMTT(30), <2>0, <2>1, <2>2, <2>3
    <2> QED BY <2>2, <2>4 DEF f
  <1> QED BY <1>1, FlowInvariant, PTL

\* A step that pumps at the source takes bytes into the pipe, or stutters.
LEMMA PumpIsTake ==
    ASSUME FlowInv, NEW r \in BOOLEAN, NEW p \in sent..MaxBytes, NEW u \in 0..kWindowSize,
           up["src"], sent - u <= Len(delivered), Pump(r, p, u),
           UNCHANGED <<up, delivered>>
    PROVE  [Pipe!Next]_(Pipe!vars)
  <1>1. sent' \in sent..p /\ sent' - Len(delivered) <= kWindowSize
    BY PumpStep
  <1>2. sent \in Nat /\ Len(delivered) \in Nat /\ kWindowSize \in Nat /\ p \in Nat
    BY LenProperties, FlowAssumption DEF FlowInv, TypeOK
  <1>3. CASE sent' = sent
    BY <1>3 DEF Pipe!vars
  <1>4. CASE sent' > sent
    <2>1. sent' \in 1..(Len(delivered) + kWindowSize)
      BY <1>1, <1>2, <1>4
    <2> QED BY <1>4, <2>1 DEF Pipe!Next, Pipe!Take
  <1> QED BY <1>1, <1>2, <1>3, <1>4

\* An end going away closes that end of the pipe, or stutters.
LEMMA DownIsClose ==
    ASSUME FlowInv, NEW e \in End, up' = [up EXCEPT ![e] = FALSE], UNCHANGED <<sent, delivered>>
    PROVE  [Pipe!Next]_(Pipe!vars)
  <1>0. up \in [End -> BOOLEAN]
    BY DEF FlowInv, TypeOK
  <1>1. CASE up[e]
    BY Zenon, <1>1 DEF Pipe!Next, Pipe!Close, End
  <1>2. CASE ~up[e]
    <2>1. up' = up
      BY <1>0, <1>2
    <2> QED BY <2>1 DEF Pipe!vars
  <1> QED BY <1>0, <1>1, <1>2

\* What leaves Qt's write buffer leaves the pipe.
LEMMA WrittenIsGive ==
    ASSUME FlowInv, NEW n \in 1..Len(wbuf), BytesWritten(n)
    PROVE  [Pipe!Next]_(Pipe!vars)
  <1> DEFINE front == SubSeq(wbuf, 1, n)
             d == Len(delivered)
             next == [i \in 1..n |-> d + i]
  <1>0. /\ wbuf \in Seq(Nat) /\ Len(wbuf) \in Nat /\ d \in Nat /\ sent \in Nat
        /\ Len(pending) \in Nat /\ Counts(wbuf, d)
        /\ d + Len(wbuf) + Len(pending) <= sent
        /\ \A i \in 1..Len(wbuf) : wbuf[i] \in Nat
    <2>1. /\ wbuf \in Seq(Nat) /\ pending \in Seq(Nat) /\ delivered \in Seq(Nat)
          /\ sent \in 0..produced /\ produced \in 0..MaxBytes /\ MaxBytes \in Nat
          /\ Counts(wbuf, d)
      BY FlowAssumption DEF FlowInv, TypeOK
    <2>2. d + Len(wbuf) + Len(pending) <= sent
      BY DEF FlowInv, Received
    <2> QED BY <2>1, <2>2, LenProperties, ElementOfSeq
  <1>1. n \in 1..(sent - d)
    BY <1>0
  <1>2. front = next
    <2>1. /\ front \in Seq(Nat) /\ Len(front) = n
          /\ \A i \in 1..n : front[i] = wbuf[i]
      BY <1>0, SubSeqProperties
    <2>2. next \in Seq(Nat) /\ Len(next) = n /\ \A i \in 1..n : next[i] = d + i
      BY <1>0
    <2>3. \A i \in 1..n : front[i] = next[i]
      BY <2>1, <2>2, <1>0 DEF Counts
    <2> HIDE DEF front, next
    <2> QED BY <2>1, <2>2, <2>3, SeqEqual
  <1>3. delivered' = delivered \o next
    <2>1. delivered' = delivered \o front
      BY DEF BytesWritten
    <2> QED BY <1>2, <2>1
  <1>4. up["dst"] /\ UNCHANGED sent
    BY DEF BytesWritten
  <1>5. up' \in {up, [up EXCEPT !["dst"] = FALSE]}
    BY Zenon DEF BytesWritten, Flush, DestroyDst
  <1> QED BY <1>1, <1>3, <1>4, <1>5 DEF Pipe!Next, Pipe!Give

LEMMA StepRefines == FlowInv /\ [Next]_vars => [Pipe!Next]_(Pipe!vars)
  <1> SUFFICES ASSUME FlowInv, [Next]_vars PROVE [Pipe!Next]_(Pipe!vars)
    OBVIOUS
  <1>0. /\ sent \in 0..produced /\ produced \in 0..MaxBytes /\ MaxBytes \in Nat
        /\ unacked \in 0..kWindowSize /\ kWindowSize \in Nat /\ ready \in BOOLEAN
        /\ up["src"] => sent - unacked <= Len(delivered)
        /\ produced \in sent..MaxBytes
    BY FlowAssumption DEF FlowInv, TypeOK
  <1>1. CASE BecomeReady
    BY Zenon, <1>0, <1>1, PumpIsTake DEF BecomeReady
  <1>2. ASSUME NEW n \in 1..kReadBufferSize, ReadyRead(n) PROVE [Pipe!Next]_(Pipe!vars)
    <2>1. produced + n \in sent..MaxBytes
      BY <1>0, <1>2, FlowAssumption DEF ReadyRead
    <2> QED BY <1>0, <1>2, <2>1, PumpIsTake DEF ReadyRead
  <1>3. CASE HandleAck
    <2> DEFINE f == Head(toSrc)
               u == CreditAfter(unacked, f.hi - f.lo)
    <2>1. CASE up["src"]
      <3>0. /\ toSrc # <<>> /\ toSrc \in Seq(Frame) /\ Len(delivered) \in Int
            /\ sent - unacked \in Int /\ sent \in Nat /\ unacked \in Nat /\ Len(delivered) \in Nat
            /\ Len(delivered) <= sent
            /\ Covers(toSrc, sent - unacked, Len(delivered))
        BY SMTT(30), <1>3, <2>1, LenProperties, FlowAssumption DEF HandleAck, FlowInv, TypeOK, Received
      <3>1. f \in Frame /\ f.lo = sent - unacked /\ f.lo <= f.hi /\ f.hi <= Len(delivered)
        BY <3>0, CoversTail
      <3>2. f.hi \in Nat
        BY <3>1, FrameFields
      <3>3. u \in 0..kWindowSize /\ sent - u <= Len(delivered)
        <4>1. /\ unacked <= kWindowSize /\ kWindowSize \in Nat
              /\ sent - unacked <= f.hi /\ f.hi <= sent
          BY <3>0, <3>1, <3>2, <1>0
        <4> HIDE DEF f
        <4>2. u = CreditAfter(unacked, f.hi - (sent - unacked))
          BY <3>1
        <4> HIDE DEF u
        <4> DEFINE v == CreditAfter(unacked, f.hi - (sent - unacked))
        <4>3. v \in 0..kWindowSize /\ sent - v = f.hi
          BY <4>1, <3>0, <3>2 DEF CreditAfter
        <4>4. u = v
          BY <4>2
        <4> HIDE DEF v
        <4> QED BY <4>3, <4>4, <3>1
      <3>4. /\ Pump(ready /\ u < kWindowLowWater, produced, u)
            /\ UNCHANGED <<up, delivered>>
        BY <1>3, <2>1 DEF HandleAck
      <3>5. (ready /\ u < kWindowLowWater) \in BOOLEAN
        OBVIOUS
      <3> HIDE DEF u
      <3> QED BY Zenon, <1>0, <2>1, <3>3, <3>4, <3>5, PumpIsTake
    <2>2. CASE ~up["src"]
      BY <1>3, <2>2 DEF HandleAck, Pipe!vars
    <2> QED BY <2>1, <2>2
  <1>4. CASE HandleData
    <2>1. UNCHANGED <<sent, delivered>> /\ up' \in {up, [up EXCEPT !["dst"] = FALSE]}
      BY <1>4 DEF HandleData, DestroyDst, Flush
    <2>2. CASE up' = up
      BY <2>1, <2>2 DEF Pipe!vars
    <2>3. CASE up' = [up EXCEPT !["dst"] = FALSE]
      BY <2>1, <2>3, DownIsClose DEF End
    <2> QED BY <2>1, <2>2, <2>3
  <1>5. ASSUME NEW n \in 1..Len(wbuf), BytesWritten(n) PROVE [Pipe!Next]_(Pipe!vars)
    BY <1>5, WrittenIsGive
  <1>6. CASE SocketClosedAtSrc
    BY <1>6, DownIsClose DEF SocketClosedAtSrc, End
  <1>7. CASE SocketClosedAtDst
    BY <1>7, DownIsClose DEF SocketClosedAtDst, DestroyDst, End
  <1>8. CASE HandleCloseAtDst
    BY <1>8, DownIsClose DEF HandleCloseAtDst, End
  <1>9. CASE HandleCloseAtSrc
    BY <1>9, DownIsClose DEF HandleCloseAtSrc, End
  <1>10. CASE UNCHANGED vars
    BY <1>10 DEF vars, Pipe!vars
  <1> QED BY <1>1, <1>2, <1>3, <1>4, <1>5, <1>6, <1>7, <1>8, <1>9, <1>10 DEF Next

\* The data plane implements the bounded byte pipe: frames, queues, credit and
\* the ways a stream can end are invisible to the two applications.
THEOREM FlowImplementsPipe == Spec => PipeSpec
  <1>1. Init => Pipe!Init
    BY DEF Init, Pipe!Init, End
  <1> QED BY <1>1, StepRefines, FlowInvariant, PTL DEF Spec, PipeSpec, Pipe!Spec
=============================================================================
