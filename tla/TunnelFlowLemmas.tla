-------------------------- MODULE TunnelFlowLemmas --------------------------
(* What pumping and flushing do to runs of frames and bytes, for every value *)
(* of the constants of TunnelFlow.                                           *)
EXTENDS TunnelFlow, SequenceTheorems, TLAPS

-----------------------------------------------------------------------------
(* Facts about runs of frames. *)

LEMMA MulMono ==
    ASSUME NEW i \in Nat, NEW j \in Nat, NEW c \in Nat, i <= j
    PROVE  i * c <= j * c
  <1>1. PICK d \in Nat : j = i + d
    <2>1. j - i \in Nat /\ j = i + (j - i)
      OBVIOUS
    <2> QED BY <2>1
  <1>2. j * c = i * c + d * c
    BY <1>1
  <1>3. i * c \in Nat /\ d * c \in Nat
    OBVIOUS
  <1> QED BY <1>2, <1>3

\* The number of chunks is the one that just covers n bytes.
LEMMA NumChunksFits ==
    ASSUME NEW n \in Nat
    PROVE  /\ NumChunks(n) \in Nat
           /\ n <= NumChunks(n) * kChunkSize
           /\ n > 0 => NumChunks(n) > 0 /\ (NumChunks(n) - 1) * kChunkSize < n
           /\ n = 0 => NumChunks(n) = 0
  <1> DEFINE c == kChunkSize
             m == n + c - 1
             d == m \div c
  <1>0. c \in Nat \ {0}
    BY FlowAssumption
  <1>1. m \in Nat
    BY <1>0
  <1>2. /\ d \in Nat
        /\ m % c \in 0..(c - 1)
        /\ m = c * d + (m % c)
    BY <1>0, <1>1
  <1> QED BY <1>0, <1>1, <1>2 DEF NumChunks

\* What the pump loop sends covers the bytes it read, in DATA frames.
LEMMA ChunksCover ==
    ASSUME NEW lo \in Nat, NEW n \in Nat
    PROVE  /\ Chunks(lo, n) \in Seq(Frame)
           /\ Covers(Chunks(lo, n), lo, lo + n)
           /\ \A i \in 1..Len(Chunks(lo, n)) : Chunks(lo, n)[i].mask = "DATA"
  <1> DEFINE c == kChunkSize
             m == NumChunks(n)
             F(k) == [mask |-> "DATA", lo |-> lo + (k - 1) * c,
                      hi |-> lo + Lesser(k * c, n)]
             q == Chunks(lo, n)
  <1>0. c \in Nat \ {0}
    BY FlowAssumption
  <1>1. m \in Nat /\ n <= m * c /\ (n > 0 => m > 0 /\ (m - 1) * c < n) /\ (n = 0 => m = 0)
    BY NumChunksFits
  <1>2. \A k \in 1..m : (k - 1) * c \in Nat /\ k * c \in Nat /\ k * c = (k - 1) * c + c
    BY <1>0, <1>1
  <1>3. \A k \in 1..m : (k - 1) * c <= n
    <2> SUFFICES ASSUME NEW k \in 1..m PROVE (k - 1) * c <= n
      OBVIOUS
    <2>1. (k - 1) * c <= (m - 1) * c
      <3>1. k - 1 \in Nat /\ m - 1 \in Nat /\ k - 1 <= m - 1
        BY <1>1
      <3> HIDE DEF m
      <3> QED BY <3>1, <1>0, MulMono
    <2> QED BY <2>1, <1>0, <1>1
  <1>4. \A k \in 1..m : k < m => k * c <= n
    <2> SUFFICES ASSUME NEW k \in 1..m, k < m PROVE k * c <= n
      OBVIOUS
    <2>1. k + 1 \in 1..m
      BY <1>1
    <2>2. (k + 1 - 1) * c <= n
      BY <2>1, <1>3
    <2> QED BY <2>2, <1>1
  <1>5. /\ q \in Seq(Frame)
        /\ Len(q) = m
        /\ \A k \in 1..m : q[k] = F(k)
    <2>1. \A k \in 1..m : F(k) \in Frame
      BY <1>0, <1>1, <1>2 DEF Frame, Mask, Lesser
    <2>2. q = [k \in 1..m |-> F(k)]
      BY DEF Chunks
    <2> HIDE DEF m, F, q
    <2> QED BY <2>1, <2>2, <1>1
  <1>6. /\ \A k \in 1..m : q[k].lo = lo + (k - 1) * c
        /\ \A k \in 1..m : q[k].hi = lo + Lesser(k * c, n)
    BY <1>5
  <1>7. Covers(q, lo, lo + n)
    <2>1. q = <<>> => n = 0
      BY <1>1, <1>5
    <2>2. q # <<>> => q[1].lo = lo /\ q[Len(q)].hi = lo + n
      <3>1. q # <<>> => m > 0
        BY <1>1, <1>5
      <3>2. m > 0 => Lesser(m * c, n) = n
        BY <1>0, <1>1, <1>2 DEF Lesser
      <3> QED BY <3>1, <3>2, <1>0, <1>1, <1>5, <1>6
    <2>3. \A k \in 1..m : lo <= q[k].lo /\ q[k].lo <= q[k].hi /\ q[k].hi <= lo + n
      BY <1>0, <1>1, <1>2, <1>3, <1>6 DEF Lesser
    <2>4. \A k \in 1..m : k < m => q[k].hi = q[k + 1].lo
      BY <1>0, <1>1, <1>2, <1>4, <1>6 DEF Lesser
    <2>5. \A i, j \in 1..m : i < j => q[i].hi <= q[j].lo
      <3> SUFFICES ASSUME NEW i \in 1..m, NEW j \in 1..m, i < j
                   PROVE  q[i].hi <= q[j].lo
        OBVIOUS
      <3>1. i * c <= (j - 1) * c
        BY <1>0, <1>1, MulMono
      <3>2. q[i].hi = lo + Lesser(i * c, n) /\ q[j].lo = lo + (j - 1) * c
        BY <1>6
      <3>3. i * c \in Nat /\ (j - 1) * c \in Nat
        BY <1>2
      <3>4. Lesser(i * c, n) \in Nat /\ Lesser(i * c, n) <= i * c
        BY <3>3 DEF Lesser
      <3> HIDE DEF c, q, m
      <3> QED BY <3>1, <3>2, <3>3, <3>4
    <2> HIDE DEF m, c, q
    <2> QED BY <2>1, <2>2, <2>3, <2>4, <2>5, <1>1, <1>5 DEF Covers
  <1>8. \A i \in 1..Len(q) : q[i].mask = "DATA"
    BY <1>5
  <1> QED BY <1>5, <1>7, <1>8

LEMMA FrameFields ==
    ASSUME NEW f \in Frame
    PROVE  f.lo \in Nat /\ f.hi \in Nat
  BY DEF Frame

LEMMA CoversEmpty ==
    ASSUME NEW a \in Nat
    PROVE  Covers(<<>>, a, a)
  BY DEF Covers

LEMMA CoversConcat ==
    ASSUME NEW q \in Seq(Frame), NEW r \in Seq(Frame),
           NEW a \in Int, NEW b \in Int, NEW c \in Int,
           Covers(q, a, b), Covers(r, b, c), a <= b, b <= c
    PROVE  Covers(q \o r, a, c)
  <1> DEFINE s == q \o r
  <1>1. /\ s \in Seq(Frame)
        /\ Len(s) = Len(q) + Len(r)
        /\ Len(q) \in Nat /\ Len(r) \in Nat
        /\ \A i \in 1..Len(q) : s[i] = q[i]
        /\ \A i \in 1..Len(r) : s[Len(q) + i] = r[i]
    OBVIOUS
  <1>2. \A i \in 1..Len(s) : i \notin 1..Len(q) =>
           i - Len(q) \in 1..Len(r) /\ s[i] = r[i - Len(q)]
    BY <1>1
  <1>3. /\ q = <<>> <=> Len(q) = 0
        /\ r = <<>> <=> Len(r) = 0
        /\ s = <<>> <=> Len(s) = 0
    BY <1>1
  <1>4. /\ \A i \in 1..Len(q) : q[i].lo \in Nat /\ q[i].hi \in Nat
        /\ \A i \in 1..Len(r) : r[i].lo \in Nat /\ r[i].hi \in Nat
    <2>1. /\ \A i \in 1..Len(q) : q[i] \in Frame
          /\ \A i \in 1..Len(r) : r[i] \in Frame
      BY ElementOfSeq
    <2> QED BY <2>1, FrameFields
  <1> HIDE DEF s
  <1>5. s = <<>> => a = c
    BY <1>1, <1>3 DEF Covers
  <1>6. s # <<>> => s[1].lo = a /\ s[Len(s)].hi = c
    <2>1. CASE Len(q) = 0
      BY <2>1, <1>1, <1>2, <1>3 DEF Covers
    <2>2. CASE Len(r) = 0
      BY <2>2, <1>1, <1>3 DEF Covers
    <2>3. CASE Len(q) > 0 /\ Len(r) > 0
      BY SMTT(30), <2>3, <1>1, <1>2, <1>3 DEF Covers
    <2> QED BY <2>1, <2>2, <2>3, <1>1
  <1>7. \A i \in 1..Len(s) : a <= s[i].lo /\ s[i].lo <= s[i].hi /\ s[i].hi <= c
    <2> SUFFICES ASSUME NEW i \in 1..Len(s)
                 PROVE  a <= s[i].lo /\ s[i].lo <= s[i].hi /\ s[i].hi <= c
      OBVIOUS
    <2>1. CASE i \in 1..Len(q)
      <3>1. a <= q[i].lo /\ q[i].lo <= q[i].hi /\ q[i].hi <= b
        BY <2>1 DEF Covers
      <3> QED BY <3>1, <2>1, <1>1, <1>4
    <2>2. CASE i \notin 1..Len(q)
      <3> DEFINE k == i - Len(q)
      <3>1. k \in 1..Len(r) /\ s[i] = r[k]
        BY <2>2, <1>2
      <3>2. b <= r[k].lo /\ r[k].lo <= r[k].hi /\ r[k].hi <= c
        BY <3>1 DEF Covers
      <3> HIDE DEF k
      <3> QED BY <3>1, <3>2, <1>4
    <2> QED BY <2>1, <2>2
  <1>8. \A i, j \in 1..Len(s) : i < j => s[i].hi <= s[j].lo
    <2> SUFFICES ASSUME NEW i \in 1..Len(s), NEW j \in 1..Len(s), i < j
                 PROVE  s[i].hi <= s[j].lo
      OBVIOUS
    <2>1. CASE j \in 1..Len(q)
      <3>1. i \in 1..Len(q)
        BY <2>1, <1>1
      <3>2. q[i].hi <= q[j].lo
        BY <2>1, <3>1 DEF Covers
      <3> QED BY <2>1, <3>1, <3>2, <1>1
    <2>2. CASE i \in 1..Len(q) /\ j \notin 1..Len(q)
      <3> DEFINE k == j - Len(q)
      <3>1. k \in 1..Len(r) /\ s[j] = r[k]
        BY <2>2, <1>2
      <3> HIDE DEF k
      <3>2. q[i].hi <= b /\ b <= r[k].lo
        <4>1. q[i].hi <= b
          BY <2>2 DEF Covers
        <4>2. b <= r[k].lo
          BY <3>1 DEF Covers
        <4> QED BY <4>1, <4>2
      <3>3. q[i].hi \in Nat /\ r[k].lo \in Nat
        BY <3>1, <2>2, <1>4
      <3> DEFINE x == q[i].hi
                 y == r[k].lo
      <3>4. x <= y
        <4>1. x <= b /\ b <= y /\ x \in Int /\ y \in Int
          BY <3>2, <3>3
        <4> HIDE DEF x, y
        <4> QED BY <4>1
      <3>5. s[i] = q[i]
        BY <2>2, <1>1
      <3> QED BY <3>1, <3>4, <3>5
    <2>3. CASE i \notin 1..Len(q) /\ j \notin 1..Len(q)
      <3> DEFINE k == i - Len(q)
                 l == j - Len(q)
      <3>1. /\ k \in 1..Len(r) /\ s[i] = r[k]
            /\ l \in 1..Len(r) /\ s[j] = r[l]
        BY <2>3, <1>2
      <3>2. k < l
        BY <1>1
      <3> HIDE DEF k, l
      <3>3. r[k].hi <= r[l].lo
        BY <3>1, <3>2 DEF Covers
      <3> QED BY <3>1, <3>3
    <2> QED BY <2>1, <2>2, <2>3
  <1>9. \A i \in 1..(Len(s) - 1) : s[i].hi = s[i + 1].lo
    <2> SUFFICES ASSUME NEW i \in 1..(Len(s) - 1) PROVE s[i].hi = s[i + 1].lo
      OBVIOUS
    <2>1. CASE i < Len(q)
      <3>1. i \in 1..(Len(q) - 1) /\ i \in 1..Len(q) /\ i + 1 \in 1..Len(q)
        BY <2>1, <1>1
      <3>2. q[i].hi = q[i + 1].lo
        BY <3>1 DEF Covers
      <3> QED BY <3>1, <3>2, <1>1
    <2>2. CASE i = Len(q)
      BY <2>2, <1>1, <1>2, <1>3 DEF Covers
    <2>3. CASE i > Len(q)
      <3> DEFINE k == i - Len(q)
      <3>1. /\ k \in 1..(Len(r) - 1)
            /\ s[i] = r[k] /\ s[i + 1] = r[k + 1]
        BY SMTT(30), <2>3, <1>1, <1>2
      <3>2. r[k].hi = r[k + 1].lo
        BY <3>1 DEF Covers
      <3> QED BY <3>1, <3>2
    <2> QED BY <2>1, <2>2, <2>3, <1>1
  <1> QED BY SMTT(30), <1>5, <1>6, <1>7, <1>8, <1>9 DEF Covers, s

LEMMA CoversAppend ==
    ASSUME NEW q \in Seq(Frame), NEW f \in Frame, NEW a \in Int, NEW b \in Int,
           Covers(q, a, b), a <= b, f.lo = b, f.lo <= f.hi
    PROVE  Append(q, f) \in Seq(Frame) /\ Covers(Append(q, f), a, f.hi)
  <1>1. f.lo \in Nat /\ f.hi \in Nat
    BY DEF Frame
  <1>2. <<f>> \in Seq(Frame) /\ Covers(<<f>>, b, f.hi)
    BY <1>1 DEF Covers
  <1>3. Append(q, f) = q \o <<f>>
    OBVIOUS
  <1>4. Covers(q \o <<f>>, a, f.hi)
    <2>1. f.hi \in Int /\ b <= f.hi
      BY <1>1
    <2> QED BY <1>2, <2>1, CoversConcat, Zenon
  <1> QED BY <1>3, <1>4

LEMMA CoversTail ==
    ASSUME NEW q \in Seq(Frame), NEW a \in Int, NEW b \in Int,
           Covers(q, a, b), q # <<>>
    PROVE  /\ Head(q) \in Frame
           /\ Tail(q) \in Seq(Frame)
           /\ Head(q).lo = a
           /\ a <= Head(q).hi /\ Head(q).hi <= b
           /\ Covers(Tail(q), Head(q).hi, b)
  <1> DEFINE r == Tail(q)
  <1>1. /\ r \in Seq(Frame)
        /\ Len(q) \in Nat /\ Len(q) > 0
        /\ Len(r) = Len(q) - 1
        /\ \A i \in 1..Len(r) : r[i] = q[i + 1]
        /\ Head(q) = q[1]
        /\ r = <<>> <=> Len(r) = 0
    <2>1. /\ Len(q) \in Nat
          /\ \A i \in 1..Len(q) : q[i] \in Frame
          /\ Len(q) > 0
      BY EmptySeq, ElementOfSeq
    <2>2. /\ r \in Seq(Frame)
          /\ Len(r) = Len(q) - 1
          /\ \A i \in 1..Len(r) : r[i] = q[i + 1]
      BY HeadTailProperties, Zenon
    <2>3. r = <<>> <=> Len(r) = 0
      <3> HIDE DEF r
      <3> QED BY <2>2, EmptySeq
    <2>4. Head(q) = q[1]
      BY <2>1
    <2> QED BY <2>1, <2>2, <2>3, <2>4
  <1>2. \A i \in 1..Len(q) : q[i] \in Frame /\ q[i].lo \in Nat /\ q[i].hi \in Nat
    BY ElementOfSeq, FrameFields
  <1> HIDE DEF r
  <1>3. Covers(r, q[1].hi, b)
    <2>1. r = <<>> => q[1].hi = b
      <3>1. r = <<>> => Len(q) = 1
        BY <1>1
      <3>2. q[Len(q)].hi = b
        BY DEF Covers
      <3> QED BY <3>1, <3>2
    <2>2. r # <<>> => r[1].lo = q[1].hi /\ r[Len(r)].hi = b
      <3> SUFFICES ASSUME r # <<>> PROVE r[1].lo = q[1].hi /\ r[Len(r)].hi = b
        OBVIOUS
      <3>1. 1 \in 1..Len(r) /\ Len(r) \in 1..Len(r) /\ 1 \in 1..(Len(q) - 1)
        BY <1>1
      <3>2. r[1] = q[1 + 1] /\ r[Len(r)] = q[Len(q)]
        BY <3>1, <1>1
      <3>3. q[1].hi = q[1 + 1].lo /\ q[Len(q)].hi = b
        BY <3>1 DEF Covers
      <3> QED BY <3>2, <3>3
    <2>3. \A i \in 1..Len(r) : q[1].hi <= r[i].lo /\ r[i].lo <= r[i].hi /\ r[i].hi <= b
      <3> SUFFICES ASSUME NEW i \in 1..Len(r)
                   PROVE  q[1].hi <= q[i + 1].lo /\ q[i + 1].lo <= q[i + 1].hi
                          /\ q[i + 1].hi <= b
        BY Zenon, <1>1
      <3>1. 1 \in 1..Len(q) /\ i + 1 \in 1..Len(q) /\ 1 < i + 1
        BY <1>1
      <3> QED BY <3>1 DEF Covers
    <2>4. \A i, j \in 1..Len(r) : i < j => r[i].hi <= r[j].lo
      <3> SUFFICES ASSUME NEW i \in 1..Len(r), NEW j \in 1..Len(r), i < j
                   PROVE  q[i + 1].hi <= q[j + 1].lo
        BY SMTT(30), <1>1
      <3>1. i + 1 \in 1..Len(q) /\ j + 1 \in 1..Len(q) /\ i + 1 < j + 1
        BY <1>1
      <3> QED BY <3>1 DEF Covers
    <2>5. \A i \in 1..(Len(r) - 1) : r[i].hi = r[i + 1].lo
      <3> SUFFICES ASSUME NEW i \in 1..(Len(r) - 1)
                   PROVE  r[i].hi = r[i + 1].lo
        OBVIOUS
      <3>1. i + 1 \in 1..(Len(q) - 1) /\ r[i] = q[i + 1] /\ r[i + 1] = q[(i + 1) + 1]
        BY <1>1
      <3> QED BY <3>1 DEF Covers
    <2> QED BY <2>1, <2>2, <2>3, <2>4, <2>5 DEF Covers
  <1>4. q[1].lo = a /\ a <= q[1].hi /\ q[1].hi <= b
    <2>1. 1 \in 1..Len(q)
      BY <1>1
    <2>2. q[1].lo = a /\ a <= q[1].lo /\ q[1].lo <= q[1].hi /\ q[1].hi <= b
      BY <2>1 DEF Covers
    <2> QED BY <2>2
  <1> QED BY <1>1, <1>2, <1>3, <1>4 DEF r

-----------------------------------------------------------------------------
(* Facts about runs of bytes. *)

LEMMA CountsConcat ==
    ASSUME NEW s \in Seq(Nat), NEW t \in Seq(Nat), NEW b \in Nat,
           Counts(s, b), Counts(t, b + Len(s))
    PROVE  /\ s \o t \in Seq(Nat)
           /\ Len(s \o t) = Len(s) + Len(t)
           /\ Counts(s \o t, b)
  BY ConcatProperties, LenProperties DEF Counts

LEMMA CountsSub ==
    ASSUME NEW s \in Seq(Nat), NEW b \in Nat, NEW m \in 0..Len(s), NEW n \in m..Len(s),
           Counts(s, b)
    PROVE  /\ SubSeq(s, m + 1, n) \in Seq(Nat)
           /\ Len(SubSeq(s, m + 1, n)) = n - m
           /\ Counts(SubSeq(s, m + 1, n), b + m)
  <1>1. Len(s) \in Nat /\ \A i \in 1..Len(s) : s[i] \in Nat
    BY LenProperties, ElementOfSeq
  <1>2. /\ SubSeq(s, m + 1, n) \in Seq(Nat)
        /\ Len(SubSeq(s, m + 1, n)) = n - m
        /\ \A i \in 1..(n - m) : SubSeq(s, m + 1, n)[i] = s[m + i]
    BY <1>1, SubSeqProperties
  <1> QED BY <1>1, <1>2 DEF Counts

LEMMA BytesCount ==
    ASSUME NEW f \in Frame, f.lo <= f.hi
    PROVE  /\ Bytes(f) \in Seq(Nat)
           /\ Len(Bytes(f)) = f.hi - f.lo
           /\ Counts(Bytes(f), f.lo)
  BY FrameFields DEF Bytes, Counts

-----------------------------------------------------------------------------
(* The two operations the actions are built from. *)

\* The pump never reads past the window nor past what the socket holds, and
\* its frames carry on where the earlier ones stop.
LEMMA PumpStep ==
    ASSUME FlowInv, NEW r \in BOOLEAN, NEW p \in sent..MaxBytes, NEW u \in 0..kWindowSize,
           sent - u <= Len(delivered), Pump(r, p, u)
    PROVE  /\ sent' \in sent..p
           /\ unacked' \in 0..kWindowSize
           /\ sent' - unacked' = sent - u
           /\ sent' - Len(delivered) <= kWindowSize
           /\ toDst' \in Seq(Frame)
           /\ up["dst"] => Covers(toDst', Received, sent')
  <1> DEFINE n == IF r /\ u < kWindowSize THEN Credit(u, p - sent) ELSE 0
  <1>0. /\ kWindowSize \in Nat /\ MaxBytes \in Nat /\ produced \in Nat /\ sent \in Nat
        /\ Len(delivered) \in Nat /\ Len(wbuf) \in Nat /\ Len(pending) \in Nat
        /\ Received \in Nat /\ Received <= sent
        /\ toDst \in Seq(Frame)
    BY FlowAssumption, LenProperties DEF FlowInv, TypeOK, Received
  <1>1. n \in 0..(p - sent) /\ u + n <= kWindowSize
    BY <1>0 DEF Credit, Lesser
  <1>2. sent' = sent + n /\ unacked' = u + n /\ toDst' = toDst \o Chunks(sent, n)
    BY DEF Pump
  <1> HIDE DEF n
  <1>3. n \in Nat
    BY <1>0, <1>1
  <1>4. Chunks(sent, n) \in Seq(Frame) /\ Covers(Chunks(sent, n), sent, sent + n)
    BY Zenon, <1>0, <1>3, ChunksCover
  <1>5. toDst' \in Seq(Frame)
    BY <1>0, <1>2, <1>4, ConcatProperties
  <1>6. up["dst"] => Covers(toDst', Received, sent')
    <2> SUFFICES ASSUME up["dst"] PROVE Covers(toDst \o Chunks(sent, n), Received, sent + n)
      BY <1>2
    <2>1. Covers(toDst, Received, sent)
      BY DEF FlowInv
    <2>2. sent <= sent + n /\ sent + n \in Int /\ sent \in Int /\ Received \in Int
      BY <1>0, <1>3
    <2> QED BY <1>0, <1>4, <2>1, <2>2, CoversConcat, Zenon
  <1> QED BY <1>0, <1>1, <1>2, <1>3, <1>5, <1>6

\* Flushing moves bytes from the front of the queue to the back of the write
\* buffer, or ends the stream.
LEMMA FlushStep ==
    ASSUME NEW p \in Seq(Nat), NEW q \in Seq(Nat), NEW frames, NEW b \in Nat,
           up \in [End -> BOOLEAN], Counts(q, b), Counts(p, b + Len(q)),
           Flush(p, q, frames)
    PROVE  /\ pending' \in Seq(Nat) /\ wbuf' \in Seq(Nat)
           /\ Counts(wbuf', b) /\ Counts(pending', b + Len(wbuf'))
           /\ \/ /\ up' = up
                 /\ toSrc' = frames
                 /\ Len(wbuf') + Len(pending') = Len(q) + Len(p)
              \/ /\ up' = [up EXCEPT !["dst"] = FALSE]
                 /\ toSrc' = Append(frames, CloseFrame(Len(delivered')))
                 /\ Len(wbuf') + Len(pending') = 0
  <1>0. Len(p) \in Nat /\ Len(q) \in Nat
    BY LenProperties
  <1>1. ASSUME NEW w \in 0..Len(p),
               pending' = SubSeq(p, w + 1, Len(p)),
               wbuf' = q \o SubSeq(p, 1, w),
               toSrc' = frames, UNCHANGED up
        PROVE  /\ pending' \in Seq(Nat) /\ wbuf' \in Seq(Nat)
               /\ Counts(wbuf', b) /\ Counts(pending', b + Len(wbuf'))
               /\ Len(wbuf') + Len(pending') = Len(q) + Len(p)
    <2> DEFINE front == SubSeq(p, 1, w)
               rest == SubSeq(p, w + 1, Len(p))
               base == b + Len(q)
    <2>0. base \in Nat /\ w \in Nat
      BY <1>0
    <2>1. rest \in Seq(Nat) /\ Len(rest) = Len(p) - w /\ Counts(rest, base + w)
      <3>1. w \in 0..Len(p) /\ Len(p) \in w..Len(p)
        BY <1>0
      <3> HIDE DEF base
      <3> QED BY <3>1, <2>0, CountsSub DEF base
    <2>2. front \in Seq(Nat) /\ Len(front) = w /\ Counts(front, base)
      <3>1. 0 \in 0..Len(p) /\ w \in 0..Len(p)
        BY <1>0
      <3>2. /\ SubSeq(p, 0 + 1, w) \in Seq(Nat)
            /\ Len(SubSeq(p, 0 + 1, w)) = w - 0
            /\ Counts(SubSeq(p, 0 + 1, w), base + 0)
        BY <3>1, <2>0, CountsSub
      <3> QED BY <3>2, <2>0
    <2> HIDE DEF front, rest
    <2>3. /\ q \o front \in Seq(Nat)
          /\ Len(q \o front) = Len(q) + w
          /\ Counts(q \o front, b)
      BY Zenon, <2>2, CountsConcat
    <2>4. wbuf' = q \o front /\ pending' = rest
      BY <1>1 DEF front, rest
    <2>5. /\ pending' \in Seq(Nat) /\ wbuf' \in Seq(Nat) /\ Counts(wbuf', b)
          /\ Len(wbuf') = Len(q) + w /\ Len(pending') = Len(p) - w
          /\ Counts(pending', base + w)
      BY <2>1, <2>3, <2>4, Zenon
    <2>6. b + (Len(q) + w) = base + w
      BY <1>0
    <2>7. Counts(pending', b + Len(wbuf'))
      BY <2>5, <2>6, Zenon
    <2>8. Len(wbuf') + Len(pending') = Len(q) + Len(p)
      BY <2>5, <1>0
    <2> QED BY <2>5, <2>7, <2>8
  <1>2. ASSUME DestroyDst(frames)
        PROVE  /\ pending' \in Seq(Nat) /\ wbuf' \in Seq(Nat)
               /\ Counts(wbuf', b) /\ Counts(pending', b + Len(wbuf'))
               /\ up' = [up EXCEPT !["dst"] = FALSE]
               /\ toSrc' = Append(frames, CloseFrame(Len(delivered')))
               /\ Len(wbuf') + Len(pending') = 0
    BY <1>2 DEF DestroyDst, Counts
  <1>3. CASE p # <<>> /\ DestroyDst(frames)
    BY SMTT(30), <1>2, <1>3
  <1>4. CASE \E w \in 0..Len(p) :
                /\ w = 0 => (p = <<>> \/ q # <<>>)
                /\ pending' = SubSeq(p, w + 1, Len(p))
                /\ wbuf' = q \o SubSeq(p, 1, w)
                /\ toSrc' = frames
                /\ UNCHANGED up
    BY Zenon, <1>1, <1>4
  <1> QED BY Zenon, <1>3, <1>4 DEF Flush
=============================================================================
