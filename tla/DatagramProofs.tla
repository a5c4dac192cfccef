---------------------------- MODULE DatagramProofs ----------------------------
(***************************************************************************)
(* Proofs about the datagram protocol, for any window smaller than half    *)
(* the sequence space.  First the operators of DatagramSeq; then the       *)
(* window against its reference on unbounded numbers (SequenceWindow), for *)
(* any number of packets; then the link (DatagramLink), for any sessions   *)
(* and retry limits and any loss, duplication and reordering: reliable     *)
(* messages reach the application once, ordered ones in order, and what    *)
(* either end concludes from acknowledgements is true.                     *)
(***************************************************************************)
EXTENDS DatagramLink, SequenceWindow, SequenceTheorems, FiniteSetTheorems, TLAPS

\* accept returns a window again: the latest number is in range and no bit
\* beyond the mask is set.
THEOREM AcceptKeepsWindow ==
    ASSUME NEW w \in Windows, NEW s \in SeqNums
    PROVE  afterAccept(w, s) \in Windows
<1> USE SeqAssumption DEF Windows, SeqNums, SeqCount, Masks, Bits
<1>1. CASE ~accepts(w, s)
  BY <1>1 DEF afterAccept
<1>2. CASE accepts(w, s) /\ ~w.init
  BY <1>2 DEF afterAccept
<1>3. CASE accepts(w, s) /\ w.init /\ seqGreater(s, w.latest)
  BY <1>3 DEF afterAccept, shiftLeft
<1>4. CASE accepts(w, s) /\ w.init /\ ~seqGreater(s, w.latest)
  <2>1. seqDistance(s, w.latest) - 1 \in Bits
    BY <1>4 DEF accepts, seqDistance
  <2> QED
    BY <1>4, <2>1 DEF afterAccept
<1> QED
  BY <1>1, <1>2, <1>3, <1>4

\* A packet or message accepted once is not accepted again right after: the
\* duplicate is dropped by handleIncoming.
THEOREM AcceptOnce ==
    ASSUME NEW w \in Windows, NEW s \in SeqNums, accepts(w, s)
    PROVE  ~accepts(afterAccept(w, s), s)
<1> USE SeqAssumption DEF Windows, SeqNums, SeqCount, Masks, Bits
<1>1. CASE ~w.init
  BY <1>1 DEF afterAccept, accepts
<1>2. CASE w.init /\ seqGreater(s, w.latest)
  BY <1>2 DEF afterAccept, accepts
<1>3. CASE w.init /\ ~seqGreater(s, w.latest)
  BY <1>3 DEF afterAccept, accepts
<1> QED
  BY <1>1, <1>2, <1>3

\* What accept takes in is acknowledged: the next header reports it delivered.
THEOREM AcceptedIsReported ==
    ASSUME NEW w \in Windows, NEW s \in SeqNums, accepts(w, s)
    PROVE  packetAckState(s, afterAccept(w, s).latest, afterAccept(w, s).mask)
             = "delivered"
<1> USE SeqAssumption DEF Windows, SeqNums, SeqCount, Masks, Bits
<1>1. CASE ~w.init
  BY <1>1 DEF afterAccept, packetAckState
<1>2. CASE w.init /\ seqGreater(s, w.latest)
  BY <1>2 DEF afterAccept, packetAckState
<1>3. CASE w.init /\ ~seqGreater(s, w.latest)
  <2>1. seqGreater(w.latest, s)
    BY <1>3 DEF accepts, seqGreater, seqDistance
  <2> QED
    BY <1>3, <2>1 DEF afterAccept, packetAckState, accepts
<1> QED
  BY <1>1, <1>2, <1>3

\* An initialised window never reports more than was accepted: accepting s
\* makes no other packet look delivered.  (The header of a window that is not
\* initialised does: it reports packet 0.)
THEOREM AckSound ==
    ASSUME NEW w \in Windows, w.init, NEW s \in SeqNums, NEW x \in SeqNums,
           packetAckState(x, afterAccept(w, s).latest, afterAccept(w, s).mask)
             = "delivered"
    PROVE  x = s \/ packetAckState(x, w.latest, w.mask) = "delivered"
<1> USE SeqAssumption DEF Windows, SeqNums, SeqCount, Masks, Bits
<1>1. CASE ~accepts(w, s)
  BY <1>1 DEF afterAccept
<1>2. CASE accepts(w, s) /\ seqGreater(s, w.latest) /\ x # s
  <2> DEFINE delta == seqDistance(w.latest, s)
             back == seqDistance(x, s)
  <2>1. /\ seqGreater(s, x)
        /\ \/ back = delta
           \/ back - 1 - delta \in w.mask /\ back - 1 \in Bits
    <3>1. /\ afterAccept(w, s).latest = s
          /\ afterAccept(w, s).mask
               = shiftLeft(w.mask, delta) \cup ({delta - 1} \cap Bits)
      BY <1>2 DEF afterAccept
    <3>2. seqGreater(s, x) /\ back - 1 \in afterAccept(w, s).mask
      BY <1>2, <3>1 DEF packetAckState
    <3>3. back \in Int /\ delta \in Int
      BY DEF seqDistance
    <3>4. CASE back - 1 \in shiftLeft(w.mask, delta)
      BY <3>2, <3>3, <3>4 DEF shiftLeft
    <3>5. CASE back - 1 \in {delta - 1} \cap Bits
      BY <3>2, <3>3, <3>5
    <3> QED
      BY <3>1, <3>2, <3>4, <3>5
  <2>2. CASE back = delta
    <3>1. x = w.latest
      BY <2>2 DEF seqDistance
    <3> QED
      BY <3>1 DEF packetAckState
  <2>3. CASE back - 1 - delta \in w.mask /\ back - 1 \in Bits
    <3>1. seqDistance(x, w.latest) = back - delta
      BY <2>1, <2>3, <1>2 DEF seqDistance, seqGreater
    <3>2. seqGreater(w.latest, x)
      BY <2>1, <2>3, <3>1, <1>2 DEF seqDistance, seqGreater
    <3>3. seqDistance(x, w.latest) - 1 = back - 1 - delta
      BY <3>1 DEF seqDistance
    <3>4. seqDistance(x, w.latest) - 1 \in w.mask
      BY <2>3, <3>3
    <3> QED
      BY <3>2, <3>4 DEF packetAckState
  <2> QED
    BY <2>1, <2>2, <2>3
<1>3. CASE accepts(w, s) /\ ~seqGreater(s, w.latest) /\ x # s
  <2>1. afterAccept(w, s).latest = w.latest
        /\ afterAccept(w, s).mask
             = w.mask \cup {seqDistance(s, w.latest) - 1}
    BY <1>3 DEF afterAccept
  <2>2. seqDistance(x, w.latest) # seqDistance(s, w.latest)
    BY <1>3 DEF seqDistance
  <2> QED
    BY <1>3, <2>1, <2>2 DEF packetAckState, seqDistance
<1> QED
  BY <1>1, <1>2, <1>3

\* The Go client's window and the server's are the same function except on
\* the one number exactly half the sequence space away, so both ends read an
\* acknowledgement the same way.
THEOREM ClientWindowAgrees ==
    ASSUME NEW w \in Windows, NEW s \in SeqNums,
           w.init => seqDistance(w.latest, s) # HalfRange
    PROVE  /\ acceptsGo(w, s) <=> accepts(w, s)
           /\ w.init => afterAcceptGo(w, s) = afterAccept(w, s)
<1> USE SeqAssumption DEF Windows, SeqNums, SeqCount, Masks, Bits
<1>1. ASSUME w.init PROVE sequenceNewer(s, w.latest) <=> seqGreater(s, w.latest)
  BY <1>1 DEF sequenceNewer, seqGreater, seqDistance
<1>2. acceptsGo(w, s) <=> accepts(w, s)
  BY <1>1 DEF acceptsGo, accepts
<1>3. ASSUME w.init PROVE afterAcceptGo(w, s) = afterAccept(w, s)
  BY <1>1, <1>2, <1>3 DEF afterAcceptGo, afterAccept
<1> QED
  BY <1>2, <1>3

\* The Go client (applyPeerAcksLocked) drops a pending packet exactly when the
\* server's packetAckState calls it delivered.
THEOREM ClientAckAgrees ==
    ASSUME NEW x \in SeqNums, NEW a \in SeqNums, NEW mask \in Masks
    PROVE  ackedGo(x, a, mask) <=> packetAckState(x, a, mask) = "delivered"
<1> USE SeqAssumption DEF SeqNums, SeqCount, Masks, Bits
<1>1. ASSUME seqDistance(x, a) - 1 \in mask
      PROVE  seqGreater(a, x)
  BY <1>1 DEF seqGreater, seqDistance
<1>2. CASE x = a
  BY <1>2 DEF ackedGo, packetAckState
<1>3. CASE x # a /\ seqGreater(a, x)
  BY <1>3 DEF ackedGo, packetAckState
<1>4. CASE x # a /\ ~seqGreater(a, x)
  BY <1>1, <1>4 DEF ackedGo, packetAckState
<1> QED
  BY <1>2, <1>3, <1>4

-----------------------------------------------------------------------------
(* Windows over numbers that do not wrap. *)

\* What a window refuses it refuses for good: a duplicate stays a duplicate.
LEMMA StaysRefused ==
    ASSUME NEW w \in Windows, w.latest < HalfRange, NEW n \in 0 .. HalfRange - 1,
           NEW x \in 0 .. HalfRange - 1, ~accepts(w, x)
    PROVE  ~accepts(afterAccept(w, n), x)
<1> USE SeqAssumption DEF Windows, SeqNums, SeqCount, Masks, Bits
<1> DEFINE l == w.latest
           v == afterAccept(w, n)
<1>0. l \in 0 .. HalfRange - 1 /\ w.init /\ w.mask \subseteq Bits
  BY DEF accepts
<1>1. x <= l /\ (x = l \/ l - x > AckWindow \/ l - x - 1 \in w.mask)
  BY <1>0 DEF accepts, seqGreater, seqDistance
<1>2. CASE ~accepts(w, n)
  BY <1>2 DEF afterAccept
<1>3. CASE accepts(w, n) /\ n > l
  <2>1. seqGreater(n, l) /\ seqDistance(l, n) = n - l
    BY <1>0, <1>3 DEF seqGreater, seqDistance
  <2>2. v.init /\ v.latest = n /\ v.mask = shiftLeft(w.mask, n - l) \cup ({n - l - 1} \cap Bits)
    BY <1>0, <1>3, <2>1 DEF afterAccept
  <2>3. n - x > AckWindow \/ n - x - 1 \in v.mask
    <3>1. CASE x = l
      BY <1>0, <1>3, <2>2, <3>1
    <3>2. CASE l - x > AckWindow
      BY <1>0, <1>3, <3>2
    <3>3. CASE l - x - 1 \in w.mask
      <4>1. (n - x - 1) - (n - l) = l - x - 1
        BY <1>0
      <4>2. CASE n - x - 1 \in Bits
        BY <2>2, <3>3, <4>1, <4>2 DEF shiftLeft
      <4>3. CASE n - x - 1 \notin Bits
        BY <1>0, <1>1, <1>3, <4>3
      <4> QED
        BY <4>2, <4>3
    <3> QED
      BY <1>1, <3>1, <3>2, <3>3
  <2>4. x # n /\ ~seqGreater(x, n) /\ seqDistance(x, n) = n - x
    BY <1>0, <1>1, <1>3 DEF seqGreater, seqDistance
  <2> HIDE DEF v
  <2>5. seqDistance(x, n) - 1 = n - x - 1 /\ n - x \in Int
    BY <2>4
  <2>6. seqDistance(x, n) <= AckWindow => seqDistance(x, n) - 1 \in v.mask
    BY <2>3, <2>4, <2>5
  <2> QED
    BY <2>2, <2>4, <2>6 DEF accepts, v
<1>4. CASE accepts(w, n) /\ n <= l
  <2>1. ~seqGreater(n, l)
    BY <1>0, <1>4 DEF seqGreater
  <2>2. v.init /\ v.latest = l /\ w.mask \subseteq v.mask
    BY <1>0, <1>4, <2>1 DEF afterAccept
  <2> HIDE DEF v
  <2> QED
    BY <1>0, <2>2 DEF accepts, v
<1> QED
  BY <1>0, <1>2, <1>3, <1>4

\* A window refuses what it accepted and what it has moved past, and never moves
\* back.
LEMMA RefusedWasAccepted ==
    ASSUME NEW w \in Windows, w.init \/ w = EmptyWindow, w.latest < HalfRange,
           NEW n \in 0 .. HalfRange - 1
    PROVE  /\ w.latest <= afterAccept(w, n).latest
           /\ \A x \in 0 .. HalfRange - 1 : ~accepts(afterAccept(w, n), x) =>
                 x = n \/ ~accepts(w, x) \/ x + AckWindow < afterAccept(w, n).latest
<1> USE SeqAssumption DEF Windows, SeqNums, SeqCount, Masks, Bits
<1> DEFINE l == w.latest
           v == afterAccept(w, n)
<1>0. l \in 0 .. HalfRange - 1 /\ w.mask \subseteq Bits
  OBVIOUS
<1>1. CASE ~accepts(w, n)
  BY <1>1 DEF afterAccept
<1>2. CASE ~w.init
  <2>1. v.init /\ v.latest = n /\ v.mask = {} /\ l = 0
    BY <1>2 DEF afterAccept, accepts, EmptyWindow
  <2> HIDE DEF v
  <2>2. ASSUME NEW x \in 0 .. HalfRange - 1
        PROVE  x = n \/ seqGreater(x, n) \/ seqDistance(x, n) <= AckWindow \/ x + AckWindow < n
    BY DEF seqGreater, seqDistance
  <2> QED
    BY <1>0, <2>1, <2>2 DEF accepts, v
<1>3. CASE accepts(w, n) /\ w.init /\ n > l
  <2>1. seqGreater(n, l) /\ seqDistance(l, n) = n - l
    BY <1>0, <1>3 DEF seqGreater, seqDistance
  <2>2. v.init /\ v.latest = n /\ v.mask = shiftLeft(w.mask, n - l) \cup ({n - l - 1} \cap Bits)
    BY <1>0, <1>3, <2>1 DEF afterAccept
  <2>3. ASSUME NEW x \in 0 .. HalfRange - 1, ~accepts(v, x), x # n, ~(x + AckWindow < v.latest)
        PROVE  ~accepts(w, x)
    <3>1. x < n /\ n - x - 1 \in v.mask
      <4>1. ~seqGreater(x, n) /\ (seqDistance(x, n) > AckWindow \/ seqDistance(x, n) - 1 \in v.mask)
        <5> HIDE DEF v
        <5>1. seqDistance(x, n) \in Int
          BY DEF seqDistance
        <5> QED
          BY <2>2, <2>3, <5>1 DEF accepts, v
      <4>2. x < n /\ seqDistance(x, n) = n - x
        BY <2>3, <4>1 DEF seqGreater, seqDistance
      <4>3. ~(x + AckWindow < n)
        BY <2>2, <2>3
      <4> HIDE DEF v
      <4>4. seqDistance(x, n) <= AckWindow
        BY <4>2, <4>3
      <4> QED
        BY <4>1, <4>2, <4>4
    <3>2. CASE n - x - 1 \in shiftLeft(w.mask, n - l)
      <4>1. (n - x - 1) - (n - l) = l - x - 1
        BY <1>0
      <4>2. l - x - 1 \in w.mask
        BY <3>2, <4>1 DEF shiftLeft
      <4>3. x # l /\ ~seqGreater(x, l) /\ seqDistance(x, l) = l - x
        BY <1>0, <4>2 DEF seqGreater, seqDistance
      <4> QED
        BY <1>3, <4>2, <4>3 DEF accepts
    <3>3. CASE n - x - 1 \in {n - l - 1} \cap Bits
      <4>1. n - x - 1 = n - l - 1
        BY <3>3
      <4>2. x = l
        BY <1>0, <4>1
      <4> QED
        BY <1>3, <4>2 DEF accepts
    <3> QED
      BY <2>2, <3>1, <3>2, <3>3
  <2> QED
    BY <1>3, <2>2, <2>3
<1>4. CASE accepts(w, n) /\ w.init /\ n <= l
  <2>1. ~seqGreater(n, l) /\ n # l /\ seqDistance(n, l) = l - n
    BY <1>0, <1>4 DEF seqGreater, accepts, seqDistance
  <2>2. v.init /\ v.latest = l /\ v.mask = w.mask \cup {l - n - 1}
    BY <1>0, <1>4, <2>1 DEF afterAccept
  <2>3. ASSUME NEW x \in 0 .. HalfRange - 1, ~accepts(v, x) PROVE x = n \/ ~accepts(w, x)
    <3>1. seqDistance(x, l) - 1 = l - n - 1 => x = n
      BY <1>0, <1>4 DEF seqDistance
    <3> HIDE DEF v
    <3> QED
      BY <1>0, <1>4, <2>2, <2>3, <3>1 DEF accepts, v
  <2> QED
    BY <1>0, <2>2, <2>3
<1> QED
  BY <1>0, <1>1, <1>2, <1>3, <1>4

\* The two implementations of the window agree on numbers that do not wrap.
LEMMA SmallWindows ==
    ASSUME NEW w \in Windows, w.init \/ w = EmptyWindow, w.latest < HalfRange,
           NEW n \in 0 .. HalfRange - 1
    PROVE  (acceptsGo(w, n) <=> accepts(w, n)) /\ afterAcceptGo(w, n) = afterAccept(w, n)
<1>1. n \in SeqNums /\ w.latest \in 0 .. HalfRange - 1
  BY SeqAssumption DEF SeqNums, SeqCount, Windows
<1>2. seqDistance(w.latest, n) # HalfRange
  BY <1>1, SeqAssumption DEF seqDistance, SeqCount
<1>3. CASE w.init
  BY <1>1, <1>2, <1>3, ClientWindowAgrees
<1>4. CASE ~w.init
  <2>1. acceptsGo(w, n) /\ accepts(w, n) /\ w.mask = {}
    BY <1>4 DEF EmptyWindow, acceptsGo, accepts
  <2> QED
    BY <1>4, <2>1 DEF afterAcceptGo, afterAccept
<1> QED
  BY <1>3, <1>4

\* Accepting s reports nothing else as delivered, whether or not it is the
\* first number.
LEMMA ReportsNothingElse ==
    ASSUME NEW w \in Windows, w.init \/ w = EmptyWindow, NEW s \in SeqNums, NEW x \in SeqNums,
           packetAckState(x, afterAccept(w, s).latest, afterAccept(w, s).mask) = "delivered"
    PROVE  x = s \/ packetAckState(x, w.latest, w.mask) = "delivered"
<1>1. CASE w.init
  BY <1>1, AckSound
<1>2. CASE ~w.init
  <2>1. afterAccept(w, s).latest = s /\ afterAccept(w, s).mask = {}
    BY <1>2 DEF afterAccept, accepts
  <2> QED
    BY <2>1 DEF packetAckState
<1> QED
  BY <1>1, <1>2

\* The latest number of a window is one that it accepted.
LEMMA LatestAfter ==
    ASSUME NEW w \in Windows, NEW s \in SeqNums
    PROVE  afterAccept(w, s).latest \in {w.latest, s} /\ afterAccept(w, s).init
<1>1. CASE ~accepts(w, s)
  BY <1>1 DEF afterAccept, accepts
<1>2. CASE accepts(w, s)
  BY <1>2 DEF afterAccept, Windows
<1> QED
  BY <1>1, <1>2

-----------------------------------------------------------------------------
(* sequenceWindow against the reference. *)

\* Two true numbers less than half the sequence space apart.
Near(m, n) == m - n < HalfRange /\ n - m < HalfRange

LEMMA WireRange == ASSUME NEW n \in Nat PROVE Wire(n) \in SeqNums
  BY SeqAssumption DEF Wire, SeqNums, SeqCount

\* What the numbers on the wire say about the distance of the true ones.
LEMMA WireDiff ==
    ASSUME NEW m \in Nat, NEW n \in Nat, Near(m, n)
    PROVE  Wire(m) - Wire(n) \in {m - n, m - n + SeqCount, m - n - SeqCount}
<1> DEFINE S == SeqCount
           a == Wire(m)
           b == Wire(n)
<1>0. S \in Nat /\ S > 0 /\ HalfRange \in Nat /\ S = 2 * HalfRange
  BY SeqAssumption DEF SeqCount
<1>1. PICK p \in Int : m = S * p + a
  <2>1. m \div S \in Int /\ m = S * (m \div S) + (m % S)
    BY <1>0
  <2> QED
    BY <2>1 DEF Wire
<1>2. PICK q \in Int : n = S * q + b
  <2>1. n \div S \in Int /\ n = S * (n \div S) + (n % S)
    BY <1>0
  <2> QED
    BY <2>1 DEF Wire
<1>3. a \in 0 .. S - 1 /\ b \in 0 .. S - 1
  BY WireRange DEF SeqNums
<1> HIDE DEF S, a, b
<1>4. m - n < S /\ n - m < S
  BY <1>0 DEF Near
<1>5. ~(p >= q + 2)
  <2> SUFFICES ASSUME p >= q + 2 PROVE FALSE
    OBVIOUS
  <2>1. S * p >= S * q + 2 * S
    BY <1>0
  <2>2. S * p \in Int /\ S * q \in Int
    BY <1>0
  <2> QED
    BY <1>0, <1>1, <1>2, <1>3, <1>4, <2>1, <2>2
<1>6. ~(q >= p + 2)
  <2> SUFFICES ASSUME q >= p + 2 PROVE FALSE
    OBVIOUS
  <2>1. S * q >= S * p + 2 * S
    BY <1>0
  <2>2. S * p \in Int /\ S * q \in Int
    BY <1>0
  <2> QED
    BY <1>0, <1>1, <1>2, <1>3, <1>4, <2>1, <2>2
<1>7. S * (q + 1) = S * q + S /\ S * (q - 1) = S * q - S /\ S * q \in Int
  BY <1>0
<1>8. CASE p = q
  BY <1>0, <1>1, <1>2, <1>3, <1>7, <1>8 DEF S, a, b
<1>9. CASE p = q + 1
  BY <1>0, <1>1, <1>2, <1>3, <1>7, <1>9 DEF S, a, b
<1>10. CASE p = q - 1
  BY <1>0, <1>1, <1>2, <1>3, <1>7, <1>10 DEF S, a, b
<1> QED
  BY <1>5, <1>6, <1>8, <1>9, <1>10

\* The comparison and the distance of sequence numbers are those of the true
\* numbers while these are near.
LEMMA WireCompares ==
    ASSUME NEW m \in Nat, NEW n \in Nat, Near(m, n)
    PROVE  /\ Wire(m) = Wire(n) <=> m = n
           /\ seqGreater(Wire(m), Wire(n)) <=> m > n
           /\ m <= n => seqDistance(Wire(m), Wire(n)) = n - m
           /\ m > n => seqDistance(Wire(m), Wire(n)) = n - m + SeqCount
<1> USE SeqAssumption DEF SeqCount, Near
<1>1. Wire(m) - Wire(n) \in {m - n, m - n + SeqCount, m - n - SeqCount}
  BY WireDiff
<1>2. Wire(m) \in 0 .. SeqCount - 1 /\ Wire(n) \in 0 .. SeqCount - 1
  BY WireRange DEF SeqNums
<1> DEFINE a == Wire(m)
           b == Wire(n)
<1> HIDE DEF a, b
<1>3. a - b = m - n \/ a - b = m - n + SeqCount \/ a - b = m - n - SeqCount
  BY <1>1 DEF a, b
<1>4. a \in 0 .. SeqCount - 1 /\ b \in 0 .. SeqCount - 1
  BY <1>2 DEF a, b
<1>5. a = b <=> m = n
  BY <1>3, <1>4
<1>6. seqGreater(a, b) <=> m > n
  BY <1>3, <1>4 DEF seqGreater
<1>7. m <= n => seqDistance(a, b) = n - m
  BY <1>3, <1>4 DEF seqDistance
<1>8. m > n => seqDistance(a, b) = n - m + SeqCount
  BY <1>3, <1>4 DEF seqDistance
<1> QED
  BY <1>5, <1>6, <1>7, <1>8 DEF a, b

-----------------------------------------------------------------------------
\* The mask holds the accepted numbers just below the newest one.
ReferenceInv ==
    /\ window \in Windows /\ newest \in Nat /\ got \subseteq Nat
    /\ window.init <=> got # {}
    /\ window.init =>
          /\ window.latest = Wire(newest) /\ newest \in got
          /\ \A n \in got : n <= newest
          /\ \A b \in Bits : b \in window.mask <=> newest - 1 - b \in got

\* The window decides as the reference on a number that is near.
LEMMA Decides ==
    ASSUME ReferenceInv, NEW n \in Nat, got = {} \/ Near(n, newest)
    PROVE  accepts(window, Wire(n)) <=> ReferenceAccepts(n)
<1>1. CASE got = {}
  BY <1>1 DEF ReferenceInv, accepts, ReferenceAccepts
<1>2. CASE got # {}
  <2>0. /\ newest \in Nat /\ newest \in got /\ window.init /\ window.latest = Wire(newest)
        /\ \A g \in got : g <= newest
        /\ \A b \in Bits : b \in window.mask <=> newest - 1 - b \in got
        /\ window.mask \subseteq Bits /\ HalfRange \in Nat /\ AckWindow \in Nat
        /\ AckWindow < HalfRange /\ SeqCount = 2 * HalfRange
    BY <1>2, SeqAssumption DEF ReferenceInv, Windows, Masks, SeqCount
  <2>1. /\ Wire(n) = Wire(newest) <=> n = newest
        /\ seqGreater(Wire(n), Wire(newest)) <=> n > newest
        /\ n <= newest => seqDistance(Wire(n), Wire(newest)) = newest - n
        /\ n - newest < HalfRange /\ newest - n < HalfRange
    BY <1>2, <2>0, WireCompares DEF Near
  <2>2. CASE n > newest
    <3>1. accepts(window, Wire(n))
      BY <2>0, <2>1, <2>2 DEF accepts
    <3>2. n \notin got /\ n >= newest - AckWindow
      BY <2>0, <2>2
    <3> QED
      BY <3>1, <3>2 DEF ReferenceAccepts
  <2>3. CASE n = newest
    <3>1. ~accepts(window, Wire(n))
      BY <2>0, <2>1, <2>3 DEF accepts
    <3> QED
      BY <1>2, <2>0, <2>3, <3>1 DEF ReferenceAccepts
  <2>4. CASE n < newest
    <3>1. accepts(window, Wire(n)) <=>
             newest - n <= AckWindow /\ newest - n - 1 \notin window.mask
      BY <2>0, <2>1, <2>4 DEF accepts
    <3>2. newest - n <= AckWindow => newest - n - 1 \in Bits /\ newest - 1 - (newest - n - 1) = n
      BY <2>0, <2>4 DEF Bits
    <3>3. newest - n <= AckWindow => (newest - n - 1 \in window.mask <=> n \in got)
      BY <2>0, <3>2
    <3>4. newest - n <= AckWindow <=> n >= newest - AckWindow
      BY <2>0
    <3> QED
      BY <1>2, <3>1, <3>3, <3>4 DEF ReferenceAccepts
  <2> QED
    BY <2>0, <2>2, <2>3, <2>4
<1> QED
  BY <1>1, <1>2

\* A packet arrives.
LEMMA ArriveKeeps ==
    ASSUME ReferenceInv, NEW n \in Nat, Arrive(n)
    PROVE  ReferenceInv'
<1> DEFINE w == Wire(n)
<1>0. /\ window' = afterAccept(window, w)
      /\ got' = IF accepts(window, w) THEN got \cup {n} ELSE got
      /\ newest' = IF got = {} \/ n > newest THEN n ELSE newest
      /\ got = {} \/ Near(n, newest)
      /\ w \in SeqNums
  BY WireRange DEF Arrive, Near
<1>1. accepts(window, w) <=> ReferenceAccepts(n)
  BY <1>0, Decides
<1>2. /\ newest \in Nat /\ got \subseteq Nat /\ window \in Windows
      /\ window.mask \subseteq Bits /\ window.latest \in SeqNums
      /\ HalfRange \in Nat /\ AckWindow \in Nat /\ 0 < AckWindow /\ AckWindow < HalfRange
  BY SeqAssumption DEF ReferenceInv, Windows, Masks
<1>3. CASE got = {}
  <2>1. /\ accepts(window, w) /\ ~window.init /\ got' = {n} /\ newest' = n
        /\ window' = [init |-> TRUE, latest |-> w, mask |-> {}]
    BY <1>0, <1>1, <1>3 DEF ReferenceInv, ReferenceAccepts, afterAccept
  <2>2. \A b \in Bits : n - 1 - b # n
    BY DEF Bits
  <2> QED
    BY <1>0, <2>1, <2>2 DEF ReferenceInv, Windows, Masks
<1>4. CASE got # {}
  <2>0. /\ newest \in got /\ window.init /\ window.latest = Wire(newest)
        /\ \A g \in got : g <= newest
        /\ \A b \in Bits : b \in window.mask <=> newest - 1 - b \in got
    BY <1>4 DEF ReferenceInv
  <2>1. /\ Wire(n) = Wire(newest) <=> n = newest
        /\ seqGreater(Wire(n), Wire(newest)) <=> n > newest
        /\ n <= newest => seqDistance(Wire(n), Wire(newest)) = newest - n
        /\ newest <= n => seqDistance(Wire(newest), Wire(n)) = n - newest
    <3>1. Near(n, newest) /\ Near(newest, n)
      BY <1>0, <1>2, <1>4 DEF Near
    <3> QED
      BY <1>2, <3>1, WireCompares
  <2>2. CASE ~accepts(window, w)
    <3>1. window' = window /\ got' = got
      BY <1>0, <2>2 DEF afterAccept
    <3>2. n <= newest
      <4>1. n > newest => n \notin got /\ n >= newest - AckWindow
        BY <1>2, <2>0
      <4> QED
        BY <1>1, <1>2, <2>2, <4>1 DEF ReferenceAccepts
    <3>3. newest' = newest
      <4>1. ~(n > newest)
        BY <1>2, <3>2
      <4> QED
        BY <1>0, <1>4, <4>1
    <3> QED
      BY <3>1, <3>3 DEF ReferenceInv
  <2>3. CASE accepts(window, w) /\ n > newest
    <3> DEFINE d == n - newest
               mask == shiftLeft(window.mask, d) \cup ({d - 1} \cap Bits)
    <3>0. d \in Nat /\ d > 0
      BY <1>2, <2>3
    <3>1. window' = [window EXCEPT !.latest = w, !.mask = mask] /\ got' = got \cup {n} /\ newest' = n
      <4>1. seqDistance(window.latest, w) = d /\ seqGreater(w, window.latest)
        BY <1>2, <2>0, <2>1, <2>3
      <4>2. window' = [window EXCEPT !.latest = w, !.mask = mask]
        BY <1>0, <2>0, <2>3, <4>1 DEF afterAccept
      <4> QED
        BY <1>0, <2>3, <4>2
    <3>2. mask \subseteq Bits
      BY DEF shiftLeft
    <3>3. ASSUME NEW b \in Bits PROVE b \in mask <=> n - 1 - b \in got \cup {n}
      <4>0. b \in Nat /\ b < AckWindow
        BY <1>2 DEF Bits
      <4>1. n - 1 - b # n
        BY <4>0
      <4>2. CASE b >= d
        <5>1. b - d \in Bits /\ newest - 1 - (b - d) = n - 1 - b
          BY <1>2, <3>0, <4>0, <4>2 DEF Bits
        <5>2. b - d \in window.mask <=> n - 1 - b \in got
          BY <2>0, <5>1
        <5>3. b # d - 1
          BY <3>0, <4>0, <4>2
        <5> QED
          BY <4>1, <5>2, <5>3 DEF shiftLeft
      <4>3. CASE b = d - 1
        <5>1. n - 1 - b = newest
          BY <1>2, <4>3
        <5> QED
          BY <2>0, <4>3, <5>1
      <4>4. CASE b < d - 1
        <5>1. n - 1 - b > newest /\ n - 1 - b \in Int
          BY <1>2, <4>0, <4>4
        <5>2. n - 1 - b \notin got
          BY <1>2, <2>0, <5>1
        <5>3. b - d \notin Bits
          BY <3>0, <4>0, <4>4 DEF Bits
        <5> QED
          BY <1>2, <4>1, <4>4, <5>2, <5>3, <3>0, <4>0 DEF shiftLeft
      <4> QED
        BY <3>0, <4>0, <4>2, <4>3, <4>4
    <3> HIDE DEF mask, w
    <3>4. /\ window' \in Windows /\ window'.init = window.init /\ window'.latest = w
          /\ window'.mask = mask
      BY <1>0, <1>2, <3>1, <3>2 DEF Windows, Masks
    <3>5. \A g \in got' : g <= newest'
      BY <1>2, <2>0, <2>3, <3>1
    <3>6. window'.latest = Wire(newest') /\ newest' \in got' /\ got' # {}
      BY <3>1, <3>4 DEF w
    <3> QED
      BY <1>2, <2>0, <3>1, <3>3, <3>4, <3>5, <3>6 DEF ReferenceInv
  <2>4. CASE accepts(window, w) /\ n <= newest
    <3> DEFINE d == newest - n
    <3>1. /\ n \notin got /\ n >= newest - AckWindow
      BY <1>1, <1>4, <2>4 DEF ReferenceAccepts
    <3>2. d \in Nat /\ d > 0 /\ d <= AckWindow /\ d - 1 \in Bits
      BY <1>2, <2>0, <2>4, <3>1 DEF Bits
    <3>3. window' = [window EXCEPT !.mask = window.mask \cup {d - 1}] /\ got' = got \cup {n}
          /\ newest' = newest
      <4>1. seqDistance(w, window.latest) = d /\ ~seqGreater(w, window.latest)
        BY <1>2, <2>0, <2>1, <2>4
      <4>2. window' = [window EXCEPT !.mask = window.mask \cup {d - 1}]
        BY <1>0, <2>0, <2>4, <4>1 DEF afterAccept
      <4> QED
        BY <1>0, <1>2, <1>4, <2>4, <4>2
    <3>4. ASSUME NEW b \in Bits
          PROVE  b \in window.mask \cup {d - 1} <=> newest - 1 - b \in got \cup {n}
      <4>1. newest - 1 - b = n <=> b = d - 1
        BY <1>2 DEF Bits
      <4> QED
        BY <2>0, <4>1
    <3>5. /\ window' \in Windows /\ window'.init = window.init /\ window'.latest = window.latest
          /\ window'.mask = window.mask \cup {d - 1}
      BY <1>2, <3>2, <3>3 DEF Windows, Masks
    <3>6. \A g \in got' : g <= newest'
      BY <1>2, <2>0, <2>4, <3>3
    <3> QED
      BY <1>2, <2>0, <3>3, <3>4, <3>5, <3>6 DEF ReferenceInv
  <2> QED
    BY <1>2, <2>2, <2>3, <2>4
<1> QED
  BY <1>3, <1>4

\* The inductive invariant of the window.
THEOREM WindowInvariant == SpecWindow => []ReferenceInv
<1>1. InitWindow => ReferenceInv
  BY SeqAssumption DEF InitWindow, ReferenceInv, EmptyWindow, Windows, Masks, SeqNums, SeqCount
<1>2. ReferenceInv /\ [NextArrival]_windowVars => ReferenceInv'
  <2> SUFFICES ASSUME ReferenceInv, [NextArrival]_windowVars PROVE ReferenceInv'
    OBVIOUS
  <2>1. CASE UNCHANGED windowVars
    BY <2>1 DEF windowVars, ReferenceInv
  <2>2. ASSUME NEW n \in 0 .. MaxNumber, Arrive(n) PROVE ReferenceInv'
    BY <2>2, ArriveKeeps, MaxNumberAssumption
  <2> QED
    BY <2>1, <2>2 DEF NextArrival
<1> QED
  BY <1>1, <1>2, PTL DEF SpecWindow

\* What the acknowledgement says of a near number.
LEMMA AckExact ==
    ASSUME ReferenceInv, window.init, NEW n \in Nat, Near(n, newest)
    PROVE  packetAckState(Wire(n), window.latest, window.mask) =
               IF n > newest THEN "pending"
               ELSE IF n \in got /\ n >= newest - AckWindow THEN "delivered" ELSE "lost"
<1>0. /\ newest \in Nat /\ newest \in got /\ window.latest = Wire(newest)
      /\ \A b \in Bits : b \in window.mask <=> newest - 1 - b \in got
      /\ window.mask \subseteq Bits /\ AckWindow \in Nat /\ 0 < AckWindow /\ HalfRange \in Nat
  BY SeqAssumption DEF ReferenceInv, Windows, Masks
<1>1. /\ Wire(n) = Wire(newest) <=> n = newest
      /\ seqGreater(Wire(newest), Wire(n)) <=> newest > n
      /\ n <= newest => seqDistance(Wire(n), Wire(newest)) = newest - n
  <2>1. Near(n, newest) /\ Near(newest, n)
    BY <1>0 DEF Near
  <2> QED
    BY <1>0, <2>1, WireCompares
<1>2. CASE n > newest
  BY <1>0, <1>1, <1>2 DEF packetAckState
<1>3. CASE n = newest
  BY <1>0, <1>1, <1>3 DEF packetAckState
<1>4. CASE n < newest
  <2>1. packetAckState(Wire(n), window.latest, window.mask) =
            IF newest - n - 1 \in window.mask THEN "delivered" ELSE "lost"
    BY <1>0, <1>1, <1>4 DEF packetAckState
  <2>2. newest - n - 1 \in Bits <=> n >= newest - AckWindow
    BY <1>0, <1>4 DEF Bits
  <2>3. newest - 1 - (newest - n - 1) = n
    BY <1>0
  <2>4. newest - n - 1 \in window.mask <=> n \in got /\ n >= newest - AckWindow
    BY <1>0, <2>2, <2>3
  <2> QED
    BY <1>0, <1>4, <2>1, <2>4
<1> QED
  BY <1>0, <1>2, <1>3, <1>4

\* Across any number of wraparounds the window accepts and acknowledges what
\* the reference on unbounded numbers does.
THEOREM WindowIsExact == SpecWindow => []WindowExact
<1>1. ReferenceInv => WindowExact
  <2> SUFFICES ASSUME ReferenceInv PROVE DecidesAsReference /\ AckIsExact
    BY DEF WindowExact
  <2>1. ASSUME NEW n \in 0 .. MaxNumber PROVE n \in Nat
    BY MaxNumberAssumption
  <2>2. DecidesAsReference
    BY <2>1, Decides DEF DecidesAsReference, Near
  <2>3. AckIsExact
    BY <2>1, AckExact DEF AckIsExact, Near
  <2> QED
    BY <2>2, <2>3
<1> QED
  BY <1>1, WindowInvariant, PTL

-----------------------------------------------------------------------------
(* Packets and acknowledgements. *)

\* The peer has taken q in.
Handled(e, q) ==
    /\ q.kind \in Lanes => q.id \in received[e]
    /\ q.kind = "eventual" => q.id \in gotTokens

\* What a header made by e acknowledges was taken in, packet 0 apart.
AckOK(e, ackSeq, ackMask) ==
    /\ ackSeq = 0 \/ ackSeq < nextPacketSeq[Peer(e)]
    /\ \A q \in net :
          /\ q.to = e /\ q.seq # 0 /\ q.seq < SeqCount
          /\ packetAckState(q.seq, ackSeq, ackMask) = "delivered"
          => Handled(e, q)

NetInv ==
    /\ \A p \in net :
          /\ (p.seq = SeqCount /\ p.kind = "ack") \/ p.seq < nextPacketSeq[Peer(p.to)]
          /\ AckOK(Peer(p.to), p.ackSeq, p.ackMask)
    /\ \A p, q \in net : p.to = q.to /\ p.seq = q.seq /\ p.seq # SeqCount => p = q

WindowInv(e) ==
    /\ AckOK(e, recvPackets[e].latest, recvPackets[e].mask)
    /\ recvPackets[e].init \/ recvPackets[e] = EmptyWindow
    /\ recvReliableMsgs[e].init \/ recvReliableMsgs[e] = EmptyWindow
    /\ recvReliableMsgs[e].latest < HalfRange

-----------------------------------------------------------------------------
(* Messages and their numbers. *)

\* The messages in the queue of e, and those in packets on their way to e.
Queued(e) == {[id |-> m.id, lane |-> m.lane, seq |-> m.orderedSeq] : m \in pending[e]}
Carried(e) == {[id |-> p.id, lane |-> p.kind, seq |-> p.orderedSeq] :
                  p \in {q \in net : q.to = e /\ q.kind \in Lanes}}
Numbered(e) == Queued(e) \cup Carried(Peer(e))

NumberInv(e) ==
    /\ \A a \in Numbered(e) :
          /\ a.id < nextMessageID[e]
          /\ IF a.lane = "ordered" THEN a.seq < nextOrderedSeq[e] ELSE a.seq = 0
    /\ \A a, b \in Numbered(e) :
          \/ a.id = b.id
          \/ a.lane = "ordered" /\ b.lane = "ordered" /\ a.seq = b.seq
          => a = b
    /\ nextOrderedSeq[e] <= scenario.messages[e]["ordered"]
    /\ nextOrderedSeq[e] <= nextMessageID[e]
    /\ nextMessageID[e] - nextOrderedSeq[e] <= scenario.messages[e]["unordered"]

\* A message that was sent is in the packet it was last sent in.
SentInv(e) ==
    \A m \in pending[e] : m.last # 0 =>
        \E q \in net : q.to = Peer(e) /\ q.seq = m.last /\ q.kind \in Lanes /\ q.id = m.id

-----------------------------------------------------------------------------
(* Deliveries. *)

OrderedIn(d) == {i \in 1 .. Len(d) : d[i].lane = "ordered"}

\* DeliveredOnce and OrderedDelivery of one sequence of deliveries.
Once(d) == \A i, j \in 1 .. Len(d) : d[i].id = d[j].id => i = j

InOrder(d, startsAnywhere) ==
    \A i \in OrderedIn(d) :
        /\ \A j \in OrderedIn(d) : i < j /\ (\A k \in OrderedIn(d) : k <= i \/ j <= k)
              => d[j].seq = d[i].seq + 1
        /\ (\A k \in OrderedIn(d) : i <= k) /\ ~startsAnywhere => d[i].seq = 0

\* Ordered messages were delivered up to the one before next.
Behind(d, next) ==
    \A i \in OrderedIn(d) :
        /\ d[i].seq < next
        /\ (\A k \in OrderedIn(d) : k <= i) => d[i].seq + 1 = next

\* An ordered receiver o that delivered d: what it buffers came in a packet and
\* is not behind the next one to expect.
OrderInv(e, d, o) ==
    /\ \A b \in o.pending :
          [id |-> b.id, lane |-> "ordered", seq |-> b.seq] \in Carried(e) /\ b.seq >= o.nextSeq
    /\ \A b, c \in o.pending : b.seq = c.seq => b = c
    /\ IsFiniteSet(o.pending) /\ o.nextSeq <= HalfRange
    /\ Behind(d, o.nextSeq)
    /\ Kind(e) # "go" /\ OrderedIn(d) = {} => o.nextSeq = 0

\* What is delivered came in a packet; the window refuses what was delivered
\* unordered from then on.
DeliveredInv(e) ==
    LET d == delivered[e]
        o == orderedRecv[e]
    IN  /\ \A i \in 1 .. Len(d) : d[i] \in Carried(e)
        /\ OrderInv(e, d, o)
        /\ Kind(e) = "go" /\ ~o.started => OrderedIn(d) = {} /\ o.pending = {}
        /\ \A i \in 1 .. Len(d) : d[i].lane = "unordered" => ~accepts(recvReliableMsgs[e], d[i].id)

-----------------------------------------------------------------------------
(* State tokens. *)

TokenInv ==
    /\ \A i \in 1 .. Len(pendingEventual) : pendingEventual[i] < nextToken
    /\ \A i, j \in 1 .. Len(pendingEventual) : pendingEventual[i] = pendingEventual[j] => i = j
    /\ \A f \in inFlightEventual :
          /\ f.token < nextToken
          /\ \A i \in 1 .. Len(pendingEventual) : f.token # pendingEventual[i]
          /\ \A g \in inFlightEventual : f.token = g.token => f = g
          /\ \E q \in net : q.to = "client" /\ q.seq = f.packet /\ q.kind = "eventual" /\ q.id = f.token
    /\ \A f \in eventualFeedback : f.token < nextToken

LinkInv ==
    /\ NetInv
    /\ \A e \in Ends : WindowInv(e) /\ NumberInv(e) /\ SentInv(e) /\ DeliveredInv(e)
    /\ TokenInv
    /\ DeliveredOnce /\ OrderedDelivery /\ PrunedWasReceived /\ VerdictsSound

-----------------------------------------------------------------------------
(* Nothing that was received is lost, but for what the window moved past. *)

\* x was delivered among D, or a window whose latest number is l moved past it.
Known(D, l, x) == (\E i \in 1 .. Len(D) : D[i].id = x) \/ x + AckWindow < l

\* The ordered receiver expects what follows all it delivered, and the window
\* refuses only what was delivered and what it moved past.
ArrivedInv(e) ==
    Kind(e) # "go" =>
        /\ \A n \in 0 .. orderedRecv[e].nextSeq - 1 :
              \E i \in OrderedIn(delivered[e]) : delivered[e][i].seq = n
        /\ \A x \in 0 .. HalfRange - 1 : ~accepts(recvReliableMsgs[e], x) =>
              Known(delivered[e], recvReliableMsgs[e].latest, x)

-----------------------------------------------------------------------------
USE DEF Ends, Lanes

LEMMA Peers ==
    ASSUME NEW e \in Ends
    PROVE  Peer(e) \in Ends /\ Peer(e) # e /\ Peer(Peer(e)) = e /\ \A f \in Ends : f # e => f = Peer(e)
  BY DEF Peer

\* A non-empty bounded set of numbers has a greatest element.
LEMMA Greatest ==
    ASSUME NEW n \in Nat, NEW S \in SUBSET (0 .. n), S # {}
    PROVE  \E x \in S : \A y \in S : y <= x
<1> DEFINE T == {y \in 0 .. n : \E x \in S : y <= x}
           g == [y \in T |-> y + 1]
<1>1. IsFiniteSet(T) /\ Cardinality(T) = Cardinality(T)
  <2>1. IsFiniteSet(0 .. n)
    BY FS_Interval
  <2> QED
    BY <2>1, FS_Subset
<1>2. 0 \in T
  <2>1. PICK x \in S : x \in 0 .. n
    OBVIOUS
  <2>2. 0 \in 0 .. n /\ 0 <= x
    BY <2>1
  <2> QED
    BY <2>2
<1>3. \E y \in T : y + 1 \notin T
  <2> SUFFICES ASSUME \A y \in T : y + 1 \in T PROVE FALSE
    OBVIOUS
  <2>1. \A y \in T : y \in Nat
    OBVIOUS
  <2> HIDE DEF T
  <2>2. g \in Injection(T, T)
    BY <2>1 DEF Injection, IsInjective
  <2>3. g \in Surjection(T, T)
    BY <1>1, <2>2, FS_Injection
  <2>4. PICK y \in T : g[y] = 0
    BY <1>2, <2>3 DEF Surjection
  <2> QED
    BY <2>1, <2>4
<1>4. PICK y \in T : y + 1 \notin T
  BY <1>3
<1>5. PICK x \in S : y <= x
  BY <1>4
<1>6. \A z \in S : z <= y
  BY <1>4
<1> QED
  BY <1>5, <1>6

\* Numbers below HalfRange compare as they are.
LEMMA SmallNumbers ==
    ASSUME NEW a \in 0 .. HalfRange - 1, NEW b \in 0 .. HalfRange - 1
    PROVE  /\ a \in SeqNums /\ (seqGreater(a, b) <=> a > b)
           /\ a <= b => seqDistance(a, b) = b - a
           /\ seqDistance(a, b) # HalfRange /\ seqDistance(a, b) \in Int
  BY SeqAssumption DEF SeqNums, SeqCount, seqGreater, seqDistance

\* What the bounds of a scenario are.
LEMMA ScenarioFacts ==
    ASSUME scenario \in Scenarios
    PROVE  /\ scenario.packets \in 1 .. HalfRange /\ scenario.client \in {"go", "js"}
           /\ \A e \in Ends :
                 /\ scenario.messages[e]["ordered"] \in Nat
                 /\ scenario.messages[e]["unordered"] \in Nat
                 /\ scenario.messages[e]["ordered"] + scenario.messages[e]["unordered"] <= HalfRange
<1>1. scenario \in ScenarioType
  BY LinkAssumption
<1>2. \A e \in Ends : scenario.messages[e] \in [Lanes -> Nat]
  BY <1>1 DEF ScenarioType
<1> QED
  BY <1>1, <1>2, LinkAssumption DEF ScenarioType

\* A header acknowledges no packet that is still to be sent.
LEMMA NotYetSent ==
    ASSUME NEW n \in 1 .. HalfRange - 1, NEW a \in Nat, a < n, NEW mask
    PROVE  packetAckState(n, a, mask) = "pending"
<1>1. a \in 0 .. HalfRange - 1 /\ n \in 0 .. HalfRange - 1 /\ HalfRange \in Nat
  BY SeqAssumption
<1>2. ~seqGreater(a, n)
  BY <1>1, SmallNumbers
<1> QED
  BY <1>1, <1>2 DEF packetAckState

\* What a header says stays true when a packet is sent.
LEMMA AckKeeps ==
    ASSUME nextPacketSeq \in [Ends -> 0 .. HalfRange], NEW f \in Ends, NEW a \in SeqNums, NEW mask,
           AckOK(f, a, mask),
           nextPacketSeq'[Peer(f)] \in {nextPacketSeq[Peer(f)], nextPacketSeq[Peer(f)] + 1},
           \A e \in Ends : received[e] \subseteq received'[e], gotTokens \subseteq gotTokens',
           \A q \in net' : \/ q \in net
                           \/ q.to # f \/ q.seq = SeqCount
                           \/ q.seq = nextPacketSeq[Peer(f)] /\ q.seq < HalfRange
    PROVE  AckOK(f, a, mask)'
<1>0. /\ nextPacketSeq[Peer(f)] \in Nat /\ a \in Nat /\ HalfRange \in Nat
  BY SeqAssumption, Peers DEF SeqNums, SeqCount
<1>1. a = 0 \/ a < nextPacketSeq'[Peer(f)]
  BY <1>0 DEF AckOK
<1>2. ASSUME NEW q \in net', q.to = f, q.seq # 0, q.seq < SeqCount,
             packetAckState(q.seq, a, mask) = "delivered"
      PROVE  Handled(f, q)'
  <2>1. CASE q \in net
    BY <1>2, <2>1 DEF AckOK, Handled
  <2>2. CASE q \notin net
    <3>1. q.seq = nextPacketSeq[Peer(f)] /\ q.seq < HalfRange
      BY <1>2, <2>2, SeqAssumption DEF SeqCount
    <3>2. q.seq \in 1 .. HalfRange - 1 /\ a < q.seq
      BY <1>0, <1>2, <3>1 DEF AckOK
    <3>3. packetAckState(q.seq, a, mask) = "pending"
      BY <1>0, <3>2, NotYetSent
    <3> QED
      BY <1>2, <3>3
  <2> QED
    BY <2>1, <2>2
<1> QED
  BY <1>1, <1>2 DEF AckOK

\* The facts of TypeOK and LinkInv about one end.
LEMMA EndFacts ==
    ASSUME TypeOK, LinkInv, NEW e \in Ends
    PROVE  /\ nextPacketSeq[e] \in 0 .. HalfRange /\ nextMessageID[e] \in 0 .. HalfRange
           /\ nextOrderedSeq[e] \in 0 .. HalfRange
           /\ recvPackets[e] \in Windows /\ recvReliableMsgs[e] \in Windows
           /\ recvPackets[e].latest \in SeqNums /\ recvPackets[e].mask \in Masks
           /\ pending[e] \subseteq Messages /\ delivered[e] \in Seq(Delivery)
           /\ WindowInv(e) /\ NumberInv(e) /\ SentInv(e) /\ DeliveredInv(e)
<1>1. recvPackets[e] \in Windows
  BY DEF TypeOK
<1> QED
  BY <1>1 DEF TypeOK, LinkInv, Windows

LEMMA PacketFacts ==
    ASSUME TypeOK, LinkInv, NEW p \in net
    PROVE  /\ p \in Packets /\ p.to \in Ends /\ p.seq \in 0 .. SeqCount /\ p.ackSeq \in SeqNums
           /\ p.ackMask \in Masks /\ p.id \in Nat /\ p.orderedSeq \in Nat
           /\ (p.seq = SeqCount /\ p.kind = "ack") \/ p.seq < nextPacketSeq[Peer(p.to)]
           /\ AckOK(Peer(p.to), p.ackSeq, p.ackMask)
<1>1. p \in Packets
  BY DEF TypeOK
<1> QED
  BY <1>1 DEF Packets, LinkInv, NetInv

\* A packet is sent.
LEMMA EmitKeeps ==
    ASSUME TypeOK, LinkInv, NEW e \in Ends, NEW kind \in Lanes \cup {"ack", "unreliable", "eventual"},
           NEW id \in Nat, NEW orderedSeq \in Nat, Emit(e, kind, id, orderedSeq),
           UNCHANGED <<scenario, recvPackets, recvReliableMsgs, received, gotTokens>>
    PROVE  /\ net' = net \cup {NewPacket(e, kind, id, orderedSeq)} /\ net' \subseteq Packets
           /\ nextPacketSeq' \in [Ends -> 0 .. HalfRange] /\ ackDirty' \in [Ends -> BOOLEAN]
           /\ nextPacketSeq[e] < HalfRange
           /\ NetInv' /\ \A f \in Ends : WindowInv(f)'
<1> DEFINE q == NewPacket(e, kind, id, orderedSeq)
           n == nextPacketSeq[e]
<1>0. /\ net' = net \cup {q} /\ nextPacketSeq' = [nextPacketSeq EXCEPT ![e] = NextSeq(n)]
      /\ n < scenario.packets /\ ackDirty' = [ackDirty EXCEPT ![e] = FALSE]
  BY DEF Emit
<1>1. /\ nextPacketSeq \in [Ends -> 0 .. HalfRange] /\ n \in Nat /\ n < HalfRange /\ NextSeq(n) = n + 1
      /\ HalfRange \in Nat /\ n # SeqCount /\ n < SeqCount
  <2>1. scenario.packets \in 1 .. HalfRange
    BY ScenarioFacts DEF TypeOK
  <2>2. nextPacketSeq \in [Ends -> 0 .. HalfRange] /\ n \in 0 .. HalfRange
    BY DEF TypeOK
  <2>3. n < HalfRange /\ HalfRange \in Nat
    BY <1>0, <2>1, <2>2, SeqAssumption
  <2> HIDE DEF n
  <2>4. n # SeqCount - 1 /\ n < SeqCount
    BY <2>2, <2>3 DEF SeqCount
  <2> QED
    BY <2>2, <2>3, <2>4 DEF NextSeq, SeqCount
<1>2. /\ nextPacketSeq' \in [Ends -> 0 .. HalfRange] /\ nextPacketSeq'[e] = n + 1
      /\ \A f \in Ends : f # e => nextPacketSeq'[f] = nextPacketSeq[f]
  <2>1. n + 1 \in 0 .. HalfRange
    BY <1>1
  <2> QED
    BY <1>0, <1>1, <2>1
<1>3. /\ q.to = Peer(e) /\ q.seq = n /\ q.ackSeq = recvPackets[e].latest
      /\ q.ackMask = recvPackets[e].mask /\ q.kind = kind
  BY DEF NewPacket
<1>4. q \in Packets
  <2>1. n \in 0 .. SeqCount /\ Peer(e) \in Ends
    BY <1>1, Peers DEF SeqCount
  <2>2. recvPackets[e].latest \in SeqNums /\ recvPackets[e].mask \in Masks
    BY EndFacts
  <2> QED
    BY <2>1, <2>2 DEF Packets, NewPacket
<1> HIDE DEF q
<1>5. ASSUME NEW f \in Ends, NEW a \in SeqNums, NEW mask, AckOK(f, a, mask)
      PROVE  AckOK(f, a, mask)'
  <2>1. nextPacketSeq'[Peer(f)] \in {nextPacketSeq[Peer(f)], nextPacketSeq[Peer(f)] + 1}
    BY <1>2, Peers
  <2>2. \A p \in net' : p \in net \/ p.to # f \/ (p.seq = nextPacketSeq[Peer(f)] /\ p.seq < HalfRange)
    BY <1>0, <1>1, <1>3, Peers
  <2> QED
    BY <1>1, <1>5, <2>1, <2>2, AckKeeps
<1>6. \A p \in net' : AckOK(Peer(p.to), p.ackSeq, p.ackMask)'
  <2>1. ASSUME NEW p \in net PROVE AckOK(Peer(p.to), p.ackSeq, p.ackMask)'
    BY <1>5, PacketFacts, Peers
  <2>2. AckOK(e, recvPackets[e].latest, recvPackets[e].mask)
    BY EndFacts DEF WindowInv
  <2>3. \A a \in SeqNums, mask \in Masks : AckOK(e, a, mask) => AckOK(e, a, mask)'
    BY <1>5
  <2>4. \A a \in SeqNums, mask \in Masks : a = q.ackSeq /\ mask = q.ackMask => AckOK(e, a, mask)'
    BY <1>3, <2>2, <2>3
  <2> QED
    BY <1>0, <1>3, <2>1, <2>4, EndFacts, Peers
<1>7. \A p \in net' : (p.seq = SeqCount /\ p.kind = "ack") \/ p.seq < nextPacketSeq'[Peer(p.to)]
  <2>1. ASSUME NEW p \in net
        PROVE  (p.seq = SeqCount /\ p.kind = "ack") \/ p.seq < nextPacketSeq'[Peer(p.to)]
    <3>1. p.seq \in Int /\ p.to \in Ends /\ Peer(p.to) \in Ends
      BY PacketFacts, Peers, SeqAssumption DEF SeqCount
    <3> QED
      BY <1>1, <1>2, <3>1, PacketFacts
  <2> QED
    BY <1>0, <1>1, <1>2, <1>3, <2>1, Peers
<1>8. \A p, r \in net' : p.to = r.to /\ p.seq = r.seq /\ p.seq # SeqCount => p = r
  <2>1. \A p \in net : p.to = Peer(e) => p.seq # n
    <3>1. ASSUME NEW p \in net, p.to = Peer(e) PROVE p.seq # n
      <4>1. p.seq = SeqCount \/ p.seq < n
        BY <3>1, PacketFacts, Peers
      <4> QED
        BY <1>1, <4>1
    <3> QED
      BY <3>1
  <2> QED
    BY <1>0, <1>3, <2>1 DEF LinkInv, NetInv
<1>9. ASSUME NEW f \in Ends PROVE WindowInv(f)'
  <2>1. recvPackets[f].latest \in SeqNums /\ WindowInv(f)
    BY EndFacts
  <2>2. \A a \in SeqNums, mask \in Masks : AckOK(f, a, mask) => AckOK(f, a, mask)'
    BY <1>5
  <2>3. AckOK(f, recvPackets[f].latest, recvPackets[f].mask)'
    BY <2>1, <2>2, EndFacts DEF WindowInv
  <2> QED
    BY <2>1, <2>3 DEF WindowInv
<1>10. net' \subseteq Packets /\ ackDirty' \in [Ends -> BOOLEAN]
  BY <1>0, <1>4 DEF TypeOK
<1> QED
  BY <1>0, <1>1, <1>2, <1>6, <1>7, <1>8, <1>9, <1>10 DEF NetInv, q

-----------------------------------------------------------------------------
(* What a step that receives nothing keeps. *)

LEMMA DeliveriesApart ==
    /\ DeliveredOnce <=> \A e \in Ends : Once(delivered[e])
    /\ OrderedDelivery <=> \A e \in Ends : InOrder(delivered[e], Kind(e) = "go")
<1>1. DeliveredOnce <=> \A e \in Ends : Once(delivered[e])
  BY DEF DeliveredOnce, Once
<1>2. OrderedDelivery <=> \A e \in Ends : InOrder(delivered[e], Kind(e) = "go")
  BY DEF OrderedDelivery, InOrder, OrderedIn
<1> QED
  BY <1>1, <1>2

LEMMA DeliveryKeeps ==
    ASSUME TypeOK, LinkInv, net \subseteq net',
           UNCHANGED <<scenario, delivered, orderedRecv, recvReliableMsgs>>
    PROVE  DeliveredOnce' /\ OrderedDelivery' /\ \A e \in Ends : DeliveredInv(e)'
<1>0. DeliveredOnce /\ OrderedDelivery
  BY DEF LinkInv
<1>1. DeliveredOnce' /\ OrderedDelivery'
  <2>1. DeliveredOnce'
    BY <1>0 DEF DeliveredOnce
  <2>2. \A e \in Ends : InOrder(delivered[e], Kind(e) = "go")
    BY <1>0, DeliveriesApart
  <2>3. \A e \in Ends : InOrder(delivered[e], Kind(e) = "go")'
    BY <2>2 DEF Kind
  <2>4. OrderedDelivery'
    BY <2>3 DEF OrderedDelivery, InOrder, OrderedIn
  <2> QED
    BY <2>1, <2>4
<1>2. ASSUME NEW e \in Ends PROVE DeliveredInv(e)'
  <2>1. Carried(e) \subseteq Carried(e)'
    BY DEF Carried
  <2>2. Kind(e)' = Kind(e)
    BY DEF Kind
  <2> QED
    BY <2>1, <2>2 DEF LinkInv, DeliveredInv, OrderInv
<1> QED
  BY <1>1, <1>2

LEMMA TokensKeep ==
    ASSUME TypeOK, LinkInv, net \subseteq net', gotTokens \subseteq gotTokens', UNCHANGED eventVars
    PROVE  TokenInv' /\ VerdictsSound'
<1>1. TokenInv'
  BY DEF LinkInv, TokenInv, eventVars
<1>2. VerdictsSound'
  BY DEF LinkInv, VerdictsSound, eventVars
<1> QED
  BY <1>1, <1>2

LEMMA NumbersKeep ==
    ASSUME TypeOK, LinkInv, NEW e \in Ends, Numbered(e)' \subseteq Numbered(e),
           UNCHANGED <<scenario, nextMessageID, nextOrderedSeq>>
    PROVE  NumberInv(e)'
<1>1. NumberInv(e)
  BY DEF LinkInv
<1> QED
  BY <1>1 DEF NumberInv

\* A message gets the next ID and, in the ordered lane, the next order number.
LEMMA NumberAdds ==
    ASSUME TypeOK, LinkInv, NEW e \in Ends, NEW lane \in Lanes, Number(e, lane),
           lane = "ordered" => nextOrderedSeq[e] < scenario.messages[e]["ordered"],
           lane = "unordered" => nextMessageID[e] - nextOrderedSeq[e]
                                   < scenario.messages[e]["unordered"],
           scenario' = scenario,
           Numbered(e)' \subseteq Numbered(e) \cup
               {[id |-> nextMessageID[e], lane |-> lane,
                 seq |-> IF lane = "ordered" THEN nextOrderedSeq[e] ELSE 0]},
           NEW f \in Ends, f # e => Numbered(f)' \subseteq Numbered(f)
    PROVE  /\ nextMessageID' \in [Ends -> 0 .. HalfRange]
           /\ nextOrderedSeq' \in [Ends -> 0 .. HalfRange]
           /\ NumberInv(f)'
<1> DEFINE n == nextMessageID[e]
           o == nextOrderedSeq[e]
           a == [id |-> n, lane |-> lane, seq |-> IF lane = "ordered" THEN o ELSE 0]
<1>0. /\ scenario.messages[e]["ordered"] \in Nat /\ scenario.messages[e]["unordered"] \in Nat
      /\ scenario.messages[e]["ordered"] + scenario.messages[e]["unordered"] <= HalfRange
      /\ HalfRange \in Nat
  BY ScenarioFacts, SeqAssumption DEF TypeOK
<1>1. n \in 0 .. HalfRange /\ o \in 0 .. HalfRange /\ NumberInv(e)
  BY EndFacts
<1>2. n < HalfRange /\ o < HalfRange /\ o <= n
  BY <1>0, <1>1 DEF NumberInv
<1>3. NextSeq(n) = n + 1 /\ NextSeq(o) = o + 1
  BY <1>0, <1>1, <1>2 DEF NextSeq, SeqCount
<1>4. /\ nextMessageID' = [nextMessageID EXCEPT ![e] = n + 1]
      /\ nextOrderedSeq' = [nextOrderedSeq EXCEPT ![e] = IF lane = "ordered" THEN o + 1 ELSE o]
  BY <1>3 DEF Number
<1>5. /\ nextMessageID' \in [Ends -> 0 .. HalfRange] /\ nextMessageID'[e] = n + 1
      /\ nextOrderedSeq' \in [Ends -> 0 .. HalfRange]
      /\ nextOrderedSeq'[e] = IF lane = "ordered" THEN o + 1 ELSE o
      /\ \A g \in Ends : g # e => nextMessageID'[g] = nextMessageID[g]
                                  /\ nextOrderedSeq'[g] = nextOrderedSeq[g]
  <2>1. n + 1 \in 0 .. HalfRange /\ o + 1 \in 0 .. HalfRange
    BY <1>0, <1>1, <1>2
  <2>2. (IF lane = "ordered" THEN o + 1 ELSE o) \in 0 .. HalfRange
    BY <1>1, <2>1
  <2> QED
    BY <1>4, <2>1, <2>2 DEF TypeOK
<1>6. CASE f = e
  <2>1. \A b \in Numbered(e) : b.id < n /\ b.id # n /\ (b.lane = "ordered" => b.seq < o /\ b.seq # o)
    BY <1>1 DEF NumberInv
  <2>2. \A b \in Numbered(e) : b.id \in Int /\ (b.lane = "ordered" => b.seq \in Int)
    <3>1. \A b \in Queued(e) : b.id \in Int /\ b.seq \in Int
      BY EndFacts DEF Queued, Messages
    <3>2. \A b \in Carried(Peer(e)) : b.id \in Int /\ b.seq \in Int
      BY PacketFacts DEF Carried
    <3> QED
      BY <3>1, <3>2 DEF Numbered
  <2> HIDE DEF a
  <2>3. a.id = n /\ a.lane = lane /\ a.seq = (IF lane = "ordered" THEN o ELSE 0)
    BY DEF a
  <2>4. \A b \in Numbered(e)' : b \in Numbered(e) \/ b = a
    BY DEF a
  <2>5. ASSUME NEW b \in Numbered(e)'
        PROVE  /\ b.id < n + 1
               /\ IF b.lane = "ordered" THEN b.seq < nextOrderedSeq'[e] ELSE b.seq = 0
    <3>1. CASE b = a
      BY <1>1, <1>5, <2>3, <3>1
    <3>2. CASE b \in Numbered(e)
      <4>1. /\ b.id < n /\ b.id \in Int /\ (b.lane = "ordered" => b.seq < o /\ b.seq \in Int)
            /\ b.lane # "ordered" => b.seq = 0
        BY <1>1, <2>1, <2>2, <3>2 DEF NumberInv
      <4> QED
        BY <1>1, <1>5, <4>1
    <3> QED
      BY <2>4, <3>1, <3>2
  <2>6. ASSUME NEW b \in Numbered(e)', NEW c \in Numbered(e)',
               \/ b.id = c.id
               \/ b.lane = "ordered" /\ c.lane = "ordered" /\ b.seq = c.seq
        PROVE  b = c
    BY <1>1, <2>1, <2>3, <2>4, <2>6 DEF NumberInv
  <2>7. /\ nextOrderedSeq'[e] <= scenario.messages[e]["ordered"]
        /\ nextOrderedSeq'[e] <= nextMessageID'[e]
        /\ nextMessageID'[e] - nextOrderedSeq'[e] <= scenario.messages[e]["unordered"]
    BY <1>0, <1>1, <1>2, <1>5 DEF NumberInv
  <2>8. NumberInv(e)'
    BY <1>5, <2>5, <2>6, <2>7 DEF NumberInv
  <2> QED
    BY <1>5, <1>6, <2>8
<1>7. CASE f # e
  <2>1. NumberInv(f)
    BY EndFacts
  <2>2. nextMessageID'[f] = nextMessageID[f] /\ nextOrderedSeq'[f] = nextOrderedSeq[f]
    BY <1>5, <1>7
  <2> QED
    BY <1>5, <1>7, <2>1, <2>2 DEF NumberInv
<1> QED
  BY <1>6, <1>7

\* A packet is sent: what it adds to the messages on their way.
LEMMA CarriedAdds ==
    ASSUME NEW q, net' = net \cup {q}, NEW e
    PROVE  /\ Carried(e)' \subseteq Carried(e) \cup {[id |-> q.id, lane |-> q.kind, seq |-> q.orderedSeq]}
           /\ q.to # e \/ q.kind \notin Lanes => Carried(e)' = Carried(e)
  BY DEF Carried

\* The queues after a step that sends a packet or none.
LEMMA QueueKeeps ==
    ASSUME TypeOK, LinkInv, NEW e \in Ends, net \subseteq net',
           pending' \in [Ends -> SUBSET Messages],
           \A f \in Ends : \A m \in pending'[f] :
              \/ m.last = 0
              \/ \E k \in pending[f] : m.id = k.id /\ m.last = k.last
              \/ \E q \in net' : q.to = Peer(f) /\ q.seq = m.last /\ q.kind \in Lanes /\ q.id = m.id
    PROVE  \A f \in Ends : SentInv(f)'
<1> SUFFICES ASSUME NEW f \in Ends, NEW m \in pending'[f], m.last # 0
             PROVE  \E q \in net' : q.to = Peer(f) /\ q.seq = m.last /\ q.kind \in Lanes /\ q.id = m.id
  BY DEF SentInv
<1>1. SentInv(f)
  BY EndFacts
<1> QED
  BY <1>1 DEF SentInv

-----------------------------------------------------------------------------
(* Steps that receive nothing. *)

LEMMA QuietStep ==
    ASSUME TypeOK, LinkInv, net \subseteq net', UNCHANGED <<scenario, recvVars, histVars>>,
           NetInv', TokenInv', VerdictsSound',
           \A f \in Ends : WindowInv(f)' /\ NumberInv(f)' /\ SentInv(f)'
    PROVE  LinkInv'
<1>1. DeliveredOnce' /\ OrderedDelivery' /\ \A f \in Ends : DeliveredInv(f)'
  BY DeliveryKeeps DEF recvVars, histVars
<1>2. PrunedWasReceived'
  BY DEF LinkInv, PrunedWasReceived, histVars
<1> QED
  BY <1>1, <1>2 DEF LinkInv

LEMMA NetKeeps ==
    ASSUME TypeOK, LinkInv,
           UNCHANGED <<net, nextPacketSeq, recvPackets, recvReliableMsgs, received, gotTokens>>
    PROVE  NetInv' /\ \A f \in Ends : WindowInv(f)'
<1>1. \A f \in Ends : WindowInv(f)'
  BY DEF LinkInv, WindowInv, AckOK, Handled
<1>2. NetInv'
  BY DEF LinkInv, NetInv, AckOK, Handled
<1> QED
  BY <1>1, <1>2

LEMMA EnqueueKeeps ==
    ASSUME TypeOK, LinkInv, NEW e \in Ends, NEW lane \in Lanes, Enqueue(e, lane)
    PROVE  TypeOK' /\ LinkInv'
<1> DEFINE m == NewMessage(e, lane)
<1>1. /\ UNCHANGED <<scenario, recvVars, histVars, eventVars, net, nextPacketSeq, ackDirty, unreliable>>
      /\ Number(e, lane)
      /\ failed' = failed \cup {e} \/ failed' = failed
      /\ pending' = pending \/ pending' = [pending EXCEPT ![e] = @ \cup {m}]
  BY DEF Enqueue
<1>2. m \in Messages /\ m.last = 0
      /\ [id |-> m.id, lane |-> m.lane, seq |-> m.orderedSeq] =
         [id |-> nextMessageID[e], lane |-> lane, seq |-> IF lane = "ordered" THEN nextOrderedSeq[e] ELSE 0]
  BY EndFacts, SeqAssumption DEF NewMessage, Messages, SeqNums, SeqCount
<1> HIDE DEF m
<1>3. pending' \in [Ends -> SUBSET Messages]
  <2>1. pending \in [Ends -> SUBSET Messages] /\ pending[e] \cup {m} \in SUBSET Messages
    BY <1>2 DEF TypeOK
  <2> QED
    BY <1>1, <2>1
<1>4. pending \in [Ends -> SUBSET Messages]
  BY DEF TypeOK
<1>5. \A f \in Ends : pending'[f] \subseteq pending[f] \cup (IF f = e THEN {m} ELSE {})
  BY <1>1, <1>4
<1>6. \A f \in Ends : Carried(f)' = Carried(f)
  BY <1>1 DEF Carried
<1>7. Numbered(e)' \subseteq Numbered(e) \cup
               {[id |-> nextMessageID[e], lane |-> lane,
                 seq |-> IF lane = "ordered" THEN nextOrderedSeq[e] ELSE 0]}
  BY <1>2, <1>5, <1>6, Peers DEF Numbered, Queued
<1>8. \A f \in Ends : f # e => Numbered(f)' \subseteq Numbered(f)
  BY <1>5, <1>6, Peers DEF Numbered, Queued
<1>9. /\ nextMessageID' \in [Ends -> 0 .. HalfRange] /\ nextOrderedSeq' \in [Ends -> 0 .. HalfRange]
      /\ \A f \in Ends : NumberInv(f)'
  <2>1. /\ lane = "ordered" => nextOrderedSeq[e] < scenario.messages[e]["ordered"]
        /\ lane = "unordered" => nextMessageID[e] - nextOrderedSeq[e]
                                   < scenario.messages[e]["unordered"]
    BY DEF Enqueue
  <2>2. ASSUME NEW f \in Ends
        PROVE  /\ nextMessageID' \in [Ends -> 0 .. HalfRange]
               /\ nextOrderedSeq' \in [Ends -> 0 .. HalfRange] /\ NumberInv(f)'
    BY <1>1, <1>7, <1>8, <2>1, NumberAdds
  <2> QED
    BY <2>2
<1>10. \A f \in Ends : SentInv(f)'
  BY <1>1, <1>2, <1>3, <1>5, QueueKeeps
<1>11. NetInv' /\ \A f \in Ends : WindowInv(f)'
  BY <1>1, NetKeeps DEF recvVars, histVars
<1>12. TokenInv' /\ VerdictsSound'
  BY <1>1, TokensKeep DEF histVars
<1>13. LinkInv'
  BY <1>1, <1>9, <1>10, <1>11, <1>12, QuietStep
<1>14. TypeOK'
  BY <1>1, <1>3, <1>9 DEF TypeOK, recvVars, histVars, eventVars
<1> QED
  BY <1>13, <1>14

LEMMA SendAtOnceKeeps ==
    ASSUME TypeOK, LinkInv, NEW e \in Ends, NEW lane \in Lanes, SendAtOnce(e, lane)
    PROVE  TypeOK' /\ LinkInv'
<1> DEFINE k == NewMessage(e, lane)
           m == [k EXCEPT !.last = nextPacketSeq[e], !.attempts = 1, !.inFlight = TRUE]
           a == [id |-> nextMessageID[e], lane |-> lane,
                 seq |-> IF lane = "ordered" THEN nextOrderedSeq[e] ELSE 0]
           q == NewPacket(e, lane, k.id, k.orderedSeq)
<1>1. /\ UNCHANGED <<scenario, recvVars, histVars, eventVars, failed, unreliable>>
      /\ Number(e, lane) /\ Emit(e, lane, k.id, k.orderedSeq)
      /\ pending' = [pending EXCEPT ![e] = @ \cup {m}]
  BY DEF SendAtOnce
<1>2. k \in Messages /\ k.id = a.id /\ k.lane = a.lane /\ k.orderedSeq = a.seq
  BY EndFacts, SeqAssumption DEF NewMessage, Messages, SeqNums, SeqCount
<1>3. k.id \in Nat /\ k.orderedSeq \in Nat
  BY <1>2 DEF Messages
<1>4. /\ net' = net \cup {q} /\ net' \subseteq Packets
      /\ nextPacketSeq' \in [Ends -> 0 .. HalfRange] /\ ackDirty' \in [Ends -> BOOLEAN]
      /\ nextPacketSeq[e] < HalfRange
      /\ NetInv' /\ \A f \in Ends : WindowInv(f)'
  BY <1>1, <1>3, EmitKeeps DEF recvVars, histVars
<1>5. /\ q.to = Peer(e) /\ q.seq = nextPacketSeq[e] /\ q.kind = lane /\ q.id = k.id
      /\ q.orderedSeq = k.orderedSeq
  BY DEF NewPacket
<1> HIDE DEF k, q
<1>6. /\ m \in Messages /\ m.id = a.id /\ m.lane = a.lane /\ m.orderedSeq = a.seq
      /\ m.last = nextPacketSeq[e]
  <2>1. nextPacketSeq[e] \in SeqNums
    BY <1>4, EndFacts, SeqAssumption DEF SeqNums, SeqCount
  <2> QED
    BY <1>2, <2>1 DEF Messages
<1> HIDE DEF m, a
<1>7. pending' \in [Ends -> SUBSET Messages] /\ pending \in [Ends -> SUBSET Messages]
  BY <1>1, <1>6 DEF TypeOK
<1>8. pending'[e] = pending[e] \cup {m} /\ \A f \in Ends : f # e => pending'[f] = pending[f]
  BY <1>1, <1>7
<1>9. [id |-> m.id, lane |-> m.lane, seq |-> m.orderedSeq] = a
      /\ [id |-> q.id, lane |-> q.kind, seq |-> q.orderedSeq] = a
  BY <1>2, <1>5, <1>6 DEF a
<1>10. Carried(Peer(e))' \subseteq Carried(Peer(e)) \cup {a} /\ Carried(e)' = Carried(e)
  BY <1>4, <1>5, <1>9, CarriedAdds, Peers
<1>11. Numbered(e)' \subseteq Numbered(e) \cup {a}
  BY <1>8, <1>9, <1>10 DEF Numbered, Queued
<1>12. \A f \in Ends : f # e => Numbered(f)' \subseteq Numbered(f)
  BY <1>8, <1>10, Peers DEF Numbered, Queued
<1>13. /\ nextMessageID' \in [Ends -> 0 .. HalfRange] /\ nextOrderedSeq' \in [Ends -> 0 .. HalfRange]
       /\ \A f \in Ends : NumberInv(f)'
  <2>1. /\ lane = "ordered" => nextOrderedSeq[e] < scenario.messages[e]["ordered"]
        /\ lane = "unordered" => nextMessageID[e] - nextOrderedSeq[e]
                                   < scenario.messages[e]["unordered"]
    BY DEF SendAtOnce
  <2>2. ASSUME NEW f \in Ends
        PROVE  /\ nextMessageID' \in [Ends -> 0 .. HalfRange]
               /\ nextOrderedSeq' \in [Ends -> 0 .. HalfRange] /\ NumberInv(f)'
    BY <1>1, <1>11, <1>12, <2>1, NumberAdds DEF a
  <2> QED
    BY <2>2
<1>14. \A f \in Ends : SentInv(f)'
  <2>1. ASSUME NEW f \in Ends, NEW x \in pending'[f]
        PROVE  \/ \E y \in pending[f] : x.id = y.id /\ x.last = y.last
               \/ \E r \in net' : r.to = Peer(f) /\ r.seq = x.last /\ r.kind \in Lanes /\ r.id = x.id
    <3>1. CASE x \in pending[f]
      BY <3>1
    <3>2. CASE f = e /\ x = m
      BY <1>2, <1>4, <1>5, <1>6, <3>2
    <3> QED
      BY <1>8, <3>1, <3>2
  <2> QED
    BY <1>4, <1>7, <2>1, QueueKeeps
<1>15. TokenInv' /\ VerdictsSound'
  BY <1>1, <1>4, TokensKeep DEF histVars
<1>16. LinkInv'
  BY <1>1, <1>4, <1>13, <1>14, <1>15, QuietStep
<1>17. TypeOK'
  BY <1>1, <1>4, <1>7, <1>13 DEF TypeOK, recvVars, histVars, eventVars
<1> QED
  BY <1>16, <1>17

LEMMA RetransmitKeeps ==
    ASSUME TypeOK, LinkInv, NEW e \in Ends, NEW k \in pending[e], Retransmit(e, k)
    PROVE  TypeOK' /\ LinkInv'
<1> DEFINE m == [k EXCEPT !.inFlight = TRUE, !.attempts = @ + 1, !.last = nextPacketSeq[e]]
           a == [id |-> k.id, lane |-> k.lane, seq |-> k.orderedSeq]
           q == NewPacket(e, k.lane, k.id, k.orderedSeq)
<1>1. /\ UNCHANGED <<scenario, recvVars, histVars, eventVars, failed, unreliable,
                     nextMessageID, nextOrderedSeq>>
      /\ Emit(e, k.lane, k.id, k.orderedSeq)
      /\ pending' = [pending EXCEPT ![e] = (@ \ {k}) \cup {m}]
  BY DEF Retransmit
<1>2. k \in Messages /\ a \in Queued(e)
  BY EndFacts DEF Queued
<1>3. k.id \in Nat /\ k.orderedSeq \in Nat /\ k.lane \in Lanes
  BY <1>2 DEF Messages
<1>4. /\ net' = net \cup {q} /\ net' \subseteq Packets
      /\ nextPacketSeq' \in [Ends -> 0 .. HalfRange] /\ ackDirty' \in [Ends -> BOOLEAN]
      /\ nextPacketSeq[e] < HalfRange
      /\ NetInv' /\ \A f \in Ends : WindowInv(f)'
  BY <1>1, <1>3, EmitKeeps DEF recvVars, histVars
<1>5. /\ q.to = Peer(e) /\ q.seq = nextPacketSeq[e] /\ q.kind = k.lane /\ q.id = k.id
      /\ q.orderedSeq = k.orderedSeq
  BY DEF NewPacket
<1> HIDE DEF q
<1>6. /\ m \in Messages /\ m.id = k.id /\ m.lane = k.lane /\ m.orderedSeq = k.orderedSeq
      /\ m.last = nextPacketSeq[e]
  <2>1. nextPacketSeq[e] \in SeqNums
    BY <1>4, EndFacts, SeqAssumption DEF SeqNums, SeqCount
  <2>2. k.attempts + 1 \in Nat
    BY <1>2 DEF Messages
  <2> QED
    BY <1>2, <2>1, <2>2 DEF Messages
<1> HIDE DEF m
<1>7. pending' \in [Ends -> SUBSET Messages] /\ pending \in [Ends -> SUBSET Messages]
  BY <1>1, <1>6 DEF TypeOK
<1>8. pending'[e] = (pending[e] \ {k}) \cup {m} /\ \A f \in Ends : f # e => pending'[f] = pending[f]
  BY <1>1, <1>7
<1>9. [id |-> m.id, lane |-> m.lane, seq |-> m.orderedSeq] = a
      /\ [id |-> q.id, lane |-> q.kind, seq |-> q.orderedSeq] = a
  BY <1>5, <1>6
<1> HIDE DEF a
<1>10. Carried(Peer(e))' \subseteq Carried(Peer(e)) \cup {a} /\ Carried(e)' = Carried(e)
  BY <1>4, <1>5, <1>9, CarriedAdds, Peers
<1>11. Numbered(e)' \subseteq Numbered(e)
  BY <1>2, <1>8, <1>9, <1>10 DEF Numbered, Queued
<1>12. \A f \in Ends : f # e => Numbered(f)' \subseteq Numbered(f)
  BY <1>8, <1>10, Peers DEF Numbered, Queued
<1>13. \A f \in Ends : NumberInv(f)'
  BY <1>1, <1>11, <1>12, NumbersKeep
<1>14. \A f \in Ends : SentInv(f)'
  <2>1. ASSUME NEW f \in Ends, NEW x \in pending'[f]
        PROVE  \/ \E y \in pending[f] : x.id = y.id /\ x.last = y.last
               \/ \E r \in net' : r.to = Peer(f) /\ r.seq = x.last /\ r.kind \in Lanes /\ r.id = x.id
    <3>1. CASE x \in pending[f]
      BY <3>1
    <3>2. CASE f = e /\ x = m
      BY <1>3, <1>4, <1>5, <1>6, <3>2
    <3> QED
      BY <1>8, <3>1, <3>2
  <2> QED
    BY <1>4, <1>7, <2>1, QueueKeeps
<1>15. TokenInv' /\ VerdictsSound'
  BY <1>1, <1>4, TokensKeep DEF histVars
<1>16. LinkInv'
  BY <1>1, <1>4, <1>13, <1>14, <1>15, QuietStep
<1>17. TypeOK'
  BY <1>1, <1>4, <1>7 DEF TypeOK, recvVars, histVars, eventVars
<1> QED
  BY <1>16, <1>17

\* A packet that carries no reliable message.
LEMMA PlainPacketKeeps ==
    ASSUME TypeOK, LinkInv, NEW q, net' = net \cup {q}, q.kind \notin Lanes,
           UNCHANGED <<scenario, pending, nextMessageID, nextOrderedSeq>>
    PROVE  \A f \in Ends : NumberInv(f)' /\ SentInv(f)'
<1>1. \A f \in Ends : Carried(f)' = Carried(f)
  BY CarriedAdds
<1>2. \A f \in Ends : Numbered(f)' \subseteq Numbered(f)
  BY <1>1, Peers DEF Numbered, Queued
<1>3. pending' \in [Ends -> SUBSET Messages]
  BY DEF TypeOK
<1> QED
  BY <1>2, <1>3, NumbersKeep, QueueKeeps

LEMMA QueuesUnchanged ==
    ASSUME TypeOK, LinkInv, UNCHANGED <<scenario, net, pending, nextMessageID, nextOrderedSeq>>
    PROVE  \A f \in Ends : NumberInv(f)' /\ SentInv(f)'
<1>1. \A f \in Ends : Numbered(f)' = Numbered(f)
  BY DEF Numbered, Queued, Carried
<1>2. \A f \in Ends : SentInv(f)'
  BY EndFacts DEF SentInv
<1> QED
  BY <1>1, <1>2, NumbersKeep

LEMMA SendUnreliableKeeps ==
    ASSUME TypeOK, LinkInv, NEW e \in Ends, SendUnreliable(e)
    PROVE  TypeOK' /\ LinkInv'
<1> DEFINE q == NewPacket(e, "unreliable", 0, 0)
<1>1. /\ UNCHANGED <<scenario, failed, nextMessageID, nextOrderedSeq, recvVars, pending,
                     eventVars, histVars>>
      /\ unreliable' = [unreliable EXCEPT ![e] = @ + 1] /\ Emit(e, "unreliable", 0, 0)
  BY DEF SendUnreliable
<1>2. /\ net' = net \cup {q} /\ net' \subseteq Packets
      /\ nextPacketSeq' \in [Ends -> 0 .. HalfRange] /\ ackDirty' \in [Ends -> BOOLEAN]
      /\ NetInv' /\ \A f \in Ends : WindowInv(f)'
  BY <1>1, EmitKeeps DEF recvVars, histVars
<1>3. q.kind = "unreliable"
  BY DEF NewPacket
<1> HIDE DEF q
<1>4. \A f \in Ends : NumberInv(f)' /\ SentInv(f)'
  BY <1>1, <1>2, <1>3, PlainPacketKeeps
<1>5. TokenInv' /\ VerdictsSound'
  BY <1>1, <1>2, TokensKeep DEF histVars
<1>6. LinkInv'
  BY <1>1, <1>2, <1>4, <1>5, QuietStep
<1>7. unreliable' \in [Ends -> Nat]
  <2>1. unreliable \in [Ends -> Nat] /\ unreliable[e] + 1 \in Nat
    BY DEF TypeOK
  <2> QED
    BY <1>1, <2>1
<1>8. TypeOK'
  BY <1>1, <1>2, <1>7 DEF TypeOK, recvVars, histVars, eventVars
<1> QED
  BY <1>6, <1>8

LEMMA SendAckKeeps ==
    ASSUME TypeOK, LinkInv, NEW e \in Ends, SendAck(e)
    PROVE  TypeOK' /\ LinkInv'
<1> DEFINE q == NewPacket(e, "ack", 0, 0)
<1>1. /\ UNCHANGED <<scenario, failed, nextMessageID, nextOrderedSeq, recvVars, pending,
                     unreliable, eventVars, histVars>>
      /\ Emit(e, "ack", 0, 0)
  BY DEF SendAck
<1>2. /\ net' = net \cup {q} /\ net' \subseteq Packets
      /\ nextPacketSeq' \in [Ends -> 0 .. HalfRange] /\ ackDirty' \in [Ends -> BOOLEAN]
      /\ NetInv' /\ \A f \in Ends : WindowInv(f)'
  BY <1>1, EmitKeeps DEF recvVars, histVars
<1>3. q.kind = "ack"
  BY DEF NewPacket
<1> HIDE DEF q
<1>4. \A f \in Ends : NumberInv(f)' /\ SentInv(f)'
  BY <1>1, <1>2, <1>3, PlainPacketKeeps
<1>5. TokenInv' /\ VerdictsSound'
  BY <1>1, <1>2, TokensKeep DEF histVars
<1>6. LinkInv'
  BY <1>1, <1>2, <1>4, <1>5, QuietStep
<1>7. TypeOK'
  BY <1>1, <1>2 DEF TypeOK, recvVars, histVars, eventVars
<1> QED
  BY <1>6, <1>7

\* The acknowledgement on a stream frame has a number of its own.
LEMMA SendStreamAckKeeps ==
    ASSUME TypeOK, LinkInv, SendStreamAck
    PROVE  TypeOK' /\ LinkInv'
<1> DEFINE e == "client"
           q == [NewPacket(e, "ack", 0, 0) EXCEPT !.seq = SeqCount]
<1>1. /\ UNCHANGED <<scenario, failed, nextPacketSeq, nextMessageID, nextOrderedSeq, recvVars,
                     pending, unreliable, eventVars, histVars>>
      /\ net' = net \cup {q} /\ ackDirty' = [ackDirty EXCEPT !["client"] = FALSE]
  BY DEF SendStreamAck
<1>2. /\ q.to = Peer(e) /\ q.seq = SeqCount /\ q.ackSeq = recvPackets[e].latest
      /\ q.ackMask = recvPackets[e].mask /\ q.kind = "ack" /\ q.id = 0 /\ q.orderedSeq = 0
  BY DEF NewPacket
<1>3. q \in Packets
  <2>1. Peer(e) \in Ends /\ SeqCount \in 0 .. SeqCount
    BY Peers, SeqAssumption DEF SeqCount
  <2>2. recvPackets[e].latest \in SeqNums /\ recvPackets[e].mask \in Masks
    BY EndFacts
  <2> QED
    BY <2>1, <2>2 DEF Packets, NewPacket
<1> HIDE DEF q
<1>4. e \in Ends
  OBVIOUS
<1> HIDE DEF e
<1>5. ASSUME NEW f \in Ends, NEW a \in SeqNums, NEW mask, AckOK(f, a, mask)
      PROVE  AckOK(f, a, mask)'
  <2>1. nextPacketSeq \in [Ends -> 0 .. HalfRange]
    BY DEF TypeOK
  <2> QED
    BY <1>1, <1>2, <1>5, <2>1, AckKeeps DEF histVars
<1>6. \A p \in net' : AckOK(Peer(p.to), p.ackSeq, p.ackMask)'
  <2>1. ASSUME NEW p \in net PROVE AckOK(Peer(p.to), p.ackSeq, p.ackMask)'
    BY <1>5, PacketFacts, Peers
  <2>2. AckOK(e, recvPackets[e].latest, recvPackets[e].mask)
    BY <1>4, EndFacts DEF WindowInv
  <2>3. \A a \in SeqNums, mask \in Masks : AckOK(e, a, mask) => AckOK(e, a, mask)'
    BY <1>4, <1>5
  <2>4. \A a \in SeqNums, mask \in Masks : a = q.ackSeq /\ mask = q.ackMask => AckOK(e, a, mask)'
    BY <1>2, <2>2, <2>3
  <2> QED
    BY <1>1, <1>2, <1>4, <2>1, <2>4, EndFacts, Peers
<1>7. NetInv'
  BY <1>1, <1>2, <1>6 DEF LinkInv, NetInv
<1>8. ASSUME NEW f \in Ends PROVE WindowInv(f)'
  <2>1. \A a \in SeqNums, mask \in Masks : AckOK(f, a, mask) => AckOK(f, a, mask)'
    BY <1>5
  <2>2. AckOK(f, recvPackets[f].latest, recvPackets[f].mask)'
    BY <1>1, <2>1, EndFacts DEF WindowInv, recvVars
  <2> QED
    BY <1>1, <2>2, EndFacts DEF WindowInv, recvVars
<1>9. \A f \in Ends : NumberInv(f)' /\ SentInv(f)'
  BY <1>1, <1>2, PlainPacketKeeps
<1>10. TokenInv' /\ VerdictsSound'
  BY <1>1, TokensKeep DEF histVars
<1>11. LinkInv'
  BY <1>1, <1>7, <1>8, <1>9, <1>10, QuietStep
<1>12. net' \subseteq Packets /\ ackDirty' \in [Ends -> BOOLEAN]
  BY <1>1, <1>3 DEF TypeOK
<1>13. TypeOK'
  BY <1>1, <1>12 DEF TypeOK, recvVars, histVars, eventVars
<1> QED
  BY <1>11, <1>13

LEMMA EnqueueEventualKeeps ==
    ASSUME TypeOK, LinkInv, EnqueueEventual
    PROVE  TypeOK' /\ LinkInv'
<1> DEFINE old == pendingEventual
<1>1. /\ UNCHANGED <<scenario, net, nextPacketSeq, nextMessageID, nextOrderedSeq, recvVars, ackDirty,
                     pending, unreliable, inFlightEventual, eventualFeedback, histVars>>
      /\ nextToken' = nextToken + 1
      /\ pendingEventual' = old \/ pendingEventual' = Append(old, nextToken)
      /\ failed' = failed \cup {"server"} \/ failed' = failed
  BY DEF EnqueueEventual
<1>2. nextToken \in Nat /\ old \in Seq(Nat) /\ \A i \in 1 .. Len(old) : old[i] \in Nat
  BY ElementOfSeq DEF TypeOK
<1>3. /\ pendingEventual' \in Seq(Nat)
      /\ \A i \in 1 .. Len(pendingEventual') :
            \/ i \in 1 .. Len(old) /\ pendingEventual'[i] = old[i]
            \/ i = Len(old) + 1 /\ pendingEventual'[i] = nextToken
  <2>1. CASE pendingEventual' = old
    BY <1>2, <2>1
  <2>2. CASE pendingEventual' = Append(old, nextToken)
    <3>1. /\ Append(old, nextToken) \in Seq(Nat) /\ Len(Append(old, nextToken)) = Len(old) + 1
          /\ \A i \in 1 .. Len(old) : Append(old, nextToken)[i] = old[i]
          /\ Append(old, nextToken)[Len(old) + 1] = nextToken
      BY <1>2, AppendProperties
    <3>2. Len(old) \in Nat
      BY <1>2, LenProperties
    <3> QED
      BY <2>2, <3>1, <3>2
  <2> QED
    BY <1>1, <2>1, <2>2
<1>4. Len(old) \in Nat
  BY <1>2, LenProperties
<1>5. TokenInv'
  <2>1. \A i \in 1 .. Len(old) : old[i] < nextToken /\ old[i] < nextToken + 1 /\ old[i] # nextToken
    BY <1>2 DEF LinkInv, TokenInv
  <2>2. \A i \in 1 .. Len(pendingEventual') : pendingEventual'[i] < nextToken'
    BY <1>1, <1>2, <1>3, <2>1
  <2>3. \A i, j \in 1 .. Len(pendingEventual') : pendingEventual'[i] = pendingEventual'[j] => i = j
    BY <1>3, <2>1 DEF LinkInv, TokenInv
  <2>4. ASSUME NEW f \in inFlightEventual
        PROVE  /\ f.token < nextToken'
               /\ \A i \in 1 .. Len(pendingEventual') : f.token # pendingEventual'[i]
    <3>1. f.token \in Nat
      BY DEF TypeOK
    <3>2. f.token < nextToken /\ f.token # nextToken /\ f.token < nextToken + 1
      BY <1>2, <3>1 DEF LinkInv, TokenInv
    <3> QED
      BY <1>1, <1>3, <3>2 DEF LinkInv, TokenInv
  <2>5. \A f \in eventualFeedback : f.token < nextToken'
    <3>1. \A f \in eventualFeedback : f.token \in Nat /\ f.token < nextToken
      BY DEF TypeOK, LinkInv, TokenInv
    <3> QED
      BY <1>1, <1>2, <3>1
  <2> QED
    BY <1>1, <2>2, <2>3, <2>4, <2>5 DEF LinkInv, TokenInv
<1>6. VerdictsSound'
  <2>1. \A f \in eventualFeedback : f.token # nextToken
    BY <1>2 DEF LinkInv, TokenInv
  <2> QED
    BY <1>1, <1>3, <2>1 DEF LinkInv, VerdictsSound, histVars
<1>7. NetInv' /\ \A f \in Ends : WindowInv(f)'
  BY <1>1, NetKeeps DEF recvVars, histVars
<1>8. \A f \in Ends : NumberInv(f)' /\ SentInv(f)'
  BY <1>1, QueuesUnchanged
<1>9. LinkInv'
  BY <1>1, <1>5, <1>6, <1>7, <1>8, QuietStep
<1>10. TypeOK'
  <2>1. failed' \subseteq Ends
    BY <1>1 DEF TypeOK
  <2>2. nextToken' \in Nat
    BY <1>1, <1>2
  <2> QED
    BY <1>1, <1>3, <2>1, <2>2 DEF TypeOK, recvVars, histVars
<1> QED
  BY <1>9, <1>10

LEMMA SendEventualKeeps ==
    ASSUME TypeOK, LinkInv, SendEventual
    PROVE  TypeOK' /\ LinkInv'
<1> DEFINE e == "server"
           old == pendingEventual
           t == Head(old)
           n == nextPacketSeq[e]
           g == [packet |-> n, token |-> t]
           q == NewPacket(e, "eventual", t, 0)
<1>1. /\ UNCHANGED <<scenario, failed, nextMessageID, nextOrderedSeq, recvVars, pending, unreliable,
                     nextToken, eventualFeedback, histVars>>
      /\ old # <<>> /\ Emit(e, "eventual", t, 0)
      /\ inFlightEventual' = inFlightEventual \cup {g} /\ pendingEventual' = Tail(old)
  BY DEF SendEventual
<1>2. old \in Seq(Nat) /\ nextToken \in Nat
  BY DEF TypeOK
<1>3. /\ t \in Nat /\ 1 \in 1 .. Len(old) /\ t = old[1] /\ Tail(old) \in Seq(Nat)
      /\ Len(Tail(old)) = Len(old) - 1 /\ Len(old) \in Nat
      /\ \A i \in 1 .. Len(Tail(old)) : Tail(old)[i] = old[i + 1] /\ i + 1 \in 1 .. Len(old)
  <2>1. Len(old) \in Nat /\ Len(old) # 0
    BY <1>1, <1>2, EmptySeq, LenProperties
  <2>2. old[1] \in Nat
    BY <1>2, <2>1, ElementOfSeq
  <2> QED
    BY <1>1, <1>2, <2>1, <2>2, HeadTailProperties
<1>4. /\ net' = net \cup {q} /\ net' \subseteq Packets
      /\ nextPacketSeq' \in [Ends -> 0 .. HalfRange] /\ ackDirty' \in [Ends -> BOOLEAN]
      /\ NetInv' /\ (\A f \in Ends : WindowInv(f)') /\ n < HalfRange
  BY <1>1, <1>3, EmitKeeps DEF recvVars, histVars
<1>5. q.kind = "eventual" /\ q.to = "client" /\ q.seq = n /\ q.id = t
  BY DEF NewPacket, Peer
<1>6. n \in SeqNums
  BY <1>4, EndFacts, SeqAssumption DEF SeqNums, SeqCount
<1>7. g.packet = n /\ g.token = t /\ g \in [packet : SeqNums, token : Nat]
  BY <1>3, <1>6
<1> HIDE DEF q, t, n, g
<1>8. \A f \in Ends : NumberInv(f)' /\ SentInv(f)'
  BY <1>1, <1>4, <1>5, PlainPacketKeeps
<1>9. TokenInv'
  <2>1. \A i \in 1 .. Len(Tail(old)) : Tail(old)[i] < nextToken /\ Tail(old)[i] # t
    BY <1>3 DEF LinkInv, TokenInv
  <2>2. \A i, j \in 1 .. Len(Tail(old)) : Tail(old)[i] = Tail(old)[j] => i = j
    <3>1. ASSUME NEW i \in 1 .. Len(Tail(old)), NEW j \in 1 .. Len(Tail(old)),
                 Tail(old)[i] = Tail(old)[j]
          PROVE  i = j
      <4>1. i + 1 = j + 1
        BY <1>3, <3>1 DEF LinkInv, TokenInv
      <4> QED
        BY <4>1
    <3> QED
      BY <3>1
  <2>3. ASSUME NEW f \in inFlightEventual
        PROVE  /\ f.token < nextToken /\ f.token # t
               /\ \A i \in 1 .. Len(Tail(old)) : f.token # Tail(old)[i]
               /\ \A h \in inFlightEventual : f.token = h.token => f = h
               /\ \E r \in net' : r.to = "client" /\ r.seq = f.packet /\ r.kind = "eventual" /\ r.id = f.token
    BY <1>3, <1>4 DEF LinkInv, TokenInv
  <2>4. t < nextToken
    BY <1>3 DEF LinkInv, TokenInv
  <2>5. \A f \in inFlightEventual' :
          /\ f.token < nextToken
          /\ \A i \in 1 .. Len(Tail(old)) : f.token # Tail(old)[i]
          /\ \A h \in inFlightEventual' : f.token = h.token => f = h
          /\ \E r \in net' : r.to = "client" /\ r.seq = f.packet /\ r.kind = "eventual" /\ r.id = f.token
    BY <1>1, <1>4, <1>5, <1>7, <2>1, <2>3, <2>4
  <2> QED
    BY <1>1, <2>1, <2>2, <2>5 DEF LinkInv, TokenInv
<1>10. VerdictsSound'
  <2>1. \A f \in eventualFeedback : f.token # t /\ \A i \in 1 .. Len(Tail(old)) : f.token # Tail(old)[i]
    BY <1>3 DEF LinkInv, VerdictsSound
  <2> QED
    BY <1>1, <1>7, <2>1 DEF LinkInv, VerdictsSound, histVars
<1>11. LinkInv'
  BY <1>1, <1>4, <1>8, <1>9, <1>10, QuietStep
<1>12. inFlightEventual' \subseteq [packet : SeqNums, token : Nat]
  BY <1>1, <1>7 DEF TypeOK
<1>13. TypeOK'
  BY <1>1, <1>3, <1>4, <1>12 DEF TypeOK, recvVars, histVars
<1> QED
  BY <1>11, <1>13

LEMMA FailKeeps ==
    ASSUME TypeOK, LinkInv, NEW e \in Ends, Fail(e)
    PROVE  TypeOK' /\ LinkInv'
<1>1. /\ UNCHANGED <<scenario, net, nextPacketSeq, nextMessageID, nextOrderedSeq, recvVars, ackDirty,
                     pending, unreliable, eventVars, histVars>>
      /\ failed' = failed \cup {e}
  BY DEF Fail
<1>2. NetInv' /\ \A f \in Ends : WindowInv(f)'
  BY <1>1, NetKeeps DEF recvVars, histVars
<1>3. \A f \in Ends : NumberInv(f)' /\ SentInv(f)'
  BY <1>1, QueuesUnchanged
<1>4. TokenInv' /\ VerdictsSound'
  BY <1>1, TokensKeep DEF histVars
<1>5. LinkInv'
  BY <1>1, <1>2, <1>3, <1>4, QuietStep
<1>6. TypeOK'
  BY <1>1 DEF TypeOK, recvVars, histVars, eventVars
<1> QED
  BY <1>5, <1>6

-----------------------------------------------------------------------------
(* A packet is received: its acknowledgements. *)

\* What either end drops as delivered the header reports as delivered.
LEMMA DroppedWasReported ==
    ASSUME NEW e \in Ends, NEW m \in Messages, NEW p \in Packets, ~Keeps(e, m, p)
    PROVE  packetAckState(m.last, p.ackSeq, p.ackMask) = "delivered"
<1>1. m.last \in SeqNums /\ p.ackSeq \in SeqNums /\ p.ackMask \in Masks
  BY DEF Messages, Packets
<1>2. ackedGo(m.last, p.ackSeq, p.ackMask) => packetAckState(m.last, p.ackSeq, p.ackMask) = "delivered"
  BY <1>1, ClientAckAgrees
<1> QED
  BY <1>2 DEF Keeps, AckOf, ServerAck, GoAck, JsAck

\* A header does not lie about a packet that is in the network.
LEMMA ReportedWasHandled ==
    ASSUME TypeOK, LinkInv, NEW p \in net, NEW q \in net, q.to = Peer(p.to), q.seq # 0,
           q.seq < SeqCount, packetAckState(q.seq, p.ackSeq, p.ackMask) = "delivered"
    PROVE  Handled(Peer(p.to), q)
<1>1. AckOK(Peer(p.to), p.ackSeq, p.ackMask)
  BY PacketFacts
<1> QED
  BY <1>1 DEF AckOK

LEMMA AcksKeepQueues ==
    ASSUME TypeOK, LinkInv, NEW e \in Ends, NEW p \in net, p.to = e, ApplyAcks(e, p),
           UNCHANGED <<scenario, net, nextMessageID, nextOrderedSeq>>,
           \A f \in Ends : received[f] \subseteq received'[f]
    PROVE  /\ pending' \in [Ends -> SUBSET Messages]
           /\ pruned' \in [Ends -> SUBSET [id : Nat, packet : SeqNums]]
           /\ PrunedWasReceived' /\ \A f \in Ends : NumberInv(f)' /\ SentInv(f)'
<1>1. /\ pending \in [Ends -> SUBSET Messages] /\ p \in Packets
      /\ pruned \in [Ends -> SUBSET [id : Nat, packet : SeqNums]]
  BY DEF TypeOK
<1>2. /\ pending' = [pending EXCEPT ![e] = AckedQueue(e, p)]
      /\ pruned' = [pruned EXCEPT ![e] = pruned[e] \cup AckedMessages(e, p)]
  BY DEF ApplyAcks
<1>3. \A m \in pending[e] : m \in Messages
  BY <1>1
<1>4. ASSUME NEW m \in AckedQueue(e, p)
      PROVE  /\ m \in Messages
             /\ \E k \in pending[e] : /\ m.id = k.id /\ m.lane = k.lane /\ m.orderedSeq = k.orderedSeq
                                      /\ m.last = k.last
  <2>1. PICK k \in pending[e] : m = AfterAck(e, k, p)
    BY DEF AckedQueue
  <2>2. k \in Messages
    BY <1>3
  <2> QED
    BY <2>1, <2>2 DEF AfterAck, Messages
<1>5. ASSUME NEW r \in AckedMessages(e, p)
      PROVE  /\ r \in [id : Nat, packet : SeqNums]
             /\ r.packet # 0 => r.id \in received[Peer(e)]
  <2>1. PICK m \in pending[e] : ~Keeps(e, m, p) /\ r = [id |-> m.id, packet |-> m.last]
    BY DEF AckedMessages
  <2>2. m \in Messages /\ m.id \in Nat /\ m.last \in SeqNums
    BY <1>3 DEF Messages
  <2>3. ASSUME m.last # 0 PROVE m.id \in received[Peer(e)]
    <3>1. PICK q \in net : q.to = Peer(e) /\ q.seq = m.last /\ q.kind \in Lanes /\ q.id = m.id
      BY <2>3, EndFacts DEF SentInv
    <3>2. q.seq < SeqCount
      BY <2>2, <3>1, SeqAssumption DEF SeqNums, SeqCount
    <3>3. packetAckState(q.seq, p.ackSeq, p.ackMask) = "delivered"
      BY <1>1, <2>1, <2>2, <3>1, DroppedWasReported
    <3>4. Handled(Peer(e), q)
      BY <2>3, <3>1, <3>2, <3>3, ReportedWasHandled
    <3> QED
      BY <3>1, <3>4 DEF Handled
  <2> QED
    BY <2>1, <2>2, <2>3
<1>6. pending'[e] = AckedQueue(e, p) /\ \A f \in Ends : f # e => pending'[f] = pending[f]
  BY <1>1, <1>2
<1>7. pending' \in [Ends -> SUBSET Messages]
  <2>1. AckedQueue(e, p) \in SUBSET Messages
    BY <1>4
  <2> QED
    BY <1>1, <1>2, <2>1
<1>8. pruned' \in [Ends -> SUBSET [id : Nat, packet : SeqNums]]
  <2>1. pruned[e] \cup AckedMessages(e, p) \in SUBSET [id : Nat, packet : SeqNums]
    BY <1>1, <1>5
  <2> QED
    BY <1>1, <1>2, <2>1
<1>9. PrunedWasReceived'
  <2> SUFFICES ASSUME NEW f \in Ends, NEW r \in pruned'[f], r.packet # 0
               PROVE  r.id \in received'[Peer(f)]
    BY DEF PrunedWasReceived
  <2>1. r.id \in received[Peer(f)]
    <3>1. CASE r \in pruned[f]
      BY <3>1 DEF LinkInv, PrunedWasReceived
    <3>2. CASE f = e /\ r \in AckedMessages(e, p)
      BY <1>5, <3>2
    <3> QED
      BY <1>1, <1>2, <3>1, <3>2
  <2> QED
    BY <2>1, Peers
<1>10. \A f \in Ends : \A m \in pending'[f] : \E k \in pending[f] :
          m.id = k.id /\ m.lane = k.lane /\ m.orderedSeq = k.orderedSeq /\ m.last = k.last
  BY <1>4, <1>6
<1>11. \A f \in Ends : NumberInv(f)'
  <2>1. ASSUME NEW f \in Ends PROVE Numbered(f)' \subseteq Numbered(f)
    <3>1. Queued(f)' \subseteq Queued(f)
      BY <1>10 DEF Queued
    <3> QED
      BY <3>1 DEF Numbered, Carried
  <2> QED
    BY <2>1, NumbersKeep
<1>12. \A f \in Ends : SentInv(f)'
  BY <1>7, <1>10, QueueKeeps
<1> QED
  BY <1>7, <1>8, <1>9, <1>11, <1>12

LEMMA AcksKeepTokens ==
    ASSUME TypeOK, LinkInv, NEW e \in Ends, NEW p \in net, p.to = e, ApplyAcks(e, p),
           UNCHANGED <<net, nextToken, pendingEventual>>, gotTokens \subseteq gotTokens'
    PROVE  /\ inFlightEventual' \subseteq [packet : SeqNums, token : Nat]
           /\ eventualFeedback' \subseteq [token : Nat, packet : SeqNums, delivered : BOOLEAN]
           /\ TokenInv' /\ VerdictsSound'
<1>1. CASE e # "server"
  <2>1. UNCHANGED <<inFlightEventual, eventualFeedback>>
    BY <1>1 DEF ApplyAcks
  <2>2. UNCHANGED eventVars
    BY <2>1 DEF eventVars
  <2>3. TokenInv' /\ VerdictsSound'
    BY <2>2, TokensKeep
  <2> QED
    BY <2>1, <2>3 DEF TypeOK
<1>2. CASE e = "server"
  <2> DEFINE verdict(f) == [token |-> f.token, packet |-> f.packet,
                            delivered |-> Verdict(f, p) = "delivered"]
  <2>1. /\ inFlightEventual' = inFlightEventual \ Settled(p)
        /\ eventualFeedback' = eventualFeedback \cup {verdict(f) : f \in Settled(p)}
    BY <1>2 DEF ApplyAcks, Forgotten
  <2>2. \A f \in inFlightEventual : f.packet \in SeqNums /\ f.token \in Nat
    BY DEF TypeOK
  <2>3. Settled(p) \subseteq inFlightEventual
    BY DEF Settled
  <2>4. inFlightEventual' \subseteq [packet : SeqNums, token : Nat]
    BY <2>1 DEF TypeOK
  <2>5. eventualFeedback' \subseteq [token : Nat, packet : SeqNums, delivered : BOOLEAN]
    <3>1. \A f \in Settled(p) : verdict(f) \in [token : Nat, packet : SeqNums, delivered : BOOLEAN]
      BY <2>2, <2>3
    <3> HIDE DEF verdict
    <3> QED
      BY <2>1, <3>1 DEF TypeOK
  <2>6. ASSUME NEW f \in Settled(p), Verdict(f, p) = "delivered", f.packet # 0
        PROVE  f.token \in gotTokens
    <3>1. PICK q \in net : q.to = "client" /\ q.seq = f.packet /\ q.kind = "eventual" /\ q.id = f.token
      BY <2>3 DEF LinkInv, TokenInv
    <3>2. q.seq < SeqCount /\ q.to = Peer(p.to)
      BY <1>2, <2>2, <2>3, <3>1, SeqAssumption DEF SeqNums, SeqCount, Peer
    <3>3. Handled("client", q)
      BY <1>2, <2>6, <3>1, <3>2, ReportedWasHandled DEF Verdict
    <3> QED
      BY <3>1, <3>3 DEF Handled
  <2>7. TokenInv'
    <3>1. \A f \in Settled(p) : verdict(f).token < nextToken
      BY <2>3 DEF LinkInv, TokenInv
    <3> HIDE DEF verdict
    <3>2. \A f \in eventualFeedback' : f.token < nextToken
      BY <2>1, <3>1 DEF LinkInv, TokenInv
    <3> QED
      BY <2>1, <3>2 DEF LinkInv, TokenInv
  <2>8. \A f \in Settled(p) : /\ verdict(f).token = f.token /\ verdict(f).packet = f.packet
                              /\ verdict(f).delivered => Verdict(f, p) = "delivered"
    OBVIOUS
  <2> HIDE DEF verdict
  <2>9. \A f, g \in eventualFeedback' : f.token = g.token => f = g
    <3> SUFFICES ASSUME NEW f \in eventualFeedback', NEW g \in eventualFeedback', f.token = g.token
                 PROVE  f = g
      OBVIOUS
    <3>1. CASE f \in eventualFeedback /\ g \in eventualFeedback
      BY <3>1 DEF LinkInv, VerdictsSound
    <3>2. ASSUME NEW a \in eventualFeedback, NEW b \in Settled(p) PROVE a.token # verdict(b).token
      BY <2>3, <2>8 DEF LinkInv, VerdictsSound
    <3>3. ASSUME NEW a \in Settled(p), NEW b \in Settled(p), verdict(a).token = verdict(b).token
          PROVE  a = b
      BY <2>3, <2>8, <3>3 DEF LinkInv, TokenInv
    <3> QED
      BY <2>1, <3>1, <3>2, <3>3
  <2>10. ASSUME NEW f \in eventualFeedback'
         PROVE  /\ \A g \in inFlightEventual' : g.token # f.token
                /\ \A i \in 1 .. Len(pendingEventual) : f.token # pendingEventual[i]
                /\ f.delivered /\ f.packet # 0 => f.token \in gotTokens
    <3>1. CASE f \in eventualFeedback
      BY <2>1, <3>1 DEF LinkInv, VerdictsSound
    <3>2. ASSUME NEW h \in Settled(p), f = verdict(h)
          PROVE  /\ \A g \in inFlightEventual' : g.token # f.token
                 /\ \A i \in 1 .. Len(pendingEventual) : f.token # pendingEventual[i]
                 /\ f.delivered /\ f.packet # 0 => f.token \in gotTokens
      <4>1. \A g \in inFlightEventual' : g.token # f.token
        BY <2>1, <2>3, <2>8, <3>2 DEF LinkInv, TokenInv
      <4>2. \A i \in 1 .. Len(pendingEventual) : f.token # pendingEventual[i]
        BY <2>3, <2>8, <3>2 DEF LinkInv, TokenInv
      <4>3. f.delivered /\ f.packet # 0 => f.token \in gotTokens
        BY <2>6, <2>8, <3>2
      <4> QED
        BY <4>1, <4>2, <4>3
    <3> QED
      BY <2>1, <3>1, <3>2
  <2>11. VerdictsSound'
    BY <2>9, <2>10 DEF VerdictsSound
  <2> QED
    BY <2>4, <2>5, <2>7, <2>11
<1> QED
  BY <1>1, <1>2

-----------------------------------------------------------------------------
(* A packet is received: the windows. *)

\* Messages on their way to e are told apart by ID and, if ordered, by order
\* number.
LEMMA CarriedFacts ==
    ASSUME TypeOK, LinkInv, NEW e \in Ends
    PROVE  /\ \A a \in Carried(e) :
                 /\ a.id \in 0 .. HalfRange - 1 /\ a.seq \in 0 .. HalfRange - 1 /\ a.lane \in Lanes
                 /\ a.id < nextMessageID[Peer(e)]
                 /\ a.lane = "unordered" => a.seq = 0
           /\ \A a, b \in Carried(e) :
                 \/ a.id = b.id
                 \/ a.lane = "ordered" /\ b.lane = "ordered" /\ a.seq = b.seq
                 => a = b
<1>1. Carried(e) \subseteq Numbered(Peer(e)) /\ Peer(e) \in Ends
  BY Peers DEF Numbered
<1>2. NumberInv(Peer(e)) /\ nextMessageID[Peer(e)] \in 0 .. HalfRange /\ nextOrderedSeq[Peer(e)] \in 0 .. HalfRange
  BY <1>1, EndFacts
<1>3. ASSUME NEW a \in Carried(e)
      PROVE  /\ a.id \in 0 .. HalfRange - 1 /\ a.seq \in 0 .. HalfRange - 1 /\ a.lane \in Lanes
             /\ a.id < nextMessageID[Peer(e)]
             /\ a.lane = "unordered" => a.seq = 0
  <2>1. PICK p \in net : p.kind \in Lanes /\ a = [id |-> p.id, lane |-> p.kind, seq |-> p.orderedSeq]
    BY DEF Carried
  <2>2. a.id \in Nat /\ a.seq \in Nat /\ a.lane \in Lanes
    BY <2>1, PacketFacts
  <2>3. /\ a.id < nextMessageID[Peer(e)]
        /\ a.lane = "ordered" => a.seq < nextOrderedSeq[Peer(e)]
        /\ a.lane = "unordered" => a.seq = 0
    BY <1>1, <1>2 DEF NumberInv
  <2> QED
    BY <1>2, <2>2, <2>3, SeqAssumption
<1> QED
  BY <1>1, <1>2, <1>3 DEF NumberInv

\* Where the three implementations of the window do not differ.
LEMMA SameWindows ==
    ASSUME NEW e \in Ends, NEW w \in Windows, w.init \/ w = EmptyWindow, w.latest < HalfRange,
           NEW n \in 0 .. HalfRange - 1
    PROVE  (Accepts(e, w, n) <=> accepts(w, n)) /\ AfterAccept(e, w, n) = afterAccept(w, n)
  BY SmallWindows DEF Accepts, AfterAccept

\* The window over packets after p.
LEMMA PacketWindowKeeps ==
    ASSUME TypeOK, LinkInv, NEW e \in Ends, NEW p \in net, p.to = e, p.kind # "ack",
           UNCHANGED <<net, nextPacketSeq>>,
           recvPackets' = [recvPackets EXCEPT ![e] = AfterAccept(e, @, p.seq)],
           recvReliableMsgs' \in [Ends -> Windows],
           \A f \in Ends : /\ recvReliableMsgs'[f].init \/ recvReliableMsgs'[f] = EmptyWindow
                           /\ recvReliableMsgs'[f].latest < HalfRange,
           \A f \in Ends : received[f] \subseteq received'[f], gotTokens \subseteq gotTokens',
           Handled(e, p)'
    PROVE  NetInv' /\ recvPackets' \in [Ends -> Windows] /\ \A f \in Ends : WindowInv(f)'
<1> DEFINE w == recvPackets[e]
           v == afterAccept(w, p.seq)
<1>0. nextPacketSeq \in [Ends -> 0 .. HalfRange] /\ nextPacketSeq[Peer(e)] \in 0 .. HalfRange
  BY Peers DEF TypeOK
<1>1. p.seq \in 0 .. HalfRange - 1 /\ p.seq < nextPacketSeq[Peer(e)] /\ p.seq \in SeqNums
  <2>1. p.seq < nextPacketSeq[Peer(e)] /\ p.seq \in 0 .. SeqCount
    BY PacketFacts
  <2> QED
    BY <1>0, <2>1, SeqAssumption DEF SeqNums, SeqCount
<1>2. /\ w \in Windows /\ (w.init \/ w = EmptyWindow)
      /\ AckOK(e, w.latest, w.mask) /\ w.latest \in SeqNums /\ w.mask \in Masks
  BY EndFacts DEF WindowInv
<1>3. w.latest < HalfRange
  BY <1>0, <1>2, SeqAssumption DEF AckOK, SeqNums
<1>4. recvPackets' = [recvPackets EXCEPT ![e] = v] /\ v \in Windows
  BY <1>1, <1>2, <1>3, SameWindows, AcceptKeepsWindow
<1>5. recvPackets' \in [Ends -> Windows] /\ recvPackets'[e] = v
      /\ \A f \in Ends : f # e => recvPackets'[f] = recvPackets[f]
  BY <1>4 DEF TypeOK
<1>6. ASSUME NEW f \in Ends, NEW a \in SeqNums, NEW mask, AckOK(f, a, mask) PROVE AckOK(f, a, mask)'
  BY <1>0, <1>6, AckKeeps
<1>7. NetInv'
  <2>1. ASSUME NEW q \in net PROVE AckOK(Peer(q.to), q.ackSeq, q.ackMask)'
    BY <1>6, PacketFacts, Peers
  <2> QED
    BY <2>1 DEF LinkInv, NetInv
<1>8. v.latest \in {w.latest, p.seq} /\ v.init
  BY <1>1, <1>2, LatestAfter
<1>9. ASSUME NEW a, NEW mask, a = v.latest, mask = v.mask PROVE AckOK(e, a, mask)'
  <2>1. a = 0 \/ a < nextPacketSeq[Peer(e)]
    BY <1>1, <1>2, <1>8, <1>9 DEF AckOK
  <2>2. ASSUME NEW q \in net, q.to = e, q.seq # 0, q.seq < SeqCount,
               packetAckState(q.seq, a, mask) = "delivered"
        PROVE  Handled(e, q)'
    <3>1. q.seq \in SeqNums
      BY <2>2, PacketFacts, SeqAssumption DEF SeqNums, SeqCount
    <3>2. CASE q.seq = p.seq
      <4>1. q = p
        BY <1>1, <2>2, <3>2, SeqAssumption DEF LinkInv, NetInv, SeqCount
      <4> QED
        BY <4>1
    <3>3. CASE packetAckState(q.seq, w.latest, w.mask) = "delivered"
      <4>1. Handled(e, q)
        BY <1>2, <2>2, <3>3 DEF AckOK
      <4> QED
        BY <4>1 DEF Handled
    <3>4. q.seq = p.seq \/ packetAckState(q.seq, w.latest, w.mask) = "delivered"
      BY <1>1, <1>2, <1>9, <2>2, <3>1, ReportsNothingElse
    <3> QED
      BY <3>2, <3>3, <3>4
  <2> QED
    BY <2>1, <2>2 DEF AckOK
<1>10. ASSUME NEW f \in Ends PROVE WindowInv(f)'
  <2>1. AckOK(f, recvPackets[f].latest, recvPackets[f].mask)'
    <3>1. CASE f = e
      <4> HIDE DEF v, w
      <4>1. \A a, mask : a = v.latest /\ mask = v.mask => AckOK(e, a, mask)'
        BY <1>9
      <4> QED
        BY <1>5, <3>1, <4>1
    <3>2. CASE f # e
      <4>1. \A a \in SeqNums, mask \in Masks : AckOK(f, a, mask) => AckOK(f, a, mask)'
        BY <1>6
      <4> QED
        BY <1>5, <3>2, <4>1, EndFacts DEF WindowInv
    <3> QED
      BY <3>1, <3>2
  <2>2. recvPackets'[f].init \/ recvPackets'[f] = EmptyWindow
    BY <1>5, <1>8, EndFacts DEF WindowInv
  <2> QED
    BY <2>1, <2>2 DEF WindowInv
<1> QED
  BY <1>5, <1>7, <1>10

\* The window over messages after p, and what it refuses.
LEMMA MessageWindowKeeps ==
    ASSUME TypeOK, LinkInv, NEW e \in Ends, NEW id \in 0 .. HalfRange - 1, NEW dedup \in BOOLEAN,
           recvReliableMsgs' = [recvReliableMsgs EXCEPT ![e] =
                                   IF dedup THEN AfterAccept(e, @, id) ELSE @]
    PROVE  /\ recvReliableMsgs' \in [Ends -> Windows]
           /\ \A f \in Ends : /\ recvReliableMsgs'[f].init \/ recvReliableMsgs'[f] = EmptyWindow
                              /\ recvReliableMsgs'[f].latest < HalfRange
           /\ recvReliableMsgs'[e] = IF dedup THEN afterAccept(recvReliableMsgs[e], id)
                                              ELSE recvReliableMsgs[e]
           /\ \A f \in Ends : f # e => recvReliableMsgs'[f] = recvReliableMsgs[f]
           /\ \A x \in 0 .. HalfRange - 1 :
                 ~accepts(recvReliableMsgs[e], x) => ~accepts(recvReliableMsgs'[e], x)
           /\ dedup => ~accepts(recvReliableMsgs'[e], id)
<1> DEFINE w == recvReliableMsgs[e]
           v == IF dedup THEN afterAccept(w, id) ELSE w
<1>1. /\ w \in Windows /\ (w.init \/ w = EmptyWindow)
      /\ w.latest < HalfRange /\ recvReliableMsgs \in [Ends -> Windows]
  BY EndFacts DEF WindowInv, TypeOK
<1>2. id \in SeqNums
  BY SeqAssumption DEF SeqNums, SeqCount
<1>3. v \in Windows /\ recvReliableMsgs' = [recvReliableMsgs EXCEPT ![e] = v]
  BY <1>1, <1>2, SameWindows, AcceptKeepsWindow
<1>4. (v.init \/ v = EmptyWindow) /\ v.latest < HalfRange
  BY <1>1, <1>2, LatestAfter, SeqAssumption
<1>5. \A x \in 0 .. HalfRange - 1 : ~accepts(w, x) => ~accepts(v, x)
  BY <1>1, StaysRefused
<1>6. dedup => ~accepts(v, id)
  <2>1. CASE accepts(w, id)
    BY <1>1, <1>2, <2>1, AcceptOnce
  <2>2. CASE ~accepts(w, id)
    BY <1>5, <2>2
  <2> QED
    BY <2>1, <2>2
<1>7. recvReliableMsgs'[e] = v /\ \A f \in Ends : f # e => recvReliableMsgs'[f] = recvReliableMsgs[f]
  BY <1>1, <1>3
<1>8. recvReliableMsgs' \in [Ends -> Windows]
  BY <1>1, <1>3
<1>9. \A f \in Ends : /\ recvReliableMsgs'[f].init \/ recvReliableMsgs'[f] = EmptyWindow
                      /\ recvReliableMsgs'[f].latest < HalfRange
  <2> HIDE DEF v
  <2> QED
    BY <1>4, <1>7, EndFacts DEF WindowInv
<1>10. v = IF dedup THEN afterAccept(recvReliableMsgs[e], id) ELSE recvReliableMsgs[e]
  OBVIOUS
<1> HIDE DEF v
<1> QED
  BY <1>5, <1>6, <1>7, <1>8, <1>9, <1>10

-----------------------------------------------------------------------------
(* A packet is received: deliveries. *)

\* The run that completes a gap is found.
LEMMA RunFacts ==
    ASSUME NEW o, IsFiniteSet(o.pending), NEW seq \in Nat
    PROVE  /\ Run(o, seq) \in Nat
           /\ \A k \in 1 .. Run(o, seq) : \E b \in o.pending : b.seq = seq + k
<1> DEFINE c == Cardinality(o.pending)
           ready == {n \in 0 .. c : \A k \in 1 .. n : \E b \in o.pending : b.seq = seq + k}
<1>1. c \in Nat
  BY FS_CardinalityType
<1> HIDE DEF c
<1>2. ready \in SUBSET (0 .. c) /\ 0 \in ready
  BY <1>1
<1>3. \E n \in ready : \A k \in ready : k <= n
  <2> HIDE DEF ready
  <2> QED
    BY <1>1, <1>2, Greatest
<1>4. Run(o, seq) = CHOOSE n \in ready : \A k \in ready : k <= n
  BY DEF Run, c
<1>5. Run(o, seq) \in ready
  <2> HIDE DEF ready
  <2> QED
    BY <1>3, <1>4
<1> QED
  BY <1>1, <1>5

\* One delivery in the unordered lane.
LEMMA DeliverOne ==
    ASSUME NEW d \in Seq(Delivery), NEW a \in Delivery, a.lane = "unordered",
           NEW startsAnywhere, NEW next,
           Once(d), InOrder(d, startsAnywhere), Behind(d, next),
           \A i \in 1 .. Len(d) : d[i].id # a.id
    PROVE  LET D == Append(d, a) IN
           /\ D \in Seq(Delivery) /\ Once(D) /\ InOrder(D, startsAnywhere) /\ Behind(D, next)
           /\ OrderedIn(D) = OrderedIn(d)
           /\ \A i \in 1 .. Len(D) : (i \in 1 .. Len(d) /\ D[i] = d[i]) \/ D[i] = a
<1> DEFINE D == Append(d, a)
<1>1. /\ D \in Seq(Delivery) /\ Len(D) = Len(d) + 1 /\ Len(d) \in Nat
      /\ \A i \in 1 .. Len(d) : D[i] = d[i]
      /\ D[Len(d) + 1] = a
  BY AppendProperties, LenProperties
<1> HIDE DEF D
<1>2. \A i \in 1 .. Len(D) : (i \in 1 .. Len(d) /\ D[i] = d[i]) \/ (i = Len(d) + 1 /\ D[i] = a)
  BY <1>1
<1>3. OrderedIn(D) = OrderedIn(d) /\ \A i \in OrderedIn(d) : D[i] = d[i]
  BY <1>1, <1>2 DEF OrderedIn
<1>4. Once(D)
  BY <1>2 DEF Once
<1>5. InOrder(D, startsAnywhere) /\ Behind(D, next)
  BY <1>3 DEF InOrder, Behind
<1> QED
  BY <1>1, <1>2, <1>3, <1>4, <1>5 DEF D

LEMMA ConcatFacts ==
    ASSUME NEW S, NEW d \in Seq(S), NEW s \in Seq(S), NEW l, l = Len(s)
    PROVE  /\ d \o s \in Seq(S) /\ Len(d \o s) = Len(d) + l /\ Len(d) \in Nat
           /\ \A i \in 1 .. Len(d) : (d \o s)[i] = d[i]
           /\ \A k \in 1 .. l : (d \o s)[Len(d) + k] = s[k]
<1>1. Len(d) \in Nat /\ l \in Nat
  BY LenProperties
<1>2. /\ d \o s \in Seq(S) /\ Len(d \o s) = Len(d) + l
      /\ \A i \in 1 .. Len(d) + l : (d \o s)[i] = IF i <= Len(d) THEN d[i] ELSE s[i - Len(d)]
  BY ConcatProperties
<1>3. \A i \in 1 .. Len(d) : (d \o s)[i] = d[i]
  BY <1>1, <1>2
<1>4. ASSUME NEW k \in 1 .. l PROVE (d \o s)[Len(d) + k] = s[k]
  <2>1. Len(d) + k \in 1 .. Len(d) + l /\ ~(Len(d) + k <= Len(d)) /\ (Len(d) + k) - Len(d) = k
    BY <1>1
  <2> QED
    BY <1>2, <2>1
<1> QED
  BY <1>1, <1>2, <1>3, <1>4

\* A run s of ordered deliveries that starts at the number to expect next.
RunReady(C, d, s, n, next, startsAnywhere, D) ==
    /\ \A a, b \in C : a.id = b.id => a = b
    /\ d \in Seq(Delivery) /\ D \in Seq(Delivery) /\ n \in Nat /\ next \in Nat
    /\ \A i \in 1 .. Len(d) : d[i] \in C
    /\ \A k \in 1 .. n + 1 : s[k] \in C /\ s[k].lane = "ordered" /\ s[k].seq = next + (k - 1)
    /\ Once(d) /\ InOrder(d, startsAnywhere) /\ Behind(d, next)
    /\ ~startsAnywhere /\ OrderedIn(d) = {} => next = 0
    /\ Len(D) = Len(d) + (n + 1)
    /\ \A i \in 1 .. Len(d) : D[i] = d[i]
    /\ \A k \in 1 .. n + 1 : D[Len(d) + k] = s[k]

RunDone(d, s, n, next, startsAnywhere, D) ==
    /\ \A i \in 1 .. Len(D) : (i \in 1 .. Len(d) /\ D[i] = d[i])
                              \/ \E k \in 1 .. n + 1 : i = Len(d) + k /\ D[i] = s[k]
    /\ OrderedIn(D) # {} /\ Once(D) /\ InOrder(D, startsAnywhere) /\ Behind(D, next + n + 1)

LEMMA DeliverRun ==
    ASSUME NEW C, NEW d, NEW s, NEW n, NEW next, NEW startsAnywhere \in BOOLEAN, NEW D,
           RunReady(C, d, s, n, next, startsAnywhere, D)
    PROVE  RunDone(d, s, n, next, startsAnywhere, D)
<1>0. /\ \A a, b \in C : a.id = b.id => a = b
      /\ d \in Seq(Delivery) /\ D \in Seq(Delivery) /\ n \in Nat /\ next \in Nat
      /\ \A i \in 1 .. Len(d) : d[i] \in C
      /\ \A k \in 1 .. n + 1 : s[k] \in C /\ s[k].lane = "ordered" /\ s[k].seq = next + (k - 1)
      /\ Once(d) /\ InOrder(d, startsAnywhere) /\ Behind(d, next)
      /\ ~startsAnywhere /\ OrderedIn(d) = {} => next = 0
      /\ Len(D) = Len(d) + (n + 1)
      /\ \A i \in 1 .. Len(d) : D[i] = d[i]
      /\ \A k \in 1 .. n + 1 : D[Len(d) + k] = s[k]
  BY DEF RunReady
<1> USE <1>0
<1> DEFINE L == Len(d)
<1>1. /\ Len(D) = L + n + 1 /\ L \in Nat
      /\ \A i \in 1 .. L : D[i] = d[i]
      /\ \A k \in 1 .. n + 1 : D[L + k] = s[k]
  <2>1. Len(d) \in Nat
    BY LenProperties
  <2> QED
    BY <2>1
<1>2. L \in Nat
  BY <1>1
<1> HIDE DEF L
<1>3. \A i \in 1 .. Len(D) : (i \in 1 .. L /\ D[i] = d[i])
                             \/ \E k \in 1 .. n + 1 : i = L + k /\ D[i] = s[k]
  <2> SUFFICES ASSUME NEW i \in 1 .. Len(D), i \notin 1 .. L
               PROVE  \E k \in 1 .. n + 1 : i = L + k /\ D[i] = s[k]
    BY <1>1
  <2>1. i - L \in 1 .. n + 1 /\ i = L + (i - L)
    BY <1>1
  <2> QED
    BY <1>1, <2>1
<1>4. \A i \in 1 .. L : i \in OrderedIn(D) <=> i \in OrderedIn(d)
  BY <1>1 DEF OrderedIn, L
<1>5. \A k \in 1 .. n + 1 : L + k \in OrderedIn(D) /\ D[L + k].seq = next + (k - 1) /\ D[L + k] \in C
  <2>1. ASSUME NEW k \in 1 .. n + 1
        PROVE  L + k \in OrderedIn(D) /\ D[L + k].seq = next + (k - 1) /\ D[L + k] \in C
    <3>1. L + k \in 1 .. Len(D)
      BY <1>1, <1>2
    <3>2. D[L + k] = s[k] /\ s[k] \in C /\ s[k].lane = "ordered" /\ s[k].seq = next + (k - 1)
      BY <1>1
    <3> QED
      BY <3>1, <3>2 DEF OrderedIn
  <2> QED
    BY <2>1
<1>6. \A i \in OrderedIn(D) : (i \in 1 .. L /\ i \in OrderedIn(d) /\ D[i] = d[i])
                              \/ \E k \in 1 .. n + 1 : i = L + k
  BY <1>3, <1>4 DEF OrderedIn
<1>7. OrderedIn(d) \subseteq 1 .. L /\ OrderedIn(d) \subseteq OrderedIn(D)
  BY <1>4 DEF OrderedIn, L
<1>8. Once(D)
  <2>1. ASSUME NEW i \in 1 .. L, NEW k \in 1 .. n + 1 PROVE D[i].id # D[L + k].id
    <3>1. CASE D[i].id = D[L + k].id
      <4>1. d[i] = s[k]
        BY <1>1, <3>1 DEF L
      <4>2. i \in OrderedIn(d)
        BY <4>1 DEF OrderedIn, L
      <4>3. d[i].seq < next /\ d[i].seq = next + (k - 1)
        BY <4>1, <4>2 DEF Behind
      <4> QED
        BY <4>3
    <3> QED
      BY <3>1
  <2>2. ASSUME NEW j \in 1 .. n + 1, NEW k \in 1 .. n + 1, D[L + j].id = D[L + k].id PROVE j = k
    <3>1. D[L + j] = D[L + k]
      BY <1>5, <2>2
    <3>2. next + (j - 1) = next + (k - 1)
      BY <1>5, <3>1
    <3> QED
      BY <3>2
  <2>3. ASSUME NEW i \in 1 .. L, NEW j \in 1 .. L, D[i].id = D[j].id PROVE i = j
    BY <1>1, <2>3 DEF Once, L
  <2>4. ASSUME NEW i \in 1 .. Len(D), NEW j \in 1 .. Len(D), D[i].id = D[j].id PROVE i = j
    <3>1. (i \in 1 .. L \/ \E k \in 1 .. n + 1 : i = L + k) /\ (j \in 1 .. L \/ \E k \in 1 .. n + 1 : j = L + k)
      BY <1>3
    <3>2. CASE i \in 1 .. L /\ j \in 1 .. L
      BY <2>3, <2>4, <3>2
    <3>3. ASSUME NEW k \in 1 .. n + 1, i = L + k, j \in 1 .. L PROVE FALSE
      BY <2>1, <2>4, <3>3
    <3>4. ASSUME NEW k \in 1 .. n + 1, j = L + k, i \in 1 .. L PROVE FALSE
      BY <2>1, <2>4, <3>4
    <3>5. ASSUME NEW h \in 1 .. n + 1, i = L + h, NEW k \in 1 .. n + 1, j = L + k PROVE i = j
      BY <2>2, <2>4, <3>5
    <3> QED
      BY <3>1, <3>2, <3>3, <3>4, <3>5
  <2> QED
    BY <2>4 DEF Once
<1>9. ASSUME NEW i \in OrderedIn(D), NEW j \in OrderedIn(D), i < j,
             \A k \in OrderedIn(D) : k <= i \/ j <= k
      PROVE  D[j].seq = D[i].seq + 1
  <2>1. CASE j \in 1 .. L
    <3>0. \A k \in 1 .. n + 1 : ~(L + k < j)
      BY <1>2, <2>1
    <3>1. i \in 1 .. L
      BY <1>6, <1>9, <3>0
    <3>2. i \in OrderedIn(d) /\ j \in OrderedIn(d) /\ D[i] = d[i] /\ D[j] = d[j]
      BY <1>1, <1>4, <2>1, <3>1
    <3> QED
      BY <1>7, <1>9, <3>2 DEF InOrder
  <2>2. ASSUME NEW k \in 1 .. n + 1, j = L + k, i \in 1 .. L PROVE D[j].seq = D[i].seq + 1
    <3>1. 1 \in 1 .. n + 1 /\ L + 1 \in OrderedIn(D)
      BY <1>5
    <3>2. k = 1
      BY <1>2, <1>9, <2>2, <3>1
    <3>3. i \in OrderedIn(d) /\ D[i] = d[i]
      BY <1>1, <1>4, <2>2
    <3>4. \A h \in OrderedIn(d) : h <= i
      <4>1. \A h \in OrderedIn(d) : h \in 1 .. L /\ h \in OrderedIn(D)
        BY <1>7
      <4>2. \A h \in 1 .. L : ~(j <= h)
        BY <1>2, <2>2
      <4> QED
        BY <1>9, <4>1, <4>2
    <3>5. d[i].seq + 1 = next
      BY <3>3, <3>4 DEF Behind
    <3>6. D[j].seq = next + (k - 1)
      BY <1>5, <2>2
    <3> QED
      BY <3>2, <3>3, <3>5, <3>6
  <2>3. ASSUME NEW h \in 1 .. n + 1, NEW k \in 1 .. n + 1, i = L + h, j = L + k
        PROVE  D[j].seq = D[i].seq + 1
    <3>1. h < k
      BY <1>2, <1>9, <2>3
    <3>2. h + 1 \in 1 .. n + 1 /\ L + (h + 1) \in OrderedIn(D)
      BY <1>5, <3>1
    <3>3. k = h + 1
      BY <1>2, <1>9, <2>3, <3>1, <3>2
    <3>4. D[i].seq = next + (h - 1) /\ D[j].seq = next + (k - 1)
      BY <1>5, <2>3
    <3> QED
      BY <3>3, <3>4
  <2> QED
    BY <1>6, <2>1, <2>2, <2>3
<1>10. ASSUME NEW i \in OrderedIn(D), \A k \in OrderedIn(D) : i <= k, ~startsAnywhere
       PROVE  D[i].seq = 0
  <2>1. CASE i \in 1 .. L
    <3>1. i \in OrderedIn(d) /\ D[i] = d[i] /\ \A k \in OrderedIn(d) : i <= k
      BY <1>1, <1>4, <1>7, <1>10, <2>1
    <3> QED
      BY <1>10, <3>1 DEF InOrder
  <2>2. ASSUME NEW k \in 1 .. n + 1, i = L + k PROVE D[i].seq = 0
    <3>1. 1 \in 1 .. n + 1 /\ L + 1 \in OrderedIn(D)
      BY <1>5
    <3>2. k = 1
      BY <1>2, <1>10, <2>2, <3>1
    <3>3. OrderedIn(d) = {}
      <4>1. \A h \in 1 .. L : ~(i <= h)
        BY <1>2, <2>2
      <4> QED
        BY <1>7, <1>10, <4>1
    <3>4. next = 0 /\ D[i].seq = next + (k - 1)
      BY <1>5, <1>10, <2>2, <3>3
    <3> QED
      BY <3>2, <3>4
  <2> QED
    BY <1>6, <2>1, <2>2
<1>11. InOrder(D, startsAnywhere)
  BY <1>9, <1>10 DEF InOrder
<1>12. Behind(D, next + n + 1)
  <2>1. ASSUME NEW i \in OrderedIn(D)
        PROVE  /\ D[i].seq < next + n + 1
               /\ (\A k \in OrderedIn(D) : k <= i) => D[i].seq + 1 = next + n + 1
    <3>0. n + 1 \in 1 .. n + 1 /\ L + (n + 1) \in OrderedIn(D)
      BY <1>5
    <3>1. CASE i \in 1 .. L
      <4>1. i \in OrderedIn(d) /\ D[i] = d[i] /\ d[i] \in Delivery
        BY <1>1, <1>4, <3>1, ElementOfSeq DEF L
      <4>2. d[i].seq < next /\ d[i].seq \in Nat
        BY <4>1 DEF Behind, Delivery
      <4>3. ~(L + (n + 1) <= i)
        BY <1>2, <3>1
      <4> QED
        BY <3>0, <4>1, <4>2, <4>3
    <3>2. ASSUME NEW k \in 1 .. n + 1, i = L + k
          PROVE  /\ D[i].seq < next + n + 1
                 /\ (\A h \in OrderedIn(D) : h <= i) => D[i].seq + 1 = next + n + 1
      <4>1. D[i].seq = next + (k - 1)
        BY <1>5, <3>2
      <4>2. D[i].seq < next + n + 1
        BY <4>1
      <4>3. ASSUME \A h \in OrderedIn(D) : h <= i PROVE D[i].seq + 1 = next + n + 1
        <5>1. L + (n + 1) <= L + k
          BY <3>0, <3>2, <4>3
        <5>2. k = n + 1
          BY <1>2, <5>1
        <5> QED
          BY <4>1, <5>2
      <4> QED
        BY <4>2, <4>3
    <3> QED
      BY <1>6, <3>1, <3>2
  <2> QED
    BY <2>1 DEF Behind
<1>13. OrderedIn(D) # {}
  BY <1>5
<1> QED
  BY <1>3, <1>8, <1>11, <1>12, <1>13 DEF L, RunDone

Receivers == [started : BOOLEAN, nextSeq : Nat, pending : SUBSET Buffered]

\* What accepting ordered message (seq, id) into o comes to: D has been
\* delivered and v is the receiver.
Accepted(e, o, seq, id, D, v) ==
    /\ v \in Receivers /\ v.started = o.started /\ D \in Seq(Delivery)
    /\ \A i \in 1 .. Len(D) :
          D[i] \in Carried(e) /\ (D[i].lane = "ordered" \/ (i \in 1 .. Len(delivered[e]) /\ D[i] = delivered[e][i]))
    /\ \A i \in 1 .. Len(delivered[e]) : i \in 1 .. Len(D) /\ D[i] = delivered[e][i]
    /\ Once(D) /\ InOrder(D, Kind(e) = "go") /\ OrderInv(e, D, v)
    /\ \A k \in o.nextSeq .. v.nextSeq - 1 : \E i \in OrderedIn(D) : D[i].seq = k
    /\ \A b \in o.pending : b \in v.pending \/ \E i \in 1 .. Len(D) : D[i].id = b.id
    /\ \/ seq < o.nextSeq
       \/ \E b \in v.pending : b.id = id
       \/ \E i \in 1 .. Len(D) : D[i].id = id

\* The message is not the next one: it is buffered or ignored.
LEMMA AcceptWaits ==
    ASSUME TypeOK, LinkInv, NEW e \in Ends, NEW o \in Receivers, OrderInv(e, delivered[e], o),
           NEW seq \in 0 .. HalfRange - 1, NEW id \in Nat, seq # o.nextSeq,
           [id |-> id, lane |-> "ordered", seq |-> seq] \in Carried(e)
    PROVE  LET r == AcceptFrom(o, seq, id) IN Accepted(e, o, seq, id, delivered[e] \o r[2], r[1])
<1> DEFINE d == delivered[e]
           r == AcceptFrom(o, seq, id)
           new == [seq |-> seq, id |-> id]
<1>1. /\ d \in Seq(Delivery) /\ (\A i \in 1 .. Len(d) : d[i] \in Carried(e))
      /\ Once(d) /\ InOrder(d, Kind(e) = "go")
  BY EndFacts, DeliveriesApart DEF LinkInv, DeliveredInv
<1>2. o.nextSeq \in Nat /\ o.pending \subseteq Buffered /\ o.nextSeq <= HalfRange /\ HalfRange \in Nat
  BY SeqAssumption DEF Receivers, OrderInv
<1>3. seqGreater(seq, o.nextSeq) <=> seq > o.nextSeq
  BY <1>2 DEF seqGreater
<1>4. d \o <<>> = d
  BY <1>1, ConcatEmptySeq
<1>5. CASE seq > o.nextSeq
  <2> DEFINE queue == IF \E b \in o.pending : b.seq = seq THEN o.pending ELSE o.pending \cup {new}
             v == [o EXCEPT !.pending = queue]
  <2>1. r[1] = v /\ r[2] = <<>>
    BY <1>3, <1>5 DEF AcceptFrom
  <2>2. new.seq = seq /\ new.id = id /\ new \in Buffered
    BY DEF Buffered
  <2> HIDE DEF new
  <2>3. queue \subseteq Buffered /\ o.pending \subseteq queue /\ (\A b \in queue : b \in o.pending \/ b = new)
        /\ \E b \in queue : b.seq = seq
    BY <1>2, <2>2
  <2>4. IsFiniteSet(queue)
    <3>1. IsFiniteSet(o.pending)
      BY DEF OrderInv
    <3> QED
      BY <3>1, FS_AddElement
  <2>5. \A b, c \in queue : b.seq = c.seq => b = c
    <3>1. \A b, c \in o.pending : b.seq = c.seq => b = c
      BY DEF OrderInv
    <3> QED
      BY <2>2, <3>1
  <2> HIDE DEF queue
  <2>6. v.pending = queue /\ v.nextSeq = o.nextSeq /\ v.started = o.started /\ v \in Receivers
    BY <2>3 DEF Receivers
  <2> HIDE DEF v
  <2>7. ASSUME NEW b \in queue
        PROVE  [id |-> b.id, lane |-> "ordered", seq |-> b.seq] \in Carried(e) /\ b.seq >= o.nextSeq
    <3>1. CASE b \in o.pending
      BY <3>1 DEF OrderInv
    <3>2. CASE b = new
      BY <1>2, <1>5, <2>2, <3>2
    <3> QED
      BY <2>3, <3>1, <3>2
  <2>8. OrderInv(e, d, v)
    BY <2>4, <2>5, <2>6, <2>7 DEF OrderInv
  <2>9. \E b \in v.pending : b.id = id
    <3>1. PICK b \in queue : b.seq = seq
      BY <2>3
    <3>2. [id |-> b.id, lane |-> "ordered", seq |-> b.seq] = [id |-> id, lane |-> "ordered", seq |-> seq]
      BY <2>7, <3>1, CarriedFacts
    <3> QED
      BY <2>6, <3>1, <3>2
  <2>10. Accepted(e, o, seq, id, d, v)
    <3>1. \A k \in o.nextSeq .. v.nextSeq - 1 : FALSE
      BY <1>2, <2>6
    <3>2. \A b \in o.pending : b \in v.pending
      BY <2>3, <2>6
    <3>3. \A i \in 1 .. Len(d) : d[i] \in Carried(e) /\ i \in 1 .. Len(delivered[e]) /\ d[i] = delivered[e][i]
      BY <1>1
    <3> QED
      BY <1>1, <2>6, <2>8, <2>9, <3>1, <3>2, <3>3 DEF Accepted
  <2> QED
    BY <1>4, <2>1, <2>10
<1>6. CASE ~(seq > o.nextSeq)
  <2>1. r[1] = o /\ r[2] = <<>>
    BY <1>3, <1>6 DEF AcceptFrom
  <2>2. Accepted(e, o, seq, id, d, o)
    <3>1. (\A k \in o.nextSeq .. o.nextSeq - 1 : FALSE) /\ seq < o.nextSeq
      BY <1>2, <1>6
    <3>2. \A i \in 1 .. Len(d) : d[i] \in Carried(e) /\ i \in 1 .. Len(delivered[e]) /\ d[i] = delivered[e][i]
      BY <1>1
    <3> QED
      BY <1>1, <3>1, <3>2 DEF Accepted
  <2> QED
    BY <1>4, <2>1, <2>2
<1> QED
  BY <1>5, <1>6

\* The message is the next one: it is delivered with the run it completes.
LEMMA AcceptDelivers ==
    ASSUME TypeOK, LinkInv, NEW e \in Ends, NEW o \in Receivers, OrderInv(e, delivered[e], o),
           NEW seq \in 0 .. HalfRange - 1, NEW id \in Nat, seq = o.nextSeq,
           [id |-> id, lane |-> "ordered", seq |-> seq] \in Carried(e)
    PROVE  LET r == AcceptFrom(o, seq, id) IN Accepted(e, o, seq, id, delivered[e] \o r[2], r[1])
<1> DEFINE d == delivered[e]
           n == Run(o, seq)
           item(k) == IF k = 0 THEN [seq |-> seq, id |-> id]
                      ELSE CHOOSE b \in o.pending : b.seq = seq + k
           s == [k \in 1 .. n + 1 |-> [lane |-> "ordered", id |-> item(k - 1).id,
                                       seq |-> item(k - 1).seq]]
           queue == {b \in o.pending : b.seq > seq + n}
           v == [o EXCEPT !.nextSeq = seq + n + 1, !.pending = queue]
           D == d \o s
<1>1. AcceptFrom(o, seq, id) = <<v, s>>
  BY DEF AcceptFrom
<1>2. /\ d \in Seq(Delivery) /\ (\A i \in 1 .. Len(d) : d[i] \in Carried(e))
      /\ Once(d) /\ InOrder(d, Kind(e) = "go")
  BY EndFacts, DeliveriesApart DEF LinkInv, DeliveredInv
<1>3. /\ o.pending \subseteq Buffered /\ HalfRange \in Nat /\ IsFiniteSet(o.pending) /\ Behind(d, seq)
      /\ \A b \in o.pending :
            [id |-> b.id, lane |-> "ordered", seq |-> b.seq] \in Carried(e) /\ b.seq >= seq /\ b.seq \in Nat
      /\ \A b, c \in o.pending : b.seq = c.seq => b = c
      /\ Kind(e) # "go" /\ OrderedIn(d) = {} => seq = 0
  BY SeqAssumption DEF Receivers, OrderInv, Buffered
<1>4. seq \in Nat /\ n \in Nat /\ \A k \in 1 .. n : \E b \in o.pending : b.seq = seq + k
  <2>1. seq \in Nat /\ IsFiniteSet(o.pending)
    BY <1>3
  <2> QED
    BY <2>1, RunFacts
<1> HIDE DEF n
<1>5. ASSUME NEW k \in 0 .. n
      PROVE  /\ [id |-> item(k).id, lane |-> "ordered", seq |-> item(k).seq] \in Carried(e)
             /\ item(k).seq = seq + k
  <2>1. CASE k = 0
    BY <1>4, <2>1
  <2>2. CASE k # 0
    <3>1. k \in 1 .. n
      BY <1>4, <2>2
    <3>2. item(k) \in o.pending /\ item(k).seq = seq + k
      BY <1>4, <2>2, <3>1
    <3> QED
      BY <1>3, <3>2
  <2> QED
    BY <2>1, <2>2
<1>6. ASSUME NEW k \in 1 .. n + 1
      PROVE  s[k] \in Carried(e) /\ s[k].lane = "ordered" /\ s[k].seq = seq + (k - 1) /\ s[k] \in Delivery
  <2>1. k - 1 \in 0 .. n
    BY <1>4
  <2>2. /\ [id |-> item(k - 1).id, lane |-> "ordered", seq |-> item(k - 1).seq] \in Carried(e)
        /\ item(k - 1).seq = seq + (k - 1)
    BY <1>5, <2>1
  <2> HIDE DEF item
  <2>3. s[k] = [id |-> item(k - 1).id, lane |-> "ordered", seq |-> item(k - 1).seq]
    OBVIOUS
  <2>4. s[k].id \in Nat /\ s[k].seq \in Nat
    BY <2>2, <2>3, CarriedFacts
  <2> QED
    BY <2>2, <2>3, <2>4 DEF Delivery
<1>7. s[1].id = id
  <2>1. 1 \in 1 .. n + 1 /\ 1 - 1 = 0
    BY <1>4
  <2> QED
    BY <2>1
<1>8. s \in Seq(Delivery) /\ Len(s) = n + 1
  <2>1. s \in [1 .. n + 1 -> Delivery] /\ n + 1 \in Nat
    BY <1>4, <1>6
  <2> HIDE DEF s
  <2> QED
    BY <2>1
<1>9. v.nextSeq = seq + n + 1 /\ v.pending = queue /\ v.started = o.started /\ v \in Receivers
  <2>1. seq + n + 1 \in Nat /\ queue \subseteq Buffered
    BY <1>3, <1>4
  <2> HIDE DEF queue
  <2> QED
    BY <2>1 DEF Receivers
<1> HIDE DEF s, v, item
<1>10. /\ D \in Seq(Delivery) /\ Len(D) = Len(d) + (n + 1) /\ Len(d) \in Nat
       /\ \A i \in 1 .. Len(d) : D[i] = d[i]
       /\ \A k \in 1 .. n + 1 : D[Len(d) + k] = s[k]
  <2>1. d \in Seq(Delivery) /\ s \in Seq(Delivery) /\ n + 1 = Len(s)
    BY <1>2, <1>8
  <2> HIDE DEF d
  <2> QED
    BY <2>1, ConcatFacts
<1> HIDE DEF D, d
<1>11. /\ \A i \in 1 .. Len(D) : (i \in 1 .. Len(d) /\ D[i] = d[i])
                                  \/ \E k \in 1 .. n + 1 : i = Len(d) + k /\ D[i] = s[k]
       /\ OrderedIn(D) # {} /\ Once(D) /\ InOrder(D, Kind(e) = "go") /\ Behind(D, seq + n + 1)
  <2> DEFINE go == Kind(e) = "go"
  <2>1. go \in BOOLEAN /\ InOrder(d, go) /\ (~go /\ OrderedIn(d) = {} => seq = 0)
    BY <1>2, <1>3 DEF d
  <2> HIDE DEF go
  <2>2. d \in Seq(Delivery) /\ (\A i \in 1 .. Len(d) : d[i] \in Carried(e)) /\ Once(d)
    BY <1>2 DEF d
  <2>3. Behind(d, seq)
    BY <1>3 DEF d
  <2>4. \A a, b \in Carried(e) : a.id = b.id => a = b
    BY CarriedFacts
  <2>5. \A k \in 1 .. n + 1 : s[k] \in Carried(e) /\ s[k].lane = "ordered" /\ s[k].seq = seq + (k - 1)
    BY <1>6
  <2>6. RunReady(Carried(e), d, s, n, seq, go, D)
    BY <1>4, <1>10, <2>1, <2>2, <2>3, <2>4, <2>5, Zenon DEF RunReady
  <2>7. RunDone(d, s, n, seq, go, D)
    BY <2>1, <2>6, DeliverRun
  <2> QED
    BY <2>7 DEF go, RunDone
<1>12. \A k \in 1 .. n + 1 : Len(d) + k \in 1 .. Len(D) /\ Len(d) + k \in OrderedIn(D)
  <2>1. \A k \in 1 .. n + 1 : Len(d) + k \in 1 .. Len(D)
    BY <1>4, <1>10
  <2> QED
    BY <1>6, <1>10, <2>1 DEF OrderedIn
<1>13. seq + n + 1 <= HalfRange
  <2>1. n + 1 \in 1 .. n + 1 /\ (n + 1) - 1 = n
    BY <1>4
  <2>2. s[n + 1].seq \in 0 .. HalfRange - 1 /\ s[n + 1].seq = seq + n
    BY <1>6, <2>1, CarriedFacts
  <2> QED
    BY <1>3, <1>4, <2>2
<1>14. OrderInv(e, D, v)
  <2>1. IsFiniteSet(queue)
    BY <1>3, FS_Subset
  <2>2. ASSUME NEW b \in queue
        PROVE  [id |-> b.id, lane |-> "ordered", seq |-> b.seq] \in Carried(e) /\ b.seq >= seq + n + 1
    <3>1. b.seq \in Nat /\ b.seq > seq + n
          /\ [id |-> b.id, lane |-> "ordered", seq |-> b.seq] \in Carried(e)
      BY <1>3
    <3> QED
      BY <1>4, <3>1
  <2>3. \A b, c \in queue : b.seq = c.seq => b = c
    BY <1>3
  <2> HIDE DEF queue
  <2> QED
    BY <1>9, <1>11, <1>13, <2>1, <2>2, <2>3 DEF OrderInv
<1>15. \A j \in o.nextSeq .. v.nextSeq - 1 : \E i \in OrderedIn(D) : D[i].seq = j
  <2> SUFFICES ASSUME NEW j \in seq .. seq + n PROVE \E i \in OrderedIn(D) : D[i].seq = j
    BY <1>4, <1>9
  <2>1. j - seq + 1 \in 1 .. n + 1 /\ seq + ((j - seq + 1) - 1) = j
    BY <1>4
  <2> QED
    BY <1>6, <1>10, <1>12, <2>1
<1>16. ASSUME NEW b \in o.pending PROVE b \in v.pending \/ \E i \in 1 .. Len(D) : D[i].id = b.id
  <2>1. CASE b.seq > seq + n
    BY <1>9, <2>1
  <2>2. CASE ~(b.seq > seq + n)
    <3>1. b.seq - seq + 1 \in 1 .. n + 1 /\ seq + ((b.seq - seq + 1) - 1) = b.seq
      <4>1. b.seq \in Nat /\ b.seq >= seq
        BY <1>3
      <4> QED
        BY <1>4, <2>2, <4>1
    <3>2. PICK k \in 1 .. n + 1 : seq + (k - 1) = b.seq
      BY <3>1
    <3>3. s[k] = [id |-> b.id, lane |-> "ordered", seq |-> b.seq]
      <4>1. s[k] \in Carried(e) /\ s[k].lane = "ordered" /\ s[k].seq = b.seq
        BY <1>6, <3>2
      <4>2. [id |-> b.id, lane |-> "ordered", seq |-> b.seq] \in Carried(e)
        BY <1>3
      <4> QED
        BY <4>1, <4>2, CarriedFacts
    <3> QED
      BY <1>10, <1>12, <3>3
  <2> QED
    BY <2>1, <2>2
<1>17. \E i \in 1 .. Len(D) : D[i].id = id
  <2>1. 1 \in 1 .. n + 1
    BY <1>4
  <2> QED
    BY <1>7, <1>10, <1>12, <2>1
<1>18. \A i \in 1 .. Len(D) :
          D[i] \in Carried(e) /\ (D[i].lane = "ordered" \/ (i \in 1 .. Len(d) /\ D[i] = d[i]))
  BY <1>2, <1>6, <1>11
<1>19. \A i \in 1 .. Len(d) : i \in 1 .. Len(D) /\ D[i] = d[i]
  BY <1>4, <1>10
<1>20. Accepted(e, o, seq, id, D, v)
  BY <1>9, <1>10, <1>11, <1>14, <1>15, <1>16, <1>17, <1>18, <1>19 DEF Accepted, d
<1> QED
  BY <1>1, <1>20 DEF D, d

\* Wherever the ordered receiver starts.
LEMMA AcceptedSomewhere ==
    ASSUME TypeOK, LinkInv, NEW e \in Ends, NEW p \in net, p.to = e, p.kind = "ordered"
    PROVE  LET r == AcceptOrdered(e, orderedRecv[e], p.orderedSeq, p.id) IN
           \E o \in Receivers :
              /\ Accepted(e, o, p.orderedSeq, p.id, delivered[e] \o r[2], r[1])
              /\ Kind(e) = "go" => o.started
              /\ Kind(e) # "go" => o = orderedRecv[e]
<1> DEFINE seq == p.orderedSeq
           old == orderedRecv[e]
           o == IF Kind(e) = "go" THEN StartAtFirst(old, seq) ELSE StartAtZero(old, seq)
<1>1. [id |-> p.id, lane |-> "ordered", seq |-> seq] \in Carried(e) /\ p.id \in Nat
  BY PacketFacts DEF Carried
<1>2. seq \in 0 .. HalfRange - 1
  BY <1>1, CarriedFacts
<1>3. old \in Receivers /\ OrderInv(e, delivered[e], old)
      /\ (Kind(e) = "go" /\ ~old.started => OrderedIn(delivered[e]) = {} /\ old.pending = {})
  BY EndFacts DEF TypeOK, Receivers, DeliveredInv
<1>4. o \in Receivers /\ OrderInv(e, delivered[e], o) /\ (Kind(e) = "go" => o.started)
      /\ (Kind(e) # "go" => o = old)
  <2>1. CASE Kind(e) # "go" \/ old.started
    BY <1>3, <2>1 DEF StartAtFirst, StartAtZero
  <2>2. CASE Kind(e) = "go" /\ ~old.started
    <3>1. o = [old EXCEPT !.started = TRUE, !.nextSeq = seq]
      BY <2>2 DEF StartAtFirst
    <3>2. o \in Receivers /\ o.started = TRUE /\ o.nextSeq = seq /\ o.pending = {}
      <4>1. old \in Receivers /\ old.pending = {} /\ seq \in Nat
        BY <1>2, <1>3, <2>2
      <4> HIDE DEF o, old, seq
      <4>2. o.started = TRUE /\ o.nextSeq = seq /\ o.pending = {}
        BY <3>1, <4>1 DEF Receivers
      <4>3. o \in Receivers
        BY <3>1, <4>1 DEF Receivers
      <4> QED
        BY <4>2, <4>3
    <3> HIDE DEF o
    <3>3. OrderInv(e, delivered[e], o)
      <4>1. IsFiniteSet({}) /\ seq <= HalfRange
        BY <1>2, FS_EmptySet, SeqAssumption
      <4>2. Behind(delivered[e], seq)
        BY <1>3, <2>2 DEF Behind
      <4> QED
        BY <2>2, <3>2, <4>1, <4>2 DEF OrderInv
    <3> QED
      BY <2>2, <3>2, <3>3
  <2> QED
    BY <2>1, <2>2
<1>5. AcceptOrdered(e, old, seq, p.id) = AcceptFrom(o, seq, p.id)
  BY DEF AcceptOrdered
<1> HIDE DEF o
<1>6. LET r == AcceptFrom(o, seq, p.id) IN Accepted(e, o, seq, p.id, delivered[e] \o r[2], r[1])
  BY <1>1, <1>2, <1>4, AcceptDelivers, AcceptWaits
<1> QED
  BY <1>4, <1>5, <1>6

\* D has been delivered to e and v is its ordered receiver.
LEMMA DeliveriesAfter ==
    ASSUME TypeOK, LinkInv, NEW e \in Ends, NEW D \in Seq(Delivery), NEW v \in Receivers,
           UNCHANGED <<scenario, net>>,
           delivered' = [delivered EXCEPT ![e] = D], orderedRecv' = [orderedRecv EXCEPT ![e] = v],
           \A f \in Ends : f # e => recvReliableMsgs'[f] = recvReliableMsgs[f],
           \A i \in 1 .. Len(D) : D[i] \in Carried(e),
           Once(D), InOrder(D, Kind(e) = "go"), OrderInv(e, D, v),
           Kind(e) = "go" /\ ~v.started => OrderedIn(D) = {} /\ v.pending = {},
           \A i \in 1 .. Len(D) : D[i].lane = "unordered" => ~accepts(recvReliableMsgs'[e], D[i].id)
    PROVE  /\ delivered' \in [Ends -> Seq(Delivery)] /\ orderedRecv' \in [Ends -> Receivers]
           /\ DeliveredOnce' /\ OrderedDelivery' /\ \A f \in Ends : DeliveredInv(f)'
<1>1. delivered \in [Ends -> Seq(Delivery)] /\ orderedRecv \in [Ends -> Receivers]
  BY DEF TypeOK, Receivers
<1>2. delivered'[e] = D /\ orderedRecv'[e] = v
      /\ \A f \in Ends : f # e => delivered'[f] = delivered[f] /\ orderedRecv'[f] = orderedRecv[f]
  BY <1>1
<1>3. delivered' \in [Ends -> Seq(Delivery)] /\ orderedRecv' \in [Ends -> Receivers]
  BY <1>1
<1>4. \A f \in Ends : Kind(f)' = Kind(f) /\ Carried(f)' = Carried(f)
  BY DEF Kind, Carried
<1>5. DeliveredOnce'
  <2>1. \A f \in Ends : Once(delivered'[f])
    BY <1>2, DeliveriesApart DEF LinkInv
  <2> QED
    BY <2>1 DEF DeliveredOnce, Once
<1>6. OrderedDelivery'
  <2>1. \A f \in Ends : f # e => InOrder(delivered'[f], Kind(f)' = "go")
    BY <1>2, <1>4, DeliveriesApart DEF LinkInv
  <2>2. InOrder(delivered'[e], Kind(e)' = "go")
    BY <1>2, <1>4
  <2>3. \A f \in Ends : InOrder(delivered'[f], Kind(f)' = "go")
    BY <2>1, <2>2
  <2> QED
    BY <2>3 DEF OrderedDelivery, InOrder, OrderedIn
<1>7. ASSUME NEW f \in Ends PROVE DeliveredInv(f)'
  <2>1. CASE f = e
    BY <1>2, <1>4, <2>1 DEF DeliveredInv, OrderInv
  <2>2. CASE f # e
    <3>1. DeliveredInv(f)
      BY EndFacts
    <3> QED
      BY <1>2, <1>4, <2>2, <3>1 DEF DeliveredInv, OrderInv
  <2> QED
    BY <2>1, <2>2
<1> QED
  BY <1>3, <1>5, <1>6, <1>7

\* The lane of p takes it in.
LEMMA DispatchKeeps ==
    ASSUME TypeOK, LinkInv, NEW e \in Ends, NEW p \in net, p.to = e, UNCHANGED <<scenario, net>>,
           Dispatch(e, p)
    PROVE  /\ delivered' \in [Ends -> Seq(Delivery)] /\ orderedRecv' \in [Ends -> Receivers]
           /\ DeliveredOnce' /\ OrderedDelivery' /\ (\A f \in Ends : DeliveredInv(f)')
           /\ recvReliableMsgs' \in [Ends -> Windows]
           /\ \A f \in Ends : /\ recvReliableMsgs'[f].init \/ recvReliableMsgs'[f] = EmptyWindow
                              /\ recvReliableMsgs'[f].latest < HalfRange
<1> DEFINE a == [id |-> p.id, lane |-> p.kind, seq |-> p.orderedSeq]
           d == delivered[e]
           o == orderedRecv[e]
           dedup == p.kind \in Lanes /\ Deduplicates(e, p.kind)
           id == IF p.kind \in Lanes THEN p.id ELSE 0
<1>1. /\ recvReliableMsgs' = [recvReliableMsgs EXCEPT ![e] = IF dedup THEN AfterAccept(e, @, p.id) ELSE @]
      /\ IF p.kind = "ordered" /\ Fresh(e, p)
           THEN LET r == AcceptOrdered(e, o, p.orderedSeq, p.id) IN
                /\ orderedRecv' = [orderedRecv EXCEPT ![e] = r[1]]
                /\ delivered' = [delivered EXCEPT ![e] = d \o r[2]]
           ELSE /\ delivered' = [delivered EXCEPT ![e] =
                      IF p.kind = "unordered" /\ Fresh(e, p)
                        THEN Append(d, [lane |-> "unordered", id |-> p.id, seq |-> 0]) ELSE d]
                /\ UNCHANGED orderedRecv
  BY DEF Dispatch
<1>2. /\ delivered \in [Ends -> Seq(Delivery)] /\ orderedRecv \in [Ends -> Receivers]
      /\ d \in Seq(Delivery) /\ o \in Receivers /\ HalfRange \in Nat /\ HalfRange > 0
  BY SeqAssumption DEF TypeOK, Receivers
<1>3. DeliveredInv(e) /\ Once(d) /\ InOrder(d, Kind(e) = "go")
  BY EndFacts, DeliveriesApart DEF LinkInv
<1>4. p.kind \in Lanes => a \in Carried(e)
  BY DEF Carried
<1>5. id \in 0 .. HalfRange - 1 /\ (p.kind \in Lanes => id = p.id)
  BY <1>2, <1>4, CarriedFacts
<1>6. /\ recvReliableMsgs' \in [Ends -> Windows]
      /\ \A f \in Ends : /\ recvReliableMsgs'[f].init \/ recvReliableMsgs'[f] = EmptyWindow
                         /\ recvReliableMsgs'[f].latest < HalfRange
      /\ \A f \in Ends : f # e => recvReliableMsgs'[f] = recvReliableMsgs[f]
      /\ \A x \in 0 .. HalfRange - 1 :
            ~accepts(recvReliableMsgs[e], x) => ~accepts(recvReliableMsgs'[e], x)
      /\ dedup => ~accepts(recvReliableMsgs'[e], id)
  <2>1. dedup \in BOOLEAN
        /\ recvReliableMsgs' = [recvReliableMsgs EXCEPT ![e] = IF dedup THEN AfterAccept(e, @, id) ELSE @]
    BY <1>1, <1>5
  <2> HIDE DEF dedup, id
  <2> QED
    BY <1>5, <2>1, MessageWindowKeeps
<1> HIDE DEF id
<1>7. ASSUME NEW i \in 1 .. Len(d), d[i].lane = "unordered"
      PROVE  ~accepts(recvReliableMsgs'[e], d[i].id)
  <2>1. ~accepts(recvReliableMsgs[e], d[i].id) /\ d[i] \in Carried(e)
    BY <1>3, <1>7 DEF DeliveredInv
  <2>2. d[i].id \in 0 .. HalfRange - 1
    BY <2>1, CarriedFacts
  <2> QED
    BY <1>6, <2>1, <2>2
<1>8. CASE p.kind = "ordered" /\ Fresh(e, p)
  <2> DEFINE r == AcceptOrdered(e, o, p.orderedSeq, p.id)
             D == d \o r[2]
             v == r[1]
  <2>1. orderedRecv' = [orderedRecv EXCEPT ![e] = v] /\ delivered' = [delivered EXCEPT ![e] = D]
    BY <1>1, <1>8
  <2>2. PICK x \in Receivers : /\ Accepted(e, x, p.orderedSeq, p.id, D, v)
                               /\ Kind(e) = "go" => x.started
                               /\ Kind(e) # "go" => x = o
    BY <1>8, AcceptedSomewhere
  <2> HIDE DEF D, v
  <2>3. /\ v \in Receivers /\ D \in Seq(Delivery) /\ (Kind(e) = "go" => v.started)
        /\ Once(D) /\ InOrder(D, Kind(e) = "go") /\ OrderInv(e, D, v)
        /\ \A i \in 1 .. Len(D) : D[i] \in Carried(e)
    BY <2>2 DEF Accepted
  <2>4. \A i \in 1 .. Len(D) : D[i].lane = "unordered" => ~accepts(recvReliableMsgs'[e], D[i].id)
    BY <1>7, <2>2 DEF Accepted
  <2> HIDE DEF dedup
  <2> QED
    BY <1>6, <2>1, <2>3, <2>4, DeliveriesAfter
<1>9. CASE ~(p.kind = "ordered" /\ Fresh(e, p))
  <2>1. orderedRecv' = [orderedRecv EXCEPT ![e] = o]
    BY <1>1, <1>2, <1>9
  <2>2. OrderInv(e, d, o) /\ (Kind(e) = "go" /\ ~o.started => OrderedIn(d) = {} /\ o.pending = {})
        /\ \A i \in 1 .. Len(d) : d[i] \in Carried(e)
    BY <1>3 DEF DeliveredInv
  <2>3. CASE ~(p.kind = "unordered" /\ Fresh(e, p))
    <3>1. delivered' = [delivered EXCEPT ![e] = d]
      BY <1>1, <1>9, <2>3
    <3> HIDE DEF d, o, dedup
    <3> QED
      BY <1>2, <1>3, <1>6, <1>7, <2>1, <2>2, <3>1, DeliveriesAfter
  <2>4. CASE p.kind = "unordered" /\ Fresh(e, p)
    <3> DEFINE new == [lane |-> "unordered", id |-> p.id, seq |-> 0]
               D == Append(d, new)
    <3>1. delivered' = [delivered EXCEPT ![e] = D]
      BY <1>1, <1>9, <2>4
    <3>2. a \in Carried(e) /\ dedup /\ accepts(recvReliableMsgs[e], p.id)
      <4>1. Deduplicates(e, p.kind) /\ Accepts(e, recvReliableMsgs[e], p.id)
        BY <2>4 DEF Fresh, Deduplicates
      <4>2. /\ recvReliableMsgs[e] \in Windows /\ recvReliableMsgs[e].latest < HalfRange
            /\ recvReliableMsgs[e].init \/ recvReliableMsgs[e] = EmptyWindow
        BY EndFacts DEF WindowInv
      <4>3. p.id \in 0 .. HalfRange - 1
        BY <1>5, <2>4
      <4> QED
        BY <1>4, <2>4, <4>1, <4>2, <4>3, SameWindows
    <3>3. new = a /\ new.id = p.id /\ new.lane = "unordered" /\ new \in Delivery
      <4>1. a.seq = 0 /\ a.id \in Nat
        BY <2>4, <3>2, CarriedFacts
      <4> QED
        BY <2>4, <4>1 DEF Delivery
    <3>4. ~accepts(recvReliableMsgs'[e], new.id)
      BY <1>5, <1>6, <2>4, <3>2, <3>3
    <3> HIDE DEF a, dedup, new
    <3>5. ASSUME NEW i \in 1 .. Len(d) PROVE d[i].id # new.id
      <4>1. CASE d[i].id = new.id
        <5>1. d[i] = new
          BY <2>2, <3>2, <3>3, <4>1, CarriedFacts
        <5>2. ~accepts(recvReliableMsgs[e], p.id)
          BY <1>3, <3>3, <5>1 DEF DeliveredInv
        <5> QED
          BY <3>2, <5>2
      <4> QED
        BY <4>1
    <3> DEFINE go == Kind(e) = "go"
    <3>6. InOrder(d, go) /\ Behind(d, o.nextSeq)
      BY <1>3, <2>2 DEF OrderInv
    <3> HIDE DEF go
    <3>7. /\ D \in Seq(Delivery) /\ Once(D) /\ InOrder(D, go) /\ Behind(D, o.nextSeq)
          /\ OrderedIn(D) = OrderedIn(d)
          /\ \A i \in 1 .. Len(D) : (i \in 1 .. Len(d) /\ D[i] = d[i]) \/ D[i] = new
      BY <1>2, <1>3, <3>3, <3>5, <3>6, DeliverOne
    <3> HIDE DEF D
    <3>8. \A i \in 1 .. Len(D) : D[i] \in Carried(e)
      BY <2>2, <3>2, <3>3, <3>7
    <3>9. \A i \in 1 .. Len(D) : D[i].lane = "unordered" => ~accepts(recvReliableMsgs'[e], D[i].id)
      BY <1>7, <3>4, <3>7
    <3>10. OrderInv(e, D, o)
      BY <2>2, <3>7 DEF OrderInv
    <3>11. InOrder(D, Kind(e) = "go") /\ (Kind(e) = "go" /\ ~o.started => OrderedIn(D) = {} /\ o.pending = {})
      BY <2>2, <3>7 DEF go
    <3> HIDE DEF d, o
    <3> QED
      BY <1>2, <1>6, <2>1, <3>1, <3>7, <3>8, <3>9, <3>10, <3>11, DeliveriesAfter
  <2> QED
    BY <2>3, <2>4
<1> QED
  BY <1>6, <1>8, <1>9

LEMMA ReceiveKeeps ==
    ASSUME TypeOK, LinkInv, NEW e \in Ends, NEW p \in net, Receive(e, p)
    PROVE  TypeOK' /\ LinkInv'
<1>1. /\ p.to = e /\ ApplyAcks(e, p)
      /\ UNCHANGED <<scenario, net, failed, nextPacketSeq, nextMessageID, nextOrderedSeq, unreliable,
                     nextToken, pendingEventual>>
  BY DEF Receive
<1>2. /\ received' \in [Ends -> SUBSET Nat] /\ gotTokens' \subseteq Nat /\ ackDirty' \in [Ends -> BOOLEAN]
      /\ \A f \in Ends : received[f] \subseteq received'[f]
      /\ gotTokens \subseteq gotTokens'
      /\ recvPackets' \in [Ends -> Windows] /\ recvReliableMsgs' \in [Ends -> Windows]
      /\ orderedRecv' \in [Ends -> Receivers] /\ delivered' \in [Ends -> Seq(Delivery)]
      /\ NetInv' /\ (\A f \in Ends : WindowInv(f)')
      /\ DeliveredOnce' /\ OrderedDelivery' /\ (\A f \in Ends : DeliveredInv(f)')
  <2>1. CASE ~(p.kind # "ack" /\ Accepts(e, recvPackets[e], p.seq))
    <3>1. UNCHANGED <<recvVars, ackDirty, received, delivered, gotTokens>>
      BY <2>1 DEF Receive
    <3>2. NetInv' /\ (\A f \in Ends : WindowInv(f)')
      BY <1>1, <3>1, NetKeeps DEF recvVars
    <3>3. DeliveredOnce' /\ OrderedDelivery' /\ (\A f \in Ends : DeliveredInv(f)')
      BY <1>1, <3>1, DeliveryKeeps DEF recvVars
    <3> QED
      BY <3>1, <3>2, <3>3 DEF TypeOK, Receivers, recvVars
  <2>2. CASE p.kind # "ack" /\ Accepts(e, recvPackets[e], p.seq)
    <3>1. /\ recvPackets' = [recvPackets EXCEPT ![e] = AfterAccept(e, @, p.seq)]
          /\ ackDirty' = [ackDirty EXCEPT ![e] = TRUE] /\ Dispatch(e, p)
      BY <2>2 DEF Receive
    <3>2. /\ received' = [received EXCEPT ![e] = IF p.kind \in Lanes THEN @ \cup {p.id} ELSE @]
          /\ gotTokens' = IF p.kind = "eventual" THEN gotTokens \cup {p.id} ELSE gotTokens
      BY <3>1 DEF Dispatch
    <3>3. received \in [Ends -> SUBSET Nat] /\ gotTokens \subseteq Nat /\ p.id \in Nat
      BY PacketFacts DEF TypeOK
    <3>4. received' \in [Ends -> SUBSET Nat]
      <4>1. (IF p.kind \in Lanes THEN received[e] \cup {p.id} ELSE received[e]) \in SUBSET Nat
        BY <3>3
      <4> QED
        BY <3>2, <3>3, <4>1
    <3>5. gotTokens' \subseteq Nat /\ gotTokens \subseteq gotTokens' /\ (p.kind = "eventual" => p.id \in gotTokens')
      BY <3>2, <3>3
    <3>6. (\A f \in Ends : received[f] \subseteq received'[f]) /\ (p.kind \in Lanes => p.id \in received'[e])
      BY <3>2, <3>3
    <3>7. ackDirty' \in [Ends -> BOOLEAN]
      BY <3>1 DEF TypeOK
    <3>8. /\ delivered' \in [Ends -> Seq(Delivery)] /\ orderedRecv' \in [Ends -> Receivers]
          /\ DeliveredOnce' /\ OrderedDelivery' /\ (\A f \in Ends : DeliveredInv(f)')
          /\ recvReliableMsgs' \in [Ends -> Windows]
          /\ \A f \in Ends : /\ recvReliableMsgs'[f].init \/ recvReliableMsgs'[f] = EmptyWindow
                             /\ recvReliableMsgs'[f].latest < HalfRange
      BY <1>1, <3>1, DispatchKeeps
    <3>9. Handled(e, p)'
      BY <3>5, <3>6 DEF Handled
    <3>10. NetInv' /\ recvPackets' \in [Ends -> Windows] /\ (\A f \in Ends : WindowInv(f)')
      BY <1>1, <2>2, <3>1, <3>5, <3>6, <3>8, <3>9, PacketWindowKeeps
    <3> QED
      BY <3>4, <3>5, <3>6, <3>7, <3>8, <3>10
  <2> QED
    BY <2>1, <2>2
<1>3. /\ pending' \in [Ends -> SUBSET Messages]
      /\ pruned' \in [Ends -> SUBSET [id : Nat, packet : SeqNums]]
      /\ PrunedWasReceived' /\ \A f \in Ends : NumberInv(f)' /\ SentInv(f)'
  BY <1>1, <1>2, AcksKeepQueues
<1>4. /\ inFlightEventual' \subseteq [packet : SeqNums, token : Nat]
      /\ eventualFeedback' \subseteq [token : Nat, packet : SeqNums, delivered : BOOLEAN]
      /\ TokenInv' /\ VerdictsSound'
  BY <1>1, <1>2, AcksKeepTokens
<1>5. LinkInv'
  BY <1>2, <1>3, <1>4 DEF LinkInv
<1>6. TypeOK'
  BY <1>1, <1>2, <1>3, <1>4 DEF TypeOK, Receivers
<1> QED
  BY <1>5, <1>6

-----------------------------------------------------------------------------
(* The invariant. *)

LEMMA InitLink ==
    ASSUME Init
    PROVE  TypeOK /\ LinkInv
<1>1. scenario \in ScenarioType
  BY LinkAssumption DEF Init
<1>2. EmptyWindow \in Windows /\ EmptyWindow.latest = 0 /\ EmptyWindow.init = FALSE
  BY SeqAssumption DEF EmptyWindow, Windows, SeqNums, SeqCount, Masks
<1>3. HalfRange \in Nat /\ HalfRange > 0
  BY SeqAssumption
<1>4. TypeOK
  <2>1. 0 \in 0 .. HalfRange
    BY <1>3
  <2>2. <<>> \in Seq(Nat) /\ <<>> \in Seq(Delivery)
    BY EmptySeq
  <2>3. [started |-> FALSE, nextSeq |-> 0, pending |-> {}]
           \in [started : BOOLEAN, nextSeq : Nat, pending : SUBSET Buffered]
    OBVIOUS
  <2> QED
    BY <1>2, <2>1, <2>2, <2>3 DEF Init, TypeOK
<1>5. NetInv
  BY DEF Init, NetInv
<1>6. ASSUME NEW e \in Ends PROVE WindowInv(e)
  BY <1>2, <1>3 DEF Init, WindowInv, AckOK
<1>7. ASSUME NEW e \in Ends PROVE NumberInv(e) /\ SentInv(e)
  <2>1. Numbered(e) = {}
    BY Peers DEF Init, Numbered, Queued, Carried
  <2>2. scenario.messages[e]["ordered"] \in Nat /\ scenario.messages[e]["unordered"] \in Nat
    BY ScenarioFacts DEF Init
  <2>3. nextMessageID[e] = 0 /\ nextOrderedSeq[e] = 0 /\ pending[e] = {}
    BY DEF Init
  <2> QED
    BY <2>1, <2>2, <2>3 DEF NumberInv, SentInv
<1>8. \A e \in Ends : delivered[e] = <<>> /\ orderedRecv[e] = [started |-> FALSE, nextSeq |-> 0, pending |-> {}]
  BY DEF Init
<1>9. Len(<<>>) = 0 /\ OrderedIn(<<>>) = {}
  BY EmptySeq DEF OrderedIn
<1>10. ASSUME NEW e \in Ends PROVE DeliveredInv(e)
  <2>1. IsFiniteSet({}) /\ 0 <= HalfRange
    BY <1>3, FS_EmptySet
  <2>2. orderedRecv[e].pending = {} /\ orderedRecv[e].nextSeq = 0 /\ orderedRecv[e].started = FALSE
    BY <1>8
  <2>3. Len(delivered[e]) = 0 /\ OrderedIn(delivered[e]) = {}
    BY <1>8, <1>9
  <2>4. OrderInv(e, delivered[e], orderedRecv[e])
    BY <2>1, <2>2, <2>3 DEF OrderInv, Behind
  <2> QED
    BY <2>2, <2>3, <2>4 DEF DeliveredInv
<1>11. DeliveredOnce /\ OrderedDelivery
  BY <1>8, <1>9, DeliveriesApart DEF Once, InOrder
<1>12. TokenInv /\ VerdictsSound
  <2>1. Len(pendingEventual) = 0
    BY <1>9 DEF Init
  <2> QED
    BY <2>1 DEF Init, TokenInv, VerdictsSound
<1>13. PrunedWasReceived
  BY DEF Init, PrunedWasReceived
<1> QED
  BY <1>4, <1>5, <1>6, <1>7, <1>10, <1>11, <1>12, <1>13 DEF LinkInv

LEMMA NextLink ==
    ASSUME TypeOK, LinkInv, [Next]_vars
    PROVE  TypeOK' /\ LinkInv'
<1>1. CASE UNCHANGED vars
  <2>1. UNCHANGED <<scenario, net, failed, nextPacketSeq, nextMessageID, nextOrderedSeq, recvVars,
                    ackDirty, pending, unreliable, eventVars, histVars>>
    BY <1>1 DEF vars
  <2>2. NetInv' /\ \A f \in Ends : WindowInv(f)'
    BY <2>1, NetKeeps DEF recvVars, histVars
  <2>3. \A f \in Ends : NumberInv(f)' /\ SentInv(f)'
    BY <2>1, QueuesUnchanged
  <2>4. TokenInv' /\ VerdictsSound'
    BY <2>1, TokensKeep DEF histVars
  <2>5. LinkInv'
    BY <2>1, <2>2, <2>3, <2>4, QuietStep
  <2>6. TypeOK'
    BY <2>1 DEF TypeOK, recvVars, histVars, eventVars
  <2> QED
    BY <2>5, <2>6
<1>2. ASSUME NEW e \in Ends, NEW lane \in Lanes, Enqueue(e, lane) PROVE TypeOK' /\ LinkInv'
  BY <1>2, EnqueueKeeps
<1>3. ASSUME NEW e \in Ends, NEW lane \in Lanes, SendAtOnce(e, lane) PROVE TypeOK' /\ LinkInv'
  BY <1>3, SendAtOnceKeeps
<1>4. ASSUME NEW e \in Ends, SendUnreliable(e) PROVE TypeOK' /\ LinkInv'
  BY <1>4, SendUnreliableKeeps
<1>5. ASSUME NEW e \in Ends, SendAck(e) PROVE TypeOK' /\ LinkInv'
  BY <1>5, SendAckKeeps
<1>6. ASSUME NEW e \in Ends, Fail(e) PROVE TypeOK' /\ LinkInv'
  BY <1>6, FailKeeps
<1>7. ASSUME NEW e \in Ends, NEW p \in net, Receive(e, p) PROVE TypeOK' /\ LinkInv'
  BY <1>7, ReceiveKeeps
<1>8. ASSUME NEW m \in pending["server"], NextReliablePacket(m) PROVE TypeOK' /\ LinkInv'
  BY <1>8, RetransmitKeeps DEF NextReliablePacket
<1>9. ASSUME NEW m \in pending["client"], DrainRetries(m) \/ SendFromQueue(m) PROVE TypeOK' /\ LinkInv'
  BY <1>9, RetransmitKeeps DEF DrainRetries, SendFromQueue
<1>10. CASE SendStreamAck
  BY <1>10, SendStreamAckKeeps
<1>11. CASE EnqueueEventual
  BY <1>11, EnqueueEventualKeeps
<1>12. CASE SendEventual
  BY <1>12, SendEventualKeeps
<1> QED
  BY <1>1, <1>2, <1>3, <1>4, <1>5, <1>6, <1>7, <1>8, <1>9, <1>10, <1>11, <1>12 DEF Next

\* Every reachable state is well typed and satisfies LinkInv, for any sessions
\* and any loss, duplication and reordering of packets.
THEOREM LinkInvariant == Spec => [](TypeOK /\ LinkInv)
<1>1. Init => TypeOK /\ LinkInv
  BY InitLink
<1>2. TypeOK /\ LinkInv /\ [Next]_vars => (TypeOK /\ LinkInv)'
  BY NextLink
<1> QED
  BY <1>1, <1>2, PTL DEF Spec

\* No reliable message reaches the application twice (acceptReliableUnordered,
\* orderedReceiveState.accept and their counterparts in both clients).
THEOREM ReliableOnce == Spec => []DeliveredOnce
<1>1. TypeOK /\ LinkInv => DeliveredOnce
  BY DEF LinkInv
<1> QED
  BY <1>1, LinkInvariant, PTL

\* Ordered messages reach the application in sending order without gaps, from
\* the first on except in the Go client (orderedReceiveState.accept,
\* OrderedReceiveBuffer.accept, deliverOrdered).
THEOREM ReliableInOrder == Spec => []OrderedDelivery
<1>1. TypeOK /\ LinkInv => OrderedDelivery
  BY DEF LinkInv
<1> QED
  BY <1>1, LinkInvariant, PTL

\* The verdicts on state tokens are final, at most one each, and "delivered"
\* is true but for packet 0 (applyPeerAcks, pruneEventualState).
THEOREM TokensSettledOnce == Spec => []VerdictsSound
<1>1. TypeOK /\ LinkInv => VerdictsSound
  BY DEF LinkInv
<1> QED
  BY <1>1, LinkInvariant, PTL

-----------------------------------------------------------------------------
Arrived == ReceivedIsDelivered /\ \A e \in Ends : ArrivedInv(e)

LEMMA ArrivedKeeps ==
    ASSUME TypeOK, Arrived, NEW e \in Ends, scenario' = scenario,
           recvReliableMsgs'[e] = recvReliableMsgs[e], orderedRecv'[e] = orderedRecv[e],
           delivered'[e] = delivered[e], received'[e] = received[e], net \subseteq net'
    PROVE  /\ ArrivedInv(e)'
           /\ \A id \in received'[e] : Kind(e)' = "go" \/ HandedOver(e, id)' \/ OutOfWindow(e, id)'
<1>1. Kind(e)' = Kind(e)
  BY DEF Kind
<1>2. ArrivedInv(e)'
  BY <1>1 DEF Arrived, ArrivedInv, Known
<1>3. \A id \in received'[e] : Kind(e)' = "go" \/ HandedOver(e, id)' \/ OutOfWindow(e, id)'
  BY <1>1 DEF Arrived, ReceivedIsDelivered, HandedOver, OutOfWindow
<1> QED
  BY <1>2, <1>3

\* The unordered messages that were sent to e.
Unordered(e) == {q.id : q \in {p \in net : p.to = e /\ p.kind = "unordered"}}

\* e goes on to deliver D, to the ordered receiver v and the message window w,
\* when id is received.
GoesOn(e, D, v, w, id) ==
    /\ \A i \in 1 .. Len(delivered[e]) : i \in 1 .. Len(D) /\ D[i] = delivered[e][i]
    /\ \A n \in 0 .. v.nextSeq - 1 : n < orderedRecv[e].nextSeq \/ \E i \in OrderedIn(D) : D[i].seq = n
    /\ recvReliableMsgs[e].latest <= w.latest
    /\ \A x \in 0 .. HalfRange - 1 : ~accepts(w, x) =>
          ~accepts(recvReliableMsgs[e], x) \/ Known(D, w.latest, x)
    /\ \A b \in orderedRecv[e].pending : b \in v.pending \/ \E i \in 1 .. Len(D) : D[i].id = b.id
    /\ (\E b \in v.pending : b.id = id) \/ (Known(D, w.latest, id) /\ id \in Unordered(e))
          \/ (\E i \in 1 .. Len(D) : D[i].id = id)

LosesNothing(e, D, v, w, id) ==
    /\ \A n \in 0 .. v.nextSeq - 1 : \E i \in OrderedIn(D) : D[i].seq = n
    /\ \A x \in 0 .. HalfRange - 1 : ~accepts(w, x) => Known(D, w.latest, x)
    /\ \A x \in received[e] \cup {id} :
          \/ \E i \in 1 .. Len(D) : D[i].id = x
          \/ \E b \in v.pending : b.id = x
          \/ x \in Unordered(e) /\ x + AckWindow < w.latest

LEMMA ArrivedAfter ==
    ASSUME TypeOK, LinkInv, Arrived, NEW e \in Ends, Kind(e) # "go",
           NEW D, NEW v, NEW w, w \in Windows, NEW id, GoesOn(e, D, v, w, id)
    PROVE  LosesNothing(e, D, v, w, id)
<1> USE DEF GoesOn
<1> DEFINE d == delivered[e]
           l == recvReliableMsgs[e].latest
<1>1. /\ ArrivedInv(e) /\ l \in Int /\ w.latest \in Int /\ l <= w.latest /\ AckWindow \in Nat
      /\ received[e] \subseteq Nat
  <2>1. recvReliableMsgs[e] \in Windows /\ received[e] \subseteq Nat
    BY DEF TypeOK
  <2> QED
    BY <2>1, SeqAssumption DEF Arrived, Windows, SeqNums, SeqCount
<1>2. ASSUME NEW n \in 0 .. v.nextSeq - 1 PROVE \E i \in OrderedIn(D) : D[i].seq = n
  <2>1. CASE n < orderedRecv[e].nextSeq
    <3>1. orderedRecv[e].nextSeq \in Nat
      BY DEF TypeOK
    <3>2. n \in 0 .. orderedRecv[e].nextSeq - 1
      BY <2>1, <3>1
    <3>3. PICK i \in OrderedIn(d) : d[i].seq = n
      BY <1>1, <3>2 DEF ArrivedInv
    <3> QED
      BY <3>3 DEF OrderedIn
  <2> QED
    BY <2>1
<1>3. ASSUME NEW x \in 0 .. HalfRange - 1, ~accepts(w, x) PROVE Known(D, w.latest, x)
  <2>1. CASE ~accepts(recvReliableMsgs[e], x)
    <3>1. Known(d, l, x)
      BY <1>1, <2>1 DEF ArrivedInv
    <3>2. x + AckWindow < l => x + AckWindow < w.latest
      BY <1>1, SeqAssumption
    <3> QED
      BY <3>1, <3>2 DEF Known
  <2> QED
    BY <1>3, <2>1
<1>4. ASSUME NEW x \in received[e]
      PROVE  \/ \E i \in 1 .. Len(D) : D[i].id = x
             \/ \E b \in v.pending : b.id = x
             \/ x \in Unordered(e) /\ x + AckWindow < w.latest
  <2>1. HandedOver(e, x) \/ OutOfWindow(e, x)
    BY DEF Arrived, ReceivedIsDelivered
  <2>2. CASE \E i \in 1 .. Len(d) : d[i].id = x
    BY <2>2
  <2>3. CASE \E b \in orderedRecv[e].pending : b.id = x
    BY <2>3
  <2>4. CASE OutOfWindow(e, x)
    <3>1. x \in Unordered(e)
      BY <2>4 DEF OutOfWindow, Unordered
    <3>2. x \in Nat /\ x + AckWindow < l
      BY <1>1, <2>4 DEF OutOfWindow
    <3>3. x + AckWindow < w.latest
      BY <1>1, <3>2
    <3> QED
      BY <3>1, <3>3
  <2> QED
    BY <2>1, <2>2, <2>3, <2>4 DEF HandedOver
<1> QED
  BY <1>2, <1>3, <1>4 DEF LosesNothing, Known

LEMMA DispatchArrives ==
    ASSUME TypeOK, LinkInv, Arrived, NEW e \in Ends, NEW p \in net, p.to = e,
           scenario' = scenario, net' = net, Dispatch(e, p)
    PROVE  /\ ArrivedInv(e)'
           /\ \A id \in received'[e] : Kind(e)' = "go" \/ HandedOver(e, id)' \/ OutOfWindow(e, id)'
<1> DEFINE d == delivered[e]
           o == orderedRecv[e]
           w == recvReliableMsgs[e]
           a == [id |-> p.id, lane |-> p.kind, seq |-> p.orderedSeq]
           D == delivered'[e]
           v == orderedRecv'[e]
           u == recvReliableMsgs'[e]
<1>1. /\ received' = [received EXCEPT ![e] = IF p.kind \in Lanes THEN @ \cup {p.id} ELSE @]
      /\ recvReliableMsgs' = [recvReliableMsgs EXCEPT ![e] =
             IF p.kind \in Lanes /\ Deduplicates(e, p.kind) THEN AfterAccept(e, @, p.id) ELSE @]
      /\ IF p.kind = "ordered" /\ Fresh(e, p)
           THEN LET r == AcceptOrdered(e, o, p.orderedSeq, p.id) IN
                /\ orderedRecv' = [orderedRecv EXCEPT ![e] = r[1]]
                /\ delivered' = [delivered EXCEPT ![e] = d \o r[2]]
           ELSE /\ delivered' = [delivered EXCEPT ![e] =
                      IF p.kind = "unordered" /\ Fresh(e, p)
                        THEN Append(d, [lane |-> "unordered", id |-> p.id, seq |-> 0]) ELSE d]
                /\ UNCHANGED orderedRecv
  BY DEF Dispatch
<1>2. /\ received \in [Ends -> SUBSET Nat] /\ recvReliableMsgs \in [Ends -> Windows]
      /\ orderedRecv \in [Ends -> Receivers] /\ delivered \in [Ends -> Seq(Delivery)]
  BY DEF TypeOK, Receivers
<1>3. /\ w \in Windows /\ (w.init \/ w = EmptyWindow) /\ w.latest < HalfRange
      /\ AckWindow \in Nat /\ HalfRange \in Nat /\ AckWindow < HalfRange /\ w.latest \in SeqNums
  BY EndFacts, SeqAssumption DEF WindowInv, Windows
<1>4. Kind(e)' = Kind(e)
  BY DEF Kind
<1>5. p.kind \in Lanes => a \in Carried(e) /\ p.id \in 0 .. HalfRange - 1 /\ p.id \in SeqNums
  <2>1. ASSUME p.kind \in Lanes PROVE a \in Carried(e) /\ p.id \in 0 .. HalfRange - 1
    <3>1. a \in Carried(e)
      BY <2>1 DEF Carried
    <3>2. a.id \in Nat /\ a.id < nextMessageID[Peer(e)] /\ nextMessageID[Peer(e)] \in 0 .. HalfRange
      BY <3>1, Peers, EndFacts, CarriedFacts
    <3>3. a.id \in 0 .. HalfRange - 1
      BY <1>3, <3>2
    <3> QED
      BY <3>1, <3>3
  <2> QED
    BY <1>3, <2>1 DEF SeqNums, SeqCount
<1>6. u = IF p.kind \in Lanes /\ Deduplicates(e, p.kind) THEN afterAccept(w, p.id) ELSE w
  <2>1. CASE p.kind \in Lanes /\ Deduplicates(e, p.kind)
    <3>1. p.id \in 0 .. HalfRange - 1
      BY <1>3, <1>5, <2>1
    <3>2. AfterAccept(e, w, p.id) = afterAccept(w, p.id)
      BY <1>3, <3>1, SameWindows
    <3>3. u = AfterAccept(e, w, p.id)
      BY <1>1, <1>2, <2>1
    <3> QED
      BY <2>1, <3>2, <3>3
  <2>2. CASE ~(p.kind \in Lanes /\ Deduplicates(e, p.kind))
    BY <1>1, <1>2, <2>2
  <2> QED
    BY <2>1, <2>2
<1>7. u \in Windows
  BY <1>3, <1>5, <1>6, AcceptKeepsWindow
<1>8. CASE Kind(e) = "go"
  BY <1>4, <1>8 DEF ArrivedInv
<1>9. CASE Kind(e) # "go" /\ p.kind \notin Lanes
  <2>1. received'[e] = received[e] /\ u = w /\ D = d /\ v = o
    BY <1>1, <1>2, <1>9
  <2> QED
    BY <2>1, ArrivedKeeps
<1>10. ASSUME Kind(e) # "go", p.kind \in Lanes, GoesOn(e, D, v, u, p.id)
       PROVE  /\ ArrivedInv(e)'
              /\ \A id \in received'[e] :
                    Kind(e)' = "go" \/ HandedOver(e, id)' \/ OutOfWindow(e, id)'
  <2>1. received'[e] = received[e] \cup {p.id}
    BY <1>1, <1>2, <1>10
  <2> HIDE DEF D, v, u
  <2>2. LosesNothing(e, D, v, u, p.id)
    BY <1>7, <1>10, ArrivedAfter
  <2>3. ArrivedInv(e)'
    BY <1>4, <2>2 DEF LosesNothing, ArrivedInv, Known, D, v, u
  <2>4. ASSUME NEW x \in received'[e] PROVE HandedOver(e, x)' \/ OutOfWindow(e, x)'
    <3>1. \/ \E i \in 1 .. Len(D) : D[i].id = x
          \/ \E b \in v.pending : b.id = x
          \/ x \in Unordered(e) /\ x + AckWindow < u.latest
      BY <2>1, <2>2 DEF LosesNothing
    <3>2. x \in Unordered(e) => \E q \in net' : q.to = e /\ q.kind = "unordered" /\ q.id = x
      BY DEF Unordered
    <3> QED
      BY <3>1, <3>2 DEF HandedOver, OutOfWindow, D, v, u
  <2> QED
    BY <2>3, <2>4
<1>11. CASE Kind(e) # "go" /\ p.kind = "unordered"
  <2> DEFINE new == [lane |-> "unordered", id |-> p.id, seq |-> 0]
  <2>1. u = afterAccept(w, p.id) /\ v = o
    BY <1>1, <1>2, <1>6, <1>11 DEF Deduplicates
  <2>2. p.id \in 0 .. HalfRange - 1 /\ p.id \in Nat /\ p.id \in Unordered(e)
    BY <1>3, <1>5, <1>11 DEF Unordered
  <2>3. /\ \A i \in 1 .. Len(d) : i \in 1 .. Len(D) /\ D[i] = d[i]
        /\ \/ \E i \in 1 .. Len(D) : D[i].id = p.id
           \/ u = w /\ Known(D, w.latest, p.id)
    <3>1. CASE Fresh(e, p)
      <4>1. D = Append(d, new)
        BY <1>1, <1>2, <1>11, <3>1
      <4>2. d \in Seq(Delivery) /\ new \in Delivery /\ new.id = p.id /\ Len(d) \in Nat
        BY <1>2, <2>2, LenProperties DEF Delivery
      <4> HIDE DEF new
      <4>3. /\ Len(D) = Len(d) + 1 /\ D[Len(d) + 1] = new
            /\ \A i \in 1 .. Len(d) : D[i] = d[i]
        BY <4>1, <4>2, AppendProperties
      <4>4. Len(d) + 1 \in 1 .. Len(D) /\ \A i \in 1 .. Len(d) : i \in 1 .. Len(D)
        BY <4>2, <4>3
      <4> QED
        BY <4>2, <4>3, <4>4
    <3>2. CASE ~Fresh(e, p)
      <4>1. D = d
        BY <1>1, <1>2, <1>11, <3>2
      <4>2. ~accepts(w, p.id)
        <5>1. p.id \in 0 .. HalfRange - 1
          BY <1>3, <2>2
        <5> QED
          BY <1>3, <3>2, <5>1, SameWindows DEF Fresh
      <4>3. Known(d, w.latest, p.id)
        BY <1>11, <2>2, <4>2 DEF Arrived, ArrivedInv
      <4>4. u = w
        BY <2>1, <4>2 DEF afterAccept
      <4> QED
        BY <4>1, <4>3, <4>4
    <3> QED
      BY <3>1, <3>2
  <2>4. /\ w.latest <= u.latest
        /\ \A x \in 0 .. HalfRange - 1 : ~accepts(u, x) => ~accepts(w, x) \/ Known(D, u.latest, x)
    <3>1. /\ w.latest <= u.latest
          /\ \A x \in 0 .. HalfRange - 1 : ~accepts(u, x) =>
                x = p.id \/ ~accepts(w, x) \/ x + AckWindow < u.latest
      BY <1>3, <2>1, <2>2, RefusedWasAccepted
    <3> QED
      BY <2>3, <3>1 DEF Known
  <2>5. \A n \in 0 .. v.nextSeq - 1 : n < o.nextSeq
    <3>1. o.nextSeq \in Nat
      BY <1>2 DEF Receivers
    <3> QED
      BY <2>1, <3>1
  <2>6. \A b \in o.pending : b \in v.pending
    BY <2>1
  <2> HIDE DEF D, v, u
  <2>7. GoesOn(e, D, v, u, p.id)
    BY <2>2, <2>3, <2>4, <2>5, <2>6 DEF GoesOn
  <2> QED
    BY <1>10, <1>11, <2>7
<1>12. CASE Kind(e) # "go" /\ p.kind = "ordered"
  <2> DEFINE r == AcceptOrdered(e, o, p.orderedSeq, p.id)
  <2>1. Fresh(e, p) /\ u = w
    BY <1>6, <1>12 DEF Fresh, Deduplicates
  <2>2. D = d \o r[2] /\ v = r[1]
    BY <1>1, <1>2, <1>12, <2>1
  <2>3. Accepted(e, o, p.orderedSeq, p.id, d \o r[2], r[1])
    BY <1>12, AcceptedSomewhere
  <2> HIDE DEF r
  <2>4. Accepted(e, o, p.orderedSeq, p.id, D, v)
    BY <2>2, <2>3
  <2>5. /\ \A i \in 1 .. Len(d) : i \in 1 .. Len(D) /\ D[i] = d[i]
        /\ \A k \in o.nextSeq .. v.nextSeq - 1 : \E i \in OrderedIn(D) : D[i].seq = k
        /\ \A b \in o.pending : b \in v.pending \/ \E i \in 1 .. Len(D) : D[i].id = b.id
        /\ v \in Receivers
    BY <2>4 DEF Accepted
  <2>6. \A n \in 0 .. v.nextSeq - 1 : n < o.nextSeq \/ \E i \in OrderedIn(D) : D[i].seq = n
    <3>1. o.nextSeq \in Nat /\ v.nextSeq \in Nat
      BY <1>2, <2>5 DEF Receivers
    <3>2. \A n \in 0 .. v.nextSeq - 1 : n < o.nextSeq \/ n \in o.nextSeq .. v.nextSeq - 1
      BY <3>1
    <3> QED
      BY <2>5, <3>2
  <2>7. (\E b \in v.pending : b.id = p.id) \/ (\E i \in 1 .. Len(D) : D[i].id = p.id)
    <3>1. CASE p.orderedSeq < o.nextSeq
      <4>1. p.orderedSeq \in Nat /\ o.nextSeq \in Nat
        BY <1>2, PacketFacts DEF Receivers
      <4>2. p.orderedSeq \in 0 .. o.nextSeq - 1
        BY <3>1, <4>1
      <4>3. PICK i \in OrderedIn(d) : d[i].seq = p.orderedSeq
        BY <1>12, <4>2 DEF Arrived, ArrivedInv
      <4>4. i \in 1 .. Len(d) /\ d[i].lane = "ordered"
        BY <4>3 DEF OrderedIn
      <4>5. d[i] \in Carried(e)
        BY <4>4, EndFacts DEF DeliveredInv
      <4>6. a \in Carried(e) /\ a.lane = "ordered" /\ a.seq = p.orderedSeq /\ a.id = p.id
        BY <1>5, <1>12
      <4> HIDE DEF a, d
      <4>7. d[i] = a
        BY <4>3, <4>4, <4>5, <4>6, CarriedFacts
      <4> QED
        BY <2>5, <4>4, <4>6, <4>7
    <3>2. CASE ~(p.orderedSeq < o.nextSeq)
      BY <2>4, <3>2 DEF Accepted
    <3> QED
      BY <3>1, <3>2
  <2>8. w.latest <= u.latest /\ \A x \in 0 .. HalfRange - 1 : ~accepts(u, x) => ~accepts(w, x)
    <3>1. w.latest \in Nat
      BY <1>3 DEF SeqNums
    <3> HIDE DEF u, w
    <3> QED
      BY <2>1, <3>1
  <2> HIDE DEF D, v, u
  <2>9. GoesOn(e, D, v, u, p.id)
    BY <2>5, <2>6, <2>7, <2>8 DEF GoesOn
  <2> QED
    BY <1>10, <1>12, <2>9
<1> QED
  BY <1>8, <1>9, <1>11, <1>12

LEMMA InitArrived ==
    ASSUME Init
    PROVE  Arrived
<1>1. \A e \in Ends : /\ delivered[e] = <<>> /\ received[e] = {} /\ recvReliableMsgs[e] = EmptyWindow
                      /\ orderedRecv[e] = [started |-> FALSE, nextSeq |-> 0, pending |-> {}]
  BY DEF Init
<1>2. ReceivedIsDelivered
  BY <1>1 DEF ReceivedIsDelivered
<1>3. ASSUME NEW e \in Ends PROVE ArrivedInv(e)
  <2>1. ~recvReliableMsgs[e].init /\ orderedRecv[e].nextSeq = 0
    BY <1>1 DEF EmptyWindow
  <2>2. \A x : accepts(recvReliableMsgs[e], x)
    BY <2>1 DEF accepts
  <2> QED
    BY <2>1, <2>2, SeqAssumption DEF ArrivedInv
<1> QED
  BY <1>2, <1>3 DEF Arrived

LEMMA NextArrived ==
    ASSUME TypeOK, LinkInv, Arrived, [Next]_vars
    PROVE  Arrived'
<1>1. CASE /\ UNCHANGED <<scenario, recvReliableMsgs, orderedRecv, delivered, received>>
           /\ net \subseteq net'
  <2>1. ASSUME NEW f \in Ends
        PROVE  /\ ArrivedInv(f)'
               /\ \A id \in received'[f] :
                     Kind(f)' = "go" \/ HandedOver(f, id)' \/ OutOfWindow(f, id)'
    BY <1>1, ArrivedKeeps
  <2> QED
    BY <2>1 DEF Arrived, ReceivedIsDelivered
<1>2. ASSUME NEW e \in Ends, NEW p \in net, Receive(e, p) PROVE Arrived'
  <2>1. CASE p.kind # "ack" /\ Accepts(e, recvPackets[e], p.seq)
    <3>1. Dispatch(e, p) /\ scenario' = scenario /\ net' = net /\ p.to = e
      BY <1>2, <2>1 DEF Receive
    <3>2. \A f \in Ends : f # e => /\ recvReliableMsgs'[f] = recvReliableMsgs[f]
                                   /\ orderedRecv'[f] = orderedRecv[f]
                                   /\ delivered'[f] = delivered[f] /\ received'[f] = received[f]
      BY <3>1 DEF Dispatch, TypeOK
    <3>3. ASSUME NEW f \in Ends
          PROVE  /\ ArrivedInv(f)'
                 /\ \A id \in received'[f] :
                       Kind(f)' = "go" \/ HandedOver(f, id)' \/ OutOfWindow(f, id)'
      <4>1. CASE f = e
        BY <3>1, <4>1, DispatchArrives
      <4>2. CASE f # e
        BY <3>1, <3>2, <4>2, ArrivedKeeps
      <4> QED
        BY <4>1, <4>2
    <3> QED
      BY <3>3 DEF Arrived, ReceivedIsDelivered
  <2>2. CASE ~(p.kind # "ack" /\ Accepts(e, recvPackets[e], p.seq))
    BY <1>1, <1>2, <2>2 DEF Receive, recvVars
  <2> QED
    BY <2>1, <2>2
<1>3. ASSUME NEW e \in Ends,
             \/ \E lane \in Lanes : Enqueue(e, lane) \/ SendAtOnce(e, lane)
             \/ SendUnreliable(e) \/ SendAck(e) \/ Fail(e)
      PROVE  Arrived'
  BY <1>1, <1>3 DEF Enqueue, SendAtOnce, SendUnreliable, SendAck, Fail, Emit, recvVars, histVars
<1>4. ASSUME NEW e \in Ends, NEW m \in pending[e], Retransmit(e, m) PROVE Arrived'
  BY <1>1, <1>4 DEF Retransmit, Emit, recvVars, histVars
<1>5. CASE SendStreamAck \/ EnqueueEventual \/ SendEventual
  BY <1>1, <1>5 DEF SendStreamAck, EnqueueEventual, SendEventual, Emit, recvVars, histVars
<1>6. CASE UNCHANGED vars
  BY <1>1, <1>6 DEF vars, recvVars, histVars
<1> QED
  BY <1>2, <1>3, <1>4, <1>5, <1>6 DEF Next, NextReliablePacket, DrainRetries, SendFromQueue

\* What a sender drops as delivered its peer received, packet 0 apart, and what
\* was received reaches the application or waits behind an ordered gap, unless
\* the message window had moved past it (pruneReliableQueue, applyPeerAcksLocked,
\* _pruneQueue), however many messages an end sends.
THEOREM DroppedReachesApplication == Spec => []AcksSound
<1>1. Init => TypeOK /\ LinkInv /\ Arrived
  BY InitLink, InitArrived
<1>2. TypeOK /\ LinkInv /\ Arrived /\ [Next]_vars => (TypeOK /\ LinkInv /\ Arrived)'
  BY NextLink, NextArrived
<1>3. TypeOK /\ LinkInv /\ Arrived => AcksSound
  BY DEF LinkInv, Arrived, AcksSound
<1> QED
  BY <1>1, <1>2, <1>3, PTL DEF Spec

=============================================================================
