---------------------------- MODULE DatagramSeq ----------------------------
(***************************************************************************)
(* Sequence numbers and the selective-ACK window of the datagram protocol  *)
(* (golem/net/datagram_protocol.go, datagram_receiver.go and the end of    *)
(* datagram_sender.go).  Sequence numbers are unsigned integers that wrap  *)
(* (2^16 values in the code); a mask of AckWindow bits (128 in the code)   *)
(* is the set of its one bits, bit b standing for the packet b + 1 before  *)
(* the latest one.  A window is [init, latest, mask].                      *)
(***************************************************************************)
EXTENDS Integers

CONSTANTS
    HalfRange,      \* half the number of sequence numbers, 2^15 in the code
    AckWindow       \* datagramPacketAckWindow

ASSUME SeqAssumption ==
    /\ HalfRange \in Nat /\ AckWindow \in Nat
    /\ 0 < AckWindow /\ AckWindow < HalfRange

SeqCount == 2 * HalfRange
SeqNums == 0 .. SeqCount - 1
Bits == 0 .. AckWindow - 1
Masks == SUBSET Bits
Windows == [init : BOOLEAN, latest : SeqNums, mask : Masks]

\* The zero value of sequenceWindow.
EmptyWindow == [init |-> FALSE, latest |-> 0, mask |-> {}]

\* uint16 increment.
NextSeq(a) == IF a = SeqCount - 1 THEN 0 ELSE a + 1

\* newer - older in uint16 arithmetic.
seqDistance(older, newer) ==
    IF newer >= older THEN newer - older ELSE newer - older + SeqCount

plainGreater(a, b) == a > b         \* mutation: no wraparound
seqGreater(a, b) ==
    /\ a # b
    /\ \/ a > b /\ a - b <= HalfRange
       \/ a < b /\ b - a > HalfRange

\* sequenceNewer of the Go client: it decides the half-range tie otherwise.
sequenceNewer(a, b) == a # b /\ seqDistance(b, a) < HalfRange

shiftLeftShort(mask, n) == {b \in Bits : b - n + 1 \in mask}   \* mutation
\* The one bits that stay in the mask, moved n places toward older packets.
shiftLeft(mask, n) == {b \in Bits : b - n \in mask}

\* sequenceWindow.accept: does it accept seq ...
accepts(w, seq) ==
    \/ ~w.init
    \/ /\ seq # w.latest
       /\ \/ seqGreater(seq, w.latest)
          \/ /\ seqDistance(seq, w.latest) <= AckWindow
             /\ seqDistance(seq, w.latest) - 1 \notin w.mask

\* ... and the window after it.  Bits past the end of the mask are dropped.
afterAccept(w, seq) ==
    IF ~accepts(w, seq) THEN w
    ELSE IF ~w.init THEN [init |-> TRUE, latest |-> seq, mask |-> {}]
    ELSE IF seqGreater(seq, w.latest)
      THEN LET delta == seqDistance(w.latest, seq) IN
           [w EXCEPT !.latest = seq,
                     !.mask = shiftLeft(w.mask, delta)
                                \cup ({delta - 1} \cap Bits)]
    ELSE [w EXCEPT !.mask = @ \cup {seqDistance(seq, w.latest) - 1}]

\* sequenceWindow.accept of the Go client.
acceptsGo(w, seq) ==
    \/ ~w.init
    \/ /\ seq # w.latest
       /\ \/ sequenceNewer(seq, w.latest)
          \/ /\ seqDistance(seq, w.latest) <= AckWindow
             /\ seqDistance(seq, w.latest) - 1 \notin w.mask

afterAcceptGo(w, seq) ==
    IF ~acceptsGo(w, seq) THEN w
    ELSE IF ~w.init THEN [init |-> TRUE, latest |-> seq, mask |-> w.mask]
    ELSE IF sequenceNewer(seq, w.latest)
      THEN LET diff == seqDistance(w.latest, seq) IN
           [w EXCEPT !.latest = seq,
                     !.mask = shiftLeft(w.mask, diff)
                                \cup ({diff - 1} \cap Bits)]
    ELSE [w EXCEPT !.mask = @ \cup {seqDistance(seq, w.latest) - 1}]

\* What an acknowledgement says of a packet.
packetAckState(packetSeq, ackSeq, ackMask) ==
    IF packetSeq = ackSeq THEN "delivered"
    ELSE IF ~seqGreater(ackSeq, packetSeq) THEN "pending"
    ELSE IF seqDistance(packetSeq, ackSeq) - 1 \in ackMask THEN "delivered"
    ELSE "lost"

\* What the Go client concludes: it never acts on a loss.
ackedGo(packetSeq, ackSeq, ackMask) ==
    \/ packetSeq = ackSeq
    \/ seqDistance(packetSeq, ackSeq) - 1 \in ackMask

=============================================================================
