--------------------------- MODULE SequenceWindow ---------------------------
(***************************************************************************)
(* sequenceWindow against a reference with unbounded packet numbers: the   *)
(* network delivers packets by their true number, late, twice or never;    *)
(* the window sees the number modulo SeqCount.  A packet is never further    *)
(* than HalfRange from the newest one received (32768 packets: no datagram *)
(* lives that long), which is what makes the comparison meaningful.        *)
(***************************************************************************)
EXTENDS DatagramSeq

CONSTANT MaxNumber      \* bound on the true packet numbers

ASSUME MaxNumberAssumption == MaxNumber \in Nat

VARIABLES
    window,     \* the sequenceWindow under test
    newest,     \* reference: newest true number received
    got         \* reference: true numbers accepted

windowVars == <<window, newest, got>>

Wire(n) == n % SeqCount

InitWindow == window = EmptyWindow /\ newest = 0 /\ got = {}

\* The reference decision: not seen before and still inside the window.
ReferenceAccepts(n) ==
    got = {} \/ (n \notin got /\ n >= newest - AckWindow)

Arrive(n) ==
    /\ got = {} \/ (n - newest < HalfRange /\ newest - n < HalfRange)
    /\ window' = afterAccept(window, Wire(n))
    /\ got' = IF accepts(window, Wire(n)) THEN got \cup {n} ELSE got
    /\ newest' = IF got = {} \/ n > newest THEN n ELSE newest

NextArrival == \E n \in 0 .. MaxNumber : Arrive(n)

SpecWindow == InitWindow /\ [][NextArrival]_windowVars

\* sequenceWindow.accept decides as the reference does.
DecidesAsReference ==
    \A n \in 0 .. MaxNumber :
        (got = {} \/ (n - newest < HalfRange /\ newest - n < HalfRange))
            => (accepts(window, Wire(n)) <=> ReferenceAccepts(n))

\* The acknowledgement built from the window reports exactly the packets of
\* the window that were accepted as delivered, older ones as lost and newer
\* ones as pending.
AckIsExact ==
    window.init =>
        \A n \in 0 .. MaxNumber :
            n - newest < HalfRange /\ newest - n < HalfRange =>
                packetAckState(Wire(n), window.latest, window.mask) =
                    IF n > newest THEN "pending"
                    ELSE IF n \in got /\ n >= newest - AckWindow
                           THEN "delivered" ELSE "lost"

\* Across any number of wraparounds of the 16-bit numbers the window accepts
\* and acknowledges exactly what the reference on unbounded numbers does.
WindowExact == DecidesAsReference /\ AckIsExact

=============================================================================
