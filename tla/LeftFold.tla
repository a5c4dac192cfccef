------------------------------ MODULE LeftFold ------------------------------
(***************************************************************************)
(* What a left fold computes, one element after the other.  The module is  *)
(* instantiated with the step of each loop over a list.                    *)
(***************************************************************************)
EXTENDS Integers

\* One step: the environment of the loop, what was computed so far, an element.
CONSTANT Op(_, _, _)

Greatest(s) == CHOOSE x \in s : \A y \in s : x >= y

\* FoldLeft of SequencesExt for this step, written out: a module that instantiates
\* this one cites FoldLeft where it says that its loop is this fold.
Fold(env, base, seq) ==
    LET iter[s \in SUBSET DOMAIN seq] ==
            IF s = {} THEN base
            ELSE LET x == Greatest(s) IN Op(env, iter[s \ {x}], seq[x])
    IN  iter[DOMAIN seq]

\* Induction on the naturals, in terms of sets.  The theorems take it as a
\* hypothesis: an instance then stands alone, without the facts about finite sets
\* from which ReplicationProofs proves it (NatSetInduction).
Induction ==
    \A S : 0 \in S /\ (\A n \in Nat : n \in S => n + 1 \in S) => \A n \in Nat : n \in S

\* A set of positive numbers up to n has a greatest one.
LEMMA MaxOf ==
    ASSUME Induction, NEW n \in Nat, NEW s \in SUBSET (1 .. n), s # {}
    PROVE  Greatest(s) \in s /\ \A y \in s : y <= Greatest(s)
<1>1. \E x \in s : \A y \in s : x >= y
  <2> DEFINE U == {m \in Nat : \A q \in SUBSET (1 .. m) : q # {} => \E x \in q : \A y \in q : x >= y}
  <2>1. 0 \in U
    <3>1. 1 .. 0 = {}
      OBVIOUS
    <3> QED
      BY <3>1
  <2>2. ASSUME NEW m \in Nat, m \in U PROVE m + 1 \in U
    <3> SUFFICES ASSUME NEW q \in SUBSET (1 .. m + 1), q # {}
                 PROVE  \E x \in q : \A y \in q : x >= y
      OBVIOUS
    <3>1. CASE m + 1 \in q
      BY <3>1
    <3>2. CASE m + 1 \notin q
      <4>1. q \in SUBSET (1 .. m)
        BY <3>2
      <4> QED
        BY <2>2, <4>1
    <3> QED
      BY <3>1, <3>2
  <2> HIDE DEF U
  <2>3. n \in U
    BY <2>1, <2>2 DEF Induction
  <2> QED
    BY <2>3 DEF U
<1> QED
  BY <1>1 DEF Greatest

\* Taking the greatest number from 1 .. i leaves 1 .. (i - 1).
LEMMA Prefix ==
    ASSUME Induction, NEW n \in Nat, NEW i \in 1 .. n
    PROVE  /\ Greatest(1 .. i) = i /\ 1 .. i \in SUBSET (1 .. n) /\ 1 .. i # {}
           /\ (1 .. i) \ {i} = 1 .. (i - 1)
<1> DEFINE m == Greatest(1 .. i)
<1>1. 1 .. i \in SUBSET (1 .. n) /\ i \in 1 .. i
  OBVIOUS
<1>2. m \in 1 .. i /\ \A y \in 1 .. i : y <= m
  BY <1>1, MaxOf
<1> HIDE DEF m
<1>3. m = i
  BY <1>1, <1>2
<1>4. (1 .. i) \ {i} = 1 .. (i - 1)
  OBVIOUS
<1> QED
  BY <1>1, <1>3, <1>4 DEF m

\* F gives the fold of every subset of the positions 1 .. k.
FoldTable(F, k, env, base, seq) ==
    F = [s \in SUBSET (1 .. k) |-> IF s = {} THEN base ELSE Op(env, F[s \ {Greatest(s)}], seq[Greatest(s)])]

\* The recursion of Fold has a solution for the positions of any list.
LEMMA FoldTableExists ==
    ASSUME Induction, NEW n \in Nat, NEW env, NEW base, NEW seq
    PROVE  \E F : FoldTable(F, n, env, base, seq)
<1> DEFINE U == {k \in Nat : \E F : FoldTable(F, k, env, base, seq)}
<1>1. 0 \in U
  <2> DEFINE F0 == [s \in SUBSET (1 .. 0) |-> base]
  <2>1. SUBSET (1 .. 0) = {{}}
    OBVIOUS
  <2>2. FoldTable(F0, 0, env, base, seq)
    BY <2>1 DEF FoldTable
  <2> QED
    BY <2>2
<1>2. ASSUME NEW k \in Nat, k \in U PROVE k + 1 \in U
  <2>1. PICK F : FoldTable(F, k, env, base, seq)
    BY <1>2
  <2> DEFINE E == [s \in SUBSET (1 .. k + 1) |->
                     IF k + 1 \in s THEN Op(env, F[s \ {k + 1}], seq[k + 1]) ELSE F[s]]
  <2>2. ASSUME NEW s \in SUBSET (1 .. k + 1)
        PROVE  /\ k + 1 \notin s => s \in SUBSET (1 .. k)
               /\ s \ {k + 1} \in SUBSET (1 .. k)
    OBVIOUS
  <2>3. \A s \in SUBSET (1 .. k) :
          F[s] = IF s = {} THEN base ELSE Op(env, F[s \ {Greatest(s)}], seq[Greatest(s)])
    BY <2>1 DEF FoldTable
  <2>4. ASSUME NEW s \in SUBSET (1 .. k + 1)
        PROVE  E[s] = IF s = {} THEN base ELSE Op(env, E[s \ {Greatest(s)}], seq[Greatest(s)])
    <3>1. CASE k + 1 \in s
      <4>1. Greatest(s) = k + 1
        <5> DEFINE m == Greatest(s)
        <5>1. m \in s /\ \A y \in s : y <= m
          BY <3>1, MaxOf, k + 1 \in Nat
        <5> HIDE DEF m, E
        <5>2. m \in 1 .. k + 1 /\ k + 1 <= m
          BY <5>1, <3>1
        <5>3. m = k + 1
          BY <5>2
        <5> QED
          BY <5>3 DEF m
      <4>2. E[s \ {k + 1}] = F[s \ {k + 1}]
        BY <2>2
      <4> QED
        BY <3>1, <4>1, <4>2
    <3>2. CASE k + 1 \notin s /\ s # {}
      <4>1. s \in SUBSET (1 .. k)
        BY <3>2
      <4>2. Greatest(s) \in s
        BY <3>2, <4>1, MaxOf
      <4>3. E[s] = F[s] /\ E[s \ {Greatest(s)}] = F[s \ {Greatest(s)}]
        BY <3>2, <4>1, <4>2
      <4> QED
        BY <2>3, <3>2, <4>1, <4>3
    <3>3. CASE s = {}
      BY <2>3, <3>3
    <3> QED
      BY <3>1, <3>2, <3>3
  <2>5. E = [s \in SUBSET (1 .. k + 1) |-> E[s]]
    OBVIOUS
  <2> HIDE DEF E
  <2>6. FoldTable(E, k + 1, env, base, seq)
    BY <2>4, <2>5 DEF FoldTable
  <2> QED
    BY <2>6
<1> HIDE DEF U
<1>3. n \in U
  BY <1>1, <1>2 DEF Induction
<1> QED
  BY <1>3 DEF U

\* The loop goes through its list in order: the fold is the last of the values h[i],
\* h[i] being one step from h[i - 1] with the i-th element.
THEOREM FoldSteps ==
    ASSUME Induction, NEW n \in Nat, NEW seq, DOMAIN seq = 1 .. n, NEW env, NEW base
    PROVE  \E h : /\ h[0] = base /\ Fold(env, base, seq) = h[n]
                  /\ \A i \in 1 .. n : h[i] = Op(env, h[i - 1], seq[i])
<1> DEFINE G == CHOOSE F : FoldTable(F, n, env, base, seq)
<1>1. Fold(env, base, seq) = G[1 .. n]
  BY DEF Fold, FoldTable
<1>2. FoldTable(G, n, env, base, seq)
  BY FoldTableExists
<1> HIDE DEF G
<1>3. \A s \in SUBSET (1 .. n) :
        G[s] = IF s = {} THEN base ELSE Op(env, G[s \ {Greatest(s)}], seq[Greatest(s)])
  BY <1>2 DEF FoldTable
<1>4. G[1 .. 0] = base
  <2>1. 1 .. 0 = {} /\ {} \in SUBSET (1 .. n)
    OBVIOUS
  <2> QED
    BY <2>1, <1>3
<1>5. ASSUME NEW i \in 1 .. n PROVE G[1 .. i] = Op(env, G[1 .. (i - 1)], seq[i])
  <2> DEFINE p == 1 .. i
  <2>1. Greatest(p) = i /\ p \in SUBSET (1 .. n) /\ p # {} /\ p \ {i} = 1 .. (i - 1)
    BY Prefix
  <2> HIDE DEF p
  <2>2. G[p] = Op(env, G[p \ {i}], seq[i])
    BY <1>3, <2>1
  <2> QED
    BY <2>1, <2>2 DEF p
<1> DEFINE h == [i \in 0 .. n |-> G[1 .. i]]
<1>6. h[0] = base /\ Fold(env, base, seq) = h[n]
  BY <1>1, <1>4
<1>7. ASSUME NEW i \in 1 .. n PROVE h[i] = Op(env, h[i - 1], seq[i])
  <2>1. i \in 0 .. n /\ i - 1 \in 0 .. n
    OBVIOUS
  <2> QED
    BY <1>5, <2>1
<1> HIDE DEF h
<1> QED
  BY <1>6, <1>7

\* h is a run of the loop: h[i] is what it computed from the first i elements.
Run(h, n, env, base, seq) ==
    /\ h[0] = base /\ Fold(env, base, seq) = h[n]
    /\ \A i \in 1 .. n : h[i] = Op(env, h[i - 1], seq[i])

\* Every loop over a list has a run.
THEOREM FoldRuns ==
    ASSUME Induction, NEW n \in Nat, NEW seq, DOMAIN seq = 1 .. n, NEW env, NEW base
    PROVE  \E h : Run(h, n, env, base, seq)
  BY FoldSteps DEF Run

=============================================================================
