---------------------------- MODULE SeqNumProofs ----------------------------
(***************************************************************************)
(* Facts about serial-number arithmetic for every modulus.  SeqSub(b, a)   *)
(* is the distance from a forward to b; each comparison and each sum is    *)
(* described by distances, which is how the proofs about the streams use   *)
(* them.  Remainders say in which slot of a ring a number is.  And about   *)
(* the least number of a set, and sequences put together.                  *)
(***************************************************************************)
EXTENDS SeqNum, SequencesExt, SequenceTheorems, WellFoundedInduction, TLAPS

\* Sums and differences of numbers are numbers.
LEMMA ArithTypes ==
    ASSUME NEW a \in SeqNums, NEW b \in SeqNums
    PROVE  /\ SeqAdd(a, b) \in SeqNums
           /\ SeqSub(a, b) \in SeqNums
           /\ Wrap(a + b) \in SeqNums
           /\ SeqNums \subseteq Int
           /\ MaxSeq \in SeqNums
           /\ 0 \in SeqNums
  BY HalfAssumption DEF SeqAdd, SeqSub, Wrap, SeqNums, Modulus, MaxSeq

\* Distances are below the modulus, and only a number itself is at distance 0.
LEMMA SubRange ==
    ASSUME NEW a \in SeqNums, NEW b \in SeqNums
    PROVE  /\ SeqSub(a, b) \in 0 .. MaxSeq
           /\ SeqSub(a, a) = 0
           /\ SeqSub(a, b) = 0 => a = b
  BY HalfAssumption DEF SeqSub, SeqNums, Modulus, MaxSeq

\* a < b exactly when b is 1 .. Half-1 steps ahead: one half of the circle.
LEMMA LtIsAhead ==
    ASSUME NEW a \in SeqNums, NEW b \in SeqNums
    PROVE  SeqLt(a, b) <=> SeqSub(b, a) \in 1 .. Half - 1
  BY HalfAssumption DEF SeqLt, SeqSub, SeqNums, Modulus

\* Within one half circle < is a strict order; numbers exactly Half apart are
\* not ordered at all, so <= holds both ways for the Agent.
LEMMA LtAsymmetric ==
    ASSUME NEW a \in SeqNums, NEW b \in SeqNums
    PROVE  /\ ~(SeqLt(a, b) /\ SeqLt(b, a))
           /\ (a # b /\ ~SeqLt(a, b) /\ ~SeqLt(b, a)) <=> SeqSub(a, b) = Half
  BY HalfAssumption DEF SeqLt, SeqSub, SeqNums, Modulus

\* A step forward of fewer than Half numbers is what it says.
LEMMA AddThenSub ==
    ASSUME NEW a \in SeqNums, NEW n \in 0 .. Half - 1
    PROVE  SeqSub(SeqAdd(a, n), a) = n
  BY HalfAssumption DEF SeqAdd, SeqSub, Wrap, SeqNums, Modulus

\* The same for any step shorter than a whole turn.
LEMMA WrapThenSub ==
    ASSUME NEW a \in SeqNums, NEW n \in 0 .. MaxSeq
    PROVE  /\ Wrap(a + n) \in SeqNums
           /\ SeqSub(Wrap(a + n), a) = n
  BY HalfAssumption DEF SeqSub, Wrap, SeqNums, Modulus, MaxSeq

\* Distances seen from a new origin o.
LEMMA Rebase ==
    ASSUME NEW a \in SeqNums, NEW b \in SeqNums, NEW o \in SeqNums
    PROVE  SeqSub(a, b) = SeqSub(SeqSub(a, o), SeqSub(b, o))
  BY HalfAssumption DEF SeqSub, SeqNums, Modulus

\* A number is determined by its distance from an origin.
LEMMA SubInjective ==
    ASSUME NEW a \in SeqNums, NEW b \in SeqNums, NEW o \in SeqNums,
           SeqSub(a, o) = SeqSub(b, o)
    PROVE  a = b
  BY HalfAssumption DEF SeqSub, SeqNums, Modulus
----------------------------------------------------------------------------
(* Remainders *)

\* A number is so many times the divisor and a remainder ...
LEMMA ModIs ==
    ASSUME NEW x \in Int, NEW m \in Nat \ {0}
    PROVE  x = (x \div m) * m + (x % m) /\ x % m \in 0 .. m - 1 /\ x \div m \in Int
  OBVIOUS

\* ... in one way.
LEMMA ModUnique ==
    ASSUME NEW m \in Nat \ {0}, NEW q \in Int, NEW r \in 0 .. m - 1
    PROVE  (q * m + r) % m = r
  OBVIOUS

\* Whole turns do not change the remainder.
LEMMA ModTurn ==
    ASSUME NEW m \in Nat \ {0}, NEW q \in Int, NEW x \in Int
    PROVE  (x + q * m) % m = x % m
  <1> DEFINE a == x \div m
             r == x % m
  <1>1. x = a * m + r /\ r \in 0 .. m - 1 /\ a \in Int
    BY ModIs
  <1> HIDE DEF a, r
  <1>2. x + q * m = (a + q) * m + r
    BY <1>1
  <1>3. ((a + q) * m + r) % m = r
    BY <1>1, ModUnique
  <1> QED
    BY <1>2, <1>3 DEF r

\* Numbers less than one turn apart have different remainders.
LEMMA ModInjective ==
    ASSUME NEW m \in Nat \ {0}, NEW x \in Int, NEW d \in 1 .. m, NEW e \in 1 .. m
    PROVE  (x + d) % m = (x + e) % m => d = e
  <1> DEFINE a == (x + d) \div m
             b == (x + e) \div m
             r == (x + d) % m
             s == (x + e) % m
  <1>1. x + d = a * m + r /\ r \in 0 .. m - 1 /\ a \in Int
    BY ModIs
  <1>2. x + e = b * m + s /\ s \in 0 .. m - 1 /\ b \in Int
    BY ModIs
  <1> HIDE DEF a, b, r, s
  <1>3. \A k \in Int : (k >= 1 => k * m >= m) /\ (k <= -1 => k * m <= -m)
    OBVIOUS
  <1>4. PICK k \in Int : k = a - b
    BY <1>1, <1>2
  <1>5. r = s => d - e = k * m
    BY <1>1, <1>2, <1>4
  <1>6. r = s => k = 0
    BY <1>3, <1>5
  <1> QED
    BY <1>5, <1>6 DEF r, s

\* A set of numbers that is not empty has a least one.
LEMMA LeastIs ==
    ASSUME NEW S \in SUBSET Nat, S # {}
    PROVE  \E x \in S : \A y \in S : x <= y
  <1>1. PICK x \in S : \A y \in S : ~(<<y, x>> \in OpToRel(<, Nat))
    BY WFMin, NatLessThanWellFounded
  <1>2. \A y \in S : x <= y
    <2>1. ASSUME NEW y \in S PROVE ~(y < x)
      BY <1>1, <2>1 DEF OpToRel
    <2> QED
      BY <2>1
  <1> QED
    BY <1>2

----------------------------------------------------------------------------
(* Rings: where the numbers wrap, a ring whose size divides the modulus does *)
(* too, so that m numbers in a row have its m slots.                         *)

\* The slot of a number is that of its distance.
LEMMA RingIs ==
    ASSUME NEW m \in Nat \ {0}, Modulus % m = 0, NEW h \in SeqNums, NEW d \in 0 .. Modulus
    PROVE  Wrap(h + d) % m = (h + d) % m
  <1>1. Modulus \in Int /\ h \in Int /\ h + d \in Int
    BY HalfAssumption DEF Modulus, SeqNums
  <1>2. Modulus = (Modulus \div m) * m /\ Modulus \div m \in Int
    <2>1. Modulus = (Modulus \div m) * m + (Modulus % m) /\ Modulus \div m \in Int
      BY <1>1, ModIs
    <2> QED
      BY <2>1
  <1>3. PICK q \in Int : q = -(Modulus \div m)
    BY <1>2
  <1>4. -Modulus = q * m
    BY <1>1, <1>2, <1>3
  <1>5. PICK z \in Int : z = h + d
    BY <1>1
  <1>6. Wrap(z) = z \/ Wrap(z) = z + q * m
    BY <1>1, <1>4, <1>5 DEF Wrap
  <1>7. (z + q * m) % m = z % m
    BY ModTurn
  <1> QED
    BY <1>5, <1>6, <1>7

\* The m numbers after h have a slot each ...
LEMMA RingInjective ==
    ASSUME NEW m \in Nat \ {0}, m <= Half, Modulus % m = 0, NEW h \in SeqNums
    PROVE  /\ \A d \in 1 .. m : Wrap(h + d) % m \in 0 .. m - 1
           /\ \A d, e \in 1 .. m : Wrap(h + d) % m = Wrap(h + e) % m => d = e
  <1>1. h \in Int /\ 1 .. m \subseteq 0 .. Modulus
    BY HalfAssumption DEF SeqNums, Modulus
  <1>2. \A d \in 1 .. m : Wrap(h + d) % m = (h + d) % m
    BY <1>1, RingIs
  <1>3. \A d \in 1 .. m : (h + d) % m \in 0 .. m - 1
    BY <1>1
  <1>4. \A d, e \in 1 .. m : (h + d) % m = (h + e) % m => d = e
    BY <1>1, ModInjective
  <1> QED
    BY <1>2, <1>3, <1>4

\* ... and every slot is that of one of them.
LEMMA RingFull ==
    ASSUME NEW m \in Nat \ {0}, m <= Half, Modulus % m = 0, NEW h \in SeqNums, NEW i \in 0 .. m - 1
    PROVE  \E d \in 1 .. m : i = Wrap(h + d) % m
  <1>1. PICK x \in Int : x = i - h - 1
    BY HalfAssumption DEF SeqNums, Modulus
  <1>2. x = (x \div m) * m + (x % m) /\ x % m \in 0 .. m - 1 /\ x \div m \in Int
    BY ModIs
  <1>3. PICK q \in Int, r \in 0 .. m - 1 : x = q * m + r
    BY <1>2
  <1>4. PICK p \in Int : p = -q
    BY <1>3
  <1>5. h + (r + 1) = i + p * m
    BY <1>1, <1>3, <1>4, HalfAssumption DEF SeqNums, Modulus
  <1>6. (i + p * m) % m = i % m
    <2>1. i \in Int
      OBVIOUS
    <2> QED
      BY <2>1, ModTurn
  <1>7. i % m = i
    <2>1. (0 * m + i) % m = i
      BY ModUnique
    <2> QED
      BY <2>1
  <1>8. r + 1 \in 1 .. m /\ r + 1 \in 0 .. Modulus
    BY HalfAssumption DEF Modulus
  <1>9. Wrap(h + (r + 1)) % m = i
    BY <1>5, <1>6, <1>7, <1>8, RingIs
  <1> QED
    BY <1>8, <1>9

\* Seen from n numbers later the slots are the same, n places on; those behind
\* come round.
LEMMA RingMoves ==
    ASSUME NEW m \in Nat \ {0}, m <= Half, Modulus % m = 0, NEW h \in SeqNums, NEW n \in 0 .. m
    PROVE  /\ Wrap(h + n) \in SeqNums
           /\ \A d \in 1 .. m :
                 Wrap(Wrap(h + n) + d) % m =
                     IF n + d <= m THEN Wrap(h + (n + d)) % m ELSE Wrap(h + (n + d - m)) % m
  <1>1. h \in Int /\ n \in Int /\ Modulus \in Int
    BY HalfAssumption DEF SeqNums, Modulus
  <1>2. Wrap(h + n) \in SeqNums
    BY HalfAssumption DEF SeqNums, Modulus, Wrap
  <1>3. ASSUME NEW d \in 1 .. m PROVE Wrap(Wrap(h + n) + d) % m = (h + (n + d)) % m
    <2>1. d \in 0 .. Modulus /\ d \in Int
      BY HalfAssumption DEF Modulus
    <2>2. Wrap(Wrap(h + n) + d) % m = (Wrap(h + n) + d) % m
      BY <1>2, <2>1, RingIs
    <2>3. PICK z \in Int : z = h + (n + d)
      BY <1>1, <2>1
    <2>4. Modulus = (Modulus \div m) * m /\ Modulus \div m \in Int
      <3>1. Modulus = (Modulus \div m) * m + (Modulus % m) /\ Modulus \div m \in Int
        BY <1>1, ModIs
      <3> QED
        BY <3>1
    <2>5. PICK q \in Int : q = -(Modulus \div m)
      BY <2>4
    <2>6. -Modulus = q * m
      BY <1>1, <2>4, <2>5
    <2>7. Wrap(h + n) + d = z \/ Wrap(h + n) + d = z + q * m
      BY <1>1, <2>1, <2>3, <2>6 DEF Wrap
    <2>8. (z + q * m) % m = z % m
      BY ModTurn
    <2> QED
      BY <2>2, <2>3, <2>7, <2>8
  <1>4. ASSUME NEW d \in 1 .. m, n + d <= m
        PROVE  Wrap(h + (n + d)) % m = (h + (n + d)) % m
    <2>1. n + d \in 0 .. Modulus
      BY <1>4, HalfAssumption DEF Modulus
    <2> QED
      BY <2>1, RingIs
  <1>5. ASSUME NEW d \in 1 .. m, n + d > m
        PROVE  Wrap(h + (n + d - m)) % m = (h + (n + d)) % m
    <2>1. n + d - m \in 0 .. Modulus
      BY <1>5, HalfAssumption DEF Modulus
    <2>2. Wrap(h + (n + d - m)) % m = (h + (n + d - m)) % m
      BY <2>1, RingIs
    <2>3. PICK z \in Int, q \in Int : z = h + (n + d) /\ q = -1
      BY <1>1
    <2>4. (z + q * m) % m = z % m
      BY ModTurn
    <2>5. z + q * m = h + (n + d - m)
      BY <1>1, <2>3
    <2> QED
      BY <2>2, <2>3, <2>4, <2>5
  <1> QED
    <2> SUFFICES ASSUME NEW d \in 1 .. m
                 PROVE  Wrap(Wrap(h + n) + d) % m =
                            IF n + d <= m THEN Wrap(h + (n + d)) % m
                            ELSE Wrap(h + (n + d - m)) % m
      BY <1>2
    <2>1. CASE n + d <= m
      BY <1>3, <1>4, <2>1, Zenon
    <2>2. CASE ~(n + d <= m)
      <3>1. n + d > m
        BY <2>2
      <3> QED
        BY <1>3, <1>5, <2>2, <3>1, Zenon
    <2> QED
      BY <2>1, <2>2

----------------------------------------------------------------------------
(* Sequences put together *)

\* One message after another, put together.
Flattens(f, n, seqs) == f = [i \in 1 .. n |-> IF i = 1 THEN seqs[i] ELSE f[i - 1] \o seqs[i]]

\* It has a result for every number of them.
LEMMA FlattensExist == ASSUME NEW n \in Nat, NEW seqs PROVE \E f : Flattens(f, n, seqs)
  <1> DEFINE Missing == {k \in Nat : ~\E f : Flattens(f, k, seqs)}
             Then(i, v) == v \o seqs[i]
  <1>1. Missing \in SUBSET Nat
    OBVIOUS
  <1>2. ASSUME NEW k \in Missing, \A j \in Missing : k <= j PROVE FALSE
    <2>1. CASE k = 0
      <3>1. PICK f : f = [i \in 1 .. 0 |-> IF i = 1 THEN seqs[i] ELSE seqs[i]]
        OBVIOUS
      <3>2. Flattens(f, 0, seqs)
        BY <3>1 DEF Flattens
      <3> QED
        BY <1>2, <2>1, <3>2
    <2>2. CASE k # 0
      <3>1. k - 1 \in Nat /\ k - 1 \notin Missing
        BY <1>2, <2>2
      <3>2. PICK g : Flattens(g, k - 1, seqs)
        BY <3>1
      <3>3. g = [i \in 1 .. k - 1 |-> IF i = 1 THEN seqs[i] ELSE Then(i, g[i - 1])]
        BY <3>2 DEF Flattens
      <3>4. PICK f : f = [i \in 1 .. k |-> IF i = 1 THEN seqs[i] ELSE Then(i, g[i - 1])]
        OBVIOUS
      <3> HIDE DEF Then
      <3>5. \A i \in 1 .. k - 1 : f[i] = g[i]
        <4>1. \A i \in 1 .. k - 1 :
                 /\ f[i] = IF i = 1 THEN seqs[i] ELSE Then(i, g[i - 1])
                 /\ g[i] = IF i = 1 THEN seqs[i] ELSE Then(i, g[i - 1])
          BY <3>1, <3>3, <3>4
        <4> QED
          BY <4>1
      <3>6. \A i \in 1 .. k : i # 1 => f[i - 1] = g[i - 1]
        BY <3>1, <3>5
      <3>7. f = [i \in 1 .. k |-> IF i = 1 THEN seqs[i] ELSE Then(i, f[i - 1])]
        BY <3>4, <3>6
      <3>8. Flattens(f, k, seqs)
        BY <3>7 DEF Flattens, Then
      <3> QED
        BY <1>2, <3>8
    <2> QED
      BY <2>1, <2>2
  <1> HIDE DEF Missing
  <1>3. Missing = {}
    BY <1>1, <1>2, LeastIs
  <1> QED
    BY <1>3 DEF Missing

\* It is a sequence of what they are sequences of.
LEMMA FlattenSeqIs ==
    ASSUME NEW S, NEW seqs \in Seq(Seq(S))
    PROVE  FlattenSeq(seqs) \in Seq(S)
  <1>1. PICK n \in Nat : n = Len(seqs) /\ \A i \in 1 .. n : seqs[i] \in Seq(S)
    OBVIOUS
  <1>2. CASE n = 0
    <2>1. seqs = <<>>
      BY <1>1, <1>2, EmptySeq
    <2> QED
      BY <2>1 DEF FlattenSeq
  <1>3. CASE n # 0
    <2> DEFINE F(f) == f = [i \in 1 .. n |-> IF i = 1 THEN seqs[i] ELSE f[i - 1] \o seqs[i]]
    <2>1. \E f : F(f)
      <3>1. PICK f : Flattens(f, n, seqs)
        BY FlattensExist
      <3> QED
        BY <3>1 DEF Flattens
    <2>2. PICK f : F(f) /\ FlattenSeq(seqs) = f[n]
      BY <1>1, <1>3, <2>1 DEF FlattenSeq
    <2>3. \A i \in 1 .. n : f[i] = IF i = 1 THEN seqs[i] ELSE f[i - 1] \o seqs[i]
      BY <2>2
    <2> DEFINE Wrong == {i \in 1 .. n : f[i] \notin Seq(S)}
    <2>4. Wrong \in SUBSET Nat
      OBVIOUS
    <2>5. ASSUME NEW i \in Wrong, \A e \in Wrong : i <= e PROVE FALSE
      <3>1. i \in 1 .. n /\ f[i] \notin Seq(S) /\ seqs[i] \in Seq(S)
        BY <1>1
      <3>2. i # 1 /\ f[i] = f[i - 1] \o seqs[i]
        BY <2>3, <3>1
      <3>3. i - 1 \in 1 .. n /\ i - 1 \notin Wrong
        BY <2>5, <3>1, <3>2
      <3>4. f[i - 1] \in Seq(S)
        BY <3>3
      <3> QED
        BY <3>1, <3>2, <3>4
    <2> HIDE DEF Wrong
    <2>6. Wrong = {}
      BY <2>4, <2>5, LeastIs
    <2>7. f[n] \in Seq(S)
      BY <1>1, <1>3, <2>6 DEF Wrong
    <2> QED
      BY <2>2, <2>7
  <1> QED
    BY <1>2, <1>3

\* From nothing on, one after the other.
LEMMA StepByStep ==
    ASSUME NEW n \in Nat, NEW R, 0 \in R, \A i \in 1 .. n : i - 1 \in R => i \in R
    PROVE  \A i \in 0 .. n : i \in R
  <1> DEFINE Wrong == (0 .. n) \ R
  <1>1. Wrong \in SUBSET Nat
    OBVIOUS
  <1>2. ASSUME NEW i \in Wrong, \A e \in Wrong : i <= e PROVE FALSE
    <2>1. i \in 1 .. n /\ i \notin R /\ i - 1 \in 0 .. n /\ ~(i <= i - 1)
      OBVIOUS
    <2>2. i - 1 \in R
      BY <1>2, <2>1
    <2> QED
      BY <2>1, <2>2
  <1> HIDE DEF Wrong
  <1>3. Wrong = {}
    BY <1>1, <1>2, LeastIs
  <1> QED
    BY <1>3 DEF Wrong

\* g has what the first i of some sequences put together are, for each i.
Joins(g, seqs, S) ==
    /\ g \in [0 .. Len(seqs) -> Seq(S)]
    /\ g[0] = <<>>
    /\ \A i \in 1 .. Len(seqs) : g[i] = g[i - 1] \o seqs[i]

\* FlattenSeq gives the last of them.
LEMMA FlattenSeqJoins ==
    ASSUME NEW S, NEW seqs \in Seq(Seq(S))
    PROVE  \E g : Joins(g, seqs, S) /\ FlattenSeq(seqs) = g[Len(seqs)]
  <1>1. PICK n \in Nat : n = Len(seqs) /\ \A i \in 1 .. n : seqs[i] \in Seq(S)
    OBVIOUS
  <1>2. CASE n = 0
    <2>1. seqs = <<>>
      BY <1>1, <1>2, EmptySeq
    <2>2. PICK g : g = [i \in {0} |-> <<>>]
      OBVIOUS
    <2>3. Joins(g, seqs, S)
      BY <1>1, <1>2, <2>2 DEF Joins
    <2> QED
      BY <1>1, <1>2, <2>1, <2>2, <2>3 DEF FlattenSeq
  <1>3. CASE n # 0
    <2> DEFINE F(f) == f = [i \in 1 .. n |-> IF i = 1 THEN seqs[i] ELSE f[i - 1] \o seqs[i]]
    <2>1. \E f : F(f)
      <3>1. PICK f : Flattens(f, n, seqs)
        BY FlattensExist
      <3> QED
        BY <3>1 DEF Flattens
    <2>2. PICK f : F(f) /\ FlattenSeq(seqs) = f[n]
      BY <1>1, <1>3, <2>1 DEF FlattenSeq
    <2>3. \A i \in 1 .. n : f[i] = IF i = 1 THEN seqs[i] ELSE f[i - 1] \o seqs[i]
      BY <2>2
    <2> HIDE DEF F
    <2>4. PICK g : g = [i \in 0 .. n |-> IF i = 0 THEN <<>> ELSE f[i]]
      OBVIOUS
    <2>5. g[0] = <<>> /\ (\A i \in 1 .. n : g[i] = f[i]) /\ DOMAIN g = 0 .. n
      BY <2>4
    <2>6. \A i \in 1 .. n : g[i] = g[i - 1] \o seqs[i]
      <3>1. ASSUME NEW i \in 1 .. n PROVE g[i] = g[i - 1] \o seqs[i]
        <4>1. CASE i = 1
          BY <1>1, <2>3, <2>5, <4>1, ConcatEmptySeq
        <4>2. CASE i # 1
          <5>1. i - 1 \in 1 .. n
            BY <4>2
          <5> QED
            BY <2>3, <2>5, <4>2, <5>1
        <4> QED
          BY <4>1, <4>2
      <3> QED
        BY <3>1
    <2> DEFINE R == {i \in 0 .. n : g[i] \in Seq(S)}
    <2>7. 0 \in R
      <3>1. g[0] \in Seq(S)
        BY <2>5, EmptySeq
      <3> QED
        BY <3>1
    <2>8. ASSUME NEW i \in 1 .. n, i - 1 \in R PROVE i \in R
      <3>1. g[i - 1] \in Seq(S) /\ seqs[i] \in Seq(S) /\ g[i] = g[i - 1] \o seqs[i]
        BY <1>1, <2>6, <2>8
      <3>2. g[i] \in Seq(S)
        BY <3>1, ConcatProperties
      <3> QED
        BY <3>2
    <2> HIDE DEF R
    <2>9. \A i \in 0 .. n : i \in R
      BY <2>7, <2>8, StepByStep
    <2>10. \A i \in 0 .. n : g[i] \in Seq(S)
      BY <2>9 DEF R
    <2>11. Joins(g, seqs, S)
      BY <1>1, <2>4, <2>5, <2>6, <2>10 DEF Joins
    <2> QED
      BY <1>1, <1>3, <2>2, <2>5, <2>11
  <1> QED
    BY <1>2, <1>3

\* What is put together in two parts.
LEMMA FlattenConcat ==
    ASSUME NEW S, NEW a \in Seq(Seq(S)), NEW b \in Seq(Seq(S))
    PROVE  /\ FlattenSeq(a) \in Seq(S) /\ FlattenSeq(b) \in Seq(S)
           /\ FlattenSeq(a \o b) = FlattenSeq(a) \o FlattenSeq(b)
  <1>1. PICK l \in Nat, m \in Nat : l = Len(a) /\ m = Len(b)
    OBVIOUS
  <1>2. /\ a \o b \in Seq(Seq(S)) /\ Len(a \o b) = l + m
        /\ \A i \in 1 .. l : (a \o b)[i] = a[i]
        /\ \A i \in 1 .. m : (a \o b)[l + i] = b[i] /\ b[i] \in Seq(S)
    BY <1>1, ConcatProperties
  <1>3. PICK f : Joins(f, a, S) /\ FlattenSeq(a) = f[l]
    BY <1>1, FlattenSeqJoins
  <1>4. PICK g : Joins(g, b, S) /\ FlattenSeq(b) = g[m]
    BY <1>1, FlattenSeqJoins
  <1>5. PICK h : Joins(h, a \o b, S) /\ FlattenSeq(a \o b) = h[l + m]
    BY <1>2, FlattenSeqJoins
  <1>6. /\ f[0] = <<>> /\ \A i \in 1 .. l : f[i] = f[i - 1] \o a[i]
        /\ \A i \in 0 .. l : f[i] \in Seq(S)
    BY <1>1, <1>3 DEF Joins
  <1>7. /\ g[0] = <<>> /\ \A i \in 1 .. m : g[i] = g[i - 1] \o b[i]
        /\ \A i \in 0 .. m : g[i] \in Seq(S)
    BY <1>1, <1>4 DEF Joins
  <1>8. /\ h[0] = <<>>
        /\ \A i \in 1 .. l : h[i] = h[i - 1] \o a[i]
        /\ \A i \in 1 .. m : h[l + i] = h[(l + i) - 1] \o b[i]
    <2>1. h[0] = <<>> /\ \A i \in 1 .. l + m : h[i] = h[i - 1] \o (a \o b)[i]
      BY <1>2, <1>5 DEF Joins
    <2>2. ASSUME NEW i \in 1 .. l PROVE h[i] = h[i - 1] \o a[i]
      <3>1. i \in 1 .. l + m
        OBVIOUS
      <3> QED
        BY <1>2, <2>1, <3>1
    <2>3. ASSUME NEW i \in 1 .. m PROVE h[l + i] = h[(l + i) - 1] \o b[i]
      <3>1. l + i \in 1 .. l + m /\ (a \o b)[l + i] = b[i]
        BY <1>2
      <3>2. h[l + i] = h[(l + i) - 1] \o (a \o b)[l + i]
        BY <2>1, <3>1
      <3> QED
        BY <3>1, <3>2
    <2> QED
      BY <2>1, <2>2, <2>3
  <1>9. \A i \in 0 .. l : h[i] = f[i]
    <2> DEFINE R == {i \in 0 .. l : h[i] = f[i]}
    <2>1. 0 \in R
      BY <1>6, <1>8
    <2>2. ASSUME NEW i \in 1 .. l, i - 1 \in R PROVE i \in R
      <3>1. h[i] = h[i - 1] \o a[i] /\ f[i] = f[i - 1] \o a[i] /\ h[i - 1] = f[i - 1]
        BY <1>6, <1>8, <2>2
      <3>2. h[i] = f[i]
        BY <3>1
      <3> QED
        BY <3>2
    <2> HIDE DEF R
    <2>3. \A i \in 0 .. l : i \in R
      BY <2>1, <2>2, StepByStep
    <2> QED
      BY <2>3 DEF R
  <1>10. \A i \in 0 .. m : h[l + i] = f[l] \o g[i]
    <2> DEFINE J(i) == f[l] \o g[i]
               R == {i \in 0 .. m : h[l + i] = J(i)}
    <2>1. f[l] \in Seq(S)
      BY <1>6
    <2>2. h[l] = J(0)
      BY <1>7, <1>9, <2>1, ConcatEmptySeq
    <2>3. ASSUME NEW i \in 1 .. m PROVE h[l + i] = h[(l + i) - 1] \o b[i] /\ J(i) = J(i - 1) \o b[i]
      <3>1. PICK x \in Seq(S), y \in Seq(S), z \in Seq(S) : x = f[l] /\ y = g[i - 1] /\ z = b[i]
        <4>1. i - 1 \in 0 .. m
          OBVIOUS
        <4>2. g[i - 1] \in Seq(S)
          BY <1>7, <4>1
        <4>3. b[i] \in Seq(S)
          BY <1>2
        <4> QED
          BY <2>1, <4>2, <4>3
      <3>2. (x \o y) \o z = x \o (y \o z)
        BY ConcatAssociative
      <3>3. g[i] = y \o z
        BY <1>7, <3>1
      <3>4. J(i) = x \o g[i] /\ J(i - 1) = x \o y
        BY <3>1
      <3> HIDE DEF J
      <3> QED
        BY <1>8, <3>1, <3>2, <3>3, <3>4
    <2> HIDE DEF J
    <2>4. 0 \in R
      BY <2>2
    <2>5. ASSUME NEW i \in 1 .. m, i - 1 \in R PROVE i \in R
      <3>1. h[l + (i - 1)] = J(i - 1) /\ l + (i - 1) = (l + i) - 1
        BY <2>5
      <3>2. h[(l + i) - 1] = J(i - 1)
        BY <3>1
      <3>3. h[l + i] = J(i)
        BY <2>3, <3>2
      <3> QED
        BY <3>3
    <2> HIDE DEF R
    <2>6. \A i \in 0 .. m : i \in R
      BY <2>4, <2>5, StepByStep
    <2>7. \A i \in 0 .. m : h[l + i] = J(i)
      BY <2>6 DEF R
    <2> QED
      BY <2>7 DEF J
  <1>11. f[l] \in Seq(S) /\ g[m] \in Seq(S) /\ h[l + m] = f[l] \o g[m]
    <2>1. l \in 0 .. l /\ m \in 0 .. m
      OBVIOUS
    <2> QED
      BY <1>6, <1>7, <1>10, <2>1
  <1> QED
    BY <1>3, <1>4, <1>5, <1>11

\* One sequence, and sequences of one element each.
LEMMA FlattenSingles ==
    ASSUME NEW S, NEW z \in Seq(S)
    PROVE  /\ FlattenSeq(<<z>>) = z
           /\ FlattenSeq(<<>>) = <<>>
           /\ FlattenSeq([i \in 1 .. Len(z) |-> <<z[i]>>]) = z
  <1>1. FlattenSeq(<<>>) = <<>>
    BY DEF FlattenSeq
  <1>2. FlattenSeq(<<z>>) = z
    <2>1. <<z>> \in Seq(Seq(S)) /\ Len(<<z>>) = 1 /\ <<z>>[1] = z
      OBVIOUS
    <2>2. PICK g : Joins(g, <<z>>, S) /\ FlattenSeq(<<z>>) = g[1]
      BY <2>1, FlattenSeqJoins
    <2>3. g[1] = <<>> \o z
      <3>1. \A i \in 1 .. 1 : g[i] = g[i - 1] \o <<z>>[i]
        BY <2>1, <2>2 DEF Joins
      <3>2. g[0] = <<>>
        BY <2>2 DEF Joins
      <3>3. g[1] = g[1 - 1] \o <<z>>[1] /\ 1 - 1 = 0
        BY <3>1
      <3> QED
        BY <2>1, <3>2, <3>3
    <2> QED
      BY <2>2, <2>3, ConcatEmptySeq
  <1>3. FlattenSeq([i \in 1 .. Len(z) |-> <<z[i]>>]) = z
    <2>1. PICK n \in Nat : n = Len(z) /\ \A i \in 1 .. n : z[i] \in S
      OBVIOUS
    <2>2. PICK y \in Seq(Seq(S)) : /\ y = [i \in 1 .. Len(z) |-> <<z[i]>>]
                                   /\ Len(y) = n /\ \A i \in 1 .. n : y[i] = <<z[i]>>
      <3> DEFINE y == [i \in 1 .. n |-> <<z[i]>>]
      <3>1. y \in Seq(Seq(S))
        <4>1. \A i \in 1 .. n : <<z[i]>> \in Seq(S)
          BY <2>1
        <4> QED
          BY <4>1
      <3>2. Len(y) = n /\ \A i \in 1 .. n : y[i] = <<z[i]>>
        OBVIOUS
      <3> QED
        BY <2>1, <3>1, <3>2
    <2>3. PICK g : Joins(g, y, S) /\ FlattenSeq(y) = g[n]
      BY <2>2, FlattenSeqJoins
    <2>4. /\ g[0] = <<>> /\ \A i \in 1 .. n : g[i] = g[i - 1] \o <<z[i]>>
          /\ \A i \in 0 .. n : g[i] \in Seq(S)
      BY <2>2, <2>3 DEF Joins
    <2> DEFINE Right(i) == Len(g[i]) = i /\ \A j \in 1 .. i : g[i][j] = z[j]
               R == {i \in 0 .. n : Right(i)}
    <2>5. 0 \in R
      BY <2>4
    <2>6. ASSUME NEW i \in 1 .. n, i - 1 \in R PROVE i \in R
      <3>3. Right(i - 1) /\ g[i - 1] \in Seq(S) /\ z[i] \in S /\ g[i] = g[i - 1] \o <<z[i]>>
        BY <2>1, <2>4, <2>6
      <3>4. Right(i)
        <4>1. PICK q \in Seq(S) : q = g[i - 1]
          BY <3>3
        <4>2. g[i] = Append(q, z[i])
          BY <3>3, <4>1, AppendIsConcat
        <4>3. Len(q) = i - 1 /\ \A j \in 1 .. i - 1 : q[j] = z[j]
          BY <3>3, <4>1
        <4>4. /\ Len(Append(q, z[i])) = i /\ \A j \in 1 .. i - 1 : Append(q, z[i])[j] = q[j]
              /\ Append(q, z[i])[i] = z[i]
          BY <3>3, <4>3, AppendProperties
        <4> QED
          BY <4>2, <4>3, <4>4
      <3> QED
        BY <3>4
    <2> HIDE DEF R
    <2>7. \A i \in 0 .. n : i \in R
      BY <2>5, <2>6, StepByStep
    <2>8. g[n] \in Seq(S) /\ Len(g[n]) = n /\ \A j \in 1 .. n : g[n][j] = z[j]
      <3>1. n \in R
        BY <2>7
      <3> QED
        BY <2>4, <3>1 DEF R
    <2>9. g[n] = z
      BY <2>1, <2>8, SeqEqual
    <2> QED
      BY <2>2, <2>3, <2>9
  <1> QED
    BY <1>1, <1>2, <1>3
=============================================================================
