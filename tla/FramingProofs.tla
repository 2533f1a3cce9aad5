--------------------------- MODULE FramingProofs ---------------------------
(***************************************************************************)
(* Proofs about Framing, for buffers and messages of every size that the   *)
(* code takes: the ring is a queue, and what is returned was written, in   *)
(* that order and once, whatever the line loses or changes and wherever a  *)
(* write breaks off.  The second octet of a CRC, the code of its message,  *)
(* ends a frame and is in no other place; the codes on their way are in    *)
(* the order of the messages and behind those of what was returned.        *)
(***************************************************************************)
EXTENDS Framing, SequenceTheorems, TLAPS

\* For what it says of numbers and sequences of any kind.
Numbers == INSTANCE SeqNumProofs WITH Half <- 1

----------------------------------------------------------------------------
(* Facts about numbers and sequences *)

LEMMA Libraries ==
    /\ \A s : Numbers!FlattenSeq(s) = FlattenSeq(s)
    /\ 1 \in Nat \ {0}
  BY DEF Numbers!FlattenSeq, FlattenSeq

LEMMA FlattenConcat ==
    ASSUME NEW S, NEW a \in Seq(Seq(S)), NEW b \in Seq(Seq(S))
    PROVE  /\ FlattenSeq(a) \in Seq(S) /\ FlattenSeq(b) \in Seq(S)
           /\ FlattenSeq(a \o b) = FlattenSeq(a) \o FlattenSeq(b)
  BY Libraries, Numbers!FlattenConcat

LEMMA FlattenSingles ==
    ASSUME NEW S, NEW z \in Seq(S)
    PROVE  /\ FlattenSeq(<<z>>) = z
           /\ FlattenSeq(<<>>) = <<>>
           /\ FlattenSeq([i \in 1 .. Len(z) |-> <<z[i]>>]) = z
  BY Libraries, Numbers!FlattenSingles

LEMMA FlattenSeqIs ==
    ASSUME NEW S, NEW seqs \in Seq(Seq(S)) PROVE FlattenSeq(seqs) \in Seq(S)
  BY Libraries, Numbers!FlattenSeqIs

LEMMA LeastIs ==
    ASSUME NEW S \in SUBSET Nat, S # {} PROVE \E x \in S : \A y \in S : x <= y
  BY Libraries, Numbers!LeastIs

LEMMA ModIs ==
    ASSUME NEW x \in Int, NEW m \in Nat \ {0}
    PROVE  x = (x \div m) * m + (x % m) /\ x % m \in 0 .. m - 1 /\ x \div m \in Int
  BY Libraries, Numbers!ModIs

LEMMA ModUnique ==
    ASSUME NEW m \in Nat \ {0}, NEW q \in Int, NEW r \in 0 .. m - 1
    PROVE  (q * m + r) % m = r
  BY Libraries, Numbers!ModUnique

----------------------------------------------------------------------------
(* What is where *)

\* What is on the line: octets, and the two parts of a CRC.
Plain == 0 .. 255 \cup {1000 * m : m \in DOMAIN Messages}
Codes == {1000 * m + 100 : m \in DOMAIN Messages}
Values == Plain \cup Codes

Calls ==
    [message : DOMAIN Messages, side : {"agent", "client"}, buffer : Seq(Values),
     units : Seq(Values), bytes_written : Nat]

Tagged == [octet : Values, message : Nat]

WriterTyped ==
    /\ written \in 0 .. Len(Messages)
    /\ writing = NotWriting \/ writing \in Calls
    /\ line \in Seq(Tagged)

RingTyped ==
    /\ rb \in [0 .. ReadBuffer - 1 -> Values]
    /\ head \in 0 .. ReadBuffer - 1 /\ tail \in 0 .. ReadBuffer - 1
    /\ unread \in Seq(Values)

MachineTyped ==
    /\ state \in States
    /\ reading \in {"call", "run"}
    /\ msg_pos \in 0 .. BufferLength /\ msg_len \in Nat
    /\ state = "PAYLOAD" => msg_len <= BufferLength
    /\ state \in {"PAYLOAD", "CRC_LSB", "CRC_MSB"} => msg_pos <= msg_len
    /\ received \in Seq(Nat) /\ messages \in Seq(Seq(Nat))

\* How many octets the ring holds, and where.
Occupied == IF head >= tail THEN head - tail ELSE head - tail + ReadBuffer

Place(i) == IF tail + i - 1 < ReadBuffer THEN tail + i - 1 ELSE tail + i - 1 - ReadBuffer

InRing ==
    /\ Occupied = Len(unread)
    /\ \A i \in 1 .. Len(unread) : rb[Place(i)] = unread[i]

RingInv == WriterTyped /\ RingTyped /\ MachineTyped /\ InRing

LEMMA SeqIs ==
    ASSUME NEW S, NEW s \in Seq(S)
    PROVE  /\ Len(s) \in Nat /\ DOMAIN s = 1 .. Len(s)
           /\ \A i \in 1 .. Len(s) : s[i] \in S
  OBVIOUS

\* A sequence is one of what its elements are.
LEMMA SeqOver ==
    ASSUME NEW S, NEW T, NEW s \in Seq(S), \A i \in 1 .. Len(s) : s[i] \in T
    PROVE  s \in Seq(T)
  <1>1. PICK n \in Nat : n = Len(s)
    BY SeqIs
  <1>2. PICK r : r = [i \in 1 .. n |-> s[i]]
    OBVIOUS
  <1>3. r \in Seq(T) /\ r \in Seq(S) /\ Len(r) = n /\ \A i \in 1 .. n : r[i] = s[i]
    BY <1>1, <1>2, SeqIs
  <1>4. r = s
    BY <1>1, <1>3, SeqEqual
  <1> QED
    BY <1>3, <1>4

LEMMA LineConstants ==
    ASSUME FramingAssumption
    PROVE  /\ ReadBuffer \in Nat /\ ReadBuffer >= 3 /\ WriteBuffer \in Nat /\ WriteBuffer >= 9
           /\ BufferLength \in Nat /\ Octets \subseteq 0 .. 255 /\ SenderAddr \in 0 .. 255
           /\ Len(Messages) \in Nat /\ DOMAIN Messages = 1 .. Len(Messages)
  <1>1. Messages \in Seq([payload : Seq(0 .. 255), to : 0 .. 255])
    BY DEF FramingAssumption
  <1>2. Len(Messages) \in Nat /\ DOMAIN Messages = 1 .. Len(Messages)
    BY <1>1, SeqIs, Zenon
  <1> QED
    BY <1>2 DEF FramingAssumption

LEMMA LineMessages ==
    ASSUME FramingAssumption, NEW m \in DOMAIN Messages
    PROVE  /\ Messages[m].payload \in Seq(0 .. 255) /\ Messages[m].to \in 0 .. 255
           /\ Len(Messages[m].payload) < 65536
  <1>1. Messages \in Seq([payload : Seq(0 .. 255), to : 0 .. 255])
    BY DEF FramingAssumption
  <1>2. PICK S : S = [payload : Seq(0 .. 255), to : 0 .. 255]
    OBVIOUS
  <1>3. \A i \in 1 .. Len(Messages) : Messages[i] \in S
    BY <1>1, <1>2, SeqIs, ZenonT(60)
  <1>4. Messages[m] \in S
    BY <1>3, LineConstants
  <1> QED
    BY <1>2, <1>4 DEF FramingAssumption

LEMMA ValuesAre ==
    ASSUME FramingAssumption
    PROVE  /\ Values \subseteq Nat /\ 0 .. 255 \subseteq Values /\ Octets \subseteq Values
           /\ \A x \in Values : Xor(x) \in Nat
  <1>1. Values \subseteq Nat /\ 0 .. 255 \subseteq Values /\ Octets \subseteq Values
    <2>1. Octets \subseteq 0 .. 255 /\ DOMAIN Messages = 1 .. Len(Messages) /\ Len(Messages) \in Nat
      BY LineConstants, Zenon
    <2>2. \A x \in Values : x \in Nat
      <3>1. \A m \in DOMAIN Messages : 1000 * m \in Nat /\ 1000 * m + 100 \in Nat
        BY <2>1
      <3> QED
        BY <3>1 DEF Values, Plain, Codes
    <2>3. 0 .. 255 \subseteq Values
      BY DEF Values, Plain
    <2> QED
      BY <2>1, <2>2, <2>3
  <1>2. ASSUME NEW x \in Nat PROVE Xor(x) \in Nat
    <2>1. x < 32 => x \div 32 = 0
      OBVIOUS
    <2> QED
      BY <2>1 DEF Xor
  <1> QED
    BY <1>1, <1>2

\* Less than a turn away, the remainder is a turn more or less.
LEMMA ModNear ==
    ASSUME NEW n \in Nat \ {0}, NEW x \in Int, -n <= x, x < 2 * n
    PROVE  x % n = IF x < 0 THEN x + n ELSE IF x < n THEN x ELSE x - n
  <1>1. CASE x < 0
    <2>1. x + n \in 0 .. n - 1 /\ x = (-1) * n + (x + n)
      BY <1>1
    <2>2. ((-1) * n + (x + n)) % n = x + n
      BY <2>1, ModUnique
    <2> QED
      BY <1>1, <2>1, <2>2
  <1>2. CASE x >= 0 /\ x < n
    <2>1. (0 * n + x) % n = x
      BY <1>2, ModUnique
    <2> QED
      BY <1>2, <2>1
  <1>3. CASE x >= n
    <2>1. x - n \in 0 .. n - 1
      BY <1>3
    <2>2. (1 * n + (x - n)) % n = x - n
      BY <2>1, ModUnique
    <2> QED
      BY <1>3, <2>2
  <1> QED
    BY <1>1, <1>2, <1>3

LEMMA FlattenEmpty == FlattenSeq(<<>>) = <<>>
  BY DEF FlattenSeq

----------------------------------------------------------------------------
(* What is written *)

\* The octets of units are of a kind that escaping does not leave.
LEMMA OctetsAre ==
    ASSUME NEW S, \A x \in S : Escaped(x) \in Seq(S), NEW units \in Seq(S)
    PROVE  OctetsOf(units) \in Seq(S)
  <1> DEFINE seqs == [i \in DOMAIN units |-> Escaped(units[i])]
  <1>1. PICK n \in Nat : n = Len(units) /\ DOMAIN units = 1 .. n /\ \A i \in 1 .. n : units[i] \in S
    BY SeqIs, Zenon
  <1>2. \A i \in 1 .. n : Escaped(units[i]) \in Seq(S)
    BY <1>1
  <1>3. PICK T : T = Seq(S)
    OBVIOUS
  <1>4. [i \in 1 .. n |-> Escaped(units[i])] \in Seq(T)
    BY <1>2, <1>3
  <1>5. seqs \in Seq(Seq(S))
    BY <1>1, <1>3, <1>4
  <1> HIDE DEF seqs
  <1>6. FlattenSeq(seqs) \in Seq(S)
    BY <1>5, FlattenSeqIs
  <1> QED
    BY <1>6 DEF OctetsOf, seqs

LEMMA NoOctets == \A units : OctetsOf(SubSeq(units, 1, 0)) = <<>>
  <1> SUFFICES ASSUME NEW units PROVE OctetsOf(SubSeq(units, 1, 0)) = <<>>
    OBVIOUS
  <1>1. SubSeq(units, 1, 0) = <<>>
    BY SubSeqEmpty
  <1>2. [i \in DOMAIN <<>> |-> Escaped(<<>>[i])] = <<>>
    OBVIOUS
  <1> QED
    BY <1>1, <1>2, FlattenEmpty DEF OctetsOf

\* A set of numbers that has a bound has a greatest one.
LEMMA GreatestIs ==
    ASSUME NEW n \in Nat, NEW T \in SUBSET (0 .. n), T # {}
    PROVE  Max(T) \in T
  <1> DEFINE D == {n - x : x \in T}
  <1>1. D \in SUBSET Nat /\ D # {}
    <2>1. \A x \in T : x \in 0 .. n
      OBVIOUS
    <2>2. \A x \in T : n - x \in Nat
      BY <2>1
    <2> QED
      BY <2>2
  <1>2. PICK d \in D : \A e \in D : d <= e
    <2> HIDE DEF D
    <2> QED
      BY <1>1, LeastIs
  <1>3. PICK x \in T : d = n - x
    BY <1>2
  <1>4. \A y \in T : x >= y
    <2>1. ASSUME NEW y \in T PROVE x >= y
      <3>1. n - x <= n - y
        BY <1>2, <1>3
      <3> QED
        BY <3>1
    <2> QED
      BY <2>1
  <1> QED
    BY <1>3, <1>4 DEF Max

LEMMA FittingIs ==
    ASSUME FramingAssumption, NEW units, Len(units) \in Nat, NEW used \in 0 .. 1
    PROVE  Fitting(units, used) \in 0 .. Len(units)
  <1> DEFINE Fits(n) == used + Len(OctetsOf(SubSeq(units, 1, n))) <= WriteBuffer
             T == {n \in 0 .. Len(units) : Fits(n)}
  <1>1. Fits(0)
    <2>1. OctetsOf(SubSeq(units, 1, 0)) = <<>> /\ Len(<<>>) = 0
      BY NoOctets
    <2> QED
      BY <2>1, LineConstants
  <1> HIDE DEF Fits
  <1>2. T \in SUBSET (0 .. Len(units)) /\ 0 \in T
    BY <1>1
  <1>3. Max(T) \in T
    <2> HIDE DEF T
    <2> QED
      BY <1>2, GreatestIs
  <1> QED
    BY <1>3 DEF Fits, Fitting

\* Two sequences in a row, and a part of one.
LEMMA InARow ==
    ASSUME NEW S, NEW a \in Seq(S), NEW b \in Seq(S)
    PROVE  /\ a \o b \in Seq(S) /\ Len(a \o b) = Len(a) + Len(b)
           /\ \A i \in 1 .. Len(a) : (a \o b)[i] = a[i]
           /\ \A i \in 1 .. Len(b) : (a \o b)[Len(a) + i] = b[i]
  BY ConcatProperties

LEMMA Singles == ASSUME NEW S, NEW x \in S, NEW y \in S PROVE <<x>> \o <<y>> = <<x, y>>
  <1>1. <<x>> \in Seq(S) /\ <<y>> \in Seq(S) /\ <<x, y>> \in Seq(S)
    OBVIOUS
  <1>2. /\ Len(<<x>>) = 1 /\ Len(<<y>>) = 1 /\ Len(<<x, y>>) = 2
        /\ <<x>>[1] = x /\ <<y>>[1] = y /\ <<x, y>>[1] = x /\ <<x, y>>[2] = y
    OBVIOUS
  <1>3. PICK p, q, r : p = <<x>> /\ q = <<y>> /\ r = <<x, y>>
    OBVIOUS
  <1>4. /\ p \o q \in Seq(S) /\ Len(p \o q) = Len(p) + Len(q)
        /\ \A i \in 1 .. Len(p) : (p \o q)[i] = p[i]
        /\ \A i \in 1 .. Len(q) : (p \o q)[Len(p) + i] = q[i]
    BY <1>1, <1>3, InARow
  <1>5. Len(p \o q) = 2 /\ (p \o q)[1] = x /\ (p \o q)[2] = y
    BY <1>2, <1>3, <1>4
  <1>6. p \o q = r
    <2>1. PICK o : o = p \o q
      OBVIOUS
    <2>2. o \in Seq(S) /\ Len(o) = 2 /\ o[1] = x /\ o[2] = y
      BY <1>4, <1>5, <2>1
    <2>3. r \in Seq(S) /\ Len(r) = 2 /\ r[1] = x /\ r[2] = y
      BY <1>1, <1>2, <1>3
    <2>4. \A i \in 1 .. 2 : o[i] = r[i]
      BY <2>2, <2>3
    <2>5. o = r
      BY <2>2, <2>3, <2>4, SeqEqual
    <2> QED
      BY <2>1, <2>5
  <1> QED
    BY <1>3, <1>6

LEMMA PartIs ==
    ASSUME NEW S, NEW s \in Seq(S), NEW m \in Nat, NEW n \in Nat, m + n <= Len(s)
    PROVE  /\ SubSeq(s, m + 1, m + n) \in Seq(S) /\ Len(SubSeq(s, m + 1, m + n)) = n
           /\ \A i \in 1 .. n : SubSeq(s, m + 1, m + n)[i] = s[m + i]
  <1>1. PICK a \in Int, b \in Int : a = m + 1 /\ b = m + n
    OBVIOUS
  <1>2. \A i \in a .. b : s[i] \in S
    BY <1>1
  <1>3. /\ SubSeq(s, a, b) \in Seq(S)
        /\ Len(SubSeq(s, a, b)) = IF a <= b THEN b - a + 1 ELSE 0
        /\ \A i \in 1 .. b - a + 1 : SubSeq(s, a, b)[i] = s[a + i - 1]
    BY <1>2, SubSeqProperties
  <1>4. b - a + 1 = n /\ (~(a <= b) => n = 0) /\ \A i \in 1 .. n : a + i - 1 = m + i
    BY <1>1
  <1>5. Len(SubSeq(s, a, b)) = n
    BY <1>3, <1>4
  <1>6. \A i \in 1 .. n : SubSeq(s, a, b)[i] = s[m + i]
    BY <1>3, <1>4
  <1> QED
    BY <1>1, <1>3, <1>5, <1>6

LEMMA EscapedAre ==
    ASSUME FramingAssumption, NEW x \in Values PROVE Escaped(x) \in Seq(Values)
  <1>1. ESC \in Values /\ 94 \in Values /\ 93 \in Values
    BY ValuesAre DEF ESC
  <1>2. Xor(126) = 94 /\ Xor(125) = 93
    <2>1. 126 \div 32 = 3 /\ 125 \div 32 = 3 /\ 3 % 2 = 1
      OBVIOUS
    <2> QED
      BY <2>1 DEF Xor
  <1>3. \A y \in Values : <<ESC, y>> \in Seq(Values) /\ <<x>> \in Seq(Values)
    BY <1>1
  <1> QED
    BY <1>1, <1>2, <1>3 DEF Escaped, BEGIN, ESC

LEMMA LengthOctets ==
    ASSUME NEW n \in Nat, n < 65536
    PROVE  n % 256 \in 0 .. 255 /\ n \div 256 \in 0 .. 255
  <1> DEFINE q == n \div 256
             r == n % 256
  <1>1. n = q * 256 + r /\ r \in 0 .. 255 /\ q \in Int
    <2>1. 256 \in Nat \ {0} /\ n \in Int
      OBVIOUS
    <2> QED
      BY <2>1, ModIs
  <1> HIDE DEF q, r
  <1>2. q \in 0 .. 255
    BY <1>1
  <1> QED
    BY <1>1, <1>2 DEF q, r

LEMMA FrameIs ==
    ASSUME FramingAssumption, NEW m \in DOMAIN Messages PROVE Frame(m) \in Seq(Values)
  <1>1. PICK p : p = Messages[m].payload
    OBVIOUS
  <1>2. p \in Seq(Values)
    <2>1. p \in Seq(0 .. 255) /\ 0 .. 255 \subseteq Values
      BY <1>1, LineMessages, ValuesAre
    <2> QED
      BY <2>1, SeqMonotonic, ZenonT(60)
  <1>3. /\ SenderAddr \in Values /\ Messages[m].to \in Values
        /\ Len(p) % 256 \in Values /\ Len(p) \div 256 \in Values
    <2>1. PICK n \in Nat : n = Len(p) /\ n < 65536
      BY <1>1, <1>2, LineMessages
    <2>5. Len(p) % 256 \in Values /\ Len(p) \div 256 \in Values
      <3>1. n % 256 \in 0 .. 255 /\ n \div 256 \in 0 .. 255
        <4>1. n < 65536
          BY <2>1
        <4> QED
          BY <4>1, LengthOctets
      <3>2. 0 .. 255 \subseteq Values
        BY ValuesAre
      <3>3. PICK x, y : x = n % 256 /\ y = n \div 256
        OBVIOUS
      <3>4. x \in Values /\ y \in Values
        BY <3>1, <3>2, <3>3, Zenon
      <3> QED
        BY <2>1, <3>3, <3>4
    <2>4. SenderAddr \in 0 .. 255 /\ Messages[m].to \in 0 .. 255
      BY LineConstants, LineMessages
    <2> QED
      BY <2>4, <2>5, ValuesAre
  <1>4. PICK h : h = <<SenderAddr, Messages[m].to, Len(p) % 256, Len(p) \div 256>>
    OBVIOUS
  <1>5. h \in Seq(Values)
    BY <1>3, <1>4
  <1>6. Crc(p) \in Seq(Values)
    <2> DEFINE of == {e \in DOMAIN Messages : Messages[e].payload = p}
    <2>1. of \in SUBSET Nat /\ of # {} /\ of \subseteq DOMAIN Messages
      <3>1. \A e \in DOMAIN Messages : e \in Nat
        BY LineConstants
      <3> QED
        BY <1>1, <3>1
    <2> HIDE DEF of
    <2>2. Min(of) \in of
      BY <2>1, LeastIs DEF Min
    <2>3. \A e \in DOMAIN Messages : 1000 * e \in Values /\ 1000 * e + 100 \in Values
      BY DEF Values, Plain, Codes
    <2>4. CrcOf(Min(of)) \in Seq(Values)
      <3>1. PICK e \in DOMAIN Messages : e = Min(of)
        BY <2>1, <2>2
      <3>2. 1000 * e \in Values /\ 1000 * e + 100 \in Values
        BY <2>3
      <3>3. <<1000 * e, 1000 * e + 100>> \in Seq(Values)
        BY <3>2
      <3> QED
        BY <3>1, <3>3 DEF CrcOf
    <2> QED
      BY <2>1, <2>4 DEF Crc, of
  <1>7. Frame(m) = h \o p \o Crc(p)
    BY <1>1, <1>4 DEF Frame
  <1> QED
    BY <1>2, <1>5, <1>6, <1>7, InARow

LEMMA FilledIs ==
    ASSUME FramingAssumption, NEW m \in DOMAIN Messages, NEW side \in {"agent", "client"},
           NEW buffer \in {<<BEGIN>>, <<>>}, NEW units \in Seq(Values)
    PROVE  Filled(m, side, buffer, units) \in Calls
  <1>1. Len(units) \in Nat /\ Len(buffer) \in 0 .. 1 /\ buffer \in Seq(Values)
    <2>1. BEGIN \in Values
      BY ValuesAre DEF BEGIN
    <2>2. /\ Len(<<BEGIN>>) = 1 /\ <<BEGIN>> \in Seq(Values)
          /\ Len(<<>>) = 0 /\ <<>> \in Seq(Values)
      BY <2>1, EmptySeq
    <2>3. Len(units) \in Nat
      BY SeqIs, Zenon
    <2>4. CASE buffer = <<BEGIN>>
      BY <2>2, <2>3, <2>4
    <2>5. CASE buffer = <<>>
      BY <2>2, <2>3, <2>5
    <2> QED
      BY <2>4, <2>5
  <1>2. PICK n \in 0 .. Len(units) : n = Fitting(units, Len(buffer))
    BY <1>1, FittingIs
  <1>3. PICK k \in Nat : n + k = Len(units) /\ Len(units) = n + k
    BY <1>1
  <1>4. SubSeq(units, 1, n) \in Seq(Values) /\ SubSeq(units, n + 1, Len(units)) \in Seq(Values)
    <2>1. SubSeq(units, 0 + 1, 0 + n) \in Seq(Values) /\ SubSeq(units, n + 1, n + k) \in Seq(Values)
      BY <1>3, PartIs
    <2> QED
      BY <1>3, <2>1
  <1>5. OctetsOf(SubSeq(units, 1, n)) \in Seq(Values)
    BY <1>4, EscapedAre, OctetsAre
  <1>6. buffer \o OctetsOf(SubSeq(units, 1, n)) \in Seq(Values)
    BY <1>1, <1>5, InARow
  <1> QED
    BY <1>2, <1>4, <1>6 DEF Filled, Calls

----------------------------------------------------------------------------
(* The ring *)

LEMMA RingIs ==
    ASSUME FramingAssumption, RingTyped
    PROVE  /\ Occupied \in 0 .. ReadBuffer - 1
           /\ (head - tail) % ReadBuffer = Occupied
           /\ \A i \in 1 .. ReadBuffer : /\ Place(i) \in 0 .. ReadBuffer - 1
                                         /\ (tail + i - 1) % ReadBuffer = Place(i)
  <1>1. PICK n \in Nat \ {0}, h \in Nat, t \in Nat :
            h < n /\ t < n /\ n = ReadBuffer /\ h = head /\ t = tail
    <2>1. head \in 0 .. ReadBuffer - 1 /\ tail \in 0 .. ReadBuffer - 1
      BY DEF RingTyped
    <2>2. ReadBuffer \in Nat \ {0}
      BY LineConstants
    <2> QED
      BY <2>1, <2>2
  <1>2. (h - t) % n = IF h >= t THEN h - t ELSE h - t + n
    <2>1. PICK x \in Int : x = h - t
      BY <1>1
    <2>2. -n <= x /\ x < n /\ x < 2 * n
      BY <1>1, <2>1
    <2>3. x % n = IF x < 0 THEN x + n ELSE IF x < n THEN x ELSE x - n
      BY <2>2, ModNear
    <2> QED
      BY <2>1, <2>2, <2>3
  <1>3. ASSUME NEW i \in 1 .. n
        PROVE  (t + i - 1) % n = IF t + i - 1 < n THEN t + i - 1 ELSE t + i - 1 - n
    <2>1. PICK x \in Int : x = t + i - 1
      BY <1>1
    <2>2. 0 <= x /\ -n <= x /\ x < 2 * n
      BY <1>1, <2>1
    <2>3. x % n = IF x < 0 THEN x + n ELSE IF x < n THEN x ELSE x - n
      BY <2>2, ModNear
    <2> QED
      BY <2>1, <2>2, <2>3
  <1> QED
    BY <1>1, <1>2, <1>3 DEF Occupied, Place

LEMMA RingHolds ==
    ASSUME FramingAssumption, RingInv PROVE RingIsQueue
  <1>1. RingTyped /\ WriterTyped /\ MachineTyped /\ InRing
    BY DEF RingInv
  <1>2. TypeOK
    BY <1>1 DEF TypeOK, RingTyped, WriterTyped, MachineTyped
  <1>3. PICK l \in Nat : l = Len(unread) /\ DOMAIN unread = 1 .. l
    BY <1>1, SeqIs DEF RingTyped
  <1>4. l \in 0 .. ReadBuffer - 1 /\ (head - tail) % ReadBuffer = l
    BY <1>1, <1>3, RingIs DEF InRing
  <1>5. \A i \in 1 .. l : i \in 1 .. ReadBuffer
    BY <1>4, LineConstants
  <1>6. \A i \in DOMAIN unread : rb[(tail + i - 1) % ReadBuffer] = unread[i]
    BY <1>1, <1>3, <1>5, RingIs DEF InRing
  <1> QED
    BY <1>2, <1>3, <1>4, <1>6 DEF RingIsQueue

\* Octets leave the ring at the tail.
LEMMA TakesIs ==
    ASSUME FramingAssumption, RingTyped, InRing, NEW n \in 0 .. 2, n <= Len(unread), Takes(n)
    PROVE  RingTyped' /\ InRing'
  <1>1. PICK l \in Nat, k \in Nat : l = Len(unread) /\ l = n + k
    <2>1. Len(unread) \in Nat
      BY SeqIs DEF RingTyped
    <2> QED
      BY <2>1
  <1>2. /\ unread' \in Seq(Values) /\ Len(unread') = k
        /\ \A i \in 1 .. k : unread'[i] = unread[n + i]
    <2>1. unread' = SubSeq(unread, n + 1, n + k) /\ n \in Nat
      BY <1>1 DEF Takes
    <2>2. unread \in Seq(Values) /\ n + k <= Len(unread)
      BY <1>1 DEF RingTyped
    <2> QED
      BY <2>1, <2>2, PartIs
  <1>3. PICK m \in Nat \ {0}, h \in Nat, t \in Nat :
            h < m /\ t < m /\ m = ReadBuffer /\ h = head /\ t = tail /\ m >= 3
    BY LineConstants DEF RingTyped
  <1>4. l = IF h >= t THEN h - t ELSE h - t + m
    BY <1>1, <1>3 DEF InRing, Occupied
  <1>5. tail' = IF t + n < m THEN t + n ELSE t + n - m
    <2>1. PICK x \in Int : x = t + n
      OBVIOUS
    <2>2. 0 <= x /\ -m <= x /\ x < 2 * m
      BY <1>3, <2>1
    <2>3. x % m = IF x < 0 THEN x + m ELSE IF x < m THEN x ELSE x - m
      BY <2>2, ModNear
    <2>4. tail' = x % m
      BY <1>3, <2>1 DEF Takes
    <2> QED
      BY <2>1, <2>2, <2>3, <2>4
  <1>6. head' = head /\ rb' = rb
    BY DEF Takes
  <1>7. RingTyped'
    BY <1>2, <1>3, <1>5, <1>6 DEF RingTyped
  <1>8. PICK u \in 0 .. m - 1 : u = tail' /\ u = IF t + n < m THEN t + n ELSE t + n - m
    <2>1. tail' \in 0 .. m - 1
      BY <1>3, <1>5
    <2> QED
      BY <1>5, <2>1
  <1>9. Occupied' = k
    <2>1. k = IF h >= u THEN h - u ELSE h - u + m
      BY <1>1, <1>3, <1>4, <1>8
    <2> QED
      BY <1>3, <1>6, <1>8, <2>1 DEF Occupied
  <1>10. ASSUME NEW i \in 1 .. k PROVE rb'[Place(i)'] = unread'[i]
    <2>1. PICK j \in 1 .. l : j = n + i
      BY <1>1
    <2>2. Place(i)' = Place(j)
      <3>1. Place(j) = IF t + j - 1 < m THEN t + j - 1 ELSE t + j - 1 - m
        BY <1>3 DEF Place
      <3>2. Place(i)' = IF u + i - 1 < m THEN u + i - 1 ELSE u + i - 1 - m
        BY <1>3, <1>8 DEF Place
      <3>3. l < m
        BY <1>3, <1>4
      <3> QED
        BY <1>1, <1>3, <1>8, <2>1, <3>1, <3>2, <3>3
    <2>3. rb[Place(j)] = unread[j]
      BY <1>1, <2>1 DEF InRing
    <2> QED
      BY <1>2, <1>6, <2>1, <2>2, <2>3
  <1>11. InRing'
    BY <1>2, <1>9, <1>10 DEF InRing
  <1> QED
    BY <1>7, <1>11

\* What get_next_octet takes is there.
LEMMA OctetIs ==
    ASSUME FramingAssumption, RingTyped, InRing
    PROVE  /\ Octet.ok \in BOOLEAN
           /\ Octet.takes \in 0 .. 2 /\ Octet.takes <= Len(unread)
           /\ Octet.octet \in Nat
           /\ Octet.takes = 1 => Octet.octet = unread[1]
           /\ Octet.takes = 2 => Octet.octet = BEGIN \/ Octet.octet = Xor(unread[2])
           /\ Octet.ok => Octet.takes \in 1 .. 2
  <1>0. PICK m \in Nat \ {0}, h \in Nat, t \in Nat :
            h < m /\ t < m /\ m = ReadBuffer /\ h = head /\ t = tail /\ m >= 3
    BY LineConstants DEF RingTyped
  <1>1. PICK l \in Nat :
            /\ h < m /\ t < m /\ m = ReadBuffer /\ h = head /\ t = tail /\ m >= 3
            /\ l = Len(unread) /\ l = IF h >= t THEN h - t ELSE h - t + m
    <2>1. Len(unread) \in Nat
      BY SeqIs DEF RingTyped
    <2>2. Len(unread) = IF h >= t THEN h - t ELSE h - t + m
      BY <1>0 DEF InRing, Occupied
    <2> QED
      BY <1>0, <2>1, <2>2
  <1>2. CASE head = tail
    BY <1>1, <1>2 DEF Octet
  <1>3. CASE head # tail
    <2>1. 1 <= l /\ Place(1) = tail /\ rb[tail] = unread[1]
      <3>1. 1 <= l /\ Place(1) = t
        BY <1>1, <1>3 DEF Place
      <3> QED
        BY <1>1, <3>1 DEF InRing
    <2>2. rb[tail] \in Values /\ rb[tail] \in Nat
      <3>1. rb[tail] \in Values
        BY DEF RingTyped
      <3> QED
        BY <3>1, ValuesAre
    <2>3. CASE rb[tail] # ESC
      BY <1>1, <1>3, <2>1, <2>2, <2>3 DEF Octet
    <2>4. CASE rb[tail] = ESC
      <3>1. Next1 = IF t + 1 < m THEN t + 1 ELSE t + 1 - m
        <4>1. PICK x \in Int : x = t + 1
          OBVIOUS
        <4>2. 0 <= x /\ -m <= x /\ x < 2 * m
          BY <1>1, <4>1
        <4>3. x % m = IF x < 0 THEN x + m ELSE IF x < m THEN x ELSE x - m
          BY <4>2, ModNear
        <4>4. Next1 = x % m
          BY <1>1, <4>1 DEF Next1
        <4> QED
          BY <4>1, <4>2, <4>3, <4>4
      <3>2. CASE Next1 = head
        BY <1>1, <1>3, <2>4, <3>2 DEF Octet
      <3>3. CASE Next1 # head
        <4>1. 2 <= l /\ Place(2) = Next1 /\ Next1 \in 0 .. m - 1
          BY <1>1, <1>3, <3>1, <3>3 DEF Place
        <4>2. rb[Next1] = unread[2] /\ rb[Next1] \in Values
          BY <1>1, <4>1 DEF InRing, RingTyped
        <4>3. Xor(rb[Next1]) \in Nat
          BY <4>2, ValuesAre
        <4>4. BEGIN \in Nat
          BY DEF BEGIN
        <4>5. CASE rb[Next1] = BEGIN
          BY <1>1, <1>3, <2>4, <3>3, <4>1, <4>4, <4>5 DEF Octet
        <4>6. CASE rb[Next1] # BEGIN
          BY <1>1, <1>3, <2>4, <3>3, <4>1, <4>2, <4>3, <4>6 DEF Octet
        <4> QED
          BY <4>5, <4>6
      <3> QED
        BY <3>2, <3>3
    <2> QED
      BY <2>3, <2>4
  <1> QED
    BY <1>2, <1>3

\* There is room for what transport_read asks for.
LEMMA RoomIs ==
    ASSUME FramingAssumption, RingTyped
    PROVE  Room[1] + Room[2] = ReadBuffer - 1 - Occupied
  <1>1. PICK m \in Nat \ {0}, h \in Nat, t \in Nat :
            h < m /\ t < m /\ m = ReadBuffer /\ h = head /\ t = tail
    BY LineConstants DEF RingTyped
  <1>2. CASE head = tail
    BY <1>1, <1>2 DEF Room, Occupied
  <1>3. CASE head > tail /\ tail > 0
    BY <1>1, <1>3 DEF Room, Occupied
  <1>4. CASE head > tail /\ ~(tail > 0)
    BY <1>1, <1>4 DEF Room, Occupied
  <1>5. CASE head < tail
    BY <1>1, <1>5 DEF Room, Occupied
  <1> QED
    BY <1>1, <1>2, <1>3, <1>4, <1>5

\* Octets enter the ring at the head.
LEMMA ReadIntoIs ==
    ASSUME FramingAssumption, RingTyped, InRing, line \in Seq(Tagged),
           NEW n \in Nat, n <= Room[1] + Room[2], n <= Len(line), ReadInto(n)
    PROVE  /\ RingTyped' /\ InRing' /\ line' \in Seq(Tagged)
           /\ \E taken \in Seq(Values) :
                 /\ unread' = unread \o taken /\ Len(taken) = n
                 /\ \A i \in 1 .. n : taken[i] = line[i].octet
           /\ Len(line') = Len(line) - n
           /\ \A i \in 1 .. Len(line) - n : line'[i] = line[n + i]
  <1>1. PICK m \in Nat \ {0}, h \in Nat, t \in Nat :
            h < m /\ t < m /\ m = ReadBuffer /\ h = head /\ t = tail
    BY LineConstants DEF RingTyped
  <1>2. PICK l \in Nat :
            /\ h < m /\ t < m
            /\ l = Len(unread) /\ l = IF h >= t THEN h - t ELSE h - t + m
            /\ l + n <= m - 1
    <2>1. Len(unread) \in Nat
      BY SeqIs DEF RingTyped
    <2>2. Len(unread) = IF h >= t THEN h - t ELSE h - t + m
      BY <1>1 DEF InRing, Occupied
    <2>3. Len(unread) + n <= m - 1
      <3>1. Occupied = Len(unread) /\ Room[1] + Room[2] = m - 1 - Occupied
        BY <1>1, RoomIs DEF InRing
      <3> QED
        BY <1>1, <2>1, <3>1
    <2> QED
      BY <1>1, <2>1, <2>2, <2>3
  <1>3. PICK s \in Nat : s < m /\ s = IF h = t THEN 0 ELSE h
    <2>1. CASE h = t
      BY <1>1, <2>1
    <2>2. CASE h # t
      BY <1>1, <2>2
    <2> QED
      BY <2>1, <2>2
  <1>4. PICK u \in Nat : u < m /\ u = IF h = t THEN 0 ELSE t
    <2>1. CASE h = t
      BY <1>1, <2>1
    <2>2. CASE h # t
      BY <1>1, <2>2
    <2> QED
      BY <2>1, <2>2
  <1>5. PICK taken : taken = [i \in 1 .. n |-> line[i].octet]
    OBVIOUS
  <1>6. taken \in Seq(Values) /\ Len(taken) = n /\ \A i \in 1 .. n : taken[i] = line[i].octet
    <2>1. \A i \in 1 .. n : line[i] \in Tagged
      <3>1. \A i \in 1 .. Len(line) : line[i] \in Tagged
        BY SeqIs, Zenon
      <3>2. Len(line) \in Nat
        BY SeqIs, Zenon
      <3> QED
        BY <3>1, <3>2
    <2>2. \A i \in 1 .. n : line[i].octet \in Values
      BY <2>1 DEF Tagged
    <2> QED
      BY <1>5, <2>2
  <1>7. /\ tail' = u
        /\ head' = (s + n) % m
        /\ unread' = unread \o taken
        /\ line' = SubSeq(line, n + 1, Len(line))
        /\ rb' = [i \in DOMAIN rb |-> IF (i - s) % m < n THEN taken[((i - s) % m) + 1] ELSE rb[i]]
    BY <1>1, <1>3, <1>4, <1>5 DEF ReadInto
  <1>8. PICK g \in Nat : g < m /\ g = head' /\ g = IF s + n < m THEN s + n ELSE s + n - m
    <2>1. PICK x \in Int : x = s + n
      OBVIOUS
    <2>2. 0 <= x /\ -m <= x /\ x < 2 * m
      BY <1>2, <1>3, <2>1
    <2>3. x % m = IF x < 0 THEN x + m ELSE IF x < m THEN x ELSE x - m
      BY <2>2, ModNear
    <2>4. head' = x % m
      BY <1>7, <2>1
    <2>5. CASE s + n < m
      <3>1. head' = s + n
        BY <2>1, <2>2, <2>3, <2>4, <2>5
      <3> QED
        BY <2>5, <3>1
    <2>6. CASE ~(s + n < m)
      <3>1. head' = s + n - m
        BY <2>1, <2>2, <2>3, <2>4, <2>6
      <3>2. s + n - m \in Nat /\ s + n - m < m
        BY <1>1, <1>2, <1>3, <2>6
      <3> QED
        BY <2>6, <3>1, <3>2
    <2> QED
      BY <2>5, <2>6
  <1>9. ASSUME NEW i \in 0 .. m - 1
        PROVE  (i - s) % m = IF i >= s THEN i - s ELSE i - s + m
    <2>1. PICK x \in Int : x = i - s
      OBVIOUS
    <2>2. -m <= x /\ x < m /\ x < 2 * m
      BY <1>3, <2>1
    <2>3. x % m = IF x < 0 THEN x + m ELSE IF x < m THEN x ELSE x - m
      BY <2>2, ModNear
    <2> QED
      BY <1>3, <2>1, <2>2, <2>3
  <1>10. DOMAIN rb = 0 .. m - 1 /\ \A i \in 0 .. m - 1 : rb[i] \in Values
    BY <1>1 DEF RingTyped
  <1>11. ASSUME NEW i \in 0 .. m - 1, NEW k \in Nat, k = IF i >= s THEN i - s ELSE i - s + m
         PROVE  rb'[i] = IF k < n THEN taken[k + 1] ELSE rb[i]
    BY <1>7, <1>9, <1>10, <1>11
  <1>12. /\ unread' \in Seq(Values) /\ Len(unread') = l + n
         /\ \A i \in 1 .. l : unread'[i] = unread[i]
         /\ \A i \in 1 .. n : unread'[l + i] = taken[i]
    <2>1. unread \in Seq(Values)
      BY DEF RingTyped
    <2>2. /\ unread \o taken \in Seq(Values) /\ Len(unread \o taken) = Len(unread) + Len(taken)
          /\ \A i \in 1 .. Len(unread) : (unread \o taken)[i] = unread[i]
          /\ \A i \in 1 .. Len(taken) : (unread \o taken)[Len(unread) + i] = taken[i]
      <3>1. taken \in Seq(Values)
        BY <1>6
      <3> QED
        BY <2>1, <3>1, InARow
    <2>3. Len(unread) = l /\ Len(taken) = n
      BY <1>2, <1>6
    <2> QED
      BY <1>7, <2>2, <2>3
  <1>13. rb' \in [0 .. m - 1 -> Values]
    <2>1. ASSUME NEW i \in 0 .. m - 1 PROVE rb'[i] \in Values
      <3>1. PICK k \in Nat : k = IF i >= s THEN i - s ELSE i - s + m
        <4>1. CASE i >= s
        <5>1. i - s \in Nat
          BY <1>3, <4>1
        <5> QED
          BY <4>1, <5>1
        <4>2. CASE ~(i >= s)
        <5>1. i - s + m \in Nat
          BY <1>1, <1>3, <4>2
        <5> QED
          BY <4>2, <5>1
        <4> QED
          BY <4>1, <4>2
      <3>2. rb'[i] = IF k < n THEN taken[k + 1] ELSE rb[i]
        BY <1>11, <3>1
      <3>3. k < n => taken[k + 1] \in Values
        BY <1>6
      <3> QED
        BY <1>10, <3>2, <3>3
    <2> QED
      BY <1>7, <1>10, <2>1
  <1>14. RingTyped'
    <2>1. unread' \in Seq(Values)
      BY <1>12
    <2> QED
      BY <1>1, <1>4, <1>7, <1>8, <1>13, <2>1 DEF RingTyped
  <1>15. Occupied' = l + n
    <2>1. l + n = IF g >= u THEN g - u ELSE g - u + m
      BY <1>1, <1>2, <1>3, <1>4, <1>8
    <2> QED
      BY <1>1, <1>7, <1>8, <2>1 DEF Occupied
  <1>16. ASSUME NEW i \in 1 .. l + n PROVE rb'[Place(i)'] = unread'[i]
    <2>1. PICK p \in 0 .. m - 1 : p = IF u + i - 1 < m THEN u + i - 1 ELSE u + i - 1 - m
      <3>1. CASE u + i - 1 < m
        BY <1>1, <1>4, <3>1
      <3>2. CASE ~(u + i - 1 < m)
        <4>1. u + i - 1 - m \in 0 .. m - 1
          BY <1>1, <1>2, <1>4, <3>2
        <4> QED
          BY <3>2, <4>1
      <3> QED
        BY <3>1, <3>2
    <2>2. Place(i)' = p
      BY <1>1, <1>7, <2>1 DEF Place
    <2>3. PICK k \in Nat : k = IF p >= s THEN p - s ELSE p - s + m
      <3>1. CASE p >= s
      <4>1. p - s \in Nat
        BY <1>3, <3>1
      <4> QED
        BY <3>1, <4>1
      <3>2. CASE ~(p >= s)
      <4>1. p - s + m \in Nat
        BY <1>1, <1>3, <3>2
      <4> QED
        BY <3>2, <4>1
      <3> QED
        BY <3>1, <3>2
    <2>4. rb'[p] = IF k < n THEN taken[k + 1] ELSE rb[p]
      BY <1>11, <2>3
    <2>5. CASE i <= l
      <3>1. h # t /\ s = h /\ u = t
        BY <1>2, <1>3, <1>4, <2>5
      <3>2. ~(k < n)
        BY <1>1, <1>2, <2>1, <2>3, <2>5, <3>1
      <3>3. Place(i) = p /\ i \in 1 .. l
        BY <1>1, <2>1, <2>5, <3>1 DEF Place
      <3>4. rb[p] = unread[i]
        BY <1>2, <3>3 DEF InRing
      <3> QED
        BY <1>12, <2>2, <2>4, <3>2, <3>3, <3>4
    <2>6. CASE ~(i <= l)
      <3>1. PICK j \in 1 .. n : i = l + j
        <4>1. i - l \in 1 .. n /\ i = l + (i - l)
          BY <1>2, <2>6
        <4> QED
          BY <4>1
      <3>2. k = j - 1
        BY <1>1, <1>2, <1>3, <1>4, <2>1, <2>3, <3>1
      <3> QED
        BY <1>12, <2>2, <2>4, <3>1, <3>2
    <2> QED
      BY <2>5, <2>6
  <1>17. InRing'
    BY <1>12, <1>15, <1>16 DEF InRing
  <1>18. /\ line' \in Seq(Tagged) /\ Len(line') = Len(line) - n
         /\ \A i \in 1 .. Len(line) - n : line'[i] = line[n + i]
    <2>1. PICK k \in Nat : Len(line) = n + k
      <3>1. Len(line) \in Nat
        BY SeqIs, Zenon
      <3> QED
        BY <3>1
    <2>2. /\ SubSeq(line, n + 1, n + k) \in Seq(Tagged) /\ Len(SubSeq(line, n + 1, n + k)) = k
          /\ \A i \in 1 .. k : SubSeq(line, n + 1, n + k)[i] = line[n + i]
      BY <2>1, PartIs
    <2> QED
      BY <1>7, <2>1, <2>2
  <1> QED
    BY <1>6, <1>7, <1>14, <1>17, <1>18
----------------------------------------------------------------------------
(* The writer and the line *)

LEMMA ContinuesIs ==
    ASSUME FramingAssumption, writing \in Calls, NEW done \in Nat, Continues(done)
    PROVE  writing' = NotWriting \/ writing' \in Calls
  <1>1. CASE done < Len(writing.buffer)
    <2>1. writing' = [writing EXCEPT !.bytes_written = done]
      BY <1>1 DEF Continues
    <2> QED
      BY <2>1 DEF Calls
  <1>2. CASE ~(done < Len(writing.buffer)) /\ writing.units = <<>>
    BY <1>2 DEF Continues
  <1>3. CASE ~(done < Len(writing.buffer)) /\ writing.units # <<>>
    <2>1. writing' = Filled(writing.message, writing.side, <<>>, writing.units)
      BY <1>3 DEF Continues
    <2>2. /\ writing.message \in DOMAIN Messages /\ writing.side \in {"agent", "client"}
          /\ writing.units \in Seq(Values)
      BY DEF Calls
    <2> QED
      BY <2>1, <2>2, FilledIs
  <1> QED
    BY <1>1, <1>2, <1>3

\* What a transport_write puts on the line.
LEMMA WritesIs ==
    ASSUME FramingAssumption, line \in Seq(Tagged), writing \in Calls,
           NEW from \in Nat, NEW n \in Nat, from + n <= Len(writing.buffer),
           line' = line \o OnLine(SubSeq(writing.buffer, from + 1, from + n))
    PROVE  /\ line' \in Seq(Tagged) /\ Len(line') = Len(line) + n
           /\ \A i \in 1 .. Len(line) : line'[i] = line[i]
           /\ \A i \in 1 .. n : line'[Len(line) + i].octet = writing.buffer[from + i]
  <1>1. PICK part : part = SubSeq(writing.buffer, from + 1, from + n)
    OBVIOUS
  <1>2. writing.buffer \in Seq(Values) /\ writing.message \in Nat
    BY LineConstants DEF Calls
  <1>3. /\ part \in Seq(Values) /\ Len(part) = n
        /\ \A i \in 1 .. n : part[i] = writing.buffer[from + i]
    <2>1. writing.buffer \in Seq(Values)
      BY <1>2
    <2>2. /\ SubSeq(writing.buffer, from + 1, from + n) \in Seq(Values)
          /\ Len(SubSeq(writing.buffer, from + 1, from + n)) = n
          /\ \A i \in 1 .. n : SubSeq(writing.buffer, from + 1, from + n)[i] = writing.buffer[from + i]
      BY <2>1, PartIs
    <2> QED
      BY <1>1, <2>2
  <1>4. PICK more : more = OnLine(part)
    OBVIOUS
  <1>5. DOMAIN part = 1 .. n /\ \A i \in 1 .. n : part[i] \in Values
    BY <1>3, SeqIs
  <1>6. more = [i \in 1 .. n |-> [octet |-> part[i], message |-> writing.message]]
    BY <1>4, <1>5 DEF OnLine
  <1>7. \A i \in 1 .. n : [octet |-> part[i], message |-> writing.message] \in Tagged
    BY <1>2, <1>5 DEF Tagged
  <1>8. more \in Seq(Tagged) /\ Len(more) = n /\ \A i \in 1 .. n : more[i].octet = part[i]
    BY <1>6, <1>7
  <1>9. /\ line \o more \in Seq(Tagged) /\ Len(line \o more) = Len(line) + Len(more)
        /\ \A i \in 1 .. Len(line) : (line \o more)[i] = line[i]
        /\ \A i \in 1 .. Len(more) : (line \o more)[Len(line) + i] = more[i]
    <2>1. more \in Seq(Tagged)
      BY <1>8
    <2> QED
      BY <2>1, InARow
  <1>10. line' = line \o more /\ Len(more) = n
    BY <1>1, <1>4, <1>8
  <1>11. \A i \in 1 .. n : line'[Len(line) + i].octet = writing.buffer[from + i]
    <2> SUFFICES ASSUME NEW i \in 1 .. n
                 PROVE  line'[Len(line) + i].octet = writing.buffer[from + i]
      OBVIOUS
    <2>1. (line \o more)[Len(line) + i] = more[i]
      BY <1>9, <1>10, Zenon
    <2>2. more[i].octet = writing.buffer[from + i]
      BY <1>3, <1>8, Zenon
    <2> QED
      BY <1>10, <2>1, <2>2, Zenon
  <1> QED
    BY <1>9, <1>10, <1>11

\* An octet gets lost.
LEMMA LosesIs ==
    ASSUME line \in Seq(Tagged), NEW i \in 1 .. Len(line), Loses(i)
    PROVE  /\ line' \in Seq(Tagged) /\ Len(line') = Len(line) - 1
           /\ \A j \in 1 .. Len(line) - 1 : line'[j] = IF j < i THEN line[j] ELSE line[j + 1]
  <1>1. PICK a \in Nat, b \in Nat : i = a + 1 /\ Len(line) = i + b
    <2>1. Len(line) \in Nat
      BY SeqIs, Zenon
    <2>2. PICK a \in Nat : a = i - 1
      BY <2>1
    <2>3. PICK b \in Nat : b = Len(line) - i
      BY <2>1
    <2>4. i = a + 1 /\ Len(line) = i + b
      BY <2>1, <2>2, <2>3
    <2> QED
      BY <2>4
  <1>2. PICK p, q : p = SubSeq(line, 1, i - 1) /\ q = SubSeq(line, i + 1, Len(line))
    OBVIOUS
  <1>3. p \in Seq(Tagged) /\ Len(p) = a /\ \A j \in 1 .. a : p[j] = line[j]
    <2>1. p = SubSeq(line, 0 + 1, 0 + a) /\ 0 + a <= Len(line)
      BY <1>1, <1>2
    <2>2. /\ SubSeq(line, 0 + 1, 0 + a) \in Seq(Tagged) /\ Len(SubSeq(line, 0 + 1, 0 + a)) = a
          /\ \A j \in 1 .. a : SubSeq(line, 0 + 1, 0 + a)[j] = line[0 + j]
      BY <2>1, PartIs
    <2> QED
      BY <2>1, <2>2
  <1>4. q \in Seq(Tagged) /\ Len(q) = b /\ \A j \in 1 .. b : q[j] = line[i + j]
    <2>1. q = SubSeq(line, i + 1, i + b) /\ i + b <= Len(line) /\ i \in Nat
      BY <1>1, <1>2
    <2>2. line \in Seq(Tagged) /\ b \in Nat
      BY <1>1
    <2>3. /\ SubSeq(line, i + 1, i + b) \in Seq(Tagged) /\ Len(SubSeq(line, i + 1, i + b)) = b
          /\ \A j \in 1 .. b : SubSeq(line, i + 1, i + b)[j] = line[i + j]
      BY <2>1, <2>2, PartIs
    <2> QED
      BY <2>1, <2>3, Zenon
  <1>5. /\ p \o q \in Seq(Tagged) /\ Len(p \o q) = Len(p) + Len(q)
        /\ \A j \in 1 .. Len(p) : (p \o q)[j] = p[j]
        /\ \A j \in 1 .. Len(q) : (p \o q)[Len(p) + j] = q[j]
    <2>1. p \in Seq(Tagged) /\ q \in Seq(Tagged)
      BY <1>3, <1>4
    <2> QED
      BY <2>1, InARow
  <1>6. line' = p \o q
    BY <1>2 DEF Loses, RemoveAt
  <1>7. ASSUME NEW j \in 1 .. a + b PROVE line'[j] = IF j < i THEN line[j] ELSE line[j + 1]
    <2>1. CASE j <= a
      BY <1>1, <1>3, <1>5, <1>6, <2>1
    <2>2. CASE ~(j <= a)
      <3>1. PICK e \in 1 .. b : j = a + e
        <4>1. j - a \in 1 .. b /\ j = a + (j - a)
          BY <2>2
        <4> QED
          BY <4>1
      <3>2. ~(j < i) /\ i + e = j + 1
        BY <1>1, <3>1
      <3> QED
        BY <1>3, <1>4, <1>5, <1>6, <3>1, <3>2
    <2> QED
      BY <2>1, <2>2
  <1>8. Len(line) - 1 = a + b /\ Len(p \o q) = a + b
    BY <1>1, <1>3, <1>4, <1>5
  <1> QED
    BY <1>5, <1>6, <1>7, <1>8

\* An octet changes.
LEMMA ChangesIs ==
    ASSUME FramingAssumption, line \in Seq(Tagged), NEW i \in 1 .. Len(line), Changes(i)
    PROVE  /\ line' \in Seq(Tagged) /\ Len(line') = Len(line)
           /\ \A j \in 1 .. Len(line) :
                 IF j = i THEN line'[j].octet \in Octets ELSE line'[j] = line[j]
  <1>1. PICK octet \in Octets : line' = [line EXCEPT ![i].octet = octet]
    BY DEF Changes
  <1>2. octet \in Values
    BY ValuesAre
  <1>3. Len(line) \in Nat /\ DOMAIN line = 1 .. Len(line) /\ \A j \in 1 .. Len(line) : line[j] \in Tagged
    BY SeqIs, Zenon
  <1>4. [line[i] EXCEPT !.octet = octet] \in Tagged /\ [line[i] EXCEPT !.octet = octet].octet = octet
    BY <1>2, <1>3 DEF Tagged
  <1>5. line' = [line EXCEPT ![i] = [line[i] EXCEPT !.octet = octet]]
    BY <1>1
  <1>6. PICK x : x = [line[i] EXCEPT !.octet = octet]
    OBVIOUS
  <1>7. line' = [line EXCEPT ![i] = x] /\ x \in Tagged /\ x.octet = octet
    BY <1>4, <1>5, <1>6
  <1> QED
    BY <1>3, <1>7

----------------------------------------------------------------------------
(* The ring is a queue *)

LEMMA InitRing == ASSUME FramingAssumption, Init PROVE RingInv
  <1>1. ReadBuffer \in Nat /\ ReadBuffer >= 3 /\ Len(Messages) \in Nat /\ BufferLength \in Nat
    BY LineConstants
  <1>2. WriterTyped
    BY <1>1, EmptySeq DEF Init, WriterTyped
  <1>3. 0 \in Values
    BY ValuesAre
  <1>4. RingTyped
    BY <1>1, <1>3, EmptySeq DEF Init, RingTyped
  <1>5. MachineTyped
    BY <1>1 DEF Init, MachineTyped, States
  <1>6. InRing
    BY <1>1, EmptySeq DEF Init, InRing, Occupied
  <1> QED
    BY <1>2, <1>4, <1>5, <1>6 DEF RingInv

LEMMA WriteFramedMsgRing == ASSUME FramingAssumption, WriterTyped, WriteFramedMsg PROVE WriterTyped'
  <1>1. PICK side \in {"agent", "client"} :
            writing' = Filled(written + 1, side, <<BEGIN>>, Frame(written + 1))
    BY DEF WriteFramedMsg
  <1>2. written + 1 \in DOMAIN Messages /\ written' \in 0 .. Len(Messages)
    BY LineConstants DEF WriteFramedMsg, WriterTyped
  <1>3. Frame(written + 1) \in Seq(Values)
    BY <1>2, FrameIs
  <1>4. writing' \in Calls
    BY <1>1, <1>2, <1>3, FilledIs
  <1> QED
    BY <1>2, <1>4 DEF WriteFramedMsg, WriterTyped

\* A transport_write puts a part of the buffer on the line: of the Client, the
\* next one; of the Agent, the first one.
LEMMA TransportWriteIs ==
    ASSUME FramingAssumption, WriterTyped, TransportWrite
    PROVE  /\ writing \in Calls /\ line' \in Seq(Tagged)
           /\ writing' = NotWriting \/ writing' \in Calls
           /\ \E from \in Nat, n \in Nat, done \in Nat :
                 /\ from + n <= Len(writing.buffer) /\ from + n <= done
                 /\ line' = line \o OnLine(SubSeq(writing.buffer, from + 1, from + n))
                 /\ Continues(done) \/ writing' = NotWriting
                 /\ from + n < Len(writing.buffer) \/ done >= Len(writing.buffer)
  <1>1. writing \in Calls /\ line \in Seq(Tagged)
    BY DEF TransportWrite, WriterTyped
  <1>2. writing.bytes_written \in Nat /\ writing.buffer \in Seq(Values) /\ Len(writing.buffer) \in Nat
    <2>1. writing.bytes_written \in Nat /\ writing.buffer \in Seq(Values)
      BY <1>1 DEF Calls
    <2> QED
      BY <2>1, SeqIs
  <1>3. PICK n \in 1 .. WriteBuffer :
            \/ writing.side = "client" /\ ClientWrites(n)
            \/ writing.side = "agent" /\ AgentWrites(n)
    BY DEF TransportWrite
  <1>4. n \in Nat
    BY LineConstants
  <1>5. PICK from \in Nat, done \in Nat :
            /\ from + n <= Len(writing.buffer) /\ from + n <= done
            /\ line' = line \o OnLine(SubSeq(writing.buffer, from + 1, from + n))
            /\ Continues(done) \/ writing' = NotWriting
    <2>1. CASE ClientWrites(n)
      <3>1. PICK f \in Nat, d \in Nat : f = writing.bytes_written /\ d = f + n
        BY <1>2, <1>4
      <3>2. /\ f + n <= Len(writing.buffer) /\ Continues(d)
            /\ line' = line \o OnLine(SubSeq(writing.buffer, f + 1, f + n))
        BY <1>2, <1>4, <2>1, <3>1 DEF ClientWrites
      <3>3. f + n <= d
        BY <1>4, <3>1
      <3> QED
        BY <3>2, <3>3
    <2>2. CASE AgentWrites(n)
      <3>1. PICK f \in Nat, d \in Nat : f = 0 /\ d = writing.bytes_written + n
        BY <1>2, <1>4, SMTT(60)
      <3>2. /\ f + n <= Len(writing.buffer) /\ (Continues(d) \/ writing' = NotWriting)
            /\ line' = line \o OnLine(SubSeq(writing.buffer, 1, n))
        BY <1>2, <1>4, <2>2, <3>1 DEF AgentWrites
      <3>3. f + n = n /\ f + 1 = 1 /\ f + n <= d
        BY <1>2, <1>4, <3>1
      <3> QED
        BY <3>2, <3>3
    <2> QED
      BY <1>3, <2>1, <2>2
  <1>6. from + n < Len(writing.buffer) \/ done >= Len(writing.buffer)
    BY <1>2, <1>4, <1>5
  <1>7. line' \in Seq(Tagged)
    BY <1>1, <1>4, <1>5, WritesIs
  <1>8. writing' = NotWriting \/ writing' \in Calls
    BY <1>1, <1>5, ContinuesIs
  <1> QED
    BY <1>1, <1>4, <1>5, <1>6, <1>7, <1>8

LEMMA TransportWriteRing == ASSUME FramingAssumption, WriterTyped, TransportWrite PROVE WriterTyped'
  BY TransportWriteIs DEF TransportWrite, WriterTyped

LEMMA FaultRing == ASSUME FramingAssumption, WriterTyped, Fault PROVE WriterTyped'
  <1>1. line \in Seq(Tagged)
    BY DEF WriterTyped
  <1>2. DOMAIN line = 1 .. Len(line)
    BY <1>1, SeqIs, Zenon
  <1>3. PICK i \in 1 .. Len(line) : Loses(i) \/ Changes(i)
    BY <1>2 DEF Fault
  <1>4. line' \in Seq(Tagged)
    BY <1>1, <1>3, LosesIs, ChangesIs
  <1> QED
    BY <1>4 DEF Fault, writeVars, WriterTyped

LEMMA WriterStays ==
    ASSUME FramingAssumption, WriterTyped, UNCHANGED writeVars, line' \in Seq(Tagged)
    PROVE  WriterTyped'
  BY DEF writeVars, WriterTyped

\* A step of the writer or of the line leaves the reader as it is.
LEMMA ReaderStays ==
    ASSUME RingTyped, MachineTyped, InRing, UNCHANGED <<ringVars, machineVars>>
    PROVE  RingTyped' /\ MachineTyped' /\ InRing'
  BY DEF ringVars, machineVars, RingTyped, MachineTyped, InRing, Occupied, Place

LEMMA TransportReadRing == ASSUME FramingAssumption, RingInv, TransportRead PROVE RingInv'
  <1>1. WriterTyped /\ RingTyped /\ MachineTyped /\ InRing
    BY DEF RingInv
  <1>2. PICK n \in 0 .. Room[1] + Room[2] : n <= Len(line) /\ ReadInto(n)
    BY DEF TransportRead
  <1>3. n \in Nat /\ n <= Room[1] + Room[2] /\ line \in Seq(Tagged)
    BY <1>1 DEF WriterTyped
  <1>4. RingTyped' /\ InRing' /\ line' \in Seq(Tagged)
    BY <1>1, <1>2, <1>3, ReadIntoIs
  <1>5. WriterTyped'
    BY <1>1, <1>4 DEF TransportRead, WriterTyped, writeVars
  <1>6. MachineTyped'
    BY <1>1 DEF TransportRead, MachineTyped
  <1> QED
    BY <1>4, <1>5, <1>6 DEF RingInv

\* What is not taken stays where it is.
LEMMA NothingTaken ==
    ASSUME RingTyped, InRing, UNCHANGED ringVars PROVE RingTyped' /\ InRing'
  BY DEF ringVars, RingTyped, InRing, Occupied, Place

LEMMA MachineRing ==
    ASSUME FramingAssumption, RingInv, Machine PROVE RingInv'
  <1>1. WriterTyped /\ RingTyped /\ MachineTyped /\ InRing
    BY DEF RingInv
  <1>2. WriterTyped'
    BY <1>1 DEF Machine, WriterTyped, writeVars
  <1>3. \A n \in 0 .. 2 : n <= Len(unread) /\ Takes(n) => RingTyped' /\ InRing'
    BY <1>1, TakesIs
  <1>4. Octet.takes \in 0 .. 2 /\ Octet.takes <= Len(unread) /\ Octet.octet \in Nat
    BY <1>1, OctetIs
  <1>5. Takes(Octet.takes) => RingTyped' /\ InRing'
    BY <1>3, <1>4
  <1>6. UNCHANGED ringVars => RingTyped' /\ InRing'
    BY <1>1, NothingTaken
  <1>7. RingTyped' /\ InRing' /\ MachineTyped'
    <2>1. CASE Seek
      <3>1. CASE head = tail
        BY <1>1, <1>6, <2>1, <3>1 DEF Seek, MachineTyped
      <3>2. CASE head # tail
        <4>1. 1 <= Len(unread)
          BY <1>1, <3>2, LineConstants DEF RingTyped, InRing, Occupied
        <4>2. RingTyped' /\ InRing'
          BY <1>3, <2>1, <3>2, <4>1 DEF Seek
        <4>3. MachineTyped'
          BY <1>1, <2>1, <3>2 DEF Seek, MachineTyped, Goes, States
        <4> QED
          BY <4>2, <4>3
      <3> QED
        BY <3>1, <3>2
    <2>2. CASE Interrupted
      BY <1>1, <1>5, <2>2 DEF Interrupted, MachineTyped, Goes, States
    <2>3. CASE ReadSrcAddr
      BY <1>1, <1>5, <2>3 DEF ReadSrcAddr, At, MachineTyped, Goes, States
    <2>4. CASE ReadDstAddr
      BY <1>1, <1>5, <2>4 DEF ReadDstAddr, At, MachineTyped, Goes, States
    <2>5. CASE ReadLenLsb
      BY <1>1, <1>4, <1>5, <2>5 DEF ReadLenLsb, At, MachineTyped, Goes, States
    <2>6. CASE ReadLenMsb
      <3>1. msg_len' \in Nat /\ BufferLength \in Nat
        BY <1>1, <1>4, <2>6, LineConstants, SMTT(60) DEF ReadLenMsb, MachineTyped
      <3> QED
        BY <1>1, <1>5, <2>6, <3>1 DEF ReadLenMsb, At, MachineTyped, Goes, States
    <2>7. CASE ReadPayload
      <3>1. CASE msg_pos = msg_len
        BY <1>1, <1>6, <2>7, <3>1 DEF ReadPayload, MachineTyped, Goes, States
      <3>2. CASE msg_pos # msg_len
        <4>1. Append(received, Octet.octet) \in Seq(Nat)
          BY <1>1, <1>4 DEF MachineTyped
        <4>2. /\ msg_pos < msg_len /\ state = "PAYLOAD" /\ Takes(Octet.takes)
              /\ msg_pos' = msg_pos + 1 /\ received' = Append(received, Octet.octet)
              /\ UNCHANGED <<state, reading, msg_len, messages>>
          BY <2>7, <3>2 DEF ReadPayload, At
        <4>3. received' \in Seq(Nat)
          BY <4>1, <4>2, Zenon
        <4>4. msg_pos' \in 0 .. BufferLength /\ msg_pos' <= msg_len'
          BY <1>1, <4>2, LineConstants DEF MachineTyped
        <4> QED
          BY <1>1, <1>5, <4>2, <4>3, <4>4 DEF MachineTyped
      <3> QED
        BY <3>1, <3>2
    <2>8. CASE ReadCrcLsb
      BY <1>1, <1>5, <2>8 DEF ReadCrcLsb, At, MachineTyped, Goes, States
    <2>9. CASE ReadCrcMsb
      BY <1>1, <1>5, <2>9 DEF ReadCrcMsb, At, MachineTyped, Goes, States
    <2> QED
      BY <2>1, <2>2, <2>3, <2>4, <2>5, <2>6, <2>7, <2>8, <2>9 DEF Machine
  <1> QED
    BY <1>2, <1>7 DEF RingInv

LEMMA RingStep == ASSUME FramingAssumption, RingInv, [Next]_vars PROVE RingInv'
  <1>1. WriterTyped /\ RingTyped /\ MachineTyped /\ InRing
    BY DEF RingInv
  <1>2. CASE WriteFramedMsg
    <2>1. WriterTyped'
      BY <1>1, <1>2, WriteFramedMsgRing
    <2>2. UNCHANGED <<ringVars, machineVars>>
      BY <1>2 DEF WriteFramedMsg
    <2> QED
      BY <1>1, <2>1, <2>2, ReaderStays DEF RingInv
  <1>3. CASE TransportWrite
    <2>1. WriterTyped'
      BY <1>1, <1>3, TransportWriteRing
    <2>2. UNCHANGED <<ringVars, machineVars>>
      BY <1>3 DEF TransportWrite
    <2> QED
      BY <1>1, <2>1, <2>2, ReaderStays DEF RingInv
  <1>4. CASE WriteFails
    <2>1. WriterTyped'
      BY <1>1, <1>4 DEF WriteFails, WriterTyped
    <2>2. UNCHANGED <<ringVars, machineVars>>
      BY <1>4 DEF WriteFails
    <2> QED
      BY <1>1, <2>1, <2>2, ReaderStays DEF RingInv
  <1>5. CASE Fault
    <2>1. WriterTyped'
      BY <1>1, <1>5, FaultRing
    <2>2. UNCHANGED <<ringVars, machineVars>>
      BY <1>5 DEF Fault
    <2> QED
      BY <1>1, <2>1, <2>2, ReaderStays DEF RingInv
  <1>6. CASE TransportRead
    BY <1>6, TransportReadRing
  <1>7. CASE Machine
    BY <1>7, MachineRing
  <1>8. CASE UNCHANGED vars
    <2>1. WriterTyped'
      BY <1>1, <1>8 DEF vars, writeVars, WriterTyped
    <2>2. UNCHANGED <<ringVars, machineVars>>
      BY <1>8 DEF vars
    <2> QED
      BY <1>1, <2>1, <2>2, ReaderStays DEF RingInv
  <1> QED
    BY <1>2, <1>3, <1>4, <1>5, <1>6, <1>7, <1>8 DEF Next

\* The positions of the ring stay within it, the part in use is as long as what
\* was read from the line and not taken, and holds it, in order: transport_read
\* never gives the callbacks more room than there is.
THEOREM RingInvariant == ASSUME FramingAssumption PROVE Spec => []RingInv
  <1>1. Init => RingInv
    BY InitRing
  <1>2. RingInv /\ [Next]_vars => RingInv'
    BY RingStep
  <1> QED
    BY <1>1, <1>2, PTL DEF Spec

\* transport_read and get_next_octet treat the ring as a
\* queue: no octet is overwritten or skipped, and none is taken twice.
THEOREM RingIsAQueue == ASSUME FramingAssumption PROVE Spec => []RingIsQueue
  <1>1. RingInv => RingIsQueue
    BY RingHolds
  <1> QED
    BY <1>1, RingInvariant, PTL

----------------------------------------------------------------------------
(* What is returned was written *)

\* Different payloads have different CRCs; equal ones cannot be told apart.
Distinct ==
    \A m, n \in DOMAIN Messages : Messages[m].payload = Messages[n].payload => m = n

\* The second octet of the CRC of message m.
Code(m) == 1000 * m + 100

\* The octets that will come, those in the ring first.
Total == Len(unread) + Len(line)

Comes(i) == IF i <= Len(unread) THEN unread[i] ELSE line[i - Len(unread)].octet

\* The last message whose code was put on the line or never will be.
Bound == IF writing = NotWriting THEN written ELSE written - 1

\* In what is being written there is one code at most, at the end.
SendingInv ==
    writing # NotWriting =>
        /\ writing.message = written
        /\ \A i \in 1 .. Len(writing.units) :
              writing.units[i] \in Codes => i = Len(writing.units) /\ writing.units[i] = Code(written)
        /\ \A i \in 1 .. Len(writing.buffer) :
              writing.buffer[i] \in Codes =>
                  /\ i = Len(writing.buffer) /\ writing.units = <<>>
                  /\ writing.buffer[i] = Code(written)

\* The codes come in order, behind those of the messages returned.
ComingInv ==
    /\ \A i, j \in 1 .. Total :
          i < j /\ Comes(i) \in Codes /\ Comes(j) \in Codes => Comes(i) < Comes(j)
    /\ \A i \in 1 .. Total : Comes(i) \in Codes => Comes(i) <= Code(Bound)
    /\ \A i \in 1 .. Total, k \in DOMAIN messages, m \in DOMAIN Messages :
          messages[k] = Messages[m].payload /\ Comes(i) \in Codes => Code(m) < Comes(i)

ReturnedInv ==
    /\ \A k \in DOMAIN messages :
          \E m \in DOMAIN Messages : m <= Bound /\ messages[k] = Messages[m].payload
    /\ \A k, l \in DOMAIN messages, m, n \in DOMAIN Messages :
          k < l /\ messages[k] = Messages[m].payload /\ messages[l] = Messages[n].payload => m < n

FramesInv == RingInv /\ SendingInv /\ ComingInv /\ ReturnedInv

\* What has not come yet is as it was, or has become no code.
LEMMA ComingStays ==
    ASSUME FramingAssumption, ComingInv, UNCHANGED messages,
           Total \in Nat, Total' \in Nat, Bound \in Nat, Bound' \in Nat, Bound <= Bound',
           NEW now,
           \A i \in 1 .. Total' :
              Comes(i)' \in Codes => now[i] \in 1 .. Total /\ Comes(now[i]) = Comes(i)',
           \A i, j \in 1 .. Total' : i < j => now[i] < now[j]
    PROVE  ComingInv'
  <1>1. ASSUME NEW i \in 1 .. Total', NEW j \in 1 .. Total', i < j, Comes(i)' \in Codes, Comes(j)' \in Codes
        PROVE  Comes(i)' < Comes(j)'
    <2>1. /\ now[i] \in 1 .. Total /\ Comes(now[i]) = Comes(i)'
          /\ now[j] \in 1 .. Total /\ Comes(now[j]) = Comes(j)' /\ now[i] < now[j]
      BY <1>1
    <2> QED
      BY <1>1, <2>1 DEF ComingInv
  <1>2. ASSUME NEW i \in 1 .. Total', Comes(i)' \in Codes PROVE Comes(i)' <= Code(Bound)'
    <2>1. now[i] \in 1 .. Total /\ Comes(now[i]) = Comes(i)'
      BY <1>2
    <2>2. Comes(i)' <= Code(Bound) /\ Comes(i)' \in Nat
      <3>1. Comes(i)' \in Nat
        BY <1>2, ValuesAre DEF Values
      <3> QED
        BY <1>2, <2>1, <3>1 DEF ComingInv
    <2>3. Code(Bound) <= Code(Bound')
      <3>1. PICK a \in Nat, b \in Nat : a = Bound /\ b = Bound'
        OBVIOUS
      <3>2. a <= b
        BY <3>1
      <3>3. 1000 * a + 100 <= 1000 * b + 100
        BY <3>2
      <3>4. Code(a) <= Code(b)
        BY <3>3 DEF Code
      <3> QED
        BY <3>1, <3>4, Zenon
    <2>4. Code(Bound)' = Code(Bound')
      BY DEF Code
    <2> QED
      BY <2>2, <2>3, <2>4 DEF Code
  <1>3. ASSUME NEW i \in 1 .. Total', NEW k \in DOMAIN messages, NEW m \in DOMAIN Messages,
               messages[k] = Messages[m].payload, Comes(i)' \in Codes
        PROVE  Code(m) < Comes(i)'
    <2>1. now[i] \in 1 .. Total /\ Comes(now[i]) = Comes(i)'
      BY <1>3
    <2> QED
      BY <1>3, <2>1 DEF ComingInv
  <1> QED
    BY <1>1, <1>2, <1>3 DEF ComingInv, Code

----------------------------------------------------------------------------
(* The codes that are written *)

\* A code is no octet that escaping makes or changes.
LEMMA CodesAre ==
    ASSUME FramingAssumption
    PROVE  /\ Plain \cap Codes = {}
           /\ \A x \in Plain : Escaped(x) \in Seq(Plain)
           /\ \A x \in Codes : Escaped(x) = <<x>>
           /\ \A x \in Values : Xor(x) \notin Codes
           /\ \A m \in DOMAIN Messages : Code(m) \in Codes
           /\ \A x \in Codes : \E m \in DOMAIN Messages : x = Code(m)
  <1>1. DOMAIN Messages = 1 .. Len(Messages) /\ Len(Messages) \in Nat
    BY LineConstants
  <1>2. \A x \in Codes : x \in Nat /\ x >= 1100
    BY <1>1 DEF Codes
  <1>3. ASSUME NEW x \in Plain, x \in Codes PROVE FALSE
    <2>1. PICK m \in 1 .. Len(Messages) : x = 1000 * m + 100
      BY <1>1, <1>3 DEF Codes
    <2>2. PICK n \in 1 .. Len(Messages) : x = 1000 * n
      BY <1>1, <1>2, <1>3 DEF Plain
    <2> QED
      BY <1>1, <2>1, <2>2
  <1>4. Xor(126) = 94 /\ Xor(125) = 93
    <2>1. 126 \div 32 = 3 /\ 125 \div 32 = 3 /\ 3 % 2 = 1
      OBVIOUS
    <2> QED
      BY <2>1 DEF Xor
  <1>5. ASSUME NEW x \in Plain PROVE Escaped(x) \in Seq(Plain)
    <2>1. 125 \in Plain /\ 94 \in Plain /\ 93 \in Plain
      BY DEF Plain
    <2>2. \A y \in Plain : <<125, y>> \in Seq(Plain) /\ <<x>> \in Seq(Plain)
      BY <2>1
    <2> QED
      BY <1>4, <2>1, <2>2 DEF Escaped, BEGIN, ESC
  <1>6. ASSUME NEW x \in Codes PROVE Escaped(x) = <<x>>
    BY <1>2 DEF Escaped, BEGIN, ESC
  <1>7. ASSUME NEW x \in Values, Xor(x) \in Codes PROVE FALSE
    <2>1. PICK m \in 1 .. Len(Messages) : Xor(x) = 1000 * m + 100
      BY <1>1, <1>7 DEF Codes
    <2>2. x \in Nat /\ (Xor(x) = x - 32 \/ Xor(x) = x + 32)
      BY ValuesAre DEF Xor
    <2>3. x <= 255 \/ \E n \in 1 .. Len(Messages) : x = 1000 * n \/ x = 1000 * n + 100
      BY <1>1 DEF Values, Plain, Codes
    <2>4. x > 255
      BY <1>1, <2>1, <2>2
    <2>5. PICK n \in 1 .. Len(Messages) : x = 1000 * n \/ x = 1000 * n + 100
      BY <2>3, <2>4, <2>2
    <2> QED
      BY <1>1, <2>1, <2>2, <2>5
  <1>8. ASSUME NEW m \in DOMAIN Messages PROVE Code(m) \in Codes
    BY DEF Code, Codes
  <1>9. ASSUME NEW x \in Codes PROVE \E m \in DOMAIN Messages : x = Code(m)
    BY DEF Code, Codes
  <1> QED
    BY <1>3, <1>5, <1>6, <1>7, <1>8, <1>9

\* A code at the end at most.
Ends(s, c) == \A i \in 1 .. Len(s) : s[i] \in Codes => i = Len(s) /\ s[i] = c

\* What ends so is plain octets, or plain octets and the code.
LEMMA EndsIs ==
    ASSUME FramingAssumption, NEW s \in Seq(Values), NEW c \in Codes, Ends(s, c)
    PROVE  s \in Seq(Plain) \/ \E r \in Seq(Plain) : s = r \o <<c>>
  <1>1. Len(s) \in Nat /\ DOMAIN s = 1 .. Len(s) /\ \A i \in 1 .. Len(s) : s[i] \in Values
    BY SeqIs, Zenon
  <1>2. CASE \A i \in 1 .. Len(s) : s[i] \notin Codes
    <2>1. \A i \in 1 .. Len(s) : s[i] \in Plain
      BY <1>1, <1>2 DEF Values
    <2> QED
      BY <2>1, SeqOver
  <1>3. CASE \E i \in 1 .. Len(s) : s[i] \in Codes
    <2>1. PICK k \in Nat : Len(s) = k + 1 /\ s[k + 1] = c
      <3>1. PICK i \in 1 .. Len(s) : s[i] \in Codes
        BY <1>3
      <3>2. i = Len(s) /\ s[i] = c
        BY <3>1 DEF Ends
      <3>3. PICK k \in Nat : k = i - 1
        BY <1>1
      <3>4. Len(s) = k + 1
        BY <1>1, <3>2, <3>3
      <3> QED
        BY <3>2, <3>4
    <2>2. \A i \in 1 .. k : s[i] \in Plain
      <3>1. ASSUME NEW i \in 1 .. k PROVE s[i] \in Plain
        <4>1. i \in 1 .. Len(s) /\ i # Len(s)
          BY <2>1
        <4>2. s[i] \notin Codes
          BY <4>1 DEF Ends
        <4> QED
          BY <1>1, <4>1, <4>2 DEF Values
      <3> QED
        BY <3>1
    <2>3. PICK r : r = [i \in 1 .. k |-> s[i]]
      OBVIOUS
    <2>4. r \in Seq(Plain) /\ Len(r) = k /\ \A i \in 1 .. k : r[i] = s[i]
      BY <2>2, <2>3
    <2>5. s = r \o <<c>>
      <3>1. r \in Seq(Values) /\ <<c>> \in Seq(Values) /\ Len(<<c>>) = 1 /\ <<c>>[1] = c
        BY <2>4 DEF Values
      <3>2. /\ r \o <<c>> \in Seq(Values) /\ Len(r \o <<c>>) = k + 1
            /\ \A i \in 1 .. k : (r \o <<c>>)[i] = r[i]
            /\ (r \o <<c>>)[k + 1] = c
        <4>1. /\ r \o <<c>> \in Seq(Values) /\ Len(r \o <<c>>) = Len(r) + Len(<<c>>)
              /\ \A i \in 1 .. Len(r) : (r \o <<c>>)[i] = r[i]
              /\ \A i \in 1 .. Len(<<c>>) : (r \o <<c>>)[Len(r) + i] = <<c>>[i]
          BY <3>1, InARow
        <4> QED
          BY <2>4, <3>1, <4>1
      <3>3. PICK q : q = r \o <<c>>
        OBVIOUS
      <3>4. q \in Seq(Values) /\ Len(q) = k + 1
        BY <3>2, <3>3
      <3>5. \A i \in 1 .. k + 1 : q[i] = s[i]
        BY <2>1, <2>4, <3>2, <3>3
      <3>6. q = s
        BY <2>1, <3>4, <3>5, SeqEqual
      <3> QED
        BY <3>3, <3>6
    <2> QED
      BY <2>4, <2>5
  <1> QED
    BY <1>2, <1>3

\* Escaping leaves a code at the end where it is.
LEMMA OctetsEnd ==
    ASSUME FramingAssumption, NEW s \in Seq(Values), NEW c \in Codes, Ends(s, c)
    PROVE  OctetsOf(s) \in Seq(Values) /\ Ends(OctetsOf(s), c)
  <1>1. \A r \in Seq(Plain) : OctetsOf(r) \in Seq(Plain)
    BY CodesAre, OctetsAre
  <1>2. Plain \subseteq Values /\ c \in Values
    BY DEF Values
  <1>3. CASE s \in Seq(Plain)
    <2>1. OctetsOf(s) \in Seq(Plain)
      BY <1>1, <1>3
    <2>2. \A i \in 1 .. Len(OctetsOf(s)) : OctetsOf(s)[i] \in Plain
      BY <2>1, SeqIs, Zenon
    <2>3. Ends(OctetsOf(s), c)
      BY <2>2, CodesAre DEF Ends
    <2> QED
      BY <1>2, <2>1, <2>3, SeqMonotonic, ZenonT(60)
  <1>4. ASSUME NEW r \in Seq(Plain), s = r \o <<c>>
        PROVE  OctetsOf(s) \in Seq(Values) /\ Ends(OctetsOf(s), c)
    <2> DEFINE Written(u) == [i \in DOMAIN u |-> Escaped(u[i])]
    <2>1. PICK k \in Nat : k = Len(r) /\ DOMAIN r = 1 .. k /\ \A i \in 1 .. k : r[i] \in Plain
      BY SeqIs, Zenon
    <2>2. /\ Len(s) = k + 1 /\ DOMAIN s = 1 .. k + 1 /\ s[k + 1] = c
          /\ \A i \in 1 .. k : s[i] = r[i]
      <3>1. r \in Seq(Values) /\ <<c>> \in Seq(Values) /\ Len(<<c>>) = 1 /\ <<c>>[1] = c
        BY <1>2, SeqMonotonic
      <3>2. /\ Len(r \o <<c>>) = Len(r) + Len(<<c>>)
            /\ \A i \in 1 .. Len(r) : (r \o <<c>>)[i] = r[i]
            /\ \A i \in 1 .. Len(<<c>>) : (r \o <<c>>)[Len(r) + i] = <<c>>[i]
        BY <3>1, InARow
      <3>3. Len(s) = k + 1 /\ s[k + 1] = c /\ \A i \in 1 .. k : s[i] = r[i]
        BY <1>4, <2>1, <3>1, <3>2
      <3> QED
        BY <3>3, SeqIs
    <2>3. PICK T : T = Seq(Values)
      OBVIOUS
    <2>4. Written(r) \in Seq(T) /\ Len(Written(r)) = k /\ \A i \in 1 .. k : Written(r)[i] = Escaped(r[i])
      <3>1. \A i \in 1 .. k : Escaped(r[i]) \in T
        <4>1. \A x \in Plain : Escaped(x) \in Seq(Values)
          BY <1>2, CodesAre, SeqMonotonic
        <4> QED
          BY <2>1, <2>3, <4>1
      <3> QED
        BY <2>1, <3>1
    <2>5. <<c>> \in T /\ Escaped(c) = <<c>>
      BY <1>2, <2>3, CodesAre
    <2>6. <<<<c>>>> \in Seq(T) /\ Len(<<<<c>>>>) = 1 /\ <<<<c>>>>[1] = <<c>>
      BY <2>5
    <2>7. Written(s) = Written(r) \o <<<<c>>>>
      <3>1. PICK a, b : a = Written(r) /\ b = <<<<c>>>>
        OBVIOUS
      <3>2. /\ a \o b \in Seq(T) /\ Len(a \o b) = Len(a) + Len(b)
            /\ \A i \in 1 .. Len(a) : (a \o b)[i] = a[i]
            /\ \A i \in 1 .. Len(b) : (a \o b)[Len(a) + i] = b[i]
        BY <2>4, <2>6, <3>1, InARow
      <3>3. PICK q : q = Written(s)
        OBVIOUS
      <3>4. q \in Seq(T) /\ Len(q) = k + 1 /\ \A i \in 1 .. k + 1 : q[i] = Escaped(s[i])
        <4>1. \A i \in 1 .. k + 1 : Escaped(s[i]) \in T
          BY <2>2, <2>4, <2>5, <2>1
        <4> QED
          BY <2>2, <3>3, <4>1
      <3>5. Len(a) = k /\ Len(b) = 1 /\ b[1] = <<c>> /\ \A i \in 1 .. k : a[i] = Escaped(r[i])
        BY <2>4, <2>6, <3>1
      <3>6. \A i \in 1 .. k + 1 : q[i] = (a \o b)[i]
        <4>1. ASSUME NEW i \in 1 .. k PROVE q[i] = (a \o b)[i]
          BY <2>2, <3>2, <3>4, <3>5
        <4>2. q[k + 1] = (a \o b)[k + 1]
          BY <2>2, <2>5, <3>2, <3>4, <3>5
        <4>3. \A i \in 1 .. k + 1 : i \in 1 .. k \/ i = k + 1
          OBVIOUS
        <4> QED
          BY <4>1, <4>2, <4>3, Zenon
      <3>7. q = a \o b
        <4>1. Len(q) = Len(a \o b)
          BY <3>2, <3>4, <3>5
        <4> QED
          BY <3>2, <3>4, <3>6, <4>1, SeqEqual
      <3> QED
        BY <3>1, <3>3, <3>7
    <2>8. FlattenSeq(Written(s)) = FlattenSeq(Written(r)) \o FlattenSeq(<<<<c>>>>)
      <3>1. Written(r) \in Seq(Seq(Values)) /\ <<<<c>>>> \in Seq(Seq(Values))
        BY <2>3, <2>4, <2>6
      <3> HIDE DEF Written
      <3> QED
        BY <2>7, <3>1, FlattenConcat
    <2>9. FlattenSeq(<<<<c>>>>) = <<c>>
      BY <2>3, <2>5, FlattenSingles
    <2>10. OctetsOf(s) = OctetsOf(r) \o <<c>>
      BY <2>8, <2>9 DEF OctetsOf
    <2>11. PICK o \in Seq(Plain) : o = OctetsOf(r)
      BY <1>1
    <2>12. /\ o \o <<c>> \in Seq(Values) /\ Len(o \o <<c>>) = Len(o) + 1
           /\ \A i \in 1 .. Len(o) : (o \o <<c>>)[i] = o[i]
           /\ (o \o <<c>>)[Len(o) + 1] = c
      <3>1. o \in Seq(Values) /\ <<c>> \in Seq(Values) /\ Len(<<c>>) = 1 /\ <<c>>[1] = c
        BY <1>2, SeqMonotonic
      <3>2. /\ o \o <<c>> \in Seq(Values) /\ Len(o \o <<c>>) = Len(o) + Len(<<c>>)
            /\ \A i \in 1 .. Len(o) : (o \o <<c>>)[i] = o[i]
            /\ \A i \in 1 .. Len(<<c>>) : (o \o <<c>>)[Len(o) + i] = <<c>>[i]
        BY <3>1, InARow
      <3> QED
        BY <3>1, <3>2
    <2>13. \A i \in 1 .. Len(o) : o[i] \notin Codes
      <3>1. \A i \in 1 .. Len(o) : o[i] \in Plain
        BY <2>11, SeqIs, Zenon
      <3> QED
        BY <3>1, CodesAre
    <2>14. Len(o) \in Nat
      BY <2>11, SeqIs, Zenon
    <2>15. PICK q : q = o \o <<c>>
      OBVIOUS
    <2>16. Ends(q, c)
      BY <2>12, <2>13, <2>14, <2>15 DEF Ends
    <2> QED
      BY <2>10, <2>11, <2>12, <2>15, <2>16
  <1> QED
    BY <1>3, <1>4, EndsIs

\* What fits is put into the buffer; the code is in it when nothing is left.
LEMMA FilledEnds ==
    ASSUME FramingAssumption, NEW m \in DOMAIN Messages, NEW side \in {"agent", "client"},
           NEW buffer \in {<<BEGIN>>, <<>>}, NEW units \in Seq(Values), Ends(units, Code(m))
    PROVE  LET call == Filled(m, side, buffer, units)
           IN  /\ call.message = m
               /\ Ends(call.units, Code(m)) /\ Ends(call.buffer, Code(m))
               /\ call.units = <<>> \/ \A i \in 1 .. Len(call.buffer) : call.buffer[i] \notin Codes
  <1>1. Len(units) \in Nat /\ Len(buffer) \in 0 .. 1 /\ buffer \in Seq(Values)
    <2>1. BEGIN \in Values
      BY ValuesAre DEF BEGIN
    <2>2. /\ Len(<<BEGIN>>) = 1 /\ <<BEGIN>> \in Seq(Values)
          /\ Len(<<>>) = 0 /\ <<>> \in Seq(Values)
      BY <2>1, EmptySeq
    <2>3. Len(units) \in Nat
      BY SeqIs, Zenon
    <2>4. CASE buffer = <<BEGIN>>
      BY <2>2, <2>3, <2>4
    <2>5. CASE buffer = <<>>
      BY <2>2, <2>3, <2>5
    <2> QED
      BY <2>4, <2>5
  <1>2. \A i \in 1 .. Len(buffer) : buffer[i] \notin Codes
    <2>1. BEGIN \in Plain
      BY DEF BEGIN, Plain
    <2>2. BEGIN \notin Codes
      BY <2>1, CodesAre
    <2>3. CASE buffer = <<BEGIN>>
      BY <2>2, <2>3
    <2>4. CASE buffer = <<>>
      BY <2>4, EmptySeq
    <2> QED
      BY <2>3, <2>4
  <1>3. PICK n \in 0 .. Len(units) : n = Fitting(units, Len(buffer))
    BY <1>1, FittingIs
  <1>4. PICK k \in Nat : n + k = Len(units)
    <2>1. PICK l \in Nat : l = Len(units)
      BY <1>1
    <2>2. l - n \in Nat /\ n + (l - n) = l
      BY <2>1
    <2> QED
      BY <2>1, <2>2
  <1>5. PICK p, q : p = SubSeq(units, 1, n) /\ q = SubSeq(units, n + 1, Len(units))
    OBVIOUS
  <1>6. p \in Seq(Values) /\ Len(p) = n /\ \A i \in 1 .. n : p[i] = units[i]
    <2>1. /\ SubSeq(units, 0 + 1, 0 + n) \in Seq(Values) /\ Len(SubSeq(units, 0 + 1, 0 + n)) = n
          /\ \A i \in 1 .. n : SubSeq(units, 0 + 1, 0 + n)[i] = units[0 + i]
      BY <1>4, PartIs
    <2> QED
      BY <1>5, <2>1
  <1>7. q \in Seq(Values) /\ Len(q) = k /\ \A i \in 1 .. k : q[i] = units[n + i]
    <2>1. /\ SubSeq(units, n + 1, n + k) \in Seq(Values) /\ Len(SubSeq(units, n + 1, n + k)) = k
          /\ \A i \in 1 .. k : SubSeq(units, n + 1, n + k)[i] = units[n + i]
      BY <1>4, PartIs
    <2> QED
      BY <1>4, <1>5, <2>1
  <1>8. Code(m) \in Codes
    BY CodesAre
  <1>9. Ends(q, Code(m))
    <2>1. ASSUME NEW i \in 1 .. k, q[i] \in Codes PROVE i = k /\ q[i] = Code(m)
      <3>1. n + i \in 1 .. Len(units) /\ units[n + i] = q[i]
        BY <1>4, <1>7
      <3>2. n + i = Len(units) /\ units[n + i] = Code(m)
        BY <2>1, <3>1 DEF Ends
      <3> QED
        BY <1>4, <3>1, <3>2
    <2> QED
      BY <1>7, <2>1 DEF Ends
  <1>10. Ends(p, Code(m)) /\ (k # 0 => \A i \in 1 .. n : p[i] \notin Codes)
    <2>1. ASSUME NEW i \in 1 .. n, p[i] \in Codes PROVE i = n /\ k = 0 /\ p[i] = Code(m)
      <3>1. i \in 1 .. Len(units) /\ units[i] = p[i]
        BY <1>4, <1>6
      <3>2. i = Len(units) /\ units[i] = Code(m)
        BY <2>1, <3>1 DEF Ends
      <3> QED
        BY <1>4, <3>1, <3>2
    <2> QED
      BY <1>6, <2>1 DEF Ends
  <1>11. PICK o : o = OctetsOf(p)
    OBVIOUS
  <1>12. o \in Seq(Values) /\ Ends(o, Code(m)) /\ Len(o) \in Nat
    <2>1. o \in Seq(Values) /\ Ends(o, Code(m))
      BY <1>6, <1>8, <1>10, <1>11, OctetsEnd
    <2> QED
      BY <2>1, SeqIs
  <1>13. k # 0 => \A i \in 1 .. Len(o) : o[i] \notin Codes
    <2>1. ASSUME k # 0 PROVE \A i \in 1 .. Len(o) : o[i] \notin Codes
      <3>1. \A i \in 1 .. Len(p) : p[i] \in Plain
        <4>1. \A i \in 1 .. n : p[i] \notin Codes
          BY <1>10, <2>1
        <4>2. \A i \in 1 .. n : p[i] \in Values
          BY <1>6, SeqIs
        <4> QED
          BY <1>6, <4>1, <4>2 DEF Values
      <3>2. p \in Seq(Plain)
        BY <1>6, <3>1, SeqOver
      <3>3. o \in Seq(Plain)
        BY <1>11, <3>2, CodesAre, OctetsAre
      <3>4. \A i \in 1 .. Len(o) : o[i] \in Plain
        BY <3>3, SeqIs, Zenon
      <3> QED
        BY <3>4, CodesAre
    <2> QED
      BY <2>1
  <1>14. PICK b : b = buffer \o o
    OBVIOUS
  <1>15. /\ Len(b) = Len(buffer) + Len(o)
         /\ \A i \in 1 .. Len(buffer) : b[i] = buffer[i]
         /\ \A i \in 1 .. Len(o) : b[Len(buffer) + i] = o[i]
    <2>1. o \in Seq(Values) /\ buffer \in Seq(Values)
      BY <1>1, <1>12
    <2> QED
      BY <1>14, <2>1, InARow
  <1>16. ASSUME NEW i \in 1 .. Len(b), b[i] \in Codes
         PROVE  i = Len(b) /\ b[i] = Code(m) /\ k = 0
    <2>1. ~(i \in 1 .. Len(buffer))
      BY <1>2, <1>15, <1>16
    <2>2. PICK j \in 1 .. Len(o) : i = Len(buffer) + j
      <3>1. i - Len(buffer) \in 1 .. Len(o) /\ i = Len(buffer) + (i - Len(buffer))
        BY <1>1, <1>12, <1>15, <2>1
      <3> QED
        BY <3>1
    <2>3. o[j] = b[i]
      BY <1>15, <2>2
    <2>4. j = Len(o) /\ o[j] = Code(m) /\ k = 0
      BY <1>12, <1>13, <1>16, <2>3 DEF Ends
    <2> QED
      BY <1>15, <2>2, <2>3, <2>4
  <1>17. k = 0 => q = <<>>
    BY <1>7, EmptySeq
  <1>18. PICK call : call = Filled(m, side, buffer, units)
    OBVIOUS
  <1>19. call.message = m /\ call.units = q /\ call.buffer = b
    BY <1>3, <1>5, <1>11, <1>14, <1>18 DEF Filled
  <1>20. Ends(b, Code(m))
    BY <1>16 DEF Ends
  <1> QED
    BY <1>9, <1>16, <1>17, <1>18, <1>19, <1>20

\* A frame ends with the code of its message.
LEMMA FrameEnds ==
    ASSUME FramingAssumption, Distinct, NEW m \in DOMAIN Messages
    PROVE  Frame(m) \in Seq(Values) /\ Ends(Frame(m), Code(m))
  <1>1. PICK p : p = Messages[m].payload
    OBVIOUS
  <1>2. \A e \in DOMAIN Messages : Messages[e].payload = p <=> e = m
    BY <1>1 DEF Distinct
  <1>3. Crc(p) = CrcOf(m)
    <2> DEFINE of == {e \in DOMAIN Messages : Messages[e].payload = p}
    <2>1. of = {m} /\ m \in Nat
      BY <1>2, LineConstants
    <2>2. Min(of) = m
      BY <2>1 DEF Min
    <2> QED
      BY <2>1, <2>2 DEF Crc
  <1>4. PICK l \in Nat : l = Len(p) /\ l < 65536
    <2>1. p \in Seq(0 .. 255) /\ Len(p) < 65536
      BY <1>1, LineMessages
    <2> QED
      BY <2>1, SeqIs
  <1>5. Frame(m) = <<SenderAddr, Messages[m].to, l % 256, l \div 256>> \o p \o CrcOf(m)
    BY <1>1, <1>3, <1>4 DEF Frame
  <1>6. PICK h : h = <<SenderAddr, Messages[m].to, l % 256, l \div 256>>
    OBVIOUS
  <1>7. h \in Seq(0 .. 255) /\ p \in Seq(0 .. 255)
    <2>1. l % 256 \in 0 .. 255 /\ l \div 256 \in 0 .. 255
      <3>1. l < 65536
        BY <1>4
      <3> QED
        BY <3>1, LengthOctets
    <2>2. PICK x \in 0 .. 255, y \in 0 .. 255 : x = l % 256 /\ y = l \div 256
      BY <2>1
    <2>3. SenderAddr \in 0 .. 255 /\ Messages[m].to \in 0 .. 255
      BY LineConstants, LineMessages
    <2>4. h \in Seq(0 .. 255)
      BY <1>6, <2>2, <2>3
    <2> QED
      BY <1>1, <2>4, LineMessages
  <1>8. PICK r : r = (h \o p) \o <<1000 * m>>
    OBVIOUS
  <1>9. r \in Seq(Plain)
    <2>1. 0 .. 255 \subseteq Plain /\ 1000 * m \in Plain
      BY DEF Plain
    <2>2. h \in Seq(Plain) /\ p \in Seq(Plain)
      BY <1>7, <2>1, SeqMonotonic, ZenonT(60)
    <2>3. h \o p \in Seq(Plain) /\ <<1000 * m>> \in Seq(Plain)
      BY <2>1, <2>2, InARow
    <2> QED
      BY <1>8, <2>3, InARow
  <1>10. Code(m) \in Codes /\ Code(m) \in Values
    BY CodesAre DEF Values
  <1>11. Frame(m) = r \o <<Code(m)>>
    <2>1. h \o p \in Seq(Values) /\ 1000 * m \in Values /\ Plain \subseteq Values
      <3>1. h \in Seq(Values) /\ p \in Seq(Values)
        BY <1>7, ValuesAre, SeqMonotonic, ZenonT(60)
      <3> QED
        BY <3>1, InARow DEF Values, Plain
    <2>2. PICK a, x, y : a = h \o p /\ x = <<1000 * m>> /\ y = <<Code(m)>>
      OBVIOUS
    <2>3. a \in Seq(Values) /\ x \in Seq(Values) /\ y \in Seq(Values)
      BY <1>10, <2>1, <2>2
    <2>4. (a \o x) \o y = a \o (x \o y)
      BY <2>3, ConcatAssociative
    <2>5. x \o y = <<1000 * m, Code(m)>>
      BY <1>10, <2>1, <2>2, Singles
    <2> QED
      BY <1>5, <1>6, <1>8, <2>2, <2>4, <2>5 DEF CrcOf, Code
  <1>12. Len(r) \in Nat /\ \A i \in 1 .. Len(r) : r[i] \in Plain
    BY <1>9, SeqIs, Zenon
  <1>13. /\ r \o <<Code(m)>> \in Seq(Values) /\ Len(r \o <<Code(m)>>) = Len(r) + 1
         /\ \A i \in 1 .. Len(r) : (r \o <<Code(m)>>)[i] = r[i]
         /\ (r \o <<Code(m)>>)[Len(r) + 1] = Code(m)
    <2>1. /\ r \in Seq(Values) /\ <<Code(m)>> \in Seq(Values)
          /\ Len(<<Code(m)>>) = 1 /\ <<Code(m)>>[1] = Code(m)
      <3>1. Plain \subseteq Values
        BY DEF Values
      <3> QED
        BY <1>9, <1>10, <3>1, SeqMonotonic
    <2>2. /\ r \o <<Code(m)>> \in Seq(Values)
          /\ Len(r \o <<Code(m)>>) = Len(r) + Len(<<Code(m)>>)
          /\ \A i \in 1 .. Len(r) : (r \o <<Code(m)>>)[i] = r[i]
          /\ \A i \in 1 .. Len(<<Code(m)>>) : (r \o <<Code(m)>>)[Len(r) + i] = <<Code(m)>>[i]
      BY <2>1, InARow
    <2> QED
      BY <2>1, <2>2
  <1>14. PICK q : q = r \o <<Code(m)>>
    OBVIOUS
  <1>15. \A i \in 1 .. Len(r) : r[i] \notin Codes
    BY <1>12, CodesAre
  <1>16. Ends(q, Code(m))
    BY <1>12, <1>13, <1>14, <1>15 DEF Ends
  <1> QED
    BY <1>11, <1>13, <1>14, <1>16

----------------------------------------------------------------------------
(* Codes come in order. *)

LEMMA BoundIs ==
    ASSUME FramingAssumption, WriterTyped, SendingInv
    PROVE  /\ Bound \in Nat /\ written \in Nat /\ Bound <= written /\ written <= Len(Messages)
           /\ writing # NotWriting => Bound = written - 1 /\ written \in DOMAIN Messages
           /\ writing = NotWriting => Bound = written
  <1>1. written \in Nat /\ written <= Len(Messages) /\ DOMAIN Messages = 1 .. Len(Messages)
    BY LineConstants DEF WriterTyped
  <1>2. writing # NotWriting => written \in DOMAIN Messages
    BY DEF WriterTyped, SendingInv, Calls
  <1>3. writing # NotWriting => written >= 1
    BY <1>1, <1>2
  <1> QED
    BY <1>1, <1>2, <1>3 DEF Bound

LEMMA TotalIs ==
    ASSUME FramingAssumption, WriterTyped, RingTyped
    PROVE  /\ Len(unread) \in Nat /\ Len(line) \in Nat /\ Total \in Nat
           /\ \A i \in 1 .. Len(unread) : Comes(i) = unread[i]
           /\ \A i \in 1 .. Len(line) : Comes(Len(unread) + i) = line[i].octet
           /\ \A i \in 1 .. Total : i \in 1 .. Len(unread) \/ \E j \in 1 .. Len(line) : i = Len(unread) + j
  <1>1. Len(unread) \in Nat /\ Len(line) \in Nat
    BY SeqIs, Zenon DEF WriterTyped, RingTyped
  <1>2. PICK u \in Nat, l \in Nat : u = Len(unread) /\ l = Len(line)
    BY <1>1
  <1>3. ASSUME NEW i \in 1 .. u PROVE Comes(i) = unread[i]
    BY <1>2 DEF Comes
  <1>4. ASSUME NEW i \in 1 .. l PROVE Comes(u + i) = line[i].octet
    <2>1. ~(u + i <= u) /\ u + i - u = i
      OBVIOUS
    <2> QED
      BY <1>2, <2>1 DEF Comes
  <1>5. ASSUME NEW i \in 1 .. u + l, i \notin 1 .. u PROVE \E j \in 1 .. l : i = u + j
    <2>1. i - u \in 1 .. l /\ i = u + (i - u)
      BY <1>5
    <2> QED
      BY <2>1
  <1> QED
    BY <1>2, <1>3, <1>4, <1>5 DEF Total

\* The order of codes is that of the messages.
LEMMA CodeOrder ==
    ASSUME FramingAssumption, NEW m \in Nat, NEW n \in Nat
    PROVE  /\ Code(m) \in Nat
           /\ Code(m) < Code(n) <=> m < n
           /\ Code(m) <= Code(n) <=> m <= n
  BY DEF Code

\* What comes new is at most the code of the message written, at the end.
LEMMA ComingGrows ==
    ASSUME FramingAssumption, Distinct, ComingInv, ReturnedInv, UNCHANGED messages,
           Total \in Nat, Total' \in Nat, Total <= Total',
           Bound \in Nat, Bound' \in Nat, Bound <= Bound',
           \A i \in 1 .. Total : Comes(i)' = Comes(i),
           \A i \in 1 .. Total' :
              ~(i <= Total) /\ Comes(i)' \in Codes =>
                  i = Total' /\ Comes(i)' = Code(Bound') /\ Bound < Bound'
    PROVE  ComingInv' /\ ReturnedInv'
  <1>0. \A m : Code(m)' = Code(m') /\ Codes' = Codes
    BY DEF Code, Codes
  <1>1. \A c \in Codes : c \in Nat
    BY ValuesAre DEF Values
  <1>2. \A i \in 1 .. Total' : i <= Total => i \in 1 .. Total
    OBVIOUS
  <1>3. Code(Bound) <= Code(Bound') /\ Code(Bound) \in Nat /\ Code(Bound') \in Nat
    BY CodeOrder
  <1>4. Bound < Bound' => Code(Bound) < Code(Bound')
    BY CodeOrder
  <1>5. ASSUME NEW i \in 1 .. Total', Comes(i)' \in Codes PROVE Comes(i)' <= Code(Bound')
    <2>1. CASE i <= Total
      <3>1. Comes(i) \in Codes /\ Comes(i)' = Comes(i)
        BY <1>2, <1>5, <2>1
      <3>2. Comes(i) <= Code(Bound) /\ Comes(i) \in Nat
        BY <1>1, <1>2, <2>1, <3>1 DEF ComingInv
      <3> QED
        BY <1>3, <3>1, <3>2
    <2>2. CASE ~(i <= Total)
      BY <1>3, <1>5, <2>2
    <2> QED
      BY <2>1, <2>2
  <1>6. ASSUME NEW i \in 1 .. Total', NEW j \in 1 .. Total', i < j, Comes(i)' \in Codes, Comes(j)' \in Codes
        PROVE  Comes(i)' < Comes(j)'
    <2>1. i <= Total /\ i \in 1 .. Total
      BY <1>2, <1>6
    <2>2. Comes(i)' = Comes(i) /\ Comes(i) \in Codes
      BY <1>6, <2>1
    <2>3. CASE j <= Total
      <3>1. Comes(j)' = Comes(j) /\ j \in 1 .. Total
        BY <1>2, <2>3
      <3> QED
        BY <1>6, <2>1, <2>2, <3>1 DEF ComingInv
    <2>4. CASE ~(j <= Total)
      <3>1. Comes(j)' = Code(Bound') /\ Bound < Bound'
        BY <1>6, <2>4
      <3>2. Comes(i) <= Code(Bound) /\ Comes(i) \in Nat
        BY <1>1, <2>1, <2>2 DEF ComingInv
      <3> QED
        BY <1>3, <1>4, <2>2, <3>1, <3>2
    <2> QED
      BY <2>3, <2>4
  <1>7. ASSUME NEW i \in 1 .. Total', NEW k \in DOMAIN messages, NEW m \in DOMAIN Messages,
               messages[k] = Messages[m].payload, Comes(i)' \in Codes
        PROVE  Code(m) < Comes(i)'
    <2>1. CASE i <= Total
      <3>1. Comes(i)' = Comes(i) /\ i \in 1 .. Total
        BY <1>2, <2>1
      <3> QED
        BY <1>7, <3>1 DEF ComingInv
    <2>2. CASE ~(i <= Total)
      <3>1. Comes(i)' = Code(Bound') /\ Bound < Bound'
        BY <1>7, <2>2
      <3>2. PICK e \in DOMAIN Messages : e <= Bound /\ messages[k] = Messages[e].payload
        BY <1>7 DEF ReturnedInv
      <3>3. m \in Nat /\ (m <= Bound => Code(m) <= Code(Bound)) /\ Code(m) \in Nat
        <4>1. m \in Nat
          BY LineConstants
        <4> QED
          BY <4>1, CodeOrder
      <3>4. m <= Bound
        BY <1>7, <3>2 DEF Distinct
      <3> QED
        BY <1>3, <1>4, <3>1, <3>3, <3>4
    <2> QED
      BY <2>1, <2>2
  <1>8. ComingInv'
    BY <1>0, <1>5, <1>6, <1>7 DEF ComingInv
  <1>9. ReturnedInv'
    <2>1. \A m \in DOMAIN Messages : m \in Nat /\ (m <= Bound => m <= Bound')
      BY LineConstants
    <2> QED
      BY <2>1 DEF ReturnedInv
  <1> QED
    BY <1>8, <1>9

LEMMA CallsAre ==
    ASSUME FramingAssumption, writing \in Calls
    PROVE  /\ writing # NotWriting /\ writing.message \in DOMAIN Messages
           /\ writing.side \in {"agent", "client"}
           /\ writing.buffer \in Seq(Values) /\ writing.units \in Seq(Values)
  <1>1. /\ writing.message \in DOMAIN Messages /\ writing.side \in {"agent", "client"}
        /\ writing.buffer \in Seq(Values) /\ writing.units \in Seq(Values)
    BY DEF Calls
  <1>2. writing.message # 0 /\ NotWriting.message = 0
    BY <1>1, LineConstants DEF NotWriting
  <1> QED
    BY <1>1, <1>2

\* A call that begins, or goes on with the next part, has the code at the end.
LEMMA FilledSends ==
    ASSUME FramingAssumption, NEW m \in DOMAIN Messages, NEW side \in {"agent", "client"},
           NEW buffer \in {<<BEGIN>>, <<>>}, NEW units \in Seq(Values), Ends(units, Code(m)),
           writing' = Filled(m, side, buffer, units), written' = m
    PROVE  SendingInv' /\ writing' # NotWriting
  <1>1. /\ writing'.message = m
        /\ Ends(writing'.units, Code(m)) /\ Ends(writing'.buffer, Code(m))
        /\ writing'.units = <<>> \/ \A i \in 1 .. Len(writing'.buffer) : writing'.buffer[i] \notin Codes
    BY FilledEnds
  <1>2. m # 0 /\ NotWriting.message = 0
    BY LineConstants DEF NotWriting
  <1>3. \A e : Code(e)' = Code(e') /\ Codes' = Codes
    BY DEF Code, Codes
  <1> QED
    BY <1>1, <1>2, <1>3 DEF SendingInv, Ends, Code

LEMMA WriteFramedMsgFrames ==
    ASSUME FramingAssumption, Distinct, FramesInv, RingInv', WriteFramedMsg PROVE FramesInv'
  <1>1. WriterTyped /\ RingTyped /\ SendingInv /\ ComingInv /\ ReturnedInv
    BY DEF FramesInv, RingInv
  <1>2. PICK side \in {"agent", "client"} :
            writing' = Filled(written + 1, side, <<BEGIN>>, Frame(written + 1))
    BY DEF WriteFramedMsg
  <1>3. written + 1 \in DOMAIN Messages /\ written' = written + 1
    BY <1>1, LineConstants DEF WriteFramedMsg, WriterTyped
  <1>4. Frame(written + 1) \in Seq(Values) /\ Ends(Frame(written + 1), Code(written + 1))
    BY <1>3, FrameEnds
  <1>5. SendingInv' /\ writing' # NotWriting
    BY <1>2, <1>3, <1>4, FilledSends
  <1>6. Bound \in Nat /\ Bound' = Bound
    <2>1. Bound = written /\ written \in Nat
      BY <1>1, BoundIs DEF WriteFramedMsg
    <2> QED
      BY <1>3, <1>5, <2>1 DEF Bound
  <1>7. Total \in Nat
    BY <1>1, TotalIs
  <1>8. UNCHANGED <<unread, line, messages>>
    BY DEF WriteFramedMsg, ringVars, machineVars
  <1>9. Total' = Total /\ \A i \in 1 .. Total : Comes(i)' = Comes(i)
    BY <1>8 DEF Total, Comes
  <1>10. ComingInv' /\ ReturnedInv'
    BY <1>1, <1>6, <1>7, <1>8, <1>9, ComingGrows
  <1> QED
    BY <1>5, <1>10 DEF FramesInv

\* After a transport_write the call goes on as it was, or with the next part.
LEMMA ContinuesSends ==
    ASSUME FramingAssumption, writing \in Calls, SendingInv, NEW done \in Nat, Continues(done),
           written' = written
    PROVE  SendingInv' /\ Bound' = (IF writing' = NotWriting THEN written ELSE Bound)
  <1>1. /\ writing # NotWriting /\ writing.message \in DOMAIN Messages
        /\ writing.side \in {"agent", "client"}
        /\ writing.buffer \in Seq(Values) /\ writing.units \in Seq(Values)
    BY CallsAre
  <1>2. \A e : Code(e)' = Code(e') /\ Codes' = Codes
    BY DEF Code, Codes
  <1>3. SendingInv'
    <2>1. CASE done < Len(writing.buffer)
      <3>1. writing' = [writing EXCEPT !.bytes_written = done]
        BY <2>1 DEF Continues
      <3>2. writing'.message = writing.message /\ writing'.buffer = writing.buffer /\ writing'.units = writing.units
        BY <3>1 DEF Calls
      <3> QED
        BY <1>1, <1>2, <3>2 DEF SendingInv
    <2>2. CASE ~(done < Len(writing.buffer)) /\ writing.units = <<>>
      <3>1. writing' = NotWriting
        BY <2>2 DEF Continues
      <3> QED
        BY <3>1 DEF SendingInv, NotWriting
    <2>3. CASE ~(done < Len(writing.buffer)) /\ writing.units # <<>>
      <3>1. writing' = Filled(writing.message, writing.side, <<>>, writing.units)
        BY <2>3 DEF Continues
      <3>2. Ends(writing.units, Code(writing.message)) /\ written' = writing.message
        BY <1>1 DEF SendingInv, Ends
      <3> QED
        BY <1>1, <3>1, <3>2, FilledSends
    <2> QED
      BY <2>1, <2>2, <2>3
  <1> QED
    BY <1>1, <1>3 DEF Bound

LEMMA TransportWriteFrames ==
    ASSUME FramingAssumption, Distinct, FramesInv, RingInv', TransportWrite PROVE FramesInv'
  <1>1. WriterTyped /\ RingTyped /\ SendingInv /\ ComingInv /\ ReturnedInv /\ WriterTyped' /\ RingTyped'
    BY DEF FramesInv, RingInv
  <1>2. writing \in Calls /\ line \in Seq(Tagged)
    BY <1>1, TransportWriteIs DEF WriterTyped
  <1>3. PICK from \in Nat, n \in Nat, done \in Nat :
            /\ from + n <= Len(writing.buffer) /\ from + n <= done
            /\ line' = line \o OnLine(SubSeq(writing.buffer, from + 1, from + n))
            /\ Continues(done) \/ writing' = NotWriting
            /\ from + n < Len(writing.buffer) \/ done >= Len(writing.buffer)
    BY <1>1, TransportWriteIs
  <1>4. UNCHANGED <<unread, written, messages>>
    BY DEF TransportWrite, ringVars, machineVars
  <1>5. writing # NotWriting
    BY DEF TransportWrite
  <1>6. SendingInv' /\ Bound' = IF writing' = NotWriting THEN written ELSE Bound
    <2>1. CASE Continues(done)
      BY <1>1, <1>2, <1>4, <2>1, ContinuesSends
    <2>2. CASE writing' = NotWriting
      BY <1>4, <2>2 DEF SendingInv, Bound
    <2> QED
      BY <1>3, <2>1, <2>2
  <1>7. /\ Bound \in Nat /\ Bound' \in Nat /\ Bound <= Bound' /\ Bound < written
        /\ writing' = NotWriting => Bound' = written
    <2>1. written \in Nat /\ Bound \in Nat /\ Bound = written - 1
      BY <1>1, <1>5, BoundIs
    <2> QED
      BY <1>6, <2>1
  <1>8. /\ Len(line') = Len(line) + n
        /\ \A i \in 1 .. Len(line) : line'[i] = line[i]
        /\ \A i \in 1 .. n : line'[Len(line) + i].octet = writing.buffer[from + i]
    BY <1>2, <1>3, WritesIs
  <1>9. PICK u \in Nat, l \in Nat : u = Len(unread) /\ l = Len(line) /\ Total = u + l
    BY <1>1, TotalIs DEF Total
  <1>10. Total' = u + l + n
    BY <1>4, <1>8, <1>9 DEF Total
  <1>11. ASSUME NEW i \in 1 .. u + l PROVE Comes(i)' = Comes(i)
    <2>1. CASE i <= u
      BY <1>4, <1>9, <2>1 DEF Comes
    <2>2. CASE ~(i <= u)
      <3>1. i - u \in 1 .. l
        BY <2>2
      <3>2. line'[i - u] = line[i - u]
        BY <1>8, <1>9, <3>1
      <3> QED
        BY <1>4, <1>9, <2>2, <3>2 DEF Comes
    <2> QED
      BY <2>1, <2>2
  <1>12. ASSUME NEW i \in 1 .. u + l + n, ~(i <= u + l), Comes(i)' \in Codes
         PROVE  i = u + l + n /\ Comes(i)' = Code(Bound') /\ Bound < Bound'
    <2>1. PICK j \in 1 .. n : i = u + l + j
      <3>1. i - (u + l) \in 1 .. n /\ i = u + l + (i - (u + l))
        BY <1>12
      <3> QED
        BY <3>1
    <2>2. Comes(i)' = writing.buffer[from + j]
      <3>1. ~(i <= u) /\ i - u = l + j
        BY <2>1
      <3>2. Comes(i)' = line'[l + j].octet
        BY <1>4, <1>9, <3>1 DEF Comes
      <3> QED
        BY <1>8, <1>9, <3>2
    <2>3. PICK b \in Nat : b = Len(writing.buffer)
      <3>1. writing.buffer \in Seq(Values)
        BY <1>2, CallsAre
      <3> QED
        BY <3>1, SeqIs
    <2>4. from + j \in 1 .. Len(writing.buffer)
      BY <1>3, <2>3
    <2>5. from + j = Len(writing.buffer) /\ writing.units = <<>> /\ Comes(i)' = Code(written)
      BY <1>1, <1>5, <1>12, <2>2, <2>4 DEF SendingInv
    <2>6. j = n /\ ~(done < Len(writing.buffer))
      BY <1>3, <2>3, <2>5
    <2>7. writing' = NotWriting
      BY <1>3, <2>5, <2>6 DEF Continues
    <2> QED
      BY <1>7, <2>1, <2>5, <2>6, <2>7
  <1>13. ComingInv' /\ ReturnedInv'
    <2>1. Total \in Nat /\ Total' \in Nat /\ Total <= Total'
      BY <1>9, <1>10
    <2>2. \A i \in 1 .. Total : Comes(i)' = Comes(i)
      BY <1>9, <1>11
    <2>3. \A i \in 1 .. Total' :
              ~(i <= Total) /\ Comes(i)' \in Codes =>
                  i = Total' /\ Comes(i)' = Code(Bound') /\ Bound < Bound'
      BY <1>9, <1>10, <1>12
    <2>4. Bound \in Nat /\ Bound' \in Nat /\ Bound <= Bound' /\ UNCHANGED messages
      BY <1>4, <1>7
    <2> QED
      BY <1>1, <2>1, <2>2, <2>3, <2>4, ComingGrows
  <1> QED
    BY <1>6, <1>13 DEF FramesInv

LEMMA WriteFailsFrames ==
    ASSUME FramingAssumption, Distinct, FramesInv, RingInv', WriteFails PROVE FramesInv'
  <1>1. WriterTyped /\ RingTyped /\ SendingInv /\ ComingInv /\ ReturnedInv
    BY DEF FramesInv, RingInv
  <1>2. writing # NotWriting /\ writing' = NotWriting /\ UNCHANGED <<written, line, unread, messages>>
    BY DEF WriteFails, ringVars, machineVars
  <1>3. Bound \in Nat /\ Bound' \in Nat /\ Bound <= Bound'
    <2>1. Bound \in Nat /\ Bound = written - 1 /\ written \in Nat
      BY <1>1, <1>2, BoundIs
    <2> QED
      BY <1>2, <2>1 DEF Bound
  <1>4. Total \in Nat /\ Total' = Total /\ \A i \in 1 .. Total : Comes(i)' = Comes(i)
    BY <1>1, <1>2, TotalIs DEF Total, Comes
  <1>5. ComingInv' /\ ReturnedInv'
    BY <1>1, <1>2, <1>3, <1>4, ComingGrows
  <1>6. SendingInv'
    BY <1>2 DEF SendingInv
  <1> QED
    BY <1>5, <1>6 DEF FramesInv

\* The line loses an octet, or changes one to what is no code.
LEMMA FaultFrames ==
    ASSUME FramingAssumption, FramesInv, Fault PROVE SendingInv' /\ ComingInv' /\ ReturnedInv'
  <1>1. WriterTyped /\ RingTyped /\ SendingInv /\ ComingInv /\ ReturnedInv
    BY DEF FramesInv, RingInv
  <1>2. line \in Seq(Tagged) /\ DOMAIN line = 1 .. Len(line)
    <2>1. line \in Seq(Tagged)
      BY <1>1 DEF WriterTyped
    <2> QED
      BY <2>1, SeqIs, Zenon
  <1>3. PICK i \in 1 .. Len(line) : Loses(i) \/ Changes(i)
    BY <1>2 DEF Fault
  <1>4. UNCHANGED <<writing, written, unread, messages>>
    BY DEF Fault, writeVars, ringVars, machineVars
  <1>5. Bound \in Nat /\ Bound' = Bound
    BY <1>1, <1>4, BoundIs DEF Bound
  <1>6. SendingInv' /\ ReturnedInv'
    BY <1>1, <1>4 DEF SendingInv, ReturnedInv, Bound, Codes, Code
  <1>7. PICK u \in Nat, l \in Nat : u = Len(unread) /\ l = Len(line) /\ Total = u + l
    BY <1>1, TotalIs DEF Total
  <1>8. ComingInv'
    <2>1. CASE Loses(i)
      <3>1. Len(line') = l - 1 /\ \A j \in 1 .. l - 1 : line'[j] = IF j < i THEN line[j] ELSE line[j + 1]
        BY <1>2, <1>3, <1>7, <2>1, LosesIs
      <3>2. Total' = u + l - 1
        BY <1>4, <1>7, <3>1 DEF Total
      <3>3. PICK now : now = [j \in Nat |-> IF j < u + i THEN j ELSE j + 1]
        OBVIOUS
      <3>4. ASSUME NEW j \in 1 .. Total' PROVE now[j] \in 1 .. Total /\ Comes(now[j]) = Comes(j)'
        <4>1. j \in Nat /\ j \in 1 .. u + l - 1
          BY <3>2
        <4>2. now[j] = IF j < u + i THEN j ELSE j + 1
          BY <3>3, <4>1
        <4>3. CASE j <= u
          BY <1>3, <1>4, <1>7, <4>1, <4>2, <4>3 DEF Comes
        <4>4. CASE ~(j <= u)
          <5>1. PICK e \in 1 .. l - 1 : j = u + e
            <6>1. j - u \in 1 .. l - 1 /\ j = u + (j - u)
              BY <4>1, <4>4
            <6> QED
              BY <6>1
          <5>2. Comes(j)' = line'[e].octet
            <6>1. j - u = e
              BY <5>1
            <6> QED
              BY <1>4, <1>7, <4>4, <6>1 DEF Comes
          <5>3. CASE e < i
            <6>1. now[j] = u + e /\ u + e - u = e /\ ~(u + e <= u)
              BY <1>3, <1>7, <4>2, <5>1, <5>3
            <6>2. Comes(now[j]) = line[e].octet
              BY <1>7, <6>1 DEF Comes
            <6> QED
              BY <1>7, <3>1, <5>1, <5>2, <5>3, <6>1, <6>2
          <5>4. CASE ~(e < i)
            <6>1. now[j] = u + e + 1 /\ u + e + 1 - u = e + 1 /\ ~(u + e + 1 <= u)
              BY <1>3, <1>7, <4>2, <5>1, <5>4
            <6>2. Comes(now[j]) = line[e + 1].octet
              BY <1>7, <6>1 DEF Comes
            <6> QED
              BY <1>7, <3>1, <5>1, <5>2, <5>4, <6>1, <6>2
          <5> QED
            BY <5>3, <5>4
        <4> QED
          BY <4>3, <4>4
      <3>5. ASSUME NEW j \in 1 .. Total', NEW k \in 1 .. Total', j < k PROVE now[j] < now[k]
        <4>1. now[j] = IF j < u + i THEN j ELSE j + 1
          BY <3>3
        <4>2. now[k] = IF k < u + i THEN k ELSE k + 1
          BY <3>3
        <4>3. j \in Nat /\ k \in Nat /\ i \in Nat
          BY <1>3, <1>7
        <4> QED
          BY <1>7, <3>5, <4>1, <4>2, <4>3
      <3>6. Total \in Nat /\ Total' \in Nat
        BY <1>3, <1>7, <3>2
      <3> QED
        BY <1>1, <1>4, <1>5, <3>4, <3>5, <3>6, ComingStays
    <2>2. CASE Changes(i)
      <3>1. Len(line') = l /\ \A j \in 1 .. l : IF j = i THEN line'[j].octet \in Octets ELSE line'[j] = line[j]
        BY <1>2, <1>3, <1>7, <2>2, ChangesIs
      <3>2. Total' = u + l
        BY <1>4, <1>7, <3>1 DEF Total
      <3>3. PICK now : now = [j \in Nat |-> j]
        OBVIOUS
      <3>4. \A x \in Octets : x \notin Codes
        <4>1. Octets \subseteq Plain
          BY LineConstants DEF Plain
        <4> QED
          BY <4>1, CodesAre
      <3>5. ASSUME NEW j \in 1 .. Total', Comes(j)' \in Codes PROVE now[j] \in 1 .. Total /\ Comes(now[j]) = Comes(j)'
        <4>1. now[j] = j /\ j \in 1 .. u + l
          BY <3>2, <3>3
        <4>2. CASE j <= u
          BY <1>4, <1>7, <4>1, <4>2 DEF Comes
        <4>3. CASE ~(j <= u)
          <5>1. PICK e \in 1 .. l : j = u + e /\ j - u = e
            <6>1. j - u \in 1 .. l /\ j = u + (j - u)
              BY <4>1, <4>3
            <6> QED
              BY <6>1
          <5>2. Comes(j)' = line'[e].octet /\ Comes(j) = line[e].octet
            BY <1>4, <1>7, <4>3, <5>1 DEF Comes
          <5>3. line'[e] = line[e]
            BY <3>1, <3>4, <3>5, <5>2, CodesAre DEF Codes
          <5> QED
            BY <1>7, <4>1, <5>2, <5>3
        <4> QED
          BY <4>2, <4>3
      <3>6. \A j, k \in 1 .. Total' : j < k => now[j] < now[k]
        BY <1>7, <3>2, <3>3
      <3>7. Total \in Nat /\ Total' \in Nat
        BY <1>7, <3>2
      <3> QED
        BY <1>1, <1>4, <1>5, <3>5, <3>6, <3>7, ComingStays
    <2> QED
      BY <1>3, <2>1, <2>2
  <1> QED
    BY <1>6, <1>8

\* Octets that go from the line into the ring come as before.
LEMMA TransportReadFrames ==
    ASSUME FramingAssumption, Distinct, FramesInv, TransportRead
    PROVE  SendingInv' /\ ComingInv' /\ ReturnedInv'
  <1>1. WriterTyped /\ RingTyped /\ InRing /\ SendingInv /\ ComingInv /\ ReturnedInv
    BY DEF FramesInv, RingInv
  <1>2. PICK n \in 0 .. Room[1] + Room[2] : n <= Len(line) /\ ReadInto(n)
    BY DEF TransportRead
  <1>3. n \in Nat /\ n <= Room[1] + Room[2] /\ line \in Seq(Tagged)
    BY <1>1 DEF WriterTyped
  <1>4. /\ Len(line') = Len(line) - n
        /\ \A i \in 1 .. Len(line) - n : line'[i] = line[n + i]
        /\ \E taken \in Seq(Values) :
              /\ unread' = unread \o taken /\ Len(taken) = n
              /\ \A i \in 1 .. n : taken[i] = line[i].octet
    BY <1>1, <1>2, <1>3, ReadIntoIs
  <1>5. PICK taken \in Seq(Values) :
              /\ unread' = unread \o taken /\ Len(taken) = n
              /\ \A i \in 1 .. n : taken[i] = line[i].octet
    BY <1>4
  <1>6. unread \in Seq(Values)
    BY <1>1 DEF RingTyped
  <1>7. /\ Len(unread \o taken) = Len(unread) + Len(taken)
        /\ \A i \in 1 .. Len(unread) : (unread \o taken)[i] = unread[i]
        /\ \A i \in 1 .. Len(taken) : (unread \o taken)[Len(unread) + i] = taken[i]
    BY <1>6, InARow
  <1>8. PICK u \in Nat, l \in Nat : u = Len(unread) /\ l = Len(line) /\ Total = u + l
    BY <1>1, TotalIs DEF Total
  <1>9. /\ Len(unread') = u + n
        /\ \A i \in 1 .. u : unread'[i] = unread[i]
        /\ \A i \in 1 .. n : unread'[u + i] = line[i].octet
    BY <1>5, <1>7, <1>8
  <1>10. Total' = u + l
    BY <1>3, <1>4, <1>8, <1>9 DEF Total
  <1>11. UNCHANGED <<writing, written, messages>>
    BY DEF TransportRead, writeVars
  <1>12. ASSUME NEW i \in 1 .. u + l PROVE Comes(i)' = Comes(i)
    <2>1. CASE i <= u
      <3>1. i <= u + n
        BY <1>3, <2>1
      <3> QED
        BY <1>8, <1>9, <2>1, <3>1 DEF Comes
    <2>2. CASE ~(i <= u)
      <3>1. PICK e \in 1 .. l : i = u + e /\ i - u = e
        <4>1. i - u \in 1 .. l /\ i = u + (i - u)
          BY <2>2
        <4> QED
          BY <4>1
      <3>2. Comes(i) = line[e].octet
        BY <1>8, <2>2, <3>1 DEF Comes
      <3>3. CASE e <= n
        <4>1. i <= u + n /\ e \in 1 .. n
          BY <1>3, <3>1, <3>3
        <4>2. Comes(i)' = unread'[u + e]
          BY <1>9, <3>1, <4>1 DEF Comes
        <4> QED
          BY <1>9, <3>2, <4>1, <4>2
      <3>4. CASE ~(e <= n)
        <4>1. PICK f \in 1 .. l - n : e = n + f
          <5>1. e - n \in 1 .. l - n /\ e = n + (e - n)
            BY <1>3, <3>4
          <5> QED
            BY <5>1
        <4>2. ~(i <= u + n) /\ i - (u + n) = f
          BY <1>3, <3>1, <4>1
        <4>3. Comes(i)' = line'[f].octet
          BY <1>9, <4>2 DEF Comes
        <4> QED
          BY <1>4, <1>8, <3>2, <4>1, <4>3
      <3> QED
        BY <3>3, <3>4
    <2> QED
      BY <2>1, <2>2
  <1>13. Bound \in Nat /\ Bound' = Bound
    BY <1>1, <1>11, BoundIs DEF Bound
  <1>14. SendingInv'
    BY <1>1, <1>11 DEF SendingInv, Codes, Code
  <1>15. ComingInv' /\ ReturnedInv'
    <2>1. Total \in Nat /\ Total' = Total
      BY <1>8, <1>10
    <2>2. \A i \in 1 .. Total : Comes(i)' = Comes(i)
      BY <1>8, <1>12
    <2>3. UNCHANGED messages
      BY <1>11
    <2> QED
      BY <1>1, <1>13, <2>1, <2>2, <2>3, ComingGrows
  <1> QED
    BY <1>14, <1>15

\* What the machine takes is what comes first.
LEMMA TakesComes ==
    ASSUME FramingAssumption, WriterTyped, RingTyped, NEW n \in 0 .. 2, n <= Len(unread),
           Takes(n) \/ (n = 0 /\ UNCHANGED unread), UNCHANGED line
    PROVE  /\ Total \in Nat /\ Total' \in Nat /\ Total = Total' + n
           /\ \A i \in 1 .. Total' : Comes(i)' = Comes(n + i)
  <1>1. PICK u \in Nat, l \in Nat : u = Len(unread) /\ l = Len(line) /\ Total = u + l
    BY TotalIs DEF Total
  <1>2. PICK k \in Nat : u = n + k
    <2>1. u - n \in Nat /\ u = n + (u - n)
      BY <1>1
    <2> QED
      BY <2>1
  <1>3. Len(unread') = k /\ \A i \in 1 .. k : unread'[i] = unread[n + i]
    <2>1. CASE Takes(n)
      <3>0. Len(unread) = n + k
        BY <1>1, <1>2
      <3>1. unread' = SubSeq(unread, n + 1, n + k) /\ n \in Nat
        BY <2>1, <3>0 DEF Takes
      <3>2. unread \in Seq(Values) /\ n + k <= Len(unread)
        BY <1>1, <1>2 DEF RingTyped
      <3> QED
        BY <3>1, <3>2, PartIs
    <2>2. CASE n = 0 /\ UNCHANGED unread
      <3>1. n = 0 /\ unread' = unread /\ Len(unread) = k /\ \A i \in 1 .. k : n + i = i
        BY <1>1, <1>2, <2>2
      <3> QED
        BY <3>1
    <2> QED
      BY <2>1, <2>2
  <1>4. Total' = k + l
    BY <1>1, <1>3 DEF Total
  <1>5. ASSUME NEW i \in 1 .. k + l PROVE Comes(i)' = Comes(n + i)
    <2>1. CASE i <= k
      <3>1. n + i <= u
        BY <1>2, <2>1
      <3> QED
        BY <1>1, <1>3, <2>1, <3>1 DEF Comes
    <2>2. CASE ~(i <= k)
      <3>1. ~(n + i <= u) /\ n + i - u = i - k
        BY <1>2, <2>2
      <3> QED
        BY <1>1, <1>3, <2>2, <3>1, SMTT(60) DEF Comes
    <2> QED
      BY <2>1, <2>2
  <1> QED
    BY <1>1, <1>2, <1>4, <1>5

\* Every step of the machine takes octets, and only the last of a frame returns a message.
LEMMA MachineTakes ==
    ASSUME FramingAssumption, RingInv, Machine
    PROVE  /\ \E n \in 0 .. 2 : n <= Len(unread) /\ (Takes(n) \/ (n = 0 /\ UNCHANGED unread))
           /\ UNCHANGED <<line, writing, written>>
           /\ \/ UNCHANGED messages
              \/ /\ ReadCrcMsb /\ Crc(received) = <<msg_crc, Octet.octet>>
                 /\ messages' = Append(messages, received)
  <1>1. RingTyped /\ InRing
    BY DEF RingInv
  <1>2. Octet.takes \in 0 .. 2 /\ Octet.takes <= Len(unread)
    BY <1>1, OctetIs
  <1>3. Takes(Octet.takes) => \E n \in 0 .. 2 : n <= Len(unread) /\ (Takes(n) \/ (n = 0 /\ UNCHANGED unread))
    BY <1>2
  <1>4. UNCHANGED unread => \E n \in 0 .. 2 : n <= Len(unread) /\ (Takes(n) \/ (n = 0 /\ UNCHANGED unread))
    <2>1. 0 \in 0 .. 2 /\ 0 <= Len(unread)
      BY <1>1, SeqIs DEF RingTyped
    <2> QED
      BY <2>1
  <1>5. CASE Seek
    <2>1. CASE head = tail
      BY <1>4, <1>5, <2>1 DEF Machine, writeVars, Seek, ringVars
    <2>2. CASE head # tail
      <3>1. 1 <= Len(unread) /\ 1 \in 0 .. 2
        BY <1>1, <2>2, LineConstants DEF RingTyped, InRing, Occupied
      <3>2. Takes(1) /\ UNCHANGED messages
        BY <1>5, <2>2 DEF Seek
      <3> QED
        BY <3>1, <3>2 DEF Machine, writeVars
    <2> QED
      BY <2>1, <2>2
  <1>6. CASE Interrupted
    BY <1>3, <1>6 DEF Machine, writeVars, Interrupted
  <1>7. CASE ReadSrcAddr
    BY <1>3, <1>7 DEF Machine, writeVars, ReadSrcAddr, At
  <1>8. CASE ReadDstAddr
    BY <1>3, <1>8 DEF Machine, writeVars, ReadDstAddr, At
  <1>9. CASE ReadLenLsb
    BY <1>3, <1>9 DEF Machine, writeVars, ReadLenLsb, At
  <1>10. CASE ReadLenMsb
    BY <1>3, <1>10 DEF Machine, writeVars, ReadLenMsb, At
  <1>11. CASE ReadPayload
    BY <1>3, <1>4, <1>11 DEF Machine, writeVars, ReadPayload, At, ringVars
  <1>12. CASE ReadCrcLsb
    BY <1>3, <1>12 DEF Machine, writeVars, ReadCrcLsb, At
  <1>13. CASE ReadCrcMsb
    BY <1>3, <1>13 DEF Machine, writeVars, ReadCrcMsb, At
  <1> QED
    BY <1>5, <1>6, <1>7, <1>8, <1>9, <1>10, <1>11, <1>12, <1>13 DEF Machine

\* A message is returned when its code is taken, the first of what comes.
LEMMA ReturnedIs ==
    ASSUME FramingAssumption, WriterTyped, RingTyped, InRing, At("CRC_MSB"),
           Crc(received) = <<msg_crc, Octet.octet>>
    PROVE  /\ 1 <= Len(unread) /\ Takes(1)
           /\ \E m \in DOMAIN Messages : Messages[m].payload = received /\ Comes(1) = Code(m)
  <1> DEFINE of == {m \in DOMAIN Messages : Messages[m].payload = received}
  <1>1. /\ Octet.octet \in Nat /\ Octet.takes \in 1 .. 2 /\ Octet.takes <= Len(unread)
        /\ Octet.takes = 1 => Octet.octet = unread[1]
        /\ Octet.takes = 2 => Octet.octet = BEGIN \/ Octet.octet = Xor(unread[2])
    BY OctetIs DEF At
  <1>2. of # {}
    <2>1. CASE of = {}
      <3>1. <<msg_crc, Octet.octet>> = <<-1, -1>>
        BY <2>1 DEF Crc
      <3>2. Octet.octet = -1
        BY <3>1
      <3> QED
        BY <1>1, <3>2
    <2> QED
      BY <2>1
  <1>3. of \in SUBSET Nat /\ of \subseteq DOMAIN Messages
    <2>1. \A e \in DOMAIN Messages : e \in Nat
      BY LineConstants
    <2> QED
      BY <2>1
  <1>4. Crc(received) = CrcOf(Min(of))
    BY <1>2 DEF Crc
  <1>5. \A e \in of : Messages[e].payload = received
    OBVIOUS
  <1> HIDE DEF of
  <1>6. Min(of) \in of
    BY <1>2, <1>3, LeastIs DEF Min
  <1>7. PICK m \in DOMAIN Messages : m = Min(of) /\ Messages[m].payload = received
    BY <1>3, <1>5, <1>6
  <1>8. Octet.octet = Code(m) /\ Code(m) \in Codes
    <2>1. <<msg_crc, Octet.octet>> = <<1000 * m, 1000 * m + 100>>
      BY <1>4, <1>7 DEF CrcOf
    <2>2. Octet.octet = 1000 * m + 100
      BY <2>1
    <2> QED
      BY <2>2, CodesAre DEF Code
  <1>9. Octet.takes # 2
    <2>1. Octet.octet # BEGIN
      <3>1. m \in Nat /\ m >= 1
        BY LineConstants
      <3> QED
        BY <1>8, <3>1 DEF Code, BEGIN
    <2>2. ASSUME Octet.takes = 2 PROVE Xor(unread[2]) \notin Codes
      <3>1. Len(unread) \in Nat /\ 2 <= Len(unread) /\ \A i \in 1 .. Len(unread) : unread[i] \in Values
        BY <1>1, <2>2, SeqIs DEF RingTyped
      <3>2. unread[2] \in Values
        BY <3>1
      <3> QED
        BY <3>2, CodesAre
    <2> QED
      BY <1>1, <1>8, <2>1, <2>2
  <1>10. Octet.takes = 1
    BY <1>1, <1>9
  <1>11. Comes(1) = unread[1]
    BY <1>1, <1>10, TotalIs DEF Comes
  <1> QED
    BY <1>1, <1>7, <1>8, <1>10, <1>11 DEF At

LEMMA AppendIs ==
    ASSUME NEW S, NEW s \in Seq(S), NEW x \in S
    PROVE  /\ Len(s) \in Nat /\ DOMAIN s = 1 .. Len(s)
           /\ DOMAIN Append(s, x) = 1 .. Len(s) + 1
           /\ \A k \in 1 .. Len(s) : Append(s, x)[k] = s[k]
           /\ Append(s, x)[Len(s) + 1] = x
  OBVIOUS

LEMMA MachineFrames ==
    ASSUME FramingAssumption, Distinct, FramesInv, Machine
    PROVE  SendingInv' /\ ComingInv' /\ ReturnedInv'
  <1>1. WriterTyped /\ RingTyped /\ MachineTyped /\ InRing /\ SendingInv /\ ComingInv /\ ReturnedInv /\ RingInv
    BY DEF FramesInv, RingInv
  <1>2. /\ \E n \in 0 .. 2 : n <= Len(unread) /\ (Takes(n) \/ (n = 0 /\ UNCHANGED unread))
        /\ UNCHANGED <<line, writing, written>>
        /\ \/ UNCHANGED messages
           \/ /\ ReadCrcMsb /\ Crc(received) = <<msg_crc, Octet.octet>>
              /\ messages' = Append(messages, received)
    BY <1>1, MachineTakes
  <1>3. SendingInv'
    BY <1>1, <1>2 DEF SendingInv, Codes, Code
  <1>4. Bound \in Nat /\ Bound' = Bound /\ \A m : Code(m)' = Code(m') /\ Codes' = Codes
    BY <1>1, <1>2, BoundIs DEF Bound, Code, Codes
  <1>5. CASE UNCHANGED messages
    <2>1. PICK n \in 0 .. 2 : n <= Len(unread) /\ (Takes(n) \/ (n = 0 /\ UNCHANGED unread))
      BY <1>2
    <2>2. /\ Total \in Nat /\ Total' \in Nat /\ Total = Total' + n
          /\ \A i \in 1 .. Total' : Comes(i)' = Comes(n + i)
      BY <1>1, <1>2, <2>1, TakesComes
    <2>3. PICK now : now = [j \in Nat |-> n + j]
      OBVIOUS
    <2>4. \A i \in 1 .. Total' : now[i] \in 1 .. Total /\ Comes(now[i]) = Comes(i)'
      BY <2>2, <2>3
    <2>5. \A i, j \in 1 .. Total' : i < j => now[i] < now[j]
      BY <2>2, <2>3
    <2>6. ComingInv'
      BY <1>1, <1>4, <1>5, <2>2, <2>4, <2>5, ComingStays
    <2>7. ReturnedInv'
      BY <1>1, <1>4, <1>5 DEF ReturnedInv
    <2> QED
      BY <1>3, <2>6, <2>7
  <1>6. CASE /\ ReadCrcMsb /\ Crc(received) = <<msg_crc, Octet.octet>>
             /\ messages' = Append(messages, received)
    <2>1. At("CRC_MSB")
      BY <1>6 DEF ReadCrcMsb
    <2>2. 1 <= Len(unread) /\ Takes(1)
      BY <1>1, <1>6, <2>1, ReturnedIs
    <2>3. PICK m \in DOMAIN Messages : Messages[m].payload = received /\ Comes(1) = Code(m)
      BY <1>1, <1>6, <2>1, ReturnedIs
    <2>4. /\ Total \in Nat /\ Total' \in Nat /\ Total = Total' + 1
          /\ \A i \in 1 .. Total' : Comes(i)' = Comes(1 + i)
      <3>1. 1 \in 0 .. 2
        OBVIOUS
      <3> QED
        BY <1>1, <1>2, <2>2, <3>1, TakesComes
    <2>5. PICK r \in Nat :
              /\ DOMAIN messages = 1 .. r /\ DOMAIN messages' = 1 .. r + 1
              /\ \A k \in 1 .. r : messages'[k] = messages[k]
              /\ messages'[r + 1] = Messages[m].payload
      <3>1. messages \in Seq(Seq(Nat)) /\ received \in Seq(Nat)
        BY <1>1 DEF MachineTyped
      <3>2. /\ Len(messages) \in Nat /\ DOMAIN messages = 1 .. Len(messages)
            /\ DOMAIN Append(messages, received) = 1 .. Len(messages) + 1
            /\ \A k \in 1 .. Len(messages) : Append(messages, received)[k] = messages[k]
            /\ Append(messages, received)[Len(messages) + 1] = received
        BY <3>1, AppendIs
      <3> QED
        BY <1>6, <2>3, <3>2
    <2>6. 1 \in 1 .. Total /\ \A i \in 1 .. Total' : 1 + i \in 1 .. Total /\ 1 < 1 + i /\ i \in Nat
      <3>1. PICK t \in Nat : t = Total' /\ t + 1 = Total
        BY <2>4
      <3>2. 1 \in 1 .. t + 1 /\ \A i \in 1 .. t : 1 + i \in 1 .. t + 1 /\ 1 < 1 + i /\ i \in Nat
        OBVIOUS
      <3> QED
        BY <3>1, <3>2
    <2>7. Code(m) \in Codes /\ m \in Nat
      BY CodesAre, LineConstants
    <2>8. m <= Bound
      BY <1>1, <1>4, <2>3, <2>6, <2>7, CodeOrder DEF ComingInv
    <2>9. ASSUME NEW i \in 1 .. Total', Comes(i)' \in Codes PROVE Code(m) < Comes(i)'
      BY <1>1, <2>3, <2>4, <2>6, <2>7, <2>9 DEF ComingInv
    <2>10. ASSUME NEW k \in 1 .. r, NEW e \in DOMAIN Messages, messages[k] = Messages[e].payload PROVE e < m
      <3>1. Code(e) < Comes(1)
        BY <1>1, <2>3, <2>5, <2>6, <2>7, <2>10 DEF ComingInv
      <3>2. e \in Nat
        BY LineConstants
      <3> QED
        BY <2>3, <2>7, <3>1, <3>2, CodeOrder
    <2>11. \A e \in DOMAIN Messages : Messages[m].payload = Messages[e].payload => e = m
      BY DEF Distinct
    <2>12. \A k \in 1 .. r + 1 : k \in 1 .. r \/ k = r + 1
      OBVIOUS
    <2>13. ComingInv'
      <3>1. \A i, j \in 1 .. Total' :
                i < j /\ Comes(i)' \in Codes /\ Comes(j)' \in Codes => Comes(i)' < Comes(j)'
        <4>1. ASSUME NEW i \in 1 .. Total', NEW j \in 1 .. Total', i < j, Comes(i)' \in Codes, Comes(j)' \in Codes
              PROVE  Comes(i)' < Comes(j)'
          <5>1. 1 + i \in 1 .. Total /\ 1 + j \in 1 .. Total /\ 1 + i < 1 + j
            BY <2>6, <4>1
          <5>2. Comes(i)' = Comes(1 + i) /\ Comes(j)' = Comes(1 + j)
            BY <2>4
          <5> QED
            BY <1>1, <4>1, <5>1, <5>2 DEF ComingInv
        <4> QED
          BY <4>1
      <3>2. \A i \in 1 .. Total' : Comes(i)' \in Codes => Comes(i)' <= Code(Bound)
        BY <1>1, <2>4, <2>6 DEF ComingInv
      <3>3. \A i \in 1 .. Total', k \in 1 .. r + 1, e \in DOMAIN Messages :
                messages'[k] = Messages[e].payload /\ Comes(i)' \in Codes => Code(e) < Comes(i)'
        <4>1. ASSUME NEW i \in 1 .. Total', NEW k \in 1 .. r + 1, NEW e \in DOMAIN Messages,
                     messages'[k] = Messages[e].payload, Comes(i)' \in Codes
              PROVE  Code(e) < Comes(i)'
          <5>1. CASE k \in 1 .. r
            <6>1. messages[k] = Messages[e].payload /\ k \in DOMAIN messages
              BY <2>5, <4>1, <5>1
            <6>2. 1 + i \in 1 .. Total /\ Comes(i)' = Comes(1 + i)
              BY <2>4, <2>6
            <6> QED
              BY <1>1, <4>1, <6>1, <6>2 DEF ComingInv
          <5>2. CASE k = r + 1
            <6>1. e = m
              BY <2>5, <2>11, <4>1, <5>2
            <6> QED
              BY <2>9, <4>1, <6>1
          <5> QED
            BY <2>12, <5>1, <5>2
        <4> QED
          BY <4>1
      <3> QED
        BY <1>4, <2>5, <3>1, <3>2, <3>3 DEF ComingInv
    <2>14. ReturnedInv'
      <3>1. \A k \in 1 .. r + 1 : \E e \in DOMAIN Messages : e <= Bound /\ messages'[k] = Messages[e].payload
        <4>1. \A k \in 1 .. r : \E e \in DOMAIN Messages : e <= Bound /\ messages'[k] = Messages[e].payload
          BY <1>1, <2>5 DEF ReturnedInv
        <4> QED
          BY <2>5, <2>8, <2>12, <4>1
      <3>2. \A k, l \in 1 .. r + 1, e, f \in DOMAIN Messages :
                k < l /\ messages'[k] = Messages[e].payload /\ messages'[l] = Messages[f].payload => e < f
        <4>1. ASSUME NEW k \in 1 .. r + 1, NEW l \in 1 .. r + 1, NEW e \in DOMAIN Messages, NEW f \in DOMAIN Messages,
                     k < l, messages'[k] = Messages[e].payload, messages'[l] = Messages[f].payload
              PROVE  e < f
          <5>1. k \in 1 .. r
            BY <4>1
          <5>2. messages[k] = Messages[e].payload
            BY <2>5, <4>1, <5>1
          <5>3. CASE l \in 1 .. r
            BY <1>1, <2>5, <4>1, <5>1, <5>2, <5>3 DEF ReturnedInv
          <5>4. CASE l = r + 1
            <6>1. f = m
              BY <2>5, <2>11, <4>1, <5>4
            <6> QED
              BY <2>10, <5>1, <5>2, <6>1
          <5> QED
            BY <2>12, <5>3, <5>4
        <4> QED
          BY <4>1
      <3> QED
        BY <1>4, <2>5, <3>1, <3>2 DEF ReturnedInv
    <2> QED
      BY <1>3, <2>13, <2>14
  <1> QED
    BY <1>2, <1>5, <1>6

LEMMA InitFrames == ASSUME FramingAssumption, Init PROVE FramesInv
  <1>1. RingInv
    BY InitRing
  <1>2. SendingInv
    BY DEF Init, SendingInv
  <1>3. DOMAIN messages = {} /\ Total = 0
    BY DEF Init, Total
  <1>4. ComingInv /\ ReturnedInv
    <2>1. 1 .. Total = {}
      BY <1>3
    <2> QED
      BY <1>3, <2>1 DEF ComingInv, ReturnedInv
  <1> QED
    BY <1>1, <1>2, <1>4 DEF FramesInv

LEMMA FramesStep == ASSUME FramingAssumption, Distinct, FramesInv, [Next]_vars PROVE FramesInv'
  <1>1. RingInv'
    BY RingStep DEF FramesInv
  <1>2. CASE WriteFramedMsg
    BY <1>1, <1>2, WriteFramedMsgFrames
  <1>3. CASE TransportWrite
    BY <1>1, <1>3, TransportWriteFrames
  <1>4. CASE WriteFails
    BY <1>1, <1>4, WriteFailsFrames
  <1>5. CASE Fault
    BY <1>1, <1>5, FaultFrames DEF FramesInv
  <1>6. CASE TransportRead
    BY <1>1, <1>6, TransportReadFrames DEF FramesInv
  <1>7. CASE Machine
    BY <1>1, <1>7, MachineFrames DEF FramesInv
  <1>8. CASE UNCHANGED vars
    <2>1. UNCHANGED <<writing, written, line, unread, messages>>
      BY <1>8 DEF vars, writeVars, ringVars, machineVars
    <2>2. SendingInv' /\ ComingInv' /\ ReturnedInv'
      BY <2>1 DEF FramesInv, SendingInv, ComingInv, ReturnedInv, Bound, Total, Comes, Code, Codes
    <2> QED
      BY <1>1, <2>2 DEF FramesInv
  <1> QED
    BY <1>2, <1>3, <1>4, <1>5, <1>6, <1>7, <1>8 DEF Next

\* The second octet of a CRC is the last of its frame, wherever write_framed_msg
\* breaks off, and those on the line and in the ring are in the order of the
\* messages and behind those of what read_framed_msg returned.
THEOREM FramesInvariant == ASSUME FramingAssumption, Distinct PROVE Spec => []FramesInv
  <1>1. Init => FramesInv
    BY InitFrames
  <1>2. FramesInv /\ [Next]_vars => FramesInv'
    BY FramesStep
  <1> QED
    BY <1>1, <1>2, PTL DEF Spec

LEMMA FramesHold == ASSUME FramingAssumption, FramesInv PROVE OnlyWritten
  <1>1. WriterTyped /\ SendingInv /\ ReturnedInv
    BY DEF FramesInv, RingInv
  <1>2. Bound \in Nat /\ written \in Nat /\ Bound <= written /\ \A m \in DOMAIN Messages : m \in Nat
    BY <1>1, BoundIs, LineConstants
  <1>3. ASSUME NEW k \in DOMAIN messages PROVE \E m \in Number(messages[k]) : m <= written
    <2>1. PICK m \in DOMAIN Messages : m <= Bound /\ messages[k] = Messages[m].payload
      BY <1>1 DEF ReturnedInv
    <2> QED
      BY <1>2, <2>1 DEF Number
  <1>4. ASSUME NEW k \in DOMAIN messages, NEW l \in DOMAIN messages, k < l
        PROVE  \E m \in Number(messages[k]), n \in Number(messages[l]) : m < n
    <2>1. PICK m \in Number(messages[k]) : TRUE
      BY <1>3
    <2>2. PICK n \in Number(messages[l]) : TRUE
      BY <1>3
    <2>3. m < n
      BY <1>1, <1>4, <2>1, <2>2 DEF ReturnedInv, Number
    <2> QED
      BY <2>1, <2>2, <2>3
  <1> QED
    BY <1>3, <1>4 DEF OnlyWritten

\* Whatever the line loses or changes, and wherever a write breaks off, what
\* read_framed_msg returns was written, in that order and once.
THEOREM OnlyWrittenIsReturned == ASSUME FramingAssumption, Distinct PROVE Spec => []OnlyWritten
  <1>1. FramesInv => OnlyWritten
    BY FramesHold
  <1> QED
    BY <1>1, FramesInvariant, PTL
=============================================================================
