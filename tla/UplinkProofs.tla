---------------------------- MODULE UplinkProofs ----------------------------
(***************************************************************************)
(* Proofs about Uplink: the positions of both sides follow one another     *)
(* round the circle of the numbers, nothing is freed before the Agent took *)
(* it out, nothing deliverable waits, and the stream implements the        *)
(* reliable channel: what the application writes comes out whole, once and *)
(* in its order.                                                           *)
(***************************************************************************)
EXTENDS Uplink, SeqNumProofs, SequenceTheorems, FiniteSetTheorems

----------------------------------------------------------------------------
(* The constants, and the arithmetic of both sides *)

LEMMA Constants ==
    ASSUME UplinkAssumption
    PROVE  /\ Half \in Nat /\ History \in Nat \ {0} /\ History < Half /\ Modulus % History = 0
           /\ Depth \in Nat \ {0} /\ Depth < Half
           /\ Capacity \in Nat /\ Capacity >= 2 /\ Sizes \subseteq Nat \ {0}
           /\ Modulus = 2 * Half /\ MaxSeq = Modulus - 1
  BY HalfAssumption
     DEF UplinkAssumption, Client!BufferAssumption, Agent!DepthAssumption, Modulus, Client!Modulus,
         MaxSeq

LEMMA Scale ==
    ASSUME UplinkAssumption
    PROVE  /\ Half \in Nat /\ History \in Nat \ {0} /\ History < Half
           /\ Depth \in Nat \ {0} /\ Depth < Half
  BY Constants

\* Both sides compute alike.
LEMMA ClientArith ==
    /\ Client!Modulus = Modulus /\ Client!SeqNums = SeqNums /\ Client!MaxSeq = MaxSeq
    /\ \A a, b : /\ Client!ClientAdd(a, b) = Wrap(a + b)
                 /\ Client!SeqSub(a, b) = SeqSub(a, b)
                 /\ Client!SeqLt(a, b) = SeqLt(a, b)
                 /\ Client!ClientCmp(a, b) <= 0 <=> a = b \/ SeqLt(a, b)
                 /\ Client!ClientCmp(a, b) < 0 <=> a # b /\ SeqLt(a, b)
  BY DEF Client!Modulus, Modulus, Client!SeqNums, SeqNums, Client!MaxSeq, MaxSeq, Client!Wrap, Wrap,
         Client!ClientAdd, Client!SeqSub, SeqSub, Client!SeqLt, SeqLt, Client!ClientCmp

LEMMA AgentArith ==
    /\ Agent!SeqNums = SeqNums /\ Agent!MaxSeq = MaxSeq
    /\ \A a, b : /\ Agent!SeqAdd(a, b) = SeqAdd(a, b)
                 /\ Agent!SeqSub(a, b) = SeqSub(a, b)
                 /\ Agent!SeqLt(a, b) = SeqLt(a, b)
                 /\ Agent!SeqLeq(a, b) = ~SeqLt(b, a)
  BY DEF Agent!Modulus, Modulus, Agent!SeqNums, SeqNums, Agent!MaxSeq, MaxSeq, Agent!Wrap, Wrap,
         Agent!SeqAdd, SeqAdd, Agent!SeqSub, SeqSub, Agent!SeqLt, SeqLt, Agent!SeqLeq

\* What both take from the libraries.
LEMMA Libraries ==
    /\ \A S : Agent!Cardinality(S) = Cardinality(S) /\ Client!Cardinality(S) = Cardinality(S)
    /\ \A s : Agent!FlattenSeq(s) = FlattenSeq(s)
  <1>1. \A S : Agent!Cardinality(S) = Cardinality(S)
    BY DEF Agent!Cardinality, Cardinality
  <1>2. \A S : Client!Cardinality(S) = Cardinality(S)
    BY DEF Client!Cardinality, Cardinality
  <1>3. \A s : Agent!FlattenSeq(s) = FlattenSeq(s)
    BY DEF Agent!FlattenSeq, FlattenSeq
  <1> QED
    BY <1>1, <1>2, <1>3

----------------------------------------------------------------------------
(* The inductive invariant *)

Payloads == Seq(Client!Pieces)

Buffers == [size : 0 .. Capacity, pieces : Payloads]

\* Packets and ACKNACKs.
DataOK(p) == p.type = "DATA" /\ p.num \in SeqNums /\ p.msg \in Payloads
HeartbeatOK(p) == p.type = "HEARTBEAT" /\ p.window.first \in SeqNums /\ p.window.last \in SeqNums
Acks == [first : SeqNums, nacks : SUBSET Nat]

Typed ==
    /\ slots \in [0 .. History - 1 -> Buffers]
    /\ \A i \in 0 .. History - 1 : slots[i].size = 0 <=> slots[i].pieces = <<>>
    /\ last_written \in SeqNums /\ last_sent \in SeqNums /\ last_acknown \in SeqNums
    /\ DOMAIN messages \subseteq SeqNums
    /\ \A k \in DOMAIN messages : messages[k] \in Payloads
    /\ last_handled \in SeqNums /\ last_announced \in SeqNums
    /\ fragment \in Payloads /\ \A i \in DOMAIN fragment : fragment[i].kind = "FRAGMENT"
    /\ \A p \in network : DataOK(p) \/ HeartbeatOK(p)
    /\ acks \in Seq(Acks)

\* How far a number is ahead of the last one acknowledged.
Ahead(k) == SeqSub(k, last_acknown)

\* What is acknowledged was handled, what was handled was sent, what was sent
\* was written, and all of it is less than the history and one message.
OrderInv ==
    /\ Ahead(last_handled) <= Ahead(last_sent)
    /\ Ahead(last_sent) <= History
    /\ Ahead(last_sent) < Ahead(last_written)
    /\ Ahead(last_written) <= History + 1

\* The slot of the number d after the last one acknowledged.
Place(d) == Wrap(last_acknown + d) % History

\* The slots in use are those of the messages written, but for the one being
\* built.
SlotsInv ==
    \A d \in 1 .. History :
        /\ d < Ahead(last_written) => slots[Place(d)].size # 0
        /\ d > Ahead(last_written) => slots[Place(d)].size = 0

\* The Agent holds messages that were sent, ahead of a gap and in its window.
HeldInv ==
    \A k \in DOMAIN messages :
        /\ SeqSub(k, last_handled) \in 2 .. Depth
        /\ SeqSub(k, last_handled) <= SeqSub(last_sent, last_handled)

\* The number an ACKNACK acknowledges.
Acknowledged(i) == SeqSub(acks[i].first, 1)

\* ACKNACKs come in their order, and acknowledge what was handled.
AcksInv ==
    /\ \A i \in DOMAIN acks : Ahead(Acknowledged(i)) <= Ahead(last_handled)
    /\ \A i, j \in DOMAIN acks : i < j => Ahead(Acknowledged(i)) <= Ahead(Acknowledged(j))

\* How long ago a number was written.
Age(k) == SeqSub(last_written, k)

\* Messages on their way were sent, heartbeats begin where the Client's window
\* begins or earlier, and all of them less than half a turn ago.
PacketsInv ==
    \A p \in network :
        /\ Age(NumberOf(p)) < Half
        /\ p.type = "DATA" => Age(p.num) >= Age(last_sent)
        /\ p.type = "HEARTBEAT" => Age(p.window.first) >= Ahead(last_written) - 1

\* What the Agent holds, and what may still come, is what the Client keeps.
ContentInv ==
    /\ \A k \in DOMAIN messages : messages[k] = slots[k % History].pieces
    /\ \A p \in network :
          p.type = "DATA" /\ Ahead(p.num) \in 1 .. Ahead(last_sent) =>
              p.msg = slots[p.num % History].pieces

UpInv ==
    Typed /\ OrderInv /\ SlotsInv /\ HeldInv /\ AcksInv /\ PacketsInv /\ ContentInv

----------------------------------------------------------------------------
(* What the Agent makes of the pieces it takes out *)

\* What has come of i pieces.
Processes(f, n, pieces, begun) ==
    f = [i \in 0 .. n |-> IF i = 0 THEN begun ELSE Agent!Process(f[i - 1], pieces[i])]

LEMMA ProcessesExist ==
    ASSUME NEW n \in Nat, NEW pieces, NEW begun
    PROVE  \E f : Processes(f, n, pieces, begun)
  <1> DEFINE Missing == {k \in Nat : ~\E f : Processes(f, k, pieces, begun)}
             Then(i, v) == Agent!Process(v, pieces[i])
  <1>1. Missing \in SUBSET Nat
    OBVIOUS
  <1>2. ASSUME NEW k \in Missing, \A j \in Missing : k <= j PROVE FALSE
    <2>1. CASE k = 0
      <3>1. PICK f : f = [i \in 0 .. 0 |-> begun]
        OBVIOUS
      <3>2. Processes(f, 0, pieces, begun)
        BY <3>1 DEF Processes
      <3> QED
        BY <1>2, <2>1, <3>2
    <2>2. CASE k # 0
      <3>1. k - 1 \in Nat /\ k - 1 \notin Missing
        BY <1>2, <2>2
      <3>2. PICK g : Processes(g, k - 1, pieces, begun)
        BY <3>1
      <3>3. g = [i \in 0 .. k - 1 |-> IF i = 0 THEN begun ELSE Then(i, g[i - 1])]
        BY <3>2 DEF Processes
      <3>4. PICK f : f = [i \in 0 .. k |-> IF i = 0 THEN begun ELSE Then(i, g[i - 1])]
        OBVIOUS
      <3> HIDE DEF Then
      <3>5. \A i \in 0 .. k - 1 : f[i] = g[i]
        <4>1. \A i \in 0 .. k - 1 :
                 /\ f[i] = IF i = 0 THEN begun ELSE Then(i, g[i - 1])
                 /\ g[i] = IF i = 0 THEN begun ELSE Then(i, g[i - 1])
          BY <3>1, <3>3, <3>4
        <4> QED
          BY <4>1
      <3>6. \A i \in 0 .. k : i # 0 => f[i - 1] = g[i - 1]
        BY <3>1, <3>5
      <3>7. f = [i \in 0 .. k |-> IF i = 0 THEN begun ELSE Then(i, f[i - 1])]
        BY <3>4, <3>6
      <3>8. Processes(f, k, pieces, begun)
        BY <3>7 DEF Processes, Then
      <3> QED
        BY <1>2, <3>8
    <2> QED
      BY <2>1, <2>2
  <1> HIDE DEF Missing
  <1>3. Missing = {}
    BY <1>1, <1>2, LeastIs
  <1> QED
    BY <1>3 DEF Missing

\* Only fragments that others must follow are kept.
Unfinished(u) == u \in Payloads /\ \A i \in DOMAIN u : u[i].kind = "FRAGMENT"

\* A piece leaves such a collection ...
LEMMA ProcessIs ==
    ASSUME NEW p \in Client!Pieces, NEW st, Unfinished(st.fragment),
           st = [fragment |-> st.fragment, out |-> st.out]
    PROVE  /\ Unfinished(Agent!Process(st, p).fragment)
           /\ Agent!Process(st, p) = [fragment |-> Agent!Process(st, p).fragment,
                                      out |-> Agent!Process(st, p).out]
  <1>1. p.kind \in {"WHOLE", "FRAGMENT", "LAST"}
    BY DEF Client!Pieces
  <1>2. CASE p.kind = "WHOLE"
    <2>1. Agent!Process(st, p) = [st EXCEPT !.out = Append(@, <<p>>)]
      BY <1>2 DEF Agent!Process
    <2>2. /\ Agent!Process(st, p).fragment = st.fragment
          /\ Agent!Process(st, p) = [fragment |-> Agent!Process(st, p).fragment,
                                      out |-> Agent!Process(st, p).out]
      BY <2>1
    <2> QED
      BY <2>2
  <1>3. CASE p.kind = "FRAGMENT"
    <2>1. Agent!Process(st, p) = [st EXCEPT !.fragment = Append(@, p)]
      BY <1>3 DEF Agent!Process
    <2>2. /\ Agent!Process(st, p).fragment = Append(st.fragment, p)
          /\ Agent!Process(st, p) = [fragment |-> Agent!Process(st, p).fragment,
                                      out |-> Agent!Process(st, p).out]
      BY <2>1
    <2>3. Unfinished(Append(st.fragment, p))
      BY <1>3 DEF Unfinished, Payloads
    <2> QED
      BY <2>2, <2>3
  <1>4. CASE p.kind = "LAST"
    <2>1. Agent!Process(st, p) = [fragment |-> <<>>,
                                  out |-> Append(st.out, Append(st.fragment, p))]
      BY <1>4 DEF Agent!Process
    <2>2. /\ Agent!Process(st, p).fragment = <<>>
          /\ Agent!Process(st, p) = [fragment |-> Agent!Process(st, p).fragment,
                                      out |-> Agent!Process(st, p).out]
      BY <2>1
    <2>3. Unfinished(<<>>)
      BY DEF Unfinished, Payloads
    <2> QED
      BY <2>2, <2>3
  <1> QED
    BY <1>1, <1>2, <1>3, <1>4

\* ... and so do all of a message, one after the other.
LEMMA ProcessesIs ==
    ASSUME NEW n \in Nat, NEW pieces, NEW begun, NEW f, Processes(f, n, pieces, begun),
           \A i \in 1 .. n : pieces[i] \in Client!Pieces,
           Unfinished(begun.fragment),
           begun = [fragment |-> begun.fragment, out |-> begun.out]
    PROVE  Unfinished(f[n].fragment)
  <1> DEFINE Good(st) == Unfinished(st.fragment) /\ st = [fragment |-> st.fragment, out |-> st.out]
             Wrong == {i \in 0 .. n : ~Good(f[i])}
             Then(i, v) == Agent!Process(v, pieces[i])
  <1>0. f = [i \in 0 .. n |-> IF i = 0 THEN begun ELSE Then(i, f[i - 1])]
    BY DEF Processes
  <1>1. f[0] = begun /\ \A i \in 1 .. n : f[i] = Agent!Process(f[i - 1], pieces[i])
    <2> HIDE DEF Then
    <2>1. \A i \in 0 .. n : f[i] = IF i = 0 THEN begun ELSE Then(i, f[i - 1])
      BY <1>0
    <2>2. f[0] = begun /\ \A i \in 1 .. n : f[i] = Then(i, f[i - 1])
      BY <2>1
    <2> QED
      BY <2>2 DEF Then
  <1>2. Wrong \in SUBSET Nat
    OBVIOUS
  <1>3. ASSUME NEW i \in Wrong, \A e \in Wrong : i <= e PROVE FALSE
    <2>1. i \in 0 .. n /\ ~Good(f[i])
      OBVIOUS
    <2>2. Good(begun)
      OBVIOUS
    <2> HIDE DEF Good
    <2>3. i # 0
      BY <1>1, <2>1, <2>2
    <2>4. i \in 1 .. n /\ i - 1 \in 0 .. n /\ i - 1 \notin Wrong
      BY <1>3, <2>1, <2>3
    <2>5. Good(f[i - 1])
      BY <2>4
    <2>6. Good(Agent!Process(f[i - 1], pieces[i]))
      BY <2>4, <2>5, ProcessIs DEF Good
    <2> QED
      BY <1>1, <2>1, <2>4, <2>6
  <1> HIDE DEF Wrong
  <1>4. Wrong = {}
    BY <1>2, <1>3, LeastIs
  <1> HIDE DEF Good
  <1>5. Good(f[n])
    BY <1>4 DEF Wrong
  <1> QED
    BY <1>5 DEF Good

----------------------------------------------------------------------------
(* What the Agent takes out *)

\* Numbers that are at most the window ahead of the last one handled.
InReach(held) == held \subseteq SeqNums /\ \A k \in held : SeqSub(k, last_handled) \in 1 .. Depth

\* A number so far ahead is at that distance.
LEMMA AddIs ==
    ASSUME UplinkAssumption, NEW h \in SeqNums, NEW d \in 0 .. Depth + 1
    PROVE  /\ SeqAdd(h, d) \in SeqNums
           /\ d <= Depth => SeqAdd(h, d) = Wrap(h + d) /\ SeqSub(Wrap(h + d), h) = d
           /\ SeqSub(SeqAdd(h, d), h) \in {0, d}
  BY Constants DEF SeqAdd, SeqSub, Wrap, SeqNums, Modulus

\* n numbers that are held in a row, and the next is not.
InARow(held, n) ==
    /\ \A d \in 1 .. n : SeqAdd(last_handled, d) \in held
    /\ SeqAdd(last_handled, n + 1) \notin held

\* The loop over pop_message ends within the window.
LEMMA InSequenceIs ==
    ASSUME UplinkAssumption, last_handled \in SeqNums, NEW held, InReach(held)
    PROVE  /\ Agent!InSequence(held) \in 0 .. Depth
           /\ InARow(held, Agent!InSequence(held))
  <1>1. Depth \in Nat \ {0} /\ Depth < Half /\ Half \in Nat
    BY Constants
  <1>2. IsFiniteSet(held) /\ Cardinality(held) \in Nat
    <2>1. IsFiniteSet(SeqNums)
      BY FS_Interval, Constants DEF SeqNums
    <2> QED
      BY <2>1, FS_Subset, FS_CardinalityType DEF InReach
  <1>3. SeqAdd(last_handled, Depth + 1) \notin held
    <2>1. SeqSub(SeqAdd(last_handled, Depth + 1), last_handled) \in {0, Depth + 1}
      BY <1>1, AddIs
    <2> QED
      BY <1>1, <2>1 DEF InReach
  <1> DEFINE Missing == {m \in 1 .. Depth + 1 : SeqAdd(last_handled, m) \notin held}
  <1>4. PICK m \in Missing : \A j \in Missing : m <= j
    <2>1. Depth + 1 \in Missing /\ Missing \in SUBSET Nat
      BY <1>1, <1>3
    <2> HIDE DEF Missing
    <2> QED
      BY <2>1, LeastIs
  <1>5. PICK n \in 0 .. Depth : n = m - 1
    BY <1>1, <1>4
  <1>6. InARow(held, n)
    <2>1. ASSUME NEW d \in 1 .. n PROVE SeqAdd(last_handled, d) \in held
      <3>1. d \in 1 .. Depth + 1 /\ ~(m <= d)
        BY <1>1, <1>4, <1>5
      <3> QED
        BY <1>4, <3>1
    <2>2. n + 1 = m
      BY <1>1, <1>4, <1>5
    <2> QED
      BY <1>4, <2>1, <2>2 DEF InARow
  <1>7. n <= Cardinality(held)
    <2> DEFINE f == [d \in 1 .. n |-> SeqAdd(last_handled, d)]
    <2>1. \A d \in 1 .. n : f[d] \in held /\ SeqSub(f[d], last_handled) = d
      <3>1. ASSUME NEW d \in 1 .. n PROVE SeqSub(SeqAdd(last_handled, d), last_handled) = d
        <4>1. d \in 0 .. Depth + 1 /\ d <= Depth
          BY <1>1, <1>5
        <4> QED
          BY <4>1, AddIs
      <3> QED
        BY <1>6, <3>1 DEF InARow
    <2> HIDE DEF f
    <2>2. f \in [1 .. n -> held]
      BY <2>1 DEF f
    <2>3. f \in Injection(1 .. n, held)
      BY <2>1, <2>2 DEF Injection, IsInjective
    <2>4. Cardinality(1 .. n) <= Cardinality(held)
      BY <1>2, <2>3, FS_Injection
    <2>5. Cardinality(1 .. n) = n
      BY <1>1, FS_Interval
    <2> QED
      BY <2>4, <2>5
  <1> DEFINE c == Agent!InSequence(held)
  <1>8. c \in 0 .. Cardinality(held) /\ InARow(held, c)
    <2>1. \E x \in 0 .. Cardinality(held) :
             /\ \A d \in 1 .. x : Agent!SeqAdd(last_handled, d) \in held
             /\ Agent!SeqAdd(last_handled, x + 1) \notin held
      BY <1>2, <1>5, <1>6, <1>7, AgentArith DEF InARow
    <2>2. /\ c \in 0 .. Cardinality(held)
          /\ \A d \in 1 .. c : Agent!SeqAdd(last_handled, d) \in held
          /\ Agent!SeqAdd(last_handled, c + 1) \notin held
      BY <2>1, Libraries DEF Agent!InSequence
    <2> QED
      BY <2>2, AgentArith DEF InARow
  <1> HIDE DEF c
  <1>9. c <= Depth
    <2>1. ~(Depth + 1 \in 1 .. c)
      BY <1>3, <1>8 DEF InARow
    <2> QED
      BY <1>1, <1>2, <1>8, <2>1
  <1> QED
    BY <1>2, <1>8, <1>9 DEF c

\* What is left of the messages when n are taken out.
LEMMA TakeOutIs ==
    ASSUME UplinkAssumption, Typed, NEW all, NEW n \in 0 .. Depth,
           DOMAIN all \subseteq SeqNums, \A k \in DOMAIN all : all[k] \in Payloads,
           \A d \in 1 .. n : SeqAdd(last_handled, d) \in DOMAIN all,
           Agent!TakeOut(all, n)
    PROVE  /\ last_handled' = SeqAdd(last_handled, n)
           /\ messages' = [k \in {j \in DOMAIN all : ~\E d \in 1 .. n : j = SeqAdd(last_handled, d)}
                              |-> all[k]]
           /\ Unfinished(fragment')
  <1> DEFINE seqs == [d \in 1 .. n |-> all[Agent!SeqAdd(last_handled, d)]]
             begun == [fragment |-> fragment, out |-> <<>>]
             pieces == FlattenSeq(seqs)
  <1>2. pieces \in Payloads
    <2>1. seqs \in Seq(Payloads)
      BY AgentArith
    <2> HIDE DEF seqs
    <2> QED
      BY <2>1, FlattenSeqIs DEF Payloads
  <1> HIDE DEF pieces, begun, seqs
  <1>3. PICK m \in Nat : m = Len(pieces) /\ \A i \in 1 .. m : pieces[i] \in Client!Pieces
    BY <1>2 DEF Payloads
  <1> DEFINE F(f) == f = [i \in 0 .. Len(pieces) |->
                             IF i = 0 THEN begun ELSE Agent!Process(f[i - 1], pieces[i])]
  <1>4. \E f : F(f)
    <2>1. PICK f : Processes(f, m, pieces, begun)
      BY ProcessesExist
    <2> QED
      BY <1>3, <2>1 DEF Processes
  <1>5. PICK f : F(f) /\ fragment' = f[Len(pieces)].fragment
    BY <1>4, Libraries DEF Agent!TakeOut, pieces, begun, seqs
  <1>6. Processes(f, m, pieces, begun)
    BY <1>3, <1>5 DEF Processes
  <1>7. Unfinished(f[m].fragment)
    <2>1. Unfinished(begun.fragment) /\ begun = [fragment |-> begun.fragment, out |-> begun.out]
      BY DEF Typed, Unfinished, begun
    <2> QED
      BY <1>3, <1>6, <2>1, ProcessesIs
  <1>8. /\ last_handled' = SeqAdd(last_handled, n)
        /\ messages' = [k \in DOMAIN all \ {SeqAdd(last_handled, d) : d \in 1 .. n} |-> all[k]]
    BY AgentArith DEF Agent!TakeOut
  <1>9. DOMAIN all \ {SeqAdd(last_handled, d) : d \in 1 .. n} =
            {j \in DOMAIN all : ~\E d \in 1 .. n : j = SeqAdd(last_handled, d)}
    OBVIOUS
  <1> QED
    BY <1>3, <1>5, <1>7, <1>8, <1>9


----------------------------------------------------------------------------
(* Where the numbers are, seen from the last one acknowledged *)

LEMMA Where ==
    ASSUME UplinkAssumption, last_acknown \in SeqNums
    PROVE  /\ \A k \in SeqNums : Ahead(k) \in 0 .. MaxSeq /\ Wrap(last_acknown + Ahead(k)) = k
           /\ \A d \in 0 .. MaxSeq :
                 Wrap(last_acknown + d) \in SeqNums /\ Ahead(Wrap(last_acknown + d)) = d
           /\ \A j, k \in SeqNums :
                 /\ SeqSub(k, j) = IF Ahead(j) <= Ahead(k) THEN Ahead(k) - Ahead(j)
                                   ELSE Ahead(k) - Ahead(j) + Modulus
                 /\ SeqLt(j, k) <=> SeqSub(k, j) \in 1 .. Half - 1
           /\ Ahead(last_acknown) = 0
           /\ Modulus = 2 * Half /\ MaxSeq = Modulus - 1 /\ Half \in Nat /\ History + 1 <= Half
           /\ History \in Nat \ {0}
  <1>1. ASSUME NEW k \in SeqNums
        PROVE  Ahead(k) \in 0 .. MaxSeq /\ Wrap(last_acknown + Ahead(k)) = k
    BY Constants DEF Ahead, SeqSub, Wrap, SeqNums, Modulus
  <1>2. ASSUME NEW d \in 0 .. MaxSeq
        PROVE  Wrap(last_acknown + d) \in SeqNums /\ Ahead(Wrap(last_acknown + d)) = d
    BY WrapThenSub DEF Ahead
  <1>3. ASSUME NEW j \in SeqNums, NEW k \in SeqNums
        PROVE  /\ SeqSub(k, j) = IF Ahead(j) <= Ahead(k) THEN Ahead(k) - Ahead(j)
                                 ELSE Ahead(k) - Ahead(j) + Modulus
               /\ SeqLt(j, k) <=> SeqSub(k, j) \in 1 .. Half - 1
    <2>1. SeqSub(k, j) = SeqSub(SeqSub(k, last_acknown), SeqSub(j, last_acknown))
      BY Rebase
    <2>2. Ahead(j) \in Int /\ Ahead(k) \in Int
      BY <1>1, Constants
    <2> QED
      BY <2>1, <2>2, LtIsAhead DEF Ahead, SeqSub
  <1> QED
    BY <1>1, <1>2, <1>3, SubRange, Constants DEF Ahead

\* The distance between two numbers that were written is the difference.
LEMMA Apart ==
    ASSUME last_acknown \in SeqNums, NEW j \in SeqNums, NEW k \in SeqNums
    PROVE  /\ Ahead(j) \in Int /\ Ahead(k) \in Int /\ SeqSub(k, j) \in Int
           /\ Ahead(j) <= Ahead(k) => SeqSub(k, j) = Ahead(k) - Ahead(j)
           /\ Ahead(j) > Ahead(k) => SeqSub(k, j) = Ahead(k) - Ahead(j) + 2 * Half
  BY HalfAssumption DEF Ahead, SeqSub, SeqNums, Modulus

\* Each number after the last one acknowledged has a place of its own.
LEMMA Places ==
    ASSUME UplinkAssumption, last_acknown \in SeqNums
    PROVE  /\ \A d \in 1 .. History : Place(d) \in 0 .. History - 1
           /\ \A d, e \in 1 .. History : Place(d) = Place(e) => d = e
           /\ \A i \in 0 .. History - 1 : \E d \in 1 .. History : i = Place(d)
           /\ \A k \in SeqNums : /\ Client!SlotOf(k) = k % History
                                 /\ k % History \in 0 .. History - 1
                                 /\ k % History = Place(Ahead(k))
  <1>1. /\ History \in Nat \ {0} /\ History <= Half /\ Modulus % History = 0
        /\ \A k \in SeqNums : k \in Int
    BY Constants DEF SeqNums
  <1>2. \A k \in SeqNums : k % History \in 0 .. History - 1
    BY <1>1
  <1>3. /\ \A d \in 1 .. History : Place(d) \in 0 .. History - 1
        /\ \A d, e \in 1 .. History : Place(d) = Place(e) => d = e
    BY <1>1, RingInjective DEF Place
  <1>4. \A i \in 0 .. History - 1 : \E d \in 1 .. History : i = Place(d)
    BY <1>1, RingFull DEF Place
  <1>5. \A k \in SeqNums : k % History = Place(Ahead(k))
    BY Where DEF Place
  <1> QED
    BY <1>2, <1>3, <1>4, <1>5 DEF Client!SlotOf

----------------------------------------------------------------------------
(* The beginning *)

\* Nothing was written yet, and nothing waits.
Fresh ==
    /\ slots = [i \in 0 .. History - 1 |-> Client!Free]
    /\ last_written = 0 /\ last_sent = MaxSeq /\ last_acknown = MaxSeq
    /\ messages = Agent!NoMessages
    /\ last_handled = MaxSeq /\ last_announced = MaxSeq
    /\ fragment = <<>>
    /\ network = {}
    /\ acks = <<>>

LEMMA FreshUp == ASSUME UplinkAssumption, Fresh PROVE UpInv
  <1>1. 0 \in SeqNums /\ MaxSeq \in SeqNums
    BY Constants DEF SeqNums
  <1>2. slots \in [0 .. History - 1 -> Buffers]
    BY Constants DEF Fresh, Client!Free, Buffers, Payloads
  <1>3. DOMAIN messages = {}
    BY DEF Fresh, Agent!NoMessages
  <1>4. Typed
    BY <1>1, <1>2, <1>3 DEF Fresh, Typed, Client!Free, Payloads
  <1>5. Ahead(last_written) = 1 /\ Ahead(last_sent) = 0 /\ Ahead(last_handled) = 0
    BY Constants DEF Fresh, Ahead, SeqSub
  <1>6. OrderInv
    BY <1>5, Constants DEF OrderInv
  <1>7. SlotsInv
    BY <1>1, <1>5, Places DEF SlotsInv, Fresh, Client!Free
  <1> QED
    BY <1>3, <1>4, <1>6, <1>7
       DEF UpInv, HeldInv, AcksInv, PacketsInv, ContentInv, Fresh

LEMMA InitUp == ASSUME UplinkAssumption, Init PROVE UpInv
  <1>1. Fresh
    BY AgentArith, ClientArith DEF Init, Client!Init, Agent!Init, Fresh, Client!MaxSeq
  <1> QED
    BY <1>1, FreshUp

\* Where nothing is left of the session before, the next one begins as the
\* first did.
LEMMA RestartUp == ASSUME UplinkAssumption, Drained, UpInv, Restart PROVE UpInv'
  <1>1. Fresh'
    BY AgentArith, ClientArith DEF Restart, Client!Reset, Agent!Reset, Fresh
  <1> QED
    BY <1>1, FreshUp, PTL

----------------------------------------------------------------------------
(* The Client sends. *)

\* What sends, leaves of the packets those that were there and those sent.
LEMMA TransmitIs ==
    ASSUME NEW sent, network' \in Fates(network, sent, InFlight)
    PROVE  network' \subseteq network \cup sent
  BY DEF Fates

\* The messages that are sent next: all that were written, or as many as the
\* history takes.
LEMMA UnsentIs ==
    ASSUME UplinkAssumption
    PROVE  /\ Client!Unsent \in 0 .. History
           /\ \A d \in 1 .. Client!Unsent : Client!Sendable(d)
  <1>1. History \in Nat
    BY Constants
  <1> DEFINE Missing == {d \in 1 .. History : ~Client!Sendable(d)}
  <1>2. \E n \in 0 .. History :
            /\ \A d \in 1 .. n : Client!Sendable(d)
            /\ n = History \/ ~Client!Sendable(n + 1)
    <2>1. CASE Missing = {}
      <3>1. \A d \in 1 .. History : Client!Sendable(d)
        BY <2>1
      <3> QED
        BY <1>1, <3>1
    <2>2. CASE Missing # {}
      <3>1. Missing \in SUBSET Nat
        OBVIOUS
      <3>2. PICK m \in Missing : \A d \in Missing : m <= d
        <4> HIDE DEF Missing
        <4> QED
          BY <2>2, <3>1, LeastIs
      <3>3. PICK n \in 0 .. History : n = m - 1
        BY <1>1, <3>2
      <3>4. \A d \in 1 .. n : d \in 1 .. History /\ ~(m <= d)
        BY <1>1, <3>2, <3>3
      <3>5. \A d \in 1 .. n : Client!Sendable(d)
        BY <3>2, <3>4
      <3>6. ~Client!Sendable(n + 1)
        <4>1. n + 1 = m
          BY <3>2, <3>3
        <4> QED
          BY <3>2, <4>1
      <3> QED
        BY <3>5, <3>6
    <2> QED
      BY <2>1, <2>2
  <1> QED
    BY <1>2 DEF Client!Unsent

\* A message is sent once it was written, and is in the history.
LEMMA SendableIs ==
    ASSUME UplinkAssumption, Typed, OrderInv, NEW n \in 1 .. History,
           \A d \in 1 .. n : Client!Sendable(d)
    PROVE  /\ Ahead(last_sent) + n <= History
           /\ Ahead(last_sent) + n <= Ahead(last_written)
           /\ \A d \in 1 .. n :
                 /\ ClientAdd(last_sent, d) \in SeqNums
                 /\ Ahead(ClientAdd(last_sent, d)) = Ahead(last_sent) + d
           /\ slots[Place(Ahead(last_sent) + n)].size # 0
  <1>1. /\ last_sent \in SeqNums /\ last_written \in SeqNums /\ last_acknown \in SeqNums
        /\ \A k \in SeqNums : k \in Int
    BY Constants DEF Typed, SeqNums
  <1>2. Ahead(last_sent) \in 0 .. History
    BY <1>1, Scale DEF OrderInv, Ahead, SeqSub, Wrap, SeqNums, Modulus, MaxSeq
  <1>3. ASSUME NEW d \in 0 .. History
        PROVE  /\ ClientAdd(last_sent, d) \in SeqNums
               /\ Ahead(ClientAdd(last_sent, d)) = Ahead(last_sent) + d
    <2>1. ClientAdd(last_sent, d) \in SeqNums /\ SeqSub(ClientAdd(last_sent, d), last_sent) = d
      BY <1>1, Scale DEF ClientAdd, Ahead, SeqSub, Wrap, SeqNums, Modulus, MaxSeq
    <2> QED
      BY <1>1, <1>2, <2>1, Scale DEF Ahead, SeqSub, Wrap, SeqNums, Modulus, MaxSeq
  <1>4. ASSUME NEW d \in 1 .. n
        PROVE  /\ Ahead(last_sent) + (d - 1) # History
               /\ \/ ClientAdd(last_sent, d) = last_written
                  \/ SeqLt(ClientAdd(last_sent, d), last_written)
               /\ slots[ClientAdd(last_sent, d) % History].size # 0
    <2>1. d - 1 \in 0 .. History
      BY Scale
    <2> QED
      BY <1>3, <2>1, ClientArith
         DEF Client!Sendable, Client!IsFree, Client!SlotOf, Ahead, ClientAdd
  <1>5. Ahead(last_sent) + n <= History
    <2>1. SUFFICES ASSUME Ahead(last_sent) + n > History PROVE FALSE
      BY <1>2, Scale DEF Ahead, SeqSub, Wrap, SeqNums, Modulus, MaxSeq
    <2>2. PICK d \in 1 .. n : d = History - Ahead(last_sent) + 1
      BY <1>2, <2>1, Scale DEF Ahead, SeqSub, Wrap, SeqNums, Modulus, MaxSeq
    <2> QED
      BY <1>2, <1>4, <2>2, Scale DEF Ahead, SeqSub, Wrap, SeqNums, Modulus, MaxSeq
  <1>6. Ahead(last_sent) + n <= Ahead(last_written)
    <2>1. ClientAdd(last_sent, n) = last_written \/ SeqLt(ClientAdd(last_sent, n), last_written)
      BY <1>4
    <2>2. n \in 0 .. History
      OBVIOUS
    <2>3. SeqSub(last_written, ClientAdd(last_sent, n)) < Half
      BY <1>1, <1>3, <2>1, <2>2, Scale, HalfAssumption DEF SeqLt, SeqSub, SeqNums, Modulus
    <2> QED
      BY <1>1, <1>2, <1>3, <1>5, <2>2, <2>3, Scale
         DEF Ahead, SeqSub, Wrap, SeqNums, Modulus, MaxSeq
  <1>7. slots[Place(Ahead(last_sent) + n)].size # 0
    BY <1>1, <1>3, <1>4, Places
  <1> QED
    BY <1>3, <1>5, <1>6, <1>7, Scale

LEMMA FlashUp == ASSUME UplinkAssumption, UpInv, Flash PROVE UpInv'
  <1>1. /\ Typed /\ OrderInv /\ SlotsInv /\ HeldInv /\ AcksInv /\ PacketsInv /\ ContentInv
        /\ UNCHANGED <<slots, last_acknown, messages, last_handled, last_announced, fragment, acks>>
    BY DEF UpInv, Flash, Client!Flash, AgentIdle
  <1>2. /\ last_written \in SeqNums /\ last_sent \in SeqNums /\ last_acknown \in SeqNums
        /\ last_handled \in SeqNums
    BY <1>1 DEF Typed
  <1>3. PICK n \in 1 .. History :
            /\ n = Client!Unsent /\ \A d \in 1 .. n : Client!Sendable(d)
            /\ last_sent' = ClientAdd(last_sent, n)
            /\ last_written' = IF last_sent' = last_written THEN Wrap(last_written + 1)
                               ELSE last_written
    <2>1. Client!Unsent \in 0 .. History /\ Client!Unsent > 0
      BY UnsentIs DEF Flash, Client!Flash
    <2> QED
      BY <2>1, UnsentIs, ClientArith DEF Flash, Client!Flash, ClientAdd
  <1>4. PICK s \in 0 .. History, w \in 1 .. History + 1 :
            s = Ahead(last_sent) /\ w = Ahead(last_written) /\ s < w
    BY <1>1, <1>2, Scale DEF OrderInv, Ahead, SeqSub, Wrap, SeqNums, Modulus, MaxSeq
  <1>5. /\ s + n <= History /\ s + n <= w
        /\ \A d \in 1 .. n : /\ ClientAdd(last_sent, d) \in SeqNums
                             /\ Ahead(ClientAdd(last_sent, d)) = s + d
        /\ slots[Place(s + n)].size # 0
    BY <1>1, <1>3, <1>4, SendableIs
  <1>6. PICK v \in 0 .. 1 :
            /\ v = (IF s + n = w THEN 1 ELSE 0)
            /\ last_written' \in SeqNums /\ Ahead(last_written') = w + v
            /\ last_sent' \in SeqNums /\ Ahead(last_sent') = s + n
    <2>1. last_sent' \in SeqNums /\ Ahead(last_sent') = s + n
      BY <1>3, <1>5
    <2>2. last_sent' = last_written <=> s + n = w
      BY <1>2, <1>4, <2>1, Scale DEF Ahead, SeqSub, Wrap, SeqNums, Modulus, MaxSeq
    <2>3. CASE s + n = w
      <3>1. last_written' = Wrap(last_written + 1)
        BY <1>3, <2>2, <2>3
      <3>2. last_written' \in SeqNums /\ SeqSub(last_written', last_written) = 1
        BY <1>2, <3>1, Scale DEF Ahead, SeqSub, Wrap, SeqNums, Modulus, MaxSeq
      <3>3. Ahead(last_written') = w + 1
        BY <1>2, <1>4, <3>1, Scale DEF Ahead, SeqSub, Wrap, SeqNums, Modulus
      <3> QED
        BY <2>1, <2>3, <3>2, <3>3
    <2>4. CASE s + n # w
      BY <1>2, <1>3, <1>4, <2>1, <2>2, <2>4
    <2> QED
      BY <2>3, <2>4
  <1>7. \A k : Ahead(k)' = SeqSub(k', last_acknown)
    BY <1>1 DEF Ahead
  <1>8. /\ last_acknown' = last_acknown /\ last_handled' = last_handled
        /\ SeqSub(last_written', last_acknown') = w + v
        /\ SeqSub(last_sent', last_acknown') = s + n
        /\ SeqSub(last_handled', last_acknown') = Ahead(last_handled)
    BY <1>1, <1>6 DEF Ahead
  <1>9. OrderInv'
    BY <1>1, <1>2, <1>4, <1>5, <1>6, <1>8, Scale
       DEF OrderInv, Ahead, SeqSub, Wrap, SeqNums, Modulus, MaxSeq
  <1>10. SlotsInv'
    <2>1. \A d \in 1 .. History : slots'[Wrap(last_acknown' + d) % History] = slots[Place(d)]
      BY <1>1 DEF Place
    <2> QED
      BY <1>1, <1>4, <1>5, <1>6, <1>8, <2>1 DEF SlotsInv, Place, Ahead
  <1>11. HeldInv'
    <2>1. /\ SeqSub(last_sent, last_handled) \in Int
          /\ SeqSub(last_sent, last_handled) <= SeqSub(last_sent', last_handled)
      BY <1>1, <1>2, <1>4, <1>5, <1>6, Scale
         DEF OrderInv, Ahead, SeqSub, Wrap, SeqNums, Modulus, MaxSeq
    <2>2. SeqSub(last_sent', last_handled) \in Int
      BY <1>2, <1>6, Apart
    <2>3. ASSUME NEW k \in DOMAIN messages PROVE SeqSub(k, last_handled) \in Int
      BY <1>1, <1>2, Apart DEF Typed
    <2> QED
      BY <1>1, <2>1, <2>2, <2>3 DEF HeldInv
  <1>12. AcksInv'
    BY <1>1 DEF AcksInv, Ahead, Acknowledged
  <1>13. ASSUME NEW p \in network'
         PROVE  \/ p \in network
                \/ \E d \in 1 .. n : /\ p.type = "DATA" /\ p.num = ClientAdd(last_sent, d)
                                     /\ p.msg = slots[p.num % History].pieces
    <2>1. network' \subseteq network \cup {Data(ClientAdd(last_sent, d)) : d \in 1 .. n}
      BY <1>3, TransmitIs DEF Flash, Transmit
    <2>2. CASE p \in {Data(ClientAdd(last_sent, d)) : d \in 1 .. n}
      <3>1. PICK d \in 1 .. n : p = Data(ClientAdd(last_sent, d))
        BY <2>2
      <3>2. Client!SlotOf(ClientAdd(last_sent, d)) = ClientAdd(last_sent, d) % History
        BY DEF Client!SlotOf
      <3> QED
        BY <3>1, <3>2 DEF Data
    <2> QED
      BY <2>1, <2>2
  <1>14. ASSUME NEW p \in network', p \notin network
         PROVE  /\ DataOK(p) /\ Ahead(p.num) \in s + 1 .. s + n
                /\ p.msg = slots[p.num % History].pieces
    <2>1. PICK d \in 1 .. n : /\ p.type = "DATA" /\ p.num = ClientAdd(last_sent, d)
                              /\ p.msg = slots[p.num % History].pieces
      BY <1>13, <1>14
    <2>2. p.num \in SeqNums /\ Ahead(p.num) = s + d
      BY <1>5, <2>1
    <2>3. p.num % History \in 0 .. History - 1
      BY <1>2, <2>2, Places
    <2>4. p.msg \in Payloads
      BY <1>1, <2>1, <2>3 DEF Typed, Buffers
    <2> QED
      BY <1>4, <2>1, <2>2, <2>4 DEF DataOK
  <1>15. Typed'
    <2>1. \A p \in network' : DataOK(p) \/ HeartbeatOK(p)
      BY <1>1, <1>14 DEF Typed
    <2> QED
      BY <1>1, <1>6, <2>1 DEF Typed
  <1>16. PacketsInv'
    <2>1. ASSUME NEW p \in network', p \in network
          PROVE  /\ NumberOf(p) \in SeqNums
                 /\ SeqSub(last_written', NumberOf(p)) < Half
                 /\ p.type = "DATA" => SeqSub(last_written', p.num) >= SeqSub(last_written', last_sent')
                 /\ p.type = "HEARTBEAT" => SeqSub(last_written', p.window.first) >= w + v - 1
      <3>1. /\ NumberOf(p) \in SeqNums
            /\ NumberOf(p) = IF p.type = "DATA" THEN p.num ELSE p.window.first
        BY <1>1, <2>1 DEF Typed, DataOK, HeartbeatOK, NumberOf
      <3>2. SeqSub(last_written', NumberOf(p)) < Half
        BY <1>2, <1>6, <3>1, Apart, Scale DEF Flash, Old
      <3>3. SeqSub(last_written, NumberOf(p)) < Half
        BY <1>1, <2>1 DEF PacketsInv, Age
      <3>4. SeqSub(last_written', NumberOf(p)) = SeqSub(last_written, NumberOf(p)) + v
        <4>1. PICK j \in Nat, a \in Nat, b \in Nat :
                  /\ j = Ahead(NumberOf(p)) /\ a = SeqSub(last_written, NumberOf(p))
                  /\ b = SeqSub(last_written', NumberOf(p))
          <5>1. \A k, m \in SeqNums : SeqSub(k, m) \in Nat
            BY SubRange, Constants
          <5> QED
            BY <1>2, <1>6, <3>1, <5>1 DEF Ahead
        <4>2. /\ j <= w => a = w - j
              /\ j > w => a = w - j + 2 * Half
              /\ j <= w + v => b = w + v - j
              /\ j > w + v => b = w + v - j + 2 * Half
          BY <1>2, <1>4, <1>6, <3>1, <4>1, Apart
        <4> QED
          BY <1>4, <1>6, <3>2, <3>3, <4>1, <4>2, Scale
      <3>5. CASE p.type = "DATA"
        <4>1. SeqSub(last_written, NumberOf(p)) >= w - s
          <5>1. SeqSub(last_written, last_sent) = w - s
            BY <1>2, <1>4, Scale DEF Ahead, SeqSub, Wrap, SeqNums, Modulus, MaxSeq
          <5> QED
            BY <1>1, <2>1, <3>1, <3>5, <5>1 DEF PacketsInv, Age
        <4>2. SeqSub(last_written', last_sent') = w + v - (s + n)
          BY <1>2, <1>4, <1>5, <1>6, Apart
        <4>3. SeqSub(last_written, NumberOf(p)) \in Int
          BY <1>2, <3>1, Scale DEF Ahead, SeqSub, Wrap, SeqNums, Modulus, MaxSeq
        <4> QED
          BY <1>4, <3>1, <3>2, <3>4, <3>5, <4>1, <4>2, <4>3
      <3>6. CASE p.type # "DATA"
        <4>1. p.type = "HEARTBEAT" => SeqSub(last_written, NumberOf(p)) >= w - 1
          BY <1>1, <1>4, <2>1, <3>1, <3>6 DEF PacketsInv, Age
        <4>2. SeqSub(last_written, NumberOf(p)) \in Int
          BY <1>2, <3>1, Scale DEF Ahead, SeqSub, Wrap, SeqNums, Modulus, MaxSeq
        <4> QED
          BY <1>4, <3>1, <3>2, <3>4, <3>6, <4>1, <4>2
      <3> QED
        BY <3>5, <3>6
    <2>2. ASSUME NEW p \in network', p \notin network
          PROVE  /\ p.type = "DATA" /\ NumberOf(p) = p.num
                 /\ SeqSub(last_written', NumberOf(p)) < Half
                 /\ SeqSub(last_written', p.num) >= SeqSub(last_written', last_sent')
      <3>1. p.type = "DATA" /\ p.num \in SeqNums /\ Ahead(p.num) \in s + 1 .. s + n
        BY <1>14, <2>2 DEF DataOK
      <3>2. SeqSub(last_written', NumberOf(p)) < Half
        BY <1>2, <1>6, <3>1, Apart, Scale DEF Flash, Old, NumberOf
      <3>3. SeqSub(last_written', p.num) = w + v - Ahead(p.num)
        <4>1. Ahead(p.num) <= Ahead(last_written')
          BY <1>4, <1>5, <1>6, <3>1, Scale
        <4>2. p.num \in SeqNums /\ last_written' \in SeqNums /\ last_acknown \in SeqNums
          BY <1>2, <1>6, <3>1
        <4>3. SeqSub(last_written', p.num) = Ahead(last_written') - Ahead(p.num)
          BY <4>1, <4>2, Apart
        <4> QED
          BY <1>6, <4>2, <4>3, Apart, Scale
      <3>4. SeqSub(last_written', last_sent') = w + v - (s + n)
        BY <1>2, <1>4, <1>5, <1>6, Apart
      <3> QED
        BY <1>4, <3>1, <3>2, <3>3, <3>4 DEF NumberOf
    <2>3. \A p \in network' :
              /\ SeqSub(last_written', NumberOf(p)) < Half
              /\ p.type = "DATA" => SeqSub(last_written', p.num) >= SeqSub(last_written', last_sent')
              /\ p.type = "HEARTBEAT" =>
                    SeqSub(last_written', p.window.first) >= SeqSub(last_written', last_acknown') - 1
      BY <1>8, <2>1, <2>2
    <2> QED
      BY <2>3 DEF PacketsInv, Age, Ahead, NumberOf
  <1>17. ContentInv'
    <2>1. ASSUME NEW p \in network', p.type = "DATA", SeqSub(p.num, last_acknown) \in 1 .. s + n
          PROVE  p.msg = slots[p.num % History].pieces
      <3>1. CASE p \in network
        <4>1. p.num \in SeqNums /\ SeqSub(last_written, p.num) >= SeqSub(last_written, last_sent)
          BY <1>1, <2>1, <3>1 DEF Typed, DataOK, HeartbeatOK, PacketsInv, Age
        <4>2. Ahead(p.num) \in 1 .. s + n
          BY <2>1 DEF Ahead
        <4>3. Ahead(p.num) \in 1 .. s
          BY <1>2, <1>4, <1>5, <4>1, <4>2, Scale
             DEF Ahead, SeqSub, Wrap, SeqNums, Modulus, MaxSeq
        <4> QED
          BY <1>1, <1>4, <2>1, <3>1, <4>3 DEF ContentInv
      <3>2. CASE p \notin network
        BY <1>14, <3>2
      <3> QED
        BY <3>1, <3>2
    <2> QED
      BY <1>1, <1>8, <2>1 DEF ContentInv, Ahead
  <1> QED
    BY <1>9, <1>10, <1>11, <1>12, <1>15, <1>16, <1>17 DEF UpInv

LEMMA SendHeartbeatUp == ASSUME UplinkAssumption, UpInv, SendHeartbeat PROVE UpInv'
  <1>1. /\ Typed /\ OrderInv /\ SlotsInv /\ HeldInv /\ AcksInv /\ PacketsInv /\ ContentInv
        /\ UNCHANGED <<slots, last_written, last_sent, last_acknown>>
        /\ UNCHANGED <<messages, last_handled, last_announced, fragment, acks>>
    BY DEF UpInv, SendHeartbeat, clientVars, AgentIdle
  <1>2. last_written \in SeqNums /\ last_sent \in SeqNums /\ last_acknown \in SeqNums
    BY <1>1 DEF Typed
  <1>3. ASSUME NEW p \in network', p \notin network
        PROVE  /\ p.type = "HEARTBEAT"
               /\ p.window.first = Wrap(last_acknown + 1) /\ p.window.last = last_sent
    <2>1. p = Heartbeat
      BY <1>3, TransmitIs DEF SendHeartbeat, Transmit
    <2> QED
      BY <2>1, ClientArith DEF Heartbeat, Client!HeartbeatWindow
  <1>4. /\ Wrap(last_acknown + 1) \in SeqNums
        /\ Age(Wrap(last_acknown + 1)) = Ahead(last_written) - 1
        /\ Ahead(last_written) \in 1 .. History + 1
    <2>1. Ahead(last_written) \in 1 .. History + 1
      BY <1>1, <1>2, Scale DEF OrderInv, Ahead, SeqSub, SeqNums, Modulus
    <2>2. Wrap(last_acknown + 1) \in SeqNums /\ Ahead(Wrap(last_acknown + 1)) = 1
      BY <1>2, Scale DEF Ahead, SeqSub, Wrap, SeqNums, Modulus
    <2> QED
      BY <1>2, <2>1, <2>2, Apart DEF Age
  <1>5. ASSUME NEW p \in network', p \notin network
        PROVE  /\ HeartbeatOK(p) /\ NumberOf(p) = p.window.first
               /\ Age(p.window.first) < Half /\ Age(p.window.first) >= Ahead(last_written) - 1
    BY <1>2, <1>3, <1>4, <1>5, Scale DEF HeartbeatOK, NumberOf
  <1>6. Typed'
    <2>1. \A p \in network' : DataOK(p) \/ HeartbeatOK(p)
      BY <1>1, <1>5 DEF Typed
    <2> QED
      BY <1>1, <2>1 DEF Typed
  <1>7. PacketsInv'
    <2>1. \A p \in network' :
              /\ Age(NumberOf(p)) < Half
              /\ p.type = "DATA" => Age(p.num) >= Age(last_sent)
              /\ p.type = "HEARTBEAT" => Age(p.window.first) >= Ahead(last_written) - 1
      BY <1>1, <1>3, <1>5 DEF PacketsInv
    <2> QED
      BY <1>1, <2>1 DEF PacketsInv, Age, Ahead, NumberOf
  <1>8. OrderInv' /\ SlotsInv' /\ HeldInv' /\ AcksInv'
    BY <1>1 DEF OrderInv, SlotsInv, HeldInv, AcksInv, Acknowledged, Ahead, Place
  <1>9. ContentInv'
    <2>1. \A p \in network' : p.type = "DATA" => p \in network
      BY <1>3
    <2> QED
      BY <1>1, <2>1 DEF ContentInv, Ahead
  <1> QED
    BY <1>6, <1>7, <1>8, <1>9 DEF UpInv

----------------------------------------------------------------------------
(* An ACKNACK arrives. *)

LEMMA SequencesAre ==
    ASSUME NEW S, NEW q \in Seq(S)
    PROVE  /\ Len(q) \in Nat /\ DOMAIN q = 1 .. Len(q)
           /\ \A i \in DOMAIN q : q[i] \in S
           /\ \A i \in DOMAIN q :
                 LET rest == SubSeq(q, i + 1, Len(q))
                 IN  /\ rest \in Seq(S)
                     /\ \A j \in DOMAIN rest : i + j \in DOMAIN q /\ rest[j] = q[i + j]
  OBVIOUS

LEMMA AcksAre ==
    ASSUME Typed
    PROVE  /\ Len(acks) \in Nat /\ DOMAIN acks = 1 .. Len(acks)
           /\ \A i \in DOMAIN acks : acks[i].first \in SeqNums
  <1>1. Len(acks) \in Nat /\ DOMAIN acks = 1 .. Len(acks) /\ \A i \in DOMAIN acks : acks[i] \in Acks
    BY SequencesAre DEF Typed
  <1> QED
    BY <1>1 DEF Acks

\* Where things are once n more numbers are acknowledged.
LEMMA Acknowledging ==
    ASSUME UplinkAssumption, last_acknown \in SeqNums, NEW n \in 0 .. History,
           last_acknown' = Wrap(last_acknown + n)
    PROVE  /\ last_acknown' \in SeqNums
           /\ \A k \in SeqNums : Ahead(k) >= n => SeqSub(k, last_acknown') = Ahead(k) - n
           /\ \A k \in SeqNums :
                 SeqSub(k, last_acknown') <= History /\ Ahead(k) < n => Ahead(k) + Modulus - n <= History
           /\ \A d \in 1 .. History :
                 Wrap(last_acknown' + d) % History =
                     IF n + d <= History THEN Place(n + d) ELSE Place(n + d - History)
  <1>1. last_acknown' \in SeqNums
    BY Scale DEF Wrap, SeqNums, Modulus
  <1>2. ASSUME NEW k \in SeqNums
        PROVE  /\ Ahead(k) >= n => SeqSub(k, last_acknown') = Ahead(k) - n
               /\ Ahead(k) < n => SeqSub(k, last_acknown') = Ahead(k) + Modulus - n
    BY Scale DEF Ahead, SeqSub, Wrap, SeqNums, Modulus
  <1>3. \A d \in 1 .. History :
            Wrap(last_acknown' + d) % History =
                IF n + d <= History THEN Place(n + d) ELSE Place(n + d - History)
    <2>1. History \in Nat \ {0} /\ History <= Half /\ Modulus % History = 0
      BY Constants
    <2> QED
      BY <2>1, RingMoves DEF Place
  <1> QED
    BY <1>1, <1>2, <1>3

\* An ACKNACK frees the slots of the n messages it acknowledges for the first
\* time.
Frees(i, n) ==
    /\ n = Ahead(Acknowledged(i)) /\ n <= Ahead(last_handled)
    /\ last_acknown' = Wrap(last_acknown + n)
    /\ \A d \in 1 .. History : slots'[Place(d)] = IF d <= n THEN Client!Free ELSE slots[Place(d)]
    /\ DOMAIN slots' = 0 .. History - 1
    /\ \A j \in 0 .. History - 1 : slots'[j] = Client!Free \/ slots'[j] = slots[j]

LEMMA AcknackFrees ==
    ASSUME UplinkAssumption, ~Reorders, UpInv, NEW i \in DOMAIN acks, ReceiveAcknack(i)
    PROVE  \E n \in 0 .. History : Frees(i, n)
  <1> DEFINE f == Acknowledged(i)
  <1>1. Typed /\ OrderInv /\ AcksInv /\ last_acknown' = f
    BY ClientArith DEF UpInv, ReceiveAcknack, Client!ProcessAcknack, Acknowledged
  <1>2. /\ last_written \in SeqNums /\ last_sent \in SeqNums /\ last_acknown \in SeqNums
        /\ last_handled \in SeqNums /\ f \in SeqNums
    <2>2. acks[i].first \in SeqNums
      BY <1>1, AcksAre
    <2>3. SeqSub(acks[i].first, 1) \in SeqNums
      BY <2>2, Scale DEF SeqSub, SeqNums, Modulus
    <2> QED
      BY <1>1, <2>3 DEF Typed, Acknowledged
  <1> HIDE DEF f
  <1>3. PICK n \in 0 .. History : n = Ahead(f) /\ n <= Ahead(last_handled)
    <2>1. Ahead(f) <= Ahead(last_handled)
      BY <1>1 DEF AcksInv, f
    <2>2. Ahead(f) \in Nat /\ Ahead(last_handled) \in Nat /\ Ahead(last_sent) \in Nat
      BY <1>2, Scale DEF Ahead, SeqSub, SeqNums, Modulus
    <2> QED
      BY <1>1, <2>1, <2>2, Scale DEF OrderInv
  <1>4. last_acknown' = Wrap(last_acknown + n)
    BY <1>1, <1>2, <1>3, Where
  <1>5. /\ \A d \in 1 .. History : slots'[Place(d)] = IF d <= n THEN Client!Free ELSE slots[Place(d)]
        /\ DOMAIN slots' = 0 .. History - 1
        /\ \A j \in 0 .. History - 1 : slots'[j] = Client!Free \/ slots'[j] = slots[j]
    <2>1. SeqSub(SeqSub(acks[i].first, 1), last_acknown) = n
      BY <1>3 DEF Ahead, Acknowledged, f
    <2>2. slots' = [j \in 0 .. History - 1 |->
                       IF \E d \in 1 .. n : j = Place(d) THEN Client!Free ELSE slots[j]]
      BY <2>1, ClientArith
         DEF ReceiveAcknack, Client!ProcessAcknack, Client!SlotOf, Place
    <2>3. ASSUME NEW d \in 1 .. History
          PROVE  slots'[Place(d)] = IF d <= n THEN Client!Free ELSE slots[Place(d)]
      <3>1. /\ Place(d) \in 0 .. History - 1
            /\ (\E e \in 1 .. n : Place(d) = Place(e)) <=> d \in 1 .. n
        <4>1. 1 .. n \subseteq 1 .. History
          BY Scale
        <4> QED
          BY <1>2, <4>1, Places
      <3>2. d \in 1 .. n <=> d <= n
        BY Scale
      <3>3. PICK e \in 0 .. History - 1 : e = Place(d)
        BY <3>1
      <3>4. slots'[e] = IF \E c \in 1 .. n : e = Place(c) THEN Client!Free ELSE slots[e]
        BY <2>2
      <3> QED
        BY <3>1, <3>2, <3>3, <3>4
    <2> QED
      BY <2>2, <2>3
  <1> QED
    BY <1>3, <1>4, <1>5 DEF Frees, f

LEMMA ReceiveAcknackUp ==
    ASSUME UplinkAssumption, ~Reorders, UpInv, NEW i \in DOMAIN acks, ReceiveAcknack(i)
    PROVE  UpInv'
  <1> DEFINE f == Acknowledged(i)
  <1>1. /\ Typed /\ OrderInv /\ SlotsInv /\ HeldInv /\ AcksInv /\ PacketsInv /\ ContentInv
        /\ UNCHANGED <<last_written, last_sent>>
        /\ UNCHANGED <<messages, last_handled, last_announced, fragment>>
        /\ last_acknown' = f
    BY ClientArith DEF UpInv, ReceiveAcknack, Client!ProcessAcknack, AgentIdle, Acknowledged
  <1>2. /\ last_written \in SeqNums /\ last_sent \in SeqNums /\ last_acknown \in SeqNums
        /\ last_handled \in SeqNums /\ f \in SeqNums
    <2>2. acks[i].first \in SeqNums
      BY <1>1, AcksAre
    <2>3. SeqSub(acks[i].first, 1) \in SeqNums
      BY <2>2, Scale DEF SeqSub, SeqNums, Modulus
    <2> QED
      BY <1>1, <2>3 DEF Typed, Acknowledged
  <1> HIDE DEF f
  <1>3. PICK n \in 0 .. History, h \in 0 .. History, s \in 0 .. History, w \in 1 .. History + 1 :
            /\ n = Ahead(f) /\ h = Ahead(last_handled)
            /\ s = Ahead(last_sent) /\ w = Ahead(last_written)
            /\ n <= h /\ h <= s /\ s < w
    <2>1. Ahead(f) <= Ahead(last_handled)
      BY <1>1 DEF AcksInv, f
    <2>2. /\ Ahead(f) \in Nat /\ Ahead(last_handled) \in Nat
          /\ Ahead(last_sent) \in Nat /\ Ahead(last_written) \in Nat
      BY <1>2, Scale DEF Ahead, SeqSub, SeqNums, Modulus
    <2> QED
      BY <1>1, <2>1, <2>2, Scale DEF OrderInv
  <1>4. last_acknown' = Wrap(last_acknown + n)
    BY <1>1, <1>2, <1>3, Where
  <1>5. /\ last_acknown' \in SeqNums
        /\ \A k \in SeqNums : Ahead(k) >= n => SeqSub(k, last_acknown') = Ahead(k) - n
        /\ SeqSub(last_handled', last_acknown') = h - n
        /\ SeqSub(last_sent', last_acknown') = s - n
        /\ SeqSub(last_written', last_acknown') = w - n
    <2>1. last_acknown' \in SeqNums
      BY <1>2, <1>4, Acknowledging
    <2>2. \A k \in SeqNums : Ahead(k) >= n => SeqSub(k, last_acknown') = Ahead(k) - n
      BY <1>2, <1>4, Acknowledging
    <2>3. Ahead(last_handled) >= n /\ Ahead(last_sent) >= n /\ Ahead(last_written) >= n
      BY <1>3, Scale
    <2> QED
      BY <1>1, <1>2, <1>3, <2>1, <2>2, <2>3
  <1>6. /\ \A d \in 1 .. History : slots'[Place(d)] = IF d <= n THEN Client!Free ELSE slots[Place(d)]
        /\ DOMAIN slots' = 0 .. History - 1
        /\ \A j \in 0 .. History - 1 : slots'[j] = Client!Free \/ slots'[j] = slots[j]
    <2>1. PICK m \in 0 .. History : Frees(i, m)
      BY AcknackFrees
    <2> QED
      BY <1>3, <2>1 DEF Frees, f
  <1>7. OrderInv'
    <2>1. /\ SeqSub(last_handled', last_acknown') <= SeqSub(last_sent', last_acknown')
          /\ SeqSub(last_sent', last_acknown') <= History
          /\ SeqSub(last_sent', last_acknown') < SeqSub(last_written', last_acknown')
          /\ SeqSub(last_written', last_acknown') <= History + 1
      BY <1>3, <1>5, Scale
    <2> QED
      BY <2>1 DEF OrderInv, Ahead
  <1>8. SlotsInv'
    <2>1. ASSUME NEW d \in 1 .. History
          PROVE  /\ d < w - n => slots'[Wrap(last_acknown' + d) % History].size # 0
                 /\ d > w - n => slots'[Wrap(last_acknown' + d) % History].size = 0
      <3>1. CASE n + d <= History
        <4>1. Wrap(last_acknown' + d) % History = Place(n + d)
          BY <1>2, <1>4, <3>1, Acknowledging
        <4>2. n + d \in 1 .. History /\ ~(n + d <= n)
          BY <3>1, Scale
        <4>3. slots'[Place(n + d)] = slots[Place(n + d)]
          BY <1>6, <4>2
        <4>4. /\ n + d < w => slots[Place(n + d)].size # 0
              /\ n + d > w => slots[Place(n + d)].size = 0
          BY <1>1, <1>3, <4>2 DEF SlotsInv
        <4> QED
          BY <1>3, <4>1, <4>3, <4>4, Scale
      <3>2. CASE ~(n + d <= History)
        <4>1. Wrap(last_acknown' + d) % History = Place(n + d - History)
          BY <1>2, <1>4, <3>2, Acknowledging
        <4>2. n + d - History \in 1 .. History /\ n + d - History <= n
          BY <3>2, Scale
        <4>3. slots'[Place(n + d - History)].size = 0
          BY <1>6, <4>2 DEF Client!Free
        <4>4. ~(d < w - n)
          BY <1>3, <3>2, Scale
        <4> QED
          BY <4>1, <4>3, <4>4
      <3> QED
        BY <3>1, <3>2
    <2> QED
      BY <1>5, <2>1 DEF SlotsInv, Ahead, Place
  <1>9. HeldInv'
    BY <1>1 DEF HeldInv
  <1>10. /\ acks' \in Seq(Acks)
         /\ \A j \in DOMAIN acks' : i + j \in DOMAIN acks /\ acks'[j] = acks[i + j]
    <2>1. acks' = SubSeq(acks, i + 1, Len(acks)) /\ i \in 1 .. Len(acks)
      BY <1>1, AcksAre DEF ReceiveAcknack, Arrives
    <2> QED
      BY <1>1, <2>1, SequencesAre DEF Typed
  <1>11. AcksInv'
    <2>1. ASSUME NEW j \in DOMAIN acks'
          PROVE  /\ i + j \in DOMAIN acks
                 /\ SeqSub(SeqSub(acks'[j].first, 1), last_acknown') = Ahead(Acknowledged(i + j)) - n
                 /\ Ahead(Acknowledged(i + j)) \in Int
                 /\ SeqSub(SeqSub(acks'[j].first, 1), last_acknown') <= h - n
      <3>1. i + j \in DOMAIN acks /\ acks'[j] = acks[i + j] /\ i < i + j
        BY <1>1, <1>10 DEF Typed
      <3>2. Acknowledged(i + j) \in SeqNums
        <4>1. acks[i + j].first \in SeqNums
          BY <1>1, <3>1, AcksAre
        <4> QED
          BY <4>1, Scale DEF SeqSub, SeqNums, Modulus, Acknowledged
      <3>3. Ahead(f) <= Ahead(Acknowledged(i + j)) /\ Ahead(Acknowledged(i + j)) <= Ahead(last_handled)
        BY <1>1, <3>1 DEF AcksInv, f
      <3>4. Ahead(Acknowledged(i + j)) \in Int
        BY <1>2, <3>2, Apart
      <3>5. SeqSub(Acknowledged(i + j), last_acknown') = Ahead(Acknowledged(i + j)) - n
        BY <1>3, <1>5, <3>2, <3>3
      <3> QED
        BY <1>3, <3>1, <3>3, <3>4, <3>5, Scale DEF Acknowledged
    <2>2. ASSUME NEW j \in DOMAIN acks', NEW k \in DOMAIN acks', j < k
          PROVE  SeqSub(SeqSub(acks'[j].first, 1), last_acknown') <=
                     SeqSub(SeqSub(acks'[k].first, 1), last_acknown')
      <3>1. i + j \in DOMAIN acks /\ i + k \in DOMAIN acks /\ i + j < i + k
        BY <1>1, <1>10, <2>2 DEF Typed
      <3>2. Ahead(Acknowledged(i + j)) <= Ahead(Acknowledged(i + k))
        BY <1>1, <3>1 DEF AcksInv
      <3> QED
        BY <2>1, <3>2, Scale
    <2> QED
      BY <1>5, <2>1, <2>2 DEF AcksInv, Ahead, Acknowledged
  <1>12. \A k \in SeqNums :
             Ahead(k) \in n + 1 .. History => slots'[k % History] = slots[k % History]
    <2>1. ASSUME NEW k \in SeqNums, Ahead(k) \in n + 1 .. History
          PROVE  slots'[k % History] = slots[k % History]
      <3>1. k % History = Place(Ahead(k))
        BY <1>2, Places
      <3>2. Ahead(k) \in 1 .. History /\ ~(Ahead(k) <= n)
        BY <2>1, Scale
      <3> QED
        BY <1>6, <3>1, <3>2
    <2> QED
      BY <2>1
  <1>13. slots' \in [0 .. History - 1 -> Buffers]
         /\ \A j \in 0 .. History - 1 : slots'[j].size = 0 <=> slots'[j].pieces = <<>>
    <2>1. /\ Client!Free \in Buffers
          /\ Client!Free.size = 0 /\ Client!Free.pieces = <<>>
      BY Constants DEF Client!Free, Buffers, Payloads
    <2>2. ASSUME NEW j \in 0 .. History - 1
          PROVE  slots'[j] \in Buffers /\ (slots'[j].size = 0 <=> slots'[j].pieces = <<>>)
      BY <1>1, <1>6, <2>1 DEF Typed
    <2>3. slots' = [j \in 0 .. History - 1 |-> slots'[j]]
      BY <1>6 DEF ReceiveAcknack, Client!ProcessAcknack
    <2> QED
      BY <2>2, <2>3
  <1>14. ASSUME NEW p \in network', p \notin network
         PROVE  /\ DataOK(p)
                /\ Ahead(p.num) \in n + 1 .. s
                /\ p.msg = slots'[p.num % History].pieces
    <2>1. p \in Resent'
      BY <1>14, TransmitIs DEF ReceiveAcknack, Transmit
    <2>2. PICK k \in SeqNums : /\ k \in Client!Unacknowledged'
                               /\ p = [type |-> "DATA", num |-> k, msg |-> slots'[k % History].pieces]
      BY <2>1, ClientArith DEF Resent, Data, Client!SlotOf, Client!Unacknowledged
    <2>3. SeqLt(last_acknown', k) /\ (k = last_sent' \/ SeqLt(k, last_sent'))
      BY <2>2, ClientArith DEF Client!Unacknowledged
    <2>4. Ahead(k) \in n + 1 .. s
      <3>1. SeqSub(k, last_acknown') \in 1 .. Half - 1 /\ SeqSub(last_sent, k) \in 0 .. Half - 1
        BY <1>1, <1>2, <1>5, <2>3, LtIsAhead, SubRange, Scale
      <3> QED
        BY <1>2, <1>3, <1>4, <3>1, Scale DEF Ahead, SeqSub, Wrap, SeqNums, Modulus
    <2>5. k % History \in 0 .. History - 1
      BY <1>2, Places
    <2>6. slots'[k % History].pieces \in Payloads
      BY <1>13, <2>5 DEF Buffers
    <2> QED
      BY <2>2, <2>4, <2>6 DEF DataOK
  <1>15. Typed'
    <2>1. \A p \in network' : DataOK(p) \/ HeartbeatOK(p)
      BY <1>1, <1>14 DEF Typed
    <2> QED
      BY <1>1, <1>5, <1>10, <1>13, <2>1 DEF Typed
  <1>16. PacketsInv'
    <2>1. ASSUME NEW p \in network', p \in network
          PROVE  /\ Age(NumberOf(p)) < Half
                 /\ p.type = "DATA" => Age(p.num) >= Age(last_sent)
                 /\ p.type = "HEARTBEAT" => Age(p.window.first) >= w - n - 1
      <3>1. /\ Age(NumberOf(p)) < Half
            /\ p.type = "DATA" => Age(p.num) >= Age(last_sent)
            /\ p.type = "HEARTBEAT" => Age(p.window.first) >= w - 1
        BY <1>1, <1>3, <2>1 DEF PacketsInv
      <3>2. p.type = "HEARTBEAT" => Age(p.window.first) \in Int
        BY <1>1, <1>2, <2>1, Apart DEF Typed, DataOK, HeartbeatOK, Age
      <3> QED
        BY <3>1, <3>2, Scale
    <2>2. ASSUME NEW p \in network', p \notin network
          PROVE  /\ Age(NumberOf(p)) < Half
                 /\ p.type = "DATA" /\ Age(p.num) >= Age(last_sent)
      <3>1. /\ p.type = "DATA" /\ NumberOf(p) = p.num
            /\ p.num \in SeqNums /\ Ahead(p.num) \in n + 1 .. s
        BY <1>14, <2>2 DEF DataOK, NumberOf
      <3>2. Age(p.num) = w - Ahead(p.num)
        BY <1>2, <1>3, <3>1, Apart, Scale DEF Age
      <3>3. Age(last_sent) = w - s
        BY <1>2, <1>3, Apart, Scale DEF Age
      <3> QED
        BY <1>3, <3>1, <3>2, <3>3, Scale
    <2>3. \A p \in network' :
              /\ Age(NumberOf(p)) < Half
              /\ p.type = "DATA" => Age(p.num) >= Age(last_sent)
              /\ p.type = "HEARTBEAT" => Age(p.window.first) >= SeqSub(last_written', last_acknown') - 1
      BY <1>5, <2>1, <2>2
    <2> QED
      BY <1>1, <2>3 DEF PacketsInv, Age, Ahead, NumberOf
  <1>17. ContentInv'
    <2>1. ASSUME NEW k \in DOMAIN messages PROVE messages[k] = slots'[k % History].pieces
      <3>1. k \in SeqNums /\ SeqSub(k, last_handled) \in 2 .. Depth
            /\ SeqSub(k, last_handled) <= SeqSub(last_sent, last_handled)
        BY <1>1 DEF Typed, HeldInv
      <3>2. Ahead(k) \in n + 1 .. History
        BY <1>2, <1>3, <3>1, Scale DEF Ahead, SeqSub, SeqNums, Modulus
      <3> QED
        BY <1>1, <1>12, <3>1, <3>2 DEF ContentInv
    <2>2. ASSUME NEW p \in network', p.type = "DATA", SeqSub(p.num, last_acknown') \in 1 .. s - n
          PROVE  p.msg = slots'[p.num % History].pieces
      <3>1. CASE p \in network
        <4>1. p.num \in SeqNums /\ Age(p.num) >= Age(last_sent) /\ Age(p.num) < Half
          BY <1>1, <2>2, <3>1 DEF Typed, DataOK, HeartbeatOK, PacketsInv, NumberOf
        <4>2. Ahead(p.num) \in n + 1 .. s
          BY <1>2, <1>3, <1>4, <2>2, <4>1, Scale DEF Ahead, SeqSub, Wrap, SeqNums, Modulus
        <4>3. Ahead(p.num) \in 1 .. s /\ Ahead(p.num) \in n + 1 .. History
          BY <4>2, Scale
        <4> QED
          BY <1>1, <1>3, <1>12, <2>2, <3>1, <4>1, <4>3 DEF ContentInv
      <3>2. CASE p \notin network
        BY <1>14, <3>2
      <3> QED
        BY <3>1, <3>2
    <2> QED
      BY <1>1, <1>5, <2>1, <2>2 DEF ContentInv, Ahead
  <1> QED
    BY <1>7, <1>8, <1>9, <1>11, <1>15, <1>16, <1>17 DEF UpInv

----------------------------------------------------------------------------
(* The Agent receives and answers. *)

LEMMA AppendIs ==
    ASSUME NEW S, NEW q \in Seq(S), NEW e \in S
    PROVE  LET more == Append(q, e)
           IN  /\ more \in Seq(S) /\ DOMAIN more = 1 .. Len(q) + 1
               /\ \A i \in 1 .. Len(q) : more[i] = q[i]
               /\ more[Len(q) + 1] = e
  OBVIOUS

LEMMA TailIs ==
    ASSUME NEW S, NEW q \in Seq(S), Len(q) > 0
    PROVE  /\ Tail(q) \in Seq(S) /\ Len(Tail(q)) = Len(q) - 1
           /\ \A i \in 1 .. Len(q) - 1 : Tail(q)[i] = q[i + 1]
  OBVIOUS

\* The answer acknowledges what was handled, which is no less than before.
LEMMA AnswerKeeps ==
    ASSUME UplinkAssumption, Typed, AcksInv, Answer,
           UNCHANGED last_acknown, last_handled' \in SeqNums,
           Ahead(last_handled) <= Ahead(last_handled')
    PROVE  acks' \in Seq(Acks) /\ AcksInv'
  <1>1. /\ Len(acks) \in Nat /\ DOMAIN acks = 1 .. Len(acks) /\ acks \in Seq(Acks)
        /\ last_handled \in SeqNums /\ last_acknown \in SeqNums
    BY AcksAre DEF Typed
  <1>2. PICK ack : ack = Agent!Acknack'
    OBVIOUS
  <1>3. ack \in Acks /\ SeqSub(ack.first, 1) = last_handled'
    <2>1. ack.first = SeqAdd(last_handled', 1)
      BY <1>2, AgentArith DEF Agent!Acknack
    <2>2. ack.first \in SeqNums /\ SeqSub(ack.first, 1) = last_handled'
      <3>1. ASSUME NEW x \in SeqNums
            PROVE  SeqAdd(x, 1) \in SeqNums /\ SeqSub(SeqAdd(x, 1), 1) = x
        BY Scale DEF SeqAdd, SeqSub, Wrap, SeqNums, Modulus
      <3> QED
        BY <2>1, <3>1
    <2>3. ack = [first |-> ack.first, nacks |-> Agent!Nacked'] /\ Agent!Nacked' \subseteq Nat
      BY <1>2 DEF Agent!Acknack, Agent!Nacked
    <2> QED
      BY <2>2, <2>3 DEF Acks
  <1>4. /\ \A k \in SeqNums : Ahead(k) \in Int
        /\ \A k : SeqSub(k, last_acknown') = Ahead(k)
    BY <1>1, Apart DEF Ahead
  <1>5. \A i \in DOMAIN acks : /\ SeqSub(acks[i].first, 1) \in SeqNums
                               /\ Acknowledged(i) = SeqSub(acks[i].first, 1)
    <2>1. ASSUME NEW k \in SeqNums PROVE SeqSub(k, 1) \in SeqNums
      BY Scale DEF SeqSub, SeqNums, Modulus
    <2> QED
      BY <2>1, AcksAre DEF Acknowledged
  <1> DEFINE Is(i) == Ahead(SeqSub(acks'[i].first, 1))
  <1>6. SUFFICES /\ acks' \in Seq(Acks)
                 /\ \A i \in DOMAIN acks' : Is(i) <= Ahead(last_handled')
                 /\ \A i, j \in DOMAIN acks' : i < j => Is(i) <= Is(j)
    BY <1>4 DEF AcksInv, Ahead, Acknowledged
  <1>7. ASSUME NEW q \in Seq(Acks),
               \A i \in DOMAIN q : Ahead(SeqSub(q[i].first, 1)) <= Ahead(last_handled'),
               \A i, j \in DOMAIN q :
                  i < j => Ahead(SeqSub(q[i].first, 1)) <= Ahead(SeqSub(q[j].first, 1)),
               acks' = Append(q, ack)
        PROVE  /\ acks' \in Seq(Acks)
               /\ \A i \in DOMAIN acks' : Is(i) <= Ahead(last_handled')
               /\ \A i, j \in DOMAIN acks' : i < j => Is(i) <= Is(j)
    <2>1. PICK n \in Nat : n = Len(q) /\ DOMAIN q = 1 .. n
      BY SequencesAre
    <2>2. /\ acks' \in Seq(Acks) /\ DOMAIN acks' = 1 .. n + 1
          /\ \A i \in 1 .. n : acks'[i] = q[i]
          /\ acks'[n + 1] = ack
      BY <1>3, <1>7, <2>1, AppendIs
    <2>3. \A i \in 1 .. n : Is(i) = Ahead(SeqSub(q[i].first, 1))
      BY <2>2
    <2>4. Is(n + 1) = Ahead(last_handled')
      BY <1>3, <2>2
    <2>5. Ahead(last_handled') \in Int
      BY <1>4
    <2> HIDE DEF Is
    <2>6. \A i \in 1 .. n + 1 : i \in 1 .. n \/ i = n + 1
      OBVIOUS
    <2>7. \A i \in DOMAIN acks' : Is(i) <= Ahead(last_handled')
      BY <1>7, <2>1, <2>2, <2>3, <2>4, <2>5, <2>6
    <2>8. ASSUME NEW i \in DOMAIN acks', NEW j \in DOMAIN acks', i < j PROVE Is(i) <= Is(j)
      <3>1. i \in 1 .. n
        BY <2>2, <2>8
      <3>2. CASE j \in 1 .. n
        BY <1>7, <2>1, <2>3, <2>8, <3>1, <3>2
      <3>3. CASE j = n + 1
        BY <2>4, <2>7, <3>3
      <3> QED
        BY <2>2, <2>6, <3>2, <3>3
    <2> QED
      BY <2>2, <2>7, <2>8
  <1>8. /\ \A i \in DOMAIN acks : Ahead(SeqSub(acks[i].first, 1)) <= Ahead(last_handled')
        /\ \A i, j \in DOMAIN acks :
              i < j => Ahead(SeqSub(acks[i].first, 1)) <= Ahead(SeqSub(acks[j].first, 1))
    <2>1. \A i \in DOMAIN acks : Ahead(SeqSub(acks[i].first, 1)) <= Ahead(last_handled)
      BY <1>5 DEF AcksInv
    <2>2. Ahead(last_handled) \in Int /\ Ahead(last_handled') \in Int
      BY <1>1, <1>4
    <2>3. \A i \in DOMAIN acks : Ahead(SeqSub(acks[i].first, 1)) \in Int
      BY <1>4, <1>5
    <2>4. \A i \in DOMAIN acks : Ahead(SeqSub(acks[i].first, 1)) <= Ahead(last_handled')
      BY <2>1, <2>2, <2>3
    <2> QED
      BY <1>5, <2>4 DEF AcksInv
  <1>9. CASE UNCHANGED acks
    BY <1>1, <1>8, <1>9
  <1>10. CASE acks' = Append(acks, ack)
    BY <1>1, <1>7, <1>8, <1>10
  <1>11. CASE Len(acks) > 0 /\ acks' = Append(Tail(acks), ack)
    <2>1. PICK m \in Nat : m = Len(acks) /\ m > 0
      BY <1>1, <1>11
    <2>2. PICK q \in Seq(Acks) : q = Tail(acks) /\ DOMAIN q = 1 .. m - 1
      <3>1. Tail(acks) \in Seq(Acks) /\ Len(Tail(acks)) = m - 1
        BY <1>1, <1>11, <2>1, TailIs
      <3> QED
        BY <3>1, SequencesAre
    <2>3. \A i \in 1 .. m - 1 : q[i] = acks[i + 1] /\ i + 1 \in DOMAIN acks
      BY <1>1, <1>11, <2>1, <2>2, TailIs
    <2>4. /\ \A i \in DOMAIN q : Ahead(SeqSub(q[i].first, 1)) <= Ahead(last_handled')
          /\ \A i, j \in DOMAIN q :
                i < j => Ahead(SeqSub(q[i].first, 1)) <= Ahead(SeqSub(q[j].first, 1))
      <3>1. \A i, j \in 1 .. m - 1 : i < j => i + 1 < j + 1
        OBVIOUS
      <3> QED
        BY <1>8, <2>2, <2>3, <3>1
    <2> QED
      BY <1>7, <1>11, <2>2, <2>4
  <1> QED
    BY <1>2, <1>9, <1>10, <1>11 DEF Answer

\* A heartbeat never makes the Agent give a message up: the Client's window
\* begins where the Agent waits, or before.
LEMMA HeartbeatSkipsNothing ==
    ASSUME UplinkAssumption, UpInv, NEW p \in network, ReceiveHeartbeat(p)
    PROVE  UNCHANGED last_handled
  <1>1. Typed /\ OrderInv /\ PacketsInv
    BY DEF UpInv
  <1>2. /\ last_written \in SeqNums /\ last_sent \in SeqNums /\ last_acknown \in SeqNums
        /\ last_handled \in SeqNums
        /\ p.type = "HEARTBEAT" /\ p.window.first \in SeqNums
    BY <1>1 DEF Typed, DataOK, HeartbeatOK, ReceiveHeartbeat
  <1>3. Age(p.window.first) < Half /\ Age(p.window.first) >= Ahead(last_written) - 1
    BY <1>1, <1>2 DEF PacketsInv, NumberOf
  <1>4. Ahead(last_handled) < Ahead(last_written) /\ Ahead(last_written) <= History + 1
    BY <1>1, <1>2, Apart, Scale DEF OrderInv
  <1>5. ~SeqLt(SeqAdd(last_handled, 1), p.window.first)
    BY <1>2, <1>3, <1>4, Scale DEF Age, Ahead, SeqLt, SeqAdd, SeqSub, Wrap, SeqNums, Modulus
  <1> QED
    BY <1>5, AgentArith DEF ReceiveHeartbeat, Agent!Heartbeat, Agent!SkipTo

LEMMA ReceiveHeartbeatUp ==
    ASSUME UplinkAssumption, UpInv, NEW p \in network, ReceiveHeartbeat(p)
    PROVE  UpInv'
  <1>1. /\ Typed /\ OrderInv /\ SlotsInv /\ HeldInv /\ AcksInv /\ PacketsInv /\ ContentInv
        /\ UNCHANGED <<slots, last_written, last_sent, last_acknown, network>>
        /\ UNCHANGED <<messages, fragment>>
    BY DEF UpInv, ReceiveHeartbeat, clientVars, Agent!Heartbeat
  <1>2. /\ last_written \in SeqNums /\ last_sent \in SeqNums /\ last_acknown \in SeqNums
        /\ last_handled \in SeqNums /\ last_announced \in SeqNums
        /\ p.type = "HEARTBEAT" /\ p.window.first \in SeqNums /\ p.window.last \in SeqNums
    BY <1>1 DEF Typed, DataOK, HeartbeatOK, ReceiveHeartbeat
  <1>3. UNCHANGED last_handled
    BY HeartbeatSkipsNothing
  <1>4. last_announced' \in SeqNums
    BY <1>2 DEF ReceiveHeartbeat, Agent!Heartbeat
  <1>5. acks' \in Seq(Acks) /\ AcksInv'
    <2>1. Ahead(last_handled) <= Ahead(last_handled')
      BY <1>2, <1>3, Apart
    <2> QED
      BY <1>1, <1>2, <1>3, <2>1, AnswerKeeps DEF ReceiveHeartbeat
  <1>6. Typed'
    BY <1>1, <1>2, <1>3, <1>4, <1>5 DEF Typed
  <1>7. OrderInv' /\ SlotsInv' /\ HeldInv' /\ PacketsInv' /\ ContentInv'
    BY <1>1, <1>3
       DEF OrderInv, SlotsInv, HeldInv, PacketsInv, ContentInv, Ahead, Place, Age, NumberOf
  <1> QED
    BY <1>5, <1>6, <1>7 DEF UpInv

LEMMA Between ==
    ASSUME NEW a \in SeqNums, NEW k \in SeqNums, NEW h \in SeqNums,
           SeqSub(k, h) < Half, SeqSub(a, k) < Half
    PROVE  SeqSub(a, k) = SeqSub(a, h) - SeqSub(k, h)
  BY HalfAssumption DEF SeqSub, SeqNums, Modulus

\* How far a number is ahead of the last one handled.
From(k) == SeqSub(k, last_handled)

\* What the Agent holds once the message of p is stored.
Pool(p) == IF Agent!InWindow(p.num) THEN Agent!Stored(p.num, p.msg) ELSE messages

\* All of it was sent, is in the window, and is what the Client keeps.
LEMMA PoolIs ==
    ASSUME UplinkAssumption, UpInv, NEW p \in network, p.type = "DATA"
    PROVE  /\ DOMAIN Pool(p) \subseteq SeqNums
           /\ \A k \in DOMAIN Pool(p) : /\ Pool(p)[k] \in Payloads
                                       /\ From(k) \in 1 .. Depth /\ From(k) <= From(last_sent)
                                       /\ Pool(p)[k] = slots[k % History].pieces
           /\ \A k \in DOMAIN messages : k \in DOMAIN Pool(p) /\ Pool(p)[k] = messages[k]
  <1>1. Typed /\ OrderInv /\ HeldInv /\ PacketsInv /\ ContentInv
    BY DEF UpInv
  <1>2. /\ last_written \in SeqNums /\ last_sent \in SeqNums /\ last_acknown \in SeqNums
        /\ last_handled \in SeqNums
        /\ p.num \in SeqNums /\ p.msg \in Payloads
    BY <1>1 DEF Typed, DataOK, HeartbeatOK
  <1>3. PICK h \in 0 .. History, s \in 0 .. History, w \in 1 .. History + 1 :
            /\ h = Ahead(last_handled) /\ s = Ahead(last_sent) /\ w = Ahead(last_written)
            /\ h <= s /\ s < w
    <2>1. Ahead(last_handled) \in Nat /\ Ahead(last_sent) \in Nat /\ Ahead(last_written) \in Nat
      BY <1>2, Scale DEF Ahead, SeqSub, SeqNums, Modulus
    <2> QED
      BY <1>1, <2>1, Scale DEF OrderInv
  <1>4. \A k \in SeqNums : From(k) \in Int
    BY <1>2, Apart DEF From
  <1>5. From(last_sent) = s - h
    BY <1>2, <1>3, Apart, Scale DEF From
  <1>6. Agent!InWindow(p.num) => From(p.num) \in 1 .. Depth /\ From(p.num) <= s - h
    <2>1. SUFFICES ASSUME SeqLt(last_handled, p.num), ~SeqLt(SeqAdd(last_handled, Depth), p.num)
                   PROVE  From(p.num) \in 1 .. Depth /\ From(p.num) <= s - h
      BY AgentArith DEF Agent!InWindow
    <2>2. From(p.num) \in 1 .. Depth
      BY <1>2, <2>1, Scale DEF From, SeqLt, SeqAdd, SeqSub, Wrap, SeqNums, Modulus
    <2>3. Age(p.num) >= Age(last_sent) /\ Age(p.num) < Half
      BY <1>1 DEF PacketsInv, NumberOf
    <2>4. Age(last_sent) = w - s /\ Age(last_handled) = w - h
      BY <1>2, <1>3, Apart, Scale DEF Age
    <2>5. Age(p.num) = Age(last_handled) - From(p.num)
      <3>1. w - h \in 1 .. Half /\ Depth < Half
        BY <1>3, Scale
      <3> QED
        BY <1>2, <2>2, <2>3, <2>4, <3>1, Between, Scale DEF Age, From
    <2> QED
      BY <1>3, <1>4, <2>2, <2>3, <2>4, <2>5, Scale
  <1>7. ASSUME NEW k \in DOMAIN messages
        PROVE  /\ k \in SeqNums /\ messages[k] \in Payloads
               /\ From(k) \in 1 .. Depth /\ From(k) <= s - h
               /\ messages[k] = slots[k % History].pieces
    BY <1>1, <1>5, Scale DEF Typed, HeldInv, ContentInv, From
  <1>8. CASE ~Agent!InWindow(p.num)
    BY <1>5, <1>7, <1>8 DEF Pool
  <1>9. CASE Agent!InWindow(p.num)
    <2>1. p.msg = slots[p.num % History].pieces
      <3>1. From(p.num) \in 1 .. s - h
        BY <1>3, <1>6, <1>9, Scale
      <3>2. Ahead(p.num) \in 1 .. s
        BY <1>2, <1>3, <3>1, Scale DEF From, Ahead, SeqSub, SeqNums, Modulus
      <3> QED
        BY <1>1, <1>3, <3>2 DEF ContentInv
    <2>2. /\ DOMAIN Pool(p) = DOMAIN messages \cup {p.num}
          /\ \A k \in DOMAIN Pool(p) :
                Pool(p)[k] = IF k \in DOMAIN messages THEN messages[k] ELSE p.msg
      BY <1>9 DEF Pool, Agent!Stored
    <2> QED
      BY <1>2, <1>5, <1>6, <1>7, <1>9, <2>1, <2>2
  <1> QED
    BY <1>8, <1>9

\* How many of them are taken out.
Taken(p) == Agent!InSequence(DOMAIN Pool(p))

LEMMA ReceiveDataIs ==
    ASSUME UplinkAssumption, UpInv, NEW p \in network, ReceiveData(p)
    PROVE  /\ Taken(p) \in 0 .. Depth /\ Taken(p) <= From(last_sent)
           /\ InARow(DOMAIN Pool(p), Taken(p))
           /\ last_handled' = SeqAdd(last_handled, Taken(p))
           /\ messages' = [k \in {j \in DOMAIN Pool(p) :
                                    ~\E d \in 1 .. Taken(p) : j = SeqAdd(last_handled, d)}
                              |-> Pool(p)[k]]
           /\ Unfinished(fragment')
  <1>1. /\ Typed /\ last_handled \in SeqNums /\ last_sent \in SeqNums
        /\ last_acknown \in SeqNums /\ p.type = "DATA"
    BY DEF UpInv, Typed, ReceiveData
  <1>2. /\ DOMAIN Pool(p) \subseteq SeqNums
        /\ \A k \in DOMAIN Pool(p) : /\ Pool(p)[k] \in Payloads
                                    /\ From(k) \in 1 .. Depth /\ From(k) <= From(last_sent)
    BY <1>1, PoolIs
  <1>3. Taken(p) \in 0 .. Depth /\ InARow(DOMAIN Pool(p), Taken(p))
    <2>1. InReach(DOMAIN Pool(p))
      BY <1>2 DEF InReach, From
    <2> QED
      BY <1>1, <2>1, InSequenceIs DEF Taken
  <1>4. Agent!TakeOut(Pool(p), Taken(p))
    BY DEF ReceiveData, Agent!Receive, Pool, Taken
  <1>5. /\ last_handled' = SeqAdd(last_handled, Taken(p))
        /\ messages' = [k \in {j \in DOMAIN Pool(p) :
                                 ~\E d \in 1 .. Taken(p) : j = SeqAdd(last_handled, d)}
                           |-> Pool(p)[k]]
        /\ Unfinished(fragment')
    BY <1>1, <1>2, <1>3, <1>4, TakeOutIs DEF InARow
  <1>6. Taken(p) <= From(last_sent)
    <2>1. CASE Taken(p) = 0
      BY <1>1, <2>1, Scale DEF From, SeqSub, SeqNums, Modulus
    <2>2. CASE Taken(p) # 0
      <3>1. PICK n \in 1 .. Depth : n = Taken(p) /\ n \in 1 .. n
        BY <1>3, <2>2, Scale
      <3>2. SeqAdd(last_handled, n) \in DOMAIN Pool(p)
        BY <1>3, <3>1 DEF InARow
      <3>3. From(SeqAdd(last_handled, n)) = n
        BY <1>1, <3>1, AddIs, Scale DEF From
      <3> QED
        BY <1>2, <3>1, <3>2, <3>3
    <2> QED
      BY <2>1, <2>2
  <1> QED
    BY <1>3, <1>5, <1>6

\* What is taken out was sent; what stays is ahead of the next gap.
LEMMA ReceiveDataUp ==
    ASSUME UplinkAssumption, UpInv, NEW p \in network, ReceiveData(p)
    PROVE  UpInv'
  <1>1. /\ Typed /\ OrderInv /\ SlotsInv /\ HeldInv /\ AcksInv /\ PacketsInv /\ ContentInv
        /\ UNCHANGED <<slots, last_written, last_sent, last_acknown, network>>
        /\ p.type = "DATA"
    BY DEF UpInv, ReceiveData, clientVars
  <1>2. /\ last_written \in SeqNums /\ last_sent \in SeqNums /\ last_acknown \in SeqNums
        /\ last_handled \in SeqNums /\ last_announced \in SeqNums
        /\ p.num \in SeqNums
    BY <1>1 DEF Typed, DataOK, HeartbeatOK
  <1>3. PICK h \in 0 .. History, s \in 0 .. History, w \in 1 .. History + 1 :
            /\ h = Ahead(last_handled) /\ s = Ahead(last_sent) /\ w = Ahead(last_written)
            /\ h <= s /\ s < w
    <2>1. Ahead(last_handled) \in Nat /\ Ahead(last_sent) \in Nat /\ Ahead(last_written) \in Nat
      BY <1>2, Scale DEF Ahead, SeqSub, SeqNums, Modulus
    <2> QED
      BY <1>1, <2>1, Scale DEF OrderInv
  <1>4. From(last_sent) = s - h
    BY <1>2, <1>3, Apart, Scale DEF From
  <1>5. /\ DOMAIN Pool(p) \subseteq SeqNums
        /\ \A k \in DOMAIN Pool(p) : /\ Pool(p)[k] \in Payloads
                                    /\ From(k) \in 1 .. Depth /\ From(k) <= s - h
                                    /\ Pool(p)[k] = slots[k % History].pieces
    BY <1>1, <1>4, PoolIs
  <1>6. PICK n \in 0 .. Depth :
            /\ n = Taken(p) /\ n <= s - h
            /\ InARow(DOMAIN Pool(p), n)
            /\ last_handled' = SeqAdd(last_handled, n)
            /\ messages' = [k \in {j \in DOMAIN Pool(p) :
                                     ~\E d \in 1 .. n : j = SeqAdd(last_handled, d)}
                               |-> Pool(p)[k]]
            /\ Unfinished(fragment')
    BY <1>4, ReceiveDataIs
  <1>7. last_announced' \in SeqNums
    BY <1>2 DEF ReceiveData, Agent!Receive
  <1>8. \A d \in 1 .. Depth : SeqAdd(last_handled, d) \in SeqNums /\ From(SeqAdd(last_handled, d)) = d
    BY <1>2, AddIs, Scale DEF From
  <1>9. last_handled' \in SeqNums /\ Ahead(last_handled') = h + n
    BY <1>2, <1>3, <1>6, Scale DEF SeqAdd, Ahead, SeqSub, Wrap, SeqNums, Modulus
  <1>10. \A k \in DOMAIN messages' :
             /\ k \in DOMAIN Pool(p) /\ messages'[k] = Pool(p)[k]
             /\ SeqSub(k, last_handled') \in 2 .. Depth
             /\ SeqSub(k, last_handled') <= s - h - n
    <2>1. ASSUME NEW k \in DOMAIN messages'
          PROVE  /\ k \in DOMAIN Pool(p) /\ messages'[k] = Pool(p)[k]
                 /\ SeqSub(k, last_handled') \in 2 .. Depth
                 /\ SeqSub(k, last_handled') <= s - h - n
      <3>1. /\ k \in DOMAIN Pool(p) /\ messages'[k] = Pool(p)[k]
            /\ \A d \in 1 .. n : k # SeqAdd(last_handled, d)
        BY <1>6
      <3>2. k \in SeqNums /\ From(k) \in 1 .. Depth /\ From(k) <= s - h
        BY <1>5, <3>1
      <3>3. \A d \in 1 .. Depth : From(k) = d => k = SeqAdd(last_handled, d)
        BY <1>2, <1>8, <3>2, SubInjective DEF From
      <3>4. From(k) \notin 1 .. n
        BY <1>6, <3>1, <3>2, <3>3, Scale
      <3>5. From(k) # n + 1
        BY <1>6, <3>1, <3>2, <3>3, Scale DEF InARow
      <3>6. From(k) \in n + 2 .. Depth
        BY <1>6, <3>2, <3>4, <3>5, Scale
      <3>7. SeqSub(k, last_handled') = From(k) - n
        BY <1>2, <1>6, <3>2, <3>6, Scale DEF From, SeqAdd, SeqSub, Wrap, SeqNums, Modulus
      <3> QED
        BY <1>3, <1>6, <3>1, <3>2, <3>6, <3>7, Scale
    <2> QED
      BY <2>1
  <1>11. HeldInv'
    <2>1. SeqSub(last_sent', last_handled') = s - h - n
      BY <1>1, <1>2, <1>3, <1>6, <1>9, Apart, Scale
    <2> QED
      BY <1>10, <2>1 DEF HeldInv
  <1>12. /\ OrderInv' /\ Ahead(last_handled) <= Ahead(last_handled')
    <2>1. Ahead(last_handled') <= s /\ h <= Ahead(last_handled')
      BY <1>3, <1>6, <1>9, Scale
    <2>2. SeqSub(last_handled', last_acknown') <= SeqSub(last_sent', last_acknown')
      BY <1>1, <1>3, <2>1 DEF Ahead
    <2> QED
      BY <1>1, <1>3, <2>1, <2>2 DEF OrderInv, Ahead
  <1>13. acks' \in Seq(Acks) /\ AcksInv'
    BY <1>1, <1>9, <1>12, AnswerKeeps DEF ReceiveData
  <1>14. Typed'
    <2>1. DOMAIN messages' \subseteq SeqNums /\ \A k \in DOMAIN messages' : messages'[k] \in Payloads
      BY <1>5, <1>10
    <2> QED
      BY <1>1, <1>7, <1>6, <1>9, <1>13, <2>1 DEF Typed, Unfinished
  <1>15. SlotsInv' /\ PacketsInv'
    BY <1>1 DEF SlotsInv, PacketsInv, Ahead, Place, Age, NumberOf
  <1>16. ContentInv'
    <2>1. \A k \in DOMAIN messages' : messages'[k] = slots[k % History].pieces
      BY <1>5, <1>10
    <2> QED
      BY <1>1, <2>1 DEF ContentInv, Ahead
  <1> QED
    BY <1>11, <1>12, <1>13, <1>14, <1>15, <1>16 DEF UpInv

----------------------------------------------------------------------------
(* The Client writes. *)

\* What a write does: the number that is built moves on within the history, and
\* the slots of the messages before it are as they were.
Grows ==
    /\ UNCHANGED <<last_sent, last_acknown>>
    /\ last_written' \in SeqNums
    /\ Ahead(last_written) <= Ahead(last_written')
    /\ Ahead(last_written') <= History
    /\ slots' \in [0 .. History - 1 -> Buffers]
    /\ \A i \in 0 .. History - 1 : slots'[i].size = 0 <=> slots'[i].pieces = <<>>
    /\ \A d \in 1 .. History :
          /\ d < Ahead(last_written) => slots'[Place(d)] = slots[Place(d)]
          /\ d < Ahead(last_written') => slots'[Place(d)].size # 0
          /\ d > Ahead(last_written') => slots'[Place(d)].size = 0

\* All the pieces of a submessage.
Unit(u, sub) ==
    /\ u \in Payloads /\ Len(u) > 0
    /\ \A j \in 1 .. Len(u) :
          /\ u[j].sub = sub /\ u[j].part = j
          /\ u[j].kind = IF j < Len(u) THEN "FRAGMENT" ELSE IF j = 1 THEN "WHOLE" ELSE "LAST"

\* A write appends them: the first may join the message that is built, the
\* others have a message each.
Appends(u, c) ==
    LET w == Ahead(last_written)
    IN  /\ Ahead(last_written') = w + Len(u) - c
        /\ slots'[Place(w)].pieces =
               IF c = 1 THEN Append(slots[Place(w)].pieces, u[1]) ELSE slots[Place(w)].pieces
        /\ \A j \in 1 .. Len(u) - c : slots'[Place(w + j)].pieces = <<u[c + j]>>

Accepts(sub) == \E u \in Payloads, c \in 0 .. 1 : Unit(u, sub) /\ Appends(u, c)

\* A number that is in the history.
LEMMA InHistoryIs ==
    ASSUME UplinkAssumption, last_acknown \in SeqNums, NEW k \in SeqNums,
           Ahead(k) <= History + 2, Client!InHistory(k)
    PROVE  Ahead(k) <= History
  <1>1. k = Wrap(last_acknown + History) \/ SeqLt(k, Wrap(last_acknown + History))
    BY ClientArith DEF Client!InHistory
  <1> QED
    BY <1>1, Scale DEF SeqLt, Ahead, SeqSub, Wrap, SeqNums, Modulus

LEMMA NextIs ==
    ASSUME UplinkAssumption, Typed, OrderInv
    PROVE  /\ last_written \in SeqNums /\ last_sent \in SeqNums /\ last_acknown \in SeqNums
           /\ Ahead(last_written) \in 1 .. History + 1
           /\ Wrap(last_written + 1) \in SeqNums
           /\ Ahead(Wrap(last_written + 1)) = Ahead(last_written) + 1
  <1>1. last_written \in SeqNums /\ last_sent \in SeqNums /\ last_acknown \in SeqNums
    BY DEF Typed
  <1>2. Ahead(last_written) \in 1 .. History + 1
    BY <1>1, Scale DEF OrderInv, Ahead, SeqSub, SeqNums, Modulus
  <1>3. /\ Wrap(last_written + 1) \in SeqNums
        /\ Ahead(Wrap(last_written + 1)) = Ahead(last_written) + 1
    BY <1>1, <1>2, Scale DEF Ahead, SeqSub, Wrap, SeqNums, Modulus
  <1> QED
    BY <1>1, <1>2, <1>3

\* The buffer of one slot changes.
LEMMA OneSlot ==
    ASSUME UplinkAssumption, Typed, NEW e \in 1 .. History, NEW b \in Buffers,
           b.size # 0, b.pieces # <<>>, slots' = [slots EXCEPT ![Place(e)] = b]
    PROVE  /\ slots' \in [0 .. History - 1 -> Buffers]
           /\ \A i \in 0 .. History - 1 : slots'[i].size = 0 <=> slots'[i].pieces = <<>>
           /\ \A d \in 1 .. History : slots'[Place(d)] = IF d = e THEN b ELSE slots[Place(d)]
  <1>1. /\ Place(e) \in 0 .. History - 1
        /\ \A d \in 1 .. History : Place(d) \in 0 .. History - 1 /\ (Place(d) = Place(e) => d = e)
    BY Places DEF Typed
  <1>2. slots \in [0 .. History - 1 -> Buffers]
    BY DEF Typed
  <1>3. \A i \in 0 .. History - 1 : slots'[i] = IF i = Place(e) THEN b ELSE slots[i]
    BY <1>1, <1>2
  <1>4. slots' \in [0 .. History - 1 -> Buffers]
    BY <1>1, <1>2
  <1>5. ASSUME NEW i \in 0 .. History - 1 PROVE slots'[i].size = 0 <=> slots'[i].pieces = <<>>
    BY <1>3 DEF Typed
  <1> QED
    BY <1>1, <1>3, <1>4, <1>5

\* A message with one piece more.
LEMMA OneMore ==
    ASSUME NEW S, NEW q \in Seq(S), NEW e \in S
    PROVE  /\ Append(q, e) \in Seq(S) /\ Append(q, e) # <<>>
           /\ <<e>> \in Seq(S) /\ <<e>> # <<>>
  <1>1. Append(q, e) \in Seq(S) /\ <<e>> \in Seq(S)
    OBVIOUS
  <1>2. Len(Append(q, e)) = Len(q) + 1 /\ Len(q) \in Nat
    OBVIOUS
  <1>3. Len(<<e>>) = 1 /\ Len(<<>>) = 0
    OBVIOUS
  <1>4. Append(q, e) # <<>>
    BY <1>2, <1>3
  <1>5. <<e>> # <<>>
    BY <1>3
  <1> QED
    BY <1>1, <1>4, <1>5

LEMMA WholeIs ==
    ASSUME NEW sub \in Submessages, NEW u \in Payloads
    PROVE  /\ Append(u, Client!Whole(sub)) \in Payloads /\ Append(u, Client!Whole(sub)) # <<>>
           /\ <<Client!Whole(sub)>> \in Payloads /\ <<Client!Whole(sub)>> # <<>>
  <1>1. Client!Whole(sub) \in Client!Pieces
    BY DEF Client!Whole, Client!Pieces
  <1> QED
    BY <1>1, OneMore DEF Payloads

LEMMA WholeUnit ==
    ASSUME NEW sub \in Submessages
    PROVE  /\ Unit(<<Client!Whole(sub)>>, sub) /\ Len(<<Client!Whole(sub)>>) = 1
           /\ <<Client!Whole(sub)>>[1] = Client!Whole(sub)
  <1>1. Client!Whole(sub) \in Client!Pieces
    BY DEF Client!Whole, Client!Pieces
  <1> QED
    BY <1>1 DEF Unit, Payloads, Client!Whole

LEMMA WriteHereGrows ==
    ASSUME UplinkAssumption, Typed, OrderInv, SlotsInv,
           NEW sub \in Submessages, NEW n \in Sizes, Client!WriteHere(sub, n)
    PROVE  Grows /\ Accepts(sub)
  <1>1. PICK w \in 1 .. History : w = Ahead(last_written)
    <2>1. Ahead(last_written) <= History
      BY NextIs, InHistoryIs, Scale DEF Client!WriteHere
    <2> QED
      BY <2>1, NextIs, Scale
  <1>2. Client!SlotOf(last_written) = Place(w) /\ Place(w) \in 0 .. History - 1
    BY <1>1, NextIs, Places
  <1>3. slots[Place(w)] \in Buffers /\ n \in Nat \ {0} /\ Capacity \in Nat
    BY <1>2, Constants DEF Typed
  <1> DEFINE b == [size |-> slots[Place(w)].size + n,
                   pieces |-> Append(slots[Place(w)].pieces, Client!Whole(sub))]
  <1>4. slots[Place(w)].size + n <= Capacity /\ slots' = [slots EXCEPT ![Place(w)] = b]
    BY <1>2 DEF Client!WriteHere, Client!Fits
  <1>5. b \in Buffers /\ b.size # 0 /\ b.pieces # <<>>
    <2>1. slots[Place(w)].size \in Nat /\ slots[Place(w)].pieces \in Payloads
      BY <1>3 DEF Buffers
    <2>2. /\ Append(slots[Place(w)].pieces, Client!Whole(sub)) \in Payloads
          /\ Append(slots[Place(w)].pieces, Client!Whole(sub)) # <<>>
      BY <2>1, WholeIs
    <2> QED
      BY <1>3, <1>4, <2>1, <2>2 DEF Buffers
  <1> HIDE DEF b
  <1>6. /\ slots' \in [0 .. History - 1 -> Buffers]
        /\ \A i \in 0 .. History - 1 : slots'[i].size = 0 <=> slots'[i].pieces = <<>>
        /\ \A d \in 1 .. History : slots'[Place(d)] = IF d = w THEN b ELSE slots[Place(d)]
    BY <1>4, <1>5, OneSlot
  <1>7. UNCHANGED <<last_written, last_sent, last_acknown>>
    BY DEF Client!WriteHere
  <1>8. ASSUME NEW d \in 1 .. History
        PROVE  /\ d < w => slots'[Place(d)] = slots[Place(d)]
               /\ d < w => slots'[Place(d)].size # 0
               /\ d > w => slots'[Place(d)].size = 0
    BY <1>1, <1>6, Scale DEF SlotsInv
  <1>9. Grows
    BY <1>1, <1>6, <1>7, <1>8, NextIs, Scale DEF Grows
  <1>10. Accepts(sub)
    <2>1. PICK u : u = <<Client!Whole(sub)>> /\ Unit(u, sub) /\ Len(u) = 1 /\ u[1] = Client!Whole(sub)
      BY WholeUnit
    <2>2. slots'[Place(w)].pieces = Append(slots[Place(w)].pieces, u[1])
      BY <1>6, <2>1 DEF b
    <2>3. Ahead(last_written') = w + Len(u) - 1 /\ 1 .. Len(u) - 1 = {}
      <3>1. Ahead(last_written') = w
        BY <1>1, <1>7 DEF Ahead
      <3> QED
        BY <2>1, <3>1, Scale
    <2>4. Appends(u, 1)
      <3>1. \A j \in 1 .. Len(u) - 1 : slots'[Place(w + j)].pieces = <<u[1 + j]>>
        BY <2>3
      <3> QED
        BY <1>1, <2>2, <2>3, <3>1 DEF Appends
    <2>5. 1 \in 0 .. 1 /\ u \in Payloads
      BY <2>1 DEF Unit
    <2> QED
      BY <2>1, <2>4, <2>5 DEF Accepts
  <1> QED
    BY <1>9, <1>10

LEMMA WriteNextGrows ==
    ASSUME UplinkAssumption, Typed, OrderInv, SlotsInv,
           NEW sub \in Submessages, NEW n \in Sizes, Client!WriteNext(sub, n)
    PROVE  Grows /\ Accepts(sub)
  <1> DEFINE k == Wrap(last_written + 1)
  <1>1. /\ ~Client!Fits(n) /\ n <= Capacity /\ Client!InHistory(k)
        /\ slots' = [slots EXCEPT ![Client!SlotOf(k)] =
                        [size |-> n, pieces |-> <<Client!Whole(sub)>>]]
        /\ last_written' = k
        /\ UNCHANGED <<last_sent, last_acknown>>
    BY ClientArith DEF Client!WriteNext
  <1>2. PICK w \in 1 .. History : w = Ahead(last_written) /\ w + 1 = Ahead(k) /\ w + 1 \in 1 .. History
    <2>1. Ahead(last_written) \in 1 .. History + 1 /\ k \in SeqNums /\ Ahead(k) = Ahead(last_written) + 1
      BY NextIs
    <2>2. Ahead(k) <= History
      BY <1>1, <2>1, NextIs, InHistoryIs, Scale
    <2> QED
      BY <2>1, <2>2, Scale
  <1>3. /\ Client!SlotOf(last_written) = Place(w) /\ Place(w) \in 0 .. History - 1
        /\ Client!SlotOf(k) = Place(w + 1) /\ k \in SeqNums
    BY <1>2, NextIs, Places
  <1> HIDE DEF k
  <1>4. n \in Nat \ {0} /\ Capacity \in Nat
    BY Constants
  <1>5. slots[Place(w)].size # 0
    BY <1>1, <1>3, <1>4 DEF Client!Fits
  <1> DEFINE b == [size |-> n, pieces |-> <<Client!Whole(sub)>>]
  <1>6. b \in Buffers /\ b.size # 0 /\ b.pieces # <<>>
    <2>1. <<>> \in Payloads
      BY DEF Payloads
    <2>2. <<Client!Whole(sub)>> \in Payloads /\ <<Client!Whole(sub)>> # <<>>
      BY <2>1, WholeIs
    <2> QED
      BY <1>1, <1>4, <2>2 DEF Buffers
  <1>7. slots' = [slots EXCEPT ![Place(w + 1)] = b]
    BY <1>1, <1>3
  <1> HIDE DEF b
  <1>8. /\ slots' \in [0 .. History - 1 -> Buffers]
        /\ \A i \in 0 .. History - 1 : slots'[i].size = 0 <=> slots'[i].pieces = <<>>
        /\ \A d \in 1 .. History : slots'[Place(d)] = IF d = w + 1 THEN b ELSE slots[Place(d)]
    <2>1. PICK e \in 1 .. History : e = w + 1
      BY <1>2
    <2>2. slots' = [slots EXCEPT ![Place(e)] = b]
      BY <1>7, <2>1
    <2>3. /\ slots' \in [0 .. History - 1 -> Buffers]
          /\ \A i \in 0 .. History - 1 : slots'[i].size = 0 <=> slots'[i].pieces = <<>>
          /\ \A d \in 1 .. History : slots'[Place(d)] = IF d = e THEN b ELSE slots[Place(d)]
      BY <1>6, <2>2, OneSlot
    <2> QED
      BY <2>1, <2>3
  <1>9. ASSUME NEW d \in 1 .. History
        PROVE  /\ d < w => slots'[Place(d)] = slots[Place(d)]
               /\ d < w + 1 => slots'[Place(d)].size # 0
               /\ d > w + 1 => slots'[Place(d)].size = 0
    <2>1. d < w \/ d = w \/ d = w + 1 \/ d > w + 1
      BY Scale
    <2> QED
      BY <1>2, <1>5, <1>8, <2>1, Scale DEF SlotsInv
  <1>10. Grows
    BY <1>1, <1>2, <1>3, <1>8, <1>9, Scale DEF Grows
  <1>11. Accepts(sub)
    <2>1. PICK u : u = <<Client!Whole(sub)>> /\ Unit(u, sub) /\ Len(u) = 1 /\ u[1] = Client!Whole(sub)
      BY WholeUnit
    <2>2. slots'[Place(w)].pieces = slots[Place(w)].pieces
      <3>1. w # w + 1
        BY Scale
      <3> QED
        BY <1>8, <3>1
    <2>3. slots'[Place(w + 1)].pieces = <<u[1]>>
      BY <1>2, <1>8, <2>1 DEF b
    <2>4. Ahead(last_written') = w + Len(u) - 0 /\ 1 .. Len(u) - 0 = {1} /\ 0 + 1 = 1
      <3>1. Ahead(last_written') = w + 1
        BY <1>1, <1>2 DEF Ahead
      <3> QED
        BY <2>1, <3>1, Scale
    <2>5. \A j \in 1 .. Len(u) - 0 : slots'[Place(w + j)].pieces = <<u[0 + j]>>
      BY <2>3, <2>4
    <2>6. Appends(u, 0)
      BY <1>2, <2>2, <2>4, <2>5 DEF Appends
    <2>7. 0 \in 0 .. 1 /\ u \in Payloads
      BY <2>1 DEF Unit
    <2> QED
      BY <2>1, <2>6, <2>7 DEF Accepts
  <1> QED
    BY <1>10, <1>11

----------------------------------------------------------------------------
(* A submessage is written in fragments. *)

LEMMA QuotientIs ==
    ASSUME NEW c \in Nat \ {0}, NEW x \in Nat, c <= x
    PROVE  x \div c \in Nat \ {0} /\ x % c \in 0 .. c - 1
  <1>1. PICK q \in Int, r \in 0 .. c - 1 : q = x \div c /\ r = x % c /\ x = q * c + r
    BY ModIs
  <1>2. q > 0
    <2>1. SUFFICES ASSUME q <= 0 PROVE FALSE
      OBVIOUS
    <2>2. q * c <= 0
      BY <2>1
    <2> QED
      BY <1>1, <2>2
  <1> QED
    BY <1>1, <1>2

\* Only the slots from number u on can be free.
LEMMA FreeSlotsAre ==
    ASSUME UplinkAssumption, Typed, NEW u \in 1 .. History + 1,
           \A d \in 1 .. History : d < u => slots[Place(d)].size # 0
    PROVE  Client!FreeSlots \in Nat /\ Client!FreeSlots <= History + 1 - u
  <1> DEFINE free == {i \in 0 .. History - 1 : slots[i].size = 0}
  <1>1. Client!FreeSlots = Cardinality(free)
    BY Libraries DEF Client!FreeSlots
  <1>2. IsFiniteSet(u .. History) /\ Cardinality(u .. History) = History + 1 - u
    <2>1. u \in Int /\ History \in Int /\ u <= History + 1
      BY Scale
    <2>2. /\ IsFiniteSet(u .. History)
          /\ Cardinality(u .. History) = IF u > History THEN 0 ELSE History - u + 1
      BY <2>1, FS_Interval
    <2> QED
      BY <2>1, <2>2
  <1>3. \A i \in free : \E d \in u .. History : i = Place(d)
    <2>1. ASSUME NEW i \in free PROVE \E d \in u .. History : i = Place(d)
      <3>1. PICK d \in 1 .. History : i = Place(d)
        BY Places DEF Typed
      <3>2. ~(d < u)
        BY <3>1
      <3> QED
        BY <3>1, <3>2, Scale
    <2> QED
      BY <2>1
  <1> DEFINE g == [i \in free |-> CHOOSE d \in u .. History : i = Place(d)]
  <1>4. \A i \in free : g[i] \in u .. History /\ i = Place(g[i])
    BY <1>3
  <1> HIDE DEF g, free
  <1>5. g \in Injection(free, u .. History)
    BY <1>4 DEF Injection, IsInjective, g
  <1> QED
    BY <1>1, <1>2, <1>5, FS_Injection, FS_CardinalityType

\* What a slot gets: the first fragment behind what is there, ...
LEMMA WrittenIs ==
    ASSUME NEW sub, NEW n, NEW i, NEW m, m = Client!Necessary(n), NEW c \in 0 .. m,
           {d \in 0 .. m : Client!SlotOf(Client!ClientAdd(Client!FirstFragment, d)) = i} = {c}
    PROVE  LET part == [sub |-> sub, kind |-> IF c = m THEN "LAST" ELSE "FRAGMENT", part |-> c + 1]
               b    == Client!Written(sub, n, i)
           IN  /\ b.size = IF c = m THEN Client!LastSize(n) + 1 ELSE Capacity
               /\ b = [size |-> b.size, pieces |-> b.pieces]
               /\ c = 0 => b.pieces = Append(slots[i].pieces, part)
               /\ c # 0 /\ slots[i].pieces = <<>> => b.pieces = <<part>>
  <1> DEFINE here == {d \in 0 .. m : Client!SlotOf(Client!ClientAdd(Client!FirstFragment, d)) = i}
             Part(d) == [sub |-> sub, kind |-> IF d = m THEN "LAST" ELSE "FRAGMENT", part |-> d + 1]
             before == IF 0 \in here THEN Append(slots[i].pieces, Part(0)) ELSE slots[i].pieces
             last == CHOOSE d \in here : \A e \in here : e <= d
             size == IF last = m THEN Client!LastSize(n) + 1 ELSE Capacity
             pieces == CASE last = 0                     -> before
                         [] last # 0 /\ before = <<>>    -> <<Part(last)>>
                         [] last # 0 /\ before # <<>>    ->
                              <<[before[1] EXCEPT !.sub = sub, !.part = last + 1]>>
  <1>1. Client!Written(sub, n, i) =
            IF here = {} THEN slots[i] ELSE [size |-> size, pieces |-> pieces]
    BY DEF Client!Written
  <1>2. here = {c}
    OBVIOUS
  <1> HIDE DEF here
  <1>3. last = c
    BY <1>2
  <1>4. 0 \in here <=> c = 0
    BY <1>2
  <1> HIDE DEF last, Part
  <1>5. c = 0 => pieces = before /\ before = Append(slots[i].pieces, Part(c))
    BY <1>3, <1>4
  <1>6. c # 0 /\ slots[i].pieces = <<>> => pieces = <<Part(c)>>
    BY <1>3, <1>4, Zenon
  <1> HIDE DEF pieces, before
  <1>7. Client!Written(sub, n, i) = [size |-> size, pieces |-> pieces]
    BY <1>1, <1>2
  <1> QED
    BY <1>3, <1>5, <1>6, <1>7 DEF Part

\* ... and a slot no fragment goes to is left alone.
LEMMA WrittenElsewhere ==
    ASSUME NEW sub, NEW n, NEW i,
           {d \in 0 .. Client!Necessary(n) :
               Client!SlotOf(Client!ClientAdd(Client!FirstFragment, d)) = i} = {}
    PROVE  Client!Written(sub, n, i) = slots[i]
  BY DEF Client!Written

\* The fragments find their slots free.
LEMMA FragmentsFit ==
    ASSUME UplinkAssumption, Typed, OrderInv, SlotsInv, NEW n \in Sizes,
           n > Capacity, Client!Room(n)
    PROVE  LET m == Client!Necessary(n)
               f == Client!FirstFragment
           IN  /\ m \in Nat \ {0}
               /\ Client!LastSize(n) \in 1 .. Capacity - 1
               /\ f \in SeqNums /\ Ahead(f) \in Ahead(last_written) .. Ahead(last_written) + 1
               /\ Ahead(f) + m <= History
               /\ Ahead(f) # Ahead(last_written) => slots[Place(Ahead(last_written))].size # 0
  <1> DEFINE m == Client!Necessary(n)
             f == Client!FirstFragment
  <1>1. /\ n \in Nat /\ Capacity \in Nat /\ Capacity >= 2
        /\ \A i \in 0 .. History - 1 : slots[i].size \in 0 .. Capacity
    BY Constants DEF Typed, Buffers
  <1>2. PICK w \in 1 .. History + 1 : w = Ahead(last_written)
    BY NextIs
  <1>3. Client!SlotOf(last_written) = Place(w) /\ Place(w) \in 0 .. History - 1
    BY <1>2, NextIs, Places
  <1>4. /\ f \in SeqNums
        /\ \/ f = last_written /\ Ahead(f) = w
           \/ f = Wrap(last_written + 1) /\ Ahead(f) = w + 1 /\ slots[Place(w)].size # 0
    <2>1. f = IF slots[Place(w)].size + 1 >= Capacity THEN Wrap(last_written + 1) ELSE last_written
      BY <1>3, ClientArith DEF Client!FirstFragment
    <2>2. slots[Place(w)].size + 1 >= Capacity => slots[Place(w)].size # 0
      BY <1>1, <1>3
    <2> QED
      BY <1>2, <2>1, <2>2, NextIs
  <1>5. Client!SlotOf(f) = Place(Ahead(f)) /\ Client!SlotOf(f) \in 0 .. History - 1
    BY <1>4, NextIs, Places
  <1> DEFINE x == n - Client!FirstSize
  <1>6. x \in Nat /\ x >= 2
    <2>1. Client!FirstSize = Capacity - slots[Client!SlotOf(f)].size - 1
      BY DEF Client!FirstSize
    <2>2. slots[Client!SlotOf(f)].size \in 0 .. Capacity
      BY <1>1, <1>5
    <2> QED
      BY <1>1, <2>1, <2>2
  <1>7. m \in Nat \ {0} /\ Client!LastSize(n) \in 1 .. Capacity - 1
    <2>1. m = (x + Capacity - 2) \div (Capacity - 1)
      BY DEF Client!Necessary
    <2>2. Client!LastSize(n) = IF x % (Capacity - 1) = 0 THEN Capacity - 1 ELSE x % (Capacity - 1)
      BY DEF Client!LastSize
    <2> HIDE DEF m, x
    <2>3. PICK c \in Nat \ {0}, y \in Nat : c = Capacity - 1 /\ y = x + Capacity - 2 /\ c <= y
      BY <1>1, <1>6
    <2>4. y \div c \in Nat \ {0}
      BY <2>3, QuotientIs
    <2>5. x % c \in 0 .. c - 1
      <3>1. x \in Int
        BY <1>6
      <3> QED
        BY <3>1, ModIs
    <2> QED
      BY <1>1, <2>1, <2>2, <2>3, <2>4, <2>5
  <1> HIDE DEF m, f, x
  <1>8. m + (IF slots[Place(Ahead(f))].size = 0 THEN 1 ELSE 0) <= Client!FreeSlots
    BY <1>5 DEF Client!Room, Client!IsFree, m, f
  <1>9. Client!FreeSlots \in Nat /\ Client!FreeSlots <= History + 1 - w
    <2>1. \A d \in 1 .. History : d < w => slots[Place(d)].size # 0
      BY <1>2 DEF SlotsInv
    <2> QED
      BY <2>1, FreeSlotsAre
  <1>10. w <= History
    BY <1>7, <1>8, <1>9, Scale
  <1>11. slots[Place(w)].size # 0 => Client!FreeSlots <= History - w
    <2>1. SUFFICES ASSUME slots[Place(w)].size # 0 PROVE Client!FreeSlots <= History + 1 - (w + 1)
      BY Scale
    <2>2. w + 1 \in 1 .. History + 1
      BY <1>10, Scale
    <2>3. ASSUME NEW d \in 1 .. History, d < w + 1 PROVE slots[Place(d)].size # 0
      <3>1. d < w \/ d = w
        BY <2>3, Scale
      <3> QED
        BY <1>2, <2>1, <3>1 DEF SlotsInv
    <2> QED
      BY <2>2, <2>3, FreeSlotsAre
  <1>12. Ahead(f) + m <= History
    <2>1. CASE Ahead(f) = w
      BY <1>7, <1>8, <1>9, <1>10, <1>11, <2>1, Scale
    <2>2. CASE Ahead(f) = w + 1 /\ slots[Place(w)].size # 0
      <3>1. w + 1 \in 1 .. History
        BY <1>7, <1>8, <1>9, <1>10, <1>11, <2>2, Scale
      <3>2. w + 1 > w
        BY Scale
      <3>3. slots[Place(w + 1)].size = 0
        BY <1>2, <3>1, <3>2 DEF SlotsInv
      <3> QED
        BY <1>7, <1>8, <1>9, <1>10, <1>11, <2>2, <3>3, Scale
    <2> QED
      BY <1>4, <2>1, <2>2
  <1>13. Ahead(f) \in w .. w + 1
    BY <1>4, Scale
  <1>14. Ahead(f) # w => slots[Place(w)].size # 0
    BY <1>4
  <1> QED
    BY <1>2, <1>4, <1>7, <1>12, <1>13, <1>14 DEF m, f

LEMMA WriteFragmentsGrows ==
    ASSUME UplinkAssumption, Typed, OrderInv, SlotsInv,
           NEW sub \in Submessages, NEW n \in Sizes,
           Client!Room(n), Client!WriteFragments(sub, n)
    PROVE  Grows /\ Accepts(sub)
  <1> DEFINE M == Client!Necessary(n)
             f == Client!FirstFragment
  <1>1. /\ n > Capacity
        /\ slots' = [i \in 0 .. History - 1 |-> Client!Written(sub, n, i)]
        /\ last_written' = Wrap(f + M)
        /\ UNCHANGED <<last_sent, last_acknown>>
    BY ClientArith DEF Client!WriteFragments
  <1>2. /\ M \in Nat \ {0} /\ Client!LastSize(n) \in 1 .. Capacity - 1 /\ f \in SeqNums
        /\ Ahead(f) \in Ahead(last_written) .. Ahead(last_written) + 1
        /\ Ahead(f) + M <= History
        /\ Ahead(f) # Ahead(last_written) => slots[Place(Ahead(last_written))].size # 0
    BY <1>1, FragmentsFit
  <1> HIDE DEF M, f
  <1>3. PICK w \in 1 .. History, a \in 1 .. History, m \in 1 .. History :
            /\ w = Ahead(last_written) /\ a = Ahead(f) /\ m = M
            /\ a = w \/ a = w + 1
            /\ a + m <= History
    <2>1. Ahead(last_written) \in 1 .. History + 1
      BY NextIs
    <2>2. PICK w \in 1 .. History + 1 : w = Ahead(last_written)
      BY <2>1
    <2>3. Ahead(f) = w \/ Ahead(f) = w + 1
      BY <1>2, <2>2, Scale
    <2> QED
      BY <1>2, <2>2, <2>3, Scale
  <1>4. \A d \in 0 .. m : /\ Client!SlotOf(Client!ClientAdd(f, d)) = Place(a + d)
                         /\ Wrap(f + d) \in SeqNums /\ Ahead(Wrap(f + d)) = a + d
    <2>1. ASSUME NEW d \in 0 .. m
          PROVE  /\ Client!SlotOf(Client!ClientAdd(f, d)) = Place(a + d)
                 /\ Wrap(f + d) \in SeqNums /\ Ahead(Wrap(f + d)) = a + d
      <3>1. Client!ClientAdd(f, d) = Wrap(f + d)
        BY ClientArith
      <3>2. Wrap(f + d) \in SeqNums /\ Ahead(Wrap(f + d)) = a + d
        BY <1>2, <1>3, NextIs, Scale DEF Ahead, SeqSub, Wrap, SeqNums, Modulus
      <3> QED
        BY <3>1, <3>2, NextIs, Places
    <2> QED
      BY <2>1
  <1>5. last_written' \in SeqNums /\ Ahead(last_written') = a + m
    <2>1. m \in 0 .. m /\ last_written' = Wrap(f + m)
      BY <1>1, <1>3, Scale
    <2> QED
      BY <1>4, <2>1
  <1>6. \A d \in 1 .. History : /\ d < a => slots[Place(d)].size # 0
                                /\ d > a => slots[Place(d)].size = 0
    <2>1. ASSUME NEW d \in 1 .. History
          PROVE  /\ d < a => slots[Place(d)].size # 0
                 /\ d > a => slots[Place(d)].size = 0
      <3>1. /\ d < a => d < w \/ (d = w /\ a # w)
            /\ d > a => d > w
        BY <1>3, Scale
      <3> QED
        BY <1>2, <1>3, <3>1 DEF SlotsInv
    <2> QED
      BY <2>1
  <1> DEFINE Part(c) == [sub |-> sub, kind |-> IF c = m THEN "LAST" ELSE "FRAGMENT", part |-> c + 1]
  <1>7. ASSUME NEW d \in 1 .. History
        PROVE  /\ Place(d) \in 0 .. History - 1
               /\ d < a \/ d > a + m => slots'[Place(d)] = slots[Place(d)]
               /\ d \in a .. a + m => /\ slots'[Place(d)] \in Buffers
                                      /\ slots'[Place(d)].size # 0
                                      /\ slots'[Place(d)].pieces # <<>>
               /\ d = a => slots'[Place(d)].pieces = Append(slots[Place(d)].pieces, Part(0))
               /\ \A c \in 1 .. m : d = a + c => slots'[Place(d)].pieces = <<Part(c)>>
    <2> DEFINE here == {e \in 0 .. M : Client!SlotOf(Client!ClientAdd(f, e)) = Place(d)}
    <2>1. Place(d) \in 0 .. History - 1 /\ slots'[Place(d)] = Client!Written(sub, n, Place(d))
      BY <1>1, NextIs, Places
    <2>2. here = {e \in 0 .. m : a + e = d}
      <3>1. \A e \in 0 .. m : a + e \in 1 .. History
        BY <1>3, Scale
      <3>2. \A e \in 0 .. m : Place(a + e) = Place(d) <=> a + e = d
        BY <3>1, NextIs, Places
      <3> QED
        BY <1>3, <1>4, <3>2
    <2>3. CASE d < a \/ d > a + m
      <3>1. here = {}
        <4>1. \A e \in 0 .. m : a + e # d
          BY <2>3, Scale
        <4> QED
          BY <2>2, <4>1
      <3> QED
        BY <2>1, <2>3, <3>1, WrittenElsewhere, Scale DEF M, f
    <2>4. CASE d \in a .. a + m
      <3>1. PICK c \in 0 .. m : d = a + c
        BY <2>4, Scale
      <3>2. here = {c}
        <4>1. \A e \in 0 .. m : a + e = d <=> e = c
          BY <3>1, Scale
        <4> QED
          BY <2>2, <4>1
      <3> DEFINE part == Part(c)
                 b == Client!Written(sub, n, Place(d))
      <3>3. /\ b.size = IF c = m THEN Client!LastSize(n) + 1 ELSE Capacity
            /\ b = [size |-> b.size, pieces |-> b.pieces]
            /\ c = 0 => b.pieces = Append(slots[Place(d)].pieces, part)
            /\ c # 0 /\ slots[Place(d)].pieces = <<>> => b.pieces = <<part>>
        BY <1>3, <3>2, WrittenIs DEF M, f
      <3>4. part \in Client!Pieces
        BY Scale DEF Client!Pieces
      <3> HIDE DEF b, part, Part
      <3>5. c # 0 => slots[Place(d)].pieces = <<>>
        <4>1. c # 0 => d > a
          BY <3>1, Scale
        <4> QED
          BY <1>6, <2>1, <4>1 DEF Typed
      <3>6. b.size \in 1 .. Capacity
        <4>1. Capacity \in Nat /\ Capacity >= 2
          BY Constants
        <4> QED
          BY <1>2, <3>3, <4>1
      <3>7. b.pieces \in Payloads /\ b.pieces # <<>>
        <4>1. slots[Place(d)].pieces \in Payloads
          BY <2>1 DEF Typed, Buffers
        <4>2. ASSUME NEW u \in Payloads
              PROVE  /\ Append(u, part) \in Payloads /\ Append(u, part) # <<>>
                     /\ <<part>> \in Payloads /\ <<part>> # <<>>
          BY <3>4, OneMore DEF Payloads
        <4> QED
          BY <3>3, <3>5, <4>1, <4>2
      <3>8. b \in Buffers /\ b.size # 0
        <4>1. b.size \in 0 .. Capacity /\ b.size # 0
          BY <3>6, Constants
        <4> QED
          BY <3>3, <3>7, <4>1 DEF Buffers
      <3>9. slots'[Place(d)] = b
        BY <2>1 DEF b
      <3>10. d = a => b.pieces = Append(slots[Place(d)].pieces, Part(0))
        <4>1. d = a => c = 0
          BY <3>1, Scale
        <4> QED
          BY <3>3, <4>1 DEF part
      <3>11. ASSUME NEW e \in 1 .. m, d = a + e PROVE b.pieces = <<Part(e)>>
        <4>1. e = c /\ c # 0
          BY <3>1, <3>11, Scale
        <4> QED
          BY <3>3, <3>5, <4>1 DEF part
      <3> QED
        BY <2>1, <2>4, <3>7, <3>8, <3>9, <3>10, <3>11, Scale
    <2>5. (d = a => d \in a .. a + m) /\ \A e \in 1 .. m : d = a + e => d \in a .. a + m
      BY Scale
    <2> HIDE DEF Part
    <2> QED
      BY <2>1, <2>3, <2>4, <2>5, Scale
  <1> HIDE DEF Part
  <1>8. ASSUME NEW i \in 0 .. History - 1
        PROVE  slots'[i] \in Buffers /\ (slots'[i].size = 0 <=> slots'[i].pieces = <<>>)
    <2>1. PICK d \in 1 .. History : i = Place(d)
      BY NextIs, Places
    <2>2. slots[i] \in Buffers /\ (slots[i].size = 0 <=> slots[i].pieces = <<>>)
      BY DEF Typed
    <2>3. d < a \/ d > a + m \/ d \in a .. a + m
      BY Scale
    <2> QED
      BY <1>7, <2>1, <2>2, <2>3
  <1>9. slots' \in [0 .. History - 1 -> Buffers]
    <2>1. slots' = [i \in 0 .. History - 1 |-> slots'[i]]
      BY <1>1
    <2> QED
      BY <1>8, <2>1
  <1>10. ASSUME NEW d \in 1 .. History
         PROVE  /\ d < w => slots'[Place(d)] = slots[Place(d)]
                /\ d < a + m => slots'[Place(d)].size # 0
                /\ d > a + m => slots'[Place(d)].size = 0
    <2>1. /\ d < w => d < a
          /\ d < a + m => d < a \/ d \in a .. a + m
          /\ d > a + m => d > a
      BY <1>3, Scale
    <2> QED
      BY <1>6, <1>7, <2>1
  <1>11. w <= a + m
    BY <1>3, Scale
  <1>12. UNCHANGED <<last_sent, last_acknown>>
    BY <1>1
  <1> HIDE DEF M, f
  <1>13. Grows
    BY <1>3, <1>5, <1>8, <1>9, <1>10, <1>11, <1>12 DEF Grows
  <1>14. Accepts(sub)
    <2>1. PICK u \in Payloads :
             /\ Unit(u, sub) /\ Len(u) = m + 1
             /\ \A j \in 1 .. m + 1 : u[j] = Part(j - 1)
      <3> DEFINE u == [j \in 1 .. m + 1 |-> Part(j - 1)]
      <3>1. \A j \in 1 .. m + 1 : Part(j - 1) \in Client!Pieces
        BY Scale DEF Part, Client!Pieces
      <3> HIDE DEF Part
      <3>2. m + 1 \in Nat /\ m + 1 > 1
        BY Scale
      <3>3. u \in Payloads /\ Len(u) = m + 1 /\ \A j \in 1 .. m + 1 : u[j] = Part(j - 1)
        BY <3>1, <3>2 DEF Payloads
      <3> HIDE DEF u
      <3>4. \A j \in 1 .. m + 1 :
               /\ Part(j - 1).sub = sub /\ Part(j - 1).part = j
               /\ Part(j - 1).kind = IF j < m + 1 THEN "FRAGMENT" ELSE "LAST"
        BY <3>2, Scale DEF Part
      <3>5. ASSUME NEW j \in 1 .. m + 1
            PROVE  u[j].kind = IF j < m + 1 THEN "FRAGMENT" ELSE IF j = 1 THEN "WHOLE" ELSE "LAST"
        <4>1. ~(j < m + 1) => j # 1
          BY <3>2
        <4>2. u[j] = Part(j - 1)
          BY <3>3
        <4>3. Part(j - 1).kind = IF j < m + 1 THEN "FRAGMENT" ELSE "LAST"
          BY <3>4
        <4> QED
          BY <4>1, <4>2, <4>3
      <3>6. ASSUME NEW j \in 1 .. m + 1 PROVE u[j].sub = sub /\ u[j].part = j
        BY <3>3, <3>4
      <3>7. Unit(u, sub)
        <4>1. u \in Payloads /\ Len(u) > 0
          BY <3>2, <3>3
        <4>2. Len(u) = m + 1
          BY <3>3
        <4> QED
          BY <3>5, <3>6, <4>1, <4>2 DEF Unit
      <3> QED
        BY <3>3, <3>7, Zenon
    <2>2. PICK c \in 0 .. 1 : IF a = w THEN c = 1 ELSE c = 0
      OBVIOUS
    <2>3. Ahead(last_written') = w + Len(u) - c
      <3>1. PICK e \in Int : e = Ahead(last_written') /\ e = a + m
        BY <1>3, <1>5, Scale
      <3>2. Len(u) = m + 1
        BY <2>1
      <3>3. CASE a = w
        BY <1>3, <2>2, <3>1, <3>2, <3>3, Scale
      <3>4. CASE a # w
        BY <1>3, <2>2, <3>1, <3>2, <3>4, Scale
      <3> QED
        BY <3>3, <3>4
    <2>4. slots'[Place(w)].pieces =
             IF c = 1 THEN Append(slots[Place(w)].pieces, u[1]) ELSE slots[Place(w)].pieces
      <3>1. CASE c = 1
        <4>1. a = w /\ u[1] = Part(0)
          BY <2>1, <2>2, <3>1, Scale
        <4> QED
          BY <1>7, <3>1, <4>1
      <3>2. CASE c # 1
        <4>1. w < a
          BY <1>3, <2>2, <3>2, Scale
        <4> QED
          BY <1>7, <3>2, <4>1
      <3> QED
        BY <3>1, <3>2
    <2>5. ASSUME NEW j \in 1 .. Len(u) - c PROVE slots'[Place(w + j)].pieces = <<u[c + j]>>
      <3>1. PICK e \in 0 .. m : w + j = a + e /\ u[c + j] = Part(e) /\ (e = 0 => a = w + 1)
        <4>1. PICK e \in 0 .. m : w + j = a + e /\ c + j = e + 1 /\ (e = 0 => a = w + 1)
          <5>1. CASE c = 1
            <6>1. a = w /\ j \in 1 .. m
              BY <2>1, <2>2, <5>1, Scale
            <6>2. w + j = a + j /\ c + j = j + 1 /\ j \in 0 .. m /\ j # 0
              BY <5>1, <6>1, Scale
            <6> QED
              BY <6>2
          <5>2. CASE c = 0
            <6>1. a = w + 1 /\ j \in 1 .. m + 1
              BY <1>3, <2>1, <2>2, <5>2, Scale
            <6>2. PICK e \in 0 .. m : e = j - 1
              BY <6>1, Scale
            <6>3. w + j = a + e /\ c + j = e + 1
              BY <5>2, <6>1, <6>2, Scale
            <6> QED
              BY <6>1, <6>3
          <5> QED
            BY <5>1, <5>2
        <4>2. e + 1 \in 1 .. m + 1 /\ (e + 1) - 1 = e
          BY Scale
        <4>3. u[e + 1] = Part(e)
          BY <2>1, <4>2
        <4> QED
          BY <4>1, <4>3
      <3>2. PICK d \in 1 .. History : d = a + e /\ d = w + j
        <4>1. a + e \in 1 .. History /\ a + e = w + j
          BY <1>3, <3>1, Scale, SMTT(60)
        <4> QED
          BY <4>1, Zenon
      <3>3. CASE e = 0
        <4>1. d = a /\ d > w
          BY <3>1, <3>2, <3>3, Scale
        <4>2. slots[Place(d)].size = 0 /\ Place(d) \in 0 .. History - 1
          BY <1>3, <1>7, <4>1 DEF SlotsInv
        <4>3. slots[Place(d)].pieces = <<>>
          BY <4>2 DEF Typed
        <4>4. slots'[Place(d)].pieces = Append(<<>>, Part(0))
          BY <1>7, <4>1, <4>3
        <4>5. Append(<<>>, Part(0)) = <<Part(0)>>
          OBVIOUS
        <4> QED
          BY <3>1, <3>2, <3>3, <4>4, <4>5
      <3>4. CASE e # 0
        <4>1. e \in 1 .. m
          BY <3>4, Scale
        <4> QED
          BY <1>7, <3>1, <3>2, <4>1
      <3> QED
        BY <3>3, <3>4
    <2> QED
      BY <1>3, <2>1, <2>2, <2>3, <2>4, <2>5 DEF Accepts, Appends
  <1> QED
    BY <1>13, <1>14

----------------------------------------------------------------------------
(* The invariant holds. *)

LEMMA GrowsUp ==
    ASSUME UplinkAssumption, UpInv, Grows, AgentIdle, UNCHANGED acks,
           network' = {p \in network : ~Old(p)}
    PROVE  UpInv'
  <1>1. /\ Typed /\ OrderInv /\ SlotsInv /\ HeldInv /\ AcksInv /\ PacketsInv /\ ContentInv
        /\ UNCHANGED <<messages, last_handled, last_announced, fragment, acks>>
        /\ UNCHANGED <<last_sent, last_acknown>>
        /\ network' \subseteq network
    BY DEF UpInv, AgentIdle, Grows
  <1>2. /\ last_written \in SeqNums /\ last_sent \in SeqNums /\ last_acknown \in SeqNums
        /\ last_handled \in SeqNums /\ last_written' \in SeqNums
    BY <1>1 DEF Typed, Grows
  <1>3. PICK h \in 0 .. History, s \in 0 .. History, w \in 1 .. History, v \in 1 .. History :
            /\ h = Ahead(last_handled) /\ s = Ahead(last_sent)
            /\ w = Ahead(last_written) /\ v = Ahead(last_written')
            /\ h <= s /\ s < w /\ w <= v
    <2>1. /\ Ahead(last_handled) \in Nat /\ Ahead(last_sent) \in Nat
          /\ Ahead(last_written) \in Nat /\ Ahead(last_written') \in Nat
      <3>1. ASSUME NEW k \in SeqNums PROVE Ahead(k) \in Nat
        BY <1>2, Scale DEF Ahead, SeqSub, SeqNums, Modulus
      <3> QED
        BY <1>2, <3>1
    <2> QED
      BY <1>1, <2>1, Scale DEF OrderInv, Grows
  <1>4. /\ SeqSub(last_written', last_acknown') = v
        /\ SeqSub(last_sent', last_acknown') = s
        /\ SeqSub(last_handled', last_acknown') = h
    BY <1>1, <1>3 DEF Ahead
  <1>5. Typed'
    <2>1. \A p \in network' : DataOK(p) \/ HeartbeatOK(p)
      BY <1>1 DEF Typed
    <2> QED
      BY <1>1, <1>2, <2>1 DEF Typed, Grows
  <1>6. OrderInv'
    BY <1>3, <1>4, Scale DEF OrderInv, Ahead
  <1>7. SlotsInv'
    <2>1. \A d \in 1 .. History : Wrap(last_acknown' + d) % History = Place(d)
      BY <1>1 DEF Place
    <2>2. \A d \in 1 .. History : /\ d < v => slots'[Place(d)].size # 0
                                  /\ d > v => slots'[Place(d)].size = 0
      BY <1>3 DEF Grows
    <2> QED
      BY <1>4, <2>1, <2>2 DEF SlotsInv, Place, Ahead
  <1>8. HeldInv' /\ AcksInv'
    BY <1>1 DEF HeldInv, AcksInv, Ahead, Acknowledged
  <1>9. ASSUME NEW p \in network'
        PROVE  /\ SeqSub(last_written', NumberOf(p)) < Half
               /\ p.type = "DATA" => SeqSub(last_written', p.num) >= SeqSub(last_written', last_sent')
               /\ p.type = "HEARTBEAT" => SeqSub(last_written', p.window.first) >= v - 1
    <2>1. /\ NumberOf(p) \in SeqNums
          /\ NumberOf(p) = IF p.type = "DATA" THEN p.num ELSE p.window.first
          /\ Age(NumberOf(p)) < Half
      BY <1>1 DEF Typed, DataOK, HeartbeatOK, NumberOf, PacketsInv
    <2>2. SeqSub(last_written', NumberOf(p)) < Half
      <3>1. ~Old(p) /\ SeqSub(last_written', NumberOf(p)) \in Int
        BY <1>2, <2>1, Apart
      <3> QED
        BY <3>1, Scale DEF Old
    <2>3. SeqSub(last_written', last_written) = v - w
      BY <1>2, <1>3, Apart, Scale
    <2>4. SeqSub(last_written', NumberOf(p)) = Age(NumberOf(p)) + (v - w)
      <3>1. SeqSub(last_written', last_written) < Half
        BY <2>3, <1>3, Scale
      <3>2. Age(NumberOf(p)) \in Int /\ SeqSub(last_written', NumberOf(p)) \in Int
        BY <1>2, <2>1, Apart DEF Age
      <3>3. SeqSub(last_written', last_written) =
                SeqSub(last_written', NumberOf(p)) - SeqSub(last_written, NumberOf(p))
        BY <1>2, <2>1, <3>1, Between DEF Age
      <3> QED
        BY <2>3, <3>2, <3>3, Scale DEF Age
    <2>5. Age(NumberOf(p)) \in Int
      BY <1>2, <2>1, Apart DEF Age
    <2>6. p.type = "DATA" => SeqSub(last_written', p.num) >= SeqSub(last_written', last_sent')
      <3>1. SUFFICES ASSUME p.type = "DATA" PROVE Age(p.num) + (v - w) >= SeqSub(last_written', last_sent')
        BY <2>1, <2>4
      <3>2. SeqSub(last_written', last_sent') = v - s
        BY <1>1, <1>2, <1>3, Apart, Scale
      <3>3. Age(last_sent) = w - s
        BY <1>2, <1>3, Apart, Scale DEF Age
      <3>4. Age(p.num) >= w - s /\ Age(p.num) \in Int
        BY <1>1, <2>1, <2>5, <3>1, <3>3 DEF PacketsInv
      <3> QED
        BY <3>2, <3>4, Scale
    <2>7. p.type = "HEARTBEAT" => SeqSub(last_written', p.window.first) >= v - 1
      <3>1. SUFFICES ASSUME p.type = "HEARTBEAT", NumberOf(p) = p.window.first
                     PROVE  Age(p.window.first) + (v - w) >= v - 1
        BY <2>1, <2>4
      <3>2. Age(p.window.first) >= w - 1 /\ Age(p.window.first) \in Int
        BY <1>1, <1>3, <2>5, <3>1 DEF PacketsInv
      <3> QED
        BY <3>2, Scale
    <2> QED
      BY <2>2, <2>6, <2>7
  <1>10. PacketsInv'
    BY <1>4, <1>9 DEF PacketsInv, Age, Ahead, NumberOf
  <1>11. \A k \in SeqNums : Ahead(k) \in 1 .. s => slots'[k % History] = slots[k % History]
    <2>1. ASSUME NEW k \in SeqNums, Ahead(k) \in 1 .. s
          PROVE  slots'[k % History] = slots[k % History]
      <3>1. k % History = Place(Ahead(k)) /\ Ahead(k) \in 1 .. History /\ Ahead(k) < w
        BY <1>2, <1>3, <2>1, Places, Scale
      <3> QED
        BY <1>3, <3>1 DEF Grows
    <2> QED
      BY <2>1
  <1>12. ContentInv'
    <2>1. ASSUME NEW k \in DOMAIN messages PROVE messages[k] = slots'[k % History].pieces
      <3>1. k \in SeqNums /\ SeqSub(k, last_handled) \in 2 .. Depth
            /\ SeqSub(k, last_handled) <= SeqSub(last_sent, last_handled)
        BY <1>1 DEF Typed, HeldInv
      <3>2. Ahead(k) \in 1 .. s
        BY <1>2, <1>3, <3>1, Scale DEF Ahead, SeqSub, SeqNums, Modulus
      <3> QED
        BY <1>1, <1>11, <3>1, <3>2 DEF ContentInv
    <2>2. ASSUME NEW p \in network', p.type = "DATA", SeqSub(p.num, last_acknown) \in 1 .. s
          PROVE  p.msg = slots'[p.num % History].pieces
      <3>1. p \in network /\ p.num \in SeqNums /\ Ahead(p.num) \in 1 .. s
        BY <1>1, <2>2 DEF Typed, DataOK, HeartbeatOK, Ahead
      <3> QED
        BY <1>1, <1>3, <1>11, <2>2, <3>1 DEF ContentInv
    <2> QED
      BY <1>1, <1>4, <2>1, <2>2 DEF ContentInv, Ahead
  <1> QED
    BY <1>5, <1>6, <1>7, <1>8, <1>10, <1>12 DEF UpInv

\* What the stream relies on: the application does not write a fragment into a
\* buffer too small for it (Careful), a session is created again only when nothing
\* of the one before flies (Drained), and ACKNACKs keep their order.  Each is
\* needed: MCLinksOverwrite shows what an application that is not careful
\* overwrites, MCLinksReorder what an overtaken ACKNACK frees, and the packets of
\* a session that ended are taken for the next one's where it is not drained.
Ordered == Careful /\ Drained /\ ~Reorders

LEMMA WriteGrows ==
    ASSUME UplinkAssumption, Careful, UpInv,
           NEW sub \in Submessages, NEW n \in Sizes, Client!Write(sub, n)
    PROVE  Grows /\ Accepts(sub)
  <1>1. Typed /\ OrderInv /\ SlotsInv
    BY DEF UpInv
  <1>2. CASE Client!WriteHere(sub, n)
    BY <1>1, <1>2, WriteHereGrows
  <1>3. CASE Client!WriteNext(sub, n)
    BY <1>1, <1>3, WriteNextGrows
  <1>4. CASE Client!Room(n) /\ Client!WriteFragments(sub, n)
    BY <1>1, <1>4, WriteFragmentsGrows
  <1> QED
    BY <1>2, <1>3, <1>4 DEF Client!Write

LEMMA StepUp == ASSUME UplinkAssumption, Ordered, UpInv, [Next]_vars PROVE UpInv'
  <1>1. CASE UNCHANGED vars
    <2>1. /\ UNCHANGED <<slots, last_written, last_sent, last_acknown, network, acks>>
          /\ UNCHANGED <<messages, last_handled, last_announced, fragment>>
      BY <1>1 DEF vars, clientVars, agentVars
    <2> QED
      BY <2>1 DEF UpInv, Typed, OrderInv, SlotsInv, HeldInv, AcksInv, PacketsInv, ContentInv,
                  Ahead, Place, Age, Acknowledged, NumberOf
  <1>2. ASSUME NEW sub \in Submessages, NEW n \in Sizes, Write(sub, n) PROVE UpInv'
    BY <1>2, WriteGrows, GrowsUp DEF Write, Ordered
  <1>3. CASE Flash
    BY <1>3, FlashUp
  <1>4. CASE SendHeartbeat
    BY <1>4, SendHeartbeatUp
  <1>5. ASSUME NEW i \in DOMAIN acks, ReceiveAcknack(i) PROVE UpInv'
    BY <1>5, ReceiveAcknackUp DEF Ordered
  <1>6. ASSUME NEW p \in network, ReceiveData(p) PROVE UpInv'
    BY <1>6, ReceiveDataUp
  <1>7. ASSUME NEW p \in network, ReceiveHeartbeat(p) PROVE UpInv'
    BY <1>7, ReceiveHeartbeatUp
  <1>8. CASE Restart
    BY <1>8, RestartUp DEF Ordered
  <1> QED
    BY <1>1, <1>2, <1>3, <1>4, <1>5, <1>6, <1>7, <1>8 DEF Next

\* The positions of both sides follow one another, the slots in use are those
\* of the messages written, what the Agent holds and what may still come is
\* what the Client keeps: in every behaviour of the stream.
THEOREM UpInvariant == ASSUME UplinkAssumption, Ordered PROVE Spec => []UpInv
  <1>1. Init => UpInv
    BY InitUp
  <1>2. UpInv /\ [Next]_vars => UpInv'
    BY StepUp
  <1> QED
    BY <1>1, <1>2, PTL DEF Spec

----------------------------------------------------------------------------
(* What the invariant says. *)

\* The slots of the Client in use are those of the messages not acknowledged,
\* without a hole the sending loop would stop at, and nothing the Agent could
\* take out waits for the next packet.
LEMMA UpSound == ASSUME UplinkAssumption, UpInv PROVE WindowsSound
  <1>1. Typed /\ OrderInv /\ SlotsInv /\ HeldInv
    BY DEF UpInv
  <1>2. /\ last_written \in SeqNums /\ last_sent \in SeqNums /\ last_acknown \in SeqNums
        /\ last_handled \in SeqNums /\ last_announced \in SeqNums
        /\ fragment \in Payloads
    BY <1>1 DEF Typed
  <1>3. ASSUME NEW u \in Payloads, NEW j \in DOMAIN u PROVE u[j] \in Client!Pieces
    BY SequencesAre DEF Payloads
  <1>4. Client!TypeOK
    <2>1. ASSUME NEW i \in 0 .. History - 1
          PROVE  /\ slots[i].size \in 0 .. Capacity /\ slots[i].pieces \in Payloads
                 /\ slots[i].size = 0 <=> slots[i].pieces = <<>>
      BY <1>1 DEF Typed, Buffers
    <2> QED
      BY <1>2, <1>3, <2>1, ClientArith DEF Client!TypeOK
  <1>5. Agent!TypeOK
    BY <1>1, <1>2, AgentArith DEF Typed, Agent!TypeOK, Payloads
  <1>6. Agent!HeldAhead
    BY <1>1, AgentArith DEF Agent!HeldAhead, HeldInv
  <1>7. Client!WindowHeld
    <2>1. Ahead(last_written) \in 1 .. History + 1 /\ Ahead(last_sent) \in 0 .. History
      BY <1>1, <1>2, Scale DEF OrderInv, Ahead, SeqSub, SeqNums, Modulus
    <2>2. SeqSub(last_written, last_sent) = Ahead(last_written) - Ahead(last_sent)
      BY <1>1, <1>2, <2>1, Apart, Scale DEF OrderInv
    <2>3. ASSUME NEW d \in 1 .. History
          PROVE  LET k == Client!ClientAdd(last_acknown, d)
                 IN  /\ Client!SeqLt(k, last_written) => ~Client!IsFree(k)
                     /\ Client!SeqLt(last_written, k) => Client!IsFree(k)
      <3>1. PICK k \in SeqNums : k = Wrap(last_acknown + d) /\ Ahead(k) = d
        BY <1>2, Scale DEF Ahead, SeqSub, Wrap, SeqNums, Modulus
      <3>2. Client!IsFree(k) <=> slots[Place(d)].size = 0
        BY <1>2, <3>1, Places DEF Client!IsFree
      <3>3. /\ SeqLt(k, last_written) => d < Ahead(last_written)
            /\ SeqLt(last_written, k) => d > Ahead(last_written)
        BY <1>2, <2>1, <3>1, Scale DEF SeqLt, Ahead, SeqSub, SeqNums, Modulus
      <3> QED
        BY <1>1, <3>1, <3>2, <3>3, ClientArith DEF SlotsInv
    <2>4. /\ Client!SeqSub(last_sent, last_acknown) <= History
          /\ Client!SeqSub(last_written, last_sent) \in 1 .. History + 1
      <3>1. Ahead(last_sent) < Ahead(last_written)
        BY <1>1 DEF OrderInv
      <3>2. SeqSub(last_written, last_sent) \in 1 .. History + 1
        BY <2>1, <2>2, <3>1, Scale
      <3> QED
        BY <2>1, <3>2, ClientArith, Scale DEF Ahead
    <2> QED
      BY <2>3, <2>4 DEF Client!WindowHeld
  <1> QED
    BY <1>4, <1>5, <1>6, <1>7 DEF WindowsSound, TypeOK

\* Every message the Agent has not taken out is one the Client can still send.
LEMMA UpKeeps == ASSUME UplinkAssumption, UpInv PROVE NothingLost
  <1>1. /\ Typed /\ OrderInv /\ SlotsInv
        /\ last_written \in SeqNums /\ last_sent \in SeqNums /\ last_acknown \in SeqNums
        /\ last_handled \in SeqNums
    BY DEF UpInv, Typed
  <1>2. PICK h \in 0 .. History, w \in 1 .. History + 1 :
            h = Ahead(last_handled) /\ w = Ahead(last_written) /\ h < w
    <2>1. ASSUME NEW k \in SeqNums PROVE Ahead(k) \in Nat
      BY <1>1, Scale DEF Ahead, SeqSub, SeqNums, Modulus
    <2>2. Ahead(last_handled) \in Nat /\ Ahead(last_sent) \in Nat /\ Ahead(last_written) \in Nat
      BY <1>1, <2>1
    <2> QED
      BY <1>1, <2>2, Scale DEF OrderInv
  <1>3. SeqSub(last_written, last_handled) = w - h
    BY <1>1, <1>2, Apart, Scale
  <1> DEFINE k(d) == ClientAdd(last_handled, d)
  <1>4. Outstanding = [d \in 1 .. w - h |->
                          IF SeqSub(k(d), last_acknown) \in 1 .. History
                          THEN slots[Client!SlotOf(k(d))].pieces ELSE <<>>]
    BY <1>3 DEF Outstanding
  <1>5. ASSUME NEW d \in 1 .. w - h, d < w - h
        PROVE  /\ SeqSub(k(d), last_acknown) \in 1 .. History
               /\ slots[Client!SlotOf(k(d))].pieces # <<>>
    <2>1. k(d) \in SeqNums /\ Ahead(k(d)) = h + d
      BY <1>1, <1>2, <1>5, Scale DEF ClientAdd, Ahead, SeqSub, Wrap, SeqNums, Modulus
    <2>2. h + d \in 1 .. History /\ h + d < w
      BY <1>2, <1>5, Scale
    <2>3. Client!SlotOf(k(d)) = Place(h + d) /\ Place(h + d) \in 0 .. History - 1
      BY <1>1, <2>1, <2>2, Places
    <2>4. slots[Place(h + d)].size # 0
      BY <1>1, <1>2, <2>2 DEF SlotsInv
    <2>5. slots[Place(h + d)].pieces # <<>>
      BY <1>1, <2>3, <2>4 DEF Typed
    <2> QED
      BY <2>1, <2>2, <2>3, <2>5 DEF Ahead
  <1> HIDE DEF k
  <1>6. Len(Outstanding) = w - h /\ DOMAIN Outstanding = 1 .. w - h
    <2>1. w - h \in Nat
      BY <1>2, Scale
    <2> QED
      BY <1>4, <2>1
  <1> QED
    BY <1>4, <1>5, <1>6 DEF NothingLost

\* What the Client takes for acknowledged was taken out by the Agent.
LEMMA UpConfirms == ASSUME UplinkAssumption, UpInv PROVE ConfirmedIsHandled
  <1>1. /\ Typed /\ OrderInv
        /\ last_written \in SeqNums /\ last_sent \in SeqNums /\ last_acknown \in SeqNums
        /\ last_handled \in SeqNums
    BY DEF UpInv, Typed
  <1>2. PICK h \in 0 .. History, s \in 0 .. History :
            h = Ahead(last_handled) /\ s = Ahead(last_sent) /\ h <= s
    <2>1. ASSUME NEW k \in SeqNums PROVE Ahead(k) \in Nat
      BY <1>1, Scale DEF Ahead, SeqSub, SeqNums, Modulus
    <2>2. Ahead(last_handled) \in Nat /\ Ahead(last_sent) \in Nat
      BY <1>1, <2>1
    <2> QED
      BY <1>1, <2>2, Scale DEF OrderInv
  <1>3. SeqSub(last_sent, last_handled) = s - h /\ SeqSub(last_sent, last_acknown) = s
    BY <1>1, <1>2, Apart, Scale DEF Ahead
  <1>4. Client!UpToDate => last_handled = last_sent
    <2>1. SUFFICES ASSUME last_acknown = last_sent PROVE last_handled = last_sent
      BY DEF Client!UpToDate
    <2>2. s = 0
      BY <1>1, <1>2, <2>1, SubRange DEF Ahead
    <2>3. h = 0
      BY <1>2, <2>2, Scale
    <2> QED
      BY <1>1, <1>2, <2>1, <2>3, SubRange DEF Ahead
  <1> QED
    BY <1>2, <1>3, <1>4, Scale DEF ConfirmedIsHandled

----------------------------------------------------------------------------
(* What is kept, step by step *)

\* What was sent, until it is acknowledged.
SentStays ==
    \/ Client!Reset
    \/ \A d \in 1 .. Client!SeqSub(last_sent, last_acknown) :
          LET k == Client!ClientAdd(last_acknown, d)
          IN  Client!SeqLt(last_acknown', k) => slots'[Client!SlotOf(k)] = slots[Client!SlotOf(k)]

\* What the Agent holds, until its turn comes.
HeldStays ==
    \/ Agent!Reset
    \/ \A k \in DOMAIN messages :
          Agent!SeqLt(last_handled', k) => k \in DOMAIN messages' /\ messages'[k] = messages[k]

LEMMA SentIs ==
    ASSUME UplinkAssumption, UpInv, NEW d \in 1 .. Client!SeqSub(last_sent, last_acknown)
    PROVE  LET k == Client!ClientAdd(last_acknown, d)
           IN  /\ d \in 1 .. History /\ d < Ahead(last_written)
               /\ k \in SeqNums /\ Ahead(k) = d /\ Client!SlotOf(k) = Place(d)
  <1>1. /\ last_acknown \in SeqNums /\ last_sent \in SeqNums /\ last_written \in SeqNums
        /\ Ahead(last_sent) <= History /\ Ahead(last_sent) < Ahead(last_written)
    BY DEF UpInv, Typed, OrderInv
  <1>2. d \in 1 .. History /\ d < Ahead(last_written)
    <2>1. Ahead(last_sent) \in Int /\ Ahead(last_written) \in Int
      BY <1>1, Apart
    <2>2. d \in 1 .. Ahead(last_sent)
      BY ClientArith DEF Ahead
    <2> QED
      BY <1>1, <2>1, <2>2, Scale
  <1>3. PICK k \in SeqNums : k = Client!ClientAdd(last_acknown, d) /\ Ahead(k) = d
    <2>1. d \in 0 .. MaxSeq
      BY <1>2, Scale DEF MaxSeq, Modulus
    <2>2. Client!ClientAdd(last_acknown, d) = Wrap(last_acknown + d)
      BY ClientArith
    <2> QED
      BY <1>1, <2>1, <2>2, Where
  <1>4. Client!SlotOf(k) = Place(d)
    BY <1>1, <1>3, Places
  <1> QED
    BY <1>2, <1>3, <1>4

LEMMA StepKeepsSent == ASSUME UplinkAssumption, Ordered, UpInv, [Next]_vars PROVE SentStays
  <1>1. CASE UNCHANGED slots
    BY <1>1 DEF SentStays
  <1>2. ASSUME NEW sub \in Submessages, NEW n \in Sizes, Write(sub, n) PROVE SentStays
    <2>1. Grows
      BY <1>2, WriteGrows DEF Write, Ordered
    <2>2. \A d \in 1 .. History : d < Ahead(last_written) => slots'[Place(d)] = slots[Place(d)]
      BY <2>1 DEF Grows
    <2> QED
      BY <2>2, SentIs DEF SentStays
  <1>3. ASSUME NEW i \in DOMAIN acks, ReceiveAcknack(i) PROVE SentStays
    <2>1. /\ last_acknown \in SeqNums /\ last_acknown' = Acknowledged(i)
          /\ Acknowledged(i) \in SeqNums
      <3>1. acks[i].first \in SeqNums
        BY AcksAre DEF UpInv
      <3>2. SeqSub(acks[i].first, 1) \in SeqNums
        BY <3>1, Scale DEF SeqSub, SeqNums, Modulus
      <3> QED
        BY <1>3, <3>2, ClientArith
           DEF ReceiveAcknack, Client!ProcessAcknack, Acknowledged, UpInv, Typed
    <2>2. PICK n \in Nat : n = Ahead(Acknowledged(i)) /\ n < Half
      <3>1. /\ Ahead(Acknowledged(i)) <= Ahead(last_handled)
            /\ Ahead(last_handled) <= Ahead(last_sent) /\ Ahead(last_sent) <= History
        BY DEF UpInv, AcksInv, OrderInv
      <3>2. ASSUME NEW k \in SeqNums PROVE Ahead(k) \in Nat
        BY <2>1, Scale DEF Ahead, SeqSub, SeqNums, Modulus
      <3>3. last_handled \in SeqNums /\ last_sent \in SeqNums
        BY DEF UpInv, Typed
      <3>4. /\ Ahead(Acknowledged(i)) \in Nat /\ Ahead(last_handled) \in Nat
            /\ Ahead(last_sent) \in Nat
        BY <2>1, <3>2, <3>3
      <3> QED
        BY <3>1, <3>4, Scale
    <2>3. slots' = [j \in 0 .. History - 1 |->
                       IF \E d \in 1 .. n : j = Place(d) THEN Client!Free ELSE slots[j]]
      BY <1>3, <2>2, ClientArith
         DEF ReceiveAcknack, Client!ProcessAcknack, Client!SlotOf, Place, Ahead, Acknowledged
    <2>4. ASSUME NEW d \in 1 .. Client!SeqSub(last_sent, last_acknown),
                 Client!SeqLt(last_acknown', Client!ClientAdd(last_acknown, d))
          PROVE  slots'[Client!SlotOf(Client!ClientAdd(last_acknown, d))] =
                     slots[Client!SlotOf(Client!ClientAdd(last_acknown, d))]
      <3>1. PICK k \in SeqNums : /\ k = Client!ClientAdd(last_acknown, d)
                                 /\ d \in 1 .. History /\ Ahead(k) = d
                                 /\ Client!SlotOf(k) = Place(d)
        BY SentIs
      <3>2. SeqLt(Acknowledged(i), k)
        BY <2>1, <2>4, <3>1, ClientArith
      <3>3. n < d
        BY <2>1, <2>2, <3>1, <3>2, Scale DEF SeqLt, Ahead, SeqSub, SeqNums, Modulus
      <3>4. \A e \in 1 .. n : Place(e) # Place(d)
        <4>1. \A e \in 1 .. n : e \in 1 .. History /\ e # d
          BY <3>1, <3>3, Scale
        <4> QED
          BY <2>1, <3>1, <4>1, Places
      <3>5. Place(d) \in 0 .. History - 1
        BY <2>1, <3>1, Places
      <3> QED
        BY <2>3, <3>1, <3>4, <3>5
    <2> QED
      BY <2>4 DEF SentStays
  <1>4. CASE Restart
    BY <1>4 DEF Restart, SentStays
  <1> QED
    BY <1>1, <1>2, <1>3, <1>4
       DEF Next, Flash, Client!Flash, SendHeartbeat, ReceiveData, ReceiveHeartbeat, clientVars, vars

LEMMA StepKeepsHeld == ASSUME UplinkAssumption, Ordered, UpInv, [Next]_vars PROVE HeldStays
  <1>1. CASE UNCHANGED messages
    BY <1>1 DEF HeldStays
  <1>2. ASSUME NEW p \in network, ReceiveData(p) PROVE HeldStays
    <2>1. PICK n \in 0 .. Depth :
              /\ last_handled' = SeqAdd(last_handled, n)
              /\ messages' = [k \in {j \in DOMAIN Pool(p) :
                                       ~\E d \in 1 .. n : j = SeqAdd(last_handled, d)}
                                 |-> Pool(p)[k]]
      BY <1>2, ReceiveDataIs
    <2>2. last_handled \in SeqNums /\ last_acknown \in SeqNums /\ p.type = "DATA"
      BY <1>2 DEF UpInv, Typed, ReceiveData
    <2>3. ASSUME NEW k \in DOMAIN messages, SeqLt(last_handled', k)
          PROVE  k \in DOMAIN messages' /\ messages'[k] = messages[k]
      <3>1. k \in DOMAIN Pool(p) /\ Pool(p)[k] = messages[k]
        BY <2>2, PoolIs
      <3>2. ASSUME NEW d \in 1 .. n PROVE k # SeqAdd(last_handled, d)
        <4>1. ~SeqLt(SeqAdd(last_handled, n), SeqAdd(last_handled, d))
          BY <2>2, Scale DEF SeqLt, SeqAdd, Wrap, SeqNums, Modulus
        <4> QED
          BY <2>1, <2>3, <4>1
      <3> QED
        BY <2>1, <3>1, <3>2
    <2> QED
      BY <2>3, AgentArith DEF HeldStays
  <1>3. CASE Restart
    BY <1>3 DEF Restart, HeldStays
  <1> QED
    BY <1>1, <1>2, <1>3
       DEF Next, Write, Flash, SendHeartbeat, ReceiveAcknack, ReceiveHeartbeat, Agent!Heartbeat,
           AgentIdle, agentVars, vars

----------------------------------------------------------------------------
(* Theorems *)

\* The windows of both sides are sound: the messages not acknowledged fill the
\* slots without a hole, and the Agent holds nothing it could take out.
THEOREM UpWindowsAreSound == ASSUME UplinkAssumption, Ordered PROVE Spec => []WindowsSound
  <1>1. UpInv => WindowsSound
    BY UpSound
  <1> QED
    BY <1>1, UpInvariant, PTL

\* No submessage the application wrote is lost before the Agent took it out.
THEOREM NothingIsLost == ASSUME UplinkAssumption, Ordered PROVE Spec => []NothingLost
  <1>1. UpInv => NothingLost
    BY UpKeeps
  <1> QED
    BY <1>1, UpInvariant, PTL

\* When the Client sees the delivery confirmed, everything it sent was handled.
THEOREM ConfirmedWasHandled ==
    ASSUME UplinkAssumption, Ordered PROVE Spec => []ConfirmedIsHandled
  <1>1. UpInv => ConfirmedIsHandled
    BY UpConfirms
  <1> QED
    BY <1>1, UpInvariant, PTL

\* What was sent and what was stored ahead of a gap stays as it is until it is
\* acknowledged, or taken out.
THEOREM NothingIsForgotten == ASSUME UplinkAssumption, Ordered PROVE Spec => NothingForgotten
  <1>1. UpInv /\ [Next]_vars => [SentStays]_(Client!vars)
    BY StepKeepsSent
  <1>2. UpInv /\ [Next]_vars => [HeldStays]_(Agent!vars)
    BY StepKeepsHeld
  <1>3. Spec => [][SentStays]_(Client!vars) /\ [][HeldStays]_(Agent!vars)
    BY <1>1, <1>2, UpInvariant, PTL DEF Spec
  <1> QED
    BY <1>3, PTL DEF NothingForgotten, Client!SentKept, Agent!NothingForgotten, SentStays, HeldStays

----------------------------------------------------------------------------
(* The channel: what waits goes on where the fragments end *)

\* A piece begins a submessage, or is the one that follows another.
Opens(p) == p.part = 1 /\ p.kind # "LAST"

Follows(p, q) ==
    IF p.kind = "FRAGMENT" THEN q.sub = p.sub /\ q.part = p.part + 1 /\ q.kind # "WHOLE"
    ELSE Opens(q)

\* A piece is what is missing next from the fragments of a submessage.
Continues(u, p) ==
    IF u = <<>> THEN Opens(p)
    ELSE p.sub = u[1].sub /\ p.part = Len(u) + 1 /\ p.kind # "WHOLE"

\* The first fragments of one submessage, in order.
InTurn(u) == \A j \in DOMAIN u : u[j].part = j /\ u[j].sub = u[1].sub

\* Some pieces go on where the fragments end, ...
Chained(u, q) ==
    /\ InTurn(u)
    /\ q # <<>> => Continues(u, q[1])
    /\ \A i \in 1 .. Len(q) - 1 : Follows(q[i], q[i + 1])

\* ... and end with a submessage.
Complete(u, q) ==
    /\ Chained(u, q)
    /\ IF q = <<>> THEN u = <<>> ELSE q[Len(q)].kind # "FRAGMENT"

\* The submessages are whole, the one the Agent is in the middle of included.
PiecesInv == Complete(fragment, Waiting)
----------------------------------------------------------------------------
(* The submessages that end in some pieces *)

\* What EndIn collects from the first i pieces, for each i up to n.
Gathers(f, n, pieces) ==
    f = [i \in 0 .. n |->
            IF i = 0 THEN <<>>
            ELSE IF pieces[i].kind = "FRAGMENT" THEN f[i - 1]
            ELSE Append(f[i - 1], pieces[i].sub)]

LEMMA GathersExist == ASSUME NEW n \in Nat, NEW pieces PROVE \E f : Gathers(f, n, pieces)
  <1> DEFINE R == {k \in 0 .. n : \E f : Gathers(f, k, pieces)}
             Then(i, v) == IF pieces[i].kind = "FRAGMENT" THEN v ELSE Append(v, pieces[i].sub)
  <1>1. 0 \in R
    <2>1. PICK f : f = [i \in 0 .. 0 |-> <<>>]
      OBVIOUS
    <2>2. Gathers(f, 0, pieces)
      BY <2>1 DEF Gathers
    <2> QED
      BY <2>2
  <1>2. ASSUME NEW k \in 1 .. n, k - 1 \in R PROVE k \in R
    <2>1. PICK g : Gathers(g, k - 1, pieces)
      BY <1>2
    <2>2. g = [i \in 0 .. k - 1 |-> IF i = 0 THEN <<>> ELSE Then(i, g[i - 1])]
      BY <2>1 DEF Gathers
    <2>3. PICK f : f = [i \in 0 .. k |-> IF i = 0 THEN <<>> ELSE Then(i, g[i - 1])]
      OBVIOUS
    <2> HIDE DEF Then
    <2>4. \A i \in 0 .. k - 1 : f[i] = g[i]
      <3>1. \A i \in 0 .. k - 1 : /\ f[i] = IF i = 0 THEN <<>> ELSE Then(i, g[i - 1])
                                  /\ g[i] = IF i = 0 THEN <<>> ELSE Then(i, g[i - 1])
        BY <2>2, <2>3
      <3> QED
        BY <3>1
    <2>5. \A i \in 0 .. k : i # 0 => f[i - 1] = g[i - 1]
      BY <2>4
    <2>6. f = [i \in 0 .. k |-> IF i = 0 THEN <<>> ELSE Then(i, f[i - 1])]
      BY <2>3, <2>5
    <2>7. Gathers(f, k, pieces)
      BY <2>6 DEF Gathers, Then
    <2> QED
      BY <2>7
  <1> HIDE DEF R
  <1>3. n \in R
    BY <1>1, <1>2, StepByStep
  <1> QED
    BY <1>3 DEF R

\* f has the submessages that end in the first i pieces, for each i.
Upto(f, pieces) ==
    /\ f \in [0 .. Len(pieces) -> Seq(Submessages)]
    /\ f[0] = <<>>
    /\ \A i \in 1 .. Len(pieces) :
          f[i] = IF pieces[i].kind = "FRAGMENT" THEN f[i - 1] ELSE Append(f[i - 1], pieces[i].sub)

LEMMA PiecesAre ==
    ASSUME NEW p \in Payloads
    PROVE  /\ Len(p) \in Nat /\ DOMAIN p = 1 .. Len(p)
           /\ \A i \in 1 .. Len(p) :
                 /\ p[i] \in Client!Pieces /\ p[i].sub \in Submessages /\ p[i].part \in Nat
                 /\ p[i].kind \in {"WHOLE", "FRAGMENT", "LAST"}
  <1>1. Len(p) \in Nat /\ DOMAIN p = 1 .. Len(p) /\ \A i \in 1 .. Len(p) : p[i] \in Client!Pieces
    BY SequencesAre DEF Payloads
  <1>2. \A e \in Client!Pieces : /\ e.sub \in Submessages /\ e.part \in Nat
                                  /\ e.kind \in {"WHOLE", "FRAGMENT", "LAST"}
    BY DEF Client!Pieces
  <1> QED
    BY <1>1, <1>2

LEMMA EndInIs ==
    ASSUME NEW pieces \in Payloads
    PROVE  \E f : Upto(f, pieces) /\ EndIn[pieces] = f[Len(pieces)]
  <1>1. PICK n \in Nat : n = Len(pieces) /\ \A i \in 1 .. n : pieces[i].sub \in Submessages
    BY PiecesAre
  <1>2. PICK f : Gathers(f, n, pieces) /\ EndIn[pieces] = f[n]
    <2>1. \E f : f = [i \in 0 .. Len(pieces) |->
                        IF i = 0 THEN <<>>
                        ELSE IF pieces[i].kind = "FRAGMENT" THEN f[i - 1]
                        ELSE Append(f[i - 1], pieces[i].sub)]
      BY <1>1, GathersExist DEF Gathers
    <2>2. EndIn[pieces] = LET upto[i \in 0 .. Len(pieces)] ==
                                  IF i = 0 THEN <<>>
                                  ELSE IF pieces[i].kind = "FRAGMENT" THEN upto[i - 1]
                                  ELSE Append(upto[i - 1], pieces[i].sub)
                          IN  upto[Len(pieces)]
      BY DEF Payloads, EndIn
    <2> QED
      BY <1>1, <2>1, <2>2 DEF Gathers
  <1>3. DOMAIN f = 0 .. n /\ f[0] = <<>>
    BY <1>2 DEF Gathers
  <1>4. \A i \in 1 .. n :
           f[i] = IF pieces[i].kind = "FRAGMENT" THEN f[i - 1] ELSE Append(f[i - 1], pieces[i].sub)
    <2> DEFINE Then(i, v) == IF pieces[i].kind = "FRAGMENT" THEN v ELSE Append(v, pieces[i].sub)
    <2>1. f = [i \in 0 .. n |-> IF i = 0 THEN <<>> ELSE Then(i, f[i - 1])]
      BY <1>2 DEF Gathers
    <2> HIDE DEF Then
    <2>2. \A i \in 1 .. n : f[i] = Then(i, f[i - 1])
      BY <2>1
    <2> QED
      BY <2>2 DEF Then
  <1> DEFINE R == {i \in 0 .. n : f[i] \in Seq(Submessages)}
  <1>5. 0 \in R
    <2>1. f[0] \in Seq(Submessages)
      BY <1>3, EmptySeq
    <2> QED
      BY <2>1
  <1>6. ASSUME NEW i \in 1 .. n, i - 1 \in R PROVE i \in R
    <2>1. f[i - 1] \in Seq(Submessages)
      BY <1>6
    <2>2. f[i] \in Seq(Submessages)
      <3>1. CASE pieces[i].kind = "FRAGMENT"
        BY <1>4, <2>1, <3>1
      <3>2. CASE pieces[i].kind # "FRAGMENT"
        BY <1>1, <1>4, <2>1, <3>2, AppendProperties
      <3> QED
        BY <3>1, <3>2
    <2> QED
      BY <2>2
  <1> HIDE DEF R
  <1>7. \A i \in 0 .. n : i \in R
    BY <1>5, <1>6, StepByStep
  <1>8. \A i \in 0 .. n : f[i] \in Seq(Submessages)
    BY <1>7 DEF R
  <1>9. f \in [0 .. n -> Seq(Submessages)]
    <2>1. f = [i \in DOMAIN f |-> f[i]]
      BY <1>2 DEF Gathers
    <2> QED
      BY <1>3, <1>8, <2>1
  <1> QED
    BY <1>1, <1>2, <1>3, <1>4, <1>9 DEF Upto

\* What ends in the one and then in the other of two.
LEMMA EndInConcat ==
    ASSUME NEW p \in Payloads, NEW q \in Payloads
    PROVE  /\ EndIn[p] \in Seq(Submessages) /\ EndIn[q] \in Seq(Submessages)
           /\ EndIn[p \o q] = EndIn[p] \o EndIn[q]
  <1>1. PICK l \in Nat, m \in Nat : l = Len(p) /\ m = Len(q)
    BY DEF Payloads
  <1>2. /\ p \o q \in Payloads /\ Len(p \o q) = l + m
        /\ \A i \in 1 .. l : (p \o q)[i] = p[i]
        /\ \A i \in 1 .. m : (p \o q)[l + i] = q[i]
        /\ \A i \in 1 .. m : q[i].sub \in Submessages
    <2>1. /\ p \o q \in Payloads /\ Len(p \o q) = l + m
          /\ \A i \in 1 .. l + m : (p \o q)[i] = IF i <= l THEN p[i] ELSE q[i - l]
      BY <1>1, ConcatProperties DEF Payloads
    <2>2. \A i \in 1 .. m : l + i \in 1 .. l + m /\ ~(l + i <= l) /\ (l + i) - l = i
      OBVIOUS
    <2>3. ASSUME NEW i \in 1 .. m PROVE (p \o q)[l + i] = q[i]
      BY <2>1, <2>2
    <2>4. \A i \in 1 .. l : (p \o q)[i] = p[i]
      BY <2>1
    <2> QED
      BY <1>1, <2>1, <2>3, <2>4, PiecesAre
  <1>3. PICK f : Upto(f, p) /\ EndIn[p] = f[l]
    BY <1>1, EndInIs
  <1>4. PICK g : Upto(g, q) /\ EndIn[q] = g[m]
    BY <1>1, EndInIs
  <1>5. PICK h : Upto(h, p \o q) /\ EndIn[p \o q] = h[l + m]
    BY <1>2, EndInIs
  <1> DEFINE Then(r, v) == IF r.kind = "FRAGMENT" THEN v ELSE Append(v, r.sub)
  <1>6. /\ f[0] = <<>> /\ \A i \in 1 .. l : f[i] = Then(p[i], f[i - 1])
        /\ \A i \in 0 .. l : f[i] \in Seq(Submessages)
    BY <1>1, <1>3 DEF Upto
  <1>7. /\ g[0] = <<>> /\ \A i \in 1 .. m : g[i] = Then(q[i], g[i - 1])
        /\ \A i \in 0 .. m : g[i] \in Seq(Submessages)
    BY <1>1, <1>4 DEF Upto
  <1>8. h[0] = <<>> /\ \A i \in 1 .. l + m : h[i] = Then((p \o q)[i], h[i - 1])
    BY <1>2, <1>5 DEF Upto
  <1>9. \A i \in 0 .. l : h[i] = f[i]
    <2> DEFINE R == {i \in 0 .. l : h[i] = f[i]}
    <2> HIDE DEF Then
    <2>1. 0 \in R
      BY <1>6, <1>8
    <2>2. ASSUME NEW i \in 1 .. l, i - 1 \in R PROVE i \in R
      <3>1. i \in 1 .. l + m
        OBVIOUS
      <3>2. h[i] = Then(p[i], h[i - 1]) /\ f[i] = Then(p[i], f[i - 1]) /\ h[i - 1] = f[i - 1]
        BY <1>2, <1>6, <1>8, <2>2, <3>1
      <3>3. h[i] = f[i]
        BY <3>2
      <3> QED
        BY <3>3
    <2> HIDE DEF R
    <2>3. \A i \in 0 .. l : i \in R
      BY <2>1, <2>2, StepByStep
    <2> QED
      BY <2>3 DEF R
  <1>10. \A i \in 0 .. m : h[l + i] = f[l] \o g[i]
    <2> DEFINE J(i) == f[l] \o g[i]
               R == {i \in 0 .. m : h[l + i] = J(i)}
    <2>1. f[l] \in Seq(Submessages)
      BY <1>6
    <2>2. h[l] = J(0)
      BY <1>7, <1>9, <2>1, ConcatEmptySeq
    <2>3. ASSUME NEW i \in 1 .. m
          PROVE  h[l + i] = Then(q[i], h[(l + i) - 1]) /\ J(i) = Then(q[i], J(i - 1))
      <3>1. h[l + i] = Then(q[i], h[(l + i) - 1])
        <4>1. l + i \in 1 .. l + m /\ (p \o q)[l + i] = q[i]
          BY <1>2
        <4>2. h[l + i] = Then((p \o q)[l + i], h[(l + i) - 1])
          BY <1>8, <4>1
        <4> QED
          BY <4>1, <4>2
      <3>2. PICK x \in Seq(Submessages), y \in Seq(Submessages), e \in Submessages :
               x = f[l] /\ y = g[i - 1] /\ e = q[i].sub
        BY <1>2, <1>7, <2>1
      <3>3. /\ Append(x \o y, e) = (x \o y) \o <<e>> /\ Append(y, e) = y \o <<e>>
            /\ <<e>> \in Seq(Submessages) /\ x \o y \in Seq(Submessages)
        BY AppendIsConcat, ConcatProperties
      <3>4. (x \o y) \o <<e>> = x \o (y \o <<e>>)
        BY <3>3, ConcatAssociative
      <3>5. Append(x \o y, e) = x \o Append(y, e)
        BY <3>3, <3>4
      <3>6. J(i - 1) = x \o y
        BY <3>2
      <3>7. J(i) = Then(q[i], J(i - 1))
        <4>1. CASE q[i].kind = "FRAGMENT"
          <5>1. g[i] = g[i - 1]
            BY <1>7, <4>1
          <5>2. J(i) = J(i - 1)
            BY <5>1
          <5> QED
            BY <4>1, <5>2
        <4>2. CASE q[i].kind # "FRAGMENT"
          <5>1. g[i] = Append(y, e)
            BY <1>7, <3>2, <4>2
          <5>2. J(i) = x \o Append(y, e)
            BY <3>2, <5>1
          <5> HIDE DEF J
          <5>3. Then(q[i], J(i - 1)) = Append(x \o y, e)
            BY <3>2, <3>6, <4>2
          <5> QED
            BY <3>5, <5>2, <5>3
        <4> QED
          BY <4>1, <4>2
      <3> QED
        BY <3>1, <3>7
    <2> HIDE DEF J, Then
    <2>4. 0 \in R
      BY <2>2
    <2>5. ASSUME NEW i \in 1 .. m, i - 1 \in R PROVE i \in R
      <3>1. h[l + (i - 1)] = J(i - 1) /\ l + (i - 1) = (l + i) - 1
        BY <2>5
      <3>2. h[(l + i) - 1] = J(i - 1)
        BY <3>1
      <3>3. h[l + i] = J(i)
        BY <2>3, <3>2
      <3> QED
        BY <3>3
    <2> HIDE DEF R
    <2>6. \A i \in 0 .. m : i \in R
      BY <2>4, <2>5, StepByStep
    <2>7. \A i \in 0 .. m : h[l + i] = J(i)
      BY <2>6 DEF R
    <2> QED
      BY <2>7 DEF J
  <1>11. /\ f[l] \in Seq(Submessages) /\ g[m] \in Seq(Submessages)
         /\ h[l + m] = f[l] \o g[m]
    <2>1. l \in 0 .. l /\ m \in 0 .. m
      OBVIOUS
    <2> QED
      BY <1>6, <1>7, <1>10, <2>1
  <1> QED
    BY <1>3, <1>4, <1>5, <1>11

\* Only the last of the pieces of a submessage ends it.
LEMMA EndInUnit ==
    ASSUME NEW p \in Payloads, NEW m \in Nat, Len(p) = m + 1,
           \A i \in 1 .. m : p[i].kind = "FRAGMENT", p[m + 1].kind # "FRAGMENT"
    PROVE  EndIn[p] = <<p[m + 1].sub>>
  <1>1. PICK f : Upto(f, p) /\ EndIn[p] = f[m + 1]
    BY EndInIs
  <1>2. /\ f[0] = <<>> /\ \A i \in 1 .. m : f[i] = f[i - 1]
        /\ f[m + 1] = Append(f[m], p[m + 1].sub)
    <2>1. /\ f[0] = <<>>
          /\ \A i \in 1 .. m + 1 :
                f[i] = IF p[i].kind = "FRAGMENT" THEN f[i - 1] ELSE Append(f[i - 1], p[i].sub)
      BY <1>1 DEF Upto
    <2>2. ASSUME NEW i \in 1 .. m PROVE f[i] = f[i - 1]
      BY <2>1
    <2>3. m + 1 \in 1 .. m + 1 /\ (m + 1) - 1 = m
      OBVIOUS
    <2>4. f[m + 1] = Append(f[(m + 1) - 1], p[m + 1].sub)
      BY <2>1, <2>3
    <2> QED
      BY <2>1, <2>2, <2>3, <2>4
  <1> DEFINE R == {i \in 0 .. m : f[i] = <<>>}
  <1>3. 0 \in R
    BY <1>2
  <1>4. ASSUME NEW i \in 1 .. m, i - 1 \in R PROVE i \in R
    <2>1. f[i] = <<>>
      BY <1>2, <1>4
    <2> QED
      BY <2>1
  <1> HIDE DEF R
  <1>5. m \in R
    <2>1. \A i \in 0 .. m : i \in R
      BY <1>3, <1>4, StepByStep
    <2> QED
      BY <2>1
  <1>6. f[m] = <<>>
    BY <1>5 DEF R
  <1> QED
    BY <1>1, <1>2, <1>6
----------------------------------------------------------------------------
(* What the processor gets of chained pieces *)

\* more is q and one element behind it.
Longer(more, q, e) ==
    /\ Len(q) \in Nat /\ DOMAIN q = 1 .. Len(q)
    /\ more # <<>> /\ Len(more) = Len(q) + 1 /\ DOMAIN more = 1 .. Len(q) + 1
    /\ (\A i \in 1 .. Len(q) : more[i] = q[i]) /\ more[Len(q) + 1] = e

LEMMA OneLonger ==
    ASSUME NEW S, NEW q \in Seq(S), NEW e \in S
    PROVE  Append(q, e) \in Seq(S) /\ Longer(Append(q, e), q, e)
  <1>1. PICK more \in Seq(S) : more = Append(q, e)
    BY AppendProperties
  <1>2. /\ more # <<>> /\ Len(more) = Len(q) + 1
        /\ (\A i \in 1 .. Len(q) : more[i] = q[i]) /\ more[Len(q) + 1] = e
    BY <1>1, AppendProperties
  <1>3. DOMAIN more = 1 .. Len(q) + 1 /\ DOMAIN q = 1 .. Len(q) /\ Len(q) \in Nat
    BY <1>2, LenProperties
  <1> QED
    BY <1>1, <1>2, <1>3 DEF Longer

Heard(out) == [i \in DOMAIN out |-> Reassembled(out[i])]

LEMMA HeardMore ==
    ASSUME NEW out \in Seq(Payloads), NEW u \in Payloads, NEW sub \in Submessages,
           Reassembled(u) = sub, Heard(out) \in Seq(Submessages)
    PROVE  Append(out, u) \in Seq(Payloads) /\ Heard(Append(out, u)) = Append(Heard(out), sub)
  <1>1. PICK n \in Nat, more \in Seq(Payloads) :
           /\ n = Len(out) /\ DOMAIN out = 1 .. n
           /\ more = Append(out, u) /\ DOMAIN more = 1 .. n + 1 /\ Len(more) = n + 1
           /\ (\A i \in 1 .. n : more[i] = out[i]) /\ more[n + 1] = u
    <2>1. PICK n \in Nat : n = Len(out)
      OBVIOUS
    <2>2. PICK more \in Seq(Payloads) : more = Append(out, u) /\ Longer(more, out, u)
      BY OneLonger
    <2> QED
      BY <2>1, <2>2 DEF Longer
  <1>2. PICK h : h = Heard(out) /\ h \in Seq(Submessages)
    OBVIOUS
  <1>3. h = [i \in 1 .. n |-> Reassembled(out[i])]
    BY <1>1, <1>2 DEF Heard
  <1>4. Len(h) = n /\ \A i \in 1 .. n : h[i] = Reassembled(out[i]) /\ h[i] \in Submessages
    <2>1. DOMAIN h = 1 .. n /\ \A i \in 1 .. n : h[i] = Reassembled(out[i])
      BY <1>3
    <2>2. Len(h) = n
      BY <1>2, <2>1, LenProperties
    <2> QED
      BY <1>2, <2>1, <2>2, ElementOfSeq
  <1>5. PICK g : g = [i \in 1 .. n + 1 |-> Reassembled(more[i])]
    OBVIOUS
  <1>6. \A i \in 1 .. n + 1 : g[i] = IF i <= n THEN h[i] ELSE sub
    BY <1>1, <1>4, <1>5
  <1>7. g = Heard(more)
    BY <1>1, <1>5 DEF Heard
  <1>8. PICK e \in Seq(Submessages) :
           /\ e = Append(h, sub) /\ Len(e) = n + 1
           /\ (\A i \in 1 .. n : e[i] = h[i]) /\ e[n + 1] = sub
    <2>1. PICK e \in Seq(Submessages) : e = Append(h, sub) /\ Longer(e, h, sub)
      BY <1>2, OneLonger
    <2> QED
      BY <1>4, <2>1 DEF Longer
  <1>9. g = e
    <2>1. g \in Seq(Submessages) /\ Len(g) = n + 1
      <3>1. \A i \in 1 .. n + 1 : g[i] \in Submessages
        BY <1>4, <1>6
      <3> QED
        BY <1>5, <3>1
    <2>2. \A i \in 1 .. n + 1 : g[i] = e[i]
      BY <1>6, <1>8
    <2> QED
      BY <1>8, <2>1, <2>2, SeqEqual
  <1> QED
    BY <1>1, <1>2, <1>7, <1>8, <1>9

\* The next piece of a submessage.
LEMMA ProcessPasses ==
    ASSUME NEW p \in Client!Pieces, NEW st, Unfinished(st.fragment), InTurn(st.fragment),
           Continues(st.fragment, p), st = [fragment |-> st.fragment, out |-> st.out]
    PROVE  LET next == Agent!Process(st, p)
           IN  /\ InTurn(next.fragment)
               /\ p.kind = "FRAGMENT" => next.out = st.out
               /\ p.kind # "FRAGMENT" =>
                     /\ next.fragment = <<>>
                     /\ \E u \in Payloads : next.out = Append(st.out, u) /\ Reassembled(u) = p.sub
               /\ \A q : Follows(p, q) => Continues(next.fragment, q)
  <1>1. p.kind \in {"WHOLE", "FRAGMENT", "LAST"}
    BY DEF Client!Pieces
  <1>2. PICK u \in Payloads, n \in Nat : u = st.fragment /\ n = Len(u) /\ DOMAIN u = 1 .. n
    BY LenProperties DEF Unfinished, Payloads
  <1>3. \A j \in 1 .. n : u[j].part = j /\ u[j].sub = u[1].sub
    BY <1>2 DEF InTurn
  <1>4. InTurn(<<>>) /\ \A q : Continues(<<>>, q) <=> Opens(q)
    BY DEF InTurn, Continues
  <1>5. PICK more \in Payloads :
           /\ more = Append(u, p) /\ more # <<>> /\ Len(more) = n + 1 /\ DOMAIN more = 1 .. n + 1
           /\ (\A j \in 1 .. n : more[j] = u[j]) /\ more[n + 1] = p
    <2>1. u \in Seq(Client!Pieces)
      BY DEF Payloads
    <2>2. PICK more \in Seq(Client!Pieces) : more = Append(u, p) /\ Longer(more, u, p)
      BY <2>1, OneLonger
    <2> QED
      BY <1>2, <2>2 DEF Longer, Payloads
  <1>6. ASSUME p.kind # "WHOLE" PROVE \A j \in 1 .. n + 1 : more[j].part = j /\ more[j].sub = p.sub
    <2>1. CASE n = 0
      <3>1. u = <<>>
        BY <1>2, <2>1, EmptySeq DEF Payloads
      <3>2. p.part = 1
        BY <1>2, <3>1 DEF Continues, Opens
      <3>3. \A j \in 1 .. n + 1 : j = n + 1 /\ j = 1
        BY <2>1
      <3> QED
        BY <1>5, <3>2, <3>3
    <2>2. CASE n # 0
      <3>1. u # <<>> /\ 1 \in 1 .. n
        BY <1>2, <2>2
      <3>2. p.sub = u[1].sub /\ p.part = n + 1
        BY <1>2, <3>1 DEF Continues
      <3>3. ASSUME NEW j \in 1 .. n + 1 PROVE more[j].part = j /\ more[j].sub = p.sub
        <4>1. CASE j = n + 1
          BY <1>5, <3>2, <4>1
        <4>2. CASE j # n + 1
          <5>1. j \in 1 .. n
            BY <4>2
          <5> QED
            BY <1>3, <1>5, <3>2, <5>1
        <4> QED
          BY <4>1, <4>2
      <3> QED
        BY <3>3
    <2> QED
      BY <2>1, <2>2
  <1>7. CASE p.kind = "WHOLE"
    <2>1. PICK next : next = Agent!Process(st, p) /\ next = [st EXCEPT !.out = Append(@, <<p>>)]
      BY <1>7 DEF Agent!Process
    <2>2. next.fragment = st.fragment /\ next.out = Append(st.out, <<p>>)
      BY <2>1
    <2>3. st.fragment = <<>> /\ Opens(p)
      BY <1>7 DEF Continues
    <2>4. <<p>> \in Payloads /\ Reassembled(<<p>>) = p.sub
      <3>1. <<p>> \in Payloads /\ DOMAIN <<p>> = {1} /\ <<p>>[1] = p
        BY DEF Payloads
      <3>2. p.part = 1
        BY <2>3 DEF Opens
      <3> QED
        BY <3>1, <3>2 DEF Reassembled
    <2>5. \A q : Follows(p, q) => Opens(q)
      BY <1>7 DEF Follows
    <2> QED
      BY <1>4, <1>7, <2>1, <2>2, <2>3, <2>4, <2>5
  <1>8. CASE p.kind = "FRAGMENT"
    <2>1. PICK next : next = Agent!Process(st, p) /\ next = [st EXCEPT !.fragment = Append(@, p)]
      BY <1>8 DEF Agent!Process
    <2>2. next.fragment = more /\ next.out = st.out
      BY <1>2, <1>5, <2>1
    <2>3. \A j \in 1 .. n + 1 : more[j].part = j /\ more[j].sub = p.sub
      BY <1>6, <1>8
    <2>4. 1 \in 1 .. n + 1 /\ n + 1 \in 1 .. n + 1
      OBVIOUS
    <2>5. InTurn(more)
      BY <1>5, <2>3, <2>4 DEF InTurn
    <2>6. p.part = n + 1 /\ more[1].sub = p.sub
      BY <1>5, <2>3, <2>4
    <2>7. ASSUME NEW q, Follows(p, q) PROVE Continues(more, q)
      <3>1. q.sub = p.sub /\ q.part = (n + 1) + 1 /\ q.kind # "WHOLE"
        BY <1>8, <2>6, <2>7 DEF Follows
      <3> QED
        BY <1>5, <2>6, <3>1 DEF Continues
    <2> QED
      BY <1>8, <2>1, <2>2, <2>5, <2>7
  <1>9. CASE p.kind = "LAST"
    <2>1. PICK next : /\ next = Agent!Process(st, p)
                      /\ next = [fragment |-> <<>>, out |-> Append(st.out, Append(st.fragment, p))]
      BY <1>9 DEF Agent!Process
    <2>2. next.fragment = <<>> /\ next.out = Append(st.out, more)
      BY <1>2, <1>5, <2>1
    <2>3. \A j \in 1 .. n + 1 : more[j].part = j /\ more[j].sub = p.sub
      BY <1>6, <1>9
    <2>4. 1 \in 1 .. n + 1
      OBVIOUS
    <2>5. Reassembled(more) = p.sub
      BY <1>5, <2>3, <2>4 DEF Reassembled
    <2>6. \A q : Follows(p, q) => Opens(q)
      BY <1>9 DEF Follows
    <2> QED
      BY <1>4, <1>5, <1>9, <2>1, <2>2, <2>5, <2>6
  <1> QED
    BY <1>1, <1>7, <1>8, <1>9
\* What has come of the first i of some chained pieces.
Passed(st, i, pieces, f) ==
    /\ Unfinished(st.fragment) /\ InTurn(st.fragment)
    /\ st = [fragment |-> st.fragment, out |-> st.out]
    /\ st.out \in Seq(Payloads) /\ Heard(st.out) = f[i]
    /\ i < Len(pieces) => Continues(st.fragment, pieces[i + 1])
    /\ i > 0 => /\ \A q : Follows(pieces[i], q) => Continues(st.fragment, q)
                /\ pieces[i].kind # "FRAGMENT" => st.fragment = <<>>

LEMMA PassesNext ==
    ASSUME NEW pieces \in Payloads, NEW u, Chained(u, pieces), NEW f, Upto(f, pieces),
           NEW i \in 1 .. Len(pieces), NEW st, Passed(st, i - 1, pieces, f)
    PROVE  Passed(Agent!Process(st, pieces[i]), i, pieces, f)
  <1>1. PICK p \in Client!Pieces : p = pieces[i] /\ p.sub \in Submessages
    BY PiecesAre
  <1>2. Len(pieces) \in Nat
    BY PiecesAre
  <1>3. /\ Unfinished(st.fragment) /\ InTurn(st.fragment)
        /\ st = [fragment |-> st.fragment, out |-> st.out]
        /\ st.out \in Seq(Payloads) /\ Heard(st.out) = f[i - 1]
    BY DEF Passed
  <1>4. Continues(st.fragment, p)
    <2>1. i - 1 < Len(pieces) /\ (i - 1) + 1 = i
      BY <1>2
    <2>2. Continues(st.fragment, pieces[(i - 1) + 1])
      BY <2>1 DEF Passed
    <2> QED
      BY <1>1, <2>1, <2>2
  <1>5. PICK next : next = Agent!Process(st, p)
    OBVIOUS
  <1>6. Unfinished(next.fragment) /\ next = [fragment |-> next.fragment, out |-> next.out]
    BY <1>3, <1>5, ProcessIs
  <1>7. /\ InTurn(next.fragment)
        /\ p.kind = "FRAGMENT" => next.out = st.out
        /\ p.kind # "FRAGMENT" =>
              /\ next.fragment = <<>>
              /\ \E v \in Payloads : next.out = Append(st.out, v) /\ Reassembled(v) = p.sub
        /\ \A q : Follows(p, q) => Continues(next.fragment, q)
    BY <1>3, <1>4, <1>5, ProcessPasses
  <1>8. f[i - 1] \in Seq(Submessages)
    <2>1. i - 1 \in 0 .. Len(pieces)
      BY <1>2
    <2> QED
      BY <2>1 DEF Upto
  <1>9. next.out \in Seq(Payloads) /\ Heard(next.out) = f[i]
    <2>1. CASE p.kind = "FRAGMENT"
      <3>1. f[i] = f[i - 1]
        BY <1>1, <2>1 DEF Upto
      <3> QED
        BY <1>3, <1>7, <2>1, <3>1
    <2>2. CASE p.kind # "FRAGMENT"
      <3>1. f[i] = Append(f[i - 1], p.sub)
        BY <1>1, <2>2 DEF Upto
      <3>2. PICK v \in Payloads : next.out = Append(st.out, v) /\ Reassembled(v) = p.sub
        BY <1>7, <2>2
      <3>3. PICK out \in Seq(Payloads) : out = st.out
        BY <1>3
      <3>4. Append(out, v) \in Seq(Payloads) /\ Heard(Append(out, v)) = Append(Heard(out), p.sub)
        BY <1>1, <1>3, <1>8, <3>2, <3>3, HeardMore
      <3> QED
        BY <1>3, <3>1, <3>2, <3>3, <3>4
    <2> QED
      BY <2>1, <2>2
  <1>10. i < Len(pieces) => Continues(next.fragment, pieces[i + 1])
    <2>1. ASSUME i < Len(pieces) PROVE Follows(p, pieces[i + 1])
      <3>1. i \in 1 .. Len(pieces) - 1
        BY <1>2, <2>1
      <3> QED
        BY <1>1, <3>1 DEF Chained
    <2> QED
      BY <1>7, <2>1
  <1> QED
    BY <1>1, <1>5, <1>6, <1>7, <1>9, <1>10 DEF Passed

LEMMA ProcessesPass ==
    ASSUME NEW pieces \in Payloads, NEW n \in Nat, n = Len(pieces),
           NEW u, Unfinished(u), Chained(u, pieces),
           NEW f, Processes(f, n, pieces, [fragment |-> u, out |-> <<>>])
    PROVE  /\ Heard(f[n].out) = EndIn[pieces]
           /\ Unfinished(f[n].fragment) /\ InTurn(f[n].fragment)
           /\ n = 0 => f[n].fragment = u
           /\ n > 0 => /\ \A q : Follows(pieces[n], q) => Continues(f[n].fragment, q)
                       /\ pieces[n].kind # "FRAGMENT" => f[n].fragment = <<>>
  <1>1. PICK e : Upto(e, pieces) /\ EndIn[pieces] = e[n]
    BY EndInIs
  <1> DEFINE begun == [fragment |-> u, out |-> <<>>]
             Then(i, v) == Agent!Process(v, pieces[i])
  <1>2. f[0] = begun /\ \A i \in 1 .. n : f[i] = Agent!Process(f[i - 1], pieces[i])
    <2>1. f = [i \in 0 .. n |-> IF i = 0 THEN begun ELSE Then(i, f[i - 1])]
      BY DEF Processes
    <2> HIDE DEF Then
    <2>2. \A i \in 0 .. n : f[i] = IF i = 0 THEN begun ELSE Then(i, f[i - 1])
      BY <2>1
    <2>3. 0 \in 0 .. n /\ \A i \in 1 .. n : i \in 0 .. n /\ i # 0
      OBVIOUS
    <2> HIDE DEF begun
    <2>4. f[0] = begun /\ \A i \in 1 .. n : f[i] = Then(i, f[i - 1])
      BY <2>2, <2>3
    <2> QED
      BY <2>4 DEF Then
  <1>3. Passed(f[0], 0, pieces, e)
    <2>1. PICK st : st = f[0] /\ st.fragment = u /\ st.out = <<>> /\ st = begun
      BY <1>2
    <2>2. <<>> \in Seq(Payloads) /\ Heard(<<>>) = <<>>
      BY DEF Heard
    <2>3. e[0] = <<>>
      BY <1>1 DEF Upto
    <2>4. InTurn(u) /\ (0 < n => Continues(u, pieces[0 + 1]))
      <3>1. 0 < n => pieces # <<>> /\ 0 + 1 = 1
        BY EmptySeq DEF Payloads
      <3> QED
        BY <3>1 DEF Chained
    <2>5. st = [fragment |-> st.fragment, out |-> st.out] /\ ~(0 > 0)
      BY <2>1
    <2>6. Passed(st, 0, pieces, e)
      BY <2>1, <2>2, <2>3, <2>4, <2>5 DEF Passed
    <2> QED
      BY <2>1, <2>6
  <1> DEFINE R == {i \in 0 .. n : Passed(f[i], i, pieces, e)}
  <1> HIDE DEF begun
  <1>4. 0 \in R
    BY <1>3
  <1>5. ASSUME NEW i \in 1 .. n, i - 1 \in R PROVE i \in R
    <2>1. Passed(f[i - 1], i - 1, pieces, e)
      BY <1>5
    <2>2. Passed(Agent!Process(f[i - 1], pieces[i]), i, pieces, e)
      BY <1>1, <2>1, PassesNext
    <2>3. Passed(f[i], i, pieces, e)
      BY <1>2, <2>2
    <2> QED
      BY <2>3
  <1> HIDE DEF R
  <1>6. n \in R
    <2>1. \A i \in 0 .. n : i \in R
      BY <1>4, <1>5, StepByStep
    <2> QED
      BY <2>1
  <1>7. Passed(f[n], n, pieces, e)
    BY <1>6 DEF R
  <1>8. n = 0 => f[n].fragment = u
    BY <1>2 DEF begun
  <1> QED
    BY <1>1, <1>7, <1>8 DEF Passed

\* What n messages bring, of a pool the Agent takes them out of.
Brought(all, n) == FlattenSeq([d \in 1 .. n |-> all[SeqAdd(last_handled, d)]])

LEMMA TakeOutPasses ==
    ASSUME Typed, NEW all, NEW m \in Nat, NEW pieces \in Payloads, pieces = Brought(all, m),
           Chained(fragment, pieces), Agent!TakeOut(all, m)
    PROVE  /\ Heard(delivered') = EndIn[pieces]
           /\ Unfinished(fragment') /\ InTurn(fragment')
           /\ pieces = <<>> => fragment' = fragment
           /\ pieces # <<>> =>
                 /\ \A q : Follows(pieces[Len(pieces)], q) => Continues(fragment', q)
                 /\ pieces[Len(pieces)].kind # "FRAGMENT" => fragment' = <<>>
  <1> DEFINE seqs == [d \in 1 .. m |-> all[Agent!SeqAdd(last_handled, d)]]
             begun == [fragment |-> fragment, out |-> <<>>]
  <1>1. pieces = FlattenSeq(seqs)
    BY AgentArith DEF Brought
  <1>2. PICK n \in Nat : n = Len(pieces) /\ (n = 0 <=> pieces = <<>>)
    BY EmptySeq DEF Payloads
  <1> DEFINE F(f) == f = [i \in 0 .. Len(pieces) |->
                             IF i = 0 THEN begun ELSE Agent!Process(f[i - 1], pieces[i])]
  <1> HIDE DEF begun, seqs
  <1>3. \E f : F(f)
    <2>1. PICK f : Processes(f, n, pieces, begun)
      BY ProcessesExist
    <2> QED
      BY <1>2, <2>1 DEF Processes
  <1>4. PICK f : /\ F(f) /\ fragment' = f[Len(pieces)].fragment
                 /\ delivered' = f[Len(pieces)].out
    <2> DEFINE c == CHOOSE f : F(f)
    <2>1. F(c)
      BY <1>3
    <2>2. fragment' = c[Len(pieces)].fragment
      BY <1>1, Libraries DEF Agent!TakeOut, begun, seqs
    <2>3. delivered' = c[Len(pieces)].out
      BY <1>1, Libraries DEF Agent!TakeOut, begun, seqs
    <2> QED
      BY <2>1, <2>2, <2>3
  <1>5. Processes(f, n, pieces, [fragment |-> fragment, out |-> <<>>])
    BY <1>2, <1>4 DEF Processes, begun
  <1>6. Unfinished(fragment)
    BY DEF Typed, Unfinished
  <1>7. /\ Heard(f[n].out) = EndIn[pieces]
        /\ Unfinished(f[n].fragment) /\ InTurn(f[n].fragment)
        /\ n = 0 => f[n].fragment = fragment
        /\ n > 0 => /\ \A q : Follows(pieces[n], q) => Continues(f[n].fragment, q)
                    /\ pieces[n].kind # "FRAGMENT" => f[n].fragment = <<>>
    BY <1>2, <1>5, <1>6, ProcessesPass
  <1> HIDE DEF F
  <1>8. fragment' = f[n].fragment /\ delivered' = f[n].out
    BY <1>2, <1>4
  <1>9. pieces # <<>> => n > 0
    BY <1>2
  <1>10. Heard(delivered') = EndIn[pieces]
    <2>1. PICK out : out = f[n].out /\ Heard(out) = EndIn[pieces]
      BY <1>7
    <2> QED
      BY <1>8, <2>1
  <1> QED
    BY <1>2, <1>7, <1>8, <1>9, <1>10
----------------------------------------------------------------------------
(* The pieces that wait *)

\* The pieces in the slot of message d after the last one acknowledged.
Held(d) == IF d <= History THEN slots[Place(d)].pieces ELSE <<>>

\* Where the windows end, and what waits between them.
OutIs ==
    \E h \in 0 .. History, w \in 1 .. History + 1 :
        /\ h = Ahead(last_handled) /\ w = Ahead(last_written) /\ h < w
        /\ Outstanding = [d \in 1 .. w - h |-> Held(h + d)]
        /\ Outstanding \in Seq(Payloads)
        /\ Waiting \in Payloads

LEMMA OutstandingIs == ASSUME UplinkAssumption, UpInv PROVE OutIs
  <1>1. /\ Typed /\ OrderInv
        /\ last_written \in SeqNums /\ last_sent \in SeqNums /\ last_acknown \in SeqNums
        /\ last_handled \in SeqNums
    BY DEF UpInv, Typed
  <1>2. PICK h \in 0 .. History, w \in 1 .. History + 1 :
            h = Ahead(last_handled) /\ w = Ahead(last_written) /\ h < w
    <2>1. ASSUME NEW k \in SeqNums PROVE Ahead(k) \in Nat
      BY <1>1, Scale DEF Ahead, SeqSub, SeqNums, Modulus
    <2>2. Ahead(last_handled) \in Nat /\ Ahead(last_sent) \in Nat /\ Ahead(last_written) \in Nat
      BY <1>1, <2>1
    <2> QED
      BY <1>1, <2>2, Scale DEF OrderInv
  <1>3. SeqSub(last_written, last_handled) = w - h
    BY <1>1, <1>2, Apart, Scale
  <1> DEFINE k(d) == ClientAdd(last_handled, d)
             Shown(d) == IF SeqSub(k(d), last_acknown) \in 1 .. History
                         THEN slots[Client!SlotOf(k(d))].pieces ELSE <<>>
  <1>4. Outstanding = [d \in 1 .. w - h |-> Shown(d)]
    BY <1>3 DEF Outstanding
  <1>5. ASSUME NEW d \in 1 .. w - h
        PROVE  Shown(d) = Held(h + d) /\ Held(h + d) \in Payloads
    <2>1. k(d) \in SeqNums /\ Ahead(k(d)) = h + d
      BY <1>1, <1>2, <1>5, Scale DEF ClientAdd, Ahead, SeqSub, Wrap, SeqNums, Modulus
    <2>2. PICK a \in 1 .. History + 1 : a = h + d
      BY <1>2, <1>5, Scale
    <2>3. SeqSub(k(d), last_acknown) = a
      BY <2>1, <2>2 DEF Ahead
    <2>4. CASE a <= History
      <3>1. Client!SlotOf(k(d)) = Place(a) /\ Place(a) \in 0 .. History - 1
        <4>1. a \in 1 .. History
          BY <2>4, Scale
        <4> QED
          BY <1>1, <2>1, <2>2, <4>1, Places
      <3>2. slots[Place(a)].pieces \in Payloads
        BY <1>1, <3>1 DEF Typed, Buffers
      <3>3. Held(a) = slots[Place(a)].pieces
        BY <2>4 DEF Held
      <3>4. Shown(d) = slots[Place(a)].pieces
        BY <2>3, <2>4, <3>1, Scale
      <3> QED
        BY <2>2, <3>2, <3>3, <3>4
    <2>5. CASE ~(a <= History)
      <3>1. Held(a) = <<>> /\ Shown(d) = <<>>
        BY <2>3, <2>5, Scale DEF Held
      <3> QED
        BY <2>2, <3>1, EmptySeq DEF Payloads
    <2> QED
      BY <2>4, <2>5
  <1> HIDE DEF k, Shown
  <1>6. Outstanding = [d \in 1 .. w - h |-> Held(h + d)]
    BY <1>4, <1>5
  <1>7. Outstanding \in Seq(Payloads)
    <2>1. w - h \in Nat
      BY <1>2, Scale
    <2> QED
      BY <1>5, <1>6, <2>1
  <1>8. Waiting \in Payloads
    BY <1>7, FlattenSeqIs DEF Waiting, Payloads
  <1> QED
    BY <1>2, <1>6, <1>7, <1>8 DEF OutIs

\* The same of the next state.
LEMMA NextOutstandingIs == ASSUME UplinkAssumption, UpInv' PROVE OutIs'
  BY OutstandingIs, PTL
----------------------------------------------------------------------------
(* What an operation does to the pieces that wait *)

\* A sequence in two parts.
LEMMA InTwo ==
    ASSUME NEW S, NEW a \in Seq(S), NEW n \in Nat, NEW m \in Nat, Len(a) = n + m,
           NEW p, p = [i \in 1 .. n |-> a[i]], NEW q, q = [i \in 1 .. m |-> a[n + i]]
    PROVE  p \in Seq(S) /\ Len(p) = n /\ q \in Seq(S) /\ Len(q) = m /\ a = p \o q
  <1>1. \A i \in 1 .. n + m : a[i] \in S
    OBVIOUS
  <1>2. p \in Seq(S) /\ Len(p) = n
    <2>1. \A i \in 1 .. n : a[i] \in S
      BY <1>1
    <2> QED
      BY <2>1
  <1>3. q \in Seq(S) /\ Len(q) = m
    <2>1. \A i \in 1 .. m : a[n + i] \in S
      BY <1>1
    <2> QED
      BY <2>1
  <1>4. PICK j \in Seq(S) : /\ j = p \o q /\ Len(j) = n + m
                            /\ \A i \in 1 .. n : j[i] = p[i]
                            /\ \A i \in 1 .. m : j[n + i] = q[i]
    BY <1>2, <1>3, ConcatProperties
  <1>5. ASSUME NEW i \in 1 .. n + m PROVE a[i] = j[i]
    <2>1. CASE i <= n
      BY <1>4, <2>1
    <2>2. CASE i > n
      <3>1. PICK d \in 1 .. m : i = n + d
        <4>1. i - n \in 1 .. m /\ i = n + (i - n)
          BY <2>2
        <4> QED
          BY <4>1
      <3>2. j[n + d] = q[d] /\ q[d] = a[n + d]
        BY <1>4
      <3> QED
        BY <3>1, <3>2
    <2> QED
      BY <2>1, <2>2
  <1>6. a = j
    BY <1>4, <1>5, SeqEqual
  <1> QED
    BY <1>2, <1>3, <1>4, <1>6

\* Two sequences that make up another.
Halves(p, q, a, n, m) ==
    /\ p = [i \in 1 .. n |-> a[i]] /\ Len(p) = n
    /\ q = [i \in 1 .. m |-> a[n + i]] /\ Len(q) = m
    /\ a = p \o q

LEMMA Halved ==
    ASSUME NEW S, NEW a \in Seq(S), NEW n \in Nat, NEW m \in Nat, Len(a) = n + m
    PROVE  \E p, q \in Seq(S) : Halves(p, q, a, n, m)
  <1>1. PICK p : p = [i \in 1 .. n |-> a[i]]
    OBVIOUS
  <1>2. PICK q : q = [i \in 1 .. m |-> a[n + i]]
    OBVIOUS
  <1>3. p \in Seq(S) /\ Len(p) = n /\ q \in Seq(S) /\ Len(q) = m /\ a = p \o q
    BY <1>1, <1>2, InTwo
  <1>4. Halves(p, q, a, n, m)
    BY <1>1, <1>2, <1>3 DEF Halves
  <1> QED
    BY <1>3, <1>4

\* Putting sequences behind one another is associative.
Associative(k, t, r) == (k \o t) \o r = k \o (t \o r)

LEMMA Regrouping ==
    ASSUME NEW S, NEW k \in Seq(S), NEW t \in Seq(S), NEW r \in Seq(S)
    PROVE  Associative(k, t, r)
  BY ConcatAssociative DEF Associative

\* u put behind p gives q, if u in two parts does.
Regrouped(p, q, u, S) ==
    \E k, t, x, z \in Seq(S) : p = k \o t /\ u = x \o z /\ q = k \o ((t \o x) \o z)

LEMMA Regroup == ASSUME NEW S, NEW p, NEW q, NEW u, Regrouped(p, q, u, S) PROVE q = p \o u
  <1>1. PICK k, t, x, z \in Seq(S) : p = k \o t /\ u = x \o z /\ q = k \o ((t \o x) \o z)
    BY DEF Regrouped
  <1>2. PICK r \in Seq(S) : r = x \o z
    BY ConcatProperties
  <1>3. Associative(t, x, z)
    BY Regrouping, Zenon
  <1>4. Associative(k, t, r)
    BY Regrouping, Zenon
  <1>5. (t \o x) \o z = t \o r
    BY <1>2, <1>3 DEF Associative
  <1>6. (k \o t) \o r = k \o (t \o r)
    BY <1>4 DEF Associative
  <1> QED
    BY <1>1, <1>2, <1>5, <1>6

\* The first pieces of a submessage go into the last slot, the others into
\* slots of their own: of the n slots after the first m, the last one takes
\* the first c pieces of u.
Extends(a, b, u, c, n, m) ==
    /\ Len(a) = n + 1 /\ Len(u) = c + m /\ Len(b) = n + (1 + m)
    /\ \A i \in 1 .. n : b[i] = a[i]
    /\ b[n + 1] = IF c = 1 THEN Append(a[n + 1], u[1]) ELSE a[n + 1]
    /\ \A j \in 1 .. m : b[n + (1 + j)] = <<u[c + j]>>

LEMMA FlattenExtends ==
    ASSUME NEW S, NEW a \in Seq(Seq(S)), NEW b \in Seq(Seq(S)), NEW u \in Seq(S),
           NEW c \in 0 .. 1, NEW n \in Nat, NEW m \in Nat, Extends(a, b, u, c, n, m)
    PROVE  FlattenSeq(b) = FlattenSeq(a) \o u
  <1>1. Len(a) = n + 1 /\ Len(u) = c + m /\ Len(b) = n + (1 + m) /\ c \in Nat /\ 1 + m \in Nat
    BY DEF Extends
  <1>2. PICK t \in Seq(S) : t = a[n + 1]
    BY <1>1
  <1>3. PICK x, z \in Seq(S) : Halves(x, z, u, c, m)
    BY <1>1, Halved
  <1>4. PICK f, last : f \in Seq(Seq(S)) /\ last \in Seq(Seq(S)) /\ Halves(f, last, a, n, 1)
    BY <1>1, Halved
  <1>5. last = <<t>>
    <2>1. last = [i \in 1 .. 1 |-> a[n + i]]
      BY <1>4 DEF Halves
    <2>2. last[1] = t /\ Len(last) = 1
      BY <1>2, <1>4, <2>1 DEF Halves
    <2> QED
      BY <1>4, <2>2
  <1>6. PICK g, rest : g \in Seq(Seq(S)) /\ rest \in Seq(Seq(S)) /\ Halves(g, rest, b, n, 1 + m)
    BY <1>1, Halved
  <1>7. g = f
    <2>1. f = [i \in 1 .. n |-> a[i]] /\ g = [i \in 1 .. n |-> b[i]]
      BY <1>4, <1>6 DEF Halves
    <2>2. \A i \in 1 .. n : b[i] = a[i]
      BY DEF Extends
    <2> QED
      BY <2>1, <2>2
  <1>8. PICK e, y : e \in Seq(Seq(S)) /\ y \in Seq(Seq(S)) /\ Halves(e, y, rest, 1, m)
    <2>1. Len(rest) = 1 + m
      BY <1>6 DEF Halves
    <2> QED
      BY <1>6, <2>1, Halved
  <1>9. PICK v \in Seq(S) : v = t \o x /\ b[n + 1] = v
    <2>1. t \o x \in Seq(S)
      BY ConcatProperties
    <2>2. b[n + 1] = IF c = 1 THEN Append(t, u[1]) ELSE t
      BY <1>2 DEF Extends
    <2>3. x = [i \in 1 .. c |-> u[i]] /\ Len(x) = c
      BY <1>3 DEF Halves
    <2>4. CASE c = 1
      <3>1. u[1] \in S
        BY <1>1, <2>4
      <3>2. x = <<u[1]>>
        <4>1. x[1] = u[1]
          BY <2>3, <2>4
        <4> QED
          BY <2>3, <2>4, <4>1
      <3>3. Append(t, u[1]) = t \o <<u[1]>>
        BY <3>1, AppendIsConcat
      <3>4. b[n + 1] = t \o x
        BY <2>2, <2>4, <3>2, <3>3
      <3> QED
        BY <2>1, <3>4
    <2>5. CASE c = 0
      <3>1. x = <<>>
        BY <2>3, <2>5
      <3>2. t \o <<>> = t
        BY ConcatEmptySeq
      <3>3. b[n + 1] = t \o x
        BY <2>2, <2>5, <3>1, <3>2
      <3> QED
        BY <2>1, <3>3
    <2> QED
      BY <2>4, <2>5
  <1>10. rest = [i \in 1 .. 1 + m |-> b[n + i]]
    BY <1>6 DEF Halves
  <1>11. e = <<v>>
    <2>1. e = [i \in 1 .. 1 |-> rest[i]] /\ Len(e) = 1
      BY <1>8 DEF Halves
    <2>2. 1 \in 1 .. 1 + m
      OBVIOUS
    <2>3. rest[1] = v
      BY <1>9, <1>10, <2>2
    <2>4. e[1] = rest[1]
      BY <2>1
    <2> QED
      BY <2>1, <2>3, <2>4
  <1>12. y = [i \in 1 .. Len(z) |-> <<z[i]>>]
    <2>1. z = [i \in 1 .. m |-> u[c + i]] /\ Len(z) = m
      BY <1>3 DEF Halves
    <2>2. y = [i \in 1 .. m |-> rest[1 + i]]
      BY <1>8 DEF Halves
    <2>3. ASSUME NEW i \in 1 .. m PROVE rest[1 + i] = <<z[i]>>
      <3>1. 1 + i \in 1 .. 1 + m
        OBVIOUS
      <3>2. rest[1 + i] = b[n + (1 + i)]
        BY <1>10, <3>1
      <3>3. b[n + (1 + i)] = <<u[c + i]>>
        BY DEF Extends
      <3> QED
        BY <2>1, <3>2, <3>3
    <2> QED
      BY <2>1, <2>2, <2>3
  <1>13. FlattenSeq(<<t>>) = t /\ FlattenSeq(<<v>>) = v /\ FlattenSeq(y) = z
    BY <1>12, FlattenSingles
  <1>14. PICK k \in Seq(S) : k = FlattenSeq(f)
    BY <1>4, FlattenSeqIs
  <1>15. FlattenSeq(a) = k \o t
    <2>1. a = f \o last
      BY <1>4 DEF Halves
    <2>2. FlattenSeq(f \o last) = FlattenSeq(f) \o FlattenSeq(last)
      BY <1>4, FlattenConcat
    <2> QED
      BY <1>5, <1>13, <1>14, <2>1, <2>2
  <1>16. FlattenSeq(rest) = v \o z
    <2>1. rest = e \o y
      BY <1>8 DEF Halves
    <2>2. FlattenSeq(e \o y) = FlattenSeq(e) \o FlattenSeq(y)
      BY <1>8, FlattenConcat
    <2> QED
      BY <1>11, <1>13, <2>1, <2>2
  <1>17. FlattenSeq(b) = k \o (v \o z)
    <2>1. b = g \o rest
      BY <1>6 DEF Halves
    <2>2. FlattenSeq(g \o rest) = FlattenSeq(g) \o FlattenSeq(rest)
      BY <1>6, FlattenConcat
    <2> QED
      BY <1>7, <1>14, <1>16, <2>1, <2>2
  <1>18. u = x \o z
    BY <1>3 DEF Halves
  <1>19. Regrouped(FlattenSeq(a), FlattenSeq(b), u, S)
    <2>1. FlattenSeq(b) = k \o ((t \o x) \o z)
      BY <1>9, <1>17
    <2> QED
      BY <1>15, <1>18, <2>1 DEF Regrouped
  <1> QED
    BY <1>19, Regroup

\* The same, with the last number acknowledged where it is.
NextOut(h, w) ==
    /\ h = Ahead(last_handled') /\ w = Ahead(last_written') /\ h < w
    /\ Outstanding' = [d \in 1 .. w - h |->
                          IF h + d <= History THEN slots'[Place(h + d)].pieces ELSE <<>>]
    /\ Outstanding' \in Seq(Payloads)
    /\ Waiting' \in Payloads

LEMMA NextOutIs ==
    ASSUME UplinkAssumption, UpInv', UNCHANGED last_acknown
    PROVE  \E h \in 0 .. History, w \in 1 .. History + 1 : NextOut(h, w)
  <1>1. PICK h \in 0 .. History, w \in 1 .. History + 1 :
            /\ h = Ahead(last_handled)' /\ w = Ahead(last_written)' /\ h < w
            /\ Outstanding' = [d \in 1 .. w - h |-> Held(h + d)']
            /\ Outstanding' \in Seq(Payloads)
            /\ Waiting' \in Payloads
    BY NextOutstandingIs DEF OutIs
  <1>2. Ahead(last_handled)' = Ahead(last_handled') /\ Ahead(last_written)' = Ahead(last_written')
    BY DEF Ahead
  <1>3. \A d : Held(d)' = IF d <= History THEN slots'[Place(d)].pieces ELSE <<>>
    BY DEF Held, Place
  <1>4. Outstanding' = [d \in 1 .. w - h |->
                          IF h + d <= History THEN slots'[Place(h + d)].pieces ELSE <<>>]
    BY <1>1, <1>3
  <1>5. NextOut(h, w)
    BY <1>1, <1>2, <1>4 DEF NextOut
  <1> QED
    BY <1>5

\* A submessage that is written waits behind the others.
LEMMA WriteWaits ==
    ASSUME UplinkAssumption, UpInv, UpInv', Grows, UNCHANGED last_handled,
           NEW u \in Payloads, NEW sub, Unit(u, sub), NEW c \in 0 .. 1, Appends(u, c)
    PROVE  Waiting' = Waiting \o u /\ Waiting' \in Payloads
  <1>1. PICK h \in 0 .. History, w \in 1 .. History + 1 :
            /\ h = Ahead(last_handled) /\ w = Ahead(last_written) /\ h < w
            /\ Outstanding = [d \in 1 .. w - h |-> Held(h + d)]
            /\ Outstanding \in Seq(Payloads)
    BY OutstandingIs DEF OutIs
  <1>2. PICK g \in 0 .. History, v \in 1 .. History + 1 : NextOut(g, v)
    BY NextOutIs DEF Grows
  <1>3. PICK l \in Nat : l = Len(u) /\ l > 0
    BY DEF Payloads, Unit
  <1>4. /\ g = h /\ v = Ahead(last_written') /\ v = w + l - c /\ v <= History
        /\ Outstanding' = [d \in 1 .. v - h |->
                             IF h + d <= History THEN slots'[Place(h + d)].pieces ELSE <<>>]
        /\ Outstanding' \in Seq(Payloads)
    BY <1>1, <1>2, <1>3 DEF NextOut, Grows, Appends
  <1>5. PICK n \in Nat, m \in Nat : /\ w = h + (n + 1) /\ l = c + m /\ v = h + (n + (1 + m))
                                    /\ h \in Nat /\ History \in Nat
    <2>1. w - h - 1 \in Nat /\ l - c \in Nat /\ h \in Nat /\ History \in Nat
      <3>1. h < w /\ l > 0
        BY <1>1, <1>3
      <3> QED
        BY <3>1, Scale
    <2>2. w = h + ((w - h - 1) + 1) /\ l = c + (l - c) /\ v = h + ((w - h - 1) + (1 + (l - c)))
      <3>1. w \in Nat /\ v = w + l - c
        BY <1>4, Scale
      <3> QED
        BY <2>1, <3>1
    <2> QED
      BY <2>1, <2>2
  <1>6. /\ Outstanding = [d \in 1 .. n + 1 |-> Held(h + d)]
        /\ Outstanding' = [d \in 1 .. n + (1 + m) |->
                             IF h + d <= History THEN slots'[Place(h + d)].pieces ELSE <<>>]
    <2>1. w - h = n + 1 /\ v - h = n + (1 + m)
      BY <1>5
    <2> QED
      BY <1>1, <1>4, <2>1
  <1>7. ASSUME NEW i \in 1 .. n PROVE Outstanding'[i] = Outstanding[i]
    <2>1. PICK d \in 1 .. History : d = h + i /\ d < w /\ d <= History
      BY <1>4, <1>5, Scale
    <2>2. slots'[Place(d)] = slots[Place(d)]
      BY <1>1, <2>1 DEF Grows
    <2>3. Outstanding'[i] = slots'[Place(d)].pieces /\ Outstanding[i] = Held(d)
      BY <1>6, <2>1
    <2> QED
      BY <2>1, <2>2, <2>3 DEF Held
  <1>8. Outstanding'[n + 1] =
            IF c = 1 THEN Append(Outstanding[n + 1], u[1]) ELSE Outstanding[n + 1]
    <2>1. w <= History /\ n + 1 \in 1 .. n + (1 + m)
      BY <1>4, <1>3, <1>5
    <2>2. Outstanding'[n + 1] = slots'[Place(w)].pieces
      BY <1>5, <1>6, <2>1
    <2>3. Outstanding[n + 1] = slots[Place(w)].pieces
      BY <1>5, <1>6, <2>1 DEF Held
    <2>4. slots'[Place(w)].pieces =
             IF c = 1 THEN Append(slots[Place(w)].pieces, u[1]) ELSE slots[Place(w)].pieces
      BY <1>1 DEF Appends
    <2> QED
      BY <2>2, <2>3, <2>4
  <1>9. ASSUME NEW j \in 1 .. m PROVE Outstanding'[n + (1 + j)] = <<u[c + j]>>
    <2>1. /\ h + (n + (1 + j)) = w + j /\ w + j <= History
          /\ n + (1 + j) \in 1 .. n + (1 + m) /\ j \in 1 .. l - c
      <3>1. h + (n + (1 + j)) = w + j /\ n + (1 + j) \in 1 .. n + (1 + m) /\ w + j <= v
        BY <1>5
      <3>2. l - c = m /\ v <= History
        BY <1>4, <1>5
      <3> QED
        BY <1>5, <3>1, <3>2
    <2>2. Outstanding'[n + (1 + j)] = slots'[Place(w + j)].pieces
      BY <1>6, <2>1
    <2>3. slots'[Place(w + j)].pieces = <<u[c + j]>>
      BY <1>1, <1>3, <2>1 DEF Appends
    <2> QED
      BY <2>2, <2>3
  <1>10. PICK a \in Seq(Payloads), b \in Seq(Payloads) : a = Outstanding /\ b = Outstanding'
    BY <1>1, <1>4
  <1>11. Extends(a, b, u, c, n, m)
    <2>1. Len(a) = n + 1 /\ Len(b) = n + (1 + m)
      <3>1. DOMAIN a = 1 .. n + 1 /\ DOMAIN b = 1 .. n + (1 + m)
        BY <1>6, <1>10
      <3>2. n + 1 \in Nat /\ n + (1 + m) \in Nat
        BY <1>5
      <3> QED
        BY <3>1, <3>2, LenProperties
    <2> QED
      BY <1>3, <1>5, <1>7, <1>8, <1>9, <1>10, <2>1 DEF Extends
  <1>12. FlattenSeq(b) = FlattenSeq(a) \o u
    <2>1. a \in Seq(Seq(Client!Pieces)) /\ b \in Seq(Seq(Client!Pieces)) /\ u \in Seq(Client!Pieces)
      BY DEF Payloads
    <2> QED
      BY <1>5, <1>11, <2>1, FlattenExtends
  <1> QED
    BY <1>2, <1>10, <1>12 DEF Waiting, NextOut

\* Nothing moves.
LEMMA SameWaits ==
    ASSUME UNCHANGED <<slots, last_written, last_acknown, last_handled>>
    PROVE  UNCHANGED Waiting
  BY DEF Waiting, Outstanding, Client!SlotOf

\* A slot that is opened is empty.
LEMMA FlashWaits == ASSUME UplinkAssumption, UpInv, UpInv', Flash PROVE UNCHANGED Waiting
  <1>1. UNCHANGED <<slots, last_acknown, last_handled>>
    BY DEF Flash, Client!Flash, AgentIdle
  <1>2. Typed /\ OrderInv /\ SlotsInv
    BY DEF UpInv
  <1>3. CASE UNCHANGED last_written
    BY <1>1, <1>3, SameWaits
  <1>4. CASE last_written' = Wrap(last_written + 1)
    <2>1. PICK h \in 0 .. History, w \in 1 .. History + 1 :
              /\ h = Ahead(last_handled) /\ w = Ahead(last_written) /\ h < w
              /\ Outstanding = [d \in 1 .. w - h |-> Held(h + d)]
              /\ Outstanding \in Seq(Payloads)
      BY OutstandingIs DEF OutIs
    <2>2. PICK g \in 0 .. History, v \in 1 .. History + 1 : NextOut(g, v)
      BY <1>1, NextOutIs
    <2>3. g = h /\ v = w + 1
      <3>1. Ahead(last_written') = Ahead(last_written) + 1
        BY <1>2, <1>4, NextIs
      <3> QED
        BY <1>1, <2>1, <2>2, <3>1 DEF NextOut
    <2>4. PICK n \in Nat : w - h = n /\ v - h = n + 1 /\ w = h + n /\ h \in Nat
      <3>1. w - h \in Nat /\ h \in Nat /\ w \in Nat
        BY <2>1, Scale
      <3>2. v - h = (w - h) + 1 /\ w = h + (w - h)
        BY <2>3, <3>1
      <3> QED
        BY <3>1, <3>2
    <2>5. /\ Outstanding' = [d \in 1 .. n + 1 |->
                                IF h + d <= History THEN slots[Place(h + d)].pieces ELSE <<>>]
          /\ Outstanding = [d \in 1 .. n |-> Held(h + d)]
      BY <1>1, <2>1, <2>2, <2>3, <2>4 DEF NextOut
    <2>6. \A d \in 1 .. n + 1 : Outstanding'[d] = Held(h + d)
      BY <2>5 DEF Held
    <2>7. Outstanding'[n + 1] = <<>>
      <3>1. Outstanding'[n + 1] = Held(v) /\ v \in 1 .. History + 1
        <4>1. h + (n + 1) = v /\ n + 1 \in 1 .. n + 1
          BY <2>3, <2>4
        <4> QED
          BY <2>6, <4>1
      <3>2. CASE v <= History
        <4>1. v \in 1 .. History /\ v > w
          BY <2>3, <3>2, Scale
        <4>2. slots[Place(v)].size = 0 /\ Place(v) \in 0 .. History - 1
          BY <1>2, <2>1, <4>1, Places DEF SlotsInv, Typed
        <4>3. slots[Place(v)].pieces = <<>>
          BY <1>2, <4>2 DEF Typed
        <4> QED
          BY <3>1, <4>1, <4>3 DEF Held
      <3>3. CASE ~(v <= History)
        BY <3>1, <3>3 DEF Held
      <3> QED
        BY <3>2, <3>3
    <2>8. PICK a \in Seq(Payloads), b \in Seq(Payloads) :
              a = Outstanding /\ b = Outstanding' /\ Len(b) = n + 1
      <3>1. DOMAIN (Outstanding') = 1 .. n + 1 /\ n + 1 \in Nat
        BY <2>4, <2>5
      <3> QED
        BY <2>1, <2>2, <3>1, LenProperties DEF NextOut
    <2>9. PICK p, q \in Seq(Payloads) : Halves(p, q, b, n, 1)
      BY <2>8, Halved
    <2>10. p = a
      <3>1. p = [d \in 1 .. n |-> b[d]]
        BY <2>9 DEF Halves
      <3>2. \A d \in 1 .. n : b[d] = Held(h + d)
        BY <2>4, <2>6, <2>8
      <3> QED
        BY <2>5, <2>8, <3>1, <3>2
    <2>11. q = <<<<>>>>
      <3>1. q = [d \in 1 .. 1 |-> b[n + d]] /\ Len(q) = 1
        BY <2>9 DEF Halves
      <3>2. q[1] = <<>>
        BY <2>7, <2>8, <3>1
      <3> QED
        BY <3>1, <3>2
    <2>12. FlattenSeq(b) = FlattenSeq(a)
      <3>1. /\ a \in Seq(Seq(Client!Pieces)) /\ q \in Seq(Seq(Client!Pieces))
            /\ <<>> \in Seq(Client!Pieces)
        BY DEF Payloads
      <3>2. b = a \o q
        BY <2>9, <2>10 DEF Halves
      <3>3. FlattenSeq(a \o q) = FlattenSeq(a) \o FlattenSeq(q)
        BY <3>1, FlattenConcat
      <3>4. FlattenSeq(q) = <<>>
        BY <2>11, <3>1, FlattenSingles
      <3>5. PICK f \in Seq(Client!Pieces) : f = FlattenSeq(a)
        BY <3>1, FlattenSeqIs
      <3>6. f \o <<>> = f
        BY ConcatEmptySeq
      <3> QED
        BY <3>2, <3>3, <3>4, <3>5, <3>6
    <2> QED
      BY <2>8, <2>12 DEF Waiting
  <1> QED
    BY <1>3, <1>4 DEF Flash, Client!Flash, Client!Wrap, Wrap, Client!Modulus, Modulus, Client!ClientAdd

\* What is freed was taken out.
LEMMA AcknackWaits ==
    ASSUME UplinkAssumption, ~Reorders, UpInv, UpInv', NEW i \in DOMAIN acks, ReceiveAcknack(i)
    PROVE  UNCHANGED Waiting
  <1>1. UNCHANGED <<last_written, last_handled>>
    BY DEF ReceiveAcknack, Client!ProcessAcknack, AgentIdle
  <1>2. last_acknown \in SeqNums /\ last_handled \in SeqNums /\ last_written \in SeqNums
    BY DEF UpInv, Typed
  <1>3. PICK n \in 0 .. History : Frees(i, n)
    BY AcknackFrees
  <1>4. PICK h \in 0 .. History, w \in 1 .. History + 1 :
            /\ h = Ahead(last_handled) /\ w = Ahead(last_written) /\ h < w
            /\ Outstanding = [d \in 1 .. w - h |-> Held(h + d)]
    BY OutstandingIs DEF OutIs
  <1>5. PICK g \in 0 .. History, v \in 1 .. History + 1 :
            /\ g = Ahead(last_handled)' /\ v = Ahead(last_written)'
            /\ Outstanding' = [d \in 1 .. v - g |-> Held(g + d)']
    BY NextOutstandingIs DEF OutIs
  <1>6. g = h - n /\ v = w - n /\ n <= h /\ History \in Nat
    <2>1. n <= h /\ n <= w
      BY <1>3, <1>4, Scale DEF Frees
    <2>2. \A k \in SeqNums : Ahead(k) >= n => SeqSub(k, last_acknown') = Ahead(k) - n
      BY <1>2, <1>3, Acknowledging DEF Frees
    <2>3. SeqSub(last_handled, last_acknown') = h - n /\ SeqSub(last_written, last_acknown') = w - n
      BY <1>2, <1>4, <2>1, <2>2, Scale
    <2>4. g = SeqSub(last_handled, last_acknown') /\ v = SeqSub(last_written, last_acknown')
      BY <1>1, <1>5 DEF Ahead
    <2> QED
      BY <2>1, <2>3, <2>4, Scale
  <1>7. v - g = w - h
    BY <1>4, <1>5, <1>6
  <1>8. ASSUME NEW d \in 1 .. w - h PROVE Held(g + d)' = Held(h + d)
    <2>1. PICK a \in 1 .. History + 1, b \in 1 .. History + 1 :
              a = h + d /\ b = g + d /\ a = n + b /\ a > n
      <3>1. h + d \in 1 .. History + 1 /\ g + d \in 1 .. History + 1
        BY <1>6
      <3>2. h + d = n + (g + d) /\ h + d > n
        BY <1>6
      <3> QED
        BY <3>1, <3>2
    <2>2. Held(b)' = IF b <= History THEN slots'[Wrap(last_acknown' + b) % History].pieces ELSE <<>>
      BY DEF Held, Place
    <2>3. Held(a) = IF a <= History THEN slots[Place(a)].pieces ELSE <<>>
      BY DEF Held
    <2>4. \A e \in 1 .. History :
              Wrap(last_acknown' + e) % History =
                  IF n + e <= History THEN Place(n + e) ELSE Place(n + e - History)
      BY <1>2, <1>3, Acknowledging DEF Frees
    <2>5. \A e \in 1 .. History :
              slots'[Place(e)] = IF e <= n THEN Client!Free ELSE slots[Place(e)]
      BY <1>3 DEF Frees
    <2>6. CASE a <= History
      <3>1. b \in 1 .. History /\ a \in 1 .. History /\ n + b <= History /\ ~(a <= n)
        BY <1>6, <2>1, <2>6
      <3>2. Wrap(last_acknown' + b) % History = Place(a)
        BY <2>1, <2>4, <3>1
      <3>3. slots'[Place(a)] = slots[Place(a)]
        BY <2>5, <3>1
      <3>4. Held(b)' = slots[Place(a)].pieces
        BY <2>2, <3>1, <3>2, <3>3
      <3> QED
        BY <2>1, <2>3, <2>6, <3>4
    <2>7. CASE a = History + 1 /\ n = 0
      <3>1. b = History + 1 /\ ~(b <= History) /\ ~(a <= History)
        BY <1>6, <2>1, <2>7
      <3> QED
        BY <2>1, <2>2, <2>3, <3>1
    <2>8. CASE a = History + 1 /\ n # 0
      <3>1. /\ b \in 1 .. History /\ ~(n + b <= History) /\ n + b - History = 1
            /\ 1 \in 1 .. History /\ 1 <= n /\ ~(a <= History)
        BY <1>6, <2>1, <2>8
      <3>2. Wrap(last_acknown' + b) % History = Place(1)
        BY <2>4, <3>1
      <3>3. slots'[Place(1)] = Client!Free
        BY <2>5, <3>1
      <3>4. Held(b)' = <<>>
        BY <2>2, <3>1, <3>2, <3>3 DEF Client!Free
      <3> QED
        BY <2>1, <2>3, <3>1, <3>4
    <2> QED
      BY <1>6, <2>1, <2>6, <2>7, <2>8
  <1>9. Outstanding' = Outstanding
    BY <1>4, <1>5, <1>7, <1>8
  <1> QED
    BY <1>9 DEF Waiting

LEMMA AheadOfHandled ==
    ASSUME UplinkAssumption, last_handled \in SeqNums, last_acknown \in SeqNums,
           NEW h \in 0 .. History, h = Ahead(last_handled), NEW d \in 0 .. History, h + d <= History
    PROVE  Ahead(SeqAdd(last_handled, d)) = h + d
  BY Scale DEF SeqAdd, Ahead, SeqSub, Wrap, SeqNums, Modulus

\* What the Agent takes out was waiting first.
LEMMA ReceiveWaits ==
    ASSUME UplinkAssumption, UpInv, UpInv', NEW p \in network, ReceiveData(p)
    PROVE  /\ Brought(Pool(p), Taken(p)) \in Payloads /\ Waiting' \in Payloads
           /\ Waiting = Brought(Pool(p), Taken(p)) \o Waiting'
  <1>1. UNCHANGED <<slots, last_written, last_acknown>> /\ p.type = "DATA"
    BY DEF ReceiveData, clientVars
  <1>2. last_handled \in SeqNums /\ last_acknown \in SeqNums /\ last_sent \in SeqNums
    BY DEF UpInv, Typed
  <1>3. PICK h \in 0 .. History, w \in 1 .. History + 1 :
            /\ h = Ahead(last_handled) /\ w = Ahead(last_written) /\ h < w
            /\ Outstanding = [d \in 1 .. w - h |-> Held(h + d)]
            /\ Outstanding \in Seq(Payloads)
    BY OutstandingIs DEF OutIs
  <1>4. PICK g \in 0 .. History, v \in 1 .. History + 1 : NextOut(g, v)
    BY <1>1, NextOutIs
  <1>5. PICK s \in 0 .. History : s = Ahead(last_sent) /\ h <= s
    <2>1. Ahead(last_sent) \in Nat
      BY <1>2, Scale DEF Ahead, SeqSub, SeqNums, Modulus
    <2> QED
      BY <1>3, <2>1, Scale DEF UpInv, OrderInv
  <1>6. PICK t \in 0 .. Depth : /\ t = Taken(p) /\ t <= s - h
                               /\ InARow(DOMAIN Pool(p), t)
                               /\ last_handled' = SeqAdd(last_handled, t)
    <2>1. From(last_sent) = s - h
      BY <1>2, <1>3, <1>5, Apart, Scale DEF From
    <2> QED
      BY <2>1, ReceiveDataIs
  <1>7. g = h + t /\ v = w
    <2>1. Ahead(last_handled') = h + t
      <3>1. t \in 0 .. History /\ h + t <= History
        BY <1>5, <1>6, Scale
      <3>2. Ahead(SeqAdd(last_handled, t)) = h + t
        BY <1>2, <1>3, <3>1, AheadOfHandled
      <3> QED
        BY <1>6, <3>2
    <2> QED
      BY <1>1, <1>3, <1>4, <2>1 DEF NextOut
  <1>8. PICK m \in Nat : w - h = t + m /\ v - g = m /\ t \in Nat /\ h \in Nat
    <2>1. t \in Nat /\ h \in Nat
      BY <1>6, Scale
    <2>2. w - g \in Nat
      BY <1>4, <1>7, Scale DEF NextOut
    <2>3. w - h = t + (w - g)
      BY <1>7, <2>1
    <2> QED
      BY <1>7, <2>1, <2>2, <2>3
  <1>9. ASSUME NEW d \in 1 .. t PROVE Pool(p)[SeqAdd(last_handled, d)] = Held(h + d)
    <2>1. PICK k : k = SeqAdd(last_handled, d) /\ k \in DOMAIN Pool(p)
      BY <1>6 DEF InARow
    <2>2. Pool(p)[k] = slots[k % History].pieces /\ k \in SeqNums
      BY <1>1, <2>1, PoolIs
    <2>3. d <= s - h /\ d \in 1 .. Depth
      BY <1>6, Scale
    <2>4. Ahead(k) = h + d
      <3>1. d \in 0 .. History /\ h + d <= History
        BY <1>5, <2>3, Scale
      <3> QED
        BY <1>2, <1>3, <2>1, <3>1, AheadOfHandled
    <2>5. k % History = Place(h + d)
      BY <1>2, <2>2, <2>4, Places
    <2>6. h + d <= History
      BY <1>5, <2>3, Scale
    <2> QED
      BY <2>1, <2>2, <2>5, <2>6 DEF Held
  <1>10. Outstanding = [d \in 1 .. t + m |-> Held(h + d)]
    BY <1>3, <1>8
  <1>11. Outstanding' = [d \in 1 .. m |-> Held((h + t) + d)]
    <2>1. Outstanding' = [d \in 1 .. m |->
                             IF (h + t) + d <= History THEN slots[Place((h + t) + d)].pieces ELSE <<>>]
      BY <1>1, <1>4, <1>7, <1>8 DEF NextOut
    <2> QED
      BY <2>1 DEF Held
  <1>12. PICK a \in Seq(Payloads), b \in Seq(Payloads) :
            a = Outstanding /\ b = Outstanding' /\ Len(a) = t + m
    <2>1. DOMAIN Outstanding = 1 .. t + m /\ t + m \in Nat
      BY <1>8, <1>10
    <2>2. Outstanding \in Seq(Payloads) /\ Outstanding' \in Seq(Payloads)
      BY <1>3, <1>4 DEF NextOut
    <2>3. Len(Outstanding) = t + m
      BY <2>1, <2>2, LenProperties
    <2> QED
      BY <2>2, <2>3
  <1>13. PICK f, q : f \in Seq(Payloads) /\ q \in Seq(Payloads) /\ Halves(f, q, a, t, m)
    BY <1>8, <1>12, Halved
  <1>14. f = [d \in 1 .. t |-> Pool(p)[SeqAdd(last_handled, d)]]
    <2>1. f = [d \in 1 .. t |-> a[d]]
      BY <1>13 DEF Halves
    <2>2. \A d \in 1 .. t : a[d] = Held(h + d)
      <3>1. \A d \in 1 .. t : d \in 1 .. t + m
        BY <1>8
      <3> QED
        BY <1>10, <1>12, <3>1
    <2>3. \A d \in 1 .. t : a[d] = Pool(p)[SeqAdd(last_handled, d)]
      BY <1>9, <2>2
    <2> QED
      BY <2>1, <2>3
  <1>15. q = b
    <2>1. q = [d \in 1 .. m |-> a[t + d]]
      BY <1>13 DEF Halves
    <2>2. ASSUME NEW d \in 1 .. m PROVE a[t + d] = Held((h + t) + d)
      <3>1. t + d \in 1 .. t + m /\ h + (t + d) = (h + t) + d
        BY <1>8
      <3>2. a[t + d] = Held(h + (t + d))
        BY <1>10, <1>12, <3>1
      <3> QED
        BY <3>1, <3>2
    <2> QED
      BY <1>11, <1>12, <2>1, <2>2
  <1>16. FlattenSeq(f) \in Payloads /\ FlattenSeq(a) = FlattenSeq(f) \o FlattenSeq(b)
    <2>1. f \in Seq(Seq(Client!Pieces)) /\ b \in Seq(Seq(Client!Pieces))
      BY <1>13 DEF Payloads
    <2>2. FlattenSeq(f) \in Seq(Client!Pieces) /\ FlattenSeq(f \o b) = FlattenSeq(f) \o FlattenSeq(b)
      BY <2>1, FlattenConcat
    <2>3. a = f \o b
      BY <1>13, <1>15 DEF Halves
    <2> QED
      BY <2>2, <2>3 DEF Payloads
  <1>17. FlattenSeq(f) = Brought(Pool(p), Taken(p))
    BY <1>6, <1>14 DEF Brought
  <1>18. Waiting' \in Payloads
    BY <1>4 DEF NextOut
  <1> QED
    BY <1>12, <1>16, <1>17, <1>18 DEF Waiting
----------------------------------------------------------------------------
(* Whole submessages stay whole *)

\* One sequence behind another.
Behind(j, p, q, l, m) ==
    /\ j = p \o q /\ Len(j) = l + m
    /\ \A i \in 1 .. l : j[i] = p[i]
    /\ \A i \in 1 .. m : j[l + i] = q[i]

LEMMA Joined ==
    ASSUME NEW p \in Payloads, NEW q \in Payloads, NEW l \in Nat, NEW m \in Nat,
           l = Len(p), m = Len(q)
    PROVE  \E j \in Payloads : Behind(j, p, q, l, m)
  <1>1. /\ p \o q \in Payloads /\ Len(p \o q) = l + m
        /\ \A i \in 1 .. l + m : (p \o q)[i] = IF i <= l THEN p[i] ELSE q[i - l]
    BY ConcatProperties DEF Payloads
  <1>2. \A i \in 1 .. m : l + i \in 1 .. l + m /\ ~(l + i <= l) /\ (l + i) - l = i
    OBVIOUS
  <1>3. ASSUME NEW i \in 1 .. m PROVE (p \o q)[l + i] = q[i]
    BY <1>1, <1>2
  <1>4. \A i \in 1 .. l : (p \o q)[i] = p[i]
    BY <1>1
  <1>5. PICK j \in Payloads : j = p \o q
    BY <1>1
  <1>6. Behind(j, p, q, l, m)
    BY <1>1, <1>3, <1>4, <1>5 DEF Behind
  <1> QED
    BY <1>6

\* A unit goes on behind submessages that are complete.
LEMMA CompleteWithUnit ==
    ASSUME NEW f, NEW q \in Payloads, Complete(f, q), NEW u \in Payloads, NEW sub, Unit(u, sub)
    PROVE  Complete(f, q \o u)
  <1>1. PICK l \in Nat, m \in Nat : l = Len(q) /\ m = Len(u) /\ m > 0 /\ (l = 0 <=> q = <<>>)
    BY EmptySeq DEF Payloads, Unit
  <1>2. PICK j \in Payloads : /\ j = q \o u /\ Len(j) = l + m
                              /\ \A i \in 1 .. l : j[i] = q[i]
                              /\ \A i \in 1 .. m : j[l + i] = u[i]
    <2>1. PICK j \in Payloads : Behind(j, q, u, l, m)
      BY <1>1, Joined
    <2> QED
      BY <2>1 DEF Behind
  <1>3. \A d \in 1 .. m :
           /\ u[d].sub = sub /\ u[d].part = d
           /\ u[d].kind = IF d < m THEN "FRAGMENT" ELSE IF d = 1 THEN "WHOLE" ELSE "LAST"
    BY <1>1 DEF Unit
  <1>4. /\ InTurn(f) /\ (q = <<>> => f = <<>>)
        /\ q # <<>> => Continues(f, q[1]) /\ q[l].kind # "FRAGMENT"
        /\ \A i \in 1 .. l - 1 : Follows(q[i], q[i + 1])
    BY <1>1 DEF Complete, Chained
  <1>5. Opens(u[1])
    <2>1. 1 \in 1 .. m
      BY <1>1
    <2>2. u[1].part = 1 /\ u[1].kind \in {"FRAGMENT", "WHOLE"}
      BY <1>3, <2>1
    <2> QED
      BY <2>2 DEF Opens
  <1>6. j # <<>> /\ Continues(f, j[1])
    <2>1. j # <<>>
      BY <1>1, <1>2
    <2>2. CASE l = 0
      <3>1. j[l + 1] = u[1] /\ f = <<>> /\ l + 1 = 1
        BY <1>1, <1>2, <1>4, <2>2
      <3> QED
        BY <1>5, <2>1, <3>1 DEF Continues
    <2>3. CASE l # 0
      <3>1. j[1] = q[1] /\ q # <<>>
        BY <1>1, <1>2, <2>3
      <3> QED
        BY <1>4, <2>1, <3>1
    <2> QED
      BY <2>2, <2>3
  <1>7. ASSUME NEW i \in 1 .. (l + m) - 1 PROVE Follows(j[i], j[i + 1])
    <2>1. CASE i < l
      <3>1. j[i] = q[i] /\ j[i + 1] = q[i + 1] /\ i \in 1 .. l - 1
        BY <1>2, <2>1
      <3> QED
        BY <1>4, <3>1
    <2>2. CASE i = l
      <3>1. j[l] = q[l] /\ j[l + 1] = u[1] /\ q # <<>>
        BY <1>1, <1>2, <2>2
      <3> QED
        BY <1>4, <1>5, <2>2, <3>1 DEF Follows
    <2>3. CASE i > l
      <3>1. PICK d \in 1 .. m - 1 : i = l + d /\ i + 1 = l + (d + 1)
        <4>1. i - l \in 1 .. m - 1 /\ i = l + (i - l) /\ i + 1 = l + ((i - l) + 1)
          BY <2>3
        <4> QED
          BY <4>1
      <3>2. d \in 1 .. m /\ d + 1 \in 1 .. m /\ d < m /\ d + 1 # 1
        OBVIOUS
      <3>3. j[i] = u[d] /\ j[i + 1] = u[d + 1]
        BY <1>2, <3>1, <3>2
      <3>4. /\ u[d].kind = "FRAGMENT" /\ u[d + 1].sub = u[d].sub
            /\ u[d + 1].part = u[d].part + 1 /\ u[d + 1].kind # "WHOLE"
        BY <1>3, <3>2
      <3> QED
        BY <3>3, <3>4 DEF Follows
    <2> QED
      BY <2>1, <2>2, <2>3
  <1>8. j[l + m].kind # "FRAGMENT"
    <2>1. m \in 1 .. m
      BY <1>1
    <2>2. u[m].kind # "FRAGMENT"
      BY <1>3, <2>1
    <2> QED
      BY <1>2, <2>1, <2>2
  <1> QED
    BY <1>2, <1>4, <1>6, <1>7, <1>8 DEF Complete, Chained

\* What is left of complete submessages, when the first pieces are processed.
LEMMA CompleteInTwo ==
    ASSUME NEW f, NEW t \in Payloads, NEW r \in Payloads, Complete(f, t \o r)
    PROVE  /\ Chained(f, t)
           /\ \A g : /\ InTurn(g)
                     /\ t = <<>> => g = f
                     /\ t # <<>> =>
                           /\ \A q : Follows(t[Len(t)], q) => Continues(g, q)
                           /\ t[Len(t)].kind # "FRAGMENT" => g = <<>>
                     => Complete(g, r)
  <1>1. PICK n \in Nat, m \in Nat : /\ n = Len(t) /\ m = Len(r)
                                    /\ (n = 0 <=> t = <<>>) /\ (m = 0 <=> r = <<>>)
    BY EmptySeq DEF Payloads
  <1>2. PICK j \in Payloads : /\ j = t \o r /\ Len(j) = n + m
                              /\ \A i \in 1 .. n : j[i] = t[i]
                              /\ \A i \in 1 .. m : j[n + i] = r[i]
    <2>1. PICK j \in Payloads : Behind(j, t, r, n, m)
      BY <1>1, Joined
    <2> QED
      BY <2>1 DEF Behind
  <1>3. /\ InTurn(f)
        /\ j # <<>> => Continues(f, j[1]) /\ j[n + m].kind # "FRAGMENT"
        /\ \A i \in 1 .. (n + m) - 1 : Follows(j[i], j[i + 1])
        /\ n + m # 0 => j # <<>>
    <2>1. n + m # 0 => j # <<>>
      BY <1>2
    <2> QED
      BY <1>2, <2>1 DEF Complete, Chained
  <1>4. Chained(f, t)
    <2>1. t # <<>> => Continues(f, t[1])
      BY <1>1, <1>2, <1>3
    <2>2. ASSUME NEW i \in 1 .. n - 1 PROVE Follows(t[i], t[i + 1])
      <3>1. i \in 1 .. (n + m) - 1 /\ j[i] = t[i] /\ j[i + 1] = t[i + 1]
        BY <1>2
      <3> QED
        BY <1>3, <3>1
    <2> QED
      BY <1>1, <1>3, <2>1, <2>2 DEF Chained
  <1>5. \A i \in 1 .. m - 1 : Follows(r[i], r[i + 1])
    <2>1. ASSUME NEW i \in 1 .. m - 1 PROVE Follows(r[i], r[i + 1])
      <3>1. /\ n + i \in 1 .. (n + m) - 1 /\ (n + i) + 1 = n + (i + 1)
            /\ i \in 1 .. m /\ i + 1 \in 1 .. m
        OBVIOUS
      <3>2. j[n + i] = r[i] /\ j[(n + i) + 1] = r[i + 1]
        BY <1>2, <3>1
      <3> QED
        BY <1>3, <3>1, <3>2
    <2> QED
      BY <2>1
  <1>6. m # 0 => r[m].kind # "FRAGMENT"
    <2>1. m # 0 => m \in 1 .. m /\ n + m # 0
      OBVIOUS
    <2> QED
      BY <1>2, <1>3, <2>1
  <1>7. ASSUME NEW g, InTurn(g), t = <<>> => g = f,
               t # <<>> => /\ \A q : Follows(t[n], q) => Continues(g, q)
                           /\ t[n].kind # "FRAGMENT" => g = <<>>
        PROVE  Complete(g, r)
    <2>1. CASE n = 0
      <3>1. g = f
        BY <1>1, <1>7, <2>1
      <3>2. j = r
        <4>1. \A i \in 1 .. m : j[i] = r[i]
          BY <1>2, <2>1
        <4>2. Len(j) = m
          BY <1>2, <2>1
        <4> QED
          BY <1>1, <1>2, <4>1, <4>2, SeqEqual DEF Payloads
      <3> QED
        BY <1>2, <3>1, <3>2
    <2>2. CASE n # 0
      <3>1. n \in 1 .. n /\ j[n] = t[n] /\ t # <<>>
        BY <1>1, <1>2, <2>2
      <3>2. CASE m = 0
        <4>1. j # <<>> /\ n + m = n
          BY <1>3, <2>2, <3>2
        <4>2. t[n].kind # "FRAGMENT"
          BY <1>3, <3>1, <4>1
        <4>3. g = <<>> /\ r = <<>>
          BY <1>1, <1>7, <3>1, <3>2, <4>2
        <4> QED
          BY <4>3 DEF Complete, Chained, InTurn
      <3>3. CASE m # 0
        <4>1. 1 \in 1 .. m /\ n \in 1 .. (n + m) - 1 /\ r # <<>>
          BY <1>1, <3>1, <3>3
        <4>2. Follows(t[n], r[1])
          BY <1>2, <1>3, <3>1, <4>1
        <4>3. Continues(g, r[1])
          BY <1>7, <3>1, <4>2
        <4> QED
          BY <1>1, <1>5, <1>6, <1>7, <3>3, <4>1, <4>3 DEF Complete, Chained
      <3> QED
        BY <3>2, <3>3
    <2> QED
      BY <2>1, <2>2
  <1> QED
    BY <1>1, <1>4, <1>7
----------------------------------------------------------------------------
(* The stream as a channel *)

\* A session that begins has nothing that waits.
LEMMA FreshWaits == ASSUME UplinkAssumption, Fresh PROVE Waiting = <<>> /\ PiecesInv
  <1>1. UpInv
    BY FreshUp
  <1>2. Ahead(last_handled) = 0 /\ Ahead(last_written) = 1
    BY Constants DEF Fresh, Ahead, SeqSub
  <1>3. Outstanding = [d \in 1 .. 1 |-> Held(d)] /\ Outstanding \in Seq(Payloads)
    <2>1. PICK h \in 0 .. History, w \in 1 .. History + 1 :
              /\ h = 0 /\ w = 1 /\ Outstanding = [d \in 1 .. w - h |-> Held(h + d)]
              /\ Outstanding \in Seq(Payloads)
      BY <1>1, <1>2, OutstandingIs DEF OutIs
    <2>2. w - h = 1 /\ \A d \in 1 .. 1 : h + d = d
      BY <2>1
    <2> QED
      BY <2>1, <2>2
  <1>4. Held(1) = <<>>
    <2>1. last_acknown \in SeqNums /\ 1 \in 1 .. History /\ 1 <= History
      BY Constants DEF Fresh, SeqNums
    <2>2. Place(1) \in 0 .. History - 1
      BY <2>1, Places
    <2> QED
      BY <2>1, <2>2 DEF Held, Fresh, Client!Free
  <1>5. Outstanding = <<<<>>>>
    <2>1. PICK q \in Seq(Payloads) : q = Outstanding
      BY <1>3
    <2>2. DOMAIN q = 1 .. 1 /\ q[1] = <<>>
      BY <1>3, <1>4, <2>1
    <2>3. Len(q) = 1
      BY <2>2, LenProperties
    <2> QED
      BY <2>1, <2>2, <2>3
  <1>6. Waiting = <<>>
    <2>1. <<>> \in Seq(Client!Pieces)
      BY EmptySeq
    <2>2. FlattenSeq(<<<<>>>>) = <<>>
      BY <2>1, FlattenSingles
    <2> QED
      BY <1>5, <2>2 DEF Waiting
  <1>7. fragment = <<>>
    BY DEF Fresh
  <1> QED
    BY <1>6, <1>7 DEF PiecesInv, Complete, Chained, InTurn

\* Nothing happens to the channel, one submessage is accepted, or some are
\* delivered.
Passes ==
    LET queue == EndIn[Waiting]
        heard == Heard(delivered')
    IN  \/ EndIn[Waiting'] = queue /\ heard = <<>>
        \/ \E s \in Submessages : EndIn[Waiting'] = Append(queue, s) /\ heard = <<>>
        \/ heard # <<>> /\ queue = heard \o EndIn[Waiting']

LEMMA NothingPasses ==
    ASSUME PiecesInv, UNCHANGED Waiting, UNCHANGED fragment, delivered' = <<>>
    PROVE  PiecesInv' /\ Passes
  <1>1. PiecesInv'
    BY DEF PiecesInv, Complete, Chained, InTurn
  <1>2. Heard(delivered') = <<>>
    BY DEF Heard
  <1> QED
    BY <1>1, <1>2 DEF Passes

LEMMA WritePasses ==
    ASSUME UplinkAssumption, Careful, UpInv, UpInv', PiecesInv,
           NEW sub \in Submessages, NEW n \in Sizes, Write(sub, n)
    PROVE  PiecesInv' /\ Passes
  <1>1. Grows /\ Accepts(sub) /\ AgentIdle
    BY WriteGrows DEF Write
  <1>2. PICK u \in Payloads, c \in 0 .. 1 : Unit(u, sub) /\ Appends(u, c)
    BY <1>1 DEF Accepts
  <1>3. UNCHANGED <<last_handled, fragment>> /\ delivered' = <<>>
    BY <1>1 DEF AgentIdle
  <1>4. Waiting' = Waiting \o u
    BY <1>1, <1>2, <1>3, WriteWaits
  <1>5. PICK q \in Payloads : q = Waiting
    BY OutstandingIs DEF OutIs
  <1>6. Complete(fragment, q \o u)
    BY <1>2, <1>5, CompleteWithUnit DEF PiecesInv
  <1>7. PiecesInv'
    <2>1. Waiting' = q \o u
      BY <1>4, <1>5
    <2>2. PiecesInv' <=> Complete(fragment', Waiting')
      BY DEF PiecesInv, Complete, Chained, InTurn
    <2> QED
      BY <1>3, <1>6, <2>1, <2>2
  <1>8. EndIn[u] = <<sub>>
    <2>1. PICK m \in Nat : Len(u) = m + 1
      <3>1. Len(u) \in Nat /\ Len(u) > 0
        BY <1>2 DEF Unit, Payloads
      <3>2. Len(u) - 1 \in Nat /\ Len(u) = (Len(u) - 1) + 1
        BY <3>1
      <3> QED
        BY <3>2
    <2>2. \A j \in 1 .. m + 1 :
             /\ u[j].sub = sub
             /\ u[j].kind = IF j < m + 1 THEN "FRAGMENT" ELSE IF j = 1 THEN "WHOLE" ELSE "LAST"
      BY <1>2, <2>1 DEF Unit
    <2>3. m + 1 \in 1 .. m + 1 /\ \A j \in 1 .. m : j \in 1 .. m + 1 /\ j < m + 1
      OBVIOUS
    <2>4. \A j \in 1 .. m : u[j].kind = "FRAGMENT"
      BY <2>2, <2>3
    <2>5. u[m + 1].kind # "FRAGMENT" /\ u[m + 1].sub = sub
      BY <2>2, <2>3
    <2>6. EndIn[u] = <<u[m + 1].sub>>
      BY <2>1, <2>4, <2>5, EndInUnit
    <2> QED
      BY <2>5, <2>6
  <1>9. EndIn[Waiting'] = Append(EndIn[Waiting], sub)
    <2>1. EndIn[q] \in Seq(Submessages) /\ EndIn[q \o u] = EndIn[q] \o EndIn[u]
      BY EndInConcat
    <2>2. PICK e \in Seq(Submessages) : e = EndIn[q]
      BY <2>1
    <2>3. Append(e, sub) = e \o <<sub>>
      BY AppendIsConcat
    <2> QED
      BY <1>4, <1>5, <1>8, <2>1, <2>2, <2>3
  <1>10. Heard(delivered') = <<>>
    BY <1>3 DEF Heard
  <1> QED
    BY <1>7, <1>9, <1>10 DEF Passes

LEMMA ReceivePasses ==
    ASSUME UplinkAssumption, UpInv, UpInv', PiecesInv, NEW p \in network, ReceiveData(p)
    PROVE  PiecesInv' /\ Passes
  <1>1. PICK t \in Payloads, r \in Payloads :
           t = Brought(Pool(p), Taken(p)) /\ r = Waiting' /\ Waiting = t \o r
    BY ReceiveWaits
  <1>2. Complete(fragment, t \o r)
    BY <1>1 DEF PiecesInv
  <1>3. Chained(fragment, t)
    BY <1>2, CompleteInTwo
  <1>4. Agent!TakeOut(Pool(p), Taken(p)) /\ Taken(p) \in Nat /\ Typed
    <2>1. Agent!TakeOut(Pool(p), Taken(p))
      BY DEF ReceiveData, Agent!Receive, Pool, Taken
    <2>2. Taken(p) \in 0 .. Depth
      BY ReceiveDataIs
    <2> QED
      BY <2>1, <2>2, Scale DEF UpInv
  <1>5. /\ Heard(delivered') = EndIn[t]
        /\ InTurn(fragment')
        /\ t = <<>> => fragment' = fragment
        /\ t # <<>> =>
              /\ \A q : Follows(t[Len(t)], q) => Continues(fragment', q)
              /\ t[Len(t)].kind # "FRAGMENT" => fragment' = <<>>
    BY <1>1, <1>3, <1>4, TakeOutPasses
  <1>6. PICK g : g = fragment'
    OBVIOUS
  <1>7. Complete(g, r)
    BY <1>2, <1>5, <1>6, CompleteInTwo
  <1>8. PiecesInv'
    <2>1. PiecesInv' <=> Complete(fragment', Waiting')
      BY DEF PiecesInv, Complete, Chained, InTurn
    <2> QED
      BY <1>1, <1>6, <1>7, <2>1
  <1>9. PICK e \in Seq(Submessages), l \in Seq(Submessages) :
           e = EndIn[t] /\ l = EndIn[r] /\ EndIn[t \o r] = e \o l
    BY EndInConcat
  <1>10. e = <<>> => e \o l = l
    BY ConcatEmptySeq
  <1> QED
    BY <1>1, <1>5, <1>8, <1>9, <1>10 DEF Passes

\* The application writes a submessage, the Agent processes those whose turn
\* has come, or nothing comes of the step.
LEMMA StepPasses ==
    ASSUME UplinkAssumption, Ordered, UpInv, UpInv', PiecesInv, Next
    PROVE  PiecesInv' /\ (Passes \/ Restart)
  <1>1. ASSUME NEW sub \in Submessages, NEW n \in Sizes, Write(sub, n) PROVE PiecesInv' /\ Passes
    BY <1>1, WritePasses DEF Ordered
  <1>2. CASE Flash
    BY <1>2, FlashWaits, NothingPasses DEF Flash, AgentIdle
  <1>3. CASE SendHeartbeat
    <2>1. /\ UNCHANGED <<slots, last_written, last_acknown, last_handled, fragment>>
          /\ delivered' = <<>>
      BY <1>3 DEF SendHeartbeat, AgentIdle, clientVars
    <2> QED
      BY <2>1, SameWaits, NothingPasses
  <1>4. ASSUME NEW i \in DOMAIN acks, ReceiveAcknack(i) PROVE PiecesInv' /\ Passes
    <2>1. UNCHANGED Waiting
      BY <1>4, AcknackWaits DEF Ordered
    <2>2. UNCHANGED fragment /\ delivered' = <<>>
      BY <1>4 DEF ReceiveAcknack, AgentIdle
    <2> QED
      BY <2>1, <2>2, NothingPasses
  <1>5. ASSUME NEW p \in network, ReceiveData(p) PROVE PiecesInv' /\ Passes
    BY <1>5, ReceivePasses
  <1>6. ASSUME NEW p \in network, ReceiveHeartbeat(p) PROVE PiecesInv' /\ Passes
    <2>1. /\ UNCHANGED <<slots, last_written, last_acknown, fragment>>
          /\ delivered' = <<>>
      BY <1>6 DEF ReceiveHeartbeat, Agent!Heartbeat, clientVars
    <2>2. UNCHANGED last_handled
      BY <1>6, HeartbeatSkipsNothing
    <2> QED
      BY <2>1, <2>2, SameWaits, NothingPasses
  <1>7. CASE Restart
    <2>1. Fresh'
      BY <1>7, AgentArith, ClientArith DEF Ordered, Restart, Client!Reset, Agent!Reset, Fresh
    <2>2. PiecesInv'
      BY <2>1, FreshWaits, PTL
    <2> QED
      BY <1>7, <2>2
  <1> QED
    BY <1>1, <1>2, <1>3, <1>4, <1>5, <1>6, <1>7 DEF Next

\* The pieces that wait go on where the fragments end, in every behaviour.
THEOREM UpPiecesInvariant == ASSUME UplinkAssumption, Ordered PROVE Spec => [](UpInv /\ PiecesInv)
  <1>1. Init => UpInv /\ PiecesInv
    <2> SUFFICES ASSUME Init PROVE UpInv /\ PiecesInv
      OBVIOUS
    <2>1. Fresh
      BY AgentArith, ClientArith DEF Init, Client!Init, Agent!Init, Fresh, Client!MaxSeq
    <2> QED
      BY <2>1, FreshUp, FreshWaits
  <1>2. UpInv /\ PiecesInv /\ [Next]_vars => UpInv' /\ PiecesInv'
    <2> SUFFICES ASSUME UpInv, PiecesInv, [Next]_vars PROVE UpInv' /\ PiecesInv'
      OBVIOUS
    <2>1. UpInv'
      BY StepUp
    <2>2. CASE Next
      BY <2>1, <2>2, StepPasses
    <2>3. CASE UNCHANGED vars
      <3>1. UNCHANGED <<slots, last_written, last_acknown, last_handled, fragment>>
        BY <2>3 DEF vars, clientVars, agentVars
      <3>2. UNCHANGED Waiting
        BY <3>1, SameWaits
      <3>3. PiecesInv'
        BY <3>1, <3>2 DEF PiecesInv, Complete, Chained, InTurn
      <3> QED
        BY <2>1, <3>3
    <2> QED
      BY <2>2, <2>3
  <1> QED
    BY <1>1, <1>2, PTL DEF Spec

\* The Agent processes each submessage once, whole, and in the order in which
\* the application wrote them: the stream implements the reliable channel.
THEOREM UpChannelImplemented ==
    ASSUME UplinkAssumption, Ordered PROVE Spec => ImplementsChannel
  <1>1. Init => Channel!Init
    <2> SUFFICES ASSUME Init PROVE Channel!Init
      OBVIOUS
    <2>1. Fresh /\ delivered = <<>>
      BY AgentArith, ClientArith DEF Init, Client!Init, Agent!Init, Fresh, Client!MaxSeq
    <2>2. Waiting = <<>>
      BY <2>1, FreshWaits
    <2>3. EndIn[<<>>] = <<>>
      <3>1. <<>> \in Payloads /\ Len(<<>>) = 0
        BY EmptySeq DEF Payloads
      <3>2. PICK f : Upto(f, <<>>) /\ EndIn[<<>>] = f[0]
        BY <3>1, EndInIs
      <3> QED
        BY <3>2 DEF Upto
    <2>4. Heard(delivered) = <<>>
      BY <2>1 DEF Heard
    <2> QED
      BY <2>2, <2>3, <2>4 DEF Channel!Init, Heard
  <1>2. UpInv /\ UpInv' /\ PiecesInv /\ [Next]_vars => [Channel!Next \/ Restart]_(Channel!vars)
    <2> SUFFICES ASSUME UpInv, UpInv', PiecesInv, [Next]_vars
                 PROVE  [Channel!Next \/ Restart]_(Channel!vars)
      OBVIOUS
    <2>1. CASE Next
      <3>1. Passes \/ Restart
        BY <2>1, StepPasses
      <3>2. Passes => Channel!Next
        BY DEF Passes, Heard, Channel!Next, Channel!Idle, Channel!Send, Channel!Receive
      <3> QED
        BY <3>1, <3>2
    <2>2. CASE UNCHANGED vars
      <3>1. UNCHANGED <<slots, last_written, last_acknown, last_handled, delivered>>
        BY <2>2 DEF vars, clientVars, agentVars
      <3>2. UNCHANGED Waiting
        BY <3>1, SameWaits
      <3> QED
        BY <3>1, <3>2 DEF Channel!vars
    <2> QED
      BY <2>1, <2>2
  <1> QED
    BY <1>1, <1>2, UpPiecesInvariant, PTL DEF Spec, ImplementsChannel
=============================================================================
