----------------------------- MODULE LinksProofs -----------------------------
(***************************************************************************)
(* Proofs about the links that run side by side in MCLinks.                *)
(*                                                                         *)
(* BestEffortDownlink, for every modulus, depth and set of threads: the    *)
(* Client's filter is right about every message that may reach it, and the *)
(* stream implements the lossy channel, if sessions are created anew only  *)
(* when nothing is on its way.  The numbers are compared by their          *)
(* distances to last_sent, which are the differences of what they stand    *)
(* for: the window from the oldest copy of a message to the newest message *)
(* is shorter than a turn of the numbers.                                  *)
(*                                                                         *)
(* BestEffortUplink, for every modulus, buffer, header and depth: it, too, *)
(* implements the lossy channel.  The buffer holds the newest submessages, *)
(* no message overlaps another, and what is admitted is the newer one.     *)
(*                                                                         *)
(* Uplink and Framing: what UplinkProofs and FramingProofs prove of the    *)
(* stream and of the line alone holds in the system.                       *)
(***************************************************************************)
EXTENDS MCLinks, SeqNumProofs, SequenceTheorems

\* Between two logins nothing is on its way.
QuietInv ==
    creating => /\ \A t \in Writers : thread[t] = Idle
                /\ queue = <<>> /\ network = {}
                /\ received = 0 /\ last_handled = MaxSeq

\* What is in the queue some thread will send.
SomeoneSends == queue # <<>> => \E t \in Writers : thread[t] # Idle

\* The newest messages are those in the queue, one after the other; the others
\* are older, and the Client is at one of those.
OrderInv ==
    ~creating =>
        /\ received <= sent - Len(queue)
        /\ sent - received < Half
        /\ \A i \in DOMAIN queue : queue[i].id = sent - Len(queue) + i
        /\ \A m \in network : m.id <= sent - Len(queue) /\ received - m.id <= Half
        /\ \A m \in InHands : m.id <= sent - Len(queue) /\ sent - m.id <= Half

\* Distances of numbers are differences of ids.
NumberInv ==
    ~creating =>
        /\ SeqSub(last_sent, last_handled) = sent - received
        /\ \A m \in Under : SeqSub(last_sent, m.seq) = sent - m.id

IInv == TypeOK /\ QuietInv /\ SomeoneSends /\ OrderInv /\ NumberInv

----------------------------------------------------------------------------
(* Facts about numbers, queues and threads *)

\* Numbers less than a turn behind o, of which one is not older than half a
\* turn before the other, are ordered as their distances.
LEMMA OrderIsDistance ==
    ASSUME NEW o \in SeqNums, NEW h \in SeqNums, NEW q \in SeqNums,
           SeqSub(o, h) < Half, SeqSub(o, q) - SeqSub(o, h) <= Half
    PROVE  SeqLt(h, q) <=> SeqSub(o, q) < SeqSub(o, h)
  BY HalfAssumption DEF SeqLt, SeqSub, SeqNums, Modulus

\* A number further, all distances grow by one, unless they were a turn.
LEMMA OneFurther ==
    ASSUME NEW o \in SeqNums, NEW q \in SeqNums, SeqSub(o, q) < MaxSeq
    PROVE  /\ Wrap(o + 1) \in SeqNums
           /\ SeqSub(Wrap(o + 1), q) = SeqSub(o, q) + 1
  BY HalfAssumption DEF SeqSub, SeqNums, Modulus, MaxSeq, Wrap

\* The two sums of push_submessage agree, and the new number is at no distance.
LEMMA NewNumber ==
    ASSUME NEW o \in SeqNums
    PROVE  /\ SeqAdd(o, 1) = Wrap(o + 1)
           /\ SeqSub(Wrap(o + 1), Wrap(o + 1)) = 0
  BY HalfAssumption, DownlinkAssumption DEF SeqAdd, SeqSub, SeqNums, Modulus, Wrap

\* What a thread can hold, and that the three states differ.
LEMMA ThreadCases ==
    ASSUME TypeOK, NEW t \in Writers
    PROVE  /\ thread[t] \in {Idle, Sending} \cup {Holding(m) : m \in Messages}
           /\ Idle.op = "idle" /\ Sending.op = "sending"
           /\ thread[t].op = "holding" =>
                 thread[t].msg \in Messages /\ thread[t].msg \in InHands
  <1>1. thread[t] \in {Idle, Sending} \cup {Holding(m) : m \in Messages}
    BY DEF TypeOK
  <1>2. Idle.op = "idle" /\ Sending.op = "sending"
    BY DEF Idle, Sending
  <1>3. ASSUME thread[t].op = "holding"
        PROVE  thread[t].msg \in Messages /\ thread[t].msg \in InHands
    <2>1. PICK m \in Messages : thread[t] = Holding(m)
      BY <1>1, <1>2, <1>3
    <2>2. thread[t].msg = m
      BY <2>1 DEF Holding
    <2> QED
      BY <1>3, <2>2 DEF InHands
  <1> QED
    BY <1>1, <1>2, <1>3

\* When a thread goes to another place than a message in its hands, no message
\* comes into hands.
LEMMA HandsShrink ==
    ASSUME TypeOK, NEW t \in Writers, NEW s, s.op # "holding",
           thread' = [thread EXCEPT ![t] = s]
    PROVE  InHands' \subseteq InHands
  BY DEF TypeOK, InHands

\* Taking a message into its hands adds that one.
LEMMA HandsTake ==
    ASSUME TypeOK, NEW t \in Writers, NEW m,
           thread' = [thread EXCEPT ![t] = Holding(m)]
    PROVE  InHands' \subseteq InHands \cup {m}
  BY DEF TypeOK, InHands, Holding

----------------------------------------------------------------------------

\* The filter is right where the invariant holds.
LEMMA InvFilters == ASSUME IInv PROVE FilterIsRight
  <1> SUFFICES ASSUME NEW m \in Under PROVE Newer(m.seq) <=> m.id > received
    BY DEF FilterIsRight
  <1>1. CASE creating
    BY <1>1, DownlinkAssumption DEF IInv, QuietInv, Under, InHands, Idle
  <1>2. CASE ~creating
    <2>1. /\ last_sent \in SeqNums /\ last_handled \in SeqNums
          /\ sent \in Int /\ received \in Int /\ Half \in Int
      BY HalfAssumption, DownlinkAssumption DEF IInv, TypeOK
    <2>2. /\ SeqSub(last_sent, last_handled) = sent - received
          /\ SeqSub(last_sent, m.seq) = sent - m.id
          /\ sent - received < Half /\ received <= sent - Len(queue)
      BY <1>2 DEF IInv, OrderInv, NumberInv
    <2>3. m \in Messages /\ received - m.id <= Half
      <3>1. CASE m \in network
        BY <1>2, <3>1 DEF IInv, TypeOK, OrderInv
      <3>2. CASE m \in InHands
        <4>1. PICK t \in Writers : thread[t].op = "holding" /\ m = thread[t].msg
          BY <3>2 DEF InHands
        <4>2. m \in Messages
          BY <4>1, ThreadCases DEF IInv
        <4>3. m.id \in Int /\ Len(queue) \in Nat /\ received <= sent
          BY <2>1, <2>2, <4>2 DEF Messages, IInv, TypeOK
        <4>4. sent - m.id <= Half
          BY <1>2, <3>2 DEF IInv, OrderInv
        <4> QED
          BY <2>1, <4>2, <4>3, <4>4
      <3>3. CASE \E i \in DOMAIN queue : m = queue[i]
        <4>1. PICK i \in DOMAIN queue : m = queue[i]
          BY <3>3
        <4>2. i \in 1 .. Len(queue) /\ m \in Messages /\ Len(queue) \in Nat
          BY <4>1 DEF IInv, TypeOK
        <4>3. m.id = sent - Len(queue) + i
          BY <1>2, <4>1 DEF IInv, OrderInv
        <4> QED
          BY <2>1, <2>2, <4>2, <4>3, HalfAssumption
      <3> QED
        BY <3>1, <3>2, <3>3 DEF Under
    <2>4. m.seq \in SeqNums /\ m.id \in Int
      BY <2>3 DEF Messages
    <2>5. SeqLt(last_handled, m.seq) <=> sent - m.id < sent - received
      BY <2>1, <2>2, <2>3, <2>4, OrderIsDistance
    <2>6. Newer(m.seq) <=> SeqLt(last_handled, m.seq)
      BY <2>1, <2>4 DEF Newer, ClientCmp, SeqLt
    <2> QED
      BY <2>1, <2>4, <2>5, <2>6
  <1> QED
    BY <1>1, <1>2

----------------------------------------------------------------------------
(* The invariant holds at first and is kept by every action *)

\* A session that begins has nothing on its way.
LEMMA InvInit == Init => IInv
  <1> SUFFICES ASSUME Init PROVE IInv
    OBVIOUS
  <1>1. InHands = {} /\ Under = {}
    BY DEF Init, InHands, Under, Idle
  <1>2. TypeOK
    <2>1. queue \in Seq(Messages) /\ Len(queue) <= Depth
      BY DownlinkAssumption DEF Init
    <2>2. MaxSeq \in SeqNums
      BY HalfAssumption DEF SeqNums, MaxSeq, Modulus
    <2>3. sent \in 0 .. MaxPushes /\ received \in 0 .. MaxPushes
      BY DownlinkAssumption DEF Init
    <2> QED
      BY <2>1, <2>2, <2>3 DEF Init, TypeOK
  <1>3. QuietInv /\ SomeoneSends
    BY DEF Init, QuietInv, SomeoneSends
  <1>4. OrderInv
    BY <1>1, HalfAssumption DEF Init, OrderInv
  <1>5. NumberInv
    BY <1>1, HalfAssumption DEF Init, NumberInv, SeqSub, MaxSeq, Modulus
  <1> QED
    BY <1>2, <1>3, <1>4, <1>5 DEF IInv

\* Where nothing is on its way, nothing is in hands.
LEMMA IdleHandsEmpty ==
    ASSUME \A t \in Writers : thread[t] = Idle
    PROVE  InHands = {}
  BY DEF InHands, Idle

\* A new message.
LEMMA PushStep ==
    ASSUME Drained, IInv, NEW t \in Writers, Push(t)
    PROVE  IInv'
  <1>0. ~creating /\ ~creating' /\ TypeOK
    BY DEF Push, IInv
  <1>1. InHands' \subseteq InHands
    BY <1>0, HandsShrink DEF Push, Sending
  <1>2. thread'[t] = Sending /\ Sending # Idle
    BY <1>0 DEF Push, TypeOK, Sending, Idle
  <1>3. SomeoneSends' /\ QuietInv'
    BY <1>0, <1>2 DEF SomeoneSends, QuietInv
  <1>4. CASE UNCHANGED <<queue, last_sent, sent>>
    <2>1. TypeOK'
      BY <1>0, <1>4 DEF Push, TypeOK, clientVars
    <2>2. OrderInv'
      BY <1>0, <1>1, <1>4 DEF IInv, OrderInv, Push, clientVars
    <2>3. NumberInv'
      BY <1>0, <1>1, <1>4 DEF IInv, NumberInv, Push, clientVars, Under
    <2> QED
      BY <1>3, <2>1, <2>2, <2>3 DEF IInv
  <1>5. CASE /\ Len(queue) < Depth
             /\ sent < MaxPushes /\ InTime
             /\ queue' = Append(queue, [seq |-> SeqAdd(last_sent, 1), id |-> sent + 1])
             /\ last_sent' = Wrap(last_sent + 1)
             /\ sent' = sent + 1
    <2> DEFINE new == [seq |-> SeqAdd(last_sent, 1), id |-> sent + 1]
    <2>0. /\ queue \in Seq(Messages) /\ Len(queue) \in Nat
          /\ last_sent \in SeqNums /\ last_handled \in SeqNums
          /\ sent \in Nat /\ received \in Nat /\ MaxPushes \in Nat /\ Depth \in Nat
          /\ network \subseteq Messages
          /\ UNCHANGED <<network, last_handled, received>>
      BY <1>0, DownlinkAssumption DEF TypeOK, Push, clientVars
    <2>1. SeqAdd(last_sent, 1) \in SeqNums /\ last_sent' = SeqAdd(last_sent, 1)
      BY <1>5, <2>0, NewNumber, ArithTypes, HalfAssumption DEF SeqNums, Modulus
    <2>2. new \in Messages
      BY <1>5, <2>0, <2>1 DEF Messages
    <2>3. /\ queue' \in Seq(Messages) /\ Len(queue') = Len(queue) + 1
          /\ \A i \in DOMAIN queue : queue'[i] = queue[i]
          /\ queue'[Len(queue) + 1] = new
          /\ DOMAIN queue' = DOMAIN queue \cup {Len(queue) + 1}
      BY <1>5, <2>0, <2>2
    <2>4. TypeOK'
      BY <1>0, <1>5, <2>0, <2>1, <2>3 DEF TypeOK, Push
    <2>5. sent' - Len(queue') = sent - Len(queue)
      BY <1>5, <2>0, <2>3
    <2>6. OrderInv'
      <3>1. received' <= sent' - Len(queue') /\ sent' - received' < Half
        BY <1>0, <1>5, <2>0, <2>5 DEF IInv, OrderInv, InTime
      <3>2. ASSUME NEW i \in DOMAIN queue' PROVE queue'[i].id = sent' - Len(queue') + i
        <4>1. CASE i \in DOMAIN queue
          BY <1>0, <2>3, <2>5, <4>1 DEF IInv, OrderInv
        <4>2. CASE i = Len(queue) + 1
          BY <2>0, <2>3, <2>5, <4>2
        <4> QED
          BY <2>3, <4>1, <4>2
      <3>3. ASSUME NEW m \in network' PROVE m.id <= sent' - Len(queue') /\ received' - m.id <= Half
        BY <1>0, <2>0, <2>5 DEF IInv, OrderInv
      <3>4. ASSUME NEW m \in InHands PROVE m.id <= sent' - Len(queue') /\ sent' - m.id <= Half
        <4>1. m.id <= sent - Len(queue) /\ m.id \in Nat
          BY <1>0, ThreadCases DEF IInv, OrderInv, InHands, Messages
        <4>2. sent + 1 - m.id <= Half
          BY <1>5 DEF InTime
        <4>3. sent' = sent + 1
          BY <1>5
        <4> QED
          BY <2>0, <2>5, <4>1, <4>2, <4>3
      <3> QED
        BY <1>1, <3>1, <3>2, <3>3, <3>4 DEF OrderInv
    <2>7. NumberInv'
      <3>1. SeqSub(last_sent', last_handled') = sent' - received'
        <4>1. SeqSub(last_sent, last_handled) < MaxSeq
          BY <1>0, <1>5, <2>0, HalfAssumption, DownlinkAssumption
          DEF IInv, NumberInv, InTime, MaxSeq, Modulus
        <4> QED
          BY <1>0, <1>5, <2>0, <4>1, OneFurther DEF IInv, NumberInv
      <3>2. ASSUME NEW m \in Messages, m \in Under, received - m.id <= Half
            PROVE  SeqSub(last_sent', m.seq) = sent' - m.id
        <4>1. m.seq \in SeqNums /\ m.id \in Nat /\ SeqSub(last_sent, m.seq) = sent - m.id
          BY <1>0, <3>2 DEF IInv, NumberInv, Messages
        <4>2. sent - m.id < MaxSeq
          BY <1>5, <2>0, <3>2, <4>1, HalfAssumption DEF InTime, MaxSeq, Modulus
        <4> QED
          BY <1>5, <2>0, <4>1, <4>2, OneFurther
      <3>3. ASSUME NEW m \in Under' PROVE SeqSub(last_sent', m.seq) = sent' - m.id
        <4>1. CASE m \in network'
          BY <1>0, <2>0, <3>2, <4>1 DEF IInv, OrderInv, Under
        <4>2. CASE m \in InHands'
          <5>1. m \in InHands /\ m \in Messages
            BY <1>0, <1>1, <4>2, ThreadCases DEF InHands
          <5>2. sent - m.id <= Half /\ m.id \in Nat /\ received <= sent
            BY <1>0, <2>0, <5>1 DEF IInv, OrderInv, Messages
          <5> QED
            BY <2>0, <3>2, <5>1, <5>2, HalfAssumption DEF Under
        <4>3. CASE \E i \in DOMAIN queue' : m = queue'[i]
          <5>1. PICK i \in DOMAIN queue' : m = queue'[i]
            BY <4>3
          <5>2. CASE i \in DOMAIN queue
            <6>1. m = queue[i] /\ m \in Messages /\ i \in 1 .. Len(queue)
              BY <2>0, <2>3, <5>1, <5>2
            <6>2. received - m.id <= Half
              BY <1>0, <2>0, <5>2, <6>1, HalfAssumption DEF IInv, OrderInv
            <6> QED
              BY <3>2, <5>2, <6>1, <6>2 DEF Under
          <5>3. CASE i = Len(queue) + 1
            <6>1. m.seq = last_sent' /\ m.id = sent'
              BY <1>5, <2>1, <2>3, <5>1, <5>3
            <6> QED
              BY <1>5, <2>0, <2>1, <6>1, SubRange
          <5> QED
            BY <2>3, <5>1, <5>2, <5>3
        <4> QED
          BY <4>1, <4>2, <4>3 DEF Under
      <3> QED
        BY <3>1, <3>3 DEF NumberInv
    <2> QED
      BY <1>3, <2>4, <2>6, <2>7 DEF IInv
  <1> QED
    BY <1>4, <1>5 DEF Push

\* The oldest of the queue into a thread's hands, or the end of its callback.
LEMMA PopStep ==
    ASSUME Drained, IInv, NEW t \in Writers, Pop(t)
    PROVE  IInv'
  <1>0. /\ TypeOK /\ thread[t] = Sending /\ Sending # Idle
        /\ UNCHANGED <<last_sent, sent, network, last_handled, received, creating>>
    BY DEF Pop, IInv, clientVars, Sending, Idle
  <1>1. ~creating /\ ~creating'
    BY <1>0 DEF IInv, QuietInv
  <1>t. /\ queue \in Seq(Messages) /\ Len(queue) \in Nat
        /\ sent \in Nat /\ received \in Nat /\ Half \in Nat /\ Depth \in Nat
    BY <1>0, HalfAssumption, DownlinkAssumption DEF TypeOK
  <1>2. CASE queue = <<>>
    <2>1. thread' = [thread EXCEPT ![t] = Idle] /\ queue' = queue
      BY <1>2 DEF Pop
    <2>2. InHands' \subseteq InHands
      BY <1>0, <2>1, HandsShrink DEF Idle
    <2>3. TypeOK'
      BY <1>0, <2>1 DEF TypeOK
    <2>4. QuietInv' /\ SomeoneSends'
      BY <1>1, <1>2, <2>1 DEF QuietInv, SomeoneSends
    <2>5. OrderInv'
      BY <1>0, <1>1, <2>1, <2>2 DEF IInv, OrderInv
    <2>6. NumberInv'
      BY <1>0, <1>1, <2>1, <2>2 DEF IInv, NumberInv, Under
    <2> QED
      BY <2>3, <2>4, <2>5, <2>6 DEF IInv
  <1>3. CASE queue # <<>>
    <2> DEFINE m == Head(queue)
    <2>1. thread' = [thread EXCEPT ![t] = Holding(m)] /\ queue' = Tail(queue)
      BY <1>3 DEF Pop
    <2>2. /\ m = queue[1] /\ m \in Messages /\ 1 \in DOMAIN queue
          /\ queue' \in Seq(Messages) /\ Len(queue') = Len(queue) - 1 /\ Len(queue) > 0
          /\ \A i \in DOMAIN queue' : i + 1 \in DOMAIN queue /\ queue'[i] = queue[i + 1]
      BY <1>3, <1>t, <2>1
    <2>3. InHands' \subseteq InHands \cup {m}
      BY <1>0, <2>1, HandsTake
    <2>4. TypeOK'
      <3>1. Len(queue') <= Depth
        BY <1>0, <1>t, <2>2 DEF TypeOK
      <3> QED
        BY <1>0, <2>1, <2>2, <3>1 DEF TypeOK
    <2>5. QuietInv' /\ SomeoneSends'
      <3>1. thread'[t] # Idle
        BY <1>0, <2>1 DEF TypeOK, Holding, Idle
      <3> QED
        BY <1>1, <3>1 DEF QuietInv, SomeoneSends
    <2>6. /\ m.id \in Nat /\ m.id = sent - Len(queue) + 1
          /\ received <= sent - Len(queue) /\ sent - received < Half
      BY <1>1, <2>2 DEF IInv, OrderInv, Messages
    <2>7. OrderInv'
      <3>1. received' <= sent' - Len(queue') /\ sent' - received' < Half
        BY <1>0, <1>t, <2>2, <2>6
      <3>2. ASSUME NEW i \in DOMAIN queue' PROVE queue'[i].id = sent' - Len(queue') + i
        <4>1. queue'[i].id = sent - Len(queue) + (i + 1)
          BY <1>1, <2>2 DEF IInv, OrderInv
        <4>2. i \in Nat
          BY <2>2
        <4> QED
          BY <1>0, <1>t, <2>2, <4>1, <4>2
      <3>3. ASSUME NEW n \in network' PROVE n.id <= sent' - Len(queue') /\ received' - n.id <= Half
        <4>1. n.id <= sent - Len(queue) /\ received - n.id <= Half /\ n.id \in Nat
          BY <1>0, <1>1 DEF IInv, OrderInv, TypeOK, Messages
        <4> QED
          BY <1>0, <1>t, <2>2, <4>1
      <3>4. ASSUME NEW n \in InHands' PROVE n.id <= sent' - Len(queue') /\ sent' - n.id <= Half
        <4>1. CASE n \in InHands
          <5>1. n.id <= sent - Len(queue) /\ sent - n.id <= Half
            BY <1>1, <4>1 DEF IInv, OrderInv
          <5>2. n.id \in Nat
            BY <1>0, <4>1, ThreadCases DEF InHands, Messages
          <5> QED
            BY <1>0, <1>t, <2>2, <5>1, <5>2
        <4>2. CASE n = m
          BY <1>0, <1>t, <2>2, <2>6, <4>2
        <4> QED
          BY <2>3, <4>1, <4>2
      <3> QED
        BY <3>1, <3>2, <3>3, <3>4 DEF OrderInv
    <2>8. NumberInv'
      <3>1. Under' \subseteq Under
        BY <1>0, <2>2, <2>3 DEF Under
      <3> QED
        BY <1>0, <1>1, <3>1 DEF IInv, NumberInv
    <2> QED
      BY <2>4, <2>5, <2>7, <2>8 DEF IInv
  <1> QED
    BY <1>2, <1>3

\* From a thread's hands to the network.
LEMMA SendStep ==
    ASSUME Drained, IInv, NEW t \in Writers, Send(t)
    PROVE  IInv'
  <1> DEFINE m == thread[t].msg
  <1>0. /\ TypeOK /\ thread[t].op = "holding"
        /\ thread' = [thread EXCEPT ![t] = Sending]
        /\ network' \subseteq network \cup {m}
        /\ UNCHANGED <<queue, last_sent, sent, last_handled, received, creating>>
    BY DEF Send, IInv, clientVars, Fates
  <1>1. m \in Messages /\ m \in InHands
    BY <1>0, ThreadCases
  <1>2. ~creating /\ ~creating'
    BY <1>0, ThreadCases DEF IInv, QuietInv
  <1>3. InHands' \subseteq InHands
    BY <1>0, HandsShrink DEF Sending
  <1>4. TypeOK'
    BY <1>0, <1>1 DEF TypeOK
  <1>5. QuietInv' /\ SomeoneSends'
    <2>1. thread'[t] # Idle
      BY <1>0 DEF TypeOK, Sending, Idle
    <2> QED
      BY <1>2, <2>1 DEF QuietInv, SomeoneSends
  <1>6. OrderInv'
    <2>1. /\ m.id <= sent - Len(queue) /\ sent - m.id <= Half
          /\ received <= sent - Len(queue)
      BY <1>1, <1>2 DEF IInv, OrderInv
    <2>2. m.id \in Nat /\ sent \in Nat /\ received \in Nat /\ Len(queue) \in Nat /\ Half \in Nat
      BY <1>0, <1>1, HalfAssumption DEF TypeOK, Messages
    <2>3. received - m.id <= Half
      BY <2>1, <2>2
    <2> QED
      BY <1>0, <1>2, <1>3, <2>1, <2>3 DEF IInv, OrderInv
  <1>7. NumberInv'
    <2>1. Under' \subseteq Under
      BY <1>0, <1>1, <1>3 DEF Under
    <2> QED
      BY <1>0, <1>2, <2>1 DEF IInv, NumberInv
  <1> QED
    BY <1>4, <1>5, <1>6, <1>7 DEF IInv

\* The Client takes a newer message.
LEMMA ReceiveStep ==
    ASSUME Drained, IInv, NEW p \in network, Receive(p)
    PROVE  IInv' /\ received' > received /\ received' <= sent
  <1>0. /\ TypeOK /\ p \in Messages
        /\ last_handled' = p.seq /\ received' = p.id
        /\ network' = {q \in network : p.id - q.id <= Half}
        /\ UNCHANGED <<queue, last_sent, thread, sent, creating>>
    BY DEF Receive, IInv, TypeOK, agentVars
  <1>1. ~creating /\ ~creating'
    BY <1>0 DEF IInv, QuietInv
  <1>2. p.id > received
    BY InvFilters DEF Receive, FilterIsRight, Under
  <1>3. /\ p.id <= sent - Len(queue) /\ sent - received < Half
        /\ SeqSub(last_sent, p.seq) = sent - p.id
    BY <1>1 DEF IInv, OrderInv, NumberInv, Under
  <1>4. /\ p.id \in 1 .. MaxPushes /\ p.seq \in SeqNums /\ sent \in Nat /\ received \in Nat
        /\ Len(queue) \in Nat /\ Half \in Nat
    BY <1>0, HalfAssumption, DownlinkAssumption DEF TypeOK, Messages
  <1>5. InHands' = InHands
    BY <1>0 DEF InHands
  <1>6. TypeOK'
    BY <1>0, <1>4, DownlinkAssumption DEF TypeOK
  <1>7. QuietInv' /\ SomeoneSends'
    BY <1>0, <1>1 DEF IInv, QuietInv, SomeoneSends
  <1>8. OrderInv'
    <2>1. received' <= sent' - Len(queue') /\ sent' - received' < Half
      BY <1>0, <1>2, <1>3, <1>4
    <2> QED
      BY <1>0, <1>1, <1>5, <2>1 DEF IInv, OrderInv
  <1>9. NumberInv'
    <2>1. Under' \subseteq Under
      BY <1>0, <1>5 DEF Under
    <2> QED
      BY <1>0, <1>1, <1>3, <2>1 DEF IInv, NumberInv
  <1> QED
    BY <1>0, <1>2, <1>3, <1>4, <1>6, <1>7, <1>8, <1>9 DEF IInv

\* A copy that is not newer.
LEMMA DropStep ==
    ASSUME Drained, IInv, NEW p \in network, Drop(p)
    PROVE  IInv'
  <1>0. /\ TypeOK /\ network' \subseteq network /\ network # {}
        /\ UNCHANGED <<queue, last_sent, thread, sent, last_handled, received, creating>>
    BY DEF Drop, IInv, agentVars, clientVars
  <1>1. ~creating /\ ~creating'
    BY <1>0 DEF IInv, QuietInv
  <1>2. InHands' = InHands
    BY <1>0 DEF InHands
  <1>3. TypeOK' /\ QuietInv' /\ SomeoneSends'
    BY <1>0, <1>1 DEF IInv, TypeOK, QuietInv, SomeoneSends
  <1>4. OrderInv'
    BY <1>0, <1>1, <1>2 DEF IInv, OrderInv
  <1>5. NumberInv'
    BY <1>0, <1>1, <1>2 DEF IInv, NumberInv, Under
  <1> QED
    BY <1>3, <1>4, <1>5 DEF IInv

\* The session is created again, with nothing on its way.
LEMMA RestartStep ==
    ASSUME Drained, IInv, CreateSession \/ ResetSession
    PROVE  IInv'
  <1>0. TypeOK /\ MaxSeq \in SeqNums
    BY ArithTypes, HalfAssumption DEF IInv, TypeOK, SeqNums, MaxSeq, Modulus
  <1>1. CASE CreateSession
    <2>1. /\ network = {} /\ \A t \in Writers : thread[t] = Idle
          /\ last_handled' = MaxSeq /\ received' = 0 /\ creating'
          /\ UNCHANGED <<queue, last_sent, thread, sent, network>>
      BY <1>1 DEF CreateSession, agentVars
    <2>2. queue = <<>>
      BY <2>1 DEF IInv, SomeoneSends
    <2>3. TypeOK'
      BY <1>0, <1>1, <2>1, DownlinkAssumption DEF TypeOK, CreateSession
    <2> QED
      BY <2>1, <2>2, <2>3 DEF IInv, QuietInv, SomeoneSends, OrderInv, NumberInv
  <1>2. CASE ResetSession
    <2>1. /\ creating /\ ~creating' /\ queue' = <<>> /\ last_sent' = MaxSeq /\ sent' = 0
          /\ UNCHANGED <<thread, network, last_handled, received>>
      BY <1>2 DEF ResetSession, First, clientVars
    <2>2. /\ \A t \in Writers : thread[t] = Idle
          /\ network = {} /\ received = 0 /\ last_handled = MaxSeq
      BY <2>1 DEF IInv, QuietInv
    <2>3. InHands' = {}
      BY <2>1, <2>2, IdleHandsEmpty DEF InHands
    <2>4. Under' = {}
      BY <2>1, <2>2, <2>3 DEF Under
    <2>5. TypeOK'
      <3>1. <<>> \in Seq(Messages) /\ Len(<<>>) <= Depth /\ 0 \in 0 .. MaxPushes
        BY DownlinkAssumption
      <3> QED
        BY <1>0, <1>2, <2>1, <3>1 DEF TypeOK, ResetSession
    <2>6. OrderInv' /\ NumberInv'
      BY <1>0, <2>1, <2>2, <2>3, <2>4, SubRange, HalfAssumption DEF OrderInv, NumberInv
    <2> QED
      BY <2>1, <2>5, <2>6 DEF IInv, QuietInv, SomeoneSends
  <1> QED
    BY <1>1, <1>2

\* Every step of the Agent, the network and the Client preserves the invariant.
LEMMA InvStep == ASSUME Drained, IInv, [Next]_vars PROVE IInv'
  <1>1. CASE UNCHANGED vars
    BY <1>1 DEF vars, agentVars, clientVars, IInv, TypeOK, QuietInv, SomeoneSends,
                OrderInv, NumberInv, InHands, Under
  <1>2. CASE Next
    BY <1>2, PushStep, PopStep, SendStep, ReceiveStep, DropStep, RestartStep DEF Next
  <1> QED
    BY <1>1, <1>2

----------------------------------------------------------------------------

\* The invariant holds in every state of every behaviour.
THEOREM BestEffortInvariant == ASSUME Drained PROVE Spec => []IInv
  <1> QED
    BY InvInit, InvStep, PTL DEF Spec

\* The Client takes what is newer than all it took and drops what is not, for
\* every modulus, depth and number of threads (uxr_receive_best_effort_message).
THEOREM FilterAlwaysRight == ASSUME Drained PROVE Spec => []FilterIsRight
  <1> QED
    BY BestEffortInvariant, InvFilters, PTL

\* What is delivered in a session comes in the order in which it was pushed,
\* whatever is lost, repeated or overtaken.
THEOREM ChannelImplemented == ASSUME Drained PROVE Spec => ImplementsChannel
  <1>1. Init => Channel!Init
    BY DEF Init, Channel!Init
  <1>2. IInv /\ [Next]_vars => [CreateSession \/ ResetSession \/ Channel!Next]_(Channel!vars)
    <2> SUFFICES ASSUME IInv, [Next]_vars, ~CreateSession, ~ResetSession
                 PROVE  [Channel!Next]_(Channel!vars)
      OBVIOUS
    <2>0. sent \in Nat /\ received \in Nat
      BY DownlinkAssumption DEF IInv, TypeOK
    <2>1. ASSUME NEW t \in Writers, Push(t) PROVE [Channel!Next]_(Channel!vars)
      BY <2>0, <2>1 DEF Push, clientVars, Channel!Next, Channel!Send, Channel!vars
    <2>2. ASSUME NEW t \in Writers, Pop(t) \/ Send(t) PROVE [Channel!Next]_(Channel!vars)
      BY <2>2 DEF Pop, Send, clientVars, Channel!vars
    <2>3. ASSUME NEW p \in network, Receive(p) PROVE [Channel!Next]_(Channel!vars)
      <3>1. /\ received' > received /\ received' <= sent /\ sent' = sent
            /\ received' \in Nat
        BY <2>3, ReceiveStep, DownlinkAssumption DEF Receive, agentVars, IInv, TypeOK, Messages
      <3> QED
        BY <2>0, <3>1 DEF Channel!Next, Channel!Receive
    <2>4. ASSUME NEW p \in network, Drop(p) PROVE [Channel!Next]_(Channel!vars)
      BY <2>4 DEF Drop, agentVars, clientVars, Channel!vars
    <2>5. CASE UNCHANGED vars
      BY <2>5 DEF vars, agentVars, clientVars, Channel!vars
    <2> QED
      BY <2>1, <2>2, <2>3, <2>4, <2>5 DEF Next
  <1> QED
    BY <1>1, <1>2, BestEffortInvariant, PTL DEF Spec, ImplementsChannel

----------------------------------------------------------------------------
(* The reliable stream up, as it runs beside the others.  What UplinkProofs *)
(* proves holds of it whatever part runs, and for every size of the window, *)
(* of the buffers and of the numbers.                                       *)

Ordered == Up!Ordered

\* A step of the system is one of the stream, or leaves it as it is.
LEMMA UpRuns == LinksSpec => Up!Spec
  <1>1. LinksInit => Up!Init
    BY DEF LinksInit
  <1>2. [LinksNext]_allVars => [Up!Next]_(Up!vars)
    <2>1. CASE UpNext
      BY <2>1 DEF UpNext
    <2>2. CASE BestDownNext \/ BestUpNext \/ DownNext \/ LineNext \/ UNCHANGED allVars
      BY <2>2 DEF BestDownNext, BestUpNext, DownNext, LineNext, allVars, upVars,
                  Up!vars, Up!clientVars, Up!agentVars
    <2> QED
      BY <2>1, <2>2 DEF LinksNext
  <1> QED
    BY <1>1, <1>2, PTL DEF LinksSpec, Up!Spec

\* Between the steps of the stream nothing of it changes, so what a step of the
\* stream keeps every step of the system keeps.
LEMMA UpHolds ==
    ASSUME Ordered
    PROVE  /\ LinksSpec => []Up!WindowsSound
           /\ LinksSpec => []Up!NothingLost
           /\ LinksSpec => []Up!ConfirmedIsHandled
           /\ LinksSpec => Up!NothingForgotten
           /\ LinksSpec => Up!ImplementsChannel
  <1>1. Up!UplinkAssumption
    BY LinksAssumption
  <1>2. Up!Ordered
    BY DEF Ordered
  <1>3. Up!Spec => []Up!WindowsSound
    BY HalfAssumption, <1>1, <1>2, Up!UpWindowsAreSound
  <1>4. Up!Spec => []Up!NothingLost
    BY HalfAssumption, <1>1, <1>2, Up!NothingIsLost
  <1>5. Up!Spec => []Up!ConfirmedIsHandled
    BY HalfAssumption, <1>1, <1>2, Up!ConfirmedWasHandled
  <1>6. Up!Spec => Up!NothingForgotten
    BY HalfAssumption, <1>1, <1>2, Up!NothingIsForgotten
  <1>7. Up!Spec => Up!ImplementsChannel
    BY HalfAssumption, <1>1, <1>2, Up!UpChannelImplemented
  <1> QED
    BY UpRuns, <1>3, <1>4, <1>5, <1>6, <1>7, PTL

\* The slots the Client uses are those of the messages not acknowledged, so that
\* it never overwrites one (on_full_output_buffer, process_acknack), and the Agent
\* holds only what is ahead of a gap (ReliableInputStream::push).
THEOREM UpWindowsStaySound == ASSUME Ordered PROVE LinksSpec => []UpWindowsSound
  BY UpHolds DEF UpWindowsSound

\* What the Agent has not taken out the Client can still send: its slot was
\* neither reused nor emptied, whatever was lost or came twice.
THEOREM NothingLostOnTheWayUp == ASSUME Ordered PROVE LinksSpec => []UpNothingLost
  BY UpHolds DEF UpNothingLost

\* uxr_is_output_up_to_date does not answer before the Agent has taken out all
\* that was sent.
THEOREM ConfirmedStaysHandled == ASSUME Ordered PROVE LinksSpec => []ConfirmedIsHandled
  BY UpHolds DEF ConfirmedIsHandled

\* What may have to be sent again stays as it was sent, and what the Agent
\* stored ahead of a gap stays until its turn.
THEOREM NothingForgottenOnTheWayUp == ASSUME Ordered PROVE LinksSpec => UpNothingForgotten
  BY UpHolds DEF UpNothingForgotten

\* The Agent reads the submessages whole, each once and in the order in which
\* the application of the Client wrote them, whatever the network lost, repeated
\* or delayed and however many fragments they were cut into
\* (InputStream.hpp, on_full_output_buffer): the abstract channel.
THEOREM UpIsAReliableChannel == ASSUME Ordered PROVE LinksSpec => UpImplementsChannel
  BY UpHolds DEF UpImplementsChannel
----------------------------------------------------------------------------
(* The framing of the serial line runs as it does alone, too: what           *)
(* FramingProofs proves of it holds whatever part runs, for buffers and      *)
(* messages of every size that the code takes.                               *)

\* The payloads differ: a CRC cannot tell equal ones apart.
Distinct == Line!Distinct

\* A step of the system is one of the line, or leaves it as it is.
LEMMA LineRuns == LinksSpec => Line!Spec
  <1>1. LinksInit => Line!Init
    BY DEF LinksInit
  <1>2. [LinksNext]_allVars => [Line!Next]_(Line!vars)
    <2>1. CASE LineNext
      BY <2>1 DEF LineNext
    <2>2. CASE BestDownNext \/ BestUpNext \/ DownNext \/ UpNext \/ UNCHANGED allVars
      BY <2>2 DEF BestDownNext, BestUpNext, DownNext, UpNext, allVars, frameVars,
                  Line!vars, Line!writeVars, Line!ringVars, Line!machineVars
    <2> QED
      BY <2>1, <2>2 DEF LinksNext
  <1> QED
    BY <1>1, <1>2, PTL DEF LinksSpec, Line!Spec

\* transport_read and get_next_octet treat the ring as a
\* queue: no octet that came is overwritten or skipped, and none is taken twice,
\* wherever the positions go round the end of the array.
THEOREM RingStaysAQueue == LinksSpec => []RingIsQueue
  <1>1. Line!FramingAssumption
    BY LinksAssumption
  <1>2. Line!Spec => []Line!RingIsQueue
    BY <1>1, Line!RingIsAQueue
  <1> QED
    BY LineRuns, <1>2, PTL DEF RingIsQueue

\* Whatever the line loses or changes, and wherever transport_write breaks off,
\* what read_framed_msg returns was written, in that order and once.
THEOREM OnlyWrittenComesOut == ASSUME Distinct PROVE LinksSpec => []OnlyWritten
  <1>1. Line!FramingAssumption
    BY LinksAssumption
  <1>2. Line!Distinct
    BY DEF Distinct
  <1>3. Line!Spec => []Line!OnlyWritten
    BY <1>1, <1>2, Line!OnlyWrittenIsReturned
  <1> QED
    BY LineRuns, <1>3, PTL DEF OnlyWritten

----------------------------------------------------------------------------
(* The best-effort stream up, as it runs beside the others, for every       *)
(* modulus, header, buffer and depth, if sessions are created anew only     *)
(* when nothing is on its way.                                              *)

LastOf(p) == p.subs[Len(p.subs)]

\* What a message is: submessages that follow one another, all of them flashed.
PacketSound(p) ==
    /\ p.seq \in BestUp!SeqNums /\ p.id \in Nat
    /\ p.subs \in Seq(Nat) /\ p.subs # <<>>
    /\ \A i \in DOMAIN p.subs : p.subs[i] = p.subs[1] + i - 1
    /\ LastOf(p) <= b_written - Len(b_buffer)

BestUpTypes ==
    /\ b_last_send \in BestUp!SeqNums /\ b_last_received \in BestUp!SeqNums
    /\ b_flashed \in Nat /\ b_taken \in Nat /\ b_written \in Nat /\ b_processed \in Nat
    /\ b_writer \in Nat /\ b_buffer \in Seq(Nat)
    /\ \A p \in b_network : PacketSound(p)

\* The buffer holds the newest submessages.
BufferInv ==
    /\ b_writer >= BestUpOffset /\ (b_writer = BestUpOffset <=> b_buffer = <<>>)
    /\ Len(b_buffer) <= b_written
    /\ \A i \in DOMAIN b_buffer : b_buffer[i] = b_written - Len(b_buffer) + i

\* Distances of numbers are differences of how many messages were sent.
DistanceInv ==
    /\ b_taken <= b_flashed /\ b_flashed - b_taken < BestUpHalf
    /\ BestUp!SeqSub(b_last_send, b_last_received) = b_flashed - b_taken
    /\ \A p \in b_network :
          /\ p.id <= b_flashed /\ b_taken - p.id <= BestUpHalf
          /\ BestUp!SeqSub(b_last_send, p.seq) = b_flashed - p.id

\* The newest submessage the Agent has taken.
Settled == IF b_messages = <<>> THEN b_processed ELSE LastOf(b_messages[1])

\* What the Agent took and may yet take is newer than what it processed.
NewerInv ==
    /\ b_messages = <<>> \/ /\ b_messages = <<b_messages[1]>> /\ PacketSound(b_messages[1])
                            /\ b_messages[1].subs[1] > b_processed
    /\ Settled <= b_written - Len(b_buffer)
    /\ \A p \in b_network : p.id > b_taken => p.subs[1] > Settled
    /\ \A p, q \in b_network : p.id < q.id => LastOf(p) < q.subs[1]

BestUpInv == BestUpTypes /\ BufferInv /\ DistanceInv /\ NewerInv

LEMMA BestUpConstants ==
    /\ BestUpHalf \in Nat \ {0} /\ BestUpOffset \in Nat /\ BestUpSize \in Nat
    /\ BestUpOffset < BestUpSize
  BY LinksAssumption DEF BestUp!UplinkAssumption, BestUp!HalfAssumption

\* The number of the message that follows number o.
LEMMA BestUpFurther ==
    ASSUME NEW o \in BestUp!SeqNums
    PROVE  /\ BestUp!ClientAdd(o, 1) \in BestUp!SeqNums
           /\ BestUp!SeqSub(BestUp!ClientAdd(o, 1), BestUp!ClientAdd(o, 1)) = 0
           /\ \A q \in BestUp!SeqNums : BestUp!SeqSub(o, q) < BestUp!MaxSeq =>
                 BestUp!SeqSub(BestUp!ClientAdd(o, 1), q) = BestUp!SeqSub(o, q) + 1
  BY BestUpConstants DEF BestUp!ClientAdd, BestUp!SeqNums, BestUp!SeqSub, BestUp!Wrap,
                         BestUp!Modulus, BestUp!MaxSeq

\* What the Agent admits is newer than what it took.
LEMMA BestUpOrder ==
    ASSUME NEW o \in BestUp!SeqNums, NEW h \in BestUp!SeqNums, NEW q \in BestUp!SeqNums,
           BestUp!SeqSub(o, h) < BestUpHalf,
           BestUp!SeqSub(o, q) - BestUp!SeqSub(o, h) <= BestUpHalf
    PROVE  BestUp!SeqLt(h, q) <=> BestUp!SeqSub(o, q) < BestUp!SeqSub(o, h)
  BY BestUpConstants DEF BestUp!SeqLt, BestUp!SeqSub, BestUp!SeqNums, BestUp!Modulus

\* The submessages of a sound message lie between its first and its last.
LEMMA PacketSpan ==
    ASSUME NEW p, PacketSound(p)
    PROVE  /\ Len(p.subs) \in Nat \ {0} /\ 1 \in DOMAIN p.subs
           /\ p.subs[1] \in Nat /\ LastOf(p) \in Nat
           /\ \A i \in DOMAIN p.subs : p.subs[1] <= p.subs[i] /\ p.subs[i] <= LastOf(p)
  <1>1. PICK s : s = p.subs /\ s \in Seq(Nat) /\ s # <<>>
    BY DEF PacketSound
  <1>2. /\ Len(s) \in Nat \ {0} /\ DOMAIN s = 1 .. Len(s) /\ LastOf(p) = s[Len(s)]
        /\ 1 \in DOMAIN s /\ Len(s) \in DOMAIN s
        /\ \A i \in DOMAIN s : s[i] \in Nat
    BY <1>1 DEF LastOf
  <1>3. \A i \in DOMAIN s : s[i] = s[1] + i - 1
    BY <1>1 DEF PacketSound
  <1>4. \A i \in DOMAIN s : s[1] <= s[i] /\ s[i] <= s[Len(s)]
    BY <1>2, <1>3
  <1> QED
    BY <1>1, <1>2, <1>4

\* A message stays sound while nothing leaves what was written for the buffer.
LEMMA PacketStays ==
    ASSUME NEW p, PacketSound(p), b_written - Len(b_buffer) \in Int,
           b_written' - Len(b_buffer') \in Int,
           b_written - Len(b_buffer) <= b_written' - Len(b_buffer')
    PROVE  PacketSound(p)'
  <1>1. LastOf(p) \in Nat
    BY PacketSpan
  <1>2. LastOf(p) <= b_written' - Len(b_buffer')
    BY <1>1 DEF PacketSound
  <1> QED
    BY <1>2 DEF PacketSound

\* So does the message the Agent holds.
LEMMA HeldStays ==
    ASSUME b_messages # <<>>, PacketSound(b_messages[1]), b_messages' = b_messages,
           b_written - Len(b_buffer) \in Int, b_written' - Len(b_buffer') \in Int,
           b_written - Len(b_buffer) <= b_written' - Len(b_buffer')
    PROVE  PacketSound(b_messages[1])'
  <1>1. PICK m : m = b_messages[1]
    OBVIOUS
  <1>2. PacketSound(m)'
    BY <1>1, PacketStays
  <1> QED
    BY <1>1, <1>2 DEF PacketSound, LastOf

LEMMA BestUpInitInv == BestUp!Init => BestUpInv
  <1> SUFFICES ASSUME BestUp!Init
               PROVE  BestUpInv
    OBVIOUS
  <1>1. /\ b_network = {} /\ b_messages = <<>> /\ b_processed = 0 /\ b_written = 0
        /\ b_buffer = <<>> /\ b_writer = BestUpOffset /\ b_flashed = 0 /\ b_taken = 0
        /\ b_last_send = BestUp!MaxSeq /\ b_last_received = BestUp!MaxSeq
    BY DEF BestUp!Init
  <1>2. BestUp!MaxSeq \in BestUp!SeqNums /\ BestUp!SeqSub(BestUp!MaxSeq, BestUp!MaxSeq) = 0
    BY BestUpConstants DEF BestUp!MaxSeq, BestUp!SeqNums, BestUp!SeqSub, BestUp!Modulus
  <1>3. b_buffer \in Seq(Nat) /\ Len(b_buffer) = 0
    BY <1>1
  <1>4. BestUpTypes
    BY <1>1, <1>2, <1>3, BestUpConstants DEF BestUpTypes
  <1>5. BufferInv
    BY <1>1, <1>3, BestUpConstants DEF BufferInv
  <1>6. DistanceInv
    BY <1>1, <1>2, BestUpConstants DEF DistanceInv
  <1>7. NewerInv
    BY <1>1, <1>3 DEF NewerInv, Settled
  <1> QED
    BY <1>4, <1>5, <1>6, <1>7 DEF BestUpInv

LEMMA BestUpWriteStep ==
    ASSUME BestUpInv, NEW n \in 1 .. BestUpSize - BestUpOffset, BestUp!Write(n)
    PROVE  BestUpInv'
  <1>1. /\ b_writer' = b_writer + n /\ b_written' = b_written + 1
        /\ b_buffer' = Append(b_buffer, b_written + 1)
        /\ UNCHANGED <<b_last_send, b_flashed, b_network, b_last_received, b_messages,
                       b_processed, b_taken>>
    BY DEF BestUp!Write, BestUp!agentVars
  <1>2. PICK b, w : b = b_buffer /\ b \in Seq(Nat) /\ w = b_written /\ w \in Nat
    BY DEF BestUpInv, BestUpTypes
  <1>3. /\ b_buffer' \in Seq(Nat) /\ b_buffer' # <<>>
        /\ Len(b_buffer') = Len(b) + 1 /\ Len(b) \in Nat
        /\ DOMAIN b_buffer' = 1 .. Len(b) + 1 /\ DOMAIN b = 1 .. Len(b)
        /\ \A i \in 1 .. Len(b) : b_buffer'[i] = b[i]
        /\ b_buffer'[Len(b) + 1] = w + 1
    BY <1>1, <1>2
  <1>4. b_written' - Len(b_buffer') = b_written - Len(b_buffer) /\ b_written - Len(b_buffer) \in Int
    BY <1>1, <1>2, <1>3
  <1>5. BestUpTypes'
    <2>1. \A p \in b_network' : PacketSound(p)'
      BY <1>1, <1>4, PacketStays DEF BestUpInv, BestUpTypes
    <2>2. b_writer' \in Nat /\ b_written' \in Nat
      BY <1>1, <1>2, BestUpConstants DEF BestUpInv, BestUpTypes
    <2> QED
      BY <1>1, <1>3, <2>1, <2>2 DEF BestUpInv, BestUpTypes
  <1>6. BufferInv'
    <2>1. b_writer' > BestUpOffset
      BY <1>1, BestUpConstants DEF BestUpInv, BufferInv, BestUpTypes
    <2>2. Len(b_buffer') <= b_written'
      BY <1>1, <1>2, <1>3 DEF BestUpInv, BufferInv
    <2>3. \A i \in DOMAIN b_buffer' : b_buffer'[i] = b_written' - Len(b_buffer') + i
      <3>1. \A i \in 1 .. Len(b) : b[i] = w - Len(b) + i
        BY <1>2, <1>3 DEF BestUpInv, BufferInv
      <3> QED
        BY <1>1, <1>2, <1>3, <3>1
    <2> QED
      BY <1>3, <2>1, <2>2, <2>3, BestUpConstants, <1>5 DEF BufferInv, BestUpTypes
  <1>7. DistanceInv'
    BY <1>1 DEF BestUpInv, DistanceInv
  <1>8. NewerInv'
    <2>1. Settled' = Settled
      BY <1>1 DEF Settled
    <2>2. b_messages # <<>> => PacketSound(b_messages[1])'
      BY <1>1, <1>4, HeldStays DEF BestUpInv, NewerInv
    <2> QED
      BY <1>1, <1>4, <2>1, <2>2 DEF BestUpInv, NewerInv, LastOf
  <1> QED
    BY <1>5, <1>6, <1>7, <1>8 DEF BestUpInv

LEMMA BestUpFlashStep ==
    ASSUME BestUpInv, BestUp!Flash
    PROVE  BestUpInv'
  <1>1. PICK new : /\ new = [seq |-> b_last_send', id |-> b_flashed', subs |-> b_buffer]
                   /\ b_network' \subseteq b_network \cup {new}
    BY DEF BestUp!Flash, BestUp!Fates
  <1>2. /\ b_writer > BestUpOffset /\ b_flashed + 1 - b_taken < BestUpHalf
        /\ b_last_send' = BestUp!ClientAdd(b_last_send, 1) /\ b_flashed' = b_flashed + 1
        /\ b_writer' = BestUpOffset /\ b_buffer' = <<>>
        /\ UNCHANGED <<b_written, b_last_received, b_messages, b_processed, b_taken>>
    BY DEF BestUp!Flash, BestUp!InTime, BestUp!Fresh, BestUp!agentVars
  <1>3. PICK b, w : b = b_buffer /\ b \in Seq(Nat) /\ w = b_written /\ w \in Nat
    BY DEF BestUpInv, BestUpTypes
  <1>4. /\ b # <<>> /\ Len(b) \in Nat \ {0} /\ DOMAIN b = 1 .. Len(b) /\ Len(b) <= w
        /\ \A i \in 1 .. Len(b) : b[i] = w - Len(b) + i
    <2>1. b # <<>>
      BY <1>2, <1>3, BestUpConstants DEF BestUpInv, BufferInv, BestUpTypes
    <2> QED
      BY <1>3, <2>1 DEF BestUpInv, BufferInv
  <1>5. /\ Len(b_buffer') = 0 /\ b_written' - Len(b_buffer') = w /\ b_written - Len(b_buffer) = w - Len(b)
        /\ w - Len(b) \in Int /\ w - Len(b) < w
    BY <1>2, <1>3, <1>4
  <1>6. /\ b_last_send' \in BestUp!SeqNums /\ b_flashed \in Nat /\ b_taken \in Nat
        /\ BestUp!SeqSub(b_last_send', b_last_send') = 0
        /\ \A q \in BestUp!SeqNums : BestUp!SeqSub(b_last_send, q) < BestUp!MaxSeq =>
              BestUp!SeqSub(b_last_send', q) = BestUp!SeqSub(b_last_send, q) + 1
    BY <1>2, BestUpFurther DEF BestUpInv, BestUpTypes
  <1>7. new.subs = b /\ new.seq = b_last_send' /\ new.id = b_flashed + 1 /\ new.id \in Nat
    BY <1>1, <1>2, <1>3, <1>6
  <1>8. b[1] = w - Len(b) + 1 /\ b[Len(b)] = w /\ b[1] \in Int
    BY <1>3, <1>4
  <1>9. PacketSound(new)' /\ LastOf(new) = w /\ new.subs[1] = w - Len(b) + 1
    <2>1. \A i \in DOMAIN b : b[i] = b[1] + i - 1
      BY <1>3, <1>4, <1>8
    <2>2. LastOf(new) = w
      BY <1>7, <1>8 DEF LastOf
    <2> QED
      BY <1>3, <1>4, <1>5, <1>6, <1>7, <1>8, <2>1, <2>2 DEF PacketSound
  <1>10. BestUpTypes'
    <2>1. \A p \in b_network : PacketSound(p)'
      BY <1>3, <1>5, PacketStays DEF BestUpInv, BestUpTypes
    <2>2. \A p \in b_network' : PacketSound(p)'
      BY <1>1, <1>9, <2>1
    <2>3. b_writer' \in Nat /\ b_buffer' \in Seq(Nat) /\ b_flashed' \in Nat
      BY <1>2, <1>6, BestUpConstants
    <2> QED
      BY <1>2, <1>6, <2>2, <2>3 DEF BestUpInv, BestUpTypes
  <1>11. BufferInv'
    BY <1>2, <1>3, <1>5, BestUpConstants DEF BufferInv
  <1>12. DistanceInv'
    <2>1. \A p \in b_network :
             /\ p.id \in Nat /\ p.id <= b_flashed /\ b_taken - p.id <= BestUpHalf
             /\ p.seq \in BestUp!SeqNums /\ BestUp!SeqSub(b_last_send, p.seq) = b_flashed - p.id
      BY DEF BestUpInv, DistanceInv, BestUpTypes, PacketSound
    <2>2. BestUp!MaxSeq = 2 * BestUpHalf - 1
      BY DEF BestUp!MaxSeq, BestUp!Modulus
    <2>3. \A p \in b_network : b_flashed - p.id < BestUp!MaxSeq
      BY <1>2, <1>6, <2>1, <2>2, BestUpConstants
    <2>4. \A p \in b_network :
             /\ p.id <= b_flashed' /\ BestUp!SeqSub(b_last_send', p.seq) = b_flashed' - p.id
      BY <1>2, <1>6, <2>1, <2>3
    <2>5. BestUp!SeqSub(b_last_send', b_last_received) = b_flashed + 1 - b_taken
      <3>1. /\ b_last_received \in BestUp!SeqNums
            /\ BestUp!SeqSub(b_last_send, b_last_received) = b_flashed - b_taken
        BY DEF BestUpInv, DistanceInv, BestUpTypes
      <3>2. b_flashed - b_taken < BestUp!MaxSeq
        BY <1>2, <1>6, <2>2, BestUpConstants
      <3> QED
        BY <1>6, <3>1, <3>2
    <2>6. /\ new.id <= b_flashed' /\ b_taken - new.id <= BestUpHalf
          /\ BestUp!SeqSub(b_last_send', new.seq) = b_flashed' - new.id
      BY <1>2, <1>6, <1>7, BestUpConstants DEF BestUpInv, DistanceInv
    <2>7. b_taken' <= b_flashed' /\ b_flashed' - b_taken' < BestUpHalf
      BY <1>2, <1>6 DEF BestUpInv, DistanceInv
    <2>8. \A p \in b_network' :
             /\ p.id <= b_flashed' /\ b_taken' - p.id <= BestUpHalf
             /\ BestUp!SeqSub(b_last_send', p.seq) = b_flashed' - p.id
      BY <1>1, <1>2, <2>1, <2>4, <2>6
    <2>9. BestUp!SeqSub(b_last_send', b_last_received') = b_flashed' - b_taken'
      <3>1. /\ b_last_received' = b_last_received /\ b_taken' = b_taken
            /\ b_flashed' = b_flashed + 1
        BY <1>2
      <3> QED
        BY <1>6, <2>5, <3>1
    <2> QED
      BY <2>7, <2>8, <2>9 DEF DistanceInv
  <1>13. NewerInv'
    <2>1. Settled' = Settled /\ Settled <= w - Len(b)
      BY <1>2, <1>5 DEF Settled, BestUpInv, NewerInv
    <2>2. Settled \in Nat
      BY PacketSpan DEF Settled, BestUpInv, NewerInv, BestUpTypes
    <2>3. b_messages # <<>> => PacketSound(b_messages[1])'
      <3>1. /\ b_messages' = b_messages
            /\ b_written - Len(b_buffer) \in Int /\ b_written' - Len(b_buffer') \in Int
            /\ b_written - Len(b_buffer) <= b_written' - Len(b_buffer')
        BY <1>2, <1>3, <1>5
      <3> QED
        BY <3>1, HeldStays DEF BestUpInv, NewerInv
    <2>4. new.subs[1] > Settled
      BY <1>5, <1>9, <2>1, <2>2
    <2>5. \A p \in b_network : p.id \in Nat /\ p.id < new.id /\ LastOf(p) < new.subs[1]
      <3>1. \A p \in b_network :
               /\ p.id \in Nat /\ p.id <= b_flashed
               /\ LastOf(p) \in Nat /\ LastOf(p) <= w - Len(b)
        BY <1>5, PacketSpan DEF BestUpInv, BestUpTypes, DistanceInv, PacketSound
      <3> QED
        BY <1>5, <1>6, <1>7, <1>9, <3>1
    <2>6. \A p, q \in b_network' : p.id < q.id => LastOf(p) < q.subs[1]
      <3>1. \A p, q \in b_network : p.id < q.id => LastOf(p) < q.subs[1]
        BY DEF BestUpInv, NewerInv
      <3> QED
        BY <1>1, <1>7, <2>5, <3>1
    <2>7. \A p \in b_network' : p.id > b_taken' => p.subs[1] > Settled'
      BY <1>1, <1>2, <2>1, <2>4 DEF BestUpInv, NewerInv
    <2>8. Settled' <= b_written' - Len(b_buffer')
      BY <1>3, <1>4, <1>5, <2>1, <2>2
    <2> QED
      BY <1>2, <2>3, <2>6, <2>7, <2>8 DEF BestUpInv, NewerInv
  <1> QED
    BY <1>10, <1>11, <1>12, <1>13 DEF BestUpInv

\* What is admitted is newer than all that was taken, and follows it.
LEMMA BestUpAdmitted ==
    ASSUME BestUpInv, NEW p \in b_network, BestUp!Admits(p.seq)
    PROVE  p.id > b_taken
  <1>1. /\ b_flashed \in Nat /\ b_taken \in Nat /\ p.id \in Nat
        /\ b_last_send \in BestUp!SeqNums /\ b_last_received \in BestUp!SeqNums /\ p.seq \in BestUp!SeqNums
        /\ b_flashed - b_taken < BestUpHalf /\ b_taken - p.id <= BestUpHalf
        /\ BestUp!SeqSub(b_last_send, b_last_received) = b_flashed - b_taken
        /\ BestUp!SeqSub(b_last_send, p.seq) = b_flashed - p.id
    BY DEF BestUpInv, BestUpTypes, DistanceInv, PacketSound
  <1>2. BestUp!SeqLt(b_last_received, p.seq)
    BY DEF BestUp!Admits
  <1>3. BestUp!SeqSub(b_last_send, p.seq) - BestUp!SeqSub(b_last_send, b_last_received) <= BestUpHalf
    BY <1>1, BestUpConstants
  <1>4. BestUp!SeqSub(b_last_send, p.seq) < BestUp!SeqSub(b_last_send, b_last_received)
    BY <1>1, <1>2, <1>3, BestUpOrder
  <1> QED
    BY <1>1, <1>4

LEMMA BestUpReceiveStep ==
    ASSUME BestUpInv, NEW p \in b_network, BestUp!Receive(p)
    PROVE  BestUpInv'
  <1>1. /\ b_messages = <<>> /\ b_messages' = <<p>> /\ b_messages' # <<>> /\ b_messages'[1] = p
        /\ b_last_received' = p.seq /\ b_taken' = p.id
        /\ b_network' = {q \in b_network : p.id - q.id <= BestUpHalf}
        /\ UNCHANGED <<b_writer, b_last_send, b_buffer, b_written, b_flashed, b_processed>>
    BY DEF BestUp!Receive, BestUp!clientVars
  <1>2. p.id > b_taken
    BY BestUpAdmitted DEF BestUp!Receive
  <1>3. PacketSound(p) /\ PacketSound(p)' /\ p.id \in Nat /\ p.seq \in BestUp!SeqNums
    <2>1. PacketSound(p)
      BY DEF BestUpInv, BestUpTypes
    <2> QED
      BY <1>1, <2>1 DEF PacketSound
  <1>4. BestUpTypes'
    <2>1. \A q \in b_network' : PacketSound(q)'
      BY <1>1 DEF BestUpInv, BestUpTypes, PacketSound
    <2> QED
      BY <1>1, <1>3, <2>1 DEF BestUpInv, BestUpTypes
  <1>5. BufferInv'
    BY <1>1 DEF BestUpInv, BufferInv
  <1>6. DistanceInv'
    <2>1. p.id <= b_flashed /\ BestUp!SeqSub(b_last_send, p.seq) = b_flashed - p.id
      BY DEF BestUpInv, DistanceInv
    <2>2. b_flashed - p.id < BestUpHalf
      BY <1>2, <1>3, <2>1, BestUpConstants DEF BestUpInv, DistanceInv, BestUpTypes
    <2> QED
      BY <1>1, <2>1, <2>2 DEF BestUpInv, DistanceInv
  <1>7. NewerInv'
    <2>1. Settled = b_processed /\ Settled' = LastOf(p)
      BY <1>1 DEF Settled
    <2>2. p.subs[1] > b_processed
      BY <1>2, <2>1 DEF BestUpInv, NewerInv
    <2>3. Settled' <= b_written' - Len(b_buffer')
      BY <1>3, <2>1 DEF PacketSound
    <2>4. \A q \in b_network' : q.id > b_taken' => q.subs[1] > Settled'
      <3>1. \A q \in b_network : p.id < q.id => LastOf(p) < q.subs[1]
        BY DEF BestUpInv, NewerInv
      <3>2. \A q \in b_network : q.id \in Nat /\ q.subs[1] \in Nat
        BY PacketSpan DEF BestUpInv, BestUpTypes, PacketSound
      <3>3. LastOf(p) \in Nat
        BY <1>3, PacketSpan
      <3> QED
        BY <1>1, <1>3, <2>1, <3>1, <3>2, <3>3
    <2> QED
      BY <1>1, <1>3, <2>2, <2>3, <2>4 DEF BestUpInv, NewerInv
  <1> QED
    BY <1>4, <1>5, <1>6, <1>7 DEF BestUpInv

LEMMA BestUpDropStep ==
    ASSUME BestUpInv, NEW p \in b_network, BestUp!Drop(p)
    PROVE  BestUpInv'
  <1>1. /\ b_network' \subseteq b_network
        /\ UNCHANGED <<b_writer, b_last_send, b_buffer, b_written, b_flashed, b_last_received,
                       b_messages, b_processed, b_taken>>
    BY DEF BestUp!Drop, BestUp!clientVars, BestUp!agentVars
  <1>2. Settled' = Settled /\ \A q : PacketSound(q)' <=> PacketSound(q)
    BY <1>1 DEF Settled, PacketSound
  <1> QED
    BY <1>1, <1>2 DEF BestUpInv, BestUpTypes, BufferInv, DistanceInv, NewerInv

LEMMA BestUpProcessStep ==
    ASSUME BestUpInv, BestUp!Process
    PROVE  BestUpInv' /\ b_processed' > b_processed /\ b_processed' <= b_written
  <1>1. PICK p : /\ b_messages = <<p>> /\ PacketSound(p) /\ p.subs[1] > b_processed
                 /\ Settled = LastOf(p)
    BY DEF BestUp!Process, BestUpInv, NewerInv, Settled
  <1>2. /\ b_processed' = LastOf(p) /\ b_messages' = <<>>
        /\ UNCHANGED <<b_writer, b_last_send, b_buffer, b_written, b_flashed, b_network,
                       b_last_received, b_taken>>
    BY <1>1 DEF BestUp!Process, BestUp!clientVars, LastOf
  <1>3. Settled' = Settled /\ \A q : PacketSound(q)' <=> PacketSound(q)
    BY <1>1, <1>2 DEF Settled, PacketSound
  <1>4. LastOf(p) \in Nat /\ LastOf(p) >= p.subs[1] /\ p.subs[1] \in Nat
    BY <1>1, PacketSpan
  <1>5. b_processed' > b_processed /\ b_processed' <= b_written /\ b_processed' \in Nat
    <2>1. LastOf(p) <= b_written - Len(b_buffer) /\ Len(b_buffer) \in Nat
      BY <1>1 DEF PacketSound, BestUpInv, BestUpTypes
    <2> QED
      BY <1>1, <1>2, <1>4, <2>1 DEF BestUpInv, BestUpTypes
  <1> QED
    BY <1>2, <1>3, <1>5 DEF BestUpInv, BestUpTypes, BufferInv, DistanceInv, NewerInv

LEMMA BestUpRestartStep ==
    ASSUME Drained, BestUpInv, BestUp!Restart
    PROVE  BestUpInv'
  <1>1. /\ b_network' = {} /\ b_messages' = <<>> /\ b_processed' = 0 /\ b_written' = 0
        /\ b_buffer' = <<>> /\ b_writer' = BestUpOffset /\ b_flashed' = 0 /\ b_taken' = 0
        /\ b_last_send' = BestUp!MaxSeq /\ b_last_received' = BestUp!MaxSeq
    BY DEF BestUp!Restart
  <1>2. BestUp!MaxSeq \in BestUp!SeqNums /\ BestUp!SeqSub(BestUp!MaxSeq, BestUp!MaxSeq) = 0
    BY BestUpConstants DEF BestUp!MaxSeq, BestUp!SeqNums, BestUp!SeqSub, BestUp!Modulus
  <1>3. b_buffer' \in Seq(Nat) /\ Len(b_buffer') = 0
    BY <1>1
  <1>4. BestUpTypes'
    BY <1>1, <1>2, <1>3, BestUpConstants DEF BestUpTypes
  <1>5. BufferInv'
    BY <1>1, <1>3, BestUpConstants DEF BufferInv
  <1>6. DistanceInv'
    BY <1>1, <1>2, BestUpConstants DEF DistanceInv
  <1>7. NewerInv'
    BY <1>1, <1>3 DEF NewerInv, Settled
  <1> QED
    BY <1>4, <1>5, <1>6, <1>7 DEF BestUpInv

LEMMA BestUpStep ==
    ASSUME Drained, BestUpInv, [BestUp!Next]_(BestUp!vars)
    PROVE  BestUpInv'
  <1>1. CASE UNCHANGED BestUp!vars
    <2>1. UNCHANGED <<b_writer, b_last_send, b_buffer, b_written, b_flashed, b_network,
                      b_last_received, b_messages, b_processed, b_taken>>
      BY <1>1 DEF BestUp!vars, BestUp!clientVars, BestUp!agentVars
    <2>2. Settled' = Settled /\ \A q : PacketSound(q)' <=> PacketSound(q)
      BY <2>1 DEF Settled, PacketSound
    <2> QED
      BY <2>1, <2>2 DEF BestUpInv, BestUpTypes, BufferInv, DistanceInv, NewerInv
  <1>2. CASE BestUp!Next
    BY <1>2, BestUpWriteStep, BestUpFlashStep, BestUpReceiveStep, BestUpDropStep,
       BestUpProcessStep, BestUpRestartStep DEF BestUp!Next
  <1> QED
    BY <1>1, <1>2

\* A step of the system is one of the stream, or leaves it as it is.
LEMMA BestUpRuns == LinksSpec => BestUp!Spec
  <1>1. LinksInit => BestUp!Init
    BY DEF LinksInit
  <1>2. [LinksNext]_allVars => [BestUp!Next]_(BestUp!vars)
    <2>1. CASE BestUpNext
      BY <2>1 DEF BestUpNext
    <2>2. CASE BestDownNext \/ DownNext \/ UpNext \/ LineNext \/ UNCHANGED allVars
      BY <2>2 DEF BestDownNext, DownNext, UpNext, LineNext, allVars, bestUpVars,
                  BestUp!vars, BestUp!clientVars, BestUp!agentVars
    <2> QED
      BY <2>1, <2>2 DEF LinksNext
  <1> QED
    BY <1>1, <1>2, PTL DEF LinksSpec, BestUp!Spec

\* uxr_flash_output_streams numbers the messages, and BestEffortInputStream::
\* push_message takes what is newer than all it took: distances of numbers are
\* differences of positions, and no message overlaps another.
THEOREM BestUpInvariant == ASSUME Drained PROVE LinksSpec => []BestUpInv
  <1>1. BestUpInv /\ [BestUp!Next]_(BestUp!vars) => BestUpInv'
    BY BestUpStep
  <1> QED
    BY <1>1, BestUpInitInv, BestUpRuns, PTL DEF BestUp!Spec

\* What the application of the Client wrote reaches the Agent's processor in that
\* order, at most once, and all of a message together, whatever the network
\* loses, repeats or delays: within a session the stream implements the abstract
\* channel.
THEOREM BestUpIsALossyChannel == ASSUME Drained PROVE LinksSpec => BestUpImplementsChannel
  <1>1. BestUp!Init => BestUp!Channel!Init
    BY DEF BestUp!Init, BestUp!Channel!Init
  <1>2. BestUpInv /\ [BestUp!Next]_(BestUp!vars)
            => [BestUp!Restart \/ BestUp!Channel!Next]_(BestUp!Channel!vars)
    <2> SUFFICES ASSUME BestUpInv, [BestUp!Next]_(BestUp!vars), ~BestUp!Restart
                 PROVE  [BestUp!Channel!Next]_(BestUp!Channel!vars)
      OBVIOUS
    <2>0. b_written \in Nat /\ b_processed \in Nat
      BY DEF BestUpInv, BestUpTypes
    <2>1. ASSUME NEW n \in 1 .. BestUpSize - BestUpOffset, BestUp!Write(n)
          PROVE  BestUp!Channel!Next
      BY <2>0, <2>1 DEF BestUp!Write, BestUp!agentVars, BestUp!Channel!Next, BestUp!Channel!Send
    <2>2. CASE BestUp!Process
      <3>1. /\ b_processed' > b_processed /\ b_processed' <= b_written /\ b_written' = b_written
            /\ b_processed' \in Nat
        BY <2>2, BestUpProcessStep DEF BestUp!Process, BestUp!clientVars, BestUpInv, BestUpTypes
      <3> QED
        BY <2>0, <3>1 DEF BestUp!Channel!Next, BestUp!Channel!Receive
    <2>3. ASSUME NEW p \in b_network, BestUp!Receive(p) \/ BestUp!Drop(p)
          PROVE  UNCHANGED BestUp!Channel!vars
      BY <2>3 DEF BestUp!Receive, BestUp!Drop, BestUp!clientVars, BestUp!agentVars, BestUp!Channel!vars
    <2>4. CASE BestUp!Flash \/ UNCHANGED BestUp!vars
      BY <2>4 DEF BestUp!Flash, BestUp!vars, BestUp!clientVars, BestUp!agentVars, BestUp!Channel!vars
    <2> QED
      BY <2>1, <2>2, <2>3, <2>4 DEF BestUp!Next
  <1>3. BestUpInv => \A i \in DOMAIN b_messages : BestUp!Whole(b_messages[i])
    <2> SUFFICES ASSUME BestUpInv, NEW i \in DOMAIN b_messages
                 PROVE  BestUp!Whole(b_messages[i])
      OBVIOUS
    <2>1. PICK p : /\ b_messages = <<p>> /\ PacketSound(p) /\ p.subs[1] > b_processed
      BY DEF BestUpInv, NewerInv
    <2>2. b_messages[i] = p
      BY <2>1
    <2>3. /\ b_processed \in Nat /\ p.subs[1] \in Nat
          /\ \A j \in DOMAIN p.subs : p.subs[1] <= p.subs[j]
      BY <2>1, PacketSpan DEF BestUpInv, BestUpTypes
    <2>4. \A j \in DOMAIN p.subs : p.subs[j] \in Nat
      <3>1. PICK s : s = p.subs /\ s \in Seq(Nat)
        BY <2>1 DEF PacketSound
      <3>2. \A j \in DOMAIN s : s[j] \in Nat
        BY <3>1
      <3> QED
        BY <3>1, <3>2
    <2>5. \A j \in DOMAIN p.subs : p.subs[j] = p.subs[1] + j - 1 /\ p.subs[j] > b_processed
      BY <2>1, <2>3, <2>4 DEF PacketSound
    <2> QED
      BY <2>2, <2>5 DEF BestUp!Whole
  <1> QED
    BY <1>1, <1>2, <1>3, BestUpInvariant, BestUpRuns, PTL
       DEF BestUp!Spec, BestUpImplementsChannel, BestUp!ImplementsChannel
=============================================================================
