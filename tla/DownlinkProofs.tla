--------------------------- MODULE DownlinkProofs ---------------------------
(***************************************************************************)
(* Proofs about Downlink: whatever the network loses, repeats, delays and  *)
(* reorders, no accepted message is lost between the two windows, nothing  *)
(* stored is forgotten, the numbers in use stay within half a turn, and    *)
(* what the application sees is a reliable channel.                        *)
(***************************************************************************)
EXTENDS Downlink, AgentOutputStreamProofs, SeqNumProofs, SequenceTheorems

----------------------------------------------------------------------------
(* The Client's arithmetic and its slots *)

\* Both sides compute alike.
LEMMA ClientArith ==
    /\ Client!Modulus = Modulus /\ Client!SeqNums = SeqNums /\ Client!MaxSeq = MaxSeq
    /\ \A a, b : /\ Client!Wrap(a) = Wrap(a) /\ Client!ClientAdd(a, b) = Wrap(a + b)
                 /\ Client!SeqSub(a, b) = SeqSub(a, b) /\ Client!SeqLt(a, b) = SeqLt(a, b)
  BY DEF Client!Modulus, Modulus, Client!SeqNums, SeqNums, Client!MaxSeq, MaxSeq, Client!Wrap, Wrap,
         Client!ClientAdd, Client!SeqSub, SeqSub, Client!SeqLt, SeqLt

\* The slot of the number d after h, and what is in it.
Place(h, d) == Client!SlotOf(Wrap(h + d))
At(s, h, d) == s[Place(h, d)]

\* The constants of the Client.
LEMMA Ring ==
    ASSUME ClientAssumption
    PROVE  /\ History \in Nat \ {0} /\ History <= Half /\ BitmapSize \in Nat
           /\ Empty \notin Messages /\ Modulus % History = 0
  BY ClientArith DEF ClientAssumption, Client!SlotAssumption

\* The History numbers after h have a slot each.
LEMMA PlaceInjective ==
    ASSUME ClientAssumption, NEW h \in SeqNums
    PROVE  /\ \A d \in 1 .. History : Place(h, d) \in 0 .. History - 1
           /\ \A d, e \in 1 .. History : Place(h, d) = Place(h, e) => d = e
  BY Ring, RingInjective DEF Place, Client!SlotOf

\* Seen from n numbers later the slots are the same, n places on; those
\* behind come round.
LEMMA PlaceMoves ==
    ASSUME ClientAssumption, NEW h \in SeqNums, NEW n \in 0 .. History
    PROVE  /\ Wrap(h + n) \in SeqNums
           /\ \A d \in 1 .. History :
                 Place(Wrap(h + n), d) =
                     IF n + d <= History THEN Place(h, n + d) ELSE Place(h, n + d - History)
  BY Ring, RingMoves DEF Place, Client!SlotOf

----------------------------------------------------------------------------
(* What the Client delivers at once *)

Slots == [0 .. History - 1 -> Messages \cup {Empty}]

\* The number d after h is stored and its submessage goes on.
Middle(s, h, d) == At(s, h, d) # Empty /\ ~At(s, h, d).last

\* on_get_fragmentation_info, of messages.
LEMMA KindIs ==
    ASSUME NEW m \in Messages
    PROVE  /\ Client!Fragmentation(m) = "INTERMEDIATE_FRAGMENT" <=> ~m.last
           /\ Client!Fragmentation(m) = "LAST_FRAGMENT" <=> m.last /\ m.frag > 1
           /\ Client!Fragmentation(m) = "NO_FRAGMENTED" <=> m.last /\ m.frag = 1
  <1>1. m.last \in BOOLEAN /\ m.frag \in Nat /\ m.frag >= 1
    BY Constants DEF Messages
  <1> QED
    BY <1>1 DEF Client!Fragmentation

\* A slot in use holds a message.
LEMMA AtIs ==
    ASSUME ClientAssumption, NEW s \in Slots, NEW h \in SeqNums
    PROVE  \A d \in 1 .. History : At(s, h, d) # Empty => At(s, h, d) \in Messages
  BY PlaceInjective DEF Slots, At

\* The Client's way to look at the number d after h.
LEMMA ClientAt == \A s, h, d : s[Client!SlotOf(Client!ClientAdd(h, d))] = At(s, h, d)
  BY ClientArith DEF At, Place

RunOf(s, h, n) ==
    /\ \A d \in 1 .. n : Middle(s, h, d)
    /\ n < History => ~Middle(s, h, n + 1)

\* check_last_fragment counts the intermediate fragments at the head of the
\* window.
LEMMA RunIs ==
    ASSUME ClientAssumption, NEW s \in Slots, NEW h \in SeqNums
    PROVE  /\ Client!Run(s, h) \in 0 .. History /\ RunOf(s, h, Client!Run(s, h))
           /\ \A n \in 0 .. History : RunOf(s, h, n) => Client!Run(s, h) = n
  <1>0. History \in Nat \ {0}
    BY Ring
  <1>1. \A d \in 1 .. History :
            At(s, h, d) # Empty /\ Client!Fragmentation(At(s, h, d)) = "INTERMEDIATE_FRAGMENT"
                <=> Middle(s, h, d)
    BY AtIs, KindIs DEF Middle
  <1>2. Client!Run(s, h) = CHOOSE n \in 0 .. History : RunOf(s, h, n)
    <2>1. \A n \in 0 .. History :
            (/\ \A d \in 1 .. n :
                  LET c == s[Client!SlotOf(Client!ClientAdd(h, d))]
                  IN  c # Empty /\ Client!Fragmentation(c) = "INTERMEDIATE_FRAGMENT"
             /\ n < History =>
                  LET c == s[Client!SlotOf(Client!ClientAdd(h, n + 1))]
                  IN  c = Empty \/ Client!Fragmentation(c) # "INTERMEDIATE_FRAGMENT")
              <=> RunOf(s, h, n)
      BY <1>0, <1>1, ClientAt DEF RunOf
    <2> QED
      BY <2>1 DEF Client!Run
  <1>3. \E n \in 0 .. History : RunOf(s, h, n)
    <2> DEFINE ends == {n \in 0 .. History : n < History => ~Middle(s, h, n + 1)}
    <2>1. ends \in SUBSET Nat /\ History \in ends
      BY <1>0
    <2> HIDE DEF ends
    <2>2. PICK n \in ends : \A k \in ends : n <= k
      BY <2>1, LeastIs
    <2>3. n \in 0 .. History /\ (n < History => ~Middle(s, h, n + 1))
      BY <2>2 DEF ends
    <2>4. ASSUME NEW d \in 1 .. n PROVE Middle(s, h, d)
      <3>1. d - 1 \in 0 .. History /\ d - 1 < n /\ d - 1 < History /\ (d - 1) + 1 = d
        BY <1>0, <2>3
      <3>2. d - 1 \notin ends
        BY <2>2, <2>3, <3>1
      <3> QED
        BY <3>1, <3>2 DEF ends
    <2> QED
      BY <2>3, <2>4 DEF RunOf
  <1>4. Client!Run(s, h) \in 0 .. History /\ RunOf(s, h, Client!Run(s, h))
    BY <1>2, <1>3
  <1>5. ASSUME NEW m \in 0 .. History, NEW n \in 0 .. History, RunOf(s, h, m), RunOf(s, h, n), m < n
        PROVE  FALSE
    BY <1>0, <1>5 DEF RunOf
  <1> QED
    BY <1>0, <1>4, <1>5

\* How many messages of the window are complete at its head.
LEMMA UnitsIs ==
    ASSUME ClientAssumption, NEW s \in Slots, NEW h \in SeqNums, NEW r, r = Client!Run(s, h)
    PROVE  Client!Units(s, h) =
               IF r < History /\ At(s, h, r + 1) # Empty
                  /\ (r = 0 \/ At(s, h, r + 1).frag > 1)
               THEN r + 1 ELSE 0
  <1>0. History \in Nat \ {0} /\ r \in 0 .. History /\ RunOf(s, h, r)
    BY Ring, RunIs
  <1>1. /\ At(s, h, 1) # Empty => At(s, h, 1) \in Messages
        /\ r < History /\ At(s, h, r + 1) # Empty => At(s, h, r + 1) \in Messages
    BY <1>0, AtIs
  <1>2. r = 0 <=> ~Middle(s, h, 1)
    BY <1>0 DEF RunOf
  <1>3. r < History /\ At(s, h, r + 1) # Empty => At(s, h, r + 1).last
    BY <1>0 DEF RunOf, Middle
  <1>4. Client!LastFragmentFound(s, h) <=>
            r < History /\ At(s, h, r + 1) # Empty /\ At(s, h, r + 1).frag > 1
    BY <1>1, <1>3, ClientAt, KindIs DEF Client!LastFragmentFound
  <1>5. CASE At(s, h, 1) = Empty
    <2>1. r = 0
      BY <1>2, <1>5 DEF Middle
    <2> QED
      BY <1>0, <1>5, <2>1, ClientAt DEF Client!Units
  <1>6. CASE At(s, h, 1) # Empty /\ At(s, h, 1).last /\ At(s, h, 1).frag = 1
    <2>1. r = 0
      BY <1>2, <1>6 DEF Middle
    <2>2. Client!Fragmentation(At(s, h, 1)) = "NO_FRAGMENTED"
      BY <1>1, <1>6, KindIs
    <2> QED
      BY <1>0, <1>6, <2>1, <2>2, ClientAt DEF Client!Units
  <1>7. CASE At(s, h, 1) # Empty /\ ~(At(s, h, 1).last /\ At(s, h, 1).frag = 1)
    <2>1. Client!Fragmentation(At(s, h, 1)) # "NO_FRAGMENTED"
      BY <1>1, <1>7, KindIs
    <2>2. Client!Units(s, h) = IF Client!LastFragmentFound(s, h) THEN r + 1 ELSE 0
      BY <1>7, <2>1, ClientAt DEF Client!Units
    <2>3. r = 0 => At(s, h, 1).frag > 1
      <3>1. At(s, h, 1) \in Messages
        BY <1>1, <1>7
      <3>2. At(s, h, 1).frag \in Nat \ {0}
        BY <3>1, Constants DEF Messages
      <3> QED
        BY <1>2, <1>7, <3>2 DEF Middle
    <2> QED
      BY <1>0, <1>4, <2>2, <2>3
  <1> QED
    BY <1>5, <1>6, <1>7

\* What is delivered at once is one submessage, up to its last fragment.
LEMMA UnitIsWhole ==
    ASSUME ClientAssumption, NEW s \in Slots, NEW h \in SeqNums, NEW n, n = Client!Units(s, h)
    PROVE  /\ n \in 0 .. History
           /\ \A d \in 1 .. n : At(s, h, d) # Empty
           /\ \A d \in 1 .. n : At(s, h, d).last <=> d = n
  <1>1. PICK r : r = Client!Run(s, h)
    OBVIOUS
  <1>2. History \in Nat \ {0} /\ r \in 0 .. History /\ RunOf(s, h, r)
    BY <1>1, Ring, RunIs
  <1>3. n = 0 \/ (n = r + 1 /\ r < History /\ At(s, h, r + 1) # Empty)
    BY <1>1, UnitsIs
  <1>4. ASSUME NEW d \in 1 .. n PROVE At(s, h, d) # Empty /\ (At(s, h, d).last <=> d = n)
    <2>1. CASE d = n
      BY <1>2, <1>3, <2>1 DEF RunOf, Middle
    <2>2. CASE d # n
      <3>1. d \in 1 .. r
        BY <1>2, <1>3, <2>2
      <3> QED
        BY <1>2, <2>2, <3>1 DEF RunOf, Middle
    <2> QED
      BY <2>1, <2>2
  <1> QED
    BY <1>2, <1>3, <1>4

----------------------------------------------------------------------------
(* The delivery loop *)

\* The slots when the n numbers after h have been delivered.
Freed(s, h, n) ==
    [i \in 0 .. History - 1 |-> IF \E d \in 1 .. n : i = Place(h, d) THEN Empty ELSE s[i]]

\* Adding up.
LEMMA WrapTwice ==
    ASSUME ClientAssumption, NEW h \in SeqNums, NEW n \in 0 .. History, NEW m \in 0 .. History,
           n + m <= History
    PROVE  Wrap(Wrap(h + n) + m) = Wrap(h + (n + m))
  BY Ring, Constants DEF Wrap, SeqNums, Modulus

\* What was delivered is free, the rest moves up.
LEMMA FreedAt ==
    ASSUME ClientAssumption, NEW s \in Slots, NEW h \in SeqNums, NEW n \in 0 .. History
    PROVE  /\ Freed(s, h, n) \in Slots
           /\ \A d \in 1 .. History :
                 At(Freed(s, h, n), Wrap(h + n), d) =
                     IF n + d <= History THEN At(s, h, n + d) ELSE Empty
  <1>0. History \in Nat \ {0}
    BY Ring
  <1>1. Freed(s, h, n) \in Slots
    BY DEF Freed, Slots
  <1>2. ASSUME NEW d \in 1 .. History, n + d <= History
        PROVE  At(Freed(s, h, n), Wrap(h + n), d) = At(s, h, n + d)
    <2>1. Place(Wrap(h + n), d) = Place(h, n + d) /\ n + d \in 1 .. History
      BY <1>0, <1>2, PlaceMoves
    <2>2. \A e \in 1 .. n : Place(h, n + d) # Place(h, e)
      BY <1>0, <2>1, PlaceInjective
    <2>3. Place(h, n + d) \in 0 .. History - 1
      BY <2>1, PlaceInjective
    <2> QED
      BY <2>1, <2>2, <2>3 DEF At, Freed
  <1>3. ASSUME NEW d \in 1 .. History, ~(n + d <= History)
        PROVE  At(Freed(s, h, n), Wrap(h + n), d) = Empty
    <2>1. Place(Wrap(h + n), d) = Place(h, n + d - History) /\ n + d - History \in 1 .. n
      BY <1>0, <1>3, PlaceMoves
    <2>2. Place(h, n + d - History) \in 0 .. History - 1
      BY <1>0, <2>1, PlaceInjective
    <2> QED
      BY <2>1, <2>2 DEF At, Freed
  <1> QED
    BY <1>1, <1>2, <1>3

\* Freeing n and then m slots.
LEMMA FreedTwice ==
    ASSUME ClientAssumption, NEW s \in Slots, NEW h \in SeqNums,
           NEW n \in 0 .. History, NEW m \in 0 .. History, n + m <= History
    PROVE  Freed(Freed(s, h, n), Wrap(h + n), m) = Freed(s, h, n + m)
  <1>0. History \in Nat \ {0}
    BY Ring
  <1>1. \A d \in 1 .. m : Place(Wrap(h + n), d) = Place(h, n + d)
    BY <1>0, PlaceMoves
  <1>2. ASSUME NEW i \in 0 .. History - 1
        PROVE  (\E d \in 1 .. n + m : i = Place(h, d)) <=>
                  (\E d \in 1 .. n : i = Place(h, d)) \/ (\E d \in 1 .. m : i = Place(Wrap(h + n), d))
    <2>1. ASSUME NEW d \in 1 .. n + m, i = Place(h, d), ~(d \in 1 .. n)
          PROVE  \E e \in 1 .. m : i = Place(Wrap(h + n), e)
      <3>1. d - n \in 1 .. m /\ n + (d - n) = d
        BY <1>0, <2>1
      <3>2. i = Place(Wrap(h + n), d - n)
        BY <1>1, <2>1, <3>1
      <3> QED
        BY <3>1, <3>2
    <2>2. ASSUME NEW e \in 1 .. m, i = Place(Wrap(h + n), e)
          PROVE  \E d \in 1 .. n + m : i = Place(h, d)
      <3>1. n + e \in 1 .. n + m
        BY <1>0
      <3> QED
        BY <1>1, <2>2, <3>1
    <2>3. 1 .. n \subseteq 1 .. n + m
      BY <1>0
    <2> QED
      BY <2>1, <2>2, <2>3
  <1> QED
    BY <1>2 DEF Freed

\* A message is among those handed over.
Handed(out, c) == \E u \in DOMAIN out : \E j \in DOMAIN out[u] : out[u][j] = c

\* The loop, begun with slots s behind number h, has delivered n messages.
Drained(s, h, n, st) ==
    /\ n \in 0 .. History
    /\ st.handled = Wrap(h + n)
    /\ st.slots = Freed(s, h, n)
    /\ \A d \in 1 .. n : At(s, h, d) # Empty
    /\ n > 0 => At(s, h, n).last
    /\ st.out \in Seq(Seq(Messages))
    /\ \A d \in 1 .. n : Handed(st.out, At(s, h, d))

\* The unit u is the numbers behind a up to b, counted from h: a submessage.
IsUnit(s, h, a, b, u) ==
    /\ Len(u) >= 1 /\ b = a + Len(u)
    /\ \A j \in 1 .. Len(u) : u[j] = At(s, h, a + j) /\ (u[j].last <=> j = Len(u))

\* The units of out behind the first k are the n numbers after h: cut[i] of
\* them are in the units up to out[i].
CutAt(s, h, k, n, out, cut) ==
    /\ cut \in [k .. Len(out) -> 0 .. n]
    /\ cut[k] = 0 /\ cut[Len(out)] = n
    /\ \A i \in k + 1 .. Len(out) : IsUnit(s, h, cut[i - 1], cut[i], out[i])

Cut(s, h, k, n, out) == k <= Len(out) /\ \E cut : CutAt(s, h, k, n, out, cut)

\* One more unit.
LEMMA CutOn ==
    ASSUME NEW s, NEW h, NEW k \in Nat, NEW n \in Nat, NEW out \in Seq(Seq(Messages)),
           Cut(s, h, k, n, out), NEW unit \in Seq(Messages), NEW m \in Nat,
           IsUnit(s, h, n, m, unit)
    PROVE  Cut(s, h, k, m, Append(out, unit))
  <1>1. PICK l \in Nat : l = Len(out)
    OBVIOUS
  <1>2. PICK cut : CutAt(s, h, k, n, out, cut)
    BY DEF Cut
  <1>3. PICK more : more = Append(out, unit)
    OBVIOUS
  <1>4. /\ Len(more) = l + 1 /\ more[l + 1] = unit /\ k <= l
        /\ \A i \in 1 .. l : more[i] = out[i]
    BY <1>1, <1>3 DEF Cut
  <1>5. /\ cut \in [k .. l -> 0 .. n] /\ cut[k] = 0 /\ cut[l] = n
        /\ \A i \in k + 1 .. l : IsUnit(s, h, cut[i - 1], cut[i], out[i])
    BY <1>1, <1>2 DEF CutAt
  <1>6. n <= m
    <2>1. Len(unit) \in Nat
      OBVIOUS
    <2> QED
      BY <2>1 DEF IsUnit
  <1>7. PICK next : next = [i \in k .. l + 1 |-> IF i = l + 1 THEN m ELSE cut[i]]
    OBVIOUS
  <1>8. /\ next \in [k .. l + 1 -> 0 .. m] /\ next[l + 1] = m
        /\ \A i \in k .. l : next[i] = cut[i]
    BY <1>4, <1>5, <1>6, <1>7
  <1>9. ASSUME NEW i \in k + 1 .. l + 1 PROVE IsUnit(s, h, next[i - 1], next[i], more[i])
    <2>1. CASE i = l + 1
      <3>1. i - 1 = l /\ l \in k .. l
        BY <1>4, <2>1
      <3>2. more[i] = unit /\ next[i] = m /\ next[i - 1] = n
        BY <1>4, <1>5, <1>8, <2>1, <3>1
      <3> QED
        BY <3>2
    <2>2. CASE i # l + 1
      <3>1. i \in Int /\ k + 1 <= i /\ i <= l
        BY <2>2
      <3>2. i \in k + 1 .. l /\ i \in 1 .. l /\ i \in k .. l /\ i - 1 \in k .. l
        BY <3>1
      <3>3. more[i] = out[i] /\ next[i] = cut[i] /\ next[i - 1] = cut[i - 1]
        BY <1>4, <1>8, <3>2
      <3> QED
        BY <1>5, <3>2, <3>3
    <2> QED
      BY <2>1, <2>2
  <1>10. next[k] = 0 /\ k <= Len(more)
    BY <1>1, <1>4, <1>5, <1>8
  <1>11. CutAt(s, h, k, m, more, next)
    BY <1>4, <1>8, <1>9, <1>10 DEF CutAt
  <1> QED
    BY <1>3, <1>10, <1>11 DEF Cut

\* One turn of the loop delivers a submessage, or there is none.
LEMMA TurnIs ==
    ASSUME ClientAssumption, NEW s \in Slots, NEW h \in SeqNums, NEW n, NEW st, Drained(s, h, n, st)
    PROVE  \E m \in 0 .. History :
              /\ Drained(s, h, m, Client!DeliverHead(st))
              /\ \A u \in DOMAIN st.out : /\ u \in DOMAIN Client!DeliverHead(st).out
                                       /\ Client!DeliverHead(st).out[u] = st.out[u]
              /\ \A k \in Nat :
                    Cut(s, h, k, n, st.out) => Cut(s, h, k, m, Client!DeliverHead(st).out)
              /\ \/ m > n
                 \/ m = n /\ Client!DeliverHead(st) = st /\ Client!Units(st.slots, st.handled) = 0
  <1> DEFINE s1 == Freed(s, h, n)
             h1 == Wrap(h + n)
  <1>0. /\ History \in Nat \ {0} /\ n \in 0 .. History
        /\ st.handled = h1 /\ st.slots = s1 /\ st.out \in Seq(Seq(Messages))
        /\ s1 \in Slots /\ h1 \in SeqNums
    BY Ring, FreedAt, PlaceMoves DEF Drained
  <1>1. PICK k : k = Client!Units(s1, h1)
    OBVIOUS
  <1>2. CASE k = 0
    <2>1. Client!DeliverHead(st) = st
      BY <1>0, <1>1, <1>2 DEF Client!DeliverHead
    <2> QED
      BY <1>0, <1>1, <1>2, <2>1
  <1>3. CASE k # 0
    <2>1. /\ k \in 1 .. History
          /\ \A d \in 1 .. k : At(s1, h1, d) # Empty
          /\ At(s1, h1, k).last
      BY <1>0, <1>1, <1>3, UnitIsWhole
    <2>2. \A d \in 1 .. k : n + d <= History /\ At(s1, h1, d) = At(s, h, n + d)
      BY <1>0, <2>1, FreedAt
    <2>3. n + k \in 1 .. History /\ n + k > n
      BY <1>0, <2>1, <2>2
    <2>4. PICK out : out = Append(st.out, [d \in 1 .. k |-> At(s1, h1, d)])
      OBVIOUS
    <2>5. [d \in 1 .. k |-> At(s1, h1, d)] \in Seq(Messages)
      <3>1. \A d \in 1 .. k : At(s1, h1, d) \in Messages
        BY <1>0, <2>1, AtIs
      <3> QED
        BY <2>1, <3>1
    <2>6. PICK unit \in Seq(Messages) : /\ unit = [d \in 1 .. k |-> At(s1, h1, d)]
                                       /\ out = Append(st.out, unit)
      BY <2>4, <2>5
    <2>7. /\ out \in Seq(Seq(Messages))
          /\ \A u \in DOMAIN st.out : u \in DOMAIN out /\ out[u] = st.out[u]
          /\ Len(st.out) + 1 \in DOMAIN out /\ out[Len(st.out) + 1] = unit
      BY <1>0, <2>6
    <2>8. Client!DeliverHead(st) =
             [slots |-> Freed(s1, h1, k), handled |-> Wrap(h1 + k), out |-> out]
      <3>1. \A d : st.slots[Client!SlotOf(Client!ClientAdd(st.handled, d))] = At(s1, h1, d)
        BY <1>0, ClientAt
      <3>2. \A d : Client!SlotOf(Client!ClientAdd(st.handled, d)) = Place(h1, d)
        BY <1>0, ClientArith DEF Place
      <3>3. Client!ClientAdd(st.handled, k) = Wrap(h1 + k)
        BY <1>0, ClientArith
      <3>4. Client!Units(st.slots, st.handled) = k
        BY <1>0, <1>1
      <3>5. [i \in 0 .. History - 1 |->
                IF \E d \in 1 .. k : i = Client!SlotOf(Client!ClientAdd(st.handled, d))
                THEN Empty ELSE st.slots[i]] = Freed(s1, h1, k)
        BY <1>0, <3>2 DEF Freed
      <3>6. [d \in 1 .. k |-> st.slots[Client!SlotOf(Client!ClientAdd(st.handled, d))]]
               = [d \in 1 .. k |-> At(s1, h1, d)]
        BY <3>1
      <3> QED
        BY <1>3, <2>4, <3>3, <3>4, <3>5, <3>6 DEF Client!DeliverHead
    <2>9. Freed(s1, h1, k) = Freed(s, h, n + k) /\ Wrap(h1 + k) = Wrap(h + (n + k))
      BY <1>0, <2>1, <2>3, FreedTwice, WrapTwice
    <2>10. ASSUME NEW d \in 1 .. n + k
           PROVE  At(s, h, d) # Empty /\ Handed(out, At(s, h, d))
      <3>1. CASE d \in 1 .. n
        <4>1. At(s, h, d) # Empty /\ Handed(st.out, At(s, h, d))
          BY <3>1 DEF Drained
        <4> QED
          BY <2>7, <4>1 DEF Handed
      <3>2. CASE d \notin 1 .. n
        <4>1. d - n \in 1 .. k /\ n + (d - n) = d
          BY <1>0, <2>1, <3>2
        <4>2. At(s, h, d) = At(s1, h1, d - n) /\ At(s, h, d) # Empty
          BY <2>1, <2>2, <4>1
        <4>3. d - n \in DOMAIN unit /\ unit[d - n] = At(s, h, d)
          BY <2>6, <4>1, <4>2
        <4> QED
          BY <2>7, <4>2, <4>3 DEF Handed
      <3> QED
        BY <3>1, <3>2
    <2>11. At(s, h, n + k).last
      BY <2>1, <2>2
    <2>12. Drained(s, h, n + k, Client!DeliverHead(st))
      BY <2>3, <2>7, <2>8, <2>9, <2>10, <2>11 DEF Drained
    <2>13. ASSUME NEW l \in Nat, Cut(s, h, l, n, st.out) PROVE Cut(s, h, l, n + k, out)
      <3>1. Len(unit) = k
        BY <2>1, <2>6
      <3>2. \A j \in 1 .. k : unit[j] = At(s, h, n + j) /\ (unit[j].last <=> j = k)
        BY <1>0, <1>1, <2>2, <2>6, UnitIsWhole
      <3>3. k >= 1 /\ n \in Nat /\ n + k \in Nat
        BY <1>0, <2>1
      <3>4. IsUnit(s, h, n, n + k, unit)
        BY <3>1, <3>2, <3>3 DEF IsUnit
      <3> QED
        BY <1>0, <2>6, <2>13, <3>3, <3>4, CutOn
    <2>14. Client!DeliverHead(st).out = out /\ n + k \in 0 .. History
      BY <1>0, <2>3, <2>8
    <2> QED
      BY <2>3, <2>7, <2>12, <2>13, <2>14
  <1> QED
    BY <1>2, <1>3

\* The turns of the loop, one by one.
Turns(f, n, st) == f = [i \in 0 .. n |-> IF i = 0 THEN st ELSE Client!DeliverHead(f[i - 1])]

\* There are as many as one likes.
LEMMA TurnsExist == ASSUME NEW n \in Nat, NEW st PROVE \E f : Turns(f, n, st)
  <1> DEFINE Missing == {k \in Nat : ~\E f : Turns(f, k, st)}
  <1>1. Missing \in SUBSET Nat
    OBVIOUS
  <1>2. ASSUME NEW k \in Missing, \A j \in Missing : k <= j PROVE FALSE
    <2>1. CASE k = 0
      <3>1. PICK f : f = [i \in 0 .. 0 |-> st]
        OBVIOUS
      <3>2. Turns(f, 0, st)
        BY <3>1 DEF Turns
      <3> QED
        BY <1>2, <2>1, <3>2
    <2>2. CASE k # 0
      <3>1. k - 1 \in Nat /\ k - 1 \notin Missing
        BY <1>2, <2>2
      <3>2. PICK g : Turns(g, k - 1, st)
        BY <3>1
      <3>3. PICK f : f = [i \in 0 .. k |-> IF i = 0 THEN st ELSE Client!DeliverHead(g[i - 1])]
        OBVIOUS
      <3>4. \A i \in 0 .. k - 1 : f[i] = g[i]
        <4>1. \A i \in 0 .. k - 1 :
                 /\ f[i] = IF i = 0 THEN st ELSE Client!DeliverHead(g[i - 1])
                 /\ g[i] = IF i = 0 THEN st ELSE Client!DeliverHead(g[i - 1])
          BY <3>1, <3>2, <3>3 DEF Turns
        <4> QED
          BY <4>1
      <3>5. \A i \in 0 .. k : i # 0 => f[i - 1] = g[i - 1]
        BY <3>1, <3>4
      <3>6. Turns(f, k, st)
        BY <3>3, <3>5 DEF Turns
      <3> QED
        BY <1>2, <3>6
    <2> QED
      BY <2>1, <2>2
  <1> HIDE DEF Missing
  <1>3. Missing = {}
    BY <1>1, <1>2, LeastIs
  <1> QED
    BY <1>3 DEF Missing

\* The whole loop: what is complete is delivered, submessage by submessage,
\* until nothing complete is at the head.
LEMMA DrainIs ==
    ASSUME ClientAssumption, NEW s \in Slots, NEW h \in SeqNums, NEW out \in Seq(Seq(Messages)),
           NEW st, st = Client!Drain([slots |-> s, handled |-> h, out |-> out])
    PROVE  \E n \in 0 .. History :
              /\ Drained(s, h, n, st)
              /\ \A u \in DOMAIN out : u \in DOMAIN st.out /\ st.out[u] = out[u]
              /\ Cut(s, h, Len(out), n, st.out)
              /\ Client!Units(st.slots, st.handled) = 0
  <1>0. History \in Nat \ {0}
    BY Ring
  <1>1. PICK b : b = [slots |-> s, handled |-> h, out |-> out]
    OBVIOUS
  <1>2. PICK f : /\ f = [i \in 0 .. History |-> IF i = 0 THEN b ELSE Client!DeliverHead(f[i - 1])]
                 /\ st = f[History]
    <2>1. \E f : f = [i \in 0 .. History |-> IF i = 0 THEN b ELSE Client!DeliverHead(f[i - 1])]
      BY <1>0, TurnsExist DEF Turns
    <2>2. st = Client!Drain(b)
      BY <1>1
    <2> QED
      BY <2>1, <2>2 DEF Client!Drain
  <1>3. f[0] = b /\ \A i \in 1 .. History : f[i] = Client!DeliverHead(f[i - 1])
    BY <1>0, <1>2
  <1> DEFINE Good(i) == \E n \in 0 .. History :
                          /\ Drained(s, h, n, f[i])
                          /\ \A u \in DOMAIN out : u \in DOMAIN f[i].out /\ f[i].out[u] = out[u]
                          /\ Cut(s, h, Len(out), n, f[i].out)
                          /\ n >= i \/ Client!Units(f[i].slots, f[i].handled) = 0
             Wrong == {i \in 0 .. History : ~Good(i)}
  <1>4. Good(0)
    <2>1. Freed(s, h, 0) = s
      BY DEF Freed, Slots
    <2>2. Wrap(h + 0) = h
      BY Constants DEF SeqNums, Modulus, Wrap
    <2>3. Drained(s, h, 0, b)
      BY <1>0, <1>1, <2>1, <2>2 DEF Drained
    <2>4. Cut(s, h, Len(out), 0, out)
      <3>1. PICK l \in Nat : l = Len(out)
        OBVIOUS
      <3>2. PICK cut : cut = [i \in l .. l |-> 0]
        OBVIOUS
      <3>3. CutAt(s, h, l, 0, out, cut)
        BY <3>1, <3>2 DEF CutAt
      <3> QED
        BY <3>1, <3>3 DEF Cut
    <2> QED
      BY <1>0, <1>1, <1>3, <2>3, <2>4
  <1>5. ASSUME NEW i \in 1 .. History, Good(i - 1) PROVE Good(i)
    <2>1. PICK n \in 0 .. History :
             /\ Drained(s, h, n, f[i - 1])
             /\ \A u \in DOMAIN out : u \in DOMAIN f[i - 1].out /\ f[i - 1].out[u] = out[u]
             /\ Cut(s, h, Len(out), n, f[i - 1].out)
             /\ n >= i - 1 \/ Client!Units(f[i - 1].slots, f[i - 1].handled) = 0
      BY <1>5
    <2>2. f[i] = Client!DeliverHead(f[i - 1])
      BY <1>3
    <2>3. PICK m \in 0 .. History :
             /\ Drained(s, h, m, f[i])
             /\ \A u \in DOMAIN f[i - 1].out : u \in DOMAIN f[i].out /\ f[i].out[u] = f[i - 1].out[u]
             /\ \A k \in Nat : Cut(s, h, k, n, f[i - 1].out) => Cut(s, h, k, m, f[i].out)
             /\ \/ m > n
                \/ m = n /\ f[i] = f[i - 1] /\ Client!Units(f[i - 1].slots, f[i - 1].handled) = 0
      BY <2>1, <2>2, TurnIs
    <2>4. \A u \in DOMAIN out : u \in DOMAIN f[i].out /\ f[i].out[u] = out[u]
      BY <2>1, <2>3
    <2>5. m >= i \/ Client!Units(f[i].slots, f[i].handled) = 0
      <3>1. CASE m = n /\ f[i] = f[i - 1] /\ Client!Units(f[i - 1].slots, f[i - 1].handled) = 0
        BY <3>1
      <3>2. CASE m > n /\ n >= i - 1
        BY <3>2
      <3>3. CASE m > n /\ Client!Units(f[i - 1].slots, f[i - 1].handled) = 0
        <4>1. f[i] = f[i - 1]
          BY <2>2, <3>3 DEF Client!DeliverHead
        <4> QED
          BY <3>3, <4>1
      <3> QED
        BY <2>1, <2>3, <3>1, <3>2, <3>3
    <2>6. Cut(s, h, Len(out), m, f[i].out)
      <3>1. Len(out) \in Nat
        OBVIOUS
      <3> QED
        BY <2>1, <2>3, <3>1
    <2> QED
      BY <2>3, <2>4, <2>5, <2>6
  <1>6. Good(History)
    <2>1. Wrong \in SUBSET Nat
      BY <1>0
    <2>2. ASSUME NEW i \in Wrong, \A j \in Wrong : i <= j PROVE FALSE
      <3>1. i \in 0 .. History /\ ~Good(i)
        OBVIOUS
      <3> HIDE DEF Good
      <3>2. i # 0
        BY <1>4, <3>1
      <3>3. i - 1 \in 0 .. History /\ i - 1 \notin Wrong /\ i \in 1 .. History
        BY <1>0, <2>2, <3>1, <3>2
      <3> QED
        BY <1>5, <3>1, <3>3
    <2> HIDE DEF Good
    <2>3. Wrong = {}
      <3> HIDE DEF Wrong
      <3> QED
        BY <2>1, <2>2, LeastIs
    <2> QED
      BY <1>0, <2>3
  <1>7. PICK n \in 0 .. History :
           /\ Drained(s, h, n, st)
           /\ \A u \in DOMAIN out : u \in DOMAIN st.out /\ st.out[u] = out[u]
           /\ Cut(s, h, Len(out), n, st.out)
           /\ n >= History \/ Client!Units(st.slots, st.handled) = 0
    BY <1>2, <1>6
  <1>8. CASE n = History
    <2>1. /\ st.slots = Freed(s, h, n) /\ st.handled = Wrap(h + n)
          /\ st.slots \in Slots /\ st.handled \in SeqNums
      BY <1>7, FreedAt, PlaceMoves DEF Drained
    <2>2. At(st.slots, st.handled, 1) = Empty
      BY <1>0, <1>8, <2>1, FreedAt
    <2>3. PICK k : k = Client!Units(st.slots, st.handled)
      OBVIOUS
    <2>4. k \in 0 .. History /\ \A d \in 1 .. k : At(st.slots, st.handled, d) # Empty
      BY <2>1, <2>3, UnitIsWhole
    <2>5. k = 0
      BY <1>0, <2>2, <2>4
    <2> QED
      BY <1>7, <2>3, <2>5
  <1> QED
    BY <1>0, <1>7, <1>8

----------------------------------------------------------------------------
(* The two windows.  Numbers are measured from last_handled, forwards, and  *)
(* from the newest number, backwards.                                       *)

\* How many numbers the Client has to handle yet.
Waiting == SeqSub(last_unacked, last_handled)

\* How many of them were announced.
Announced == SeqSub(last_announced, last_handled)

\* How old a number is, and a number that acknowledges those before it.
Age(k) == SeqSub(last_unacked, k)
AckAge(k) == SeqSub(SeqAdd(last_unacked, 1), k)

\* The message with the number d after last_handled.
Content(d) ==
    LET k == Wrap(last_handled + d)
    IN  IF k \in DOMAIN messages THEN messages[k] ELSE At(slots, last_handled, d)

ClientTyped ==
    /\ slots \in Slots
    /\ last_handled \in SeqNums
    /\ last_announced \in SeqNums
    /\ delivered \in Seq(Seq(Messages))
    /\ spinning \in BOOLEAN

Typed == ClientAssumption /\ IInv /\ ClientTyped

\* The Client waits for no more than the Agent holds and its slots store.
ReachInv ==
    /\ Waiting <= Occupancy + History - 1
    /\ Announced <= Waiting

\* Whatever is stored waits for its turn.
StoredInv ==
    \A d \in 1 .. History :
        At(slots, last_handled, d) # Empty => d <= Waiting /\ At(slots, last_handled, d) = Content(d)

\* Unless the Client spins, it was announced too.
AnnouncedInv ==
    ~spinning => \A d \in 1 .. History : At(slots, last_handled, d) # Empty => d <= Announced

\* What the Agent has dropped and the Client has not delivered is stored.
KeptInv ==
    \A d \in 1 .. History : d <= Waiting - Occupancy => At(slots, last_handled, d) # Empty

\* A submessage follows the fragment before it, or begins.
Follows(m, n) ==
    IF m.last THEN n.frag = 1 ELSE n.sub = m.sub /\ n.frag = m.frag + 1

\* What waits are whole submessages.
WholeInv ==
    /\ Waiting > 0 => Content(1).frag = 1 /\ Content(Waiting).last
    /\ \A d \in 1 .. Waiting : d + 1 <= Waiting => Follows(Content(d), Content(d + 1))

\* Nothing complete waits at the head, and a slot is free.
IdleInv ==
    ~spinning =>
        /\ Client!Units(slots, last_handled) = 0
        /\ \E d \in 1 .. History : At(slots, last_handled, d) = Empty

\* DATA is what the two windows have under its number, or was delivered.
DataOK(p) ==
    /\ p.num \in SeqNums /\ p.msg \in Messages
    /\ Age(p.num) <= Half
    /\ Age(p.num) < Waiting => p.msg = Content(Waiting - Age(p.num))

HeartbeatOK(p) == p.last \in SeqNums /\ Age(p.last) <= Half

\* What an ACKNACK acknowledges was delivered or is stored.
AcknackOK(p) ==
    /\ p.ack.first \in SeqNums
    /\ AckAge(p.ack.first) <= Half + 1
    /\ \/ AckAge(p.ack.first) > Waiting
       \/ /\ Waiting + 1 - AckAge(p.ack.first) <= History
          /\ \A d \in 1 .. Waiting - AckAge(p.ack.first) : At(slots, last_handled, d) # Empty

PacketOK(p) ==
    \/ p.type = "DATA" /\ DataOK(p)
    \/ p.type = "HEARTBEAT" /\ HeartbeatOK(p)
    \/ p.type = "ACKNACK" /\ AcknackOK(p)

PacketsInv == \A p \in network : PacketOK(p)

WindowsInv ==
    ReachInv /\ StoredInv /\ AnnouncedInv /\ KeptInv /\ WholeInv /\ IdleInv

DownInv == Typed /\ WindowsInv /\ PacketsInv

\* The quantities of the two windows.
LEMMA Quantities ==
    ASSUME Typed
    PROVE  /\ Half \in Nat /\ Half >= 2 /\ Modulus = 2 * Half /\ MaxSeq = Modulus - 1
           /\ History \in Nat /\ History >= 1 /\ History <= Half
           /\ Depth \in Nat /\ Depth >= 1 /\ MaxFragments \in Nat /\ MaxFragments >= 1
           /\ Depth + MaxFragments <= Half
           /\ Occupancy \in Nat /\ Occupancy <= Depth - 1 + MaxFragments /\ Occupancy <= Half - 1
           /\ Waiting \in 0 .. MaxSeq /\ Announced \in 0 .. MaxSeq
           /\ last_unacked \in SeqNums /\ last_handled \in SeqNums /\ last_announced \in SeqNums
           /\ first_unacked \in SeqNums /\ last_sent \in SeqNums
  <1>1. /\ Half \in Nat /\ Half >= 2 /\ Modulus = 2 * Half /\ MaxSeq = Modulus - 1
        /\ Depth \in Nat /\ Depth >= 1 /\ MaxFragments \in Nat /\ MaxFragments >= 1
        /\ Depth + MaxFragments <= Half
    BY Constants DEF Modulus, MaxSeq
  <1>2. History \in Nat /\ History >= 1 /\ History <= Half
    BY Ring DEF Typed
  <1>3. /\ last_unacked \in SeqNums /\ last_handled \in SeqNums /\ last_announced \in SeqNums
        /\ first_unacked \in SeqNums /\ last_sent \in SeqNums
    BY DEF Typed, ClientTyped, IInv, StreamTypeOK
  <1>4. Waiting \in 0 .. MaxSeq /\ Announced \in 0 .. MaxSeq
    BY <1>3, SubRange DEF Waiting, Announced
  <1>5. Occupancy \in Nat
    BY <1>1, <1>3 DEF Occupancy, SeqSub, SeqAdd, Wrap, SeqNums, Modulus
  <1>6. Occupancy <= Depth - 1 + MaxFragments
    BY DEF Typed, IInv, OccupancyBound
  <1> QED
    BY <1>1, <1>2, <1>3, <1>4, <1>5, <1>6

\* Ages are distances too.
LEMMA AgeRange ==
    ASSUME Typed, NEW k \in SeqNums
    PROVE  /\ Age(k) \in 0 .. MaxSeq /\ AckAge(k) \in 0 .. MaxSeq
           /\ AckAge(k) = IF Age(k) = MaxSeq THEN 0 ELSE Age(k) + 1
  <1>1. last_unacked \in SeqNums /\ 1 \in SeqNums
    BY Quantities DEF SeqNums
  <1>2. PICK u : u = SeqAdd(last_unacked, 1)
    OBVIOUS
  <1>3. u \in SeqNums
    BY <1>1, <1>2, ArithTypes
  <1>4. Age(k) \in 0 .. MaxSeq /\ AckAge(k) \in 0 .. MaxSeq
    BY <1>1, <1>2, <1>3, SubRange DEF Age, AckAge
  <1>5. u = IF last_unacked = MaxSeq THEN 0 ELSE last_unacked + 1
    BY <1>1, <1>2, Quantities DEF SeqAdd, Wrap, SeqNums
  <1>6. AckAge(k) = IF Age(k) = MaxSeq THEN 0 ELSE Age(k) + 1
    <2>1. CASE last_unacked = MaxSeq
      BY <1>1, <1>2, <1>5, <2>1, Quantities DEF Age, AckAge, SeqSub, SeqNums
    <2>2. CASE last_unacked # MaxSeq
      BY <1>1, <1>2, <1>5, <2>2, Quantities DEF Age, AckAge, SeqSub, SeqNums
    <2> QED
      BY <2>1, <2>2
  <1> QED
    BY <1>4, <1>6

\* The number d after last_handled, as long as it waits.
LEMMA AgeOfWaiting ==
    ASSUME Typed, NEW d \in 0 .. Waiting
    PROVE  /\ Wrap(last_handled + d) \in SeqNums
           /\ Age(Wrap(last_handled + d)) = Waiting - d
  BY Quantities DEF Age, Waiting, SeqSub, Wrap, SeqNums, Modulus, MaxSeq

\* Which it does if it is not too old.
LEMMA WaitingOfAge ==
    ASSUME Typed, NEW k \in SeqNums
    PROVE  /\ Age(k) <= Waiting => /\ k = Wrap(last_handled + (Waiting - Age(k)))
                                   /\ SeqSub(k, last_handled) = Waiting - Age(k)
           /\ Age(k) > Waiting => SeqSub(k, last_handled) = Waiting - Age(k) + Modulus
  BY Quantities DEF Age, Waiting, SeqSub, Wrap, SeqNums, Modulus, MaxSeq

\* The Agent holds what is young enough.
LEMMA HeldIsYoung ==
    ASSUME Typed, NEW k \in SeqNums
    PROVE  k \in DOMAIN messages <=> Age(k) < Occupancy
  <1>1. k \in DOMAIN messages <=> SeqSub(k, first_unacked) < Occupancy
    BY DEF Typed, IInv, HeldIsWindow
  <1>2. SeqSub(k, first_unacked) < Occupancy <=> Age(k) < Occupancy
    BY Quantities DEF Age, Occupancy, SeqSub, SeqAdd, Wrap, SeqNums, Modulus, MaxSeq
  <1> QED
    BY <1>1, <1>2

\* One number after another.
LEMMA WrapOn ==
    ASSUME NEW h \in SeqNums, NEW n \in Nat, NEW d \in Nat, n + d < Modulus
    PROVE  Wrap(h + n) \in SeqNums /\ Wrap(Wrap(h + n) + d) = Wrap(h + (n + d))
  BY Constants DEF Wrap, SeqNums, Modulus

\* From n numbers later everything is n nearer.
LEMMA SubOn ==
    ASSUME NEW h \in SeqNums, NEW k \in SeqNums, NEW n \in Nat, n <= SeqSub(k, h)
    PROVE  SeqSub(k, Wrap(h + n)) = SeqSub(k, h) - n
  BY Constants DEF Wrap, SeqSub, SeqNums, Modulus

\* The contents are messages.
LEMMA ContentIs ==
    ASSUME Typed, ReachInv, KeptInv, NEW d \in 1 .. Waiting
    PROVE  Content(d) \in Messages /\ Content(d) # Empty
  <1>0. Empty \notin Messages
    BY Ring DEF Typed
  <1>1. PICK k : k = Wrap(last_handled + d)
    OBVIOUS
  <1>2. k \in SeqNums /\ Age(k) = Waiting - d
    BY <1>1, AgeOfWaiting, Quantities
  <1>3. CASE k \in DOMAIN messages
    BY <1>0, <1>1, <1>3 DEF Content, Typed, IInv, StreamTypeOK
  <1>4. CASE k \notin DOMAIN messages
    <2>1. d <= Waiting - Occupancy /\ d \in 1 .. History
      BY <1>2, <1>4, HeldIsYoung, Quantities DEF ReachInv
    <2>2. At(slots, last_handled, d) # Empty
      BY <2>1 DEF KeptInv
    <2>3. At(slots, last_handled, d) \in Messages
      BY <2>1, <2>2, AtIs DEF Typed, ClientTyped
    <2> QED
      BY <1>1, <1>4, <2>2, <2>3 DEF Content
  <1> QED
    BY <1>3, <1>4

----------------------------------------------------------------------------
(* The Client's tests of a number, as long as it is not too old *)

\* uxr_receive_reliable_message takes what is next to come and has a slot.
LEMMA InWindowIs ==
    ASSUME Typed, ReachInv, NEW k \in SeqNums, Age(k) <= Half, Client!InWindow(k)
    PROVE  /\ Age(k) < Waiting /\ Waiting - Age(k) <= History /\ Waiting - Age(k) <= Half - 1
           /\ k = Wrap(last_handled + (Waiting - Age(k)))
  <1>0. /\ Half \in Nat /\ Modulus = 2 * Half /\ Waiting \in Nat /\ Age(k) \in Nat
        /\ Waiting <= Modulus - 2 /\ History \in 1 .. Half /\ last_handled \in SeqNums
    BY Quantities, AgeRange DEF ReachInv
  <1>1. PICK d : d = SeqSub(k, last_handled)
    OBVIOUS
  <1>2. PICK w : w = Wrap(last_handled + History)
    OBVIOUS
  <1>3. w \in SeqNums /\ SeqSub(w, last_handled) = History
    BY <1>0, <1>2, WrapThenSub, Quantities
  <1>4. SeqLt(last_handled, k) /\ ~SeqLt(w, k)
    <2>1. Client!ClientCmp(last_handled, k) < 0 => SeqLt(last_handled, k)
      BY ClientArith DEF Client!ClientCmp
    <2>2. Client!ClientCmp(w, k) >= 0 => ~SeqLt(w, k)
      BY <1>3, LtIsAhead, SubRange, ClientArith, <1>0 DEF Client!ClientCmp
    <2> QED
      BY <1>2, <2>1, <2>2, ClientArith DEF Client!InWindow
  <1>5. d \in 1 .. Half - 1
    BY <1>0, <1>1, <1>4, LtIsAhead
  <1>6. SeqSub(k, w) \notin 1 .. Half - 1
    BY <1>3, <1>4, LtIsAhead
  <1>7. d <= History
    <2>1. SeqSub(k, w) = SeqSub(d, History)
      BY <1>0, <1>1, <1>3, Rebase
    <2>2. d > History => SeqSub(k, w) = d - History
      BY <1>0, <1>5, <2>1 DEF SeqSub
    <2> QED
      BY <1>0, <1>5, <1>6, <2>2
  <1>8. Age(k) <= Waiting => k = Wrap(last_handled + (Waiting - Age(k))) /\ d = Waiting - Age(k)
    BY <1>1, WaitingOfAge
  <1>9. Age(k) > Waiting => d = Waiting - Age(k) + Modulus
    BY <1>1, WaitingOfAge
  <1> QED
    BY <1>0, <1>5, <1>7, <1>8, <1>9

\* The number announced last goes forwards only, and never beyond the newest.
LEMMA AnnounceIs ==
    ASSUME Typed, ReachInv, NEW k \in SeqNums, Age(k) <= Half, Client!Announce(k)
    PROVE  /\ last_announced' \in SeqNums
           /\ SeqSub(last_announced', last_handled) \in Announced .. Waiting
           /\ Age(k) < Waiting /\ Waiting - Age(k) <= Half - 1 =>
                 Waiting - Age(k) <= SeqSub(last_announced', last_handled)
  <1>0. /\ Half \in Nat /\ Modulus = 2 * Half /\ Waiting \in Nat /\ Age(k) \in Nat
        /\ Waiting <= Modulus - 2 /\ Announced \in 0 .. Waiting
        /\ last_handled \in SeqNums /\ last_announced \in SeqNums
    BY Quantities, AgeRange DEF ReachInv
  <1>1. PICK x : x = last_announced'
    OBVIOUS
  <1>2. x = IF SeqLt(last_announced, k) THEN k ELSE last_announced
    <2>1. Client!ClientCmp(last_announced, k) < 0 <=> SeqLt(last_announced, k)
      BY <1>0, LtIsAhead, SubRange, ClientArith DEF Client!ClientCmp
    <2> QED
      BY <1>1, <2>1 DEF Client!Announce
  <1>3. PICK d : d = SeqSub(k, last_handled)
    OBVIOUS
  <1>4. /\ Age(k) <= Waiting => d = Waiting - Age(k)
        /\ Age(k) > Waiting => d = Waiting - Age(k) + Modulus
        /\ d \in 0 .. Modulus - 1
    BY <1>0, <1>3, WaitingOfAge, SubRange, Quantities
  <1>5. PICK e : e = SeqSub(k, last_announced)
    OBVIOUS
  <1>6. e = SeqSub(d, Announced)
    BY <1>0, <1>3, <1>5, Rebase DEF Announced
  <1>7. /\ d >= Announced => e = d - Announced
        /\ d < Announced => e = d - Announced + Modulus
    BY <1>0, <1>4, <1>6 DEF SeqSub
  <1>8. SeqLt(last_announced, k) <=> e \in 1 .. Half - 1
    BY <1>0, <1>5, LtIsAhead
  <1>9. CASE SeqLt(last_announced, k)
    <2>1. x = k /\ e \in 1 .. Half - 1
      BY <1>2, <1>8, <1>9
    <2>2. Age(k) <= Waiting
      BY <1>0, <1>4, <1>7, <2>1
    <2>3. d \in Announced .. Waiting /\ d = Waiting - Age(k)
      BY <1>0, <1>4, <1>7, <2>1, <2>2
    <2> QED
      BY <1>1, <1>3, <2>1, <2>3
  <1>10. CASE ~SeqLt(last_announced, k)
    <2>1. x = last_announced /\ e \notin 1 .. Half - 1
      BY <1>2, <1>8, <1>10
    <2>2. SeqSub(x, last_handled) = Announced
      BY <2>1 DEF Announced
    <2>3. Age(k) < Waiting /\ Waiting - Age(k) <= Half - 1 => Waiting - Age(k) <= Announced
      BY <1>0, <1>4, <1>7, <2>1
    <2> QED
      BY <1>0, <1>1, <2>1, <2>2, <2>3
  <1> QED
    BY <1>9, <1>10

----------------------------------------------------------------------------
(* The Client delivers the next n messages *)

\* What the Client does when it hands over n messages, and when it only
\* stores one (n = 0), seen from the two windows.
Moves(n) ==
    /\ UNCHANGED streamVars
    /\ last_handled' = Wrap(last_handled + n)
    /\ slots' \in Slots
    /\ \A d \in 1 .. History :
          At(slots', last_handled', d) # Empty =>
              /\ n + d <= Waiting /\ n + d <= History
              /\ At(slots', last_handled', d) = Content(n + d)
    /\ \A d \in 1 .. History :
          n + d <= History /\ At(slots, last_handled, n + d) # Empty =>
              At(slots', last_handled', d) # Empty
    /\ n > 0 => Content(n).last

\* The windows as they are seen n numbers later.
LEMMA SeenLater ==
    ASSUME Typed, ReachInv, NEW n \in 0 .. History, n <= Waiting, Moves(n)
    PROVE  /\ last_handled' \in SeqNums /\ IInv'
           /\ Waiting' = Waiting - n /\ Occupancy' = Occupancy
           /\ \A k : Age(k)' = Age(k) /\ AckAge(k)' = AckAge(k)
  <1>1. UNCHANGED <<messages, last_unacked, last_sent, first_unacked, blocked>>
    BY DEF Moves, streamVars
  <1>2. last_handled' = Wrap(last_handled + n)
    BY DEF Moves
  <1>3. last_handled' \in SeqNums
    BY <1>2, Quantities, WrapThenSub
  <1>4. IInv'
    BY <1>1 DEF Typed, IInv, StreamTypeOK, HeldIsWindow, SentWithinWindow, OccupancyBound, Occupancy
  <1>5. Waiting' = Waiting - n
    <2>1. SeqSub(last_unacked, Wrap(last_handled + n)) = SeqSub(last_unacked, last_handled) - n
      BY Quantities, SubOn DEF Waiting
    <2> QED
      BY <1>1, <1>2, <2>1 DEF Waiting
  <1>6. Occupancy' = Occupancy /\ \A k : Age(k)' = Age(k) /\ AckAge(k)' = AckAge(k)
    BY <1>1 DEF Occupancy, Age, AckAge
  <1> QED
    BY <1>3, <1>4, <1>5, <1>6

\* What waits stays as it is.
LEMMA ContentLater ==
    ASSUME Typed, ReachInv, KeptInv, NEW n \in 0 .. History, n <= Waiting, Moves(n),
           NEW d \in 1 .. Waiting - n
    PROVE  Content(d)' = Content(n + d)
  <1>0. /\ History \in Nat /\ Waiting \in Nat /\ Waiting < Modulus /\ Modulus \in Nat
        /\ Occupancy \in Nat /\ last_handled \in SeqNums /\ n + d \in 1 .. Waiting
    BY Quantities
  <1>1. PICK k : k = Wrap(last_handled + (n + d))
    OBVIOUS
  <1>2. k \in SeqNums /\ Age(k) = Waiting - (n + d)
    BY <1>0, <1>1, AgeOfWaiting
  <1>3. Wrap(last_handled' + d) = k
    BY <1>0, <1>1, WrapOn DEF Moves
  <1>4. messages' = messages
    BY DEF Moves, streamVars
  <1>5. CASE k \in DOMAIN messages
    BY <1>1, <1>3, <1>4, <1>5 DEF Content
  <1>6. CASE k \notin DOMAIN messages
    <2>1. n + d <= Waiting - Occupancy
      BY <1>0, <1>2, <1>6, HeldIsYoung
    <2>2. n + d \in 1 .. History /\ d \in 1 .. History
      BY <1>0, <2>1 DEF ReachInv
    <2>3. At(slots, last_handled, n + d) # Empty
      BY <2>1, <2>2 DEF KeptInv
    <2>4. At(slots', last_handled', d) = Content(n + d)
      BY <2>2, <2>3 DEF Moves
    <2> QED
      BY <1>3, <1>4, <1>6, <2>4 DEF Content
  <1> QED
    BY <1>5, <1>6

\* The windows stay sound, but for what the Client has still to do.
LEMMA MovesKeep ==
    ASSUME Typed, ReachInv, KeptInv, WholeInv, NEW n \in 0 .. History, n <= Waiting, Moves(n)
    PROVE  StoredInv' /\ KeptInv' /\ WholeInv' /\ Waiting' <= Occupancy' + History - 1
  <1>0. /\ History \in Nat /\ Waiting \in Nat /\ Occupancy \in Nat
        /\ Waiting' = Waiting - n /\ Occupancy' = Occupancy
        /\ Waiting <= Occupancy + History - 1
    BY Quantities, SeenLater DEF ReachInv
  <1>1. \A d \in 1 .. Waiting - n : Content(d)' = Content(n + d)
    BY ContentLater
  <1>2. StoredInv'
    <2>1. ASSUME NEW d \in 1 .. History, At(slots', last_handled', d) # Empty
          PROVE  d <= Waiting' /\ At(slots', last_handled', d) = Content(d)'
      <3>1. n + d <= Waiting /\ At(slots', last_handled', d) = Content(n + d)
        BY <2>1 DEF Moves
      <3>2. d \in 1 .. Waiting - n
        BY <1>0, <3>1
      <3> QED
        BY <1>0, <1>1, <3>1, <3>2
    <2> QED
      BY <2>1 DEF StoredInv
  <1>3. KeptInv'
    <2>1. ASSUME NEW d \in 1 .. History, d <= Waiting' - Occupancy'
          PROVE  At(slots', last_handled', d) # Empty
      <3>1. n + d \in 1 .. History /\ n + d <= Waiting - Occupancy
        BY <1>0, <2>1
      <3>2. At(slots, last_handled, n + d) # Empty
        BY <3>1 DEF KeptInv
      <3> QED
        BY <3>1, <3>2 DEF Moves
    <2> QED
      BY <2>1 DEF KeptInv
  <1>4. ASSUME NEW w \in 1 .. Waiting', w = Waiting'
        PROVE  Content(1)'.frag = 1 /\ Content(w)'.last
    <2>1. /\ 1 \in 1 .. Waiting - n /\ n + w = Waiting
          /\ w \in 1 .. Waiting - n
      BY <1>0, <1>4
    <2>2. Content(1)' = Content(n + 1)
      BY <1>1, <2>1
    <2>3. Content(w)' = Content(Waiting)
      BY <1>1, <2>1
    <2>4. Content(n + 1).frag = 1
      <3>1. CASE n = 0
        BY <1>0, <2>1, <3>1 DEF WholeInv
      <3>2. CASE n > 0
        <4>1. n \in 1 .. Waiting /\ n + 1 <= Waiting
          BY <1>0, <2>1, <3>2
        <4>2. Content(n).last
          BY <3>2 DEF Moves
        <4>3. Follows(Content(n), Content(n + 1))
          BY <4>1 DEF WholeInv
        <4> QED
          BY <4>2, <4>3 DEF Follows
      <3> QED
        BY <1>0, <3>1, <3>2
    <2>5. Content(Waiting).last
      BY <1>0, <2>1 DEF WholeInv
    <2> QED
      BY <1>0, <2>2, <2>3, <2>4, <2>5
  <1>5. ASSUME NEW d \in 1 .. Waiting', d + 1 <= Waiting'
        PROVE  Follows(Content(d)', Content(d + 1)')
    <2>1. /\ d \in 1 .. Waiting - n /\ d + 1 \in 1 .. Waiting - n
          /\ n + d \in 1 .. Waiting /\ (n + d) + 1 <= Waiting /\ n + (d + 1) = (n + d) + 1
      BY <1>0, <1>5
    <2>2. Content(d)' = Content(n + d) /\ Content(d + 1)' = Content((n + d) + 1)
      BY <1>1, <2>1
    <2>3. Follows(Content(n + d), Content((n + d) + 1))
      BY <2>1 DEF WholeInv
    <2> QED
      BY <2>2, <2>3
  <1>6. WholeInv'
    <2>1. PICK w : w = Waiting'
      OBVIOUS
    <2>2. w \in Nat
      BY <1>0, <2>1
    <2>3. w > 0 => Content(1)'.frag = 1 /\ Content(w)'.last
      BY <1>4, <2>1, <2>2
    <2>4. Waiting' > 0 => Content(1)'.frag = 1 /\ Content(Waiting)'.last
      BY <2>1, <2>3
    <2>5. \A d \in 1 .. Waiting' : d + 1 <= Waiting' => Follows(Content(d)', Content(d + 1)')
      BY <1>5
    <2> QED
      BY <2>4, <2>5 DEF WholeInv, Follows
  <1> QED
    BY <1>0, <1>2, <1>3, <1>6

\* So does what is under way.
LEMMA PacketsLater ==
    ASSUME Typed, ReachInv, KeptInv, NEW n \in 0 .. History, n <= Waiting, Moves(n),
           NEW p, PacketOK(p)
    PROVE  PacketOK(p)'
  <1>0. /\ History \in Nat /\ Waiting \in Nat
        /\ Waiting' = Waiting - n
        /\ \A k : Age(k)' = Age(k) /\ AckAge(k)' = AckAge(k)
    BY Quantities, SeenLater
  <1>1. CASE p.type = "DATA" /\ DataOK(p)
    <2>1. p.num \in SeqNums /\ Age(p.num) \in Nat /\ Age(p.num)' = Age(p.num)
      BY <1>0, <1>1, AgeRange, Quantities DEF DataOK
    <2>2. ASSUME Age(p.num) < Waiting - n, NEW d, d = Waiting' - Age(p.num)'
          PROVE  p.msg = Content(d)'
      <3>1. d \in 1 .. Waiting - n /\ n + d = Waiting - Age(p.num)
        BY <1>0, <2>1, <2>2
      <3>2. Content(d)' = Content(Waiting - Age(p.num))
        BY <3>1, ContentLater
      <3> QED
        BY <1>0, <1>1, <2>1, <2>2, <3>2 DEF DataOK
    <2>3. DataOK(p)'
      <3>1. PICK d : d = Waiting' - Age(p.num)'
        OBVIOUS
      <3>2. Age(p.num)' < Waiting' => p.msg = Content(Waiting - Age(p.num))'
        BY <1>0, <2>1, <2>2, <3>1
      <3> QED
        BY <1>0, <1>1, <2>1, <3>2 DEF DataOK
    <2> QED
      BY <1>1, <2>3 DEF PacketOK
  <1>2. CASE p.type = "HEARTBEAT" /\ HeartbeatOK(p)
    BY <1>0, <1>2 DEF PacketOK, HeartbeatOK
  <1>3. CASE p.type = "ACKNACK" /\ AcknackOK(p)
    <2>1. PICK a : a = AckAge(p.ack.first)
      OBVIOUS
    <2>2. a \in Nat /\ a <= Half + 1 /\ p.ack.first \in SeqNums
      BY <1>3, <2>1, AgeRange, Quantities DEF AcknackOK
    <2>3. \/ a > Waiting - n
          \/ /\ (Waiting - n) + 1 - a <= History
             /\ \A d \in 1 .. (Waiting - n) - a : At(slots', last_handled', d) # Empty
      <3>1. CASE a > Waiting - n
        BY <3>1
      <3>2. CASE ~(a > Waiting - n)
        <4>1. /\ Waiting + 1 - a <= History
              /\ \A d \in 1 .. Waiting - a : At(slots, last_handled, d) # Empty
          BY <1>0, <1>3, <2>1, <2>2, <3>2 DEF AcknackOK
        <4>2. ASSUME NEW d \in 1 .. (Waiting - n) - a
              PROVE  At(slots', last_handled', d) # Empty
          <5>1. n + d \in 1 .. Waiting - a /\ n + d <= History /\ d \in 1 .. History
            BY <1>0, <2>2, <4>1
          <5> QED
            BY <4>1, <5>1 DEF Moves
        <4> QED
          BY <1>0, <2>2, <4>1, <4>2
      <3> QED
        BY <3>1, <3>2
    <2>4. AcknackOK(p)'
      BY <1>0, <2>1, <2>2, <2>3 DEF AcknackOK
    <2> QED
      BY <1>3, <2>4 DEF PacketOK
  <1> QED
    BY <1>1, <1>2, <1>3 DEF PacketOK

\* The slots s are those of the stream, or those and what has just come.
Fits(s) ==
    /\ s \in Slots
    /\ \A i \in 0 .. History - 1 : slots[i] # Empty => s[i] = slots[i]
    /\ \A d \in 1 .. History :
          At(s, last_handled, d) # Empty =>
              d <= Waiting /\ At(s, last_handled, d) = Content(d)

\* The n messages at the head of s are handed over.
Delivers(s, n) ==
    /\ n \in 0 .. History
    /\ last_handled' = Wrap(last_handled + n)
    /\ slots' = Freed(s, last_handled, n)
    /\ \A d \in 1 .. n :
          At(s, last_handled, d) # Empty /\ Handed(delivered', At(s, last_handled, d))
    /\ n > 0 => At(s, last_handled, n).last
    /\ delivered' \in Seq(Seq(Messages))
    /\ Cut(s, last_handled, 0, n, delivered')

\* A delivery moves the Client by what it hands over.
LEMMA DeliversMoves ==
    ASSUME Typed, ReachInv, NEW s, Fits(s), NEW n, Delivers(s, n), UNCHANGED streamVars
    PROVE  n \in 0 .. History /\ n <= Waiting /\ Moves(n)
  <1>0. /\ History \in Nat \ {0} /\ Waiting \in Nat /\ last_handled \in SeqNums
        /\ n \in 0 .. History /\ s \in Slots
        /\ last_handled' = Wrap(last_handled + n) /\ slots' = Freed(s, last_handled, n)
    BY Ring, Quantities DEF Typed, Fits, Delivers
  <1>1. n > 0 => n <= Waiting /\ At(s, last_handled, n) = Content(n) /\ Content(n).last
    BY <1>0 DEF Fits, Delivers
  <1>2. ASSUME NEW d \in 1 .. History
        PROVE  At(slots', last_handled', d) =
                   IF n + d <= History THEN At(s, last_handled, n + d) ELSE Empty
    BY <1>0, FreedAt DEF Typed
  <1>3. slots' \in Slots
    BY <1>0, FreedAt DEF Typed
  <1>4. ASSUME NEW d \in 1 .. History, At(slots', last_handled', d) # Empty
        PROVE  /\ n + d <= Waiting /\ n + d <= History
               /\ At(slots', last_handled', d) = Content(n + d)
    <2>1. n + d <= History /\ At(slots', last_handled', d) = At(s, last_handled, n + d)
      BY <1>2, <1>4
    <2>2. n + d \in 1 .. History
      BY <1>0, <2>1
    <2> QED
      BY <1>4, <2>1, <2>2 DEF Fits
  <1>5. ASSUME NEW d \in 1 .. History, n + d <= History, At(slots, last_handled, n + d) # Empty
        PROVE  At(slots', last_handled', d) # Empty
    <2>1. n + d \in 1 .. History
      BY <1>0, <1>5
    <2>2. Place(last_handled, n + d) \in 0 .. History - 1
      BY <1>0, <2>1, PlaceInjective DEF Typed
    <2>3. At(s, last_handled, n + d) = At(slots, last_handled, n + d)
      BY <1>5, <2>2 DEF Fits, At
    <2> QED
      BY <1>2, <1>5, <2>3
  <1> QED
    BY <1>0, <1>1, <1>3, <1>4, <1>5 DEF Moves

\* Nothing stored is dropped by it.
LEMMA DeliversKeepsStored ==
    ASSUME Typed, NEW s, Fits(s), NEW n, Delivers(s, n), NEW i \in 0 .. History - 1, slots[i] # Empty
    PROVE  slots'[i] = slots[i] \/ Handed(delivered', slots[i])
  <1>1. s[i] = slots[i]
    BY DEF Fits
  <1>2. slots'[i] = IF \E d \in 1 .. n : i = Place(last_handled, d) THEN Empty ELSE s[i]
    BY DEF Delivers, Freed
  <1>3. ASSUME NEW d \in 1 .. n, i = Place(last_handled, d) PROVE Handed(delivered', slots[i])
    BY <1>1, <1>3 DEF Delivers, At
  <1> QED
    BY <1>1, <1>2, <1>3

\* check_last_fragment finds the end of a submessage.
LEMMA LastFoundIs ==
    ASSUME ClientAssumption, NEW s \in Slots, NEW h \in SeqNums, NEW r, r = Client!Run(s, h)
    PROVE  Client!LastFragmentFound(s, h) <=>
               r < History /\ At(s, h, r + 1) # Empty /\ At(s, h, r + 1).frag > 1
  <1>0. History \in Nat \ {0} /\ r \in 0 .. History /\ RunOf(s, h, r)
    BY Ring, RunIs
  <1>1. r < History /\ At(s, h, r + 1) # Empty => At(s, h, r + 1) \in Messages
    BY <1>0, AtIs
  <1>2. r < History /\ At(s, h, r + 1) # Empty => At(s, h, r + 1).last
    BY <1>0 DEF RunOf, Middle
  <1> QED
    BY <1>1, <1>2, ClientAt, KindIs DEF Client!LastFragmentFound

\* A message beyond what is complete leaves it as it is.
LEMMA UnitsKept ==
    ASSUME ClientAssumption, NEW s \in Slots, NEW t \in Slots, NEW h \in SeqNums,
           NEW u, u = Client!Units(t, h), \A d \in 1 .. u : At(s, h, d) = At(t, h, d), u # 0
    PROVE  Client!Units(s, h) = u
  <1>0. History \in Nat \ {0}
    BY Ring
  <1>1. PICK r : r = Client!Run(t, h)
    OBVIOUS
  <1>2. r \in 0 .. History /\ RunOf(t, h, r)
    BY <1>1, RunIs
  <1>3. /\ u = r + 1 /\ r < History /\ At(t, h, r + 1) # Empty
        /\ r = 0 \/ At(t, h, r + 1).frag > 1
    BY <1>1, UnitsIs
  <1>4. \A d \in 1 .. r + 1 : At(s, h, d) = At(t, h, d)
    BY <1>3
  <1>5. RunOf(s, h, r)
    BY <1>0, <1>2, <1>4 DEF RunOf, Middle
  <1>6. r = Client!Run(s, h)
    BY <1>2, <1>5, RunIs
  <1>7. At(s, h, r + 1) = At(t, h, r + 1)
    BY <1>2, <1>4
  <1> QED
    BY <1>3, <1>6, <1>7, UnitsIs

\* Nothing complete is at the head, and the loop of check_last_fragment ends.
Rested ==
    Client!Units(slots, last_handled) = 0 /\ ~Client!NeverEnds(slots, last_handled)

SlotIsFree == \E d \in 1 .. History : At(slots, last_handled, d) = Empty

\* Then a slot is free.
LEMMA SlotFree == Typed /\ ReachInv /\ StoredInv /\ WholeInv /\ Rested => SlotIsFree
  <1> SUFFICES ASSUME Typed, ReachInv, StoredInv, WholeInv, Client!Units(slots, last_handled) = 0,
                      ~Client!NeverEnds(slots, last_handled),
                      \A d \in 1 .. History : At(slots, last_handled, d) # Empty
               PROVE  FALSE
    BY DEF Rested, SlotIsFree
  <1>0. /\ History \in Nat \ {0} /\ Waiting \in Nat /\ slots \in Slots /\ last_handled \in SeqNums
        /\ ClientAssumption
    BY Ring, Quantities DEF Typed, ClientTyped
  <1>1. PICK r : r = Client!Run(slots, last_handled)
    OBVIOUS
  <1>2. r \in 0 .. History - 1 /\ RunOf(slots, last_handled, r)
    BY <1>0, <1>1, RunIs DEF Client!NeverEnds
  <1>3. r # 0 /\ ~(At(slots, last_handled, r + 1).frag > 1)
    BY <1>0, <1>1, <1>2, UnitsIs
  <1>4. /\ r \in 1 .. History /\ r + 1 \in 1 .. History
        /\ ~At(slots, last_handled, r).last
    BY <1>0, <1>2, <1>3 DEF RunOf, Middle
  <1>5. /\ r \in 1 .. Waiting /\ r + 1 <= Waiting
        /\ At(slots, last_handled, r) = Content(r) /\ At(slots, last_handled, r + 1) = Content(r + 1)
    BY <1>0, <1>4 DEF StoredInv
  <1>6. Content(r + 1).frag = Content(r).frag + 1
    BY <1>4, <1>5 DEF WholeInv, Follows
  <1>7. Content(r).frag \in Nat /\ Content(r).frag >= 1
    <2>1. At(slots, last_handled, r) \in Messages
      BY <1>0, <1>4, AtIs
    <2> QED
      BY <1>5, <2>1, Constants DEF Messages
  <1> QED
    BY <1>3, <1>5, <1>6, <1>7

----------------------------------------------------------------------------
(* The handlers of the Client *)

\* With a slot free the loop of check_last_fragment ends.
LEMMA FreeEnds ==
    ASSUME ClientAssumption, NEW s \in Slots, NEW h \in SeqNums, NEW d \in 1 .. History,
           At(s, h, d) = Empty
    PROVE  ~Client!NeverEnds(s, h)
  BY RunIs DEF RunOf, Middle, Client!NeverEnds

\* The slots with the message of number k, which waits for its turn in place d.
Puts(s, k, m, d) ==
    /\ s = [slots EXCEPT ![Client!SlotOf(k)] = m]
    /\ d \in 1 .. History /\ d <= Waiting /\ d <= Half - 1
    /\ k = Wrap(last_handled + d)
    /\ m \in Messages /\ m = Content(d)
    /\ At(slots, last_handled, d) = Empty
    /\ At(s, last_handled, d) = m
    /\ \A e \in 1 .. History : e # d => At(s, last_handled, e) = At(slots, last_handled, e)

\* A message that finds its slot free has its turn to wait for.
LEMMA PutsIs ==
    ASSUME Typed, ReachInv, NEW p, DataOK(p), Client!InWindow(p.num),
           slots[Client!SlotOf(p.num)] = Empty,
           NEW s, s = [slots EXCEPT ![Client!SlotOf(p.num)] = p.msg]
    PROVE  Puts(s, p.num, p.msg, Waiting - Age(p.num))
  <1>0. /\ p.num \in SeqNums /\ p.msg \in Messages /\ Age(p.num) <= Half
        /\ Age(p.num) < Waiting => p.msg = Content(Waiting - Age(p.num))
    BY DEF DataOK
  <1>1. PICK d : d = Waiting - Age(p.num)
    OBVIOUS
  <1>2. /\ Age(p.num) < Waiting /\ d <= History /\ d <= Half - 1
        /\ p.num = Wrap(last_handled + d)
    BY <1>0, <1>1, InWindowIs
  <1>3. d \in 1 .. History /\ d <= Waiting
    BY <1>0, <1>1, <1>2, Quantities, AgeRange
  <1>4. PICK i : i = Client!SlotOf(p.num)
    OBVIOUS
  <1>5. i = Place(last_handled, d)
    BY <1>2, <1>4 DEF Place
  <1>6. /\ i \in 0 .. History - 1
        /\ \A e \in 1 .. History : e # d => Place(last_handled, e) # i
        /\ \A e \in 1 .. History : Place(last_handled, e) \in 0 .. History - 1
    BY <1>3, <1>5, PlaceInjective, Quantities DEF Typed
  <1>7. slots \in Slots
    BY DEF Typed, ClientTyped
  <1>8. /\ s[i] = p.msg
        /\ \A j \in 0 .. History - 1 : j # i => s[j] = slots[j]
    BY <1>4, <1>6, <1>7 DEF Slots
  <1>9. At(slots, last_handled, d) = Empty /\ At(s, last_handled, d) = p.msg
    BY <1>4, <1>5, <1>8 DEF At
  <1>10. \A e \in 1 .. History : e # d => At(s, last_handled, e) = At(slots, last_handled, e)
    BY <1>6, <1>8 DEF At
  <1>11. Puts(s, p.num, p.msg, d)
    BY <1>0, <1>1, <1>2, <1>3, <1>9, <1>10 DEF Puts
  <1> QED
    BY <1>1, <1>11

\* It fits.
LEMMA PutsFits ==
    ASSUME Typed, StoredInv, NEW s, NEW k, NEW m, NEW d, Puts(s, k, m, d)
    PROVE  Fits(s)
  <1>1. slots \in Slots /\ last_handled \in SeqNums
    BY DEF Typed, ClientTyped
  <1>2. PICK i : i = Client!SlotOf(k)
    OBVIOUS
  <1>3. i = Place(last_handled, d) /\ i \in 0 .. History - 1
    BY <1>1, <1>2, PlaceInjective DEF Puts, Place, Typed
  <1>4. s = [slots EXCEPT ![i] = m] /\ m \in Messages /\ slots[i] = Empty
    BY <1>2, <1>3 DEF Puts, At
  <1>5. s \in Slots /\ \A j \in 0 .. History - 1 : slots[j] # Empty => s[j] = slots[j]
    BY <1>1, <1>3, <1>4 DEF Slots
  <1>6. ASSUME NEW e \in 1 .. History, At(s, last_handled, e) # Empty
        PROVE  e <= Waiting /\ At(s, last_handled, e) = Content(e)
    <2>1. CASE e = d
      BY <2>1 DEF Puts
    <2>2. CASE e # d
      <3>1. At(s, last_handled, e) = At(slots, last_handled, e)
        BY <2>2 DEF Puts
      <3> QED
        BY <1>6, <3>1 DEF StoredInv
    <2> QED
      BY <2>1, <2>2
  <1> QED
    BY <1>5, <1>6 DEF Fits

\* The slots as they are fit as well.
LEMMA SlotsFit == ASSUME Typed, StoredInv PROVE Fits(slots)
  BY DEF Fits, StoredInv, Typed, ClientTyped

\* read_stream hands over what has become complete.
LEMMA DeliverFromIs ==
    ASSUME ClientAssumption, NEW s \in Slots, NEW h \in SeqNums, NEW out \in Seq(Seq(Messages)),
           Client!DeliverFrom(s, h, out)
    PROVE  \E n \in 0 .. History :
              /\ last_handled' = Wrap(h + n) /\ slots' = Freed(s, h, n)
              /\ \A d \in 1 .. n : At(s, h, d) # Empty /\ Handed(delivered', At(s, h, d))
              /\ n > 0 => At(s, h, n).last
              /\ delivered' \in Seq(Seq(Messages))
              /\ \A u \in DOMAIN out : u \in DOMAIN delivered' /\ delivered'[u] = out[u]
              /\ Cut(s, h, Len(out), n, delivered')
              /\ Client!Units(slots', last_handled') = 0
  <1>1. PICK st : st = Client!Drain([slots |-> s, handled |-> h, out |-> out])
    OBVIOUS
  <1>2. slots' = st.slots /\ last_handled' = st.handled /\ delivered' = st.out
    BY <1>1 DEF Client!DeliverFrom
  <1>3. PICK n \in 0 .. History :
           /\ Drained(s, h, n, st)
           /\ \A u \in DOMAIN out : u \in DOMAIN st.out /\ st.out[u] = out[u]
           /\ Cut(s, h, Len(out), n, st.out)
           /\ Client!Units(st.slots, st.handled) = 0
    BY <1>1, DrainIs
  <1> QED
    BY <1>2, <1>3 DEF Drained

\* What the handlers leave, when they hand over n messages of the slots s:
\* nothing complete, and everything stored announced.
Takes(s, n) ==
    /\ Fits(s) /\ Delivers(s, n)
    /\ ~spinning' =>
          /\ Client!Units(slots', last_handled') = 0
          /\ ~Client!NeverEnds(slots', last_handled')
          /\ \A d \in 1 .. History :
                At(s, last_handled, d) # Empty => d <= SeqSub(last_announced', last_handled)
    /\ last_announced' \in SeqNums
    /\ SeqSub(last_announced', last_handled) \in Announced .. Waiting
    /\ spinning' \in BOOLEAN
    /\ spinning' => n = 0
    /\ spinning = FALSE

\* A delivery of nothing.
LEMMA DeliversNothing ==
    ASSUME Typed, NEW s \in Slots, slots' = s, UNCHANGED last_handled,
           delivered' = <<>>
    PROVE  Delivers(s, 0)
  <1>1. Freed(s, last_handled, 0) = s
    BY DEF Freed, Slots
  <1>2. Wrap(last_handled + 0) = last_handled
    BY Quantities DEF SeqNums, Wrap
  <1>3. History \in Nat
    BY Quantities
  <1>4. delivered' \in Seq(Seq(Messages)) /\ Len(delivered') = 0
    OBVIOUS
  <1>5. Cut(s, last_handled, 0, 0, delivered')
    <2>1. PICK out : out = delivered'
      OBVIOUS
    <2>2. PICK cut : cut = [i \in 0 .. 0 |-> 0]
      OBVIOUS
    <2>3. CutAt(s, last_handled, 0, 0, out, cut)
      BY <1>4, <2>1, <2>2 DEF CutAt
    <2> QED
      BY <1>4, <2>1, <2>3 DEF Cut
  <1> QED
    BY <1>1, <1>2, <1>3, <1>4, <1>5 DEF Delivers

\* A heartbeat, and a message that is not stored.
LEMMA IgnoredIs ==
    ASSUME Typed, WindowsInv, NEW k \in SeqNums, Age(k) <= Half, ~spinning,
           Client!Announce(k), delivered' = <<>>, UNCHANGED <<slots, last_handled, spinning>>
    PROVE  Takes(slots, 0)
  <1>1. /\ last_announced' \in SeqNums
        /\ SeqSub(last_announced', last_handled) \in Announced .. Waiting
    BY AnnounceIs DEF WindowsInv
  <1>2. Fits(slots)
    BY SlotsFit DEF WindowsInv
  <1>3. slots \in Slots /\ last_handled \in SeqNums /\ spinning \in BOOLEAN
    BY DEF Typed, ClientTyped
  <1>4. Delivers(slots, 0)
    BY <1>3, DeliversNothing
  <1>5. ~Client!NeverEnds(slots, last_handled) /\ Client!Units(slots, last_handled) = 0
    BY <1>3, FreeEnds DEF WindowsInv, IdleInv, Typed
  <1>6. PICK a : a = SeqSub(last_announced', last_handled)
    OBVIOUS
  <1>7. Announced \in Int /\ Waiting \in Int
    BY Quantities
  <1>8. \A d \in 1 .. History : At(slots, last_handled, d) # Empty => d <= a
    BY <1>1, <1>6, <1>7, Quantities DEF WindowsInv, AnnouncedInv
  <1> QED
    BY <1>1, <1>2, <1>3, <1>4, <1>5, <1>6, <1>8 DEF Takes

\* A message that completes nothing.
LEMMA CompletesNothing ==
    ASSUME Typed, NEW s \in Slots, NEW k, NEW m, NEW d, Puts(s, k, m, d),
           Client!Units(slots, last_handled) = 0,
           d = 1 => Client!Fragmentation(m) # "NO_FRAGMENTED",
           Client!Fragmentation(m) # "NO_FRAGMENTED" => ~Client!LastFragmentFound(s, last_handled)
    PROVE  Client!Units(s, last_handled) = 0
  <1>0. /\ ClientAssumption /\ History \in Nat \ {0}
        /\ slots \in Slots /\ last_handled \in SeqNums /\ d \in 1 .. History
        /\ m \in Messages /\ m.last \in BOOLEAN /\ m.frag \in Nat /\ m.frag >= 1
    BY Ring, Constants DEF Typed, ClientTyped, Puts, Messages
  <1>1. PICK u : u = Client!Units(s, last_handled)
    OBVIOUS
  <1>2. PICK r : r = Client!Run(s, last_handled)
    OBVIOUS
  <1>3. /\ u \in 0 .. History
        /\ \A e \in 1 .. u : At(s, last_handled, e).last <=> e = u
    BY <1>0, <1>1, UnitIsWhole
  <1>4. u # 0 => /\ u = r + 1 /\ r < History /\ At(s, last_handled, u) # Empty
                 /\ r = 0 \/ At(s, last_handled, u).frag > 1
    BY <1>0, <1>1, <1>2, UnitsIs
  <1>5. r \in 0 .. History
    BY <1>0, <1>2, RunIs
  <1> SUFFICES ASSUME u # 0 PROVE FALSE
    BY <1>1
  <1>6. CASE d \in 1 .. u
    <2>1. At(s, last_handled, d) = m
      BY DEF Puts
    <2>2. CASE Client!Fragmentation(m) # "NO_FRAGMENTED"
      <3>1. ~(At(s, last_handled, u).frag > 1)
        BY <1>0, <1>2, <1>4, <2>2, LastFoundIs
      <3>2. u = 1 /\ d = 1
        BY <1>4, <1>5, <1>6, <3>1
      <3>3. m.last /\ m.frag = 1
        BY <1>0, <1>3, <2>1, <3>1, <3>2
      <3> QED
        BY <1>0, <2>2, <3>3, KindIs
    <2>3. CASE Client!Fragmentation(m) = "NO_FRAGMENTED"
      <3>1. m.last /\ m.frag = 1
        BY <1>0, <2>3, KindIs
      <3>2. d = u
        BY <1>3, <1>6, <2>1, <3>1
      <3>3. u = 1
        BY <1>4, <1>5, <2>1, <3>1, <3>2
      <3> QED
        BY <2>3, <3>2, <3>3
    <2> QED
      BY <2>2, <2>3
  <1>7. CASE d \notin 1 .. u
    <2>1. \A e \in 1 .. u : At(slots, last_handled, e) = At(s, last_handled, e)
      <3>1. \A e \in 1 .. u : e \in 1 .. History /\ e # d
        BY <1>0, <1>3, <1>7
      <3> QED
        BY <3>1 DEF Puts
    <2>2. Client!Units(slots, last_handled) = u
      BY <1>0, <1>1, <2>1, UnitsKept
    <2> QED
      BY <2>2
  <1> QED
    BY <1>6, <1>7

\* What has been announced, with the message that has just come.
LEMMA AllAnnounced ==
    ASSUME Typed, WindowsInv, ~spinning, NEW p, DataOK(p), NEW s, NEW d, d = Waiting - Age(p.num),
           Puts(s, p.num, p.msg, d), Client!Announce(p.num)
    PROVE  /\ last_announced' \in SeqNums
           /\ SeqSub(last_announced', last_handled) \in Announced .. Waiting
           /\ d <= SeqSub(last_announced', last_handled)
           /\ \A e \in 1 .. History :
                 At(s, last_handled, e) # Empty => e <= SeqSub(last_announced', last_handled)
  <1>1. PICK a : a = SeqSub(last_announced', last_handled)
    OBVIOUS
  <1>2. /\ p.num \in SeqNums /\ Age(p.num) <= Half /\ Age(p.num) \in Int
        /\ d \in 1 .. History /\ d <= Half - 1 /\ Waiting \in Int /\ Announced \in Int
    BY Quantities, AgeRange DEF DataOK, Puts
  <1>3. last_announced' \in SeqNums /\ a \in Announced .. Waiting /\ d <= a
    <2>1. Age(p.num) < Waiting /\ Waiting - Age(p.num) <= Half - 1
      BY <1>2
    <2> QED
      BY <1>1, <1>2, <2>1, AnnounceIs DEF WindowsInv
  <1>4. ASSUME NEW e \in 1 .. History, At(s, last_handled, e) # Empty PROVE e <= a
    <2>1. CASE e = d
      BY <1>3, <2>1
    <2>2. CASE e # d
      <3>1. At(slots, last_handled, e) # Empty
        BY <1>4, <2>2 DEF Puts
      <3>2. e <= Announced
        BY <3>1 DEF WindowsInv, AnnouncedInv
      <3> QED
        BY <1>2, <1>3, <3>2
    <2> QED
      BY <2>1, <2>2
  <1> QED
    BY <1>1, <1>3, <1>4

\* What the loop leaves has a slot free.
LEMMA FreeAfter ==
    ASSUME ClientAssumption, NEW s \in Slots, NEW h \in SeqNums, NEW n \in 1 .. History
    PROVE  ~Client!NeverEnds(Freed(s, h, n), Wrap(h + n))
  <1>1. History \in 1 .. History /\ n \in 0 .. History /\ ~(n + History <= History)
    BY Ring
  <1>2. Freed(s, h, n) \in Slots /\ Wrap(h + n) \in SeqNums
    BY <1>1, FreedAt, PlaceMoves
  <1>3. At(Freed(s, h, n), Wrap(h + n), History) = Empty
    BY <1>1, FreedAt
  <1> QED
    BY <1>1, <1>2, <1>3, FreeEnds

\* A message that is stored.
LEMMA StoredIs ==
    ASSUME Typed, WindowsInv, NEW p, DataOK(p), Client!ReceiveStored(p.num, p.msg)
    PROVE  \E s, n : Takes(s, n)
  <1>1. PICK s : s = [slots EXCEPT ![Client!SlotOf(p.num)] = p.msg]
    OBVIOUS
  <1>2. PICK d : d = Waiting - Age(p.num)
    OBVIOUS
  <1> DEFINE fragment == Client!Fragmentation(p.msg) # "NO_FRAGMENTED"
  <1>3. /\ ~spinning /\ Client!InWindow(p.num) /\ slots[Client!SlotOf(p.num)] = Empty
        /\ fragment \/ p.num # Client!ClientAdd(last_handled, 1)
        /\ IF fragment /\ Client!NeverEnds(s, last_handled)
           THEN /\ spinning' = TRUE
                /\ slots' = s
                /\ delivered' = <<>>
                /\ UNCHANGED <<last_handled, last_announced>>
           ELSE /\ IF fragment /\ Client!LastFragmentFound(s, last_handled)
                   THEN Client!DeliverFrom(s, last_handled, <<>>)
                   ELSE /\ slots' = s
                        /\ delivered' = <<>>
                        /\ UNCHANGED last_handled
                /\ Client!Announce(p.num)
                /\ UNCHANGED spinning
    BY <1>1 DEF Client!ReceiveStored
  <1>4. Puts(s, p.num, p.msg, d)
    BY <1>1, <1>2, <1>3, PutsIs DEF WindowsInv
  <1>5. Fits(s)
    BY <1>4, PutsFits DEF WindowsInv
  <1>6. /\ ClientAssumption /\ s \in Slots /\ slots \in Slots /\ last_handled \in SeqNums
        /\ spinning = FALSE /\ p.msg \in Messages /\ last_announced \in SeqNums
    BY <1>3, <1>5 DEF Typed, ClientTyped, Fits, DataOK
  <1> HIDE DEF fragment
  <1>7. CASE fragment /\ Client!NeverEnds(s, last_handled)
    <2>1. slots' = s /\ delivered' = <<>> /\ UNCHANGED <<last_handled, last_announced>> /\ spinning' = TRUE
      BY <1>3, <1>7
    <2>2. Delivers(s, 0)
      BY <1>6, <2>1, DeliversNothing
    <2>3. SeqSub(last_announced', last_handled) \in Announced .. Waiting
      BY <2>1, Quantities DEF WindowsInv, ReachInv, Announced
    <2> QED
      BY <1>5, <1>6, <2>1, <2>2, <2>3 DEF Takes
  <1>8. CASE ~(fragment /\ Client!NeverEnds(s, last_handled))
    <2>1. Client!Announce(p.num) /\ UNCHANGED spinning
      BY <1>3, <1>8
    <2>2. /\ last_announced' \in SeqNums
          /\ SeqSub(last_announced', last_handled) \in Announced .. Waiting
          /\ \A e \in 1 .. History :
                At(s, last_handled, e) # Empty => e <= SeqSub(last_announced', last_handled)
      BY <1>2, <1>3, <1>4, <2>1, AllAnnounced
    <2>3. CASE fragment /\ Client!LastFragmentFound(s, last_handled)
      <3>1. Client!DeliverFrom(s, last_handled, <<>>)
        BY <1>3, <1>8, <2>3
      <3>2. <<>> \in Seq(Seq(Messages))
        OBVIOUS
      <3>3. PICK n \in 0 .. History :
              /\ last_handled' = Wrap(last_handled + n) /\ slots' = Freed(s, last_handled, n)
              /\ \A e \in 1 .. n :
                    At(s, last_handled, e) # Empty /\ Handed(delivered', At(s, last_handled, e))
              /\ n > 0 => At(s, last_handled, n).last
              /\ delivered' \in Seq(Seq(Messages))
              /\ Cut(s, last_handled, Len(<<>>), n, delivered')
              /\ Client!Units(slots', last_handled') = 0
        BY <1>6, <3>1, <3>2, DeliverFromIs
      <3>4. ~Client!NeverEnds(slots', last_handled')
        <4>1. CASE n = 0
          <5>1. Freed(s, last_handled, 0) = s
            BY <1>6 DEF Freed, Slots
          <5>2. Wrap(last_handled + 0) = last_handled
            BY Quantities DEF SeqNums, Wrap
          <5>3. slots' = s /\ last_handled' = last_handled
            BY <3>3, <4>1, <5>1, <5>2
          <5> QED
            BY <1>8, <2>3, <5>3
        <4>2. CASE n # 0
          <5>1. n \in 1 .. History
            BY <4>2, Quantities
          <5> QED
            BY <1>6, <3>3, <5>1, FreeAfter
        <4> QED
          BY <4>1, <4>2
      <3>5. Delivers(s, n)
        <4>1. Len(<<>>) = 0
          OBVIOUS
        <4> QED
          BY <3>3, <4>1 DEF Delivers
      <3> QED
        BY <1>5, <1>6, <2>1, <2>2, <3>3, <3>4, <3>5 DEF Takes
    <2>4. CASE ~(fragment /\ Client!LastFragmentFound(s, last_handled))
      <3>1. slots' = s /\ delivered' = <<>> /\ UNCHANGED last_handled
        BY <1>3, <1>8, <2>4
      <3>2. Delivers(s, 0)
        BY <1>6, <3>1, DeliversNothing
      <3>3. d = 1 => fragment
        BY <1>3, <1>4, ClientArith DEF Puts
      <3>4. Client!Units(s, last_handled) = 0
        BY <1>3, <1>4, <1>6, <2>4, <3>3, CompletesNothing DEF fragment, WindowsInv, IdleInv
      <3>5. ~Client!NeverEnds(s, last_handled)
        <4>1. CASE fragment
          BY <1>8, <4>1
        <4>2. CASE ~fragment
          <5>1. p.msg.last
            BY <1>6, <4>2, KindIs DEF fragment
          <5>2. d \in 1 .. History /\ ~Middle(s, last_handled, d)
            BY <1>4, <5>1 DEF Puts, Middle
          <5> QED
            BY <1>6, <5>2, RunIs DEF RunOf, Client!NeverEnds
        <4> QED
          BY <4>1, <4>2
      <3> QED
        BY <1>5, <1>6, <2>1, <2>2, <3>1, <3>2, <3>4, <3>5 DEF Takes
    <2> QED
      BY <2>3, <2>4
  <1> QED
    BY <1>7, <1>8

\* A message before the units is a unit of its own.
LEMMA CutFurther ==
    ASSUME NEW s, NEW h, NEW t, NEW k, NEW n \in Nat, NEW out \in Seq(Seq(Messages)), NEW m, m.last,
           1 \in DOMAIN out, out[1] = <<m>>, At(s, h, 1) = m, Cut(t, k, 1, n, out),
           \A e \in 1 .. n : At(t, k, e) = At(s, h, 1 + e)
    PROVE  Cut(s, h, 0, 1 + n, out)
  <1>1. PICK l \in Nat : l = Len(out)
    OBVIOUS
  <1>2. PICK cut : CutAt(t, k, 1, n, out, cut)
    BY DEF Cut
  <1>3. /\ cut \in [1 .. l -> 0 .. n] /\ cut[1] = 0 /\ cut[l] = n /\ l >= 1
        /\ \A i \in 2 .. l : IsUnit(t, k, cut[i - 1], cut[i], out[i])
    BY <1>1, <1>2 DEF CutAt
  <1>4. PICK next : next = [i \in 0 .. l |-> IF i = 0 THEN 0 ELSE 1 + cut[i]]
    OBVIOUS
  <1>5. /\ next \in [0 .. l -> 0 .. 1 + n] /\ next[0] = 0
        /\ \A i \in 1 .. l : next[i] = 1 + cut[i] /\ cut[i] \in 0 .. n
    BY <1>3, <1>4
  <1>6. ASSUME NEW i \in 1 .. l PROVE IsUnit(s, h, next[i - 1], next[i], out[i])
    <2>1. CASE i = 1
      <3>1. Len(<<m>>) = 1 /\ <<m>>[1] = m /\ next[1] = 1 /\ next[0] = 0
        BY <1>3, <1>5
      <3>2. IsUnit(s, h, 0, 1, <<m>>)
        BY <3>1 DEF IsUnit
      <3>3. i - 1 = 0 /\ out[i] = <<m>>
        BY <2>1
      <3> QED
        BY <2>1, <3>1, <3>2, <3>3, Zenon
    <2>2. CASE i # 1
      <3>1. i \in 2 .. l /\ i - 1 \in 1 .. l /\ i \in DOMAIN out
        BY <1>1, <2>2
      <3>2. PICK u \in Seq(Messages), c \in Nat : u = out[i] /\ c = Len(u)
        BY <3>1
      <3>3. PICK a \in 0 .. n, b \in 0 .. n : a = cut[i - 1] /\ b = cut[i]
        BY <1>5, <3>1
      <3>4. next[i - 1] = 1 + a /\ next[i] = 1 + b
        BY <1>5, <3>1, <3>3
      <3>5. IsUnit(t, k, a, b, u)
        BY <1>3, <3>1, <3>2, <3>3
      <3>6. c >= 1 /\ b = a + c
        BY <3>2, <3>5 DEF IsUnit
      <3>7. ASSUME NEW j \in 1 .. c PROVE At(t, k, a + j) = At(s, h, (1 + a) + j)
        <4>1. a + j \in 1 .. n /\ 1 + (a + j) = (1 + a) + j
          BY <3>6
        <4> QED
          BY <4>1
      <3>8. IsUnit(s, h, 1 + a, 1 + b, u)
        <4>1. \A j \in 1 .. c : u[j] = At(t, k, a + j) /\ (u[j].last <=> j = c)
          BY <3>2, <3>5, Zenon DEF IsUnit
        <4>2. \A j \in 1 .. c : u[j] = At(s, h, (1 + a) + j) /\ (u[j].last <=> j = c)
          BY <3>7, <4>1, Zenon
        <4>3. 1 + b = (1 + a) + c
          BY <3>6
        <4> QED
          BY <3>2, <3>6, <4>2, <4>3, Zenon DEF IsUnit
      <3> QED
        BY <3>2, <3>4, <3>8
    <2> QED
      BY <2>1, <2>2
  <1>7. next[l] = 1 + n
    BY <1>3, <1>5
  <1>8. CutAt(s, h, 0, 1 + n, out, next)
    BY <1>1, <1>5, <1>6, <1>7 DEF CutAt
  <1> QED
    BY <1>1, <1>8 DEF Cut

\* The next message, which is handed over at once: as if it had been stored.
LEMMA NextIs ==
    ASSUME Typed, WindowsInv, NEW p, DataOK(p), Client!ReceiveNext(p.num, p.msg)
    PROVE  \E s, n : Takes(s, n)
  <1>1. /\ ~spinning /\ Client!InWindow(p.num)
        /\ Client!Fragmentation(p.msg) = "NO_FRAGMENTED"
        /\ p.num = Wrap(last_handled + 1)
        /\ Client!DeliverFrom(slots, p.num, << <<p.msg>> >>)
        /\ Client!Announce(p.num) /\ UNCHANGED spinning
    BY ClientArith DEF Client!ReceiveNext
  <1>2. /\ ClientAssumption /\ slots \in Slots /\ last_handled \in SeqNums /\ spinning = FALSE
        /\ p.msg \in Messages /\ p.num \in SeqNums /\ Age(p.num) <= Half
        /\ History \in Nat \ {0} /\ Waiting \in Nat /\ Age(p.num) \in Nat /\ Half \in Nat
    BY <1>1, Ring, Quantities, AgeRange DEF Typed, ClientTyped, DataOK
  <1>3. p.msg.last /\ p.msg.frag = 1
    BY <1>1, <1>2, KindIs
  <1>4. Waiting - Age(p.num) = 1 /\ 1 <= Half - 1 /\ p.msg = Content(1)
    <2>1. /\ Age(p.num) < Waiting /\ Waiting - Age(p.num) <= Half - 1
      BY <1>1, <1>2, InWindowIs DEF WindowsInv
    <2>2. SeqSub(p.num, last_handled) = Waiting - Age(p.num)
      BY <1>2, <2>1, WaitingOfAge
    <2>3. SeqSub(p.num, last_handled) = 1
      BY <1>1, <1>2, WrapThenSub, Quantities
    <2> QED
      BY <1>2, <2>1, <2>2, <2>3 DEF DataOK
  <1>5. At(slots, last_handled, 1) = Empty
    <2> SUFFICES ASSUME At(slots, last_handled, 1) # Empty PROVE FALSE
      OBVIOUS
    <2>1. At(slots, last_handled, 1) = p.msg
      BY <1>2, <1>4 DEF WindowsInv, StoredInv
    <2>2. ~Middle(slots, last_handled, 0 + 1)
      BY <1>3, <2>1 DEF Middle
    <2>3. RunOf(slots, last_handled, 0) /\ 0 \in 0 .. History
      BY <1>2, <2>2 DEF RunOf
    <2>4. Client!Run(slots, last_handled) = 0
      BY <1>2, <2>3, RunIs
    <2>5. Client!Units(slots, last_handled) = 1
      BY <1>2, <2>4, UnitsIs
    <2> QED
      BY <1>1, <2>5 DEF WindowsInv, IdleInv
  <1>6. slots[Client!SlotOf(p.num)] = Empty
    BY <1>1, <1>5 DEF At, Place
  <1>7. PICK s : s = [slots EXCEPT ![Client!SlotOf(p.num)] = p.msg]
    OBVIOUS
  <1>8. Puts(s, p.num, p.msg, 1)
    <2>1. Puts(s, p.num, p.msg, Waiting - Age(p.num))
      BY <1>1, <1>6, <1>7, PutsIs DEF WindowsInv
    <2> QED
      BY <1>4, <2>1
  <1>9. Fits(s) /\ s \in Slots
    BY <1>8, PutsFits DEF WindowsInv, Fits
  <1>10. Freed(s, last_handled, 1) = slots
    <2>1. PICK i : i = Client!SlotOf(p.num)
      OBVIOUS
    <2>2. i = Place(last_handled, 1)
      BY <1>1, <2>1 DEF Place
    <2>3. s = [slots EXCEPT ![i] = p.msg] /\ slots[i] = Empty
      BY <1>6, <1>7, <2>1
    <2>4. \A j \in 0 .. History - 1 : (\E d \in 1 .. 1 : j = Place(last_handled, d)) <=> j = i
      BY <2>2
    <2> QED
      BY <1>2, <2>3, <2>4 DEF Freed, Slots
  <1>11. << <<p.msg>> >> \in Seq(Seq(Messages))
    <2>1. <<p.msg>> \in Seq(Messages)
      BY <1>2
    <2> QED
      BY <2>1
  <1>12. PICK n \in 0 .. History :
           /\ last_handled' = Wrap(p.num + n) /\ slots' = Freed(slots, p.num, n)
           /\ \A e \in 1 .. n :
                 At(slots, p.num, e) # Empty /\ Handed(delivered', At(slots, p.num, e))
           /\ n > 0 => At(slots, p.num, n).last
           /\ delivered' \in Seq(Seq(Messages))
           /\ \A u \in DOMAIN << <<p.msg>> >> :
                 u \in DOMAIN delivered' /\ delivered'[u] = << <<p.msg>> >>[u]
           /\ Cut(slots, p.num, Len(<< <<p.msg>> >>), n, delivered')
           /\ Client!Units(slots', last_handled') = 0
    BY <1>1, <1>2, <1>11, DeliverFromIs
  <1>13. Handed(delivered', p.msg)
    <2>1. 1 \in DOMAIN << <<p.msg>> >> /\ << <<p.msg>> >>[1] = <<p.msg>>
      OBVIOUS
    <2>2. 1 \in DOMAIN delivered' /\ delivered'[1] = <<p.msg>>
      BY <1>12, <2>1
    <2>3. 1 \in DOMAIN <<p.msg>> /\ <<p.msg>>[1] = p.msg
      OBVIOUS
    <2> QED
      BY <2>2, <2>3 DEF Handed
  <1>14. \A e \in 1 .. History :
            At(slots, p.num, e) = IF 1 + e <= History THEN At(s, last_handled, 1 + e) ELSE Empty
    <2>1. 1 \in 0 .. History
      BY <1>2
    <2> QED
      BY <1>1, <1>2, <1>9, <1>10, <2>1, FreedAt
  <1>15. \A e \in 1 .. n : 1 + e <= History /\ At(slots, p.num, e) = At(s, last_handled, 1 + e)
    BY <1>2, <1>12, <1>14
  <1>16. 1 \in 0 .. History /\ 1 + n \in 1 .. History
    BY <1>2, <1>15
  <1>17. slots' = Freed(s, last_handled, 1 + n) /\ last_handled' = Wrap(last_handled + (1 + n))
    BY <1>1, <1>2, <1>9, <1>10, <1>12, <1>16, FreedTwice, WrapTwice
  <1>18. ASSUME NEW e \in 1 .. 1 + n
         PROVE  At(s, last_handled, e) # Empty /\ Handed(delivered', At(s, last_handled, e))
    <2>1. CASE e = 1
      <3>1. At(s, last_handled, 1) = p.msg /\ p.msg # Empty
        BY <1>2, <1>8, Ring DEF Puts
      <3> QED
        BY <1>13, <2>1, <3>1
    <2>2. CASE e # 1
      <3>1. e - 1 \in 1 .. n /\ 1 + (e - 1) = e
        BY <1>2, <2>2
      <3> QED
        BY <1>12, <1>15, <3>1
    <2> QED
      BY <2>1, <2>2
  <1>19. At(s, last_handled, 1 + n).last
    <2>1. CASE n = 0
      BY <1>3, <1>8, <2>1 DEF Puts
    <2>2. CASE n # 0
      BY <1>12, <1>15, <2>2
    <2> QED
      BY <2>1, <2>2
  <1>20. Delivers(s, 1 + n)
    <2>1. PICK out \in Seq(Seq(Messages)) : out = delivered'
      BY <1>12
    <2>2. 1 \in DOMAIN << <<p.msg>> >> /\ << <<p.msg>> >>[1] = <<p.msg>> /\ Len(<< <<p.msg>> >>) = 1
      OBVIOUS
    <2>3. 1 \in DOMAIN out /\ out[1] = <<p.msg>> /\ Cut(slots, p.num, 1, n, out)
      BY <1>12, <2>1, <2>2
    <2>4. At(s, last_handled, 1) = p.msg
      BY <1>8 DEF Puts
    <2>5. Cut(s, last_handled, 0, 1 + n, out)
      <3>1. n \in Nat
        BY <1>2, <1>12
      <3> QED
        BY <1>3, <1>15, <2>1, <2>3, <2>4, <3>1, CutFurther
    <2> QED
      BY <1>2, <1>12, <1>16, <1>17, <1>18, <1>19, <2>1, <2>5 DEF Delivers
  <1>21. ~Client!NeverEnds(slots', last_handled')
    BY <1>2, <1>9, <1>16, <1>17, FreeAfter
  <1>22. /\ last_announced' \in SeqNums
         /\ SeqSub(last_announced', last_handled) \in Announced .. Waiting
         /\ \A e \in 1 .. History :
               At(s, last_handled, e) # Empty => e <= SeqSub(last_announced', last_handled)
    BY <1>1, <1>4, <1>8, AllAnnounced
  <1>23. Takes(s, 1 + n)
    BY <1>1, <1>2, <1>9, <1>12, <1>20, <1>21, <1>22 DEF Takes
  <1> QED
    BY <1>23

\* The handlers of the Client keep the windows sound and what is under way
\* right.
LEMMA TakesKeep ==
    ASSUME Typed, WindowsInv, NEW s, NEW n, Takes(s, n), UNCHANGED streamVars
    PROVE  /\ Typed' /\ WindowsInv'
           /\ \A p : PacketOK(p) => PacketOK(p)'
  <1>1. Fits(s) /\ Delivers(s, n)
    BY DEF Takes
  <1>2. n \in 0 .. History /\ n <= Waiting /\ Moves(n)
    BY <1>1, DeliversMoves DEF WindowsInv
  <1>3. /\ last_handled' \in SeqNums /\ IInv'
        /\ Waiting' = Waiting - n /\ Occupancy' = Occupancy
    BY <1>2, SeenLater DEF WindowsInv
  <1>4. StoredInv' /\ KeptInv' /\ WholeInv' /\ Waiting' <= Occupancy' + History - 1
    BY <1>2, MovesKeep DEF WindowsInv
  <1>5. ClientTyped'
    BY <1>1, <1>2, <1>3 DEF ClientTyped, Takes, Delivers, Moves
  <1>6. ClientAssumption'
    BY DEF Typed, ClientAssumption, Client!SlotAssumption
  <1>7. Typed'
    BY <1>3, <1>5, <1>6 DEF Typed
  <1>8. PICK a : a = SeqSub(last_announced', last_handled)
    OBVIOUS
  <1>9. /\ a \in Announced .. Waiting /\ last_announced' \in SeqNums
        /\ Announced \in Nat /\ Waiting \in Nat /\ last_handled \in SeqNums
    BY <1>8, Quantities DEF Takes
  <1>10. n <= a
    <2>1. CASE n = 0
      BY <1>9, <2>1
    <2>2. CASE n # 0 /\ ~spinning'
      <3>1. n \in 1 .. History /\ At(s, last_handled, n) # Empty
        BY <1>1, <1>2, <2>2, Quantities DEF Delivers
      <3> QED
        BY <1>8, <2>2, <3>1 DEF Takes
    <2> QED
      BY <2>1, <2>2 DEF Takes
  <1>11. Announced' = a - n
    <2>1. Announced' = SeqSub(last_announced', Wrap(last_handled + n))
      BY <1>2 DEF Announced, Moves
    <2> QED
      BY <1>2, <1>8, <1>9, <1>10, <2>1, SubOn, Quantities
  <1>12. ReachInv'
    BY <1>2, <1>3, <1>4, <1>9, <1>11, Quantities DEF ReachInv
  <1>13. ASSUME ~spinning', NEW d \in 1 .. History, At(slots', last_handled', d) # Empty
         PROVE  d <= Announced'
    <2>1. At(slots', last_handled', d) =
             IF n + d <= History THEN At(s, last_handled, n + d) ELSE Empty
      BY <1>1, <1>9, FreedAt DEF Delivers, Fits, Typed
    <2>2. n + d \in 1 .. History /\ At(s, last_handled, n + d) # Empty
      BY <1>2, <1>13, <2>1, Quantities
    <2>3. n + d <= a
      BY <1>8, <1>13, <2>2 DEF Takes
    <2> QED
      BY <1>2, <1>9, <1>11, <2>3, Quantities
  <1>14. AnnouncedInv'
    BY <1>13 DEF AnnouncedInv
  <1>15. IdleInv'
    <2>1. ASSUME ~spinning' PROVE \E d \in 1 .. History : At(slots', last_handled', d) = Empty
      <3>1. /\ Client!Units(slots', last_handled') = 0
            /\ ~Client!NeverEnds(slots', last_handled')
        BY <2>1 DEF Takes
      <3>2. Rested'
        BY <3>1 DEF Rested
      <3>3. SlotIsFree'
        BY <1>4, <1>7, <1>12, <3>2, SlotFree, PTL
      <3> QED
        BY <3>3 DEF SlotIsFree
    <2> QED
      BY <2>1 DEF IdleInv, Takes
  <1>16. ASSUME NEW p, PacketOK(p) PROVE PacketOK(p)'
    BY <1>2, <1>16, PacketsLater DEF WindowsInv
  <1> QED
    BY <1>4, <1>7, <1>12, <1>14, <1>15, <1>16 DEF WindowsInv

\* The answer acknowledges what was delivered or is stored.
AnswerOK == PacketOK(Acknack)

\* uxr_compute_acknack, of a state in which a slot is free.
LEMMA AnswerIs == Typed /\ WindowsInv /\ ~spinning => AnswerOK
  <1> SUFFICES ASSUME Typed, WindowsInv, ~spinning PROVE AcknackOK(Acknack)
    BY DEF AnswerOK, PacketOK, Acknack
  <1>0. /\ History \in Nat \ {0} /\ Waiting \in Nat /\ Occupancy \in Nat /\ Half \in Nat
        /\ Occupancy <= Half - 1 /\ Modulus = 2 * Half /\ History <= Half
        /\ last_handled \in SeqNums /\ last_unacked \in SeqNums
        /\ Waiting <= Occupancy + History - 1
    BY Quantities DEF WindowsInv, ReachInv
  <1> DEFINE free == {i \in 1 .. History : At(slots, last_handled, i) = Empty}
  <1>1. free \in SUBSET Nat /\ free # {}
    BY <1>0 DEF WindowsInv, IdleInv
  <1>2. PICK e : e = CHOOSE i \in free : \A j \in free : i <= j
    OBVIOUS
  <1>3. e \in free /\ \A j \in free : e <= j
    <2> HIDE DEF free
    <2> QED
      BY <1>1, <1>2, LeastIs
  <1>4. Client!FirstUnacked = Wrap(last_handled + e)
    <2>1. free = {i \in 1 .. History :
                    slots[Client!SlotOf(Client!ClientAdd(last_handled, i))] = Empty}
      BY ClientAt
    <2> HIDE DEF free
    <2>2. Client!FirstUnacked = Client!ClientAdd(last_handled, e)
      BY <1>1, <1>2, <2>1 DEF Client!FirstUnacked
    <2> QED
      BY <2>2, ClientArith
  <1>5. e \in 1 .. History /\ \A d \in 1 .. e - 1 : At(slots, last_handled, d) # Empty
    <2>1. e \in 1 .. History
      BY <1>3
    <2>2. ASSUME NEW d \in 1 .. e - 1 PROVE d \notin free
      BY <1>0, <1>3, <2>1
    <2>3. \A d \in 1 .. e - 1 : d \in 1 .. History
      BY <1>0, <2>1
    <2> QED
      BY <2>1, <2>2, <2>3
  <1>6. e - 1 <= Waiting
    <2>1. CASE e = 1
      BY <1>0, <2>1
    <2>2. CASE e # 1
      <3>1. e - 1 \in 1 .. e - 1 /\ e - 1 \in 1 .. History
        BY <1>0, <1>5, <2>2
      <3> QED
        BY <1>5, <3>1 DEF WindowsInv, StoredInv
    <2> QED
      BY <2>1, <2>2
  <1>7. Waiting - e < Occupancy
    <2>1. CASE e <= Waiting - Occupancy
      BY <1>3, <1>5, <2>1 DEF WindowsInv, KeptInv
    <2>2. CASE ~(e <= Waiting - Occupancy)
      BY <1>0, <1>5, <2>2
    <2> QED
      BY <2>1, <2>2
  <1>8. PICK f : f = Wrap(last_handled + e)
    OBVIOUS
  <1>9. f \in SeqNums /\ AckAge(f) = Waiting + 1 - e
    <2>1. CASE e <= Waiting
      <3>1. e \in 0 .. Waiting
        BY <1>0, <1>5, <2>1
      <3>2. f \in SeqNums /\ Age(f) = Waiting - e
        BY <1>8, <3>1, AgeOfWaiting
      <3> QED
        BY <1>0, <1>5, <3>1, <3>2, AgeRange, Quantities
    <2>2. CASE ~(e <= Waiting)
      <3>1. e = Waiting + 1
        BY <1>0, <1>5, <1>6, <2>2
      <3>2. f \in SeqNums /\ SeqSub(f, last_handled) = e
        BY <1>0, <1>5, <1>8, <3>1, WrapThenSub, Quantities
      <3>3. Age(f) \in 0 .. MaxSeq
        BY <3>2, AgeRange
      <3>4. Age(f) = MaxSeq
        <4>1. Age(f) > Waiting => e = Waiting - Age(f) + Modulus
          BY <3>2, WaitingOfAge
        <4>2. Age(f) <= Waiting => e = Waiting - Age(f)
          BY <3>2, WaitingOfAge
        <4> QED
          BY <1>0, <3>1, <3>3, <4>1, <4>2, Quantities
      <3> QED
        BY <1>0, <3>1, <3>2, <3>4, AgeRange
    <2> QED
      BY <2>1, <2>2
  <1>10. Acknack.ack.first = f
    BY <1>4, <1>8 DEF Acknack, Client!Acknack
  <1>11. PICK q : q = Acknack.ack.first
    OBVIOUS
  <1>12. /\ q \in SeqNums /\ AckAge(q) <= Half + 1
         /\ Waiting + 1 - AckAge(q) <= History
         /\ \A d \in 1 .. Waiting - AckAge(q) : At(slots, last_handled, d) # Empty
    BY <1>0, <1>5, <1>7, <1>9, <1>10, <1>11
  <1> QED
    BY <1>11, <1>12 DEF AcknackOK

\* Every packet of the network arrived or was sent.
LEMMA TransmitKeeps ==
    ASSUME NEW sent, Transmit(sent), \A p \in network : PacketOK(p)', \A p \in sent : PacketOK(p)'
    PROVE  PacketsInv'
  <1>1. network' \subseteq network \cup sent
    BY DEF Transmit, Fates
  <1> QED
    BY <1>1 DEF PacketsInv

\* A handler of the Client and its answer.
LEMMA AnswerKeeps ==
    ASSUME DownInv, NEW s, NEW n, Takes(s, n), UNCHANGED streamVars, Answer
    PROVE  DownInv'
  <1>1. /\ Typed' /\ WindowsInv'
        /\ \A p : PacketOK(p) => PacketOK(p)'
    BY TakesKeep DEF DownInv
  <1>2. \A p \in network : PacketOK(p)'
    BY <1>1 DEF DownInv, PacketsInv
  <1>3. CASE spinning'
    BY <1>1, <1>2, <1>3, TransmitKeeps DEF DownInv, Answer
  <1>4. CASE ~spinning'
    <2>1. AnswerOK'
      BY <1>1, <1>4, AnswerIs, PTL
    <2>2. PICK q : q = Acknack'
      OBVIOUS
    <2>3. PacketOK(q)'
      BY <2>1, <2>2 DEF AnswerOK
    <2>4. Transmit({q})
      BY <1>4, <2>2 DEF Answer
    <2>5. PacketsInv'
      BY <1>2, <2>3, <2>4, TransmitKeeps
    <2> QED
      BY <1>1, <2>5 DEF DownInv
  <1> QED
    BY <1>3, <1>4

\* A handler of the Client takes something.
LEMMA ReceiveDataIs ==
    ASSUME DownInv, NEW p, ReceiveData(p)
    PROVE  (\E s, n : Takes(s, n)) /\ UNCHANGED streamVars /\ Answer
  <1>1. p \in network /\ p.type = "DATA" /\ Client!Receive(p.num, p.msg) /\ Answer /\ UNCHANGED streamVars
    BY DEF ReceiveData
  <1>2. DataOK(p) /\ Typed /\ WindowsInv
    BY <1>1 DEF DownInv, PacketsInv, PacketOK
  <1>3. CASE Client!ReceiveNext(p.num, p.msg)
    BY <1>1, <1>2, <1>3, NextIs
  <1>4. CASE Client!ReceiveStored(p.num, p.msg)
    BY <1>1, <1>2, <1>4, StoredIs
  <1>5. CASE Client!ReceiveIgnored(p.num, p.msg)
    <2>1. p.num \in SeqNums /\ Age(p.num) <= Half
      BY <1>2 DEF DataOK
    <2>2. /\ ~spinning /\ Client!Announce(p.num) /\ delivered' = <<>>
          /\ UNCHANGED <<slots, last_handled, spinning>>
      BY <1>5 DEF Client!ReceiveIgnored
    <2>3. Takes(slots, 0)
      BY <1>2, <2>1, <2>2, IgnoredIs
    <2> QED
      BY <1>1, <2>3
  <1> QED
    BY <1>1, <1>3, <1>4, <1>5 DEF Client!Receive

\* uxr_process_heartbeat.
LEMMA ReceiveHeartbeatIs ==
    ASSUME DownInv, NEW p, ReceiveHeartbeat(p)
    PROVE  (\E s, n : Takes(s, n)) /\ UNCHANGED streamVars /\ Answer
  <1>1. p \in network /\ p.type = "HEARTBEAT" /\ Client!Heartbeat(p.last) /\ Answer /\ UNCHANGED streamVars
    BY DEF ReceiveHeartbeat
  <1>2. p.last \in SeqNums /\ Age(p.last) <= Half /\ Typed /\ WindowsInv
    BY <1>1 DEF DownInv, PacketsInv, PacketOK, HeartbeatOK
  <1>3. Takes(slots, 0)
    BY <1>1, <1>2, IgnoredIs DEF Client!Heartbeat
  <1> QED
    BY <1>1, <1>3

----------------------------------------------------------------------------
(* The Agent *)

\* What the Agent holds it may send.
LEMMA HeldIsRight ==
    ASSUME Typed, ReachInv, NEW k \in DOMAIN messages
    PROVE  PacketOK(Data(k, messages[k]))
  <1>1. k \in SeqNums /\ messages[k] \in Messages
    BY DEF Typed, IInv, StreamTypeOK
  <1>2. Age(k) < Occupancy /\ Age(k) \in Nat
    BY <1>1, HeldIsYoung, AgeRange, Quantities
  <1>3. Age(k) <= Half
    BY <1>2, Quantities
  <1>4. ASSUME Age(k) < Waiting PROVE messages[k] = Content(Waiting - Age(k))
    <2>1. k = Wrap(last_handled + (Waiting - Age(k)))
      BY <1>1, <1>2, <1>4, WaitingOfAge, Quantities
    <2> QED
      BY <2>1 DEF Content
  <1>5. PICK p : p = Data(k, messages[k])
    OBVIOUS
  <1>6. p.type = "DATA" /\ p.num = k /\ p.msg = messages[k]
    BY <1>5 DEF Data
  <1>7. DataOK(p)
    BY <1>1, <1>3, <1>4, <1>6 DEF DataOK
  <1> QED
    BY <1>5, <1>6, <1>7 DEF PacketOK

\* A heartbeat announces the newest number.
LEMMA HeartbeatIsRight == ASSUME Typed PROVE PacketOK(Heartbeat)
  <1>1. last_unacked \in SeqNums /\ Age(last_unacked) = 0 /\ Half \in Nat
    BY Quantities, SubRange DEF Age
  <1>2. PICK p : p = Heartbeat
    OBVIOUS
  <1>3. p.type = "HEARTBEAT" /\ p.last = last_unacked
    BY <1>2 DEF Heartbeat, HeartbeatWindow
  <1> QED
    BY <1>1, <1>2, <1>3 DEF PacketOK, HeartbeatOK

\* A step of the Agent that leaves its newest number and the contents of the
\* windows alone.
Quiet ==
    /\ UNCHANGED <<slots, last_handled, last_announced, spinning, last_unacked>>
    /\ delivered' = <<>>
    /\ \A d \in 1 .. Waiting : Content(d)' = Content(d)

\* Such a step leaves the Client's side of the windows as it is, and what is
\* under way right.
LEMMA QuietKeeps ==
    ASSUME Typed, WindowsInv, IInv', Quiet
    PROVE  /\ Typed' /\ StoredInv' /\ AnnouncedInv' /\ WholeInv' /\ IdleInv'
           /\ Waiting' = Waiting /\ Announced' = Announced
           /\ \A p : PacketOK(p) => PacketOK(p)'
  <1>1. /\ Waiting' = Waiting /\ Announced' = Announced
        /\ slots' = slots /\ last_handled' = last_handled /\ spinning' = spinning
        /\ \A k : Age(k)' = Age(k) /\ AckAge(k)' = AckAge(k)
    BY DEF Quiet, Waiting, Announced, Age, AckAge
  <1>2. <<>> \in Seq(Seq(Messages))
    OBVIOUS
  <1>3. ClientTyped'
    BY <1>2 DEF Quiet, Typed, ClientTyped
  <1>4. Typed'
    BY <1>3 DEF Typed, ClientAssumption, Client!SlotAssumption
  <1>5. Waiting \in Nat /\ \A d \in 1 .. Waiting : Content(d)' = Content(d)
    BY Quantities DEF Quiet
  <1>6. StoredInv'
    <2>1. ASSUME NEW d \in 1 .. History, At(slots', last_handled', d) # Empty
          PROVE  d <= Waiting' /\ At(slots', last_handled', d) = Content(d)'
      <3>1. d <= Waiting /\ At(slots, last_handled, d) = Content(d)
        BY <1>1, <2>1 DEF WindowsInv, StoredInv
      <3>2. d \in 1 .. Waiting
        BY <3>1, <1>5
      <3> QED
        BY <1>1, <1>5, <3>1, <3>2
    <2> QED
      BY <2>1 DEF StoredInv
  <1>7. AnnouncedInv' /\ IdleInv'
    BY <1>1 DEF WindowsInv, AnnouncedInv, IdleInv
  <1>8. WholeInv'
    <2>1. PICK w \in Nat : w = Waiting
      BY <1>5
    <2>2. w > 0 => Content(1)'.frag = 1 /\ Content(w)'.last
      <3>1. w > 0 => 1 \in 1 .. w /\ w \in 1 .. w
        OBVIOUS
      <3> QED
        BY <1>5, <2>1, <3>1 DEF WindowsInv, WholeInv
    <2>3. Waiting' > 0 => Content(1)'.frag = 1 /\ Content(Waiting)'.last
      BY <1>1, <2>1, <2>2
    <2>4. ASSUME NEW d \in 1 .. Waiting', d + 1 <= Waiting'
          PROVE  Follows(Content(d)', Content(d + 1)')
      <3>1. d \in 1 .. Waiting /\ d + 1 \in 1 .. Waiting /\ d + 1 <= Waiting
        BY <1>1, <1>5, <2>4
      <3>2. Follows(Content(d), Content(d + 1))
        BY <3>1 DEF WindowsInv, WholeInv
      <3> QED
        BY <1>5, <3>1, <3>2
    <2> QED
      BY <2>3, <2>4 DEF WholeInv, Follows
  <1>9. ASSUME NEW p, PacketOK(p) PROVE PacketOK(p)'
    <2>1. CASE p.type = "DATA" /\ DataOK(p)
      <3>1. p.num \in SeqNums /\ Age(p.num) \in Nat /\ Age(p.num)' = Age(p.num)
        BY <1>1, <2>1, AgeRange, Quantities DEF DataOK
      <3>2. PICK d : d = Waiting - Age(p.num)
        OBVIOUS
      <3>3. Age(p.num) < Waiting => p.msg = Content(d)'
        BY <1>5, <2>1, <3>1, <3>2 DEF DataOK
      <3>4. d = Waiting' - Age(p.num)'
        BY <1>1, <3>1, <3>2
      <3>5. Age(p.num)' < Waiting' => p.msg = Content(Waiting - Age(p.num))'
        BY <1>1, <3>1, <3>3, <3>4
      <3>6. DataOK(p)'
        BY <2>1, <3>1, <3>5 DEF DataOK
      <3> QED
        BY <2>1, <3>6 DEF PacketOK
    <2>2. CASE p.type = "HEARTBEAT" /\ HeartbeatOK(p)
      BY <1>1, <2>2 DEF PacketOK, HeartbeatOK
    <2>3. CASE p.type = "ACKNACK" /\ AcknackOK(p)
      BY <1>1, <2>3 DEF PacketOK, AcknackOK
    <2> QED
      BY <1>9, <2>1, <2>2, <2>3 DEF PacketOK
  <1> QED
    BY <1>1, <1>4, <1>6, <1>7, <1>8, <1>9

\* If the Agent's map stays too, nothing of the windows changes.
LEMMA SameWindows ==
    ASSUME Typed, WindowsInv, IInv', ClientIdle, UNCHANGED <<messages, last_unacked, first_unacked>>
    PROVE  Quiet /\ Typed' /\ WindowsInv' /\ \A p : PacketOK(p) => PacketOK(p)'
  <1>1. UNCHANGED <<slots, last_handled, last_announced, spinning>> /\ delivered' = <<>>
    BY DEF ClientIdle
  <1>2. \A d : Content(d)' = Content(d)
    BY <1>1 DEF Content
  <1>3. Quiet
    BY <1>1, <1>2 DEF Quiet
  <1>4. Occupancy' = Occupancy
    BY DEF Occupancy
  <1>5. /\ Typed' /\ StoredInv' /\ AnnouncedInv' /\ WholeInv' /\ IdleInv'
        /\ Waiting' = Waiting /\ Announced' = Announced
        /\ \A p : PacketOK(p) => PacketOK(p)'
    BY <1>3, QuietKeeps
  <1>6. ReachInv'
    BY <1>4, <1>5 DEF WindowsInv, ReachInv
  <1>7. KeptInv'
    BY <1>1, <1>4, <1>5 DEF WindowsInv, KeptInv
  <1> QED
    BY <1>3, <1>5, <1>6, <1>7 DEF WindowsInv

\* get_next_message, and sending what it returns.
LEMMA SendNextKeeps ==
    ASSUME DownInv, SendNext
    PROVE  DownInv' /\ Quiet
  <1>1. /\ Typed /\ WindowsInv /\ IInv /\ GetNextMessage /\ ClientIdle
        /\ Transmit({Data(last_sent', messages[last_sent'])})
    BY DEF DownInv, Typed, SendNext
  <1>2. IInv'
    BY <1>1, SendPreserves
  <1>3. last_sent' \in DOMAIN messages
    <2>1. PICK k : k = SeqAdd(last_sent, 1)
      OBVIOUS
    <2>2. last_sent' = k /\ HasNext
      BY <1>1, <2>1 DEF GetNextMessage
    <2>3. k \in SeqNums /\ SeqSub(k, first_unacked) <= Occupancy
      <3>1. 1 \in SeqNums /\ last_sent \in SeqNums
        BY <1>1, Quantities DEF SeqNums
      <3> QED
        BY <1>1, <2>1, <3>1, ArithTypes DEF IInv, SentWithinWindow
    <2>4. SeqSub(k, first_unacked) # Occupancy
      <3>1. PICK u : u = SeqAdd(last_unacked, 1)
        OBVIOUS
      <3>2. u \in SeqNums /\ u # k
        <4>1. last_sent # last_unacked
          BY <2>2 DEF HasNext, SeqLt
        <4> QED
          BY <1>1, <2>1, <3>1, <4>1, Quantities DEF SeqAdd, Wrap, SeqNums
      <3> QED
        BY <1>1, <2>3, <3>1, <3>2, SubInjective, Quantities DEF Occupancy
    <2>5. SeqSub(k, first_unacked) < Occupancy
      BY <1>1, <2>3, <2>4, SubRange, Quantities
    <2> QED
      BY <1>1, <2>2, <2>3, <2>5 DEF IInv, HeldIsWindow
  <1>4. UNCHANGED <<messages, last_unacked, first_unacked>>
    BY <1>1 DEF GetNextMessage
  <1>5. Quiet /\ Typed' /\ WindowsInv' /\ \A p : PacketOK(p) => PacketOK(p)'
    BY <1>1, <1>2, <1>4, SameWindows
  <1>6. PICK q : q = Data(last_sent', messages[last_sent'])
    OBVIOUS
  <1>7. PacketOK(q)'
    BY <1>1, <1>3, <1>5, <1>6, HeldIsRight DEF WindowsInv
  <1>8. PacketsInv'
    BY <1>1, <1>5, <1>6, <1>7, TransmitKeeps DEF DownInv, PacketsInv
  <1> QED
    BY <1>5, <1>8 DEF DownInv

\* check_heartbeats.
LEMMA SendHeartbeatKeeps ==
    ASSUME DownInv, SendHeartbeat
    PROVE  DownInv' /\ Quiet
  <1>1. Typed /\ WindowsInv /\ IInv /\ ClientIdle /\ Transmit({Heartbeat}) /\ UNCHANGED streamVars
    BY DEF DownInv, Typed, SendHeartbeat
  <1>2. UNCHANGED <<messages, last_unacked, last_sent, first_unacked, blocked>>
    BY <1>1 DEF streamVars
  <1>3. IInv'
    BY <1>1, <1>2, StepPreserves
  <1>4. Quiet /\ Typed' /\ WindowsInv' /\ \A p : PacketOK(p) => PacketOK(p)'
    BY <1>1, <1>2, <1>3, SameWindows
  <1>5. PICK q : q = Heartbeat
    OBVIOUS
  <1>6. PacketOK(q)'
    BY <1>1, <1>4, <1>5, HeartbeatIsRight
  <1>7. PacketsInv'
    BY <1>1, <1>4, <1>5, <1>6, TransmitKeeps DEF DownInv, PacketsInv
  <1> QED
    BY <1>4, <1>7 DEF DownInv

\* The Agent's map, by the age of the numbers.
Young == \A k \in SeqNums : k \in DOMAIN messages <=> Age(k) < Occupancy

\* It is that in every state.
LEMMA YoungIsHeld == Typed => Young
  BY HeldIsYoung DEF Young

\* process_acknack_submessage: what it drops the Client has.
LEMMA AcknackKeeps ==
    ASSUME Typed, WindowsInv, ClientIdle, NEW p, AcknackOK(p), UpdateFromAcknack(p.ack.first)
    PROVE  Quiet /\ Typed' /\ WindowsInv' /\ \A q : PacketOK(q) => PacketOK(q)'
  <1>1. PICK f : f = p.ack.first
    OBVIOUS
  <1>2. /\ f \in SeqNums /\ IInv /\ UpdateFromAcknack(f) /\ Acknowledges(f)
        /\ UNCHANGED <<slots, last_handled, last_announced, spinning, last_unacked>>
        /\ delivered' = <<>>
    BY <1>1 DEF AcknackOK, Typed, UpdateFromAcknack, ClientIdle
  <1>3. IInv'
    BY <1>2, AcknackPreserves
  <1>4. Young'
    <2>1. <<>> \in Seq(Seq(Messages))
      OBVIOUS
    <2>2. Typed'
      BY <1>2, <1>3, <2>1 DEF Typed, ClientTyped, ClientAssumption, Client!SlotAssumption
    <2> QED
      BY <2>2, YoungIsHeld, PTL
  <1>5. PICK a : a = AckAge(f)
    OBVIOUS
  <1>6. a \in Nat /\ a <= Half + 1
    <2>1. a \in 0 .. MaxSeq
      BY <1>2, <1>5, AgeRange
    <2>2. a <= Half + 1
      BY <1>1, <1>5 DEF AcknackOK
    <2> QED
      BY <2>1, <2>2, Quantities
  <1>7. \/ a > Waiting
        \/ /\ Waiting + 1 - a <= History
           /\ \A d \in 1 .. Waiting - a : At(slots, last_handled, d) # Empty
    BY <1>1, <1>5 DEF AcknackOK
  <1>8. Occupancy' = a /\ a <= Occupancy
    <2>1. first_unacked' = f
      BY <1>2 DEF UpdateFromAcknack
    <2>2. Occupancy' = a
      BY <1>2, <1>5, <2>1 DEF Occupancy, AckAge
    <2>3. SeqSub(f, first_unacked) \in 1 .. Occupancy
      BY <1>2, AcknackWithinSent DEF Acknowledges
    <2>4. PICK u : u = SeqAdd(last_unacked, 1)
      OBVIOUS
    <2>5. u \in SeqNums
      <3>1. 1 \in SeqNums /\ last_unacked \in SeqNums
        BY Quantities DEF SeqNums
      <3> QED
        BY <2>4, <3>1, ArithTypes
    <2>6. SeqSub(u, f) = SeqSub(SeqSub(u, first_unacked), SeqSub(f, first_unacked))
      BY <1>2, <2>5, Rebase, Quantities
    <2>7. a = SeqSub(Occupancy, SeqSub(f, first_unacked))
      BY <1>5, <2>4, <2>6 DEF AckAge, Occupancy
    <2>8. a = Occupancy - SeqSub(f, first_unacked)
      BY <2>3, <2>7, Quantities DEF SeqSub
    <2> QED
      BY <2>2, <2>3, <2>8, Quantities
  <1>9. /\ Waiting \in Nat /\ History \in Nat /\ History >= 1 /\ Occupancy \in Nat
        /\ Waiting' = Waiting /\ last_handled' = last_handled
    BY <1>2, Quantities DEF Waiting
  <1>10. ASSUME NEW d \in 1 .. Waiting PROVE Content(d)' = Content(d)
    <2>1. PICK k : k = Wrap(last_handled + d)
      OBVIOUS
    <2>2. k \in SeqNums /\ Age(k) = Waiting - d
      BY <1>9, <2>1, AgeOfWaiting
    <2>3. /\ DOMAIN messages' \subseteq DOMAIN messages
          /\ \A j \in DOMAIN messages' : messages'[j] = messages[j]
      BY <1>2 DEF UpdateFromAcknack
    <2>4. CASE k \in DOMAIN messages'
      BY <1>9, <2>1, <2>3, <2>4 DEF Content
    <2>5. CASE k \notin DOMAIN messages /\ k \notin DOMAIN messages'
      BY <1>2, <1>9, <2>1, <2>5 DEF Content
    <2>6. CASE k \in DOMAIN messages /\ k \notin DOMAIN messages'
      <3>2. a <= Waiting - d
        <4>1. Age(k)' < Occupancy' => k \in DOMAIN messages'
          BY <1>4, <2>2 DEF Young
        <4>2. Age(k)' = Waiting - d
          BY <1>2, <2>2 DEF Age
        <4> QED
          BY <1>6, <1>8, <1>9, <2>6, <4>1, <4>2
      <3>3. d \in 1 .. History /\ d \in 1 .. Waiting - a
        BY <1>6, <1>7, <1>9, <3>2
      <3>4. At(slots, last_handled, d) # Empty
        BY <1>6, <1>7, <1>9, <3>2, <3>3
      <3>5. At(slots, last_handled, d) = Content(d)
        BY <3>3, <3>4 DEF WindowsInv, StoredInv
      <3>6. Content(d)' = At(slots, last_handled, d)
        BY <1>2, <1>9, <2>1, <2>6 DEF Content
      <3> QED
        BY <3>5, <3>6
    <2> QED
      BY <2>3, <2>4, <2>5, <2>6
  <1>11. Quiet
    BY <1>2, <1>10 DEF Quiet
  <1>12. /\ Typed' /\ StoredInv' /\ AnnouncedInv' /\ WholeInv' /\ IdleInv'
         /\ Waiting' = Waiting /\ Announced' = Announced
         /\ \A q : PacketOK(q) => PacketOK(q)'
    BY <1>3, <1>11, QuietKeeps
  <1>13. ReachInv'
    BY <1>6, <1>7, <1>8, <1>9, <1>12 DEF WindowsInv, ReachInv
  <1>14. KeptInv'
    <2>1. ASSUME NEW d \in 1 .. History, d <= Waiting - a PROVE At(slots, last_handled, d) # Empty
      BY <1>6, <1>7, <1>9, <2>1
    <2> QED
      BY <1>2, <1>8, <1>9, <2>1 DEF KeptInv
  <1> QED
    BY <1>11, <1>12, <1>13, <1>14 DEF WindowsInv

\* Handling an ACKNACK, with what is sent again.
LEMMA ProcessAcknackKeeps ==
    ASSUME DownInv, NEW p, ProcessAcknack(p)
    PROVE  DownInv' /\ Quiet
  <1>1. /\ p \in network /\ p.type = "ACKNACK" /\ Transmit(Resent(p.ack)) /\ ClientIdle
        /\ IF Acknowledges(p.ack.first)
           THEN UpdateFromAcknack(p.ack.first)
           ELSE UNCHANGED streamVars
    BY DEF ProcessAcknack
  <1>2. Typed /\ WindowsInv /\ IInv /\ AcknackOK(p)
    BY <1>1 DEF DownInv, PacketsInv, PacketOK, Typed
  <1>3. Quiet /\ Typed' /\ WindowsInv' /\ \A q : PacketOK(q) => PacketOK(q)'
    <2>1. CASE UpdateFromAcknack(p.ack.first)
      BY <1>1, <1>2, <2>1, AcknackKeeps
    <2>2. CASE UNCHANGED streamVars
      <3>1. UNCHANGED <<messages, last_unacked, first_unacked>>
        BY <2>2 DEF streamVars
      <3>2. IInv'
        BY <1>2, <2>2, StepPreserves
      <3> QED
        BY <1>1, <1>2, <3>1, <3>2, SameWindows
    <2> QED
      BY <1>1, <2>1, <2>2
  <1>4. \A q \in Resent(p.ack) : PacketOK(q)'
    <2>1. ASSUME NEW q \in Resent(p.ack) PROVE PacketOK(q)
      <3>1. PICK k \in DOMAIN messages : q = Data(k, messages[k])
        BY <2>1 DEF Resent
      <3> QED
        BY <1>2, <3>1, HeldIsRight DEF WindowsInv
    <2> QED
      BY <1>3, <2>1
  <1>5. PacketsInv'
    BY <1>1, <1>3, <1>4, TransmitKeeps DEF DownInv, PacketsInv
  <1> QED
    BY <1>3, <1>5 DEF DownInv

\* The newest number is that of the last message that waits.
LEMMA WaitingBack ==
    ASSUME NEW k \in SeqNums, NEW h \in SeqNums
    PROVE  Wrap(h + SeqSub(k, h)) = k
  BY Constants DEF Wrap, SeqSub, SeqNums, Modulus

\* Distances back and forth make a turn.
LEMMA SubBack ==
    ASSUME NEW k \in SeqNums, NEW h \in SeqNums
    PROVE  SeqSub(k, h) = IF SeqSub(h, k) = 0 THEN 0 ELSE Modulus - SeqSub(h, k)
  BY Constants DEF SeqSub, SeqNums, Modulus

\* Seen from a fixed number, one that moves on by n is n further.
LEMMA SubFurther ==
    ASSUME NEW u \in SeqNums, NEW k \in SeqNums, NEW n \in 0 .. MaxSeq
    PROVE  SeqSub(Wrap(u + n), k) =
               IF SeqSub(u, k) + n < Modulus THEN SeqSub(u, k) + n ELSE SeqSub(u, k) + n - Modulus
  BY Constants DEF SeqSub, Wrap, SeqNums, Modulus, MaxSeq

\* Numbers and ages after a push of n messages.
LEMMA PushMoves ==
    ASSUME Typed, WindowsInv, NEW s \in Submessages, NEW n \in 1 .. MaxFragments,
           HasRoom, Insert(s, n), ClientIdle
    PROVE  /\ Waiting' = Waiting + n /\ Occupancy' = Occupancy + n
           /\ Waiting + n <= Modulus - 2 /\ Announced' = Announced
           /\ \A k \in SeqNums : Age(k) <= Half => Age(k)' = Age(k) + n
           /\ \A k \in SeqNums : Age(k) = MaxSeq => Age(k)' = n - 1
           /\ \A d \in 1 .. Waiting : Content(d)' = Content(d)
           /\ \A j \in 1 .. n : \A e :
                 e = Waiting + j => Content(e)' = [sub |-> s, frag |-> j, last |-> j = n]
  <1>0. /\ Half \in Nat /\ Half >= 2 /\ Modulus = 2 * Half /\ MaxSeq = Modulus - 1
        /\ Waiting \in Nat /\ Occupancy \in Nat /\ n \in Nat /\ n >= 1 /\ n <= Half - 1
        /\ last_unacked \in SeqNums /\ last_handled \in SeqNums /\ History \in Nat
    BY Quantities
  <1>1. Occupancy' = Occupancy + n /\ Occupancy + n <= Half - 1
    BY InsertExtends, Quantities DEF Typed
  <1>2. Waiting + n <= Modulus - 2
    BY <1>0, <1>1, Quantities DEF WindowsInv, ReachInv
  <1>3. last_unacked' = Wrap(last_unacked + n) /\ last_handled' = last_handled /\ slots' = slots
        /\ last_announced' = last_announced
    BY DEF Insert, ClientIdle
  <1>4. Wrap(last_handled + Waiting) = last_unacked
    BY <1>0, WaitingBack DEF Waiting
  <1>5. last_unacked' = Wrap(last_handled + (Waiting + n))
    BY <1>0, <1>2, <1>3, <1>4, WrapOn
  <1>6. Waiting' = Waiting + n
    <2>1. SeqSub(Wrap(last_handled + (Waiting + n)), last_handled) = Waiting + n
      BY <1>0, <1>2, WrapThenSub
    <2> QED
      BY <1>3, <1>5, <2>1 DEF Waiting
  <1>7. Announced' = Announced
    BY <1>3 DEF Announced
  <1>8. ASSUME NEW k \in SeqNums
        PROVE  /\ Age(k) <= Half => Age(k)' = Age(k) + n
               /\ Age(k) = MaxSeq => Age(k)' = n - 1
    <2>1. SeqSub(Wrap(last_unacked + n), k) =
             IF SeqSub(last_unacked, k) + n < Modulus THEN SeqSub(last_unacked, k) + n
             ELSE SeqSub(last_unacked, k) + n - Modulus
      BY <1>0, SubFurther
    <2>2. Age(k)' = IF Age(k) + n < Modulus THEN Age(k) + n ELSE Age(k) + n - Modulus
      BY <1>3, <2>1 DEF Age
    <2>3. Age(k) \in 0 .. MaxSeq
      BY AgeRange
    <2> QED
      BY <1>0, <2>2, <2>3
  <1>9. /\ DOMAIN messages' = DOMAIN messages \cup {k \in SeqNums : SeqSub(k, last_unacked) \in 1 .. n}
        /\ \A k \in DOMAIN messages' :
              messages'[k] = IF k \in DOMAIN messages THEN messages[k]
                             ELSE [sub |-> s, frag |-> SeqSub(k, last_unacked),
                                   last |-> SeqSub(k, last_unacked) = n]
    BY DEF Insert
  <1>10. ASSUME NEW d \in 1 .. Waiting PROVE Content(d)' = Content(d)
    <2>1. PICK k : k = Wrap(last_handled + d)
      OBVIOUS
    <2>2. k \in SeqNums /\ Age(k) = Waiting - d
      BY <1>0, <2>1, AgeOfWaiting
    <2>3. k \in DOMAIN messages => k \in DOMAIN messages' /\ messages'[k] = messages[k]
      BY <1>9
    <2>4. SeqSub(k, last_unacked) \notin 1 .. n
      <3>1. SeqSub(k, last_unacked) = IF Age(k) = 0 THEN 0 ELSE Modulus - Age(k)
        BY <1>0, <2>2, SubBack DEF Age
      <3> QED
        BY <1>0, <1>2, <2>2, <3>1
    <2>5. k \notin DOMAIN messages => k \notin DOMAIN messages'
      BY <1>9, <2>4
    <2> QED
      BY <1>3, <2>1, <2>3, <2>5 DEF Content
  <1>11. ASSUME NEW j \in 1 .. n, NEW e, e = Waiting + j
         PROVE  Content(e)' = [sub |-> s, frag |-> j, last |-> j = n]
    <2>1. PICK k : k = Wrap(last_unacked + j)
      OBVIOUS
    <2>2. k \in SeqNums /\ SeqSub(k, last_unacked) = j
      BY <1>0, <2>1, WrapThenSub
    <2>3. k \notin DOMAIN messages
      BY <1>0, <1>1, <2>2, HeldIsYoung, SubBack, AgeRange DEF Age
    <2>4. k \in DOMAIN messages' /\ messages'[k] = [sub |-> s, frag |-> j, last |-> j = n]
      <3>1. k \in DOMAIN messages'
        BY <1>9, <2>2
      <3> QED
        BY <1>9, <2>2, <2>3, <3>1
    <2>5. Wrap(last_handled + (Waiting + j)) = k
      BY <1>0, <1>2, <1>4, <2>1, WrapOn
    <2> QED
      BY <1>3, <1>11, <2>4, <2>5 DEF Content
  <1> QED
    BY <1>1, <1>2, <1>6, <1>7, <1>8, <1>10, <1>11

\* The ages of a number as the last of its window and as the first of the next.
AckAges ==
    \A k \in SeqNums : AckAge(k) = IF Age(k) = MaxSeq THEN 0 ELSE Age(k) + 1

\* In every state.
LEMMA AckAgesAre == Typed => AckAges
  BY AgeRange DEF AckAges

\* What survives a push is as right as before.
LEMMA PacketsAfterPush ==
    ASSUME Typed, WindowsInv, NEW s \in Submessages, NEW n \in 1 .. MaxFragments,
           HasRoom, Insert(s, n), ClientIdle, IInv', Typed',
           NEW p, PacketOK(p), SeqSub(last_unacked', NumberOf(p)) <= Half
    PROVE  PacketOK(p)'
  <1>0. /\ Half \in Nat /\ Modulus = 2 * Half /\ MaxSeq = Modulus - 1
        /\ Waiting \in Nat /\ n \in Nat /\ n >= 1 /\ n <= Half - 1
    BY Quantities
  <1>1. /\ Waiting' = Waiting + n
        /\ \A k \in SeqNums : Age(k) <= Half => Age(k)' = Age(k) + n
        /\ \A k \in SeqNums : Age(k) = MaxSeq => Age(k)' = n - 1
        /\ \A d \in 1 .. Waiting : Content(d)' = Content(d)
    BY PushMoves
  <1>2. slots' = slots /\ last_handled' = last_handled
    BY DEF ClientIdle
  <1>3. CASE p.type = "DATA" /\ DataOK(p)
    <2>1. NumberOf(p) = p.num
      BY <1>3 DEF NumberOf
    <2>2. p.num \in SeqNums /\ Age(p.num) \in Nat /\ Age(p.num)' = Age(p.num) + n
      BY <1>1, <1>3, AgeRange, Quantities DEF DataOK
    <2>3. Age(p.num)' <= Half
      BY <2>1 DEF Age
    <2>4. PICK d : d = Waiting - Age(p.num)
      OBVIOUS
    <2>5. Age(p.num) < Waiting => p.msg = Content(d)'
      BY <1>0, <1>1, <1>3, <2>2, <2>4 DEF DataOK
    <2>6. d = Waiting' - Age(p.num)'
      BY <1>0, <1>1, <2>2, <2>4
    <2>7. Age(p.num)' < Waiting' => p.msg = Content(Waiting - Age(p.num))'
      BY <1>0, <1>1, <2>2, <2>5, <2>6
    <2>8. DataOK(p)'
      BY <1>3, <2>2, <2>3, <2>7 DEF DataOK
    <2> QED
      BY <1>3, <2>8 DEF PacketOK
  <1>4. CASE p.type = "HEARTBEAT" /\ HeartbeatOK(p)
    <2>1. NumberOf(p) = p.last
      BY <1>4 DEF NumberOf
    <2>2. HeartbeatOK(p)'
      BY <1>4, <2>1 DEF HeartbeatOK, Age
    <2> QED
      BY <1>4, <2>2 DEF PacketOK
  <1>5. CASE p.type = "ACKNACK" /\ AcknackOK(p)
    <2>1. PICK f : f = p.ack.first
      OBVIOUS
    <2>2. NumberOf(p) = f
      BY <1>5, <2>1 DEF NumberOf
    <2>3. f \in SeqNums /\ AckAge(f) <= Half + 1
      BY <1>5, <2>1 DEF AcknackOK
    <2>4. Age(f)' <= Half
      BY <2>2 DEF Age
    <2>5. PICK a : a = AckAge(f)
      OBVIOUS
    <2>6. /\ a = IF Age(f) = MaxSeq THEN 0 ELSE Age(f) + 1
          /\ Age(f) \in 0 .. MaxSeq
      BY <2>3, <2>5, AgeRange
    <2>7. AckAge(f)' = IF Age(f)' = MaxSeq THEN 0 ELSE Age(f)' + 1
      <3>1. AckAges'
        BY AckAgesAre, PTL
      <3> QED
        BY <2>3, <3>1 DEF AckAges
    <2>8. a \in Nat /\ AckAge(f)' = a + n /\ a + n <= Half + 1
      <3>1. CASE Age(f) = MaxSeq
        BY <1>0, <1>1, <2>3, <2>4, <2>6, <2>7, <3>1
      <3>2. CASE Age(f) # MaxSeq
        <4>1. Age(f) <= Half /\ a = Age(f) + 1
          BY <1>0, <2>3, <2>5, <2>6, <3>2
        <4>2. Age(f)' = Age(f) + n
          BY <1>1, <2>3, <4>1
        <4>3. Half # MaxSeq /\ Half < MaxSeq
          BY <1>0, Quantities
        <4> QED
          BY <1>0, <2>4, <2>6, <2>7, <4>1, <4>2, <4>3
      <3> QED
        BY <3>1, <3>2
    <2>9. \/ a > Waiting
          \/ /\ Waiting + 1 - a <= History
             /\ \A d \in 1 .. Waiting - a : At(slots, last_handled, d) # Empty
      BY <1>5, <2>1, <2>5 DEF AcknackOK
    <2>10. \/ a + n > Waiting + n
           \/ /\ (Waiting + n) + 1 - (a + n) <= History
              /\ \A d \in 1 .. (Waiting + n) - (a + n) : At(slots', last_handled', d) # Empty
      <3>1. Waiting - a = (Waiting + n) - (a + n) /\ (a > Waiting <=> a + n > Waiting + n)
            /\ Waiting + 1 - a = (Waiting + n) + 1 - (a + n)
        BY <1>0, <2>8
      <3> QED
        BY <1>2, <2>9, <3>1
    <2>11. AcknackOK(p)'
      BY <1>1, <2>1, <2>3, <2>8, <2>10 DEF AcknackOK
    <2> QED
      BY <1>5, <2>11 DEF PacketOK
  <1> QED
    BY <1>3, <1>4, <1>5 DEF PacketOK

\* push_submessage.
LEMMA PushKeeps ==
    ASSUME DownInv, NEW t \in Writers, NEW s \in Submessages, NEW n \in 1 .. MaxFragments,
           Push(t, s, n)
    PROVE  DownInv'
  <1>1. /\ Typed /\ WindowsInv /\ IInv /\ HasRoom /\ Insert(s, n) /\ UNCHANGED blocked
        /\ ExpireOld /\ ClientIdle
    BY DEF DownInv, Typed, Push, PushNow
  <1>2. IInv'
    BY <1>1, InsertPreserves DEF IInv, StreamTypeOK
  <1>3. /\ UNCHANGED <<slots, last_handled, last_announced, spinning>> /\ delivered' = <<>>
        /\ <<>> \in Seq(Seq(Messages))
    BY <1>1 DEF ClientIdle
  <1>4. Typed'
    BY <1>1, <1>2, <1>3 DEF Typed, ClientTyped, ClientAssumption, Client!SlotAssumption
  <1>5. /\ Waiting' = Waiting + n /\ Occupancy' = Occupancy + n
        /\ Announced' = Announced
        /\ \A d \in 1 .. Waiting : Content(d)' = Content(d)
        /\ \A j \in 1 .. n : \A e :
              e = Waiting + j => Content(e)' = [sub |-> s, frag |-> j, last |-> j = n]
    BY <1>1, PushMoves
  <1>6. Waiting \in Nat /\ Occupancy \in Nat /\ n \in Nat /\ n >= 1 /\ Announced \in Nat
        /\ History \in Nat
    BY <1>1, Quantities
  <1>7. ReachInv'
    BY <1>1, <1>5, <1>6 DEF WindowsInv, ReachInv
  <1>8. StoredInv'
    <2>1. ASSUME NEW d \in 1 .. History, At(slots, last_handled, d) # Empty
          PROVE  d <= Waiting' /\ At(slots, last_handled, d) = Content(d)'
      <3>1. d <= Waiting /\ At(slots, last_handled, d) = Content(d)
        BY <1>1, <2>1 DEF WindowsInv, StoredInv
      <3> QED
        BY <1>5, <1>6, <3>1
    <2> QED
      BY <1>3, <2>1 DEF StoredInv
  <1>9. AnnouncedInv' /\ IdleInv'
    BY <1>1, <1>3, <1>5 DEF WindowsInv, AnnouncedInv, IdleInv
  <1>10. KeptInv'
    <2>1. Waiting' - Occupancy' = Waiting - Occupancy
      BY <1>5, <1>6
    <2> QED
      BY <1>1, <1>3, <2>1 DEF WindowsInv, KeptInv
  <1>11. WholeInv'
    <2>1. PICK w \in Nat : w = Waiting
      BY <1>6
    <2>2. Content(1)'.frag = 1
      <3>1. CASE w = 0
        <4>1. Content(1)' = [sub |-> s, frag |-> 1, last |-> 1 = n]
          BY <1>5, <1>6, <2>1, <3>1
        <4> QED
          BY <4>1
      <3>2. CASE w # 0
        BY <1>1, <1>5, <2>1, <3>2 DEF WindowsInv, WholeInv
      <3> QED
        BY <3>1, <3>2
    <2>3. ASSUME NEW e, e = Waiting' PROVE Content(e)'.last
      <3>1. Content(e)' = [sub |-> s, frag |-> n, last |-> n = n]
        BY <1>5, <1>6, <2>3
      <3>2. Content(e)'.last = (n = n)
        BY <3>1
      <3> QED
        BY <3>2, Zenon
    <2>4. Content(Waiting)'.last
      <3>1. PICK e : e = Waiting'
        OBVIOUS
      <3> QED
        BY <2>3, <3>1
    <2>5. ASSUME NEW d \in 1 .. Waiting', d + 1 <= Waiting'
          PROVE  Follows(Content(d)', Content(d + 1)')
      <3>1. CASE d + 1 <= w
        <4>1. d \in 1 .. Waiting /\ d + 1 \in 1 .. Waiting
          BY <1>6, <2>1, <3>1
        <4>2. Follows(Content(d), Content(d + 1))
          BY <1>1, <2>1, <3>1, <4>1 DEF WindowsInv, WholeInv
        <4> QED
          BY <1>5, <4>1, <4>2
      <3>2. CASE d = w
        <4>1. d \in 1 .. Waiting /\ Waiting > 0
          BY <1>6, <2>1, <3>2
        <4>2. Content(d)'.last
          BY <1>1, <1>5, <2>1, <3>2, <4>1 DEF WindowsInv, WholeInv
        <4>3. PICK e : e = d + 1
          OBVIOUS
        <4>4. Content(e)' = [sub |-> s, frag |-> 1, last |-> 1 = n]
          BY <1>5, <1>6, <2>1, <3>2, <4>3
        <4> QED
          BY <4>2, <4>3, <4>4 DEF Follows
      <3>3. CASE d > w
        <4>1. PICK j : j = d - w
          OBVIOUS
        <4>2. j \in 1 .. n /\ j + 1 \in 1 .. n /\ d = Waiting + j /\ d + 1 = Waiting + (j + 1)
          BY <1>5, <1>6, <2>1, <2>5, <3>3, <4>1
        <4>3. /\ Content(d)' = [sub |-> s, frag |-> j, last |-> j = n]
              /\ Content(d + 1)' = [sub |-> s, frag |-> j + 1, last |-> j + 1 = n]
          BY <1>5, <4>2
        <4>4. j # n
          BY <4>2
        <4>5. ~Content(d)'.last /\ Content(d)'.sub = s /\ Content(d)'.frag = j
          <5>1. Content(d)'.last = (j = n)
            BY <4>3
          <5>2. ~Content(d)'.last
            BY <4>4, <5>1, Zenon
          <5> QED
            BY <4>3, <5>2
        <4>6. Content(d + 1)'.sub = s /\ Content(d + 1)'.frag = j + 1
          BY <4>3
        <4> QED
          BY <4>5, <4>6 DEF Follows
      <3> QED
        BY <1>6, <2>1, <3>1, <3>2, <3>3
    <2> QED
      BY <2>2, <2>4, <2>5 DEF WholeInv, Follows
  <1>12. PacketsInv'
    <2>1. ASSUME NEW p \in network' PROVE PacketOK(p)'
      <3>1. p \in network /\ SeqSub(last_unacked', NumberOf(p)) <= Half
        BY <1>1, <2>1 DEF ExpireOld
      <3>2. PacketOK(p)
        BY <3>1 DEF DownInv, PacketsInv
      <3> QED
        BY <1>1, <1>2, <1>4, <3>1, <3>2, PacketsAfterPush
    <2> QED
      BY <2>1 DEF PacketsInv
  <1> QED
    BY <1>4, <1>7, <1>8, <1>9, <1>10, <1>11, <1>12 DEF DownInv, WindowsInv

----------------------------------------------------------------------------
(* The stream as a whole *)

\* The invariant is inductive under every step of either side.
LEMMA DownStep == DownInv /\ [Next]_vars => DownInv'
  <1> SUFFICES ASSUME DownInv, [Next]_vars PROVE DownInv'
    OBVIOUS
  <1>1. ASSUME NEW t \in Writers, NEW s \in Submessages, NEW n \in 1 .. MaxFragments, Push(t, s, n)
        PROVE  DownInv'
    BY <1>1, PushKeeps
  <1>2. CASE SendNext
    BY <1>2, SendNextKeeps
  <1>3. CASE SendHeartbeat
    BY <1>3, SendHeartbeatKeeps
  <1>4. ASSUME NEW p \in network, ProcessAcknack(p) PROVE DownInv'
    BY <1>4, ProcessAcknackKeeps
  <1>5. ASSUME NEW p \in network, ReceiveData(p) \/ ReceiveHeartbeat(p) PROVE DownInv'
    BY <1>5, ReceiveDataIs, ReceiveHeartbeatIs, AnswerKeeps
  <1>6. CASE UNCHANGED vars
    <2>1. UNCHANGED <<messages, last_unacked, last_sent, first_unacked, blocked, slots, last_handled,
                      last_announced, delivered, spinning, network>>
      BY <1>6 DEF vars, streamVars, clientVars
    <2> QED
      BY <2>1 DEF DownInv, Typed, ClientAssumption, Client!SlotAssumption, IInv, StreamTypeOK,
                  HeldIsWindow, SentWithinWindow, OccupancyBound, Occupancy, ClientTyped,
                  WindowsInv, ReachInv, StoredInv, AnnouncedInv, KeptInv, WholeInv, IdleInv, PacketsInv,
                  PacketOK, DataOK, HeartbeatOK, AcknackOK, Waiting, Announced, Age, AckAge, Content
  <1> QED
    BY <1>1, <1>2, <1>3, <1>4, <1>5, <1>6 DEF Next

\* It holds when the stream is created.
LEMMA DownBegins == ClientAssumption /\ Init => DownInv
  <1> SUFFICES ASSUME ClientAssumption, Init PROVE DownInv
    OBVIOUS
  <1>1. /\ StreamInit /\ network = {} /\ last_unacked = MaxSeq
        /\ slots = [i \in 0 .. History - 1 |-> Empty]
        /\ last_handled = MaxSeq /\ last_announced = MaxSeq /\ delivered = <<>> /\ spinning = FALSE
    BY ClientArith DEF Init, Client!Init, StreamInit
  <1>2. /\ MaxSeq \in SeqNums /\ SeqSub(MaxSeq, MaxSeq) = 0 /\ History \in Nat \ {0}
    BY ArithTypes, SubRange, Ring, Constants DEF MaxSeq, SeqNums, Modulus
  <1>3. <<>> \in Seq(Seq(Messages))
    OBVIOUS
  <1>4. IInv
    BY <1>1, InitHolds
  <1>5. Typed
    BY <1>1, <1>2, <1>3, <1>4 DEF Typed, ClientTyped, Slots
  <1>6. Waiting = 0 /\ Announced = 0
    BY <1>1, <1>2 DEF Waiting, Announced
  <1>7. \A d \in 1 .. History : At(slots, last_handled, d) = Empty
    BY <1>1, <1>2, PlaceInjective DEF At
  <1>8. Occupancy \in Nat
    BY <1>5, Quantities
  <1>9. ReachInv /\ StoredInv /\ AnnouncedInv /\ KeptInv /\ WholeInv /\ PacketsInv
    BY <1>1, <1>2, <1>6, <1>7, <1>8
       DEF ReachInv, StoredInv, AnnouncedInv, KeptInv, WholeInv, PacketsInv
  <1>10. IdleInv
    <2>1. 1 \in 1 .. History
      BY <1>2
    <2>2. PICK u : u = Client!Units(slots, last_handled)
      OBVIOUS
    <2>3. u \in 0 .. History /\ \A d \in 1 .. u : At(slots, last_handled, d) # Empty
      BY <1>5, <2>2, UnitIsWhole DEF Typed, ClientTyped
    <2>4. u = 0
      BY <1>2, <1>7, <2>1, <2>3
    <2> QED
      BY <1>7, <2>1, <2>2, <2>4 DEF IdleInv
  <1> QED
    BY <1>5, <1>9, <1>10 DEF DownInv, WindowsInv

\* What the two windows hold between them, and what is under way, is right in
\* every reachable state: whatever is lost, late, repeated or reordered, and
\* however the pushes, retransmissions and ACKNACKs of the Agent's threads fall.
THEOREM DownInvariant == Spec => []DownInv
  BY DownlinkAssumption, DownBegins, DownStep, PTL DEF Spec

\* The messages between the two positions are the contents of the windows.
LEMMA OutstandingIs ==
    ASSUME DownInv
    PROVE  /\ DOMAIN Outstanding = 1 .. Waiting
           /\ \A d \in 1 .. Waiting : Outstanding[d] = Content(d)
  <1>1. \A d : LET k == Wrap(last_handled + d)
               IN (IF k \in DOMAIN messages THEN messages[k] ELSE slots[Client!SlotOf(k)]) = Content(d)
    BY DEF Content, At, Place
  <1> QED
    BY <1>1 DEF Outstanding, Waiting

\* No accepted submessage is lost between the two sides: what the Agent no
\* longer holds and the Client has not delivered is in a slot of the Client.
THEOREM NothingIsLost == Spec => []NothingLost
  <1>1. DownInv => NothingLost
    <2> SUFFICES ASSUME DownInv, NEW d \in DOMAIN Outstanding PROVE Outstanding[d] # Empty
      BY DEF NothingLost
    <2>1. d \in 1 .. Waiting /\ Outstanding[d] = Content(d)
      BY OutstandingIs
    <2> QED
      BY <2>1, ContentIs DEF DownInv, WindowsInv
  <1> QED
    BY <1>1, DownInvariant, PTL

\* When a handler of the Client returns nothing deliverable is left: the loop of
\* read_stream would run for it only when something else arrives.
THEOREM NothingWaits == Spec => []NothingDeliverable
  <1>1. DownInv => NothingDeliverable
    BY DEF DownInv, WindowsInv, IdleInv, NothingDeliverable, Client!NothingDeliverable
  <1> QED
    BY <1>1, DownInvariant, PTL

\* The Client is never behind the Agent by more than the Agent's window and its
\* own history together, and has heard of no number the Agent has not given,
\* wherever the numbers wrap.
THEOREM WindowsStayTogether == Spec => []WindowsTogether
  <1>1. DownInv => WindowsTogether
    <2> SUFFICES ASSUME DownInv PROVE WindowsTogether
      OBVIOUS
    <2>1. /\ Waiting <= Occupancy + History - 1 /\ Announced <= Waiting
          /\ Waiting \in Nat /\ Occupancy \in Nat /\ History \in Nat
      BY Quantities DEF DownInv, WindowsInv, ReachInv
    <2>2. Client!TypeOK
      <3>1. delivered \in Seq(Seq(Messages))
        BY DEF DownInv, Typed, ClientTyped
      <3>2. \A i \in DOMAIN delivered : \A j \in DOMAIN delivered[i] : delivered[i][j] \in Messages
        BY <3>1
      <3> QED
        BY <3>2, ClientArith DEF DownInv, Typed, ClientTyped, Slots, Client!TypeOK
    <2>3. StreamTypeOK
      BY DEF DownInv, Typed, IInv
    <2> QED
      BY <2>1, <2>2, <2>3 DEF WindowsTogether, TypeOK, Waiting, Announced
  <1> QED
    BY <1>1, DownInvariant, PTL

\* A stored message stays until the very step that hands it to the application,
\* whatever the network repeats or delays.
THEOREM NothingIsForgotten == Spec => NothingForgotten
  <1> DEFINE Kept ==
        \A i \in 0 .. History - 1 :
          slots[i] # Empty => slots'[i] = slots[i] \/ Handed(delivered', slots[i])
  <1>1. ASSUME DownInv, [Next]_vars PROVE Kept
    <2>1. ASSUME NEW s, NEW n, Takes(s, n) PROVE Kept
      BY <1>1, <2>1, DeliversKeepsStored DEF Takes, DownInv
    <2>2. ASSUME NEW p, ReceiveData(p) \/ ReceiveHeartbeat(p) PROVE Kept
      <3>1. \E s, n : Takes(s, n)
        BY <1>1, <2>2, ReceiveDataIs, ReceiveHeartbeatIs
      <3> QED
        BY <2>1, <3>1
    <2>3. CASE slots' = slots
      BY <2>3
    <2> QED
      BY <1>1, <2>2, <2>3
         DEF Next, vars, clientVars, Push, SendNext, SendHeartbeat, ProcessAcknack, ClientIdle
  <1>2. Kept => [\A i \in 0 .. History - 1 :
                   slots[i] # Empty =>
                      \/ slots'[i] = slots[i]
                      \/ \E u \in DOMAIN delivered' : \E j \in DOMAIN delivered'[u] :
                            delivered'[u][j] = slots[i]]_Client!vars
    BY DEF Handed
  <1> HIDE DEF Kept
  <1> QED
    BY <1>1, <1>2, DownInvariant, PTL DEF Spec, NothingForgotten, Client!NothingForgotten

----------------------------------------------------------------------------
(* The reliable channel *)

\* What Submitted collects from the first d messages of out, for each d up to n.
Collects(f, n, out) ==
    f = [d \in 0 .. n |->
            IF d = 0 THEN <<>>
            ELSE IF out[d] # Empty /\ out[d].last THEN Append(f[d - 1], out[d].sub) ELSE f[d - 1]]

\* It can be collected.
LEMMA CollectsExist == ASSUME NEW n \in Nat, NEW out PROVE \E f : Collects(f, n, out)
  <1> DEFINE Missing == {k \in Nat : ~\E f : Collects(f, k, out)}
             Then(d, v) == IF out[d] # Empty /\ out[d].last THEN Append(v, out[d].sub) ELSE v
  <1>1. Missing \in SUBSET Nat
    OBVIOUS
  <1>2. ASSUME NEW k \in Missing, \A j \in Missing : k <= j PROVE FALSE
    <2>1. CASE k = 0
      <3>1. PICK f : f = [d \in 0 .. 0 |-> <<>>]
        OBVIOUS
      <3>2. Collects(f, 0, out)
        BY <3>1 DEF Collects
      <3> QED
        BY <1>2, <2>1, <3>2
    <2>2. CASE k # 0
      <3>1. k - 1 \in Nat /\ k - 1 \notin Missing
        BY <1>2, <2>2
      <3>2. PICK g : Collects(g, k - 1, out)
        BY <3>1
      <3>3. g = [d \in 0 .. k - 1 |-> IF d = 0 THEN <<>> ELSE Then(d, g[d - 1])]
        BY <3>2 DEF Collects
      <3> HIDE DEF Then
      <3>4. PICK f : f = [d \in 0 .. k |-> IF d = 0 THEN <<>> ELSE Then(d, g[d - 1])]
        OBVIOUS
      <3>5. \A d \in 0 .. k - 1 : f[d] = g[d]
        <4>1. \A d \in 0 .. k - 1 : /\ f[d] = IF d = 0 THEN <<>> ELSE Then(d, g[d - 1])
                                  /\ g[d] = IF d = 0 THEN <<>> ELSE Then(d, g[d - 1])
          BY <3>1, <3>3, <3>4
        <4> QED
          BY <4>1
      <3>6. \A d \in 0 .. k : d # 0 => f[d - 1] = g[d - 1]
        BY <3>1, <3>5
      <3>7. f = [d \in 0 .. k |-> IF d = 0 THEN <<>> ELSE Then(d, f[d - 1])]
        BY <3>4, <3>6
      <3>8. Collects(f, k, out)
        BY <3>7 DEF Collects, Then
      <3> QED
        BY <1>2, <3>8
    <2> QED
      BY <2>1, <2>2
  <1> HIDE DEF Missing
  <1>3. Missing = {}
    BY <1>1, <1>2, LeastIs
  <1> QED
    BY <1>3 DEF Missing

\* f has the submessages that end in the first d messages of out, for each d.
Upto(f, out) ==
    /\ f \in [0 .. Len(out) -> Seq(Submessages)]
    /\ f[0] = <<>>
    /\ \A d \in 1 .. Len(out) :
          f[d] = IF out[d].last THEN Append(f[d - 1], out[d].sub) ELSE f[d - 1]

\* The mapping of the queue is the last of them.
LEMMA SubmittedIs ==
    ASSUME ClientAssumption, NEW out \in Seq(Messages)
    PROVE  \E f : Upto(f, out) /\ Submitted(out) = f[Len(out)]
  <1>1. PICK l \in Nat : l = Len(out)
    OBVIOUS
  <1>2. PICK f : Collects(f, l, out) /\ Submitted(out) = f[l]
    <2>1. \E f : f = [d \in 0 .. Len(out) |->
                        IF d = 0 THEN <<>>
                        ELSE IF out[d] # Empty /\ out[d].last
                             THEN Append(f[d - 1], out[d].sub) ELSE f[d - 1]]
      BY <1>1, CollectsExist DEF Collects
    <2> QED
      BY <1>1, <2>1 DEF Submitted, Collects
  <1>3. \A d \in 1 .. l : out[d] # Empty /\ out[d].sub \in Submessages
    <2>1. Empty \notin Messages
      BY Ring
    <2>2. \A d \in 1 .. l : out[d] \in Messages
      BY <1>1
    <2> QED
      BY <2>1, <2>2 DEF Messages
  <1>4. /\ DOMAIN f = 0 .. l /\ f[0] = <<>>
        /\ \A d \in 1 .. l :
              f[d] = IF out[d].last THEN Append(f[d - 1], out[d].sub) ELSE f[d - 1]
    <2>1. f = [d \in 0 .. l |->
                 IF d = 0 THEN <<>>
                 ELSE IF out[d] # Empty /\ out[d].last
                      THEN Append(f[d - 1], out[d].sub) ELSE f[d - 1]]
      BY <1>2 DEF Collects
    <2>2. f[0] = <<>> /\ DOMAIN f = 0 .. l
      BY <2>1
    <2>3. ASSUME NEW d \in 1 .. l
          PROVE  f[d] = IF out[d].last THEN Append(f[d - 1], out[d].sub) ELSE f[d - 1]
      <3>1. d \in 0 .. l /\ d # 0 /\ out[d] # Empty
        BY <1>3
      <3>2. f[d] = IF d = 0 THEN <<>>
                   ELSE IF out[d] # Empty /\ out[d].last
                        THEN Append(f[d - 1], out[d].sub) ELSE f[d - 1]
        BY <2>1, <3>1
      <3> QED
        BY <3>1, <3>2
    <2> QED
      BY <2>2, <2>3
  <1>5. \A d \in 0 .. l : f[d] \in Seq(Submessages)
    <2> DEFINE Wrong == {d \in 0 .. l : f[d] \notin Seq(Submessages)}
    <2>1. Wrong \in SUBSET Nat
      OBVIOUS
    <2>2. ASSUME NEW d \in Wrong, \A e \in Wrong : d <= e PROVE FALSE
      <3>1. d \in 0 .. l /\ f[d] \notin Seq(Submessages)
        OBVIOUS
      <3>2. d # 0
        <4>1. <<>> \in Seq(Submessages)
          OBVIOUS
        <4> QED
          BY <1>4, <3>1, <4>1, Zenon
      <3>3. d \in 1 .. l /\ d - 1 \in 0 .. l /\ d - 1 \notin Wrong
        BY <2>2, <3>1, <3>2
      <3>4. f[d - 1] \in Seq(Submessages)
        BY <3>3
      <3>5. Append(f[d - 1], out[d].sub) \in Seq(Submessages)
        BY <1>3, <3>3, <3>4, AppendProperties
      <3> QED
        BY <1>4, <3>1, <3>3, <3>4, <3>5, Zenon
    <2> HIDE DEF Wrong
    <2>3. Wrong = {}
      BY <2>1, <2>2, LeastIs
    <2> QED
      BY <2>3 DEF Wrong
  <1>6. f \in [0 .. l -> Seq(Submessages)]
    <2>1. f = [d \in 0 .. l |-> f[d]]
      BY <1>2 DEF Collects
    <2> QED
      BY <1>5, <2>1
  <1> QED
    BY <1>1, <1>2, <1>4, <1>6 DEF Upto

\* Where no submessage ends nothing is collected.
LEMMA NoneEnds ==
    ASSUME NEW out \in Seq(Messages), NEW f, Upto(f, out),
           NEW a \in 0 .. Len(out), NEW b \in a .. Len(out), \A d \in a + 1 .. b : ~out[d].last
    PROVE  f[b] = f[a]
  <1>1. PICK l \in Nat : l = Len(out)
    OBVIOUS
  <1> DEFINE Wrong == {d \in a .. b : f[d] # f[a]}
  <1>2. Wrong \in SUBSET Nat
    BY <1>1
  <1>3. ASSUME NEW d \in Wrong, \A e \in Wrong : d <= e PROVE FALSE
    <2>1. d \in a .. b /\ f[d] # f[a] /\ d # a
      OBVIOUS
    <2>2. /\ d \in a + 1 .. b /\ d - 1 \in a .. b /\ d \in 1 .. l /\ d - 1 \notin Wrong
      BY <1>1, <1>3, <2>1
    <2>3. f[d - 1] = f[a]
      BY <2>2
    <2> QED
      BY <1>1, <2>1, <2>2, <2>3 DEF Upto
  <1> HIDE DEF Wrong
  <1>4. Wrong = {}
    BY <1>2, <1>3, LeastIs
  <1> QED
    BY <1>1, <1>4 DEF Wrong

\* What is collected from the first messages stays so if more come.
LEMMA MoreCome ==
    ASSUME NEW out \in Seq(Messages), NEW more \in Seq(Messages), NEW f, NEW g,
           Upto(f, out), Upto(g, more), Len(out) <= Len(more),
           \A d \in 1 .. Len(out) : more[d] = out[d]
    PROVE  g[Len(out)] = f[Len(out)]
  <1>1. PICK l \in Nat, m \in Nat : l = Len(out) /\ m = Len(more)
    OBVIOUS
  <1> DEFINE Wrong == {d \in 0 .. l : f[d] # g[d]}
  <1>2. Wrong \in SUBSET Nat
    OBVIOUS
  <1>3. ASSUME NEW d \in Wrong, \A e \in Wrong : d <= e PROVE FALSE
    <2>1. d \in 0 .. l /\ f[d] # g[d]
      OBVIOUS
    <2>2. d # 0
      BY <2>1 DEF Upto
    <2>3. d \in 1 .. l /\ d \in 1 .. m /\ d - 1 \in 0 .. l /\ d - 1 \notin Wrong
      BY <1>1, <1>3, <2>1, <2>2
    <2>4. f[d - 1] = g[d - 1] /\ more[d] = out[d]
      BY <1>1, <2>3
    <2> QED
      BY <1>1, <2>1, <2>3, <2>4 DEF Upto
  <1> HIDE DEF Wrong
  <1>4. Wrong = {}
    BY <1>2, <1>3, LeastIs
  <1> QED
    BY <1>1, <1>4 DEF Wrong

\* Appending to the second of two sequences.
LEMMA ConcatAppend ==
    \A a, b \in Seq(Submessages), x \in Submessages : Append(a \o b, x) = a \o Append(b, x)
  <1> SUFFICES ASSUME NEW a \in Seq(Submessages), NEW b \in Seq(Submessages), NEW x \in Submessages
               PROVE  Append(a \o b, x) = a \o Append(b, x)
    OBVIOUS
  <1>1. a \o b \in Seq(Submessages) /\ <<x>> \in Seq(Submessages)
    BY ConcatProperties
  <1>2. Append(a \o b, x) = (a \o b) \o <<x>> /\ Append(b, x) = b \o <<x>>
    BY <1>1, AppendIsConcat
  <1>3. (a \o b) \o <<x>> = a \o (b \o <<x>>)
    BY <1>1, ConcatAssociative
  <1> QED
    BY <1>2, <1>3

\* The messages but for the first n.
IsRest(rest, out, n) ==
    Len(rest) = Len(out) - n /\ \A d \in 1 .. Len(rest) : rest[d] = out[n + d]

\* What f collects from out is what it collects from the first n messages and
\* then what g collects from the rest.
Adjoins(f, out, n, g, rest) == f[Len(out)] = f[n] \o g[Len(rest)]

LEMMA RestFollows ==
    ASSUME ClientAssumption, NEW out \in Seq(Messages), NEW rest \in Seq(Messages), NEW f, NEW g,
           Upto(f, out), Upto(g, rest), NEW n \in 0 .. Len(out), IsRest(rest, out, n)
    PROVE  Adjoins(f, out, n, g, rest)
  <1>1. PICK l \in Nat, m \in Nat : l = Len(out) /\ m = Len(rest)
    OBVIOUS
  <1>2. n \in Nat /\ n <= l /\ m = l - n /\ \A d \in 1 .. m : rest[d] = out[n + d]
    BY <1>1 DEF IsRest
  <1> DEFINE Joined(d) == f[n + d] = f[n] \o g[d]
             Wrong == {d \in 0 .. m : ~Joined(d)}
  <1>3. f[n] \in Seq(Submessages) /\ g[0] = <<>> /\ \A d \in 0 .. m : g[d] \in Seq(Submessages)
    BY <1>1, <1>2 DEF Upto
  <1>4. Joined(0)
    <2>1. f[n] \o <<>> = f[n]
      BY <1>3, ConcatEmptySeq
    <2>2. n + 0 = n
      BY <1>2
    <2> QED
      BY <1>3, <2>1, <2>2, Zenon
  <1>5. ASSUME NEW d \in 1 .. m, Joined(d - 1) PROVE Joined(d)
    <2>1. d - 1 \in 0 .. m /\ n + d \in 1 .. l /\ n + (d - 1) = (n + d) - 1
      BY <1>2
    <2>2. f[(n + d) - 1] = f[n] \o g[d - 1]
      BY <1>5, <2>1, Zenon
    <2>3. rest[d] = out[n + d] /\ rest[d].sub \in Submessages
      <3>1. rest[d] \in Messages
        BY <1>1
      <3> QED
        BY <1>2, <3>1 DEF Messages
    <2>4. /\ f[n + d] = IF rest[d].last THEN Append(f[(n + d) - 1], rest[d].sub) ELSE f[(n + d) - 1]
          /\ g[d] = IF rest[d].last THEN Append(g[d - 1], rest[d].sub) ELSE g[d - 1]
      <3>1. \A e \in 1 .. l :
               f[e] = IF out[e].last THEN Append(f[e - 1], out[e].sub) ELSE f[e - 1]
        BY <1>1, Zenon DEF Upto
      <3>2. \A e \in 1 .. m :
               g[e] = IF rest[e].last THEN Append(g[e - 1], rest[e].sub) ELSE g[e - 1]
        BY <1>1, Zenon DEF Upto
      <3>3. f[n + d] = IF out[n + d].last THEN Append(f[(n + d) - 1], out[n + d].sub)
                       ELSE f[(n + d) - 1]
        BY <2>1, <3>1, Zenon
      <3> QED
        BY <2>3, <3>2, <3>3, Zenon
    <2>5. Append(f[n] \o g[d - 1], rest[d].sub) = f[n] \o Append(g[d - 1], rest[d].sub)
      <3>1. PICK a \in Seq(Submessages), b \in Seq(Submessages), x \in Submessages :
               a = f[n] /\ b = g[d - 1] /\ x = rest[d].sub
        BY <1>3, <2>1, <2>3
      <3>2. Append(a \o b, x) = a \o Append(b, x)
        BY ConcatAppend, Zenon
      <3> QED
        BY <3>1, <3>2, Zenon
    <2>6. CASE rest[d].last
      BY <2>2, <2>4, <2>5, <2>6, Zenon
    <2>7. CASE ~rest[d].last
      BY <2>2, <2>4, <2>7, Zenon
    <2> QED
      BY <2>6, <2>7
  <1> HIDE DEF Joined
  <1>6. Wrong \in SUBSET Nat
    OBVIOUS
  <1>7. ASSUME NEW d \in Wrong, \A e \in Wrong : d <= e PROVE FALSE
    <2>1. d \in 0 .. m /\ ~Joined(d)
      OBVIOUS
    <2>2. d # 0
      BY <1>4, <2>1
    <2>3. d \in 1 .. m /\ d - 1 \in 0 .. m /\ d - 1 \notin Wrong
      BY <1>7, <2>1, <2>2
    <2> QED
      BY <1>5, <2>1, <2>3
  <1> HIDE DEF Wrong
  <1>8. Wrong = {}
    BY <1>6, <1>7, LeastIs
  <1>9. Joined(m)
    BY <1>8 DEF Wrong
  <1>10. f[n + m] = f[n] \o g[m]
    BY <1>9 DEF Joined
  <1>11. n + m = l
    BY <1>2
  <1> QED
    BY <1>1, <1>10, <1>11, Zenon DEF Adjoins

\* A sequence grows by its next element.
LEMMA GrowsBy ==
    ASSUME NEW S, NEW l \in Nat, NEW g \in [1 .. l -> S], NEW i \in 1 .. l
    PROVE  Append([e \in 1 .. i - 1 |-> g[e]], g[i]) = [e \in 1 .. i |-> g[e]]
  <1>1. PICK k \in Nat : k = i - 1
    OBVIOUS
  <1>2. PICK a, b : a = [e \in 1 .. k |-> g[e]] /\ b = [e \in 1 .. i |-> g[e]]
    OBVIOUS
  <1>3. a \in [1 .. k -> S] /\ b \in [1 .. i -> S]
    BY <1>1, <1>2
  <1>4. a \in Seq(S) /\ Len(a) = k /\ b \in Seq(S) /\ Len(b) = i
    BY <1>1, <1>3
  <1>5. PICK x \in S : x = g[i]
    OBVIOUS
  <1>6. PICK c : c = Append(a, x)
    OBVIOUS
  <1>7. /\ c \in Seq(S) /\ Len(c) = k + 1 /\ c[k + 1] = x
        /\ \A e \in 1 .. k : c[e] = a[e]
    BY <1>4, <1>6, AppendProperties
  <1>8. Len(c) = Len(b) /\ \A e \in 1 .. Len(b) : c[e] = b[e]
    BY <1>1, <1>2, <1>4, <1>5, <1>7
  <1>9. c = b
    BY <1>4, <1>7, <1>8, SeqEqual
  <1> QED
    BY <1>1, <1>2, <1>5, <1>6, <1>9

\* The first n messages of out are those of the slots s behind number h.
Matches(s, h, n, out) == \A d \in 1 .. n : At(s, h, d) = out[d]

\* Behind a one submessage ends up to b, at b.
OneEnds(out, a, b) == \A d \in a + 1 .. b : out[d].last <=> d = b

\* One begins behind a.
OneBegins(out, a) == a = 0 \/ out[a].last

\* The unit u is the messages behind a up to b.
Copies(u, out, a, b) == Len(u) = b - a /\ \A j \in 1 .. b - a : u[j] = out[a + j]

\* A unit in the messages it is handed over from.
LEMMA UnitIs ==
    ASSUME NEW s, NEW h, NEW n \in Nat, NEW a \in 0 .. n, NEW b \in 0 .. n, NEW u \in Seq(Messages),
           IsUnit(s, h, a, b, u), NEW out, Matches(s, h, n, out)
    PROVE  a < b /\ Copies(u, out, a, b) /\ OneEnds(out, a, b)
  <1>1. PICK c \in Nat : c = Len(u)
    OBVIOUS
  <1>2. c >= 1 /\ b = a + c /\ c = b - a
    BY <1>1 DEF IsUnit
  <1>3. \A j \in 1 .. c : u[j] = At(s, h, a + j) /\ (u[j].last <=> j = c)
    BY <1>1, Zenon DEF IsUnit
  <1>4. \A j \in 1 .. c : a + j \in 1 .. n
    BY <1>2
  <1>5. \A j \in 1 .. c : u[j] = out[a + j]
    BY <1>3, <1>4 DEF Matches
  <1>6. ASSUME NEW d \in a + 1 .. b PROVE out[d].last <=> d = b
    <2>1. PICK j \in 1 .. c : j = d - a
      BY <1>2
    <2>2. a + j = d /\ (j = c <=> d = b)
      BY <1>2, <2>1
    <2>3. u[j] = out[d] /\ (u[j].last <=> j = c)
      BY <1>3, <1>5, <2>2, Zenon
    <2> QED
      BY <2>2, <2>3, Zenon
  <1> QED
    BY <1>1, <1>2, <1>5, <1>6 DEF Copies, OneEnds

\* The submessages that the units end.
SubsOf(units, out, cut) == [i \in 1 .. Len(units) |-> out[cut[i]].sub]

\* What is handed over is what is collected from its messages.
LEMMA PassedOn ==
    ASSUME ClientAssumption, NEW out \in Seq(Messages), NEW f, Upto(f, out),
           NEW n \in 0 .. Len(out), NEW units \in Seq(Seq(Messages)), NEW s, NEW h, NEW cut,
           CutAt(s, h, 0, n, units, cut), Matches(s, h, n, out)
    PROVE  f[n] = SubsOf(units, out, cut)
  <1>1. PICK l \in Nat, m \in Nat : l = Len(out) /\ m = Len(units)
    OBVIOUS
  <1>2. /\ n \in Nat /\ n <= l /\ cut \in [0 .. m -> 0 .. n] /\ cut[0] = 0 /\ cut[m] = n
        /\ \A i \in 1 .. m : IsUnit(s, h, cut[i - 1], cut[i], units[i])
    BY <1>1 DEF CutAt
  <1>3. PICK g : g = [i \in 1 .. m |-> out[cut[i]].sub]
    OBVIOUS
  <1>4. ASSUME NEW i \in 1 .. m, NEW a \in 0 .. n, NEW b \in 0 .. n, a = cut[i - 1], b = cut[i]
        PROVE  a < b /\ \A d \in a + 1 .. b : out[d].last <=> d = b
    <2>1. PICK u \in Seq(Messages) : u = units[i]
      BY <1>1
    <2>2. IsUnit(s, h, a, b, u)
      BY <1>2, <1>4, <2>1
    <2> QED
      <3>1. n \in Nat
        BY <1>2
      <3>2. a < b /\ OneEnds(out, a, b)
        BY <2>2, <3>1, UnitIs
      <3> QED
        BY <3>2, Zenon DEF OneEnds
  <1>5. \A d \in 1 .. l : out[d].sub \in Submessages
    <2>1. \A d \in 1 .. l : out[d] \in Messages
      BY <1>1
    <2> QED
      BY <2>1 DEF Messages
  <1>6. g \in [1 .. m -> Submessages]
    <2>1. ASSUME NEW i \in 1 .. m PROVE cut[i] \in 1 .. l
      <3>1. PICK a \in 0 .. n, b \in 0 .. n : a = cut[i - 1] /\ b = cut[i]
        <4>1. i - 1 \in 0 .. m /\ i \in 0 .. m
          OBVIOUS
        <4> QED
          BY <1>2, <4>1
      <3>2. a < b
        BY <1>4, <3>1
      <3> QED
        BY <1>2, <3>1, <3>2
    <2> QED
      BY <1>3, <1>5, <2>1
  <1> DEFINE Good(i) == f[cut[i]] = [e \in 1 .. i |-> g[e]]
             Wrong == {i \in 0 .. m : ~Good(i)}
  <1>7. Good(0)
    <2>1. f[0] = <<>> /\ [e \in 1 .. 0 |-> g[e]] = <<>>
      BY DEF Upto
    <2> QED
      BY <1>2, <2>1, Zenon
  <1>8. ASSUME NEW i \in 1 .. m, Good(i - 1) PROVE Good(i)
    <2>1. PICK a \in 0 .. n, b \in 0 .. n : a = cut[i - 1] /\ b = cut[i]
      <3>1. i - 1 \in 0 .. m /\ i \in 0 .. m
        OBVIOUS
      <3> QED
        BY <1>2, <3>1
    <2>2. a < b /\ \A d \in a + 1 .. b : out[d].last <=> d = b
      BY <1>4, <2>1
    <2>3. f[b - 1] = f[a]
      <3>1. a \in 0 .. l /\ b - 1 \in a .. l
        BY <1>2, <2>2
      <3>2. \A d \in a + 1 .. b - 1 : ~out[d].last
        <4>1. \A d \in a + 1 .. b - 1 : d \in a + 1 .. b /\ d # b
          OBVIOUS
        <4> QED
          BY <2>2, <4>1, Zenon
      <3> QED
        BY <1>1, <3>1, <3>2, NoneEnds
    <2>4. out[b].last /\ b \in 1 .. l
      <3>1. b \in a + 1 .. b /\ b \in 1 .. l
        BY <1>2, <2>2
      <3> QED
        BY <2>2, <3>1, Zenon
    <2>5. f[b] = Append(f[b - 1], out[b].sub)
      BY <1>1, <2>4, Zenon DEF Upto
    <2>6. f[a] = [e \in 1 .. i - 1 |-> g[e]]
      BY <1>8, <2>1, Zenon
    <2>7. g[i] = out[b].sub
      BY <1>3, <2>1
    <2>8. Append([e \in 1 .. i - 1 |-> g[e]], g[i]) = [e \in 1 .. i |-> g[e]]
      BY <1>6, GrowsBy
    <2> QED
      BY <2>1, <2>3, <2>5, <2>6, <2>7, <2>8, Zenon
  <1> HIDE DEF Good
  <1>9. Wrong \in SUBSET Nat
    OBVIOUS
  <1>10. ASSUME NEW i \in Wrong, \A e \in Wrong : i <= e PROVE FALSE
    <2>1. i \in 0 .. m /\ ~Good(i)
      OBVIOUS
    <2>2. i # 0
      BY <1>7, <2>1
    <2>3. i \in 1 .. m /\ i - 1 \in 0 .. m /\ i - 1 \notin Wrong
      BY <1>10, <2>1, <2>2
    <2> QED
      BY <1>8, <2>1, <2>3
  <1> HIDE DEF Wrong
  <1>11. Wrong = {}
    BY <1>9, <1>10, LeastIs
  <1>12. Good(m)
    BY <1>11 DEF Wrong
  <1>13. [e \in 1 .. m |-> g[e]] = g
    BY <1>6
  <1> QED
    BY <1>1, <1>2, <1>3, <1>12, <1>13, Zenon DEF Good, SubsOf

\* The messages are whole submessages, but for the end of the last.
InPieces(out) ==
    /\ Len(out) > 0 => out[1].frag = 1
    /\ \A d \in 1 .. Len(out) : d + 1 <= Len(out) => Follows(out[d], out[d + 1])

\* A unit is the fragments of its submessage, in order.
LEMMA Reassembles ==
    ASSUME NEW out \in Seq(Messages), InPieces(out), NEW a \in Nat, NEW b \in Nat,
           a < b, b <= Len(out), OneBegins(out, a), OneEnds(out, a, b),
           NEW u \in Seq(Messages), Copies(u, out, a, b)
    PROVE  Reassembled(u) = out[b].sub
  <1>1. PICK l \in Nat : l = Len(out)
    OBVIOUS
  <1>2. out[a + 1].frag = 1
    <2>1. CASE a = 0
      BY <2>1 DEF InPieces
    <2>2. CASE a # 0
      <3>1. a \in 1 .. l /\ a + 1 <= l /\ out[a].last
        BY <1>1, <2>2 DEF OneBegins
      <3>2. Follows(out[a], out[a + 1])
        BY <1>1, <3>1 DEF InPieces
      <3> QED
        BY <3>1, <3>2 DEF Follows
    <2> QED
      BY <2>1, <2>2
  <1> DEFINE Good(j) == out[a + j].sub = out[a + 1].sub /\ out[a + j].frag = j
             Wrong == {j \in 1 .. b - a : ~Good(j)}
  <1>3. Good(1)
    BY <1>2
  <1>4. ASSUME NEW j \in 2 .. b - a, Good(j - 1) PROVE Good(j)
    <2>1. PICK d \in Nat : d = a + (j - 1)
      OBVIOUS
    <2>2. d \in 1 .. l /\ d + 1 <= l /\ d + 1 = a + j /\ d \in a + 1 .. b /\ d # b
      BY <1>1, <2>1
    <2>3. ~out[d].last
      BY <2>2, Zenon DEF OneEnds
    <2>4. Follows(out[d], out[d + 1])
      BY <1>1, <2>2 DEF InPieces
    <2>5. out[d + 1].sub = out[d].sub /\ out[d + 1].frag = out[d].frag + 1
      BY <2>3, <2>4, Zenon DEF Follows
    <2>6. out[d].sub = out[a + 1].sub /\ out[d].frag = j - 1
      BY <1>4, <2>1
    <2>7. (j - 1) + 1 = j
      OBVIOUS
    <2> QED
      BY <2>2, <2>5, <2>6, <2>7, Zenon
  <1> HIDE DEF Good
  <1>5. Wrong \in SUBSET Nat
    OBVIOUS
  <1>6. ASSUME NEW j \in Wrong, \A e \in Wrong : j <= e PROVE FALSE
    <2>1. j \in 1 .. b - a /\ ~Good(j)
      OBVIOUS
    <2>2. j # 1
      BY <1>3, <2>1
    <2>3. j \in 2 .. b - a /\ j - 1 \in 1 .. b - a /\ j - 1 \notin Wrong
      BY <1>6, <2>1, <2>2
    <2> QED
      BY <1>4, <2>1, <2>3
  <1> HIDE DEF Wrong
  <1>7. Wrong = {}
    BY <1>5, <1>6, LeastIs
  <1>8. \A j \in 1 .. b - a : Good(j)
    BY <1>7 DEF Wrong
  <1>9. DOMAIN u = 1 .. b - a /\ 1 \in 1 .. b - a /\ b - a \in 1 .. b - a /\ a + (b - a) = b
    BY DEF Copies
  <1>10. \A j \in DOMAIN u : u[j].sub = u[1].sub /\ u[j].frag = j
    <2>1. ASSUME NEW j \in 1 .. b - a PROVE u[j].sub = u[1].sub /\ u[j].frag = j
      <3>1. u[j] = out[a + j] /\ u[1] = out[a + 1] /\ Good(j)
        BY <1>8, <1>9, Zenon DEF Copies
      <3> QED
        BY <3>1, Zenon DEF Good
    <2> QED
      BY <1>9, <2>1, Zenon
  <1>11. u[1].sub = out[b].sub
    BY <1>8, <1>9, Zenon DEF Copies, Good
  <1> QED
    BY <1>10, <1>11, Zenon DEF Reassembled

\* What the application gets of the units is what their messages submit.
LEMMA HeardOf ==
    ASSUME NEW out \in Seq(Messages), InPieces(out),
           NEW n \in 0 .. Len(out), NEW units \in Seq(Seq(Messages)), NEW s, NEW h, NEW cut,
           CutAt(s, h, 0, n, units, cut), Matches(s, h, n, out)
    PROVE  \A i \in 1 .. Len(units) : Reassembled(units[i]) = out[cut[i]].sub
  <1>1. PICK l \in Nat, m \in Nat : l = Len(out) /\ m = Len(units)
    OBVIOUS
  <1>2. /\ n \in Nat /\ n <= l /\ cut \in [0 .. m -> 0 .. n] /\ cut[0] = 0
        /\ \A i \in 1 .. m : IsUnit(s, h, cut[i - 1], cut[i], units[i])
    BY <1>1 DEF CutAt
  <1>3. ASSUME NEW i \in 1 .. m
        PROVE  \E a \in 0 .. n, b \in 0 .. n, u \in Seq(Messages) :
                  /\ a = cut[i - 1] /\ b = cut[i] /\ u = units[i]
                  /\ a < b /\ Copies(u, out, a, b) /\ OneEnds(out, a, b)
    <2>1. PICK a \in 0 .. n, b \in 0 .. n : a = cut[i - 1] /\ b = cut[i]
      <3>1. i - 1 \in 0 .. m /\ i \in 0 .. m
        OBVIOUS
      <3> QED
        BY <1>2, <3>1
    <2>2. PICK u \in Seq(Messages) : u = units[i]
      BY <1>1
    <2>3. IsUnit(s, h, a, b, u)
      BY <1>2, <2>1, <2>2
    <2>4. a < b /\ Copies(u, out, a, b) /\ OneEnds(out, a, b)
      BY <1>2, <2>3, UnitIs
    <2> QED
      BY <2>1, <2>2, <2>4
  <1>4. ASSUME NEW i \in 1 .. m PROVE Reassembled(units[i]) = out[cut[i]].sub
    <2>1. PICK a \in 0 .. n, b \in 0 .. n, u \in Seq(Messages) :
             /\ a = cut[i - 1] /\ b = cut[i] /\ u = units[i]
             /\ a < b /\ Copies(u, out, a, b) /\ OneEnds(out, a, b)
      BY <1>3
    <2>2. OneBegins(out, a)
      <3>1. CASE i = 1
        BY <1>2, <2>1, <3>1 DEF OneBegins
      <3>2. CASE i # 1
        <4>1. i - 1 \in 1 .. m
          BY <3>2
        <4>2. PICK c \in 0 .. n, d \in 0 .. n : d = cut[i - 1] /\ c < d /\ OneEnds(out, c, d)
          BY <1>3, <4>1
        <4>3. a \in c + 1 .. a /\ d = a
          BY <2>1, <4>2
        <4> QED
          BY <4>2, <4>3, Zenon DEF OneEnds, OneBegins
      <3> QED
        BY <3>1, <3>2
    <2>3. a \in Nat /\ b \in Nat /\ b <= Len(out)
      BY <1>1, <1>2
    <2>4. Reassembled(u) = out[b].sub
      BY <2>1, <2>2, <2>3, Reassembles
    <2> QED
      BY <2>1, <2>4
  <1> QED
    BY <1>1, <1>4

\* The state of the channel: what was accepted and not delivered yet, and what
\* the last step delivered.
Queue == Submitted(Outstanding)
Heard == [i \in DOMAIN delivered |-> Reassembled(delivered[i])]

\* The queue is what is collected from the messages that wait.
QueueIs ==
    \E out, f :
        /\ out \in Seq(Messages)
        /\ Len(out) = Waiting /\ \A d \in 1 .. Waiting : out[d] = Content(d)
        /\ InPieces(out)
        /\ Upto(f, out)
        /\ Queue = f[Len(out)]

HeardIs ==
    \E units : units = delivered /\ Heard = [i \in DOMAIN units |-> Reassembled(units[i])]

\* In every reachable state.
LEMMA ChannelIs == DownInv => QueueIs /\ HeardIs
  <1> SUFFICES ASSUME DownInv PROVE QueueIs /\ HeardIs
    OBVIOUS
  <1>1. HeardIs
    <2>1. PICK units : units = delivered
      OBVIOUS
    <2> QED
      BY <2>1 DEF HeardIs, Heard
  <1>2. PICK w \in Nat : w = Waiting
    BY Quantities DEF DownInv
  <1>3. PICK out : out = Outstanding
    OBVIOUS
  <1>4. DOMAIN out = 1 .. w /\ \A d \in 1 .. w : out[d] = Content(d)
    BY <1>2, <1>3, OutstandingIs
  <1>5. \A d \in 1 .. w : Content(d) \in Messages
    BY <1>2, ContentIs DEF DownInv, WindowsInv
  <1>6. out \in Seq(Messages) /\ Len(out) = w
    <2>1. out = [d \in 1 .. w |-> out[d]]
      BY <1>2, <1>3, <1>4 DEF Outstanding, Waiting
    <2>2. out \in [1 .. w -> Messages]
      BY <1>4, <1>5, <2>1
    <2> QED
      BY <2>2
  <1>7. InPieces(out)
    <2>1. w > 0 => Content(1).frag = 1 /\ 1 \in 1 .. w
      BY <1>2 DEF DownInv, WindowsInv, WholeInv
    <2>2. ASSUME NEW d \in 1 .. w, d + 1 <= w PROVE Follows(out[d], out[d + 1])
      <3>1. d + 1 \in 1 .. w
        BY <2>2
      <3>2. Follows(Content(d), Content(d + 1))
        BY <1>2, <2>2 DEF DownInv, WindowsInv, WholeInv
      <3> QED
        BY <1>4, <3>1, <3>2
    <2> QED
      BY <1>4, <1>6, <2>1, <2>2 DEF InPieces
  <1>8. PICK f : Upto(f, out) /\ Submitted(out) = f[Len(out)]
    BY <1>6, SubmittedIs DEF DownInv, Typed
  <1>9. QueueIs
    BY <1>2, <1>3, <1>4, <1>6, <1>7, <1>8 DEF QueueIs, Queue
  <1> QED
    BY <1>1, <1>9

\* And in the next.
LEMMA ChannelThen == DownInv' => QueueIs' /\ HeardIs'
  BY ChannelIs, PTL

\* What the channel may do, of the queue and what is delivered.
Passes ==
    \/ Heard' = <<>> /\ Queue' = Queue
    \/ \E s \in Submessages : Queue' = Append(Queue, s) /\ Heard' = <<>>
    \/ Heard' # <<>> /\ Queue = Heard' \o Queue'

\* A handler of the Client delivers from the head of the queue.
LEMMA TakesPasses ==
    ASSUME DownInv, QueueIs, QueueIs', HeardIs', NEW s, NEW n, Takes(s, n), UNCHANGED streamVars
    PROVE  Passes
  <1>1. PICK out, f :
           /\ out \in Seq(Messages)
           /\ Len(out) = Waiting /\ \A d \in 1 .. Waiting : out[d] = Content(d)
           /\ InPieces(out) /\ Upto(f, out) /\ Queue = f[Len(out)]
    BY DEF QueueIs
  <1>2. PICK rest, g :
           /\ rest \in Seq(Messages)
           /\ Len(rest) = Waiting' /\ \A d \in 1 .. Waiting' : rest[d] = Content(d)'
           /\ Upto(g, rest) /\ Queue' = g[Len(rest)]
    BY DEF QueueIs
  <1>3. PICK units :
           units = delivered' /\ Heard' = [i \in DOMAIN units |-> Reassembled(units[i])]
    BY DEF HeardIs
  <1>4. /\ Typed /\ ReachInv /\ KeptInv /\ ClientAssumption /\ Fits(s) /\ Delivers(s, n)
        /\ Waiting \in Nat /\ History \in Nat
    BY Quantities DEF DownInv, WindowsInv, Typed, Takes
  <1>5. n \in 0 .. History /\ n <= Waiting /\ Moves(n)
    BY <1>4, DeliversMoves
  <1>6. Waiting' = Waiting - n
    BY <1>4, <1>5, SeenLater
  <1>7. \A d \in 1 .. Waiting - n : Content(d)' = Content(n + d)
    BY <1>4, <1>5, ContentLater
  <1>8. PICK w \in Nat : w = Waiting
    BY <1>4
  <1>9. n \in 0 .. w /\ n \in Nat /\ Len(out) = w /\ Len(rest) = w - n
    BY <1>1, <1>2, <1>4, <1>5, <1>6, <1>8
  <1>10. \A d \in 1 .. Len(rest) : rest[d] = out[n + d]
    <2>1. \A d \in 1 .. w - n : n + d \in 1 .. w
      BY <1>9
    <2>2. \A d \in 1 .. w - n : rest[d] = Content(n + d)
      BY <1>2, <1>6, <1>7, <1>8
    <2> QED
      BY <1>1, <1>8, <1>9, <2>1, <2>2
  <1>11. Queue = f[n] \o Queue'
    <2>1. n \in 0 .. Len(out) /\ IsRest(rest, out, n)
      BY <1>9, <1>10 DEF IsRest
    <2>2. Adjoins(f, out, n, g, rest)
      <3>1. /\ ClientAssumption /\ out \in Seq(Messages) /\ rest \in Seq(Messages)
            /\ Upto(f, out) /\ Upto(g, rest)
        BY <1>1, <1>2, <1>4
      <3> QED
        BY <2>1, <3>1, RestFollows, Zenon
    <2> QED
      BY <1>1, <1>2, <2>2, Zenon DEF Adjoins
  <1>12. PICK h : h = last_handled
    OBVIOUS
  <1>13. units \in Seq(Seq(Messages)) /\ Cut(s, h, 0, n, units)
    BY <1>3, <1>4, <1>12 DEF Delivers
  <1>14. PICK cut : CutAt(s, h, 0, n, units, cut)
    BY <1>13 DEF Cut
  <1>15. Matches(s, h, n, out)
    <2>1. ASSUME NEW d \in 1 .. n PROVE At(s, h, d) = out[d]
      <3>1. d \in 1 .. History /\ d \in 1 .. w
        BY <1>5, <1>9, <1>4
      <3>2. At(s, h, d) = Content(d)
        BY <1>4, <1>12, <3>1 DEF Fits, Delivers
      <3> QED
        BY <1>1, <1>8, <3>1, <3>2
    <2> QED
      BY <2>1 DEF Matches
  <1>16. PICK m \in Nat : m = Len(units) /\ DOMAIN units = 1 .. m
    BY <1>13
  <1>17. f[n] = [i \in 1 .. m |-> out[cut[i]].sub]
    <2>1. n \in 0 .. Len(out)
      BY <1>9
    <2>2. f[n] = SubsOf(units, out, cut)
      BY <1>1, <1>4, <1>13, <1>14, <1>15, <2>1, PassedOn
    <2> QED
      BY <1>16, <2>2 DEF SubsOf
  <1>18. Heard' = f[n]
    <2>1. \A i \in 1 .. m : Reassembled(units[i]) = out[cut[i]].sub
      <3>1. n \in 0 .. Len(out)
        BY <1>9
      <3>2. \A i \in 1 .. Len(units) : Reassembled(units[i]) = out[cut[i]].sub
        BY <1>1, <1>13, <1>14, <1>15, <3>1, HeardOf
      <3> QED
        BY <1>16, <3>2
    <2> QED
      BY <1>3, <1>16, <1>17, <2>1
  <1>19. CASE n = 0
    <2>1. f[n] = <<>>
      BY <1>1, <1>19 DEF Upto
    <2>2. Queue' \in Seq(Submessages)
      BY <1>2 DEF Upto
    <2>3. <<>> \o Queue' = Queue'
      BY <2>2, ConcatEmptySeq
    <2> QED
      BY <1>11, <1>18, <2>1, <2>3 DEF Passes
  <1>20. CASE n # 0
    <2>1. m # 0
      BY <1>14, <1>16, <1>20 DEF CutAt
    <2>2. f[n] # <<>>
      <3>1. DOMAIN f[n] = 1 .. m /\ 1 \in 1 .. m
        BY <1>16, <1>17, <2>1
      <3>2. DOMAIN <<>> = {}
        OBVIOUS
      <3> QED
        BY <3>1, <3>2
    <2> QED
      BY <1>11, <1>18, <2>2 DEF Passes
  <1> QED
    BY <1>19, <1>20

\* What the queue was is the first part of what it becomes if messages come.
LEMMA QueueStays ==
    ASSUME NEW n \in Nat, Waiting \in Nat, Waiting' = Waiting + n,
           \A d \in 1 .. Waiting : Content(d)' = Content(d), QueueIs, QueueIs'
    PROVE  \E rest, g : /\ rest \in Seq(Messages) /\ Len(rest) = Waiting + n
                        /\ \A d \in 1 .. Waiting + n : rest[d] = Content(d)'
                        /\ Upto(g, rest) /\ Queue' = g[Waiting + n] /\ Queue = g[Waiting]
  <1>1. PICK out, f :
           /\ out \in Seq(Messages)
           /\ Len(out) = Waiting /\ \A d \in 1 .. Waiting : out[d] = Content(d)
           /\ InPieces(out) /\ Upto(f, out) /\ Queue = f[Len(out)]
    BY DEF QueueIs
  <1>2. PICK rest, g :
           /\ rest \in Seq(Messages)
           /\ Len(rest) = Waiting' /\ \A d \in 1 .. Waiting' : rest[d] = Content(d)'
           /\ Upto(g, rest) /\ Queue' = g[Len(rest)]
    BY DEF QueueIs
  <1>3. PICK w \in Nat : w = Waiting
    OBVIOUS
  <1>4. Len(out) <= Len(rest) /\ \A d \in 1 .. Len(out) : rest[d] = out[d]
    <2>1. Len(out) = w /\ Len(rest) = w + n
      BY <1>1, <1>2, <1>3
    <2>2. \A d \in 1 .. w : rest[d] = out[d]
      BY <1>1, <1>2, <1>3
    <2> QED
      BY <2>1, <2>2
  <1>5. g[Len(out)] = f[Len(out)]
    BY <1>1, <1>2, <1>4, MoreCome
  <1> QED
    BY <1>1, <1>2, <1>5

\* A step that leaves the contents of the windows alone leaves the queue alone.
LEMMA QuietPasses ==
    ASSUME DownInv, QueueIs, QueueIs', HeardIs', Quiet
    PROVE  Passes
  <1>1. Waiting \in Nat
    BY Quantities DEF DownInv
  <1>2. Waiting' = Waiting + 0 /\ \A d \in 1 .. Waiting : Content(d)' = Content(d)
    BY <1>1 DEF Quiet, Waiting
  <1>3. PICK rest, g : Queue' = g[Waiting + 0] /\ Queue = g[Waiting]
    <2>1. PICK n \in Nat : n = 0
      OBVIOUS
    <2> QED
      BY <1>1, <1>2, <2>1, QueueStays
  <1>4. Queue' = Queue
    BY <1>1, <1>3
  <1>5. Heard' = <<>>
    <2>1. PICK units :
             units = delivered' /\ Heard' = [i \in DOMAIN units |-> Reassembled(units[i])]
      BY DEF HeardIs
    <2>2. units = <<>>
      BY <2>1 DEF Quiet
    <2> QED
      BY <2>1, <2>2
  <1> QED
    BY <1>4, <1>5 DEF Passes

\* A submessage that is numbered is appended to the queue.
LEMMA PushPasses ==
    ASSUME DownInv, QueueIs, QueueIs', HeardIs',
           NEW t \in Writers, NEW s \in Submessages, NEW n \in 1 .. MaxFragments, Push(t, s, n)
    PROVE  Passes
  <1>1. Typed /\ WindowsInv /\ HasRoom /\ Insert(s, n) /\ ClientIdle
    BY DEF DownInv, Push, PushNow
  <1>2. /\ Waiting' = Waiting + n
        /\ \A d \in 1 .. Waiting : Content(d)' = Content(d)
        /\ \A j \in 1 .. n : \A e :
              e = Waiting + j => Content(e)' = [sub |-> s, frag |-> j, last |-> j = n]
    BY <1>1, PushMoves
  <1>3. Waiting \in Nat /\ n \in Nat /\ n >= 1
    BY <1>1, Quantities
  <1>4. PICK rest, g :
           /\ rest \in Seq(Messages) /\ Len(rest) = Waiting + n
           /\ \A d \in 1 .. Waiting + n : rest[d] = Content(d)'
           /\ Upto(g, rest) /\ Queue' = g[Waiting + n] /\ Queue = g[Waiting]
    BY <1>2, <1>3, QueueStays
  <1>5. PICK w \in Nat : w = Waiting
    BY <1>3
  <1>6. ASSUME NEW j \in 1 .. n
        PROVE  rest[w + j].sub = s /\ (rest[w + j].last <=> j = n)
    <2>1. PICK e : e = w + j
      OBVIOUS
    <2>2. rest[e] = Content(e)' /\ e = Waiting + j
      BY <1>3, <1>4, <1>5, <2>1
    <2>3. rest[e] = [sub |-> s, frag |-> j, last |-> j = n]
      BY <1>2, <2>2
    <2>4. rest[e].sub = s /\ rest[e].last = (j = n)
      BY <2>3
    <2> QED
      BY <2>1, <2>4, Zenon
  <1>7. g[(w + n) - 1] = g[w]
    <2>1. \A d \in w + 1 .. (w + n) - 1 : ~rest[d].last
      <3>1. ASSUME NEW d \in w + 1 .. (w + n) - 1 PROVE ~rest[d].last
        <4>1. PICK j : j = d - w
          OBVIOUS
        <4>2. j \in 1 .. n /\ j # n /\ w + j = d
          BY <1>3, <4>1
        <4> QED
          BY <1>6, <4>2, Zenon
      <3> QED
        BY <3>1
    <2>2. w \in 0 .. Len(rest) /\ (w + n) - 1 \in w .. Len(rest)
      BY <1>3, <1>4, <1>5
    <2> QED
      BY <1>4, <2>1, <2>2, NoneEnds
  <1>8. g[w + n] = Append(g[(w + n) - 1], s)
    <2>1. w + n \in 1 .. Len(rest) /\ n \in 1 .. n
      BY <1>3, <1>4, <1>5
    <2>2. rest[w + n].sub = s /\ rest[w + n].last
      BY <1>6, <2>1, Zenon
    <2>3. g[w + n] = IF rest[w + n].last THEN Append(g[(w + n) - 1], rest[w + n].sub)
                     ELSE g[(w + n) - 1]
      BY <1>4, <2>1, Zenon DEF Upto
    <2> QED
      BY <2>2, <2>3, Zenon
  <1>9. Queue' = Append(Queue, s)
    BY <1>4, <1>5, <1>7, <1>8, Zenon
  <1>10. Heard' = <<>>
    <2>1. PICK units :
             units = delivered' /\ Heard' = [i \in DOMAIN units |-> Reassembled(units[i])]
      BY DEF HeardIs
    <2>2. units = <<>>
      BY <1>1, <2>1 DEF ClientIdle
    <2> QED
      BY <2>1, <2>2
  <1> QED
    BY <1>9, <1>10 DEF Passes

\* Every step of the stream is one of the channel.
LEMMA StepPasses ==
    ASSUME DownInv, QueueIs, QueueIs', HeardIs', Next
    PROVE  Passes
  <1>1. ASSUME NEW t \in Writers, NEW s \in Submessages, NEW n \in 1 .. MaxFragments, Push(t, s, n)
        PROVE  Passes
    BY <1>1, PushPasses
  <1>2. CASE Quiet
    BY <1>2, QuietPasses
  <1>3. ASSUME NEW p \in network, ReceiveData(p) \/ ReceiveHeartbeat(p) PROVE Passes
    <2>1. PICK s, n : Takes(s, n) /\ UNCHANGED streamVars
      BY <1>3, ReceiveDataIs, ReceiveHeartbeatIs
    <2> QED
      BY <2>1, TakesPasses
  <1>4. ASSUME NEW p \in network, ProcessAcknack(p) PROVE Quiet
    BY <1>4, ProcessAcknackKeeps
  <1>5. SendNext \/ SendHeartbeat => Quiet
    BY SendNextKeeps, SendHeartbeatKeeps
  <1> QED
    BY <1>1, <1>2, <1>3, <1>4, <1>5 DEF Next

\* If nothing happens the channel stays as it is.
LEMMA StutterPasses ==
    ASSUME DownInv, QueueIs, QueueIs', HeardIs, HeardIs', UNCHANGED vars
    PROVE  Queue' = Queue /\ Heard' = Heard
  <1>1. UNCHANGED <<messages, last_unacked, slots, last_handled, delivered>>
    BY DEF vars, streamVars, clientVars
  <1>2. Heard' = Heard
    <2>1. PICK u : u = delivered /\ Heard = [i \in DOMAIN u |-> Reassembled(u[i])]
      BY DEF HeardIs
    <2>2. PICK v : v = delivered' /\ Heard' = [i \in DOMAIN v |-> Reassembled(v[i])]
      BY DEF HeardIs
    <2>3. u = v
      BY <1>1, <2>1, <2>2
    <2> QED
      BY <2>1, <2>2, <2>3
  <1>3. Waiting \in Nat
    BY Quantities DEF DownInv
  <1>4. Waiting' = Waiting + 0 /\ \A d \in 1 .. Waiting : Content(d)' = Content(d)
    BY <1>1, <1>3 DEF Content, Waiting
  <1>5. PICK rest, g : Queue' = g[Waiting + 0] /\ Queue = g[Waiting]
    <2>1. PICK n \in Nat : n = 0
      OBVIOUS
    <2> QED
      BY <1>3, <1>4, <2>1, QueueStays
  <1> QED
    BY <1>2, <1>3, <1>5

\* Nothing waits when the stream is created.
LEMMA ChannelBegins == DownInv /\ QueueIs /\ HeardIs /\ Init => Queue = <<>> /\ Heard = <<>>
  <1> SUFFICES ASSUME DownInv, QueueIs, HeardIs, Init PROVE Queue = <<>> /\ Heard = <<>>
    OBVIOUS
  <1>1. last_unacked = MaxSeq /\ last_handled = MaxSeq /\ delivered = <<>>
    BY ClientArith DEF Init, Client!Init, StreamInit
  <1>2. Waiting = 0
    <2>1. MaxSeq \in SeqNums
      BY Constants DEF MaxSeq, SeqNums, Modulus
    <2> QED
      BY <1>1, <2>1, SubRange DEF Waiting
  <1>3. PICK out, f : Len(out) = Waiting /\ Upto(f, out) /\ Queue = f[Len(out)]
    BY DEF QueueIs
  <1>4. Queue = <<>>
    BY <1>2, <1>3 DEF Upto
  <1>5. PICK u : u = delivered /\ Heard = [i \in DOMAIN u |-> Reassembled(u[i])]
    BY DEF HeardIs
  <1>6. Heard = <<>>
    <2>1. u = <<>>
      BY <1>1, <1>5
    <2> QED
      BY <1>5, <2>1
  <1> QED
    BY <1>4, <1>6

\* The lengths of the units add up to the messages they are cut from.
LEMMA TotalIs ==
    ASSUME NEW s, NEW h, NEW n \in Nat, NEW units \in Seq(Seq(Messages)), NEW cut,
           CutAt(s, h, 0, n, units, cut)
    PROVE  Client!Total(units) = n
  <1>1. PICK m \in Nat : m = Len(units)
    OBVIOUS
  <1>2. /\ cut \in [0 .. m -> 0 .. n] /\ cut[0] = 0 /\ cut[m] = n
        /\ \A i \in 1 .. m : cut[i] = cut[i - 1] + Len(units[i])
    BY <1>1 DEF CutAt, IsUnit
  <1> DEFINE Sums(f) == f = [i \in 0 .. m |-> IF i = 0 THEN 0 ELSE f[i - 1] + Len(units[i])]
  <1>3. cut = [i \in 0 .. m |-> cut[i]]
    BY <1>2
  <1>4. Sums(cut)
    <2>1. \A i \in 0 .. m : cut[i] = IF i = 0 THEN 0 ELSE cut[i - 1] + Len(units[i])
      BY <1>2
    <2>2. PICK c : c = [i \in 0 .. m |-> IF i = 0 THEN 0 ELSE cut[i - 1] + Len(units[i])]
      OBVIOUS
    <2>3. c = cut
      BY <1>3, <2>1, <2>2
    <2> QED
      BY <2>2, <2>3
  <1>5. PICK f : Sums(f) /\ Client!Total(units) = f[m]
    BY <1>1, <1>4 DEF Client!Total
  <1>6. f[0] = 0 /\ \A i \in 1 .. m : f[i] = f[i - 1] + Len(units[i])
    BY <1>5
  <1> DEFINE Wrong == {i \in 0 .. m : f[i] # cut[i]}
  <1>7. Wrong \in SUBSET Nat
    OBVIOUS
  <1>8. ASSUME NEW i \in Wrong, \A e \in Wrong : i <= e PROVE FALSE
    <2>1. i \in 0 .. m /\ f[i] # cut[i]
      OBVIOUS
    <2>2. i # 0
      BY <1>2, <1>6, <2>1
    <2>3. i \in 1 .. m /\ i - 1 \in 0 .. m /\ i - 1 \notin Wrong
      BY <1>8, <2>1, <2>2
    <2>4. f[i - 1] = cut[i - 1]
      BY <2>3
    <2> QED
      BY <1>2, <1>6, <2>1, <2>3, <2>4, Zenon
  <1> HIDE DEF Wrong
  <1>9. Wrong = {}
    BY <1>7, <1>8, LeastIs
  <1>10. f[m] = cut[m]
    BY <1>9 DEF Wrong
  <1> QED
    BY <1>2, <1>5, <1>10

\* What a step hands over is what last_handled moves by, each unit up to its
\* last fragment.
HandsOver ==
    /\ SeqSub(last_handled', last_handled) = Client!Total(delivered')
    /\ \A i \in DOMAIN delivered' : \A j \in DOMAIN delivered'[i] :
          (Client!Fragmentation(delivered'[i][j]) = "INTERMEDIATE_FRAGMENT")
             <=> j < Len(delivered'[i])

\* The handlers of the Client do so.
LEMMA TakesHandsOver == ASSUME DownInv, NEW s, NEW n, Takes(s, n) PROVE HandsOver
  <1>1. PICK units, h : units = delivered' /\ h = last_handled
    OBVIOUS
  <1>2. /\ n \in 0 .. History /\ n \in Nat /\ n <= MaxSeq /\ h \in SeqNums
        /\ units \in Seq(Seq(Messages)) /\ last_handled' = Wrap(h + n)
        /\ Cut(s, h, 0, n, units)
    BY <1>1, Quantities DEF Takes, Delivers, DownInv
  <1>3. PICK cut : CutAt(s, h, 0, n, units, cut)
    BY <1>2 DEF Cut
  <1>4. SeqSub(last_handled', h) = n
    BY <1>2, WrapThenSub
  <1>5. Client!Total(units) = n
    BY <1>2, <1>3, TotalIs
  <1>6. PICK m \in Nat : m = Len(units) /\ DOMAIN units = 1 .. m
    BY <1>2
  <1>7. ASSUME NEW i \in 1 .. m, NEW j \in DOMAIN units[i]
        PROVE  (Client!Fragmentation(units[i][j]) = "INTERMEDIATE_FRAGMENT") <=> j < Len(units[i])
    <2>1. PICK u \in Seq(Messages), l \in Nat : u = units[i] /\ l = Len(u) /\ DOMAIN u = 1 .. l
      BY <1>2, <1>6
    <2>2. IsUnit(s, h, cut[i - 1], cut[i], u)
      BY <1>3, <1>6, <2>1 DEF CutAt
    <2>3. u[j].last <=> j = l
      BY <1>7, <2>1, <2>2, Zenon DEF IsUnit
    <2>4. u[j] \in Messages
      BY <1>7, <2>1
    <2>5. Client!Fragmentation(u[j]) = "INTERMEDIATE_FRAGMENT" <=> ~u[j].last
      BY <2>4, KindIs
    <2>6. j < l <=> j # l
      BY <1>7, <2>1
    <2> QED
      BY <2>1, <2>3, <2>5, <2>6, Zenon
  <1> QED
    BY <1>1, <1>4, <1>5, <1>6, <1>7 DEF HandsOver

\* No other step hands anything over.
LEMMA QuietHandsOver ==
    ASSUME DownInv, delivered' = <<>>, UNCHANGED last_handled
    PROVE  HandsOver
  <1>1. last_handled \in SeqNums
    BY Quantities DEF DownInv
  <1>2. SeqSub(last_handled, last_handled) = 0
    BY <1>1, SubRange
  <1>3. Client!Total(<<>>) = 0
    <2>1. PICK cut : cut = [i \in 0 .. 0 |-> 0]
      OBVIOUS
    <2>2. CutAt(0, 0, 0, 0, <<>>, cut)
      BY <2>1 DEF CutAt
    <2>3. <<>> \in Seq(Seq(Messages))
      OBVIOUS
    <2> QED
      BY <2>2, <2>3, TotalIs
  <1>4. PICK units : units = delivered' /\ DOMAIN units = {} /\ units = <<>>
    OBVIOUS
  <1> QED
    BY <1>2, <1>3, <1>4 DEF HandsOver

\* The stream implements the reliable channel: what the Client hands over is what
\* was accepted first and not handed over yet, each submessage once, whole and in
\* order, whatever the network loses, repeats or reorders and however many come
\* through at once when a gap closes; and last_handled, which the next ACKNACK
\* tells the Agent, moves by exactly that.
THEOREM ChannelImplemented == Spec => ImplementsChannel
  <1>1. DownInv /\ Init => Channel!Init
    BY ChannelIs, ChannelBegins DEF Channel!Init, Queue, Heard
  <1>2. DownInv /\ DownInv' /\ [Next]_vars => [Channel!Next]_(Channel!vars)
    <2> SUFFICES ASSUME DownInv, DownInv', [Next]_vars PROVE [Channel!Next]_(Channel!vars)
      OBVIOUS
    <2>1. QueueIs /\ QueueIs' /\ HeardIs /\ HeardIs'
      BY ChannelIs, ChannelThen
    <2>2. CASE Next
      <3>1. Passes
        BY <2>1, <2>2, StepPasses
      <3> QED
        BY <3>1 DEF Passes, Queue, Heard, Channel!Next, Channel!Idle, Channel!Send, Channel!Receive
    <2>3. CASE UNCHANGED vars
      <3>1. Queue' = Queue /\ Heard' = Heard
        BY <2>1, <2>3, StutterPasses
      <3> QED
        BY <3>1 DEF Queue, Heard, Channel!vars
    <2> QED
      BY <2>2, <2>3
  <1>3. DownInv /\ [Next]_vars => HandsOver \/ UNCHANGED Client!vars
    <2> SUFFICES ASSUME DownInv, [Next]_vars PROVE HandsOver \/ UNCHANGED Client!vars
      OBVIOUS
    <2>1. ASSUME NEW p \in network, ReceiveData(p) \/ ReceiveHeartbeat(p) PROVE HandsOver
      BY <2>1, ReceiveDataIs, ReceiveHeartbeatIs, TakesHandsOver
    <2>2. CASE ClientIdle
      BY <2>2, QuietHandsOver DEF ClientIdle
    <2>3. CASE UNCHANGED vars
      BY <2>3 DEF vars, clientVars, Client!vars
    <2> QED
      BY <2>1, <2>2, <2>3 DEF Next, Push, SendNext, SendHeartbeat, ProcessAcknack
  <1>4. HandsOver \/ UNCHANGED Client!vars =>
           [/\ Client!SeqSub(last_handled', last_handled) = Client!Total(delivered')
            /\ \A i \in DOMAIN delivered' :
                  LET u == delivered'[i]
                  IN  \A j \in DOMAIN u :
                         (Client!Fragmentation(u[j]) = "INTERMEDIATE_FRAGMENT") <=> j < Len(u)]_(Client!vars)
    BY ClientArith DEF HandsOver
  <1> QED
    BY <1>1, <1>2, <1>3, <1>4, DownInvariant, PTL
       DEF Spec, ImplementsChannel, Channel!Spec, Client!HandledIsDelivered
=============================================================================
