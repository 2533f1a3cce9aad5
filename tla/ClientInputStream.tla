-------------------------- MODULE ClientInputStream --------------------------
(***************************************************************************)
(* uxrInputReliableStream of the Client (input_reliable_stream.c) with the *)
(* handlers of session.c that drive it (read_stream,                       *)
(* read_submessage_heartbeat): a window of History slots after the last    *)
(* message delivered.  The Client runs in one thread: a handler is one     *)
(* step, including the loop that delivers what has become deliverable.     *)
(***************************************************************************)
EXTENDS SeqNum, SequencesExt

CONSTANTS
    History,        \* slots of the stream, a power of two
    BitmapSize,     \* bits of ACKNACK_Payload.nack_bitmap (16)
    Contents,       \* what arrives: records with fields sub, frag and last
    Empty           \* a slot whose size is 0

\* The modulus is a multiple of History, or slots would change places where
\* the numbers wrap ("assert for history (must be 2^)").  A module that
\* instantiates this one assumes it.
SlotAssumption ==
    /\ History \in Nat \ {0}
    /\ History <= Half
    /\ Modulus % History = 0
    /\ BitmapSize \in Nat
    /\ Empty \notin Contents

VARIABLES
    slots,          \* base.buffer: slot -> content or Empty
    last_handled,   \* number of the last message delivered
    last_announced, \* highest number received or announced by a heartbeat
    delivered,      \* what the last step handed to read_submessage_list
    spinning        \* check_last_fragment does not return

vars == <<slots, last_handled, last_announced, delivered, spinning>>

SlotOf(k) == k % History

\* on_get_fragmentation_info
Fragmentation(m) ==
    CASE ~m.last             -> "INTERMEDIATE_FRAGMENT"
      [] m.last /\ m.frag > 1 -> "LAST_FRAGMENT"
      [] OTHER               -> "NO_FRAGMENTED"

\* Slots hold what arrived, and the numbers stay below 2^16.
TypeOK ==
    /\ slots \in [0 .. History - 1 -> Contents \cup {Empty}]
    /\ last_handled \in SeqNums
    /\ last_announced \in SeqNums
    /\ \A i \in DOMAIN delivered : \A j \in DOMAIN delivered[i] : delivered[i][j] \in Contents
    /\ spinning \in BOOLEAN

Init ==
    /\ slots = [i \in 0 .. History - 1 |-> Empty]
    /\ last_handled = MaxSeq
    /\ last_announced = MaxSeq
    /\ delivered = <<>>
    /\ spinning = FALSE

----------------------------------------------------------------------------
(* Delivery.  The operators take the slots and the last handled number they *)
(* look at, for a handler changes both several times.                       *)

\* How many slots after h, from the first, hold intermediate fragments.
Run(s, h) ==
    CHOOSE n \in 0 .. History :
        /\ \A d \in 1 .. n :
              LET c == s[SlotOf(ClientAdd(h, d))]
              IN  c # Empty /\ Fragmentation(c) = "INTERMEDIATE_FRAGMENT"
        /\ n < History =>
              LET c == s[SlotOf(ClientAdd(h, n + 1))]
              IN  c = Empty \/ Fragmentation(c) # "INTERMEDIATE_FRAGMENT"

\* check_last_fragment: its loop ends at the first slot that is not an
\* intermediate fragment, so never when all of them are.
NeverEnds(s, h) == Run(s, h) = History

LastFragmentFound(s, h) ==
    LET n == Run(s, h)
        c == s[SlotOf(ClientAdd(h, n + 1))]
    IN  n < History /\ c # Empty /\ Fragmentation(c) = "LAST_FRAGMENT"

\* How many slots uxr_next_input_reliable_buffer_available delivers, 0 if the
\* head of the window is not complete.
Units(s, h) ==
    LET c == s[SlotOf(ClientAdd(h, 1))]
    IN  CASE c = Empty -> 0
          [] c # Empty /\ Fragmentation(c) = "NO_FRAGMENTED" -> 1
          [] c # Empty /\ Fragmentation(c) # "NO_FRAGMENTED" ->
                IF LastFragmentFound(s, h) THEN Run(s, h) + 1 ELSE 0

\* Mistake: the slot at the head is freed before it is known to be complete.
BugDeliverHead(st) ==
    LET n == Units(st.slots, st.handled)
        Taken(i) == \E d \in 1 .. n : i = SlotOf(ClientAdd(st.handled, d))
        head == SlotOf(ClientAdd(st.handled, 1))
    IN  [slots   |-> [i \in 0 .. History - 1 |-> IF Taken(i) \/ i = head THEN Empty ELSE st.slots[i]],
         handled |-> ClientAdd(st.handled, n),
         out     |-> IF n = 0 THEN st.out
                     ELSE Append(st.out,
                            [d \in 1 .. n |-> st.slots[SlotOf(ClientAdd(st.handled, d))]])]

\* One turn of the delivery loop of read_stream.  The first slot is freed
\* before the message is read, the others as the reading enters them
\* (on_full_input_buffer; read_format_data skips what the application left).
DeliverHead(st) ==
    LET n == Units(st.slots, st.handled)
        Taken(i) == \E d \in 1 .. n : i = SlotOf(ClientAdd(st.handled, d))
    IN  IF n = 0 THEN st
        ELSE [slots   |-> [i \in 0 .. History - 1 |-> IF Taken(i) THEN Empty ELSE st.slots[i]],
              handled |-> ClientAdd(st.handled, n),
              out     |-> Append(st.out,
                            [d \in 1 .. n |-> st.slots[SlotOf(ClientAdd(st.handled, d))]])]

\* Mistake: only the message that arrived is delivered, not those behind it.
BugDrain(st) == st

\* The whole loop: each turn frees a slot, so History turns finish it.
Drain(st) ==
    LET turn[i \in 0 .. History] == IF i = 0 THEN st ELSE DeliverHead(turn[i - 1])
    IN  turn[History]

----------------------------------------------------------------------------
(* uxr_receive_reliable_message and read_stream *)

\* Mistake: the window is one slot too wide, so two numbers share a slot.
BugInWindow(k) ==
    /\ ClientCmp(last_handled, k) < 0
    /\ ClientCmp(ClientAdd(last_handled, History + 1), k) >= 0

InWindow(k) ==
    /\ ClientCmp(last_handled, k) < 0
    /\ ClientCmp(ClientAdd(last_handled, History), k) >= 0

\* Mistake: a heartbeat or message that was overtaken moves it back.
BugAnnounce(k) == last_announced' = k

Announce(k) ==
    last_announced' = IF ClientCmp(last_announced, k) < 0 THEN k ELSE last_announced

DeliverFrom(s, h, out) ==
    LET st == Drain([slots |-> s, handled |-> h, out |-> out])
    IN  /\ slots' = st.slots
        /\ last_handled' = st.handled
        /\ delivered' = st.out

\* The next message, whole: delivered from the packet, never stored.
ReceiveNext(k, m) ==
    /\ ~spinning
    /\ InWindow(k)
    /\ Fragmentation(m) = "NO_FRAGMENTED"
    /\ k = ClientAdd(last_handled, 1)
    /\ DeliverFrom(slots, k, << <<m>> >>)
    /\ Announce(k)
    /\ UNCHANGED spinning

\* Anything else in the window is stored in its slot if the slot is free; a
\* fragment may complete the message at the head of the window.
ReceiveStored(k, m) ==
    LET stored == [slots EXCEPT ![SlotOf(k)] = m]
        isFragment == Fragmentation(m) # "NO_FRAGMENTED"
    IN  /\ ~spinning
        /\ InWindow(k)
        /\ isFragment \/ k # ClientAdd(last_handled, 1)
        /\ slots[SlotOf(k)] = Empty
        /\ IF isFragment /\ NeverEnds(stored, last_handled)
           THEN /\ spinning' = TRUE
                /\ slots' = stored
                /\ delivered' = <<>>
                /\ UNCHANGED <<last_handled, last_announced>>
           ELSE /\ IF isFragment /\ LastFragmentFound(stored, last_handled)
                   THEN DeliverFrom(stored, last_handled, <<>>)
                   ELSE /\ slots' = stored
                        /\ delivered' = <<>>
                        /\ UNCHANGED last_handled
                /\ Announce(k)
                /\ UNCHANGED spinning

\* Outside the window, or in a slot already in use.
ReceiveIgnored(k, m) ==
    /\ ~spinning
    /\ \/ ~InWindow(k)
       \/ /\ Fragmentation(m) # "NO_FRAGMENTED" \/ k # ClientAdd(last_handled, 1)
          /\ slots[SlotOf(k)] # Empty
    /\ Announce(k)
    /\ delivered' = <<>>
    /\ UNCHANGED <<slots, last_handled, spinning>>

Receive(k, m) == ReceiveNext(k, m) \/ ReceiveStored(k, m) \/ ReceiveIgnored(k, m)

\* uxr_process_heartbeat: the first number of the heartbeat is not looked at.
Heartbeat(last) ==
    /\ ~spinning
    /\ Announce(last)
    /\ delivered' = <<>>
    /\ UNCHANGED <<slots, last_handled, spinning>>

----------------------------------------------------------------------------
(* uxr_compute_acknack, of the state the handler leaves *)

\* Mistake: the last gap is acknowledged, not the first.
BugFirstUnacked ==
    LET free == {i \in 1 .. History : slots[SlotOf(ClientAdd(last_handled, i))] = Empty}
    IN  IF free = {} THEN last_handled
        ELSE ClientAdd(last_handled, CHOOSE i \in free : \A j \in free : i >= j)

\* uxr_get_first_unacked: last_handled itself when every slot is in use.
FirstUnacked ==
    LET free == {i \in 1 .. History : slots[SlotOf(ClientAdd(last_handled, i))] = Empty}
    IN  IF free = {} THEN last_handled
        ELSE ClientAdd(last_handled, CHOOSE i \in free : \A j \in free : i <= j)

\* Slots are looked up by position: a number more than History ahead reads
\* the slot of an older one.
Nacked ==
    LET first == FirstUnacked
        announced == SeqSub(last_announced, SeqSub(first, 1))
    IN  {i \in 0 .. BitmapSize - 1 :
            i < announced /\ slots[SlotOf(ClientAdd(first, i))] = Empty}

Acknack == [first |-> FirstUnacked, nacks |-> Nacked]

----------------------------------------------------------------------------
(* Properties *)

\* When a handler returns, the message at the head of the window is not
\* complete: everything deliverable was delivered, because the loop runs only
\* in the handler that completed the head and nothing else would run it later.
NothingDeliverable == spinning \/ Units(slots, last_handled) = 0

\* Stored messages are neither overwritten nor dropped: a slot keeps what it
\* holds until the very step that delivers it, whatever number comes in.
NothingForgotten ==
    [][\A i \in 0 .. History - 1 :
         slots[i] # Empty =>
            \/ slots'[i] = slots[i]
            \/ \E u \in DOMAIN delivered' : \E j \in DOMAIN delivered'[u] :
                  delivered'[u][j] = slots[i]]_vars

\* How many messages are delivered in some units.
Total(units) ==
    LET upto[i \in 0 .. Len(units)] == IF i = 0 THEN 0 ELSE upto[i - 1] + Len(units[i])
    IN  upto[Len(units)]

\* last_handled moves by exactly what the step delivers, and a fragmented
\* message is delivered at once, up to its last fragment: the next ACKNACK
\* confirms what the application got and nothing else.
HandledIsDelivered ==
    [][/\ SeqSub(last_handled', last_handled) = Total(delivered')
       /\ \A i \in DOMAIN delivered' :
             LET u == delivered'[i]
             IN  \A j \in DOMAIN u :
                    (Fragmentation(u[j]) = "INTERMEDIATE_FRAGMENT") <=> j < Len(u)]_vars
=============================================================================
