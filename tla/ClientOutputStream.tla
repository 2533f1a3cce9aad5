-------------------------- MODULE ClientOutputStream --------------------------
(***************************************************************************)
(* uxrOutputReliableStream of the Client (output_reliable_stream.c) with   *)
(* the loops of session.c around it (uxr_flash_output_streams,             *)
(* read_submessage_acknack).  Message k is built in slot k % History until *)
(* it is sent and stays there until it is acknowledged.  The Client runs   *)
(* in one thread: an operation is one step.                                *)
(*                                                                         *)
(* Sizes are in units of SUBHEADER_SIZE, without the offset every buffer   *)
(* begins with: a slot takes Capacity units, the header of a fragment one. *)
(***************************************************************************)
EXTENDS SeqNum, SequencesExt

CONSTANTS
    History,        \* slots of the stream, a power of two
    Capacity,       \* units of a slot
    Submessages,    \* what the application writes
    Sizes,          \* how large a submessage can be
    Careful         \* the application writes what has to be cut only when the
                    \* fragments fit

BufferAssumption ==
    /\ History \in Nat \ {0}
    /\ History < Half
    /\ Modulus % History = 0
    /\ Capacity \in Nat \ {0, 1}
    /\ Sizes \subseteq Nat \ {0}
    /\ Careful \in BOOLEAN

VARIABLES
    slots,          \* base.buffer: slot -> its size and the pieces in it
    last_written,   \* number of the message being built
    last_sent,      \* number of the last message sent
    last_acknown    \* number of the last message acknowledged

vars == <<slots, last_written, last_sent, last_acknown>>

\* A slot whose size is the offset.
Free == [size |-> 0, pieces |-> <<>>]

SlotOf(k) == k % History

IsFree(k) == slots[SlotOf(k)].size = 0

Pieces == [sub : Submessages, kind : {"WHOLE", "FRAGMENT", "LAST"}, part : Nat]

\* No slot is filled past its capacity, and an empty one has no pieces.
TypeOK ==
    /\ \A i \in 0 .. History - 1 :
          /\ slots[i].size \in 0 .. Capacity
          /\ \A j \in DOMAIN slots[i].pieces : slots[i].pieces[j] \in Pieces
          /\ slots[i].size = 0 <=> slots[i].pieces = <<>>
    /\ last_written \in SeqNums
    /\ last_sent \in SeqNums
    /\ last_acknown \in SeqNums

Init ==
    /\ slots = [i \in 0 .. History - 1 |-> Free]
    /\ last_written = 0
    /\ last_sent = MaxSeq
    /\ last_acknown = MaxSeq

----------------------------------------------------------------------------
(* uxr_prepare_reliable_buffer_to_write, and the writing of the application *)
(* into the buffers it returns                                              *)

\* Mistake: no check for space in the history.
BugInHistory(k) == TRUE

\* There is space in the history for message k.
InHistory(k) == ClientCmp(k, ClientAdd(last_acknown, History)) <= 0

Whole(s) == [sub |-> s, kind |-> "WHOLE", part |-> 1]

Fits(n) == slots[SlotOf(last_written)].size + n <= Capacity

\* The submessage joins the message being built, ...
WriteHere(s, n) ==
    /\ Fits(n)
    /\ InHistory(last_written)
    /\ slots' = [slots EXCEPT ![SlotOf(last_written)] =
                    [size |-> @.size + n, pieces |-> Append(@.pieces, Whole(s))]]
    /\ UNCHANGED <<last_written, last_sent, last_acknown>>

\* ... or begins the next one.
WriteNext(s, n) ==
    LET k == ClientAdd(last_written, 1)
    IN  /\ ~Fits(n)
        /\ n <= Capacity
        /\ InHistory(k)
        /\ slots' = [slots EXCEPT ![SlotOf(k)] = [size |-> n, pieces |-> <<Whole(s)>>]]
        /\ last_written' = k
        /\ UNCHANGED <<last_sent, last_acknown>>

\* A submessage larger than a slot is cut.  Its first fragment takes what is
\* left of the message being built, if that is more than a header.
FirstFragment ==
    IF slots[SlotOf(last_written)].size + 1 >= Capacity
    THEN ClientAdd(last_written, 1) ELSE last_written

FirstSize == Capacity - slots[SlotOf(FirstFragment)].size - 1
LastSize(n) == IF (n - FirstSize) % (Capacity - 1) = 0 THEN Capacity - 1
               ELSE (n - FirstSize) % (Capacity - 1)

\* necessary_complete_blocks: the fragments after the first.
Necessary(n) == (n - FirstSize + Capacity - 2) \div (Capacity - 1)

FreeSlots == Cardinality({i \in 0 .. History - 1 : slots[i].size = 0})

\* The check of available_to_write.  The slot of the first fragment is among
\* the free ones when nothing has been written to it.
Available(n) == Necessary(n) <= FreeSlots

\* The fragments really fit: the check is one short when the slot of the first
\* one is empty.
Room(n) == Necessary(n) + (IF IsFree(FirstFragment) THEN 1 ELSE 0) <= FreeSlots

\* What slot i holds after the fragments are written one by one.  The first is
\* appended to what its slot holds.  The data of every other begins behind the
\* first header of its slot: in a slot in use, the header of what is there.
Written(s, n, i) ==
    LET m       == Necessary(n)
        here    == {d \in 0 .. m : SlotOf(ClientAdd(FirstFragment, d)) = i}
        Part(d) == [sub |-> s, kind |-> IF d = m THEN "LAST" ELSE "FRAGMENT", part |-> d + 1]
        before  == IF 0 \in here THEN Append(slots[i].pieces, Part(0)) ELSE slots[i].pieces
        d       == CHOOSE d \in here : \A e \in here : e <= d
    IN  IF here = {} THEN slots[i]
        ELSE [size   |-> IF d = m THEN LastSize(n) + 1 ELSE Capacity,
              pieces |-> CASE d = 0                     -> before
                           [] d # 0 /\ before = <<>>    -> <<Part(d)>>
                           [] d # 0 /\ before # <<>>    ->
                                <<[before[1] EXCEPT !.sub = s, !.part = d + 1]>>]

WriteFragments(s, n) ==
    /\ ~Fits(n)
    /\ n > Capacity
    /\ Available(n)
    /\ slots' = [i \in 0 .. History - 1 |-> Written(s, n, i)]
    /\ last_written' = ClientAdd(FirstFragment, Necessary(n))
    /\ UNCHANGED <<last_sent, last_acknown>>

Write(s, n) ==
    \/ WriteHere(s, n)
    \/ WriteNext(s, n)
    \/ (Careful => Room(n)) /\ WriteFragments(s, n)

----------------------------------------------------------------------------
(* Sending, acknowledging, retransmitting *)

Sendable(d) ==
    LET k == ClientAdd(last_sent, d)
    IN  /\ ClientCmp(k, last_written) <= 0
        /\ ~IsFree(k)
        /\ SeqSub(ClientAdd(last_sent, d - 1), last_acknown) # History

\* uxr_flash_output_streams calls uxr_prepare_next_reliable_buffer_to_send
\* until it finds nothing: how many messages that sends.
Unsent ==
    CHOOSE n \in 0 .. History :
        /\ \A d \in 1 .. n : Sendable(d)
        /\ n = History \/ ~Sendable(n + 1)

\* Mistake: the message just sent stays the one that is written to.
BugFlash ==
    /\ Unsent > 0
    /\ last_sent' = ClientAdd(last_sent, Unsent)
    /\ UNCHANGED <<slots, last_acknown, last_written>>

\* Once the message being built is sent, the next one is begun.
Flash ==
    /\ Unsent > 0
    /\ last_sent' = ClientAdd(last_sent, Unsent)
    /\ last_written' = IF last_sent' = last_written THEN ClientAdd(last_written, 1)
                       ELSE last_written
    /\ UNCHANGED <<slots, last_acknown>>

\* uxr_update_output_stream_heartbeat_timestamp answers true, in time, while
\* something that was sent is not acknowledged.
HeartbeatDue == ClientCmp(last_acknown, last_sent) < 0
HeartbeatWindow == [first |-> ClientAdd(last_acknown, 1), last |-> last_sent]

\* uxr_process_acknack frees every slot from the last acknowledged message to
\* the one before first, going round when first is not ahead of it.
ProcessAcknack(first) ==
    /\ slots' = [i \in 0 .. History - 1 |->
                    IF \E d \in 1 .. SeqSub(SeqSub(first, 1), last_acknown) :
                          i = SlotOf(ClientAdd(last_acknown, d))
                    THEN Free ELSE slots[i]]
    /\ last_acknown' = SeqSub(first, 1)
    /\ UNCHANGED <<last_written, last_sent>>

\* What uxr_next_reliable_nack_buffer_to_send finds, one after the other: after
\* an ACKNACK that misses anything, all that was sent and is not acknowledged.
Unacknowledged ==
    {k \in SeqNums : SeqLt(last_acknown, k) /\ ClientCmp(k, last_sent) <= 0 /\ ~IsFree(k)}

\* uxr_is_output_up_to_date, what uxr_run_session_until_confirm_delivery waits
\* for.
UpToDate == last_acknown = last_sent

\* uxr_reset_output_reliable_stream
Reset ==
    /\ slots' = [i \in 0 .. History - 1 |-> Free]
    /\ last_written' = 0
    /\ last_sent' = MaxSeq
    /\ last_acknown' = MaxSeq

----------------------------------------------------------------------------

\* The ACKNACKs of an Agent, in the order it sent them.
Next ==
    \/ \E s \in Submessages, n \in Sizes : Write(s, n)
    \/ Flash
    \/ \E d \in 0 .. SeqSub(last_sent, last_acknown) :
          ProcessAcknack(ClientAdd(last_acknown, d + 1))
    \/ Reset

Spec == Init /\ [][Next]_vars

----------------------------------------------------------------------------
(* Properties *)

\* The slots in use are those of the messages written and not acknowledged,
\* without a hole: the loop that sends stops at an empty slot, so a message
\* behind a hole would never be sent, and a slot left in use would be sent
\* under another number.
WindowHeld ==
    /\ SeqSub(last_sent, last_acknown) <= History
    /\ SeqSub(last_written, last_sent) \in 1 .. History + 1
    /\ \A d \in 1 .. History :
          LET k == ClientAdd(last_acknown, d)
          IN  /\ SeqLt(k, last_written) => ~IsFree(k)
              /\ SeqLt(last_written, k) => IsFree(k)

\* A message that was sent stays as it was until it is acknowledged (or the
\* stream is reset): it may have to be sent again.
SentKept ==
    [][Reset \/ \A d \in 1 .. SeqSub(last_sent, last_acknown) :
                    LET k == ClientAdd(last_acknown, d)
                    IN  SeqLt(last_acknown', k) => slots'[SlotOf(k)] = slots[SlotOf(k)]]_vars
=============================================================================
