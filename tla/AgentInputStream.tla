--------------------------- MODULE AgentInputStream ---------------------------
(***************************************************************************)
(* ReliableInputStream of the Agent (stream/InputStream.hpp) with the part *)
(* of the processor that empties it (process_input_packet,                 *)
(* process_fragment_submessage, process_heartbeat_submessage).  Only the   *)
(* processing thread touches it, so the treatment of a packet is one step: *)
(* store, take out what is in sequence, process it, acknowledge.           *)
(*                                                                         *)
(* A message is a sequence of pieces: whole submessages and fragments.     *)
(***************************************************************************)
EXTENDS SeqNum, SequencesExt

CONSTANTS
    Depth,          \* RELIABLE_STREAM_DEPTH
    BitmapSize,     \* bits of ACKNACK_Payload.nack_bitmap (16)
    Messages        \* sequences of records with a field kind: "WHOLE",
                    \* "FRAGMENT" or "LAST"

DepthAssumption ==
    /\ Depth \in Nat \ {0}
    /\ Depth < Half
    /\ BitmapSize \in 1 .. Half

VARIABLES
    messages,       \* messages_: received ahead of the sequence
    last_handled,   \* number of the last message taken out
    last_announced, \* highest number received or announced
    fragment,       \* fragment_msg_: fragments of a submessage not complete yet
    delivered       \* the submessages the last step processed, as pieces

vars == <<messages, last_handled, last_announced, fragment, delivered>>

NoMessages == [k \in {} |-> <<>>]

\* Numbers stay below 2^16, and only intermediate fragments wait for others.
TypeOK ==
    /\ DOMAIN messages \subseteq SeqNums
    /\ \A k \in DOMAIN messages : messages[k] \in Messages
    /\ last_handled \in SeqNums
    /\ last_announced \in SeqNums
    /\ \A i \in DOMAIN fragment : fragment[i].kind = "FRAGMENT"

Init ==
    /\ messages = NoMessages
    /\ last_handled = MaxSeq
    /\ last_announced = MaxSeq
    /\ fragment = <<>>
    /\ delivered = <<>>

----------------------------------------------------------------------------
(* Processing of the messages taken out *)

\* A fragment joins the ones before it; the last one completes a submessage.
Process(st, p) ==
    CASE p.kind = "WHOLE"    -> [st EXCEPT !.out = Append(@, <<p>>)]
      [] p.kind = "FRAGMENT" -> [st EXCEPT !.fragment = Append(@, p)]
      [] p.kind = "LAST"     -> [fragment |-> <<>>,
                                 out      |-> Append(st.out, Append(st.fragment, p))]

\* pop_message until the next number is missing: how many numbers that is.
InSequence(held) ==
    CHOOSE n \in 0 .. Cardinality(held) :
        /\ \A d \in 1 .. n : SeqAdd(last_handled, d) \in held
        /\ SeqAdd(last_handled, n + 1) \notin held

\* The processing thread takes out n of the messages in all and processes them.
TakeOut(all, n) ==
    LET pieces == FlattenSeq([d \in 1 .. n |-> all[SeqAdd(last_handled, d)]])
        st[i \in 0 .. Len(pieces)] ==
            IF i = 0 THEN [fragment |-> fragment, out |-> <<>>] ELSE Process(st[i - 1], pieces[i])
        taken  == {SeqAdd(last_handled, d) : d \in 1 .. n}
    IN  /\ messages' = [k \in DOMAIN all \ taken |-> all[k]]
        /\ last_handled' = SeqAdd(last_handled, n)
        /\ fragment' = st[Len(pieces)].fragment
        /\ delivered' = st[Len(pieces)].out

----------------------------------------------------------------------------
(* The operations *)

InWindow(k) == SeqLt(last_handled, k) /\ SeqLeq(k, SeqAdd(last_handled, Depth))

\* push_message: std::map::emplace keeps an entry that is there.
Stored(k, m) ==
    [j \in DOMAIN messages \cup {k} |-> IF j \in DOMAIN messages THEN messages[j] ELSE m]

Receive(k, m) ==
    LET all == IF InWindow(k) THEN Stored(k, m) ELSE messages
    IN  /\ TakeOut(all, InSequence(DOMAIN all))
        /\ last_announced' = IF InWindow(k) /\ SeqLt(last_announced, k)
                             THEN k ELSE last_announced

\* Mistake: what precedes the Client's window is given up too early.
BugSkipTo(first) == SeqSub(first, 1)

\* update_from_heartbeat: numbers before the first the Client still holds are
\* given up.  What is stored is not taken out before the next message comes.
SkipTo(first) ==
    IF SeqLt(SeqAdd(last_handled, 1), first) THEN SeqSub(first, 1) ELSE last_handled

\* Mistake: a heartbeat drops what is stored ahead of a gap.
BugHeartbeat(first, last) ==
    /\ last_handled' = SkipTo(first)
    /\ last_announced' = IF SeqLt(last_announced, last) THEN last ELSE last_announced
    /\ messages' = NoMessages
    /\ delivered' = <<>>
    /\ UNCHANGED fragment

Heartbeat(first, last) ==
    /\ last_handled' = SkipTo(first)
    /\ last_announced' = IF SeqLt(last_announced, last) THEN last ELSE last_announced
    /\ delivered' = <<>>
    /\ UNCHANGED <<messages, fragment>>

\* reset leaves the fragments received so far.
Reset ==
    /\ last_handled' = MaxSeq
    /\ last_announced' = MaxSeq
    /\ messages' = NoMessages
    /\ delivered' = <<>>
    /\ UNCHANGED fragment

\* Mistake: a message stored ahead is asked for, the missing one is not.
BugNacked ==
    {i \in 0 .. BitmapSize - 1 :
        /\ SeqLt(SeqAdd(last_handled, i), last_announced)
        /\ SeqAdd(last_handled, i + 1) \in DOMAIN messages}

\* fill_acknack
Nacked ==
    {i \in 0 .. BitmapSize - 1 :
        /\ SeqLt(SeqAdd(last_handled, i), last_announced)
        /\ SeqAdd(last_handled, i + 1) \notin DOMAIN messages}

\* Mistake: what the Client announced is taken for received.
BugAcknack == [first |-> SeqAdd(last_announced, 1), nacks |-> Nacked]

Acknack == [first |-> SeqAdd(last_handled, 1), nacks |-> Nacked]

----------------------------------------------------------------------------

\* Bound of the model: fragments that wait for the last one.
FragmentBound == Depth

\* Numbers a packet can carry: those not half a turn away.
Near == {k \in SeqNums : SeqSub(k, last_handled) < Half \/ SeqSub(last_handled, k) < Half}

\* A Client gives up nothing that was not acknowledged: its heartbeat goes past
\* numbers only when the stream of the Agent was reset and holds nothing yet.
Next ==
    \/ \E k \in Near, m \in Messages :
          /\ Len(fragment) < FragmentBound
          /\ Receive(k, m)
    \/ \E first \in Near, last \in Near :
          /\ SeqLeq(first, SeqAdd(last, 1))
          /\ SeqLt(SeqAdd(last_handled, 1), first) => messages = NoMessages
          /\ Heartbeat(first, last)
    \/ Reset

Spec == Init /\ [][Next]_vars

----------------------------------------------------------------------------
(* Properties *)

\* A message stored ahead of its turn stays, as it was first received, until
\* its turn comes or the Client gives it up: a later packet with its number, a
\* heartbeat or a gap that closes does not touch it.
NothingForgotten ==
    [][Reset \/ \A k \in DOMAIN messages :
           SeqLt(last_handled', k) => k \in DOMAIN messages' /\ messages'[k] = messages[k]]_vars

\* What is stored lies ahead of a gap and inside the window: the next message
\* is never among it (nothing would take it out, and no ACKNACK would ask for
\* it), and at most Depth - 1 messages are stored.
HeldAhead == \A k \in DOMAIN messages : SeqSub(k, last_handled) \in 2 .. Depth
=============================================================================
