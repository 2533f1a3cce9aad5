----------------------- MODULE AgentOutputStreamProofs -----------------------
(***************************************************************************)
(* The window of the Agent's reliable output stream is sound for every     *)
(* modulus, depth, fragment count, set of threads and sequence of ACKNACKs.*)
(***************************************************************************)
EXTENDS AgentOutputStream, TLAPS

\* The four facts hold together: the map can only be described through the
\* occupancy, the effect of an ACKNACK on the map needs the sending position
\* within the window, and both need the occupancy below Half.
IInv ==
    /\ StreamTypeOK
    /\ HeldIsWindow
    /\ SentWithinWindow
    /\ OccupancyBound

\* The assumptions on the constants, in the form the arithmetic needs.
LEMMA Constants ==
    /\ Depth \in Nat /\ Depth >= 1
    /\ MaxFragments \in Nat /\ MaxFragments >= 1
    /\ Half \in Nat /\ Depth + MaxFragments <= Half
    /\ NoRequest \notin Requests
  BY HalfAssumption, WindowAssumption

\* The room test reads as it was meant as long as the window is short.
LEMMA RoomIsOccupancy ==
    ASSUME last_unacked \in SeqNums, first_unacked \in SeqNums, OccupancyBound
    PROVE  HasRoom <=> Occupancy < Depth
  BY Constants DEF HasRoom, OccupancyBound, Occupancy, SeqLt, SeqAdd, SeqSub, Wrap,
                   SeqNums, Modulus

\* A push makes the window n numbers longer at its far end.
LEMMA InsertExtends ==
    ASSUME IInv, HasRoom, NEW s \in Submessages, NEW n \in 1 .. MaxFragments,
           Insert(s, n)
    PROVE  /\ last_unacked' \in SeqNums
           /\ Occupancy' = Occupancy + n
           /\ Occupancy + n <= Depth - 1 + MaxFragments
           /\ SentWithinWindow'
           /\ \A k \in SeqNums :
                SeqSub(k, last_unacked) \in 1 .. n <=>
                    SeqSub(k, first_unacked) \in Occupancy .. (Occupancy + n - 1)
  <1>1. Occupancy < Depth /\ Occupancy \in Nat
    BY RoomIsOccupancy, Constants
       DEF IInv, StreamTypeOK, Occupancy, SeqSub, SeqAdd, Wrap, SeqNums, Modulus
  <1>2. last_unacked' = Wrap(last_unacked + n) /\ UNCHANGED <<last_sent, first_unacked>>
    BY DEF Insert
  <1>3. last_unacked' \in SeqNums /\ Occupancy' = Occupancy + n
    BY <1>1, <1>2, Constants
       DEF IInv, StreamTypeOK, Occupancy, SeqSub, SeqAdd, Wrap, SeqNums, Modulus
  <1>4. Occupancy + n <= Depth - 1 + MaxFragments
    BY <1>1, Constants
  <1>5. SentWithinWindow'
    BY <1>1, <1>2, <1>3, Constants
       DEF IInv, StreamTypeOK, SentWithinWindow, SeqSub, SeqAdd, Wrap, SeqNums, Modulus
  <1>6. \A k \in SeqNums :
          SeqSub(k, last_unacked) \in 1 .. n <=>
              SeqSub(k, first_unacked) \in Occupancy .. (Occupancy + n - 1)
    BY <1>1, <1>4, Constants
       DEF IInv, StreamTypeOK, Occupancy, SeqSub, SeqAdd, Wrap, SeqNums, Modulus
  <1>. QED  BY <1>3, <1>4, <1>5, <1>6

\* push_submessage, at once or after a wait, keeps the window sound.
LEMMA InsertPreserves ==
    ASSUME IInv, HasRoom, NEW s \in Submessages, NEW n \in 1 .. MaxFragments,
           Insert(s, n), blocked' \in [Writers -> Requests \cup {NoRequest}]
    PROVE  IInv'
  <1>. DEFINE new == {k \in SeqNums : SeqSub(k, last_unacked) \in 1 .. n}
  <1>1. /\ DOMAIN messages' = DOMAIN messages \cup new
        /\ \A k \in DOMAIN messages' :
             messages'[k] = IF k \in DOMAIN messages THEN messages[k]
                            ELSE [sub |-> s, frag |-> SeqSub(k, last_unacked),
                                  last |-> SeqSub(k, last_unacked) = n]
        /\ last_sent' = last_sent /\ first_unacked' = first_unacked
    BY DEF Insert
  <1>2. StreamTypeOK'
    <2>1. DOMAIN messages' \subseteq SeqNums
      BY <1>1 DEF IInv, StreamTypeOK
    <2>2. ASSUME NEW k \in DOMAIN messages'  PROVE messages'[k] \in Messages
      <3>1. CASE k \in DOMAIN messages
        BY <1>1, <3>1 DEF IInv, StreamTypeOK
      <3>2. CASE k \notin DOMAIN messages
        <4>1. SeqSub(k, last_unacked) \in 1 .. MaxFragments
          BY <1>1, <3>2, Constants
        <4>2. messages'[k] = [sub |-> s, frag |-> SeqSub(k, last_unacked),
                              last |-> SeqSub(k, last_unacked) = n]
          BY <1>1, <3>2
        <4>3. (SeqSub(k, last_unacked) = n) \in BOOLEAN
          OBVIOUS
        <4>4. \A q \in 1 .. MaxFragments, b \in BOOLEAN :
                [sub |-> s, frag |-> q, last |-> b] \in Messages
          BY DEF Messages
        <4>. QED  BY <4>1, <4>2, <4>3, <4>4
      <3>. QED  BY <3>1, <3>2
    <2>. QED  BY <1>1, <2>1, <2>2, InsertExtends DEF IInv, StreamTypeOK
  <1>3. HeldIsWindow'
    <2>1. \A k \in SeqNums : k \in DOMAIN messages <=> SeqSub(k, first_unacked) < Occupancy
      BY DEF IInv, HeldIsWindow
    <2>2. \A k \in SeqNums : k \in new <=>
             SeqSub(k, first_unacked) \in Occupancy .. (Occupancy + n - 1)
      BY InsertExtends
    <2>3. Occupancy \in Nat /\ \A k \in SeqNums : SeqSub(k, first_unacked) \in Nat
      BY Constants DEF IInv, StreamTypeOK, Occupancy, SeqSub, SeqAdd, Wrap, SeqNums, Modulus
    <2>4. \A k \in SeqNums : k \in DOMAIN messages' <=> SeqSub(k, first_unacked') < Occupancy'
      BY <1>1, <2>1, <2>2, <2>3, InsertExtends, Constants
    <2>. QED  BY <1>2, <2>4 DEF StreamTypeOK, HeldIsWindow
  <1>4. OccupancyBound'
    BY InsertExtends DEF OccupancyBound
  <1>. QED  BY <1>2, <1>3, <1>4, InsertExtends DEF IInv

\* An ACKNACK that passes the guards acknowledges sent messages only.
LEMMA AcknackWithinSent ==
    ASSUME IInv, NEW f \in SeqNums,
           SeqLeq(f, SeqAdd(last_sent, 1)), SeqLt(first_unacked, f)
    PROVE  /\ SeqSub(f, first_unacked) \in 1 .. Occupancy
           /\ SeqSub(f, first_unacked) <= SeqSub(SeqAdd(last_sent, 1), first_unacked)
  BY Constants DEF IInv, StreamTypeOK, SentWithinWindow, OccupancyBound, Occupancy,
                   SeqLt, SeqLeq, SeqSub, SeqAdd, Wrap, SeqNums, Modulus

\* update_from_acknack erases a prefix of the window and nothing else.
LEMMA AcknackPreserves ==
    ASSUME IInv, NEW f \in SeqNums, UpdateFromAcknack(f)
    PROVE  IInv'
  <1>. DEFINE d == SeqSub(f, first_unacked)
  <1>1. d \in 1 .. Occupancy /\ d <= SeqSub(SeqAdd(last_sent, 1), first_unacked)
    BY AcknackWithinSent DEF UpdateFromAcknack, Acknowledges
  <1>2. /\ DOMAIN messages' = {k \in DOMAIN messages : SeqSub(k, first_unacked) >= d}
        /\ \A k \in DOMAIN messages' : messages'[k] = messages[k]
        /\ first_unacked' = f
        /\ UNCHANGED <<last_unacked, last_sent, blocked>>
    BY DEF UpdateFromAcknack
  <1>3. StreamTypeOK'
    BY <1>2 DEF IInv, StreamTypeOK
  <1>4. Occupancy' = Occupancy - d
    BY <1>1, <1>2, Constants
       DEF IInv, StreamTypeOK, OccupancyBound, Occupancy, SeqSub, SeqAdd, Wrap, SeqNums, Modulus
  <1>5. \A k \in SeqNums : SeqSub(k, f) < Occupancy - d
                             <=> SeqSub(k, first_unacked) \in d .. (Occupancy - 1)
    BY <1>1, Constants
       DEF IInv, StreamTypeOK, OccupancyBound, Occupancy, SeqSub, SeqAdd, Wrap, SeqNums, Modulus
  <1>6. HeldIsWindow'
    <2>1. \A k \in SeqNums : k \in DOMAIN messages <=> SeqSub(k, first_unacked) < Occupancy
      BY DEF IInv, HeldIsWindow
    <2>2. Occupancy \in Nat /\ \A k \in SeqNums : SeqSub(k, first_unacked) \in Nat
      BY Constants DEF IInv, StreamTypeOK, Occupancy, SeqSub, SeqAdd, Wrap, SeqNums, Modulus
    <2>3. \A k \in SeqNums : k \in DOMAIN messages' <=> SeqSub(k, first_unacked') < Occupancy'
      BY <1>1, <1>2, <1>4, <1>5, <2>1, <2>2
    <2>. QED  BY <1>3, <2>3 DEF StreamTypeOK, HeldIsWindow
  <1>7. SentWithinWindow'
    BY <1>1, <1>2, <1>4, Constants
       DEF IInv, StreamTypeOK, SentWithinWindow, OccupancyBound, Occupancy,
           SeqSub, SeqAdd, Wrap, SeqNums, Modulus
  <1>8. OccupancyBound'
    <2>1. Occupancy \in Int
      BY Constants DEF IInv, StreamTypeOK, Occupancy, SeqSub, SeqAdd, Wrap, SeqNums, Modulus
    <2>. QED  BY <1>1, <1>4, <2>1, Constants DEF IInv, OccupancyBound
  <1>. QED  BY <1>3, <1>6, <1>7, <1>8 DEF IInv

\* What StreamInit and Reset establish: an empty window before number 0.
Cleared ==
    /\ last_unacked = MaxSeq /\ last_sent = MaxSeq /\ first_unacked = 0
    /\ DOMAIN messages = {}
    /\ blocked \in [Writers -> Requests \cup {NoRequest}]

\* A new or reset stream has a sound, empty window.
LEMMA EmptyWindow == Cleared => IInv
  <1> SUFFICES ASSUME Cleared  PROVE IInv
    OBVIOUS
  <1>. USE DEF Cleared
  <1>1. Occupancy = 0 /\ SeqAdd(last_sent, 1) = 0
    BY Constants DEF Occupancy, SeqSub, SeqAdd, Wrap, Modulus, MaxSeq
  <1>2. SeqSub(0, 0) = 0 /\ \A k \in SeqNums : ~(SeqSub(k, 0) < 0)
    BY Constants DEF SeqSub, SeqNums, Modulus
  <1>3. HeldIsWindow /\ SentWithinWindow /\ OccupancyBound
    BY <1>1, <1>2, Constants DEF HeldIsWindow, SentWithinWindow, OccupancyBound
  <1>4. StreamTypeOK
    BY Constants DEF StreamTypeOK, MaxSeq, SeqNums, Modulus
  <1>. QED  BY <1>3, <1>4 DEF IInv

\* get_next_message moves within the window.
LEMMA SendPreserves ==
    ASSUME IInv, GetNextMessage
    PROVE  IInv'
  <1>1. SeqAdd(last_sent, 1) \in SeqNums
    BY Constants DEF IInv, StreamTypeOK, SeqAdd, Wrap, SeqNums, Modulus
  <1>2. SentWithinWindow'
    BY Constants DEF IInv, StreamTypeOK, GetNextMessage, HasNext, SentWithinWindow, OccupancyBound,
                     Occupancy, SeqLt, SeqSub, SeqAdd, Wrap, SeqNums, Modulus
  <1>. QED  BY <1>1, <1>2 DEF IInv, StreamTypeOK, GetNextMessage, HeldIsWindow, OccupancyBound, Occupancy

\* The invariant is inductive under every operation of the stream.
LEMMA StepPreserves == IInv /\ [StreamNext]_streamVars => IInv'
  <1> SUFFICES ASSUME IInv, [StreamNext]_streamVars  PROVE IInv'
    OBVIOUS
  <1>0. blocked \in [Writers -> Requests \cup {NoRequest}]
    BY DEF IInv, StreamTypeOK
  <1>1. ASSUME NEW t \in Writers, NEW s \in Submessages, NEW n \in 1 .. MaxFragments,
               PushNow(t, s, n)
        PROVE  IInv'
    BY <1>0, <1>1, InsertPreserves DEF PushNow
  <1>2. ASSUME NEW t \in Writers, NEW s \in Submessages, NEW n \in 1 .. MaxFragments,
               PushBlocks(t, s, n)
        PROVE  IInv'
    <2>1. [sub |-> s, n |-> n] \in Requests
      BY DEF Requests
    <2>2. blocked' \in [Writers -> Requests \cup {NoRequest}]
      BY <1>0, <1>2, <2>1 DEF PushBlocks
    <2>. QED  BY <1>2, <2>2 DEF PushBlocks, IInv, StreamTypeOK, HeldIsWindow, SentWithinWindow,
                                OccupancyBound, Occupancy
  <1>3. ASSUME NEW t \in Writers, PushResumes(t)
        PROVE  IInv'
    <2>1. blocked[t] \in Requests
      BY <1>0, <1>3 DEF PushResumes
    <2>2. blocked[t].sub \in Submessages /\ blocked[t].n \in 1 .. MaxFragments
      BY <2>1 DEF Requests
    <2>3. blocked' \in [Writers -> Requests \cup {NoRequest}]
      BY <1>0, <1>3 DEF PushResumes
    <2>. QED  BY <1>3, <2>2, <2>3, InsertPreserves DEF PushResumes
  <1>4. ASSUME NEW t \in Writers, PushTimesOut(t)
        PROVE  IInv'
    <2>1. blocked' \in [Writers -> Requests \cup {NoRequest}]
      BY <1>0, <1>4 DEF PushTimesOut
    <2>. QED  BY <1>4, <2>1 DEF PushTimesOut, IInv, StreamTypeOK, HeldIsWindow, SentWithinWindow,
                                OccupancyBound, Occupancy
  <1>5. CASE GetNextMessage
    BY <1>5, SendPreserves
  <1>6. ASSUME NEW f \in SeqNums, UpdateFromAcknack(f)
        PROVE  IInv'
    BY <1>6, AcknackPreserves
  <1>7. CASE Reset
    <2>1. Cleared'
      BY <1>0, <1>7 DEF Reset, Cleared
    <2>. QED  BY <2>1, EmptyWindow, PTL
  <1>8. CASE UNCHANGED streamVars
    BY <1>8 DEF streamVars, IInv, StreamTypeOK, HeldIsWindow, SentWithinWindow, OccupancyBound, Occupancy
  <1>. QED  BY <1>1, <1>2, <1>3, <1>4, <1>5, <1>6, <1>7, <1>8 DEF StreamNext

\* The invariant holds when the stream is created.
LEMMA InitHolds == StreamInit => IInv
  <1>1. StreamInit => Cleared
    BY DEF StreamInit, Cleared
  <1>. QED  BY <1>1, EmptyWindow

\* The window is sound in every reachable state, whatever the threads do with
\* the stream: the map holds what heartbeats announce, get_next_message finds
\* its message, and the window is short.
THEOREM WindowInvariant == StreamSpec => []IInv
  BY InitHolds, StepPreserves, PTL DEF StreamSpec

----------------------------------------------------------------------------
\* One number further is one step further from any origin of the window.
LEMMA StepFromOrigin ==
    ASSUME NEW k \in SeqNums, NEW o \in SeqNums, SeqSub(k, o) < MaxSeq
    PROVE  /\ SeqAdd(k, 1) \in SeqNums
           /\ SeqSub(SeqAdd(k, 1), o) = SeqSub(k, o) + 1
  BY Constants DEF SeqSub, SeqAdd, Wrap, SeqNums, Modulus, MaxSeq

\* push_submessage puts its fragments behind the end of an earlier push.
LEMMA InsertKeepsAdjacent ==
    ASSUME IInv, FragmentsAdjacent, HasRoom,
           NEW s \in Submessages, NEW n \in 1 .. MaxFragments, Insert(s, n)
    PROVE  FragmentsAdjacent'
  <1>. DEFINE new == {k \in SeqNums : SeqSub(k, last_unacked) \in 1 .. n}
  <1>1. /\ DOMAIN messages' = DOMAIN messages \cup new
        /\ \A k \in DOMAIN messages' :
             messages'[k] = IF k \in DOMAIN messages THEN messages[k]
                            ELSE [sub |-> s, frag |-> SeqSub(k, last_unacked),
                                  last |-> SeqSub(k, last_unacked) = n]
    BY DEF Insert
  <1>2. \A k \in new : k \notin DOMAIN messages
    <2>1. \A k \in SeqNums : k \in new =>
             SeqSub(k, first_unacked) \in Occupancy .. (Occupancy + n - 1)
      BY InsertExtends
    <2>2. Occupancy \in Nat /\ \A k \in SeqNums : SeqSub(k, first_unacked) \in Nat
      BY Constants DEF IInv, StreamTypeOK, Occupancy, SeqSub, SeqAdd, Wrap, SeqNums, Modulus
    <2>. QED  BY <2>1, <2>2 DEF IInv, HeldIsWindow
  <1>0. SUFFICES ASSUME NEW k \in DOMAIN messages', ~messages'[k].last
                 PROVE  /\ SeqAdd(k, 1) \in DOMAIN messages'
                        /\ messages'[SeqAdd(k, 1)].sub = messages'[k].sub
                        /\ messages'[SeqAdd(k, 1)].frag = messages'[k].frag + 1
    BY DEF FragmentsAdjacent
  <1>. DEFINE j == SeqAdd(k, 1)
  <1>3. CASE k \in DOMAIN messages
    <2>1. j \in DOMAIN messages /\ messages[j].sub = messages[k].sub
                               /\ messages[j].frag = messages[k].frag + 1
      BY <1>0, <1>1, <1>3 DEF FragmentsAdjacent
    <2>. QED  BY <1>1, <1>3, <2>1
  <1>4. CASE k \notin DOMAIN messages
    <2>1. k \in new /\ messages'[k] = [sub |-> s, frag |-> SeqSub(k, last_unacked),
                                       last |-> SeqSub(k, last_unacked) = n]
      BY <1>1, <1>4
    <2>2. SeqSub(k, last_unacked) \in 1 .. n - 1
      <3>1. SeqSub(k, last_unacked) # n
        <4>1. messages'[k].last = (SeqSub(k, last_unacked) = n)
          BY <2>1
        <4>. QED  BY <1>0, <4>1, Zenon
      <3>2. SeqSub(k, last_unacked) \in 1 .. n
        BY <2>1
      <3>. QED  BY <3>1, <3>2, Constants
    <2>3. j \in SeqNums /\ SeqSub(j, last_unacked) = SeqSub(k, last_unacked) + 1
      <3>1. SeqSub(k, last_unacked) < MaxSeq
        BY <2>2, Constants DEF MaxSeq, Modulus
      <3>. QED  BY <2>1, <3>1, StepFromOrigin DEF IInv, StreamTypeOK
    <2>4. j \in new
      BY <2>2, <2>3, Constants
    <2>5. messages'[j] = [sub |-> s, frag |-> SeqSub(j, last_unacked),
                          last |-> SeqSub(j, last_unacked) = n]
      BY <1>1, <1>2, <2>4
    <2>. QED  BY <1>1, <2>1, <2>3, <2>4, <2>5
  <1>. QED  BY <1>3, <1>4

\* update_from_acknack never takes a fragment away from the middle.
LEMMA AcknackKeepsAdjacent ==
    ASSUME IInv, FragmentsAdjacent, NEW f \in SeqNums, UpdateFromAcknack(f)
    PROVE  FragmentsAdjacent'
  <1>. DEFINE d == SeqSub(f, first_unacked)
  <1>1. /\ DOMAIN messages' = {k \in DOMAIN messages : SeqSub(k, first_unacked) >= d}
        /\ \A k \in DOMAIN messages' : messages'[k] = messages[k]
    BY DEF UpdateFromAcknack
  <1>2. d \in Int
    BY Constants DEF IInv, StreamTypeOK, SeqSub, SeqNums, Modulus
  <1>3. ASSUME NEW k \in DOMAIN messages', ~messages'[k].last
        PROVE  /\ SeqAdd(k, 1) \in DOMAIN messages'
               /\ messages'[SeqAdd(k, 1)].sub = messages'[k].sub
               /\ messages'[SeqAdd(k, 1)].frag = messages'[k].frag + 1
    <2>. DEFINE j == SeqAdd(k, 1)
    <2>1. k \in SeqNums /\ SeqSub(k, first_unacked) < MaxSeq
      <3>1. k \in SeqNums /\ SeqSub(k, first_unacked) < Occupancy
        BY <1>1 DEF IInv, HeldIsWindow
      <3>2. Occupancy \in Int /\ Occupancy < MaxSeq
        BY Constants DEF IInv, StreamTypeOK, OccupancyBound, Occupancy, SeqSub, SeqAdd, Wrap,
                         SeqNums, Modulus, MaxSeq
      <3>3. SeqSub(k, first_unacked) \in Int
        BY <3>1, Constants DEF IInv, StreamTypeOK, SeqSub, SeqNums, Modulus
      <3>4. MaxSeq \in Int
        BY Constants DEF MaxSeq, Modulus
      <3>. QED  BY <3>1, <3>2, <3>3, <3>4
    <2>2. SeqSub(j, first_unacked) = SeqSub(k, first_unacked) + 1
      BY <2>1, StepFromOrigin DEF IInv, StreamTypeOK
    <2>3. SeqSub(k, first_unacked) \in Int
      BY <2>1, Constants DEF IInv, StreamTypeOK, SeqSub, SeqNums, Modulus
    <2>4. /\ j \in DOMAIN messages
          /\ messages[j].sub = messages[k].sub
          /\ messages[j].frag = messages[k].frag + 1
      BY <1>1, <1>3 DEF FragmentsAdjacent
    <2>5. /\ SeqSub(k, first_unacked) >= d
          /\ messages'[k] = messages[k]
      BY <1>1
    <2>6. SeqSub(j, first_unacked) >= d
      BY <1>2, <2>2, <2>3, <2>5
    <2>7. j \in DOMAIN messages' /\ messages'[j] = messages[j]
      BY <1>1, <2>4, <2>6
    <2>. QED  BY <2>4, <2>5, <2>7
  <1>. QED  BY <1>3 DEF FragmentsAdjacent

\* No operation of the stream separates the fragments of one push.
LEMMA StepKeepsAdjacent == IInv /\ FragmentsAdjacent /\ [StreamNext]_streamVars => FragmentsAdjacent'
  <1> SUFFICES ASSUME IInv, FragmentsAdjacent, [StreamNext]_streamVars
               PROVE  FragmentsAdjacent'
    OBVIOUS
  <1>1. ASSUME NEW t \in Writers, NEW s \in Submessages, NEW n \in 1 .. MaxFragments,
               PushNow(t, s, n)
        PROVE  FragmentsAdjacent'
    BY <1>1, InsertKeepsAdjacent DEF PushNow
  <1>2. ASSUME NEW t \in Writers, PushResumes(t)
        PROVE  FragmentsAdjacent'
    <2>1. blocked[t].sub \in Submessages /\ blocked[t].n \in 1 .. MaxFragments
      BY <1>2 DEF PushResumes, IInv, StreamTypeOK, Requests
    <2>. QED  BY <1>2, <2>1, InsertKeepsAdjacent DEF PushResumes
  <1>3. ASSUME NEW f \in SeqNums, UpdateFromAcknack(f)
        PROVE  FragmentsAdjacent'
    BY <1>3, AcknackKeepsAdjacent
  <1>4. CASE Reset
    BY <1>4 DEF Reset, FragmentsAdjacent
  <1>5. CASE UNCHANGED messages
    BY <1>5 DEF FragmentsAdjacent
  <1>. QED  BY <1>1, <1>2, <1>3, <1>4, <1>5
            DEF StreamNext, streamVars, PushBlocks, PushTimesOut, GetNextMessage

\* No interleaving of threads, ACKNACKs and resets separates the fragments of
\* one push.
THEOREM FragmentsStayAdjacent == StreamSpec => []FragmentsAdjacent
  <1>1. StreamInit => FragmentsAdjacent
    BY DEF StreamInit, FragmentsAdjacent
  <1>. QED  BY <1>1, WindowInvariant, StepKeepsAdjacent, PTL DEF StreamSpec
=============================================================================
