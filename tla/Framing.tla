------------------------------ MODULE Framing ------------------------------
(***************************************************************************)
(* Frames on a serial line (FramingIO of the Agent, uxrFramingIO of the    *)
(* Client): a begin flag, addresses, length, payload and CRC; the flag and *)
(* the escape octet are escaped.  One side writes through its write buffer *)
(* and a line loses and changes octets; the other reads them into a ring   *)
(* and takes frames out of it with a state machine.                        *)
(*                                                                         *)
(* Octets are numbers, with the flags of the code.  The CRC is ideal: the  *)
(* two octets of a payload are no other payload's and nothing else's.      *)
(***************************************************************************)
EXTENDS Integers, Sequences, SequencesExt, FiniteSetsExt

CONSTANTS
    Messages,       \* what is written, in order: payload and remote_addr
    LocalAddr,      \* of the reader
    SenderAddr,
    WriteBuffer,    \* sizeof(write_buffer_), wb: 42
    ReadBuffer,     \* sizeof(read_buffer_), rb: 42
    BufferLength,   \* len of read_framed_msg, the longest message it takes
    Octets,         \* what the line may change an octet to
    MaxLine,        \* bound: octets on their way when more are written
    MaxFaults       \* bound: octets the line changes or loses

BEGIN == 126      \* 0x7E
ESC   == 125      \* 0x7D

\* octet ^ 0x20
Xor(octet) == IF (octet \div 32) % 2 = 1 THEN octet - 32 ELSE octet + 32

\* The escaped header always fits in the write buffer: the code does not test
\* it.  The length of a message takes two octets.
FramingAssumption ==
    /\ WriteBuffer \in Nat /\ WriteBuffer >= 9
    /\ ReadBuffer \in Nat /\ ReadBuffer >= 3
    /\ BufferLength \in Nat
    /\ Octets \subseteq 0 .. 255
    /\ SenderAddr \in 0 .. 255
    /\ Messages \in Seq([payload : Seq(0 .. 255), to : 0 .. 255])
    /\ \A m \in DOMAIN Messages : Len(Messages[m].payload) < 65536

VARIABLES
    written,        \* how many messages write_framed_msg was called for
    writing,        \* the call in progress
    line,           \* octets on their way, each with its message
    faults,
    rb, head, tail, \* read_buffer_, read_buffer_head_, read_buffer_tail_
    state, msg_len, msg_pos, msg_crc, received,
    reading,        \* "call": read_framed_msg is about to be called
    messages,       \* what it returned
    unread,         \* the octets read from the line and not taken yet
    damaged         \* messages that are not on the line as they were framed

writeVars == <<written, writing>>
ringVars == <<rb, head, tail, unread>>
machineVars == <<state, msg_len, msg_pos, msg_crc, received, reading, messages>>
vars == <<writeVars, line, faults, ringVars, machineVars, damaged>>

NotWriting == [message |-> 0]

Init ==
    /\ written = 0 /\ writing = NotWriting
    /\ line = <<>> /\ faults = 0
    /\ rb = [i \in 0 .. ReadBuffer - 1 |-> 0] /\ head = 0 /\ tail = 0
    /\ state = "UNINITIALIZED"
    /\ msg_len = 0 /\ msg_pos = 0 /\ msg_crc = 0 /\ received = <<>>
    /\ reading = "call" /\ messages = <<>>
    /\ unread = <<>> /\ damaged = {}

----------------------------------------------------------------------------
(* Writing *)

\* add_next_octet: the octets an octet is written as.
Escaped(octet) ==
    IF octet \in {BEGIN, ESC} THEN <<ESC, Xor(octet)>> ELSE <<octet>>

\* The CRC of the payload of message m; that of any other sequence is nowhere.
CrcOf(m) == <<1000 * m, 1000 * m + 100>>
Crc(payload) ==
    LET of == {m \in DOMAIN Messages : Messages[m].payload = payload}
    IN  IF of = {} THEN <<-1, -1>> ELSE CrcOf(Min(of))

\* The frame of a message after the begin flag, octet by octet.
Frame(m) ==
    LET payload == Messages[m].payload
    IN  <<SenderAddr, Messages[m].to, Len(payload) % 256, Len(payload) \div 256>>
            \o payload \o Crc(payload)

OctetsOf(units) == FlattenSeq([i \in DOMAIN units |-> Escaped(units[i])])

\* How many of the octets left fit in the write buffer behind "used".
Fitting(units, used) ==
    Max({n \in 0 .. Len(units) : used + Len(OctetsOf(SubSeq(units, 1, n))) <= WriteBuffer})

\* The write buffer after as much as fits was added, and what is left.
Filled(m, side, buffer, units) ==
    LET n == Fitting(units, Len(buffer))
    IN  [message |-> m, side |-> side, buffer |-> buffer \o OctetsOf(SubSeq(units, 1, n)),
         units |-> SubSeq(units, n + 1, Len(units)), bytes_written |-> 0]

\* write_framed_msg up to the first transport_write.
WriteFramedMsg ==
    /\ reading = "call"
    /\ writing = NotWriting
    /\ written < Len(Messages)
    /\ written' = written + 1
    /\ \E side \in {"agent", "client"} :
          writing' = Filled(written + 1, side, <<BEGIN>>, Frame(written + 1))
    /\ UNCHANGED <<line, faults, ringVars, machineVars, damaged>>

OnLine(octets) == [i \in DOMAIN octets |-> [octet |-> octets[i], message |-> writing.message]]

\* After transport_write: the next part of the frame, or the call returns.
Continues(done) ==
    writing' = IF done < Len(writing.buffer) THEN [writing EXCEPT !.bytes_written = done]
               ELSE IF writing.units = <<>> THEN NotWriting
               ELSE Filled(writing.message, writing.side, <<>>, writing.units)

\* uxr_framing_write_transport: write_cb takes n octets of those left.
ClientWrites(n) ==
    LET from == writing.bytes_written
    IN  /\ n \in 1 .. Len(writing.buffer) - from
        /\ line' = line \o OnLine(SubSeq(writing.buffer, from + 1, from + n))
        /\ Continues(from + n)
        /\ UNCHANGED damaged

\* FramingIO::transport_write: after a partial write the callback is given the
\* whole buffer again.  When what it took adds up to more than the length of
\* the buffer the call fails, and when it adds up it succeeds.
AgentWrites(n) ==
    LET done == writing.bytes_written + n
    IN  /\ n \in 1 .. Len(writing.buffer)
        /\ line' = line \o OnLine(SubSeq(writing.buffer, 1, n))
        /\ IF done > Len(writing.buffer) THEN writing' = NotWriting ELSE Continues(done)
        /\ damaged' = damaged \cup {m \in {writing.message} : n < Len(writing.buffer)}

TransportWrite ==
    /\ reading = "call"
    /\ writing # NotWriting
    /\ Len(line) <= MaxLine
    /\ \E n \in 1 .. WriteBuffer :
          \/ writing.side = "client" /\ ClientWrites(n)
          \/ writing.side = "agent" /\ AgentWrites(n)
    /\ UNCHANGED <<written, faults, ringVars, machineVars>>

\* The callback writes nothing: the call fails with part of the frame sent.
WriteFails ==
    /\ reading = "call"
    /\ writing # NotWriting
    /\ writing' = NotWriting
    /\ damaged' = damaged \cup {writing.message}
    /\ UNCHANGED <<written, line, faults, ringVars, machineVars>>

----------------------------------------------------------------------------
(* The line *)

Loses(i) == line' = RemoveAt(line, i)

Changes(i) == \E octet \in Octets : line' = [line EXCEPT ![i].octet = octet]

Fault ==
    /\ reading = "call"
    /\ faults < MaxFaults
    /\ faults' = faults + 1
    /\ \E i \in DOMAIN line :
          /\ Loses(i) \/ Changes(i)
          /\ damaged' = damaged \cup {line[i].message}
    /\ UNCHANGED <<writeVars, ringVars, machineVars>>

----------------------------------------------------------------------------
(* Reading *)

\* Mistake: the ring may be filled to the last slot.
BugRoom ==
    IF head = tail THEN <<ReadBuffer - 1, 0>>
    ELSE IF head > tail THEN <<ReadBuffer - head, tail>>
    ELSE <<tail - head - 1, 0>>

\* transport_read: the room up to the end of the array, and before the tail.
Room ==
    IF head = tail THEN <<ReadBuffer - 1, 0>>
    ELSE IF head > tail /\ tail > 0 THEN <<ReadBuffer - head, tail - 1>>
    ELSE IF head > tail THEN <<ReadBuffer - head - 1, 0>>
    ELSE <<tail - head - 1, 0>>

\* n octets of the line go into the ring, which starts anew when it is empty.
ReadInto(n) ==
    LET start == IF head = tail THEN 0 ELSE head
        taken == [i \in 1 .. n |-> line[i].octet]
    IN  /\ rb' = [i \in DOMAIN rb |->
                    LET k == (i - start) % ReadBuffer IN IF k < n THEN taken[k + 1] ELSE rb[i]]
        /\ tail' = IF head = tail THEN 0 ELSE tail
        /\ head' = (start + n) % ReadBuffer
        /\ line' = SubSeq(line, n + 1, Len(line))
        /\ unread' = unread \o taken

\* read_framed_msg begins with transport_read; the callbacks give what has come.
\* In the middle of a payload the state machine calls it itself, which is the
\* same as a return without a message and the next call.
TransportRead ==
    /\ reading = "call"
    /\ \E n \in 0 .. Room[1] + Room[2] : n <= Len(line) /\ ReadInto(n)
    /\ reading' = IF head' = tail' THEN "call" ELSE "run"
    /\ UNCHANGED <<writeVars, faults, state, msg_len, msg_pos, msg_crc, received, messages, damaged>>

Next1 == (tail + 1) % ReadBuffer

\* Mistake: a begin flag behind an escape is passed over.
BugOctet ==
    IF head = tail THEN [ok |-> FALSE, takes |-> 0, octet |-> 0]
    ELSE IF rb[tail] # ESC THEN [ok |-> rb[tail] # BEGIN, takes |-> 1, octet |-> rb[tail]]
    ELSE IF Next1 = head THEN [ok |-> FALSE, takes |-> 0, octet |-> 0]
    ELSE [ok |-> rb[Next1] # BEGIN, takes |-> 2, octet |-> Xor(rb[Next1])]

\* get_next_octet: what it takes from the ring, and the octet it returns.  It
\* fails on a begin flag, also behind an escape, and waits for an escaped octet.
Octet ==
    IF head = tail THEN [ok |-> FALSE, takes |-> 0, octet |-> 0]
    ELSE IF rb[tail] # ESC THEN [ok |-> rb[tail] # BEGIN, takes |-> 1, octet |-> rb[tail]]
    ELSE IF Next1 = head THEN [ok |-> FALSE, takes |-> 0, octet |-> 0]
    ELSE IF rb[Next1] = BEGIN THEN [ok |-> FALSE, takes |-> 2, octet |-> BEGIN]
    ELSE [ok |-> TRUE, takes |-> 2, octet |-> Xor(rb[Next1])]

Takes(n) ==
    /\ tail' = (tail + n) % ReadBuffer
    /\ unread' = SubSeq(unread, n + 1, Len(unread))
    /\ UNCHANGED <<rb, head>>

Goes(next) == state' = next

\* UNINITIALIZED: octets are passed over up to a begin flag.
Seek ==
    /\ state = "UNINITIALIZED"
    /\ IF head = tail
       THEN reading' = "call" /\ UNCHANGED <<ringVars, state>>
       ELSE /\ Takes(1)
            /\ Goes(IF rb[tail] = BEGIN THEN "SRC_ADDR" ELSE state)
            /\ UNCHANGED reading
    /\ UNCHANGED <<msg_len, msg_pos, msg_crc, received, messages>>

\* Every other state starts again at a begin flag, and waits without an octet.
Interrupted ==
    /\ state # "UNINITIALIZED"
    /\ ~(state = "PAYLOAD" /\ msg_pos = msg_len)
    /\ ~Octet.ok
    /\ Takes(Octet.takes)
    /\ IF Octet.octet = BEGIN THEN Goes("SRC_ADDR") /\ UNCHANGED reading
                              ELSE reading' = "call" /\ UNCHANGED state
    /\ UNCHANGED <<msg_len, msg_pos, msg_crc, received, messages>>

At(here) == state = here /\ Octet.ok /\ Takes(Octet.takes)

ReadSrcAddr ==
    /\ At("SRC_ADDR")
    /\ Goes("DST_ADDR")
    /\ UNCHANGED <<reading, msg_len, msg_pos, msg_crc, received, messages>>

ReadDstAddr ==
    /\ At("DST_ADDR")
    /\ Goes(IF Octet.octet = LocalAddr THEN "LEN_LSB" ELSE "UNINITIALIZED")
    /\ UNCHANGED <<reading, msg_len, msg_pos, msg_crc, received, messages>>

ReadLenLsb ==
    /\ At("LEN_LSB")
    /\ msg_len' = Octet.octet
    /\ Goes("LEN_MSB")
    /\ UNCHANGED <<reading, msg_pos, msg_crc, received, messages>>

\* A message longer than the buffer is given up at once.
ReadLenMsb ==
    /\ At("LEN_MSB")
    /\ msg_len' = msg_len + 256 * Octet.octet
    /\ msg_pos' = 0 /\ received' = <<>>
    /\ IF BufferLength < msg_len' THEN Goes("UNINITIALIZED") /\ reading' = "call"
                                  ELSE Goes("PAYLOAD") /\ UNCHANGED reading
    /\ UNCHANGED <<msg_crc, messages>>

\* received: the octets written to buf, of which cmp_crc_ is the CRC.
ReadPayload ==
    \/ /\ state = "PAYLOAD" /\ msg_pos = msg_len
       /\ Goes("CRC_LSB")
       /\ UNCHANGED <<ringVars, msg_pos, received, reading, msg_len, msg_crc, messages>>
    \/ /\ msg_pos < msg_len /\ At("PAYLOAD")
       /\ msg_pos' = msg_pos + 1 /\ received' = Append(received, Octet.octet)
       /\ UNCHANGED <<state, reading, msg_len, msg_crc, messages>>

ReadCrcLsb ==
    /\ At("CRC_LSB")
    /\ msg_crc' = Octet.octet
    /\ Goes("CRC_MSB")
    /\ UNCHANGED <<reading, msg_len, msg_pos, received, messages>>

\* Mistake: the CRC is not compared.
BugReadCrcMsb ==
    /\ At("CRC_MSB")
    /\ Goes("UNINITIALIZED") /\ reading' = "call"
    /\ messages' = Append(messages, received)
    /\ UNCHANGED <<msg_len, msg_pos, msg_crc, received>>

ReadCrcMsb ==
    /\ At("CRC_MSB")
    /\ Goes("UNINITIALIZED") /\ reading' = "call"
    /\ messages' = IF Crc(received) = <<msg_crc, Octet.octet>>
                   THEN Append(messages, received) ELSE messages
    /\ UNCHANGED <<msg_len, msg_pos, msg_crc, received>>

\* The machine runs on what is in the ring until it returns.  It touches nothing
\* the other actions do, so these wait for it (reading = "call").
Machine ==
    /\ reading = "run"
    /\ \/ Seek \/ Interrupted \/ ReadSrcAddr \/ ReadDstAddr \/ ReadLenLsb \/ ReadLenMsb
       \/ ReadPayload \/ ReadCrcLsb \/ ReadCrcMsb
    /\ UNCHANGED <<writeVars, line, faults, damaged>>

Next == WriteFramedMsg \/ TransportWrite \/ WriteFails \/ Fault \/ TransportRead \/ Machine

Spec == Init /\ [][Next]_vars

----------------------------------------------------------------------------
(* Properties *)

States == {"UNINITIALIZED", "SRC_ADDR", "DST_ADDR", "LEN_LSB", "LEN_MSB",
           "PAYLOAD", "CRC_LSB", "CRC_MSB"}

\* The positions stay within the buffers.
TypeOK ==
    /\ written \in 0 .. Len(Messages)
    /\ head \in 0 .. ReadBuffer - 1 /\ tail \in 0 .. ReadBuffer - 1
    /\ state \in States
    /\ reading \in {"call", "run"}
    /\ msg_pos \in 0 .. BufferLength
    /\ state \in {"PAYLOAD", "CRC_LSB", "CRC_MSB"} => msg_pos <= msg_len

\* The ring holds the octets that came and were not taken, in order: head, tail
\* and the two pieces of room never lose one or let one be overwritten.
RingIsQueue ==
    /\ TypeOK
    /\ (head - tail) % ReadBuffer = Len(unread)
    /\ \A i \in DOMAIN unread : rb[(tail + i - 1) % ReadBuffer] = unread[i]

\* The number of a message among those written.
Number(payload) == {m \in DOMAIN Messages : Messages[m].payload = payload}

\* Whatever the line loses or changes, and wherever a write breaks off, what
\* read_framed_msg returns was written, in that order and once.
OnlyWritten ==
    /\ \A i \in DOMAIN messages :
          \E m \in Number(messages[i]) : m <= written
    /\ \A i, j \in DOMAIN messages : i < j =>
          \E m \in Number(messages[i]), n \in Number(messages[j]) : m < n

Quiet == writing = NotWriting /\ line = <<>> /\ unread = <<>> /\ reading = "call"

\* A message that is on the line as it was framed is returned, however the
\* frames before and behind it were damaged: the reader always finds the next
\* begin flag, also behind an escape, a wrong length or a frame broken off.
IntactReturned ==
    Quiet =>
        \A m \in 1 .. written :
            (m \notin damaged /\ Messages[m].to = LocalAddr /\ Len(Messages[m].payload) <= BufferLength)
                => \E i \in DOMAIN messages : messages[i] = Messages[m].payload
=============================================================================
