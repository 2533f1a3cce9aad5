# Micro XRCE-DDS: a verification development

The repository holds two programs that speak DDS-XRCE to each other:

- **Micro-XRCE-DDS-Client** (C), a library for microcontrollers. One thread,
  no dynamic memory: streams are rings of slots in buffers of the application.
- **Micro-XRCE-DDS-Agent** (C++), a server that keeps, for every Client, a proxy
  with its DDS entities. Six or more threads: those of the server and one reading
  thread for every subscription.

They exchange datagrams that the transport may lose, duplicate and reorder, or frames
on a serial line. What the development covers, from the outside in: the octets of the
messages; frames; the streams of a session with their 16-bit sequence numbers; logging in,
the requests and their statuses; the Agent's threads; and the objects and topics it
keeps for its Clients.

Paths below are relative to `src/Micro-XRCE-DDS-Agent` (A) and
`src/Micro-XRCE-DDS-Client` (C).

## 1. Inventory

### Components, their state and operations

| component | source | state | operations |
|---|---|---|---|
| Sequence numbers | A `utils/SeqNum.hpp`, C `stream/seq_num.c` | none | add, subtract, compare modulo 2^16 |
| Agent reliable output stream | A `stream/OutputStream.hpp` | map of unacknowledged messages, ends of the window, sending position | `push_submessage` (blocks, times out, fragments), `get_next_message`, `get_message`, `update_from_acknack`, `fill_heartbeat`, `reset` |
| Agent reliable input stream | A `stream/InputStream.hpp` | map of messages ahead of a gap, last handled and announced, fragments | `push_message`, `pop_message`, `push_fragment`/`pop_fragment_message`, `update_from_heartbeat`, `fill_acknack`, `reset` |
| Agent none and best-effort streams | same files | queue, last number | push, pop, reset |
| Agent session | A `session/Session.hpp`, `utils/SharedMutex.hpp` | four maps of streams created on demand, a shared mutex | push/pop per stream, reset |
| Agent processor | A `processor/Processor.cpp` | none of its own | one handler for each kind of submessage, `read_data_callback`, `check_heartbeats` |
| Agent server | A `transport/Server.cpp` | `running_cond_`, error state, two queues, five threads | `start`, `stop`, five loops |
| Agent scheduler | A `scheduler/FCFSScheduler.hpp` | bounded deque, running flag | `init`, `deinit`, `push`, `push_front`, `pop` |
| Agent root, session manager | A `Root.cpp`, `transport/SessionManager.hpp` | registry of clients with an iterator for heartbeats; maps endpoint to client and back | create, delete, get, next client; establish, destroy, look up a route |
| Agent proxy client | A `client/ProxyClient.cpp` | objects by id | create (four creation modes), delete, release |
| Agent readers and writers | A `reader/Reader.hpp`, `utils/TokenBucket.hpp`, `datareader`, `datawriter`, `requester`, `replier` | thread, flags, tokens | start and stop reading, read, write |
| Agent middlewares | A `middleware/ced` (built in), `middleware/fastdds`, `middleware/fast` | topics as rings of samples, registers per participant; handles of libraries | create, delete, match, write, read |
| Agent stream framing | A `transport/stream_framing` | ring, state machine, write buffer | read and write a frame |
| Agent types and messages | A `types/*.cpp`, `message/*.hpp` | octet buffers | serialize, deserialize, count |
| Agent transports, discovery, P2P, programs | A `src/cpp/...` | sockets | system calls |
| Client reliable output stream | C `stream/output_reliable_stream.c` | ring of slots, last written, sent, acknowledged | prepare a buffer (whole or fragments), prepare to send, ACKNACK, retransmit, reset |
| Client reliable input stream | C `stream/input_reliable_stream.c` | ring of slots, last handled, announced | receive, next available, heartbeat, ACKNACK, reset |
| Client best-effort streams | C `stream/*_best_effort_stream.c` | one buffer or one counter | write, send, receive, reset |
| Client session | C `session.c`, `stream_storage.c` | streams, callbacks, requests awaited | create, delete, run, flash, wait for statuses or for confirmation, synchronise time |
| Client session info | C `session_info.c` | id, key, last request, last status | payloads and statuses of the handshake, ids of requests |
| Client entities and data access | C `create_entities_*.c`, `read_access.c`, `write_access.c` | none | build requests, read formats |
| Client stream framing | C `stream_framing_protocol.c` | as the Agent's | as the Agent's |
| Client serialization | C `xrce_types.c`, headers | octet buffers | serialize, deserialize |
| Client transports, discovery, ping, logging | C `src/c/...` | sockets | system calls, one request and its answer |

`PROJECT.json` says of each whether it is modelled, partly modelled or not, and lists what
is hard to test in it.

### How they interact

    application ─ request ─► output stream ─ flash ─► (network) ─► Server receiver ─► input queue
                                ▲                                          │
                                └────────────── ACKNACK ◄──────────────────┤
                                              processing thread ─► Processor ─► input stream
                                                       │                   └──► ProxyClient ─► middleware
                                                       ├─ Root, SessionManager
    application ◄─ topic ─ input stream ◄─ (network) ◄─┼─ Server sender ◄─ output queue
                                │                      │                   ▲
                                └── ACKNACK ───────────┘                   │
           middleware ─► reading threads ─► Session (shared mutex) ─► Agent output stream
                                     heartbeat thread ── heartbeats ───────┘

- *Calls*: the Processor calls the session's streams, Root and the ProxyClient; the
  ProxyClient calls the middleware; the Client's `session.c` calls its streams.
- *Shared state*: an Agent output stream is used by the reading threads, the processing
  thread and the heartbeat thread under its own mutex, and found in a map under a shared
  mutex. The two queues are the only coupling of the Server's threads besides
  `running_cond_` and the error state under `error_mtx_`.
- *Messages*: CREATE_CLIENT, CREATE, DELETE, WRITE_DATA, READ_DATA and others with their
  STATUS, INFO and DATA; DATA and FRAGMENT with a number; HEARTBEAT (first and last number
  held); ACKNACK (first number missing and a bitmap).
- *Callbacks*: a reading thread hands samples to `Processor::read_data_callback`, and asks it
  for them with `read_fn`.

### What is hard

- 16-bit numbers that wrap, compared by an order that holds only inside half the circle.
- Messages, heartbeats, ACKNACKs and statuses that come late, twice, in another order or never.
- Several threads that push to one window, sleep until it has room with the stream map locked
  (shared), time out, and find it reset when they wake.
- Fragments: one test of room for many messages, adjacency, reassembly, rings that fill up.
- A delivery loop that runs only when the right packet comes.
- Starting, stopping and joining threads that wait on queues, on condition variables, on tokens,
  and on a mutex that a retry loop holds.
- Maps kept in step by hand: routes and clients, objects and entities, names and reference counts.
- Two serializers of the same types from different generators, and a third piece of code that
  counts what one of them will write.

### What makes each component correct

- *Output streams*: what is numbered and not acknowledged is stored unchanged, and
  nothing else is; fragments of a submessage are adjacent; nothing numbered stays unsent.
- *Input streams*: what is ahead of a gap is kept; what is in sequence is delivered at
  once, whole; an ACKNACK confirms what was delivered and nothing else.
- *A reliable stream, end to end*: each submessage is delivered once, whole and in order
  (`ReliableChannel`), and if the network delivers something from time to time, delivered it is.
- *A best-effort stream, end to end*: in order and at most once (`LossyChannel`).
- *Frames*: what is returned was written, and all that came intact is returned.
- *Server*: packets in order; after `stop` no thread runs and the transport is closed; errors
  are dealt with; `stop` returns.
- *Session and readers*: streams are created under the exclusive lock only and nothing waits for
  ever; a reader gives no more than was asked; stopping it returns.
- *Root, session manager, login*: the registers agree; a Client that was told it has a session
  has one; the walk of the heartbeat thread is never on a client that is gone.
- *Requests*: a call returns true only if the Agent accepted what it names.
- *Objects*: objects and entities of the middleware exist together; a name of a domain is one
  topic; a status says what happened; readers get samples in order.
- *Messages*: each side takes out exactly what the other put in; every length field is true.

## 2. Modules

| module | models | built on |
|---|---|---|
| `SeqNum` | serial numbers of both programs, modulus 2·`Half` | |
| `AgentOutputStream` | `ReliableOutputStream` and the threads that use it | `SeqNum` |
| `AgentInputStream` | `ReliableInputStream` with the processor's loop | `SeqNum` |
| `ClientInputStream` | `uxrInputReliableStream` with `read_stream` | `SeqNum` |
| `ClientOutputStream` | `uxrOutputReliableStream` with `uxr_flash_output_streams` | `SeqNum` |
| `Datagrams` | the datagram transport (not part of the sources) | |
| `ReliableChannel` | *abstract specification*: a FIFO of submessages | |
| `Downlink` | Agent to Client, composed; implements `ReliableChannel` | `AgentOutputStream`, `ClientInputStream`, `Datagrams` |
| `Uplink` | Client to Agent, composed; implements `ReliableChannel` | `ClientOutputStream`, `AgentInputStream`, `Datagrams` |
| `LossyChannel` | *abstract specification*: in order, at most once | |
| `BestEffortDownlink` | best-effort stream, Agent to Client; implements `LossyChannel` | `SeqNum`, `Datagrams` |
| `BestEffortUplink` | best-effort stream, Client to Agent; implements `LossyChannel` | `SeqNum`, `Datagrams` |
| `Framing` | `FramingIO` of both programs over a serial line | |
| `FCFSScheduler` | one queue | |
| `Server` | the Agent's threads | `FCFSScheduler`, twice |
| `SharedMutex` | `SharedMutex` with `SharedLock` and `ExclusiveLock` | |
| `Delivery` | reading threads, the session's stream map and the processing thread | `AgentOutputStream`, `SharedMutex` |
| `Registers` | maps of the standard library | |
| `ClientRegisters` | `Root` and `SessionManager`: the two registers of clients | `Registers` |
| `Identities` | who takes part in a session | |
| `ClientSession` | login and logout of the Client | `Identities` |
| `Sessions` | Clients, lines and Agent composed | `ClientSession`, `ClientRegisters` |
| `ClientRequests` | ids, lists of requests and statuses | |
| `CedMiddleware` | the built-in middleware: topics with their rings, participants, readers and writers | `SeqNum`, `Registers` |
| `Entities` | objects of proxy clients over that middleware | `CedMiddleware` |
| `Cdr` | CDR, from how both programs call their libraries (external) | |
| `AgentConstants`, `AgentTypes` | layouts of `XRCETypes.hpp`, `XRCETypes.cpp`, and `getCdrSerializedSize` | `Cdr` |
| `ClientConstants`, `ClientTypes` | layouts of `xrce_types.h`, `xrce_types.c` | `Cdr` |
| `Interop` | a value written by one side, read by the other | the five above |
| `Messages` | message and submessage headers of both sides | the types |
| `Wire` | each request and its answers as octets | `Messages` |
| `SeqNumProofs`, `AgentOutputStreamProofs`, `DownlinkProofs`, `UplinkProofs`, `FramingProofs`, `LinksProofs`, `DeliveryProofs`, `AgentProofs` | theorems | the modules they are about |
| `MC…` | values of the constants for TLC | |

Definitions keep the names of the source: `messages`, `last_unacked`,
`push_front`, `InWindow` for the test of `push_message`. In each module the
operators named `Bug…` are plausible mistakes, next to the definition they would
replace; each property of the runs is violated by one of them.

`MCLinks`, `MCSessions` and `MCWire` put systems that share no state side by side: the
variable `part` says which of them a behaviour is of, and the variables of the others keep
their initial values. Nothing they could do together is left out, because they do nothing
together; one run then answers for all of them.

### Correspondence

**`AgentOutputStream`.** One variable per member (`messages_`, `last_unacked_`,
`last_sent_`, `first_unacked_`) and `blocked`, the push each thread is inside while
it waits on `cv_`. Every member function holds `mtx_` throughout, so each is one
action. Only a push gives the mutex up: it is `PushNow`, or `PushBlocks` followed by
`PushResumes` or `PushTimesOut`. A submessage of `n` messages stands for one that is
cut into `n` fragments by the MTU. Between `PushBlocks` and the end of the wait anything
can happen, a `Reset` included.

**`AgentInputStream`.** Only the processing thread uses it, so the handling of a
packet is one step: store, pop everything in sequence, put fragments together, process.
A message is a sequence of pieces (whole submessages and fragments), because a Client
packs several into one message.

**`ClientInputStream`.** `slots` is `base.buffer`. `DeliverFrom` is the whole loop of
`read_stream`; what `read_submessage_list` was given in this step is `delivered`.
`spinning` is TRUE when `check_last_fragment` does not return: the Client then does
nothing more. The module has operators and properties; `Downlink` drives it.

**`ClientOutputStream`.** Sizes count in units of a subheader. `Write` is
`uxr_prepare_reliable_buffer_to_write` together with the writing of the application:
into the message being built, into the next one, or in fragments. The arithmetic of
the fragments is the code's. The constant `Careful` says whether the application keeps
clear of the defect in section 6 (`client_output_stream_overwrite`): with TRUE, fragments
are written only if they really fit. The timer of the heartbeats is left out: one may be
sent whenever one is due.

**`Downlink`, `Uplink`.** A step of the Agent or the Client is one handler, with the
packets it sends. In `Downlink` a push that has to wait is a push that comes later; the
waiting itself is in `Delivery`. The network keeps a set of packets: a packet
received stays and may arrive again, any may get lost at any step, and there is no order.
Packets expire before the numbers come half round: the streams have no defence against
older ones, and on a link they do not live that long. In `Uplink` the ACKNACKs
are a sequence: with `Reorders` FALSE, one that arrives makes the older ones vanish
(section 6 says why). A session created anew resets both ends of `Uplink`; the Client does
so when nothing of the old session is on its way (`Drained` in `BestEffortDownlink` and
`Sessions` says the same): the code has no way to tell such messages from new ones.

**`BestEffortDownlink`.** A thread pushes a sample, then pops messages and hands them on
until the queue is empty, whoever pushed them (`Processor::read_data_callback`). Popping and
handing on are two steps, as no lock is held over both, so messages overtake each other
inside the Agent. The Client (`input_best_effort_stream.c`) takes what is newer than the last
it took. With `Drained` a session is created anew only when nothing is on its way. The order of
the code is kept: the Client resets its streams before it sends CREATE_CLIENT.

**`BestEffortUplink`.** Submessages collect in one buffer behind the room for the header; `Flash`
numbers, sends and empties it. The Agent queues what is newer, up to its depth, and processes
a message at a time.

**`Framing`.** One side writes a message octet by octet into its write buffer and flushes it when
it is full; the line loses or changes octets, writes break off, reads return chunks of any size. The
reader is the ring with its state machine, one action per state as `transport_read` and
`read_framed_msg` have it; both programs have the same machine. Begin flag, escaping, addresses,
length and CRC are octets; the CRC is ideal: it detects exactly what changed the payload. Addresses
and length are not covered by it, in the code as in the model.

**`Server`.** A step is what a thread does between two points where another can come
in: a read of `running_cond_`, an operation of a queue, a call of the transport, taking
`error_mtx_`. `error_cv_.wait` is four places: `lock`, `check` (the predicate), `wait`
(still under the mutex) and `sleep`; `notify_one` has an effect only on a thread at `sleep`.
Spurious wake-ups are left out, as nothing guarantees one. The transport is open or
closed; receiving and sending succeed, find nothing, or report `server_error`, as
`UDPv4AgentLinux.cpp` does.

**`Delivery`.** Each reading thread is at a place of `Reader::read_task` or of the callback it
calls; the processing thread has a `task` (starting, stopping, pushing a status). `SharedMutex`
has its counters and the set of threads that sleep on it. A push that waits keeps the shared lock;
creating a stream needs the exclusive one and, as in the code, a thread that already
has the exclusive lock takes the shared one for the inner call. The token bucket gives or does not
give; a sample larger than its capacity never gets its tokens.

**`Sessions`.** `CREATE_CLIENT` is several steps of the processing thread, as `Root` and
`SessionManager` lock separately: delete the other client of the endpoint, create, establish. The
heartbeat thread takes the next client in one step and looks up its route in another. A Client may
crash and start again at another endpoint, where another Client may have been; the Agent may be
reset or restarted. `Keyed` are the session ids whose messages carry the client key.

**`ClientRequests`.** The application's ids are `last_request_id` counted with its wrap. A call
for all or for one status is a list of requests with the statuses received so far; an answer that
arrives when no list waits for it is lost, as in the code. Messages with answers repeat and get lost.

**`Entities`, `CedMiddleware`.** A CREATE or DELETE is one step with its status.
Addresses stand for the objects shared pointers hold; an entity is destroyed when nothing refers
to it (`KeptParticipants`, `KeptTopics`), and the sweep of `unregister_topic` is part of the step.
A data reader has the number of the last sample it took and a thread in `read` that waits and wakes.
A publisher's or subscriber's freed participant is any participant there is: memory holds what it
holds.

**Types and messages.** A type is a *layout* built by the operators of `Cdr` (`Struct`, `Union`, `SeqOf`,
`Opt`, …): one value that says how it is written, how it is read and where it must stop. `AgentTypes` and
`ClientTypes` translate the two generated serializers type by type, each with its own limits
(`UXR_STRING_SIZE_MAX` and the like on the Client's side). A definition `X_members` is the class or
structure, `X` its serializer. `SizeAt` in `AgentTypes` says what `getCdrSerializedSize` counts, which is code of
its own; the types for which it counts otherwise than the serializer writes are named there
(`CountedOtherwise`). `Wire` writes each request of the Client's interface with the length the Client counts for
it, and takes it apart as `Processor::process_input_message` does; the answers go the other way.

## 3. Runs

Twelve runs. `Half` is the half of the sequence space (6 to 12 numbers in all, instead of 65536),
chosen as small as the assumptions of the module allow, so that the numbers wrap
within every run.

| run | checks | bounds, and why they are enough |
|---|---|---|
| `downlink` | `Downlink`: `NothingLost`, `NothingDeliverable`, `WindowsTogether`, `ImplementsChannel`, `NothingForgotten` | depth 2, fragments 2, history 2, two packets in flight: an old and a new packet pass each other in either direction, and two ACKNACKs come in any order; two submessages tell order and repetition apart, and the numbers go round as often as they like. The theorems cover every other value. |
| `links` | `Uplink`: `UpWindowsSound`, `UpNothingLost`, `ConfirmedIsHandled`, `UpImplementsChannel`, `UpNothingForgotten`; `BestEffortUplink`: `BestUpImplementsChannel`; `BestEffortDownlink`: `FilterIsRight`, `ImplementsChannel`; `Framing`: `RingIsQueue`, `OnlyWritten`, `IntactReturned` | reliable: history 2, depth 2, sizes that fit a slot and that need two, two packets and two ACKNACKs in flight, sessions created anew. Best effort up: a buffer of three units, nine writes over 6 numbers. Best effort down: three threads, queue of 3, three packets in flight, nine pushes over 8 numbers: a message is overtaken by two others and the numbers wrap. Frames: three messages, with an octet to escape and one for another address, one octet lost or changed, a ring of five. |
| `links_live` | `DownProgress`, `UpProgress` | one packet in flight, one submessage, fairness below. |
| `server` | `InOrder`, `StoppedIsQuiet`, `ErrorHandled`, `StopReturns` | queues of one packet, two packets into each, one start and one stop: a queue overflows, a packet goes back in front of another, the error handler is at each of its places when `stop` comes. |
| `delivery` | `WindowSound`, `FragmentsAdjacent`, `OneChangesStreams`, `NothingLeftUnsent`, `AtMostAsked`, `StopReturns` | two reading threads, the built-in stream and a new one, depth 1, fragments 2: a reader waits for room with the lock held while the other wants the lock alone to create the stream, and the processing thread pushes. The theorems cover every other value. |
| `sessions` | `Sessions`: `RegistersSound`, `LoginTrue`, `WalkStands`; `ClientRequests`: `TrueIsAccepted` | two Clients at two endpoints, so that one takes the other's place; one with another version; a packet a line and direction, one outage, three logins with two attempts each. Requests: ids up to 3 that come round, lists of two, two answers on their way. |
| `entities` | `InStep`, `Connected`, `SamplesInOrder`, `StatusTrue` | two Clients, one that writes and one that reads, an object of each kind, two domains, all modes; ring of 2 samples over 8 numbers, three writes: a reader falls behind the ring. |
| `wire` | `Wire`: `Understood`, `LengthsTrue`; `Interop`: `SidesAgree`, `SizesTrue` | every request of the Client's interface, up to three of them, the last two of which may share a message; texts and bodies of 0 to 3 octets, hence every alignment. Every type both sides have, eighty values each, both directions, at three alignments. |
| `downlink_small_history` | finding: `DownProgress` | fragments 3, history 2. |
| `client_output_stream_overwrite` | finding: `SentKept` | 4 slots of 3 units, writes of 1, 2 and 4 units, without `Careful`. |
| `uplink_reorder` | finding: `UpNothingLost` | as `links`, with `Reorders`. |
| `ping` | finding: `PongUnderstood` | one ping. |

What they show:

- **`ImplementsChannel`** of `Downlink` and **`UpImplementsChannel`** are the central results for the reliable streams.
  The refinement maps the abstract queue to the submessages between the two sides (`Outstanding`): for
  each number the receiver has not taken, the content is in the sender's window or, once
  acknowledged, in the receiver's slots. A step that delivers must take exactly the
  head of that queue, whole. `NothingLost` says the mapping has no hole.
- **`WindowsTogether`** is the reason the 16-bit comparison can be trusted: the Client is behind the
  newest number by no more than the windows of both sides together, 16 messages and some fragments against 32768.
- **`ConfirmedIsHandled`** is what an application relies on when
  `uxr_run_session_until_confirm_delivery` returns true.
- **`NothingDeliverable`, `UpWindowsSound`**: no message that could be delivered waits when a
  handler returns. This matters because nothing else would ever deliver it.
- **`FilterIsRight`**: the Client's comparison agrees with the true order of the samples, whatever
  overtook what. It holds while the Agent's numbers stay within half a turn of the last one the Client
  took (`InTime`); 32768 messages lost in a row would make the Client refuse everything for as many more.
- **`OnlyWritten`, `IntactReturned`**: a damaged frame costs at most itself and, when the damage
  hits a flag or the length, its neighbour; the state machine always finds back.
- **`StoppedIsQuiet`, `ErrorHandled`, `InOrder`, `StopReturns`** hold in every interleaving of six threads
  and the application, with errors of the transport at any time, also while `stop` is under way.
  `StopReturns` states its one exception: `stop` notifies the error handler without `error_mtx_`
  (A `Server.cpp:93`), and a notification between the test of the predicate and the sleep is lost. Then the
  join of the error handler, and `stop`, never return.
- **`StopReturns` of `Delivery`**: stopping a reader returns though the thread may wait for tokens, for room
  or for a lock, because each of these waits has an end.
- **`LoginTrue`**: a Client that was told it is logged in, and nothing happened to the Agent since, is
  registered with its session id, and at its endpoint. It needs `Drained`: without it a STATUS_AGENT of an
  earlier login answers a later one, since the answer carries nothing of the request
  (C `session.c:627`). **`RegistersSound`** needs `Keyed = {}`: with session ids that carry a key, two Clients share
  an endpoint, and the maps of `SessionManager` are no longer inverse.
- **`SamplesInOrder`** needs `Overrun = FALSE`: a reader that was woken and is not scheduled for a whole
  ring of writes takes a wrong sample first, as the predicate of its wait does not correct its position (A
  `CedEntities.cpp:208`).
- **`SizesTrue`** excludes the types `Miscounted` (section 6).

Deadlock is checked in all runs but `server` and `wire`, which stop when their one start and packets, or their
requests, are used up. Symmetry is used in runs without liveness properties only: of the submessages, and of
the endpoints in `sessions`. The views of `MCLinks` and `MCEntities` leave out what cannot be told apart: free
octets of a ring, fields no state of the machine looks at, names of addresses, the last answer (which
`StatusTrue` relates to the step that gives it).

The bounds that belong to the models and not to the code: `InFlight`, `StreamInFlight`, `Packets`, `Starts`,
`MaxPushes`, `MaxWrites`, `MaxLogins`, `Outages`, `MaxLine`, `MaxFaults`, `MaxRequests`, and `FragmentBound` (fragments
that wait for their last one).

### Fairness

*`Downlink`*: weak fairness of `SendNext` (a reading thread drains what it numbered before
it returns). The other conditions are strong: the heartbeat thread ticks for ever, so a
heartbeat gets through from time to time (`HeartbeatSent`), likewise the ACKNACK that answers the
heartbeat of the window as it is (`HeartbeatAnswered`), the retransmission this ACKNACK asks for
(`GapResent`), and the delivery of the message the Client waits for (`NextReceived`). That is the usual
assumption for a lossy link: of what is sent for ever, some arrives. It says nothing of *which*
old packets arrive in between.
*`Uplink`* is the same the other way round, with weak fairness of `Flash`; the Client's heartbeats are
sent while the application keeps running the session, which the API requires.

*`Server`*: weak fairness of every thread, and of the application's once `stop` is called (the scheduler of
the operating system runs every thread). `error_mtx_` is held for one step, or by the error
handler, so the order in which it is granted does not matter. Strong fairness of `Reopened`: a
transport that is reopened for ever opens once. Nothing makes the application call `stop`,
and nothing makes packets arrive.

*`Delivery`*: weak fairness of each reading thread's next step and of the join. Strong fairness of locking
the map of streams: the lock prefers readers, and a thread that wants it exclusively gets it only if it is
free from time to time. With three threads that take it in turns it need never be, and creating a stream
could wait for ever (A `Session.hpp:271`); with two it is.

## 4. Proofs

`SeqNumProofs` proves the arithmetic for every `Half`: sums and differences stay below the
modulus, `<` holds exactly within half the circle ahead and is asymmetric, and a step forward and the
distance it covers are inverse (`AddThenSub`, `WrapThenSub`, `Rebase`, `SubInjective`).

`AgentOutputStreamProofs` proves, for every modulus, depth, number of fragments, set of
threads and of submessages:

| theorem | statement |
|---|---|
| `WindowInvariant` | `Spec => []IInv` |
| `FragmentsStayAdjacent` | `Spec => []FragmentsAdjacent` |

The assumptions are `HalfAssumption` (the modulus is positive and even) and
`WindowAssumption` (depth and fragments of one submessage fit half the circle: 16 and 64 KiB
over the MTU against 32768).

The inductive invariant `IInv` is a conjunction. None of its parts is inductive alone, because each rests on
comparisons modulo 2^16:

- a push may insert only if the new numbers are not in the map yet, hence less than a turn
  from the oldest (`OccupancyBound`);
- the test of room is `SeqLt`; it means "fewer than `Depth` messages" only while the
  occupancy is below half a turn (lemma `RoomIsOccupancy`);
- the guard of `update_from_acknack` keeps the acknowledged number inside what was sent only if
  the sending position is inside the window (lemma `AcknackWithinSent`);
- what remains of the map after an ACKNACK is the rest of the window only if the map
  was the window before.

`StepPreserves` has one step for each action and cites one lemma for each kind of change:
`InsertPreserves`, `AcknackPreserves`, `SendPreserves`, `EmptyWindow`. `FragmentsStayAdjacent` uses `IInv` at each
step: a push appends its fragments after the newest message, which is the last of its own push, and
an ACKNACK removes a prefix.

`DeliveryProofs` proves the safety properties of `Delivery` for any number of reading threads and
streams. As `Delivery` extends `AgentOutputStream`, its steps change the window as steps of the stream do
(`StreamSteps`), and `StepPreserves` is used again.

| theorem | statement |
|---|---|
| `TypeCorrect`, `ThreadsAreJoined` | a thread has what its place needs, and `start_reading` never replaces a thread that was not joined |
| `WindowAlwaysSound`, `FragmentsTogether` | the window is sound and fragments are adjacent with any number of threads pushing |
| `StreamsChangedAlone` | the map of streams changes only while one thread has it exclusively |
| `AllIsSent` | what is numbered and not sent has a thread that is about to send it |
| `AskedIsEnough` | a reader counts no more samples than it was asked for, if `0 ∉ Limits` |

The invariant has five parts: `ThreadsInv` (places and what a thread holds there), `IInv` of the stream, `LockInv`
(`SharedMutex`: its counters are the threads that hold it, never both kinds), `UnsentInv` and `CountInv`.
`AllIsSent` rests on `LockInv`, `AskedIsEnough` on `ThreadsInv`. With a limit of 0 the comparison at the end of
the loop (A `Reader.hpp`) misses, and 65536 samples come; this is why the assumption is there.

`LinksProofs` proves of the best-effort stream to the Client, for every set of threads, depth and modulus, and `Drained`:

| theorem | statement |
|---|---|
| `BestEffortInvariant` | `Spec => []IInv` |
| `FilterAlwaysRight` | `Spec => []FilterIsRight` |
| `ChannelImplemented` | `Spec => ImplementsChannel`: the stream implements `LossyChannel` |

`IInv` is `TypeOK`, `QuietInv` (a stream that was reset has nothing on its way), `SomeoneSends` (what is queued has a
thread that will pop it), `OrderInv` (the queue is in order, all of it newer than what left it) and `NumberInv` (the
16-bit number on a message is that of its true position, and all positions in use are within half a turn). The
refinement follows at once: what the Client takes has a position behind the last it took.

It proves the same of the best-effort stream to the Agent, for every modulus, size of the buffer and of the header, depth and number of
writes, and `Drained`, in the system of `MCLinks`:

| theorem | statement |
|---|---|
| `BestUpInvariant` | `LinksSpec => []BestUpInv` |
| `BestUpIsALossyChannel` | `LinksSpec => BestUpImplementsChannel`: the stream implements `LossyChannel`, and the Agent takes each message whole |

`BestUpInv` is `BestUpTypes` (a message holds submessages that follow one another and were all flashed), `BufferInv` (the buffer holds
the newest submessages), `DistanceInv` (the distance of two 16-bit numbers is that of the messages they stand for: the Agent is less
than half a turn behind the Client, by the assumption `InTime`, and a copy is at most half a turn behind the Agent) and
`NewerInv` (a message with a higher number starts behind the end of every message with a lower one, and what may still be admitted
starts behind what was taken). Numbers are compared as in `BestUpOrder`: what the filter admits is newer than all that was taken, whatever
the network repeated or delayed.

`DownlinkProofs` proves the reliable stream from the Agent to the Client as a whole, network included: for every modulus, depth,
number of fragments, history, bitmap, number of packets in flight, set of threads and of submessages.

| theorem | statement |
|---|---|
| `DownInvariant` | `Spec => []DownInv` |
| `NothingIsLost` | `Spec => []NothingLost` |
| `NothingWaits` | `Spec => []NothingDeliverable` |
| `WindowsStayTogether` | `Spec => []WindowsTogether` |
| `NothingIsForgotten` | `Spec => NothingForgotten` |
| `ChannelImplemented` | `Spec => ImplementsChannel`: the stream implements `ReliableChannel` |

The assumptions are those of the Agent's stream and `DownlinkAssumption`: the history is at most half the circle and divides it
(the code asks for a power of two), or slots would change places where the numbers wrap. `Downlink` extends
`AgentOutputStream`, so `IInv` above is a part of the invariant and the lemmas about a push, an ACKNACK and a sending serve
again. The new parts measure everything in two directions, forwards from `last_handled` (`Waiting`, `Announced`, `At`) and
backwards from the newest number (`Age`), because the window of either side moves under the packets of the other:

- `ReachInv`: what the Client waits for is in the Agent's window or its own slots;
- `StoredInv`, `KeptInv`: a slot holds the message of its number, and what the Agent has dropped is in a slot;
- `AnnouncedInv`: what is stored was announced, hence the ACKNACK asks for what is missing and not for more;
- `WholeInv`: what waits are whole submessages, in order; without it `IdleInv` is not inductive, since a last fragment
  ends a delivery only if its first is where the Client looks for it;
- `IdleInv`: no handler leaves a complete submessage at the head, and one slot is always free (or `check_last_fragment` does
  not return, `spinning`);
- `PacketsInv`: every DATA on its way carries what its number still stands for, however often it was sent, and no ACKNACK on its
  way acknowledges what the Client has not stored.

Every part rests on the others, so they are preserved together (`DownStep`). The heart of it is `DrainIs`: the loop of `read_stream`,
`History` turns of a recursive function, delivers exactly the first messages and stops only where nothing is complete. It is proved by a
least counterexample among the turns, because an induction theorem cannot be used here. A second lemma, `SlotFree`, shows that
the loop cannot go round the ring for ever as long as a submessage is shorter than the history; where it is not, `spinning` is TRUE
and the theorems say what is left of them.

The refinement follows from `DownInv`. The queue of the channel is what the Client waits for, message by message from `last_handled`,
with a submessage counted at its last fragment (`Upto`, `QueueIs`). A push, which puts whole submessages behind all others, appends
to it. No other step of the Agent or the network changes it: an ACKNACK takes from the Agent's map only what a slot holds
(`QueueStays`). When the Client takes a packet, `DrainIs` gives a cut of what it delivers into units of one submessage
each (`Cut`); what follows the cut is the rest of the queue (`RestFollows`), and what is before it, put together, its front (`PassedOn`).
By the same cut the numbers `last_handled` moves by are the messages delivered (`TakesHandsOver`), which is
the other half of `ImplementsChannel`.

`UplinkProofs` proves the reliable stream from the Client to the Agent as a whole, network included: for every modulus, depth,
history, bitmap, number of fragments and of packets in flight, buffer size and set of submessages.

| theorem | statement |
|---|---|
| `UpInvariant`, `UpPiecesInvariant` | `Spec => []UpInv`, `Spec => [](UpInv /\ PiecesInv)` |
| `UpWindowsAreSound` | `Spec => []WindowsSound` |
| `NothingIsLost` | `Spec => []NothingLost` |
| `ConfirmedWasHandled` | `Spec => []ConfirmedIsHandled` |
| `NothingIsForgotten` | `Spec => NothingForgotten` |
| `UpChannelImplemented` | `Spec => ImplementsChannel`: the stream implements `ReliableChannel` |

The hypothesis is `Ordered`: `Careful` (the application does not write what the check of `output_reliable_stream.c:151` admits
by mistake), `Drained` (a session is opened anew when nothing of the old one is on its way) and `~Reorders` (no ACKNACK overtakes another).
Each is needed: `client_output_stream_overwrite` and `uplink_reorder` are the counterexamples without the first and the third, and
without the second TLC finds `WindowsSound`, `NothingLost` and `ConfirmedIsHandled` violated. `UplinkAssumption`
is what the code is configured with: a history that divides the circle and is less than half of it (the code asks for a power
of two), a depth below half the circle, and buffers with room for more than a header.

All positions are measured from `last_acknown`, the oldest number that the Client may still have to send. `UpInv` has seven parts:

- `Typed`;
- `OrderInv`: what the Agent took out is not ahead of what was sent, and what was sent not ahead of what was written, which is at
  most a history ahead and one being built;
- `SlotsInv`: a slot between what is acknowledged and what is being built is in use, and the others are free. The size of a slot is
  the only thing the code asks;
- `HeldInv`: what the Agent holds ahead of a gap was sent and is not taken out yet;
- `AcksInv`: an ACKNACK on its way acknowledges no more than the Agent has taken out, and no less than one sent before;
- `PacketsInv`: every packet on its way is younger than half a turn (this is where `Drained` comes in), every DATA was sent,
  and a heartbeat begins at the window it was sent from or earlier;
- `ContentInv`: every copy of a message, on its way or held by the Agent, is what is in its slot.

No part is inductive alone: an ACKNACK frees slots, which is harmless only because the Agent has what was in them (`AcksInv`), which
is so because it takes out only what was sent (`PacketsInv`), under the number it was sent with (`OrderInv`).

For the refinement the queue of the channel is what the Agent has not taken out, from the collected fragments to the message being built,
counted at the ends of submessages (`EndIn`). `PiecesInv` says that these are whole submessages, one after the other, with the fragments
of the first perhaps already collected. A write appends one unit (`Grows`, `Accepts`), the Agent takes out a prefix, and a step that does neither
leaves what waits as it is.

`FramingProofs` proves the framing of a serial line for a ring, a write buffer and messages of every size that the code takes
(`FramingAssumption`), any line and any number of faults.

| theorem | statement |
|---|---|
| `RingInvariant` | `Spec => []RingInv` |
| `RingIsAQueue` | `Spec => []RingIsQueue` |
| `FramesInvariant` | `Distinct` gives `Spec => []FramesInv` |
| `OnlyWrittenIsReturned` | `Distinct` gives `Spec => []OnlyWritten` |

`RingInv` relates the positions of the ring to the octets that were read from the line and not taken yet (`unread`): as many places are
in use, and they hold those octets in order. It is inductive with the types of the state machine and of the write in progress.
For `OnlyWritten` the argument follows one octet of each frame: the second of the CRC, the *code* of its message, ends the frame and is in no
other place. `FramesInv` says that in what is being written there is at most one code, at its end (`SendingInv`), that the codes
still to come, in the ring and then on the line, grow, and are above those of everything returned (`ComingInv`), and that what was returned grows, too
(`ReturnedInv`). A fault takes a code away or makes it no code, a write that breaks off or is repeated adds none, and
the state machine returns a message when it takes its code. `Distinct` says that different messages have
different payloads: the CRC of the model is ideal but cannot tell equal payloads apart.

`LinksProofs` also carries these results over to the system of `MCLinks`, where the links run side by side. `UpRuns` and `LineRuns` show that a step of the
system is one of the stream or of the line, or changes nothing of it; the theorems state the properties the runs check.

| theorem | statement |
|---|---|
| `UpWindowsStaySound`, `NothingLostOnTheWayUp`, `ConfirmedStaysHandled`, `NothingForgottenOnTheWayUp` | the safety of `Uplink` |
| `UpIsAReliableChannel` | `LinksSpec => UpImplementsChannel` |
| `RingStaysAQueue` | `LinksSpec => []RingIsQueue` |
| `OnlyWrittenComesOut` | `Distinct` gives `LinksSpec => []OnlyWritten` |

`AgentProofs` proves the safety of the Agent's threads for queues of any size and any number of packets.

| theorem | statement |
|---|---|
| `ServerInvariant` | `ServerSpec => []ServerInv` |
| `PacketsInOrder` | `ServerSpec => []InOrder` |
| `StopIsQuiet` | `ServerSpec => []StoppedIsQuiet` |

`ServerInv` says where each thread may be while the others are where they are, and whose `error_mtx_` is (`ThreadsInv`), what the queues
hold and how long they get (`InputInv`, `OutputInv`: one more than the limit, since what the sender could not send goes
back in front), and that what was sent, what the sender has in hand and what waits are in the order in which they were made
(`OrderInv`). A full queue drops its oldest packet, so a packet that goes back must still be older than all that wait.

`AgentProofs` also proves what the Agent's registers say of a client and what the answers tell it, for any number of Clients, endpoints,
versions and outages and any length of the lines.

| theorem | statement |
|---|---|
| `AcceptedAlways` | `BothSpec => []TrueIsAccepted` |
| `WalkAlways` | `Spec => []WalkStands` |
| `RegistersAlways` | `Keyed = {}` gives `Spec => []RegistersSound` |
| `LoginAlways` | `Keyed = {}` and `Drained` give `Spec => []LoginTrue` |

The hypotheses are what the code needs. `Keyed` are the session ids below 128 (section 3); `uxr_init_session` uses
129. `Drained` says that what a Client sent before has died out when it logs in or out. The invariant has four parts. `TypesInv` are
the types of programs, lines and Agent. `WalkStands` is inductive with it alone. `SoundInv` says how far a CREATE_CLIENT
has got when the two registers differ (`JobInv`), and that otherwise every client the Root holds has a route (`ReachInv`).
`LoginInv` relates the Agent's records to what is on its way: each login has a number, and what is on a line, in the Agent's hands
or in a register is of a login the Client made (`NumbersInv`), the newest one if the Client is in session (`SettledInv`,
`KnownInv`), and none if it was told it is out (`GoneInv`).

`AgentProofs` proves of the objects and their middleware, for any clients, ids, domains and names, any size of the ring and any
modulus:

| theorem | statement |
|---|---|
| `EntitiesInvariant` | `EntitiesSpec => []EntitiesInv` |
| `ObjectsInStep` | `EntitiesSpec => []InStep` |
| `TopicsConnected` | `EntitiesSpec => []Connected` |
| `SamplesInOrderHold` | `~Overrun` gives `EntitiesSpec => []SamplesInOrder` |
| `StatusIsTrue` | `EntitiesSpec => StatusTrue` |

None of the properties is inductive: that a topic can be freed, for instance, depends on what every client still holds. `EntitiesInv` says
that a ProxyClient's objects are its middleware's entities (`ObjectsInv`), and that the middleware is `Sound`: an entity is of the kind
of its id and what it refers to is alive and registered with its participant under its name (`EntitySound`, `PairSound`); a participant
alive is referred to, and its register is of topics it holds (`ParticipantSound`); the register of the topic manager and the topics
alive are inverse (`TopicsSound`); the slots of a ring hold its newest samples, each in its place (`RingSound`); and, unless `Overrun`, a
reader has passed over nothing in the ring that it may read, and is no more than the ring behind while it waits (`ReaderSound`). The step
that takes most of the work is the sweep after something was deleted, `SweepSound`: what is destroyed in turn leaves no entry behind.

Two assumptions on the constants are new. `KindsAssumption`: no id is of two kinds, as the last four bits of an id are its kind.
`AddressesAssumption`: there are more addresses than live objects, so a new object finds one; in the program memory would otherwise be
exhausted. `HistoryAssumption` was there before: a topic is written fewer than half the circle of numbers (`MaxWrites`), so up to 32767 times, as
the position of a sample is read off its number.

### Only model-checked

Liveness (`DownProgress`, `UpProgress`, `ErrorHandled`, `StopReturns`) is out of the prover's reach, as is what a
recursive definition computes for every input: the folds of the Agent's input stream and the layouts of `Cdr`
(`Understood`, `LengthsTrue`, `SidesAgree`, `SizesTrue`) would need induction over data. `IntactReturned` of
`Framing` is checked on the instances above and not proved.

## 5. What is not modelled

- **Components.** The Fast DDS and Fast RTPS middlewares are adapters to libraries that are not part of the
  sources (of them only the identity a replier puts before a sample is in `Wire`). P2P and the sockets of discovery,
  logging, the command line, and the transports but for their outcomes are system calls and formatting. The none
  streams are queues without numbers. Requesters and repliers follow the pattern of data writers and readers in
  `ProxyClient` and are in `Wire` only.
- **Time.** Timeouts happen or not; the intervals of heartbeats, the rate of the token bucket and the arithmetic of
  the clock offset are not represented. (A message received restarts the timeout of the Client's waiting calls,
  C `session.c:290-303`.)
- **Numbers that skip.** A Client of this repository gives up nothing that is not
  acknowledged, so heartbeats past a gap are modelled only after a reset of the Agent's stream. The Agent
  would leave the messages below the gap in its map (A `InputStream.hpp:326`).
- **Packets older than half a turn**, and packets of an earlier session, see section 2. No property covers what the latter do to a new
  session; the hazard is listed without one.
- **Races inside an operation on objects.** A CREATE, DELETE or release is one step of `Entities`, so that a release without the
  mutex of the `ProxyClient` (A `ProxyClient.cpp:215`) beside another operation is not seen, and the use of a freed participant through a
  `CedSubscriber` is a choice of what the memory holds, which no property forbids.
- **Serialization that fails while a message is made** (A `OutputStream.hpp:319`, `362`). The room counted is what the Agent's submessages
  take (`SizesTrue`).
- **Truncations of lengths to 16 bits** (C `output_reliable_stream.c:137`, A `OutputStream.hpp:341`): sizes are small.
- **Malformed messages.** `Wire` reads what this Client writes. What follows a WRITE_DATA
  that cannot be written is dropped with it (A `Processor.cpp:395-470`); a CREATE that cannot be read counts as
  processed and gets no answer.
- **Continuous fragment mode** (C `write_access.c:124`) and shifts of 32 bits and more in `uxr_compute_acknack`,
  undefined in C.
- **Byte order**: both sides write as on the usual little-endian targets; the Agent does not look at the flag that
  says how a submessage was written.

## 6. Findings

Each of the first four is a run in which TLC shows the code violating what the repository says of it.

1. **`downlink_small_history`** (C `input_reliable_stream.c:205`). A submessage of more
   fragments than the Client's history has slots fills the ring with intermediate fragments,
   and the loop of `check_last_fragment` goes round it for ever: nothing more is delivered.
   `links_live` shows progress when the history is large enough.
2. **`client_output_stream_overwrite`** (C `output_reliable_stream.c:151`). The check compares
   the fragments *after the first* with all free slots, and counts the slot of the first among
   them when it is empty. One fragment too many is admitted and overwrites a message that was sent
   and not acknowledged.
3. **`uplink_reorder`** (C `output_reliable_stream.c:316`). An ACKNACK overtaken by a newer
   one is taken for an acknowledgement of almost the whole sequence space: all slots are freed and
   the position moves back. UDP may reorder, so `links` assumes what the code needs: a
   line that does not.
4. **`ping`** (C `ping.c:143`). The reader of the answer skips the client key, which the header of an answer without
   session does not have (`ping.h:29` counts four octets). It reads the middle of the payload, finds an
   object kind it does not know, and takes the Agent for available without having looked at the field that says so.

Others, met while modelling, are stated by the models or excluded from a property, without a run of their own:

- `uxr_run_session_until_one_status` returns true for any status, and for an id that was not asked for
  (C `session.c:439`); `session.h:428` promises only OK and OK_MATCHED.
- `getCdrSerializedSize` of `CLIENT_Representation`, `AGENT_Representation` and `EntityId_t` counts otherwise than
  `serialize` writes (A `XRCETypes.cpp:1014`, `1125`, `8784`), and so do the types that contain them. The first two do
  so only with properties, and the Agent sets none of its own: its STATUS_AGENT is counted right.
- `stop` may wait for ever (A `Server.cpp:93`), section 3.
- A sample larger than the stream can take is dropped in silence: the push of all its fragments returns true
  (A `OutputStream.hpp:173-189`). One larger than the token bucket is tried again until the reader is stopped. A reader
  that is stopped loses the sample it holds, and a status pushed when the stream is full is dropped.
- `Session::reset` does not reset the none input stream, nor `InputStream::reset` the fragments collected.
- `Root::create_client` replaces a client without releasing its objects (A `Root.cpp:124`), a REPLACE that fails has lost the
  old object, and CREATE of an APPLICATION, QOSPROFILE or TYPE answers OK and creates nothing.
- A `CedSubscriber` keeps a reference to its participant without counting it (A `CedEntities.hpp:244`).
- The answer to a request that `uxr_buffer_cancel_data` sends never comes to a list, and request ids come round
  after some 65526 requests, when an answer to the old one may still be awaited.
- A write of a frame that breaks off is repeated from its beginning, and `transport_read` subtracts a negative duration
  from its timeout (A `StreamFramingProtocol.cpp:484-487`).

## 7. Plan

Done: the streams of both kinds and directions, the framing, the Server and its queues, the delivery of samples with its
threads and locks, sessions and requests, objects and topics of the built-in middleware, and the octets of every message;
proofs of the arithmetic, the Agent's output stream, the reliable streams in both directions and their refinements, the best-effort streams
in both directions, `Framing`, `Delivery`, `Server`, `Sessions`, `ClientRequests` and `Entities`. Next, in this order:

1. The proof of what TLC already checks: `IntactReturned` of `Framing`, whose invariant must follow each intact frame from the writer through the line and the ring into the state machine.
2. Requesters and repliers in `Entities`; the composition of `Entities` with `Delivery`, so that deleting a reader joins its
   thread while it reads.
3. Two Servers, or the API over `Root`, beside one Agent: the operations that rely on one processing thread.
