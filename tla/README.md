# A TLA+ model of mcprotocol.c

mcprotocol.c is a C client library for the Minecraft Java protocol (`api.c`,
`api.h`): it opens TCP connections, cuts the byte stream into frames, inflates
them, performs the offline login and the configuration exchange, answers the
packets a client must answer, and hands everything to a synchronous callback.
This directory holds TLA+ modules of the parts of it that keep state, TLC
configurations that check them on small instances, and TLAPS proofs about the
stream decoder, a link between two clients, the client session, the automatic
replies, the transport's descriptors and its outbound stream, and the component
validators, for every instance.
Line numbers below refer to `src/api.c`.

## The system's parts

| part | state it keeps | operations | what is hard | what makes it correct |
|---|---|---|---|---|
| **Stream decoder** (26628-27178) | input buffer, output buffer with borrowed views, stream offset, compression threshold, transition flag, sticky error | create, feed, set_compression, finish, reset, readiness probe | TCP cuts frames anywhere; buffers grow and are bounded; a mode change with later frames already buffered; errors in the middle of a feed | frames come out whole, once, in order; views stay valid; errors are first, final and at the right offset; no wedge |
| **Client lifecycle** (28129-28475, 29071-29288) | socket, McState, stop flag, threshold (client's and decoder's), read timeout | open, connect, login loop, configuration, set_compression, set_state, disconnect | disconnect from another thread or from the callback at any point; coalesced frames around Set Compression; reuse for a second connection | modes of both ends agree; one Client Information per login; calls return; a disconnect is honoured |
| **Client loop** (27562-27593, 27762-27979, 29599-29650) | the locals of poll and run | poll, run, wait, wait_closed, read_frame, receive_some | partial frames, timeouts, replies after a callback has left PLAY | no reply on a dead connection, no error for a requested stop |
| **Automatic replies** (29459-29597) | tracked position, player_loaded flag | handle_play, send_player_position | relative teleports, failing sends, reconnections | each teleport confirmed once and truthfully, one player_loaded per connection |
| **Outbound path** (27720-27760, 27808-27916, 28986-29040) | transform state, byte counters | encode_frame, send_all, send_batch | partial sends, a transform ahead of the bytes | frames reach the peer whole or the connection is given up |
| **Backends** (27201-27465) | ring, epoll/kqueue descriptor | init, wait, close | run-time fallback, closing under a waiting thread | a ready socket is noticed, descriptors closed once |
| **Raw server** (28132-28324) | listener | create, accept, destroy | a deadline over several reads | accepted clients hold a complete handshake |
| **Status ping** (29313-29458) | a client of its own | status_ping | timeout per packet | answers are the ones asked for |
| **Item, component and NBT validators** (5399-5534, 5587-21222, 21224-21416) | a cursor, its first error, the C stack | mc_reader_item_stack, skip_slot_component, mc_reader_nbt | mutual recursion driven by the input, counts of a million, eleven generated validators in two functions each | the stack is bounded, the input pays for the work, both functions of a protocol agree |
| **Codec primitives, typed codecs, canonical IR, registry, replay** | a cursor and its first error | reads and writes | boundaries, depth and count limits | a read never passes the end and the first error stays |

Interaction: `read_frame` is the only caller of the decoder in the client; it
asks for one frame per feed, which is what lets `mc_client_set_compression`
change the decoder's mode between two frames that arrived together. `poll` uses
the decoder's readiness probe to decide whether to wait on the socket. The
callback `on_packet` runs on the polling thread before the client's own answer
and may call back into the client. `mc_client_disconnect` is the one function
meant for another thread; it shares `socket_fd` and `stop` (atomics) and
`state`, the backend and its descriptors (not atomics) with the client's thread.

## Modules

**`FrameChannel`** is the abstract promise of framing: the frames sent come out
in order, each once, until the channel breaks; a broken channel delivers
nothing until it is restarted.

**`StreamDecoder`** is McStreamDecoder. Its variables have the names of the
struct's fields. Bytes are abstracted: `wire` is the sequence of frames the peer
put on the stream, `start[i]` the absolute offset at which frame i begins, and
the buffer holds the last `buffer_size` of the `fed` bytes. The frame the loop
looks at is the one whose start is the position reached; if the decoder ever
lost a frame boundary there would be none, and it is `FramesInOrder` that shows
this cannot happen. A frame is what `stream_varint` sees at its
three VarInts (length in bytes, value, canonical/padded/overflow) and what
`inflate` makes of its body, so the same frame can be read in either mode.

| code | definition |
|---|---|
| `mc_stream_decoder_feed`, entry (27046-27085) | `FeedInvalidArgument`, `FeedFailed`, `FeedRefused`, `FeedAppend` |
| its loop (27086-27128) | `FeedIteration`: `FeedBadFrame`, `FeedOutOfMemory`, `FeedFrame` |
| its end (27129-27134) | `FeedReturn` |
| header, envelope, limit and packet checks | `HeaderError`, `Incomplete`, `EnvelopeError`, `LimitError`, `PacketError`, `Failures` |
| `stream_reserve`, `stream_reserve_output` | `Reserved`, `Rebase` |
| `stream_fail`, `stream_consume`, `saturating_add` | the same names |
| `set_compression`, `finish`, `reset`, `create` | `SetCompression`, `Finish`, `Reset`, `Init` |
| `stream_decoder_frame_ready` | the same name |

One feed is several steps (one per frame), so that the state inside the loop,
where allocations move and errors strike, is visible to the invariants.

**`ClientSession`** is one McClient through `open`/`connect`, login,
configuration, `poll`, `run` and `wait_closed`. The unit of data is the frame:
the decoder appears through what `StreamDecoder` establishes for it, whole
frames in order, at most one per feed, with its threshold and transition flag.
`pc` is the client's thread; a step ends before each socket call and each
callback, and a send and the change of state behind it are two steps
(`Handshake`, `EnterLogin`; `ConfigurationStart`, `ConfigurationAck`;
`ConfigFinish`, `EnterPlay`). The answers to one configuration packet are a step
each (`ConfigInformation`, then `ConfigKnownPacks` or `ConfigFinish`), except that
the resource pack answer of protocols 765 to 775 goes with the acknowledgement
behind it. A send may fail at any time, succeeds only while the peer takes bytes
(`SendReturns`), and blocks when it does not (`PeerStalls`, `Blocked`): `send_all`
(27743-27757) has no timeout and `connect_tcp` sets none on the socket
(27640-27643). The other thread's disconnect is three steps (`OtherStops`,
`OtherCloses`, `OtherChangesState`) as its effects are. The application of a raw
session (one that opens and drives the protocol itself) answers a packet in the
callback or after `poll` has returned (`AppSetCompression`, `AppSetState`). The
peer sends the packets of its phase, several at a time, announces a threshold at
any point of the login, stops reading at any send, or closes.

**`PlayReplies`** is `handle_play` with the tracked position, over several
connections. What the server sends (`ServerSendsTeleport` and the others) is
queued in `sent` until a `Poll` takes it, so `mc_client_send_player_position` may
run between polls or in the callback while teleports are on the network or in the
decoder's buffer. What the client sends reaches the server in the same step: TCP
keeps the direction in order, so a later arrival is the same behaviour with the
server's next packets sent earlier. The server is external. It computes each
teleport from where it has put the player, relative axes allowed from the first
one on, may send another before the last is confirmed, and refuses movement from
the sending of a teleport until the confirmation of the last
(`ServerHearsMovement`); the position a confirmation carries from 777 on it may
take or not (`ServerHearsConfirm`). The tracked position is not reset by
`mc_client_open`, as in the code. Sends may fail at each answer; the application
may disconnect at any moment.

Client and server cannot always agree: a movement that crosses a relative
teleport is refused by the server and tracked by the client, and so is a relative
first teleport counted from the previous connection's position. The history
variable `astray` names the axes on which that may have happened: all of them
when a connection opens, the relative axes of the awaited teleport when a movement
is refused; an axis is no longer astray when a teleport states it, and none is
when the server takes a movement or a carried position. The properties speak of
the other axes.

**`Transport`** is what lies under `ClientSession`: the descriptors of a client
(`socket_fd`, `event_fd`, the ring), how it gets them (`mc_client_open` behind
`connect_tcp`, `mc_server_accept`), uses them (`backend_wait`, `receive_some`,
`send_all`) and gives them up (`mc_client_disconnect` on either thread). `file`
is the process's descriptor table: the lowest free number is given out next, and
another part of the program may open and close a file at any moment
(`ForeignOpens`, `ForeignCloses`), so a number used after its close may be
another file's. `thread` holds each thread's next step and its copies of
`socket_fd`; a step ends at every access to a field both threads use, so
`mc_client_disconnect` is the exchange, the close, `backend_close` read by read,
and the state. A ring is a descriptor and a mapping; reading it after the
mapping has gone ends the process (`RingGone`). A frame is `FrameUnits` units
and each unit carries the position of the key stream it was encrypted with, so
the stream the peer gets can be compared with the calls that made it.

| code | definition |
|---|---|
| `mc_client_disconnect`, `backend_close`, `ring_close` | `DisconnectStep` |
| `mc_client_open` | `Open`, `StoreSocket`, `BackendInit`, `SendHandshake`, the send's steps |
| `mc_server_accept`, `accepted_varint`, `accepted_receive` | `Accept`, `AcceptStep`, `StoreSocket`, `BackendInit`, `Accepted` |
| `backend_init`, `backend_epoll`, `ring_init` | `BackendInit`, `BackendUnavailable` |
| `mc_client_wait`, `mc_client_poll`, `backend_wait`, `ring_wait` | `Wait`, `WaitStep` |
| `receive_some` | `ReceiveStep` |
| `mc_client_send`, `mc_client_send_batch`, `send_all` | `Send`, `SendRefused`, `SendStep` |
| `mc_client_set_stream_transforms`, `mc_client_shutdown_write` | `SetTransforms`, `ShutdownWrite` |

**`ComponentLayouts`** and **`ComponentTables`** say what the validators of
items, Slot components and NBT read. The code is 15,000 generated lines, a
function for each named structure of each protocol; the modules have a layout
for each of them: `ComponentLayouts` the values, NBT, item stacks and shared
structures, `ComponentTables` the tables of each protocol. A layout is a tree of
fields: which errors refuse the value and, for each way it can send the reader,
what is read next. Ids and strings that only pass through are fields with one
way on. Where a protocol reads a run of structures exactly as an earlier one
does, its table names that one's. `++` puts two groups of functions together.

**`ComponentValidator`** runs them: `stack` is the C call stack, each frame the
function, the depth it was given and what it has left to read. The input is any
input: at every field a value may be read that sends the reader any of its ways,
may be refused, or the input may end. `CallFunction` and `TooDeep` are the guard
at the head of every validator. NBT inside a component is one field there,
because `mc_reader_nbt` starts its own count of depth; the walk over NBT is run
for the items of the protocols before 766. The C stack is thus at most twice
what `StackBounded` says, once for components and once for NBT.

**`FrameLink`** composes both ends of a stream: it extends `StreamDecoder` and
replaces its arbitrary peer by a client of this library. `SendPacket` is
`encode_frame` and `send_frame`: the id, the envelope, the comparison with the
threshold and the limit on the payload, in bytes; zlib's output has any size up
to its bound. The other end is `read_frame`: a feed of no bytes
(`FeedBuffered`), then `receive_some` and a feed of the chunk (`FeedChunk`), for
one frame at a time. A packet may announce a threshold, which the sender applies
behind it and the reader when `read_frame` has returned it
(`ApplyAnnounced`, `mc_client_set_compression`).

| code | `FrameLink` |
|---|---|
| `encode_varint`, `encode_frame`, `send_frame` | `encode_varint`, `encode_frame`, `SendPacket` |
| `read_frame` | `FeedBuffered`, `FeedChunk`, `FeedStep`, `FeedReturns` |
| `copy_decoded_frame` | `copy_decoded_frame` |
| `mc_client_set_compression` | `ApplyAnnounced` |

The `MC...` modules give the constants their values. An operator named
`Mutant...` stands before the definition it is a slip of; no specification uses
one, and `PROJECT.json` names the property each must violate.

## Runs

| run | checks | shows |
|---|---|---|
| `stream_strict` | `OffsetCountsStream`, `VerdictMatchesStream`, `FullBufferDrains`, `FailureIsSticky`, `ProbeTellsOutcome` | strict mode, two frames out of 19 (14 malformed, at least one per rule), feeds of 0, 1 or 2 frames, every cut: right verdict, right offset, no wedge, exact probe |
| `stream_fragments` | `TypeOK`, `FramesInOrder`, `BorrowedViewsIntact`, `ModeChangesBetweenFrames`, `ImplementsChannel` | compatible mode, three frames, feeds of 0, 1 or 3 frames, growth and refusal, mode changes, resets |
| `stream_output_limit` | `SameFramesHoweverFed` (violated) | a valid stream fails when one feed emits more than `max_output_size`, and decodes when fed in pieces |
| `frame_link` | `PacketsArriveAsSent`, `OnlyOversizeRefused`, `EveryPacketReceived` | what `encode_frame` builds a strict decoder takes, through every cut and change of threshold; nothing is left in the buffer |
| `client_session` | `TypeOK`, `NextFrameInDecoderMode`, `SendsInPeerMode`, `AnnouncedModeAccepted`, `InformationOnce`, `CallbackStopsRunCleanly`, `CallsReturn` | two connections, disconnects from everywhere, coalesced frames, a peer that stops reading; both directions in the peer's mode; every call returns unless it hangs in a send the peer does not take |
| `client_play_without_socket` | `PlayHasSocket` (violated) | a callback that disconnects at Login Success: `connect` returns 0 in PLAY without a socket |
| `client_lost_disconnect` | `DisconnectInterrupts` (violated) | a disconnect during `connect_tcp` is lost |
| `play_replies` | `ConfirmationsMatchTeleports`, `LoadedOncePerConnection`, `TrackedIsServers`, `ConfirmationKeepsPosition` | protocol 777, two axes, relative and absolute teleports under way together with movement, failing sends, a reconnection |
| `play_replies_legacy` | `EchoesAreAbsolute` (violated) | protocol 47 echoes relative offsets as coordinates |
| `component_validator` | `TypeOK`, `StackBounded`, `EveryIterationReads`, `TypesInStep`, `Answers` | items of every format and protocol over arbitrary input: bounded stack, no loop that reads nothing, an answer |
| `transport` | `TypeOK`, `SocketClosedOnce`, `DescriptorsAccounted`, `AcceptStopsAtFrame`, `StreamMatchesCalls`, `RingServesWaits` | failures at every point of open, accept, wait and send; rings that fail at run time; a disconnect from another thread between any two steps |
| `transport_interrupted` | `RingMappedWhileWaiting` (violated) | the same disconnect on the io_uring backend unmaps the ring under the waiting thread |

The five violations are disagreements between the code and a sentence of its
own header, comments or plan; `PROJECT.json` quotes each under "findings".

**Bounds.** Decoder: frames of at most 3 bytes behind headers of at most 2
(`MaxVarInt`, 5 in the code), a buffer of 6, an output of 5, allocations
starting at 1. The limits are chosen so that the largest frame fills the buffer
to a byte, one more frame overflows the output, growth by doubling passes the
cap, and `SizeMax = 7` makes the offset saturate within two frames. Two frames
suffice for one frame's verdict after another was accepted; three for views that
are rebased twice. Link: three packets of four sizes, below, at and above the
threshold 3, at the frame limit 5 and one above it; VarInt bytes hold the values
below `Base = 3`, so that sizes and ids take one byte or two; a chunk of 5 holds
the end of a frame and all of the next, and the buffer of 11 is the least that
takes a chunk behind an incomplete frame (`ClientAssumption`; 64 MiB for frames
of 16 in the code).
Client: `LoginPackets = 3`, `ConfigPackets = 2` (16 and 256 in the code): enough
for compression, another packet and success, and to run out of both; two frames
in flight coalesce any two neighbours; two connections show what the first
leaves behind. One thread-side disconnect per call. Replies: three packets
or movements per connection, which lets a movement cross the second of two
teleports, or two teleports be unconfirmed at once behind a movement; two
connections, the second with the first one's tracked position. Neither run
checks for deadlock: the application need not open a third connection. Transport: three descriptors, so that a
client with two leaves one for the rest of the program and a third file is
refused; frames of two units and batches of two frames, the least that has a
partial send inside and between frames; a handshake of at most two bytes behind
a header of one or two, and sizes of zero and one too many. The other thread
disconnects once, and in the passing run only with the poll backend
(`Interruptible`): with io_uring that is the fifth violation, and with epoll the
descriptor `event_fd` is exposed in the same way (see below). Components:
`MaxDepth = 3` (64 in the code) is the least that lets an item be inside a
component inside an item and be refused one deeper; `MaxCount = 2` distinguishes
none, one and another element. The loop over a compound's children (5475) is the
one without a count in the input: there `MaxCount` ends it, where in the code the
finite input does, since each child reads at least its type; `Answers` says
nothing about that loop that the bound does not. Every component of every
protocol is read.

**Fairness** is assumed in `frame_link`: the reader calls `read_frame` again and
bytes that were sent arrive; nothing is assumed of the sender. In
`component_validator` it says that a running function goes on running (there is
nothing to wait for), and in `client_session` that the client's thread keeps
running inside a call (`connect`, `recv` after a bounded wait and `backend_wait`
end at the latest with their timeouts), the callback answers the packet it was
shown, and the other thread finishes a disconnect it began. A send has no timeout,
so nothing is assumed of one that is `Blocked`, at a send on a socket nobody has
shut to a peer that takes no bytes: the condition is `WF_vars(~Blocked /\
ClientStep)`, and `CallsReturn` promises that a call returns or is blocked in that
way. A disconnect from another thread shuts the socket and so ends it. Nothing is
assumed of the peer or of the application's next call. `run` is only promised to
return once a disconnect was requested.

## Proofs

TLAPS proves the theorems below for every value of the constants that the
assumptions named in the modules allow, and for behaviours of any length. Each
proof has the same shape: an inductive invariant (`IInv`, or a name of its own)
that the initial states satisfy and every step keeps (one step of the proof per
action, one lemma per part of the invariant), from which the property follows.
Every invariant and every action property of the passing runs is covered, four of
`Transport` under a stated condition; liveness is not (see the end of this
section).

### The decoder (`StreamDecoderProofs`)

Assumed: `ConfigAssumption` (the checks of `mc_stream_decoder_create`) and
`ModelAssumption` (types of the model's parameters).

| theorem | states |
|---|---|
| `InvariantHolds` | `Spec => []IInv` |
| `TypeCorrect` | `TypeOK`: sizes within the configured limits |
| `DeliversInOrder` | `FramesInOrder` |
| `OffsetsCorrect` | `OffsetCountsStream` |
| `FullBufferNeverStuck` | `FullBufferDrains` |
| `ViewsIntact` | `BorrowedViewsIntact` |
| `StickyFailure` | `FailureIsSticky` |
| `ModeBetweenFrames` | `ModeChangesBetweenFrames` |
| `VerdictsCorrect` | `VerdictMatchesStream` |
| `ProbeExact` | `ProbeTellsOutcome` |
| `Refinement` | `ImplementsChannel`: the decoder implements `FrameChannel` |

The inductive invariant is

    IInv == TypeOK /\ Layout /\ Position /\ FramesInOrder /\ OffsetCountsStream

`Layout` says that frame i+1 starts where frame i ends, so that equal offsets
mean equal frames; `Position` that the bytes consumed by the running call are in
the buffer and the bytes fed are among those sent. With them, a complete frame at
the position reached can only be the next one (`HereIsNext`), and taking it moves
the position to the start of its successor. Neither property is inductive alone:
`FramesInOrder` needs the frame found by its offset to be the next in order, which
is `Layout`; the bound on `buffer_size` after `stream_consume` needs `Position`.
`CallInv` adds what holds inside a running feed (it has not failed) for the step
properties and the refinement, where each taken frame is one `Deliver`, an
error is `Break`, `Reset` is `Restart` and everything else a stutter.
`FullBufferDrains` follows from the invariant and create's
`max_buffered_size >= max_frame_size + MaxVarInt`.

`VerdictMatchesStream` compares two readings of a frame: `WellFormed` looks at
the whole of it, the code at its parts in turn, with the bytes there are. They
agree part by part (`HeaderVerdict`, `EnvelopeVerdict`, `PacketVerdict`) and
hence on the frame (`FrameVerdict`: well formed exactly when no check complains);
each check places its error no later than the last of the frame's headers. The
two halves, what is `Published` and what is `Refused`, are kept by an iteration
(`IterationKeepsVerdict`) and by every other step because a failed decoder moves
nothing. `ProbeTellsOutcome` needs that a call has consumed nothing before its
first frame (`NothingTaken`), so that the probe, made outside, and the loop look
at the same frame with the same bytes.

### A link of two clients (`FrameLinkProofs`)

Assumed besides: `LinkAssumption` (types), `FrameAssumption` (the decoder's frames
include the ones `encode_frame` builds) and `ClientAssumption`: a client's decoder
has output for a frame and, behind an incomplete frame, input for a chunk. `create`
does not demand that; the default configuration, the only one a client uses
(28348), has it with room to spare: 64 MiB of input and 32 of output for frames
of 16, chunks of 8 KiB.

| theorem | states |
|---|---|
| `EncodedFramesWellFormed` | what `encode_frame` builds within the decoder's limits is `WellFormed` at its threshold |
| `LinkInvariantHolds` | `LinkSpec => []LinkIInv` |
| `PacketsArrive` | `PacketsArriveAsSent`: the packets sent, each once, in order, ids and sizes intact |
| `RefusedOnlyOversize` | `OnlyOversizeRefused`: only frames above the limits, or want of memory |

`EncodedFramesWellFormed` has the decoder's two limits as hypotheses because
`encode_frame` checks neither; the argument is by cases (no compression, below
the threshold, from it on) over `VarIntWritten` (a VarInt has one to `MaxVarInt`
bytes) and `EncodedShape`. With `FrameVerdict` it gives `EncodedAccepted`: a
decoder set to the threshold of the frame refuses it only as too large, and finds
the packet that was sent in it. It remains that the decoder *is* set to that
threshold whenever it looks at a frame:

    LinkIInv == IInv /\ CallInv /\ NothingTaken /\ LinkInv
    LinkInv  == LinkType /\ SentInv /\ FeedsInv /\ ModeInv /\ RoomInv /\ ArrivedInv /\ FailInv

`SentInv` says at which threshold each frame on the wire was built (the one the
packet before it announced), `FeedsInv` that a feed takes one frame at most and
that it is the next packet, `ModeInv` that outside "read_frame has returned and
the announcement is not applied" the decoder is in the mode of the next frame,
and `RoomInv` that the part of a frame left at `receive_some` leaves room for a
chunk. A step of the link is a step of the decoder (`DecoderStep`), so the
decoder's invariant needs no second proof.

### The client session (`ClientSessionProofs`)

| theorem | states |
|---|---|
| `InvariantHolds` | `Spec => []IInv` |
| `SessionTypeCorrect` | `TypeOK` |
| `FramesReadInTheirMode` | `NextFrameInDecoderMode` |
| `SendsFramedForPeer` | `SendsInPeerMode` |
| `AnnouncementsAccepted` | `AnnouncedModeAccepted` |
| `InformationSentOnce` | `InformationOnce` |
| `CallbackEndsRun` | `CallbackStopsRunCleanly` |

    IInv == IInvBasic /\ AbandonedStays /\ Modes /\ Phases /\ Fresh /\ Together

`Modes` is the heart of it: the frames in the decoder's buffer followed by those
on the network are `Chained`, each in the mode the one before it leaves behind,
from the mode the decoder is in (or will be, while a Set Compression is
`Pending`) to the mode the peer sends in. `NextFrameInDecoderMode` is its first
link. It is inductive only together with `Phases` (behind Login Success there is
no Set Compression and every frame is in the peer's mode, so configuration and
play never change it), `Fresh`
(a connection starts with nothing of the one before in the decoder) and
`AbandonedStays`: a disconnect that ends after its connection was replaced may
leave DISCONNECTED behind on the new one, and then the client does not read on.
`SendsInPeerMode` adds `Together`, that encoder and decoder have one threshold: at
a send of configuration or PLAY the chain is `Settled`, so the decoder's mode is
the peer's and the encoder's too.
`IInvBasic` relates the labels of the client's thread to what each function has
established: who may be running (`Control`), the Client Information sent
(`Informed`), what `run` finds after a callback's disconnect (`Stopping`), that
a packet's request is settled before the next read (`Owing`), and that the
transition flag is up while a change of mode is owed (`TransitionReady`).

### The automatic replies (`PlayRepliesProofs`)

| theorem | states |
|---|---|
| `InvariantHolds` | `Spec => []IInv` |
| `TrackedPositionAgrees` | `TrackedIsServers` |
| `TeleportsConfirmed` | `ConfirmationsMatchTeleports` |
| `ConfirmationIsHarmless` | `ConfirmationKeepsPosition` |
| `LoadedOnce` | `LoadedOncePerConnection` |

All without condition, for any number of packets under way, any movements between
polls or in the callback, and any axes.

    IInv == TypeInv /\ SentInv /\ AwaitInv /\ ChainInv /\ BaseInv /\ ConfirmInv /\ LoadInv

`TrackedIsServers` speaks of moments when nothing is unconfirmed, so the induction
has to say what holds of the teleports under way. `AwaitInv`: the server awaits a
confirmation exactly while the client has teleports to handle, the last of them,
and the player is at its target. `ChainInv`: since movement is refused meanwhile,
each pending teleport counts from the target of the one before. `BaseInv`: on an
axis that is not astray, the first pending teleport counts from the tracked
position, or some pending teleport will state the axis, or nothing is pending and
the tracked position is the server's. Handling a teleport then moves the base from
one target to the next, and the last resolved position is the server's, which is
also what makes the confirmation's position harmless. `ConfirmInv` says that every
teleport but the one being handled has its confirmation, in order, and `LoadInv`
that `player_loaded_sent` is whether the packet was sent.

### The transport (`TransportProofs`)

| theorem | states |
|---|---|
| `InvariantHolds` | `Spec => []IInv` |
| `TransportTypeCorrect` | `TypeOK` |
| `AcceptedAtFrame` | `AcceptStopsAtFrame` |
| `SocketsClosedOnce` | `SocketClosedOnce`, if `Interruptible \subseteq {"POLL"}` |
| `DescriptorsKept` | `DescriptorsAccounted`, same condition |
| `WaitsServed` | `RingServesWaits`, same condition |

    IInv == BaseInv /\ (Interruptible \subseteq {"POLL"} => HeldInv)

The condition says that another thread disconnects only clients that wait with
poll. It is not a convenience: the run `transport_interrupted` shows the ring
unmapped under its waiter, and epoll's descriptor is exposed likewise (see
Observations). `HeldInv` gives every socket, ring and epoll file exactly one
owner at every step: a field of the client, or the thread that has taken it out
(`SocketsInv`, `FilesInv`), with the few steps between a close and the clearing
of its field named. The proof sorts the steps (`Shapes`): those that only move a
thread on (`StepWalks`), and one lemma for each that opens, closes, stores or
clears.

### The transport's stream (`TransportStreamProofs`)

`SentAsCalled` states `StreamMatchesCalls`, under the same condition on
`Interruptible`, for any packets, frame size, number of calls and cut of the
sends, with or without a transform. Two things stood in the way.

The frames of a run of calls are `FlattenSeq` of a sequence of any length, a
recursive function. Induction over it is not available (see the end of this
section), so its laws are proved by least counterexample: `LeastNat` takes the
least element of a set of naturals from the library's well-foundedness of `<`,
and there is no least length at which the fold does not exist (`FlatExists`),
leaves the type (`FlattenType`) or fails to distribute over a concatenation
(`FlattenConcat`). The last gives the one fact the steps need: the units of
`done \o batch` are the units of `done` followed by those of `batch`
(`UnitsFacts`).

And the property is not inductive. A send moves units from `sending` to `wire`,
which leaves their concatenation alone (`Moved`); but that the units about to be
sent come under the right keys, and that a send which returns has nothing left
over, needs

    StreamInv == StreamType /\ AloneInv /\ SettledInv /\ KeysInv /\ StreamMatchesCalls

`AloneInv` says that until a disconnect has run beside another call one thread is
idle, and a send works on the client's own socket; `SettledInv` that outside
`send_all` nothing is left to send, and inside no more than the batch; `KeysInv`
that the key stream has advanced by one for each unit since the transform was
set, those still to be sent included, because `send_all` encrypts a copy before
the first `send`. The condition enters through `SocketsInv` of `HeldInv`:
what `socket_fd` names is the client's socket and no other file, so the bytes of
a send reach the peer.

### The validators (`ComponentValidatorProofs`, `ComponentWalkProofs`)

| theorem | states |
|---|---|
| `StackIsBounded` | `StackBounded` |
| `WalkAlways` | `Spec => [](WalkInv /\ DepthIsPlace)` |
| `WalkTypeCorrect` | `TypeOK` |
| `IterationsRead` | `EveryIterationReads` |
| `TablesInStep` | `TypesInStep` |

All hold for every depth limit (`MaxDepthAssumption`), bound on counts, set of
protocols and input. The proof of `StackIsBounded` looks into no table: it holds
for any layouts, and so for those of a protocol added later. `StackBounded` alone is not inductive, since it
does not say why a call at the limit is refused; the invariant is

    DepthIsPlace == the stack is a sequence of frames, and the frame at place i
                    has depth i - 2, which is at most MaxDepth

A call puts a frame at place n + 1 with its caller's depth plus one, n - 1, and
the guard keeps that within the limit (`CallKeeps`); a return uncovers frames
that are in place already (`ReturnKeeps`); work inside a function rewrites what
its frame has left to read and no depth (`ContinueKeeps`).

The other three are about the tables. `EveryIterationReads` is not inductive: an
iteration that has read nothing yet must be about to read, which depends on the
first node of the element it is in, and the elements come from the layouts of
every structure. The invariant says of the whole stack what the
tables guarantee:

    WalkInv == /\ protocol \in Protocols /\ verdict \in Verdicts /\ unread \in {0, 1}
               /\ Fits(Named(protocol), stack)
               /\ unread = 1 /\ stack # <<>> => Top.todo # <<>> /\ Current.op \in Heads

A set of layouts is `Closed` when each of its nodes is a field, a call, a refusal
or a loop, its ways on are sequences over the set, every loop's element begins
with something that reads, refuses or calls, and every name called is among the
functions given; `Fits` says that what is left to read, in every frame, comes
from one closed set. Being closed is a property of a set and not a recursive
definition over trees, so no induction over layouts is needed: the layouts a
maker (`Many`, `Opt`, `Switch`, `All`, ...) combines are closed together
(`CommonSet`), and `NodeRules` collects one rule per maker, for any set of names.
With them each row of each table is one leaf, and each group of rows of
`ComponentTables` one lemma (`RowsOfFunctions...`, `LayoutsOfComponents...`); a
version whose group is an earlier one's takes its lemma. The lengths proved
beside them are `TablesInStep`. NBT is the one recursive function of the
layouts (the compounds, one for each number of entries): that it exists is again
by least counterexample (`CompoundExists`).

`BodyRule` then says that a function called by name reads first and calls only
functions of its protocol, which a call uses to keep `Fits` and `unread`; a read
takes one way on, an iteration its element, both out of the same closed set. A
refusal ends the walk with an empty stack. These proofs, unlike
`StackIsBounded`, hold for the tables as they are: an element that begins with
an optional loop, or a call of a function that a protocol does not have, would
fail at its row.

### Only model-checked

Liveness, `CallsReturn` (`client_session`), `Answers` (`component_validator`) and
`EveryPacketReceived` (`frame_link`): fairness is stated with ENABLED, about which
the prover cannot reason.

## Observations

Found while modelling, beyond the findings of `PROJECT.json`; none is claimed
as a defect by a run, mostly because no text of the repository says otherwise.

- `event_fd` and the ring's descriptor, unlike `socket_fd`, are not exchanged
  before they are closed. Two overlapping disconnects of a client on epoll may
  close the number twice, the second time another file's. `SocketClosedOnce`
  and `DescriptorsAccounted` fail in `transport` when `Interruptible` includes
  `"NONE"`, though the comment at 28414 shows the case was thought of for the
  socket.
- A position sent while a relative teleport is under way, between polls or in the
  callback, is refused by the server and tracked by the client (28693-28697), and
  the teleport is then resolved against it (29532-29541): client and server differ
  on its relative axes until one is stated absolutely or a movement is accepted.
  From 777 on the confirmation carries the client's result (29566-29573), which a
  server that takes it adopts. `TrackedIsServers` leaves those axes out (`astray`);
  no text of the repository promises agreement on them.
- `mc_client_open` resets `player_loaded_sent` and not `tracked_position_valid`:
  if the first teleport of a second connection is relative, it counts from where
  the first connection ended.
- `mc_client_poll` and `mc_client_run` can be held in a send for as long as the
  peer keeps the connection and does not read, whatever timeout they were given.
- When io_uring was asked for explicitly and fails at run time, `mc_client_wait`
  returns -1 with the ring closed and the backend still io_uring; another wait
  without a disconnect reads the cleared ring. `RingServesWaits` therefore
  speaks of automatic selection only.
- Closing a descriptor takes it out of an epoll set, so a thread waiting in
  epoll may sleep until its timeout although another has disconnected.
- The validator of 768 reads the pattern of a banner layer as a sound
  (`item_sound_holder`, 5658: a string and an optional range), where the other
  protocols read a `banner_pattern` of two strings.
- `encode_frame` takes a payload of exactly 16 MiB, whose frame, one to five
  bytes longer, this library's own decoder refuses (`FRAME_TOO_LARGE`, or
  `DECOMPRESSED_TOO_LARGE` in an envelope).
- `item_stack_template` of 777 bounds its component counts by
  `MC_MAX_PACKET_ARRAY_COUNT`, nested items by `MC_MAX_ITEM_COMPONENT_COUNT`.

## Not modelled

An application that takes `MC_AUTOMATIC_TELEPORT` off and confirms teleports
itself; the contents of packets, names and addresses; encryption beyond its refusal at
login and the order of its key stream in `Transport`; bytes of a VarInt (the
verdict is modelled); timeouts as numbers (a wait may always time out); the data
race on `client->state` beyond the interleaving of whole writes; kqueue and the
other macOS branches; status ping, the packet registry, typed codecs other
than `mc_reader_item_stack`, canonical IR, replay reader and build tools.
`PROJECT.json` has the reason for each component. The typed codecs are some
eight thousand lines in which each packet is a straight line of reads or writes
that fails as a whole; a model of them would repeat the code.

## Plan

1. Done: `FrameChannel`, `StreamDecoder` and its proofs, `ClientSession`,
   `PlayReplies`, `Transport`, `ComponentLayouts`, `ComponentTables`,
   `ComponentValidator` and its proof, `FrameLink`.
2. Done: the proofs of every invariant and action property that the runs check
   of `StreamDecoder` (with its refinement of `FrameChannel`), `FrameLink`,
   `ClientSession`, `PlayReplies`, `Transport` (under the condition on
   `Interruptible`) and `ComponentValidator`.
3. Left: kqueue, should the macOS branches be wanted; the status ping as one more
   composition over `ClientSession`; a refinement of `ClientSession`'s decoder by
   `StreamDecoder`, which today is an agreement of two modules stated in prose.
