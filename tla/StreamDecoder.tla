---------------------------- MODULE StreamDecoder ----------------------------
(***************************************************************************)
(* McStreamDecoder (api.c, STREAM FRAMING): incremental extraction of      *)
(* length-prefixed, optionally zlib-enveloped frames from TCP chunks of    *)
(* any size, with bounded input and output storage, borrowed payload views *)
(* and a sticky error.                                                     *)
(*                                                                         *)
(* Bytes are not modelled one by one.  The peer's stream is the sequence   *)
(* `wire' of frames, frame i starting at absolute offset start[i]; the     *)
(* input buffer holds the last buffer_size of the `fed' bytes given to the *)
(* decoder, so the frame the decoder looks at is whichever one starts at   *)
(* the position it has reached, if any does.  A frame is described by what *)
(* stream_varint reads at its three interesting places and by what inflate *)
(* makes of its body:                                                      *)
(*    hdr     the outer length prefix;                                     *)
(*    first   the VarInt at the start of the frame: the packet id when     *)
(*            compression is off, the declared size when it is on;         *)
(*    second  the packet id behind a compression envelope;                 *)
(*    zlib    the outcome of inflating the enveloped body into exactly     *)
(*            the declared number of bytes.                                *)
(* The same frame can therefore be read in either mode, as in the code.    *)
(*                                                                         *)
(* An operator named Mutant... is the definition that follows it with a    *)
(* plausible slip in it; no specification uses one.  PROJECT.json names    *)
(* the property that has to notice each.                                   *)
(***************************************************************************)
EXTENDS Integers, Sequences

CONSTANTS
    max_frame_size,         \* McStreamDecoderConfig
    max_decompressed_size,
    max_buffered_size,
    max_output_size,
    strict,                 \* mode = MC_DECODE_STRICT
    MaxVarInt,              \* bytes of the longest VarInt: 5 in the code
    InitialCapacity,        \* first allocation: 4096 in the code
    SizeMax,                \* SIZE_MAX
    Frame,                  \* the frames the peer may send
    Threshold,              \* the thresholds the caller may set, -1 = off
    FrameCapacity,          \* the frame_capacity arguments of the caller
    MaxWire                 \* bound: frames the peer sends on one stream

VarInt == [n : 1..MaxVarInt, v : Int, form : {"canonical", "padded", "overflow"}]

FrameType == [hdr : VarInt, first : VarInt, second : VarInt,
              zlib : {"exact", "trailing", "mismatch"}]

\* The checks of mc_stream_decoder_create on its configuration.
ASSUME ConfigAssumption ==
    /\ max_frame_size \in Nat \ {0}
    /\ max_decompressed_size \in Nat \ {0}
    /\ max_buffered_size \in Nat \ {0}
    /\ max_output_size \in Nat \ {0}
    /\ max_output_size >= max_decompressed_size
    /\ max_buffered_size >= max_frame_size + MaxVarInt
    /\ strict \in BOOLEAN

ASSUME ModelAssumption ==
    /\ MaxVarInt \in Nat \ {0}
    /\ InitialCapacity \in Nat \ {0}
    /\ SizeMax \in Nat
    /\ max_buffered_size <= SizeMax
    /\ max_output_size <= SizeMax
    /\ Frame \subseteq FrameType
    /\ Threshold \subseteq Int
    /\ FrameCapacity \subseteq Nat
    /\ MaxWire \in Nat

VARIABLES
    wire,                   \* the frames of the current stream
    start,                  \* start[i]: absolute offset of frame i
    fed,                    \* bytes of the stream accepted by feed
    buffer_size,
    buffer_capacity,
    output_size,
    output_capacity,
    output,                 \* which allocation the output buffer is
    stream_offset,
    compression_threshold,
    compression_transition_ready,
    failed,
    last_error,             \* [code, offset]
    pc,                     \* "idle" between calls, "loop" inside feed
    consumed,               \* feed's local: bytes of the frames taken, 0 outside
    frame_capacity,         \* feed's argument
    frames,                 \* feed's output array, up to emitted
    delivered               \* history: [frame, threshold] of all frames emitted

peer == <<wire, start>>
input == <<fed, buffer_size, buffer_capacity, stream_offset>>
store == <<output_size, output_capacity, output>>
mode == <<compression_threshold, compression_transition_ready>>
status == <<failed, last_error>>
call == <<pc, consumed, frame_capacity>>
results == <<frames, delivered>>

vars == <<peer, input, store, mode, status, call, results>>

\* The errors a malformed stream can cause, and the McErrorCode values the
\* decoder uses.
FormatError == {"VARINT_OVERFLOW", "VARINT_NON_CANONICAL", "INVALID_LENGTH",
                "FRAME_TOO_LARGE", "COMPRESSION_HEADER", "COMPRESSION_THRESHOLD",
                "DECOMPRESSED_TOO_LARGE", "ZLIB", "INVALID_PACKET_BODY"}

McErrorCode == FormatError \cup
    {"NONE", "INVALID_ARGUMENT", "BUFFER_LIMIT", "OUT_OF_MEMORY",
     "INTEGER_OVERFLOW", "PARTIAL_INPUT"}

\* mc_error_clear: MC_ERROR_OFFSET_UNKNOWN is SIZE_MAX.
NoError == [code |-> "NONE", offset |-> SizeMax]

MinOf(a, b) == IF a <= b THEN a ELSE b
MaxOf(a, b) == IF a >= b THEN a ELSE b

saturating_add(left, right) == MinOf(SizeMax, left + right)

stream_absolute_offset(relative) == saturating_add(stream_offset, relative)

(***************************************************************************)
(* The peer.                                                               *)
(***************************************************************************)
\* Bytes frame f occupies on the stream; a header that promises nothing is
\* followed by nothing.
Bytes(f) == f.hdr.n + MaxOf(0, f.hdr.v)

\* Bytes the peer has put on the stream.
Sent == IF wire = <<>> THEN 0
        ELSE start[Len(wire)] + Bytes(wire[Len(wire)])

PeerSend ==
    /\ Len(wire) < MaxWire
    /\ \E f \in Frame : wire' = Append(wire, f)
    /\ start' = Append(start, Sent)
    /\ UNCHANGED <<input, store, mode, status, call, results>>

(***************************************************************************)
(* stream_varint on a VarInt of which `avail' bytes are present.  The      *)
(* verdict needs all its bytes: an overflow shows on the last possible     *)
(* byte, a non-canonical form on the byte that ends it.                    *)
(***************************************************************************)
stream_varint(x, avail) ==
    IF avail < x.n THEN "PARTIAL"
    ELSE IF x.form = "overflow" THEN "VARINT_OVERFLOW"
    ELSE IF x.form = "padded" /\ strict THEN "VARINT_NON_CANONICAL"
    ELSE "COMPLETE"

Invalid(verdict) == verdict \in {"VARINT_OVERFLOW", "VARINT_NON_CANONICAL"}

\* An error at a position relative to the first byte of the frame's header.
ErrorAt(code, at) == [code |-> code, at |-> at]
Sound == ErrorAt("NONE", 0)

(***************************************************************************)
(* The frame's header, as read by feed with `avail' bytes from its start.  *)
(***************************************************************************)
HeaderError(f, avail) ==
    LET verdict == stream_varint(f.hdr, avail) IN
    IF Invalid(verdict) THEN ErrorAt(verdict, f.hdr.n - 1)
    ELSE IF f.hdr.v <= 0 THEN ErrorAt("INVALID_LENGTH", 0)
    ELSE IF f.hdr.v > max_frame_size THEN ErrorAt("FRAME_TOO_LARGE", 0)
    ELSE Sound

\* feed leaves its loop and waits for more input: the header is cut short, or
\* it is sound and the body is.
MutantOneByteMore(f, avail) ==
    \/ stream_varint(f.hdr, avail) = "PARTIAL"
    \/ /\ HeaderError(f, avail) = Sound
       /\ avail - f.hdr.n <= f.hdr.v
Incomplete(f, avail) ==
    \/ stream_varint(f.hdr, avail) = "PARTIAL"
    \/ /\ HeaderError(f, avail) = Sound
       /\ avail - f.hdr.n < f.hdr.v

(***************************************************************************)
(* stream_decode_frame up to the point where it picks a way to emit.       *)
(***************************************************************************)
EnvelopeError(f) ==
    LET verdict == stream_varint(f.first, f.hdr.v)
        body_size == f.hdr.v - f.first.n
        below == IF f.first.v = 0 THEN body_size >= compression_threshold
                                  ELSE f.first.v < compression_threshold
    IN
    IF compression_threshold < 0 THEN Sound
    ELSE IF Invalid(verdict) THEN ErrorAt(verdict, f.hdr.n + f.first.n - 1)
    ELSE IF verdict = "PARTIAL" \/ f.first.v < 0
         THEN ErrorAt("COMPRESSION_HEADER", f.hdr.n)
    ELSE IF f.first.v > max_decompressed_size
         THEN ErrorAt("DECOMPRESSED_TOO_LARGE", f.hdr.n)
    ELSE IF strict /\ below THEN ErrorAt("COMPRESSION_THRESHOLD", f.hdr.n)
    ELSE Sound

\* The packet inside a frame whose envelope is sound: its size in the output,
\* the VarInt that is its id, where its bytes begin on the wire, and whether
\* they are inflated.
Packet(f) ==
    IF compression_threshold < 0
    THEN [size |-> f.hdr.v, id |-> f.first, at |-> f.hdr.n, compressed |-> FALSE]
    ELSE [size |-> IF f.first.v = 0 THEN f.hdr.v - f.first.n ELSE f.first.v,
          id |-> f.second, at |-> f.hdr.n + f.first.n,
          compressed |-> f.first.v # 0]

\* Storage checks of stream_emit_uncompressed and stream_emit_compressed,
\* made before anything is reserved.  (Sizes are at most INT32_MAX, so the
\* comparison with UINT_MAX in the compressed case never fires.)
LimitError(p) ==
    IF p.size > SizeMax - output_size THEN ErrorAt("INTEGER_OVERFLOW", p.at)
    ELSE IF output_size + p.size > max_output_size THEN ErrorAt("BUFFER_LIMIT", p.at)
    ELSE Sound

\* inflate's outcome and stream_finish_packet, both after the reservation.
MutantTrailingAccepted(p, zlib) ==
    LET verdict == stream_varint(p.id, p.size) IN
    IF p.compressed /\ zlib = "mismatch" THEN ErrorAt("ZLIB", p.at)
    ELSE IF p.size = 0 THEN ErrorAt("INVALID_PACKET_BODY", p.at)
    ELSE IF Invalid(verdict) THEN ErrorAt(verdict, p.at + p.id.n - 1)
    ELSE IF verdict = "PARTIAL" \/ p.id.v < 0 THEN ErrorAt("INVALID_PACKET_BODY", p.at)
    ELSE Sound
PacketError(p, zlib) ==
    LET verdict == stream_varint(p.id, p.size) IN
    IF p.compressed /\ (zlib = "mismatch" \/ (strict /\ zlib = "trailing"))
    THEN ErrorAt("ZLIB", p.at)
    ELSE IF p.size = 0 THEN ErrorAt("INVALID_PACKET_BODY", p.at)
    ELSE IF Invalid(verdict) THEN ErrorAt(verdict, p.at + p.id.n - 1)
    ELSE IF verdict = "PARTIAL" \/ p.id.v < 0 THEN ErrorAt("INVALID_PACKET_BODY", p.at)
    ELSE Sound

\* How the call can fail once the output is reserved: inflateInit may lack
\* memory, which the code reports like bad data, or the packet is bad.
Failures(p, zlib) ==
    ({PacketError(p, zlib)} \ {Sound}) \cup
    {e \in {ErrorAt("ZLIB", p.at)} : p.compressed}

(***************************************************************************)
(* stream_reserve and the sizing half of stream_reserve_output: the        *)
(* capacities that can result from asking for `needed' of at most          *)
(* `maximum'.  Doubling from the present (or the initial) capacity, capped *)
(* at the maximum, stops at the first size that is enough.                 *)
(***************************************************************************)
MutantUncapped(capacity, needed, maximum) ==
    LET first == IF capacity = 0 THEN InitialCapacity ELSE capacity
        Reachable(g) == \E k \in 0..maximum : g = first * 2^k
    IN
    IF needed <= capacity THEN {capacity}
    ELSE {g \in needed..(2 * maximum) :
            /\ Reachable(g)
            /\ \A h \in needed..(g - 1) : ~Reachable(h)}
Reserved(capacity, needed, maximum) ==
    LET first == MinOf(IF capacity = 0 THEN InitialCapacity ELSE capacity, maximum)
        Reachable(g) == g = maximum \/ \E k \in 0..maximum : g = first * 2^k
    IN
    IF needed <= capacity THEN {capacity}
    ELSE {g \in needed..maximum :
            /\ Reachable(g)
            /\ \A h \in needed..(g - 1) : ~Reachable(h)}

(***************************************************************************)
(* stream_fail records the first error only; feed and finish never reach   *)
(* it on a decoder that has failed, except feed with invalid arguments.    *)
(***************************************************************************)
MutantLastErrorWins(code, offset) ==
    /\ failed' = TRUE
    /\ last_error' = [code |-> code, offset |-> offset]
stream_fail(code, offset) ==
    /\ failed' = TRUE
    /\ last_error' = IF failed THEN last_error ELSE [code |-> code, offset |-> offset]

MutantOffsetKeptWhenEmptied(amount) ==
    /\ buffer_size' = buffer_size - amount
    /\ stream_offset' = IF amount = buffer_size THEN stream_offset
                        ELSE saturating_add(stream_offset, amount)
stream_consume(amount) ==
    /\ buffer_size' = buffer_size - amount
    /\ stream_offset' = saturating_add(stream_offset, amount)

emitted == Len(frames)

(***************************************************************************)
(* mc_stream_decoder_feed up to its loop.  Four ways in: invalid           *)
(* arguments, a decoder that has failed, storage refused, data appended.   *)
(***************************************************************************)
FeedInvalidArgument ==
    /\ pc = "idle"
    /\ stream_fail("INVALID_ARGUMENT", stream_absolute_offset(buffer_size))
    /\ frames' = <<>>
    /\ UNCHANGED <<peer, input, store, mode, call, delivered>>

FeedFailed ==
    /\ pc = "idle"
    /\ failed
    /\ frames' = <<>>
    /\ UNCHANGED <<peer, input, store, mode, status, call, delivered>>

FeedRefused(size) ==
    /\ pc = "idle"
    /\ ~failed
    /\ \/ /\ size > max_buffered_size - buffer_size
          /\ stream_fail("BUFFER_LIMIT", stream_absolute_offset(buffer_size))
       \/ /\ size <= max_buffered_size - buffer_size
          /\ buffer_size + size > buffer_capacity         \* realloc fails
          /\ stream_fail("OUT_OF_MEMORY", stream_absolute_offset(buffer_size))
    /\ compression_transition_ready' = FALSE
    /\ output_size' = 0
    /\ frames' = <<>>
    /\ UNCHANGED <<peer, input, output_capacity, output, compression_threshold,
                   call, delivered>>

FeedAppend(size, capacity) ==
    /\ pc = "idle"
    /\ ~failed
    /\ size <= max_buffered_size - buffer_size
    /\ buffer_capacity' \in Reserved(buffer_capacity, buffer_size + size,
                                     max_buffered_size)
    /\ buffer_size' = buffer_size + size
    /\ fed' = fed + size
    /\ compression_transition_ready' = FALSE
    /\ output_size' = 0
    /\ frames' = <<>>
    /\ pc' = "loop"
    /\ consumed' = 0
    /\ frame_capacity' = capacity
    /\ UNCHANGED <<peer, stream_offset, output_capacity, output,
                   compression_threshold, status, delivered>>

\* The chunk is any part of what the peer sent and feed has not yet taken.
Feed ==
    \/ FeedInvalidArgument
    \/ FeedFailed
    \/ \E size \in 0..(Sent - fed) :
         \/ FeedRefused(size)
         \/ \E capacity \in FrameCapacity : FeedAppend(size, capacity)

(***************************************************************************)
(* One iteration of feed's loop.  Here(i): frame i starts where the loop   *)
(* has got to, buffer + consumed.                                          *)
(***************************************************************************)
Avail == buffer_size - consumed

Here(i) == start[i] = (fed - buffer_size) + consumed

Looping ==
    /\ pc = "loop"
    /\ emitted < frame_capacity
    /\ consumed < buffer_size

\* The iteration ends the call with error e: the frames before are consumed
\* and published, the offending one stays in the buffer.
FeedFails(e) ==
    /\ stream_consume(consumed)
    /\ stream_fail(e.code, stream_absolute_offset(consumed + e.at))
    /\ pc' = "idle"
    /\ consumed' = 0
    /\ UNCHANGED <<peer, fed, buffer_capacity, mode, frame_capacity, delivered>>

FeedBadFrame(i) ==
    LET f == wire[i]
        e == IF HeaderError(f, Avail) # Sound THEN HeaderError(f, Avail)
             ELSE IF EnvelopeError(f) # Sound THEN EnvelopeError(f)
             ELSE LimitError(Packet(f))
    IN
    /\ e # Sound
    /\ FeedFails(e)
    /\ UNCHANGED <<store, frames>>

\* malloc fails in stream_reserve_output.
FeedOutOfMemory(i) ==
    LET f == wire[i]
        p == Packet(f)
    IN
    /\ HeaderError(f, Avail) = Sound
    /\ EnvelopeError(f) = Sound
    /\ LimitError(p) = Sound
    /\ output_size + p.size > output_capacity
    /\ FeedFails(ErrorAt("OUT_OF_MEMORY", p.at))
    /\ UNCHANGED <<store, frames>>

\* The second half of stream_reserve_output: growing replaces the allocation,
\* and the payloads published so far are moved to the new one.
MutantNotRebased(grown) == frames
Rebase(grown) ==
    [k \in 1..emitted |-> IF grown THEN [frames[k] EXCEPT !.output = output + 1]
                                   ELSE frames[k]]

\* McDecodedFrame: where the payload lies, and which frame it came from.
ViewType == [frame : Nat, output : Nat, data : Nat, size : Nat,
             id_size : Nat, compressed : BOOLEAN]

View(i, block, p) ==
    [frame |-> i, output |-> block, data |-> output_size + p.id.n,
     size |-> p.size - p.id.n, id_size |-> p.id.n, compressed |-> p.compressed]

MutantHeaderKept(f) == f.hdr.v
FrameLength(f) == f.hdr.n + f.hdr.v

FeedFrame(i) ==
    LET f == wire[i]
        p == Packet(f)
        grown == output_size + p.size > output_capacity
        block == IF grown THEN output + 1 ELSE output
    IN
    /\ HeaderError(f, Avail) = Sound
    /\ EnvelopeError(f) = Sound
    /\ LimitError(p) = Sound
    /\ output_capacity' \in Reserved(output_capacity, output_size + p.size,
                                     max_output_size)
    /\ output' = block
    /\ \/ /\ \E e \in Failures(p, f.zlib) : FeedFails(e)
          /\ frames' = Rebase(grown)
          /\ UNCHANGED output_size
       \/ /\ PacketError(p, f.zlib) = Sound
          /\ output_size' = output_size + p.size
          /\ frames' = Append(Rebase(grown), View(i, block, p))
          /\ delivered' = Append(delivered, [frame |-> i, threshold |-> compression_threshold])
          /\ consumed' = consumed + FrameLength(f)
          /\ UNCHANGED <<peer, input, mode, status, pc, frame_capacity>>

FeedIteration ==
    /\ Looping
    /\ \E i \in DOMAIN wire :
         /\ Here(i)
         /\ ~Incomplete(wire[i], Avail)
         /\ FeedBadFrame(i) \/ FeedOutOfMemory(i) \/ FeedFrame(i)

\* The flag that lets the caller change mode although bytes are buffered.
MutantStoppedAnywhere(remaining) == emitted # 0 /\ remaining # 0
StoppedAtCapacity(remaining) ==
    emitted # 0 /\ emitted = frame_capacity /\ remaining # 0

\* The loop is over: capacity reached, buffer used up, or a frame cut short.
FeedReturn ==
    /\ pc = "loop"
    /\ Looping => \E i \in DOMAIN wire : Here(i) /\ Incomplete(wire[i], Avail)
    /\ stream_consume(consumed)
    /\ compression_transition_ready' = StoppedAtCapacity(buffer_size - consumed)
    /\ pc' = "idle"
    /\ consumed' = 0
    /\ UNCHANGED <<peer, fed, buffer_capacity, store, compression_threshold,
                   status, frame_capacity, results>>

(***************************************************************************)
(* mc_stream_decoder_set_compression: refused without a sticky error when  *)
(* the threshold is out of range, the decoder has failed, or part of a     *)
(* frame is buffered that no capacity stop has left at a boundary.         *)
(***************************************************************************)
TransitionRefused == buffer_size # 0 /\ ~compression_transition_ready

SetCompression(threshold) ==
    /\ pc = "idle"
    /\ threshold >= -1
    /\ ~failed
    /\ ~TransitionRefused
    /\ compression_threshold' = threshold
    /\ compression_transition_ready' = FALSE
    /\ UNCHANGED <<peer, input, store, status, call, results>>

\* mc_stream_decoder_finish; without buffered bytes it changes nothing.
Finish ==
    /\ pc = "idle"
    /\ ~failed
    /\ buffer_size # 0
    /\ stream_fail("PARTIAL_INPUT", stream_absolute_offset(buffer_size))
    /\ UNCHANGED <<peer, input, store, mode, call, results>>

\* mc_stream_decoder_reset, called when a new stream begins.
MutantResetKeepsFailure ==
    /\ pc = "idle"
    /\ wire' = <<>> /\ start' = <<>>
    /\ fed' = 0
    /\ buffer_size' = 0
    /\ output_size' = 0
    /\ stream_offset' = 0
    /\ compression_threshold' = -1
    /\ compression_transition_ready' = FALSE
    /\ last_error' = NoError
    /\ frames' = <<>> /\ delivered' = <<>>
    /\ UNCHANGED <<buffer_capacity, output_capacity, output, call, failed>>
Reset ==
    /\ pc = "idle"
    /\ wire' = <<>> /\ start' = <<>>
    /\ fed' = 0
    /\ buffer_size' = 0
    /\ output_size' = 0
    /\ stream_offset' = 0
    /\ compression_threshold' = -1
    /\ compression_transition_ready' = FALSE
    /\ failed' = FALSE
    /\ last_error' = NoError
    /\ frames' = <<>> /\ delivered' = <<>>
    /\ UNCHANGED <<buffer_capacity, output_capacity, output, call>>

\* mc_stream_decoder_create.
Init ==
    /\ wire = <<>> /\ start = <<>>
    /\ fed = 0
    /\ buffer_size = 0 /\ buffer_capacity = 0
    /\ output_size = 0 /\ output_capacity = 0 /\ output = 0
    /\ stream_offset = 0
    /\ compression_threshold = -1
    /\ compression_transition_ready = FALSE
    /\ failed = FALSE /\ last_error = NoError
    /\ pc = "idle" /\ consumed = 0 /\ frame_capacity = 0
    /\ frames = <<>> /\ delivered = <<>>

Next ==
    \/ PeerSend
    \/ Feed
    \/ FeedIteration
    \/ FeedReturn
    \/ \E threshold \in Threshold : SetCompression(threshold)
    \/ Finish
    \/ Reset

Spec == Init /\ [][Next]_vars

(***************************************************************************)
(* stream_decoder_frame_ready: the probe McClient uses before it waits on  *)
(* the socket.                                                             *)
(***************************************************************************)
MutantNoSizeLimit ==
    \/ failed
    \/ /\ buffer_size # 0
       /\ \E i \in DOMAIN wire :
            LET hdr == wire[i].hdr
                verdict == stream_varint(hdr, buffer_size)
            IN
            /\ start[i] = fed - buffer_size
            /\ \/ Invalid(verdict)
               \/ /\ verdict = "COMPLETE"
                  /\ \/ hdr.v <= 0
                     \/ buffer_size - hdr.n >= hdr.v
stream_decoder_frame_ready ==
    \/ failed
    \/ /\ buffer_size # 0
       /\ \E i \in DOMAIN wire :
            LET hdr == wire[i].hdr
                verdict == stream_varint(hdr, buffer_size)
            IN
            /\ start[i] = fed - buffer_size
            /\ \/ Invalid(verdict)
               \/ /\ verdict = "COMPLETE"
                  /\ \/ hdr.v <= 0
                     \/ hdr.v > max_frame_size
                     \/ buffer_size - hdr.n >= hdr.v

(***************************************************************************)
(* Properties.                                                             *)
(***************************************************************************)
\* Every variable holds a value of the C type it stands for, and every size
\* is within the configured limit.
TypeOK ==
    /\ wire \in Seq(Frame) /\ start \in Seq(Nat) /\ Len(start) = Len(wire)
    /\ fed \in Nat
    /\ buffer_size \in 0..max_buffered_size
    /\ buffer_capacity \in 0..max_buffered_size
    /\ output_size \in 0..max_output_size
    /\ output_capacity \in 0..max_output_size
    /\ output \in Nat
    /\ stream_offset \in 0..SizeMax
    /\ compression_threshold \in Int
    /\ compression_transition_ready \in BOOLEAN
    /\ failed \in BOOLEAN
    /\ last_error \in [code : McErrorCode, offset : 0..SizeMax]
    /\ pc \in {"idle", "loop"}
    /\ consumed \in Nat
    /\ frame_capacity \in Nat
    /\ frames \in Seq(ViewType)
    /\ delivered \in Seq([frame : Nat, threshold : Int])

\* Bytes taken off the front of the stream, finished calls and the current one.
Taken == (fed - buffer_size) + consumed

\* However the stream is cut into chunks and whatever capacity each feed is
\* given, the frames that come out are the frames of the stream, each once and
\* in order, and the bytes taken are exactly those of the frames that came out:
\* the decoder is always at a frame boundary.
FramesInOrder ==
    /\ Len(delivered) <= Len(wire)
    /\ \A k \in 1..Len(delivered) : delivered[k].frame = k
    /\ Taken = IF Len(delivered) = Len(wire) THEN Sent
               ELSE start[Len(delivered) + 1]

\* stream_offset, from which every error offset is computed, counts the bytes
\* of the stream that precede the buffer, also after it has saturated at
\* SIZE_MAX.
OffsetCountsStream == stream_offset = MinOf(SizeMax, fed - buffer_size)

\* The payloads published by the latest feed lie in the live output
\* allocation, inside its used part and apart from one another, also when a
\* later frame of the same feed replaced the allocation or failed after it.
BorrowedViewsIntact ==
    /\ output_size <= output_capacity
    /\ \A k \in 1..Len(frames) :
         /\ frames[k].output = output
         /\ frames[k].data + frames[k].size <= output_size
         /\ \A j \in 1..(k - 1) :
              frames[j].data + frames[j].size <= frames[k].data - frames[k].id_size

\* A VarInt all of whose n bytes are within `avail' and that the mode accepts.
Readable(x, avail) ==
    x.n <= avail /\ x.form # "overflow" /\ (strict => x.form = "canonical")

\* Reference: the frames the protocol allows at threshold th.
WellFormed(f, th) ==
    LET rest == f.hdr.v - f.first.n IN
    /\ Readable(f.hdr, f.hdr.n)
    /\ f.hdr.v \in 1..max_frame_size
    /\ Readable(f.first, f.hdr.v)
    /\ f.first.v >= 0
    /\ \/ th < 0
       \/ /\ th >= 0 /\ f.first.v = 0
          /\ strict => rest < th
          /\ Readable(f.second, rest) /\ f.second.v >= 0
       \/ /\ th >= 0 /\ f.first.v \in 1..max_decompressed_size
          /\ strict => f.first.v >= th /\ f.zlib = "exact"
          /\ f.zlib # "mismatch"
          /\ Readable(f.second, f.first.v) /\ f.second.v >= 0

\* Only well-formed frames are published, and a format error always means that
\* the first frame not published is malformed (or needed zlib, which may lack
\* memory), names an offset inside that frame's headers, and leaves that frame
\* at the front of the buffer, however the stream was cut into chunks.
VerdictMatchesStream ==
    /\ \A k \in 1..Len(delivered) :
         WellFormed(wire[delivered[k].frame], delivered[k].threshold)
    /\ failed /\ last_error.code \in FormatError =>
         LET i == Len(delivered) + 1
             f == wire[i]
             last == start[i] + f.hdr.n + f.first.n + f.second.n - 1
         IN /\ i <= Len(wire)
            /\ WellFormed(f, compression_threshold) =>
                 last_error.code = "ZLIB" /\ f.first.v > 0
            /\ fed - buffer_size = start[i]
            /\ last_error.offset >= MinOf(SizeMax, start[i])
            /\ last_error.offset <= MinOf(SizeMax, last)

\* A buffer that cannot take another byte always has something to hand out:
\* create's max_buffered_size >= max_frame_size + 5 means that a caller that
\* drains before it feeds is never stuck with a frame that can neither grow nor
\* be decoded.
FullBufferDrains ==
    pc = "idle" /\ buffer_size = max_buffered_size => stream_decoder_frame_ready

\* Between resets the first error is final: nothing more is delivered or
\* consumed, and the error reported stays the same; only reset clears it.
FailureIsSticky ==
    [][ failed => \/ /\ failed'
                     /\ UNCHANGED <<last_error, delivered, fed, buffer_size,
                                    stream_offset, compression_threshold>>
                  \/ ~failed' /\ wire' = <<>> /\ buffer_size' = 0 ]_vars

\* The mode changes only where no byte of the next frame has been looked at:
\* nothing is buffered, or the latest feed stopped because it had filled the
\* caller's array.  A frame that was cut short in the old mode is finished in it.
ModeChangesBetweenFrames ==
    [][ compression_threshold' # compression_threshold /\ wire' # <<>>
        => \/ buffer_size = 0
           \/ emitted # 0 /\ emitted = frame_capacity ]_vars

\* stream_decoder_frame_ready says exactly whether a feed of no new bytes would
\* get anywhere, so that McClient neither waits on the socket with a frame at
\* hand nor reads when there is none.
ProbeTellsOutcome ==
    [][ pc = "loop" /\ emitted = 0 /\ frame_capacity # 0 /\ wire' = wire
        => (stream_decoder_frame_ready <=> (failed' \/ frames' # <<>>)) ]_vars

\* The decoder implements a channel that delivers whole frames in order.
Channel == INSTANCE FrameChannel WITH
    sent <- wire,
    received <- [k \in 1..Len(delivered) |-> wire[delivered[k].frame]],
    broken <- failed

ImplementsChannel == Channel!Spec

\* plan.md, phase 2 exit criterion: every way of cutting the stream yields the
\* frames of the monolithic feed.  A stream of well-formed frames that fits the
\* input buffer as a whole fails only for want of memory, by misuse or at EOF.
SameFramesHoweverFed ==
    failed /\ last_error.code \notin {"OUT_OF_MEMORY", "ZLIB", "INVALID_ARGUMENT",
                                      "PARTIAL_INPUT"}
    => \/ Sent > max_buffered_size
       \/ \E i \in DOMAIN wire : ~WellFormed(wire[i], compression_threshold)

=============================================================================
