----------------------------- MODULE FrameLink -----------------------------
(***************************************************************************)
(* One direction of a connection between two clients of this library: the  *)
(* frames encode_frame builds from packets, cut into chunks by the network *)
(* and taken out again by read_frame with the decoder of StreamDecoder.    *)
(*                                                                         *)
(* A packet may announce a compression threshold.  The sender applies it   *)
(* (mc_client_set_compression) after encoding the announcement, the reader *)
(* when read_frame has returned it and before it reads on.                 *)
(***************************************************************************)
EXTENDS StreamDecoder, FiniteSets

CONSTANTS
    MC_MAX_PACKET,          \* the largest payload encode_frame takes
    Base,                   \* values of a VarInt byte: 128 in the code
    Chunk,                  \* the size of read_frame's chunk
    ZlibOverhead,           \* compressBound(n) - n, at most
    PacketId,               \* the ids and the payload sizes of the packets
    PayloadSize

ASSUME LinkAssumption ==
    /\ MC_MAX_PACKET \in Nat /\ Chunk \in Nat \ {0} /\ ZlibOverhead \in Nat
    /\ Base \in Nat \ {0, 1}
    /\ PacketId \subseteq Nat /\ PayloadSize \subseteq Nat
    /\ 1 \in FrameCapacity

\* What the client's decoder, created with the default configuration, has beyond
\* what create asks for: 64 MiB of input and 32 of output for frames of 16, read
\* in chunks of 8 KiB.
ASSUME ClientAssumption ==
    /\ max_frame_size <= max_output_size
    /\ max_frame_size + MaxVarInt + Chunk - 1 <= max_buffered_size

VARIABLES
    peer_threshold,         \* the sender's McClient.compression_threshold
    packets,                \* history: the packets sent
    reading,                \* where read_frame is
    received                \* history: the packets read_frame has returned

link == <<peer_threshold, packets, reading, received>>
linkVars == <<vars, link>>

-----------------------------------------------------------------------------
(* The sender. *)

\* One byte, and another for each further shift that leaves something.
encode_varint(value) ==
    [n |-> 1 + Cardinality({k \in 1..(MaxVarInt - 1) : value >= Base^k}),
     v |-> value, form |-> "canonical"]

\* compress2 may produce any size up to its bound.
Compressed(plain_size) == 1..(plain_size + ZlibOverhead)

PlainSize(id, payload_size) == encode_varint(id).n + payload_size

\* The envelope's size field: 0 for what is sent as it is.
MutantAboveThreshold(plain_size, threshold) ==
    encode_varint(IF plain_size > threshold THEN plain_size ELSE 0)
DataLength(plain_size, threshold) ==
    encode_varint(IF plain_size >= threshold THEN plain_size ELSE 0)

\* The frame of a packet whose compressed form, if it needs one, has the size
\* deflated.  Without an envelope `second' is not read.
encode_frame(id, payload_size, threshold, deflated) ==
    LET plain_size == PlainSize(id, payload_size)
        data_length == DataLength(plain_size, threshold)
        inner_size == IF data_length.v = 0 THEN plain_size ELSE deflated
        id_bytes == encode_varint(id)
    IN  IF threshold < 0
        THEN [hdr |-> encode_varint(plain_size), first |-> id_bytes,
              second |-> id_bytes, zlib |-> "mismatch"]
        ELSE [hdr |-> encode_varint(data_length.n + inner_size), first |-> data_length,
              second |-> id_bytes,
              zlib |-> IF data_length.v = 0 THEN "mismatch" ELSE "exact"]

\* The frames of a link are the ones its sender builds.
ASSUME FrameAssumption ==
    \A id \in PacketId, size \in PayloadSize, threshold \in Threshold \cup {-1} :
      \A deflated \in Compressed(PlainSize(id, size)) :
        size <= MC_MAX_PACKET => encode_frame(id, size, threshold, deflated) \in Frame

\* encode_frame refuses a payload above MC_MAX_PACKET; the id and the envelope
\* are not counted.  (With that limit no frame comes near INT32_MAX.)
SendPacket(id, payload_size, announced) ==
    /\ Len(wire) < MaxWire
    /\ payload_size <= MC_MAX_PACKET
    /\ \E deflated \in Compressed(PlainSize(id, payload_size)) :
         wire' = Append(wire, encode_frame(id, payload_size, peer_threshold, deflated))
    /\ start' = Append(start, Sent)
    /\ packets' = Append(packets, [id |-> id, size |-> payload_size,
                                   announced |-> announced])
    /\ peer_threshold' = announced
    /\ UNCHANGED <<input, store, mode, status, call, results, reading, received>>

-----------------------------------------------------------------------------
(* The reader. *)

\* The packet read last announced a threshold that is not set yet.
Announced ==
    received # <<>> /\ packets[Len(received)].announced # compression_threshold

\* The first half of read_frame's loop: a feed of no bytes.
MutantReceiveFirst ==
    /\ reading = "top" \/ (reading = "returned" /\ ~Announced)
    /\ ~failed
    /\ reading' = "receive"
    /\ UNCHANGED <<vars, peer_threshold, packets, received>>
FeedBuffered ==
    /\ reading = "top" \/ (reading = "returned" /\ ~Announced)
    /\ FeedAppend(0, 1)
    /\ reading' = "buffered"
    /\ UNCHANGED <<peer_threshold, packets, received>>

\* The second half: receive_some, and a feed of what has come.
FeedChunk ==
    /\ reading = "receive"
    /\ \E size \in 1..MinOf(Chunk, Sent - fed) : FeedRefused(size) \/ FeedAppend(size, 1)
    /\ reading' = "chunk"
    /\ UNCHANGED <<peer_threshold, packets, received>>

FeedStep == FeedIteration /\ UNCHANGED link

\* copy_decoded_frame puts the id in front of the payload again.
MutantPayloadSizeKept(view) ==
    [id |-> Packet(wire[view.frame]).id.v, size |-> view.size - view.id_size]
copy_decoded_frame(view) ==
    [id |-> Packet(wire[view.frame]).id.v, size |-> view.size]

FeedReturns ==
    /\ FeedReturn
    /\ IF emitted = 1
       THEN reading' = "returned" /\ received' = Append(received, copy_decoded_frame(frames[1]))
       ELSE /\ reading' = IF reading = "buffered" THEN "receive" ELSE "top"
            /\ UNCHANGED received
    /\ UNCHANGED <<peer_threshold, packets>>

\* mc_client_set_compression, called for an announcement.
ApplyAnnounced ==
    /\ reading = "returned"
    /\ Announced
    /\ SetCompression(packets[Len(received)].announced)
    /\ UNCHANGED link

-----------------------------------------------------------------------------
LinkInit ==
    /\ Init
    /\ peer_threshold = -1
    /\ packets = <<>> /\ received = <<>>
    /\ reading = "returned"

Reader == FeedBuffered \/ FeedChunk \/ FeedStep \/ FeedReturns \/ ApplyAnnounced

LinkNext ==
    \/ \E id \in PacketId, size \in PayloadSize, announced \in Threshold :
         SendPacket(id, size, announced)
    \/ Reader

\* The reading thread runs on, and bytes that were sent arrive.
LinkSpec == LinkInit /\ [][LinkNext]_linkVars /\ WF_linkVars(Reader)

-----------------------------------------------------------------------------
(* Properties *)

\* What read_frame returns is what was sent: the same packets, each once, in
\* order, with the same id and payload, across every change of the threshold
\* and however the bytes arrive.
PacketsArriveAsSent ==
    /\ Len(received) <= Len(packets)
    /\ \A k \in DOMAIN received : received[k] = [id |-> packets[k].id,
                                                 size |-> packets[k].size]

\* A packet encode_frame took although its frame, or what it inflates to, is
\* above the decoder's limits.
Oversize(k) ==
    \/ wire[k].hdr.v > max_frame_size
    \/ wire[k].zlib = "exact" /\ PlainSize(packets[k].id, packets[k].size) > max_decompressed_size

\* A decoder, strict or not, refuses no frame of encode_frame except one above
\* its limits, or for want of memory (which inflateInit reports as ZLIB): the
\* two ends agree on the threshold at its boundary, the reader changes mode in
\* time, and read_frame never overruns the input buffer.
OnlyOversizeRefused ==
    failed =>
      \/ last_error.code = "OUT_OF_MEMORY"
      \/ /\ last_error.code = "ZLIB"
         /\ wire[Len(delivered) + 1].zlib = "exact"
      \/ /\ last_error.code \in {"FRAME_TOO_LARGE", "DECOMPRESSED_TOO_LARGE"}
         /\ Oversize(Len(delivered) + 1)

\* Every packet sent is returned by read_frame unless the decoder has failed:
\* a frame that came with the one before it is not left in the buffer while
\* read_frame waits for the socket, and no change of mode is refused.
EveryPacketReceived ==
    \A k \in 1..MaxWire : Len(packets) >= k ~> (Len(received) >= k \/ failed)

=============================================================================
