-------------------------- MODULE FrameLinkProofs --------------------------
(***************************************************************************)
(* What encode_frame builds is well formed for the decoder, for every id,  *)
(* size, threshold, limit and width of a VarInt; and what one client sends *)
(* arrives at the other, for every configuration that leaves the reader    *)
(* the room the client's leaves.                                           *)
(***************************************************************************)
EXTENDS FrameLink, StreamDecoderProofs, FiniteSetTheorems

\* encode_varint writes between one byte and the longest VarInt, canonically.
LEMMA VarIntWritten ==
    ASSUME NEW value \in Nat
    PROVE  /\ encode_varint(value).n \in 1..MaxVarInt
           /\ encode_varint(value).v = value
           /\ encode_varint(value).form = "canonical"
  <1> DEFINE more == {k \in 1..(MaxVarInt - 1) : value >= Base^k}
  <1>1. /\ IsFiniteSet(1..(MaxVarInt - 1))
        /\ Cardinality(1..(MaxVarInt - 1)) = MaxVarInt - 1
    <2>1. 1 \in Int /\ MaxVarInt - 1 \in Int
      BY ModelAssumption
    <2> QED
      BY <2>1, ModelAssumption, FS_Interval
  <1>2. more \subseteq 1..(MaxVarInt - 1)
    OBVIOUS
  <1>3. /\ Cardinality(more) \in Nat
        /\ Cardinality(more) <= MaxVarInt - 1
    BY <1>1, <1>2, FS_Subset, FS_CardinalityType
  <1>4. encode_varint(value) = [n |-> 1 + Cardinality(more), v |-> value, form |-> "canonical"]
    BY DEF encode_varint
  <1> QED
    BY <1>3, <1>4, ModelAssumption

\* A packet has at least the byte of its id.
LEMMA PlainSizePositive ==
    ASSUME NEW id \in Nat, NEW payload_size \in Nat
    PROVE  /\ PlainSize(id, payload_size) \in Nat \ {0}
           /\ encode_varint(id).n <= PlainSize(id, payload_size)
BY VarIntWritten, ModelAssumption DEF PlainSize

\* The parts of a frame encode_frame builds: an envelope of size 0 holds the
\* packet as it is, any other one its size and the packet compressed.
Holds(f, id, plain_size, threshold) ==
    /\ f \in FrameType
    /\ Readable(f.hdr, f.hdr.n) /\ f.hdr.v \in Nat \ {0}
    /\ Readable(f.first, f.hdr.v) /\ f.first.v \in Nat
    /\ f.second = encode_varint(id)
    /\ threshold < 0 =>
         /\ f.first = encode_varint(id) /\ f.hdr.v = plain_size
         /\ f.zlib = "mismatch"
    /\ threshold >= 0 /\ f.first.v = 0 =>
         /\ plain_size < threshold /\ f.hdr.v - f.first.n = plain_size
         /\ f.zlib = "mismatch"
    /\ threshold >= 0 /\ f.first.v # 0 =>
         /\ plain_size >= threshold /\ f.first.v = plain_size
         /\ f.zlib = "exact"

LEMMA EncodedShape ==
    ASSUME NEW id \in Nat, NEW payload_size \in Nat, NEW threshold \in Int,
           NEW deflated \in Compressed(PlainSize(id, payload_size))
    PROVE  Holds(encode_frame(id, payload_size, threshold, deflated), id,
                 PlainSize(id, payload_size), threshold)
  <1> DEFINE plain_size == PlainSize(id, payload_size)
             f == encode_frame(id, payload_size, threshold, deflated)
             id_bytes == encode_varint(id)
  <1>1. /\ plain_size \in Nat \ {0}
        /\ id_bytes.n <= plain_size
        /\ id_bytes.n \in 1..MaxVarInt /\ id_bytes.v = id /\ id_bytes.form = "canonical"
    BY PlainSizePositive, VarIntWritten
  <1>2. deflated \in Nat \ {0}
    BY <1>1 DEF Compressed
  <1>3. \A v \in Nat : encode_varint(v) \in VarInt
    <2> SUFFICES ASSUME NEW v \in Nat PROVE encode_varint(v) \in VarInt
      OBVIOUS
    <2>1. encode_varint(v) = [n |-> encode_varint(v).n, v |-> v, form |-> "canonical"]
      BY DEF encode_varint
    <2> QED
      BY <2>1, VarIntWritten DEF VarInt
  <1> HIDE DEF plain_size, id_bytes, f
  <1> SUFFICES Holds(f, id, plain_size, threshold)
    BY DEF f, plain_size
  <1>4. CASE threshold < 0
    <2>1. f = [hdr |-> encode_varint(plain_size), first |-> id_bytes,
               second |-> id_bytes, zlib |-> "mismatch"]
      BY <1>4 DEF f, encode_frame, plain_size, id_bytes
    <2>2. /\ f.hdr.v = plain_size /\ f.hdr.form = "canonical" /\ f.hdr.n \in 1..MaxVarInt
          /\ f.first = id_bytes /\ f.second = id_bytes /\ f.zlib = "mismatch"
      BY <2>1, <1>1, VarIntWritten
    <2>3. f \in FrameType
      BY <1>1, <1>3, <2>1 DEF FrameType, id_bytes
    <2>4. Readable(f.hdr, f.hdr.n) /\ Readable(f.first, f.hdr.v)
      BY <1>1, <2>2 DEF Readable
    <2> QED
      BY <1>1, <1>4, <2>2, <2>3, <2>4 DEF Holds, id_bytes
  <1>5. CASE threshold >= 0 /\ plain_size < threshold
    <2>1. f = [hdr |-> encode_varint(encode_varint(0).n + plain_size),
               first |-> encode_varint(0), second |-> id_bytes, zlib |-> "mismatch"]
      <3>1. DataLength(plain_size, threshold) = encode_varint(0) /\ encode_varint(0).v = 0
        BY <1>5, <1>1, VarIntWritten DEF DataLength
      <3> QED
        BY <3>1, <1>5 DEF f, encode_frame, plain_size, id_bytes
    <2>2. /\ encode_varint(0).n \in 1..MaxVarInt /\ encode_varint(0).v = 0
          /\ encode_varint(0).form = "canonical"
      BY VarIntWritten
    <2>3. encode_varint(0).n + plain_size \in Nat \ {0}
      BY <2>2, <1>1, ModelAssumption
    <2>4. /\ f.hdr.v = f.first.n + plain_size /\ f.hdr.form = "canonical"
          /\ f.hdr.n \in 1..MaxVarInt
          /\ f.first.n \in 1..MaxVarInt /\ f.first.v = 0 /\ f.first.form = "canonical"
          /\ f.second = id_bytes /\ f.zlib = "mismatch"
      BY <2>1, <2>2, <2>3, VarIntWritten
    <2>5. f \in FrameType
      BY <1>1, <1>3, <2>1, <2>3 DEF FrameType, id_bytes
    <2>6. Readable(f.hdr, f.hdr.n) /\ Readable(f.first, f.hdr.v)
      BY <1>1, <2>4 DEF Readable
    <2>7. f.hdr.v \in Nat \ {0} /\ f.hdr.v - f.first.n = plain_size
      BY <1>1, <2>4, ModelAssumption
    <2> QED
      BY <1>1, <1>5, <2>4, <2>5, <2>6, <2>7 DEF Holds, id_bytes
  <1>6. CASE threshold >= 0 /\ plain_size >= threshold
    <2>1. f = [hdr |-> encode_varint(encode_varint(plain_size).n + deflated),
               first |-> encode_varint(plain_size), second |-> id_bytes, zlib |-> "exact"]
      <3>1. /\ DataLength(plain_size, threshold) = encode_varint(plain_size)
            /\ encode_varint(plain_size).v # 0
        BY <1>6, <1>1, VarIntWritten DEF DataLength
      <3> QED
        BY <3>1, <1>6 DEF f, encode_frame, plain_size, id_bytes
    <2>2. /\ encode_varint(plain_size).n \in 1..MaxVarInt
          /\ encode_varint(plain_size).v = plain_size
          /\ encode_varint(plain_size).form = "canonical"
      BY VarIntWritten, <1>1
    <2>3. encode_varint(plain_size).n + deflated \in Nat \ {0}
      BY <2>2, <1>2, ModelAssumption
    <2>4. /\ f.hdr.v = f.first.n + deflated /\ f.hdr.form = "canonical"
          /\ f.hdr.n \in 1..MaxVarInt
          /\ f.first.n \in 1..MaxVarInt /\ f.first.v = plain_size
          /\ f.first.form = "canonical"
          /\ f.second = id_bytes /\ f.zlib = "exact"
      BY <2>1, <2>2, <2>3, VarIntWritten
    <2>5. f \in FrameType
      BY <1>1, <1>3, <2>1, <2>3 DEF FrameType, id_bytes
    <2>6. Readable(f.hdr, f.hdr.n) /\ Readable(f.first, f.hdr.v)
      BY <1>2, <2>4 DEF Readable
    <2>7. f.hdr.v \in Nat \ {0}
      BY <2>3, <2>4, ModelAssumption, <1>2
    <2> QED
      BY <1>1, <1>6, <2>4, <2>5, <2>6, <2>7 DEF Holds, id_bytes
  <1> QED
    BY <1>1, <1>4, <1>5, <1>6

\* Every frame encode_frame builds is one the protocol allows at the threshold
\* it was built for, strict decoding included, unless the frame or what it
\* inflates to is above the decoder's limits.  encode_frame itself checks only
\* the payload against MC_MAX_PACKET, so the two limits are hypotheses.
THEOREM EncodedFramesWellFormed ==
    ASSUME NEW id \in Nat, NEW payload_size \in Nat, NEW threshold \in Int,
           NEW deflated \in Compressed(PlainSize(id, payload_size)),
           encode_frame(id, payload_size, threshold, deflated).hdr.v <= max_frame_size,
           threshold >= 0 /\ PlainSize(id, payload_size) >= threshold
             => PlainSize(id, payload_size) <= max_decompressed_size
    PROVE  WellFormed(encode_frame(id, payload_size, threshold, deflated), threshold)
  <1> DEFINE plain_size == PlainSize(id, payload_size)
             f == encode_frame(id, payload_size, threshold, deflated)
  <1>1. /\ plain_size \in Nat \ {0} /\ encode_varint(id).n <= plain_size
        /\ encode_varint(id).v = id /\ encode_varint(id).form = "canonical"
    BY PlainSizePositive, VarIntWritten
  <1>2. Readable(encode_varint(id), plain_size) /\ encode_varint(id).v >= 0
    BY <1>1 DEF Readable
  <1>3. f.hdr.v <= max_frame_size /\ f.hdr.v \in Nat \ {0}
    BY EncodedShape DEF Holds
  <1>4. f.hdr.v \in 1..max_frame_size
    BY <1>3, ConfigAssumption
  <1>5. /\ Readable(f.hdr, f.hdr.n) /\ Readable(f.first, f.hdr.v) /\ f.first.v \in Nat
        /\ f.second = encode_varint(id)
    BY EncodedShape DEF Holds
  <1> HIDE DEF f, plain_size
  <1> SUFFICES WellFormed(f, threshold)
    BY DEF f
  <1>6. CASE threshold < 0
    BY <1>4, <1>5, <1>6 DEF WellFormed
  <1>7. CASE threshold >= 0 /\ f.first.v = 0
    <2>1. plain_size < threshold /\ f.hdr.v - f.first.n = plain_size
      BY <1>7, EncodedShape DEF Holds, f, plain_size
    <2> QED
      BY <1>2, <1>4, <1>5, <1>7, <2>1 DEF WellFormed
  <1>8. CASE threshold >= 0 /\ f.first.v # 0
    <2>1. /\ plain_size >= threshold /\ f.first.v = plain_size /\ f.zlib = "exact"
          /\ plain_size <= max_decompressed_size
      BY <1>8, EncodedShape DEF Holds, f, plain_size
    <2>2. f.first.v \in 1..max_decompressed_size
      BY <1>1, <2>1, ConfigAssumption
    <2> QED
      BY <1>2, <1>4, <1>5, <1>8, <2>1, <2>2 DEF WellFormed
  <1> QED
    BY <1>5, <1>6, <1>7, <1>8

\* The decoder, set to the threshold the frame was built for, refuses such a
\* frame only as too large, and finds in any other one the packet that was sent.
LEMMA EncodedAccepted ==
    ASSUME NEW id \in Nat, NEW payload_size \in Nat, compression_threshold \in Int,
           NEW deflated \in Compressed(PlainSize(id, payload_size)),
           NEW f, f = encode_frame(id, payload_size, compression_threshold, deflated),
           NEW avail \in Int, ~Incomplete(f, avail)
    PROVE  /\ HeaderError(f, avail) # Sound =>
                /\ HeaderError(f, avail).code = "FRAME_TOO_LARGE"
                /\ f.hdr.v > max_frame_size
           /\ HeaderError(f, avail) = Sound /\ EnvelopeError(f) # Sound =>
                /\ EnvelopeError(f).code = "DECOMPRESSED_TOO_LARGE"
                /\ f.zlib = "exact" /\ PlainSize(id, payload_size) > max_decompressed_size
           /\ HeaderError(f, avail) = Sound /\ EnvelopeError(f) = Sound =>
                /\ PacketError(Packet(f), f.zlib) = Sound
                /\ Packet(f).compressed => f.zlib = "exact"
                /\ Packet(f).id.v = id
                /\ Packet(f).size - Packet(f).id.n = payload_size
                /\ Packet(f).size \in 0..max_output_size
  <1> DEFINE plain_size == PlainSize(id, payload_size)
             threshold == compression_threshold
  <1>1. Holds(f, id, plain_size, threshold)
    BY EncodedShape
  <1>2. /\ plain_size \in Nat \ {0}
        /\ encode_varint(id).n \in Nat /\ encode_varint(id).v = id
        /\ plain_size = encode_varint(id).n + payload_size
    BY PlainSizePositive, VarIntWritten, ModelAssumption DEF PlainSize
  <1>3. /\ f.hdr \in VarInt /\ f.first \in VarInt /\ f.hdr.n \in Nat /\ f.first.n \in Nat
        /\ f.hdr.v \in Int /\ f.first.v \in Int
    BY <1>1, ModelAssumption DEF Holds, FrameType, VarInt
  <1>4. stream_varint(f.hdr, avail) = "COMPLETE" /\ stream_varint(f.first, f.hdr.v) = "COMPLETE"
    <2>1. stream_varint(f.hdr, avail) # "PARTIAL"
      BY DEF Incomplete
    <2>2. ~Invalid(stream_varint(f.hdr, avail))
      BY <1>1, <1>3, <2>1, VarIntReadable DEF Holds, Readable, Invalid, stream_varint
    <2> QED
      BY <1>1, <1>3, <2>1, <2>2, VarIntReadable DEF Holds
  <1>5. ~Invalid("COMPLETE")
    BY DEF Invalid
  <1>6. HeaderError(f, avail) = IF f.hdr.v > max_frame_size THEN ErrorAt("FRAME_TOO_LARGE", 0)
                                ELSE Sound
    BY <1>1, <1>4, <1>5 DEF Holds, HeaderError
  <1>7. HeaderError(f, avail) # Sound =>
          HeaderError(f, avail).code = "FRAME_TOO_LARGE" /\ f.hdr.v > max_frame_size
    BY <1>6, ErrorCode
  <1>8. HeaderError(f, avail) = Sound => f.hdr.v <= max_frame_size
    BY <1>3, <1>6, ErrorCode, ConfigAssumption
  <1>9. EnvelopeError(f) # Sound =>
          /\ EnvelopeError(f).code = "DECOMPRESSED_TOO_LARGE"
          /\ f.zlib = "exact" /\ plain_size > max_decompressed_size
    <2> SUFFICES ASSUME EnvelopeError(f) # Sound
                 PROVE  /\ EnvelopeError(f).code = "DECOMPRESSED_TOO_LARGE"
                        /\ f.zlib = "exact" /\ plain_size > max_decompressed_size
      OBVIOUS
    <2>1. threshold >= 0
      BY DEF EnvelopeError
    <2>2. ~(IF f.first.v = 0 THEN f.hdr.v - f.first.n >= threshold ELSE f.first.v < threshold)
      BY <1>1, <1>2, <2>1 DEF Holds
    <2>3. EnvelopeError(f) = IF f.first.v > max_decompressed_size
                             THEN ErrorAt("DECOMPRESSED_TOO_LARGE", f.hdr.n)
                             ELSE Sound
      BY <1>1, <1>4, <1>5, <2>1, <2>2 DEF Holds, EnvelopeError
    <2>4. f.first.v > max_decompressed_size /\ f.first.v # 0
      BY <2>3, ConfigAssumption
    <2> QED
      BY <1>1, <2>1, <2>3, <2>4, ErrorCode DEF Holds
  <1>10. ASSUME HeaderError(f, avail) = Sound, EnvelopeError(f) = Sound
         PROVE  /\ PacketError(Packet(f), f.zlib) = Sound
                /\ Packet(f).compressed => f.zlib = "exact"
                /\ Packet(f).id.v = id
                /\ Packet(f).size - Packet(f).id.n = payload_size
                /\ Packet(f).size \in 0..max_output_size
    <2>1. f.hdr.v \in 1..max_frame_size
      BY <1>1, <1>8, <1>10, ConfigAssumption DEF Holds
    <2>2. threshold >= 0 => f.first.v <= max_decompressed_size
      BY <1>1, <1>10, <2>1, EnvelopeVerdict DEF Holds, EnvelopeWellFormed
    <2>3. threshold >= 0 /\ plain_size >= threshold => plain_size <= max_decompressed_size
      BY <1>1, <1>2, <2>2 DEF Holds
    <2>4. WellFormed(f, threshold)
      BY <1>8, <1>10, <2>3, EncodedFramesWellFormed
    <2>5. PacketError(Packet(f), f.zlib) = Sound
      BY <1>1, <2>4, FrameVerdict DEF Holds
    <2>6. /\ Packet(f).compressed => f.zlib = "exact"
          /\ Packet(f).id = encode_varint(id)
          /\ Packet(f).size = plain_size
      <3>1. CASE threshold < 0
        BY <1>1, <3>1 DEF Holds, Packet
      <3>2. CASE ~(threshold < 0)
        <4> DEFINE p == Packet(f)
        <4>1. p = [size |-> IF f.first.v = 0 THEN f.hdr.v - f.first.n ELSE f.first.v,
                   id |-> f.second, at |-> f.hdr.n + f.first.n,
                   compressed |-> f.first.v # 0]
          BY <3>2, Zenon DEF Packet
        <4> HIDE DEF p
        <4>2. /\ p.size = IF f.first.v = 0 THEN f.hdr.v - f.first.n ELSE f.first.v
              /\ p.id = f.second
              /\ p.compressed <=> f.first.v # 0
          BY <4>1, Zenon
        <4> QED
          BY <1>1, <3>2, <4>2 DEF Holds, p
      <3> QED
        BY <3>1, <3>2
    <2>7. plain_size <= max_output_size
      <3>1. CASE threshold < 0
        BY <1>1, <2>1, <3>1, ConfigAssumption, ClientAssumption DEF Holds
      <3>2. CASE threshold >= 0 /\ f.first.v = 0
        BY <1>1, <1>2, <1>3, <2>1, <3>2, ConfigAssumption, ClientAssumption DEF Holds
      <3>3. CASE threshold >= 0 /\ f.first.v # 0
        BY <1>1, <1>2, <2>2, <3>3, ConfigAssumption DEF Holds
      <3> QED
        BY <3>1, <3>2, <3>3
    <2> QED
      BY <1>2, <2>5, <2>6, <2>7, ConfigAssumption
  <1> QED
    BY <1>7, <1>9, <1>10

-----------------------------------------------------------------------------
(***************************************************************************)
(* The inductive invariant of the link.  It adds to the decoder's what     *)
(* read_frame knows: how many packets it has returned, in which mode the   *)
(* frame behind them was built, and that at its receive_some only part of  *)
(* a frame is buffered.                                                    *)
(***************************************************************************)
Sending == [id : PacketId, size : PayloadSize, announced : Threshold]

LinkType ==
    /\ peer_threshold \in Threshold \cup {-1}
    /\ packets \in Seq(Sending)
    /\ reading \in {"top", "returned", "buffered", "receive", "chunk"}
    /\ received \in Seq([id : PacketId, size : PayloadSize])

\* The threshold behind the first n packets, for which packet n + 1 is built.
Behind(n) == IF n = 0 THEN -1 ELSE packets[n].announced

\* f is a frame of packet q at a threshold.
Encodes(f, q, threshold) ==
    \E deflated \in Compressed(PlainSize(q.id, q.size)) :
      f = encode_frame(q.id, q.size, threshold, deflated)

SentInv ==
    /\ Len(packets) = Len(wire)
    /\ peer_threshold = Behind(Len(packets))
    /\ \A k \in 1..Len(wire) : Encodes(wire[k], packets[k], Behind(k - 1))

\* The packet as read_frame returns it.
Returned(k) == [id |-> packets[k].id, size |-> packets[k].size]

\* A feed of read_frame takes one frame at most, which is the next packet.
FeedsInv ==
    /\ pc = "loop" <=> reading \in {"buffered", "chunk"} /\ ~failed
    /\ pc = "idle" => Len(delivered) = Len(received)
    /\ pc = "loop" =>
         /\ frame_capacity = 1
         /\ \/ frames = <<>> /\ output_size = 0 /\ Len(delivered) = Len(received)
            \/ /\ Len(frames) = 1 /\ Len(delivered) = Len(received) + 1
               /\ frames[1].frame = Len(delivered)
               /\ copy_decoded_frame(frames[1]) = Returned(Len(delivered))

\* The decoder is in the mode of the next frame whenever it may look at it.
ModeInv ==
    reading # "returned" \/ received = <<>> => compression_threshold = Behind(Len(received))

\* The part of a frame that is left in the buffer leaves room for a chunk.
RoomInv == reading = "receive" => buffer_size <= max_frame_size + MaxVarInt - 1

ArrivedInv == \A k \in 1..Len(received) : received[k] = Returned(k)

\* A failure other than for want of memory is about a frame that was sent.
FailInv ==
    /\ failed /\ last_error.code # "OUT_OF_MEMORY" => Len(delivered) + 1 <= Len(wire)
    /\ OnlyOversizeRefused

LinkInv ==
    /\ LinkType /\ SentInv /\ FeedsInv /\ ModeInv /\ RoomInv /\ ArrivedInv /\ FailInv

LinkIInv == IInv /\ CallInv /\ NothingTaken /\ LinkInv

\* What the invariant says of the counts, and of the packets sent.
LEMMA LinkFacts ==
    ASSUME LinkIInv
    PROVE  /\ TypeOK /\ Position
           /\ Len(wire) \in Nat /\ Len(packets) = Len(wire)
           /\ Len(delivered) \in Nat /\ Len(received) \in Nat /\ Len(frames) \in Nat
           /\ Len(received) <= Len(delivered) /\ Len(delivered) <= Len(wire)
           /\ Len(delivered) <= Len(received) + 1
           /\ received = <<>> <=> Len(received) = 0
           /\ \A k \in 1..Len(packets) :
                /\ packets[k] \in Sending
                /\ packets[k].id \in PacketId /\ packets[k].id \in Nat
                /\ packets[k].size \in PayloadSize /\ packets[k].size \in Nat
                /\ packets[k].announced \in Threshold /\ packets[k].announced \in Int
           /\ \A k \in 0..Len(packets) : Behind(k) \in Int
  <1>1. TypeOK /\ Position /\ LinkType /\ Len(packets) = Len(wire)
        /\ FeedsInv /\ Len(delivered) <= Len(wire)
    BY DEF LinkIInv, IInv, LinkInv, SentInv, FramesInOrder
  <1>2. /\ Len(wire) \in Nat /\ Len(delivered) \in Nat /\ Len(received) \in Nat
        /\ Len(frames) \in Nat /\ pc \in {"idle", "loop"}
        /\ received = <<>> <=> Len(received) = 0
    BY <1>1 DEF TypeOK, LinkType
  <1>3. Len(delivered) = Len(received) \/ Len(delivered) = Len(received) + 1
    BY <1>1, <1>2 DEF FeedsInv
  <1>4. ASSUME NEW k \in 1..Len(packets)
        PROVE  /\ packets[k] \in Sending
               /\ packets[k].id \in PacketId /\ packets[k].id \in Nat
               /\ packets[k].size \in PayloadSize /\ packets[k].size \in Nat
               /\ packets[k].announced \in Threshold /\ packets[k].announced \in Int
    <2>1. packets[k] \in Sending
      BY <1>1 DEF LinkType
    <2> QED
      BY <2>1, LinkAssumption, ModelAssumption DEF Sending
  <1>5. \A k \in 0..Len(packets) : Behind(k) \in Int
    BY <1>1, <1>2, <1>4 DEF Behind
  <1> QED
    BY <1>1, <1>2, <1>3, <1>4, <1>5

\* The frames on the wire are encoded packets, so a step of the sender is one of
\* the peer, and the reader's are calls of the decoder.
LEMMA DecoderStep ==
    ASSUME LinkIInv, [LinkNext]_linkVars
    PROVE  [Next]_vars
  <1>0. /\ Sent \in Nat /\ fed \in Nat /\ fed <= Sent
    BY SentNat, LinkFacts DEF TypeOK, Position
  <1>1. ASSUME NEW id \in PacketId, NEW size \in PayloadSize, NEW announced \in Threshold,
               SendPacket(id, size, announced)
        PROVE  PeerSend
    <2>1. PICK deflated \in Compressed(PlainSize(id, size)) :
            wire' = Append(wire, encode_frame(id, size, peer_threshold, deflated))
      BY <1>1 DEF SendPacket
    <2>2. peer_threshold \in Threshold \cup {-1} /\ size <= MC_MAX_PACKET
      BY <1>1 DEF SendPacket, LinkIInv, LinkInv, LinkType
    <2>3. encode_frame(id, size, peer_threshold, deflated) \in Frame
      BY <2>1, <2>2, FrameAssumption
    <2> QED
      BY <1>1, <2>1, <2>3 DEF SendPacket, PeerSend
  <1>2. CASE FeedBuffered
    <2>1. FeedAppend(0, 1) /\ 0 \in 0..(Sent - fed) /\ 1 \in FrameCapacity
      BY <1>0, <1>2, LinkAssumption DEF FeedBuffered
    <2> QED
      BY <2>1 DEF Feed, Next
  <1>3. CASE FeedChunk
    <2>1. PICK size \in 1..MinOf(Chunk, Sent - fed) : FeedRefused(size) \/ FeedAppend(size, 1)
      BY <1>3 DEF FeedChunk
    <2>2. size \in 0..(Sent - fed) /\ 1 \in FrameCapacity
      BY <1>0, <2>1, LinkAssumption DEF MinOf
    <2> QED
      BY <2>1, <2>2 DEF Feed, Next
  <1>4. CASE FeedStep \/ FeedReturns
    BY <1>4 DEF FeedStep, FeedReturns, Next
  <1>5. CASE ApplyAnnounced
    <2>1. packets[Len(received)].announced \in Threshold
      BY <1>5, LinkFacts DEF ApplyAnnounced, Announced
    <2>2. \E threshold \in Threshold : SetCompression(threshold)
      BY <1>5, <2>1 DEF ApplyAnnounced, SetCompression
    <2> QED
      BY <2>2 DEF Next
  <1>6. CASE UNCHANGED linkVars
    BY <1>6 DEF linkVars
  <1>7. PeerSend => Next
    BY DEF Next
  <1> QED
    BY <1>1, <1>2, <1>3, <1>4, <1>5, <1>6, <1>7 DEF LinkNext, Reader

\* What encode_frame appends.
LEMMA SendFacts ==
    ASSUME LinkIInv, NEW id \in PacketId, NEW size \in PayloadSize,
           NEW announced \in Threshold, SendPacket(id, size, announced)
    PROVE  LET n == Len(wire) IN
           /\ Len(wire') = n + 1 /\ Len(packets') = n + 1
           /\ packets' \in Seq(Sending)
           /\ \A k \in 1..n : wire'[k] = wire[k] /\ packets'[k] = packets[k]
           /\ packets'[n + 1].announced = announced
           /\ Encodes(wire'[n + 1], packets'[n + 1], peer_threshold)
           /\ peer_threshold' = announced
           /\ UNCHANGED <<input, store, mode, status, call, results, reading, received>>
  <1> DEFINE n == Len(wire)
             packet == [id |-> id, size |-> size, announced |-> announced]
  <1>1. PICK deflated \in Compressed(PlainSize(id, size)) :
          wire' = Append(wire, encode_frame(id, size, peer_threshold, deflated))
    BY DEF SendPacket
  <1>2. packets' = Append(packets, packet)
    BY DEF SendPacket
  <1>3. /\ packet \in Sending /\ packet.id = id /\ packet.size = size
        /\ packet.announced = announced
    BY DEF Sending
  <1> HIDE DEF packet
  <1>4. /\ packets \in Seq(Sending) /\ Len(packets) = n /\ n \in Nat /\ wire \in Seq(Frame)
    BY LinkFacts DEF LinkIInv, LinkInv, LinkType, TypeOK
  <1>5. /\ Len(packets') = n + 1 /\ packets' \in Seq(Sending)
        /\ \A k \in 1..n : packets'[k] = packets[k]
        /\ packets'[n + 1] = packet
    BY <1>2, <1>3, <1>4
  <1>6. /\ Len(wire') = n + 1
        /\ \A k \in 1..n : wire'[k] = wire[k]
        /\ wire'[n + 1] = encode_frame(id, size, peer_threshold, deflated)
    BY <1>1, <1>4
  <1>7. Encodes(wire'[n + 1], packets'[n + 1], peer_threshold)
    BY <1>3, <1>5, <1>6 DEF Encodes
  <1>8. /\ peer_threshold' = announced
        /\ UNCHANGED <<input, store, mode, status, call, results, reading, received>>
    BY DEF SendPacket
  <1> QED
    BY <1>3, <1>5, <1>6, <1>7, <1>8

\* The sender's step: everything the reader looks at stays where it is.
LEMMA SendKeeps ==
    ASSUME LinkIInv, NEW id \in PacketId, NEW size \in PayloadSize,
           NEW announced \in Threshold, SendPacket(id, size, announced)
    PROVE  LinkInv'
  <1> USE DEF input, store, mode, status, call, results
  <1> DEFINE n == Len(wire)
  <1>1. /\ Len(wire') = n + 1 /\ Len(packets') = n + 1
        /\ packets' \in Seq(Sending)
        /\ \A k \in 1..n : wire'[k] = wire[k] /\ packets'[k] = packets[k]
        /\ packets'[n + 1].announced = announced
        /\ Encodes(wire'[n + 1], packets'[n + 1], peer_threshold)
        /\ peer_threshold' = announced
        /\ UNCHANGED <<input, store, mode, status, call, results, reading, received>>
    BY SendFacts
  <1>2. /\ n \in Nat /\ Len(packets) = n
        /\ Len(delivered) \in Nat /\ Len(received) \in Nat /\ Len(frames) \in Nat
        /\ Len(received) <= Len(delivered) /\ Len(delivered) <= n
        /\ received = <<>> <=> Len(received) = 0
    BY LinkFacts
  <1>3. LinkType /\ SentInv /\ FeedsInv /\ ModeInv /\ RoomInv /\ ArrivedInv /\ FailInv
    BY DEF LinkIInv, LinkInv
  <1> HIDE DEF n
  <1>4. LinkType'
    BY <1>1, <1>3 DEF LinkType
  <1>5. \A k \in 0..n : Behind(k)' = Behind(k)
    <2> SUFFICES ASSUME NEW k \in 0..n
                 PROVE  (IF k = 0 THEN -1 ELSE packets'[k].announced) = Behind(k)
      BY DEF Behind
    <2> QED
      BY <1>1, <1>2 DEF Behind
  <1>6. SentInv'
    <2>1. (peer_threshold = Behind(Len(packets)))'
      BY <1>1, <1>2 DEF Behind
    <2>2. ASSUME NEW k \in 1..(n + 1)
          PROVE  Encodes(wire'[k], packets'[k],
                         IF k - 1 = 0 THEN -1 ELSE packets'[k - 1].announced)
      <3>1. (IF k - 1 = 0 THEN -1 ELSE packets'[k - 1].announced) = Behind(k - 1)
        BY <1>2, <1>5 DEF Behind
      <3>2. CASE k \in 1..n
        BY <1>1, <1>2, <1>3, <3>1, <3>2 DEF SentInv, n
      <3>3. CASE k = n + 1
        BY <1>1, <1>2, <1>3, <3>1, <3>3 DEF SentInv
      <3> QED
        BY <1>2, <3>2, <3>3
    <2> QED
      BY <1>1, <2>1, <2>2 DEF SentInv, Behind
  <1>7. FeedsInv'
    <2>1. Len(delivered) = Len(received) + 1 =>
            /\ wire'[Len(delivered)] = wire[Len(delivered)]
            /\ packets'[Len(delivered)] = packets[Len(delivered)]
      BY <1>1, <1>2
    <2>2. pc = "loop" /\ frames # <<>> =>
            /\ wire'[frames[1].frame] = wire[frames[1].frame]
            /\ packets'[Len(delivered)] = packets[Len(delivered)]
      BY <1>3, <2>1 DEF FeedsInv
    <2> QED
      BY <1>1, <1>3, <2>2 DEF FeedsInv, copy_decoded_frame, Packet, Returned
  <1>8. ModeInv'
    <2>1. Behind(Len(received))' = Behind(Len(received))
      BY <1>1, <1>2, <1>5 DEF Behind
    <2> QED
      BY <1>1, <1>3, <2>1 DEF ModeInv
  <1>9. RoomInv'
    BY <1>1, <1>3 DEF RoomInv
  <1>10. ArrivedInv'
    BY <1>1, <1>2, <1>3 DEF ArrivedInv, Returned
  <1>11. FailInv'
    <2>1. CASE failed /\ last_error.code # "OUT_OF_MEMORY"
      <3>1. Len(delivered) + 1 \in 1..n
        BY <1>2, <1>3, <2>1 DEF FailInv, n
      <3>2. /\ wire'[Len(delivered) + 1] = wire[Len(delivered) + 1]
            /\ packets'[Len(delivered) + 1] = packets[Len(delivered) + 1]
        BY <1>1, <3>1
      <3> QED
        BY <1>1, <1>2, <1>3, <2>1, <3>1, <3>2 DEF FailInv, OnlyOversizeRefused, Oversize
    <2>2. CASE ~(failed /\ last_error.code # "OUT_OF_MEMORY")
      BY <1>1, <2>2 DEF FailInv, OnlyOversizeRefused
    <2> QED
      BY <2>1, <2>2
  <1> QED
    BY <1>4, <1>6, <1>7, <1>8, <1>9, <1>10, <1>11 DEF LinkInv

\* What the reader leaves alone keeps what is known of the sender.
LEMMA SentKept ==
    ASSUME SentInv, UNCHANGED <<wire, packets, peer_threshold>>
    PROVE  SentInv' /\ \A k \in Nat : Behind(k)' = Behind(k) /\ Returned(k)' = Returned(k)
  BY DEF SentInv, Behind, Returned

\* read_frame's feed of no bytes.
LEMMA BufferedKeeps ==
    ASSUME LinkIInv, FeedBuffered
    PROVE  LinkInv'
  <1>1. /\ pc = "idle" /\ ~failed /\ pc' = "loop" /\ frame_capacity' = 1
        /\ output_size' = 0 /\ frames' = <<>> /\ reading' = "buffered"
        /\ UNCHANGED <<wire, packets, peer_threshold, received, delivered,
                       compression_threshold, failed, last_error>>
    BY DEF FeedBuffered, FeedAppend, peer, status
  <1>2. LinkType /\ SentInv /\ FeedsInv /\ ModeInv /\ RoomInv /\ ArrivedInv /\ FailInv
    BY DEF LinkIInv, LinkInv
  <1>3. /\ Len(received) \in Nat /\ (received = <<>> <=> Len(received) = 0)
    BY LinkFacts
  <1>4. compression_threshold = Behind(Len(received))
    <2>1. CASE reading # "returned" \/ received = <<>>
      BY <1>2, <2>1 DEF ModeInv
    <2>2. CASE reading = "returned" /\ received # <<>>
      BY <1>3, <2>2 DEF FeedBuffered, Announced, Behind
    <2> QED
      BY <2>1, <2>2
  <1>5. LinkType' /\ FeedsInv' /\ RoomInv' /\ FailInv'
    BY <1>1, <1>2 DEF LinkType, FeedsInv, RoomInv, FailInv, OnlyOversizeRefused
  <1>6. SentInv' /\ ModeInv' /\ ArrivedInv'
    BY <1>1, <1>2, <1>3, <1>4, SentKept DEF ModeInv, ArrivedInv, Behind, Returned
  <1> QED
    BY <1>5, <1>6 DEF LinkInv

\* read_frame's feed of what receive_some brought: there is room for a chunk, so
\* it fails only for want of memory.
LEMMA ChunkKeeps ==
    ASSUME LinkIInv, FeedChunk
    PROVE  LinkInv'
  <1>1. PICK size \in 1..MinOf(Chunk, Sent - fed) : FeedRefused(size) \/ FeedAppend(size, 1)
    BY DEF FeedChunk
  <1>2. /\ reading = "receive" /\ reading' = "chunk"
        /\ UNCHANGED <<packets, peer_threshold, received>>
    BY DEF FeedChunk
  <1>3. LinkType /\ SentInv /\ FeedsInv /\ ModeInv /\ RoomInv /\ ArrivedInv /\ FailInv
    BY DEF LinkIInv, LinkInv
  <1>4. /\ Sent \in Nat /\ fed \in Nat /\ buffer_size \in Nat
        /\ Len(received) \in Nat /\ (received = <<>> <=> Len(received) = 0)
    BY SentNat, LinkFacts, ConfigAssumption DEF TypeOK
  <1>5. size \in Nat /\ size <= Chunk
    BY <1>1, <1>4, LinkAssumption DEF MinOf
  <1>6. size <= max_buffered_size - buffer_size
    <2>1. buffer_size <= max_frame_size + MaxVarInt - 1
      BY <1>2, <1>3 DEF RoomInv
    <2> QED
      BY <1>4, <1>5, <2>1, ConfigAssumption, ModelAssumption, LinkAssumption, ClientAssumption
  <1>7. CASE FeedRefused(size)
    <2>1. /\ pc = "idle" /\ ~failed /\ pc' = pc /\ failed'
          /\ last_error'.code = "OUT_OF_MEMORY"
          /\ frames' = <<>>
          /\ UNCHANGED <<wire, delivered, compression_threshold>>
      <3>1. ~(size > max_buffered_size - buffer_size)
        BY <1>4, <1>5, <1>6, ConfigAssumption
      <3>2. /\ pc = "idle" /\ ~failed
            /\ stream_fail("OUT_OF_MEMORY", stream_absolute_offset(buffer_size))
            /\ frames' = <<>>
            /\ UNCHANGED <<wire, delivered, compression_threshold, pc>>
        BY <1>7, <3>1 DEF FeedRefused, peer, call
      <3> QED
        BY <3>2 DEF stream_fail
    <2>2. LinkType' /\ FeedsInv' /\ RoomInv' /\ FailInv'
      BY <1>2, <1>3, <2>1 DEF LinkType, FeedsInv, RoomInv, FailInv, OnlyOversizeRefused
    <2>3. SentInv' /\ ModeInv' /\ ArrivedInv'
      BY <1>2, <1>3, <1>4, <2>1, SentKept DEF ModeInv, ArrivedInv, Behind, Returned
    <2> QED
      BY <2>2, <2>3 DEF LinkInv
  <1>8. CASE FeedAppend(size, 1)
    <2>1. /\ pc = "idle" /\ ~failed /\ pc' = "loop" /\ frame_capacity' = 1
          /\ output_size' = 0 /\ frames' = <<>>
          /\ UNCHANGED <<wire, delivered, compression_threshold, failed, last_error>>
      BY <1>8 DEF FeedAppend, peer, status
    <2>2. LinkType' /\ FeedsInv' /\ RoomInv' /\ FailInv'
      BY <1>2, <1>3, <2>1 DEF LinkType, FeedsInv, RoomInv, FailInv, OnlyOversizeRefused
    <2>3. SentInv' /\ ModeInv' /\ ArrivedInv'
      BY <1>2, <1>3, <1>4, <2>1, SentKept DEF ModeInv, ArrivedInv, Behind, Returned
    <2> QED
      BY <2>2, <2>3 DEF LinkInv
  <1> QED
    BY <1>1, <1>7, <1>8

\* What an iteration does at frame i, the next one: it fails for want of memory,
\* or because the frame is too large, or emits the packet that was sent.
LEMMA IterationAtFrame ==
    ASSUME LinkIInv, FeedIteration
    PROVE  LET i == Len(delivered) + 1 IN
           /\ i <= Len(wire)
           /\ \/ /\ pc' = "idle" /\ failed'
                 /\ UNCHANGED delivered
                 /\ \/ last_error'.code = "OUT_OF_MEMORY"
                    \/ last_error'.code = "ZLIB" /\ wire[i].zlib = "exact"
                    \/ /\ last_error'.code \in {"FRAME_TOO_LARGE", "DECOMPRESSED_TOO_LARGE"}
                       /\ Oversize(i)
              \/ /\ delivered' = Append(delivered,
                                        [frame |-> i, threshold |-> compression_threshold])
                 /\ Len(frames') = 1
                 /\ frames'[1].frame = i /\ frames'[1].size = packets[i].size
                 /\ Packet(wire[i]).id.v = packets[i].id
                 /\ UNCHANGED <<pc, failed, last_error, frame_capacity>>
  <1>1. PICK i \in DOMAIN wire :
          /\ Here(i) /\ ~Incomplete(wire[i], Avail)
          /\ FeedBadFrame(i) \/ FeedOutOfMemory(i) \/ FeedFrame(i)
    BY DEF FeedIteration
  <1>2. /\ IInv /\ TypeOK /\ Position /\ Looping /\ ~failed
    BY LinkFacts DEF FeedIteration, LinkIInv, CallInv, Looping
  <1>3. i = Len(delivered) + 1 /\ i \in 1..Len(wire) /\ i - 1 = Len(received)
        /\ frames = <<>> /\ output_size = 0 /\ Len(wire) \in Nat
    <2>1. i = Len(delivered) + 1 /\ i \in 1..Len(wire)
      BY <1>1, <1>2, HereIsNext DEF Looping
    <2>2. pc = "loop" /\ Len(frames) < frame_capacity
      BY <1>2 DEF Looping, emitted
    <2>3. frames = <<>> /\ output_size = 0 /\ Len(delivered) = Len(received)
      BY <2>2 DEF LinkIInv, LinkInv, FeedsInv
    <2> QED
      BY <2>1, <2>3, LinkFacts
  <1>4. compression_threshold = Behind(i - 1) /\ compression_threshold \in Int
    <2>1. reading # "returned"
      BY <1>2 DEF Looping, LinkIInv, LinkInv, FeedsInv
    <2> QED
      BY <1>2, <1>3, <2>1 DEF LinkIInv, LinkInv, ModeInv, TypeOK
  <1> DEFINE f == wire[i]
             q == packets[i]
             p == Packet(f)
             header == HeaderError(f, Avail)
             envelope == EnvelopeError(f)
  <1>5. q.id \in Nat /\ q.size \in Nat
    BY <1>3, LinkFacts
  <1>6. PICK deflated \in Compressed(PlainSize(q.id, q.size)) :
          f = encode_frame(q.id, q.size, compression_threshold, deflated)
    <2>1. Encodes(f, q, compression_threshold)
      BY <1>3, <1>4 DEF LinkIInv, LinkInv, SentInv
    <2> QED
      BY <2>1 DEF Encodes
  <1>7. /\ f \in FrameType /\ Avail \in Int
        /\ header = Sound /\ envelope = Sound => p \in PacketType
    BY <1>1, <1>2, IterationFacts
  <1>8. /\ header # Sound => header.code = "FRAME_TOO_LARGE" /\ f.hdr.v > max_frame_size
        /\ header = Sound /\ envelope # Sound =>
             /\ envelope.code = "DECOMPRESSED_TOO_LARGE"
             /\ f.zlib = "exact" /\ PlainSize(q.id, q.size) > max_decompressed_size
        /\ header = Sound /\ envelope = Sound =>
             /\ PacketError(p, f.zlib) = Sound
             /\ p.compressed => f.zlib = "exact"
             /\ p.id.v = q.id
             /\ p.size - p.id.n = q.size
             /\ p.size \in 0..max_output_size
    BY <1>1, <1>4, <1>5, <1>6, <1>7, EncodedAccepted
  <1> HIDE DEF f, q, p, header, envelope
  <1>9. ASSUME NEW e, FeedFails(e)
        PROVE  pc' = "idle" /\ failed' /\ delivered' = delivered /\ last_error'.code = e.code
    BY <1>2, <1>9 DEF FeedFails, stream_fail
  <1>10. header = Sound /\ envelope = Sound => LimitError(p) = Sound
    BY <1>3, <1>8, ConfigAssumption, ModelAssumption DEF LimitError
  <1>11. CASE FeedBadFrame(i)
    <2> DEFINE e == IF header # Sound THEN header
                    ELSE IF envelope # Sound THEN envelope ELSE LimitError(p)
    <2>1. FeedFails(e) /\ e # Sound
      BY <1>11 DEF FeedBadFrame, f, p, header, envelope
    <2>2. /\ e.code \in {"FRAME_TOO_LARGE", "DECOMPRESSED_TOO_LARGE"}
          /\ Oversize(i)
      BY <1>8, <1>10, <2>1 DEF Oversize, f, q
    <2> HIDE DEF e
    <2> QED
      BY <1>3, <1>9, <2>1, <2>2
  <1>12. CASE FeedOutOfMemory(i)
    <2>1. FeedFails(ErrorAt("OUT_OF_MEMORY", p.at))
      BY <1>12 DEF FeedOutOfMemory, f, p
    <2> QED
      BY <1>3, <1>9, <2>1, ErrorCode
  <1>13. CASE FeedFrame(i)
    <2> DEFINE grown == output_size + p.size > output_capacity
               block == IF grown THEN output + 1 ELSE output
    <2>1. /\ header = Sound /\ envelope = Sound
          /\ \/ \E e \in Failures(p, f.zlib) : FeedFails(e)
             \/ /\ frames' = Append(Rebase(grown), View(i, block, p))
                /\ delivered' = Append(delivered,
                                       [frame |-> i, threshold |-> compression_threshold])
                /\ UNCHANGED <<pc, status, frame_capacity>>
      BY <1>13 DEF FeedFrame, f, p, header, envelope
    <2>2. grown \in BOOLEAN
      OBVIOUS
    <2> HIDE DEF grown, block
    <2>3. ASSUME NEW e \in Failures(p, f.zlib), FeedFails(e)
          PROVE  last_error'.code = "ZLIB" /\ f.zlib = "exact"
      <3>1. e.code = "ZLIB" /\ p.compressed
        BY <1>8, <2>1, ErrorCode DEF Failures
      <3> QED
        BY <1>8, <1>9, <2>1, <2>3, <3>1
    <2>4. CASE \E e \in Failures(p, f.zlib) : FeedFails(e)
      BY <1>3, <1>9, <2>3, <2>4 DEF f
    <2>5. CASE /\ frames' = Append(Rebase(grown), View(i, block, p))
               /\ delivered' = Append(delivered,
                                      [frame |-> i, threshold |-> compression_threshold])
               /\ UNCHANGED <<pc, status, frame_capacity>>
      <3>1. Rebase(grown) \in Seq(ViewType) /\ Len(Rebase(grown)) = 0
        BY <1>2, <1>3, <2>2, RebaseFacts
      <3>2. Len(frames') = 1 /\ frames'[1] = View(i, block, p)
        BY <2>5, <3>1
      <3>3. frames'[1].frame = i /\ frames'[1].size = q.size
        BY <1>8, <2>1, <3>2 DEF View
      <3> QED
        BY <1>3, <1>8, <2>1, <2>5, <3>2, <3>3 DEF status, f, q, p
    <2> QED
      BY <2>1, <2>4, <2>5
  <1> QED
    BY <1>1, <1>11, <1>12, <1>13

\* An iteration of feed's loop.
LEMMA StepKeeps ==
    ASSUME LinkIInv, FeedStep
    PROVE  LinkInv'
  <1> DEFINE i == Len(delivered) + 1
             entry == [frame |-> i, threshold |-> compression_threshold]
  <1>1. /\ FeedIteration /\ Looping /\ pc = "loop" /\ Len(frames) < frame_capacity
        /\ UNCHANGED <<peer_threshold, packets, reading, received>>
    BY DEF FeedStep, FeedIteration, Looping, emitted, link
  <1>2. LinkType /\ SentInv /\ FeedsInv /\ ModeInv /\ RoomInv /\ ArrivedInv /\ FailInv
    BY DEF LinkIInv, LinkInv
  <1>3. /\ Len(received) \in Nat /\ (received = <<>> <=> Len(received) = 0)
        /\ Len(delivered) \in Nat /\ Len(wire) \in Nat /\ TypeOK
    BY LinkFacts
  <1>4. /\ frames = <<>> /\ Len(delivered) = Len(received) /\ ~failed
        /\ reading \in {"buffered", "chunk"} /\ frame_capacity = 1
    BY <1>1, <1>2 DEF FeedsInv
  <1>5. UNCHANGED <<wire, compression_threshold>>
    <2>1. PICK k \in DOMAIN wire : FeedBadFrame(k) \/ FeedOutOfMemory(k) \/ FeedFrame(k)
      BY <1>1 DEF FeedIteration
    <2> QED
      BY <2>1 DEF FeedBadFrame, FeedOutOfMemory, FeedFrame, FeedFails, peer, mode
  <1>6. /\ i <= Len(wire)
        /\ \/ /\ pc' = "idle" /\ failed'
              /\ UNCHANGED delivered
              /\ \/ last_error'.code = "OUT_OF_MEMORY"
                 \/ last_error'.code = "ZLIB" /\ wire[i].zlib = "exact"
                 \/ /\ last_error'.code \in {"FRAME_TOO_LARGE", "DECOMPRESSED_TOO_LARGE"}
                    /\ Oversize(i)
           \/ /\ delivered' = Append(delivered, entry)
              /\ Len(frames') = 1
              /\ frames'[1].frame = i /\ frames'[1].size = packets[i].size
              /\ Packet(wire[i]).id.v = packets[i].id
              /\ UNCHANGED <<pc, failed, last_error, frame_capacity>>
    BY <1>1, IterationAtFrame
  <1>7. LinkType' /\ SentInv' /\ ModeInv' /\ RoomInv' /\ ArrivedInv'
    BY <1>1, <1>2, <1>3, <1>4, <1>5, SentKept
    DEF LinkType, ModeInv, RoomInv, ArrivedInv, Behind, Returned
  <1>8. FeedsInv' /\ FailInv'
    <2>1. CASE /\ pc' = "idle" /\ failed'
               /\ UNCHANGED delivered
               /\ \/ last_error'.code = "OUT_OF_MEMORY"
                  \/ last_error'.code = "ZLIB" /\ wire[i].zlib = "exact"
                  \/ /\ last_error'.code \in {"FRAME_TOO_LARGE", "DECOMPRESSED_TOO_LARGE"}
                     /\ Oversize(i)
      BY <1>1, <1>2, <1>3, <1>4, <1>5, <1>6, <2>1
      DEF FeedsInv, FailInv, OnlyOversizeRefused, Oversize
    <2>2. CASE /\ delivered' = Append(delivered, entry)
               /\ Len(frames') = 1
               /\ frames'[1].frame = i /\ frames'[1].size = packets[i].size
               /\ Packet(wire[i]).id.v = packets[i].id
               /\ UNCHANGED <<pc, failed, last_error, frame_capacity>>
      <3> HIDE DEF entry
      <3>1. Len(delivered') = i
        BY <1>3, <2>2 DEF TypeOK
      <3>2. frames'[1].frame = i /\ Packet(wire'[i]).id.v = packets[i].id
        BY <1>5, <2>2
      <3>3. copy_decoded_frame(frames[1])' = [id |-> packets[i].id, size |-> packets[i].size]
        BY <1>5, <2>2, <3>2 DEF copy_decoded_frame, Packet
      <3>4. FeedsInv'
        BY <1>1, <1>2, <1>4, <1>3, <2>2, <3>1, <3>3 DEF FeedsInv, Returned
      <3>5. FailInv'
        BY <1>4, <2>2 DEF FailInv, OnlyOversizeRefused
      <3> QED
        BY <3>4, <3>5
    <2> QED
      BY <1>6, <2>1, <2>2
  <1> QED
    BY <1>7, <1>8 DEF LinkInv

\* The end of a feed: its frame is returned, or the bytes left are part of one.
LEMMA ReturnKeeps ==
    ASSUME LinkIInv, FeedReturns
    PROVE  LinkInv'
  <1>1. /\ pc = "loop" /\ pc' = "idle" /\ FeedReturn
        /\ UNCHANGED <<wire, delivered, compression_threshold, failed, last_error,
                       packets, peer_threshold>>
        /\ buffer_size' = buffer_size - consumed
    BY DEF FeedReturns, FeedReturn, stream_consume, peer, status, results
  <1>2. LinkType /\ SentInv /\ FeedsInv /\ ModeInv /\ RoomInv /\ ArrivedInv /\ FailInv
    BY DEF LinkIInv, LinkInv
  <1>3. /\ Len(received) \in Nat /\ (received = <<>> <=> Len(received) = 0)
        /\ Len(delivered) \in Nat /\ Len(wire) \in Nat /\ TypeOK
        /\ Len(packets) = Len(wire) /\ Len(delivered) <= Len(wire)
        /\ buffer_size \in Nat
    BY LinkFacts, ConfigAssumption DEF TypeOK
  <1>4. ~failed /\ reading \in {"buffered", "chunk"} /\ frame_capacity = 1
    BY <1>1, <1>2 DEF FeedsInv
  <1>5. SentInv' /\ FailInv'
    BY <1>1, <1>2, <1>4, SentKept DEF FailInv, OnlyOversizeRefused
  <1>6. CASE frames = <<>>
    <2>1. /\ Len(delivered) = Len(received) /\ consumed = 0
          /\ reading' = IF reading = "buffered" THEN "receive" ELSE "top"
          /\ received' = received
      BY <1>1, <1>2, <1>6 DEF FeedReturns, emitted, FeedsInv, LinkIInv, NothingTaken
    <2>2. LinkType' /\ FeedsInv' /\ ModeInv' /\ ArrivedInv'
      BY <1>1, <1>2, <1>3, <1>4, <2>1
      DEF LinkType, FeedsInv, ModeInv, ArrivedInv, Behind, Returned
    <2>3. buffer_size <= max_frame_size + MaxVarInt - 1
      <3>1. CASE buffer_size = 0
        BY <3>1, ConfigAssumption, ModelAssumption
      <3>2. CASE buffer_size # 0
        <4>1. Looping
          BY <1>1, <1>3, <1>4, <1>6, <2>1, <3>2 DEF Looping, emitted
        <4>2. PICK i \in DOMAIN wire : Incomplete(wire[i], Avail)
          BY <1>1, <4>1 DEF FeedReturn
        <4>3. Avail = buffer_size /\ wire[i] \in FrameType
          BY <1>3, <2>1, ModelAssumption DEF Avail, TypeOK
        <4>4. wire[i].hdr.n \in 1..MaxVarInt /\ wire[i].hdr.v \in Int
          BY <4>3 DEF FrameType, VarInt
        <4>5. CASE stream_varint(wire[i].hdr, Avail) = "PARTIAL"
          <5>1. buffer_size < wire[i].hdr.n
            BY <4>3, <4>5 DEF stream_varint
          <5> QED
            BY <1>3, <4>4, <5>1, ConfigAssumption, ModelAssumption
        <4>6. CASE HeaderError(wire[i], Avail) = Sound /\ Avail - wire[i].hdr.n < wire[i].hdr.v
          <5>1. wire[i].hdr.v \in 1..max_frame_size
            BY <1>3, <4>3, <4>6, HeaderFacts
          <5> QED
            BY <1>3, <4>3, <4>4, <4>6, <5>1, ConfigAssumption, ModelAssumption
        <4> QED
          BY <4>2, <4>5, <4>6 DEF Incomplete
      <3> QED
        BY <3>1, <3>2
    <2>4. RoomInv'
      BY <1>1, <1>3, <2>1, <2>3 DEF RoomInv
    <2> QED
      BY <1>5, <2>2, <2>4 DEF LinkInv
  <1>7. CASE frames # <<>>
    <2> DEFINE n == Len(received) + 1
               packet == copy_decoded_frame(frames[1])
    <2>1. /\ Len(frames) = 1 /\ Len(delivered) = n /\ packet = Returned(n)
      BY <1>1, <1>2, <1>7 DEF FeedsInv
    <2>2. reading' = "returned" /\ received' = Append(received, packet)
      BY <2>1 DEF FeedReturns, emitted
    <2>3. packet \in [id : PacketId, size : PayloadSize]
      BY <1>3, <2>1, LinkFacts DEF Returned
    <2> HIDE DEF packet
    <2>4. /\ Len(received') = n /\ received' # <<>>
          /\ \A k \in 1..Len(received) : received'[k] = received[k]
          /\ received'[n] = packet
          /\ received' \in Seq([id : PacketId, size : PayloadSize])
      BY <1>2, <1>3, <2>2, <2>3 DEF LinkType
    <2>5. LinkType' /\ FeedsInv' /\ ModeInv' /\ RoomInv'
      BY <1>1, <1>2, <1>3, <1>4, <2>1, <2>2, <2>4
      DEF LinkType, FeedsInv, ModeInv, RoomInv
    <2>6. ArrivedInv'
      <3>1. \A k \in 1..n : received'[k] = Returned(k)
        BY <1>2, <1>3, <2>1, <2>4 DEF ArrivedInv
      <3> QED
        BY <1>1, <2>4, <3>1 DEF ArrivedInv, Returned
    <2> QED
      BY <1>5, <2>5, <2>6 DEF LinkInv
  <1> QED
    BY <1>6, <1>7

\* mc_client_set_compression between two packets.
LEMMA ApplyKeeps ==
    ASSUME LinkIInv, ApplyAnnounced
    PROVE  LinkInv'
  <1>1. /\ reading = "returned" /\ received # <<>> /\ ~failed
        /\ UNCHANGED <<wire, delivered, failed, last_error, pc, frames, frame_capacity,
                       output_size, buffer_size, peer_threshold, packets, reading, received>>
    BY DEF ApplyAnnounced, Announced, SetCompression, peer, input, store, status, call,
           results, link
  <1>2. LinkType /\ SentInv /\ FeedsInv /\ ModeInv /\ RoomInv /\ ArrivedInv /\ FailInv
    BY DEF LinkIInv, LinkInv
  <1>3. pc # "loop"
    BY <1>1, <1>2 DEF FeedsInv
  <1>4. LinkType' /\ FeedsInv' /\ ModeInv' /\ RoomInv' /\ FailInv'
    BY <1>1, <1>2, <1>3
    DEF LinkType, FeedsInv, ModeInv, RoomInv, FailInv, OnlyOversizeRefused
  <1>5. SentInv' /\ ArrivedInv'
    BY <1>1, <1>2, SentKept DEF ArrivedInv, Returned
  <1> QED
    BY <1>4, <1>5 DEF LinkInv

\* Every step of the link keeps the invariant, the decoder's parts because it is
\* a step of the decoder.
LEMMA LinkStep ==
    ASSUME LinkIInv, [LinkNext]_linkVars
    PROVE  LinkIInv'
  <1>1. [Next]_vars /\ IInv /\ CallInv /\ NothingTaken /\ TypeOK /\ Position
    BY DecoderStep, LinkFacts DEF LinkIInv
  <1>2. IInv' /\ CallInv' /\ NothingTaken'
    <2>1. TypeOK' /\ Layout' /\ Position' /\ FramesInOrder' /\ OffsetCountsStream'
      BY <1>1, TypeStep, LayoutStep, PositionStep, OrderStep, OffsetStep DEF IInv
    <2>2. CallInv' /\ NothingTaken'
      BY <1>1, CallStep, NothingTakenStep
    <2> QED
      BY <2>1, <2>2 DEF IInv
  <1>3. LinkInv'
    <2>1. CASE UNCHANGED linkVars
      BY <2>1 DEF linkVars, vars, link, peer, input, store, mode, status, call, results,
         LinkIInv, LinkInv, LinkType, SentInv, FeedsInv, ModeInv, RoomInv, ArrivedInv,
         FailInv, OnlyOversizeRefused, Oversize, Behind, Returned, copy_decoded_frame, Packet
    <2> QED
      BY <2>1, SendKeeps, BufferedKeeps, ChunkKeeps, StepKeeps, ReturnKeeps, ApplyKeeps
      DEF LinkNext, Reader
  <1> QED
    BY <1>2, <1>3 DEF LinkIInv

\* It holds at the start.
LEMMA LinkInitIInv == LinkInit => LinkIInv
  <1> SUFFICES ASSUME LinkInit PROVE LinkIInv
    OBVIOUS
  <1>1. Init /\ peer_threshold = -1 /\ packets = <<>> /\ received = <<>> /\ reading = "returned"
    BY DEF LinkInit
  <1>2. IInv /\ CallInv /\ NothingTaken
    BY <1>1, InitIInv DEF Init, CallInv, NothingTaken
  <1>3. /\ wire = <<>> /\ delivered = <<>> /\ pc = "idle" /\ ~failed
        /\ compression_threshold = -1
    BY <1>1 DEF Init
  <1>4. LinkInv
    BY <1>1, <1>3
    DEF LinkInv, LinkType, SentInv, FeedsInv, ModeInv, RoomInv, ArrivedInv, FailInv,
        OnlyOversizeRefused, Behind
  <1> QED
    BY <1>2, <1>4 DEF LinkIInv

\* The invariant holds of the link at every moment.
THEOREM LinkInvariantHolds == LinkSpec => []LinkIInv
  <1>1. LinkIInv /\ [LinkNext]_linkVars => LinkIInv'
    BY LinkStep
  <1> QED
    BY <1>1, LinkInitIInv, PTL DEF LinkSpec

\* The packets encode_frame was given come out of read_frame with their ids and
\* payloads, each once and in order, however the network cuts the stream and
\* wherever in it the threshold changes.
THEOREM PacketsArrive == LinkSpec => []PacketsArriveAsSent
  <1>1. LinkIInv => PacketsArriveAsSent
    <2> SUFFICES ASSUME LinkIInv PROVE PacketsArriveAsSent
      OBVIOUS
    <2>1. Len(received) <= Len(packets)
      BY LinkFacts
    <2>2. \A k \in DOMAIN received : received[k] = Returned(k)
      BY DEF LinkIInv, LinkInv, LinkType, ArrivedInv
    <2> QED
      BY <2>1, <2>2 DEF PacketsArriveAsSent, Returned
  <1> QED
    BY <1>1, LinkInvariantHolds, PTL

\* A decoder refuses what encode_frame built only above its limits or for want
\* of memory: the two ends never disagree on a threshold, and read_frame never
\* overruns the input buffer.
THEOREM RefusedOnlyOversize == LinkSpec => []OnlyOversizeRefused
  <1>1. LinkIInv => OnlyOversizeRefused
    BY DEF LinkIInv, LinkInv, FailInv
  <1> QED
    BY <1>1, LinkInvariantHolds, PTL
=============================================================================
