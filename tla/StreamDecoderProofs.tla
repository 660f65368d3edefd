------------------------ MODULE StreamDecoderProofs ------------------------
(***************************************************************************)
(* Theorems about StreamDecoder, for every configuration create accepts,   *)
(* every set of frames, every chunking and every capacity.                 *)
(***************************************************************************)
EXTENDS StreamDecoder, TLAPS

ErrorType == [code : McErrorCode, at : Nat]
PacketType == [size : Nat, id : VarInt, at : Nat, compressed : BOOLEAN]

\* A frame occupies at least one byte of the stream.
LEMMA BytesPositive ==
    ASSUME NEW f \in FrameType
    PROVE  Bytes(f) \in Nat /\ Bytes(f) >= 1
  BY ModelAssumption DEF FrameType, VarInt, Bytes, MaxOf

\* saturating_add stays within size_t and counts on from a saturated sum.
LEMMA SaturatingAdd ==
    ASSUME NEW a \in Nat, NEW b \in Nat, NEW c \in Nat
    PROVE  /\ saturating_add(a, b) \in 0..SizeMax
           /\ saturating_add(MinOf(SizeMax, a), b) = MinOf(SizeMax, a + b)
  BY ModelAssumption DEF saturating_add, MinOf

\* A reservation yields a capacity between what is needed and the maximum.
LEMMA ReservedBounds ==
    ASSUME NEW maximum \in Nat, NEW capacity \in 0..maximum,
           NEW needed \in 0..maximum,
           NEW g \in Reserved(capacity, needed, maximum)
    PROVE  g \in needed..maximum
  BY DEF Reserved

\* The four verdicts of stream_varint.
LEMMA VarIntVerdict ==
    ASSUME NEW x \in VarInt, NEW avail \in Int
    PROVE  /\ stream_varint(x, avail) \in {"PARTIAL", "VARINT_OVERFLOW",
                                           "VARINT_NON_CANONICAL", "COMPLETE"}
           /\ stream_varint(x, avail) # "PARTIAL" => x.n <= avail
  BY ModelAssumption DEF stream_varint, VarInt

\* Errors are told apart by their code.
LEMMA ErrorCode ==
    ASSUME NEW code, NEW at
    PROVE  /\ ErrorAt(code, at).code = code
           /\ ErrorAt(code, at).at = at
           /\ ErrorAt(code, at) = Sound => code = "NONE"
           /\ code \in McErrorCode /\ at \in Nat => ErrorAt(code, at) \in ErrorType
  <1>1. ErrorAt(code, at).code = code /\ Sound.code = "NONE"
    BY DEF ErrorAt, Sound
  <1>2. ErrorAt(code, at) = Sound => code = "NONE"
    BY <1>1
  <1> QED BY <1>2 DEF ErrorAt, ErrorType

\* What feed's header checks report and what they let through.
LEMMA HeaderFacts ==
    ASSUME NEW f \in FrameType, NEW avail \in Int
    PROVE  /\ HeaderError(f, avail) \in ErrorType
           /\ HeaderError(f, avail) = Sound => f.hdr.v \in 1..max_frame_size
  <1>1. f.hdr \in VarInt /\ f.hdr.n \in Nat /\ f.hdr.n >= 1 /\ f.hdr.v \in Int
    BY ModelAssumption DEF FrameType, VarInt
  <1>3. Invalid(stream_varint(f.hdr, avail))
        => ErrorAt(stream_varint(f.hdr, avail), f.hdr.n - 1) \in ErrorType
    BY <1>1, ErrorCode DEF Invalid, McErrorCode, FormatError
  <1>4. Sound \in ErrorType
    BY ErrorCode DEF Sound, McErrorCode
  <1>5. /\ ErrorAt("INVALID_LENGTH", 0) \in ErrorType
        /\ ErrorAt("FRAME_TOO_LARGE", 0) \in ErrorType
        /\ ErrorAt("INVALID_LENGTH", 0) # Sound
        /\ ErrorAt("FRAME_TOO_LARGE", 0) # Sound
    BY ErrorCode DEF McErrorCode, FormatError
  <1>6. Invalid(stream_varint(f.hdr, avail))
        => ErrorAt(stream_varint(f.hdr, avail), f.hdr.n - 1) # Sound
    BY ErrorCode DEF Invalid
  <1> QED
    BY <1>1, <1>3, <1>4, <1>5, <1>6, ConfigAssumption DEF HeaderError

\* What the envelope checks report and what they let through.
LEMMA EnvelopeFacts ==
    ASSUME NEW f \in FrameType, compression_threshold \in Int,
           f.hdr.v \in 1..max_frame_size
    PROVE  /\ EnvelopeError(f) \in ErrorType
           /\ EnvelopeError(f) = Sound => Packet(f) \in PacketType
  <1>1. /\ f.hdr.n \in Nat /\ f.hdr.n >= 1 /\ f.hdr.v \in Int
        /\ f.first \in VarInt /\ f.first.n \in Nat /\ f.first.n >= 1
        /\ f.first.v \in Int /\ f.second \in VarInt
    BY ModelAssumption DEF FrameType, VarInt
  <1> DEFINE verdict == stream_varint(f.first, f.hdr.v)
  <1>2. /\ verdict \in {"PARTIAL", "VARINT_OVERFLOW", "VARINT_NON_CANONICAL",
                        "COMPLETE"}
        /\ verdict # "PARTIAL" => f.first.n <= f.hdr.v
    BY <1>1, VarIntVerdict
  <1> HIDE DEF verdict
  <1>3. /\ Invalid(verdict)
           => ErrorAt(verdict, f.hdr.n + f.first.n - 1) \in ErrorType
        /\ ErrorAt("COMPRESSION_HEADER", f.hdr.n) \in ErrorType
        /\ ErrorAt("DECOMPRESSED_TOO_LARGE", f.hdr.n) \in ErrorType
        /\ ErrorAt("COMPRESSION_THRESHOLD", f.hdr.n) \in ErrorType
        /\ Sound \in ErrorType
    BY <1>1, <1>2, ErrorCode DEF Sound, Invalid, McErrorCode, FormatError
  <1>4. EnvelopeError(f) \in ErrorType
    BY <1>3 DEF EnvelopeError, verdict
  <1>5. ASSUME EnvelopeError(f) = Sound
        PROVE  Packet(f) \in PacketType
    <2>1. CASE compression_threshold < 0
      BY <1>1, <2>1 DEF Packet, PacketType
    <2>2. CASE compression_threshold >= 0
      <3>1. ErrorAt("COMPRESSION_HEADER", f.hdr.n) # Sound
        BY ErrorCode
      <3>2. Invalid(verdict) => ErrorAt(verdict, f.hdr.n + f.first.n - 1) # Sound
        BY ErrorCode DEF Invalid
      <3>3. f.first.v >= 0 /\ verdict # "PARTIAL"
        BY <1>1, <1>5, <2>2, <3>1, <3>2 DEF EnvelopeError, verdict
      <3>4. (IF f.first.v = 0 THEN f.hdr.v - f.first.n ELSE f.first.v) \in Nat
        BY <1>1, <1>2, <3>3
      <3> QED
        BY <1>1, <2>2, <3>4 DEF Packet, PacketType
    <2> QED BY <2>1, <2>2
  <1> QED BY <1>4, <1>5

\* The storage checks bound the packet; the packet checks leave room for its id.
LEMMA PacketFacts ==
    ASSUME NEW p \in PacketType, NEW zlib, output_size \in 0..max_output_size
    PROVE  /\ LimitError(p) \in ErrorType
           /\ LimitError(p) = Sound => output_size + p.size <= max_output_size
           /\ Failures(p, zlib) \subseteq ErrorType
           /\ PacketError(p, zlib) = Sound => p.id.n <= p.size
  <1>1. /\ p.size \in Nat /\ p.at \in Nat /\ p.id \in VarInt
        /\ p.id.n \in Nat /\ p.id.n >= 1
    BY ModelAssumption DEF PacketType, VarInt
  <1> DEFINE verdict == stream_varint(p.id, p.size)
  <1>2. /\ verdict \in {"PARTIAL", "VARINT_OVERFLOW", "VARINT_NON_CANONICAL",
                        "COMPLETE"}
        /\ verdict # "PARTIAL" => p.id.n <= p.size
    BY <1>1, VarIntVerdict
  <1> HIDE DEF verdict
  <1>3. /\ Invalid(verdict) => ErrorAt(verdict, p.at + p.id.n - 1) \in ErrorType
        /\ \A code \in McErrorCode : ErrorAt(code, p.at) \in ErrorType
        /\ Sound \in ErrorType
    BY <1>1, <1>2, ErrorCode DEF Sound, Invalid, McErrorCode, FormatError
  <1>4. /\ ErrorAt("BUFFER_LIMIT", p.at) # Sound
        /\ ErrorAt("INTEGER_OVERFLOW", p.at) # Sound
        /\ ErrorAt("INVALID_PACKET_BODY", p.at) # Sound
        /\ ErrorAt("ZLIB", p.at) # Sound
        /\ Invalid(verdict) => ErrorAt(verdict, p.at + p.id.n - 1) # Sound
    BY ErrorCode DEF Invalid
  <1>5. LimitError(p) \in ErrorType
    BY <1>3 DEF LimitError, McErrorCode, FormatError
  <1>6. LimitError(p) = Sound => output_size + p.size <= max_output_size
    BY <1>1, <1>4, ConfigAssumption DEF LimitError
  <1>7. Failures(p, zlib) \subseteq ErrorType
    <2>1. PacketError(p, zlib) \in ErrorType
      BY <1>3 DEF PacketError, verdict, McErrorCode, FormatError
    <2> QED BY <1>3, <2>1 DEF Failures, McErrorCode, FormatError
  <1>8. PacketError(p, zlib) = Sound => p.id.n <= p.size
    BY <1>2, <1>4 DEF PacketError, verdict
  <1> QED BY <1>5, <1>6, <1>7, <1>8

(***************************************************************************)
(* The inductive invariant.  FramesInOrder alone is not inductive: that    *)
(* the frame found at the decoder's position is the next one needs the     *)
(* frames to lie one after the other on the stream (Layout) and the        *)
(* position to stay inside what was fed (Position).                        *)
(***************************************************************************)
Layout ==
    /\ \A i \in 1..Len(wire) : start[i] + Bytes(wire[i]) <= Sent
    /\ \A i \in 1..Len(wire) : \A j \in 1..(i - 1) :
         start[j] + Bytes(wire[j]) <= start[i]
    /\ \A i \in 1..(Len(wire) - 1) : start[i + 1] = start[i] + Bytes(wire[i])

Position ==
    /\ fed <= Sent
    /\ buffer_size <= fed
    /\ consumed <= buffer_size
    /\ pc = "idle" => consumed = 0

IInv ==
    /\ TypeOK
    /\ Layout
    /\ Position
    /\ FramesInOrder
    /\ OffsetCountsStream

\* Sent counts the bytes of the wire.
LEMMA SentNat ==
    ASSUME TypeOK
    PROVE  Sent \in Nat
  <1>1. CASE wire = <<>>
    BY <1>1 DEF Sent
  <1>2. CASE wire # <<>>
    <2>1. Len(wire) \in 1..Len(wire) /\ wire[Len(wire)] \in Frame
          /\ start[Len(wire)] \in Nat
      BY <1>2 DEF TypeOK
    <2>2. Bytes(wire[Len(wire)]) \in Nat
      BY <2>1, BytesPositive, ModelAssumption
    <2> QED BY <1>2, <2>1, <2>2 DEF Sent
  <1> QED BY <1>1, <1>2

\* Inside feed's loop, at a frame that is not cut short.
LEMMA IterationFacts ==
    ASSUME TypeOK, Position, Looping,
           NEW i \in DOMAIN wire, ~Incomplete(wire[i], Avail)
    PROVE  /\ wire[i] \in FrameType
           /\ Avail \in Int
           /\ HeaderError(wire[i], Avail) \in ErrorType
           /\ HeaderError(wire[i], Avail) = Sound =>
                /\ wire[i].hdr.v \in 1..max_frame_size
                /\ FrameLength(wire[i]) = Bytes(wire[i])
                /\ FrameLength(wire[i]) \in Nat
                /\ consumed + FrameLength(wire[i]) <= buffer_size
                /\ EnvelopeError(wire[i]) \in ErrorType
                /\ EnvelopeError(wire[i]) = Sound =>
                     /\ Packet(wire[i]) \in PacketType
                     /\ LimitError(Packet(wire[i])) \in ErrorType
  <1> DEFINE f == wire[i]
  <1>1. f \in FrameType
    BY ModelAssumption DEF TypeOK
  <1>2. Avail \in Int
    BY DEF TypeOK, Avail
  <1>3. HeaderError(f, Avail) \in ErrorType
    BY <1>1, <1>2, HeaderFacts
  <1>4. ASSUME HeaderError(f, Avail) = Sound
        PROVE  /\ f.hdr.v \in 1..max_frame_size
               /\ FrameLength(f) = Bytes(f)
               /\ FrameLength(f) \in Nat
               /\ consumed + FrameLength(f) <= buffer_size
    <2>1. f.hdr.v \in 1..max_frame_size
      BY <1>1, <1>2, <1>4, HeaderFacts
    <2>2. f.hdr.n \in Nat
      BY <1>1 DEF FrameType, VarInt
    <2>3. Avail - f.hdr.n >= f.hdr.v
      BY <1>2, <1>4, <2>1, <2>2 DEF Incomplete
    <2>4. FrameLength(f) = Bytes(f) /\ FrameLength(f) \in Nat
      BY <2>1, <2>2, ConfigAssumption DEF FrameLength, Bytes, MaxOf
    <2>5. buffer_size \in Int /\ consumed \in Int /\ f.hdr.v \in Int
      BY <2>1, ConfigAssumption DEF TypeOK
    <2>6. consumed + (f.hdr.n + f.hdr.v) <= buffer_size
      BY <2>2, <2>3, <2>5 DEF Avail
    <2> QED BY <2>1, <2>4, <2>6 DEF FrameLength
  <1>5. ASSUME HeaderError(f, Avail) = Sound
        PROVE  /\ EnvelopeError(f) \in ErrorType
               /\ EnvelopeError(f) = Sound => Packet(f) \in PacketType
    BY <1>1, <1>4, <1>5, EnvelopeFacts DEF TypeOK
  <1>6. Packet(f) \in PacketType => LimitError(Packet(f)) \in ErrorType
    BY PacketFacts DEF TypeOK
  <1> QED BY <1>1, <1>2, <1>3, <1>4, <1>5, <1>6

\* stream_fail keeps the status well typed.
LEMMA FailType ==
    ASSUME TypeOK, NEW code \in McErrorCode, NEW at \in Nat,
           stream_fail(code, stream_absolute_offset(at))
    PROVE  failed' \in BOOLEAN /\ last_error' \in [code : McErrorCode, offset : 0..SizeMax]
  <1>0. stream_offset \in Nat
    BY ModelAssumption DEF TypeOK
  <1>1. stream_absolute_offset(at) \in 0..SizeMax
    BY <1>0, SaturatingAdd DEF stream_absolute_offset
  <1> QED BY <1>1 DEF stream_fail, TypeOK

\* stream_consume of no more than is buffered.
LEMMA ConsumeType ==
    ASSUME TypeOK, Position, stream_consume(consumed)
    PROVE  /\ buffer_size' \in 0..max_buffered_size
           /\ stream_offset' \in 0..SizeMax
           /\ buffer_size' = buffer_size - consumed
  <1>1. buffer_size' \in 0..max_buffered_size /\ buffer_size' = buffer_size - consumed
    BY ConfigAssumption DEF TypeOK, Position, stream_consume
  <1>2. stream_offset' \in 0..SizeMax
    BY SaturatingAdd DEF TypeOK, stream_consume
  <1> QED BY <1>1, <1>2

\* Rebasing keeps the number of views and everything but their allocation.
LEMMA RebaseFacts ==
    ASSUME TypeOK, NEW grown \in BOOLEAN
    PROVE  /\ Rebase(grown) \in Seq(ViewType)
           /\ Len(Rebase(grown)) = Len(frames)
           /\ \A k \in 1..Len(frames) :
                /\ Rebase(grown)[k].data = frames[k].data
                /\ Rebase(grown)[k].size = frames[k].size
                /\ Rebase(grown)[k].id_size = frames[k].id_size
                /\ Rebase(grown)[k].output =
                     IF grown THEN output + 1 ELSE frames[k].output
  <1>1. Len(frames) \in Nat /\ output \in Nat
        /\ \A k \in 1..Len(frames) : frames[k] \in ViewType
    BY DEF TypeOK
  <1>2. \A k \in 1..Len(frames) :
           /\ [frames[k] EXCEPT !.output = output + 1] \in ViewType
           /\ [frames[k] EXCEPT !.output = output + 1].data = frames[k].data
           /\ [frames[k] EXCEPT !.output = output + 1].size = frames[k].size
           /\ [frames[k] EXCEPT !.output = output + 1].id_size = frames[k].id_size
           /\ [frames[k] EXCEPT !.output = output + 1].output = output + 1
    BY <1>1 DEF ViewType
  <1>3. /\ Rebase(grown) \in Seq(ViewType)
        /\ Len(Rebase(grown)) = Len(frames)
        /\ \A k \in 1..Len(frames) : Rebase(grown)[k] =
             IF grown THEN [frames[k] EXCEPT !.output = output + 1] ELSE frames[k]
    BY <1>1, <1>2 DEF Rebase, emitted
  <1> QED BY <1>2, <1>3

\* The view of a packet that stream_finish_packet accepts.
LEMMA ViewFacts ==
    ASSUME TypeOK, NEW i \in Nat, NEW block \in Nat, NEW p \in PacketType,
           p.id.n <= p.size
    PROVE  /\ View(i, block, p) \in ViewType
           /\ View(i, block, p).output = block
           /\ View(i, block, p).data = output_size + p.id.n
           /\ View(i, block, p).size = p.size - p.id.n
           /\ View(i, block, p).id_size = p.id.n
  BY ModelAssumption, ConfigAssumption
  DEF View, ViewType, PacketType, VarInt, TypeOK

\* A feed that ends in an error keeps the types.
LEMMA FeedFailsType ==
    ASSUME TypeOK, Position, NEW e \in ErrorType, FeedFails(e)
    PROVE  /\ stream_offset' \in 0..SizeMax
           /\ buffer_size' \in 0..max_buffered_size
           /\ failed' \in BOOLEAN
           /\ last_error' \in [code : McErrorCode, offset : 0..SizeMax]
  <1>1. e.code \in McErrorCode /\ consumed + e.at \in Nat
    BY DEF ErrorType, TypeOK
  <1>2. stream_fail(e.code, stream_absolute_offset(consumed + e.at))
        /\ stream_consume(consumed)
    BY DEF FeedFails
  <1> QED BY <1>1, <1>2, FailType, ConsumeType

\* Every step keeps the type invariant.
LEMMA TypeStep ==
    ASSUME TypeOK, Position, [Next]_vars
    PROVE  TypeOK'
  <1> USE DEF peer, input, store, mode, status, call, results
  <1>0. Sent \in Nat
    BY SentNat
  <1>a. /\ 0 \in 0..max_output_size /\ 0 \in 0..max_buffered_size
        /\ 0 \in 0..SizeMax /\ SizeMax \in 0..SizeMax /\ max_output_size \in Nat
        /\ <<>> \in Seq(ViewType)
    BY ConfigAssumption, ModelAssumption
  <1>b. ASSUME NEW code \in {"INVALID_ARGUMENT", "BUFFER_LIMIT", "OUT_OF_MEMORY",
                             "PARTIAL_INPUT"},
               stream_fail(code, stream_absolute_offset(buffer_size))
        PROVE  /\ failed' \in BOOLEAN
               /\ last_error' \in [code : McErrorCode, offset : 0..SizeMax]
    <2>1. code \in McErrorCode /\ buffer_size \in Nat
      BY DEF McErrorCode, TypeOK
    <2> QED BY <1>b, <2>1, FailType
  <1>1. CASE PeerSend
    <2>1. PICK f \in Frame : wire' = Append(wire, f)
      BY <1>1 DEF PeerSend
    <2>2. wire' \in Seq(Frame) /\ start' \in Seq(Nat) /\ Len(start') = Len(wire')
      BY <1>0, <1>1, <2>1 DEF PeerSend, TypeOK
    <2> QED BY <1>1, <2>2 DEF PeerSend, TypeOK
  <1>2. CASE FeedInvalidArgument
    <2>1. failed' \in BOOLEAN /\ last_error' \in [code : McErrorCode, offset : 0..SizeMax]
      BY <1>2, <1>b DEF FeedInvalidArgument
    <2> QED BY <1>2, <2>1 DEF FeedInvalidArgument, TypeOK
  <1>3. CASE FeedFailed
    BY <1>3 DEF FeedFailed, TypeOK
  <1>4. ASSUME NEW size \in 0..(Sent - fed), FeedRefused(size)
        PROVE  TypeOK'
    <2>1. failed' \in BOOLEAN /\ last_error' \in [code : McErrorCode, offset : 0..SizeMax]
      BY <1>4, <1>b DEF FeedRefused
    <2> QED BY <1>4, <1>a, <2>1 DEF FeedRefused, TypeOK
  <1>5. ASSUME NEW size \in 0..(Sent - fed), NEW capacity \in FrameCapacity,
               FeedAppend(size, capacity)
        PROVE  TypeOK'
    <2>1. size \in Nat /\ capacity \in Nat
      BY <1>0, <1>5, ModelAssumption DEF TypeOK
    <2>2. buffer_size + size \in 0..max_buffered_size
      BY <1>5, <2>1, ConfigAssumption DEF FeedAppend, TypeOK
    <2>3. buffer_capacity' \in 0..max_buffered_size
      BY <1>5, <2>2, ReservedBounds, ConfigAssumption DEF FeedAppend, TypeOK
    <2>4. fed' \in Nat
      BY <1>5, <2>1 DEF FeedAppend, TypeOK
    <2> QED
      BY <1>5, <1>a, <2>1, <2>2, <2>3, <2>4 DEF FeedAppend, TypeOK
  <1>6. CASE FeedIteration
    <2>1. PICK i \in DOMAIN wire :
            /\ ~Incomplete(wire[i], Avail)
            /\ FeedBadFrame(i) \/ FeedOutOfMemory(i) \/ FeedFrame(i)
      BY <1>6 DEF FeedIteration
    <2> DEFINE f == wire[i]
               p == Packet(f)
    <2>2. Looping
      BY <1>6 DEF FeedIteration
    <2>3. /\ f \in FrameType
          /\ HeaderError(f, Avail) \in ErrorType
          /\ HeaderError(f, Avail) = Sound =>
               /\ FrameLength(f) \in Nat
               /\ EnvelopeError(f) \in ErrorType
               /\ EnvelopeError(f) = Sound =>
                    p \in PacketType /\ LimitError(p) \in ErrorType
      BY <2>1, <2>2, IterationFacts
    <2> HIDE DEF f, p
    <2>4. ASSUME NEW e \in ErrorType, FeedFails(e),
                 UNCHANGED <<store, frames>>
          PROVE  TypeOK'
      <3>1. /\ stream_offset' \in 0..SizeMax
            /\ buffer_size' \in 0..max_buffered_size
            /\ failed' \in BOOLEAN
            /\ last_error' \in [code : McErrorCode, offset : 0..SizeMax]
        BY <2>4, FeedFailsType
      <3> QED BY <2>4, <3>1 DEF FeedFails, TypeOK
    <2>5. CASE FeedBadFrame(i)
      <3> DEFINE e == IF HeaderError(f, Avail) # Sound THEN HeaderError(f, Avail)
                      ELSE IF EnvelopeError(f) # Sound THEN EnvelopeError(f)
                      ELSE LimitError(p)
      <3>1. e \in ErrorType
        BY <2>3
      <3>2. FeedFails(e) /\ UNCHANGED <<store, frames>>
        BY <2>5 DEF FeedBadFrame, f, p
      <3> QED BY <2>4, <3>1, <3>2
    <2>6. CASE FeedOutOfMemory(i)
      <3>1. p \in PacketType
        BY <2>3, <2>6 DEF FeedOutOfMemory, f, p
      <3>2. ErrorAt("OUT_OF_MEMORY", p.at) \in ErrorType
        BY <3>1, ErrorCode DEF PacketType, McErrorCode
      <3>3. FeedFails(ErrorAt("OUT_OF_MEMORY", p.at)) /\ UNCHANGED <<store, frames>>
        BY <2>6 DEF FeedOutOfMemory, f, p
      <3> QED BY <2>4, <3>2, <3>3
    <2>7. CASE FeedFrame(i)
      <3> DEFINE e == PacketError(p, f.zlib)
                 grown == output_size + p.size > output_capacity
                 block == IF grown THEN output + 1 ELSE output
      <3>1. /\ p \in PacketType /\ LimitError(p) = Sound
            /\ FrameLength(f) \in Nat
        BY <2>3, <2>7 DEF FeedFrame, f, p
      <3>2. /\ output_size + p.size \in 0..max_output_size
            /\ Failures(p, f.zlib) \subseteq ErrorType
            /\ e = Sound => p.id.n <= p.size
        <4>1. output_size \in 0..max_output_size
          BY DEF TypeOK
        <4>2. p.size \in Nat
          BY <3>1 DEF PacketType
        <4>3. /\ output_size + p.size <= max_output_size
              /\ Failures(p, f.zlib) \subseteq ErrorType
              /\ PacketError(p, f.zlib) = Sound => p.id.n <= p.size
          BY <3>1, <4>1, PacketFacts
        <4>4. output_size + p.size \in 0..max_output_size
          BY <1>a, <4>1, <4>2, <4>3
        <4> QED BY <4>3, <4>4
      <3>3. /\ output_capacity' \in Reserved(output_capacity, output_size + p.size,
                                             max_output_size)
            /\ output' = block
            /\ \/ (\E x \in Failures(p, f.zlib) : FeedFails(x))
                  /\ frames' = Rebase(grown) /\ UNCHANGED output_size
               \/ /\ e = Sound
                  /\ output_size' = output_size + p.size
                  /\ frames' = Append(Rebase(grown), View(i, block, p))
                  /\ delivered' = Append(delivered,
                       [frame |-> i, threshold |-> compression_threshold])
                  /\ consumed' = consumed + FrameLength(f)
                  /\ UNCHANGED <<peer, input, mode, status, pc, frame_capacity>>
        BY <2>7 DEF FeedFrame, f, p
      <3>4. output_capacity' \in 0..max_output_size
        <4>1. output_capacity \in 0..max_output_size
          BY DEF TypeOK
        <4>2. output_capacity' \in (output_size + p.size)..max_output_size
          BY <1>a, <3>2, <3>3, <4>1, ReservedBounds
        <4> QED BY <1>a, <3>2, <4>2
      <3>5. grown \in BOOLEAN /\ block \in Nat /\ output' \in Nat
        BY <3>3 DEF TypeOK
      <3>6. Rebase(grown) \in Seq(ViewType)
        BY <3>5, RebaseFacts
      <3>7. i \in Nat
        BY DEF TypeOK
      <3> HIDE DEF e, grown, block
      <3>8. ASSUME NEW x \in Failures(p, f.zlib), FeedFails(x),
                   frames' = Rebase(grown), UNCHANGED output_size
            PROVE  TypeOK'
        <4>1. /\ stream_offset' \in 0..SizeMax
              /\ buffer_size' \in 0..max_buffered_size
              /\ failed' \in BOOLEAN
              /\ last_error' \in [code : McErrorCode, offset : 0..SizeMax]
          BY <3>2, <3>8, FeedFailsType
        <4>2. frames' \in Seq(ViewType) /\ output_size' = output_size
          BY <3>6, <3>8
        <4>3. /\ pc' = "idle" /\ consumed' = 0
              /\ UNCHANGED <<peer, fed, buffer_capacity, mode, frame_capacity, delivered>>
          BY <3>8 DEF FeedFails
        <4> QED
          BY <3>4, <3>5, <4>1, <4>2, <4>3 DEF TypeOK
      <3>9. ASSUME /\ e = Sound
                   /\ output_size' = output_size + p.size
                   /\ frames' = Append(Rebase(grown), View(i, block, p))
                   /\ delivered' = Append(delivered,
                        [frame |-> i, threshold |-> compression_threshold])
                   /\ consumed' = consumed + FrameLength(f)
                   /\ UNCHANGED <<peer, input, mode, status, pc, frame_capacity>>
            PROVE  TypeOK'
        <4>1. View(i, block, p) \in ViewType
          BY <3>1, <3>2, <3>5, <3>7, <3>9, ViewFacts
        <4>2. frames' \in Seq(ViewType)
          BY <3>3, <3>6, <3>9, <4>1
        <4>3. delivered' \in Seq([frame : Nat, threshold : Int])
          <5> DEFINE entry == [frame |-> i, threshold |-> compression_threshold]
                     Entry == [frame : Nat, threshold : Int]
          <5>1. entry \in Entry
            BY <3>7 DEF TypeOK
          <5>2. delivered \in Seq(Entry)
            BY DEF TypeOK
          <5>3. delivered' = Append(delivered, entry)
            BY <3>3, <3>9
          <5> HIDE DEF entry, Entry
          <5>4. delivered' \in Seq(Entry)
            BY <5>1, <5>2, <5>3
          <5> QED BY <5>4 DEF Entry
        <4>4. consumed' \in Nat
          <5>1. consumed \in Nat
            BY DEF TypeOK
          <5>2. consumed' = consumed + FrameLength(f)
            BY <3>9
          <5> QED BY <3>1, <5>1, <5>2
        <4> QED
          BY <3>2, <3>3, <3>4, <3>5, <3>9, <4>2, <4>3, <4>4 DEF TypeOK
      <3> QED BY <3>3, <3>8, <3>9
    <2> QED BY <2>1, <2>5, <2>6, <2>7
  <1>7. CASE FeedReturn
    <2>1. buffer_size' \in 0..max_buffered_size /\ stream_offset' \in 0..SizeMax
      BY <1>7, ConsumeType DEF FeedReturn
    <2> QED BY <1>7, <2>1 DEF FeedReturn, StoppedAtCapacity, TypeOK
  <1>8. ASSUME NEW threshold \in Threshold, SetCompression(threshold)
        PROVE  TypeOK'
    BY <1>8, ModelAssumption DEF SetCompression, TypeOK
  <1>9. CASE Finish
    <2>1. failed' \in BOOLEAN /\ last_error' \in [code : McErrorCode, offset : 0..SizeMax]
      BY <1>9, <1>b DEF Finish
    <2> QED BY <1>9, <2>1 DEF Finish, TypeOK
  <1>10. CASE Reset
    <2>1. NoError \in [code : McErrorCode, offset : 0..SizeMax]
      BY <1>a DEF NoError, McErrorCode
    <2>2. /\ <<>> \in Seq(Frame) /\ <<>> \in Seq(Nat)
          /\ <<>> \in Seq([frame : Nat, threshold : Int])
          /\ -1 \in Int /\ Len(<<>>) = 0
      OBVIOUS
    <2> QED BY <1>a, <1>10, <2>1, <2>2 DEF Reset, TypeOK
  <1>11. CASE UNCHANGED vars
    BY <1>11 DEF vars, TypeOK
  <1> QED
    BY <1>1, <1>2, <1>3, <1>4, <1>5, <1>6, <1>7, <1>8, <1>9, <1>10, <1>11
    DEF Next, Feed

(***************************************************************************)
(* What a step does to the decoder's position in the stream: nothing, or   *)
(* one of five things.                                                     *)
(***************************************************************************)
Steady == UNCHANGED <<wire, start, fed, buffer_size, stream_offset, pc, consumed,
                      delivered>>

Appends ==
    /\ pc = "idle"
    /\ \E size \in 0..(Sent - fed) : /\ buffer_size' = buffer_size + size
                                     /\ fed' = fed + size
    /\ pc' = "loop"
    /\ consumed' = 0
    /\ UNCHANGED <<wire, start, stream_offset, delivered>>

Takes(i) ==
    /\ pc = "loop" /\ consumed < buffer_size
    /\ Here(i)
    /\ consumed' = consumed + Bytes(wire[i])
    /\ consumed' <= buffer_size
    /\ delivered' = Append(delivered,
                           [frame |-> i, threshold |-> compression_threshold])
    /\ UNCHANGED <<wire, start, fed, buffer_size, stream_offset, pc>>

Returns ==
    /\ pc = "loop"
    /\ stream_consume(consumed)
    /\ pc' = "idle"
    /\ consumed' = 0
    /\ UNCHANGED <<wire, start, fed, delivered>>

\* Every step is one of the kinds above: this is all the position proofs need
\* to know of mc_stream_decoder_feed.
LEMMA StepKinds ==
    ASSUME TypeOK, Position, [Next]_vars
    PROVE  \/ PeerSend \/ Reset \/ Steady \/ Appends \/ Returns
           \/ \E i \in DOMAIN wire : Takes(i)
  <1> USE DEF peer, input, store, mode, status, call, results
  <1>1. CASE Feed
    <2>1. CASE FeedInvalidArgument \/ FeedFailed
      BY <2>1 DEF FeedInvalidArgument, FeedFailed, Steady
    <2>2. ASSUME NEW size \in 0..(Sent - fed), FeedRefused(size)
          PROVE  Steady
      BY <2>2 DEF FeedRefused, Steady
    <2>3. ASSUME NEW size \in 0..(Sent - fed), NEW capacity \in FrameCapacity,
                 FeedAppend(size, capacity)
          PROVE  Appends
      BY <2>3 DEF FeedAppend, Appends
    <2> QED BY <1>1, <2>1, <2>2, <2>3 DEF Feed
  <1>2. CASE FeedIteration
    <2>1. PICK i \in DOMAIN wire :
            /\ Here(i)
            /\ ~Incomplete(wire[i], Avail)
            /\ FeedBadFrame(i) \/ FeedOutOfMemory(i) \/ FeedFrame(i)
      BY <1>2 DEF FeedIteration
    <2>2. Looping
      BY <1>2 DEF FeedIteration
    <2>3. ASSUME NEW e, FeedFails(e)
          PROVE  Returns
      BY <2>2, <2>3 DEF FeedFails, Returns, Looping
    <2>4. CASE FeedBadFrame(i)
      BY <2>3, <2>4 DEF FeedBadFrame
    <2>5. CASE FeedOutOfMemory(i)
      BY <2>3, <2>5 DEF FeedOutOfMemory
    <2>6. CASE FeedFrame(i)
      <3>1. HeaderError(wire[i], Avail) = Sound
        BY <2>6 DEF FeedFrame
      <3>2. /\ FrameLength(wire[i]) = Bytes(wire[i])
            /\ consumed + FrameLength(wire[i]) <= buffer_size
        BY <2>1, <2>2, <3>1, IterationFacts
      <3>3. \/ \E e : FeedFails(e)
            \/ /\ delivered' = Append(delivered,
                    [frame |-> i, threshold |-> compression_threshold])
               /\ consumed' = consumed + FrameLength(wire[i])
               /\ UNCHANGED <<peer, input, pc>>
        BY <2>6 DEF FeedFrame
      <3>4. ASSUME /\ delivered' = Append(delivered,
                        [frame |-> i, threshold |-> compression_threshold])
                   /\ consumed' = consumed + FrameLength(wire[i])
                   /\ UNCHANGED <<peer, input, pc>>
            PROVE  Takes(i)
        BY <2>1, <2>2, <3>2, <3>4 DEF Takes, Looping
      <3> QED BY <2>3, <3>3, <3>4
    <2> QED BY <2>1, <2>4, <2>5, <2>6
  <1>3. CASE FeedReturn
    BY <1>3 DEF FeedReturn, Returns
  <1>4. ASSUME NEW threshold \in Threshold, SetCompression(threshold)
        PROVE  Steady
    BY <1>4 DEF SetCompression, Steady
  <1>5. CASE Finish
    BY <1>5 DEF Finish, Steady
  <1>6. CASE UNCHANGED vars
    BY <1>6 DEF vars, Steady
  <1> QED BY <1>1, <1>2, <1>3, <1>4, <1>5, <1>6 DEF Next

\* PeerSend puts one frame behind the others.
LEMMA PeerSendFacts ==
    ASSUME TypeOK, PeerSend
    PROVE  /\ Len(wire') = Len(wire) + 1
           /\ Len(wire) \in Nat
           /\ \A i \in 1..Len(wire) : wire'[i] = wire[i] /\ start'[i] = start[i]
           /\ start'[Len(wire) + 1] = Sent
           /\ wire'[Len(wire) + 1] \in FrameType
           /\ Sent' = Sent + Bytes(wire'[Len(wire) + 1])
           /\ UNCHANGED <<fed, buffer_size, stream_offset, pc, consumed, delivered>>
  <1>1. PICK f \in Frame : wire' = Append(wire, f)
    BY DEF PeerSend
  <1>2. start' = Append(start, Sent) /\ Sent \in Nat
    BY SentNat DEF PeerSend
  <1>3. /\ Len(wire') = Len(wire) + 1 /\ Len(wire) \in Nat
        /\ \A i \in 1..Len(wire) : wire'[i] = wire[i]
        /\ wire'[Len(wire) + 1] = f
    BY <1>1 DEF TypeOK
  <1>4. /\ \A i \in 1..Len(wire) : start'[i] = start[i]
        /\ start'[Len(wire) + 1] = Sent
    <2>1. start \in Seq(Nat) /\ Len(start) = Len(wire)
      BY DEF TypeOK
    <2>2. /\ \A i \in 1..Len(start) : Append(start, Sent)[i] = start[i]
          /\ Append(start, Sent)[Len(start) + 1] = Sent
      BY <1>2, <2>1
    <2> QED BY <1>2, <2>1, <2>2
  <1>5. wire' # <<>>
    BY <1>3
  <1>6. Sent' = start'[Len(wire')] + Bytes(wire'[Len(wire')])
    BY <1>5 DEF Sent, Bytes
  <1>7. Sent' = Sent + Bytes(wire'[Len(wire) + 1])
    BY <1>3, <1>4, <1>6
  <1> QED
    BY <1>3, <1>4, <1>7, ModelAssumption
    DEF PeerSend, input, mode, call, results

\* Steps other than PeerSend and Reset leave the stream alone.
LEMMA SentSteady ==
    ASSUME UNCHANGED <<wire, start>>
    PROVE  Sent' = Sent /\ \A i : Bytes(wire'[i]) = Bytes(wire[i])
  BY DEF Sent, Bytes

\* Every step keeps the frames of the stream end to end.
LEMMA LayoutStep ==
    ASSUME TypeOK, Layout, Position, [Next]_vars
    PROVE  Layout'
  <1>0. Sent \in Nat /\ \A i \in 1..Len(wire) : start[i] \in Nat
    BY SentNat DEF TypeOK
  <1>a. \A i \in 1..Len(wire) : Bytes(wire[i]) \in Nat /\ Bytes(wire[i]) >= 1
    BY BytesPositive, ModelAssumption DEF TypeOK
  <1>1. CASE PeerSend
    <2> DEFINE n == Len(wire)
               g == wire'[n + 1]
    <2>1. /\ Len(wire') = n + 1 /\ n \in Nat
          /\ \A i \in 1..n : wire'[i] = wire[i] /\ start'[i] = start[i]
          /\ start'[n + 1] = Sent
          /\ g \in FrameType
          /\ Sent' = Sent + Bytes(g)
      BY <1>1, PeerSendFacts
    <2>2. Bytes(g) \in Nat /\ Bytes(g) >= 1
      BY <2>1, BytesPositive
    <2>3. \A i : Bytes(wire[i])' = Bytes(wire'[i])
      BY DEF Bytes
    <2>4. \A i \in 1..n : /\ start'[i] + Bytes(wire'[i]) <= Sent
                          /\ start'[i] + Bytes(wire'[i]) <= Sent'
      BY <1>0, <1>a, <2>1, <2>2 DEF Layout
    <2>5. \A i \in 1..(n + 1) : start'[i] + Bytes(wire'[i]) <= Sent'
      BY <1>0, <2>1, <2>2, <2>4
    <2>6. ASSUME NEW i \in 1..(n + 1), NEW j \in 1..(i - 1)
          PROVE  start'[j] + Bytes(wire'[j]) <= start'[i]
      <3>1. CASE i = n + 1
        BY <2>1, <2>4, <3>1
      <3>2. CASE i \in 1..n
        <4>1. j \in 1..n /\ j \in 1..(i - 1)
          BY <2>1, <3>2
        <4> QED BY <2>1, <3>2, <4>1 DEF Layout
      <3> QED BY <2>1, <3>1, <3>2
    <2>7. ASSUME NEW i \in 1..n
          PROVE  start'[i + 1] = start'[i] + Bytes(wire'[i])
      <3>1. CASE i = n
        <4>1. wire # <<>>
          BY <2>1, <2>7 
        <4>2. Sent = start[n] + Bytes(wire[n])
          BY <4>1 DEF Sent
        <4> QED BY <2>1, <3>1, <4>2
      <3>2. CASE i # n
        <4>1. i \in 1..(n - 1) /\ i + 1 \in 1..n
          BY <2>1, <3>2
        <4> QED BY <2>1, <4>1 DEF Layout
      <3> QED BY <3>1, <3>2
    <2> HIDE DEF n, g
    <2> QED BY <2>1, <2>5, <2>6, <2>7 DEF Layout, Bytes
  <1>2. CASE Reset
    <2>1. wire' = <<>> /\ start' = <<>>
      BY <1>2 DEF Reset
    <2> QED BY <2>1 DEF Layout
  <1>3. CASE UNCHANGED <<wire, start>>
    BY <1>3, SentSteady DEF Layout, Bytes
  <1> QED
    BY <1>1, <1>2, <1>3, StepKinds DEF Steady, Appends, Takes, Returns

\* Every step keeps the buffer inside what was fed, and that inside what the
\* peer sent.
LEMMA PositionStep ==
    ASSUME TypeOK, Position, [Next]_vars
    PROVE  Position'
  <1>0. /\ Sent \in Nat /\ fed \in Nat /\ buffer_size \in Nat /\ consumed \in Nat
    BY SentNat, ConfigAssumption DEF TypeOK
  <1>1. CASE PeerSend
    <2>1. /\ Sent' = Sent + Bytes(wire'[Len(wire) + 1])
          /\ Bytes(wire'[Len(wire) + 1]) \in Nat
          /\ UNCHANGED <<fed, buffer_size, stream_offset, pc, consumed, delivered>>
      BY <1>1, PeerSendFacts, BytesPositive
    <2> QED BY <1>0, <2>1 DEF Position
  <1>2. CASE Reset
    BY <1>2 DEF Reset, Position, Sent, call
  <1>3. CASE Steady
    BY <1>3, SentSteady DEF Steady, Position
  <1>4. CASE Appends
    <2>1. Sent' = Sent
      BY <1>4, SentSteady DEF Appends
    <2> QED BY <1>0, <1>4, <2>1 DEF Appends, Position
  <1>5. CASE Returns
    <2>1. Sent' = Sent
      BY <1>5, SentSteady DEF Returns
    <2> QED BY <1>0, <1>5, <2>1 DEF Returns, Position, stream_consume
  <1>6. ASSUME NEW i \in DOMAIN wire, Takes(i)
        PROVE  Position'
    <2>1. Sent' = Sent
      BY <1>6, SentSteady DEF Takes
    <2> QED BY <1>0, <1>6, <2>1 DEF Takes, Position
  <1> QED BY <1>1, <1>2, <1>3, <1>4, <1>5, <1>6, StepKinds

\* The frame found at the decoder's position is the next one.
LEMMA HereIsNext ==
    ASSUME IInv, NEW i \in DOMAIN wire, Here(i), consumed < buffer_size
    PROVE  i = Len(delivered) + 1 /\ i \in 1..Len(wire)
  <1> DEFINE n == Len(delivered)
  <1>0. /\ Sent \in Nat /\ fed \in Nat /\ buffer_size \in Nat /\ consumed \in Nat
        /\ n \in Nat /\ Len(wire) \in Nat /\ i \in 1..Len(wire)
        /\ \A k \in 1..Len(wire) : start[k] \in Nat
    BY SentNat, ConfigAssumption DEF IInv, TypeOK
  <1>1. Taken < fed /\ fed <= Sent
    BY <1>0 DEF IInv, Position, Taken
  <1>2. n < Len(wire) /\ Taken = start[n + 1]
    BY <1>0, <1>1 DEF IInv, FramesInOrder
  <1>3. start[i] = start[n + 1]
    BY <1>2 DEF Here, Taken
  <1>4. \A k \in 1..Len(wire) : Bytes(wire[k]) \in Nat /\ Bytes(wire[k]) >= 1
    BY BytesPositive, ModelAssumption DEF IInv, TypeOK
  <1>5. n + 1 \in 1..Len(wire)
    BY <1>0, <1>2
  <1> HIDE DEF n
  <1>6. \A a \in 1..Len(wire) : \A b \in 1..(a - 1) :
          start[b] + Bytes(wire[b]) <= start[a]
    BY DEF IInv, Layout
  <1>7. ~(i < n + 1)
    <2>1. SUFFICES ASSUME i < n + 1 PROVE FALSE
      OBVIOUS
    <2>2. i \in 1..((n + 1) - 1)
      BY <1>0, <2>1
    <2> QED BY <1>0, <1>3, <1>4, <1>5, <1>6, <2>2
  <1>8. ~(n + 1 < i)
    <2>1. SUFFICES ASSUME n + 1 < i PROVE FALSE
      OBVIOUS
    <2>2. n + 1 \in 1..(i - 1)
      BY <1>0, <2>1
    <2> QED BY <1>0, <1>3, <1>4, <1>5, <1>6, <2>2
  <1> QED BY <1>0, <1>7, <1>8 DEF n

\* So is the frame that is taken.
LEMMA TakesNext ==
    ASSUME IInv, NEW i \in DOMAIN wire, Takes(i)
    PROVE  i = Len(delivered) + 1
  BY HereIsNext DEF Takes

\* Every step keeps the decoder at a frame boundary with the frames delivered
\* in order: feed takes the whole frame it emits, and nothing else.
LEMMA OrderStep ==
    ASSUME IInv, [Next]_vars
    PROVE  FramesInOrder'
  <1> DEFINE n == Len(delivered)
  <1>0. /\ Sent \in Nat /\ fed \in Nat /\ buffer_size \in Nat /\ consumed \in Nat
        /\ n \in Nat /\ Len(wire) \in Nat
        /\ TypeOK /\ Position
    BY SentNat, ConfigAssumption DEF IInv, TypeOK
  <1>1. CASE PeerSend
    <2>1. /\ Len(wire') = Len(wire) + 1
          /\ \A i \in 1..Len(wire) : wire'[i] = wire[i] /\ start'[i] = start[i]
          /\ start'[Len(wire) + 1] = Sent
          /\ UNCHANGED <<fed, buffer_size, stream_offset, pc, consumed, delivered>>
      BY <1>0, <1>1, PeerSendFacts
    <2>2. Taken' = Taken
      BY <2>1 DEF Taken
    <2>3. n <= Len(wire) /\ \A k \in 1..n : delivered[k].frame = k
      BY DEF IInv, FramesInOrder
    <2>4. Taken = start'[n + 1]
      <3>1. CASE n = Len(wire)
        BY <2>1, <3>1 DEF IInv, FramesInOrder
      <3>2. CASE n < Len(wire)
        BY <1>0, <2>1, <3>2 DEF IInv, FramesInOrder
      <3> QED BY <1>0, <2>3, <3>1, <3>2
    <2> QED BY <1>0, <2>1, <2>2, <2>3, <2>4 DEF FramesInOrder
  <1>2. CASE Reset
    <2>1. /\ wire' = <<>> /\ delivered' = <<>> /\ fed' = 0 /\ buffer_size' = 0
          /\ consumed' = 0
      BY <1>0, <1>2 DEF Reset, call, Position
    <2> QED BY <2>1 DEF FramesInOrder, Taken, Sent
  <1>3. CASE Steady
    BY <1>3, SentSteady DEF IInv, FramesInOrder, Steady, Taken
  <1>4. CASE Appends
    <2>1. PICK size \in 0..(Sent - fed) :
            buffer_size' = buffer_size + size /\ fed' = fed + size
      BY <1>4 DEF Appends
    <2>2. size \in Nat
      BY <1>0, <2>1
    <2>3. Taken' = Taken
      BY <1>0, <1>4, <2>1, <2>2 DEF Appends, Taken, Position
    <2>4. Sent' = Sent /\ UNCHANGED <<wire, start, delivered>>
      BY <1>4, SentSteady DEF Appends
    <2> QED BY <2>3, <2>4 DEF IInv, FramesInOrder
  <1>5. CASE Returns
    <2>1. Taken' = Taken
      BY <1>0, <1>5 DEF Returns, Taken, stream_consume
    <2>2. Sent' = Sent /\ UNCHANGED <<wire, start, delivered>>
      BY <1>5, SentSteady DEF Returns
    <2> QED BY <2>1, <2>2 DEF IInv, FramesInOrder
  <1>6. ASSUME NEW i \in DOMAIN wire, Takes(i)
        PROVE  FramesInOrder'
    <2> DEFINE entry == [frame |-> i, threshold |-> compression_threshold]
    <2>1. i = n + 1 /\ i \in 1..Len(wire) /\ entry.frame = i
      BY <1>0, <1>6, TakesNext DEF TypeOK
    <2>2. delivered' = Append(delivered, entry) /\ UNCHANGED <<wire, start>>
      BY <1>6 DEF Takes
    <2> HIDE DEF entry
    <2>3. /\ Len(delivered') = n + 1
          /\ \A k \in 1..n : delivered'[k] = delivered[k]
          /\ delivered'[n + 1] = entry
      BY <1>0, <2>2 DEF TypeOK
    <2>4. \A k \in 1..Len(delivered') : delivered'[k].frame = k
      BY <1>0, <2>1, <2>3 DEF IInv, FramesInOrder
    <2>5. Bytes(wire[i]) \in Nat /\ start[i] \in Nat
      BY <2>1, BytesPositive, ModelAssumption DEF IInv, TypeOK
    <2>6. Taken' = start[i] + Bytes(wire[i])
      BY <1>0, <1>6, <2>5 DEF Takes, Taken, Here
    <2>7. Taken' = IF i = Len(wire) THEN Sent ELSE start[i + 1]
      <3>1. CASE i = Len(wire)
        <4>1. wire # <<>>
          BY <2>1, <1>0
        <4> QED BY <2>6, <3>1, <4>1 DEF Sent
      <3>2. CASE i # Len(wire)
        <4>1. i \in 1..(Len(wire) - 1)
          BY <1>0, <2>1, <3>2
        <4> QED BY <2>6, <3>2, <4>1 DEF IInv, Layout
      <3> QED BY <3>1, <3>2
    <2>8. Sent' = Sent
      BY <2>2, SentSteady
    <2>9. Len(delivered') <= Len(wire')
      BY <1>0, <2>1, <2>2, <2>3
    <2> QED
      BY <1>0, <2>1, <2>2, <2>3, <2>4, <2>7, <2>8, <2>9 DEF FramesInOrder
  <1> QED BY <1>0, <1>1, <1>2, <1>3, <1>4, <1>5, <1>6, StepKinds

\* Every step keeps stream_offset the saturated count of the bytes consumed.
LEMMA OffsetStep ==
    ASSUME IInv, [Next]_vars
    PROVE  OffsetCountsStream'
  <1>0. /\ fed \in Nat /\ buffer_size \in Nat /\ consumed \in Nat
        /\ buffer_size <= fed /\ consumed <= buffer_size
        /\ TypeOK /\ Position /\ Sent \in Nat
        /\ stream_offset = MinOf(SizeMax, fed - buffer_size)
    BY SentNat, ConfigAssumption DEF IInv, TypeOK, Position, OffsetCountsStream
  <1>1. CASE PeerSend
    BY <1>0, <1>1, PeerSendFacts DEF OffsetCountsStream, MinOf
  <1>2. CASE Reset
    BY <1>2, ModelAssumption DEF Reset, OffsetCountsStream, MinOf
  <1>3. CASE Steady
    BY <1>0, <1>3 DEF Steady, OffsetCountsStream, MinOf
  <1>4. CASE Appends
    <2>1. PICK size \in 0..(Sent - fed) :
            buffer_size' = buffer_size + size /\ fed' = fed + size
      BY <1>4 DEF Appends
    <2>2. fed' - buffer_size' = fed - buffer_size
      BY <1>0, <2>1
    <2> QED BY <1>0, <1>4, <2>2 DEF Appends, OffsetCountsStream, MinOf
  <1>5. CASE Returns
    <2>1. stream_offset' = saturating_add(MinOf(SizeMax, fed - buffer_size), consumed)
          /\ fed' - buffer_size' = (fed - buffer_size) + consumed
      BY <1>0, <1>5 DEF Returns, stream_consume
    <2>2. fed - buffer_size \in Nat
      BY <1>0
    <2>3. stream_offset' = MinOf(SizeMax, (fed - buffer_size) + consumed)
      BY <1>0, <2>1, <2>2, SaturatingAdd
    <2> QED BY <2>1, <2>3 DEF OffsetCountsStream, MinOf
  <1>6. ASSUME NEW i \in DOMAIN wire, Takes(i)
        PROVE  OffsetCountsStream'
    BY <1>0, <1>6 DEF Takes, OffsetCountsStream, MinOf
  <1> QED BY <1>0, <1>1, <1>2, <1>3, <1>4, <1>5, <1>6, StepKinds

\* mc_stream_decoder_create establishes the inductive invariant.
LEMMA InitIInv ==
    ASSUME Init
    PROVE  IInv
  <1>1. TypeOK
    <2>1. NoError \in [code : McErrorCode, offset : 0..SizeMax]
      BY ModelAssumption DEF NoError, McErrorCode
    <2>2. /\ <<>> \in Seq(Frame) /\ <<>> \in Seq(Nat)
          /\ <<>> \in Seq([frame : Nat, threshold : Int])
          /\ <<>> \in Seq(ViewType)
          /\ -1 \in Int /\ Len(<<>>) = 0
      OBVIOUS
    <2>3. /\ 0 \in 0..max_output_size /\ 0 \in 0..max_buffered_size
          /\ 0 \in 0..SizeMax
      BY ConfigAssumption, ModelAssumption
    <2> QED BY <2>1, <2>2, <2>3 DEF Init, TypeOK
  <1>2. Layout /\ Position /\ FramesInOrder
    BY DEF Init, Layout, Position, FramesInOrder, Sent, Taken
  <1>3. OffsetCountsStream
    BY ModelAssumption DEF Init, OffsetCountsStream, MinOf
  <1> QED BY <1>1, <1>2, <1>3 DEF IInv

\* The inductive invariant holds of the decoder at every moment, inside feed
\* as well as between calls.
THEOREM InvariantHolds == Spec => []IInv
  <1>1. Init => IInv
    BY InitIInv
  <1>2. IInv /\ [Next]_vars => IInv'
    BY TypeStep, LayoutStep, PositionStep, OrderStep, OffsetStep DEF IInv
  <1> QED BY <1>1, <1>2, PTL DEF Spec

\* The type invariant: sizes never exceed the configured limits and offsets
\* never exceed SIZE_MAX, whatever is fed.
THEOREM TypeCorrect == Spec => []TypeOK
  BY InvariantHolds, PTL DEF IInv

\* Frames come out once each and in order, and the decoder is always at a
\* frame boundary, for every chunking and capacity.
THEOREM DeliversInOrder == Spec => []FramesInOrder
  BY InvariantHolds, PTL DEF IInv

\* stream_offset counts the stream, saturation included.
THEOREM OffsetsCorrect == Spec => []OffsetCountsStream
  BY InvariantHolds, PTL DEF IInv

\* A full input buffer always has a frame (or an error) to hand out.
THEOREM FullBufferNeverStuck == Spec => []FullBufferDrains
  <1>1. IInv => FullBufferDrains
    <2>1. SUFFICES ASSUME IInv, pc = "idle", buffer_size = max_buffered_size
                   PROVE  stream_decoder_frame_ready
      BY DEF FullBufferDrains
    <2> DEFINE n == Len(delivered) + 1
               hdr == wire[n].hdr
    <2>2. /\ Sent \in Nat /\ fed \in Nat /\ buffer_size \in Nat
          /\ Len(delivered) \in Nat /\ Len(wire) \in Nat /\ DOMAIN wire = 1..Len(wire)
      BY <2>1, SentNat, ConfigAssumption DEF IInv, TypeOK
    <2>3. /\ buffer_size # 0 /\ fed <= Sent /\ consumed = 0
          /\ buffer_size >= max_frame_size + MaxVarInt
      BY <2>1, <2>2, ConfigAssumption, ModelAssumption DEF IInv, Position
    <2>4. Taken = fed - buffer_size /\ Taken < Sent
      BY <2>2, <2>3 DEF Taken
    <2>5. n \in DOMAIN wire /\ start[n] = fed - buffer_size
      BY <2>1, <2>2, <2>4 DEF IInv, FramesInOrder
    <2>6. /\ hdr \in VarInt /\ hdr.n \in Nat /\ hdr.n <= MaxVarInt /\ hdr.v \in Int
      <3>1. wire[n] \in FrameType
        BY <2>1, <2>5, ModelAssumption DEF IInv, TypeOK
      <3> QED BY <3>1, ModelAssumption DEF FrameType, VarInt
    <2> HIDE DEF n
    <2>7. stream_varint(hdr, buffer_size) # "PARTIAL"
      BY <2>2, <2>3, <2>6, ConfigAssumption, ModelAssumption DEF stream_varint
    <2>8. \/ Invalid(stream_varint(hdr, buffer_size))
          \/ stream_varint(hdr, buffer_size) = "COMPLETE"
      BY <2>2, <2>6, <2>7, VarIntVerdict DEF Invalid
    <2>9. hdr.v <= max_frame_size => buffer_size - hdr.n >= hdr.v
      BY <2>2, <2>3, <2>6, ConfigAssumption, ModelAssumption
    <2>10. hdr.v > max_frame_size \/ hdr.v <= max_frame_size
      BY <2>6, ConfigAssumption
    <2> QED
      BY <2>3, <2>5, <2>8, <2>9, <2>10 DEF stream_decoder_frame_ready
  <1> QED BY <1>1, InvariantHolds, PTL

(***************************************************************************)
(* The borrowed payloads.                                                  *)
(***************************************************************************)

\* Every step keeps the published views inside the live output allocation.
LEMMA ViewsStep ==
    ASSUME TypeOK, Position, BorrowedViewsIntact, [Next]_vars
    PROVE  BorrowedViewsIntact'
  <1> USE DEF peer, input, store, mode, status, call, results
  <1>0. output_size \in Nat /\ output_capacity \in Nat /\ output \in Nat
        /\ max_output_size \in Nat
    BY ConfigAssumption DEF TypeOK
  <1>1. CASE UNCHANGED <<store, frames>>
    BY <1>1 DEF BorrowedViewsIntact
  <1>2. ASSUME frames' = <<>>, output_size' \in {0, output_size},
               UNCHANGED <<output_capacity, output>>
        PROVE  BorrowedViewsIntact'
    BY <1>0, <1>2 DEF BorrowedViewsIntact
  <1>3. CASE Feed
    BY <1>2, <1>3
    DEF Feed, FeedInvalidArgument, FeedFailed, FeedRefused, FeedAppend
  <1>4. CASE FeedIteration
    <2>1. PICK i \in DOMAIN wire :
            /\ ~Incomplete(wire[i], Avail)
            /\ FeedBadFrame(i) \/ FeedOutOfMemory(i) \/ FeedFrame(i)
      BY <1>4 DEF FeedIteration
    <2>2. Looping /\ i \in Nat
      BY <1>4 DEF FeedIteration, TypeOK
    <2>3. CASE FeedBadFrame(i) \/ FeedOutOfMemory(i)
      BY <1>1, <2>3 DEF FeedBadFrame, FeedOutOfMemory
    <2>4. CASE FeedFrame(i)
      <3> DEFINE f == wire[i]
                 p == Packet(f)
                 e == PacketError(p, f.zlib)
                 grown == output_size + p.size > output_capacity
                 block == IF grown THEN output + 1 ELSE output
                 n == Len(frames)
      <3>1. p \in PacketType /\ LimitError(p) = Sound
        BY <2>1, <2>2, <2>4, IterationFacts DEF FeedFrame
      <3>2. /\ output_size + p.size \in 0..max_output_size
            /\ p.size \in Nat /\ p.id.n \in Nat
            /\ e = Sound => p.id.n <= p.size
        <4>1. p.size \in Nat /\ p.id.n \in Nat
          BY <3>1, ModelAssumption DEF PacketType, VarInt
        <4>2. output_size \in 0..max_output_size
          BY DEF TypeOK
        <4>3. /\ output_size + p.size <= max_output_size
              /\ e = Sound => p.id.n <= p.size
          BY <3>1, <4>2, PacketFacts
        <4> QED BY <1>0, <4>1, <4>3
      <3>3. /\ output_capacity' \in Reserved(output_capacity, output_size + p.size,
                                             max_output_size)
            /\ output' = block
            /\ \/ frames' = Rebase(grown) /\ output_size' = output_size
               \/ /\ e = Sound
                  /\ output_size' = output_size + p.size
                  /\ frames' = Append(Rebase(grown), View(i, block, p))
        BY <2>4 DEF FeedFrame
      <3> HIDE DEF f, p, e
      <3>4. /\ output_capacity' \in Nat
            /\ output_size + p.size <= output_capacity'
        <4>1. output_capacity \in 0..max_output_size
          BY DEF TypeOK
        <4>2. output_capacity' \in (output_size + p.size)..max_output_size
          BY <1>0, <3>2, <3>3, <4>1, ReservedBounds
        <4> QED BY <1>0, <3>2, <4>2
      <3>5. grown \in BOOLEAN /\ block \in Nat
        BY <1>0
      <3>6. /\ Rebase(grown) \in Seq(ViewType)
            /\ Len(Rebase(grown)) = n
            /\ n \in Nat
            /\ \A k \in 1..n :
                 /\ Rebase(grown)[k].data = frames[k].data
                 /\ Rebase(grown)[k].size = frames[k].size
                 /\ Rebase(grown)[k].id_size = frames[k].id_size
                 /\ Rebase(grown)[k].output =
                      IF grown THEN output + 1 ELSE frames[k].output
        <4>1. n \in Nat
          BY DEF TypeOK
        <4> HIDE DEF grown
        <4> QED BY <3>5, <4>1, RebaseFacts
      <3>7. \A k \in 1..n :
              /\ frames[k].output = output
              /\ frames[k].data + frames[k].size <= output_size
              /\ \A j \in 1..(k - 1) :
                   frames[j].data + frames[j].size <= frames[k].data - frames[k].id_size
              /\ frames[k].data \in Nat /\ frames[k].size \in Nat
              /\ frames[k].id_size \in Nat
        <4>1. \A k \in 1..n : frames[k].data \in Nat /\ frames[k].size \in Nat
                              /\ frames[k].id_size \in Nat
          <5>1. \A k \in 1..n : frames[k] \in ViewType
            BY DEF TypeOK
          <5> QED BY <5>1 DEF ViewType
        <4> QED BY <4>1 DEF BorrowedViewsIntact
      <3>8. \A k \in 1..n : Rebase(grown)[k].output = block
        BY <3>6, <3>7
      <3> HIDE DEF grown, block
      <3>9. \A k \in 1..n : \A j \in 1..(k - 1) : j \in 1..n
        BY <3>6
      <3>10. CASE frames' = Rebase(grown) /\ output_size' = output_size
        <4>1. output_size' <= output_capacity'
          BY <1>0, <3>2, <3>4, <3>10
        <4> QED
          BY <3>3, <3>6, <3>7, <3>8, <3>9, <3>10, <4>1 DEF BorrowedViewsIntact
      <3>11. CASE /\ e = Sound
                  /\ output_size' = output_size + p.size
                  /\ frames' = Append(Rebase(grown), View(i, block, p))
        <4> DEFINE v == View(i, block, p)
        <4>1. /\ v \in ViewType /\ v.output = block
              /\ v.data = output_size + p.id.n
              /\ v.size = p.size - p.id.n
              /\ v.id_size = p.id.n
          BY <2>2, <3>1, <3>2, <3>5, <3>11, ViewFacts
        <4> HIDE DEF v
        <4>2. /\ Len(frames') = n + 1
              /\ \A k \in 1..n : frames'[k] = Rebase(grown)[k]
              /\ frames'[n + 1] = v
          BY <3>6, <3>11, <4>1 DEF v
        <4>3. /\ v.data + v.size = output_size'
              /\ v.data - v.id_size = output_size
          <5>1. /\ output_size \in Nat /\ p.size \in Nat /\ p.id.n \in Nat
                /\ output_size' = output_size + p.size
            BY <1>0, <3>2, <3>11, ConfigAssumption DEF PacketType, VarInt
          <5>2. /\ (output_size + p.id.n) + (p.size - p.id.n) = output_size + p.size
                /\ (output_size + p.id.n) - p.id.n = output_size
            BY <5>1
          <5> QED BY <4>1, <5>1, <5>2
        <4>a. \A k \in 1..n : /\ frames'[k].data = frames[k].data
                              /\ frames'[k].size = frames[k].size
                              /\ frames'[k].id_size = frames[k].id_size
                              /\ frames'[k].output = output'
          BY <3>3, <3>6, <3>8, <4>2
        <4>4. \A k \in 1..n :
                /\ frames'[k].output = output'
                /\ frames'[k].data + frames'[k].size <= output_size
                /\ \A j \in 1..(k - 1) :
                     frames'[j].data + frames'[j].size
                       <= frames'[k].data - frames'[k].id_size
          BY <3>7, <3>9, <4>a
        <4>5. \A k \in 1..n : frames'[k].data + frames'[k].size <= output_size'
          <5>1. \A x \in Nat : x <= output_size => x <= output_size'
            BY <1>0, <3>2, <3>11
          <5>2. \A k \in 1..n : frames'[k].data + frames'[k].size \in Nat
            BY <3>7, <4>a
          <5> QED BY <4>4, <5>1, <5>2
        <4>6. ASSUME NEW k \in 1..(n + 1)
              PROVE  /\ frames'[k].output = output'
                     /\ frames'[k].data + frames'[k].size <= output_size'
                     /\ \A j \in 1..(k - 1) :
                          frames'[j].data + frames'[j].size
                            <= frames'[k].data - frames'[k].id_size
          <5>1. CASE k \in 1..n
            BY <4>4, <4>5, <5>1
          <5>2. CASE k = n + 1
            <6>1. frames'[k] = v /\ \A j \in 1..(k - 1) : j \in 1..n
              BY <3>6, <4>2, <5>2
            <6>2. v.data + v.size <= output_size'
              BY <1>0, <3>2, <3>11, <4>3
            <6> QED BY <3>3, <4>1, <4>3, <4>4, <6>1, <6>2
          <5> QED BY <3>6, <5>1, <5>2
        <4>7. output_size' <= output_capacity'
          BY <3>4, <3>11
        <4> QED BY <4>2, <4>6, <4>7 DEF BorrowedViewsIntact
      <3> QED BY <3>3, <3>10, <3>11
    <2> QED BY <2>1, <2>3, <2>4
  <1>5. CASE Reset
    BY <1>2, <1>5 DEF Reset
  <1> QED
    BY <1>1, <1>3, <1>4, <1>5
    DEF Next, PeerSend, FeedReturn, SetCompression, Finish, vars

\* The payloads handed out by a feed stay valid and apart until the next feed
\* or reset, growth of the output and a failing later frame included.
THEOREM ViewsIntact == Spec => []BorrowedViewsIntact
  <1>1. Init => BorrowedViewsIntact
    BY DEF Init, BorrowedViewsIntact
  <1>2. IInv /\ BorrowedViewsIntact /\ [Next]_vars => BorrowedViewsIntact'
    BY ViewsStep DEF IInv
  <1> QED BY <1>1, <1>2, InvariantHolds, PTL DEF Spec

(***************************************************************************)
(* Errors and mode changes.                                                *)
(***************************************************************************)
\* feed enters its loop only on a decoder that has not failed, and the flag
\* that allows a mode change vouches for the latest feed's capacity stop.
CallInv ==
    /\ pc = "loop" => ~failed
    /\ compression_transition_ready /\ ~failed =>
         emitted # 0 /\ emitted = frame_capacity
    /\ compression_transition_ready => pc = "idle"

\* Every step keeps the call invariant.
LEMMA CallStep ==
    ASSUME TypeOK, CallInv, [Next]_vars
    PROVE  CallInv'
  <1> USE DEF peer, input, store, mode, status, call, results, emitted
  <1>1. CASE PeerSend \/ Finish \/ Reset \/ UNCHANGED vars
    BY <1>1 DEF PeerSend, Finish, Reset, vars, CallInv, stream_fail
  <1>2. CASE Feed
    BY <1>2 DEF Feed, FeedInvalidArgument, FeedFailed, FeedRefused, FeedAppend,
                CallInv, stream_fail
  <1>3. CASE FeedIteration
    <2>1. pc = "loop" /\ compression_transition_ready = FALSE
      BY <1>3 DEF FeedIteration, Looping, CallInv, TypeOK
    <2>2. /\ compression_transition_ready' = FALSE
          /\ pc' = "idle" \/ (pc' = pc /\ failed' = failed)
      BY <1>3, <2>1
      DEF FeedIteration, FeedBadFrame, FeedOutOfMemory, FeedFrame, FeedFails
    <2> QED BY <2>1, <2>2 DEF CallInv
  <1>4. CASE FeedReturn
    BY <1>4 DEF FeedReturn, StoppedAtCapacity, CallInv
  <1>5. ASSUME NEW threshold \in Threshold, SetCompression(threshold)
        PROVE  CallInv'
    BY <1>5 DEF SetCompression, CallInv
  <1> QED BY <1>1, <1>2, <1>3, <1>4, <1>5 DEF Next

\* The call invariant holds throughout.
LEMMA CallInvariant == Spec => [](IInv /\ CallInv)
  <1>1. Init => CallInv
    BY DEF Init, CallInv
  <1>2. IInv /\ CallInv /\ [Next]_vars => CallInv'
    BY CallStep DEF IInv
  <1> QED BY <1>1, <1>2, InvariantHolds, PTL DEF Spec

\* After the first error a decoder delivers nothing, consumes nothing and keeps
\* reporting that error until it is reset.
THEOREM StickyFailure == Spec => FailureIsSticky
  <1> DEFINE Sticky == failed => \/ /\ failed'
                                    /\ UNCHANGED <<last_error, delivered, fed,
                                         buffer_size, stream_offset,
                                         compression_threshold>>
                                 \/ ~failed' /\ wire' = <<>> /\ buffer_size' = 0
  <1>1. IInv /\ CallInv /\ [Next]_vars => [Sticky]_vars
    <2> SUFFICES ASSUME IInv, CallInv, Next, failed PROVE Sticky
      OBVIOUS
    <2> USE DEF peer, input, store, mode, status, call, results
    <2>1. pc = "idle"
      BY DEF CallInv, IInv, TypeOK
    <2>2. CASE PeerSend
      BY <2>2 DEF PeerSend
    <2>3. CASE Feed
      BY <2>3 DEF Feed, FeedInvalidArgument, FeedFailed, FeedRefused, FeedAppend,
                  stream_fail
    <2>4. CASE FeedIteration \/ FeedReturn
      BY <2>1, <2>4 DEF FeedIteration, Looping, FeedReturn
    <2>5. CASE \E threshold \in Threshold : SetCompression(threshold)
      BY <2>5 DEF SetCompression
    <2>6. CASE Finish
      BY <2>6 DEF Finish
    <2>7. CASE Reset
      BY <2>7 DEF Reset
    <2> QED BY <2>2, <2>3, <2>4, <2>5, <2>6, <2>7 DEF Next
  <1> QED BY <1>1, CallInvariant, PTL DEF Spec, FailureIsSticky

\* The threshold changes only with an empty buffer or right after a feed that
\* stopped because its array was full.
THEOREM ModeBetweenFrames == Spec => ModeChangesBetweenFrames
  <1> DEFINE Between == compression_threshold' # compression_threshold
                          /\ wire' # <<>>
                        => \/ buffer_size = 0
                           \/ emitted # 0 /\ emitted = frame_capacity
  <1>1. IInv /\ CallInv /\ [Next]_vars => [Between]_vars
    <2> SUFFICES ASSUME IInv, CallInv, Next PROVE Between
      OBVIOUS
    <2> USE DEF peer, input, store, mode, status, call, results
    <2>1. CASE PeerSend \/ Feed \/ FeedReturn \/ Finish
      BY <2>1 DEF PeerSend, Feed, FeedInvalidArgument, FeedFailed, FeedRefused,
                  FeedAppend, FeedReturn, Finish
    <2>2. CASE FeedIteration
      BY <2>2 DEF FeedIteration, FeedBadFrame, FeedOutOfMemory, FeedFrame, FeedFails
    <2>3. CASE \E threshold \in Threshold : SetCompression(threshold)
      BY <2>3 DEF SetCompression, TransitionRefused, CallInv
    <2>4. CASE Reset
      BY <2>4 DEF Reset
    <2> QED BY <2>1, <2>2, <2>3, <2>4 DEF Next
  <1> QED BY <1>1, CallInvariant, PTL DEF Spec, ModeChangesBetweenFrames

(***************************************************************************)
(* The decoder implements FrameChannel.                                    *)
(***************************************************************************)
handed_out == [k \in 1..Len(delivered) |-> wire[delivered[k].frame]]

\* The frames received are the first Len(delivered) frames sent.
LEMMA ReceivedPrefix ==
    ASSUME IInv
    PROVE  /\ handed_out = [k \in 1..Len(delivered) |-> wire[k]]
           /\ handed_out \in Seq(Frame)
           /\ Len(handed_out) = Len(delivered)
           /\ Len(delivered) \in Nat /\ Len(wire) \in Nat
           /\ Len(delivered) <= Len(wire)
  <1>1. /\ Len(delivered) \in Nat /\ Len(wire) \in Nat
        /\ \A k \in 1..Len(wire) : wire[k] \in Frame
    BY DEF IInv, TypeOK
  <1>2. /\ Len(delivered) <= Len(wire)
        /\ \A k \in 1..Len(delivered) : delivered[k].frame = k
    BY DEF IInv, FramesInOrder
  <1>3. handed_out = [k \in 1..Len(delivered) |-> wire[k]]
    BY <1>2 DEF handed_out
  <1>4. \A k \in 1..Len(delivered) : wire[k] \in Frame
    BY <1>1, <1>2
  <1> QED BY <1>1, <1>2, <1>3, <1>4

\* Every step of the decoder is a step of the abstract channel or leaves its
\* state alone.
LEMMA ChannelStep ==
    ASSUME IInv, IInv', CallInv, [Next]_vars
    PROVE  [Channel!Next]_Channel!vars
  <1> USE DEF peer, input, store, mode, status, call, results
  <1> DEFINE n == Len(delivered)
  <1>0. /\ handed_out = [k \in 1..n |-> wire[k]]
        /\ Len(handed_out) = n /\ n \in Nat /\ Len(wire) \in Nat /\ n <= Len(wire)
        /\ TypeOK /\ Position
    BY ReceivedPrefix DEF IInv
  <1>1. CASE PeerSend
    <2>1. /\ \A i \in 1..Len(wire) : wire'[i] = wire[i]
          /\ delivered' = delivered
      BY <1>0, <1>1, PeerSendFacts
    <2>2. handed_out' = handed_out
      <3>1. handed_out' = [k \in 1..Len(delivered') |-> wire'[delivered'[k].frame]]
        BY DEF handed_out
      <3>2. \A k \in 1..n : delivered[k].frame = k /\ wire'[k] = wire[k]
        BY <1>0, <2>1 DEF IInv, FramesInOrder
      <3> QED BY <1>0, <2>1, <3>1, <3>2
    <2>3. failed' = failed /\ \E f \in Frame : wire' = Append(wire, f)
      BY <1>1 DEF PeerSend
    <2> QED BY <2>2, <2>3 DEF Channel!Next, Channel!Send, handed_out
  <1>2. CASE Reset
    <2>1. wire' = <<>> /\ delivered' = <<>> /\ failed' = FALSE
      BY <1>2 DEF Reset
    <2>2. handed_out' = <<>>
      BY <2>1 DEF handed_out
    <2> QED BY <2>1, <2>2 DEF Channel!Next, Channel!Restart, handed_out
  <1>3. ASSUME UNCHANGED <<wire, delivered>>
        PROVE  handed_out' = handed_out
    BY <1>3 DEF handed_out
  <1>4. ASSUME UNCHANGED <<wire, delivered>>, failed' \in {failed, TRUE}
        PROVE  [Channel!Next]_Channel!vars
    BY <1>3, <1>4 DEF Channel!Next, Channel!Break, Channel!vars, handed_out
  <1>5. CASE Feed
    BY <1>4, <1>5 DEF Feed, FeedInvalidArgument, FeedFailed, FeedRefused,
                      FeedAppend, stream_fail
  <1>6. CASE FeedReturn \/ Finish \/ UNCHANGED vars
    BY <1>4, <1>6 DEF FeedReturn, Finish, vars, stream_fail
  <1>7. ASSUME NEW threshold \in Threshold, SetCompression(threshold)
        PROVE  [Channel!Next]_Channel!vars
    BY <1>4, <1>7 DEF SetCompression
  <1>8. CASE FeedIteration
    <2>1. PICK i \in DOMAIN wire :
            /\ Here(i)
            /\ ~Incomplete(wire[i], Avail)
            /\ FeedBadFrame(i) \/ FeedOutOfMemory(i) \/ FeedFrame(i)
      BY <1>8 DEF FeedIteration
    <2>2. ASSUME NEW e, FeedFails(e)
          PROVE  [Channel!Next]_Channel!vars
      BY <1>4, <2>2 DEF FeedFails, stream_fail
    <2>3. CASE FeedBadFrame(i) \/ FeedOutOfMemory(i)
      BY <2>2, <2>3 DEF FeedBadFrame, FeedOutOfMemory
    <2>4. CASE FeedFrame(i)
      <3> DEFINE entry == [frame |-> i, threshold |-> compression_threshold]
      <3>1. \/ \E e : FeedFails(e)
            \/ /\ delivered' = Append(delivered, entry)
               /\ consumed' = consumed + FrameLength(wire[i])
               /\ UNCHANGED <<wire, start, failed, fed, buffer_size, stream_offset, pc>>
        BY <2>4 DEF FeedFrame
      <3>2. ASSUME /\ delivered' = Append(delivered, entry)
                   /\ consumed' = consumed + FrameLength(wire[i])
                   /\ UNCHANGED <<wire, start, failed, fed, buffer_size,
                                  stream_offset, pc>>
            PROVE  Channel!Deliver
        <4>1. Looping /\ ~failed
          BY <1>8 DEF FeedIteration, Looping, CallInv
        <4>2. HeaderError(wire[i], Avail) = Sound
          BY <2>4 DEF FeedFrame
        <4>3. /\ FrameLength(wire[i]) = Bytes(wire[i])
              /\ consumed + FrameLength(wire[i]) <= buffer_size
          BY <1>0, <2>1, <4>1, <4>2, IterationFacts
        <4>4. Takes(i)
          BY <2>1, <3>2, <4>1, <4>3 DEF Takes, Looping
        <4>5. i = n + 1 /\ i \in 1..Len(wire)
          BY <1>0, <4>4, TakesNext DEF TypeOK
        <4>6. Len(delivered') = n + 1
          BY <1>0, <3>2 DEF TypeOK
        <4>7. handed_out' = [k \in 1..(n + 1) |-> wire[k]]
          <5>1. IInv'
            OBVIOUS
          <5>2. handed_out' = [k \in 1..Len(delivered') |-> wire'[delivered'[k].frame]]
            BY DEF handed_out
          <5>3. \A k \in 1..Len(delivered') : delivered'[k].frame = k
            BY <5>1 DEF IInv, FramesInOrder
          <5> QED BY <3>2, <4>6, <5>2, <5>3
        <4>8. [k \in 1..(n + 1) |-> wire[k]] = Append([k \in 1..n |-> wire[k]], wire[n + 1])
          <5>1. \A k \in 1..(n + 1) : wire[k] \in Frame
            BY <1>0, <4>5 DEF TypeOK
          <5> QED BY <1>0, <5>1
        <4>9. handed_out' = Append(handed_out, wire[Len(handed_out) + 1])
          BY <1>0, <4>7, <4>8
        <4>10. Len(handed_out) < Len(wire)
          BY <1>0, <4>5
        <4> QED BY <3>2, <4>1, <4>9, <4>10 DEF Channel!Deliver, handed_out
      <3> QED BY <2>2, <3>1, <3>2 DEF Channel!Next
    <2> QED BY <2>1, <2>3, <2>4
  <1> QED BY <1>1, <1>2, <1>5, <1>6, <1>7, <1>8 DEF Next

\* Whatever the chunking, the capacities and the failures, the decoder is an
\* in-order channel of whole frames that stops at its first error.
THEOREM Refinement == Spec => ImplementsChannel
  <1>1. Init => Channel!Init
    BY DEF Init, Channel!Init
  <1>2. IInv /\ IInv' /\ CallInv /\ [Next]_vars => [Channel!Next]_Channel!vars
    BY ChannelStep
  <1> QED
    BY <1>1, <1>2, CallInvariant, PTL DEF Spec, ImplementsChannel, Channel!Spec

-----------------------------------------------------------------------------
(***************************************************************************)
(* The verdict.  WellFormed looks at the whole frame as it lies on the     *)
(* stream; feed's checks look at it in the order of its parts, with as     *)
(* many bytes as there are.  They agree, and an error is placed inside the *)
(* headers of the frame it is about.                                       *)
(***************************************************************************)
\* stream_varint completes exactly the VarInts that can be read.
LEMMA VarIntReadable ==
    ASSUME NEW x \in VarInt, NEW avail \in Int
    PROVE  /\ stream_varint(x, avail) = "COMPLETE" <=> Readable(x, avail)
           /\ Readable(x, x.n) => ~Invalid(stream_varint(x, avail))
           /\ \/ stream_varint(x, avail) \in {"PARTIAL", "COMPLETE"}
              \/ Invalid(stream_varint(x, avail))
           /\ ~Invalid("PARTIAL") /\ ~Invalid("COMPLETE")
  BY ModelAssumption, ConfigAssumption DEF stream_varint, Readable, VarInt, Invalid

\* The header checks agree with the first part of WellFormed.
LEMMA HeaderVerdict ==
    ASSUME NEW f \in FrameType, NEW avail \in Int, ~Incomplete(f, avail)
    PROVE  /\ HeaderError(f, avail) = Sound <=>
                Readable(f.hdr, f.hdr.n) /\ f.hdr.v \in 1..max_frame_size
           /\ HeaderError(f, avail).at \in 0..(f.hdr.n - 1)
  <1>1. f.hdr \in VarInt /\ f.hdr.n \in Nat /\ f.hdr.n >= 1 /\ f.hdr.v \in Int
    BY ModelAssumption DEF FrameType, VarInt
  <1> DEFINE verdict == stream_varint(f.hdr, avail)
  <1>2. /\ verdict = "COMPLETE" => Readable(f.hdr, f.hdr.n)
        /\ Readable(f.hdr, f.hdr.n) => ~Invalid(verdict)
        /\ verdict \in {"PARTIAL", "COMPLETE"} \/ Invalid(verdict)
    BY <1>1, VarIntReadable DEF Readable
  <1>3. verdict # "PARTIAL"
    BY DEF Incomplete
  <1> HIDE DEF verdict
  <1>4. /\ Invalid(verdict) => ErrorAt(verdict, f.hdr.n - 1) # Sound
        /\ ErrorAt("INVALID_LENGTH", 0) # Sound
        /\ ErrorAt("FRAME_TOO_LARGE", 0) # Sound
    BY ErrorCode DEF Invalid
  <1>5. HeaderError(f, avail) = Sound <=>
          ~Invalid(verdict) /\ f.hdr.v \in 1..max_frame_size
    BY <1>1, <1>4, ConfigAssumption DEF HeaderError, verdict
  <1>6. HeaderError(f, avail).at \in 0..(f.hdr.n - 1)
    BY <1>1 DEF HeaderError, verdict, ErrorAt, Sound
  <1> QED
    BY <1>2, <1>3, <1>5, <1>6

\* The envelope checks of a frame whose header is sound.
EnvelopeWellFormed(f) ==
    compression_threshold >= 0 =>
    /\ Readable(f.first, f.hdr.v)
    /\ f.first.v \in 0..max_decompressed_size
    /\ strict => IF f.first.v = 0 THEN f.hdr.v - f.first.n < compression_threshold
                                  ELSE f.first.v >= compression_threshold

\* They agree with the middle part of WellFormed.
LEMMA EnvelopeVerdict ==
    ASSUME NEW f \in FrameType, compression_threshold \in Int, f.hdr.v \in 1..max_frame_size
    PROVE  /\ EnvelopeError(f) = Sound <=> EnvelopeWellFormed(f)
           /\ EnvelopeError(f).at \in 0..(f.hdr.n + f.first.n - 1)
  <1>1. /\ f.hdr.n \in Nat /\ f.hdr.n >= 1 /\ f.hdr.v \in Int
        /\ f.first \in VarInt /\ f.first.n \in Nat /\ f.first.n >= 1 /\ f.first.v \in Int
    BY ModelAssumption, ConfigAssumption DEF FrameType, VarInt
  <1> DEFINE verdict == stream_varint(f.first, f.hdr.v)
  <1>2. /\ verdict = "COMPLETE" <=> Readable(f.first, f.hdr.v)
        /\ verdict \in {"PARTIAL", "COMPLETE"} \/ Invalid(verdict)
        /\ ~Invalid("PARTIAL") /\ ~Invalid("COMPLETE")
    BY <1>1, VarIntReadable
  <1> HIDE DEF verdict
  <1>3. /\ Invalid(verdict) => ErrorAt(verdict, f.hdr.n + f.first.n - 1) # Sound
        /\ ErrorAt("COMPRESSION_HEADER", f.hdr.n) # Sound
        /\ ErrorAt("DECOMPRESSED_TOO_LARGE", f.hdr.n) # Sound
        /\ ErrorAt("COMPRESSION_THRESHOLD", f.hdr.n) # Sound
    BY ErrorCode DEF Invalid
  <1> DEFINE below == IF f.first.v = 0
                      THEN f.hdr.v - f.first.n >= compression_threshold
                      ELSE f.first.v < compression_threshold
  <1>4. EnvelopeError(f) = Sound <=>
          \/ compression_threshold < 0
          \/ /\ ~Invalid(verdict) /\ verdict # "PARTIAL" /\ f.first.v >= 0
             /\ f.first.v <= max_decompressed_size
             /\ ~(strict /\ below)
    BY <1>1, <1>3, ConfigAssumption DEF EnvelopeError, verdict
  <1>5. below <=> ~(IF f.first.v = 0 THEN f.hdr.v - f.first.n < compression_threshold
                                     ELSE f.first.v >= compression_threshold)
    BY <1>1
  <1>6. /\ ~Invalid(verdict) /\ verdict # "PARTIAL" <=> Readable(f.first, f.hdr.v)
        /\ f.first.v >= 0 /\ f.first.v <= max_decompressed_size
             <=> f.first.v \in 0..max_decompressed_size
    BY <1>1, <1>2, ConfigAssumption
  <1> HIDE DEF below
  <1>7. EnvelopeError(f) = Sound <=> EnvelopeWellFormed(f)
    BY <1>4, <1>5, <1>6, ConfigAssumption DEF EnvelopeWellFormed
  <1>8. EnvelopeError(f).at \in 0..(f.hdr.n + f.first.n - 1)
    BY <1>1 DEF EnvelopeError, verdict, ErrorAt, Sound
  <1> QED
    BY <1>7, <1>8

\* The last checks agree with the last part of WellFormed; every error in them
\* is placed no later than the end of the packet's id.
LEMMA PacketVerdict ==
    ASSUME NEW p \in PacketType, NEW zlib \in {"exact", "trailing", "mismatch"}
    PROVE  /\ PacketError(p, zlib) = Sound <=>
                /\ p.compressed => zlib # "mismatch" /\ (strict => zlib = "exact")
                /\ Readable(p.id, p.size) /\ p.id.v >= 0
           /\ \A e \in Failures(p, zlib) : e.at \in p.at..(p.at + p.id.n - 1)
           /\ \A e \in Failures(p, zlib) :
                PacketError(p, zlib) = Sound => e.code = "ZLIB" /\ p.compressed
  <1>1. /\ p.size \in Nat /\ p.at \in Nat /\ p.compressed \in BOOLEAN
        /\ p.id \in VarInt /\ p.id.n \in Nat /\ p.id.n >= 1 /\ p.id.v \in Int
    BY ModelAssumption DEF PacketType, VarInt
  <1> DEFINE verdict == stream_varint(p.id, p.size)
             inflates == p.compressed => zlib # "mismatch" /\ (strict => zlib = "exact")
  <1>2. /\ verdict = "COMPLETE" <=> Readable(p.id, p.size)
        /\ verdict \in {"PARTIAL", "COMPLETE"} \/ Invalid(verdict)
        /\ ~Invalid("PARTIAL") /\ ~Invalid("COMPLETE")
    BY <1>1, VarIntReadable
  <1> HIDE DEF verdict
  <1>3. /\ Invalid(verdict) => ErrorAt(verdict, p.at + p.id.n - 1) # Sound
        /\ ErrorAt("ZLIB", p.at) # Sound
        /\ ErrorAt("INVALID_PACKET_BODY", p.at) # Sound
    BY ErrorCode DEF Invalid
  <1>4. inflates <=> ~(p.compressed /\ (zlib = "mismatch" \/ (strict /\ zlib = "trailing")))
    BY <1>1, ConfigAssumption
  <1> HIDE DEF inflates
  <1>5. PacketError(p, zlib) = Sound <=>
          /\ inflates /\ p.size # 0
          /\ ~Invalid(verdict) /\ verdict # "PARTIAL" /\ p.id.v >= 0
    BY <1>1, <1>3, <1>4 DEF PacketError, verdict
  <1>6. Readable(p.id, p.size) => p.size # 0
    BY <1>1 DEF Readable
  <1>7. PacketError(p, zlib) = Sound <=> inflates /\ Readable(p.id, p.size) /\ p.id.v >= 0
    BY <1>2, <1>5, <1>6
  <1>8. \A e \in Failures(p, zlib) : e.at \in p.at..(p.at + p.id.n - 1)
    <2>1. PacketError(p, zlib) = Sound \/ PacketError(p, zlib).at \in p.at..(p.at + p.id.n - 1)
      BY <1>1 DEF PacketError, verdict, ErrorAt
    <2>2. ErrorAt("ZLIB", p.at).at \in p.at..(p.at + p.id.n - 1)
      BY <1>1 DEF ErrorAt
    <2> QED
      BY <2>1, <2>2 DEF Failures
  <1>9. \A e \in Failures(p, zlib) :
          PacketError(p, zlib) = Sound => e.code = "ZLIB" /\ p.compressed
    BY ErrorCode DEF Failures
  <1> QED
    BY <1>7, <1>8, <1>9 DEF inflates

\* The decoder's checks accept a complete frame exactly when it is well formed.
LEMMA FrameVerdict ==
    ASSUME NEW f \in FrameType, NEW avail \in Int, ~Incomplete(f, avail),
           compression_threshold \in Int
    PROVE  WellFormed(f, compression_threshold) <=>
             /\ HeaderError(f, avail) = Sound
             /\ EnvelopeError(f) = Sound
             /\ PacketError(Packet(f), f.zlib) = Sound
  <1>1. /\ f.hdr.n \in Nat /\ f.hdr.v \in Int
        /\ f.first \in VarInt /\ f.first.n \in Nat /\ f.first.n >= 1 /\ f.first.v \in Int
        /\ f.second \in VarInt /\ f.second.n \in Nat /\ f.second.v \in Int
        /\ f.zlib \in {"exact", "trailing", "mismatch"}
    BY ModelAssumption DEF FrameType, VarInt
  <1>2. SUFFICES ASSUME Readable(f.hdr, f.hdr.n), f.hdr.v \in 1..max_frame_size
                 PROVE  WellFormed(f, compression_threshold) <=>
                          /\ EnvelopeError(f) = Sound
                          /\ PacketError(Packet(f), f.zlib) = Sound
    BY HeaderVerdict DEF WellFormed
  <1>3. EnvelopeError(f) = Sound <=> EnvelopeWellFormed(f)
    BY <1>2, EnvelopeVerdict
  <1>4. EnvelopeError(f) = Sound => Packet(f) \in PacketType
    BY <1>2, EnvelopeFacts
  <1> DEFINE p == Packet(f)
             rest == f.hdr.v - f.first.n
             Inflates == f.zlib # "mismatch" /\ (strict => f.zlib = "exact")
  <1>5. EnvelopeError(f) = Sound =>
          (PacketError(p, f.zlib) = Sound <=>
             /\ p.compressed => Inflates
             /\ Readable(p.id, p.size) /\ p.id.v >= 0)
    BY <1>1, <1>4, PacketVerdict
  <1>6. CASE compression_threshold < 0
    <2>1. ~p.compressed /\ p.id = f.first /\ p.size = f.hdr.v
      BY <1>6 DEF Packet
    <2>2. EnvelopeWellFormed(f)
      BY <1>6 DEF EnvelopeWellFormed
    <2>3. WellFormed(f, compression_threshold) <=> Readable(f.first, f.hdr.v) /\ f.first.v >= 0
      BY <1>2, <1>6 DEF WellFormed
    <2> QED
      BY <1>3, <1>5, <2>1, <2>2, <2>3
  <1>7. ASSUME compression_threshold >= 0
        PROVE  /\ p.compressed <=> f.first.v # 0
               /\ p.id = f.second
               /\ p.size = IF f.first.v = 0 THEN rest ELSE f.first.v
    <2>1. ~(compression_threshold < 0)
      BY <1>7
    <2>2. p = [size |-> IF f.first.v = 0 THEN rest ELSE f.first.v, id |-> f.second,
               at |-> f.hdr.n + f.first.n, compressed |-> f.first.v # 0]
      BY <2>1, Zenon DEF Packet
    <2> HIDE DEF p
    <2> QED
      BY <2>2, Zenon
  <1>8. CASE compression_threshold >= 0 /\ f.first.v = 0
    <2>1. ~p.compressed /\ p.id = f.second /\ p.size = rest
      BY <1>8, <1>7
    <2>2. EnvelopeWellFormed(f) <=>
            Readable(f.first, f.hdr.v) /\ (strict => rest < compression_threshold)
      BY <1>8, ConfigAssumption DEF EnvelopeWellFormed
    <2>3. WellFormed(f, compression_threshold) <=>
            /\ Readable(f.first, f.hdr.v)
            /\ strict => rest < compression_threshold
            /\ Readable(f.second, rest) /\ f.second.v >= 0
      BY <1>2, <1>8 DEF WellFormed
    <2> QED
      BY <1>3, <1>5, <2>1, <2>2, <2>3
  <1>9. CASE compression_threshold >= 0 /\ f.first.v # 0
    <2>1. p.compressed /\ p.id = f.second /\ p.size = f.first.v
      BY <1>9, <1>7
    <2>2. EnvelopeWellFormed(f) <=>
            /\ Readable(f.first, f.hdr.v) /\ f.first.v \in 1..max_decompressed_size
            /\ strict => f.first.v >= compression_threshold
      BY <1>1, <1>9, ConfigAssumption DEF EnvelopeWellFormed
    <2>3. WellFormed(f, compression_threshold) <=>
            /\ Readable(f.first, f.hdr.v) /\ f.first.v \in 1..max_decompressed_size
            /\ strict => f.first.v >= compression_threshold /\ f.zlib = "exact"
            /\ f.zlib # "mismatch"
            /\ Readable(f.second, f.first.v) /\ f.second.v >= 0
      BY <1>1, <1>2, <1>9, ConfigAssumption DEF WellFormed
    <2> QED
      BY <1>3, <1>5, <2>1, <2>2, <2>3
  <1> QED
    BY <1>6, <1>8, <1>9

\* Where the three VarInts of a frame end, and which error is about frame f.
HeadersEnd(f) == f.hdr.n + f.first.n + f.second.n - 1
About(f, e) ==
    e.code \in FormatError =>
    /\ e.at <= HeadersEnd(f)
    /\ WellFormed(f, compression_threshold) => e.code = "ZLIB" /\ f.first.v > 0

\* The iteration takes a well-formed frame, or fails with an error about it.
LEMMA IterationVerdict ==
    ASSUME TypeOK, Position, Looping, NEW i \in DOMAIN wire, ~Incomplete(wire[i], Avail),
           FeedBadFrame(i) \/ FeedOutOfMemory(i) \/ FeedFrame(i)
    PROVE  \/ \E e \in ErrorType : FeedFails(e) /\ About(wire[i], e)
           \/ /\ WellFormed(wire[i], compression_threshold)
              /\ delivered' = Append(delivered,
                                     [frame |-> i, threshold |-> compression_threshold])
              /\ UNCHANGED <<peer, input, mode, status>>
  <1> DEFINE f == wire[i]
             header == HeaderError(f, Avail)
             envelope == EnvelopeError(f)
             p == Packet(f)
  <1>1. /\ f \in FrameType /\ Avail \in Int /\ compression_threshold \in Int
        /\ header \in ErrorType
        /\ header = Sound =>
             /\ f.hdr.v \in 1..max_frame_size
             /\ envelope \in ErrorType
             /\ envelope = Sound => p \in PacketType /\ LimitError(p) \in ErrorType
    BY IterationFacts DEF TypeOK
  <1>2. /\ f.hdr.n \in Nat /\ f.hdr.n >= 1 /\ f.first.n \in Nat /\ f.first.n >= 1
        /\ f.second.n \in Nat /\ f.second.n >= 1 /\ f.first.v \in Int
        /\ f.zlib \in {"exact", "trailing", "mismatch"}
    BY <1>1, ModelAssumption DEF FrameType, VarInt
  <1>3. WellFormed(f, compression_threshold) <=>
          header = Sound /\ envelope = Sound /\ PacketError(p, f.zlib) = Sound
    BY <1>1, FrameVerdict
  <1>4. header.at <= HeadersEnd(f)
    BY <1>1, <1>2, HeaderVerdict DEF HeadersEnd
  <1>5. header = Sound => envelope.at <= HeadersEnd(f)
    BY <1>1, <1>2, EnvelopeVerdict DEF HeadersEnd
  <1>6. CASE FeedBadFrame(i)
    <2> DEFINE e == IF header # Sound THEN header
                    ELSE IF envelope # Sound THEN envelope ELSE LimitError(p)
    <2>1. FeedFails(e) /\ e \in ErrorType
      BY <1>1, <1>6 DEF FeedBadFrame
    <2>2. LimitError(p) # Sound => LimitError(p).code \notin FormatError
      BY ErrorCode DEF LimitError, FormatError
    <2>3. e # Sound
      BY <1>6 DEF FeedBadFrame
    <2>4. About(f, e)
      BY <1>3, <1>4, <1>5, <2>2, <2>3 DEF About
    <2> QED
      BY <2>1, <2>4
  <1>7. CASE FeedOutOfMemory(i)
    <2> DEFINE e == ErrorAt("OUT_OF_MEMORY", p.at)
    <2>1. FeedFails(e) /\ p.at \in Nat
      BY <1>1, <1>7 DEF FeedOutOfMemory, PacketType
    <2>2. e \in ErrorType /\ e.code \notin FormatError
      BY <2>1, ErrorCode DEF McErrorCode, FormatError
    <2> QED
      BY <2>1, <2>2 DEF About
  <1>8. CASE FeedFrame(i)
    <2>1. header = Sound /\ envelope = Sound
      BY <1>8 DEF FeedFrame
    <2>2. /\ p \in PacketType /\ Failures(p, f.zlib) \subseteq ErrorType
          /\ p.at \in Nat /\ p.id.n \in Nat
      <3>1. p \in PacketType /\ output_size \in 0..max_output_size
        BY <1>1, <2>1 DEF TypeOK
      <3> HIDE DEF p
      <3>2. Failures(p, f.zlib) \subseteq ErrorType
        BY <3>1, PacketFacts
      <3> QED
        BY <3>1, <3>2, ModelAssumption DEF PacketType, VarInt
    <2>3. /\ p.at + p.id.n - 1 <= HeadersEnd(f)
          /\ p.compressed => f.first.v > 0
      <3>1. CASE compression_threshold < 0
        BY <1>2, <3>1 DEF Packet, HeadersEnd
      <3>2. CASE ~(compression_threshold < 0)
        <4>1. p = [size |-> IF f.first.v = 0 THEN f.hdr.v - f.first.n ELSE f.first.v,
                   id |-> f.second, at |-> f.hdr.n + f.first.n,
                   compressed |-> f.first.v # 0]
          BY <3>2, Zenon DEF Packet
        <4> HIDE DEF p
        <4>2. /\ p.id = f.second /\ p.at = f.hdr.n + f.first.n
              /\ p.compressed <=> f.first.v # 0
          BY <4>1, Zenon
        <4>3. f.first.v \in 0..max_decompressed_size
          BY <1>1, <2>1, <3>2, EnvelopeVerdict DEF EnvelopeWellFormed
        <4> QED
          BY <1>2, <4>2, <4>3 DEF HeadersEnd
      <3> QED
        BY <3>1, <3>2
    <2>4. ASSUME NEW e \in Failures(p, f.zlib)
          PROVE  About(f, e)
      <3>1. /\ e.at \in p.at..(p.at + p.id.n - 1)
            /\ PacketError(p, f.zlib) = Sound => e.code = "ZLIB" /\ p.compressed
        BY <1>2, <2>2, PacketVerdict
      <3>2. e.at <= HeadersEnd(f)
        BY <1>2, <2>2, <2>3, <3>1 DEF HeadersEnd
      <3> QED
        BY <1>3, <2>3, <3>1, <3>2 DEF About
    <2>5. CASE \E e \in Failures(p, f.zlib) : FeedFails(e)
      BY <2>2, <2>4, <2>5
    <2>6. CASE /\ PacketError(p, f.zlib) = Sound
               /\ delivered' = Append(delivered,
                                      [frame |-> i, threshold |-> compression_threshold])
               /\ UNCHANGED <<peer, input, mode, status>>
      BY <1>3, <2>1, <2>6
    <2> QED
      BY <1>8, <2>5, <2>6 DEF FeedFrame
  <1> QED
    BY <1>6, <1>7, <1>8

\* The two halves of VerdictMatchesStream.
Published == \A k \in 1..Len(delivered) :
               WellFormed(wire[delivered[k].frame], delivered[k].threshold)
Refused ==
    failed /\ last_error.code \in FormatError =>
    LET i == Len(delivered) + 1 IN
    /\ i <= Len(wire)
    /\ WellFormed(wire[i], compression_threshold) =>
         last_error.code = "ZLIB" /\ wire[i].first.v > 0
    /\ fed - buffer_size = start[i]
    /\ last_error.offset >= MinOf(SizeMax, start[i])
    /\ last_error.offset <= MinOf(SizeMax, start[i] + HeadersEnd(wire[i]))

\* An iteration keeps them.
LEMMA IterationKeepsVerdict ==
    ASSUME IInv, CallInv, Published, FeedIteration
    PROVE  Published' /\ Refused'
  <1>1. PICK i \in DOMAIN wire :
          /\ Here(i) /\ ~Incomplete(wire[i], Avail)
          /\ FeedBadFrame(i) \/ FeedOutOfMemory(i) \/ FeedFrame(i)
    BY DEF FeedIteration
  <1>2. Looping /\ TypeOK /\ Position /\ ~failed
    BY DEF FeedIteration, IInv, CallInv, Looping
  <1>3. i = Len(delivered) + 1 /\ i \in 1..Len(wire)
    BY <1>1, <1>2, HereIsNext DEF Looping
  <1>4. /\ start[i] \in Nat /\ fed \in Nat /\ buffer_size \in Nat /\ consumed \in Nat
        /\ fed - buffer_size \in Nat /\ stream_offset = MinOf(SizeMax, fed - buffer_size)
        /\ Len(delivered) \in Nat
    BY <1>2, <1>3, ConfigAssumption DEF IInv, TypeOK, Position, OffsetCountsStream
  <1>5. CASE \E e \in ErrorType : FeedFails(e) /\ About(wire[i], e)
    <2>1. PICK e \in ErrorType : FeedFails(e) /\ About(wire[i], e)
      BY <1>5
    <2>2. /\ UNCHANGED <<wire, start, fed, delivered, compression_threshold>>
          /\ buffer_size' = buffer_size - consumed
          /\ last_error' = [code |-> e.code,
                            offset |-> saturating_add(stream_offset, consumed + e.at)]
      BY <1>2, <2>1 DEF FeedFails, stream_consume, stream_fail, stream_absolute_offset,
                        peer, mode
    <2>3. start[i] = (fed - buffer_size) + consumed /\ e.at \in Nat
      BY <1>1 DEF Here, ErrorType
    <2>4. last_error'.offset = MinOf(SizeMax, start[i] + e.at) /\ last_error'.code = e.code
      <3>1. saturating_add(MinOf(SizeMax, fed - buffer_size), consumed + e.at)
              = MinOf(SizeMax, (fed - buffer_size) + (consumed + e.at))
        <4>1. consumed + e.at \in Nat
          BY <1>4, <2>3
        <4> QED
          BY <1>4, <4>1, SaturatingAdd
      <3>2. (fed - buffer_size) + (consumed + e.at) = start[i] + e.at
        BY <1>4, <2>3
      <3> QED
        BY <1>4, <2>2, <3>1, <3>2
    <2>5. Published'
      BY <2>2 DEF Published, WellFormed, Readable
    <2>6. fed' - buffer_size' = start[i]
      BY <1>4, <2>2, <2>3
    <2>7. ASSUME e.code \in FormatError
          PROVE  /\ MinOf(SizeMax, start[i]) <= MinOf(SizeMax, start[i] + e.at)
                 /\ MinOf(SizeMax, start[i] + e.at)
                      <= MinOf(SizeMax, start[i] + HeadersEnd(wire[i]))
                 /\ WellFormed(wire[i], compression_threshold) =>
                      e.code = "ZLIB" /\ wire[i].first.v > 0
      <3>1. HeadersEnd(wire[i]) \in Int
        <4>1. wire[i] \in FrameType
          BY <1>2, <1>3, ModelAssumption DEF TypeOK
        <4> QED
          BY <4>1, ModelAssumption DEF FrameType, VarInt, HeadersEnd
      <3>2. e.at <= HeadersEnd(wire[i])
        BY <2>1, <2>7 DEF About
      <3> QED
        BY <1>4, <2>1, <2>3, <2>7, <3>1, <3>2, ModelAssumption DEF About, MinOf
    <2>8. Refused'
      BY <1>3, <2>2, <2>4, <2>6, <2>7 DEF Refused, WellFormed, Readable, HeadersEnd,
         MinOf
    <2> QED
      BY <2>5, <2>8
  <1>6. CASE /\ WellFormed(wire[i], compression_threshold)
             /\ delivered' = Append(delivered,
                                    [frame |-> i, threshold |-> compression_threshold])
             /\ UNCHANGED <<peer, input, mode, status>>
    <2> DEFINE entry == [frame |-> i, threshold |-> compression_threshold]
               n == Len(delivered)
    <2>1. delivered' = Append(delivered, entry) /\ wire' = wire /\ failed' = failed
      BY <1>6 DEF peer, status
    <2>2. entry.frame = i /\ entry.threshold = compression_threshold
      OBVIOUS
    <2> HIDE DEF entry
    <2>3. /\ Len(delivered') = n + 1
          /\ \A k \in 1..n : delivered'[k] = delivered[k]
          /\ delivered'[n + 1] = entry
      BY <1>2, <2>1 DEF TypeOK
    <2>4. \A k \in 1..(n + 1) :
            WellFormed(wire[delivered'[k].frame], delivered'[k].threshold)
      BY <1>4, <1>6, <2>2, <2>3 DEF Published
    <2>5. \A k \in 1..Len(delivered') :
            WellFormed(wire'[delivered'[k].frame], delivered'[k].threshold)
      BY <2>1, <2>3, <2>4
    <2>6. Published'
      BY <2>5 DEF Published, WellFormed, Readable
    <2> QED
      BY <1>2, <2>1, <2>6 DEF Refused
  <1> QED
    BY <1>1, <1>2, <1>5, <1>6, IterationVerdict

\* Every step keeps them: outside its loop feed reports no format error, and a
\* decoder that has failed changes nothing they speak of until it is reset.
LEMMA VerdictStep ==
    ASSUME IInv, CallInv, Published, Refused, [Next]_vars
    PROVE  Published' /\ Refused'
  <1> USE DEF peer, input, store, mode, status, call, results
  <1>0. /\ \A k \in 1..Len(delivered) : delivered[k].frame \in 1..Len(wire)
        /\ Len(delivered) \in Nat /\ Len(wire) \in Nat /\ TypeOK
    <2>1. /\ Len(delivered) \in Nat /\ Len(wire) \in Nat /\ TypeOK
          /\ Len(delivered) <= Len(wire)
          /\ \A k \in 1..Len(delivered) : delivered[k].frame = k
      BY DEF IInv, FramesInOrder, TypeOK
    <2> QED
      BY <2>1
  <1>1. CASE PeerSend
    <2>1. /\ \A i \in 1..Len(wire) : wire'[i] = wire[i] /\ start'[i] = start[i]
          /\ Len(wire') = Len(wire) + 1
          /\ UNCHANGED <<fed, buffer_size, delivered>>
      BY <1>0, <1>1, PeerSendFacts
    <2>2. UNCHANGED <<failed, last_error, compression_threshold>>
      BY <1>1 DEF PeerSend
    <2>3. Published'
      BY <1>0, <2>1 DEF Published, WellFormed, Readable
    <2>4. Refused'
      <3>1. SUFFICES ASSUME failed, last_error.code \in FormatError
                     PROVE  Refused'
        BY <2>2 DEF Refused
      <3>2. Len(delivered) + 1 \in 1..Len(wire)
        BY <1>0, <3>1 DEF Refused
      <3>3. /\ wire'[Len(delivered) + 1] = wire[Len(delivered) + 1]
            /\ start'[Len(delivered) + 1] = start[Len(delivered) + 1]
        BY <2>1, <3>2
      <3> QED
        BY <1>0, <2>1, <2>2, <3>1, <3>2, <3>3
        DEF Refused, WellFormed, Readable, HeadersEnd, MinOf
    <2> QED
      BY <2>3, <2>4
  <1>2. CASE Reset
    <2>1. delivered' = <<>> /\ failed' = FALSE
      BY <1>2 DEF Reset
    <2> QED
      BY <2>1 DEF Published, Refused
  <1>3. CASE FeedIteration
    BY <1>3, IterationKeepsVerdict
  <1> DEFINE Rest == UNCHANGED <<wire, start, delivered>>
             Silent == ~failed' \/ last_error'.code \notin FormatError
             Still == UNCHANGED <<fed, buffer_size, failed, last_error,
                                  compression_threshold>>
  <1>4. CASE Rest /\ (Silent \/ Still)
    <2>1. Published'
      BY <1>4 DEF Published, WellFormed, Readable
    <2>2. CASE Silent
      <3>1. ~(failed /\ last_error.code \in FormatError)'
        BY <2>2
      <3> QED
        BY <2>1, <3>1 DEF Refused, WellFormed, Readable, HeadersEnd, MinOf
    <2>3. CASE Still
      BY <1>4, <2>1, <2>3 DEF Refused, WellFormed, Readable, HeadersEnd, MinOf
    <2> QED
      BY <1>4, <2>1, <2>2, <2>3
  <1>5. ASSUME NEW code \in McErrorCode \ FormatError, NEW offset,
               stream_fail(code, offset),
               UNCHANGED <<fed, buffer_size, compression_threshold>>, failed \in BOOLEAN
        PROVE  Silent \/ Still
    BY <1>5 DEF stream_fail
  <1>6. /\ {"INVALID_ARGUMENT", "BUFFER_LIMIT", "OUT_OF_MEMORY", "PARTIAL_INPUT"}
             \subseteq McErrorCode \ FormatError
        /\ failed \in BOOLEAN
    BY <1>0 DEF McErrorCode, FormatError, TypeOK
  <1>7. CASE Feed
    <2>1. CASE FeedInvalidArgument
      BY <1>4, <1>5, <1>6, <2>1 DEF FeedInvalidArgument
    <2>2. CASE FeedFailed
      BY <1>4, <2>2 DEF FeedFailed
    <2>3. ASSUME NEW size \in 0..(Sent - fed), FeedRefused(size)
          PROVE  Published' /\ Refused'
      BY <1>4, <1>5, <1>6, <2>3 DEF FeedRefused
    <2>4. ASSUME NEW size \in 0..(Sent - fed), NEW capacity \in FrameCapacity,
                 FeedAppend(size, capacity)
          PROVE  Published' /\ Refused'
      BY <1>4, <2>4 DEF FeedAppend
    <2> QED
      BY <1>7, <2>1, <2>2, <2>3, <2>4 DEF Feed
  <1>8. CASE FeedReturn
    BY <1>4, <1>8 DEF FeedReturn, CallInv
  <1>9. ASSUME NEW threshold \in Threshold, SetCompression(threshold)
        PROVE  Published' /\ Refused'
    BY <1>4, <1>9 DEF SetCompression
  <1>10. CASE Finish
    BY <1>4, <1>5, <1>6, <1>10 DEF Finish
  <1>11. CASE UNCHANGED vars
    BY <1>4, <1>11 DEF vars
  <1> QED
    BY <1>1, <1>2, <1>3, <1>7, <1>8, <1>9, <1>10, <1>11 DEF Next

\* What the decoder publishes is well formed, and a format error is about the
\* first frame it has not published: however the stream is cut and whatever
\* modes it is read in.
THEOREM VerdictsCorrect == Spec => []VerdictMatchesStream
  <1>1. Init => Published /\ Refused
    BY DEF Init, Published, Refused
  <1>2. IInv /\ CallInv /\ Published /\ Refused /\ [Next]_vars => Published' /\ Refused'
    BY VerdictStep
  <1>3. IInv /\ Published /\ Refused => VerdictMatchesStream
    <2> SUFFICES ASSUME IInv, Published, Refused PROVE VerdictMatchesStream
      OBVIOUS
    <2>1. CASE failed /\ last_error.code \in FormatError
      <3> DEFINE i == Len(delivered) + 1
      <3>1. i \in 1..Len(wire) /\ wire[i] \in FrameType /\ start[i] \in Nat
        <4>1. i \in 1..Len(wire)
          BY <2>1 DEF Refused, IInv, TypeOK
        <4> QED
          BY <4>1, ModelAssumption DEF IInv, TypeOK
      <3> HIDE DEF i
      <3>2. start[i] + HeadersEnd(wire[i])
              = start[i] + wire[i].hdr.n + wire[i].first.n + wire[i].second.n - 1
        BY <3>1, ModelAssumption DEF HeadersEnd, FrameType, VarInt
      <3> QED
        BY <2>1, <3>1, <3>2 DEF VerdictMatchesStream, Published, Refused, i
    <2> QED
      BY <2>1 DEF VerdictMatchesStream, Published
  <1> QED
    BY <1>1, <1>2, <1>3, CallInvariant, PTL DEF Spec

-----------------------------------------------------------------------------
(* The readiness probe. *)

\* An iteration that does not fail emits a frame.
LEMMA IterationEmits ==
    ASSUME TypeOK, FeedIteration
    PROVE  (pc' = "idle" /\ failed') \/ frames' # <<>>
  <1>1. PICK i \in DOMAIN wire : FeedBadFrame(i) \/ FeedOutOfMemory(i) \/ FeedFrame(i)
    BY DEF FeedIteration
  <1>2. ASSUME NEW e, FeedFails(e)
        PROVE  pc' = "idle" /\ failed'
    BY <1>2 DEF FeedFails, stream_fail
  <1>3. CASE FeedBadFrame(i) \/ FeedOutOfMemory(i)
    BY <1>2, <1>3 DEF FeedBadFrame, FeedOutOfMemory
  <1>4. CASE FeedFrame(i)
    <2> DEFINE p == Packet(wire[i])
               grown == output_size + p.size > output_capacity
               block == IF grown THEN output + 1 ELSE output
    <2>1. \/ \E e \in Failures(p, wire[i].zlib) : FeedFails(e)
          \/ frames' = Append(Rebase(grown), View(i, block, p))
      BY <1>4 DEF FeedFrame
    <2>2. grown \in BOOLEAN
      OBVIOUS
    <2> HIDE DEF grown, block, p
    <2>3. Rebase(grown) \in Seq(ViewType)
      BY <2>2, RebaseFacts
    <2>4. \A view : Append(Rebase(grown), view) # <<>>
      BY <2>3
    <2> QED
      BY <1>2, <2>1, <2>4
  <1> QED
    BY <1>1, <1>3, <1>4

\* Before its first frame a call has consumed nothing.
NothingTaken == pc = "loop" /\ frames = <<>> => consumed = 0

\* Every step keeps it that way.
LEMMA NothingTakenStep ==
    ASSUME TypeOK, NothingTaken, [Next]_vars
    PROVE  NothingTaken'
  <1> USE DEF peer, input, store, mode, status, call, results
  <1>1. CASE PeerSend \/ Finish \/ Reset \/ UNCHANGED vars
    BY <1>1 DEF PeerSend, Finish, Reset, vars, NothingTaken
  <1>2. CASE Feed
    BY <1>2 DEF Feed, FeedInvalidArgument, FeedFailed, FeedRefused, FeedAppend,
                NothingTaken, TypeOK
  <1>3. CASE FeedIteration
    BY <1>3, IterationEmits DEF NothingTaken
  <1>4. CASE FeedReturn
    BY <1>4 DEF FeedReturn, NothingTaken
  <1>5. ASSUME NEW threshold \in Threshold, SetCompression(threshold)
        PROVE  NothingTaken'
    BY <1>5 DEF SetCompression, NothingTaken
  <1> QED
    BY <1>1, <1>2, <1>3, <1>4, <1>5 DEF Next

\* It holds throughout.
LEMMA NothingTakenAlways == Spec => []NothingTaken
  <1>1. Init => NothingTaken
    BY DEF Init, NothingTaken
  <1>2. IInv /\ NothingTaken /\ [Next]_vars => NothingTaken'
    BY NothingTakenStep DEF IInv
  <1> QED
    BY <1>1, <1>2, InvariantHolds, PTL DEF Spec

\* The probe looks at a frame as feed's loop does.
LEMMA ProbeSeesFrame ==
    ASSUME TypeOK, NEW i \in DOMAIN wire
    PROVE  ~Incomplete(wire[i], buffer_size) <=>
             LET hdr == wire[i].hdr
                 verdict == stream_varint(hdr, buffer_size)
             IN  \/ Invalid(verdict)
                 \/ /\ verdict = "COMPLETE"
                    /\ hdr.v <= 0 \/ hdr.v > max_frame_size \/ buffer_size - hdr.n >= hdr.v
  <1> DEFINE f == wire[i]
             verdict == stream_varint(f.hdr, buffer_size)
  <1>1. f \in FrameType
    BY ModelAssumption DEF TypeOK
  <1>2. /\ f.hdr \in VarInt /\ f.hdr.n \in Nat /\ f.hdr.v \in Int /\ buffer_size \in Int
    <2>1. f.hdr \in VarInt /\ buffer_size \in Int
      BY <1>1, ConfigAssumption DEF FrameType, TypeOK
    <2> QED
      BY <2>1, ModelAssumption DEF VarInt
  <1>3. /\ verdict \in {"PARTIAL", "COMPLETE"} \/ Invalid(verdict)
        /\ ~Invalid("PARTIAL") /\ ~Invalid("COMPLETE")
    BY <1>2, VarIntReadable
  <1> HIDE DEF verdict, f
  <1>4. /\ Invalid(verdict) => ErrorAt(verdict, f.hdr.n - 1) # Sound
        /\ ErrorAt("INVALID_LENGTH", 0) # Sound
        /\ ErrorAt("FRAME_TOO_LARGE", 0) # Sound
    BY ErrorCode DEF Invalid
  <1>5. HeaderError(f, buffer_size) = Sound <=>
          ~Invalid(verdict) /\ ~(f.hdr.v <= 0) /\ ~(f.hdr.v > max_frame_size)
    BY <1>2, <1>4 DEF HeaderError, verdict
  <1>6. buffer_size - f.hdr.n < f.hdr.v <=> ~(buffer_size - f.hdr.n >= f.hdr.v)
    BY <1>2
  <1> QED
    BY <1>3, <1>5, <1>6 DEF Incomplete, verdict, f

\* A call that may emit gets somewhere exactly when the probe says so: the
\* client neither waits on its socket with a frame at hand nor reads without one.
THEOREM ProbeExact == Spec => ProbeTellsOutcome
  <1> DEFINE Tells == pc = "loop" /\ emitted = 0 /\ frame_capacity # 0 /\ wire' = wire
                        => (stream_decoder_frame_ready <=> (failed' \/ frames' # <<>>))
  <1>1. IInv /\ CallInv /\ NothingTaken /\ [Next]_vars => [Tells]_vars
    <2> SUFFICES ASSUME IInv, CallInv, NothingTaken, Next, pc = "loop", emitted = 0,
                        frame_capacity # 0, wire' = wire
                 PROVE  stream_decoder_frame_ready <=> (failed' \/ frames' # <<>>)
      OBVIOUS
    <2>1. /\ TypeOK /\ ~failed /\ frames = <<>> /\ consumed = 0 /\ Avail = buffer_size
          /\ buffer_size \in Nat /\ fed \in Nat /\ frame_capacity \in Nat
      BY ConfigAssumption DEF IInv, CallInv, NothingTaken, TypeOK, emitted, Avail
    <2>2. stream_decoder_frame_ready <=>
            /\ buffer_size # 0
            /\ \E i \in DOMAIN wire : Here(i) /\ ~Incomplete(wire[i], Avail)
      <3>1. \A i \in DOMAIN wire : Here(i) <=> start[i] = fed - buffer_size
        BY <2>1 DEF Here
      <3> QED
        BY <2>1, <3>1, ProbeSeesFrame DEF stream_decoder_frame_ready
    <2>3. CASE FeedIteration
      <3>1. stream_decoder_frame_ready
        BY <2>1, <2>2, <2>3 DEF FeedIteration, Looping
      <3> QED
        BY <2>1, <2>3, <3>1, IterationEmits
    <2>4. CASE FeedReturn
      <3>1. ~failed' /\ frames' = <<>>
        BY <2>1, <2>4 DEF FeedReturn, status, results
      <3>2. ~stream_decoder_frame_ready
        <4>1. SUFFICES ASSUME buffer_size # 0, NEW j \in DOMAIN wire, Here(j)
                       PROVE  Incomplete(wire[j], Avail)
          BY <2>2
        <4>2. Looping
          BY <2>1, <4>1 DEF Looping
        <4>3. PICK i \in DOMAIN wire : Here(i) /\ Incomplete(wire[i], Avail)
          BY <2>4, <4>2 DEF FeedReturn
        <4>4. consumed < buffer_size
          BY <4>2 DEF Looping
        <4> QED
          BY <4>1, <4>3, <4>4, HereIsNext
      <3> QED
        BY <3>1, <3>2
    <2>5. ~PeerSend
      BY <2>1, PeerSendFacts
    <2>6. ~Feed /\ ~Finish /\ ~Reset /\ \A threshold \in Threshold : ~SetCompression(threshold)
      BY DEF Feed, FeedInvalidArgument, FeedFailed, FeedRefused, FeedAppend, Finish,
             Reset, SetCompression
    <2> QED
      BY <2>3, <2>4, <2>5, <2>6 DEF Next
  <1> QED
    BY <1>1, CallInvariant, NothingTakenAlways, PTL DEF Spec, ProbeTellsOutcome

=============================================================================
