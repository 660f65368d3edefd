-------------------------- MODULE MCStreamDecoder --------------------------
(***************************************************************************)
(* Small instances of StreamDecoder for TLC.                               *)
(***************************************************************************)
EXTENDS StreamDecoder

Canonical(n, v) == [n |-> n, v |-> v, form |-> "canonical"]
Padded(n, v) == [n |-> n, v |-> v, form |-> "padded"]
Overflow == [n |-> MaxVarInt, v |-> 0, form |-> "overflow"]

MCFrame(hdr, first, second, zlib) ==
    [hdr |-> hdr, first |-> first, second |-> second, zlib |-> zlib]

One == Canonical(1, 1)

\* Plain packets, read as envelopes when compression is on.
PlainFrames == {
    MCFrame(One, One, One, "mismatch"),
    MCFrame(Canonical(1, 3), One, One, "mismatch") }

\* Envelopes: below the threshold, inflated, inflated to the limit.
EnvelopeFrames == {
    MCFrame(Canonical(1, 2), Canonical(1, 0), One, "mismatch"),
    MCFrame(Canonical(1, 3), Canonical(1, 2), One, "exact"),
    MCFrame(Canonical(1, 2), Canonical(1, 4), One, "exact") }

\* One frame for each way a frame can be malformed, and one that no buffer
\* could ever hold.
BadFrames == {
    MCFrame(Overflow, One, One, "mismatch"),
    MCFrame(Padded(2, 2), Canonical(1, 0), One, "mismatch"),
    MCFrame(Canonical(1, 0), One, One, "mismatch"),
    MCFrame(Canonical(1, 4), One, One, "mismatch"),
    MCFrame(Canonical(1, 6), One, One, "mismatch"),
    MCFrame(One, Overflow, One, "mismatch"),
    MCFrame(Canonical(1, 2), Canonical(2, -1), One, "mismatch"),
    MCFrame(Canonical(1, 3), Padded(2, 2), One, "exact"),
    MCFrame(Canonical(1, 2), Canonical(1, 5), One, "exact"),
    MCFrame(Canonical(1, 3), Canonical(1, 2), One, "trailing"),
    MCFrame(Canonical(1, 3), Canonical(1, 2), Padded(2, 1), "exact"),
    MCFrame(Canonical(1, 3), Canonical(1, 1), Overflow, "exact"),
    MCFrame(Canonical(1, 2), Canonical(1, 2), Canonical(1, -1), "exact"),
    MCFrame(One, Canonical(1, 0), One, "exact") }

GoodFrames == PlainFrames \cup EnvelopeFrames
AllFrames == GoodFrames \cup BadFrames

MCThreshold == {-1, 0, 2}
OffOrTwo == {-1, 2}
=============================================================================
