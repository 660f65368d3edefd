---------------------------- MODULE FrameChannel ----------------------------
(***************************************************************************)
(* What incremental framing promises to its caller: the frames one peer    *)
(* sends on one stream come out whole, once each and in the order sent,    *)
(* until the channel breaks; a broken channel delivers nothing more until  *)
(* it is restarted for a new stream.                                       *)
(***************************************************************************)
EXTENDS Naturals, Sequences

CONSTANT Frame   \* the frames a peer can send

VARIABLES
    sent,       \* the frames of the current stream, in sending order
    received,   \* the frames handed to the caller, in delivery order
    broken      \* TRUE from the first error on

vars == <<sent, received, broken>>

Init == sent = <<>> /\ received = <<>> /\ broken = FALSE

Send ==
    /\ \E f \in Frame : sent' = Append(sent, f)
    /\ UNCHANGED <<received, broken>>

Deliver ==
    /\ ~broken
    /\ Len(received) < Len(sent)
    /\ received' = Append(received, sent[Len(received) + 1])
    /\ UNCHANGED <<sent, broken>>

Break ==
    /\ broken' = TRUE
    /\ UNCHANGED <<sent, received>>

Restart == sent' = <<>> /\ received' = <<>> /\ broken' = FALSE

Next == Send \/ Deliver \/ Break \/ Restart

Spec == Init /\ [][Next]_vars

=============================================================================
