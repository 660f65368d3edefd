---------------------------- MODULE MCFrameLink ----------------------------
(***************************************************************************)
(* A small instance of FrameLink for TLC.                                  *)
(***************************************************************************)
EXTENDS FrameLink

MCThreshold == {-1, 3}

MCFrame == UNION {{encode_frame(id, size, threshold, deflated) :
                       deflated \in Compressed(PlainSize(id, size))} :
                     id \in PacketId, size \in PayloadSize, threshold \in MCThreshold}
=============================================================================
