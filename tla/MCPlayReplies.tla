---------------------------- MODULE MCPlayReplies ----------------------------
(***************************************************************************)
(* Instances of PlayReplies for TLC: two axes, so that a teleport can be   *)
(* relative in one and absolute in the other.                              *)
(***************************************************************************)
EXTENDS PlayReplies

TwoAxes == {"x", "yaw"}
OneAxis == {"x"}
MCCoord == {0, 1}
AllReplies == {"KEEP_ALIVE", "TELEPORT", "PLAYER_LOADED", "CHUNK_BATCH"}
=============================================================================
