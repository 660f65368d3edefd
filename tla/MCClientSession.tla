--------------------------- MODULE MCClientSession ---------------------------
(***************************************************************************)
(* Instances of ClientSession for TLC: one compression threshold, small    *)
(* packet limits and two connections of the same client object.            *)
(***************************************************************************)
EXTENDS ClientSession

MCLevel == {256}
=============================================================================
