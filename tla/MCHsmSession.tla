---------------------------- MODULE MCHsmSession ----------------------------
(* Instances of HsmSession for TLC. *)
EXTENDS HsmSession

CONSTANTS l1, l2
=============================================================================
