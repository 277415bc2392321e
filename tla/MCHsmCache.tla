----------------------------- MODULE MCHsmCache -----------------------------
(* Instances of HsmCache for TLC. *)
EXTENDS HsmCache, TLC

CONSTANTS n1, n2, c1, w1

(* n1 is listed from the first version on, n2 in the second only.          *)
KnownDef == [n \in Node |-> IF n = n1 THEN Version ELSE {2} \intersect Version]
IpKnownDef == Version \ {1}

=============================================================================
