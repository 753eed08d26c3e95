------------------------- MODULE MCReleaseDelivery -------------------------
(* Instances of ReleaseDelivery for TLC. *)
EXTENDS ReleaseDelivery

CONSTANTS r1, r2, r3
=============================================================================
