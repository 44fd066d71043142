----------------------------- MODULE MCGnssRing -----------------------------
(* GnssRing on a ring of four cells and nine bytes: the indices wrap       *)
(* twice and the ring fills, drains and overflows.                         *)
EXTENDS GnssRing

=============================================================================
