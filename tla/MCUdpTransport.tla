--------------------------- MODULE MCUdpTransport ---------------------------
(* UdpTransport with lengths in units of a quarter of the buffer: empty    *)
(* datagrams, ones that fit exactly and ones that are too long; writes     *)
(* that fit the transmit memory and one that does not; single polls and    *)
(* reads that sleep up to three times.                                     *)
EXTENDS UdpTransport

=============================================================================
