----------------------------- MODULE MCRingBuf -----------------------------
(* TLC instances of the ring buffer. *)
EXTENDS RingBuf
=============================================================================
