---------------------------- MODULE MCPublisher ----------------------------
(* TLC instances of the publisher. *)
EXTENDS Publisher
=============================================================================
