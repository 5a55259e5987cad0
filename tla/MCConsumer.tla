---------------------------- MODULE MCConsumer ----------------------------
(* TLC instances of the consumers. *)
EXTENDS Consumer

Roles == [c \in Consumers |-> CASE c = "narr" -> "narrator" [] c = "met" -> "metrics"
                                [] OTHER -> "traffic"]
=============================================================================
