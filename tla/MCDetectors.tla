---------------------------- MODULE MCDetectors ----------------------------
(* TLC instances of the detectors. *)
EXTENDS Detectors

\* SYN, SYN/FIN, null and a Xmas tree that is a SYN/FIN too.
TcpFlags == {{"SYN"}, {"SYN", "FIN"}, {}, {"SYN", "FIN", "PSH", "URG"}}
=============================================================================
