----------------------------- MODULE MCAnalyzer -----------------------------
(* TLC instances of the analyzer. *)
EXTENDS Analyzer
=============================================================================
