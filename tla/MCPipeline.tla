----------------------------- MODULE MCPipeline -----------------------------
(* TLC instances of the live pipeline. *)
EXTENDS Pipeline
=============================================================================
