----------------------------- MODULE MCPipeline -----------------------------
(***************************************************************************)
(* The orderly pipeline for TLC: two commands in flight, one notification  *)
(* or block between or inside their answers, answers of up to two lines.   *)
(***************************************************************************)
EXTENDS OrderlyPipeline
=============================================================================
