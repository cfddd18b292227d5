------------------------------ MODULE MCFaults ------------------------------
(***************************************************************************)
(* The pipeline with everything that can go wrong, for TLC: lines that are *)
(* not UTF-8, limits that are met, commands that are rejected.  The models *)
(* of this module differ in which of these they allow.                     *)
(***************************************************************************)
EXTENDS PipelineClaims, FaultyPipeline
=============================================================================
