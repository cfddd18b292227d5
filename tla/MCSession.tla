------------------------------ MODULE MCSession ------------------------------
(***************************************************************************)
(* The session for TLC.  The models of this module differ in the commands  *)
(* the caller has and in what the server sends.                            *)
(***************************************************************************)
EXTENDS OrderlySession
=============================================================================
