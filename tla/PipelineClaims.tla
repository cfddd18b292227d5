--------------------------- MODULE PipelineClaims ---------------------------
(***************************************************************************)
(* What the documentation, the comments and the tests of the repository    *)
(* say of the pipeline and the code does not do.                           *)
(***************************************************************************)
EXTENDS Pipeline

(***************************************************************************)
(* Every answer is recognised as one: no line of it comes out as an        *)
(* Unrecognized message.  ("the codec queues expected response types       *)
(* internally", openvpn-mgmt-codec/README.md; "can recover from error      *)
(* conditions ... and continue to correctly decode subsequent messages",   *)
(* tests/decoder_recovery.rs.)                                             *)
(***************************************************************************)
AnswersRecognised == \A k \in DOMAIN replies : replies[k].tag # "Unrecognized"
=============================================================================
