---------------------------- MODULE MCConnection ----------------------------
(***************************************************************************)
(* The connection for TLC: small channels, and the startup options of a    *)
(* user who has turned everything off, which leaves three commands.        *)
(***************************************************************************)
EXTENDS ConnectionSafety

AllOff == [password |-> FALSE, bytecount |-> FALSE, holdRelease |-> FALSE, log |-> FALSE,
           state |-> FALSE, echo |-> FALSE, queryVersion |-> FALSE]
MCOptions == {AllOff}
=============================================================================
