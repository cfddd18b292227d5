---------------------------- MODULE OrderlySession ----------------------------
(***************************************************************************)
(* The session over a server that answers every command, and every answer  *)
(* of the kind expected_response() says.  This module states the inductive *)
(* invariant behind OwnAnswer and KindMatches: as long as nothing has gone *)
(* wrong, the answers that methods given up have left behind are counted.  *)
(***************************************************************************)
EXTENDS Session, OrderlyPipeline

\* The server sends no >PKCS11ID-ENTRY: unasked.
ASSUME EntryAssumption == "entry" \notin EventClasses

\* The method that waits is that of the last command.
CallIsLast == call # 0 => call = Len(sent) /\ Open /\ Awaits(sent[call])

\* Every command sent has its reply, or has been given up, or is waited for.
AnswersCounted ==
  Unfailed /\ Open => Len(replies) + abandoned = IF call = 0 THEN Len(sent) ELSE Len(sent) - 1

\* The replies that methods have returned are among those decoded.
ResultsKnown == \A i \in DOMAIN results : results[i].reply <= Len(replies)

SessionInv ==
  /\ SessionTypeOK /\ PipelineInv
  /\ CallIsLast /\ AnswersCounted /\ ResultsKnown /\ OwnAnswer /\ KindMatches
=============================================================================
