--------------------------- MODULE CommandChannel ---------------------------
(***************************************************************************)
(* What the codec promises to a client that pipelines commands: the n-th   *)
(* message delivered as a reply is the n-th answer the server completed,   *)
(* and the server answers the requests in the order they were made.        *)
(* Nothing is said of lines, of response kinds or of notifications.        *)
(***************************************************************************)
EXTENDS Naturals, Sequences

VARIABLES
  requests,   \* what the client has asked
  answers,    \* what the server has answered, the n-th to the n-th request
  delivered   \* what the client has been given

channelVars == <<requests, answers, delivered>>

\* One more element at the end of the sequence s gives t.
Extends(s, t) == Len(t) = Len(s) + 1 /\ \A i \in 1..Len(s) : t[i] = s[i]

Init == requests = <<>> /\ answers = <<>> /\ delivered = <<>>

Ask == Extends(requests, requests') /\ UNCHANGED <<answers, delivered>>

Answer ==
  /\ Len(answers) < Len(requests)
  /\ Extends(answers, answers')
  /\ UNCHANGED <<requests, delivered>>

Deliver ==
  /\ Len(delivered) < Len(answers)
  /\ delivered' = Append(delivered, answers[Len(delivered) + 1])
  /\ UNCHANGED <<requests, answers>>

Next == Ask \/ Answer \/ Deliver

Spec == Init /\ [][Next]_channelVars
=============================================================================
