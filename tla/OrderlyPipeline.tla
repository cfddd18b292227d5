--------------------------- MODULE OrderlyPipeline ---------------------------
(***************************************************************************)
(* The pipeline with a server that answers every command, and every answer *)
(* of the kind expected_response() says.  Until the codec has returned an  *)
(* error or the encoder has rejected a command, its replies match; and     *)
(* when nothing can go wrong the codec implements a CommandChannel.  This  *)
(* module states the inductive invariant behind both.                      *)
(***************************************************************************)
EXTENDS Pipeline

ASSUME OrderlyAssumption ==
  {"SetVersionBelow4", "Pkcs11IdGet"} \cap Commands = {} /\ "malformed" \notin EventClasses

\* Every line is UTF-8, no command is rejected and no limit is met.
Faultless ==
  /\ "garbage" \notin EventClasses \cup BodyClasses
  /\ MaxRejects = 0
  /\ MaxEnvEntries = Unlimited
  /\ MaxMultiLineLines = Unlimited \/ MaxBody <= MaxMultiLineLines

Channel == INSTANCE CommandChannel WITH
  requests  <- sent,
  answers   <- [k \in 1..served |-> AnswerLines(k)],
  delivered <- [k \in 1..Len(replies) |-> Elements(replies[k].ids)]

\* The codec delivers the server's answers in the order of the commands,
\* each one whole: the pipeline, if faultless, implements the command channel.
ImplementsChannel == Channel!Spec
-----------------------------------------------------------------------------
Answering(l) == l.cmd > 0
Current == Len(replies) + 1

\* A line is a notification's or fits the answer to one of the commands cs.
LineFits(cs, l) ==
  IF l.cmd = 0 THEN l.class \in EventClasses \cup BlockClasses
  ELSE /\ l.cmd \in 1..Len(cs) /\ l.n >= 1
       /\ \/ /\ ExpectedResponse(cs[l.cmd]) = "SuccessOrError"
             /\ l.class \in {"success", "error"} /\ l.n = 1
          \/ /\ ExpectedResponse(cs[l.cmd]) = "MultiLine"
             /\ \/ l.class = "error" /\ l.n = 1
                \/ l.class = "end"
                \/ l.class \in BodyClasses /\ l.n <= MaxBody

LinesFit == \A p \in DOMAIN stream : LineFits(sent, stream[p])

\* How far the server has come with its answers, as the stream shows it.
ServerProgress ==
  \A p \in DOMAIN stream :
    IF Answering(stream[p]) /\ stream[p].cmd > served
    THEN stream[p].cmd = served + 1 /\ stream[p].n <= body /\ ~Terminal(stream[p])
    ELSE TRUE

\* Answers follow one another and a terminal line is the last of its answer.
LinesOrdered ==
  \A p, q \in DOMAIN stream : p < q /\ Answering(stream[p]) /\ Answering(stream[q]) =>
    \/ stream[p].cmd < stream[q].cmd
    \/ stream[p].cmd = stream[q].cmd /\ stream[p].n < stream[q].n /\ ~Terminal(stream[p])

\* The answer to the k-th command is complete in the stream s before position e.
Finished(s, k, e) ==
  \E q \in DOMAIN s : q < e /\ s[q].cmd = k /\ Terminal(s[q])

\* Its n-th line is there before position e.
HasLine(s, k, n, e) ==
  \E q \in DOMAIN s : q < e /\ s[q].cmd = k /\ s[q].n = n /\ ~Terminal(s[q])

\* No answer and no line of an answer is missing before a line of the stream.
LinesDense ==
  \A p \in DOMAIN stream : Answering(stream[p]) =>
    /\ \A k \in 1..(stream[p].cmd - 1) : Finished(stream, k, p)
    /\ \A n \in 1..(stream[p].n - 1) : HasLine(stream, stream[p].cmd, n, p)

\* The same of the answers the server has given so far.
ServedDense ==
  /\ \A k \in 1..served :
       \/ Finished(stream, k, Len(stream) + 1)
       \/ closed /\ k = served /\ ExpectedResponse(sent[k]) = "NoResponse"
  /\ \A n \in 1..body : HasLine(stream, served + 1, n, Len(stream) + 1)
  /\ body > 0 => served < Len(sent) /\ ExpectedResponse(sent[served + 1]) = "MultiLine"

ServerInv ==
  LinesFit /\ ServerProgress /\ LinesOrdered /\ LinesDense /\ ServedDense

\* The queue holds the kinds of the commands that have no reply yet.
QueueAligned ==
  /\ Len(sent) = Len(replies) + Len(expectedQueue)
  /\ \A i \in 1..Len(expectedQueue) : expectedQueue[i] = ExpectedResponse(sent[Len(replies) + i])

\* The lines decoded belong to replies given, or are the ones held back.
LinesBehind ==
  \A p \in 1..read : Answering(stream[p]) /\ stream[p].cmd > Len(replies) =>
    /\ stream[p].cmd = Current /\ ~Terminal(stream[p])
    /\ multiLineBuf # NoBuf /\ stream[p].n <= Len(multiLineBuf)

\* The lines still to come belong to replies still to come.
LinesAhead ==
  \A p \in DOMAIN stream : read < p /\ Answering(stream[p]) => stream[p].cmd > Len(replies)

\* The lines held back are the first ones of the current answer, in order.
BufCurrent ==
  multiLineBuf # NoBuf =>
    /\ Len(multiLineBuf) >= 1
    /\ \A j \in 1..Len(multiLineBuf) :
         /\ multiLineBuf[j] \in 1..read
         /\ stream[multiLineBuf[j]].cmd = Current
         /\ stream[multiLineBuf[j]].n = j
         /\ ~Terminal(stream[multiLineBuf[j]])

ClientInv == QueueAligned /\ LinesBehind /\ LinesAhead /\ BufCurrent

\* Nothing has gone wrong so far.
Unfailed == failures = 0 /\ rejected = 0

\* What holds of the codec until something goes wrong.
OrderlyInv == TypeOK /\ ServerInv /\ ClientInv /\ RepliesMatch

(***************************************************************************)
(* The replies match until the codec returns an error or the encoder       *)
(* rejects a command.                                                      *)
(***************************************************************************)
MatchUntilFailure == Unfailed => RepliesMatch

\* The inductive invariant.
PipelineInv ==
  TypeOK /\ ServerInv /\ (Unfailed => ClientInv /\ RepliesMatch) /\ (Faultless => Unfailed)
=============================================================================
