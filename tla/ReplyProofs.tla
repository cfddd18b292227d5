----------------------------- MODULE ReplyProofs -----------------------------
(***************************************************************************)
(* The inductive invariant of OrderlyPipeline, on the server's side and on *)
(* the client's side, and what follows from it: the k-th reply answers the *)
(* k-th command, and the pipeline, if faultless, implements a              *)
(* CommandChannel.                                                         *)
(***************************************************************************)
EXTENDS OrderlyPipeline, FaultProofs

(***************************************************************************)
(* The server's side.                                                      *)
(***************************************************************************)
\* What the stream holds, it still holds with one more line.
LEMMA StillThere ==
  ASSUME TypeOK, NEW l \in Lines, Emit(l), NEW k, NEW e \in Nat, NEW f \in Nat, e <= f
  PROVE  /\ Finished(stream, k, e) => Finished(stream', k, f)
         /\ \A n : HasLine(stream, k, n, e) => HasLine(stream', k, n, f)
  BY StreamFacts DEF Finished, HasLine

\* The lines already in the stream keep the answers before them.
LEMMA StillDense ==
  ASSUME TypeOK, LinesDense, NEW l \in Lines, Emit(l),
         NEW p \in 1..Len(stream), Answering(stream[p])
  PROVE  /\ \A k \in 1..(stream[p].cmd - 1) : Finished(stream', k, p)
         /\ \A n \in 1..(stream[p].n - 1) : HasLine(stream', stream[p].cmd, n, p)
<1>1. p \in Nat /\ p \in DOMAIN stream /\ p <= p
  BY StreamFacts
<1>2. /\ \A k \in 1..(stream[p].cmd - 1) : Finished(stream, k, p)
      /\ \A n \in 1..(stream[p].n - 1) : HasLine(stream, stream[p].cmd, n, p)
  BY <1>1 DEF LinesDense
<1>. QED BY <1>1, <1>2, StillThere

\* A notification changes nothing about the answers.
LEMMA ServerNotifies ==
  ASSUME TypeOK, ServerInv, NEW c \in EventClasses \cup BlockClasses,
         NEW k \in EnvKeys \cup {NoKey}, Emit(EventLine(c, k)),
         UNCHANGED <<served, body, closed>>
  PROVE  ServerInv'
<1>. DEFINE l == EventLine(c, k)
<1>1. l \in Lines /\ l.cmd = 0 /\ l.class = c
  BY EventLineType DEF EventLine
<1>. HIDE DEF l
<1>2. Emit(l)
  BY DEF l
<1>. USE <1>1, <1>2, StreamFacts DEF ServerInv
<1>3. LinesFit'
  BY DEF LinesFit, LineFits
<1>4. ServerProgress'
  BY DEF ServerProgress, Answering, Terminal
<1>5. LinesOrdered'
  BY DEF LinesOrdered, Answering, Terminal
<1>6. LinesDense'
  BY StillDense DEF LinesDense, Answering
<1>7. ServedDense'
  <2>1. Len(stream) + 1 \in Nat /\ Len(stream') + 1 \in Nat /\ Len(stream) + 1 <= Len(stream') + 1
    OBVIOUS
  <2>. QED BY <2>1, StillThere DEF ServedDense
<1>. QED BY <1>3, <1>4, <1>5, <1>6, <1>7

\* One more line of the answer that is being given.
LEMMA ServerContinues ==
  ASSUME TypeOK, ServerInv, NEW c \in BodyClasses, AnswerBody(c)
  PROVE  ServerInv'
<1>. DEFINE l == Line(c, served + 1, body + 1)
           e == Len(stream) + 1
<1>1. /\ l \in Lines /\ Emit(l) /\ l.cmd = served + 1 /\ l.n = body + 1 /\ l.class = c
      /\ served \in Nat /\ body \in Nat /\ c \notin {"success", "error", "end"}
  BY LineType, PipelineAssumption DEF AnswerBody, Line, TypeOK
<1>2. /\ served < Len(sent) /\ ExpectedResponse(sent[served + 1]) = "MultiLine" /\ ~closed
      /\ body + 1 <= MaxBody /\ body' = body + 1 /\ served' = served /\ closed' = closed
  BY PipelineAssumption DEF AnswerBody, Serving, Between, TypeOK
<1>. HIDE DEF l
<1>. USE <1>1, <1>2, StreamFacts DEF ServerInv
<1>3. LinesFit'
  <2>1. Len(sent) \in Nat
    BY DEF TypeOK
  <2>2. LineFits(sent, l)
    BY <2>1, PipelineAssumption DEF LineFits
  <2>. QED BY <2>2 DEF LinesFit
<1>4. ServerProgress'
  <2>. SUFFICES ASSUME NEW p \in 1..e, Answering(stream'[p]), stream'[p].cmd > served
                PROVE  stream'[p].cmd = served + 1 /\ stream'[p].n <= body + 1 /\ ~Terminal(stream'[p])
    BY DEF ServerProgress
  <2>1. CASE p \in 1..Len(stream)
    BY <2>1 DEF ServerProgress, Lines
  <2>2. CASE p = e
    BY <2>2 DEF Terminal
  <2>. QED BY <2>1, <2>2
<1>5. LinesOrdered'
  <2>. SUFFICES ASSUME NEW p \in 1..e, NEW q \in 1..e, p < q,
                       Answering(stream'[p]), Answering(stream'[q])
                PROVE  \/ stream'[p].cmd < stream'[q].cmd
                       \/ /\ stream'[p].cmd = stream'[q].cmd
                          /\ stream'[p].n < stream'[q].n /\ ~Terminal(stream'[p])
    BY DEF LinesOrdered
  <2>1. CASE q \in 1..Len(stream)
    <3>1. p \in 1..Len(stream) /\ stream'[p] = stream[p] /\ stream'[q] = stream[q]
      BY <2>1
    <3>. QED BY <2>1, <3>1 DEF LinesOrdered
  <2>2. CASE q = e
    <3>1. p \in 1..Len(stream) /\ stream[p].cmd \in Nat /\ stream[p].n \in Nat
      BY <2>2 DEF Lines
    <3>. QED BY <2>2, <3>1 DEF ServerProgress
  <2>. QED BY <2>1, <2>2
<1>6. e \in Nat /\ e <= e /\ e <= Len(stream') + 1 /\ Len(stream') + 1 \in Nat
  OBVIOUS
<1>7. /\ \A k \in 1..served : Finished(stream', k, e)
      /\ \A n \in 1..body : HasLine(stream', served + 1, n, e)
  BY <1>6, StillThere DEF ServedDense
<1>8. LinesDense'
  BY <1>7, StillDense DEF LinesDense, Answering
<1>9. ServedDense'
  <2>1. \A k \in 1..served : Finished(stream', k, Len(stream') + 1)
    BY <1>6, <1>7 DEF Finished
  <2>2. \A n \in 1..body : HasLine(stream', served + 1, n, Len(stream') + 1)
    BY <1>6, <1>7 DEF HasLine
  <2>3. HasLine(stream', served + 1, body + 1, Len(stream') + 1)
    BY DEF HasLine, Terminal
  <2>. QED BY <2>1, <2>2, <2>3 DEF ServedDense
<1>. QED BY <1>3, <1>4, <1>5, <1>8, <1>9

\* The last line of the answer that is being given.
LEMMA ServerCompletes ==
  ASSUME TypeOK, ServerInv, NEW c \in {"success", "error", "end"},
         Emit(Line(c, served + 1, body + 1)), ~closed, closed' = closed,
         served' = served + 1, body' = 0, LineFits(sent, Line(c, served + 1, body + 1))
  PROVE  ServerInv'
<1>. DEFINE l == Line(c, served + 1, body + 1)
           e == Len(stream) + 1
<1>1. /\ l \in Lines /\ Emit(l) /\ l.cmd = served + 1 /\ l.n = body + 1 /\ l.class = c
      /\ served \in Nat /\ body \in Nat /\ LineFits(sent, l)
  <2>1. served \in Nat /\ body \in Nat
    BY PipelineAssumption DEF TypeOK
  <2>. QED BY <2>1, LineType DEF Line
<1>. HIDE DEF l
<1>. USE <1>1, StreamFacts DEF ServerInv
<1>3. LinesFit'
  BY DEF LinesFit
<1>4. ServerProgress'
  BY DEF ServerProgress, Answering, Terminal, Lines
<1>5. LinesOrdered'
  <2>. SUFFICES ASSUME NEW p \in 1..e, NEW q \in 1..e, p < q,
                       Answering(stream'[p]), Answering(stream'[q])
                PROVE  \/ stream'[p].cmd < stream'[q].cmd
                       \/ /\ stream'[p].cmd = stream'[q].cmd
                          /\ stream'[p].n < stream'[q].n /\ ~Terminal(stream'[p])
    BY DEF LinesOrdered
  <2>1. CASE q \in 1..Len(stream)
    <3>1. p \in 1..Len(stream) /\ stream'[p] = stream[p] /\ stream'[q] = stream[q]
      BY <2>1
    <3>. QED BY <2>1, <3>1 DEF LinesOrdered
  <2>2. CASE q = e
    <3>1. p \in 1..Len(stream) /\ stream[p].cmd \in Nat /\ stream[p].n \in Nat
      BY <2>2 DEF Lines
    <3>. QED BY <2>2, <3>1 DEF ServerProgress
  <2>. QED BY <2>1, <2>2
<1>6. e \in Nat /\ e <= e /\ e <= Len(stream') + 1 /\ Len(stream') + 1 \in Nat
  OBVIOUS
<1>7. /\ \A k \in 1..served : Finished(stream', k, e)
      /\ \A n \in 1..body : HasLine(stream', served + 1, n, e)
  BY <1>6, StillThere DEF ServedDense
<1>8. LinesDense'
  <2>. SUFFICES ASSUME NEW p \in 1..e, Answering(stream'[p])
                PROVE  /\ \A k \in 1..(stream'[p].cmd - 1) : Finished(stream', k, p)
                       /\ \A n \in 1..(stream'[p].n - 1) : HasLine(stream', stream'[p].cmd, n, p)
    BY DEF LinesDense
  <2>1. CASE p \in 1..Len(stream)
    BY <2>1, StillDense
  <2>2. CASE p = e
    BY <1>7, <2>2
  <2>. QED BY <2>1, <2>2
<1>9. ServedDense'
  <2>1. \A k \in 1..served : Finished(stream', k, Len(stream') + 1)
    BY <1>6, <1>7 DEF Finished
  <2>2. Finished(stream', served + 1, Len(stream') + 1)
    BY DEF Finished, Terminal
  <2>. QED BY <2>1, <2>2 DEF ServedDense
<1>. QED BY <1>3, <1>4, <1>5, <1>8, <1>9

\* Every step keeps the server's part of the invariant.
LEMMA ServerStep ==
  ASSUME TypeOK, ServerInv, [Next]_vars
  PROVE  ServerInv'
<1>. USE DEF TypeOK
<1>1. ASSUME NEW c \in Commands, Send(c) PROVE ServerInv'
  <2>1. /\ sent' = Append(sent, c) /\ UNCHANGED serverVars
        /\ Len(sent') = Len(sent) + 1 /\ \A k \in 1..Len(sent) : sent'[k] = sent[k]
    BY <1>1, AppendFacts DEF Send
  <2>2. LinesFit'
    BY <2>1 DEF ServerInv, LinesFit, LineFits, serverVars
  <2>3. ServedDense'
    BY <2>1 DEF ServerInv, ServedDense, serverVars
  <2>. QED BY <2>1, <2>2, <2>3 DEF ServerInv, ServerProgress, LinesOrdered, LinesDense, serverVars
<1>2. ASSUME NEW c \in Commands, SendRejected(c) PROVE ServerInv'
  BY <1>2 DEF SendRejected, serverVars, ServerInv, LinesFit, ServerProgress, LinesOrdered, LinesDense,
     ServedDense
<1>3. CASE Decode \/ UNCHANGED vars
  BY <1>3 DEF Decode, vars, serverVars, ServerInv, LinesFit, ServerProgress,
     LinesOrdered, LinesDense, ServedDense
<1>4. ASSUME NEW c \in {"success", "error"}, AnswerLine(c) PROVE ServerInv'
  <2>1. /\ ~closed /\ closed' = closed /\ served' = served + 1 /\ served \in Nat
        /\ body = 0 /\ body' = 0 /\ served < Len(sent)
        /\ Emit(Line(c, served + 1, body + 1))
    BY <1>4 DEF AnswerLine, Serving, Between, ServerInv, ServedDense
  <2>2. LineFits(sent, Line(c, served + 1, body + 1))
    BY <1>4, <2>1 DEF AnswerLine, Serving, LineFits, Line
  <2>. QED BY <2>1, <2>2, ServerCompletes
<1>5. ASSUME NEW c \in BodyClasses, AnswerBody(c) PROVE ServerInv'
  BY <1>5, ServerContinues
<1>6. CASE AnswerEnd
  <2>1. /\ ~closed /\ closed' = closed /\ served' = served + 1 /\ served \in Nat
        /\ body' = 0 /\ served < Len(sent) /\ Emit(Line("end", served + 1, body + 1))
    BY <1>6 DEF AnswerEnd, Serving, Between
  <2>2. LineFits(sent, Line("end", served + 1, body + 1))
    BY <1>6, <2>1, PipelineAssumption DEF AnswerEnd, Serving, LineFits, Line
  <2>. QED BY <2>1, <2>2, ServerCompletes
<1>7. CASE AnswerNothing
  <2>1. /\ served' = served + 1 /\ served \in Nat /\ served < Len(sent) /\ ~closed
        /\ ExpectedResponse(sent[served + 1]) = "NoResponse"
        /\ UNCHANGED <<sent, stream, body>> /\ closed' = (sent[served + 1] \in {"Exit", "Quit"})
    BY <1>7 DEF AnswerNothing, Serving, Between
  <2>2. closed'
    <3>1. sent[served + 1] \in AllCommands /\ sent[served + 1] # "SetVersionBelow4"
      BY <2>1, PipelineAssumption, OrderlyAssumption
    <3>2. ASSUME NEW c \in AllCommands, ExpectedResponse(c) = "NoResponse"
          PROVE  c \in SilentCommands
      BY <3>2 DEF ExpectedResponse, AllCommands, MultiLineCommands, LineCommands, SilentCommands
    <3>. QED BY <2>1, <3>1, <3>2 DEF SilentCommands
  <2>3. body = 0
    BY <2>1 DEF ServerInv, ServedDense
  <2>4. ServerProgress'
    <3>0. \A p \in DOMAIN stream : stream[p] \in Lines
      OBVIOUS
    <3>1. \A p \in DOMAIN stream : stream[p].cmd \in Nat
      BY <3>0 DEF Lines
    <3>2. \A p \in DOMAIN stream : ~(Answering(stream[p]) /\ stream[p].cmd > served + 1)
      BY <2>1, <3>1 DEF ServerInv, ServerProgress
    <3>. QED BY <2>1, <3>2 DEF ServerProgress
  <2>5. ServedDense'
    BY <2>1, <2>2, <2>3 DEF ServerInv, ServedDense
  <2>. QED BY <2>1, <2>4, <2>5 DEF ServerInv, LinesFit, LinesOrdered, LinesDense
<1>a. CASE AnswerNotification
  BY <1>a, OrderlyAssumption DEF AnswerNotification, ByNotification, Serving
<1>8. ASSUME NEW c \in EventClasses, Notify(c) PROVE ServerInv'
  BY <1>8, ServerNotifies DEF Notify
<1>9. CASE OpenBlock
  BY <1>9, ServerNotifies DEF OpenBlock, BlockClasses
<1>10. ASSUME NEW k \in EnvKeys, EnvLine(k) PROVE ServerInv'
  BY <1>10, ServerNotifies DEF EnvLine, BlockClasses
<1>11. CASE GarbledEnvLine
  BY <1>11, ServerNotifies DEF GarbledEnvLine
<1>12. CASE CloseBlock
  BY <1>12, ServerNotifies DEF CloseBlock, BlockClasses
<1>. QED BY <1>1, <1>2, <1>3, <1>4, <1>5, <1>6, <1>7, <1>a, <1>8, <1>9, <1>10, <1>11, <1>12
     DEF Next, Answer, Interrupt

\* And the server may hang up between any two.
LEMMA ServerHangsUp ==
  ASSUME ServerInv, UNCHANGED <<sent, stream, served, body>>, closed'
  PROVE  ServerInv'
BY DEF ServerInv, LinesFit, ServerProgress, LinesOrdered, LinesDense, ServedDense
-----------------------------------------------------------------------------
(***************************************************************************)
(* The client's side.                                                      *)
(***************************************************************************)
\* No more replies than answers.
LEMMA RepliesServed ==
  ASSUME TypeOK, RepliesMatch
  PROVE  Len(replies) \in Nat /\ served \in Nat /\ Len(replies) <= served
<1>1. Len(replies) \in Nat /\ served \in Nat /\ DOMAIN replies = 1..Len(replies)
  BY DEF TypeOK, CodecTypeOK
<1>2. CASE Len(replies) = 0
  BY <1>1, <1>2
<1>3. CASE Len(replies) # 0
  BY <1>1, <1>3 DEF RepliesMatch, Answers
<1>. QED BY <1>2, <1>3

\* The client's part of the invariant is kept and nothing has gone wrong.
ClientKept == ClientInv' /\ RepliesMatch' /\ UNCHANGED <<failures, rejected>>

\* A line that does not answer an earlier command leaves the client's part of
\* the invariant as it is.
LEMMA ClientHears ==
  ASSUME OrderlyInv, NEW l \in Lines, Emit(l), l.cmd = 0 \/ l.cmd = served + 1,
         served' \in Nat, served <= served'
  PROVE  ClientKept
<1>. USE DEF OrderlyInv
<1>1. /\ Len(replies) \in Nat /\ served \in Nat /\ Len(replies) <= served
      /\ DOMAIN replies = 1..Len(replies)
  BY RepliesServed DEF TypeOK, CodecTypeOK
<1>2. UNCHANGED <<expectedQueue, multiLineBuf, replies, failures, sent, rejected, read>>
  BY DEF Emit, codecVars, outVars
<1>3. read \in 0..Len(stream) /\ 1..read \subseteq 1..Len(stream)
  BY StreamFacts DEF TypeOK
<1>. USE <1>1, <1>2, <1>3, StreamFacts DEF ClientInv
<1>4. QueueAligned'
  BY DEF QueueAligned
<1>5. LinesBehind'
  BY DEF LinesBehind, Answering, Terminal, Current
<1>6. LinesAhead'
  BY DEF LinesAhead, Answering
<1>7. BufCurrent'
  BY DEF BufCurrent, Terminal, Current
<1>8. RepliesMatch'
  <2>. SUFFICES ASSUME NEW k \in 1..Len(replies) PROVE Answers(replies[k], k)'
    BY DEF RepliesMatch
  <2>1. Answers(replies[k], k) /\ k \in 1..served
    BY DEF RepliesMatch, Answers
  <2>2. AnswerLines(k)' = AnswerLines(k)
    BY <2>1 DEF AnswerLines
  <2>. QED BY <2>1, <2>2 DEF Answers
<1>. QED BY <1>4, <1>5, <1>6, <1>7, <1>8 DEF ClientKept

\* A notification has no part in any answer: decoding it leaves the queue, the
\* lines held back and the replies alone, or fails.
LEMMA DecodeEventLine ==
  ASSUME NEW l \in Lines, NEW id \in Nat, DecodeLine(l, id),
         l.class \in EventClasses \cup BlockClasses
  PROVE  \/ UNCHANGED <<expectedQueue, multiLineBuf, replies, failures>>
         \/ ~Faultless /\ Fail
<1>1. l.class \notin {"success", "error", "end", "empty", "text", "malformed"}
  BY PipelineAssumption, OrderlyAssumption DEF BlockClasses, AsyncClasses
<1>2. FrameOf(l) \notin {"Success", "Error", "End", "Line"}
  BY <1>1, FrameFacts
<1>3. CASE DecodeFailed(l)
  <2>1. l.class = "garbage" \/ EnvFrame = "Failed"
    BY <1>3, FrameFacts DEF DecodeFailed
  <2>2. Faultless => EnvFrame # "Failed"
    BY DEF Faultless, EnvFrame, OverLimit
  <2>3. l.class = "garbage" => "garbage" \in EventClasses
    BY DEF BlockClasses
  <2>. QED BY <1>3, <2>1, <2>2, <2>3 DEF Faultless, DecodeFailed
<1>4. ~DecodeFailed(l) => UNCHANGED <<expectedQueue, multiLineBuf, replies, failures>>
  BY <1>2, Zenon DEF DecodeLine, DecodeSelfDescribing, DecodeAsync, DecodeClientEnv,
     DecodeEnd, DecodeSkipped, DecodeMalformed, DecodeCollect, DecodeFirst,
     BodyLine, DecodeMore, Event, Silent, outVars
<1>. QED BY <1>3, <1>4
-----------------------------------------------------------------------------
\* How many lines are held back.
Held == IF multiLineBuf = NoBuf THEN 0 ELSE Len(multiLineBuf)

\* The next line, if it answers a command, is the next one of the answer to
\* the command at the front of the queue.
LEMMA CurrentLine ==
  ASSUME OrderlyInv, read < Len(stream), NEW l, l = stream[read + 1], Answering(l)
  PROVE  /\ l.cmd = Current /\ l.n = Held + 1 /\ Held \in Nat
         /\ Len(expectedQueue) > 0 /\ Current \in 1..Len(sent)
         /\ expectedQueue[1] = ExpectedResponse(sent[Current])
<1>. DEFINE id == read + 1
<1>. USE DEF OrderlyInv, ServerInv, ClientInv
<1>1. /\ read \in Nat /\ id \in DOMAIN stream /\ 1..read \subseteq DOMAIN stream
      /\ DOMAIN stream = 1..Len(stream) /\ Len(stream) \in Nat
      /\ Len(replies) \in Nat /\ Len(sent) \in Nat /\ Len(expectedQueue) \in Nat
      /\ Current = Len(replies) + 1
  BY DEF TypeOK, CodecTypeOK, Current
<1>2. \A p \in DOMAIN stream : stream[p] \in Lines
  BY <1>1 DEF TypeOK
<1>3. l.cmd \in Nat /\ l.n \in Nat
  BY <1>1, <1>2 DEF Lines
<1>4. Held \in Nat
  BY DEF Held, TypeOK, CodecTypeOK
<1>5. l.cmd > Len(replies)
  BY <1>1 DEF LinesAhead
<1>6. l.cmd = Current
  <2>1. ~Finished(stream, Current, id)
    BY <1>1, <1>2 DEF Finished, LinesBehind, Answering
  <2>2. l.cmd > Current => Finished(stream, Current, id)
    BY <1>1, <1>3 DEF LinesDense
  <2>. QED BY <1>1, <1>3, <1>5, <2>1, <2>2
<1>7. LineFits(sent, l) /\ l.cmd # 0
  BY <1>1 DEF LinesFit, Answering
<1>8. l.cmd \in 1..Len(sent) /\ l.n >= 1
  BY <1>7 DEF LineFits
<1>9. Len(expectedQueue) > 0 /\ expectedQueue[1] = ExpectedResponse(sent[Current])
  BY <1>1, <1>6, <1>8 DEF QueueAligned
<1>10. l.n <= Held + 1
  <2>. SUFFICES ASSUME l.n > Held + 1 PROVE FALSE
    BY <1>3, <1>4
  <2>1. HasLine(stream, Current, Held + 1, id)
    BY <1>1, <1>3, <1>4, <1>6 DEF LinesDense
  <2>2. PICK q \in 1..read : stream[q].cmd = Current /\ stream[q].n = Held + 1
    BY <1>1, <2>1 DEF HasLine
  <2>3. multiLineBuf # NoBuf /\ stream[q].n <= Len(multiLineBuf)
    BY <1>1, <2>2 DEF LinesBehind, Answering
  <2>. QED BY <1>4, <2>2, <2>3 DEF Held
<1>11. l.n >= Held + 1
  <2>1. CASE Held = 0
    BY <1>3, <1>8, <2>1
  <2>2. CASE Held # 0
    <3>1. multiLineBuf # NoBuf /\ Held = Len(multiLineBuf) /\ Held \in 1..Len(multiLineBuf)
      BY <1>4, <2>2 DEF Held
    <3>. DEFINE q == multiLineBuf[Held]
    <3>2. q \in 1..read /\ stream[q].cmd = Current /\ stream[q].n = Held
      BY <3>1 DEF BufCurrent
    <3>3. stream[q].cmd = stream[id].cmd /\ q < id /\ q \in DOMAIN stream /\ Answering(stream[q])
      BY <1>1, <1>6, <3>2 DEF Answering
    <3>4. stream[q].n < stream[id].n
      BY <1>1, <1>3, <3>3 DEF LinesOrdered
    <3>. QED BY <1>3, <1>4, <3>2, <3>4
  <2>. QED BY <2>1, <2>2
<1>. QED BY <1>3, <1>4, <1>6, <1>8, <1>9, <1>10, <1>11

\* A body line of the answer being read is held back behind the others, unless
\* it is garbled or there are too many.
LEMMA DecodeBodyLine ==
  ASSUME OrderlyInv, read < Len(stream), NEW l \in Lines, l = stream[read + 1],
         Answering(l), ~Terminal(l), DecodeLine(l, read + 1)
  PROVE  \/ /\ UNCHANGED <<expectedQueue, replies, failures>>
            /\ multiLineBuf' = IF multiLineBuf = NoBuf THEN <<read + 1>>
                               ELSE Append(multiLineBuf, read + 1)
         \/ ~Faultless /\ Fail
<1>1. LineFits(sent, l) /\ l.cmd # 0
  BY DEF OrderlyInv, ServerInv, LinesFit, Answering, TypeOK
<1>2. l.n = Held + 1 /\ Held \in Nat /\ l.cmd = Current
  BY CurrentLine
<1>3. l.class \in BodyClasses /\ l.n <= MaxBody /\ ExpectedResponse(sent[Current]) = "MultiLine"
  BY <1>1, <1>2 DEF LineFits, Terminal
<1>4. expectedQueue # <<>> /\ Head(expectedQueue) = "MultiLine"
  BY <1>3, CurrentLine DEF OrderlyInv, TypeOK, CodecTypeOK
<1>5. CASE l.class = "garbage"
  <2>1. FrameOf(l) = "Failed"
    BY <1>5 DEF FrameOf, FixedFrame, BlockClasses
  <2>2. DecodeFailed(l)
    BY <2>1, Zenon DEF DecodeLine, DecodeSelfDescribing, DecodeAsync, DecodeClientEnv, DecodeEnd,
       DecodeSkipped, DecodeMalformed, DecodeCollect, DecodeFirst, BodyLine, DecodeMore, AsyncFrames
  <2>. QED BY <1>3, <1>5, <2>2 DEF Faultless, DecodeFailed
<1>6. CASE l.class # "garbage"
  <2>1. l.class \in {"text", "empty"}
    BY <1>3, <1>6, PipelineAssumption
  <2>2. FrameOf(l) = "Line" /\ FrameOf(l) \notin AsyncFrames
    BY <2>1, FrameFacts DEF AsyncFrames
  <2>3. ExpectedFront = "MultiLine"
    BY <1>4 DEF ExpectedFront
  <2>4. ~Skipped(l) /\ l.class # "malformed"
    BY <2>1, <2>3 DEF Skipped
  <2>5. Faultless /\ multiLineBuf # NoBuf => ~OverLimit(Len(multiLineBuf), MaxMultiLineLines)
    BY <1>2, <1>3, PipelineAssumption, CodecAssumption DEF Faultless, OverLimit, Held
  <2>6. DecodeCollect(l, read + 1) \/ DecodeFirst(l, read + 1)
    BY <2>2, <2>4, Zenon DEF DecodeLine, DecodeSelfDescribing, DecodeAsync, DecodeClientEnv,
       DecodeEnd, DecodeSkipped, DecodeMalformed, DecodeMore, DecodeFailed
  <2>. QED BY <2>3, <2>5, <2>6 DEF DecodeCollect, DecodeFirst, Silent, outVars
<1>. QED BY <1>5, <1>6

HeldLines == IF multiLineBuf = NoBuf THEN <<>> ELSE multiLineBuf

\* The lines held back are all the lines there will be of the current answer
\* before its terminal line.
LEMMA HeldComplete ==
  ASSUME OrderlyInv, read < Len(stream), Answering(stream[read + 1]), Terminal(stream[read + 1])
  PROVE  /\ HeldLines \in Seq(Nat) /\ Increasing(HeldLines)
         /\ \A p \in DOMAIN stream :
              stream[p].cmd = Current <=> p = read + 1 \/ p \in Elements(HeldLines)
         /\ read + 1 \notin Elements(HeldLines)
         /\ \A p \in Elements(HeldLines) : p \in DOMAIN stream /\ ~Terminal(stream[p])
<1>. DEFINE id == read + 1
<1>. USE DEF OrderlyInv, ServerInv, ClientInv
<1>1. /\ read \in Nat /\ id \in DOMAIN stream /\ 1..read \subseteq DOMAIN stream
      /\ DOMAIN stream = 1..Len(stream) /\ Len(stream) \in Nat
      /\ Len(replies) \in Nat /\ Current = Len(replies) + 1
  BY DEF TypeOK, CodecTypeOK, Current
<1>2. \A p \in DOMAIN stream : stream[p].cmd \in Nat /\ stream[p].n \in Nat
  <2>1. \A p \in DOMAIN stream : stream[p] \in Lines
    BY <1>1 DEF TypeOK
  <2>. QED BY <2>1 DEF Lines
<1>3. stream[id].cmd = Current
  BY CurrentLine
<1>4. /\ HeldLines \in Seq(Nat) /\ Len(HeldLines) \in Nat
      /\ DOMAIN HeldLines = 1..Len(HeldLines)
  BY DEF HeldLines, TypeOK, CodecTypeOK
<1>5. \A j \in 1..Len(HeldLines) :
        /\ HeldLines[j] \in 1..read /\ stream[HeldLines[j]].cmd = Current
        /\ stream[HeldLines[j]].n = j /\ ~Terminal(stream[HeldLines[j]])
  BY DEF HeldLines, BufCurrent
<1>6. ASSUME NEW p \in DOMAIN stream, NEW q \in DOMAIN stream, p < q,
             stream[p].cmd = Current, stream[q].cmd = Current
      PROVE  stream[p].n < stream[q].n /\ ~Terminal(stream[p])
  BY <1>1, <1>2, <1>6 DEF LinesOrdered, Answering
<1>7. Increasing(HeldLines)
  <2>. SUFFICES ASSUME NEW i \in 1..Len(HeldLines), NEW j \in 1..Len(HeldLines), i < j
                PROVE  HeldLines[i] < HeldLines[j]
    BY <1>4 DEF Increasing
  <2>1. /\ HeldLines[i] \in DOMAIN stream /\ HeldLines[j] \in DOMAIN stream
        /\ stream[HeldLines[i]].n = i /\ stream[HeldLines[j]].n = j
        /\ stream[HeldLines[i]].cmd = Current /\ stream[HeldLines[j]].cmd = Current
    BY <1>1, <1>5
  <2>2. ~(HeldLines[j] < HeldLines[i])
    BY <1>6, <2>1
  <2>. QED BY <1>1, <2>1, <2>2
<1>8. ASSUME NEW p \in DOMAIN stream, stream[p].cmd = Current, p # id
      PROVE  p \in Elements(HeldLines)
  <2>1. p < id
    BY <1>1, <1>3, <1>6, <1>8
  <2>2. p \in 1..read /\ Answering(stream[p])
    BY <1>1, <1>8, <2>1 DEF Answering
  <2>3. multiLineBuf # NoBuf /\ stream[p].n <= Len(multiLineBuf) /\ HeldLines = multiLineBuf
    BY <1>1, <1>8, <2>2 DEF LinesBehind, HeldLines
  <2>4. stream[p].n >= 1
    BY <1>1, <1>8 DEF LinesFit, LineFits
  <2>5. stream[p].n \in 1..Len(HeldLines)
    BY <1>2, <1>4, <2>3, <2>4
  <2>. DEFINE q == HeldLines[stream[p].n]
  <2>6. q \in DOMAIN stream /\ stream[q].n = stream[p].n /\ stream[q].cmd = Current
    BY <1>1, <1>5, <2>5
  <2>. HIDE DEF q
  <2>7. ~(p < q) /\ ~(q < p)
    BY <1>2, <1>6, <1>8, <2>6
  <2>8. p = q
    BY <1>1, <2>6, <2>7
  <2>. QED BY <1>4, <2>5, <2>8 DEF Elements, q
<1>9. \A p \in Elements(HeldLines) :
        /\ p \in 1..read /\ p \in DOMAIN stream /\ ~Terminal(stream[p])
        /\ stream[p].cmd = Current
  BY <1>1, <1>4, <1>5 DEF Elements
<1>. QED BY <1>1, <1>3, <1>4, <1>7, <1>8, <1>9

\* The terminal line of an answer pops its kind and gives the reply.
LEMMA DecodeTerminalLine ==
  ASSUME OrderlyInv, read < Len(stream), NEW l \in Lines, l = stream[read + 1],
         Answering(l), Terminal(l), DecodeLine(l, read + 1)
  PROVE  /\ expectedQueue' = Tail(expectedQueue) /\ multiLineBuf' = NoBuf
         /\ failures' = failures
         /\ \/ /\ l.class = "end" /\ replies' = Append(replies, Msg("MultiLine", HeldLines))
            \/ /\ l.class = "success" /\ multiLineBuf = NoBuf
               /\ replies' = Append(replies, Msg("Success", <<read + 1>>))
            \/ /\ l.class = "error" /\ multiLineBuf = NoBuf
               /\ replies' = Append(replies, Msg("Error", <<read + 1>>))
<1>1. LineFits(sent, l) /\ l.cmd # 0
  BY DEF OrderlyInv, ServerInv, LinesFit, Answering, TypeOK
<1>2. /\ l.n = Held + 1 /\ l.cmd = Current /\ Held \in Nat /\ Len(expectedQueue) > 0
      /\ expectedQueue[1] = ExpectedResponse(sent[Current])
  BY CurrentLine
<1>3. expectedQueue # <<>> /\ Head(expectedQueue) = expectedQueue[1]
  BY <1>2 DEF OrderlyInv, TypeOK, CodecTypeOK
<1>4. ConsumeExpected => expectedQueue' = Tail(expectedQueue)
  BY <1>3 DEF ConsumeExpected
<1>5. CASE l.class = "end"
  <2>1. Head(expectedQueue) = "MultiLine"
    BY <1>1, <1>2, <1>3, <1>5, PipelineAssumption DEF LineFits
  <2>2. ExpectedFront = "MultiLine"
    BY <1>3, <2>1 DEF ExpectedFront
  <2>3. FrameOf(l) = "End" /\ FrameOf(l) \notin AsyncFrames
    BY <1>5, FrameFacts DEF AsyncFrames
  <2>4. DecodeEnd(l, read + 1)
    BY <2>3, Zenon DEF DecodeLine, DecodeSelfDescribing, DecodeAsync, DecodeClientEnv,
       DecodeSkipped, DecodeMalformed, DecodeCollect, DecodeFirst, BodyLine, DecodeMore, DecodeFailed
  <2>. QED BY <1>4, <1>5, <2>2, <2>4 DEF DecodeEnd, Reply, HeldLines
<1>6. CASE l.class \in {"success", "error"}
  <2>1. l.n = 1
    BY <1>1, <1>6, PipelineAssumption DEF LineFits
  <2>2. multiLineBuf = NoBuf
    BY <1>2, <2>1 DEF Held, OrderlyInv, ClientInv, BufCurrent
  <2>3. /\ l.class = "success" => FrameOf(l) = "Success"
        /\ l.class = "error" => FrameOf(l) = "Error"
        /\ FrameOf(l) \in {"Success", "Error"} /\ FrameOf(l) \notin AsyncFrames
    BY <1>6, FrameFacts DEF AsyncFrames
  <2>4. FrameOf(l) \notin {"End", "Line", "ClientEnv", "More", "Failed"}
    BY <2>3
  <2>5. DecodeSelfDescribing(l, read + 1)
    BY <2>3, <2>4, Zenon DEF DecodeLine, DecodeAsync, DecodeClientEnv, DecodeEnd,
       DecodeSkipped, DecodeMalformed, DecodeCollect, DecodeFirst, BodyLine, DecodeMore, DecodeFailed
  <2>. QED BY <1>4, <1>6, <2>2, <2>3, <2>5 DEF DecodeSelfDescribing, Reply
<1>. QED BY <1>5, <1>6 DEF Terminal

\* Decoding keeps the client's part of the invariant, or fails.
LEMMA ClientDecodes ==
  ASSUME OrderlyInv, Decode
  PROVE  ClientKept \/ (~Faultless /\ Fail)
<1>. SUFFICES ASSUME ~(~Faultless /\ Fail) PROVE ClientKept
  OBVIOUS
<1>. DEFINE id == read + 1
            l == stream[id]
<1>. USE DEF OrderlyInv, ServerInv, ClientInv
<1>1. /\ read \in Nat /\ id \in DOMAIN stream /\ 1..read \subseteq DOMAIN stream
      /\ DOMAIN stream = 1..Len(stream) /\ Len(stream) \in Nat /\ Len(replies) \in Nat
      /\ DOMAIN replies = 1..Len(replies) /\ Len(sent) \in Nat
      /\ Current = Len(replies) + 1 /\ read < Len(stream)
  BY DEF Decode, TypeOK, CodecTypeOK, Current
<1>2. /\ UNCHANGED <<sent, rejected, stream, served>> /\ read' = id
      /\ DecodeLine(l, id) /\ 1..id = 1..read \cup {id} /\ l \in Lines
  <2>1. l \in Lines
    BY <1>1 DEF TypeOK
  <2>. QED BY <1>1, <2>1 DEF Decode, serverVars
<1>3. \A p \in DOMAIN stream : stream[p].cmd \in Nat /\ stream[p].n \in Nat
  <2>1. \A p \in DOMAIN stream : stream[p] \in Lines
    BY <1>1 DEF TypeOK
  <2>. QED BY <2>1 DEF Lines
<1>4. CASE ~Answering(l)
  <2>1. l.cmd = 0 /\ l.class \in EventClasses \cup BlockClasses
    BY <1>1, <1>3, <1>4 DEF LinesFit, LineFits, Answering
  <2>2. UNCHANGED <<expectedQueue, multiLineBuf, replies, failures>>
    BY <1>1, <1>2, <2>1, DecodeEventLine
  <2>. USE <1>1, <1>2, <2>1, <2>2
  <2>3. QueueAligned'
    BY DEF QueueAligned
  <2>4. LinesBehind'
    BY <1>4 DEF LinesBehind, Answering, Terminal, Current
  <2>5. LinesAhead'
    BY DEF LinesAhead, Answering
  <2>6. BufCurrent'
    BY DEF BufCurrent, Terminal, Current
  <2>7. RepliesMatch'
    BY DEF RepliesMatch, Answers, AnswerLines
  <2>. QED BY <2>3, <2>4, <2>5, <2>6, <2>7 DEF ClientKept
<1>5. CASE Answering(l) /\ ~Terminal(l)
  <2>1. /\ l.cmd = Current /\ l.n = Held + 1 /\ Held \in Nat
        /\ Len(expectedQueue) > 0
    BY <1>1, <1>2, <1>5, CurrentLine
  <2>2. /\ UNCHANGED <<expectedQueue, replies, failures>>
        /\ multiLineBuf' = IF multiLineBuf = NoBuf THEN <<id>> ELSE Append(multiLineBuf, id)
    BY <1>1, <1>2, <1>5, DecodeBodyLine
  <2>3. /\ multiLineBuf' # NoBuf /\ Len(multiLineBuf') = Held + 1
        /\ multiLineBuf'[Held + 1] = id
        /\ \A j \in 1..Held : multiLineBuf # NoBuf /\ multiLineBuf'[j] = multiLineBuf[j]
    <3>1. CASE multiLineBuf = NoBuf
      <4>1. multiLineBuf' = <<id>> /\ Held = 0 /\ <<id>> \in Seq(Nat) /\ Len(<<id>>) = 1
        BY <1>1, <2>2, <3>1 DEF Held
      <4>2. multiLineBuf' # NoBuf
        BY <4>1, CodecAssumption
      <4>. QED BY <1>1, <4>1, <4>2
    <3>2. CASE multiLineBuf # NoBuf
      <4>1. multiLineBuf \in Seq(Nat) /\ multiLineBuf' = Append(multiLineBuf, id)
            /\ Held = Len(multiLineBuf)
        BY <2>2, <3>2 DEF TypeOK, CodecTypeOK, Held
      <4>2. Append(multiLineBuf, id) \in Seq(Nat)
        BY <1>1, <4>1, AppendFacts
      <4>3. multiLineBuf' # NoBuf
        BY <4>1, <4>2, CodecAssumption
      <4>. QED BY <1>1, <3>2, <4>1, <4>3, AppendFacts
    <3>. QED BY <3>1, <3>2
  <2>. USE <1>1, <1>2, <2>1, <2>2, <2>3
  <2>4. QueueAligned'
    BY DEF QueueAligned
  <2>5. LinesBehind'
    <3>. SUFFICES ASSUME NEW p \in 1..id, Answering(stream[p]), stream[p].cmd > Len(replies)
                  PROVE  stream[p].cmd = Current /\ ~Terminal(stream[p]) /\ stream[p].n <= Held + 1
      BY DEF LinesBehind, Answering, Terminal, Current
    <3>1. CASE p = id
      BY <1>3, <1>5, <3>1
    <3>2. CASE p \in 1..read
      <4>1. /\ stream[p].cmd = Current /\ ~Terminal(stream[p])
            /\ multiLineBuf # NoBuf /\ stream[p].n <= Len(multiLineBuf)
        BY <3>2 DEF LinesBehind
      <4>. QED BY <1>3, <3>2, <4>1 DEF Held
    <3>. QED BY <3>1, <3>2
  <2>6. LinesAhead'
    BY DEF LinesAhead, Answering
  <2>7. BufCurrent'
    <3>. SUFFICES ASSUME NEW j \in 1..(Held + 1)
                  PROVE  /\ multiLineBuf'[j] \in 1..id
                         /\ stream[multiLineBuf'[j]].cmd = Current
                         /\ stream[multiLineBuf'[j]].n = j
                         /\ ~Terminal(stream[multiLineBuf'[j]])
      BY DEF BufCurrent, Terminal, Current
    <3>1. CASE j = Held + 1
      BY <1>5, <3>1
    <3>2. CASE j \in 1..Held
      <4>1. multiLineBuf # NoBuf /\ Held = Len(multiLineBuf) /\ multiLineBuf'[j] = multiLineBuf[j]
        BY <3>2 DEF Held
      <4>. QED BY <3>2, <4>1 DEF BufCurrent
    <3>. QED BY <3>1, <3>2
  <2>8. RepliesMatch'
    BY DEF RepliesMatch, Answers, AnswerLines
  <2>. QED BY <2>4, <2>5, <2>6, <2>7, <2>8 DEF ClientKept
<1>6. CASE Answering(l) /\ Terminal(l)
  <2>1. /\ l.cmd = Current /\ Len(expectedQueue) > 0 /\ Current \in 1..Len(sent)
    BY <1>1, <1>2, <1>6, CurrentLine
  <2>. DEFINE ids == IF l.class = "end" THEN HeldLines ELSE <<id>>
              tag == CASE l.class = "end" -> "MultiLine" [] l.class = "success" -> "Success"
                       [] l.class = "error" -> "Error"
  <2>2. /\ expectedQueue' = Tail(expectedQueue) /\ multiLineBuf' = NoBuf /\ failures' = failures
        /\ replies' = Append(replies, Msg(tag, ids))
        /\ l.class # "end" => HeldLines = <<>>
        /\ l.class \in {"success", "error", "end"}
    BY <1>1, <1>2, <1>6, DecodeTerminalLine, Zenon DEF HeldLines, Terminal
  <2>3. /\ HeldLines \in Seq(Nat) /\ Increasing(HeldLines)
        /\ \A p \in DOMAIN stream :
             stream[p].cmd = Current <=> p = id \/ p \in Elements(HeldLines)
        /\ id \notin Elements(HeldLines)
        /\ \A p \in Elements(HeldLines) : p \in DOMAIN stream /\ ~Terminal(stream[p])
    BY <1>1, <1>2, <1>6, HeldComplete
  <2>4. /\ Len(replies') = Current /\ \A k \in 1..Len(replies) : replies'[k] = replies[k]
        /\ replies'[Current] = Msg(tag, ids) /\ DOMAIN replies' = 1..Current
        /\ Current' = Current + 1
    <3>1. tag \in ReplyTags /\ ids \in Seq(Nat)
      BY <1>1, <2>2, <2>3 DEF ReplyTags
    <3>2. Msg(tag, ids) \in Messages(ReplyTags)
      BY <3>1, MsgType
    <3>3. replies \in Seq(Messages(ReplyTags))
      BY DEF TypeOK, CodecTypeOK
    <3>. HIDE DEF ids, tag
    <3>. QED BY <1>1, <2>2, <3>2, <3>3, AppendFacts DEF Current
  <2>5. /\ Len(expectedQueue') = Len(expectedQueue) - 1
        /\ \A i \in 1..Len(expectedQueue') : expectedQueue'[i] = expectedQueue[i + 1]
        /\ Len(expectedQueue) \in Nat
    BY <2>1, <2>2, TailFacts DEF TypeOK, CodecTypeOK
  <2>. HIDE DEF ids, tag
  <2>. USE <1>1, <1>2, <2>1
  <2>6. QueueAligned'
    <3>1. Len(sent) = Len(replies) + Len(expectedQueue)
      BY DEF QueueAligned
    <3>2. ASSUME NEW i \in 1..Len(expectedQueue')
          PROVE  expectedQueue'[i] = ExpectedResponse(sent[Current + i])
      <4>1. i + 1 \in 1..Len(expectedQueue) /\ Len(replies) + (i + 1) = Current + i
        BY <2>5
      <4>. QED BY <2>5, <4>1 DEF QueueAligned
    <3>3. Len(sent') = Len(replies') + Len(expectedQueue')
      BY <2>4, <2>5, <3>1
    <3>4. QueueAligned'
      BY <2>4, <3>2, <3>3 DEF QueueAligned
    <3>. QED BY <3>4
  <2>7. LinesBehind'
    <3>. SUFFICES ASSUME NEW p \in 1..id, stream[p].cmd > Current, Answering(stream[p]) PROVE FALSE
      BY <2>4 DEF LinesBehind, Answering
    <3>. QED BY <1>3, SMTT(20) DEF LinesBehind
  <2>8. LinesAhead'
    <3>. SUFFICES ASSUME NEW p \in DOMAIN stream, id < p, Answering(stream[p])
                  PROVE  stream[p].cmd > Current
      BY <2>4 DEF LinesAhead, Answering
    <3>. QED BY <1>3, <1>6 DEF LinesOrdered
  <2>9. BufCurrent'
    BY <2>2 DEF BufCurrent
  <2>10. RepliesMatch'
    <3>1. \A m, k : Answers(m, k)' <=> Answers(m, k)
      BY DEF Answers, AnswerLines
    <3>2. ASSUME NEW k \in 1..Len(replies) PROVE Answers(replies'[k], k)
      BY <2>4 DEF RepliesMatch
    <3>3. Answers(Msg(tag, ids), Current)
      <4>1. Current \in 1..served
        BY <1>6, RepliesServed DEF ServerProgress
      <4>2. CASE l.class = "end"
        <5>1. ids = HeldLines /\ tag = "MultiLine"
          BY <4>2 DEF ids, tag
        <5>2. Elements(HeldLines) = AnswerLines(Current)
          BY <2>3, <4>2 DEF AnswerLines, Terminal
        <5>. QED BY <2>3, <4>1, <4>2, <5>1, <5>2 DEF Answers, Msg, ClosingClass
      <4>3. CASE l.class # "end"
        <5>1. ids = <<id>> /\ HeldLines = <<>> /\ l.class \in {"success", "error"}
          BY <2>2, <4>3 DEF ids
        <5>2. tag = IF l.class = "success" THEN "Success" ELSE "Error"
          BY <5>1 DEF tag
        <5>3. Increasing(ids) /\ Elements(ids) = {id}
          BY <5>1 DEF Increasing, Elements
        <5>4. Elements(HeldLines) = {}
          BY <5>1 DEF Elements
        <5>5. AnswerLines(Current) = {id}
          BY <2>3, <4>3, <5>4 DEF AnswerLines
        <5>. QED BY <4>1, <5>1, <5>2, <5>3, <5>5 DEF Answers, Msg, ClosingClass
      <4>. QED BY <4>2, <4>3
    <3>. QED BY <2>4, <3>1, <3>2, <3>3 DEF RepliesMatch
  <2>. QED BY <2>2, <2>6, <2>7, <2>8, <2>9, <2>10 DEF ClientKept
<1>. QED BY <1>4, <1>5, <1>6

\* Sending a command adds its kind behind those of the commands before it.
LEMMA ClientSends ==
  ASSUME OrderlyInv, NEW c \in Commands, Send(c)
  PROVE  ClientKept
<1>. USE DEF OrderlyInv, ClientInv
<1>1. /\ sent \in Seq(Commands) /\ expectedQueue \in Seq(ResponseKinds)
      /\ Len(replies) \in Nat /\ ExpectedResponse(c) \in ResponseKinds
      /\ Len(sent) \in Nat /\ Len(expectedQueue) \in Nat
  BY KindType, PipelineAssumption DEF TypeOK, CodecTypeOK
<1>2. /\ UNCHANGED <<multiLineBuf, replies, failures, rejected, read, stream, served>>
      /\ expectedQueue' = Append(expectedQueue, ExpectedResponse(c)) /\ sent' = Append(sent, c)
  BY DEF Send, Encode, outVars, serverVars
<1>3. /\ Len(sent') = Len(sent) + 1 /\ Len(expectedQueue') = Len(expectedQueue) + 1
      /\ sent'[Len(sent) + 1] = c /\ \A i \in 1..Len(sent) : sent'[i] = sent[i]
      /\ expectedQueue'[Len(expectedQueue) + 1] = ExpectedResponse(c)
      /\ \A i \in 1..Len(expectedQueue) : expectedQueue'[i] = expectedQueue[i]
  BY <1>1, <1>2, AppendFacts
<1>4. QueueAligned'
  <2>1. Len(sent') = Len(replies') + Len(expectedQueue')
    BY <1>1, <1>2, <1>3 DEF QueueAligned
  <2>2. ASSUME NEW i \in 1..Len(expectedQueue')
        PROVE  expectedQueue'[i] = ExpectedResponse(sent'[Len(replies) + i])
    <3>1. CASE i = Len(expectedQueue) + 1
      <4>1. Len(replies) + i = Len(sent) + 1
        BY <1>1, <3>1 DEF QueueAligned
      <4>. QED BY <1>3, <3>1, <4>1
    <3>2. CASE i \in 1..Len(expectedQueue)
      <4>1. Len(replies) + i \in 1..Len(sent)
        BY <1>1, <3>2 DEF QueueAligned
      <4>. QED BY <1>3, <3>2, <4>1 DEF QueueAligned
    <3>. QED BY <1>1, <1>3, <3>1, <3>2
  <2>. QED BY <1>2, <2>1, <2>2 DEF QueueAligned
<1>. USE <1>2
<1>5. LinesBehind' /\ LinesAhead' /\ BufCurrent'
  BY DEF LinesBehind, LinesAhead, BufCurrent, Answering, Terminal, Current
<1>6. RepliesMatch'
  BY DEF RepliesMatch, Answers, AnswerLines
<1>. QED BY <1>4, <1>5, <1>6 DEF ClientKept

LEMMA ClientStep ==
  ASSUME OrderlyInv, [Next]_vars
  PROVE  ClientKept \/ (~Faultless /\ ~Unfailed')
<1>1. /\ served \in Nat /\ served + 1 \in Nat /\ served <= served /\ served <= served + 1
      /\ body \in Nat /\ body + 1 \in Nat
  BY PipelineAssumption DEF OrderlyInv, TypeOK
<1>2. ASSUME NEW c \in Commands, Send(c) PROVE ClientKept
  BY <1>2, ClientSends
<1>3. ASSUME NEW c \in Commands, SendRejected(c) PROVE ~Faultless /\ ~Unfailed'
  BY <1>3 DEF SendRejected, OrderlyInv, TypeOK, Faultless, Unfailed
<1>4. CASE Decode
  <2>1. Fail => ~Unfailed'
    BY DEF Fail, Unfailed, OrderlyInv, TypeOK, CodecTypeOK
  <2>. QED BY <1>4, <2>1, ClientDecodes
<1>5. ASSUME NEW c \in {"success", "error"}, AnswerLine(c) PROVE ClientKept
  <2>1. Line(c, served + 1, 1) \in Lines /\ Line(c, served + 1, 1).cmd = served + 1
    BY <1>1, LineType DEF Line
  <2>. QED BY <1>1, <1>5, <2>1, ClientHears DEF AnswerLine
<1>6. ASSUME NEW c \in BodyClasses, AnswerBody(c) PROVE ClientKept
  <2>1. Line(c, served + 1, body + 1) \in Lines /\ Line(c, served + 1, body + 1).cmd = served + 1
    BY <1>1, LineType DEF Line
  <2>. QED BY <1>1, <1>6, <2>1, ClientHears DEF AnswerBody
<1>7. CASE AnswerEnd
  <2>1. Line("end", served + 1, body + 1) \in Lines /\ Line("end", served + 1, body + 1).cmd = served + 1
    BY <1>1, LineType DEF Line
  <2>. QED BY <1>1, <1>7, <2>1, ClientHears DEF AnswerEnd
<1>8. CASE AnswerNothing
  <2>1. /\ UNCHANGED <<sent, rejected, read, stream, expectedQueue, multiLineBuf, replies, failures>>
        /\ served' = served + 1
    BY <1>8 DEF AnswerNothing, codecVars, outVars
  <2>2. ClientInv'
    BY <2>1 DEF OrderlyInv, ClientInv, QueueAligned, LinesBehind, LinesAhead, BufCurrent,
       Answering, Terminal, Current
  <2>3. RepliesMatch'
    BY <1>1, <2>1 DEF OrderlyInv, RepliesMatch, Answers, AnswerLines
  <2>. QED BY <2>1, <2>2, <2>3 DEF ClientKept
<1>a. CASE AnswerNotification
  BY <1>1, <1>a, OrderlyAssumption DEF AnswerNotification, ByNotification, Serving, OrderlyInv, TypeOK
<1>9. ASSUME NEW c \in EventClasses \cup BlockClasses, NEW k \in EnvKeys \cup {NoKey},
             Emit(EventLine(c, k)), served' = served
      PROVE  ClientKept
  <2>1. EventLine(c, k) \in Lines /\ EventLine(c, k).cmd = 0
    BY EventLineType DEF EventLine
  <2>. QED BY <1>1, <1>9, <2>1, ClientHears
<1>10. {"client", "env", "envEnd"} \subseteq EventClasses \cup BlockClasses
  BY DEF BlockClasses
<1>11. CASE Interrupt
  BY <1>9, <1>10, <1>11
  DEF Interrupt, Notify, OpenBlock, EnvLine, GarbledEnvLine, CloseBlock
<1>12. CASE UNCHANGED vars
  BY <1>12 DEF vars, serverVars, codecVars, outVars, OrderlyInv, ClientInv, QueueAligned,
     LinesBehind, LinesAhead, BufCurrent, Answering, Terminal, Current,
     RepliesMatch, Answers, AnswerLines, ClientKept
<1>. QED BY <1>2, <1>3, <1>4, <1>5, <1>6, <1>7, <1>8, <1>a, <1>11, <1>12 DEF Next, Answer

LEMMA OrderlyStart == Init => PipelineInv
<1>. SUFFICES ASSUME Init PROVE PipelineInv
  OBVIOUS
<1>1. /\ stream = <<>> /\ sent = <<>> /\ replies = <<>> /\ expectedQueue = <<>>
      /\ multiLineBuf = NoBuf /\ failures = 0 /\ rejected = 0 /\ read = 0
      /\ served = 0 /\ body = 0
  BY DEF Init, CodecInit
<1>2. TypeOK
  BY TypeInit
<1>3. ServerInv
  BY <1>1 DEF ServerInv, LinesFit, ServerProgress, LinesOrdered, LinesDense, ServedDense
<1>4. ClientInv /\ RepliesMatch
  BY <1>1 DEF ClientInv, QueueAligned, LinesBehind, LinesAhead, BufCurrent, RepliesMatch
<1>. QED BY <1>1, <1>2, <1>3, <1>4 DEF PipelineInv, Unfailed

\* What has gone wrong stays so.
LEMMA StillFailed ==
  ASSUME TypeOK, TypeOK', [Next]_vars, ~Unfailed
  PROVE  ~Unfailed'
<1>1. /\ failures \in Nat /\ rejected \in Nat
      /\ failures' = failures \/ failures' = failures + 1
      /\ rejected' = rejected \/ rejected' = rejected + 1
  <2>1. failures \in Nat /\ rejected \in Nat
    BY DEF TypeOK, CodecTypeOK
  <2>2. Decode => /\ failures' = failures \/ failures' = failures + 1
                  /\ rejected' = rejected
    BY DecodeOutcomes, Zenon DEF Decode, DecodeClientEnv, Reply, Event, Fail, Silent, outVars
  <2>3. ASSUME NEW c \in Commands, Send(c) \/ SendRejected(c)
        PROVE  failures' = failures /\ (rejected' = rejected \/ rejected' = rejected + 1)
    BY <2>3 DEF Send, SendRejected, Encode, outVars
  <2>4. ASSUME NEW l, Emit(l) PROVE UNCHANGED <<failures, rejected>>
    BY <2>4 DEF Emit, outVars
  <2>5. Answer \/ Interrupt => UNCHANGED <<failures, rejected>>
    BY <2>4, Zenon DEF Answer, Interrupt, AnswerLine, AnswerBody, AnswerEnd, AnswerNothing, AnswerNotification,
       Notify, OpenBlock, EnvLine, GarbledEnvLine, CloseBlock, outVars
  <2>6. UNCHANGED vars => UNCHANGED <<failures, rejected>>
    BY DEF vars, outVars
  <2>. QED BY <2>1, <2>2, <2>3, <2>4, <2>5, <2>6, Zenon DEF Next
<1>. QED BY <1>1 DEF Unfailed

LEMMA OrderlyStep ==
  ASSUME PipelineInv, [Next]_vars
  PROVE  PipelineInv'
<1>1. TypeOK' /\ ServerInv'
  BY TypeStep, ServerStep DEF PipelineInv
<1>2. CASE Unfailed
  <2>1. OrderlyInv
    BY <1>2 DEF PipelineInv, OrderlyInv
  <2>. QED BY <1>1, <1>2, <2>1, ClientStep DEF PipelineInv, ClientKept, Unfailed
<1>3. CASE ~Unfailed
  BY <1>1, <1>3, StillFailed DEF PipelineInv
<1>. QED BY <1>2, <1>3

(***************************************************************************)
(* The inductive invariant holds in every reachable state: until something *)
(* goes wrong the queue of expected kinds stays aligned with the commands  *)
(* that have no reply, and the lines held back are the beginning of the    *)
(* answer being read.                                                      *)
(***************************************************************************)
THEOREM PipelineInvariant == Spec => []PipelineInv
  BY OrderlyStart, OrderlyStep, PTL DEF Spec

(***************************************************************************)
(* Until decode returns its first error and the encoder first rejects a    *)
(* command, the k-th reply answers the k-th command with all the lines of  *)
(* its answer and no other, however many commands are in flight and        *)
(* whatever notifications come between their lines.                        *)
(***************************************************************************)
THEOREM RepliesInOrder == Spec => []MatchUntilFailure
<1>1. PipelineInv => MatchUntilFailure
  BY DEF PipelineInv, MatchUntilFailure
<1>. QED BY <1>1, PipelineInvariant, PTL

(***************************************************************************)
(* And when every line is UTF-8, no command is rejected and no limit is    *)
(* met, decode returns no error at all, so that every reply matches.       *)
(***************************************************************************)
THEOREM RepliesAlwaysMatch == ASSUME Faultless PROVE Spec => []RepliesMatch
<1>1. PipelineInv => RepliesMatch
  BY DEF PipelineInv
<1>. QED BY <1>1, PipelineInvariant, PTL
-----------------------------------------------------------------------------
(***************************************************************************)
(* The refinement: faultless, the pipeline implements a CommandChannel.    *)
(***************************************************************************)

AnswersGiven == [k \in 1..served |-> AnswerLines(k)]
RepliesGiven == [k \in 1..Len(replies) |-> Elements(replies[k].ids)]

\* A function on 1..n is a sequence of length n.
LEMMA FunctionSequence ==
  ASSUME NEW S, NEW n \in Nat, NEW f \in [1..n -> S]
  PROVE  f \in Seq(S) /\ Len(f) = n
  OBVIOUS

ChannelFacts ==
  /\ Len(replies) \in Nat /\ served \in Nat /\ Len(replies) <= served
  /\ AnswersGiven \in Seq(SUBSET Nat) /\ Len(AnswersGiven) = served
  /\ RepliesGiven \in Seq(SUBSET Nat) /\ Len(RepliesGiven) = Len(replies)
  /\ \A k \in 1..Len(replies) : Elements(replies[k].ids) = AnswerLines(k)

\* The answers and the replies are sequences, the replies no longer than the
\* answers, and a reply's lines are those of its answer.
LEMMA ChannelTypes == OrderlyInv => ChannelFacts
<1>. SUFFICES ASSUME OrderlyInv PROVE ChannelFacts
  OBVIOUS
<1>1. Len(replies) \in Nat /\ served \in Nat /\ Len(replies) <= served
      /\ Len(stream) \in Nat /\ DOMAIN stream = 1..Len(stream) /\ DOMAIN replies = 1..Len(replies)
  BY RepliesServed DEF OrderlyInv, TypeOK, CodecTypeOK
<1>2. \A k : AnswerLines(k) \in SUBSET Nat
  BY <1>1 DEF AnswerLines
<1>3. \A k \in 1..Len(replies) : Elements(replies[k].ids) = AnswerLines(k)
  BY <1>1 DEF OrderlyInv, RepliesMatch, Answers
<1>4. AnswersGiven \in [1..served -> SUBSET Nat] /\ RepliesGiven \in [1..Len(replies) -> SUBSET Nat]
  BY <1>2, <1>3 DEF AnswersGiven, RepliesGiven
<1>. QED BY <1>1, <1>3, <1>4, FunctionSequence DEF ChannelFacts

LEMMA ChannelTypesAfter == OrderlyInv' => ChannelFacts'
  BY ChannelTypes, PTL

\* A step after which the same answers and replies are there is no step of
\* the channel.
LEMMA Stutters ==
  ASSUME UNCHANGED <<sent, served, replies>>, \A k \in 1..served : AnswerLines(k)' = AnswerLines(k)
  PROVE  UNCHANGED Channel!channelVars
  BY DEF Channel!channelVars

\* A line that begins or goes on with an answer leaves the earlier ones alone.
LEMMA AnswersStay ==
  ASSUME TypeOK, NEW l \in Lines, Emit(l), l.cmd = 0 \/ l.cmd = served + 1
  PROVE  /\ \A k \in 1..served : AnswerLines(k)' = AnswerLines(k)
         /\ UNCHANGED <<sent, replies>>
<1>1. served \in Nat
  BY DEF TypeOK
<1>. QED BY <1>1, StreamFacts DEF AnswerLines, Emit, outVars

\* One more answer given is a step of the channel's server.
LEMMA AnswerMaps ==
  ASSUME OrderlyInv, OrderlyInv', served' = served + 1, served < Len(sent),
         UNCHANGED <<sent, replies>>, \A k \in 1..served : AnswerLines(k)' = AnswerLines(k)
  PROVE  Channel!Answer
<1>1. /\ Len(AnswersGiven) = served /\ Len(AnswersGiven') = served + 1 /\ served \in Nat
  BY ChannelTypes, ChannelTypesAfter DEF ChannelFacts
<1>2. Channel!Extends(AnswersGiven, AnswersGiven')
  BY <1>1 DEF Channel!Extends, AnswersGiven
<1>3. RepliesGiven' = RepliesGiven
  BY DEF RepliesGiven
<1>. QED BY <1>1, <1>2, <1>3 DEF Channel!Answer, AnswersGiven, RepliesGiven

\* Decoding the last line of an answer delivers it; decoding any other line is
\* no step of the channel.
LEMMA DecodeMaps ==
  ASSUME OrderlyInv, OrderlyInv', Decode
  PROVE  [Channel!Deliver]_(Channel!channelVars)
<1>1. UNCHANGED <<sent, served, stream>>
  BY DEF Decode, serverVars
<1>2. CASE replies' = replies
  BY <1>1, <1>2, Stutters DEF AnswerLines
<1>3. ASSUME NEW m, Reply(m) PROVE Channel!Deliver
  <2>1. /\ replies' = Append(replies, m) /\ replies \in Seq(Messages(ReplyTags))
        /\ replies' \in Seq(Messages(ReplyTags))
    BY <1>3 DEF Reply, OrderlyInv, TypeOK, CodecTypeOK
  <2>2. /\ Len(replies') = Len(replies) + 1
        /\ \A k \in 1..Len(replies) : replies'[k] = replies[k]
    BY <2>1
  <2>3. AnswersGiven' = AnswersGiven
    BY <1>1 DEF AnswersGiven, AnswerLines
  <2>4. /\ Len(replies) \in Nat /\ served \in Nat /\ Len(replies) < served
        /\ Len(AnswersGiven) = served /\ Len(RepliesGiven) = Len(replies)
        /\ RepliesGiven \in Seq(SUBSET Nat) /\ RepliesGiven' \in Seq(SUBSET Nat)
        /\ Len(RepliesGiven') = Len(replies) + 1
        /\ AnswersGiven[Len(replies) + 1] \in SUBSET Nat
    BY <1>1, <2>2, ChannelTypes, ChannelTypesAfter DEF ChannelFacts
  <2>5. \A k \in 1..Len(replies) : RepliesGiven'[k] = RepliesGiven[k]
    BY <2>2, <2>4 DEF RepliesGiven
  <2>6. RepliesGiven'[Len(replies) + 1] = AnswersGiven[Len(replies) + 1]
    <3>. DEFINE n == Len(replies) + 1
    <3>1. \A k : AnswerLines(k)' = AnswerLines(k)
      BY <1>1 DEF AnswerLines
    <3>2. \A k \in 1..Len(replies') : Elements(replies'[k].ids) = AnswerLines(k)'
      BY ChannelTypesAfter DEF ChannelFacts
    <3>3. Len(replies') \in Nat /\ n \in 1..Len(replies') /\ n \in 1..served
      BY <2>2, <2>4
    <3>4. Elements(replies'[n].ids) = AnswerLines(n)
      BY <3>1, <3>2, <3>3
    <3>5. RepliesGiven'[n] = Elements(replies'[n].ids)
      BY <3>3 DEF RepliesGiven
    <3>6. AnswersGiven[n] = AnswerLines(n)
      BY <3>3 DEF AnswersGiven
    <3>. QED BY <3>4, <3>5, <3>6
  <2>7. RepliesGiven' = Append(RepliesGiven, AnswersGiven[Len(RepliesGiven) + 1])
    BY <2>4, <2>5, <2>6
  <2>. QED BY <1>1, <2>3, <2>4, <2>7 DEF Channel!Deliver, AnswersGiven, RepliesGiven
<1>4. replies' = replies \/ \E m : Reply(m)
  BY DecodeOutcomes, Zenon DEF Decode, DecodeClientEnv, Event, Fail, Silent, outVars
<1>. QED BY <1>2, <1>3, <1>4

LEMMA ChannelStep ==
  ASSUME Faultless, OrderlyInv, OrderlyInv', [Next]_vars
  PROVE  [Channel!Next]_(Channel!channelVars)
<1>. USE DEF Channel!Next
<1>1. /\ served \in Nat /\ served + 1 \in Nat /\ body + 1 \in Nat /\ TypeOK
  BY PipelineAssumption DEF OrderlyInv, TypeOK
<1>2. ASSUME NEW c \in Commands, Send(c) PROVE Channel!Ask
  <2>1. /\ sent' = Append(sent, c) /\ sent \in Seq(Commands)
        /\ UNCHANGED <<replies, stream, served>>
    BY <1>1, <1>2 DEF Send, Encode, outVars, serverVars, TypeOK
  <2>2. Channel!Extends(sent, sent')
    BY <2>1, AppendFacts DEF Channel!Extends
  <2>. QED BY <2>1, <2>2 DEF Channel!Ask, AnswerLines
<1>3. ASSUME NEW c \in Commands, SendRejected(c) PROVE FALSE
  BY <1>1, <1>3 DEF SendRejected, TypeOK, Faultless
<1>4. CASE Decode
  BY <1>4, DecodeMaps
<1>5. ASSUME NEW c \in {"success", "error"}, AnswerLine(c) PROVE Channel!Answer
  <2>1. Line(c, served + 1, 1) \in Lines /\ Line(c, served + 1, 1).cmd = served + 1
    BY <1>1, LineType DEF Line
  <2>. QED BY <1>1, <1>5, <2>1, AnswersStay, AnswerMaps DEF AnswerLine, Serving
<1>6. ASSUME NEW c \in BodyClasses, AnswerBody(c) PROVE UNCHANGED Channel!channelVars
  <2>1. Line(c, served + 1, body + 1) \in Lines /\ Line(c, served + 1, body + 1).cmd = served + 1
    BY <1>1, LineType DEF Line
  <2>. QED BY <1>1, <1>6, <2>1, AnswersStay, Stutters DEF AnswerBody
<1>7. CASE AnswerEnd
  <2>1. Line("end", served + 1, body + 1) \in Lines /\ Line("end", served + 1, body + 1).cmd = served + 1
    BY <1>1, LineType DEF Line
  <2>. QED BY <1>1, <1>7, <2>1, AnswersStay, AnswerMaps DEF AnswerEnd, Serving
<1>8. CASE AnswerNothing
  <2>1. /\ UNCHANGED <<sent, replies, stream>> /\ served' = served + 1 /\ served < Len(sent)
    BY <1>8 DEF AnswerNothing, Serving, outVars
  <2>. QED BY <2>1, AnswerMaps DEF AnswerLines
<1>a. CASE AnswerNotification
  BY <1>1, <1>a, OrderlyAssumption DEF AnswerNotification, ByNotification, Serving, OrderlyInv, TypeOK
<1>9. ASSUME NEW c \in EventClasses \cup BlockClasses, NEW k \in EnvKeys \cup {NoKey},
             Emit(EventLine(c, k)), served' = served
      PROVE  UNCHANGED Channel!channelVars
  <2>1. EventLine(c, k) \in Lines /\ EventLine(c, k).cmd = 0
    BY EventLineType DEF EventLine
  <2>. QED BY <1>1, <1>9, <2>1, AnswersStay, Stutters
<1>10. {"client", "env", "envEnd"} \subseteq EventClasses \cup BlockClasses
  BY DEF BlockClasses
<1>11. CASE Interrupt
  BY <1>9, <1>10, <1>11
  DEF Interrupt, Notify, OpenBlock, EnvLine, GarbledEnvLine, CloseBlock
<1>12. CASE UNCHANGED vars
  BY <1>12, Stutters DEF vars, serverVars, outVars, AnswerLines
<1>. QED BY <1>2, <1>3, <1>4, <1>5, <1>6, <1>7, <1>8, <1>a, <1>11, <1>12 DEF Next, Answer

(***************************************************************************)
(* The pipeline implements the command channel when every line is UTF-8,   *)
(* no command is rejected and no limit is met: the codec hands the client  *)
(* the server's answers one by one, in the order of the commands, each as  *)
(* the whole of its lines.                                                 *)
(***************************************************************************)
THEOREM PipelineImplementsChannel == ASSUME Faultless PROVE Spec => ImplementsChannel
<1>1. Init => Channel!Init
  <2>. SUFFICES ASSUME Init PROVE Channel!Init
    OBVIOUS
  <2>1. sent = <<>> /\ replies = <<>> /\ served = 0
    BY DEF Init, CodecInit
  <2>. QED BY <2>1 DEF Channel!Init
<1>2. PipelineInv => OrderlyInv
  BY DEF PipelineInv, OrderlyInv
<1>3. OrderlyInv /\ OrderlyInv' /\ [Next]_vars => [Channel!Next]_(Channel!channelVars)
  BY ChannelStep
<1>. QED BY <1>1, <1>2, <1>3, PipelineInvariant, PTL DEF Spec, ImplementsChannel, Channel!Spec
=============================================================================
