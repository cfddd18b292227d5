---------------------------- MODULE FaultProofs ----------------------------
(***************************************************************************)
(* Proofs about Pipeline and FaultyPipeline: type correctness, and what    *)
(* holds of the pipeline whatever goes wrong, for any commands, classes of *)
(* lines, limits and bounds.                                               *)
(***************************************************************************)
EXTENDS FaultyPipeline, FiniteSetTheorems, TLAPS
-----------------------------------------------------------------------------
(***************************************************************************)
(* Types, and the facts about sequences, frames and decode that the other  *)
(* proofs rest on.                                                         *)
(***************************************************************************)
LEMMA EmptyFacts ==
  ASSUME NEW S
  PROVE  <<>> \in Seq(S) /\ Len(<<>>) = 0
  OBVIOUS

\* What Append does to a sequence, as the proofs below use it.
LEMMA AppendFacts ==
  ASSUME NEW S, NEW s \in Seq(S), NEW e \in S
  PROVE  /\ Append(s, e) \in Seq(S)
         /\ Len(Append(s, e)) = Len(s) + 1
         /\ DOMAIN s = 1..Len(s)
         /\ \A i \in 1..Len(s) : Append(s, e)[i] = s[i] /\ s[i] \in S
         /\ Append(s, e)[Len(s) + 1] = e
  OBVIOUS

LEMMA TailFacts ==
  ASSUME NEW S, NEW s \in Seq(S), s # <<>>
  PROVE  /\ Tail(s) \in Seq(S)
         /\ Len(Tail(s)) = Len(s) - 1
         /\ Len(s) \in Nat \ {0}
         /\ Head(s) = s[1] /\ Head(s) \in S
         /\ \A i \in 1..Len(s) - 1 : Tail(s)[i] = s[i + 1]
  OBVIOUS

LEMMA KindType ==
  ASSUME NEW c \in AllCommands
  PROVE  ExpectedResponse(c) \in ResponseKinds
  BY DEF AllCommands, ExpectedResponse, ResponseKinds, MultiLineCommands,
         SilentCommands, LineCommands

LEMMA FrameFacts ==
  ASSUME NEW l \in Lines
  PROVE  /\ l.class = "success" <=> FrameOf(l) = "Success"
         /\ l.class = "error" <=> FrameOf(l) = "Error"
         /\ l.class = "end" <=> FrameOf(l) = "End"
         /\ l.class \in {"text", "empty", "malformed"} <=> FrameOf(l) = "Line"
         /\ FrameOf(l) \in AsyncFrames <=> l.class \in {"prompt", "info", "note", "entry", "address"}
         /\ FrameOf(l) = "ClientEnv" <=> Accumulating /\ l.class = "envEnd"
         /\ FrameOf(l) = "More" => l.class \in BlockClasses
         /\ FrameOf(l) = "Failed" => l.class = "garbage" \/ EnvFrame = "Failed"
  BY DEF Lines, Classes, ReplyClasses, BlockClasses, AsyncClasses, FrameOf, FixedFrame, EnvFrame, AsyncFrames

LEMMA BlockType ==
  ASSUME FrameTypeOK, NEW l \in Lines, NEW id \in Nat
  PROVE  BlockAfter(l, id) \in Blocks \cup {NoBlock}
<1>1. CASE StartsBlock(l)
  <2>1. BlockAfter(l, id) = [header |-> id, env |-> NoEnv]
    BY <1>1, Zenon DEF BlockAfter, StartsBlock, EndsBlock, BlockClasses
  <2>. QED BY <2>1 DEF Blocks, EnvMaps, NoEnv
<1>2. CASE ~StartsBlock(l) /\ EndsBlock(l)
  <2>1. BlockAfter(l, id) = NoBlock
    BY <1>2, FrameFacts DEF BlockAfter, EndsBlock, FrameOf
  <2>. QED BY <2>1
<1>3. CASE ~StartsBlock(l) /\ ~EndsBlock(l) /\ FrameOf(l) = "More"
  <2>1. Accumulating
    BY <1>3, FrameFacts DEF StartsBlock
  <2>2. clientNotification \in Blocks
    BY <2>1 DEF Accumulating, FrameTypeOK
  <2>3. BlockAfter(l, id) = [clientNotification EXCEPT !.env = Insert(@, l.key, id)]
    BY <1>3 DEF BlockAfter
  <2>. QED BY <2>2, <2>3 DEF Blocks, EnvMaps, Insert
<1>4. CASE ~StartsBlock(l) /\ ~EndsBlock(l) /\ FrameOf(l) # "More"
  <2>1. BlockAfter(l, id) = clientNotification
    BY <1>4 DEF BlockAfter
  <2>. QED BY <2>1 DEF FrameTypeOK
<1>. QED BY <1>1, <1>2, <1>3, <1>4

LEMMA MsgType ==
  ASSUME NEW tags, NEW t \in tags, NEW ids \in Seq(Nat)
  PROVE  Msg(t, ids) \in Messages(tags)
  BY DEF Msg, Messages, EnvMaps, NoEnv

\* What each arm of decode can do to the queue, to the lines held back and
\* to the history of what was returned.
LEMMA DecodeOutcomes ==
  ASSUME NEW l, NEW id, DecodeLine(l, id)
  PROVE  /\ ConsumeExpected \/ expectedQueue' = expectedQueue \/ expectedQueue' = <<>>
         /\ \/ multiLineBuf' = multiLineBuf
            \/ multiLineBuf' = NoBuf
            \/ multiLineBuf' = <<id>>
            \/ multiLineBuf # NoBuf /\ multiLineBuf' = Append(multiLineBuf, id)
         /\ \/ FrameOf(l) \in {"Success", "Error"} /\ Reply(Msg(FrameOf(l), <<id>>))
            \/ Reply(Msg("Unrecognized", <<id>>))
            \/ multiLineBuf # NoBuf /\ Reply(Msg("MultiLine", multiLineBuf))
            \/ Reply(Msg("MultiLine", <<>>))
            \/ FrameOf(l) \in AsyncFrames /\ Event(Msg(EventTag(l), <<id>>))
            \/ DecodeClientEnv(l, id)
            \/ Fail
            \/ Silent
<1>. USE DEF DecodeLine
<1>1. CASE DecodeSelfDescribing(l, id)
  BY <1>1, Zenon DEF DecodeSelfDescribing
<1>2. CASE DecodeAsync(l, id)
  BY <1>2, Zenon DEF DecodeAsync
<1>3. CASE DecodeClientEnv(l, id)
  BY <1>3, Zenon DEF DecodeClientEnv
<1>4. CASE DecodeEnd(l, id)
  BY <1>4, Zenon DEF DecodeEnd
<1>5. CASE DecodeSkipped(l)
  BY <1>5, Zenon DEF DecodeSkipped
<1>6. CASE DecodeMalformed(l, id)
  BY <1>6, Zenon DEF DecodeMalformed
<1>7. CASE DecodeCollect(l, id)
  BY <1>7, Zenon DEF DecodeCollect
<1>8. CASE DecodeFirst(l, id)
  BY <1>8, Zenon DEF DecodeFirst
<1>9. CASE DecodeMore(l)
  BY <1>9, Zenon DEF DecodeMore
<1>10. CASE DecodeFailed(l)
  BY <1>10, Zenon DEF DecodeFailed
<1>. QED
  BY <1>1, <1>2, <1>3, <1>4, <1>5, <1>6, <1>7, <1>8, <1>9, <1>10, Zenon

\* Decoding a line keeps the types of the codec's state and history.
LEMMA DecodeType ==
  ASSUME CodecTypeOK, NEW l \in Lines, NEW id \in Nat, DecodeLine(l, id)
  PROVE  CodecTypeOK'
<1>. USE DEF CodecTypeOK
<1>1. FrameTypeOK'
  BY BlockType DEF DecodeLine, FrameStep, FrameTypeOK
<1>2. expectedQueue' \in Seq(ResponseKinds)
  <2>1. CASE ConsumeExpected
    <3>1. expectedQueue # <<>> => Tail(expectedQueue) \in Seq(ResponseKinds)
      BY TailFacts
    <3>. QED BY <2>1, <3>1, EmptyFacts, Zenon DEF ConsumeExpected
  <2>2. CASE expectedQueue' = expectedQueue \/ expectedQueue' = <<>>
    BY <2>2, EmptyFacts, Zenon
  <2>. QED BY <2>1, <2>2, DecodeOutcomes, Zenon
<1>3. multiLineBuf' \in Seq(Nat) \cup {NoBuf}
  <2>1. <<id>> \in Seq(Nat)
    OBVIOUS
  <2>2. multiLineBuf # NoBuf => Append(multiLineBuf, id) \in Seq(Nat)
    BY AppendFacts
  <2>. QED BY <2>1, <2>2, DecodeOutcomes, Zenon
<1>4. <<id>> \in Seq(Nat) /\ <<>> \in Seq(Nat)
  OBVIOUS
<1>. DEFINE HistoryOK == /\ replies \in Seq(Messages(ReplyTags))
                         /\ events \in Seq(Messages(EventTags))
                         /\ failures \in Nat
<1>5. HistoryOK'
  <2>1. ASSUME NEW m \in Messages(ReplyTags), Reply(m) PROVE HistoryOK'
    BY <2>1 DEF Reply
  <2>2. ASSUME NEW m \in Messages(EventTags), Event(m) PROVE HistoryOK'
    BY <2>2 DEF Event
  <2>3. CASE Fail \/ Silent
    BY <2>3 DEF Fail, Silent, outVars
  <2>4. CASE FrameOf(l) \in {"Success", "Error"} /\ Reply(Msg(FrameOf(l), <<id>>))
    <3>1. Msg(FrameOf(l), <<id>>) \in Messages(ReplyTags)
      BY <1>4, <2>4, MsgType DEF ReplyTags
    <3>. QED BY <2>1, <2>4, <3>1
  <2>5. CASE Reply(Msg("Unrecognized", <<id>>))
    <3>1. Msg("Unrecognized", <<id>>) \in Messages(ReplyTags)
      BY <1>4, MsgType DEF ReplyTags
    <3>. QED BY <2>1, <2>5, <3>1
  <2>6. CASE \/ multiLineBuf # NoBuf /\ Reply(Msg("MultiLine", multiLineBuf))
             \/ Reply(Msg("MultiLine", <<>>))
    <3>1. \A s \in Seq(Nat) : Msg("MultiLine", s) \in Messages(ReplyTags)
      BY MsgType DEF ReplyTags
    <3>. QED BY <1>4, <2>1, <2>6, <3>1
  <2>7. CASE FrameOf(l) \in AsyncFrames /\ Event(Msg(EventTag(l), <<id>>))
    <3>1. EventTag(l) \in EventTags
      BY <2>7 DEF EventTag, EventTags, AsyncFrames
    <3>2. Msg(EventTag(l), <<id>>) \in Messages(EventTags)
      BY <1>4, <3>1, MsgType
    <3>. QED BY <2>2, <2>7, <3>2
  <2>8. CASE DecodeClientEnv(l, id)
    <3>1. clientNotification \in Blocks
      BY <2>8, FrameFacts DEF DecodeClientEnv, Accumulating, FrameTypeOK
    <3>2. [tag |-> "Notification", ids |-> <<clientNotification.header, id>>,
           env |-> clientNotification.env] \in Messages(EventTags)
      BY <3>1 DEF Blocks, Messages, EventTags, AsyncFrames
    <3>. QED BY <2>2, <2>8, <3>2 DEF DecodeClientEnv
  <2>. QED BY <2>3, <2>4, <2>5, <2>6, <2>7, <2>8, DecodeOutcomes
<1>. QED BY <1>1, <1>2, <1>3, <1>5

\* Encoding a command queues one response kind and touches nothing else.
LEMMA EncodeType ==
  ASSUME CodecTypeOK, NEW c \in Commands, Encode(c)
  PROVE  CodecTypeOK'
<1>1. ExpectedResponse(c) \in ResponseKinds
  BY KindType, PipelineAssumption
<1>. QED BY <1>1 DEF CodecTypeOK, Encode, FrameTypeOK, frameVars, outVars

LEMMA LineType ==
  ASSUME NEW c \in {"success", "error", "end"} \cup BodyClasses,
         NEW k \in Nat, NEW n \in Nat
  PROVE  Line(c, k, n) \in Lines
  BY PipelineAssumption DEF Line, Lines, Classes, ReplyClasses, AsyncClasses

LEMMA EventLineType ==
  ASSUME NEW c \in EventClasses \cup BlockClasses, NEW k \in EnvKeys \cup {NoKey}
  PROVE  EventLine(c, k) \in Lines
  BY PipelineAssumption DEF EventLine, Lines, Classes, BlockClasses, AsyncClasses

\* What any step of the server does to the stream.
LEMMA EmitType ==
  ASSUME TypeOK, NEW l \in Lines, Emit(l)
  PROVE  /\ CodecTypeOK' /\ UNCHANGED <<sent, rejected, read>>
         /\ stream' \in Seq(Lines) /\ read' \in 0..Len(stream')
  BY DEF TypeOK, CodecTypeOK, FrameTypeOK, Emit, codecVars, frameVars, outVars

\* The stream after one more line.
LEMMA StreamFacts ==
  ASSUME TypeOK, NEW l \in Lines, Emit(l)
  PROVE  /\ Len(stream) \in Nat /\ Len(stream') = Len(stream) + 1
         /\ DOMAIN stream = 1..Len(stream) /\ DOMAIN stream' = 1..(Len(stream) + 1)
         /\ \A p \in 1..Len(stream) : stream'[p] = stream[p] /\ stream[p] \in Lines
         /\ stream'[Len(stream) + 1] = l
         /\ sent' = sent
  BY AppendFacts DEF TypeOK, Emit

LEMMA TypeInit == Init => TypeOK
<1>1. 0 \in Nat /\ FALSE \in BOOLEAN
  OBVIOUS
<1>2. Init => CodecTypeOK
  BY <1>1, EmptyFacts, Zenon DEF Init, CodecInit, FrameInit, CodecTypeOK, FrameTypeOK
<1>3. 0 \in 0..MaxRejects /\ 0 \in 0..MaxBody /\ 0 \in 0..Len(<<>>)
  BY EmptyFacts, PipelineAssumption
<1>. QED BY <1>1, <1>2, <1>3, EmptyFacts, Zenon DEF Init, TypeOK

LEMMA TypeStep == TypeOK /\ [Next]_vars => TypeOK'
<1>. SUFFICES ASSUME TypeOK, [Next]_vars PROVE TypeOK'
  OBVIOUS
<1>. USE PipelineAssumption
<1>1. ASSUME NEW c \in Commands, Send(c) PROVE TypeOK'
  BY <1>1, EncodeType DEF Send, TypeOK, serverVars
<1>2. ASSUME NEW c \in Commands, SendRejected(c) PROVE TypeOK'
  BY <1>2, EncodeType DEF SendRejected, TypeOK, serverVars
<1>3. CASE Decode
  <2>1. stream[read + 1] \in Lines /\ read + 1 \in Nat
    BY <1>3 DEF Decode, TypeOK
  <2>2. CodecTypeOK'
    BY <1>3, <2>1, DecodeType DEF Decode, TypeOK
  <2>. QED BY <1>3, <2>2 DEF Decode, TypeOK, serverVars
<1>4. ASSUME NEW c \in {"success", "error"}, AnswerLine(c) PROVE TypeOK'
  <2>0. served + 1 \in Nat
    BY DEF TypeOK
  <2>1. Line(c, served + 1, 1) \in Lines
    BY <2>0, LineType
  <2>. QED BY <1>4, <2>1, EmitType DEF AnswerLine, TypeOK, Serving
<1>5. ASSUME NEW c \in BodyClasses, AnswerBody(c) PROVE TypeOK'
  <2>0. served + 1 \in Nat /\ body + 1 \in Nat
    BY DEF TypeOK
  <2>1. Line(c, served + 1, body + 1) \in Lines
    BY <2>0, LineType
  <2>. QED BY <1>5, <2>1, EmitType DEF AnswerBody, TypeOK
<1>6. CASE AnswerEnd
  <2>0. served + 1 \in Nat /\ body + 1 \in Nat
    BY DEF TypeOK
  <2>1. Line("end", served + 1, body + 1) \in Lines
    BY <2>0, LineType
  <2>. QED BY <1>6, <2>1, EmitType DEF AnswerEnd, TypeOK, Serving
<1>7. CASE AnswerNothing
  BY <1>7 DEF AnswerNothing, Serving, TypeOK, CodecTypeOK, FrameTypeOK,
     codecVars, frameVars, outVars
<1>a. CASE AnswerNotification
  <2>0. served + 1 \in Nat
    BY DEF TypeOK
  <2>1. Line("entry", served + 1, 1) \in Lines
    BY <2>0 DEF Line, Lines, Classes, AsyncClasses
  <2>. QED BY <1>a, <2>1, EmitType DEF AnswerNotification, TypeOK, Serving
<1>8. ASSUME NEW c \in EventClasses, Notify(c) PROVE TypeOK'
  BY <1>8, EventLineType, EmitType DEF Notify, TypeOK
<1>9. CASE OpenBlock
  <2>1. EventLine("client", NoKey) \in Lines
    BY EventLineType DEF BlockClasses
  <2>. QED BY <1>9, <2>1, EmitType DEF OpenBlock, TypeOK
<1>10. ASSUME NEW k \in EnvKeys, EnvLine(k) PROVE TypeOK'
  <2>1. EventLine("env", k) \in Lines
    BY EventLineType DEF BlockClasses
  <2>. QED BY <1>10, <2>1, EmitType DEF EnvLine, TypeOK
<1>11. CASE GarbledEnvLine
  <2>1. EventLine("garbage", NoKey) \in Lines
    BY <1>11, EventLineType DEF GarbledEnvLine
  <2>. QED BY <1>11, <2>1, EmitType DEF GarbledEnvLine, TypeOK
<1>12. CASE CloseBlock
  <2>1. EventLine("envEnd", NoKey) \in Lines
    BY EventLineType DEF BlockClasses
  <2>. QED BY <1>12, <2>1, EmitType DEF CloseBlock, TypeOK
<1>13. CASE UNCHANGED vars
  BY <1>13 DEF vars, serverVars, codecVars, frameVars, outVars, TypeOK,
     CodecTypeOK, FrameTypeOK
<1>. QED BY <1>1, <1>2, <1>3, <1>4, <1>5, <1>6, <1>7, <1>a, <1>8, <1>9, <1>10,
           <1>11, <1>12, <1>13 DEF Next, Answer, Interrupt

(***************************************************************************)
(* Type correctness: every variable of the codec, of the client and of the *)
(* server keeps its type, whatever goes wrong.                             *)
(***************************************************************************)
THEOREM TypeCorrect == Spec => []TypeOK
  BY TypeInit, TypeStep, PTL DEF Spec
-----------------------------------------------------------------------------
(***************************************************************************)
(* What holds whatever goes wrong.                                         *)
(***************************************************************************)
\* The classes of the lines that are notifications of one line.
NoteClasses == AsyncClasses \ {"garbage", "malformed"}

\* What decoding a line adds to the events.
LEMMA EventOutcomes ==
  ASSUME NEW l \in Lines, NEW id, DecodeLine(l, id)
  PROVE  \/ /\ l.class \in NoteClasses
            /\ events' = Append(events, Msg(EventTag(l), <<id>>))
         \/ /\ l.class = "envEnd" /\ Accumulating
            /\ events' = Append(events, [tag |-> "Notification", ids |-> <<clientNotification.header, id>>,
                                         env |-> clientNotification.env])
         \/ /\ l.class \notin NoteClasses /\ ~(l.class = "envEnd" /\ Accumulating)
            /\ events' = events
<1>1. FrameOf(l) \in AsyncFrames <=> l.class \in NoteClasses
  BY FrameFacts DEF NoteClasses, AsyncClasses
<1>2. FrameOf(l) = "ClientEnv" <=> l.class = "envEnd" /\ Accumulating
  BY FrameFacts
<1>3. l.class = "envEnd" => l.class \notin NoteClasses
  BY DEF NoteClasses, AsyncClasses
<1>4. \/ DecodeAsync(l, id)
      \/ DecodeClientEnv(l, id)
      \/ events' = events /\ FrameOf(l) \notin AsyncFrames /\ FrameOf(l) # "ClientEnv"
  <2>1. {"Success", "Error", "End", "Line", "More", "Failed", "ClientEnv"} \cap AsyncFrames = {}
    BY DEF AsyncFrames
  <2>2. \/ DecodeAsync(l, id) \/ DecodeClientEnv(l, id)
        \/ events' = events /\ FrameOf(l) \in {"Success", "Error", "End", "Line", "More", "Failed"}
    BY Zenon DEF DecodeLine, DecodeSelfDescribing, DecodeEnd, DecodeSkipped, DecodeMalformed,
       DecodeCollect, DecodeFirst, BodyLine, DecodeMore, DecodeFailed, Reply, Fail, Silent, outVars
  <2>. QED BY <2>1, <2>2
<1>. QED BY <1>1, <1>2, <1>3, <1>4 DEF DecodeAsync, DecodeClientEnv, Event

\* What decoding a line does to the block.
LEMMA BlockOutcomes ==
  ASSUME NEW l \in Lines, NEW id, DecodeLine(l, id)
  PROVE  /\ l.class \notin BlockClasses \cup {"garbage"} => clientNotification' = clientNotification
         /\ l.class = "client" => clientNotification' = [header |-> id, env |-> NoEnv]
         /\ l.class = "garbage" => clientNotification' = NoBlock
         /\ l.class = "envEnd" =>
              clientNotification' = IF Accumulating THEN NoBlock ELSE [header |-> id, env |-> NoEnv]
         /\ l.class = "env" =>
              clientNotification' =
                IF ~Accumulating THEN [header |-> id, env |-> NoEnv]
                ELSE IF EnvFrame = "More"
                     THEN [clientNotification EXCEPT !.env = Insert(@, l.key, id)]
                     ELSE clientNotification
<1>1. clientNotification' = BlockAfter(l, id)
  BY DEF DecodeLine, FrameStep
<1>2. l.class \in {"client", "env", "envEnd"} <=> l.class \in BlockClasses
  BY DEF BlockClasses
<1>3. CASE StartsBlock(l)
  <2>1. BlockAfter(l, id) = [header |-> id, env |-> NoEnv]
    BY <1>3, Zenon DEF BlockAfter, StartsBlock, EndsBlock, BlockClasses
  <2>. QED BY <1>1, <1>2, <1>3, <2>1 DEF StartsBlock
<1>4. CASE ~StartsBlock(l) /\ EndsBlock(l)
  <2>1. BlockAfter(l, id) = NoBlock
    BY <1>4, FrameFacts DEF BlockAfter, EndsBlock, FrameOf
  <2>. QED BY <1>1, <1>2, <1>4, <2>1 DEF StartsBlock, EndsBlock
<1>5. CASE ~StartsBlock(l) /\ ~EndsBlock(l)
  <2>1. l.class = "env" => FrameOf(l) = EnvFrame
    BY <1>2, <1>5 DEF StartsBlock, FrameOf
  <2>2. FrameOf(l) = "More" => l.class = "env"
    BY <1>2, <1>5, FrameFacts DEF StartsBlock, EndsBlock
  <2>3. l.class \notin {"client", "envEnd", "garbage"}
    BY <1>2, <1>5 DEF StartsBlock, EndsBlock
  <2>4. CASE FrameOf(l) = "More"
    <3>1. BlockAfter(l, id) = [clientNotification EXCEPT !.env = Insert(@, l.key, id)]
      BY <1>5, <2>4 DEF BlockAfter
    <3>. QED BY <1>1, <1>2, <1>5, <2>1, <2>2, <2>3, <2>4, <3>1 DEF StartsBlock
  <2>5. CASE FrameOf(l) # "More"
    <3>1. BlockAfter(l, id) = clientNotification
      BY <1>5, <2>5 DEF BlockAfter
    <3>. QED BY <1>1, <1>2, <1>5, <2>1, <2>3, <2>5, <3>1 DEF StartsBlock
  <2>. QED BY <2>4, <2>5
<1>. QED BY <1>3, <1>4, <1>5
-----------------------------------------------------------------------------
(***************************************************************************)
(* Blocks.                                                                 *)
(***************************************************************************)
\* A line more changes nothing about the blocks before it.
LEMMA ReachesStays ==
  ASSUME TypeOK, NEW l \in Lines, Emit(l), NEW p \in 1..Len(stream) + 1,
         NEW q \in 1..Len(stream) + 1
  PROVE  Reaches(q, p)' <=> Reaches(q, p)
BY StreamFacts DEF Reaches

\* A block that reaches past a line contains it.
LEMMA Inside ==
  ASSUME TypeOK, BlocksFramed, NEW q \in DOMAIN stream, NEW p \in DOMAIN stream, Reaches(q, p)
  PROVE  InBlock(stream[p]) \/ stream[p].class = "envEnd"
<1>1. DOMAIN stream = 1..Len(stream) /\ Len(stream) \in Nat
  BY DEF TypeOK
<1>2. stream[q].class = "client" /\ q < p
  BY DEF Reaches
<1>3. \/ \E r \in DOMAIN stream : Reaches(q, r) /\ stream[r].class = "envEnd"
      \/ Reaches(q, Len(stream) + 1)
  BY <1>2 DEF BlocksFramed
<1>4. CASE Reaches(q, Len(stream) + 1)
  BY <1>1, <1>2, <1>4 DEF Reaches
<1>5. ASSUME NEW r \in DOMAIN stream, Reaches(q, r), stream[r].class = "envEnd"
      PROVE  InBlock(stream[p]) \/ stream[p].class = "envEnd"
  <2>1. CASE r < p
    BY <1>1, <1>5, <2>1 DEF Reaches, InBlock
  <2>2. CASE r = p
    BY <1>5, <2>2
  <2>3. CASE r > p
    BY <1>1, <1>2, <1>5, <2>3 DEF Reaches
  <2>. QED BY <1>1, <2>1, <2>2, <2>3
<1>. QED BY <1>3, <1>4, <1>5

\* A line has one block at most.
LEMMA OneBlock ==
  ASSUME NEW p \in Nat, NEW q \in Nat, NEW r \in Nat, Reaches(q, p), Reaches(r, p)
  PROVE  q = r
<1>1. CASE q < r
  BY <1>1 DEF Reaches, InBlock
<1>2. CASE r < q
  BY <1>2 DEF Reaches, InBlock
<1>. QED BY <1>1, <1>2

\* A line outside the blocks.
LEMMA FramedOutside ==
  ASSUME TypeOK, BlocksFramed, NEW l \in Lines, Emit(l), l.class \notin BlockClasses,
         envLines = NoBlock, envLines' = NoBlock
  PROVE  BlocksFramed'
<1>0. PICK n \in Nat :
        /\ n = Len(stream) /\ Len(stream') = n + 1
        /\ DOMAIN stream = 1..n /\ DOMAIN stream' = 1..n + 1
        /\ \A p \in 1..n : stream'[p] = stream[p]
        /\ stream'[n + 1] = l
  BY StreamFacts
<1>1. \A p \in 1..n + 1, q \in 1..n : Reaches(q, p)' <=> Reaches(q, p)
  BY <1>0, ReachesStays
<1>. QED BY <1>0, <1>1 DEF BlocksFramed, BlockClasses

LEMMA FramedOpens ==
  ASSUME TypeOK, BlocksFramed, NEW l \in Lines, Emit(l), l.class = "client",
         envLines = NoBlock, envLines' = 0
  PROVE  BlocksFramed'
<1>0. PICK n \in Nat :
        /\ n = Len(stream) /\ Len(stream') = n + 1
        /\ DOMAIN stream = 1..n /\ DOMAIN stream' = 1..n + 1
        /\ \A p \in 1..n : stream'[p] = stream[p]
        /\ stream'[n + 1] = l
  BY StreamFacts
<1>1. \A p \in 1..n + 1, q \in 1..n : Reaches(q, p)' <=> Reaches(q, p)
  BY <1>0, ReachesStays
<1>2. Reaches(n + 1, n + 2)' /\ envLines' # NoBlock
  BY <1>0, FrameAssumption DEF Reaches
<1>3. n + 1 \in DOMAIN stream' /\ Len(stream') + 1 = n + 2 /\ Len(stream') - (n + 1) = envLines'
  BY <1>0
<1>. QED BY <1>0, <1>1, <1>2, <1>3 DEF BlocksFramed

LEMMA FramedContinues ==
  ASSUME TypeOK, BlocksFramed, NEW l \in Lines, Emit(l), InBlock(l),
         envLines # NoBlock, envLines' = envLines + 1
  PROVE  BlocksFramed'
<1>0. PICK n \in Nat :
        /\ n = Len(stream) /\ Len(stream') = n + 1
        /\ DOMAIN stream = 1..n /\ DOMAIN stream' = 1..n + 1
        /\ \A p \in 1..n : stream'[p] = stream[p]
        /\ stream'[n + 1] = l
  BY StreamFacts
<1>1. \A p \in 1..n + 1, q \in 1..n : Reaches(q, p)' <=> Reaches(q, p)
  BY <1>0, ReachesStays
<1>2. envLines \in Nat /\ envLines' # NoBlock
  BY FrameAssumption, PipelineAssumption DEF TypeOK
<1>3. \A q \in 1..n : Reaches(q, n + 1) => Reaches(q, n + 2)'
  <2>. SUFFICES ASSUME NEW q \in 1..n, Reaches(q, n + 1) PROVE Reaches(q, n + 2)'
    OBVIOUS
  <2>1. \A r \in q + 1..n + 1 : InBlock(stream'[r])
    BY <1>0 DEF Reaches
  <2>. QED BY <1>0, <2>1 DEF Reaches, InBlock
<1>4. l.class \notin {"client", "envEnd"}
  BY DEF InBlock
<1>5. PICK q \in 1..n : Reaches(q, n + 1) /\ n - q = envLines
  BY <1>0 DEF BlocksFramed
<1>6. n + 1 - q = envLines' /\ Len(stream') + 1 = n + 2
  BY <1>0, <1>2, <1>5
<1>7. \A p \in 1..n + 1 : stream'[p].class \in {"env", "envEnd"} => \E r \in 1..n + 1 : Reaches(r, p)'
  <2>1. ASSUME NEW p \in 1..n, stream'[p].class \in {"env", "envEnd"}
        PROVE  \E r \in 1..n + 1 : Reaches(r, p)'
    <3>1. PICK r \in 1..n : Reaches(r, p)
      BY <1>0, <2>1 DEF BlocksFramed
    <3>2. Reaches(r, p)' /\ r \in 1..n + 1
      BY <1>1, <3>1
    <3>. QED BY <3>2
  <2>2. Reaches(q, n + 1)'
    BY <1>1, <1>5
  <2>. QED BY <1>0, <1>5, <2>1, <2>2
<1>8. \A r \in 1..n + 1 : stream'[r].class = "client" =>
        \/ \E p \in 1..n + 1 : Reaches(r, p)' /\ stream'[p].class = "envEnd"
        \/ Reaches(r, n + 2)'
  <2>. SUFFICES ASSUME NEW r \in 1..n + 1, stream'[r].class = "client"
                PROVE  \/ \E p \in 1..n + 1 : Reaches(r, p)' /\ stream'[p].class = "envEnd"
                       \/ Reaches(r, n + 2)'
    OBVIOUS
  <2>1. r \in 1..n /\ stream[r].class = "client"
    BY <1>0, <1>4
  <2>2. \/ \E p \in 1..n : Reaches(r, p) /\ stream[p].class = "envEnd"
        \/ Reaches(r, n + 1)
    BY <1>0, <2>1 DEF BlocksFramed
  <2>3. ASSUME NEW p \in 1..n, Reaches(r, p), stream[p].class = "envEnd"
        PROVE  p \in 1..n + 1 /\ Reaches(r, p)' /\ stream'[p].class = "envEnd"
    BY <1>0, <1>1, <2>1, <2>3
  <2>. QED BY <1>3, <2>1, <2>2, <2>3
<1>9. q \in 1..n + 1 /\ Reaches(q, n + 2)' /\ Len(stream') - q = envLines'
  BY <1>0, <1>3, <1>5, <1>6
<1>. QED BY <1>0, <1>2, <1>3, <1>6, <1>7, <1>8, <1>9 DEF BlocksFramed

LEMMA FramedCloses ==
  ASSUME TypeOK, BlocksFramed, NEW l \in Lines, Emit(l), l.class = "envEnd",
         envLines # NoBlock, envLines' = NoBlock
  PROVE  BlocksFramed'
<1>0. PICK n \in Nat :
        /\ n = Len(stream) /\ Len(stream') = n + 1
        /\ DOMAIN stream = 1..n /\ DOMAIN stream' = 1..n + 1
        /\ \A p \in 1..n : stream'[p] = stream[p]
        /\ stream'[n + 1] = l
  BY StreamFacts
<1>1. \A p \in 1..n + 1, q \in 1..n : Reaches(q, p)' <=> Reaches(q, p)
  BY <1>0, ReachesStays
<1>2. PICK q \in 1..n : Reaches(q, n + 1)
  BY <1>0 DEF BlocksFramed
<1>. QED BY <1>0, <1>1, <1>2, SMTT(20) DEF BlocksFramed
-----------------------------------------------------------------------------
(***************************************************************************)
(* The lines the server sends, by what they are to the invariants.         *)
(***************************************************************************)
SendsNote(l) ==
  /\ l.cmd = 0 /\ l.class \in EventClasses /\ envLines = NoBlock
  /\ UNCHANGED <<served, body, envLines, closed>>

SendsHeader(l) ==
  /\ l.cmd = 0 /\ l.class = "client" /\ envLines = NoBlock /\ envLines' = 0
  /\ UNCHANGED <<served, body, closed>>

SendsInside(l) ==
  /\ InBlock(l) /\ (l.class = "garbage" => "garbage" \in EventClasses)
  /\ envLines # NoBlock /\ envLines < MaxEnvLines /\ envLines' = envLines + 1
  /\ UNCHANGED <<served, body, closed>>

SendsClose(l) ==
  /\ l.cmd = 0 /\ l.class = "envEnd" /\ envLines # NoBlock /\ envLines' = NoBlock
  /\ UNCHANGED <<served, body, closed>>

Answering1(l) ==
  /\ l.cmd = served + 1 /\ served < Len(sent) /\ envLines = NoBlock /\ ~closed
  /\ UNCHANGED <<envLines, closed>>

SendsBody(l) ==
  /\ Answering1(l) /\ l.class \in BodyClasses
  /\ ExpectedResponse(sent[served + 1]) = "MultiLine"
  /\ served' = served /\ body' = body + 1

SendsLast(l) ==
  /\ Answering1(l) /\ Terminal(l)
  /\ l.class = "end" => ExpectedResponse(sent[served + 1]) = "MultiLine"
  /\ l.class # "end" => body = 0 \/ ExpectedResponse(sent[served + 1]) # "MultiLine"
  /\ served' = served + 1 /\ body' = IF l.class = "end" THEN 0 ELSE body

SendsEntry(l) ==
  /\ Answering1(l) /\ l.class = "entry" /\ sent[served + 1] = "Pkcs11IdGet"
  /\ ExpectedResponse(sent[served + 1]) = "SuccessOrError"
  /\ served' = served + 1 /\ body' = body

Emission(l) ==
  \/ SendsNote(l) \/ SendsHeader(l) \/ SendsInside(l) \/ SendsClose(l)
  \/ SendsBody(l) \/ SendsLast(l) \/ SendsEntry(l)

\* A step of the server that sends no line.
SendsNothing ==
  /\ served < Len(sent) /\ sent[served + 1] \in AllCommands
  /\ ExpectedResponse(sent[served + 1]) = "NoResponse"
  /\ closed' = (sent[served + 1] \in {"Exit", "Quit"})
  /\ served' = served + 1 /\ ~closed
  /\ UNCHANGED <<codecVars, outVars, sent, rejected, read, stream, body, envLines>>

LEMMA Steps ==
  ASSUME TypeOK, [Next]_vars
  PROVE  \/ \E c \in Commands : Send(c)
         \/ \E c \in Commands : SendRejected(c)
         \/ Decode
         \/ \E l \in Lines : Emit(l) /\ Emission(l)
         \/ SendsNothing
         \/ UNCHANGED vars
<1>. USE PipelineAssumption
<1>0. served + 1 \in Nat /\ body + 1 \in Nat
  BY DEF TypeOK
<1>1. ASSUME NEW c \in {"success", "error"}, AnswerLine(c)
      PROVE  \E l \in Lines : Emit(l) /\ Emission(l)
  <2>1. Line(c, served + 1, 1) \in Lines
    BY <1>0, LineType
  <2>2. SendsLast(Line(c, served + 1, 1))
    BY <1>1 DEF AnswerLine, SendsLast, Answering1, Serving, Between, Line, Terminal
  <2>. QED BY <1>1, <2>1, <2>2 DEF AnswerLine, Emission
<1>2. ASSUME NEW c \in BodyClasses, AnswerBody(c)
      PROVE  \E l \in Lines : Emit(l) /\ Emission(l)
  <2>1. Line(c, served + 1, body + 1) \in Lines
    BY <1>0, LineType
  <2>2. SendsBody(Line(c, served + 1, body + 1))
    BY <1>2 DEF AnswerBody, SendsBody, Answering1, Serving, Between, Line
  <2>. QED BY <1>2, <2>1, <2>2 DEF AnswerBody, Emission
<1>3. CASE AnswerEnd
  <2>1. Line("end", served + 1, body + 1) \in Lines
    BY <1>0, LineType
  <2>2. SendsLast(Line("end", served + 1, body + 1))
    BY <1>3 DEF AnswerEnd, SendsLast, Answering1, Serving, Between, Line, Terminal
  <2>. QED BY <1>3, <2>1, <2>2 DEF AnswerEnd, Emission
<1>4. CASE AnswerNothing
  <2>1. sent[served + 1] \in AllCommands
    BY <1>4 DEF AnswerNothing, Serving, TypeOK
  <2>. QED BY <1>4, <2>1 DEF AnswerNothing, SendsNothing, Serving, Between
<1>5. CASE AnswerNotification
  <2>1. Line("entry", served + 1, 1) \in Lines
    BY <1>0 DEF Line, Lines, Classes, AsyncClasses
  <2>2. SendsEntry(Line("entry", served + 1, 1))
    BY <1>5 DEF AnswerNotification, SendsEntry, Answering1, Serving, Between, Line, ByNotification
  <2>. QED BY <1>5, <2>1, <2>2 DEF AnswerNotification, Emission
<1>6. ASSUME NEW c \in EventClasses, Notify(c) PROVE \E l \in Lines : Emit(l) /\ Emission(l)
  <2>1. EventLine(c, NoKey) \in Lines
    BY EventLineType
  <2>2. SendsNote(EventLine(c, NoKey))
    BY <1>6 DEF Notify, SendsNote, Between, EventLine
  <2>. QED BY <1>6, <2>1, <2>2 DEF Notify, Emission
<1>7. CASE OpenBlock
  <2>1. EventLine("client", NoKey) \in Lines
    BY EventLineType DEF BlockClasses
  <2>2. SendsHeader(EventLine("client", NoKey))
    BY <1>7 DEF OpenBlock, SendsHeader, Between, EventLine
  <2>. QED BY <1>7, <2>1, <2>2 DEF OpenBlock, Emission
<1>8. ASSUME NEW k \in EnvKeys, EnvLine(k) PROVE \E l \in Lines : Emit(l) /\ Emission(l)
  <2>1. EventLine("env", k) \in Lines
    BY EventLineType DEF BlockClasses
  <2>2. SendsInside(EventLine("env", k))
    BY <1>8 DEF EnvLine, SendsInside, InBlock, EventLine
  <2>. QED BY <1>8, <2>1, <2>2 DEF EnvLine, Emission
<1>9. CASE GarbledEnvLine
  <2>1. EventLine("garbage", NoKey) \in Lines
    BY <1>9, EventLineType DEF GarbledEnvLine
  <2>2. SendsInside(EventLine("garbage", NoKey))
    BY <1>9 DEF GarbledEnvLine, SendsInside, InBlock, EventLine
  <2>. QED BY <1>9, <2>1, <2>2 DEF GarbledEnvLine, Emission
<1>10. CASE CloseBlock
  <2>1. EventLine("envEnd", NoKey) \in Lines
    BY EventLineType DEF BlockClasses
  <2>2. SendsClose(EventLine("envEnd", NoKey))
    BY <1>10 DEF CloseBlock, SendsClose, EventLine
  <2>. QED BY <1>10, <2>1, <2>2 DEF CloseBlock, Emission
<1>. QED BY <1>1, <1>2, <1>3, <1>4, <1>5, <1>6, <1>7, <1>8, <1>9, <1>10 DEF Next, Answer, Interrupt

\* A block goes on as the server sends it.
LEMMA FramedStep ==
  ASSUME TypeOK, BlocksFramed, NEW l \in Lines, Emit(l), Emission(l)
  PROVE  BlocksFramed'
<1>1. {"client", "env", "envEnd"} = BlockClasses /\ BlockClasses \cap AsyncClasses = {}
  BY DEF BlockClasses, AsyncClasses
<1>2. CASE SendsNote(l)
  BY <1>1, <1>2, FramedOutside, PipelineAssumption DEF SendsNote
<1>3. CASE SendsHeader(l)
  BY <1>3, FramedOpens DEF SendsHeader
<1>4. CASE SendsInside(l)
  BY <1>4, FramedContinues DEF SendsInside
<1>5. CASE SendsClose(l)
  BY <1>5, FramedCloses DEF SendsClose
<1>6. CASE SendsBody(l)
  BY <1>1, <1>6, FramedOutside, PipelineAssumption DEF SendsBody, Answering1
<1>7. CASE SendsLast(l)
  BY <1>1, <1>7, FramedOutside DEF SendsLast, Answering1, Terminal
<1>8. CASE SendsEntry(l)
  BY <1>1, <1>8, FramedOutside DEF SendsEntry, Answering1
<1>. QED BY <1>2, <1>3, <1>4, <1>5, <1>6, <1>7, <1>8 DEF Emission
-----------------------------------------------------------------------------
(***************************************************************************)
(* BlockInv.                                                               *)
(***************************************************************************)
\* A step that neither sends nor decodes.
LEMMA BlockQuiet ==
  ASSUME BlockInv, UNCHANGED <<stream, read, envLines, clientNotification, events>>
  PROVE  BlockInv'
BY DEF BlockInv, BlocksFramed, OpenBlockKnown, EventsOrdered, EventHeads, Delivered,
   Reaches, InBlock, Intact, Accumulating

\* The lines decoded and the events are the same after the server has sent a line.
LEMMA EmitKeeps ==
  ASSUME TypeOK, NEW l \in Lines, Emit(l)
  PROVE  /\ UNCHANGED <<read, clientNotification, events, Delivered, EventHeads>>
         /\ read \in 0..Len(stream)
<1>0. PICK n \in Nat :
        /\ n = Len(stream) /\ Len(stream') = n + 1
        /\ DOMAIN stream = 1..n /\ DOMAIN stream' = 1..n + 1
        /\ \A p \in 1..n : stream'[p] = stream[p]
        /\ stream'[n + 1] = l
  BY StreamFacts
<1>1. read \in 0..n /\ UNCHANGED <<read, clientNotification, events>>
  BY <1>0 DEF TypeOK, Emit, codecVars, frameVars, outVars
<1>2. Delivered' = Delivered
  BY <1>1 DEF Delivered
<1>3. EventHeads' = EventHeads
  BY <1>0, <1>1 DEF EventHeads
<1>. QED BY <1>0, <1>1, <1>2, <1>3

\* The server sends a line.
LEMMA BlockEmits ==
  ASSUME TypeOK, BlockInv, NEW l \in Lines, Emit(l), Emission(l)
  PROVE  BlockInv'
<1>0. PICK n \in Nat :
        /\ n = Len(stream) /\ Len(stream') = n + 1
        /\ DOMAIN stream = 1..n /\ DOMAIN stream' = 1..n + 1
        /\ \A p \in 1..n : stream'[p] = stream[p]
        /\ stream'[n + 1] = l
  BY StreamFacts
<1>1. read \in 0..n /\ UNCHANGED <<read, clientNotification, events, Delivered, EventHeads>>
  BY <1>0, EmitKeeps
<1>2. \A p \in 1..n + 1, q \in 1..n : Reaches(q, p)' <=> Reaches(q, p)
  BY <1>0, ReachesStays
<1>3. BlocksFramed'
  BY FramedStep DEF BlockInv
<1>4. OpenBlockKnown'
  BY <1>0, <1>1, <1>2 DEF BlockInv, OpenBlockKnown, Intact, Accumulating
<1>5. EventsOrdered'
  BY <1>1 DEF BlockInv, EventsOrdered
<1>. QED BY <1>1, <1>3, <1>4, <1>5 DEF BlockInv

\* The first line of an event has been decoded.
LEMMA EventAt ==
  ASSUME TypeOK, EventsOrdered, NEW i \in DOMAIN events
  PROVE  /\ events[i] \in Messages(EventTags) /\ Len(events) \in Nat /\ DOMAIN events = 1..Len(events)
         /\ events[i].ids \in Seq(Nat) /\ 1 \in DOMAIN events[i].ids /\ events[i].ids[1] \in 1..read
<1>1. events \in Seq(Messages(EventTags))
  BY DEF TypeOK, CodecTypeOK
<1>2. events[i] \in Messages(EventTags) /\ Len(events) \in Nat /\ DOMAIN events = 1..Len(events)
  BY <1>1
<1>3. events[i].ids \in Seq(Nat)
  BY <1>2 DEF Messages
<1>4. events[i].ids # <<>>
  BY DEF EventsOrdered
<1>5. 1 \in DOMAIN events[i].ids
  BY <1>3, <1>4
<1>. QED BY <1>2, <1>3, <1>5 DEF EventsOrdered

\* The events after a line has been decoded.
LEMMA EventsAppended ==
  ASSUME TypeOK, EventsOrdered, NEW m \in Messages(EventTags), events' = Append(events, m),
         m.ids # <<>>, \A j \in DOMAIN m.ids : m.ids[j] \in 1..read + 1, read' = read + 1,
         \A i \in DOMAIN events : events[i].ids[1] < m.ids[1]
  PROVE  EventsOrdered' /\ Delivered' = Delivered \cup {m.ids[1]}
<1>0. PICK n \in Nat :
        /\ n = Len(events) /\ DOMAIN events = 1..n /\ DOMAIN events' = 1..n + 1
        /\ \A i \in 1..n : events'[i] = events[i]
        /\ events'[n + 1] = m
  <2>1. events \in Seq(Messages(EventTags))
    BY DEF TypeOK, CodecTypeOK
  <2>2. Len(events) \in Nat /\ Append(events, m) \in Seq(Messages(EventTags))
    BY <2>1, AppendFacts
  <2>3. DOMAIN Append(events, m) = 1..Len(events) + 1
    BY <2>1, <2>2, AppendFacts
  <2>. QED BY <2>1, <2>2, <2>3, AppendFacts
<1>1. read \in Nat
  BY DEF TypeOK
<1>2. EventsOrdered'
  BY <1>0, <1>1 DEF EventsOrdered
<1>3. Delivered' = Delivered \cup {m.ids[1]}
  BY <1>0 DEF Delivered
<1>. QED BY <1>2, <1>3

\* The block that reaches one line further.
LEMMA ReachesOn ==
  ASSUME NEW d \in Nat, NEW q \in Nat, q <= d
  PROVE  Reaches(q, d + 1) <=>
           \/ q = d /\ stream[d].class = "client"
           \/ q < d /\ Reaches(q, d) /\ InBlock(stream[d])
<1>1. CASE q = d
  BY <1>1 DEF Reaches
<1>2. CASE q < d
  <2>1. q + 1..d + 1 - 1 = (q + 1..d - 1) \cup {d}
    BY <1>2
  <2>. QED BY <1>2, <2>1 DEF Reaches
<1>. QED BY <1>1, <1>2

\* What decoding a line makes of the block that is open.
LEMMA OpenBlockDecode ==
  ASSUME TypeOK, BlockInv, Decode
  PROVE  OpenBlockKnown'
<1>0. PICK d \in Nat :
        /\ d = read + 1 /\ read \in Nat /\ d \in 1..Len(stream) /\ read' = d /\ stream' = stream
        /\ DecodeLine(stream[d], d) /\ stream[d] \in Lines
  BY DEF Decode, serverVars, TypeOK
<1>1. \A q \in 1..d : Reaches(q, d + 1)' <=> Reaches(q, d + 1)
  BY <1>0 DEF Reaches
<1>2. \A q \in 1..d : Reaches(q, d + 1) <=>
           \/ q = d /\ stream[d].class = "client"
           \/ q < d /\ Reaches(q, d) /\ InBlock(stream[d])
  BY ReachesOn
<1>3. Accumulating => clientNotification \in Blocks /\ clientNotification.header \in 1..d - 1
  BY <1>0 DEF BlockInv, OpenBlockKnown, TypeOK, CodecTypeOK, FrameTypeOK, Accumulating
<1>4. \A e : [header |-> d, env |-> e].header = d
  OBVIOUS
<1>5. /\ stream[d].class \notin BlockClasses \cup {"garbage"} => clientNotification' = clientNotification
      /\ stream[d].class = "client" => Accumulating' /\ clientNotification'.header = d
      /\ stream[d].class = "garbage" => ~Accumulating'
      /\ stream[d].class = "envEnd" /\ Accumulating => ~Accumulating'
      /\ stream[d].class = "envEnd" /\ ~Accumulating => Accumulating' /\ clientNotification'.header = d
      /\ stream[d].class = "env" /\ ~Accumulating => Accumulating' /\ clientNotification'.header = d
      /\ stream[d].class = "env" /\ Accumulating =>
           Accumulating' /\ clientNotification'.header = clientNotification.header
  <2>1. [header |-> d, env |-> NoEnv] # NoBlock
    BY FrameAssumption DEF Blocks, EnvMaps, NoEnv
  <2>2. Accumulating => \A e \in EnvMaps : [clientNotification EXCEPT !.env = e] \in Blocks
    BY <1>3 DEF Blocks
  <2>3. Accumulating => Insert(clientNotification.env, stream[d].key, d) \in EnvMaps
    BY <1>3 DEF Blocks, EnvMaps, Insert
  <2>4. Accumulating =>
          LET b == [clientNotification EXCEPT !.env = Insert(@, stream[d].key, d)]
          IN b # NoBlock /\ b.header = clientNotification.header
    BY <1>3, <2>2, <2>3, FrameAssumption DEF Blocks
  <2>5. /\ stream[d].class \notin BlockClasses \cup {"garbage"} => clientNotification' = clientNotification
        /\ stream[d].class = "client" => clientNotification' = [header |-> d, env |-> NoEnv]
        /\ stream[d].class = "garbage" => clientNotification' = NoBlock
        /\ stream[d].class = "envEnd" =>
             clientNotification' = IF Accumulating THEN NoBlock ELSE [header |-> d, env |-> NoEnv]
        /\ stream[d].class = "env" =>
             clientNotification' =
               IF ~Accumulating THEN [header |-> d, env |-> NoEnv]
               ELSE IF EnvFrame = "More"
                    THEN [clientNotification EXCEPT !.env = Insert(@, stream[d].key, d)]
                    ELSE clientNotification
    BY <1>0, BlockOutcomes, Zenon
  <2>6. \A e : [header |-> d, env |-> e].header = d
    OBVIOUS
  <2>. QED BY <2>1, <2>4, <2>5, <2>6, Zenon DEF Accumulating
<1>6. Accumulating' => clientNotification'.header \in 1..d
  BY <1>0, <1>3, <1>5 DEF BlockClasses, Accumulating
<1>7. ASSUME NEW q \in 1..d, Reaches(q, d + 1)
      PROVE  /\ \A i \in DOMAIN events' : events'[i].ids[1] < q
             /\ Accumulating' => q <= clientNotification'.header
             /\ (\A r \in q..d : stream[r].class # "garbage") =>
                  Accumulating' /\ clientNotification'.header = q
  <2>1. events' = events
    <3>1. stream[d].class \in {"client", "env", "garbage"}
      BY <1>2, <1>7 DEF InBlock
    <3>2. stream[d].class \notin NoteClasses
      BY <3>1 DEF NoteClasses, AsyncClasses
    <3>. QED BY <1>0, <3>1, <3>2, EventOutcomes
  <2>2. CASE q = d
    <3>1. \A i \in DOMAIN events : events[i].ids[1] < d
      BY <1>0, EventAt DEF BlockInv, TypeOK
    <3>. QED BY <1>2, <1>5, <1>7, <2>1, <2>2, <3>1
  <2>3. CASE q < d
    <3>1. q \in 1..read /\ Reaches(q, read + 1) /\ InBlock(stream[d])
      BY <1>0, <1>2, <1>7, <2>3
    <3>2. /\ \A i \in DOMAIN events : events[i].ids[1] < q
          /\ Accumulating => q <= clientNotification.header
          /\ Intact(q, read) => Accumulating /\ clientNotification.header = q
      BY <3>1 DEF BlockInv, OpenBlockKnown
    <3>3. (\A r \in q..d : stream[r].class # "garbage") => Intact(q, read) /\ stream[d].class # "garbage"
      BY <1>0 DEF Intact
    <3>. QED BY <1>3, <1>5, <2>1, <2>3, <3>1, <3>2, <3>3 DEF InBlock
  <2>. QED BY <2>2, <2>3
<1>8. \A q \in 1..d : Intact(q, d)' <=> \A r \in q..d : stream[r].class # "garbage"
  BY <1>0 DEF Intact
<1>. QED BY <1>0, <1>1, <1>6, <1>7, <1>8 DEF OpenBlockKnown

\* What it delivers.
LEMMA EventsDecode ==
  ASSUME TypeOK, BlockInv, Decode
  PROVE  EventsOrdered' /\ EventHeads' \subseteq Delivered'
<1>0. PICK d \in Nat :
        /\ d = read + 1 /\ read \in Nat /\ d \in 1..Len(stream) /\ read' = d /\ stream' = stream
        /\ DecodeLine(stream[d], d) /\ stream[d] \in Lines /\ DOMAIN stream = 1..Len(stream)
  BY DEF Decode, serverVars, TypeOK
<1>1. \A i \in DOMAIN events : events[i].ids[1] < d
  BY <1>0, EventAt DEF BlockInv, TypeOK
<1>2. stream[d].class \in NoteClasses => stream[d].class # "envEnd"
  BY DEF NoteClasses, AsyncClasses
<1>3. \A p \in EventHeads' :
        \/ p \in EventHeads
        \/ p = d /\ stream[d].class \in NoteClasses
        \/ /\ p < d /\ stream[p].class = "client" /\ stream[d].class = "envEnd"
           /\ \A r \in p..d : stream[r].class # "garbage"
  <2>. SUFFICES ASSUME NEW p \in EventHeads', p \notin EventHeads, ~(p = d /\ stream[d].class \in NoteClasses)
                PROVE  /\ p < d /\ stream[p].class = "client" /\ stream[d].class = "envEnd"
                       /\ \A r \in p..d : stream[r].class # "garbage"
    OBVIOUS
  <2>1. /\ p \in 1..d
        /\ \/ stream[p].class \in NoteClasses
           \/ /\ stream[p].class = "client"
              /\ \E q \in p..d : stream[q].class = "envEnd" /\ \A r \in p..q : stream[r].class # "garbage"
    BY <1>0 DEF EventHeads, NoteClasses
  <2>2. stream[p].class \notin NoteClasses
    BY <1>0, <2>1 DEF EventHeads, NoteClasses
  <2>3. PICK q \in p..d : stream[q].class = "envEnd" /\ \A r \in p..q : stream[r].class # "garbage"
    BY <2>1, <2>2
  <2>4. q = d
    BY <1>0, <2>1, <2>2, <2>3 DEF EventHeads
  <2>. QED BY <2>1, <2>2, <2>3, <2>4
<1>4. CASE stream[d].class \in NoteClasses
  <2>1. events' = Append(events, Msg(EventTag(stream[d]), <<d>>))
    BY <1>0, <1>2, <1>4, EventOutcomes
  <2>2. Msg(EventTag(stream[d]), <<d>>) \in Messages(EventTags)
    <3>1. FrameOf(stream[d]) \in AsyncFrames
      BY <1>0, <1>4, FrameFacts DEF NoteClasses, AsyncClasses
    <3>2. EventTag(stream[d]) \in EventTags
      BY <3>1 DEF EventTag, EventTags, AsyncFrames
    <3>3. <<d>> \in Seq(Nat)
      OBVIOUS
    <3>. QED BY <3>2, <3>3, MsgType
  <2>3. Msg(EventTag(stream[d]), <<d>>).ids = <<d>>
    BY DEF Msg
  <2>4. EventsOrdered' /\ Delivered' = Delivered \cup {d}
    BY <1>0, <1>1, <2>1, <2>2, <2>3, EventsAppended DEF BlockInv
  <2>. QED BY <1>2, <1>3, <1>4, <2>4 DEF BlockInv
<1>5. CASE stream[d].class = "envEnd"
  <2>1. PICK q0 \in 1..Len(stream) : Reaches(q0, d)
    BY <1>0, <1>5 DEF BlockInv, BlocksFramed
  <2>2. /\ q0 \in 1..read /\ Reaches(q0, read + 1)
        /\ stream[q0].class = "client" /\ \A r \in q0 + 1..d - 1 : InBlock(stream[r])
    BY <1>0, <2>1 DEF Reaches
  <2>3. /\ \A i \in DOMAIN events : events[i].ids[1] < q0
        /\ Accumulating => clientNotification.header \in 1..read /\ q0 <= clientNotification.header
        /\ Intact(q0, read) => Accumulating /\ clientNotification.header = q0
    BY <2>2 DEF BlockInv, OpenBlockKnown
  <2>4. ASSUME NEW p \in EventHeads', p \notin EventHeads
        PROVE  Accumulating /\ clientNotification.header = p
    <3>1. /\ p \in 1..read /\ stream[p].class = "client"
          /\ \A r \in p..d : stream[r].class # "garbage"
      BY <1>0, <1>2, <1>3, <1>5, <2>4 DEF EventHeads
    <3>2. ~(q0 < p)
      BY <1>0, <2>2, <3>1 DEF InBlock
    <3>3. ~(p < q0)
      <4>. SUFFICES ASSUME p < q0 PROVE FALSE
        OBVIOUS
      <4>1. ~Reaches(p, Len(stream) + 1)
        BY <1>0, <2>1, <2>2, <3>1 DEF Reaches, InBlock
      <4>2. PICK q \in 1..Len(stream) : Reaches(p, q) /\ stream[q].class = "envEnd"
        BY <1>0, <3>1, <4>1 DEF BlockInv, BlocksFramed
      <4>3. q < q0
        BY <2>2, <3>1, <4>2 DEF Reaches, InBlock
      <4>4. p < q
        BY <4>2 DEF Reaches
      <4>5. q \in p..read /\ \A r \in p..q : stream[r].class # "garbage"
        BY <1>0, <2>2, <3>1, <4>3, <4>4
      <4>. QED BY <2>4, <3>1, <4>2, <4>5 DEF EventHeads
    <3>4. p = q0
      BY <2>2, <3>1, <3>2, <3>3
    <3>5. Intact(q0, read)
      BY <1>0, <3>1, <3>4 DEF Intact
    <3>. QED BY <2>3, <3>4, <3>5
  <2>5. CASE Accumulating
    <3>. DEFINE m == [tag |-> "Notification", ids |-> <<clientNotification.header, d>>,
                      env |-> clientNotification.env]
    <3>1. events' = Append(events, m)
      BY <1>0, <1>2, <1>5, <2>5, EventOutcomes
    <3>2. clientNotification \in Blocks
      BY <2>5 DEF TypeOK, CodecTypeOK, FrameTypeOK, Accumulating
    <3>3. m \in Messages(EventTags) /\ m.ids = <<clientNotification.header, d>>
      BY <1>0, <3>2 DEF Blocks, Messages, EventTags, AsyncFrames
    <3>4. /\ m.ids # <<>> /\ m.ids[1] = clientNotification.header
          /\ \A j \in DOMAIN m.ids : m.ids[j] \in 1..d
      BY <1>0, <2>3, <2>5, <3>3
    <3>5. \A i \in DOMAIN events : events[i].ids[1] < m.ids[1]
      <4>. SUFFICES ASSUME NEW i \in DOMAIN events PROVE events[i].ids[1] < m.ids[1]
        OBVIOUS
      <4>1. events[i].ids[1] \in Nat
        BY EventAt DEF BlockInv
      <4>. QED BY <2>2, <2>3, <2>5, <3>4, <4>1
    <3>. HIDE DEF m
    <3>6. EventsOrdered' /\ Delivered' = Delivered \cup {m.ids[1]}
      BY <1>0, <3>1, <3>3, <3>4, <3>5, EventsAppended DEF BlockInv
    <3>. QED BY <2>4, <3>4, <3>6 DEF BlockInv
  <2>6. CASE ~Accumulating
    <3>1. events' = events
      BY <1>0, <1>2, <1>5, <2>6, EventOutcomes
    <3>2. EventsOrdered' /\ Delivered' = Delivered
      BY <1>0, <3>1 DEF BlockInv, EventsOrdered, Delivered
    <3>. QED BY <2>4, <2>6, <3>2 DEF BlockInv
  <2>. QED BY <2>5, <2>6
<1>6. CASE stream[d].class \notin NoteClasses /\ stream[d].class # "envEnd"
  <2>1. events' = events
    BY <1>0, <1>6, EventOutcomes
  <2>2. EventsOrdered' /\ Delivered' = Delivered
    BY <1>0, <2>1 DEF BlockInv, EventsOrdered, Delivered
  <2>. QED BY <1>3, <1>6, <2>2 DEF BlockInv
<1>. QED BY <1>4, <1>5, <1>6
-----------------------------------------------------------------------------
(***************************************************************************)
(* WholeInv: the blocks when no line of them is garbled.                   *)
(***************************************************************************)
\* The entries of a block: for each key the last of its lines.
EntryLines(k, a, b) == {p \in a..b : stream[p].class = "env" /\ stream[p].key = k}
LastOf(S) == IF S = {} THEN 0 ELSE CHOOSE p \in S : \A q \in S : q <= p

LEMMA LastOfFacts ==
  ASSUME NEW S, NEW d \in S, S \subseteq Nat, \A q \in S : q <= d
  PROVE  LastOf(S) = d
<1>1. \E p \in S : \A q \in S : q <= p
  OBVIOUS
<1>2. LastOf(S) \in S /\ \A q \in S : q <= LastOf(S)
  BY <1>1 DEF LastOf
<1>3. LastOf(S) \in Nat /\ d \in Nat /\ LastOf(S) <= d /\ d <= LastOf(S)
  BY <1>2
<1>. QED BY <1>3

LEMMA EntriesAre ==
  ASSUME NEW a, NEW b
  PROVE  /\ BlockEntries(a, b) = [k \in EnvKeys |-> LastOf(EntryLines(k, a, b))]
         /\ BlockEntries(a, b)' = [k \in EnvKeys |-> LastOf(EntryLines(k, a, b)')]
BY Zenon DEF BlockEntries, LastOf, EntryLines

\* Of the entries one line later.
LEMMA EntriesNext ==
  ASSUME NEW h \in Nat, NEW d \in Nat, h <= d, d > 0
  PROVE  /\ stream[d].class # "env" => BlockEntries(h, d) = BlockEntries(h, d - 1)
         /\ stream[d].class = "env" => BlockEntries(h, d) = Insert(BlockEntries(h, d - 1), stream[d].key, d)
<1>1. \A k : EntryLines(k, h, d) =
         EntryLines(k, h, d - 1) \cup (IF stream[d].class = "env" /\ stream[d].key = k THEN {d} ELSE {})
  BY DEF EntryLines
<1>2. CASE stream[d].class # "env"
  <2>1. \A k : EntryLines(k, h, d) = EntryLines(k, h, d - 1)
    BY <1>1, <1>2
  <2>. QED BY <1>2, <2>1, EntriesAre
<1>3. CASE stream[d].class = "env"
  <2>1. \A k : k # stream[d].key => EntryLines(k, h, d) = EntryLines(k, h, d - 1)
    BY <1>1
  <2>2. d \in EntryLines(stream[d].key, h, d)
    BY <1>1, <1>3
  <2>3. /\ EntryLines(stream[d].key, h, d) \subseteq Nat
        /\ \A q \in EntryLines(stream[d].key, h, d) : q <= d
    BY DEF EntryLines
  <2>4. LastOf(EntryLines(stream[d].key, h, d)) = d
    BY <2>2, <2>3, LastOfFacts
  <2>. QED BY <1>3, <2>1, <2>4, EntriesAre DEF Insert
<1>. QED BY <1>2, <1>3

\* Of a block that ends before the lines that are added, none.
LEMMA EntriesStay ==
  ASSUME NEW a \in Nat, NEW b \in Nat, \A p \in a..b : stream'[p] = stream[p]
  PROVE  BlockEntries(a, b)' = BlockEntries(a, b)
<1>1. \A k : EntryLines(k, a, b)' = EntryLines(k, a, b)
  BY DEF EntryLines
<1>. QED BY <1>1, EntriesAre

\* The lines of a block are intact if no notification is garbled.
LEMMA CleanIntact ==
  ASSUME TypeOK, OnlyOpenBlock, NEW q \in Nat, NEW p \in Nat, p <= Len(stream) + 1, q > 0, Reaches(q, p)
  PROVE  /\ Intact(q, p - 1)
         /\ p <= Len(stream) => ~(stream[p].cmd = 0 /\ stream[p].class = "garbage")
BY DEF TypeOK, OnlyOpenBlock, Reaches, InBlock, Intact

LEMMA WholeQuiet ==
  ASSUME WholeInv, UNCHANGED <<stream, read, clientNotification, events>>
  PROVE  WholeInv'
<1>1. \A a, b : BlockEntries(a, b)' = BlockEntries(a, b)
  <2>1. \A k, a, b : EntryLines(k, a, b)' = EntryLines(k, a, b)
    BY DEF EntryLines
  <2>. QED BY <2>1, EntriesAre
<1>2. /\ OnlyOpenBlock => OnlyOpenBlock'
      /\ NothingInvented => NothingInvented'
      /\ BlocksShort => BlocksShort'
  BY DEF OnlyOpenBlock, NothingInvented, BlocksShort, EventHeads, Delivered, Reaches, InBlock, Accumulating
<1>3. EntriesSoFar => EntriesSoFar'
  BY <1>1 DEF EntriesSoFar, Accumulating, Entries
<1>4. BlocksWhole => BlocksWhole'
  BY <1>1 DEF BlocksWhole
<1>. QED BY <1>2, <1>3, <1>4 DEF WholeInv, CleanBlocks, RoomyBlocks

\* The block whose line the server has sent last.
LEMMA ShortEmits ==
  ASSUME TypeOK, BlocksFramed, BlocksShort, NEW l \in Lines, Emit(l), Emission(l)
  PROVE  BlocksShort'
<1>0. PICK n \in Nat :
        /\ n = Len(stream) /\ Len(stream') = n + 1
        /\ DOMAIN stream = 1..n /\ DOMAIN stream' = 1..n + 1
        /\ \A p \in 1..n : stream'[p] = stream[p]
        /\ stream'[n + 1] = l
  BY StreamFacts
<1>1. \A p \in 1..n + 1, q \in 1..n + 1 : Reaches(q, p)' <=> Reaches(q, p)
  BY <1>0, ReachesStays
<1>. SUFFICES ASSUME NEW p \in 1..n + 1, NEW q \in 1..n + 1, Reaches(q, p), stream'[p].class = "env"
              PROVE  p - q <= MaxEnvLines
  BY <1>0, <1>1 DEF BlocksShort
<1>2. CASE p \in 1..n
  <2>1. q \in 1..n
    BY <1>2 DEF Reaches
  <2>. QED BY <1>0, <1>2, <2>1 DEF BlocksShort
<1>3. CASE p = n + 1
  <2>1. l.class = "env"
    BY <1>0, <1>3
  <2>2. SendsInside(l)
    BY <2>1, PipelineAssumption DEF Emission, SendsNote, SendsHeader, SendsClose, SendsBody,
       SendsLast, SendsEntry, Terminal, AsyncClasses
  <2>3. PICK r \in 1..n : Reaches(r, n + 1) /\ n - r = envLines
    BY <1>0, <2>2 DEF SendsInside, BlocksFramed
  <2>4. q = r
    <3>1. Reaches(q, n + 1) /\ Reaches(r, n + 1) /\ n + 1 \in Nat /\ q \in Nat /\ r \in Nat
      BY <1>3, <2>3
    <3>. QED BY <3>1, OneBlock
  <2>5. envLines \in Nat /\ envLines < MaxEnvLines
    BY <2>2, PipelineAssumption DEF SendsInside, TypeOK
  <2>. QED BY <1>3, <2>3, <2>4, <2>5, PipelineAssumption
<1>. QED BY <1>2, <1>3

LEMMA WholeEmits ==
  ASSUME TypeOK, BlockInv, WholeInv, NEW l \in Lines, Emit(l), Emission(l)
  PROVE  WholeInv'
<1>0. PICK n \in Nat :
        /\ n = Len(stream) /\ Len(stream') = n + 1
        /\ DOMAIN stream = 1..n /\ DOMAIN stream' = 1..n + 1
        /\ \A p \in 1..n : stream'[p] = stream[p]
        /\ stream'[n + 1] = l
  BY StreamFacts
<1>1. read \in 0..n /\ UNCHANGED <<read, clientNotification, events, Delivered, EventHeads>>
  BY <1>0, EmitKeeps
<1>2. \A p \in 1..n + 1, q \in 1..n + 1 : Reaches(q, p)' <=> Reaches(q, p)
  BY <1>0, ReachesStays
<1>3. CleanBlocks /\ l.class = "garbage" => l.cmd # 0
  BY DEF Emission, SendsNote, SendsHeader, SendsInside, SendsClose, SendsBody,
     SendsLast, SendsEntry, Answering1, Terminal, CleanBlocks, TypeOK
<1>4. Accumulating => clientNotification.header \in 1..read
  BY DEF BlockInv, OpenBlockKnown
<1>5. CleanBlocks => OnlyOpenBlock' /\ NothingInvented'
  <2>. SUFFICES ASSUME CleanBlocks PROVE OnlyOpenBlock' /\ NothingInvented'
    OBVIOUS
  <2>1. OnlyOpenBlock'
    BY <1>0, <1>1, <1>2, <1>3, <1>4 DEF WholeInv, OnlyOpenBlock, Accumulating
  <2>. QED BY <1>1, <2>1 DEF WholeInv, NothingInvented
<1>6. RoomyBlocks => EntriesSoFar'
  <2>. SUFFICES ASSUME RoomyBlocks, Accumulating PROVE EntriesSoFar'
    BY <1>1 DEF EntriesSoFar, Accumulating
  <2>1. PICK h \in Nat, m \in Nat : h = clientNotification.header /\ m = read /\ h \in 1..m
    BY <1>1, <1>4
  <2>2. BlockEntries(h, m)' = BlockEntries(h, m)
    BY <1>0, <1>1, <2>1, EntriesStay
  <2>3. BlockEntries(clientNotification.header, read)' = BlockEntries(clientNotification.header, read)
    BY <1>1, <2>1, <2>2
  <2>. QED BY <1>1, <2>3 DEF WholeInv, EntriesSoFar, Accumulating, Entries
<1>7. RoomyBlocks => BlocksShort'
  BY ShortEmits DEF WholeInv, BlockInv
<1>8. RoomyBlocks => BlocksWhole'
  <2>. SUFFICES ASSUME RoomyBlocks, NEW i \in DOMAIN events, Len(events[i].ids) = 2
                PROVE  events[i].env = BlockEntries(events[i].ids[1], events[i].ids[2])'
    BY <1>1 DEF BlocksWhole
  <2>1. events[i].ids \in Seq(Nat)
    BY EventAt DEF BlockInv
  <2>2. PICK a \in 1..read, b \in 1..read : a = events[i].ids[1] /\ b = events[i].ids[2]
    BY <2>1 DEF BlockInv, EventsOrdered
  <2>3. BlockEntries(a, b)' = BlockEntries(a, b)
    <3>1. \A p \in a..b : stream'[p] = stream[p]
      BY <1>0, <1>1, <2>2
    <3>. QED BY <2>2, <3>1, EntriesStay
  <2>4. BlockEntries(events[i].ids[1], events[i].ids[2])' = BlockEntries(a, b)'
    BY <1>1, <2>2
  <2>. QED BY <2>2, <2>3, <2>4 DEF WholeInv, BlocksWhole
<1>. QED BY <1>5, <1>6, <1>7, <1>8 DEF WholeInv, CleanBlocks, RoomyBlocks

\* What a line does to the block when no notification is garbled.
LEMMA CleanOutcomes ==
  ASSUME TypeOK, BlockInv, OnlyOpenBlock, Decode, NEW d \in Nat, d = read + 1
  PROVE  /\ d \in 1..Len(stream) /\ stream[d] \in Lines /\ DecodeLine(stream[d], d)
         /\ stream' = stream /\ read' = d /\ DOMAIN stream = 1..Len(stream)
         /\ Accumulating =>
              /\ clientNotification \in Blocks
              /\ clientNotification.header \in 1..d - 1 /\ Reaches(clientNotification.header, d)
         /\ \/ /\ stream[d].class = "client" /\ ~Accumulating
               /\ clientNotification' = [header |-> d, env |-> NoEnv]
            \/ /\ stream[d].class = "env" /\ Accumulating /\ InBlock(stream[d])
               /\ clientNotification' = IF EnvFrame = "More"
                                        THEN [clientNotification EXCEPT !.env = Insert(@, stream[d].key, d)]
                                        ELSE clientNotification
            \/ stream[d].class = "envEnd" /\ Accumulating /\ clientNotification' = NoBlock
            \/ stream[d].class \notin BlockClasses /\ ~Accumulating /\ clientNotification' = NoBlock
<1>0. /\ read \in Nat /\ d \in 1..Len(stream) /\ read' = d /\ stream' = stream
      /\ DecodeLine(stream[d], d) /\ stream[d] \in Lines /\ DOMAIN stream = 1..Len(stream)
  BY DEF Decode, serverVars, TypeOK
<1>1. Accumulating =>
        /\ clientNotification \in Blocks
        /\ clientNotification.header \in 1..d - 1 /\ Reaches(clientNotification.header, d)
  BY <1>0 DEF BlockInv, OpenBlockKnown, OnlyOpenBlock, TypeOK, CodecTypeOK, FrameTypeOK, Accumulating
<1>2. Accumulating => stream[d].class \in {"env", "envEnd"} /\ (stream[d].class = "env" => InBlock(stream[d]))
  <2>1. Accumulating => InBlock(stream[d]) \/ stream[d].class = "envEnd"
    <3>. SUFFICES ASSUME Accumulating PROVE InBlock(stream[d]) \/ stream[d].class = "envEnd"
      OBVIOUS
    <3>1. clientNotification.header \in DOMAIN stream /\ d \in DOMAIN stream
          /\ Reaches(clientNotification.header, d)
      BY <1>0, <1>1
    <3>2. PICK h \in DOMAIN stream : Reaches(h, d)
      BY <3>1
    <3>3. BlocksFramed
      BY DEF BlockInv
    <3>. QED BY <3>1, <3>2, <3>3, Inside
  <2>2. InBlock(stream[d]) => stream[d].class = "env"
    BY <1>0 DEF InBlock, OnlyOpenBlock
  <2>. QED BY <2>1, <2>2
<1>3. ~Accumulating => stream[d].class \notin {"env", "envEnd"}
  <2>. SUFFICES ASSUME stream[d].class \in {"env", "envEnd"} PROVE Accumulating
    OBVIOUS
  <2>1. PICK q \in 1..Len(stream) : Reaches(q, d)
    BY <1>0 DEF BlockInv, BlocksFramed
  <2>2. q \in 1..read /\ Reaches(q, read + 1)
    BY <1>0, <2>1 DEF Reaches
  <2>3. Intact(q, read)
    <3>1. Intact(q, d - 1)
      BY <1>0, <2>1, CleanIntact
    <3>. QED BY <1>0, <3>1
  <2>. QED BY <2>2, <2>3 DEF BlockInv, OpenBlockKnown
<1>4. /\ stream[d].class \notin BlockClasses \cup {"garbage"} => clientNotification' = clientNotification
      /\ stream[d].class = "client" => clientNotification' = [header |-> d, env |-> NoEnv]
      /\ stream[d].class = "garbage" => clientNotification' = NoBlock
      /\ stream[d].class = "envEnd" =>
           clientNotification' = IF Accumulating THEN NoBlock ELSE [header |-> d, env |-> NoEnv]
      /\ stream[d].class = "env" =>
           clientNotification' =
             IF ~Accumulating THEN [header |-> d, env |-> NoEnv]
             ELSE IF EnvFrame = "More"
                  THEN [clientNotification EXCEPT !.env = Insert(@, stream[d].key, d)]
                  ELSE clientNotification
  BY <1>0, BlockOutcomes, Zenon
<1>5. CASE Accumulating
  BY <1>0, <1>1, <1>2, <1>4, <1>5
<1>6. CASE ~Accumulating
  <2>1. clientNotification = NoBlock
    BY <1>6 DEF Accumulating
  <2>2. stream[d].class \in BlockClasses => stream[d].class = "client"
    BY <1>3, <1>6 DEF BlockClasses
  <2>. QED BY <1>0, <1>1, <1>4, <1>6, <2>1, <2>2, Zenon
<1>. QED BY <1>5, <1>6

LEMMA CleanDecode ==
  ASSUME TypeOK, BlockInv, OnlyOpenBlock, NothingInvented, Decode
  PROVE  OnlyOpenBlock' /\ NothingInvented'
<1>0. PICK d \in Nat : d = read + 1 /\ read \in Nat
  BY DEF TypeOK
<1>1. /\ d \in 1..Len(stream) /\ stream[d] \in Lines /\ DecodeLine(stream[d], d)
      /\ stream' = stream /\ read' = d /\ DOMAIN stream = 1..Len(stream)
      /\ Accumulating =>
           /\ clientNotification \in Blocks
           /\ clientNotification.header \in 1..d - 1 /\ Reaches(clientNotification.header, d)
  BY <1>0, CleanOutcomes
<1>2. \/ stream[d].class = "client" /\ clientNotification' = [header |-> d, env |-> NoEnv]
      \/ Accumulating /\ InBlock(stream[d]) /\ clientNotification'.header = clientNotification.header
      \/ clientNotification' = NoBlock
  <2>1. Accumulating => \A e : [clientNotification EXCEPT !.env = e].header = clientNotification.header
    BY <1>1 DEF Blocks
  <2>. QED BY <1>0, <2>1, CleanOutcomes, Zenon
<1>3. \A q \in 1..d : Reaches(q, d + 1)' <=> Reaches(q, d + 1)
  BY <1>1 DEF Reaches
<1>4. clientNotification' # NoBlock => clientNotification'.header \in 1..d /\ Reaches(clientNotification'.header, d + 1)
  <2>1. CASE stream[d].class = "client" /\ clientNotification' = [header |-> d, env |-> NoEnv]
    <3>1. Reaches(d, d + 1)
      BY <1>1, <2>1, ReachesOn
    <3>. QED BY <1>1, <2>1, <3>1
  <2>2. CASE Accumulating /\ InBlock(stream[d]) /\ clientNotification'.header = clientNotification.header
    BY <1>1, <2>2, ReachesOn
  <2>. QED BY <1>2, <2>1, <2>2
<1>5. OnlyOpenBlock'
  BY <1>1, <1>3, <1>4 DEF OnlyOpenBlock, Accumulating
<1>6. EventHeads \subseteq EventHeads'
  BY <1>0, <1>1 DEF EventHeads
<1>7. CASE stream[d].class \in NoteClasses
  <2>1. events' = Append(events, Msg(EventTag(stream[d]), <<d>>))
    BY <1>1, <1>7, EventOutcomes DEF NoteClasses, AsyncClasses
  <2>2. Delivered' \subseteq Delivered \cup {d}
    <3>1. events \in Seq(Messages(EventTags)) /\ Len(events) \in Nat /\ DOMAIN events = 1..Len(events)
      BY DEF TypeOK, CodecTypeOK
    <3>2. DOMAIN events' \subseteq 1..Len(events) + 1
      BY <2>1, <3>1
    <3>3. \A i \in 1..Len(events) : events'[i] = events[i]
      BY <2>1, <3>1
    <3>4. events'[Len(events) + 1].ids[1] = d
      BY <2>1, <3>1 DEF Msg
    <3>. QED BY <3>1, <3>2, <3>3, <3>4 DEF Delivered
  <2>3. d \in EventHeads'
    BY <1>1, <1>7 DEF EventHeads, NoteClasses
  <2>. QED BY <1>5, <1>6, <2>2, <2>3 DEF NothingInvented
<1>8. CASE stream[d].class = "envEnd" /\ Accumulating
  <2>1. events' = Append(events, [tag |-> "Notification", ids |-> <<clientNotification.header, d>>,
                                  env |-> clientNotification.env])
    BY <1>1, <1>8, EventOutcomes DEF NoteClasses, AsyncClasses
  <2>2. Delivered' \subseteq Delivered \cup {clientNotification.header}
    <3>1. events \in Seq(Messages(EventTags)) /\ Len(events) \in Nat /\ DOMAIN events = 1..Len(events)
      BY DEF TypeOK, CodecTypeOK
    <3>2. DOMAIN events' \subseteq 1..Len(events) + 1
      BY <2>1, <3>1
    <3>3. \A i \in 1..Len(events) : events'[i] = events[i]
      BY <2>1, <3>1
    <3>4. events'[Len(events) + 1].ids[1] = clientNotification.header
      BY <2>1, <3>1
    <3>. QED BY <3>1, <3>2, <3>3, <3>4 DEF Delivered
  <2>3. PICK h \in 1..d - 1 : h = clientNotification.header /\ Reaches(h, d)
    BY <1>1, <1>8
  <2>4. \A r \in h..d : stream[r].class # "garbage"
    <3>1. Intact(h, d - 1)
      BY <1>1, <2>3, CleanIntact
    <3>. QED BY <1>8, <3>1 DEF Intact
  <2>5. h \in EventHeads'
    BY <1>0, <1>1, <1>8, <2>3, <2>4 DEF EventHeads, Reaches
  <2>. QED BY <1>5, <1>6, <2>2, <2>3, <2>5 DEF NothingInvented
<1>9. CASE stream[d].class \notin NoteClasses /\ ~(stream[d].class = "envEnd" /\ Accumulating)
  <2>1. Delivered' = Delivered
    BY <1>1, <1>9, EventOutcomes DEF Delivered
  <2>. QED BY <1>5, <1>6, <2>1 DEF NothingInvented
<1>. QED BY <1>7, <1>8, <1>9

\* A key has its entry at most once.
LEMMA InsertEntries ==
  ASSUME NEW env \in EnvMaps, IsFiniteSet(Entries(env)), NEW k, NEW d \in Nat \ {0}
  PROVE  /\ IsFiniteSet(Entries(Insert(env, k, d)))
         /\ Cardinality(Entries(Insert(env, k, d))) <= Cardinality(Entries(env)) + 1
         /\ Cardinality(Entries(env)) \in Nat
<1>1. Entries(Insert(env, k, d)) \subseteq Entries(env) \cup {k}
  BY DEF Entries, Insert, EnvMaps
<1>2. /\ IsFiniteSet(Entries(env) \cup {k})
      /\ Cardinality(Entries(env) \cup {k}) = IF k \in Entries(env) THEN Cardinality(Entries(env))
                                               ELSE Cardinality(Entries(env)) + 1
  BY FS_AddElement
<1>3. /\ IsFiniteSet(Entries(Insert(env, k, d)))
      /\ Cardinality(Entries(Insert(env, k, d))) <= Cardinality(Entries(env) \cup {k})
  BY <1>1, <1>2, FS_Subset
<1>4. Cardinality(Entries(env)) \in Nat /\ Cardinality(Entries(Insert(env, k, d))) \in Nat
  BY <1>3, FS_CardinalityType
<1>. QED BY <1>2, <1>3, <1>4

LEMMA EntriesDecode ==
  ASSUME RoomyBlocks, TypeOK, BlockInv, OnlyOpenBlock, EntriesSoFar, BlocksShort, Decode
  PROVE  EntriesSoFar'
<1>0. PICK d \in Nat \ {0} : d = read + 1 /\ read \in Nat
  BY DEF TypeOK
<1>1. /\ d \in 1..Len(stream) /\ stream[d] \in Lines /\ DecodeLine(stream[d], d)
      /\ stream' = stream /\ read' = d /\ DOMAIN stream = 1..Len(stream)
      /\ Accumulating =>
           /\ clientNotification \in Blocks
           /\ clientNotification.header \in 1..d - 1 /\ Reaches(clientNotification.header, d)
  BY <1>0, CleanOutcomes
<1>2. \A a, b : BlockEntries(a, b)' = BlockEntries(a, b)
  <2>1. \A k, a, b : EntryLines(k, a, b)' = EntryLines(k, a, b)
    BY <1>1 DEF EntryLines
  <2>. QED BY <2>1, EntriesAre
<1>3. CASE stream[d].class = "client" /\ clientNotification' = [header |-> d, env |-> NoEnv]
  <2>1. clientNotification'.header = d /\ clientNotification'.env = NoEnv
    BY <1>3
  <2>2. BlockEntries(d, d) = NoEnv
    <3>1. \A k : EntryLines(k, d, d) = {}
      BY <1>3 DEF EntryLines
    <3>2. LastOf({}) = 0
      BY DEF LastOf
    <3>. QED BY <3>1, <3>2, EntriesAre DEF NoEnv
  <2>3. Entries(NoEnv) = {} /\ IsFiniteSet({}) /\ Cardinality({}) = 0
    BY FS_EmptySet DEF Entries, NoEnv
  <2>4. BlockEntries(d, d)' = NoEnv /\ d - d = 0
    BY <1>2, <2>2
  <2>. QED BY <1>1, <2>1, <2>3, <2>4 DEF EntriesSoFar
<1>4. CASE stream[d].class = "env" /\ Accumulating /\ InBlock(stream[d])
  <2>1. PICK h \in 1..d - 1 : h = clientNotification.header /\ Reaches(h, d)
    BY <1>1, <1>4
  <2>2. /\ clientNotification \in Blocks /\ clientNotification.env \in EnvMaps
        /\ clientNotification.env = BlockEntries(h, read)
        /\ IsFiniteSet(Entries(clientNotification.env))
        /\ Cardinality(Entries(clientNotification.env)) <= read - h
        /\ Cardinality(Entries(clientNotification.env)) \in Nat
    BY <1>1, <1>4, <2>1, FS_CardinalityType DEF EntriesSoFar, Blocks
  <2>3. EnvFrame = "More"
    <3>1. d - h <= MaxEnvLines
      BY <1>1, <1>4, <2>1 DEF BlocksShort
    <3>2. MaxEnvEntries # Unlimited => Cardinality(Entries(clientNotification.env)) < MaxEnvEntries
      BY <1>0, <2>1, <2>2, <3>1, FrameAssumption, PipelineAssumption DEF RoomyBlocks
    <3>3. MaxEnvEntries # Unlimited => MaxEnvEntries \in Nat
      BY FrameAssumption
    <3>. QED BY <2>2, <3>2, <3>3 DEF EnvFrame, OverLimit
  <2>4. clientNotification' = [clientNotification EXCEPT !.env = Insert(@, stream[d].key, d)]
    <3>1. stream[d].class \notin {"client", "envEnd"} /\ stream[d].class \in BlockClasses
      BY <1>4 DEF BlockClasses
    <3>. QED BY <1>0, <1>4, <2>3, <3>1, CleanOutcomes, Zenon
  <2>5. /\ clientNotification'.header = h
        /\ clientNotification'.env = Insert(clientNotification.env, stream[d].key, d)
    BY <2>1, <2>2, <2>4 DEF Blocks
  <2>6. clientNotification'.env = BlockEntries(h, d)'
    <3>1. BlockEntries(h, d) = Insert(BlockEntries(h, d - 1), stream[d].key, d)
      BY <1>4, <2>1, EntriesNext
    <3>. QED BY <1>0, <1>2, <2>2, <2>5, <3>1
  <2>7. /\ IsFiniteSet(Entries(clientNotification'.env))
        /\ Cardinality(Entries(clientNotification'.env)) <= d - h
    <3>1. /\ IsFiniteSet(Entries(Insert(clientNotification.env, stream[d].key, d)))
          /\ Cardinality(Entries(Insert(clientNotification.env, stream[d].key, d)))
               <= Cardinality(Entries(clientNotification.env)) + 1
      BY <2>2, InsertEntries
    <3>2. Cardinality(Entries(Insert(clientNotification.env, stream[d].key, d))) \in Nat
      BY <3>1, FS_CardinalityType
    <3>. QED BY <1>0, <2>1, <2>2, <2>5, <3>1, <3>2
  <2>. QED BY <1>1, <2>5, <2>6, <2>7 DEF EntriesSoFar, Entries
<1>5. CASE clientNotification' = NoBlock
  BY <1>5 DEF EntriesSoFar, Accumulating
<1>. QED BY <1>0, <1>3, <1>4, <1>5, CleanOutcomes

LEMMA WholeDecode ==
  ASSUME RoomyBlocks, TypeOK, BlockInv, OnlyOpenBlock, EntriesSoFar, BlocksWhole, Decode
  PROVE  BlocksWhole'
<1>0. PICK d \in Nat \ {0} : d = read + 1 /\ read \in Nat
  BY DEF TypeOK
<1>1. /\ d \in 1..Len(stream) /\ stream[d] \in Lines /\ DecodeLine(stream[d], d)
      /\ stream' = stream /\ read' = d /\ DOMAIN stream = 1..Len(stream)
      /\ Accumulating =>
           /\ clientNotification \in Blocks
           /\ clientNotification.header \in 1..d - 1 /\ Reaches(clientNotification.header, d)
  BY <1>0, CleanOutcomes
<1>2. \A a, b : BlockEntries(a, b)' = BlockEntries(a, b)
  <2>1. \A k, a, b : EntryLines(k, a, b)' = EntryLines(k, a, b)
    BY <1>1 DEF EntryLines
  <2>. QED BY <2>1, EntriesAre
<1>3. events \in Seq(Messages(EventTags)) /\ Len(events) \in Nat /\ DOMAIN events = 1..Len(events)
  BY DEF TypeOK, CodecTypeOK
<1>4. ASSUME NEW m, events' = Append(events, m), Len(m.ids) = 2 => m.env = BlockEntries(m.ids[1], m.ids[2])
      PROVE  BlocksWhole'
  <2>1. DOMAIN events' = 1..Len(events) + 1 /\ events'[Len(events) + 1] = m
        /\ \A i \in 1..Len(events) : events'[i] = events[i]
    BY <1>3, <1>4
  <2>. SUFFICES ASSUME NEW i \in 1..Len(events) + 1, Len(events'[i].ids) = 2
                PROVE  events'[i].env = BlockEntries(events'[i].ids[1], events'[i].ids[2])
    BY <1>2, <2>1 DEF BlocksWhole
  <2>2. CASE i = Len(events) + 1
    BY <1>4, <2>1, <2>2
  <2>3. CASE i \in 1..Len(events)
    BY <1>3, <2>1, <2>3 DEF BlocksWhole
  <2>. QED BY <1>3, <2>2, <2>3
<1>5. CASE stream[d].class \in NoteClasses
  <2>1. events' = Append(events, Msg(EventTag(stream[d]), <<d>>))
    BY <1>1, <1>5, EventOutcomes DEF NoteClasses, AsyncClasses
  <2>2. Len(Msg(EventTag(stream[d]), <<d>>).ids) = 1
    BY DEF Msg
  <2>. QED BY <1>4, <2>1, <2>2
<1>6. CASE stream[d].class = "envEnd" /\ Accumulating
  <2>. DEFINE m == [tag |-> "Notification", ids |-> <<clientNotification.header, d>>,
                    env |-> clientNotification.env]
  <2>1. events' = Append(events, m)
    BY <1>1, <1>6, EventOutcomes DEF NoteClasses, AsyncClasses
  <2>2. m.env = BlockEntries(clientNotification.header, d - 1)
    BY <1>0, <1>6 DEF EntriesSoFar
  <2>3. BlockEntries(clientNotification.header, d) = BlockEntries(clientNotification.header, d - 1)
    BY <1>1, <1>6, EntriesNext
  <2>4. m.ids[1] = clientNotification.header /\ m.ids[2] = d
    OBVIOUS
  <2>. HIDE DEF m
  <2>. QED BY <1>4, <2>1, <2>2, <2>3, <2>4
<1>7. CASE stream[d].class \notin NoteClasses /\ ~(stream[d].class = "envEnd" /\ Accumulating)
  <2>1. events' = events
    BY <1>1, <1>7, EventOutcomes
  <2>. QED BY <1>2, <2>1 DEF BlocksWhole
<1>. QED BY <1>5, <1>6, <1>7

LEMMA WholeStep ==
  ASSUME TypeOK, BlockInv, WholeInv, Decode
  PROVE  WholeInv'
<1>1. stream' = stream
  BY DEF Decode, serverVars
<1>2. CleanBlocks => OnlyOpenBlock' /\ NothingInvented'
  BY CleanDecode DEF WholeInv
<1>3. RoomyBlocks => BlocksShort'
  BY <1>1 DEF WholeInv, BlocksShort, Reaches, InBlock
<1>4. RoomyBlocks => EntriesSoFar' /\ BlocksWhole'
  BY EntriesDecode, WholeDecode DEF WholeInv, RoomyBlocks
<1>. QED BY <1>2, <1>3, <1>4 DEF WholeInv, CleanBlocks, RoomyBlocks
-----------------------------------------------------------------------------
(***************************************************************************)
(* MixInv: multi-line answers.                                             *)
(***************************************************************************)
\* What decoding a line does to the lines held back and to the replies.
LEMMA HeldOutcomes ==
  ASSUME NEW l \in Lines, NEW id, DecodeLine(l, id)
  PROVE  /\ \/ multiLineBuf' = NoBuf
            \/ multiLineBuf' = multiLineBuf /\ l.class # "end"
            \/ l.class \in {"text", "empty"} /\ multiLineBuf' = <<id>>
            \/ /\ l.class \in {"text", "empty"} /\ multiLineBuf # NoBuf
               /\ multiLineBuf' = Append(multiLineBuf, id)
         /\ \/ replies' = replies
            \/ \E t : replies' = Append(replies, Msg(t, <<id>>))
            \/ multiLineBuf # NoBuf /\ replies' = Append(replies, Msg("MultiLine", multiLineBuf))
            \/ replies' = Append(replies, Msg("MultiLine", <<>>))
<1>1. /\ l.class = "end" <=> FrameOf(l) = "End"
      /\ FrameOf(l) = "Line" => l.class \in {"text", "empty", "malformed"}
      /\ "End" \notin AsyncFrames
  BY FrameFacts DEF AsyncFrames
<1>2. \/ multiLineBuf' = NoBuf
      \/ multiLineBuf' = multiLineBuf /\ FrameOf(l) # "End"
      \/ BodyLine(l) /\ multiLineBuf' = <<id>>
      \/ BodyLine(l) /\ multiLineBuf # NoBuf /\ multiLineBuf' = Append(multiLineBuf, id)
  <2>1. CASE DecodeSelfDescribing(l, id)
    BY <2>1 DEF DecodeSelfDescribing
  <2>2. CASE DecodeAsync(l, id) \/ DecodeClientEnv(l, id)
    BY <1>1, <2>2 DEF DecodeAsync, DecodeClientEnv
  <2>3. CASE DecodeEnd(l, id) \/ DecodeFailed(l)
    BY <2>3 DEF DecodeEnd, DecodeFailed
  <2>4. CASE DecodeSkipped(l) \/ DecodeMalformed(l, id) \/ DecodeMore(l)
    BY <2>4 DEF DecodeSkipped, DecodeMalformed, DecodeMore
  <2>5. CASE DecodeCollect(l, id) \/ DecodeFirst(l, id)
    BY <2>5 DEF DecodeCollect, DecodeFirst, BodyLine
  <2>. QED BY <2>1, <2>2, <2>3, <2>4, <2>5 DEF DecodeLine
<1>3. \/ replies' = replies
      \/ \E t : replies' = Append(replies, Msg(t, <<id>>))
      \/ multiLineBuf # NoBuf /\ replies' = Append(replies, Msg("MultiLine", multiLineBuf))
      \/ replies' = Append(replies, Msg("MultiLine", <<>>))
  <2>1. DecodeClientEnv(l, id) => replies' = replies
    BY DEF DecodeClientEnv, Event
  <2>. QED BY <2>1, DecodeOutcomes, Zenon DEF Reply, Event, Fail, Silent, outVars
<1>. QED BY <1>1, <1>2, <1>3 DEF BodyLine

\* A step that neither answers nor decodes.
LEMMA MixQuiet ==
  ASSUME TypeOK, MixInv, UNCHANGED <<stream, read, served, body, multiLineBuf, replies>>,
         \/ sent' = sent
         \/ \E c \in Commands : sent' = Append(sent, c)
  PROVE  MixInv'
<1>1. /\ Len(sent) \in Nat /\ Len(sent') >= Len(sent) /\ Len(sent') \in Nat
      /\ \A k \in 1..Len(sent) : sent'[k] = sent[k]
  BY AppendFacts DEF TypeOK
<1>2. BodiesApart'
  BY <1>1 DEF MixInv, BodiesApart, BodyPlaces, TypeOK
<1>. QED BY <1>2 DEF MixInv, HeldSinceEnd, BodyPlaces, RepliesHeard, NeverMixed, OneOrigin

\* The server goes on to the next command without a line.
LEMMA MixSkips ==
  ASSUME TypeOK, MixInv, SendsNothing
  PROVE  MixInv'
<1>1. body = 0
  BY DEF SendsNothing, MixInv, BodiesApart, TypeOK
<1>2. UNCHANGED <<stream, read, body, multiLineBuf, replies, sent>>
  BY DEF SendsNothing, codecVars, outVars
<1>3. BodiesApart'
  BY <1>1, <1>2 DEF MixInv, BodiesApart, BodyPlaces
<1>. QED BY <1>2, <1>3 DEF MixInv, HeldSinceEnd, BodyPlaces, RepliesHeard, NeverMixed, OneOrigin

LEMMA ApartEmits ==
  ASSUME TypeOK, BodiesApart, NEW l \in Lines, Emit(l), Emission(l)
  PROVE  BodiesApart'
<1>0. PICK n \in Nat :
        /\ n = Len(stream) /\ Len(stream') = n + 1
        /\ DOMAIN stream = 1..n /\ DOMAIN stream' = 1..n + 1
        /\ \A p \in 1..n : stream'[p] = stream[p]
        /\ stream'[n + 1] = l /\ sent' = sent
  BY StreamFacts
<1>1. /\ BodyPlaces \subseteq 1..n
      /\ BodyPlaces' = BodyPlaces \cup (IF l.class \in {"text", "empty"} THEN {n + 1} ELSE {})
  BY <1>0 DEF BodyPlaces
<1>2. served \in Nat /\ body \in Nat
  BY DEF TypeOK
<1>3. CASE SendsBody(l)
  <2>1. body' > 0 /\ served' = served /\ l.cmd = served + 1
    BY <1>2, <1>3 DEF SendsBody, Answering1
  <2>2. \A p \in BodyPlaces : stream'[p].cmd = served + 1 \/ \E r \in p + 1..n : stream'[r].class = "end"
    BY <1>0, <1>1 DEF BodiesApart
  <2>3. \A p, q \in BodyPlaces' : p < q =>
          \/ stream'[p].cmd = stream'[q].cmd
          \/ \E r \in p + 1..q - 1 : stream'[r].class = "end"
    <3>. SUFFICES ASSUME NEW p \in BodyPlaces', NEW q \in BodyPlaces', p < q
                  PROVE  \/ stream'[p].cmd = stream'[q].cmd
                         \/ \E r \in p + 1..q - 1 : stream'[r].class = "end"
      OBVIOUS
    <3>1. p \in BodyPlaces /\ (q \in BodyPlaces \/ q = n + 1)
      BY <1>0, <1>1
    <3>2. CASE q \in BodyPlaces
      BY <1>0, <1>1, <3>1, <3>2 DEF BodiesApart
    <3>3. CASE q = n + 1
      BY <1>0, <2>1, <2>2, <3>1, <3>3
    <3>. QED BY <3>1, <3>2, <3>3
  <2>4. \A p \in BodyPlaces' :
          stream'[p].cmd = served + 1 \/ \E r \in p + 1..n + 1 : stream'[r].class = "end"
    <3>. SUFFICES ASSUME NEW p \in BodyPlaces', stream'[p].cmd # served + 1
                  PROVE  \E r \in p + 1..n + 1 : stream'[r].class = "end"
      OBVIOUS
    <3>1. p \in BodyPlaces
      BY <1>0, <1>1, <2>1
    <3>2. PICK r \in p + 1..n : stream'[r].class = "end"
      BY <2>2, <3>1
    <3>. QED BY <1>1, <3>1, <3>2
  <2>5. served < Len(sent) /\ ExpectedResponse(sent[served + 1]) = "MultiLine"
    BY <1>3 DEF SendsBody, Answering1
  <2>. QED BY <1>0, <2>1, <2>3, <2>4, <2>5 DEF BodiesApart
<1>4. CASE ~SendsBody(l)
  <2>1. BodyPlaces' = BodyPlaces
    BY <1>1, <1>4, PipelineAssumption DEF Emission, SendsNote, SendsHeader, SendsInside, SendsClose,
       SendsLast, SendsEntry, InBlock, Terminal, AsyncClasses
  <2>2. \A p, q \in BodyPlaces' : p < q =>
          \/ stream'[p].cmd = stream'[q].cmd
          \/ \E r \in p + 1..q - 1 : stream'[r].class = "end"
    BY <1>0, <1>1, <2>1 DEF BodiesApart
  <2>3. \/ served' = served /\ body' = body
        \/ body = 0 /\ body' = 0
        \/ l.class = "end" /\ body' = 0
    BY <1>2, <1>4 DEF BodiesApart, Emission, SendsNote, SendsHeader, SendsInside, SendsClose,
       SendsLast, SendsEntry, Answering1
  <2>4. \A p \in BodyPlaces' :
          \/ stream'[p].cmd = served' + 1 /\ body' > 0
          \/ \E r \in p + 1..n + 1 : stream'[r].class = "end"
    <3>. SUFFICES ASSUME NEW p \in BodyPlaces, ~(stream[p].cmd = served' + 1 /\ body' > 0)
                  PROVE  \E r \in p + 1..n + 1 : stream'[r].class = "end"
      BY <1>0, <1>1, <2>1
    <3>1. CASE l.class = "end"
      BY <1>0, <1>1, <3>1
    <3>2. CASE l.class # "end"
      <4>1. ~(stream[p].cmd = served + 1 /\ body > 0)
        BY <2>3, <3>2
      <4>2. PICK r \in p + 1..n : stream[r].class = "end"
        BY <1>0, <4>1 DEF BodiesApart
      <4>. QED BY <1>0, <1>1, <4>2
    <3>. QED BY <3>1, <3>2
  <2>5. body' > 0 => served' < Len(sent) /\ ExpectedResponse(sent[served' + 1]) = "MultiLine"
    BY <2>3 DEF BodiesApart
  <2>. QED BY <1>0, <2>2, <2>4, <2>5 DEF BodiesApart
<1>. QED BY <1>3, <1>4

LEMMA MixEmits ==
  ASSUME TypeOK, MixInv, NEW l \in Lines, Emit(l), Emission(l)
  PROVE  MixInv'
<1>0. PICK n \in Nat :
        /\ n = Len(stream) /\ Len(stream') = n + 1
        /\ DOMAIN stream = 1..n /\ DOMAIN stream' = 1..n + 1
        /\ \A p \in 1..n : stream'[p] = stream[p]
        /\ stream'[n + 1] = l
  BY StreamFacts
<1>1. read \in 0..n /\ UNCHANGED <<read, multiLineBuf, replies>>
  BY <1>0 DEF TypeOK, Emit, codecVars, outVars
<1>2. BodiesApart'
  BY ApartEmits DEF MixInv
<1>3. HeldSinceEnd'
  BY <1>0, <1>1 DEF MixInv, HeldSinceEnd, BodyPlaces
<1>4. RepliesHeard'
  BY <1>1 DEF MixInv, RepliesHeard
<1>5. NeverMixed'
  <2>1. \A k \in DOMAIN replies : OneOrigin(replies[k].ids)'
    BY <1>0, <1>1 DEF MixInv, RepliesHeard, NeverMixed, OneOrigin
  <2>2. multiLineBuf # NoBuf => OneOrigin(multiLineBuf)'
    BY <1>0, <1>1 DEF MixInv, HeldSinceEnd, BodyPlaces, NeverMixed, OneOrigin
  <2>. QED BY <1>1, <2>1, <2>2 DEF NeverMixed, OneOrigin
<1>. QED BY <1>2, <1>3, <1>4, <1>5 DEF MixInv

LEMMA MixDecode ==
  ASSUME TypeOK, MixInv, Decode
  PROVE  MixInv'
<1>0. PICK d \in Nat :
        /\ d = read + 1 /\ read \in Nat /\ d \in 1..Len(stream) /\ read' = d
        /\ UNCHANGED <<stream, served, body, sent>>
        /\ DecodeLine(stream[d], d) /\ stream[d] \in Lines /\ DOMAIN stream = 1..Len(stream)
  BY DEF Decode, serverVars, TypeOK
<1>1. BodiesApart'
  BY <1>0 DEF MixInv, BodiesApart, BodyPlaces
<1>2. multiLineBuf # NoBuf =>
        /\ multiLineBuf \in Seq(Nat) /\ Len(multiLineBuf) \in Nat
        /\ DOMAIN multiLineBuf = 1..Len(multiLineBuf)
  BY DEF TypeOK, CodecTypeOK
<1>3. HeldSinceEnd' /\ (multiLineBuf' # NoBuf => OneOrigin(multiLineBuf'))
  <2>1. CASE multiLineBuf' = NoBuf
    BY <2>1 DEF HeldSinceEnd
  <2>2. CASE multiLineBuf # NoBuf /\ multiLineBuf' = multiLineBuf /\ stream[d].class # "end"
    <3>1. HeldSinceEnd'
      <4>. SUFFICES ASSUME NEW j \in DOMAIN multiLineBuf
                    PROVE  /\ multiLineBuf[j] \in BodyPlaces /\ multiLineBuf[j] <= d
                           /\ \A r \in multiLineBuf[j]..d : stream[r].class # "end"
        BY <1>0, <2>2 DEF MixInv, HeldSinceEnd, BodyPlaces
      <4>1. /\ multiLineBuf[j] \in BodyPlaces /\ multiLineBuf[j] <= read
            /\ \A r \in multiLineBuf[j]..read : stream[r].class # "end"
        BY <2>2 DEF MixInv, HeldSinceEnd
      <4>2. multiLineBuf[j] \in Nat
        BY <1>0, <4>1 DEF BodyPlaces
      <4>. QED BY <1>0, <2>2, <4>1, <4>2
    <3>2. OneOrigin(multiLineBuf')
      BY <2>2 DEF MixInv, NeverMixed, OneOrigin
    <3>. QED BY <3>1, <3>2
  <2>3. CASE stream[d].class \in {"text", "empty"} /\ multiLineBuf' = <<d>>
    <3>1. DOMAIN <<d>> = {1} /\ <<d>>[1] = d
      OBVIOUS
    <3>2. d \in BodyPlaces
      BY <1>0, <2>3 DEF BodyPlaces
    <3>3. \A r \in d..d : stream[r].class # "end"
      BY <2>3
    <3>4. HeldSinceEnd'
      BY <1>0, <2>3, <3>1, <3>2, <3>3 DEF HeldSinceEnd, BodyPlaces
    <3>5. OneOrigin(multiLineBuf')
      BY <2>3, <3>1 DEF OneOrigin
    <3>. QED BY <3>4, <3>5
  <2>4. CASE /\ stream[d].class \in {"text", "empty"} /\ multiLineBuf # NoBuf
             /\ multiLineBuf' = Append(multiLineBuf, d)
    <3>1. PICK n \in Nat :
            /\ n = Len(multiLineBuf) /\ DOMAIN multiLineBuf = 1..n /\ DOMAIN multiLineBuf' = 1..n + 1
            /\ \A j \in 1..n : multiLineBuf'[j] = multiLineBuf[j]
            /\ multiLineBuf'[n + 1] = d
      <4>1. /\ Append(multiLineBuf, d) \in Seq(Nat) /\ Len(Append(multiLineBuf, d)) = Len(multiLineBuf) + 1
            /\ \A j \in 1..Len(multiLineBuf) : Append(multiLineBuf, d)[j] = multiLineBuf[j]
            /\ Append(multiLineBuf, d)[Len(multiLineBuf) + 1] = d
        BY <1>2, <2>4, AppendFacts
      <4>2. DOMAIN Append(multiLineBuf, d) = 1..Len(multiLineBuf) + 1
        BY <1>2, <2>4, <4>1, AppendFacts
      <4>. QED BY <1>2, <2>4, <4>1, <4>2
    <3>2. \A j \in 1..n :
            /\ multiLineBuf[j] \in BodyPlaces /\ multiLineBuf[j] \in 1..read
            /\ \A r \in multiLineBuf[j]..d : stream[r].class # "end"
      <4>. SUFFICES ASSUME NEW j \in 1..n
                    PROVE  /\ multiLineBuf[j] \in BodyPlaces /\ multiLineBuf[j] \in 1..read
                           /\ \A r \in multiLineBuf[j]..d : stream[r].class # "end"
        OBVIOUS
      <4>1. /\ multiLineBuf[j] \in BodyPlaces /\ multiLineBuf[j] <= read
            /\ \A r \in multiLineBuf[j]..read : stream[r].class # "end"
        BY <2>4, <3>1 DEF MixInv, HeldSinceEnd
      <4>2. multiLineBuf[j] \in 1..read
        BY <1>0, <4>1 DEF BodyPlaces
      <4>. QED BY <1>0, <2>4, <4>1, <4>2
    <3>3. d \in BodyPlaces
      BY <1>0, <2>4 DEF BodyPlaces
    <3>4. \A r \in d..d : stream[r].class # "end"
      BY <2>4
    <3>5. HeldSinceEnd'
      <4>. SUFFICES ASSUME NEW j \in 1..n + 1
                    PROVE  /\ multiLineBuf'[j] \in BodyPlaces /\ multiLineBuf'[j] <= d
                           /\ \A r \in multiLineBuf'[j]..d : stream[r].class # "end"
        BY <1>0, <3>1 DEF HeldSinceEnd, BodyPlaces
      <4>1. CASE j \in 1..n
        BY <1>0, <3>1, <3>2, <4>1
      <4>2. CASE j = n + 1
        BY <3>1, <3>3, <3>4, <4>2
      <4>. QED BY <4>1, <4>2
    <3>6. \A j \in 1..n : stream[multiLineBuf[j]].cmd = stream[d].cmd
      <4>. SUFFICES ASSUME NEW j \in 1..n PROVE stream[multiLineBuf[j]].cmd = stream[d].cmd
        OBVIOUS
      <4>1. PICK p \in BodyPlaces : p = multiLineBuf[j] /\ p \in 1..d - 1 /\ \A r \in p..d : stream[r].class # "end"
        BY <1>0, <3>2
      <4>2. ~\E r \in p + 1..d - 1 : stream[r].class = "end"
        BY <4>1
      <4>3. stream[p].cmd = stream[d].cmd \/ \E r \in p + 1..d - 1 : stream[r].class = "end"
        BY <3>3, <4>1 DEF MixInv, BodiesApart
      <4>. QED BY <4>1, <4>2, <4>3
    <3>7. \A j \in 1..n + 1 : stream[multiLineBuf'[j]].cmd = stream[d].cmd
      <4>. SUFFICES ASSUME NEW j \in 1..n + 1 PROVE stream[multiLineBuf'[j]].cmd = stream[d].cmd
        OBVIOUS
      <4>. QED BY <3>1, <3>6
    <3>8. OneOrigin(multiLineBuf')
      BY <3>1, <3>7 DEF OneOrigin
    <3>. QED BY <3>5, <3>8
  <2>. QED BY <1>0, <2>1, <2>2, <2>3, <2>4, HeldOutcomes
<1>4. /\ replies \in Seq(Messages(ReplyTags)) /\ Len(replies) \in Nat
      /\ DOMAIN replies = 1..Len(replies)
  BY DEF TypeOK, CodecTypeOK
<1>5. ASSUME NEW m, replies' = Append(replies, m), \A j \in DOMAIN m.ids : m.ids[j] \in 1..d, OneOrigin(m.ids)
      PROVE  /\ \A k \in DOMAIN replies' : \A j \in DOMAIN replies'[k].ids : replies'[k].ids[j] \in 1..d
             /\ \A k \in DOMAIN replies' : OneOrigin(replies'[k].ids)
  <2>1. /\ DOMAIN replies' = 1..Len(replies) + 1 /\ replies'[Len(replies) + 1] = m
        /\ \A k \in 1..Len(replies) : replies'[k] = replies[k]
    BY <1>4, <1>5
  <2>. SUFFICES ASSUME NEW k \in 1..Len(replies) + 1
                PROVE  /\ \A j \in DOMAIN replies'[k].ids : replies'[k].ids[j] \in 1..d
                       /\ OneOrigin(replies'[k].ids)
    BY <2>1
  <2>2. CASE k \in 1..Len(replies)
    BY <1>0, <1>4, <2>1, <2>2 DEF MixInv, RepliesHeard, NeverMixed
  <2>3. CASE k = Len(replies) + 1
    BY <1>5, <2>1, <2>3
  <2>. QED BY <1>4, <2>2, <2>3
<1>6. /\ \A k \in DOMAIN replies' : \A j \in DOMAIN replies'[k].ids : replies'[k].ids[j] \in 1..d
      /\ \A k \in DOMAIN replies' : OneOrigin(replies'[k].ids)
  <2>1. CASE replies' = replies
    BY <1>0, <2>1 DEF MixInv, RepliesHeard, NeverMixed
  <2>2. ASSUME NEW t, replies' = Append(replies, Msg(t, <<d>>))
        PROVE  /\ \A k \in DOMAIN replies' : \A j \in DOMAIN replies'[k].ids : replies'[k].ids[j] \in 1..d
               /\ \A k \in DOMAIN replies' : OneOrigin(replies'[k].ids)
    <3>1. Msg(t, <<d>>).ids = <<d>> /\ DOMAIN <<d>> = {1} /\ <<d>>[1] = d
      BY DEF Msg
    <3>2. OneOrigin(<<d>>)
      BY <3>1 DEF OneOrigin
    <3>. QED BY <1>0, <1>5, <2>2, <3>1, <3>2
  <2>3. CASE multiLineBuf # NoBuf /\ replies' = Append(replies, Msg("MultiLine", multiLineBuf))
    <3>1. Msg("MultiLine", multiLineBuf).ids = multiLineBuf
      BY DEF Msg
    <3>2. OneOrigin(multiLineBuf) /\ \A j \in DOMAIN multiLineBuf : multiLineBuf[j] \in 1..d
      BY <1>0, <2>3 DEF MixInv, NeverMixed, HeldSinceEnd, BodyPlaces
    <3>. QED BY <1>5, <2>3, <3>1, <3>2
  <2>4. CASE replies' = Append(replies, Msg("MultiLine", <<>>))
    <3>1. Msg("MultiLine", <<>>).ids = <<>> /\ DOMAIN <<>> = {}
      BY DEF Msg
    <3>2. OneOrigin(<<>>)
      BY <3>1 DEF OneOrigin
    <3>. QED BY <1>5, <2>4, <3>1, <3>2
  <2>. QED BY <1>0, <2>1, <2>2, <2>3, <2>4, HeldOutcomes
<1>7. RepliesHeard' /\ NeverMixed'
  BY <1>0, <1>3, <1>6 DEF RepliesHeard, NeverMixed, OneOrigin
<1>. QED BY <1>1, <1>3, <1>7 DEF MixInv
-----------------------------------------------------------------------------
(***************************************************************************)
(* CountInv: the queue after errors.                                       *)
(***************************************************************************)
\* What decoding a line does to the queue.
LEMMA QueueOutcomes ==
  ASSUME NEW l \in Lines, NEW id, DecodeLine(l, id)
  PROVE  /\ ConsumeExpected \/ expectedQueue' = expectedQueue \/ expectedQueue' = <<>>
         /\ Terminal(l) =>
              \/ ConsumeExpected
              \/ l.class = "end" /\ expectedQueue' = expectedQueue /\ ExpectedFront # "MultiLine"
<1>1. ConsumeExpected \/ expectedQueue' = expectedQueue \/ expectedQueue' = <<>>
  BY DecodeOutcomes
<1>2. ASSUME Terminal(l)
      PROVE  \/ ConsumeExpected
             \/ l.class = "end" /\ expectedQueue' = expectedQueue /\ ExpectedFront # "MultiLine"
  <2>1. FrameOf(l) \in {"Success", "Error", "End"} /\ (FrameOf(l) = "End" <=> l.class = "end")
    BY <1>2, FrameFacts DEF Terminal
  <2>2. {"Success", "Error", "End"} \cap AsyncFrames = {}
    BY DEF AsyncFrames
  <2>3. DecodeSelfDescribing(l, id) \/ DecodeEnd(l, id)
    BY <2>1, <2>2 DEF DecodeLine, DecodeAsync, DecodeClientEnv, DecodeSkipped, DecodeMalformed,
       DecodeCollect, DecodeFirst, BodyLine, DecodeMore, DecodeFailed
  <2>. QED BY <2>1, <2>3, Zenon DEF DecodeSelfDescribing, DecodeEnd
<1>. QED BY <1>1, <1>2

LEMMA OrderQuiet ==
  ASSUME TypeOK, LastLinesInOrder, UNCHANGED <<stream, served, closed>>,
         \/ sent' = sent
         \/ \E c \in Commands : sent' = Append(sent, c)
  PROVE  LastLinesInOrder'
<1>1. served \in 0..Len(sent) /\ Len(sent) \in Nat /\ \A k \in 1..Len(sent) : sent'[k] = sent[k]
  BY AppendFacts DEF TypeOK
<1>. QED BY <1>1 DEF LastLinesInOrder, Terminal

LEMMA OrderSkips ==
  ASSUME TypeOK, AllAnswered, LastLinesInOrder, SendsNothing
  PROVE  LastLinesInOrder'
<1>1. served \in Nat /\ sent[served + 1] \in Commands /\ UNCHANGED <<stream, sent>> /\ served' = served + 1
  BY DEF SendsNothing, TypeOK
<1>2. closed'
  BY <1>1 DEF SendsNothing, AllAnswered, ExpectedResponse, AllCommands, MultiLineCommands,
     SilentCommands, LineCommands
<1>. QED BY <1>1, <1>2 DEF LastLinesInOrder, Terminal

LEMMA OrderEmits ==
  ASSUME TypeOK, AllAnswered, LastLinesInOrder, NEW l \in Lines, Emit(l), Emission(l)
  PROVE  LastLinesInOrder'
<1>0. PICK n \in Nat :
        /\ n = Len(stream) /\ Len(stream') = n + 1
        /\ DOMAIN stream = 1..n /\ DOMAIN stream' = 1..n + 1
        /\ \A p \in 1..n : stream'[p] = stream[p]
        /\ stream'[n + 1] = l /\ sent' = sent
  BY StreamFacts
<1>1. served \in 0..Len(sent) /\ Len(sent) \in Nat
  BY DEF TypeOK
<1>2. CASE SendsLast(l)
  <2>1. /\ l.cmd = served + 1 /\ served' = served + 1 /\ ~closed /\ Terminal(l)
        /\ l.class = "end" => ExpectedResponse(sent[served + 1]) = "MultiLine"
    BY <1>2 DEF SendsLast, Answering1
  <2>2. served > 0 => \E q \in 1..n : Terminal(stream[q]) /\ stream[q].cmd = served
    BY <1>0, <2>1 DEF LastLinesInOrder
  <2>3. \A p \in 1..n + 1 : Terminal(stream'[p]) =>
          /\ stream'[p].cmd \in 1..served + 1
          /\ stream'[p].class = "end" => ExpectedResponse(sent[stream'[p].cmd]) = "MultiLine"
          /\ stream'[p].cmd > 1 =>
               \E q \in 1..p - 1 : Terminal(stream'[q]) /\ stream'[q].cmd = stream'[p].cmd - 1
    <3>. SUFFICES ASSUME NEW p \in 1..n + 1, Terminal(stream'[p])
                  PROVE  /\ stream'[p].cmd \in 1..served + 1
                         /\ stream'[p].class = "end" => ExpectedResponse(sent[stream'[p].cmd]) = "MultiLine"
                         /\ stream'[p].cmd > 1 =>
                              \E q \in 1..p - 1 : Terminal(stream'[q]) /\ stream'[q].cmd = stream'[p].cmd - 1
      OBVIOUS
    <3>1. CASE p = n + 1
      BY <1>0, <1>1, <2>1, <2>2, <3>1
    <3>2. CASE p \in 1..n
      <4>1. /\ Terminal(stream[p]) /\ stream'[p] = stream[p] /\ stream[p].cmd \in 1..served
            /\ stream[p].class = "end" => ExpectedResponse(sent[stream[p].cmd]) = "MultiLine"
            /\ stream[p].cmd > 1 => \E q \in 1..p - 1 : Terminal(stream[q]) /\ stream[q].cmd = stream[p].cmd - 1
        BY <1>0, <3>2 DEF LastLinesInOrder
      <4>2. \A q \in 1..p - 1 : stream'[q] = stream[q]
        BY <1>0, <3>2
      <4>. QED BY <1>1, <4>1, <4>2
    <3>. QED BY <3>1, <3>2
  <2>4. Terminal(stream'[n + 1]) /\ stream'[n + 1].cmd = served'
    BY <1>0, <2>1
  <2>. QED BY <1>0, <2>1, <2>3, <2>4, SMTT(20) DEF LastLinesInOrder, Terminal
<1>3. CASE ~SendsLast(l)
  <2>1. ~SendsEntry(l)
    BY <1>1 DEF SendsEntry, Answering1, AllAnswered, TypeOK
  <2>2. served' = served /\ closed' = closed /\ ~Terminal(l)
    BY <1>3, <2>1, PipelineAssumption DEF Emission, SendsNote, SendsHeader, SendsInside, SendsClose,
       SendsBody, Answering1, InBlock, Terminal, AsyncClasses
  <2>3. \A p \in 1..n : Terminal(stream'[p]) <=> Terminal(stream[p])
    BY <1>0 DEF Terminal
  <2>4. ~Terminal(stream'[n + 1])
    BY <1>0, <2>2
  <2>5. \A p \in 1..n + 1 : Terminal(stream'[p]) =>
          /\ stream'[p].cmd \in 1..served
          /\ stream'[p].class = "end" => ExpectedResponse(sent[stream'[p].cmd]) = "MultiLine"
          /\ stream'[p].cmd > 1 =>
               \E q \in 1..p - 1 : Terminal(stream'[q]) /\ stream'[q].cmd = stream'[p].cmd - 1
    <3>. SUFFICES ASSUME NEW p \in 1..n, Terminal(stream[p])
                  PROVE  /\ stream[p].cmd \in 1..served
                         /\ stream[p].class = "end" => ExpectedResponse(sent[stream[p].cmd]) = "MultiLine"
                         /\ stream[p].cmd > 1 =>
                              \E q \in 1..p - 1 : Terminal(stream'[q]) /\ stream'[q].cmd = stream[p].cmd - 1
      BY <1>0, <2>3, <2>4
    <3>1. /\ stream[p].cmd \in 1..served
          /\ stream[p].class = "end" => ExpectedResponse(sent[stream[p].cmd]) = "MultiLine"
          /\ stream[p].cmd > 1 =>
               \E q \in 1..p - 1 : Terminal(stream[q]) /\ stream[q].cmd = stream[p].cmd - 1
      BY <1>0 DEF LastLinesInOrder
    <3>2. \A q \in 1..p - 1 : stream'[q] = stream[q]
      BY <1>0
    <3>. QED BY <3>1, <3>2
  <2>6. served > 0 => closed \/ \E p \in 1..n + 1 : Terminal(stream'[p]) /\ stream'[p].cmd = served
    BY <1>0, <2>3 DEF LastLinesInOrder
  <2>. QED BY <1>0, <2>2, <2>5, <2>6 DEF LastLinesInOrder, Terminal
<1>. QED BY <1>2, <1>3

\* A command is sent: its kind is the last of the queue.
LEMMA QueueSend ==
  ASSUME TypeOK, LastLinesInOrder, QueueOfLast, NEW c \in Commands, Send(c)
  PROVE  QueueOfLast'
<1>0. PICK n \in Nat, m \in Nat :
        /\ n = Len(expectedQueue) /\ m = Len(sent)
        /\ Len(expectedQueue') = n + 1 /\ Len(sent') = m + 1
        /\ \A i \in 1..n : expectedQueue'[i] = expectedQueue[i]
        /\ \A i \in 1..m : sent'[i] = sent[i]
        /\ expectedQueue'[n + 1] = ExpectedResponse(c) /\ sent'[m + 1] = c
  <2>1. expectedQueue \in Seq(ResponseKinds) /\ sent \in Seq(Commands)
    BY DEF TypeOK, CodecTypeOK
  <2>2. Len(expectedQueue) \in Nat /\ Len(sent) \in Nat
    BY <2>1
  <2>3. ExpectedResponse(c) \in ResponseKinds
    BY KindType, PipelineAssumption
  <2>4. /\ Len(Append(expectedQueue, ExpectedResponse(c))) = Len(expectedQueue) + 1
        /\ \A i \in 1..Len(expectedQueue) :
             Append(expectedQueue, ExpectedResponse(c))[i] = expectedQueue[i]
        /\ Append(expectedQueue, ExpectedResponse(c))[Len(expectedQueue) + 1] = ExpectedResponse(c)
    BY <2>1, <2>3, AppendFacts
  <2>5. /\ Len(Append(sent, c)) = Len(sent) + 1 /\ Append(sent, c)[Len(sent) + 1] = c
        /\ \A i \in 1..Len(sent) : Append(sent, c)[i] = sent[i]
    BY <2>1, AppendFacts
  <2>6. expectedQueue' = Append(expectedQueue, ExpectedResponse(c)) /\ sent' = Append(sent, c)
    BY DEF Send, Encode
  <2>. QED BY <2>2, <2>4, <2>5, <2>6
<1>1. UNCHANGED <<stream, read>> /\ read \in 0..Len(stream) /\ DOMAIN stream = 1..Len(stream)
  BY DEF Send, serverVars, TypeOK
<1>2. n <= m /\ \A i \in 1..n : expectedQueue[i] = ExpectedResponse(sent[m - n + i])
  BY <1>0 DEF QueueOfLast
<1>3. \A p \in 1..read : Terminal(stream[p]) => stream[p].cmd + (n + 1) <= m + 1
  <2>. SUFFICES ASSUME NEW p \in 1..read, Terminal(stream[p]) PROVE stream[p].cmd + (n + 1) <= m + 1
    OBVIOUS
  <2>1. stream[p].cmd \in Nat
    BY <1>1 DEF LastLinesInOrder
  <2>2. stream[p].cmd + n <= m
    BY <1>0 DEF QueueOfLast
  <2>. QED BY <2>1, <2>2
<1>4. \A i \in 1..n + 1 : expectedQueue'[i] = ExpectedResponse(sent'[(m + 1) - (n + 1) + i])
  <2>. SUFFICES ASSUME NEW i \in 1..n + 1
                PROVE  expectedQueue'[i] = ExpectedResponse(sent'[(m + 1) - (n + 1) + i])
    OBVIOUS
  <2>1. CASE i \in 1..n
    <3>1. (m + 1) - (n + 1) + i = m - n + i /\ m - n + i \in 1..m
      BY <1>2, <2>1
    <3>. QED BY <1>0, <1>2, <2>1, <3>1
  <2>2. CASE i = n + 1
    <3>1. (m + 1) - (n + 1) + i = m + 1
      BY <2>2
    <3>. QED BY <1>0, <2>2, <3>1
  <2>. QED BY <2>1, <2>2
<1>. QED BY <1>0, <1>1, <1>2, <1>3, <1>4 DEF QueueOfLast, Terminal

\* The line of an answer is decoded: the kind of its command is not left behind.
LEMMA QueueDecode ==
  ASSUME TypeOK, LastLinesInOrder, QueueOfLast, Decode
  PROVE  QueueOfLast'
<1>0. PICK d \in Nat \ {0}, n \in Nat, m \in Nat :
        /\ d = read + 1 /\ read \in Nat /\ d \in 1..Len(stream) /\ read' = d
        /\ n = Len(expectedQueue) /\ m = Len(sent)
        /\ UNCHANGED <<stream, sent>>
        /\ DecodeLine(stream[d], d) /\ stream[d] \in Lines /\ DOMAIN stream = 1..Len(stream)
        /\ expectedQueue \in Seq(ResponseKinds)
  BY DEF Decode, serverVars, TypeOK, CodecTypeOK
<1>1. n <= m /\ \A i \in 1..n : expectedQueue[i] = ExpectedResponse(sent[m - n + i])
  BY <1>0 DEF QueueOfLast
<1>2. PICK k \in Nat :
        /\ k = Len(expectedQueue') /\ k <= n
        /\ \A i \in 1..k : expectedQueue'[i] = ExpectedResponse(sent[m - k + i])
        /\ ConsumeExpected => k = IF n = 0 THEN 0 ELSE n - 1
        /\ expectedQueue' = expectedQueue => k = n
  <2>1. CASE expectedQueue' = expectedQueue /\ ~ConsumeExpected
    BY <1>0, <1>1, <2>1
  <2>2. CASE expectedQueue' = <<>>
    <3>1. expectedQueue = <<>> <=> n = 0
      BY <1>0
    <3>2. ConsumeExpected => n = 0 \/ n = 1
      <4>. SUFFICES ASSUME ConsumeExpected, n # 0 PROVE n = 1
        OBVIOUS
      <4>1. Tail(expectedQueue) = <<>> /\ expectedQueue # <<>>
        BY <2>2, <3>1, Zenon DEF ConsumeExpected
      <4>2. Len(Tail(expectedQueue)) = n - 1
        BY <1>0, <4>1, TailFacts
      <4>3. Len(Tail(expectedQueue)) = 0
        BY <4>1, EmptyFacts
      <4>4. n - 1 = 0
        BY <4>2, <4>3
      <4>. QED BY <4>4
    <3>3. Len(expectedQueue') = 0
      BY <2>2
    <3>4. expectedQueue' = expectedQueue => n = 0
      BY <1>0, <3>3
    <3>5. PICK k \in Nat : k = 0
      OBVIOUS
    <3>6. ConsumeExpected => k = IF n = 0 THEN 0 ELSE n - 1
      BY <3>2, <3>5
    <3>7. \A i \in 1..k : expectedQueue'[i] = ExpectedResponse(sent[m - k + i])
      BY <3>5
    <3>. QED BY <3>3, <3>4, <3>5, <3>6, <3>7
  <2>3. CASE ConsumeExpected /\ expectedQueue' # <<>>
    <3>1. expectedQueue # <<>> /\ expectedQueue' = Tail(expectedQueue)
      BY <2>3, Zenon DEF ConsumeExpected
    <3>2. /\ Len(expectedQueue') = n - 1 /\ n - 1 \in Nat
          /\ \A i \in 1..n - 1 : expectedQueue'[i] = expectedQueue[i + 1]
      <4>1. Len(expectedQueue) \in Nat \ {0} /\ Len(Tail(expectedQueue)) = Len(expectedQueue) - 1
            /\ \A i \in 1..Len(expectedQueue) - 1 : Tail(expectedQueue)[i] = expectedQueue[i + 1]
        BY <1>0, <3>1, TailFacts
      <4>. QED BY <1>0, <3>1, <4>1
    <3>3. \A i \in 1..n - 1 : expectedQueue'[i] = ExpectedResponse(sent[m - (n - 1) + i])
      <4>. SUFFICES ASSUME NEW i \in 1..n - 1
                    PROVE  expectedQueue'[i] = ExpectedResponse(sent[m - (n - 1) + i])
        OBVIOUS
      <4>1. i + 1 \in 1..n /\ m - n + (i + 1) = m - (n - 1) + i
        OBVIOUS
      <4>. QED BY <1>1, <3>2, <4>1
    <3>4. expectedQueue' # expectedQueue
      BY <1>0, <3>2
    <3>. QED BY <3>2, <3>3, <3>4
  <2>. QED BY <1>0, <2>1, <2>2, <2>3, QueueOutcomes
<1>3. \A p \in 1..d : Terminal(stream[p]) => stream[p].cmd + k <= m
  <2>. SUFFICES ASSUME NEW p \in 1..d, Terminal(stream[p]) PROVE stream[p].cmd + k <= m
    OBVIOUS
  <2>1. /\ stream[p].cmd \in 1..served /\ served \in 0..m
        /\ stream[p].class = "end" => ExpectedResponse(sent[stream[p].cmd]) = "MultiLine"
        /\ stream[p].cmd > 1 =>
             \E q \in 1..p - 1 : Terminal(stream[q]) /\ stream[q].cmd = stream[p].cmd - 1
    BY <1>0 DEF LastLinesInOrder, TypeOK
  <2>2. CASE p < d
    BY <1>0, <1>2, <2>1, <2>2 DEF QueueOfLast
  <2>3. CASE p = d
    <3>1. stream[d].cmd + n <= m + 1
      <4>1. CASE stream[d].cmd > 1
        <5>1. PICK q \in 1..d - 1 : Terminal(stream[q]) /\ stream[q].cmd = stream[d].cmd - 1
          BY <2>1, <2>3, <4>1
        <5>2. stream[q].cmd + n <= m
          BY <1>0, <5>1 DEF QueueOfLast
        <5>. QED BY <2>1, <2>3, <5>1, <5>2
      <4>2. CASE stream[d].cmd = 1
        BY <1>1, <4>2
      <4>. QED BY <2>1, <2>3, <4>1, <4>2
    <3>2. CASE ConsumeExpected
      BY <1>0, <1>2, <2>1, <2>3, <3>1, <3>2
    <3>3. CASE stream[d].class = "end" /\ expectedQueue' = expectedQueue /\ ExpectedFront # "MultiLine"
      <4>1. k = n
        BY <1>2, <3>3
      <4>2. CASE n = 0
        BY <2>1, <2>3, <4>1, <4>2
      <4>3. CASE n > 0
        <5>1. expectedQueue # <<>> /\ ExpectedFront = expectedQueue[1]
          BY <1>0, <4>3, TailFacts DEF ExpectedFront
        <5>2. expectedQueue[1] = ExpectedResponse(sent[m - n + 1])
          BY <1>1, <4>3
        <5>3. stream[d].cmd # m - n + 1
          BY <2>1, <2>3, <3>3, <5>1, <5>2
        <5>. QED BY <1>1, <2>1, <2>3, <3>1, <4>1, <5>3
      <4>. QED BY <4>2, <4>3
    <3>. QED BY <1>0, <2>3, <3>2, <3>3, QueueOutcomes
  <2>. QED BY <2>2, <2>3
<1>. QED BY <1>0, <1>1, <1>2, <1>3 DEF QueueOfLast, Terminal

LEMMA CountStep ==
  ASSUME TypeOK, CountInv, [Next]_vars
  PROVE  CountInv'
<1>. SUFFICES ASSUME AllAnswered PROVE LastLinesInOrder' /\ (rejected' = 0 => QueueOfLast')
  BY DEF CountInv, AllAnswered
<1>. LastLinesInOrder /\ (rejected = 0 => QueueOfLast)
  BY DEF CountInv
<1>1. ASSUME NEW c \in Commands, Send(c) PROVE LastLinesInOrder' /\ (rejected' = 0 => QueueOfLast')
  BY <1>1, OrderQuiet, QueueSend DEF Send, serverVars
<1>2. ASSUME NEW c \in Commands, SendRejected(c) PROVE LastLinesInOrder' /\ (rejected' = 0 => QueueOfLast')
  BY <1>2, OrderQuiet DEF SendRejected, serverVars, TypeOK
<1>3. CASE Decode
  BY <1>3, OrderQuiet, QueueDecode DEF Decode, serverVars
<1>4. ASSUME NEW l \in Lines, Emit(l), Emission(l) PROVE LastLinesInOrder' /\ (rejected' = 0 => QueueOfLast')
  <2>1. LastLinesInOrder'
    BY <1>4, OrderEmits
  <2>2. UNCHANGED <<expectedQueue, sent, rejected, read>> /\ read \in 0..Len(stream)
        /\ \A p \in 1..Len(stream) : stream'[p] = stream[p]
    BY <1>4, StreamFacts DEF Emit, codecVars, TypeOK
  <2>3. QueueOfLast => QueueOfLast'
    BY <2>2 DEF QueueOfLast, Terminal, TypeOK
  <2>. QED BY <2>1, <2>2, <2>3
<1>5. CASE SendsNothing
  <2>1. UNCHANGED <<expectedQueue, sent, rejected, read, stream>>
    BY <1>5 DEF SendsNothing, codecVars
  <2>. QED BY <1>5, <2>1, OrderSkips DEF QueueOfLast, Terminal
<1>6. CASE UNCHANGED vars
  BY <1>6, OrderQuiet DEF vars, codecVars, serverVars, QueueOfLast, Terminal
<1>. QED BY <1>1, <1>2, <1>3, <1>4, <1>5, <1>6, Steps
-----------------------------------------------------------------------------
(***************************************************************************)
(* The inductive invariant.                                                *)
(***************************************************************************)
LEMMA FaultInit == Init => FaultInv
<1>. SUFFICES ASSUME Init PROVE FaultInv
  OBVIOUS
<1>1. TypeOK
  BY TypeInit
<1>2. /\ DOMAIN stream = {} /\ DOMAIN events = {} /\ DOMAIN replies = {}
      /\ Len(stream) = 0 /\ Len(expectedQueue) = 0 /\ Len(sent) = 0
      /\ read = 0 /\ served = 0 /\ body = 0 /\ envLines = NoBlock
      /\ ~Accumulating /\ multiLineBuf = NoBuf
  BY DEF Init, CodecInit, FrameInit, Accumulating
<1>3. BlockInv
  BY <1>2 DEF BlockInv, BlocksFramed, OpenBlockKnown, EventsOrdered, EventHeads
<1>4. WholeInv
  BY <1>2 DEF WholeInv, OnlyOpenBlock, NothingInvented, Delivered, EntriesSoFar, BlocksShort, BlocksWhole
<1>5. MixInv
  BY <1>2 DEF MixInv, BodiesApart, BodyPlaces, HeldSinceEnd, RepliesHeard, NeverMixed
<1>6. CountInv
  BY <1>2 DEF CountInv, LastLinesInOrder, QueueOfLast
<1>. QED BY <1>1, <1>3, <1>4, <1>5, <1>6 DEF FaultInv

LEMMA FaultStep == FaultInv /\ [Next]_vars => FaultInv'
<1>. SUFFICES ASSUME FaultInv, [Next]_vars PROVE FaultInv'
  OBVIOUS
<1>. TypeOK /\ BlockInv /\ WholeInv /\ MixInv /\ CountInv
  BY DEF FaultInv
<1>1. TypeOK'
  BY TypeStep
<1>2. CountInv'
  BY CountStep
<1>3. ASSUME NEW c \in Commands, Send(c) PROVE BlockInv' /\ WholeInv' /\ MixInv'
  <2>1. /\ UNCHANGED <<stream, read, served, body, envLines, multiLineBuf, replies, events, clientNotification>>
        /\ sent' = Append(sent, c)
    BY <1>3 DEF Send, Encode, serverVars, frameVars, outVars
  <2>. QED BY <2>1, BlockQuiet, WholeQuiet, MixQuiet
<1>4. ASSUME NEW c \in Commands, SendRejected(c) PROVE BlockInv' /\ WholeInv' /\ MixInv'
  <2>1. UNCHANGED <<stream, read, served, body, envLines, multiLineBuf, replies, events, clientNotification, sent>>
    BY <1>4 DEF SendRejected, Encode, serverVars, frameVars, outVars
  <2>. QED BY <2>1, BlockQuiet, WholeQuiet, MixQuiet
<1>5. ASSUME Decode PROVE BlockInv' /\ WholeInv' /\ MixInv'
  <2>1. BlocksFramed'
    BY <1>5 DEF Decode, serverVars, BlockInv, BlocksFramed, Reaches, InBlock
  <2>2. BlockInv'
    BY <1>5, <2>1, OpenBlockDecode, EventsDecode DEF BlockInv
  <2>. QED BY <1>5, <2>2, WholeStep, MixDecode
<1>6. ASSUME NEW l \in Lines, Emit(l), Emission(l) PROVE BlockInv' /\ WholeInv' /\ MixInv'
  BY <1>6, BlockEmits, WholeEmits, MixEmits
<1>7. ASSUME SendsNothing PROVE BlockInv' /\ WholeInv' /\ MixInv'
  <2>1. UNCHANGED <<stream, read, envLines, events, clientNotification>>
    BY <1>7 DEF SendsNothing, codecVars, frameVars, outVars
  <2>. QED BY <1>7, <2>1, BlockQuiet, WholeQuiet, MixSkips
<1>8. ASSUME UNCHANGED vars PROVE BlockInv' /\ WholeInv' /\ MixInv'
  <2>1. UNCHANGED <<stream, read, served, body, envLines, multiLineBuf, replies, events, clientNotification, sent>>
    BY <1>8 DEF vars, codecVars, frameVars, outVars, serverVars
  <2>. QED BY <2>1, BlockQuiet, WholeQuiet, MixQuiet
<1>9. BlockInv' /\ WholeInv' /\ MixInv'
  BY <1>3, <1>4, <1>5, <1>6, <1>7, <1>8, Steps
<1>. QED BY <1>1, <1>2, <1>9 DEF FaultInv

(***************************************************************************)
(* What the pipeline keeps to whatever goes wrong: lines that are not      *)
(* UTF-8, limits that are met, commands that are rejected.                 *)
(***************************************************************************)
THEOREM FaultInvariant == Spec => []FaultInv
<1>1. Init => FaultInv
  BY FaultInit
<1>2. FaultInv /\ [Next]_vars => FaultInv'
  BY FaultStep
<1>. QED BY <1>1, <1>2, PTL DEF Spec

(***************************************************************************)
(* Every notification decoded is delivered, once and in stream order,      *)
(* whatever errors decode has returned before it and whatever block it     *)
(* comes after: at no point does the codec lose one.                       *)
(***************************************************************************)
THEOREM NoEventLost == Spec => []EventsComplete
<1>1. FaultInv => EventsComplete
  BY DEF FaultInv, BlockInv, EventsOrdered, EventsComplete
<1>. QED BY <1>1, FaultInvariant, PTL

(***************************************************************************)
(* No multi-line message, delivered or still held back, has the lines of   *)
(* two answers or of an answer and a notification, whatever errors have    *)
(* cleared the queue in the middle of an answer.                           *)
(***************************************************************************)
THEOREM AnswersNeverMixed == Spec => []NeverMixed
<1>1. FaultInv => NeverMixed
  BY DEF FaultInv, MixInv
<1>. QED BY <1>1, FaultInvariant, PTL

(***************************************************************************)
(* As long as no line of a notification is garbled, every notification     *)
(* delivered is one the server sent, and every >CLIENT: notification a     *)
(* block from its own header to its own END, also when the limit on ENV    *)
(* entries has failed some of its lines.                                   *)
(***************************************************************************)
THEOREM NoEventInvented == ASSUME CleanBlocks PROVE Spec => []NothingInvented
<1>1. FaultInv => NothingInvented
  BY DEF FaultInv, WholeInv
<1>. QED BY <1>1, FaultInvariant, PTL

(***************************************************************************)
(* And if the blocks the server sends are within the limit, each of them   *)
(* carries all of its entries and no others, the last one of each key.     *)
(***************************************************************************)
THEOREM BlocksAreWhole == ASSUME RoomyBlocks PROVE Spec => []BlocksWhole
<1>1. FaultInv => BlocksWhole
  BY DEF FaultInv, WholeInv
<1>. QED BY <1>1, FaultInvariant, PTL

(***************************************************************************)
(* When every command is one the server answers or closes the connection   *)
(* at, the queue is empty and no line is held back whenever the last answer*)
(* has been decoded: however many errors have cleared the queue early, no  *)
(* kind is left behind for the next command.                               *)
(***************************************************************************)
THEOREM StepRegained == ASSUME AllAnswered PROVE Spec => []BackInStep
<1>1. FaultInv => BackInStep
  <2>. SUFFICES ASSUME FaultInv, Idle, rejected = 0 PROVE expectedQueue = <<>> /\ multiLineBuf = NoBuf
    BY DEF BackInStep
  <2>0. TypeOK /\ MixInv /\ LastLinesInOrder /\ QueueOfLast
    BY DEF FaultInv, CountInv
  <2>1. /\ read = Len(stream) /\ served = Len(sent) /\ ~closed /\ Len(sent) \in Nat
        /\ Len(stream) \in Nat /\ DOMAIN stream = 1..Len(stream)
        /\ expectedQueue \in Seq(ResponseKinds) /\ Len(expectedQueue) \in Nat
        /\ multiLineBuf \in Seq(Nat) \cup {NoBuf}
    BY <2>0 DEF Idle, TypeOK, CodecTypeOK
  <2>2. Len(expectedQueue) = 0
    <3>1. CASE served = 0
      BY <2>0, <2>1, <3>1 DEF QueueOfLast
    <3>2. CASE served > 0
      <4>1. PICK p \in 1..read : Terminal(stream[p]) /\ stream[p].cmd = served
        BY <2>0, <2>1, <3>2 DEF LastLinesInOrder
      <4>2. stream[p].cmd + Len(expectedQueue) <= Len(sent)
        BY <2>0, <4>1 DEF QueueOfLast
      <4>. QED BY <2>1, <4>1, <4>2
    <3>. QED BY <2>1, <3>1, <3>2
  <2>3. expectedQueue = <<>>
    BY <2>1, <2>2
  <2>4. multiLineBuf = NoBuf
    <3>. SUFFICES ASSUME multiLineBuf # NoBuf PROVE FALSE
      OBVIOUS
    <3>1. 1 \in DOMAIN multiLineBuf
      BY <2>0, <2>1 DEF MixInv, HeldSinceEnd
    <3>2. PICK p \in BodyPlaces : p \in 1..read /\ \A r \in p..read : stream[r].class # "end"
      BY <2>0, <2>1, <3>1 DEF MixInv, HeldSinceEnd, BodyPlaces
    <3>3. ~\E r \in p + 1..Len(stream) : stream[r].class = "end"
      BY <2>1, <3>2
    <3>4. body > 0
      BY <2>0, <3>2, <3>3 DEF MixInv, BodiesApart
    <3>. QED BY <2>0, <2>1, <3>4 DEF MixInv, BodiesApart
  <2>. QED BY <2>3, <2>4
<1>. QED BY <1>1, FaultInvariant, PTL
=============================================================================
