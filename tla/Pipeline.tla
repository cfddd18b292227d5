------------------------------ MODULE Pipeline ------------------------------
(***************************************************************************)
(* A client that pipelines commands through the codec, the OpenVPN server  *)
(* that answers them one at a time, and the byte stream between the two.   *)
(*                                                                         *)
(* The server is not in this repository: its answers are those the codec   *)
(* and the tests expect of it.  The stream is kept whole, with the number  *)
(* of lines decoded so far; a line's position is its identity.             *)
(***************************************************************************)
EXTENDS OvpnCodec

CONSTANTS
  Commands,     \* the commands the client sends
  EventClasses, \* the classes of the one-line notifications the server sends
  BodyClasses,  \* the classes of the lines of a multi-line answer
  MaxRejects,   \* bound: commands EncoderMode::Strict rejects
  MaxCommands,  \* bound: commands sent
  MaxBody,      \* bound: lines of one answer before its end
  MaxEvents,    \* bound: notifications and blocks sent
  MaxEnvLines   \* bound: ENV lines of a block

ASSUME PipelineAssumption ==
  /\ Commands \subseteq AllCommands
  /\ EventClasses \subseteq AsyncClasses
  /\ BodyClasses \subseteq {"text", "empty", "garbage"}
  /\ {MaxRejects, MaxCommands, MaxBody, MaxEvents, MaxEnvLines} \subseteq Nat

VARIABLES
  sent,      \* the commands sent, in order
  rejected,  \* how many commands the encoder has rejected
  stream,    \* every line the server has sent
  read,      \* how many of them the codec has decoded
  served,    \* how many commands the server has answered
  body,      \* lines of the answer it is in the middle of
  envLines,  \* lines of the >CLIENT: block it is in the middle of, or NoBlock
  closed     \* whether the server has closed the connection

serverVars == <<stream, served, body, envLines, closed>>
vars == <<codecVars, outVars, sent, rejected, read, serverVars>>

Lines == [class : Classes, cmd : Nat, n : Nat, key : EnvKeys \cup {NoKey}]

\* The n-th line of the answer to the cmd-th command; cmd 0 is no answer.
Line(c, cmd, n) == [class |-> c, cmd |-> cmd, n |-> n, key |-> NoKey]
EventLine(c, k) == [class |-> c, cmd |-> 0, n |-> 0, key |-> k]

-----------------------------------------------------------------------------
\* The client.
Send(c) ==
  /\ Len(sent) < MaxCommands
  /\ Encode(c)
  /\ sent' = Append(sent, c)
  /\ UNCHANGED <<rejected, read, serverVars>>

\* EncoderMode::Strict rejects the command, one that is written as a single
\* line: encode returns an error before any of it is written.
SendRejected(c) ==
  /\ rejected < MaxRejects /\ c \in TextCommands
  /\ Encode(c)
  /\ rejected' = rejected + 1
  /\ UNCHANGED <<sent, read, serverVars>>

Decode ==
  /\ read < Len(stream)
  /\ DecodeLine(stream[read + 1], read + 1)
  /\ read' = read + 1
  /\ UNCHANGED <<sent, rejected, serverVars>>
-----------------------------------------------------------------------------
(***************************************************************************)
(* The server.  It answers a command only when every earlier one has been  *)
(* answered, and never interrupts a >CLIENT: block.                        *)
(***************************************************************************)
Between == envLines = NoBlock /\ ~closed
Serving(kind) ==
  /\ Between /\ served < Len(sent)
  /\ ExpectedResponse(sent[served + 1]) = kind
Emit(l) == stream' = Append(stream, l) /\ UNCHANGED <<codecVars, outVars, sent, rejected, read>>

\* pkcs11-id-get is answered by a notification and by nothing else.
ByNotification == {"Pkcs11IdGet"}

\* SUCCESS: or ERROR: is the whole answer; a multi-line answer may be refused.
AnswerLine(c) ==
  /\ \/ /\ c = "success" /\ Serving("SuccessOrError")
        /\ sent[served + 1] \notin ByNotification
     \/ c = "error" /\ (Serving("SuccessOrError") \/ (Serving("MultiLine") /\ body = 0))
  /\ Emit(Line(c, served + 1, 1))
  /\ served' = served + 1
  /\ UNCHANGED <<body, envLines, closed>>

AnswerBody(c) ==
  /\ Serving("MultiLine") /\ body < MaxBody
  /\ Emit(Line(c, served + 1, body + 1))
  /\ body' = body + 1
  /\ UNCHANGED <<served, envLines, closed>>

AnswerEnd ==
  /\ Serving("MultiLine")
  /\ Emit(Line("end", served + 1, body + 1))
  /\ served' = served + 1 /\ body' = 0
  /\ UNCHANGED <<envLines, closed>>

\* exit and quit close the connection, version below 4 is taken in silence.
AnswerNothing ==
  /\ Serving("NoResponse")
  /\ served' = served + 1
  /\ closed' = (sent[served + 1] \in {"Exit", "Quit"})
  /\ UNCHANGED <<codecVars, outVars, sent, rejected, read, stream, body, envLines>>

AnswerNotification ==
  /\ Serving("SuccessOrError") /\ sent[served + 1] \in ByNotification
  /\ Emit(Line("entry", served + 1, 1))
  /\ served' = served + 1
  /\ UNCHANGED <<body, envLines, closed>>

EventCount == Cardinality({p \in DOMAIN stream :
                 stream[p].cmd = 0 /\ stream[p].class \notin {"env", "envEnd"}})

Notify(c) ==
  /\ Between /\ EventCount < MaxEvents
  /\ Emit(EventLine(c, NoKey))
  /\ UNCHANGED <<served, body, envLines, closed>>

OpenBlock ==
  /\ Between /\ EventCount < MaxEvents /\ EnvKeys # {}
  /\ Emit(EventLine("client", NoKey))
  /\ envLines' = 0
  /\ UNCHANGED <<served, body, closed>>

EnvLine(k) ==
  /\ envLines # NoBlock /\ envLines < MaxEnvLines
  /\ Emit(EventLine("env", k))
  /\ envLines' = envLines + 1
  /\ UNCHANGED <<served, body, closed>>

\* An ENV line that is not UTF-8.
GarbledEnvLine ==
  /\ envLines # NoBlock /\ envLines < MaxEnvLines /\ "garbage" \in EventClasses
  /\ Emit(EventLine("garbage", NoKey))
  /\ envLines' = envLines + 1
  /\ UNCHANGED <<served, body, closed>>

CloseBlock ==
  /\ envLines # NoBlock
  /\ Emit(EventLine("envEnd", NoKey))
  /\ envLines' = NoBlock
  /\ UNCHANGED <<served, body, closed>>
-----------------------------------------------------------------------------
Init ==
  /\ CodecInit
  /\ sent = <<>> /\ rejected = 0 /\ stream = <<>> /\ read = 0
  /\ served = 0 /\ body = 0 /\ envLines = NoBlock /\ closed = FALSE

Answer ==
  \/ \E c \in {"success", "error"} : AnswerLine(c)
  \/ \E c \in BodyClasses : AnswerBody(c)
  \/ AnswerEnd
  \/ AnswerNothing
  \/ AnswerNotification

Interrupt ==
  \/ \E c \in EventClasses : Notify(c)
  \/ OpenBlock
  \/ \E k \in EnvKeys : EnvLine(k)
  \/ GarbledEnvLine
  \/ CloseBlock

Next ==
  \/ \E c \in Commands : Send(c) \/ SendRejected(c)
  \/ Decode
  \/ Answer
  \/ Interrupt

Spec == Init /\ [][Next]_vars

(***************************************************************************)
(* Fairness.  The transport is polled until it has nothing left to decode, *)
(* and the server goes on with an answer or a block that it has begun.     *)
(***************************************************************************)
FairSpec == Spec /\ WF_vars(Decode) /\ WF_vars(Answer) /\ WF_vars(CloseBlock)

TypeOK ==
  /\ CodecTypeOK
  /\ sent \in Seq(Commands)
  /\ rejected \in 0..MaxRejects
  /\ stream \in Seq(Lines)
  /\ read \in 0..Len(stream)
  /\ served \in 0..Len(sent)
  /\ body \in 0..MaxBody
  /\ envLines \in 0..MaxEnvLines \cup {NoBlock}
  /\ closed \in BOOLEAN
-----------------------------------------------------------------------------
\* The lines of the server's answer to the k-th command, without its END.
AnswerLines(k) ==
  {p \in DOMAIN stream : stream[p].cmd = k /\ stream[p].class # "end"}

\* The last line of an answer.
Terminal(l) == l.class \in {"success", "error", "end"}

Elements(s) == {s[i] : i \in DOMAIN s}
Increasing(s) == \A i, j \in DOMAIN s : i < j => s[i] < s[j]

(***************************************************************************)
(* The k-th reply answers the k-th command, whatever was pipelined and     *)
(* whatever notifications came between: it has the shape of the server's   *)
(* answer and all of its lines, in order.  ("FIFO queue of expected        *)
(* response kinds", codec.rs.)                                             *)
(***************************************************************************)
ClosingClass == [Success |-> "success", Error |-> "error", MultiLine |-> "end"]

Answers(m, k) ==
  /\ k \in 1..served
  /\ Increasing(m.ids) /\ Elements(m.ids) = AnswerLines(k)
  /\ m.tag \in DOMAIN ClosingClass
  /\ \E p \in DOMAIN stream : stream[p].cmd = k /\ stream[p].class = ClosingClass[m.tag]

RepliesMatch == \A k \in DOMAIN replies : Answers(replies[k], k)

(***************************************************************************)
(* When no command is waiting for its answer the queue is empty and no     *)
(* line is held back: after errors too, the codec is in step again once    *)
(* the answers outstanding have gone by.  ("one per encoded command that   *)
(* has not yet been fully decoded", codec.rs.)                             *)
(***************************************************************************)
Idle == read = Len(stream) /\ served = Len(sent) /\ ~closed
BackInStep ==
  Idle /\ rejected = 0 => expectedQueue = <<>> /\ multiLineBuf = NoBuf

(***************************************************************************)
(* A multi-line message is never put together from the answers to two      *)
(* commands, nor from an answer and a notification, even after an error    *)
(* has cleared the queue in the middle of an answer.                       *)
(***************************************************************************)
OneOrigin(ids) ==
  \A i, j \in DOMAIN ids : stream[ids[i]].cmd = stream[ids[j]].cmd

NeverMixed ==
  /\ \A k \in DOMAIN replies : OneOrigin(replies[k].ids)
  /\ multiLineBuf # NoBuf => OneOrigin(multiLineBuf)

\* The notifications among the lines decoded; a block counts once it has been
\* closed, and only if all of its lines are UTF-8.
EventHeads ==
  {p \in 1..read :
     \/ stream[p].class \in AsyncClasses \ {"garbage", "malformed"}
     \/ /\ stream[p].class = "client"
        /\ \E q \in p..read :
             /\ stream[q].class = "envEnd"
             /\ \A r \in p..q : stream[r].class # "garbage"}

Delivered == {events[i].ids[1] : i \in DOMAIN events}

(***************************************************************************)
(* Every notification decoded is delivered once and in stream order, also  *)
(* those in the middle of a multi-line answer ("emits these immediately    *)
(* without disrupting the ongoing accumulation", codec.rs), and also after *)
(* errors, those of the limit on ENV entries included.                     *)
(***************************************************************************)
EventsComplete ==
  /\ \A i, j \in DOMAIN events : i < j => events[i].ids[1] < events[j].ids[1]
  /\ EventHeads \subseteq Delivered

(***************************************************************************)
(* Every notification delivered is one that the server sent: a >CLIENT:    *)
(* notification begins with a header and ends with the END of its block.   *)
(***************************************************************************)
NothingInvented == Delivered \subseteq EventHeads

\* The entries of the block between the lines a and b: the last line of each key.
BlockEntries(a, b) ==
  LET Of(k) == {p \in a..b : stream[p].class = "env" /\ stream[p].key = k}
  IN [k \in EnvKeys |->
        IF Of(k) = {} THEN 0 ELSE CHOOSE p \in Of(k) : \A q \in Of(k) : q <= p]

(***************************************************************************)
(* A >CLIENT: notification carries the entries of its own block, all of    *)
(* them, and for a repeated key the last ("guarantees atomicity for that   *)
(* block", decoder.rs).                                                    *)
(***************************************************************************)
BlocksWhole ==
  \A i \in DOMAIN events : Len(events[i].ids) = 2 =>
    events[i].env = BlockEntries(events[i].ids[1], events[i].ids[2])

\* Every command but exit and quit is eventually answered to the client.
EveryCommandAnswered ==
  \A k \in 1..MaxCommands :
    (Len(sent) >= k /\ ~closed) ~> (Len(replies) >= k \/ closed)
=============================================================================
