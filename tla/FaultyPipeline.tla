--------------------------- MODULE FaultyPipeline ---------------------------
(***************************************************************************)
(* The pipeline with everything that can go wrong: lines that are not      *)
(* UTF-8, limits that are met, commands that are rejected, answers that    *)
(* never come.  This module states what holds all the same, as the         *)
(* inductive invariant from which the safety properties of Pipeline follow.*)
(***************************************************************************)
EXTENDS Pipeline

(***************************************************************************)
(* Blocks.                                                                 *)
(***************************************************************************)
\* A line inside a block, intact or garbled.
InBlock(l) == l.cmd = 0 /\ l.class \in {"env", "garbage"}

\* The block with its header at q goes on to just before p.
Reaches(q, p) ==
  q < p /\ stream[q].class = "client" /\ \A r \in q + 1..p - 1 : InBlock(stream[r])

\* The server sends the lines of a block between its header and its end, and
\* nothing else there.
BlocksFramed ==
  /\ \A p \in DOMAIN stream : stream[p].class \in {"env", "envEnd"} =>
       \E q \in DOMAIN stream : Reaches(q, p)
  /\ \A q \in DOMAIN stream : stream[q].class = "client" =>
       \/ \E p \in DOMAIN stream : Reaches(q, p) /\ stream[p].class = "envEnd"
       \/ envLines # NoBlock /\ Reaches(q, Len(stream) + 1)
  /\ envLines # NoBlock =>
       \E q \in DOMAIN stream : Reaches(q, Len(stream) + 1) /\ Len(stream) - q = envLines

\* No line from a to b is garbled.
Intact(a, b) == \A r \in a..b : stream[r].class # "garbage"

\* What the decoder knows of the block it is in the middle of: its header, unless
\* a garbled line has come after the header.
OpenBlockKnown ==
  /\ Accumulating => clientNotification.header \in 1..read
  /\ \A q \in 1..read : Reaches(q, read + 1) =>
       /\ \A i \in DOMAIN events : events[i].ids[1] < q
       /\ Accumulating => q <= clientNotification.header
       /\ Intact(q, read) => Accumulating /\ clientNotification.header = q

EventsOrdered ==
  /\ \A i \in DOMAIN events :
       events[i].ids # <<>> /\ \A j \in DOMAIN events[i].ids : events[i].ids[j] \in 1..read
  /\ \A i, j \in DOMAIN events : i < j => events[i].ids[1] < events[j].ids[1]

BlockInv == BlocksFramed /\ OpenBlockKnown /\ EventsOrdered /\ EventHeads \subseteq Delivered

(***************************************************************************)
(* Blocks when no line of them is garbled.                                 *)
(***************************************************************************)
CleanBlocks == "garbage" \notin EventClasses

\* And the limit on entries is never met.
RoomyBlocks == CleanBlocks /\ (MaxEnvEntries = Unlimited \/ MaxEnvLines <= MaxEnvEntries)

\* Garbled lines are of answers only, and the decoder has no block but the one
\* the server is in the middle of.
OnlyOpenBlock ==
  /\ \A p \in DOMAIN stream : stream[p].class = "garbage" => stream[p].cmd # 0
  /\ Accumulating => Reaches(clientNotification.header, read + 1)

\* The entries stored are those of the lines so far.
EntriesSoFar ==
  Accumulating =>
    LET h == clientNotification.header IN
    /\ clientNotification.env = BlockEntries(h, read)
    /\ IsFiniteSet(Entries(clientNotification.env))
    /\ Cardinality(Entries(clientNotification.env)) <= read - h

BlocksShort ==
  \A p \in DOMAIN stream, q \in DOMAIN stream :
    Reaches(q, p) /\ stream[p].class = "env" => p - q <= MaxEnvLines

WholeInv ==
  /\ CleanBlocks => OnlyOpenBlock /\ NothingInvented
  /\ RoomyBlocks => EntriesSoFar /\ BlocksShort /\ BlocksWhole

(***************************************************************************)
(* Multi-line answers.                                                     *)
(***************************************************************************)
BodyPlaces == {p \in DOMAIN stream : stream[p].class \in {"text", "empty"}}

\* There is an END between the lines of two answers, and after the lines of
\* every answer but the one the server is in the middle of.
BodiesApart ==
  /\ \A p, q \in BodyPlaces : p < q =>
       \/ stream[p].cmd = stream[q].cmd
       \/ \E r \in p + 1..q - 1 : stream[r].class = "end"
  /\ \A p \in BodyPlaces :
       \/ stream[p].cmd = served + 1 /\ body > 0
       \/ \E r \in p + 1..Len(stream) : stream[r].class = "end"
  /\ body > 0 => served < Len(sent) /\ ExpectedResponse(sent[served + 1]) = "MultiLine"

\* The lines held back have come since the last END.
HeldSinceEnd ==
  multiLineBuf # NoBuf =>
    /\ multiLineBuf # <<>>
    /\ \A j \in DOMAIN multiLineBuf :
         /\ multiLineBuf[j] \in BodyPlaces /\ multiLineBuf[j] <= read
         /\ \A r \in multiLineBuf[j]..read : stream[r].class # "end"

RepliesHeard == \A k \in DOMAIN replies : \A j \in DOMAIN replies[k].ids : replies[k].ids[j] \in 1..read

MixInv == BodiesApart /\ HeldSinceEnd /\ RepliesHeard /\ NeverMixed

(***************************************************************************)
(* Counting.  Every command has an answer with a last line, or closes the  *)
(* connection.                                                             *)
(***************************************************************************)
AllAnswered == {"SetVersionBelow4", "Pkcs11IdGet"} \cap Commands = {}

\* The answers have their last lines in the order of the commands.
LastLinesInOrder ==
  /\ \A p \in DOMAIN stream : Terminal(stream[p]) =>
       /\ stream[p].cmd \in 1..served
       /\ stream[p].class = "end" => ExpectedResponse(sent[stream[p].cmd]) = "MultiLine"
       /\ stream[p].cmd > 1 =>
            \E q \in 1..p - 1 : Terminal(stream[q]) /\ stream[q].cmd = stream[p].cmd - 1
  /\ served > 0 => closed \/ \E p \in DOMAIN stream : Terminal(stream[p]) /\ stream[p].cmd = served

\* The queue is of the last commands sent, and of none whose answer has been
\* decoded, however many kinds an error or an odd line has taken from it.
QueueOfLast ==
  LET n == Len(expectedQueue) IN
  /\ n <= Len(sent)
  /\ \A i \in 1..n : expectedQueue[i] = ExpectedResponse(sent[Len(sent) - n + i])
  /\ \A p \in 1..read : Terminal(stream[p]) => stream[p].cmd + n <= Len(sent)

CountInv == AllAnswered => LastLinesInOrder /\ (rejected = 0 => QueueOfLast)

\* The inductive invariant.
FaultInv == TypeOK /\ BlockInv /\ WholeInv /\ MixInv /\ CountInv
=============================================================================
