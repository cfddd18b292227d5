------------------------------ MODULE OvpnCodec ------------------------------
(***************************************************************************)
(* openvpn-mgmt-codec/src/codec.rs: the codec that tells what each frame   *)
(* means from the kinds of response its encoder has queued.  Encoding a    *)
(* command pushes the kind of its response; decoding a line may pop it,    *)
(* collect the line for a multi-line response, or return a message.        *)
(*                                                                         *)
(* What decode has returned is kept in three history variables.  A message *)
(* names the lines it was made of by their identities.                     *)
(***************************************************************************)
EXTENDS FrameDecoder, Sequences

CONSTANTS
  MaxMultiLineLines,  \* max_multi_line_lines
  NoBuf               \* multi_line_buf = None

ASSUME CodecAssumption ==
  /\ NoBuf \notin Seq(Nat)
  /\ MaxMultiLineLines \in Nat \cup {Unlimited}

VARIABLES
  expectedQueue,  \* kinds of the responses that are still to come
  multiLineBuf,   \* lines of the response being collected, or NoBuf
  replies,        \* messages decoded that answer a command
  events,         \* messages decoded that the server sent unasked
  failures        \* number of errors decode has returned

codecVars == <<frameVars, expectedQueue, multiLineBuf>>
outVars   == <<replies, events, failures>>

ResponseKinds == {"SuccessOrError", "MultiLine", "NoResponse"}

(***************************************************************************)
(* OvpnCommand, up to what the codec does with it.  "Stream" stands for    *)
(* state, log and echo with on or off and "History" for the same with all, *)
(* on all or a number, "Hold" for its three settings.  Every variant       *)
(* without an arm of its own is answered by one line.                      *)
(***************************************************************************)
MultiLineCommands == {"Status", "Version", "Help", "Net", "RemoteEntryCount",
                      "RemoteEntryGet", "History", "State", "RawMultiLine"}
SilentCommands == {"Exit", "Quit", "SetVersionBelow4"}
LineCommands ==
  {"Stream", "Pid", "SetVersion4", "Verb", "Mute", "ByteCount", "Signal", "Kill", "HoldQuery", "Hold",
   "Username", "Password", "AuthRetry", "ForgetPasswords", "ChallengeResponse", "StaticChallengeResponse",
   "CrResponse", "NeedOk", "NeedStr", "Pkcs11IdCount", "Pkcs11IdGet", "RsaSig", "PkSig", "Certificate",
   "ClientAuth", "ClientAuthNt", "ClientDeny", "ClientKill", "ClientPendingAuth", "Remote", "Proxy",
   "LoadStats", "EnvFilter", "PushUpdateBroad", "PushUpdateCid", "ManagementPassword", "Raw"}

\* The commands with a string of the caller's, which wire_safe may reject.
TextCommands ==
  {"Kill", "Username", "Password", "ChallengeResponse", "CrResponse", "NeedOk", "NeedStr", "ClientDeny",
   "ClientKill", "ClientPendingAuth", "Remote", "Proxy", "PushUpdateBroad", "PushUpdateCid",
   "ManagementPassword", "Raw", "RawMultiLine"}

AllCommands == MultiLineCommands \cup SilentCommands \cup LineCommands

ExpectedResponse(c) ==
  CASE c \in MultiLineCommands -> "MultiLine"
    [] c \in SilentCommands -> "NoResponse"
    [] c \in LineCommands -> "SuccessOrError"

ReplyTags == {"Success", "Error", "MultiLine", "Unrecognized"}
AsyncFrames == {"Notification", "Info", "PasswordPrompt"}
EventTags == AsyncFrames \cup {"Pkcs11IdEntry"}
Messages(tags) == [tag : tags, ids : Seq(Nat), env : EnvMaps]

Msg(tag, ids) == [tag |-> tag, ids |-> ids, env |-> NoEnv]
-----------------------------------------------------------------------------
Reply(m) == replies' = Append(replies, m) /\ UNCHANGED <<events, failures>>
Event(m) == events' = Append(events, m) /\ UNCHANGED <<replies, failures>>
Fail     == failures' = failures + 1 /\ UNCHANGED <<replies, events>>
Silent   == UNCHANGED outVars

ExpectedFront ==
  IF expectedQueue = <<>> THEN "SuccessOrError" ELSE Head(expectedQueue)

ConsumeExpected ==
  expectedQueue' = IF expectedQueue = <<>> THEN <<>> ELSE Tail(expectedQueue)

\* Mutant of Encode: the kind goes to the front of the queue.
EncodeAtFront(c) ==
  /\ expectedQueue' = <<ExpectedResponse(c)>> \o expectedQueue
  /\ UNCHANGED <<frameVars, multiLineBuf, outVars>>

\* The encoder queues the response kind before it serialises the command,
\* so a command it then rejects (EncoderMode::Strict) leaves its kind behind.
Encode(c) ==
  /\ expectedQueue' = Append(expectedQueue, ExpectedResponse(c))
  /\ UNCHANGED <<frameVars, multiLineBuf, outVars>>
-----------------------------------------------------------------------------
(***************************************************************************)
(* OvpnCodec::decode, one action per arm, on the line l with identity id.  *)
(***************************************************************************)
\* Mutant of DecodeSelfDescribing: an ERROR: leaves the queue alone.
DecodeSelfDescribingUnpopped(l, id) ==
  /\ FrameOf(l) \in {"Success", "Error"}
  /\ IF FrameOf(l) = "Success" THEN ConsumeExpected ELSE UNCHANGED expectedQueue
  /\ Reply(Msg(FrameOf(l), <<id>>))
  /\ UNCHANGED multiLineBuf

\* SUCCESS: and ERROR: end the front response whatever its kind.
DecodeSelfDescribing(l, id) ==
  /\ FrameOf(l) \in {"Success", "Error"}
  /\ ConsumeExpected
  /\ Reply(Msg(FrameOf(l), <<id>>))
  /\ UNCHANGED multiLineBuf

\* parse_notification_from_frame: a >PKCS11ID-ENTRY: is a message of its own.
EventTag(l) == IF l.class = "entry" THEN "Pkcs11IdEntry" ELSE FrameOf(l)

\* Prompts, the banner and one-line notifications leave the response alone.
DecodeAsync(l, id) ==
  /\ FrameOf(l) \in AsyncFrames
  /\ Event(Msg(EventTag(l), <<id>>))
  /\ UNCHANGED <<expectedQueue, multiLineBuf>>

\* The end of a >CLIENT: block yields the whole block.
DecodeClientEnv(l, id) ==
  /\ FrameOf(l) = "ClientEnv"
  /\ Event([tag |-> "Notification", ids |-> <<clientNotification.header, id>>,
            env |-> clientNotification.env])
  /\ UNCHANGED <<expectedQueue, multiLineBuf>>

\* Mutant of DecodeEnd: the lines collected are copied, not taken.
DecodeEndKeepsLines(l, id) ==
  /\ FrameOf(l) = "End"
  /\ IF multiLineBuf # NoBuf \/ ExpectedFront = "MultiLine"
     THEN /\ ConsumeExpected
          /\ Reply(Msg("MultiLine",
                       IF multiLineBuf = NoBuf THEN <<>> ELSE multiLineBuf))
     ELSE Reply(Msg("Unrecognized", <<id>>)) /\ UNCHANGED expectedQueue
  /\ UNCHANGED multiLineBuf

\* Mutant of DecodeEnd: the lines are delivered but their kind stays queued.
DecodeEndUnpopped(l, id) ==
  /\ FrameOf(l) = "End"
  /\ multiLineBuf' = NoBuf
  /\ UNCHANGED expectedQueue
  /\ IF multiLineBuf # NoBuf
     THEN Reply(Msg("MultiLine", multiLineBuf)) ELSE Reply(Msg("MultiLine", <<>>))

\* Mutant of DecodeEnd: an answer without lines is not delivered.
DecodeEndSkipsEmpty(l, id) ==
  /\ FrameOf(l) = "End"
  /\ multiLineBuf' = NoBuf
  /\ ConsumeExpected
  /\ IF multiLineBuf # NoBuf THEN Reply(Msg("MultiLine", multiLineBuf)) ELSE Silent

\* END closes the lines collected, or an empty response, or nothing.
DecodeEnd(l, id) ==
  /\ FrameOf(l) = "End"
  /\ multiLineBuf' = NoBuf
  /\ IF multiLineBuf # NoBuf \/ ExpectedFront = "MultiLine"
     THEN /\ ConsumeExpected
          /\ Reply(Msg("MultiLine",
                       IF multiLineBuf = NoBuf THEN <<>> ELSE multiLineBuf))
     ELSE /\ Reply(Msg("Unrecognized", <<id>>))
          /\ UNCHANGED expectedQueue

\* Mutant of Skipped: every empty line is.
SkippedAlways(l) == l.class = "empty"

\* An empty line outside a multi-line response is skipped.
Skipped(l) ==
  l.class = "empty" /\ multiLineBuf = NoBuf /\ ExpectedFront # "MultiLine"

DecodeSkipped(l) ==
  /\ FrameOf(l) = "Line" /\ Skipped(l)
  /\ Silent
  /\ UNCHANGED <<expectedQueue, multiLineBuf>>

DecodeMalformed(l, id) ==
  /\ FrameOf(l) = "Line" /\ l.class = "malformed"
  /\ Reply(Msg("Unrecognized", <<id>>))
  /\ UNCHANGED <<expectedQueue, multiLineBuf>>

BodyLine(l) == FrameOf(l) = "Line" /\ ~Skipped(l) /\ l.class # "malformed"

\* A line of the response being collected, up to the limit.  The error for
\* one too many leaves both the lines and the queue as they are.
DecodeCollect(l, id) ==
  /\ BodyLine(l) /\ multiLineBuf # NoBuf
  /\ IF OverLimit(Len(multiLineBuf), MaxMultiLineLines)
     THEN Fail /\ UNCHANGED multiLineBuf
     ELSE Silent /\ multiLineBuf' = Append(multiLineBuf, id)
  /\ UNCHANGED expectedQueue

\* The first line of a response: collected, or an answer of its own.  The
\* limit is not consulted here.
DecodeFirst(l, id) ==
  /\ BodyLine(l) /\ multiLineBuf = NoBuf
  /\ IF ExpectedFront = "MultiLine"
     THEN multiLineBuf' = <<id>> /\ Silent /\ UNCHANGED expectedQueue
     ELSE /\ ConsumeExpected
          /\ Reply(Msg("Unrecognized", <<id>>))
          /\ UNCHANGED multiLineBuf

\* The line went into a >CLIENT: block.
DecodeMore(l) ==
  /\ FrameOf(l) = "More"
  /\ Silent
  /\ UNCHANGED <<expectedQueue, multiLineBuf>>

\* An error of the frame decoder resets what the codec has accumulated.
DecodeFailed(l) ==
  /\ FrameOf(l) = "Failed"
  /\ Fail
  /\ multiLineBuf' = NoBuf
  /\ expectedQueue' = <<>>

DecodeLine(l, id) ==
  /\ FrameStep(l, id)
  /\ \/ DecodeSelfDescribing(l, id)
     \/ DecodeAsync(l, id)
     \/ DecodeClientEnv(l, id)
     \/ DecodeEnd(l, id)
     \/ DecodeSkipped(l)
     \/ DecodeMalformed(l, id)
     \/ DecodeCollect(l, id)
     \/ DecodeFirst(l, id)
     \/ DecodeMore(l)
     \/ DecodeFailed(l)

CodecInit ==
  /\ FrameInit
  /\ expectedQueue = <<>> /\ multiLineBuf = NoBuf
  /\ replies = <<>> /\ events = <<>> /\ failures = 0

CodecTypeOK ==
  /\ FrameTypeOK
  /\ expectedQueue \in Seq(ResponseKinds)
  /\ multiLineBuf \in Seq(Nat) \cup {NoBuf}
  /\ replies \in Seq(Messages(ReplyTags))
  /\ events \in Seq(Messages(EventTags))
  /\ failures \in Nat
=============================================================================
