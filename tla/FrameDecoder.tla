---------------------------- MODULE FrameDecoder ----------------------------
(***************************************************************************)
(* openvpn-mgmt-frame/src/decoder.rs: the decoder that turns one line of   *)
(* the management byte stream into a frame.  It knows no command: a line's *)
(* frame depends on its text, on the >CLIENT: block being accumulated and  *)
(* on whether the >INFO: banner has gone by.                               *)
(*                                                                         *)
(* A line is abstracted to its class, the part of its text the decoder     *)
(* branches on, plus the key of an ENV line.  The rest of the text is the  *)
(* line's identity id, its position in the stream it came from.            *)
(***************************************************************************)
EXTENDS Naturals, FiniteSets

CONSTANTS
  EnvKeys,        \* keys that >CLIENT:ENV,key=value lines may carry
  NoKey,          \* the key field of every other line
  Unlimited,      \* AccumulationLimit::Unlimited
  MaxEnvEntries,  \* max_client_env_entries: Max(n) is n
  NoBlock         \* client_notification = None

VARIABLES
  clientNotification,  \* the >CLIENT: block being accumulated, or NoBlock
  seenInfo             \* whether the first >INFO: line has been seen

frameVars == <<clientNotification, seenInfo>>

(***************************************************************************)
(* The classes of lines.  "client" is a >CLIENT: header other than         *)
(* ADDRESS, "env" and "envEnd" are the lines of its block, "note" is any   *)
(* other notification with a colon, "entry" the one that answers           *)
(* pkcs11-id-get, "malformed" a '>' line without a colon, "text" a line no *)
(* rule matches and "garbage" a line that is not UTF-8.                    *)
(***************************************************************************)
ReplyClasses == {"success", "error", "end", "empty", "text"}
BlockClasses == {"client", "env", "envEnd"}
AsyncClasses == {"prompt", "info", "note", "entry", "address", "malformed", "garbage"}
Classes == ReplyClasses \cup BlockClasses \cup AsyncClasses

FrameTags == {"Success", "Error", "PasswordPrompt", "End", "Info",
              "Notification", "ClientEnv", "Line", "More", "Failed"}

\* A map of ENV entries: the line that gave each key its value, 0 for none.
EnvMaps == [EnvKeys -> Nat]
NoEnv == [k \in EnvKeys |-> 0]
Entries(env) == {k \in EnvKeys : env[k] # 0}

\* ClientEnvAccumulator: the header's identity and the map of the entries.
Blocks == [header : Nat, env : EnvMaps]

ASSUME FrameAssumption ==
  /\ NoKey \notin EnvKeys
  /\ NoBlock \notin Blocks \cup Nat
  /\ MaxEnvEntries \in Nat \cup {Unlimited}

Accumulating == clientNotification # NoBlock

\* Mutant of Insert: the first value of a key stays.
InsertFirst(env, k, id) == IF env[k] = 0 THEN [env EXCEPT ![k] = id] ELSE env

\* BTreeMap::insert: a key that is already there takes the new value.
Insert(env, k, id) == [env EXCEPT ![k] = id]
-----------------------------------------------------------------------------
\* check_accumulation_limit: n entries are already stored.
OverLimit(n, limit) == limit # Unlimited /\ n >= limit

\* Phases 2 to 4: the frame of a line that belongs to no block.
FixedFrame ==
  [success |-> "Success", error |-> "Error", prompt |-> "PasswordPrompt",
   end |-> "End", note |-> "Notification", entry |-> "Notification",
   address |-> "Notification",
   malformed |-> "Line", empty |-> "Line", text |-> "Line"]

\* An ENV line while a block is open: the entry is stored, or one too many.
EnvFrame ==
  IF OverLimit(Cardinality(Entries(clientNotification.env)), MaxEnvEntries)
  THEN "Failed" ELSE "More"

\* FrameDecoder::decode on the line l: the frame it returns, "More" when it
\* goes on to the next line and "Failed" when it returns an error.
FrameOf(l) ==
  CASE l.class = "garbage" -> "Failed"
    [] l.class = "info" -> IF seenInfo THEN "Notification" ELSE "Info"
    [] l.class = "envEnd" -> IF Accumulating THEN "ClientEnv" ELSE "More"
    [] l.class = "env" -> IF Accumulating THEN EnvFrame ELSE "More"
    [] l.class = "client" -> "More"
    [] OTHER -> FixedFrame[l.class]

\* Mutant of StartsBlock: an ENV line always starts a block.
StartsBlockOnEnv(l) == l.class \in {"client", "env"}

\* A header starts a block, and so does an ENV line that finds none open;
\* a header drops the block that is open.
StartsBlock(l) ==
  l.class = "client" \/ (~Accumulating /\ l.class \in BlockClasses)

\* Mutant of EndsBlock: an entry over the limit drops the block as well.
EndsBlockOnAnyError(l) ==
  l.class = "garbage" \/ (Accumulating /\ l.class = "envEnd") \/ FrameOf(l) = "Failed"

\* A non-UTF-8 line drops the open block; an entry over the limit keeps it.
EndsBlock(l) == l.class = "garbage" \/ (Accumulating /\ l.class = "envEnd")

\* A line of any other class leaves the block as it is and is decoded.
BlockAfter(l, id) ==
  CASE StartsBlock(l) -> [header |-> id, env |-> NoEnv]
    [] EndsBlock(l) -> NoBlock
    [] FrameOf(l) = "More" /\ ~StartsBlock(l) ->
         [clientNotification EXCEPT !.env = Insert(@, l.key, id)]
    [] OTHER -> clientNotification

FrameInit == clientNotification = NoBlock /\ seenInfo = FALSE

\* The decoder's own state after the line l, the id-th of its stream.
FrameStep(l, id) ==
  /\ clientNotification' = BlockAfter(l, id)
  /\ seenInfo' = (seenInfo \/ l.class = "info")

FrameTypeOK ==
  /\ clientNotification \in Blocks \cup {NoBlock}
  /\ seenInfo \in BOOLEAN
=============================================================================
