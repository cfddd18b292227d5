------------------------------- MODULE Session -------------------------------
(***************************************************************************)
(* openvpn-mgmt-codec/src/session.rs and split.rs: a client that sends a   *)
(* command and then waits for its answer, over the codec and the server of *)
(* Pipeline.  Sending and receiving are steps of their own, with the       *)
(* server and a dropped future between them.  Notifications met on the way *)
(* are stashed.                                                            *)
(*                                                                         *)
(* The caller has the methods of ManagementSession and, once it has taken  *)
(* the session apart, those of EventStream.  A command is named by its     *)
(* place in sent, a message by its place in replies or in events.          *)
(***************************************************************************)
EXTENDS Pipeline

CONSTANT MaxCancels  \* bound: futures dropped

(***************************************************************************)
(* The commands that ManagementSink and, but for exit, ManagementSession   *)
(* have methods for, by the sections of both; set_version, state_stream,   *)
(* log and echo send two each.                                             *)
(***************************************************************************)
InformationCommands    == {"Status", "State", "Version", "SetVersionBelow4", "SetVersion4", "Pid", "Help",
                           "Verb", "Mute", "Net"}
NotificationCommands   == {"Stream", "History", "ByteCount"}
ControlCommands        == {"Signal", "Kill", "HoldQuery", "Hold"}
AuthenticationCommands == {"Username", "Password", "AuthRetry", "ForgetPasswords", "ChallengeResponse",
                           "StaticChallengeResponse", "CrResponse"}
PromptCommands         == {"NeedOk", "NeedStr", "Pkcs11IdCount", "Pkcs11IdGet", "RsaSig", "PkSig", "Certificate"}
ClientCommands         == {"ClientAuth", "ClientAuthNt", "ClientDeny", "ClientKill", "ClientPendingAuth"}
ServerCommands         == {"Remote", "Proxy", "LoadStats", "EnvFilter", "RemoteEntryCount", "RemoteEntryGet",
                           "ManagementPassword"}
\* Those that only the session has.
SessionOnly            == {"PushUpdateBroad", "PushUpdateCid", "Raw"}

SessionCommands ==
  InformationCommands \cup NotificationCommands \cup ControlCommands \cup AuthenticationCommands
  \cup PromptCommands \cup ClientCommands \cup ServerCommands \cup SessionOnly \cup {"Exit"}

ASSUME SessionAssumption == Commands \subseteq SessionCommands /\ MaxCancels \in Nat

VARIABLES
  call,       \* the command whose method is waiting for an answer, 0 for none
  stash,      \* EventStream::stash
  handed,     \* the notifications the caller has been given
  results,    \* what the methods that waited have returned
  abandoned,  \* how many answers are owed to methods that wait no more
  cancels,    \* how many futures have been dropped
  errored     \* Framed: the error of decode is to be followed by None

callVars    == <<call, results, abandoned, cancels>>
sessionVars == <<callVars, stash, handed, errored>>

Outcomes == {"Ok", "ServerError", "UnexpectedResponse", "Io", "ConnectionClosed"}
-----------------------------------------------------------------------------
\* Mutant of Awaits: a method without a result does not wait for its SUCCESS:.
AwaitsResult(c) == ExpectedResponse(c) = "MultiLine"

\* Not the methods that return when the command has been sent.
Awaits(c) == c \notin {"SetVersionBelow4", "Exit"}

(***************************************************************************)
(* What each method waits for: send_expect_multi_line, or                  *)
(* send_expect_success and send_expect_ok.                                 *)
(***************************************************************************)
WaitFor(lines, line) == [c \in lines \cup line |-> IF c \in lines THEN "MultiLine" ELSE "Success"]

InformationMethods ==
  LET lines == {"Status", "State", "Version", "Help", "Net"} IN WaitFor(lines, InformationCommands \ lines)

\* Mutant of NotificationMethods: log, state and echo with a history wait for SUCCESS:.
NotificationMethodsOk == WaitFor({}, NotificationCommands)

\* send_stream_command waits for the history if the mode returns one.
NotificationMethods == WaitFor({"History"}, {"Stream", "ByteCount"})

ControlMethods == WaitFor({}, ControlCommands)

AuthenticationMethods == WaitFor({}, AuthenticationCommands)

PromptMethods == WaitFor({}, PromptCommands)

ClientMethods == WaitFor({}, ClientCommands)

ServerMethods ==
  LET lines == {"RemoteEntryCount", "RemoteEntryGet"} IN WaitFor(lines, (ServerCommands \cup SessionOnly) \ lines)

Methods ==
  [c \in SessionCommands \ {"Exit"} |->
     CASE c \in InformationCommands    -> InformationMethods[c]
       [] c \in NotificationCommands   -> NotificationMethods[c]
       [] c \in ControlCommands        -> ControlMethods[c]
       [] c \in AuthenticationCommands -> AuthenticationMethods[c]
       [] c \in PromptCommands         -> PromptMethods[c]
       [] c \in ClientCommands         -> ClientMethods[c]
       [] c \in ServerCommands \cup SessionOnly -> ServerMethods[c]]

WantedTag(c) == Methods[c]

\* recv_success and recv_multi_line on the response m.
Outcome(m) ==
  IF m.tag = "Error" THEN "ServerError"
  ELSE IF m.tag = WantedTag(sent[call]) THEN "Ok" ELSE "UnexpectedResponse"

\* exit() consumes the session.
Open == \A k \in DOMAIN sent : sent[k] # "Exit"

Call(c) ==
  /\ Open /\ call = 0
  /\ Send(c)
  /\ call' = IF Awaits(c) THEN Len(sent') ELSE 0
  /\ UNCHANGED <<results, abandoned, cancels, stash, handed, errored>>

\* The error of the encoder comes out of send_command.
CallRejected(c) ==
  /\ Open /\ call = 0
  /\ SendRejected(c)
  /\ UNCHANGED sessionVars
-----------------------------------------------------------------------------
(***************************************************************************)
(* recv_response polls the transport, one line a step, until it has a      *)
(* message that is no notification.                                        *)
(***************************************************************************)
Polling == call # 0 /\ ~errored /\ Decode

\* A message has come out, and its tag is one of tags.
NewReply == replies' # replies
NewEvent(tags) == events' # events /\ events'[Len(events')].tag \in tags

\* What has come out is the server's answer to some command.
Answered == NewReply \/ NewEvent({"Pkcs11IdEntry"})

Return(outcome, reply) ==
  /\ results' = Append(results, [call |-> call, outcome |-> outcome,
                                 reply |-> reply, lag |-> abandoned,
                                 clean |-> failures' = 0 /\ rejected = 0])
  /\ call' = 0
  /\ abandoned' = IF Answered THEN abandoned ELSE abandoned + 1
  /\ UNCHANGED <<cancels, handed>>

ReceiveNothing ==
  /\ Polling /\ outVars' = outVars
  /\ UNCHANGED sessionVars

ReceiveNotification ==
  /\ Polling /\ NewEvent({"Notification"})
  /\ stash' = Append(stash, Len(events'))
  /\ UNCHANGED <<callVars, handed, errored>>

ReceiveReply ==
  /\ Polling /\ NewReply
  /\ Return(Outcome(replies'[Len(replies')]), Len(replies'))
  /\ UNCHANGED <<stash, errored>>

\* The banner, a prompt and a >PKCS11ID-ENTRY: are responses too.
ReceiveOther ==
  /\ Polling /\ NewEvent(EventTags \ {"Notification"})
  /\ Return("UnexpectedResponse", 0)
  /\ UNCHANGED <<stash, errored>>

ReceiveFailure ==
  /\ Polling /\ failures' # failures
  /\ Return("Io", 0) /\ errored' = TRUE
  /\ UNCHANGED stash

\* Framed returns None at the end of the stream, and once after an error.
ReceiveNone ==
  /\ call # 0 /\ (errored \/ (closed /\ read = Len(stream)))
  /\ UNCHANGED <<codecVars, outVars, sent, rejected, read, serverVars, stash>>
  /\ Return("ConnectionClosed", 0) /\ errored' = FALSE

Receive ==
  ReceiveNothing \/ ReceiveNotification \/ ReceiveReply \/ ReceiveOther
  \/ ReceiveFailure \/ ReceiveNone

\* The future of the method is dropped while it waits.
Cancel ==
  /\ call # 0 /\ cancels < MaxCancels
  /\ cancels' = cancels + 1 /\ call' = 0 /\ abandoned' = abandoned + 1
  /\ UNCHANGED <<codecVars, outVars, sent, rejected, read, serverVars,
                 results, stash, handed, errored>>
-----------------------------------------------------------------------------
DrainNotifications ==
  /\ Open /\ call = 0 /\ stash # <<>>
  /\ handed' = handed \o stash /\ stash' = <<>>
  /\ UNCHANGED <<codecVars, outVars, sent, rejected, read, serverVars, callVars, errored>>

\* EventStream::poll_next: the stash comes first.
NextStashed ==
  /\ Open /\ call = 0 /\ stash # <<>>
  /\ handed' = Append(handed, Head(stash)) /\ stash' = Tail(stash)
  /\ UNCHANGED <<codecVars, outVars, sent, rejected, read, serverVars, callVars, errored>>

PolledNext ==
  /\ handed' = IF NewEvent({"Notification"}) THEN Append(handed, Len(events')) ELSE handed
  /\ abandoned' = IF Answered /\ abandoned > 0 THEN abandoned - 1 ELSE abandoned
  /\ errored' = (failures' # failures)
  /\ UNCHANGED <<stash, call, results, cancels>>

\* Mutant of NextPolled: the transport is polled before the stash.
NextPolledFirst ==
  /\ Open /\ call = 0 /\ ~errored /\ Decode
  /\ PolledNext

\* Then what the transport has: an answer nobody waits for any more, too.
NextPolled ==
  /\ Open /\ call = 0 /\ stash = <<>> /\ ~errored /\ Decode
  /\ PolledNext

NextNone ==
  /\ Open /\ call = 0 /\ stash = <<>> /\ errored
  /\ errored' = FALSE
  /\ UNCHANGED <<codecVars, outVars, sent, rejected, read, serverVars, callVars, stash, handed>>
-----------------------------------------------------------------------------
\* The server goes away between two lines.
HangUp ==
  /\ ~closed /\ closed' = TRUE
  /\ UNCHANGED <<codecVars, outVars, sent, rejected, read, stream, served, body,
                 envLines, sessionVars>>

SessionInit ==
  /\ Init
  /\ call = 0 /\ stash = <<>> /\ handed = <<>> /\ results = <<>>
  /\ abandoned = 0 /\ cancels = 0 /\ errored = FALSE

SessionNext ==
  \/ \E c \in Commands : Call(c) \/ CallRejected(c)
  \/ Receive
  \/ Cancel
  \/ DrainNotifications
  \/ NextStashed
  \/ NextPolled
  \/ NextNone
  \/ (Answer \/ Interrupt) /\ UNCHANGED sessionVars
  \/ HangUp

allVars == <<vars, sessionVars>>

SessionSpec == SessionInit /\ [][SessionNext]_allVars

(***************************************************************************)
(* Fairness.  A method that waits is polled while the transport has        *)
(* something for it, and the server answers.                               *)
(***************************************************************************)
FairSession ==
  /\ SessionSpec
  /\ WF_allVars(Receive)
  /\ WF_allVars(Answer /\ UNCHANGED sessionVars)
  /\ WF_allVars(CloseBlock /\ UNCHANGED sessionVars)

SessionTypeOK ==
  /\ TypeOK
  /\ call \in 0..Len(sent)
  /\ stash \in Seq(DOMAIN events) /\ handed \in Seq(DOMAIN events)
  /\ results \in Seq([call : Nat, outcome : Outcomes, reply : Nat, lag : Nat, clean : BOOLEAN])
  /\ abandoned \in Nat /\ cancels \in 0..MaxCancels /\ errored \in BOOLEAN
-----------------------------------------------------------------------------
(***************************************************************************)
(* A method returns the answer to its own command or, when earlier methods *)
(* have been given up before their answers came, that of the command as    *)
(* many places before.  ("send a command and return its parsed response",  *)
(* session.rs.)                                                            *)
(***************************************************************************)
OwnAnswer ==
  \A i \in DOMAIN results :
    LET r == results[i]
    IN r.reply # 0 /\ r.clean => Answers(replies[r.reply], r.call - r.lag)

(***************************************************************************)
(* A method that comes after none that was given up finds the reply it     *)
(* gets to be of the kind it waits for, or an error; and every method of   *)
(* the session waits for the kind that the codec queues for its command.   *)
(***************************************************************************)
Surprised(r) == r.outcome = "UnexpectedResponse" /\ r.clean /\ r.lag = 0
KindMatches ==
  /\ \A i \in DOMAIN results : results[i].reply # 0 => ~Surprised(results[i])
  /\ \A c \in DOMAIN Methods : Awaits(c) =>
       ExpectedResponse(c) = IF WantedTag(c) = "MultiLine" THEN "MultiLine" ELSE "SuccessOrError"

(***************************************************************************)
(* Nor is it surprised by something that is no reply.  ("typed methods     *)
(* that send a command and return its parsed response", session.rs.)       *)
(***************************************************************************)
NoSurprise == \A i \in DOMAIN results : ~Surprised(results[i])

(***************************************************************************)
(* Every notification reaches the caller or the stash, once and in wire    *)
(* order, across answers, errors and dropped futures.  ("Skipped           *)
(* notifications are stashed internally ... so nothing is lost", split.rs.)*)
(***************************************************************************)
NothingLost ==
  /\ Increasing(handed \o stash)
  /\ Elements(handed \o stash) = {i \in DOMAIN events : events[i].tag = "Notification"}

\* A method that waits returns, or is dropped.
CallReturns == \A k \in 1..MaxCommands : call = k ~> call # k
=============================================================================
