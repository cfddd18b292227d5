----------------------------- MODULE Connection -----------------------------
(***************************************************************************)
(* openvpn-mgmt-ui/src/actor.rs and the part of main.rs that drives it:    *)
(* the App, the ConnectionActor, the two bounded channels between them and *)
(* the management connections the actor opens one after the other.         *)
(*                                                                         *)
(* The codec is the command channel of CommandChannel: a command sent is   *)
(* answered by one message, answers come in the order of the commands.     *)
(* When an answer comes is open, so no stream is kept: the actor receives  *)
(* the answer to the oldest command it has not been answered.              *)
(***************************************************************************)
EXTENDS Naturals, Sequences, SequencesExt

CONSTANTS
  CommandCapacity,  \* 32 in the code
  EventCapacity,    \* 128 in the code
  HistoryLimit,     \* MAX_COMMAND_HISTORY
  RefreshCommands,  \* how many commands a refresh sends, 6 in the code
  Options,          \* the startup options the user has set
  Commands,         \* the commands the user types or clicks
  Interludes,       \* the messages that answer no command
  MaxPresses,       \* bound: what the user does to the connection
  MaxTyped,         \* bound: command lines the user enters
  MaxInputs,        \* bound: the two together
  MaxInterludes,    \* bound: messages that answer no command
  MaxFaults         \* bound: errors of the transport and of connecting

AllInterludes == {"Notification", "Info", "PasswordPrompt", "Unrecognized"}
AllOptions == [password : BOOLEAN, bytecount : BOOLEAN, holdRelease : BOOLEAN, log : BOOLEAN,
               state : BOOLEAN, echo : BOOLEAN, queryVersion : BOOLEAN]

ASSUME ConnectionAssumption ==
  /\ CommandCapacity \in Nat \ {0} /\ EventCapacity \in Nat \ {0}
  /\ HistoryLimit \in Nat \ {0} /\ RefreshCommands \in Nat
  /\ Options \subseteq AllOptions
  /\ Commands \subseteq {"Query", "Exit"}
  /\ Interludes \subseteq AllInterludes
  /\ {MaxPresses, MaxTyped, MaxInputs, MaxInterludes, MaxFaults} \subseteq Nat

VARIABLES
  appState,   \* App::connection_state
  lastError,  \* App::last_error
  actorTx,    \* App::actor_tx is Some
  history,    \* App::command_history
  awaiting,   \* App::awaiting_command_response
  shown,      \* the connections whose messages are in the session data
  timers,     \* the startup sequences of the reconnect timers that run
  refresh,    \* how many commands of a refresh are still to be sent
  commands,   \* the channel from the App to the actor
  events,     \* the channel from the actor to the App
  phase,      \* where the actor is
  todo,       \* the startup commands not yet sent
  owed,       \* the commands sent on the connection and not yet answered
  sawPrompt,  \* saw_password_prompt
  blocked,    \* the event that waits for room in the channel, if any
  conn,       \* how many connections have been dialled
  typed,      \* how many command lines the user has entered
  presses, interludes, faults,  \* counters for the bounds
  late,       \* the startup of this connection has gone on without an answer
  session,    \* the connection the App last heard was connected
  fresh,      \* the session began with the Connect button, no other under way
  wish        \* what the user wants: "on", "off", or "any" when presses overlap

appVars     == <<appState, lastError, actorTx, history, awaiting, shown, timers, refresh>>
channelVars == <<commands, events, blocked>>
actorVars   == <<phase, todo, owed, sawPrompt, conn, late>>
boundVars   == <<typed, presses, interludes, faults>>
wishVars    == <<session, fresh, wish>>
vars        == <<appVars, channelVars, actorVars, boundVars, wishVars>>

\* Within the bound on what the user does.
MayAct == presses + typed < MaxInputs

AppStates == {"Disconnected", "Connecting", "Connected"}
Phases    == {"idle", "dialing", "startup", "waiting", "running", "exited"}
Reasons   == {"none", "error", "password", "gone"}
-----------------------------------------------------------------------------
(***************************************************************************)
(* Startup commands.  Their names; 0 is the id of every command that has   *)
(* no entry in the history.                                                *)
(***************************************************************************)
When(condition, name) == IF condition THEN <<name>> ELSE <<>>

BuildStartupCommands(o) ==
  When(o.password, "Password") \o <<"Pid", "State">>
    \o When(o.bytecount, "ByteCount") \o When(o.holdRelease, "HoldRelease")
    \o When(o.log, "Log") \o When(o.state, "StateStream") \o When(o.echo, "Echo")
    \o When(o.queryVersion, "Version") \o <<"Help">>

\* verb 4 goes after the password and before everything else.
BuildVerbReset(o) ==
  When(o.password, "Password") \o <<"Verb">>
    \o SubSeq(BuildStartupCommands(o), IF o.password THEN 2 ELSE 1,
              Len(BuildStartupCommands(o)))

Connect(startup) == [op |-> "Connect", startup |-> startup, id |-> 0]
Disconnect       == [op |-> "Disconnect", startup |-> <<>>, id |-> 0]
Forward(c, id)   == [op |-> c, startup |-> <<>>, id |-> id]

Event(what, reason, id) == [what |-> what, reason |-> reason, id |-> id, conn |-> conn]
-----------------------------------------------------------------------------
(***************************************************************************)
(* The App.  try_send fails on a full channel and on a closed one alike.   *)
(***************************************************************************)
CanSend == actorTx /\ Len(commands) < CommandCapacity /\ phase # "exited"

SendActor(c) == commands' = Append(commands, c) /\ UNCHANGED actorTx

\* appState after the handler has set it to s; lastError to "none".
OnActorGone ==
  /\ actorTx' = FALSE /\ appState' = "Disconnected" /\ lastError' = "gone"
  /\ UNCHANGED commands

\* Mutant of ResetSessionData: what the old session showed stays.
ResetConsoleOnly == history' = <<>> /\ awaiting' = FALSE /\ UNCHANGED shown

ResetSessionData == history' = <<>> /\ awaiting' = FALSE /\ shown' = {}

Press ==
  /\ refresh = 0 /\ presses < MaxPresses /\ MayAct /\ presses' = presses + 1
  /\ UNCHANGED <<typed, interludes, faults, events, blocked, refresh, actorVars, session>>

\* The events on their way to the App.
OnTheWay == events \o blocked

\* No connection is under way that an earlier press has asked for.
Settled ==
  /\ timers = <<>> /\ phase # "dialing"
  /\ \A i \in DOMAIN OnTheWay : OnTheWay[i].what # "Connected"
  /\ \A i \in DOMAIN commands : commands[i].op # "Connect"

\* The button is there when the App is neither connected nor connecting.
PressConnect(o) ==
  /\ appState = "Disconnected" /\ Press
  /\ ResetSessionData
  /\ \/ /\ CanSend /\ SendActor(Connect(BuildStartupCommands(o)))
        /\ appState' = "Connecting" /\ lastError' = "none"
     \/ ~CanSend /\ OnActorGone
  /\ wish' = IF Settled THEN "on" ELSE "any"
  /\ fresh' = Settled
  /\ UNCHANGED timers

PressDisconnect ==
  /\ appState = "Connected" /\ Press
  /\ \/ CanSend /\ SendActor(Disconnect) /\ UNCHANGED <<appState, lastError>>
     \/ ~CanSend /\ OnActorGone
  /\ wish' = IF Settled THEN "off" ELSE "any"
  /\ UNCHANGED <<history, awaiting, shown, timers, fresh>>

\* Message::Reconnect and Message::VerbReset: disconnect, and connect by timer.
PressReconnect(startup) ==
  /\ appState = "Connected" /\ Press
  /\ \/ /\ CanSend /\ SendActor(Disconnect)
        /\ appState' = "Connecting" /\ lastError' = "none"
        /\ ResetSessionData
        /\ timers' = Append(timers, startup)
     \/ ~CanSend /\ OnActorGone /\ UNCHANGED <<history, awaiting, shown, timers>>
  /\ wish' = IF Settled THEN "on" ELSE "any"
  /\ fresh' = FALSE

\* Message::ReconnectReady.
ReconnectReady(i) ==
  /\ refresh = 0
  /\ timers' = RemoveAt(timers, i)
  /\ \/ CanSend /\ SendActor(Connect(timers[i])) /\ UNCHANGED <<appState, lastError>>
     \/ ~CanSend /\ OnActorGone
  /\ UNCHANGED <<history, awaiting, shown, refresh, events, blocked, actorVars, boundVars, wishVars>>

\* Message::RefreshStatus sends several commands, the actor taking them meanwhile.
PressRefresh ==
  /\ appState = "Connected" /\ refresh = 0 /\ presses < MaxPresses /\ MayAct
  /\ presses' = presses + 1 /\ refresh' = RefreshCommands
  /\ UNCHANGED <<appState, lastError, actorTx, history, awaiting, shown, timers,
                 channelVars, actorVars, typed, interludes, faults, wishVars>>

RefreshNext ==
  /\ refresh > 0
  /\ \/ /\ CanSend /\ SendActor(Forward("Query", 0)) /\ refresh' = refresh - 1
        /\ UNCHANGED <<appState, lastError>>
     \/ ~CanSend /\ OnActorGone /\ refresh' = 0
  /\ UNCHANGED <<history, awaiting, shown, timers, events, blocked, actorVars, boundVars, wishVars>>

\* Mutant of LastOf: nothing is dropped.
AllOf(s, n) == s

\* The last n elements of s.
LastOf(s, n) == SubSeq(s, IF Len(s) > n THEN Len(s) - n + 1 ELSE 1, Len(s))

\* Nothing is on its way to or from the actor that is in the select loop.
AtRest ==
  /\ phase = "running" /\ owed = <<>> /\ refresh = 0 /\ timers = <<>>
  /\ commands = <<>> /\ events = <<>> /\ blocked = <<>>

\* alone: the command was sent when nothing was on its way.  parsed: it was
\* sent at all, and is not a line that the entry says does not parse.
Entry(id) == [id |-> id, responses |-> <<>>, alone |-> AtRest, parsed |-> TRUE]

\* send_and_record.  The command line can be used in every connection state.
SendAndRecord(c) ==
  /\ refresh = 0 /\ typed < MaxTyped /\ MayAct /\ typed' = typed + 1
  /\ history' = LastOf(Append(history, Entry(typed + 1)), HistoryLimit)
  /\ awaiting' = TRUE
  /\ \/ CanSend /\ SendActor(Forward(c, typed + 1)) /\ UNCHANGED <<appState, lastError>>
     \/ ~CanSend /\ OnActorGone
  /\ wish' = IF c = "Exit" THEN "any" ELSE wish
  /\ UNCHANGED <<shown, timers, refresh, events, blocked, actorVars, presses, interludes,
                 faults, session, fresh>>

\* Raw mode lets every line through to SendCommand.  One that does not parse
\* becomes an entry with its error; the history is not trimmed, and a response
\* that an earlier command waits for goes to the new entry.
RecordParseError ==
  /\ refresh = 0 /\ typed < MaxTyped /\ MayAct /\ typed' = typed + 1
  /\ history' = Append(history, [id |-> typed + 1, responses |-> <<typed + 1>>,
                                alone |-> FALSE, parsed |-> FALSE])
  /\ UNCHANGED <<appState, lastError, actorTx, awaiting, shown, timers, refresh, channelVars,
                 actorVars, presses, interludes, faults, wishVars>>
-----------------------------------------------------------------------------
(***************************************************************************)
(* The App takes an event.                                                 *)
(***************************************************************************)
\* Mutant of AppendResponse: the entry goes on taking responses.
AppendResponses(id) ==
  /\ history' = IF awaiting /\ history # <<>>
                THEN [history EXCEPT ![Len(history)].responses = Append(@, id)]
                ELSE history
  /\ UNCHANGED awaiting

\* append_command_response: the last entry takes the next response.
AppendResponse(id) ==
  /\ history' = IF awaiting /\ history # <<>>
                THEN [history EXCEPT ![Len(history)].responses = Append(@, id)]
                ELSE history
  /\ awaiting' = FALSE

HandleConnected(e) ==
  /\ e.what = "Connected"
  /\ appState' = "Connected" /\ lastError' = "none" /\ session' = e.conn
  /\ UNCHANGED <<history, awaiting, shown>>

HandleDisconnected(e) ==
  /\ e.what = "Disconnected"
  /\ appState' = "Disconnected" /\ lastError' = e.reason
  /\ UNCHANGED <<history, awaiting, shown, session>>

HandleReply(e) ==
  /\ e.what = "Reply"
  /\ AppendResponse(e.id)
  /\ shown' = shown \cup {e.conn}
  /\ UNCHANGED <<appState, lastError, session>>

HandleInterlude(e) ==
  /\ e.what \in AllInterludes
  /\ shown' = shown \cup {e.conn}
  /\ UNCHANGED <<appState, lastError, history, awaiting, session>>

HandleEvent ==
  /\ refresh = 0 /\ events # <<>>
  /\ events' = Tail(events)
  /\ \/ HandleConnected(Head(events))
     \/ HandleDisconnected(Head(events))
     \/ HandleReply(Head(events))
     \/ HandleInterlude(Head(events))
  /\ UNCHANGED <<actorTx, timers, refresh, commands, blocked, actorVars, boundVars, fresh, wish>>
-----------------------------------------------------------------------------
(***************************************************************************)
(* The actor.  send_event waits for room in the channel, and the actor     *)
(* with it.                                                                *)
(***************************************************************************)
\* Mutant of Emit: nobody waits for room.
EmitAnyway(e) == events' = Append(events, e) /\ UNCHANGED blocked

Emit(e) ==
  IF Len(events) < EventCapacity
  THEN events' = Append(events, e) /\ UNCHANGED blocked
  ELSE blocked' = <<e>> /\ UNCHANGED events

ActorStep == blocked = <<>> /\ UNCHANGED <<appVars, typed, presses, wishVars>>

\* Mutant of HangUp: only errors are reported.
HangUpQuietly(reason) ==
  /\ IF reason = "error" THEN Emit(Event("Disconnected", reason, 0)) ELSE UNCHANGED <<events, blocked>>
  /\ phase' = "idle" /\ todo' = <<>> /\ owed' = <<>>
  /\ sawPrompt' = FALSE /\ late' = FALSE /\ UNCHANGED conn

\* The connection is over: run_connection returns to the idle loop.
HangUp(reason) ==
  /\ Emit(Event("Disconnected", reason, 0))
  /\ phase' = "idle" /\ todo' = <<>> /\ owed' = <<>>
  /\ sawPrompt' = FALSE /\ late' = FALSE /\ UNCHANGED conn

Fault == faults < MaxFaults /\ faults' = faults + 1 /\ UNCHANGED interludes

Unblock ==
  /\ blocked # <<>> /\ Len(events) < EventCapacity
  /\ events' = Append(events, Head(blocked)) /\ blocked' = <<>>
  /\ UNCHANGED <<appVars, commands, actorVars, boundVars, wishVars>>

\* The idle loop.  Anything but Connect is ignored.
TakeIdle ==
  /\ phase = "idle" /\ commands # <<>> /\ ActorStep
  /\ commands' = Tail(commands)
  /\ IF Head(commands).op = "Connect"
     THEN /\ phase' = "dialing" /\ conn' = conn + 1 /\ todo' = Head(commands).startup
     ELSE UNCHANGED <<phase, conn, todo>>
  /\ UNCHANGED <<owed, sawPrompt, late, events, blocked, interludes, faults>>

\* All senders are gone: the idle loop returns, and so does the select loop.
ActorExits ==
  /\ phase \in {"idle", "running"} /\ commands = <<>> /\ ~actorTx /\ ActorStep
  /\ phase' = "exited"
  /\ UNCHANGED <<todo, owed, sawPrompt, late, conn, channelVars, interludes, faults>>

\* Mutant of DialFails: only the log is told.
DialFailsQuietly ==
  /\ phase = "dialing" /\ ActorStep /\ Fault
  /\ phase' = "idle" /\ todo' = <<>>
  /\ UNCHANGED <<owed, sawPrompt, late, conn, channelVars>>

DialFails ==
  /\ phase = "dialing" /\ ActorStep /\ Fault
  /\ HangUp("error") /\ UNCHANGED commands

DialSucceeds ==
  /\ phase = "dialing" /\ ActorStep
  /\ Emit(Event("Connected", "none", 0))
  /\ phase' = "startup"
  /\ UNCHANGED <<todo, owed, sawPrompt, late, conn, commands, interludes, faults>>

SendStartup ==
  /\ phase = "startup" /\ todo # <<>> /\ ActorStep
  /\ owed' = Append(owed, Forward("Startup", 0))
  /\ todo' = Tail(todo) /\ phase' = "waiting"
  /\ UNCHANGED <<sawPrompt, late, conn, channelVars, interludes, faults>>

SendStartupFails ==
  /\ phase = "startup" /\ todo # <<>> /\ ActorStep /\ Fault
  /\ HangUp("error") /\ UNCHANGED commands

\* The wait for one startup command is over.
StartupGoesOn == phase' = IF phase = "waiting" THEN "startup" ELSE phase

StartupDone ==
  /\ phase = "startup" /\ todo = <<>> /\ ActorStep
  /\ phase' = "running"
  /\ UNCHANGED <<todo, owed, sawPrompt, late, conn, channelVars, interludes, faults>>

\* Mutant of StartupTimeout: a startup command is waited for without a limit.
StartupTimeoutNever == phase # phase /\ UNCHANGED vars

StartupTimeout ==
  /\ phase = "waiting" /\ ActorStep
  /\ StartupGoesOn /\ late' = TRUE
  /\ UNCHANGED <<todo, owed, sawPrompt, conn, channelVars, interludes, faults>>

ReceiveReply ==
  /\ phase \in {"waiting", "running"} /\ owed # <<>> /\ Head(owed).op # "Exit" /\ ActorStep
  /\ Emit(Event("Reply", "none", Head(owed).id))
  /\ owed' = Tail(owed) /\ StartupGoesOn
  /\ UNCHANGED <<todo, sawPrompt, late, conn, commands, interludes, faults>>

\* Mutant of IsAsync: the prompt is taken for the answer to the first command.
IsAsyncButPrompt(m) == m \in {"Notification", "Info"}

IsAsync(m) == m \in {"Notification", "Info", "PasswordPrompt"}

\* What is not async ends the wait of a startup command: Unrecognized does.
ReceiveInterlude(m) ==
  /\ phase \in {"waiting", "running"} /\ ActorStep
  /\ interludes < MaxInterludes /\ interludes' = interludes + 1
  /\ Emit(Event(m, "none", 0))
  /\ sawPrompt' = (sawPrompt \/ (phase = "waiting" /\ m = "PasswordPrompt"))
  /\ IF IsAsync(m) THEN UNCHANGED phase ELSE StartupGoesOn
  /\ late' = (late \/ (phase = "waiting" /\ m = "Unrecognized"))
  /\ UNCHANGED <<todo, owed, conn, commands, faults>>

\* Mutant of ReceiveError: the error is reported and the loop goes on.
ReceiveErrorGoesOn ==
  /\ phase \in {"waiting", "running"} /\ ActorStep /\ Fault
  /\ Emit(Event("Disconnected", "error", 0))
  /\ UNCHANGED <<actorVars, commands>>

ReceiveError ==
  /\ phase \in {"waiting", "running"} /\ ActorStep /\ Fault
  /\ HangUp("error") /\ UNCHANGED commands

\* The server closes: of its own, or because it has come to an exit.
ServerCloses ==
  IF owed # <<>> /\ Head(owed).op = "Exit" THEN UNCHANGED <<interludes, faults>> ELSE Fault

ReceiveNone ==
  /\ phase \in {"waiting", "running"} /\ ActorStep /\ ServerCloses
  /\ HangUp(IF phase = "waiting" /\ sawPrompt THEN "password" ELSE "none")
  /\ UNCHANGED commands

\* Connect while connected ends the connection and is lost.
TakeConnect ==
  /\ phase = "running" /\ commands # <<>> /\ Head(commands).op = "Connect" /\ ActorStep
  /\ commands' = Tail(commands)
  /\ HangUp("none") /\ UNCHANGED <<interludes, faults>>

\* Mutant of TakeDisconnect: quit is sent and the server is left to close.
TakeDisconnectWaits ==
  /\ phase = "running" /\ commands # <<>> /\ Head(commands).op = "Disconnect" /\ ActorStep
  /\ commands' = Tail(commands)
  /\ UNCHANGED <<actorVars, events, blocked, interludes, faults>>

\* quit is sent; whether that succeeds makes no difference.
TakeDisconnect ==
  /\ phase = "running" /\ commands # <<>> /\ Head(commands).op = "Disconnect" /\ ActorStep
  /\ commands' = Tail(commands)
  /\ HangUp("none") /\ UNCHANGED <<interludes, faults>>

TakeSend ==
  /\ phase = "running" /\ commands # <<>> /\ ActorStep
  /\ Head(commands).op \in {"Query", "Exit"}
  /\ commands' = Tail(commands)
  /\ \/ /\ owed' = Append(owed, Head(commands))
        /\ UNCHANGED <<phase, todo, sawPrompt, late, conn, events, blocked, interludes, faults>>
     \/ Fault /\ HangUp("error")
-----------------------------------------------------------------------------
Init ==
  /\ appState = "Disconnected" /\ lastError = "none" /\ actorTx = TRUE
  /\ history = <<>> /\ awaiting = FALSE /\ shown = {} /\ timers = <<>> /\ refresh = 0
  /\ commands = <<>> /\ events = <<>> /\ blocked = <<>>
  /\ phase = "idle" /\ todo = <<>> /\ owed = <<>> /\ sawPrompt = FALSE /\ conn = 0
  /\ late = FALSE
  /\ typed = 0 /\ presses = 0 /\ interludes = 0 /\ faults = 0
  /\ session = 0 /\ fresh = FALSE /\ wish = "off"

User ==
  \/ \E o \in Options : \/ PressConnect(o)
                        \/ PressReconnect(BuildStartupCommands(o))
                        \/ PressReconnect(BuildVerbReset(o))
  \/ PressDisconnect
  \/ PressRefresh
  \/ \E c \in Commands : SendAndRecord(c)
  \/ RecordParseError

App == HandleEvent \/ RefreshNext \/ (\E i \in DOMAIN timers : ReconnectReady(i))

\* What the actor does of its own, and what its transport does to it.
Actor ==
  \/ Unblock \/ TakeIdle \/ ActorExits
  \/ DialSucceeds \/ SendStartup \/ StartupDone \/ StartupTimeout
  \/ TakeConnect \/ TakeDisconnect \/ TakeSend

Transport ==
  \/ DialFails \/ SendStartupFails \/ ReceiveReply \/ ReceiveError \/ ReceiveNone
  \/ \E m \in Interludes : ReceiveInterlude(m)

Next == User \/ App \/ Actor \/ Transport

Spec == Init /\ [][Next]_vars

(***************************************************************************)
(* Fairness.  The App's event loop handles what is in its queue, timers    *)
(* expire, the actor task is polled; connecting ends, at the latest when   *)
(* the system gives up, and so does the wait for a startup command.  What  *)
(* the server sends and the user does is not assumed.                      *)
(***************************************************************************)
FairSpec == Spec /\ WF_vars(App) /\ WF_vars(Actor)

TypeOK ==
  /\ appState \in AppStates /\ lastError \in Reasons /\ actorTx \in BOOLEAN
  /\ history \in Seq([id : Nat, responses : Seq(Nat), alone : BOOLEAN, parsed : BOOLEAN])
  /\ \A i \in DOMAIN history : history[i].parsed => i <= HistoryLimit
  /\ awaiting \in BOOLEAN /\ shown \subseteq 1..conn /\ refresh \in 0..RefreshCommands
  /\ Len(commands) <= CommandCapacity /\ Len(events) <= EventCapacity /\ Len(blocked) <= 1
  /\ phase \in Phases /\ sawPrompt \in BOOLEAN /\ late \in BOOLEAN
  /\ conn \in Nat /\ session \in 0..conn
  /\ typed \in 0..MaxTyped /\ presses \in 0..MaxPresses
  /\ interludes \in 0..MaxInterludes /\ faults \in 0..MaxFaults
  /\ wish \in {"on", "off", "any"} /\ fresh \in BOOLEAN
-----------------------------------------------------------------------------
(***************************************************************************)
(* When nothing is on its way, the state the App shows is that of the      *)
(* actor, and no error is shown while connected.                           *)
(***************************************************************************)
Quiet ==
  /\ commands = <<>> /\ events = <<>> /\ blocked = <<>> /\ timers = <<>> /\ refresh = 0
  /\ actorTx /\ phase \in {"idle", "running"}

AppAgrees ==
  /\ Quiet => appState = IF phase = "running" THEN "Connected" ELSE "Disconnected"
  /\ appState # "Disconnected" => lastError = "none"

(***************************************************************************)
(* When nothing is on its way, the user's last press has been done: there  *)
(* is no connection after Disconnect, and one after Connect and Reconnect  *)
(* if nothing has failed; presses that overlap an earlier one apart.       *)
(***************************************************************************)
LastWish ==
  Quiet => /\ wish = "off" => phase = "idle"
           /\ wish = "on" /\ faults = 0 => phase = "running"

(***************************************************************************)
(* The events on their way tell of whole connections, one after the other: *)
(* Connected, messages, Disconnected, each of the same connection.         *)
(***************************************************************************)
Follows(d, e) ==
  IF d.what = "Disconnected"
  THEN e.what \in {"Connected", "Disconnected"} /\ e.conn > d.conn
  ELSE e.what # "Connected" /\ e.conn = d.conn

OneAtATime ==
  /\ \A i \in 1..Len(OnTheWay) - 1 : Follows(OnTheWay[i], OnTheWay[i + 1])
  /\ OnTheWay # <<>> /\ phase # "exited" =>
       (Last(OnTheWay).what = "Disconnected" <=> phase \in {"idle", "dialing"})

(***************************************************************************)
(* A session begun with the Connect button shows nothing of an earlier     *)
(* connection, while the App has an actor.                                 *)
(***************************************************************************)
FreshSession == actorTx /\ appState = "Connected" /\ fresh => shown \subseteq {session}

(***************************************************************************)
(* The response shown under a command that was sent when nothing was on    *)
(* its way is that command's.                                              *)
(***************************************************************************)
OwnResponse ==
  \A i \in DOMAIN history :
    history[i].alone => \A j \in DOMAIN history[i].responses :
                          history[i].responses[j] = history[i].id

(***************************************************************************)
(* Unless a wait has gone on without its answer, no startup command is     *)
(* sent before the one before it has been answered, and no other command   *)
(* before the last of them.                                                *)
(***************************************************************************)
StartupInOrder ==
  ~late => \A i \in DOMAIN owed : owed[i].op = "Startup" =>
             phase = "waiting" /\ Len(owed) = 1

\* The App does not stay in Connecting.
ConnectingEnds == appState = "Connecting" ~> appState # "Connecting"

(***************************************************************************)
(* A Disconnect does not wait for ever: not behind a startup sequence, not *)
(* behind a full channel.                                                  *)
(***************************************************************************)
DisconnectPending == \E i \in DOMAIN commands : commands[i].op = "Disconnect"
DisconnectTaken == DisconnectPending ~> ~DisconnectPending

(***************************************************************************)
(* The App gives its actor up only when the actor's task has exited.       *)
(* ("The actor's command channel is closed", ActorGone, main.rs.)          *)
(***************************************************************************)
GivenUpWhenExited == [][actorTx /\ ~actorTx' => phase = "exited"]_vars
=============================================================================
