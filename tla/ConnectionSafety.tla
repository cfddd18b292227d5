--------------------------- MODULE ConnectionSafety ---------------------------
(***************************************************************************)
(* What holds of App, actor and the channels between them at every moment, *)
(* not only at rest: the inductive invariant behind the safety properties  *)
(* of Connection.                                                          *)
(***************************************************************************)
EXTENDS Connection

(***************************************************************************)
(* Types, and the order of the events: for OneAtATime and StartupInOrder.  *)
(***************************************************************************)
StartupNames == {"Password", "Verb", "Pid", "State", "ByteCount", "HoldRelease",
                  "Log", "StateStream", "Echo", "Version", "Help"}

\* What travels between App and actor, and what the actor has sent.
EventRecords == [what : {"Connected", "Disconnected", "Reply"} \cup AllInterludes,
                 reason : Reasons, id : Nat, conn : Nat]
ActorCommands == [op : {"Connect", "Disconnect", "Query", "Exit"}, startup : Seq(StartupNames), id : Nat]
SentCommands  == [op : {"Startup", "Query", "Exit"}, startup : Seq(StartupNames), id : Nat]
Entries       == [id : Nat, responses : Seq(Nat), alone : BOOLEAN, parsed : BOOLEAN]

CommandTypes ==
  /\ commands \in Seq(ActorCommands) /\ Len(commands) <= CommandCapacity
  /\ timers \in Seq(Seq(StartupNames)) /\ typed \in Nat

EventTypes ==
  /\ events \in Seq(EventRecords) /\ Len(events) <= EventCapacity
  /\ blocked \in Seq(EventRecords) /\ Len(blocked) <= 1

ActorTypes ==
  /\ phase \in Phases /\ todo \in Seq(StartupNames) /\ owed \in Seq(SentCommands)
  /\ sawPrompt \in BOOLEAN /\ late \in BOOLEAN /\ conn \in Nat

Live == {"startup", "waiting", "running"}

\* Every event on its way is of a connection that was dialled, and the last
\* of them is of the current one while it lasts.
EventsTold ==
  /\ phase \in Live \cup {"dialing"} => conn > 0
  /\ \A i \in DOMAIN OnTheWay : OnTheWay[i].conn \in 1..conn
  /\ OnTheWay # <<>> /\ phase = "dialing" => Last(OnTheWay).conn < conn
  /\ OnTheWay # <<>> /\ phase \in Live => Last(OnTheWay).conn = conn

\* Nothing is owed outside a connection, and a startup command in time only
\* while it is waited for.
StartupOwed ==
  /\ phase \in {"idle", "dialing"} => owed = <<>>
  /\ ~late /\ phase = "startup" => owed = <<>>
  /\ ~late /\ phase = "waiting" => Len(owed) = 1
  /\ ~late /\ phase \in {"running", "exited"} => \A i \in DOMAIN owed : owed[i].op # "Startup"

OrderInv == CommandTypes /\ EventTypes /\ ActorTypes /\ OneAtATime /\ EventsTold /\ StartupOwed

(***************************************************************************)
(* For AppAgrees.                                                          *)
(***************************************************************************)
\* No event on its way tells of a change of the connection.
NoNews == \A i \in DOMAIN OnTheWay : OnTheWay[i].what \notin {"Connected", "Disconnected"}

\* A command on its way connects, or ends a connection that is live.
ConnectPending == \E i \in DOMAIN commands : commands[i].op = "Connect"
ChangePending  == \E i \in DOMAIN commands : commands[i].op \in {"Connect", "Disconnect"}

\* What the App shows is true, or a command, a timer or an event on its way
\* will correct it.
NewsComes ==
  actorTx /\ NoNews =>
    /\ phase \in Live /\ appState # "Connected" => ChangePending
    /\ phase \in {"idle", "dialing"} => appState # "Connected"
    /\ phase = "idle" /\ appState = "Connecting" => timers # <<>> \/ ConnectPending

AgreeInv ==
  /\ appState \in AppStates
  /\ appState # "Disconnected" => lastError = "none"
  /\ NewsComes

(***************************************************************************)
(* What the App has heard of the connection whose messages come next.      *)
(***************************************************************************)
IsMessage(e) == e.what \notin {"Connected", "Disconnected"}

\* A Connected is among the events on their way from the i-th to the j-th.
ConnectedWithin(i, j) == \E k \in i..j : OnTheWay[k].what = "Connected"
ConnectedComes == \E k \in DOMAIN OnTheWay : OnTheWay[k].what = "Connected"

\* What comes after the k-th event on its way is announced by a Connected.
AnnouncedAfter(k) ==
  /\ \A j \in DOMAIN OnTheWay : k < j /\ IsMessage(OnTheWay[j]) => ConnectedWithin(k + 1, j - 1)
  /\ phase \in Live => ConnectedWithin(k + 1, Len(OnTheWay))

HeardInv ==
  /\ \A k \in DOMAIN OnTheWay : OnTheWay[k].what = "Disconnected" => AnnouncedAfter(k)
  /\ actorTx /\ appState = "Disconnected" => AnnouncedAfter(0)

(***************************************************************************)
(* For LastWish: how the last press will be done.                          *)
(***************************************************************************)
\* The connection there is ends before the actor takes its n-th command.
EndsBefore(n) ==
  \/ phase = "idle"
  \/ phase \in Live /\ \E j \in DOMAIN commands : j < n /\ commands[j].op = "Disconnect"

OffComes ==
  wish = "off" /\ actorTx =>
    /\ timers = <<>> /\ ~ConnectPending /\ phase # "dialing"
    /\ phase \in Live => DisconnectPending

\* By a timer that runs, by a Connect on its way, or by the connection there is.
TimerConnects ==
  Len(timers) = 1 /\ ~ConnectPending /\ EndsBefore(Len(commands) + 1)

CommandConnects ==
  /\ timers = <<>>
  /\ \E i \in DOMAIN commands :
       /\ commands[i].op = "Connect" /\ EndsBefore(i)
       /\ \A j \in DOMAIN commands : /\ j < i => commands[j].op # "Connect"
                                     /\ j > i => commands[j].op = "Query"

StaysConnected ==
  /\ timers = <<>> /\ phase \in Live \cup {"dialing"}
  /\ \A i \in DOMAIN commands : commands[i].op = "Query"
  /\ \A i \in DOMAIN owed : owed[i].op # "Exit"

OnComes ==
  wish = "on" /\ faults = 0 /\ actorTx => TimerConnects \/ CommandConnects \/ StaysConnected

WishInv == OffComes /\ OnComes

(***************************************************************************)
(* For FreshSession.                                                       *)
(***************************************************************************)
\* The first n events on their way are ends of earlier connections.
OnlyEnds(n)  == \A i \in 1..n : OnTheWay[i].what = "Disconnected"
OnlyEndsCome == \A i \in DOMAIN OnTheWay : OnTheWay[i].what = "Disconnected"

\* After the n-th, whatever is or will be told is of the connection c.
OnlyOf(n, c) ==
  /\ \A i \in DOMAIN OnTheWay : i > n =>
       /\ OnTheWay[i].what # "Connected"
       /\ IsMessage(OnTheWay[i]) => OnTheWay[i].conn = c
  /\ phase \in Live => conn = c

\* Before a Connected come ends only, after it what is of its connection.
ConnectedAlone(i) ==
  OnTheWay[i].what = "Connected" => OnlyEnds(i - 1) /\ OnlyOf(i, OnTheWay[i].conn)

\* The App has not heard of the connection that it has asked for.
Unheard == ConnectPending \/ phase = "dialing" \/ ConnectedComes

\* At most one Connect is on its way to the actor.
OneConnect ==
  \A i, j \in DOMAIN commands : commands[i].op = "Connect" /\ commands[j].op = "Connect" => i = j

FreshInv ==
  fresh /\ actorTx =>
    /\ timers = <<>>
    /\ appState = "Connected" => ~Unheard
    /\ ConnectPending => phase = "idle"
    /\ OneConnect
    /\ ConnectPending \/ phase = "dialing" => OnlyEndsCome
    /\ \A i \in DOMAIN OnTheWay : ConnectedAlone(i)
    /\ IF Unheard THEN shown = {} ELSE shown \subseteq {session} /\ OnlyOf(0, session)

(***************************************************************************)
(* For OwnResponse: where the answer to the command n is that was sent     *)
(* alone and is waited for.                                                *)
(***************************************************************************)
ReplyBefore(i) == \E j \in 1..i - 1 : OnTheWay[j].what = "Reply"
ReplyComes     == \E j \in DOMAIN OnTheWay : OnTheWay[j].what = "Reply"

\* The command n is the next to be answered, or was lost with the actor.
AnswerOwed(n) ==
  \/ owed # <<>> /\ Head(owed).id = n
  \/ /\ owed = <<>>
     /\ \E i \in DOMAIN commands :
          /\ commands[i].op \in {"Query", "Exit"} /\ commands[i].id = n
          /\ \A j \in 1..i - 1 : commands[j].op = "Disconnect"
  \/ owed = <<>> /\ commands = <<>> /\ ~actorTx

AnswerComes(n) ==
  /\ timers = <<>> /\ ~ConnectPending /\ phase \in {"idle", "running", "exited"}
  /\ \A i \in DOMAIN OnTheWay : OnTheWay[i].what = "Reply" /\ ~ReplyBefore(i) => OnTheWay[i].id = n
  /\ phase = "running" /\ ~ReplyComes => AnswerOwed(n)

ResponseInv ==
  /\ OwnResponse
  /\ awaiting /\ history # <<>> /\ Last(history).alone => AnswerComes(Last(history).id)

\* The inductive invariant.
ConnectionInv ==
  TypeOK /\ OrderInv /\ AgreeInv /\ HeardInv /\ WishInv /\ FreshInv /\ ResponseInv
=============================================================================
