-------------------------- MODULE ConnectionProofs --------------------------
(***************************************************************************)
(* Proofs about Connection, for channels of any capacity, any startup      *)
(* options and any bounds.                                                 *)
(***************************************************************************)
EXTENDS ConnectionSafety, TLAPS
-----------------------------------------------------------------------------
LEMMA WhenType ==
  ASSUME NEW S, NEW n \in S, NEW c PROVE When(c, n) \in Seq(S)
<1>1. CASE c BY <1>1 DEF When
<1>2. CASE ~c BY <1>2 DEF When
<1>. QED BY <1>1, <1>2

LEMMA ConcatType ==
  ASSUME NEW S, NEW s \in Seq(S), NEW t \in Seq(S) PROVE s \o t \in Seq(S)
OBVIOUS

LEMMA AppendType ==
  ASSUME NEW S, NEW s \in Seq(S), NEW e \in S PROVE Append(s, e) \in Seq(S)
OBVIOUS

LEMMA EmptyType ==
  ASSUME NEW S PROVE <<>> \in Seq(S)
OBVIOUS

LEMMA OneType ==
  ASSUME NEW S, NEW n \in S, NEW m \in S PROVE <<n>> \in Seq(S) /\ <<n, m>> \in Seq(S)
OBVIOUS

LEMMA StartupTypes ==
  ASSUME NEW o 
  PROVE  /\ BuildStartupCommands(o) \in Seq(StartupNames)
         /\ BuildVerbReset(o) \in Seq(StartupNames)
<1>1. \A c : \A n \in StartupNames : When(c, n) \in Seq(StartupNames)
  BY WhenType
<1>2. \A s \in Seq(StartupNames), t \in Seq(StartupNames) : s \o t \in Seq(StartupNames)
  BY ConcatType
<1>3. <<"Pid", "State">> \in Seq(StartupNames) /\ <<"Help">> \in Seq(StartupNames) /\ <<"Verb">> \in Seq(StartupNames)
  BY OneType DEF StartupNames
<1>4. {"Password", "ByteCount", "HoldRelease", "Log", "StateStream", "Echo", "Version"} \subseteq StartupNames
  BY DEF StartupNames
<1>5. BuildStartupCommands(o) \in Seq(StartupNames)
  BY <1>1, <1>2, <1>3, <1>4, Zenon DEF BuildStartupCommands
<1>6. \A i \in 1..2 : SubSeq(BuildStartupCommands(o), i, Len(BuildStartupCommands(o))) \in Seq(StartupNames)
  BY <1>5
<1>7. SubSeq(BuildStartupCommands(o), IF o.password THEN 2 ELSE 1, Len(BuildStartupCommands(o))) \in Seq(StartupNames)
  BY <1>6
<1>. QED
  BY <1>1, <1>2, <1>3, <1>4, <1>5, <1>7, Zenon DEF BuildVerbReset

LEMMA InitHolds == Init => OrderInv
<1>1. \A S : <<>> \in Seq(S) /\ Len(<<>>) = 0 /\ DOMAIN <<>> = {}
  OBVIOUS
<1>2. Init => OnTheWay = <<>>
  BY DEF Init, OnTheWay
<1>3. Init => CommandTypes /\ EventTypes
  BY <1>1, ConnectionAssumption DEF Init, CommandTypes, EventTypes
<1>4. Init => ActorTypes
  <2>1. <<>> \in Seq(StartupNames) /\ <<>> \in Seq(SentCommands)
    BY <1>1
  <2>2. Init => phase \in Phases /\ conn \in Nat
    BY DEF Init, Phases
  <2>. QED BY <2>1, <2>2, Zenon DEF Init, ActorTypes
<1>5. Init => OneAtATime
  BY <1>1, <1>2 DEF OneAtATime
<1>6. Init => EventsTold /\ StartupOwed
  BY <1>1, <1>2 DEF Init, EventsTold, StartupOwed, Live
<1>. QED BY <1>3, <1>4, <1>5, <1>6 DEF OrderInv

\* An event that is emitted is the last one on its way.
LEMMA EmitAppends ==
  ASSUME EventTypes, blocked = <<>>, NEW e \in EventRecords, Emit(e)
  PROVE  /\ OnTheWay' = Append(OnTheWay, e)
         /\ OnTheWay \in Seq(EventRecords)
         /\ events' \in Seq(EventRecords) /\ Len(events') <= EventCapacity
         /\ blocked' \in Seq(EventRecords) /\ Len(blocked') <= 1
<1>1. OnTheWay = events
  BY DEF OnTheWay, EventTypes
<1>2. CASE Len(events) < EventCapacity
  BY <1>1, <1>2, ConnectionAssumption DEF Emit, OnTheWay, EventTypes
<1>3. CASE ~(Len(events) < EventCapacity)
  <2>1. events' = events /\ blocked' = <<e>> /\ <<e>> \in Seq(EventRecords) /\ Len(<<e>>) = 1
    BY <1>3 DEF Emit
  <2>2. events \o <<e>> = Append(events, e)
    BY DEF EventTypes
  <2>. QED BY <1>1, <2>1, <2>2 DEF OnTheWay, EventTypes
<1>. QED BY <1>2, <1>3

LEMMA EmitKeepsOrder ==
  ASSUME EventTypes, ActorTypes, OneAtATime, EventsTold, blocked = <<>>,
         NEW e \in EventRecords, Emit(e), e.conn = conn, conn' = conn,
         phase \in Live \cup {"dialing"}, phase' \in Live \cup {"idle"},
         phase = "dialing" => e.what \in {"Connected", "Disconnected"},
         phase # "dialing" => e.what # "Connected",
         e.what = "Disconnected" <=> phase' = "idle"
  PROVE  OneAtATime' /\ EventsTold'
<1>. DEFINE s == OnTheWay
<1>1. /\ s \in Seq(EventRecords) /\ OnTheWay' = Append(s, e)
  BY EmitAppends
<1>2. /\ OnTheWay' # <<>> /\ Len(OnTheWay') = Len(s) + 1 /\ Last(OnTheWay') = e
      /\ \A i \in 1..Len(s) : OnTheWay'[i] = s[i]
      /\ OnTheWay'[Len(s) + 1] = e
      /\ DOMAIN OnTheWay' = 1..Len(s) + 1 /\ DOMAIN s = 1..Len(s) /\ Len(s) \in Nat
  BY <1>1 DEF Last
<1>3. s # <<>> => Len(s) > 0 /\ Last(s) = s[Len(s)] /\ Last(s) \in EventRecords
  BY <1>1 DEF Last
<1>4. s # <<>> => Follows(Last(s), e)
  BY <1>1, <1>3 DEF Follows, OneAtATime, EventsTold, ActorTypes, Live, EventRecords
<1>5. ASSUME NEW i \in 1..Len(OnTheWay') - 1 PROVE Follows(OnTheWay'[i], OnTheWay'[i + 1])
  <2>1. CASE i = Len(s)
    BY <2>1, <1>2, <1>3, <1>4
  <2>2. CASE i \in 1..Len(s) - 1
    BY <2>2, <1>2 DEF OneAtATime
  <2>3. Len(OnTheWay') = Len(s) + 1 /\ Len(s) \in Nat
    BY <1>2
  <2>4. i = Len(s) \/ i \in 1..Len(s) - 1
    BY <2>3
  <2>. QED BY <2>1, <2>2, <2>4
<1>6. OneAtATime'
  BY <1>2, <1>5 DEF OneAtATime, Live, Follows
<1>7. EventsTold'
  BY <1>2 DEF EventsTold, Live, ActorTypes
<1>. QED BY <1>6, <1>7

LEMMA SilenceKeepsOrder ==
  ASSUME OneAtATime, EventsTold, OnTheWay' = OnTheWay, conn' = conn,
         phase' = phase \/ {phase, phase'} \subseteq Live \/ phase' = "exited"
  PROVE  OneAtATime' /\ EventsTold'
BY DEF OneAtATime, EventsTold, Live, Follows

\* The App takes the first event.
LEMMA TakingKeepsOrder ==
  ASSUME EventTypes, ActorTypes, OneAtATime, EventsTold, events # <<>>, events' = Tail(events),
         UNCHANGED <<blocked, phase, conn>>
  PROVE  EventTypes' /\ OneAtATime' /\ EventsTold'
<1>. DEFINE s == OnTheWay
<1>1. /\ Tail(events) \in Seq(EventRecords) /\ Len(Tail(events)) = Len(events) - 1
      /\ Len(events) \in Nat
  BY DEF EventTypes
<1>2. EventTypes'
  <2>1. Len(events) <= EventCapacity /\ EventCapacity \in Nat
    BY ConnectionAssumption DEF EventTypes
  <2>2. Len(Tail(events)) <= EventCapacity
    BY <1>1, <2>1
  <2>. QED BY <1>1, <2>2 DEF EventTypes
<1>3. /\ s \in Seq(EventRecords) /\ s # <<>> /\ OnTheWay' = Tail(s)
  BY DEF EventTypes, OnTheWay
<1>4. /\ Len(s) \in Nat /\ Len(OnTheWay') = Len(s) - 1
      /\ DOMAIN s = 1..Len(s) /\ DOMAIN OnTheWay' = 1..Len(s) - 1
      /\ \A i \in 1..Len(s) - 1 : OnTheWay'[i] = s[i + 1]
  BY <1>3
<1>5. OnTheWay' # <<>> => Len(s) - 1 > 0
  BY <1>3, <1>4
<1>6. OnTheWay' # <<>> => Last(OnTheWay') = Last(s)
  BY <1>4, <1>5 DEF Last
<1>7. ASSUME NEW i \in 1..Len(OnTheWay') - 1 PROVE Follows(OnTheWay'[i], OnTheWay'[i + 1])
  <2>1. i + 1 \in 1..Len(s) - 1 /\ i \in 1..Len(s) - 1
    BY <1>4
  <2>2. Follows(s[i + 1], s[i + 1 + 1])
    BY <2>1 DEF OneAtATime
  <2>. QED BY <2>1, <2>2, <1>4
<1>8. OneAtATime'
  BY <1>3, <1>6, <1>7 DEF OneAtATime, Follows
<1>9. ASSUME NEW i \in DOMAIN OnTheWay' PROVE OnTheWay'[i].conn \in 1..conn
  <2>1. i \in 1..Len(s) - 1 /\ i + 1 \in DOMAIN s /\ OnTheWay'[i] = s[i + 1]
    BY <1>4
  <2>. QED BY <2>1 DEF EventsTold
<1>10. EventsTold'
  BY <1>3, <1>6, <1>9 DEF EventsTold
<1>. QED BY <1>2, <1>8, <1>10

\* The event that waited for room takes its place.
LEMMA UnblockKeepsOrder ==
  ASSUME EventTypes, ActorTypes, OneAtATime, EventsTold, Unblock
  PROVE  EventTypes' /\ OnTheWay' = OnTheWay /\ OneAtATime' /\ EventsTold'
<1>1. /\ blocked # <<>> /\ Len(blocked) = 1 /\ Head(blocked) \in EventRecords /\ blocked = <<Head(blocked)>>
  <2>1. blocked \in Seq(EventRecords) /\ Len(blocked) <= 1 /\ blocked # <<>>
    BY DEF EventTypes, Unblock
  <2>2. Len(blocked) = 1 /\ Head(blocked) \in EventRecords /\ Head(blocked) = blocked[1]
    BY <2>1
  <2>3. blocked = <<blocked[1]>>
    BY <2>1, <2>2
  <2>. QED BY <2>1, <2>2, <2>3
<1>2. /\ events' = Append(events, Head(blocked)) /\ blocked' = <<>> /\ Len(events) < EventCapacity
      /\ phase' = phase /\ conn' = conn
  BY DEF Unblock, actorVars
<1>3. EventTypes'
  BY <1>1, <1>2, ConnectionAssumption DEF EventTypes
<1>4. events \o <<Head(blocked)>> = Append(events, Head(blocked)) /\ events' \o <<>> = events'
  BY <1>1, <1>3 DEF EventTypes
<1>5. OnTheWay' = OnTheWay
  BY <1>1, <1>2, <1>4 DEF OnTheWay
<1>6. OneAtATime' /\ EventsTold'
  BY <1>2, <1>5, SilenceKeepsOrder
<1>. QED BY <1>3, <1>5, <1>6
-----------------------------------------------------------------------------
\* What the App sends is a command, and changes nothing of the actor's.
LEMMA SendTypes ==
  ASSUME CommandTypes, NEW c \in ActorCommands, CanSend, SendActor(c)
  PROVE  commands' \in Seq(ActorCommands) /\ Len(commands') <= CommandCapacity
<1>1. commands' = Append(commands, c) /\ Len(commands) < CommandCapacity
  BY DEF CanSend, SendActor
<1>2. Append(commands, c) \in Seq(ActorCommands) /\ Len(Append(commands, c)) = Len(commands) + 1 /\ Len(commands) \in Nat
  BY DEF CommandTypes
<1>. QED BY <1>1, <1>2, ConnectionAssumption

LEMMA GoneTypes ==
  ASSUME CommandTypes, OnActorGone
  PROVE  commands' \in Seq(ActorCommands) /\ Len(commands') <= CommandCapacity
BY DEF CommandTypes, OnActorGone

LEMMA CommandRecords ==
  /\ Disconnect \in ActorCommands
  /\ \A startup \in Seq(StartupNames) : Connect(startup) \in ActorCommands
  /\ \A c \in {"Query", "Exit"}, id \in Nat : Forward(c, id) \in ActorCommands
<1>1. <<>> \in Seq(StartupNames)
  OBVIOUS
<1>. QED BY <1>1 DEF Disconnect, Connect, Forward, ActorCommands

LEMMA UserKeepsCommands ==
  ASSUME CommandTypes, User
  PROVE  CommandTypes' /\ UNCHANGED <<events, blocked, actorVars>>
<1>1. ASSUME NEW o \in Options, PressConnect(o)
      PROVE  CommandTypes' /\ UNCHANGED <<events, blocked, actorVars>>
  <2>1. Connect(BuildStartupCommands(o)) \in ActorCommands
    BY StartupTypes, CommandRecords
  <2>2. commands' \in Seq(ActorCommands) /\ Len(commands') <= CommandCapacity
    BY <1>1, <2>1, SendTypes, GoneTypes DEF PressConnect
  <2>. QED BY <1>1, <2>2 DEF PressConnect, Press, CommandTypes
<1>2. ASSUME NEW startup \in Seq(StartupNames), PressReconnect(startup)
      PROVE  CommandTypes' /\ UNCHANGED <<events, blocked, actorVars>>
  <2>1. commands' \in Seq(ActorCommands) /\ Len(commands') <= CommandCapacity
    BY <1>2, CommandRecords, SendTypes, GoneTypes DEF PressReconnect
  <2>2. timers' \in Seq(Seq(StartupNames))
    <3>1. timers' = Append(timers, startup) \/ timers' = timers
      BY <1>2 DEF PressReconnect
    <3>2. timers \in Seq(Seq(StartupNames))
      BY DEF CommandTypes
    <3>. QED BY <3>1, <3>2, AppendType
  <2>. QED BY <1>2, <2>1, <2>2 DEF PressReconnect, Press, CommandTypes
<1>3. CASE PressDisconnect
  <2>1. commands' \in Seq(ActorCommands) /\ Len(commands') <= CommandCapacity
    BY <1>3, CommandRecords, SendTypes, GoneTypes DEF PressDisconnect
  <2>. QED BY <1>3, <2>1 DEF PressDisconnect, Press, CommandTypes
<1>4. CASE PressRefresh
  BY <1>4 DEF PressRefresh, CommandTypes, channelVars, actorVars
<1>5. ASSUME NEW c \in Commands, SendAndRecord(c)
      PROVE  CommandTypes' /\ UNCHANGED <<events, blocked, actorVars>>
  <2>1. typed' = typed + 1 /\ typed' \in Nat
    BY <1>5 DEF SendAndRecord, CommandTypes
  <2>2. Forward(c, typed + 1) \in ActorCommands
    BY <2>1, CommandRecords, ConnectionAssumption
  <2>3. commands' \in Seq(ActorCommands) /\ Len(commands') <= CommandCapacity
    BY <1>5, <2>2, SendTypes, GoneTypes DEF SendAndRecord
  <2>. QED BY <1>5, <2>1, <2>3 DEF SendAndRecord, CommandTypes
<1>6. ASSUME NEW o \in Options
      PROVE  BuildStartupCommands(o) \in Seq(StartupNames) /\ BuildVerbReset(o) \in Seq(StartupNames)
  BY StartupTypes
<1>7. CASE RecordParseError
  BY <1>7 DEF RecordParseError, CommandTypes, channelVars, actorVars
<1>. QED BY <1>1, <1>2, <1>3, <1>4, <1>5, <1>6, <1>7 DEF User

LEMMA TimerKeepsCommands ==
  ASSUME CommandTypes, RefreshNext \/ \E i \in DOMAIN timers : ReconnectReady(i)
  PROVE  CommandTypes' /\ UNCHANGED <<events, blocked, actorVars>>
<1>1. CASE RefreshNext
  <2>1. commands' \in Seq(ActorCommands) /\ Len(commands') <= CommandCapacity
    BY <1>1, CommandRecords, SendTypes, GoneTypes DEF RefreshNext
  <2>. QED BY <1>1, <2>1 DEF RefreshNext, CommandTypes, boundVars
<1>2. ASSUME NEW i \in DOMAIN timers, ReconnectReady(i)
      PROVE  CommandTypes' /\ UNCHANGED <<events, blocked, actorVars>>
  <2>1. timers[i] \in Seq(StartupNames) /\ i \in 1..Len(timers)
    BY DEF CommandTypes
  <2>2. commands' \in Seq(ActorCommands) /\ Len(commands') <= CommandCapacity
    BY <1>2, <2>1, CommandRecords, SendTypes, GoneTypes DEF ReconnectReady
  <2>3. RemoveAt(timers, i) \in Seq(Seq(StartupNames))
    <3>1. SubSeq(timers, 1, i - 1) \in Seq(Seq(StartupNames)) /\ SubSeq(timers, i + 1, Len(timers)) \in Seq(Seq(StartupNames))
      BY <2>1 DEF CommandTypes
    <3>. QED BY <3>1 DEF RemoveAt
  <2>. QED BY <1>2, <2>2, <2>3 DEF ReconnectReady, CommandTypes, boundVars
<1>. QED BY <1>1, <1>2
-----------------------------------------------------------------------------
LEMMA CommandsKept ==
  ASSUME CommandTypes, commands' = commands \/ (commands # <<>> /\ commands' = Tail(commands)),
         UNCHANGED <<timers, typed>>
  PROVE  CommandTypes' /\ (commands # <<>> => Head(commands) \in ActorCommands)
<1>1. commands # <<>> => /\ Tail(commands) \in Seq(ActorCommands) /\ Len(Tail(commands)) = Len(commands) - 1
                         /\ Head(commands) \in ActorCommands
  BY DEF CommandTypes
<1>2. Len(commands) \in Nat /\ CommandCapacity \in Nat
  BY ConnectionAssumption DEF CommandTypes
<1>3. commands' \in Seq(ActorCommands) /\ Len(commands') <= CommandCapacity
  <2>1. CASE commands' = commands
    BY <2>1 DEF CommandTypes
  <2>2. CASE commands # <<>> /\ commands' = Tail(commands)
    BY <1>1, <1>2, <2>2 DEF CommandTypes
  <2>. QED BY <2>1, <2>2
<1>. QED BY <1>1, <1>3 DEF CommandTypes

LEMMA HangUpHolds ==
  ASSUME OrderInv, blocked = <<>>, CommandTypes', NEW reason \in Reasons,
         phase \in Live \cup {"dialing"}, HangUp(reason)
  PROVE  OrderInv'
<1>. DEFINE e == Event("Disconnected", reason, 0)
<1>1. e \in EventRecords /\ e.conn = conn /\ e.what = "Disconnected"
  BY DEF Event, EventRecords, OrderInv, ActorTypes
<1>2. Emit(e) /\ phase' = "idle" /\ todo' = <<>> /\ owed' = <<>> /\ ~sawPrompt' /\ ~late' /\ conn' = conn
  BY DEF HangUp
<1>3. EventTypes'
  BY <1>1, <1>2, EmitAppends DEF OrderInv, EventTypes
<1>4. OneAtATime' /\ EventsTold'
  BY <1>1, <1>2, EmitKeepsOrder DEF OrderInv, Live
<1>5. <<>> \in Seq(StartupNames) /\ <<>> \in Seq(SentCommands) /\ "idle" \in Phases
  BY DEF Phases
<1>6. ActorTypes'
  BY <1>5, Zenon DEF HangUp, OrderInv, ActorTypes
<1>7. StartupOwed'
  BY <1>2 DEF StartupOwed
<1>. QED BY <1>3, <1>4, <1>6, <1>7 DEF OrderInv

\* A message of the server goes to the App; the connection goes on.
LEMMA MessageHolds ==
  ASSUME OrderInv, blocked = <<>>, NEW what \in {"Reply"} \cup AllInterludes, NEW id \in Nat,
         Emit(Event(what, "none", id)), conn' = conn, phase \in Live, phase' \in Live
  PROVE  EventTypes' /\ OneAtATime' /\ EventsTold'
<1>. DEFINE e == Event(what, "none", id)
<1>1. e \in EventRecords /\ e.conn = conn /\ e.what \notin {"Connected", "Disconnected"}
  BY DEF Event, EventRecords, OrderInv, ActorTypes, Reasons, AllInterludes
<1>2. EventTypes'
  BY <1>1, EmitAppends DEF OrderInv, EventTypes
<1>3. OneAtATime' /\ EventsTold'
  BY <1>1, EmitKeepsOrder DEF OrderInv, Live
<1>. QED BY <1>2, <1>3

LEMMA ActorHolds ==
  ASSUME OrderInv, Actor
  PROVE  OrderInv'
<1>0. ActorStep => blocked = <<>> /\ UNCHANGED <<timers, typed>>
  BY DEF ActorStep, appVars
<1>s. ASSUME UNCHANGED <<events, blocked, conn>>,
             phase' = phase \/ {phase, phase'} \subseteq Live \/ phase' = "exited"
      PROVE  EventTypes' /\ OneAtATime' /\ EventsTold'
  BY <1>s, SilenceKeepsOrder DEF OrderInv, EventTypes, OnTheWay
<1>1. CASE Unblock
  <2>1. EventTypes' /\ OneAtATime' /\ EventsTold'
    BY <1>1, UnblockKeepsOrder DEF OrderInv
  <2>2. CommandTypes' /\ ActorTypes' /\ StartupOwed'
    BY <1>1 DEF Unblock, OrderInv, CommandTypes, ActorTypes, StartupOwed, appVars, actorVars, boundVars
  <2>. QED BY <2>1, <2>2 DEF OrderInv
<1>2. CASE TakeIdle
  <2>1. CommandTypes' /\ Head(commands) \in ActorCommands
    BY <1>0, <1>2, CommandsKept DEF TakeIdle, OrderInv
  <2>2. CASE Head(commands).op = "Connect"
    <3>1. phase = "idle" /\ phase' = "dialing" /\ conn' = conn + 1 /\ todo' \in Seq(StartupNames)
      BY <1>2, <2>1, <2>2 DEF TakeIdle, ActorCommands
    <3>2. UNCHANGED <<events, blocked, owed, sawPrompt, late>> /\ OnTheWay' = OnTheWay
      BY <1>2 DEF TakeIdle, OnTheWay
    <3>3. EventTypes' /\ ActorTypes' /\ StartupOwed'
      BY <3>1, <3>2 DEF OrderInv, EventTypes, ActorTypes, StartupOwed, Phases
    <3>4. OneAtATime'
      BY <3>1, <3>2 DEF OrderInv, OneAtATime, Follows
    <3>5. /\ OnTheWay \in Seq(EventRecords) /\ conn \in Nat
          /\ OnTheWay # <<>> => Last(OnTheWay).conn \in 1..conn
      <4>1. OnTheWay \in Seq(EventRecords) /\ conn \in Nat
        BY DEF OrderInv, EventTypes, ActorTypes, OnTheWay
      <4>2. \A i \in DOMAIN OnTheWay : OnTheWay[i].conn \in 1..conn
        BY DEF OrderInv, EventsTold
      <4>3. OnTheWay # <<>> => Len(OnTheWay) \in DOMAIN OnTheWay
        BY <4>1
      <4>. QED BY <4>1, <4>2, <4>3 DEF Last
    <3>6. EventsTold'
      BY <3>1, <3>2, <3>5 DEF OrderInv, EventsTold, Live
    <3>. QED BY <2>1, <3>3, <3>4, <3>6 DEF OrderInv
  <2>3. CASE Head(commands).op # "Connect"
    <3>1. UNCHANGED <<events, blocked, phase, conn, todo, owed, sawPrompt, late>>
      BY <1>2, <2>3 DEF TakeIdle
    <3>2. ActorTypes' /\ StartupOwed'
      BY <3>1 DEF OrderInv, ActorTypes, StartupOwed
    <3>. QED BY <1>s, <2>1, <3>1, <3>2 DEF OrderInv
  <2>. QED BY <2>2, <2>3
<1>3. CASE ActorExits
  <2>1. /\ phase \in {"idle", "running"} /\ phase' = "exited"
        /\ UNCHANGED <<commands, events, blocked, todo, owed, sawPrompt, late, conn, timers, typed>>
    BY <1>0, <1>3 DEF ActorExits, channelVars
  <2>2. CommandTypes' /\ ActorTypes' /\ StartupOwed'
    BY <2>1 DEF OrderInv, CommandTypes, ActorTypes, StartupOwed, Phases
  <2>. QED BY <1>s, <2>1, <2>2 DEF OrderInv
<1>4. CASE DialSucceeds
  <2>. DEFINE e == Event("Connected", "none", 0)
  <2>1. e \in EventRecords /\ e.conn = conn /\ e.what = "Connected"
    BY DEF Event, EventRecords, OrderInv, ActorTypes, Reasons
  <2>2. /\ Emit(e) /\ blocked = <<>> /\ phase = "dialing" /\ phase' = "startup"
        /\ UNCHANGED <<todo, owed, sawPrompt, late, conn, commands, timers, typed>>
    BY <1>0, <1>4 DEF DialSucceeds
  <2>3. EventTypes'
    BY <2>1, <2>2, EmitAppends DEF OrderInv, EventTypes
  <2>4. OneAtATime' /\ EventsTold'
    BY <2>1, <2>2, EmitKeepsOrder DEF OrderInv, Live
  <2>5. CommandTypes' /\ ActorTypes' /\ StartupOwed'
    BY <2>2 DEF OrderInv, CommandTypes, ActorTypes, StartupOwed, Phases
  <2>. QED BY <2>3, <2>4, <2>5 DEF OrderInv
<1>5. CASE SendStartup
  <2>1. /\ phase = "startup" /\ phase' = "waiting" /\ todo # <<>> /\ todo' = Tail(todo)
        /\ owed' = Append(owed, Forward("Startup", 0))
        /\ UNCHANGED <<events, blocked, sawPrompt, late, conn, commands, timers, typed>>
    BY <1>0, <1>5 DEF SendStartup, channelVars
  <2>2. Forward("Startup", 0) \in SentCommands
    BY EmptyType DEF Forward, SentCommands
  <2>3. owed' \in Seq(SentCommands) /\ Len(owed') = Len(owed) + 1 /\ todo' \in Seq(StartupNames)
    BY <2>1, <2>2 DEF OrderInv, ActorTypes
  <2>4. CommandTypes' /\ ActorTypes'
    BY <2>1, <2>3 DEF OrderInv, CommandTypes, ActorTypes, Phases
  <2>5. StartupOwed'
    BY <2>1, <2>3 DEF OrderInv, StartupOwed
  <2>6. EventTypes' /\ OneAtATime' /\ EventsTold'
    BY <1>s, <2>1 DEF Live
  <2>. QED BY <2>4, <2>5, <2>6 DEF OrderInv
<1>6. CASE StartupDone
  <2>1. /\ phase = "startup" /\ phase' = "running"
        /\ UNCHANGED <<events, blocked, todo, owed, sawPrompt, late, conn, commands, timers, typed>>
    BY <1>0, <1>6 DEF StartupDone, channelVars
  <2>2. CommandTypes' /\ ActorTypes' /\ StartupOwed'
    BY <2>1 DEF OrderInv, CommandTypes, ActorTypes, StartupOwed, Phases
  <2>3. EventTypes' /\ OneAtATime' /\ EventsTold'
    BY <1>s, <2>1 DEF Live
  <2>. QED BY <2>2, <2>3 DEF OrderInv
<1>7. CASE StartupTimeout
  <2>1. /\ phase = "waiting" /\ phase' = "startup" /\ late'
        /\ UNCHANGED <<events, blocked, todo, owed, sawPrompt, conn, commands, timers, typed>>
    BY <1>0, <1>7 DEF StartupTimeout, StartupGoesOn, channelVars
  <2>2. CommandTypes' /\ ActorTypes' /\ StartupOwed'
    BY <1>7, <2>1 DEF StartupTimeout, OrderInv, CommandTypes, ActorTypes, StartupOwed, Phases
  <2>3. EventTypes' /\ OneAtATime' /\ EventsTold'
    BY <1>s, <2>1 DEF Live
  <2>. QED BY <2>2, <2>3 DEF OrderInv
<1>8. CASE TakeConnect \/ TakeDisconnect
  <2>1. /\ HangUp("none") /\ blocked = <<>> /\ phase = "running" /\ CommandTypes'
    BY <1>0, <1>8, CommandsKept DEF TakeConnect, TakeDisconnect, OrderInv
  <2>. QED BY <2>1, HangUpHolds DEF Live, Reasons
<1>9. CASE TakeSend
  <2>1. /\ CommandTypes' /\ Head(commands) \in ActorCommands /\ Head(commands).op \in {"Query", "Exit"}
        /\ blocked = <<>> /\ phase = "running"
    BY <1>0, <1>9, CommandsKept DEF TakeSend, OrderInv
  <2>2. CASE HangUp("error")
    BY <2>1, <2>2, HangUpHolds DEF Live, Reasons
  <2>3. CASE /\ owed' = Append(owed, Head(commands))
             /\ UNCHANGED <<phase, todo, sawPrompt, late, conn, events, blocked, interludes, faults>>
    <3>1. Head(commands) \in SentCommands
      BY <2>1 DEF ActorCommands, SentCommands
    <3>2. ActorTypes'
      BY <2>3, <3>1, AppendType DEF OrderInv, ActorTypes
    <3>3. owed \in Seq(SentCommands)
      BY DEF OrderInv, ActorTypes
    <3>4. StartupOwed'
      BY <2>1, <2>3, <3>1, <3>3 DEF OrderInv, StartupOwed
    <3>. QED BY <1>s, <2>1, <2>3, <3>2, <3>4 DEF OrderInv
  <2>. QED BY <1>9, <2>2, <2>3 DEF TakeSend
<1>. QED BY <1>1, <1>2, <1>3, <1>4, <1>5, <1>6, <1>7, <1>8, <1>9 DEF Actor

LEMMA TransportHolds ==
  ASSUME OrderInv, Transport
  PROVE  OrderInv'
<1>0. ActorStep => blocked = <<>> /\ UNCHANGED <<timers, typed>>
  BY DEF ActorStep, appVars
<1>k. ASSUME UNCHANGED <<commands, timers, typed>> PROVE CommandTypes'
  BY <1>k DEF OrderInv, CommandTypes
<1>1. CASE DialFails \/ SendStartupFails \/ ReceiveError
  <2>1. /\ HangUp("error") /\ blocked = <<>> /\ phase \in Live \cup {"dialing"}
        /\ UNCHANGED <<commands, timers, typed>>
    BY <1>0, <1>1 DEF DialFails, SendStartupFails, ReceiveError, Live
  <2>. QED BY <1>k, <2>1, HangUpHolds DEF Reasons
<1>2. CASE ReceiveNone
  <2>1. blocked = <<>> /\ phase \in Live /\ UNCHANGED <<commands, timers, typed>>
    BY <1>0, <1>2 DEF ReceiveNone, Live
  <2>2. \E reason \in Reasons : HangUp(reason)
    BY <1>2 DEF ReceiveNone, Reasons
  <2>. QED BY <1>k, <2>1, <2>2, HangUpHolds
<1>3. CASE ReceiveReply
  <2>1. /\ phase \in {"waiting", "running"} /\ phase' \in Live /\ blocked = <<>> /\ owed # <<>>
        /\ phase = "waiting" => phase' = "startup"
        /\ phase = "running" => phase' = "running"
        /\ owed' = Tail(owed)
        /\ UNCHANGED <<todo, sawPrompt, late, conn, commands, timers, typed>>
    BY <1>0, <1>3 DEF ReceiveReply, StartupGoesOn, Live
  <2>a. owed \in Seq(SentCommands) /\ owed # <<>>
    BY <2>1 DEF OrderInv, ActorTypes
  <2>b. \A c \in SentCommands : c.id \in Nat
    BY DEF SentCommands
  <2>2. /\ Head(owed) \in SentCommands /\ Head(owed).id \in Nat
        /\ Tail(owed) \in Seq(SentCommands) /\ Len(Tail(owed)) = Len(owed) - 1
        /\ \A i \in DOMAIN Tail(owed) : Tail(owed)[i] = owed[i + 1] /\ i + 1 \in DOMAIN owed
    BY <2>a, <2>b
  <2>c. CommandTypes'
    BY <1>k, <2>1
  <2>3. EventTypes' /\ OneAtATime' /\ EventsTold'
    <3>1. Emit(Event("Reply", "none", Head(owed).id)) /\ phase \in Live
      BY <1>3 DEF ReceiveReply, Live
    <3>. QED BY <2>1, <2>2, <3>1, MessageHolds
  <2>4. ActorTypes'
    BY <2>1, <2>2 DEF OrderInv, ActorTypes, Phases
  <2>5. StartupOwed'
    BY <2>1, <2>2 DEF OrderInv, StartupOwed
  <2>. QED BY <2>c, <2>3, <2>4, <2>5 DEF OrderInv
<1>4. ASSUME NEW m \in Interludes, ReceiveInterlude(m) PROVE OrderInv'
  <2>1. /\ phase \in {"waiting", "running"} /\ phase' \in Live /\ blocked = <<>> /\ m \in AllInterludes
        /\ phase' = phase \/ (phase = "waiting" /\ phase' = "startup" /\ m = "Unrecognized")
        /\ phase = "waiting" /\ m = "Unrecognized" => late'
        /\ late => late'
        /\ UNCHANGED <<todo, owed, conn, commands, timers, typed>>
    <3>1. /\ phase \in {"waiting", "running"} /\ blocked = <<>> /\ m \in AllInterludes
          /\ UNCHANGED <<todo, owed, conn, commands, timers, typed>>
      BY <1>0, <1>4, ConnectionAssumption DEF ReceiveInterlude
    <3>2. late' = (late \/ (phase = "waiting" /\ m = "Unrecognized"))
      BY <1>4 DEF ReceiveInterlude
    <3>5. (phase = "waiting" /\ m = "Unrecognized" => late') /\ (late => late')
      BY <3>2, Zenon
    <3>3. phase' = phase \/ (phase = "waiting" /\ phase' = "startup" /\ m = "Unrecognized")
      <4>1. CASE IsAsync(m)
        BY <1>4, <4>1, Zenon DEF ReceiveInterlude
      <4>2. CASE ~IsAsync(m)
        <5>1. m = "Unrecognized"
          BY <3>1, <4>2 DEF IsAsync, AllInterludes
        <5>2. phase' = IF phase = "waiting" THEN "startup" ELSE phase
          BY <1>4, <4>2 DEF ReceiveInterlude, StartupGoesOn
        <5>. QED BY <5>1, <5>2, Zenon
      <4>. QED BY <4>1, <4>2
    <3>4. phase' \in Live
      BY <3>1, <3>3 DEF Live
    <3>. QED BY <3>1, <3>3, <3>4, <3>5, Zenon
  <2>2. EventTypes' /\ OneAtATime' /\ EventsTold'
    <3>1. Emit(Event(m, "none", 0)) /\ phase \in Live
      BY <1>4 DEF ReceiveInterlude, Live
    <3>. QED BY <2>1, <3>1, MessageHolds
  <2>3. sawPrompt' \in BOOLEAN /\ late' \in BOOLEAN
    BY <1>4 DEF ReceiveInterlude
  <2>4. ActorTypes'
    BY <2>1, <2>3 DEF OrderInv, ActorTypes, Phases
  <2>5. StartupOwed'
    BY <2>1 DEF OrderInv, StartupOwed
  <2>. QED BY <1>k, <2>1, <2>2, <2>4, <2>5 DEF OrderInv
<1>. QED BY <1>1, <1>2, <1>3, <1>4 DEF Transport

LEMMA AppHolds ==
  ASSUME OrderInv, User \/ App \/ UNCHANGED vars
  PROVE  OrderInv'
<1>s. ASSUME UNCHANGED <<events, blocked, actorVars>>
      PROVE  EventTypes' /\ OneAtATime' /\ EventsTold' /\ ActorTypes' /\ StartupOwed'
  <2>1. OneAtATime' /\ EventsTold'
    BY <1>s, SilenceKeepsOrder DEF OrderInv, OnTheWay, actorVars
  <2>2. EventTypes' /\ ActorTypes' /\ StartupOwed'
    BY <1>s DEF OrderInv, EventTypes, ActorTypes, StartupOwed, actorVars
  <2>. QED BY <2>1, <2>2
<1>1. CASE User
  BY <1>1, <1>s, UserKeepsCommands DEF OrderInv
<1>2. CASE RefreshNext \/ \E i \in DOMAIN timers : ReconnectReady(i)
  BY <1>2, <1>s, TimerKeepsCommands DEF OrderInv
<1>3. CASE HandleEvent
  <2>1. /\ events # <<>> /\ events' = Tail(events)
        /\ UNCHANGED <<commands, timers, typed, blocked, phase, todo, owed, sawPrompt, late, conn>>
    BY <1>3 DEF HandleEvent, actorVars, boundVars
  <2>2. EventTypes' /\ OneAtATime' /\ EventsTold'
    BY <2>1, TakingKeepsOrder DEF OrderInv
  <2>3. CommandTypes' /\ ActorTypes' /\ StartupOwed'
    BY <2>1 DEF OrderInv, CommandTypes, ActorTypes, StartupOwed
  <2>. QED BY <2>2, <2>3 DEF OrderInv
<1>4. CASE UNCHANGED vars
  <2>1. UNCHANGED <<events, blocked, actorVars, commands, timers, typed>>
    BY <1>4 DEF vars, appVars, channelVars, boundVars
  <2>2. CommandTypes'
    BY <2>1 DEF OrderInv, CommandTypes
  <2>. QED BY <1>s, <2>1, <2>2 DEF OrderInv
<1>. QED BY <1>1, <1>2, <1>3, <1>4 DEF App
-----------------------------------------------------------------------------
LEMMA OrderInvariant == Spec => []OrderInv
<1>1. Init => OrderInv
  BY InitHolds
<1>2. OrderInv /\ [Next]_vars => OrderInv'
  BY ActorHolds, TransportHolds, AppHolds DEF Next
<1>. QED BY <1>1, <1>2, PTL DEF Spec

(***************************************************************************)
(* The events of the actor tell of whole connections, one after the other, *)
(* whatever the capacity of its channels: run_connection sends Connected,  *)
(* messages and one Disconnected on every path.  (actor.rs)                *)
(***************************************************************************)
THEOREM ConnectionsOneAtATime == Spec => []OneAtATime
<1>1. OrderInv => OneAtATime
  BY DEF OrderInv
<1>. QED BY <1>1, OrderInvariant, PTL

(***************************************************************************)
(* As long as no wait has gone on without its answer, a startup command is *)
(* sent only when the one before it has been answered, and other commands  *)
(* only after all of them.  (run_startup in actor.rs)                      *)
(***************************************************************************)
THEOREM StartupAnsweredInOrder == Spec => []StartupInOrder
<1>1. OrderInv => StartupInOrder
  <2>1. OrderInv => phase \in Phases /\ owed \in Seq(SentCommands)
    BY DEF OrderInv, ActorTypes
  <2>. QED BY <2>1 DEF OrderInv, StartupOwed, StartupInOrder, Phases
<1>. QED BY <1>1, OrderInvariant, PTL
-----------------------------------------------------------------------------
(***************************************************************************)
(* What a step of the actor or of its transport does, as far as the App    *)
(* can tell: the moves the remaining proofs go through.                    *)
(***************************************************************************)
Tells(e) == e \in EventRecords /\ e.conn = conn /\ OnTheWay' = Append(OnTheWay, e)
Silent   == OnTheWay' = OnTheWay
Takes    == commands # <<>> /\ commands' = Tail(commands)
FaultGrows == faults' = faults + 1

\* The connection goes on, or there is none.
StaysMove ==
  /\ Silent /\ UNCHANGED <<commands, owed, conn, faults>>
  /\ phase' = phase \/ ({phase, phase'} \subseteq Live /\ phase # "running")

StartupMove ==
  /\ Silent /\ UNCHANGED <<commands, conn, faults>>
  /\ phase = "startup" /\ phase' = "waiting" /\ owed' = Append(owed, Forward("Startup", 0))

ExitMove ==
  /\ Silent /\ UNCHANGED <<commands, owed, conn, faults>>
  /\ phase \in {"idle", "running"} /\ phase' = "exited" /\ commands = <<>> /\ ~actorTx

IgnoreMove ==
  /\ Silent /\ UNCHANGED <<phase, owed, conn, faults>>
  /\ Takes /\ phase = "idle" /\ Head(commands).op # "Connect"

DialMove ==
  /\ Silent /\ UNCHANGED <<owed, faults>>
  /\ Takes /\ phase = "idle" /\ Head(commands).op = "Connect"
  /\ phase' = "dialing" /\ conn' = conn + 1

ConnectedMove ==
  /\ UNCHANGED <<commands, owed, conn, faults>>
  /\ phase = "dialing" /\ phase' = "startup"
  /\ \E e : Tells(e) /\ e.what = "Connected"

MessageMove ==
  /\ UNCHANGED <<commands, conn, faults>>
  /\ phase \in Live /\ phase' \in Live /\ (phase = "running" => phase' = "running")
  /\ \E e : /\ Tells(e) /\ IsMessage(e)
            /\ IF e.what = "Reply"
               THEN /\ owed # <<>> /\ e.id = Head(owed).id /\ owed' = Tail(owed)
               ELSE UNCHANGED owed

SendMove ==
  /\ Silent /\ UNCHANGED <<phase, conn, faults>>
  /\ Takes /\ phase = "running" /\ Head(commands).op \in {"Query", "Exit"}
  /\ owed' = Append(owed, Head(commands))

\* The connection ends: by a fault, by an exit, or by a command.
EndMove ==
  /\ phase \in Live \cup {"dialing"} /\ phase' = "idle" /\ owed' = <<>> /\ UNCHANGED conn
  /\ \E e : Tells(e) /\ e.what = "Disconnected"
  /\ \/ FaultGrows /\ (UNCHANGED commands \/ (Takes /\ phase = "running"))
     \/ /\ UNCHANGED <<commands, faults>>
        /\ phase \in Live /\ owed # <<>> /\ Head(owed).op = "Exit"
     \/ /\ Takes /\ UNCHANGED faults
        /\ phase = "running" /\ Head(commands).op \in {"Connect", "Disconnect"}

ActorMove ==
  \/ StaysMove \/ StartupMove \/ ExitMove \/ IgnoreMove \/ DialMove
  \/ ConnectedMove \/ MessageMove \/ SendMove \/ EndMove

\* An event that is emitted is told.
LEMMA EmitTells ==
  ASSUME OrderInv, blocked = <<>>, NEW what \in {"Connected", "Disconnected", "Reply"} \cup AllInterludes,
         NEW reason \in Reasons, NEW id \in Nat, Emit(Event(what, reason, id))
  PROVE  /\ Tells(Event(what, reason, id))
         /\ Event(what, reason, id).what = what /\ Event(what, reason, id).id = id
<1>. DEFINE e == Event(what, reason, id)
<1>1. e \in EventRecords /\ e.conn = conn /\ e.what = what /\ e.id = id
  BY DEF Event, EventRecords, OrderInv, ActorTypes
<1>2. OnTheWay' = Append(OnTheWay, e)
  BY <1>1, EmitAppends DEF OrderInv
<1>. QED BY <1>1, <1>2 DEF Tells

LEMMA HangUpTells ==
  ASSUME OrderInv, blocked = <<>>, NEW reason \in Reasons, HangUp(reason)
  PROVE  /\ \E e : Tells(e) /\ e.what = "Disconnected"
         /\ phase' = "idle" /\ owed' = <<>> /\ UNCHANGED conn
<1>1. Emit(Event("Disconnected", reason, 0))
  BY DEF HangUp
<1>2. Tells(Event("Disconnected", reason, 0)) /\ Event("Disconnected", reason, 0).what = "Disconnected"
  BY <1>1, EmitTells
<1>. QED BY <1>2 DEF HangUp

LEMMA ActorMoves ==
  ASSUME OrderInv, Actor
  PROVE  ActorMove /\ UNCHANGED <<appVars, wishVars, typed, presses>>
<1>0. ActorStep => blocked = <<>> /\ UNCHANGED <<appVars, wishVars, typed, presses>>
  BY DEF ActorStep
<1>1. CASE Unblock
  <2>1. OnTheWay' = OnTheWay
    BY <1>1, UnblockKeepsOrder DEF OrderInv
  <2>2. StaysMove
    BY <1>1, <2>1 DEF Unblock, StaysMove, Silent, actorVars, boundVars
  <2>. QED BY <1>1, <2>2 DEF Unblock, ActorMove, boundVars
<1>2. CASE TakeIdle
  <2>1. CASE Head(commands).op = "Connect"
    <3>1. DialMove
      BY <1>2, <2>1 DEF TakeIdle, DialMove, Silent, Takes, OnTheWay
    <3>. QED BY <1>0, <1>2, <3>1 DEF TakeIdle, ActorMove
  <2>2. CASE Head(commands).op # "Connect"
    <3>1. IgnoreMove
      BY <1>2, <2>2 DEF TakeIdle, IgnoreMove, Silent, Takes, OnTheWay
    <3>. QED BY <1>0, <1>2, <3>1 DEF TakeIdle, ActorMove
  <2>. QED BY <2>1, <2>2
<1>3. CASE ActorExits
  <2>1. ExitMove
    BY <1>3 DEF ActorExits, ExitMove, Silent, OnTheWay, channelVars
  <2>. QED BY <1>0, <1>3, <2>1 DEF ActorExits, ActorMove
<1>4. CASE DialSucceeds
  <2>1. blocked = <<>> /\ Emit(Event("Connected", "none", 0))
    BY <1>0, <1>4 DEF DialSucceeds
  <2>2. Tells(Event("Connected", "none", 0)) /\ Event("Connected", "none", 0).what = "Connected"
    BY <2>1, EmitTells DEF Reasons
  <2>3. ConnectedMove
    BY <1>4, <2>2 DEF DialSucceeds, ConnectedMove
  <2>. QED BY <1>0, <1>4, <2>3 DEF DialSucceeds, ActorMove
<1>5. CASE SendStartup
  <2>1. StartupMove
    BY <1>5 DEF SendStartup, StartupMove, Silent, OnTheWay, channelVars
  <2>. QED BY <1>0, <1>5, <2>1 DEF SendStartup, ActorMove
<1>6. CASE StartupDone \/ StartupTimeout
  <2>1. StaysMove
    BY <1>6 DEF StartupDone, StartupTimeout, StartupGoesOn, StaysMove, Silent, OnTheWay, channelVars, Live
  <2>. QED BY <1>0, <1>6, <2>1 DEF StartupDone, StartupTimeout, ActorMove
<1>7. CASE TakeConnect \/ TakeDisconnect
  <2>1. HangUp("none") /\ blocked = <<>> /\ UNCHANGED <<appVars, wishVars, typed, presses>>
    BY <1>0, <1>7 DEF TakeConnect, TakeDisconnect
  <2>2. EndMove
    BY <1>7, <2>1, HangUpTells DEF TakeConnect, TakeDisconnect, EndMove, Takes, Live, Reasons
  <2>. QED BY <2>1, <2>2 DEF ActorMove
<1>8. CASE TakeSend
  <2>1. blocked = <<>> /\ UNCHANGED <<appVars, wishVars, typed, presses>>
    BY <1>0, <1>8 DEF TakeSend
  <2>2. CASE Fault /\ HangUp("error")
    <3>1. EndMove
      BY <1>8, <2>1, <2>2, HangUpTells DEF TakeSend, EndMove, Fault, FaultGrows, Takes, Live, Reasons
    <3>. QED BY <2>1, <3>1 DEF ActorMove
  <2>3. CASE /\ owed' = Append(owed, Head(commands))
             /\ UNCHANGED <<phase, todo, sawPrompt, late, conn, events, blocked, interludes, faults>>
    <3>1. SendMove
      BY <1>8, <2>3 DEF TakeSend, SendMove, Silent, Takes, OnTheWay
    <3>. QED BY <2>1, <3>1 DEF ActorMove
  <2>. QED BY <1>8, <2>2, <2>3 DEF TakeSend
<1>. QED BY <1>1, <1>2, <1>3, <1>4, <1>5, <1>6, <1>7, <1>8 DEF Actor

LEMMA TransportMoves ==
  ASSUME OrderInv, Transport
  PROVE  ActorMove /\ UNCHANGED <<appVars, wishVars, typed, presses>>
<1>0. ActorStep => blocked = <<>> /\ UNCHANGED <<appVars, wishVars, typed, presses>>
  BY DEF ActorStep
<1>1. CASE DialFails \/ SendStartupFails \/ ReceiveError
  <2>1. /\ HangUp("error") /\ blocked = <<>> /\ Fault /\ UNCHANGED commands
        /\ phase \in Live \cup {"dialing"} /\ UNCHANGED <<appVars, wishVars, typed, presses>>
    BY <1>0, <1>1 DEF DialFails, SendStartupFails, ReceiveError, Live
  <2>2. EndMove
    BY <2>1, HangUpTells DEF EndMove, Fault, FaultGrows, Reasons
  <2>. QED BY <2>1, <2>2 DEF ActorMove
<1>2. CASE ReceiveNone
  <2>1. /\ \E reason \in Reasons : HangUp(reason)
        /\ blocked = <<>> /\ ServerCloses /\ UNCHANGED commands
        /\ phase \in Live /\ UNCHANGED <<appVars, wishVars, typed, presses>>
    BY <1>0, <1>2 DEF ReceiveNone, Live, Reasons
  <2>2. EndMove
    BY <2>1, HangUpTells DEF EndMove, ServerCloses, Fault, FaultGrows
  <2>. QED BY <2>1, <2>2 DEF ActorMove
<1>3. CASE ReceiveReply
  <2>1. /\ Emit(Event("Reply", "none", Head(owed).id)) /\ {phase, phase'} \subseteq Live /\ owed # <<>>
        /\ blocked = <<>> /\ UNCHANGED <<appVars, wishVars, typed, presses, commands, conn, faults>>
        /\ owed' = Tail(owed) /\ (phase = "running" => phase' = "running")
    BY <1>0, <1>3 DEF ReceiveReply, StartupGoesOn, Live
  <2>2. owed \in Seq(SentCommands) /\ \A c \in SentCommands : c.id \in Nat
    BY DEF OrderInv, ActorTypes, SentCommands
  <2>3. Head(owed).id \in Nat
    BY <2>1, <2>2
  <2>. DEFINE e == Event("Reply", "none", Head(owed).id)
  <2>4. Tells(e) /\ e.what = "Reply" /\ e.id = Head(owed).id
    BY <2>1, <2>3, EmitTells DEF Reasons
  <2>5. MessageMove
    BY <2>1, <2>4, Zenon DEF MessageMove, IsMessage
  <2>. QED BY <2>1, <2>5 DEF ActorMove
<1>4. ASSUME NEW m \in Interludes, ReceiveInterlude(m)
      PROVE  ActorMove /\ UNCHANGED <<appVars, wishVars, typed, presses>>
  <2>1. /\ Emit(Event(m, "none", 0)) /\ phase \in {"waiting", "running"} /\ m \in AllInterludes
        /\ blocked = <<>> /\ UNCHANGED <<appVars, wishVars, typed, presses, commands, conn, owed, faults>>
    BY <1>0, <1>4, ConnectionAssumption DEF ReceiveInterlude
  <2>2. IF IsAsync(m) THEN UNCHANGED phase ELSE phase' = IF phase = "waiting" THEN "startup" ELSE phase
    BY <1>4 DEF ReceiveInterlude, StartupGoesOn
  <2>3. phase' \in Live /\ phase \in Live /\ (phase = "running" => phase' = "running")
    BY <2>1, <2>2 DEF Live
  <2>. DEFINE e == Event(m, "none", 0)
  <2>4. Tells(e) /\ e.what = m /\ m \notin {"Connected", "Disconnected", "Reply"}
    BY <2>1, EmitTells DEF Reasons, AllInterludes
  <2>5. MessageMove
    BY <2>1, <2>3, <2>4 DEF MessageMove, IsMessage
  <2>. QED BY <2>1, <2>5 DEF ActorMove
<1>. QED BY <1>1, <1>2, <1>3, <1>4 DEF Transport
-----------------------------------------------------------------------------
(***************************************************************************)
(* Types of what the App shows.                                            *)
(***************************************************************************)
\* The last n elements are a sequence of at most n that ends the same way.
LEMMA LastOfFacts ==
  ASSUME NEW S, NEW s \in Seq(S), s # <<>>, NEW n \in Nat \ {0}
  PROVE  /\ LastOf(s, n) \in Seq(S) /\ Len(LastOf(s, n)) <= n /\ LastOf(s, n) # <<>>
         /\ Last(LastOf(s, n)) = Last(s)
         /\ \A i \in DOMAIN LastOf(s, n) : \E k \in DOMAIN s : LastOf(s, n)[i] = s[k]
<1>. DEFINE m == IF Len(s) > n THEN Len(s) - n + 1 ELSE 1
            t == SubSeq(s, m, Len(s))
<1>1. m \in 1..Len(s) /\ Len(s) \in Nat \ {0} /\ Len(s) - m + 1 <= n /\ Len(s) - m + 1 \in Nat \ {0}
  OBVIOUS
<1>. HIDE DEF m
<1>2. t \in Seq(S) /\ Len(t) = Len(s) - m + 1
  BY <1>1
<1>3. \A i \in 1..Len(t) : t[i] = s[m + i - 1] /\ m + i - 1 \in 1..Len(s)
  BY <1>1, <1>2
<1>t. Len(t) \in Nat \ {0} /\ Len(t) <= n
  BY <1>1, <1>2, Zenon
<1>4. t # <<>> /\ Len(t) <= n /\ Len(t) \in 1..Len(t) /\ m + Len(t) - 1 = Len(s)
  <2>1. t # <<>>
    BY <1>2, <1>t
  <2>2. m \in Int /\ Len(s) \in Int
    BY <1>1
  <2>3. m + Len(t) - 1 = Len(s)
    BY <1>2, <2>2
  <2>4. \A k \in Nat \ {0} : k \in 1..k
    OBVIOUS
  <2>. QED BY <1>t, <2>1, <2>3, <2>4, Zenon
<1>5. Last(t) = Last(s)
  BY <1>3, <1>4 DEF Last
<1>6. DOMAIN t = 1..Len(t) /\ DOMAIN s = 1..Len(s)
  BY <1>2
<1>7. LastOf(s, n) = t
  BY DEF LastOf, m
<1>. QED BY <1>2, <1>3, <1>4, <1>5, <1>6, <1>7

\* A command is recorded: the entry is the last of at most HistoryLimit.
LEMMA RecordTypes ==
  ASSUME TypeOK, NEW c, SendAndRecord(c)
  PROVE  /\ history' \in Seq(Entries) /\ Len(history') <= HistoryLimit /\ history' # <<>>
         /\ Last(history') = Entry(typed + 1)
         /\ \A i \in DOMAIN history' : \/ history'[i] = Entry(typed + 1)
                                       \/ \E k \in DOMAIN history : history'[i] = history[k]
<1>. DEFINE s == Append(history, Entry(typed + 1))
<1>1. Entry(typed + 1) \in Entries
  <2>1. typed + 1 \in Nat
    BY ConnectionAssumption DEF TypeOK
  <2>2. <<>> \in Seq(Nat) /\ AtRest \in BOOLEAN
    BY DEF AtRest
  <2>. QED BY <2>1, <2>2 DEF Entry, Entries
<1>2. history \in Seq(Entries)
  BY DEF TypeOK, Entries
<1>3. /\ s \in Seq(Entries) /\ s # <<>> /\ Last(s) = Entry(typed + 1)
      /\ \A k \in DOMAIN s : s[k] = Entry(typed + 1) \/ (k \in DOMAIN history /\ s[k] = history[k])
  BY <1>1, <1>2 DEF Last
<1>4. history' = LastOf(s, HistoryLimit) /\ HistoryLimit \in Nat \ {0}
  BY ConnectionAssumption DEF SendAndRecord
<1>. HIDE DEF s
<1>5. /\ LastOf(s, HistoryLimit) \in Seq(Entries) /\ Len(LastOf(s, HistoryLimit)) <= HistoryLimit
      /\ LastOf(s, HistoryLimit) # <<>> /\ Last(LastOf(s, HistoryLimit)) = Last(s)
      /\ \A i \in DOMAIN LastOf(s, HistoryLimit) : \E k \in DOMAIN s : LastOf(s, HistoryLimit)[i] = s[k]
  BY <1>3, <1>4, LastOfFacts, ZenonT(30)
<1>6. \A i \in DOMAIN history' : \E k \in DOMAIN s : history'[i] = s[k]
  BY <1>4, <1>5
<1>. QED BY <1>3, <1>4, <1>5, <1>6

\* The entries within the limit: only a line that does not parse exceeds it.
WithinLimit == \A i \in DOMAIN history : history[i].parsed => i <= HistoryLimit

\* A line that does not parse: its entry comes last, the others stay.
LEMMA ParseErrorTypes ==
  ASSUME TypeOK, RecordParseError
  PROVE  /\ history' \in Seq(Entries) /\ WithinLimit'
         /\ history' # <<>> /\ ~Last(history').alone
         /\ \A i \in DOMAIN history' : history'[i].alone => i \in DOMAIN history /\ history'[i] = history[i]
<1>. DEFINE e == [id |-> typed + 1, responses |-> <<typed + 1>>, alone |-> FALSE, parsed |-> FALSE]
<1>1. e \in Entries /\ ~e.alone /\ ~e.parsed
  <2>1. typed + 1 \in Nat
    BY ConnectionAssumption DEF TypeOK
  <2>2. <<typed + 1>> \in Seq(Nat)
    BY <2>1
  <2>. QED BY <2>1, <2>2 DEF Entries
<1>2. history \in Seq(Entries) /\ history' = Append(history, e)
  BY DEF TypeOK, Entries, RecordParseError
<1>3. WithinLimit
  BY DEF TypeOK, WithinLimit
<1>. HIDE DEF e
<1>4. /\ history' \in Seq(Entries) /\ Len(history') = Len(history) + 1 /\ Len(history) \in Nat
      /\ DOMAIN history = 1..Len(history) /\ DOMAIN history' = 1..Len(history) + 1
      /\ history'[Len(history) + 1] = e
      /\ \A i \in DOMAIN history : history'[i] = history[i]
  BY <1>1, <1>2
<1>5. Last(history') = e /\ history' # <<>>
  BY <1>4 DEF Last
<1>6. \A i \in DOMAIN history' : history'[i] = e \/ (i \in DOMAIN history /\ history'[i] = history[i])
  BY <1>4
<1>7. WithinLimit'
  BY <1>1, <1>3, <1>6 DEF WithinLimit
<1>. QED BY <1>1, <1>4, <1>5, <1>6, <1>7

\* A response: the last entry takes it, the others stay.
LEMMA ResponseTypes ==
  ASSUME TypeOK, NEW id \in Nat, AppendResponse(id)
  PROVE  history' \in Seq(Entries) /\ WithinLimit'
<1>0. WithinLimit
  BY DEF TypeOK, WithinLimit
<1>1. history \in Seq(Entries)
  BY DEF TypeOK, Entries
<1>2. CASE awaiting /\ history # <<>>
  <2>1. /\ Len(history) \in DOMAIN history /\ history[Len(history)] \in Entries
    BY <1>1, <1>2
  <2>2. Append(history[Len(history)].responses, id) \in Seq(Nat)
    BY <2>1 DEF Entries
  <2>3. [history[Len(history)] EXCEPT !.responses = Append(history[Len(history)].responses, id)] \in Entries
    BY <2>1, <2>2 DEF Entries
  <2>4. history' = [history EXCEPT ![Len(history)] =
                      [history[Len(history)] EXCEPT !.responses = Append(history[Len(history)].responses, id)]]
    BY <1>2 DEF AppendResponse
  <2>5. history' \in Seq(Entries) /\ DOMAIN history' = DOMAIN history
    BY <1>1, <2>1, <2>3, <2>4
  <2>6. \A i \in DOMAIN history : history'[i].parsed = history[i].parsed
    BY <1>1, <2>1, <2>4 DEF Entries
  <2>. QED BY <1>0, <2>5, <2>6 DEF WithinLimit
<1>3. CASE ~(awaiting /\ history # <<>>)
  BY <1>0, <1>1, <1>3 DEF AppendResponse, WithinLimit
<1>. QED BY <1>2, <1>3

\* The types that OrderInv leaves out.
AppTypes ==
  /\ appState \in AppStates /\ lastError \in Reasons /\ actorTx \in BOOLEAN
  /\ history \in Seq(Entries) /\ WithinLimit
  /\ awaiting \in BOOLEAN /\ shown \subseteq 1..conn /\ refresh \in 0..RefreshCommands
  /\ session \in 0..conn
  /\ typed \in 0..MaxTyped /\ presses \in 0..MaxPresses
  /\ wish \in {"on", "off", "any"} /\ fresh \in BOOLEAN

BoundTypes == interludes \in 0..MaxInterludes /\ faults \in 0..MaxFaults

LEMMA TypeParts == OrderInv => (TypeOK <=> AppTypes /\ BoundTypes)
BY DEF OrderInv, CommandTypes, EventTypes, ActorTypes, TypeOK, AppTypes, BoundTypes, Entries, WithinLimit

LEMMA TypePartsAfter == OrderInv' => (TypeOK' <=> AppTypes' /\ BoundTypes')
BY DEF OrderInv, CommandTypes, EventTypes, ActorTypes, TypeOK, AppTypes, BoundTypes, Entries, WithinLimit

LEMMA ActorTypeStep ==
  ASSUME OrderInv, TypeOK, Actor \/ Transport
  PROVE  AppTypes' /\ BoundTypes'
<1>1. ActorMove /\ UNCHANGED <<appVars, wishVars, typed, presses>>
  BY ActorMoves, TransportMoves
<1>2. conn \in Nat /\ (conn' = conn \/ conn' = conn + 1)
  BY <1>1 DEF ActorMove, StaysMove, StartupMove, ExitMove, IgnoreMove, DialMove, ConnectedMove,
              MessageMove, SendMove, EndMove, TypeOK
<1>3. AppTypes'
  <2>1. AppTypes
    BY TypeParts
  <2>2. 1..conn \subseteq 1..conn' /\ 0..conn \subseteq 0..conn'
    BY <1>2
  <2>3. shown' \subseteq 1..conn' /\ session' \in 0..conn'
    BY <1>1, <2>1, <2>2 DEF AppTypes, appVars, wishVars
  <2>. QED BY <1>1, <2>1, <2>3 DEF AppTypes, appVars, wishVars, WithinLimit
<1>4. BoundTypes'
  <2>1. ServerCloses => (Fault \/ UNCHANGED <<interludes, faults>>)
    BY DEF ServerCloses
  <2>2. Fault \/ UNCHANGED <<interludes, faults>> \/ \E m \in Interludes : ReceiveInterlude(m)
    BY <2>1 DEF Actor, Unblock, TakeIdle, ActorExits, DialSucceeds, SendStartup, StartupDone, StartupTimeout,
           TakeConnect, TakeDisconnect, TakeSend, Transport, DialFails, SendStartupFails, ReceiveReply,
           ReceiveError, ReceiveNone, boundVars
  <2>3. Fault => BoundTypes'
    BY ConnectionAssumption DEF Fault, TypeOK, BoundTypes
  <2>4. ASSUME NEW m \in Interludes, ReceiveInterlude(m) PROVE BoundTypes'
    BY <2>4, ConnectionAssumption DEF ReceiveInterlude, TypeOK, BoundTypes
  <2>. QED BY <2>2, <2>3, <2>4 DEF TypeOK, BoundTypes
<1>. QED BY <1>3, <1>4

LEMMA UserTypeStep ==
  ASSUME OrderInv, TypeOK, User
  PROVE  AppTypes' /\ BoundTypes'
<1>0. AppTypes /\ BoundTypes /\ UNCHANGED conn
  BY TypeParts, UserKeepsCommands DEF OrderInv, actorVars
<1>1. /\ <<>> \in Seq(Entries) /\ (history' = <<>> => WithinLimit')
      /\ {"none", "gone"} \subseteq Reasons /\ {"Disconnected", "Connecting"} \subseteq AppStates
      /\ Settled \in BOOLEAN
  BY DEF Reasons, AppStates, Settled, WithinLimit
<1>2. Press => presses' \in 0..MaxPresses /\ UNCHANGED <<typed, refresh, session>> /\ BoundTypes'
  BY <1>0, ConnectionAssumption DEF Press, AppTypes, BoundTypes
<1>3. OnActorGone => appState' \in AppStates /\ lastError' \in Reasons /\ actorTx' \in BOOLEAN
  BY <1>1 DEF OnActorGone
<1>4. \A c : SendActor(c) => UNCHANGED actorTx
  BY DEF SendActor
<1>5. ResetSessionData => history' = <<>> /\ awaiting' = FALSE /\ shown' = {}
  BY DEF ResetSessionData
<1>6. ASSUME NEW o \in Options, PressConnect(o) PROVE AppTypes' /\ BoundTypes'
  <2>1. /\ appState' \in AppStates /\ lastError' \in Reasons /\ actorTx' \in BOOLEAN
    BY <1>0, <1>1, <1>3, <1>4, <1>6 DEF PressConnect, AppTypes
  <2>2. wish' \in {"on", "off", "any"} /\ fresh' \in BOOLEAN
    BY <1>1, <1>6 DEF PressConnect
  <2>. QED BY <1>0, <1>1, <1>2, <1>5, <1>6, <2>1, <2>2 DEF PressConnect, AppTypes
<1>7. ASSUME NEW startup, PressReconnect(startup) PROVE AppTypes' /\ BoundTypes'
  <2>1. /\ appState' \in AppStates /\ lastError' \in Reasons /\ actorTx' \in BOOLEAN
    BY <1>0, <1>1, <1>3, <1>4, <1>7 DEF PressReconnect, AppTypes
  <2>2. wish' \in {"on", "off", "any"} /\ fresh' \in BOOLEAN
    BY <1>1, <1>7 DEF PressReconnect
  <2>3. history' \in Seq(Entries) /\ WithinLimit' /\ awaiting' \in BOOLEAN /\ shown' \subseteq 1..conn
    BY <1>0, <1>1, <1>5, <1>7 DEF PressReconnect, AppTypes, WithinLimit
  <2>. QED BY <1>0, <1>2, <1>7, <2>1, <2>2, <2>3 DEF PressReconnect, AppTypes
<1>8. CASE PressDisconnect
  <2>1. /\ appState' \in AppStates /\ lastError' \in Reasons /\ actorTx' \in BOOLEAN
    BY <1>0, <1>1, <1>3, <1>4, <1>8 DEF PressDisconnect, AppTypes
  <2>2. wish' \in {"on", "off", "any"}
    BY <1>1, <1>8 DEF PressDisconnect
  <2>. QED BY <1>0, <1>2, <1>8, <2>1, <2>2 DEF PressDisconnect, AppTypes, WithinLimit
<1>9. CASE PressRefresh
  BY <1>0, <1>9, ConnectionAssumption DEF PressRefresh, AppTypes, BoundTypes, wishVars, WithinLimit
<1>10. ASSUME NEW c \in Commands, SendAndRecord(c) PROVE AppTypes' /\ BoundTypes'
  <2>1. /\ appState' \in AppStates /\ lastError' \in Reasons /\ actorTx' \in BOOLEAN
    BY <1>0, <1>3, <1>4, <1>10 DEF SendAndRecord, AppTypes
  <2>2. history' \in Seq(Entries) /\ WithinLimit'
    <3>1. /\ history' \in Seq(Entries) /\ Len(history') <= HistoryLimit /\ Len(history') \in Nat
          /\ DOMAIN history' = 1..Len(history')
      BY <1>10, RecordTypes
    <3>. QED BY <3>1, ConnectionAssumption DEF WithinLimit
  <2>3. wish' \in {"on", "off", "any"}
    BY <1>0, <1>10 DEF SendAndRecord, AppTypes
  <2>4. typed' \in 0..MaxTyped /\ awaiting' \in BOOLEAN
        /\ UNCHANGED <<shown, refresh, presses, interludes, faults, session, fresh>>
    BY <1>0, <1>10, ConnectionAssumption DEF SendAndRecord, AppTypes
  <2>. QED BY <1>0, <2>1, <2>2, <2>3, <2>4 DEF AppTypes, BoundTypes
<1>11. CASE RecordParseError
  <2>1. history' \in Seq(Entries) /\ WithinLimit'
    BY <1>11, ParseErrorTypes
  <2>2. typed' \in 0..MaxTyped
    BY <1>0, <1>11, ConnectionAssumption DEF RecordParseError, AppTypes
  <2>. QED BY <1>0, <1>11, <2>1, <2>2 DEF RecordParseError, AppTypes, BoundTypes, wishVars
<1>. QED BY <1>6, <1>7, <1>8, <1>9, <1>10, <1>11 DEF User

LEMMA AppTypeStep ==
  ASSUME OrderInv, TypeOK, App
  PROVE  AppTypes' /\ BoundTypes'
<1>0. AppTypes /\ BoundTypes
  BY TypeParts
<1>1. {"none", "gone"} \subseteq Reasons /\ {"Disconnected", "Connected"} \subseteq AppStates
  BY DEF Reasons, AppStates
<1>2. CASE RefreshNext
  <2>1. refresh' \in 0..RefreshCommands
    BY <1>0, <1>2, ConnectionAssumption DEF RefreshNext, AppTypes
  <2>. QED BY <1>0, <1>1, <1>2, <2>1 DEF RefreshNext, SendActor, OnActorGone, AppTypes, BoundTypes, actorVars, boundVars, wishVars, WithinLimit
<1>3. ASSUME NEW i \in DOMAIN timers, ReconnectReady(i) PROVE AppTypes' /\ BoundTypes'
  BY <1>0, <1>1, <1>3 DEF ReconnectReady, SendActor, OnActorGone, AppTypes, BoundTypes, actorVars, boundVars, wishVars, WithinLimit
<1>4. CASE HandleEvent
  <2>. DEFINE e == Head(events)
  <2>1. e \in EventRecords /\ e.conn \in 1..conn
    <3>1. events \in Seq(EventRecords) /\ blocked \in Seq(EventRecords) /\ events # <<>>
      BY <1>4 DEF HandleEvent, OrderInv, EventTypes
    <3>2. 1 \in DOMAIN OnTheWay /\ OnTheWay[1] = e
      BY <3>1 DEF OnTheWay
    <3>. QED BY <3>1, <3>2 DEF OrderInv, EventsTold
  <2>2. e.reason \in Reasons /\ e.id \in Nat
    BY <2>1 DEF EventRecords
  <2>3. conn \in Nat /\ UNCHANGED conn
    BY <1>4 DEF HandleEvent, actorVars, OrderInv, ActorTypes
  <2>4. UNCHANGED <<actorTx, refresh, typed, presses, fresh, wish>> /\ BoundTypes'
    BY <1>0, <1>4 DEF HandleEvent, boundVars, BoundTypes
  <2>. HIDE DEF e
  <2>5. CASE HandleConnected(e) \/ HandleDisconnected(e) \/ HandleInterlude(e)
    <3>a. e.conn \in 0..conn
      BY <2>1, <2>3
    <3>b. shown \cup {e.conn} \subseteq 1..conn /\ shown \subseteq 1..conn /\ session \in 0..conn
      BY <1>0, <2>1 DEF AppTypes
    <3>c. appState \in AppStates /\ lastError \in Reasons
      BY <1>0 DEF AppTypes
    <3>1. appState' \in AppStates /\ lastError' \in Reasons /\ session' \in 0..conn /\ shown' \subseteq 1..conn
      <4>1. CASE HandleConnected(e)
        BY <1>1, <3>a, <3>b, <4>1 DEF HandleConnected
      <4>2. CASE HandleDisconnected(e)
        BY <1>1, <2>2, <3>b, <4>2 DEF HandleDisconnected
      <4>3. CASE HandleInterlude(e)
        BY <3>b, <3>c, <4>3 DEF HandleInterlude
      <4>. QED BY <2>5, <4>1, <4>2, <4>3
    <3>2. UNCHANGED <<history, awaiting>>
      BY <2>5 DEF HandleConnected, HandleDisconnected, HandleInterlude
    <3>. QED BY <1>0, <2>3, <2>4, <3>1, <3>2 DEF AppTypes, WithinLimit
  <2>6. CASE HandleReply(e)
    <3>1. history' \in Seq(Entries) /\ WithinLimit'
      BY <2>2, <2>6, ResponseTypes DEF HandleReply
    <3>2. awaiting' = FALSE /\ shown' = shown \cup {e.conn} /\ UNCHANGED <<appState, lastError, session>>
      BY <2>6 DEF HandleReply, AppendResponse
    <3>. QED BY <1>0, <2>1, <2>3, <2>4, <3>1, <3>2 DEF AppTypes
  <2>. QED BY <1>4, <2>5, <2>6 DEF HandleEvent, e
<1>. QED BY <1>2, <1>3, <1>4 DEF App

LEMMA TypeInvariant == Spec => [](OrderInv /\ TypeOK)
<1>1. Init => TypeOK
  <2>1. <<>> \in Seq(Entries) /\ (history = <<>> => WithinLimit)
    BY DEF WithinLimit
  <2>2. Init => OrderInv
    BY InitHolds
  <2>3. Init => AppTypes
    <3>1. /\ 0 \in 0..RefreshCommands /\ 0 \in 0..MaxTyped /\ 0 \in 0..MaxPresses
          /\ 0 \in 0..0 /\ {} \subseteq 1..0 /\ TRUE \in BOOLEAN /\ FALSE \in BOOLEAN
          /\ "Disconnected" \in AppStates /\ "none" \in Reasons /\ "off" \in {"on", "off", "any"}
      BY ConnectionAssumption DEF AppStates, Reasons
    <3>. QED BY <2>1, <3>1, Zenon DEF Init, AppTypes
  <2>4. Init => BoundTypes
    BY ConnectionAssumption DEF Init, BoundTypes
  <2>. QED BY <2>2, <2>3, <2>4, TypeParts
<1>2. ASSUME OrderInv, OrderInv', TypeOK, [Next]_vars PROVE TypeOK'
  <2>1. CASE Next
    BY <1>2, <2>1, ActorTypeStep, UserTypeStep, AppTypeStep, TypePartsAfter DEF Next
  <2>2. CASE UNCHANGED vars
    BY <1>2, <2>2 DEF vars, appVars, channelVars, actorVars, boundVars, wishVars, TypeOK
  <2>. QED BY <1>2, <2>1, <2>2
<1>3. OrderInv /\ OrderInv' /\ TypeOK /\ [Next]_vars => TypeOK'
  BY <1>2
<1>. QED BY <1>1, <1>3, OrderInvariant, PTL DEF Spec

(***************************************************************************)
(* Types, the capacities of the channels, and what the history keeps: the  *)
(* entry of a command that send_and_record has recorded lies within the    *)
(* limit, and only lines that do not parse exceed it, which SendCommand    *)
(* records without a trim (main.rs).  Every connection whose messages are  *)
(* shown, or that the App last heard of, is one that was dialled.          *)
(***************************************************************************)
THEOREM ConnectionTypeCorrect == Spec => []TypeOK
  BY TypeInvariant, PTL
-----------------------------------------------------------------------------
(***************************************************************************)
(* The App agrees with its actor: the proof of AppAgrees.                  *)
(***************************************************************************)
LEMMA AgreeInit == Init => AgreeInv
BY DEF Init, AgreeInv, NewsComes, AppStates, Live

\* A step that tells of a change leaves nothing to show.
LEMMA NewsHolds ==
  ASSUME OrderInv, AgreeInv, blocked = <<>>, UNCHANGED <<appState, lastError>>,
         NEW e \in EventRecords, Emit(e), e.what \in {"Connected", "Disconnected"}
  PROVE  AgreeInv'
<1>1. OnTheWay' = Append(OnTheWay, e) /\ OnTheWay \in Seq(EventRecords)
  BY EmitAppends DEF OrderInv
<1>2. Len(OnTheWay) + 1 \in DOMAIN OnTheWay' /\ OnTheWay'[Len(OnTheWay) + 1] = e
  BY <1>1
<1>3. ~NoNews'
  BY <1>2 DEF NoNews
<1>. QED BY <1>3 DEF AgreeInv, NewsComes

\* A step of the actor that tells of no change.
LEMMA NoNewsHolds ==
  ASSUME AgreeInv, UNCHANGED <<appState, lastError, actorTx, timers>>,
         NoNews' => NoNews,
         phase' \in Live => phase \in Live,
         phase' \in {"idle", "dialing"} => phase \in {"idle", "dialing"},
         phase' = "idle" => phase = "idle",
         phase' \in Live => (ChangePending => ChangePending'),
         phase' = "idle" => (ConnectPending => ConnectPending')
  PROVE  AgreeInv'
BY DEF AgreeInv, NewsComes

\* The first command is taken: those behind it are still pending.
LEMMA TakenPending ==
  ASSUME OrderInv, commands # <<>>, commands' = Tail(commands)
  PROVE  /\ Head(commands).op \notin {"Connect", "Disconnect"} => (ChangePending => ChangePending')
         /\ Head(commands).op # "Connect" => (ConnectPending => ConnectPending')
<1>1. /\ commands \in Seq(ActorCommands) /\ Len(commands) \in Nat \ {0} /\ Head(commands) = commands[1]
      /\ DOMAIN commands = 1..Len(commands) /\ DOMAIN commands' = 1..Len(commands) - 1
      /\ \A i \in 1..Len(commands) - 1 : commands'[i] = commands[i + 1]
  BY DEF OrderInv, CommandTypes
<1>2. ASSUME NEW i \in DOMAIN commands, i # 1
      PROVE  i - 1 \in DOMAIN commands' /\ commands'[i - 1] = commands[i]
  BY <1>1, <1>2
<1>. QED BY <1>1, <1>2 DEF ChangePending, ConnectPending

LEMMA SentPending ==
  ASSUME CommandTypes, NEW c \in ActorCommands, SendActor(c)
  PROVE  /\ ChangePending => ChangePending'
         /\ ConnectPending => ConnectPending'
         /\ c.op \in {"Connect", "Disconnect"} => ChangePending'
         /\ c.op = "Connect" => ConnectPending'
<1>1. /\ commands \in Seq(ActorCommands) /\ commands' = Append(commands, c) /\ Len(commands) \in Nat
      /\ DOMAIN commands = 1..Len(commands) /\ DOMAIN commands' = 1..Len(commands) + 1
      /\ \A i \in 1..Len(commands) : commands'[i] = commands[i]
      /\ commands'[Len(commands) + 1] = c
  BY DEF CommandTypes, SendActor
<1>2. Len(commands) + 1 \in DOMAIN commands' /\ \A i \in DOMAIN commands : i \in DOMAIN commands'
  BY <1>1
<1>. QED BY <1>1, <1>2 DEF ChangePending, ConnectPending

LEMMA AgreeHangUp ==
  ASSUME OrderInv, AgreeInv, blocked = <<>>, UNCHANGED <<appState, lastError>>,
         NEW reason \in Reasons, HangUp(reason)
  PROVE  AgreeInv'
<1>. DEFINE e == Event("Disconnected", reason, 0)
<1>1. e \in EventRecords /\ e.what = "Disconnected"
  BY DEF Event, EventRecords, OrderInv, ActorTypes
<1>2. Emit(e)
  BY DEF HangUp
<1>. QED BY <1>1, <1>2, NewsHolds

LEMMA AgreeMessage ==
  ASSUME OrderInv, AgreeInv, blocked = <<>>, UNCHANGED <<appState, lastError, actorTx, timers, commands>>,
         NEW e \in EventRecords, Emit(e), phase \in Live, phase' \in Live
  PROVE  AgreeInv'
<1>1. OnTheWay' = Append(OnTheWay, e) /\ OnTheWay \in Seq(EventRecords)
  BY EmitAppends DEF OrderInv
<1>2. \A i \in DOMAIN OnTheWay : i \in DOMAIN OnTheWay' /\ OnTheWay'[i] = OnTheWay[i]
  BY <1>1
<1>3. NoNews' => NoNews
  BY <1>2 DEF NoNews
<1>4. ChangePending => ChangePending'
  BY DEF ChangePending
<1>. QED BY <1>3, <1>4, NoNewsHolds DEF Live

LEMMA ActorAgrees ==
  ASSUME OrderInv, AgreeInv, Actor
  PROVE  AgreeInv'
<1>0. ActorStep => blocked = <<>> /\ UNCHANGED <<appState, lastError, actorTx, timers>>
  BY DEF ActorStep, appVars
<1>s. ASSUME UNCHANGED <<appState, lastError, actorTx, timers, commands>>, OnTheWay' = OnTheWay,
             phase' = phase \/ {phase, phase'} \subseteq Live \/ phase' = "exited"
      PROVE  AgreeInv'
  <2>1. (NoNews' => NoNews) /\ (ChangePending => ChangePending') /\ (ConnectPending => ConnectPending')
    BY <1>s DEF NoNews, ChangePending, ConnectPending
  <2>. QED BY <1>s, <2>1, NoNewsHolds DEF Live
<1>1. CASE Unblock
  <2>1. OnTheWay' = OnTheWay
    BY <1>1, UnblockKeepsOrder DEF OrderInv
  <2>. QED BY <1>1, <1>s, <2>1 DEF Unblock, appVars, actorVars
<1>2. CASE TakeIdle
  <2>1. /\ commands # <<>> /\ commands' = Tail(commands) /\ phase = "idle" /\ OnTheWay' = OnTheWay
        /\ UNCHANGED <<appState, lastError, actorTx, timers>>
    BY <1>0, <1>2 DEF TakeIdle, OnTheWay
  <2>2. IF Head(commands).op = "Connect" THEN phase' = "dialing" ELSE phase' = phase
    BY <1>2 DEF TakeIdle
  <2>3. NoNews' => NoNews
    BY <2>1 DEF NoNews
  <2>4. phase' = "idle" => (ConnectPending => ConnectPending')
    BY <2>1, <2>2, TakenPending
  <2>. QED BY <2>1, <2>2, <2>3, <2>4, NoNewsHolds DEF Live
<1>3. CASE ActorExits
  BY <1>0, <1>3, <1>s DEF ActorExits, channelVars, OnTheWay
<1>4. CASE DialSucceeds
  <2>1. Event("Connected", "none", 0) \in EventRecords /\ Event("Connected", "none", 0).what = "Connected"
    BY DEF Event, EventRecords, OrderInv, ActorTypes, Reasons
  <2>. QED BY <1>0, <1>4, <2>1, NewsHolds DEF DialSucceeds
<1>5. CASE SendStartup \/ StartupDone \/ StartupTimeout
  <2>1. {phase, phase'} \subseteq Live
    BY <1>5 DEF SendStartup, StartupDone, StartupTimeout, StartupGoesOn, Live
  <2>2. UNCHANGED <<appState, lastError, actorTx, timers, commands>> /\ OnTheWay' = OnTheWay
    BY <1>0, <1>5 DEF SendStartup, StartupDone, StartupTimeout, channelVars, OnTheWay
  <2>. QED BY <1>s, <2>1, <2>2
<1>6. CASE TakeConnect \/ TakeDisconnect
  BY <1>0, <1>6, AgreeHangUp DEF TakeConnect, TakeDisconnect, Reasons
<1>7. CASE TakeSend
  <2>1. CASE HangUp("error")
    BY <1>0, <1>7, <2>1, AgreeHangUp DEF TakeSend, Reasons
  <2>2. CASE UNCHANGED <<phase, events, blocked>>
    <3>1. /\ commands # <<>> /\ commands' = Tail(commands) /\ phase = "running" /\ OnTheWay' = OnTheWay
          /\ Head(commands).op \notin {"Connect", "Disconnect"}
          /\ UNCHANGED <<appState, lastError, actorTx, timers>>
      BY <1>0, <1>7, <2>2 DEF TakeSend, OnTheWay
    <3>2. (NoNews' => NoNews) /\ (ChangePending => ChangePending')
      BY <3>1, TakenPending DEF NoNews
    <3>. QED BY <2>2, <3>1, <3>2, NoNewsHolds DEF Live
  <2>. QED BY <1>7, <2>1, <2>2 DEF TakeSend
<1>. QED BY <1>1, <1>2, <1>3, <1>4, <1>5, <1>6, <1>7 DEF Actor

LEMMA TransportAgrees ==
  ASSUME OrderInv, AgreeInv, Transport
  PROVE  AgreeInv'
<1>0. ActorStep => blocked = <<>> /\ UNCHANGED <<appState, lastError, actorTx, timers>>
  BY DEF ActorStep, appVars
<1>1. CASE DialFails \/ SendStartupFails \/ ReceiveError
  BY <1>0, <1>1, AgreeHangUp DEF DialFails, SendStartupFails, ReceiveError, Reasons
<1>2. CASE ReceiveNone
  <2>1. \E reason \in Reasons : HangUp(reason)
    BY <1>2 DEF ReceiveNone, Reasons
  <2>. QED BY <1>0, <1>2, <2>1, AgreeHangUp DEF ReceiveNone
<1>3. CASE ReceiveReply
  <2>1. /\ Emit(Event("Reply", "none", Head(owed).id)) /\ {phase, phase'} \subseteq Live /\ owed # <<>>
        /\ blocked = <<>> /\ UNCHANGED <<appState, lastError, actorTx, timers, commands>>
    BY <1>0, <1>3 DEF ReceiveReply, StartupGoesOn, Live
  <2>2. owed \in Seq(SentCommands) /\ \A c \in SentCommands : c.id \in Nat
    BY DEF OrderInv, ActorTypes, SentCommands
  <2>3. Head(owed).id \in Nat
    BY <2>1, <2>2
  <2>4. Event("Reply", "none", Head(owed).id) \in EventRecords
    BY <2>3 DEF Event, EventRecords, OrderInv, ActorTypes, Reasons
  <2>. QED BY <2>1, <2>4, AgreeMessage
<1>4. ASSUME NEW m \in Interludes, ReceiveInterlude(m) PROVE AgreeInv'
  <2>1. /\ Emit(Event(m, "none", 0)) /\ phase \in Live
        /\ blocked = <<>> /\ UNCHANGED <<appState, lastError, actorTx, timers, commands>>
    BY <1>0, <1>4 DEF ReceiveInterlude, Live
  <2>2. IF IsAsync(m) THEN UNCHANGED phase ELSE phase' = IF phase = "waiting" THEN "startup" ELSE phase
    BY <1>4 DEF ReceiveInterlude, StartupGoesOn
  <2>3. phase' \in Live
    BY <2>1, <2>2 DEF Live, IsAsync
  <2>4. Event(m, "none", 0) \in EventRecords
    BY ConnectionAssumption DEF Event, EventRecords, OrderInv, ActorTypes, Reasons
  <2>. QED BY <2>1, <2>3, <2>4, AgreeMessage
<1>. QED BY <1>1, <1>2, <1>3, <1>4 DEF Transport

\* A step of the App that sends a command or gives its actor up.
LEMMA GoneAgrees ==
  ASSUME OnActorGone
  PROVE  AgreeInv'
BY DEF OnActorGone, AgreeInv, NewsComes, AppStates

LEMMA SendAgrees ==
  ASSUME OrderInv, AgreeInv, NEW c \in ActorCommands, SendActor(c), UNCHANGED <<events, blocked, phase>>,
         appState' \in AppStates, appState' # "Disconnected" => lastError' = "none",
         \/ appState' = appState
         \/ appState' = "Connecting" /\ c.op \in {"Connect", "Disconnect"},
         phase = "idle" /\ appState' = "Connecting" =>
           \/ appState = "Connecting" /\ (timers # <<>> => timers' # <<>>)
           \/ timers' # <<>> \/ c.op = "Connect"
  PROVE  AgreeInv'
<1>1. (NoNews' => NoNews) /\ actorTx' = actorTx
  BY DEF NoNews, OnTheWay, SendActor
<1>2. /\ ChangePending => ChangePending'
      /\ ConnectPending => ConnectPending'
      /\ c.op \in {"Connect", "Disconnect"} => ChangePending'
      /\ c.op = "Connect" => ConnectPending'
  BY SentPending DEF OrderInv
<1>3. NewsComes'
  BY <1>1, <1>2 DEF AgreeInv, NewsComes, AppStates
<1>. QED BY <1>3 DEF AgreeInv

LEMMA UserAgrees ==
  ASSUME OrderInv, AgreeInv, User
  PROVE  AgreeInv'
<1>0. CommandTypes /\ UNCHANGED <<events, blocked, phase>>
  BY UserKeepsCommands DEF OrderInv, actorVars
<1>1. ASSUME NEW o \in Options, PressConnect(o) PROVE AgreeInv'
  <2>1. CASE OnActorGone
    BY <2>1, GoneAgrees
  <2>2. CASE /\ SendActor(Connect(BuildStartupCommands(o)))
             /\ appState' = "Connecting" /\ lastError' = "none"
    <3>1. Connect(BuildStartupCommands(o)) \in ActorCommands /\ Connect(BuildStartupCommands(o)).op = "Connect"
      BY StartupTypes, CommandRecords DEF Connect
    <3>. QED BY <1>0, <2>2, <3>1, SendAgrees DEF AppStates
  <2>. QED BY <1>1, <2>1, <2>2 DEF PressConnect
<1>2. ASSUME NEW startup \in Seq(StartupNames), PressReconnect(startup) PROVE AgreeInv'
  <2>1. CASE OnActorGone
    BY <2>1, GoneAgrees
  <2>2. CASE /\ SendActor(Disconnect)
             /\ appState' = "Connecting" /\ lastError' = "none" /\ timers' = Append(timers, startup)
    <3>1. Disconnect \in ActorCommands /\ Disconnect.op = "Disconnect"
      BY CommandRecords DEF Disconnect
    <3>2. timers' # <<>>
      BY <2>2 DEF OrderInv, CommandTypes
    <3>. QED BY <1>0, <2>2, <3>1, <3>2, SendAgrees DEF AppStates
  <2>. QED BY <1>2, <2>1, <2>2 DEF PressReconnect
<1>3. CASE PressDisconnect
  <2>1. CASE OnActorGone
    BY <2>1, GoneAgrees
  <2>2. CASE SendActor(Disconnect) /\ UNCHANGED <<appState, lastError>>
    <3>1. UNCHANGED timers
      BY <1>3 DEF PressDisconnect
    <3>. QED BY <1>0, <2>2, <3>1, CommandRecords, SendAgrees DEF AgreeInv
  <2>. QED BY <1>3, <2>1, <2>2 DEF PressDisconnect
<1>4. CASE PressRefresh \/ RecordParseError
  <2>1. UNCHANGED <<appState, lastError, actorTx, timers, commands, phase>> /\ OnTheWay' = OnTheWay
    BY <1>4 DEF PressRefresh, RecordParseError, channelVars, actorVars, OnTheWay
  <2>2. (NoNews' => NoNews) /\ (ChangePending => ChangePending') /\ (ConnectPending => ConnectPending')
    BY <2>1 DEF NoNews, ChangePending, ConnectPending
  <2>. QED BY <2>1, <2>2, NoNewsHolds
<1>5. ASSUME NEW c \in Commands, SendAndRecord(c) PROVE AgreeInv'
  <2>1. CASE OnActorGone
    BY <2>1, GoneAgrees
  <2>2. CASE SendActor(Forward(c, typed + 1)) /\ UNCHANGED <<appState, lastError>>
    <3>0. c \in {"Query", "Exit"} /\ typed + 1 \in Nat
      BY <1>0, ConnectionAssumption DEF CommandTypes
    <3>1. Forward(c, typed + 1) \in ActorCommands
      BY <3>0, CommandRecords
    <3>2. UNCHANGED timers
      BY <1>5 DEF SendAndRecord
    <3>. QED BY <1>0, <2>2, <3>1, <3>2, SendAgrees DEF AgreeInv
  <2>. QED BY <1>5, <2>1, <2>2 DEF SendAndRecord
<1>6. ASSUME NEW o \in Options
      PROVE  BuildStartupCommands(o) \in Seq(StartupNames) /\ BuildVerbReset(o) \in Seq(StartupNames)
  BY StartupTypes
<1>. QED BY <1>1, <1>2, <1>3, <1>4, <1>5, <1>6 DEF User

LEMMA TimerAgrees ==
  ASSUME OrderInv, AgreeInv, RefreshNext \/ \E i \in DOMAIN timers : ReconnectReady(i)
  PROVE  AgreeInv'
<1>0. CommandTypes /\ UNCHANGED <<events, blocked, phase>>
  BY TimerKeepsCommands DEF OrderInv, actorVars
<1>1. CASE RefreshNext
  <2>1. CASE OnActorGone
    BY <2>1, GoneAgrees
  <2>2. CASE SendActor(Forward("Query", 0)) /\ UNCHANGED <<appState, lastError>>
    <3>1. UNCHANGED timers /\ Forward("Query", 0) \in ActorCommands
      BY <1>1, CommandRecords DEF RefreshNext
    <3>. QED BY <1>0, <2>2, <3>1, SendAgrees DEF AgreeInv
  <2>. QED BY <1>1, <2>1, <2>2 DEF RefreshNext
<1>2. ASSUME NEW i \in DOMAIN timers, ReconnectReady(i) PROVE AgreeInv'
  <2>1. CASE OnActorGone
    BY <2>1, GoneAgrees
  <2>2. CASE SendActor(Connect(timers[i])) /\ UNCHANGED <<appState, lastError>>
    <3>1. timers[i] \in Seq(StartupNames)
      BY <1>0 DEF CommandTypes
    <3>2. Connect(timers[i]) \in ActorCommands /\ Connect(timers[i]).op = "Connect"
      BY <3>1, CommandRecords DEF Connect
    <3>. QED BY <1>0, <2>2, <3>2, SendAgrees DEF AgreeInv
  <2>. QED BY <1>2, <2>1, <2>2 DEF ReconnectReady
<1>. QED BY <1>1, <1>2

LEMMA EventAgrees ==
  ASSUME OrderInv, AgreeInv, HandleEvent
  PROVE  AgreeInv'
<1>. DEFINE s == OnTheWay
            e == Head(events)
<1>1. /\ events # <<>> /\ events' = Tail(events)
      /\ UNCHANGED <<actorTx, timers, commands, blocked, phase>>
  BY DEF HandleEvent, actorVars
<1>2. s \in Seq(EventRecords) /\ s # <<>> /\ OnTheWay' = Tail(s) /\ s[1] = e
  BY <1>1 DEF OrderInv, EventTypes, OnTheWay
<1>3. /\ Len(s) \in Nat \ {0} /\ DOMAIN s = 1..Len(s) /\ DOMAIN OnTheWay' = 1..Len(s) - 1
      /\ \A i \in 1..Len(s) - 1 : OnTheWay'[i] = s[i + 1]
      /\ Last(s) = s[Len(s)]
  BY <1>2 DEF Last
<1>4. ASSUME NEW i \in DOMAIN s, i # 1
      PROVE  i - 1 \in DOMAIN OnTheWay' /\ OnTheWay'[i - 1] = s[i]
  BY <1>3, <1>4
<1>5. NoNews' => \A i \in DOMAIN s : i # 1 => s[i].what \notin {"Connected", "Disconnected"}
  BY <1>4 DEF NoNews
<1>6. phase # "exited" => (Last(s).what = "Disconnected" <=> phase \in {"idle", "dialing"})
  BY <1>2 DEF OrderInv, OneAtATime
<1>7. ChangePending' = ChangePending /\ ConnectPending' = ConnectPending
  BY <1>1 DEF ChangePending, ConnectPending
<1>8. CASE HandleConnected(e)
  <2>1. appState' = "Connected" /\ lastError' = "none" /\ s[1].what = "Connected"
    BY <1>2, <1>8 DEF HandleConnected
  <2>2. NoNews' => Last(s).what # "Disconnected"
    BY <1>3, <1>5, <2>1
  <2>. QED BY <1>1, <1>6, <2>1, <2>2 DEF AgreeInv, NewsComes, AppStates
<1>9. CASE HandleDisconnected(e)
  <2>1. appState' = "Disconnected" /\ s[1].what = "Disconnected"
    BY <1>2, <1>9 DEF HandleDisconnected
  <2>2. CASE Len(s) > 1
    <3>1. 2 \in DOMAIN s /\ 1 \in 1..Len(s) - 1
      BY <1>3, <2>2
    <3>2. Follows(s[1], s[2])
      BY <3>1 DEF OrderInv, OneAtATime
    <3>3. ~NoNews'
      BY <1>5, <2>1, <3>1, <3>2 DEF Follows
    <3>. QED BY <2>1, <3>3 DEF AgreeInv, NewsComes, AppStates
  <2>3. CASE Len(s) = 1
    <3>1. phase \notin Live
      BY <1>3, <1>6, <2>1, <2>3 DEF Live
    <3>. QED BY <1>1, <2>1, <3>1 DEF AgreeInv, NewsComes, AppStates
  <2>. QED BY <1>3, <2>2, <2>3
<1>10. CASE HandleReply(e) \/ HandleInterlude(e)
  <2>1. UNCHANGED <<appState, lastError>> /\ s[1].what \notin {"Connected", "Disconnected"}
    BY <1>2, <1>10 DEF HandleReply, HandleInterlude, AllInterludes
  <2>2. NoNews' => NoNews
    BY <1>5, <2>1 DEF NoNews
  <2>. QED BY <1>1, <1>7, <2>1, <2>2, NoNewsHolds
<1>. QED BY <1>8, <1>9, <1>10 DEF HandleEvent
-----------------------------------------------------------------------------
LEMMA AgreeInvariant == Spec => [](OrderInv /\ AgreeInv)
<1>1. Init => AgreeInv
  BY AgreeInit
<1>2. ASSUME OrderInv, AgreeInv, [Next]_vars PROVE AgreeInv'
  <2>1. CASE Next
    BY <1>2, <2>1, ActorAgrees, TransportAgrees, UserAgrees, TimerAgrees, EventAgrees DEF Next, App
  <2>2. CASE UNCHANGED vars
    <3>1. UNCHANGED <<appState, lastError, actorTx, timers, commands, phase>> /\ OnTheWay' = OnTheWay
      BY <2>2 DEF vars, appVars, channelVars, actorVars, OnTheWay
    <3>2. (NoNews' => NoNews) /\ (ChangePending => ChangePending') /\ (ConnectPending => ConnectPending')
      BY <3>1 DEF NoNews, ChangePending, ConnectPending
    <3>. QED BY <1>2, <3>1, <3>2, NoNewsHolds
  <2>. QED BY <1>2, <2>1, <2>2
<1>3. OrderInv /\ AgreeInv /\ [Next]_vars => AgreeInv'
  BY <1>2
<1>. QED BY <1>1, <1>3, OrderInvariant, PTL DEF Spec

(***************************************************************************)
(* When nothing is on its way, the state the App shows is that of its      *)
(* actor, for channels of any capacity, any presses, timers and faults:    *)
(* every change the actor makes is told by an event, and every state the   *)
(* App assumes is one a command on its way will bring about.  (update,     *)
(* handle_actor_event and on_actor_gone of main.rs against actor.rs)       *)
(***************************************************************************)
THEOREM AppAlwaysAgrees == Spec => []AppAgrees
<1>1. ASSUME OrderInv, AgreeInv PROVE AppAgrees
  <2>1. ASSUME Quiet PROVE appState = IF phase = "running" THEN "Connected" ELSE "Disconnected"
    <3>1. NoNews /\ ~ChangePending /\ ~ConnectPending /\ timers = <<>> /\ actorTx /\ phase \in {"idle", "running"}
      BY <2>1 DEF Quiet, NoNews, OnTheWay, ChangePending, ConnectPending
    <3>2. NewsComes /\ appState \in AppStates
      BY <1>1 DEF AgreeInv
    <3>. QED BY <3>1, <3>2 DEF NewsComes, AppStates, Live
  <2>. QED BY <1>1, <2>1 DEF AppAgrees, AgreeInv
<1>2. OrderInv /\ AgreeInv => AppAgrees
  BY <1>1
<1>. QED BY <1>2, AgreeInvariant, PTL
-----------------------------------------------------------------------------
(***************************************************************************)
(* What the App has heard: HeardInv.                                       *)
(***************************************************************************)
LEMMA ToldFacts ==
  ASSUME OrderInv, NEW e, Tells(e)
  PROVE  /\ Len(OnTheWay) \in Nat /\ DOMAIN OnTheWay = 1..Len(OnTheWay)
         /\ Len(OnTheWay') = Len(OnTheWay) + 1 /\ DOMAIN OnTheWay' = 1..Len(OnTheWay) + 1
         /\ \A i \in 1..Len(OnTheWay) : OnTheWay'[i] = OnTheWay[i]
         /\ OnTheWay'[Len(OnTheWay) + 1] = e
<1>1. OnTheWay \in Seq(EventRecords) /\ e \in EventRecords /\ OnTheWay' = Append(OnTheWay, e)
  BY DEF OrderInv, EventTypes, OnTheWay, Tells
<1>. QED BY <1>1

\* The App takes the first event on its way.
LEMMA TakenFacts ==
  ASSUME OrderInv, HandleEvent
  PROVE  /\ Len(OnTheWay) \in Nat \ {0} /\ DOMAIN OnTheWay = 1..Len(OnTheWay)
         /\ Len(OnTheWay') = Len(OnTheWay) - 1 /\ DOMAIN OnTheWay' = 1..Len(OnTheWay) - 1
         /\ \A i \in 1..Len(OnTheWay) - 1 : OnTheWay'[i] = OnTheWay[i + 1]
         /\ OnTheWay[1] = Head(events) /\ Head(events) \in EventRecords
<1>1. events # <<>> /\ events' = Tail(events) /\ UNCHANGED blocked
  BY DEF HandleEvent
<1>2. /\ OnTheWay \in Seq(EventRecords) /\ OnTheWay # <<>> /\ OnTheWay' = Tail(OnTheWay)
      /\ OnTheWay[1] = Head(events) /\ Head(events) \in EventRecords
  BY <1>1 DEF OrderInv, EventTypes, OnTheWay
<1>. QED BY <1>2

LEMMA AnnouncedTold ==
  ASSUME OrderInv, NEW e, Tells(e), NEW k \in 0..Len(OnTheWay), AnnouncedAfter(k),
         IsMessage(e) => phase \in Live,
         phase' \in Live => phase \in Live \/ e.what = "Connected"
  PROVE  AnnouncedAfter(k)'
<1>. DEFINE n == Len(OnTheWay)
<1>1. /\ n \in Nat /\ DOMAIN OnTheWay = 1..n /\ Len(OnTheWay') = n + 1 /\ DOMAIN OnTheWay' = 1..n + 1
      /\ \A i \in 1..n : OnTheWay'[i] = OnTheWay[i]
      /\ OnTheWay'[n + 1] = e
  BY ToldFacts
<1>. HIDE DEF n
<1>a. /\ \A j \in DOMAIN OnTheWay : k < j /\ IsMessage(OnTheWay[j]) => \E m \in k + 1..j - 1 : OnTheWay[m].what = "Connected"
      /\ phase \in Live => \E m \in k + 1..n : OnTheWay[m].what = "Connected"
  BY DEF AnnouncedAfter, ConnectedWithin, n
<1>k. k \in 0..n
  BY DEF n
<1>2. ASSUME NEW j \in 1..n + 1, k < j, IsMessage(OnTheWay'[j])
      PROVE  \E m \in k + 1..j - 1 : OnTheWay'[m].what = "Connected"
  <2>1. CASE j \in 1..n
    <3>1. PICK m \in k + 1..j - 1 : OnTheWay[m].what = "Connected"
      BY <1>1, <1>a, <1>2, <2>1
    <3>2. OnTheWay'[m] = OnTheWay[m]
      BY <1>1, <1>k, <2>1
    <3>. QED BY <3>1, <3>2
  <2>2. CASE j = n + 1
    <3>1. phase \in Live
      BY <1>1, <1>2, <2>2
    <3>2. PICK m \in k + 1..n : OnTheWay[m].what = "Connected"
      BY <1>a, <3>1
    <3>3. OnTheWay'[m] = OnTheWay[m] /\ m \in k + 1..j - 1
      BY <1>1, <1>k, <2>2
    <3>. QED BY <3>2, <3>3
  <2>. QED BY <1>1, <2>1, <2>2
<1>3. phase' \in Live => \E m \in k + 1..n + 1 : OnTheWay'[m].what = "Connected"
  <2>1. ASSUME phase \in Live PROVE \E m \in k + 1..n + 1 : OnTheWay'[m].what = "Connected"
    <3>1. PICK m \in k + 1..n : OnTheWay[m].what = "Connected"
      BY <1>a, <2>1
    <3>2. OnTheWay'[m] = OnTheWay[m] /\ m \in k + 1..n + 1
      BY <1>1, <1>k
    <3>. QED BY <3>1, <3>2
  <2>2. n + 1 \in k + 1..n + 1
    BY <1>1, <1>k
  <2>. QED BY <1>1, <2>1, <2>2
<1>. QED BY <1>1, <1>2, <1>3 DEF AnnouncedAfter, ConnectedWithin

LEMMA ActorHeard ==
  ASSUME OrderInv, HeardInv, ActorMove, UNCHANGED <<appState, actorTx>>
  PROVE  HeardInv'
<1>1. CASE OnTheWay' = OnTheWay /\ (phase' \in Live => phase \in Live)
  BY <1>1 DEF HeardInv, AnnouncedAfter, ConnectedWithin
<1>2. ASSUME NEW e, Tells(e), IsMessage(e) => phase \in Live,
             phase' \in Live => phase \in Live \/ e.what = "Connected",
             e.what = "Disconnected" => phase' \notin Live
      PROVE  HeardInv'
  <2>1. ASSUME NEW k \in DOMAIN OnTheWay', OnTheWay'[k].what = "Disconnected" PROVE AnnouncedAfter(k)'
    <3>0. Len(OnTheWay) \in Nat
      BY <1>2, ToldFacts
    <3>1. CASE k \in 1..Len(OnTheWay)
      <4>1. AnnouncedAfter(k) /\ k \in 0..Len(OnTheWay)
        BY <1>2, <2>1, <3>1, ToldFacts DEF HeardInv
      <4>. QED BY <1>2, <4>1, AnnouncedTold
    <3>2. CASE k = Len(OnTheWay) + 1
      <4>1. ~\E j \in DOMAIN OnTheWay' : k < j
        BY <1>2, <3>2, ToldFacts
      <4>2. phase' \notin Live
        BY <1>2, <2>1, <3>2, ToldFacts
      <4>. QED BY <4>1, <4>2 DEF AnnouncedAfter
    <3>. QED BY <1>2, <2>1, <3>0, <3>1, <3>2, ToldFacts
  <2>2. ASSUME actorTx, appState = "Disconnected" PROVE AnnouncedAfter(0)'
    <3>1. AnnouncedAfter(0) /\ 0 \in 0..Len(OnTheWay)
      BY <1>2, <2>2, ToldFacts DEF HeardInv
    <3>. QED BY <1>2, <3>1, AnnouncedTold
  <2>. QED BY <2>1, <2>2 DEF HeardInv
<1>3. CASE ConnectedMove
  BY <1>2, <1>3, Zenon DEF ConnectedMove, IsMessage
<1>4. CASE MessageMove
  <2>1. PICK e : Tells(e) /\ IsMessage(e)
    BY <1>4 DEF MessageMove
  <2>. QED BY <1>2, <1>4, <2>1 DEF MessageMove, IsMessage
<1>5. CASE EndMove
  <2>1. PICK e : Tells(e) /\ e.what = "Disconnected"
    BY <1>5 DEF EndMove
  <2>2. phase' \notin Live
    BY <1>5 DEF EndMove, Live
  <2>. QED BY <1>2, <2>1, <2>2 DEF IsMessage
<1>6. CASE StaysMove \/ StartupMove \/ ExitMove \/ IgnoreMove \/ DialMove \/ SendMove
  BY <1>1, <1>6 DEF StaysMove, StartupMove, ExitMove, IgnoreMove, DialMove, SendMove, Silent, Live
<1>. QED BY <1>3, <1>4, <1>5, <1>6 DEF ActorMove

LEMMA EventHeard ==
  ASSUME OrderInv, HeardInv, HandleEvent
  PROVE  HeardInv'
<1>. DEFINE n == Len(OnTheWay)
<1>1. /\ n \in Nat \ {0} /\ DOMAIN OnTheWay = 1..n
      /\ Len(OnTheWay') = n - 1 /\ DOMAIN OnTheWay' = 1..n - 1
      /\ \A i \in 1..n - 1 : OnTheWay'[i] = OnTheWay[i + 1]
      /\ OnTheWay[1] = Head(events)
  BY TakenFacts
<1>. HIDE DEF n
<1>2. UNCHANGED <<phase, actorTx>>
  BY DEF HandleEvent, actorVars
<1>3. ASSUME NEW k \in 0..n - 1, AnnouncedAfter(k + 1) PROVE AnnouncedAfter(k)'
  <2>1. /\ \A j \in DOMAIN OnTheWay : k + 1 < j /\ IsMessage(OnTheWay[j]) =>
              \E m \in k + 1 + 1..j - 1 : OnTheWay[m].what = "Connected"
        /\ phase \in Live => \E m \in k + 1 + 1..n : OnTheWay[m].what = "Connected"
    BY <1>3 DEF AnnouncedAfter, ConnectedWithin, n
  <2>2. ASSUME NEW m \in k + 2..n, OnTheWay[m].what = "Connected" PROVE OnTheWay'[m - 1].what = "Connected" 
    <3>1. m - 1 \in 1..n - 1 /\ m - 1 + 1 = m
      BY <1>1
    <3>. QED BY <1>1, <2>2, <3>1
  <2>3. ASSUME NEW j \in 1..n - 1, k < j, IsMessage(OnTheWay'[j])
        PROVE  \E m \in k + 1..j - 1 : OnTheWay'[m].what = "Connected"
    <3>1. j + 1 \in 1..n /\ k + 1 < j + 1 /\ IsMessage(OnTheWay[j + 1])
      BY <1>1, <2>3
    <3>2. PICK m \in k + 1 + 1..j + 1 - 1 : OnTheWay[m].what = "Connected"
      BY <1>1, <2>1, <3>1
    <3>3. m \in k + 2..n /\ m - 1 \in k + 1..j - 1
      BY <1>1
    <3>. QED BY <2>2, <3>2, <3>3
  <2>4. phase \in Live => \E m \in k + 1..n - 1 : OnTheWay'[m].what = "Connected"
    <3>1. ASSUME phase \in Live PROVE \E m \in k + 1..n - 1 : OnTheWay'[m].what = "Connected"
      <4>1. PICK m \in k + 2..n : OnTheWay[m].what = "Connected"
        BY <2>1, <3>1
      <4>2. m - 1 \in k + 1..n - 1
        BY <1>1
      <4>. QED BY <2>2, <4>1, <4>2
    <3>. QED BY <3>1
  <2>. QED BY <1>1, <1>2, <2>3, <2>4 DEF AnnouncedAfter, ConnectedWithin
<1>4. ASSUME NEW k \in DOMAIN OnTheWay', OnTheWay'[k].what = "Disconnected" PROVE AnnouncedAfter(k)'
  <2>1. k \in 0..n - 1 /\ k + 1 \in DOMAIN OnTheWay /\ OnTheWay[k + 1].what = "Disconnected"
    BY <1>1, <1>4
  <2>. QED BY <1>3, <2>1 DEF HeardInv
<1>5. ASSUME actorTx, appState' = "Disconnected" PROVE AnnouncedAfter(0)'
  <2>0. 0 \in 0..n - 1 /\ 1 \in DOMAIN OnTheWay
    BY <1>1
  <2>1. ASSUME IsMessage(OnTheWay[1]), AnnouncedAfter(0) PROVE FALSE
    <3>1. \E m \in 0 + 1..1 - 1 : OnTheWay[m].what = "Connected"
      BY <2>0, <2>1 DEF AnnouncedAfter, ConnectedWithin
    <3>. QED BY <3>1
  <2>2. CASE HandleDisconnected(Head(events))
    <3>1. AnnouncedAfter(0 + 1)
      BY <1>1, <2>0, <2>2 DEF HandleDisconnected, HeardInv
    <3>. QED BY <1>3, <2>0, <3>1
  <2>3. CASE HandleReply(Head(events)) \/ HandleInterlude(Head(events))
    <3>1. IsMessage(OnTheWay[1]) /\ appState = "Disconnected"
      BY <1>1, <1>5, <2>3 DEF HandleReply, HandleInterlude, IsMessage, AllInterludes
    <3>. QED BY <1>5, <2>1, <3>1 DEF HeardInv
  <2>4. ~HandleConnected(Head(events))
    BY <1>5 DEF HandleConnected
  <2>. QED BY <2>2, <2>3, <2>4 DEF HandleEvent
<1>. QED BY <1>2, <1>4, <1>5 DEF HeardInv

\* The other steps of the App leave the events on their way as they are.
LEMMA AppLeavesEvents ==
  ASSUME OrderInv, User \/ RefreshNext \/ \E i \in DOMAIN timers : ReconnectReady(i)
  PROVE  UNCHANGED <<OnTheWay, phase, owed, conn, faults>>
<1>1. UNCHANGED <<events, blocked, actorVars>>
  BY UserKeepsCommands, TimerKeepsCommands DEF OrderInv
<1>2. UNCHANGED faults
  BY DEF User, PressConnect, PressDisconnect, PressReconnect, PressRefresh, SendAndRecord, RecordParseError, Press,
         RefreshNext, ReconnectReady, boundVars
<1>. QED BY <1>1, <1>2 DEF OnTheWay, actorVars

LEMMA AppHeard ==
  ASSUME OrderInv, HeardInv, User \/ RefreshNext \/ \E i \in DOMAIN timers : ReconnectReady(i)
  PROVE  HeardInv'
<1>1. UNCHANGED <<OnTheWay, phase>>
  BY AppLeavesEvents
<1>2. actorTx' /\ appState' = "Disconnected" => actorTx /\ appState = "Disconnected"
  BY DEF User, PressConnect, PressDisconnect, PressReconnect, PressRefresh, SendAndRecord, RecordParseError,
         RefreshNext, ReconnectReady, SendActor, OnActorGone, CanSend
<1>. QED BY <1>1, <1>2 DEF HeardInv, AnnouncedAfter, ConnectedWithin

LEMMA HeardInvariant == Spec => [](OrderInv /\ HeardInv)
<1>1. ASSUME Init PROVE HeardInv
  <2>1. OnTheWay = <<>> /\ phase \notin Live /\ DOMAIN <<>> = {}
    BY <1>1 DEF Init, OnTheWay, Live
  <2>. QED BY <2>1 DEF HeardInv, AnnouncedAfter
<1>2. ASSUME OrderInv, HeardInv, [Next]_vars PROVE HeardInv'
  <2>1. CASE Actor \/ Transport
    <3>1. ActorMove /\ UNCHANGED <<appState, actorTx>>
      BY <1>2, <2>1, ActorMoves, TransportMoves DEF appVars
    <3>. QED BY <1>2, <3>1, ActorHeard
  <2>2. CASE User \/ App
    BY <1>2, <2>2, AppHeard, EventHeard DEF App
  <2>3. CASE UNCHANGED vars
    <3>1. UNCHANGED <<OnTheWay, phase, appState, actorTx>>
      BY <2>3 DEF vars, appVars, channelVars, actorVars, OnTheWay
    <3>. QED BY <1>2, <3>1 DEF HeardInv, AnnouncedAfter, ConnectedWithin
  <2>. QED BY <1>2, <2>1, <2>2, <2>3 DEF Next
<1>3. Init => HeardInv
  BY <1>1
<1>4. OrderInv /\ HeardInv /\ [Next]_vars => HeardInv'
  BY <1>2
<1>. QED BY <1>3, <1>4, OrderInvariant, PTL DEF Spec
=============================================================================
