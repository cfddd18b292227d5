----------------------------- MODULE WishProofs -----------------------------
(***************************************************************************)
(* The user's last press is done, a session begun with the Connect button  *)
(* shows nothing of an earlier one, and the response shown under a command *)
(* sent alone is that command's: proofs of LastWish, FreshSession and      *)
(* OwnResponse.                                                            *)
(***************************************************************************)
EXTENDS ConnectionProofs
-----------------------------------------------------------------------------
(***************************************************************************)
(* The channel of commands.                                                *)
(***************************************************************************)
LEMMA SentFacts ==
  ASSUME OrderInv, NEW c, commands' = Append(commands, c)
  PROVE  /\ Len(commands) \in Nat /\ DOMAIN commands = 1..Len(commands)
         /\ Len(commands') = Len(commands) + 1 /\ DOMAIN commands' = 1..Len(commands) + 1
         /\ \A i \in 1..Len(commands) : commands'[i] = commands[i]
         /\ commands'[Len(commands) + 1] = c
BY DEF OrderInv, CommandTypes

LEMMA TakesFacts ==
  ASSUME OrderInv, Takes
  PROVE  /\ Len(commands) \in Nat \ {0} /\ DOMAIN commands = 1..Len(commands)
         /\ Len(commands') = Len(commands) - 1 /\ DOMAIN commands' = 1..Len(commands) - 1
         /\ \A i \in 1..Len(commands) - 1 : commands'[i] = commands[i + 1]
         /\ commands[1] = Head(commands) /\ Head(commands) \in ActorCommands
<1>1. commands \in Seq(ActorCommands) /\ commands # <<>> /\ commands' = Tail(commands)
  BY DEF OrderInv, CommandTypes, Takes
<1>. QED BY <1>1

(***************************************************************************)
(* The last press: WishInv.                                                *)
(***************************************************************************)
\* A command that neither connects nor ends a connection, nor exits, goes out.
LEMMA QueryKeepsWish ==
  ASSUME OrderInv, WishInv, NEW c, commands' = Append(commands, c), c.op = "Query" \/ (c.op = "Exit" /\ wish' # "on"),
         UNCHANGED <<timers, phase, owed, faults, actorTx>>, wish' = wish \/ wish' = "any"
  PROVE  WishInv'
<1>0. PICK n : n = Len(commands)
  OBVIOUS
<1>1. /\ n \in Nat /\ DOMAIN commands = 1..n /\ Len(commands') = n + 1 /\ DOMAIN commands' = 1..n + 1
      /\ \A i \in 1..n : commands'[i] = commands[i]
      /\ commands'[n + 1] = c
  BY <1>0, SentFacts
<1>2. /\ ConnectPending' => ConnectPending
      /\ DisconnectPending => DisconnectPending'
  BY <1>1 DEF ConnectPending, DisconnectPending
<1>3. OffComes'
  BY <1>2 DEF WishInv, OffComes
<1>4. ASSUME NEW i \in Nat, NEW k \in Nat, i <= k, EndsBefore(i) PROVE EndsBefore(k)'
  BY <1>1, <1>4 DEF EndsBefore
<1>5. ASSUME wish' = "on", faults' = 0, actorTx' PROVE TimerConnects' \/ CommandConnects' \/ StaysConnected'
  <2>0. c.op = "Query" /\ (TimerConnects \/ CommandConnects \/ StaysConnected)
    BY <1>5 DEF WishInv, OnComes
  <2>1. CASE TimerConnects
    <3>1. EndsBefore(n + 1)
      BY <1>0, <2>1 DEF TimerConnects
    <3>2. EndsBefore(n + 2)'
      <4>1. n + 1 \in Nat /\ n + 2 \in Nat /\ n + 1 <= n + 2
        BY <1>1
      <4>. QED BY <1>4, <3>1, <4>1
    <3>3. Len(timers') = 1 /\ ~ConnectPending'
      BY <1>2, <2>1 DEF TimerConnects
    <3>4. Len(commands') + 1 = n + 2
      BY <1>1
    <3>. QED BY <1>1, <3>2, <3>3, <3>4 DEF TimerConnects, EndsBefore
  <2>2. CASE CommandConnects
    <3>1. PICK i \in 1..n : /\ commands[i].op = "Connect" /\ EndsBefore(i)
                            /\ \A j \in 1..n : /\ j < i => commands[j].op # "Connect"
                                               /\ j > i => commands[j].op = "Query"
      BY <1>1, <2>2 DEF CommandConnects
    <3>2. EndsBefore(i)'
      BY <1>1, <1>4, <3>1
    <3>3. ASSUME NEW j \in 1..n + 1
          PROVE  /\ j < i => commands'[j].op # "Connect"
                 /\ j > i => commands'[j].op = "Query"
      <4>1. CASE j \in 1..n
        BY <1>1, <3>1, <4>1
      <4>2. CASE j = n + 1
        <5>1. ~(j < i)
          BY <1>1, <4>2
        <5>. QED BY <1>1, <2>0, <4>2, <5>1
      <4>. QED BY <1>1, <4>1, <4>2
    <3>4. i \in DOMAIN commands' /\ commands'[i].op = "Connect"
      BY <1>1, <3>1
    <3>5. timers' = <<>>
      BY <2>2 DEF CommandConnects
    <3>. QED BY <1>1, <3>2, <3>3, <3>4, <3>5 DEF CommandConnects
  <2>3. CASE StaysConnected
    BY <1>1, <2>0, <2>3 DEF StaysConnected
  <2>. QED BY <2>0, <2>1, <2>2, <2>3
<1>. QED BY <1>3, <1>5 DEF WishInv, OnComes

LEMMA ActorWish ==
  ASSUME OrderInv, OrderInv', WishInv, ActorMove, UNCHANGED <<timers, wish, actorTx>>, faults \in Nat
  PROVE  WishInv'
<1>t. owed \in Seq(SentCommands)
  BY DEF OrderInv, ActorTypes
\* The commands and the phase stay as they are, as far as they matter.
<1>s. ASSUME UNCHANGED <<commands, faults>>, phase' = phase \/ {phase, phase'} \subseteq Live
                                             \/ (phase = "dialing" /\ phase' = "startup"),
             \A i \in DOMAIN owed' : owed'[i].op = "Exit" => \E k \in DOMAIN owed : owed[k].op = "Exit"
      PROVE  WishInv'
  <2>1. ConnectPending' = ConnectPending /\ DisconnectPending' = DisconnectPending
    BY <1>s DEF ConnectPending, DisconnectPending
  <2>2. OffComes'
    BY <1>s, <2>1 DEF WishInv, OffComes, Live
  <2>3. \A n : EndsBefore(n) => EndsBefore(n)'
    BY <1>s DEF EndsBefore, Live
  <2>4. TimerConnects => TimerConnects'
    BY <1>s, <2>1, <2>3 DEF TimerConnects, EndsBefore, Live
  <2>5. CommandConnects => CommandConnects'
    BY <1>s, <2>3 DEF CommandConnects, EndsBefore, Live
  <2>6. StaysConnected => StaysConnected'
    BY <1>s DEF StaysConnected, Live
  <2>. QED BY <1>s, <2>2, <2>4, <2>5, <2>6 DEF WishInv, OnComes
\* The first command is taken.
<1>k. ASSUME Takes
      PROVE  /\ ConnectPending' => ConnectPending
             /\ Head(commands).op # "Connect" => ConnectPending' = ConnectPending
             /\ DisconnectPending => DisconnectPending' \/ Head(commands).op = "Disconnect"
             /\ Len(commands) \in Nat \ {0} /\ Len(commands') = Len(commands) - 1
             /\ DOMAIN commands = 1..Len(commands) /\ DOMAIN commands' = 1..Len(commands) - 1
             /\ \A i \in 1..Len(commands) - 1 : commands'[i] = commands[i + 1]
             /\ \A i \in 1..Len(commands) : i # 1 => i - 1 \in DOMAIN commands' /\ commands'[i - 1] = commands[i]
             /\ commands[1] = Head(commands)
  <2>1. /\ Len(commands) \in Nat \ {0} /\ Len(commands') = Len(commands) - 1
        /\ DOMAIN commands = 1..Len(commands) /\ DOMAIN commands' = 1..Len(commands) - 1
        /\ \A i \in 1..Len(commands) - 1 : commands'[i] = commands[i + 1]
        /\ commands[1] = Head(commands)
    BY <1>k, TakesFacts
  <2>2. ASSUME NEW i \in 1..Len(commands), i # 1
        PROVE  i - 1 \in DOMAIN commands' /\ commands'[i - 1] = commands[i]
    BY <2>1, <2>2
  <2>3. ASSUME NEW i \in DOMAIN commands' PROVE i + 1 \in DOMAIN commands /\ commands'[i] = commands[i + 1]
    BY <2>1
  <2>. QED BY <2>1, <2>2, <2>3 DEF ConnectPending, DisconnectPending
\* The Connect on its way is not the command taken: it is one closer.
<1>c. ASSUME Takes, CommandConnects, Head(commands).op # "Connect", phase' = "idle" \/ (phase' = phase /\ Head(commands).op # "Disconnect")
      PROVE  CommandConnects'
  <2>1. PICK i \in 1..Len(commands) :
          /\ commands[i].op = "Connect" /\ EndsBefore(i)
          /\ \A j \in 1..Len(commands) : /\ j < i => commands[j].op # "Connect"
                                         /\ j > i => commands[j].op = "Query"
    BY <1>c, <1>k DEF CommandConnects
  <2>2. i # 1 /\ i - 1 \in DOMAIN commands' /\ commands'[i - 1].op = "Connect"
    BY <1>c, <1>k, <2>1
  <2>3. \A j \in DOMAIN commands' : /\ j < i - 1 => commands'[j].op # "Connect"
                                    /\ j > i - 1 => commands'[j].op = "Query"
    <3>1. ASSUME NEW j \in DOMAIN commands'
          PROVE  j + 1 \in 1..Len(commands) /\ commands'[j] = commands[j + 1] /\ j \in Nat
      BY <1>c, <1>k
    <3>. QED BY <2>1, <3>1
  <2>4. EndsBefore(i - 1)'
    <3>1. CASE phase' = "idle"
      BY <3>1 DEF EndsBefore
    <3>2. CASE phase' = phase /\ phase \in Live /\ Head(commands).op # "Disconnect"
      <4>1. PICK j \in 1..Len(commands) : j < i /\ commands[j].op = "Disconnect"
        BY <1>c, <1>k, <2>1, <3>2 DEF EndsBefore, Live
      <4>2. j # 1 /\ j - 1 < i - 1
        BY <1>c, <1>k, <3>2, <4>1
      <4>. QED BY <1>c, <1>k, <3>2, <4>1, <4>2 DEF EndsBefore
    <3>. QED BY <1>c, <2>1, <3>1, <3>2 DEF EndsBefore
  <2>. QED BY <1>c, <2>2, <2>3, <2>4 DEF CommandConnects
<1>m. ASSUME Takes, TimerConnects, phase' = "idle" \/ (phase' = phase /\ Head(commands).op # "Disconnect")
      PROVE  TimerConnects'
  <2>1. EndsBefore(Len(commands) + 1) /\ ~ConnectPending' /\ Len(timers') = 1
    BY <1>k, <1>m DEF TimerConnects
  <2>n. PICK n : n = Len(commands)
    OBVIOUS
  <2>2. EndsBefore(n)'
    <3>1. CASE phase' = "idle"
      BY <3>1 DEF EndsBefore
    <3>2. CASE phase' = phase /\ phase \in Live /\ Head(commands).op # "Disconnect"
      <4>1. PICK j \in 1..Len(commands) : commands[j].op = "Disconnect"
        BY <1>k, <1>m, <2>1, <3>2 DEF EndsBefore, Live
      <4>2. j # 1 /\ j - 1 < n
        BY <1>k, <1>m, <2>n, <3>2, <4>1
      <4>. QED BY <1>k, <1>m, <3>2, <4>1, <4>2 DEF EndsBefore
    <3>. QED BY <1>m, <2>1, <3>1, <3>2 DEF EndsBefore
  <2>3. Len(commands') + 1 = n
    BY <1>k, <1>m, <2>n
  <2>. QED BY <2>1, <2>2, <2>3 DEF TimerConnects
<1>1. CASE StaysMove \/ StartupMove \/ MessageMove \/ ConnectedMove
  <2>1. UNCHANGED <<commands, faults>> /\ (phase' = phase \/ {phase, phase'} \subseteq Live
                                             \/ (phase = "dialing" /\ phase' = "startup"))
    BY <1>1 DEF StaysMove, StartupMove, MessageMove, ConnectedMove, Live
  <2>2. owed' = owed \/ owed' = Append(owed, Forward("Startup", 0)) \/ (owed # <<>> /\ owed' = Tail(owed))
    BY <1>1 DEF StaysMove, StartupMove, MessageMove, ConnectedMove
  <2>3. ASSUME NEW i \in DOMAIN owed', owed'[i].op = "Exit" PROVE \E k \in DOMAIN owed : owed[k].op = "Exit"
    <3>1. CASE owed' = owed
      BY <2>3, <3>1
    <3>2. CASE owed' = Append(owed, Forward("Startup", 0))
      BY <1>t, <2>3, <3>2 DEF Forward
    <3>3. CASE owed # <<>> /\ owed' = Tail(owed)
      <4>1. i + 1 \in DOMAIN owed /\ owed'[i] = owed[i + 1]
        BY <1>t, <3>3
      <4>. QED BY <2>3, <4>1
    <3>. QED BY <2>2, <3>1, <3>2, <3>3
  <2>. QED BY <1>s, <2>1, <2>3
<1>2. CASE ExitMove
  BY <1>2 DEF ExitMove, WishInv, OffComes, OnComes
<1>3. CASE IgnoreMove
  <2>1. Takes /\ Head(commands).op # "Connect" /\ phase = "idle" /\ phase' = "idle" /\ UNCHANGED faults
    BY <1>3 DEF IgnoreMove
  <2>2. OffComes'
    BY <1>k, <2>1 DEF WishInv, OffComes, Live
  <2>3. ~StaysConnected
    BY <2>1 DEF StaysConnected, Live
  <2>. QED BY <1>c, <1>m, <2>1, <2>2, <2>3 DEF WishInv, OnComes
<1>4. CASE DialMove
  <2>1. /\ Takes /\ Head(commands).op = "Connect" /\ phase = "idle" /\ phase' = "dialing"
        /\ UNCHANGED <<faults, owed>>
    BY <1>4 DEF DialMove
  <2>2. ConnectPending
    BY <1>k, <2>1 DEF ConnectPending
  <2>3. OffComes' /\ ~TimerConnects /\ ~StaysConnected
    BY <2>1, <2>2 DEF WishInv, OffComes, TimerConnects, StaysConnected, Live
  <2>4. ASSUME CommandConnects PROVE StaysConnected'
    <3>1. PICK i \in 1..Len(commands) :
            \A j \in 1..Len(commands) : /\ j < i => commands[j].op # "Connect"
                                        /\ j > i => commands[j].op = "Query"
      BY <1>k, <2>1, <2>4 DEF CommandConnects
    <3>2. i = 1
      <4>1. 1 \in 1..Len(commands) /\ commands[1].op = "Connect" /\ (i = 1 \/ 1 < i)
        BY <1>k, <2>1
      <4>. QED BY <3>1, <4>1
    <3>3. ASSUME NEW j \in DOMAIN commands' PROVE commands'[j].op = "Query"
      <4>1. j + 1 \in 1..Len(commands) /\ commands'[j] = commands[j + 1] /\ j + 1 > i
        BY <1>k, <2>1, <3>2
      <4>. QED BY <3>1, <4>1
    <3>4. owed' = <<>> /\ timers' = <<>>
      BY <2>1, <2>4 DEF OrderInv, StartupOwed, CommandConnects
    <3>. QED BY <2>1, <3>3, <3>4 DEF StaysConnected
  <2>. QED BY <2>1, <2>3, <2>4 DEF WishInv, OnComes
<1>5. CASE SendMove
  <2>1. /\ Takes /\ Head(commands).op \in {"Query", "Exit"} /\ phase = "running" /\ phase' = phase
        /\ owed' = Append(owed, Head(commands)) /\ UNCHANGED faults
    BY <1>5 DEF SendMove
  <2>2. OffComes'
    BY <1>k, <2>1 DEF WishInv, OffComes
  <2>3. ASSUME StaysConnected PROVE StaysConnected'
    <3>1. Head(commands).op = "Query"
      BY <1>k, <2>1, <2>3 DEF StaysConnected
    <3>2. \A i \in DOMAIN owed' : owed'[i].op # "Exit"
      BY <1>t, <2>1, <2>3, <3>1 DEF StaysConnected
    <3>3. ASSUME NEW i \in DOMAIN commands' PROVE commands'[i].op = "Query"
      <4>1. i + 1 \in DOMAIN commands /\ commands'[i] = commands[i + 1]
        BY <1>k, <2>1
      <4>. QED BY <2>3, <4>1 DEF StaysConnected
    <3>. QED BY <2>1, <2>3, <3>2, <3>3 DEF StaysConnected
  <2>. QED BY <1>c, <1>m, <2>1, <2>2, <2>3 DEF WishInv, OnComes
<1>6. CASE EndMove
  <2>1. phase \in Live \cup {"dialing"} /\ phase' = "idle" /\ (UNCHANGED commands \/ Takes)
    BY <1>6 DEF EndMove
  <2>2. UNCHANGED commands => ConnectPending' = ConnectPending
    BY DEF ConnectPending
  <2>3. OffComes'
    BY <1>k, <2>1, <2>2 DEF WishInv, OffComes, Live
  <2>4. CASE FaultGrows
    BY <2>3, <2>4 DEF FaultGrows, WishInv, OnComes
  <2>5. CASE UNCHANGED <<commands, faults>> /\ owed # <<>> /\ Head(owed).op = "Exit"
    <3>1. ~StaysConnected
      <4>1. 1 \in DOMAIN owed /\ owed[1].op = "Exit"
        BY <1>t, <2>5
      <4>. QED BY <4>1 DEF StaysConnected
    <3>2. (TimerConnects => TimerConnects') /\ (CommandConnects => CommandConnects')
      BY <2>1, <2>2, <2>5 DEF TimerConnects, CommandConnects, EndsBefore
    <3>. QED BY <2>3, <2>5, <3>1, <3>2 DEF WishInv, OnComes
  <2>6. CASE Takes /\ UNCHANGED faults /\ phase = "running" /\ Head(commands).op = "Connect"
    <3>1. ConnectPending
      BY <1>k, <2>6 DEF ConnectPending
    <3>2. ~TimerConnects /\ ~StaysConnected
      BY <1>k, <2>6, <3>1 DEF TimerConnects, StaysConnected
    <3>3. ~CommandConnects
      <4>1. 1 \in DOMAIN commands /\ commands[1].op = "Connect" /\ \A i \in DOMAIN commands : i = 1 \/ 1 < i
        BY <1>k, <2>6
      <4>2. ~EndsBefore(1)
        BY <1>k, <2>6 DEF EndsBefore
      <4>. QED BY <4>1, <4>2 DEF CommandConnects
    <3>. QED BY <2>3, <2>6, <3>2, <3>3 DEF WishInv, OnComes
  <2>7. CASE Takes /\ UNCHANGED faults /\ Head(commands).op = "Disconnect"
    <3>1. ~StaysConnected
      BY <1>k, <2>7 DEF StaysConnected
    <3>. QED BY <1>c, <1>m, <2>1, <2>3, <2>7, <3>1 DEF WishInv, OnComes
  <2>. QED BY <1>6, <2>4, <2>5, <2>6, <2>7 DEF EndMove
<1>. QED BY <1>1, <1>2, <1>3, <1>4, <1>5, <1>6 DEF ActorMove

\* With no connection to come, an App that shows none has none.
LEMMA SettledIdle ==
  ASSUME OrderInv, HeardInv, Settled, CanSend, appState = "Disconnected"
  PROVE  phase = "idle"
<1>1. AnnouncedAfter(0)
  BY DEF HeardInv, CanSend
<1>2. ~ConnectedWithin(0 + 1, Len(OnTheWay))
  <2>1. OnTheWay \in Seq(EventRecords)
    BY DEF OrderInv, EventTypes, OnTheWay
  <2>2. \A k \in 0 + 1..Len(OnTheWay) : k \in DOMAIN OnTheWay
    BY <2>1
  <2>. QED BY <2>2 DEF Settled, ConnectedWithin
<1>3. phase \notin Live
  BY <1>1, <1>2 DEF AnnouncedAfter
<1>. QED BY <1>3 DEF Settled, CanSend, OrderInv, ActorTypes, Phases, Live

LEMMA GoneWish ==
  ASSUME OnActorGone PROVE WishInv'
BY DEF OnActorGone, WishInv, OffComes, OnComes

LEMMA ConnectWish ==
  ASSUME OrderInv, HeardInv, NEW o, PressConnect(o)
  PROVE  WishInv'
<1>1. CASE OnActorGone
  BY <1>1, GoneWish
<1>2. CASE CanSend /\ SendActor(Connect(BuildStartupCommands(o)))
  <2>1. wish' \in {"on", "any"} /\ (wish' = "on" => Settled) /\ UNCHANGED <<timers, phase>>
    BY DEF PressConnect, Press, actorVars
  <2>2. ASSUME Settled PROVE CommandConnects'
    <3>1. phase' = "idle" /\ timers' = <<>>
      BY <1>2, <2>1, <2>2, SettledIdle DEF PressConnect, Settled
    <3>2. PICK n : n = Len(commands) + 1
      OBVIOUS
    <3>3. /\ n \in DOMAIN commands' /\ commands'[n].op = "Connect"
          /\ \A j \in DOMAIN commands' : j = n \/ (j < n /\ j \in DOMAIN commands /\ commands'[j] = commands[j])
      <4>1. commands' = Append(commands, Connect(BuildStartupCommands(o)))
        BY <1>2 DEF SendActor
      <4>2. Connect(BuildStartupCommands(o)).op = "Connect"
        BY DEF Connect
      <4>. QED BY <3>2, <4>1, <4>2, SentFacts
    <3>4. \A j \in DOMAIN commands' : (j < n => commands'[j].op # "Connect") /\ ~(j > n)
      <4>1. n \in Nat
        BY <3>2 DEF OrderInv, CommandTypes
      <4>. QED BY <2>2, <3>3, <4>1 DEF Settled
    <3>5. EndsBefore(n)'
      BY <3>1 DEF EndsBefore
    <3>. QED BY <3>1, <3>3, <3>4, <3>5 DEF CommandConnects
  <2>. QED BY <2>1, <2>2 DEF WishInv, OffComes, OnComes
<1>. QED BY <1>1, <1>2 DEF PressConnect

LEMMA ReconnectWish ==
  ASSUME OrderInv, NEW startup, PressReconnect(startup)
  PROVE  WishInv'
<1>1. CASE OnActorGone
  BY <1>1, GoneWish
<1>2. CASE CanSend /\ SendActor(Disconnect) /\ timers' = Append(timers, startup)
  <2>1. wish' \in {"on", "any"} /\ (wish' = "on" => Settled) /\ UNCHANGED phase
    BY DEF PressReconnect, Press, actorVars
  <2>2. ASSUME Settled PROVE TimerConnects'
    <3>1. Len(timers') = 1
      BY <1>2, <2>2 DEF Settled
    <3>2. PICK n : n = Len(commands) + 1
      OBVIOUS
    <3>3. /\ n \in DOMAIN commands' /\ commands'[n].op = "Disconnect" /\ Len(commands') = n /\ n \in Nat
          /\ \A j \in DOMAIN commands' : j = n \/ (j \in DOMAIN commands /\ commands'[j] = commands[j])
      <4>1. commands' = Append(commands, Disconnect)
        BY <1>2 DEF SendActor
      <4>2. Disconnect.op = "Disconnect"
        BY DEF Disconnect
      <4>. QED BY <3>2, <4>1, <4>2, SentFacts
    <3>4. ~ConnectPending'
      BY <2>2, <3>3 DEF Settled, ConnectPending
    <3>5. phase = "idle" \/ phase \in Live
      BY <1>2, <2>2 DEF Settled, CanSend, OrderInv, ActorTypes, Phases, Live
    <3>6. EndsBefore(n + 1)'
      BY <2>1, <3>3, <3>5 DEF EndsBefore
    <3>7. Len(commands') + 1 = n + 1
      BY <3>3
    <3>. QED BY <3>1, <3>4, <3>6, <3>7 DEF TimerConnects
  <2>. QED BY <2>1, <2>2 DEF WishInv, OffComes, OnComes
<1>. QED BY <1>1, <1>2 DEF PressReconnect

LEMMA DisconnectWish ==
  ASSUME OrderInv, PressDisconnect
  PROVE  WishInv'
<1>1. CASE OnActorGone
  BY <1>1, GoneWish
<1>2. CASE CanSend /\ SendActor(Disconnect)
  <2>1. wish' \in {"off", "any"} /\ (wish' = "off" => Settled) /\ UNCHANGED <<timers, phase>>
    BY DEF PressDisconnect, Press, actorVars
  <2>2. PICK n : n = Len(commands) + 1
    OBVIOUS
  <2>3. /\ n \in DOMAIN commands' /\ commands'[n].op = "Disconnect"
        /\ \A j \in DOMAIN commands' : j = n \/ (j \in DOMAIN commands /\ commands'[j] = commands[j])
    <3>1. commands' = Append(commands, Disconnect)
      BY <1>2 DEF SendActor
    <3>2. Disconnect.op = "Disconnect"
      BY DEF Disconnect
    <3>. QED BY <2>2, <3>1, <3>2, SentFacts
  <2>4. DisconnectPending' /\ (Settled => ~ConnectPending')
    BY <2>3 DEF DisconnectPending, ConnectPending, Settled
  <2>. QED BY <2>1, <2>4 DEF WishInv, OffComes, OnComes, Settled
<1>. QED BY <1>1, <1>2 DEF PressDisconnect

\* The timer of a reconnect is over.
LEMMA ReadyWish ==
  ASSUME OrderInv, WishInv, NEW i \in DOMAIN timers, ReconnectReady(i)
  PROVE  WishInv'
<1>0. timers \in Seq(Seq(StartupNames)) /\ i \in 1..Len(timers) /\ timers # <<>>
  BY DEF OrderInv, CommandTypes
<1>1. CASE OnActorGone
  BY <1>1, GoneWish
<1>2. CASE CanSend /\ SendActor(Connect(timers[i]))
  <2>1. UNCHANGED <<phase, faults, wish, actorTx>>
    BY <1>2 DEF ReconnectReady, SendActor, actorVars, boundVars, wishVars
  <2>2. actorTx
    BY <1>2 DEF CanSend
  <2>3. wish # "off"
    BY <1>0, <2>2 DEF WishInv, OffComes
  <2>4. ASSUME wish = "on", faults = 0 PROVE CommandConnects'
    <3>1. TimerConnects
      BY <1>0, <2>2, <2>4 DEF WishInv, OnComes, CommandConnects, StaysConnected
    <3>2. timers' = <<>>
      <4>1. i = 1 /\ Len(timers) = 1
        BY <1>0, <3>1 DEF TimerConnects
      <4>2. SubSeq(timers, 1, 0) = <<>> /\ SubSeq(timers, 2, 1) = <<>>
        BY <1>0
      <4>3. timers' = SubSeq(timers, 1, i - 1) \o SubSeq(timers, i + 1, Len(timers))
        BY DEF ReconnectReady, RemoveAt
      <4>. QED BY <4>1, <4>2, <4>3
    <3>3. PICK n : n = Len(commands) + 1
      OBVIOUS
    <3>4. /\ n \in DOMAIN commands' /\ commands'[n].op = "Connect" /\ n \in Nat
          /\ \A j \in DOMAIN commands : j \in DOMAIN commands' /\ commands'[j] = commands[j]
          /\ \A j \in DOMAIN commands' : j = n \/ (j < n /\ j \in DOMAIN commands /\ commands'[j] = commands[j])
      <4>1. commands' = Append(commands, Connect(timers[i]))
        BY <1>2 DEF SendActor
      <4>2. Connect(timers[i]).op = "Connect"
        BY DEF Connect
      <4>. QED BY <3>3, <4>1, <4>2, SentFacts
    <3>5. EndsBefore(n)'
      <4>1. EndsBefore(n)
        BY <3>1, <3>3 DEF TimerConnects
      <4>. QED BY <2>1, <3>4, <4>1 DEF EndsBefore
    <3>6. \A j \in DOMAIN commands' : (j < n => commands'[j].op # "Connect") /\ ~(j > n)
      BY <3>1, <3>4 DEF TimerConnects, ConnectPending
    <3>. QED BY <3>2, <3>4, <3>5, <3>6 DEF CommandConnects
  <2>. QED BY <2>1, <2>3, <2>4 DEF WishInv, OffComes, OnComes
<1>. QED BY <1>1, <1>2 DEF ReconnectReady

LEMMA AppWish ==
  ASSUME OrderInv, HeardInv, WishInv, User \/ App \/ UNCHANGED vars
  PROVE  WishInv'
<1>k. ASSUME UNCHANGED <<commands, timers, phase, owed, faults, actorTx, wish>> PROVE WishInv'
  BY <1>k DEF WishInv, OffComes, OnComes, TimerConnects, CommandConnects, StaysConnected, EndsBefore,
              ConnectPending, DisconnectPending
<1>1. CASE User
  <2>1. ASSUME NEW c \in Commands, SendAndRecord(c) PROVE WishInv'
    <3>1. CASE OnActorGone
      BY <3>1, GoneWish
    <3>2. CASE SendActor(Forward(c, typed + 1))
      <4>1. /\ commands' = Append(commands, Forward(c, typed + 1)) /\ Forward(c, typed + 1).op = c
            /\ UNCHANGED <<timers, phase, owed, faults, actorTx>>
        BY <2>1, <3>2 DEF SendAndRecord, SendActor, Forward, actorVars
      <4>2. /\ c \in {"Query", "Exit"} /\ wish' = IF c = "Exit" THEN "any" ELSE wish
        BY <2>1, ConnectionAssumption DEF SendAndRecord
      <4>. QED BY <4>1, <4>2, QueryKeepsWish
    <3>. QED BY <2>1, <3>1, <3>2 DEF SendAndRecord
  <2>2. CASE PressRefresh \/ RecordParseError
    BY <1>k, <2>2 DEF PressRefresh, RecordParseError, channelVars, actorVars, wishVars
  <2>. QED BY <1>1, <2>1, <2>2, ConnectWish, ReconnectWish, DisconnectWish DEF User
<1>2. CASE RefreshNext
  <2>1. CASE OnActorGone
    BY <2>1, GoneWish
  <2>2. CASE SendActor(Forward("Query", 0))
    <3>1. /\ commands' = Append(commands, Forward("Query", 0)) /\ Forward("Query", 0).op = "Query"
          /\ UNCHANGED <<timers, phase, owed, faults, actorTx, wish>>
      BY <1>2, <2>2 DEF RefreshNext, SendActor, Forward, actorVars, boundVars, wishVars
    <3>. QED BY <3>1, QueryKeepsWish
  <2>. QED BY <1>2, <2>1, <2>2 DEF RefreshNext
<1>3. CASE HandleEvent
  BY <1>k, <1>3 DEF HandleEvent, actorVars, boundVars
<1>4. CASE UNCHANGED vars
  BY <1>k, <1>4 DEF vars, appVars, channelVars, actorVars, boundVars, wishVars
<1>. QED BY <1>1, <1>2, <1>3, <1>4, ReadyWish DEF App

LEMMA WishInvariant == Spec => [](OrderInv /\ TypeOK /\ HeardInv /\ WishInv)
<1>1. Init => WishInv
  BY DEF Init, WishInv, OffComes, OnComes, ConnectPending, Live
<1>2. ASSUME OrderInv, OrderInv', TypeOK, HeardInv, WishInv, [Next]_vars PROVE WishInv'
  <2>1. CASE Actor \/ Transport
    <3>1. ActorMove /\ UNCHANGED <<timers, wish, actorTx>>
      BY <1>2, <2>1, ActorMoves, TransportMoves DEF appVars, wishVars
    <3>2. faults \in Nat
      BY <1>2, ConnectionAssumption DEF TypeOK
    <3>. QED BY <1>2, <3>1, <3>2, ActorWish
  <2>2. CASE User \/ App \/ UNCHANGED vars
    BY <1>2, <2>2, AppWish
  <2>. QED BY <1>2, <2>1, <2>2 DEF Next
<1>3. OrderInv /\ OrderInv' /\ TypeOK /\ HeardInv /\ WishInv /\ [Next]_vars => WishInv'
  BY <1>2
<1>. QED BY <1>1, <1>3, TypeInvariant, HeardInvariant, PTL DEF Spec

(***************************************************************************)
(* When nothing is on its way, the user's last press has been done, unless *)
(* it overlapped an earlier one: no connection is left after Disconnect,   *)
(* and after Connect, Reconnect and Verb reset there is one if nothing has *)
(* failed, whatever commands lie between the Disconnect of a reconnect and *)
(* the Connect of its timer.  (update of main.rs, run_idle and the select  *)
(* loop of actor.rs)                                                       *)
(***************************************************************************)
THEOREM LastWishDone == Spec => []LastWish
<1>1. ASSUME WishInv, Quiet PROVE /\ wish = "off" => phase = "idle"
                                  /\ wish = "on" /\ faults = 0 => phase = "running"
  <2>1. /\ actorTx /\ commands = <<>> /\ timers = <<>> /\ phase \in {"idle", "running"}
        /\ DOMAIN commands = {} /\ Len(timers) = 0
    BY <1>1 DEF Quiet
  <2>2. ~DisconnectPending /\ ~CommandConnects /\ ~TimerConnects
    BY <2>1 DEF DisconnectPending, CommandConnects, TimerConnects
  <2>. QED BY <1>1, <2>1, <2>2 DEF WishInv, OffComes, OnComes, StaysConnected, Live
<1>2. WishInv => LastWish
  BY <1>1 DEF LastWish
<1>. QED BY <1>2, WishInvariant, PTL
-----------------------------------------------------------------------------
(***************************************************************************)
(* A session of its own: FreshInv.                                         *)
(***************************************************************************)
LEMMA OnlyOfTold ==
  ASSUME OrderInv, NEW e, Tells(e), NEW n, NEW c, OnlyOf(n, c), UNCHANGED conn,
         e.what # "Connected", IsMessage(e) => phase \in Live, phase' \in Live => phase \in Live
  PROVE  OnlyOf(n, c)'
<1>1. e.conn = conn
  BY DEF Tells
<1>2. ASSUME NEW i \in DOMAIN OnTheWay'
      PROVE  (i \in DOMAIN OnTheWay /\ OnTheWay'[i] = OnTheWay[i]) \/ OnTheWay'[i] = e
  BY ToldFacts
<1>. QED BY <1>1, <1>2 DEF OnlyOf

\* Silent steps, and what is told but is no Connected.
LEMMA FreshSilent ==
  ASSUME OrderInv, FreshInv, UNCHANGED <<OnTheWay, conn, timers, shown, session, fresh>>,
         actorTx' => actorTx, appState' = "Connected" => appState = "Connected",
         phase' = phase \/ {phase, phase'} \subseteq Live,
         ConnectPending' <=> ConnectPending,
         OneConnect => OneConnect'
  PROVE  FreshInv'
<1>1. (phase' \in Live <=> phase \in Live) /\ (phase' = "dialing" <=> phase = "dialing") /\ (phase = "idle" <=> phase' = "idle")
  BY DEF Live
<1>2. \A n, c : /\ OnlyOf(n, c)' <=> OnlyOf(n, c)
                /\ OnlyEnds(n)' <=> OnlyEnds(n)
  BY <1>1 DEF OnlyOf, OnlyEnds
<1>3. (OnlyEndsCome' <=> OnlyEndsCome) /\ (Unheard' <=> Unheard)
  BY <1>1 DEF OnlyEndsCome, Unheard, ConnectedComes
<1>4. ASSUME NEW i \in DOMAIN OnTheWay, ConnectedAlone(i) PROVE ConnectedAlone(i)'
  BY <1>1, <1>4 DEF ConnectedAlone, OnlyOf, OnlyEnds
<1>. QED BY <1>1, <1>2, <1>3, <1>4 DEF FreshInv

LEMMA FreshTaken ==
  ASSUME OrderInv, FreshInv, Takes, Head(commands).op # "Connect", Silent,
         UNCHANGED <<conn, timers, shown, session, fresh, actorTx, appState, phase>>
  PROVE  FreshInv'
<1>1. \A i \in DOMAIN commands' : i + 1 \in DOMAIN commands /\ commands'[i] = commands[i + 1] /\ i \in Nat
  BY TakesFacts
<1>2. ASSUME NEW i \in DOMAIN commands, commands[i].op = "Connect" PROVE i - 1 \in DOMAIN commands' /\ commands'[i - 1] = commands[i]
  <2>1. i # 1
    BY <1>2, TakesFacts
  <2>. QED BY <2>1, TakesFacts
<1>3. ConnectPending' <=> ConnectPending
  BY <1>1, <1>2 DEF ConnectPending
<1>4. OneConnect => OneConnect'
  <2>1. SUFFICES ASSUME OneConnect, NEW i \in DOMAIN commands', NEW j \in DOMAIN commands',
                        commands'[i].op = "Connect", commands'[j].op = "Connect"
                 PROVE  i = j
    BY DEF OneConnect
  <2>2. i + 1 = j + 1 /\ i \in Nat /\ j \in Nat
    BY <1>1, <2>1 DEF OneConnect
  <2>. QED BY <2>2
<1>. QED BY <1>3, <1>4, FreshSilent DEF Silent

\* An event is told in a live connection, none of them Connected.
LEMMA FreshTold ==
  ASSUME OrderInv, FreshInv, NEW e, Tells(e), e.what # "Connected",
         phase \in Live, IsMessage(e) \/ phase' = "idle", phase' \in Live \cup {"idle"},
         ConnectPending' => ConnectPending,
         UNCHANGED <<conn, timers, shown, session, fresh, actorTx, appState>>
  PROVE  FreshInv'
<1>. SUFFICES ASSUME fresh, actorTx PROVE FreshInv'
  BY DEF FreshInv
<1>1. ~ConnectPending /\ ~ConnectPending' /\ phase \notin {"dialing", "idle"} /\ phase' # "dialing"
  BY DEF FreshInv, Live
<1>2. /\ DOMAIN OnTheWay = 1..Len(OnTheWay) /\ DOMAIN OnTheWay' = 1..Len(OnTheWay) + 1 /\ Len(OnTheWay) \in Nat
      /\ \A i \in 1..Len(OnTheWay) : OnTheWay'[i] = OnTheWay[i]
      /\ OnTheWay'[Len(OnTheWay) + 1] = e
  BY ToldFacts
<1>3. ASSUME NEW n, NEW c, OnlyOf(n, c) PROVE OnlyOf(n, c)'
  BY <1>3, OnlyOfTold DEF Live
<1>4. Unheard' <=> Unheard
  BY <1>1, <1>2 DEF Unheard, ConnectedComes
<1>5. ASSUME NEW i \in DOMAIN OnTheWay', OnTheWay'[i].what = "Connected" PROVE ConnectedAlone(i)'
  <2>1. i \in 1..Len(OnTheWay) /\ OnTheWay'[i] = OnTheWay[i]
    BY <1>2, <1>5
  <2>2. OnlyEnds(i - 1) /\ OnlyOf(i, OnTheWay[i].conn)
    BY <1>2, <1>5, <2>1 DEF FreshInv, ConnectedAlone
  <2>3. \A k \in 1..i - 1 : OnTheWay'[k] = OnTheWay[k]
    BY <1>2, <2>1
  <2>4. OnlyEnds(i - 1)'
    BY <2>2, <2>3 DEF OnlyEnds
  <2>5. PICK c : c = OnTheWay[i].conn
    OBVIOUS
  <2>6. OnlyOf(i, c)' /\ c = OnTheWay'[i].conn
    BY <1>3, <2>1, <2>2, <2>5
  <2>. QED BY <2>4, <2>6 DEF ConnectedAlone, OnlyOf
<1>6. PICK c : c = session
  OBVIOUS
<1>7. OnlyOf(0, session) => OnlyOf(0, session)'
  <2>1. session' = session
    OBVIOUS
  <2>. QED BY <1>3, <1>6, <2>1
<1>8. ASSUME NEW i \in DOMAIN OnTheWay' PROVE ConnectedAlone(i)'
  <2>1. CASE OnTheWay'[i].what = "Connected"
    BY <1>5, <2>1
  <2>2. CASE OnTheWay'[i].what # "Connected"
    BY <2>2 DEF ConnectedAlone
  <2>. QED BY <2>1, <2>2
<1>9. OneConnect'
  BY <1>1 DEF OneConnect, ConnectPending
<1>. QED BY <1>1, <1>4, <1>7, <1>8, <1>9 DEF FreshInv

LEMMA ActorFresh ==
  ASSUME OrderInv, FreshInv, ActorMove, UNCHANGED <<timers, shown, session, fresh, actorTx, appState>>
  PROVE  FreshInv'
<1>. SUFFICES ASSUME fresh, actorTx PROVE FreshInv'
  BY DEF FreshInv
<1>1. CASE StaysMove \/ StartupMove
  <2>1. /\ UNCHANGED <<OnTheWay, conn, commands>> /\ (phase' = phase \/ {phase, phase'} \subseteq Live)
    BY <1>1 DEF StaysMove, StartupMove, Silent, Live
  <2>2. (ConnectPending' <=> ConnectPending) /\ (OneConnect => OneConnect')
    BY <2>1 DEF ConnectPending, OneConnect
  <2>. QED BY <2>1, <2>2, FreshSilent
<1>2. CASE IgnoreMove \/ SendMove
  BY <1>2, FreshTaken DEF IgnoreMove, SendMove
<1>3. CASE ExitMove
  BY <1>3 DEF ExitMove
<1>4. CASE DialMove
  <2>1. /\ Takes /\ Head(commands).op = "Connect" /\ phase' = "dialing" /\ OnTheWay' = OnTheWay
    BY <1>4 DEF DialMove, Silent
  <2>2. ConnectPending
    BY <2>1, TakesFacts DEF ConnectPending
  <2>3. ~ConnectPending' /\ OneConnect'
    <3>1. ASSUME NEW i \in DOMAIN commands' PROVE commands'[i].op # "Connect"
      <4>1. i + 1 \in DOMAIN commands /\ commands'[i] = commands[i + 1] /\ i + 1 # 1 /\ 1 \in DOMAIN commands
            /\ commands[1] = Head(commands)
        BY <2>1, TakesFacts
      <4>. QED BY <2>1, <4>1 DEF FreshInv, OneConnect
    <3>. QED BY <3>1 DEF ConnectPending, OneConnect
  <2>4. Unheard /\ Unheard' /\ OnlyEndsCome /\ OnlyEndsCome'
    BY <2>1, <2>2 DEF Unheard, FreshInv, OnlyEndsCome
  <2>5. shown' = {} /\ appState' # "Connected" /\ timers' = <<>>
    BY <2>4 DEF FreshInv
  <2>6. \A i \in DOMAIN OnTheWay' : OnTheWay'[i].what # "Connected"
    BY <2>4 DEF OnlyEndsCome
  <2>7. \A i \in DOMAIN OnTheWay' : ConnectedAlone(i)'
    BY <2>6 DEF ConnectedAlone
  <2>. QED BY <2>3, <2>4, <2>5, <2>7 DEF FreshInv
<1>5. CASE ConnectedMove
  <2>1. PICK e : Tells(e) /\ e.what = "Connected"
    BY <1>5 DEF ConnectedMove
  <2>2. phase = "dialing" /\ phase' = "startup" /\ UNCHANGED <<commands, conn>> /\ e.conn = conn
    BY <1>5, <2>1 DEF ConnectedMove, Tells
  <2>3. /\ DOMAIN OnTheWay = 1..Len(OnTheWay) /\ DOMAIN OnTheWay' = 1..Len(OnTheWay) + 1 /\ Len(OnTheWay) \in Nat
        /\ \A i \in 1..Len(OnTheWay) : OnTheWay'[i] = OnTheWay[i]
        /\ OnTheWay'[Len(OnTheWay) + 1] = e
    BY <2>1, ToldFacts
  <2>4. ~ConnectPending' /\ OneConnect'
    BY <2>2 DEF FreshInv, ConnectPending, OneConnect
  <2>5. Unheard /\ OnlyEndsCome
    BY <2>2 DEF FreshInv, Unheard
  <2>6. Unheard'
    BY <2>1, <2>3 DEF Unheard, ConnectedComes
  <2>7. ASSUME NEW i \in DOMAIN OnTheWay', OnTheWay'[i].what = "Connected" PROVE ConnectedAlone(i)'
    <3>1. i = Len(OnTheWay) + 1
      BY <2>3, <2>5, <2>7 DEF OnlyEndsCome
    <3>2. \A k \in 1..i - 1 : OnTheWay'[k].what = "Disconnected"
      BY <2>3, <2>5, <3>1 DEF OnlyEndsCome
    <3>3. ~\E k \in DOMAIN OnTheWay' : k > i
      BY <2>3, <3>1
    <3>4. OnTheWay'[i].conn = conn'
      BY <2>2, <2>3, <3>1
    <3>. QED BY <3>2, <3>3, <3>4 DEF ConnectedAlone, OnlyEnds, OnlyOf
  <2>8. shown' = {} /\ appState' # "Connected" /\ timers' = <<>>
    BY <2>5 DEF FreshInv
  <2>9. \A i \in DOMAIN OnTheWay' : ConnectedAlone(i)'
    BY <2>7 DEF ConnectedAlone
  <2>10. OnlyEndsCome' \/ ~(ConnectPending' \/ phase' = "dialing")
    BY <2>2, <2>4
  <2>. QED BY <2>4, <2>6, <2>8, <2>9, <2>10 DEF FreshInv
<1>6. CASE MessageMove
  <2>1. PICK e : Tells(e) /\ IsMessage(e)
    BY <1>6 DEF MessageMove
  <2>2. ConnectPending' => ConnectPending
    BY <1>6 DEF MessageMove, ConnectPending
  <2>. QED BY <1>6, <2>1, <2>2, FreshTold DEF MessageMove, IsMessage
<1>7. CASE EndMove
  <2>1. PICK e : Tells(e) /\ e.what = "Disconnected"
    BY <1>7 DEF EndMove
  <2>2. phase \in Live \cup {"dialing"} /\ phase' = "idle" /\ UNCHANGED conn /\ (UNCHANGED commands \/ Takes)
    BY <1>7 DEF EndMove
  <2>3. ConnectPending' => ConnectPending
    <3>1. Takes => \A i \in DOMAIN commands' : i + 1 \in DOMAIN commands /\ commands'[i] = commands[i + 1]
      BY TakesFacts
    <3>. QED BY <2>2, <3>1 DEF ConnectPending
  <2>4. CASE phase \in Live
    BY <2>1, <2>2, <2>3, <2>4, FreshTold
  <2>5. CASE phase = "dialing"
    <3>1. ~ConnectPending' /\ OneConnect'
      BY <2>3, <2>5 DEF FreshInv, OneConnect, ConnectPending
    <3>2. Unheard /\ OnlyEndsCome
      BY <2>5 DEF FreshInv, Unheard
    <3>3. \A i \in DOMAIN OnTheWay' : OnTheWay'[i].what = "Disconnected"
      BY <2>1, <3>2, ToldFacts DEF OnlyEndsCome
    <3>4. ~Unheard'
      BY <2>2, <3>1, <3>3 DEF Unheard, ConnectedComes
    <3>5. OnlyOf(0, session)'
      BY <2>2, <3>3 DEF OnlyOf, IsMessage, Live
    <3>6. shown' = {} /\ timers' = <<>>
      BY <3>2 DEF FreshInv
    <3>7. \A i \in DOMAIN OnTheWay' : ConnectedAlone(i)'
      BY <3>3 DEF ConnectedAlone
    <3>. QED BY <2>2, <3>1, <3>4, <3>5, <3>6, <3>7 DEF FreshInv
  <2>. QED BY <2>2, <2>4, <2>5
<1>. QED BY <1>1, <1>2, <1>3, <1>4, <1>5, <1>6, <1>7 DEF ActorMove
\* The App's own steps.
LEMMA GoneFresh ==
  ASSUME OnActorGone PROVE FreshInv'
BY DEF OnActorGone, FreshInv

LEMMA SentFresh ==
  ASSUME OrderInv, FreshInv, NEW c, SendActor(c), c.op # "Connect",
         UNCHANGED <<OnTheWay, phase, conn, timers, shown, session, fresh>>,
         appState' = "Connected" => appState = "Connected"
  PROVE  FreshInv'
<1>1. /\ DOMAIN commands = 1..Len(commands) /\ DOMAIN commands' = 1..Len(commands) + 1 /\ Len(commands) \in Nat
      /\ \A i \in 1..Len(commands) : commands'[i] = commands[i]
      /\ commands'[Len(commands) + 1] = c
  BY SentFacts DEF SendActor
<1>2. (ConnectPending' <=> ConnectPending) /\ (OneConnect => OneConnect')
  BY <1>1 DEF ConnectPending, OneConnect
<1>3. UNCHANGED <<OnTheWay, conn, timers, shown, session, fresh>> /\ (actorTx' => actorTx) /\ phase' = phase
  BY DEF SendActor
<1>. QED BY <1>2, <1>3, FreshSilent

LEMMA ConnectFresh ==
  ASSUME OrderInv, HeardInv, NEW o, PressConnect(o)
  PROVE  FreshInv'
<1>1. CASE OnActorGone
  BY <1>1, GoneFresh
<1>2. CASE CanSend /\ SendActor(Connect(BuildStartupCommands(o)))
  <2>1. /\ fresh' = Settled /\ shown' = {} /\ appState' # "Connected" /\ UNCHANGED <<timers, OnTheWay, phase>>
    BY <1>2, GoneFresh DEF PressConnect, Press, ResetSessionData, actorVars, OnTheWay, OnActorGone, SendActor, CanSend
  <2>. SUFFICES ASSUME Settled PROVE FreshInv'
    BY <2>1 DEF FreshInv
  <2>2. phase' = "idle" /\ timers' = <<>>
    BY <1>2, <2>1, SettledIdle DEF PressConnect, Settled
  <2>3. /\ DOMAIN commands = 1..Len(commands) /\ DOMAIN commands' = 1..Len(commands) + 1 /\ Len(commands) \in Nat
        /\ \A i \in 1..Len(commands) : commands'[i] = commands[i]
        /\ commands'[Len(commands) + 1].op = "Connect"
    <3>1. commands' = Append(commands, Connect(BuildStartupCommands(o)))
      BY <1>2 DEF SendActor
    <3>2. Connect(BuildStartupCommands(o)).op = "Connect"
      BY DEF Connect
    <3>. QED BY <3>1, <3>2, SentFacts
  <2>4. ConnectPending' /\ OneConnect'
    BY <2>3 DEF ConnectPending, OneConnect, Settled
  <2>5. OnlyEndsCome'
    <3>1. AnnouncedAfter(0) /\ OnTheWay \in Seq(EventRecords)
      BY <1>2 DEF HeardInv, CanSend, PressConnect, OrderInv, EventTypes, OnTheWay
    <3>2. ASSUME NEW i \in DOMAIN OnTheWay PROVE ~IsMessage(OnTheWay[i])
      <4>1. \A k \in 0 + 1..i - 1 : k \in DOMAIN OnTheWay
        BY <3>1
      <4>2. 0 < i
        BY <3>1
      <4>. QED BY <3>1, <4>1, <4>2 DEF AnnouncedAfter, ConnectedWithin, Settled
    <3>. QED BY <2>1, <3>2 DEF OnlyEndsCome, IsMessage, Settled
  <2>6. \A i \in DOMAIN OnTheWay' : ConnectedAlone(i)'
    BY <2>5 DEF OnlyEndsCome, ConnectedAlone
  <2>. QED BY <2>1, <2>2, <2>4, <2>5, <2>6 DEF FreshInv, Unheard
<1>. QED BY <1>1, <1>2 DEF PressConnect

LEMMA EventFresh ==
  ASSUME OrderInv, FreshInv, HandleEvent
  PROVE  FreshInv'
<1>1. UNCHANGED <<actorTx, timers, commands, phase, conn, fresh>>
  BY DEF HandleEvent, actorVars
<1>. SUFFICES ASSUME fresh, actorTx PROVE FreshInv'
  BY <1>1 DEF FreshInv
<1>2. PICK n, e : n = Len(OnTheWay) /\ e = Head(events)
  OBVIOUS
<1>3. /\ n \in Nat \ {0} /\ DOMAIN OnTheWay = 1..n /\ DOMAIN OnTheWay' = 1..n - 1
      /\ \A i \in 1..n - 1 : OnTheWay'[i] = OnTheWay[i + 1]
      /\ OnTheWay[1] = e
  BY <1>2, TakenFacts
<1>4. (ConnectPending' <=> ConnectPending) /\ OneConnect'
  BY <1>1 DEF ConnectPending, OneConnect, FreshInv
<1>5. ASSUME NEW k \in Nat, NEW c, OnlyOf(k + 1, c) PROVE OnlyOf(k, c)'
  BY <1>1, <1>3, <1>5 DEF OnlyOf
<1>6. ASSUME NEW c, OnlyOf(0, c) PROVE OnlyOf(0, c)'
  BY <1>1, <1>3, <1>6 DEF OnlyOf
<1>7. ASSUME NEW i \in DOMAIN OnTheWay' PROVE ConnectedAlone(i)'
  <2>. SUFFICES ASSUME OnTheWay'[i].what = "Connected" PROVE ConnectedAlone(i)'
    BY DEF ConnectedAlone
  <2>1. /\ i \in 1..n - 1 /\ i + 1 \in DOMAIN OnTheWay /\ OnTheWay'[i] = OnTheWay[i + 1] /\ (i + 1) - 1 = i
    BY <1>3
  <2>2. ConnectedAlone(i + 1)
    BY <2>1 DEF FreshInv
  <2>3. \A k \in 1..i : OnTheWay[k].what = "Disconnected"
    BY <2>1, <2>2 DEF ConnectedAlone, OnlyEnds
  <2>4. \A k \in 1..i - 1 : OnTheWay'[k].what = "Disconnected"
    BY <1>3, <2>1, <2>3
  <2>5. PICK c : c = OnTheWay[i + 1].conn
    OBVIOUS
  <2>6. OnlyOf(i, c)' /\ c = OnTheWay'[i].conn
    BY <1>5, <2>1, <2>2, <2>5 DEF ConnectedAlone
  <2>. QED BY <2>4, <2>6 DEF ConnectedAlone, OnlyOf, OnlyEnds
<1>8. ConnectPending \/ phase = "dialing" => OnlyEndsCome /\ OnlyEndsCome' /\ e.what = "Disconnected"
  BY <1>3 DEF FreshInv, OnlyEndsCome
<1>9. ConnectPending' \/ phase' = "dialing" => OnlyEndsCome'
  BY <1>1, <1>4, <1>8
<1>10. ConnectedComes' => \E k \in DOMAIN OnTheWay : OnTheWay[k].what = "Connected" /\ k # 1
  BY <1>3 DEF ConnectedComes
<1>11. CASE HandleConnected(e)
  <2>1. e.what = "Connected" /\ session' = e.conn /\ UNCHANGED shown
    BY <1>11 DEF HandleConnected
  <2>2. OnlyOf(1, e.conn)
    BY <1>3, <2>1 DEF FreshInv, ConnectedAlone
  <2>3. OnlyOf(0, session)'
    <3>1. PICK c : c = e.conn
      OBVIOUS
    <3>2. OnlyOf(0, c)'
      BY <1>5, <2>2, <3>1
    <3>. QED BY <2>1, <3>1, <3>2 DEF OnlyOf
  <2>4. ~Unheard'
    BY <1>1, <1>3, <1>4, <1>8, <1>10, <2>1, <2>2 DEF Unheard, OnlyOf
  <2>5. shown' = {}
    BY <1>3, <2>1 DEF FreshInv, Unheard, ConnectedComes
  <2>. QED BY <1>1, <1>4, <1>7, <1>9, <2>1, <2>3, <2>4, <2>5 DEF FreshInv
<1>12. CASE HandleDisconnected(e)
  <2>1. e.what = "Disconnected" /\ appState' = "Disconnected" /\ UNCHANGED <<session, shown>>
    BY <1>12 DEF HandleDisconnected
  <2>2. Unheard' <=> Unheard
    <3>1. ASSUME NEW k \in DOMAIN OnTheWay, OnTheWay[k].what = "Connected"
          PROVE  k - 1 \in DOMAIN OnTheWay' /\ OnTheWay'[k - 1].what = "Connected"
      <4>1. k # 1
        BY <1>3, <2>1, <3>1
      <4>2. k - 1 \in 1..n - 1 /\ k - 1 + 1 = k
        BY <1>3, <4>1
      <4>. QED BY <1>3, <3>1, <4>2
    <3>. QED BY <1>1, <1>4, <1>10, <3>1 DEF Unheard, ConnectedComes
  <2>3. OnlyOf(0, session) => OnlyOf(0, session)'
    <3>1. PICK c : c = session
      OBVIOUS
    <3>2. OnlyOf(0, c) => OnlyOf(0, c)'
      BY <1>6
    <3>. QED BY <2>1, <3>1, <3>2 DEF OnlyOf
  <2>. QED BY <1>1, <1>4, <1>7, <1>9, <2>1, <2>2, <2>3 DEF FreshInv
<1>13. CASE HandleReply(e) \/ HandleInterlude(e)
  <2>1. IsMessage(e) /\ shown' = shown \cup {e.conn} /\ UNCHANGED <<session, appState>>
    BY <1>13 DEF HandleReply, HandleInterlude, IsMessage, AllInterludes
  <2>2. ~ConnectPending /\ phase # "dialing"
    BY <1>8, <2>1 DEF IsMessage
  <2>3. ~ConnectedComes
    <3>1. SUFFICES ASSUME NEW k \in DOMAIN OnTheWay, OnTheWay[k].what = "Connected" PROVE FALSE
      BY DEF ConnectedComes
    <3>2. k # 1 /\ 1 \in 1..k - 1
      BY <1>3, <2>1, <3>1 DEF IsMessage
    <3>3. OnTheWay[1].what = "Disconnected"
      BY <3>1, <3>2 DEF FreshInv, ConnectedAlone, OnlyEnds
    <3>. QED BY <1>3, <2>1, <3>3 DEF IsMessage
  <2>4. ~Unheard /\ ~Unheard'
    BY <1>1, <1>4, <1>10, <2>2, <2>3 DEF Unheard, ConnectedComes
  <2>5. shown \subseteq {session} /\ OnlyOf(0, session)
    BY <2>4 DEF FreshInv
  <2>6. e.conn = session
    BY <1>3, <2>1, <2>5 DEF OnlyOf
  <2>7. OnlyOf(0, session)'
    <3>1. PICK c : c = session
      OBVIOUS
    <3>2. OnlyOf(0, c)'
      BY <1>6, <2>5, <3>1
    <3>. QED BY <2>1, <3>1, <3>2 DEF OnlyOf
  <2>. QED BY <1>1, <1>4, <1>7, <1>9, <2>1, <2>2, <2>4, <2>5, <2>6, <2>7 DEF FreshInv
<1>. QED BY <1>2, <1>11, <1>12, <1>13 DEF HandleEvent

LEMMA AppFresh ==
  ASSUME OrderInv, HeardInv, FreshInv, User \/ App \/ UNCHANGED vars
  PROVE  FreshInv'
<1>k. ASSUME UNCHANGED <<OnTheWay, phase, conn, timers, shown, session, fresh, commands, actorTx, appState>> PROVE FreshInv'
  <2>1. (ConnectPending' <=> ConnectPending) /\ (OneConnect => OneConnect')
    BY <1>k DEF ConnectPending, OneConnect
  <2>. QED BY <1>k, <2>1, FreshSilent
<1>1. CASE User
  <2>. USE DEF SendActor
  <2>0. UNCHANGED <<OnTheWay, phase, conn>>
    BY <1>1, AppLeavesEvents
  <2>1. ASSUME NEW c \in Commands, SendAndRecord(c) PROVE FreshInv'
    <3>1. CASE OnActorGone
      BY <3>1, GoneFresh
    <3>2. CASE SendActor(Forward(c, typed + 1)) /\ UNCHANGED appState
      <4>1. Forward(c, typed + 1).op # "Connect" /\ UNCHANGED <<timers, shown, session, fresh>>
        BY <2>1, ConnectionAssumption DEF SendAndRecord, Forward
      <4>. QED BY <2>0, <3>2, <4>1, SentFresh
    <3>. QED BY <2>1, <3>1, <3>2 DEF SendAndRecord
  <2>2. CASE PressRefresh \/ RecordParseError
    BY <1>k, <2>0, <2>2 DEF PressRefresh, RecordParseError, channelVars, wishVars
  <2>3. CASE PressDisconnect
    <3>1. CASE OnActorGone
      BY <3>1, GoneFresh
    <3>2. CASE SendActor(Disconnect) /\ UNCHANGED appState
      <4>1. Disconnect.op # "Connect" /\ UNCHANGED <<timers, shown, session, fresh>>
        BY <2>3 DEF PressDisconnect, Press, Disconnect
      <4>. QED BY <2>0, <3>2, <4>1, SentFresh
    <3>. QED BY <2>3, <3>1, <3>2 DEF PressDisconnect
  <2>4. ASSUME NEW startup, PressReconnect(startup) PROVE FreshInv'
    BY <2>4 DEF PressReconnect, FreshInv
  <2>. QED BY <1>1, <2>1, <2>2, <2>3, <2>4, ConnectFresh DEF User
<1>2. CASE RefreshNext
  <2>0. UNCHANGED <<OnTheWay, phase, conn>>
    BY <1>2, AppLeavesEvents
  <2>1. CASE OnActorGone
    BY <2>1, GoneFresh
  <2>2. CASE SendActor(Forward("Query", 0)) /\ UNCHANGED appState
    <3>1. Forward("Query", 0).op # "Connect" /\ UNCHANGED <<timers, shown, session, fresh>>
      BY <1>2 DEF RefreshNext, Forward, wishVars
    <3>. QED BY <2>0, <2>2, <3>1, SentFresh
  <2>. QED BY <1>2, <2>1, <2>2 DEF RefreshNext
<1>3. ASSUME NEW i \in DOMAIN timers, ReconnectReady(i) PROVE FreshInv'
  <2>1. timers # <<>>
    BY <1>3 DEF OrderInv, CommandTypes
  <2>2. fresh' = fresh /\ (actorTx' => actorTx)
    BY <1>3 DEF ReconnectReady, SendActor, OnActorGone, wishVars
  <2>. QED BY <2>1, <2>2 DEF FreshInv
<1>4. CASE UNCHANGED vars
  BY <1>k, <1>4 DEF vars, appVars, channelVars, actorVars, wishVars, OnTheWay
<1>. QED BY <1>1, <1>2, <1>3, <1>4, EventFresh DEF App

LEMMA FreshInvariant == Spec => [](OrderInv /\ HeardInv /\ FreshInv)
<1>1. Init => FreshInv
  BY DEF Init, FreshInv
<1>2. ASSUME OrderInv, HeardInv, FreshInv, [Next]_vars PROVE FreshInv'
  <2>1. CASE Actor \/ Transport
    <3>1. ActorMove /\ UNCHANGED <<timers, shown, session, fresh, actorTx, appState>>
      BY <1>2, <2>1, ActorMoves, TransportMoves DEF appVars, wishVars
    <3>. QED BY <1>2, <3>1, ActorFresh
  <2>2. CASE User \/ App \/ UNCHANGED vars
    BY <1>2, <2>2, AppFresh
  <2>. QED BY <1>2, <2>1, <2>2 DEF Next
<1>3. OrderInv /\ HeardInv /\ FreshInv /\ [Next]_vars => FreshInv'
  BY <1>2
<1>. QED BY <1>1, <1>3, HeardInvariant, PTL DEF Spec

(***************************************************************************)
(* A session begun with the Connect button, with no other connection asked *)
(* for at that moment, shows only messages of the connection it is told of *)
(* next: whatever the earlier connections still had on their way has been  *)
(* handled, or is announced after the reset.  (reset_session_data and the  *)
(* event handler of main.rs, send_event of actor.rs)                       *)
(***************************************************************************)
THEOREM SessionIsFresh == Spec => []FreshSession
<1>1. FreshInv => FreshSession
  BY DEF FreshInv, FreshSession
<1>. QED BY <1>1, FreshInvariant, PTL
-----------------------------------------------------------------------------
(***************************************************************************)
(* A response of its own: ResponseInv.                                     *)
(***************************************************************************)
LEMMA ActorAnswers ==
  ASSUME OrderInv, ActorMove, NEW n, AnswerComes(n), UNCHANGED <<timers, actorTx>>
  PROVE  AnswerComes(n)'
<1>t. owed \in Seq(SentCommands)
  BY DEF OrderInv, ActorTypes
<1>1. timers = <<>> /\ ~ConnectPending /\ phase \in {"idle", "running", "exited"}
  BY DEF AnswerComes
<1>2. Takes => ~ConnectPending' /\ Head(commands).op # "Connect"
  <2>1. Takes => /\ \A i \in DOMAIN commands' : i + 1 \in DOMAIN commands /\ commands'[i] = commands[i + 1]
                 /\ 1 \in DOMAIN commands /\ commands[1] = Head(commands)
    BY TakesFacts
  <2>. QED BY <1>1, <2>1 DEF ConnectPending
<1>3. UNCHANGED commands => ~ConnectPending'
  BY <1>1 DEF ConnectPending
\* What comes does not change.
<1>s. ASSUME Silent PROVE /\ \A i \in DOMAIN OnTheWay' : OnTheWay'[i].what = "Reply" /\ ~ReplyBefore(i)' => OnTheWay'[i].id = n
                          /\ ReplyComes' <=> ReplyComes
  BY <1>s DEF Silent, AnswerComes, ReplyBefore, ReplyComes
\* What comes grows by one event.
<1>e. ASSUME NEW e, Tells(e), e.what = "Reply" /\ ~ReplyComes => e.id = n
      PROVE  /\ \A i \in DOMAIN OnTheWay' : OnTheWay'[i].what = "Reply" /\ ~ReplyBefore(i)' => OnTheWay'[i].id = n
             /\ ReplyComes' <=> ReplyComes \/ e.what = "Reply"
  <2>1. /\ DOMAIN OnTheWay = 1..Len(OnTheWay) /\ DOMAIN OnTheWay' = 1..Len(OnTheWay) + 1 /\ Len(OnTheWay) \in Nat
        /\ \A i \in 1..Len(OnTheWay) : OnTheWay'[i] = OnTheWay[i]
        /\ OnTheWay'[Len(OnTheWay) + 1] = e
    BY <1>e, ToldFacts
  <2>2. ASSUME NEW i \in DOMAIN OnTheWay', OnTheWay'[i].what = "Reply", ~ReplyBefore(i)'
        PROVE  OnTheWay'[i].id = n
    <3>1. CASE i \in 1..Len(OnTheWay)
      <4>1. ~ReplyBefore(i)
        BY <2>1, <2>2, <3>1 DEF ReplyBefore
      <4>. QED BY <2>1, <2>2, <3>1, <4>1 DEF AnswerComes
    <3>2. CASE i = Len(OnTheWay) + 1
      <4>1. \A j \in DOMAIN OnTheWay : OnTheWay[j].what # "Reply"
        BY <2>1, <2>2, <3>2 DEF ReplyBefore
      <4>. QED BY <1>e, <2>1, <2>2, <3>2, <4>1 DEF ReplyComes
    <3>. QED BY <2>1, <3>1, <3>2
  <2>3. ReplyComes' <=> ReplyComes \/ e.what = "Reply"
    BY <2>1 DEF ReplyComes
  <2>. QED BY <2>2, <2>3
<1>4. CASE StaysMove
  <2>1. phase' = phase /\ UNCHANGED <<commands, owed>> /\ Silent
    BY <1>1, <1>4 DEF StaysMove, Live
  <2>2. AnswerOwed(n) => AnswerOwed(n)'
    BY <2>1 DEF AnswerOwed
  <2>. QED BY <1>1, <1>3, <1>s, <2>1, <2>2 DEF AnswerComes
<1>5. CASE ExitMove \/ IgnoreMove
  <2>1. phase' \in {"idle", "exited"} /\ (UNCHANGED commands \/ Takes) /\ Silent
    BY <1>5 DEF ExitMove, IgnoreMove
  <2>. QED BY <1>1, <1>2, <1>3, <1>s, <2>1 DEF AnswerComes
<1>6. CASE MessageMove
  <2>1. PICK e : /\ Tells(e) /\ IsMessage(e)
                 /\ IF e.what = "Reply"
                    THEN /\ owed # <<>> /\ e.id = Head(owed).id /\ owed' = Tail(owed)
                    ELSE UNCHANGED owed
    BY <1>6 DEF MessageMove
  <2>2. phase = "running" /\ phase' = "running" /\ UNCHANGED commands
    BY <1>1, <1>6 DEF MessageMove, Live
  <2>3. e.what = "Reply" /\ ~ReplyComes => e.id = n
    BY <2>1, <2>2 DEF AnswerComes, AnswerOwed
  <2>4. e.what # "Reply" /\ AnswerOwed(n) => AnswerOwed(n)'
    BY <2>1, <2>2 DEF AnswerOwed
  <2>5. /\ \A i \in DOMAIN OnTheWay' : OnTheWay'[i].what = "Reply" /\ ~ReplyBefore(i)' => OnTheWay'[i].id = n
        /\ ReplyComes' <=> ReplyComes \/ e.what = "Reply"
    BY <1>e, <2>1, <2>3
  <2>. QED BY <1>1, <1>3, <2>2, <2>4, <2>5 DEF AnswerComes
<1>7. CASE SendMove
  <2>1. /\ Takes /\ Head(commands).op \in {"Query", "Exit"} /\ Silent
        /\ phase = "running" /\ phase' = "running" /\ owed' = Append(owed, Head(commands))
    BY <1>7 DEF SendMove
  <2>2. ASSUME AnswerOwed(n) PROVE AnswerOwed(n)'
    <3>1. owed' # <<>> /\ (owed # <<>> => Head(owed') = Head(owed)) /\ (owed = <<>> => Head(owed') = Head(commands))
      BY <1>t, <2>1
    <3>2. ASSUME NEW i \in DOMAIN commands, \A j \in 1..i - 1 : commands[j].op = "Disconnect" PROVE commands[i] = Head(commands)
      <4>1. commands[1] = Head(commands) /\ i \in Nat \ {0}
        BY <2>1, TakesFacts
      <4>. QED BY <2>1, <3>2, <4>1
    <3>3. commands # <<>>
      BY <2>1 DEF Takes
    <3>. QED BY <2>2, <3>1, <3>2, <3>3 DEF AnswerOwed
  <2>. QED BY <1>1, <1>2, <1>s, <2>1, <2>2 DEF AnswerComes
<1>8. CASE EndMove
  <2>1. PICK e : Tells(e) /\ e.what = "Disconnected"
    BY <1>8 DEF EndMove
  <2>2. phase' = "idle" /\ (UNCHANGED commands \/ Takes)
    BY <1>8 DEF EndMove
  <2>3. \A i \in DOMAIN OnTheWay' : OnTheWay'[i].what = "Reply" /\ ~ReplyBefore(i)' => OnTheWay'[i].id = n
    BY <1>e, <2>1
  <2>. QED BY <1>1, <1>2, <1>3, <2>2, <2>3 DEF AnswerComes
<1>. QED BY <1>1, <1>2, <1>4, <1>5, <1>6, <1>7, <1>8 DEF ActorMove, StartupMove, DialMove, ConnectedMove

\* The App sends a command that does not connect, or finds the actor gone.
LEMMA AppAnswers ==
  ASSUME OrderInv, NEW n, AnswerComes(n), UNCHANGED <<OnTheWay, phase, owed, timers>>, NEW c, c.op # "Connect",
         OnActorGone \/ (CanSend /\ SendActor(c))
  PROVE  AnswerComes(n)'
<1>1. ~ConnectPending' /\ (AnswerOwed(n) => AnswerOwed(n)')
  <2>1. CASE OnActorGone
    BY <2>1 DEF OnActorGone, ConnectPending, AnswerOwed, AnswerComes
  <2>2. CASE CanSend /\ SendActor(c)
    <3>1. /\ DOMAIN commands = 1..Len(commands) /\ DOMAIN commands' = 1..Len(commands) + 1 /\ Len(commands) \in Nat
          /\ \A i \in 1..Len(commands) : commands'[i] = commands[i]
          /\ commands'[Len(commands) + 1] = c
      BY <2>2, SentFacts DEF SendActor
    <3>2. ~ConnectPending'
      BY <3>1 DEF ConnectPending, AnswerComes
    <3>3. ASSUME NEW i \in DOMAIN commands, commands[i].op \in {"Query", "Exit"}, commands[i].id = n,
                 \A j \in 1..i - 1 : commands[j].op = "Disconnect"
          PROVE  /\ i \in DOMAIN commands' /\ commands'[i].op \in {"Query", "Exit"} /\ commands'[i].id = n
                 /\ \A j \in 1..i - 1 : commands'[j].op = "Disconnect"
      BY <3>1, <3>3
    <3>. QED BY <2>2, <3>2, <3>3 DEF AnswerOwed, CanSend
  <2>. QED BY <2>1, <2>2
<1>2. (ReplyComes' <=> ReplyComes) /\ \A i : ReplyBefore(i)' <=> ReplyBefore(i)
  BY DEF ReplyComes, ReplyBefore
<1>. QED BY <1>1, <1>2 DEF AnswerComes

\* The App takes an event that is no reply.
LEMMA EventAnswers ==
  ASSUME OrderInv, HandleEvent, NEW n, AnswerComes(n), Head(events).what # "Reply"
  PROVE  AnswerComes(n)'
<1>1. UNCHANGED <<actorTx, timers, commands, phase, owed>>
  BY DEF HandleEvent, actorVars
<1>2. PICK m : m = Len(OnTheWay)
  OBVIOUS
<1>3. /\ m \in Nat \ {0} /\ DOMAIN OnTheWay = 1..m /\ DOMAIN OnTheWay' = 1..m - 1
      /\ \A i \in 1..m - 1 : OnTheWay'[i] = OnTheWay[i + 1]
      /\ OnTheWay[1].what # "Reply"
  BY <1>2, TakenFacts
<1>4. ASSUME NEW k \in DOMAIN OnTheWay, OnTheWay[k].what = "Reply"
      PROVE  k - 1 \in DOMAIN OnTheWay' /\ OnTheWay'[k - 1].what = "Reply"
  <2>1. k # 1
    BY <1>3, <1>4
  <2>2. k - 1 \in 1..m - 1 /\ k - 1 + 1 = k
    BY <1>3, <2>1
  <2>. QED BY <1>3, <1>4, <2>2
<1>5. ReplyComes => ReplyComes'
  BY <1>4 DEF ReplyComes
<1>6. ASSUME NEW i \in DOMAIN OnTheWay', OnTheWay'[i].what = "Reply", ~ReplyBefore(i)'
      PROVE  OnTheWay'[i].id = n
  <2>1. i + 1 \in DOMAIN OnTheWay /\ OnTheWay'[i] = OnTheWay[i + 1] /\ i \in 1..m - 1
    BY <1>3
  <2>2. ASSUME NEW j \in 1..(i + 1) - 1, OnTheWay[j].what = "Reply" PROVE FALSE
    <3>1. j - 1 \in DOMAIN OnTheWay' /\ OnTheWay'[j - 1].what = "Reply"
      BY <1>3, <1>4, <2>1, <2>2
    <3>2. j - 1 \in 1..i - 1
      BY <1>3, <2>1, <3>1
    <3>. QED BY <1>6, <3>1, <3>2 DEF ReplyBefore
  <2>3. ~ReplyBefore(i + 1)
    BY <2>2 DEF ReplyBefore
  <2>. QED BY <1>6, <2>1, <2>3 DEF AnswerComes
<1>7. (AnswerOwed(n) => AnswerOwed(n)') /\ (ConnectPending' => ConnectPending)
  BY <1>1 DEF AnswerOwed, ConnectPending
<1>. QED BY <1>1, <1>5, <1>6, <1>7 DEF AnswerComes

\* The history stays, and so does what its last entry waits for.
LEMMA KeepsResponses ==
  ASSUME ResponseInv, UNCHANGED <<history, awaiting>>,
         \A n : awaiting /\ AnswerComes(n) => AnswerComes(n)'
  PROVE  ResponseInv'
<1>1. OwnResponse'
  BY DEF ResponseInv, OwnResponse
<1>2. ASSUME awaiting', history' # <<>>, Last(history').alone PROVE AnswerComes(Last(history).id)'
  <2>1. PICK n : n = Last(history).id
    OBVIOUS
  <2>2. AnswerComes(n)' /\ n = Last(history').id
    BY <1>2, <2>1 DEF ResponseInv
  <2>. QED BY <2>2 DEF AnswerComes, AnswerOwed
<1>. QED BY <1>1, <1>2 DEF ResponseInv

LEMMA SendResponses ==
  ASSUME OrderInv, TypeOK, ResponseInv, NEW c \in {"Query", "Exit"}, SendAndRecord(c), UNCHANGED <<OnTheWay, phase, owed>>
  PROVE  ResponseInv'
<1>1. /\ history' # <<>> /\ Last(history') = Entry(typed + 1) /\ history' \in Seq(Entries)
      /\ \A i \in DOMAIN history' : \/ history'[i] = Entry(typed + 1)
                                    \/ \E k \in DOMAIN history : history'[i] = history[k]
  BY RecordTypes
<1>2. Entry(typed + 1).responses = <<>> /\ Entry(typed + 1).alone = AtRest /\ Entry(typed + 1).id = typed + 1
  BY DEF Entry
<1>3. OwnResponse'
  <2>1. ASSUME NEW i \in DOMAIN history', history'[i].alone, NEW j \in DOMAIN history'[i].responses
        PROVE  history'[i].responses[j] = history'[i].id
    <3>1. CASE history'[i] = Entry(typed + 1)
      BY <1>2, <2>1, <3>1
    <3>2. CASE \E k \in DOMAIN history : history'[i] = history[k]
      BY <2>1, <3>2 DEF ResponseInv, OwnResponse
    <3>. QED BY <1>1, <3>1, <3>2
  <2>. QED BY <2>1 DEF OwnResponse
<1>4. ASSUME AtRest PROVE AnswerComes(Last(history).id)'
  <2>1. /\ phase = "running" /\ owed = <<>> /\ timers = <<>> /\ commands = <<>> /\ OnTheWay = <<>>
        /\ timers' = timers
    BY <1>4 DEF AtRest, OnTheWay, SendAndRecord
  <2>2. PICK n : n = typed + 1
    OBVIOUS
  <2>3. AnswerOwed(n)' /\ ~ConnectPending'
    <3>1. CASE OnActorGone
      BY <2>1, <3>1 DEF OnActorGone, AnswerOwed, ConnectPending
    <3>2. CASE CanSend /\ SendActor(Forward(c, typed + 1))
      <4>1. commands' = <<Forward(c, n)>> /\ Forward(c, n).op = c /\ Forward(c, n).id = n
        BY <2>1, <2>2, <3>2 DEF SendActor, Forward
      <4>2. DOMAIN commands' = {1} /\ commands'[1].op = c /\ commands'[1].id = n
        BY <4>1
      <4>. QED BY <2>1, <4>2 DEF AnswerOwed, ConnectPending
    <3>. QED BY <3>1, <3>2 DEF SendAndRecord
  <2>4. DOMAIN OnTheWay' = {}
    BY <2>1
  <2>5. AnswerComes(n)' /\ n = Last(history').id
    BY <1>1, <1>2, <2>1, <2>2, <2>3, <2>4 DEF AnswerComes
  <2>. QED BY <2>5 DEF AnswerComes, AnswerOwed
<1>. QED BY <1>1, <1>2, <1>3, <1>4 DEF ResponseInv

LEMMA ReplyResponses ==
  ASSUME OrderInv, TypeOK, ResponseInv, HandleEvent, HandleReply(Head(events))
  PROVE  ResponseInv'
<1>1. PICK e : e = Head(events)
  OBVIOUS
<1>2. e.what = "Reply" /\ AppendResponse(e.id) /\ awaiting' = FALSE
  BY <1>1 DEF HandleReply, AppendResponse
<1>3. OnTheWay[1] = e /\ 1 \in DOMAIN OnTheWay /\ e \in EventRecords
  BY <1>1, TakenFacts
<1>4. history \in Seq(Entries)
  BY DEF TypeOK, Entries
<1>5. ASSUME awaiting, history # <<>>, Last(history).alone PROVE e.id = Last(history).id
  <2>1. ~ReplyBefore(1)
    BY DEF ReplyBefore
  <2>. QED BY <1>2, <1>3, <1>5, <2>1 DEF ResponseInv, AnswerComes
<1>6. ASSUME NEW i \in DOMAIN history', history'[i].alone, NEW j \in DOMAIN history'[i].responses
      PROVE  history'[i].responses[j] = history'[i].id
  <2>1. CASE ~(awaiting /\ history # <<>>)
    BY <1>2, <1>6, <2>1 DEF AppendResponse, ResponseInv, OwnResponse
  <2>2. CASE awaiting /\ history # <<>>
    <3>1. PICK m : m = Len(history)
      OBVIOUS
    <3>2. m \in DOMAIN history /\ history[m] \in Entries /\ Last(history) = history[m]
      BY <1>4, <2>2, <3>1 DEF Last
    <3>3. history' = [history EXCEPT ![m] = [history[m] EXCEPT !.responses = Append(history[m].responses, e.id)]]
      BY <1>2, <2>2, <3>1 DEF AppendResponse
    <3>4. CASE i # m
      <4>1. i \in DOMAIN history /\ history'[i] = history[i]
        BY <1>4, <1>6, <3>3, <3>4
      <4>. QED BY <1>6, <4>1 DEF ResponseInv, OwnResponse
    <3>5. CASE i = m
      <4>1. /\ history'[i].responses = Append(history[m].responses, e.id)
            /\ history'[i].id = history[m].id /\ history'[i].alone = history[m].alone
            /\ history[m].responses \in Seq(Nat)
        BY <1>4, <3>2, <3>3, <3>5 DEF Entries
      <4>2. e.id = history[m].id
        BY <1>5, <1>6, <2>2, <3>2, <4>1
      <4>3. \A k \in DOMAIN history[m].responses : history[m].responses[k] = history[m].id
        BY <1>6, <3>2, <4>1 DEF ResponseInv, OwnResponse
      <4>4. PICK r \in Seq(Nat) : r = history[m].responses
        BY <4>1
      <4>5. j \in DOMAIN Append(r, e.id) /\ history'[i].responses[j] = Append(r, e.id)[j]
        BY <1>6, <4>1, <4>4
      <4>6. j \in DOMAIN r \/ j = Len(r) + 1
        BY <4>5
      <4>7. Append(r, e.id)[j] = IF j \in DOMAIN r THEN r[j] ELSE e.id
        BY <4>5, <4>6
      <4>. QED BY <4>1, <4>2, <4>3, <4>4, <4>5, <4>7
    <3>. QED BY <3>4, <3>5
  <2>. QED BY <2>1, <2>2
<1>. QED BY <1>2, <1>6 DEF ResponseInv, OwnResponse

LEMMA AppResponses ==
  ASSUME OrderInv, TypeOK, ResponseInv, User \/ App \/ UNCHANGED vars
  PROVE  ResponseInv'
<1>g. \A n : AnswerComes(n) /\ UNCHANGED <<OnTheWay, phase, owed, timers>> /\ OnActorGone => AnswerComes(n)'
  <2>1. Disconnect.op # "Connect"
    BY DEF Disconnect
  <2>. QED BY <2>1, AppAnswers
<1>s. ASSUME NEW c, c.op # "Connect", CanSend, SendActor(c), UNCHANGED <<OnTheWay, phase, owed, timers>>
      PROVE  \A n : AnswerComes(n) => AnswerComes(n)'
  BY <1>s, AppAnswers
<1>r. ASSUME history' = <<>> PROVE ResponseInv'
  <2>1. DOMAIN history' = {}
    BY <1>r
  <2>. QED BY <1>r, <2>1 DEF ResponseInv, OwnResponse
<1>1. CASE User
  <2>0. UNCHANGED <<OnTheWay, phase, owed>>
    BY <1>1, AppLeavesEvents
  <2>1. ASSUME NEW c \in Commands, SendAndRecord(c) PROVE ResponseInv'
    <3>1. c \in {"Query", "Exit"}
      BY ConnectionAssumption
    <3>. QED BY <2>0, <2>1, <3>1, SendResponses
  <2>2. CASE PressRefresh
    <3>1. UNCHANGED <<history, awaiting, timers, commands, actorTx>>
      BY <2>2 DEF PressRefresh, channelVars
    <3>2. \A n : AnswerComes(n) => AnswerComes(n)'
      BY <2>0, <3>1 DEF AnswerComes, AnswerOwed, ReplyBefore, ReplyComes, ConnectPending
    <3>. QED BY <3>1, <3>2, KeepsResponses
  <2>3. CASE PressDisconnect
    <3>1. UNCHANGED <<history, awaiting, timers>> /\ (OnActorGone \/ (CanSend /\ SendActor(Disconnect)))
      BY <2>3 DEF PressDisconnect
    <3>2. Disconnect.op # "Connect"
      BY DEF Disconnect
    <3>. QED BY <1>g, <1>s, <2>0, <3>1, <3>2, KeepsResponses
  <2>4. ASSUME NEW startup, PressReconnect(startup) PROVE ResponseInv'
    <3>1. CASE ResetSessionData
      BY <1>r, <3>1 DEF ResetSessionData
    <3>2. CASE OnActorGone /\ UNCHANGED <<history, awaiting, timers>>
      BY <1>g, <2>0, <3>2, KeepsResponses
    <3>. QED BY <2>4, <3>1, <3>2 DEF PressReconnect
  <2>5. ASSUME NEW o, PressConnect(o) PROVE ResponseInv'
    BY <1>r, <2>5 DEF PressConnect, ResetSessionData
  <2>6. CASE RecordParseError
    <3>1. /\ ~Last(history').alone
          /\ \A i \in DOMAIN history' : history'[i].alone => i \in DOMAIN history /\ history'[i] = history[i]
      BY <2>6, ParseErrorTypes
    <3>. QED BY <3>1 DEF ResponseInv, OwnResponse
  <2>. QED BY <1>1, <2>1, <2>2, <2>3, <2>4, <2>5, <2>6 DEF User
<1>2. CASE RefreshNext
  <2>1. UNCHANGED <<OnTheWay, phase, owed>>
    BY <1>2, AppLeavesEvents
  <2>2. /\ UNCHANGED <<history, awaiting, timers>>
        /\ OnActorGone \/ (CanSend /\ SendActor(Forward("Query", 0)))
    BY <1>2 DEF RefreshNext
  <2>3. Forward("Query", 0).op # "Connect"
    BY DEF Forward
  <2>. QED BY <1>g, <1>s, <2>1, <2>2, <2>3, KeepsResponses
<1>3. ASSUME NEW i \in DOMAIN timers, ReconnectReady(i) PROVE ResponseInv'
  <2>1. timers # <<>>
    BY <1>3 DEF OrderInv, CommandTypes
  <2>2. \A n : ~AnswerComes(n)
    BY <2>1 DEF AnswerComes
  <2>3. UNCHANGED <<history, awaiting>>
    BY <1>3 DEF ReconnectReady
  <2>. QED BY <2>2, <2>3, KeepsResponses
<1>4. CASE HandleEvent
  <2>1. CASE HandleReply(Head(events))
    BY <1>4, <2>1, ReplyResponses
  <2>2. CASE HandleConnected(Head(events)) \/ HandleDisconnected(Head(events)) \/ HandleInterlude(Head(events))
    <3>1. Head(events).what # "Reply" /\ UNCHANGED <<history, awaiting>>
      BY <2>2 DEF HandleConnected, HandleDisconnected, HandleInterlude, AllInterludes
    <3>2. \A n : AnswerComes(n) => AnswerComes(n)'
      BY <1>4, <3>1, EventAnswers
    <3>. QED BY <3>1, <3>2, KeepsResponses
  <2>. QED BY <1>4, <2>1, <2>2 DEF HandleEvent
<1>5. CASE UNCHANGED vars
  <2>1. UNCHANGED <<history, awaiting, timers, commands, actorTx, OnTheWay, phase, owed>>
    BY <1>5 DEF vars, appVars, channelVars, actorVars, OnTheWay
  <2>2. \A n : AnswerComes(n) => AnswerComes(n)'
    BY <2>1 DEF AnswerComes, AnswerOwed, ReplyBefore, ReplyComes, ConnectPending
  <2>. QED BY <2>1, <2>2, KeepsResponses
<1>. QED BY <1>1, <1>2, <1>3, <1>4, <1>5 DEF App

LEMMA ResponseInvariant == Spec => [](OrderInv /\ TypeOK /\ ResponseInv)
<1>1. Init => ResponseInv
  <2>1. ASSUME history = <<>> PROVE ResponseInv
    <3>1. DOMAIN history = {}
      BY <2>1
    <3>. QED BY <2>1, <3>1 DEF ResponseInv, OwnResponse
  <2>. QED BY <2>1 DEF Init
<1>2. ASSUME OrderInv, TypeOK, ResponseInv, [Next]_vars PROVE ResponseInv'
  <2>1. CASE Actor \/ Transport
    <3>1. ActorMove /\ UNCHANGED <<timers, actorTx, history, awaiting>>
      BY <1>2, <2>1, ActorMoves, TransportMoves DEF appVars
    <3>2. \A n : AnswerComes(n) => AnswerComes(n)'
      BY <1>2, <3>1, ActorAnswers
    <3>. QED BY <1>2, <3>1, <3>2, KeepsResponses
  <2>2. CASE User \/ App \/ UNCHANGED vars
    BY <1>2, <2>2, AppResponses
  <2>. QED BY <1>2, <2>1, <2>2 DEF Next
<1>3. OrderInv /\ TypeOK /\ ResponseInv /\ [Next]_vars => ResponseInv'
  BY <1>2
<1>. QED BY <1>1, <1>3, TypeInvariant, PTL DEF Spec

(***************************************************************************)
(* The first response shown under a command of the console that was sent   *)
(* when nothing was on its way is the answer to that command: neither a    *)
(* refresh nor a later command nor the startup of a reconnect can take its *)
(* place.  (send_and_record and append_command_response of main.rs, the    *)
(* select loop of actor.rs)                                                *)
(***************************************************************************)
THEOREM OwnResponseShown == Spec => []OwnResponse
<1>1. ResponseInv => OwnResponse
  BY DEF ResponseInv
<1>. QED BY <1>1, ResponseInvariant, PTL

(***************************************************************************)
(* The whole inductive invariant of the App, its actor and the channels    *)
(* between them, for every capacity of the channels, every history limit   *)
(* (which only lines that do not parse exceed) and every bound on what the *)
(* user and the server do.                                                 *)
(***************************************************************************)
THEOREM ConnectionInvariant == Spec => []ConnectionInv
BY TypeInvariant, AgreeInvariant, WishInvariant, FreshInvariant, ResponseInvariant, PTL DEF ConnectionInv
=============================================================================
