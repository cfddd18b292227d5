---------------------------- MODULE SessionProofs ----------------------------
(***************************************************************************)
(* Proofs about Session, for every set of commands and whatever goes wrong *)
(* in the pipeline under it.                                               *)
(***************************************************************************)
EXTENDS OrderlySession, FaultProofs, ReplyProofs

(***************************************************************************)
(* A step of the session is a step of the pipeline under it, or the server *)
(* hangs up.                                                               *)
(***************************************************************************)
LEMMA PipelineStep ==
  ASSUME [SessionNext]_allVars
  PROVE  [Next]_vars \/ HangUp
<1>1. ASSUME NEW c \in Commands, Call(c) \/ CallRejected(c) PROVE Next
  BY <1>1 DEF Call, CallRejected, Next
<1>2. CASE Receive
  <2>1. CASE ReceiveNone
    BY <2>1 DEF ReceiveNone, vars
  <2>2. CASE Polling
    BY <2>2 DEF Polling, Next
  <2>. QED
    BY <1>2, <2>1, <2>2 DEF Receive, ReceiveNothing, ReceiveNotification, ReceiveReply, ReceiveOther,
       ReceiveFailure
<1>3. CASE Cancel \/ DrainNotifications \/ NextStashed \/ NextNone
  BY <1>3 DEF Cancel, DrainNotifications, NextStashed, NextNone, vars
<1>4. CASE NextPolled
  BY <1>4 DEF NextPolled, Next
<1>5. CASE Answer \/ Interrupt
  BY <1>5 DEF Next
<1>6. CASE UNCHANGED allVars
  BY <1>6 DEF allVars
<1>. QED
  BY <1>1, <1>2, <1>3, <1>4, <1>5, <1>6 DEF SessionNext

\* The server leaves the client's side alone.
LEMMA ServerSteps ==
  ASSUME Answer \/ Interrupt
  PROVE  sent' = sent /\ rejected' = rejected /\ UNCHANGED outVars
<1>1. CASE Answer
  BY <1>1 DEF Answer, AnswerLine, AnswerBody, AnswerEnd, AnswerNothing, AnswerNotification, Emit
<1>2. CASE Interrupt
  BY <1>2 DEF Interrupt, Notify, OpenBlock, EnvLine, GarbledEnvLine, CloseBlock, Emit
<1>. QED BY <1>1, <1>2

LEMMA HangUpType ==
  ASSUME TypeOK, HangUp
  PROVE  TypeOK'
BY DEF HangUp, TypeOK, CodecTypeOK, FrameTypeOK, codecVars, frameVars, outVars

\* What a line decoded adds to the history: a reply, an event, an error or nothing.
LEMMA Returned ==
  ASSUME TypeOK, Decode
  PROVE  \/ \E m \in Messages(ReplyTags) : Reply(m)
         \/ \E m \in Messages(EventTags) : Event(m)
         \/ Fail
         \/ Silent
<1>1. PICK l \in Lines : \E id \in Nat : DecodeLine(l, id)
  BY DEF Decode, TypeOK
<1>2. PICK id \in Nat : DecodeLine(l, id)
  BY <1>1
<1>3. \/ \E m : Reply(m)
      \/ \E m : Event(m)
      \/ Fail
      \/ Silent
  BY <1>2, DecodeOutcomes, Zenon DEF DecodeClientEnv
<1>4. CodecTypeOK'
  BY <1>2, DecodeType DEF TypeOK
<1>5. ASSUME NEW m, Reply(m) PROVE m \in Messages(ReplyTags)
  BY <1>4, <1>5 DEF TypeOK, CodecTypeOK, Reply
<1>6. ASSUME NEW m, Event(m) PROVE m \in Messages(EventTags)
  BY <1>4, <1>6 DEF TypeOK, CodecTypeOK, Event
<1>. QED BY <1>3, <1>5, <1>6
-----------------------------------------------------------------------------
(***************************************************************************)
(* Notifications.                                                          *)
(***************************************************************************)
\* w has the places in e of all notifications, in order.
Told(w, e) == Increasing(w) /\ Elements(w) = {i \in DOMAIN e : e[i].tag = "Notification"}

LEMMA ConcatFacts ==
  ASSUME NEW S, NEW s \in Seq(S), NEW t \in Seq(S)
  PROVE  /\ s \o t \in Seq(S) /\ s \o <<>> = s /\ Len(s \o t) = Len(s) + Len(t)
         /\ \A x \in S : s \o Append(t, x) = Append(s \o t, x)
         /\ t # <<>> => Append(s, Head(t)) \o Tail(t) = s \o t
<1>1. ASSUME NEW x \in S PROVE s \o Append(t, x) = Append(s \o t, x)
  OBVIOUS
<1>2. ASSUME t # <<>> PROVE Append(s, Head(t)) \o Tail(t) = s \o t
  BY <1>2
<1>3. s \o <<>> = s
  OBVIOUS
<1>4. s \o t \in Seq(S) /\ Len(s \o t) = Len(s) + Len(t)
  OBVIOUS
<1>. QED BY <1>1, <1>2, <1>3, <1>4

LEMMA MoreEvents ==
  ASSUME NEW w \in Seq(Nat), NEW E, NEW e \in Seq(E), NEW m \in E, Told(w, e), NEW n \in Nat, n = Len(e) + 1
  PROVE  /\ m.tag # "Notification" => Told(w, Append(e, m))
         /\ m.tag = "Notification" => Told(Append(w, n), Append(e, m))
<1>1. PICK k \in Nat : k = Len(w) /\ DOMAIN w = 1..k
  OBVIOUS
<1>2. /\ DOMAIN e = 1..n - 1 /\ DOMAIN Append(e, m) = 1..n
      /\ \A i \in 1..n - 1 : Append(e, m)[i] = e[i]
      /\ Append(e, m)[n] = m
  BY AppendFacts
<1>3. ASSUME m.tag # "Notification"
      PROVE  {i \in 1..n : Append(e, m)[i].tag = "Notification"} = {i \in 1..n - 1 : e[i].tag = "Notification"}
  BY <1>2, <1>3
<1>4. ASSUME m.tag = "Notification"
      PROVE  {i \in 1..n : Append(e, m)[i].tag = "Notification"}
             = {i \in 1..n - 1 : e[i].tag = "Notification"} \cup {n}
  BY <1>2, <1>4
<1>5. /\ DOMAIN Append(w, n) = 1..k + 1
      /\ \A i \in 1..k : Append(w, n)[i] = w[i]
      /\ Append(w, n)[k + 1] = n
  BY <1>1, AppendFacts
<1>6. Elements(Append(w, n)) = Elements(w) \cup {n}
  <2>1. Elements(w) = {w[i] : i \in 1..k}
    BY <1>1 DEF Elements
  <2>2. Elements(Append(w, n)) = {Append(w, n)[i] : i \in 1..k + 1}
    BY <1>5 DEF Elements
  <2>3. 1..k + 1 = 1..k \cup {k + 1} /\ k + 1 \notin 1..k
    BY <1>1
  <2>. QED BY <1>5, <2>1, <2>2, <2>3
<1>7. \A i \in 1..k : w[i] \in 1..n - 1
  BY <1>1, <1>2 DEF Told, Elements
<1>8. Increasing(Append(w, n))
  BY <1>1, <1>5, <1>7 DEF Told, Increasing
<1>. QED BY <1>2, <1>3, <1>4, <1>6, <1>8 DEF Told

LEMMA SeqOf ==
  ASSUME NEW S, NEW T, S \subseteq T, NEW s \in Seq(S)
  PROVE  s \in Seq(T)
  OBVIOUS

\* What the commands sent, the replies and the events can become in a step.
LEMMA HistoryGrows ==
  ASSUME TypeOK, [SessionNext]_allVars
  PROVE  /\ TypeOK'
         /\ \/ Decode /\ sent' = sent
            \/ /\ UNCHANGED outVars
               /\ sent' = sent \/ \E c \in Commands : sent' = Append(sent, c)
         /\ Len(sent) \in Nat /\ Len(sent') \in Nat /\ Len(sent) <= Len(sent')
         /\ DOMAIN events = 1..Len(events) /\ DOMAIN events' = 1..Len(events')
         /\ Len(events) \in Nat /\ Len(events') \in Nat /\ Len(events) <= Len(events')
         /\ DOMAIN events \subseteq DOMAIN events' /\ DOMAIN events \subseteq Nat
<1>1. TypeOK'
  BY PipelineStep, HangUpType, TypeStep
<1>2. \/ Decode /\ sent' = sent
      \/ /\ UNCHANGED outVars
         /\ sent' = sent \/ \E c \in Commands : sent' = Append(sent, c)
  <2>1. CASE HangUp
    BY <2>1 DEF HangUp
  <2>2. CASE [Next]_vars
    <3>1. ASSUME NEW c \in Commands, Send(c) PROVE UNCHANGED outVars /\ sent' = Append(sent, c)
      BY <3>1 DEF Send, Encode
    <3>2. ASSUME NEW c \in Commands, SendRejected(c) PROVE UNCHANGED outVars /\ sent' = sent
      BY <3>2 DEF SendRejected, Encode
    <3>3. ASSUME NEW l, Emit(l) PROVE UNCHANGED outVars /\ sent' = sent
      BY <3>3 DEF Emit
    <3>4. SendsNothing => UNCHANGED outVars /\ sent' = sent
      BY DEF SendsNothing
    <3>5. UNCHANGED vars => UNCHANGED outVars /\ sent' = sent
      BY DEF vars
    <3>6. Decode => sent' = sent
      BY DEF Decode
    <3>. QED BY <2>2, <3>1, <3>2, <3>3, <3>4, <3>5, <3>6, Steps, Zenon
  <2>. QED BY <2>1, <2>2, PipelineStep
<1>3. /\ sent \in Seq(Commands) /\ sent' \in Seq(Commands)
      /\ events \in Seq(Messages(EventTags)) /\ events' \in Seq(Messages(EventTags))
  BY <1>1 DEF TypeOK, CodecTypeOK
<1>4. Len(sent) \in Nat /\ Len(sent') \in Nat /\ Len(sent) <= Len(sent')
  BY <1>2, <1>3, AppendFacts
<1>5. events' = events \/ \E m \in Messages(EventTags) : events' = Append(events, m)
  BY <1>2, Returned DEF Reply, Event, Fail, Silent, outVars
<1>6. Len(events) \in Nat /\ Len(events') \in Nat /\ Len(events) <= Len(events')
  BY <1>3, <1>5, AppendFacts
<1>. QED BY <1>1, <1>2, <1>3, <1>4, <1>6

LEMMA ReturnType ==
  ASSUME SessionTypeOK, NEW outcome \in Outcomes, NEW reply \in Nat, Return(outcome, reply),
         failures' \in Nat, rejected \in Nat
  PROVE  /\ results' \in Seq([call : Nat, outcome : Outcomes, reply : Nat, lag : Nat, clean : BOOLEAN])
         /\ call' = 0 /\ abandoned' \in Nat /\ cancels' = cancels /\ handed' = handed
<1>1. call \in Nat /\ abandoned \in Nat
  BY DEF SessionTypeOK, TypeOK
<1>2. [call |-> call, outcome |-> outcome, reply |-> reply, lag |-> abandoned,
       clean |-> failures' = 0 /\ rejected = 0]
      \in [call : Nat, outcome : Outcomes, reply : Nat, lag : Nat, clean : BOOLEAN]
  BY <1>1
<1>3. results' \in Seq([call : Nat, outcome : Outcomes, reply : Nat, lag : Nat, clean : BOOLEAN])
  BY <1>2, AppendFacts DEF Return, SessionTypeOK
<1>. QED BY <1>1, <1>3 DEF Return

LEMMA OutcomeType ==
  ASSUME NEW m
  PROVE  Outcome(m) \in Outcomes
BY DEF Outcome, Outcomes

LEMMA SessionTypeStep ==
  ASSUME SessionTypeOK, [SessionNext]_allVars
  PROVE  SessionTypeOK'
<1>1. TypeOK
  BY DEF SessionTypeOK
<1>2. /\ TypeOK' /\ DOMAIN events' = 1..Len(events') /\ Len(events') \in Nat
      /\ Len(sent) \in Nat /\ Len(sent') \in Nat /\ Len(sent) <= Len(sent')
  BY <1>1, HistoryGrows
<1>3. /\ stash \in Seq(DOMAIN events') /\ handed \in Seq(DOMAIN events')
      /\ results \in Seq([call : Nat, outcome : Outcomes, reply : Nat, lag : Nat, clean : BOOLEAN])
      /\ call \in 0..Len(sent') /\ abandoned \in Nat /\ cancels \in 0..MaxCancels /\ errored \in BOOLEAN
      /\ 0 \in 0..Len(sent')
  BY <1>1, <1>2, HistoryGrows, SeqOf DEF SessionTypeOK
<1>4. ASSUME NEW outcome \in Outcomes, NEW reply \in Nat, Return(outcome, reply), stash' = stash,
             errored' \in BOOLEAN
      PROVE  SessionTypeOK'
  <2>1. failures' \in Nat /\ rejected \in Nat
    BY <1>1, <1>2 DEF TypeOK, CodecTypeOK
  <2>. QED BY <1>2, <1>3, <1>4, <2>1, ReturnType DEF SessionTypeOK
<1>5. CASE UNCHANGED sessionVars
  BY <1>2, <1>3, <1>5 DEF sessionVars, callVars, SessionTypeOK
<1>6. ASSUME NEW c \in Commands, Call(c) PROVE SessionTypeOK'
  BY <1>2, <1>3, <1>6 DEF Call, SessionTypeOK
<1>7. CASE ReceiveNotification
  <2>1. Len(events') \in DOMAIN events'
    <3>1. events' # events
      BY <1>7 DEF ReceiveNotification, NewEvent
    <3>2. PICK m \in Messages(EventTags) : events' = Append(events, m)
      BY <1>1, <3>1, <1>7, Returned DEF ReceiveNotification, Polling, Reply, Event, Fail, Silent, outVars
    <3>3. events \in Seq(Messages(EventTags))
      BY <1>1 DEF TypeOK, CodecTypeOK
    <3>. QED BY <1>2, <3>2, <3>3, AppendFacts
  <2>2. stash' \in Seq(DOMAIN events')
    BY <1>3, <1>7, <2>1, AppendFacts DEF ReceiveNotification
  <2>. QED BY <1>2, <1>3, <1>7, <2>2 DEF ReceiveNotification, callVars, SessionTypeOK
<1>8. CASE ReceiveReply
  <2>1. Len(replies') \in Nat
    BY <1>2 DEF TypeOK, CodecTypeOK
  <2>. QED BY <1>3, <1>4, <1>8, <2>1, OutcomeType DEF ReceiveReply
<1>9. CASE ReceiveOther \/ ReceiveFailure \/ ReceiveNone
  BY <1>3, <1>4, <1>9 DEF ReceiveOther, ReceiveFailure, ReceiveNone, Outcomes
<1>10. CASE Cancel
  BY <1>2, <1>3, <1>10, SessionAssumption DEF Cancel, SessionTypeOK
<1>11. CASE DrainNotifications
  <2>1. handed \o stash \in Seq(DOMAIN events') /\ <<>> \in Seq(DOMAIN events')
    BY <1>3, ConcatFacts
  <2>. QED BY <1>2, <1>3, <1>11, <2>1 DEF DrainNotifications, callVars, SessionTypeOK
<1>12. CASE NextStashed
  <2>1. Append(handed, Head(stash)) \in Seq(DOMAIN events') /\ Tail(stash) \in Seq(DOMAIN events')
    BY <1>3, <1>12, AppendFacts, TailFacts DEF NextStashed
  <2>. QED BY <1>2, <1>3, <1>12, <2>1 DEF NextStashed, callVars, SessionTypeOK
<1>13. CASE NextPolled
  <2>1. NewEvent({"Notification"}) => Len(events') \in DOMAIN events'
    <3>1. SUFFICES ASSUME events' # events PROVE Len(events') \in DOMAIN events'
      BY DEF NewEvent
    <3>2. PICK m \in Messages(EventTags) : events' = Append(events, m)
      BY <1>1, <3>1, <1>13, Returned DEF NextPolled, Reply, Event, Fail, Silent, outVars
    <3>3. events \in Seq(Messages(EventTags))
      BY <1>1 DEF TypeOK, CodecTypeOK
    <3>. QED BY <1>2, <3>2, <3>3, AppendFacts
  <2>2. handed' \in Seq(DOMAIN events')
    BY <1>3, <1>13, <2>1, AppendFacts DEF NextPolled, PolledNext
  <2>3. abandoned' \in Nat /\ errored' \in BOOLEAN
    BY <1>3, <1>13 DEF NextPolled, PolledNext
  <2>. QED BY <1>2, <1>3, <1>13, <2>2, <2>3 DEF NextPolled, PolledNext, SessionTypeOK
<1>14. CASE NextNone
  BY <1>2, <1>3, <1>14 DEF NextNone, callVars, SessionTypeOK
<1>15. \/ UNCHANGED sessionVars
       \/ \E c \in Commands : Call(c)
       \/ ReceiveNotification \/ ReceiveReply \/ ReceiveOther \/ ReceiveFailure \/ ReceiveNone
       \/ Cancel \/ DrainNotifications \/ NextStashed \/ NextPolled \/ NextNone
  BY Zenon DEF SessionNext, Receive, ReceiveNothing, CallRejected, HangUp, allVars
<1>. QED
  BY <1>5, <1>6, <1>7, <1>8, <1>9, <1>10, <1>11, <1>12, <1>13, <1>14, <1>15

LEMMA NothingLostStep ==
  ASSUME SessionTypeOK, NothingLost, [SessionNext]_allVars
  PROVE  NothingLost'
<1>. DEFINE w == handed \o stash
<1>1. TypeOK /\ Told(w, events)
  BY DEF SessionTypeOK, NothingLost, Told
<1>2. /\ events \in Seq(Messages(EventTags)) /\ Len(events) \in Nat
      /\ stash \in Seq(Nat) /\ handed \in Seq(Nat)
      /\ w \in Seq(Nat) /\ handed \o <<>> = handed
  <2>1. stash \in Seq(Nat) /\ handed \in Seq(Nat)
    BY <1>1, HistoryGrows, SeqOf DEF SessionTypeOK
  <2>2. w \in Seq(Nat) /\ handed \o <<>> = handed
    BY <2>1, ConcatFacts
  <2>3. events \in Seq(Messages(EventTags)) /\ Len(events) \in Nat
    BY <1>1 DEF TypeOK, CodecTypeOK
  <2>. QED BY <2>1, <2>2, <2>3
<1>3. SUFFICES Told(w', events')
  BY DEF Told, NothingLost
<1>4. CASE w' = w /\ events' = events
  BY <1>1, <1>4
<1>5. events' = events \/ \E m \in Messages(EventTags) : events' = Append(events, m)
  BY <1>1, HistoryGrows, Returned DEF Reply, Event, Fail, Silent, outVars
<1>6. ASSUME w' = IF NewEvent({"Notification"}) THEN Append(w, Len(events')) ELSE w
      PROVE  Told(w', events')
  <2>1. CASE events' = events
    BY <1>1, <1>6, <2>1 DEF NewEvent
  <2>2. ASSUME NEW m \in Messages(EventTags), events' = Append(events, m) PROVE Told(w', events')
    <3>1. PICK n \in Nat : n = Len(events) + 1
      BY <1>2
    <3>2. Len(events') = n /\ events'[n] = m /\ events' # events
      BY <1>2, <2>2, <3>1, AppendFacts
    <3>3. w' = IF m.tag = "Notification" THEN Append(w, n) ELSE w
      BY <1>6, <3>2 DEF NewEvent
    <3>4. /\ m.tag # "Notification" => Told(w, Append(events, m))
          /\ m.tag = "Notification" => Told(Append(w, n), Append(events, m))
      BY <1>1, <1>2, <3>1, MoreEvents
    <3>. QED BY <2>2, <3>3, <3>4
  <2>. QED BY <1>5, <2>1, <2>2
<1>7. CASE ReceiveNotification
  <2>1. stash' = Append(stash, Len(events')) /\ handed' = handed /\ NewEvent({"Notification"})
    BY <1>7 DEF ReceiveNotification
  <2>2. Len(events') \in Nat
    BY <1>1, HistoryGrows
  <2>3. w' = Append(w, Len(events'))
    BY <1>2, <2>1, <2>2, ConcatFacts, SMTT(20)
  <2>. QED BY <1>6, <2>1, <2>3
<1>8. CASE NextPolled
  <2>1. /\ stash = <<>> /\ stash' = <<>>
        /\ handed' = IF NewEvent({"Notification"}) THEN Append(handed, Len(events')) ELSE handed
    BY <1>8 DEF NextPolled, PolledNext
  <2>2. Append(handed, Len(events')) \in Seq(Nat)
    BY <1>1, <1>2, HistoryGrows, AppendFacts
  <2>3. w = handed /\ w' = handed'
    BY <1>2, <2>1, <2>2, ConcatFacts
  <2>. QED BY <1>6, <2>1, <2>3
<1>9. CASE DrainNotifications
  <2>1. w' = w \o <<>> /\ events' = events
    BY <1>9 DEF DrainNotifications, outVars
  <2>. QED BY <1>2, <1>4, <2>1, ConcatFacts
<1>10. CASE NextStashed
  <2>1. w' = Append(handed, Head(stash)) \o Tail(stash) /\ stash # <<>> /\ events' = events
    BY <1>10 DEF NextStashed, outVars
  <2>. QED BY <1>2, <1>4, <2>1, ConcatFacts
<1>11. ASSUME stash' = stash /\ handed' = handed, ~NewEvent({"Notification"}) PROVE Told(w', events')
  BY <1>6, <1>11
<1>12. CASE ReceiveReply
  <2>1. events' = events
    BY <1>1, <1>12, Returned DEF ReceiveReply, Polling, NewReply, Reply, Event, Fail, Silent, outVars
  <2>. QED BY <1>11, <1>12, <2>1 DEF ReceiveReply, Return, NewEvent
<1>13. CASE ReceiveOther
  BY <1>11, <1>13 DEF ReceiveOther, Return, NewEvent
<1>14. CASE ReceiveFailure
  <2>1. events' = events
    <3>1. failures \in Nat
      BY <1>1 DEF TypeOK, CodecTypeOK
    <3>. QED
      BY <1>1, <1>14, <3>1, Returned DEF ReceiveFailure, Polling, Reply, Event, Fail, Silent, outVars
  <2>. QED BY <1>11, <1>14, <2>1 DEF ReceiveFailure, Return, NewEvent
<1>15. \/ UNCHANGED <<handed, stash, events>>
       \/ ReceiveNotification \/ ReceiveReply \/ ReceiveOther \/ ReceiveFailure
       \/ DrainNotifications \/ NextStashed \/ NextPolled
  <2>1. ASSUME NEW c \in Commands, Call(c) \/ CallRejected(c) PROVE UNCHANGED <<handed, stash, events>>
    BY <2>1 DEF Call, CallRejected, sessionVars, Send, SendRejected, Encode, outVars
  <2>2. ReceiveNothing \/ ReceiveNone \/ Cancel \/ NextNone \/ HangUp => UNCHANGED <<handed, stash, events>>
    BY DEF ReceiveNothing, ReceiveNone, Return, Cancel, NextNone, HangUp, sessionVars, outVars
  <2>3. UNCHANGED allVars => UNCHANGED <<handed, stash, events>>
    BY DEF allVars, vars, outVars, sessionVars
  <2>4. (Answer \/ Interrupt) /\ UNCHANGED sessionVars => UNCHANGED <<handed, stash, events>>
    BY DEF Answer, Interrupt, AnswerLine, AnswerBody, AnswerEnd, AnswerNothing, AnswerNotification,
       Notify, OpenBlock, EnvLine, GarbledEnvLine, CloseBlock, Emit, outVars, sessionVars
  <2>. QED BY <2>1, <2>2, <2>3, <2>4, Zenon DEF SessionNext, Receive
<1>16. UNCHANGED <<handed, stash, events>> => Told(w', events')
  BY <1>4
<1>. QED BY <1>7, <1>8, <1>9, <1>10, <1>12, <1>13, <1>14, <1>15, <1>16

LEMMA SessionInitially == SessionInit => SessionTypeOK /\ NothingLost
<1>. SUFFICES ASSUME SessionInit PROVE SessionTypeOK /\ NothingLost
  OBVIOUS
<1>1. TypeOK
  BY TypeInit DEF SessionInit
<1>2. <<>> \o <<>> = <<>> /\ 0 \in 0..Len(<<>>) /\ 0 \in 0..MaxCancels
  BY SessionAssumption
<1>3. SessionTypeOK
  BY <1>1, <1>2, EmptyFacts, Zenon DEF SessionInit, Init, SessionTypeOK
<1>4. events = <<>> /\ handed \o stash = <<>>
  BY <1>2 DEF SessionInit, Init, CodecInit
<1>5. NothingLost
  BY <1>4 DEF NothingLost, Increasing, Elements
<1>. QED BY <1>3, <1>5

(***************************************************************************)
(* Type correctness of the session.                                        *)
(***************************************************************************)
THEOREM SessionTypeCorrect == SessionSpec => []SessionTypeOK
  BY SessionInitially, SessionTypeStep, PTL DEF SessionSpec

(***************************************************************************)
(* No notification is lost and none is handed out twice or out of order,   *)
(* across answers, errors, dropped futures and a server that goes away.    *)
(***************************************************************************)
THEOREM NoNotificationLost == SessionSpec => []NothingLost
  BY SessionInitially, SessionTypeStep, NothingLostStep, PTL DEF SessionSpec
-----------------------------------------------------------------------------
(***************************************************************************)
(* Answers.                                                                *)
(***************************************************************************)
LEMMA HangUpOrderly ==
  ASSUME PipelineInv, HangUp
  PROVE  PipelineInv' /\ (Unfailed' <=> Unfailed)
<1>1. /\ UNCHANGED <<expectedQueue, multiLineBuf, replies, failures, sent, rejected, read, stream, served, body>>
      /\ closed'
  BY DEF HangUp, codecVars, outVars
<1>2. TypeOK' /\ ServerInv'
  BY <1>1, HangUpType, ServerHangsUp DEF PipelineInv
<1>3. Unfailed' <=> Unfailed
  BY <1>1 DEF Unfailed
<1>4. ClientInv => ClientInv'
  BY <1>1 DEF ClientInv, QueueAligned, LinesBehind, LinesAhead, BufCurrent, Answering, Terminal, Current
<1>5. RepliesMatch => RepliesMatch'
  BY <1>1 DEF RepliesMatch, Answers, AnswerLines
<1>. QED BY <1>2, <1>3, <1>4, <1>5 DEF PipelineInv

LEMMA SessionOrderly ==
  ASSUME PipelineInv, [SessionNext]_allVars
  PROVE  PipelineInv' /\ (Unfailed' => Unfailed)
<1>1. CASE HangUp
  BY <1>1, HangUpOrderly
<1>2. CASE [Next]_vars
  BY <1>2, OrderlyStep, StillFailed DEF PipelineInv
<1>. QED BY <1>1, <1>2, PipelineStep

\* An answer that has been given remains the answer.
LEMMA AnswersStable ==
  ASSUME TypeOK, [SessionNext]_allVars, NEW m, NEW k, Answers(m, k)
  PROVE  Answers(m, k)'
<1>1. ASSUME UNCHANGED stream, served' \in {served, served + 1} PROVE Answers(m, k)'
  BY <1>1 DEF Answers, AnswerLines, TypeOK
<1>2. ASSUME NEW l \in Lines, Emit(l), Emission(l) PROVE Answers(m, k)'
  <2>1. PICK n \in Nat :
          /\ n = Len(stream) /\ DOMAIN stream = 1..n /\ DOMAIN stream' = 1..n + 1
          /\ \A p \in 1..n : stream'[p] = stream[p]
          /\ stream'[n + 1] = l
    BY <1>2, StreamFacts
  <2>2. /\ l.cmd \in {0, served + 1} /\ served' \in {served, served + 1} /\ served \in Nat
    BY <1>2 DEF Emission, SendsNote, SendsHeader, SendsInside, SendsClose, SendsBody, SendsLast, SendsEntry,
       Answering1, InBlock, TypeOK
  <2>3. k \in 1..served /\ k \in 1..served'
    BY <2>2 DEF Answers
  <2>4. AnswerLines(k)' = AnswerLines(k)
    BY <2>1, <2>2, <2>3 DEF AnswerLines
  <2>5. PICK p \in 1..n : stream[p].cmd = k /\ stream[p].class = ClosingClass[m.tag]
    BY <2>1 DEF Answers
  <2>6. p \in DOMAIN stream' /\ stream'[p] = stream[p]
    BY <2>1
  <2>. QED BY <2>3, <2>4, <2>5, <2>6 DEF Answers
<1>3. CASE [Next]_vars
  BY <1>1, <1>2, <1>3, Steps DEF Send, SendRejected, Decode, SendsNothing, vars, serverVars
<1>4. CASE HangUp
  BY <1>1, <1>4 DEF HangUp
<1>. QED BY <1>3, <1>4, PipelineStep

\* No answer is a >PKCS11ID-ENTRY:.
LEMMA NoEntry ==
  ASSUME PipelineInv, Decode
  PROVE  ~NewEvent({"Pkcs11IdEntry"})
<1>. SUFFICES ASSUME events' # events PROVE events'[Len(events')].tag # "Pkcs11IdEntry"
  BY DEF NewEvent
<1>1. PICK d \in Nat : d = read + 1 /\ d \in DOMAIN stream /\ stream[d] \in Lines /\ DecodeLine(stream[d], d)
  BY DEF Decode, PipelineInv, TypeOK
<1>2. stream[d].class # "entry"
  BY <1>1, PipelineAssumption, EntryAssumption DEF PipelineInv, ServerInv, LinesFit, LineFits, BlockClasses
<1>3. PICK m : events' = Append(events, m) /\ m.tag # "Pkcs11IdEntry"
  <2>. DEFINE m == Msg(EventTag(stream[d]), <<d>>)
              e == [tag |-> "Notification", ids |-> <<clientNotification.header, d>>,
                    env |-> clientNotification.env]
  <2>1. stream[d].class \in NoteClasses => m.tag \in AsyncFrames
    BY <1>1, <1>2, FrameFacts DEF Msg, EventTag, NoteClasses, AsyncClasses
  <2>2. "Pkcs11IdEntry" \notin AsyncFrames /\ e.tag # "Pkcs11IdEntry"
    BY DEF AsyncFrames
  <2>3. \/ stream[d].class \in NoteClasses /\ events' = Append(events, m)
        \/ events' = Append(events, e)
    BY <1>1, EventOutcomes
  <2>. HIDE DEF m, e
  <2>. QED BY <2>1, <2>2, <2>3
<1>4. events'[Len(events')] = m
  BY <1>3 DEF PipelineInv, TypeOK, CodecTypeOK
<1>. QED BY <1>3, <1>4

\* Every method waits for the kind that the codec queues for its command.
LEMMA KindFits ==
  ASSUME NEW c \in SessionCommands, Awaits(c)
  PROVE  /\ c \in DOMAIN Methods /\ WantedTag(c) \in {"MultiLine", "Success"}
         /\ ExpectedResponse(c) = IF WantedTag(c) = "MultiLine" THEN "MultiLine" ELSE "SuccessOrError"
<1>. DEFINE Fits(tag) == /\ tag \in {"MultiLine", "Success"}
                         /\ ExpectedResponse(c) = IF tag = "MultiLine" THEN "MultiLine" ELSE "SuccessOrError"
<1>0. c \in DOMAIN Methods /\ c # "Exit" /\ c # "SetVersionBelow4"
  BY DEF Methods, Awaits
<1>1. CASE c \in InformationCommands
  <2>1. Fits(InformationMethods[c])
    BY <1>0, <1>1 DEF InformationMethods, InformationCommands, WaitFor, ExpectedResponse, MultiLineCommands,
       LineCommands, SilentCommands
  <2>2. c \notin NotificationCommands \cup ControlCommands \cup AuthenticationCommands \cup PromptCommands
                 \cup ClientCommands \cup ServerCommands \cup SessionOnly
    BY <1>1 DEF NotificationCommands, ControlCommands, AuthenticationCommands, PromptCommands,
       ClientCommands, ServerCommands, SessionOnly, InformationCommands
  <2>3. WantedTag(c) = InformationMethods[c]
    BY <1>0, <1>1, <2>2 DEF Methods, WantedTag
  <2>. QED BY <1>0, <2>1, <2>3
<1>2. CASE c \in NotificationCommands
  <2>1. Fits(NotificationMethods[c])
    BY <1>0, <1>2 DEF NotificationMethods, NotificationCommands, WaitFor, ExpectedResponse, MultiLineCommands,
       LineCommands, SilentCommands
  <2>2. c \notin InformationCommands \cup ControlCommands \cup AuthenticationCommands \cup PromptCommands
                 \cup ClientCommands \cup ServerCommands \cup SessionOnly
    BY <1>2 DEF InformationCommands, ControlCommands, AuthenticationCommands, PromptCommands,
       ClientCommands, ServerCommands, SessionOnly, NotificationCommands
  <2>3. WantedTag(c) = NotificationMethods[c]
    BY <1>0, <1>2, <2>2 DEF Methods, WantedTag
  <2>. QED BY <1>0, <2>1, <2>3
<1>3. CASE c \in ControlCommands
  <2>1. Fits(ControlMethods[c])
    BY <1>0, <1>3 DEF ControlMethods, ControlCommands, WaitFor, ExpectedResponse, MultiLineCommands,
       LineCommands, SilentCommands
  <2>2. c \notin InformationCommands \cup NotificationCommands \cup AuthenticationCommands \cup PromptCommands
                 \cup ClientCommands \cup ServerCommands \cup SessionOnly
    BY <1>3 DEF InformationCommands, NotificationCommands, AuthenticationCommands, PromptCommands,
       ClientCommands, ServerCommands, SessionOnly, ControlCommands
  <2>3. WantedTag(c) = ControlMethods[c]
    BY <1>0, <1>3, <2>2 DEF Methods, WantedTag
  <2>. QED BY <1>0, <2>1, <2>3
<1>4. CASE c \in AuthenticationCommands
  <2>1. Fits(AuthenticationMethods[c])
    BY <1>0, <1>4 DEF AuthenticationMethods, AuthenticationCommands, WaitFor, ExpectedResponse, MultiLineCommands,
       LineCommands, SilentCommands
  <2>2. c \notin InformationCommands \cup NotificationCommands \cup ControlCommands \cup PromptCommands
                 \cup ClientCommands \cup ServerCommands \cup SessionOnly
    BY <1>4 DEF InformationCommands, NotificationCommands, ControlCommands, PromptCommands,
       ClientCommands, ServerCommands, SessionOnly, AuthenticationCommands
  <2>3. WantedTag(c) = AuthenticationMethods[c]
    BY <1>0, <1>4, <2>2 DEF Methods, WantedTag
  <2>. QED BY <1>0, <2>1, <2>3
<1>5. CASE c \in PromptCommands
  <2>1. Fits(PromptMethods[c])
    BY <1>0, <1>5 DEF PromptMethods, PromptCommands, WaitFor, ExpectedResponse, MultiLineCommands,
       LineCommands, SilentCommands
  <2>2. c \notin InformationCommands \cup NotificationCommands \cup ControlCommands \cup AuthenticationCommands
                 \cup ClientCommands \cup ServerCommands \cup SessionOnly
    BY <1>5 DEF InformationCommands, NotificationCommands, ControlCommands, AuthenticationCommands,
       ClientCommands, ServerCommands, SessionOnly, PromptCommands
  <2>3. WantedTag(c) = PromptMethods[c]
    BY <1>0, <1>5, <2>2 DEF Methods, WantedTag
  <2>. QED BY <1>0, <2>1, <2>3
<1>6. CASE c \in ClientCommands
  <2>1. Fits(ClientMethods[c])
    BY <1>0, <1>6 DEF ClientMethods, ClientCommands, WaitFor, ExpectedResponse, MultiLineCommands,
       LineCommands, SilentCommands
  <2>2. c \notin InformationCommands \cup NotificationCommands \cup ControlCommands \cup AuthenticationCommands
                 \cup PromptCommands \cup ServerCommands \cup SessionOnly
    BY <1>6 DEF InformationCommands, NotificationCommands, ControlCommands, AuthenticationCommands,
       PromptCommands, ServerCommands, SessionOnly, ClientCommands
  <2>3. WantedTag(c) = ClientMethods[c]
    BY <1>0, <1>6, <2>2 DEF Methods, WantedTag
  <2>. QED BY <1>0, <2>1, <2>3
<1>7. CASE c \in ServerCommands \cup SessionOnly
  <2>1. Fits(ServerMethods[c])
    BY <1>0, <1>7 DEF ServerMethods, ServerCommands, SessionOnly, WaitFor, ExpectedResponse, MultiLineCommands,
       LineCommands, SilentCommands
  <2>2. c \notin InformationCommands \cup NotificationCommands \cup ControlCommands \cup AuthenticationCommands
                 \cup PromptCommands \cup ClientCommands
    BY <1>7 DEF InformationCommands, NotificationCommands, ControlCommands, AuthenticationCommands,
       PromptCommands, ClientCommands, ServerCommands, SessionOnly
  <2>3. WantedTag(c) = ServerMethods[c]
    BY <1>0, <1>7, <2>2 DEF Methods, WantedTag
  <2>. QED BY <1>0, <2>1, <2>3
<1>. QED BY <1>0, <1>1, <1>2, <1>3, <1>4, <1>5, <1>6, <1>7 DEF SessionCommands

\* The reply to a command is of the kind its method waits for, or an error.
LEMMA ReplyExpected ==
  ASSUME PipelineInv, NEW k \in 1..Len(sent), Awaits(sent[k]), NEW m, Answers(m, k)
  PROVE  m.tag = "Error" \/ m.tag = WantedTag(sent[k])
<1>1. sent[k] \in SessionCommands
  BY SessionAssumption DEF PipelineInv, TypeOK
<1>2. PICK p \in DOMAIN stream : stream[p].cmd = k /\ stream[p].class = ClosingClass[m.tag]
  BY DEF Answers
<1>3. m.tag \in {"Success", "Error", "MultiLine"}
  BY DEF Answers, ClosingClass
<1>4. LineFits(sent, stream[p]) /\ stream[p].cmd # 0
  BY <1>2 DEF PipelineInv, ServerInv, LinesFit
<1>5. CASE m.tag = "Success"
  <2>1. stream[p].class = "success"
    BY <1>2, <1>5 DEF ClosingClass
  <2>2. ExpectedResponse(sent[k]) = "SuccessOrError"
    BY <1>2, <1>4, <2>1, PipelineAssumption DEF LineFits
  <2>. QED BY <1>1, <1>5, <2>2, KindFits
<1>6. CASE m.tag = "MultiLine"
  <2>1. stream[p].class = "end"
    BY <1>2, <1>6 DEF ClosingClass
  <2>2. ExpectedResponse(sent[k]) = "MultiLine"
    BY <1>2, <1>4, <2>1, PipelineAssumption DEF LineFits
  <2>. QED BY <1>1, <1>6, <2>2, KindFits
<1>. QED BY <1>3, <1>5, <1>6

\* What the step of a method or of the stream can do to the replies.
LEMMA RepliesGrow ==
  ASSUME TypeOK, [SessionNext]_allVars
  PROVE  /\ replies \in Seq(Messages(ReplyTags)) /\ Len(replies) \in Nat /\ Len(replies') \in Nat
         /\ \A i \in 1..Len(replies) : replies'[i] = replies[i]
         /\ Len(replies) <= Len(replies')
         /\ replies' = replies \/ (Len(replies') = Len(replies) + 1 /\ events' = events)
<1>1. TypeOK'
  BY HistoryGrows
<1>2. \/ UNCHANGED replies
      \/ events' = events /\ \E m \in Messages(ReplyTags) : replies' = Append(replies, m)
  BY HistoryGrows, Returned DEF outVars, Reply, Event, Fail, Silent
<1>3. replies \in Seq(Messages(ReplyTags)) /\ replies' \in Seq(Messages(ReplyTags))
  BY <1>1 DEF TypeOK, CodecTypeOK
<1>. QED BY <1>2, <1>3, AppendFacts

\* A reply that has been decoded stays, and so does what it answers.
LEMMA ResultsStay ==
  ASSUME TypeOK, [SessionNext]_allVars, NEW n \in 1..Len(replies), NEW k, Answers(replies[n], k)
  PROVE  Answers(replies[n], k)'
<1>1. replies'[n] = replies[n]
  BY RepliesGrow
<1>2. PICK m : m = replies[n]
  OBVIOUS
<1>3. Answers(m, k)'
  BY <1>2, AnswersStable
<1>. QED BY <1>1, <1>2, <1>3

\* One more result.
LEMMA ResultAdded ==
  ASSUME SessionTypeOK, NEW r, results' = Append(results, r), NEW i \in DOMAIN results'
  PROVE  \/ i \in DOMAIN results /\ results'[i] = results[i]
         \/ results'[i] = r
BY AppendFacts, SMTT(20) DEF SessionTypeOK

LEMMA ResultType ==
  ASSUME SessionTypeOK, NEW i \in DOMAIN results
  PROVE  results[i] \in [call : Nat, outcome : Outcomes, reply : Nat, lag : Nat, clean : BOOLEAN]
<1>. DEFINE R == [call : Nat, outcome : Outcomes, reply : Nat, lag : Nat, clean : BOOLEAN]
<1>1. results \in Seq(R)
  BY DEF SessionTypeOK
<1>. HIDE DEF R
<1>2. results[i] \in R
  BY <1>1
<1>. QED BY <1>2 DEF R

\* What has been returned so far remains true.
LEMMA PastResults ==
  ASSUME SessionInv, [SessionNext]_allVars, NEW i \in DOMAIN results, NEW r, r = results[i]
  PROVE  /\ r.reply \in Nat /\ r.reply <= Len(replies')
         /\ r.reply # 0 /\ r.clean => Answers(replies[r.reply], r.call - r.lag)'
         /\ r.reply # 0 => ~Surprised(r)
<1>1. TypeOK /\ SessionTypeOK
  BY DEF SessionInv, SessionTypeOK
<1>2. r.reply \in Nat
  BY <1>1, ResultType
<1>3. r.reply <= Len(replies)
  BY DEF SessionInv, ResultsKnown
<1>4. Len(replies) \in Nat /\ Len(replies') \in Nat /\ Len(replies) <= Len(replies')
  BY <1>1, RepliesGrow
<1>5. r.reply # 0 => ~Surprised(r)
  BY DEF SessionInv, KindMatches
<1>6. ASSUME r.reply # 0, r.clean PROVE Answers(replies[r.reply], r.call - r.lag)'
  <2>1. PICK n : n = r.reply
    OBVIOUS
  <2>2. PICK k : k = r.call - r.lag
    OBVIOUS
  <2>3. n \in 1..Len(replies)
    BY <1>2, <1>3, <1>4, <1>6, <2>1
  <2>4. Answers(replies[n], k)
    BY <1>6, <2>1, <2>2 DEF SessionInv, OwnAnswer
  <2>5. Answers(replies[n], k)'
    BY <1>1, <2>3, <2>4, ResultsStay
  <2>. QED BY <2>1, <2>2, <2>5
<1>. QED BY <1>2, <1>3, <1>4, <1>5, <1>6

\* The reply that a method gets.
LEMMA NewAnswer ==
  ASSUME SessionInv, [SessionNext]_allVars, ReceiveReply
  PROVE  \E n, m :
           /\ n \in Nat /\ n = Len(replies') /\ n = Len(replies) + 1 /\ m = replies'[n]
           /\ Unfailed' => Answers(m, n)' /\ n = call - abandoned
           /\ Unfailed' /\ abandoned = 0 => Outcome(m) # "UnexpectedResponse"
<1>1. TypeOK /\ PipelineInv /\ PipelineInv' /\ (Unfailed' => Unfailed)
  BY SessionOrderly DEF SessionInv, SessionTypeOK
<1>2. replies' # replies /\ call # 0 /\ Decode
  BY DEF ReceiveReply, Polling, NewReply
<1>3. PICK n \in Nat : n = Len(replies') /\ n = Len(replies) + 1 /\ Len(replies) \in Nat
  BY <1>1, <1>2, RepliesGrow
<1>4. PICK m : m = replies'[n]
  OBVIOUS
<1>5. n \in DOMAIN replies'
  <2>1. replies' \in Seq(Messages(ReplyTags))
    BY <1>1 DEF PipelineInv, TypeOK, CodecTypeOK
  <2>2. DOMAIN replies' = 1..Len(replies')
    BY <2>1
  <2>. QED BY <1>3, <2>2
<1>6. Unfailed' => Answers(m, n)'
  BY <1>1, <1>4, <1>5 DEF PipelineInv, RepliesMatch
<1>7. call = Len(sent) /\ Open /\ Awaits(sent[call]) /\ Len(sent) \in Nat /\ abandoned \in Nat
  BY <1>1, <1>2, HistoryGrows DEF SessionInv, SessionTypeOK, CallIsLast
<1>8. Unfailed' => n = call - abandoned
  BY <1>1, <1>2, <1>3, <1>7 DEF SessionInv, AnswersCounted
<1>9. ASSUME Unfailed', abandoned = 0 PROVE Outcome(m) # "UnexpectedResponse"
  <2>1. n = call /\ n \in 1..Len(sent)
    BY <1>3, <1>7, <1>8, <1>9
  <2>2. UNCHANGED stream /\ UNCHANGED served
    BY <1>2 DEF Decode, serverVars
  <2>3. Answers(m, n)
    BY <1>6, <1>9, <2>2 DEF Answers, AnswerLines
  <2>4. m.tag = "Error" \/ m.tag = WantedTag(sent[call])
    BY <1>1, <1>7, <2>1, <2>3, ReplyExpected
  <2>. QED BY <2>4 DEF Outcome
<1>. QED BY <1>3, <1>4, <1>6, <1>8, <1>9

\* The results after a method has returned.
LEMMA ReturnKeeps ==
  ASSUME SessionInv, [SessionNext]_allVars, NEW outcome, NEW reply, Return(outcome, reply), rejected' = rejected,
         \/ reply = 0
         \/ /\ ReceiveReply /\ reply = Len(replies')
            /\ outcome = Outcome(replies'[Len(replies')])
  PROVE  /\ ResultsKnown' /\ OwnAnswer'
         /\ \A i \in DOMAIN results' : results'[i].reply # 0 => ~Surprised(results'[i])
<1>1. PICK new : /\ new = [call |-> call, outcome |-> outcome, reply |-> reply, lag |-> abandoned,
                           clean |-> failures' = 0 /\ rejected = 0]
                 /\ results' = Append(results, new)
  BY DEF Return
<1>2. new.clean => Unfailed'
  BY <1>1 DEF Unfailed
<1>3. Len(replies') \in Nat
  BY RepliesGrow DEF SessionInv, SessionTypeOK
<1>4. new.reply <= Len(replies')
  BY <1>1, <1>3
<1>5. new.reply # 0 /\ new.clean => Answers(replies[new.reply], new.call - new.lag)'
  <2>1. SUFFICES ASSUME new.reply # 0, new.clean PROVE Answers(replies[new.reply], new.call - new.lag)'
    OBVIOUS
  <2>2. ReceiveReply /\ new.reply = Len(replies') /\ new.call = call /\ new.lag = abandoned
    BY <1>1, <2>1
  <2>3. PICK n, m : /\ n \in Nat /\ n = Len(replies') /\ m = replies'[n]
                    /\ Answers(m, n)' /\ n = call - abandoned
    BY <1>2, <2>1, <2>2, NewAnswer
  <2>. QED BY <2>2, <2>3
<1>6. new.reply # 0 => ~Surprised(new)
  <2>1. SUFFICES ASSUME new.reply # 0, Surprised(new) PROVE FALSE
    OBVIOUS
  <2>2. /\ ReceiveReply /\ new.outcome = Outcome(replies'[Len(replies')]) /\ new.lag = abandoned
        /\ new.outcome = "UnexpectedResponse" /\ new.clean /\ new.lag = 0
    BY <1>1, <2>1 DEF Surprised
  <2>. QED BY <1>2, <2>2, NewAnswer
<1>7. \A i \in DOMAIN results' : (i \in DOMAIN results /\ results'[i] = results[i]) \/ results'[i] = new
  BY <1>1, ResultAdded DEF SessionInv
<1>8. ASSUME NEW i \in DOMAIN results'
      PROVE  \E r : /\ r = results'[i] /\ r.reply <= Len(replies')
                    /\ r.reply # 0 /\ r.clean => Answers(replies[r.reply], r.call - r.lag)'
                    /\ r.reply # 0 => ~Surprised(r)
  <2>1. PICK r : r = results'[i]
    OBVIOUS
  <2>2. CASE r = new
    BY <1>4, <1>5, <1>6, <2>1, <2>2
  <2>3. CASE i \in DOMAIN results /\ r = results[i]
    BY <2>1, <2>3, PastResults
  <2>. QED BY <1>7, <2>1, <2>2, <2>3
<1>9. ResultsKnown'
  BY <1>8 DEF ResultsKnown
<1>10. OwnAnswer'
  BY <1>8 DEF OwnAnswer
<1>. QED BY <1>8, <1>9, <1>10

\* The results after any step.
LEMMA ResultsStep ==
  ASSUME SessionInv, [SessionNext]_allVars
  PROVE  ResultsKnown' /\ OwnAnswer' /\ KindMatches'
<1>1. CASE results' = results
  <2>1. ASSUME NEW i \in DOMAIN results'
        PROVE  \E r : /\ r = results'[i] /\ r.reply <= Len(replies')
                      /\ r.reply # 0 /\ r.clean => Answers(replies[r.reply], r.call - r.lag)'
                      /\ r.reply # 0 => ~Surprised(r)
    <3>1. PICK r : r = results'[i]
      OBVIOUS
    <3>. QED BY <1>1, <3>1, PastResults
  <2>2. ResultsKnown'
    BY <2>1 DEF ResultsKnown
  <2>3. OwnAnswer'
    BY <2>1 DEF OwnAnswer
  <2>4. KindMatches'
    BY <2>1 DEF SessionInv, KindMatches
  <2>. QED BY <2>2, <2>3, <2>4
<1>2. ASSUME ReceiveReply \/ ReceiveOther \/ ReceiveFailure \/ ReceiveNone
      PROVE  ResultsKnown' /\ OwnAnswer' /\ KindMatches'
  <2>1. rejected' = rejected
    BY <1>2 DEF ReceiveReply, ReceiveOther, ReceiveFailure, ReceiveNone, Polling, Decode
  <2>2. \E outcome, reply :
          /\ Return(outcome, reply)
          /\ \/ reply = 0
             \/ ReceiveReply /\ reply = Len(replies') /\ outcome = Outcome(replies'[Len(replies')])
    BY <1>2 DEF ReceiveReply, ReceiveOther, ReceiveFailure, ReceiveNone
  <2>. QED BY <2>1, <2>2, ReturnKeeps DEF SessionInv, KindMatches
<1>3. \/ results' = results
      \/ ReceiveReply \/ ReceiveOther \/ ReceiveFailure \/ ReceiveNone
  BY Zenon DEF SessionNext, Receive, Call, CallRejected, ReceiveNothing, ReceiveNotification, Cancel,
     DrainNotifications, NextStashed, NextPolled, PolledNext, NextNone, HangUp, sessionVars, callVars, allVars
<1>. QED BY <1>1, <1>2, <1>3

\* The method that waits is that of the last command still.
LEMMA CallStep ==
  ASSUME SessionInv, [SessionNext]_allVars
  PROVE  CallIsLast' /\ (Open' => Open)
<1>1. TypeOK /\ TypeOK' /\ Len(sent) \in Nat
  BY HistoryGrows DEF SessionInv, SessionTypeOK
<1>2. sent \in Seq(Commands) /\ DOMAIN sent = 1..Len(sent)
  BY <1>1 DEF TypeOK
<1>3. ASSUME NEW c \in Commands, sent' = Append(sent, c)
      PROVE  /\ Len(sent') = Len(sent) + 1 /\ DOMAIN sent' = 1..Len(sent) + 1
             /\ \A k \in 1..Len(sent) : sent'[k] = sent[k]
             /\ sent'[Len(sent) + 1] = c
  BY <1>2, <1>3, AppendFacts
<1>4. CASE sent' = sent /\ call' \in {0, call}
  BY <1>4 DEF SessionInv, CallIsLast, Open
<1>5. ASSUME NEW c \in Commands, Call(c) PROVE CallIsLast' /\ (Open' => Open)
  <2>1. sent' = Append(sent, c) /\ Open /\ call' = IF Awaits(c) THEN Len(sent') ELSE 0
    BY <1>5 DEF Call, Send
  <2>2. CASE Awaits(c)
    <3>1. call' = Len(sent') /\ sent'[call'] = c
      BY <1>3, <2>1, <2>2
    <3>2. Open'
      BY <1>2, <1>3, <2>1, <2>2 DEF Open, Awaits
    <3>. QED BY <2>1, <2>2, <3>1, <3>2 DEF CallIsLast, Awaits
  <2>. QED BY <2>1, <2>2 DEF CallIsLast
<1>6. \/ \E c \in Commands : Call(c)
      \/ sent' = sent /\ call' \in {0, call}
  <2>1. ASSUME NEW c \in Commands, CallRejected(c) PROVE sent' = sent /\ call' = call
    BY <2>1 DEF CallRejected, SendRejected, sessionVars, callVars
  <2>2. Receive => sent' = sent /\ call' \in {0, call}
    BY DEF Receive, ReceiveNothing, ReceiveNotification, ReceiveReply, ReceiveOther, ReceiveFailure,
       ReceiveNone, Polling, Decode, Return, sessionVars, callVars
  <2>3. Cancel \/ DrainNotifications \/ NextStashed \/ NextPolled \/ NextNone => sent' = sent /\ call' \in {0, call}
    BY DEF Cancel, DrainNotifications, NextStashed, NextPolled, PolledNext, NextNone, Decode, callVars
  <2>4. (Answer \/ Interrupt) /\ UNCHANGED sessionVars => sent' = sent /\ call' = call
    BY ServerSteps DEF sessionVars, callVars
  <2>5. HangUp \/ UNCHANGED allVars => sent' = sent /\ call' = call
    BY DEF HangUp, allVars, vars, sessionVars, callVars
  <2>. QED BY <2>1, <2>2, <2>3, <2>4, <2>5, Zenon DEF SessionNext
<1>. QED BY <1>4, <1>5, <1>6

\* The answers owed to methods that have given up are counted.
LEMMA OwedStep ==
  ASSUME SessionInv, [SessionNext]_allVars
  PROVE  AnswersCounted'
<1>. SUFFICES ASSUME Unfailed', Open'
              PROVE  Len(replies') + abandoned' = IF call' = 0 THEN Len(sent') ELSE Len(sent') - 1
  BY DEF AnswersCounted
<1>1. TypeOK /\ PipelineInv /\ PipelineInv' /\ Unfailed /\ Open
  BY SessionOrderly, CallStep DEF SessionInv, SessionTypeOK
<1>2. /\ Len(replies) \in Nat /\ Len(sent) \in Nat /\ abandoned \in Nat
      /\ Len(replies) + abandoned = IF call = 0 THEN Len(sent) ELSE Len(sent) - 1
  BY <1>1, HistoryGrows, RepliesGrow DEF SessionInv, SessionTypeOK, AnswersCounted
<1>3. call # 0 => call = Len(sent)
  BY DEF SessionInv, CallIsLast
<1>4. CASE sent' = sent /\ replies' = replies /\ abandoned' = abandoned /\ call' = call
  BY <1>2, <1>4
<1>5. CASE sent' = sent /\ replies' = replies /\ abandoned' = abandoned + 1 /\ call # 0 /\ call' = 0
  BY <1>2, <1>5
<1>6. CASE sent' = sent /\ Len(replies') = Len(replies) + 1 /\ abandoned' = abandoned /\ call # 0 /\ call' = 0
  BY <1>2, <1>6
<1>7. CASE /\ sent' = sent /\ Len(replies') = Len(replies) + 1
           /\ abandoned > 0 /\ abandoned' = abandoned - 1 /\ call' = call
  BY <1>2, <1>7
<1>8. ASSUME NEW c \in Commands, Call(c)
      PROVE  Len(replies') + abandoned' = IF call' = 0 THEN Len(sent') ELSE Len(sent') - 1
  <2>1. sent' = Append(sent, c) /\ replies' = replies /\ call = 0 /\ abandoned' = abandoned
        /\ call' = IF Awaits(c) THEN Len(sent') ELSE 0
    BY <1>8 DEF Call, Send, Encode, outVars
  <2>2. Len(sent') = Len(sent) + 1 /\ sent'[Len(sent) + 1] = c /\ Len(sent) + 1 \in DOMAIN sent'
    <3>1. sent \in Seq(Commands) /\ sent' \in Seq(Commands)
      BY <1>1 DEF PipelineInv, TypeOK
    <3>2. Len(sent') = Len(sent) + 1 /\ sent'[Len(sent) + 1] = c
      BY <2>1, <3>1, AppendFacts
    <3>. QED BY <1>2, <3>1, <3>2
  <2>3. Awaits(c)
    BY <2>2, OrderlyAssumption DEF Awaits, Open
  <2>. QED BY <1>2, <2>1, <2>2, <2>3
<1>9. ASSUME Decode, events' # events PROVE replies' = replies /\ ~Answered /\ sent' = sent
  BY <1>1, <1>9, RepliesGrow, NoEntry DEF Answered, NewReply, Decode
<1>10. CASE ReceiveNotification
  BY <1>4, <1>9, <1>10 DEF ReceiveNotification, Polling, NewEvent, callVars
<1>11. CASE ReceiveOther
  BY <1>5, <1>9, <1>11 DEF ReceiveOther, Polling, NewEvent, Return
<1>12. CASE ReceiveReply
  BY <1>1, <1>6, <1>12, RepliesGrow DEF ReceiveReply, Polling, NewReply, Answered, Decode, Return
<1>13. CASE ReceiveFailure
  BY <1>1, <1>13 DEF ReceiveFailure, Unfailed
<1>14. CASE ReceiveNone
  BY <1>5, <1>14 DEF ReceiveNone, Return, Answered, NewReply, NewEvent, outVars
<1>15. CASE Cancel
  BY <1>5, <1>15 DEF Cancel, outVars
<1>16. CASE NextPolled
  <2>1. Decode /\ call' = call /\ sent' = sent /\ call = 0
        /\ abandoned' = IF Answered /\ abandoned > 0 THEN abandoned - 1 ELSE abandoned
    BY <1>16 DEF NextPolled, PolledNext, Decode
  <2>2. CASE replies' = replies
    <3>1. ~Answered
      BY <1>1, <2>1, <2>2, NoEntry DEF Answered, NewReply
    <3>. QED BY <1>4, <2>1, <2>2, <3>1
  <2>3. CASE replies' # replies
    <3>1. Len(replies') = Len(replies) + 1 /\ Answered
      BY <1>1, <2>3, RepliesGrow DEF Answered, NewReply
    <3>2. CASE abandoned > 0
      BY <1>7, <2>1, <3>1, <3>2
    <3>3. CASE abandoned = 0
      <4>1. Len(replies') = Len(sent) + 1 /\ Len(replies') \in Nat
        BY <1>2, <2>1, <3>1, <3>3
      <4>2. replies' \in Seq(Messages(ReplyTags))
        BY <1>1 DEF PipelineInv, TypeOK, CodecTypeOK
      <4>3. Len(replies') \in DOMAIN replies'
        BY <1>2, <4>1, <4>2
      <4>4. Len(replies') \in 1..served'
        BY <1>1, <4>3 DEF PipelineInv, RepliesMatch, Answers
      <4>5. served' \in 0..Len(sent)
        BY <1>1, <2>1 DEF PipelineInv, TypeOK
      <4>. QED BY <1>2, <4>1, <4>4, <4>5
    <3>. QED BY <1>2, <3>2, <3>3
  <2>. QED BY <2>2, <2>3
<1>17. ASSUME NEW c \in Commands, CallRejected(c) PROVE FALSE
  BY <1>1, <1>17 DEF CallRejected, SendRejected, Unfailed
<1>18. CASE ReceiveNothing
  BY <1>4, <1>18 DEF ReceiveNothing, Polling, Decode, outVars, sessionVars, callVars
<1>19. CASE DrainNotifications \/ NextStashed \/ NextNone
  BY <1>4, <1>19 DEF DrainNotifications, NextStashed, NextNone, outVars, callVars
<1>20. CASE (Answer \/ Interrupt) /\ UNCHANGED sessionVars
  BY <1>4, <1>20, ServerSteps DEF outVars, sessionVars, callVars
<1>21. CASE HangUp \/ UNCHANGED allVars
  BY <1>4, <1>21 DEF HangUp, outVars, sessionVars, callVars, allVars, vars
<1>. QED
  BY <1>8, <1>10, <1>11, <1>12, <1>13, <1>14, <1>15, <1>16, <1>17, <1>18, <1>19, <1>20, <1>21, Zenon
  DEF SessionNext, Receive

LEMMA SessionStep ==
  ASSUME SessionInv, [SessionNext]_allVars
  PROVE  SessionInv'
<1>1. SessionTypeOK /\ PipelineInv
  BY DEF SessionInv
<1>2. SessionTypeOK' /\ PipelineInv'
  BY <1>1, SessionTypeStep, SessionOrderly, Zenon
<1>3. CallIsLast' /\ AnswersCounted'
  BY CallStep, OwedStep, Zenon
<1>4. ResultsKnown' /\ OwnAnswer' /\ KindMatches'
  BY ResultsStep, Zenon
<1>. QED BY <1>2, <1>3, <1>4, Zenon DEF SessionInv

LEMMA SessionStart ==
  ASSUME SessionInit
  PROVE  SessionInv
<1>1. Init /\ call = 0 /\ results = <<>> /\ abandoned = 0
  BY DEF SessionInit
<1>2. SessionTypeOK /\ PipelineInv
  BY <1>1, SessionInitially, OrderlyStart
<1>3. replies = <<>> /\ sent = <<>>
  BY <1>1 DEF Init, CodecInit
<1>4. CallIsLast /\ AnswersCounted /\ ResultsKnown /\ OwnAnswer
  BY <1>1, <1>3 DEF CallIsLast, AnswersCounted, ResultsKnown, OwnAnswer
<1>5. KindMatches
  BY <1>1, KindFits DEF KindMatches, Methods
<1>. QED BY <1>2, <1>4, <1>5 DEF SessionInv

(***************************************************************************)
(* The inductive invariant of the session.                                 *)
(***************************************************************************)
THEOREM SessionInvariant == SessionSpec => []SessionInv
  BY SessionStart, SessionStep, PTL DEF SessionSpec

(***************************************************************************)
(* What a method returns is the answer to its own command, or to that of   *)
(* as many places before as there were methods given up, whatever comes    *)
(* between, for as long as nothing has failed.                             *)
(***************************************************************************)
THEOREM OwnAnswerReturned == SessionSpec => []OwnAnswer
  <1>1. SessionInv => OwnAnswer
    BY DEF SessionInv
  <1>. QED BY <1>1, SessionInvariant, PTL

(***************************************************************************)
(* The reply that a method gets after none was given up is of the kind it  *)
(* waits for, or an error.                                                 *)
(***************************************************************************)
THEOREM KindsMatch == SessionSpec => []KindMatches
  <1>1. SessionInv => KindMatches
    BY DEF SessionInv
  <1>. QED BY <1>1, SessionInvariant, PTL
-----------------------------------------------------------------------------
(***************************************************************************)
(* Events, blocks and the queue under a session.                           *)
(***************************************************************************)
LEMMA HangUpFaults ==
  ASSUME FaultInv, HangUp
  PROVE  FaultInv'
<1>1. /\ UNCHANGED <<expectedQueue, multiLineBuf, clientNotification, replies, events, sent, rejected, read>>
      /\ UNCHANGED <<stream, served, body, envLines>> /\ closed'
  BY DEF HangUp, codecVars, frameVars, outVars
<1>2. TypeOK'
  BY HangUpType DEF FaultInv
<1>3. BlockInv'
  BY <1>1 DEF FaultInv, BlockInv, BlocksFramed, OpenBlockKnown, EventsOrdered, EventHeads, Delivered, Reaches,
     Intact, Accumulating
<1>4. WholeInv'
  BY <1>1 DEF FaultInv, WholeInv, OnlyOpenBlock, NothingInvented, EventHeads, Delivered, EntriesSoFar, BlocksShort,
     BlocksWhole, BlockEntries, Reaches, Accumulating
<1>5. MixInv'
  BY <1>1 DEF FaultInv, MixInv, BodiesApart, BodyPlaces, HeldSinceEnd, RepliesHeard, NeverMixed, OneOrigin
<1>6. CountInv'
  BY <1>1 DEF FaultInv, CountInv, LastLinesInOrder, QueueOfLast
<1>. QED BY <1>2, <1>3, <1>4, <1>5, <1>6 DEF FaultInv

(***************************************************************************)
(* The session adds no fault of its own: what holds of the codec whatever  *)
(* goes wrong holds under a session too, and with a server that goes away. *)
(***************************************************************************)
THEOREM SessionAddsNoFault == SessionSpec => []FaultInv
<1>1. SessionInit => FaultInv
  BY FaultInit DEF SessionInit
<1>2. FaultInv /\ [SessionNext]_allVars => FaultInv'
  BY PipelineStep, FaultStep, HangUpFaults
<1>. QED BY <1>1, <1>2, PTL DEF SessionSpec
=============================================================================
