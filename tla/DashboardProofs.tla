-------------------------- MODULE DashboardProofs --------------------------
(***************************************************************************)
(* Proofs that the log with its dates, the chart and the list of clients   *)
(* of Dashboard follow from what the codec has heard in the session.       *)
(***************************************************************************)
EXTENDS Dashboard, TextProofs, FiniteSetTheorems

LEMMA SequenceIs ==
  ASSUME NEW k \in Nat, NEW f, f = [i \in 1..k |-> f[i]]
  PROVE  IsSequence(f) /\ Len(f) = k /\ DOMAIN f = 1..k
<1>1. \A i \in 1..k : f[i] \in Range(f)
  BY DEF Range
<1>. DEFINE R == Range(f)
<1>2. \A i \in 1..k : f[i] \in R
  BY <1>1
<1>. HIDE DEF R
<1>3. f \in [1..k -> R]
  BY <1>2
<1>4. f \in Seq(R) /\ Len(f) = k
  BY <1>3
<1>. QED BY <1>4 DEF IsSequence, R

LEMMA EmptySequence == IsSequence(<<>>) /\ DOMAIN <<>> = {} /\ Len(<<>>) = 0
  BY DEF IsSequence

LEMMA EmptyFunction ==
  ASSUME NEW S
  PROVE  \E f : f \in [{} -> S]
<1>1. [x \in {} |-> 0] \in [{} -> S]
  OBVIOUS
<1>. QED BY <1>1

LEMMA AppendIs ==
  ASSUME NEW s, IsSequence(s), NEW e
  PROVE  /\ IsSequence(Append(s, e)) /\ Len(s) \in Nat /\ DOMAIN s = 1..Len(s)
         /\ Len(Append(s, e)) = Len(s) + 1 /\ DOMAIN Append(s, e) = 1..Len(s) + 1
         /\ \A i \in 1..Len(s) : Append(s, e)[i] = s[i]
         /\ Append(s, e)[Len(s) + 1] = e
<1>. DEFINE R == Range(s) \cup {e}
<1>. DEFINE t == Append(s, e)
<1>1. s \in Seq(R)
  BY DEF IsSequence
<1>. HIDE DEF R
<1>2. /\ t \in Seq(R) /\ Len(t) = Len(s) + 1 /\ Len(s) \in Nat /\ DOMAIN s = 1..Len(s) /\ DOMAIN t = 1..Len(s) + 1
      /\ \A i \in 1..Len(s) : t[i] = s[i]
      /\ t[Len(s) + 1] = e
  <2>1. e \in R
    BY DEF R
  <2>. QED BY <1>1, <2>1
<1>. HIDE DEF t
<1>3. IsSequence(t)
  BY <1>2 DEF IsSequence, Range
<1>. QED BY <1>2, <1>3 DEF t

\* A window that is not full grows, one that is moves on.
LEMMA LastOfAppend ==
  ASSUME NEW s, IsSequence(s), NEW e, NEW n \in Nat \ {0}, Len(s) <= n
  PROVE  /\ IsSequence(LastOf(Append(s, e), n)) /\ Len(s) \in Nat /\ DOMAIN s = 1..Len(s)
         /\ Len(s) < n => /\ Len(LastOf(Append(s, e), n)) = Len(s) + 1
                          /\ DOMAIN LastOf(Append(s, e), n) = 1..Len(s) + 1
                          /\ \A i \in 1..Len(s) : LastOf(Append(s, e), n)[i] = s[i]
                          /\ LastOf(Append(s, e), n)[Len(s) + 1] = e
         /\ Len(s) = n => /\ Len(LastOf(Append(s, e), n)) = n
                          /\ DOMAIN LastOf(Append(s, e), n) = 1..n
                          /\ \A i \in 1..n - 1 : LastOf(Append(s, e), n)[i] = s[i + 1]
                          /\ LastOf(Append(s, e), n)[n] = e
<1>1. PICK t : t = Append(s, e)
  OBVIOUS
<1>2. PICK m : m = Len(s)
  OBVIOUS
<1>3. /\ IsSequence(t) /\ m \in Nat /\ Len(t) = m + 1 /\ DOMAIN s = 1..m /\ DOMAIN t = 1..m + 1
      /\ \A i \in 1..m : t[i] = s[i]
      /\ t[m + 1] = e
  BY <1>1, <1>2, AppendIs
<1>4. PICK u : u = LastOf(t, n)
  OBVIOUS
<1>5. ASSUME m < n
      PROVE  IsSequence(u) /\ Len(u) = m + 1 /\ DOMAIN u = 1..m + 1 /\ (\A i \in 1..m : u[i] = s[i]) /\ u[m + 1] = e
  <2>1. u = SubSeq(t, 1, m + 1)
    BY <1>3, <1>4, <1>5 DEF LastOf
  <2>2. u = [i \in 1..m + 1 |-> t[i]]
    BY <2>1, <1>3 DEF IsSequence
  <2>3. IsSequence(u) /\ Len(u) = m + 1 /\ DOMAIN u = 1..m + 1
    BY <2>2, <1>3, SequenceIs
  <2>. QED BY <2>2, <2>3, <1>3
<1>6. ASSUME m = n
      PROVE  IsSequence(u) /\ Len(u) = n /\ DOMAIN u = 1..n /\ (\A i \in 1..n - 1 : u[i] = s[i + 1]) /\ u[n] = e
  <2>1. u = SubSeq(t, 2, m + 1)
    BY <1>3, <1>4, <1>6 DEF LastOf
  <2>2. u = [i \in 1..m |-> t[i + 1]]
    BY <2>1, <1>3 DEF IsSequence
  <2>3. IsSequence(u) /\ Len(u) = m /\ DOMAIN u = 1..m
    BY <2>2, <1>3, SequenceIs
  <2>. QED BY <2>2, <2>3, <1>3, <1>6
<1>. QED BY <1>1, <1>2, <1>3, <1>4, <1>5, <1>6

\* The steps that matter to what is shown: a report, and an answer.
Report(note, meant) ==
  /\ meant.kind \notin Answers /\ ClientMeant(meant) /\ TimeMeant(meant)
  /\ HandleNotification(note) /\ Tell(meant, note, <<>>)

Answer(meant, heard, text) ==
  /\ {meant.kind, heard.kind} \subseteq Answers
  /\ UNCHANGED <<totals, chart, log, clients>> /\ Tell(meant, heard, text)

UserSelects ==
  /\ UNCHANGED <<told, totals, chart, log, clients>>
  /\ \/ UNCHANGED selected
     \/ \E i \in DOMAIN log : Select(i)

\* How told grows in either.
LEMMA ToldGrows ==
  ASSUME IsSequence(told), NEW meant, NEW heard, NEW text, Tell(meant, heard, text)
  PROVE  \E r : /\ told' = Append(told, r) /\ UNCHANGED selected
                /\ r.meant = meant /\ r.heard = heard /\ r.interval = interval
<1>1. PICK r : r = [meant |-> meant, heard |-> heard, text |-> text, interval |-> interval, states |-> Len(states')]
  OBVIOUS
<1>. QED BY <1>1 DEF Tell

\* A numeral is a number, and a number is natural.
LEMMA NumeralIs ==
  ASSUME NEW n \in Numbers
  PROVE  IsNumber(Numeral(n))
  BY DEF IsNumber, Numeral, NumberOf

LEMMA NumberIs ==
  ASSUME NEW t, IsNumber(t)
  PROVE  Number(t) \in Nat
<1>1. PICK n \in Numbers : ToString(n) = t[1]
  BY Zenon DEF IsNumber, NumberOf
<1>2. Number(t) = CHOOSE m \in Numbers : ToString(m) = t[1]
  BY Zenon DEF IsNumber, NumberOf, Number
<1>3. Number(t) \in Numbers
  BY <1>1, <1>2, Zenon
<1>4. Numbers \subseteq Nat
  BY SMT DEF Numbers, Days
<1>. QED BY <1>3, <1>4

LEMMA StepKinds ==
  ASSUME DashboardAssumption, IsSequence(log), selected # <<>> => selected[1].index \in DOMAIN log, Next
  PROVE  \/ \E note, meant : Report(note, meant)
         \/ \E meant, heard, text : Answer(meant, heard, text)
         \/ UserSelects
         \/ NewSession
<1>. DEFINE Goal == \/ \E note, meant : Report(note, meant)
                    \/ \E meant, heard, text : Answer(meant, heard, text)
                    \/ UserSelects
                    \/ NewSession
<1>1. ASSUME NEW kind, NEW payload, NEW meant, meant.kind \notin Answers \cup {"Client"}, TimeMeant(meant),
             Notify(kind, payload, meant)
      PROVE  Goal
  <2>1. meant.kind \notin Answers /\ ClientMeant(meant)
    BY <1>1 DEF ClientMeant
  <2>. QED BY <1>1, <2>1, Zenon DEF Notify, Report
<1>2. ASSUME NEW kind, NEW lines, NEW value, NEW parsed, kind \in Answers, AnswerLines(kind, lines, value, parsed)
      PROVE  Goal
  <2>1. {Note(kind, value).kind, Note(kind, parsed).kind} \subseteq Answers
    BY <1>2 DEF Note
  <2>. QED BY <1>2, <2>1, Zenon DEF AnswerLines, UnchangedByAnswer, Answer
<1>3. ASSUME NEW kind, NEW payload, NEW value, NEW parsed, kind \in Answers, AnswerSuccess(kind, payload, value, parsed)
      PROVE  Goal
  <2>1. {Note(kind, value).kind, Note(kind, parsed).kind} \subseteq Answers
    BY <1>3 DEF Note
  <2>. QED BY <1>3, <2>1, Zenon DEF AnswerSuccess, UnchangedByAnswer, Answer
<1>4. /\ \A kind, f : Note(kind, f).kind = kind
      /\ {"State", "ByteCount", "Log", "Info", "PasswordPrompt", "Unrecognized"} \cap (Answers \cup {"Client"}) = {}
      /\ "Client" \notin Answers
      /\ \A l : StateMeant(l).kind = "State"
  BY DEF Note, Answers, StateMeant
<1>. HIDE DEF Goal
<1>5. ASSUME NEW l \in StateLines, ReportState(l) PROVE Goal
  <2>1. StateMeant(l).kind \notin Answers \cup {"Client"} /\ TimeMeant(StateMeant(l))
    BY <1>4, TimesAssumption
  <2>. QED BY <1>1, <1>5, <2>1, Zenon DEF ReportState
<1>6. ASSUME NEW in, NEW out, ReportBytes(in, out) PROVE Goal
  <2>1. \A f : Note("ByteCount", f).kind \notin Answers \cup {"Client"} /\ TimeMeant(Note("ByteCount", f))
    BY <1>4 DEF TimeMeant, Timed
  <2>. QED BY <1>1, <1>6, <2>1, Zenon DEF ReportBytes
<1>7. ASSUME NEW day \in Numbers, ReportLog(day) PROVE Goal
  <2>1. PICK meant : meant = Note("Log", <<Numeral(day), <<"N">>, <<"a", ",", "b">>>>)
    OBVIOUS
  <2>2. meant.kind \notin Answers \cup {"Client"} /\ meant.fields[1] = Numeral(day)
    BY <1>4, <2>1 DEF Note
  <2>3. TimeMeant(meant)
    BY <1>7, <2>2, NumeralIs DEF TimeMeant
  <2>. QED BY <1>1, <1>7, <2>1, <2>2, <2>3, Zenon DEF ReportLog
<1>8. ASSUME NEW n \in Noticed, ReportNotice(n) PROVE Goal
  BY <1>1, <1>8, TimesAssumption DEF ReportNotice, DashboardAssumption
<1>9. ASSUME NEW kind \in {"Info", "PasswordPrompt", "Unrecognized"}, ReportLine(kind) PROVE Goal
  <2>1. Note(kind, <<>>).kind \notin Answers /\ ClientMeant(Note(kind, <<>>)) /\ TimeMeant(Note(kind, <<>>))
    BY <1>4 DEF ClientMeant, TimeMeant, Timed
  <2>. QED BY <1>9, <2>1, Zenon DEF ReportLine, Report, Goal
<1>10. ASSUME NEW event \in Events, NEW p \in People, ReportClient(event, p) PROVE Goal
  <2>1. PICK meant : meant = Note("Client", <<event, p.cid, KeyId(event), <<>>, Env(event, p)>>)
    OBVIOUS
  <2>2. meant.kind \notin Answers /\ meant.fields = <<event, p.cid, KeyId(event), <<>>, Env(event, p)>>
    BY <1>4, <2>1 DEF Note
  <2>3. ClientMeant(meant)
    BY <2>2, Zenon DEF ClientMeant
  <2>4. TimeMeant(meant)
    BY <1>4, <2>1 DEF TimeMeant, Timed
  <2>. QED BY <1>10, <2>1, <2>2, <2>3, <2>4, Zenon DEF ReportClient, Report, Goal
<1>11. ASSUME NEW keys, AnswerStatistics(keys) PROVE Goal
  <2>1. "Statistics" \in Answers
    BY DEF Answers
  <2>. QED BY <1>2, <1>11, <2>1, Zenon DEF AnswerStatistics
<1>12. ASSUME AnswerPid \/ AnswerHold \/ AnswerVerb \/ AnswerMute \/ AnswerLoadStats PROVE Goal
  BY <1>3, <1>12 DEF AnswerPid, AnswerHold, AnswerVerb, AnswerMute, AnswerLoadStats, Answers
<1>13. ASSUME AnswerHelp \/ AnswerStatus \/ AnswerVersion \/ AnswerState PROVE Goal
  BY <1>2, <1>13 DEF AnswerHelp, AnswerStatus, AnswerVersion, AnswerState, Answers
<1>14. ASSUME LastReports PROVE Goal
  <2>1. Days \subseteq Numbers
    BY SMT DEF Numbers
  <2>. QED BY <1>14, <1>7, <1>8, <1>9, <1>11, <1>12, <2>1, Zenon DEF LastReports
<1>15. ASSUME UserStep, UNCHANGED selected \/ \E i \in DOMAIN log : Select(i) PROVE Goal
  BY <1>15 DEF UserStep, daemonVars, shownVars, UserSelects, Goal
<1>16. ASSUME SelectionUp \/ SelectionDown PROVE Goal
  <2>1. PICK i : UserStep /\ log # <<>> /\ Select(i)
                 /\ (\/ i = Len(log) \/ i = 1
                     \/ selected # <<>> /\ i = selected[1].index + 1 /\ ~(selected[1].index >= Len(log))
                     \/ selected # <<>> /\ i = selected[1].index - 1 /\ selected[1].index > 1)
    <3>1. CASE SelectionUp
      BY <3>1, Zenon DEF SelectionUp
    <3>2. CASE SelectionDown
      BY <3>2, Zenon DEF SelectionDown
    <3>. QED BY <1>16, <3>1, <3>2
  <2>2. PICK n : n = Len(log)
    OBVIOUS
  <2>3. n \in Nat /\ DOMAIN log = 1..n /\ n # 0
    BY <2>1, <2>2 DEF IsSequence
  <2>4. i \in DOMAIN log
    BY <2>1, <2>2, <2>3
  <2>. QED BY <1>15, <2>1, <2>4
<1>17. ASSUME NEW n, EnterInterval(n) PROVE Goal
  BY <1>15, <1>17 DEF EnterInterval
<1>18. ASSUME NEW i \in DOMAIN log, SelectLogEntry(i) PROVE Goal
  BY <1>15, <1>18 DEF SelectLogEntry
<1>19. ASSUME NewSession PROVE Goal
  BY <1>19 DEF Goal
<1>20. 0 \in Numbers
  BY SMT DEF Numbers
<1>21. Goal
  BY <1>5, <1>6, <1>7, <1>10, <1>12, <1>13, <1>14, <1>16, <1>17, <1>18, <1>19, <1>20, Zenon DEF Next
<1>. QED BY <1>21 DEF Goal
-----------------------------------------------------------------------------
(***************************************************************************)
(* The log.                                                                *)
(***************************************************************************)
LEMMA LogUnlogged ==
  ASSUME LogInv, UNCHANGED <<log, selected>>, IsSequence(told)', LoggedPlaces' = LoggedPlaces
  PROVE  LogInv'
  BY DEF LogInv, LogIsTail, InLog, IsSequence

LEMMA LogOfReport ==
  ASSUME DashboardAssumption, LogInv, NEW note, NEW meant, Report(note, meant)
  PROVE  LogInv'
<1>1. PICK r : /\ told' = Append(told, r) /\ r.meant = meant /\ r.heard = note
               /\ UNCHANGED selected
  BY ToldGrows DEF Report, LogInv
<1>2. PICK n : n = Len(told)
  OBVIOUS
<1>3. /\ n \in Nat /\ DOMAIN told = 1..n /\ DOMAIN told' = 1..n + 1 /\ told' \in Seq(Range(told'))
      /\ \A i \in 1..n : told'[i] = told[i]
      /\ told'[n + 1] = r
  BY <1>1, <1>2, AppendIs DEF LogInv, IsSequence
<1>4. LoggedPlaces \subseteq 1..n
  BY <1>3 DEF LoggedPlaces
<1>5. LoggedPlaces' = LoggedPlaces \cup (IF Logged(note) THEN {n + 1} ELSE {})
  BY <1>1, <1>3 DEF LoggedPlaces, Report
<1>6. CASE ~Logged(note)
  <2>1. log' = log
    BY <1>6 DEF Report, HandleNotification, LogReport
  <2>. QED BY <1>1, <1>3, <1>5, <1>6, <2>1, LogUnlogged DEF IsSequence
<1>7. CASE Logged(note)
  <2>1. PICK e : e.report = n + 1 /\ log' = LastOf(Append(log, e), MaxLogEntries)
    <3>1. PICK e : e = [report |-> n + 1, level |-> Level(note), date |-> Dated(note)]
      OBVIOUS
    <3>2. log' = AddLog(log, e)
      BY <1>2, <1>7, <3>1, Zenon DEF Report, HandleNotification, LogReport
    <3>. QED BY <3>1, <3>2 DEF AddLog
  <2>2. PICK k : k = Len(log)
    OBVIOUS
  <2>3. MaxLogEntries \in Nat \ {0}
    BY DEF DashboardAssumption
  <2>4. /\ IsSequence(log) /\ k \in Nat /\ k <= MaxLogEntries /\ DOMAIN log = 1..k
    BY <2>2 DEF LogInv, IsSequence
  <2>5. /\ log' \in Seq(Range(log'))
        /\ k < MaxLogEntries => /\ Len(log') = k + 1 /\ DOMAIN log' = 1..k + 1
                                /\ \A i \in 1..k : log'[i] = log[i]
                                /\ log'[k + 1] = e
        /\ k = MaxLogEntries => /\ Len(log') = k /\ DOMAIN log' = 1..k
                                /\ \A i \in 1..k - 1 : log'[i] = log[i + 1]
                                /\ log'[k] = e
    BY <2>1, <2>2, <2>3, <2>4, LastOfAppend DEF IsSequence
  <2>6. \A i \in 1..k : log[i].report \in LoggedPlaces /\ log[i].report \in Int /\ log[i].report < n + 1
    <3>1. \A i \in 1..k : log[i].report \in LoggedPlaces
      BY <2>4 DEF LogInv, LogIsTail
    <3>2. \A i \in LoggedPlaces : i \in Int /\ i < n + 1
      BY <1>3, <1>4
    <3>. QED BY <3>1, <3>2
  <2>7. \A i, j \in 1..k : i < j => log[i].report < log[j].report
    BY <2>4 DEF LogInv, LogIsTail
  <2>8. \A i \in LoggedPlaces : (\E j \in 1..k : log[j].report = i) \/ (k = MaxLogEntries /\ i < log[1].report)
    BY <2>2, <2>4 DEF LogInv, LogIsTail, InLog
  <2>9. selected # <<>> => selected[1].index \in 1..k
    BY <2>4 DEF LogInv
  <2>10. selected # <<>> /\ (\A i \in LoggedPlaces : \E j \in 1..k : log[j].report = i)
           => log[selected[1].index] = selected[1].entry
    BY <2>4 DEF LogInv, LogIsTail, InLog
  <2>11. LoggedPlaces' = LoggedPlaces \cup {n + 1}
    BY <1>5, <1>7
  <2>12. ASSUME k < MaxLogEntries
         PROVE  LogInv'
    <3>1. \A i \in DOMAIN log' : log'[i].report \in LoggedPlaces'
      <4>1. \A i \in 1..k : log'[i].report \in LoggedPlaces
        BY <2>5, <2>6, <2>12
      <4>2. log'[k + 1].report \in LoggedPlaces'
        BY <2>1, <2>5, <2>11, <2>12
      <4>3. \A i \in 1..k + 1 : i = k + 1 \/ i \in 1..k
        BY <2>4
      <4>. QED BY <2>5, <2>11, <2>12, <4>1, <4>2, <4>3
    <3>2. \A i, j \in DOMAIN log' : i < j => log'[i].report < log'[j].report
      BY <1>3, <1>4, <2>1, <2>4, <2>5, <2>6, <2>7, <2>12
    <3>3. \A i \in LoggedPlaces' : \E j \in DOMAIN log' : log'[j].report = i
      <4>1. ASSUME NEW i \in LoggedPlaces PROVE \E j \in 1..k : log'[j].report = i
        BY <2>5, <2>8, <2>12
      <4>. QED BY <2>1, <2>4, <2>5, <2>11, <2>12, <4>1
    <3>4. \A i \in LoggedPlaces : \E j \in 1..k : log[j].report = i
      BY <2>8, <2>12
    <3>5. selected' # <<>> => /\ selected'[1].index \in DOMAIN log'
                              /\ log'[selected'[1].index] = selected'[1].entry
      BY <1>1, <2>4, <2>5, <2>9, <2>10, <2>12, <3>4
    <3>6. Len(log') <= MaxLogEntries
      BY <2>3, <2>4, <2>5, <2>12
    <3>. QED BY <1>3, <2>5, <3>1, <3>2, <3>3, <3>5, <3>6 DEF LogInv, LogIsTail, InLog, IsSequence
  <2>13. ASSUME k = MaxLogEntries
         PROVE  LogInv'
    <3>1. \A i \in DOMAIN log' : log'[i].report \in LoggedPlaces'
      <4>1. \A i \in 1..k - 1 : i + 1 \in 1..k /\ log'[i].report = log[i + 1].report
        BY <2>4, <2>5, <2>13
      <4>2. \A i \in 1..k - 1 : log'[i].report \in LoggedPlaces
        BY <2>6, <4>1, Zenon
      <4>3. log'[k].report \in LoggedPlaces'
        BY <2>1, <2>5, <2>11, <2>13
      <4>4. \A i \in 1..k : i = k \/ i \in 1..k - 1
        BY <2>4
      <4>. QED BY <2>5, <2>11, <2>13, <4>2, <4>3, <4>4
    <3>2. \A i, j \in DOMAIN log' : i < j => log'[i].report < log'[j].report
      <4>1. ASSUME NEW i \in 1..k, NEW j \in 1..k, i < j
            PROVE  log'[i].report < log'[j].report
        <5>1. i \in 1..k - 1 /\ i + 1 \in 1..k /\ log'[i] = log[i + 1]
          BY <2>4, <2>5, <2>13, <4>1
        <5>2. CASE j = k
          BY <2>1, <2>5, <2>6, <2>13, <5>1, <5>2
        <5>3. CASE j # k
          <6>1. j \in 1..k - 1 /\ j + 1 \in 1..k /\ log'[j] = log[j + 1] /\ i + 1 < j + 1
            BY <2>4, <2>5, <2>13, <4>1, <5>3
          <6>. QED BY <2>7, <5>1, <6>1
        <5>. QED BY <5>2, <5>3
      <4>. QED BY <2>5, <2>13, <4>1
    <3>3. log[1].report \in LoggedPlaces /\ log[1].report < log'[1].report
      <4>1. CASE k = 1
        BY <1>3, <1>4, <2>1, <2>5, <2>6, <2>13, <4>1
      <4>2. CASE k > 1
        BY <2>4, <2>5, <2>6, <2>7, <2>13, <4>2
      <4>. QED BY <2>3, <2>13, <4>1, <4>2
    <3>4. \A i \in LoggedPlaces' : (\E j \in DOMAIN log' : log'[j].report = i) \/ i < log'[1].report
      <4>1. n + 1 = log'[k].report /\ k \in DOMAIN log'
        BY <2>1, <2>3, <2>5, <2>13
      <4>2. ASSUME NEW i \in LoggedPlaces, NEW j \in 1..k, log[j].report = i, j # 1
            PROVE  j - 1 \in DOMAIN log' /\ log'[j - 1].report = i
        BY <2>4, <2>5, <2>13, <4>2
      <4>3. PICK a : a = log[1].report
        OBVIOUS
      <4>4. PICK b : b = log'[1].report
        OBVIOUS
      <4>5. a \in Int /\ b \in Int /\ LoggedPlaces \subseteq Int /\ a < b
        <5>1. b = n + 1 \/ b \in LoggedPlaces
          BY <2>3, <2>5, <2>11, <2>13, <3>1, <4>4
        <5>2. LoggedPlaces \subseteq Int
          BY <1>3, <1>4
        <5>3. b \in Int
          <6>1. n + 1 \in Int /\ \A i \in LoggedPlaces : i \in Int
            BY <1>3, <5>2
          <6>. QED BY <5>1, <6>1, Zenon
        <5>. QED BY <3>3, <4>3, <4>4, <5>2, <5>3
      <4>6. ASSUME NEW i \in LoggedPlaces
            PROVE  (\E j \in DOMAIN log' : log'[j].report = i) \/ i < b
        <5>1. CASE i < a \/ i = a
          BY <4>5, <5>1
        <5>2. CASE \E j \in 1..k : log[j].report = i /\ j # 1
          BY <4>2, <5>2
        <5>. QED BY <2>8, <4>3, <5>1, <5>2
      <4>. QED BY <2>11, <4>1, <4>4, <4>6
    <3>5. log[1].report \in LoggedPlaces' /\ ~\E j \in DOMAIN log' : log'[j].report = log[1].report
      <4>1. ASSUME NEW j \in 1..k PROVE log'[j].report # log[1].report
        <5>1. CASE j = k
          BY <1>3, <1>4, <2>1, <2>5, <2>13, <3>3, <5>1
        <5>2. CASE j < k
          <6>1. j \in 1..k - 1 /\ j + 1 \in 1..k /\ 1 \in 1..k /\ 1 < j + 1
            BY <2>4, <5>2
          <6>2. log'[j] = log[j + 1] /\ log[1].report < log[j + 1].report
            BY <2>5, <2>7, <2>13, <6>1
          <6>. QED BY <2>6, <6>1, <6>2
        <5>. QED BY <2>4, <5>1, <5>2
      <4>. QED BY <2>5, <2>11, <2>13, <3>3, <4>1
    <3>6. selected' # <<>> => selected'[1].index \in DOMAIN log'
      BY <1>1, <2>5, <2>9, <2>13
    <3>7. LogIsTail'
      <4>1. \A i \in LoggedPlaces' : InLog(i)' \/ (Len(log') = MaxLogEntries /\ i < log'[1].report)
        BY <2>5, <2>13, <3>4 DEF InLog
      <4>2. ~\A i \in LoggedPlaces' : InLog(i)'
        BY <3>5 DEF InLog
      <4>. QED BY <3>1, <3>2, <4>1, <4>2 DEF LogIsTail
    <3>8. Len(log') <= MaxLogEntries
      BY <2>3, <2>5, <2>13
    <3>. QED BY <1>3, <2>5, <3>6, <3>7, <3>8 DEF LogInv, IsSequence
  <2>. QED BY <2>3, <2>4, <2>12, <2>13
<1>. QED BY <1>6, <1>7

LEMMA LogStep ==
  ASSUME DashboardAssumption, LogInv, [Next]_vars
  PROVE  LogInv'
<1>1. CASE UNCHANGED vars
  <2>1. UNCHANGED <<told, log, selected>>
    BY <1>1 DEF vars, daemonVars, shownVars
  <2>. QED BY <2>1, LogUnlogged DEF LogInv, IsSequence, LoggedPlaces
<1>2. ASSUME NEW meant, NEW heard, NEW text, Answer(meant, heard, text)
      PROVE  LogInv'
  <2>1. PICK r : /\ told' = Append(told, r) /\ r.meant = meant /\ UNCHANGED selected
    BY <1>2, ToldGrows DEF Answer, LogInv
  <2>2. PICK n : n = Len(told)
    OBVIOUS
  <2>3. /\ n \in Nat /\ DOMAIN told = 1..n /\ DOMAIN told' = 1..n + 1 /\ told' \in Seq(Range(told'))
        /\ \A i \in 1..n : told'[i] = told[i]
        /\ told'[n + 1] = r
    BY <2>1, <2>2, AppendIs DEF LogInv, IsSequence
  <2>4. LoggedPlaces' = LoggedPlaces
    BY <1>2, <2>1, <2>3 DEF LoggedPlaces, Answer
  <2>. QED BY <1>2, <2>1, <2>3, <2>4, LogUnlogged DEF Answer, IsSequence
<1>3. CASE UserSelects
  <2>1. LoggedPlaces' = LoggedPlaces
    BY <1>3 DEF UserSelects, LoggedPlaces
  <2>2. CASE UNCHANGED selected
    BY <1>3, <2>1, <2>2, LogUnlogged DEF UserSelects, IsSequence, LogInv
  <2>3. ASSUME NEW i \in DOMAIN log, Select(i)
        PROVE  LogInv'
    <3>1. selected'[1].index = i /\ selected'[1].entry = log[i]
      BY <2>3 DEF Select
    <3>. QED BY <1>3, <2>1, <2>3, <3>1 DEF UserSelects, LogInv, LogIsTail, InLog, IsSequence
  <2>. QED BY <1>3, <2>2, <2>3 DEF UserSelects
<1>4. CASE NewSession
  <2>1. told' = <<>> /\ log' = <<>> /\ selected' = <<>>
    BY <1>4 DEF NewSession
  <2>. QED BY <2>1 DEF LogInv, LogIsTail, LoggedPlaces, InLog, IsSequence, DashboardAssumption
<1>. QED BY <1>1, <1>2, <1>3, <1>4, LogOfReport, StepKinds DEF LogInv

LEMMA LogStart == Init => LogInv
  BY DashboardAssumption, EmptySequence DEF Init, LogInv, LogIsTail, LoggedPlaces, InLog, IsSequence, DashboardAssumption

(***************************************************************************)
(* The log that is shown is, for windows of any size and any daemon, the   *)
(* window of the last reports the codec has handed on in this session,     *)
(* oldest first, without byte counts and answers; and until the window     *)
(* moves, the entry that is copied is the one that was chosen.  (add_log,  *)
(* SelectLogEntry, SelectionUp and SelectionDown, CopyLogEntry)            *)
(***************************************************************************)
THEOREM LogIsWindow == Spec => []LogIsTail
<1>1. Init => LogInv
  BY LogStart
<1>2. LogInv /\ [Next]_vars => LogInv'
  BY LogStep, DashboardAssumption
<1>3. LogInv => LogIsTail
  BY DEF LogInv
<1>. QED BY <1>1, <1>2, <1>3, PTL DEF Spec
-----------------------------------------------------------------------------
(***************************************************************************)
(* The chart.                                                              *)
(***************************************************************************)
\* A step without a byte count keeps what is said of the chart.
LEMMA ChartUncounted ==
  ASSUME ChartInv, UNCHANGED <<chart, totals>>, CountPlaces' = CountPlaces,
         \A i \in CountPlaces : told'[i] = told[i]
  PROVE  ChartInv'
<1>1. \A i \in CountPlaces : /\ LastCount(i)' <=> LastCount(i)
                             /\ Counted(i, 1)' = Counted(i, 1) /\ Counted(i, 2)' = Counted(i, 2)
  BY DEF LastCount, Counted
<1>2. \A i, j : Adjacent(i, j)' <=> Adjacent(i, j)
  BY DEF Adjacent
<1>3. \A i, j \in CountPlaces : SampleOf(i, j)' = SampleOf(i, j)
  BY <1>1 DEF SampleOf, Grown
<1>4. ASSUME NEW at, SamplesAt(at)
      PROVE  SamplesAt(at)'
  BY <1>2, <1>3, <1>4 DEF SamplesAt, Adjacent
<1>5. PICK at \in [DOMAIN chart.samples -> CountPlaces] : SamplesAt(at)
  BY DEF ChartInv, WindowIsTail
<1>6. WindowIsTail'
  BY <1>1, <1>4, <1>5 DEF ChartInv, WindowIsTail
<1>7. chart.seeded => \E i \in CountPlaces : LastCount(i)' /\ chart.in = Counted(i, 1)' /\ chart.out = Counted(i, 2)'
  BY <1>1 DEF ChartInv
<1>. QED BY <1>6, <1>7 DEF ChartInv

LEMMA ChartOfCount ==
  ASSUME DashboardAssumption, IsSequence(told), ChartInv, NEW note, NEW meant, Report(note, meant), note.kind = "ByteCount"
  PROVE  ChartInv'
<1>1. PICK r : told' = Append(told, r) /\ r.meant = meant /\ r.heard = note /\ r.interval = interval
  BY ToldGrows DEF Report
<1>2. PICK n : n = Len(told)
  OBVIOUS
<1>3. /\ n \in Nat /\ DOMAIN told = 1..n /\ DOMAIN told' = 1..n + 1
      /\ \A i \in 1..n : told'[i] = told[i]
      /\ told'[n + 1] = r
  BY <1>1, <1>2, AppendIs
<1>4. \A i \in CountPlaces : i \in 1..n /\ i \in Int /\ i < n + 1
  BY <1>3 DEF CountPlaces
<1>5. CountPlaces' = CountPlaces \cup {n + 1}
  BY <1>1, <1>3 DEF CountPlaces, Report
<1>6. /\ \A i \in CountPlaces : ~LastCount(i)'
      /\ LastCount(n + 1)'
  <2>1. PICK was, are : was = CountPlaces /\ are = CountPlaces'
    OBVIOUS
  <2>2. are = was \cup {n + 1} /\ \A i \in was : i \in Int /\ i < n + 1
    BY <1>4, <1>5, <2>1
  <2>3. \A i \in was : ~ (n + 1 <= i)
    BY <1>3, <2>2
  <2>4. \A k \in are : k <= n + 1
    BY <1>3, <2>2
  <2>. QED BY <2>1, <2>2, <2>3, <2>4 DEF LastCount
<1>7. /\ \A i \in CountPlaces : Counted(i, 1)' = Counted(i, 1) /\ Counted(i, 2)' = Counted(i, 2)
      /\ Counted(n + 1, 1)' = Number(note.fields[1]) /\ Counted(n + 1, 2)' = Number(note.fields[2])
  BY <1>1, <1>3, <1>4 DEF Counted
<1>8. \A i, j \in CountPlaces : SampleOf(i, j)' = SampleOf(i, j)
  BY <1>3, <1>4, <1>7 DEF SampleOf, Grown
<1>9. /\ chart' = Push(chart, Number(note.fields[1]), Number(note.fields[2]), interval)
      /\ totals' = [in |-> Number(note.fields[1]), out |-> Number(note.fields[2])]
  BY Zenon DEF Report, HandleNotification, HandleByteCount
<1>10. totals' = [in |-> Counted(n + 1, 1)', out |-> Counted(n + 1, 2)']
  BY <1>7, <1>9
<1>11. \A i \in CountPlaces' : LastCount(i)' => totals' = [in |-> Counted(i, 1)', out |-> Counted(i, 2)']
  BY <1>5, <1>6, <1>10
<1>12. DOMAIN chart = {"samples", "in", "out", "seeded"}
  BY DEF ChartInv
<1>13. /\ DOMAIN chart' = {"samples", "in", "out", "seeded"} /\ chart'.seeded
       /\ chart'.in = Counted(n + 1, 1)' /\ chart'.out = Counted(n + 1, 2)'
  BY <1>7, <1>9, <1>12 DEF Push
<1>14. CASE ~chart.seeded
  <2>1. chart.samples = <<>> /\ CountPlaces = {}
    BY <1>14 DEF ChartInv
  <2>2. chart'.samples = <<>>
    BY <1>9, <1>12, <1>14, <2>1 DEF Push
  <2>3. CountPlaces' = {n + 1}
    BY <1>5, <2>1
  <2>4. \A i, j : ~Adjacent(i, j)'
    BY <1>3, <2>3 DEF Adjacent
  <2>5. PICK at : at \in [{} -> CountPlaces']
    BY EmptyFunction
  <2>6. SamplesAt(at)'
    BY <2>2, <2>4 DEF SamplesAt
  <2>7. DOMAIN chart'.samples = {} /\ IsSequence(chart'.samples) /\ Len(chart'.samples) = 0
    BY <2>2, EmptySequence
  <2>8. MaxSamples \in Nat
    BY DEF DashboardAssumption
  <2>9. \E to \in [DOMAIN chart'.samples -> CountPlaces'] : SamplesAt(to)'
    BY <2>5, <2>6, <2>7, Zenon
  <2>10. Len(chart'.samples) <= MaxSamples
    BY <2>7, <2>8
  <2>11. WindowIsTail'
    BY <1>11, <2>9, <2>10, Zenon DEF WindowIsTail
  <2>. QED BY <1>6, <1>13, <2>3, <2>7, <2>11 DEF ChartInv, IsSequence
<1>15. CASE chart.seeded
  <2>1. PICK p \in CountPlaces : LastCount(p) /\ chart.in = Counted(p, 1) /\ chart.out = Counted(p, 2)
    BY <1>15 DEF ChartInv
  <2>2. /\ \A i, j \in CountPlaces : Adjacent(i, j)' <=> Adjacent(i, j)
        /\ \A i \in CountPlaces : Adjacent(i, n + 1)' <=> i = p
        /\ \A j \in CountPlaces' : ~Adjacent(n + 1, j)'
    <3>1. \A i, j \in CountPlaces : Adjacent(i, j)' <=> Adjacent(i, j)
      <4>1. ASSUME NEW i \in CountPlaces, NEW j \in CountPlaces
            PROVE  /\ i \in CountPlaces' /\ j \in CountPlaces' /\ i \in Int /\ j \in Int /\ n \in Nat
                   /\ j <= n + 1
        BY <1>3, <1>4, <1>5
      <4>2. ASSUME NEW i \in CountPlaces, NEW j \in CountPlaces
            PROVE  (\A k \in CountPlaces' : k <= i \/ j <= k) <=> (\A k \in CountPlaces : k <= i \/ j <= k)
        BY <1>5, <4>1
      <4>. QED BY <4>1, <4>2, Zenon DEF Adjacent
    <3>2. ASSUME NEW i \in CountPlaces PROVE Adjacent(i, n + 1)' <=> i = p
      BY <1>3, <1>4, <1>5, <2>1 DEF Adjacent, LastCount
    <3>3. ASSUME NEW j \in CountPlaces' PROVE ~Adjacent(n + 1, j)'
      BY <1>3, <1>4, <1>5 DEF Adjacent
    <3>. QED BY <3>1, <3>2, <3>3
  <2>3. PICK e : e = SampleOf(p, n + 1)'
    OBVIOUS
  <2>4. chart'.samples = LastOf(Append(chart.samples, e), MaxSamples)
    <3>1. e = [in |-> Saturating(Number(note.fields[1]), chart.in), out |-> Saturating(Number(note.fields[2]), chart.out),
               seconds |-> IF interval = 0 THEN 1 ELSE interval]
      BY <1>1, <1>3, <1>7, <2>1, <2>3 DEF SampleOf, Grown, Saturating
    <3>2. chart' = [samples |-> LastOf(Append(chart.samples, e), MaxSamples),
                    in |-> Number(note.fields[1]), out |-> Number(note.fields[2]), seeded |-> TRUE]
      BY <1>9, <1>15, <3>1, Zenon DEF Push
    <3>. QED BY <3>2
  <2>5. PICK m : m = Len(chart.samples)
    OBVIOUS
  <2>6. MaxSamples \in Nat \ {0}
    BY DEF DashboardAssumption
  <2>7. /\ IsSequence(chart.samples) /\ m \in Nat /\ m <= MaxSamples /\ DOMAIN chart.samples = 1..m
    BY <2>5 DEF ChartInv, WindowIsTail, IsSequence
  <2>8. /\ IsSequence(chart'.samples)
        /\ m < MaxSamples => /\ Len(chart'.samples) = m + 1 /\ DOMAIN chart'.samples = 1..m + 1
                             /\ \A i \in 1..m : chart'.samples[i] = chart.samples[i]
                             /\ chart'.samples[m + 1] = e
        /\ m = MaxSamples => /\ Len(chart'.samples) = m /\ DOMAIN chart'.samples = 1..m
                             /\ \A i \in 1..m - 1 : chart'.samples[i] = chart.samples[i + 1]
                             /\ chart'.samples[m] = e
    <3>1. PICK s : s = chart.samples
      OBVIOUS
    <3>2. PICK t : t = LastOf(Append(s, e), MaxSamples)
      OBVIOUS
    <3>3. m = Len(s) /\ IsSequence(s) /\ m <= MaxSamples /\ chart'.samples = t
      BY <2>4, <2>5, <2>7, <3>1, <3>2
    <3>4. /\ IsSequence(t)
          /\ m < MaxSamples => /\ Len(t) = m + 1 /\ DOMAIN t = 1..m + 1
                               /\ \A i \in 1..m : t[i] = s[i]
                               /\ t[m + 1] = e
          /\ m = MaxSamples => /\ Len(t) = m /\ DOMAIN t = 1..m
                               /\ \A i \in 1..m - 1 : t[i] = s[i + 1]
                               /\ t[m] = e
      BY <2>6, <3>2, <3>3, LastOfAppend
    <3>. QED BY <3>1, <3>3, <3>4, Zenon
  <2>9. PICK at \in [1..m -> CountPlaces] : SamplesAt(at)
    BY <2>7 DEF ChartInv, WindowIsTail
  <2>10. /\ \A k \in 1..m : \E i \in CountPlaces : Adjacent(i, at[k]) /\ chart.samples[k] = SampleOf(i, at[k])
         /\ \A k, l \in 1..m : k < l => at[k] < at[l]
         /\ \A i, j \in CountPlaces : Adjacent(i, j) =>
              \/ \E k \in 1..m : at[k] = j
              \/ m = MaxSamples /\ \A k \in 1..m : j < at[k]
         /\ \A k \in 1..m : at[k] \in CountPlaces /\ at[k] \in Int /\ at[k] < n + 1
    <3>1. \A k \in 1..m : at[k] \in CountPlaces /\ at[k] \in Int /\ at[k] < n + 1
      BY <1>4, <2>9
    <3>. QED BY <2>5, <2>7, <2>9, <3>1 DEF SamplesAt
  <2>11. \A k \in 1..m : \E i \in CountPlaces' : Adjacent(i, at[k])' /\ chart.samples[k] = SampleOf(i, at[k])'
    BY <1>5, <1>8, <2>2, <2>10
  <2>12. Adjacent(p, n + 1)' /\ p \in CountPlaces' /\ n + 1 \in CountPlaces'
    BY <1>5, <2>1, <2>2
  <2>13. \A i, j \in CountPlaces' : Adjacent(i, j)' => j = n + 1 \/ (i \in CountPlaces /\ j \in CountPlaces /\ Adjacent(i, j))
    BY <1>5, <2>2
  <2>14. ASSUME m < MaxSamples
         PROVE  \E to \in [DOMAIN chart'.samples -> CountPlaces'] : SamplesAt(to)'
    <3>1. PICK to : to = [k \in 1..m + 1 |-> IF k <= m THEN at[k] ELSE n + 1]
      OBVIOUS
    <3>2. /\ \A k \in 1..m : to[k] = at[k]
          /\ to[m + 1] = n + 1
          /\ 1..m + 1 = (1..m) \cup {m + 1} /\ m + 1 \notin 1..m
      BY <2>7, <3>1
    <3>3. to \in [DOMAIN chart'.samples -> CountPlaces']
      <4>1. to[m + 1] \in CountPlaces' /\ CountPlaces \subseteq CountPlaces'
        BY <1>5, <3>2
      <4>2. \A k \in 1..m + 1 : to[k] \in CountPlaces'
        BY <2>10, <3>2, <4>1
      <4>3. DOMAIN chart'.samples = 1..m + 1
        BY <2>8, <2>14
      <4>. QED BY <3>1, <4>2, <4>3
    <3>4. \A k \in 1..m + 1 : \E i \in CountPlaces' : Adjacent(i, to[k])' /\ chart'.samples[k] = SampleOf(i, to[k])'
      BY <2>3, <2>8, <2>11, <2>12, <2>14, <3>2
    <3>5. \A k, l \in 1..m + 1 : k < l => to[k] < to[l]
      <4>1. ASSUME NEW k \in 1..m + 1, NEW l \in 1..m + 1, k < l PROVE to[k] < to[l]
        <5>1. k \in 1..m
          BY <2>7, <4>1
        <5>2. CASE l = m + 1
          BY <2>10, <3>2, <5>1, <5>2
        <5>3. CASE l \in 1..m
          BY <2>10, <3>2, <4>1, <5>1, <5>3
        <5>. QED BY <3>2, <5>2, <5>3
      <4>. QED BY <4>1
    <3>6. \A i, j \in CountPlaces' : Adjacent(i, j)' => \E k \in 1..m + 1 : to[k] = j
      BY <2>10, <2>13, <2>14, <3>2
    <3>7. SamplesAt(to)'
      BY <2>8, <2>14, <3>4, <3>5, <3>6 DEF SamplesAt
    <3>. QED BY <3>3, <3>7
  <2>15. ASSUME m = MaxSamples
         PROVE  \E to \in [DOMAIN chart'.samples -> CountPlaces'] : SamplesAt(to)'
    <3>1. PICK to : to = [k \in 1..m |-> IF k < m THEN at[k + 1] ELSE n + 1]
      OBVIOUS
    <3>2. /\ \A k \in 1..m - 1 : to[k] = at[k + 1] /\ k + 1 \in 1..m
          /\ to[m] = n + 1
          /\ 1..m = (1..m - 1) \cup {m} /\ m \notin 1..m - 1 /\ m \in 1..m /\ 1 \in 1..m
      BY <2>6, <2>7, <2>15, <3>1
    <3>3. to \in [DOMAIN chart'.samples -> CountPlaces']
      <4>1. \A k \in 1..m - 1 : to[k] \in CountPlaces
        BY <2>10, <3>2
      <4>2. to[m] \in CountPlaces' /\ CountPlaces \subseteq CountPlaces'
        BY <1>5, <3>2
      <4>3. \A k \in 1..m : to[k] \in CountPlaces'
        BY <3>2, <4>1, <4>2
      <4>4. DOMAIN chart'.samples = 1..m
        BY <2>8, <2>15
      <4>. QED BY <3>1, <4>3, <4>4
    <3>4. \A k \in 1..m : \E i \in CountPlaces' : Adjacent(i, to[k])' /\ chart'.samples[k] = SampleOf(i, to[k])'
      <4>1. ASSUME NEW k \in 1..m - 1
            PROVE  \E i \in CountPlaces' : Adjacent(i, to[k])' /\ chart'.samples[k] = SampleOf(i, to[k])'
        <5>1. to[k] = at[k + 1] /\ chart'.samples[k] = chart.samples[k + 1] /\ k + 1 \in 1..m
          BY <2>8, <2>15, <3>2
        <5>. QED BY <2>11, <5>1
      <4>2. Adjacent(p, to[m])' /\ chart'.samples[m] = SampleOf(p, to[m])'
        BY <2>3, <2>8, <2>12, <2>15, <3>2
      <4>. QED BY <2>12, <3>2, <4>1, <4>2
    <3>5. \A k, l \in 1..m : k < l => to[k] < to[l]
      <4>1. ASSUME NEW k \in 1..m, NEW l \in 1..m, k < l PROVE to[k] < to[l]
        <5>1. k \in 1..m - 1 /\ to[k] = at[k + 1] /\ k + 1 \in 1..m
          BY <2>7, <3>2, <4>1
        <5>2. CASE l = m
          BY <2>10, <3>2, <5>1, <5>2
        <5>3. CASE l # m
          <6>1. l \in 1..m - 1 /\ to[l] = at[l + 1] /\ l + 1 \in 1..m /\ k + 1 < l + 1
            BY <2>7, <3>2, <4>1, <5>3
          <6>. QED BY <2>10, <5>1, <6>1
        <5>. QED BY <5>2, <5>3
      <4>. QED BY <4>1
    <3>6. \A k \in 1..m : at[1] < to[k]
      <4>1. ASSUME NEW k \in 1..m PROVE at[1] < to[k]
        <5>1. CASE k = m
          BY <2>10, <3>2, <5>1
        <5>2. CASE k # m
          <6>1. k \in 1..m - 1 /\ 1 < k + 1
            BY <2>7, <3>2, <5>2
          <6>. QED BY <2>10, <3>2, <6>1
        <5>. QED BY <5>1, <5>2
      <4>. QED BY <4>1
    <3>7. ASSUME NEW i \in CountPlaces', NEW j \in CountPlaces', Adjacent(i, j)'
          PROVE  (\E k \in 1..m : to[k] = j) \/ (\A k \in 1..m : j < to[k])
      <4>1. CASE j = n + 1
        BY <3>2, <4>1
      <4>2. CASE i \in CountPlaces /\ j \in CountPlaces /\ Adjacent(i, j)
        <5>1. \A k \in 1..m : at[1] \in Int /\ to[k] \in Int /\ j \in Int
          <6>1. \A k \in 1..m - 1 : to[k] \in Int
            BY <2>10, <3>2
          <6>2. to[m] \in Int /\ at[1] \in Int /\ j \in Int
            BY <1>3, <1>4, <2>10, <3>2, <4>2
          <6>. QED BY <3>2, <6>1, <6>2
        <5>2. CASE \A k \in 1..m : j < at[k]
          <6>1. j < at[1]
            BY <3>2, <5>2
          <6>. QED BY <3>6, <5>1, <6>1
        <5>3. ASSUME NEW k \in 1..m, at[k] = j
              PROVE  (\E l \in 1..m : to[l] = j) \/ (\A l \in 1..m : j < to[l])
          <6>1. CASE k = 1
            BY <3>6, <5>3, <6>1
          <6>2. CASE k # 1
            <7>1. k - 1 \in 1..m - 1 /\ (k - 1) + 1 = k
              BY <2>7, <6>2
            <7>. QED BY <3>2, <5>3, <7>1
          <6>. QED BY <6>1, <6>2
        <5>. QED BY <2>10, <4>2, <5>2, <5>3
      <4>. QED BY <2>13, <3>7, <4>1, <4>2
    <3>8. SamplesAt(to)'
      BY <2>8, <2>15, <3>4, <3>5, <3>7 DEF SamplesAt
    <3>. QED BY <3>3, <3>8
  <2>16. Len(chart'.samples) <= MaxSamples
    BY <2>6, <2>7, <2>8
  <2>17. \E to \in [DOMAIN chart'.samples -> CountPlaces'] : SamplesAt(to)'
    BY <2>6, <2>7, <2>14, <2>15
  <2>18. WindowIsTail'
    BY <1>11, <2>16, <2>17 DEF WindowIsTail
  <2>. QED BY <1>6, <1>13, <2>8, <2>12, <2>18 DEF ChartInv, IsSequence
<1>. QED BY <1>14, <1>15

LEMMA ChartStep ==
  ASSUME DashboardAssumption, LogInv, ChartInv, [Next]_vars
  PROVE  ChartInv'
<1>1. ASSUME UNCHANGED <<told, totals, chart>>
      PROVE  ChartInv'
  <2>1. CountPlaces' = CountPlaces
    BY <1>1 DEF CountPlaces
  <2>. QED BY <1>1, <2>1, ChartUncounted
<1>2. ASSUME NEW meant, NEW heard, NEW text, Tell(meant, heard, text), UNCHANGED <<chart, totals>>,
             meant.kind \in Answers \/ heard.kind # "ByteCount"
      PROVE  ChartInv'
  <2>1. PICK r : told' = Append(told, r) /\ r.meant = meant /\ r.heard = heard
    BY <1>2, ToldGrows DEF LogInv
  <2>2. PICK n : n = Len(told)
    OBVIOUS
  <2>3. /\ n \in Nat /\ DOMAIN told = 1..n /\ DOMAIN told' = 1..n + 1
        /\ \A i \in 1..n : told'[i] = told[i]
        /\ told'[n + 1] = r
    BY <2>1, <2>2, AppendIs DEF LogInv
  <2>4. CountPlaces' = CountPlaces /\ \A i \in CountPlaces : told'[i] = told[i]
    BY <1>2, <2>1, <2>3 DEF CountPlaces
  <2>. QED BY <1>2, <2>4, ChartUncounted
<1>3. ASSUME NEW note, NEW meant, Report(note, meant)
      PROVE  ChartInv'
  <2>1. CASE note.kind = "ByteCount"
    BY <1>3, <2>1, ChartOfCount DEF LogInv
  <2>2. CASE note.kind # "ByteCount"
    <3>1. UNCHANGED <<chart, totals>> /\ Tell(meant, note, <<>>)
      BY <1>3, <2>2, Zenon DEF Report, HandleNotification
    <3>. QED BY <1>2, <2>2, <3>1
  <2>. QED BY <2>1, <2>2
<1>4. ASSUME NEW meant, NEW heard, NEW text, Answer(meant, heard, text)
      PROVE  ChartInv'
  BY <1>2, <1>4 DEF Answer
<1>5. CASE NewSession
  <2>1. told' = <<>> /\ chart' = NoChart
    BY <1>5 DEF NewSession
  <2>2. CountPlaces' = {}
    BY <2>1 DEF CountPlaces
  <2>3. chart'.samples = <<>> /\ DOMAIN chart' = {"samples", "in", "out", "seeded"} /\ ~chart'.seeded
    BY <2>1 DEF NoChart
  <2>4. PICK at : at \in [{} -> CountPlaces']
    BY <2>2, EmptyFunction
  <2>5. DOMAIN chart'.samples = {} /\ Len(chart'.samples) = 0 /\ IsSequence(chart'.samples)
    BY <2>3, EmptySequence
  <2>6. SamplesAt(at)'
    BY <2>2, <2>5 DEF SamplesAt
  <2>7. \E to \in [DOMAIN chart'.samples -> CountPlaces'] : SamplesAt(to)'
    BY <2>4, <2>5, <2>6, Zenon
  <2>8. Len(chart'.samples) <= MaxSamples
    BY <2>5 DEF DashboardAssumption
  <2>9. WindowIsTail'
    BY <2>2, <2>7, <2>8 DEF WindowIsTail
  <2>. QED BY <2>2, <2>3, <2>5, <2>9 DEF ChartInv, IsSequence
<1>6. CASE UNCHANGED vars
  BY <1>1, <1>6 DEF vars, daemonVars, shownVars
<1>7. CASE UserSelects
  BY <1>1, <1>7 DEF UserSelects
<1>. QED BY <1>3, <1>4, <1>5, <1>6, <1>7, StepKinds DEF LogInv

LEMMA ChartStart ==
  ASSUME DashboardAssumption, Init
  PROVE  ChartInv
<1>1. chart.samples = <<>> /\ DOMAIN chart = {"samples", "in", "out", "seeded"} /\ ~chart.seeded
  BY DEF Init, NoChart
<1>2. CountPlaces = {}
  BY DEF Init, CountPlaces
<1>3. PICK at : at \in [{} -> CountPlaces]
  BY <1>2, EmptyFunction
<1>4. DOMAIN chart.samples = {} /\ Len(chart.samples) = 0 /\ IsSequence(chart.samples)
  BY <1>1, EmptySequence
<1>5. SamplesAt(at)
  BY <1>2, <1>4 DEF SamplesAt
<1>6. \E to \in [DOMAIN chart.samples -> CountPlaces] : SamplesAt(to)
  BY <1>3, <1>4, <1>5, Zenon
<1>7. Len(chart.samples) <= MaxSamples
  BY <1>4 DEF DashboardAssumption
<1>8. WindowIsTail
  BY <1>2, <1>6, <1>7 DEF WindowIsTail
<1>. QED BY <1>1, <1>2, <1>4, <1>8 DEF ChartInv

(***************************************************************************)
(* The chart is, for windows of any size and counters that grow or start   *)
(* again by any amount, the window of the last differences of consecutive  *)
(* byte counts of this session, as the codec has read them, each over the  *)
(* interval that was entered when it came; and the totals are those of the *)
(* last count.  (ThroughputHistory::push, handle_notification)             *)
(***************************************************************************)
THEOREM ChartIsWindow == Spec => []WindowIsTail
<1>1. Init => LogInv /\ ChartInv
  BY LogStart, ChartStart, DashboardAssumption
<1>2. LogInv /\ ChartInv /\ [Next]_vars => LogInv' /\ ChartInv'
  BY LogStep, ChartStep, DashboardAssumption
<1>3. ChartInv => WindowIsTail
  BY DEF ChartInv
<1>. QED BY <1>1, <1>2, <1>3, PTL DEF Spec
-----------------------------------------------------------------------------
(***************************************************************************)
(* The list of clients, as a function of the reports.                      *)
(***************************************************************************)
Ended == <<"DISCONNECT">>

LEMMA JoiningIs == Ended \notin Joining
BY DEF Ended, Joining

\* q is r and one report more.
Extends(r, x, q, n) ==
  /\ n \in Nat /\ DOMAIN r = 1..n /\ Len(r) = n /\ DOMAIN q = 1..n + 1 /\ Len(q) = n + 1
  /\ q[n + 1] = x /\ \A i \in 1..n : q[i] = r[i]

\* What r and q have in common.
SameBefore(r, q, n) ==
  /\ \A i \in 1..n : \A c, E : IsOf(q, i, c, E) <=> IsOf(r, i, c, E)
  /\ \A i \in 1..n, j \in 1..n : \A c : EndsBetween(q, i, j, c) <=> EndsBetween(r, i, j, c)
  /\ \A i \in 1..n : \A c : EndsBetween(q, i, n + 1, c) <=> EndsBetween(r, i, n, c) \/ IsOf(q, n + 1, c, {Ended})
  /\ \A c : EndsBetween(q, n + 1, n + 1, c) <=> IsOf(q, n + 1, c, {Ended})

LEMMA OneReportMore ==
  ASSUME NEW r, NEW x, NEW q, NEW n, Extends(r, x, q, n)
  PROVE  SameBefore(r, q, n)
<1>1. /\ n \in Nat /\ DOMAIN r = 1..n /\ DOMAIN q = 1..n + 1 /\ Len(r) = n /\ Len(q) = n + 1 /\ q[n + 1] = x
      /\ \A i \in 1..n : q[i] = r[i]
  BY DEF Extends
<1>2. ASSUME NEW i \in 1..n, NEW c, NEW E PROVE IsOf(q, i, c, E) <=> IsOf(r, i, c, E)
  BY <1>1 DEF IsOf
<1>3. ASSUME NEW i \in 1..n, NEW j \in 1..n, NEW c PROVE EndsBetween(q, i, j, c) <=> EndsBetween(r, i, j, c)
  <2>1. \A k \in i..j : k \in 1..n
    BY <1>1
  <2>. QED BY <1>2, <2>1, Zenon DEF EndsBetween
<1>4. ASSUME NEW i \in 1..n, NEW c
      PROVE  EndsBetween(q, i, n + 1, c) <=> EndsBetween(r, i, n, c) \/ IsOf(q, n + 1, c, {Ended})
  <2>1. /\ \A k \in i..n + 1 : k \in i..n \/ k = n + 1
        /\ n + 1 \in i..n + 1 /\ \A k \in i..n : k \in 1..n /\ k \in i..n + 1
    BY <1>1
  <2>. QED BY <1>2, <2>1, Zenon DEF EndsBetween, Ended
<1>5. ASSUME NEW c PROVE EndsBetween(q, n + 1, n + 1, c) <=> IsOf(q, n + 1, c, {Ended})
  <2>1. n + 1 \in n + 1..n + 1 /\ \A k \in n + 1..n + 1 : k = n + 1
    BY <1>1
  <2>. QED BY <2>1, Zenon DEF EndsBetween, Ended
<1>. QED BY <1>2, <1>3, <1>4, <1>5 DEF SameBefore

\* What a report changes: one that neither announces nor ends, an end of cid, an announcement of it.
Quiet(x) == x.kind = "Client" => x.fields[1] \notin Joining \cup {Ended}
Ends(x, cid) == x.kind = "Client" /\ x.fields[2] = cid /\ x.fields[1] = Ended
Announces(x, cid) == x.kind = "Client" /\ x.fields[2] = cid /\ x.fields[1] \in Joining

LEMMA NewReport ==
  ASSUME NEW r, NEW x, NEW q, NEW n, Extends(r, x, q, n)
  PROVE  /\ Quiet(x) => /\ \A c : ~IsOf(q, n + 1, c, Joining) /\ ~IsOf(q, n + 1, c, {Ended})
         /\ \A cid : Ends(x, cid) => /\ \A c : ~IsOf(q, n + 1, c, Joining)
                                     /\ \A c : IsOf(q, n + 1, c, {Ended}) <=> c = cid
         /\ \A cid : Announces(x, cid) => /\ \A c : IsOf(q, n + 1, c, Joining) <=> c = cid
                                          /\ \A c : ~IsOf(q, n + 1, c, {Ended})
<1>1. q[n + 1] = x
  BY DEF Extends
<1>. QED BY <1>1, JoiningIs, Zenon DEF IsOf, Quiet, Ends, Announces

LEMMA LastingMore ==
  ASSUME NEW r, NEW x, NEW q, NEW n, Extends(r, x, q, n)
  PROVE  /\ Quiet(x) => \A i, c : Lasting(q, i, c) <=> Lasting(r, i, c)
         /\ \A cid : Ends(x, cid) => \A i, c : Lasting(q, i, c) <=> Lasting(r, i, c) /\ c # cid
         /\ \A cid : Announces(x, cid) => \A i, c : Lasting(q, i, c) <=> Lasting(r, i, c) \/ (i = n + 1 /\ c = cid)
<1>1. /\ n \in Nat /\ DOMAIN r = 1..n /\ DOMAIN q = 1..n + 1 /\ Len(r) = n /\ Len(q) = n + 1
      /\ \A i \in 1..n : \A c, E : IsOf(q, i, c, E) <=> IsOf(r, i, c, E)
      /\ \A i \in 1..n : \A c : EndsBetween(q, i, n + 1, c) <=> EndsBetween(r, i, n, c) \/ IsOf(q, n + 1, c, {Ended})
      /\ \A c : EndsBetween(q, n + 1, n + 1, c) <=> IsOf(q, n + 1, c, {Ended})
  <2>1. SameBefore(r, q, n)
    BY OneReportMore
  <2>. QED BY <2>1 DEF Extends, SameBefore
<1>2. ASSUME NEW i \in 1..n, NEW c
      PROVE  Lasting(q, i, c) <=> Lasting(r, i, c) /\ ~IsOf(q, n + 1, c, {Ended})
  <2>1. i \in 1..n + 1
    BY <1>1
  <2>. QED BY <1>1, <2>1, Zenon DEF Lasting
<1>3. ASSUME NEW c PROVE Lasting(q, n + 1, c) <=> IsOf(q, n + 1, c, Joining) /\ ~IsOf(q, n + 1, c, {Ended})
  <2>1. n + 1 \in 1..n + 1
    BY <1>1
  <2>. QED BY <1>1, <2>1, Zenon DEF Lasting
<1>4. /\ \A i, c : Lasting(q, i, c) => i \in 1..n \/ i = n + 1
      /\ \A i, c : Lasting(r, i, c) => i \in 1..n
      /\ n + 1 \notin 1..n
  <2>1. \A i \in 1..n + 1 : i \in 1..n \/ i = n + 1
    BY <1>1
  <2>2. n + 1 \notin 1..n
    BY <1>1
  <2>. QED BY <1>1, <2>1, <2>2, Zenon DEF Lasting
<1>5. ASSUME Quiet(x) PROVE \A i, c : Lasting(q, i, c) <=> Lasting(r, i, c)
  BY <1>2, <1>3, <1>4, <1>5, NewReport, ZenonT(30)
<1>6. ASSUME NEW cid, Ends(x, cid) PROVE \A i, c : Lasting(q, i, c) <=> Lasting(r, i, c) /\ c # cid
  <2>1. /\ \A c : ~IsOf(q, n + 1, c, Joining)
        /\ \A c : IsOf(q, n + 1, c, {Ended}) <=> c = cid
    BY <1>6, NewReport
  <2>. QED BY <1>2, <1>3, <1>4, <2>1, Zenon
<1>7. ASSUME NEW cid, Announces(x, cid)
      PROVE  \A i, c : Lasting(q, i, c) <=> Lasting(r, i, c) \/ (i = n + 1 /\ c = cid)
  <2>1. /\ \A c : IsOf(q, n + 1, c, Joining) <=> c = cid
        /\ \A c : ~IsOf(q, n + 1, c, {Ended})
    BY <1>7, NewReport
  <2>. QED BY <1>2, <1>3, <1>4, <2>1, Zenon
<1>. QED BY <1>5, <1>6, <1>7

LEMMA StandingMore ==
  ASSUME NEW r, NEW x, NEW q, NEW n, Extends(r, x, q, n)
  PROVE  /\ Quiet(x) => \A i : Standing(q, i) <=> Standing(r, i)
         /\ \A cid : Ends(x, cid) => \A i : Standing(q, i) <=> Standing(r, i) /\ r[i].fields[2] # cid
         /\ \A cid : Announces(x, cid) =>
              \A i : Standing(q, i) <=> Standing(r, i) \/ (i = n + 1 /\ \A j : ~Lasting(r, j, cid))
<1>1. /\ n \in Nat /\ DOMAIN r = 1..n /\ DOMAIN q = 1..n + 1 /\ q[n + 1] = x
      /\ \A i \in 1..n : q[i] = r[i]
      /\ \A i \in 1..n : \A c, E : IsOf(q, i, c, E) <=> IsOf(r, i, c, E)
      /\ \A i \in 1..n, j \in 1..n : \A c : EndsBetween(q, i, j, c) <=> EndsBetween(r, i, j, c)
      /\ \A i \in 1..n : \A c : EndsBetween(q, i, n + 1, c) <=> EndsBetween(r, i, n, c) \/ IsOf(q, n + 1, c, {Ended})
  <2>1. SameBefore(r, q, n)
    BY OneReportMore
  <2>. QED BY <2>1 DEF Extends, SameBefore
<1>2. ASSUME NEW i \in 1..n, NEW c
      PROVE  (\A j \in 1..i - 1 : IsOf(q, j, c, Joining) => EndsBetween(q, j, i, c))
               <=> (\A j \in 1..i - 1 : IsOf(r, j, c, Joining) => EndsBetween(r, j, i, c))
  <2>1. \A j \in 1..i - 1 : j \in 1..n
    BY <1>1
  <2>. QED BY <1>1, <2>1, Zenon
<1>3. ASSUME NEW i \in 1..n, Lasting(q, i, r[i].fields[2]) <=> Lasting(r, i, r[i].fields[2])
      PROVE  Standing(q, i) <=> Standing(r, i)
  BY <1>1, <1>2, <1>3, Zenon DEF Standing
<1>4. /\ \A i : Standing(q, i) => i \in 1..n \/ i = n + 1
      /\ \A i : Standing(r, i) => i \in 1..n /\ Lasting(r, i, r[i].fields[2])
      /\ \A i \in 1..n : Standing(q, i) => Lasting(q, i, r[i].fields[2])
      /\ Standing(q, n + 1) => Lasting(q, n + 1, x.fields[2])
      /\ n + 1 \notin 1..n
  <2>1. \A i \in 1..n + 1 : i \in 1..n \/ i = n + 1
    BY <1>1
  <2>2. n + 1 \notin 1..n
    BY <1>1
  <2>3. \A i, c : Lasting(q, i, c) => i \in 1..n + 1
    BY <1>1 DEF Lasting
  <2>4. \A i, c : Lasting(r, i, c) => i \in 1..n
    BY <1>1 DEF Lasting
  <2>. QED BY <1>1, <2>1, <2>2, <2>3, <2>4, Zenon DEF Standing
<1>5. ASSUME Quiet(x) PROVE \A i : Standing(q, i) <=> Standing(r, i)
  <2>1. \A i, c : Lasting(q, i, c) <=> Lasting(r, i, c)
    BY <1>5, LastingMore
  <2>2. \A i, c : Lasting(r, i, c) => i \in 1..n
    BY <1>1 DEF Lasting
  <2>. QED BY <1>3, <1>4, <2>1, <2>2, Zenon
<1>6. ASSUME NEW cid, Ends(x, cid) PROVE \A i : Standing(q, i) <=> Standing(r, i) /\ r[i].fields[2] # cid
  <2>1. \A i, c : Lasting(q, i, c) <=> Lasting(r, i, c) /\ c # cid
    BY <1>6, LastingMore
  <2>2. \A i, c : Lasting(r, i, c) => i \in 1..n
    BY <1>1 DEF Lasting
  <2>. QED BY <1>3, <1>4, <2>1, <2>2, Zenon
<1>7. ASSUME NEW cid, Announces(x, cid)
      PROVE  \A i : Standing(q, i) <=> Standing(r, i) \/ (i = n + 1 /\ \A j : ~Lasting(r, j, cid))
  <2>1. \A i, c : Lasting(q, i, c) <=> Lasting(r, i, c) \/ (i = n + 1 /\ c = cid)
    BY <1>7, LastingMore
  <2>2. \A i \in 1..n : Standing(q, i) <=> Standing(r, i)
    BY <1>3, <1>4, <2>1, Zenon
  <2>3. x.fields[2] = cid /\ \A c : ~IsOf(q, n + 1, c, {Ended})
    BY <1>7, NewReport DEF Announces
  <2>4. Standing(q, n + 1) <=> \A j \in 1..n : IsOf(r, j, cid, Joining) => EndsBetween(r, j, n, cid)
    <3>1. (n + 1) - 1 = n
      BY <1>1
    <3>2. Standing(q, n + 1) <=> \A j \in 1..n : IsOf(q, j, cid, Joining) => EndsBetween(q, j, n + 1, cid)
      BY <1>1, <2>1, <2>3, <3>1, Zenon DEF Standing
    <3>. QED BY <1>1, <2>3, <3>2, Zenon
  <2>5. (\A j \in 1..n : IsOf(r, j, cid, Joining) => EndsBetween(r, j, n, cid)) <=> \A j : ~Lasting(r, j, cid)
    <3>1. \A j : Lasting(r, j, cid) <=> j \in 1..n /\ IsOf(r, j, cid, Joining) /\ ~EndsBetween(r, j, n, cid)
      BY <1>1 DEF Lasting
    <3>. QED BY <3>1, Zenon
  <2>. QED BY <1>4, <2>2, <2>4, <2>5, Zenon
<1>. QED BY <1>5, <1>6, <1>7

\* The parts of ListFollows, with the sizes.
EntriesAt(r, list, at) ==
  \A k \in DOMAIN list : list[k] = ClientInfo(r[at[k]].fields[1], r[at[k]].fields[2], r[at[k]].fields[5])
Complete(r, list) ==
  \A i \in DOMAIN r : Lasting(r, i, r[i].fields[2]) => \E k \in DOMAIN list : list[k].cid = r[i].fields[2]

LEMMA ListParts ==
  ASSUME NEW r, NEW list
  PROVE  ListFollows(r, list) <=>
           /\ IsSequence(list) /\ Complete(r, list)
           /\ \E at \in [DOMAIN list -> DOMAIN r] : Listed(r, list, at) /\ EntriesAt(r, list, at)
BY Zenon DEF ListFollows, Complete, EntriesAt

LEMMA StandingLasts ==
  ASSUME NEW r, NEW i, Standing(r, i)
  PROVE  i \in DOMAIN r /\ Lasting(r, i, r[i].fields[2])
BY DEF Standing, Lasting

LEMMA LastingIsOf ==
  ASSUME NEW r, NEW i, NEW c, Lasting(r, i, c)
  PROVE  i \in DOMAIN r /\ r[i].fields[2] = c
BY DEF Lasting, IsOf

LEMMA CidShown ==
  ASSUME NEW event, NEW cid, NEW env
  PROVE  ClientInfo(event, cid, env).cid = cid
BY DEF ClientInfo

\* The client of an announcement that lasts is in the list, and no other.
LEMMA InList ==
  ASSUME NEW r, NEW list, NEW at, at \in [DOMAIN list -> DOMAIN r], Listed(r, list, at), EntriesAt(r, list, at),
         Complete(r, list), NEW cid
  PROVE  (\E k \in DOMAIN list : list[k].cid = cid) <=> \E j : Lasting(r, j, cid)
<1>1. ASSUME NEW k \in DOMAIN list, list[k].cid = cid PROVE \E j : Lasting(r, j, cid)
  <2>1. Lasting(r, at[k], r[at[k]].fields[2])
    BY StandingLasts DEF Listed
  <2>2. list[k] = ClientInfo(r[at[k]].fields[1], r[at[k]].fields[2], r[at[k]].fields[5])
    BY DEF EntriesAt
  <2>3. r[at[k]].fields[2] = cid
    BY <1>1, <2>2, CidShown
  <2>. QED BY <2>1, <2>3
<1>2. ASSUME NEW j, Lasting(r, j, cid) PROVE \E k \in DOMAIN list : list[k].cid = cid
  <2>1. j \in DOMAIN r /\ r[j].fields[2] = cid
    BY <1>2, LastingIsOf
  <2>. QED BY <1>2, <2>1 DEF Complete
<1>. QED BY <1>1, <1>2

\* If the list and the standing announcements stay, so does everything.
LEMMA ListStays ==
  ASSUME NEW r, NEW x, NEW q, NEW n, Extends(r, x, q, n), NEW list, ListFollows(r, list),
         \A i : Standing(q, i) <=> Standing(r, i),
         \A i, c : Lasting(q, i, c) => Lasting(r, i, c) \/ \E k \in DOMAIN list : list[k].cid = c
  PROVE  ListFollows(q, list)
<1>1. IsSequence(list) /\ Complete(r, list)
  BY ListParts
<1>2. PICK at \in [DOMAIN list -> DOMAIN r] : Listed(r, list, at) /\ EntriesAt(r, list, at)
  BY ListParts
<1>3. DOMAIN r \subseteq DOMAIN q /\ \A i \in DOMAIN r : q[i] = r[i]
  BY DEF Extends
<1>4. at \in [DOMAIN list -> DOMAIN q]
  BY <1>3
<1>5. Listed(q, list, at)
  <2>1. \A i : Standing(q, i) => i \in DOMAIN r
    BY StandingLasts
  <2>. QED BY <1>2, <1>3, <2>1 DEF Listed
<1>6. EntriesAt(q, list, at)
  BY <1>2, <1>3 DEF EntriesAt
<1>7. Complete(q, list)
  <2>1. ASSUME NEW i \in DOMAIN q, NEW c, c = q[i].fields[2], Lasting(q, i, c)
        PROVE  \E k \in DOMAIN list : list[k].cid = c
    <3>1. CASE Lasting(r, i, c)
      BY <1>1, <1>2, <3>1, InList
    <3>. QED BY <2>1, <3>1
  <2>. QED BY <2>1 DEF Complete
<1>. QED BY <1>1, <1>4, <1>5, <1>6, <1>7, ListParts

LEMMA ListQuiet ==
  ASSUME NEW r, NEW x, NEW q, NEW n, Extends(r, x, q, n), NEW list, ListFollows(r, list), Quiet(x)
  PROVE  ListFollows(q, list)
<1>1. \A i, c : Lasting(q, i, c) <=> Lasting(r, i, c)
  BY LastingMore
<1>2. \A i : Standing(q, i) <=> Standing(r, i)
  BY StandingMore
<1>. QED BY <1>1, <1>2, ListStays

LEMMA ListKnown ==
  ASSUME NEW r, NEW x, NEW q, NEW n, Extends(r, x, q, n), NEW list, ListFollows(r, list),
         NEW cid, Announces(x, cid), \E k \in DOMAIN list : list[k].cid = cid
  PROVE  ListFollows(q, list)
<1>1. \A i, c : Lasting(q, i, c) <=> Lasting(r, i, c) \/ (i = n + 1 /\ c = cid)
  BY LastingMore
<1>2. \A i : Standing(q, i) <=> Standing(r, i) \/ (i = n + 1 /\ \A j : ~Lasting(r, j, cid))
  BY StandingMore
<1>3. \E j : Lasting(r, j, cid)
  <2>1. Complete(r, list) /\ \E at \in [DOMAIN list -> DOMAIN r] : Listed(r, list, at) /\ EntriesAt(r, list, at)
    BY ListParts
  <2>. QED BY <2>1, InList
<1>4. \A i : Standing(q, i) <=> Standing(r, i)
  BY <1>2, <1>3
<1>5. \A i, c : Lasting(q, i, c) => Lasting(r, i, c) \/ \E k \in DOMAIN list : list[k].cid = c
  BY <1>1
<1>. QED BY <1>4, <1>5, ListStays

LEMMA ListNew ==
  ASSUME NEW r, NEW x, NEW q, NEW n, Extends(r, x, q, n), NEW list, ListFollows(r, list),
         NEW cid, Announces(x, cid), \A k \in DOMAIN list : list[k].cid # cid,
         NEW e, e = ClientInfo(x.fields[1], cid, x.fields[5])
  PROVE  ListFollows(q, Append(list, e))
<1>1. IsSequence(list) /\ Complete(r, list)
  BY ListParts
<1>2. PICK at \in [DOMAIN list -> DOMAIN r] : Listed(r, list, at) /\ EntriesAt(r, list, at)
  BY ListParts
<1>3. \A i, c : Lasting(q, i, c) <=> Lasting(r, i, c) \/ (i = n + 1 /\ c = cid)
  BY LastingMore
<1>4. \A i : Standing(q, i) <=> Standing(r, i) \/ i = n + 1
  <2>1. \A i : Standing(q, i) <=> Standing(r, i) \/ (i = n + 1 /\ \A j : ~Lasting(r, j, cid))
    BY StandingMore
  <2>2. ~\E j : Lasting(r, j, cid)
    BY <1>1, <1>2, InList
  <2>. QED BY <2>1, <2>2
<1>5. n \in Nat /\ DOMAIN r = 1..n /\ DOMAIN q = 1..n + 1 /\ q[n + 1] = x /\ \A i \in 1..n : q[i] = r[i]
  BY DEF Extends
<1>6. PICK m, new : m = Len(list) /\ new = Append(list, e)
  OBVIOUS
<1>7. /\ IsSequence(new) /\ m \in Nat /\ DOMAIN list = 1..m /\ DOMAIN new = 1..m + 1
      /\ \A k \in 1..m : new[k] = list[k]
      /\ new[m + 1] = e
  BY <1>1, <1>6, AppendIs
<1>8. PICK to : to = [k \in 1..m + 1 |-> IF k = m + 1 THEN n + 1 ELSE at[k]]
  OBVIOUS
<1>9. /\ to[m + 1] = n + 1 /\ \A k \in 1..m : to[k] = at[k] /\ at[k] \in 1..n
      /\ \A k \in 1..m + 1 : k \in 1..m \/ k = m + 1
      /\ m + 1 \in 1..m + 1 /\ n + 1 \in 1..n + 1 /\ 1..n \subseteq 1..n + 1 /\ 1..m \subseteq 1..m + 1
  BY <1>2, <1>5, <1>7, <1>8
<1>10. to \in [DOMAIN new -> DOMAIN q]
  <2>1. \A k \in 1..m + 1 : to[k] \in 1..n + 1
    BY <1>9
  <2>. QED BY <1>5, <1>7, <1>8, <2>1
<1>11. Listed(q, new, to)
  <2>1. \A k \in 1..m + 1 : Standing(q, to[k])
    BY <1>2, <1>4, <1>7, <1>9 DEF Listed
  <2>2. ASSUME NEW k \in 1..m + 1, NEW l \in 1..m + 1, k < l PROVE to[k] < to[l]
    <3>1. k \in 1..m
      BY <1>7, <2>2
    <3>2. CASE l = m + 1
      BY <1>5, <1>9, <3>1, <3>2
    <3>3. CASE l \in 1..m
      BY <1>2, <1>7, <1>9, <2>2, <3>1, <3>3 DEF Listed
    <3>. QED BY <1>9, <3>2, <3>3
  <2>3. ASSUME NEW i, Standing(q, i) PROVE \E k \in 1..m + 1 : to[k] = i
    <3>1. CASE i = n + 1
      BY <1>9, <3>1
    <3>2. CASE Standing(r, i)
      <4>1. i \in DOMAIN r
        BY <3>2, StandingLasts
      <4>2. PICK k \in 1..m : at[k] = i
        BY <1>2, <1>7, <3>2, <4>1 DEF Listed
      <4>. QED BY <1>9, <4>2
    <3>. QED BY <1>4, <2>3, <3>1, <3>2
  <2>. QED BY <1>7, <2>1, <2>2, <2>3 DEF Listed
<1>12. EntriesAt(q, new, to)
  <2>1. ASSUME NEW k \in 1..m
        PROVE  new[k] = ClientInfo(q[to[k]].fields[1], q[to[k]].fields[2], q[to[k]].fields[5])
    <3>1. new[k] = list[k] /\ to[k] = at[k] /\ q[at[k]] = r[at[k]]
      BY <1>5, <1>7, <1>9
    <3>2. list[k] = ClientInfo(r[at[k]].fields[1], r[at[k]].fields[2], r[at[k]].fields[5])
      BY <1>2, <1>7 DEF EntriesAt
    <3>. QED BY <3>1, <3>2
  <2>2. new[m + 1] = ClientInfo(x.fields[1], x.fields[2], x.fields[5]) /\ q[to[m + 1]] = x
    <3>1. x.fields[2] = cid
      BY DEF Announces
    <3>. QED BY <1>5, <1>7, <1>9, <3>1
  <2>3. ASSUME NEW k \in DOMAIN new
        PROVE  new[k] = ClientInfo(q[to[k]].fields[1], q[to[k]].fields[2], q[to[k]].fields[5])
    BY <1>7, <1>9, <2>1, <2>2
  <2>. QED BY <2>3 DEF EntriesAt
<1>13. Complete(q, new)
  <2>1. ASSUME NEW i, NEW c, Lasting(q, i, c) PROVE \E k \in 1..m + 1 : new[k].cid = c
    <3>1. CASE Lasting(r, i, c)
      <4>1. PICK k \in 1..m : list[k].cid = c
        BY <1>1, <1>2, <1>7, <3>1, InList
      <4>. QED BY <1>7, <1>9, <4>1
    <3>2. CASE c = cid
      BY <1>7, <1>9, <3>2, CidShown
    <3>. QED BY <1>3, <2>1, <3>1, <3>2
  <2>. QED BY <1>7, <2>1 DEF Complete
<1>. QED BY <1>6, <1>7, <1>10, <1>11, <1>12, <1>13, ListParts

LEMMA ListEnds ==
  ASSUME NEW r, NEW x, NEW q, NEW n, Extends(r, x, q, n), NEW list, ListFollows(r, list),
         NEW cid, Ends(x, cid), NEW drop, drop = {c \in Range(list) : c.cid = cid}
  PROVE  ListFollows(q, Without(list, drop))
<1>1. IsSequence(list) /\ Complete(r, list)
  BY ListParts
<1>2. PICK at \in [DOMAIN list -> DOMAIN r] : Listed(r, list, at) /\ EntriesAt(r, list, at)
  BY ListParts
<1>3. \A i, c : Lasting(q, i, c) <=> Lasting(r, i, c) /\ c # cid
  BY LastingMore
<1>4. \A i : Standing(q, i) <=> Standing(r, i) /\ r[i].fields[2] # cid
  BY StandingMore
<1>5. DOMAIN r \subseteq DOMAIN q /\ (\A i \in DOMAIN r : q[i] = r[i]) /\ n \in Nat /\ DOMAIN r = 1..n
  BY DEF Extends
<1>6. PICK new : new = Without(list, drop)
  OBVIOUS
<1>7. PICK A : A = Range(list)
  OBVIOUS
<1>8. list \in Seq(A) /\ \A k \in DOMAIN list : list[k] \in A
  BY <1>1, <1>7 DEF IsSequence, Range
<1>9. PICK f : Keeps(list, drop, new, f)
  BY <1>6, <1>8, WithoutKeeps
<1>10. IsSequence(new)
  <2>1. new \in Seq(A)
    BY <1>6, <1>8, WithoutAppend, WithoutFacts
  <2>. QED BY <2>1 DEF IsSequence, Range
<1>11. /\ f \in [DOMAIN new -> DOMAIN list]
       /\ \A k \in DOMAIN new : new[k] = list[f[k]] /\ list[f[k]].cid # cid
       /\ \A k, l \in DOMAIN new : k < l => f[k] < f[l]
       /\ \A k \in DOMAIN list : list[k].cid # cid => \E l \in DOMAIN new : f[l] = k
  <2>1. \A k \in DOMAIN list : list[k] \in drop <=> list[k].cid = cid
    BY <1>7, <1>8
  <2>. QED BY <1>9, <2>1 DEF Keeps
<1>12. \A k \in DOMAIN list : list[k].cid = r[at[k]].fields[2]
  BY <1>2, CidShown DEF EntriesAt
<1>13. PICK to : to = [k \in DOMAIN new |-> at[f[k]]]
  OBVIOUS
<1>14. to \in [DOMAIN new -> DOMAIN q] /\ \A k \in DOMAIN new : to[k] = at[f[k]] /\ at[f[k]] \in DOMAIN r
  BY <1>2, <1>5, <1>11, <1>13
<1>15. Listed(q, new, to)
  <2>1. \A k \in DOMAIN new : Standing(q, to[k])
    BY <1>2, <1>4, <1>11, <1>12, <1>14 DEF Listed
  <2>2. \A k, l \in DOMAIN new : k < l => to[k] < to[l]
    BY <1>2, <1>11, <1>14 DEF Listed
  <2>3. ASSUME NEW i, Standing(q, i) PROVE \E k \in DOMAIN new : to[k] = i
    <3>1. i \in DOMAIN r /\ Standing(r, i) /\ r[i].fields[2] # cid
      BY <1>4, <2>3, StandingLasts
    <3>2. PICK k \in DOMAIN list : at[k] = i
      BY <1>2, <3>1 DEF Listed
    <3>3. PICK l \in DOMAIN new : f[l] = k
      BY <1>11, <1>12, <3>1, <3>2
    <3>. QED BY <1>14, <3>2, <3>3
  <2>. QED BY <2>1, <2>2, <2>3 DEF Listed
<1>16. EntriesAt(q, new, to)
  <2>1. ASSUME NEW k \in DOMAIN new
        PROVE  new[k] = ClientInfo(q[to[k]].fields[1], q[to[k]].fields[2], q[to[k]].fields[5])
    <3>1. f[k] \in DOMAIN list /\ new[k] = list[f[k]] /\ to[k] = at[f[k]] /\ q[at[f[k]]] = r[at[f[k]]]
      BY <1>5, <1>11, <1>14
    <3>2. \A l \in DOMAIN list : list[l] = ClientInfo(r[at[l]].fields[1], r[at[l]].fields[2], r[at[l]].fields[5])
      BY <1>2 DEF EntriesAt
    <3>. QED BY <3>1, <3>2
  <2>. QED BY <2>1 DEF EntriesAt
<1>17. Complete(q, new)
  <2>1. ASSUME NEW i, NEW c, Lasting(q, i, c) PROVE \E k \in DOMAIN new : new[k].cid = c
    <3>1. Lasting(r, i, c) /\ c # cid
      BY <1>3, <2>1
    <3>2. PICK k \in DOMAIN list : list[k].cid = c
      BY <1>1, <1>2, <3>1, InList
    <3>3. PICK l \in DOMAIN new : f[l] = k
      BY <1>11, <3>1, <3>2
    <3>. QED BY <1>11, <3>2, <3>3
  <2>. QED BY <2>1 DEF Complete
<1>. QED BY <1>6, <1>10, <1>14, <1>15, <1>16, <1>17, ListParts

LEMMA HeardGrows ==
  ASSUME IsSequence(told), NEW r, told' = Append(told, r)
  PROVE  Extends(Heard, r.heard, Heard', Len(told))
<1>1. PICK n : n = Len(told)
  OBVIOUS
<1>2. /\ n \in Nat /\ DOMAIN told = 1..n /\ DOMAIN told' = 1..n + 1 /\ told'[n + 1] = r
      /\ \A i \in 1..n : told'[i] = told[i]
  BY <1>1, AppendIs
<1>3. Heard = [i \in 1..n |-> told[i].heard] /\ Heard' = [i \in 1..n + 1 |-> told'[i].heard]
  BY <1>2 DEF Heard
<1>4. PICK h, g : h = Heard /\ g = Heard'
  OBVIOUS
<1>5. h = [i \in 1..n |-> h[i]] /\ g = [i \in 1..n + 1 |-> g[i]] /\ n + 1 \in Nat
  BY <1>2, <1>3, <1>4
<1>6. Len(h) = n /\ DOMAIN h = 1..n
  BY <1>2, <1>5, SequenceIs
<1>7. Len(g) = n + 1 /\ DOMAIN g = 1..n + 1
  BY <1>5, SequenceIs
<1>8. g[n + 1] = r.heard /\ \A i \in 1..n : g[i] = h[i]
  BY <1>2, <1>3, <1>4
<1>. QED BY <1>1, <1>2, <1>4, <1>6, <1>7, <1>8 DEF Extends

\* The list after a report.
LEMMA ListOfReport ==
  ASSUME NEW r, NEW q, NEW n, NEW note, Extends(r, note, q, n), NEW list, NEW new, ListFollows(r, list),
         clients = list, clients' = new,
         IF note.kind = "Client" THEN HandleClient(note.fields[1], note.fields[2], note.fields[5]) ELSE UNCHANGED clients
  PROVE  ListFollows(q, new)
<1>1. CASE note.kind # "Client"
  <2>1. new = list /\ Quiet(note)
    BY <1>1 DEF Quiet
  <2>. QED BY <2>1, ListQuiet
<1>2. CASE note.kind = "Client"
  <2>1. PICK event, cid, env : event = note.fields[1] /\ cid = note.fields[2] /\ env = note.fields[5]
    OBVIOUS
  <2>2. HandleClient(event, cid, env)
    BY <1>2, <2>1
  <2>3. CASE event \in Joining
    <3>1. Announces(note, cid)
      BY <1>2, <2>1, <2>3 DEF Announces
    <3>2. CASE \E k \in DOMAIN list : list[k].cid = cid
      <4>1. new = list
        BY <2>2, <2>3, <3>2, JoiningIs DEF HandleClient, Ended
      <4>. QED BY <3>1, <3>2, <4>1, ListKnown
    <3>3. CASE \A k \in DOMAIN list : list[k].cid # cid
      <4>1. PICK e : e = ClientInfo(event, cid, env)
        OBVIOUS
      <4>2. new = Append(list, e)
        <5>1. clients' = Append(clients, ClientInfo(event, cid, env))
          <6>1. \A k \in DOMAIN clients : clients[k].cid # cid
            BY <3>3
          <6>. QED BY <2>2, <2>3, <6>1, JoiningIs, Zenon DEF HandleClient, Ended
        <5>. QED BY <4>1, <5>1
      <4>3. e = ClientInfo(note.fields[1], cid, note.fields[5])
        BY <2>1, <4>1
      <4>. QED BY <3>1, <3>3, <4>2, <4>3, ListNew
    <3>. QED BY <3>2, <3>3
  <2>4. CASE event = Ended
    <3>1. Ends(note, cid)
      BY <1>2, <2>1, <2>4 DEF Ends
    <3>2. PICK drop : drop = {c \in Range(list) : c.cid = cid}
      OBVIOUS
    <3>3. new = Without(list, drop)
      BY <2>2, <2>4, <3>2, JoiningIs, Zenon DEF HandleClient, Ended
    <3>. QED BY <3>1, <3>2, <3>3, ListEnds
  <2>5. CASE event \notin Joining /\ event # Ended
    <3>1. new = list
      BY <2>2, <2>5 DEF HandleClient, Ended
    <3>2. Quiet(note)
      BY <2>1, <2>5 DEF Quiet
    <3>. QED BY <3>1, <3>2, ListQuiet
  <2>. QED BY <2>3, <2>4, <2>5
<1>. QED BY <1>1, <1>2

LEMMA EmptyList ==
  ASSUME told = <<>>, clients = <<>>
  PROVE  ListInv
<1>1. Heard = [i \in {} |-> told[i].heard]
  BY DEF Heard
<1>2. PICK h : h = Heard
  OBVIOUS
<1>3. DOMAIN h = {}
  BY <1>1, <1>2
<1>4. PICK at : at \in [{} -> DOMAIN h]
  BY EmptyFunction
<1>5. DOMAIN <<>> = {} /\ IsSequence(<<>>)
  BY EmptySequence
<1>6. Listed(h, <<>>, at) /\ EntriesAt(h, <<>>, at) /\ Complete(h, <<>>)
  BY <1>3, <1>5 DEF Listed, EntriesAt, Complete
<1>7. \E to \in [DOMAIN <<>> -> DOMAIN h] : Listed(h, <<>>, to) /\ EntriesAt(h, <<>>, to)
  BY <1>4, <1>5, <1>6, Zenon
<1>8. ListFollows(h, <<>>)
  BY <1>5, <1>6, <1>7, ListParts
<1>9. \A i \in DOMAIN told : ClientMeant(told[i].meant)
  BY <1>5
<1>. QED BY <1>2, <1>8, <1>9 DEF ListInv

LEMMA ListStep ==
  ASSUME DashboardAssumption, LogInv, ListInv, [Next]_vars
  PROVE  ListInv'
<1>1. ASSUME UNCHANGED <<told, clients>>
      PROVE  ListInv'
  BY <1>1 DEF ListInv, Heard
<1>2. ASSUME NEW meant, NEW heard, NEW text, Tell(meant, heard, text), ClientMeant(meant),
             ListFollows(Heard', clients')
      PROVE  ListInv'
  <2>1. PICK r : told' = Append(told, r) /\ r.meant = meant
    BY <1>2, ToldGrows DEF LogInv
  <2>2. PICK n : n = Len(told)
    OBVIOUS
  <2>3. /\ n \in Nat /\ DOMAIN told = 1..n /\ DOMAIN told' = 1..n + 1
        /\ \A i \in 1..n : told'[i] = told[i]
        /\ told'[n + 1] = r
    BY <2>1, <2>2, AppendIs DEF LogInv
  <2>4. ASSUME NEW i \in DOMAIN told' PROVE ClientMeant(told'[i].meant)
    <3>1. CASE i = n + 1
      BY <1>2, <2>1, <2>3, <3>1
    <3>2. CASE i \in 1..n
      BY <2>3, <3>2 DEF ListInv
    <3>. QED BY <2>3, <3>1, <3>2
  <2>. QED BY <1>2, <2>4 DEF ListInv
<1>3. ASSUME NEW note, NEW meant, Report(note, meant)
      PROVE  ListInv'
  <2>1. PICK r : told' = Append(told, r) /\ r.heard = note
    BY <1>3, ToldGrows DEF Report, LogInv
  <2>2. Extends(Heard, note, Heard', Len(told))
    BY <2>1, HeardGrows DEF LogInv
  <2>3. PICK h, g, list, new : h = Heard /\ g = Heard' /\ list = clients /\ new = clients'
    OBVIOUS
  <2>4. PICK n : n = Len(told)
    OBVIOUS
  <2>5. IF note.kind = "Client" THEN HandleClient(note.fields[1], note.fields[2], note.fields[5]) ELSE UNCHANGED clients
    BY <1>3, Zenon DEF Report, HandleNotification
  <2>6. Extends(h, note, g, n) /\ ListFollows(h, list)
    BY <2>2, <2>3, <2>4 DEF ListInv
  <2>7. ListFollows(g, new)
    BY <2>3, <2>5, <2>6, ListOfReport
  <2>. QED BY <1>2, <1>3, <2>3, <2>7, Zenon DEF Report
<1>4. ASSUME NEW meant, NEW heard, NEW text, Answer(meant, heard, text)
      PROVE  ListInv'
  <2>1. PICK r : told' = Append(told, r) /\ r.heard = heard
    BY <1>4, ToldGrows DEF Answer, LogInv
  <2>2. Extends(Heard, heard, Heard', Len(told))
    BY <2>1, HeardGrows DEF LogInv
  <2>3. PICK h, g, list : h = Heard /\ g = Heard' /\ list = clients
    OBVIOUS
  <2>4. PICK n : n = Len(told)
    OBVIOUS
  <2>5. "Client" \notin Answers
    BY DEF Answers
  <2>6. Quiet(heard) /\ ClientMeant(meant) /\ clients' = list
    BY <1>4, <2>3, <2>5 DEF Answer, Quiet, ClientMeant
  <2>7. Extends(h, heard, g, n) /\ ListFollows(h, list)
    BY <2>2, <2>3, <2>4 DEF ListInv
  <2>8. ListFollows(g, list)
    BY <2>6, <2>7, ListQuiet
  <2>. QED BY <1>2, <1>4, <2>3, <2>6, <2>8, Zenon DEF Answer
<1>5. CASE NewSession
  <2>1. (told = <<>> /\ clients = <<>>)'
    BY <1>5 DEF NewSession
  <2>. QED BY <2>1, EmptyList, PTL
<1>6. CASE UNCHANGED vars
  BY <1>1, <1>6 DEF vars, daemonVars, shownVars
<1>7. CASE UserSelects
  BY <1>1, <1>7 DEF UserSelects
<1>. QED BY <1>3, <1>4, <1>5, <1>6, <1>7, StepKinds DEF LogInv
-----------------------------------------------------------------------------
(***************************************************************************)
(* The dates.                                                              *)
(***************************************************************************)
\* An entry is an old one or the new one.
LEMMA EntriesOfReport ==
  ASSUME DashboardAssumption, LogInv, NEW note, NEW meant, Report(note, meant), NEW k \in DOMAIN log'
  PROVE  \/ \E l \in DOMAIN log : log'[k] = log[l]
         \/ log'[k].report = Len(told) + 1 /\ log'[k].date = Dated(note)
<1>1. CASE ~Logged(note)
  <2>1. log' = log
    BY <1>1 DEF Report, HandleNotification, LogReport
  <2>. QED BY <2>1
<1>2. CASE Logged(note)
  <2>1. PICK e : e = [report |-> Len(told) + 1, level |-> Level(note), date |-> Dated(note)]
    OBVIOUS
  <2>2. log' = LastOf(Append(log, e), MaxLogEntries)
    BY <1>2, <2>1, Zenon DEF Report, HandleNotification, LogReport, AddLog
  <2>3. e.report = Len(told) + 1 /\ e.date = Dated(note)
    BY <2>1
  <2>4. PICK m : m = Len(log)
    OBVIOUS
  <2>5. MaxLogEntries \in Nat \ {0} /\ IsSequence(log) /\ m <= MaxLogEntries
    BY <2>4 DEF DashboardAssumption, LogInv
  <2>6. /\ m \in Nat /\ DOMAIN log = 1..m
        /\ m < MaxLogEntries => /\ DOMAIN log' = 1..m + 1
                                /\ \A i \in 1..m : log'[i] = log[i]
                                /\ log'[m + 1] = e
        /\ m = MaxLogEntries => /\ DOMAIN log' = 1..m
                                /\ \A i \in 1..m - 1 : log'[i] = log[i + 1]
                                /\ log'[m] = e
    BY <2>2, <2>4, <2>5, LastOfAppend
  <2>7. CASE m < MaxLogEntries
    <3>1. k = m + 1 \/ k \in 1..m
      BY <2>6, <2>7
    <3>. QED BY <2>3, <2>6, <2>7, <3>1
  <2>8. CASE m = MaxLogEntries
    <3>1. k = m \/ (k \in 1..m - 1 /\ k + 1 \in 1..m)
      BY <2>6, <2>8
    <3>. QED BY <2>3, <2>6, <2>8, <3>1
  <2>. QED BY <2>5, <2>6, <2>7, <2>8
<1>. QED BY <1>1, <1>2

\* When told grows, the entries that stay keep their reports.
LEMMA DatesStay ==
  ASSUME LogInv, DateInv, NEW n, n = Len(told), IsSequence(told'), DOMAIN told' = 1..n + 1,
         \A i \in 1..n : told'[i] = told[i],
         \A k \in DOMAIN log' :
           \/ \E l \in DOMAIN log : log'[k] = log[l]
           \/ /\ log'[k].report = n + 1 /\ TimeMeant(told'[n + 1].meant)
              /\ log'[k].date = Dated(told'[n + 1].heard)
  PROVE  DateInv'
<1>1. SUFFICES ASSUME NEW k \in DOMAIN log'
               PROVE  LET r == told'[log'[k].report] IN TimeMeant(r.meant) /\ log'[k].date = Dated(r.heard)
  BY DEF DateInv
<1>2. DOMAIN told = 1..n
  BY AppendIs DEF LogInv
<1>3. CASE \E l \in DOMAIN log : log'[k] = log[l]
  <2>1. PICK l \in DOMAIN log : log'[k] = log[l]
    BY <1>3
  <2>2. log[l].report \in 1..n
    BY <1>2 DEF LogInv, LogIsTail, LoggedPlaces
  <2>3. TimeMeant(told[log[l].report].meant) /\ log[l].date = Dated(told[log[l].report].heard)
    BY DEF DateInv
  <2>. QED BY <2>1, <2>2, <2>3
<1>4. CASE /\ log'[k].report = n + 1 /\ TimeMeant(told'[n + 1].meant)
           /\ log'[k].date = Dated(told'[n + 1].heard)
  BY <1>4
<1>. QED BY <1>3, <1>4

LEMMA DateStep ==
  ASSUME DashboardAssumption, LogInv, DateInv, [Next]_vars
  PROVE  DateInv'
<1>1. ASSUME UNCHANGED <<told, log>>
      PROVE  DateInv'
  BY <1>1 DEF DateInv
<1>2. PICK n : n = Len(told)
  OBVIOUS
<1>3. ASSUME NEW note, NEW meant, Report(note, meant)
      PROVE  DateInv'
  <2>1. PICK r : told' = Append(told, r) /\ r.meant = meant /\ r.heard = note
    BY <1>3, ToldGrows DEF Report, LogInv
  <2>2. /\ IsSequence(told') /\ DOMAIN told' = 1..n + 1
        /\ \A i \in 1..n : told'[i] = told[i]
        /\ told'[n + 1] = r
    BY <1>2, <2>1, AppendIs DEF LogInv
  <2>3. TimeMeant(meant)
    BY <1>3 DEF Report
  <2>4. ASSUME NEW k \in DOMAIN log'
        PROVE  \/ \E l \in DOMAIN log : log'[k] = log[l]
               \/ /\ log'[k].report = n + 1 /\ TimeMeant(told'[n + 1].meant)
                  /\ log'[k].date = Dated(told'[n + 1].heard)
    BY <1>2, <1>3, <2>1, <2>2, <2>3, EntriesOfReport
  <2>. QED BY <1>2, <2>2, <2>4, DatesStay
<1>4. ASSUME NEW meant, NEW heard, NEW text, Answer(meant, heard, text)
      PROVE  DateInv'
  <2>1. PICK r : told' = Append(told, r)
    BY <1>4, ToldGrows DEF Answer, LogInv
  <2>2. IsSequence(told') /\ DOMAIN told' = 1..n + 1 /\ \A i \in 1..n : told'[i] = told[i]
    BY <1>2, <2>1, AppendIs DEF LogInv
  <2>3. log' = log
    BY <1>4 DEF Answer
  <2>. QED BY <1>2, <2>2, <2>3, DatesStay
<1>5. CASE NewSession
  <2>1. log' = <<>>
    BY <1>5 DEF NewSession
  <2>. QED BY <2>1, EmptySequence DEF DateInv
<1>6. CASE UNCHANGED vars
  BY <1>1, <1>6 DEF vars, daemonVars, shownVars
<1>7. CASE UserSelects
  BY <1>1, <1>7 DEF UserSelects
<1>. QED BY <1>3, <1>4, <1>5, <1>6, <1>7, StepKinds DEF LogInv
-----------------------------------------------------------------------------
(***************************************************************************)
(* All of it.                                                              *)
(***************************************************************************)
Tells == \E meant, heard, text : Tell(meant, heard, text)

\* What becomes of the daemon's own state.
DaemonSteps ==
  \/ UNCHANGED <<states, online>>
  \/ \E l \in StateLines : Len(states) < MaxStates /\ states' = Append(states, l) /\ UNCHANGED online
  \/ \E p \in People : UNCHANGED states /\ online' \in {online \ {p}, online \cup {p}}

LEMMA CountedSteps ==
  ASSUME Next
  PROVE  (Tells \/ UserStep \/ NewSession) /\ DaemonSteps
<1>. DEFINE Goal == (Tells \/ UserStep \/ NewSession) /\ DaemonSteps
<1>1. ASSUME NEW kind, NEW payload, NEW meant, Notify(kind, payload, meant) PROVE Tells
  BY <1>1, Zenon DEF Notify, Tells
<1>2. ASSUME NEW kind, NEW lines, NEW value, NEW parsed, AnswerLines(kind, lines, value, parsed) PROVE Goal
  BY <1>2, Zenon DEF AnswerLines, UnchangedByAnswer, Tells, DaemonSteps
<1>3. ASSUME NEW kind, NEW payload, NEW value, NEW parsed, AnswerSuccess(kind, payload, value, parsed) PROVE Goal
  BY <1>3, Zenon DEF AnswerSuccess, UnchangedByAnswer, Tells, DaemonSteps
<1>4. ASSUME NEW l \in StateLines, ReportState(l) PROVE Goal
  <2>1. Tells
    BY <1>1, <1>4, Zenon DEF ReportState
  <2>2. DaemonSteps
    BY <1>4, Zenon DEF ReportState, DaemonSteps
  <2>. QED BY <2>1, <2>2
<1>5. ASSUME NEW in, NEW out, ReportBytes(in, out) PROVE Goal
  BY <1>1, <1>5, Zenon DEF ReportBytes, DaemonSteps
<1>6. ASSUME NEW day, ReportLog(day) PROVE Goal
  BY <1>1, <1>6, Zenon DEF ReportLog, DaemonSteps
<1>7. ASSUME NEW n, ReportNotice(n) PROVE Goal
  BY <1>1, <1>7, Zenon DEF ReportNotice, DaemonSteps
<1>8. ASSUME NEW kind, ReportLine(kind) PROVE Goal
  BY <1>8, Zenon DEF ReportLine, DaemonSteps, Tells
<1>9. ASSUME NEW event, NEW p \in People, ReportClient(event, p) PROVE Goal
  <2>1. Tells /\ UNCHANGED states
    BY <1>9, Zenon DEF ReportClient, Tells
  <2>2. online' = IF event = <<"DISCONNECT">> THEN online \ {p} ELSE online \cup {p}
    BY <1>9, Zenon DEF ReportClient
  <2>3. online' \in {online \ {p}, online \cup {p}}
    BY <2>2
  <2>. QED BY <2>1, <2>3, Zenon DEF DaemonSteps
<1>10. ASSUME NEW keys, AnswerStatistics(keys) PROVE Goal
  BY <1>2, <1>10, Zenon DEF AnswerStatistics
<1>11. ASSUME AnswerPid \/ AnswerHold \/ AnswerVerb \/ AnswerMute \/ AnswerLoadStats PROVE Goal
  BY <1>3, <1>11, Zenon DEF AnswerPid, AnswerHold, AnswerVerb, AnswerMute, AnswerLoadStats
<1>12. ASSUME AnswerHelp \/ AnswerStatus \/ AnswerVersion \/ AnswerState PROVE Goal
  BY <1>2, <1>12, Zenon DEF AnswerHelp, AnswerStatus, AnswerVersion, AnswerState
<1>13. ASSUME LastReports PROVE Goal
  BY <1>13, <1>6, <1>7, <1>8, <1>10, <1>11, Zenon DEF LastReports
<1>14. ASSUME UserStep PROVE Goal
  BY <1>14, Zenon DEF UserStep, daemonVars, DaemonSteps
<1>15. ASSUME SelectionUp \/ SelectionDown \/ (\E n : EnterInterval(n)) \/ (\E i : SelectLogEntry(i)) PROVE Goal
  BY <1>14, <1>15, Zenon DEF SelectionUp, SelectionDown, EnterInterval, SelectLogEntry
<1>16. ASSUME NewSession PROVE Goal
  BY <1>16, Zenon DEF NewSession, DaemonSteps
<1>. HIDE DEF Goal
<1>17. Goal
  BY <1>4, <1>5, <1>6, <1>9, <1>11, <1>12, <1>13, <1>15, <1>16, Zenon DEF Next
<1>. QED BY <1>17 DEF Goal

LEMMA TypeStep ==
  ASSUME DashboardAssumption, TypeOK, LogInv, ChartInv, LogInv', ChartInv', [Next]_vars
  PROVE  TypeOK'
<1>1. Len(log') <= MaxLogEntries /\ Len(chart'.samples) <= MaxSamples /\ (selected' # <<>> => selected'[1].index \in DOMAIN log')
  BY DEF LogInv, ChartInv, WindowIsTail
<1>2. Len(told) \in Nat
  BY AppendIs DEF LogInv
<1>3. CASE UNCHANGED vars
  BY <1>3, <1>1 DEF vars, daemonVars, shownVars, TypeOK
<1>4. ASSUME Next PROVE TypeOK'
  <2>1. (Tells \/ UserStep \/ NewSession) /\ DaemonSteps
    BY <1>4, CountedSteps
  <2>2. states' \in Seq(StateLines) /\ Len(states') <= MaxStates /\ online' \subseteq People
    <3>1. ASSUME NEW l \in StateLines, Len(states) < MaxStates, states' = Append(states, l)
          PROVE  states' \in Seq(StateLines) /\ Len(states') <= MaxStates
      BY <3>1 DEF TypeOK, DashboardAssumption
    <3>2. ASSUME NEW p \in People, online' \in {online \ {p}, online \cup {p}}
          PROVE  online' \subseteq People
      BY <3>2 DEF TypeOK
    <3>3. (states' = states => states' \in Seq(StateLines) /\ Len(states') <= MaxStates) /\ (online' = online => online' \subseteq People)
      BY DEF TypeOK
    <3>. QED BY <2>1, <3>1, <3>2, <3>3, Zenon DEF DaemonSteps
  <2>3. reports' \in 0..MaxReports /\ Len(told') <= reports' /\ user' \in 0..MaxUser /\ sessions' \in 1..MaxSessions
    <3>1. /\ reports \in 0..MaxReports /\ Len(told) <= reports /\ user \in 0..MaxUser /\ sessions \in 1..MaxSessions
          /\ MaxReports \in Nat /\ MaxUser \in Nat /\ MaxSessions \in Nat
      BY DEF TypeOK, DashboardAssumption
    <3>2. ASSUME NEW meant, NEW heard, NEW text, Tell(meant, heard, text)
          PROVE  reports' \in 0..MaxReports /\ Len(told') <= reports' /\ user' = user /\ sessions' = sessions
      <4>1. PICK r : told' = Append(told, r)
        BY <3>2, ToldGrows DEF LogInv
      <4>2. Len(told') = Len(told) + 1
        BY <4>1, AppendIs DEF LogInv
      <4>. QED BY <1>2, <3>1, <3>2, <4>2 DEF Tell
    <3>3. ASSUME UserStep
          PROVE  reports' = reports /\ told' = told /\ user' \in 0..MaxUser /\ sessions' = sessions
      BY <3>1, <3>3 DEF UserStep, daemonVars
    <3>4. ASSUME NewSession
          PROVE  reports' = reports /\ told' = <<>> /\ user' = user /\ sessions' \in 1..MaxSessions
      BY <3>1, <3>4 DEF NewSession
    <3>5. Len(<<>>) <= reports
      BY <3>1, EmptySequence
    <3>. QED BY <2>1, <3>1, <3>2, <3>3, <3>4, <3>5, Zenon DEF Tells
  <2>. QED BY <1>1, <2>2, <2>3 DEF TypeOK
<1>. QED BY <1>3, <1>4

LEMMA DashboardStarts ==
  ASSUME DashboardAssumption, Init
  PROVE  DashboardInv
<1>1. LogInv
  BY LogStart
<1>2. ChartInv
  BY ChartStart
<1>3. ListInv
  BY EmptyList DEF Init
<1>4. TypeOK
  <2>1. Len(log) <= MaxLogEntries /\ Len(chart.samples) <= MaxSamples /\ selected = <<>>
    BY <1>1, <1>2 DEF LogInv, ChartInv, WindowIsTail, Init
  <2>2. states \in Seq(StateLines) /\ Len(states) <= MaxStates /\ online \subseteq People
    BY DEF Init, DashboardAssumption
  <2>3. reports \in 0..MaxReports /\ Len(told) <= reports /\ user \in 0..MaxUser /\ sessions \in 1..MaxSessions
    BY DEF Init, DashboardAssumption
  <2>. QED BY <2>1, <2>2, <2>3 DEF TypeOK
<1>5. DateInv
  BY EmptySequence DEF DateInv, Init
<1>. QED BY <1>1, <1>2, <1>3, <1>4, <1>5 DEF DashboardInv

LEMMA DashboardSteps ==
  ASSUME DashboardAssumption, DashboardInv, [Next]_vars
  PROVE  DashboardInv'
<1>1. LogInv' /\ ChartInv'
  BY LogStep, ChartStep DEF DashboardInv
<1>2. ListInv'
  BY ListStep DEF DashboardInv
<1>3. TypeOK'
  BY <1>1, TypeStep DEF DashboardInv
<1>4. DateInv'
  BY DateStep DEF DashboardInv
<1>. QED BY <1>1, <1>2, <1>3, <1>4 DEF DashboardInv

(***************************************************************************)
(* What is shown stays what it is said to be: log, chart and list are, for *)
(* any daemon and windows of any size, the functions of the reports of     *)
(* this session that the parts of DashboardInv state, and the index of the *)
(* entry that is copied lies in the log.  (handle_notification,            *)
(* reset_session_data, SelectionUp and SelectionDown)                      *)
(***************************************************************************)
THEOREM DashboardInvariant == Spec => []DashboardInv
<1>1. Init => DashboardInv
  BY DashboardStarts, DashboardAssumption
<1>2. DashboardInv /\ [Next]_vars => DashboardInv'
  BY DashboardSteps, DashboardAssumption
<1>. QED BY <1>1, <1>2, PTL DEF Spec

\* An entry that was made of a client's announcement is the client's.
LEMMA EntryIs ==
  ASSUME NEW event \in Events, NEW p
  PROVE  ClientInfo(event, p.cid, Env(event, p)) = EntryOf(p, event)
<1>1. CASE event = <<"ESTABLISHED">>
  <2>1. PICK env : env = Env(event, p)
    OBVIOUS
  <2>2. env = [IV_IP |-> p.ip]
    BY <1>1, <2>1 DEF Env
  <2>3. "common_name" \notin DOMAIN env /\ "untrusted_ip" \notin DOMAIN env /\ "IV_IP" \in DOMAIN env /\ env.IV_IP = p.ip
    BY <2>2
  <2>. QED BY <1>1, <2>1, <2>3 DEF ClientInfo, EntryOf
<1>2. CASE event # <<"ESTABLISHED">>
  <2>1. PICK env : env = Env(event, p)
    OBVIOUS
  <2>2. env = [common_name |-> p.name, untrusted_ip |-> p.ip]
    BY <1>2, <2>1 DEF Env
  <2>3. /\ "common_name" \in DOMAIN env /\ "untrusted_ip" \in DOMAIN env /\ "IV_IP" \notin DOMAIN env
        /\ env.common_name = p.name /\ env.untrusted_ip = p.ip
    BY <2>2
  <2>. QED BY <1>2, <2>1, <2>3 DEF ClientInfo, EntryOf
<1>. QED BY <1>1, <1>2

LEMMA ListedClients ==
  ASSUME ListInv, Understood
  PROVE  ClientsShown
<1>1. Meant = Heard
  BY DEF Meant, Heard, Understood
<1>2. PICK r, list : r = Meant /\ r = Heard /\ list = clients
  BY <1>1
<1>3. ListFollows(r, list)
  BY <1>2 DEF ListInv
<1>4. PICK at \in [DOMAIN list -> DOMAIN r] :
        /\ Listed(r, list, at)
        /\ \A k \in DOMAIN list :
             LET f == r[at[k]].fields IN list[k] = ClientInfo(f[1], f[2], f[5])
  BY <1>3, Zenon DEF ListFollows
<1>5. DOMAIN r = DOMAIN told /\ \A i \in DOMAIN told : r[i] = told[i].meant
  BY <1>2 DEF Meant
<1>6. ASSUME NEW k \in DOMAIN list
      PROVE  \E p \in People : r[at[k]].fields[2] = p.cid /\ list[k] = EntryOf(p, r[at[k]].fields[1])
  <2>1. PICK i : i = at[k]
    OBVIOUS
  <2>2. i \in DOMAIN told /\ r[i] = told[i].meant /\ r[i].kind = "Client"
    BY <1>4, <1>5, <2>1, Zenon DEF Listed, Standing, Lasting, IsOf
  <2>3. ClientMeant(r[i])
    BY <2>2 DEF ListInv
  <2>4. PICK event \in Events, p \in People : r[i].fields = <<event, p.cid, KeyId(event), <<>>, Env(event, p)>>
    BY <2>2, <2>3, Zenon DEF ClientMeant
  <2>5. r[i].fields[1] = event /\ r[i].fields[2] = p.cid /\ r[i].fields[5] = Env(event, p)
    BY <2>4
  <2>6. list[k] = ClientInfo(event, p.cid, Env(event, p))
    BY <1>4, <2>1, <2>5
  <2>7. list[k] = EntryOf(p, event)
    BY <2>6, EntryIs
  <2>. QED BY <2>1, <2>5, <2>7
<1>7. /\ at \in [DOMAIN clients -> DOMAIN told] /\ Listed(Meant, clients, at)
      /\ \A k \in DOMAIN clients : \E p \in People :
           Meant[at[k]].fields[2] = p.cid /\ clients[k] = EntryOf(p, Meant[at[k]].fields[1])
  BY <1>2, <1>4, <1>5, <1>6
<1>. QED BY <1>7, Zenon DEF ClientsShown

(***************************************************************************)
(* Of any clients, in any number, coming and going in any order: the list  *)
(* has each that has announced itself in this session and has not left     *)
(* since, once, in the order of first announcements, with the name and the *)
(* address it announced, as long as the parsers make of the reports what   *)
(* the daemon meant by them.  (HandleClient, parse_client_notification)    *)
(***************************************************************************)
THEOREM ClientsAreShown == Spec => [](Understood => ClientsShown)
<1>1. DashboardInv => (Understood => ClientsShown)
  BY ListedClients DEF DashboardInv
<1>. QED BY <1>1, DashboardInvariant, PTL
-----------------------------------------------------------------------------
(***************************************************************************)
(* The calendar.                                                           *)
(***************************************************************************)
\* A natural number and its quotient and rest.
LEMMA Divided ==
  ASSUME NEW d \in Nat, NEW k \in Nat, k > 0
  PROVE  \E a \in Nat, b \in Nat : b < k /\ d = k * a + b
<1>1. d \div k \in Nat
  BY SMT
<1>2. (d % k) \in Nat
  BY SMT
<1>3. (d % k) < k
  BY SMT
<1>4. d = k * (d \div k) + (d % k)
  BY SMT
<1>. QED BY <1>1, <1>2, <1>3, <1>4, Zenon

\* A day as the algorithm counts them, in eras of 400 years that begin with March: in era e and
\* century c, q times four years and t years, it is the u-th day.
DayAt(days, e, c, q, t, u) ==
  /\ e \in Nat /\ c \in Nat /\ q \in Nat /\ t \in Nat /\ u \in Nat
  /\ c <= 3 /\ q <= 24 /\ t <= 3 /\ u <= 365
  /\ days = 146097 * e + 36524 * c + 1461 * q + 365 * t + u
  /\ u = 365 => t = 3 /\ (q # 24 \/ c = 3)

\* Years in an era, whole centuries, four years and years: the last of each may be longer.
InEra(doe, c, r)  == c \in Nat /\ r \in Nat /\ c <= 3 /\ r <= 36524 /\ doe = 36524 * c + r /\ (r = 36524 => c = 3)
InFour(s, t, u)   == t \in Nat /\ u \in Nat /\ t <= 3 /\ u <= 365 /\ s = 365 * t + u /\ (u = 365 => t = 3)

LEMMA DayAtIs ==
  ASSUME NEW days \in Nat
  PROVE  \E e, c, q, t, u : DayAt(days, e, c, q, t, u)
<1>0. PICK era \in Nat, century \in Nat, four \in Nat, year \in Nat :
       era = 146097 /\ century = 36524 /\ four = 1461 /\ year = 365
  BY SMT
<1>a. era > 0 /\ century > 0 /\ four > 0 /\ year > 0
  BY <1>0, SMT
<1>1. PICK e \in Nat, doe \in Nat : doe < era /\ days = era * e + doe
  BY <1>a, Divided, Zenon
<1>2. \E c, r : InEra(doe, c, r)
  <2>1. PICK a \in Nat, b \in Nat : b < century /\ doe = century * a + b
    BY <1>a, Divided, Zenon
  <2>2. InEra(doe, a, b) \/ InEra(doe, 3, century)
    BY <1>0, <1>1, <2>1, SMT DEF InEra
  <2>. QED BY <2>2, SMT
<1>3. PICK c, r : InEra(doe, c, r)
  BY <1>2
<1>4. PICK q \in Nat, s \in Nat : s < four /\ r = four * q + s
  <2>1. r \in Nat
    BY <1>3 DEF InEra
  <2>. QED BY <1>a, <2>1, Divided, Zenon
<1>5. \E t, u : InFour(s, t, u)
  <2>1. PICK a \in Nat, b \in Nat : b < year /\ s = year * a + b
    BY <1>a, Divided, Zenon
  <2>2. InFour(s, a, b) \/ InFour(s, 3, year)
    BY <1>0, <1>4, <2>1, SMT DEF InFour
  <2>. QED BY <2>2, SMT
<1>6. PICK t, u : InFour(s, t, u)
  BY <1>5
<1>7. q <= 24
  BY <1>0, <1>3, <1>4, SMT DEF InEra
<1>8. u = 365 => q # 24 \/ c = 3
  BY <1>0, <1>3, <1>4, <1>6, SMT DEF InEra, InFour
<1>9. days = 146097 * e + 36524 * c + 1461 * q + 365 * t + u
  BY <1>0, <1>1, <1>3, <1>4, <1>6, SMT DEF InEra, InFour
<1>10. DayAt(days, e, c, q, t, u)
  BY <1>3, <1>6, <1>7, <1>8, <1>9, SMT DEF DayAt, InEra, InFour
<1>. QED BY <1>10

\* The quotients of the algorithm.
YearIs(days, e, doe, yoe, u) ==
  /\ days \div 146097 = e /\ days - e * 146097 = doe
  /\ (doe - doe \div 1460 + doe \div 36524 - doe \div 146096) \div 365 = yoe
  /\ doe - (365 * yoe + yoe \div 4 - yoe \div 100) = u

LEMMA YearOfEra ==
  ASSUME NEW days, NEW e, NEW c, NEW q, NEW t, NEW u, DayAt(days, e, c, q, t, u)
  PROVE  \E doe, yoe : YearIs(days, e, doe, yoe, u) /\ yoe = 100 * c + 4 * q + t
<1>1. /\ e \in Nat /\ c \in Nat /\ q \in Nat /\ t \in Nat /\ u \in Nat
      /\ c <= 3 /\ q <= 24 /\ t <= 3 /\ u <= 365
      /\ days = 146097 * e + 36524 * c + 1461 * q + 365 * t + u
      /\ u = 365 => t = 3 /\ (q # 24 \/ c = 3)
  BY DEF DayAt
<1>2. PICK doe \in Nat : doe = 36524 * c + 1461 * q + 365 * t + u
  BY <1>1, SMT
<1>3. doe <= 146096 /\ days = 146097 * e + doe
  <2>1. doe <= 146096
    BY <1>1, <1>2, SMT
  <2>2. days = 146097 * e + doe
    BY <1>1, <1>2, SMT
  <2>. QED BY <2>1, <2>2
<1>4. days \div 146097 = e
  BY <1>1, <1>3, SMT
<1>5. days - e * 146097 = doe
  BY <1>1, <1>3, SMT
<1>6. PICK z : z = (IF doe = 146096 THEN 1 ELSE 0)
  OBVIOUS
<1>7. doe \div 146096 = z
  BY <1>3, <1>6, SMT
<1>8. doe \div 36524 = c + z
  <2>1. CASE doe = 146096
    <3>1. c = 3
      BY <1>1, <1>2, <2>1, SMT
    <3>. QED BY <1>6, <2>1, <3>1, SMT
  <2>2. CASE doe # 146096
    <3>1. 1461 * q + 365 * t + u < 36524
      BY <1>1, <1>2, <1>3, <2>2, SMT
    <3>. QED BY <1>1, <1>2, <1>6, <2>2, <3>1, SMT
  <2>. QED BY <2>1, <2>2
<1>9. PICK s \in Nat : s = 365 * t + u
  BY <1>1, SMT
<1>10. s <= 1460 /\ doe = 1460 * (25 * c + q) + (24 * c + q + s)
  <2>1. s <= 1460
    BY <1>1, <1>9, SMT
  <2>2. doe = 1460 * (25 * c + q) + (24 * c + q + s)
    BY <1>1, <1>2, <1>9, SMT
  <2>. QED BY <2>1, <2>2
<1>11. PICK x : x = (IF 24 * c + q + s >= 1460 THEN 1 ELSE 0)
  OBVIOUS
<1>12. doe \div 1460 = 25 * c + q + x
  BY <1>1, <1>10, <1>11, SMT
<1>13. x \in {0, 1} /\ z \in {0, 1}
  BY <1>6, <1>11
<1>14. doe - doe \div 1460 + doe \div 36524 - doe \div 146096 = 365 * (100 * c + 4 * q) + (s - x)
  <2>1. doe - (25 * c + q + x) + (c + z) - z = 365 * (100 * c + 4 * q) + (s - x)
    BY <1>1, <1>2, <1>9, <1>13, SMT
  <2>. QED BY <1>7, <1>8, <1>12, <2>1
<1>15. PICK v \in Nat : v = u - x /\ v < 365
  BY <1>1, <1>9, <1>11, SMT
<1>16. PICK yoe \in Nat : yoe = 100 * c + 4 * q + t
  BY <1>1, SMT
<1>17. 365 * (100 * c + 4 * q) + (s - x) = 365 * yoe + v
  BY <1>1, <1>9, <1>13, <1>15, <1>16, SMT
<1>18. (365 * yoe + v) \div 365 = yoe
  <2>1. PICK x5 \in Nat : x5 = 365 * yoe + v
    BY <1>15, <1>16, SMT
  <2>2. x5 \div 365 = yoe
    BY <1>15, <1>16, <2>1, SMT
  <2>. QED BY <2>1, <2>2
<1>19. yoe \div 4 = 25 * c + q
  BY <1>1, <1>16, SMT
<1>20. yoe \div 100 = c
  BY <1>1, <1>16, SMT
<1>21. doe - (365 * yoe + (25 * c + q) - c) = u
  BY <1>1, <1>2, <1>16, SMT
<1>22. /\ days \div 146097 = e
       /\ (doe - doe \div 1460 + doe \div 36524 - doe \div 146096) \div 365 = yoe
       /\ doe - (365 * yoe + yoe \div 4 - yoe \div 100) = u
  BY <1>4, <1>14, <1>17, <1>18, <1>19, <1>20, <1>21, SMT
<1>23. YearIs(days, e, doe, yoe, u)
  BY <1>5, <1>22, SMT DEF YearIs
<1>. QED BY <1>16, <1>23, SMT

\* The day u of a year that begins with March is d of month m.
InMonth(u, m, d) ==
  /\ d >= 1
  /\ \/ m = 3 /\ u = d - 1 /\ d <= 31
     \/ m = 4 /\ u = 31 + d - 1 /\ d <= 30
     \/ m = 5 /\ u = 61 + d - 1 /\ d <= 31
     \/ m = 6 /\ u = 92 + d - 1 /\ d <= 30
     \/ m = 7 /\ u = 122 + d - 1 /\ d <= 31
     \/ m = 8 /\ u = 153 + d - 1 /\ d <= 31
     \/ m = 9 /\ u = 184 + d - 1 /\ d <= 30
     \/ m = 10 /\ u = 214 + d - 1 /\ d <= 31
     \/ m = 11 /\ u = 245 + d - 1 /\ d <= 30
     \/ m = 12 /\ u = 275 + d - 1 /\ d <= 31
     \/ m = 1 /\ u = 306 + d - 1 /\ d <= 31
     \/ m = 2 /\ u = 337 + d - 1 /\ d <= 29

\* The algorithm's month and day of the day u of a year.
MonthIs(u, mp, m, d) ==
  /\ u \in Nat /\ u <= 365 /\ mp = (5 * u + 2) \div 153
  /\ m = (IF mp < 10 THEN mp + 3 ELSE mp - 9)
  /\ d = u - (153 * mp + 2) \div 5 + 1

LEMMA MonthOfYear ==
  ASSUME NEW u, NEW mp, NEW m, NEW d, MonthIs(u, mp, m, d)
  PROVE  d \in Int /\ InMonth(u, m, d)
<1>0. /\ u \in Nat /\ u <= 365 /\ mp = (5 * u + 2) \div 153
      /\ m = (IF mp < 10 THEN mp + 3 ELSE mp - 9)
      /\ d = u - (153 * mp + 2) \div 5 + 1
  BY SMT DEF MonthIs
<1>1. PICK v \in Nat : v = 5 * u + 2
  BY <1>0, SMT
<1>2. PICK month \in Nat : month = 153
  BY SMT
<1>3. month > 0
  BY <1>2, SMT
<1>4. PICK a \in Nat, b \in Nat : b < month /\ v = month * a + b
  BY <1>3, Divided, Zenon
<1>5. v \div 153 = a
  BY <1>2, <1>4, SMT
<1>6. mp = a /\ 153 * a <= 5 * u + 2 /\ 5 * u + 2 < 153 * a + 153
  BY <1>0, <1>1, <1>2, <1>4, <1>5, SMT
<1>7. a <= 11
  BY <1>0, <1>6, SMT
<1>8. PICK start : start = (153 * a + 2) \div 5
  OBVIOUS
<1>9. \/ a = 0 /\ start = 0
      \/ a = 1 /\ start = 31
      \/ a = 2 /\ start = 61
      \/ a = 3 /\ start = 92
      \/ a = 4 /\ start = 122
      \/ a = 5 /\ start = 153
      \/ a = 6 /\ start = 184
      \/ a = 7 /\ start = 214
      \/ a = 8 /\ start = 245
      \/ a = 9 /\ start = 275
      \/ a = 10 /\ start = 306
      \/ a = 11 /\ start = 337
  BY <1>7, <1>8, SMT
<1>10. d = u - start + 1
  BY <1>0, <1>6, <1>8, SMT
<1>11. d \in Int /\ InMonth(u, m, d)
  BY <1>0, <1>6, <1>9, <1>10, SMT DEF InMonth
<1>. QED BY <1>11

LeapDay(y) == IF Leap(y) THEN 1 ELSE 0

\* The leap years up to a year.
Leaps(y) == y \div 4 - y \div 100 + y \div 400

LEMMA LeapsGrow ==
  ASSUME NEW y \in Nat
  PROVE  Leaps(y) \in Int /\ Leaps(y + 1) = Leaps(y) + LeapDay(y + 1)
<1>1. /\ (y + 1) \div 4 = y \div 4 + (IF (y + 1) % 4 = 0 THEN 1 ELSE 0)
      /\ y \div 4 \in Nat
  BY SMT
<1>2. /\ (y + 1) \div 100 = y \div 100 + (IF (y + 1) % 100 = 0 THEN 1 ELSE 0)
      /\ y \div 100 \in Nat
  BY SMT
<1>3. /\ (y + 1) \div 400 = y \div 400 + (IF (y + 1) % 400 = 0 THEN 1 ELSE 0)
      /\ y \div 400 \in Nat
  BY SMT
<1>4. (y + 1) % 100 = 0 => (y + 1) % 4 = 0
  BY SMT
<1>5. (y + 1) % 400 = 0 => (y + 1) % 100 = 0
  BY SMT
<1>. QED BY <1>1, <1>2, <1>3, <1>4, <1>5, SMT DEF Leaps, LeapDay, Leap

LeapYears(n) == {x \in 1970..1970 + n - 1 : Leap(x)}

LEMMA LeapsCounted ==
  ASSUME NEW n \in Nat
  PROVE  Cardinality(LeapYears(n)) = Leaps(1970 + n - 1) - 477
<1>. DEFINE S == {i \in 0..n : IsFiniteSet(LeapYears(i)) /\ Cardinality(LeapYears(i)) = Leaps(1970 + i - 1) - 477}
<1>1. 0 \in S
  <2>1. LeapYears(0) = {}
    BY SMT DEF LeapYears
  <2>2. Leaps(1970 + 0 - 1) = 477
    BY SMT DEF Leaps
  <2>3. IsFiniteSet(LeapYears(0)) /\ Cardinality(LeapYears(0)) = 0
    BY <2>1, FS_EmptySet
  <2>. QED BY <2>2, <2>3, SMT
<1>2. ASSUME NEW i \in 0..n - 1, i \in S PROVE i + 1 \in S
  <2>1. PICK y \in Nat : y = 1969 + i
    BY SMT
  <2>2. Leaps(y + 1) = Leaps(y) + LeapDay(y + 1) /\ Leaps(y) \in Int
    BY LeapsGrow
  <2>3. 1970 + i - 1 = y /\ 1970 + (i + 1) - 1 = y + 1 /\ i + 1 \in 0..n
    BY <2>1, SMT
  <2>4. PICK A, B : A = LeapYears(i) /\ B = LeapYears(i + 1)
    OBVIOUS
  <2>5. y + 1 \notin A /\ B = IF Leap(y + 1) THEN A \cup {y + 1} ELSE A
    BY <2>1, <2>3, <2>4, SMT DEF LeapYears
  <2>6. IsFiniteSet(A) /\ Cardinality(A) = Leaps(y) - 477
    BY <1>2, <2>3, <2>4
  <2>7. IsFiniteSet(A \cup {y + 1}) /\ Cardinality(A \cup {y + 1}) = Cardinality(A) + 1
    BY <2>5, <2>6, FS_AddElement
  <2>8. IsFiniteSet(B) /\ Cardinality(B) = Leaps(y + 1) - 477
    BY <2>2, <2>5, <2>6, <2>7, SMT DEF LeapDay
  <2>. QED BY <2>3, <2>4, <2>8, SMT
<1>. HIDE DEF S
<1>3. n \in S
  <2>1. n \in 0..n
    BY SMT
  <2>. QED BY <1>1, <1>2, <2>1, UpTo
<1>. QED BY <1>3 DEF S

\* How many days of a year are before a month.
Earlier(y, m) ==
  CASE m = 1 -> 0
    [] m = 2 -> 31
    [] m = 3 -> 59 + LeapDay(y)
    [] m = 4 -> 90 + LeapDay(y)
    [] m = 5 -> 120 + LeapDay(y)
    [] m = 6 -> 151 + LeapDay(y)
    [] m = 7 -> 181 + LeapDay(y)
    [] m = 8 -> 212 + LeapDay(y)
    [] m = 9 -> 243 + LeapDay(y)
    [] m = 10 -> 273 + LeapDay(y)
    [] m = 11 -> 304 + LeapDay(y)
    [] m = 12 -> 334 + LeapDay(y)

IsMonths(f, y) == f = [n \in 1..12 |-> IF n = 1 THEN 0 ELSE f[n - 1] + LengthOf(y, n - 1)]

LEMMA MonthsBefore ==
  ASSUME NEW y, NEW m \in 1..12
  PROVE  DaysBefore(y, m) = Earlier(y, m)
<1>1. LeapDay(y) \in {0, 1} /\ \A n \in 1..12 : LengthOf(y, n) = IF n = 2 THEN 28 + LeapDay(y) ELSE IF n \in {4, 6, 9, 11} THEN 30 ELSE 31
  BY SMT DEF LeapDay, LengthOf
<1>2. PICK g : g = [n \in 1..12 |-> Earlier(y, n)]
  BY Zenon
<1>3. ASSUME NEW n \in 1..12
      PROVE  Earlier(y, n) = IF n = 1 THEN 0 ELSE Earlier(y, n - 1) + LengthOf(y, n - 1)
  <2>1. n \in {1, 2, 3, 4, 5, 6, 7, 8, 9, 10, 11, 12}
    BY SMT
  <2>. QED BY <1>1, <2>1, SMT DEF Earlier
<1>4. IsMonths(g, y)
  <2>1. \A n \in 1..12 : g[n] = IF n = 1 THEN 0 ELSE g[n - 1] + LengthOf(y, n - 1)
    BY <1>2, <1>3, SMT
  <2>. QED BY <1>2, <2>1, SMT DEF IsMonths
<1>5. PICK f : IsMonths(f, y) /\ DaysBefore(y, m) = f[m]
  <2>1. PICK f : f = CHOOSE h : IsMonths(h, y)
    OBVIOUS
  <2>2. IsMonths(f, y)
    BY <1>4, <2>1
  <2>3. DaysBefore(y, m) = f[m]
    BY <2>1 DEF DaysBefore, IsMonths
  <2>. QED BY <2>2, <2>3
<1>6. \A n \in 1..12 : f[n] = IF n = 1 THEN 0 ELSE f[n - 1] + LengthOf(y, n - 1)
  BY <1>5, SMT DEF IsMonths
<1>. DEFINE S == {n \in 0..11 : f[n + 1] = Earlier(y, n + 1)}
<1>7. 0 \in S
  BY <1>3, <1>6, SMT
<1>8. ASSUME NEW n \in 0..10, n \in S PROVE n + 1 \in S
  <2>1. PICK k \in 1..12 : k = n + 2
    BY SMT
  <2>2. f[k] = f[k - 1] + LengthOf(y, k - 1) /\ Earlier(y, k) = Earlier(y, k - 1) + LengthOf(y, k - 1)
    BY <1>3, <1>6, <2>1, SMT
  <2>3. k - 1 = n + 1 /\ k = (n + 1) + 1 /\ n + 1 \in 0..11
    BY <2>1, SMT
  <2>. QED BY <1>8, <2>2, <2>3
<1>. HIDE DEF S
<1>9. m - 1 \in S
  <2>1. m - 1 \in 0..11 /\ 11 \in Nat /\ 11 - 1 = 10
    BY SMT
  <2>. QED BY <1>7, <1>8, <2>1, UpTo
<1>10. (m - 1) + 1 = m
  BY SMT
<1>. QED BY <1>5, <1>9, <1>10 DEF S

\* The day u of the year y that begins with March is d of month m in year z.
LEMMA DayIsDay ==
  ASSUME NEW y \in Nat, y >= 1969, NEW u \in Nat, NEW m, NEW d \in Int, InMonth(u, m, d), NEW n \in Nat,
         365 * y + Leaps(y) + u = n + 719468, u = 365 => Leap(y + 1),
         NEW z, z = IF m <= 2 THEN y + 1 ELSE y
  PROVE  IsDay(<<z, m, d>>, n)
<1>1. Leaps(y) \in Int /\ Leaps(y + 1) = Leaps(y) + LeapDay(y + 1)
  BY LeapsGrow
<1>2. m \in 1..12 /\ d >= 1
  BY SMT DEF InMonth
<1>3. z \in Nat /\ z >= 1970
  <2>1. CASE y > 1969
    BY <1>2, <2>1, SMT
  <2>2. CASE y = 1969
    <3>1. Leaps(y) = 477
      BY <2>2, SMT DEF Leaps
    <3>2. u >= 306
      BY <2>2, <3>1, SMT
    <3>3. m <= 2
      BY <3>2, SMT DEF InMonth
    <3>. QED BY <2>2, <3>3, SMT
  <2>. QED BY <2>1, <2>2, SMT
<1>4. d <= LengthOf(z, m)
  <2>1. m = 2 => (d <= 28 \/ u = 365)
    BY SMT DEF InMonth
  <2>2. m = 2 => d <= 29 /\ z = y + 1
    BY SMT DEF InMonth
  <2>3. CASE m = 2
    BY <2>1, <2>2, <2>3, SMT DEF LengthOf
  <2>4. CASE m # 2
    BY <2>4, SMT DEF LengthOf, InMonth
  <2>. QED BY <2>3, <2>4
<1>5. Cardinality({x \in 1970..z - 1 : Leap(x)}) = Leaps(z - 1) - 477
  <2>1. PICK k \in Nat : k = z - 1970
    BY <1>3, SMT
  <2>2. 1970 + k - 1 = z - 1
    BY <1>3, <2>1, SMT
  <2>3. LeapYears(k) = {x \in 1970..z - 1 : Leap(x)}
    BY <2>2 DEF LeapYears
  <2>4. Cardinality(LeapYears(k)) = Leaps(1970 + k - 1) - 477
    BY LeapsCounted
  <2>. QED BY <2>2, <2>3, <2>4
<1>6. DaysBefore(z, m) = Earlier(z, m)
  BY <1>2, MonthsBefore
<1>7. 365 * (z - 1970) + (Leaps(z - 1) - 477) + Earlier(z, m) + d - 1 = n
  <2>1. LeapDay(z) \in {0, 1}
    BY DEF LeapDay
  <2>2. CASE m <= 2
    <3>1. z = y + 1 /\ z - 1 = y
      BY <2>2, SMT
    <3>2. (m = 1 /\ u = 305 + d) \/ (m = 2 /\ u = 336 + d)
      BY <1>2, <2>2, SMT DEF InMonth
    <3>3. (m = 1 /\ Earlier(z, m) = 0) \/ (m = 2 /\ Earlier(z, m) = 31)
      BY <3>2, SMT DEF Earlier
    <3>. QED BY <1>1, <3>1, <3>2, <3>3, SMT
  <2>3. CASE m > 2
    <3>1. z = y
      BY <1>2, <2>3, SMT
    <3>2. PICK w \in Nat : w = y - 1
      BY SMT
    <3>3. w + 1 = y /\ z - 1 = w
      BY <3>1, <3>2, SMT
    <3>4. Leaps(w) \in Int /\ Leaps(y) = Leaps(w) + LeapDay(y)
      BY <3>2, <3>3, LeapsGrow
    <3>5. Earlier(z, m) = u - d + 60 + LeapDay(z)
      <4>1. m \in {3, 4, 5, 6, 7, 8, 9, 10, 11, 12}
        BY <1>2, <2>3, SMT
      <4>. QED BY <2>1, <4>1, SMT DEF Earlier, InMonth
    <3>. QED BY <2>1, <3>1, <3>3, <3>4, <3>5, SMT
  <2>. QED BY <1>2, <2>2, <2>3, SMT
<1>8. DayNumber(z, m, d) = n
  BY <1>5, <1>6, <1>7 DEF DayNumber
<1>. QED BY <1>2, <1>4, <1>8, SMT DEF IsDay

\* The algorithm from the day of the era on, and from the day of the year on.
InYearYmd(doy, yoe, era) ==
  LET mp == (5 * doy + 2) \div 153
      month == IF mp < 10 THEN mp + 3 ELSE mp - 9
  IN <<IF month <= 2 THEN yoe + era * 400 + 1 ELSE yoe + era * 400, month, doy - (153 * mp + 2) \div 5 + 1>>

InEraYmd(doe, era) ==
  LET yoe == (doe - doe \div 1460 + doe \div 36524 - doe \div 146096) \div 365
  IN InYearYmd(doe - (365 * yoe + yoe \div 4 - yoe \div 100), yoe, era)

Ymd(days) == LET era == days \div 146097 IN InEraYmd(days - era * 146097, era)

(***************************************************************************)
(* The date computed of a day is that day, for every day since 1970: its   *)
(* month and its day of the month are those of the calendar, and the days  *)
(* of the years, leap years counted, and of the months before it are the   *)
(* days since 1970.  (days_to_ymd)                                         *)
(***************************************************************************)
THEOREM DaysAreDates == \A n \in Nat : IsDay(DaysToYmd(n), n)
<1>. SUFFICES ASSUME NEW n \in Nat PROVE IsDay(DaysToYmd(n), n)
  BY SMT
<1>1. PICK days \in Nat : days = n + 719468
  BY SMT
<1>2. PICK e, c, q, t, u : DayAt(days, e, c, q, t, u)
  BY DayAtIs
<1>3. PICK doe, yoe : YearIs(days, e, doe, yoe, u) /\ yoe = 100 * c + 4 * q + t
  BY <1>2, YearOfEra, SMT
<1>4. /\ e \in Nat /\ c \in Nat /\ q \in Nat /\ t \in Nat /\ u \in Nat
      /\ c <= 3 /\ q <= 24 /\ t <= 3 /\ u <= 365
      /\ days = 146097 * e + 36524 * c + 1461 * q + 365 * t + u
      /\ u = 365 => t = 3 /\ (q # 24 \/ c = 3)
  BY <1>2, SMT DEF DayAt
<1>5. PICK y \in Nat : y = yoe + e * 400
  BY <1>3, <1>4, SMT
<1>6. y \div 4 = 100 * e + 25 * c + q /\ y \div 100 = 4 * e + c /\ y \div 400 = e
  <2>1. y \div 4 = 100 * e + 25 * c + q
    BY <1>3, <1>4, <1>5, SMT
  <2>2. y \div 100 = 4 * e + c
    BY <1>3, <1>4, <1>5, SMT
  <2>3. y \div 400 = e
    BY <1>3, <1>4, <1>5, SMT
  <2>. QED BY <2>1, <2>2, <2>3
<1>7. 365 * y + Leaps(y) + u = n + 719468
  BY <1>1, <1>3, <1>4, <1>5, <1>6, SMT DEF Leaps
<1>8. y >= 1969
  BY <1>1, <1>3, <1>4, <1>5, SMT
<1>9. u = 365 => Leap(y + 1)
  <2>. SUFFICES ASSUME u = 365 PROVE Leap(y + 1)
    BY SMT
  <2>1. t = 3 /\ (q # 24 \/ c = 3)
    BY <1>4, SMT
  <2>2. y + 1 = 4 * (100 * e + 25 * c + q + 1)
    BY <1>3, <1>4, <1>5, <2>1, SMT
  <2>3. (y + 1) % 4 = 0
    BY <1>4, <2>2, SMT
  <2>4. CASE q = 24
    <3>1. y + 1 = 400 * (e + 1)
      BY <1>4, <2>1, <2>2, <2>4, SMT
    <3>2. (y + 1) % 400 = 0
      BY <1>4, <3>1, SMT
    <3>. QED BY <2>3, <3>2, SMT DEF Leap
  <2>5. CASE q < 24
    <3>1. y + 1 = 100 * (4 * e + c) + 4 * (q + 1)
      BY <1>4, <2>2, SMT
    <3>2. (y + 1) % 100 # 0
      BY <1>4, <2>5, <3>1, SMT
    <3>. QED BY <2>3, <3>2, SMT DEF Leap
  <2>. QED BY <1>4, <2>4, <2>5, SMT
<1>10. PICK mp, m, d : /\ mp = (5 * u + 2) \div 153
                       /\ m = (IF mp < 10 THEN mp + 3 ELSE mp - 9)
                       /\ d = u - (153 * mp + 2) \div 5 + 1
  BY SMT
<1>12. d \in Int /\ InMonth(u, m, d)
  <2>1. MonthIs(u, mp, m, d)
    BY <1>4, <1>10, SMT DEF MonthIs
  <2>. QED BY <2>1, MonthOfYear, Zenon
<1>14. PICK z : z = IF m <= 2 THEN y + 1 ELSE y
  OBVIOUS
<1>15. DaysToYmd(n) = <<z, m, d>>
  <2>1. /\ days \div 146097 = e /\ days - e * 146097 = doe
        /\ (doe - doe \div 1460 + doe \div 36524 - doe \div 146096) \div 365 = yoe
        /\ doe - (365 * yoe + yoe \div 4 - yoe \div 100) = u
    BY <1>3, SMT DEF YearIs
  <2>2. PICK era : era = days \div 146097
    BY SMT
  <2>5. DaysToYmd(n) = Ymd(n + 719468)
    BY SMT DEF DaysToYmd, Ymd, InEraYmd, InYearYmd
  <2>6. Ymd(days) = InEraYmd(days - era * 146097, era)
    BY <2>2, SMT DEF Ymd
  <2>3. InEraYmd(doe, e) = InYearYmd(u, yoe, e)
    BY <2>1, SMT DEF InEraYmd, InYearYmd
  <2>4. InYearYmd(u, yoe, e) = <<IF m <= 2 THEN yoe + e * 400 + 1 ELSE yoe + e * 400, m, d>>
    BY <1>10, SMT DEF InYearYmd
  <2>7. DaysToYmd(n) = <<IF m <= 2 THEN yoe + e * 400 + 1 ELSE yoe + e * 400, m, d>>
    BY <1>1, <2>1, <2>2, <2>3, <2>4, <2>5, <2>6, SMT
  <2>. QED BY <1>5, <1>14, <2>7, SMT
<1>16. IsDay(<<z, m, d>>, n)
  BY <1>4, <1>7, <1>8, <1>9, <1>12, <1>14, DayIsDay, SMT
<1>. QED BY <1>15, <1>16, SMT

\* A timestamp's day and hour, minute and second, and no date for zero.
LEMMA DateOf ==
  ASSUME NEW n \in Nat
  PROVE  /\ n = 0 => FormatTimestamp(n, SecondOf(n)) = <<>>
         /\ n # 0 => LET date == FormatTimestamp(n, SecondOf(n)) IN
                       IsDay(date, n) /\ <<date[4], date[5], date[6]>> = <<23, 59, 59>>
<1>1. n = 0 => FormatTimestamp(n, SecondOf(n)) = <<>>
  BY SMT DEF FormatTimestamp, SecondOf
<1>2. ASSUME n # 0
      PROVE  LET date == FormatTimestamp(n, SecondOf(n)) IN
               IsDay(date, n) /\ <<date[4], date[5], date[6]>> = <<23, 59, 59>>
  <2>1. FormatTimestamp(n, SecondOf(n)) = Decompose(n, 86399)
    BY <1>2, SMT DEF FormatTimestamp, SecondOf
  <2>2. Decompose(n, 86399) = DaysToYmd(n) \o <<23, 59, 59>>
    <3>1. 86399 \div 3600 = 23 /\ (86399 \div 60) % 60 = 59 /\ 86399 % 60 = 59
      BY SMT
    <3>. QED BY <3>1, SMT DEF Decompose
  <2>3. PICK y, m, d : DaysToYmd(n) = <<y, m, d>>
    BY SMT DEF DaysToYmd
  <2>4. PICK date : date = <<y, m, d>> \o <<23, 59, 59>>
    OBVIOUS
  <2>5. date[1] = y /\ date[2] = m /\ date[3] = d /\ date[4] = 23 /\ date[5] = 59 /\ date[6] = 59
    BY <2>4, SMT
  <2>6. IsDay(<<y, m, d>>, n)
    BY <2>3, DaysAreDates
  <2>7. IsDay(date, n)
    BY <2>5, <2>6 DEF IsDay
  <2>8. FormatTimestamp(n, SecondOf(n)) = date
    BY <2>1, <2>2, <2>3, <2>4, SMT
  <2>. QED BY <2>5, <2>7, <2>8, Zenon
<1>. QED BY <1>1, <1>2

LEMMA LoggedDates ==
  ASSUME LogInv, DateInv, Understood
  PROVE  DatesRight
<1>. DEFINE Right(note, date) ==
       IF note.kind \notin Timed \/ Number(note.fields[1]) = 0 THEN date = <<>>
       ELSE IsDay(date, Number(note.fields[1])) /\ <<date[4], date[5], date[6]>> = <<23, 59, 59>>
<1>. SUFFICES ASSUME NEW k \in DOMAIN log PROVE Right(told[log[k].report].meant, log[k].date)
  BY Zenon DEF DatesRight
<1>0. PICK note, date : note = told[log[k].report].meant /\ date = log[k].date
  BY Zenon
<1>1. log[k].report \in DOMAIN told
  BY DEF LogInv, LogIsTail, LoggedPlaces
<1>2. TimeMeant(note) /\ date = Dated(note)
  BY <1>0, <1>1 DEF DateInv, Understood
<1>3. note.kind \notin Timed => Right(note, date)
  BY <1>2, Zenon DEF Dated
<1>4. ASSUME note.kind \in Timed PROVE Right(note, date)
  <2>1. PICK n : n = Number(note.fields[1])
    OBVIOUS
  <2>2. n \in Nat
    BY <1>2, <1>4, <2>1, NumberIs DEF TimeMeant
  <2>3. date = FormatTimestamp(n, SecondOf(n))
    BY <1>2, <1>4, <2>1, Zenon DEF Dated
  <2>. QED BY <1>4, <2>1, <2>2, <2>3, DateOf, Zenon
<1>. QED BY <1>0, <1>3, <1>4, Zenon

(***************************************************************************)
(* Whatever is reported, and however much the log has moved on: an entry   *)
(* that came with a timestamp has the date of its day in the calendar and  *)
(* its time of day, one that came with the timestamp zero or with none has *)
(* no date, as long as the parsers make of the reports what the daemon     *)
(* meant by them.  (format_timestamp, handle_notification, add_log)        *)
(***************************************************************************)
THEOREM DatesAreRight == Spec => [](Understood => DatesRight)
<1>1. DashboardInv => (Understood => DatesRight)
  BY LoggedDates DEF DashboardInv
<1>. QED BY <1>1, DashboardInvariant, PTL
=============================================================================
