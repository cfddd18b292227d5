----------------------------- MODULE Dashboard -----------------------------
(***************************************************************************)
(* What the UI shows of a session (openvpn-mgmt-ui/src/main.rs from        *)
(* handle_ovpn_message on, and chart.rs), over the codec's parsers: a      *)
(* daemon with clients, a history of states and byte counters reports of   *)
(* them, and answers queries about them.                                   *)
(*                                                                         *)
(* A report is handled in the step it is made in: the pipeline before the  *)
(* App keeps the order of reports, and nothing else reads them.            *)
(***************************************************************************)
EXTENDS Responses, FiniteSetsExt

CONSTANTS
  MaxLogEntries,  \* MAX_LOG_ENTRIES
  MaxSamples,     \* MAX_SAMPLES
  StateLines,     \* states the daemon can be in: the fields it reports
  People,         \* clients that may connect, [cid, name, ip] as texts
  Growth,         \* by how much a byte counter grows between two reports
  Intervals,      \* what the user enters as bytecount interval
  Notices,        \* other notifications, [kind, payload, meant]
  Noticed,        \* those of them that are reported
  Replies,        \* what users answer to dynamic challenges
  MaxStates,      \* bound: states of the daemon
  MaxReports,     \* bound: reports and answers
  MaxUser,        \* bound: what the user does in the UI
  MaxSessions     \* bound: sessions

\* What told calls the answers to commands.
Answers == {"LoadStats", "Pid", "HoldAnswer", "Verb", "Mute", "Help", "Status", "Statistics", "Version", "StateAnswer"}

ASSUME DashboardAssumption ==
  /\ Noticed \subseteq Notices /\ \A n \in Notices : n.meant.kind \notin Answers \cup {"Client"}
  /\ {MaxLogEntries, MaxSamples, MaxSessions} \subseteq Nat \ {0}
  /\ {MaxStates, MaxReports, MaxUser} \subseteq Nat /\ Growth \subseteq Nat /\ Intervals \subseteq Nat

VARIABLES
  \* The daemon.
  states,    \* its states so far
  online,    \* the clients that are connected
  counter,   \* the byte counters, [in, out]
  told,      \* what it has reported and answered in this session
  \* The App.
  vpn,       \* vpn_state, vpn_state_description, local_ip, remote_addr
  totals,    \* bytes_in and bytes_out
  chart,     \* ThroughputHistory
  log,       \* log_entries, each by its place in told
  clients,   \* clients
  facts,     \* version_lines, help_lines, pid, load_stats, verb_input, mute_input
  interval,  \* startup.bytecount_interval
  selected,  \* selected_log_index, and the entry that was chosen
  \* Counters for the bounds.
  reports, user, sessions

daemonVars == <<states, online, counter, told>>
shownVars  == <<vpn, totals, chart, log, clients, facts>>
vars       == <<daemonVars, shownVars, interval, selected, reports, user, sessions>>

LastOf(s, n) == SubSeq(s, IF Len(s) > n THEN Len(s) - n + 1 ELSE 1, Len(s))

NoState == [name |-> <<>>, description |-> <<>>, localIp |-> <<>>, remote |-> <<>>]
NoChart == [samples |-> <<>>, in |-> 0, out |-> 0, seeded |-> FALSE]
NoFacts == [version |-> <<>>, help |-> <<>>, pid |-> <<>>, load |-> <<>>, verb |-> <<>>, mute |-> <<>>]
NoBytes == [in |-> 0, out |-> 0]
-----------------------------------------------------------------------------
(***************************************************************************)
(* The App's handlers.  What they log is the report itself.                *)
(***************************************************************************)
\* Mutant of AddLog: the newest entry comes first, as it is shown.
AddLogFirst(entries, entry) == SubSeq(<<entry>> \o entries, 1, IF Len(entries) < MaxLogEntries THEN Len(entries) + 1 ELSE MaxLogEntries)

AddLog(entries, entry) == LastOf(Append(entries, entry), MaxLogEntries)

\* Warning for what asks for something, as the arms of handle_notification say.
Warnings == {"Hold", "NeedAuth", "NeedPassword", "VerificationFailed", "StaticChallenge", "DynamicChallenge",
             "NeedOk", "NeedStr", "NeedCertificate", "PasswordPrompt", "Unrecognized"}
Level(note) ==
  CASE note.kind = "Log"                                -> note.fields[2]
    [] note.kind = "Fatal"                              -> <<"F">>
    [] note.kind \in Warnings                           -> <<"W">>
    [] note.kind \in {"ByteCountCli", "ClientAddress"}  -> <<"D">>
    [] OTHER                                            -> <<"I">>

\* A timestamp n stands for the last second of day n, and 0 for none.
SecondOf(n) == IF n = 0 THEN 0 ELSE 86399

\* What comes with a timestamp.
Timed == {"State", "Log", "Echo"}

\* The date in an entry.
Dated(note) ==
  LET n == Number(note.fields[1]) IN
  IF note.kind \in Timed THEN FormatTimestamp(n, SecondOf(n)) ELSE <<>>

Logged(note) == note.kind # "ByteCount" /\ note.kind # "Pkcs11IdEntry"

LogReport(note) ==
  log' = IF Logged(note) THEN AddLog(log, [report |-> Len(told) + 1, level |-> Level(note), date |-> Dated(note)]) ELSE log

IfGiven(t) == IF t = <<>> THEN <<>> ELSE <<t>>

\* The remote address with its port, if there is one.
RemoteAddress(ip, port) == IF ip = <<>> THEN <<>> ELSE <<ip \o port>>

\* Notification::State: every part is replaced.
HandleState(f) ==
  vpn' = [name |-> <<f[2]>>, description |-> <<f[3]>>, localIp |-> IfGiven(f[4]),
          remote |-> RemoteAddress(f[5], IF f[6] = <<>> THEN <<>> ELSE <<":">> \o f[6][1])]

Saturating(a, b) == IF a >= b THEN a - b ELSE 0

\* Mutant of Push: the window keeps one sample too many.
PushOneMore(c, in, out, seconds) ==
  IF ~c.seeded THEN [c EXCEPT !.in = in, !.out = out, !.seeded = TRUE]
  ELSE [samples |-> LastOf(Append(c.samples, [in |-> Saturating(in, c.in), out |-> Saturating(out, c.out),
                                              seconds |-> IF seconds = 0 THEN 1 ELSE seconds]), MaxSamples + 1),
        in |-> in, out |-> out, seeded |-> TRUE]

\* ThroughputHistory::push: the first reading gives no sample.
Push(c, in, out, seconds) ==
  IF ~c.seeded THEN [c EXCEPT !.in = in, !.out = out, !.seeded = TRUE]
  ELSE [samples |-> LastOf(Append(c.samples, [in |-> Saturating(in, c.in), out |-> Saturating(out, c.out),
                                              seconds |-> IF seconds = 0 THEN 1 ELSE seconds]), MaxSamples),
        in |-> in, out |-> out, seeded |-> TRUE]

HandleByteCount(f) ==
  /\ chart' = Push(chart, Number(f[1]), Number(f[2]), interval)
  /\ totals' = [in |-> Number(f[1]), out |-> Number(f[2])]

Joining == {<<"CONNECT">>, <<"REAUTH">>, <<"ESTABLISHED">>}

\* A client as it announces itself, with what its ENV has.
ClientInfo(event, cid, env) ==
  [cid |-> cid, name |-> IF "common_name" \in DOMAIN env THEN env.common_name ELSE event,
   ip |-> CASE "untrusted_ip" \in DOMAIN env -> env.untrusted_ip
            [] "IV_IP" \in DOMAIN env        -> env.IV_IP
            [] OTHER                         -> <<>>]

\* Mutant of HandleClient: a client that announces itself again is entered again.
HandleClientAgain(event, cid, env) ==
  clients' = CASE event \in Joining -> Append(clients, ClientInfo(event, cid, env))
               [] event = <<"DISCONNECT">> -> Without(clients, {c \in Range(clients) : c.cid = cid})
               [] OTHER -> clients

\* The list of clients.
HandleClient(event, cid, env) ==
  clients' = CASE event \in Joining /\ (\A i \in DOMAIN clients : clients[i].cid # cid) ->
                    Append(clients, ClientInfo(event, cid, env))
               [] event = <<"DISCONNECT">> -> Without(clients, {c \in Range(clients) : c.cid = cid})
               [] OTHER -> clients

HandleNotification(note) ==
  /\ IF note.kind = "State" THEN HandleState(note.fields) ELSE UNCHANGED vpn
  /\ IF note.kind = "ByteCount" THEN HandleByteCount(note.fields) ELSE UNCHANGED <<chart, totals>>
  /\ IF note.kind = "Client" THEN HandleClient(note.fields[1], note.fields[2], note.fields[5])
     ELSE UNCHANGED clients
  /\ LogReport(note)
  /\ UNCHANGED facts

\* ingest_success.
IngestSuccess(payload) ==
  LET kv == SplitN(payload, "=", 2) IN
  facts' = CASE StartsWith(payload, <<"pid", "=">>) /\ IsNumber(kv[2]) -> [facts EXCEPT !.pid = <<kv[2]>>]
             [] StartsWith(payload, <<"nclients", "=">>) /\ ParseLoadStats(payload) # <<>> ->
                  [facts EXCEPT !.load = ParseLoadStats(payload)]
             [] StartsWith(payload, <<"verb", "=">>) -> [facts EXCEPT !.verb = <<kv[2]>>]
             [] StartsWith(payload, <<"mute", "=">>) -> [facts EXCEPT !.mute = <<kv[2]>>]
             [] OTHER -> facts

VersionHeads == {"OpenVPN Version", "Management Version"}

\* A polled state replaces an address only by another.
ShowEntry(ps) ==
  [name |-> <<ps[2]>>, description |-> <<ps[3]>>,
   localIp |-> IF Get(ps, 4) = <<>> THEN vpn.localIp ELSE <<ps[4]>>,
   remote |-> IF Get(ps, 5) = <<>> THEN vpn.remote
              ELSE RemoteAddress(ps[5], IF Get(ps, 6) = <<>> THEN <<>> ELSE <<":">> \o ps[6])]

\* Mutant of LastEntry: the first line that has a state is taken.
FirstEntry(lines) ==
  LET entries == SelectSeq(lines, LAMBDA l : Len(SplitN(l, ",", 9)) >= 3 /\ SplitN(l, ",", 9)[2] \in KnownStates)
  IN IF entries = <<>> THEN <<>> ELSE <<SplitN(Head(entries), ",", 9)>>

\* The last line that has a state.
LastEntry(lines) ==
  LET entries == SelectSeq(lines, LAMBDA l : Len(SplitN(l, ",", 9)) >= 3 /\ SplitN(l, ",", 9)[2] \in KnownStates)
  IN IF entries = <<>> THEN <<>> ELSE <<SplitN(Last(entries), ",", 9)>>

\* Mutant of IngestMultiline: any line that names the program is of a version.
IngestMultilineTitle(lines) ==
  /\ facts' = [facts EXCEPT
       !.version = IF \E i \in DOMAIN lines : Range(lines[i]) \cap (VersionHeads \cup {"OpenVPN"}) # {} THEN <<lines>> ELSE @,
       !.help = IF \E i \in DOMAIN lines : StartsWith(lines[i], <<"help">>) /\ ":" \in Range(lines[i]) THEN <<lines>> ELSE @]
  /\ vpn' = IF LastEntry(lines) = <<>> THEN vpn ELSE ShowEntry(LastEntry(lines)[1])

\* ingest_multiline: what an answer is is told from its lines.
IngestMultiline(lines) ==
  /\ facts' = [facts EXCEPT
       !.version = IF \E i \in DOMAIN lines : Range(lines[i]) \cap VersionHeads # {} THEN <<lines>> ELSE @,
       !.help = IF \E i \in DOMAIN lines : StartsWith(lines[i], <<"help">>) /\ ":" \in Range(lines[i]) THEN <<lines>> ELSE @]
  /\ vpn' = IF LastEntry(lines) = <<>> THEN vpn ELSE ShowEntry(LastEntry(lines)[1])
-----------------------------------------------------------------------------
(***************************************************************************)
(* What the daemon writes.  A status is a snapshot of its clients.         *)
(***************************************************************************)
HistoryLines == [i \in DOMAIN states |-> Join(states[i], <<",">>)]

VersionLines == <<<<"OpenVPN Version", ":", " ", "OpenVPN 2.6">>, <<"Management Version", ":", " ", "5">>>>
HelpLines    == <<<<"help", " ", ":", " ", "a">>>>
LoadStats ==
  [k \in LoadStatsKeys |-> CASE k = "nclients" -> Numeral(Cardinality(online))
                             [] k = "bytesin"  -> Numeral(counter.in)
                             [] OTHER          -> Numeral(counter.out)]
LoadStatsText ==
  Join([i \in 1..3 |-> LET k == <<"nclients", "bytesin", "bytesout">>[i] IN <<k, "=">> \o LoadStats[k]], <<",">>)

Connected == SetToSeq(online)
RealAddress(p) == p.ip \o <<":", "7">>
Virtual(p)     == <<"10.8.0.", p.cid[1]>>
Virtual6(p)    == <<"fd00::", p.cid[1]>>
Since     == <<"today">>
Updated   == <<"now">>
In        == Numeral(counter.in)
Out       == Numeral(counter.out)
QueueStat == <<<<"Max bcast/mcast queue length">>, Numeral(1)>>

ForAll(line(_)) == [i \in DOMAIN Connected |-> line(Connected[i])]

V1Lines ==
  LET line(ps) == Join(ps, <<",">>)
      client(p) == line(<<p.name, RealAddress(p), In, Out, Since>>)
      route(p)  == line(<<Virtual(p), p.name, RealAddress(p), Since>>)
  IN <<<<"OpenVPN CLIENT LIST">>, line(<<<<"Updated">>, Updated>>), line(<<<<"Common Name">>, <<"Real Address">>>>)>>
       \o ForAll(client) \o <<<<"ROUTING TABLE">>, line(<<<<"Virtual Address">>, <<"Common Name">>>>)>>
       \o ForAll(route)  \o <<<<"GLOBAL STATS">>, line(QueueStat)>>

\* Formats 2 and 3, and the columns of a client in format 2.
TaggedLines(sep, columns(_)) ==
  LET line(ps) == Join(ps, <<sep>>)
      client(p) == line(<<<<"CLIENT_LIST">>>> \o columns(p))
      route(p)  == line(<<<<"ROUTING_TABLE">>, Virtual(p), p.name, RealAddress(p), Since, Numeral(7)>>)
  IN <<line(<<<<"TITLE">>, <<"OpenVPN", " ", "2.6">>>>), line(<<<<"TIME">>, Updated, Numeral(9)>>),
       line(<<<<"HEADER">>, <<"CLIENT_LIST">>>>)>>
       \o ForAll(client) \o ForAll(route) \o <<line(<<<<"GLOBAL_STATS">>>> \o QueueStat)>>

Columns26(p) ==
  <<p.name, RealAddress(p), Virtual(p), Virtual6(p), In, Out, Since, Numeral(8), <<"UNDEF">>, p.cid, Numeral(0), <<"AES">>>>
Columns23(p) == <<p.name, RealAddress(p), Virtual(p), In, Out, Since, Numeral(8), <<"UNDEF">>>>

\* status 1, 2, 3, and 2 as OpenVPN 2.3 has it.
StatusLines ==
  <<V1Lines, TaggedLines(",", Columns26), TaggedLines("\t", Columns26), TaggedLines(",", Columns23)>>
-----------------------------------------------------------------------------
(***************************************************************************)
(* The daemon.  Of a report told keeps what it means, what the codec makes *)
(* of it, its text if it is an answer, and for what is said of the chart   *)
(* and of the state, the interval the user has entered and the number of   *)
(* states.                                                                 *)
(***************************************************************************)
Tell(meant, heard, text) ==
  /\ reports < MaxReports /\ reports' = reports + 1
  /\ told' = Append(told, [meant |-> meant, heard |-> heard, text |-> text,
                           interval |-> interval, states |-> Len(states')])
  /\ UNCHANGED <<interval, selected, user, sessions>>

Notify(kind, payload, meant) ==
  LET note == ParseNotification(kind, payload) IN
  HandleNotification(note) /\ Tell(meant, note, <<>>)

\* The nine fields of a state that has so many of them, the ports optional.
StateMeant(l) ==
  LET field(i) == IF i <= Len(l) THEN l[i] ELSE <<>> IN
  Note("State", [i \in 1..9 |-> IF i \in {6, 8} THEN IfGiven(field(i)) ELSE field(i)])

\* The daemon's timestamps are numbers.
TimeMeant(meant) == meant.kind \in Timed => IsNumber(meant.fields[1])

ASSUME TimesAssumption ==
  (\A l \in StateLines : TimeMeant(StateMeant(l))) /\ (\A n \in Notices : TimeMeant(n.meant))

ReportState(l) ==
  /\ Len(states) < MaxStates /\ states' = Append(states, l)
  /\ Notify("STATE", Join(l, <<",">>), StateMeant(l))
  /\ UNCHANGED <<online, counter>>

\* A counter grows, or starts again when the tunnel does.
ReportBytes(in, out) ==
  /\ counter' = [in |-> in, out |-> out] /\ UNCHANGED <<states, online>>
  /\ Notify("BYTECOUNT", Numeral(in) \o <<",">> \o Numeral(out), Note("ByteCount", <<Numeral(in), Numeral(out)>>))

ReportNotice(n) ==
  /\ UNCHANGED <<states, online, counter>>
  /\ Notify(n.kind, n.payload, n.meant)

ReportLog(day) ==
  /\ UNCHANGED <<states, online, counter>>
  /\ Notify("LOG", Numeral(day) \o <<",", "N", ",", "a", ",", "b">>, Note("Log", <<Numeral(day), <<"N">>, <<"a", ",", "b">>>>))

\* What is no notification and is logged all the same: a banner, a prompt, an odd line.
ReportLine(kind) ==
  /\ UNCHANGED <<states, online, counter>>
  /\ HandleNotification(Note(kind, <<>>)) /\ Tell(Note(kind, <<>>), Note(kind, <<>>), <<>>)

\* The key id of an announcement; the other events have none.
KeyId(event) == IF event \in {<<"CONNECT">>, <<"REAUTH">>} THEN <<Numeral(7)>> ELSE <<>>

\* An ENV filter may leave out the name.
Env(event, p) ==
  IF event = <<"ESTABLISHED">> THEN [IV_IP |-> p.ip] ELSE [common_name |-> p.name, untrusted_ip |-> p.ip]

ReportClient(event, p) ==
  LET env == Env(event, p)
      ids == p.cid \o IF KeyId(event) = <<>> THEN <<>> ELSE <<",">> \o KeyId(event)[1]
      note == ParseClientEnv(event, ids, env)
  IN /\ (event = <<"CONNECT">>) = (p \notin online)
     /\ online' = IF event = <<"DISCONNECT">> THEN online \ {p} ELSE online \cup {p}
     /\ UNCHANGED <<states, counter>>
     /\ HandleNotification(note) /\ Tell(Note("Client", <<event, p.cid, KeyId(event), <<>>, env>>), note, <<>>)

UnchangedByAnswer == UNCHANGED <<states, online, counter, totals, chart, log, clients>>

\* An answer of one line, with its value and what the typed parser reads.
AnswerSuccess(kind, payload, value, parsed) ==
  UnchangedByAnswer /\ UNCHANGED vpn /\ IngestSuccess(payload) /\ Tell(Note(kind, value), Note(kind, parsed), payload)

AnswerLines(kind, lines, value, parsed) ==
  UnchangedByAnswer /\ IngestMultiline(lines) /\ Tell(Note(kind, value), Note(kind, parsed), lines)

AnswerLoadStats == AnswerSuccess("LoadStats", LoadStatsText, <<LoadStats>>, ParseLoadStats(LoadStatsText))
AnswerPid       == AnswerSuccess("Pid", <<"pid", "=", "7">>, <<<<"7">>>>, ParsePid(<<"pid", "=", "7">>))
AnswerHold      == AnswerSuccess("HoldAnswer", <<"hold", "=", "0">>, <<FALSE>>, ParseHold(<<"hold", "=", "0">>))
AnswerVerb      == AnswerSuccess("Verb", <<"verb", "=", "4">>, <<>>, <<>>)
AnswerMute      == AnswerSuccess("Mute", <<"mute", "=", "5">>, <<>>, <<>>)
AnswerHelp      == AnswerLines("Help", HelpLines, <<>>, <<>>)
AnswerStatus    == \E f \in 1..2 : AnswerLines("Status", StatusLines[f], <<>>, <<>>)
AnswerVersion   == AnswerLines("Version", VersionLines,
                     [found |-> TRUE, management |-> <<"5">>, line |-> <<VersionLines[1]>>], ParseVersion(VersionLines))

\* Each subset that lacks one counter, and those that must be and may be there.
StatisticsKeys ==
  {RequiredKeys, RequiredKeys \cup OptionalKeys} \cup {(RequiredKeys \ {k}) \cup OptionalKeys : k \in RequiredKeys}

\* status on a client, in any order.
AnswerStatistics(keys) ==
  LET order == FoldSet(LAMBDA k, ks : Append(ks, k), <<>>, keys)
      values == [k \in RequiredKeys \cup OptionalKeys |-> IF k \in keys THEN <<<<"7">>>> ELSE <<>>]
  IN \E ks \in {order, Reverse(order)} :
       LET lines == <<<<"Updated", ",", "now">>>> \o [i \in DOMAIN ks |-> <<ks[i], ",", "7">>] IN
       AnswerLines("Statistics", lines, IF RequiredKeys \subseteq keys THEN <<values>> ELSE <<>>, ParseClientStatistics(lines))

\* state and state all: the last state, or all of them.
AnswerState ==
  /\ states # <<>>
  /\ \E n \in {1, Len(states)} : AnswerLines("StateAnswer", LastOf(HistoryLines, n), <<>>, <<>>)
-----------------------------------------------------------------------------
(***************************************************************************)
(* The user.                                                               *)
(***************************************************************************)
UserStep == user < MaxUser /\ user' = user + 1 /\ UNCHANGED <<daemonVars, shownVars, reports, sessions>>

EnterInterval(n) == UserStep /\ interval' = n /\ UNCHANGED selected

\* An index, and what was there when the user chose it.
Select(i) == selected' = <<[index |-> i, entry |-> log[i]]>>

SelectLogEntry(i) == UserStep /\ Select(i) /\ UNCHANGED interval

\* Up is the next index, or the newest; down the one before.
SelectionUp ==
  /\ UserStep /\ log # <<>> /\ UNCHANGED interval
  /\ Select(IF selected = <<>> \/ selected[1].index >= Len(log) THEN Len(log) ELSE selected[1].index + 1)

SelectionDown ==
  /\ UserStep /\ log # <<>> /\ UNCHANGED interval
  /\ Select(IF selected = <<>> THEN Len(log)
            ELSE IF selected[1].index > 1 THEN selected[1].index - 1 ELSE 1)

\* Mutant of NewSession: the choice outlives the log.
NewSessionKeepsChoice ==
  /\ sessions < MaxSessions /\ sessions' = sessions + 1
  /\ told' = <<>> /\ vpn' = NoState /\ totals' = NoBytes /\ chart' = NoChart
  /\ log' = <<>> /\ clients' = <<>> /\ facts' = NoFacts
  /\ UNCHANGED <<states, online, counter, interval, reports, user, selected>>

\* reset_session_data, when the App connects.
NewSession ==
  /\ sessions < MaxSessions /\ sessions' = sessions + 1
  /\ told' = <<>> /\ vpn' = NoState /\ totals' = NoBytes /\ chart' = NoChart
  /\ log' = <<>> /\ clients' = <<>> /\ facts' = NoFacts /\ selected' = <<>>
  /\ UNCHANGED <<states, online, counter, interval, reports, user>>

Init ==
  /\ states = <<>> /\ online = {} /\ counter = NoBytes /\ told = <<>>
  /\ vpn = NoState /\ totals = NoBytes /\ chart = NoChart /\ log = <<>> /\ clients = <<>> /\ facts = NoFacts
  /\ interval = 2 /\ selected = <<>> /\ reports = 0 /\ user = 0 /\ sessions = 1

Events == {<<"CONNECT">>, <<"REAUTH">>, <<"ESTABLISHED">>, <<"DISCONNECT">>}

\* These come last, and of a daemon that is idle (a bound).
LastReports ==
  /\ reports = MaxReports - 1 /\ states = <<>> /\ online = {} /\ counter = NoBytes /\ sessions = 1 /\ user = 0
  /\ \/ \E n \in Noticed : ReportNotice(n)
     \/ \E day \in Days : ReportLog(day)
     \/ \E keys \in StatisticsKeys : AnswerStatistics(keys)
     \/ \E kind \in {"Info", "PasswordPrompt", "Unrecognized"} : ReportLine(kind)
     \/ AnswerPid \/ AnswerHold \/ AnswerVerb \/ AnswerMute

Next ==
  \/ \E l \in StateLines : ReportState(l)
  \/ \E n \in Growth : ReportBytes(counter.in + n, counter.out + 2 * n) \/ ReportBytes(n, 0)
  \/ LastReports
  \/ ReportLog(0)
  \/ \E event \in Events, p \in People : ReportClient(event, p)
  \/ AnswerLoadStats \/ AnswerHelp \/ AnswerStatus \/ AnswerVersion \/ AnswerState
  \/ \E n \in Intervals : EnterInterval(n)
  \/ \E i \in DOMAIN log : SelectLogEntry(i)
  \/ SelectionUp \/ SelectionDown
  \/ NewSession

Spec == Init /\ [][Next]_vars

TypeOK ==
  /\ states \in Seq(StateLines) /\ Len(states) <= MaxStates /\ online \subseteq People
  /\ reports \in 0..MaxReports /\ Len(told) <= reports /\ user \in 0..MaxUser /\ sessions \in 1..MaxSessions
  /\ Len(log) <= MaxLogEntries /\ Len(chart.samples) <= MaxSamples
  /\ selected # <<>> => selected[1].index \in DOMAIN log
-----------------------------------------------------------------------------
NoticesUnderstood == \A n \in Notices : ParseNotification(n.kind, n.payload) = n.meant

(***************************************************************************)
(* A report means to the codec what the daemon meant by it: commas,        *)
(* colons and quotes in the last field are part of it, and what is         *)
(* malformed is kept whole as Simple.  (codec.rs, parsed_response.rs,      *)
(* version_info.rs)                                                        *)
(***************************************************************************)
Understood == NoticesUnderstood /\ \A i \in DOMAIN told : told[i].heard = told[i].meant

Kinds(kinds) == {i \in DOMAIN told : told[i].meant.kind \in kinds}

\* The state that a report or an answer was about.
StateOf(i) == states[told[i].states]
OfState == Kinds({"State", "StateAnswer"})
Address(i) == IF StateOf(i)[5] = <<>> THEN <<>>
              ELSE <<StateOf(i)[5] \o IF Len(StateOf(i)) > 5 /\ StateOf(i)[6] # <<>> THEN <<":">> \o StateOf(i)[6] ELSE <<>>>>

(***************************************************************************)
(* The state that is shown is the last the daemon has reported or answered *)
(* with in this session, whether it came as an event, as the current state *)
(* or at the end of a history, and no other answer changes it.  An address *)
(* goes only when an event says so: an answer without one keeps the old.   *)
(* (handle_notification, ingest_multiline; unless the daemon is in a state *)
(* the codec does not know when it is asked.)                              *)
(***************************************************************************)
StateShown ==
  LET latest == Max(OfState)
      local  == {i \in OfState : told[i].meant.kind = "State" \/ StateOf(i)[4] # <<>>}
      remote == {i \in OfState : told[i].meant.kind = "State" \/ StateOf(i)[5] # <<>>}
  IN (\A i \in Kinds({"StateAnswer"}) : StateOf(i)[2] \in KnownStates) =>
       /\ vpn.name = IF OfState = {} THEN <<>> ELSE <<StateOf(latest)[2]>>
       /\ vpn.description = IF OfState = {} THEN <<>> ELSE <<StateOf(latest)[3]>>
       /\ vpn.localIp = IF local = {} THEN <<>> ELSE IfGiven(StateOf(Max(local))[4])
       /\ vpn.remote = IF remote = {} THEN <<>> ELSE Address(Max(remote))

\* What was answered last to commands of a kind.
LatestAnswer(kind) == IF Kinds({kind}) = {} THEN <<>> ELSE <<told[Max(Kinds({kind}))].text>>

(***************************************************************************)
(* The version, the help and the load that are shown are the last answers  *)
(* to version, help and load-stats: no other answer is taken for one.      *)
(* (ingest_success and ingest_multiline, which tell an answer by its       *)
(* contents; unless a client's name begins with help, which makes a status *)
(* pass for help.)                                                         *)
(***************************************************************************)
AnswersShown ==
  /\ facts.version = LatestAnswer("Version")
  /\ (\A i \in Kinds({"Status"}) : \A n \in DOMAIN told[i].text : ~StartsWith(told[i].text[n], <<"help">>)) =>
       facts.help = LatestAnswer("Help")
  /\ facts.load = IF LatestAnswer("LoadStats") = <<>> THEN <<>> ELSE ParseLoadStats(LatestAnswer("LoadStats")[1])

\* The reports as they were meant or heard; of r, the announcements of a client and its ends.
Meant == [i \in DOMAIN told |-> told[i].meant]
Heard == [i \in DOMAIN told |-> told[i].heard]

IsOf(r, i, cid, events) == r[i].kind = "Client" /\ r[i].fields[2] = cid /\ r[i].fields[1] \in events
EndsBetween(r, i, j, cid) == \E k \in i..j : IsOf(r, k, cid, {<<"DISCONNECT">>})

\* An announcement that still counts, and the first since a client's last end.
Lasting(r, i, cid) == i \in DOMAIN r /\ IsOf(r, i, cid, Joining) /\ ~EndsBetween(r, i, Len(r), cid)
Standing(r, i) ==
  LET cid == r[i].fields[2] IN
  Lasting(r, i, cid) /\ \A j \in 1..i - 1 : IsOf(r, j, cid, Joining) => EndsBetween(r, j, i, cid)

\* at says which announcement each entry of the list is of.
Listed(r, list, at) ==
  /\ \A k \in DOMAIN list : Standing(r, at[k])
  /\ \A k, l \in DOMAIN list : k < l => at[k] < at[l]
  /\ \A i \in DOMAIN r : Standing(r, i) => \E k \in DOMAIN list : at[k] = i

\* The entry of a client; one that is established tells no name.
EntryOf(p, event) == [cid |-> p.cid, name |-> IF event = <<"ESTABLISHED">> THEN event ELSE p.name, ip |-> p.ip]

(***************************************************************************)
(* The list has each client that has announced itself in this session and  *)
(* has not left since, once, in the order of first announcements.          *)
(***************************************************************************)
ClientsShown ==
  LET r == Meant IN
  \E at \in [DOMAIN clients -> DOMAIN told] :
    /\ Listed(r, clients, at)
    /\ \A k \in DOMAIN clients : \E p \in People :
         r[at[k]].fields[2] = p.cid /\ clients[k] = EntryOf(p, r[at[k]].fields[1])

\* The byte counts, and two of them with none between.
CountPlaces == {i \in DOMAIN told : told[i].meant.kind \notin Answers /\ told[i].heard.kind = "ByteCount"}
Adjacent(i, j) == i \in CountPlaces /\ j \in CountPlaces /\ i < j /\ \A k \in CountPlaces : k <= i \/ j <= k

LastCount(i)   == i \in CountPlaces /\ \A k \in CountPlaces : k <= i

Counted(i, f) == Number(told[i].heard.fields[f])
Grown(i, j, f) == IF Counted(j, f) >= Counted(i, f) THEN Counted(j, f) - Counted(i, f) ELSE 0
SampleOf(i, j) ==
  [in |-> Grown(i, j, 1), out |-> Grown(i, j, 2), seconds |-> IF told[j].interval = 0 THEN 1 ELSE told[j].interval]

\* at says which count each sample ends with: the last ones, all if there is room.
SamplesAt(at) ==
  /\ \A k \in DOMAIN chart.samples : \E i \in CountPlaces : Adjacent(i, at[k]) /\ chart.samples[k] = SampleOf(i, at[k])
  /\ \A k, l \in DOMAIN chart.samples : k < l => at[k] < at[l]
  /\ \A i, j \in CountPlaces : Adjacent(i, j) =>
       \/ \E k \in DOMAIN chart.samples : at[k] = j
       \/ Len(chart.samples) = MaxSamples /\ \A k \in DOMAIN chart.samples : j < at[k]

(***************************************************************************)
(* The chart is the window of the last differences of consecutive reports  *)
(* of this session, no less than zero where a counter has started again,   *)
(* each over the interval that was entered when it came.  (chart.rs)       *)
(***************************************************************************)
WindowIsTail ==
  /\ Len(chart.samples) <= MaxSamples
  /\ \E at \in [DOMAIN chart.samples -> CountPlaces] : SamplesAt(at)
  /\ \A i \in CountPlaces : LastCount(i) => totals = [in |-> Counted(i, 1), out |-> Counted(i, 2)]

\* What is logged: not byte counts, not answers.
LoggedPlaces == {i \in DOMAIN told : told[i].meant.kind \notin Answers /\ Logged(told[i].heard)}
InLog(i) == \E k \in DOMAIN log : log[k].report = i

(***************************************************************************)
(* The log is the window of the last reports of this session, oldest       *)
(* first, without byte counts and answers; and until the window moves, the *)
(* entry that is copied is the one that was chosen.  (add_log,             *)
(* SelectLogEntry, SelectionUp and SelectionDown, CopyLogEntry)            *)
(***************************************************************************)
LogIsTail ==
  /\ \A k \in DOMAIN log : log[k].report \in LoggedPlaces
  /\ \A k, l \in DOMAIN log : k < l => log[k].report < log[l].report
  /\ \A i \in LoggedPlaces : InLog(i) \/ (Len(log) = MaxLogEntries /\ i < log[1].report)
  /\ selected # <<>> /\ (\A i \in LoggedPlaces : InLog(i)) => log[selected[1].index] = selected[1].entry

\* Log, chart and list as the proofs need them.
IsSequence(s) == s \in Seq(Range(s))

LogInv ==
  /\ IsSequence(told) /\ IsSequence(log) /\ Len(log) <= MaxLogEntries /\ LogIsTail
  /\ selected # <<>> => selected[1].index \in DOMAIN log

ChartInv ==
  /\ IsSequence(chart.samples) /\ DOMAIN chart = {"samples", "in", "out", "seeded"} /\ WindowIsTail
  /\ ~chart.seeded => chart.samples = <<>> /\ CountPlaces = {}
  /\ chart.seeded => \E i \in CountPlaces : LastCount(i) /\ chart.in = Counted(i, 1) /\ chart.out = Counted(i, 2)

\* What the daemon says of its clients, and the list as it follows from what was heard.
ClientMeant(meant) ==
  meant.kind = "Client" =>
    \E event \in Events, p \in People : meant.fields = <<event, p.cid, KeyId(event), <<>>, Env(event, p)>>

ListFollows(r, list) ==
  /\ IsSequence(list)
  /\ \E at \in [DOMAIN list -> DOMAIN r] :
       /\ Listed(r, list, at)
       /\ \A k \in DOMAIN list :
            LET f == r[at[k]].fields IN list[k] = ClientInfo(f[1], f[2], f[5])
  /\ \A i \in DOMAIN r : Lasting(r, i, r[i].fields[2]) => \E k \in DOMAIN list : list[k].cid = r[i].fields[2]

ListInv == ListFollows(Heard, clients) /\ \A i \in DOMAIN told : ClientMeant(told[i].meant)

\* The date of an entry is made of what was heard.
DateInv ==
  \A k \in DOMAIN log :
    LET r == told[log[k].report] IN TimeMeant(r.meant) /\ log[k].date = Dated(r.heard)

DashboardInv == TypeOK /\ LogInv /\ ChartInv /\ ListInv /\ DateInv

\* What a status has of a client, in full.
Full(p) ==
  Client(<<p.name, RealAddress(p)>>, Virtual(p), Virtual6(p), In, Out, Since,
         <<<<Numeral(8)>>, <<>>, <<p.cid>>, <<Numeral(0)>>, <<<<"AES">>>>>>)
FullRoute(p) == <<Virtual(p), p.name, RealAddress(p), Since, <<Numeral(7)>>>>

\* What formats 1 and 2.3 leave out.
InV1(c) == [c EXCEPT !.texts = [@ EXCEPT ![3] = <<>>, ![4] = <<>>], !.rest = [i \in 1..5 |-> <<>>]]
In23(c) == [c EXCEPT !.texts = [@ EXCEPT ![4] = <<>>], !.rest = [@ EXCEPT ![3] = <<>>, ![4] = <<>>, ![5] = <<>>]]

(***************************************************************************)
(* The formats tell the same: a status reads the same in format 2 and 3,   *)
(* and the same but for the columns that are not there in format 1 and in  *)
(* that of OpenVPN 2.3; and a history of states reads as its events did,   *)
(* the current state being the last.  (status.rs, parsed_response.rs)      *)
(***************************************************************************)
FormatsAgree ==
  LET lines == StatusLines
      parsed == <<ParseStatus(lines[1]), ParseStatus(lines[2]), ParseStatus(lines[3]), ParseStatus(lines[4])>>
      known == \A i \in DOMAIN states : states[i][2] \in KnownStates
      events == [i \in DOMAIN states |-> ParseState(HistoryLines[i])[1]]
  IN /\ parsed[2] = parsed[3]
     /\ \A f \in 1..4 : parsed[f].ok /\ parsed[f].queue = <<Numeral(1)>> /\ parsed[f].updated = <<Updated>>
     /\ parsed[1].clients = ForAll(LAMBDA p : InV1(Full(p)))
     /\ parsed[2].clients = ForAll(Full)
     /\ parsed[4].clients = ForAll(LAMBDA p : In23(Full(p)))
     /\ parsed[1].routes = ForAll(LAMBDA p : [FullRoute(p) EXCEPT ![5] = <<>>])
     /\ \A f \in {2, 4} : parsed[f].routes = ForAll(FullRoute)
     /\ ParseStateHistory(HistoryLines) = IF known THEN <<events>> ELSE <<>>
     /\ known => ParseCurrentState(HistoryLines) = LastOf(events, 1)

\* What answers a challenge: ChallengeResponse.
WriteAnswer(state, reply) == <<"CRV1", ":", ":">> \o state \o <<":", ":">> \o reply

(***************************************************************************)
(* A dynamic challenge can be answered: the state of the challenge, put    *)
(* into an answer as the notification had it, comes back to the server as  *)
(* the state it had issued, with the reply as the user gave it, colons and *)
(* quotes in all of them.  (Crv1Challenge, parse_password, encode of       *)
(* ChallengeResponse, Crv1Response)                                        *)
(***************************************************************************)
ChallengeAnswered ==
  \A i \in Kinds({"DynamicChallenge"}), reply \in Replies :
    ParseCrv1Response(WriteAnswer(told[i].heard.fields[2], reply))
      = <<<<<<>>, FromBase64(told[i].meant.fields[2]), <<>>, reply>>>>

Leap(y) == y % 4 = 0 /\ (y % 100 # 0 \/ y % 400 = 0)
LengthOf(y, m) == IF m = 2 THEN IF Leap(y) THEN 29 ELSE 28 ELSE IF m \in {4, 6, 9, 11} THEN 30 ELSE 31
\* The days of a year before a month, and the days since 1970.
DaysBefore(y, m) ==
  LET upTo[n \in 1..12] == IF n = 1 THEN 0 ELSE upTo[n - 1] + LengthOf(y, n - 1) IN upTo[m]
DayNumber(y, m, d) ==
  365 * (y - 1970) + Cardinality({x \in 1970..y - 1 : Leap(x)}) + DaysBefore(y, m) + d - 1
IsDay(date, n) ==
  date[2] \in 1..12 /\ date[3] \in 1..LengthOf(date[1], date[2]) /\ DayNumber(date[1], date[2], date[3]) = n

(***************************************************************************)
(* What has a timestamp is logged with the date of its day in the calendar,*)
(* leap years and centuries counted, and the hour, minute and second in    *)
(* it; without a date if the timestamp is zero.  (timestamp.rs)            *)
(***************************************************************************)
DatesRight ==
  \A k \in DOMAIN log :
    LET note == told[log[k].report].meant
        d == log[k].date
    IN IF note.kind \notin Timed \/ Number(note.fields[1]) = 0 THEN d = <<>>
       ELSE IsDay(d, Number(note.fields[1])) /\ <<d[4], d[5], d[6]>> = <<23, 59, 59>>
=============================================================================
