----------------------------- MODULE Responses -----------------------------
(***************************************************************************)
(* The typed parsers of answers: parsed_response.rs, version_info.rs,      *)
(* status.rs, crv1_challenge.rs, crv1_response.rs and timestamp.rs.        *)
(*                                                                         *)
(* An optional field, and a result that may be an error, is a sequence of  *)
(* at most one element; which error it is is left out.                     *)
(***************************************************************************)
EXTENDS Notifications, Integers

ParseU64(t) == IF IsNumber(t) THEN <<t>> ELSE <<>>

\* key=value of a SUCCESS: line.
ParseAssigned(payload, key) ==
  IF StartsWith(payload, <<key, "=">>) THEN ParseU64(Rest(payload, <<key, "=">>)) ELSE <<>>

ParsePid(payload) == ParseAssigned(payload, "pid")

ParseHold(payload) ==
  LET value == ParseAssigned(payload, "hold") IN
  IF value \in {<<Numeral(0)>>, <<Numeral(1)>>} THEN <<value = <<Numeral(1)>>>> ELSE <<>>

LoadStatsKeys == {"nclients", "bytesin", "bytesout"}

\* One part of load-stats.  A field that is no number makes the whole an error.
LoadStatsPart(s, part) ==
  LET kv == SplitN(part, "=", 2) IN
  IF Len(kv) < 2 \/ kv[1] \notin {<<k>> : k \in LoadStatsKeys} THEN s
  ELSE [s EXCEPT !.fields[kv[1][1]] = ParseU64(kv[2]), !.ok = @ /\ IsNumber(kv[2])]

ParseLoadStats(payload) ==
  LET end == Fold(LoadStatsPart, [ok |-> TRUE, fields |-> [k \in LoadStatsKeys |-> <<>>]],
                      Split(payload, ",")) IN
  IF end.ok /\ \A k \in LoadStatsKeys : end.fields[k] # <<>>
  THEN <<[k \in LoadStatsKeys |-> end.fields[k][1]]>> ELSE <<>>
-----------------------------------------------------------------------------
(***************************************************************************)
(* state and version.                                                      *)
(***************************************************************************)
EntryPort(t) == IF IsU16(t) THEN <<t>> ELSE <<>>

\* Two to nine fields, and the name one of the known states.
ParseStateEntry(line) ==
  LET ps == SplitN(line, ",", 9) IN
  AtLeast(ps, 2, IF IsNumber(ps[1]) /\ ps[2] \in KnownStates
                 THEN <<Note("State", StateFields(ps, EntryPort))>> ELSE <<>>)

ParseStateHistory(lines) ==
  LET entries == [i \in DOMAIN lines |-> ParseStateEntry(lines[i])] IN
  IF \E i \in DOMAIN lines : entries[i] = <<>> THEN <<>> ELSE <<FlattenSeq(entries)>>

\* Mutant of ParseCurrentState: the history is newest first.
ParseCurrentStateFirst(lines) ==
  LET history == ParseStateHistory(lines) IN
  IF history = <<>> \/ lines = <<>> THEN <<>> ELSE <<history[1][1]>>

ParseCurrentState(lines) ==
  LET history == ParseStateHistory(lines) IN
  IF history = <<>> \/ lines = <<>> THEN <<>> ELSE <<Last(history[1])>>

\* Heads of lines, after to_ascii_lowercase and by what they contain.
ManagementHeads == {"Management Version", "Management Interface Version"}
OpenVpnHead == "OpenVPN Version"

\* The last number of a line.
TrailingDigits(line) ==
  LET numbers == SelectSeq(line, LAMBDA a : a \in DOMAIN NumberOf) IN
  IF numbers = <<>> THEN <<>> ELSE <<Last(numbers)>>

\* The first management line counts, the last OpenVPN line.
VersionLine(v, line) ==
  LET head == IF line = <<>> THEN "" ELSE line[1] IN
  CASE ~v.found /\ head \in ManagementHeads -> [v EXCEPT !.found = TRUE, !.management = TrailingDigits(line)]
    [] head = OpenVpnHead                   -> [v EXCEPT !.line = <<line>>]
    [] OTHER                                -> v

ParseVersion(lines) == Fold(VersionLine, [found |-> FALSE, management |-> <<>>, line |-> <<>>], lines)
-----------------------------------------------------------------------------
(***************************************************************************)
(* status.  A client has its fields in the order of ConnectedClient, a     *)
(* route in that of RoutingEntry.                                          *)
(***************************************************************************)
TabHeads == {"TITLE", "TIME", "HEADER", "CLIENT_LIST", "ROUTING_TABLE", "GLOBAL_STATS"}

DetectSeparator(lines) ==
  IF \E i \in DOMAIN lines, h \in TabHeads : StartsWith(lines[i], <<h, "\t">>) THEN "\t" ELSE ","

OptionalText(t) == IF t \in {<<>>, <<"UNDEF">>} THEN <<>> ELSE <<t>>
OptionalU64(t)  == IF IsNumber(t) THEN <<t>> ELSE <<>>

EmptyStatus ==
  [ok |-> TRUE, section |-> "Header", title |-> <<>>, updated |-> <<>>, timestamp |-> <<>>,
   clients |-> <<>>, routes |-> <<>>, queue |-> <<>>, dco |-> <<>>]

\* An error ends the parse; nothing after it counts.
Failed(s) == [s EXCEPT !.ok = FALSE]

ApplyGlobalStat(s, key, value) ==
  CASE key = <<"Max bcast/mcast queue length">> -> [s EXCEPT !.queue = OptionalU64(value)]
    [] key = <<"dco_enabled">> /\ value \in {Numeral(0), Numeral(1)} -> [s EXCEPT !.dco = <<value = Numeral(1)>>]
    [] key = <<"dco_enabled">>                                      -> [s EXCEPT !.dco = <<>>]
    [] OTHER -> s

\* CN, real, virtual and IPv6 address, in, out, since, since_t, user, cid, peer, cipher.
Client(ps, virtual, ipv6, in, out, since, rest) ==
  [texts |-> <<ps[1], ps[2], virtual, ipv6, since>>, in |-> in, out |-> out, rest |-> rest]

AddClient(s, client) ==
  IF IsNumber(client.in) /\ IsNumber(client.out) THEN [s EXCEPT !.clients = Append(@, client)] ELSE Failed(s)

Columns(ps, n) == Join(SubSeq(ps, n, Len(ps)), <<",">>)

V1Client(s, ps) ==
  IF Len(ps) < 5 THEN Failed(s)
  ELSE AddClient(s, Client(ps, <<>>, <<>>, ps[3], ps[4], Columns(ps, 5), [i \in 1..5 |-> <<>>]))

V1Route(s, ps) ==
  IF Len(ps) < 4 THEN Failed(s)
  ELSE [s EXCEPT !.routes = Append(@, <<ps[1], ps[2], ps[3], Columns(ps, 4), <<>>>>)]

\* Mutant of V1Line: GLOBAL STATS does not end the routing table.
V1LineOneTable(s, line) ==
  LET ps == Split(line, ",") IN
  CASE ~s.ok -> s
    [] line = <<"OpenVPN CLIENT LIST">>   -> [s EXCEPT !.section = "Header"]
    [] StartsWith(line, <<"Updated", ",">>) -> [s EXCEPT !.updated = <<Columns(ps, 2)>>]
    [] line = <<"ROUTING TABLE">>         -> [s EXCEPT !.section = "RoutingTable"]
    [] s.section = "Header" /\ ps[1] = <<"Common Name">> -> [s EXCEPT !.section = "ClientList"]
    [] s.section = "ClientList" -> V1Client(s, ps)
    [] s.section = "RoutingTable" /\ ps[1] # <<"Virtual Address">> -> V1Route(s, ps)
    [] OTHER -> s

\* One line of the V1 format, by the section it is in.
V1Line(s, line) ==
  LET ps == Split(line, ",") IN
  CASE ~s.ok -> s
    [] line = <<"OpenVPN CLIENT LIST">>   -> [s EXCEPT !.section = "Header"]
    [] StartsWith(line, <<"Updated", ",">>) -> [s EXCEPT !.updated = <<Columns(ps, 2)>>]
    [] line = <<"ROUTING TABLE">>         -> [s EXCEPT !.section = "RoutingTable"]
    [] line = <<"GLOBAL STATS">>          -> [s EXCEPT !.section = "GlobalStats"]
    [] s.section = "Header" /\ ps[1] = <<"Common Name">> -> [s EXCEPT !.section = "ClientList"]
    [] s.section = "ClientList" -> V1Client(s, ps)
    [] s.section = "RoutingTable" /\ ps[1] # <<"Virtual Address">> -> V1Route(s, ps)
    [] s.section = "GlobalStats" /\ Len(ps) >= 2 -> ApplyGlobalStat(s, ps[1], Columns(ps, 2))
    [] OTHER -> s

\* Mutant of TaggedClient: the IPv6 column is taken to be there.
TaggedClientWide(s, cols) ==
  IF Len(cols) < 5 THEN Failed(s)
  ELSE AddClient(s, Client(cols, cols[3], cols[4], Get(cols, 5), Get(cols, 6), Get(cols, 7),
         <<OptionalU64(Get(cols, 8)), OptionalText(Get(cols, 9)), OptionalU64(Get(cols, 10)),
           OptionalU64(Get(cols, 11)), OptionalText(Get(cols, 12))>>))

\* Twelve columns, or the layout of 2.3 without IPv6 address, cid, peer and cipher.
TaggedClient(s, cols) ==
  CASE Len(cols) >= 12 ->
         AddClient(s, Client(cols, cols[3], cols[4], cols[5], cols[6], cols[7],
           <<OptionalU64(cols[8]), OptionalText(cols[9]), OptionalU64(cols[10]), OptionalU64(cols[11]), OptionalText(cols[12])>>))
    [] Len(cols) < 5 -> Failed(s)
    [] OTHER ->
         AddClient(s, Client(cols, cols[3], <<>>, cols[4], cols[5], Get(cols, 6),
           <<OptionalU64(Get(cols, 7)), OptionalText(Get(cols, 8)), <<>>, <<>>, <<>>>>))

TaggedRoute(s, cols) ==
  IF Len(cols) < 4 THEN Failed(s)
  ELSE [s EXCEPT !.routes = Append(@, <<cols[1], cols[2], cols[3], cols[4], OptionalU64(Get(cols, 5))>>)]

\* One line of V2 or V3, by its first field.
TaggedLine(s, line, sep) ==
  LET ps == Split(line, sep) IN
  CASE ~s.ok -> s
    [] ps[1] = <<"TITLE">>         -> [s EXCEPT !.title = SubSeq(ps, 2, 2)]
    [] ps[1] = <<"TIME">>          -> [s EXCEPT !.updated = SubSeq(ps, 2, 2), !.timestamp = OptionalU64(Get(ps, 3))]
    [] ps[1] = <<"CLIENT_LIST">>   -> TaggedClient(s, Tail(ps))
    [] ps[1] = <<"ROUTING_TABLE">> -> TaggedRoute(s, Tail(ps))
    [] ps[1] = <<"GLOBAL_STATS">> /\ Len(ps) >= 3 -> ApplyGlobalStat(s, ps[2], Join(SubSeq(ps, 3, Len(ps)), <<sep>>))
    [] OTHER -> s

ParseStatus(lines) ==
  IF lines # <<>> /\ lines[1] = <<"OpenVPN CLIENT LIST">>
  THEN Fold(V1Line, EmptyStatus, lines)
  ELSE Fold(LAMBDA s, line : TaggedLine(s, line, DetectSeparator(lines)), EmptyStatus, lines)

RequiredKeys == {"TUN/TAP read bytes", "TUN/TAP write bytes", "TCP/UDP read bytes", "TCP/UDP write bytes", "Auth read bytes"}
OptionalKeys == {"pre-compress bytes", "post-compress bytes", "pre-decompress bytes", "post-decompress bytes"}

StatisticsLine(s, line) ==
  LET kv == SplitN(line, ",", 2) IN
  IF StartsWith(line, <<"Updated", ",">>) \/ Len(kv) < 2
     \/ kv[1] \notin {<<k>> : k \in RequiredKeys \cup OptionalKeys} THEN s
  ELSE [s EXCEPT !.values[kv[1][1]] = ParseU64(kv[2]), !.ok = @ /\ IsNumber(kv[2])]

\* Mutant of ParseClientStatistics: a key that is missing counts as nothing.
ParseClientStatisticsAny(lines) ==
  LET end == Fold(StatisticsLine, [ok |-> TRUE, values |-> [k \in RequiredKeys \cup OptionalKeys |-> <<>>]], lines)
  IN IF end.ok THEN <<end.values>> ELSE <<>>

ParseClientStatistics(lines) ==
  LET end == Fold(StatisticsLine, [ok |-> TRUE, values |-> [k \in RequiredKeys \cup OptionalKeys |-> <<>>]], lines)
  IN IF end.ok /\ \A k \in RequiredKeys : end.values[k] # <<>> THEN <<end.values>> ELSE <<>>
-----------------------------------------------------------------------------
(***************************************************************************)
(* CRV1 texts: flags, state, user and text.  The challenge a server issues *)
(* and the response a client gives are written alike.                      *)
(***************************************************************************)
WriteCrv1(c) == Join(<<<<"CRV1">>, c[1], Base64(c[2]), Base64(c[3]), c[4]>>, <<":">>)

\* Mutant of ParseCrv1Response: the response ends at a colon.
ParseCrv1ResponseSplit(t) ==
  LET ps == Split(Rest(t, <<"CRV1", ":">>), ":") IN
  IF StartsWith(t, <<"CRV1", ":">>) /\ Len(ps) >= 4 /\ IsBase64(ps[2]) /\ IsBase64(ps[3])
  THEN <<<<ps[1], FromBase64(ps[2]), FromBase64(ps[3]), ps[4]>>>> ELSE <<>>

ParseCrv1Response(t) ==
  LET ps == SplitN(Rest(t, <<"CRV1", ":">>), ":", 4) IN
  IF StartsWith(t, <<"CRV1", ":">>) /\ Len(ps) = 4 /\ IsBase64(ps[2]) /\ IsBase64(ps[3])
  THEN <<<<ps[1], FromBase64(ps[2]), FromBase64(ps[3]), ps[4]>>>> ELSE <<>>
-----------------------------------------------------------------------------
(***************************************************************************)
(* Dates.  A timestamp is the day since 1970 and the second of that day.   *)
(***************************************************************************)
\* Mutant of DaysToYmd: every hundredth year is a leap year.
DaysToYmdJulian(day) ==
  LET days == day + 719468
      doe == days % 146097
      yoe == doe \div 365
      doy == doe - (365 * yoe + yoe \div 4)
      mp == (5 * doy + 2) \div 153
      month == IF mp < 10 THEN mp + 3 ELSE mp - 9
      year == yoe + (days \div 146097) * 400 + IF month <= 2 THEN 1 ELSE 0
  IN <<year, month, doy - (153 * mp + 2) \div 5 + 1>>

DaysToYmd(day) ==
  LET days == day + 719468
      era == days \div 146097
      doe == days - era * 146097
      yoe == (doe - doe \div 1460 + doe \div 36524 - doe \div 146096) \div 365
      doy == doe - (365 * yoe + yoe \div 4 - yoe \div 100)
      mp == (5 * doy + 2) \div 153
      month == IF mp < 10 THEN mp + 3 ELSE mp - 9
  IN <<IF month <= 2 THEN yoe + era * 400 + 1 ELSE yoe + era * 400, month, doy - (153 * mp + 2) \div 5 + 1>>

\* Year, month, day, hour, minute and second.
Decompose(day, second) == DaysToYmd(day) \o <<second \div 3600, (second \div 60) % 60, second % 60>>

\* Nothing for a timestamp of zero.
FormatTimestamp(day, second) == IF day = 0 /\ second = 0 THEN <<>> ELSE Decompose(day, second)
=============================================================================
