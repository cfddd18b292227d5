--------------------------- MODULE Notifications ---------------------------
(***************************************************************************)
(* The codec's parsers of one notification (codec.rs, from                 *)
(* parse_notification_from_frame on): a payload becomes a typed value, or  *)
(* Simple with the kind and the payload as they were.                      *)
(*                                                                         *)
(* A notification is its variant and its fields in the order of message.rs.*)
(* An optional field, and a result that may fail, is a sequence of at most *)
(* one element; numbers stay texts; the words for states, levels,          *)
(* protocols and credentials are atoms, known or Unknown.                  *)
(***************************************************************************)
EXTENDS Texts

Note(kind, fields) == [kind |-> kind, fields |-> fields]

Simple(kind, payload) == Note("Simple", <<<<kind>>, payload>>)

KnownStates == {<<s>> : s \in {"CONNECTING", "WAIT", "AUTH", "GET_CONFIG", "ASSIGN_IP", "ADD_ROUTES",
                               "CONNECTED", "RECONNECTING", "EXITING", "TCP_CONNECT", "RESOLVE", "AUTH_PENDING"}}

\* parse_field(...)? for several fields: they are numbers, or there is no result.
IfNumbers(ts, note) == IF \A t \in ts : IsNumber(t) THEN <<note>> ELSE <<>>

\* Only so much is there.
AtLeast(ps, n, result) == IF Len(ps) >= n THEN result ELSE <<>>

OptionalPort(t) == IF IsU16(Trim(t)) THEN <<Trim(t)>> ELSE <<>>

\* The nine fields of a state, those that are missing empty.
StateFields(ps, port(_)) ==
  [i \in 1..9 |-> IF i \in {6, 8} THEN port(Get(ps, i)) ELSE Get(ps, i)]

\* Mutant of ParseState: the addresses may be missing.
ParseStateShort(payload) ==
  LET ps == SplitN(payload, ",", 9) IN
  AtLeast(ps, 3, IfNumbers({ps[1]}, Note("State", StateFields(ps, OptionalPort))))

ParseState(payload) ==
  LET ps == SplitN(payload, ",", 9) IN
  AtLeast(ps, 5, IfNumbers({ps[1]}, Note("State", StateFields(ps, OptionalPort))))

ParseByteCount(payload) ==
  LET ps == SplitN(payload, ",", 2) IN
  AtLeast(ps, 2, IfNumbers({ps[1], ps[2]}, Note("ByteCount", ps)))

ParseByteCountCli(payload) ==
  LET ps == SplitN(payload, ",", 3) IN
  AtLeast(ps, 3, IfNumbers({ps[1], ps[2], ps[3]}, Note("ByteCountCli", ps)))

\* Mutant of ParseLog: the message ends at its first comma.
ParseLogSplit(payload) ==
  LET ps == Split(payload, ",") IN
  AtLeast(ps, 3, IfNumbers({ps[1]}, Note("Log", SubSeq(ps, 1, 3))))

ParseLog(payload) ==
  LET ps == SplitN(payload, ",", 3) IN
  AtLeast(ps, 3, IfNumbers({ps[1]}, Note("Log", ps)))

ParseEcho(payload) ==
  LET ps == SplitN(payload, ",", 2) IN
  AtLeast(ps, 2, IfNumbers({ps[1]}, Note("Echo", ps)))

ParsePkcs11IdCount(payload) == IfNumbers({Trim(payload)}, Note("Pkcs11IdCount", <<Trim(payload)>>))

\* 'idx', ID:'id', BLOB:'blob'
ParsePkcs11IdEntry(payload) ==
  LET index == SplitOnce(Rest(payload, <<"'">>), <<"'", ", ID:", "'">>)
      id == SplitOnce(index[2], <<"'", ", BLOB:", "'">>)
  IN IF StartsWith(payload, <<"'">>) /\ index # <<>> /\ id # <<>> /\ EndsWith(id[2], <<"'">>)
     THEN <<Note("Pkcs11IdEntry", <<index[1], id[1], Before(id[2], <<"'">>)>>)>> ELSE <<>>

\* Need 'name' ... MSG:message, for parse_need_ok and parse_need_str.
ParseNeed(kind, payload) ==
  LET name == SplitOnce(Rest(payload, <<"Need ", "'">>), <<"'">>)
      message == SplitOnce(name[2], <<"MSG:">>)
  IN IF StartsWith(payload, <<"Need ", "'">>) /\ name # <<>> /\ message # <<>>
     THEN <<Note(kind, <<name[1], message[2]>>)>> ELSE <<>>

\* Everything after the first comma is the algorithm.
ParsePkSign(payload) ==
  LET ps == SplitN(payload, ",", 2) IN
  IF payload = <<>> THEN <<>> ELSE <<Note("PkSign", <<ps[1], Tail(ps)>>)>>

ParseRemote(payload) ==
  LET ps == SplitN(payload, ",", 3) IN
  AtLeast(ps, 3, IF IsU16(ps[2]) THEN <<Note("Remote", ps)>> ELSE <<>>)

ParseProxy(payload) ==
  LET ps == SplitN(payload, ",", 3) IN
  AtLeast(ps, 3, IfNumbers({ps[1]}, Note("Proxy", ps)))
-----------------------------------------------------------------------------
(***************************************************************************)
(* parse_password.                                                         *)
(***************************************************************************)
Verification == <<"Verification Failed: ", "'">>
Crv1Mark     == <<"'", " [", "'", "CRV1", ":">>

\* Mutant of ParseChallenge: the challenge ends at a colon.
ParseChallengeSplit(data) ==
  LET ps == Split(Before(data, <<"'", "]">>), ":") IN
  IF EndsWith(data, <<"'", "]">>) /\ Len(ps) >= 4 THEN <<Note("DynamicChallenge", SubSeq(ps, 1, 4))>> ELSE <<>>

\* What comes after CRV1: is flags, state, user and a challenge with colons of its own.
ParseChallenge(data) ==
  LET ps == SplitN(Before(data, <<"'", "]">>), ":", 4) IN
  IF EndsWith(data, <<"'", "]">>) /\ Len(ps) = 4 THEN <<Note("DynamicChallenge", ps)>> ELSE <<>>

ParseVerification(rest) ==
  LET challenge == SplitOnce(rest, Crv1Mark) IN
  IF challenge # <<>> THEN ParseChallenge(challenge[2])
  ELSE IF EndsWith(rest, <<"'">>) THEN <<Note("VerificationFailed", <<Before(rest, <<"'">>)>>)>> ELSE <<>>

\* SC:flag,challenge.  Bit 0 of the flag is echo, bit 1 response_concat.
ParseStaticChallenge(sc) ==
  LET ps == SplitN(sc, ",", 2) IN
  AtLeast(ps, 2, IF IsNumber(ps[1])
    THEN <<Note("StaticChallenge", <<<<Number(ps[1]) % 2 = 1>>, <<(Number(ps[1]) \div 2) % 2 = 1>>, ps[2]>>)>> ELSE <<>>)

ParseCredentials(type, wanted) ==
  LET after == TrimStart(Rest(wanted, <<"username/password">>)) IN
  CASE StartsWith(wanted, <<"username/password">>) /\ StartsWith(after, <<"SC:">>) ->
         ParseStaticChallenge(Rest(after, <<"SC:">>))
    [] StartsWith(wanted, <<"username/password">>) -> <<Note("NeedAuth", <<type>>)>>
    [] StartsWith(wanted, <<"password">>)          -> <<Note("NeedPassword", <<type>>)>>
    [] OTHER                                       -> <<>>

ParsePassword(payload) ==
  LET type == SplitOnce(Rest(payload, <<"Need ", "'">>), <<"'">>) IN
  CASE StartsWith(payload, <<"Auth-Token:">>) -> <<Note("AuthToken", <<Rest(payload, <<"Auth-Token:">>)>>)>>
    [] StartsWith(payload, Verification)      -> ParseVerification(Rest(payload, Verification))
    [] StartsWith(payload, <<"Need ", "'">>) /\ type # <<>> -> ParseCredentials(type[1], TrimStart(type[2]))
    [] OTHER -> <<>>
-----------------------------------------------------------------------------
(***************************************************************************)
(* A notification of one line, and one with its ENV block.                 *)
(***************************************************************************)
\* The notifications whose payload is one field.
WholePayload == ("HOLD" :> "Hold") @@ ("FATAL" :> "Fatal") @@ ("RSA_SIGN" :> "RsaSign") @@ ("INFO" :> "Info")
                  @@ ("INFOMSG" :> "InfoMsg") @@ ("NEED-CERTIFICATE" :> "NeedCertificate")

NumberOrZero(t) == IF IsNumber(t) THEN t ELSE Numeral(0)

ParseClientAddress(args) ==
  LET ps == SplitN(args, ",", 3) IN
  Note("ClientAddress", <<NumberOrZero(ps[1]), Get(ps, 2), <<Get(ps, 3) = Numeral(1)>>>>)

Typed(kind, payload) ==
  CASE kind = "STATE" -> ParseState(payload)
    [] kind = "BYTECOUNT" -> ParseByteCount(payload)
    [] kind = "BYTECOUNT_CLI" -> ParseByteCountCli(payload)
    [] kind = "LOG" -> ParseLog(payload)
    [] kind = "ECHO" -> ParseEcho(payload)
    [] kind = "PKCS11ID-COUNT" -> ParsePkcs11IdCount(payload)
    [] kind = "PKCS11ID-ENTRY" -> ParsePkcs11IdEntry(payload)
    [] kind = "NEED-OK" -> ParseNeed("NeedOk", payload)
    [] kind = "NEED-STR" -> ParseNeed("NeedStr", payload)
    [] kind = "PK_SIGN" -> ParsePkSign(payload)
    [] kind = "REMOTE" -> ParseRemote(payload)
    [] kind = "PROXY" -> ParseProxy(payload)
    [] kind = "PASSWORD" -> ParsePassword(payload)
    [] kind \in DOMAIN WholePayload -> <<Note(WholePayload[kind], <<payload>>)>>
    [] OTHER -> <<>>

ParseNotification(kind, payload) ==
  LET client == SplitN(payload, ",", 2) IN
  CASE kind = "CLIENT" /\ client[1] = <<"ADDRESS">> -> ParseClientAddress(Get(client, 2))
    [] kind = "CLIENT" \/ Typed(kind, payload) = <<>> -> Simple(kind, payload)
    [] OTHER -> Typed(kind, payload)[1]

\* Mutant of ParseClientEnv: the key id is taken for the client id.
ParseClientEnvSwapped(event, args, env) ==
  LET ids == SplitN(args, ",", 3) IN
  Note("Client", <<event, NumberOrZero(Get(ids, 2)), IF IsNumber(ids[1]) THEN <<ids[1]>> ELSE <<>>,
                   IF event = <<"CR_RESPONSE">> THEN <<Get(ids, 3)>> ELSE <<>>, env>>)

\* The event, cid, kid, the response of CR_RESPONSE, and the map.
ParseClientEnv(event, args, env) ==
  LET ids == SplitN(args, ",", 3) IN
  Note("Client", <<event, NumberOrZero(ids[1]), IF IsNumber(Get(ids, 2)) THEN <<Get(ids, 2)>> ELSE <<>>,
                   IF event = <<"CR_RESPONSE">> THEN <<Get(ids, 3)>> ELSE <<>>, env>>)
=============================================================================
