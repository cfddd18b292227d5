---------------------------- MODULE MCDashboard ----------------------------
(***************************************************************************)
(* The dashboard for TLC: states with and without addresses and ports, one *)
(* the codec does not know, a client that is named like a command, texts   *)
(* with commas, colons and quotes in their last field, and malformed ones. *)
(***************************************************************************)
EXTENDS Dashboard

MCStateLines ==
  {<<<<"1">>, <<"CONNECTED">>, <<"SUCCESS">>, <<"10.8.0.2">>, <<"1.2.3.4">>, <<"8">>, <<>>, <<>>, <<"fd00::2">>>>,
   <<<<"2">>, <<"RECONNECTING">>, <<"ping-restart">>, <<>>, <<>>>>,
   <<<<"3">>, <<"LATER">>, <<>>, <<>>, <<"1.2.3.4">>>>}

MCPeople ==
  {[cid |-> <<"0">>, name |-> <<"ann">>, ip |-> <<"5.6.7.8">>],
   [cid |-> <<"1">>, name |-> <<"help", "desk">>, ip |-> <<"5.6.7.9">>]}

Whole(kind, payload, meant, fields) == [kind |-> kind, payload |-> payload, meant |-> Note(meant, fields)]
Odd(kind, payload) == [kind |-> kind, payload |-> payload, meant |-> Simple(kind, payload)]

MCChallenges ==
  {<<flags, state, name, text>> :
     flags \in {<<"R", ",", "E">>}, state \in {<<"a">>, <<"a", ":", "b">>}, name \in {<<>>, <<"b">>},
     text \in {<<"what", ":", " ", "now">>, <<"what", "'">>}}
MCReplies == {<<>>, <<"1">>, <<"a", ":", ":", "b">>, <<"\"">>}

Need(text) == <<"Need ", "'", "Auth", "'", " ">> \o text

MCNotices ==
  {Whole("PASSWORD", Need(<<"username/password">>), "NeedAuth", <<<<"Auth">>>>),
   Whole("PASSWORD", Need(<<"password">>), "NeedPassword", <<<<"Auth">>>>),
   Whole("PASSWORD", Need(<<"username/password", " ", "SC:", "2", ",", "a", ",", "b">>), "StaticChallenge",
         <<<<FALSE>>, <<TRUE>>, <<"a", ",", "b">>>>),
   Whole("PASSWORD", <<"Verification Failed: ", "'", "Auth", "'">>, "VerificationFailed", <<<<"Auth">>>>),
   Whole("PASSWORD", <<"Auth-Token:", "a", ":", "b">>, "AuthToken", <<<<"a", ":", "b">>>>),
   Whole("ECHO", <<"1", ",", "a", ",", "b">>, "Echo", <<<<"1">>, <<"a", ",", "b">>>>),
   Whole("BYTECOUNT_CLI", <<"0", ",", "1", ",", "2">>, "ByteCountCli", <<<<"0">>, <<"1">>, <<"2">>>>),
   Whole("HOLD", <<"Waiting", ":", "5">>, "Hold", <<<<"Waiting", ":", "5">>>>),
   Whole("FATAL", <<"a">>, "Fatal", <<<<"a">>>>),
   Whole("RSA_SIGN", <<"a">>, "RsaSign", <<<<"a">>>>),
   Whole("PK_SIGN", <<"a", ",", "b", ",", "c">>, "PkSign", <<<<"a">>, <<<<"b", ",", "c">>>>>>),
   Whole("PK_SIGN", <<"a">>, "PkSign", <<<<"a">>, <<>>>>),
   Whole("NEED-OK", <<"Need ", "'", "a", "'", " ", "MSG:", "b", "MSG:">>, "NeedOk", <<<<"a">>, <<"b", "MSG:">>>>),
   Whole("NEED-STR", <<"Need ", "'", "a", "'", " ", "MSG:", "b">>, "NeedStr", <<<<"a">>, <<"b">>>>),
   Whole("REMOTE", <<"a", ",", "7", ",", "udp">>, "Remote", <<<<"a">>, <<"7">>, <<"udp">>>>),
   Whole("PROXY", <<"1", ",", "TCP", ",", "a">>, "Proxy", <<<<"1">>, <<"TCP">>, <<"a">>>>),
   Whole("PKCS11ID-COUNT", <<"2">>, "Pkcs11IdCount", <<<<"2">>>>),
   Whole("PKCS11ID-ENTRY", <<"'", "0", "'", ", ID:", "'", "a", "'", ", BLOB:", "'", "b", "'">>, "Pkcs11IdEntry",
         <<<<"0">>, <<"a">>, <<"b">>>>),
   Whole("CLIENT", <<"ADDRESS", ",", "1", ",", "a", ",", "1">>, "ClientAddress", <<<<"1">>, <<"a">>, <<TRUE>>>>),
   Odd("LOG", <<"1", ",", "a">>), Odd("LOG", <<"a", ",", "N", ",", "b">>), Odd("REMOTE", <<"a", ",", "70000", ",", "udp">>),
   Odd("PASSWORD", <<"a", "'">>), Odd("PASSWORD", Need(<<"username/password", " ", "SC:", "x", ",", "a">>)),
   Odd("STATE", <<"1", ",", "CONNECTED", ",", ",">>), Odd("CLIENT", <<"a">>), Odd("LATER", <<"a", ",", "b">>),
   Odd("BYTECOUNT", <<"1">>)}
  \cup {Whole("PASSWORD", Verification \o <<"Auth", "'", " [", "'">> \o WriteCrv1(c) \o <<"'", "]">>, "DynamicChallenge",
              <<c[1], Base64(c[2]), Base64(c[3]), c[4]>>) : c \in MCChallenges}

MCNoticed == {n \in MCNotices : n.kind \in {"FATAL", "ECHO", "PKCS11ID-ENTRY", "LATER"} \/ n.meant.kind = "DynamicChallenge"}
=============================================================================
