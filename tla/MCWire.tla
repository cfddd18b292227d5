------------------------------- MODULE MCWire -------------------------------
(***************************************************************************)
(* The wire for TLC: every command, with texts that hold a space, a quote, *)
(* a backslash, a line feed or END, or nothing, and a protocol in upper    *)
(* case.                                                                   *)
(***************************************************************************)
EXTENDS Console

Texts == {<<"a">>, <<"a", " ", "b">>, <<"\"">>, <<"\\">>, <<"a", "\n", "END">>, <<>>}
One == <<"1">>

\* Commands without a text of the user's, with an argument each can have.
Plain == {Command(op, <<>>) : op \in {"Version", "State", "Hold", "Pid", "Help", "Net", "Verb", "Mute",
                                      "ForgetPasswords", "Pkcs11IdCount", "RemoteEntryCount", "LoadStats",
                                      "RemoteAccept", "RemoteSkip", "ProxyNone", "Exit", "Quit"}}
  \cup {Command(op, <<One>>) : op \in {"Version", "Status", "Verb", "Mute", "ByteCount", "Pkcs11IdGet",
                                       "EnvFilter", "RemoteEntryGet", "RemoteSkip", "ClientKill"}}
  \cup {Command(op, <<<<"on", " ", "all">>>>) : op \in {"State", "Log", "Echo"}}
  \cup {Command("Status", <<<<"3">>>>), Command("Signal", <<<<"SIGHUP">>>>), Command("Hold", <<<<"release">>>>),
        Command("AuthRetry", <<<<"none">>>>), Command("RemoteEntryGet", <<<<"0">>, One>>),
        Command("RemoteEntryGet", <<<<"all">>>>), Command("ClientAuthNt", <<One, One>>),
        Command("KillAddress", <<<<"TCP">>, <<"a">>, One>>), Command("Raw", <<<<"certificate">>>>)}

OneText(t) ==
  {Command("Kill", <<t>>), Command("PushUpdateBroad", <<t>>), Command("PushUpdateCid", <<One, t>>),
   Command("CrResponse", <<t>>), Command("Username", <<<<"Auth">>, t>>), Command("Password", <<t, <<"a">>>>),
   Command("NeedOk", <<t, <<"ok">>>>), Command("NeedStr", <<<<"a">>, t>>), Command("NeedStr", <<t, <<"a">>>>),
   Command("ClientKill", <<One, t>>), Command("ClientPendingAuth", <<One, One, t, One>>),
   Command("RemoteModify", <<t, One>>), Command("ProxyHttp", <<t, One, <<"nct">>>>),
   Command("ProxySocks", <<t, One>>), Command("ManagementPassword", <<t>>), Command("Raw", <<t>>),
   Command("RawMultiLine", <<t>>), Command("ClientDeny", <<One, One, t>>),
   Command("KillAddress", <<t, <<"a">>, One>>), Command("KillAddress", <<<<"tcp">>, t, One>>)}

TwoTexts(t, u) ==
  {Command("ChallengeResponse", <<t, u>>), Command("StaticChallengeResponse", <<t, u>>),
   Command("ClientDeny", <<One, One, t, u>>)}

BodyLines == {<<"a">>, <<"END">>, <<"END", "\n">>}
Bodies == {<<>>} \cup {<<l>> : l \in BodyLines} \cup {<<l, m>> : l, m \in BodyLines}
BlockCommands ==
  {[op |-> "ClientAuth", args |-> <<One, One>>, body |-> b] : b \in Bodies}
  \cup {[op |-> op, args |-> <<>>, body |-> <<<<"a">>>>] : op \in {"RsaSig", "PkSig", "Certificate"}}

MCInputs == Plain \cup UNION {OneText(t) : t \in Texts} \cup UNION {TwoTexts(t, u) : t, u \in Texts}
              \cup BlockCommands

SP == <<" ">>
Q(t) == <<"\"">> \o t \o <<"\"">>
MCTyped ==
  {<<"pid", " ", "a">>, <<"status">>, <<"state", " ", "on", " ", "all">>, <<"verb", " ", "300">>, <<"log">>,
   <<"env-filter">>, <<"hold", " ", "a">>, <<"remote", " ", "skip", " ", "2">>, <<"proxy", " ", "http", " ", "a", " ", "7">>,
   <<"kill", " ", "TCP", ":", "a", ":", "7">>, <<"kill", " ", "a", ":", "b", ":", "7">>,
   <<"kill", " ", "UDP", ":", "b", ":", "a", ":", "7">>,
   <<"client-auth", " ", "1", " ", "2", " ", "a", " ", "b", ",", " ", "END">>, <<"client-auth", " ", "1">>,
   <<"needok", " ", "a", " ", "b", " ", "ok">>, <<"client-kill", " ", "1", " ", "a">>,
   <<"remote-entry-get", " ", "1", " ", "3">>, <<"raw-ml", " ", "a", " ", "b">>, <<"a", " ", "b">>}
  \cup {<<"username", " ">> \o Q(<<"a", " ", "b">>) \o SP \o t : t \in {<<"a">>, Q(<<"\\", "\"">>), Q(<<>>), <<"\"", "a">>}}
  \cup {<<"client-deny", " ", "1", " ", "2", " ">> \o Q(<<"a", " ", "b">>) \o t : t \in {<<>>, SP \o <<"a">>, Q(<<"a">>)}}
  \cup {<<"client-pending-auth", " ", "1", " ", "2", " ">> \o t \o SP \o One : t \in {<<"a">>, Q(<<"a", " ", "b">>)}}

\* A command that has a body and one that has none may follow.
MCLater == {Command("Pid", <<>>), [op |-> "ClientAuth", args |-> <<One, One>>, body |-> <<<<"END">>, <<"a">>>>]}

MCNone == {}

\* A protocol the library does not know, with a line of its own in it.
MCRawProtocols == {Command("KillAddress", <<<<"a", "\n", "b">>, <<"a">>, One>>)}

MCFields ==
  [cid : {<<"1">>, <<"a">>}, kid : {<<"2">>, <<>>}, reason : {<<"a">>, <<"a", " ", "b">>}, verb : {<<"3">>}, mute : {<<"300">>},
   kill : {<<" ">>, <<"a", " ", "b">>, <<"TCP", ":", "a", ":", "7">>}, interval : {<<"2">>}]
  \cup {[cid |-> <<"1">>, kid |-> <<"1">>, reason |-> r, verb |-> <<"300">>, mute |-> <<>>, kill |-> <<>>, interval |-> <<"0">>] : r \in Texts}
=============================================================================
