-------------------------------- MODULE Wire --------------------------------
(***************************************************************************)
(* What commands look like on the wire: OvpnCodec::encode (codec.rs) over  *)
(* the primitives of encoder.rs, OvpnCommand::from_str with its lexer      *)
(* (command.rs), and a server that reads the bytes.                        *)
(*                                                                         *)
(* A text is a sequence of atoms: a word or a number is one atom, and so   *)
(* is each character that lexer, escaping and framing tell apart.  A       *)
(* command is its variant, its arguments in the order of the wire and, if  *)
(* it is written as a block, the lines of its body.  Variants that differ  *)
(* in an argument that may be left out are one here: Version and           *)
(* SetVersion, State and StateStream, the four of hold.                    *)
(***************************************************************************)
EXTENDS Texts

CONSTANTS
  Modes,       \* encoder modes, of "Sanitize" and "Strict"
  Inputs,      \* commands the program builds
  Later,       \* bound: of the Inputs, those that may come after the first command
  MaxCommands  \* bound: commands sent

VARIABLES
  mode,      \* OvpnCodec::encoder_mode
  wire,      \* the bytes written
  sent,      \* the commands encoded, each with the line typed for it and the line the console shows
  ends,      \* how long wire was after each of them
  broken,    \* a block has been rejected after its header was written
  read,      \* how much of wire the server has read
  block,     \* the request whose body the server is reading, if any
  requests   \* what the server has read

vars == <<mode, wire, sent, ends, broken, read, block, requests>>

Command(op, args) == [op |-> op, args |-> args, body |-> <<>>]
-----------------------------------------------------------------------------
(***************************************************************************)
(* wire_safe, escape and quote of encoder.rs, next_token of command.rs.    *)
(***************************************************************************)
WireUnsafe == {"\n", "\r"}

IsUnsafe(t) == Range(t) \cap WireUnsafe # {}

\* wire_safe when it does not reject.
Safe(t) == Without(t, WireUnsafe)

\* Mutant of Escape: a backslash is left as it is.
EscapeQuotes(t) == Fold(LAMBDA e, x : e \o (IF x = "\"" THEN <<"\\", x>> ELSE <<x>>), <<>>, t)

Escape(t) == Fold(LAMBDA e, x : e \o (IF x \in {"\\", "\""} THEN <<"\\", x>> ELSE <<x>>), <<>>, t)

Quote(t) == <<"\"">> \o t \o <<"\"">>

\* One character of next_token: m is where in the token it is.
Lex(s, x) ==
  CASE s.m = "between" /\ x = " "               -> s
    [] s.m = "between" /\ x = "\""              -> [s EXCEPT !.m = "quoted"]
    [] s.m = "between" /\ x \notin {" ", "\""}  -> [s EXCEPT !.m = "bare", !.token = <<x>>]
    [] s.m = "bare" /\ x # " "                  -> [s EXCEPT !.token = Append(@, x)]
    [] s.m = "quoted" /\ x = "\\"               -> [s EXCEPT !.m = "escaped"]
    [] s.m = "quoted" /\ x \notin {"\"", "\\"}  -> [s EXCEPT !.token = Append(@, x)]
    [] s.m = "escaped"                          -> [s EXCEPT !.m = "quoted", !.token = Append(@, x)]
    [] \/ s.m = "bare" /\ x = " "
       \/ s.m = "quoted" /\ x = "\""            -> [m |-> "between", token |-> <<>>, tokens |-> Append(s.tokens, s.token)]

\* next_token until it returns None; a quote that is not closed gives no token.
Tokens(t) ==
  LET end == Fold(Lex, [m |-> "between", token |-> <<>>, tokens |-> <<>>], t) IN
  IF end.m = "bare" THEN Append(end.tokens, end.token) ELSE end.tokens
-----------------------------------------------------------------------------
(***************************************************************************)
(* encode.  A line is made of pieces: a literal or the Display of a value  *)
(* ("value"), a text that goes through wire_safe ("bare"), one that is     *)
(* escaped and quoted as well ("quoted"), a line of its own ("line"), or   *)
(* the address of a kill, of which only the ip goes through wire_safe.     *)
(***************************************************************************)
Form(words, kinds) == [words |-> words, kinds |-> kinds]
ActionForm(word, action, kinds) == Form(<<word, " ", action>>, kinds)

InformationForms ==
  [Version |-> Form(<<"version">>, <<"value">>), Status |-> Form(<<"status">>, <<"value">>),
   State |-> Form(<<"state">>, <<"value">>), Pid |-> Form(<<"pid">>, <<>>),
   Help |-> Form(<<"help">>, <<>>), Net |-> Form(<<"net">>, <<>>),
   Verb |-> Form(<<"verb">>, <<"value">>), Mute |-> Form(<<"mute">>, <<"value">>),
   Log |-> Form(<<"log">>, <<"value">>), Echo |-> Form(<<"echo">>, <<"value">>),
   ByteCount |-> Form(<<"bytecount">>, <<"value">>)]

ConnectionForms ==
  [Signal |-> Form(<<"signal">>, <<"value">>), Kill |-> Form(<<"kill">>, <<"bare">>),
   Hold |-> Form(<<"hold">>, <<"value">>), AuthRetry |-> Form(<<"auth-retry">>, <<"value">>),
   ForgetPasswords |-> Form(<<"forget-passwords">>, <<>>)]

AnswerForms ==
  [Username |-> Form(<<"username">>, <<"quoted", "quoted">>),
   Password |-> Form(<<"password">>, <<"quoted", "quoted">>),
   NeedOk |-> Form(<<"needok">>, <<"bare", "value">>), NeedStr |-> Form(<<"needstr">>, <<"bare", "quoted">>),
   Pkcs11IdCount |-> Form(<<"pkcs11-id-count">>, <<>>),
   Pkcs11IdGet |-> Form(<<"pkcs11-id-get">>, <<"value">>),
   RsaSig |-> Form(<<"rsa-sig">>, <<>>), PkSig |-> Form(<<"pk-sig">>, <<>>)]

ClientForms ==
  [EnvFilter |-> Form(<<"env-filter">>, <<"value">>),
   RemoteEntryCount |-> Form(<<"remote-entry-count">>, <<>>),
   RemoteEntryGet |-> Form(<<"remote-entry-get">>, <<"value", "value">>),
   PushUpdateBroad |-> Form(<<"push-update-broad">>, <<"quoted">>),
   PushUpdateCid |-> Form(<<"push-update-cid">>, <<"value", "quoted">>),
   ClientAuth |-> Form(<<"client-auth">>, <<"value", "value">>),
   ClientAuthNt |-> Form(<<"client-auth-nt">>, <<"value", "value">>),
   ClientDeny |-> Form(<<"client-deny">>, <<"value", "value", "quoted", "quoted">>),
   ClientKill |-> Form(<<"client-kill">>, <<"value", "bare">>),
   LoadStats |-> Form(<<"load-stats">>, <<>>)]

ExtendedForms ==
  [ClientPendingAuth |-> Form(<<"client-pending-auth">>, <<"value", "value", "bare", "value">>),
   CrResponse |-> Form(<<"cr-response">>, <<"bare">>), Certificate |-> Form(<<"certificate">>, <<>>),
   RemoteAccept |-> ActionForm("remote", "ACCEPT", <<>>),
   RemoteSkip |-> ActionForm("remote", "SKIP", <<"value">>),
   RemoteModify |-> ActionForm("remote", "MOD", <<"bare", "value">>),
   ProxyNone |-> ActionForm("proxy", "NONE", <<>>),
   ProxyHttp |-> ActionForm("proxy", "HTTP", <<"bare", "value", "value">>),
   ProxySocks |-> ActionForm("proxy", "SOCKS", <<"bare", "value">>),
   Exit |-> Form(<<"exit">>, <<>>), Quit |-> Form(<<"quit">>, <<>>)]

Forms ==
  [op \in DOMAIN InformationForms \cup DOMAIN ConnectionForms \cup DOMAIN AnswerForms
            \cup DOMAIN ClientForms \cup DOMAIN ExtendedForms |->
     IF op \in DOMAIN InformationForms THEN InformationForms[op]
     ELSE IF op \in DOMAIN ConnectionForms THEN ConnectionForms[op]
     ELSE IF op \in DOMAIN AnswerForms THEN AnswerForms[op]
     ELSE IF op \in DOMAIN ClientForms THEN ClientForms[op]
     ELSE ExtendedForms[op]]

Blocks == {"RsaSig", "PkSig", "ClientAuth", "Certificate"}

\* Written as they are, apart from wire_safe.
Verbatim == {"ManagementPassword", "Raw", "RawMultiLine"}

Piece(kind, t) == [kind |-> kind, text |-> t]

\* password "Auth" and a response made of several parts, quoted as a whole.
AuthPassword(t) == <<Piece("value", <<"password">>), Piece("quoted", <<"Auth">>), Piece("quoted", t)>>

Pieces(c) ==
  CASE c.op = "KillAddress" ->
         <<Piece("value", <<"kill">>),
           Piece("address", c.args[1] \o <<":">> \o Safe(c.args[2]) \o <<":">> \o c.args[3])>>
    [] c.op = "ChallengeResponse" ->
         AuthPassword(<<"CRV1", ":", ":">> \o c.args[1] \o <<":", ":">> \o c.args[2])
    [] c.op = "StaticChallengeResponse" ->
         AuthPassword(<<"SCRV1", ":">> \o Base64(c.args[1]) \o <<":">> \o Base64(c.args[2]))
    [] c.op \in Verbatim -> <<Piece("line", c.args[1])>>
    [] c.op = "Status" /\ c.args = <<<<"1">>>> -> <<Piece("value", <<"status">>)>>
    [] OTHER -> <<Piece("value", Forms[c.op].words)>>
                  \o [i \in DOMAIN c.args |-> Piece(Forms[c.op].kinds[i], c.args[i])]

Render(p) ==
  CASE p.kind \in {"value", "address"} -> p.text
    [] p.kind = "quoted"               -> Quote(Escape(Safe(p.text)))
    [] OTHER                           -> Safe(p.text)

Line(c) == Join([i \in DOMAIN Pieces(c) |-> Render(Pieces(c)[i])], <<" ">>)

\* A number or a known word has neither line end nor quote.
IsValue(t) == Range(t) \cap {"\n", "\r", "\""} = {}

\* What the types of OvpnCommand allow.  The protocol of an address is any text (Unknown), its port a number.
Built(c) ==
  /\ DOMAIN c = {"op", "args", "body"}
  /\ c.args \in Seq(Seq(STRING)) /\ c.body \in Seq(Seq(STRING)) /\ (c.op \notin Blocks => c.body = <<>>)
  /\ \/ /\ c.op \in DOMAIN Forms /\ Len(c.args) <= Len(Forms[c.op].kinds)
        /\ \A i \in DOMAIN c.args :
             Forms[c.op].kinds[i] = "value" => IsValue(c.args[i])
     \/ c.op = "KillAddress" /\ Len(c.args) = 3 /\ IsValue(c.args[3])
     \/ c.op \in {"ChallengeResponse", "StaticChallengeResponse"} /\ Len(c.args) = 2
     \/ c.op \in Verbatim /\ Len(c.args) = 1

ASSUME WireAssumption ==
  Modes \subseteq {"Sanitize", "Strict"} /\ MaxCommands \in Nat /\ \A c \in Inputs \cup Later : Built(c)

\* The texts of c that encode passes through wire_safe.
Checked(c) ==
  IF c.op = "KillAddress" THEN {c.args[2]} ELSE {Pieces(c)[i].text : i \in DOMAIN Pieces(c)}

\* In strict mode the first of them that is not safe ends the encoding.
Rejects(c) == mode = "Strict" /\ \E t \in Checked(c) : IsUnsafe(t)

EndLine == <<"END">>

RejectsLine(l) == mode = "Strict" /\ (IsUnsafe(l) \/ l = EndLine)

\* Mutant of BodyLine: END is left as it is.
BodyLineAsIs(l) == Safe(l)

\* A line of a body that would end the block gets a space.
BodyLine(l) == IF Safe(l) = EndLine THEN <<" ", "END">> ELSE Safe(l)

\* Mutant of WriteLine: the line is not ended.
WriteLineOpen(t) == t

\* write_line.
WriteLine(t) == t \o <<"\n">>

\* The header and the first n lines of the body.
WriteLines(c, n) ==
  Fold(LAMBDA w, l : w \o WriteLine(BodyLine(l)), WriteLine(Line(c)), SubSeq(c.body, 1, n))

\* write_block: the header and the lines before the first that is rejected, END after the last.
WriteBlock(c) ==
  LET good == CHOOSE n \in 0..Len(c.body) :
                /\ \A i \in 1..n : ~RejectsLine(c.body[i])
                /\ n < Len(c.body) => RejectsLine(c.body[n + 1])
  IN WriteLines(c, good) \o IF good = Len(c.body) THEN WriteLine(EndLine) ELSE <<>>

RejectsBody(c) == \E i \in DOMAIN c.body : RejectsLine(c.body[i])

\* encode with Ok; typed and label are what the user typed and the console shows, if anything.
Encode(c, typed, label) ==
  /\ Len(sent) < MaxCommands /\ ~Rejects(c) /\ ~RejectsBody(c)
  /\ wire' = wire \o (IF c.op \in Blocks THEN WriteBlock(c) ELSE WriteLine(Line(c)))
  /\ sent' = Append(sent, [command |-> c, typed |-> typed, label |-> label])
  /\ ends' = Append(ends, Len(wire'))
  /\ UNCHANGED <<mode, broken, read, block, requests>>

\* encode with an error.  What write_block has written by then stays.
EncodeRejected(c) ==
  /\ Len(sent) < MaxCommands /\ ~broken
  /\ \/ Rejects(c) /\ UNCHANGED <<wire, broken>>
     \/ /\ ~Rejects(c) /\ RejectsBody(c)
        /\ wire' = wire \o WriteBlock(c) /\ broken' = TRUE
  /\ UNCHANGED <<mode, sent, ends, read, block, requests>>
-----------------------------------------------------------------------------
(***************************************************************************)
(* from_str.  A rule says how the arguments are taken apart, what each has *)
(* to parse as and how many there are at least.                            *)
(***************************************************************************)
U8 == {<<"0">>, <<"1">>, <<"2">>, <<"3">>, <<"7">>}
U16 == U8 \cup {<<"300">>}
U32 == U16 \cup {<<"70000">>}

StreamModes == {<<"on">>, <<"off">>, <<"all">>, <<"on", " ", "all">>} \cup U32
Signals == {<<s>> : s \in {"SIGHUP", "SIGTERM", "SIGUSR1", "SIGUSR2"}}
RetryModes == {<<"none">>, <<"interact">>, <<"nointeract">>}

\* "text" stands for any text.
Parses(type, t) == type = "text" \/ t \in
  CASE type = "u8" -> U8 [] type = "u16" -> U16 [] type \in {"u32", "u64"} -> U32
    [] type = "mode" -> StreamModes [] type = "signal" -> Signals [] type = "retry" -> RetryModes
    [] type = "format" -> {<<"1">>, <<"2">>, <<"3">>}
    [] type = "hold" -> {<<"on">>, <<"off">>, <<"release">>}
    [] type = "nct" -> {<<"nct">>}
    [] OTHER -> {}

Rule(op, how, types, least) == [op |-> op, how |-> how, types |-> types, least |-> least]

InformationRules ==
  ("version" :> Rule("Version", "whole", <<"u32">>, 0)) @@ ("pid" :> Rule("Pid", "none", <<>>, 0))
  @@ ("help" :> Rule("Help", "none", <<>>, 0)) @@ ("net" :> Rule("Net", "none", <<>>, 0))
  @@ ("load-stats" :> Rule("LoadStats", "none", <<>>, 0))
  @@ ("status" :> Rule("Status", "whole", <<"format">>, 0))
  @@ ("state" :> Rule("State", "whole", <<"mode">>, 0)) @@ ("log" :> Rule("Log", "whole", <<"mode">>, 1))
  @@ ("echo" :> Rule("Echo", "whole", <<"mode">>, 1)) @@ ("verb" :> Rule("Verb", "whole", <<"u8">>, 0))
  @@ ("mute" :> Rule("Mute", "whole", <<"u32">>, 0))
  @@ ("bytecount" :> Rule("ByteCount", "whole", <<"u32">>, 1))

ControlRules ==
  ("signal" :> Rule("Signal", "whole", <<"signal">>, 1)) @@ ("hold" :> Rule("Hold", "whole", <<"hold">>, 0))
  @@ ("username" :> Rule("Username", "tokens", <<"text", "text">>, 2))
  @@ ("password" :> Rule("Password", "tokens", <<"text", "text">>, 2))
  @@ ("auth-retry" :> Rule("AuthRetry", "whole", <<"retry">>, 1))
  @@ ("forget-passwords" :> Rule("ForgetPasswords", "none", <<>>, 0))
  @@ ("needstr" :> Rule("NeedStr", "tokens", <<"text", "text">>, 2))
  @@ ("pkcs11-id-count" :> Rule("Pkcs11IdCount", "none", <<>>, 0))
  @@ ("pkcs11-id-get" :> Rule("Pkcs11IdGet", "whole", <<"u32">>, 1))

ClientRules ==
  ("client-auth-nt" :> Rule("ClientAuthNt", "words", <<"u64", "u64">>, 2))
  @@ ("client-deny" :> Rule("ClientDeny", "tokens", <<"u64", "u64", "text", "text">>, 3))

OptionRules ==
  ("env-filter" :> Rule("EnvFilter", "whole", <<"u32">>, 0))
  @@ ("remote-entry-count" :> Rule("RemoteEntryCount", "none", <<>>, 0))
  @@ ("push-update-broad" :> Rule("PushUpdateBroad", "tokens", <<"text">>, 1))
  @@ ("push-update-cid" :> Rule("PushUpdateCid", "tokens", <<"u64", "text">>, 2))
  @@ ("client-pending-auth" :> Rule("ClientPendingAuth", "tokens", <<"u64", "u64", "text", "u32">>, 4))
  @@ ("cr-response" :> Rule("CrResponse", "tokens", <<"text">>, 1))
  @@ ("raw-ml" :> Rule("RawMultiLine", "whole", <<"text">>, 1))
  @@ ("exit" :> Rule("Exit", "none", <<>>, 0)) @@ ("quit" :> Rule("Quit", "none", <<>>, 0))

\* After remote and proxy, by the word that follows in either case.
RemoteRules ==
  ("ACCEPT" :> Rule("RemoteAccept", "words", <<>>, 0)) @@ ("SKIP" :> Rule("RemoteSkip", "words", <<"u32">>, 0))
  @@ ("MOD" :> Rule("RemoteModify", "words", <<"text", "u16">>, 2))
ProxyRules ==
  ("NONE" :> Rule("ProxyNone", "words", <<>>, 0))
  @@ ("HTTP" :> Rule("ProxyHttp", "words", <<"text", "u16", "nct">>, 2))
  @@ ("SOCKS" :> Rule("ProxySocks", "words", <<"text", "u16">>, 2))

Rules == InformationRules @@ ControlRules @@ ClientRules @@ OptionRules

Failed == Command("None", <<>>)

Apply(rule, args) ==
  LET n == Len(rule.types)
      given == CASE rule.how = "none"   -> <<>>
                 [] rule.how = "whole"  -> IF args = <<>> THEN <<>> ELSE <<args>>
                 [] rule.how = "words"  -> Words(args)
                 [] rule.how = "tokens" -> SubSeq(Tokens(args), 1, IF Len(Tokens(args)) < n THEN Len(Tokens(args)) ELSE n)
  IN IF /\ Len(given) \in rule.least..n
        /\ \A i \in DOMAIN given : Parses(rule.types[i], given[i])
     THEN Command(rule.op, given) ELSE Failed

\* The defaults of status and env-filter.
WithDefault(c) ==
  CASE c.op = "Status" /\ c.args = <<>>    -> Command("Status", <<<<"1">>>>)
    [] c.op = "EnvFilter" /\ c.args = <<>> -> Command("EnvFilter", <<<<"0">>>>)
    [] OTHER -> c

Upper == ("accept" :> "ACCEPT") @@ ("skip" :> "SKIP") @@ ("mod" :> "MOD") @@ ("none" :> "NONE")
           @@ ("http" :> "HTTP") @@ ("socks" :> "SOCKS")

ParseAction(rules, args) ==
  LET words == Words(args)
      word == IF words = <<>> \/ Len(words[1]) # 1 THEN "" ELSE words[1][1]
      action == IF word \in DOMAIN Upper THEN Upper[word] ELSE word
  IN IF action \in DOMAIN rules THEN Apply(rules[action], From(args, " ", 2)) ELSE Failed

Protocols == (<<"UDP">> :> <<"udp">>) @@ (<<"TCP">> :> <<"tcp">>)

\* The Display of what t parses as: Udp and Tcp are shown in lower case, Unknown as it is.
Protocol(t) == IF t \in DOMAIN Protocols THEN Protocols[t] ELSE t

\* Mutant of ParseKill: the parts are swapped.
ParseKillSwapped(args) ==
  LET parts == Split(args, ":") IN
  CASE args = <<>> -> Failed
    [] Len(parts) > 2 /\ From(args, ":", 3) \in U16 ->
         Command("KillAddress", <<Protocol(parts[2]), parts[1], From(args, ":", 3)>>)
    [] OTHER -> Command("Kill", <<args>>)

\* proto:ip:port is an address when the third part is a port.
ParseKill(args) ==
  LET parts == Split(args, ":") IN
  CASE args = <<>> -> Failed
    [] Len(parts) > 2 /\ From(args, ":", 3) \in U16 ->
         Command("KillAddress", <<Protocol(parts[1]), parts[2], From(args, ":", 3)>>)
    [] OTHER -> Command("Kill", <<args>>)

\* The last word is the response, everything before it the name.
ParseNeedOk(args) ==
  LET parts == Split(args, " ") IN
  IF Len(parts) > 1 /\ Last(parts) \in {<<"ok">>, <<"cancel">>}
  THEN Command("NeedOk", <<Trim(Join(Front(parts), <<" ">>)), Last(parts)>>) ELSE Failed

\* The configuration lines are separated by commas.
ParseClientAuth(args) ==
  LET parts == Split(args, " ")
      lines == Split(From(args, " ", 3), ",")
  IN IF Len(parts) > 1 /\ parts[1] \in U32 /\ parts[2] \in U32
     THEN [op |-> "ClientAuth", args |-> SubSeq(parts, 1, 2),
           body |-> IF Len(parts) = 2 THEN <<>> ELSE [i \in DOMAIN lines |-> Trim(lines[i])]]
     ELSE Failed

ParseClientKill(args) ==
  LET cid == Split(args, " ")[1] IN
  IF cid \notin U32 THEN Failed
  ELSE IF cid = args THEN Command("ClientKill", <<cid>>)
  ELSE Command("ClientKill", <<cid, Trim(From(args, " ", 2))>>)

\* Mutant of ParseEntryGet: all is not accepted.
ParseEntryGetIndex(args) == Apply(Rule("RemoteEntryGet", "words", <<"u32", "u32">>, 1), args)

\* all, an index, or two.
ParseEntryGet(args) ==
  IF args = <<"all">> THEN Command("RemoteEntryGet", <<args>>)
  ELSE Apply(Rule("RemoteEntryGet", "words", <<"u32", "u32">>, 1), args)

FromStr(line) ==
  LET trimmed == Trim(line)
      first == Split(trimmed, " ")[1]
      cmd == IF Len(first) = 1 THEN first[1] ELSE ""
      args == Trim(From(trimmed, " ", 2))
  IN CASE cmd = "kill"             -> ParseKill(args)
       [] cmd = "needok"           -> ParseNeedOk(args)
       [] cmd = "client-auth"      -> ParseClientAuth(args)
       [] cmd = "client-kill"      -> ParseClientKill(args)
       [] cmd = "remote"           -> ParseAction(RemoteRules, args)
       [] cmd = "proxy"            -> ParseAction(ProxyRules, args)
       [] cmd = "remote-entry-get" -> ParseEntryGet(args)
       [] cmd \in DOMAIN Rules     -> WithDefault(Apply(Rules[cmd], args))
       [] OTHER                    -> Command("Raw", <<trimmed>>)
-----------------------------------------------------------------------------
(***************************************************************************)
(* The server reads a line at a time, with the lexer that next_token       *)
(* follows; some commands have a body that ends with END.                  *)
(***************************************************************************)
BlockWords == {<<"rsa-sig">>, <<"pk-sig">>, <<"client-auth">>, <<"certificate">>}

NextLine ==
  LET stop == CHOOSE i \in read + 1..Len(wire) :
                wire[i] = "\n" /\ \A j \in read + 1..i - 1 : wire[j] # "\n"
  IN SubSeq(wire, read + 1, stop - 1)

Request(words, body) == [words |-> words, body |-> body, upto |-> read']

ServerReads ==
  /\ read < Len(wire)
  /\ read' = read + Len(NextLine) + 1
  /\ LET words == Tokens(NextLine) IN
     \/ /\ block = <<>> /\ words # <<>> /\ words[1] \in BlockWords
        /\ block' = <<Request(words, <<>>)>> /\ UNCHANGED requests
     \/ /\ block = <<>> /\ ~(words # <<>> /\ words[1] \in BlockWords)
        /\ requests' = Append(requests, Request(words, <<>>)) /\ UNCHANGED block
     \/ /\ block # <<>> /\ NextLine = EndLine
        /\ requests' = Append(requests, Request(block[1].words, block[1].body)) /\ block' = <<>>
     \/ /\ block # <<>> /\ NextLine # EndLine
        /\ block' = <<[block[1] EXCEPT !.body = Append(@, NextLine)]>> /\ UNCHANGED requests
  /\ UNCHANGED <<mode, wire, sent, ends, broken>>
-----------------------------------------------------------------------------
Init ==
  /\ mode \in Modes /\ wire = <<>> /\ sent = <<>> /\ ends = <<>> /\ broken = FALSE
  /\ read = 0 /\ block = <<>> /\ requests = <<>>

Next ==
  \/ \E c \in IF sent = <<>> THEN Inputs ELSE Later : Encode(c, <<>>, <<>>) \/ EncodeRejected(c)
  \/ ServerReads

Spec == Init /\ [][Next]_vars

TypeOK ==
  /\ mode \in {"Sanitize", "Strict"} /\ broken \in BOOLEAN
  /\ Len(sent) <= MaxCommands /\ Len(ends) = Len(sent)
  /\ read \in 0..Len(wire) /\ Len(block) <= 1
  /\ wire # <<>> => Last(wire) = "\n"
-----------------------------------------------------------------------------
(***************************************************************************)
(* The inductive invariant, for as long as what was written is intact:     *)
(* what is on the wire are the commands, one after the other; a request is *)
(* made of the bytes of its command; and the server is at the beginning of *)
(* the next command or after the header and some lines of its body.        *)
(***************************************************************************)
\* What is written of c if nothing is rejected, and where the k-th command begins.
Written(c) ==
  IF c.op \in Blocks THEN WriteLines(c, Len(c.body)) \o WriteLine(EndLine) ELSE WriteLine(Line(c))
Start(k) == IF k = 1 THEN 0 ELSE ends[k - 1]

\* A line written as it is that the server takes for the header of a block.
OpensBlock(c) == c.op \in Verbatim /\ Tokens(Line(c)) # <<>> /\ Tokens(Line(c))[1] \in BlockWords

\* An address whose protocol, which is written as it is, ends the line.
Splits(c) == c.op = "KillAddress" /\ IsUnsafe(c.args[1])

\* No block was broken off, no line sent as it was typed opens one, no protocol ends a line.
Intact ==
  ~broken /\ \A k \in DOMAIN sent : ~OpensBlock(sent[k].command) /\ ~Splits(sent[k].command)

WireOfCommands ==
  /\ Len(wire) = Start(Len(sent) + 1)
  /\ \A k \in DOMAIN sent :
       LET bytes == Written(sent[k].command) IN
       /\ ends[k] = Start(k) + Len(bytes) /\ ends[k] <= Len(wire)
       /\ \A i \in DOMAIN bytes : wire[Start(k) + i] = bytes[i]

RequestsOfCommands ==
  \A k \in DOMAIN requests :
    LET c == sent[k].command IN
    requests[k] = [words |-> Tokens(Line(c)), body |-> [i \in DOMAIN c.body |-> BodyLine(c.body[i])],
                   upto |-> ends[k]]

Reading ==
  LET done == Len(requests) IN
  /\ done <= Len(sent)
  /\ block = <<>> => read = Start(done + 1)
  /\ block # <<>> =>
       /\ done < Len(sent)
       /\ LET c == sent[done + 1].command
              lines == Len(block[1].body)
          IN /\ c.op \in Blocks /\ lines <= Len(c.body) /\ read = Start(done + 1) + Len(WriteLines(c, lines))
             /\ block[1].words = Tokens(Line(c))
             /\ \A i \in 1..lines : block[1].body[i] = BodyLine(c.body[i])

WireInv ==
  /\ TypeOK /\ \A k \in DOMAIN sent : Built(sent[k].command)
  /\ Intact => WireOfCommands /\ RequestsOfCommands /\ Reading
-----------------------------------------------------------------------------
\* The server has read a request for each command, of the bytes of that command and no other.
RequestPerCommand ==
  /\ \A k \in DOMAIN requests : k <= Len(sent) /\ requests[k].upto = ends[k]
  /\ read = Len(wire) => Len(requests) = Len(sent)

(***************************************************************************)
(* The server reads one request for each command, and no request is made   *)
(* of the bytes of two: nothing that goes through wire_safe or write_block *)
(* ends a line or a block early or leaves one open.  (encode; no longer    *)
(* once a block has been rejected in the middle, a raw line has opened one *)
(* or the protocol of a kill has ended its line, which encode lets through *)
(* in both modes.)                                                         *)
(***************************************************************************)
OneRequestEach == Intact => RequestPerCommand

\* Every text that is written bare, or as an address, is a word to the lexer.
Lexable(c) ==
  \A i \in DOMAIN Pieces(c) : Pieces(c)[i].kind \in {"bare", "address"} =>
     Safe(Pieces(c)[i].text) # <<>> /\ Range(Pieces(c)[i].text) \cap {" ", "\""} = {}

\* What the server is to read of a piece, and of c.
Reads(p) ==
  CASE p.kind = "value"   -> Words(p.text)
    [] p.kind = "line"    -> Tokens(Safe(p.text))
    [] p.kind = "address" -> <<p.text>>
    [] OTHER              -> <<Safe(p.text)>>

Meaning(c) == Fold(LAMBDA words, p : words \o Reads(p), <<>>, Pieces(c))

(***************************************************************************)
(* The server reads every argument as it was given, apart from the         *)
(* characters that cannot be sent, and a body line apart from the space    *)
(* before END; commands with a bare argument that is no word apart.  (For  *)
(* as long as what was written is intact.)                                 *)
(***************************************************************************)
ArgumentsWhole ==
  Intact => \A k \in DOMAIN requests :
    LET c == sent[k].command IN
    Lexable(c) => /\ requests[k].words = Meaning(c)
                  /\ Len(requests[k].body) = Len(c.body)
                  /\ \A i \in DOMAIN c.body : Trim(requests[k].body[i]) = Trim(Safe(c.body[i]))

\* An address with its protocol as from_str has it shown.
Address(t) ==
  IF ":" \in Range(t) THEN Protocol(Split(t, ":")[1]) \o <<":">> \o From(t, ":", 2) ELSE t

\* What a line may be once from_str has read it: the same, or the same kill with its protocol in lower case.
Reread(line) ==
  {line} \cup IF StartsWith(line, <<"kill", " ">>)
              THEN {<<"kill", " ">> \o Address(Rest(line, <<"kill", " ">>))} ELSE {}

(***************************************************************************)
(* A line that was sent and is typed again gives the same line, the case   *)
(* of a kill's protocol apart: from_str understands what encode writes.    *)
(* (Not a block, which is several lines, nor a protocol with a line end,   *)
(* nor the texts that are written as they are.)                            *)
(***************************************************************************)
ParsedBack ==
  \A k \in DOMAIN sent :
    LET c == sent[k].command IN
    /\ c.op \notin Blocks \cup {"Raw", "RawMultiLine", "ManagementPassword"}
    /\ Lexable(c) /\ ~Splits(c)
    => FromStr(Line(c)) # Failed /\ Line(FromStr(Line(c))) \in Reread(Line(c))
=============================================================================
