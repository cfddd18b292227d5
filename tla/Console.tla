------------------------------- MODULE Console -------------------------------
(***************************************************************************)
(* Where the commands of the UI come from (openvpn-mgmt-ui/src/main.rs):   *)
(* lines typed at the prompt, the buttons and fields of the Operations tab *)
(* and the toggles of the startup panel.  Each is recorded in the console  *)
(* under a line of its own, apart from the bytes that Wire sends.          *)
(***************************************************************************)
EXTENDS Wire

CONSTANTS
  TypedLines,  \* lines the user types
  Fields       \* what the user has entered: OperationsForm and bytecount_interval, texts

-----------------------------------------------------------------------------
\* revalidate_command: the Send button is enabled.
CommandValid(raw, line) ==
  raw \/ (Trim(line) # <<>> /\ FromStr(line) # Failed /\ FromStr(line).op # "Raw")

\* SendCommand: a line is parsed in raw mode too; one that does not parse is not sent.
SendCommand(raw, line) ==
  CommandValid(raw, line) /\ FromStr(line) # Failed /\ Encode(FromStr(line), line, Trim(line))
-----------------------------------------------------------------------------
(***************************************************************************)
(* handle_ops and handle_startup: the commands, with their console lines.  *)
(***************************************************************************)
Operation(op, args, label) == [command |-> Command(op, args), label |-> label]

\* Nothing is sent if a field does not parse.
IfParses(type, t, operations) == IF Parses(type, t) THEN operations ELSE {}

QueryOperations ==
  {Operation("Version", <<>>, <<"version">>), Operation("Pid", <<>>, <<"pid">>),
   Operation("LoadStats", <<>>, <<"load-stats">>), Operation("Net", <<>>, <<"net">>)}
  \cup {Operation("Status", <<<<f>>>>, <<"status", " ", f>>) : f \in {"1", "2", "3"}}

SignalOperations == {Operation("Signal", <<s>>, <<"signal", " ">> \o s) : s \in Signals}

HoldOperations ==
  {Operation("Hold", <<>>, <<"hold">>)}
  \cup {Operation("Hold", <<<<h>>>>, <<"hold", " ", h>>) : h \in {"on", "off", "release"}}

VerbosityOperations(f) ==
  {Operation("Verb", <<>>, <<"verb">>), Operation("Mute", <<>>, <<"mute">>)}
  \cup IfParses("u8", f.verb, {Operation("Verb", <<f.verb>>, <<"verb", " ">> \o f.verb)})
  \cup IfParses("u32", f.mute, {Operation("Mute", <<f.mute>>, <<"mute", " ">> \o f.mute)})

AuthOperations ==
  {Operation("AuthRetry", <<r>>, <<"auth-retry", " ">> \o r) : r \in RetryModes}
  \cup {Operation("ForgetPasswords", <<>>, <<"forget-passwords">>)}

KillOperations(f) ==
  IF Trim(f.kill) = <<>> THEN {} ELSE {Operation("Kill", <<Trim(f.kill)>>, <<"kill", " ">> \o Trim(f.kill))}

\* Mutant of ClientOperations: the console has the key id first.
ClientOperationsSwapped(f) ==
  IfParses("u64", f.cid,
    {Operation("ClientKill", <<f.cid>>, <<"client-kill", " ">> \o f.cid)}
    \cup IfParses("u64", f.kid,
      {Operation("ClientAuthNt", <<f.cid, f.kid>>, <<"client-auth-nt", " ">> \o f.kid \o <<" ">> \o f.cid),
       Operation("ClientDeny", <<f.cid, f.kid, f.reason>>,
                 <<"client-deny", " ">> \o f.cid \o <<" ">> \o f.kid \o <<" ">> \o f.reason)}))

ClientOperations(f) ==
  IfParses("u64", f.cid,
    {Operation("ClientKill", <<f.cid>>, <<"client-kill", " ">> \o f.cid)}
    \cup IfParses("u64", f.kid,
      {Operation("ClientAuthNt", <<f.cid, f.kid>>, <<"client-auth-nt", " ">> \o f.cid \o <<" ">> \o f.kid),
       Operation("ClientDeny", <<f.cid, f.kid, f.reason>>,
                 <<"client-deny", " ">> \o f.cid \o <<" ">> \o f.kid \o <<" ">> \o f.reason)}))

\* The console names the channel and not the mode.
StreamOperations ==
  {Operation(c[1], <<m>>, <<c[2]>>) :
     c \in {<<"State", "state">>, <<"Log", "log">>, <<"Echo", "echo">>}, m \in {<<"on">>, <<"off">>, <<"on", " ", "all">>}}

ByteCountOperations(f) ==
  {Operation("ByteCount", <<n>>, <<"bytecount", " ">> \o n) : n \in {f.interval, <<"0">>}}

Operations(f) ==
  QueryOperations \cup SignalOperations \cup HoldOperations \cup VerbosityOperations(f) \cup AuthOperations
  \cup KillOperations(f) \cup ClientOperations(f) \cup StreamOperations \cup ByteCountOperations(f)

Press(f) == \E o \in Operations(f) : Encode(o.command, <<>>, o.label)

\* What can be sent; from_str and handle_ops give what the types of OvpnCommand allow.
Sendable ==
  Inputs \cup Later \cup ({FromStr(l) : l \in TypedLines} \ {Failed})
    \cup {o.command : o \in UNION {Operations(f) : f \in Fields}}

ASSUME ConsoleAssumption == \A c \in Sendable : Built(c)
-----------------------------------------------------------------------------
ConsoleNext ==
  \/ sent = <<>> /\ \E raw \in BOOLEAN, l \in TypedLines : SendCommand(raw, l)
  \/ sent = <<>> /\ \E f \in Fields : Press(f)
  \/ Next

ConsoleSpec == Init /\ [][ConsoleNext]_vars

(***************************************************************************)
(* The server reads no word the user has not typed, apart from the         *)
(* defaults, the actions of remote and proxy in upper case and a kill's    *)
(* protocol in lower case.  (from_str)                                     *)
(***************************************************************************)
OnlyTyped ==
  Intact => \A k \in DOMAIN requests :
    sent[k].typed # <<>> /\ Lexable(sent[k].command) =>
      LET c == sent[k].command
          typed == Range(Tokens(sent[k].typed))
      IN \A i \in DOMAIN requests[k].words :
           \/ requests[k].words[i] \in typed \cup {<<"0">>} \cup {<<u>> : u \in Range(Upper)}
           \/ c.op = "KillAddress" /\ i = 2 /\ requests[k].words[i] \in {Address(t) : t \in typed}

\* A text that stands for itself where the lexer reads it.
IsWord(t) == t # <<>> /\ Range(t) \cap {" ", "\"", "\n", "\r"} = {}

Toggled(c) == c.op \in {"State", "Log", "Echo"}

(***************************************************************************)
(* What the console shows of a command is that command: its line, typed    *)
(* again, sends the same bytes, the case of a kill's protocol apart.       *)
(* (handle_ops, handle_startup and send_and_record against from_str and    *)
(* encode; not the toggles, which show no mode, nor a denial whose reason  *)
(* is no word, which the console shows without the quotes it needs.)       *)
(***************************************************************************)
LabelsTell ==
  \A k \in DOMAIN sent :
    LET c == sent[k].command
        again == FromStr(sent[k].label)
    IN /\ sent[k].label # <<>> /\ ~Toggled(c) /\ c.op \notin Blocks
       /\ c.op = "ClientDeny" => \A i \in DOMAIN c.args : IsWord(c.args[i])
       => again # Failed /\ Line(again) \in Reread(Line(c))
=============================================================================
