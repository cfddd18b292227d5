------------------------------ MODULE WireProofs ------------------------------
(***************************************************************************)
(* The server reads one request for each command, with the arguments that  *)
(* were given, for every text.                                             *)
(***************************************************************************)
EXTENDS Console, TextProofs

\* A text of the user's is a sequence of strings; the others are what the code adds.
Marks == {" ", ":", "\"", "\\", "\n", "\r", "END", "kill", "password", "status", "Auth", "CRV1", "SCRV1"}
FirstWords ==
  {"version", "status", "state", "pid", "help", "net", "verb", "mute", "log", "echo", "bytecount",
   "signal", "kill", "hold", "auth-retry", "forget-passwords", "username", "password", "needok",
   "needstr", "pkcs11-id-count", "pkcs11-id-get", "rsa-sig", "pk-sig", "env-filter",
   "remote-entry-count", "remote-entry-get", "push-update-broad", "push-update-cid", "client-auth",
   "client-auth-nt", "client-deny", "client-kill", "load-stats", "client-pending-auth",
   "cr-response", "certificate", "exit", "quit", "remote", "proxy"}
ActionWords == {"ACCEPT", "SKIP", "MOD", "NONE", "HTTP", "SOCKS"}
Atoms == STRING \cup Marks \cup FirstWords \cup ActionWords \cup {Base64Code[x] : x \in STRING}
Text == Seq(Atoms)
-----------------------------------------------------------------------------
(***************************************************************************)
(* escape and next_token, one atom at a time.                              *)
(***************************************************************************)
Escaped(x) == IF x \in {"\\", "\""} THEN <<"\\", x>> ELSE <<x>>

EscapeStep(A) == [y \in Seq(A) \X A |-> y[1] \o Escaped(y[2])]

LEMMA EscapedIn ==
  ASSUME NEW A, "\\" \in A, NEW x \in A, NEW e \in Seq(A)
  PROVE  Escaped(x) \in Seq(A) /\ e \o Escaped(x) \in Seq(A)
<1>1. Escaped(x) \in Seq(A)
  <2>1. <<"\\", x>> \in Seq(A) /\ <<x>> \in Seq(A)
    OBVIOUS
  <2>. QED BY <2>1, Zenon DEF Escaped
<1>. QED BY <1>1, ConcatIs

LEMMA EscapeIsValue ==
  ASSUME NEW A, "\\" \in A, NEW t \in Seq(A)
  PROVE  Escape(t) = Value(Seq(A), EscapeStep(A), <<>>, t)
<1>. DEFINE Run(f) == f = [i \in 0..Len(t) |-> IF i = 0 THEN <<>> ELSE f[i - 1] \o Escaped(t[i])]
            g == CHOOSE f : Run(f)
<1>1. IsStep(EscapeStep(A), Seq(A), A) /\ <<>> \in Seq(A)
  BY EscapedIn DEF IsStep, EscapeStep
<1>2. PICK f \in [0..Len(t) -> Seq(A)] : IsRun(f, EscapeStep(A), <<>>, t)
  BY <1>1, RunExists
<1>3. Run(f)
  <2>1. ASSUME NEW i \in 1..Len(t) PROVE f[i] = f[i - 1] \o Escaped(t[i])
    <3>1. <<f[i - 1], t[i]>> \in Seq(A) \X A
      OBVIOUS
    <3>2. f[i] = EscapeStep(A)[<<f[i - 1], t[i]>>]
      BY <1>2 DEF IsRun
    <3>. QED BY <3>1, <3>2 DEF EscapeStep
  <2>2. f[0] = <<>>
    BY <1>2 DEF IsRun
  <2>3. ASSUME NEW i \in 0..Len(t)
        PROVE  f[i] = IF i = 0 THEN <<>> ELSE f[i - 1] \o Escaped(t[i])
    <3>1. i = 0 \/ i \in 1..Len(t)
      OBVIOUS
    <3>. QED BY <2>1, <2>2, <3>1
  <2>. QED BY <2>3
<1>4. Run(g)
  BY <1>3
<1>5. Escape(t) = g[Len(t)]
  BY DEF Escape, Fold, Escaped
<1>. HIDE DEF g
<1>6. g[0] = <<>>
  BY <1>4
<1>7. ASSUME NEW i \in 1..Len(t), g[i - 1] \in Seq(A)
      PROVE  g[i] = EscapeStep(A)[<<g[i - 1], t[i]>>]
  <2>1. g[i] = g[i - 1] \o Escaped(t[i])
    <3>1. i \in 0..Len(t) /\ i # 0
      OBVIOUS
    <3>. QED BY <1>4, <3>1, Zenon
  <2>2. <<g[i - 1], t[i]>> \in Seq(A) \X A
    BY <1>7
  <2>. HIDE DEF Run
  <2>. QED BY <2>1, <2>2 DEF EscapeStep
<1>. HIDE DEF Run
<1>8. g[Len(t)] = Value(Seq(A), EscapeStep(A), <<>>, t)
  <2>. DEFINE states == Seq(A)
              step == EscapeStep(A)
              first == <<>>
  <2>1. IsStep(step, states, A) /\ first \in states /\ g[0] = first
        /\ \A i \in 1..Len(t) : g[i - 1] \in states => g[i] = step[<<g[i - 1], t[i]>>]
    BY <1>1, <1>6, <1>7
  <2>. HIDE DEF states, step, first
  <2>2. g[Len(t)] = Value(states, step, first, t)
    BY <2>1, RunIsValue
  <2>. QED BY <2>2 DEF states, step, first
<1>. QED BY <1>5, <1>8

LEMMA EscapeAppend ==
  ASSUME NEW A, "\\" \in A, NEW t \in Seq(A), NEW x \in A
  PROVE  Escape(<<>>) = <<>> /\ Escape(t) \in Seq(A) /\ Escape(Append(t, x)) = Escape(t) \o Escaped(x)
<1>1. IsStep(EscapeStep(A), Seq(A), A) /\ <<>> \in Seq(A)
  BY EscapedIn DEF EscapeStep, IsStep
<1>2. /\ Value(Seq(A), EscapeStep(A), <<>>, <<>>) = <<>>
      /\ \A s \in Seq(A) : Value(Seq(A), EscapeStep(A), <<>>, s) \in Seq(A)
      /\ \A s \in Seq(A), y \in A : Value(Seq(A), EscapeStep(A), <<>>, Append(s, y))
                                      = EscapeStep(A)[<<Value(Seq(A), EscapeStep(A), <<>>, s), y>>]
  BY <1>1, ValueFacts
<1>3. \A s \in Seq(A) : Escape(s) = Value(Seq(A), EscapeStep(A), <<>>, s)
  BY EscapeIsValue
<1>4. Append(t, x) \in Seq(A)
  OBVIOUS
<1>5. Escape(t) \in Seq(A) /\ Escape(Append(t, x)) = EscapeStep(A)[<<Escape(t), x>>]
  BY <1>2, <1>3, <1>4
<1>. QED BY <1>1, <1>2, <1>3, <1>5 DEF EscapeStep

LexModes == {"between", "bare", "quoted", "escaped"}
LexStates == [m : LexModes, token : Text, tokens : Seq(Text)]
State(m, token, tokens) == [m |-> m, token |-> token, tokens |-> tokens]
Start0 == State("between", <<>>, <<>>)
Lexed(t) == Fold(Lex, Start0, t)
LexStep == [y \in LexStates \X Atoms |-> Lex(y[1], y[2])]

LEMMA LexState ==
  ASSUME NEW m \in LexModes, NEW token \in Text, NEW tokens \in Seq(Text), NEW x \in Atoms
  PROVE  /\ m = "between" /\ x = " " => Lex(State(m, token, tokens), x) = State(m, token, tokens)
         /\ m = "between" /\ x = "\"" => Lex(State(m, token, tokens), x) = State("quoted", token, tokens)
         /\ m = "between" /\ x # " " /\ x # "\"" => Lex(State(m, token, tokens), x) = State("bare", <<x>>, tokens)
         /\ m = "bare" /\ x # " " => Lex(State(m, token, tokens), x) = State("bare", Append(token, x), tokens)
         /\ m = "quoted" /\ x = "\\" => Lex(State(m, token, tokens), x) = State("escaped", token, tokens)
         /\ m = "quoted" /\ x # "\\" /\ x # "\"" =>
              Lex(State(m, token, tokens), x) = State("quoted", Append(token, x), tokens)
         /\ m = "escaped" => Lex(State(m, token, tokens), x) = State("quoted", Append(token, x), tokens)
         /\ (m = "bare" /\ x = " ") \/ (m = "quoted" /\ x = "\"") =>
              Lex(State(m, token, tokens), x) = State("between", <<>>, Append(tokens, token))
<1>. DEFINE s == State(m, token, tokens)
<1>1. m = "between" => /\ x = " " => Lex(s, x) = s
                       /\ x = "\"" => Lex(s, x) = State("quoted", token, tokens)
                       /\ x # " " /\ x # "\"" => Lex(s, x) = State("bare", <<x>>, tokens)
  BY DEF State, Lex
<1>2. m = "bare" => /\ x # " " => Lex(s, x) = State("bare", Append(token, x), tokens)
                    /\ x = " " => Lex(s, x) = State("between", <<>>, Append(tokens, token))
  BY DEF State, Lex
<1>3. m = "quoted" => /\ x = "\\" => Lex(s, x) = State("escaped", token, tokens)
                      /\ x # "\\" /\ x # "\"" => Lex(s, x) = State("quoted", Append(token, x), tokens)
                      /\ x = "\"" => Lex(s, x) = State("between", <<>>, Append(tokens, token))
  BY DEF State, Lex
<1>4. m = "escaped" => Lex(s, x) = State("quoted", Append(token, x), tokens)
  BY DEF State, Lex
<1>. HIDE DEF s
<1>. QED BY <1>1, <1>2, <1>3, <1>4 DEF s

LEMMA LexIn ==
  ASSUME NEW s \in LexStates, NEW x \in Atoms
  PROVE  Lex(s, x) \in LexStates
<1>1. s = State(s.m, s.token, s.tokens) /\ s.m \in LexModes /\ s.token \in Text /\ s.tokens \in Seq(Text)
  BY DEF State, LexStates
<1>2. PICK m \in LexModes, token \in Text, tokens \in Seq(Text) : s = State(m, token, tokens)
  BY <1>1
<1>3. <<>> \in Text /\ <<x>> \in Text /\ Append(token, x) \in Text /\ Append(tokens, token) \in Seq(Text)
  BY DEF Text
<1>4. \A n \in LexModes, u \in Text, us \in Seq(Text) : State(n, u, us) \in LexStates
  BY DEF State, LexStates
<1>5. {"between", "bare", "quoted", "escaped"} \subseteq LexModes
  BY DEF LexModes
<1>6. /\ State("quoted", token, tokens) \in LexStates /\ State("bare", <<x>>, tokens) \in LexStates
      /\ State("bare", Append(token, x), tokens) \in LexStates /\ State("escaped", token, tokens) \in LexStates
      /\ State("quoted", Append(token, x), tokens) \in LexStates
      /\ State("between", <<>>, Append(tokens, token)) \in LexStates
  BY <1>3, <1>4, <1>5
<1>7. m = "between" \/ m = "bare" \/ m = "quoted" \/ m = "escaped"
  BY DEF LexModes
<1>. QED BY <1>2, <1>6, <1>7, LexState

LEMMA LexIsValue ==
  ASSUME NEW t \in Text
  PROVE  Lexed(t) = Value(LexStates, LexStep, Start0, t)
<1>. DEFINE Run(f) == f = [i \in 0..Len(t) |-> IF i = 0 THEN Start0 ELSE Lex(f[i - 1], t[i])]
            g == CHOOSE f : Run(f)
<1>1. IsStep(LexStep, LexStates, Atoms) /\ Start0 \in LexStates
  <2>1. <<>> \in Text /\ <<>> \in Seq(Text)
    BY DEF Text
  <2>2. Start0 \in LexStates
    BY <2>1 DEF Start0, State, LexStates, LexModes
  <2>. QED BY <2>2, LexIn DEF IsStep, LexStep
<1>2. PICK f \in [0..Len(t) -> LexStates] : IsRun(f, LexStep, Start0, t)
  BY <1>1, RunExists DEF Text
<1>3. Run(f)
  <2>1. ASSUME NEW i \in 1..Len(t) PROVE f[i] = Lex(f[i - 1], t[i])
    <3>1. <<f[i - 1], t[i]>> \in LexStates \X Atoms
      BY DEF Text
    <3>2. f[i] = LexStep[<<f[i - 1], t[i]>>]
      BY <1>2 DEF IsRun
    <3>. QED BY <3>1, <3>2 DEF LexStep
  <2>2. f[0] = Start0
    BY <1>2 DEF IsRun
  <2>3. ASSUME NEW i \in 0..Len(t)
        PROVE  f[i] = IF i = 0 THEN Start0 ELSE Lex(f[i - 1], t[i])
    <3>1. i = 0 \/ i \in 1..Len(t)
      OBVIOUS
    <3>. QED BY <2>1, <2>2, <3>1
  <2>. QED BY <2>3
<1>4. Run(g)
  BY <1>3
<1>5. Lexed(t) = g[Len(t)]
  BY DEF Lexed, Fold
<1>. HIDE DEF g
<1>6. g[0] = Start0
  BY <1>4
<1>7. ASSUME NEW i \in 1..Len(t), g[i - 1] \in LexStates
      PROVE  g[i] = LexStep[<<g[i - 1], t[i]>>]
  <2>1. g[i] = Lex(g[i - 1], t[i])
    <3>1. i \in 0..Len(t) /\ i # 0
      OBVIOUS
    <3>. QED BY <1>4, <3>1, Zenon
  <2>2. <<g[i - 1], t[i]>> \in LexStates \X Atoms
    BY <1>7 DEF Text
  <2>. HIDE DEF Run
  <2>. QED BY <2>1, <2>2 DEF LexStep
<1>. HIDE DEF Run
<1>8. g[Len(t)] = Value(LexStates, LexStep, Start0, t)
  <2>. DEFINE states == LexStates
              step == LexStep
              first == Start0
  <2>1. IsStep(step, states, Atoms) /\ first \in states /\ g[0] = first
        /\ \A i \in 1..Len(t) : g[i - 1] \in states => g[i] = step[<<g[i - 1], t[i]>>]
    BY <1>1, <1>6, <1>7
  <2>. HIDE DEF states, step, first
  <2>2. g[Len(t)] = Value(states, step, first, t)
    BY <2>1, RunIsValue DEF Text
  <2>. QED BY <2>2 DEF states, step, first
<1>. QED BY <1>5, <1>8

LEMMA LexAppend ==
  ASSUME NEW t \in Text, NEW x \in Atoms
  PROVE  Lexed(<<>>) = Start0 /\ Lexed(t) \in LexStates /\ Lexed(Append(t, x)) = Lex(Lexed(t), x)
<1>1. IsStep(LexStep, LexStates, Atoms) /\ Start0 \in LexStates
  <2>1. <<>> \in Text /\ <<>> \in Seq(Text)
    BY DEF Text
  <2>2. Start0 \in LexStates
    BY <2>1 DEF Start0, State, LexStates, LexModes
  <2>. QED BY <2>2, LexIn DEF IsStep, LexStep
<1>2. /\ Value(LexStates, LexStep, Start0, <<>>) = Start0
      /\ \A s \in Seq(Atoms) : Value(LexStates, LexStep, Start0, s) \in LexStates
      /\ \A s \in Seq(Atoms), y \in Atoms : Value(LexStates, LexStep, Start0, Append(s, y))
                                              = LexStep[<<Value(LexStates, LexStep, Start0, s), y>>]
  BY <1>1, ValueFacts
<1>3. \A s \in Text : Lexed(s) = Value(LexStates, LexStep, Start0, s)
  BY LexIsValue
<1>4. Append(t, x) \in Text /\ <<>> \in Text
  BY DEF Text
<1>5. Lexed(t) \in LexStates /\ Lexed(Append(t, x)) = LexStep[<<Lexed(t), x>>]
  BY <1>2, <1>3, <1>4 DEF Text
<1>. QED BY <1>2, <1>3, <1>4, <1>5 DEF LexStep

-----------------------------------------------------------------------------
(***************************************************************************)
(* Lines.  Nothing that encode writes into a line ends it.                 *)
(***************************************************************************)
Plain == Atoms \ WireUnsafe

LEMMA PlainTexts ==
  /\ Plain \subseteq Atoms /\ Seq(Plain) \subseteq Text
  /\ \A x \in Marks \ WireUnsafe : x \in Plain /\ <<x>> \in Seq(Plain)
  /\ Marks \subseteq Atoms /\ {"\\", "\"", " ", "END", ":"} \subseteq Marks \ WireUnsafe
<1>1. Plain \subseteq Atoms /\ Marks \subseteq Atoms
  BY DEF Plain, Atoms
<1>2. ASSUME NEW t \in Seq(Plain) PROVE t \in Text
  BY <1>1, SeqMonotonic DEF Text
<1>3. ASSUME NEW x \in Marks \ WireUnsafe PROVE x \in Plain /\ <<x>> \in Seq(Plain)
  <2>1. x \in Plain
    BY <1>1 DEF Plain
  <2>. QED BY <2>1
<1>4. {"\\", "\"", " ", "END", ":"} \subseteq Marks \ WireUnsafe
  BY DEF Marks, WireUnsafe
<1>. QED BY <1>1, <1>2, <1>3, <1>4

LEMMA SafePlain ==
  ASSUME NEW t \in Text
  PROVE  Safe(t) \in Seq(Plain)
BY WithoutDrops DEF Safe, Text, Plain

LEMMA EscapePlain ==
  ASSUME NEW t \in Seq(Plain)
  PROVE  Escape(t) \in Seq(Plain) /\ Quote(Escape(t)) \in Seq(Plain)
<1>1. Escape(t) \in Seq(Plain)
  <2>1. "\\" \in Plain
    BY PlainTexts
  <2>. QED BY <2>1, EscapeAppend
<1>2. <<"\"">> \in Seq(Plain)
  BY PlainTexts
<1>3. <<"\"">> \o Escape(t) \in Seq(Plain)
  BY <1>1, <1>2, ConcatIs
<1>. QED BY <1>1, <1>2, <1>3, ConcatIs DEF Quote

ValueUnsafe == {"\n", "\r", "\""}

LEMMA SafeIsPlain ==
  ASSUME NEW t \in Text, ~IsUnsafe(t)
  PROVE  t \in Seq(Plain)
<1>1. \A i \in 1..Len(t) : t[i] \in Plain
  <2>1. \A i \in 1..Len(t) : t[i] \in Atoms /\ t[i] \in Range(t)
    BY DEF Text, Range
  <2>. QED BY <2>1 DEF IsUnsafe, Plain
<1>. QED BY <1>1, IsASeq DEF Text

LEMMA ValuePlain ==
  ASSUME NEW t \in Text, Range(t) \cap ValueUnsafe = {}
  PROVE  t \in Seq(Plain)
<1>1. \A i \in 1..Len(t) : t[i] \in Plain
  <2>1. \A i \in 1..Len(t) : t[i] \in Atoms /\ t[i] \in Range(t)
    BY DEF Text, Range
  <2>. QED BY <2>1 DEF ValueUnsafe, Plain, WireUnsafe
<1>. QED BY <1>1, IsASeq DEF Text

IsPiece(p) ==
  /\ p.text \in Text /\ (p.kind = "value" => Range(p.text) \cap ValueUnsafe = {})
  /\ p.kind = "address" => p.text \in Seq(Plain)

LEMMA RenderPlain ==
  ASSUME NEW p, IsPiece(p)
  PROVE  Render(p) \in Seq(Plain)
<1>1. p.text \in Text /\ Safe(p.text) \in Seq(Plain)
  BY SafePlain DEF IsPiece
<1>2. Quote(Escape(Safe(p.text))) \in Seq(Plain)
  BY <1>1, EscapePlain
<1>3. p.kind \in {"value", "address"} => p.text \in Seq(Plain)
  BY <1>1, ValuePlain DEF IsPiece
<1>. QED BY <1>1, <1>2, <1>3 DEF Render

\* The words of a form are one word or two, and say whether it has a body.
Space == " "
QuoteMark == "\""
KindLists ==
  {<<>>, <<"value">>, <<"bare">>, <<"quoted">>, <<"value", "value">>, <<"value", "bare">>, <<"value", "quoted">>,
   <<"bare", "value">>, <<"bare", "quoted">>, <<"quoted", "quoted">>, <<"bare", "value", "value">>,
   <<"value", "value", "quoted", "quoted">>, <<"value", "value", "bare", "value">>}
IsForm(op, f) ==
  /\ f.words[1] \in FirstWords /\ (<<f.words[1]>> \in BlockWords <=> op \in Blocks)
  /\ f.kinds \in KindLists
  /\ f.words = <<f.words[1]>> \/ (f.words[3] \in ActionWords /\ f.words = <<f.words[1], Space, f.words[3]>>)

LEMMA InformationFormsFit == \A op \in DOMAIN InformationForms : IsForm(op, InformationForms[op])
BY DEF InformationForms, Form, IsForm, KindLists, FirstWords, BlockWords, Blocks
LEMMA ConnectionFormsFit == \A op \in DOMAIN ConnectionForms : IsForm(op, ConnectionForms[op])
BY DEF ConnectionForms, Form, IsForm, KindLists, FirstWords, BlockWords, Blocks
LEMMA AnswerFormsFit == \A op \in DOMAIN AnswerForms : IsForm(op, AnswerForms[op])
BY DEF AnswerForms, Form, IsForm, KindLists, FirstWords, BlockWords, Blocks
LEMMA ClientFormsFit == \A op \in DOMAIN ClientForms : IsForm(op, ClientForms[op])
BY DEF ClientForms, Form, IsForm, KindLists, FirstWords, BlockWords, Blocks

LEMMA ActionFormIs ==
  ASSUME NEW word, NEW action, NEW kinds
  PROVE  ActionForm(word, action, kinds) = Form(<<word, Space, action>>, kinds)
BY DEF ActionForm, Space

LEMMA ExtendedFormsFit == \A op \in DOMAIN ExtendedForms : IsForm(op, ExtendedForms[op])
BY ActionFormIs DEF ExtendedForms, Form, IsForm, KindLists, FirstWords, ActionWords, BlockWords, Blocks

LEMMA FormsFit == \A op \in DOMAIN Forms : IsForm(op, Forms[op])
BY InformationFormsFit, ConnectionFormsFit, AnswerFormsFit, ClientFormsFit, ExtendedFormsFit, Zenon DEF Forms

LEMMA KindListsFit ==
  ASSUME NEW l \in KindLists, NEW i \in 1..Len(l)
  PROVE  l[i] \in {"value", "bare", "quoted"}
BY DEF KindLists

LEMMA WordsPlain ==
  ASSUME NEW w \in FirstWords \cup ActionWords
  PROVE  w \in Atoms /\ w \notin ValueUnsafe \cup {" "}
<1>1. w \in Atoms
  BY DEF Atoms
<1>2. w \notin ValueUnsafe \cup {" "}
  BY Zenon DEF FirstWords, ActionWords, ValueUnsafe
<1>. QED BY <1>1, <1>2

LEMMA OpsApart ==
  /\ {"KillAddress", "ChallengeResponse", "StaticChallengeResponse"} \cap (DOMAIN Forms \cup Verbatim \cup Blocks) = {}
  /\ Verbatim \cap (DOMAIN Forms \cup Blocks) = {} /\ Blocks \subseteq DOMAIN Forms
<1>1. DOMAIN Forms = DOMAIN InformationForms \cup DOMAIN ConnectionForms \cup DOMAIN AnswerForms
                       \cup DOMAIN ClientForms \cup DOMAIN ExtendedForms
  BY DEF Forms
<1>2. {"KillAddress", "ChallengeResponse", "StaticChallengeResponse"} \cap (DOMAIN Forms \cup Verbatim \cup Blocks) = {}
  BY <1>1, SMT DEF Verbatim, Blocks, InformationForms, ConnectionForms, AnswerForms, ClientForms, ExtendedForms
<1>3. Verbatim \cap (DOMAIN Forms \cup Blocks) = {}
  BY <1>1, SMT DEF Verbatim, Blocks, InformationForms, ConnectionForms, AnswerForms, ClientForms, ExtendedForms
<1>4. Blocks \subseteq DOMAIN Forms
  BY <1>1, SMT DEF Blocks, AnswerForms, ClientForms, ExtendedForms
<1>. QED BY <1>2, <1>3, <1>4

\* The pieces of a line, of each kind of command.
LEMMA PiecesOfKill ==
  ASSUME NEW c, c.op = "KillAddress"
  PROVE  Pieces(c) = <<Piece("value", <<"kill">>),
                       Piece("address", c.args[1] \o <<":">> \o Safe(c.args[2]) \o <<":">> \o c.args[3])>>
<1>1. c.op \notin Verbatim
  BY OpsApart
<1>. QED BY <1>1, Zenon DEF Pieces

LEMMA PiecesOfVerbatim ==
  ASSUME NEW c, c.op \in Verbatim
  PROVE  Pieces(c) = <<Piece("line", c.args[1])>>
BY DEF Pieces, Verbatim

LEMMA PiecesOfAnswer ==
  ASSUME NEW c, c.op \in {"ChallengeResponse", "StaticChallengeResponse"}
  PROVE  Pieces(c) = AuthPassword(IF c.op = "ChallengeResponse"
                                  THEN <<"CRV1", ":", ":">> \o c.args[1] \o <<":", ":">> \o c.args[2]
                                  ELSE <<"SCRV1", ":">> \o Base64(c.args[1]) \o <<":">> \o Base64(c.args[2]))
<1>1. c.op \notin Verbatim /\ c.op # "KillAddress" /\ c.op # "Status"
  BY OpsApart
<1>. QED BY <1>1, Zenon DEF Pieces

LEMMA PiecesOfForm ==
  ASSUME NEW c, c.op \in DOMAIN Forms
  PROVE  Pieces(c) = IF c.op = "Status" /\ c.args = <<<<"1">>>> THEN <<Piece("value", <<"status">>)>>
                     ELSE <<Piece("value", Forms[c.op].words)>>
                            \o [i \in DOMAIN c.args |-> Piece(Forms[c.op].kinds[i], c.args[i])]
<1>1. c.op \notin {"KillAddress", "ChallengeResponse", "StaticChallengeResponse"} \cup Verbatim
  BY OpsApart
<1>. QED BY <1>1, Zenon DEF Pieces

PieceSet ==
  {p \in [kind : {"value", "bare", "quoted", "line", "address"}, text : Text] :
     /\ p.kind = "value" => Range(p.text) \cap ValueUnsafe = {}
     /\ p.kind = "address" => p.text \in Seq(Plain)}

\* Those that are not a line as it is.
WordPieces == {p \in PieceSet : p.kind # "line"}

LEMMA PieceIn ==
  ASSUME NEW kind \in {"value", "bare", "quoted", "line", "address"}, NEW t \in Text,
         kind = "value" => Range(t) \cap ValueUnsafe = {}, kind = "address" => t \in Seq(Plain)
  PROVE  /\ Piece(kind, t) \in PieceSet /\ Piece(kind, t).kind = kind /\ Piece(kind, t).text = t
         /\ kind # "line" => Piece(kind, t) \in WordPieces
<1>1. Piece(kind, t).kind = kind /\ Piece(kind, t).text = t
  BY DEF Piece
<1>2. Piece(kind, t) \in PieceSet
  BY DEF Piece, PieceSet
<1>. QED BY <1>1, <1>2 DEF WordPieces

LEMMA RenderIn ==
  ASSUME NEW p \in PieceSet
  PROVE  Render(p) \in Seq(Plain)
<1>1. IsPiece(p)
  BY DEF IsPiece, PieceSet
<1>. QED BY <1>1, RenderPlain

\* What a text of the user's becomes.
LEMMA StringText ==
  ASSUME NEW t \in Seq(STRING)
  PROVE  t \in Text /\ Base64(t) \in Text
<1>1. t \in Text
  BY SeqMonotonic DEF Text, Atoms
<1>2. \A i \in 1..Len(t) : Base64Code[t[i]] \in Atoms
  <2>1. \A i \in 1..Len(t) : t[i] \in STRING
    OBVIOUS
  <2>. QED BY <2>1 DEF Atoms
<1>3. Base64(t) = [i \in 1..Len(t) |-> Base64Code[t[i]]] /\ Len(t) \in Nat
  BY DEF Base64
<1>4. Base64(t) \in Seq(Atoms)
  <2>. DEFINE code(i) == Base64Code[t[i]]
  <2>. HIDE DEF code
  <2>1. \A i \in 1..Len(t) : code(i) \in Atoms
    BY <1>2 DEF code
  <2>2. [i \in 1..Len(t) |-> code(i)] \in Seq(Atoms)
    BY <1>3, <2>1, IsASeq
  <2>. QED BY <1>3, <2>2 DEF code
<1>. QED BY <1>1, <1>4 DEF Text

LEMMA MarkTexts ==
  /\ \A x \in Marks : <<x>> \in Text
  /\ <<":", ":">> \in Text /\ <<"CRV1", ":", ":">> \in Text /\ <<"SCRV1", ":">> \in Text
<1>1. \A x \in Marks : x \in Atoms
  BY PlainTexts
<1>2. ":" \in Atoms /\ "CRV1" \in Atoms /\ "SCRV1" \in Atoms
  <2>1. ":" \in Marks /\ "CRV1" \in Marks /\ "SCRV1" \in Marks
    BY Zenon DEF Marks
  <2>. QED BY <1>1, <2>1
<1>. QED BY <1>1, <1>2 DEF Text

LEMMA TextJoins == Joins(Text, <<" ">>)
<1>1. <<" ">> \in Text
  <2>1. " " \in Marks
    BY Zenon DEF Marks
  <2>. QED BY <2>1, MarkTexts
<1>. QED BY <1>1, ConcatIs DEF Joins, Text

LEMMA OneSafe ==
  ASSUME NEW x, x \notin ValueUnsafe
  PROVE  Range(<<x>>) \cap ValueUnsafe = {}
<1>1. Range(<<x>>) = {x}
  BY DEF Range
<1>. QED BY <1>1

\* The pieces of a form: its words and its arguments.
LEMMA WordsSafe ==
  ASSUME NEW op \in DOMAIN Forms
  PROVE  Forms[op].words \in Text /\ Range(Forms[op].words) \cap ValueUnsafe = {}
<1>. DEFINE words == Forms[op].words
            w == words[1]
            u == words[3]
<1>1. w \in FirstWords /\ (words = <<w>> \/ (u \in ActionWords /\ words = <<w, Space, u>>))
  BY FormsFit, Zenon DEF IsForm
<1>2. Space \in Atoms /\ Space \notin ValueUnsafe
  <2>1. Space \in Marks /\ Space \notin ValueUnsafe
    BY Zenon DEF Marks, Space, ValueUnsafe
  <2>. QED BY <2>1, PlainTexts
<1>. HIDE DEF w, u
<1>3. w \in Atoms /\ w \notin ValueUnsafe
  BY <1>1, WordsPlain
<1>4. u \in ActionWords => u \in Atoms /\ u \notin ValueUnsafe
  BY WordsPlain
<1>. HIDE DEF words
<1>5. CASE words = <<w>>
  <2>1. <<w>> \in Text
    BY <1>3 DEF Text
  <2>2. Range(<<w>>) \cap ValueUnsafe = {}
    BY <1>3, OneSafe
  <2>. QED BY <1>5, <2>1, <2>2 DEF words
<1>6. CASE u \in ActionWords /\ words = <<w, Space, u>>
  <2>1. <<w, Space, u>> \in Text
    BY <1>2, <1>3, <1>4, <1>6 DEF Text
  <2>2. Range(<<w, Space, u>>) = {w, Space, u}
    BY DEF Range
  <2>3. Range(<<w, Space, u>>) \cap ValueUnsafe = {}
    BY <1>2, <1>3, <1>4, <1>6, <2>2
  <2>. QED BY <1>6, <2>1, <2>3 DEF words
<1>. QED BY <1>1, <1>5, <1>6

LEMMA ArgsIn ==
  ASSUME NEW c, Built(c), NEW i \in 1..Len(c.args)
  PROVE  /\ c.args \in Seq(Seq(STRING)) /\ Len(c.args) \in Nat
         /\ c.args[i] \in Seq(STRING) /\ c.args[i] \in Text /\ Base64(c.args[i]) \in Text
<1>1. c.args \in Seq(Seq(STRING))
  BY DEF Built
<1>2. c.args[i] \in Seq(STRING) /\ Len(c.args) \in Nat
  BY <1>1
<1>. QED BY <1>1, <1>2, StringText

\* A command of which no argument ends the line.
Whole(c) == Built(c) /\ ~Splits(c)

AddressOf(c) == c.args[1] \o <<":">> \o Safe(c.args[2]) \o <<":">> \o c.args[3]

LEMMA AddressIn ==
  ASSUME NEW c, Built(c), c.op = "KillAddress"
  PROVE  /\ AddressOf(c) \in Text /\ AddressOf(c) # <<>>
         /\ ~Splits(c) => AddressOf(c) \in Seq(Plain)
<1>1. Len(c.args) = 3 /\ IsValue(c.args[3])
  <2>1. c.op \notin DOMAIN Forms \cup Verbatim \cup {"ChallengeResponse", "StaticChallengeResponse"}
    BY OpsApart
  <2>. QED BY <2>1 DEF Built
<1>2. PICK protocol, ip, port \in Text : protocol = c.args[1] /\ ip = c.args[2] /\ port = c.args[3]
  <2>1. 1 \in 1..Len(c.args) /\ 2 \in 1..Len(c.args) /\ 3 \in 1..Len(c.args)
    BY <1>1
  <2>. QED BY <2>1, ArgsIn
<1>3. PICK colon \in Seq(Plain) : colon = <<":">> /\ colon \in Text /\ Len(colon) = 1
  <2>1. ":" \in Marks \ WireUnsafe
    BY Zenon DEF Marks, WireUnsafe
  <2>. QED BY <2>1, PlainTexts
<1>4. PICK safe \in Seq(Plain) : safe = Safe(ip) /\ safe \in Text
  BY SafePlain, PlainTexts
<1>5. port \in Seq(Plain)
  <2>1. Range(port) \cap ValueUnsafe = {}
    BY <1>1, <1>2, Zenon DEF IsValue, ValueUnsafe
  <2>. QED BY <2>1, ValuePlain
<1>6. AddressOf(c) = protocol \o colon \o safe \o colon \o port
  BY <1>2, <1>3, <1>4 DEF AddressOf
<1>7. AddressOf(c) \in Text /\ AddressOf(c) # <<>>
  <2>1. PICK t \in Text : t = protocol \o colon /\ t # <<>>
    <3>1. protocol \o colon \in Text /\ Len(protocol \o colon) = Len(protocol) + 1 /\ Len(protocol) \in Nat
      BY <1>3 DEF Text
    <3>2. protocol \o colon # <<>>
      BY <3>1
    <3>. QED BY <3>1, <3>2
  <2>2. ASSUME NEW u \in Text, NEW v \in Text, u # <<>> PROVE u \o v \in Text /\ u \o v # <<>>
    BY <2>2 DEF Text
  <2>. HIDE DEF Text
  <2>3. PICK u \in Text : u = t \o safe /\ u # <<>>
    BY <1>4, <2>1, <2>2
  <2>4. PICK v \in Text : v = u \o colon /\ v # <<>>
    BY <1>3, <2>2, <2>3
  <2>5. v \o port \in Text /\ v \o port # <<>>
    BY <2>2, <2>4
  <2>. QED BY <1>6, <2>1, <2>3, <2>4, <2>5, Zenon
<1>8. ASSUME ~Splits(c) PROVE AddressOf(c) \in Seq(Plain)
  <2>1. protocol \in Seq(Plain)
    BY <1>2, <1>8, SafeIsPlain DEF Splits
  <2>2. \A u, v \in Seq(Plain) : u \o v \in Seq(Plain)
    BY ConcatIs
  <2>3. protocol \o colon \o safe \in Seq(Plain)
    BY <2>1, <2>2
  <2>4. protocol \o colon \o safe \o colon \in Seq(Plain)
    BY <2>2, <2>3, Zenon
  <2>. QED BY <1>5, <1>6, <2>2, <2>4, Zenon
<1>. QED BY <1>7, <1>8

LEMMA KillPieces ==
  ASSUME NEW c, Whole(c), c.op = "KillAddress"
  PROVE  Pieces(c) \in Seq(WordPieces) /\ Pieces(c) # <<>>
<1>. DEFINE p == Piece("value", <<"kill">>)
            q == Piece("address", AddressOf(c))
<1>1. p \in WordPieces
  <2>1. "kill" \in Marks /\ "kill" \notin ValueUnsafe
    BY Zenon DEF Marks, ValueUnsafe
  <2>. QED BY <2>1, MarkTexts, OneSafe, PieceIn
<1>2. q \in WordPieces
  <2>1. AddressOf(c) \in Text /\ AddressOf(c) \in Seq(Plain)
    BY AddressIn DEF Whole
  <2>. QED BY <2>1, PieceIn
<1>3. Pieces(c) = <<p, q>>
  BY PiecesOfKill DEF AddressOf
<1>. HIDE DEF p, q
<1>. QED BY <1>1, <1>2, <1>3

LEMMA VerbatimPieces ==
  ASSUME NEW c, Built(c), c.op \in Verbatim
  PROVE  Pieces(c) \in Seq(PieceSet) /\ Pieces(c) # <<>>
<1>. DEFINE p == Piece("line", c.args[1])
<1>1. Len(c.args) = 1
  <2>1. c.op \notin DOMAIN Forms \cup {"KillAddress", "ChallengeResponse", "StaticChallengeResponse"}
    BY OpsApart
  <2>. QED BY <2>1 DEF Built
<1>2. c.args[1] \in Text
  BY <1>1, ArgsIn
<1>3. p \in PieceSet
  BY <1>2, PieceIn
<1>4. Pieces(c) = <<p>>
  BY PiecesOfVerbatim
<1>. HIDE DEF p
<1>. QED BY <1>3, <1>4

LEMMA AnswerText ==
  ASSUME NEW c, Built(c), c.op \in {"ChallengeResponse", "StaticChallengeResponse"}
  PROVE  \E t \in Text : Pieces(c) = AuthPassword(t)
<1>1. Len(c.args) = 2
  <2>1. c.op \notin DOMAIN Forms \cup Verbatim /\ c.op # "KillAddress"
    BY OpsApart
  <2>. QED BY <2>1 DEF Built
<1>2. PICK a, b, d, e \in Text : a = c.args[1] /\ b = c.args[2] /\ d = Base64(c.args[1]) /\ e = Base64(c.args[2])
  <2>1. 1 \in 1..Len(c.args) /\ 2 \in 1..Len(c.args)
    BY <1>1
  <2>. QED BY <2>1, ArgsIn
<1>3. <<":">> \in Text
  <2>1. ":" \in Marks
    BY Zenon DEF Marks
  <2>. QED BY <2>1, MarkTexts
<1>4. \A s, t \in Text : s \o t \in Text
  BY ConcatIs DEF Text
<1>5. c.op = "ChallengeResponse" => Pieces(c) = AuthPassword(<<"CRV1", ":", ":">> \o a \o <<":", ":">> \o b)
  BY <1>2, PiecesOfAnswer
<1>6. c.op # "ChallengeResponse" => Pieces(c) = AuthPassword(<<"SCRV1", ":">> \o d \o <<":">> \o e)
  BY <1>2, PiecesOfAnswer
<1>7. <<"CRV1", ":", ":">> \o a \o <<":", ":">> \o b \in Text
  <2>1. <<"CRV1", ":", ":">> \o a \in Text
    BY <1>4, MarkTexts, Zenon
  <2>2. <<"CRV1", ":", ":">> \o a \o <<":", ":">> \in Text
    BY <1>4, <2>1, MarkTexts, Zenon
  <2>. QED BY <1>4, <2>2, Zenon
<1>8. <<"SCRV1", ":">> \o d \o <<":">> \o e \in Text
  <2>1. <<"SCRV1", ":">> \o d \in Text
    BY <1>4, MarkTexts, Zenon
  <2>2. <<"SCRV1", ":">> \o d \o <<":">> \in Text
    BY <1>3, <1>4, <2>1, Zenon
  <2>. QED BY <1>4, <2>2, Zenon
<1>. QED BY <1>5, <1>6, <1>7, <1>8, Zenon

LEMMA AnswerPieces ==
  ASSUME NEW c, Built(c), c.op \in {"ChallengeResponse", "StaticChallengeResponse"}
  PROVE  Pieces(c) \in Seq(WordPieces) /\ Pieces(c) # <<>>
<1>1. PICK t \in Text : Pieces(c) = AuthPassword(t)
  BY AnswerText
<1>. DEFINE p == Piece("value", <<"password">>)
            q == Piece("quoted", <<"Auth">>)
            r == Piece("quoted", t)
<1>2. p \in WordPieces
  <2>1. "password" \in Marks /\ "password" \notin ValueUnsafe
    BY Zenon DEF Marks, ValueUnsafe
  <2>. QED BY <2>1, MarkTexts, OneSafe, PieceIn
<1>3. q \in WordPieces /\ r \in WordPieces
  <2>1. "Auth" \in Marks
    BY Zenon DEF Marks
  <2>. QED BY <2>1, MarkTexts, PieceIn
<1>4. Pieces(c) = <<p, q, r>>
  BY <1>1 DEF AuthPassword
<1>. HIDE DEF p, q, r
<1>. QED BY <1>2, <1>3, <1>4

LEMMA FormArgument ==
  ASSUME NEW c, Built(c), c.op \in DOMAIN Forms, NEW i \in 1..Len(c.args)
  PROVE  Piece(Forms[c.op].kinds[i], c.args[i]) \in WordPieces
<1>. DEFINE kinds == Forms[c.op].kinds
<1>1. kinds \in KindLists
  BY FormsFit, Zenon DEF IsForm
<1>2. Len(c.args) <= Len(kinds)
        /\ \A j \in DOMAIN c.args : kinds[j] = "value" => IsValue(c.args[j])
  <2>1. c.op \notin Verbatim \cup {"KillAddress", "ChallengeResponse", "StaticChallengeResponse"}
    BY OpsApart
  <2>. QED BY <2>1, Zenon DEF Built
<1>3. c.args[i] \in Text /\ i \in DOMAIN c.args /\ Len(c.args) \in Nat
  BY ArgsIn
<1>. HIDE DEF kinds
<1>4. i \in 1..Len(kinds)
  <2>1. Len(kinds) \in Nat
    BY <1>1 DEF KindLists
  <2>2. \A n, m \in Nat : n <= m => \A j \in 1..n : j \in 1..m
    OBVIOUS
  <2>. QED BY <1>2, <1>3, <2>1, <2>2, Zenon
<1>5. kinds[i] \in {"value", "bare", "quoted"}
  BY <1>1, <1>4, KindListsFit
<1>6. kinds[i] = "value" => Range(c.args[i]) \cap ValueUnsafe = {}
  BY <1>2, <1>3, Zenon DEF IsValue, ValueUnsafe
<1>7. Piece(kinds[i], c.args[i]) \in WordPieces
  BY <1>3, <1>5, <1>6, PieceIn
<1>. QED BY <1>7 DEF kinds

LEMMA FormPieces ==
  ASSUME NEW c, Built(c), c.op \in DOMAIN Forms
  PROVE  Pieces(c) \in Seq(WordPieces) /\ Pieces(c) # <<>>
<1>. DEFINE p == Piece("value", <<"status">>)
            q == Piece("value", Forms[c.op].words)
            rest(i) == Piece(Forms[c.op].kinds[i], c.args[i])
<1>1. p \in WordPieces
  <2>1. "status" \in Marks /\ "status" \notin ValueUnsafe
    BY Zenon DEF Marks, ValueUnsafe
  <2>. QED BY <2>1, MarkTexts, OneSafe, PieceIn
<1>2. q \in WordPieces
  BY WordsSafe, PieceIn
<1>3. \A i \in 1..Len(c.args) : rest(i) \in WordPieces
  BY FormArgument
<1>4. Len(c.args) \in Nat /\ DOMAIN c.args = 1..Len(c.args)
  <2>1. c.args \in Seq(Seq(STRING))
    BY DEF Built
  <2>. QED BY <2>1
<1>5. Pieces(c) = <<p>> \/ Pieces(c) = <<q>> \o [i \in 1..Len(c.args) |-> rest(i)]
  BY <1>4, PiecesOfForm, Zenon
<1>. HIDE DEF p, q, rest
<1>6. [i \in 1..Len(c.args) |-> rest(i)] \in Seq(WordPieces)
  BY <1>3, <1>4, IsASeq
<1>7. <<q>> \o [i \in 1..Len(c.args) |-> rest(i)] \in Seq(WordPieces)
        /\ Len(<<q>> \o [i \in 1..Len(c.args) |-> rest(i)]) >= 1
  BY <1>2, <1>6
<1>8. <<p>> \in Seq(WordPieces) /\ <<p>> # <<>>
  BY <1>1
<1>9. CASE Pieces(c) = <<p>>
  BY <1>8, <1>9, Zenon
<1>10. CASE Pieces(c) = <<q>> \o [i \in 1..Len(c.args) |-> rest(i)]
  <2>1. Pieces(c) \in Seq(WordPieces) /\ Len(Pieces(c)) >= 1
    BY <1>7, <1>10, Zenon
  <2>. HIDE <1>10
  <2>. QED BY <2>1
<1>. QED BY <1>5, <1>9, <1>10

LEMMA PiecesFit ==
  ASSUME NEW c, Whole(c)
  PROVE  /\ Pieces(c) \in Seq(PieceSet) /\ Pieces(c) # <<>>
         /\ c.op \notin Verbatim => Pieces(c) \in Seq(WordPieces)
<1>1. c.op \in DOMAIN Forms \cup Verbatim \cup {"KillAddress", "ChallengeResponse", "StaticChallengeResponse"}
  BY DEF Whole, Built
<1>2. c.op \notin Verbatim => Pieces(c) \in Seq(WordPieces) /\ Pieces(c) # <<>>
  BY <1>1, KillPieces, AnswerPieces, FormPieces DEF Whole
<1>3. \A ps \in Seq(WordPieces) : ps \in Seq(PieceSet)
  <2>1. WordPieces \subseteq PieceSet
    BY DEF WordPieces
  <2>. QED BY <2>1, SeqMonotonic
<1>. QED BY <1>2, <1>3, VerbatimPieces DEF Whole

-----------------------------------------------------------------------------
(***************************************************************************)
(* The line of a command: nothing in it ends the line, and it begins with  *)
(* the word of the command.                                                *)
(***************************************************************************)
RenderAll(ps) == [i \in DOMAIN ps |-> Render(ps[i])]

LEMMA RenderAllIn ==
  ASSUME NEW ps \in Seq(PieceSet)
  PROVE  /\ RenderAll(ps) \in Seq(Seq(Plain)) /\ Len(RenderAll(ps)) = Len(ps)
         /\ \A i \in 1..Len(ps) : RenderAll(ps)[i] = Render(ps[i])
<1>1. Len(ps) \in Nat /\ DOMAIN ps = 1..Len(ps) /\ \A i \in 1..Len(ps) : ps[i] \in PieceSet
  OBVIOUS
<1>2. RenderAll(ps) = [i \in 1..Len(ps) |-> Render(ps[i])]
  BY <1>1, Zenon DEF RenderAll
<1>3. \A i \in 1..Len(ps) : Render(ps[i]) \in Seq(Plain)
  BY <1>1, RenderIn
<1>4. RenderAll(ps) \in Seq(Seq(Plain))
  BY <1>1, <1>2, <1>3, IsASeq
<1>5. Len(RenderAll(ps)) = Len(ps)
  BY <1>1, <1>2
<1>. QED BY <1>1, <1>2, <1>4, <1>5

LEMMA SpaceJoins == Joins(Seq(Plain), <<" ">>)
<1>1. <<" ">> \in Seq(Plain)
  BY PlainTexts, Zenon
<1>. QED BY <1>1, ConcatIs DEF Joins

LEMMA LineOf ==
  ASSUME NEW c
  PROVE  Line(c) = Join(RenderAll(Pieces(c)), <<" ">>)
BY DEF Line, RenderAll

LEMMA LinePlain ==
  ASSUME NEW c, Whole(c)
  PROVE  Line(c) \in Seq(Plain)
<1>1. Pieces(c) \in Seq(PieceSet) /\ Pieces(c) # <<>>
  BY PiecesFit
<1>2. RenderAll(Pieces(c)) \in Seq(Seq(Plain)) /\ RenderAll(Pieces(c)) # <<>>
  BY <1>1, RenderAllIn
<1>. QED BY <1>2, LineOf, SpaceJoins, JoinFacts

LEMMA LineIn ==
  ASSUME NEW c, Built(c)
  PROVE  Line(c) \in Text
<1>1. CASE Whole(c)
  BY <1>1, LinePlain, PlainTexts
<1>2. CASE ~Whole(c)
  <2>1. c.op = "KillAddress"
    BY <1>2 DEF Whole, Splits
  <2>2. PICK t \in Text : t = AddressOf(c)
    BY <2>1, AddressIn
  <2>3. PICK w \in Text : w = <<"kill">>
    <3>1. "kill" \in Marks
      BY Zenon DEF Marks
    <3>. QED BY <3>1, MarkTexts
  <2>4. Pieces(c) = <<Piece("value", w), Piece("address", t)>>
    BY <2>1, <2>2, <2>3, PiecesOfKill DEF AddressOf
  <2>5. Render(Piece("value", w)) = w /\ Render(Piece("address", t)) = t
    BY DEF Render, Piece
  <2>. DEFINE p == Piece("value", w)
              q == Piece("address", t)
  <2>6. Pieces(c) = <<p, q>> /\ Render(p) = w /\ Render(q) = t
    BY <2>4, <2>5
  <2>. HIDE DEF p, q
  <2>7. RenderAll(Pieces(c)) = <<w, t>>
    BY <2>6 DEF RenderAll
  <2>8. RenderAll(Pieces(c)) \in Seq(Text) /\ RenderAll(Pieces(c)) # <<>>
    BY <2>7
  <2>. QED BY <2>8, LineOf, TextJoins, JoinFacts
<1>. QED BY <1>1, <1>2

LEMMA BlockWhole ==
  ASSUME NEW c, Built(c), c.op \in Blocks
  PROVE  Whole(c)
BY OpsApart DEF Whole, Splits

LEMMA JoinBegins ==
  ASSUME NEW A, NEW x \in Seq(A), NEW ts \in Seq(Seq(A)), ts # <<>>
  PROVE  Join(ts, x) = ts[1] \/ \E v \in Seq(A) : Join(ts, x) = ts[1] \o x \o v
<1>. DEFINE B == Seq(A)
            Begins(us) == Join(us, x) = us[1] \/ \E v \in B : Join(us, x) = us[1] \o x \o v
            S == {us \in Seq(B) : us = <<>> \/ Begins(us)}
<1>1. Joins(B, x)
  BY ConcatIs DEF Joins
<1>2. \A v, w \in B : v \o w \in B
  BY ConcatIs
<1>3. \A u, v, w \in B : (u \o v) \o w = u \o (v \o w)
  OBVIOUS
<1>. HIDE DEF B
<1>4. \A u \in B : Join(<<u>>, x) = u
  BY <1>1, JoinFacts
<1>5. \A us \in Seq(B) : us # <<>> => Join(us, x) \in B
  BY <1>1, JoinFacts
<1>6. \A us \in Seq(B), u \in B : us # <<>> => Join(Append(us, u), x) = Join(us, x) \o x \o u
  BY <1>1, JoinFacts
<1>7. ASSUME NEW us \in Seq(B), NEW u \in B, us \in S PROVE Append(us, u) \in S
  <2>1. Append(us, u) \in Seq(B)
    OBVIOUS
  <2>2. CASE us = <<>>
    <3>1. Append(us, u) = <<u>> /\ <<u>>[1] = u
      BY <2>2
    <3>. QED BY <1>4, <2>1, <3>1
  <2>3. CASE us # <<>>
    <3>1. Append(us, u)[1] = us[1] /\ us[1] \in B
      BY <2>3
    <3>2. Join(Append(us, u), x) = Join(us, x) \o x \o u
      BY <1>6, <2>3
    <3>3. x \in B
      BY DEF B
    <3>4. Begins(us)
      BY <1>7, <2>3
    <3>5. CASE Join(us, x) = us[1]
      BY <2>1, <3>1, <3>2, <3>5
    <3>6. ASSUME NEW v \in B, Join(us, x) = us[1] \o x \o v PROVE Append(us, u) \in S
      <4>1. Join(Append(us, u), x) = us[1] \o x \o (v \o x \o u)
        <5>1. us[1] \o x \in B /\ v \o x \in B /\ x \o u \in B
          BY <1>2, <3>1, <3>3
        <5>2. ((us[1] \o x) \o v) \o x \o u = (us[1] \o x) \o (v \o x \o u)
          <6>1. ((us[1] \o x) \o v) \o x = (us[1] \o x) \o (v \o x)
            BY <1>3, <3>3, <5>1, ZenonT(40)
          <6>2. ((us[1] \o x) \o (v \o x)) \o u = (us[1] \o x) \o ((v \o x) \o u)
            BY <1>3, <5>1, ZenonT(40)
          <6>. QED BY <6>1, <6>2, Zenon
        <5>. QED BY <3>2, <3>6, <5>2
      <4>2. v \o x \o u \in B
        BY <1>2, <3>3
      <4>. QED BY <2>1, <3>1, <4>1, <4>2
    <3>. QED BY <3>4, <3>5, <3>6
  <2>. QED BY <2>2, <2>3
<1>8. <<>> \in S
  OBVIOUS
<1>. HIDE DEF S
<1>9. \A us \in Seq(B) : us \in S
  BY <1>7, <1>8, ByAppend
<1>10. ts \in S
  BY <1>9 DEF B
<1>. QED BY <1>10 DEF S, B

LEMMA TokensAre ==
  ASSUME NEW t
  PROVE  Tokens(t) = IF Lexed(t).m = "bare" THEN Append(Lexed(t).tokens, Lexed(t).token) ELSE Lexed(t).tokens
BY DEF Tokens, Lexed, Start0, State

LEMMA OneIn ==
  ASSUME NEW B, NEW x \in B
  PROVE  /\ <<x>> \in Seq(B) /\ <<>> \in Seq(B) /\ <<x>> = Append(<<>>, x)
         /\ <<x>>[1] = x /\ <<x>> # <<>> /\ Len(<<x>>) = 1
<1>1. <<x>> \in Seq(B) /\ <<>> \in Seq(B) /\ <<x>>[1] = x
  OBVIOUS
<1>2. Len(<<x>>) = 1 /\ Len(<<>>) = 0
  OBVIOUS
<1>3. <<x>> = Append(<<>>, x)
  OBVIOUS
<1>. QED BY <1>1, <1>2, <1>3

LEMMA ThreeOf ==
  ASSUME NEW A, NEW a \in A, NEW b \in A, NEW d \in A
  PROVE  <<d>> \in Seq(A) /\ <<a, b, d>> = Append(<<a>>, b) \o <<d>>
<1>1. <<a>> \in Seq(A) /\ Append(<<a>>, b) \in Seq(A) /\ <<d>> \in Seq(A)
  OBVIOUS
<1>2. <<a, b, d>> = Append(Append(<<a>>, b), d)
  OBVIOUS
<1>3. \A t \in Seq(A) : Append(t, d) = t \o <<d>>
  OBVIOUS
<1>. QED BY <1>1, <1>2, <1>3

LEMMA AppendFirst ==
  ASSUME NEW B, NEW us \in Seq(B), NEW u \in B, us # <<>>
  PROVE  Append(us, u)[1] = us[1] /\ Append(us, u) # <<>>
<1>1. Append(us, u)[1] = us[1]
  OBVIOUS
<1>. QED BY <1>1, AppendOne

LEMMA TextsAppend ==
  ASSUME NEW s \in Text, NEW t \in Text, NEW x \in Atoms
  PROVE  /\ s \o t \in Text /\ s \o <<>> = s /\ Append(t, x) \in Text /\ <<x>> \in Text /\ <<>> \in Text
         /\ s \o Append(t, x) = Append(s \o t, x) /\ Append(t, x) = t \o <<x>>
BY DEF Text

LEMMA LexCases ==
  ASSUME NEW s \in LexStates, NEW x \in Atoms
  PROVE  /\ s.tokens \in Seq(Text) /\ s.token \in Text
         /\ Lex(s, x).tokens = s.tokens \/ Lex(s, x).tokens = Append(s.tokens, s.token)
<1>1. s = State(s.m, s.token, s.tokens) /\ s.m \in LexModes /\ s.token \in Text /\ s.tokens \in Seq(Text)
  BY DEF State, LexStates
<1>2. PICK m \in LexModes, token \in Text, tokens \in Seq(Text) :
        s = State(m, token, tokens) /\ tokens = s.tokens /\ token = s.token
  BY <1>1
<1>3. ASSUME NEW n, NEW u, NEW us, Lex(s, x) = State(n, u, us), us = tokens \/ us = Append(tokens, token)
      PROVE  Lex(s, x).tokens = s.tokens \/ Lex(s, x).tokens = Append(s.tokens, s.token)
  <2>1. State(n, u, us).tokens = us
    BY DEF State
  <2>. QED BY <1>2, <1>3, <2>1
<1>4. CASE m = "between"
  <2>1. \/ Lex(s, x) = State(m, token, tokens) \/ Lex(s, x) = State("quoted", token, tokens)
        \/ Lex(s, x) = State("bare", <<x>>, tokens)
    BY <1>2, <1>4, LexState, Zenon
  <2>. QED BY <1>1, <1>3, <2>1, Zenon
<1>5. CASE m = "bare"
  <2>1. \/ Lex(s, x) = State("bare", Append(token, x), tokens)
        \/ Lex(s, x) = State("between", <<>>, Append(tokens, token))
    BY <1>2, <1>5, LexState, Zenon
  <2>. QED BY <1>1, <1>3, <2>1, Zenon
<1>6. CASE m = "quoted"
  <2>1. \/ Lex(s, x) = State("escaped", token, tokens) \/ Lex(s, x) = State("quoted", Append(token, x), tokens)
        \/ Lex(s, x) = State("between", <<>>, Append(tokens, token))
    BY <1>2, <1>6, LexState, Zenon
  <2>. QED BY <1>1, <1>3, <2>1, Zenon
<1>7. CASE m = "escaped"
  <2>1. Lex(s, x) = State("quoted", Append(token, x), tokens)
    BY <1>2, <1>7, LexState, Zenon
  <2>. QED BY <1>1, <1>3, <2>1, Zenon
<1>. QED BY <1>4, <1>5, <1>6, <1>7 DEF LexModes

LEMMA LexKeeps ==
  ASSUME NEW s \in LexStates, NEW x \in Atoms, s.tokens # <<>>
  PROVE  Lex(s, x).tokens # <<>> /\ Lex(s, x).tokens[1] = s.tokens[1]
<1>. DEFINE us == s.tokens
            u == s.token
<1>1. us \in Seq(Text) /\ u \in Text /\ (Lex(s, x).tokens = us \/ Lex(s, x).tokens = Append(us, u))
  BY LexCases
<1>. HIDE DEF us, u
<1>2. us # <<>> => Append(us, u)[1] = us[1] /\ Append(us, u) # <<>>
  BY <1>1, AppendFirst
<1>. QED BY <1>1, <1>2 DEF us

LEMMA SpaceIs == Space \in Atoms /\ Space \in Plain /\ Space \notin ValueUnsafe /\ <<Space>> = <<" ">>
<1>1. Space \in Marks \ WireUnsafe /\ Space \notin ValueUnsafe /\ <<Space>> = <<" ">>
  BY Zenon DEF Marks, Space, ValueUnsafe, WireUnsafe
<1>. QED BY <1>1, PlainTexts

LEMMA LexFirst ==
  ASSUME NEW w \in Atoms, w # Space, w # QuoteMark
  PROVE  /\ Lexed(<<w>>) = State("bare", <<w>>, <<>>)
         /\ Lexed(<<w>>).m = "bare" /\ Lexed(<<w>>).token = <<w>> /\ Lexed(<<w>>).tokens = <<>>
         /\ Lexed(Append(<<w>>, Space)) = State("between", <<>>, <<<<w>>>>)
         /\ Lexed(Append(<<w>>, Space)).tokens = <<<<w>>>>
<1>1. <<>> \in Text /\ <<w>> \in Text /\ <<w>> = Append(<<>>, w)
  BY OneIn DEF Text
<1>2. <<>> \in Seq(Text) /\ <<<<w>>>> = Append(<<>>, <<w>>)
  BY <1>1, OneIn
<1>3. "between" \in LexModes /\ "bare" \in LexModes
  BY Zenon DEF LexModes
<1>4. Lexed(Append(<<>>, w)) = Lex(Start0, w)
  BY <1>1, LexAppend
<1>5. Lex(State("between", <<>>, <<>>), w) = State("bare", <<w>>, <<>>)
  BY <1>1, <1>2, <1>3, LexState, Zenon DEF Space, QuoteMark
<1>6. Lexed(<<w>>) = State("bare", <<w>>, <<>>)
  BY <1>1, <1>4, <1>5, Zenon DEF Start0
<1>7. Lexed(Append(<<w>>, Space)) = Lex(State("bare", <<w>>, <<>>), Space)
  BY <1>1, <1>6, SpaceIs, LexAppend
<1>8. Lex(State("bare", <<w>>, <<>>), Space) = State("between", <<>>, Append(<<>>, <<w>>))
  BY <1>1, <1>2, <1>3, SpaceIs, LexState, Zenon DEF Space
<1>9. Lexed(Append(<<w>>, Space)) = State("between", <<>>, <<<<w>>>>)
  BY <1>2, <1>7, <1>8, Zenon
<1>10. ASSUME NEW m, NEW u, NEW us PROVE State(m, u, us).m = m /\ State(m, u, us).token = u /\ State(m, u, us).tokens = us
  BY DEF State
<1>. QED BY <1>6, <1>9, <1>10

LEMMA LexBegun ==
  ASSUME NEW one \in Text, NEW begun \in Text, Lexed(begun).tokens = <<one>>, NEW v \in Text
  PROVE  Lexed(begun \o v).tokens # <<>> /\ Lexed(begun \o v).tokens[1] = one
<1>. DEFINE S == {u \in Text : Lexed(begun \o u).tokens # <<>> /\ Lexed(begun \o u).tokens[1] = one}
<1>1. <<>> \in S
  <2>1. begun \o <<>> = begun /\ <<>> \in Text
    BY DEF Text
  <2>2. <<one>> # <<>> /\ <<one>>[1] = one
    BY OneIn
  <2>. QED BY <2>1, <2>2
<1>2. ASSUME NEW u \in Text, NEW x \in Atoms, u \in S PROVE Append(u, x) \in S
  <2>. HIDE DEF S
  <2>1. begun \o Append(u, x) = Append(begun \o u, x) /\ begun \o u \in Text /\ Append(u, x) \in Text
    BY DEF Text
  <2>2. Lexed(Append(begun \o u, x)) = Lex(Lexed(begun \o u), x) /\ Lexed(begun \o u) \in LexStates
    BY <2>1, LexAppend
  <2>3. Lexed(begun \o u).tokens # <<>> /\ Lexed(begun \o u).tokens[1] = one
    BY <1>2 DEF S
  <2>. QED BY <2>1, <2>2, <2>3, LexKeeps DEF S
<1>. HIDE DEF S
<1>3. \A u \in Text : u \in S
  BY <1>1, <1>2, ByAppend DEF Text
<1>. QED BY <1>3 DEF S

\* A line that begins with a word and a space, or is that word, begins with that token.
LEMMA FirstToken ==
  ASSUME NEW w \in Atoms, w # Space, w # QuoteMark, NEW v \in Text
  PROVE  /\ Tokens(<<w>>) # <<>> /\ Tokens(<<w>>)[1] = <<w>>
         /\ Tokens(Append(<<w>>, Space) \o v) # <<>> /\ Tokens(Append(<<w>>, Space) \o v)[1] = <<w>>
<1>. DEFINE one == <<w>>
            begun == Append(one, Space)
<1>1. one \in Text
  BY OneIn DEF Text
<1>2. /\ Lexed(one).m = "bare" /\ Lexed(one).token = one /\ Lexed(one).tokens = <<>>
      /\ Lexed(begun).tokens = <<one>>
  BY LexFirst, Zenon
<1>. HIDE DEF one
<1>3. begun \in Text
  BY <1>1, SpaceIs, TextsAppend
<1>. HIDE DEF begun
<1>5. <<one>>[1] = one /\ <<one>> # <<>> /\ Append(<<>>, one) = <<one>>
  BY <1>1, OneIn
<1>6. Tokens(one) = <<one>>
  BY <1>2, <1>5, TokensAre
<1>7. Tokens(begun \o v) # <<>> /\ Tokens(begun \o v)[1] = one
  <2>. DEFINE us == Lexed(begun \o v).tokens
              u == Lexed(begun \o v).token
  <2>1. us # <<>> /\ us[1] = one
    BY <1>1, <1>2, <1>3, LexBegun
  <2>2. us \in Seq(Text) /\ u \in Text
    <3>1. Lexed(begun \o v) \in LexStates
      BY <1>3, SpaceIs, TextsAppend, LexAppend
    <3>. QED BY <3>1 DEF LexStates
  <2>3. Tokens(begun \o v) = us \/ Tokens(begun \o v) = Append(us, u)
    BY TokensAre
  <2>. HIDE DEF us, u
  <2>4. Append(us, u) # <<>> /\ Append(us, u)[1] = one
    BY <2>1, <2>2, AppendFirst
  <2>. QED BY <2>1, <2>3, <2>4
<1>. QED BY <1>5, <1>6, <1>7, Zenon DEF one, begun

BeginsWith(t, w) == t = <<w>> \/ \E v \in Text : t = Append(<<w>>, Space) \o v

LEMMA FirstTokenOf ==
  ASSUME NEW w \in Atoms, w # Space, w # QuoteMark, NEW t, BeginsWith(t, w)
  PROVE  Tokens(t) # <<>> /\ Tokens(t)[1] = <<w>>
<1>1. <<>> \in Text
  BY OneIn DEF Text
<1>2. CASE t = <<w>>
  BY <1>1, <1>2, FirstToken
<1>3. ASSUME NEW v \in Text, t = Append(<<w>>, Space) \o v PROVE Tokens(t) # <<>> /\ Tokens(t)[1] = <<w>>
  BY <1>3, FirstToken
<1>. QED BY <1>2, <1>3 DEF BeginsWith

LEMMA LineBegins ==
  ASSUME NEW c, Whole(c), NEW w \in Atoms, w # Space, w # QuoteMark, BeginsWith(Render(Pieces(c)[1]), w)
  PROVE  Tokens(Line(c)) # <<>> /\ Tokens(Line(c))[1] = <<w>>
<1>. DEFINE ts == RenderAll(Pieces(c))
            x == <<Space>>
            t == Render(Pieces(c)[1])
            one == <<w>>
<1>1. Pieces(c) \in Seq(PieceSet) /\ Pieces(c) # <<>>
  BY PiecesFit
<1>2. ts \in Seq(Seq(Plain)) /\ ts # <<>> /\ ts[1] = t
  <2>1. 1 \in 1..Len(Pieces(c)) /\ Len(Pieces(c)) # 0
    BY <1>1
  <2>2. Len(ts) # 0
    BY <1>1, <2>1, RenderAllIn
  <2>3. ts # <<>>
    BY <2>2
  <2>. QED BY <1>1, <2>1, <2>3, RenderAllIn
<1>3. \A s \in Seq(Plain) : s \in Text
  BY PlainTexts
<1>4. x \in Seq(Plain)
  BY SpaceIs, OneIn
<1>. DEFINE joined == Join(ts, x)
<1>5. Line(c) = joined
  BY LineOf, SpaceIs, Zenon
<1>. HIDE DEF joined, ts, x, t
<1>6. joined = t \/ \E v \in Seq(Plain) : joined = t \o x \o v
  BY <1>2, <1>4, JoinBegins DEF joined
<1>. DEFINE begun == Append(one, Space)
<1>7. x \in Text /\ one \in Text /\ begun \in Text /\ begun = one \o x /\ \A u, v \in Text : u \o v \in Text
  <2>1. one \in Text
    BY OneIn DEF Text
  <2>2. \A u, v \in Text : u \o v \in Text
    BY ConcatIs DEF Text
  <2>. HIDE DEF one
  <2>3. begun \in Text /\ begun = one \o x
    BY <2>1, SpaceIs, TextsAppend DEF x
  <2>. QED BY <1>3, <1>4, <2>1, <2>2, <2>3
<1>8. t = one \/ \E v \in Text : t = begun \o v
  BY DEF t, BeginsWith
<1>. HIDE DEF one, begun
<1>9. joined = one \/ \E v \in Text : joined = begun \o v
  <2>1. CASE joined = t
    BY <1>8, <2>1
  <2>2. ASSUME NEW v \in Seq(Plain), joined = t \o x \o v PROVE \E u \in Text : joined = begun \o u
    <3>1. v \in Text
      BY <1>3
    <3>2. CASE t = one
      BY <1>7, <2>2, <3>1, <3>2
    <3>3. ASSUME NEW u \in Text, t = begun \o u PROVE joined = begun \o (u \o x \o v) /\ u \o x \o v \in Text
      <4>1. \A p, q, r \in Text : (p \o q) \o r = p \o (q \o r)
        BY DEF Text
      <4>2. u \o x \in Text /\ u \o x \o v \in Text
        BY <1>7, <3>1
      <4>3. PICK q \in Text : q = u \o x
        BY <4>2
      <4>4. (begun \o u) \o x = begun \o (u \o x) /\ (begun \o q) \o v = begun \o (q \o v)
        <5>1. begun \in Text /\ x \in Text
          BY <1>7
        <5>2. (begun \o u) \o x = begun \o (u \o x)
          BY <4>1, <5>1, Zenon
        <5>3. (begun \o q) \o v = begun \o (q \o v)
          BY <3>1, <4>1, <5>1, Zenon
        <5>. QED BY <5>2, <5>3
      <4>. QED BY <2>2, <3>3, <4>2, <4>3, <4>4, Zenon
    <3>. QED BY <1>8, <3>2, <3>3, Zenon
  <2>. QED BY <1>6, <2>1, <2>2, Zenon
<1>10. BeginsWith(joined, w)
  BY <1>9 DEF BeginsWith, one, begun
<1>. QED BY <1>5, <1>10, FirstTokenOf

LEMMA MarkWords ==
  /\ {"kill", "password", "status"} \subseteq Atoms
  /\ \A w \in {"kill", "password", "status"} : w # Space /\ w # QuoteMark /\ <<w>> \notin BlockWords
<1>1. {"kill", "password", "status"} \subseteq Marks
  BY Zenon DEF Marks
<1>2. \A w \in {"kill", "password", "status"} : w # Space /\ w # QuoteMark
  BY Zenon DEF Space, QuoteMark
<1>3. \A w \in {"kill", "password", "status"} : <<w>> \notin BlockWords
  BY DEF BlockWords
<1>. QED BY <1>1, <1>2, <1>3, PlainTexts

LEMMA OneRendered ==
  ASSUME NEW t
  PROVE  Render(Piece("value", t)) = t
BY DEF Render, Piece

LEMMA FirstWord ==
  ASSUME NEW c, Built(c), c.op \notin Verbatim
  PROVE  \E w \in Atoms : /\ w # Space /\ w # QuoteMark /\ BeginsWith(Render(Pieces(c)[1]), w)
                          /\ <<w>> \in BlockWords <=> c.op \in Blocks
<1>1. CASE c.op = "KillAddress"
  <2>1. Pieces(c)[1] = Piece("value", <<"kill">>)
    BY <1>1, PiecesOfKill
  <2>2. c.op \notin Blocks
    BY <1>1, OpsApart
  <2>. QED BY <2>1, <2>2, MarkWords, OneRendered, Zenon DEF BeginsWith
<1>2. CASE c.op \in {"ChallengeResponse", "StaticChallengeResponse"}
  <2>1. PICK t \in Text : Pieces(c) = AuthPassword(t)
    BY <1>2, AnswerText
  <2>2. Pieces(c)[1] = Piece("value", <<"password">>)
    BY <2>1 DEF AuthPassword
  <2>3. c.op \notin Blocks
    BY <1>2, OpsApart
  <2>. QED BY <2>2, <2>3, MarkWords, OneRendered, Zenon DEF BeginsWith
<1>3. CASE c.op \in DOMAIN Forms
  <2>1. CASE c.op = "Status" /\ c.args = <<<<"1">>>>
    <3>1. Pieces(c) = <<Piece("value", <<"status">>)>>
      BY <1>3, <2>1, PiecesOfForm, Zenon
    <3>2. Pieces(c)[1] = Piece("value", <<"status">>)
      BY <3>1
    <3>3. c.op \notin Blocks
      BY <2>1 DEF Blocks
    <3>. QED BY <3>2, <3>3, MarkWords, OneRendered, Zenon DEF BeginsWith
  <2>2. CASE ~(c.op = "Status" /\ c.args = <<<<"1">>>>)
    <3>. DEFINE words == Forms[c.op].words
                w == words[1]
                u == words[3]
                rest == [i \in DOMAIN c.args |-> Piece(Forms[c.op].kinds[i], c.args[i])]
    <3>1. /\ w \in FirstWords /\ (<<w>> \in BlockWords <=> c.op \in Blocks)
          /\ words = <<w>> \/ (u \in ActionWords /\ words = <<w, Space, u>>)
      BY <1>3, FormsFit, Zenon DEF IsForm
    <3>2. Pieces(c) = <<Piece("value", words)>> \o rest
      BY <1>3, <2>2, PiecesOfForm, Zenon
    <3>3. Pieces(c)[1] = Piece("value", words)
      <4>1. rest \in Seq(PieceSet)
        <5>1. Len(c.args) \in Nat /\ DOMAIN c.args = 1..Len(c.args)
          <6>1. c.args \in Seq(Seq(STRING))
            BY DEF Built
          <6>. QED BY <6>1
        <5>2. \A i \in 1..Len(c.args) : Piece(Forms[c.op].kinds[i], c.args[i]) \in PieceSet
          BY <1>3, FormArgument DEF WordPieces
        <5>. DEFINE r(i) == Piece(Forms[c.op].kinds[i], c.args[i])
        <5>3. rest = [i \in 1..Len(c.args) |-> r(i)]
          BY <5>1, Zenon
        <5>. HIDE DEF r
        <5>4. \A i \in 1..Len(c.args) : r(i) \in PieceSet
          BY <5>2 DEF r
        <5>. QED BY <5>1, <5>3, <5>4, IsASeq
      <4>. DEFINE p == Piece("value", words)
      <4>2. p \in PieceSet
        BY <1>3, WordsSafe, PieceIn
      <4>. HIDE DEF p, rest
      <4>3. (<<p>> \o rest)[1] = p
        BY <4>1, <4>2
      <4>. QED BY <3>2, <4>3 DEF p
    <3>. HIDE DEF words, w, u, rest
    <3>4. w \in Atoms /\ w # Space /\ w # QuoteMark
      <4>1. w \in Atoms /\ w \notin ValueUnsafe \cup {" "}
        BY <3>1, WordsPlain
      <4>. QED BY <4>1, Zenon DEF ValueUnsafe, Space, QuoteMark
    <3>5. BeginsWith(words, w)
      <4>1. CASE u \in ActionWords /\ words = <<w, Space, u>>
        <5>1. u \in Atoms
          BY <4>1, WordsPlain
        <5>2. <<u>> \in Text /\ <<w, Space, u>> = Append(<<w>>, Space) \o <<u>>
          BY <3>4, <5>1, SpaceIs, ThreeOf DEF Text
        <5>. QED BY <4>1, <5>2, Zenon DEF BeginsWith
      <4>. QED BY <3>1, <4>1 DEF BeginsWith
    <3>6. Render(Pieces(c)[1]) = words
      BY <3>3, OneRendered
    <3>. QED BY <3>1, <3>4, <3>5, <3>6
  <2>. QED BY <2>1, <2>2
<1>4. c.op \in DOMAIN Forms \cup Verbatim \cup {"KillAddress", "ChallengeResponse", "StaticChallengeResponse"}
  BY DEF Built
<1>. QED BY <1>1, <1>2, <1>3, <1>4

\* The server takes the line of a command for the header of a block if it is one.
LEMMA HeaderTells ==
  ASSUME NEW c, Whole(c), ~OpensBlock(c)
  PROVE  Tokens(Line(c)) # <<>> /\ Tokens(Line(c))[1] \in BlockWords <=> c.op \in Blocks
<1>1. CASE c.op \in Verbatim
  <2>1. c.op \notin Blocks
    BY <1>1, OpsApart
  <2>. QED BY <1>1, <2>1 DEF OpensBlock
<1>2. CASE c.op \notin Verbatim
  <2>1. PICK w \in Atoms : /\ w # Space /\ w # QuoteMark /\ BeginsWith(Render(Pieces(c)[1]), w)
                           /\ <<w>> \in BlockWords <=> c.op \in Blocks
    BY <1>2, FirstWord DEF Whole
  <2>2. Tokens(Line(c)) # <<>> /\ Tokens(Line(c))[1] = <<w>>
    BY <2>1, LineBegins
  <2>. QED BY <2>1, <2>2
<1>. QED BY <1>1, <1>2

-----------------------------------------------------------------------------
(***************************************************************************)
(* Blocks.  No line of a body ends its line, and none is END.              *)
(***************************************************************************)
NewLine == "\n"
Ended(t) == Append(t, NewLine)

LEMMA WriteLineIs ==
  ASSUME NEW t \in Text
  PROVE  WriteLine(t) = Ended(t) /\ Ended(t) \in Text
<1>1. NewLine \in Atoms
  <2>1. NewLine \in Marks
    BY Zenon DEF Marks, NewLine
  <2>. QED BY <2>1, PlainTexts
<1>2. Append(t, NewLine) \in Text /\ Append(t, NewLine) = t \o <<NewLine>>
  BY <1>1, TextsAppend
<1>. QED BY <1>2, Zenon DEF WriteLine, Ended, NewLine

LEMMA EndLinePlain == EndLine \in Seq(Plain) /\ EndLine \in Text /\ <<Space, "END">> \in Seq(Plain) /\ <<Space, "END">> # EndLine
<1>1. "END" \in Plain /\ Space \in Plain
  <2>1. "END" \in Marks \ WireUnsafe
    BY Zenon DEF Marks, WireUnsafe
  <2>. QED BY <2>1, SpaceIs, PlainTexts
<1>2. EndLine \in Seq(Plain) /\ <<Space, "END">> \in Seq(Plain)
  BY <1>1 DEF EndLine
<1>3. <<Space, "END">> # EndLine
  BY DEF EndLine
<1>. QED BY <1>2, <1>3, PlainTexts

LEMMA BodyLinePlain ==
  ASSUME NEW l \in Text
  PROVE  BodyLine(l) \in Seq(Plain) /\ BodyLine(l) \in Text /\ BodyLine(l) # EndLine
<1>1. BodyLine(l) = IF Safe(l) = EndLine THEN <<Space, "END">> ELSE Safe(l)
  BY Zenon DEF BodyLine, Space
<1>2. Safe(l) \in Seq(Plain)
  BY SafePlain
<1>. QED BY <1>1, <1>2, EndLinePlain, PlainTexts

BodyBytes(l) == WriteLine(BodyLine(l))

LEMMA BodyBytesAre ==
  ASSUME NEW l \in Text
  PROVE  BodyBytes(l) = Ended(BodyLine(l)) /\ BodyBytes(l) \in Text
BY BodyLinePlain, WriteLineIs DEF BodyBytes

BodyStep == [y \in Text \X Text |-> y[1] \o BodyBytes(y[2])]
BodyAfter(base, ls) == Fold(LAMBDA w, l : w \o WriteLine(BodyLine(l)), base, ls)

LEMMA TextConcat ==
  ASSUME NEW s \in Text, NEW t \in Text
  PROVE  s \o t \in Text
BY ConcatIs DEF Text

LEMMA BodyStepIs == IsStep(BodyStep, Text, Text)
<1>1. \A s, t \in Text : s \o BodyBytes(t) \in Text
  BY BodyBytesAre, TextConcat
<1>. QED BY <1>1 DEF IsStep, BodyStep

LEMMA BodyIsValue ==
  ASSUME NEW base \in Text, NEW ls \in Seq(Text)
  PROVE  BodyAfter(base, ls) = Value(Text, BodyStep, base, ls)
<1>. DEFINE Run(f) == f = [i \in 0..Len(ls) |-> IF i = 0 THEN base ELSE f[i - 1] \o BodyBytes(ls[i])]
            g == CHOOSE f : Run(f)
<1>1. IsStep(BodyStep, Text, Text) /\ base \in Text
  BY BodyStepIs
<1>2. PICK f \in [0..Len(ls) -> Text] : IsRun(f, BodyStep, base, ls)
  BY <1>1, RunExists
<1>3. Run(f)
  <2>1. ASSUME NEW i \in 1..Len(ls) PROVE f[i] = f[i - 1] \o BodyBytes(ls[i])
    <3>1. <<f[i - 1], ls[i]>> \in Text \X Text
      OBVIOUS
    <3>2. f[i] = BodyStep[<<f[i - 1], ls[i]>>]
      BY <1>2 DEF IsRun
    <3>. QED BY <3>1, <3>2 DEF BodyStep
  <2>2. f[0] = base
    BY <1>2 DEF IsRun
  <2>3. ASSUME NEW i \in 0..Len(ls)
        PROVE  f[i] = IF i = 0 THEN base ELSE f[i - 1] \o BodyBytes(ls[i])
    <3>1. i = 0 \/ i \in 1..Len(ls)
      OBVIOUS
    <3>. QED BY <2>1, <2>2, <3>1
  <2>. QED BY <2>3
<1>4. Run(g)
  BY <1>3
<1>5. BodyAfter(base, ls) = g[Len(ls)]
  BY DEF BodyAfter, Fold, BodyBytes
<1>. HIDE DEF g
<1>6. g[0] = base
  BY <1>4
<1>7. ASSUME NEW i \in 1..Len(ls), g[i - 1] \in Text
      PROVE  g[i] = BodyStep[<<g[i - 1], ls[i]>>]
  <2>1. g[i] = g[i - 1] \o BodyBytes(ls[i])
    <3>1. i \in 0..Len(ls) /\ i # 0
      OBVIOUS
    <3>. QED BY <1>4, <3>1, Zenon
  <2>2. <<g[i - 1], ls[i]>> \in Text \X Text
    BY <1>7
  <2>. HIDE DEF Run
  <2>. QED BY <2>1, <2>2 DEF BodyStep
<1>. HIDE DEF Run
<1>8. g[Len(ls)] = Value(Text, BodyStep, base, ls)
  <2>. DEFINE states == Text
              step == BodyStep
              first == base
  <2>1. IsStep(step, states, Text) /\ first \in states /\ g[0] = first
        /\ \A i \in 1..Len(ls) : g[i - 1] \in states => g[i] = step[<<g[i - 1], ls[i]>>]
    BY <1>1, <1>6, <1>7
  <2>. HIDE DEF states, step, first
  <2>2. g[Len(ls)] = Value(states, step, first, ls)
    BY <2>1, RunIsValue
  <2>. QED BY <2>2 DEF states, step, first
<1>. QED BY <1>5, <1>8

LEMMA BodyAppend ==
  ASSUME NEW base \in Text, NEW ls \in Seq(Text), NEW l \in Text
  PROVE  /\ BodyAfter(base, <<>>) = base /\ BodyAfter(base, ls) \in Text
         /\ BodyAfter(base, Append(ls, l)) = BodyAfter(base, ls) \o BodyBytes(l)
<1>1. /\ Value(Text, BodyStep, base, <<>>) = base
      /\ \A s \in Seq(Text) : Value(Text, BodyStep, base, s) \in Text
      /\ \A s \in Seq(Text), y \in Text : Value(Text, BodyStep, base, Append(s, y))
                                            = BodyStep[<<Value(Text, BodyStep, base, s), y>>]
  BY BodyStepIs, ValueFacts
<1>2. \A s \in Seq(Text) : BodyAfter(base, s) = Value(Text, BodyStep, base, s)
  BY BodyIsValue
<1>3. Append(ls, l) \in Seq(Text) /\ <<>> \in Seq(Text)
  OBVIOUS
<1>4. BodyAfter(base, ls) \in Text /\ BodyAfter(base, Append(ls, l)) = BodyStep[<<BodyAfter(base, ls), l>>]
  BY <1>1, <1>2, <1>3
<1>. QED BY <1>1, <1>2, <1>3, <1>4 DEF BodyStep

LEMMA BodyIn ==
  ASSUME NEW c, Built(c)
  PROVE  c.body \in Seq(Text) /\ Len(c.body) \in Nat /\ \A i \in 1..Len(c.body) : c.body[i] \in Text
<1>. DEFINE Strings == Seq(STRING)
<1>1. c.body \in Seq(Strings)
  BY DEF Built
<1>2. Strings \subseteq Text
  BY StringText
<1>. HIDE DEF Strings
<1>3. c.body \in Seq(Text)
  BY <1>1, <1>2, SeqMonotonic
<1>. QED BY <1>3

\* The header, and one line more.
LEMMA WriteLinesAre ==
  ASSUME NEW c, Built(c), NEW n \in 0..Len(c.body)
  PROVE  /\ WriteLines(c, n) \in Text /\ WriteLines(c, 0) = Ended(Line(c))
         /\ n < Len(c.body) => WriteLines(c, n + 1) = WriteLines(c, n) \o Ended(BodyLine(c.body[n + 1]))
<1>1. Line(c) \in Text
  BY LineIn
<1>2. WriteLine(Line(c)) = Ended(Line(c)) /\ WriteLine(Line(c)) \in Text
  BY <1>1, WriteLineIs
<1>. DEFINE base == WriteLine(Line(c))
            body == c.body
<1>3. \A m : WriteLines(c, m) = BodyAfter(base, SubSeq(body, 1, m))
  BY DEF WriteLines, BodyAfter
<1>4. body \in Seq(Text) /\ n \in 0..Len(body)
  BY BodyIn
<1>5. base \in Text
  BY <1>2
<1>. HIDE DEF base, body
<1>6. SubSeq(body, 1, n) \in Seq(Text) /\ SubSeq(body, 1, 0) = <<>>
  BY <1>4
<1>7. n < Len(body) => SubSeq(body, 1, n + 1) = Append(SubSeq(body, 1, n), body[n + 1]) /\ body[n + 1] \in Text
  BY <1>4
<1>8. ASSUME n < Len(body) PROVE WriteLines(c, n + 1) = WriteLines(c, n) \o Ended(BodyLine(body[n + 1]))
  <2>1. BodyAfter(base, SubSeq(body, 1, n + 1)) = BodyAfter(base, SubSeq(body, 1, n)) \o BodyBytes(body[n + 1])
    <3>1. PICK front \in Seq(Text), l \in Text : front = SubSeq(body, 1, n) /\ l = body[n + 1]
      BY <1>6, <1>7, <1>8
    <3>2. BodyAfter(base, Append(front, l)) = BodyAfter(base, front) \o BodyBytes(l)
      BY <1>5, BodyAppend
    <3>. QED BY <1>7, <1>8, <3>1, <3>2, Zenon
  <2>. QED BY <1>3, <1>7, <1>8, <2>1, BodyBytesAre
<1>9. WriteLines(c, n) \in Text /\ WriteLines(c, 0) = base
  <2>1. <<>> \in Text /\ <<>> \in Seq(Text)
    BY OneIn DEF Text
  <2>. QED BY <1>3, <1>5, <1>6, <2>1, BodyAppend
<1>. QED BY <1>2, <1>8, <1>9 DEF base, body

-----------------------------------------------------------------------------
(***************************************************************************)
(* The lines of a command in its bytes.                                    *)
(***************************************************************************)
\* bytes has the line l, and its end, after the first at of it.
HasLine(bytes, at, l) ==
  /\ at \in Nat /\ l \in Seq(Plain) /\ at + Len(l) + 1 <= Len(bytes)
  /\ \A i \in 1..Len(l) : bytes[at + i] = l[i]
  /\ bytes[at + Len(l) + 1] = NewLine

Extends(t, s) == Len(s) <= Len(t) /\ \A i \in 1..Len(s) : t[i] = s[i]

LEMMA PlainLength ==
  ASSUME NEW l \in Seq(Plain)
  PROVE  Len(l) \in Nat /\ l \in Text
<1>1. Len(l) \in Nat
  OBVIOUS
<1>. QED BY <1>1, PlainTexts

LEMMA LineEnds ==
  ASSUME NEW t \in Text, NEW l \in Seq(Plain)
  PROVE  /\ t \o Ended(l) \in Text /\ HasLine(t \o Ended(l), Len(t), l) /\ Extends(t \o Ended(l), t)
         /\ Len(t \o Ended(l)) = Len(t) + Len(l) + 1
<1>1. l \in Text /\ Len(l) \in Nat /\ Len(t) \in Nat
  BY PlainLength DEF Text
<1>2. Ended(l) \in Text
  BY <1>1, WriteLineIs
<1>3. Len(Ended(l)) = Len(l) + 1 /\ Ended(l)[Len(l) + 1] = NewLine /\ \A i \in 1..Len(l) : Ended(l)[i] = l[i]
  BY <1>1 DEF Ended, Text
<1>. DEFINE e == Ended(l)
<1>4. e \in Text /\ Len(e) = Len(l) + 1 /\ e[Len(l) + 1] = NewLine /\ \A i \in 1..Len(l) : e[i] = l[i]
  BY <1>2, <1>3
<1>. HIDE DEF e
<1>5. /\ t \o e \in Text /\ Len(t \o e) = Len(t) + Len(e)
      /\ \A i \in 1..Len(t) : (t \o e)[i] = t[i]
      /\ \A i \in 1..Len(e) : (t \o e)[Len(t) + i] = e[i]
  <2>1. t \in Seq(Atoms) /\ e \in Seq(Atoms)
    BY <1>4 DEF Text
  <2>2. t \o e \in Text
    BY <1>4, TextConcat
  <2>. QED BY <2>1, <2>2, ConcatIs
<1>. DEFINE te == t \o e
<1>. HIDE DEF te
<1>6. /\ Len(te) = Len(t) + (Len(l) + 1) /\ \A i \in 1..Len(l) : te[Len(t) + i] = l[i]
      /\ te[Len(t) + (Len(l) + 1)] = NewLine
  <2>1. \A i \in 1..Len(l) : i \in 1..Len(e)
    BY <1>1, <1>4
  <2>2. Len(l) + 1 \in 1..Len(e)
    BY <1>1, <1>4
  <2>. QED BY <1>4, <1>5, <2>1, <2>2 DEF te
<1>7. HasLine(te, Len(t), l)
  <2>1. Len(t) + (Len(l) + 1) = Len(t) + Len(l) + 1
    BY <1>1
  <2>. QED BY <1>1, <1>6, <2>1 DEF HasLine
<1>8. Extends(te, t)
  BY <1>1, <1>5, <1>6 DEF Extends, te
<1>9. Len(te) = Len(t) + Len(l) + 1
  BY <1>1, <1>6
<1>. QED BY <1>5, <1>7, <1>8, <1>9 DEF te, e

LEMMA ExtendsAll ==
  ASSUME NEW s \in Text, NEW t \in Text, NEW u \in Text, Extends(t, s), Extends(u, t)
  PROVE  Extends(u, s)
<1>1. Len(s) \in Nat /\ Len(t) \in Nat /\ Len(u) \in Nat
  BY DEF Text
<1>. QED BY <1>1 DEF Extends

LEMMA ExtendsSelf ==
  ASSUME NEW s \in Text
  PROVE  Extends(s, s)
BY DEF Extends, Text

LEMMA LineKept ==
  ASSUME NEW s \in Text, NEW t \in Text, Extends(t, s), NEW at, NEW l, HasLine(s, at, l)
  PROVE  HasLine(t, at, l)
<1>1. Len(s) \in Nat /\ Len(t) \in Nat /\ at \in Nat /\ Len(l) \in Nat
  BY PlainLength DEF Text, HasLine
<1>2. \A i \in 1..Len(l) : at + i \in 1..Len(s)
  BY <1>1 DEF HasLine
<1>3. at + Len(l) + 1 \in 1..Len(s)
  BY <1>1 DEF HasLine
<1>. QED BY <1>1, <1>2, <1>3 DEF HasLine, Extends

LEMMA WriteLinesExtend ==
  ASSUME NEW c, Built(c), NEW n \in 0..Len(c.body)
  PROVE  Extends(WriteLines(c, Len(c.body)), WriteLines(c, n))
<1>. DEFINE last == Len(c.body)
            S == {m \in 0..last : n <= m => Extends(WriteLines(c, m), WriteLines(c, n))}
<1>1. last \in Nat /\ n \in 0..last
  BY BodyIn
<1>. HIDE DEF last
<1>2. \A m \in 0..last : WriteLines(c, m) \in Text
  BY <1>1, WriteLinesAre DEF last
<1>3. 0 \in S
  <2>1. n <= 0 => n = 0
    BY <1>1
  <2>. QED BY <1>1, <1>2, <2>1, ExtendsSelf
<1>4. ASSUME NEW m \in 0..last - 1, m \in S PROVE m + 1 \in S
  <2>1. m \in 0..last /\ m + 1 \in 0..last /\ (n <= m + 1 => n <= m \/ n = m + 1)
    BY <1>1
  <2>2. CASE n = m + 1
    BY <1>2, <2>1, <2>2, ExtendsSelf
  <2>3. CASE n <= m
    <3>1. c.body[m + 1] \in Text
      <4>1. m + 1 \in 1..Len(c.body)
        BY <1>1 DEF last
      <4>. QED BY <4>1, BodyIn
    <3>2. WriteLines(c, m + 1) = WriteLines(c, m) \o Ended(BodyLine(c.body[m + 1]))
      <4>1. m < Len(c.body) /\ m \in 0..Len(c.body)
        BY <1>1, <2>1 DEF last
      <4>. QED BY <4>1, WriteLinesAre
    <3>3. Extends(WriteLines(c, m + 1), WriteLines(c, m))
      BY <1>2, <2>1, <3>1, <3>2, BodyLinePlain, LineEnds
    <3>4. Extends(WriteLines(c, m), WriteLines(c, n))
      BY <1>4, <2>3
    <3>5. Extends(WriteLines(c, m + 1), WriteLines(c, n))
      BY <1>1, <1>2, <2>1, <3>3, <3>4, ExtendsAll
    <3>. QED BY <2>1, <3>5
  <2>. QED BY <2>1, <2>2, <2>3
<1>. HIDE DEF S
<1>5. last \in S
  <2>1. \A m \in 0..last : m \in S
    BY <1>1, <1>3, <1>4, UpTo, Zenon
  <2>. QED BY <1>1, <2>1
<1>. QED BY <1>1, <1>5 DEF S, last

\* The lines of a command that has no body, and of one that has.
LEMMA LinesOfOne ==
  ASSUME NEW c, Whole(c), c.op \notin Blocks
  PROVE  /\ Written(c) \in Text /\ HasLine(Written(c), 0, Line(c)) /\ Len(Written(c)) = Len(Line(c)) + 1
         /\ c.body = <<>>
<1>1. Line(c) \in Seq(Plain) /\ Line(c) \in Text /\ Len(Line(c)) \in Nat
  BY LinePlain, PlainLength
<1>2. Written(c) = Ended(Line(c)) /\ Ended(Line(c)) \in Text
  BY <1>1, WriteLineIs DEF Written
<1>3. <<>> \in Text /\ Len(<<>>) = 0 /\ <<>> \o Ended(Line(c)) = Ended(Line(c))
  BY <1>2 DEF Text
<1>4. HasLine(Ended(Line(c)), 0, Line(c)) /\ Len(Ended(Line(c))) = 0 + Len(Line(c)) + 1
  BY <1>1, <1>3, LineEnds
<1>5. c.body = <<>>
  BY DEF Whole, Built
<1>. QED BY <1>1, <1>2, <1>4, <1>5

LEMMA LinesOfBlock ==
  ASSUME NEW c, Built(c), c.op \in Blocks, NEW n \in 0..Len(c.body)
  PROVE  /\ Written(c) \in Text /\ HasLine(Written(c), 0, Line(c)) /\ Len(WriteLines(c, 0)) = Len(Line(c)) + 1
         /\ WriteLines(c, n) \in Text
         /\ n < Len(c.body) => /\ HasLine(Written(c), Len(WriteLines(c, n)), BodyLine(c.body[n + 1]))
                               /\ Len(WriteLines(c, n + 1)) = Len(WriteLines(c, n)) + Len(BodyLine(c.body[n + 1])) + 1
         /\ n = Len(c.body) => /\ HasLine(Written(c), Len(WriteLines(c, n)), EndLine)
                               /\ Len(Written(c)) = Len(WriteLines(c, n)) + Len(EndLine) + 1
<1>. DEFINE last == Len(c.body)
            header == WriteLines(c, last)
<1>1. last \in Nat /\ n \in 0..last /\ 0 \in 0..last /\ last \in 0..last
  BY BodyIn
<1>2. \A m \in 0..last : WriteLines(c, m) \in Text
  BY WriteLinesAre
<1>3. Written(c) = header \o Ended(EndLine) /\ header \in Text
  BY <1>1, <1>2, EndLinePlain, WriteLineIs DEF Written
<1>4. Written(c) \in Text /\ HasLine(Written(c), Len(header), EndLine) /\ Extends(Written(c), header)
      /\ Len(Written(c)) = Len(header) + Len(EndLine) + 1
  <2>. HIDE DEF header
  <2>. QED BY <1>3, EndLinePlain, LineEnds
<1>5. \A m \in 0..last : Extends(Written(c), WriteLines(c, m))
  BY <1>2, <1>3, <1>4, WriteLinesExtend, ExtendsAll
<1>. HIDE DEF header
<1>6. HasLine(Written(c), 0, Line(c)) /\ Len(WriteLines(c, 0)) = Len(Line(c)) + 1
  <2>1. Line(c) \in Seq(Plain) /\ Line(c) \in Text /\ Len(Line(c)) \in Nat
    BY BlockWhole, LinePlain, PlainLength
  <2>2. WriteLines(c, 0) = Ended(Line(c)) /\ Ended(Line(c)) \in Text
    BY <1>1, <2>1, WriteLinesAre, WriteLineIs
  <2>3. <<>> \in Text /\ Len(<<>>) = 0 /\ <<>> \o Ended(Line(c)) = Ended(Line(c))
    BY <2>2 DEF Text
  <2>4. HasLine(Ended(Line(c)), 0, Line(c)) /\ Len(Ended(Line(c))) = 0 + Len(Line(c)) + 1
    BY <2>1, <2>3, LineEnds
  <2>5. HasLine(Written(c), 0, Line(c))
    BY <1>1, <1>2, <1>4, <1>5, <2>2, <2>4, LineKept
  <2>. QED BY <2>1, <2>2, <2>4, <2>5
<1>7. ASSUME n < last
      PROVE  /\ HasLine(Written(c), Len(WriteLines(c, n)), BodyLine(c.body[n + 1]))
             /\ Len(WriteLines(c, n + 1)) = Len(WriteLines(c, n)) + Len(BodyLine(c.body[n + 1])) + 1
  <2>1. n + 1 \in 1..last /\ n + 1 \in 0..last
    BY <1>1, <1>7
  <2>2. c.body[n + 1] \in Text
    BY <2>1, BodyIn
  <2>3. BodyLine(c.body[n + 1]) \in Seq(Plain)
    BY <2>2, BodyLinePlain
  <2>4. WriteLines(c, n + 1) = WriteLines(c, n) \o Ended(BodyLine(c.body[n + 1]))
    BY <1>7, WriteLinesAre
  <2>5. HasLine(WriteLines(c, n + 1), Len(WriteLines(c, n)), BodyLine(c.body[n + 1]))
        /\ Len(WriteLines(c, n + 1)) = Len(WriteLines(c, n)) + Len(BodyLine(c.body[n + 1])) + 1
    BY <1>1, <1>2, <2>3, <2>4, LineEnds
  <2>6. HasLine(Written(c), Len(WriteLines(c, n)), BodyLine(c.body[n + 1]))
    BY <1>2, <1>4, <1>5, <2>1, <2>5, LineKept
  <2>. QED BY <2>5, <2>6
<1>8. n = last => HasLine(Written(c), Len(WriteLines(c, n)), EndLine)
                  /\ Len(Written(c)) = Len(WriteLines(c, n)) + Len(EndLine) + 1
  BY <1>4 DEF header
<1>. QED BY <1>1, <1>2, <1>4, <1>6, <1>7, <1>8

-----------------------------------------------------------------------------
(***************************************************************************)
(* The bytes on the wire, as the server reads them.                        *)
(***************************************************************************)
LEMMA EndedIs ==
  ASSUME NEW u \in Text, NEW w \in Text
  PROVE  /\ Ended(u) \in Text /\ Last(Ended(u)) = NewLine /\ Len(Ended(u)) = Len(u) + 1 /\ Len(u) \in Nat
         /\ w \o Ended(u) = Ended(w \o u) /\ w \o u \in Text
<1>1. NewLine \in Atoms
  <2>1. NewLine \in Marks
    BY Zenon DEF Marks, NewLine
  <2>. QED BY <2>1, PlainTexts
<1>2. Ended(u) \in Text /\ Len(Ended(u)) = Len(u) + 1 /\ Ended(u)[Len(u) + 1] = NewLine /\ Len(u) \in Nat
  BY <1>1 DEF Ended, Text
<1>3. Last(Ended(u)) = NewLine
  BY <1>2 DEF Last
<1>4. w \o Ended(u) = Ended(w \o u)
  BY <1>1 DEF Ended, Text
<1>. QED BY <1>2, <1>3, <1>4, TextConcat

LEMMA NextLineIs ==
  ASSUME wire \in Text, read \in Nat, NEW l, HasLine(wire, read, l)
  PROVE  NextLine = l
<1>. DEFINE last == read + Len(l) + 1
            IsStop(i) == wire[i] = NewLine /\ \A j \in read + 1..i - 1 : wire[j] # NewLine
            stop == CHOOSE i \in read + 1..Len(wire) : IsStop(i)
<1>1. Len(wire) \in Nat /\ Len(l) \in Nat /\ l \in Seq(Plain) /\ l \in Text
  BY PlainLength DEF Text, HasLine
<1>2. last \in read + 1..Len(wire) /\ wire[last] = NewLine
  BY <1>1 DEF HasLine
<1>3. \A i \in 1..Len(l) : wire[read + i] = l[i] /\ l[i] # NewLine
  <2>1. \A x \in Plain : x # NewLine
    BY Zenon DEF Plain, WireUnsafe, NewLine
  <2>2. \A i \in 1..Len(l) : l[i] \in Plain
    BY <1>1
  <2>. QED BY <2>1, <2>2 DEF HasLine
<1>4. \A j \in read + 1..last - 1 : wire[j] # NewLine
  <2>1. ASSUME NEW j \in read + 1..last - 1 PROVE wire[j] # NewLine
    <3>1. j - read \in 1..Len(l) /\ read + (j - read) = j
      BY <1>1
    <3>. QED BY <1>3, <3>1
  <2>. QED BY <2>1
<1>5. IsStop(last)
  BY <1>2, <1>4
<1>6. stop \in read + 1..Len(wire) /\ IsStop(stop)
  <2>. HIDE DEF IsStop, last
  <2>. QED BY <1>2, <1>5
<1>7. NextLine = SubSeq(wire, read + 1, stop - 1)
  BY Zenon DEF NextLine, NewLine
<1>. HIDE DEF stop
<1>8. stop = last
  <2>1. ~(stop < last)
    <3>1. stop < last => stop \in read + 1..last - 1
      BY <1>1, <1>6
    <3>. QED BY <1>4, <1>6, <3>1
  <2>2. ~(last < stop)
    <3>1. last < stop => last \in read + 1..stop - 1
      BY <1>1, <1>2, <1>6
    <3>. QED BY <1>2, <1>6, <3>1
  <2>. QED BY <1>1, <1>6, <2>1, <2>2
<1>9. SubSeq(wire, read + 1, last - 1) = l
  <2>. DEFINE part == SubSeq(wire, read + 1, read + Len(l))
  <2>1. part \in Text /\ Len(part) = Len(l) /\ \A i \in 1..Len(l) : part[i] = wire[read + i]
    <3>1. read + 1 \in Nat /\ read + Len(l) <= Len(wire) /\ read + Len(l) \in Nat
      BY <1>1, <1>2
    <3>. QED BY <1>1, <3>1, SMTT(30) DEF Text
  <2>2. last - 1 = read + Len(l)
    BY <1>1
  <2>. HIDE DEF part
  <2>3. part = l
    <3>1. \A i \in 1..Len(l) : part[i] = l[i]
      BY <1>3, <2>1
    <3>. QED BY <1>1, <2>1, <3>1 DEF Text
  <2>. QED BY <2>2, <2>3 DEF part
<1>. QED BY <1>7, <1>8, <1>9

LEMMA NextLineAny ==
  ASSUME wire \in Text, read \in Nat, read < Len(wire), Last(wire) = "\n"
  PROVE  NextLine \in Text /\ read + Len(NextLine) + 1 \in 0..Len(wire)
<1>. DEFINE Stops == {i \in read + 1..Len(wire) : wire[i] = NewLine}
            IsStop(i) == wire[i] = NewLine /\ \A j \in read + 1..i - 1 : wire[j] # NewLine
            stop == CHOOSE i \in read + 1..Len(wire) : IsStop(i)
<1>1. Len(wire) \in Nat /\ wire[Len(wire)] = NewLine
  BY DEF Last, NewLine, Text
<1>2. Stops \subseteq Nat /\ Stops # {}
  <2>1. Len(wire) \in Stops
    BY <1>1
  <2>. QED BY <1>1, <2>1
<1>3. PICK first \in Stops : \A i \in Stops : first <= i
  <2>. HIDE DEF Stops
  <2>. QED BY <1>2, LeastOf
<1>4. first \in read + 1..Len(wire) /\ IsStop(first)
  <2>1. ASSUME NEW j \in read + 1..first - 1 PROVE wire[j] # NewLine
    <3>1. j \in read + 1..Len(wire) /\ ~(first <= j)
      BY <1>1
    <3>. QED BY <1>3, <3>1
  <2>. QED BY <2>1
<1>5. stop \in read + 1..Len(wire) /\ IsStop(stop)
  <2>. HIDE DEF IsStop
  <2>. QED BY <1>4
<1>6. NextLine = SubSeq(wire, read + 1, stop - 1)
  BY Zenon DEF NextLine, NewLine
<1>. HIDE DEF stop
<1>7. SubSeq(wire, read + 1, stop - 1) \in Text /\ Len(SubSeq(wire, read + 1, stop - 1)) = stop - 1 - read
  <2>1. read + 1 \in Nat /\ stop - 1 \in Nat /\ stop - 1 <= Len(wire) /\ read <= stop - 1
    BY <1>1, <1>5
  <2>. QED BY <2>1 DEF Text
<1>8. read + (stop - 1 - read) + 1 \in 0..Len(wire)
  BY <1>1, <1>5
<1>. QED BY <1>6, <1>7, <1>8

\* What encode writes ends with a line end, whether or not it is broken off.
LEMMA WrittenEnds ==
  ASSUME NEW c, Built(c)
  PROVE  \E t \in Text : Written(c) = Ended(t)
<1>1. Line(c) \in Text
  BY LineIn
<1>2. WriteLines(c, Len(c.body)) \in Text
  <2>1. Len(c.body) \in 0..Len(c.body)
    BY BodyIn
  <2>. QED BY <2>1, WriteLinesAre
<1>3. WriteLines(c, Len(c.body)) \o WriteLine(EndLine) = Ended(WriteLines(c, Len(c.body)) \o EndLine)
      /\ WriteLines(c, Len(c.body)) \o EndLine \in Text
  BY <1>2, EndLinePlain, WriteLineIs, EndedIs
<1>4. WriteLine(Line(c)) = Ended(Line(c))
  BY <1>1, WriteLineIs
<1>. QED BY <1>1, <1>3, <1>4 DEF Written

LEMMA LinesEnd ==
  ASSUME NEW c, Built(c), NEW n \in 0..Len(c.body)
  PROVE  \E t \in Text : WriteLines(c, n) = Ended(t)
<1>1. Line(c) \in Text /\ Len(c.body) \in Nat
  BY LineIn, BodyIn
<1>2. CASE n = 0
  <2>1. WriteLines(c, 0) = Ended(Line(c))
    BY <1>2, WriteLinesAre
  <2>. QED BY <1>1, <1>2, <2>1
<1>3. CASE n # 0
  <2>1. n - 1 \in 0..Len(c.body) /\ n - 1 < Len(c.body) /\ n - 1 + 1 = n /\ n \in 1..Len(c.body)
    BY <1>1, <1>3
  <2>2. c.body[n] \in Text
    BY <2>1, BodyIn
  <2>3. WriteLines(c, n) = WriteLines(c, n - 1) \o Ended(BodyLine(c.body[n])) /\ WriteLines(c, n - 1) \in Text
    BY <2>1, WriteLinesAre
  <2>4. BodyLine(c.body[n]) \in Text
    BY <2>2, BodyLinePlain
  <2>5. PICK front \in Text, l \in Text : front = WriteLines(c, n - 1) /\ l = BodyLine(c.body[n])
    BY <2>3, <2>4
  <2>6. front \o Ended(l) = Ended(front \o l) /\ front \o l \in Text
    BY EndedIs
  <2>. QED BY <2>3, <2>5, <2>6, Zenon
<1>. QED BY <1>2, <1>3

IsGood(c, n) ==
  (\A i \in 1..n : ~RejectsLine(c.body[i])) /\ (n < Len(c.body) => RejectsLine(c.body[n + 1]))

LEMMA BlockIs ==
  ASSUME NEW c, Built(c)
  PROVE  /\ \E t \in Text : WriteBlock(c) = Ended(t)
         /\ ~RejectsBody(c) => WriteBlock(c) = WriteLines(c, Len(c.body)) \o WriteLine(EndLine)
<1>. DEFINE good == CHOOSE n \in 0..Len(c.body) : IsGood(c, n)
            Ends == {n \in 0..Len(c.body) : n = Len(c.body) \/ RejectsLine(c.body[n + 1])}
<1>1. Len(c.body) \in Nat /\ DOMAIN c.body = 1..Len(c.body)
  BY BodyIn
<1>2. \E n \in 0..Len(c.body) : IsGood(c, n)
  <2>1. Ends \subseteq Nat /\ Ends # {}
    <3>1. Len(c.body) \in Ends
      BY <1>1
    <3>. QED BY <1>1, <3>1
  <2>2. PICK n \in Ends : \A m \in Ends : n <= m
    <3>. HIDE DEF Ends
    <3>. QED BY <2>1, LeastOf
  <2>3. n \in 0..Len(c.body) /\ (n < Len(c.body) => RejectsLine(c.body[n + 1]))
    BY <1>1
  <2>4. ASSUME NEW i \in 1..n PROVE ~RejectsLine(c.body[i])
    <3>1. i - 1 \in 0..Len(c.body) /\ ~(n <= i - 1) /\ i - 1 + 1 = i
      BY <1>1, <2>3
    <3>2. i - 1 \notin Ends
      BY <2>2, <3>1
    <3>. QED BY <3>1, <3>2
  <2>. QED BY <2>3, <2>4 DEF IsGood
<1>3. good \in 0..Len(c.body) /\ IsGood(c, good)
  BY <1>2
<1>4. WriteBlock(c) = WriteLines(c, good) \o (IF good = Len(c.body) THEN WriteLine(EndLine) ELSE <<>>)
  BY Zenon DEF WriteBlock, IsGood
<1>. HIDE DEF good
<1>5. PICK t \in Text : WriteLines(c, good) = Ended(t)
  BY <1>3, LinesEnd
<1>6. Ended(t) \in Text
  BY EndedIs
<1>7. \E u \in Text : WriteBlock(c) = Ended(u)
  <2>1. CASE good = Len(c.body)
    <3>1. WriteBlock(c) = Ended(t) \o Ended(EndLine)
      BY <1>4, <1>5, <2>1, EndLinePlain, WriteLineIs
    <3>2. PICK front \in Text, l \in Text : front = Ended(t) /\ l = EndLine
      BY <1>6, EndLinePlain
    <3>3. front \o Ended(l) = Ended(front \o l) /\ front \o l \in Text
      BY EndedIs
    <3>. QED BY <3>1, <3>2, <3>3, Zenon
  <2>2. CASE good # Len(c.body)
    <3>1. WriteBlock(c) = Ended(t) \o <<>>
      BY <1>4, <1>5, <2>2
    <3>. QED BY <1>6, <3>1 DEF Text
  <2>. QED BY <2>1, <2>2
<1>8. ~RejectsBody(c) => good = Len(c.body)
  <2>1. good < Len(c.body) => good + 1 \in DOMAIN c.body
    BY <1>1, <1>3
  <2>. QED BY <1>1, <1>3, <2>1 DEF IsGood, RejectsBody
<1>. QED BY <1>4, <1>7, <1>8

-----------------------------------------------------------------------------
(***************************************************************************)
(* WireInv is inductive.                                                   *)
(***************************************************************************)
IsSequence(s) == \E S : s \in Seq(S)

Opened(words, body, upto) == <<[words |-> words, body |-> body, upto |-> upto]>>

IsBlock(b) == b = <<>> \/ \E words, upto : \E body \in Seq(Text) : b = Opened(words, body, upto)

WireTypes ==
  /\ wire \in Text /\ read \in Nat /\ ends \in Seq(Nat) /\ IsSequence(sent) /\ IsSequence(requests)
  /\ IsBlock(block)

IInv == WireInv /\ WireTypes

LEMMA SequenceIs ==
  ASSUME NEW s, IsSequence(s), NEW x
  PROVE  /\ Len(s) \in Nat /\ DOMAIN s = 1..Len(s) /\ IsSequence(Append(s, x))
         /\ Len(Append(s, x)) = Len(s) + 1 /\ DOMAIN Append(s, x) = 1..Len(s) + 1
         /\ \A i \in 1..Len(s) : Append(s, x)[i] = s[i]
         /\ Append(s, x)[Len(s) + 1] = x
<1>1. PICK S : s \in Seq(S)
  BY DEF IsSequence
<1>. DEFINE T == S \cup {x}
<1>2. s \in Seq(T) /\ x \in T
  <2>1. S \subseteq T /\ x \in T
    OBVIOUS
  <2>. QED BY <1>1, <2>1, SeqMonotonic
<1>. HIDE DEF T
<1>3. Append(s, x) \in Seq(T)
  BY <1>2
<1>4. Len(s) \in Nat /\ DOMAIN s = 1..Len(s)
  BY <1>2
<1>5. Len(Append(s, x)) = Len(s) + 1 /\ DOMAIN Append(s, x) = 1..Len(s) + 1
  BY <1>2
<1>6. /\ \A i \in 1..Len(s) : Append(s, x)[i] = s[i]
      /\ Append(s, x)[Len(s) + 1] = x
  BY <1>2
<1>. QED BY <1>3, <1>4, <1>5, <1>6 DEF IsSequence

LEMMA EncodeBytes ==
  ASSUME NEW c, Built(c), NEW typed, NEW label, Encode(c, typed, label)
  PROVE  wire' = wire \o Written(c)
<1>1. c.op \in Blocks => WriteBlock(c) = Written(c)
  BY BlockIs DEF Encode, Written
<1>2. c.op \notin Blocks => WriteLine(Line(c)) = Written(c)
  BY DEF Written
<1>. QED BY <1>1, <1>2 DEF Encode

\* The bytes of a command are on the wire after those before it.
Placed(w, at, bytes) == at + Len(bytes) <= Len(w) /\ \A i \in 1..Len(bytes) : w[at + i] = bytes[i]

LEMMA PlacedLast ==
  ASSUME NEW w \in Text, NEW bytes \in Text
  PROVE  /\ Placed(w \o bytes, Len(w), bytes) /\ Len(w \o bytes) = Len(w) + Len(bytes) /\ w \o bytes \in Text
         /\ Len(w) \in Nat /\ Len(bytes) \in Nat
<1>1. /\ Len(w \o bytes) = Len(w) + Len(bytes)
      /\ \A i \in 1..Len(bytes) : (w \o bytes)[Len(w) + i] = bytes[i]
  BY ConcatIs DEF Text
<1>2. Len(w) \in Nat /\ Len(bytes) \in Nat
  BY DEF Text
<1>. QED BY <1>1, <1>2, TextConcat DEF Placed

LEMMA PlacedKept ==
  ASSUME NEW w \in Text, NEW more \in Text, NEW at \in Nat, NEW bytes \in Text, Placed(w, at, bytes)
  PROVE  Placed(w \o more, at, bytes)
<1>1. /\ Len(w \o more) = Len(w) + Len(more)
      /\ \A i \in 1..Len(w) : (w \o more)[i] = w[i]
  BY ConcatIs DEF Text
<1>2. Len(w) \in Nat /\ Len(bytes) \in Nat /\ Len(more) \in Nat
  BY DEF Text
<1>3. \A i \in 1..Len(bytes) : at + i \in 1..Len(w)
  BY <1>2 DEF Placed
<1>. QED BY <1>1, <1>2, <1>3 DEF Placed

LEMMA LinePlaced ==
  ASSUME NEW w \in Text, NEW base \in Nat, NEW bytes \in Text, Placed(w, base, bytes), NEW at, NEW l, HasLine(bytes, at, l)
  PROVE  HasLine(w, base + at, l)
<1>1. at \in Nat /\ Len(l) \in Nat /\ Len(bytes) \in Nat /\ Len(w) \in Nat
  BY PlainLength DEF HasLine, Text
<1>2. ASSUME NEW i \in 1..Len(l) PROVE w[base + at + i] = l[i]
  <2>1. at + i \in 1..Len(bytes) /\ base + (at + i) = base + at + i
    BY <1>1 DEF HasLine
  <2>. QED BY <2>1 DEF HasLine, Placed
<1>3. w[base + at + Len(l) + 1] = NewLine
  <2>1. at + Len(l) + 1 \in 1..Len(bytes) /\ base + (at + Len(l) + 1) = base + at + Len(l) + 1
    BY <1>1 DEF HasLine
  <2>. QED BY <2>1 DEF HasLine, Placed
<1>4. base + at \in Nat /\ base + at + Len(l) + 1 <= Len(w)
  BY <1>1 DEF HasLine, Placed
<1>. QED BY <1>2, <1>3, <1>4 DEF HasLine

LEMMA WrittenIn ==
  ASSUME NEW c, Built(c)
  PROVE  Written(c) \in Text /\ Len(Written(c)) \in Nat /\ Len(Written(c)) >= 1 /\ DOMAIN Written(c) = 1..Len(Written(c))
<1>1. PICK t \in Text : Written(c) = Ended(t)
  BY WrittenEnds
<1>2. Ended(t) \in Text /\ Len(Ended(t)) = Len(t) + 1 /\ Len(t) \in Nat
  BY EndedIs
<1>3. Ended(t) \in Seq(Atoms)
  BY <1>2 DEF Text
<1>. QED BY <1>1, <1>2, <1>3

LEMMA InitInv == Init => IInv
<1>. SUFFICES ASSUME Init PROVE IInv
  OBVIOUS
<1>1. wire = <<>> /\ sent = <<>> /\ ends = <<>> /\ broken = FALSE /\ read = 0 /\ block = <<>> /\ requests = <<>>
  BY DEF Init
<1>2. DOMAIN sent = {} /\ DOMAIN requests = {} /\ Len(sent) = 0 /\ Len(ends) = 0 /\ Len(wire) = 0
      /\ Len(block) = 0 /\ Len(requests) = 0
  BY <1>1
<1>3. TypeOK
  <2>1. mode \in {"Sanitize", "Strict"} /\ broken \in BOOLEAN
    BY <1>1, WireAssumption DEF Init
  <2>2. Len(sent) <= MaxCommands /\ Len(ends) = Len(sent) /\ read \in 0..Len(wire) /\ Len(block) <= 1
    BY <1>1, <1>2, WireAssumption
  <2>. QED BY <1>1, <2>1, <2>2, Zenon DEF TypeOK
<1>4. WireOfCommands /\ RequestsOfCommands
  BY <1>2 DEF WireOfCommands, RequestsOfCommands, Start
<1>5. Reading
  BY <1>1, <1>2 DEF Reading, Start
<1>6. WireTypes
  <2>1. \A S : <<>> \in Seq(S)
    OBVIOUS
  <2>. QED BY <1>1, <2>1 DEF WireTypes, IsSequence, IsBlock, Text
<1>. QED BY <1>2, <1>3, <1>4, <1>5, <1>6 DEF IInv, WireInv

\* Start of given ends, to speak of the next ends.
StartOf(es, k) == IF k = 1 THEN 0 ELSE es[k - 1]

LEMMA StartsAre ==
  /\ \A k : Start(k) = StartOf(ends, k)
  /\ \A k : Start(k)' = StartOf(ends', k)
BY DEF Start, StartOf

\* WireOfCommands of a given wire, with the bytes of a command placed as a whole.
CommandsOn(w, ss, es) ==
  /\ Len(w) = StartOf(es, Len(ss) + 1)
  /\ \A k \in 1..Len(ss) : /\ es[k] = StartOf(es, k) + Len(Written(ss[k].command))
                            /\ Placed(w, StartOf(es, k), Written(ss[k].command))

LEMMA CommandsAre ==
  ASSUME DOMAIN sent = 1..Len(sent), \A k \in 1..Len(sent) : Built(sent[k].command)
  PROVE  WireOfCommands <=> CommandsOn(wire, sent, ends)
<1>1. \A k \in 1..Len(sent) : DOMAIN Written(sent[k].command) = 1..Len(Written(sent[k].command))
  BY WrittenIn
<1>2. \A k : Start(k) = StartOf(ends, k)
  BY StartsAre
<1>3. WireOfCommands <=>
        /\ Len(wire) = StartOf(ends, Len(sent) + 1)
        /\ \A k \in 1..Len(sent) : /\ ends[k] = StartOf(ends, k) + Len(Written(sent[k].command)) /\ ends[k] <= Len(wire)
                                   /\ \A i \in DOMAIN Written(sent[k].command) :
                                        wire[StartOf(ends, k) + i] = Written(sent[k].command)[i]
  BY Zenon DEF WireOfCommands, Start, StartOf
<1>. QED BY <1>1, <1>3 DEF Placed, CommandsOn

LEMMA NextCommandsAre ==
  ASSUME DOMAIN sent' = 1..Len(sent'), \A k \in 1..Len(sent') : Built(sent'[k].command)
  PROVE  WireOfCommands' <=> CommandsOn(wire', sent', ends')
<1>1. \A k \in 1..Len(sent') : DOMAIN Written(sent'[k].command) = 1..Len(Written(sent'[k].command))
  BY WrittenIn
<1>2. \A k : Start(k)' = StartOf(ends', k)
  BY StartsAre
<1>3. WireOfCommands' <=>
        /\ Len(wire') = StartOf(ends', Len(sent') + 1)
        /\ \A k \in 1..Len(sent') : /\ ends'[k] = StartOf(ends', k) + Len(Written(sent'[k].command)) /\ ends'[k] <= Len(wire')
                                   /\ \A i \in DOMAIN Written(sent'[k].command) :
                                        wire'[StartOf(ends', k) + i] = Written(sent'[k].command)[i]
  BY Zenon DEF WireOfCommands, Start, StartOf
<1>. QED BY <1>1, <1>3 DEF Placed, CommandsOn

\* A wire with one more command, of the given bytes, after n others.
Adds(w, ss, es, w2, ss2, es2, n, bytes) ==
  /\ w \in Text /\ bytes \in Text /\ n \in Nat /\ Len(ss) = n /\ Len(ss2) = n + 1 /\ w2 = w \o bytes
  /\ \A k \in 1..n : /\ ss2[k] = ss[k] /\ es2[k] = es[k] /\ es[k] \in Nat
                     /\ Written(ss[k].command) \in Text
  /\ Written(ss2[n + 1].command) = bytes /\ es2[n + 1] = Len(w2)

LEMMA OneMore ==
  ASSUME NEW w, NEW ss, NEW es, NEW w2, NEW ss2, NEW es2, NEW n, NEW bytes,
         Adds(w, ss, es, w2, ss2, es2, n, bytes), CommandsOn(w, ss, es)
  PROVE  CommandsOn(w2, ss2, es2)
<1>0. /\ w \in Text /\ bytes \in Text /\ n \in Nat /\ Len(ss) = n /\ Len(ss2) = n + 1 /\ w2 = w \o bytes
      /\ \A k \in 1..n : /\ ss2[k] = ss[k] /\ es2[k] = es[k] /\ es[k] \in Nat
                         /\ Written(ss[k].command) \in Text
      /\ Written(ss2[n + 1].command) = bytes /\ es2[n + 1] = Len(w2)
  BY DEF Adds
<1>1. Len(w2) = Len(w) + Len(bytes) /\ Placed(w2, Len(w), bytes) /\ Len(w) \in Nat /\ Len(bytes) \in Nat
  BY <1>0, PlacedLast
<1>2. ASSUME NEW k \in 1..n + 1 PROVE StartOf(es2, k) = StartOf(es, k) /\ StartOf(es, k) \in Nat
  <2>1. k = 1 \/ k - 1 \in 1..n
    BY <1>0
  <2>. QED BY <1>0, <2>1 DEF StartOf
<1>3. Len(w) = StartOf(es, n + 1)
  BY <1>0 DEF CommandsOn
<1>4. ASSUME NEW k \in 1..n
      PROVE  /\ es2[k] = StartOf(es2, k) + Len(Written(ss2[k].command))
             /\ Placed(w2, StartOf(es2, k), Written(ss2[k].command))
  <2>1. es[k] = StartOf(es, k) + Len(Written(ss[k].command)) /\ Placed(w, StartOf(es, k), Written(ss[k].command))
    BY <1>0 DEF CommandsOn
  <2>2. StartOf(es2, k) = StartOf(es, k) /\ StartOf(es, k) \in Nat
    BY <1>0, <1>2
  <2>. QED BY <1>0, <2>1, <2>2, PlacedKept
<1>5. /\ es2[n + 1] = StartOf(es2, n + 1) + Len(Written(ss2[n + 1].command))
      /\ Placed(w2, StartOf(es2, n + 1), Written(ss2[n + 1].command))
  <2>1. StartOf(es2, n + 1) = Len(w)
    BY <1>0, <1>2, <1>3
  <2>. QED BY <1>0, <1>1, <2>1
<1>6. Len(w2) = StartOf(es2, n + 1 + 1)
  BY <1>0 DEF StartOf
<1>7. \A k \in 1..n + 1 : k \in 1..n \/ k = n + 1
  BY <1>0
<1>. QED BY <1>0, <1>4, <1>5, <1>6, <1>7 DEF CommandsOn

LEMMA EncodeTypes ==
  ASSUME IInv, NEW c, Built(c), NEW typed, NEW label, Encode(c, typed, label)
  PROVE  WireTypes' /\ TypeOK' /\ wire' \in Text
<1>1. wire' = wire \o Written(c) /\ wire \in Text
  BY EncodeBytes DEF IInv, WireTypes
<1>2. PICK t \in Text : Written(c) = Ended(t)
  BY WrittenEnds
<1>3. wire' = Ended(wire \o t) /\ wire \o t \in Text
  BY <1>1, <1>2, EndedIs
<1>4. wire' \in Text /\ Last(wire') = NewLine
  BY <1>1, <1>3, EndedIs
<1>5. Len(wire') \in Nat /\ Len(wire) <= Len(wire')
  <2>1. Len(wire') = Len(wire) + Len(Written(c)) /\ Len(wire) \in Nat /\ Len(Written(c)) \in Nat
    BY <1>1, WrittenIn, PlacedLast
  <2>. QED BY <2>1
<1>6. /\ Len(sent) < MaxCommands /\ sent' = Append(sent, [command |-> c, typed |-> typed, label |-> label])
      /\ ends' = Append(ends, Len(wire')) /\ mode' = mode /\ broken' = broken /\ read' = read /\ block' = block
      /\ requests' = requests
  BY DEF Encode
<1>7. /\ IsSequence(sent) /\ ends \in Seq(Nat) /\ IsSequence(requests) /\ read \in Nat
      /\ IsBlock(block)
  BY DEF IInv, WireTypes
<1>8. /\ mode \in {"Sanitize", "Strict"} /\ broken \in BOOLEAN /\ Len(ends) = Len(sent) /\ read \in 0..Len(wire)
      /\ Len(block) <= 1
  BY DEF IInv, WireInv, TypeOK
<1>9. IsSequence(sent') /\ Len(sent') = Len(sent) + 1 /\ Len(sent) \in Nat
  BY <1>6, <1>7, SequenceIs
<1>10. ends' \in Seq(Nat) /\ Len(ends') = Len(ends) + 1
  BY <1>5, <1>6, <1>7
<1>11. WireTypes'
  BY <1>4, <1>6, <1>7, <1>9, <1>10 DEF WireTypes
<1>12. TypeOK'
  <2>1. read' \in 0..Len(wire') /\ Len(block') <= 1 /\ mode' \in {"Sanitize", "Strict"} /\ broken' \in BOOLEAN
    BY <1>5, <1>6, <1>7, <1>8
  <2>2. Len(sent') <= MaxCommands /\ Len(ends') = Len(sent')
    BY <1>6, <1>8, <1>9, <1>10, WireAssumption
  <2>3. Last(wire') = "\n"
    BY <1>4 DEF NewLine
  <2>. QED BY <2>1, <2>2, <2>3 DEF TypeOK
<1>. QED BY <1>4, <1>11, <1>12

LEMMA EncodeInv ==
  ASSUME IInv, NEW c, Built(c), NEW typed, NEW label, Encode(c, typed, label)
  PROVE  IInv'
<1>. DEFINE n == Len(sent)
            s == [command |-> c, typed |-> typed, label |-> label]
            bytes == Written(c)
<1>1. wire' = wire \o bytes /\ wire \in Text /\ bytes \in Text /\ Len(bytes) \in Nat
  BY EncodeBytes, WrittenIn DEF IInv, WireTypes
<1>2. WireTypes' /\ TypeOK' /\ WireTypes /\ IsSequence(sent)
  BY EncodeTypes DEF IInv, WireTypes
<1>3. /\ sent' = Append(sent, s) /\ ends' = Append(ends, Len(wire')) /\ broken' = broken /\ read' = read
      /\ block' = block /\ requests' = requests
  BY DEF Encode
<1>4. n \in Nat /\ Len(ends) = n /\ ends \in Seq(Nat) /\ Len(ends) = n
  BY <1>2, SequenceIs DEF IInv, WireTypes, WireInv, TypeOK
<1>5. /\ Len(sent') = n + 1 /\ DOMAIN sent' = 1..n + 1 /\ DOMAIN sent = 1..n
      /\ (\A k \in 1..n : sent'[k] = sent[k]) /\ sent'[n + 1] = s
  BY <1>2, <1>3, SequenceIs
<1>6. Len(wire') \in Nat /\ Len(wire') = Len(wire) + Len(bytes) /\ Placed(wire', Len(wire), bytes)
  BY <1>1, PlacedLast
<1>7. (\A k \in 1..n : ends'[k] = ends[k]) /\ ends'[n + 1] = Len(wire')
  BY <1>3, <1>4, <1>6
<1>8. /\ \A k \in 1..n + 1 : StartOf(ends', k) = StartOf(ends, k) /\ StartOf(ends, k) \in Nat
      /\ StartOf(ends', n + 2) = Len(wire')
  <2>1. ASSUME NEW k \in 1..n + 1 PROVE StartOf(ends', k) = StartOf(ends, k) /\ StartOf(ends, k) \in Nat
    <3>1. k = 1 \/ k - 1 \in 1..n
      BY <1>4
    <3>. QED BY <1>4, <1>7, <3>1 DEF StartOf
  <2>2. StartOf(ends', n + 2) = Len(wire')
    <3>1. n + 2 # 1 /\ n + 2 - 1 = n + 1
      BY <1>4
    <3>. QED BY <1>7, <3>1 DEF StartOf
  <2>. QED BY <2>1, <2>2
<1>. HIDE DEF bytes
<1>9. \A k \in DOMAIN sent : Built(sent[k].command)
  BY DEF IInv, WireInv
<1>10. \A k \in DOMAIN sent' : Built(sent'[k].command)
  <2>1. s.command = c
    OBVIOUS
  <2>2. ASSUME NEW k \in 1..n + 1 PROVE Built(sent'[k].command)
    <3>1. k \in 1..n \/ k = n + 1
      BY <1>4
    <3>. QED BY <1>5, <1>9, <2>1, <3>1
  <2>. QED BY <1>5, <2>2
<1>11. Intact' => Intact
  <2>1. DOMAIN sent \subseteq DOMAIN sent'
    BY <1>4, <1>5
  <2>. QED BY <1>3, <1>5, <2>1 DEF Intact
<1>12. ASSUME Intact' PROVE WireOfCommands'
  <2>1. CommandsOn(wire, sent, ends)
    BY <1>5, <1>9, <1>12, <1>11, CommandsAre DEF IInv, WireInv
  <2>2. \A k \in 1..n : Written(sent[k].command) \in Text
    BY <1>5, <1>9, WrittenIn
  <2>3. Written(sent'[n + 1].command) = bytes
    BY <1>5 DEF bytes
  <2>4. wire' \in Text
    BY EncodeTypes
  <2>5. CommandsOn(wire', sent', ends')
    <3>1. \A k \in 1..n : /\ sent'[k] = sent[k] /\ ends'[k] = ends[k] /\ ends[k] \in Nat
                          /\ Written(sent[k].command) \in Text
      BY <1>4, <1>5, <1>7, <2>2
    <3>2. Len(sent) = n
      OBVIOUS
    <3>3. PICK w, w2, ss, ss2, es, es2, m, b :
             m = n /\ b = bytes /\ w = wire /\ w2 = wire' /\ ss = sent /\ ss2 = sent' /\ es = ends /\ es2 = ends'
      OBVIOUS
    <3>. HIDE DEF n, s
    <3>4. w \in Text /\ w2 \in Text /\ m \in Nat /\ b \in Text /\ CommandsOn(w, ss, es) /\ Len(ss) = m
      BY <1>1, <1>4, <2>1, <2>4, <3>2, <3>3
    <3>5. Len(ss2) = m + 1 /\ w2 = w \o b /\ Written(ss2[m + 1].command) = b /\ es2[m + 1] = Len(w2)
      BY <1>1, <1>5, <1>7, <2>3, <3>3
    <3>6. \A k \in 1..m : /\ ss2[k] = ss[k] /\ es2[k] = es[k] /\ es[k] \in Nat
                          /\ Written(ss[k].command) \in Text
      BY <3>1, <3>3
    <3>7. CommandsOn(w2, ss2, es2)
      <4>1. Adds(w, ss, es, w2, ss2, es2, m, b)
        BY <3>4, <3>5, <3>6 DEF Adds
      <4>. QED BY <3>4, <4>1, OneMore
    <3>. QED BY <3>3, <3>7
  <2>6. \A k \in 1..Len(sent') : Built(sent'[k].command)
    BY <1>5, <1>10
  <2>. QED BY <1>5, <2>5, <2>6, NextCommandsAre
<1>13. ASSUME Intact' PROVE RequestsOfCommands' /\ Reading'
  <2>1. RequestsOfCommands /\ Reading
    BY <1>13, <1>11 DEF IInv, WireInv
  <2>2. Len(requests) \in Nat /\ DOMAIN requests = 1..Len(requests) /\ Len(requests) <= n
    BY <1>2, <2>1, SequenceIs DEF WireTypes, Reading
  <2>3. ASSUME NEW k \in DOMAIN requests PROVE sent'[k] = sent[k] /\ ends'[k] = ends[k]
    <3>1. k \in 1..n
      BY <1>4, <2>2
    <3>. QED BY <1>5, <1>7, <3>1
  <2>4. RequestsOfCommands'
    BY <1>3, <2>1, <2>3 DEF RequestsOfCommands
  <2>5. Start(Len(requests) + 1)' = Start(Len(requests) + 1)
    <3>1. Len(requests) + 1 \in 1..n + 1
      BY <1>4, <2>2
    <3>2. StartOf(ends', Len(requests) + 1) = StartOf(ends, Len(requests) + 1)
      BY <1>8, <3>1
    <3>. QED BY <1>3, <3>2 DEF Start, StartOf
  <2>6. Len(requests) < n => sent'[Len(requests) + 1] = sent[Len(requests) + 1]
    BY <1>4, <1>5, <2>2
  <2>7. Len(requests) <= Len(sent') /\ (Len(requests) < n => Len(requests) < Len(sent'))
    BY <1>4, <1>5, <2>2
  <2>8. Reading'
    BY <1>3, <2>1, <2>5, <2>6, <2>7 DEF Reading
  <2>. QED BY <2>4, <2>8
<1>. QED BY <1>2, <1>10, <1>12, <1>13 DEF IInv, WireInv


LEMMA StutterInv ==
  ASSUME IInv, UNCHANGED vars
  PROVE  IInv'
<1>1. /\ mode' = mode /\ wire' = wire /\ sent' = sent /\ ends' = ends /\ broken' = broken /\ read' = read
      /\ block' = block /\ requests' = requests
  BY DEF vars
<1>2. TypeOK'
  BY <1>1 DEF IInv, WireInv, TypeOK
<1>3. WireTypes'
  BY <1>1 DEF IInv, WireTypes
<1>4. /\ \A k \in DOMAIN sent' : Built(sent'[k].command)
      /\ Intact' => WireOfCommands /\ RequestsOfCommands /\ Reading
  BY <1>1 DEF IInv, WireInv, Intact
<1>5. WireOfCommands => WireOfCommands'
  BY <1>1 DEF WireOfCommands, Start
<1>6. RequestsOfCommands => RequestsOfCommands'
  BY <1>1 DEF RequestsOfCommands
<1>7. Reading => Reading'
  BY <1>1 DEF Reading, Start
<1>. QED BY <1>2, <1>3, <1>4, <1>5, <1>6, <1>7 DEF IInv, WireInv

LEMMA RejectedInv ==
  ASSUME IInv, NEW c, Built(c), EncodeRejected(c)
  PROVE  IInv'
<1>1. mode' = mode /\ sent' = sent /\ ends' = ends /\ read' = read /\ block' = block /\ requests' = requests
  BY DEF EncodeRejected
<1>2. CASE wire' = wire /\ broken' = broken
  BY <1>1, <1>2, StutterInv DEF vars
<1>3. CASE wire' = wire \o WriteBlock(c) /\ broken' = TRUE
  <2>1. PICK t \in Text : WriteBlock(c) = Ended(t)
    BY BlockIs
  <2>2. wire \in Text
    BY DEF IInv, WireTypes
  <2>3. wire' = Ended(wire \o t) /\ wire \o t \in Text
    BY <1>3, <2>1, <2>2, EndedIs
  <2>4. wire' \in Text /\ Last(wire') = NewLine
    BY <2>3, EndedIs
  <2>5. Len(wire') \in Nat /\ Len(wire) <= Len(wire')
    <3>1. Ended(t) \in Text
      BY EndedIs
    <3>2. Len(wire') = Len(wire) + Len(Ended(t)) /\ Len(wire) \in Nat /\ Len(Ended(t)) \in Nat
      BY <1>3, <2>1, <2>2, <3>1, PlacedLast
    <3>. QED BY <3>2
  <2>6. TypeOK'
    <3>1. read \in 0..Len(wire)
      BY DEF IInv, WireInv, TypeOK
    <3>2. read' \in 0..Len(wire') /\ broken' \in BOOLEAN
      BY <1>1, <1>3, <2>5, <3>1
    <3>3. Last(wire') = "\n"
      BY <2>4 DEF NewLine
    <3>. QED BY <1>1, <3>2, <3>3 DEF IInv, WireInv, TypeOK
  <2>7. WireTypes'
    BY <1>1, <2>4 DEF IInv, WireTypes
  <2>8. \A k \in DOMAIN sent' : Built(sent'[k].command)
    BY <1>1 DEF IInv, WireInv
  <2>9. ~Intact'
    BY <1>3 DEF Intact
  <2>. QED BY <2>6, <2>7, <2>8, <2>9 DEF IInv, WireInv
<1>. QED BY <1>2, <1>3 DEF EncodeRejected

\* What the server reads next when it is at the beginning of a command.
LEMMA ReadsHeader ==
  ASSUME IInv, Intact, block = <<>>, read < Len(wire), NEW k, k = Len(requests) + 1
  PROVE  /\ k \in 1..Len(sent) /\ NextLine = Line(sent[k].command) /\ read = StartOf(ends, k)
         /\ StartOf(ends, k) \in Nat /\ ends[k] = StartOf(ends, k) + Len(Written(sent[k].command))
<1>1. WireOfCommands /\ Reading /\ WireTypes /\ \A i \in DOMAIN sent : Built(sent[i].command)
  BY DEF IInv, WireInv
<1>2. Len(sent) \in Nat /\ DOMAIN sent = 1..Len(sent) /\ Len(requests) \in Nat
  BY <1>1, SequenceIs DEF WireTypes
<1>3. CommandsOn(wire, sent, ends)
  BY <1>1, <1>2, CommandsAre
<1>4. read = StartOf(ends, k) /\ Len(requests) <= Len(sent)
  BY <1>1, StartsAre DEF Reading
<1>5. k \in 1..Len(sent)
  <2>1. Len(requests) # Len(sent)
    BY <1>3, <1>4 DEF CommandsOn
  <2>. QED BY <1>2, <1>4, <2>1
<1>. DEFINE c == sent[k].command
<1>6. Whole(c)
  BY <1>1, <1>2, <1>5 DEF Intact, Whole
<1>7. ends[k] = StartOf(ends, k) + Len(Written(c)) /\ Placed(wire, StartOf(ends, k), Written(c))
  BY <1>3, <1>5 DEF CommandsOn
<1>. HIDE DEF c
<1>8. wire \in Text /\ read \in Nat
  BY <1>1 DEF WireTypes
<1>9. Written(c) \in Text /\ HasLine(Written(c), 0, Line(c))
  <2>1. Len(c.body) \in Nat
    BY <1>6, BodyIn DEF Whole
  <2>2. 0 \in 0..Len(c.body)
    BY <2>1
  <2>. QED BY <1>6, <2>2, LinesOfOne, LinesOfBlock DEF Whole
<1>10. HasLine(wire, read, Line(c))
  <2>1. HasLine(wire, read + 0, Line(c))
    BY <1>4, <1>7, <1>8, <1>9, LinePlaced
  <2>. QED BY <1>8, <2>1
<1>11. NextLine = Line(c)
  BY <1>8, <1>10, NextLineIs
<1>. QED BY <1>4, <1>5, <1>7, <1>8, <1>11 DEF c

\* What the server reads next when it is in a block: a line of the body, or END after the last.
LEMMA ReadsBody ==
  ASSUME IInv, Intact, block # <<>>, NEW k, k = Len(requests) + 1, NEW c, c = sent[k].command,
         NEW n, n = Len(block[1].body)
  PROVE  /\ k \in 1..Len(sent) /\ Built(c) /\ c.op \in Blocks /\ n \in 0..Len(c.body) /\ Len(c.body) \in Nat
         /\ read < Len(wire) /\ block[1].words = Tokens(Line(c)) /\ \A i \in 1..n : block[1].body[i] = BodyLine(c.body[i])
         /\ n < Len(c.body) => /\ NextLine = BodyLine(c.body[n + 1]) /\ NextLine # EndLine
                               /\ read + Len(NextLine) + 1 = StartOf(ends, k) + Len(WriteLines(c, n + 1))
         /\ n = Len(c.body) => NextLine = EndLine /\ read + Len(NextLine) + 1 = ends[k]
<1>1. WireOfCommands /\ Reading /\ WireTypes /\ \A i \in DOMAIN sent : Built(sent[i].command)
  BY DEF IInv, WireInv
<1>2. Len(sent) \in Nat /\ DOMAIN sent = 1..Len(sent) /\ Len(requests) \in Nat
  BY <1>1, SequenceIs DEF WireTypes
<1>3. CommandsOn(wire, sent, ends)
  BY <1>1, <1>2, CommandsAre
<1>4. k \in 1..Len(sent) /\ Built(c)
  BY <1>1, <1>2 DEF Reading
<1>5. /\ c.op \in Blocks /\ n <= Len(c.body) /\ read = StartOf(ends, k) + Len(WriteLines(c, n))
      /\ block[1].words = Tokens(Line(c)) /\ \A i \in 1..n : block[1].body[i] = BodyLine(c.body[i])
  BY <1>1, StartsAre DEF Reading
<1>6. n \in Nat
  <2>1. PICK words, upto : \E body \in Seq(Text) : block = Opened(words, body, upto)
    BY <1>1 DEF WireTypes, IsBlock
  <2>2. PICK body \in Seq(Text) : block = Opened(words, body, upto)
    BY <2>1
  <2>3. block[1].body = body
    BY <2>2 DEF Opened
  <2>. QED BY <2>3
<1>7. n \in 0..Len(c.body) /\ Len(c.body) \in Nat
  BY <1>4, <1>5, <1>6, BodyIn
<1>8. ends[k] = StartOf(ends, k) + Len(Written(c)) /\ Placed(wire, StartOf(ends, k), Written(c))
  BY <1>3, <1>4 DEF CommandsOn
<1>9. StartOf(ends, k) \in Nat
  <2>1. ends \in Seq(Nat) /\ Len(ends) = Len(sent)
    BY DEF IInv, WireInv, WireTypes, TypeOK
  <2>2. k = 1 \/ k - 1 \in 1..Len(ends)
    BY <1>2, <1>4, <2>1
  <2>. QED BY <2>1, <2>2 DEF StartOf
<1>10. wire \in Text /\ read \in Nat /\ Written(c) \in Text /\ WriteLines(c, n) \in Text
  BY <1>1, <1>4, <1>5, <1>7, LinesOfBlock DEF WireTypes
<1>11. Len(WriteLines(c, n)) \in Nat
  BY <1>10 DEF Text
<1>12. ASSUME n < Len(c.body)
       PROVE  /\ NextLine = BodyLine(c.body[n + 1]) /\ NextLine # EndLine
              /\ read + Len(NextLine) + 1 = StartOf(ends, k) + Len(WriteLines(c, n + 1)) /\ read < Len(wire)
  <2>. DEFINE l == BodyLine(c.body[n + 1])
  <2>1. HasLine(Written(c), Len(WriteLines(c, n)), l) /\ Len(WriteLines(c, n + 1)) = Len(WriteLines(c, n)) + Len(l) + 1
    BY <1>4, <1>5, <1>7, <1>12, LinesOfBlock
  <2>2. l # EndLine /\ l \in Text
    <3>1. n + 1 \in 1..Len(c.body)
      BY <1>7, <1>12
    <3>2. c.body[n + 1] \in Text
      BY <1>4, <3>1, BodyIn
    <3>. QED BY <3>2, BodyLinePlain
  <2>. HIDE DEF l
  <2>3. HasLine(wire, StartOf(ends, k) + Len(WriteLines(c, n)), l)
    BY <1>8, <1>9, <1>10, <2>1, LinePlaced
  <2>4. NextLine = l
    BY <1>5, <1>10, <2>3, NextLineIs
  <2>5. Len(l) \in Nat
    BY <2>2 DEF Text
  <2>6. read + Len(l) + 1 = StartOf(ends, k) + Len(WriteLines(c, n + 1))
    <3>1. /\ read = StartOf(ends, k) + Len(WriteLines(c, n))
          /\ Len(WriteLines(c, n + 1)) = Len(WriteLines(c, n)) + Len(l) + 1
      BY <1>5, <2>1
    <3>2. PICK from, to, at, len : /\ from = Len(WriteLines(c, n)) /\ to = Len(WriteLines(c, n + 1))
                                   /\ at = StartOf(ends, k) /\ len = Len(l)
      OBVIOUS
    <3>3. from \in Nat /\ at \in Nat /\ len \in Nat /\ read = at + from /\ to = from + len + 1
      BY <1>9, <1>11, <2>5, <3>1, <3>2
    <3>4. read + len + 1 = at + to
      BY <3>3
    <3>. QED BY <3>2, <3>4
  <2>7. read < Len(wire)
    BY <1>5, <1>10, <2>3, <2>5 DEF HasLine, Text
  <2>. QED BY <2>2, <2>4, <2>6, <2>7 DEF l
<1>13. ASSUME n = Len(c.body) PROVE NextLine = EndLine /\ read + Len(NextLine) + 1 = ends[k] /\ read < Len(wire)
  <2>1. HasLine(Written(c), Len(WriteLines(c, n)), EndLine) /\ Len(Written(c)) = Len(WriteLines(c, n)) + Len(EndLine) + 1
    BY <1>4, <1>5, <1>7, <1>13, LinesOfBlock
  <2>2. HasLine(wire, StartOf(ends, k) + Len(WriteLines(c, n)), EndLine)
    BY <1>8, <1>9, <1>10, <2>1, LinePlaced
  <2>3. NextLine = EndLine
    BY <1>5, <1>10, <2>2, NextLineIs
  <2>4. Len(EndLine) \in Nat
    BY EndLinePlain DEF Text
  <2>5. read < Len(wire)
    BY <1>5, <1>10, <2>2, <2>4 DEF HasLine, Text
  <2>. QED BY <1>5, <1>8, <1>9, <1>11, <2>1, <2>3, <2>4, <2>5
<1>14. read < Len(wire)
  BY <1>7, <1>12, <1>13
<1>. QED BY <1>4, <1>5, <1>7, <1>12, <1>13, <1>14


Asked(words, body, upto) == [words |-> words, body |-> body, upto |-> upto]

\* The four things the server makes of the line it reads.
Opens(l) ==
  /\ block = <<>> /\ Tokens(l) # <<>> /\ Tokens(l)[1] \in BlockWords
  /\ block' = Opened(Tokens(l), <<>>, read') /\ requests' = requests
Answers(l) ==
  /\ block = <<>> /\ ~(Tokens(l) # <<>> /\ Tokens(l)[1] \in BlockWords)
  /\ block' = <<>> /\ requests' = Append(requests, Asked(Tokens(l), <<>>, read'))
Closes(l) ==
  /\ block # <<>> /\ l = EndLine
  /\ block' = <<>> /\ requests' = Append(requests, Asked(block[1].words, block[1].body, read'))
Continues(l) ==
  /\ block # <<>> /\ l # EndLine /\ requests' = requests
  /\ \E words, upto : \E body \in Seq(Text) :
       block = Opened(words, body, upto) /\ block' = Opened(words, Append(body, l), upto)

LEMMA ReadsCases ==
  ASSUME IInv, ServerReads
  PROVE  /\ NextLine \in Text /\ read < Len(wire) /\ read' = read + Len(NextLine) + 1 /\ read' \in 0..Len(wire)
         /\ mode' = mode /\ wire' = wire /\ sent' = sent /\ ends' = ends /\ broken' = broken
         /\ Opens(NextLine) \/ Answers(NextLine) \/ Closes(NextLine) \/ Continues(NextLine)
<1>1. /\ read < Len(wire) /\ read' = read + Len(NextLine) + 1
      /\ mode' = mode /\ wire' = wire /\ sent' = sent /\ ends' = ends /\ broken' = broken
  BY DEF ServerReads
<1>2. NextLine \in Text /\ read' \in 0..Len(wire)
  <2>1. wire \in Text /\ read \in Nat
    BY DEF IInv, WireTypes
  <2>2. wire # <<>>
    BY <1>1, <2>1 DEF Text
  <2>3. Last(wire) = "\n"
    BY <2>2 DEF IInv, WireInv, TypeOK
  <2>. QED BY <1>1, <2>1, <2>3, NextLineAny
<1>3. PICK l : l = NextLine
  OBVIOUS
<1>4. Opens(l) \/ Answers(l) \/ Closes(l) \/ Continues(l)
  <2>1. ASSUME block = <<>>, Tokens(l) # <<>>, Tokens(l)[1] \in BlockWords,
               block' = <<Request(Tokens(l), <<>>)>>, requests' = requests
        PROVE  Opens(l)
    BY <2>1 DEF Opens, Opened, Request
  <2>2. ASSUME block = <<>>, ~(Tokens(l) # <<>> /\ Tokens(l)[1] \in BlockWords),
               block' = block, requests' = Append(requests, Request(Tokens(l), <<>>))
        PROVE  Answers(l)
    BY <2>2 DEF Answers, Asked, Request
  <2>3. ASSUME block # <<>>, l = EndLine,
               block' = <<>>, requests' = Append(requests, Request(block[1].words, block[1].body))
        PROVE  Closes(l)
    BY <2>3 DEF Closes, Asked, Request
  <2>4. ASSUME block # <<>>, l # EndLine, requests' = requests,
               block' = <<[block[1] EXCEPT !.body = Append(@, l)]>>
        PROVE  Continues(l)
    <3>1. PICK words, upto : \E body \in Seq(Text) : block = Opened(words, body, upto)
      BY <2>4 DEF IInv, WireTypes, IsBlock
    <3>2. PICK body \in Seq(Text) : block = Opened(words, body, upto)
      BY <3>1
    <3>3. block[1] = Asked(words, body, upto)
      BY <3>2 DEF Opened, Asked
    <3>4. [block[1] EXCEPT !.body = Append(@, l)] = Asked(words, Append(body, l), upto)
      BY <3>3 DEF Asked
    <3>5. block' = Opened(words, Append(body, l), upto)
      BY <2>4, <3>4 DEF Opened, Asked
    <3>. QED BY <2>4, <3>2, <3>5 DEF Continues
  <2>. QED BY <1>3, <2>1, <2>2, <2>3, <2>4, Zenon DEF ServerReads
<1>. QED BY <1>1, <1>2, <1>3, <1>4

LEMMA OpenedIs ==
  ASSUME NEW words, NEW upto, NEW body \in Seq(Text)
  PROVE  IsBlock(Opened(words, body, upto)) /\ Len(Opened(words, body, upto)) <= 1
<1>1. IsBlock(Opened(words, body, upto))
  BY Zenon DEF IsBlock
<1>. QED BY <1>1 DEF Opened

LEMMA ReadsTypes ==
  ASSUME IInv, ServerReads
  PROVE  WireTypes' /\ TypeOK'
<1>1. PICK l \in Text : l = NextLine /\ (Opens(l) \/ Answers(l) \/ Closes(l) \/ Continues(l))
  BY ReadsCases
<1>2. /\ read' \in 0..Len(wire) /\ mode' = mode /\ wire' = wire /\ sent' = sent /\ ends' = ends /\ broken' = broken
  BY ReadsCases
<1>3. /\ wire \in Text /\ ends \in Seq(Nat) /\ IsSequence(sent) /\ IsSequence(requests)
  BY DEF IInv, WireTypes
<1>4. IsSequence(requests')
  <2>1. requests' = requests \/ \E x : requests' = Append(requests, x)
    BY <1>1 DEF Opens, Answers, Closes, Continues
  <2>2. PICK rs : rs = requests
    OBVIOUS
  <2>3. \A x : IsSequence(Append(rs, x))
    <3>1. IsSequence(rs)
      BY <1>3, <2>2
    <3>. QED BY <3>1, SequenceIs
  <2>. QED BY <1>3, <2>1, <2>2, <2>3
<1>5. IsBlock(block') /\ Len(block') <= 1
  <2>1. <<>> \in Seq(Text)
    OBVIOUS
  <2>3. CASE Opens(l)
    <3>1. PICK upto : block' = Opened(Tokens(l), <<>>, upto)
      BY <2>3 DEF Opens
    <3>2. IsBlock(Opened(Tokens(l), <<>>, upto)) /\ Len(Opened(Tokens(l), <<>>, upto)) <= 1
      BY <2>1, OpenedIs
    <3>. QED BY <3>1, <3>2, Zenon
  <2>4. CASE Answers(l) \/ Closes(l)
    BY <2>4 DEF Answers, Closes, IsBlock
  <2>5. CASE Continues(l)
    <3>1. PICK words, upto : \E body \in Seq(Text) : block' = Opened(words, Append(body, l), upto)
      BY <2>5 DEF Continues
    <3>2. PICK body \in Seq(Text) : block' = Opened(words, Append(body, l), upto)
      BY <3>1
    <3>3. Append(body, l) \in Seq(Text)
      BY <1>1, <3>2
    <3>. QED BY <3>2, <3>3, OpenedIs, Zenon
  <2>. QED BY <1>1, <2>3, <2>4, <2>5
<1>6. WireTypes'
  <2>1. read' \in Nat
    BY <1>2, <1>3 DEF Text
  <2>. QED BY <1>2, <1>3, <1>4, <1>5, <2>1 DEF WireTypes
<1>7. TypeOK'
  BY <1>2, <1>5 DEF IInv, WireInv, TypeOK
<1>. QED BY <1>6, <1>7


\* The server has made a request of the next command.
LEMMA RequestMade ==
  ASSUME IInv, RequestsOfCommands, sent' = sent, ends' = ends, NEW k \in 1..Len(sent), k = Len(requests) + 1,
         NEW c, c = sent[k].command, block' = <<>>, read' = ends[k],
         requests' = Append(requests, Asked(Tokens(Line(c)), [i \in DOMAIN c.body |-> BodyLine(c.body[i])], ends[k]))
  PROVE  RequestsOfCommands' /\ Reading'
<1>. DEFINE asked == Asked(Tokens(Line(c)), [i \in DOMAIN c.body |-> BodyLine(c.body[i])], ends[k])
            Fits(r, j) == LET d == sent[j].command IN
                          r = [words |-> Tokens(Line(d)), body |-> [i \in DOMAIN d.body |-> BodyLine(d.body[i])], upto |-> ends[j]]
<1>1. IsSequence(requests)
  BY DEF IInv, WireTypes
<1>2. /\ Len(requests) \in Nat /\ DOMAIN requests = 1..Len(requests) /\ DOMAIN requests' = 1..k /\ Len(requests') = k
      /\ requests'[k] = asked /\ \A j \in 1..Len(requests) : requests'[j] = requests[j]
  <2>1. PICK rs : rs = requests
    OBVIOUS
  <2>2. /\ Len(rs) \in Nat /\ DOMAIN rs = 1..Len(rs) /\ DOMAIN Append(rs, asked) = 1..Len(rs) + 1
        /\ Len(Append(rs, asked)) = Len(rs) + 1 /\ Append(rs, asked)[Len(rs) + 1] = asked
        /\ \A j \in 1..Len(rs) : Append(rs, asked)[j] = rs[j]
    <3>1. IsSequence(rs)
      BY <1>1, <2>1
    <3>. HIDE DEF asked
    <3>. QED BY <3>1, SequenceIs
  <2>. HIDE DEF asked
  <2>3. requests' = Append(rs, asked)
    BY <2>1 DEF asked
  <2>. QED BY <2>1, <2>2, <2>3
<1>3. Fits(asked, k)
  BY DEF Asked
<1>4. \A j \in 1..Len(requests) : Fits(requests[j], j)
  BY <1>2 DEF RequestsOfCommands
<1>5. RequestsOfCommands'
  <2>1. ASSUME NEW j \in 1..k PROVE Fits(requests'[j], j)
    <3>1. j = k \/ j \in 1..Len(requests)
      BY <1>2
    <3>. HIDE DEF Fits, asked
    <3>. QED BY <1>2, <1>3, <1>4, <3>1
  <2>2. \A j \in DOMAIN requests' : Fits(requests'[j], j)
    <3>. HIDE DEF Fits
    <3>. QED BY <1>2, <2>1
  <2>3. ASSUME NEW j \in DOMAIN requests', NEW d, d = sent[j].command
        PROVE  requests'[j] = [words |-> Tokens(Line(d)), body |-> [i \in DOMAIN d.body |-> BodyLine(d.body[i])],
                               upto |-> ends[j]]
    BY <2>2, <2>3, Zenon
  <2>. QED BY <2>3, SMTT(30) DEF RequestsOfCommands
<1>6. Reading'
  <2>1. k + 1 # 1 /\ k + 1 - 1 = k /\ k <= Len(sent)
    BY <1>2, SequenceIs DEF IInv, WireTypes
  <2>2. ends'[Len(requests') + 1 - 1] = ends[k] /\ Len(requests') + 1 # 1
    BY <1>2, <2>1
  <2>3. Start(Len(requests) + 1)' = ends[k]
    BY <2>2 DEF Start
  <2>. QED BY <1>2, <2>1, <2>3 DEF Reading
<1>. QED BY <1>5, <1>6

\* The server is in the block of the next command, after n lines of its body.
LEMMA InBlock ==
  ASSUME sent' = sent, ends' = ends, requests' = requests, NEW k \in 1..Len(sent), k = Len(requests) + 1,
         NEW c, c = sent[k].command, c.op \in Blocks,
         NEW words, NEW upto, NEW body \in Seq(Text), block' = Opened(words, body, upto), words = Tokens(Line(c)),
         Len(body) <= Len(c.body), \A i \in 1..Len(body) : body[i] = BodyLine(c.body[i]),
         read' = StartOf(ends, k) + Len(WriteLines(c, Len(body))), Len(requests) \in Nat, Len(sent) \in Nat
  PROVE  Reading'
<1>1. block'[1].words = words /\ block'[1].body = body /\ block' # <<>>
  BY DEF Opened
<1>2. Len(requests) < Len(sent) /\ Len(requests) <= Len(sent)
  OBVIOUS
<1>3. Start(Len(requests) + 1)' = StartOf(ends, k)
  BY DEF Start, StartOf
<1>4. read' = Start(Len(requests) + 1)' + Len(WriteLines(c, Len(body)))
  BY <1>3
<1>. QED BY <1>1, <1>2, <1>4 DEF Reading

LEMMA ReadsInv ==
  ASSUME IInv, ServerReads
  PROVE  IInv'
<1>1. PICK l \in Text : l = NextLine /\ (Opens(l) \/ Answers(l) \/ Closes(l) \/ Continues(l))
  BY ReadsCases
<1>2. /\ read < Len(wire) /\ read' = read + Len(l) + 1
      /\ wire' = wire /\ sent' = sent /\ ends' = ends /\ broken' = broken
  BY <1>1, ReadsCases
<1>3. WireTypes' /\ TypeOK'
  BY ReadsTypes
<1>4. \A k \in DOMAIN sent : Built(sent[k].command)
  BY DEF IInv, WireInv
<1>5. Len(sent) \in Nat /\ DOMAIN sent = 1..Len(sent) /\ Len(requests) \in Nat
  BY SequenceIs DEF IInv, WireTypes
<1>6. ASSUME Intact PROVE WireOfCommands' /\ RequestsOfCommands' /\ Reading'
  <2>1. WireOfCommands /\ RequestsOfCommands /\ Reading
    BY <1>6 DEF IInv, WireInv
  <2>2. WireOfCommands'
    BY <1>2, <2>1 DEF WireOfCommands, Start
  <2>3. PICK k, c : k = Len(requests) + 1 /\ c = sent[k].command
    OBVIOUS
  <2>4. requests' = requests => RequestsOfCommands'
    BY <1>2, <2>1 DEF RequestsOfCommands
  <2>5. CASE block = <<>>
    <3>1. /\ k \in 1..Len(sent) /\ l = Line(c) /\ read = StartOf(ends, k) /\ StartOf(ends, k) \in Nat
          /\ ends[k] = StartOf(ends, k) + Len(Written(c))
      BY <1>1, <1>2, <1>6, <2>3, <2>5, ReadsHeader
    <3>2. Whole(c) /\ Built(c) /\ ~OpensBlock(c)
      BY <1>4, <1>5, <1>6, <2>3, <3>1 DEF Intact, Whole
    <3>3. Opens(l) <=> c.op \in Blocks
      BY <1>1, <2>5, <3>1, <3>2, HeaderTells DEF Opens, Answers, Closes, Continues
    <3>4. Len(l) \in Nat /\ Len(c.body) \in Nat /\ 0 \in 0..Len(c.body)
      <4>1. Len(l) \in Nat /\ Len(c.body) \in Nat
        BY <1>1, <3>2, BodyIn DEF Text
      <4>. QED BY <4>1
    <3>5. CASE c.op \in Blocks
      <4>1. Opens(l)
        BY <3>3, <3>5
      <4>2. Len(WriteLines(c, 0)) = Len(l) + 1
        BY <3>1, <3>2, <3>4, <3>5, LinesOfBlock
      <4>3. read' = StartOf(ends, k) + Len(WriteLines(c, 0))
        BY <1>2, <3>1, <3>4, <4>2
      <4>4. PICK upto : block' = Opened(Tokens(l), <<>>, upto) /\ requests' = requests
        BY <4>1 DEF Opens
      <4>5. PICK none \in Seq(Text) : none = <<>> /\ Len(none) = 0
        <5>1. <<>> \in Seq(Text) /\ Len(<<>>) = 0
          OBVIOUS
        <5>. QED BY <5>1, Zenon
      <4>6. Reading'
        <5>0. PICK words : words = Tokens(l)
          OBVIOUS
        <5>1. /\ block' = Opened(words, none, upto) /\ words = Tokens(Line(c))
              /\ read' = StartOf(ends, k) + Len(WriteLines(c, Len(none)))
              /\ Len(none) <= Len(c.body) /\ requests' = requests
          BY <3>1, <3>4, <4>3, <4>4, <4>5, <5>0
        <5>2. \A i \in 1..Len(none) : none[i] = BodyLine(c.body[i])
          BY <4>5
        <5>3. k \in 1..Len(sent) /\ c.op \in Blocks
          BY <3>1, <3>5
        <5>. QED BY <1>2, <1>5, <2>3, <5>1, <5>2, <5>3, InBlock
      <4>. QED BY <2>2, <2>4, <4>4, <4>6
    <3>6. CASE c.op \notin Blocks
      <4>1. Answers(l)
        BY <1>1, <2>5, <3>3, <3>6 DEF Closes, Continues
      <4>2. Len(Written(c)) = Len(l) + 1 /\ c.body = <<>>
        BY <3>1, <3>2, <3>6, LinesOfOne
      <4>3. read' = ends[k]
        BY <1>2, <3>1, <3>4, <4>2
      <4>4. <<>> = [i \in DOMAIN c.body |-> BodyLine(c.body[i])]
        BY <4>2
      <4>5. /\ requests' = Append(requests, Asked(Tokens(Line(c)), [i \in DOMAIN c.body |-> BodyLine(c.body[i])], ends[k]))
            /\ block' = <<>>
        BY <3>1, <4>1, <4>3, <4>4, Zenon DEF Answers
      <4>. QED BY <1>2, <2>1, <2>2, <2>3, <3>1, <4>3, <4>5, RequestMade
    <3>. QED BY <3>5, <3>6
  <2>6. CASE block # <<>>
    <3>1. PICK words, upto : \E body \in Seq(Text) : block = Opened(words, body, upto)
      BY <2>6 DEF IInv, WireTypes, IsBlock
    <3>2. PICK body \in Seq(Text) : block = Opened(words, body, upto)
      BY <3>1
    <3>3. block[1].words = words /\ block[1].body = body /\ Len(body) \in Nat
      BY <3>2 DEF Opened
    <3>4. PICK n : n = Len(body)
      OBVIOUS
    <3>5. /\ k \in 1..Len(sent) /\ Built(c) /\ c.op \in Blocks /\ n \in 0..Len(c.body) /\ Len(c.body) \in Nat
          /\ words = Tokens(Line(c)) /\ \A i \in 1..n : body[i] = BodyLine(c.body[i])
          /\ n < Len(c.body) => /\ l = BodyLine(c.body[n + 1]) /\ l # EndLine
                                /\ read + Len(l) + 1 = StartOf(ends, k) + Len(WriteLines(c, n + 1))
          /\ n = Len(c.body) => l = EndLine /\ read + Len(l) + 1 = ends[k]
      <4>1. n = Len(block[1].body)
        BY <3>3, <3>4
      <4>. QED BY <1>1, <1>6, <2>3, <2>6, <3>3, <4>1, ReadsBody
    <3>6. CASE n = Len(c.body)
      <4>1. Closes(l) /\ read' = ends[k]
        BY <1>1, <1>2, <2>6, <3>5, <3>6 DEF Opens, Answers, Continues
      <4>2. body = [i \in DOMAIN c.body |-> BodyLine(c.body[i])]
        <5>1. DOMAIN c.body = 1..n /\ DOMAIN body = 1..n
          <6>1. DOMAIN c.body = 1..Len(c.body)
            BY <3>5, BodyIn
          <6>2. DOMAIN body = 1..Len(body)
            BY <3>2
          <6>. QED BY <3>4, <3>6, <6>1, <6>2, Zenon
        <5>2. body = [i \in 1..n |-> body[i]]
          BY <3>2, <3>4
        <5>3. [i \in 1..n |-> body[i]] = [i \in 1..n |-> BodyLine(c.body[i])]
          BY <3>5
        <5>. QED BY <5>1, <5>2, <5>3, Zenon
      <4>3. /\ requests' = Append(requests, Asked(Tokens(Line(c)), [i \in DOMAIN c.body |-> BodyLine(c.body[i])], ends[k]))
            /\ block' = <<>>
        BY <3>3, <3>5, <4>1, <4>2, Zenon DEF Closes
      <4>. QED BY <1>2, <2>1, <2>2, <2>3, <3>5, <4>1, <4>3, RequestMade
    <3>7. CASE n < Len(c.body)
      <4>1. Continues(l)
        BY <1>1, <2>6, <3>5, <3>7 DEF Opens, Answers, Closes
      <4>2. PICK words2, upto2 : \E body2 \in Seq(Text) :
              block = Opened(words2, body2, upto2) /\ block' = Opened(words2, Append(body2, l), upto2)
        BY <4>1 DEF Continues
      <4>3. PICK body2 \in Seq(Text) :
              block = Opened(words2, body2, upto2) /\ block' = Opened(words2, Append(body2, l), upto2)
        BY <4>2
      <4>4. words2 = words /\ body2 = body
        <5>1. block[1].words = words2 /\ block[1].body = body2
          BY <4>3 DEF Opened
        <5>. QED BY <3>3, <5>1
      <4>5. PICK more \in Seq(Text) : more = Append(body, l)
        <5>1. Append(body, l) \in Seq(Text)
          BY <1>1, <3>2
        <5>. QED BY <5>1, Zenon
      <4>6. Len(more) = n + 1 /\ \A i \in 1..n + 1 : more[i] = IF i = n + 1 THEN l ELSE body[i]
        BY <1>1, <3>2, <3>4, <4>5
      <4>7. \A i \in 1..Len(more) : more[i] = BodyLine(c.body[i])
        <5>1. ASSUME NEW i \in 1..n + 1 PROVE more[i] = BodyLine(c.body[i])
          <6>1. i = n + 1 \/ i \in 1..n
            BY <3>3, <3>4
          <6>2. i \in 1..n => i # n + 1
            BY <3>3, <3>4
          <6>. QED BY <3>5, <3>7, <4>6, <6>1, <6>2
        <5>. QED BY <4>6, <5>1
      <4>8. /\ Len(more) <= Len(c.body) /\ block' = Opened(words, more, upto2) /\ requests' = requests
            /\ read' = StartOf(ends, k) + Len(WriteLines(c, Len(more)))
        <5>1. requests' = requests
          BY <4>1 DEF Continues
        <5>2. Len(more) <= Len(c.body)
          BY <3>3, <3>4, <3>5, <3>7, <4>6
        <5>3. block' = Opened(words, more, upto2)
          BY <4>3, <4>4, <4>5
        <5>4. read' = StartOf(ends, k) + Len(WriteLines(c, n + 1))
          BY <1>2, <3>5, <3>7
        <5>. QED BY <4>6, <5>1, <5>2, <5>3, <5>4
      <4>9. Reading'
        BY <1>2, <1>5, <2>3, <3>5, <4>7, <4>8, InBlock
      <4>. QED BY <2>2, <2>4, <4>8, <4>9
    <3>. QED BY <3>5, <3>6, <3>7
  <2>. QED BY <2>5, <2>6
<1>7. (\A k \in DOMAIN sent' : Built(sent'[k].command)) /\ (Intact' => Intact)
  BY <1>2, <1>4 DEF Intact
<1>. QED BY <1>3, <1>6, <1>7 DEF IInv, WireInv


LEMMA StepInv ==
  ASSUME IInv, [ConsoleNext]_vars
  PROVE  IInv'
<1>1. ASSUME NEW c, c \in Inputs \cup Later, Encode(c, <<>>, <<>>) \/ EncodeRejected(c) PROVE IInv'
  <2>1. c \in Sendable
    BY <1>1 DEF Sendable
  <2>2. Built(c)
    BY <2>1, ConsoleAssumption
  <2>. QED BY <1>1, <2>2, EncodeInv, RejectedInv
<1>2. ASSUME NEW raw, NEW l \in TypedLines, SendCommand(raw, l) PROVE IInv'
  <2>1. FromStr(l) \in Sendable
    BY <1>2, Zenon DEF Sendable, SendCommand
  <2>2. Built(FromStr(l))
    BY <2>1, ConsoleAssumption
  <2>3. PICK label : Encode(FromStr(l), l, label)
    BY <1>2, Zenon DEF SendCommand
  <2>. QED BY <2>2, <2>3, EncodeInv
<1>3. ASSUME NEW f \in Fields, Press(f) PROVE IInv'
  <2>1. PICK o \in Operations(f) : Encode(o.command, <<>>, o.label)
    BY <1>3, Zenon DEF Press
  <2>2. o.command \in Sendable
    <3>1. o.command \in {p.command : p \in UNION {Operations(g) : g \in Fields}}
      BY <1>3, Zenon
    <3>. QED BY <3>1, Zenon DEF Sendable
  <2>3. Built(o.command)
    BY <2>2, ConsoleAssumption
  <2>. QED BY <2>1, <2>3, EncodeInv
<1>4. CASE ServerReads
  BY <1>4, ReadsInv
<1>5. CASE UNCHANGED vars
  BY <1>5, StutterInv
<1>. QED BY <1>1, <1>2, <1>3, <1>4, <1>5, Zenon DEF ConsoleNext, Next

LEMMA InvOneRequestEach == IInv => OneRequestEach
<1>. SUFFICES ASSUME IInv, Intact
              PROVE  /\ \A k \in DOMAIN requests : k <= Len(sent) /\ requests[k].upto = ends[k]
                     /\ read = Len(wire) => Len(requests) = Len(sent)
  BY DEF OneRequestEach, RequestPerCommand
<1>1. WireOfCommands /\ RequestsOfCommands /\ Reading /\ WireTypes
  BY DEF IInv, WireInv
<1>2. /\ Len(sent) \in Nat /\ DOMAIN sent = 1..Len(sent) /\ Len(requests) \in Nat
      /\ DOMAIN requests = 1..Len(requests)
  BY <1>1, SequenceIs DEF WireTypes
<1>3. Len(requests) <= Len(sent)
  BY <1>1 DEF Reading
<1>4. ASSUME NEW k \in DOMAIN requests PROVE k <= Len(sent) /\ requests[k].upto = ends[k]
  <2>1. k <= Len(sent)
    BY <1>2, <1>3
  <2>2. requests[k].upto = ends[k]
    BY <1>1 DEF RequestsOfCommands
  <2>. QED BY <2>1, <2>2
<1>5. ASSUME Len(requests) # Len(sent) PROVE read < Len(wire)
  <2>1. PICK k, c : k = Len(requests) + 1 /\ c = sent[k].command
    OBVIOUS
  <2>2. k \in 1..Len(sent)
    <3>1. PICK done, all : done = Len(requests) /\ all = Len(sent)
      OBVIOUS
    <3>2. done \in Nat /\ all \in Nat /\ done <= all /\ done # all
      BY <1>2, <1>3, <1>5, <3>1
    <3>3. done + 1 \in 1..all
      BY <3>2
    <3>. QED BY <2>1, <3>1, <3>3
  <2>3. CASE block # <<>>
    <3>1. PICK n : n = Len(block[1].body)
      OBVIOUS
    <3>. QED BY <2>1, <2>3, <3>1, ReadsBody
  <2>4. CASE block = <<>>
    <3>1. Built(c)
      BY <1>2, <2>1, <2>2 DEF IInv, WireInv
    <3>2. Len(Written(c)) \in Nat /\ Len(Written(c)) >= 1
      BY <3>1, WrittenIn
    <3>3. ends[k] = Start(k) + Len(Written(c)) /\ ends[k] <= Len(wire) /\ read = Start(k)
      BY <1>1, <1>2, <2>1, <2>2, <2>4 DEF WireOfCommands, Reading
    <3>4. read \in Nat /\ wire \in Text
      BY <1>1 DEF WireTypes
    <3>5. Len(wire) \in Nat
      BY <3>4 DEF Text
    <3>. QED BY <3>2, <3>3, <3>4, <3>5
  <2>. QED BY <2>3, <2>4
<1>6. Len(wire) \in Nat
  BY <1>1 DEF WireTypes, Text
<1>. QED BY <1>4, <1>5, <1>6

(***************************************************************************)
(* What is on the wire is what encode wrote of the commands, the requests  *)
(* are the commands, and the server is where the commands say, whatever    *)
(* is built, typed and entered, for as long as what was written is intact. *)
(***************************************************************************)
THEOREM WireInvariant == ConsoleSpec => []WireInv
<1>1. Init => IInv
  BY InitInv
<1>2. IInv /\ [ConsoleNext]_vars => IInv'
  BY StepInv
<1>3. IInv => WireInv
  BY DEF IInv
<1>. QED BY <1>1, <1>2, <1>3, PTL DEF ConsoleSpec

(***************************************************************************)
(* The server makes one request of each command and none of the bytes of   *)
(* two: wire_safe and write_block leave nothing in an argument or a body   *)
(* that ends a line or a block.  What they do not see is excepted: a block *)
(* rejected in the middle, a line sent as it is that opens a block, and    *)
(* the protocol of a kill, which encode writes as it is.                   *)
(***************************************************************************)
THEOREM RequestsAreCommands == ConsoleSpec => []OneRequestEach
<1>1. Init => IInv
  BY InitInv
<1>2. IInv /\ [ConsoleNext]_vars => IInv'
  BY StepInv
<1>. QED BY <1>1, <1>2, InvOneRequestEach, PTL DEF ConsoleSpec
-----------------------------------------------------------------------------
(***************************************************************************)
(* What the lexer makes of a line: the arguments, one after the other.     *)
(***************************************************************************)
Backslash == "\\"

LEMMA MarksApart ==
  /\ Space \in Atoms /\ QuoteMark \in Atoms /\ Backslash \in Atoms
  /\ Space # QuoteMark /\ Space # Backslash /\ QuoteMark # Backslash
<1>1. Space \in Marks /\ QuoteMark \in Marks /\ Backslash \in Marks
  BY Zenon DEF Marks, Space, QuoteMark, Backslash
<1>2. Space # QuoteMark /\ Space # Backslash /\ QuoteMark # Backslash
  BY Zenon DEF Space, QuoteMark, Backslash
<1>. QED BY <1>1, <1>2, PlainTexts

\* One atom more, in each mode.
LEMMA ReadBetween ==
  ASSUME NEW v \in Text, NEW ts \in Seq(Text), Lexed(v) = State("between", <<>>, ts)
  PROVE  /\ Lexed(Append(v, Space)) = State("between", <<>>, ts)
         /\ Lexed(Append(v, QuoteMark)) = State("quoted", <<>>, ts)
         /\ \A x \in Atoms : x # Space /\ x # QuoteMark => Lexed(Append(v, x)) = State("bare", Append(<<>>, x), ts)
<1>1. \A x \in Atoms : Lexed(Append(v, x)) = Lex(State("between", <<>>, ts), x) /\ <<x>> = Append(<<>>, x)
  BY LexAppend, OneIn
<1>2. <<>> \in Text /\ "between" \in LexModes
  BY OneIn DEF Text, LexModes
<1>3. \A x \in Atoms : /\ x = Space => Lex(State("between", <<>>, ts), x) = State("between", <<>>, ts)
                       /\ x = QuoteMark => Lex(State("between", <<>>, ts), x) = State("quoted", <<>>, ts)
                       /\ x # Space /\ x # QuoteMark => Lex(State("between", <<>>, ts), x) = State("bare", <<x>>, ts)
  BY <1>2, LexState, Zenon DEF Space, QuoteMark
<1>. QED BY <1>1, <1>3, MarksApart

LEMMA ReadBare ==
  ASSUME NEW v \in Text, NEW ts \in Seq(Text), NEW t \in Text, Lexed(v) = State("bare", t, ts)
  PROVE  /\ Lexed(Append(v, Space)) = State("between", <<>>, Append(ts, t))
         /\ \A x \in Atoms : x # Space => Lexed(Append(v, x)) = State("bare", Append(t, x), ts)
<1>1. \A x \in Atoms : Lexed(Append(v, x)) = Lex(State("bare", t, ts), x)
  BY LexAppend
<1>2. "bare" \in LexModes
  BY DEF LexModes
<1>3. \A x \in Atoms : /\ x = Space => Lex(State("bare", t, ts), x) = State("between", <<>>, Append(ts, t))
                       /\ x # Space => Lex(State("bare", t, ts), x) = State("bare", Append(t, x), ts)
  BY <1>2, LexState, Zenon DEF Space
<1>. QED BY <1>1, <1>3, MarksApart

LEMMA ReadQuoted ==
  ASSUME NEW v \in Text, NEW ts \in Seq(Text), NEW t \in Text, Lexed(v) = State("quoted", t, ts)
  PROVE  /\ Lexed(Append(v, QuoteMark)) = State("between", <<>>, Append(ts, t))
         /\ Lexed(Append(v, Backslash)) = State("escaped", t, ts)
         /\ \A x \in Atoms : x # Backslash /\ x # QuoteMark => Lexed(Append(v, x)) = State("quoted", Append(t, x), ts)
<1>1. \A x \in Atoms : Lexed(Append(v, x)) = Lex(State("quoted", t, ts), x)
  BY LexAppend
<1>2. "quoted" \in LexModes
  BY DEF LexModes
<1>3. \A x \in Atoms : /\ x = QuoteMark => Lex(State("quoted", t, ts), x) = State("between", <<>>, Append(ts, t))
                       /\ x = Backslash => Lex(State("quoted", t, ts), x) = State("escaped", t, ts)
                       /\ x # Backslash /\ x # QuoteMark => Lex(State("quoted", t, ts), x) = State("quoted", Append(t, x), ts)
  BY <1>2, LexState, Zenon DEF QuoteMark, Backslash
<1>. QED BY <1>1, <1>3, MarksApart

LEMMA ReadEscaped ==
  ASSUME NEW v \in Text, NEW ts \in Seq(Text), NEW t \in Text, Lexed(v) = State("escaped", t, ts), NEW x \in Atoms
  PROVE  Lexed(Append(v, x)) = State("quoted", Append(t, x), ts)
<1>1. Lexed(Append(v, x)) = Lex(State("escaped", t, ts), x)
  BY LexAppend
<1>2. "escaped" \in LexModes
  BY DEF LexModes
<1>3. Lex(State("escaped", t, ts), x) = State("quoted", Append(t, x), ts)
  BY <1>2, LexState, Zenon
<1>. QED BY <1>1, <1>3

\* ws is what the lexer has read of v.
Done(v, ws) ==
  \/ Lexed(v) = State("between", <<>>, ws)
  \/ \E us \in Seq(Text) : \E u \in Text : ws = Append(us, u) /\ Lexed(v) = State("bare", u, us)

LEMMA DoneTokens ==
  ASSUME NEW v \in Text, NEW ws, Done(v, ws)
  PROVE  Tokens(v) = ws
<1>1. \A m, u, us : State(m, u, us).m = m /\ State(m, u, us).token = u /\ State(m, u, us).tokens = us
  BY DEF State
<1>2. CASE Lexed(v) = State("between", <<>>, ws)
  <2>1. Lexed(v).m = "between" /\ Lexed(v).tokens = ws
    BY <1>1, <1>2
  <2>. QED BY <2>1, TokensAre
<1>3. ASSUME NEW us \in Seq(Text), NEW u \in Text, ws = Append(us, u), Lexed(v) = State("bare", u, us)
      PROVE  Tokens(v) = ws
  <2>1. Lexed(v).m = "bare" /\ Lexed(v).tokens = us /\ Lexed(v).token = u
    BY <1>1, <1>3
  <2>. QED BY <1>3, <2>1, TokensAre
<1>. QED BY <1>2, <1>3 DEF Done

LEMMA DoneSpace ==
  ASSUME NEW v \in Text, NEW ws \in Seq(Text), Done(v, ws)
  PROVE  Lexed(Append(v, Space)) = State("between", <<>>, ws)
<1>1. CASE Lexed(v) = State("between", <<>>, ws)
  BY <1>1, ReadBetween
<1>2. ASSUME NEW us \in Seq(Text), NEW u \in Text, ws = Append(us, u), Lexed(v) = State("bare", u, us)
      PROVE  Lexed(Append(v, Space)) = State("between", <<>>, ws)
  BY <1>2, ReadBare
<1>. QED BY <1>1, <1>2 DEF Done

LEMMA TwoMore ==
  ASSUME NEW b \in Text, NEW e \in Text, NEW y \in Atoms, NEW x \in Atoms
  PROVE  b \o (e \o <<y, x>>) = Append(Append(b \o e, y), x)
<1>1. e \o <<y, x>> = Append(Append(e, y), x)
  BY DEF Text
<1>2. Append(e, y) \in Text
  BY TextsAppend
<1>3. b \o Append(Append(e, y), x) = Append(b \o Append(e, y), x) /\ b \o Append(e, y) = Append(b \o e, y)
  BY <1>2, TextsAppend
<1>. QED BY <1>1, <1>3

\* A quoted text is read back whole: escape is undone.
LEMMA EscapedRead ==
  ASSUME NEW b \in Text, NEW ts \in Seq(Text), Lexed(b) = State("quoted", <<>>, ts), NEW q \in Text
  PROVE  Escape(q) \in Text /\ Lexed(b \o Escape(q)) = State("quoted", q, ts)
<1>. DEFINE S == {t \in Text : Escape(t) \in Text /\ Lexed(b \o Escape(t)) = State("quoted", t, ts)}
<1>1. Escape(<<>>) = <<>> /\ \A t \in Text, x \in Atoms : Escape(t) \in Text /\ Escape(Append(t, x)) = Escape(t) \o Escaped(x)
  BY MarksApart, EscapeAppend DEF Text, Backslash
<1>2. <<>> \in S
  BY <1>1, TextsAppend, MarksApart
<1>3. ASSUME NEW t \in Text, NEW x \in Atoms, t \in S PROVE Append(t, x) \in S
  <2>1. PICK e \in Text : e = Escape(t) /\ Lexed(b \o e) = State("quoted", t, ts)
    BY <1>1, <1>3
  <2>2. Append(t, x) \in Text /\ Escape(Append(t, x)) = e \o Escaped(x) /\ Escape(Append(t, x)) \in Text
    BY <1>1, <2>1, TextsAppend
  <2>3. PICK v \in Text : v = b \o e
    BY TextConcat
  <2>4. Lexed(v) = State("quoted", t, ts)
    BY <2>1, <2>3
  <2>5. CASE x = Backslash \/ x = QuoteMark
    <3>1. Escaped(x) = <<Backslash, x>>
      BY <2>5, Zenon DEF Escaped, Backslash, QuoteMark
    <3>2. b \o (e \o <<Backslash, x>>) = Append(Append(v, Backslash), x)
      BY <2>3, MarksApart, TwoMore
    <3>3. Append(v, Backslash) \in Text
      BY MarksApart, TextsAppend
    <3>4. Lexed(Append(v, Backslash)) = State("escaped", t, ts)
      BY <2>4, ReadQuoted
    <3>5. Lexed(Append(Append(v, Backslash), x)) = State("quoted", Append(t, x), ts)
      BY <3>3, <3>4, ReadEscaped
    <3>. QED BY <2>2, <3>1, <3>2, <3>5
  <2>6. CASE x # Backslash /\ x # QuoteMark
    <3>1. Escaped(x) = <<x>>
      BY <2>6, Zenon DEF Escaped, Backslash, QuoteMark
    <3>2. b \o (e \o <<x>>) = Append(v, x)
      BY <2>3 DEF Text
    <3>3. Lexed(Append(v, x)) = State("quoted", Append(t, x), ts)
      BY <2>4, <2>6, ReadQuoted
    <3>. QED BY <2>2, <3>1, <3>2, <3>3
  <2>. QED BY <2>5, <2>6
<1>. HIDE DEF S
<1>4. \A t \in Text : t \in S
  BY <1>2, <1>3, ByAppend DEF Text
<1>. QED BY <1>4 DEF S

LEMMA QuotedRead ==
  ASSUME NEW v \in Text, NEW ts \in Seq(Text), Lexed(v) = State("between", <<>>, ts), NEW q \in Text
  PROVE  Quote(Escape(q)) \in Text /\ Lexed(v \o Quote(Escape(q))) = State("between", <<>>, Append(ts, q))
<1>1. PICK b \in Text : b = Append(v, QuoteMark)
  BY MarksApart, TextsAppend
<1>2. Lexed(b) = State("quoted", <<>>, ts)
  BY <1>1, ReadBetween
<1>3. PICK e \in Text : e = Escape(q) /\ Lexed(b \o e) = State("quoted", q, ts)
  BY <1>2, EscapedRead
<1>4. b \o e \in Text
  BY TextConcat
<1>5. Lexed(Append(b \o e, QuoteMark)) = State("between", <<>>, Append(ts, q))
  BY <1>3, <1>4, ReadQuoted
<1>6. PICK m \in Atoms : m = QuoteMark
  BY MarksApart
<1>7. <<m>> \o e \o <<m>> \in Text /\ v \o (<<m>> \o e \o <<m>>) = Append(Append(v, m) \o e, m)
  BY DEF Text
<1>8. Quote(Escape(q)) = <<m>> \o e \o <<m>>
  BY <1>3, <1>6, Zenon DEF Quote, QuoteMark
<1>. QED BY <1>1, <1>5, <1>6, <1>7, <1>8

\* A bare text without space or quote is a token.
WordAtoms == Atoms \ {Space, QuoteMark}

LEMMA BareRead ==
  ASSUME NEW v \in Text, NEW ts \in Seq(Text), Lexed(v) = State("between", <<>>, ts),
         NEW w \in Seq(WordAtoms), w # <<>>
  PROVE  w \in Text /\ Lexed(v \o w) = State("bare", w, ts)
<1>. DEFINE S == {t \in Text : t = <<>> \/ Lexed(v \o t) = State("bare", t, ts)}
<1>1. <<>> \in S
  BY OneIn DEF Text
<1>2. ASSUME NEW t \in Seq(WordAtoms), NEW x \in WordAtoms, t \in S PROVE Append(t, x) \in S
  <2>1. x \in Atoms /\ x # Space /\ x # QuoteMark /\ t \in Text
    BY <1>2 DEF WordAtoms
  <2>2. v \o Append(t, x) = Append(v \o t, x) /\ v \o t \in Text /\ Append(t, x) \in Text
    BY <2>1, TextsAppend, ZenonT(40)
  <2>3. CASE t = <<>>
    <3>1. Lexed(Append(v, x)) = State("bare", Append(t, x), ts) /\ v \o t = v
      BY <2>1, <2>3, ReadBetween, TextsAppend
    <3>. QED BY <2>2, <3>1
  <2>4. CASE t # <<>>
    <3>1. Lexed(v \o t) = State("bare", t, ts)
      BY <1>2, <2>4
    <3>2. Lexed(Append(v \o t, x)) = State("bare", Append(t, x), ts)
      BY <2>1, <2>2, <3>1, ReadBare
    <3>. QED BY <2>2, <3>2
  <2>. QED BY <2>3, <2>4
<1>. HIDE DEF S
<1>3. \A t \in Seq(WordAtoms) : t \in S
  BY <1>1, <1>2, ByAppend
<1>. QED BY <1>3 DEF S

\* Of a text without a quote the lexer reads the words.
ValueAtoms == Atoms \ {QuoteMark}
Empty == {<<>>}

LEMMA WordsOf ==
  ASSUME NEW t
  PROVE  Words(t) = Without(Split(t, Space), Empty)
BY Zenon DEF Words, Space, Empty

LEMMA SplitMore ==
  ASSUME NEW t \in Text, NEW x \in Atoms, NEW ps \in Seq(Text), NEW l \in Text, Split(t, Space) = Append(ps, l)
  PROVE  /\ x = Space => Split(Append(t, x), Space) = Append(Append(ps, l), <<>>)
         /\ x # Space => Split(Append(t, x), Space) = Append(ps, Append(l, x))
<1>1. Split(Append(t, x), Space) = SplitAt(Append(ps, l), x, Space)
  BY SplitFacts DEF Text
<1>2. Front(Append(ps, l)) = ps /\ Last(Append(ps, l)) = l
  BY DEF Front, Last
<1>3. Append(l, x) \in Text
  BY TextsAppend
<1>4. ps \o <<Append(l, x)>> = Append(ps, Append(l, x))
  <2>1. PICK m \in Text : m = Append(l, x)
    BY <1>3
  <2>2. ps \o <<m>> = Append(ps, m)
    OBVIOUS
  <2>. QED BY <2>1, <2>2
<1>. QED BY <1>1, <1>2, <1>4, Zenon DEF SplitAt

Kept(ps) == Without(ps, Empty)

LEMMA KeptFacts ==
  ASSUME NEW ps \in Seq(Text), NEW l \in Text
  PROVE  /\ Kept(<<>>) = <<>> /\ Kept(ps) \in Seq(Text)
         /\ l = <<>> => Kept(Append(ps, l)) = Kept(ps)
         /\ l # <<>> => Kept(Append(ps, l)) = Append(Kept(ps), l)
<1>1. l \in Empty <=> l = <<>>
  BY DEF Empty
<1>2. Kept(<<>>) = <<>>
  BY WithoutFacts DEF Kept
<1>3. /\ Kept(ps) \in Seq(Text)
      /\ l \in Empty => Kept(Append(ps, l)) = Kept(ps)
      /\ l \notin Empty => Kept(Append(ps, l)) = Append(Kept(ps), l)
  BY WithoutAppend DEF Kept
<1>. QED BY <1>1, <1>2, <1>3

\* Where the lexer is after the words known and the atoms l of another.
ReadSoFar(v, known, l) ==
  /\ l = <<>> => Lexed(v) = State("between", <<>>, known)
  /\ l # <<>> => Lexed(v) = State("bare", l, known)

LEMMA ReadMore ==
  ASSUME NEW v \in Text, NEW known \in Seq(Text), NEW l \in Text, ReadSoFar(v, known, l), NEW x \in ValueAtoms
  PROVE  /\ x = Space /\ l = <<>> => ReadSoFar(Append(v, x), known, <<>>)
         /\ x = Space /\ l # <<>> => ReadSoFar(Append(v, x), Append(known, l), <<>>)
         /\ x # Space => ReadSoFar(Append(v, x), known, Append(l, x))
<1>1. x \in Atoms /\ x # QuoteMark
  BY DEF ValueAtoms
<1>2. Append(l, x) \in Text /\ Append(l, x) # <<>>
  BY <1>1, AppendOne DEF Text
<1>3. CASE l = <<>>
  <2>1. Lexed(v) = State("between", <<>>, known)
    BY <1>3 DEF ReadSoFar
  <2>2. /\ Lexed(Append(v, Space)) = State("between", <<>>, known)
        /\ x # Space => Lexed(Append(v, x)) = State("bare", Append(l, x), known)
    BY <1>1, <1>3, <2>1, ReadBetween
  <2>. QED BY <1>2, <1>3, <2>2 DEF ReadSoFar
<1>4. CASE l # <<>>
  <2>1. Lexed(v) = State("bare", l, known)
    BY <1>4 DEF ReadSoFar
  <2>2. /\ Lexed(Append(v, Space)) = State("between", <<>>, Append(known, l))
        /\ x # Space => Lexed(Append(v, x)) = State("bare", Append(l, x), known)
    BY <1>1, <2>1, ReadBare
  <2>. QED BY <1>2, <1>4, <2>2 DEF ReadSoFar
<1>. QED BY <1>3, <1>4

\* After v, which has been read as ts, and t: the pieces of t, the last of them apart.
Fits(v, ts, t, ps, l) ==
  Split(t, Space) = Append(ps, l) /\ ReadSoFar(v \o t, ts \o Kept(ps), l)

LEMMA TextRight ==
  ASSUME NEW v \in Text, NEW t \in Text, NEW x \in Atoms
  PROVE  v \o Append(t, x) = Append(v \o t, x) /\ v \o t \in Text
BY TextsAppend, ZenonT(40)

LEMMA FitsMore ==
  ASSUME NEW v \in Text, NEW ts \in Seq(Text), NEW t \in Text, NEW ps \in Seq(Text), NEW l \in Text,
         Fits(v, ts, t, ps, l), NEW x \in ValueAtoms
  PROVE  \E qs \in Seq(Text) : \E m \in Text : Fits(v, ts, Append(t, x), qs, m)
<1>1. x \in Atoms
  BY DEF ValueAtoms
<1>2. Split(t, Space) = Append(ps, l) /\ ReadSoFar(v \o t, ts \o Kept(ps), l)
  BY DEF Fits
<1>3. v \o Append(t, x) = Append(v \o t, x) /\ v \o t \in Text /\ Append(l, x) \in Text /\ <<>> \in Text
  <2>1. v \o Append(t, x) = Append(v \o t, x) /\ v \o t \in Text
    BY <1>1, TextRight
  <2>2. Append(l, x) \in Text /\ <<>> \in Text
    BY <1>1, TextsAppend
  <2>. QED BY <2>1, <2>2
<1>4. PICK ks \in Seq(Text) : ks = Kept(ps)
  BY KeptFacts
<1>5. PICK known \in Seq(Text) : known = ts \o ks
  BY ConcatIs
<1>6. /\ x = Space /\ l = <<>> => ReadSoFar(Append(v \o t, x), known, <<>>)
      /\ x = Space /\ l # <<>> => ReadSoFar(Append(v \o t, x), Append(known, l), <<>>)
      /\ x # Space => ReadSoFar(Append(v \o t, x), known, Append(l, x))
  BY <1>2, <1>3, <1>4, <1>5, ReadMore
<1>7. PICK more \in Seq(Text) : more = Append(ps, l)
  BY AppendOne
<1>8. /\ x = Space => Split(Append(t, x), Space) = Append(Append(ps, l), <<>>)
      /\ x # Space => Split(Append(t, x), Space) = Append(ps, Append(l, x))
  BY <1>1, <1>2, SplitMore, ZenonT(40)
<1>9. CASE x = Space
  <2>1. ts \o Append(ks, l) = Append(known, l)
    BY <1>5
  <2>2. ReadSoFar(Append(v \o t, x), ts \o Kept(more), <<>>)
    <3>1. CASE l = <<>>
      <4>1. Kept(more) = ks
        BY <1>4, <1>7, <3>1, KeptFacts
      <4>. QED BY <1>5, <1>6, <1>9, <3>1, <4>1
    <3>2. CASE l # <<>>
      <4>1. Kept(more) = Append(ks, l)
        BY <1>4, <1>7, <3>2, KeptFacts
      <4>. QED BY <1>6, <1>9, <2>1, <3>2, <4>1
    <3>. QED BY <3>1, <3>2
  <2>3. Fits(v, ts, Append(t, x), more, <<>>)
    BY <1>3, <1>7, <1>8, <1>9, <2>2 DEF Fits
  <2>. QED BY <1>3, <2>3
<1>10. CASE x # Space
  <2>1. Fits(v, ts, Append(t, x), ps, Append(l, x))
    BY <1>3, <1>4, <1>5, <1>6, <1>8, <1>10 DEF Fits
  <2>. QED BY <1>3, <2>1
<1>. QED BY <1>9, <1>10

LEMMA FitsAll ==
  ASSUME NEW v \in Text, NEW ts \in Seq(Text), Lexed(v) = State("between", <<>>, ts), NEW w \in Seq(ValueAtoms)
  PROVE  w \in Text /\ \E ps \in Seq(Text) : \E l \in Text : Fits(v, ts, w, ps, l)
<1>. DEFINE S == {t \in Text : \E ps \in Seq(Text) : \E l \in Text : Fits(v, ts, t, ps, l)}
<1>1. <<>> \in S
  <2>1. <<>> \in Text /\ <<>> \in Seq(Text) /\ v \o <<>> = v /\ ts \o <<>> = ts
    BY OneIn, TextsAppend, MarksApart DEF Text
  <2>2. Split(<<>>, Space) = Append(<<>>, <<>>)
    BY SplitFacts, OneIn, <2>1
  <2>3. Kept(<<>>) = <<>>
    BY <2>1, KeptFacts
  <2>4. Fits(v, ts, <<>>, <<>>, <<>>)
    BY <2>1, <2>2, <2>3 DEF Fits, ReadSoFar
  <2>. QED BY <2>1, <2>4
<1>2. ASSUME NEW t \in Seq(ValueAtoms), NEW x \in ValueAtoms, t \in S PROVE Append(t, x) \in S
  <2>1. x \in Atoms /\ t \in Text
    BY <1>2 DEF ValueAtoms
  <2>2. Append(t, x) \in Text
    BY <2>1, TextsAppend
  <2>3. PICK ps \in Seq(Text) : \E l \in Text : Fits(v, ts, t, ps, l)
    BY <1>2
  <2>4. PICK l \in Text : Fits(v, ts, t, ps, l)
    BY <2>3
  <2>5. \E qs \in Seq(Text) : \E m \in Text : Fits(v, ts, Append(t, x), qs, m)
    BY <2>1, <2>4, FitsMore
  <2>. QED BY <2>2, <2>5
<1>. HIDE DEF S
<1>3. \A t \in Seq(ValueAtoms) : t \in S
  BY <1>1, <1>2, ByAppend
<1>. QED BY <1>3 DEF S

LEMMA ValueRead ==
  ASSUME NEW v \in Text, NEW ts \in Seq(Text), Lexed(v) = State("between", <<>>, ts), NEW w \in Seq(ValueAtoms)
  PROVE  w \in Text /\ Words(w) \in Seq(Text) /\ Done(v \o w, ts \o Words(w))
<1>1. w \in Text /\ \E ps \in Seq(Text) : \E l \in Text : Fits(v, ts, w, ps, l)
  BY FitsAll
<1>2. PICK ps \in Seq(Text) : \E l \in Text : Fits(v, ts, w, ps, l)
  BY <1>1
<1>3. PICK l \in Text : Fits(v, ts, w, ps, l)
  BY <1>2
<1>4. PICK ks \in Seq(Text) : ks = Kept(ps)
  BY KeptFacts
<1>5. PICK known \in Seq(Text) : known = ts \o ks
  BY ConcatIs
<1>6. Words(w) = Kept(Append(ps, l)) /\ ReadSoFar(v \o w, known, l)
  BY <1>3, <1>4, <1>5, WordsOf DEF Kept, Fits
<1>7. CASE l = <<>>
  <2>1. Words(w) = ks
    BY <1>4, <1>6, <1>7, KeptFacts
  <2>. QED BY <1>1, <1>5, <1>6, <1>7, <2>1 DEF Done, ReadSoFar
<1>8. CASE l # <<>>
  <2>1. Words(w) = Append(ks, l)
    BY <1>4, <1>6, <1>8, KeptFacts
  <2>2. Append(ks, l) \in Seq(Text) /\ ts \o Append(ks, l) = Append(known, l)
    BY <1>5
  <2>3. Lexed(v \o w) = State("bare", l, known)
    BY <1>6, <1>8 DEF ReadSoFar
  <2>4. Done(v \o w, Append(known, l))
    BY <2>3 DEF Done
  <2>. QED BY <1>1, <2>1, <2>2, <2>4
<1>. QED BY <1>7, <1>8

-----------------------------------------------------------------------------
(***************************************************************************)
(* Meaning, one piece at a time, and what the lexer reads of a piece.      *)
(***************************************************************************)
LEMMA TokensIn ==
  ASSUME NEW t \in Text
  PROVE  Tokens(t) \in Seq(Text)
<1>1. Lexed(t) \in LexStates
  BY LexAppend, MarksApart
<1>2. Lexed(t).tokens \in Seq(Text) /\ Lexed(t).token \in Text
  BY <1>1 DEF LexStates
<1>3. Append(Lexed(t).tokens, Lexed(t).token) \in Seq(Text)
  BY <1>2
<1>. QED BY <1>2, <1>3, TokensAre

LEMMA WordsIn ==
  ASSUME NEW t \in Text
  PROVE  Words(t) \in Seq(Text)
<1>1. Split(t, Space) \in Seq(Text)
  BY SplitFacts DEF SplitTexts, Text
<1>. QED BY <1>1, WordsOf, WithoutFacts

LEMMA ReadsIs ==
  ASSUME NEW p \in PieceSet
  PROVE  /\ p.text \in Text /\ Safe(p.text) \in Text /\ Reads(p) \in Seq(Text)
         /\ p.kind = "value" => Reads(p) = Words(p.text) /\ Render(p) = p.text
         /\ p.kind = "line" => Reads(p) = Tokens(Safe(p.text)) /\ Render(p) = Safe(p.text)
         /\ p.kind = "address" => Reads(p) = <<p.text>> /\ Render(p) = p.text
         /\ p.kind = "bare" => Reads(p) = <<Safe(p.text)>> /\ Render(p) = Safe(p.text)
         /\ p.kind = "quoted" => Reads(p) = <<Safe(p.text)>> /\ Render(p) = Quote(Escape(Safe(p.text)))
<1>1. p.text \in Text /\ p.kind \in {"value", "bare", "quoted", "line", "address"}
  BY DEF PieceSet
<1>2. Safe(p.text) \in Text
  BY <1>1, SafePlain, PlainTexts
<1>3. /\ p.kind = "value" => Reads(p) = Words(p.text) /\ Render(p) = p.text
      /\ p.kind = "line" => Reads(p) = Tokens(Safe(p.text)) /\ Render(p) = Safe(p.text)
      /\ p.kind = "address" => Reads(p) = <<p.text>> /\ Render(p) = p.text
      /\ p.kind = "bare" => Reads(p) = <<Safe(p.text)>> /\ Render(p) = Safe(p.text)
      /\ p.kind = "quoted" => Reads(p) = <<Safe(p.text)>> /\ Render(p) = Quote(Escape(Safe(p.text)))
  BY DEF Reads, Render
<1>4. /\ Words(p.text) \in Seq(Text) /\ Tokens(Safe(p.text)) \in Seq(Text) /\ <<Safe(p.text)>> \in Seq(Text)
      /\ <<p.text>> \in Seq(Text)
  BY <1>1, <1>2, WordsIn, TokensIn, OneIn
<1>. QED BY <1>1, <1>2, <1>3, <1>4

MeaningOf(ps) == Fold(LAMBDA words, p : words \o Reads(p), <<>>, ps)
TokenLists == Seq(Text)
MeaningStep == [y \in TokenLists \X PieceSet |-> y[1] \o Reads(y[2])]

LEMMA MeaningStepIs == IsStep(MeaningStep, TokenLists, PieceSet) /\ <<>> \in TokenLists
<1>1. \A ts \in TokenLists, p \in PieceSet : ts \o Reads(p) \in TokenLists
  BY ReadsIs, ConcatIs DEF TokenLists
<1>2. <<>> \in TokenLists
  BY DEF TokenLists
<1>. QED BY <1>1, <1>2 DEF IsStep, MeaningStep

LEMMA MeaningIsValue ==
  ASSUME NEW ps \in Seq(PieceSet)
  PROVE  MeaningOf(ps) = Value(TokenLists, MeaningStep, <<>>, ps)
<1>. DEFINE Run(f) == f = [i \in 0..Len(ps) |-> IF i = 0 THEN <<>> ELSE f[i - 1] \o Reads(ps[i])]
            g == CHOOSE f : Run(f)
<1>1. IsStep(MeaningStep, TokenLists, PieceSet) /\ <<>> \in TokenLists
  BY MeaningStepIs
<1>2. PICK f \in [0..Len(ps) -> TokenLists] : IsRun(f, MeaningStep, <<>>, ps)
  BY <1>1, RunExists
<1>3. Run(f)
  <2>1. ASSUME NEW i \in 1..Len(ps) PROVE f[i] = f[i - 1] \o Reads(ps[i])
    <3>1. <<f[i - 1], ps[i]>> \in TokenLists \X PieceSet
      OBVIOUS
    <3>2. f[i] = MeaningStep[<<f[i - 1], ps[i]>>]
      BY <1>2 DEF IsRun
    <3>. QED BY <3>1, <3>2 DEF MeaningStep
  <2>2. f[0] = <<>>
    BY <1>2 DEF IsRun
  <2>3. ASSUME NEW i \in 0..Len(ps)
        PROVE  f[i] = IF i = 0 THEN <<>> ELSE f[i - 1] \o Reads(ps[i])
    <3>1. i = 0 \/ i \in 1..Len(ps)
      OBVIOUS
    <3>. QED BY <2>1, <2>2, <3>1
  <2>. QED BY <2>3
<1>4. Run(g)
  BY <1>3
<1>5. MeaningOf(ps) = g[Len(ps)]
  BY DEF MeaningOf, Fold
<1>. HIDE DEF g
<1>6. g[0] = <<>>
  BY <1>4
<1>7. ASSUME NEW i \in 1..Len(ps), g[i - 1] \in TokenLists
      PROVE  g[i] = MeaningStep[<<g[i - 1], ps[i]>>]
  <2>1. g[i] = g[i - 1] \o Reads(ps[i])
    <3>1. i \in 0..Len(ps) /\ i # 0
      OBVIOUS
    <3>. QED BY <1>4, <3>1, Zenon
  <2>2. <<g[i - 1], ps[i]>> \in TokenLists \X PieceSet
    BY <1>7
  <2>. HIDE DEF Run
  <2>. QED BY <2>1, <2>2 DEF MeaningStep
<1>. HIDE DEF Run
<1>8. g[Len(ps)] = Value(TokenLists, MeaningStep, <<>>, ps)
  <2>. DEFINE states == TokenLists
              step == MeaningStep
              first == <<>>
  <2>1. IsStep(step, states, PieceSet) /\ first \in states /\ g[0] = first
        /\ \A i \in 1..Len(ps) : g[i - 1] \in states => g[i] = step[<<g[i - 1], ps[i]>>]
    BY <1>1, <1>6, <1>7
  <2>. HIDE DEF states, step, first
  <2>2. g[Len(ps)] = Value(states, step, first, ps)
    BY <2>1, RunIsValue
  <2>. QED BY <2>2 DEF states, step, first
<1>. QED BY <1>5, <1>8

LEMMA MeaningAppend ==
  ASSUME NEW ps \in Seq(PieceSet), NEW p \in PieceSet
  PROVE  /\ MeaningOf(<<>>) = <<>> /\ MeaningOf(ps) \in Seq(Text)
         /\ MeaningOf(Append(ps, p)) = MeaningOf(ps) \o Reads(p)
<1>1. /\ Value(TokenLists, MeaningStep, <<>>, <<>>) = <<>>
      /\ \A s \in Seq(PieceSet) : Value(TokenLists, MeaningStep, <<>>, s) \in TokenLists
      /\ \A s \in Seq(PieceSet), y \in PieceSet : Value(TokenLists, MeaningStep, <<>>, Append(s, y))
                                            = MeaningStep[<<Value(TokenLists, MeaningStep, <<>>, s), y>>]
  BY MeaningStepIs, ValueFacts
<1>2. \A s \in Seq(PieceSet) : MeaningOf(s) = Value(TokenLists, MeaningStep, <<>>, s)
  BY MeaningIsValue
<1>3. Append(ps, p) \in Seq(PieceSet) /\ <<>> \in Seq(PieceSet)
  OBVIOUS
<1>4. MeaningOf(ps) \in TokenLists /\ MeaningOf(Append(ps, p)) = MeaningStep[<<MeaningOf(ps), p>>]
  BY <1>1, <1>2, <1>3
<1>. QED BY <1>1, <1>2, <1>3, <1>4 DEF MeaningStep, TokenLists

LEMMA Unquoted ==
  ASSUME NEW t \in Text, Range(t) \cap ValueUnsafe = {}
  PROVE  t \in Seq(ValueAtoms)
<1>1. QuoteMark \in ValueUnsafe
  BY Zenon DEF QuoteMark, ValueUnsafe
<1>2. \A i \in 1..Len(t) : t[i] \in ValueAtoms
  <2>1. \A i \in 1..Len(t) : t[i] \in Atoms /\ t[i] \in Range(t)
    BY DEF Text, Range
  <2>. QED BY <1>1, <2>1 DEF ValueAtoms
<1>. QED BY <1>2, IsASeq DEF Text

LEMMA Unspaced ==
  ASSUME NEW t \in Text, Range(t) \cap {Space, QuoteMark} = {}, Safe(t) # <<>>
  PROVE  t \in Seq(WordAtoms) /\ t # <<>> /\ Safe(t) \in Seq(WordAtoms)
<1>1. \A i \in 1..Len(t) : t[i] \in WordAtoms
  <2>1. \A i \in 1..Len(t) : t[i] \in Atoms /\ t[i] \in Range(t)
    BY DEF Text, Range
  <2>. QED BY <2>1 DEF WordAtoms
<1>2. t \in Seq(WordAtoms)
  BY <1>1, IsASeq DEF Text
<1>. QED BY <1>2, WithoutFacts DEF Safe

\* The pieces Lexable is about: of words, and a bare one is a word.
GoodPieces ==
  {p \in WordPieces : /\ p.kind = "bare" => Safe(p.text) \in Seq(WordAtoms) /\ Safe(p.text) # <<>>
                      /\ p.kind = "address" => p.text \in Seq(WordAtoms) /\ p.text # <<>>}

LEMMA PieceRead ==
  ASSUME NEW v \in Text, NEW ts \in Seq(Text), Lexed(v) = State("between", <<>>, ts), NEW p \in GoodPieces
  PROVE  Render(p) \in Text /\ Done(v \o Render(p), ts \o Reads(p))
<1>1. p \in PieceSet /\ p.kind \in {"value", "bare", "quoted", "address"}
  BY DEF GoodPieces, WordPieces, PieceSet
<1>2. PICK w \in Text : w = Safe(p.text)
  BY <1>1, ReadsIs
<1>3. ts \o <<w>> = Append(ts, w)
  BY AppendOne
<1>4. CASE p.kind = "value"
  <2>1. Reads(p) = Words(p.text) /\ Render(p) = p.text /\ p.text \in Text
    BY <1>1, <1>4, ReadsIs
  <2>2. p.text \in Seq(ValueAtoms)
    <3>1. Range(p.text) \cap ValueUnsafe = {}
      BY <1>1, <1>4 DEF PieceSet
    <3>. QED BY <2>1, <3>1, Unquoted
  <2>. QED BY <2>1, <2>2, ValueRead
<1>5. CASE p.kind = "quoted"
  <2>1. Reads(p) = <<w>> /\ Render(p) = Quote(Escape(w))
    BY <1>1, <1>2, <1>5, ReadsIs
  <2>2. Quote(Escape(w)) \in Text /\ Lexed(v \o Quote(Escape(w))) = State("between", <<>>, Append(ts, w))
    BY QuotedRead
  <2>. QED BY <1>3, <2>1, <2>2 DEF Done
<1>6. CASE p.kind = "bare"
  <2>1. Reads(p) = <<w>> /\ Render(p) = w
    BY <1>1, <1>2, <1>6, ReadsIs
  <2>2. w \in Seq(WordAtoms) /\ w # <<>>
    BY <1>2, <1>6 DEF GoodPieces
  <2>3. Lexed(v \o w) = State("bare", w, ts)
    BY <2>2, BareRead
  <2>4. Done(v \o w, Append(ts, w))
    BY <2>3 DEF Done
  <2>. QED BY <1>3, <2>1, <2>4
<1>7. CASE p.kind = "address"
  <2>1. PICK t \in Text : t = p.text
    BY <1>1, ReadsIs
  <2>2. Reads(p) = <<t>> /\ Render(p) = t /\ ts \o <<t>> = Append(ts, t)
    BY <1>1, <1>7, <2>1, ReadsIs, AppendOne
  <2>3. t \in Seq(WordAtoms) /\ t # <<>>
    BY <1>7, <2>1 DEF GoodPieces
  <2>4. Lexed(v \o t) = State("bare", t, ts)
    BY <2>3, BareRead
  <2>5. Done(v \o t, Append(ts, t))
    BY <2>4 DEF Done
  <2>. QED BY <2>2, <2>5
<1>. QED BY <1>1, <1>4, <1>5, <1>6, <1>7

\* The line of the pieces ps.
LineOfPieces(ps) == Join(RenderAll(ps), <<Space>>)
IsRead(ps) == ps # <<>> => LineOfPieces(ps) \in Text /\ Done(LineOfPieces(ps), MeaningOf(ps))

LEMMA GoodAppend ==
  ASSUME NEW ps \in Seq(GoodPieces), NEW p \in GoodPieces
  PROVE  /\ ps \in Seq(PieceSet) /\ p \in PieceSet
         /\ RenderAll(ps) \in Seq(Seq(Plain)) /\ Render(p) \in Seq(Plain)
         /\ RenderAll(Append(ps, p)) = Append(RenderAll(ps), Render(p))
         /\ ps # <<>> => RenderAll(ps) # <<>>
<1>1. GoodPieces \subseteq PieceSet
  BY DEF GoodPieces, WordPieces
<1>2. ps \in Seq(PieceSet) /\ p \in PieceSet /\ Append(ps, p) \in Seq(PieceSet)
  BY <1>1, SeqMonotonic, AppendOne
<1>3. RenderAll(ps) \in Seq(Seq(Plain)) /\ Render(p) \in Seq(Plain)
  BY <1>2, RenderAllIn, RenderIn
<1>4. RenderAll(Append(ps, p)) = Append(RenderAll(ps), Render(p))
  BY <1>2 DEF RenderAll
<1>5. ps # <<>> => RenderAll(ps) # <<>>
  BY <1>2 DEF RenderAll
<1>. QED BY <1>2, <1>3, <1>4, <1>5

LEMMA JoinMore ==
  ASSUME NEW ts \in Seq(Seq(Plain)), NEW u \in Seq(Plain), u \in Text
  PROVE  /\ Join(Append(<<>>, u), <<Space>>) = u
         /\ ts # <<>> => Join(ts, <<Space>>) \in Text
         /\ ts # <<>> => Join(Append(ts, u), <<Space>>) = Append(Join(ts, <<Space>>), Space) \o u
<1>1. PICK B : B = Seq(Plain)
  OBVIOUS
<1>2. PICK x : x = <<Space>>
  OBVIOUS
<1>3. Joins(B, x)
  BY <1>1, <1>2, SpaceJoins, SpaceIs, Zenon
<1>4. ts \in Seq(B) /\ u \in B /\ \A j \in B : j \in Text
  BY <1>1, PlainTexts
<1>5. Join(<<u>>, x) = u /\ (ts # <<>> => Join(ts, x) \in B /\ Join(Append(ts, u), x) = Join(ts, x) \o x \o u)
  BY <1>3, <1>4, JoinFacts
<1>6. Append(<<>>, u) = <<u>>
  OBVIOUS
<1>7. ASSUME ts # <<>> PROVE Join(ts, x) \in Text /\ Join(Append(ts, u), x) = Append(Join(ts, x), Space) \o u
  <2>1. PICK j \in Text : j = Join(ts, x)
    BY <1>4, <1>5, <1>7
  <2>2. j \o <<Space>> = Append(j, Space)
    BY SpaceIs, TextsAppend
  <2>. QED BY <1>2, <1>5, <1>7, <2>1, <2>2
<1>. QED BY <1>2, <1>5, <1>6, <1>7

LEMMA ReadNext ==
  ASSUME NEW ps \in Seq(GoodPieces), NEW p \in GoodPieces, IsRead(ps)
  PROVE  IsRead(Append(ps, p))
<1>1. PICK ts \in Seq(Text) : ts = MeaningOf(ps)
  BY GoodAppend, MeaningAppend
<1>2. MeaningOf(Append(ps, p)) = ts \o Reads(p) /\ MeaningOf(<<>>) = <<>>
  BY <1>1, GoodAppend, MeaningAppend
<1>3. PICK rs \in Seq(Seq(Plain)) : rs = RenderAll(ps)
  BY GoodAppend
<1>4. PICK u \in Seq(Plain) : u = Render(p)
  BY GoodAppend
<1>5. u \in Text /\ LineOfPieces(Append(ps, p)) = Join(Append(rs, u), <<Space>>)
  BY <1>3, <1>4, GoodAppend, PlainTexts DEF LineOfPieces
<1>6. CASE ps = <<>>
  <2>1. rs = <<>> /\ ts = <<>>
    BY <1>1, <1>2, <1>3, <1>6 DEF RenderAll
  <2>2. LineOfPieces(Append(ps, p)) = u
    BY <1>5, <2>1, JoinMore
  <2>3. <<>> \in Text /\ <<>> \o u = u
    BY <1>5, OneIn DEF Text
  <2>4. Lexed(<<>>) = State("between", <<>>, ts)
    BY <2>1, LexAppend, MarksApart, <2>3 DEF Start0
  <2>5. Done(<<>> \o u, ts \o Reads(p))
    BY <1>4, <2>3, <2>4, PieceRead
  <2>. QED BY <1>2, <1>5, <2>2, <2>3, <2>5 DEF IsRead
<1>7. CASE ps # <<>>
  <2>1. PICK j \in Text : j = LineOfPieces(ps) /\ Done(j, ts)
    BY <1>1, <1>7 DEF IsRead
  <2>2. rs # <<>> /\ j = Join(rs, <<Space>>)
    BY <1>3, <1>7, <2>1, GoodAppend DEF LineOfPieces
  <2>3. LineOfPieces(Append(ps, p)) = Append(j, Space) \o u
    BY <1>5, <2>2, JoinMore
  <2>4. PICK v \in Text : v = Append(j, Space)
    BY SpaceIs, TextsAppend
  <2>5. Lexed(v) = State("between", <<>>, ts)
    BY <2>1, <2>4, DoneSpace
  <2>6. Done(v \o u, ts \o Reads(p))
    BY <1>4, <2>5, PieceRead
  <2>7. v \o u \in Text
    BY <1>5, TextConcat
  <2>. QED BY <1>2, <2>3, <2>4, <2>6, <2>7 DEF IsRead
<1>. QED BY <1>6, <1>7

LEMMA AllRead ==
  ASSUME NEW ps \in Seq(GoodPieces), ps # <<>>
  PROVE  Tokens(LineOfPieces(ps)) = MeaningOf(ps)
<1>. DEFINE S == {qs \in Seq(GoodPieces) : IsRead(qs)}
<1>1. <<>> \in S
  BY DEF IsRead
<1>2. ASSUME NEW qs \in Seq(GoodPieces), NEW p \in GoodPieces, qs \in S PROVE Append(qs, p) \in S
  BY <1>2, ReadNext, AppendOne
<1>. HIDE DEF S
<1>3. \A qs \in Seq(GoodPieces) : qs \in S
  BY <1>1, <1>2, ByAppend
<1>4. IsRead(ps)
  BY <1>3 DEF S
<1>. QED BY <1>4, DoneTokens DEF IsRead

LEMMA GoodOnes ==
  ASSUME NEW c, Whole(c), c.op \notin Verbatim, Lexable(c)
  PROVE  Pieces(c) \in Seq(GoodPieces) /\ Pieces(c) # <<>>
<1>. DEFINE ps == Pieces(c)
<1>1. ps \in Seq(WordPieces) /\ ps # <<>>
  BY PiecesFit
<1>2. \A i \in DOMAIN ps : ps[i].kind \in {"bare", "address"} =>
        Safe(ps[i].text) # <<>> /\ Range(ps[i].text) \cap {Space, QuoteMark} = {}
  BY Zenon DEF Lexable, Space, QuoteMark
<1>. HIDE DEF ps
<1>3. ASSUME NEW i \in 1..Len(ps) PROVE ps[i] \in GoodPieces
  <2>1. PICK p \in WordPieces : p = ps[i]
    BY <1>1
  <2>2. p.kind \in {"bare", "address"} => Safe(p.text) # <<>> /\ Range(p.text) \cap {Space, QuoteMark} = {}
    <3>1. i \in DOMAIN ps
      BY <1>1
    <3>. QED BY <1>2, <2>1, <3>1
  <2>3. p.text \in Text
    BY DEF WordPieces, PieceSet
  <2>. QED BY <2>1, <2>2, <2>3, Unspaced DEF GoodPieces
<1>4. ps \in Seq(GoodPieces)
  BY <1>1, <1>3, IsASeq
<1>. QED BY <1>1, <1>4 DEF ps

LEMMA MeaningIs ==
  ASSUME NEW c
  PROVE  Meaning(c) = MeaningOf(Pieces(c))
BY DEF Meaning, MeaningOf

LEMMA VerbatimRead ==
  ASSUME NEW c, Built(c), c.op \in Verbatim
  PROVE  Tokens(Line(c)) = Meaning(c)
<1>1. PICK p : p = Piece("line", c.args[1])
  OBVIOUS
<1>2. Pieces(c) = <<p>> /\ Pieces(c) \in Seq(PieceSet)
  BY <1>1, PiecesOfVerbatim, VerbatimPieces
<1>3. p \in PieceSet /\ p.kind = "line"
  <2>1. <<p>>[1] \in PieceSet
    BY <1>2
  <2>. QED BY <1>1, <2>1 DEF Piece
<1>4. PICK t \in Text : t = Safe(p.text) /\ Reads(p) = Tokens(t) /\ Render(p) = t
  BY <1>3, ReadsIs
<1>5. RenderAll(<<p>>) = <<t>>
  BY <1>4 DEF RenderAll
<1>6. Line(c) = t
  <2>1. t \in Seq(Plain) /\ Joins(Seq(Plain), <<" ">>)
    BY <1>3, <1>4, RenderIn, SpaceJoins
  <2>2. \A u \in Seq(Plain) : Join(<<u>>, <<" ">>) = u
    BY <2>1, JoinFacts, Zenon
  <2>. QED BY <1>2, <1>5, <2>1, <2>2, LineOf, Zenon
<1>7. MeaningOf(<<p>>) = Reads(p)
  <2>1. <<>> \in Seq(PieceSet) /\ Append(<<>>, p) = <<p>>
    BY <1>3, OneIn
  <2>2. MeaningOf(Append(<<>>, p)) = MeaningOf(<<>>) \o Reads(p) /\ MeaningOf(<<>>) = <<>>
    BY <1>3, <2>1, MeaningAppend
  <2>3. Reads(p) \in Seq(Text)
    BY <1>3, ReadsIs
  <2>4. <<>> \o Reads(p) = Reads(p)
    BY <2>3
  <2>. QED BY <2>1, <2>2, <2>4
<1>. QED BY <1>2, <1>4, <1>6, <1>7, MeaningIs

LEMMA LineRead ==
  ASSUME NEW c, Whole(c), Lexable(c)
  PROVE  Tokens(Line(c)) = Meaning(c)
<1>1. CASE c.op \in Verbatim
  BY <1>1, VerbatimRead DEF Whole
<1>2. CASE c.op \notin Verbatim
  <2>1. Line(c) = LineOfPieces(Pieces(c))
    BY LineOf, SpaceIs, Zenon DEF LineOfPieces
  <2>. QED BY <1>2, <2>1, GoodOnes, AllRead, MeaningIs
<1>. QED BY <1>1, <1>2
-----------------------------------------------------------------------------
\* The space before END is all that the server sees of it.
EndWord == "END"

LEMMA TrimIs ==
  ASSUME NEW t
  PROVE  LET kept == {i \in DOMAIN t : t[i] # Space} IN
         /\ kept = {} => Trim(t) = <<>>
         /\ \A m : kept = {m} => Trim(t) = SubSeq(t, m, m)
<1>. DEFINE kept == {i \in DOMAIN t : t[i] # Space}
            least == CHOOSE i \in kept : \A j \in kept : i <= j
            most == CHOOSE i \in kept : \A j \in kept : i >= j
<1>1. Trim(t) = IF kept = {} THEN <<>> ELSE SubSeq(t, least, most)
  BY Zenon DEF Trim, Space
<1>. QED BY <1>1

LEMMA TrimOne ==
  ASSUME NEW A, NEW t \in Seq(A), NEW m \in 1..Len(t), \A i \in 1..Len(t) : t[i] # Space <=> i = m
  PROVE  Trim(t) = Append(<<>>, t[m])
<1>1. {i \in DOMAIN t : t[i] # Space} = {m}
  OBVIOUS
<1>2. Trim(t) = SubSeq(t, m, m)
  BY <1>1, TrimIs
<1>3. SubSeq(t, m, m) = Append(<<>>, t[m])
  <2>1. m \in Int /\ m <= m /\ t[m] \in A /\ \A i \in m..m : t[i] \in A
    OBVIOUS
  <2>2. PICK s : s = SubSeq(t, m, m)
    OBVIOUS
  <2>3. s \in Seq(A) /\ Len(s) = m - m + 1 /\ \A i \in 1..m - m + 1 : s[i] = t[m + i - 1]
    BY <2>1, <2>2, SubSeqProperties
  <2>4. m - m + 1 = 1 /\ m + 1 - 1 = m
    BY <2>1
  <2>5. Len(s) = 1 /\ s[1] = t[m]
    BY <2>3, <2>4
  <2>6. s = Append(<<>>, t[m])
    BY <2>1, <2>3, <2>5
  <2>. QED BY <2>2, <2>6
<1>. QED BY <1>2, <1>3

LEMMA EndTrimmed == Trim(<<Space, EndWord>>) = Trim(<<EndWord>>)
<1>1. EndWord # Space
  BY Zenon DEF EndWord, Space
<1>2. PICK w, A : w = EndWord /\ A = {Space, w}
  OBVIOUS
<1>3. PICK s : s = <<w>>
  OBVIOUS
<1>4. PICK t : t = <<Space, w>>
  OBVIOUS
<1>5. s \in Seq(A) /\ Len(s) = 1 /\ s[1] = w
  BY <1>2, <1>3
<1>6. t \in Seq(A) /\ Len(t) = 2 /\ t[1] = Space /\ t[2] = w
  BY <1>2, <1>4
<1>7. Trim(s) = Append(<<>>, w)
  BY <1>1, <1>2, <1>5, TrimOne
<1>8. Trim(t) = Append(<<>>, w)
  <2>1. 2 \in 1..Len(t) /\ \A i \in 1..Len(t) : t[i] # Space <=> i = 2
    BY <1>1, <1>2, <1>6
  <2>. QED BY <1>6, <2>1, TrimOne
<1>. QED BY <1>2, <1>3, <1>4, <1>7, <1>8

LEMMA BodyTrimmed ==
  ASSUME NEW l
  PROVE  Trim(BodyLine(l)) = Trim(Safe(l))
<1>1. BodyLine(l) = IF Safe(l) = EndLine THEN <<Space, EndWord>> ELSE Safe(l)
  BY Zenon DEF BodyLine, Space, EndWord
<1>2. EndLine = <<EndWord>>
  BY Zenon DEF EndLine, EndWord
<1>. QED BY <1>1, <1>2, EndTrimmed

LEMMA InvArgumentsWhole == IInv => ArgumentsWhole
<1>. SUFFICES ASSUME IInv, Intact, NEW k \in DOMAIN requests, NEW c, c = sent[k].command, Lexable(c)
              PROVE  /\ requests[k].words = Meaning(c)
                     /\ Len(requests[k].body) = Len(c.body)
                     /\ \A i \in DOMAIN c.body : Trim(requests[k].body[i]) = Trim(Safe(c.body[i]))
  BY DEF ArgumentsWhole
<1>1. RequestsOfCommands /\ Reading /\ WireTypes /\ \A j \in DOMAIN sent : Built(sent[j].command)
  BY DEF IInv, WireInv
<1>2. Len(sent) \in Nat /\ DOMAIN sent = 1..Len(sent) /\ Len(requests) \in Nat /\ DOMAIN requests = 1..Len(requests)
  BY <1>1, SequenceIs DEF WireTypes
<1>3. Built(c) /\ Whole(c)
  <2>1. Len(requests) <= Len(sent)
    BY <1>1 DEF Reading
  <2>2. k \in DOMAIN sent
    BY <1>2, <2>1
  <2>. QED BY <1>1, <2>2 DEF Intact, Whole
<1>4. PICK body : body = [i \in DOMAIN c.body |-> BodyLine(c.body[i])]
  OBVIOUS
<1>5. requests[k].words = Tokens(Line(c)) /\ requests[k].body = body
  BY <1>1, <1>4 DEF RequestsOfCommands
<1>6. c.body \in Seq(Text) /\ Len(c.body) \in Nat
  BY <1>3, BodyIn
<1>7. Len(body) = Len(c.body) /\ \A i \in DOMAIN c.body : body[i] = BodyLine(c.body[i])
  BY <1>4, <1>6
<1>. QED BY <1>3, <1>5, <1>7, LineRead, BodyTrimmed

(***************************************************************************)
(* The server reads the arguments as they were given, whatever is typed,   *)
(* entered or in a configuration line: escape and quote are undone by the  *)
(* lexer, wire_safe takes away what cannot be sent and no more, and the    *)
(* space before END is all that write_block adds.  (With the exceptions of *)
(* RequestsAreCommands.)                                                   *)
(***************************************************************************)
THEOREM ArgumentsAreRead == ConsoleSpec => []ArgumentsWhole
<1>1. Init => IInv
  BY InitInv
<1>2. IInv /\ [ConsoleNext]_vars => IInv'
  BY StepInv
<1>. QED BY <1>1, <1>2, InvArgumentsWhole, PTL DEF ConsoleSpec
=============================================================================
