-------------------------------- MODULE Texts --------------------------------
(***************************************************************************)
(* Texts as sequences of atoms: a word, a number or a literal that the     *)
(* code compares as a whole is one atom, and so is each character that     *)
(* something splits at.  The operators are those of str that the codec's   *)
(* parsers use.                                                            *)
(***************************************************************************)
EXTENDS Naturals, Sequences, SequencesExt, TLC

\* FoldLeft in as many steps as s is long; that of SequencesExt chooses from sets of indices.
Fold(op(_, _), base, s) ==
  LET upTo[i \in 0..Len(s)] == IF i = 0 THEN base ELSE op(upTo[i - 1], s[i]) IN upTo[Len(s)]

\* The pieces of t between the atoms x: split.
Split(t, x) ==
  Fold(LAMBDA ps, y : IF y = x THEN Append(ps, <<>>) ELSE Front(ps) \o <<Append(Last(ps), y)>>,
           <<<<>>>>, t)

\* What of s is not in drop.
Without(s, drop) == Fold(LAMBDA kept, x : IF x \in drop THEN kept ELSE Append(kept, x), <<>>, s)

\* split_whitespace.
Words(t) == Without(Split(t, " "), {<<>>})

Join(ts, x) == Fold(LAMBDA t, u : t \o x \o u, Head(ts), Tail(ts))

\* splitn(n, x): the n-th piece is the rest.
SplitN(t, x, n) ==
  LET ps == Split(t, x) IN
  IF Len(ps) <= n THEN ps ELSE Append(SubSeq(ps, 1, n - 1), Join(SubSeq(ps, n, Len(ps)), <<x>>))

\* The text from the n-th piece on.
From(t, x, n) == IF Len(Split(t, x)) < n THEN <<>> ELSE Join(SubSeq(Split(t, x), n, Len(Split(t, x))), <<x>>)

Trim(t) ==
  LET kept == {i \in DOMAIN t : t[i] # " "} IN
  IF kept = {} THEN <<>>
  ELSE SubSeq(t, CHOOSE i \in kept : \A j \in kept : i <= j, CHOOSE i \in kept : \A j \in kept : i >= j)

TrimStart(t) ==
  IF \A i \in DOMAIN t : t[i] = " " THEN <<>>
  ELSE SubSeq(t, CHOOSE i \in DOMAIN t : t[i] # " " /\ \A j \in 1..i - 1 : t[j] = " ", Len(t))

\* starts_with; what strip_prefix leaves.
StartsWith(t, prefix) == IsPrefix(prefix, t)
Rest(t, prefix) == SubSeq(t, Len(prefix) + 1, Len(t))
EndsWith(t, suffix) == IsSuffix(suffix, t)
Before(t, suffix) == SubSeq(t, 1, Len(t) - Len(suffix))

\* split_once on a text: what is before and after it, or nothing.
SplitOnce(t, mark) ==
  LET found == {i \in 1..Len(t) - Len(mark) + 1 : SubSeq(t, i, i + Len(mark) - 1) = mark}
      at == CHOOSE i \in found : \A j \in found : i <= j
  IN IF found = {} THEN <<>> ELSE <<SubSeq(t, 1, at - 1), SubSeq(t, at + Len(mark), Len(t))>>

\* get(i) of the pieces, the empty text when there are fewer.
Get(ps, i) == IF i <= Len(ps) THEN ps[i] ELSE <<>>

\* Standard base64: other atoms, none of which means anything to a parser.
Base64Code == ("a" :> "YQ") @@ ("b" :> "Yg") @@ (" " :> "IA") @@ ("\"" :> "Ig") @@ ("\\" :> "XA")
                @@ ("\n" :> "Cg") @@ ("END" :> "RU5E") @@ (":" :> "Og")
Base64(t) == [i \in DOMAIN t |-> Base64Code[t[i]]]
IsBase64(t) == \A i \in DOMAIN t : \E a \in DOMAIN Base64Code : Base64Code[a] = t[i]
FromBase64(t) == [i \in DOMAIN t |-> CHOOSE a \in DOMAIN Base64Code : Base64Code[a] = t[i]]

(***************************************************************************)
(* Numbers.  Two of them are there for what they are not: 300 is no u8,    *)
(* 70000 no u16; and some are days since 1970, at the ends of February and *)
(* of the year in 2000, 2024 and 2100.                                     *)
(***************************************************************************)
Days == {11015, 11016, 11017, 11322, 11323, 19782, 19783, 20088, 47540, 47541, 47846}
Numbers == (0..20) \cup {300, 70000} \cup Days
NumberOf == [a \in {ToString(n) : n \in Numbers} |-> CHOOSE n \in Numbers : ToString(n) = a]
Numeral(n) == <<ToString(n)>>
IsNumber(t) == Len(t) = 1 /\ t[1] \in DOMAIN NumberOf
Number(t) == NumberOf[t[1]]
IsU16(t) == IsNumber(t) /\ Number(t) < 65536
=============================================================================
