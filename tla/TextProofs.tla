------------------------------ MODULE TextProofs ------------------------------
(***************************************************************************)
(* Induction over texts, and what the operators of Texts return for every  *)
(* text.  A fold is a recursive function: that there is one at all, that   *)
(* there is no other, and what it is for one atom more, is proved here     *)
(* once, for folds in general.                                             *)
(***************************************************************************)
EXTENDS Texts, WellFoundedInduction, SequenceTheorems, TLAPS

LEMMA LeastOf ==
  ASSUME NEW S, S \subseteq Nat, S # {}
  PROVE  \E x \in S : \A y \in S : x <= y
<1>1. IsWellFoundedOn(OpToRel(<, Nat), Nat)
  BY NatLessThanWellFounded, Zenon
<1>2. OpToRel(<, Nat) = {ss \in Nat \X Nat : ss[1] < ss[2]}
  BY Zenon DEF OpToRel
<1>. DEFINE R == {ss \in Nat \X Nat : ss[1] < ss[2]}
<1>3. IsWellFoundedOn(R, Nat)
  BY <1>1, <1>2, Zenon
<1>4. \A x, y \in Nat : x < y => <<x, y>> \in R
  OBVIOUS
<1>. HIDE DEF R
<1>5. PICK x \in S : \A y \in S : ~(<<y, x>> \in R)
  BY <1>3, WFMin, Zenon
<1>6. ASSUME NEW y \in S PROVE x <= y
  <2>1. x \in Nat /\ y \in Nat
    OBVIOUS
  <2>2. ~(y < x)
    BY <1>4, <1>5, <2>1
  <2>. QED BY <2>1, <2>2
<1>. QED BY <1>6

\* Induction up to n: the least number that is not in S has a predecessor that is.
LEMMA UpTo ==
  ASSUME NEW S, NEW n \in Nat, 0 \in S, \A i \in 0..n - 1 : i \in S => i + 1 \in S
  PROVE  \A i \in 0..n : i \in S
<1>. SUFFICES ASSUME \E i \in 0..n : i \notin S PROVE FALSE
  OBVIOUS
<1>. DEFINE Missing == {i \in 0..n : i \notin S}
<1>1. Missing \subseteq Nat /\ Missing # {}
  OBVIOUS
<1>. HIDE DEF Missing
<1>2. PICK x \in Missing : \A y \in Missing : x <= y
  BY <1>1, LeastOf
<1>. QED BY <1>2 DEF Missing

\* Induction over the texts of atoms A, by one atom more at the end.
LEMMA ByAppend ==
  ASSUME NEW A, NEW S, <<>> \in S, \A s \in Seq(A), x \in A : s \in S => Append(s, x) \in S
  PROVE  \A s \in Seq(A) : s \in S
<1>. SUFFICES ASSUME NEW s \in Seq(A) PROVE s \in S
  OBVIOUS
<1>. DEFINE Begun == {i \in 0..Len(s) : SubSeq(s, 1, i) \in S}
<1>1. 0 \in Begun
  <2>1. SubSeq(s, 1, 0) = <<>> /\ 0 \in 0..Len(s)
    OBVIOUS
  <2>. QED BY <2>1
<1>2. ASSUME NEW i \in 0..Len(s) - 1, i \in Begun PROVE i + 1 \in Begun
  <2>1. SubSeq(s, 1, i) \in Seq(A) /\ s[i + 1] \in A /\ i + 1 \in 0..Len(s)
    OBVIOUS
  <2>2. SubSeq(s, 1, i + 1) = Append(SubSeq(s, 1, i), s[i + 1])
    OBVIOUS
  <2>. QED BY <1>2, <2>1, <2>2
<1>. HIDE DEF Begun
<1>3. Len(s) \in Begun
  <2>1. Len(s) \in Nat /\ Len(s) \in 0..Len(s)
    OBVIOUS
  <2>2. \A i \in 0..Len(s) : i \in Begun
    BY <1>1, <1>2, <2>1, UpTo, Zenon
  <2>. QED BY <2>1, <2>2
<1>4. SubSeq(s, 1, Len(s)) = s
  OBVIOUS
<1>. QED BY <1>3, <1>4 DEF Begun
-----------------------------------------------------------------------------
IsStep(step, T, A) == step \in [T \X A -> T]

\* f is the run of step over s from base.
IsRun(f, step, base, s) ==
  f[0] = base /\ \A i \in 1..Len(s) : f[i] = step[<<f[i - 1], s[i]>>]

\* What a step on T leaves at the end of s.
Value(T, step, base, s) == (CHOOSE f \in [0..Len(s) -> T] : IsRun(f, step, base, s))[Len(s)]

LEMMA RunExists ==
  ASSUME NEW T, NEW A, NEW base \in T, NEW step, IsStep(step, T, A), NEW s \in Seq(A)
  PROVE  \E f \in [0..Len(s) -> T] : IsRun(f, step, base, s)
<1>. DEFINE Reached(n) == \E f \in [0..n -> T] :
                            f[0] = base /\ \A i \in 1..n : f[i] = step[<<f[i - 1], s[i]>>]
            S == {n \in 0..Len(s) : Reached(n)}
<1>1. 0 \in S
  <2>. DEFINE f == [i \in 0..0 |-> base]
  <2>1. f \in [0..0 -> T] /\ f[0] = base /\ 1..0 = {}
    OBVIOUS
  <2>. HIDE DEF f
  <2>2. Reached(0)
    BY <2>1
  <2>. QED BY <2>2
<1>2. ASSUME NEW n \in 0..Len(s) - 1, n \in S PROVE n + 1 \in S
  <2>1. PICK f \in [0..n -> T] : f[0] = base /\ \A i \in 1..n : f[i] = step[<<f[i - 1], s[i]>>]
    BY <1>2
  <2>. DEFINE next == step[<<f[n], s[n + 1]>>]
              g == [i \in 0..n + 1 |-> IF i = n + 1 THEN next ELSE f[i]]
  <2>2. next \in T
    <3>1. f[n] \in T /\ s[n + 1] \in A
      OBVIOUS
    <3>2. <<f[n], s[n + 1]>> \in T \X A
      BY <3>1
    <3>. QED BY <3>2 DEF IsStep
  <2>. HIDE DEF next
  <2>3. g \in [0..n + 1 -> T]
    BY <2>2
  <2>4. g[0] = base
    BY <2>1
  <2>5. ASSUME NEW i \in 1..n + 1 PROVE g[i] = step[<<g[i - 1], s[i]>>]
    <3>1. CASE i = n + 1
      <4>1. g[i] = next /\ g[i - 1] = f[n]
        BY <3>1
      <4>. HIDE DEF g
      <4>. QED BY <3>1, <4>1 DEF next
    <3>2. CASE i # n + 1
      <4>1. i \in 1..n /\ g[i] = f[i] /\ g[i - 1] = f[i - 1]
        BY <3>2
      <4>. HIDE DEF g
      <4>. QED BY <2>1, <4>1
    <3>. QED BY <3>1, <3>2
  <2>. HIDE DEF g
  <2>6. Reached(n + 1)
    BY <2>3, <2>4, <2>5
  <2>. QED BY <2>6
<1>. HIDE DEF S
<1>3. Len(s) \in S
  <2>1. Len(s) \in Nat /\ Len(s) \in 0..Len(s)
    OBVIOUS
  <2>2. \A n \in 0..Len(s) : n \in S
    BY <1>1, <1>2, <2>1, UpTo, Zenon
  <2>. QED BY <2>1, <2>2
<1>. QED BY <1>3 DEF S, IsRun

LEMMA ValueIsRun ==
  ASSUME NEW T, NEW A, NEW base \in T, NEW step, IsStep(step, T, A), NEW s \in Seq(A)
  PROVE  \E f \in [0..Len(s) -> T] : IsRun(f, step, base, s) /\ Value(T, step, base, s) = f[Len(s)]
<1>1. PICK f \in [0..Len(s) -> T] : IsRun(f, step, base, s)
  BY RunExists
<1>. DEFINE g == CHOOSE h \in [0..Len(s) -> T] : IsRun(h, step, base, s)
<1>2. g \in [0..Len(s) -> T] /\ IsRun(g, step, base, s)
  BY <1>1
<1>3. Value(T, step, base, s) = g[Len(s)]
  BY DEF Value
<1>. QED BY <1>2, <1>3, Zenon

\* Whatever runs like step as long as it stays in T ends where step does.
LEMMA RunIsValue ==
  ASSUME NEW T, NEW A, NEW base \in T, NEW step, IsStep(step, T, A), NEW s \in Seq(A),
         NEW g, g[0] = base, \A i \in 1..Len(s) : g[i - 1] \in T => g[i] = step[<<g[i - 1], s[i]>>]
  PROVE  g[Len(s)] = Value(T, step, base, s)
<1>1. PICK f \in [0..Len(s) -> T] : IsRun(f, step, base, s) /\ Value(T, step, base, s) = f[Len(s)]
  BY ValueIsRun
<1>. DEFINE S == {i \in 0..Len(s) : g[i] = f[i]}
<1>2. 0 \in S
  BY <1>1 DEF IsRun
<1>3. ASSUME NEW i \in 0..Len(s) - 1, i \in S PROVE i + 1 \in S
  <2>1. i + 1 \in 1..Len(s) /\ (i + 1) - 1 = i /\ f[i] \in T /\ g[i] = f[i]
    BY <1>3
  <2>2. g[i + 1] = step[<<g[i], s[i + 1]>>]
    BY <2>1
  <2>3. f[i + 1] = step[<<f[i], s[i + 1]>>]
    BY <1>1, <2>1 DEF IsRun
  <2>. QED BY <2>1, <2>2, <2>3
<1>. HIDE DEF S
<1>4. Len(s) \in S
  <2>1. Len(s) \in Nat /\ Len(s) \in 0..Len(s)
    OBVIOUS
  <2>2. \A i \in 0..Len(s) : i \in S
    BY <1>2, <1>3, <2>1, UpTo, Zenon
  <2>. QED BY <2>1, <2>2
<1>. QED BY <1>1, <1>4 DEF S

LEMMA ValueFacts ==
  ASSUME NEW T, NEW A, NEW base \in T, NEW step, IsStep(step, T, A)
  PROVE  /\ Value(T, step, base, <<>>) = base
         /\ \A s \in Seq(A) : Value(T, step, base, s) \in T
         /\ \A s \in Seq(A), x \in A : Value(T, step, base, Append(s, x)) = step[<<Value(T, step, base, s), x>>]
<1>1. Value(T, step, base, <<>>) = base
  <2>1. ASSUME NEW s \in Seq(A), Len(s) = 0 PROVE Value(T, step, base, s) = base
    <3>1. PICK f \in [0..Len(s) -> T] : IsRun(f, step, base, s) /\ Value(T, step, base, s) = f[Len(s)]
      BY ValueIsRun
    <3>2. f[0] = base
      BY <3>1 DEF IsRun
    <3>. QED BY <2>1, <3>1, <3>2
  <2>2. <<>> \in Seq(A) /\ Len(<<>>) = 0
    OBVIOUS
  <2>. QED BY <2>1, <2>2
<1>2. ASSUME NEW s \in Seq(A) PROVE Value(T, step, base, s) \in T
  <2>1. PICK f \in [0..Len(s) -> T] : IsRun(f, step, base, s) /\ Value(T, step, base, s) = f[Len(s)]
    BY ValueIsRun
  <2>2. Len(s) \in 0..Len(s)
    OBVIOUS
  <2>. QED BY <2>1, <2>2
<1>3. ASSUME NEW s \in Seq(A), NEW x \in A
      PROVE  Value(T, step, base, Append(s, x)) = step[<<Value(T, step, base, s), x>>]
  <2>1. Append(s, x) \in Seq(A) /\ Len(Append(s, x)) = Len(s) + 1 /\ Len(s) \in Nat
    OBVIOUS
  <2>2. PICK f \in [0..Len(Append(s, x)) -> T] :
          IsRun(f, step, base, Append(s, x)) /\ Value(T, step, base, Append(s, x)) = f[Len(Append(s, x))]
    BY <2>1, ValueIsRun
  <2>3. f[0] = base
    BY <2>2 DEF IsRun
  <2>4. ASSUME NEW i \in 1..Len(s) PROVE f[i] = step[<<f[i - 1], s[i]>>]
    <3>1. i \in 1..Len(Append(s, x)) /\ Append(s, x)[i] = s[i]
      BY <2>1
    <3>. QED BY <2>2, <3>1 DEF IsRun
  <2>5. f[Len(s)] = Value(T, step, base, s)
    BY <2>3, <2>4, RunIsValue, SMTT(30)
  <2>6. f[Len(s) + 1] = step[<<f[Len(s)], x>>]
    <3>1. Len(s) + 1 \in 1..Len(Append(s, x)) /\ (Len(s) + 1) - 1 = Len(s) /\ Append(s, x)[Len(s) + 1] = x
      BY <2>1
    <3>. QED BY <2>2, <3>1 DEF IsRun
  <2>. QED BY <2>1, <2>2, <2>5, <2>6
<1>. QED BY <1>1, <1>2, <1>3
-----------------------------------------------------------------------------
DropStep(A, drop) == [y \in Seq(A) \X A |-> IF y[2] \in drop THEN y[1] ELSE Append(y[1], y[2])]

LEMMA WithoutIsValue ==
  ASSUME NEW A, NEW drop, NEW s \in Seq(A)
  PROVE  Without(s, drop) = Value(Seq(A), DropStep(A, drop), <<>>, s)
<1>. DEFINE Run(f) == f = [i \in 0..Len(s) |-> IF i = 0 THEN <<>> ELSE (IF s[i] \in drop THEN f[i - 1] ELSE Append(f[i - 1], s[i]))]
            g == CHOOSE f : Run(f)
<1>1. IsStep(DropStep(A, drop), Seq(A), A) /\ <<>> \in Seq(A)
  BY DEF IsStep, DropStep
<1>2. PICK f \in [0..Len(s) -> Seq(A)] : IsRun(f, DropStep(A, drop), <<>>, s)
  BY <1>1, RunExists
<1>3. Run(f)
  <2>1. ASSUME NEW i \in 1..Len(s) PROVE f[i] = (IF s[i] \in drop THEN f[i - 1] ELSE Append(f[i - 1], s[i]))
    <3>1. <<f[i - 1], s[i]>> \in Seq(A) \X A
      OBVIOUS
    <3>2. f[i] = DropStep(A, drop)[<<f[i - 1], s[i]>>]
      BY <1>2 DEF IsRun
    <3>. QED BY <3>1, <3>2 DEF DropStep
  <2>2. f[0] = <<>>
    BY <1>2 DEF IsRun
  <2>3. ASSUME NEW i \in 0..Len(s)
        PROVE  f[i] = IF i = 0 THEN <<>> ELSE (IF s[i] \in drop THEN f[i - 1] ELSE Append(f[i - 1], s[i]))
    <3>1. i = 0 \/ i \in 1..Len(s)
      OBVIOUS
    <3>. QED BY <2>1, <2>2, <3>1
  <2>. QED BY <2>3
<1>4. Run(g)
  BY <1>3
<1>5. Without(s, drop) = g[Len(s)]
  BY DEF Without, Fold
<1>. HIDE DEF g
<1>6. g[0] = <<>>
  BY <1>4
<1>7. ASSUME NEW i \in 1..Len(s), g[i - 1] \in Seq(A)
      PROVE  g[i] = DropStep(A, drop)[<<g[i - 1], s[i]>>]
  <2>1. g[i] = (IF s[i] \in drop THEN g[i - 1] ELSE Append(g[i - 1], s[i]))
    <3>1. i \in 0..Len(s) /\ i # 0
      OBVIOUS
    <3>. QED BY <1>4, <3>1, Zenon
  <2>2. <<g[i - 1], s[i]>> \in Seq(A) \X A
    BY <1>7
  <2>. HIDE DEF Run
  <2>. QED BY <2>1, <2>2 DEF DropStep
<1>. QED BY <1>1, <1>5, <1>6, <1>7, RunIsValue

JoinAll(x, u, ts) == Fold(LAMBDA v, w : v \o x \o w, u, ts)

Joins(B, x) == \A v, w \in B : v \o x \o w \in B

JoinStep(B, x) == [y \in B \X B |-> y[1] \o x \o y[2]]

LEMMA FoldedIsValue ==
  ASSUME NEW B, NEW x, Joins(B, x), NEW u \in B, NEW ts \in Seq(B)
  PROVE  JoinAll(x, u, ts) = Value(B, JoinStep(B, x), u, ts)
<1>. DEFINE Run(f) == f = [i \in 0..Len(ts) |-> IF i = 0 THEN u ELSE f[i - 1] \o x \o ts[i]]
            g == CHOOSE f : Run(f)
<1>1. IsStep(JoinStep(B, x), B, B) /\ u \in B
  BY DEF IsStep, JoinStep, Joins
<1>2. PICK f \in [0..Len(ts) -> B] : IsRun(f, JoinStep(B, x), u, ts)
  BY <1>1, RunExists
<1>3. Run(f)
  <2>1. ASSUME NEW i \in 1..Len(ts) PROVE f[i] = f[i - 1] \o x \o ts[i]
    <3>1. <<f[i - 1], ts[i]>> \in B \X B
      OBVIOUS
    <3>2. f[i] = JoinStep(B, x)[<<f[i - 1], ts[i]>>]
      BY <1>2 DEF IsRun
    <3>. QED BY <3>1, <3>2 DEF JoinStep
  <2>2. f[0] = u
    BY <1>2 DEF IsRun
  <2>3. ASSUME NEW i \in 0..Len(ts)
        PROVE  f[i] = IF i = 0 THEN u ELSE f[i - 1] \o x \o ts[i]
    <3>1. i = 0 \/ i \in 1..Len(ts)
      OBVIOUS
    <3>. QED BY <2>1, <2>2, <3>1
  <2>. QED BY <2>3
<1>4. Run(g)
  BY <1>3
<1>5. JoinAll(x, u, ts) = g[Len(ts)]
  BY DEF JoinAll, Fold
<1>. HIDE DEF g
<1>6. g[0] = u
  BY <1>4
<1>7. ASSUME NEW i \in 1..Len(ts), g[i - 1] \in B
      PROVE  g[i] = JoinStep(B, x)[<<g[i - 1], ts[i]>>]
  <2>1. g[i] = g[i - 1] \o x \o ts[i]
    <3>1. i \in 0..Len(ts) /\ i # 0
      OBVIOUS
    <3>. QED BY <1>4, <3>1, Zenon
  <2>2. <<g[i - 1], ts[i]>> \in B \X B
    BY <1>7
  <2>. HIDE DEF Run
  <2>. QED BY <2>1, <2>2 DEF JoinStep
<1>. QED BY <1>1, <1>5, <1>6, <1>7, RunIsValue

LEMMA FrontIs ==
  ASSUME NEW B, NEW s \in Seq(B), s # <<>>
  PROVE  /\ Front(s) \in Seq(B) /\ Len(Front(s)) = Len(s) - 1
         /\ \A i \in 1..Len(s) - 1 : Front(s)[i] = s[i]
         /\ Last(s) \in B /\ Last(s) = s[Len(s)] /\ s = Append(Front(s), Last(s))
<1>1. Len(s) \in Nat /\ Len(s) >= 1
  OBVIOUS
<1>. DEFINE front == SubSeq(s, 1, Len(s) - 1)
<1>2. front \in Seq(B) /\ Len(front) = Len(s) - 1 /\ \A i \in 1..Len(s) - 1 : front[i] = s[i]
  <2>1. 1 \in Int /\ Len(s) - 1 \in Int /\ \A i \in 1..Len(s) - 1 : s[i] \in B
    BY <1>1
  <2>2. /\ front \in Seq(B) /\ Len(front) = IF 1 <= Len(s) - 1 THEN Len(s) - 1 - 1 + 1 ELSE 0
        /\ \A i \in 1..Len(s) - 1 - 1 + 1 : front[i] = s[1 + i - 1]
    BY <2>1, SubSeqProperties
  <2>. HIDE DEF front
  <2>3. Len(front) = Len(s) - 1
    <3>1. Len(s) - 1 \in Nat /\ Len(s) - 1 - 1 + 1 = Len(s) - 1
      BY <1>1
    <3>2. \A n \in Nat : n = 0 \/ 1 <= n
      OBVIOUS
    <3>. QED BY <2>2, <3>1, <3>2
  <2>4. ASSUME NEW i \in 1..Len(s) - 1 PROVE front[i] = s[i]
    <3>1. i \in 1..Len(s) - 1 - 1 + 1 /\ 1 + i - 1 = i
      BY <1>1
    <3>. QED BY <2>2, <3>1
  <2>. QED BY <2>2, <2>3, <2>4
<1>4. s[Len(s)] \in B
  BY <1>1
<1>5. s = Append(front, s[Len(s)])
  <2>. HIDE DEF front
  <2>. QED BY <1>1, <1>2, <1>4
<1>. QED BY <1>2, <1>4, <1>5 DEF Front, Last

LEMMA ConcatIs ==
  ASSUME NEW B, NEW s \in Seq(B), NEW t \in Seq(B)
  PROVE  /\ s \o t \in Seq(B) /\ Len(s \o t) = Len(s) + Len(t)
         /\ \A i \in 1..Len(s) : (s \o t)[i] = s[i]
         /\ \A i \in 1..Len(t) : (s \o t)[Len(s) + i] = t[i]
OBVIOUS

LEMMA AppendOne ==
  ASSUME NEW B, NEW s \in Seq(B), NEW x \in B
  PROVE  /\ Append(s, x) \in Seq(B) /\ Append(s, x) # <<>> /\ <<x>> \in Seq(B)
         /\ Append(s, x) = s \o <<x>> /\ Len(Append(s, x)) = Len(s) + 1
<1>1. Append(s, x) \in Seq(B) /\ Len(Append(s, x)) = Len(s) + 1 /\ <<x>> \in Seq(B) /\ Len(s) \in Nat
  OBVIOUS
<1>2. Append(s, x) = s \o <<x>>
  OBVIOUS
<1>3. Append(s, x) # <<>>
  <2>1. Len(<<>>) = 0
    OBVIOUS
  <2>. QED BY <1>1, <2>1
<1>. QED BY <1>1, <1>2, <1>3

SplitTexts(A) == Seq(Seq(A)) \ {<<>>}

SplitAt(ps, y, x) == IF y = x THEN Append(ps, <<>>) ELSE Front(ps) \o <<Append(Last(ps), y)>>

SplitStep(A, x) == [y \in SplitTexts(A) \X A |-> SplitAt(y[1], y[2], x)]

LEMMA SplitAtIn ==
  ASSUME NEW A, NEW ps \in SplitTexts(A), NEW y \in A, NEW x
  PROVE  SplitAt(ps, y, x) \in SplitTexts(A)
<1>1. ps \in Seq(Seq(A)) /\ ps # <<>>
  BY DEF SplitTexts
<1>2. Append(ps, <<>>) \in SplitTexts(A)
  <2>1. <<>> \in Seq(A)
    OBVIOUS
  <2>. QED BY <1>1, <2>1, AppendOne DEF SplitTexts
<1>3. Front(ps) \o <<Append(Last(ps), y)>> \in SplitTexts(A)
  <2>1. Last(ps) \in Seq(A) /\ Front(ps) \in Seq(Seq(A))
    BY <1>1, FrontIs
  <2>2. Append(Last(ps), y) \in Seq(A)
    BY <2>1
  <2>. HIDE <1>1
  <2>. QED BY <2>1, <2>2, AppendOne DEF SplitTexts
<1>. QED BY <1>2, <1>3 DEF SplitAt

LEMMA SplitIsValue ==
  ASSUME NEW A, NEW x, NEW t \in Seq(A)
  PROVE  Split(t, x) = Value(SplitTexts(A), SplitStep(A, x), <<<<>>>>, t)
<1>. DEFINE Run(f) == f = [i \in 0..Len(t) |-> IF i = 0 THEN <<<<>>>> ELSE SplitAt(f[i - 1], t[i], x)]
            g == CHOOSE f : Run(f)
<1>1. IsStep(SplitStep(A, x), SplitTexts(A), A) /\ <<<<>>>> \in SplitTexts(A)
  <2>1. <<>> \in Seq(A)
    OBVIOUS
  <2>2. <<<<>>>> \in SplitTexts(A)
    BY <2>1 DEF SplitTexts
  <2>. QED BY <2>2, SplitAtIn DEF IsStep, SplitStep
<1>2. PICK f \in [0..Len(t) -> SplitTexts(A)] : IsRun(f, SplitStep(A, x), <<<<>>>>, t)
  BY <1>1, RunExists
<1>3. Run(f)
  <2>1. ASSUME NEW i \in 1..Len(t) PROVE f[i] = SplitAt(f[i - 1], t[i], x)
    <3>1. <<f[i - 1], t[i]>> \in SplitTexts(A) \X A
      OBVIOUS
    <3>2. f[i] = SplitStep(A, x)[<<f[i - 1], t[i]>>]
      BY <1>2 DEF IsRun
    <3>. QED BY <3>1, <3>2 DEF SplitStep
  <2>2. f[0] = <<<<>>>>
    BY <1>2 DEF IsRun
  <2>3. ASSUME NEW i \in 0..Len(t)
        PROVE  f[i] = IF i = 0 THEN <<<<>>>> ELSE SplitAt(f[i - 1], t[i], x)
    <3>1. i = 0 \/ i \in 1..Len(t)
      OBVIOUS
    <3>. QED BY <2>1, <2>2, <3>1
  <2>. QED BY <2>3
<1>4. Run(g)
  BY <1>3
<1>5. Split(t, x) = g[Len(t)]
  BY DEF Split, Fold, SplitAt
<1>. HIDE DEF g
<1>6. g[0] = <<<<>>>>
  BY <1>4
<1>7. ASSUME NEW i \in 1..Len(t), g[i - 1] \in SplitTexts(A)
      PROVE  g[i] = SplitStep(A, x)[<<g[i - 1], t[i]>>]
  <2>1. g[i] = SplitAt(g[i - 1], t[i], x)
    <3>1. i \in 0..Len(t) /\ i # 0
      OBVIOUS
    <3>. QED BY <1>4, <3>1, Zenon
  <2>2. <<g[i - 1], t[i]>> \in SplitTexts(A) \X A
    BY <1>7
  <2>. HIDE DEF Run
  <2>. QED BY <2>1, <2>2 DEF SplitStep
<1>. QED BY <1>1, <1>5, <1>6, <1>7, RunIsValue

-----------------------------------------------------------------------------
\* Without, one atom at a time; what it leaves is not in drop.
LEMMA WithoutFacts ==
  ASSUME NEW A, NEW drop
  PROVE  /\ Without(<<>>, drop) = <<>>
         /\ \A s \in Seq(A) : Without(s, drop) \in Seq(A)
         /\ \A s \in Seq(A), x \in A : Without(Append(s, x), drop) = DropStep(A, drop)[<<Without(s, drop), x>>]
<1>1. IsStep(DropStep(A, drop), Seq(A), A) /\ <<>> \in Seq(A)
  BY DEF DropStep, IsStep
<1>2. /\ Value(Seq(A), DropStep(A, drop), <<>>, <<>>) = <<>>
      /\ \A s \in Seq(A) : Value(Seq(A), DropStep(A, drop), <<>>, s) \in Seq(A)
      /\ \A s \in Seq(A), x \in A : Value(Seq(A), DropStep(A, drop), <<>>, Append(s, x))
                                      = DropStep(A, drop)[<<Value(Seq(A), DropStep(A, drop), <<>>, s), x>>]
  BY <1>1, ValueFacts
<1>3. \A s \in Seq(A) : Without(s, drop) = Value(Seq(A), DropStep(A, drop), <<>>, s)
  BY WithoutIsValue
<1>4. \A s \in Seq(A), x \in A : Append(s, x) \in Seq(A)
  OBVIOUS
<1>. QED BY <1>1, <1>2, <1>3, <1>4

LEMMA WithoutAppend ==
  ASSUME NEW A, NEW drop, NEW s \in Seq(A), NEW x \in A
  PROVE  /\ Without(s, drop) \in Seq(A)
         /\ x \in drop => Without(Append(s, x), drop) = Without(s, drop)
         /\ x \notin drop => Without(Append(s, x), drop) = Append(Without(s, drop), x)
<1>1. Without(s, drop) \in Seq(A) /\ Without(Append(s, x), drop) = DropStep(A, drop)[<<Without(s, drop), x>>]
  BY WithoutFacts
<1>. QED BY <1>1 DEF DropStep

LEMMA WithoutDrops ==
  ASSUME NEW A, NEW drop, NEW s \in Seq(A)
  PROVE  Without(s, drop) \in Seq(A \ drop)
<1>. DEFINE S == {t \in Seq(A) : Without(t, drop) \in Seq(A \ drop)}
<1>1. <<>> \in S
  <2>1. <<>> \in Seq(A) /\ <<>> \in Seq(A \ drop)
    OBVIOUS
  <2>. QED BY <2>1, WithoutFacts
<1>. HIDE DEF S
<1>2. ASSUME NEW t \in Seq(A), NEW x \in A, t \in S PROVE Append(t, x) \in S
  <2>1. Append(t, x) \in Seq(A)
    OBVIOUS
  <2>2. /\ x \in drop => Without(Append(t, x), drop) = Without(t, drop)
        /\ x \notin drop => Without(Append(t, x), drop) = Append(Without(t, drop), x)
    BY WithoutAppend
  <2>3. Without(t, drop) \in Seq(A \ drop)
    BY <1>2 DEF S
  <2>4. x \notin drop => Append(Without(t, drop), x) \in Seq(A \ drop)
    BY <2>3
  <2>. QED BY <2>1, <2>2, <2>3, <2>4 DEF S
<1>3. s \in S
  BY <1>1, <1>2, ByAppend
<1>. QED BY <1>3 DEF S

\* Join, one text at a time.
JoinedAfter(B, x, u, ts) == Value(B, JoinStep(B, x), u, ts)

LEMMA JoinFacts ==
  ASSUME NEW B, NEW x, Joins(B, x)
  PROVE  /\ \A u \in B : Join(<<u>>, x) = u
         /\ \A ts \in Seq(B) : ts # <<>> => Join(ts, x) \in B
         /\ \A ts \in Seq(B), u \in B : ts # <<>> => Join(Append(ts, u), x) = Join(ts, x) \o x \o u
<1>1. IsStep(JoinStep(B, x), B, B)
  BY DEF JoinStep, IsStep, Joins
<1>2. ASSUME NEW u \in B
      PROVE  /\ JoinedAfter(B, x, u, <<>>) = u
             /\ \A ts \in Seq(B) : JoinedAfter(B, x, u, ts) \in B
             /\ \A ts \in Seq(B), w \in B : JoinedAfter(B, x, u, Append(ts, w)) = JoinStep(B, x)[<<JoinedAfter(B, x, u, ts), w>>]
  BY <1>1, ValueFacts DEF JoinedAfter
<1>3. ASSUME NEW ts \in Seq(B), ts # <<>>
      PROVE  \E h \in B, tl \in Seq(B) : /\ Join(ts, x) = JoinedAfter(B, x, h, tl)
                                         /\ \A u \in B : Join(Append(ts, u), x) = JoinedAfter(B, x, h, Append(tl, u))
  <2>1. Head(ts) \in B /\ Tail(ts) \in Seq(B)
    BY <1>3
  <2>2. Join(ts, x) = JoinAll(x, Head(ts), Tail(ts))
    BY DEF Join, JoinAll, Fold
  <2>3. ASSUME NEW u \in B PROVE Join(Append(ts, u), x) = JoinedAfter(B, x, Head(ts), Append(Tail(ts), u))
    <3>1. Head(Append(ts, u)) = Head(ts) /\ Tail(Append(ts, u)) = Append(Tail(ts), u)
      BY <1>3
    <3>2. Append(Tail(ts), u) \in Seq(B)
      BY <2>1, AppendOne
    <3>3. Join(Append(ts, u), x) = JoinAll(x, Head(Append(ts, u)), Tail(Append(ts, u)))
      BY DEF Join, JoinAll, Fold
    <3>4. JoinAll(x, Head(ts), Append(Tail(ts), u)) = JoinedAfter(B, x, Head(ts), Append(Tail(ts), u))
      BY <2>1, <3>2, FoldedIsValue DEF JoinedAfter
    <3>. QED BY <3>1, <3>3, <3>4, Zenon
  <2>4. JoinAll(x, Head(ts), Tail(ts)) = JoinedAfter(B, x, Head(ts), Tail(ts))
    BY <2>1, FoldedIsValue DEF JoinedAfter
  <2>. QED BY <2>1, <2>2, <2>3, <2>4, Zenon
<1>4. ASSUME NEW u \in B PROVE Join(<<u>>, x) = u
  <2>1. Head(<<u>>) = u /\ Tail(<<u>>) = <<>> /\ <<>> \in Seq(B)
    OBVIOUS
  <2>2. Join(<<u>>, x) = JoinAll(x, Head(<<u>>), Tail(<<u>>))
    BY DEF Join, JoinAll, Fold
  <2>3. JoinAll(x, u, <<>>) = JoinedAfter(B, x, u, <<>>)
    BY <2>1, FoldedIsValue DEF JoinedAfter
  <2>. QED BY <1>2, <2>1, <2>2, <2>3, Zenon
<1>5. ASSUME NEW ts \in Seq(B), ts # <<>>
      PROVE  Join(ts, x) \in B /\ \A u \in B : Join(Append(ts, u), x) = Join(ts, x) \o x \o u
  <2>1. PICK h \in B, tl \in Seq(B) : /\ Join(ts, x) = JoinedAfter(B, x, h, tl)
                                      /\ \A u \in B : Join(Append(ts, u), x) = JoinedAfter(B, x, h, Append(tl, u))
    BY <1>3, <1>5
  <2>2. Join(ts, x) \in B
    BY <1>2, <2>1
  <2>3. ASSUME NEW u \in B PROVE Join(Append(ts, u), x) = Join(ts, x) \o x \o u
    <3>1. Join(Append(ts, u), x) = JoinStep(B, x)[<<Join(ts, x), u>>]
      BY <1>2, <2>1
    <3>. QED BY <2>2, <3>1 DEF JoinStep
  <2>. QED BY <2>2, <2>3
<1>. QED BY <1>4, <1>5

\* Split, one atom at a time.
LEMMA SplitFacts ==
  ASSUME NEW A, NEW x
  PROVE  /\ Split(<<>>, x) = <<<<>>>>
         /\ \A t \in Seq(A) : Split(t, x) \in SplitTexts(A)
         /\ \A t \in Seq(A), y \in A : Split(Append(t, y), x) = SplitAt(Split(t, x), y, x)
<1>. DEFINE V(t) == Value(SplitTexts(A), SplitStep(A, x), <<<<>>>>, t)
<1>1. IsStep(SplitStep(A, x), SplitTexts(A), A) /\ <<<<>>>> \in SplitTexts(A)
  <2>1. <<>> \in Seq(A)
    OBVIOUS
  <2>2. <<<<>>>> \in SplitTexts(A)
    BY <2>1 DEF SplitTexts
  <2>. QED BY <2>2, SplitAtIn DEF IsStep, SplitStep
<1>2. /\ V(<<>>) = <<<<>>>>
      /\ \A t \in Seq(A) : V(t) \in SplitTexts(A)
      /\ \A t \in Seq(A), y \in A : V(Append(t, y)) = SplitStep(A, x)[<<V(t), y>>]
  <2>. DEFINE none == <<<<>>>>
  <2>. HIDE DEF none
  <2>1. /\ Value(SplitTexts(A), SplitStep(A, x), none, <<>>) = none
        /\ \A t \in Seq(A) : Value(SplitTexts(A), SplitStep(A, x), none, t) \in SplitTexts(A)
        /\ \A t \in Seq(A), y \in A : Value(SplitTexts(A), SplitStep(A, x), none, Append(t, y))
                                      = SplitStep(A, x)[<<Value(SplitTexts(A), SplitStep(A, x), none, t), y>>]
    <3>1. none \in SplitTexts(A)
      BY <1>1 DEF none
    <3>. QED BY <1>1, <3>1, ValueFacts
  <2>. QED BY <2>1 DEF none
<1>3. \A t \in Seq(A) : Split(t, x) = V(t)
  BY SplitIsValue
<1>. HIDE DEF V
<1>4. ASSUME NEW t \in Seq(A), NEW y \in A PROVE Split(Append(t, y), x) = SplitAt(Split(t, x), y, x)
  <2>1. Append(t, y) \in Seq(A)
    OBVIOUS
  <2>2. Split(Append(t, y), x) = SplitStep(A, x)[<<Split(t, x), y>>] /\ Split(t, x) \in SplitTexts(A)
    BY <1>2, <1>3, <2>1
  <2>. QED BY <2>2 DEF SplitStep
<1>5. <<>> \in Seq(A)
  OBVIOUS
<1>. QED BY <1>2, <1>3, <1>4, <1>5

\* f says where each element of t is in s: t is s without what is in drop.
Keeps(s, drop, t, f) ==
  /\ f \in [DOMAIN t -> DOMAIN s]
  /\ \A k \in DOMAIN t : t[k] = s[f[k]] /\ t[k] \notin drop
  /\ \A k, l \in DOMAIN t : k < l => f[k] < f[l]
  /\ \A i \in DOMAIN s : s[i] \notin drop => \E k \in DOMAIN t : f[k] = i

LEMMA KeepsMore ==
  ASSUME NEW A, NEW drop, NEW s \in Seq(A), NEW x \in A, NEW t \in Seq(A), NEW f, Keeps(s, drop, t, f)
  PROVE  \E g : Keeps(Append(s, x), drop, IF x \in drop THEN t ELSE Append(t, x), g)
<1>1. PICK n, m : n = Len(s) /\ m = Len(t)
  OBVIOUS
<1>2. PICK u : u = Append(s, x)
  OBVIOUS
<1>3. /\ n \in Nat /\ DOMAIN s = 1..n /\ DOMAIN u = 1..n + 1 /\ u[n + 1] = x /\ \A i \in 1..n : u[i] = s[i]
      /\ m \in Nat /\ DOMAIN t = 1..m
  BY <1>1, <1>2
<1>4. /\ f \in [1..m -> 1..n]
      /\ \A k \in 1..m : t[k] = s[f[k]] /\ t[k] \notin drop
      /\ \A k, l \in 1..m : k < l => f[k] < f[l]
      /\ \A i \in 1..n : s[i] \notin drop => \E k \in 1..m : f[k] = i
  BY <1>3 DEF Keeps
<1>5. CASE x \in drop
  <2>1. f \in [1..m -> 1..n + 1]
    BY <1>3, <1>4
  <2>2. \A k \in 1..m : t[k] = u[f[k]]
    BY <1>3, <1>4
  <2>3. \A i \in 1..n + 1 : u[i] \notin drop => \E k \in 1..m : f[k] = i
    <3>1. \A i \in 1..n + 1 : i \in 1..n \/ i = n + 1
      BY <1>3
    <3>. QED BY <1>3, <1>4, <1>5, <3>1
  <2>4. Keeps(u, drop, t, f)
    BY <1>3, <1>4, <2>1, <2>2, <2>3 DEF Keeps
  <2>. QED BY <1>2, <1>5, <2>4
<1>6. CASE x \notin drop
  <2>1. PICK v : v = Append(t, x)
    OBVIOUS
  <2>2. DOMAIN v = 1..m + 1 /\ v[m + 1] = x /\ \A k \in 1..m : v[k] = t[k]
    BY <1>1, <2>1
  <2>3. PICK g : g = [k \in 1..m + 1 |-> IF k = m + 1 THEN n + 1 ELSE f[k]]
    OBVIOUS
  <2>4. /\ g[m + 1] = n + 1 /\ \A k \in 1..m : g[k] = f[k] /\ g[k] \in 1..n
        /\ \A k \in 1..m + 1 : k \in 1..m \/ k = m + 1
        /\ m + 1 \in 1..m + 1 /\ n + 1 \in 1..n + 1 /\ \A i \in 1..n + 1 : i \in 1..n \/ i = n + 1
    BY <1>3, <1>4, <2>3
  <2>5. g \in [1..m + 1 -> 1..n + 1]
    <3>1. \A k \in 1..m + 1 : g[k] \in 1..n + 1
      BY <1>3, <2>4
    <3>. QED BY <2>3, <3>1
  <2>6. \A k \in 1..m + 1 : v[k] = u[g[k]] /\ v[k] \notin drop
    <3>1. ASSUME NEW k \in 1..m PROVE v[k] = u[g[k]] /\ v[k] \notin drop
      <4>1. v[k] = t[k] /\ g[k] = f[k] /\ f[k] \in 1..n
        BY <2>2, <2>4, <3>1
      <4>. QED BY <1>3, <1>4, <3>1, <4>1
    <3>2. v[m + 1] = u[g[m + 1]] /\ v[m + 1] \notin drop
      BY <1>3, <1>6, <2>2, <2>4
    <3>. QED BY <2>4, <3>1, <3>2
  <2>7. \A k, l \in 1..m + 1 : k < l => g[k] < g[l]
    <3>1. ASSUME NEW k \in 1..m + 1, NEW l \in 1..m + 1, k < l PROVE g[k] < g[l]
      <4>1. k \in 1..m
        BY <1>3, <3>1
      <4>2. CASE l = m + 1
        BY <1>3, <2>4, <4>1, <4>2
      <4>3. CASE l \in 1..m
        BY <1>4, <2>4, <3>1, <4>1, <4>3
      <4>. QED BY <2>4, <4>2, <4>3
    <3>. QED BY <3>1
  <2>8. \A i \in 1..n + 1 : u[i] \notin drop => \E k \in 1..m + 1 : g[k] = i
    <3>1. ASSUME NEW i \in 1..n, s[i] \notin drop PROVE \E k \in 1..m + 1 : g[k] = i
      <4>1. PICK k \in 1..m : f[k] = i
        BY <1>4, <3>1
      <4>2. k \in 1..m + 1
        BY <1>3
      <4>. QED BY <2>4, <4>1, <4>2
    <3>. QED BY <1>3, <2>4, <3>1
  <2>9. Keeps(u, drop, v, g)
    BY <1>3, <2>2, <2>5, <2>6, <2>7, <2>8 DEF Keeps
  <2>. QED BY <1>2, <1>6, <2>1, <2>9
<1>. QED BY <1>5, <1>6

\* What Without keeps, and in which order.
LEMMA WithoutKeeps ==
  ASSUME NEW A, NEW drop, NEW s \in Seq(A)
  PROVE  \E f : Keeps(s, drop, Without(s, drop), f)
<1>. DEFINE S == {t \in Seq(A) : \E f : Keeps(t, drop, Without(t, drop), f)}
<1>1. <<>> \in S
  <2>1. <<>> \in Seq(A) /\ Without(<<>>, drop) = <<>> /\ DOMAIN <<>> = {}
    BY WithoutFacts
  <2>2. PICK f : f = <<>>
    OBVIOUS
  <2>3. Keeps(<<>>, drop, <<>>, f)
    BY <2>1, <2>2 DEF Keeps
  <2>. QED BY <2>1, <2>3
<1>2. ASSUME NEW t \in Seq(A), NEW x \in A, t \in S PROVE Append(t, x) \in S
  <2>1. PICK w : w = Without(t, drop)
    OBVIOUS
  <2>2. PICK f : Keeps(t, drop, w, f)
    BY <1>2, <2>1
  <2>3. /\ w \in Seq(A)
        /\ Without(Append(t, x), drop) = IF x \in drop THEN w ELSE Append(w, x)
    BY <2>1, WithoutAppend
  <2>4. \E g : Keeps(Append(t, x), drop, IF x \in drop THEN w ELSE Append(w, x), g)
    BY <2>2, <2>3, KeepsMore
  <2>5. Append(t, x) \in Seq(A)
    OBVIOUS
  <2>. QED BY <2>3, <2>4, <2>5
<1>. HIDE DEF S
<1>3. s \in S
  BY <1>1, <1>2, ByAppend
<1>. QED BY <1>3 DEF S
=============================================================================
