-------------------------- MODULE PeripheralsProofs --------------------------
(***************************************************************************)
(* What the firmware's functions over the UART and the SPI master promise, *)
(* for any texts, lengths and depth of the queues; and that the registers  *)
(* and fields of csr.h are the hardware's, for all words.                  *)
(***************************************************************************)
EXTENDS Peripherals, SequenceTheorems, WellFoundedInduction, TLAPS

-----------------------------------------------------------------------------
(* Induction: a set with 0 and the successor of each of its members.       *)

\* A set with 0 that has n + 1 when it has n has every natural number.
LEMMA Induction ==
  ASSUME NEW S, 0 \in S, \A n \in Nat : n \in S => n + 1 \in S
  PROVE  \A n \in Nat : n \in S
<1>. DEFINE R == OpToRel(<, Nat)
            T == Nat \ S
<1>1. IsWellFoundedOn(R, Nat)
  BY NatLessThanWellFounded
<1>2. SUFFICES ASSUME T # {} PROVE FALSE
  OBVIOUS
<1>3. PICK x \in T : \A y \in T : ~ (<<y, x>> \in R)
  <2>. HIDE DEF R
  <2> QED
    BY <1>1, <1>2, WFMin, Zenon
<1>4. x \in Nat /\ x # 0 /\ x - 1 \in Nat
  OBVIOUS
<1>5. x - 1 \notin T
  <2>1. <<x - 1, x>> \in R
    BY <1>4 DEF OpToRel
  <2> QED
    BY <1>3, <2>1, Zenon
<1> QED
  BY <1>4, <1>5

-----------------------------------------------------------------------------
(* FlattenSeq, one sequence more at a time.                                *)

Text == Seq(Int)

Flattens(f, s, n) ==
  f = [i \in 1 .. n |-> IF i = 1 THEN s[i] ELSE f[i - 1] \o s[i]]

Flattened(f, s, i) == f[i] = IF i = 1 THEN s[i] ELSE f[i - 1] \o s[i]

\* What f is at a place, given what it is at the place before.
LEMMA FlattensAt ==
  ASSUME NEW f, NEW s, NEW n \in Nat, Flattens(f, s, n), NEW i \in 1 .. n
  PROVE  Flattened(f, s, i)
<1>. DEFINE e == [j \in 1 .. n |-> IF j = 1 THEN s[j] ELSE f[j - 1] \o s[j]]
<1>1. e[i] = IF i = 1 THEN s[i] ELSE f[i - 1] \o s[i]
  OBVIOUS
<1>2. f = e
  BY Zenon DEF Flattens
<1>. HIDE DEF e
<1> QED
  BY <1>1, <1>2, Zenon DEF Flattened

\* The same, the first place apart.
LEMMA FlattensNext ==
  ASSUME NEW f, NEW s, NEW n \in Nat, Flattens(f, s, n), NEW i \in Nat, i + 1 <= n
  PROVE  /\ i = 0 => f[1] = s[1]
         /\ i # 0 => f[i + 1] = f[i] \o s[i + 1]
<1>1. i + 1 \in 1 .. n
  OBVIOUS
<1>2. Flattened(f, s, i + 1)
  BY <1>1, FlattensAt
<1>3. i = 0 => i + 1 = 1
  OBVIOUS
<1>4. i # 0 => i + 1 # 1 /\ (i + 1) - 1 = i
  OBVIOUS
<1>5. i = 0 => f[1] = s[1]
  BY <1>2, <1>3 DEF Flattened
<1>6. i # 0 => f[i + 1] = f[i] \o s[i + 1]
  BY <1>2, <1>4 DEF Flattened
<1> QED
  BY <1>5, <1>6

\* There is such an f, for any s and any number of places.
LEMMA FlattensExists ==
  ASSUME NEW s
  PROVE  \A n \in Nat : \E f : Flattens(f, s, n)
<1>. DEFINE S == {n \in Nat : \E f : Flattens(f, s, n)}
<1>1. 0 \in S
  <2>1. Flattens([i \in 1 .. 0 |-> s[i]], s, 0)
    BY DEF Flattens
  <2> QED
    BY <2>1
<1>2. ASSUME NEW n \in Nat, n \in S PROVE n + 1 \in S
  <2>1. PICK g : Flattens(g, s, n)
    BY <1>2
  <2>. DEFINE h == [i \in 1 .. n + 1 |->
                      IF i <= n THEN g[i] ELSE IF i = 1 THEN s[i] ELSE g[n] \o s[i]]
  <2>2. ASSUME NEW i \in 1 .. n + 1
        PROVE  h[i] = IF i = 1 THEN s[i] ELSE h[i - 1] \o s[i]
    <3>1. CASE i <= n
      <4>1. i \in 1 .. n
        BY <3>1
      <4>2. g[i] = IF i = 1 THEN s[i] ELSE g[i - 1] \o s[i]
        BY <2>1, <4>1 DEF Flattens
      <4>3. i # 1 => h[i - 1] = g[i - 1]
        BY <4>1
      <4> QED
        BY <3>1, <4>2, <4>3
    <3>2. CASE i = n + 1
      <4>1. i # 1 => h[i - 1] = g[n]
        BY <3>2
      <4> QED
        BY <3>2, <4>1
    <3> QED
      BY <3>1, <3>2
  <2>3. Flattens(h, s, n + 1)
    <3>1. h = [i \in 1 .. n + 1 |-> h[i]]
      OBVIOUS
    <3>. HIDE DEF h
    <3> QED
      BY <2>2, <3>1 DEF Flattens
  <2> QED
    BY <2>3
<1>3. \A n \in Nat : n \in S
  <2>. HIDE DEF S
  <2> QED
    BY <1>1, <1>2, Induction
<1> QED
  BY <1>3

\* It depends on no more of s than what comes up to its place.
LEMMA FlattensSame ==
  ASSUME NEW s, NEW t, NEW f, NEW g, NEW m \in Nat, NEW n \in Nat,
         Flattens(f, s, m), Flattens(g, t, n), n <= m, \A i \in 1 .. n : s[i] = t[i]
  PROVE  \A i \in 1 .. n : f[i] = g[i]
<1>. DEFINE S == {i \in Nat : i \in 1 .. n => f[i] = g[i]}
<1>1. 0 \in S
  OBVIOUS
<1>2. ASSUME NEW i \in Nat, i \in S PROVE i + 1 \in S
  <2>1. SUFFICES ASSUME i + 1 \in 1 .. n PROVE f[i + 1] = g[i + 1]
    OBVIOUS
  <2>2. /\ f[i + 1] = IF i + 1 = 1 THEN s[i + 1] ELSE f[(i + 1) - 1] \o s[i + 1]
        /\ g[i + 1] = IF i + 1 = 1 THEN t[i + 1] ELSE g[(i + 1) - 1] \o t[i + 1]
    <3>1. i + 1 \in 1 .. m
      BY <2>1
    <3>2. Flattened(f, s, i + 1) /\ Flattened(g, t, i + 1)
      BY <2>1, <3>1, FlattensAt
    <3> QED
      BY <3>2 DEF Flattened
  <2>3. i + 1 # 1 => f[i] = g[i]
    BY <1>2, <2>1
  <2>4. (i + 1) - 1 = i /\ s[i + 1] = t[i + 1]
    BY <2>1
  <2> QED
    BY <2>2, <2>3, <2>4
<1>3. \A i \in Nat : i \in S
  <2>. HIDE DEF S
  <2> QED
    BY <1>1, <1>2, Induction
<1> QED
  BY <1>3

\* Texts one after another are a text.
LEMMA FlattensType ==
  ASSUME NEW s \in Seq(Text), NEW f, Flattens(f, s, Len(s))
  PROVE  \A i \in 1 .. Len(s) : f[i] \in Text
<1>. DEFINE S == {i \in Nat : i \in 1 .. Len(s) => f[i] \in Text}
<1>1. 0 \in S
  OBVIOUS
<1>2. ASSUME NEW i \in Nat, i \in S PROVE i + 1 \in S
  <2>1. SUFFICES ASSUME i + 1 \in 1 .. Len(s) PROVE f[i + 1] \in Text
    OBVIOUS
  <2>2. f[i + 1] = IF i + 1 = 1 THEN s[i + 1] ELSE f[(i + 1) - 1] \o s[i + 1]
    <3>1. Len(s) \in Nat
      OBVIOUS
    <3>2. Flattened(f, s, i + 1)
      BY <2>1, <3>1, FlattensAt
    <3> QED
      BY <3>2 DEF Flattened
  <2>3. i + 1 # 1 => f[i] \in Text
    BY <1>2, <2>1
  <2>4. (i + 1) - 1 = i /\ s[i + 1] \in Text
    BY <2>1
  <2>5. ASSUME NEW a \in Text, NEW b \in Text PROVE a \o b \in Text
    BY DEF Text
  <2> QED
    BY <2>2, <2>3, <2>4, <2>5
<1>3. \A i \in Nat : i \in S
  <2>. HIDE DEF S
  <2> QED
    BY <1>1, <1>2, Induction
<1> QED
  BY <1>3

\* FlattenSeq is the last value of such an f.
LEMMA FlattenIs ==
  ASSUME NEW s \in Seq(Text), Len(s) > 0
  PROVE  \E f : Flattens(f, s, Len(s)) /\ FlattenSeq(s) = f[Len(s)]
<1>. DEFINE f == CHOOSE g : g = [i \in 1 .. Len(s) |-> IF i = 1 THEN s[i] ELSE g[i - 1] \o s[i]]
<1>1. FlattenSeq(s) = f[Len(s)]
  BY DEF FlattenSeq
<1>2. Len(s) \in Nat
  OBVIOUS
<1>3. \E g : g = [i \in 1 .. Len(s) |-> IF i = 1 THEN s[i] ELSE g[i - 1] \o s[i]]
  BY <1>2, FlattensExists, Zenon DEF Flattens
<1>4. f = [i \in 1 .. Len(s) |-> IF i = 1 THEN s[i] ELSE f[i - 1] \o s[i]]
  BY <1>3, Zenon
<1>. HIDE DEF f
<1>5. Flattens(f, s, Len(s))
  BY <1>4, Zenon DEF Flattens
<1> QED
  BY <1>1, <1>5

LEMMA FlattenEmpty == FlattenSeq(<<>>) = <<>>
  BY DEF FlattenSeq


\* FlattenSeq of one sequence more.
LEMMA FlattenAppend ==
  ASSUME NEW s \in Seq(Text), NEW x \in Text
  PROVE  /\ FlattenSeq(s) \in Text
         /\ FlattenSeq(Append(s, x)) = FlattenSeq(s) \o x
<1>1. Len(s) \in Nat /\ Append(s, x) \in Seq(Text)
  OBVIOUS
<1>2. PICK n \in Nat, u \in Seq(Text) : n = Len(s) /\ u = Append(s, x)
  BY <1>1
<1>3. /\ Len(u) = n + 1 /\ n + 1 > 0 /\ n + 1 \in Nat
      /\ u[n + 1] = x /\ \A i \in 1 .. n : u[i] = s[i]
  BY <1>2
<1>4. PICK f : Flattens(f, u, n + 1) /\ FlattenSeq(u) = f[n + 1]
  BY <1>3, FlattenIs
<1>5. (n = 0 => f[1] = u[1]) /\ (n # 0 => f[n + 1] = f[n] \o u[n + 1])
  <2>1. n + 1 <= n + 1
    OBVIOUS
  <2> QED
    BY <1>3, <1>4, <2>1, FlattensNext, ZenonT(60)
<1>6. CASE n = 0
  <2>1. s = <<>>
    <3>1. Len(s) = 0
      BY <1>2, <1>6
    <3> QED
      BY <3>1
  <2>2. FlattenSeq(s) = <<>> /\ <<>> \in Text
    BY <2>1, FlattenEmpty DEF Text
  <2>3. <<>> \o x = x
    BY DEF Text
  <2>4. FlattenSeq(u) = x
    BY <1>3, <1>4, <1>5, <1>6
  <2> QED
    BY <1>2, <2>2, <2>3, <2>4
<1>7. CASE n # 0
  <2>1. PICK g : Flattens(g, s, n) /\ FlattenSeq(s) = g[n]
    BY <1>2, <1>7, FlattenIs
  <2>2. \A i \in 1 .. n : f[i] = g[i]
    <3>1. n <= n + 1
      OBVIOUS
    <3>2. \A i \in 1 .. n : u[i] = s[i]
      BY <1>3
    <3> QED
      BY <1>3, <1>4, <2>1, <3>1, <3>2, FlattensSame
  <2>3. n \in 1 .. n
    BY <1>7
  <2>4. g[n] \in Text
    BY <1>2, <2>1, <2>3, FlattensType
  <2>5. FlattenSeq(u) = g[n] \o x
    BY <1>3, <1>4, <1>5, <1>7, <2>2, <2>3
  <2> QED
    BY <1>2, <2>1, <2>4, <2>5
<1> QED
  BY <1>6, <1>7

-----------------------------------------------------------------------------
(* What goes out for a text.                                               *)

Out(c) == IF c = NL THEN <<CR, NL>> ELSE <<c>>
Outs(t) == [i \in DOMAIN t |-> Out(t[i])]
Expand(t) == FlattenSeq(Outs(t))

\* What goes out is characters.
LEMMA OutTypes ==
  /\ \A c \in Int : Out(c) \in Text
  /\ \A t \in Text : Outs(t) \in Seq(Text) /\ Len(Outs(t)) = Len(t) /\ Expand(t) \in Text
<1>1. ASSUME NEW c \in Int PROVE Out(c) \in Text
  BY DEF Out, Text, NL, CR
<1>2. ASSUME NEW t \in Text PROVE Outs(t) \in Seq(Text) /\ Len(Outs(t)) = Len(t)
  <2>1. Len(t) \in Nat /\ DOMAIN t = 1 .. Len(t) /\ \A i \in 1 .. Len(t) : t[i] \in Int
    BY DEF Text
  <2>2. \A i \in 1 .. Len(t) : Out(t[i]) \in Text
    BY <1>1, <2>1
  <2>3. Outs(t) = [i \in 1 .. Len(t) |-> Out(t[i])]
    BY <2>1 DEF Outs
  <2> QED
    BY <2>1, <2>2, <2>3
<1>3. ASSUME NEW t \in Text PROVE Expand(t) \in Text
  <2>1. <<>> \in Text
    BY DEF Text
  <2> QED
    BY <1>2, <2>1, FlattenAppend, Zenon DEF Expand
<1> QED
  BY <1>1, <1>2, <1>3

\* What goes out for one character more.
LEMMA ExpandAppend ==
  ASSUME NEW t \in Text, NEW c \in Int
  PROVE  Expand(Append(t, c)) = Expand(t) \o Out(c)
<1>1. /\ Len(t) \in Nat /\ DOMAIN t = 1 .. Len(t) /\ Append(t, c) \in Text
      /\ DOMAIN Append(t, c) = 1 .. Len(t) + 1
      /\ Append(t, c)[Len(t) + 1] = c /\ \A i \in 1 .. Len(t) : Append(t, c)[i] = t[i]
  BY DEF Text
<1>2. Outs(t) \in Seq(Text) /\ Len(Outs(t)) = Len(t) /\ Out(c) \in Text
  BY OutTypes
<1>3. Outs(Append(t, c)) = Append(Outs(t), Out(c))
  <2>1. /\ DOMAIN Append(Outs(t), Out(c)) = 1 .. Len(t) + 1
        /\ Append(Outs(t), Out(c))[Len(t) + 1] = Out(c)
        /\ \A i \in 1 .. Len(t) : Append(Outs(t), Out(c))[i] = Outs(t)[i]
    BY <1>1, <1>2
  <2>2. \A i \in 1 .. Len(t) : Outs(t)[i] = Out(t[i])
    BY <1>1 DEF Outs
  <2>3. ASSUME NEW i \in 1 .. Len(t) + 1
        PROVE  Append(Outs(t), Out(c))[i] = Out(Append(t, c)[i])
    <3>1. CASE i \in 1 .. Len(t)
      BY <1>1, <2>1, <2>2, <3>1
    <3>2. CASE i = Len(t) + 1
      BY <1>1, <2>1, <3>2
    <3>3. i \in 1 .. Len(t) \/ i = Len(t) + 1
      BY <1>1
    <3> QED
      BY <3>1, <3>2, <3>3, Zenon
  <2>4. Outs(Append(t, c)) = [i \in 1 .. Len(t) + 1 |-> Out(Append(t, c)[i])]
    BY <1>1 DEF Outs
  <2>5. ASSUME NEW x \in Seq(Text) PROVE x = [i \in DOMAIN x |-> x[i]]
    OBVIOUS
  <2>6. Append(Outs(t), Out(c)) \in Seq(Text)
    BY <1>2
  <2> QED
    BY <2>1, <2>3, <2>4, <2>5, <2>6
<1>4. FlattenSeq(Append(Outs(t), Out(c))) = FlattenSeq(Outs(t)) \o Out(c)
  BY <1>2, FlattenAppend, Zenon
<1> QED
  BY <1>3, <1>4 DEF Expand

LEMMA ExpandEmpty == Expand(<<>>) = <<>>
<1>1. Outs(<<>>) = <<>>
  BY DEF Outs
<1> QED
  BY <1>1, FlattenEmpty DEF Expand

\* Texts with a character or with nothing at their end.
LEMMA Joining ==
  ASSUME NEW s \in Text, NEW t \in Text, NEW c \in Int
  PROVE  /\ s \o t \in Text /\ Append(t, c) \in Text
         /\ s \o Append(t, c) = Append(s \o t, c)
         /\ Append(t, c) = t \o <<c>> /\ <<c>> \in Text
         /\ s \o <<>> = s /\ <<>> \o s = s
<1>1. s \o t \in Text /\ Append(t, c) \in Text /\ <<c>> \in Text
  BY DEF Text
<1>2. s \o Append(t, c) = Append(s \o t, c)
  BY SMTT(60) DEF Text
<1>3. Append(t, c) = t \o <<c>>
  BY DEF Text
<1>4. s \o <<>> = s /\ <<>> \o s = s
  BY DEF Text
<1> QED
  BY <1>1, <1>2, <1>3, <1>4

\* Three texts may be joined in either order.
LEMMA Associative ==
  ASSUME NEW s \in Text, NEW t \in Text, NEW u \in Text
  PROVE  (s \o t) \o u = s \o (t \o u)
BY SMTT(60) DEF Text

LEMMA Regroup ==
  ASSUME NEW s \in Text, NEW t \in Text, NEW u \in Text, NEW a, NEW b,
         a = (s \o t) \o u, b = t \o u
  PROVE  a = s \o b
BY Associative

\* What goes out for one text after another.
LEMMA ExpandConcat ==
  ASSUME NEW s \in Text, NEW t \in Text
  PROVE  Expand(s \o t) = Expand(s) \o Expand(t)
<1>. DEFINE Good(u) == Expand(s \o u) = Expand(s) \o Expand(u)
            S == {n \in Nat : \A u \in Text : Len(u) = n => Good(u)}
<1>1. 0 \in S
  <2>1. ASSUME NEW u \in Text, Len(u) = 0 PROVE Good(u)
    <3>1. u = <<>>
      BY <2>1 DEF Text
    <3>2. Expand(s) \in Text
      BY OutTypes
    <3>3. s \o <<>> = s /\ Expand(s) \o <<>> = Expand(s)
      BY <3>2, Joining
    <3> QED
      BY <3>1, <3>3, ExpandEmpty
  <2> QED
    BY <2>1
<1>2. ASSUME NEW n \in Nat, n \in S PROVE n + 1 \in S
  <2>1. ASSUME NEW u \in Text, Len(u) = n + 1 PROVE Good(u)
    <3>1. PICK v \in Text, c \in Int : u = Append(v, c)
      <4>1. u \in Seq(Int) /\ u # <<>>
        BY <2>1 DEF Text
      <4> QED
        BY <4>1, SequenceEmptyOrAppend, Zenon DEF Text
    <3>2. Len(v) = n
      BY <2>1, <3>1 DEF Text
    <3>3. Expand(s \o v) = Expand(s) \o Expand(v)
      BY <1>2, <3>2
    <3>4. /\ s \o v \in Text /\ s \o u = Append(s \o v, c)
          /\ Expand(s) \in Text /\ Expand(v) \in Text /\ Out(c) \in Text
      <4>1. s \o v \in Text
        BY DEF Text
      <4>3. s \o Append(v, c) = Append(s \o v, c)
        BY SMTT(60) DEF Text
      <4>2. Expand(s) \in Text /\ Expand(v) \in Text /\ Out(c) \in Text
        BY OutTypes, Zenon
      <4> QED
        BY <3>1, <4>1, <4>2, <4>3, Zenon
    <3>5. Expand(s \o u) = (Expand(s) \o Expand(v)) \o Out(c)
      BY <3>3, <3>4, ExpandAppend
    <3>6. Expand(u) = Expand(v) \o Out(c)
      BY <3>1, ExpandAppend
    <3> QED
      BY <3>4, <3>5, <3>6, Regroup, SMTT(60)
  <2>2. \A u \in Text : Len(u) = n + 1 => Good(u)
    BY <2>1
  <2>. HIDE DEF Good
  <2> QED
    BY <2>2
<1>3. \A n \in Nat : n \in S
  <2>. HIDE DEF S
  <2> QED
    BY <1>1, <1>2, Induction
<1>4. Len(t) \in Nat
  BY DEF Text
<1>. HIDE DEF Good
<1>5. Good(t)
  BY <1>3, <1>4
<1> QED
  BY <1>5 DEF Good

\* The first character, and the rest of the text.
LEMMA ExpandHead ==
  ASSUME NEW t \in Text, t # <<>>
  PROVE  /\ Head(t) \in Int /\ Tail(t) \in Text
         /\ Expand(t) = Out(Head(t)) \o Expand(Tail(t))
<1>1. Head(t) \in Int /\ Tail(t) \in Text /\ t = <<Head(t)>> \o Tail(t)
  BY DEF Text
<1>2. <<Head(t)>> \in Text /\ <<>> \in Text /\ Append(<<>>, Head(t)) = <<Head(t)>>
  BY <1>1 DEF Text
<1>3. Out(Head(t)) \in Text
  BY <1>1, OutTypes
<1>4. Expand(<<Head(t)>>) = Out(Head(t))
  <2>1. Expand(Append(<<>>, Head(t))) = Expand(<<>>) \o Out(Head(t))
    BY <1>1, <1>2, ExpandAppend, Zenon
  <2>2. <<>> \o Out(Head(t)) = Out(Head(t))
    BY <1>1, <1>3, Joining
  <2> QED
    BY <1>2, <2>1, <2>2, ExpandEmpty
<1>5. Expand(<<Head(t)>> \o Tail(t)) = Expand(<<Head(t)>>) \o Expand(Tail(t))
  BY <1>1, <1>2, ExpandConcat, Zenon
<1> QED
  BY <1>1, <1>4, <1>5

\* A text is a prefix of itself and what follows.
LEMMA PrefixOf ==
  ASSUME NEW s \in Text, NEW t \in Text
  PROVE  IsPrefix(s, s \o t)
<1>1. /\ Len(s) \in Nat /\ Len(t) \in Nat /\ Len(s \o t) = Len(s) + Len(t)
      /\ s \o t \in Text /\ \A i \in 1 .. Len(s) : (s \o t)[i] = s[i]
  BY DEF Text
<1>2. SubSeq(s, 1, Len(s)) = SubSeq(s \o t, 1, Len(s))
  BY <1>1 DEF Text
<1> QED
  BY <1>1, <1>2 DEF IsPrefix

-----------------------------------------------------------------------------
(* The registers that the functions of this module reach.                  *)

LEMMA Powers == 2 ^ 0 = 1 /\ 2 ^ 1 = 2 /\ 2 ^ 8 = 256 /\ 2 ^ 16 = 65536
  OBVIOUS

\* The addresses of the UART's registers that print, the isr and the accessors use.
LEMMA DecodesUart ==
  /\ Decode(reg_uart_data) = <<"uart", "rxtx">>
  /\ Decode(uart.regs.ev_pending) = <<"uart", "ev_pending">>
  /\ Decode(uart.regs.ev_enable) = <<"uart", "ev_enable">>
  /\ Decode(reg_uart_txfull) = <<"uart", "txfull">>
<1>1. /\ reg_uart_data = 22528 /\ uart.regs.ev_pending = 22544
      /\ uart.regs.ev_enable = 22548 /\ reg_uart_txfull = 22532
  BY DEF reg_uart_data, reg_uart_txfull, uart
<1>2. /\ ((22528 \div 2048) % 32) + 1 = 12 /\ ((22528 \div 4) % 512) + 1 = 1
      /\ ((22544 \div 2048) % 32) + 1 = 12 /\ ((22544 \div 4) % 512) + 1 = 5
      /\ ((22548 \div 2048) % 32) + 1 = 12 /\ ((22548 \div 4) % 512) + 1 = 6
      /\ ((22532 \div 2048) % 32) + 1 = 12 /\ ((22532 \div 4) % 512) + 1 = 2
  OBVIOUS
<1>3. /\ 12 \in DOMAIN csrbank
      /\ csrbank[12] = <<"uart", <<"rxtx", "txfull", "rxempty", "ev_status", "ev_pending",
                                   "ev_enable", "txempty", "rxfull">>>>
  BY DEF csrbank
<1>4. Decode(22528) = <<"uart", "rxtx">>
  BY <1>2, <1>3 DEF Decode
<1>5. Decode(22544) = <<"uart", "ev_pending">>
  BY <1>2, <1>3 DEF Decode
<1>6. Decode(22548) = <<"uart", "ev_enable">>
  BY <1>2, <1>3 DEF Decode
<1>7. Decode(22532) = <<"uart", "txfull">>
  BY <1>2, <1>3 DEF Decode
<1> QED
  BY <1>1, <1>4, <1>5, <1>6, <1>7

\* The SPI master's control register is behind its address.
LEMMA DecodesSpi == Decode(spi_master.regs.control) = <<"spi_master", "control">>
<1>1. spi_master.regs.control = 18432
  BY DEF spi_master
<1>2. ((18432 \div 2048) % 32) + 1 = 10 /\ ((18432 \div 4) % 512) + 1 = 1
  OBVIOUS
<1>3. 10 \in DOMAIN csrbank /\ csrbank[10] = <<"spi_master", <<"control", "status", "mosi",
                                   "miso", "cs", "loopback", "clk_divider">>>>
  BY DEF csrbank
<1> QED
  BY <1>1, <1>2, <1>3 DEF Decode

\* The two words of the logic analyzer that the isr writes.
LEMMA DecodesLa ==
  ASSUME NEW n \in 0 .. 1
  PROVE  Decode(reg_la("out", n)) = <<"la", <<"out", n>>>>
<1>1. reg_la("out", 1) = 12344 /\ reg_la("out", 0) = 12348
  BY DEF reg_la, la
<1>2. /\ ((12344 \div 2048) % 32) + 1 = 7 /\ ((12344 \div 4) % 512) + 1 = 15
      /\ ((12348 \div 2048) % 32) + 1 = 7 /\ ((12348 \div 4) % 512) + 1 = 16
  OBVIOUS
<1>3. /\ 7 \in DOMAIN csrbank /\ csrbank[7][1] = "la"
      /\ 15 \in DOMAIN csrbank[7][2] /\ csrbank[7][2][15] = <<"out", 1>>
      /\ 16 \in DOMAIN csrbank[7][2] /\ csrbank[7][2][16] = <<"out", 0>>
  BY DEF csrbank
<1>4. Decode(12344) = <<"la", <<"out", 1>>>>
  BY <1>2, <1>3 DEF Decode
<1>5. Decode(12348) = <<"la", <<"out", 0>>>>
  BY <1>2, <1>3 DEF Decode
<1>6. n = 0 \/ n = 1
  OBVIOUS
<1> QED
  BY <1>1, <1>4, <1>5, <1>6

-----------------------------------------------------------------------------
(* The inductive invariant.                                                *)

Flags == [Events -> BOOLEAN]
Labels == {"idle", "poll", "store", "field_read", "field_write",
           "setmask", "la1", "la0", "flag"}
Names == {"text", "c", "return", "adr", "field", "value", "oldword"}

Transfers ==
  [control : Int, state : {"idle", "start", "xfer", "end"},
   count : 0 .. 7, bits : 0 .. 9, rewritten : BOOLEAN]

\* The fields that main writes, and the addresses of their registers.
Fields ==
  {Field("ev_pending", 0, 1), Field("ev_pending", 1, 1), Field("ev_enable", 0, 1),
   Field("ev_enable", 1, 1), Field("control", 0, 1), Field("control", 8, 8)}
Addresses ==
  {uart.regs.ev_pending, uart.regs.ev_enable, spi_master.regs.control}

LocalsOk(l) == DOMAIN l = Names /\ l.text \in Text /\ l.c \in Int

\* What main is writing to a field.
AccessOk(label, l) ==
  /\ label \in {"field_read", "field_write"} =>
       l.adr \in Addresses /\ l.field \in Fields /\ l.value \in Int
  /\ label = "field_write" => l.oldword \in Int

UartOk ==
  /\ tx \in Text /\ rx \in Nat
  /\ pending \in Flags /\ trigger \in Flags /\ enable \in Flags

\* What print has still to put into the queue of the text it was given.
ToCome(label, l) ==
  IF label \in {"poll", "store"}
  THEN (IF l.return THEN <<CR, l.c>> ELSE <<l.c>>) \o Expand(l.text)
  ELSE <<>>

PrintInv ==
  /\ sent \in Text /\ printed \in Text
  /\ pc \in [{"main", "isr"} -> Labels]
  /\ LocalsOk(loc) /\ AccessOk(pc["main"], loc)
  /\ sent \o (tx \o ToCome(pc["main"], loc)) = Expand(printed)
  /\ pc["main"] = "store" => writable(Len(tx))

\* While it goes on, a transfer that was not rewritten has counted its bits,
\* and a length of 1 to 8 is not reached; no other length ever is.
BitsOk(s) ==
  LET length == extract(spi_master.fields.length, s.control)
  IN /\ s.state = "start" => s.bits = 0
     /\ s.state = "xfer" /\ ~s.rewritten /\ length \in 1 .. 8 =>
          s.bits = s.count /\ s.bits < length
     /\ s.state = "end" /\ ~s.rewritten => s.bits = length

Inv ==
  /\ UartOk /\ CharactersHaveEvents
  /\ PrintInv
  /\ spi \in Transfers /\ BitsOk(spi)

-----------------------------------------------------------------------------
(* The arithmetic of the accessors.                                        *)

\* The fields that main writes are those, in registers at those addresses.
LEMMA FieldsAre ==
  /\ \A f \in Fields : f.offset \in {0, 1, 8} /\ f.size \in {1, 8}
  /\ uart.fields.pending_tx \in Fields /\ uart.fields.pending_rx \in Fields
  /\ uart.fields.enable_tx \in Fields /\ uart.fields.enable_rx \in Fields
  /\ spi_master.fields.start \in Fields /\ spi_master.fields.length \in Fields
  /\ uart.regs[uart.fields.pending_tx.reg] \in Addresses
  /\ uart.regs[uart.fields.pending_rx.reg] \in Addresses
  /\ uart.regs[uart.fields.enable_tx.reg] \in Addresses
  /\ uart.regs[uart.fields.enable_rx.reg] \in Addresses
  /\ spi_master.regs[spi_master.fields.start.reg] \in Addresses
  /\ spi_master.regs[spi_master.fields.length.reg] \in Addresses
<1>1. \A f \in Fields : f.offset \in {0, 1, 8} /\ f.size \in {1, 8}
  BY DEF Fields, Field
<1>2. /\ uart.fields.pending_tx = Field("ev_pending", 0, 1)
      /\ uart.fields.pending_rx = Field("ev_pending", 1, 1)
      /\ uart.fields.enable_tx = Field("ev_enable", 0, 1)
      /\ uart.fields.enable_rx = Field("ev_enable", 1, 1)
  BY DEF uart
<1>3. /\ spi_master.fields.start = Field("control", 0, 1)
      /\ spi_master.fields.length = Field("control", 8, 8)
  BY DEF spi_master
<1>4. \A reg, o, s : Field(reg, o, s).reg = reg
  BY DEF Field
<1>5. uart.regs["ev_pending"] \in Addresses /\ uart.regs["ev_enable"] \in Addresses
  BY DEF Addresses
<1>6. spi_master.regs["control"] \in Addresses
  BY DEF Addresses
<1>7. /\ Field("ev_pending", 0, 1) \in Fields /\ Field("ev_pending", 1, 1) \in Fields
      /\ Field("ev_enable", 0, 1) \in Fields /\ Field("ev_enable", 1, 1) \in Fields
      /\ Field("control", 0, 1) \in Fields /\ Field("control", 8, 8) \in Fields
  BY DEF Fields
<1> QED
  BY <1>1, <1>2, <1>3, <1>4, <1>5, <1>6, <1>7

\* A word with a field replaced is a word.
LEMMA ReplaceType ==
  ASSUME NEW f \in Fields, NEW w \in Int, NEW v \in Int
  PROVE  replace(f, w, v) \in Int
<1>1. f.offset \in {0, 1, 8} /\ f.size \in {1, 8}
  BY FieldsAre
<1>. DEFINE p == 2 ^ f.offset
            q == 2 ^ f.size
<1>2. p \in Nat \ {0} /\ q \in Nat \ {0}
  <2>1. f.offset = 0 \/ f.offset = 1 \/ f.offset = 8
    BY <1>1
  <2>2. f.size = 1 \/ f.size = 8
    BY <1>1
  <2>3. p = 1 \/ p = 2 \/ p = 256
    <3>1. p = 2 ^ 0 \/ p = 2 ^ 1 \/ p = 2 ^ 8
      BY <2>1, Zenon
    <3>. HIDE DEF p
    <3> QED
      BY <3>1
  <2>4. q = 2 \/ q = 256
    <3>1. q = 2 ^ 1 \/ q = 2 ^ 8
      BY <2>2, Zenon
    <3>. HIDE DEF q
    <3> QED
      BY <3>1
  <2>. HIDE DEF p, q
  <2> QED
    BY <2>3, <2>4
<1>. HIDE DEF p, q
<1>3. extract(f, w) = (w \div p) % q
  BY DEF extract, p, q
<1>4. replace(f, w, v) = w + ((v % q) - extract(f, w)) * p
  BY DEF replace, p, q
<1>5. (w \div p) \in Int
  BY <1>2
<1>6. extract(f, w) \in Int /\ v % q \in Int
  BY <1>2, <1>3, <1>5
<1> QED
  BY <1>2, <1>4, <1>6

\* The length has 8 bits.
LEMMA LengthIs ==
  ASSUME NEW w \in Int
  PROVE  extract(spi_master.fields.length, w) \in 0 .. 255
<1>1. spi_master.fields.length.offset = 8 /\ spi_master.fields.length.size = 8
  BY DEF spi_master, Field
<1>2. extract(spi_master.fields.length, w) = (w \div 256) % 256
  BY <1>1, Powers DEF extract
<1> QED
  BY <1>2

-----------------------------------------------------------------------------
(* The UART.                                                               *)

LEMMA LevelIs ==
  ASSUME UartOk
  PROVE  Level \in Flags /\ Level["rx"] = (rx > 0) /\ Rising \in Flags
<1>1. Level["tx"] = writable(Len(tx)) /\ Level["rx"] = (rx > 0)
  BY DEF Level, Events
<1>2. Level \in Flags
  BY <1>1 DEF Level, Flags, Events, writable
<1> QED
  BY <1>1, <1>2 DEF Rising, Flags, UartOk

\* Of a clock of the events: what is up to the receiver.
LEMMA ClockRx ==
  ASSUME UartOk, NEW CONSTANT clear, Clock(clear)
  PROVE  /\ pending' \in Flags /\ trigger' \in Flags
         /\ trigger'["rx"] = (rx > 0)
         /\ rx > 0 /\ ~trigger["rx"] => pending'["rx"]
         /\ pending["rx"] /\ ~clear["rx"] => pending'["rx"]
<1>1. Level \in Flags /\ Level["rx"] = (rx > 0) /\ Rising \in Flags
  BY LevelIs
<1>2. trigger' = Level
  BY DEF Clock
<1>3. pending' = [e \in Events |-> Rising[e] \/ (pending[e] /\ ~clear[e])]
  BY DEF Clock
<1>4. "rx" \in Events
  BY DEF Events
<1>5. pending'["rx"] = (Rising["rx"] \/ (pending["rx"] /\ ~clear["rx"]))
  BY <1>3, <1>4, Zenon
<1>6. Rising["rx"] = (Level["rx"] /\ ~trigger["rx"])
  BY <1>4, Zenon DEF Rising
<1>7. pending' \in Flags
  BY <1>3, Zenon DEF Flags
<1> QED
  BY <1>1, <1>2, <1>5, <1>6, <1>7

LEMMA OfBitsType == ASSUME NEW w PROVE OfBits(w) \in Flags
BY Zenon DEF OfBits, Flags

\* An acknowledgement: it takes a character only with the event it clears.
LEMMA AcknowledgeRx ==
  ASSUME UartOk, CharactersHaveEvents, NEW CONSTANT w, Acknowledge(w)
  PROVE  UartOk' /\ CharactersHaveEvents'
<1>. DEFINE clear == OfBits(w)
<1>1. clear \in Flags
  BY OfBitsType
<1>2. /\ Clock(clear)
      /\ rx' = IF clear["rx"] /\ rx > 0 THEN rx - 1 ELSE rx
      /\ leftover' = IF clear["rx"] THEN rx > 1 ELSE leftover
      /\ tx' = tx /\ enable' = enable
  BY DEF Acknowledge
<1>. HIDE DEF clear
<1>3. /\ pending' \in Flags /\ trigger' \in Flags
      /\ trigger'["rx"] = (rx > 0)
      /\ rx > 0 /\ ~trigger["rx"] => pending'["rx"]
      /\ pending["rx"] /\ ~clear["rx"] => pending'["rx"]
  BY <1>2, ClockRx
<1>4. rx \in Nat
  BY DEF UartOk
<1>5. rx' \in Nat
  BY <1>2, <1>4
<1>6. UartOk'
  BY <1>2, <1>3, <1>5 DEF UartOk
<1>7. CharactersHaveEvents'
  <2>1. SUFFICES ASSUME rx' > 0, ~leftover' PROVE pending'["rx"]
    BY DEF CharactersHaveEvents
  <2>2. ASSUME clear["rx"] PROVE FALSE
    <3>1. rx' = IF rx > 0 THEN rx - 1 ELSE rx
      BY <1>2, <2>2
    <3>2. leftover' = (rx > 1)
      BY <1>2, <2>2
    <3>3. ~(rx > 1)
      BY <2>1, <3>2, Zenon
    <3>4. rx' > 0
      BY <2>1
    <3> QED
      BY <1>4, <3>1, <3>3, <3>4
  <2>3. rx > 0 /\ ~leftover
    BY <1>2, <2>1, <2>2
  <2> QED
    BY <1>3, <2>2, <2>3 DEF CharactersHaveEvents
<1> QED
  BY <1>6, <1>7

\* A clock of the events on its own.
LEMMA SampleRx ==
  ASSUME UartOk, CharactersHaveEvents, Sample
  PROVE  UartOk' /\ CharactersHaveEvents'
<1>1. /\ Clock(None)
      /\ rx' = rx /\ tx' = tx /\ enable' = enable /\ leftover' = leftover
  BY DEF Sample, history
<1>2. ~None["rx"]
  BY DEF None, Events
<1>3. /\ pending' \in Flags /\ trigger' \in Flags
      /\ rx > 0 /\ ~trigger["rx"] => pending'["rx"]
      /\ pending["rx"] /\ ~None["rx"] => pending'["rx"]
  BY <1>1, ClockRx
<1>4. UartOk'
  BY <1>1, <1>3 DEF UartOk
<1>5. CharactersHaveEvents'
  BY <1>1, <1>2, <1>3 DEF CharactersHaveEvents
<1> QED
  BY <1>4, <1>5

\* A character comes in when the events have seen the last one.
LEMMA GivesRx ==
  ASSUME UartOk, CharactersHaveEvents, LineGives
  PROVE  UartOk' /\ CharactersHaveEvents'
<1>1. /\ Settled
      /\ rx' = IF writable(rx) THEN rx + 1 ELSE rx
      /\ UNCHANGED <<tx, pending, trigger, enable, leftover>>
  BY DEF LineGives
<1>2. trigger["rx"] = (rx > 0)
  BY <1>1, LevelIs DEF Settled
<1>3. rx \in Nat
  BY DEF UartOk
<1>4. UartOk'
  <2>1. rx' \in Nat
    BY <1>1, <1>3
  <2> QED
    BY <1>1, <2>1 DEF UartOk
<1>5. CharactersHaveEvents'
  <2>1. CASE rx = 0
    BY <1>1, <1>2, <2>1 DEF CharactersHaveEvents
  <2>2. CASE rx > 0
    BY <1>1, <2>2 DEF CharactersHaveEvents
  <2> QED
    BY <1>3, <2>1, <2>2
<1> QED
  BY <1>4, <1>5

-----------------------------------------------------------------------------
(* The SPI master.                                                         *)

\* A write to the control register, whatever the master is at.
LEMMA StartedOk ==
  ASSUME spi \in Transfers, BitsOk(spi), NEW CONSTANT w \in Int
  PROVE  Started(w) \in Transfers /\ BitsOk(Started(w))
<1>. DEFINE s == Started(w)
<1>1. /\ spi.state \in {"idle", "start", "xfer", "end"} /\ spi.count \in 0 .. 7
      /\ spi.bits \in 0 .. 9 /\ spi.rewritten \in BOOLEAN
  BY DEF Transfers
<1>2. CASE spi.state = "idle" /\ extract(spi_master.fields.start, w) = 1
  <2>1. s = [control |-> w, state |-> "start", count |-> spi.count,
             bits |-> 0, rewritten |-> FALSE]
    BY <1>2 DEF Started
  <2>2. s \in Transfers
    BY <1>1, <2>1 DEF Transfers
  <2>3. s.state = "start" /\ s.bits = 0
    BY <2>1
  <2>. HIDE DEF s
  <2>4. BitsOk(s)
    BY <2>3 DEF BitsOk
  <2> QED
    BY <2>2, <2>4 DEF s
<1>3. CASE spi.state = "idle" /\ extract(spi_master.fields.start, w) # 1
  <2>1. s = [spi EXCEPT !.control = w]
    BY <1>3 DEF Started
  <2>2. s \in Transfers
    BY <2>1 DEF Transfers
  <2>3. s.state = "idle"
    BY <1>3, <2>1 DEF Transfers
  <2>. HIDE DEF s
  <2>4. BitsOk(s)
    BY <2>3 DEF BitsOk
  <2> QED
    BY <2>2, <2>4 DEF s
<1>4. CASE spi.state # "idle"
  <2>1. s = [spi EXCEPT !.control = w, !.rewritten = TRUE]
    BY <1>4 DEF Started
  <2>2. s \in Transfers
    BY <2>1 DEF Transfers
  <2>3. s.state = spi.state /\ s.rewritten /\ s.bits = spi.bits
    BY <2>1 DEF Transfers
  <2>. HIDE DEF s
  <2>4. BitsOk(s)
    BY <2>3 DEF BitsOk
  <2> QED
    BY <2>2, <2>4 DEF s
<1> QED
  BY <1>2, <1>3, <1>4

\* An edge of the SPI clock, whatever the master is at.
LEMMA SpiClockOk ==
  ASSUME spi \in Transfers, BitsOk(spi), SpiClock
  PROVE  (spi \in Transfers)' /\ BitsOk(spi)'
<1>. DEFINE length == extract(spi_master.fields.length, spi.control)
<1>1. /\ spi.state \in {"start", "xfer", "end"} /\ spi.count \in 0 .. 7
      /\ spi.bits \in 0 .. 9 /\ spi.rewritten \in BOOLEAN /\ spi.control \in Int
  BY DEF Transfers, SpiClock
<1>2. length \in 0 .. 255
  BY <1>1, LengthIs
<1>3. CASE spi.state = "start"
  <2>1. spi' = [spi EXCEPT !.state = "xfer", !.count = 0]
    BY <1>3 DEF SpiClock
  <2>2. /\ spi'.state = "xfer" /\ spi'.count = 0 /\ spi'.control = spi.control
        /\ spi'.bits = spi.bits
    BY <2>1 DEF Transfers
  <2>3. spi' \in Transfers
    <3>1. 0 \in 0 .. 7
      OBVIOUS
    <3> QED
      BY <2>1, <3>1 DEF Transfers
  <2>4. spi.bits = 0
    BY <1>3 DEF BitsOk
  <2>5. BitsOk(spi')
    BY <2>2, <2>4 DEF BitsOk
  <2> QED
    BY <2>3, <2>5
<1>4. CASE spi.state = "xfer"
  <2>. DEFINE last == spi.count = (length - 1) % 256
  <2>1. spi' = [spi EXCEPT !.count = (spi.count + 1) % 8,
                           !.bits = IF spi.bits = 9 THEN spi.bits ELSE spi.bits + 1,
                           !.state = IF last THEN "end" ELSE spi.state]
    BY <1>4 DEF SpiClock, SpiLength
  <2>2. /\ spi'.state = (IF last THEN "end" ELSE "xfer")
        /\ spi'.count = (spi.count + 1) % 8
        /\ spi'.bits = (IF spi.bits = 9 THEN 9 ELSE spi.bits + 1)
        /\ spi'.control = spi.control /\ spi'.rewritten = spi.rewritten
    BY <1>4, <2>1 DEF Transfers
  <2>3. spi' \in Transfers
    <3>1. /\ (spi.count + 1) % 8 \in 0 .. 7
          /\ (IF spi.bits = 9 THEN spi.bits ELSE spi.bits + 1) \in 0 .. 9
      BY <1>1
    <3> QED
      BY <1>4, <2>1, <3>1 DEF Transfers
  <2>4. last => length \in 1 .. 8 /\ spi.count = length - 1
    BY <1>1, <1>2
  <2>5. ~spi.rewritten /\ length \in 1 .. 8 => spi.bits = spi.count /\ spi.bits < length
    BY <1>4 DEF BitsOk
  <2>6. extract(spi_master.fields.length, spi'.control) = length
    BY <2>2
  <2>. HIDE DEF length
  <2>7. ASSUME last, ~spi.rewritten PROVE spi'.bits = length
    BY <1>1, <2>2, <2>4, <2>5, <2>7
  <2>8. ASSUME ~last, ~spi.rewritten, length \in 1 .. 8
        PROVE  spi'.bits = spi'.count /\ spi'.bits < length
    BY <1>1, <2>2, <2>5, <2>8
  <2>9. (last => spi'.state = "end") /\ (~last => spi'.state = "xfer")
    BY <2>2
  <2>10. BitsOk(spi')
    <3>. HIDE DEF last
    <3> QED
      BY <2>2, <2>6, <2>7, <2>8, <2>9 DEF BitsOk
  <2> QED
    BY <2>3, <2>10
<1>5. CASE spi.state = "end"
  <2>1. spi' = [spi EXCEPT !.state = "idle"]
    BY <1>5 DEF SpiClock
  <2>2. spi' \in Transfers /\ spi'.state = "idle"
    BY <2>1 DEF Transfers
  <2>3. BitsOk(spi')
    BY <2>2 DEF BitsOk
  <2> QED
    BY <2>2, <2>3
<1> QED
  BY <1>1, <1>3, <1>4, <1>5

-----------------------------------------------------------------------------
(* print.                                                                  *)

\* What is to come is characters.
LEMMA ToComeType ==
  ASSUME NEW label, NEW l, LocalsOk(l)
  PROVE  ToCome(label, l) \in Text
<1>1. Expand(l.text) \in Text
  BY OutTypes DEF LocalsOk
<1>2. <<CR, l.c>> \in Text /\ <<l.c>> \in Text /\ <<>> \in Text
  BY DEF LocalsOk, Text, CR
<1>3. \A a, b \in Text : a \o b \in Text
  BY DEF Text
<1> QED
  BY <1>1, <1>2, <1>3 DEF ToCome

\* After the rest of a text is taken on, what is to come is that rest.
LEMMA NextCharIs ==
  ASSUME NEW CONSTANT text \in Text, NextChar(text), LocalsOk(loc),
         pc \in [{"main", "isr"} -> Labels]
  PROVE  /\ LocalsOk(loc') /\ pc' \in [{"main", "isr"} -> Labels]
         /\ pc'["main"] \in {"idle", "poll"}
         /\ ToCome(pc'["main"], loc') = Expand(text)
<1>1. CASE text = <<>>
  <2>1. pc' = [pc EXCEPT !["main"] = "idle"] /\ loc' = NoLocals
    BY <1>1 DEF NextChar, Goto
  <2>2. pc' \in [{"main", "isr"} -> Labels] /\ pc'["main"] = "idle"
    BY <2>1 DEF Labels
  <2>3. DOMAIN NoLocals = Names /\ NoLocals.text = <<>> /\ NoLocals.c = 0
    BY DEF NoLocals, Names
  <2>4. LocalsOk(NoLocals)
    BY <2>3 DEF LocalsOk, Text
  <2>5. ToCome("idle", NoLocals) = <<>>
    BY DEF ToCome
  <2> QED
    BY <1>1, <2>1, <2>2, <2>4, <2>5, ExpandEmpty
<1>2. CASE text # <<>>
  <2>1. /\ pc' = [pc EXCEPT !["main"] = "poll"]
        /\ loc' = [loc EXCEPT !.text = Tail(text), !.c = Head(text),
                              !.return = (Head(text) = NL)]
    BY <1>2 DEF NextChar, Goto
  <2>2. pc' \in [{"main", "isr"} -> Labels] /\ pc'["main"] = "poll"
    BY <2>1 DEF Labels
  <2>3. /\ DOMAIN loc' = Names /\ loc'.text = Tail(text) /\ loc'.c = Head(text)
        /\ loc'.return = (Head(text) = NL)
    BY <2>1 DEF LocalsOk, Names
  <2>4. /\ Head(text) \in Int /\ Tail(text) \in Text
        /\ Expand(text) = Out(Head(text)) \o Expand(Tail(text))
    BY <1>2, ExpandHead, Zenon
  <2>5. LocalsOk(loc')
    BY <2>3, <2>4, Zenon DEF LocalsOk
  <2>6. (IF loc'.return THEN <<CR, loc'.c>> ELSE <<loc'.c>>) = Out(Head(text))
    <3>1. CASE Head(text) = NL
      BY <2>3, <3>1 DEF Out
    <3>2. CASE Head(text) # NL
      BY <2>3, <3>2 DEF Out
    <3> QED
      BY <3>1, <3>2
  <2>7. ToCome("poll", loc') = (IF loc'.return THEN <<CR, loc'.c>> ELSE <<loc'.c>>)
                                 \o Expand(loc'.text)
    BY Zenon DEF ToCome
  <2>8. ToCome("poll", loc') = Expand(text)
    BY <2>3, <2>4, <2>6, <2>7, Zenon
  <2> QED
    BY <2>2, <2>5, <2>8
<1> QED
  BY <1>1, <1>2

\* A call of print: the text is all to come.
LEMMA CallPrintOk ==
  ASSUME PeripheralsAssumption, PrintInv, UartOk, CallPrint
  PROVE  PrintInv'
<1>1. PICK text \in Texts : printed' = printed \o text /\ NextChar(text)
  BY DEF CallPrint
<1>2. /\ pc["main"] = "idle" /\ tx' = tx /\ sent' = sent
  BY DEF CallPrint, Call, At, device, uart_vars
<1>3. text \in Text
  BY DEF PeripheralsAssumption, Text
<1>4. /\ LocalsOk(loc') /\ pc' \in [{"main", "isr"} -> Labels]
      /\ pc'["main"] \in {"idle", "poll"}
      /\ ToCome(pc'["main"], loc') = Expand(text)
  BY <1>1, <1>3, NextCharIs DEF PrintInv
<1>5. /\ sent \in Text /\ printed \in Text /\ tx \in Text
      /\ sent \o (tx \o ToCome(pc["main"], loc)) = Expand(printed)
  BY DEF PrintInv, UartOk
<1>6. ToCome(pc["main"], loc) = <<>>
  BY <1>2 DEF ToCome
<1>7. tx \o <<>> = tx
  BY <1>5, Joining
<1>8. sent \o (tx \o Expand(text)) = Expand(printed \o text)
  <2>1. Expand(printed \o text) = Expand(printed) \o Expand(text)
    BY <1>3, <1>5, ExpandConcat, Zenon
  <2>2. (sent \o tx) \o Expand(text) = sent \o (tx \o Expand(text))
    <3>1. Expand(text) \in Text
      BY <1>3, OutTypes, Zenon
    <3> QED
      BY <1>5, <3>1, Associative, ZenonT(60)
  <2> QED
    BY <1>5, <1>6, <1>7, <2>1, <2>2, Zenon
<1>9. printed' \in Text
  BY <1>1, <1>3, <1>5 DEF Text
<1>10. AccessOk(pc'["main"], loc') /\ pc'["main"] # "store"
  BY <1>4 DEF AccessOk
<1> QED
  BY <1>1, <1>2, <1>4, <1>5, <1>8, <1>9, <1>10, Zenon DEF PrintInv

\* A character moves from the front of what follows to the end of what goes before.
LEMMA Moving ==
  ASSUME NEW q \in Text, NEW e \in Text, NEW a \in Int
  PROVE  Append(q, a) \in Text /\ Append(q, a) \o e = q \o (<<a>> \o e)
<1>1. Append(q, a) \in Text /\ <<a>> \in Text
  BY DEF Text
<1>2. Append(q, a) = q \o <<a>>
  BY DEF Text
<1>3. (q \o <<a>>) \o e = q \o (<<a>> \o e)
  BY <1>1, Associative, ZenonT(60)
<1> QED
  BY <1>1, <1>2, <1>3, Zenon

\* The first of two does: '\r', with '\n' still to come.
LEMMA MovingTwo ==
  ASSUME NEW q \in Text, NEW e \in Text, NEW a \in Int, NEW b \in Int
  PROVE  Append(q, a) \o (<<b>> \o e) = q \o (<<a, b>> \o e)
<1>1. <<a>> \in Text /\ <<b>> \in Text /\ <<b>> \o e \in Text
  BY DEF Text
<1>2. <<a>> \o <<b>> = <<a, b>>
  <2>1. Append(<<a>>, b) = <<a, b>>
    <3>. DEFINE x == Append(<<a>>, b)
                y == <<a, b>>
    <3>1. x \in Seq(Int) /\ Len(x) = 2 /\ x[1] = a /\ x[2] = b
      OBVIOUS
    <3>2. y \in Seq(Int) /\ Len(y) = 2 /\ y[1] = a /\ y[2] = b
      OBVIOUS
    <3>. HIDE DEF x, y
    <3>3. \A i \in 1 .. Len(x) : x[i] = y[i]
      BY <3>1, <3>2
    <3>4. x = y
      BY <3>1, <3>2, <3>3, SeqEqual
    <3> QED
      BY <3>4 DEF x, y
  <2>2. Append(<<a>>, b) = <<a>> \o <<b>>
    BY <1>1 DEF Text
  <2> QED
    BY <2>1, <2>2
<1>3. (<<a>> \o <<b>>) \o e = <<a>> \o (<<b>> \o e)
  BY <1>1, Associative, ZenonT(60)
<1>4. Append(q, a) \o (<<b>> \o e) = q \o (<<a>> \o (<<b>> \o e))
  BY <1>1, Moving, ZenonT(60)
<1> QED
  BY <1>2, <1>3, <1>4, Zenon

\* The last of a character's bytes is followed by the rest of the text.
LEMMA StoresOk ==
  ASSUME PrintInv, UartOk, Stores
  PROVE  /\ PrintInv'
         /\ UNCHANGED <<rx, pending, trigger, enable, spi, leftover>> /\ tx' \in Text
<1>. DEFINE ch == IF loc.return THEN CR ELSE loc.c
            e == Expand(loc.text)
<1>1. /\ pc["main"] = "store" /\ sent' = sent /\ printed' = printed
      /\ IF loc.return
         THEN Goto("main", "poll") /\ loc' = [loc EXCEPT !.return = FALSE]
         ELSE NextChar(loc.text)
  BY DEF Stores, At
<1>2. /\ tx' = IF writable(Len(tx)) THEN Append(tx, ch) ELSE tx
      /\ UNCHANGED <<rx, pending, trigger, enable, spi, leftover>>
  BY DecodesUart DEF Stores, csr_write_simple
<1>3. tx' = Append(tx, ch)
  BY <1>1, <1>2 DEF PrintInv
<1>4. /\ sent \in Text /\ printed \in Text /\ tx \in Text /\ LocalsOk(loc)
      /\ sent \o (tx \o ToCome(pc["main"], loc)) = Expand(printed)
      /\ loc.c \in Int /\ loc.text \in Text /\ pc \in [{"main", "isr"} -> Labels]
  BY DEF PrintInv, UartOk, LocalsOk
<1>5. e \in Text /\ CR \in Int /\ ch \in Int
  BY <1>4, OutTypes DEF CR
<1>6. CASE loc.return
  <2>1. pc' = [pc EXCEPT !["main"] = "poll"] /\ loc' = [loc EXCEPT !.return = FALSE]
    BY <1>1, <1>6 DEF Goto
  <2>2. pc' \in [{"main", "isr"} -> Labels] /\ pc'["main"] = "poll"
    BY <1>4, <2>1 DEF Labels
  <2>3. /\ DOMAIN loc' = Names /\ loc'.text = loc.text /\ loc'.c = loc.c
        /\ loc'.return = FALSE
    BY <1>4, <2>1 DEF LocalsOk, Names
  <2>4. ToCome("poll", loc') = <<loc.c>> \o e
    BY <2>3 DEF ToCome
  <2>5. ToCome("store", loc) = <<CR, loc.c>> \o e
    BY <1>6 DEF ToCome
  <2>6. Append(tx, CR) \o (<<loc.c>> \o e) = tx \o (<<CR, loc.c>> \o e)
    <3>. HIDE DEF e
    <3> QED
      <4>1. \A a, b \in Int : Append(tx, a) \o (<<b>> \o e) = tx \o (<<a, b>> \o e)
        BY <1>4, <1>5, MovingTwo, ZenonT(60)
      <4> QED
        BY <1>4, <1>5, <4>1, Zenon
  <2>7. Append(tx, CR) \in Text
    BY <1>4, <1>5, Moving, ZenonT(60)
  <2>8. tx' = Append(tx, CR)
    BY <1>3, <1>6
  <2>9. LocalsOk(loc') /\ AccessOk("poll", loc')
    BY <1>4, <2>3 DEF LocalsOk, AccessOk
  <2>10. sent' \o (tx' \o ToCome("poll", loc')) = Expand(printed')
    <3>. HIDE DEF e
    <3> QED
      BY <1>1, <1>4, <2>4, <2>5, <2>6, <2>8, Zenon
  <2> QED
    BY <1>1, <1>2, <1>4, <2>2, <2>7, <2>8, <2>9, <2>10 DEF PrintInv
<1>7. CASE ~loc.return
  <2>1. NextChar(loc.text)
    BY <1>1, <1>7
  <2>2. /\ LocalsOk(loc') /\ pc' \in [{"main", "isr"} -> Labels]
        /\ pc'["main"] \in {"idle", "poll"}
        /\ ToCome(pc'["main"], loc') = e
    <3>1. PICK text \in Text : text = loc.text
      BY <1>4
    <3>2. NextChar(text)
      BY <2>1, <3>1 DEF NextChar
    <3>3. /\ LocalsOk(loc') /\ pc' \in [{"main", "isr"} -> Labels]
          /\ pc'["main"] \in {"idle", "poll"}
          /\ ToCome(pc'["main"], loc') = Expand(text)
      BY <1>4, <3>2, NextCharIs
    <3> QED
      BY <3>1, <3>3
  <2>3. ToCome("store", loc) = <<loc.c>> \o e
    BY <1>7 DEF ToCome
  <2>4. Append(tx, loc.c) \o e = tx \o (<<loc.c>> \o e)
    <3>. HIDE DEF e
    <3> QED
      BY <1>4, <1>5, Moving, ZenonT(60)
  <2>5. Append(tx, loc.c) \in Text
    BY <1>4, <1>5, Moving, ZenonT(60)
  <2>6. tx' = Append(tx, loc.c)
    BY <1>3, <1>7
  <2>7. AccessOk(pc'["main"], loc') /\ pc'["main"] # "store"
    BY <2>2 DEF AccessOk
  <2>8. sent' \o (tx' \o ToCome(pc'["main"], loc')) = Expand(printed')
    <3>. HIDE DEF e
    <3> QED
      BY <1>1, <1>4, <2>2, <2>3, <2>4, <2>6, Zenon
  <2>9. PrintInv'
    BY <1>1, <1>4, <2>2, <2>7, <2>8, Zenon DEF PrintInv
  <2> QED
    BY <1>2, <2>5, <2>6, <2>9
<1> QED
  BY <1>6, <1>7

\* What the line takes off the queue has gone out.
LEMMA TakesOk ==
  ASSUME PeripheralsAssumption, PrintInv, UartOk, LineTakes
  PROVE  PrintInv' /\ tx' \in Text
<1>. DEFINE rest == ToCome(pc["main"], loc)
<1>1. /\ tx # <<>> /\ sent' = Append(sent, Head(tx)) /\ tx' = Tail(tx)
      /\ UNCHANGED <<pc, loc, printed>>
  BY DEF LineTakes
<1>2. /\ sent \in Text /\ printed \in Text /\ tx \in Text /\ rest \in Text
      /\ sent \o (tx \o rest) = Expand(printed)
  BY ToComeType DEF PrintInv, UartOk
<1>3. /\ Head(tx) \in Int /\ Tail(tx) \in Text /\ tx = <<Head(tx)>> \o Tail(tx)
      /\ Len(Tail(tx)) <= Len(tx)
  BY <1>1, <1>2 DEF Text
<1>. HIDE DEF rest
<1>4. <<Head(tx)>> \in Text /\ Tail(tx) \o rest \in Text
  BY <1>2, <1>3 DEF Text
<1>5. tx \o rest = <<Head(tx)>> \o (Tail(tx) \o rest)
  <2>1. PICK h \in Int, t \in Text : h = Head(tx) /\ t = Tail(tx)
    BY <1>3
  <2>2. (<<h>> \o t) \o rest = <<h>> \o (t \o rest)
    <3>1. <<h>> \in Text
      BY <2>1 DEF Text
    <3> QED
      BY <1>2, <2>1, <3>1, Associative, ZenonT(60)
  <2>3. tx = <<h>> \o t
    BY <1>3, <2>1, Zenon
  <2> QED
    BY <2>1, <2>2, <2>3
<1>6. /\ Append(sent, Head(tx)) \in Text
      /\ Append(sent, Head(tx)) \o (Tail(tx) \o rest)
           = sent \o (<<Head(tx)>> \o (Tail(tx) \o rest))
  BY <1>2, <1>3, <1>4, Moving, ZenonT(60)
<1>7. sent' \o (tx' \o rest) = Expand(printed)
  BY <1>1, <1>2, <1>5, <1>6, Zenon
<1>8. writable(Len(tx)) => writable(Len(Tail(tx)))
  <2>1. Len(tx) \in Nat /\ Len(Tail(tx)) \in Nat
    BY <1>2, <1>3 DEF Text
  <2> QED
    BY <1>3, <2>1 DEF writable, PeripheralsAssumption
<1>9. PrintInv'
  BY <1>1, <1>2, <1>6, <1>7, <1>8, Zenon DEF PrintInv, rest
<1> QED
  BY <1>1, <1>3, <1>9

\* The poll ends only when the queue has room, and nobody else fills it.
LEMMA PollsOk ==
  ASSUME PeripheralsAssumption, PrintInv, UartOk, Polls
  PROVE  PrintInv'
<1>1. /\ pc["main"] = "poll" /\ pc' = [pc EXCEPT !["main"] = "store"]
      /\ csr_read_simple(reg_uart_txfull) # 1
      /\ UNCHANGED <<tx, loc, sent, printed>>
  BY DEF Polls, At, Goto, device, uart_vars, history
<1>2. writable(Len(tx))
  <2>1. csr_read_simple(reg_uart_txfull) = Bit(~writable(Len(tx)))
    BY DecodesUart DEF csr_read_simple
  <2> QED
    BY <1>1, <2>1 DEF Bit
<1>3. /\ pc' \in [{"main", "isr"} -> Labels] /\ pc'["main"] = "store"
  BY <1>1 DEF PrintInv, Labels
<1>4. ToCome("store", loc) = ToCome("poll", loc)
  BY DEF ToCome
<1>5. AccessOk("store", loc)
  BY DEF AccessOk
<1> QED
  BY <1>1, <1>2, <1>3, <1>4, <1>5, Zenon DEF PrintInv

\* A step that leaves print's text where it is.
LEMMA PrintStays ==
  ASSUME PrintInv, UNCHANGED <<tx, sent, printed, loc>>,
         pc' \in [{"main", "isr"} -> Labels], pc'["main"] = pc["main"]
  PROVE  PrintInv'
BY Zenon DEF PrintInv

\* A step of main outside print.
LEMMA PrintIdle ==
  ASSUME PrintInv, UNCHANGED <<tx, sent, printed>>,
         pc' \in [{"main", "isr"} -> Labels],
         pc["main"] \notin {"poll", "store"}, pc'["main"] \notin {"poll", "store"},
         LocalsOk(loc'), AccessOk(pc'["main"], loc')
  PROVE  PrintInv'
<1>1. ToCome(pc["main"], loc) = <<>> /\ ToCome(pc'["main"], loc') = <<>>
  BY DEF ToCome
<1>2. pc'["main"] # "store"
  OBVIOUS
<1> QED
  BY <1>1, <1>2, Zenon DEF PrintInv

LEMMA NoLocalsOk == LocalsOk(NoLocals) /\ AccessOk("idle", NoLocals)
<1>1. DOMAIN NoLocals = Names /\ NoLocals.text = <<>> /\ NoLocals.c = 0
  BY DEF NoLocals, Names
<1> QED
  BY <1>1 DEF LocalsOk, AccessOk, Text

-----------------------------------------------------------------------------
(* The accessors.                                                          *)

\* A field's accessor begins: its register is one of those.
LEMMA CallFieldWriteOk ==
  ASSUME PrintInv, NEW CONSTANT block, NEW CONSTANT f \in Fields, NEW CONSTANT v \in Int,
         block.regs[f.reg] \in Addresses, CallFieldWrite(block, f, v)
  PROVE  PrintInv' /\ UNCHANGED <<device, leftover>>
<1>1. /\ pc["main"] = "idle" /\ UNCHANGED <<device, history>>
      /\ loc' = [loc EXCEPT !.adr = block.regs[f.reg], !.field = f, !.value = v]
      /\ pc' = [pc EXCEPT !["main"] = "field_read"]
  BY DEF CallFieldWrite, Call, At, Goto
<1>2. UNCHANGED <<tx, sent, printed, leftover>>
  BY <1>1 DEF device, uart_vars, history
<1>3. pc' \in [{"main", "isr"} -> Labels] /\ pc'["main"] = "field_read"
  BY <1>1 DEF PrintInv, Labels
<1>4. /\ DOMAIN loc' = Names /\ loc'.text = loc.text /\ loc'.c = loc.c
      /\ loc'.adr = block.regs[f.reg] /\ loc'.field = f /\ loc'.value = v
  BY <1>1 DEF PrintInv, LocalsOk, Names
<1>5. LocalsOk(loc') /\ AccessOk("field_read", loc')
  BY <1>4 DEF PrintInv, LocalsOk, AccessOk
<1>6. PrintInv'
  BY <1>1, <1>2, <1>3, <1>5, PrintIdle
<1> QED
  BY <1>1, <1>2, <1>6

LEMMA ReadType ==
  ASSUME UartOk, spi \in Transfers, NEW a
  PROVE  csr_read_simple(a) \in Int
<1>1. \A b : Bit(b) \in Int
  BY DEF Bit
<1>2. spi.control \in Int
  BY DEF Transfers
<1>3. \A f : Bits(f) \in Int
  BY <1>1 DEF Bits
<1> QED
  BY <1>1, <1>2, <1>3 DEF csr_read_simple

\* It has read the register.
LEMMA FieldReadOk ==
  ASSUME PrintInv, UartOk, spi \in Transfers, FieldRead
  PROVE  PrintInv' /\ UNCHANGED <<device, leftover>>
<1>1. /\ pc["main"] = "field_read" /\ UNCHANGED <<device, history>>
      /\ loc' = [loc EXCEPT !.oldword = csr_read_simple(loc.adr)]
      /\ pc' = [pc EXCEPT !["main"] = "field_write"]
  BY DEF FieldRead, At, Goto
<1>2. UNCHANGED <<tx, sent, printed, leftover>>
  BY <1>1 DEF device, uart_vars, history
<1>3. pc' \in [{"main", "isr"} -> Labels] /\ pc'["main"] = "field_write"
  BY <1>1 DEF PrintInv, Labels
<1>4. /\ DOMAIN loc' = Names /\ loc'.text = loc.text /\ loc'.c = loc.c
      /\ loc'.adr = loc.adr /\ loc'.field = loc.field /\ loc'.value = loc.value
      /\ loc'.oldword = csr_read_simple(loc.adr)
  BY <1>1 DEF PrintInv, LocalsOk, Names
<1>5. csr_read_simple(loc.adr) \in Int
  BY ReadType
<1>6. LocalsOk(loc') /\ AccessOk("field_write", loc')
  BY <1>1, <1>4, <1>5 DEF PrintInv, LocalsOk, AccessOk
<1>7. PrintInv'
  BY <1>1, <1>2, <1>3, <1>6, PrintIdle
<1> QED
  BY <1>1, <1>2, <1>7

\* The write of an accessor never reaches the UART's data register.
LEMMA FieldWriteOk ==
  ASSUME Inv, FieldWrite
  PROVE  Inv'
<1>. DEFINE w == replace(loc.field, loc.oldword, loc.value)
<1>1. /\ pc["main"] = "field_write" /\ UNCHANGED <<sent, printed>>
      /\ loc' = NoLocals /\ pc' = [pc EXCEPT !["main"] = "idle"]
      /\ csr_write_simple(w, loc.adr)
  BY DEF FieldWrite, At, Goto
<1>2. /\ loc.adr \in Addresses /\ loc.field \in Fields /\ loc.value \in Int
      /\ loc.oldword \in Int
  BY <1>1 DEF Inv, PrintInv, AccessOk
<1>3. w \in Int
  BY <1>2, ReplaceType, Zenon
<1>4. PICK v \in Int : v = w
  BY <1>3
<1>5. csr_write_simple(v, loc.adr)
  <2>. HIDE DEF w
  <2> QED
    BY <1>1, <1>4 DEF csr_write_simple, Acknowledge, Clock, Started
<1>. HIDE DEF w
<1>6. tx' = tx => PrintInv'
  <2>1. pc' \in [{"main", "isr"} -> Labels] /\ pc'["main"] = "idle"
    BY <1>1 DEF Inv, PrintInv, Labels
  <2>2. LocalsOk(loc') /\ AccessOk("idle", loc')
    BY <1>1, NoLocalsOk
  <2> QED
    BY <1>1, <2>1, <2>2, PrintIdle DEF Inv
<1>7. CASE loc.adr = uart.regs.ev_pending
  <2>1. Acknowledge(v)
    BY <1>5, <1>7, DecodesUart DEF csr_write_simple
  <2>2. UartOk' /\ CharactersHaveEvents'
    BY <2>1, AcknowledgeRx DEF Inv
  <2>3. tx' = tx /\ spi' = spi
    BY <2>1 DEF Acknowledge
  <2> QED
    BY <1>6, <2>2, <2>3 DEF Inv, BitsOk
<1>8. CASE loc.adr = uart.regs.ev_enable
  <2>1. /\ enable' = OfBits(v)
        /\ UNCHANGED <<tx, rx, pending, trigger, spi, leftover>>
    BY <1>5, <1>8, DecodesUart DEF csr_write_simple
  <2>2. UartOk' /\ CharactersHaveEvents'
    BY <2>1, OfBitsType DEF Inv, UartOk, CharactersHaveEvents
  <2> QED
    BY <1>6, <2>1, <2>2 DEF Inv, BitsOk
<1>9. CASE loc.adr = spi_master.regs.control
  <2>1. spi' = Started(v % 2 ^ 16) /\ UNCHANGED <<uart_vars, leftover>>
    BY <1>5, <1>9, DecodesSpi DEF csr_write_simple
  <2>2. UartOk' /\ CharactersHaveEvents' /\ tx' = tx
    BY <2>1 DEF Inv, UartOk, CharactersHaveEvents, uart_vars
  <2>3. v % 2 ^ 16 \in Int
    BY Powers
  <2>4. (spi \in Transfers)' /\ BitsOk(spi')
    BY <2>1, <2>3, StartedOk DEF Inv
  <2> QED
    BY <1>6, <2>2, <2>4 DEF Inv
<1> QED
  BY <1>2, <1>7, <1>8, <1>9 DEF Addresses

\* A write of the whole control register.
LEMMA ControlWriteOk ==
  ASSUME PeripheralsAssumption, Inv, spi_master_control_write
  PROVE  Inv'
<1>. DEFINE w(l) == replace(spi_master.fields.length, 1, l)
<1>1. PICK l \in Lengths : csr_write_simple(w(l), spi_master.regs.control)
  BY DEF spi_master_control_write
<1>2. UNCHANGED <<pc, loc, sent, printed>>
  BY DEF spi_master_control_write
<1>3. w(l) \in Int
  BY FieldsAre, ReplaceType DEF PeripheralsAssumption
<1>. HIDE DEF w
<1>4. spi' = Started(w(l) % 2 ^ 16) /\ UNCHANGED <<uart_vars, leftover>>
  BY <1>1, DecodesSpi DEF csr_write_simple
<1>5. UartOk' /\ CharactersHaveEvents' /\ tx' = tx
  BY <1>4 DEF Inv, UartOk, CharactersHaveEvents, uart_vars
<1>6. w(l) % 2 ^ 16 \in Int
  BY <1>3, Powers
<1>7. (spi \in Transfers)' /\ BitsOk(spi')
  BY <1>4, <1>6, StartedOk DEF Inv
<1>8. PrintInv'
  BY <1>2, <1>5, PrintStays DEF Inv, PrintInv
<1> QED
  BY <1>5, <1>7, <1>8 DEF Inv

-----------------------------------------------------------------------------
(* The service routine, and the whole.                                     *)

\* What leaves the UART and the SPI master as they were.
LEMMA DevicesStay ==
  ASSUME Inv, UNCHANGED <<uart_vars, spi, leftover>>
  PROVE  /\ UartOk' /\ CharactersHaveEvents' /\ (spi \in Transfers)' /\ BitsOk(spi')
         /\ tx' = tx
BY DEF Inv, UartOk, CharactersHaveEvents, uart_vars, BitsOk

\* A step of the service routine touches nothing of print.
LEMMA IsrStays ==
  ASSUME Inv, NEW label \in Labels, pc' = [pc EXCEPT !["isr"] = label],
         UNCHANGED <<uart_vars, spi, leftover, loc, sent, printed>>
  PROVE  Inv'
<1>1. /\ UartOk' /\ CharactersHaveEvents' /\ (spi \in Transfers)' /\ BitsOk(spi')
      /\ tx' = tx
  BY DevicesStay
<1>2. pc' \in [{"main", "isr"} -> Labels] /\ pc'["main"] = pc["main"]
  BY DEF Inv, PrintInv
<1>3. PrintInv'
  BY <1>1, <1>2, PrintStays DEF Inv
<1> QED
  BY <1>1, <1>3 DEF Inv

\* Each step of the service routine is such a step.
LEMMA IsrOk ==
  ASSUME Inv, Isr \/ Interrupt
  PROVE  Inv'
<1>1. "setmask" \in Labels /\ "la1" \in Labels /\ "la0" \in Labels
      /\ "flag" \in Labels /\ "idle" \in Labels
  BY DEF Labels
<1>2. CASE Interrupt
  BY <1>1, <1>2, IsrStays DEF Interrupt, Goto, device, history
<1>3. CASE irq_setmask0
  BY <1>1, <1>3, IsrStays DEF irq_setmask0, Goto, device, history
<1>4. CASE SignalsTest
  <2>1. UNCHANGED <<loc, sent, printed>>
    BY <1>4 DEF SignalsTest
  <2>2. CASE csr_write_simple(10, reg_la("out", 1)) /\ Goto("isr", "la0")
    <3>1. Decode(reg_la("out", 1)) = <<"la", <<"out", 1>>>>
      BY DecodesLa
    <3>2. UNCHANGED <<uart_vars, spi, leftover>>
      BY <2>2, <3>1 DEF csr_write_simple
    <3>3. pc' = [pc EXCEPT !["isr"] = "la0"]
      BY <2>2 DEF Goto
    <3> QED
      BY <1>1, <2>1, <3>2, <3>3, IsrStays
  <2>3. CASE csr_write_simple(131072, reg_la("out", 0)) /\ Goto("isr", "flag")
    <3>1. Decode(reg_la("out", 0)) = <<"la", <<"out", 0>>>>
      BY DecodesLa
    <3>2. UNCHANGED <<uart_vars, spi, leftover>>
      BY <2>3, <3>1 DEF csr_write_simple
    <3>3. pc' = [pc EXCEPT !["isr"] = "flag"]
      BY <2>3 DEF Goto
    <3> QED
      BY <1>1, <2>1, <3>2, <3>3, IsrStays
  <2> QED
    BY <1>4, <2>2, <2>3 DEF SignalsTest
<1>5. CASE SetsFlag
  BY <1>1, <1>5, IsrStays DEF SetsFlag, Goto, device, history
<1> QED
  BY <1>2, <1>3, <1>4, <1>5 DEF Isr

\* The steps of main inside a call.
LEMMA MainOk ==
  ASSUME PeripheralsAssumption, Inv, Main
  PROVE  Inv'
<1>1. CASE Polls
  <2>1. PrintInv'
    BY <1>1, PollsOk DEF Inv
  <2> QED
    BY <1>1, <2>1, DevicesStay DEF Polls, device, history, Inv
<1>2. CASE Stores
  <2>1. /\ PrintInv' /\ UNCHANGED <<rx, pending, trigger, enable, spi, leftover>>
        /\ tx' \in Text
    BY <1>2, StoresOk DEF Inv
  <2> QED
    BY <2>1 DEF Inv, UartOk, CharactersHaveEvents, BitsOk
<1>3. CASE FieldRead
  <2>1. PrintInv' /\ UNCHANGED <<device, leftover>>
    BY <1>3, FieldReadOk DEF Inv
  <2> QED
    BY <2>1, DevicesStay DEF device, Inv
<1>4. CASE FieldWrite
  BY <1>4, FieldWriteOk
<1> QED
  BY <1>1, <1>2, <1>3, <1>4 DEF Main

\* A call that only looks, or sets a bit of the processor.
LEMMA Looks ==
  ASSUME Inv, UNCHANGED <<device, pc, loc, history>>
  PROVE  Inv'
<1>1. UNCHANGED <<uart_vars, spi, leftover, sent, printed, tx>>
  BY DEF device, history, uart_vars
<1>2. PrintInv'
  BY <1>1, PrintStays DEF Inv, PrintInv
<1> QED
  BY <1>1, <1>2, DevicesStay DEF Inv

\* The calls of main.
LEMMA CallsOk ==
  ASSUME PeripheralsAssumption, Inv, Calls
  PROVE  Inv'
<1>1. CASE CallPrint
  <2>1. PrintInv'
    BY <1>1, CallPrintOk DEF Inv
  <2> QED
    BY <1>1, <2>1, DevicesStay DEF CallPrint, device, Inv
<1>2. CASE UartFieldWrite
  <2>1. PICK f \in {"pending_tx", "pending_rx", "enable_tx", "enable_rx"} :
            CallFieldWrite(uart, uart.fields[f], 1)
    BY <1>2 DEF UartFieldWrite
  <2>2. uart.fields[f] \in Fields /\ uart.regs[uart.fields[f].reg] \in Addresses
    <3>1. f = "pending_tx" \/ f = "pending_rx" \/ f = "enable_tx" \/ f = "enable_rx"
      BY <2>1
    <3> QED
      BY <3>1, FieldsAre, Zenon
  <2>3. PrintInv' /\ UNCHANGED <<device, leftover>>
    BY <2>1, <2>2, CallFieldWriteOk DEF Inv
  <2> QED
    BY <2>3, DevicesStay DEF device, Inv
<1>3. CASE SpiFieldWrite
  <2>1. PICK f \in Fields, v \in Int : /\ CallFieldWrite(spi_master, f, v)
                                       /\ spi_master.regs[f.reg] \in Addresses
    <3>1. CASE CallFieldWrite(spi_master, spi_master.fields.start, 1)
      BY <3>1, FieldsAre
    <3>2. ASSUME NEW l \in Lengths, CallFieldWrite(spi_master, spi_master.fields.length, l)
          PROVE  \E f \in Fields, v \in Int : /\ CallFieldWrite(spi_master, f, v)
                                              /\ spi_master.regs[f.reg] \in Addresses
      <4>1. l \in Int
        BY DEF PeripheralsAssumption
      <4> QED
        BY <3>2, <4>1, FieldsAre
    <3> QED
      BY <1>3, <3>1, <3>2 DEF SpiFieldWrite
  <2>2. PrintInv' /\ UNCHANGED <<device, leftover>>
    BY <2>1, CallFieldWriteOk DEF Inv
  <2> QED
    BY <2>2, DevicesStay DEF device, Inv
<1>4. CASE spi_master_control_write
  BY <1>4, ControlWriteOk
<1>5. CASE irq_setup
  BY <1>5, Looks DEF irq_setup
<1>6. CASE ProbeRegister
  BY <1>6, Looks DEF ProbeRegister, Probe
<1>7. CASE ProbeLa
  BY <1>7, Looks DEF ProbeLa, Probe
<1>8. CASE ProbeField
  BY <1>8, Looks DEF ProbeField, Probe
<1>9. CASE ProbeBuffer
  BY <1>9, Looks DEF ProbeBuffer, Probe
<1> QED
  BY <1>1, <1>2, <1>3, <1>4, <1>5, <1>6, <1>7, <1>8, <1>9 DEF Calls

\* The steps of the devices.
LEMMA DevicesOk ==
  ASSUME PeripheralsAssumption, Inv, Devices
  PROVE  Inv'
<1>1. CASE Sample
  <2>1. UartOk' /\ CharactersHaveEvents'
    BY <1>1, SampleRx DEF Inv
  <2>2. UNCHANGED <<tx, spi, pc, loc, sent, printed>>
    BY <1>1 DEF Sample, history
  <2>3. PrintInv'
    BY <2>2, PrintStays DEF Inv, PrintInv
  <2> QED
    BY <2>1, <2>2, <2>3 DEF Inv, BitsOk
<1>2. CASE LineTakes
  <2>1. PrintInv' /\ tx' \in Text
    BY <1>2, TakesOk DEF Inv
  <2>2. UNCHANGED <<rx, pending, trigger, enable, spi, leftover>>
    BY <1>2 DEF LineTakes
  <2> QED
    BY <2>1, <2>2 DEF Inv, UartOk, CharactersHaveEvents, BitsOk
<1>3. CASE LineGives
  <2>1. UartOk' /\ CharactersHaveEvents'
    BY <1>3, GivesRx DEF Inv
  <2>2. UNCHANGED <<tx, spi, pc, loc, sent, printed>>
    BY <1>3 DEF LineGives
  <2>3. PrintInv'
    BY <2>2, PrintStays DEF Inv, PrintInv
  <2> QED
    BY <2>1, <2>2, <2>3 DEF Inv, BitsOk
<1>4. CASE SpiClock
  <2>1. (spi \in Transfers)' /\ BitsOk(spi)'
    BY <1>4, SpiClockOk DEF Inv
  <2>2. UNCHANGED <<uart_vars, pc, loc, sent, printed, leftover>>
    BY <1>4 DEF SpiClock, history
  <2>3. UartOk' /\ CharactersHaveEvents' /\ tx' = tx
    BY <2>2 DEF Inv, UartOk, CharactersHaveEvents, uart_vars
  <2>4. PrintInv'
    BY <2>2, <2>3, PrintStays DEF Inv, PrintInv
  <2> QED
    BY <2>1, <2>3, <2>4 DEF Inv
<1> QED
  BY <1>1, <1>2, <1>3, <1>4 DEF Devices

\* The initial states.
LEMMA InitOk ==
  ASSUME Init
  PROVE  Inv
<1>1. UartOk /\ CharactersHaveEvents
  <2>1. None \in Flags
    BY DEF None, Flags
  <2> QED
    BY <2>1 DEF Init, UartOk, CharactersHaveEvents, Text
<1>2. spi \in Transfers
  <2>1. 0 \in Int /\ 0 \in 0 .. 7 /\ 0 \in 0 .. 9
    OBVIOUS
  <2> QED
    BY <2>1 DEF Init, Transfers
<1>3. BitsOk(spi)
  BY DEF Init, BitsOk
<1>4. PrintInv
  <2>1. sent = <<>> /\ printed = <<>> /\ tx = <<>> /\ loc = NoLocals /\ <<>> \in Text
    BY DEF Init, Text
  <2>2. pc \in [{"main", "isr"} -> Labels] /\ pc["main"] = "idle"
    BY DEF Init, Labels
  <2>3. LocalsOk(loc) /\ AccessOk(pc["main"], loc)
    BY <2>1, <2>2, NoLocalsOk
  <2>4. ToCome(pc["main"], loc) = <<>>
    BY <2>2 DEF ToCome
  <2>5. <<>> \o (<<>> \o <<>>) = <<>>
    BY <2>1, Joining
  <2> QED
    BY <2>1, <2>2, <2>3, <2>4, <2>5, ExpandEmpty, Zenon DEF PrintInv
<1> QED
  BY <1>1, <1>2, <1>3, <1>4 DEF Inv

\* The invariant of the peripherals' steps.
THEOREM PeripheralsInvariance == Spec => []Inv
<1>1. Init => Inv
  BY InitOk
<1>2. Inv /\ [Next]_vars => Inv'
  <2>1. SUFFICES ASSUME Inv, [Next]_vars PROVE Inv'
    OBVIOUS
  <2>2. CASE Main
    BY <2>1, <2>2, MainOk, PeripheralsAssumption
  <2>3. CASE Calls
    BY <2>1, <2>3, CallsOk, PeripheralsAssumption
  <2>4. CASE Isr \/ Interrupt
    BY <2>1, <2>4, IsrOk
  <2>5. CASE Devices
    BY <2>1, <2>5, DevicesOk, PeripheralsAssumption
  <2>6. CASE UNCHANGED vars
    BY <2>1, <2>6, Looks DEF vars
  <2> QED
    BY <2>1, <2>2, <2>3, <2>4, <2>5, <2>6 DEF Next
<1> QED
  BY <1>1, <1>2, PTL DEF Spec

\* What print is given goes out in order and whole, '\r' before each '\n', for
\* any texts and any depth of the queue, and whatever interrupts print.
THEOREM PrintsInOrder == Spec => []PrintedInOrder
<1>1. Inv => PrintedInOrder
  <2>1. SUFFICES ASSUME Inv PROVE PrintedInOrder
    OBVIOUS
  <2>. DEFINE rest == ToCome(pc["main"], loc)
  <2>2. /\ sent \in Text /\ tx \in Text /\ rest \in Text
        /\ sent \o (tx \o rest) = Expand(printed)
    BY <2>1, ToComeType DEF Inv, PrintInv, UartOk
  <2>3. Expanded = Expand(printed)
    BY DEF Expanded, Expand, Outs, Out
  <2>4. pc["main"] = "idle" => rest = <<>>
    BY DEF ToCome
  <2>. HIDE DEF rest
  <2>5. (sent \o tx) \o rest = Expand(printed)
    BY <2>2, Associative, ZenonT(60)
  <2>6. sent \o tx \in Text
    BY <2>2 DEF Text
  <2>7. IsPrefix(sent \o tx, Expand(printed))
    BY <2>2, <2>5, <2>6, PrefixOf, Zenon
  <2>8. (sent \o tx) \o <<>> = sent \o tx
    BY <2>6, Joining
  <2> QED
    BY <2>3, <2>4, <2>5, <2>7, <2>8, Zenon DEF PrintedInOrder
<1> QED
  BY <1>1, PeripheralsInvariance, PTL

\* A character that came in has its event set or on its way, unless one that
\* was acknowledged left it behind, for any depth and number of characters.
THEOREM EventsStay == Spec => []CharactersHaveEvents
<1>1. Inv => CharactersHaveEvents
  BY DEF Inv
<1> QED
  BY <1>1, PeripheralsInvariance, PTL

\* A transfer of the SPI master that ends has the bits that its length says,
\* unless main rewrote the length while it ran: the first half of
\* TransferCompletes, for any lengths.
TransferWhole == spi.state = "end" /\ ~spi.rewritten => spi.bits = SpiLength

THEOREM TransfersWhole == Spec => []TransferWhole
<1>1. Inv => TransferWhole
  BY DEF Inv, BitsOk, TransferWhole, SpiLength
<1> QED
  BY <1>1, PeripheralsInvariance, PTL

-----------------------------------------------------------------------------
(* The registers and fields of csr.h, whatever words they hold.            *)

\* The word at place i of bank n.
LEMMA DecodeAt ==
  ASSUME NEW n \in 1 .. 20, NEW i \in 1 .. 16, i \in DOMAIN csrbank[n][2]
  PROVE  Decode(2048 * (n - 1) + 4 * (i - 1)) = <<csrbank[n][1], csrbank[n][2][i]>>
<1>. DEFINE a == 2048 * (n - 1) + 4 * (i - 1)
<1>1. a \div 2048 = n - 1 /\ a \div 4 = 512 * (n - 1) + (i - 1)
  OBVIOUS
<1>2. (n - 1) % 32 = n - 1 /\ (512 * (n - 1) + (i - 1)) % 512 = i - 1
  OBVIOUS
<1>3. n \in DOMAIN csrbank
  BY DEF csrbank
<1>4. ((a \div 2048) % 32) + 1 = n /\ ((a \div 4) % 512) + 1 = i
  BY <1>1, <1>2
<1>. HIDE DEF a
<1>5. Decode(a) = <<csrbank[n][1], csrbank[n][2][i]>>
  BY <1>3, <1>4 DEF Decode
<1> QED
  BY <1>5 DEF a

\* The registers of a block are where its bank has their names.
InBank(b, n, names) ==
  /\ csrbank[n] = <<b, names>>
  /\ \A r \in DOMAIN Blocks[b].regs : \E i \in DOMAIN names :
       /\ i \in 1 .. 16 /\ names[i] = r
       /\ Blocks[b].regs[r] = 2048 * (n - 1) + 4 * (i - 1)

BlockReached(b) ==
  \A r \in DOMAIN Blocks[b].regs : Decode(Blocks[b].regs[r]) = <<b, r>>

LEMMA Reaches ==
  ASSUME NEW b, NEW n \in 1 .. 20, NEW names, InBank(b, n, names)
  PROVE  BlockReached(b)
<1>. SUFFICES ASSUME NEW r \in DOMAIN Blocks[b].regs
              PROVE  Decode(Blocks[b].regs[r]) = <<b, r>>
  BY DEF BlockReached
<1>1. csrbank[n] = <<b, names>>
  BY DEF InBank
<1>2. PICK i \in DOMAIN names : /\ i \in 1 .. 16 /\ names[i] = r
                                /\ Blocks[b].regs[r] = 2048 * (n - 1) + 4 * (i - 1)
  BY DEF InBank
<1>3. i \in 1 .. 16
  BY <1>2
<1>4. csrbank[n][1] = b /\ csrbank[n][2] = names /\ i \in DOMAIN csrbank[n][2]
  BY <1>1
<1>5. Decode(2048 * (n - 1) + 4 * (i - 1)) = <<csrbank[n][1], csrbank[n][2][i]>>
  BY <1>3, <1>4, DecodeAt
<1> QED
  BY <1>2, <1>4, <1>5

LEMMA CtrlReached == BlockReached("ctrl")
<1>. DEFINE names == <<"reset", "scratch", "bus_errors">>
<1>1. Blocks["ctrl"] = ctrl
  BY DEF Blocks
<1>2. csrbank[1] = <<"ctrl", names>>
  BY DEF csrbank
<1>3. \A r \in DOMAIN ctrl.regs : \E i \in DOMAIN names :
        /\ i \in 1 .. 16 /\ names[i] = r
        /\ ctrl.regs[r] = 2048 * (1 - 1) + 4 * (i - 1)
  BY DEF ctrl
<1>. HIDE DEF names
<1>4. InBank("ctrl", 1, names)
  BY <1>1, <1>2, <1>3 DEF InBank
<1> QED
  BY <1>4, Reaches

LEMMA FlashCoreReached == BlockReached("flash_core")
<1>. DEFINE names == <<"mmap_dummy_bits", "master_cs", "master_phyconfig",
                       "master_rxtx", "master_status">>
<1>1. Blocks["flash_core"] = flash_core
  BY DEF Blocks
<1>2. csrbank[4] = <<"flash_core", names>>
  BY DEF csrbank
<1>3. \A r \in DOMAIN flash_core.regs : \E i \in DOMAIN names :
        /\ i \in 1 .. 16 /\ names[i] = r
        /\ flash_core.regs[r] = 2048 * (4 - 1) + 4 * (i - 1)
  BY DEF flash_core
<1>. HIDE DEF names
<1>4. InBank("flash_core", 4, names)
  BY <1>1, <1>2, <1>3 DEF InBank
<1> QED
  BY <1>4, Reaches

LEMMA FlashPhyReached == BlockReached("flash_phy")
<1>. DEFINE names == <<"clk_divisor">>
<1>1. Blocks["flash_phy"] = flash_phy
  BY DEF Blocks
<1>2. csrbank[5] = <<"flash_phy", names>>
  BY DEF csrbank
<1>3. \A r \in DOMAIN flash_phy.regs : \E i \in DOMAIN names :
        /\ i \in 1 .. 16 /\ names[i] = r
        /\ flash_phy.regs[r] = 2048 * (5 - 1) + 4 * (i - 1)
  BY DEF flash_phy
<1>. HIDE DEF names
<1>4. InBank("flash_phy", 5, names)
  BY <1>1, <1>2, <1>3 DEF InBank
<1> QED
  BY <1>4, Reaches

LEMMA GpioReached == BlockReached("gpio")
<1>. DEFINE names == <<"mode1", "mode0", "ien", "oe", "in", "out">>
<1>1. Blocks["gpio"] = gpio
  BY DEF Blocks
<1>2. csrbank[6] = <<"gpio", names>>
  BY DEF csrbank
<1>3. \A r \in DOMAIN gpio.regs : \E i \in DOMAIN names :
        /\ i \in 1 .. 16 /\ names[i] = r
        /\ gpio.regs[r] = 2048 * (6 - 1) + 4 * (i - 1)
  BY DEF gpio
<1>. HIDE DEF names
<1>4. InBank("gpio", 6, names)
  BY <1>1, <1>2, <1>3 DEF InBank
<1> QED
  BY <1>4, Reaches

LEMMA SpiMasterReached == BlockReached("spi_master")
<1>. DEFINE names == <<"control", "status", "mosi", "miso", "cs", "loopback",
                       "clk_divider">>
<1>1. Blocks["spi_master"] = spi_master
  BY DEF Blocks
<1>2. csrbank[10] = <<"spi_master", names>>
  BY DEF csrbank
<1>3. \A r \in DOMAIN spi_master.regs : \E i \in DOMAIN names :
        /\ i \in 1 .. 16 /\ names[i] = r
        /\ spi_master.regs[r] = 2048 * (10 - 1) + 4 * (i - 1)
  BY DEF spi_master
<1>. HIDE DEF names
<1>4. InBank("spi_master", 10, names)
  BY <1>1, <1>2, <1>3 DEF InBank
<1> QED
  BY <1>4, Reaches

LEMMA Timer0Reached == BlockReached("timer0")
<1>. DEFINE names == <<"load", "reload", "en", "update_value", "value",
                       "ev_status", "ev_pending", "ev_enable">>
<1>1. Blocks["timer0"] = timer0
  BY DEF Blocks
<1>2. csrbank[11] = <<"timer0", names>>
  BY DEF csrbank
<1>3. \A r \in DOMAIN timer0.regs : \E i \in DOMAIN names :
        /\ i \in 1 .. 16 /\ names[i] = r
        /\ timer0.regs[r] = 2048 * (11 - 1) + 4 * (i - 1)
  BY DEF timer0
<1>. HIDE DEF names
<1>4. InBank("timer0", 11, names)
  BY <1>1, <1>2, <1>3 DEF InBank
<1> QED
  BY <1>4, Reaches

LEMMA UartReached == BlockReached("uart")
<1>. DEFINE names == <<"rxtx", "txfull", "rxempty", "ev_status", "ev_pending",
                       "ev_enable", "txempty", "rxfull">>
<1>1. Blocks["uart"] = uart
  BY DEF Blocks
<1>2. csrbank[12] = <<"uart", names>>
  BY DEF csrbank
<1>3. \A r \in DOMAIN uart.regs : \E i \in DOMAIN names :
        /\ i \in 1 .. 16 /\ names[i] = r
        /\ uart.regs[r] = 2048 * (12 - 1) + 4 * (i - 1)
  BY DEF uart
<1>. HIDE DEF names
<1>4. InBank("uart", 12, names)
  BY <1>1, <1>2, <1>3 DEF InBank
<1> QED
  BY <1>4, Reaches

\* The blocks of one register.
LEMMA OutReached ==
  ASSUME NEW b, NEW n \in 1 .. 20,
         Blocks[b].regs = [out |-> 2048 * (n - 1)], csrbank[n] = <<b, <<"out">>>>
  PROVE  BlockReached(b)
<1>. DEFINE names == <<"out">>
<1>1. \A r \in DOMAIN Blocks[b].regs : \E i \in DOMAIN names :
        /\ i \in 1 .. 16 /\ names[i] = r
        /\ Blocks[b].regs[r] = 2048 * (n - 1) + 4 * (i - 1)
  OBVIOUS
<1>2. InBank(b, n, names)
  BY <1>1 DEF InBank
<1> QED
  BY <1>2, Reaches

LEMMA OutsReached ==
  \A b \in {"debug_mode", "debug_oeb", "mprj_wb_iena", "spi_enabled",
            "uart_enabled", "user_irq_ena"} :
    BlockReached(b)
<1>1. BlockReached("debug_mode")
  <2>1. Blocks["debug_mode"].regs = [out |-> 2048 * (2 - 1)]
    BY DEF Blocks, debug_mode
  <2>2. csrbank[2] = <<"debug_mode", <<"out">>>>
    BY DEF csrbank
  <2> QED
    BY <2>1, <2>2, OutReached
<1>2. BlockReached("debug_oeb")
  <2>1. Blocks["debug_oeb"].regs = [out |-> 2048 * (3 - 1)]
    BY DEF Blocks, debug_oeb
  <2>2. csrbank[3] = <<"debug_oeb", <<"out">>>>
    BY DEF csrbank
  <2> QED
    BY <2>1, <2>2, OutReached
<1>3. BlockReached("mprj_wb_iena")
  <2>1. Blocks["mprj_wb_iena"].regs = [out |-> 2048 * (8 - 1)]
    BY DEF Blocks, mprj_wb_iena
  <2>2. csrbank[8] = <<"mprj_wb_iena", <<"out">>>>
    BY DEF csrbank
  <2> QED
    BY <2>1, <2>2, OutReached
<1>4. BlockReached("spi_enabled")
  <2>1. Blocks["spi_enabled"].regs = [out |-> 2048 * (9 - 1)]
    BY DEF Blocks, spi_enabled
  <2>2. csrbank[9] = <<"spi_enabled", <<"out">>>>
    BY DEF csrbank
  <2> QED
    BY <2>1, <2>2, OutReached
<1>5. BlockReached("uart_enabled")
  <2>1. Blocks["uart_enabled"].regs = [out |-> 2048 * (13 - 1)]
    BY DEF Blocks, uart_enabled
  <2>2. csrbank[13] = <<"uart_enabled", <<"out">>>>
    BY DEF csrbank
  <2> QED
    BY <2>1, <2>2, OutReached
<1>6. BlockReached("user_irq_ena")
  <2>1. Blocks["user_irq_ena"].regs = [out |-> 2048 * (20 - 1)]
    BY DEF Blocks, user_irq_ena
  <2>2. csrbank[20] = <<"user_irq_ena", <<"out">>>>
    BY DEF csrbank
  <2> QED
    BY <2>1, <2>2, OutReached
<1> QED
  BY <1>1, <1>2, <1>3, <1>4, <1>5, <1>6

\* The six blocks of user_irq.
LEMMA IrqReached ==
  ASSUME NEW b, NEW n \in 14 .. 19,
         Blocks[b] = user_irq(2048 * (n - 1)), csrbank[n] = irq_bank(b)
  PROVE  BlockReached(b)
<1>. DEFINE names == <<"in", "mode", "edge", "ev_status", "ev_pending", "ev_enable">>
            base == 2048 * (n - 1)
<1>1. base \in Nat
  OBVIOUS
<1>. HIDE DEF base
<1>2. \A r \in DOMAIN user_irq(base).regs : \E i \in DOMAIN names :
        /\ i \in 1 .. 16 /\ names[i] = r
        /\ user_irq(base).regs[r] = base + 4 * (i - 1)
  BY <1>1 DEF user_irq
<1>3. csrbank[n] = <<b, names>>
  BY DEF irq_bank
<1>. HIDE DEF names
<1>4. Blocks[b] = user_irq(base)
  BY DEF base
<1>5. InBank(b, n, names)
  <2>1. \A r \in DOMAIN Blocks[b].regs : \E i \in DOMAIN names :
          /\ i \in 1 .. 16 /\ names[i] = r
          /\ Blocks[b].regs[r] = base + 4 * (i - 1)
    BY <1>2, <1>4
  <2> QED
    BY <1>3, <2>1 DEF InBank, base
<1> QED
  BY <1>5, Reaches

LEMMA IrqsReached ==
  \A b \in {"user_irq_0", "user_irq_1", "user_irq_2", "user_irq_3",
            "user_irq_4", "user_irq_5"} :
    BlockReached(b)
<1>1. BlockReached("user_irq_0")
  <2>1. Blocks["user_irq_0"] = user_irq(2048 * (14 - 1))
    BY DEF Blocks, user_irq_0
  <2>2. csrbank[14] = irq_bank("user_irq_0")
    BY DEF csrbank
  <2> QED
    BY <2>1, <2>2, IrqReached
<1>2. BlockReached("user_irq_1")
  <2>1. Blocks["user_irq_1"] = user_irq(2048 * (15 - 1))
    BY DEF Blocks, user_irq_1
  <2>2. csrbank[15] = irq_bank("user_irq_1")
    BY DEF csrbank
  <2> QED
    BY <2>1, <2>2, IrqReached
<1>3. BlockReached("user_irq_2")
  <2>1. Blocks["user_irq_2"] = user_irq(2048 * (16 - 1))
    BY DEF Blocks, user_irq_2
  <2>2. csrbank[16] = irq_bank("user_irq_2")
    BY DEF csrbank
  <2> QED
    BY <2>1, <2>2, IrqReached
<1>4. BlockReached("user_irq_3")
  <2>1. Blocks["user_irq_3"] = user_irq(2048 * (17 - 1))
    BY DEF Blocks, user_irq_3
  <2>2. csrbank[17] = irq_bank("user_irq_3")
    BY DEF csrbank
  <2> QED
    BY <2>1, <2>2, IrqReached
<1>5. BlockReached("user_irq_4")
  <2>1. Blocks["user_irq_4"] = user_irq(2048 * (18 - 1))
    BY DEF Blocks, user_irq_4
  <2>2. csrbank[18] = irq_bank("user_irq_4")
    BY DEF csrbank
  <2> QED
    BY <2>1, <2>2, IrqReached
<1>6. BlockReached("user_irq_5")
  <2>1. Blocks["user_irq_5"] = user_irq(2048 * (19 - 1))
    BY DEF Blocks, user_irq_5
  <2>2. csrbank[19] = irq_bank("user_irq_5")
    BY DEF csrbank
  <2> QED
    BY <2>1, <2>2, IrqReached
<1> QED
  BY <1>1, <1>2, <1>3, <1>4, <1>5, <1>6

LEMMA BlockNames ==
  DOMAIN Blocks = {"ctrl", "debug_mode", "debug_oeb", "flash_core",
                   "flash_phy", "gpio", "la", "mprj_wb_iena", "spi_enabled",
                   "spi_master", "timer0", "uart", "uart_enabled",
                   "user_irq_0", "user_irq_1", "user_irq_2", "user_irq_3",
                   "user_irq_4", "user_irq_5", "user_irq_ena"}
  BY DEF Blocks

\* The words of the logic analyzer are one bank of 16, word 3 first.
LEMMA LaReached ==
  \A k \in DOMAIN la.regs, n \in 0 .. 3 :
    Decode(reg_la(k, n)) = <<"la", <<k, n>>>>
<1>. SUFFICES ASSUME NEW k \in DOMAIN la.regs, NEW n \in 0 .. 3
              PROVE  Decode(reg_la(k, n)) = <<"la", <<k, n>>>>
  OBVIOUS
<1>. DEFINE names == csrbank[7][2]
            Start == IF k = "ien" THEN 0 ELSE IF k = "oe" THEN 4
                     ELSE IF k = "in" THEN 8 ELSE 12
<1>1. k \in {"ien", "oe", "in", "out"}
  BY DEF la
<1>2. Start \in {0, 4, 8, 12} /\ Start \in Nat
  OBVIOUS
<1>3. la.regs[k] = 2048 * (7 - 1) + 4 * Start
  BY <1>1 DEF la
<1>4. reg_la(k, n) = 2048 * (7 - 1) + 4 * ((Start + (4 - n)) - 1)
  <2>. HIDE DEF Start
  <2> QED
    BY <1>2, <1>3 DEF reg_la
<1>5. csrbank[7] = <<"la", names>> /\ Start + (4 - n) \in DOMAIN names
  BY <1>2 DEF csrbank
<1>6. names[Start + (4 - n)] = <<k, n>>
  <2>1. n = 0 \/ n = 1 \/ n = 2 \/ n = 3
    OBVIOUS
  <2> QED
    BY <1>1, <2>1 DEF csrbank
<1>. HIDE DEF names, Start
<1>7. Start + (4 - n) \in 1 .. 16
  BY <1>2
<1>8. csrbank[7][1] = "la" /\ names = csrbank[7][2]
  BY <1>5 DEF names
<1>9. Decode(2048 * (7 - 1) + 4 * ((Start + (4 - n)) - 1)) =
        <<csrbank[7][1], csrbank[7][2][Start + (4 - n)]>>
  BY <1>5, <1>7, <1>8, DecodeAt
<1> QED
  BY <1>4, <1>6, <1>8, <1>9

\* Every address that csr.h gives a register, and every word of the logic
\* analyzer that defs.h names, is decoded to that register (mgmt_core.v).
THEOREM NamesReach ==
  /\ \A b \in DOMAIN Blocks \ {"la"} : \A r \in DOMAIN Blocks[b].regs :
       Decode(Blocks[b].regs[r]) = <<b, r>>
  /\ \A k \in DOMAIN la.regs, n \in 0 .. 3 :
       Decode(reg_la(k, n)) = <<"la", <<k, n>>>>
<1>1. \A b \in DOMAIN Blocks \ {"la"} : BlockReached(b)
  BY BlockNames, CtrlReached, FlashCoreReached, FlashPhyReached, GpioReached,
                 SpiMasterReached, Timer0Reached, UartReached, OutsReached,
                 IrqsReached
<1> QED
  BY <1>1, LaReached DEF BlockReached

-----------------------------------------------------------------------------
(* Fields: the q values from the place p of a word of 32 bits on.           *)

\* Less than 2^32: two halves.
Word32 == {w \in Nat : w \div 65536 < 65536}

\* What is at the place p, and the word with x there instead.
Part(w, p, q) == (w \div p) % q
Put(w, x, p, q) == w + (x - Part(w, p, q)) * p

LEMMA Times ==
  ASSUME NEW d \in Nat, NEW p \in Nat, d >= 1
  PROVE  d * p >= p
  BY SMT

\* Quotient and remainder are the only ones.
LEMMA DivUnique ==
  ASSUME NEW p \in Nat \ {0}, NEW k \in Nat, NEW r \in 0 .. p - 1
  PROVE  (k * p + r) \div p = k /\ (k * p + r) % p = r
<1>. DEFINE a == k * p + r
            j == a \div p
            m == a % p
<1>1. k * p \in Nat /\ a \in Nat
  BY SMT
<1>2. j \in Nat /\ m \in 0 .. p - 1 /\ a = j * p + m
  BY <1>1, SMT
<1>3. a = k * p + r
  OBVIOUS
<1>. HIDE DEF a, j, m
<1>4. (k - j) * p = m - r
  BY <1>2, <1>3, SMT
<1>5. ~(k > j)
  <2>. SUFFICES ASSUME k > j PROVE FALSE
    OBVIOUS
  <2>1. k - j \in Nat /\ k - j >= 1
    BY <1>2
  <2>2. (k - j) * p >= p
    BY <2>1, Times
  <2> QED
    BY <1>2, <1>4, <2>2
<1>6. ~(j > k)
  <2>. SUFFICES ASSUME j > k PROVE FALSE
    OBVIOUS
  <2>1. j - k \in Nat /\ j - k >= 1
    BY <1>2
  <2>2. (j - k) * p >= p
    BY <2>1, Times
  <2>3. (j - k) * p = r - m
    BY <1>2, <1>3, SMT
  <2> QED
    BY <1>2, <2>2, <2>3
<1>7. j = k
  BY <1>2, <1>5, <1>6
<1>8. m = r
  BY <1>2, <1>3, <1>7
<1> QED
  BY <1>7, <1>8 DEF a, j, m

\* A word with x put at p has x there, and is the same below and above.
LEMMA PutIs ==
  ASSUME NEW w \in Nat, NEW p \in Nat \ {0}, NEW q \in Nat \ {0}, NEW x \in 0 .. q - 1
  PROVE  /\ Put(w, x, p, q) \in Nat
         /\ Put(w, x, p, q) % p = w % p
         /\ Put(w, x, p, q) \div p = ((w \div p) \div q) * q + x
         /\ Part(Put(w, x, p, q), p, q) = x
         /\ (Put(w, x, p, q) \div p) \div q = (w \div p) \div q
<1>. DEFINE u == w \div p
            r == w % p
            h == u \div q
            m == u % q
<1>1. u \in Nat /\ r \in 0 .. p - 1 /\ w = u * p + r
  BY SMT
<1>2. h \in Nat /\ m \in 0 .. q - 1 /\ u = h * q + m
  BY <1>1, SMT
<1>3. Part(w, p, q) = m
  BY DEF Part
<1>. HIDE DEF u, r, h, m
<1>. DEFINE k == h * q + x
<1>4. k \in Nat /\ k = u + (x - m)
  BY <1>2, SMT
<1>. HIDE DEF k
<1>5. Put(w, x, p, q) = w + (x - m) * p
  BY <1>3 DEF Put
<1>6. k * p = u * p + (x - m) * p
  BY <1>1, <1>2, <1>4, SMT
<1>7. Put(w, x, p, q) = k * p + r
  <2>1. u * p \in Nat /\ (x - m) * p \in Int /\ k * p \in Nat
    BY <1>1, <1>2, <1>4, SMT
  <2> QED
    BY <1>1, <1>2, <1>5, <1>6, <2>1
<1>8. Put(w, x, p, q) \div p = k /\ Put(w, x, p, q) % p = r
  BY <1>1, <1>4, <1>7, DivUnique
<1>9. k \div q = h /\ k % q = x
  BY <1>2, DivUnique DEF k
<1>10. Put(w, x, p, q) \in Nat
  BY <1>1, <1>4, <1>7, SMT
<1> QED
  BY <1>8, <1>9, <1>10 DEF Part, u, r, h, k

\* The fields of csr.h by lowest bit and size: a write stays in the word and
\* keeps the fields that share a register with it.
LEMMA Put0_1 ==
  ASSUME NEW w \in Word32, NEW x \in 0 .. 1
  PROVE  /\ Put(w, x, 1, 2) \in Word32
         /\ Part(Put(w, x, 1, 2), 1, 2) = x
         /\ Part(Put(w, x, 1, 2), 2, 2) = Part(w, 2, 2)
         /\ Part(Put(w, x, 1, 2), 256, 256) = Part(w, 256, 256)
         /\ Part(Put(w, x, 1, 2), 65536, 2) = Part(w, 65536, 2)
<1>. DEFINE p == 1
            q == 2
            n == Put(w, x, p, q)
<1>1. w \in Nat /\ p \in Nat \ {0} /\ q \in Nat \ {0} /\ x \in 0 .. q - 1
  BY DEF Word32
<1>. HIDE DEF p, q
<1>2. /\ n \in Nat /\ n % p = w % p /\ Part(n, p, q) = x
      /\ n \div p = ((w \div p) \div q) * q + x
      /\ (n \div p) \div q = (w \div p) \div q
  BY <1>1, PutIs
<1>. USE DEF p, q
<1>. HIDE DEF n
<1>3. \A y \in Nat : Part(y, 2, 2) = Part((y \div 1) \div 2, 1, 2)
  BY SMT DEF Part
<1>4. \A y \in Nat : Part(y, 256, 256) = Part((y \div 1) \div 2, 128, 256)
  BY SMT DEF Part
<1>5. \A y \in Nat : Part(y, 65536, 2) = Part((y \div 1) \div 2, 32768, 2)
  BY SMT DEF Part
<1>6. \A y \in Nat : y \div 65536 = ((y \div 1) \div 2) \div 32768
  BY SMT
<1>7. n \in Word32
  BY <1>1, <1>2, <1>6 DEF Word32
<1> QED
  BY <1>1, <1>2, <1>3, <1>4, <1>5, <1>7 DEF n, p, q

LEMMA Put1_1 ==
  ASSUME NEW w \in Word32, NEW x \in 0 .. 1
  PROVE  /\ Put(w, x, 2, 2) \in Word32
         /\ Part(Put(w, x, 2, 2), 2, 2) = x
         /\ Part(Put(w, x, 2, 2), 1, 2) = Part(w, 1, 2)
<1>. DEFINE p == 2
            q == 2
            n == Put(w, x, p, q)
<1>1. w \in Nat /\ p \in Nat \ {0} /\ q \in Nat \ {0} /\ x \in 0 .. q - 1
  BY DEF Word32
<1>. HIDE DEF p, q
<1>2. /\ n \in Nat /\ n % p = w % p /\ Part(n, p, q) = x
      /\ n \div p = ((w \div p) \div q) * q + x
      /\ (n \div p) \div q = (w \div p) \div q
  BY <1>1, PutIs
<1>. USE DEF p, q
<1>. HIDE DEF n
<1>3. \A y \in Nat : Part(y, 1, 2) = Part(y % 2, 1, 2)
  BY SMT DEF Part
<1>4. \A y \in Nat : y \div 65536 = ((y \div 2) \div 2) \div 16384
  BY SMT
<1>5. n \in Word32
  BY <1>1, <1>2, <1>4 DEF Word32
<1> QED
  BY <1>1, <1>2, <1>3, <1>5 DEF n, p, q

LEMMA Put0_8 ==
  ASSUME NEW w \in Word32, NEW x \in 0 .. 255
  PROVE  /\ Put(w, x, 1, 256) \in Word32
         /\ Part(Put(w, x, 1, 256), 1, 256) = x
         /\ Part(Put(w, x, 1, 256), 256, 16) = Part(w, 256, 16)
         /\ Part(Put(w, x, 1, 256), 65536, 256) = Part(w, 65536, 256)
<1>. DEFINE p == 1
            q == 256
            n == Put(w, x, p, q)
<1>1. w \in Nat /\ p \in Nat \ {0} /\ q \in Nat \ {0} /\ x \in 0 .. q - 1
  BY DEF Word32
<1>. HIDE DEF p, q
<1>2. /\ n \in Nat /\ n % p = w % p /\ Part(n, p, q) = x
      /\ n \div p = ((w \div p) \div q) * q + x
      /\ (n \div p) \div q = (w \div p) \div q
  BY <1>1, PutIs
<1>. USE DEF p, q
<1>. HIDE DEF n
<1>3. \A y \in Nat : Part(y, 256, 16) = Part((y \div 1) \div 256, 1, 16)
  BY SMT DEF Part
<1>4. \A y \in Nat : Part(y, 65536, 256) = Part((y \div 1) \div 256, 256, 256)
  BY SMT DEF Part
<1>5. \A y \in Nat : y \div 65536 = ((y \div 1) \div 256) \div 256
  BY SMT
<1>6. n \in Word32
  BY <1>1, <1>2, <1>5 DEF Word32
<1> QED
  BY <1>1, <1>2, <1>3, <1>4, <1>6 DEF n, p, q

LEMMA Put8_4 ==
  ASSUME NEW w \in Word32, NEW x \in 0 .. 15
  PROVE  /\ Put(w, x, 256, 16) \in Word32
         /\ Part(Put(w, x, 256, 16), 256, 16) = x
         /\ Part(Put(w, x, 256, 16), 1, 256) = Part(w, 1, 256)
         /\ Part(Put(w, x, 256, 16), 65536, 256) = Part(w, 65536, 256)
<1>. DEFINE p == 256
            q == 16
            n == Put(w, x, p, q)
<1>1. w \in Nat /\ p \in Nat \ {0} /\ q \in Nat \ {0} /\ x \in 0 .. q - 1
  BY DEF Word32
<1>. HIDE DEF p, q
<1>2. /\ n \in Nat /\ n % p = w % p /\ Part(n, p, q) = x
      /\ n \div p = ((w \div p) \div q) * q + x
      /\ (n \div p) \div q = (w \div p) \div q
  BY <1>1, PutIs
<1>. USE DEF p, q
<1>. HIDE DEF n
<1>3. \A y \in Nat : Part(y, 1, 256) = Part(y % 256, 1, 256)
  BY SMT DEF Part
<1>4. \A y \in Nat : Part(y, 65536, 256) = Part((y \div 256) \div 16, 16, 256)
  BY SMT DEF Part
<1>5. \A y \in Nat : y \div 65536 = ((y \div 256) \div 16) \div 16
  BY SMT
<1>6. n \in Word32
  BY <1>1, <1>2, <1>5 DEF Word32
<1> QED
  BY <1>1, <1>2, <1>3, <1>4, <1>6 DEF n, p, q

LEMMA Put16_8 ==
  ASSUME NEW w \in Word32, NEW x \in 0 .. 255
  PROVE  /\ Put(w, x, 65536, 256) \in Word32
         /\ Part(Put(w, x, 65536, 256), 65536, 256) = x
         /\ Part(Put(w, x, 65536, 256), 1, 256) = Part(w, 1, 256)
         /\ Part(Put(w, x, 65536, 256), 256, 16) = Part(w, 256, 16)
<1>. DEFINE p == 65536
            q == 256
            n == Put(w, x, p, q)
<1>1. w \in Nat /\ p \in Nat \ {0} /\ q \in Nat \ {0} /\ x \in 0 .. q - 1
  BY DEF Word32
<1>. HIDE DEF p, q
<1>2. /\ n \in Nat /\ n % p = w % p /\ Part(n, p, q) = x
      /\ n \div p = ((w \div p) \div q) * q + x
      /\ (n \div p) \div q = (w \div p) \div q
  BY <1>1, PutIs
<1>. USE DEF p, q
<1>. HIDE DEF n
<1>3. \A y \in Nat : Part(y, 1, 256) = Part(y % 65536, 1, 256)
  BY SMT DEF Part
<1>4. \A y \in Nat : Part(y, 256, 16) = Part(y % 65536, 256, 16)
  BY SMT DEF Part
<1>5. w \div 65536 \in Nat /\ w \div 65536 < 65536
  BY <1>1, SMT DEF Word32
<1>6. n \in Word32
  BY <1>1, <1>2, <1>5, SMT DEF Word32
<1> QED
  BY <1>1, <1>2, <1>3, <1>4, <1>6 DEF n, p, q

LEMMA Put8_8 ==
  ASSUME NEW w \in Word32, NEW x \in 0 .. 255
  PROVE  /\ Put(w, x, 256, 256) \in Word32
         /\ Part(Put(w, x, 256, 256), 256, 256) = x
         /\ Part(Put(w, x, 256, 256), 1, 2) = Part(w, 1, 2)
<1>. DEFINE p == 256
            q == 256
            n == Put(w, x, p, q)
<1>1. w \in Nat /\ p \in Nat \ {0} /\ q \in Nat \ {0} /\ x \in 0 .. q - 1
  BY DEF Word32
<1>. HIDE DEF p, q
<1>2. /\ n \in Nat /\ n % p = w % p /\ Part(n, p, q) = x
      /\ n \div p = ((w \div p) \div q) * q + x
      /\ (n \div p) \div q = (w \div p) \div q
  BY <1>1, PutIs
<1>. USE DEF p, q
<1>. HIDE DEF n
<1>3. \A y \in Nat : Part(y, 1, 2) = Part(y % 256, 1, 2)
  BY SMT DEF Part
<1>4. \A y \in Nat : y \div 65536 = ((y \div 256) \div 256) \div 1
  BY SMT
<1>5. n \in Word32
  BY <1>1, <1>2, <1>4 DEF Word32
<1> QED
  BY <1>1, <1>2, <1>3, <1>5 DEF n, p, q

LEMMA Put16_1 ==
  ASSUME NEW w \in Word32, NEW x \in 0 .. 1
  PROVE  /\ Put(w, x, 65536, 2) \in Word32
         /\ Part(Put(w, x, 65536, 2), 65536, 2) = x
         /\ Part(Put(w, x, 65536, 2), 1, 2) = Part(w, 1, 2)
<1>. DEFINE p == 65536
            q == 2
            n == Put(w, x, p, q)
<1>1. w \in Nat /\ p \in Nat \ {0} /\ q \in Nat \ {0} /\ x \in 0 .. q - 1
  BY DEF Word32
<1>. HIDE DEF p, q
<1>2. /\ n \in Nat /\ n % p = w % p /\ Part(n, p, q) = x
      /\ n \div p = ((w \div p) \div q) * q + x
      /\ (n \div p) \div q = (w \div p) \div q
  BY <1>1, PutIs
<1>. USE DEF p, q
<1>. HIDE DEF n
<1>3. \A y \in Nat : Part(y, 1, 2) = Part(y % 65536, 1, 2)
  BY SMT DEF Part
<1>4. w \div 65536 \in Nat /\ w \div 65536 < 65536
  BY <1>1, SMT DEF Word32
<1>5. n \in Word32
  BY <1>1, <1>2, <1>4, SMT DEF Word32
<1> QED
  BY <1>1, <1>2, <1>3, <1>5 DEF n, p, q

\* The fields of csr.h by their lowest bit and their size, and which share a
\* register with which.
Shapes == {<<0, 1>>, <<1, 1>>, <<0, 8>>, <<8, 4>>, <<16, 8>>, <<8, 8>>,
           <<16, 1>>}

Beside == {<<0, 1, 1, 1>>, <<0, 1, 8, 8>>, <<0, 1, 16, 1>>, <<1, 1, 0, 1>>,
           <<0, 8, 8, 4>>, <<0, 8, 16, 8>>, <<8, 4, 0, 8>>, <<8, 4, 16, 8>>,
           <<16, 8, 0, 8>>, <<16, 8, 8, 4>>, <<8, 8, 0, 1>>, <<16, 1, 0, 1>>}

\* What 2 ^ n is for those.
IsPower(p, n) ==
  /\ p = 2 ^ n
  /\ n = 0 => p = 1
  /\ n = 1 => p = 2
  /\ n = 4 => p = 16
  /\ n = 8 => p = 256
  /\ n = 16 => p = 65536

LEMMA PowerOf ==
  ASSUME NEW n
  PROVE  \E p : IsPower(p, n)
<1>. DEFINE p == 2 ^ n
<1>1. /\ n = 0 => p = 2 ^ 0
      /\ n = 1 => p = 2 ^ 1
      /\ n = 4 => p = 2 ^ 4
      /\ n = 8 => p = 2 ^ 8
      /\ n = 16 => p = 2 ^ 16
  BY Zenon
<1>2. p = 2 ^ n
  OBVIOUS
<1>. HIDE DEF p
<1>3. /\ n = 0 => p = 1
      /\ n = 1 => p = 2
      /\ n = 4 => p = 16
      /\ n = 8 => p = 256
      /\ n = 16 => p = 65536
  BY <1>1
<1> QED
  BY <1>2, <1>3, SMT DEF IsPower

LEMMA ExtractIs ==
  ASSUME NEW f, NEW w
  PROVE  /\ f.offset = 0 /\ f.size = 1 => extract(f, w) = Part(w, 1, 2)
         /\ f.offset = 1 /\ f.size = 1 => extract(f, w) = Part(w, 2, 2)
         /\ f.offset = 0 /\ f.size = 8 => extract(f, w) = Part(w, 1, 256)
         /\ f.offset = 8 /\ f.size = 4 => extract(f, w) = Part(w, 256, 16)
         /\ f.offset = 16 /\ f.size = 8 => extract(f, w) = Part(w, 65536, 256)
         /\ f.offset = 8 /\ f.size = 8 => extract(f, w) = Part(w, 256, 256)
         /\ f.offset = 16 /\ f.size = 1 => extract(f, w) = Part(w, 65536, 2)
<1>1. PICK p : IsPower(p, f.offset)
  BY PowerOf
<1>2. PICK q : IsPower(q, f.size)
  BY PowerOf
<1>3. extract(f, w) = Part(w, p, q)
  BY <1>1, <1>2 DEF extract, Part, IsPower
<1> QED
  BY <1>1, <1>2, <1>3 DEF IsPower

LEMMA ReplaceIs ==
  ASSUME NEW f, NEW w, NEW v
  PROVE  /\ f.offset = 0 /\ f.size = 1 =>
               replace(f, w, v) = Put(w, v % 2, 1, 2) /\ 2 ^ f.size = 2
         /\ f.offset = 1 /\ f.size = 1 =>
               replace(f, w, v) = Put(w, v % 2, 2, 2) /\ 2 ^ f.size = 2
         /\ f.offset = 0 /\ f.size = 8 =>
               replace(f, w, v) = Put(w, v % 256, 1, 256) /\ 2 ^ f.size = 256
         /\ f.offset = 8 /\ f.size = 4 =>
               replace(f, w, v) = Put(w, v % 16, 256, 16) /\ 2 ^ f.size = 16
         /\ f.offset = 16 /\ f.size = 8 =>
               replace(f, w, v) = Put(w, v % 256, 65536, 256) /\ 2 ^ f.size = 256
         /\ f.offset = 8 /\ f.size = 8 =>
               replace(f, w, v) = Put(w, v % 256, 256, 256) /\ 2 ^ f.size = 256
         /\ f.offset = 16 /\ f.size = 1 =>
               replace(f, w, v) = Put(w, v % 2, 65536, 2) /\ 2 ^ f.size = 2
<1>1. PICK p : IsPower(p, f.offset)
  BY PowerOf
<1>2. PICK q : IsPower(q, f.size)
  BY PowerOf
<1>3. replace(f, w, v) = Put(w, v % q, p, q) /\ 2 ^ f.size = q
  BY <1>1, <1>2 DEF replace, extract, Put, Part, IsPower
<1> QED
  BY <1>1, <1>2, <1>3 DEF IsPower

\* A write to a field of a shape of csr.h.
LEMMA FieldKept ==
  ASSUME NEW f, <<f.offset, f.size>> \in Shapes, NEW w \in Word32, NEW v \in Nat
  PROVE  /\ replace(f, w, v) \in Word32
         /\ extract(f, replace(f, w, v)) = v % 2 ^ f.size
         /\ \A g : <<f.offset, f.size, g.offset, g.size>> \in Beside =>
                    extract(g, replace(f, w, v)) = extract(g, w)
<1>1. CASE f.offset = 0 /\ f.size = 1
  <2>1. replace(f, w, v) = Put(w, v % 2, 1, 2) /\ v % 2 ^ f.size = v % 2
    BY <1>1, ReplaceIs
  <2>2. v % 2 \in 0 .. 1
    OBVIOUS
  <2>3. replace(f, w, v) \in Word32 /\ extract(f, replace(f, w, v)) = v % 2
    BY <1>1, <2>1, <2>2, Put0_1, ExtractIs
  <2>4. \A g : <<f.offset, f.size, g.offset, g.size>> \in Beside =>
          (g.offset = 1 /\ g.size = 1) \/ (g.offset = 8 /\ g.size = 8) \/ (g.offset = 16 /\ g.size = 1)
    BY <1>1 DEF Beside
  <2>5. \A g : <<f.offset, f.size, g.offset, g.size>> \in Beside =>
          extract(g, replace(f, w, v)) = extract(g, w)
    BY <2>1, <2>2, <2>4, Put0_1, ExtractIs
  <2> QED
    BY <2>1, <2>3, <2>5
<1>2. CASE f.offset = 1 /\ f.size = 1
  <2>1. replace(f, w, v) = Put(w, v % 2, 2, 2) /\ v % 2 ^ f.size = v % 2
    BY <1>2, ReplaceIs
  <2>2. v % 2 \in 0 .. 1
    OBVIOUS
  <2>3. replace(f, w, v) \in Word32 /\ extract(f, replace(f, w, v)) = v % 2
    BY <1>2, <2>1, <2>2, Put1_1, ExtractIs
  <2>4. \A g : <<f.offset, f.size, g.offset, g.size>> \in Beside =>
          (g.offset = 0 /\ g.size = 1)
    BY <1>2 DEF Beside
  <2>5. \A g : <<f.offset, f.size, g.offset, g.size>> \in Beside =>
          extract(g, replace(f, w, v)) = extract(g, w)
    BY <2>1, <2>2, <2>4, Put1_1, ExtractIs
  <2> QED
    BY <2>1, <2>3, <2>5
<1>3. CASE f.offset = 0 /\ f.size = 8
  <2>1. replace(f, w, v) = Put(w, v % 256, 1, 256) /\ v % 2 ^ f.size = v % 256
    BY <1>3, ReplaceIs
  <2>2. v % 256 \in 0 .. 255
    OBVIOUS
  <2>3. replace(f, w, v) \in Word32 /\ extract(f, replace(f, w, v)) = v % 256
    BY <1>3, <2>1, <2>2, Put0_8, ExtractIs
  <2>4. \A g : <<f.offset, f.size, g.offset, g.size>> \in Beside =>
          (g.offset = 8 /\ g.size = 4) \/ (g.offset = 16 /\ g.size = 8)
    BY <1>3 DEF Beside
  <2>5. \A g : <<f.offset, f.size, g.offset, g.size>> \in Beside =>
          extract(g, replace(f, w, v)) = extract(g, w)
    BY <2>1, <2>2, <2>4, Put0_8, ExtractIs
  <2> QED
    BY <2>1, <2>3, <2>5
<1>4. CASE f.offset = 8 /\ f.size = 4
  <2>1. replace(f, w, v) = Put(w, v % 16, 256, 16) /\ v % 2 ^ f.size = v % 16
    BY <1>4, ReplaceIs
  <2>2. v % 16 \in 0 .. 15
    OBVIOUS
  <2>3. replace(f, w, v) \in Word32 /\ extract(f, replace(f, w, v)) = v % 16
    BY <1>4, <2>1, <2>2, Put8_4, ExtractIs
  <2>4. \A g : <<f.offset, f.size, g.offset, g.size>> \in Beside =>
          (g.offset = 0 /\ g.size = 8) \/ (g.offset = 16 /\ g.size = 8)
    BY <1>4 DEF Beside
  <2>5. \A g : <<f.offset, f.size, g.offset, g.size>> \in Beside =>
          extract(g, replace(f, w, v)) = extract(g, w)
    BY <2>1, <2>2, <2>4, Put8_4, ExtractIs
  <2> QED
    BY <2>1, <2>3, <2>5
<1>5. CASE f.offset = 16 /\ f.size = 8
  <2>1. replace(f, w, v) = Put(w, v % 256, 65536, 256) /\ v % 2 ^ f.size = v % 256
    BY <1>5, ReplaceIs
  <2>2. v % 256 \in 0 .. 255
    OBVIOUS
  <2>3. replace(f, w, v) \in Word32 /\ extract(f, replace(f, w, v)) = v % 256
    BY <1>5, <2>1, <2>2, Put16_8, ExtractIs
  <2>4. \A g : <<f.offset, f.size, g.offset, g.size>> \in Beside =>
          (g.offset = 0 /\ g.size = 8) \/ (g.offset = 8 /\ g.size = 4)
    BY <1>5 DEF Beside
  <2>5. \A g : <<f.offset, f.size, g.offset, g.size>> \in Beside =>
          extract(g, replace(f, w, v)) = extract(g, w)
    BY <2>1, <2>2, <2>4, Put16_8, ExtractIs
  <2> QED
    BY <2>1, <2>3, <2>5
<1>6. CASE f.offset = 8 /\ f.size = 8
  <2>1. replace(f, w, v) = Put(w, v % 256, 256, 256) /\ v % 2 ^ f.size = v % 256
    BY <1>6, ReplaceIs
  <2>2. v % 256 \in 0 .. 255
    OBVIOUS
  <2>3. replace(f, w, v) \in Word32 /\ extract(f, replace(f, w, v)) = v % 256
    BY <1>6, <2>1, <2>2, Put8_8, ExtractIs
  <2>4. \A g : <<f.offset, f.size, g.offset, g.size>> \in Beside =>
          (g.offset = 0 /\ g.size = 1)
    BY <1>6 DEF Beside
  <2>5. \A g : <<f.offset, f.size, g.offset, g.size>> \in Beside =>
          extract(g, replace(f, w, v)) = extract(g, w)
    BY <2>1, <2>2, <2>4, Put8_8, ExtractIs
  <2> QED
    BY <2>1, <2>3, <2>5
<1>7. CASE f.offset = 16 /\ f.size = 1
  <2>1. replace(f, w, v) = Put(w, v % 2, 65536, 2) /\ v % 2 ^ f.size = v % 2
    BY <1>7, ReplaceIs
  <2>2. v % 2 \in 0 .. 1
    OBVIOUS
  <2>3. replace(f, w, v) \in Word32 /\ extract(f, replace(f, w, v)) = v % 2
    BY <1>7, <2>1, <2>2, Put16_1, ExtractIs
  <2>4. \A g : <<f.offset, f.size, g.offset, g.size>> \in Beside =>
          (g.offset = 0 /\ g.size = 1)
    BY <1>7 DEF Beside
  <2>5. \A g : <<f.offset, f.size, g.offset, g.size>> \in Beside =>
          extract(g, replace(f, w, v)) = extract(g, w)
    BY <2>1, <2>2, <2>4, Put16_1, ExtractIs
  <2> QED
    BY <2>1, <2>3, <2>5
<1> QED
  BY <1>1, <1>2, <1>3, <1>4, <1>5, <1>6, <1>7 DEF Shapes

\* The fields of a block: each has one of the shapes, and two of a register
\* are beside each other.
FieldsApart(b) ==
  LET fields == Blocks[b].fields
  IN \A f, g \in DOMAIN fields :
       /\ <<fields[f].offset, fields[f].size>> \in Shapes
       /\ fields[f].reg = fields[g].reg /\ f # g =>
            <<fields[f].offset, fields[f].size, fields[g].offset, fields[g].size>> \in Beside

LEMMA CtrlFields == FieldsApart("ctrl")
<1>1. Blocks["ctrl"] = ctrl
  BY DEF Blocks
<1>2. \A f, g \in DOMAIN ctrl.fields :
        /\ <<ctrl.fields[f].offset, ctrl.fields[f].size>> \in Shapes
        /\ ctrl.fields[f].reg = ctrl.fields[g].reg /\ f # g =>
             <<ctrl.fields[f].offset, ctrl.fields[f].size,
               ctrl.fields[g].offset, ctrl.fields[g].size>> \in Beside
  BY DEF ctrl, Field, Shapes, Beside
<1> QED
  BY <1>1, <1>2 DEF FieldsApart

LEMMA FlashCoreFields == FieldsApart("flash_core")
<1>1. Blocks["flash_core"] = flash_core
  BY DEF Blocks
<1>2. \A f, g \in DOMAIN flash_core.fields :
        /\ <<flash_core.fields[f].offset, flash_core.fields[f].size>> \in Shapes
        /\ flash_core.fields[f].reg = flash_core.fields[g].reg /\ f # g =>
             <<flash_core.fields[f].offset, flash_core.fields[f].size,
               flash_core.fields[g].offset, flash_core.fields[g].size>> \in Beside
  BY DEF flash_core, Field, Shapes, Beside
<1> QED
  BY <1>1, <1>2 DEF FieldsApart

LEMMA SpiMasterFields == FieldsApart("spi_master")
<1>1. Blocks["spi_master"] = spi_master
  BY DEF Blocks
<1>2. \A f, g \in DOMAIN spi_master.fields :
        /\ <<spi_master.fields[f].offset, spi_master.fields[f].size>> \in Shapes
        /\ spi_master.fields[f].reg = spi_master.fields[g].reg /\ f # g =>
             <<spi_master.fields[f].offset, spi_master.fields[f].size,
               spi_master.fields[g].offset, spi_master.fields[g].size>> \in Beside
  BY DEF spi_master, Field, Shapes, Beside
<1> QED
  BY <1>1, <1>2 DEF FieldsApart

LEMMA Timer0Fields == FieldsApart("timer0")
<1>1. Blocks["timer0"] = timer0
  BY DEF Blocks
<1>2. \A f, g \in DOMAIN timer0.fields :
        /\ <<timer0.fields[f].offset, timer0.fields[f].size>> \in Shapes
        /\ timer0.fields[f].reg = timer0.fields[g].reg /\ f # g =>
             <<timer0.fields[f].offset, timer0.fields[f].size,
               timer0.fields[g].offset, timer0.fields[g].size>> \in Beside
  BY DEF timer0, Field, Shapes, Beside
<1> QED
  BY <1>1, <1>2 DEF FieldsApart

LEMMA UartFields == FieldsApart("uart")
<1>1. Blocks["uart"] = uart
  BY DEF Blocks
<1>2. \A f, g \in DOMAIN uart.fields :
        /\ <<uart.fields[f].offset, uart.fields[f].size>> \in Shapes
        /\ uart.fields[f].reg = uart.fields[g].reg /\ f # g =>
             <<uart.fields[f].offset, uart.fields[f].size,
               uart.fields[g].offset, uart.fields[g].size>> \in Beside
  BY DEF uart, Field, Shapes, Beside
<1> QED
  BY <1>1, <1>2 DEF FieldsApart

\* The six blocks of user_irq, and the blocks without fields.
LEMMA IrqFields ==
  \A b \in {"user_irq_0", "user_irq_1", "user_irq_2", "user_irq_3",
            "user_irq_4", "user_irq_5"} :
    FieldsApart(b)
<1>. DEFINE fields == user_irq(0).fields
<1>1. \A base : user_irq(base).fields = fields
  BY DEF user_irq
<1>2. \A f, g \in DOMAIN fields :
        /\ <<fields[f].offset, fields[f].size>> \in Shapes
        /\ fields[f].reg = fields[g].reg => f = g
  BY DEF user_irq, Field, Shapes
<1>. HIDE DEF fields
<1>3. Blocks["user_irq_0"].fields = fields
  BY <1>1 DEF Blocks, user_irq_0
<1>4. Blocks["user_irq_1"].fields = fields
  BY <1>1 DEF Blocks, user_irq_1
<1>5. Blocks["user_irq_2"].fields = fields
  BY <1>1 DEF Blocks, user_irq_2
<1>6. Blocks["user_irq_3"].fields = fields
  BY <1>1 DEF Blocks, user_irq_3
<1>7. Blocks["user_irq_4"].fields = fields
  BY <1>1 DEF Blocks, user_irq_4
<1>8. Blocks["user_irq_5"].fields = fields
  BY <1>1 DEF Blocks, user_irq_5
<1> QED
  BY <1>2, <1>3, <1>4, <1>5, <1>6, <1>7, <1>8 DEF FieldsApart

LEMMA NoFieldsApart ==
  \A b \in {"debug_mode", "debug_oeb", "flash_phy", "gpio", "la",
            "mprj_wb_iena", "spi_enabled", "uart_enabled", "user_irq_ena"} :
    FieldsApart(b)
<1>1. \A f, g \in DOMAIN NoFields :
        <<NoFields[f].offset, NoFields[f].size>> \in Shapes /\ f = g
  BY DEF NoFields, Field, Shapes
<1>2. Blocks["debug_mode"].fields = NoFields
  BY DEF Blocks, debug_mode
<1>3. Blocks["debug_oeb"].fields = NoFields
  BY DEF Blocks, debug_oeb
<1>4. Blocks["flash_phy"].fields = NoFields
  BY DEF Blocks, flash_phy
<1>5. Blocks["gpio"].fields = NoFields
  BY DEF Blocks, gpio
<1>6. Blocks["la"].fields = NoFields
  BY DEF Blocks, la
<1>7. Blocks["mprj_wb_iena"].fields = NoFields
  BY DEF Blocks, mprj_wb_iena
<1>8. Blocks["spi_enabled"].fields = NoFields
  BY DEF Blocks, spi_enabled
<1>9. Blocks["uart_enabled"].fields = NoFields
  BY DEF Blocks, uart_enabled
<1>10. Blocks["user_irq_ena"].fields = NoFields
  BY DEF Blocks, user_irq_ena
<1> QED
  BY <1>1, <1>2, <1>3, <1>4, <1>5, <1>6, <1>7, <1>8, <1>9, <1>10 DEF FieldsApart

\* A write to a field (<reg>_<field>_write in csr.h), whatever the register
\* holds and whatever is written: what fits of the value is in the field, the
\* register's other fields are as they were, and nothing leaves the word.
THEOREM FieldsKept ==
  \A b \in DOMAIN Blocks : \A f, g \in DOMAIN Blocks[b].fields :
    LET written == Blocks[b].fields[f]
        other == Blocks[b].fields[g]
    IN written.reg = other.reg =>
         \A oldword \in Word32, v \in Nat :
           LET newword == replace(written, oldword, v)
           IN /\ newword \in Word32
              /\ extract(other, newword) =
                   IF f = g THEN v % 2 ^ written.size ELSE extract(other, oldword)
<1>1. \A b \in DOMAIN Blocks : FieldsApart(b)
  BY BlockNames, CtrlFields, FlashCoreFields, SpiMasterFields, Timer0Fields,
                 UartFields, IrqFields, NoFieldsApart
<1>2. SUFFICES ASSUME NEW b \in DOMAIN Blocks,
                      NEW f \in DOMAIN Blocks[b].fields, NEW g \in DOMAIN Blocks[b].fields,
                      Blocks[b].fields[f].reg = Blocks[b].fields[g].reg,
                      NEW oldword \in Word32, NEW v \in Nat
               PROVE  /\ replace(Blocks[b].fields[f], oldword, v) \in Word32
                      /\ extract(Blocks[b].fields[g], replace(Blocks[b].fields[f], oldword, v)) =
                           IF f = g THEN v % 2 ^ Blocks[b].fields[f].size
                                    ELSE extract(Blocks[b].fields[g], oldword)
  OBVIOUS
<1>. DEFINE F == Blocks[b].fields[f]
            G == Blocks[b].fields[g]
<1>3. /\ <<F.offset, F.size>> \in Shapes
      /\ f # g => <<F.offset, F.size, G.offset, G.size>> \in Beside
  BY <1>1, <1>2 DEF FieldsApart
<1>4. f = g => G = F
  OBVIOUS
<1>. HIDE DEF F, G
<1>5. /\ replace(F, oldword, v) \in Word32
      /\ extract(F, replace(F, oldword, v)) = v % 2 ^ F.size
      /\ f # g => extract(G, replace(F, oldword, v)) = extract(G, oldword)
  BY <1>3, FieldKept
<1>6. /\ replace(F, oldword, v) \in Word32
      /\ extract(G, replace(F, oldword, v)) =
           IF f = g THEN v % 2 ^ F.size ELSE extract(G, oldword)
  BY <1>4, <1>5
<1> QED
  BY <1>6 DEF F, G

-----------------------------------------------------------------------------
(* What the runs see of it.                                                *)

\* Only a first call to a register leaves an outcome.
LEMMA Untouched ==
  ASSUME [Next]_vars, ~ProbeRegister, ~ProbeLa, ~ProbeField, ~ProbeBuffer
  PROVE  probe' = probe
<1>1. CASE Main
  BY <1>1 DEF Main, Polls, Stores, FieldRead, FieldWrite
<1>2. CASE CallPrint \/ UartFieldWrite \/ SpiFieldWrite
  BY <1>2 DEF CallPrint, UartFieldWrite, SpiFieldWrite, CallFieldWrite
<1>3. CASE spi_master_control_write \/ irq_setup
  BY <1>3 DEF spi_master_control_write, irq_setup
<1>4. CASE Isr \/ Interrupt
  BY <1>4 DEF Isr, irq_setmask0, SignalsTest, SetsFlag, Interrupt
<1>5. CASE Devices
  BY <1>5 DEF Devices, Sample, LineTakes, LineGives, SpiClock
<1>6. CASE UNCHANGED vars
  BY <1>6 DEF vars
<1> QED
  BY <1>1, <1>2, <1>3, <1>4, <1>5, <1>6 DEF Next, Calls

\* The outcome of a write to the field f of a register, for its field g.
Leaves(b, f, g, oldword, v) ==
  LET written == Blocks[b].fields[f]
      other == Blocks[b].fields[g]
  IN /\ written.reg = other.reg
     /\ probe' = [kind |-> "field", same |-> f = g, value |-> v % 2 ^ written.size,
                  old |-> extract(other, oldword),
                  new |-> extract(other, replace(written, oldword, v))]

\* Whatever register or field is called first, in any state of the system, the
\* call reaches it and changes nothing else (csr.h, defs.h): AccessorsSound but
\* for the buffers.
THEOREM CallsOfRegisters == Spec => [](probe.kind # "buffer" => AccessorsSound)
<1>. DEFINE Sound == probe.kind # "buffer" => AccessorsSound
<1>1. Init => Sound
  BY DEF Init, AccessorsSound
<1>2. Sound /\ [Next]_vars => Sound'
  <2>. SUFFICES ASSUME Sound, [Next]_vars PROVE Sound'
    OBVIOUS
  <2>1. CASE ProbeRegister
    <3>1. PICK b \in DOMAIN Blocks \ {"la"} : \E r \in DOMAIN Blocks[b].regs :
            probe' = [kind |-> "register", means |-> <<b, r>>,
                      reaches |-> Decode(Blocks[b].regs[r])]
      BY <2>1 DEF ProbeRegister, Probe
    <3>2. PICK r \in DOMAIN Blocks[b].regs :
            probe' = [kind |-> "register", means |-> <<b, r>>,
                      reaches |-> Decode(Blocks[b].regs[r])]
      BY <3>1
    <3>3. Decode(Blocks[b].regs[r]) = <<b, r>>
      BY NamesReach
    <3> QED
      BY <3>2, <3>3 DEF AccessorsSound
  <2>2. CASE ProbeLa
    <3>1. PICK k \in DOMAIN la.regs, n \in 0 .. 3 :
            probe' = [kind |-> "register", means |-> <<"la", <<k, n>>>>,
                      reaches |-> Decode(reg_la(k, n))]
      BY <2>2 DEF ProbeLa, Probe
    <3>2. Decode(reg_la(k, n)) = <<"la", <<k, n>>>>
      BY NamesReach
    <3> QED
      BY <3>1, <3>2 DEF AccessorsSound
  <2>3. CASE ProbeField
    <3>1. {0, 2 ^ 24 - 1, 5592405} \subseteq Word32
      BY SMT DEF Word32
    <3>2. PICK b \in DOMAIN Blocks :
            \E f, g \in DOMAIN Blocks[b].fields, oldword \in Word32, v \in Nat :
              Leaves(b, f, g, oldword, v)
      BY <2>3, <3>1, SMT DEF ProbeField, Probe, Leaves
    <3>3. PICK f \in DOMAIN Blocks[b].fields, g \in DOMAIN Blocks[b].fields,
               oldword \in Word32, v \in Nat : Leaves(b, f, g, oldword, v)
      BY <3>2
    <3>4. extract(Blocks[b].fields[g], replace(Blocks[b].fields[f], oldword, v)) =
            IF f = g THEN v % 2 ^ Blocks[b].fields[f].size
            ELSE extract(Blocks[b].fields[g], oldword)
      BY <3>3, FieldsKept DEF Leaves
    <3> QED
      BY <3>3, <3>4 DEF AccessorsSound, Leaves
  <2>4. CASE ProbeBuffer
    <3>1. probe'.kind = "buffer"
      BY <2>4 DEF ProbeBuffer, Probe
    <3> QED
      BY <3>1
  <2>5. CASE probe' = probe
    BY <2>5 DEF AccessorsSound
  <2> QED
    BY <2>1, <2>2, <2>3, <2>4, <2>5, Untouched
<1> QED
  BY <1>1, <1>2, PTL DEF Spec
=============================================================================
