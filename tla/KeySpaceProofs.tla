--------------------------- MODULE KeySpaceProofs ---------------------------
(***************************************************************************)
(* Theorems about KeySpace, for any names, values and ids: keys can be     *)
(* read back, so that they name things, and prefixes reach what they       *)
(* should; padded numbers lie in order; and the audit counts exactly what  *)
(* its View holds.                                                         *)
(***************************************************************************)
EXTENDS KeySpace, FiniteSetTheorems, SequenceTheorems, WellFoundedInduction, TLAPS

-----------------------------------------------------------------------------
(* Induction over a set of numbers.                                        *)

Below == {ss \in Nat \X Nat : ss[1] < ss[2]}

\* What holds of 0 and of the successor of each number it holds of holds of
\* every number.
LEMMA AllNumbers ==
  ASSUME NEW S \in SUBSET Nat, 0 \in S, \A n \in S : n + 1 \in S
  PROVE  S = Nat
  <1> SUFFICES ASSUME Nat \ S # {} PROVE FALSE
    OBVIOUS
  <1>1. IsWellFoundedOn(Below, Nat)
    BY NatLessThanWellFounded DEF OpToRel, Below
  <1>2. PICK x \in Nat \ S : \A y \in Nat \ S : <<y, x>> \notin Below
    <2>1. Nat \ S \in SUBSET Nat
      OBVIOUS
    <2> QED BY <1>1, <2>1, WFMin
  <1>3. \A y \in Nat \ S : ~(y < x)
    BY <1>2 DEF Below
  <1>4. x - 1 \in Nat /\ x - 1 < x /\ (x - 1) + 1 = x
    BY <1>2
  <1>5. x - 1 \in S
    BY <1>3, <1>4
  <1> QED BY <1>2, <1>4, <1>5

-----------------------------------------------------------------------------
(* FlattenSeq.                                                             *)

\* f holds, of the first n sequences of ss, each with those before it.
Joins(f, ss, n) == f = [i \in 1 .. n |-> IF i = 1 THEN ss[1] ELSE f[i - 1] \o ss[i]]

\* FlattenSeq is what its recursive function makes of all of them.
LEMMA FlattenJoins ==
  ASSUME NEW ss, Len(ss) \in Nat, Len(ss) # 0
  PROVE  \E f : Joins(f, ss, Len(ss)) /\ FlattenSeq(ss) = f[Len(ss)]
  <1> DEFINE Good == {n \in Nat : \E f : Joins(f, ss, n)}
  <1>1. 0 \in Good
    <2>1. Joins([i \in 1 .. 0 |-> 0], ss, 0)
      BY DEF Joins
    <2> QED BY <2>1
  <1>2. ASSUME NEW n \in Good PROVE n + 1 \in Good
    <2>1. PICK f : Joins(f, ss, n)
      OBVIOUS
    <2> DEFINE g == [i \in 1 .. (n + 1) |->
                        IF i = n + 1 THEN (IF i = 1 THEN ss[1] ELSE f[n] \o ss[i]) ELSE f[i]]
    <2>2. ASSUME NEW i \in 1 .. (n + 1)
          PROVE  g[i] = IF i = 1 THEN ss[1] ELSE g[i - 1] \o ss[i]
      <3>1. CASE i = n + 1 /\ i = 1
        BY <3>1
      <3>2. CASE i = n + 1 /\ i # 1
        <4>1. i - 1 = n /\ n \in 1 .. (n + 1) /\ n # n + 1
          BY <3>2
        <4>2. g[n] = f[n]
          BY <4>1
        <4> QED BY <3>2, <4>1, <4>2
      <3>3. CASE i # n + 1
        <4>1. i \in 1 .. n /\ (i # 1 => i - 1 \in 1 .. (n + 1) /\ i - 1 # n + 1)
          BY <3>3
        <4>2. f[i] = IF i = 1 THEN ss[1] ELSE f[i - 1] \o ss[i]
          BY <2>1, <4>1 DEF Joins
        <4>3. g[i] = f[i] /\ (i # 1 => g[i - 1] = f[i - 1])
          BY <3>3, <4>1
        <4> QED BY <4>2, <4>3
      <3> QED BY <3>1, <3>2, <3>3
    <2>3. Joins(g, ss, n + 1)
      <3>1. g = [i \in 1 .. (n + 1) |-> g[i]]
        OBVIOUS
      <3> HIDE DEF g
      <3>2. g = [i \in 1 .. (n + 1) |-> IF i = 1 THEN ss[1] ELSE g[i - 1] \o ss[i]]
        BY <2>2, <3>1
      <3> QED BY <3>2 DEF Joins
    <2> QED BY <2>3
  <1>3. Good = Nat
    BY <1>1, <1>2, AllNumbers
  <1>4. \E f : Joins(f, ss, Len(ss))
    BY <1>3
  <1>5. Joins(CHOOSE f : Joins(f, ss, Len(ss)), ss, Len(ss))
    BY <1>4
  <1>6. FlattenSeq(ss) = (CHOOSE f : Joins(f, ss, Len(ss)))[Len(ss)]
    BY Zenon DEF FlattenSeq, Joins
  <1> QED BY <1>5, <1>6

-----------------------------------------------------------------------------
(* Texts.                                                                  *)

Byte == 0 .. 127

\* Concatenation, by a name of its own: the steps below use no more of it
\* than the lemmas that follow.
s ++ t == s \o t

\* Texts make texts.
LEMMA CatText ==
  ASSUME NEW s \in Text, NEW t \in Text
  PROVE  s ++ t \in Text
  BY ConcatProperties DEF Text, ++

\* It does not matter which of three texts are joined first.
LEMMA CatAssoc ==
  ASSUME NEW s \in Text, NEW t \in Text, NEW u \in Text
  PROVE  (s ++ t) ++ u = s ++ (t ++ u)
  BY ConcatAssociative DEF Text, ++

\* The empty text changes nothing.
LEMMA CatEmpty ==
  ASSUME NEW s \in Text
  PROVE  s ++ <<>> = s /\ <<>> ++ s = s
  BY ConcatEmptySeq DEF Text, ++

\* What begins alike and is alike goes on alike.
LEMMA CatCancel ==
  ASSUME NEW s \in Text, NEW t \in Text, NEW u \in Text, s ++ t = s ++ u
  PROVE  t = u
  BY ConcatSimplifications DEF Text, ++

\* Beginnings of one length are alike if the wholes are.
LEMMA CatSplit ==
  ASSUME NEW s \in Text, NEW t \in Text, NEW z \in Text, NEW y \in Text,
         Len(s) = Len(t), s ++ z = t ++ y
  PROVE  s = t
  <1>1. Len(s) \in Nat /\ Len(z) \in Nat /\ Len(y) \in Nat
    BY LenProperties DEF Text
  <1>2. ASSUME NEW i \in 1 .. Len(s) PROVE s[i] = t[i]
    <2>1. i \in 1 .. Len(s) + Len(z) /\ i \in 1 .. Len(t) + Len(y) /\ i <= Len(s)
      BY <1>1
    <2>2. (s \o z)[i] = s[i] /\ (t \o y)[i] = t[i]
      BY <2>1, ConcatProperties DEF Text
    <2> QED BY <2>2 DEF ++
  <1> QED BY <1>2, SeqEqual DEF Text

\* The empty text has only empty parts.
LEMMA CatNone ==
  ASSUME NEW s \in Text, NEW t \in Text, s ++ t = <<>>
  PROVE  s = <<>> /\ t = <<>>
  BY ConcatEqualIffEmpty DEF Text, ++

\* The first byte of two texts.
LEMMA CatFirst ==
  ASSUME NEW s \in Text, NEW t \in Text
  PROVE  (s ++ t)[1] = IF s = <<>> THEN t[1] ELSE s[1]
  <1>1. CASE s = <<>>
    BY <1>1, CatEmpty
  <1>2. CASE s # <<>>
    <2>1. Len(s) \in Nat \ {0} /\ Len(t) \in Nat
      BY <1>2, EmptySeq, LenProperties DEF Text
    <2>2. 1 \in 1 .. Len(s) + Len(t) /\ 1 <= Len(s)
      BY <2>1
    <2> QED BY <1>2, <2>2, ConcatProperties DEF Text, ++
  <1> QED BY <1>1, <1>2

\* Texts to begin with.
LEMMA SmallTexts ==
  /\ <<>> \in Text
  /\ \A c \in Byte : <<c>> \in Text /\ <<c>> # <<>> /\ <<c>>[1] = c
  BY DEF Text, Byte

\* A sequence that is not empty is its first element and its tail.
LEMMA FirstThenTail ==
  ASSUME NEW S, NEW s \in Seq(S), s # <<>>
  PROVE  s = <<s[1]>> \o Tail(s)
  <1>1. Len(s) \in Nat \ {0}
    BY EmptySeq
  <1>2. s = SubSeq(s, 1, Len(s)) /\ 1 \in 1 .. Len(s) /\ Len(s) \in 1 .. Len(s)
    BY <1>1, SubSeqFull
  <1> QED BY <1>2, SubSeqRecursiveFirst, TailIsSubSeq

\* It is an element and a sequence that is shorter by one.
LEMMA FirstAndRest ==
  ASSUME NEW S, NEW s \in Seq(S), s # <<>>
  PROVE  \E c \in S, r \in Seq(S) : s = <<c>> \o r /\ Len(s) = Len(r) + 1 /\ c = s[1]
  <1>1. Len(s) \in Nat \ {0} /\ s[1] \in S
    BY EmptySeq, ElementOfSeq
  <1>2. Tail(s) \in Seq(S) /\ Len(Tail(s)) = Len(s) - 1
    BY HeadTailProperties
  <1> WITNESS s[1] \in S, Tail(s) \in Seq(S)
  <1> QED BY <1>1, <1>2, FirstThenTail

\* The same with the names of this module.
LEMMA TextFirst ==
  ASSUME NEW s \in Text, s # <<>>
  PROVE  \E c \in Byte, r \in Text : s = <<c>> ++ r /\ Len(s) = Len(r) + 1 /\ Len(r) \in Nat
  <1>1. PICK c \in 0 .. 127, r \in Seq(0 .. 127) : s = <<c>> \o r /\ Len(s) = Len(r) + 1
    <2> DEFINE B == 0 .. 127
    <2>1. s \in Seq(B)
      BY DEF Text
    <2> HIDE DEF B
    <2>2. \E c \in B, r \in Seq(B) : s = <<c>> \o r /\ Len(s) = Len(r) + 1 /\ c = s[1]
      BY <2>1, FirstAndRest, Zenon
    <2> QED BY <2>2 DEF B
  <1>2. Len(r) \in Nat
    BY LenProperties
  <1> QED BY <1>1, <1>2 DEF Text, Byte, ++

\* A prefix is what something follows.
LEMMA PrefixIsFollowed ==
  ASSUME NEW s \in Text, NEW t \in Text
  PROVE  IsPrefix(s, t) <=> \E z \in Text : t = s ++ z
  <1>1. Len(s) \in Nat /\ Len(t) \in Nat
    BY LenProperties DEF Text
  <1>2. ASSUME IsPrefix(s, t) PROVE \E z \in Text : t = s ++ z
    <2>1. Len(s) <= Len(t) /\ SubSeq(s, 1, Len(s)) = SubSeq(t, 1, Len(s))
      BY <1>2 DEF IsPrefix
    <2>2. s = SubSeq(t, 1, Len(s))
      BY <2>1, SubSeqFull DEF Text
    <2>3. t = SubSeq(t, 1, Len(s)) \o SubSeq(t, Len(s) + 1, Len(t))
      <3>1. 1 \in 1 .. Len(t) + 1 /\ Len(s) \in 1 - 1 .. Len(t) /\ Len(t) \in Len(s) .. Len(t)
        BY <1>1, <2>1
      <3> QED BY <3>1, ConcatAdjacentSubSeq, SubSeqFull DEF Text
    <2>4. SubSeq(t, Len(s) + 1, Len(t)) \in Text
      <3>1. \A i \in Len(s) + 1 .. Len(t) : t[i] \in 0 .. 127
        BY <1>1, ElementOfSeq DEF Text
      <3> QED BY <1>1, <3>1, SubSeqProperties DEF Text
    <2> QED BY <2>2, <2>3, <2>4 DEF ++
  <1>3. ASSUME NEW z \in Text, t = s ++ z PROVE IsPrefix(s, t)
    <2>1. Len(z) \in Nat /\ Len(t) = Len(s) + Len(z)
      BY <1>3, LenProperties, ConcatProperties DEF Text, ++
    <2>2. SubSeq(t, 1, Len(s)) = SubSeq(s, 1, Len(s))
      <3>1. CASE Len(s) = 0
        BY <3>1, SubSeqEmpty
      <3>2. CASE Len(s) # 0
        <4>1. 1 \in 1 .. Len(s) /\ Len(s) \in 1 .. Len(s)
          BY <1>1, <3>2
        <4> QED BY <1>3, <4>1, SubSeqOfConcat1 DEF Text, ++
      <3> QED BY <3>1, <3>2
    <2> QED BY <1>1, <2>1, <2>2 DEF IsPrefix
  <1> QED BY <1>2, <1>3

-----------------------------------------------------------------------------
(* Texts in a row.                                                         *)

\* Nothing in a row is nothing.
LEMMA FlattenNone == FlattenSeq(<<>>) = <<>>
  BY DEF FlattenSeq

\* What Joins makes of texts are texts.
LEMMA JoinsText ==
  ASSUME NEW ss \in Seq(Text), NEW f, Joins(f, ss, Len(ss))
  PROVE  \A i \in 1 .. Len(ss) : f[i] \in Text
  <1> DEFINE Good == {n \in Nat : \A i \in 1 .. Len(ss) : i <= n => f[i] \in Text}
  <1>1. Len(ss) \in Nat
    BY LenProperties
  <1>2. 0 \in Good
    BY <1>1
  <1>3. ASSUME NEW n \in Good PROVE n + 1 \in Good
    <2> SUFFICES ASSUME NEW i \in 1 .. Len(ss), i <= n + 1 PROVE f[i] \in Text
      OBVIOUS
    <2>1. f[i] = IF i = 1 THEN ss[1] ELSE f[i - 1] \o ss[i]
      BY DEF Joins
    <2>2. ss[i] \in Text
      BY ElementOfSeq
    <2>3. CASE i = 1
      BY <2>1, <2>2, <2>3
    <2>4. CASE i # 1
      <3>1. i - 1 \in 1 .. Len(ss) /\ i - 1 <= n
        BY <1>1, <2>4
      <3> QED BY <2>1, <2>2, <2>4, <3>1, CatText DEF ++
    <2> QED BY <2>3, <2>4
  <1>4. Good = Nat
    BY <1>2, <1>3, AllNumbers
  <1> QED BY <1>1, <1>4

\* Texts in a row are a text.
LEMMA FlattenText ==
  ASSUME NEW ss \in Seq(Text)
  PROVE  FlattenSeq(ss) \in Text
  <1>1. CASE ss = <<>>
    BY <1>1, FlattenNone, SmallTexts
  <1>2. CASE ss # <<>>
    <2>1. Len(ss) \in Nat /\ Len(ss) # 0 /\ Len(ss) \in 1 .. Len(ss)
      BY <1>2, EmptySeq
    <2> QED BY <2>1, FlattenJoins, JoinsText
  <1> QED BY <1>1, <1>2

\* The first text of a row comes first.
LEMMA FlattenFirst ==
  ASSUME NEW e \in Text, NEW ss \in Seq(Text)
  PROVE  FlattenSeq(<<e>> \o ss) = e ++ FlattenSeq(ss)
  <1> DEFINE tt == <<e>> \o ss
  <1>1. /\ tt \in Seq(Text) /\ Len(ss) \in Nat /\ Len(tt) = Len(ss) + 1
        /\ tt[1] = e /\ \A i \in 1 .. Len(ss) : tt[i + 1] = ss[i]
    <2>1. <<e>> \in Seq(Text) /\ Len(<<e>>) = 1 /\ <<e>>[1] = e /\ Len(ss) \in Nat
      BY LenProperties
    <2>2. /\ tt \in Seq(Text) /\ Len(tt) = 1 + Len(ss)
          /\ \A i \in 1 .. 1 + Len(ss) : tt[i] = IF i <= 1 THEN <<e>>[i] ELSE ss[i - 1]
      BY <2>1, ConcatProperties
    <2> QED BY <2>1, <2>2
  <1> HIDE DEF tt
  <1>2. PICK g : Joins(g, tt, Len(tt)) /\ FlattenSeq(tt) = g[Len(tt)]
    BY <1>1, FlattenJoins
  <1>3. g[1] = e
    BY <1>1, <1>2 DEF Joins
  <1>4. CASE ss = <<>>
    <2>1. Len(tt) = 1
      BY <1>1, <1>4
    <2> QED BY <1>2, <1>3, <1>4, <2>1, FlattenNone, CatEmpty DEF tt, ++
  <1>5. CASE ss # <<>>
    <2>1. Len(ss) # 0 /\ Len(ss) \in 1 .. Len(ss)
      BY <1>5, EmptySeq
    <2>2. PICK f : Joins(f, ss, Len(ss)) /\ FlattenSeq(ss) = f[Len(ss)]
      BY <1>1, <2>1, FlattenJoins
    <2>3. \A i \in 1 .. Len(ss) : f[i] \in Text
      BY <2>2, JoinsText
    <2> DEFINE Good == {n \in Nat : \A i \in 1 .. Len(ss) : i <= n => g[i + 1] = e ++ f[i]}
    <2>4. 0 \in Good
      BY <1>1
    <2>5. ASSUME NEW n \in Good PROVE n + 1 \in Good
      <3> SUFFICES ASSUME NEW i \in 1 .. Len(ss), i <= n + 1 PROVE g[i + 1] = e ++ f[i]
        OBVIOUS
      <3>1. f[i] = IF i = 1 THEN ss[1] ELSE f[i - 1] \o ss[i]
        BY <2>2 DEF Joins
      <3>2. g[i + 1] = g[i] \o ss[i]
        <4>1. i + 1 \in 1 .. Len(tt) /\ i + 1 # 1 /\ (i + 1) - 1 = i
          BY <1>1
        <4> QED BY <1>1, <1>2, <4>1 DEF Joins
      <3>3. CASE i = 1
        BY <1>3, <3>1, <3>2, <3>3 DEF ++
      <3>4. CASE i # 1
        <4>1. i - 1 \in 1 .. Len(ss) /\ i - 1 <= n /\ (i - 1) + 1 = i
          BY <1>1, <3>4
        <4>2. g[i] = e ++ f[i - 1]
          BY <4>1
        <4>3. f[i - 1] \in Text /\ ss[i] \in Text
          BY <2>3, <4>1, ElementOfSeq
        <4>4. (e ++ f[i - 1]) ++ ss[i] = e ++ (f[i - 1] ++ ss[i])
          BY <4>3, CatAssoc
        <4> QED BY <3>1, <3>2, <3>4, <4>2, <4>4 DEF ++
      <3> QED BY <3>3, <3>4
    <2>6. Good = Nat
      BY <2>4, <2>5, AllNumbers
    <2>7. g[Len(ss) + 1] = e ++ f[Len(ss)]
      BY <1>1, <2>1, <2>6
    <2> QED BY <1>1, <1>2, <2>2, <2>7 DEF tt
  <1> QED BY <1>4, <1>5

-----------------------------------------------------------------------------
(* What is escaped can be read back, up to a byte that escaping never makes.*)

Stops == {35, Colon, Equals}

\* z is empty or begins with a byte that ends an escaped text.
Ended(z) == z = <<>> \/ z[1] \in Stops

Plain(c) == Digit(c) \/ Upper(c) \/ Lower(c) \/ c \in {45, 95, 46, 126}

\* The two hexadecimal digits of a byte are bytes, and tell which byte it is.
LEMMA HexText ==
  /\ \A c \in Byte : hex(c \div 16) \in Byte /\ hex(c % 16) \in Byte
  /\ \A a, b \in Byte : hex(a \div 16) = hex(b \div 16) /\ hex(a % 16) = hex(b % 16) => a = b
  <1>1. \A c \in Byte : c \div 16 \in 0 .. 15 /\ c % 16 \in 0 .. 15 /\ c = 16 * (c \div 16) + (c % 16)
    BY DEF Byte
  <1>2. \A h \in 0 .. 15 : hex(h) \in Byte
    BY DEF hex, Byte
  <1>3. \A h, k \in 0 .. 15 : hex(h) = hex(k) => h = k
    BY DEF hex
  <1>4. ASSUME NEW a \in Byte, NEW b \in Byte,
               hex(a \div 16) = hex(b \div 16), hex(a % 16) = hex(b % 16)
        PROVE  a = b
    <2>1. a \div 16 = b \div 16 /\ a % 16 = b % 16
      BY <1>1, <1>3, <1>4
    <2> HIDE DEF Byte
    <2> QED BY <1>1, <2>1
  <1> QED BY <1>1, <1>2, <1>4

\* The three forms of an escaped byte.
LEMMA ByteForms ==
  ASSUME NEW c \in Byte
  PROVE  \/ Plain(c) /\ byte(c) = <<c>>
         \/ ~Plain(c) /\ c = 32 /\ byte(c) = <<43>>
         \/ ~Plain(c) /\ c # 32 /\ byte(c) = <<37, hex(c \div 16), hex(c % 16)>>
  BY DEF byte, Plain

\* An escaped byte is a text that does not begin with a stop.
LEMMA ByteText ==
  ASSUME NEW c \in Byte
  PROVE  byte(c) \in Text /\ byte(c) # <<>> /\ byte(c)[1] \notin Stops
  <1>1. CASE Plain(c) /\ byte(c) = <<c>>
    <2>1. c \notin Stops
      BY <1>1 DEF Plain, Digit, Upper, Lower, Stops, Colon, Equals
    <2>2. <<c>> \in Text /\ <<c>> # <<>> /\ <<c>>[1] = c
      BY SmallTexts
    <2> QED BY <1>1, <2>1, <2>2
  <1>2. CASE byte(c) = <<43>>
    BY <1>2 DEF Text, Stops, Colon, Equals
  <1>3. CASE byte(c) = <<37, hex(c \div 16), hex(c % 16)>>
    <2>1. hex(c \div 16) \in 0 .. 127 /\ hex(c % 16) \in 0 .. 127
      BY HexText DEF Byte
    <2> QED BY <1>3, <2>1 DEF Text, Stops, Colon, Equals
  <1> QED BY <1>1, <1>2, <1>3, ByteForms

\* An escaped byte tells which byte it is and where it ends.
LEMMA ByteParse ==
  ASSUME NEW a \in Byte, NEW b \in Byte, NEW z \in Text, NEW y \in Text,
         byte(a) ++ z = byte(b) ++ y
  PROVE  a = b /\ z = y
  <1>1. byte(a) \in Text /\ byte(b) \in Text /\ byte(a)[1] = byte(b)[1]
    BY ByteText, CatFirst
  <1>2. ~Plain(37) /\ ~Plain(43)
    BY DEF Plain, Digit, Upper, Lower
  <1>3. a = b
    <2>1. CASE Plain(a)
      BY <1>1, <1>2, <2>1, ByteForms
    <2>2. CASE ~Plain(a) /\ a = 32
      BY <1>1, <1>2, <2>2, ByteForms
    <2>3. CASE ~Plain(a) /\ a # 32
      <3>1. byte(a) = <<37, hex(a \div 16), hex(a % 16)>>
        BY <2>3, ByteForms
      <3>2. byte(b) = <<37, hex(b \div 16), hex(b % 16)>>
        BY <1>1, <1>2, <3>1, ByteForms
      <3>3. Len(byte(a)) = 3 /\ Len(byte(b)) = 3
        BY <3>1, <3>2
      <3>4. byte(a) = byte(b)
        BY <1>1, <3>3, CatSplit
      <3>5. hex(a \div 16) = hex(b \div 16) /\ hex(a % 16) = hex(b % 16)
        BY <3>1, <3>2, <3>4
      <3> QED BY <3>5, HexText
    <2> QED BY <2>1, <2>2, <2>3
  <1> QED BY <1>1, <1>3, CatCancel

\* Escaping goes byte by byte.
LEMMA EscSteps ==
  /\ esc(<<>>) = <<>>
  /\ \A s \in Text : esc(s) \in Text
  /\ \A c \in Byte, s \in Text : esc(<<c>> ++ s) = byte(c) ++ esc(s)
  <1> DEFINE each(s) == [j \in DOMAIN s |-> byte(s[j])]
  <1>1. esc(<<>>) = <<>>
    BY FlattenNone DEF esc
  <1>2. ASSUME NEW s \in Text
        PROVE  each(s) \in Seq(Text) /\ Len(each(s)) = Len(s) /\ DOMAIN s = 1 .. Len(s)
    <2>1. Len(s) \in Nat /\ DOMAIN s = 1 .. Len(s)
      BY LenProperties DEF Text
    <2>2. \A j \in 1 .. Len(s) : byte(s[j]) \in Text
      BY ElementOfSeq, ByteText DEF Text, Byte
    <2> QED BY <2>1, <2>2
  <1>3. ASSUME NEW s \in Text PROVE esc(s) \in Text
    BY <1>2, FlattenText DEF esc
  <1>4. ASSUME NEW c \in Byte, NEW s \in Text
        PROVE  esc(<<c>> ++ s) = byte(c) ++ esc(s)
    <2> DEFINE t == <<c>> ++ s
    <2>1. <<c>> \in Text /\ t \in Text /\ byte(c) \in Text
      BY SmallTexts, CatText, ByteText
    <2>2. Len(s) \in Nat /\ Len(<<c>>) = 1 /\ Len(<<byte(c)>>) = 1 /\ <<byte(c)>> \in Seq(Text)
      BY <2>1, LenProperties DEF Text
    <2>3. Len(t) = 1 + Len(s) /\ \A j \in 1 .. 1 + Len(s) : t[j] = IF j <= 1 THEN <<c>>[j] ELSE s[j - 1]
      BY <2>1, <2>2, ConcatProperties DEF Text, ++
    <2>4. each(s) \in Seq(Text) /\ Len(each(s)) = Len(s) /\ each(t) \in Seq(Text) /\ Len(each(t)) = 1 + Len(s)
      BY <1>2, <2>1, <2>3
    <2>5. /\ <<byte(c)>> \o each(s) \in Seq(Text)
          /\ Len(<<byte(c)>> \o each(s)) = 1 + Len(s)
          /\ \A j \in 1 .. 1 + Len(s) : (<<byte(c)>> \o each(s))[j] = IF j <= 1 THEN <<byte(c)>>[j] ELSE each(s)[j - 1]
      BY <2>2, <2>4, ConcatProperties
    <2>6. ASSUME NEW j \in 1 .. 1 + Len(s) PROVE each(t)[j] = (<<byte(c)>> \o each(s))[j]
      <3>1. each(t)[j] = byte(t[j])
        BY <1>2, <2>1, <2>3
      <3>2. CASE j = 1
        BY <2>3, <2>5, <3>1, <3>2
      <3>3. CASE j # 1
        <4>1. j - 1 \in 1 .. Len(s) /\ ~(j <= 1)
          BY <2>2, <3>3
        <4>2. each(s)[j - 1] = byte(s[j - 1])
          BY <1>2, <4>1
        <4> QED BY <2>3, <2>5, <3>1, <4>1, <4>2
      <3> QED BY <3>2, <3>3
    <2>7. each(t) = <<byte(c)>> \o each(s)
      <3> HIDE DEF each
      <3> QED BY <2>4, <2>5, <2>6, SeqEqual
    <2>8. FlattenSeq(<<byte(c)>> \o each(s)) = byte(c) ++ FlattenSeq(each(s))
      BY <2>1, <2>4, FlattenFirst
    <2> QED BY <2>7, <2>8 DEF esc
  <1> QED BY <1>1, <1>3, <1>4

\* Two texts are escaped one after the other.
LEMMA EscCat ==
  ASSUME NEW a \in Text, NEW b \in Text
  PROVE  esc(a ++ b) = esc(a) ++ esc(b)
  <1> DEFINE Good == {n \in Nat : \A s \in Text : Len(s) = n => esc(s ++ b) = esc(s) ++ esc(b)}
  <1>1. 0 \in Good
    <2>1. \A s \in Text : Len(s) = 0 => s = <<>>
      BY EmptySeq DEF Text
    <2> QED BY <2>1, CatEmpty, EscSteps
  <1>2. ASSUME NEW n \in Good PROVE n + 1 \in Good
    <2> SUFFICES ASSUME NEW s \in Text, Len(s) = n + 1 PROVE esc(s ++ b) = esc(s) ++ esc(b)
      OBVIOUS
    <2>1. PICK c \in Byte, r \in Text : s = <<c>> ++ r /\ Len(s) = Len(r) + 1
      <3>1. s # <<>>
        OBVIOUS
      <3> QED BY <3>1, TextFirst
    <2>2. Len(r) = n
      <3>1. Len(r) \in Nat
        BY LenProperties DEF Text
      <3> QED BY <2>1, <3>1
    <2>3. esc(r ++ b) = esc(r) ++ esc(b)
      BY <2>2
    <2>4. <<c>> \in Text /\ byte(c) \in Text /\ r ++ b \in Text /\ esc(r) \in Text /\ esc(b) \in Text
      BY SmallTexts, ByteText, CatText, EscSteps
    <2>5. s ++ b = <<c>> ++ (r ++ b)
      BY <2>1, <2>4, CatAssoc
    <2>6. esc(s ++ b) = byte(c) ++ (esc(r) ++ esc(b))
      BY <2>3, <2>4, <2>5, EscSteps
    <2>7. esc(s) = byte(c) ++ esc(r)
      BY <2>1, EscSteps
    <2> QED BY <2>4, <2>6, <2>7, CatAssoc
  <1>3. Good = Nat
    BY <1>1, <1>2, AllNumbers
  <1>4. Len(a) \in Nat
    BY LenProperties DEF Text
  <1> QED BY <1>3, <1>4

\* What an escaped text begins with, unless it is empty, is no stop.
LEMMA EscBegins ==
  ASSUME NEW s \in Text, s # <<>>, NEW y \in Text
  PROVE  esc(s) ++ y # <<>> /\ (esc(s) ++ y)[1] \notin Stops
  <1>1. PICK c \in Byte, r \in Text : s = <<c>> ++ r
    BY TextFirst
  <1>2. byte(c) \in Text /\ esc(r) \in Text /\ esc(r) ++ y \in Text
    BY ByteText, EscSteps, CatText
  <1>3. esc(s) ++ y = byte(c) ++ (esc(r) ++ y)
    BY <1>1, <1>2, CatAssoc, EscSteps
  <1> QED BY <1>2, <1>3, ByteText, CatFirst, CatNone

\* If what follows the escaped b ends it, an escaped a that fits there is of
\* a prefix of b.
LEMMA EscSplit ==
  ASSUME NEW a \in Text, NEW b \in Text, NEW z \in Text, NEW y \in Text,
         esc(a) ++ z = esc(b) ++ y, Ended(y)
  PROVE  \E r \in Text : b = a ++ r /\ z = esc(r) ++ y
  <1> DEFINE Fits(s, t) == esc(s) ++ z = esc(t) ++ y
             Splits(s, t) == \E r \in Text : t = s ++ r /\ z = esc(r) ++ y
             Good == {n \in Nat : \A s, t \in Text : Len(s) = n /\ Fits(s, t) => Splits(s, t)}
  <1>1. 0 \in Good
    <2> SUFFICES ASSUME NEW s \in Text, NEW t \in Text, Len(s) = 0, Fits(s, t) PROVE Splits(s, t)
      OBVIOUS
    <2>1. s = <<>>
      BY EmptySeq DEF Text
    <2>2. z = esc(t) ++ y /\ t = s ++ t
      BY <2>1, CatEmpty, EscSteps
    <2> QED BY <2>2
  <1>2. ASSUME NEW n \in Good PROVE n + 1 \in Good
    <2> SUFFICES ASSUME NEW s \in Text, NEW t \in Text, Len(s) = n + 1, Fits(s, t) PROVE Splits(s, t)
      OBVIOUS
    <2>1. s # <<>>
      OBVIOUS
    <2>2. PICK c \in Byte, u \in Text : s = <<c>> ++ u /\ Len(s) = Len(u) + 1
      BY <2>1, TextFirst
    <2>3. Len(u) = n
      <3>1. Len(u) \in Nat
        BY LenProperties DEF Text
      <3> QED BY <2>2, <3>1
    <2>4. t # <<>>
      <3>1. esc(s) ++ z # <<>> /\ (esc(s) ++ z)[1] \notin Stops
        BY <2>1, EscBegins
      <3>2. CASE t = <<>>
        BY <3>1, <3>2, EscSteps, CatEmpty DEF Ended
      <3> QED BY <3>2
    <2>5. PICK d \in Byte, v \in Text : t = <<d>> ++ v
      BY <2>4, TextFirst
    <2>6. /\ byte(c) \in Text /\ byte(d) \in Text /\ esc(u) \in Text /\ esc(v) \in Text
          /\ esc(u) ++ z \in Text /\ esc(v) ++ y \in Text
      BY ByteText, EscSteps, CatText
    <2>7. byte(c) ++ (esc(u) ++ z) = byte(d) ++ (esc(v) ++ y)
      <3>1. esc(s) = byte(c) ++ esc(u) /\ esc(t) = byte(d) ++ esc(v)
        BY <2>2, <2>5, EscSteps
      <3>2. /\ (byte(c) ++ esc(u)) ++ z = byte(c) ++ (esc(u) ++ z)
            /\ (byte(d) ++ esc(v)) ++ y = byte(d) ++ (esc(v) ++ y)
        BY <2>6, CatAssoc
      <3> QED BY <3>1, <3>2
    <2>8. c = d /\ Fits(u, v)
      BY <2>6, <2>7, ByteParse
    <2>9. PICK r \in Text : v = u ++ r /\ z = esc(r) ++ y
      BY <2>3, <2>8
    <2>10. t = s ++ r
      BY <2>2, <2>5, <2>8, <2>9, SmallTexts, CatAssoc
    <2> QED BY <2>9, <2>10
  <1>3. Good = Nat
    BY <1>1, <1>2, AllNumbers
  <1>4. Len(a) \in Nat
    BY LenProperties DEF Text
  <1>5. Fits(a, b)
    OBVIOUS
  <1> QED BY <1>3, <1>4, <1>5

\* Escaped texts that both end there are the same text.
LEMMA EscParse ==
  ASSUME NEW a \in Text, NEW b \in Text, NEW z \in Text, NEW y \in Text,
         esc(a) ++ z = esc(b) ++ y, Ended(z), Ended(y)
  PROVE  a = b /\ z = y
  <1>1. PICK r \in Text : b = a ++ r /\ z = esc(r) ++ y
    BY EscSplit
  <1>2. r = <<>>
    BY <1>1, EscBegins DEF Ended
  <1> QED BY <1>1, <1>2, CatEmpty, EscSteps

-----------------------------------------------------------------------------
(* Names.                                                                  *)

\* Some of the first n numbers have a first and a last among them.
LEMMA MinAndMax ==
  ASSUME NEW n \in Nat, NEW S \in SUBSET (1 .. n), S # {}
  PROVE  /\ Min(S) \in S /\ \A y \in S : Min(S) <= y
         /\ Max(S) \in S /\ \A y \in S : y <= Max(S)
  <1> DEFINE Ends(T) == /\ \E x \in T : \A y \in T : x <= y
                        /\ \E x \in T : \A y \in T : y <= x
             Good == {k \in Nat : \A T \in SUBSET (1 .. k) : T # {} => Ends(T)}
  <1>1. 0 \in Good
    <2>1. \A T \in SUBSET (1 .. 0) : T = {}
      OBVIOUS
    <2> QED BY <2>1
  <1>2. ASSUME NEW k \in Good PROVE k + 1 \in Good
    <2> SUFFICES ASSUME NEW T \in SUBSET (1 .. k + 1), T # {} PROVE Ends(T)
      OBVIOUS
    <2>1. CASE T \ {k + 1} = {}
      <3>1. \A x \in T : x = k + 1
        BY <2>1
      <3> QED BY <3>1
    <2>2. CASE T \ {k + 1} # {}
      <3>1. T \ {k + 1} \in SUBSET (1 .. k)
        OBVIOUS
      <3>2. PICK x \in T \ {k + 1}, w \in T \ {k + 1} :
               /\ \A y \in T \ {k + 1} : x <= y
               /\ \A y \in T \ {k + 1} : y <= w
        BY <2>2, <3>1
      <3>3. \A y \in T : x <= y
        BY <3>1, <3>2
      <3>4. IF k + 1 \in T THEN \A y \in T : y <= k + 1 ELSE \A y \in T : y <= w
        BY <3>2
      <3> QED BY <3>2, <3>3, <3>4
    <2> QED BY <2>1, <2>2
  <1>3. Good = Nat
    BY <1>1, <1>2, AllNumbers
  <1>4. Ends(S)
    BY <1>3
  <1> QED BY <1>4 DEF Min, Max

\* A normalized text is a text.
LEMMA NormalText ==
  ASSUME NEW s \in Text
  PROVE  normalize(s) \in Text
  <1> DEFINE solid == {j \in DOMAIN s : ~Blank(s[j])}
             cut   == IF solid = {} THEN <<>> ELSE SubSeq(s, Min(solid), Max(solid))
  <1>1. Len(s) \in Nat /\ DOMAIN s = 1 .. Len(s)
    BY LenProperties DEF Text
  <1>2. cut \in Text
    <2>1. CASE solid = {}
      BY <2>1, SmallTexts
    <2>2. CASE solid # {}
      <3>1. Min(solid) \in 1 .. Len(s) /\ Max(solid) \in 1 .. Len(s)
        <4>1. solid \in SUBSET (1 .. Len(s))
          BY <1>1
        <4> HIDE DEF solid
        <4>2. Min(solid) \in solid /\ Max(solid) \in solid
          BY <1>1, <2>2, <4>1, MinAndMax
        <4> QED BY <4>1, <4>2
      <3> HIDE DEF solid
      <3> DEFINE m == Min(solid)  k == Max(solid)
      <3>2. m \in Int /\ k \in Int /\ \A i \in m .. k : i \in 1 .. Len(s)
        BY <1>1, <3>1
      <3>3. \A i \in m .. k : s[i] \in 0 .. 127
        BY <3>2, ElementOfSeq DEF Text
      <3> HIDE DEF m, k
      <3>4. SubSeq(s, m, k) \in Text
        BY <3>2, <3>3, SubSeqProperties DEF Text
      <3> QED BY <2>2, <3>4 DEF m, k
    <2> QED BY <2>1, <2>2
  <1>3. normalize(s) = [j \in DOMAIN cut |-> IF Upper(cut[j]) THEN cut[j] + 32 ELSE cut[j]]
    BY DEF normalize
  <1> HIDE DEF cut
  <1>4. Len(cut) \in Nat /\ DOMAIN cut = 1 .. Len(cut) /\ \A j \in 1 .. Len(cut) : cut[j] \in 0 .. 127
    BY <1>2, LenProperties, ElementOfSeq DEF Text
  <1>5. \A j \in 1 .. Len(cut) : (IF Upper(cut[j]) THEN cut[j] + 32 ELSE cut[j]) \in 0 .. 127
    <2> SUFFICES ASSUME NEW c \in 0 .. 127
                 PROVE  (IF Upper(c) THEN c + 32 ELSE c) \in 0 .. 127
      BY <1>4
    <2> QED BY DEF Upper
  <1> QED BY <1>3, <1>4, <1>5 DEF Text

\* A segment of a key: a text as it is compared, escaped, and a colon.
Word(s) == esc(normalize(s)) ++ <<Colon>>

\* A segment is a text that can be read back.
LEMMA WordParse ==
  /\ \A s \in Text : Word(s) \in Text /\ Word(s) # <<>>
  /\ \A a, b, z, y \in Text : Word(a) ++ z = Word(b) ++ y => normalize(a) = normalize(b) /\ z = y
  <1>1. <<Colon>> \in Text /\ <<Colon>> # <<>> /\ <<Colon>>[1] \in Stops
    BY SmallTexts DEF Colon, Byte, Stops
  <1>2. ASSUME NEW s \in Text PROVE Word(s) \in Text /\ Word(s) # <<>>
    BY <1>1, NormalText, EscSteps, CatText, CatNone DEF Word
  <1>3. ASSUME NEW z \in Text PROVE <<Colon>> ++ z \in Text /\ Ended(<<Colon>> ++ z)
    BY <1>1, CatText, CatFirst DEF Ended
  <1>4. ASSUME NEW a \in Text, NEW b \in Text, NEW z \in Text, NEW y \in Text, Word(a) ++ z = Word(b) ++ y
        PROVE  normalize(a) = normalize(b) /\ z = y
    <2>1. normalize(a) \in Text /\ normalize(b) \in Text
      BY NormalText
    <2>2. esc(normalize(a)) ++ (<<Colon>> ++ z) = esc(normalize(b)) ++ (<<Colon>> ++ y)
      BY <1>1, <1>4, <2>1, EscSteps, CatAssoc DEF Word
    <2>3. normalize(a) = normalize(b) /\ <<Colon>> ++ z = <<Colon>> ++ y
      BY <1>3, <2>1, <2>2, EscParse
    <2> QED BY <1>1, <2>3, CatCancel
  <1> QED BY <1>2, <1>4

\* Space is three segments.
LEMMA SpaceWords ==
  ASSUME NEW n \in Text \X Text \X Text
  PROVE  Space(n) = Word(n[1]) ++ (Word(n[2]) ++ Word(n[3]))
  <1>1. n[1] \in Text /\ n[2] \in Text /\ n[3] \in Text
    OBVIOUS
  <1>2. \A s \in Text : Append(esc(normalize(s)), Colon) = Word(s)
    <2>1. Colon \in 0 .. 127
      BY DEF Colon
    <2>2. \A s \in Seq(0 .. 127) : Append(s, Colon) = s \o <<Colon>>
      BY <2>1, AppendIsConcat
    <2> QED BY <2>2, NormalText, EscSteps DEF Word, ++, Text
  <1>3. Word(n[1]) \in Text /\ Word(n[2]) \in Text /\ Word(n[3]) \in Text
    BY <1>1, WordParse
  <1> DEFINE a == Word(n[1])  b == Word(n[2])  c == Word(n[3])
  <1>4. [j \in 1 .. 3 |-> Append(esc(normalize(n[j])), Colon)] = <<a, b, c>>
    BY <1>1, <1>2
  <1> HIDE DEF a, b, c
  <1>5. <<a, b, c>> = <<a>> \o <<b, c>> /\ <<b, c>> = <<b>> \o <<c>> /\ <<c>> = <<c>> \o <<>>
    <2>1. Tail(<<a, b, c>>) = <<b, c>> /\ Tail(<<b, c>>) = <<c>> /\ Tail(<<c>>) = <<>>
      OBVIOUS
    <2>2. /\ <<a, b, c>> \in Seq(Text) /\ <<b, c>> \in Seq(Text) /\ <<c>> \in Seq(Text)
          /\ <<a, b, c>> # <<>> /\ <<b, c>> # <<>> /\ <<c>> # <<>>
          /\ <<a, b, c>>[1] = a /\ <<b, c>>[1] = b /\ <<c>>[1] = c
      BY <1>3 DEF a, b, c
    <2> QED BY <2>1, <2>2, FirstThenTail
  <1>6. FlattenSeq(<<a, b, c>>) = a ++ (b ++ (c ++ <<>>))
    <2>1. a \in Text /\ b \in Text /\ c \in Text
      BY <1>3 DEF a, b, c
    <2>2. <<b, c>> \in Seq(Text) /\ <<c>> \in Seq(Text) /\ <<>> \in Seq(Text)
      BY <2>1
    <2>3. FlattenSeq(<<c>>) = c ++ <<>>
      BY <1>5, <2>1, <2>2, FlattenFirst, FlattenNone
    <2>4. FlattenSeq(<<b, c>>) = b ++ (c ++ <<>>)
      BY <1>5, <2>1, <2>2, <2>3, FlattenFirst
    <2> QED BY <1>5, <2>1, <2>2, <2>4, FlattenFirst
  <1> QED BY <1>3, <1>4, <1>6, CatEmpty DEF Space, a, b, c

\* A space is a text that can be read back.
LEMMA SpaceParse ==
  /\ \A n \in Text \X Text \X Text : Space(n) \in Text
  /\ \A n, m \in Text \X Text \X Text : \A z, y \in Text :
        Space(n) ++ z = Space(m) ++ y => NormalName(n) = NormalName(m) /\ z = y
  <1>1. ASSUME NEW n \in Text \X Text \X Text
        PROVE  /\ n[1] \in Text /\ n[2] \in Text /\ n[3] \in Text
               /\ Word(n[1]) \in Text /\ Word(n[2]) \in Text /\ Word(n[3]) \in Text
    BY WordParse
  <1>2. ASSUME NEW n \in Text \X Text \X Text PROVE Space(n) \in Text
    BY <1>1, SpaceWords, CatText
  <1>3. ASSUME NEW n \in Text \X Text \X Text, NEW z \in Text
        PROVE  Space(n) ++ z = Word(n[1]) ++ (Word(n[2]) ++ (Word(n[3]) ++ z))
    BY <1>1, SpaceWords, CatText, CatAssoc
  <1>4. ASSUME NEW n \in Text \X Text \X Text, NEW m \in Text \X Text \X Text,
               NEW z \in Text, NEW y \in Text, Space(n) ++ z = Space(m) ++ y
        PROVE  NormalName(n) = NormalName(m) /\ z = y
    <2>1. Word(n[1]) ++ (Word(n[2]) ++ (Word(n[3]) ++ z)) = Word(m[1]) ++ (Word(m[2]) ++ (Word(m[3]) ++ y))
      BY <1>3, <1>4
    <2>2. /\ normalize(n[1]) = normalize(m[1])
          /\ Word(n[2]) ++ (Word(n[3]) ++ z) = Word(m[2]) ++ (Word(m[3]) ++ y)
      BY <1>1, <2>1, WordParse, CatText
    <2>3. normalize(n[2]) = normalize(m[2]) /\ Word(n[3]) ++ z = Word(m[3]) ++ y
      BY <1>1, <2>2, WordParse, CatText
    <2>4. normalize(n[3]) = normalize(m[3]) /\ z = y
      BY <1>1, <2>3, WordParse
    <2> QED BY <2>2, <2>3, <2>4 DEF NormalName
  <1> QED BY <1>2, <1>4

-----------------------------------------------------------------------------
(* Parts.                                                                  *)

Part == [Field : Text, Value : Text]

\* Field and value as compared, escaped, and what follows them.
Item(e) == esc(e.Field) ++ (<<Equals>> ++ esc(e.Value))
Chunk(e, w) == <<Colon>> ++ (esc(e.Field) ++ (<<Equals>> ++ (esc(e.Value) ++ w)))

\* The parts q in a key, with a colon before each of them.
Row(q) == FlattenSeq([j \in DOMAIN q |-> <<Colon>> ++ Item(q[j])])

\* z is what may follow the parts of a key: nothing, or the mark of the id.
After(z) == z = <<>> \/ z[1] = 35

\* The marks.
LEMMA Marks ==
  /\ <<Colon>> \in Text /\ <<Colon>> # <<>> /\ <<Colon>>[1] = Colon
  /\ <<Equals>> \in Text /\ <<Equals>> # <<>> /\ <<Equals>>[1] = Equals
  /\ Colon \in Stops /\ Equals \in Stops /\ 35 \in Stops /\ Colon # 35 /\ Equals # 35
  <1>1. Colon \in Byte /\ Equals \in Byte
    BY DEF Colon, Equals, Byte
  <1> QED BY <1>1, SmallTexts DEF Colon, Equals, Stops

\* The tail of a sequence.
LEMMA TailIs ==
  ASSUME NEW S, NEW s \in Seq(S), s # <<>>
  PROVE  /\ s[1] \in S /\ Tail(s) \in Seq(S)
         /\ Len(s) \in Nat /\ Len(s) >= 1 /\ Len(Tail(s)) \in Nat /\ Len(Tail(s)) = Len(s) - 1
         /\ DOMAIN s = 1 .. Len(s) /\ DOMAIN Tail(s) = 1 .. Len(Tail(s))
         /\ \A i \in 1 .. Len(Tail(s)) : Tail(s)[i] = s[i + 1]
         /\ Tail(s) = <<>> <=> Len(s) = 1
  <1>1. Len(s) \in Nat \ {0} /\ DOMAIN s = 1 .. Len(s) /\ s[1] \in S
    BY EmptySeq, LenProperties, ElementOfSeq
  <1>2. /\ Tail(s) \in Seq(S) /\ Len(Tail(s)) = Len(s) - 1
        /\ \A i \in 1 .. Len(Tail(s)) : Tail(s)[i] = s[i + 1]
    BY HeadTailProperties
  <1>3. Len(Tail(s)) \in Nat /\ DOMAIN Tail(s) = 1 .. Len(Tail(s))
    BY <1>2, LenProperties
  <1>4. Tail(s) = <<>> <=> Len(Tail(s)) = 0
    <2>1. \A t \in Seq(S) : t = <<>> <=> Len(t) = 0
      BY EmptySeq
    <2> QED BY <1>2, <2>1, Zenon
  <1> QED BY <1>1, <1>2, <1>3, <1>4

\* Sequences that begin alike and go on alike are alike.
LEMMA SameTails ==
  ASSUME NEW S, NEW s \in Seq(S), NEW t \in Seq(S), s # <<>>, t # <<>>, s[1] = t[1], Tail(s) = Tail(t)
  PROVE  s = t
  BY FirstThenTail

\* A part with what follows is a text.
LEMMA ItemText ==
  ASSUME NEW e \in Part
  PROVE  /\ e.Field \in Text /\ e.Value \in Text
         /\ esc(e.Field) \in Text /\ esc(e.Value) \in Text
         /\ Item(e) \in Text /\ <<Colon>> ++ Item(e) \in Text
         /\ \A w \in Text : Chunk(e, w) \in Text /\ Chunk(e, w) = (<<Colon>> ++ Item(e)) ++ w
  <1>1. e.Field \in Text /\ e.Value \in Text
    BY DEF Part
  <1>2. esc(e.Field) \in Text /\ esc(e.Value) \in Text
    BY <1>1, EscSteps
  <1>3. <<Equals>> ++ esc(e.Value) \in Text /\ Item(e) \in Text /\ <<Colon>> ++ Item(e) \in Text
    BY <1>2, Marks, CatText DEF Item
  <1>4. ASSUME NEW w \in Text
        PROVE  Chunk(e, w) \in Text /\ Chunk(e, w) = (<<Colon>> ++ Item(e)) ++ w
    <2>1. (<<Equals>> ++ esc(e.Value)) ++ w = <<Equals>> ++ (esc(e.Value) ++ w)
      BY <1>2, Marks, CatAssoc
    <2>2. Item(e) ++ w = esc(e.Field) ++ (<<Equals>> ++ (esc(e.Value) ++ w))
      BY <1>2, <1>3, <2>1, CatAssoc DEF Item
    <2>3. (<<Colon>> ++ Item(e)) ++ w = Chunk(e, w)
      BY <1>3, <2>2, Marks, CatAssoc DEF Chunk
    <2> QED BY <1>3, <2>3, CatText
  <1> QED BY <1>1, <1>2, <1>3, <1>4

\* The parts of a key are written one after the other.
LEMMA RowSteps ==
  /\ Row(<<>>) = <<>>
  /\ \A q \in Seq(Part) : Row(q) \in Text
  /\ \A q \in Seq(Part), z \in Text : q # <<>> => Row(q) ++ z = Chunk(q[1], Row(Tail(q)) ++ z)
  <1> DEFINE each(q) == [j \in DOMAIN q |-> <<Colon>> ++ Item(q[j])]
  <1>1. Row(<<>>) = <<>>
    BY FlattenNone DEF Row
  <1>2. ASSUME NEW q \in Seq(Part)
        PROVE  each(q) \in Seq(Text) /\ Len(each(q)) = Len(q)
    <2>1. Len(q) \in Nat /\ DOMAIN q = 1 .. Len(q)
      BY LenProperties
    <2>2. \A j \in 1 .. Len(q) : <<Colon>> ++ Item(q[j]) \in Text
      BY ElementOfSeq, ItemText
    <2> QED BY <2>1, <2>2
  <1>3. ASSUME NEW q \in Seq(Part) PROVE Row(q) \in Text
    BY <1>2, FlattenText DEF Row
  <1>4. ASSUME NEW q \in Seq(Part), NEW z \in Text, q # <<>>
        PROVE  Row(q) ++ z = Chunk(q[1], Row(Tail(q)) ++ z)
    <2>1. /\ q[1] \in Part /\ Tail(q) \in Seq(Part) /\ Len(q) \in Nat /\ Len(q) >= 1
          /\ Len(Tail(q)) \in Nat /\ Len(Tail(q)) = Len(q) - 1
          /\ DOMAIN q = 1 .. Len(q) /\ DOMAIN Tail(q) = 1 .. Len(Tail(q))
          /\ \A i \in 1 .. Len(Tail(q)) : Tail(q)[i] = q[i + 1]
      BY <1>4, TailIs
    <2>2. /\ each(q) \in Seq(Text) /\ Len(each(q)) = Len(q) /\ each(q) # <<>>
          /\ each(Tail(q)) \in Seq(Text) /\ Len(each(Tail(q))) = Len(q) - 1
      <3> HIDE DEF each
      <3>1. /\ each(q) \in Seq(Text) /\ Len(each(q)) = Len(q)
            /\ each(Tail(q)) \in Seq(Text) /\ Len(each(Tail(q))) = Len(q) - 1
        BY <1>2, <2>1
      <3>2. each(q) # <<>>
        BY <2>1, <3>1
      <3> QED BY <3>1, <3>2
    <2>3. /\ Tail(each(q)) \in Seq(Text) /\ Len(Tail(each(q))) = Len(q) - 1
          /\ \A i \in 1 .. Len(q) - 1 : Tail(each(q))[i] = each(q)[i + 1]
      BY <2>2, TailIs
    <2>4. ASSUME NEW i \in 1 .. Len(q) - 1 PROVE each(q)[i + 1] = each(Tail(q))[i]
      <3>1. i + 1 \in DOMAIN q /\ i \in DOMAIN Tail(q) /\ Tail(q)[i] = q[i + 1]
        BY <2>1
      <3> QED BY <3>1
    <2>5. Tail(each(q)) = each(Tail(q))
      <3> HIDE DEF each
      <3> QED BY <2>2, <2>3, <2>4, SeqEqual
    <2>6. each(q)[1] = <<Colon>> ++ Item(q[1])
      BY <2>1
    <2>7. Row(q) = (<<Colon>> ++ Item(q[1])) ++ Row(Tail(q))
      <3>1. <<Colon>> ++ Item(q[1]) \in Text
        BY <2>1, ItemText
      <3>2. each(q) = <<each(q)[1]>> \o Tail(each(q))
        <4> HIDE DEF each
        <4> QED BY <2>2, FirstThenTail
      <3>3. each(q) = <<<<Colon>> ++ Item(q[1])>> \o each(Tail(q))
        <4> HIDE DEF each
        <4> QED BY <2>5, <2>6, <3>2
      <3>4. FlattenSeq(each(q)) = (<<Colon>> ++ Item(q[1])) ++ FlattenSeq(each(Tail(q)))
        <4> HIDE DEF each
        <4> QED BY <2>2, <3>1, <3>3, FlattenFirst
      <3> QED BY <3>4 DEF Row
    <2>8. Row(Tail(q)) \in Text /\ Row(Tail(q)) ++ z \in Text
      BY <1>3, <2>1, CatText
    <2>9. (<<Colon>> ++ Item(q[1])) \in Text
      BY <2>1, ItemText
    <2>10. Row(q) ++ z = (<<Colon>> ++ Item(q[1])) ++ (Row(Tail(q)) ++ z)
      BY <2>7, <2>8, <2>9, CatAssoc
    <2> QED BY <2>1, <2>8, <2>10, ItemText
  <1> QED BY <1>1, <1>3, <1>4

\* The parts q lead to the parts p: they are its first, but for the last
\* value, which need only begin as given.
Leads(q, p) ==
    /\ Len(q) <= Len(p)
    /\ \A j \in DOMAIN q :
          /\ q[j].Field = p[j].Field
          /\ IF j < Len(q) THEN q[j].Value = p[j].Value
             ELSE IsPrefix(q[j].Value, p[j].Value)

\* No parts lead everywhere, some nowhere but to some.
LEMMA LeadsNone ==
  ASSUME NEW q \in Seq(Part), NEW p \in Seq(Part)
  PROVE  /\ q = <<>> => Leads(q, p)
         /\ q # <<>> /\ p = <<>> => ~Leads(q, p)
  <1>1. Len(q) \in Nat /\ Len(p) \in Nat /\ DOMAIN q = 1 .. Len(q) /\ (q # <<>> => Len(q) # 0)
    BY LenProperties, EmptySeq
  <1> QED BY <1>1 DEF Leads

\* Parts lead to others by the first of them and then by the rest.
LEMMA LeadsSteps ==
  ASSUME NEW q \in Seq(Part), NEW p \in Seq(Part), q # <<>>, p # <<>>
  PROVE  Leads(q, p) <=>
            /\ q[1].Field = p[1].Field
            /\ IF Tail(q) = <<>> THEN IsPrefix(q[1].Value, p[1].Value)
               ELSE q[1].Value = p[1].Value /\ Leads(Tail(q), Tail(p))
  <1>1. /\ Tail(q) \in Seq(Part) /\ Len(q) \in Nat /\ Len(q) >= 1
        /\ Len(Tail(q)) \in Nat /\ Len(Tail(q)) = Len(q) - 1
        /\ DOMAIN q = 1 .. Len(q) /\ DOMAIN Tail(q) = 1 .. Len(Tail(q))
        /\ \A i \in 1 .. Len(Tail(q)) : Tail(q)[i] = q[i + 1]
    BY TailIs
  <1>2. /\ Len(p) \in Nat /\ Len(p) >= 1
        /\ Len(Tail(p)) \in Nat /\ Len(Tail(p)) = Len(p) - 1
        /\ \A i \in 1 .. Len(Tail(p)) : Tail(p)[i] = p[i + 1]
    BY TailIs
  <1>3. Tail(q) = <<>> <=> Len(q) = 1
    BY TailIs
  <1> DEFINE Agree(j) == /\ q[j].Field = p[j].Field
                         /\ IF j < Len(q) THEN q[j].Value = p[j].Value
                            ELSE IsPrefix(q[j].Value, p[j].Value)
  <1>4. Leads(q, p) <=> Len(q) <= Len(p) /\ \A j \in 1 .. Len(q) : Agree(j)
    BY <1>1 DEF Leads
  <1>5. CASE Tail(q) = <<>>
    <2>1. Len(q) = 1 /\ 1 .. Len(q) = {1}
      BY <1>3, <1>5
    <2>2. Agree(1) <=> q[1].Field = p[1].Field /\ IsPrefix(q[1].Value, p[1].Value)
      BY <2>1
    <2> HIDE DEF Agree
    <2> QED BY <1>2, <1>4, <1>5, <2>1, <2>2
  <1>6. CASE Tail(q) # <<>>
    <2>1. Len(q) >= 2
      BY <1>1, <1>3, <1>6
    <2>2. Agree(1) <=> q[1].Field = p[1].Field /\ q[1].Value = p[1].Value
      BY <2>1
    <2>3. Leads(Tail(q), Tail(p)) <=> Len(q) <= Len(p) /\ \A i \in 1 .. Len(q) - 1 : Agree(i + 1)
      <3>1. CASE Len(q) <= Len(p)
        <4>1. ASSUME NEW i \in 1 .. Len(q) - 1
              PROVE  Agree(i + 1) <=> /\ Tail(q)[i].Field = Tail(p)[i].Field
                                      /\ IF i < Len(Tail(q)) THEN Tail(q)[i].Value = Tail(p)[i].Value
                                         ELSE IsPrefix(Tail(q)[i].Value, Tail(p)[i].Value)
          <5>1. /\ Tail(q)[i] = q[i + 1] /\ Tail(p)[i] = p[i + 1]
                /\ i < Len(Tail(q)) <=> i + 1 < Len(q)
            BY <1>1, <1>2, <3>1
          <5> QED BY <5>1
        <4>2. Leads(Tail(q), Tail(p)) <=>
                 /\ Len(Tail(q)) <= Len(Tail(p))
                 /\ \A i \in 1 .. Len(Tail(q)) :
                       /\ Tail(q)[i].Field = Tail(p)[i].Field
                       /\ IF i < Len(Tail(q)) THEN Tail(q)[i].Value = Tail(p)[i].Value
                          ELSE IsPrefix(Tail(q)[i].Value, Tail(p)[i].Value)
          BY <1>1 DEF Leads
        <4>3. Len(Tail(q)) <= Len(Tail(p)) /\ 1 .. Len(Tail(q)) = 1 .. Len(q) - 1
          BY <1>1, <1>2, <3>1
        <4> HIDE DEF Agree
        <4> QED BY <3>1, <4>1, <4>2, <4>3
      <3>2. CASE ~(Len(q) <= Len(p))
        BY <1>1, <1>2, <3>2 DEF Leads
      <3> QED BY <3>1, <3>2
    <2>4. (\A j \in 1 .. Len(q) : Agree(j)) <=> Agree(1) /\ \A i \in 1 .. Len(q) - 1 : Agree(i + 1)
      <3> HIDE DEF Agree
      <3>1. \A j \in 1 .. Len(q) : j = 1 \/ (j - 1 \in 1 .. Len(q) - 1 /\ (j - 1) + 1 = j)
        BY <1>1
      <3>2. 1 \in 1 .. Len(q) /\ \A i \in 1 .. Len(q) - 1 : i + 1 \in 1 .. Len(q)
        BY <1>1
      <3> QED BY <3>1, <3>2
    <2> HIDE DEF Agree
    <2> QED BY <1>4, <1>6, <2>2, <2>3, <2>4
  <1> QED BY <1>5, <1>6

\* What follows a field or a value in a key ends it.
LEMMA RowEnds ==
  ASSUME NEW q \in Seq(Part), NEW z \in Text
  PROVE  /\ Row(q) ++ z \in Text
         /\ q = <<>> => Row(q) ++ z = z
         /\ q # <<>> => Row(q) ++ z # <<>> /\ (Row(q) ++ z)[1] = Colon
         /\ q # <<>> \/ After(z) => Ended(Row(q) ++ z)
         /\ q # <<>> => ~After(Row(q) ++ z)
  <1>1. Row(q) ++ z \in Text
    BY RowSteps, CatText
  <1>2. CASE q = <<>>
    BY <1>1, <1>2, RowSteps, CatEmpty, Marks DEF After, Ended
  <1>3. CASE q # <<>>
    <2>1. q[1] \in Part /\ Tail(q) \in Seq(Part)
      BY <1>3, TailIs
    <2>2. Row(Tail(q)) ++ z \in Text
      BY <2>1, RowSteps, CatText
    <2>3. Row(q) ++ z = (<<Colon>> ++ Item(q[1])) ++ (Row(Tail(q)) ++ z)
      BY <1>3, <2>1, <2>2, RowSteps, ItemText
    <2>4. Row(q) ++ z = <<Colon>> ++ (Item(q[1]) ++ (Row(Tail(q)) ++ z))
      BY <2>1, <2>2, <2>3, ItemText, Marks, CatAssoc
    <2>5. Item(q[1]) ++ (Row(Tail(q)) ++ z) \in Text
      BY <2>1, <2>2, ItemText, CatText
    <2>6. Row(q) ++ z # <<>> /\ (Row(q) ++ z)[1] = Colon
      BY <2>4, <2>5, Marks, CatFirst, CatNone
    <2> QED BY <1>1, <1>3, <2>6, Marks DEF After, Ended
  <1> QED BY <1>2, <1>3

\* One part is read back; what is left of its value leads on.
LEMMA ChunkSplit ==
  ASSUME NEW e \in Part, NEW f \in Part, NEW z \in Text, NEW y \in Text,
         Chunk(e, z) = Chunk(f, y), Ended(y)
  PROVE  /\ e.Field = f.Field
         /\ \E r \in Text : f.Value = e.Value ++ r /\ z = esc(r) ++ y
         /\ Ended(z) => e = f /\ z = y
  <1> DEFINE u == <<Equals>> ++ (esc(e.Value) ++ z)  v == <<Equals>> ++ (esc(f.Value) ++ y)
  <1>1. /\ e.Field \in Text /\ f.Field \in Text /\ e.Value \in Text /\ f.Value \in Text
        /\ esc(e.Field) \in Text /\ esc(f.Field) \in Text
        /\ esc(e.Value) ++ z \in Text /\ esc(f.Value) ++ y \in Text
    BY ItemText, CatText
  <1>2. u \in Text /\ v \in Text /\ Ended(u) /\ Ended(v)
    BY <1>1, Marks, CatText, CatFirst DEF Ended
  <1>3. esc(e.Field) ++ u = esc(f.Field) ++ v
    <2>1. esc(e.Field) ++ u \in Text /\ esc(f.Field) ++ v \in Text
      BY <1>1, <1>2, CatText
    <2>2. <<Colon>> ++ (esc(e.Field) ++ u) = <<Colon>> ++ (esc(f.Field) ++ v)
      BY DEF Chunk
    <2> HIDE DEF u, v
    <2> QED BY <2>1, <2>2, Marks, CatCancel
  <1>4. e.Field = f.Field /\ u = v
    <2> HIDE DEF u, v
    <2> QED BY <1>1, <1>2, <1>3, EscParse
  <1>5. esc(e.Value) ++ z = esc(f.Value) ++ y
    BY <1>1, <1>4, Marks, CatCancel
  <1>6. \E r \in Text : f.Value = e.Value ++ r /\ z = esc(r) ++ y
    <2> DEFINE a == e.Value  b == f.Value
    <2>1. a \in Text /\ b \in Text /\ esc(a) ++ z = esc(b) ++ y
      BY <1>1, <1>5
    <2> HIDE DEF a, b
    <2>2. \E r \in Text : b = a ++ r /\ z = esc(r) ++ y
      BY <2>1, EscSplit
    <2> QED BY <2>2 DEF a, b
  <1>7. ASSUME Ended(z) PROVE e = f /\ z = y
    <2>1. e.Value = f.Value /\ z = y
      BY <1>1, <1>5, <1>7, EscParse
    <2> QED BY <1>4, <2>1 DEF Part
  <1> QED BY <1>4, <1>6, <1>7

\* A row of parts at the beginning of another leads to it, and is all of it
\* if nothing else of a row follows.
LEMMA RowSplit ==
  ASSUME NEW q \in Seq(Part), NEW p \in Seq(Part), NEW z \in Text, NEW y \in Text,
         Row(q) ++ z = Row(p) ++ y, After(y)
  PROVE  Leads(q, p) /\ (After(z) => q = p /\ z = y)
  <1> DEFINE Fits(s, t) == Row(s) ++ z = Row(t) ++ y
             Splits(s, t) == Leads(s, t) /\ (After(z) => s = t /\ z = y)
             Good == {n \in Nat : \A s, t \in Seq(Part) : Len(s) = n /\ Fits(s, t) => Splits(s, t)}
  <1>1. 0 \in Good
    <2> SUFFICES ASSUME NEW s \in Seq(Part), NEW t \in Seq(Part), Len(s) = 0, Fits(s, t)
                 PROVE  Splits(s, t)
      OBVIOUS
    <2>1. s = <<>>
      BY EmptySeq
    <2>2. z = Row(t) ++ y
      BY <2>1, RowEnds
    <2>3. After(z) => t = <<>>
      BY <2>2, RowEnds
    <2>4. t = <<>> => z = y
      BY <2>2, RowEnds
    <2> QED BY <2>1, <2>3, <2>4, LeadsNone
  <1>2. ASSUME NEW n \in Good PROVE n + 1 \in Good
    <2> SUFFICES ASSUME NEW s \in Seq(Part), NEW t \in Seq(Part), Len(s) = n + 1, Fits(s, t)
                 PROVE  Splits(s, t)
      OBVIOUS
    <2>1. s # <<>>
      OBVIOUS
    <2>2. t # <<>>
      <3>1. ~After(Row(s) ++ z)
        BY <2>1, RowEnds
      <3> QED BY <3>1, RowEnds
    <2>3. /\ s[1] \in Part /\ Tail(s) \in Seq(Part) /\ Len(Tail(s)) = n
          /\ t[1] \in Part /\ Tail(t) \in Seq(Part)
      <3>1. Len(Tail(s)) = Len(s) - 1
        BY <2>1, TailIs
      <3> QED BY <2>1, <2>2, <3>1, TailIs
    <2> DEFINE u == Row(Tail(s)) ++ z  v == Row(Tail(t)) ++ y
    <2>4. u \in Text /\ v \in Text /\ Ended(v)
      BY <2>3, RowEnds
    <2>5. Chunk(s[1], u) = Chunk(t[1], v)
      BY <2>1, <2>2, RowSteps
    <2> HIDE DEF u, v
    <2>6. /\ s[1].Field = t[1].Field
          /\ \E r \in Text : t[1].Value = s[1].Value ++ r
          /\ Ended(u) => s[1] = t[1] /\ u = v
      BY <2>3, <2>4, <2>5, ChunkSplit
    <2>7. Ended(u) => s[1] = t[1] /\ Splits(Tail(s), Tail(t))
      <3> SUFFICES ASSUME Ended(u) PROVE s[1] = t[1] /\ Splits(Tail(s), Tail(t))
        OBVIOUS
      <3>1. s[1] = t[1] /\ Fits(Tail(s), Tail(t))
        BY <2>6 DEF u, v
      <3> HIDE DEF Fits, Splits
      <3> QED BY <2>3, <3>1
    <2>8. Leads(s, t)
      <3>1. CASE Tail(s) = <<>>
        <4>1. IsPrefix(s[1].Value, t[1].Value)
          BY <2>3, <2>6, ItemText, PrefixIsFollowed
        <4> QED BY <2>1, <2>2, <2>6, <3>1, <4>1, LeadsSteps
      <3>2. CASE Tail(s) # <<>>
        <4>1. Ended(u)
          BY <2>3, <3>2, RowEnds DEF u
        <4> QED BY <2>1, <2>2, <2>7, <3>2, <4>1, LeadsSteps
      <3> QED BY <3>1, <3>2
    <2>9. ASSUME After(z) PROVE s = t /\ z = y
      <3>1. Ended(u)
        BY <2>3, <2>9, RowEnds DEF u
      <3>2. s[1] = t[1] /\ Tail(s) = Tail(t) /\ z = y
        BY <2>7, <2>9, <3>1
      <3> QED BY <2>1, <2>2, <3>2, SameTails
    <2> QED BY <2>8, <2>9
  <1>3. Good = Nat
    BY <1>1, <1>2, AllNumbers
  <1>4. Len(q) \in Nat
    BY LenProperties
  <1>5. Fits(q, p)
    OBVIOUS
  <1> QED BY <1>3, <1>4, <1>5

\* A row of parts that leads to another is its beginning.
LEMMA RowFits ==
  ASSUME NEW q \in Seq(Part), NEW p \in Seq(Part), Leads(q, p)
  PROVE  \E z \in Text : Row(p) = Row(q) ++ z
  <1> DEFINE Fits(s, t) == \E z \in Text : Row(t) = Row(s) ++ z
             Good == {n \in Nat : \A s, t \in Seq(Part) : Len(s) = n /\ Leads(s, t) => Fits(s, t)}
  <1>1. 0 \in Good
    <2> SUFFICES ASSUME NEW s \in Seq(Part), NEW t \in Seq(Part), Len(s) = 0
                 PROVE  Fits(s, t)
      OBVIOUS
    <2>1. s = <<>>
      BY EmptySeq
    <2>2. Row(t) \in Text /\ Row(t) = Row(s) ++ Row(t)
      BY <2>1, RowSteps, CatEmpty
    <2> QED BY <2>2
  <1>2. ASSUME NEW n \in Good PROVE n + 1 \in Good
    <2> SUFFICES ASSUME NEW s \in Seq(Part), NEW t \in Seq(Part), Len(s) = n + 1, Leads(s, t)
                 PROVE  Fits(s, t)
      OBVIOUS
    <2>1. s # <<>>
      OBVIOUS
    <2>2. t # <<>>
      BY <2>1, LeadsNone
    <2>3. /\ s[1] \in Part /\ Tail(s) \in Seq(Part) /\ Len(Tail(s)) = n
          /\ t[1] \in Part /\ Tail(t) \in Seq(Part)
      <3>1. Len(Tail(s)) = Len(s) - 1
        BY <2>1, TailIs
      <3> QED BY <2>1, <2>2, <3>1, TailIs
    <2>4. \A z \in Text : Row(s) ++ z = Chunk(s[1], Row(Tail(s)) ++ z)
      BY <2>1, RowSteps
    <2>5. Row(t) = Chunk(t[1], Row(Tail(t)))
      <3>1. Row(t) ++ <<>> = Chunk(t[1], Row(Tail(t)) ++ <<>>)
        BY <2>2, RowSteps, SmallTexts
      <3> QED BY <2>3, <3>1, RowSteps, CatEmpty
    <2>6. s[1].Field = t[1].Field
      BY <2>1, <2>2, LeadsSteps
    <2>7. /\ s[1].Value \in Text /\ t[1].Value \in Text /\ esc(s[1].Value) \in Text
          /\ Row(Tail(t)) \in Text /\ Row(Tail(s)) \in Text
      BY <2>3, ItemText, RowSteps
    <2>8. CASE Tail(s) = <<>>
      <3>1. PICK r \in Text : t[1].Value = s[1].Value ++ r
        BY <2>1, <2>2, <2>7, <2>8, LeadsSteps, PrefixIsFollowed
      <3> DEFINE z == esc(r) ++ Row(Tail(t))
      <3>2. esc(r) \in Text /\ z \in Text
        BY <2>7, EscSteps, CatText
      <3>3. esc(t[1].Value) ++ Row(Tail(t)) = esc(s[1].Value) ++ z
        BY <2>7, <3>1, <3>2, EscCat, CatAssoc
      <3>4. Row(Tail(s)) ++ z = z
        BY <2>8, <3>2, RowSteps, CatEmpty
      <3>5. Row(t) = Row(s) ++ z
        <4> HIDE DEF z
        <4>1. Row(s) ++ z = Chunk(s[1], z)
          BY <2>4, <3>2, <3>4
        <4> QED BY <2>5, <2>6, <3>3, <4>1 DEF Chunk
      <3> QED BY <3>2, <3>5
    <2>9. CASE Tail(s) # <<>>
      <3>1. s[1].Value = t[1].Value /\ Leads(Tail(s), Tail(t))
        BY <2>1, <2>2, <2>9, LeadsSteps
      <3>2. PICK z \in Text : Row(Tail(t)) = Row(Tail(s)) ++ z
        BY <2>3, <3>1
      <3>3. Row(t) = Row(s) ++ z
        BY <2>4, <2>5, <2>6, <3>1, <3>2 DEF Chunk
      <3> QED BY <3>3
    <2> QED BY <2>8, <2>9
  <1>3. Good = Nat
    BY <1>1, <1>2, AllNumbers
  <1>4. Len(q) \in Nat
    BY LenProperties
  <1> QED BY <1>3, <1>4

\* The parts of a key, as compared.
LEMMA NormalPartsType ==
  ASSUME NEW ps \in Seq(Part)
  PROVE  /\ NormalParts(ps) \in Seq(Part) /\ Len(NormalParts(ps)) = Len(ps)
         /\ ps = <<>> <=> NormalParts(ps) = <<>>
         /\ \A j \in 1 .. Len(ps) : /\ NormalParts(ps)[j].Field = normalize(ps[j].Field)
                                    /\ NormalParts(ps)[j].Value = normalize(ps[j].Value)
  <1>1. Len(ps) \in Nat /\ DOMAIN ps = 1 .. Len(ps)
    BY LenProperties
  <1>2. \A e \in Part : [Field |-> normalize(e.Field), Value |-> normalize(e.Value)] \in Part
    BY NormalText DEF Part
  <1>3. \A j \in 1 .. Len(ps) : [Field |-> normalize(ps[j].Field), Value |-> normalize(ps[j].Value)] \in Part
    BY <1>2, ElementOfSeq
  <1>4. NormalParts(ps) \in Seq(Part) /\ Len(NormalParts(ps)) = Len(ps)
    BY <1>1, <1>3 DEF NormalParts
  <1>5. ps = <<>> <=> NormalParts(ps) = <<>>
    <2>1. \A t \in Seq(Part) : t = <<>> <=> Len(t) = 0
      BY EmptySeq
    <2> QED BY <1>4, <2>1
  <1>6. \A j \in 1 .. Len(ps) : /\ NormalParts(ps)[j].Field = normalize(ps[j].Field)
                                /\ NormalParts(ps)[j].Value = normalize(ps[j].Value)
    BY <1>1 DEF NormalParts
  <1> QED BY <1>4, <1>5, <1>6

\* Fields is the row of the parts without the first colon.
LEMMA FieldsRow ==
  ASSUME NEW ps \in Seq(Part)
  PROVE  /\ Fields(ps) \in Text
         /\ ps = <<>> => Fields(ps) = <<>>
         /\ ps # <<>> => <<Colon>> ++ Fields(ps) = Row(NormalParts(ps))
  <1> DEFINE q == NormalParts(ps)
             fs == [j \in DOMAIN ps |->
                      (IF j > 1 THEN <<Colon>> ELSE <<>>)
                         \o esc(normalize(ps[j].Field)) \o <<Equals>> \o esc(normalize(ps[j].Value))]
             rs == [j \in DOMAIN q |-> <<Colon>> ++ Item(q[j])]
  <1>1. /\ q \in Seq(Part) /\ Len(q) = Len(ps) /\ (ps = <<>> <=> q = <<>>)
        /\ Len(ps) \in Nat /\ DOMAIN ps = 1 .. Len(ps) /\ DOMAIN q = 1 .. Len(ps)
    BY NormalPartsType, LenProperties
  <1>2. Fields(ps) = FlattenSeq(fs) /\ Row(q) = FlattenSeq(rs)
    BY DEF Fields, Row
  <1>3. ASSUME NEW j \in 1 .. Len(ps)
        PROVE  /\ q[j] \in Part
               /\ fs[j] = IF j > 1 THEN <<Colon>> ++ Item(q[j]) ELSE Item(q[j])
    <2>1. /\ q[j] \in Part
          /\ q[j].Field = normalize(ps[j].Field) /\ q[j].Value = normalize(ps[j].Value)
      <3>1. q[j] \in Part
        BY <1>1, ElementOfSeq
      <3> QED BY <3>1, NormalPartsType
    <2> DEFINE f == esc(normalize(ps[j].Field))  v == esc(normalize(ps[j].Value))
               c == IF j > 1 THEN <<Colon>> ELSE <<>>
    <2>2. f \in Text /\ v \in Text /\ c \in Text /\ Item(q[j]) = f ++ (<<Equals>> ++ v)
      <3>1. esc(q[j].Field) \in Text /\ esc(q[j].Value) \in Text
        BY <2>1, ItemText
      <3>2. c \in Text
        BY Marks, SmallTexts
      <3> QED BY <2>1, <3>1, <3>2 DEF Item
    <2>3. fs[j] = ((c ++ f) ++ <<Equals>>) ++ v
      BY <1>1 DEF ++
    <2>4. fs[j] = c ++ Item(q[j])
      <3> HIDE DEF f, v, c
      <3>1. (c ++ f) ++ <<Equals>> = c ++ (f ++ <<Equals>>) /\ f ++ <<Equals>> \in Text
        BY <2>2, Marks, CatAssoc, CatText
      <3>2. (c ++ (f ++ <<Equals>>)) ++ v = c ++ ((f ++ <<Equals>>) ++ v)
        BY <2>2, <3>1, CatAssoc
      <3>3. (f ++ <<Equals>>) ++ v = f ++ (<<Equals>> ++ v)
        BY <2>2, Marks, CatAssoc
      <3> HIDE DEF fs, q
      <3> QED BY <2>2, <2>3, <3>1, <3>2, <3>3
    <2>5. Item(q[j]) \in Text
      BY <2>1, ItemText
    <2> HIDE DEF fs, q
    <2> QED BY <2>1, <2>4, <2>5, CatEmpty
  <1>4. \A j \in 1 .. Len(ps) : rs[j] = <<Colon>> ++ Item(q[j])
    BY <1>1
  <1>5. DOMAIN fs = 1 .. Len(ps) /\ DOMAIN rs = 1 .. Len(ps) /\ (\A j \in 1 .. Len(ps) : fs[j] \in Text /\ rs[j] \in Text)
    <2> HIDE DEF q
    <2>1. DOMAIN fs = 1 .. Len(ps) /\ DOMAIN rs = 1 .. Len(ps)
      BY <1>1
    <2> HIDE DEF fs, rs
    <2> QED BY <1>3, <1>4, <2>1, ItemText
  <1>6. fs \in Seq(Text) /\ Len(fs) = Len(ps) /\ rs \in Seq(Text) /\ Len(rs) = Len(ps)
    <2>1. fs = [j \in 1 .. Len(ps) |-> fs[j]] /\ rs = [j \in 1 .. Len(ps) |-> rs[j]]
      BY <1>1
    <2> HIDE DEF fs, rs, q
    <2> QED BY <1>1, <1>5, <2>1
  <1>7. CASE ps = <<>>
    <2>1. fs = <<>>
      BY <1>7
    <2> QED BY <1>2, <1>7, <2>1, FlattenNone, SmallTexts
  <1>8. CASE ps # <<>>
    <2> HIDE DEF fs, rs, q
    <2>1. Len(ps) >= 1 /\ fs # <<>> /\ rs # <<>>
      <3>1. \A t \in Seq(Text) : t = <<>> <=> Len(t) = 0
        BY EmptySeq
      <3>2. Len(ps) # 0
        BY <1>8, EmptySeq
      <3> QED BY <1>1, <1>6, <3>1, <3>2
    <2>2. /\ Tail(fs) \in Seq(Text) /\ Len(Tail(fs)) = Len(ps) - 1
          /\ Tail(rs) \in Seq(Text) /\ Len(Tail(rs)) = Len(ps) - 1
          /\ \A i \in 1 .. Len(ps) - 1 : Tail(fs)[i] = fs[i + 1] /\ Tail(rs)[i] = rs[i + 1]
      BY <1>6, <2>1, TailIs
    <2>3. \A i \in 1 .. Len(ps) - 1 : fs[i + 1] = rs[i + 1]
      <3>1. \A i \in 1 .. Len(ps) - 1 : i + 1 \in 1 .. Len(ps) /\ i + 1 > 1
        BY <1>1
      <3> QED BY <1>3, <1>4, <3>1
    <2>4. Tail(fs) = Tail(rs)
      BY <2>2, <2>3, SeqEqual
    <2>5. fs[1] = Item(q[1]) /\ rs[1] = <<Colon>> ++ Item(q[1]) /\ Item(q[1]) \in Text
      <3>1. 1 \in 1 .. Len(ps) /\ ~(1 > 1)
        BY <1>1, <2>1
      <3> QED BY <1>3, <1>4, <3>1, ItemText
    <2>6. fs = <<Item(q[1])>> \o Tail(fs) /\ rs = <<<<Colon>> ++ Item(q[1])>> \o Tail(fs)
      BY <1>6, <2>1, <2>4, <2>5, FirstThenTail
    <2>7. <<Colon>> ++ Item(q[1]) \in Text /\ FlattenSeq(Tail(fs)) \in Text
      BY <2>2, <2>5, Marks, CatText, FlattenText
    <2>8. FlattenSeq(fs) = Item(q[1]) ++ FlattenSeq(Tail(fs))
      BY <2>2, <2>5, <2>6, FlattenFirst
    <2>9. FlattenSeq(rs) = (<<Colon>> ++ Item(q[1])) ++ FlattenSeq(Tail(fs))
      BY <2>2, <2>6, <2>7, FlattenFirst
    <2>10. FlattenSeq(rs) = <<Colon>> ++ FlattenSeq(fs) /\ FlattenSeq(fs) \in Text
      BY <2>5, <2>7, <2>8, <2>9, Marks, CatAssoc, CatText
    <2> QED BY <1>2, <1>8, <2>10 DEF q
  <1> QED BY <1>7, <1>8

\* The parts of a key begin with a byte that cannot follow them.
LEMMA FieldsBegin ==
  ASSUME NEW ps \in Seq(Part), NEW y \in Text, ps # <<>>
  PROVE  ~After(Fields(ps) ++ y)
  <1> DEFINE q == NormalParts(ps)
  <1>1. q \in Seq(Part) /\ q # <<>> /\ Fields(ps) \in Text /\ <<Colon>> ++ Fields(ps) = Row(q)
    BY NormalPartsType, FieldsRow
  <1> HIDE DEF q
  <1>2. q[1] \in Part /\ Row(Tail(q)) ++ y \in Text
    BY <1>1, TailIs, RowSteps, CatText
  <1> DEFINE a == q[1].Field  w == <<Equals>> ++ (esc(q[1].Value) ++ (Row(Tail(q)) ++ y))
  <1>3. a \in Text /\ esc(a) \in Text /\ w \in Text /\ w # <<>> /\ w[1] = Equals
    <2> DEFINE v == esc(q[1].Value) ++ (Row(Tail(q)) ++ y)
    <2>1. a \in Text /\ esc(a) \in Text /\ v \in Text
      BY <1>2, ItemText, CatText
    <2> HIDE DEF v
    <2>2. <<Equals>> ++ v \in Text /\ <<Equals>> ++ v # <<>> /\ (<<Equals>> ++ v)[1] = Equals
      BY <2>1, Marks, CatText, CatFirst, CatNone
    <2> QED BY <2>1, <2>2 DEF v
  <1>4. <<Colon>> ++ (Fields(ps) ++ y) = <<Colon>> ++ (esc(a) ++ w)
    <2>1. (<<Colon>> ++ Fields(ps)) ++ y = Chunk(q[1], Row(Tail(q)) ++ y)
      BY <1>1, RowSteps
    <2> QED BY <1>1, <2>1, Marks, CatAssoc DEF Chunk
  <1> HIDE DEF a, w
  <1>5. Fields(ps) ++ y = esc(a) ++ w
    BY <1>1, <1>3, <1>4, Marks, CatText, CatCancel
  <1>6. CASE a = <<>>
    BY <1>3, <1>5, <1>6, EscSteps, CatEmpty, Marks DEF After
  <1>7. CASE a # <<>>
    BY <1>3, <1>5, <1>7, EscBegins, Marks DEF After
  <1> QED BY <1>6, <1>7

\* Parts at the beginning of others lead to them, and are all of them if
\* nothing else of the parts follows.
LEMMA FieldsSplit ==
  ASSUME NEW qs \in Seq(Part), NEW ps \in Seq(Part), NEW z \in Text, NEW y \in Text,
         Fields(qs) ++ z = Fields(ps) ++ y, After(y)
  PROVE  /\ Leads(NormalParts(qs), NormalParts(ps))
         /\ After(z) => NormalParts(qs) = NormalParts(ps) /\ z = y
  <1>1. /\ NormalParts(qs) \in Seq(Part) /\ NormalParts(ps) \in Seq(Part)
        /\ Fields(qs) \in Text /\ Fields(ps) \in Text
    BY NormalPartsType, FieldsRow
  <1>2. CASE qs = <<>>
    <2>1. NormalParts(qs) = <<>> /\ Fields(qs) ++ z = z
      BY <1>2, NormalPartsType, FieldsRow, CatEmpty
    <2>2. After(z) => ps = <<>>
      BY <2>1, FieldsBegin
    <2>3. ps = <<>> => NormalParts(ps) = <<>> /\ Fields(ps) ++ y = y
      BY NormalPartsType, FieldsRow, CatEmpty
    <2> QED BY <1>1, <2>1, <2>2, <2>3, LeadsNone
  <1>3. CASE qs # <<>>
    <2>1. ps # <<>>
      <3>1. ~After(Fields(qs) ++ z)
        BY <1>3, FieldsBegin
      <3>2. ps = <<>> => Fields(ps) ++ y = y
        BY FieldsRow, CatEmpty
      <3> QED BY <3>1, <3>2
    <2>2. Row(NormalParts(qs)) ++ z = Row(NormalParts(ps)) ++ y
      <3>1. /\ Row(NormalParts(qs)) = <<Colon>> ++ Fields(qs)
            /\ Row(NormalParts(ps)) = <<Colon>> ++ Fields(ps)
        BY <1>3, <2>1, FieldsRow
      <3>2. /\ (<<Colon>> ++ Fields(qs)) ++ z = <<Colon>> ++ (Fields(qs) ++ z)
            /\ (<<Colon>> ++ Fields(ps)) ++ y = <<Colon>> ++ (Fields(ps) ++ y)
        BY <1>1, Marks, CatAssoc
      <3> QED BY <3>1, <3>2
    <2> QED BY <1>1, <2>2, RowSplit
  <1> QED BY <1>2, <1>3

\* Parts that lead to others are at their beginning.
LEMMA FieldsFit ==
  ASSUME NEW qs \in Seq(Part), NEW ps \in Seq(Part), Leads(NormalParts(qs), NormalParts(ps))
  PROVE  \E z \in Text : Fields(ps) = Fields(qs) ++ z
  <1>1. /\ NormalParts(qs) \in Seq(Part) /\ NormalParts(ps) \in Seq(Part)
        /\ Fields(qs) \in Text /\ Fields(ps) \in Text
    BY NormalPartsType, FieldsRow
  <1>2. CASE qs = <<>>
    BY <1>1, <1>2, FieldsRow, CatEmpty
  <1>3. CASE qs # <<>>
    <2>1. ps # <<>>
      BY <1>1, <1>3, NormalPartsType, LeadsNone
    <2>2. PICK z \in Text : Row(NormalParts(ps)) = Row(NormalParts(qs)) ++ z
      BY <1>1, RowFits
    <2>3. <<Colon>> ++ Fields(ps) = <<Colon>> ++ (Fields(qs) ++ z)
      <3>1. <<Colon>> ++ Fields(ps) = (<<Colon>> ++ Fields(qs)) ++ z
        BY <1>3, <2>1, <2>2, FieldsRow
      <3> QED BY <1>1, <3>1, Marks, CatAssoc
    <2>4. Fields(ps) = Fields(qs) ++ z
      BY <1>1, <2>3, Marks, CatText, CatCancel
    <2> QED BY <2>4
  <1> QED BY <1>2, <1>3

\* Only what is compared of names and parts goes into keys.
LEMMA SameTexts ==
  /\ \A n, m \in Text \X Text \X Text : NormalName(n) = NormalName(m) => Space(n) = Space(m)
  /\ \A qs, ps \in Seq(Part) : NormalParts(qs) = NormalParts(ps) => Fields(qs) = Fields(ps)
  <1>1. ASSUME NEW n \in Text \X Text \X Text, NEW m \in Text \X Text \X Text, NormalName(n) = NormalName(m)
        PROVE  Space(n) = Space(m)
    <2>1. \A k \in Text \X Text \X Text : /\ NormalName(k)[1] = normalize(k[1])
                                          /\ NormalName(k)[2] = normalize(k[2])
                                          /\ NormalName(k)[3] = normalize(k[3])
      BY DEF NormalName
    <2>2. normalize(n[1]) = normalize(m[1]) /\ normalize(n[2]) = normalize(m[2]) /\ normalize(n[3]) = normalize(m[3])
      BY <1>1, <2>1
    <2> QED BY <2>2, SpaceWords DEF Word
  <1>2. ASSUME NEW qs \in Seq(Part), NEW ps \in Seq(Part), NormalParts(qs) = NormalParts(ps)
        PROVE  Fields(qs) = Fields(ps)
    <2>1. Fields(qs) \in Text /\ Fields(ps) \in Text /\ (qs = <<>> <=> ps = <<>>)
      BY <1>2, FieldsRow, NormalPartsType
    <2>2. CASE qs = <<>>
      BY <2>1, <2>2, FieldsRow
    <2>3. CASE qs # <<>>
      <3>1. <<Colon>> ++ Fields(qs) = <<Colon>> ++ Fields(ps)
        BY <1>2, <2>1, <2>3, FieldsRow
      <3> QED BY <2>1, <3>1, Marks, CatCancel
    <2> QED BY <2>2, <2>3
  <1> QED BY <1>1, <1>2

-----------------------------------------------------------------------------
(* Keys.                                                                   *)

Names == Text \X Text \X Text

\* The builders, read from the first byte on.
PKTail(n, id)     == Space(n) ++ (i_ ++ esc(id))
XTail(n, ps, id)  == Space(n) ++ (Fields(ps) ++ (<<35>> ++ (i_ ++ esc(id))))
UTail(n, ps)      == Space(n) ++ Fields(ps)

\* What keys begin with, and what of them has no choice.
LEMMA Heads ==
  /\ d_ \in Text /\ d_[1] = 100 /\ d_ # <<>>
  /\ x_ \in Text /\ x_[1] = 120 /\ x_ # <<>>
  /\ u_ \in Text /\ u_[1] = 117 /\ u_ # <<>>
  /\ lock_ \in Text /\ lock_[1] = 108 /\ lock_ # <<>>
  /\ i_ \in Text /\ i_ # <<>> /\ <<35>> \in Text /\ <<35>> # <<>> /\ <<35>>[1] = 35
  BY DEF d_, x_, u_, lock_, i_, Colon, Equals, Text

\* The builders join texts.
LEMMA KeyForms ==
  ASSUME NEW n \in Names, NEW ps \in Seq(Part), NEW id \in Text
  PROVE  /\ PKTail(n, id) \in Text /\ XTail(n, ps, id) \in Text /\ UTail(n, ps) \in Text
         /\ BuildPKKey(n, id) = d_ ++ PKTail(n, id) /\ BuildPKKey(n, id) \in Text
         /\ BuildCompositeIndexKey(n, ps, id) = x_ ++ XTail(n, ps, id)
         /\ BuildCompositeUniqueIndexKey(n, ps) = u_ ++ UTail(n, ps)
         /\ BuildPKPrefix(n) = d_ ++ (Space(n) ++ i_) /\ BuildPKPrefix(n) \in Text
         /\ BuildCompositeIndexPrefix(n, ps) = x_ ++ (Space(n) ++ Fields(ps))
         /\ BuildCompositeIndexPrefix(n, ps) \in Text
  <1> DEFINE s == Space(n)  f == Fields(ps)  e == esc(id)
  <1>1. s \in Text /\ f \in Text /\ e \in Text
    BY SpaceParse, FieldsRow, EscSteps DEF Names
  <1> HIDE DEF s, f, e
  <1>2. /\ d_ ++ s \in Text /\ x_ ++ s \in Text /\ u_ ++ s \in Text /\ s ++ i_ \in Text
        /\ s ++ f \in Text /\ i_ ++ e \in Text
    BY <1>1, Heads, CatText
  <1>3. <<35>> ++ (i_ ++ e) \in Text /\ f ++ (<<35>> ++ (i_ ++ e)) \in Text
    BY <1>1, <1>2, Heads, CatText
  <1>4. /\ s ++ (i_ ++ e) \in Text /\ s ++ (f ++ (<<35>> ++ (i_ ++ e))) \in Text
    BY <1>1, <1>2, <1>3, CatText
  <1>5. (d_ ++ s) ++ i_ = d_ ++ (s ++ i_)
    BY <1>1, Heads, CatAssoc
  <1>6. ((d_ ++ s) ++ i_) ++ e = d_ ++ (s ++ (i_ ++ e))
    <2>1. ((d_ ++ s) ++ i_) ++ e = (d_ ++ s) ++ (i_ ++ e)
      BY <1>1, <1>2, Heads, CatAssoc
    <2> QED BY <1>1, <1>2, <2>1, Heads, CatAssoc
  <1>7. (x_ ++ s) ++ f = x_ ++ (s ++ f) /\ (u_ ++ s) ++ f = u_ ++ (s ++ f)
    BY <1>1, Heads, CatAssoc
  <1>8. ((((x_ ++ s) ++ f) ++ <<35>>) ++ i_) ++ e = x_ ++ (s ++ (f ++ (<<35>> ++ (i_ ++ e))))
    <2> DEFINE h == (x_ ++ s) ++ f
    <2>1. h \in Text /\ h ++ <<35>> \in Text
      BY <1>1, <1>2, Heads, CatText
    <2> HIDE DEF h
    <2>2. ((h ++ <<35>>) ++ i_) ++ e = (h ++ <<35>>) ++ (i_ ++ e)
      BY <1>1, <2>1, Heads, CatAssoc
    <2>3. (h ++ <<35>>) ++ (i_ ++ e) = h ++ (<<35>> ++ (i_ ++ e))
      BY <1>2, <2>1, Heads, CatAssoc
    <2>4. ((x_ ++ s) ++ f) ++ (<<35>> ++ (i_ ++ e)) = (x_ ++ s) ++ (f ++ (<<35>> ++ (i_ ++ e)))
      BY <1>1, <1>2, <1>3, CatAssoc
    <2>5. (x_ ++ s) ++ (f ++ (<<35>> ++ (i_ ++ e))) = x_ ++ (s ++ (f ++ (<<35>> ++ (i_ ++ e))))
      BY <1>1, <1>3, Heads, CatAssoc
    <2> QED BY <2>2, <2>3, <2>4, <2>5 DEF h
  <1>9. /\ BuildPKKey(n, id) = ((d_ ++ s) ++ i_) ++ e
        /\ BuildCompositeIndexKey(n, ps, id) = ((((x_ ++ s) ++ f) ++ <<35>>) ++ i_) ++ e
        /\ BuildCompositeUniqueIndexKey(n, ps) = (u_ ++ s) ++ f
        /\ BuildPKPrefix(n) = (d_ ++ s) ++ i_
        /\ BuildCompositeIndexPrefix(n, ps) = (x_ ++ s) ++ f
    BY Zenon DEF BuildPKKey, BuildCompositeIndexKey, BuildCompositeUniqueIndexKey, BuildPKPrefix,
                 BuildCompositeIndexPrefix, ++, s, f, e
  <1>10. PKTail(n, id) = s ++ (i_ ++ e) /\ XTail(n, ps, id) = s ++ (f ++ (<<35>> ++ (i_ ++ e))) /\ UTail(n, ps) = s ++ f
    BY DEF PKTail, XTail, UTail, s, f, e
  <1>11. d_ ++ (s ++ (i_ ++ e)) \in Text /\ d_ ++ (s ++ i_) \in Text /\ x_ ++ (s ++ f) \in Text
    BY <1>2, <1>4, Heads, CatText
  <1> HIDE DEF BuildPKKey, PKTail
  <1> QED BY <1>2, <1>4, <1>5, <1>6, <1>7, <1>8, <1>9, <1>10, <1>11 DEF s, f

\* What is behind the mark of the id can be read back.
LEMMA IdParse ==
  /\ \A id \in Text : i_ ++ esc(id) \in Text
  /\ \A a, b \in Text : i_ ++ esc(a) = i_ ++ esc(b) => a = b
  <1>1. ASSUME NEW id \in Text PROVE i_ ++ esc(id) \in Text /\ esc(id) \in Text /\ esc(id) ++ <<>> = esc(id)
    BY EscSteps, Heads, CatText, CatEmpty
  <1>2. Ended(<<>>)
    BY DEF Ended
  <1>3. ASSUME NEW a \in Text, NEW b \in Text, i_ ++ esc(a) = i_ ++ esc(b) PROVE a = b
    <2>1. esc(a) = esc(b)
      BY <1>1, <1>3, Heads, CatCancel
    <2>2. esc(a) ++ <<>> = esc(b) ++ <<>>
      BY <1>1, <2>1
    <2> QED BY <1>2, <2>2, SmallTexts, EscParse
  <1> QED BY <1>1, <1>3

\* What keys are made of can be read back from them.
LEMMA TailsParse ==
  ASSUME NEW n \in Names, NEW m \in Names, NEW qs \in Seq(Part), NEW ps \in Seq(Part),
         NEW a \in Text, NEW b \in Text
  PROVE  /\ PKTail(n, a) = PKTail(m, b) <=> NormalName(n) = NormalName(m) /\ a = b
         /\ XTail(n, qs, a) = XTail(m, ps, b) <=>
               NormalName(n) = NormalName(m) /\ NormalParts(qs) = NormalParts(ps) /\ a = b
         /\ UTail(n, qs) = UTail(m, ps) <=> NormalName(n) = NormalName(m) /\ NormalParts(qs) = NormalParts(ps)
  <1> DEFINE i == i_ ++ esc(a)  j == i_ ++ esc(b)
             v == <<35>> ++ i   w == <<35>> ++ j
  <1>1. i \in Text /\ j \in Text /\ v \in Text /\ w \in Text /\ After(v) /\ After(w) /\ After(<<>>)
    <2>1. i \in Text /\ j \in Text
      BY IdParse
    <2> HIDE DEF i, j
    <2>2. \A k \in Text : <<35>> ++ k \in Text /\ (<<35>> ++ k)[1] = 35
      <3>1. \A h \in Byte, k \in Text : <<h>> ++ k \in Text /\ (<<h>> ++ k)[1] = h
        BY SmallTexts, CatText, CatFirst
      <3>2. 35 \in Byte
        BY DEF Byte
      <3> QED BY <3>1, <3>2
    <2> QED BY <2>1, <2>2 DEF After
  <1>2. i = j <=> a = b
    BY IdParse
  <1>3. v = w <=> a = b
    <2> HIDE DEF i, j
    <2> QED BY <1>1, <1>2, Heads, CatCancel
  <1> HIDE DEF v, w, i, j
  <1>4. Fields(qs) \in Text /\ Fields(ps) \in Text /\ Fields(qs) ++ v \in Text /\ Fields(ps) ++ w \in Text
    BY <1>1, FieldsRow, CatText
  <1>5. PKTail(n, a) = PKTail(m, b) <=> NormalName(n) = NormalName(m) /\ a = b
    BY <1>1, <1>2, SpaceParse, SameTexts DEF PKTail, Names, i, j
  <1>6. XTail(n, qs, a) = XTail(m, ps, b) <=>
               NormalName(n) = NormalName(m) /\ NormalParts(qs) = NormalParts(ps) /\ a = b
    <2>1. XTail(n, qs, a) = Space(n) ++ (Fields(qs) ++ v) /\ XTail(m, ps, b) = Space(m) ++ (Fields(ps) ++ w)
      BY DEF XTail, v, w, i, j
    <2>2. XTail(n, qs, a) = XTail(m, ps, b) => NormalName(n) = NormalName(m) /\ Fields(qs) ++ v = Fields(ps) ++ w
      <3> DEFINE f == Fields(qs) ++ v  g == Fields(ps) ++ w
      <3>1. f \in Text /\ g \in Text
        BY <1>4
      <3> HIDE DEF f, g
      <3>2. Space(n) ++ f = Space(m) ++ g => NormalName(n) = NormalName(m) /\ f = g
        BY <3>1, SpaceParse DEF Names
      <3> QED BY <2>1, <3>2 DEF f, g
    <2>3. Fields(qs) ++ v = Fields(ps) ++ w => NormalParts(qs) = NormalParts(ps) /\ a = b
      BY <1>1, <1>3, FieldsSplit
    <2>4. NormalName(n) = NormalName(m) /\ NormalParts(qs) = NormalParts(ps) /\ a = b => XTail(n, qs, a) = XTail(m, ps, b)
      BY <1>3, <2>1, SameTexts DEF Names
    <2> QED BY <2>2, <2>3, <2>4
  <1>7. UTail(n, qs) = UTail(m, ps) <=> NormalName(n) = NormalName(m) /\ NormalParts(qs) = NormalParts(ps)
    <2>1. UTail(n, qs) = UTail(m, ps) => NormalName(n) = NormalName(m) /\ Fields(qs) = Fields(ps)
      BY <1>4, SpaceParse DEF UTail, Names
    <2>2. Fields(qs) = Fields(ps) => Fields(qs) ++ <<>> = Fields(ps) ++ <<>>
      BY <1>4, CatEmpty
    <2>3. Fields(qs) ++ <<>> = Fields(ps) ++ <<>> => NormalParts(qs) = NormalParts(ps)
      BY <1>1, FieldsSplit, SmallTexts
    <2>4. NormalName(n) = NormalName(m) /\ NormalParts(qs) = NormalParts(ps) => UTail(n, qs) = UTail(m, ps)
      BY SameTexts DEF UTail, Names
    <2> QED BY <2>1, <2>2, <2>3, <2>4
  <1> QED BY <1>5, <1>6, <1>7

\* What a thing is made of, and what of it counts.
LEMMA ThingType ==
  ASSUME NEW t, IsThing(t)
  PROVE  /\ t.kind \in {"d", "x", "u", "lock"} /\ t.name \in Names /\ t.parts \in Seq(Part) /\ t.id \in Text
         /\ t.kind \in {"d", "lock"} => t.parts = <<>>
         /\ Normal(t) = [kind |-> t.kind, name |-> NormalName(t.name), parts |-> NormalParts(t.parts), id |-> t.id]
  <1>1. /\ t \in [kind : {"d", "x", "u", "lock"}, name : Names, parts : Seq(Part), id : Text]
        /\ t.kind \in {"d", "lock"} => t.parts = <<>>
    BY DEF IsThing, Names, Part
  <1>2. Normal(t) = [kind |-> t.kind, name |-> NormalName(t.name), parts |-> NormalParts(t.parts), id |-> t.id]
    <2> DEFINE n == NormalName(t.name)  p == NormalParts(t.parts)
    <2>1. Normal(t) = [t EXCEPT !.name = n, !.parts = p]
      BY DEF Normal
    <2> HIDE DEF n, p
    <2>2. [t EXCEPT !.name = n, !.parts = p] = [kind |-> t.kind, name |-> n, parts |-> p, id |-> t.id]
      <3> DEFINE u == [t EXCEPT !.name = n, !.parts = p]
      <3>1. u \in [kind : {"d", "x", "u", "lock"}, name : {n}, parts : {p}, id : Text]
        BY <1>1
      <3>2. u.kind = t.kind /\ u.id = t.id /\ u.name = n /\ u.parts = p
        BY <1>1
      <3> HIDE DEF u
      <3>3. u = [kind |-> t.kind, name |-> n, parts |-> p, id |-> t.id]
        BY <3>1, <3>2
      <3> QED BY <3>3 DEF u
    <2> QED BY <2>1, <2>2 DEF n, p
  <1> QED BY <1>1, <1>2

\* The key of a thing.
LEMMA KeyIs ==
  ASSUME NEW t, IsThing(t)
  PROVE  /\ KeyFor(t) \in Text
         /\ t.kind = "d" => KeyFor(t) = d_ ++ PKTail(t.name, t.id) /\ KeyFor(t)[1] = 100
         /\ t.kind = "x" => KeyFor(t) = x_ ++ XTail(t.name, t.parts, t.id) /\ KeyFor(t)[1] = 120
         /\ t.kind = "u" => KeyFor(t) = u_ ++ UTail(t.name, t.parts) /\ KeyFor(t)[1] = 117
         /\ t.kind = "lock" => /\ KeyFor(t) = lock_ ++ (d_ ++ PKTail(t.name, t.id))
                               /\ KeyFor(t)[1] = 108
  <1> DEFINE n == t.name  ps == t.parts  id == t.id
  <1>1. n \in Names /\ ps \in Seq(Part) /\ id \in Text /\ t.kind \in {"d", "x", "u", "lock"}
    BY ThingType
  <1>2. /\ t.kind = "d" => KeyFor(t) = BuildPKKey(n, id)
        /\ t.kind = "x" => KeyFor(t) = BuildCompositeIndexKey(n, ps, id)
        /\ t.kind = "u" => KeyFor(t) = BuildCompositeUniqueIndexKey(n, ps)
        /\ t.kind = "lock" => KeyFor(t) = lock_ ++ BuildPKKey(n, id)
    BY DEF KeyFor, lockKeyForPK, ++
  <1> HIDE DEF n, ps, id
  <1>3. /\ PKTail(n, id) \in Text /\ XTail(n, ps, id) \in Text /\ UTail(n, ps) \in Text
        /\ BuildPKKey(n, id) = d_ ++ PKTail(n, id) /\ BuildPKKey(n, id) \in Text
        /\ BuildCompositeIndexKey(n, ps, id) = x_ ++ XTail(n, ps, id)
        /\ BuildCompositeUniqueIndexKey(n, ps) = u_ ++ UTail(n, ps)
    BY <1>1, KeyForms
  <1>4. /\ x_ ++ XTail(n, ps, id) \in Text /\ u_ ++ UTail(n, ps) \in Text
        /\ lock_ ++ BuildPKKey(n, id) \in Text
    BY <1>3, Heads, CatText
  <1>5. /\ (d_ ++ PKTail(n, id))[1] = 100 /\ (x_ ++ XTail(n, ps, id))[1] = 120
        /\ (u_ ++ UTail(n, ps))[1] = 117 /\ (lock_ ++ BuildPKKey(n, id))[1] = 108
    BY <1>3, Heads, CatFirst
  <1> QED BY <1>1, <1>2, <1>3, <1>4, <1>5 DEF n, ps, id

\* Two keys are the same exactly if they are for the same thing.
LEMMA KeysTell ==
  ASSUME NEW s, NEW t, IsThing(s), IsThing(t)
  PROVE  KeyFor(s) = KeyFor(t) <=> Same(Normal(s), Normal(t))
  <1>1. /\ s.kind \in {"d", "x", "u", "lock"} /\ s.name \in Names /\ s.parts \in Seq(Part) /\ s.id \in Text
        /\ t.kind \in {"d", "x", "u", "lock"} /\ t.name \in Names /\ t.parts \in Seq(Part) /\ t.id \in Text
        /\ s.kind \in {"d", "lock"} => s.parts = <<>>
        /\ t.kind \in {"d", "lock"} => t.parts = <<>>
    BY ThingType
  <1>2. Same(Normal(s), Normal(t)) <=>
           /\ s.kind = t.kind
           /\ NormalName(s.name) = NormalName(t.name)
           /\ NormalParts(s.parts) = NormalParts(t.parts)
           /\ s.kind # "u" => s.id = t.id
    <2>1. /\ Normal(s) = [kind |-> s.kind, name |-> NormalName(s.name), parts |-> NormalParts(s.parts), id |-> s.id]
          /\ Normal(t) = [kind |-> t.kind, name |-> NormalName(t.name), parts |-> NormalParts(t.parts), id |-> t.id]
      BY ThingType
    <2> QED BY <2>1 DEF Same
  <1>3. s.kind # t.kind => KeyFor(s) # KeyFor(t)
    BY <1>1, KeyIs
  <1>4. /\ PKTail(s.name, s.id) \in Text /\ XTail(s.name, s.parts, s.id) \in Text /\ UTail(s.name, s.parts) \in Text
        /\ PKTail(t.name, t.id) \in Text /\ XTail(t.name, t.parts, t.id) \in Text /\ UTail(t.name, t.parts) \in Text
    BY <1>1, KeyForms
  <1>5. CASE s.kind = "d" /\ t.kind = "d"
    <2>1. KeyFor(s) = KeyFor(t) <=> PKTail(s.name, s.id) = PKTail(t.name, t.id)
      BY <1>4, <1>5, KeyIs, Heads, CatCancel
    <2> QED BY <1>1, <1>2, <1>5, <2>1, TailsParse
  <1>6. CASE s.kind = "x" /\ t.kind = "x"
    <2>1. KeyFor(s) = KeyFor(t) <=> XTail(s.name, s.parts, s.id) = XTail(t.name, t.parts, t.id)
      BY <1>4, <1>6, KeyIs, Heads, CatCancel
    <2> QED BY <1>1, <1>2, <1>6, <2>1, TailsParse
  <1>7. CASE s.kind = "u" /\ t.kind = "u"
    <2>1. KeyFor(s) = KeyFor(t) <=> UTail(s.name, s.parts) = UTail(t.name, t.parts)
      BY <1>4, <1>7, KeyIs, Heads, CatCancel
    <2> QED BY <1>1, <1>2, <1>7, <2>1, TailsParse
  <1>8. CASE s.kind = "lock" /\ t.kind = "lock"
    <2>1. d_ ++ PKTail(s.name, s.id) \in Text /\ d_ ++ PKTail(t.name, t.id) \in Text
      BY <1>4, Heads, CatText
    <2>2. KeyFor(s) = KeyFor(t) <=> PKTail(s.name, s.id) = PKTail(t.name, t.id)
      BY <1>4, <1>8, <2>1, KeyIs, Heads, CatCancel
    <2> QED BY <1>1, <1>2, <1>8, <2>2, TailsParse
  <1> QED BY <1>1, <1>2, <1>3, <1>5, <1>6, <1>7, <1>8

\* BuildPKPrefix matches the rows of its table and nothing else.
LEMMA RowPrefix ==
  ASSUME NEW t, IsThing(t), NEW n \in Names
  PROVE  IsPrefix(BuildPKPrefix(n), KeyFor(t)) <=> t.kind = "d" /\ NormalName(t.name) = NormalName(n)
  <1> DEFINE k == KeyFor(t)
  <1>1. /\ t.kind \in {"d", "x", "u", "lock"} /\ t.name \in Names /\ t.parts \in Seq(Part) /\ t.id \in Text
        /\ k \in Text /\ Space(n) \in Text /\ Space(t.name) \in Text /\ esc(t.id) \in Text
        /\ i_ ++ esc(t.id) \in Text /\ BuildPKPrefix(n) \in Text
        /\ BuildPKPrefix(n) = d_ ++ (Space(n) ++ i_) /\ Space(n) ++ i_ \in Text
    <2>1. t.kind \in {"d", "x", "u", "lock"} /\ t.name \in Names /\ t.parts \in Seq(Part) /\ t.id \in Text
      BY ThingType
    <2>2. k \in Text /\ esc(t.id) \in Text /\ i_ ++ esc(t.id) \in Text
      BY <2>1, KeyIs, EscSteps, IdParse
    <2>3. Space(n) \in Text /\ Space(t.name) \in Text /\ Space(n) ++ i_ \in Text
      BY <2>1, SpaceParse, Heads, CatText DEF Names
    <2>4. BuildPKPrefix(n) \in Text /\ BuildPKPrefix(n) = d_ ++ (Space(n) ++ i_)
      BY <2>1, KeyForms
    <2> QED BY <2>1, <2>2, <2>3, <2>4
  <1>2. \A z \in Text : BuildPKPrefix(n) ++ z = d_ ++ (Space(n) ++ (i_ ++ z))
    BY <1>1, Heads, CatAssoc, CatText
  <1>3. t.kind = "d" => k = d_ ++ (Space(t.name) ++ (i_ ++ esc(t.id)))
    BY KeyIs DEF PKTail
  <1>4. ASSUME NEW z \in Text, k = BuildPKPrefix(n) ++ z
        PROVE  t.kind = "d" /\ NormalName(t.name) = NormalName(n)
    <2>1. i_ ++ z \in Text /\ Space(n) ++ (i_ ++ z) \in Text
      BY <1>1, Heads, CatText
    <2>2. k[1] = 100
      BY <1>2, <1>4, <2>1, Heads, CatFirst
    <2>3. t.kind = "d"
      BY <1>1, <2>2, KeyIs
    <2>4. Space(t.name) ++ (i_ ++ esc(t.id)) \in Text
      BY <1>1, CatText
    <2>5. Space(n) ++ (i_ ++ z) = Space(t.name) ++ (i_ ++ esc(t.id))
      BY <1>2, <1>3, <1>4, <2>1, <2>3, <2>4, Heads, CatCancel
    <2> QED BY <1>1, <2>1, <2>3, <2>5, SpaceParse DEF Names
  <1>5. ASSUME t.kind = "d", NormalName(t.name) = NormalName(n)
        PROVE  k = BuildPKPrefix(n) ++ esc(t.id)
    <2>1. Space(t.name) = Space(n)
      BY <1>1, <1>5, SameTexts DEF Names
    <2> QED BY <1>1, <1>2, <1>3, <1>5, <2>1
  <1>6. IsPrefix(BuildPKPrefix(n), k) <=> \E z \in Text : k = BuildPKPrefix(n) ++ z
    BY <1>1, PrefixIsFollowed
  <1> QED BY <1>1, <1>4, <1>5, <1>6

\* A composite prefix matches the entries its parts lead to.
LEMMA EntryPrefix ==
  ASSUME NEW t, IsThing(t), NEW n \in Names, NEW qs \in Seq(Part)
  PROVE  IsPrefix(BuildCompositeIndexPrefix(n, qs), KeyFor(t)) <=>
            /\ t.kind = "x" /\ NormalName(t.name) = NormalName(n)
            /\ Leads(NormalParts(qs), NormalParts(t.parts))
  <1> DEFINE k == KeyFor(t)  p == BuildCompositeIndexPrefix(n, qs)
             v == <<35>> ++ (i_ ++ esc(t.id))
  <1>1. t.kind \in {"d", "x", "u", "lock"} /\ t.name \in Names /\ t.parts \in Seq(Part) /\ t.id \in Text
    BY ThingType
  <1>2. /\ k \in Text /\ Space(n) \in Text /\ Space(t.name) \in Text /\ Fields(qs) \in Text /\ Fields(t.parts) \in Text
        /\ p \in Text /\ p = x_ ++ (Space(n) ++ Fields(qs))
    <2>1. k \in Text /\ Fields(qs) \in Text /\ Fields(t.parts) \in Text
      BY <1>1, KeyIs, FieldsRow
    <2>2. Space(n) \in Text /\ Space(t.name) \in Text
      BY <1>1, SpaceParse DEF Names
    <2>3. p \in Text /\ p = x_ ++ (Space(n) ++ Fields(qs))
      BY <1>1, KeyForms
    <2> QED BY <2>1, <2>2, <2>3
  <1>3. v \in Text /\ After(v)
    <2> DEFINE j == i_ ++ esc(t.id)
    <2>1. j \in Text
      BY <1>1, IdParse
    <2> HIDE DEF j
    <2>2. \A h \in Byte : <<h>> ++ j \in Text /\ (<<h>> ++ j)[1] = h
      BY <2>1, SmallTexts, CatText, CatFirst
    <2>3. 35 \in Byte
      BY DEF Byte
    <2>4. <<35>> ++ j \in Text /\ (<<35>> ++ j)[1] = 35
      BY <2>2, <2>3
    <2> QED BY <2>4 DEF After, j
  <1>4. t.kind = "x" => k = x_ ++ (Space(t.name) ++ (Fields(t.parts) ++ v))
    BY KeyIs DEF XTail
  <1> HIDE DEF k, p, v
  <1>5. /\ Space(n) ++ Fields(qs) \in Text /\ Fields(t.parts) ++ v \in Text
        /\ Space(t.name) ++ (Fields(t.parts) ++ v) \in Text
    BY <1>2, <1>3, CatText
  <1>6. ASSUME NEW z \in Text
        PROVE  /\ p ++ z = x_ ++ (Space(n) ++ (Fields(qs) ++ z))
               /\ Fields(qs) ++ z \in Text /\ Space(n) ++ (Fields(qs) ++ z) \in Text
    <2>1. Fields(qs) ++ z \in Text /\ Space(n) ++ (Fields(qs) ++ z) \in Text
      BY <1>2, CatText
    <2>2. p ++ z = x_ ++ ((Space(n) ++ Fields(qs)) ++ z)
      BY <1>2, <1>5, Heads, CatAssoc
    <2> QED BY <1>2, <2>1, <2>2, CatAssoc
  <1>7. ASSUME NEW z \in Text, k = p ++ z
        PROVE  /\ t.kind = "x" /\ NormalName(t.name) = NormalName(n)
               /\ Leads(NormalParts(qs), NormalParts(t.parts))
    <2>1. k[1] = 120
      BY <1>6, <1>7, Heads, CatFirst
    <2>2. t.kind = "x"
      BY <1>1, <2>1, KeyIs DEF k
    <2>3. Space(n) ++ (Fields(qs) ++ z) = Space(t.name) ++ (Fields(t.parts) ++ v)
      BY <1>4, <1>5, <1>6, <1>7, <2>2, Heads, CatCancel
    <2>4. NormalName(n) = NormalName(t.name) /\ Fields(qs) ++ z = Fields(t.parts) ++ v
      <3> DEFINE f == Fields(qs) ++ z  g == Fields(t.parts) ++ v
      <3>1. f \in Text /\ g \in Text /\ Space(n) ++ f = Space(t.name) ++ g
        BY <1>5, <1>6, <2>3
      <3> HIDE DEF f, g
      <3>2. NormalName(n) = NormalName(t.name) /\ f = g
        BY <1>1, <3>1, SpaceParse DEF Names
      <3> QED BY <3>2 DEF f, g
    <2> QED BY <1>1, <1>3, <2>2, <2>4, FieldsSplit
  <1>8. ASSUME t.kind = "x", NormalName(t.name) = NormalName(n),
               Leads(NormalParts(qs), NormalParts(t.parts))
        PROVE  \E z \in Text : k = p ++ z
    <2>1. Space(t.name) = Space(n)
      BY <1>1, <1>8, SameTexts DEF Names
    <2>2. PICK r \in Text : Fields(t.parts) = Fields(qs) ++ r
      BY <1>1, <1>8, FieldsFit
    <2>3. r ++ v \in Text /\ (Fields(qs) ++ r) ++ v = Fields(qs) ++ (r ++ v)
      BY <1>2, <1>3, CatText, CatAssoc
    <2>4. k = p ++ (r ++ v)
      BY <1>4, <1>6, <1>8, <2>1, <2>2, <2>3
    <2> QED BY <2>3, <2>4
  <1>9. IsPrefix(p, k) <=> \E z \in Text : k = p ++ z
    BY <1>2, PrefixIsFollowed
  <1>10. IsPrefix(p, k) <=> /\ t.kind = "x" /\ NormalName(t.name) = NormalName(n)
                            /\ Leads(NormalParts(qs), NormalParts(t.parts))
    BY <1>7, <1>8, <1>9
  <1> QED BY <1>10 DEF k, p

-----------------------------------------------------------------------------
(* The store.                                                              *)

\* What an entry is.
LEMMA EntryIs ==
  ASSUME NEW e \in Entry
  PROVE  \E t \in Things : /\ IsThing(t) /\ e = EntryFor(t)
                           /\ e.of = Normal(t) /\ e.key = KeyFor(t)
                           /\ e.value = IF t.kind \in {"x", "u"} THEN BuildPKKey(t.name, t.id) ELSE <<>>
  <1>1. PICK t \in Things : e = EntryFor(t)
    BY DEF Entry
  <1>2. IsThing(t)
    BY KeySpaceAssumption
  <1>3. /\ EntryFor(t).of = Normal(t) /\ EntryFor(t).key = KeyFor(t)
        /\ EntryFor(t).value = IF t.kind \in {"x", "u"} THEN BuildPKKey(t.name, t.id) ELSE <<>>
    BY DEF EntryFor
  <1> QED BY <1>1, <1>2, <1>3

\* Keys of entries are the same exactly if the entries are for the same thing.
LEMMA EntriesTell ==
  ASSUME NEW e \in Entry, NEW f \in Entry
  PROVE  e.key = f.key <=> Same(e.of, f.of)
  <1>1. PICK s \in Things : IsThing(s) /\ e.of = Normal(s) /\ e.key = KeyFor(s)
    BY EntryIs
  <1>2. PICK t \in Things : IsThing(t) /\ f.of = Normal(t) /\ f.key = KeyFor(t)
    BY EntryIs
  <1> QED BY <1>1, <1>2, KeysTell

\* The store and the View hold finitely many entries.
StoreInv ==
    /\ store \subseteq Entry /\ IsFiniteSet(store)
    /\ view \subseteq Entry /\ IsFiniteSet(view)
    /\ left \subseteq view
    /\ audit \in {"idle", "walk"}

\* It holds at first, and calls and audits keep it.
LEMMA StoreStart == KInit => StoreInv
  BY FS_EmptySet DEF KInit, StoreInv

LEMMA StoreStep == StoreInv /\ [KNext]_kvars => StoreInv'
  <1> SUFFICES ASSUME StoreInv, [KNext]_kvars PROVE StoreInv'
    OBVIOUS
  <1> USE DEF StoreInv
  <1>1. CASE AuditBegins
    BY <1>1 DEF AuditBegins
  <1>2. CASE AuditKey
    BY <1>2 DEF AuditKey
  <1>3. CASE AuditEnds
    BY <1>3 DEF AuditEnds
  <1>4. CASE AuditFails
    BY <1>4, FS_EmptySet DEF AuditFails
  <1>5. ASSUME NEW e \in Entry, Put(e) PROVE StoreInv'
    <2> DEFINE others == {f \in store : f.key # e.key}
    <2>1. IsFiniteSet(others) /\ store' = others \cup {e}
      BY <1>5, FS_Subset DEF Put
    <2>2. IsFiniteSet(store')
      BY <2>1, FS_AddElement
    <2> QED BY <1>5, <2>1, <2>2 DEF Put
  <1>6. CASE UNCHANGED kvars
    BY <1>6 DEF kvars
  <1> QED BY <1>1, <1>2, <1>3, <1>4, <1>5, <1>6 DEF KNext

\* The store holds entries, in every behaviour.
THEOREM StoreHoldsEntries == KSpec => []StoreInv
  BY StoreStart, StoreStep, PTL DEF KSpec

\* A write replaces what was written for the same thing, and nothing else:
\* no two names, lists of parts or ids share a key by the separators, capitals
\* or blanks in them (index.go's builders, lockKeyForPK).
THEOREM KeysAreNames == KSpec => KeysNameThings
  <1>1. ASSUME StoreInv, [KNext]_kvars, NEW new \in store' \ store, NEW old \in store
        PROVE  Same(new.of, old.of) <=> old \notin store'
    <2>1. store' # store
      OBVIOUS
    <2>2. PICK e \in Entry : Put(e)
      BY <1>1, <2>1 DEF KNext, AuditBegins, AuditKey, AuditEnds, AuditFails, kvars
    <2>3. store' = {f \in store : f.key # e.key} \cup {e}
      BY <2>2 DEF Put
    <2>4. new = e
      BY <2>3
    <2>5. old \notin store' <=> old.key = new.key
      BY <2>3, <2>4
    <2>6. new \in Entry /\ old \in Entry
      BY <1>1, <2>4 DEF StoreInv
    <2>7. Same(new.of, old.of) <=> new.key = old.key
      BY <2>6, EntriesTell
    <2> QED BY <2>5, <2>7
  <1>2. StoreInv /\ [KNext]_kvars =>
           [\A new \in store' \ store, old \in store : Same(new.of, old.of) <=> old \notin store']_kvars
    BY <1>1
  <1> QED BY <1>2, StoreHoldsEntries, PTL DEF KSpec, KeysNameThings

\* In every state every prefix matches the keys it should: BuildPKPrefix those
\* of its table's rows, BuildCompositeIndexPrefix those its parts lead to.
THEOREM PrefixesMatch == KSpec => []PrefixesReach
  <1>1. ASSUME StoreInv PROVE PrefixesReach
    <2> SUFFICES ASSUME NEW e \in store
                 PROVE  /\ \A p \in PKPrefixes :
                              IsPrefix(p.text, e.key) <=> e.of.kind = "d" /\ e.of.name = p.name
                        /\ \A p \in IndexPrefixes :
                              IsPrefix(p.text, e.key) <=> Reaches(p.name, p.parts, e.of)
      BY DEF PrefixesReach
    <2>1. PICK t \in Things : IsThing(t) /\ e.of = Normal(t) /\ e.key = KeyFor(t)
      BY <1>1, EntryIs DEF StoreInv
    <2>2. e.of.kind = t.kind /\ e.of.name = NormalName(t.name) /\ e.of.parts = NormalParts(t.parts)
      BY <2>1, ThingType
    <2>3. Name \subseteq Names /\ Parts \subseteq Seq(Part)
      BY KeySpaceAssumption DEF Names, Part
    <2>4. ASSUME NEW p \in PKPrefixes
          PROVE  IsPrefix(p.text, e.key) <=> e.of.kind = "d" /\ e.of.name = p.name
      <3>1. PICK n \in Name : p.name = NormalName(n) /\ p.text = BuildPKPrefix(n)
        BY DEF PKPrefixes
      <3> QED BY <2>1, <2>2, <2>3, <3>1, RowPrefix
    <2>5. ASSUME NEW p \in IndexPrefixes
          PROVE  IsPrefix(p.text, e.key) <=> Reaches(p.name, p.parts, e.of)
      <3>1. PICK n \in Name, q \in Parts : /\ p.name = NormalName(n) /\ p.parts = NormalParts(q)
                                           /\ p.text = BuildCompositeIndexPrefix(n, q)
        BY DEF IndexPrefixes
      <3>2. IsPrefix(p.text, e.key) <=>
               /\ t.kind = "x" /\ NormalName(t.name) = NormalName(n)
               /\ Leads(NormalParts(q), NormalParts(t.parts))
        BY <2>1, <2>3, <3>1, EntryPrefix
      <3>3. Reaches(p.name, p.parts, e.of) <=>
               e.of.kind = "x" /\ e.of.name = p.name /\ Leads(p.parts, e.of.parts)
        BY DEF Reaches, Leads
      <3> QED BY <2>2, <3>1, <3>2, <3>3
    <2> QED BY <2>4, <2>5
  <1> QED BY <1>1, StoreHoldsEntries, PTL

-----------------------------------------------------------------------------
(* What the audit reads in keys.                                           *)

\* No byte of z is a colon.
Clean(z) == \A j \in 1 .. Len(z) : z[j] # Colon

\* Escaped texts have no colons.
LEMMA EscClean ==
  ASSUME NEW s \in Text
  PROVE  Clean(esc(s))
  <1> DEFINE Good == {n \in Nat : \A t \in Text : Len(t) = n => Clean(esc(t))}
  <1>1. Clean(<<>>)
    BY DEF Clean
  <1>2. ASSUME NEW a \in Text, NEW b \in Text, Clean(a), Clean(b) PROVE Clean(a ++ b)
    <2>1. /\ Len(a) \in Nat /\ Len(b) \in Nat /\ Len(a ++ b) = Len(a) + Len(b)
          /\ \A j \in 1 .. Len(a) + Len(b) : (a ++ b)[j] = IF j <= Len(a) THEN a[j] ELSE b[j - Len(a)]
      BY LenProperties, ConcatProperties DEF Text, ++
    <2> SUFFICES ASSUME NEW j \in 1 .. Len(a) + Len(b) PROVE (a ++ b)[j] # Colon
      BY <2>1 DEF Clean
    <2>2. CASE j <= Len(a)
      BY <1>2, <2>1, <2>2 DEF Clean
    <2>3. CASE ~(j <= Len(a))
      <3>1. j - Len(a) \in 1 .. Len(b)
        BY <2>1, <2>3
      <3> QED BY <1>2, <2>1, <2>3, <3>1 DEF Clean
    <2> QED BY <2>2, <2>3
  <1>3. ASSUME NEW c \in Byte PROVE Clean(byte(c))
    <2>1. CASE Plain(c) /\ byte(c) = <<c>>
      BY <2>1 DEF Clean, Plain, Digit, Upper, Lower, Colon
    <2>2. CASE byte(c) = <<43>>
      BY <2>2 DEF Clean, Colon
    <2>3. CASE byte(c) = <<37, hex(c \div 16), hex(c % 16)>>
      <3>1. \A h \in 0 .. 15 : hex(h) # 58
        BY DEF hex
      <3>2. c \div 16 \in 0 .. 15 /\ c % 16 \in 0 .. 15
        BY DEF Byte
      <3>3. hex(c \div 16) # Colon /\ hex(c % 16) # Colon
        BY <3>1, <3>2 DEF Colon
      <3> QED BY <2>3, <3>3 DEF Clean, Colon
    <2> QED BY <2>1, <2>2, <2>3, ByteForms
  <1>4. 0 \in Good
    <2>1. \A t \in Text : Len(t) = 0 => t = <<>>
      BY EmptySeq DEF Text
    <2> QED BY <1>1, <2>1, EscSteps
  <1>5. ASSUME NEW n \in Good PROVE n + 1 \in Good
    <2> SUFFICES ASSUME NEW t \in Text, Len(t) = n + 1 PROVE Clean(esc(t))
      OBVIOUS
    <2>1. t # <<>>
      OBVIOUS
    <2>2. PICK c \in Byte, r \in Text : t = <<c>> ++ r /\ Len(t) = Len(r) + 1 /\ Len(r) \in Nat
      BY <2>1, TextFirst
    <2>3. Len(r) = n
      BY <2>2
    <2>4. esc(t) = byte(c) ++ esc(r) /\ byte(c) \in Text /\ esc(r) \in Text
      BY <2>2, EscSteps, ByteText
    <2> QED BY <1>2, <1>3, <2>3, <2>4
  <1>6. Good = Nat
    BY <1>4, <1>5, AllNumbers
  <1>7. Len(s) \in Nat
    BY LenProperties DEF Text
  <1> QED BY <1>6, <1>7

\* The first colon, what is behind it and what is before it.
LEMMA FirstColon ==
  ASSUME NEW a \in Text, NEW r \in Text, Clean(a)
  PROVE  LET k == a ++ (<<Colon>> ++ r)
             n == SelectInSeq(k, LAMBDA c : c = Colon)
         IN  n # 0 /\ SubSeq(k, n + 1, Len(k)) = r /\ SubSeq(k, 1, n - 1) = a
  <1> DEFINE k == a ++ (<<Colon>> ++ r)
             I == {j \in 1 .. Len(k) : k[j] = Colon}
             h == a ++ <<Colon>>
  <1>1. <<Colon>> ++ r \in Text /\ k \in Text /\ k = h ++ r /\ h \in Text
    BY Marks, CatText, CatAssoc
  <1>2. /\ Len(a) \in Nat /\ Len(r) \in Nat /\ Len(h) = Len(a) + 1 /\ h[Len(a) + 1] = Colon
        /\ \A j \in 1 .. Len(a) : h[j] = a[j]
    <2>1. Len(a) \in Nat /\ Len(r) \in Nat /\ Len(<<Colon>>) = 1
      BY LenProperties DEF Text
    <2>2. /\ Len(h) = Len(a) + Len(<<Colon>>)
          /\ \A j \in 1 .. Len(a) + Len(<<Colon>>) : h[j] = IF j <= Len(a) THEN a[j] ELSE <<Colon>>[j - Len(a)]
      BY Marks, ConcatProperties DEF Text, ++
    <2>3. \A j \in 1 .. Len(a) + 1 : h[j] = IF j <= Len(a) THEN a[j] ELSE <<Colon>>[j - Len(a)]
      BY <2>1, <2>2
    <2>4. h[Len(a) + 1] = <<Colon>>[(Len(a) + 1) - Len(a)] /\ (Len(a) + 1) - Len(a) = 1
      BY <2>1, <2>3
    <2> HIDE DEF h
    <2> QED BY <2>1, <2>2, <2>3, <2>4, Marks
  <1>3. Len(k) = (Len(a) + 1) + Len(r) /\ \A j \in 1 .. Len(a) + 1 : k[j] = h[j]
    <2> HIDE DEF k, h
    <2>1. /\ Len(k) = Len(h) + Len(r)
          /\ \A j \in 1 .. Len(h) + Len(r) : k[j] = IF j <= Len(h) THEN h[j] ELSE r[j - Len(h)]
      BY <1>1, ConcatProperties DEF Text, ++
    <2> QED BY <1>2, <2>1
  <1> HIDE DEF k, h
  <1>4. Len(a) + 1 \in I /\ \A j \in I : Len(a) + 1 <= j
    BY <1>2, <1>3 DEF Clean
  <1>5. SelectInSeq(k, LAMBDA c : c = Colon) = IF I # {} THEN Min(I) ELSE 0
    BY DEF SelectInSeq
  <1>6. SelectInSeq(k, LAMBDA c : c = Colon) = Len(a) + 1
    <2>1. I \in SUBSET (1 .. Len(k)) /\ Len(k) \in Nat
      BY <1>2, <1>3
    <2> HIDE DEF I
    <2>2. Min(I) \in I /\ \A y \in I : Min(I) <= y
      BY <1>4, <2>1, MinAndMax
    <2>3. Min(I) = Len(a) + 1
      <3>1. Min(I) \in 1 .. Len(k) /\ Min(I) <= Len(a) + 1 /\ Len(a) + 1 <= Min(I)
        BY <1>4, <2>1, <2>2
      <3> QED BY <1>2, <2>1, <3>1
    <2> QED BY <1>4, <1>5, <2>3
  <1>7. SubSeq(k, (Len(a) + 1) + 1, Len(k)) = r
    <2>1. CASE r = <<>>
      <3>1. Len(k) < (Len(a) + 1) + 1 /\ Len(k) \in Int /\ (Len(a) + 1) + 1 \in Int
        BY <1>2, <1>3, <2>1
      <3> QED BY <2>1, <3>1, SubSeqEmpty
    <2>2. CASE r # <<>>
      <3>1. Len(r) # 0
        BY <2>2, EmptySeq DEF Text
      <3>2. /\ (Len(a) + 1) + 1 \in Len(h) + 1 .. Len(h) + Len(r) /\ Len(k) \in Len(h) + 1 .. Len(h) + Len(r)
            /\ ((Len(a) + 1) + 1) - Len(h) = 1 /\ Len(k) - Len(h) = Len(r)
        BY <1>2, <1>3, <3>1
      <3> DEFINE i == (Len(a) + 1) + 1  j == Len(k)
      <3>3. SubSeq(k, i, j) = SubSeq(r, i - Len(h), j - Len(h))
        <4>1. i \in Len(h) + 1 .. Len(h) + Len(r) /\ j \in Len(h) + 1 .. Len(h) + Len(r)
          BY <3>2
        <4> HIDE DEF i, j
        <4>2. SubSeq(h \o r, i, j) = SubSeq(r, i - Len(h), j - Len(h))
          BY <1>1, <4>1, SubSeqOfConcat2 DEF Text
        <4> QED BY <1>1, <4>2 DEF ++
      <3>4. i - Len(h) = 1 /\ j - Len(h) = Len(r)
        BY <3>2
      <3>5. SubSeq(k, i, j) = SubSeq(r, 1, Len(r))
        BY <3>3, <3>4
      <3> QED BY <3>5, SubSeqFull DEF Text
    <2> QED BY <2>1, <2>2
  <1>8. SubSeq(k, 1, (Len(a) + 1) - 1) = a
    <2>1. (Len(a) + 1) - 1 = Len(a)
      BY <1>2
    <2>2. IsPrefix(a, k)
      BY <1>1, PrefixIsFollowed DEF k
    <2> QED BY <2>1, <2>2, SubSeqFull DEF IsPrefix, Text
  <1>9. Len(a) + 1 # 0
    BY <1>2
  <1> QED BY <1>6, <1>7, <1>8, <1>9 DEF k

\* The second segment of a key.
LEMMA SecondSegment ==
  ASSUME NEW a \in Text, NEW b \in Text, NEW r \in Text, Clean(a), Clean(b)
  PROVE  spaceFromKey(a ++ (<<Colon>> ++ (b ++ (<<Colon>> ++ r)))) = b
  <1> DEFINE rest == b ++ (<<Colon>> ++ r)
             k    == a ++ (<<Colon>> ++ rest)
             n    == SelectInSeq(k, LAMBDA c : c = Colon)
             m    == SelectInSeq(rest, LAMBDA c : c = Colon)
  <1>1. rest \in Text
    BY Marks, CatText
  <1>2. n # 0 /\ SubSeq(k, n + 1, Len(k)) = rest
    <2> HIDE DEF rest
    <2> QED BY <1>1, FirstColon
  <1>3. m # 0 /\ SubSeq(rest, 1, m - 1) = b
    BY FirstColon
  <1>4. spaceFromKey(k) =
           LET u == SubSeq(k, n + 1, Len(k))
               w == SelectInSeq(u, LAMBDA c : c = Colon)
           IN  IF n = 0 THEN <<>> ELSE IF w = 0 THEN u ELSE SubSeq(u, 1, w - 1)
    BY Zenon DEF spaceFromKey
  <1> HIDE DEF n, k
  <1>5. spaceFromKey(k) = IF m = 0 THEN rest ELSE SubSeq(rest, 1, m - 1)
    BY <1>2, <1>4
  <1> HIDE DEF m, rest
  <1>6. spaceFromKey(k) = b
    BY <1>3, <1>5
  <1> QED BY <1>6 DEF k, rest

\* A space begins with the escaped first name and a colon.
LEMMA SpaceStarts ==
  ASSUME NEW n \in Names, NEW w \in Text
  PROVE  \E r \in Text : Space(n) ++ w = esc(normalize(n[1])) ++ (<<Colon>> ++ r)
  <1> DEFINE e == esc(normalize(n[1]))  r == Word(n[2]) ++ Word(n[3])
  <1>1. e \in Text /\ r \in Text /\ <<Colon>> ++ r \in Text
    BY NormalText, EscSteps, WordParse, Marks, CatText DEF Names
  <1>2. Space(n) = (e ++ <<Colon>>) ++ r
    BY SpaceWords DEF Word, Names
  <1> HIDE DEF e, r
  <1>3. (e ++ <<Colon>>) ++ r = e ++ (<<Colon>> ++ r)
    BY <1>1, Marks, CatAssoc
  <1>4. (e ++ (<<Colon>> ++ r)) ++ w = e ++ ((<<Colon>> ++ r) ++ w)
    BY <1>1, CatAssoc
  <1>5. (<<Colon>> ++ r) ++ w = <<Colon>> ++ (r ++ w) /\ r ++ w \in Text
    BY <1>1, Marks, CatAssoc, CatText
  <1>6. Space(n) ++ w = e ++ (<<Colon>> ++ (r ++ w))
    BY <1>2, <1>3, <1>4, <1>5
  <1> QED BY <1>5, <1>6 DEF e

\* A few bytes, cut before the last.
LEMMA LastOfTwo ==
  ASSUME NEW d \in Byte, NEW e \in Byte
  PROVE  <<d, e>> = <<d>> ++ <<e>>
  <1>1. <<d, e>> \in Seq(Byte) /\ <<d, e>> # <<>> /\ <<d, e>>[1] = d /\ Tail(<<d, e>>) = <<e>>
    OBVIOUS
  <1> QED BY <1>1, FirstThenTail DEF ++

\* What the keys of locks begin with, cut before its colon.
LEMMA LockSplit == lock_ = <<108, 111, 99, 107>> ++ <<Colon>>
  <1> DEFINE a == 108  b == 111  c == 99  d == 107  e == Colon
  <1>0. a \in Byte /\ b \in Byte /\ c \in Byte /\ d \in Byte /\ e \in Byte
    BY DEF Byte, Colon
  <1> HIDE DEF a, b, c, d, e
  <1>1. \A s \in Seq(Byte) : s # <<>> => s = <<s[1]>> ++ Tail(s)
    BY FirstThenTail DEF ++
  <1>2. /\ <<d, e>> = <<d>> ++ <<e>>
        /\ <<c, d>> = <<c>> ++ <<d>>
        /\ <<c, d, e>> = <<c>> ++ <<d, e>>
        /\ <<b, c, d>> = <<b>> ++ <<c, d>>
        /\ <<b, c, d, e>> = <<b>> ++ <<c, d, e>>
        /\ <<a, b, c, d>> = <<a>> ++ <<b, c, d>>
        /\ <<a, b, c, d, e>> = <<a>> ++ <<b, c, d, e>>
    <2>1. <<d, e>> = <<d>> ++ <<e>> /\ <<c, d>> = <<c>> ++ <<d>>
      BY <1>0, LastOfTwo
    <2>2. /\ <<c, d, e>> \in Seq(Byte) /\ <<c, d, e>> # <<>> /\ <<c, d, e>>[1] = c
          /\ Tail(<<c, d, e>>) = <<d, e>>
          /\ <<b, c, d>> \in Seq(Byte) /\ <<b, c, d>> # <<>> /\ <<b, c, d>>[1] = b
          /\ Tail(<<b, c, d>>) = <<c, d>>
      BY <1>0
    <2>3. /\ <<b, c, d, e>> \in Seq(Byte) /\ <<b, c, d, e>> # <<>> /\ <<b, c, d, e>>[1] = b
          /\ Tail(<<b, c, d, e>>) = <<c, d, e>>
          /\ <<a, b, c, d>> \in Seq(Byte) /\ <<a, b, c, d>> # <<>> /\ <<a, b, c, d>>[1] = a
          /\ Tail(<<a, b, c, d>>) = <<b, c, d>>
      BY <1>0
    <2>4. /\ <<a, b, c, d, e>> \in Seq(Byte) /\ <<a, b, c, d, e>> # <<>> /\ <<a, b, c, d, e>>[1] = a
          /\ Tail(<<a, b, c, d, e>>) = <<b, c, d, e>>
      BY <1>0
    <2>5. <<c, d, e>> = <<c>> ++ <<d, e>> /\ <<b, c, d>> = <<b>> ++ <<c, d>>
      BY <1>1, <2>2
    <2>6. <<b, c, d, e>> = <<b>> ++ <<c, d, e>> /\ <<a, b, c, d>> = <<a>> ++ <<b, c, d>>
      BY <1>1, <2>3
    <2>7. <<a, b, c, d, e>> = <<a>> ++ <<b, c, d, e>>
      BY <1>1, <2>4
    <2> QED BY <2>1, <2>5, <2>6, <2>7
  <1> DEFINE A == <<a>>  B == <<b>>  C == <<c>>  D == <<d>>  E == <<e>>
  <1>3. A \in Text /\ B \in Text /\ C \in Text /\ D \in Text /\ E \in Text
    BY <1>0, SmallTexts
  <1>4. <<a, b, c, d>> = A ++ (B ++ (C ++ D)) /\ <<a, b, c, d, e>> = A ++ (B ++ (C ++ (D ++ E)))
    BY <1>2
  <1> HIDE DEF A, B, C, D, E
  <1>5. (A ++ (B ++ (C ++ D))) ++ E = A ++ (B ++ (C ++ (D ++ E)))
    <2>1. C ++ D \in Text /\ B ++ (C ++ D) \in Text
      BY <1>3, CatText
    <2> QED BY <1>3, <2>1, CatAssoc
  <1>6. <<a, b, c, d, e>> = <<a, b, c, d>> ++ <<e>>
    BY <1>4, <1>5 DEF E
  <1> QED BY <1>6 DEF lock_, a, b, c, d, e

\* The first segments of keys.
LEMMA HeadsSplit ==
  /\ d_ = <<100>> ++ <<Colon>> /\ x_ = <<120>> ++ <<Colon>> /\ u_ = <<117>> ++ <<Colon>>
  /\ lock_ = <<108, 111, 99, 107>> ++ <<Colon>>
  /\ <<100>> \in Text /\ <<120>> \in Text /\ <<117>> \in Text /\ <<108, 111, 99, 107>> \in Text
  /\ Clean(<<100>>) /\ Clean(<<120>>) /\ Clean(<<117>>) /\ Clean(<<108, 111, 99, 107>>)
  <1>1. 100 \in Byte /\ 120 \in Byte /\ 117 \in Byte /\ 108 \in Byte /\ 111 \in Byte /\ 99 \in Byte
        /\ 107 \in Byte /\ Colon \in Byte
    BY DEF Byte, Colon
  <1>2. <<100>> \in Text /\ <<120>> \in Text /\ <<117>> \in Text /\ <<108, 111, 99, 107>> \in Text
    BY DEF Text
  <1>3. Clean(<<100>>) /\ Clean(<<120>>) /\ Clean(<<117>>) /\ Clean(<<108, 111, 99, 107>>)
    BY DEF Clean, Colon
  <1>6. <<100, Colon>> = <<100>> ++ <<Colon>> /\ <<120, Colon>> = <<120>> ++ <<Colon>>
        /\ <<117, Colon>> = <<117>> ++ <<Colon>>
    BY <1>1, LastOfTwo
  <1> QED BY <1>2, <1>3, <1>6, LockSplit DEF d_, x_, u_

\* The space the audit finds in a key: the escaped database, but for locks.
LEMMA SpaceIsRead ==
  ASSUME NEW t, IsThing(t)
  PROVE  spaceFromKey(KeyFor(t)) = IF t.kind = "lock" THEN <<100>> ELSE esc(normalize(t.name[1]))
  <1> DEFINE e == esc(normalize(t.name[1]))
  <1>1. t.kind \in {"d", "x", "u", "lock"} /\ t.name \in Names /\ t.parts \in Seq(Part) /\ t.id \in Text
    BY ThingType
  <1>2. e \in Text /\ Clean(e)
    BY <1>1, NormalText, EscSteps, EscClean DEF Names
  <1>3. ASSUME NEW h \in Text, NEW w \in Text, Clean(h)
        PROVE  spaceFromKey((h ++ <<Colon>>) ++ (Space(t.name) ++ w)) = e
    <2>1. PICK r \in Text : Space(t.name) ++ w = e ++ (<<Colon>> ++ r)
      BY <1>1, SpaceStarts
    <2> HIDE DEF e
    <2>2. e ++ (<<Colon>> ++ r) \in Text
      BY <1>2, Marks, CatText
    <2>3. (h ++ <<Colon>>) ++ (e ++ (<<Colon>> ++ r)) = h ++ (<<Colon>> ++ (e ++ (<<Colon>> ++ r)))
      BY <2>2, Marks, CatAssoc
    <2> QED BY <1>2, <1>3, <2>1, <2>3, SecondSegment
  <1> HIDE DEF e
  <1>4. /\ i_ ++ esc(t.id) \in Text /\ Fields(t.parts) \in Text /\ Space(t.name) \in Text
        /\ Fields(t.parts) ++ (<<35>> ++ (i_ ++ esc(t.id))) \in Text
    BY <1>1, IdParse, FieldsRow, SpaceParse, Heads, CatText DEF Names
  <1>5. CASE t.kind = "d"
    BY <1>3, <1>4, <1>5, KeyIs, HeadsSplit DEF PKTail, e
  <1>6. CASE t.kind = "x"
    BY <1>3, <1>4, <1>6, KeyIs, HeadsSplit DEF XTail, e
  <1>7. CASE t.kind = "u"
    BY <1>3, <1>4, <1>7, KeyIs, HeadsSplit DEF UTail, e
  <1>8. CASE t.kind = "lock"
    <2> DEFINE p == PKTail(t.name, t.id)  h == <<108, 111, 99, 107>>  b == <<100>>
    <2>1. p \in Text
      BY <1>1, KeyForms
    <2>2. KeyFor(t) = (h ++ <<Colon>>) ++ ((b ++ <<Colon>>) ++ p)
      BY <1>8, KeyIs, HeadsSplit
    <2>3. h \in Text /\ b \in Text /\ Clean(h) /\ Clean(b)
      BY HeadsSplit
    <2> HIDE DEF p, h, b
    <2>4. (b ++ <<Colon>>) ++ p = b ++ (<<Colon>> ++ p)
      BY <2>1, <2>3, Marks, CatAssoc
    <2>5. b ++ (<<Colon>> ++ p) \in Text
      BY <2>1, <2>3, Marks, CatText
    <2>6. KeyFor(t) = h ++ (<<Colon>> ++ (b ++ (<<Colon>> ++ p)))
      BY <2>2, <2>3, <2>4, <2>5, Marks, CatAssoc
    <2>7. spaceFromKey(KeyFor(t)) = b
      BY <2>1, <2>3, <2>6, SecondSegment
    <2> QED BY <1>8, <2>7 DEF b
  <1> QED BY <1>1, <1>5, <1>6, <1>7, <1>8

\* The column the audit counts a key in is that of its kind.
LEMMA ColumnIsRead ==
  ASSUME NEW t, IsThing(t)
  PROVE  /\ t.kind = "d" => Column(KeyFor(t)) = "Data"
         /\ t.kind = "x" => Column(KeyFor(t)) = "Idx"
         /\ t.kind = "u" => Column(KeyFor(t)) = "Uniq"
         /\ t.kind = "lock" => Column(KeyFor(t)) = "Lock"
  <1> DEFINE k == KeyFor(t)  n == t.name  id == t.id  ps == t.parts
  <1>1. /\ n \in Names /\ ps \in Seq(Part) /\ id \in Text /\ t.kind \in {"d", "x", "u", "lock"} /\ k \in Text
        /\ PKTail(n, id) \in Text /\ XTail(n, ps, id) \in Text /\ UTail(n, ps) \in Text
        /\ d_ ++ PKTail(n, id) \in Text
    BY ThingType, KeyIs, KeyForms, Heads, CatText
  <1>2. \A h \in {d_, x_, u_, lock_} : IsPrefix(h, k) <=> \E z \in Text : k = h ++ z
    BY <1>1, PrefixIsFollowed, Heads
  <1>3. /\ IsPrefix(d_, k) => k[1] = 100
        /\ IsPrefix(x_, k) => k[1] = 120
        /\ IsPrefix(u_, k) => k[1] = 117
        /\ IsPrefix(lock_, k) => k[1] = 108
    <2> HIDE DEF k
    <2> QED BY <1>2, CatFirst, Heads
  <1>4. /\ t.kind = "d" => IsPrefix(d_, k) /\ k[1] = 100
        /\ t.kind = "x" => IsPrefix(x_, k) /\ k[1] = 120
        /\ t.kind = "u" => IsPrefix(u_, k) /\ k[1] = 117
        /\ t.kind = "lock" => IsPrefix(lock_, k) /\ k[1] = 108
    BY <1>1, <1>2, KeyIs
  <1> HIDE DEF k
  <1>5. /\ t.kind = "d" => Column(k) = "Data"
        /\ t.kind = "x" => Column(k) = "Idx"
        /\ t.kind = "u" => Column(k) = "Uniq"
        /\ t.kind = "lock" => Column(k) = "Lock"
    BY <1>3, <1>4 DEF Column
  <1> QED BY <1>5 DEF k

-----------------------------------------------------------------------------
(* The audit.                                                              *)

\* The entries the walk has come to, and those of a column, of a place in
\* BySpace, and without a row in the View.
Walked      == view \ left
InColumn(c) == {e \in view : Column(e.key) = c}
Place(e)    == <<spaceFromKey(e.key), Column(e.key)>>
At(p)       == {e \in view : Place(e) = p}
Lost        == {e \in view : \A r \in view : r.key # e.value}

ReportWith(bag) ==
    [Total : Nat, Data : Nat, Idx : Nat, Uniq : Nat, Lock : Nat, Unknown : Nat,
     DanglingIdx : Nat, DanglingUniq : Nat, BySpace : {bag}]

\* How often a bag has a thing.
Times(p, B) == IF BagIn(p, B) THEN B[p] ELSE 0

\* As far as the walk has come, the report is exact.
CountInv ==
    /\ report \in ReportWith(report.BySpace)
    /\ audit = "walk" =>
          /\ report.Total = Cardinality(Walked)
          /\ report.Data = Cardinality(Walked \cap InColumn("Data"))
          /\ report.Idx = Cardinality(Walked \cap InColumn("Idx"))
          /\ report.Uniq = Cardinality(Walked \cap InColumn("Uniq"))
          /\ report.Lock = Cardinality(Walked \cap InColumn("Lock"))
          /\ report.Unknown = 0
          /\ report.DanglingIdx = Cardinality(Walked \cap (InColumn("Idx") \cap Lost))
          /\ report.DanglingUniq = Cardinality(Walked \cap (InColumn("Uniq") \cap Lost))
          /\ \A e \in view :
                Times(Place(e), report.BySpace) = Cardinality(Walked \cap At(Place(e)))

\* One more entry counts where it belongs.
LEMMA CountOn ==
  ASSUME NEW W, NEW e, NEW S, IsFiniteSet(W), e \notin W
  PROVE  /\ Cardinality(W \cap S) \in Nat
         /\ Cardinality((W \cup {e}) \cap S) = Cardinality(W \cap S) + (IF e \in S THEN 1 ELSE 0)
  <1>1. IsFiniteSet(W \cap S) /\ Cardinality(W \cap S) \in Nat
    BY FS_Intersection, FS_CardinalityType
  <1>2. CASE e \in S
    <2>1. (W \cup {e}) \cap S = (W \cap S) \cup {e} /\ e \notin W \cap S
      BY <1>2
    <2> QED BY <1>1, <1>2, <2>1, FS_AddElement
  <1>3. CASE e \notin S
    <2> DEFINE n == Cardinality(W \cap S)  m == Cardinality((W \cup {e}) \cap S)
    <2>1. (W \cup {e}) \cap S = W \cap S
      BY <1>3
    <2>2. m = n /\ n \in Nat
      BY <1>1, <2>1
    <2> HIDE DEF n, m
    <2>3. m = n + 0
      BY <2>2
    <2> QED BY <1>1, <1>3, <2>3 DEF n, m
  <1> QED BY <1>2, <1>3, <1>1

\* The empty bag has nothing.
LEMMA NoneYet ==
  ASSUME NEW q
  PROVE  Times(q, EmptyBag) = 0
  BY DEF Times, BagIn, BagToSet, EmptyBag, SetToBag

\* A bag with one thing more.
LEMMA OneMore ==
  ASSUME NEW B, NEW p, NEW q, Times(q, B) \in Nat
  PROVE  Times(q, B (+) SetToBag({p})) = Times(q, B) + (IF q = p THEN 1 ELSE 0)
  <1> DEFINE C == SetToBag({p})  D == B (+) C
  <1>1. DOMAIN C = {p} /\ C[p] = 1
    BY DEF SetToBag
  <1> HIDE DEF C
  <1>2. DOMAIN D = DOMAIN B \cup {p}
    BY <1>1 DEF (+)
  <1>3. \A r \in DOMAIN D : D[r] = (IF r \in DOMAIN B THEN B[r] ELSE 0)
                                     + (IF r \in DOMAIN C THEN C[r] ELSE 0)
    BY DEF (+)
  <1> HIDE DEF D
  <1>4. CASE q \in DOMAIN D
    <2>1. Times(q, D) = (IF q \in DOMAIN B THEN B[q] ELSE 0) + (IF q \in DOMAIN C THEN C[q] ELSE 0)
      BY <1>3, <1>4 DEF Times, BagIn, BagToSet
    <2>2. Times(q, D) = Times(q, B) + (IF q = p THEN 1 ELSE 0)
      BY <1>1, <2>1 DEF Times, BagIn, BagToSet
    <2> QED BY <2>2 DEF D, C
  <1>5. CASE q \notin DOMAIN D
    <2>1. Times(q, D) = Times(q, B) + (IF q = p THEN 1 ELSE 0)
      BY <1>2, <1>5 DEF Times, BagIn, BagToSet
    <2> QED BY <2>1 DEF D, C
  <1> QED BY <1>4, <1>5

\* The columns of entries are those of their kinds.
LEMMA EntryColumn ==
  ASSUME NEW e \in Entry
  PROVE  /\ e.of.kind \in {"d", "x", "u", "lock"}
         /\ e.of.kind = "d" => Column(e.key) = "Data"
         /\ e.of.kind = "x" => Column(e.key) = "Idx"
         /\ e.of.kind = "u" => Column(e.key) = "Uniq"
         /\ e.of.kind = "lock" => Column(e.key) = "Lock"
         /\ Column(e.key) \in Columns
  <1>1. PICK t \in Things : IsThing(t) /\ e.of = Normal(t) /\ e.key = KeyFor(t)
    BY EntryIs
  <1>2. e.of.kind = t.kind /\ t.kind \in {"d", "x", "u", "lock"}
    BY <1>1, ThingType
  <1> QED BY <1>1, <1>2, ColumnIsRead DEF Columns

\* The first report is exact, whatever it is said of.
LEMMA CountStart == KInit => CountInv
  <1> SUFFICES ASSUME KInit PROVE CountInv
    OBVIOUS
  <1>1. report = NoReport /\ audit = "idle"
    BY DEF KInit
  <1>2. NoReport \in ReportWith(NoReport.BySpace)
    BY DEF NoReport, ReportWith
  <1> QED BY <1>1, <1>2 DEF CountInv

\* A report stays one when a key is counted in it.
LEMMA ReportKept ==
  ASSUME NEW old, NEW r \in ReportWith(old), NEW col \in Columns,
         NEW t \in Nat, NEW c \in Nat, NEW i \in Nat, NEW u \in Nat, NEW bag
  PROVE  [r EXCEPT !.Total = t, ![col] = c, !.DanglingIdx = i, !.DanglingUniq = u, !.BySpace = bag]
            \in ReportWith(bag)
  BY DEF ReportWith, Columns

\* The report with one key more, as AuditKey has it.
Counting(r, col, none, space) ==
    [r EXCEPT !.Total = @ + 1,
              ![col] = @ + 1,
              !.DanglingIdx = IF none /\ col = "Idx" THEN @ + 1 ELSE @,
              !.DanglingUniq = IF none /\ col = "Uniq" THEN @ + 1 ELSE @,
              !.BySpace = IF col \in Columns THEN @ (+) space ELSE @]

\* What counting one key does to the report.
LEMMA ReportOfKey ==
  ASSUME NEW old, NEW r \in ReportWith(old), NEW col \in Columns, NEW none \in BOOLEAN, NEW space, NEW new,
         new = Counting(r, col, none, space)
  PROVE  /\ new \in ReportWith(new.BySpace)
         /\ new.Total = r.Total + 1
         /\ new.Data = r.Data + (IF col = "Data" THEN 1 ELSE 0)
         /\ new.Idx = r.Idx + (IF col = "Idx" THEN 1 ELSE 0)
         /\ new.Uniq = r.Uniq + (IF col = "Uniq" THEN 1 ELSE 0)
         /\ new.Lock = r.Lock + (IF col = "Lock" THEN 1 ELSE 0)
         /\ new.Unknown = r.Unknown
         /\ new.DanglingIdx = r.DanglingIdx + (IF none /\ col = "Idx" THEN 1 ELSE 0)
         /\ new.DanglingUniq = r.DanglingUniq + (IF none /\ col = "Uniq" THEN 1 ELSE 0)
         /\ new.BySpace = r.BySpace (+) space
  <1> DEFINE bag == r.BySpace (+) space
             i == IF none /\ col = "Idx" THEN r.DanglingIdx + 1 ELSE r.DanglingIdx
             u == IF none /\ col = "Uniq" THEN r.DanglingUniq + 1 ELSE r.DanglingUniq
             t == r.Total + 1
             c == r[col] + 1
  <1>1. /\ col \in {"Data", "Idx", "Uniq", "Lock"}
        /\ r \in [Total : Nat, Data : Nat, Idx : Nat, Uniq : Nat, Lock : Nat, Unknown : Nat,
                  DanglingIdx : Nat, DanglingUniq : Nat, BySpace : {old}]
    BY DEF ReportWith, Columns
  <1>2. i \in Nat /\ u \in Nat
    BY <1>1
  <1>3. new = [r EXCEPT !.Total = t, ![col] = c,
                        !.DanglingIdx = i, !.DanglingUniq = u, !.BySpace = bag]
    BY <1>1 DEF Counting
  <1>4. /\ new.Data = r.Data + (IF col = "Data" THEN 1 ELSE 0)
        /\ new.Idx = r.Idx + (IF col = "Idx" THEN 1 ELSE 0)
        /\ new.Uniq = r.Uniq + (IF col = "Uniq" THEN 1 ELSE 0)
        /\ new.Lock = r.Lock + (IF col = "Lock" THEN 1 ELSE 0)
    BY <1>1, <1>3
  <1>5. t \in Nat /\ c \in Nat
    BY <1>1
  <1> HIDE DEF i, u, bag, t, c
  <1>6. /\ new.Total = t /\ new.DanglingIdx = i /\ new.DanglingUniq = u
        /\ new.BySpace = bag /\ new.Unknown = r.Unknown
    BY <1>1, <1>3
  <1>7. new \in ReportWith(bag)
    <2>1. [r EXCEPT !.Total = t, ![col] = c, !.DanglingIdx = i, !.DanglingUniq = u, !.BySpace = bag]
             \in ReportWith(bag)
      BY <1>2, <1>5, ReportKept, Zenon
    <2> QED BY <1>3, <2>1, Zenon
  <1>8. /\ i = r.DanglingIdx + (IF none /\ col = "Idx" THEN 1 ELSE 0)
        /\ u = r.DanglingUniq + (IF none /\ col = "Uniq" THEN 1 ELSE 0)
    BY <1>1 DEF i, u
  <1> QED BY <1>4, <1>6, <1>7, <1>8 DEF bag, t

\* Counting goes on being exact while the walk does.
LEMMA CountKey ==
  ASSUME StoreInv, CountInv, AuditKey
  PROVE  CountInv'
  <1>1. PICK e \in left :
           LET col   == Column(e.key)
               none  == col \in {"Idx", "Uniq"} /\ \A r \in view : r.key # e.value
               space == SetToBag({<<spaceFromKey(e.key), col>>})
           IN  /\ audit = "walk"
               /\ left' = left \ {e}
               /\ report' = [report EXCEPT
                    !.Total = @ + 1,
                    ![col] = @ + 1,
                    !.DanglingIdx = IF none /\ col = "Idx" THEN @ + 1 ELSE @,
                    !.DanglingUniq = IF none /\ col = "Uniq" THEN @ + 1 ELSE @,
                    !.BySpace = IF col \in Columns THEN @ (+) space ELSE @]
               /\ UNCHANGED <<store, audit, view>>
    BY DEF AuditKey
  <1> DEFINE col   == Column(e.key)
             none  == col \in {"Idx", "Uniq"} /\ \A r \in view : r.key # e.value
             space == SetToBag({Place(e)})
  <1>2. e \in view /\ e \in Entry /\ e \notin Walked /\ IsFiniteSet(Walked) /\ IsFiniteSet(view)
    <2>1. e \in view /\ e \in Entry /\ e \notin Walked /\ Walked \subseteq view /\ IsFiniteSet(view)
      BY <1>1 DEF StoreInv, Walked
    <2> QED BY <2>1, FS_Subset
  <1>3. col \in Columns /\ none \in BOOLEAN
    BY <1>2, EntryColumn
  <1>4. audit = "walk" /\ audit' = "walk" /\ view' = view /\ Walked' = Walked \cup {e}
    BY <1>1, <1>2 DEF Walked, StoreInv
  <1>5. \A c \in Columns : InColumn(c)' = InColumn(c)
    BY <1>4 DEF InColumn
  <1>6. Lost' = Lost /\ \A f \in view : At(Place(f))' = At(Place(f))
    BY <1>4 DEF Lost, At, Place
  <1>7. \A c \in Columns : e \in InColumn(c) <=> col = c
    BY <1>2 DEF InColumn
  <1>8. \A c \in {"Idx", "Uniq"} : e \in InColumn(c) \cap Lost <=> none /\ col = c
    BY <1>2 DEF InColumn, Lost
  <1>9. \A f \in view : e \in At(Place(f)) <=> Place(f) = Place(e)
    BY <1>2 DEF At
  <1>10. report \in ReportWith(report.BySpace)
    BY DEF CountInv
  <1>11. report' = Counting(report, col, none, space)
    BY <1>1 DEF Place, Counting
  <1> HIDE DEF col, none, space
  <1>12. /\ report' \in ReportWith(report'.BySpace)
         /\ report'.Total = report.Total + 1
         /\ report'.Data = report.Data + (IF col = "Data" THEN 1 ELSE 0)
         /\ report'.Idx = report.Idx + (IF col = "Idx" THEN 1 ELSE 0)
         /\ report'.Uniq = report.Uniq + (IF col = "Uniq" THEN 1 ELSE 0)
         /\ report'.Lock = report.Lock + (IF col = "Lock" THEN 1 ELSE 0)
         /\ report'.Unknown = report.Unknown
         /\ report'.DanglingIdx = report.DanglingIdx + (IF none /\ col = "Idx" THEN 1 ELSE 0)
         /\ report'.DanglingUniq = report.DanglingUniq + (IF none /\ col = "Uniq" THEN 1 ELSE 0)
         /\ report'.BySpace = report.BySpace (+) space
    BY <1>3, <1>10, <1>11, ReportOfKey
  <1>13. \A S : /\ Cardinality(Walked \cap S) \in Nat
                /\ Cardinality((Walked \cup {e}) \cap S)
                      = Cardinality(Walked \cap S) + (IF e \in S THEN 1 ELSE 0)
    BY <1>2, CountOn
  <1>14. report'.Total = Cardinality(Walked')
    <2>1. report.Total = Cardinality(Walked)
      BY <1>4 DEF CountInv
    <2>2. Cardinality(Walked') = Cardinality(Walked) + 1
      BY <1>2, <1>4, FS_AddElement
    <2> QED BY <1>12, <2>1, <2>2
  <1>15. /\ report'.Data = Cardinality(Walked' \cap InColumn("Data")')
         /\ report'.Idx = Cardinality(Walked' \cap InColumn("Idx")')
         /\ report'.Uniq = Cardinality(Walked' \cap InColumn("Uniq")')
         /\ report'.Lock = Cardinality(Walked' \cap InColumn("Lock")')
    <2>1. "Data" \in Columns /\ "Idx" \in Columns /\ "Uniq" \in Columns /\ "Lock" \in Columns
      BY DEF Columns
    <2>2. /\ report.Data = Cardinality(Walked \cap InColumn("Data"))
          /\ report.Idx = Cardinality(Walked \cap InColumn("Idx"))
          /\ report.Uniq = Cardinality(Walked \cap InColumn("Uniq"))
          /\ report.Lock = Cardinality(Walked \cap InColumn("Lock"))
      BY <1>4 DEF CountInv
    <2>3. \A c \in Columns : Cardinality(Walked' \cap InColumn(c)')
                                = Cardinality(Walked \cap InColumn(c)) + (IF col = c THEN 1 ELSE 0)
      BY <1>4, <1>5, <1>7, <1>13
    <2> QED BY <1>12, <2>1, <2>2, <2>3
  <1>16. /\ report'.DanglingIdx = Cardinality(Walked' \cap (InColumn("Idx")' \cap Lost'))
         /\ report'.DanglingUniq = Cardinality(Walked' \cap (InColumn("Uniq")' \cap Lost'))
    <2>1. "Idx" \in Columns /\ "Uniq" \in Columns
      BY DEF Columns
    <2>2. /\ report.DanglingIdx = Cardinality(Walked \cap (InColumn("Idx") \cap Lost))
          /\ report.DanglingUniq = Cardinality(Walked \cap (InColumn("Uniq") \cap Lost))
      BY <1>4 DEF CountInv
    <2>3. /\ Cardinality(Walked' \cap (InColumn("Idx")' \cap Lost'))
                = Cardinality(Walked \cap (InColumn("Idx") \cap Lost)) + (IF none /\ col = "Idx" THEN 1 ELSE 0)
          /\ Cardinality(Walked' \cap (InColumn("Uniq")' \cap Lost'))
                = Cardinality(Walked \cap (InColumn("Uniq") \cap Lost)) + (IF none /\ col = "Uniq" THEN 1 ELSE 0)
      BY <1>4, <1>5, <1>6, <1>8, <1>13, <2>1
    <2> QED BY <1>12, <2>2, <2>3
  <1>17. ASSUME NEW f \in view
         PROVE  Times(Place(f), report'.BySpace) = Cardinality(Walked' \cap At(Place(f))')
    <2>1. Times(Place(f), report.BySpace) = Cardinality(Walked \cap At(Place(f)))
      BY <1>4 DEF CountInv
    <2>2. Times(Place(f), report'.BySpace)
             = Times(Place(f), report.BySpace) + (IF Place(f) = Place(e) THEN 1 ELSE 0)
      <3>1. Times(Place(f), report.BySpace) \in Nat
        BY <1>13, <2>1
      <3>2. report'.BySpace = report.BySpace (+) SetToBag({Place(e)})
        BY <1>12 DEF space
      <3> DEFINE p == Place(e)  q == Place(f)  B == report.BySpace
      <3>3. Times(q, B) \in Nat
        BY <3>1
      <3> HIDE DEF p, q, B
      <3>4. Times(q, B (+) SetToBag({p})) = Times(q, B) + (IF q = p THEN 1 ELSE 0)
        BY <3>3, OneMore
      <3> QED BY <3>2, <3>4 DEF p, q, B
    <2>3. Cardinality(Walked' \cap At(Place(f))')
             = Cardinality(Walked \cap At(Place(f))) + (IF Place(f) = Place(e) THEN 1 ELSE 0)
      BY <1>4, <1>6, <1>9, <1>13
    <2> QED BY <2>1, <2>2, <2>3
  <1>18. report'.Unknown = 0
    BY <1>4, <1>12 DEF CountInv
  <1> QED BY <1>4, <1>12, <1>14, <1>15, <1>16, <1>17, <1>18 DEF CountInv

\* The report stays exact over every step.
LEMMA CountStep == StoreInv /\ CountInv /\ [KNext]_kvars => CountInv'
  <1> SUFFICES ASSUME StoreInv, CountInv, [KNext]_kvars PROVE CountInv'
    OBVIOUS
  <1>1. report \in ReportWith(report.BySpace)
    BY DEF CountInv
  <1>2. NoReport \in ReportWith(NoReport.BySpace)
    BY DEF NoReport, ReportWith
  <1>3. CASE AuditBegins
    <2>1. view' = left' /\ report' = NoReport
      BY <1>3 DEF AuditBegins
    <2>2. Walked' = {}
      BY <2>1 DEF Walked
    <2>3. \A S : Cardinality(Walked' \cap S) = 0
      <3>1. \A S : {} \cap S = {}
        OBVIOUS
      <3> QED BY <2>2, <3>1, FS_EmptySet
    <2>4. Cardinality(Walked') = 0
      BY <2>2, FS_EmptySet
    <2>5. /\ report'.Total = 0 /\ report'.Data = 0 /\ report'.Idx = 0 /\ report'.Uniq = 0
          /\ report'.Lock = 0 /\ report'.Unknown = 0 /\ report'.DanglingIdx = 0
          /\ report'.DanglingUniq = 0 /\ report'.BySpace = EmptyBag
      BY <2>1 DEF NoReport
    <2>6. \A e \in view' : Times(Place(e), report'.BySpace) = 0
      BY <2>5, NoneYet
    <2>7. report' \in ReportWith(report'.BySpace)
      BY <1>2, <2>1
    <2> QED BY <2>3, <2>4, <2>5, <2>6, <2>7 DEF CountInv
  <1>4. CASE AuditKey
    BY <1>4, CountKey
  <1>5. CASE AuditEnds
    BY <1>1, <1>5 DEF AuditEnds, CountInv
  <1>6. CASE AuditFails
    BY <1>2, <1>6 DEF AuditFails, CountInv
  <1>7. ASSUME UNCHANGED <<audit, view, left, report>>
        PROVE  CountInv'
    BY <1>7 DEF CountInv, Walked, InColumn, Lost, At
  <1>8. ASSUME NEW e \in Entry, Put(e) PROVE CountInv'
    BY <1>7, <1>8 DEF Put
  <1>9. CASE UNCHANGED kvars
    BY <1>7, <1>9 DEF kvars
  <1> QED BY <1>3, <1>4, <1>5, <1>6, <1>8, <1>9 DEF KNext

\* As far as an audit has come its report is exact, in every behaviour.
THEOREM CountsAreExact == KSpec => []CountInv
  BY CountStart, CountStep, StoreHoldsEntries, PTL DEF KSpec

\* Every variable keeps its type, and the audit's walk loses no key
\* (AuditKeyspace).
THEOREM KeySpaceTypes == KSpec => []KTypeOK
  <1>1. StoreInv /\ CountInv => KTypeOK
    BY DEF StoreInv, CountInv, KTypeOK, Walked
  <1> QED BY <1>1, CountsAreExact, StoreHoldsEntries, PTL

\* The key that an index entry refers to is that of its row.
LEMMA ValueIsRowKey ==
  ASSUME NEW e \in Entry, e.of.kind \in {"x", "u"}, NEW r \in Entry
  PROVE  /\ r.key = e.value <=> Same(r.of, [e.of EXCEPT !.kind = "d", !.parts = <<>>])
         /\ r.key = e.value => r.of.kind = "d"
  <1>1. PICK t \in Things : /\ IsThing(t) /\ e.of = Normal(t)
                            /\ e.value = IF t.kind \in {"x", "u"} THEN BuildPKKey(t.name, t.id) ELSE <<>>
    BY EntryIs
  <1>2. PICK s \in Things : IsThing(s) /\ r.of = Normal(s) /\ r.key = KeyFor(s)
    BY EntryIs
  <1>3. /\ t.kind \in {"x", "u"} /\ t.name \in Names /\ t.parts \in Seq(Part) /\ t.id \in Text
        /\ e.of = [kind |-> t.kind, name |-> NormalName(t.name), parts |-> NormalParts(t.parts), id |-> t.id]
    BY <1>1, ThingType
  <1> DEFINE row == [kind |-> "d", name |-> t.name, parts |-> <<>>, id |-> t.id]
  <1>4. IsThing(row)
    BY <1>3 DEF IsThing, Names
  <1>5. KeyFor(row) = e.value
    BY <1>1, <1>3 DEF KeyFor
  <1>6. Normal(row) = [kind |-> "d", name |-> NormalName(t.name), parts |-> <<>>, id |-> t.id]
    <2>1. NormalParts(<<>>) = <<>>
      BY DEF NormalParts
    <2> QED BY <1>4, <2>1, ThingType
  <1>7. [e.of EXCEPT !.kind = "d", !.parts = <<>>]
           = [kind |-> "d", name |-> NormalName(t.name), parts |-> <<>>, id |-> t.id]
    <2> DEFINE k == t.kind  n == NormalName(t.name)  p == NormalParts(t.parts)  i == t.id  o == e.of
           u == [o EXCEPT !.kind = "d", !.parts = <<>>]
    <2>1. o = [kind |-> k, name |-> n, parts |-> p, id |-> i]
      BY <1>3
    <2> HIDE DEF k, n, p, i, o
    <2>2. o \in [kind : {k}, name : {n}, parts : {p}, id : {i}]
      BY <2>1
    <2>3. u \in [kind : {"d"}, name : {n}, parts : {<<>>}, id : {i}]
      BY <2>2
    <2> HIDE DEF u
    <2>4. u = [kind |-> "d", name |-> n, parts |-> <<>>, id |-> i]
      BY <2>3
    <2> QED BY <2>4 DEF u, n, i, o
  <1> HIDE DEF row
  <1>8. r.key = e.value <=> Same(r.of, Normal(row))
    BY <1>2, <1>4, <1>5, KeysTell
  <1>9. Same(r.of, Normal(row)) => r.of.kind = "d"
    BY <1>6 DEF Same
  <1> QED BY <1>6, <1>7, <1>8, <1>9

\* The space the audit finds in an entry's key.
LEMMA EntrySpace ==
  ASSUME NEW e \in Entry
  PROVE  spaceFromKey(e.key) = SpaceOf(e)
  <1>1. PICK t \in Things : IsThing(t) /\ e.of = Normal(t) /\ e.key = KeyFor(t)
    BY EntryIs
  <1>2. e.of.kind = t.kind /\ e.of.name = NormalName(t.name)
    BY <1>1, ThingType
  <1>3. NormalName(t.name)[1] = normalize(t.name[1])
    BY DEF NormalName
  <1> QED BY <1>1, <1>2, <1>3, SpaceIsRead DEF SpaceOf

\* An audit that has come to every key counts them exactly (AuditKeyspace),
\* whatever texts the keys are made of.
THEOREM AuditsAreExact == KSpec => []AuditIsExact
  <1>1. ASSUME StoreInv, CountInv PROVE AuditIsExact
    <2> SUFFICES ASSUME audit = "walk", left = {}
                 PROVE  /\ report.Unknown = 0
                        /\ report.Data = Cardinality(Of("d")) /\ report.Idx = Cardinality(Of("x"))
                        /\ report.Uniq = Cardinality(Of("u")) /\ report.Lock = Cardinality(Of("lock"))
                        /\ report.DanglingIdx = Cardinality({e \in Of("x") : Rowless(e)})
                        /\ report.DanglingUniq = Cardinality({e \in Of("u") : Rowless(e)})
                        /\ \A e \in view :
                              /\ BagIn(<<SpaceOf(e), Column(e.key)>>, report.BySpace)
                              /\ report.BySpace[<<SpaceOf(e), Column(e.key)>>]
                                    = Cardinality({f \in Of(e.of.kind) : SpaceOf(f) = SpaceOf(e)})
      BY DEF AuditIsExact
    <2>1. Walked = view /\ view \subseteq Entry /\ IsFiniteSet(view)
      BY <1>1 DEF Walked, StoreInv
    <2>2. \A e \in view :
             /\ e.of.kind \in {"d", "x", "u", "lock"}
             /\ e.of.kind = "d" => Column(e.key) = "Data"
             /\ e.of.kind = "x" => Column(e.key) = "Idx"
             /\ e.of.kind = "u" => Column(e.key) = "Uniq"
             /\ e.of.kind = "lock" => Column(e.key) = "Lock"
      BY <2>1, EntryColumn
    <2>3. /\ view \cap InColumn("Data") = Of("d") /\ view \cap InColumn("Idx") = Of("x")
          /\ view \cap InColumn("Uniq") = Of("u") /\ view \cap InColumn("Lock") = Of("lock")
      BY <2>2 DEF InColumn, Of
    <2>4. ASSUME NEW e \in view, e.of.kind \in {"x", "u"}
          PROVE  e \in Lost <=> Rowless(e)
      <3>1. \A r \in view : /\ r.key = e.value <=> Same(r.of, [e.of EXCEPT !.kind = "d", !.parts = <<>>])
                            /\ r.key = e.value => r.of.kind = "d"
        BY <2>1, <2>4, ValueIsRowKey
      <3> QED BY <3>1 DEF Lost, Rowless, Of
    <2>5. /\ view \cap (InColumn("Idx") \cap Lost) = {e \in Of("x") : Rowless(e)}
          /\ view \cap (InColumn("Uniq") \cap Lost) = {e \in Of("u") : Rowless(e)}
      <3>1. \A e \in view : e.of.kind \in {"x", "u"} => (e \in Lost <=> Rowless(e))
        BY <2>4
      <3>2. \A e \in view : /\ e \in InColumn("Idx") <=> e.of.kind = "x"
                            /\ e \in InColumn("Uniq") <=> e.of.kind = "u"
        BY <2>2 DEF InColumn
      <3> QED BY <3>1, <3>2 DEF Of
    <2>6. ASSUME NEW e \in view
          PROVE  /\ BagIn(<<SpaceOf(e), Column(e.key)>>, report.BySpace)
                 /\ report.BySpace[<<SpaceOf(e), Column(e.key)>>]
                       = Cardinality({f \in Of(e.of.kind) : SpaceOf(f) = SpaceOf(e)})
      <3>1. \A f \in view : Place(f) = <<SpaceOf(f), Column(f.key)>>
        BY <2>1, EntrySpace DEF Place
      <3>2. \A f \in view : Column(f.key) = Column(e.key) <=> f.of.kind = e.of.kind
        BY <2>2
      <3>3. view \cap At(Place(e)) = {f \in Of(e.of.kind) : SpaceOf(f) = SpaceOf(e)}
        BY <3>1, <3>2 DEF At, Of
      <3>4. Times(Place(e), report.BySpace) = Cardinality(view \cap At(Place(e)))
        BY <1>1, <2>1 DEF CountInv
      <3>5. Cardinality(view \cap At(Place(e))) # 0
        <4>1. e \in view \cap At(Place(e)) /\ IsFiniteSet(view \cap At(Place(e)))
          BY <2>1, FS_Intersection DEF At
        <4> QED BY <4>1, FS_EmptySet
      <3>6. BagIn(Place(e), report.BySpace) /\ Times(Place(e), report.BySpace) = report.BySpace[Place(e)]
        BY <3>4, <3>5 DEF Times
      <3> QED BY <3>1, <3>3, <3>4, <3>6
    <2>7. /\ report.Unknown = 0
          /\ report.Data = Cardinality(Of("d")) /\ report.Idx = Cardinality(Of("x"))
          /\ report.Uniq = Cardinality(Of("u")) /\ report.Lock = Cardinality(Of("lock"))
          /\ report.DanglingIdx = Cardinality({e \in Of("x") : Rowless(e)})
          /\ report.DanglingUniq = Cardinality({e \in Of("u") : Rowless(e)})
      BY <1>1, <2>1, <2>3, <2>5 DEF CountInv
    <2> QED BY <2>6, <2>7
  <1> QED BY <1>1, CountsAreExact, StoreHoldsEntries, PTL

-----------------------------------------------------------------------------
(* Padded numbers.                                                         *)

\* f cuts digits off n one by one, up to k of them.
Cuts(f, n, k) == f = [i \in 0 .. k |-> IF i = 0 THEN n ELSE f[i - 1] \div 10]

\* What that says of each.
LEMMA CutsSteps ==
  ASSUME NEW f, NEW n \in Nat, NEW k \in Nat, Cuts(f, n, k)
  PROVE  /\ f[0] = n
         /\ \A i \in 0 .. k - 1 : f[i + 1] = f[i] \div 10
  <1>1. \A i \in 0 .. k : f[i] = IF i = 0 THEN n ELSE f[i - 1] \div 10
    BY DEF Cuts
  <1>2. 0 \in 0 .. k
    OBVIOUS
  <1>3. ASSUME NEW i \in 0 .. k - 1 PROVE f[i + 1] = f[i] \div 10
    <2>1. i + 1 \in 0 .. k /\ i + 1 # 0 /\ (i + 1) - 1 = i
      OBVIOUS
    <2> QED BY <1>1, <2>1
  <1> QED BY <1>1, <1>2, <1>3

\* There is one such function for each number of digits.
LEMMA CutsExist ==
  ASSUME NEW n \in Nat, NEW k \in Nat
  PROVE  \E f : Cuts(f, n, k)
  <1> DEFINE Good == {j \in Nat : \E f : Cuts(f, n, j)}
  <1>1. 0 \in Good
    <2>1. Cuts([i \in 0 .. 0 |-> n], n, 0)
      BY DEF Cuts
    <2> QED BY <2>1
  <1>2. ASSUME NEW j \in Good PROVE j + 1 \in Good
    <2>1. PICK f : Cuts(f, n, j)
      OBVIOUS
    <2> DEFINE g == [i \in 0 .. (j + 1) |-> IF i = j + 1 THEN f[j] \div 10 ELSE f[i]]
    <2>2. ASSUME NEW i \in 0 .. (j + 1)
          PROVE  g[i] = IF i = 0 THEN n ELSE g[i - 1] \div 10
      <3>1. CASE i = j + 1
        <4>1. i # 0 /\ i - 1 = j /\ j \in 0 .. (j + 1) /\ j # j + 1
          BY <3>1
        <4>2. g[j] = f[j]
          BY <4>1
        <4> QED BY <3>1, <4>1, <4>2
      <3>2. CASE i # j + 1
        <4>1. i \in 0 .. j /\ (i # 0 => i - 1 \in 0 .. (j + 1) /\ i - 1 # j + 1)
          BY <3>2
        <4>2. f[i] = IF i = 0 THEN n ELSE f[i - 1] \div 10
          BY <2>1, <4>1 DEF Cuts
        <4>3. g[i] = f[i] /\ (i # 0 => g[i - 1] = f[i - 1])
          BY <3>2, <4>1
        <4> QED BY <4>2, <4>3
      <3> QED BY <3>1, <3>2
    <2>3. Cuts(g, n, j + 1)
      <3>1. g = [i \in 0 .. (j + 1) |-> g[i]]
        OBVIOUS
      <3> HIDE DEF g
      <3>2. g = [i \in 0 .. (j + 1) |-> IF i = 0 THEN n ELSE g[i - 1] \div 10]
        BY <2>2, <3>1
      <3> QED BY <3>2 DEF Cuts
    <2> QED BY <2>3
  <1>3. Good = Nat
    BY <1>1, <1>2, AllNumbers
  <1> QED BY <1>3

\* Two of them agree as far as both go.
LEMMA CutsAgree ==
  ASSUME NEW n \in Nat, NEW k \in Nat, NEW m \in Nat, NEW f, NEW g,
         Cuts(f, n, k), Cuts(g, n, m), k <= m
  PROVE  f[k] = g[k]
  <1> DEFINE Good == {j \in Nat : j <= k => f[j] = g[j] /\ f[j] \in Nat}
  <1>1. 0 \in Good
    BY CutsSteps
  <1>2. ASSUME NEW j \in Good PROVE j + 1 \in Good
    <2> SUFFICES ASSUME j + 1 <= k PROVE f[j + 1] = g[j + 1] /\ f[j + 1] \in Nat
      OBVIOUS
    <2>1. j \in 0 .. k - 1 /\ j \in 0 .. m - 1 /\ f[j] = g[j] /\ f[j] \in Nat
      OBVIOUS
    <2>2. f[j + 1] = f[j] \div 10 /\ g[j + 1] = g[j] \div 10
      BY <2>1, CutsSteps
    <2> QED BY <2>1, <2>2
  <1>3. Good = Nat
    BY <1>1, <1>2, AllNumbers
  <1> QED BY <1>3

\* Cutting digits off one by one.
LEMMA CutSteps ==
  ASSUME NEW n \in Nat
  PROVE  /\ Cut(n, 0) = n
         /\ \A k \in Nat : Cut(n, k) \in Nat /\ Cut(n, k + 1) = Cut(n, k) \div 10
  <1> DEFINE F(k) == CHOOSE f : Cuts(f, n, k)
  <1>1. \A k \in Nat : Cuts(F(k), n, k)
    BY CutsExist
  <1>2. \A k \in Nat : Cut(n, k) = F(k)[k]
    BY Zenon DEF Cut, Cuts
  <1> HIDE DEF F
  <1>3. Cut(n, 0) = n
    BY <1>1, <1>2, CutsSteps
  <1>4. ASSUME NEW k \in Nat PROVE Cut(n, k + 1) = Cut(n, k) \div 10
    <2>1. k + 1 \in Nat /\ k <= k + 1 /\ k \in 0 .. (k + 1) - 1
      OBVIOUS
    <2>2. F(k)[k] = F(k + 1)[k]
      BY <1>1, <2>1, CutsAgree
    <2>3. F(k + 1)[k + 1] = F(k + 1)[k] \div 10
      <3> DEFINE g == F(k + 1)  m == k + 1
      <3>1. Cuts(g, n, m) /\ m \in Nat /\ k \in 0 .. m - 1
        BY <1>1, <2>1
      <3> HIDE DEF g, m
      <3>2. g[k + 1] = g[k] \div 10
        BY <3>1, CutsSteps
      <3> QED BY <3>2 DEF g, m
    <2> QED BY <1>2, <2>1, <2>2, <2>3
  <1> DEFINE Good == {k \in Nat : Cut(n, k) \in Nat}
  <1>5. 0 \in Good
    BY <1>3
  <1>6. ASSUME NEW k \in Good PROVE k + 1 \in Good
    BY <1>4
  <1>7. Good = Nat
    BY <1>5, <1>6, AllNumbers
  <1> QED BY <1>3, <1>4, <1>7

\* A list of digits.
LEMMA DigitsText ==
  ASSUME NEW n \in Nat, NEW len \in Nat
  PROVE  /\ Digits(n, len) \in Text /\ Len(Digits(n, len)) = len
         /\ \A i \in 1 .. len : /\ Digits(n, len)[i] = 48 + (Cut(n, len - i) % 10)
                                /\ Digits(n, len)[i] \in 48 .. 57
  <1> DEFINE d == Digits(n, len)
  <1>1. \A i \in 1 .. len : len - i \in Nat
    OBVIOUS
  <1>2. \A i \in 1 .. len : Cut(n, len - i) \in Nat
    BY <1>1, CutSteps
  <1>3. d = [j \in 1 .. len |-> 48 + (Cut(n, len - j) % 10)]
    BY DEF Digits
  <1> HIDE DEF d
  <1>4. \A i \in 1 .. len : d[i] = 48 + (Cut(n, len - i) % 10) /\ d[i] \in 48 .. 57
    <2> SUFFICES ASSUME NEW i \in 1 .. len
                 PROVE  d[i] = 48 + (Cut(n, len - i) % 10) /\ d[i] \in 48 .. 57
      OBVIOUS
    <2> DEFINE c == Cut(n, len - i)
    <2>1. c \in Nat
      BY <1>2
    <2>2. d[i] = 48 + (c % 10)
      BY <1>3
    <2> HIDE DEF c
    <2>3. 48 + (c % 10) \in 48 .. 57
      BY <2>1
    <2> QED BY <2>2, <2>3 DEF c
  <1>5. d \in [1 .. len -> 0 .. 127]
    BY <1>3, <1>4
  <1>6. d \in Seq(0 .. 127) /\ Len(d) = len
    BY <1>5
  <1> QED BY <1>4, <1>6 DEF Text, d

\* Whatever is cut off, a smaller rest is of a smaller number.
LEMMA CutRises ==
  ASSUME NEW p \in Nat, NEW q \in Nat, NEW k \in Nat, Cut(p, k) < Cut(q, k)
  PROVE  p < q
  <1> DEFINE Good == {j \in Nat : Cut(p, j) < Cut(q, j) => p < q}
  <1>1. 0 \in Good
    BY CutSteps
  <1>2. ASSUME NEW j \in Good PROVE j + 1 \in Good
    <2>1. /\ Cut(p, j) \in Nat /\ Cut(q, j) \in Nat
          /\ Cut(p, j + 1) = Cut(p, j) \div 10 /\ Cut(q, j + 1) = Cut(q, j) \div 10
      BY CutSteps
    <2>2. Cut(p, j + 1) < Cut(q, j + 1) => Cut(p, j) < Cut(q, j)
      BY <2>1
    <2> QED BY <2>2
  <1>3. Good = Nat
    BY <1>1, <1>2, AllNumbers
  <1> QED BY <1>3

\* Numbers whose first digits are the same.
LEMMA SameDigits ==
  ASSUME NEW p \in Nat, NEW q \in Nat, NEW len \in Nat, Cut(p, len) = 0, Cut(q, len) = 0,
         NEW j \in 0 .. len, \A i \in 1 .. j : Digits(p, len)[i] = Digits(q, len)[i]
  PROVE  Cut(p, len - j) = Cut(q, len - j)
  <1> DEFINE Good == {i \in Nat : i <= j => Cut(p, len - i) = Cut(q, len - i)}
  <1>1. 0 \in Good
    <2>1. len - 0 = len
      OBVIOUS
    <2> QED BY <2>1
  <1>2. ASSUME NEW i \in Good PROVE i + 1 \in Good
    <2> SUFFICES ASSUME i + 1 <= j PROVE Cut(p, len - (i + 1)) = Cut(q, len - (i + 1))
      OBVIOUS
    <2> DEFINE m == len - (i + 1)
    <2>1. m \in Nat /\ m + 1 = len - i /\ i + 1 \in 1 .. j /\ i + 1 \in 1 .. len
      OBVIOUS
    <2>2. Digits(p, len)[i + 1] = 48 + (Cut(p, m) % 10) /\ Digits(q, len)[i + 1] = 48 + (Cut(q, m) % 10)
      BY <2>1, DigitsText
    <2>3. Digits(p, len)[i + 1] = Digits(q, len)[i + 1] /\ Cut(p, len - i) = Cut(q, len - i)
      BY <2>1
    <2> HIDE DEF m
    <2>4. /\ Cut(p, m) \in Nat /\ Cut(q, m) \in Nat
          /\ Cut(p, m + 1) = Cut(p, m) \div 10 /\ Cut(q, m + 1) = Cut(q, m) \div 10
      BY <2>1, CutSteps
    <2>5. Cut(p, m) % 10 = Cut(q, m) % 10 /\ Cut(p, m) \div 10 = Cut(q, m) \div 10
      BY <2>1, <2>2, <2>3, <2>4
    <2>6. Cut(p, m) = Cut(q, m)
      BY <2>4, <2>5
    <2> QED BY <2>6 DEF m
  <1>3. Good = Nat
    BY <1>1, <1>2, AllNumbers
  <1> QED BY <1>3

\* Texts that differ first in a byte which is less in the one.
SortsBelow(s, t) == \E j \in DOMAIN s \cap DOMAIN t : s[j] < t[j] /\ \A k \in 1 .. j - 1 : s[k] = t[k]

\* Such digits are of a smaller number.
LEMMA SortsBelowIsLess ==
  ASSUME NEW p \in Nat, NEW q \in Nat, NEW len \in Nat, Cut(p, len) = 0, Cut(q, len) = 0,
         NEW j \in 1 .. len, Digits(p, len)[j] < Digits(q, len)[j],
         \A k \in 1 .. j - 1 : Digits(p, len)[k] = Digits(q, len)[k]
  PROVE  p < q
  <1> DEFINE m == len - j
  <1>1. m \in Nat /\ m + 1 = len - (j - 1) /\ j - 1 \in 0 .. len
    OBVIOUS
  <1>2. Cut(p, m + 1) = Cut(q, m + 1)
    BY <1>1, SameDigits
  <1>3. 48 + (Cut(p, m) % 10) < 48 + (Cut(q, m) % 10)
    BY DigitsText
  <1> HIDE DEF m
  <1>4. /\ Cut(p, m) \in Nat /\ Cut(q, m) \in Nat
        /\ Cut(p, m + 1) = Cut(p, m) \div 10 /\ Cut(q, m + 1) = Cut(q, m) \div 10
    BY <1>1, CutSteps
  <1>5. Cut(p, m) < Cut(q, m)
    BY <1>2, <1>3, <1>4
  <1> QED BY <1>1, <1>5, CutRises

\* The order of lists of digits is that of the numbers.
LEMMA DigitsInOrder ==
  ASSUME NEW p \in Nat, NEW q \in Nat, NEW len \in Nat, Cut(p, len) = 0, Cut(q, len) = 0
  PROVE  SortsBelow(Digits(p, len), Digits(q, len)) <=> p < q
  <1> DEFINE s == Digits(p, len)  t == Digits(q, len)
  <1>1. /\ s \in Text /\ t \in Text /\ DOMAIN s = 1 .. len /\ DOMAIN t = 1 .. len
        /\ \A i \in 1 .. len : s[i] \in Nat /\ t[i] \in Nat
    <2>1. s \in Text /\ t \in Text /\ Len(s) = len /\ Len(t) = len
          /\ \A i \in 1 .. len : s[i] \in 48 .. 57 /\ t[i] \in 48 .. 57
      BY DigitsText
    <2> HIDE DEF s, t
    <2> QED BY <2>1 DEF Text
  <1>2. ASSUME SortsBelow(s, t) PROVE p < q
    BY <1>1, <1>2, SortsBelowIsLess DEF SortsBelow
  <1>3. ASSUME p < q PROVE SortsBelow(s, t)
    <2> DEFINE D == {i \in 1 .. len : s[i] # t[i]}
    <2>1. D # {}
      <3> SUFFICES ASSUME D = {} PROVE FALSE
        OBVIOUS
      <3>1. \A i \in 1 .. len : s[i] = t[i]
        OBVIOUS
      <3>2. len \in 0 .. len /\ len - len = 0
        OBVIOUS
      <3>3. Cut(p, 0) = Cut(q, 0)
        BY <3>1, <3>2, SameDigits
      <3> QED BY <1>3, <3>3, CutSteps
    <2>2. PICK j \in D : \A i \in D : j <= i
      <3>1. IsWellFoundedOn(Below, Nat)
        BY NatLessThanWellFounded DEF OpToRel, Below
      <3>2. D \in SUBSET Nat
        OBVIOUS
      <3>3. PICK j \in D : \A i \in D : <<i, j>> \notin Below
        BY <2>1, <3>1, <3>2, WFMin
      <3>4. ASSUME NEW i \in D PROVE j <= i
        <4>1. i \in Nat /\ j \in Nat /\ <<i, j>> \notin Below
          BY <3>2, <3>3
        <4> QED BY <4>1 DEF Below
      <3> QED BY <3>4
    <2>3. j \in 1 .. len /\ s[j] # t[j] /\ \A i \in 1 .. j - 1 : s[i] = t[i]
      BY <2>2
    <2>4. CASE t[j] < s[j]
      <3>1. q < p
        BY <2>3, <2>4, SortsBelowIsLess
      <3> QED BY <1>3, <3>1
    <2>5. CASE s[j] < t[j]
      BY <1>1, <2>3, <2>5 DEF SortsBelow
    <2>6. s[j] \in Nat /\ t[j] \in Nat
      BY <1>1, <2>3
    <2> QED BY <2>3, <2>4, <2>5, <2>6
  <1> QED BY <1>2, <1>3

\* Digits need no escape.
LEMMA EscDigits ==
  ASSUME NEW s \in Text, \A i \in 1 .. Len(s) : s[i] \in 48 .. 57
  PROVE  esc(s) = s
  <1> DEFINE Good == {n \in Nat : \A t \in Text :
                          Len(t) = n /\ (\A i \in 1 .. Len(t) : t[i] \in 48 .. 57) => esc(t) = t}
  <1>1. 0 \in Good
    <2>1. \A t \in Text : Len(t) = 0 => t = <<>>
      BY EmptySeq DEF Text
    <2> QED BY <2>1, EscSteps
  <1>2. ASSUME NEW n \in Good PROVE n + 1 \in Good
    <2> SUFFICES ASSUME NEW t \in Text, Len(t) = n + 1, \A i \in 1 .. Len(t) : t[i] \in 48 .. 57
                 PROVE  esc(t) = t
      OBVIOUS
    <2>1. PICK c \in Byte, r \in Text : t = <<c>> ++ r /\ Len(t) = Len(r) + 1 /\ Len(r) \in Nat
      <3>1. t # <<>>
        OBVIOUS
      <3> QED BY <3>1, TextFirst
    <2>2. <<c>> \in Text /\ <<c>> # <<>> /\ <<c>>[1] = c /\ Len(<<c>>) = 1
      BY SmallTexts
    <2>3. c = t[1] /\ c \in 48 .. 57
      <3>1. c = t[1]
        BY <2>1, <2>2, CatFirst
      <3> QED BY <2>1, <3>1
    <2>4. ASSUME NEW i \in 1 .. Len(r) PROVE r[i] \in 48 .. 57
      <3>1. i + 1 \in 1 .. Len(<<c>>) + Len(r) /\ ~(i + 1 <= Len(<<c>>)) /\ (i + 1) - Len(<<c>>) = i
        BY <2>1, <2>2
      <3>2. (<<c>> \o r)[i + 1] = r[i]
        BY <2>2, <3>1, ConcatProperties DEF Text
      <3>3. i + 1 \in 1 .. Len(t)
        BY <2>1
      <3> QED BY <2>1, <3>2, <3>3 DEF ++
    <2>5. esc(r) = r
      <3>1. Len(r) = n
        BY <2>1
      <3> QED BY <2>4, <3>1
    <2>6. byte(c) = <<c>>
      BY <2>1, <2>3 DEF byte, Digit
    <2>7. esc(t) = byte(c) ++ esc(r)
      BY <2>1, EscSteps
    <2> QED BY <2>1, <2>5, <2>6, <2>7
  <1>3. Good = Nat
    BY <1>1, <1>2, AllNumbers
  <1>4. Len(s) \in Nat
    BY LenProperties DEF Text
  <1> QED BY <1>3, <1>4

\* The bytes of two texts.
LEMMA CatAt ==
  ASSUME NEW u \in Text, NEW v \in Text
  PROVE  /\ Len(u) \in Nat /\ Len(v) \in Nat
         /\ Len(u ++ v) = Len(u) + Len(v)
         /\ \A i \in 1 .. Len(u) : (u ++ v)[i] = u[i]
         /\ \A i \in 1 .. Len(v) : (u ++ v)[Len(u) + i] = v[i]
  <1>1. Len(u) \in Nat /\ Len(v) \in Nat
    BY LenProperties DEF Text
  <1>2. Len(u ++ v) = Len(u) + Len(v)
    BY ConcatProperties DEF Text, ++
  <1>3. ASSUME NEW i \in 1 .. Len(u) PROVE (u ++ v)[i] = u[i]
    <2>1. i \in 1 .. Len(u) + Len(v) /\ i <= Len(u)
      BY <1>1
    <2> QED BY <2>1, ConcatProperties DEF Text, ++
  <1>4. ASSUME NEW i \in 1 .. Len(v) PROVE (u ++ v)[Len(u) + i] = v[i]
    <2>1. Len(u) + i \in 1 .. Len(u) + Len(v) /\ ~(Len(u) + i <= Len(u)) /\ (Len(u) + i) - Len(u) = i
      BY <1>1
    <2> QED BY <2>1, ConcatProperties DEF Text, ++
  <1> QED BY <1>1, <1>2, <1>3, <1>4

\* Bytes are numbers.
LEMMA BytesAreNumbers ==
  ASSUME NEW s \in Text, NEW i \in 1 .. Len(s)
  PROVE  s[i] \in Nat
  <1> DEFINE B == 0 .. 127
  <1>1. B \subseteq Nat /\ s \in Seq(B)
    BY DEF Text
  <1> HIDE DEF B
  <1>2. s[i] \in B
    BY <1>1, ElementOfSeq
  <1> QED BY <1>1, <1>2

\* Behind what is alike, texts of one length are in their own order.
LEMMA BeforeBehind ==
  ASSUME NEW h \in Text, NEW a \in Text, NEW b \in Text, Len(a) = Len(b)
  PROVE  Before(h ++ a, h ++ b) <=> SortsBelow(a, b)
  <1> DEFINE s == h ++ a  t == h ++ b  n == Len(h)  l == Len(a)
  <1>1. n \in Nat /\ l \in Nat /\ Len(b) = l /\ DOMAIN a = 1 .. l /\ DOMAIN b = 1 .. l
    BY LenProperties DEF Text
  <1>2. s \in Text /\ t \in Text /\ Len(s) = n + l /\ Len(t) = n + l
    <2>1. s \in Text /\ t \in Text
      BY CatText
    <2>2. Len(s) = n + l /\ Len(t) = n + Len(b)
      BY CatAt
    <2> QED BY <1>1, <2>1, <2>2
  <1>3. DOMAIN s = 1 .. n + l /\ DOMAIN t = 1 .. n + l
    BY <1>2, LenProperties DEF Text
  <1>4. /\ \A i \in 1 .. n : s[i] = t[i] /\ t[i] \in Nat
        /\ \A i \in 1 .. l : s[n + i] = a[i] /\ t[n + i] = b[i]
    <2>1. \A i \in 1 .. n : h[i] \in Nat
      BY BytesAreNumbers
    <2>2. \A i \in 1 .. n : s[i] = h[i] /\ t[i] = h[i]
      BY CatAt
    <2>3. \A i \in 1 .. l : s[n + i] = a[i] /\ t[n + i] = b[i]
      BY <1>1, CatAt
    <2> QED BY <2>1, <2>2, <2>3
  <1>5. ~IsStrictPrefix(s, t)
    <2> HIDE DEF s, t
    <2>1. IsPrefix(s, t) => s = t
      <3> SUFFICES ASSUME IsPrefix(s, t) PROVE s = t
        OBVIOUS
      <3>1. PICK z \in Text : t = s ++ z
        BY <1>2, PrefixIsFollowed
      <3>2. t ++ <<>> = t /\ <<>> \in Text /\ Len(s) = Len(t)
        BY <1>2, CatEmpty, SmallTexts
      <3>3. s ++ z = t ++ <<>>
        BY <3>1, <3>2
      <3> QED BY <1>2, <3>2, <3>3, CatSplit
    <2> QED BY <2>1 DEF IsStrictPrefix
  <1> HIDE DEF s, t, n, l
  <1>6. ASSUME SortsBelow(a, b) PROVE SortsBelow(s, t)
    <2>1. PICK j \in 1 .. l : a[j] < b[j] /\ \A k \in 1 .. j - 1 : a[k] = b[k]
      BY <1>1, <1>6 DEF SortsBelow
    <2>2. n + j \in 1 .. n + l /\ s[n + j] < t[n + j]
      BY <1>1, <1>4, <2>1
    <2>3. ASSUME NEW k \in 1 .. (n + j) - 1 PROVE s[k] = t[k]
      <3>1. CASE k <= n
        BY <1>1, <1>4, <3>1
      <3>2. CASE k > n
        <4>1. k - n \in 1 .. j - 1 /\ k - n \in 1 .. l /\ n + (k - n) = k
          BY <1>1, <3>2
        <4> QED BY <1>4, <2>1, <4>1
      <3> QED BY <1>1, <3>1, <3>2
    <2> QED BY <1>3, <2>2, <2>3 DEF SortsBelow
  <1>7. ASSUME SortsBelow(s, t) PROVE SortsBelow(a, b)
    <2>1. PICK j \in 1 .. n + l : s[j] < t[j] /\ \A k \in 1 .. j - 1 : s[k] = t[k]
      BY <1>3, <1>7 DEF SortsBelow
    <2>2. j > n
      <3> SUFFICES ASSUME j <= n PROVE FALSE
        BY <1>1
      <3>1. s[j] = t[j] /\ t[j] \in Nat
        BY <1>1, <1>4
      <3> QED BY <2>1, <3>1
    <2>3. j - n \in 1 .. l /\ n + (j - n) = j
      BY <1>1, <2>2
    <2>4. a[j - n] < b[j - n]
      BY <1>4, <2>1, <2>3
    <2>5. ASSUME NEW k \in 1 .. (j - n) - 1 PROVE a[k] = b[k]
      <3>1. n + k \in 1 .. j - 1 /\ k \in 1 .. l
        BY <1>1, <2>3
      <3> QED BY <1>4, <2>1, <3>1
    <2> QED BY <1>1, <2>3, <2>4, <2>5 DEF SortsBelow
  <1>8. Before(s, t) <=> IsStrictPrefix(s, t) \/ SortsBelow(s, t)
    BY DEF Before, SortsBelow
  <1> QED BY <1>5, <1>6, <1>7, <1>8 DEF s, t

\* A padded number.
LEMMA PaddedIs ==
  ASSUME NEW p \in Padded
  PROVE  /\ p.number \in Nat /\ Cut(p.number, Width) = 0
         /\ Width > 0 => p.text = Digits(p.number, Width)
         /\ \A q \in Padded : p.number = q.number => p.text = q.text
         /\ Width = 0 => p.number = 0
  <1>1. PICK n \in Number : /\ Cut(n, Width) = 0
                            /\ p = [number |-> n, text |-> Uint64ToFixedWidthBytes(n, Width)]
    BY DEF Padded
  <1>2. n \in Nat /\ Width \in Nat
    BY KeySpaceAssumption
  <1>3. Width > 0 => p.text = Digits(p.number, Width)
    BY <1>1 DEF Uint64ToFixedWidthBytes
  <1>4. \A q \in Padded : q.text = Uint64ToFixedWidthBytes(q.number, Width)
    BY DEF Padded
  <1>5. Width = 0 => p.number = 0
    BY <1>1, <1>2, CutSteps
  <1> HIDE DEF Uint64ToFixedWidthBytes
  <1>6. \A q \in Padded : p.number = q.number => p.text = q.text
    BY <1>4
  <1> QED BY <1>1, <1>2, <1>3, <1>5, <1>6

\* Keys of rows, and of composite entries, that differ in their ids at most.
LEMMA KeysWithIds ==
  ASSUME NEW e \in Entry, NEW f \in Entry, NEW i, e.of.kind \in {"d", "x"}, f.of = [e.of EXCEPT !.id = i]
  PROVE  /\ e.of.id \in Text /\ f.of.id = i /\ i \in Text
         /\ \E h \in Text : e.key = h ++ esc(e.of.id) /\ f.key = h ++ esc(i)
  <1>1. PICK s \in Things : IsThing(s) /\ e.of = Normal(s) /\ e.key = KeyFor(s)
    BY EntryIs
  <1>2. PICK t \in Things : IsThing(t) /\ f.of = Normal(t) /\ f.key = KeyFor(t)
    BY EntryIs
  <1>3. /\ s.kind \in {"d", "x", "u", "lock"} /\ s.name \in Names /\ s.parts \in Seq(Part) /\ s.id \in Text
        /\ t.kind \in {"d", "x", "u", "lock"} /\ t.name \in Names /\ t.parts \in Seq(Part) /\ t.id \in Text
        /\ e.of = [kind |-> s.kind, name |-> NormalName(s.name), parts |-> NormalParts(s.parts), id |-> s.id]
        /\ f.of = [kind |-> t.kind, name |-> NormalName(t.name), parts |-> NormalParts(t.parts), id |-> t.id]
    BY <1>1, <1>2, ThingType
  <1>4. /\ f.of.kind = e.of.kind /\ f.of.name = e.of.name /\ f.of.parts = e.of.parts /\ f.of.id = i
    BY <1>3
  <1>5. /\ t.kind = s.kind /\ NormalName(t.name) = NormalName(s.name) /\ NormalParts(t.parts) = NormalParts(s.parts)
        /\ t.id = i /\ e.of.id = s.id /\ s.kind \in {"d", "x"}
    BY <1>3, <1>4
  <1> DEFINE a == Space(s.name)  b == Fields(s.parts)
  <1>6. Space(t.name) = a /\ Fields(t.parts) = b
    BY <1>3, <1>5, SameTexts DEF Names
  <1>7. a \in Text /\ b \in Text /\ esc(s.id) \in Text /\ esc(i) \in Text
    BY <1>3, <1>5, SpaceParse, FieldsRow, EscSteps DEF Names
  <1>8. CASE s.kind = "d"
    <2> DEFINE h == d_ ++ (a ++ i_)
    <2>1. e.key = d_ ++ (a ++ (i_ ++ esc(s.id))) /\ f.key = d_ ++ (a ++ (i_ ++ esc(i)))
      BY <1>1, <1>2, <1>5, <1>6, <1>8, KeyIs DEF PKTail
    <2> HIDE DEF a, b
    <2>2. h \in Text /\ a ++ i_ \in Text
      BY <1>7, Heads, CatText
    <2>3. \A z \in Text : d_ ++ (a ++ (i_ ++ z)) = (d_ ++ (a ++ i_)) ++ z
      <3> SUFFICES ASSUME NEW z \in Text PROVE d_ ++ (a ++ (i_ ++ z)) = (d_ ++ (a ++ i_)) ++ z
        OBVIOUS
      <3>1. a ++ (i_ ++ z) = (a ++ i_) ++ z
        BY <1>7, Heads, CatAssoc
      <3> QED BY <2>2, <3>1, Heads, CatAssoc
    <2>4. e.key = h ++ esc(s.id) /\ f.key = h ++ esc(i)
      BY <1>7, <2>1, <2>3
    <2> QED BY <1>3, <1>4, <1>5, <2>2, <2>4
  <1>9. CASE s.kind = "x"
    <2> DEFINE h == x_ ++ (a ++ (b ++ (<<35>> ++ i_)))
    <2>1. /\ e.key = x_ ++ (a ++ (b ++ (<<35>> ++ (i_ ++ esc(s.id)))))
          /\ f.key = x_ ++ (a ++ (b ++ (<<35>> ++ (i_ ++ esc(i)))))
      BY <1>1, <1>2, <1>5, <1>6, <1>9, KeyIs DEF XTail
    <2> HIDE DEF a, b
    <2> DEFINE m == <<35>>
    <2>2. m \in Text
      BY Heads
    <2> HIDE DEF m
    <2>3. m ++ i_ \in Text /\ b ++ (m ++ i_) \in Text /\ a ++ (b ++ (m ++ i_)) \in Text
          /\ x_ ++ (a ++ (b ++ (m ++ i_))) \in Text
      BY <1>7, <2>2, Heads, CatText
    <2>4. \A z \in Text : x_ ++ (a ++ (b ++ (m ++ (i_ ++ z)))) = (x_ ++ (a ++ (b ++ (m ++ i_)))) ++ z
      <3> SUFFICES ASSUME NEW z \in Text
                   PROVE  x_ ++ (a ++ (b ++ (m ++ (i_ ++ z)))) = (x_ ++ (a ++ (b ++ (m ++ i_)))) ++ z
        OBVIOUS
      <3>1. m ++ (i_ ++ z) = (m ++ i_) ++ z
        BY <2>2, Heads, CatAssoc
      <3>2. b ++ ((m ++ i_) ++ z) = (b ++ (m ++ i_)) ++ z
        BY <1>7, <2>3, CatAssoc
      <3>3. a ++ ((b ++ (m ++ i_)) ++ z) = (a ++ (b ++ (m ++ i_))) ++ z
        BY <1>7, <2>3, CatAssoc
      <3>4. x_ ++ ((a ++ (b ++ (m ++ i_))) ++ z) = (x_ ++ (a ++ (b ++ (m ++ i_)))) ++ z
        BY <2>3, Heads, CatAssoc
      <3> QED BY <3>1, <3>2, <3>3, <3>4
    <2>5. e.key = h ++ esc(s.id) /\ f.key = h ++ esc(i) /\ h \in Text
      BY <1>7, <2>1, <2>3, <2>4 DEF m
    <2> QED BY <1>3, <1>4, <1>5, <2>5
  <1> QED BY <1>5, <1>8, <1>9

\* Rows of one table, and entries of one list of parts, lie in the order of
\* their numbers (Uint64ToFixedWidthBytes), for any width and any numbers that
\* fit it.
THEOREM NumbersLieInOrder == KSpec => []PaddedInOrder
  <1>1. ASSUME StoreInv PROVE PaddedInOrder
    <2> SUFFICES ASSUME NEW e \in store, NEW f \in store, NEW p \in Padded, NEW q \in Padded,
                        e.of.kind \in {"d", "x"},
                        e.of.id = p.text, f.of = [e.of EXCEPT !.id = q.text]
                 PROVE  Before(e.key, f.key) <=> p.number < q.number
      BY DEF PaddedInOrder
    <2>1. e \in Entry /\ f \in Entry
      BY <1>1 DEF StoreInv
    <2>2. PICK h \in Text : e.key = h ++ esc(p.text) /\ f.key = h ++ esc(q.text)
      BY <2>1, KeysWithIds
    <2>3. p.text \in Text /\ q.text \in Text
      BY <2>1, KeysWithIds
    <2>4. /\ p.number \in Nat /\ Cut(p.number, Width) = 0 /\ q.number \in Nat /\ Cut(q.number, Width) = 0
          /\ Width \in Nat
      BY PaddedIs, KeySpaceAssumption
    <2>5. CASE Width = 0
      <3>1. p.number = q.number /\ p.text = q.text
        BY <2>5, PaddedIs
      <3>2. esc(p.text) \in Text
        BY <2>3, EscSteps
      <3>3. Before(e.key, f.key) <=> SortsBelow(esc(p.text), esc(p.text))
        BY <2>2, <3>1, <3>2, BeforeBehind
      <3>4. ~SortsBelow(esc(p.text), esc(p.text))
        <4> DEFINE z == esc(p.text)
        <4>1. DOMAIN z = 1 .. Len(z)
          BY <3>2, LenProperties DEF Text
        <4>2. \A j \in 1 .. Len(z) : z[j] \in Nat
          BY <3>2, BytesAreNumbers
        <4> HIDE DEF z
        <4>3. ~SortsBelow(z, z)
          BY <4>1, <4>2 DEF SortsBelow
        <4> QED BY <4>3 DEF z
      <3> QED BY <2>4, <3>1, <3>3, <3>4
    <2>6. CASE Width > 0
      <3> DEFINE s == Digits(p.number, Width)  t == Digits(q.number, Width)
      <3>1. p.text = s /\ q.text = t
        BY <2>6, PaddedIs
      <3>2. /\ Len(s) = Width /\ Len(t) = Width /\ s \in Text /\ t \in Text
            /\ \A i \in 1 .. Width : s[i] \in 48 .. 57 /\ t[i] \in 48 .. 57
        BY <2>4, DigitsText
      <3> HIDE DEF s, t
      <3>3. esc(s) = s /\ esc(t) = t
        BY <3>2, EscDigits
      <3>4. Before(e.key, f.key) <=> SortsBelow(s, t)
        BY <2>2, <3>1, <3>2, <3>3, BeforeBehind
      <3>5. SortsBelow(s, t) <=> p.number < q.number
        BY <2>4, DigitsInOrder DEF s, t
      <3> QED BY <3>4, <3>5
    <2> QED BY <2>4, <2>5, <2>6
  <1> QED BY <1>1, StoreHoldsEntries, PTL

=============================================================================
