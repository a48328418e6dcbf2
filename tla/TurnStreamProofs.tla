-------------------------- MODULE TurnStreamProofs --------------------------
(* Theorems about a turn as it really runs: for every set of answers,      *)
(* however they are cut into tokens, and whatever fails.                   *)
EXTENDS TurnStream, SequenceTheorems, WellFoundedInduction, TLAPS

----------------------------------------------------------------------------
(* Numbers and text.                                                       *)

LEMMA LeastNumber ==
    ASSUME NEW T, T \subseteq Nat, T # {}
    PROVE  /\ Min(T) \in T /\ \A y \in T : Min(T) <= y
<1>1. PICK x \in T : \A y \in T : ~(<<y, x>> \in OpToRel(<, Nat))
  BY NatLessThanWellFounded, WFMin
<1>2. \A y \in T : ~(y < x)
  BY <1>1 DEF OpToRel
<1>3. \A y \in T : x <= y
  BY <1>2
<1> QED BY <1>3 DEF Min

LEMMA LesserOfTwo ==
    ASSUME NEW a \in Nat, NEW b \in Nat
    PROVE  Min({a, b}) \in {a, b} /\ Min({a, b}) <= a /\ Min({a, b}) <= b
BY LeastNumber

Text == Seq(Units)

LEMMA TakesOut ==
    ASSUME NEW S, NEW s \in Seq(S), NEW m \in Nat \ {0}, NEW n \in Nat, n <= Len(s)
    PROVE  /\ SubSeq(s, m, n) \in Seq(S)
           /\ Len(SubSeq(s, m, n)) = IF m <= n THEN n - m + 1 ELSE 0
           /\ \A i \in 1 .. n - m + 1 : SubSeq(s, m, n)[i] = s[m + i - 1]
<1>1. \A i \in m .. n : s[i] \in S
  BY ElementOfSeq
<1> QED BY <1>1, SubSeqProperties

\* A text is what is taken from its front and what is left.
LEMMA SplitsInTwo ==
    ASSUME NEW S, NEW s \in Seq(S), NEW k \in 0 .. Len(s)
    PROVE  s = SubSeq(s, 1, k) \o SubSeq(s, k + 1, Len(s))
<1>1. Len(s) \in Nat /\ 1 \in 1 .. Len(s) + 1 /\ k \in 1 - 1 .. Len(s) /\ Len(s) \in k .. Len(s)
  BY LenProperties
<1>2. SubSeq(s, 1, k) \o SubSeq(s, k + 1, Len(s)) = SubSeq(s, 1, Len(s))
  BY <1>1, ConcatAdjacentSubSeq
<1> QED BY <1>2, SubSeqFull

\* SENTENCE_END takes a part of the buffer, or nothing.
LEMMA SentenceInBuffer ==
    ASSUME NEW text \in Text
    PROVE  SentenceEnd(text) \in 0 .. Len(text)
<1>1. DOMAIN text = 1 .. Len(text) /\ Len(text) \in Nat
  BY LenProperties DEF Text
<1>2. CASE Enders(text) = {}
  BY <1>1, <1>2 DEF SentenceEnd
<1>3. CASE Enders(text) # {}
  <2>1. Enders(text) \subseteq 1 .. Len(text)
    BY <1>1 DEF Enders
  <2>2. Min(Enders(text)) \in Enders(text)
    BY <1>1, <1>3, <2>1, LeastNumber
  <2> QED BY <1>1, <1>3, <2>1, <2>2 DEF SentenceEnd
<1> QED BY <1>2, <1>3
\* Concatenation is associative, under a name.
Associates(a, b, c) == (a \o b) \o c = a \o (b \o c)

LEMMA Associative ==
    ASSUME NEW S, NEW a \in Seq(S), NEW b \in Seq(S), NEW c \in Seq(S)
    PROVE  Associates(a, b, c)
BY ConcatAssociative, SMT DEF Associates

----------------------------------------------------------------------------
(* FlattenSeq.  The function its definition chooses exists; with one more  *)
(* sequence at the end, or one less at the front, it gives what it should. *)

Flattens(f, s, m) == f = [i \in 1 .. m |-> IF i = 1 THEN s[i] ELSE f[i - 1] \o s[i]]

\* Its first m elements are sequences.
Pieces(s, m, S) == \A i \in 1 .. m : s[i] \in Seq(S)
\* What the function gives, step by step.
Glues(f, s, m, S) ==
    \A i \in 1 .. m : /\ f[i] \in Seq(S)
                      /\ i = 1 => f[i] = s[i]
                      /\ i # 1 => i - 1 \in 1 .. m /\ f[i] = f[i - 1] \o s[i]

LEMMA FlattenStarts ==
    ASSUME NEW s, NEW m \in Nat
    PROVE  \E f : Flattens(f, s, m)
<1> DEFINE Bad == {l \in Nat : ~\E f : Flattens(f, s, l)}
<1>1. SUFFICES ASSUME Bad # {} PROVE FALSE
  OBVIOUS
<1>2. PICK l \in Bad : \A k \in Bad : l <= k
  BY <1>1, LeastNumber
<1>3. CASE l = 0
  <2> DEFINE f == [i \in 1 .. 0 |-> <<>>]
  <2>1. Flattens(f, s, 0)
    BY DEF Flattens
  <2> QED BY <1>2, <1>3, <2>1
<1>4. CASE l # 0
  <2>1. l - 1 \in Nat /\ l \in Nat \ {0} /\ l - 1 \notin Bad
    BY <1>2, <1>4
  <2>2. PICK g : Flattens(g, s, l - 1)
    BY <2>1
  <2> DEFINE last == IF l = 1 THEN s[1] ELSE g[l - 1] \o s[l]
             f == [i \in 1 .. l |-> IF i = l THEN last ELSE g[i]]
  <2>3. ASSUME NEW i \in 1 .. l PROVE f[i] = IF i = 1 THEN s[i] ELSE f[i - 1] \o s[i]
    <3>1. CASE i = l
      <4>1. f[i] = last
        BY <3>1
      <4>2. i # 1 => f[i - 1] = g[i - 1]
        BY <2>1, <3>1
      <4> QED BY <3>1, <4>1, <4>2
    <3>2. CASE i # l
      <4>1. i \in 1 .. l - 1 /\ f[i] = g[i]
        BY <2>1, <3>2
      <4>2. g[i] = IF i = 1 THEN s[i] ELSE g[i - 1] \o s[i]
        BY <2>2, <4>1 DEF Flattens
      <4>3. i # 1 => f[i - 1] = g[i - 1]
        BY <2>1, <4>1
      <4> QED BY <4>1, <4>2, <4>3
    <3> QED BY <3>1, <3>2
  <2>4. f = [i \in 1 .. l |-> IF i = 1 THEN s[i] ELSE f[i - 1] \o s[i]]
    <3>1. f = [i \in 1 .. l |-> f[i]]
      OBVIOUS
    <3> HIDE DEF f
    <3> QED BY <2>3, <3>1, Zenon
  <2>5. Flattens(f, s, l)
    BY <2>4 DEF Flattens
  <2> QED BY <1>2, <2>5
<1> QED BY <1>3, <1>4

LEMMA FlattenSteps ==
    ASSUME NEW S, NEW m \in Nat, NEW s, Pieces(s, m, S),
           NEW f, Flattens(f, s, m)
    PROVE  Glues(f, s, m, S)
<1>1. \A i \in 1 .. m : /\ i = 1 => f[i] = s[i]
                        /\ i # 1 => i - 1 \in 1 .. m /\ f[i] = f[i - 1] \o s[i]
  <2> SUFFICES ASSUME NEW i \in 1 .. m
               PROVE  /\ i = 1 => f[i] = s[i]
                      /\ i # 1 => i - 1 \in 1 .. m /\ f[i] = f[i - 1] \o s[i]
    OBVIOUS
  <2>1. f[i] = IF i = 1 THEN s[i] ELSE f[i - 1] \o s[i]
    BY DEF Flattens
  <2>2. i # 1 => i - 1 \in 1 .. m
    OBVIOUS
  <2>3. CASE i = 1
    BY <2>1, <2>3
  <2>4. CASE i # 1
    <3>1. f[i] = f[i - 1] \o s[i]
      BY <2>1, <2>4, Zenon
    <3> QED BY <2>2, <2>4, <3>1, Zenon
  <2> QED BY <2>3, <2>4
<1> DEFINE Bad == {i \in 1 .. m : f[i] \notin Seq(S)}
<1>2. Bad = {}
  <2> SUFFICES ASSUME Bad # {} PROVE FALSE
    OBVIOUS
  <2>1. PICK i \in Bad : \A k \in Bad : i <= k
    <3>1. Bad \subseteq Nat
      OBVIOUS
    <3> QED BY <3>1, LeastNumber
  <2>2. i \in 1 .. m /\ i # 1
    BY <1>1, <2>1 DEF Pieces
  <2>3. i - 1 \in 1 .. m /\ i - 1 \notin Bad
    <3>1. ~(i <= i - 1) /\ i - 1 \in 1 .. m
      BY <2>2
    <3> QED BY <2>1, <3>1
  <2>4. f[i - 1] \in Seq(S) /\ s[i] \in Seq(S) /\ f[i] = f[i - 1] \o s[i]
    BY <1>1, <2>2, <2>3 DEF Pieces
  <2>5. f[i] \in Seq(S)
    BY <2>4, ConcatProperties, Zenon
  <2> QED BY <2>1, <2>5
<1> QED BY <1>1, <1>2, Zenon DEF Glues

LEMMA FlattenAgrees ==
    ASSUME NEW S, NEW m \in Nat, NEW s, Pieces(s, m, S),
           NEW f, Flattens(f, s, m), NEW g, Flattens(g, s, m)
    PROVE  \A i \in 1 .. m : f[i] = g[i]
<1>1. \A i \in 1 .. m : /\ i = 1 => f[i] = s[i] /\ g[i] = s[i]
                        /\ i # 1 => /\ i - 1 \in 1 .. m
                                    /\ f[i] = f[i - 1] \o s[i] /\ g[i] = g[i - 1] \o s[i]
  <2>1. Glues(f, s, m, S) /\ Glues(g, s, m, S)
    BY FlattenSteps
  <2> QED BY <2>1, Zenon DEF Glues
<1> DEFINE Bad == {i \in 1 .. m : f[i] # g[i]}
<1>2. Bad = {}
  <2> SUFFICES ASSUME Bad # {} PROVE FALSE
    OBVIOUS
  <2>1. PICK i \in Bad : \A k \in Bad : i <= k
    <3>1. Bad \subseteq Nat
      OBVIOUS
    <3> QED BY <3>1, LeastNumber
  <2>2. i \in 1 .. m /\ f[i] # g[i]
    BY <2>1
  <2>3. i # 1
    BY <1>1, <2>2, Zenon
  <2>4. i - 1 \in 1 .. m /\ ~(i <= i - 1)
    BY <2>2, <2>3
  <2>5. f[i - 1] = g[i - 1]
    BY <2>1, <2>4
  <2>6. f[i] = f[i - 1] \o s[i] /\ g[i] = g[i - 1] \o s[i]
    BY <1>1, <2>2, <2>3
  <2> QED BY <2>2, <2>5, <2>6
<1> QED BY <1>2

LEMMA FlattenIs ==
    ASSUME NEW S, NEW s \in Seq(Seq(S)), s # <<>>, NEW n, n = Len(s), NEW f, Flattens(f, s, n)
    PROVE  FlattenSeq(s) = f[n] /\ FlattenSeq(s) \in Seq(S)
<1> DEFINE g == CHOOSE g : Flattens(g, s, n)
<1>1. n \in Nat /\ n # 0 /\ n \in 1 .. n /\ Pieces(s, n, S)
  BY EmptySeq, ElementOfSeq DEF Pieces
<1>2. FlattenSeq(s) = g[n]
  BY <1>1, Zenon DEF FlattenSeq, Flattens
<1>3. Flattens(g, s, n)
  OBVIOUS
<1> HIDE DEF g
<1>4. \A i \in 1 .. n : f[i] = g[i]
  BY <1>1, <1>3, FlattenAgrees
<1>5. f[n] \in Seq(S)
  <2>1. Glues(f, s, n, S)
    BY <1>1, FlattenSteps
  <2> QED BY <1>1, <2>1, Zenon DEF Glues
<1> QED BY <1>1, <1>2, <1>4, <1>5

LEMMA FlattenNone == FlattenSeq(<<>>) = <<>>
BY DEF FlattenSeq

LEMMA FlattenOne ==
    ASSUME NEW S, NEW t \in Seq(S)
    PROVE  FlattenSeq(<<t>>) = t
<1> DEFINE s == <<t>>
<1>1. s \in Seq(Seq(S)) /\ Len(s) = 1 /\ s[1] = t /\ s # <<>>
  OBVIOUS
<1> HIDE DEF s
<1>2. PICK f : Flattens(f, s, 1)
  BY FlattenStarts
<1>3. f[1] = s[1]
  BY <1>1, <1>2 DEF Flattens
<1> QED BY <1>1, <1>2, <1>3, FlattenIs DEF s
LEMMA FlattenAppend ==
    ASSUME NEW S, NEW s \in Seq(Seq(S)), NEW t \in Seq(S)
    PROVE  FlattenSeq(Append(s, t)) = FlattenSeq(s) \o t
<1>0. PICK n : n = Len(s)
  OBVIOUS
<1>1. n \in Nat
  BY <1>0, LenProperties
<1>2. PICK r \in Seq(Seq(S)) : /\ r = Append(s, t) /\ Len(r) = n + 1 /\ r[n + 1] = t /\ r # <<>>
                               /\ \A i \in 1 .. n : r[i] = s[i]
  <2>1. /\ Append(s, t) \in Seq(Seq(S)) /\ Append(s, t) # <<>>
        /\ Len(Append(s, t)) = n + 1 /\ Append(s, t)[n + 1] = t
        /\ \A i \in 1 .. n : Append(s, t)[i] = s[i]
    BY <1>0, AppendProperties, AppendIsConcat
  <2> QED BY <2>1
<1>3. CASE s = <<>>
  <2>1. r = <<t>> /\ <<>> \o t = t
    BY <1>2, <1>3, ConcatEmptySeq
  <2> QED BY <1>2, <1>3, <2>1, FlattenNone, FlattenOne
<1>4. CASE s # <<>>
  <2>1. /\ n \in 1 .. n /\ n + 1 \in 1 .. n + 1 /\ n + 1 # 1 /\ (n + 1) - 1 = n /\ n + 1 \in Nat
        /\ \A i \in 1 .. n : i \in 1 .. n + 1
    BY <1>0, <1>1, <1>4, EmptySeq
  <2>2. PICK f : Flattens(f, r, n + 1)
    BY <2>1, FlattenStarts
  <2>3. FlattenSeq(r) = f[n + 1]
    <3>1. PICK m : m = Len(r) /\ m = n + 1 /\ Flattens(f, r, m) /\ r # <<>>
      BY <1>2, <2>2
    <3>2. FlattenSeq(r) = f[m]
      BY <3>1, FlattenIs, ZenonT(60)
    <3> QED BY <3>1, <3>2
  <2>4. \A i \in 1 .. n + 1 : f[i] = IF i = 1 THEN r[i] ELSE f[i - 1] \o r[i]
    BY <2>2 DEF Flattens
  <2>5. f[n + 1] = f[n] \o t
    <3>1. f[n + 1] = f[(n + 1) - 1] \o r[n + 1]
      BY <2>1, <2>4, Zenon
    <3> QED BY <1>2, <2>1, <3>1
  <2> DEFINE h == [i \in 1 .. n |-> f[i]]
  <2>6. Flattens(h, s, n)
    <3>1. ASSUME NEW i \in 1 .. n PROVE h[i] = IF i = 1 THEN s[i] ELSE h[i - 1] \o s[i]
      <4>1. h[i] = f[i] /\ r[i] = s[i]
        BY <1>2
      <4>2. i # 1 => h[i - 1] = f[i - 1]
        BY <1>1
      <4>3. f[i] = IF i = 1 THEN r[i] ELSE f[i - 1] \o r[i]
        BY <2>1, <2>4, Zenon
      <4> HIDE DEF h
      <4> QED BY <4>1, <4>2, <4>3
    <3>2. h = [i \in 1 .. n |-> h[i]]
      OBVIOUS
    <3> HIDE DEF h
    <3> QED BY <3>1, <3>2, Zenon DEF Flattens
  <2>7. h[n] = f[n]
    BY <2>1
  <2> HIDE DEF h
  <2>8. FlattenSeq(s) = h[n]
    BY <1>0, <1>4, <2>6, FlattenIs
  <2> QED BY <1>2, <2>3, <2>5, <2>7, <2>8
<1> QED BY <1>3, <1>4

\* The same function, one sequence later.
\* The element f gives for m is the one g gives for n, behind the first of s.
Longer(f, m, s, g, n) == f[m] = s[1] \o g[n]
\* r is s without its first element.
Follows(r, s, n) == \A i \in 1 .. n : r[i] = s[i + 1]

LEMMA FlattenShifts ==
    ASSUME NEW S, NEW n \in Nat, n # 0, NEW m \in Nat, m = n + 1, NEW s, Pieces(s, m, S),
           NEW r, Follows(r, s, n),
           NEW f, Flattens(f, s, m), NEW g, Flattens(g, r, n)
    PROVE  Longer(f, m, s, g, n)
<1>1. Glues(f, s, m, S)
  BY FlattenSteps
<1>2. 1 \in 1 .. m /\ 1 .. n \subseteq Nat /\ \A i \in 1 .. n : i + 1 \in 1 .. m /\ i + 1 # 1
  OBVIOUS
<1>3. Pieces(r, n, S)
  BY <1>2 DEF Pieces, Follows
<1>4. Glues(g, r, n, S)
  BY <1>3, FlattenSteps
<1>5. \A i \in 1 .. n : f[i + 1] = f[i] \o r[i]
  <2> SUFFICES ASSUME NEW i \in 1 .. n PROVE f[i + 1] = f[i] \o r[i]
    OBVIOUS
  <2>1. i + 1 \in 1 .. m /\ i + 1 # 1 /\ (i + 1) - 1 = i /\ r[i] = s[i + 1]
    BY <1>2 DEF Follows
  <2>2. f[i + 1] = f[(i + 1) - 1] \o s[i + 1]
    BY <1>1, <2>1, Zenon DEF Glues
  <2> QED BY <2>1, <2>2
<1> DEFINE Bad == {i \in 1 .. n : f[i + 1] # s[1] \o g[i]}
<1>6. Bad \subseteq Nat /\ Bad \subseteq 1 .. n
  BY <1>2
<1>7. Bad = {}
  <2> SUFFICES ASSUME Bad # {} PROVE FALSE
    OBVIOUS
  <2>1. PICK i \in Bad : \A k \in Bad : i <= k
    BY <1>6, LeastNumber
  <2>2. i \in 1 .. n
    BY <1>6
  <2>3. f[i + 1] # s[1] \o g[i]
    OBVIOUS
  <2>4. CASE i = 1
    <3>1. f[1] = s[1]
      BY <1>1, <1>2, Zenon DEF Glues
    <3>2. g[1] = r[1]
      BY <1>4, <2>2, <2>4, Zenon DEF Glues
    <3>3. f[1 + 1] = f[1] \o r[1]
      BY <1>5, <2>2, <2>4
    <3> QED BY <2>3, <2>4, <3>1, <3>2, <3>3, Zenon
  <2>5. CASE i # 1
    <3>1. i - 1 \in 1 .. n /\ ~(i <= i - 1) /\ (i - 1) + 1 = i
      BY <2>2, <2>5
    <3>2. i - 1 \notin Bad
      <4> HIDE DEF Bad
      <4> QED BY <2>1, <3>1
    <3>3. f[(i - 1) + 1] = s[1] \o g[i - 1]
      BY <3>1, <3>2, Zenon
    <3>4. g[i] = g[i - 1] \o r[i]
      BY <1>4, <2>2, <2>5, Zenon DEF Glues
    <3>5. g[i - 1] \in Seq(S)
      BY <1>4, <3>1, Zenon DEF Glues
    <3>6. r[i] \in Seq(S) /\ s[1] \in Seq(S)
      BY <1>2, <1>3, <2>2, Zenon DEF Pieces
    <3>7. (s[1] \o g[i - 1]) \o r[i] = s[1] \o (g[i - 1] \o r[i])
      <4>1. Associates(s[1], g[i - 1], r[i])
        BY <3>5, <3>6, Associative, Zenon
      <4> QED BY <4>1, Zenon DEF Associates
    <3>8. f[i + 1] = f[i] \o r[i]
      BY <1>5, <2>2
    <3>9. f[i] = s[1] \o g[i - 1]
      BY <3>1, <3>3
    <3> QED BY <2>3, <3>4, <3>7, <3>8, <3>9, Zenon
  <2> QED BY <2>4, <2>5
<1>8. n \in 1 .. n /\ m = n + 1
  OBVIOUS
<1>9. f[n + 1] = s[1] \o g[n]
  BY <1>7, <1>8, Zenon
<1> QED BY <1>8, <1>9, Zenon DEF Longer

LEMMA FlattenHead ==
    ASSUME NEW S, NEW s \in Seq(Seq(S)), s # <<>>
    PROVE  FlattenSeq(s) = Head(s) \o FlattenSeq(Tail(s))
<1>1. PICK n : n = Len(s)
  OBVIOUS
<1>2. /\ n \in Nat /\ n \in 1 .. n /\ Head(s) = s[1] /\ s[1] \in Seq(S) /\ Pieces(s, n, S)
  BY <1>1, EmptySeq, ElementOfSeq DEF Pieces
<1>3. PICK m \in Nat : m + 1 = n
  <2>1. n - 1 \in Nat /\ (n - 1) + 1 = n
    BY <1>2
  <2> QED BY <2>1
<1>4. PICK r \in Seq(Seq(S)) : /\ r = Tail(s) /\ Len(r) = m
                               /\ \A i \in 1 .. m : r[i] = s[i + 1]
  <2>1. /\ Tail(s) \in Seq(Seq(S)) /\ Len(Tail(s)) = m
        /\ \A i \in 1 .. m : Tail(s)[i] = s[i + 1]
    BY <1>1, <1>2, <1>3, HeadTailProperties
  <2> QED BY <2>1
<1>5. PICK f : Flattens(f, s, n)
  BY <1>2, FlattenStarts
<1>6. FlattenSeq(s) = f[n]
  BY <1>1, <1>5, FlattenIs
<1>7. CASE m = 0
  <2>1. r = <<>>
    BY <1>4, <1>7, EmptySeq
  <2>2. f[n] = s[1]
    <3>1. n = 1
      BY <1>3, <1>7
    <3> QED BY <1>2, <1>5, <3>1 DEF Flattens
  <2>3. s[1] \o <<>> = s[1]
    BY <1>2, ConcatEmptySeq
  <2> QED BY <1>2, <1>4, <1>6, <2>1, <2>2, <2>3, FlattenNone
<1>8. CASE m # 0
  <2>1. m \in 1 .. m
    BY <1>8
  <2>2. r # <<>>
    BY <1>4, <1>8, EmptySeq
  <2>3. PICK g : Flattens(g, r, m)
    BY FlattenStarts
  <2>4. FlattenSeq(r) = g[m]
    <3>1. m = Len(r)
      BY <1>4
    <3> QED BY <2>2, <2>3, <3>1, FlattenIs, Zenon
  <2>5. n = m + 1 /\ n \in Nat /\ Pieces(s, n, S)
    BY <1>2, <1>3
  <2>6. Follows(r, s, m)
    BY <1>4 DEF Follows
  <2>7. f[n] = s[1] \o g[m]
    <3>1. Longer(f, n, s, g, m)
      BY <1>5, <1>8, <2>3, <2>5, <2>6, FlattenShifts
    <3> QED BY <3>1, Zenon DEF Longer
  <2> QED BY <1>2, <1>4, <1>6, <2>4, <2>7
<1> QED BY <1>7, <1>8

----------------------------------------------------------------------------
(* What the variables hold.                                                *)

Streams == [state : {"none", "open", "ended", "broken"}, left : Text, parts : Text,
            back : Seq(Text)]
Clips == [from : Int, to : Int]
Results == [of : 0 .. MaxTurns, text : Text]

Typed ==
    /\ mouth \in {"supertonic", "gather", "text"} /\ brain \in {"partial", "whole"}
    /\ turn \in 0 .. MaxTurns /\ phase \in {"idle", "peel", "ready", "speak"}
    /\ phase # "idle" => turn \in Turns
    /\ stream \in [Turns -> Streams]
    /\ shown \in [Turns -> Text] /\ cut \in [Turns -> Nat]
    /\ queue \in [Turns -> Seq(Clips)] /\ heard \in [Turns -> Clips]
    /\ worker \in [Turns -> {"off", "pull", "synth", "tail", "ended", "failed", "cancelled"}]
    /\ player \in [Turns -> {"off", "get", "due", "play", "ended", "failed"}]
    /\ device \in 0 .. MaxTurns
    /\ stopped \in BOOLEAN /\ playing \in BOOLEAN /\ cancelled \in BOOLEAN
    /\ abandoned \in BOOLEAN /\ hurt \in [Turns -> BOOLEAN]
    /\ lastResult \in Results /\ remembered \in Results

\* The clip a play loop has handed over is the head of its queue.
Due == \A t \in Turns : player[t] = "due" => queue[t] # <<>> /\ Head(queue[t]) # Done

LEMMA Constant ==
    /\ MaxTurns \in Nat /\ Turns \subseteq Nat /\ Answers \subseteq Text
    /\ <<>> \in Text /\ IdleStream \in Streams
    /\ NoClip \in Clips /\ Done \in Clips /\ NoResult \in Results
<1>1. <<>> \in Text /\ <<>> \in Seq(Text)
  BY EmptySeq DEF Text
<1>2. Answers \subseteq Text /\ MaxTurns \in Nat /\ Turns \subseteq Nat
  BY StreamAssumption DEF Text, Turns
<1> QED BY <1>1, <1>2 DEF Streams, Clips, Results, IdleStream, NoClip, Done, NoResult

LEMMA TextsJoin ==
    ASSUME NEW a \in Text, NEW b \in Text
    PROVE  a \o b \in Text
BY ConcatProperties DEF Text

LEMMA CleanText ==
    ASSUME NEW text \in Text
    PROVE  Clean(text) \in Text
<1>1. SubSeq(text, 4, Len(text)) \in Text
  BY LenProperties, TakesOut DEF Text
<1> QED BY <1>1 DEF Clean

LEMMA TypedInit == StreamInit => Typed
<1> SUFFICES ASSUME StreamInit PROVE Typed
  OBVIOUS
<1>1. <<>> \in Seq(Clips) /\ 0 \in 0 .. MaxTurns
  BY EmptySeq, Constant
<1> QED BY <1>1, Constant, StreamAssumption DEF StreamInit, Typed

LEMMA TwoFields ==
    ASSUME NEW a, NEW b, NEW c, NEW d, NEW left, NEW parts
    PROVE  [[state |-> a, left |-> b, parts |-> c, back |-> d] EXCEPT !.left = left, !.parts = parts]
              = [state |-> a, left |-> left, parts |-> parts, back |-> d]
<1> DEFINE r == [state |-> a, left |-> b, parts |-> c, back |-> d]
<1>1. [r EXCEPT !.left = left, !.parts = parts] = [[r EXCEPT !.left = left] EXCEPT !.parts = parts]
  OBVIOUS
<1>2. [r EXCEPT !.left = left] = [state |-> a, left |-> left, parts |-> c, back |-> d]
  OBVIOUS
<1>3. [[state |-> a, left |-> left, parts |-> c, back |-> d] EXCEPT !.parts = parts]
        = [state |-> a, left |-> left, parts |-> parts, back |-> d]
  OBVIOUS
<1> QED BY <1>1, <1>2, <1>3, Zenon

\* The units of a token come from what is left.
LEMMA AdvancedIsStream ==
    ASSUME Typed, NEW t \in Turns, NEW k \in 1 .. MaxToken, Yields(t, k)
    PROVE  /\ Token(t, k) \in Text /\ Advanced(t, k) \in Streams
           /\ Advanced(t, k) = [state |-> stream[t].state,
                                left |-> SubSeq(stream[t].left, k + 1, Len(stream[t].left)),
                                parts |-> stream[t].parts \o Token(t, k),
                                back |-> stream[t].back]
           /\ k <= Len(stream[t].left)
<1>1. PICK left \in Text : left = stream[t].left
  BY DEF Typed, Streams
<1>2. Len(left) \in Nat /\ MaxToken \in Nat
  BY <1>1, LenProperties, StreamAssumption DEF Text
<1>3. k \in Nat \ {0} /\ k <= Len(left)
  <2>1. k \in 1 .. Min({MaxToken, Len(left)})
    BY <1>1 DEF Yields
  <2>2. Min({MaxToken, Len(left)}) <= Len(left) /\ Min({MaxToken, Len(left)}) \in {MaxToken, Len(left)}
    BY <1>2, LesserOfTwo
  <2> HIDE DEF Min
  <2> QED BY <1>2, <2>1, <2>2
<1>4. SubSeq(left, 1, k) \in Text /\ SubSeq(left, k + 1, Len(left)) \in Text
  BY <1>2, <1>3, TakesOut DEF Text
<1>5. stream[t] \in Streams /\ stream[t].parts \in Text /\ Token(t, k) \in Text
  BY <1>1, <1>4 DEF Typed, Streams, Token
<1>6. stream[t].parts \o Token(t, k) \in Text
  BY <1>5, TextsJoin
<1>7. Advanced(t, k) = [state |-> stream[t].state,
                        left |-> SubSeq(left, k + 1, Len(left)),
                        parts |-> stream[t].parts \o Token(t, k),
                        back |-> stream[t].back]
  <2>1. PICK a, b, c, d : stream[t] = [state |-> a, left |-> b, parts |-> c, back |-> d]
    <3>1. stream[t] = [state |-> stream[t].state, left |-> stream[t].left,
                       parts |-> stream[t].parts, back |-> stream[t].back]
      BY <1>5 DEF Streams
    <3> QED BY <3>1
  <2>2. PICK token : token = Token(t, k)
    OBVIOUS
  <2>3. Advanced(t, k) = [[state |-> a, left |-> b, parts |-> c, back |-> d]
                            EXCEPT !.left = SubSeq(b, k + 1, Len(b)), !.parts = c \o token]
    BY <2>1, <2>2 DEF Advanced
  <2>4. Advanced(t, k) = [state |-> a, left |-> SubSeq(b, k + 1, Len(b)),
                          parts |-> c \o token, back |-> d]
    BY <2>3, TwoFields, Zenon
  <2> QED BY <1>1, <2>1, <2>2, <2>4
<1>8. Advanced(t, k) \in Streams
  BY <1>4, <1>5, <1>6, <1>7 DEF Streams
<1> QED BY <1>1, <1>3, <1>5, <1>7, <1>8

\* What the tokens given back make is a text.
LEMMA FlattenText ==
    ASSUME NEW back \in Seq(Text)
    PROVE  FlattenSeq(back) \in Text
<1>1. CASE back = <<>>
  BY <1>1, FlattenNone, Constant
<1>2. CASE back # <<>>
  <2>1. PICK n : n = Len(back)
    OBVIOUS
  <2>2. n \in Nat
    BY <2>1, LenProperties
  <2>3. PICK f : Flattens(f, back, n)
    BY <2>2, FlattenStarts
  <2>4. back \in Seq(Seq(Units))
    BY DEF Text
  <2>5. FlattenSeq(back) \in Seq(Units)
    BY <1>2, <2>1, <2>3, <2>4, FlattenIs
  <2> QED BY <2>5 DEF Text
<1> QED BY <1>1, <1>2

LEMMA TextOfTurn ==
    ASSUME Typed, NEW t \in Turns
    PROVE  /\ stream[t] \in Streams /\ shown[t] \in Text /\ cut[t] \in Nat
           /\ Len(shown[t]) \in Nat /\ Buffer(t) \in Text
           /\ Len(Buffer(t)) = IF cut[t] < Len(shown[t]) THEN Len(shown[t]) - cut[t] ELSE 0
           /\ SentenceEnd(Buffer(t)) \in 0 .. Len(Buffer(t))
           /\ ClipEnd(t) \in Nat /\ Clip(t) \in Clips
           /\ queue[t] \in Seq(Clips) /\ heard[t] \in Clips
<1>1. /\ stream[t] \in Streams /\ shown[t] \in Text /\ cut[t] \in Nat
      /\ queue[t] \in Seq(Clips) /\ heard[t] \in Clips
  BY DEF Typed
<1>2. Len(shown[t]) \in Nat
  BY <1>1, LenProperties DEF Text
<1>3. /\ Buffer(t) \in Text
      /\ Len(Buffer(t)) = IF cut[t] + 1 <= Len(shown[t]) THEN Len(shown[t]) - (cut[t] + 1) + 1 ELSE 0
  <2>1. cut[t] + 1 \in Nat \ {0}
    BY <1>1
  <2> QED BY <1>1, <1>2, <2>1, TakesOut DEF Text, Buffer
<1>4. Len(Buffer(t)) = IF cut[t] < Len(shown[t]) THEN Len(shown[t]) - cut[t] ELSE 0
  BY <1>1, <1>2, <1>3
<1>5. SentenceEnd(Buffer(t)) \in 0 .. Len(Buffer(t))
  BY <1>3, SentenceInBuffer
<1>6. ClipEnd(t) \in Nat
  <2>1. SentenceEnd(Buffer(t)) \in Nat
    BY <1>5
  <2> QED BY <1>1, <1>2, <2>1 DEF ClipEnd
<1>7. Clip(t) \in Clips
  BY <1>1, <1>6 DEF Clip, Clips
<1> QED BY <1>1, <1>2, <1>3, <1>4, <1>5, <1>6, <1>7

LEMMA StreamStates ==
    ASSUME NEW r \in Streams
    PROVE  /\ [r EXCEPT !.state = "ended"] \in Streams /\ [r EXCEPT !.state = "broken"] \in Streams
           /\ r.back # <<>> => /\ Head(r.back) \in Text
                               /\ [r EXCEPT !.back = Tail(@)] \in Streams
<1>1. r.back \in Seq(Text)
  BY DEF Streams
<1>2. r.back # <<>> => Head(r.back) \in Text /\ Tail(r.back) \in Seq(Text)
  BY <1>1, HeadTailProperties
<1> QED BY <1>2 DEF Streams

LEMMA QueueGrows ==
    ASSUME Typed, NEW t \in Turns, NEW items \in Seq(Clips), Puts(t, items)
    PROVE  queue' \in [Turns -> Seq(Clips)]
<1>1. queue[t] \o items \in Seq(Clips)
  BY ConcatProperties DEF Typed
<1> QED BY <1>1 DEF Puts, Typed

LEMMA OneClip == ASSUME NEW c \in Clips PROVE <<c>> \in Seq(Clips)
OBVIOUS

LEMMA TypedBegin ==
    ASSUME Typed, NEW answer \in Answers, BeginTurn(answer)
    PROVE  Typed'
<1>1. [IdleStream EXCEPT !.state = "open", !.left = answer] \in Streams
  <2>1. [state |-> "open", left |-> answer, parts |-> <<>>, back |-> <<>>] \in Streams
    <3>1. answer \in Text /\ <<>> \in Text /\ <<>> \in Seq(Text)
      BY Constant, EmptySeq
    <3> QED BY <3>1 DEF Streams
  <2>2. [IdleStream EXCEPT !.state = "open"]
          = [state |-> "open", left |-> <<>>, parts |-> <<>>, back |-> <<>>]
    BY DEF IdleStream
  <2>3. [IdleStream EXCEPT !.state = "open", !.left = answer]
          = [[IdleStream EXCEPT !.state = "open"] EXCEPT !.left = answer]
    BY DEF IdleStream
  <2>4. [IdleStream EXCEPT !.state = "open", !.left = answer]
          = [state |-> "open", left |-> answer, parts |-> <<>>, back |-> <<>>]
    <3>1. [[state |-> "open", left |-> <<>>, parts |-> <<>>, back |-> <<>>] EXCEPT !.left = answer]
            = [state |-> "open", left |-> answer, parts |-> <<>>, back |-> <<>>]
      OBVIOUS
    <3> QED BY <2>2, <2>3, <3>1
  <2> QED BY <2>1, <2>4
<1>2. turn + 1 \in Turns /\ turn + 1 \in 0 .. MaxTurns
  BY Constant DEF Typed, BeginTurn, Turns
<1>3. stream' \in [Turns -> Streams] /\ turn' \in Turns /\ turn' \in 0 .. MaxTurns
  BY <1>1, <1>2 DEF Typed, BeginTurn
<1> QED BY <1>3, Constant DEF Typed, BeginTurn, sessionVars, mouthVars

LEMMA TypedPeels ==
    ASSUME Typed, NEW k \in 1 .. MaxToken, Peels(k)
    PROVE  Typed'
<1> DEFINE token == Token(turn, k)
           head == FlattenSeq(stream[turn].back) \o token
           held == Append(stream[turn].back, token)
           back == IF ~IsTagged(head) THEN held ELSE IF Clean(head) = <<>> THEN <<>> ELSE <<Clean(head)>>
<1>1. turn \in Turns /\ stream[turn] \in Streams
  BY DEF Peels, Typed
<1>2. /\ token \in Text /\ Advanced(turn, k) \in Streams
      /\ Advanced(turn, k) = [state |-> stream[turn].state,
                              left |-> SubSeq(stream[turn].left, k + 1, Len(stream[turn].left)),
                              parts |-> stream[turn].parts \o Token(turn, k),
                              back |-> stream[turn].back]
  BY <1>1, AdvancedIsStream DEF Peels
<1>3. stream[turn].back \in Seq(Text) /\ FlattenSeq(stream[turn].back) \in Text
  BY <1>1, FlattenText DEF Streams
<1>4. head \in Text /\ Clean(head) \in Text
  BY <1>2, <1>3, TextsJoin, CleanText
<1>5. held \in Seq(Text) /\ <<>> \in Seq(Text) /\ <<Clean(head)>> \in Seq(Text)
  BY <1>2, <1>3, <1>4, AppendProperties, EmptySeq
<1>6. back \in Seq(Text)
  BY <1>5
<1> HIDE DEF token, head, held
<1>7. stream' = [stream EXCEPT ![turn] = [Advanced(turn, k) EXCEPT !.back = back]]
  BY <1>2 DEF Peels, token, head, held
<1> HIDE DEF back
<1>8. [Advanced(turn, k) EXCEPT !.back = back] \in Streams
  BY <1>2, <1>6 DEF Streams
<1>9. stream' \in [Turns -> Streams]
  BY <1>1, <1>7, <1>8 DEF Typed
<1>10. phase' \in {"peel", "ready"} /\ turn' = turn
  BY DEF Peels, endVars
<1> QED BY <1>1, <1>9, <1>10 DEF Typed, Peels, sessionVars, mouthVars, endVars

LEMMA TypedSource ==
    ASSUME Typed
    PROVE  /\ PeelsLast => Typed'
           /\ PeelFails => Typed'
           /\ SpeakStream => Typed'
<1>1. ASSUME phase # "idle" PROVE turn \in Turns /\ stream[turn] \in Streams
  BY <1>1 DEF Typed
<1>2. ASSUME PeelsLast PROVE Typed'
  <2>1. lastResult' \in Results
    <3>1. PICK r \in Streams : r = stream[turn]
      BY <1>1, <1>2 DEF PeelsLast
    <3>2. r.parts \in Text /\ r.left \in Text /\ r.parts \o r.left \in Text
      BY TextsJoin DEF Streams
    <3>3. turn \in 0 .. MaxTurns
      BY DEF Typed
    <3> QED BY <1>2, <3>1, <3>2, <3>3 DEF PeelsLast, Exhausts, Results
  <2>2. stream' \in [Turns -> Streams]
    BY <1>1, <1>2, StreamStates DEF PeelsLast, Typed
  <2> QED BY <1>1, <1>2, <2>1, <2>2 DEF Typed, PeelsLast, sessionVars, mouthVars, endVars
<1>3. ASSUME PeelFails PROVE Typed'
  <2>1. stream' \in [Turns -> Streams]
    BY <1>1, <1>3, StreamStates DEF PeelFails, Typed
  <2> QED BY <1>1, <1>3, <2>1 DEF Typed, PeelFails, sessionVars, mouthVars, endVars
<1>4. ASSUME SpeakStream PROVE Typed'
  <2>1. /\ worker' \in [Turns -> {"off", "pull", "synth", "tail", "ended", "failed", "cancelled"}]
        /\ player' \in [Turns -> {"off", "get", "due", "play", "ended", "failed"}]
    BY <1>1, <1>4 DEF SpeakStream, Typed
  <2> QED BY <1>1, <1>4, <2>1 DEF Typed, SpeakStream, sessionVars, brainVars, endVars
<1> QED BY <1>2, <1>3, <1>4

LEMMA TypedTakes ==
    ASSUME Typed, NEW t \in Turns, NEW token \in Text, NEW s \in Streams, Takes(t, token, s)
    PROVE  /\ stream' \in [Turns -> Streams] /\ shown' \in [Turns -> Text]
           /\ queue' \in [Turns -> Seq(Clips)]
           /\ worker' \in [Turns -> {"off", "pull", "synth", "tail", "ended", "failed", "cancelled"}]
<1>1. stream' \in [Turns -> Streams]
  BY DEF Takes, Typed
<1>2. shown' \in [Turns -> Text]
  <2>1. shown[t] \o token \in Text
    BY TextOfTurn, TextsJoin
  <2> QED BY <2>1 DEF Takes, Typed
<1>3. queue' \in [Turns -> Seq(Clips)]
  BY Constant, OneClip, QueueGrows DEF Takes, Typed
<1>4. worker' \in [Turns -> {"off", "pull", "synth", "tail", "ended", "failed", "cancelled"}]
  BY DEF Takes, Typed
<1> QED BY <1>1, <1>2, <1>3, <1>4

LEMMA TypedWorker ==
    ASSUME Typed, NEW t \in Turns
    PROVE  /\ WorkerTakesBack(t) => Typed'
           /\ \A k \in 1 .. MaxToken : WorkerTakes(t, k) => Typed'
           /\ WorkerDrains(t) => Typed'
           /\ WorkerFails(t) => Typed'
<1>1. stream[t] \in Streams
  BY TextOfTurn
<1>2. ASSUME WorkerTakesBack(t) PROVE Typed'
  <2>1. Head(stream[t].back) \in Text /\ [stream[t] EXCEPT !.back = Tail(@)] \in Streams
    BY <1>1, <1>2, StreamStates DEF WorkerTakesBack
  <2>2. /\ stream' \in [Turns -> Streams] /\ shown' \in [Turns -> Text]
        /\ queue' \in [Turns -> Seq(Clips)]
        /\ worker' \in [Turns -> {"off", "pull", "synth", "tail", "ended", "failed", "cancelled"}]
    BY <1>2, <2>1, TypedTakes DEF WorkerTakesBack
  <2> QED BY <1>2, <2>2 DEF Typed, WorkerTakesBack, sessionVars, endVars
<1>3. ASSUME NEW k \in 1 .. MaxToken, WorkerTakes(t, k) PROVE Typed'
  <2>1. Token(t, k) \in Text /\ Advanced(t, k) \in Streams
    BY <1>3, AdvancedIsStream DEF WorkerTakes
  <2>2. /\ stream' \in [Turns -> Streams] /\ shown' \in [Turns -> Text]
        /\ queue' \in [Turns -> Seq(Clips)]
        /\ worker' \in [Turns -> {"off", "pull", "synth", "tail", "ended", "failed", "cancelled"}]
    BY <1>3, <2>1, TypedTakes DEF WorkerTakes
  <2> QED BY <1>3, <2>2 DEF Typed, WorkerTakes, sessionVars, endVars
<1>4. ASSUME WorkerDrains(t) PROVE Typed'
  <2>1. stream' \in [Turns -> Streams]
    BY <1>1, <1>4, StreamStates DEF WorkerDrains, Typed
  <2>2. lastResult' \in Results
    <3>1. PICK r \in Streams : r = stream[t]
      BY <1>1
    <3>2. r.parts \in Text /\ r.left \in Text /\ r.parts \o r.left \in Text
      BY TextsJoin DEF Streams
    <3>3. t \in 0 .. MaxTurns
      BY Constant DEF Turns
    <3>4. Exhausts(t) => lastResult' \in Results
      BY <3>1, <3>2, <3>3 DEF Exhausts, Results
    <3>5. lastResult \in Results
      BY DEF Typed
    <3> QED BY <1>4, <3>4, <3>5 DEF WorkerDrains
  <2>3. worker' \in [Turns -> {"off", "pull", "synth", "tail", "ended", "failed", "cancelled"}]
    BY <1>4 DEF WorkerDrains, Drains, Typed
  <2>4. queue' \in [Turns -> Seq(Clips)]
    BY <1>4, Constant, OneClip, QueueGrows DEF WorkerDrains, Drains, Typed
  <2> QED BY <1>4, <2>1, <2>2, <2>3, <2>4 DEF Typed, WorkerDrains, sessionVars, endVars
<1>5. ASSUME WorkerFails(t) PROVE Typed'
  <2>1. stream' \in [Turns -> Streams]
    BY <1>1, <1>5, StreamStates DEF WorkerFails, Typed
  <2>2. worker' \in [Turns -> {"off", "pull", "synth", "tail", "ended", "failed", "cancelled"}]
    BY <1>5 DEF WorkerFails, Typed
  <2>3. queue' \in [Turns -> Seq(Clips)]
    BY <1>5, Constant, OneClip, QueueGrows DEF WorkerFails, Typed
  <2> QED BY <1>5, <2>1, <2>2, <2>3 DEF Typed, WorkerFails, sessionVars, endVars
<1> QED BY <1>2, <1>3, <1>4, <1>5

LEMMA TypedSynth ==
    ASSUME Typed, NEW t \in Turns
    PROVE  /\ SynthDone(t) => Typed'
           /\ SynthFails(t) => Typed'
<1>1. ClipEnd(t) \in Nat /\ Clip(t) \in Clips /\ EndMark(t) \in Seq(Clips)
  <2>1. EndMark(t) \in Seq(Clips)
    BY Constant, OneClip, EmptySeq DEF EndMark
  <2> QED BY <2>1, TextOfTurn
<1>2. <<Clip(t)>> \o EndMark(t) \in Seq(Clips)
  BY <1>1, OneClip, ConcatProperties
<1>3. AfterClip(t) \in {"ended", "synth", "pull"}
  BY DEF AfterClip
<1>4. ASSUME SynthDone(t) PROVE Typed'
  <2>1. queue' \in [Turns -> Seq(Clips)]
    BY <1>2, <1>4, QueueGrows DEF SynthDone
  <2>2. /\ cut' \in [Turns -> Nat]
        /\ worker' \in [Turns -> {"off", "pull", "synth", "tail", "ended", "failed", "cancelled"}]
    BY <1>1, <1>3, <1>4 DEF SynthDone, Typed
  <2> QED BY <1>4, <2>1, <2>2 DEF Typed, SynthDone, sessionVars, brainVars, endVars
<1>5. ASSUME SynthFails(t) PROVE Typed'
  <2>1. queue' \in [Turns -> Seq(Clips)]
    BY <1>1, <1>5, Constant, OneClip, QueueGrows DEF SynthFails
  <2>2. /\ cut' \in [Turns -> Nat] /\ hurt' \in [Turns -> BOOLEAN]
        /\ worker' \in [Turns -> {"off", "pull", "synth", "tail", "ended", "failed", "cancelled"}]
    BY <1>1, <1>3, <1>5 DEF SynthFails, Typed
  <2> QED BY <1>5, <2>1, <2>2 DEF Typed, SynthFails, sessionVars, brainVars, endVars
<1> QED BY <1>4, <1>5

LEMMA TypedPlayer ==
    ASSUME Typed, Due, NEW t \in Turns
    PROVE  /\ PlayLoopGets(t) => Typed'
           /\ SoundStarts(t) => Typed'
           /\ PlayEnds(t) => Typed'
           /\ PlayFails(t) => Typed'
<1>1. t \in 0 .. MaxTurns /\ 0 \in 0 .. MaxTurns
  BY Constant DEF Turns
<1>2. ASSUME PlayLoopGets(t) PROVE Typed'
  <2>1. Tail(queue[t]) \in Seq(Clips)
    BY <1>2, TextOfTurn, HeadTailProperties DEF PlayLoopGets
  <2>2. queue' \in [Turns -> Seq(Clips)]
    BY <1>2, <2>1 DEF PlayLoopGets, Typed
  <2>3. player' \in [Turns -> {"off", "get", "due", "play", "ended", "failed"}]
    BY <1>2 DEF PlayLoopGets, Typed
  <2> QED BY <1>2, <2>2, <2>3 DEF Typed, PlayLoopGets, sessionVars, brainVars, endVars
<1>3. ASSUME SoundStarts(t) PROVE Typed'
  <2>1. Head(queue[t]) \in Clips /\ Tail(queue[t]) \in Seq(Clips)
    BY <1>3, TextOfTurn, HeadTailProperties DEF SoundStarts, Due
  <2>2. queue' \in [Turns -> Seq(Clips)] /\ heard' \in [Turns -> Clips]
    BY <1>3, <2>1 DEF SoundStarts, Typed
  <2>3. /\ player' \in [Turns -> {"off", "get", "due", "play", "ended", "failed"}]
        /\ device' \in 0 .. MaxTurns
    BY <1>1, <1>3 DEF SoundStarts, Typed
  <2> QED BY <1>3, <2>2, <2>3 DEF Typed, SoundStarts, sessionVars, brainVars, endVars
<1>4. ASSUME PlayEnds(t) PROVE Typed'
  <2>1. player' \in [Turns -> {"off", "get", "due", "play", "ended", "failed"}] /\ device' \in 0 .. MaxTurns
    BY <1>1, <1>4 DEF PlayEnds, Typed
  <2> QED BY <1>4, <2>1 DEF Typed, PlayEnds, sessionVars, brainVars, endVars
<1>5. ASSUME PlayFails(t) PROVE Typed'
  <2>1. /\ player' \in [Turns -> {"off", "get", "due", "play", "ended", "failed"}] /\ device' \in 0 .. MaxTurns
        /\ hurt' \in [Turns -> BOOLEAN]
    BY <1>1, <1>5 DEF PlayFails, Typed
  <2> QED BY <1>5, <2>1 DEF Typed, PlayFails, sessionVars, brainVars, endVars
<1> QED BY <1>2, <1>3, <1>4, <1>5

LEMMA TypedEnds ==
    ASSUME Typed
    PROVE  /\ DrainEnds => Typed'
           /\ SupertonicEnds => Typed'
           /\ GatherEnds => Typed'
           /\ Interrupt => Typed'
<1>1. [lastResult EXCEPT !.text = Clean(@)] \in Results
  <2>1. lastResult.text \in Text
    BY DEF Typed, Results
  <2>2. Clean(lastResult.text) \in Text
    BY <2>1, CleanText
  <2> QED BY <2>2 DEF Typed, Results
<1>2. Returns \/ Raises => phase' = "idle" /\ remembered' \in Results
  BY <1>1 DEF Returns, Raises, Typed
<1>3. ASSUME DrainEnds PROVE Typed'
  <2>1. phase' = "idle" /\ remembered' \in Results
    BY <1>2, <1>3 DEF DrainEnds
  <2> QED BY <1>3, <2>1 DEF Typed, DrainEnds, sessionVars, brainVars, mouthVars
<1>4. ASSUME SupertonicEnds PROVE Typed'
  <2>1. phase' = "idle" /\ remembered' \in Results
    BY <1>2, <1>4 DEF SupertonicEnds
  <2>2. turn \in Turns /\ stream[turn] \in Streams
    BY <1>4 DEF SupertonicEnds, Typed
  <2>3. /\ stream' \in [Turns -> Streams] /\ playing' \in BOOLEAN
        /\ worker' \in [Turns -> {"off", "pull", "synth", "tail", "ended", "failed", "cancelled"}]
    BY <1>4, <2>2, StreamStates DEF SupertonicEnds, Typed
  <2> QED BY <1>4, <2>1, <2>3 DEF Typed, SupertonicEnds, sessionVars
<1>5. ASSUME GatherEnds PROVE Typed'
  <2>1. phase' = "idle" /\ remembered' \in Results
    BY <1>2, <1>5 DEF GatherEnds
  <2>2. abandoned' \in BOOLEAN
    BY <1>5, Zenon DEF GatherEnds, Typed
  <2> QED BY <1>5, <2>1, <2>2 DEF Typed, GatherEnds, sessionVars, brainVars
<1>6. ASSUME Interrupt PROVE Typed'
  <2>1. 0 \in 0 .. MaxTurns /\ hurt' \in [Turns -> BOOLEAN]
    BY <1>6, Constant DEF Interrupt, Typed
  <2> QED BY <1>6, <2>1 DEF Typed, Interrupt, sessionVars
<1> QED BY <1>3, <1>4, <1>5, <1>6

LEMMA TypedNext ==
    ASSUME Typed, Due, [StreamNext]_streamVars
    PROVE  Typed'
<1>1. CASE UNCHANGED streamVars
  BY <1>1 DEF Typed, streamVars, sessionVars, brainVars, mouthVars, endVars
<1>2. CASE StreamNext
  BY <1>2, TypedBegin, TypedPeels, TypedSource, TypedWorker, TypedSynth, TypedPlayer, TypedEnds
     DEF StreamNext
<1> QED BY <1>1, <1>2

----------------------------------------------------------------------------
(* Whose the tasks are.                                                    *)

Alive(t) == worker[t] \in {"pull", "synth", "tail"} \/ player[t] \in {"get", "due", "play"}
\* No task of the turn has begun.
Unspoken(t) == t > turn \/ (t = turn /\ phase \in {"peel", "ready"})
Fresh(t) ==
    /\ worker[t] = "off" /\ player[t] = "off" /\ shown[t] = <<>> /\ cut[t] = 0
    /\ queue[t] = <<>> /\ heard[t] = NoClip

TaskInv ==
    /\ \A t \in Turns : Unspoken(t) => Fresh(t)
    /\ \A t \in Turns : t > turn => stream[t] = IdleStream
    /\ device # 0 => player[device] = "play"
    /\ mouth = "text" => ~stopped
    /\ mouth = "text" =>
          \A t \in Turns : player[t] = "off" /\ worker[t] \notin {"synth", "tail"}
    /\ ~abandoned => \A t \in Turns : Alive(t) => t = turn /\ phase = "speak"
    /\ phase = "speak" /\ stopped => cancelled

\* Nothing of turn u changes.
Same(u) ==
    /\ stream'[u] = stream[u] /\ shown'[u] = shown[u] /\ cut'[u] = cut[u]
    /\ queue'[u] = queue[u] /\ heard'[u] = heard[u]
    /\ worker'[u] = worker[u] /\ player'[u] = player[u]

\* A task of turn t makes a step.
TaskStep(t) ==
    /\ Alive(t)
    /\ \A u \in Turns \ {t} : Same(u)
    /\ UNCHANGED <<mouth, brain, turn, phase, stopped, playing, cancelled, abandoned, remembered>>

WorkerStep(t) ==
    \/ WorkerTakesBack(t) \/ \E k \in 1 .. MaxToken : WorkerTakes(t, k)
    \/ WorkerDrains(t) \/ WorkerFails(t) \/ SynthDone(t) \/ SynthFails(t)
PlayerStep(t) == PlayLoopGets(t) \/ SoundStarts(t) \/ PlayEnds(t) \/ PlayFails(t)

LEMMA WorkerStepIs ==
    ASSUME Typed, NEW t \in Turns, WorkerStep(t)
    PROVE  /\ TaskStep(t) /\ worker[t] \in {"pull", "synth", "tail"}
           /\ player' = player /\ device' = device /\ heard' = heard
           /\ mouth = "text" /\ worker[t] = "pull" => worker'[t] \notin {"synth", "tail"}
<1>1. CASE WorkerTakesBack(t)
  BY <1>1 DEF Typed, WorkerTakesBack, Takes, Puts, TaskStep, Same, Alive, sessionVars, endVars
<1>2. CASE \E k \in 1 .. MaxToken : WorkerTakes(t, k)
  <2>1. PICK k \in 1 .. MaxToken : WorkerTakes(t, k)
    BY <1>2
  <2> QED BY <2>1 DEF Typed, WorkerTakes, Takes, Puts, TaskStep, Same, Alive, sessionVars, endVars
<1>3. CASE WorkerDrains(t)
  BY <1>3 DEF Typed, WorkerDrains, Drains, Puts, TaskStep, Same, Alive, sessionVars, endVars
<1>4. CASE WorkerFails(t)
  BY <1>4 DEF Typed, WorkerFails, Puts, TaskStep, Same, Alive, sessionVars, endVars
<1>5. CASE SynthDone(t)
  BY <1>5 DEF Typed, SynthDone, Puts, TaskStep, Same, Alive, sessionVars, brainVars, endVars
<1>6. CASE SynthFails(t)
  BY <1>6 DEF Typed, SynthFails, Puts, TaskStep, Same, Alive, sessionVars, brainVars, endVars
<1> QED BY <1>1, <1>2, <1>3, <1>4, <1>5, <1>6 DEF WorkerStep

LEMMA PlayerStepIs ==
    ASSUME Typed, TaskInv, NEW t \in Turns, PlayerStep(t)
    PROVE  /\ TaskStep(t) /\ player[t] \in {"get", "due", "play"}
           /\ worker' = worker /\ shown' = shown /\ cut' = cut /\ stream' = stream
           /\ device' # 0 => player'[device'] = "play"
<1>1. /\ t # 0
      /\ device # 0 => device \in Turns /\ player[device] = "play"
      /\ player \in [Turns -> {"off", "get", "due", "play", "ended", "failed"}]
  BY Constant DEF Turns, Typed, TaskInv
<1>2. CASE PlayLoopGets(t)
  <2>1. device' # 0 => player'[device'] = "play"
    BY <1>1, <1>2 DEF PlayLoopGets
  <2> QED BY <1>2, <2>1 DEF Typed, PlayLoopGets, TaskStep, Same, Alive, sessionVars, brainVars, endVars
<1>3. CASE SoundStarts(t)
  <2>1. device' # 0 => player'[device'] = "play"
    BY <1>1, <1>3 DEF SoundStarts
  <2> QED BY <1>3, <2>1 DEF Typed, SoundStarts, TaskStep, Same, Alive, sessionVars, brainVars, endVars
<1>4. CASE PlayEnds(t)
  <2>1. device' # 0 => player'[device'] = "play"
    BY <1>1, <1>4 DEF PlayEnds
  <2> QED BY <1>4, <2>1 DEF Typed, PlayEnds, TaskStep, Same, Alive, sessionVars, brainVars, endVars
<1>5. CASE PlayFails(t)
  <2>1. device' # 0 => player'[device'] = "play"
    BY <1>1, <1>5 DEF PlayFails
  <2> QED BY <1>5, <2>1 DEF Typed, PlayFails, TaskStep, Same, Alive, sessionVars, brainVars, endVars
<1> QED BY <1>2, <1>3, <1>4, <1>5 DEF PlayerStep

LEMMA TaskInvStep ==
    ASSUME Typed, TaskInv, NEW t \in Turns, WorkerStep(t) \/ PlayerStep(t)
    PROVE  TaskInv'
<1>1. /\ TaskStep(t)
      /\ device' # 0 => player'[device'] = "play"
      /\ mouth = "text" => player'[t] = "off" /\ worker'[t] \notin {"synth", "tail"}
  <2>1. CASE WorkerStep(t)
    <3>1. /\ TaskStep(t) /\ worker[t] \in {"pull", "synth", "tail"} /\ player' = player /\ device' = device
          /\ mouth = "text" /\ worker[t] = "pull" => worker'[t] \notin {"synth", "tail"}
      BY <2>1, WorkerStepIs
    <3> QED BY <3>1 DEF TaskInv
  <2>2. CASE PlayerStep(t)
    <3>1. /\ TaskStep(t) /\ player[t] \in {"get", "due", "play"}
          /\ device' # 0 => player'[device'] = "play"
      BY <2>2, PlayerStepIs
    <3> QED BY <3>1 DEF TaskInv
  <2> QED BY <2>1, <2>2
<1>2. ~Unspoken(t)
  BY <1>1 DEF TaskStep, TaskInv, Fresh, Alive
<1>3. \A u \in Turns : Unspoken(u)' => Fresh(u)'
  <2> SUFFICES ASSUME NEW u \in Turns, Unspoken(u)' PROVE Fresh(u)'
    OBVIOUS
  <2>1. Unspoken(u)
    BY <1>1 DEF TaskStep, Unspoken
  <2>2. u # t /\ Same(u) /\ Fresh(u)
    BY <1>1, <1>2, <2>1 DEF TaskStep, TaskInv
  <2> QED BY <2>2 DEF Same, Fresh
<1>4. \A u \in Turns : u > turn' => stream'[u] = IdleStream
  BY <1>1, <1>2 DEF TaskStep, TaskInv, Same, Unspoken
<1>5. mouth' = "text" =>
          \A u \in Turns : player'[u] = "off" /\ worker'[u] \notin {"synth", "tail"}
  BY <1>1 DEF TaskStep, TaskInv, Same
<1>6. ~abandoned' => \A u \in Turns : Alive(u)' => u = turn' /\ phase' = "speak"
  BY <1>1 DEF TaskStep, TaskInv, Same, Alive
<1>7. /\ phase' = "speak" /\ stopped' => cancelled'
      /\ mouth' = "text" => ~stopped'
  BY <1>1 DEF TaskStep, TaskInv
<1> QED BY <1>1, <1>3, <1>4, <1>5, <1>6, <1>7 DEF TaskInv

\* run_turn between its tasks: the tasks and what they hold stay.
LEMMA TaskInvSource ==
    ASSUME Typed, TaskInv
    PROVE  /\ \A answer \in Answers : BeginTurn(answer) => TaskInv'
           /\ \A k \in 1 .. MaxToken : Peels(k) => TaskInv'
           /\ PeelsLast => TaskInv'
           /\ PeelFails => TaskInv'
           /\ SpeakStream => TaskInv'
<1>1. turn \in Nat /\ Turns \subseteq Nat /\ \A t \in Turns : t > turn + 1 => t > turn
  BY Constant DEF Typed
<1>2. ASSUME NEW answer \in Answers, BeginTurn(answer) PROVE TaskInv'
  <2>1. /\ turn' = turn + 1 /\ phase = "idle" /\ phase' = "peel"
        /\ UNCHANGED <<mouth, shown, cut, queue, worker, player, device, stopped, heard, abandoned>>
    BY <1>2 DEF BeginTurn, sessionVars, mouthVars
  <2>2. \A t \in Turns : Unspoken(t)' => Unspoken(t)
    BY <1>1, <2>1 DEF Unspoken
  <2>3. \A t \in Turns : Unspoken(t)' => Fresh(t)'
    BY <2>1, <2>2 DEF Fresh, TaskInv
  <2>4. \A t \in Turns : t > turn' => stream'[t] = IdleStream
    BY <1>1, <1>2, <2>1 DEF BeginTurn, TaskInv, Typed
  <2> QED BY <2>1, <2>3, <2>4 DEF TaskInv, Alive
<1>3. ASSUME phase = "peel", phase' \in {"idle", "peel", "ready"}, turn' = turn,
             \A t \in Turns \ {turn} : stream'[t] = stream[t],
             UNCHANGED <<mouth, shown, cut, queue, worker, player, device, stopped, heard, abandoned>>
      PROVE  TaskInv'
  <2>1. \A t \in Turns : Unspoken(t)' => Unspoken(t)
    BY <1>3 DEF Unspoken
  <2>2. \A t \in Turns : Unspoken(t)' => Fresh(t)'
    <3> SUFFICES ASSUME NEW t \in Turns, Unspoken(t)' PROVE Fresh(t)'
      OBVIOUS
    <3>1. Fresh(t)
      BY <2>1 DEF TaskInv
    <3>2. UNCHANGED <<shown, cut, queue, worker, player, heard>>
      BY <1>3
    <3> QED BY <3>1, <3>2, Zenon DEF Fresh
  <2>3. \A t \in Turns : t > turn' => stream'[t] = IdleStream
    <3> SUFFICES ASSUME NEW t \in Turns, t > turn' PROVE stream'[t] = IdleStream
      OBVIOUS
    <3>1. t > turn /\ t # turn
      BY <1>1, <1>3
    <3> QED BY <1>3, <3>1 DEF TaskInv
  <2> QED BY <1>3, <2>2, <2>3 DEF TaskInv, Alive
<1>4. ASSUME NEW k \in 1 .. MaxToken, Peels(k) PROVE TaskInv'
  BY <1>3, <1>4 DEF Peels, Typed, sessionVars, mouthVars, endVars
<1>5. ASSUME PeelsLast PROVE TaskInv'
  BY <1>3, <1>5 DEF PeelsLast, Typed, sessionVars, mouthVars, endVars
<1>6. ASSUME PeelFails PROVE TaskInv'
  BY <1>3, <1>6 DEF PeelFails, Typed, sessionVars, mouthVars, endVars
<1>7. ASSUME SpeakStream PROVE TaskInv'
  <2>1. /\ phase = "ready" /\ phase' = "speak" /\ turn \in Turns /\ Unspoken(turn)
        /\ UNCHANGED <<mouth, turn, stream, shown, cut, queue, device, heard, abandoned, cancelled>>
        /\ worker' = [worker EXCEPT ![turn] = "pull"]
        /\ mouth = "text" => player' = player /\ stopped' = stopped
        /\ mouth # "text" => player' = [player EXCEPT ![turn] = "get"] /\ stopped' = FALSE
    BY <1>7 DEF SpeakStream, Unspoken, Typed, sessionVars, brainVars, endVars
  <2>2. Fresh(turn)
    BY <2>1 DEF TaskInv
  <2>3. \A t \in Turns : Unspoken(t)' => Fresh(t)'
    <3> SUFFICES ASSUME NEW t \in Turns, Unspoken(t)' PROVE Fresh(t)'
      OBVIOUS
    <3>1. t > turn /\ t # turn
      BY <1>1, <2>1 DEF Unspoken
    <3>2. Fresh(t)
      BY <3>1 DEF TaskInv, Unspoken
    <3>3. worker'[t] = worker[t] /\ player'[t] = player[t]
      BY <2>1, <3>1 DEF Typed
    <3>4. UNCHANGED <<shown, cut, queue, heard>>
      BY <2>1
    <3> QED BY <3>2, <3>3, <3>4, Zenon DEF Fresh
  <2>4. device' # 0 => player'[device'] = "play"
    <3>1. device # 0 => device # turn /\ player[device] = "play"
      BY <2>2 DEF Fresh, TaskInv
    <3>2. device # 0 => device \in Turns
      BY Constant DEF Typed, Turns
    <3>3. device # 0 => player'[device] = player[device]
      BY <2>1, <3>1, <3>2 DEF Typed
    <3> QED BY <2>1, <3>1, <3>3
  <2>5. mouth' = "text" =>
          \A u \in Turns : player'[u] = "off" /\ worker'[u] \notin {"synth", "tail"}
    BY <2>1 DEF TaskInv, Typed
  <2>6. ~abandoned' => \A u \in Turns : Alive(u)' => u = turn' /\ phase' = "speak"
    BY <2>1 DEF TaskInv, Typed, Alive
  <2>7. \A t \in Turns : t > turn' => stream'[t] = IdleStream
    BY <2>1 DEF TaskInv
  <2>8. /\ phase' = "speak" /\ stopped' => cancelled'
        /\ mouth' = "text" => ~stopped'
    BY <2>1 DEF TaskInv
  <2> QED BY <2>3, <2>4, <2>5, <2>6, <2>7, <2>8 DEF TaskInv
<1> QED BY <1>2, <1>4, <1>5, <1>6, <1>7

LEMMA TaskInvEnds ==
    ASSUME Typed, TaskInv
    PROVE  /\ DrainEnds => TaskInv'
           /\ SupertonicEnds => TaskInv'
           /\ GatherEnds => TaskInv'
           /\ Interrupt => TaskInv'
<1>1. ASSUME phase = "speak", phase' = "idle", turn \in Turns,
             UNCHANGED <<mouth, turn, shown, cut, queue, player, device, stopped, heard>>,
             \A t \in Turns \ {turn} : worker'[t] = worker[t] /\ stream'[t] = stream[t],
             ~abandoned' => ~abandoned /\ ~Alive(turn)',
             worker'[turn] \in {worker[turn], "cancelled"}
      PROVE  TaskInv'
  <2>1. \A t \in Turns : Unspoken(t)' => Unspoken(t) /\ t # turn
    BY <1>1, Constant DEF Unspoken, Typed
  <2>2. \A t \in Turns : Unspoken(t)' => Fresh(t)'
    <3> SUFFICES ASSUME NEW t \in Turns, Unspoken(t)' PROVE Fresh(t)'
      OBVIOUS
    <3>1. Fresh(t) /\ t # turn
      BY <2>1 DEF TaskInv
    <3> QED BY <1>1, <3>1 DEF Fresh
  <2>3. \A t \in Turns : t > turn' => stream'[t] = IdleStream
    <3> SUFFICES ASSUME NEW t \in Turns, t > turn' PROVE stream'[t] = IdleStream
      OBVIOUS
    <3>1. t > turn /\ t # turn
      BY <1>1, Constant DEF Typed
    <3> QED BY <1>1, <3>1 DEF TaskInv
  <2>4. ~abandoned' => \A t \in Turns : ~Alive(t)'
    <3> SUFFICES ASSUME ~abandoned', NEW t \in Turns PROVE ~Alive(t)'
      OBVIOUS
    <3>1. CASE t = turn
      BY <1>1, <3>1 DEF Alive
    <3>2. CASE t # turn
      <4>1. ~Alive(t)
        BY <1>1, <3>2 DEF TaskInv
      <4> QED BY <1>1, <3>2, <4>1 DEF Alive
    <3> QED BY <3>1, <3>2
  <2>5. mouth' = "text" =>
          \A u \in Turns : player'[u] = "off" /\ worker'[u] \notin {"synth", "tail"}
    BY <1>1 DEF TaskInv
  <2>6. /\ device' # 0 => player'[device'] = "play"
        /\ phase' = "speak" /\ stopped' => cancelled'
        /\ mouth' = "text" => ~stopped'
    BY <1>1 DEF TaskInv
  <2> QED BY <2>2, <2>3, <2>4, <2>5, <2>6 DEF TaskInv
<1>2. phase = "speak" => turn \in Turns
  BY DEF Typed
<1>3. ASSUME DrainEnds PROVE TaskInv'
  <2>1. /\ phase = "speak" /\ phase' = "idle" /\ worker[turn] \in {"ended", "failed"}
        /\ mouth = "text" /\ UNCHANGED <<worker, stream, abandoned>>
        /\ UNCHANGED <<mouth, turn, shown, cut, queue, player, device, stopped, heard>>
    BY <1>3 DEF DrainEnds, Returns, Raises, sessionVars, brainVars, mouthVars
  <2>2. ~Alive(turn)'
    BY <1>2, <2>1 DEF TaskInv, Alive
  <2> QED BY <1>1, <1>2, <2>1, <2>2
<1>4. ASSUME SupertonicEnds PROVE TaskInv'
  <2>1. /\ phase = "speak" /\ phase' = "idle" /\ player[turn] \in {"ended", "failed"}
        /\ abandoned' = abandoned
        /\ UNCHANGED <<mouth, turn, shown, cut, queue, player, device, stopped, heard>>
    BY <1>4 DEF SupertonicEnds, Returns, Raises, sessionVars
  <2>2. /\ \A t \in Turns \ {turn} : worker'[t] = worker[t] /\ stream'[t] = stream[t]
        /\ worker'[turn] \in {worker[turn], "cancelled"} /\ worker'[turn] \in {"ended", "failed", "cancelled"}
    BY <1>2, <1>4, <2>1 DEF SupertonicEnds, Typed
  <2>3. ~Alive(turn)'
    BY <2>1, <2>2 DEF Alive
  <2> QED BY <1>1, <1>2, <2>1, <2>2, <2>3
<1>5. ASSUME GatherEnds PROVE TaskInv'
  <2>1. /\ phase = "speak" /\ phase' = "idle" /\ UNCHANGED <<worker, stream>>
        /\ UNCHANGED <<mouth, turn, shown, cut, queue, player, device, stopped, heard>>
    BY <1>5 DEF GatherEnds, Returns, Raises, sessionVars, brainVars
  <2>2. ~abandoned' => ~abandoned /\ {worker[turn], player[turn]} \subseteq {"ended", "failed"}
    BY <1>5 DEF GatherEnds
  <2>3. ~abandoned' => ~abandoned /\ ~Alive(turn)'
    BY <2>1, <2>2 DEF Alive
  <2> QED BY <1>1, <1>2, <2>1, <2>3
<1>6. ASSUME Interrupt PROVE TaskInv'
  <2>1. /\ cancelled' /\ UNCHANGED <<mouth, turn, phase, stream, shown, cut, queue, worker, player, heard, abandoned>>
        /\ mouth = "text" => stopped' = stopped /\ device' = device
        /\ mouth # "text" => device' = 0
    BY <1>6 DEF Interrupt, sessionVars
  <2>2. \A t \in Turns : Unspoken(t)' => Fresh(t)'
    <3> SUFFICES ASSUME NEW t \in Turns, Unspoken(t)' PROVE Fresh(t)'
      OBVIOUS
    <3>1. Fresh(t)
      BY <2>1 DEF TaskInv, Unspoken
    <3> QED BY <2>1, <3>1 DEF Fresh
  <2>3. /\ device' # 0 => player'[device'] = "play"
        /\ mouth' = "text" => ~stopped'
    BY <2>1 DEF TaskInv
  <2>4. ~abandoned' => \A t \in Turns : Alive(t)' => t = turn' /\ phase' = "speak"
    BY <2>1 DEF TaskInv, Alive
  <2> QED BY <2>1, <2>2, <2>3, <2>4 DEF TaskInv
<1> QED BY <1>3, <1>4, <1>5, <1>6

LEMMA TaskInvInit == StreamInit => TaskInv
<1> SUFFICES ASSUME StreamInit PROVE TaskInv
  OBVIOUS
<1>1. \A t \in Turns : t > 0 /\ t # 0
  BY Constant DEF Turns
<1>2. \A t \in Turns : Fresh(t) /\ ~Alive(t) /\ stream[t] = IdleStream
  BY DEF StreamInit, Fresh, Alive
<1>3. mouth = "text" =>
          \A t \in Turns : player[t] = "off" /\ worker[t] \notin {"synth", "tail"}
  BY DEF StreamInit
<1> QED BY <1>1, <1>2, <1>3 DEF StreamInit, TaskInv

LEMMA TaskInvNext ==
    ASSUME Typed, TaskInv, [StreamNext]_streamVars
    PROVE  TaskInv'
<1>1. CASE UNCHANGED streamVars
  BY <1>1 DEF TaskInv, Fresh, Unspoken, Alive, streamVars, sessionVars, brainVars, mouthVars, endVars
<1>2. CASE StreamNext
  BY <1>2, TaskInvSource, TaskInvStep, TaskInvEnds DEF StreamNext, WorkerStep, PlayerStep
<1> QED BY <1>1, <1>2

----------------------------------------------------------------------------
(* How far a turn has come: cut, queued and heard.                         *)

\* The clips of q go on from a, in order, and none comes after b.
Ordered(q, a, b) ==
    \A i \in 1 .. Len(q) : q[i] # Done =>
        /\ a < q[i].to /\ q[i].to <= b
        /\ \A j \in 1 .. Len(q) : i < j /\ q[j] # Done => q[i].to < q[j].to

Speech(t) ==
    /\ cut[t] <= Len(shown[t])
    /\ worker[t] = "synth" => SentenceEnd(Buffer(t)) > 0
    /\ worker[t] = "tail" => cut[t] < Len(shown[t])
    /\ heard[t].to \in 0 .. cut[t]
    /\ Ordered(queue[t], heard[t].to, cut[t])
SpeechInv == \A t \in Turns : Speech(t)

LEMMA OrderedEnd ==
    ASSUME NEW q \in Seq(Clips), NEW a \in Int, NEW b \in Int, Ordered(q, a, b)
    PROVE  Ordered(q \o <<Done>>, a, b)
<1> DEFINE r == q \o <<Done>>
<1>1. /\ Len(q) \in Nat /\ Len(r) = Len(q) + 1 /\ r[Len(q) + 1] = Done
      /\ \A i \in 1 .. Len(q) : r[i] = q[i]
  BY Constant, OneClip, ConcatProperties, LenProperties
<1> HIDE DEF r
<1>2. \A i \in 1 .. Len(r) : r[i] # Done => i \in 1 .. Len(q)
  BY <1>1
<1>3. Ordered(r, a, b)
  BY <1>1, <1>2 DEF Ordered
<1> QED BY <1>3 DEF r

LEMMA OrderedMore ==
    ASSUME NEW q \in Seq(Clips), NEW a \in Int, NEW b \in Int, Ordered(q, a, b),
           NEW c \in Clips, a <= b, b < c.to
    PROVE  Ordered(q \o <<c>>, a, c.to)
<1> DEFINE r == q \o <<c>>
<1>1. /\ Len(q) \in Nat /\ Len(r) = Len(q) + 1 /\ r[Len(q) + 1] = c
      /\ \A i \in 1 .. Len(q) : r[i] = q[i] /\ r[i] \in Clips
  BY OneClip, ConcatProperties, LenProperties, ElementOfSeq
<1> HIDE DEF r
<1>2. \A i \in 1 .. Len(r) : i \in 1 .. Len(q) \/ (i = Len(q) + 1 /\ r[i] = c)
  BY <1>1
<1>3. c.to \in Int /\ \A i \in 1 .. Len(q) : r[i].to \in Int
  BY <1>1 DEF Clips
<1>4. ASSUME NEW i \in 1 .. Len(r), r[i] # Done
      PROVE  /\ a < r[i].to /\ r[i].to <= c.to
             /\ \A j \in 1 .. Len(r) : i < j /\ r[j] # Done => r[i].to < r[j].to
  <2>1. CASE i \in 1 .. Len(q)
    <3>1. /\ a < r[i].to /\ r[i].to <= b
          /\ \A j \in 1 .. Len(q) : i < j /\ r[j] # Done => r[i].to < r[j].to
      BY <1>1, <1>4, <2>1 DEF Ordered
    <3>2. r[i].to < c.to /\ r[i].to <= c.to
      BY <1>3, <2>1, <3>1
    <3>3. \A j \in 1 .. Len(r) : i < j /\ r[j] # Done => r[i].to < r[j].to
      BY <1>2, <3>1, <3>2
    <3> QED BY <3>1, <3>2, <3>3
  <2>2. CASE i = Len(q) + 1
    <3>1. \A j \in 1 .. Len(r) : ~(i < j)
      BY <1>1, <2>2
    <3>2. a < c.to /\ c.to <= c.to
      BY <1>3
    <3> QED BY <1>1, <2>2, <3>1, <3>2
  <2> QED BY <1>2, <2>1, <2>2
<1>5. Ordered(r, a, c.to)
  BY <1>4 DEF Ordered
<1> QED BY <1>5 DEF r

\* A longer end keeps the order.
LEMMA OrderedUpTo ==
    ASSUME NEW q \in Seq(Clips), NEW a \in Int, NEW b \in Int, NEW c \in Int, Ordered(q, a, b), b <= c
    PROVE  Ordered(q, a, c)
<1>1. \A i \in 1 .. Len(q) : q[i].to \in Int
  <2>1. \A i \in 1 .. Len(q) : q[i] \in Clips
    BY ElementOfSeq
  <2> QED BY <2>1 DEF Clips
<1> QED BY <1>1 DEF Ordered

LEMMA OrderedTail ==
    ASSUME NEW q \in Seq(Clips), NEW a \in Int, NEW b \in Int, Ordered(q, a, b), q # <<>>
    PROVE  /\ Ordered(Tail(q), a, b)
           /\ Head(q) # Done => /\ a < Head(q).to /\ Head(q).to <= b
                                /\ Ordered(Tail(q), Head(q).to, b)
<1> DEFINE r == Tail(q)
<1>1. /\ Len(q) \in Nat /\ Len(r) = Len(q) - 1 /\ Head(q) = q[1] /\ 1 \in 1 .. Len(q)
      /\ \A i \in 1 .. Len(r) : r[i] = q[i + 1] /\ i + 1 \in 1 .. Len(q) /\ 1 < i + 1
  BY HeadTailProperties, EmptySeq, LenProperties
<1> HIDE DEF r
<1>2. \A i, j \in 1 .. Len(r) : i < j => i + 1 < j + 1
  BY <1>1
<1>3. \A c \in {a, q[1].to} : (\A i \in 1 .. Len(r) : r[i] # Done => c < r[i].to) => Ordered(r, c, b)
  BY <1>1, <1>2 DEF Ordered
<1>4. \A i \in 1 .. Len(r) : r[i] # Done => a < r[i].to
  BY <1>1 DEF Ordered
<1>5. ASSUME q[1] # Done PROVE \A i \in 1 .. Len(r) : r[i] # Done => q[1].to < r[i].to
  BY <1>1, <1>5 DEF Ordered
<1>6. q[1] # Done => a < q[1].to /\ q[1].to <= b
  BY <1>1 DEF Ordered
<1> QED BY <1>1, <1>3, <1>4, <1>5, <1>6 DEF r

LEMMA BufferGrows ==
    ASSUME NEW text \in Text, NEW token \in Text, NEW n \in Nat, n <= Len(text)
    PROVE  SubSeq(text \o token, n + 1, Len(text \o token))
              = SubSeq(text, n + 1, Len(text)) \o token
<1> DEFINE all == text \o token
           long == SubSeq(all, n + 1, Len(all))
           short == SubSeq(text, n + 1, Len(text))
<1>1. /\ text \in Seq(Units) /\ token \in Seq(Units) /\ all \in Seq(Units)
      /\ Len(text) \in Nat /\ Len(token) \in Nat /\ Len(all) = Len(text) + Len(token)
      /\ \A i \in 1 .. Len(all) : all[i] = IF i <= Len(text) THEN text[i] ELSE token[i - Len(text)]
      /\ n + 1 \in Nat \ {0}
  BY ConcatProperties, LenProperties DEF Text
<1> HIDE DEF all
<1>2. /\ long \in Seq(Units) /\ Len(long) = Len(all) - n
      /\ \A i \in 1 .. Len(all) - n : long[i] = all[n + i]
  <2>1. Len(all) \in Nat /\ Len(all) <= Len(all) /\ n <= Len(all)
    BY <1>1
  <2>2. /\ long \in Seq(Units)
        /\ Len(long) = IF n + 1 <= Len(all) THEN Len(all) - (n + 1) + 1 ELSE 0
        /\ \A i \in 1 .. Len(all) - (n + 1) + 1 : long[i] = all[(n + 1) + i - 1]
    BY <1>1, <2>1, TakesOut
  <2> HIDE DEF long
  <2>3. \A i \in 1 .. Len(all) - n : i \in 1 .. Len(all) - (n + 1) + 1 /\ (n + 1) + i - 1 = n + i
    BY <2>1
  <2>4. \A i \in 1 .. Len(all) - n : long[i] = all[n + i]
    BY <2>2, <2>3
  <2> QED BY <2>1, <2>2, <2>4
<1>3. /\ short \in Seq(Units) /\ Len(short) = Len(text) - n
      /\ \A i \in 1 .. Len(text) - n : short[i] = text[n + i]
  <2>2. /\ short \in Seq(Units)
        /\ Len(short) = IF n + 1 <= Len(text) THEN Len(text) - (n + 1) + 1 ELSE 0
        /\ \A i \in 1 .. Len(text) - (n + 1) + 1 : short[i] = text[(n + 1) + i - 1]
    <3>1. Len(text) <= Len(text)
      BY <1>1
    <3> QED BY <1>1, <3>1, TakesOut
  <2> HIDE DEF short
  <2>3. \A i \in 1 .. Len(text) - n : i \in 1 .. Len(text) - (n + 1) + 1 /\ (n + 1) + i - 1 = n + i
    BY <1>1
  <2>4. \A i \in 1 .. Len(text) - n : short[i] = text[n + i]
    BY <2>2, <2>3
  <2> QED BY <1>1, <2>2, <2>4
<1> HIDE DEF long, short
<1>4. /\ short \o token \in Seq(Units) /\ Len(short \o token) = Len(short) + Len(token)
      /\ \A i \in 1 .. Len(short) + Len(token) :
            (short \o token)[i] = IF i <= Len(short) THEN short[i] ELSE token[i - Len(short)]
  <2>1. PICK a \in Seq(Units), b \in Seq(Units) : a = short /\ b = token
    BY <1>1, <1>3
  <2>2. /\ a \o b \in Seq(Units) /\ Len(a \o b) = Len(a) + Len(b)
        /\ \A i \in 1 .. Len(a) + Len(b) : (a \o b)[i] = IF i <= Len(a) THEN a[i] ELSE b[i - Len(a)]
    BY ConcatProperties
  <2> QED BY <2>1, <2>2
<1>5. Len(long) = Len(short \o token)
  BY <1>1, <1>2, <1>3, <1>4
<1>6. ASSUME NEW i \in 1 .. Len(long) PROVE long[i] = (short \o token)[i]
  <2>1. /\ i \in 1 .. Len(all) - n /\ n + i \in 1 .. Len(all) /\ i \in 1 .. Len(short) + Len(token)
        /\ (n + i <= Len(text)) <=> (i <= Len(short))
        /\ i - Len(short) = (n + i) - Len(text)
    BY <1>1, <1>2, <1>3
  <2>2. CASE i <= Len(short)
    <3>1. i \in 1 .. Len(text) - n
      BY <1>1, <1>3, <2>2
    <3> QED BY <1>1, <1>2, <1>3, <1>4, <2>1, <2>2, <3>1
  <2>3. CASE ~(i <= Len(short))
    <3>1. long[i] = token[(n + i) - Len(text)]
      BY <1>1, <1>2, <2>1, <2>3
    <3>2. (short \o token)[i] = token[i - Len(short)]
      BY <1>4, <2>1, <2>3
    <3> QED BY <2>1, <3>1, <3>2
  <2> QED BY <2>2, <2>3
<1>7. long = short \o token
  BY <1>2, <1>4, <1>5, <1>6, SeqEqual
<1> QED BY <1>7 DEF all, long, short

\* What the sentence in hand moves the cut to.
LEMMA ClipGoesOn ==
    ASSUME Typed, NEW t \in Turns, Speech(t), worker[t] \in {"synth", "tail"}
    PROVE  /\ cut[t] < ClipEnd(t) /\ ClipEnd(t) <= Len(shown[t])
           /\ Clip(t).to = ClipEnd(t) /\ Clip(t) # Done
<1>1. /\ cut[t] \in Nat /\ Len(shown[t]) \in Nat /\ ClipEnd(t) \in Nat
      /\ Len(Buffer(t)) = IF cut[t] < Len(shown[t]) THEN Len(shown[t]) - cut[t] ELSE 0
      /\ SentenceEnd(Buffer(t)) \in 0 .. Len(Buffer(t))
  BY TextOfTurn
<1>2. CASE worker[t] = "tail"
  <2>1. ClipEnd(t) = Len(shown[t]) /\ cut[t] < Len(shown[t])
    BY <1>2 DEF ClipEnd, Speech
  <2> QED BY <1>1, <2>1 DEF Clip, Done
<1>3. CASE worker[t] = "synth"
  <2>1. ClipEnd(t) = cut[t] + SentenceEnd(Buffer(t)) /\ SentenceEnd(Buffer(t)) > 0
    BY <1>3 DEF ClipEnd, Speech
  <2>2. cut[t] < ClipEnd(t) /\ ClipEnd(t) <= Len(shown[t])
    BY <1>1, <2>1
  <2> QED BY <1>1, <2>2 DEF Clip, Done
<1> QED BY <1>2, <1>3

LEMMA SpeechSame ==
    ASSUME NEW t \in Turns, Speech(t), shown'[t] = shown[t], cut'[t] = cut[t], queue'[t] = queue[t],
           heard'[t] = heard[t],
           worker'[t] \in {worker[t], "pull", "ended", "failed", "cancelled"}
    PROVE  Speech(t)'
<1>1. Buffer(t)' = Buffer(t)
  BY DEF Buffer
<1> QED BY <1>1 DEF Speech

LEMMA SpeechTakes ==
    ASSUME Typed, NEW t \in Turns, Speech(t), NEW token \in Text, NEW s, Takes(t, token, s),
           cut' = cut, heard' = heard
    PROVE  Speech(t)'
<1>1. /\ cut[t] \in Nat /\ shown[t] \in Text /\ Len(shown[t]) \in Nat
      /\ queue[t] \in Seq(Clips) /\ heard[t] \in Clips
  BY TextOfTurn
<1>2. /\ shown'[t] = shown[t] \o token /\ cut'[t] = cut[t] /\ heard'[t] = heard[t]
      /\ worker'[t] \in {"ended", "synth", "pull"}
      /\ worker'[t] = "synth" => SentenceEnd(Buffer(t) \o token) > 0
      /\ queue'[t] \in {queue[t], queue[t] \o <<Done>>}
  BY DEF Takes, Puts, Typed
<1>3. Buffer(t)' = Buffer(t) \o token
  <2>1. cut[t] <= Len(shown[t])
    BY DEF Speech
  <2>2. SubSeq(shown[t] \o token, cut[t] + 1, Len(shown[t] \o token))
           = SubSeq(shown[t], cut[t] + 1, Len(shown[t])) \o token
    BY <1>1, <2>1, BufferGrows
  <2>3. Buffer(t)' = SubSeq(shown[t] \o token, cut[t] + 1, Len(shown[t] \o token))
    BY <1>2 DEF Buffer
  <2> QED BY <2>2, <2>3 DEF Buffer
<1>4. cut'[t] <= Len(shown'[t])
  <2>1. Len(token) \in Nat /\ Len(shown[t] \o token) = Len(shown[t]) + Len(token)
    BY <1>1, ConcatProperties, LenProperties DEF Text
  <2> QED BY <1>1, <1>2, <2>1 DEF Speech
<1>5. Ordered(queue'[t], heard'[t].to, cut'[t])
  <2>1. heard[t].to \in Int /\ cut[t] \in Int
    BY <1>1 DEF Clips
  <2>2. Ordered(queue[t], heard[t].to, cut[t]) /\ Ordered(queue[t] \o <<Done>>, heard[t].to, cut[t])
    BY <1>1, <2>1, OrderedEnd DEF Speech
  <2> QED BY <1>2, <2>2
<1> QED BY <1>2, <1>3, <1>4, <1>5 DEF Speech

LEMMA SpeechWorker ==
    ASSUME Typed, SpeechInv, NEW t \in Turns, WorkerStep(t)
    PROVE  Speech(t)'
<1>1. Speech(t) /\ heard' = heard
  BY WorkerStepIs DEF SpeechInv
<1>2. /\ cut[t] \in Nat /\ shown[t] \in Text /\ Len(shown[t]) \in Nat
      /\ queue[t] \in Seq(Clips) /\ heard[t] \in Clips /\ stream[t] \in Streams
      /\ ClipEnd(t) \in Nat /\ Clip(t) \in Clips /\ heard[t].to \in Int
  BY TextOfTurn DEF Clips
<1>3. CASE WorkerTakesBack(t)
  <2>1. Head(stream[t].back) \in Text
    BY <1>2, <1>3, StreamStates DEF WorkerTakesBack
  <2> QED BY <1>1, <1>3, <2>1, SpeechTakes DEF WorkerTakesBack
<1>4. CASE \E k \in 1 .. MaxToken : WorkerTakes(t, k)
  <2>1. PICK k \in 1 .. MaxToken : WorkerTakes(t, k)
    BY <1>4
  <2>2. Token(t, k) \in Text
    BY <2>1, AdvancedIsStream DEF WorkerTakes
  <2> QED BY <1>1, <2>1, <2>2, SpeechTakes DEF WorkerTakes
<1>5. CASE WorkerDrains(t)
  <2>1. shown' = shown /\ cut' = cut /\ heard' = heard
    BY <1>5 DEF WorkerDrains
  <2>2. CASE Drains(t) /\ Buffer(t) # <<>> /\ ~stopped /\ mouth # "text"
    <3>1. worker'[t] = "tail" /\ queue'[t] = queue[t]
      BY <2>2 DEF Drains, Typed
    <3>2. cut[t] < Len(shown[t])
      <4>1. Len(Buffer(t)) # 0
        BY <2>2, TextOfTurn, EmptySeq DEF Text
      <4> QED BY <4>1, TextOfTurn
    <3> QED BY <1>1, <2>1, <3>1, <3>2 DEF Speech
  <2>3. CASE ~(Drains(t) /\ Buffer(t) # <<>> /\ ~stopped /\ mouth # "text")
    <3>1. worker'[t] = "ended" /\ queue'[t] = queue[t] \o <<Done>>
      BY <1>5, <2>3 DEF WorkerDrains, Drains, Puts, Typed
    <3>2. Ordered(queue'[t], heard[t].to, cut[t])
      BY <1>1, <1>2, <3>1, OrderedEnd DEF Speech
    <3> QED BY <1>1, <2>1, <3>1, <3>2 DEF Speech
  <2> QED BY <2>2, <2>3
<1>6. CASE WorkerFails(t)
  <2>1. /\ shown' = shown /\ cut' = cut /\ heard' = heard /\ worker'[t] = "failed"
        /\ queue'[t] \in {queue[t], queue[t] \o <<Done>>}
    BY <1>6 DEF WorkerFails, Puts, Typed
  <2>2. Ordered(queue'[t], heard[t].to, cut[t])
    <3>1. Ordered(queue[t], heard[t].to, cut[t]) /\ cut[t] \in Int
      BY <1>1, <1>2 DEF Speech
    <3>2. Ordered(queue[t] \o <<Done>>, heard[t].to, cut[t])
      BY <1>2, <3>1, OrderedEnd
    <3> QED BY <2>1, <3>1, <3>2
  <2> QED BY <1>1, <2>1, <2>2 DEF Speech
<1>7. CASE SynthDone(t) \/ SynthFails(t)
  <2>1. worker[t] \in {"synth", "tail"}
    BY <1>7 DEF SynthDone, SynthFails
  <2>2. cut[t] < ClipEnd(t) /\ ClipEnd(t) <= Len(shown[t]) /\ Clip(t).to = ClipEnd(t)
    BY <1>1, <2>1, ClipGoesOn
  <2>3. /\ shown' = shown /\ cut'[t] = ClipEnd(t) /\ heard' = heard
        /\ worker'[t] \in {AfterClip(t), "failed"}
    BY <1>7 DEF SynthDone, SynthFails, Typed, brainVars
  <2>4. worker'[t] \in {"synth", "pull", "ended", "failed"}
    BY <2>3 DEF AfterClip
  <2>5. worker'[t] = "synth" => SentenceEnd(Buffer(t)') > 0
    <3>1. Buffer(t)' = SubSeq(shown[t], ClipEnd(t) + 1, Len(shown[t]))
      BY <2>3 DEF Buffer
    <3> QED BY <2>3, <3>1 DEF AfterClip
  <2>6. Ordered(queue[t], heard[t].to, cut[t]) /\ heard[t].to <= cut[t] /\ heard[t].to >= 0
    BY <1>1, <1>2 DEF Speech
  <2>7. /\ Ordered(queue[t], heard[t].to, ClipEnd(t))
        /\ Ordered(queue[t] \o <<Done>>, heard[t].to, ClipEnd(t))
    <3>1. Ordered(queue[t], heard[t].to, ClipEnd(t))
      BY <1>2, <2>2, <2>6, OrderedUpTo
    <3> QED BY <1>2, <3>1, OrderedEnd
  <2>8. /\ queue[t] \o <<Clip(t)>> \in Seq(Clips)
        /\ Ordered(queue[t] \o <<Clip(t)>>, heard[t].to, ClipEnd(t))
        /\ Ordered((queue[t] \o <<Clip(t)>>) \o <<Done>>, heard[t].to, ClipEnd(t))
    <3>1. queue[t] \o <<Clip(t)>> \in Seq(Clips)
      BY <1>2, OneClip, ConcatProperties
    <3>2. Ordered(queue[t] \o <<Clip(t)>>, heard[t].to, ClipEnd(t))
      BY <1>2, <2>2, <2>6, OrderedMore
    <3>3. PICK r \in Seq(Clips) : r = queue[t] \o <<Clip(t)>>
      BY <3>1
    <3>4. Ordered(r \o <<Done>>, heard[t].to, ClipEnd(t))
      <4>1. Ordered(r, heard[t].to, ClipEnd(t)) /\ ClipEnd(t) \in Int
        BY <1>2, <3>2, <3>3
      <4> QED BY <1>2, <4>1, OrderedEnd
    <3> QED BY <3>1, <3>2, <3>3, <3>4
  <2>9. Ordered(queue'[t], heard[t].to, ClipEnd(t))
    <3>1. CASE SynthFails(t)
      <4>1. queue'[t] \in {queue[t] \o <<Done>>, queue[t] \o <<>>}
        BY <3>1 DEF SynthFails, Puts, EndMark, Typed
      <4>2. queue[t] \o <<>> = queue[t]
        BY <1>2, ConcatEmptySeq
      <4> QED BY <2>7, <4>1, <4>2
    <3>2. CASE SynthDone(t)
      <4>1. queue'[t] = queue[t] \o (<<Clip(t)>> \o EndMark(t))
        BY <3>2 DEF SynthDone, Puts, Typed
      <4>2. EndMark(t) \in {<<Done>>, <<>>} /\ <<>> \in Seq(Clips) /\ <<Done>> \in Seq(Clips) /\ <<Clip(t)>> \in Seq(Clips)
        BY <1>2, OneClip, Constant, EmptySeq DEF EndMark
      <4>3. queue'[t] = (queue[t] \o <<Clip(t)>>) \o EndMark(t)
        <5>1. PICK a \in Seq(Clips), b \in Seq(Clips), c \in Seq(Clips) :
                  a = queue[t] /\ b = <<Clip(t)>> /\ c = EndMark(t)
          BY <1>2, <4>2
        <5>2. Associates(a, b, c)
          BY Associative, Zenon
        <5> QED BY <4>1, <5>1, <5>2 DEF Associates
      <4>4. (queue[t] \o <<Clip(t)>>) \o <<>> = queue[t] \o <<Clip(t)>>
        BY <2>8, ConcatEmptySeq
      <4> QED BY <2>8, <4>2, <4>3, <4>4
    <3> QED BY <1>7, <3>1, <3>2
  <2>10. heard'[t].to \in 0 .. cut'[t] /\ cut'[t] <= Len(shown'[t])
    BY <1>2, <2>2, <2>3, <2>6
  <2> QED BY <2>3, <2>4, <2>5, <2>9, <2>10 DEF Speech
<1> QED BY <1>3, <1>4, <1>5, <1>6, <1>7 DEF WorkerStep

LEMMA SpeechPlayer ==
    ASSUME Typed, Due, TaskInv, SpeechInv, NEW t \in Turns, PlayerStep(t)
    PROVE  /\ Speech(t)'
           /\ heard'[t] # heard[t] => heard'[t].to > heard[t].to
<1>1. /\ Speech(t) /\ shown'[t] = shown[t] /\ cut'[t] = cut[t] /\ worker'[t] = worker[t]
      /\ queue[t] \in Seq(Clips) /\ heard[t].to \in Int /\ cut[t] \in Int
  BY PlayerStepIs, TextOfTurn DEF SpeechInv, Clips
<1>2. CASE PlayEnds(t) \/ PlayFails(t)
  <2>1. queue'[t] = queue[t] /\ heard'[t] = heard[t]
    BY <1>2 DEF PlayEnds, PlayFails
  <2> QED BY <1>1, <2>1, SpeechSame
<1>3. CASE PlayLoopGets(t) /\ player'[t] = "due"
  BY <1>1, <1>3, SpeechSame DEF PlayLoopGets, Typed
<1>4. CASE (PlayLoopGets(t) /\ player'[t] # "due") \/ SoundStarts(t)
  <2>1. /\ queue[t] # <<>> /\ queue'[t] = Tail(queue[t])
        /\ heard'[t] = heard[t] \/ (heard'[t] = Head(queue[t]) /\ Head(queue[t]) # Done)
    BY <1>4 DEF PlayLoopGets, SoundStarts, Due, Typed
  <2>2. /\ Ordered(Tail(queue[t]), heard[t].to, cut[t])
        /\ Head(queue[t]) # Done => /\ heard[t].to < Head(queue[t]).to /\ Head(queue[t]).to <= cut[t]
                                    /\ Ordered(Tail(queue[t]), Head(queue[t]).to, cut[t])
    BY <1>1, <2>1, OrderedTail DEF Speech
  <2>3. heard[t].to \in 0 .. cut[t]
    BY <1>1 DEF Speech
  <2>4. Head(queue[t]).to \in Int
    <3>1. Head(queue[t]) \in Clips
      BY <1>1, <2>1, HeadTailProperties
    <3> QED BY <3>1 DEF Clips
  <2>5. heard'[t].to \in 0 .. cut[t] /\ Ordered(queue'[t], heard'[t].to, cut[t])
    BY <1>1, <2>1, <2>2, <2>3, <2>4
  <2>6. Buffer(t)' = Buffer(t)
    BY <1>1 DEF Buffer
  <2>7. Speech(t)'
    BY <1>1, <2>5, <2>6 DEF Speech
  <2> QED BY <2>1, <2>2, <2>7
<1> QED BY <1>2, <1>3, <1>4 DEF PlayerStep

LEMMA SpeechInit == StreamInit => SpeechInv
<1> SUFFICES ASSUME StreamInit, NEW t \in Turns PROVE Speech(t)
  BY DEF SpeechInv
<1>1. /\ cut[t] = 0 /\ shown[t] = <<>> /\ heard[t] = NoClip /\ queue[t] = <<>> /\ worker[t] = "off"
  BY DEF StreamInit
<1>2. Len(<<>>) = 0
  BY EmptySeq
<1> QED BY <1>1, <1>2 DEF Speech, Ordered, NoClip

LEMMA SpeechNext ==
    ASSUME Typed, Due, TaskInv, SpeechInv, [StreamNext]_streamVars
    PROVE  SpeechInv'
<1> SUFFICES ASSUME NEW t \in Turns PROVE Speech(t)'
  BY DEF SpeechInv
<1>1. Speech(t)
  BY DEF SpeechInv
<1>2. ASSUME UNCHANGED <<shown, cut, queue, heard>>,
             worker'[t] \in {worker[t], "pull", "ended", "failed", "cancelled"}
      PROVE  Speech(t)'
  BY <1>1, <1>2, SpeechSame
<1>3. CASE UNCHANGED streamVars
  BY <1>2, <1>3 DEF streamVars, mouthVars
<1>4. CASE \E u \in Turns : WorkerStep(u) \/ PlayerStep(u)
  <2>1. PICK u \in Turns : WorkerStep(u) \/ PlayerStep(u)
    BY <1>4
  <2>2. CASE u = t
    BY <2>1, <2>2, SpeechWorker, SpeechPlayer
  <2>3. CASE u # t
    <3>1. Same(t)
      BY <2>1, <2>3, WorkerStepIs, PlayerStepIs DEF TaskStep
    <3> QED BY <1>1, <3>1, SpeechSame DEF Same
  <2> QED BY <2>2, <2>3
<1>5. CASE \E answer \in Answers : BeginTurn(answer)
  BY <1>2, <1>5 DEF BeginTurn, mouthVars
<1>6. CASE (\E k \in 1 .. MaxToken : Peels(k)) \/ PeelsLast \/ PeelFails
  BY <1>2, <1>6 DEF Peels, PeelsLast, PeelFails, mouthVars
<1>7. CASE SpeakStream
  <2>1. worker'[t] \in {worker[t], "pull"}
    BY <1>7 DEF SpeakStream, Typed
  <2> QED BY <1>2, <1>7, <2>1 DEF SpeakStream
<1>8. CASE DrainEnds \/ GatherEnds \/ Interrupt
  BY <1>2, <1>8 DEF DrainEnds, GatherEnds, Interrupt, mouthVars
<1>9. CASE SupertonicEnds
  <2>1. worker'[t] \in {worker[t], "cancelled"}
    BY <1>9 DEF SupertonicEnds, Typed
  <2> QED BY <1>2, <1>9, <2>1 DEF SupertonicEnds
<1> QED BY <1>3, <1>4, <1>5, <1>6, <1>7, <1>8, <1>9 DEF StreamNext, WorkerStep, PlayerStep

----------------------------------------------------------------------------
(* The promise of Turn, as long as no task has outlived its turn.          *)

ResultInv == ~abandoned => lastResult = NoResult \/ lastResult.of = turn

LEMMA ResultNext ==
    ASSUME Typed, TaskInv, ResultInv, [StreamNext]_streamVars
    PROVE  ResultInv'
<1>1. ASSUME UNCHANGED <<turn, lastResult>>, abandoned => abandoned' PROVE ResultInv'
  BY <1>1 DEF ResultInv
<1>2. CASE UNCHANGED streamVars
  BY <1>1, <1>2 DEF streamVars, brainVars, endVars
<1>3. CASE \E answer \in Answers : BeginTurn(answer)
  BY <1>3 DEF BeginTurn, ResultInv
<1>4. CASE (\E k \in 1 .. MaxToken : Peels(k)) \/ PeelFails \/ SpeakStream
  BY <1>1, <1>4 DEF Peels, PeelFails, SpeakStream, brainVars, endVars
<1>5. CASE PeelsLast
  BY <1>5 DEF PeelsLast, Exhausts, endVars, ResultInv
<1>6. CASE \E t \in Turns : WorkerDrains(t)
  <2>1. PICK t \in Turns : WorkerDrains(t)
    BY <1>6
  <2>2. turn' = turn /\ abandoned' = abandoned /\ (~abandoned => t = turn)
    BY <2>1 DEF WorkerDrains, endVars, TaskInv, Alive
  <2>3. lastResult' = lastResult \/ lastResult'.of = t
    <3>1. Exhausts(t) => lastResult'.of = t
      BY DEF Exhausts
    <3> QED BY <2>1, <3>1 DEF WorkerDrains
  <2> QED BY <2>2, <2>3 DEF ResultInv
<1>7. CASE \E t \in Turns : \/ WorkerTakesBack(t) \/ \E k \in 1 .. MaxToken : WorkerTakes(t, k)
                            \/ WorkerFails(t) \/ SynthDone(t) \/ SynthFails(t)
                            \/ PlayLoopGets(t) \/ SoundStarts(t) \/ PlayEnds(t) \/ PlayFails(t)
  BY <1>1, <1>7 DEF WorkerTakesBack, WorkerTakes, WorkerFails, SynthDone, SynthFails,
                    PlayLoopGets, SoundStarts, PlayEnds, PlayFails, brainVars, endVars
<1>8. CASE DrainEnds \/ SupertonicEnds \/ GatherEnds \/ Interrupt
  <2>1. UNCHANGED <<turn, lastResult>>
    BY <1>8 DEF DrainEnds, SupertonicEnds, GatherEnds, Interrupt, brainVars, endVars
  <2>2. abandoned => abandoned'
    BY <1>8, Zenon DEF DrainEnds, SupertonicEnds, GatherEnds, Interrupt
  <2> QED BY <1>1, <2>1, <2>2
<1> QED BY <1>2, <1>3, <1>4, <1>5, <1>6, <1>7, <1>8 DEF StreamNext

State == IF phase = "idle" THEN "closed"
         ELSE IF phase = "speak" /\ mouth # "text" /\ stopped
         THEN IF player[turn] = "due" THEN "last" ELSE "cut"
         ELSE "open"
Said == IF turn = 0 THEN 0 ELSE heard[turn].to

\* The actions of Turn in the words of the stream.
LEMMA PromiseIs ==
    ASSUME Typed, Typed'
    PROVE  /\ UNCHANGED <<turn, State, Said, device # 0, remembered.of, abandoned>>
                 => UNCHANGED Promise!turnVars
           /\ State = "closed" /\ turn' = turn + 1 /\ State' = "open" /\ Said' = 0
                 /\ (device' # 0 <=> device # 0) /\ remembered'.of = remembered.of => Promise!Begin
           /\ State = "open" /\ device = 0 /\ Said' \in Nat /\ Said' > Said /\ device' # 0
                 /\ turn' = turn /\ State' = State /\ remembered'.of = remembered.of => Promise!Say
           /\ device # 0 /\ device' = 0 /\ turn' = turn /\ State' = State /\ Said' = Said
                 /\ remembered'.of = remembered.of => Promise!Pause
           /\ State = "open" /\ State' \in {"cut", "last"} /\ device' = 0
                 /\ turn' = turn /\ Said' = Said /\ remembered'.of = remembered.of => Promise!Cut
           /\ State = "last" /\ State' = "cut" /\ device' # 0 /\ Said' \in Nat /\ Said' > Said
                 /\ turn' = turn /\ remembered'.of = remembered.of => Promise!Finish
           /\ State = "last" /\ State' = "cut" /\ (device' # 0 <=> device # 0) /\ Said' = Said
                 /\ turn' = turn /\ remembered'.of = remembered.of => Promise!Finish
           /\ State # "closed" /\ device = 0 /\ State' = "closed" /\ device' = 0
                 /\ turn' = turn /\ Said' = Said /\ remembered'.of \in {remembered.of, turn} => Promise!End
BY DEF State, Said, Promise!turnVars, Promise!Begin, Promise!Say, Promise!Pause, Promise!Cut,
       Promise!Finish, Promise!End

LEMMA PromiseBegins ==
    ASSUME Typed, Typed', TaskInv, NEW answer \in Answers, BeginTurn(answer)
    PROVE  Promise!Begin
<1>1. turn + 1 \in Turns /\ turn + 1 > turn /\ turn + 1 # 0
  BY Constant DEF Typed, BeginTurn, Turns
<1>2. heard[turn + 1] = NoClip
  BY <1>1 DEF TaskInv, Unspoken, Fresh
<1>3. /\ turn' = turn + 1 /\ phase = "idle" /\ phase' = "peel"
      /\ UNCHANGED <<mouth, device, stopped, heard, remembered>>
  BY DEF BeginTurn, sessionVars, mouthVars
<1>4. State = "closed" /\ State' = "open" /\ Said' = 0
  BY <1>1, <1>2, <1>3 DEF State, Said, NoClip
<1> QED BY <1>3, <1>4, PromiseIs

LEMMA PromiseSays ==
    ASSUME Typed, Typed', Due, TaskInv, SpeechInv, ~abandoned, NEW t \in Turns, PlayerStep(t)
    PROVE  Promise!Say \/ Promise!Finish \/ Promise!Pause \/ UNCHANGED Promise!turnVars
<1>1. /\ t = turn /\ turn # 0 /\ phase = "speak" /\ mouth # "text"
      /\ player \in [Turns -> {"off", "get", "due", "play", "ended", "failed"}]
      /\ UNCHANGED <<mouth, turn, phase, stopped, remembered, abandoned>>
      /\ Said = heard[turn].to /\ Said' = heard'[turn].to
  <2>1. t = turn /\ phase = "speak" /\ player[t] \in {"get", "due", "play"} /\ TaskStep(t)
    BY PlayerStepIs DEF TaskInv, TaskStep
  <2>2. t # 0
    BY Constant DEF Turns
  <2>3. mouth # "text"
    BY <2>1 DEF TaskInv
  <2> QED BY <2>1, <2>2, <2>3 DEF TaskStep, Said, Typed
<1>2. /\ State = IF stopped THEN IF player[turn] = "due" THEN "last" ELSE "cut" ELSE "open"
      /\ State' = IF stopped THEN IF player'[turn] = "due" THEN "last" ELSE "cut" ELSE "open"
  BY <1>1 DEF State
<1>3. device # 0 => device = turn /\ player[turn] = "play"
  <2>1. device # 0 => device \in Turns /\ player[device] = "play"
    BY Constant DEF Typed, TaskInv, Turns
  <2> QED BY <2>1 DEF TaskInv, Alive
<1>4. ASSUME State' = State, Said' = Said, device' # 0 <=> device # 0
      PROVE  UNCHANGED Promise!turnVars
  <2>1. UNCHANGED <<turn, State, Said, device # 0, remembered.of, abandoned>>
    BY <1>1, <1>4
  <2> QED BY <2>1, PromiseIs
<1>5. CASE PlayLoopGets(t)
  <2>1. device' = device /\ heard' = heard
    BY <1>5 DEF PlayLoopGets
  <2>2. player[turn] = "get" /\ (stopped => player'[turn] # "due")
    BY <1>1, <1>5 DEF PlayLoopGets
  <2>3. State' = State
    BY <1>2, <2>2
  <2> QED BY <1>1, <1>4, <2>1, <2>3
<1>6. CASE SoundStarts(t)
  <2>1. player[turn] = "due" /\ player'[turn] = "play" /\ device = 0 /\ device' = turn
    BY <1>1, <1>3, <1>6 DEF SoundStarts
  <2>2. Said' \in Nat /\ Said' > Said
    <3>1. heard'[t] = Head(queue[t]) /\ Head(queue[t]) # Done /\ queue[t] # <<>>
      BY <1>6 DEF SoundStarts, Due, Typed
    <3>2. Speech(t) /\ Speech(t)' /\ queue[t] \in Seq(Clips)
      BY SpeechPlayer, TextOfTurn DEF SpeechInv
    <3>3. heard[t].to \in Int /\ cut[t] \in Int /\ Ordered(queue[t], heard[t].to, cut[t])
      BY <3>2, TextOfTurn DEF Speech, Clips
    <3>4. heard[t].to < Head(queue[t]).to
      BY <3>1, <3>2, <3>3, OrderedTail
    <3>5. cut'[t] \in Nat /\ heard'[t].to \in 0 .. cut'[t]
      BY <3>2 DEF Speech, Typed
    <3>6. heard'[t].to \in Nat
      BY <3>5
    <3> QED BY <1>1, <3>1, <3>4, <3>6
  <2>3. CASE stopped
    <3>1. State = "last" /\ State' = "cut"
      BY <1>2, <2>1, <2>3
    <3> QED BY <1>1, <2>1, <2>2, <3>1, PromiseIs
  <2>4. CASE ~stopped
    <3>1. State = "open" /\ State' = State
      BY <1>2, <2>4
    <3> QED BY <1>1, <2>1, <2>2, <3>1, PromiseIs
  <2> QED BY <2>3, <2>4
<1>7. CASE PlayEnds(t) \/ PlayFails(t)
  <2>1. /\ heard' = heard /\ device' = IF device = t THEN 0 ELSE device
        /\ player'[turn] # "due" /\ player[turn] \in {"due", "play"}
    BY <1>1, <1>7 DEF PlayEnds, PlayFails
  <2>2. Said' = Said /\ device' = 0
    BY <1>1, <1>3, <2>1
  <2>3. CASE player[turn] = "due"
    <3>1. device = 0
      BY <1>3, <2>3
    <3>2. CASE stopped
      <4>1. State = "last" /\ State' = "cut"
        BY <1>2, <2>1, <2>3, <3>2
      <4> QED BY <1>1, <2>2, <3>1, <4>1, PromiseIs
    <3>3. CASE ~stopped
      <4>1. State' = State
        BY <1>2, <3>3
      <4> QED BY <1>4, <2>2, <3>1, <4>1
    <3> QED BY <3>2, <3>3
  <2>4. CASE player[turn] # "due"
    <3>1. State' = State
      BY <1>2, <2>1, <2>4
    <3>2. CASE device = 0
      BY <1>4, <2>2, <3>1, <3>2
    <3>3. CASE device # 0
      BY <1>1, <2>2, <3>1, <3>3, PromiseIs
    <3> QED BY <3>2, <3>3
  <2> QED BY <2>3, <2>4
<1> QED BY <1>5, <1>6, <1>7 DEF PlayerStep

\* Whatever turn it ends in, the turn ends silent.
LEMMA PromiseEnds ==
    ASSUME Typed, Typed', TaskInv, ResultInv, ~abandoned, ~abandoned',
           PeelFails \/ DrainEnds \/ SupertonicEnds \/ GatherEnds
    PROVE  Promise!End
<1>1. /\ phase # "idle" /\ phase' = "idle" /\ UNCHANGED <<mouth, turn, device, stopped, heard>>
      /\ remembered' = remembered
         \/ (lastResult # NoResult /\ remembered' = [lastResult EXCEPT !.text = Clean(@)])
  BY DEF PeelFails, DrainEnds, SupertonicEnds, GatherEnds, Returns, Raises, mouthVars, endVars,
         sessionVars
<1>2. device # 0 => device \in Turns /\ device = turn /\ phase = "speak" /\ player[turn] = "play"
  <2>1. device # 0 => device \in Turns /\ player[device] = "play"
    BY Constant DEF Typed, TaskInv, Turns
  <2> QED BY <2>1 DEF TaskInv, Alive
<1>3. device = 0
  <2>1. CASE PeelFails
    BY <1>2, <2>1 DEF PeelFails
  <2>2. CASE DrainEnds
    BY <1>2, <2>2 DEF DrainEnds, TaskInv
  <2>3. CASE SupertonicEnds
    BY <1>2, <2>3 DEF SupertonicEnds
  <2>4. CASE GatherEnds
    <3>1. {worker[turn], player[turn]} \subseteq {"ended", "failed"}
      BY <2>4 DEF GatherEnds
    <3> QED BY <1>2, <3>1
  <2> QED BY <2>1, <2>2, <2>3, <2>4
<1>4. remembered'.of \in {remembered.of, turn}
  <2>1. [lastResult EXCEPT !.text = Clean(@)].of = lastResult.of
    BY DEF Typed, Results
  <2> QED BY <1>1, <2>1 DEF ResultInv
<1>5. State # "closed" /\ State' = "closed" /\ Said' = Said
  BY <1>1 DEF State, Said
<1> QED BY <1>1, <1>3, <1>4, <1>5, PromiseIs

LEMMA PromiseCuts ==
    ASSUME Typed, Typed', TaskInv, ~abandoned, Interrupt
    PROVE  Promise!Cut \/ Promise!Pause \/ UNCHANGED Promise!turnVars
<1>1. /\ UNCHANGED <<mouth, turn, phase, player, heard, remembered, abandoned>>
      /\ mouth = "text" => stopped' = stopped /\ device' = device
      /\ mouth # "text" => stopped' /\ device' = 0
  BY DEF Interrupt, sessionVars
<1>2. Said' = Said
  BY <1>1 DEF Said
<1>3. ASSUME State' = State, device' # 0 <=> device # 0
      PROVE  UNCHANGED Promise!turnVars
  <2>1. UNCHANGED <<turn, State, Said, device # 0, remembered.of, abandoned>>
    BY <1>1, <1>2, <1>3
  <2> QED BY <2>1, PromiseIs
<1>4. CASE phase = "speak" /\ mouth # "text"
  <2>1. CASE stopped
    <3>1. State' = State /\ device' = 0
      BY <1>1, <1>4, <2>1 DEF State
    <3>2. CASE device = 0
      BY <1>3, <3>1, <3>2
    <3>3. CASE device # 0
      BY <1>1, <1>2, <3>1, <3>3, PromiseIs
    <3> QED BY <3>2, <3>3
  <2>2. CASE ~stopped
    <3>1. State = "open" /\ State' \in {"cut", "last"} /\ device' = 0
      BY <1>1, <1>4, <2>2 DEF State
    <3> QED BY <1>1, <1>2, <3>1, PromiseIs
  <2> QED BY <2>1, <2>2
<1>5. CASE ~(phase = "speak" /\ mouth # "text")
  <2>1. State' = State
    BY <1>1, <1>5 DEF State
  <2>2. device' = device
    <3>1. device # 0 => device \in Turns /\ player[device] = "play"
      BY Constant DEF Typed, TaskInv, Turns
    <3>2. device # 0 => phase = "speak"
      BY <3>1 DEF TaskInv, Alive
    <3> QED BY <1>1, <1>5, <3>2
  <2> QED BY <1>3, <2>1, <2>2
<1> QED BY <1>4, <1>5

LEMMA PromiseNext ==
    ASSUME Typed, Typed', Due, TaskInv, SpeechInv, ResultInv, [StreamNext]_streamVars
    PROVE  [Promise!TurnNext]_(Promise!turnVars)
<1>1. CASE abandoned'
  BY <1>1 DEF Promise!TurnNext
<1>2. CASE ~abandoned'
  <2>1. ASSUME UNCHANGED <<turn, State, heard, device, remembered, abandoned>>
        PROVE  UNCHANGED Promise!turnVars
    <3>1. UNCHANGED <<turn, State, Said, device # 0, remembered.of, abandoned>>
      BY <2>1 DEF Said
    <3> QED BY <3>1, PromiseIs
  <2>2. CASE UNCHANGED streamVars
    BY <2>1, <2>2 DEF State, streamVars, sessionVars, brainVars, mouthVars, endVars
  <2>3. CASE \E answer \in Answers : BeginTurn(answer)
    BY <2>3, PromiseBegins DEF Promise!TurnNext
  <2>4. CASE (\E k \in 1 .. MaxToken : Peels(k)) \/ PeelsLast \/ SpeakStream
    <3>1. /\ UNCHANGED <<mouth, turn, heard, device, remembered, abandoned>>
          /\ phase \in {"peel", "ready"} /\ phase' \in {"peel", "ready", "speak"}
          /\ phase' = "speak" => ~(mouth # "text" /\ stopped')
      <4>1. CASE \E k \in 1 .. MaxToken : Peels(k)
        BY <4>1 DEF Peels, sessionVars, mouthVars, endVars
      <4>2. CASE PeelsLast
        BY <4>2 DEF PeelsLast, sessionVars, mouthVars, endVars
      <4>3. CASE SpeakStream
        BY <4>3 DEF SpeakStream, sessionVars, endVars
      <4> QED BY <2>4, <4>1, <4>2, <4>3
    <3>2. State' = State
      BY <3>1 DEF State
    <3> QED BY <2>1, <3>1, <3>2
  <2>5. CASE \E t \in Turns : WorkerStep(t)
    <3>1. PICK t \in Turns : WorkerStep(t)
      BY <2>5
    <3>2. /\ UNCHANGED <<mouth, turn, phase, stopped, abandoned, remembered>>
          /\ device' = device /\ heard' = heard /\ player' = player
      BY <3>1, WorkerStepIs DEF TaskStep
    <3>3. State' = State
      BY <3>2 DEF State
    <3> QED BY <2>1, <3>2, <3>3
  <2>6. CASE \E t \in Turns : PlayerStep(t)
    <3>1. PICK t \in Turns : PlayerStep(t)
      BY <2>6
    <3>2. ~abandoned
      BY <1>2, <3>1, PlayerStepIs DEF TaskStep
    <3> QED BY <3>1, <3>2, PromiseSays DEF Promise!TurnNext
  <2>7. CASE PeelFails \/ DrainEnds \/ SupertonicEnds \/ GatherEnds
    <3>1. ~abandoned
      BY <1>2, <2>7, Zenon DEF PeelFails, DrainEnds, SupertonicEnds, GatherEnds, endVars
    <3> QED BY <1>2, <2>7, <3>1, PromiseEnds DEF Promise!TurnNext
  <2>8. CASE Interrupt
    <3>1. ~abandoned
      BY <1>2, <2>8 DEF Interrupt
    <3> QED BY <2>8, <3>1, PromiseCuts DEF Promise!TurnNext
  <2> QED BY <2>2, <2>3, <2>4, <2>5, <2>6, <2>7, <2>8 DEF StreamNext, WorkerStep, PlayerStep
<1> QED BY <1>1, <1>2

\* The worker only puts clips behind the others.
LEMMA WorkerPuts ==
    ASSUME Typed, NEW t \in Turns, WorkerStep(t)
    PROVE  \E items \in Seq(Clips) : queue'[t] = queue[t] \o items
<1>1. /\ <<>> \in Seq(Clips) /\ <<Done>> \in Seq(Clips)
      /\ queue[t] \in Seq(Clips) /\ queue[t] \o <<>> = queue[t]
  BY Constant, OneClip, TextOfTurn, EmptySeq, ConcatEmptySeq
<1>2. ASSUME NEW items \in Seq(Clips), Puts(t, items) \/ (queue' = queue /\ items = <<>>)
      PROVE  queue'[t] = queue[t] \o items
  BY <1>1, <1>2 DEF Puts, Typed
<1>3. CASE WorkerTakesBack(t) \/ \E k \in 1 .. MaxToken : WorkerTakes(t, k)
  <2>1. Puts(t, <<Done>>) \/ queue' = queue
    BY <1>3 DEF WorkerTakesBack, WorkerTakes, Takes
  <2> QED BY <1>1, <1>2, <2>1
<1>4. CASE WorkerDrains(t) \/ WorkerFails(t)
  <2>1. Puts(t, <<Done>>) \/ queue' = queue
    BY <1>4 DEF WorkerDrains, Drains, WorkerFails
  <2> QED BY <1>1, <1>2, <2>1
<1>5. CASE SynthDone(t) \/ SynthFails(t)
  <2>1. EndMark(t) \in Seq(Clips)
    BY <1>1 DEF EndMark
  <2>2. <<Clip(t)>> \o EndMark(t) \in Seq(Clips)
    <3>1. Clip(t) \in Clips
      BY TextOfTurn DEF Clip, Clips, ClipEnd
    <3>2. <<Clip(t)>> \in Seq(Clips)
      BY <3>1, OneClip
    <3> QED BY <2>1, <3>2, ConcatProperties
  <2>3. Puts(t, <<Clip(t)>> \o EndMark(t)) \/ Puts(t, EndMark(t)) \/ Puts(t, <<Done>>)
    BY <1>5 DEF SynthDone, SynthFails
  <2> QED BY <1>1, <1>2, <2>1, <2>2, <2>3
<1> QED BY <1>3, <1>4, <1>5 DEF WorkerStep

LEMMA DueNext ==
    ASSUME Typed, TaskInv, Due, [StreamNext]_streamVars
    PROVE  Due'
<1> SUFFICES ASSUME NEW t \in Turns, player'[t] = "due"
             PROVE  queue'[t] # <<>> /\ Head(queue'[t]) # Done
  BY DEF Due
<1>1. ASSUME player[t] = "due", queue'[t] = queue[t]
      PROVE  queue'[t] # <<>> /\ Head(queue'[t]) # Done
  BY <1>1 DEF Due
<1>2. CASE UNCHANGED streamVars
  BY <1>1, <1>2 DEF streamVars, mouthVars
<1>3. CASE \E u \in Turns : WorkerStep(u)
  <2>1. PICK u \in Turns : WorkerStep(u)
    BY <1>3
  <2>2. player' = player /\ TaskStep(u)
    BY <2>1, WorkerStepIs
  <2>3. CASE u = t
    <3>1. PICK items \in Seq(Clips) : queue'[t] = queue[t] \o items
      BY <2>1, <2>3, WorkerPuts
    <3>2. queue[t] # <<>> /\ Head(queue[t]) # Done /\ queue[t] \in Seq(Clips)
      BY <2>2, TextOfTurn DEF Due
    <3>3. queue[t] \o items # <<>> /\ Head(queue[t] \o items) = Head(queue[t])
      <4>1. /\ queue[t] \o items \in Seq(Clips) /\ Len(queue[t]) \in Nat /\ Len(items) \in Nat
            /\ Len(queue[t] \o items) = Len(queue[t]) + Len(items)
            /\ Len(queue[t]) # 0
            /\ \A i \in 1 .. Len(queue[t]) : (queue[t] \o items)[i] = queue[t][i]
        BY <3>2, ConcatProperties, LenProperties, EmptySeq
      <4>2. queue[t] \o items # <<>> /\ 1 \in 1 .. Len(queue[t])
        BY <4>1, EmptySeq
      <4> QED BY <3>2, <4>1, <4>2, HeadTailProperties
    <3> QED BY <3>1, <3>2, <3>3
  <2>4. CASE u # t
    BY <1>1, <2>2, <2>4 DEF TaskStep, Same
  <2> QED BY <2>3, <2>4
<1>4. CASE \E u \in Turns : PlayerStep(u)
  <2>1. PICK u \in Turns : PlayerStep(u)
    BY <1>4
  <2>2. CASE u = t
    <3>1. PlayLoopGets(t)
      BY <2>1, <2>2 DEF PlayerStep, SoundStarts, PlayEnds, PlayFails, Typed
    <3> QED BY <3>1 DEF PlayLoopGets, Typed
  <2>3. CASE u # t
    <3>1. Same(t)
      BY <2>1, <2>3, PlayerStepIs DEF TaskStep
    <3> QED BY <1>1, <3>1 DEF Same
  <2> QED BY <2>2, <2>3
<1>5. CASE SpeakStream
  <2>1. queue' = queue /\ player[t] = "due"
    BY <1>5 DEF SpeakStream, Typed
  <2> QED BY <1>1, <2>1
<1>6. CASE ~(\E u \in Turns : WorkerStep(u) \/ PlayerStep(u)) /\ StreamNext /\ ~SpeakStream
  <2>1. queue' = queue /\ player' = player
    BY <1>6 DEF StreamNext, WorkerStep, PlayerStep, BeginTurn, Peels, PeelsLast, PeelFails,
                DrainEnds, SupertonicEnds, GatherEnds, Interrupt, mouthVars
  <2> QED BY <1>1, <2>1
<1> QED BY <1>2, <1>3, <1>4, <1>5, <1>6

\* What the parts of the induction keep together.
StreamInv == Typed /\ Due /\ TaskInv /\ SpeechInv /\ ResultInv

LEMMA StreamInvInit == StreamInit => StreamInv
BY TypedInit, TaskInvInit, SpeechInit DEF StreamInv, ResultInv, Due, StreamInit

LEMMA StreamInvNext == StreamInv /\ [StreamNext]_streamVars => StreamInv'
BY TypedNext, DueNext, TaskInvNext, SpeechNext, ResultNext DEF StreamInv

LEMMA StreamInvHolds == StreamSpec => []StreamInv
<1>1. StreamInit => StreamInv
  BY StreamInvInit
<1>2. StreamInv /\ [StreamNext]_streamVars => StreamInv'
  BY StreamInvNext
<1> QED BY <1>1, <1>2, PTL DEF StreamSpec

\* Sound comes from a play loop, one at most; a turn not begun has no stream; a
\* worker in synthesis has a sentence to say and a clip on its way to the device is
\* at the head of its queue; nothing is heard before it is cut.
THEOREM StreamTypes == StreamSpec => []StreamTypeOK
<1>1. StreamInv => StreamTypeOK
  <2> SUFFICES ASSUME StreamInv PROVE StreamTypeOK
    OBVIOUS
  <2>1. Typed /\ Due /\ TaskInv /\ SpeechInv
    BY DEF StreamInv
  <2>2. ASSUME NEW t \in Turns
        PROVE  /\ t > turn => stream[t] = IdleStream
               /\ worker[t] \in {"off", "pull", "synth", "tail", "ended", "failed", "cancelled"}
               /\ player[t] \in {"off", "get", "due", "play", "ended", "failed"}
               /\ cut[t] <= Len(shown[t]) /\ heard[t].to <= cut[t]
               /\ worker[t] = "synth" => SentenceEnd(Buffer(t)) > 0
               /\ player[t] = "due" => queue[t] # <<>> /\ Head(queue[t]) # Done
    <3>1. Speech(t) /\ cut[t] \in Nat
      BY <2>1, TextOfTurn DEF SpeechInv
    <3>2. heard[t].to <= cut[t]
      BY <3>1 DEF Speech
    <3> QED BY <2>1, <3>1, <3>2 DEF Typed, Due, TaskInv, Speech
  <2>3. device # 0 => player[device] = "play"
    BY <2>1 DEF TaskInv
  <2> QED BY <2>1, <2>2, <2>3 DEF Typed, StreamTypeOK
<1> QED BY <1>1, StreamInvHolds, PTL

\* While no task outlives its turn (afterwards Turn promises nothing): navi is
\* heard only in an open turn, says the turn's words forwards and none twice,
\* is silent from the moment she is cut off but for one sentence already on its way
\* to the device, and keeps only that turn's words.
THEOREM PromiseIsKept == StreamSpec => Promise!TurnSafe
<1>1. StreamInit => Promise!TurnInit
  <2> SUFFICES ASSUME StreamInit PROVE Promise!TurnInit
    OBVIOUS
  <2>1. remembered.of = 0
    BY DEF StreamInit, NoResult
  <2> QED BY <2>1 DEF StreamInit, Promise!TurnInit
<1>2. StreamInv /\ StreamInv' /\ [StreamNext]_streamVars
         => [Promise!TurnNext]_(Promise!turnVars)
  BY PromiseNext DEF StreamInv
<1> QED BY <1>1, <1>2, StreamInvHolds, PTL DEF StreamSpec, Promise!TurnSafe

----------------------------------------------------------------------------
(* What is shown is what the model said, without its tag.                  *)

\* Whether the text begins with a tag is settled, whatever may still come.
Settled(text) == IsTagged(text) \/ ~MayBeTag(text) \/ Len(text) >= ScanLimit

WholeInv ==
    /\ phase = "peel" =>
          /\ stream[turn].parts = FlattenSeq(stream[turn].back)
          /\ ~IsTagged(stream[turn].parts)
    /\ phase \in {"ready", "speak"} =>
          /\ shown[turn] \o FlattenSeq(stream[turn].back) = Clean(stream[turn].parts)
          /\ stream[turn].state = "open" => Settled(stream[turn].parts)

\* The first units of a longer text are those of the shorter.
LEMMA LongerText ==
    ASSUME NEW text \in Text, NEW token \in Text
    PROVE  /\ text \o token \in Text /\ Len(text) \in Nat /\ Len(token) \in Nat
           /\ Len(text \o token) = Len(text) + Len(token)
           /\ \A i \in 1 .. Len(text) : (text \o token)[i] = text[i]
<1>1. text \in Seq(Units) /\ token \in Seq(Units)
  BY DEF Text
<1>2. /\ text \o token \in Seq(Units) /\ Len(text) \in Nat /\ Len(token) \in Nat
      /\ Len(text \o token) = Len(text) + Len(token)
      /\ \A i \in 1 .. Len(text) + Len(token) :
            (text \o token)[i] = IF i <= Len(text) THEN text[i] ELSE token[i - Len(text)]
  BY <1>1, ConcatProperties, LenProperties
<1>3. \A i \in 1 .. Len(text) : (text \o token)[i] = text[i]
  BY <1>2
<1> QED BY <1>2, <1>3 DEF Text

LEMMA TagIs ==
    ASSUME NEW text \in Text
    PROVE  IsTagged(text) <=> Len(text) >= 3 /\ text[1] = "[" /\ text[2] = "mood" /\ text[3] = "]"
<1>1. Len(text) \in Nat /\ Len(Tag) = 3 /\ Tag \in Seq(Units)
  BY LenProperties DEF Text, Tag, Units
<1>2. SubSeq(Tag, 1, Len(Tag)) = Tag
  BY <1>1, SubSeqFull
<1>3. CASE Len(text) >= 3
  <2>1. /\ SubSeq(text, 1, 3) \in Seq(Units) /\ Len(SubSeq(text, 1, 3)) = 3
        /\ \A i \in 1 .. 3 : SubSeq(text, 1, 3)[i] = text[i]
    <3>1. /\ SubSeq(text, 1, 3) \in Seq(Units)
          /\ Len(SubSeq(text, 1, 3)) = IF 1 <= 3 THEN 3 - 1 + 1 ELSE 0
          /\ \A i \in 1 .. 3 - 1 + 1 : SubSeq(text, 1, 3)[i] = text[1 + i - 1]
      BY <1>1, <1>3, TakesOut DEF Text
    <3> QED BY <3>1
  <2>2. PICK head \in Seq(Units) : head = SubSeq(text, 1, 3)
    BY <2>1
  <2>3. Tag = head <=> head[1] = "[" /\ head[2] = "mood" /\ head[3] = "]"
    <3>1. Tag[1] = "[" /\ Tag[2] = "mood" /\ Tag[3] = "]"
      BY DEF Tag
    <3>2. ASSUME head[1] = "[", head[2] = "mood", head[3] = "]" PROVE Tag = head
      <4>1. Len(head) = 3 /\ \A i \in 1 .. 3 : Tag[i] = head[i]
        BY <2>1, <2>2, <3>1, <3>2
      <4> QED BY <1>1, <4>1, SeqEqual
    <3> QED BY <3>1, <3>2
  <2>4. IsTagged(text) <=> Tag = head
    BY <1>1, <1>2, <1>3, <2>2 DEF IsTagged, IsPrefix
  <2> QED BY <1>3, <2>1, <2>2, <2>3, <2>4
<1>4. CASE ~(Len(text) >= 3)
  BY <1>1, <1>4 DEF IsTagged, IsPrefix
<1> QED BY <1>3, <1>4

LEMMA MayBeTagIs ==
    ASSUME NEW text \in Text
    PROVE  MayBeTag(text) <=> /\ Len(text) >= 1 => text[1] = "["
                              /\ Len(text) >= 2 => text[2] = "mood"
<1> DEFINE n == Min({2, Len(text)})
<1>1. Len(text) \in Nat /\ Len(Tag) = 3 /\ Tag \in Seq(Units)
  BY LenProperties DEF Text, Tag, Units
<1>2. n \in {2, Len(text)} /\ n <= 2 /\ n <= Len(text)
  BY <1>1, LesserOfTwo
<1> HIDE DEF n
<1>3. n \in Nat /\ 1 \in Nat \ {0}
  BY <1>1, <1>2
<1>4. PICK head \in Seq(Units) :
         head = SubSeq(text, 1, n) /\ Len(head) = n /\ \A i \in 1 .. n : head[i] = text[i]
  <2>1. /\ SubSeq(text, 1, n) \in Seq(Units)
        /\ Len(SubSeq(text, 1, n)) = IF 1 <= n THEN n - 1 + 1 ELSE 0
        /\ \A i \in 1 .. n - 1 + 1 : SubSeq(text, 1, n)[i] = text[1 + i - 1]
    BY <1>2, <1>3, TakesOut DEF Text
  <2>2. \A i \in 1 .. n : i \in 1 .. n - 1 + 1 /\ 1 + i - 1 = i
    BY <1>3
  <2>3. \A i \in 1 .. n : SubSeq(text, 1, n)[i] = text[i]
    BY <2>1, <2>2
  <2>4. Len(SubSeq(text, 1, n)) = n
    BY <1>3, <2>1
  <2> QED BY <2>1, <2>3, <2>4
<1>5. PICK begin \in Seq(Units) :
         begin = SubSeq(Tag, 1, n) /\ Len(begin) = n /\ \A i \in 1 .. n : begin[i] = Tag[i]
  <2>1. /\ SubSeq(Tag, 1, n) \in Seq(Units)
        /\ Len(SubSeq(Tag, 1, n)) = IF 1 <= n THEN n - 1 + 1 ELSE 0
        /\ \A i \in 1 .. n - 1 + 1 : SubSeq(Tag, 1, n)[i] = Tag[1 + i - 1]
    <3>1. n <= Len(Tag)
      BY <1>1, <1>2, <1>3
    <3>2. PICK tag \in Seq(Units) : tag = Tag /\ n <= Len(tag)
      BY <1>1, <3>1
    <3>3. /\ SubSeq(tag, 1, n) \in Seq(Units)
          /\ Len(SubSeq(tag, 1, n)) = IF 1 <= n THEN n - 1 + 1 ELSE 0
          /\ \A i \in 1 .. n - 1 + 1 : SubSeq(tag, 1, n)[i] = tag[1 + i - 1]
      BY <1>3, <3>2, TakesOut
    <3> QED BY <3>2, <3>3
  <2>2. \A i \in 1 .. n : i \in 1 .. n - 1 + 1 /\ 1 + i - 1 = i
    BY <1>3
  <2>3. \A i \in 1 .. n : SubSeq(Tag, 1, n)[i] = Tag[i]
    BY <2>1, <2>2
  <2>4. Len(SubSeq(Tag, 1, n)) = n
    BY <1>3, <2>1
  <2> QED BY <2>1, <2>3, <2>4
<1>6. MayBeTag(text) <=> head = begin
  <2>1. SubSeq(head, 1, n) = head
    BY <1>4, SubSeqFull
  <2>2. n <= Len(Tag)
    BY <1>1, <1>2, <1>3
  <2> QED BY <1>4, <1>5, <2>1, <2>2 DEF MayBeTag, IsPrefix, n
<1>7. head = begin <=> \A i \in 1 .. n : text[i] = Tag[i]
  <2>1. (\A i \in 1 .. n : head[i] = begin[i]) => head = begin
    BY <1>4, <1>5, SeqEqual
  <2> QED BY <1>4, <1>5, <2>1
<1>8. Tag[1] = "[" /\ Tag[2] = "mood"
  BY DEF Tag
<1>9. (\A i \in 1 .. n : text[i] = Tag[i])
         <=> (Len(text) >= 1 => text[1] = Tag[1]) /\ (Len(text) >= 2 => text[2] = Tag[2])
  <2>1. \A i \in 1 .. n : i \in {1, 2} /\ Len(text) >= i
    BY <1>1, <1>2, <1>3
  <2>2. (Len(text) >= 1 => 1 \in 1 .. n) /\ (Len(text) >= 2 => 2 \in 1 .. n)
    BY <1>1, <1>2, <1>3
  <2> QED BY <2>1, <2>2
<1> QED BY <1>6, <1>7, <1>8, <1>9

\* More text neither takes a tag away nor makes one, and is passed on whole.
LEMMA SettledStays ==
    ASSUME NEW text \in Text, NEW token \in Text, Settled(text)
    PROVE  /\ Settled(text \o token)
           /\ Clean(text \o token) = Clean(text) \o token
<1> DEFINE all == text \o token
<1>1. /\ all \in Text /\ Len(text) \in Nat /\ Len(token) \in Nat /\ Len(all) = Len(text) + Len(token)
      /\ \A i \in 1 .. Len(text) : all[i] = text[i]
  BY LongerText
<1>2. ScanLimit \in Nat /\ ScanLimit >= 3
  BY StreamAssumption DEF Tag
<1>3. /\ IsTagged(text) => IsTagged(all)
      /\ Len(text) >= 3 /\ ~IsTagged(text) => ~IsTagged(all)
  <2> HIDE DEF all
  <2>1. Len(text) >= 3 => all[1] = text[1] /\ all[2] = text[2] /\ all[3] = text[3] /\ Len(all) >= 3
    BY <1>1
  <2> QED BY <1>1, <2>1, TagIs
<1>4. ~MayBeTag(text) => ~MayBeTag(all) /\ ~IsTagged(all) /\ ~IsTagged(text)
  <2> HIDE DEF all
  <2>1. Len(text) >= 1 => all[1] = text[1] /\ Len(all) >= 1
    BY <1>1
  <2>2. Len(text) >= 2 => all[2] = text[2] /\ Len(all) >= 2
    BY <1>1
  <2>3. ~MayBeTag(text) => ~MayBeTag(all)
    BY <1>1, <2>1, <2>2, MayBeTagIs
  <2>4. ~MayBeTag(all) => ~IsTagged(all)
    BY <1>1, TagIs, MayBeTagIs
  <2>5. ~MayBeTag(text) => ~IsTagged(text)
    BY <1>1, TagIs, MayBeTagIs
  <2> QED BY <2>3, <2>4, <2>5
<1>5. Settled(all)
  <2> HIDE DEF all
  <2> QED BY <1>1, <1>2, <1>3, <1>4 DEF Settled
<1>6. CASE IsTagged(text)
  <2>1. Len(text) >= 3 /\ IsTagged(all)
    BY <1>3, <1>6, TagIs
  <2>2. SubSeq(all, 3 + 1, Len(all)) = SubSeq(text, 3 + 1, Len(text)) \o token
    BY <1>1, <2>1, BufferGrows
  <2>3. 3 + 1 = 4
    OBVIOUS
  <2> QED BY <1>5, <1>6, <2>1, <2>2, <2>3, Zenon DEF Clean
<1>7. CASE ~IsTagged(text)
  <2>1. ~IsTagged(all)
    BY <1>1, <1>2, <1>3, <1>4, <1>7 DEF Settled
  <2> QED BY <1>5, <1>7, <2>1 DEF Clean
<1> QED BY <1>6, <1>7

LEMMA WholeBegins ==
    ASSUME Typed, NEW answer \in Answers, BeginTurn(answer)
    PROVE  WholeInv'
<1>1. turn + 1 \in Turns /\ turn' = turn + 1 /\ phase' = "peel"
  BY Constant DEF Typed, BeginTurn, Turns
<1>2. [IdleStream EXCEPT !.state = "open", !.left = answer].parts = <<>>
      /\ [IdleStream EXCEPT !.state = "open", !.left = answer].back = <<>>
  BY DEF IdleStream
<1>3. stream'[turn'].parts = <<>> /\ stream'[turn'].back = <<>>
  BY <1>1, <1>2 DEF BeginTurn, Typed
<1>4. ~IsTagged(<<>>)
  <2>1. <<>> \in Text /\ Len(<<>>) = 0
    BY Constant, EmptySeq
  <2> QED BY <2>1, TagIs
<1> QED BY <1>1, <1>3, <1>4, FlattenNone DEF WholeInv

LEMMA WholePeels ==
    ASSUME Typed, TaskInv, WholeInv, NEW k \in 1 .. MaxToken, Peels(k)
    PROVE  WholeInv'
<1> DEFINE token == Token(turn, k)
           old == FlattenSeq(stream[turn].back)
           held == Append(stream[turn].back, token)
           head == old \o token
           back == IF ~IsTagged(head) THEN held ELSE IF Clean(head) = <<>> THEN <<>> ELSE <<Clean(head)>>
<1>1. turn \in Turns /\ stream[turn] \in Streams /\ turn' = turn /\ shown' = shown /\ phase = "peel"
  BY DEF Peels, Typed, endVars, mouthVars
<1>2. /\ token \in Text /\ Advanced(turn, k) \in Streams
      /\ Advanced(turn, k) = [state |-> stream[turn].state,
                              left |-> SubSeq(stream[turn].left, k + 1, Len(stream[turn].left)),
                              parts |-> stream[turn].parts \o token,
                              back |-> stream[turn].back]
  BY <1>1, AdvancedIsStream DEF Peels
<1>3. stream[turn].back \in Seq(Text) /\ old \in Text
  BY <1>1, FlattenText DEF Streams
<1>4. head \in Text /\ Clean(head) \in Text
  BY <1>2, <1>3, TextsJoin, CleanText
<1>5. FlattenSeq(held) = head
  <2>1. stream[turn].back \in Seq(Seq(Units)) /\ token \in Seq(Units)
    BY <1>2, <1>3 DEF Text
  <2> HIDE DEF token
  <2> QED BY <2>1, FlattenAppend
<1>6. FlattenSeq(<<Clean(head)>>) = Clean(head)
  <2>1. Clean(head) \in Seq(Units)
    BY <1>4 DEF Text
  <2> HIDE DEF head
  <2> QED BY <2>1, FlattenOne
<1>7. stream[turn].parts = old
  BY <1>1 DEF WholeInv
<1>8. /\ stream' = [stream EXCEPT ![turn] = [Advanced(turn, k) EXCEPT !.back = back]]
      /\ phase' = IF ~IsTagged(head) /\ MayBeTag(head) /\ Len(head) < ScanLimit
                  THEN "peel" ELSE "ready"
  BY DEF Peels
<1> HIDE DEF token, old, held, head, back
<1>9. stream'[turn].parts = head /\ stream'[turn].back = back /\ stream'[turn].state = stream[turn].state
  <2>1. stream'[turn] = [Advanced(turn, k) EXCEPT !.back = back]
    BY <1>1, <1>8 DEF Typed
  <2>2. stream[turn].parts \o token = head
    BY <1>7 DEF head
  <2> QED BY <1>2, <2>1, <2>2
<1>10. FlattenSeq(back) = Clean(head)
  <2>1. CASE ~IsTagged(head)
    BY <1>5, <2>1 DEF back, Clean
  <2>2. CASE IsTagged(head)
    BY <1>6, <2>2, FlattenNone DEF back
  <2> QED BY <2>1, <2>2
<1>11. ASSUME phase' = "peel" PROVE WholeInv'
  <2>1. ~IsTagged(head) /\ back = held
    BY <1>8, <1>11 DEF back
  <2> QED BY <1>1, <1>5, <1>9, <1>11, <2>1 DEF WholeInv
<1>12. ASSUME phase' = "ready" PROVE WholeInv'
  <2>1. Settled(head)
    <3>1. Len(head) \in Nat /\ ScanLimit \in Nat
      BY <1>4, LenProperties, StreamAssumption DEF Text
    <3> QED BY <1>8, <1>12, <3>1 DEF Settled
  <2>2. shown[turn] = <<>>
    BY <1>1 DEF TaskInv, Unspoken, Fresh
  <2>3. <<>> \o Clean(head) = Clean(head)
    <3>1. Clean(head) \in Seq(Units)
      BY <1>4 DEF Text
    <3> QED BY <3>1, ConcatEmptySeq
  <2> QED BY <1>1, <1>9, <1>10, <1>12, <2>1, <2>2, <2>3 DEF WholeInv
<1> QED BY <1>8, <1>11, <1>12

LEMMA WholeWorker ==
    ASSUME Typed, TaskInv, WholeInv, NEW t \in Turns, WorkerStep(t)
    PROVE  WholeInv'
<1>1. turn' = turn /\ phase' = phase /\ ~Unspoken(t) /\ \A u \in Turns \ {t} : Same(u)
  BY WorkerStepIs DEF TaskStep, TaskInv, Fresh
<1>2. CASE t # turn \/ phase = "idle"
  <2>1. phase # "idle" => turn \in Turns /\ Same(turn)
    BY <1>1, <1>2 DEF Typed
  <2> QED BY <1>1, <2>1 DEF WholeInv, Same
<1>3. CASE t = turn /\ phase # "idle"
  <2>1. /\ phase = "speak" /\ stream[t] \in Streams /\ shown[t] \in Text
        /\ shown[t] \o FlattenSeq(stream[t].back) = Clean(stream[t].parts)
        /\ stream[t].state = "open" => Settled(stream[t].parts)
    BY <1>1, <1>3, TextOfTurn DEF Unspoken, WholeInv, Typed
  <2>2. stream[t].back \in Seq(Text) /\ stream[t].parts \in Text
    BY <2>1 DEF Streams
  <2>3. SUFFICES /\ shown'[t] \o FlattenSeq(stream'[t].back) = Clean(stream'[t].parts)
                 /\ stream'[t].state = "open" => Settled(stream'[t].parts)
    BY <1>1, <1>3, <2>1 DEF WholeInv
  <2>4. CASE WorkerTakesBack(t)
    <3>1. /\ shown'[t] = shown[t] \o Head(stream[t].back) /\ stream[t].back # <<>>
          /\ stream'[t].back = Tail(stream[t].back)
          /\ stream'[t].parts = stream[t].parts /\ stream'[t].state = stream[t].state
      BY <2>1, <2>4 DEF WorkerTakesBack, Takes, Typed, Streams
    <3>2. PICK a \in Seq(Units), b \in Seq(Units), c \in Seq(Units) :
             a = shown[t] /\ b = Head(stream[t].back) /\ c = FlattenSeq(Tail(stream[t].back))
      <4>1. Head(stream[t].back) \in Text /\ Tail(stream[t].back) \in Seq(Text)
        BY <2>2, <3>1, HeadTailProperties
      <4>2. FlattenSeq(Tail(stream[t].back)) \in Text
        BY <4>1, FlattenText
      <4> QED BY <2>1, <4>1, <4>2 DEF Text
    <3>3. FlattenSeq(stream[t].back) = b \o c
      <4>1. stream[t].back \in Seq(Seq(Units))
        BY <2>2 DEF Text
      <4> QED BY <3>1, <3>2, <4>1, FlattenHead
    <3>4. Associates(a, b, c)
      BY Associative, Zenon
    <3> QED BY <2>1, <3>1, <3>2, <3>3, <3>4 DEF Associates
  <2>5. CASE \E k \in 1 .. MaxToken : WorkerTakes(t, k)
    <3>1. PICK k \in 1 .. MaxToken : WorkerTakes(t, k)
      BY <2>5
    <3>2. PICK token \in Text : token = Token(t, k)
      BY <3>1, AdvancedIsStream DEF WorkerTakes
    <3>3. /\ shown'[t] = shown[t] \o token /\ stream[t].back = <<>> /\ stream'[t].back = <<>>
          /\ stream'[t].parts = stream[t].parts \o token
          /\ stream[t].state = "open" /\ stream'[t].state = "open"
      <4>1. Advanced(t, k) = [state |-> stream[t].state,
                              left |-> SubSeq(stream[t].left, k + 1, Len(stream[t].left)),
                              parts |-> stream[t].parts \o token,
                              back |-> stream[t].back]
        BY <3>1, <3>2, AdvancedIsStream DEF WorkerTakes
      <4>2. stream'[t] = Advanced(t, k) /\ shown'[t] = shown[t] \o token
        BY <3>1, <3>2 DEF WorkerTakes, Takes, Typed
      <4> QED BY <3>1, <4>1, <4>2 DEF WorkerTakes, Yields
    <3>4. Settled(stream[t].parts \o token)
          /\ Clean(stream[t].parts \o token) = Clean(stream[t].parts) \o token
      BY <2>1, <2>2, <3>3, SettledStays
    <3>5. shown[t] \o <<>> = shown[t] /\ (shown[t] \o token) \o <<>> = shown[t] \o token
      <4>1. shown[t] \in Seq(Units) /\ shown[t] \o token \in Seq(Units)
        BY <2>1, TextsJoin DEF Text
      <4> QED BY <4>1, ConcatEmptySeq
    <3> QED BY <2>1, <3>3, <3>4, <3>5, FlattenNone
  <2>6. CASE WorkerDrains(t) \/ WorkerFails(t)
    <3>1. shown' = shown /\ stream'[t] \in {stream[t], [stream[t] EXCEPT !.state = "ended"],
                                            [stream[t] EXCEPT !.state = "broken"]}
      BY <2>6 DEF WorkerDrains, WorkerFails, Typed
    <3>2. /\ stream'[t].back = stream[t].back /\ stream'[t].parts = stream[t].parts
          /\ stream'[t].state = "open" => stream[t].state = "open"
      BY <2>1, <3>1 DEF Streams
    <3> QED BY <2>1, <3>1, <3>2
  <2>7. CASE SynthDone(t) \/ SynthFails(t)
    BY <2>1, <2>7 DEF SynthDone, SynthFails, brainVars
  <2> QED BY <2>4, <2>5, <2>6, <2>7 DEF WorkerStep
<1> QED BY <1>2, <1>3

LEMMA WholeNext ==
    ASSUME Typed, TaskInv, WholeInv, [StreamNext]_streamVars
    PROVE  WholeInv'
<1>1. ASSUME UNCHANGED <<turn, phase, stream, shown>> PROVE WholeInv'
  BY <1>1 DEF WholeInv
<1>2. CASE UNCHANGED streamVars
  BY <1>1, <1>2 DEF streamVars, brainVars, mouthVars, endVars
<1>3. CASE \E t \in Turns : PlayerStep(t)
  BY <1>1, <1>3, PlayerStepIs DEF TaskStep
<1>4. CASE PeelsLast
  <2>1. /\ phase = "peel" /\ phase' = "ready" /\ turn' = turn /\ shown' = shown /\ turn \in Turns
        /\ stream[turn] \in Streams /\ stream'[turn] = [stream[turn] EXCEPT !.state = "ended"]
    BY <1>4 DEF PeelsLast, Typed, mouthVars, endVars
  <2>2. /\ stream'[turn].back = stream[turn].back /\ stream'[turn].parts = stream[turn].parts
        /\ stream'[turn].state = "ended"
    BY <2>1 DEF Streams
  <2>3. shown[turn] = <<>>
    BY <2>1 DEF TaskInv, Unspoken, Fresh
  <2>4. <<>> \o stream[turn].parts = stream[turn].parts
    <3>1. stream[turn].parts \in Seq(Units)
      BY <2>1 DEF Streams, Text
    <3> QED BY <3>1, ConcatEmptySeq
  <2> QED BY <2>1, <2>2, <2>3, <2>4 DEF WholeInv, Clean
<1>5. CASE PeelFails \/ DrainEnds \/ SupertonicEnds \/ GatherEnds
  BY <1>5 DEF PeelFails, DrainEnds, SupertonicEnds, GatherEnds, Returns, Raises, WholeInv
<1>6. CASE SpeakStream
  BY <1>6 DEF SpeakStream, brainVars, endVars, WholeInv
<1>7. CASE Interrupt
  BY <1>1, <1>7 DEF Interrupt
<1> QED BY <1>2, <1>3, <1>4, <1>5, <1>6, <1>7, WholeBegins, WholePeels, WholeWorker
        DEF StreamNext, WorkerStep, PlayerStep


\* However the model's tag is cut into tokens, and wherever the stream breaks off: what
\* the turn has shown and what peel_mood gives back are together the model's text so far
\* without its leading tag; nothing is lost, doubled or out of place.
THEOREM BodyIsWhole == StreamSpec => []BodyWhole
<1>1. StreamInit => WholeInv
  BY DEF StreamInit, WholeInv
<1>2. StreamInv /\ WholeInv /\ [StreamNext]_streamVars => WholeInv'
  BY WholeNext DEF StreamInv
<1>3. WholeInv => BodyWhole
  BY DEF WholeInv, BodyWhole
<1> QED BY <1>1, <1>2, <1>3, StreamInvHolds, PTL DEF StreamSpec

----------------------------------------------------------------------------
(* A turn that is not hurt is shown, said and kept whole.                  *)

\* b is reached with a, or will be with one of the clips.
Reaches(q, a, b) == a = b \/ \E i \in 1 .. Len(q) : q[i] # Done /\ q[i].to = b
\* The end is marked once, after everything else.
MarkedOnce(q) == \A i \in 1 .. Len(q) : q[i] = Done => i = Len(q)
Marked(q) == \E i \in 1 .. Len(q) : q[i] = Done

Unhurt(t) ==
    /\ ~cancelled
    /\ phase \in {"ready", "speak"} /\ stream[t].state = "ended" =>
          lastResult = [of |-> t, text |-> stream[t].parts]
    /\ worker[t] \in {"tail", "ended"} => stream[t].state = "ended" /\ stream[t].back = <<>>
    /\ worker[t] = "ended" /\ mouth # "text" => cut[t] = Len(shown[t])
    /\ player[t] = "ended" \/ Marked(queue[t]) => worker[t] \in {"ended", "failed"}
    /\ player[t] = "ended" => heard[t].to = cut[t]
    /\ MarkedOnce(queue[t]) /\ Reaches(queue[t], heard[t].to, cut[t])

KeptInv ==
    ~abandoned =>
        /\ remembered.of <= turn
        /\ phase # "idle" => remembered.of < turn
        /\ phase # "idle" /\ ~hurt[turn] => Unhurt(turn)
        /\ OneText

LEMMA QueueMarked ==
    ASSUME NEW q \in Seq(Clips), ~Marked(q), NEW a, NEW b, Reaches(q, a, b)
    PROVE  MarkedOnce(q \o <<Done>>) /\ Reaches(q \o <<Done>>, a, b)
<1> DEFINE r == q \o <<Done>>
<1>1. /\ Len(q) \in Nat /\ Len(r) = Len(q) + 1 /\ r[Len(q) + 1] = Done
      /\ \A i \in 1 .. Len(q) : r[i] = q[i]
  BY Constant, OneClip, ConcatProperties, LenProperties
<1> HIDE DEF r
<1>2. MarkedOnce(r)
  BY <1>1 DEF MarkedOnce, Marked
<1>3. Reaches(r, a, b)
  <2>1. \A i \in 1 .. Len(q) : i \in 1 .. Len(r)
    BY <1>1
  <2> QED BY <1>1, <2>1 DEF Reaches
<1> QED BY <1>2, <1>3 DEF r

LEMMA QueueClip ==
    ASSUME NEW q \in Seq(Clips), ~Marked(q), NEW c \in Clips, c # Done, NEW a
    PROVE  ~Marked(q \o <<c>>) /\ Reaches(q \o <<c>>, a, c.to)
<1> DEFINE r == q \o <<c>>
<1>1. /\ Len(q) \in Nat /\ Len(r) = Len(q) + 1 /\ r[Len(q) + 1] = c
      /\ \A i \in 1 .. Len(q) : r[i] = q[i]
  BY OneClip, ConcatProperties, LenProperties
<1> HIDE DEF r
<1>2. ~Marked(r)
  BY <1>1 DEF Marked
<1>3. Reaches(r, a, c.to)
  <2>1. Len(q) + 1 \in 1 .. Len(r)
    BY <1>1
  <2> QED BY <1>1, <2>1 DEF Reaches
<1> QED BY <1>2, <1>3 DEF r

LEMMA QueueTail ==
    ASSUME NEW q \in Seq(Clips), q # <<>>, MarkedOnce(q), NEW a \in Int, NEW b \in Int,
           Ordered(q, a, b), Reaches(q, a, b)
    PROVE  /\ MarkedOnce(Tail(q))
           /\ Marked(Tail(q)) => Marked(q)
           /\ Head(q) # Done => Reaches(Tail(q), Head(q).to, b)
           /\ Head(q) = Done => Marked(q) /\ Tail(q) = <<>> /\ a = b
<1> DEFINE r == Tail(q)
<1>1. /\ Len(q) \in Nat /\ Len(r) = Len(q) - 1 /\ Head(q) = q[1] /\ 1 \in 1 .. Len(q)
      /\ r \in Seq(Clips)
      /\ \A i \in 1 .. Len(r) : r[i] = q[i + 1] /\ i + 1 \in 1 .. Len(q)
  BY HeadTailProperties, EmptySeq, LenProperties
<1> HIDE DEF r
<1>2. MarkedOnce(r)
  BY <1>1 DEF MarkedOnce
<1>3. Marked(r) => Marked(q)
  BY <1>1 DEF Marked
<1>4. ASSUME q[1] = Done PROVE Marked(q) /\ r = <<>> /\ a = b
  <2>1. Len(q) = 1
    BY <1>1, <1>4 DEF MarkedOnce
  <2>2. r = <<>>
    <3>1. Len(r) = 0
      BY <1>1, <2>1
    <3> QED BY <1>1, <3>1, EmptySeq
  <2>3. Marked(q)
    BY <1>1, <1>4 DEF Marked
  <2>4. a = b
    BY <1>4, <2>1 DEF Reaches
  <2> QED BY <2>2, <2>3, <2>4
<1>5. ASSUME q[1] # Done PROVE Reaches(r, q[1].to, b)
  <2>1. a < q[1].to /\ q[1].to <= b /\ q[1].to \in Int
    <3>1. q[1] \in Clips
      BY <1>1, ElementOfSeq
    <3> QED BY <1>1, <1>5, <3>1 DEF Ordered, Clips
  <2>2. PICK i \in 1 .. Len(q) : q[i] # Done /\ q[i].to = b
    BY <2>1 DEF Reaches
  <2>3. CASE i = 1
    BY <2>2, <2>3 DEF Reaches
  <2>4. CASE i # 1
    <3>1. i - 1 \in 1 .. Len(r) /\ (i - 1) + 1 = i
      BY <1>1, <2>4
    <3>2. r[i - 1] = q[i]
      BY <1>1, <3>1
    <3> QED BY <2>2, <3>1, <3>2 DEF Reaches
  <2> QED BY <2>3, <2>4
<1> QED BY <1>1, <1>2, <1>3, <1>4, <1>5 DEF r

LEMMA FreshUnhurt ==
    ASSUME Fresh(turn)', ~cancelled', phase' \in {"peel", "ready"},
           phase' = "ready" /\ stream'[turn'].state = "ended" =>
              lastResult' = [of |-> turn', text |-> stream'[turn'].parts]
    PROVE  Unhurt(turn)'
<1>1. Len(<<>>) = 0
  BY EmptySeq
<1> QED BY <1>1 DEF Fresh, Unhurt, Marked, MarkedOnce, Reaches, NoClip

LEMMA KeptBegins ==
    ASSUME Typed, TaskInv, KeptInv, NEW answer \in Answers, BeginTurn(answer)
    PROVE  KeptInv'
<1>1. /\ turn' \in Turns /\ turn' = turn + 1 /\ turn \in Nat /\ phase' = "peel" /\ ~cancelled'
      /\ UNCHANGED <<remembered, abandoned>>
  BY Constant DEF Typed, BeginTurn, Turns
<1>2. Fresh(turn)'
  <2>1. TaskInv'
    BY TaskInvSource
  <2> QED BY <1>1, <2>1 DEF TaskInv, Unspoken
<1>3. Unhurt(turn)'
  BY <1>1, <1>2, FreshUnhurt
<1>4. ~abandoned => remembered.of < turn + 1 /\ remembered.of <= turn + 1
  BY <1>1 DEF KeptInv, Typed, Results
<1> QED BY <1>1, <1>3, <1>4 DEF KeptInv, OneText

LEMMA KeptSource ==
    ASSUME Typed, TaskInv, KeptInv
    PROVE  /\ \A k \in 1 .. MaxToken : Peels(k) => KeptInv'
           /\ PeelsLast => KeptInv'
           /\ PeelFails => KeptInv'
           /\ SpeakStream => KeptInv'
<1>1. ASSUME phase = "peel", phase' \in {"peel", "ready"},
             UNCHANGED <<turn, hurt, abandoned, remembered, shown, cut, queue, worker, player, heard, cancelled>>,
             ~cancelled => (phase' = "ready" /\ stream'[turn].state = "ended" =>
                               lastResult' = [of |-> turn, text |-> stream'[turn].parts])
      PROVE  KeptInv'
  <2>1. turn \in Turns /\ Fresh(turn)
    BY <1>1 DEF Typed, TaskInv, Unspoken
  <2>2. Fresh(turn)'
    BY <1>1, <2>1 DEF Fresh
  <2>3. ~abandoned /\ ~hurt[turn] => Unhurt(turn)'
    <3>1. ~abandoned /\ ~hurt[turn] => ~cancelled
      BY <1>1 DEF KeptInv, Unhurt
    <3> QED BY <1>1, <2>2, <3>1, FreshUnhurt
  <2> QED BY <1>1, <2>3 DEF KeptInv, OneText
<1>2. ASSUME NEW k \in 1 .. MaxToken, Peels(k) PROVE KeptInv'
  <2>1. /\ phase = "peel" /\ phase' \in {"peel", "ready"} /\ turn \in Turns /\ Yields(turn, k)
        /\ UNCHANGED <<turn, hurt, abandoned, remembered, shown, cut, queue, worker, player, heard, cancelled>>
    BY <1>2 DEF Peels, Typed, mouthVars, endVars
  <2>2. stream'[turn].state # "ended"
    <3>1. Advanced(turn, k) = [state |-> stream[turn].state,
                               left |-> SubSeq(stream[turn].left, k + 1, Len(stream[turn].left)),
                               parts |-> stream[turn].parts \o Token(turn, k),
                               back |-> stream[turn].back]
      BY <2>1, AdvancedIsStream
    <3>2. PICK b : stream'[turn] = [Advanced(turn, k) EXCEPT !.back = b]
      BY <1>2, <2>1 DEF Peels, Typed
    <3>3. stream'[turn].state = stream[turn].state
      BY <3>1, <3>2
    <3> QED BY <2>1, <3>3 DEF Yields
  <2> QED BY <1>1, <2>1, <2>2
<1>3. ASSUME PeelsLast PROVE KeptInv'
  <2>1. /\ phase = "peel" /\ phase' = "ready" /\ turn \in Turns /\ Exhausts(turn)
        /\ UNCHANGED <<turn, hurt, abandoned, remembered, shown, cut, queue, worker, player, heard, cancelled>>
        /\ stream'[turn] = [stream[turn] EXCEPT !.state = "ended"] /\ stream[turn] \in Streams
    BY <1>3 DEF PeelsLast, Typed, mouthVars, endVars
  <2>2. stream'[turn].parts = stream[turn].parts
    BY <2>1 DEF Streams
  <2>3. stream[turn].parts \o <<>> = stream[turn].parts
    <3>1. stream[turn].parts \in Seq(Units)
      BY <2>1 DEF Streams, Text
    <3> QED BY <3>1, ConcatEmptySeq
  <2>4. ~cancelled => lastResult' = [of |-> turn, text |-> stream'[turn].parts]
    BY <2>1, <2>2, <2>3 DEF Exhausts
  <2> QED BY <1>1, <2>1, <2>4
<1>4. ASSUME PeelFails PROVE KeptInv'
  <2>1. phase = "peel" /\ phase' = "idle" /\ UNCHANGED <<turn, hurt, abandoned, remembered>>
    BY <1>4 DEF PeelFails, mouthVars, endVars
  <2>2. ~abandoned => remembered.of < turn /\ remembered.of # turn /\ remembered.of <= turn
    <3>1. remembered.of \in Int /\ turn \in Int
      BY Constant DEF Typed, Results
    <3> QED BY <2>1, <3>1 DEF KeptInv
  <2> QED BY <2>1, <2>2 DEF KeptInv, OneText
<1>5. ASSUME SpeakStream PROVE KeptInv'
  <2>1. /\ phase = "ready" /\ phase' = "speak" /\ turn \in Turns
        /\ UNCHANGED <<turn, hurt, abandoned, remembered, stream, shown, cut, queue, heard, cancelled, lastResult>>
        /\ worker'[turn] = "pull" /\ player'[turn] \in {player[turn], "get"}
    BY <1>5 DEF SpeakStream, Typed, brainVars, endVars
  <2>2. Fresh(turn)
    BY <2>1 DEF TaskInv, Unspoken
  <2>3. Unhurt(turn) => Unhurt(turn)'
    BY <2>1, <2>2 DEF Fresh, Unhurt, Marked, MarkedOnce, Reaches
  <2> QED BY <2>1, <2>3 DEF KeptInv, OneText
<1> QED BY <1>2, <1>3, <1>4, <1>5

LEMMA KeptWorker ==
    ASSUME Typed, TaskInv, SpeechInv, KeptInv, NEW t \in Turns, WorkerStep(t)
    PROVE  KeptInv'
<1>1. /\ UNCHANGED <<mouth, turn, phase, stopped, cancelled, abandoned, remembered>>
      /\ worker[t] \in {"pull", "synth", "tail"} /\ player' = player /\ heard' = heard /\ Alive(t)
  BY WorkerStepIs DEF TaskStep
<1>2. hurt' \in {hurt, [hurt EXCEPT ![t] = TRUE]}
  BY DEF WorkerStep, WorkerTakesBack, WorkerTakes, WorkerDrains, WorkerFails, SynthDone, SynthFails, endVars
<1>3. SUFFICES ASSUME ~abandoned, ~hurt'[turn] PROVE Unhurt(turn)'
  <2>1. ~abandoned => phase = "speak"
    BY <1>1 DEF TaskInv
  <2> QED BY <1>1, <2>1 DEF KeptInv, OneText
<1>4. t = turn /\ phase = "speak" /\ hurt'[t] = hurt[t] /\ ~hurt[turn]
  BY <1>1, <1>2, <1>3 DEF TaskInv, Typed
<1>5. Unhurt(t) /\ ~cancelled /\ ~stopped /\ Speech(t)
  BY <1>3, <1>4 DEF KeptInv, Unhurt, TaskInv, SpeechInv
<1>6. /\ queue[t] \in Seq(Clips) /\ stream[t] \in Streams
      /\ stream[t].state = "ended" => lastResult = [of |-> t, text |-> stream[t].parts]
      /\ player[t] # "ended" /\ ~Marked(queue[t]) /\ Reaches(queue[t], heard[t].to, cut[t])
      /\ MarkedOnce(queue[t])
  BY <1>1, <1>4, <1>5 DEF Unhurt, Typed
<1>7. SUFFICES
        /\ stream'[t].state = "ended" => lastResult' = [of |-> t, text |-> stream'[t].parts]
        /\ worker'[t] \in {"tail", "ended"} => stream'[t].state = "ended" /\ stream'[t].back = <<>>
        /\ worker'[t] = "ended" /\ mouth # "text" => cut'[t] = Len(shown'[t])
        /\ Marked(queue'[t]) => worker'[t] \in {"ended", "failed"}
        /\ MarkedOnce(queue'[t]) /\ Reaches(queue'[t], heard[t].to, cut'[t])
  BY <1>1, <1>4, <1>5, <1>6 DEF Unhurt
<1>8. CASE WorkerTakesBack(t) \/ \E k \in 1 .. MaxToken : WorkerTakes(t, k)
  <2>1. PICK token, s : Takes(t, token, s) /\ s.state = stream[t].state /\ cut' = cut /\ lastResult' = lastResult
                        /\ (s.state = "ended" => s.parts = stream[t].parts)
    <3>1. CASE WorkerTakesBack(t)
      <4>1. PICK s : s = [stream[t] EXCEPT !.back = Tail(@)]
        OBVIOUS
      <4>2. s.state = stream[t].state /\ s.parts = stream[t].parts
        BY <1>6, <4>1 DEF Streams
      <4> QED BY <3>1, <4>1, <4>2 DEF WorkerTakesBack
    <3>2. CASE \E k \in 1 .. MaxToken : WorkerTakes(t, k)
      <4>1. PICK k \in 1 .. MaxToken : WorkerTakes(t, k)
        BY <3>2
      <4>2. Advanced(t, k).state = "open" /\ stream[t].state = "open"
        <5>1. Advanced(t, k) = [state |-> stream[t].state,
                                left |-> SubSeq(stream[t].left, k + 1, Len(stream[t].left)),
                                parts |-> stream[t].parts \o Token(t, k),
                                back |-> stream[t].back]
          BY <4>1, AdvancedIsStream DEF WorkerTakes
        <5> QED BY <4>1, <5>1 DEF WorkerTakes, Yields
      <4> QED BY <4>1, <4>2 DEF WorkerTakes
    <3> QED BY <1>8, <3>1, <3>2
  <2>2. stream'[t] = s /\ worker'[t] \in {"synth", "pull"} /\ queue'[t] = queue[t]
    BY <1>5, <2>1 DEF Takes, Stops, Typed
  <2> QED BY <1>6, <2>1, <2>2
<1>9. CASE WorkerDrains(t)
  <2>1. /\ stream'[t].state = "ended" /\ stream'[t].back = <<>> /\ stream'[t].parts = stream[t].parts
        /\ UNCHANGED <<shown, cut>>
    BY <1>6, <1>9 DEF WorkerDrains, Typed, Streams
  <2>2. lastResult' = [of |-> t, text |-> stream[t].parts]
    <3>1. CASE stream[t].state = "ended"
      BY <1>6, <1>9, <3>1 DEF WorkerDrains
    <3>2. CASE stream[t].state # "ended"
      <4>1. Exhausts(t) /\ stream[t].left = <<>>
        BY <1>5, <1>9, <3>2 DEF WorkerDrains, Exhausts
      <4>2. stream[t].parts \o <<>> = stream[t].parts
        <5>1. stream[t].parts \in Seq(Units)
          BY <1>6 DEF Streams, Text
        <5> QED BY <5>1, ConcatEmptySeq
      <4> QED BY <4>1, <4>2 DEF Exhausts
    <3> QED BY <3>1, <3>2
  <2>3. CASE mouth # "text" /\ Buffer(t) # <<>>
    <3>1. worker'[t] = "tail" /\ queue'[t] = queue[t]
      BY <1>5, <1>9, <2>3 DEF WorkerDrains, Drains, Typed
    <3> QED BY <1>6, <2>1, <2>2, <3>1
  <2>4. CASE mouth = "text" \/ Buffer(t) = <<>>
    <3>1. worker'[t] = "ended" /\ queue'[t] = queue[t] \o <<Done>>
      BY <1>9, <2>4 DEF WorkerDrains, Drains, Puts, Typed
    <3>2. MarkedOnce(queue'[t]) /\ Reaches(queue'[t], heard[t].to, cut[t])
      BY <1>6, <3>1, QueueMarked
    <3>3. mouth # "text" => cut[t] = Len(shown[t])
      <4>1. Buffer(t) = <<>> => Len(Buffer(t)) = 0
        BY EmptySeq
      <4> QED BY <1>5, <2>4, <4>1, TextOfTurn DEF Speech
    <3> QED BY <2>1, <2>2, <3>1, <3>2, <3>3
  <2> QED BY <2>3, <2>4
<1>10. CASE WorkerFails(t)
  <2>1. /\ stream'[t].state = "broken" /\ worker'[t] = "failed" /\ UNCHANGED <<shown, cut>>
        /\ queue'[t] \in {queue[t], queue[t] \o <<Done>>}
    BY <1>6, <1>10 DEF WorkerFails, Puts, Typed, Streams
  <2>2. MarkedOnce(queue[t] \o <<Done>>) /\ Reaches(queue[t] \o <<Done>>, heard[t].to, cut[t])
    BY <1>6, QueueMarked
  <2> QED BY <1>6, <2>1, <2>2
<1>11. CASE SynthDone(t)
  <2>1. /\ UNCHANGED <<stream, shown, lastResult>> /\ cut'[t] = ClipEnd(t) /\ worker'[t] = AfterClip(t)
        /\ queue'[t] = queue[t] \o (<<Clip(t)>> \o EndMark(t)) /\ worker[t] \in {"synth", "tail"}
    BY <1>11 DEF SynthDone, Puts, Typed, brainVars
  <2>2. PICK clip \in Clips : clip = Clip(t) /\ clip # Done /\ clip.to = ClipEnd(t)
    BY <1>5, <2>1, ClipGoesOn, TextOfTurn
  <2>3. PICK r \in Seq(Clips) : r = queue[t] \o <<clip>> /\ ~Marked(r) /\ Reaches(r, heard[t].to, ClipEnd(t))
    <3>1. queue[t] \o <<clip>> \in Seq(Clips)
      BY <1>6, OneClip, ConcatProperties
    <3>2. ~Marked(queue[t] \o <<clip>>) /\ Reaches(queue[t] \o <<clip>>, heard[t].to, clip.to)
      BY <1>6, <2>2, QueueClip
    <3> QED BY <2>2, <3>1, <3>2
  <2>4. CASE worker[t] = "tail"
    <3>1. queue'[t] = r \o <<Done>>
      <4>1. queue'[t] = queue[t] \o (<<clip>> \o <<Done>>)
        BY <2>1, <2>2, <2>4 DEF EndMark
      <4>2. PICK a \in Seq(Clips), b \in Seq(Clips), c \in Seq(Clips) :
                a = queue[t] /\ b = <<clip>> /\ c = <<Done>>
        BY <1>6, OneClip, Constant
      <4>3. Associates(a, b, c)
        BY Associative, Zenon
      <4> QED BY <2>3, <4>1, <4>2, <4>3 DEF Associates
    <3>2. MarkedOnce(r \o <<Done>>) /\ Reaches(r \o <<Done>>, heard[t].to, ClipEnd(t))
      BY <2>3, QueueMarked
    <3>3. worker'[t] = "ended" /\ cut'[t] = Len(shown[t])
      BY <2>1, <2>4 DEF AfterClip, ClipEnd
    <3>4. stream[t].state = "ended" /\ stream[t].back = <<>>
      BY <1>5, <2>4 DEF Unhurt
    <3> QED BY <1>6, <2>1, <3>1, <3>2, <3>3, <3>4
  <2>5. CASE worker[t] = "synth"
    <3>1. queue'[t] = r
      <4>1. queue'[t] = queue[t] \o (<<clip>> \o <<>>)
        BY <2>1, <2>2, <2>5 DEF EndMark
      <4>2. <<clip>> \o <<>> = <<clip>>
        BY OneClip, ConcatEmptySeq
      <4> QED BY <2>3, <4>1, <4>2
    <3>2. worker'[t] \in {"synth", "pull"}
      BY <2>1, <2>5 DEF AfterClip
    <3>3. MarkedOnce(r)
      BY <2>3 DEF Marked, MarkedOnce
    <3> QED BY <1>6, <2>1, <2>3, <3>1, <3>2, <3>3
  <2> QED BY <2>1, <2>4, <2>5
<1>12. CASE SynthFails(t)
  BY <1>3, <1>4, <1>12 DEF SynthFails, Typed
<1> QED BY <1>8, <1>9, <1>10, <1>11, <1>12 DEF WorkerStep

LEMMA KeptPlayer ==
    ASSUME Typed, Due, TaskInv, SpeechInv, KeptInv, NEW t \in Turns, PlayerStep(t)
    PROVE  KeptInv'
<1>1. /\ UNCHANGED <<mouth, turn, phase, stopped, cancelled, abandoned, remembered>>
      /\ UNCHANGED <<worker, shown, cut, stream>> /\ Alive(t)
  BY PlayerStepIs DEF TaskStep
<1>2. hurt' \in {hurt, [hurt EXCEPT ![t] = TRUE]} /\ lastResult' = lastResult
  BY DEF PlayerStep, PlayLoopGets, SoundStarts, PlayEnds, PlayFails, endVars, brainVars
<1>3. SUFFICES ASSUME ~abandoned, ~hurt'[turn] PROVE Unhurt(turn)'
  <2>1. ~abandoned => phase = "speak"
    BY <1>1 DEF TaskInv
  <2> QED BY <1>1, <2>1 DEF KeptInv, OneText
<1>4. t = turn /\ phase = "speak" /\ hurt'[t] = hurt[t] /\ ~hurt[turn]
  BY <1>1, <1>2, <1>3 DEF TaskInv, Typed
<1>5. Unhurt(t) /\ ~cancelled /\ ~stopped /\ Speech(t)
  BY <1>3, <1>4 DEF KeptInv, Unhurt, TaskInv, SpeechInv
<1>6. SUFFICES
        /\ player'[t] = "ended" \/ Marked(queue'[t]) => worker[t] \in {"ended", "failed"}
        /\ player'[t] = "ended" => heard'[t].to = cut[t]
        /\ MarkedOnce(queue'[t]) /\ Reaches(queue'[t], heard'[t].to, cut[t])
  BY <1>1, <1>2, <1>4, <1>5 DEF Unhurt
<1>7. /\ queue[t] \in Seq(Clips) /\ heard[t].to \in Int /\ cut[t] \in Int
      /\ MarkedOnce(queue[t]) /\ Reaches(queue[t], heard[t].to, cut[t])
      /\ Marked(queue[t]) => worker[t] \in {"ended", "failed"}
      /\ Ordered(queue[t], heard[t].to, cut[t])
  BY <1>5, TextOfTurn DEF Unhurt, Speech, Clips
<1>8. CASE PlayLoopGets(t) /\ player'[t] = "due"
  <2>1. player'[t] = "due" /\ heard' = heard /\ queue' = queue
    BY <1>8 DEF PlayLoopGets, Typed
  <2> QED BY <1>7, <1>8, <2>1
<1>9. CASE (PlayLoopGets(t) /\ player'[t] # "due") \/ SoundStarts(t)
  <2>1. queue[t] # <<>> /\ queue'[t] = Tail(queue[t])
    BY <1>9 DEF PlayLoopGets, SoundStarts, Due, Typed
  <2>2. /\ MarkedOnce(Tail(queue[t]))
        /\ Marked(Tail(queue[t])) => Marked(queue[t])
        /\ Head(queue[t]) # Done => Reaches(Tail(queue[t]), Head(queue[t]).to, cut[t])
        /\ Head(queue[t]) = Done => /\ Marked(queue[t]) /\ Tail(queue[t]) = <<>>
                                    /\ heard[t].to = cut[t]
    BY <1>7, <2>1, QueueTail
  <2>3. CASE Head(queue[t]) = Done
    <3>1. player'[t] = "ended" /\ heard'[t] = heard[t]
      BY <1>9, <2>3 DEF PlayLoopGets, SoundStarts, Due, Typed
    <3>2. Reaches(Tail(queue[t]), heard[t].to, cut[t])
      BY <2>2, <2>3 DEF Reaches
    <3>3. MarkedOnce(queue'[t]) /\ Reaches(queue'[t], heard'[t].to, cut[t])
      BY <2>1, <2>2, <3>1, <3>2
    <3>4. worker[t] \in {"ended", "failed"} /\ heard'[t].to = cut[t]
      BY <1>7, <2>2, <2>3, <3>1
    <3> QED BY <3>3, <3>4
  <2>4. CASE Head(queue[t]) # Done
    <3>1. player'[t] = "play" /\ heard'[t] = Head(queue[t])
      BY <1>5, <1>9, <2>4 DEF PlayLoopGets, SoundStarts, Typed
    <3> QED BY <1>7, <2>1, <2>2, <2>4, <3>1
  <2> QED BY <2>3, <2>4
<1>10. CASE PlayEnds(t)
  <2>1. player'[t] = "get" /\ queue'[t] = queue[t] /\ heard'[t] = heard[t]
    BY <1>5, <1>10 DEF PlayEnds, Typed
  <2> QED BY <1>7, <2>1
<1>11. CASE PlayFails(t)
  BY <1>3, <1>4, <1>11 DEF PlayFails, Typed
<1> QED BY <1>8, <1>9, <1>10, <1>11 DEF PlayerStep

\* run_turn returns: what it keeps of a turn that is not hurt is what was shown.
LEMMA KeptEnds ==
    ASSUME Typed, TaskInv, ResultInv, WholeInv, KeptInv
    PROVE  /\ DrainEnds => KeptInv'
           /\ SupertonicEnds => KeptInv'
           /\ GatherEnds => KeptInv'
<1>1. ASSUME phase = "speak", phase' = "idle",
             UNCHANGED <<mouth, turn, hurt, shown, cut, heard>>, abandoned => abandoned',
             \/ Raises
             \/ /\ Returns
                /\ ~abandoned /\ ~hurt[turn] =>
                      /\ worker[turn] = "ended"
                      /\ mouth # "text" => player[turn] = "ended"
      PROVE  KeptInv'
  <2> SUFFICES ASSUME ~abandoned' PROVE remembered'.of <= turn /\ OneText'
    BY <1>1 DEF KeptInv
  <2>1. turn \in Turns /\ turn \in Int /\ remembered.of \in Int
    BY <1>1, Constant DEF Typed, Results
  <2>2. ~abandoned /\ remembered.of < turn /\ (~hurt[turn] => Unhurt(turn))
    BY <1>1 DEF KeptInv
  <2>3. CASE remembered' = remembered
    <3>1. remembered.of <= turn /\ remembered.of # turn
      BY <2>1, <2>2
    <3> QED BY <1>1, <2>3, <3>1 DEF OneText
  <2>4. CASE remembered' # remembered
    <3>1. /\ Returns /\ lastResult # NoResult /\ remembered' = [lastResult EXCEPT !.text = Clean(@)]
          /\ ~hurt[turn] => worker[turn] = "ended" /\ (mouth # "text" => player[turn] = "ended")
      BY <1>1, <2>2, <2>4 DEF Returns, Raises
    <3>2. lastResult \in Results /\ lastResult.of = turn
      BY <2>2, <3>1 DEF Typed, ResultInv
    <3>3. remembered'.of = turn /\ remembered'.text = Clean(lastResult.text)
      BY <3>1, <3>2 DEF Results
    <3>4. ASSUME ~hurt[turn]
          PROVE  /\ remembered'.text = shown[turn]
                 /\ mouth # "text" => cut[turn] = Len(shown[turn]) /\ heard[turn].to = cut[turn]
      <4>1. /\ Unhurt(turn) /\ worker[turn] = "ended"
            /\ mouth # "text" => player[turn] = "ended"
        BY <2>2, <3>1, <3>4
      <4>2. /\ stream[turn].back = <<>>
            /\ lastResult = [of |-> turn, text |-> stream[turn].parts]
            /\ mouth # "text" => cut[turn] = Len(shown[turn]) /\ heard[turn].to = cut[turn]
        BY <1>1, <4>1 DEF Unhurt
      <4>3. shown[turn] \o <<>> = Clean(stream[turn].parts)
        BY <1>1, <4>2, FlattenNone DEF WholeInv
      <4>4. shown[turn] \o <<>> = shown[turn]
        <5>1. shown[turn] \in Seq(Units)
          BY <2>1 DEF Typed, Text
        <5> QED BY <5>1, ConcatEmptySeq
      <4>5. lastResult.text = stream[turn].parts
        BY <4>2
      <4> QED BY <3>3, <4>2, <4>3, <4>4, <4>5
    <3> QED BY <1>1, <2>1, <3>3, <3>4 DEF OneText
  <2> QED BY <2>3, <2>4
<1>2. ASSUME DrainEnds PROVE KeptInv'
  <2>1. /\ phase = "speak" /\ phase' = "idle" /\ abandoned' = abandoned /\ mouth = "text"
        /\ UNCHANGED <<mouth, turn, hurt, shown, cut, heard>>
        /\ Raises \/ (Returns /\ worker[turn] = "ended")
    BY <1>2 DEF DrainEnds, Returns, Raises, sessionVars, mouthVars
  <2> QED BY <1>1, <2>1
<1>3. ASSUME SupertonicEnds PROVE KeptInv'
  <2>1. /\ phase = "speak" /\ phase' = "idle" /\ abandoned' = abandoned
        /\ UNCHANGED <<mouth, turn, hurt, shown, cut, heard>>
        /\ Raises \/ (Returns /\ player[turn] = "ended" /\ worker[turn] # "failed")
    BY <1>3 DEF SupertonicEnds, Returns, Raises, sessionVars
  <2>2. ~abandoned /\ ~hurt[turn] /\ player[turn] = "ended" => worker[turn] \in {"ended", "failed"}
    BY <2>1 DEF KeptInv, Unhurt
  <2> QED BY <1>1, <2>1, <2>2
<1>4. ASSUME GatherEnds PROVE KeptInv'
  <2>1. /\ phase = "speak" /\ phase' = "idle" /\ (abandoned => abandoned')
        /\ UNCHANGED <<mouth, turn, hurt, shown, cut, heard>>
        /\ Raises \/ (Returns /\ worker[turn] = "ended" /\ player[turn] = "ended")
    BY <1>4, Zenon DEF GatherEnds, Returns, Raises, sessionVars
  <2> QED BY <1>1, <2>1
<1> QED BY <1>2, <1>3, <1>4

LEMMA KeptNext ==
    ASSUME StreamInv, WholeInv, KeptInv, [StreamNext]_streamVars
    PROVE  KeptInv'
<1>1. Typed /\ Due /\ TaskInv /\ SpeechInv /\ ResultInv
  BY DEF StreamInv
<1>2. CASE UNCHANGED streamVars
  BY <1>2 DEF KeptInv, Unhurt, OneText, Marked, MarkedOnce, Reaches,
              streamVars, sessionVars, brainVars, mouthVars, endVars
<1>3. CASE Interrupt
  <2>1. /\ UNCHANGED <<mouth, turn, phase, abandoned, remembered, shown, cut, heard>>
        /\ hurt' = IF phase = "idle" THEN hurt ELSE [hurt EXCEPT ![turn] = TRUE]
    BY <1>3 DEF Interrupt, sessionVars
  <2>2. phase # "idle" => hurt'[turn]
    BY <1>1, <2>1 DEF Typed
  <2> QED BY <2>1, <2>2 DEF KeptInv, OneText
<1> QED BY <1>1, <1>2, <1>3, KeptBegins, KeptSource, KeptWorker, KeptPlayer, KeptEnds
        DEF StreamNext, WorkerStep, PlayerStep

LEMMA KeptInit == StreamInit => KeptInv
BY Constant DEF StreamInit, KeptInv, OneText, NoResult

\* A turn that came back and was neither cut off nor lost a sentence: the text on the
\* screen, the text that was spoken to its last unit and the text given to memory
\* are one and the same (run_turn, speak_stream, generate_stream).
THEOREM TextIsOne == StreamSpec => []OneText
<1>1. StreamInit => WholeInv /\ KeptInv
  BY KeptInit DEF StreamInit, WholeInv
<1>2. StreamInv /\ WholeInv /\ KeptInv /\ [StreamNext]_streamVars => WholeInv' /\ KeptInv'
  BY WholeNext, KeptNext DEF StreamInv
<1>3. KeptInv => OneText
  BY DEF KeptInv, OneText
<1> QED BY <1>1, <1>2, <1>3, StreamInvHolds, PTL DEF StreamSpec
=============================================================================
