--------------------------- MODULE DialogueProofs ---------------------------
(* Theorems about what is said and remembered: for every length of the     *)
(* memory, every way of input and any number of starts and requests.       *)
EXTENDS Dialogue, SequenceTheorems, WellFoundedInduction, TLAPS

----------------------------------------------------------------------------
(* Numbers and sequences.                                                  *)

\* Induction up to a bound, for a set of numbers.
LEMMA AllUpTo ==
    ASSUME NEW n \in Nat, NEW T \in SUBSET (0 .. n), 0 \in T,
           \A k \in T : k < n => k + 1 \in T
    PROVE  \A k \in 0 .. n : k \in T
<1> DEFINE Missing == (0 .. n) \ T
<1>1. SUFFICES ASSUME Missing # {} PROVE FALSE
  OBVIOUS
<1>2. PICK x \in Missing : \A y \in Missing : ~(<<y, x>> \in OpToRel(<, Nat))
  <2>1. Missing \subseteq Nat
    OBVIOUS
  <2> QED BY <1>1, <2>1, NatLessThanWellFounded, WFMin
<1>3. x \in 0 .. n /\ x # 0 /\ x \notin T
  OBVIOUS
<1>4. x - 1 \in 0 .. n /\ x - 1 < x /\ x - 1 < n /\ (x - 1) + 1 = x /\ x \in Nat /\ x - 1 \in Nat
  BY <1>3
<1>5. x - 1 \notin Missing
  <2>1. <<x - 1, x>> \in OpToRel(<, Nat)
    BY <1>4 DEF OpToRel
  <2> QED BY <1>2, <2>1
<1>6. x - 1 \in T
  BY <1>4, <1>5
<1> QED BY <1>3, <1>4, <1>6

LEMMA NothingYet == ASSUME NEW S PROVE <<>> \in Seq(S) /\ Len(<<>>) = 0
BY EmptySeq

----------------------------------------------------------------------------
(* Folds.  FoldLeft chooses a function on the sets of positions; there is  *)
(* one, and along 1..0, 1..1, 1..2, ... it takes the steps one by one.     *)

LEMMA LastPosition ==
    ASSUME NEW k \in Nat, NEW s \in SUBSET (1 .. k + 1), k + 1 \in s
    PROVE  Max(s) = k + 1
<1>1. \A y \in s : k + 1 >= y /\ (y >= k + 1 => y = k + 1)
  OBVIOUS
<1>2. \A x \in s : (\A y \in s : x >= y) => x = k + 1
  BY <1>1
<1> QED BY <1>1, <1>2, Zenon DEF Max

LEMMA LargestOf ==
    ASSUME NEW n \in Nat, NEW s \in SUBSET (1 .. n), s # {}
    PROVE  Max(s) \in s
<1> DEFINE T == {k \in 0 .. n : \A t \in SUBSET (1 .. k) : t # {} => Max(t) \in t}
<1>1. 0 \in T
  <2>1. 0 \in 0 .. n /\ \A t \in SUBSET (1 .. 0) : t = {}
    OBVIOUS
  <2> QED BY <2>1
<1>2. ASSUME NEW k \in T, k < n PROVE k + 1 \in T
  <2>1. ASSUME NEW t \in SUBSET (1 .. k + 1), t # {} PROVE Max(t) \in t
    <3>1. CASE k + 1 \in t
      <4>1. k \in Nat
        OBVIOUS
      <4> QED BY <3>1, <4>1, LastPosition
    <3>2. CASE k + 1 \notin t
      <4>1. t \in SUBSET (1 .. k)
        BY <3>2
      <4> QED BY <2>1, <4>1
    <3> QED BY <3>1, <3>2
  <2>2. k + 1 \in 0 .. n
    BY <1>2
  <2> QED BY <2>1, <2>2
<1>3. T \in SUBSET (0 .. n) /\ n \in 0 .. n
  OBVIOUS
<1> HIDE DEF T
<1>4. n \in T
  BY <1>1, <1>2, <1>3, AllUpTo
<1> QED BY <1>4 DEF T

LEMMA LastOfFirst ==
    ASSUME NEW k \in Nat \ {0}
    PROVE  Max(1 .. k) = k /\ (1 .. k) \ {k} = 1 .. k - 1 /\ 1 .. k # {}
<1>1. \A y \in 1 .. k : k >= y /\ (y >= k => y = k)
  OBVIOUS
<1>2. k \in 1 .. k /\ \A x \in 1 .. k : (\A y \in 1 .. k : x >= y) => x = k
  BY <1>1
<1>3. Max(1 .. k) = k
  BY <1>1, <1>2, Zenon DEF Max
<1> QED BY <1>2, <1>3

\* it folds op over the first n elements of ms.
FoldsAt(it, s, b, op, ms) == it[s] = IF s = {} THEN b ELSE op[<<it[s \ {Max(s)}], ms[Max(s)]>>]
Folds(it, D, b, op, ms, n) ==
    /\ it \in [SUBSET (1 .. n) -> D]
    /\ \A s \in SUBSET (1 .. n) : FoldsAt(it, s, b, op, ms)

LEMMA FoldGrows ==
    ASSUME NEW D, NEW b \in D, NEW S, NEW op \in [D \X S -> D], NEW ms \in Seq(S),
           NEW k \in Nat, k + 1 <= Len(ms), NEW it, Folds(it, D, b, op, ms, k)
    PROVE  \E more : Folds(more, D, b, op, ms, k + 1)
<1> DEFINE more == [s \in SUBSET (1 .. k + 1) |->
                      IF k + 1 \in s THEN op[<<it[s \ {k + 1}], ms[k + 1]>>] ELSE it[s]]
<1>1. ms[k + 1] \in S
  <2>1. k + 1 \in 1 .. Len(ms)
    BY LenProperties
  <2> QED BY <2>1, ElementOfSeq
<1>2. it \in [SUBSET (1 .. k) -> D]
  BY DEF Folds
<1>3. \A s \in SUBSET (1 .. k + 1) : /\ s \ {k + 1} \in SUBSET (1 .. k)
                                     /\ k + 1 \notin s => s \in SUBSET (1 .. k)
  OBVIOUS
<1>4. more \in [SUBSET (1 .. k + 1) -> D]
  <2> SUFFICES ASSUME NEW s \in SUBSET (1 .. k + 1)
               PROVE  (IF k + 1 \in s THEN op[<<it[s \ {k + 1}], ms[k + 1]>>] ELSE it[s]) \in D
    BY Zenon
  <2>1. it[s \ {k + 1}] \in D /\ (k + 1 \notin s => it[s] \in D)
    BY <1>2, <1>3
  <2>2. op[<<it[s \ {k + 1}], ms[k + 1]>>] \in D
    BY <1>1, <2>1
  <2> QED BY <2>1, <2>2, Zenon
<1>5. ASSUME NEW s \in SUBSET (1 .. k + 1) PROVE FoldsAt(more, s, b, op, ms)
  <2>1. CASE k + 1 \in s
    <3>1. Max(s) = k + 1 /\ s # {}
      BY <2>1, LastPosition
    <3>2. k + 1 \notin s \ {k + 1} /\ s \ {k + 1} \in SUBSET (1 .. k + 1)
      OBVIOUS
    <3>3. more[s \ {k + 1}] = it[s \ {k + 1}]
      BY <3>2, Zenon
    <3>4. more[s] = op[<<it[s \ {k + 1}], ms[k + 1]>>]
      BY <2>1, Zenon
    <3> QED BY <3>1, <3>3, <3>4, Zenon DEF FoldsAt
  <2>2. CASE k + 1 \notin s
    <3>1. s \in SUBSET (1 .. k) /\ more[s] = it[s]
      BY <1>3, <2>2, Zenon
    <3>2. FoldsAt(it, s, b, op, ms)
      BY <3>1 DEF Folds
    <3>3. s \ {Max(s)} \in SUBSET (1 .. k + 1) /\ k + 1 \notin s \ {Max(s)}
      BY <2>2
    <3>4. more[s \ {Max(s)}] = it[s \ {Max(s)}]
      BY <3>3, Zenon
    <3> QED BY <3>1, <3>2, <3>4, Zenon DEF FoldsAt
  <2> QED BY <2>1, <2>2
<1> HIDE DEF more
<1> QED BY <1>4, <1>5, Zenon DEF Folds

LEMMA FoldExists ==
    ASSUME NEW D, NEW b \in D, NEW S, NEW op \in [D \X S -> D], NEW ms \in Seq(S)
    PROVE  \E it : Folds(it, D, b, op, ms, Len(ms))
<1> DEFINE n == Len(ms)
           T == {k \in 0 .. n : \E it : Folds(it, D, b, op, ms, k)}
<1>0. n \in Nat
  BY LenProperties
<1>1. 0 \in T
  <2> DEFINE it == [s \in SUBSET (1 .. 0) |-> b]
  <2>1. \A s \in SUBSET (1 .. 0) : s = {}
    OBVIOUS
  <2>2. it \in [SUBSET (1 .. 0) -> D]
    OBVIOUS
  <2>3. \A s \in SUBSET (1 .. 0) : FoldsAt(it, s, b, op, ms)
    BY <2>1, Zenon DEF FoldsAt
  <2> HIDE DEF it
  <2>4. Folds(it, D, b, op, ms, 0)
    BY <2>2, <2>3, Zenon DEF Folds
  <2> QED BY <1>0, <2>4
<1>2. ASSUME NEW k \in T, k < n PROVE k + 1 \in T
  <2>1. PICK it : Folds(it, D, b, op, ms, k)
    OBVIOUS
  <2>2. k \in Nat /\ k + 1 <= n /\ k + 1 \in 0 .. n
    BY <1>0, <1>2
  <2>3. \E more : Folds(more, D, b, op, ms, k + 1)
    BY <2>1, <2>2, FoldGrows
  <2> QED BY <2>2, <2>3
<1>3. T \in SUBSET (0 .. n) /\ n \in 0 .. n
  BY <1>0
<1> HIDE DEF T
<1>4. n \in T
  BY <1>0, <1>1, <1>2, <1>3, AllUpTo
<1> QED BY <1>4 DEF T
----------------------------------------------------------------------------
(* _normalize.  S is the set of sayings the messages are made of.          *)

Roles == {"user", "assistant"}
Messages(S) == [role : Roles, parts : Seq(S)]

Alternates(d) == \A i \in 1 .. Len(d) - 1 : d[i].role # d[i + 1].role
NoneEmpty(d) == \A i \in 1 .. Len(d) : d[i].parts # <<>>
EndsWith(d, x) == d # <<>> /\ Last(d).parts # <<>> /\ Last(Last(d).parts) = x

\* What _normalize has built so far when m, which says x, was its last message.
Tidy(d, S, m, x) ==
    /\ d \in Seq(Messages(S)) /\ NoneEmpty(d) /\ Alternates(d)
    /\ EndsWith(d, x) /\ Last(d).role = m.role

LEMMA LastIn ==
    ASSUME NEW S, NEW s \in Seq(S), s # <<>>
    PROVE  Len(s) \in Nat \ {0} /\ Len(s) \in 1 .. Len(s) /\ Last(s) = s[Len(s)] /\ Last(s) \in S
<1>1. Len(s) \in Nat \ {0}
  BY EmptySeq, LenProperties
<1>2. Len(s) \in 1 .. Len(s)
  BY <1>1
<1>3. s[Len(s)] \in S
  BY <1>2, ElementOfSeq
<1> QED BY <1>1, <1>2, <1>3 DEF Last

\* Another element at the end.
LEMMA OneMore ==
    ASSUME NEW S, NEW s \in Seq(S), NEW e \in S
    PROVE  /\ Append(s, e) \in Seq(S) /\ Append(s, e) # <<>>
           /\ Len(Append(s, e)) = Len(s) + 1
           /\ \A i \in 1 .. Len(s) : Append(s, e)[i] = s[i]
           /\ Append(s, e)[Len(s) + 1] = e /\ Last(Append(s, e)) = e
<1>1. Len(s) \in Nat
  BY LenProperties
<1>2. /\ Append(s, e) \in Seq(S)
      /\ Len(Append(s, e)) = Len(s) + 1
      /\ \A i \in 1 .. Len(s) : Append(s, e)[i] = s[i]
      /\ Append(s, e)[Len(s) + 1] = e
  BY AppendProperties
<1>3. Append(s, e) # <<>>
  BY <1>1, <1>2, EmptySeq
<1>4. Last(Append(s, e)) = e
  BY <1>2, Zenon DEF Last
<1> QED BY <1>2, <1>3, <1>4

\* One saying is put behind the others.
LEMMA PutBehind ==
    ASSUME NEW S, NEW s \in Seq(S), NEW x \in S, s # <<>>
    PROVE  /\ s \o <<x>> \in Seq(S) /\ s \o <<x>> # <<>>
           /\ Len(s \o <<x>>) = Len(s) + 1 /\ Len(s \o <<x>>) > 1
           /\ Last(s \o <<x>>) = x
           /\ (s \o <<x>>)[Len(s \o <<x>>) - 1] = Last(s)
<1>1. Len(s) \in Nat \ {0} /\ Last(s) = s[Len(s)]
  BY LastIn
<1>2. s \o <<x>> = Append(s, x)
  BY AppendIsConcat
<1>3. Len(s) \in 1 .. Len(s) /\ (Len(s) + 1) - 1 = Len(s) /\ Len(s) + 1 > 1
  BY <1>1
<1>4. /\ Append(s, x) \in Seq(S) /\ Append(s, x) # <<>>
      /\ Len(Append(s, x)) = Len(s) + 1
      /\ Append(s, x)[Len(s)] = s[Len(s)]
      /\ Last(Append(s, x)) = x
  BY <1>3, OneMore
<1> QED BY <1>1, <1>2, <1>3, <1>4, Zenon

\* A message of the role of the last one is merged into it.
LEMMA JoinedMerges ==
    ASSUME NEW S, NEW d \in Seq(Messages(S)), d # <<>>, NEW m \in Messages(S),
           Last(d).role = m.role
    PROVE  /\ Joined(d, m) \in Seq(Messages(S))
           /\ Len(Joined(d, m)) = Len(d)
           /\ \A i \in 1 .. Len(d) : Joined(d, m)[i] =
                IF i = Len(d) THEN [role |-> d[i].role, parts |-> d[i].parts \o m.parts] ELSE d[i]
<1> DEFINE n == Len(d)
           J == [i \in 1 .. n |-> IF i = n THEN [role |-> d[i].role, parts |-> d[i].parts \o m.parts]
                                           ELSE d[i]]
<1>1. n \in Nat \ {0} /\ n \in 1 .. n /\ DOMAIN d = 1 .. n
  BY LastIn, LenProperties
<1>2. \A i \in 1 .. n : d[i] \in Messages(S)
  BY ElementOfSeq
<1>3. Joined(d, m) = J
  <2>1. Joined(d, m) = [d EXCEPT ![n].parts = @ \o m.parts]
    BY Zenon DEF Joined
  <2>2. [d EXCEPT ![n].parts = @ \o m.parts] =
          [i \in 1 .. n |-> IF i = n THEN [d[n] EXCEPT !.parts = @ \o m.parts] ELSE d[i]]
    BY <1>1, Zenon
  <2>3. [d[n] EXCEPT !.parts = @ \o m.parts] = [role |-> d[n].role, parts |-> d[n].parts \o m.parts]
    <3>1. PICK e \in Messages(S) : e = d[n]
      BY <1>1, <1>2
    <3>2. PICK v : v = e.parts \o m.parts
      OBVIOUS
    <3>3. [e EXCEPT !.parts = v] = [role |-> e.role, parts |-> v]
      BY DEF Messages
    <3> QED BY <3>1, <3>2, <3>3, Zenon
  <2> QED BY <2>1, <2>2, <2>3, Zenon
<1>4. \A i \in 1 .. n : (IF i = n THEN [role |-> d[i].role, parts |-> d[i].parts \o m.parts] ELSE d[i])
                        \in Messages(S)
  <2> SUFFICES ASSUME NEW i \in 1 .. n
               PROVE  [role |-> d[i].role, parts |-> d[i].parts \o m.parts] \in Messages(S)
    BY <1>2, Zenon
  <2>1. d[i].role \in Roles /\ d[i].parts \in Seq(S) /\ m.parts \in Seq(S)
    BY <1>2 DEF Messages
  <2>2. d[i].parts \o m.parts \in Seq(S)
    BY <2>1, ConcatProperties
  <2> QED BY <2>1, <2>2, Zenon DEF Messages
<1>5. J \in [1 .. n -> Messages(S)]
  BY <1>4, Zenon
<1>6. J \in Seq(Messages(S)) /\ Len(J) = n
  <2> HIDE DEF J
  <2>1. J \in Seq(Messages(S))
    BY <1>1, <1>5, SeqDef
  <2>2. DOMAIN J = 1 .. n /\ DOMAIN J = 1 .. Len(J) /\ Len(J) \in Nat
    BY <1>5, <2>1, LenProperties
  <2> QED BY <1>1, <2>1, <2>2
<1>7. \A i \in 1 .. n : J[i] = IF i = n THEN [role |-> d[i].role, parts |-> d[i].parts \o m.parts] ELSE d[i]
  BY Zenon
<1> HIDE DEF J
<1> QED BY <1>3, <1>6, <1>7, Zenon

LEMMA MergeTidy ==
    ASSUME NEW S, NEW d \in Seq(Messages(S)), d # <<>>, NoneEmpty(d), Alternates(d),
           NEW m \in Messages(S), NEW x \in S, m.parts = <<x>>, Last(d).role = m.role
    PROVE  /\ Tidy(Joined(d, m), S, m, x) /\ Len(Joined(d, m)) = Len(d)
           /\ \A y : EndsWith(d, y) => JustBefore(Joined(d, m), y)
<1> DEFINE n == Len(d)
           J == Joined(d, m)
<1>1. n \in Nat \ {0} /\ n \in 1 .. n /\ Last(d) = d[n] /\ d[n] \in Messages(S)
  BY LastIn
<1>2. /\ J \in Seq(Messages(S)) /\ Len(J) = n
      /\ \A i \in 1 .. n : J[i] =
           IF i = n THEN [role |-> d[i].role, parts |-> d[i].parts \o m.parts] ELSE d[i]
  BY JoinedMerges
<1> HIDE DEF J
<1>3. J # <<>> /\ Last(J) = J[n]
  BY <1>1, <1>2, LastIn, EmptySeq
<1>4. PICK s \in Seq(S) : s = d[n].parts
  BY <1>1 DEF Messages
<1>5. s # <<>>
  BY <1>1, <1>4 DEF NoneEmpty
<1>6. J[n].role = d[n].role /\ J[n].parts = s \o <<x>>
  <2>1. J[n] = [role |-> d[n].role, parts |-> s \o <<x>>]
    BY <1>1, <1>2, <1>4, Zenon
  <2> QED BY <2>1
<1>7. \A i \in 1 .. n : J[i].role = d[i].role /\ (i # n => J[i] = d[i])
  <2> SUFFICES ASSUME NEW i \in 1 .. n PROVE J[i].role = d[i].role /\ (i # n => J[i] = d[i])
    OBVIOUS
  <2>1. i # n => J[i] = d[i]
    BY <1>2, Zenon
  <2> QED BY <1>6, <2>1, Zenon
<1>8. /\ s \o <<x>> # <<>> /\ Len(s \o <<x>>) > 1 /\ Last(s \o <<x>>) = x
      /\ (s \o <<x>>)[Len(s \o <<x>>) - 1] = Last(s)
  BY <1>5, PutBehind
<1>9. NoneEmpty(J)
  <2> SUFFICES ASSUME NEW i \in 1 .. n PROVE J[i].parts # <<>>
    BY <1>2 DEF NoneEmpty
  <2>1. CASE i = n
    BY <1>6, <1>8, <2>1, Zenon
  <2>2. CASE i # n
    BY <1>7, <2>2 DEF NoneEmpty
  <2> QED BY <2>1, <2>2
<1>10. Alternates(J)
  <2> SUFFICES ASSUME NEW i \in 1 .. n - 1 PROVE J[i].role # J[i + 1].role
    BY <1>2 DEF Alternates
  <2>1. i \in 1 .. n /\ i + 1 \in 1 .. n
    BY <1>1
  <2>2. d[i].role # d[i + 1].role
    BY DEF Alternates
  <2> QED BY <1>7, <2>1, <2>2, Zenon
<1>11. EndsWith(J, x) /\ Last(J).role = m.role
  BY <1>1, <1>3, <1>6, <1>8, Zenon DEF EndsWith
<1>12. ASSUME NEW y, EndsWith(d, y) PROVE JustBefore(J, y)
  <2>1. Last(s) = y
    BY <1>1, <1>4, <1>12, Zenon DEF EndsWith
  <2> QED BY <1>3, <1>6, <1>8, <2>1, Zenon DEF JustBefore
<1> QED BY <1>2, <1>9, <1>10, <1>11, <1>12, Zenon DEF Tidy, J

LEMMA AppendTidy ==
    ASSUME NEW S, NEW d \in Seq(Messages(S)), NoneEmpty(d), Alternates(d),
           NEW m \in Messages(S), NEW x \in S, m.parts = <<x>>,
           d = <<>> \/ Last(d).role # m.role
    PROVE  /\ Tidy(Joined(d, m), S, m, x) /\ Len(Joined(d, m)) = Len(d) + 1
           /\ \A y : EndsWith(d, y) => JustBefore(Joined(d, m), y)
<1> DEFINE n == Len(d)
           J == Append(d, m)
<1>1. Joined(d, m) = J
  BY Zenon DEF Joined
<1>2. n \in Nat /\ d \in Seq(Messages(S))
  BY LenProperties
<1>3. /\ J \in Seq(Messages(S)) /\ J # <<>> /\ Len(J) = n + 1
      /\ \A i \in 1 .. n : J[i] = d[i]
      /\ J[n + 1] = m /\ Last(J) = m
  BY OneMore
<1> HIDE DEF J
<1>4. Len(<<x>>) = 1 /\ <<x>>[1] = x /\ <<x>> # <<>> /\ Last(<<x>>) = x
  BY DEF Last
<1>5. NoneEmpty(J)
  <2> SUFFICES ASSUME NEW i \in 1 .. n + 1 PROVE J[i].parts # <<>>
    BY <1>3 DEF NoneEmpty
  <2>1. CASE i = n + 1
    BY <1>3, <1>4, <2>1, Zenon
  <2>2. CASE i # n + 1
    <3>1. i \in 1 .. n
      BY <1>2, <2>2
    <3>2. d[i].parts # <<>>
      BY <3>1 DEF NoneEmpty
    <3> QED BY <1>3, <3>1, <3>2, Zenon
  <2> QED BY <2>1, <2>2
<1>6. d # <<>> => n \in 1 .. n /\ n # 0 /\ Last(d) = d[n]
  BY LastIn
<1>7. Alternates(J)
  <2> SUFFICES ASSUME NEW i \in 1 .. (n + 1) - 1 PROVE J[i].role # J[i + 1].role
    BY <1>3 DEF Alternates
  <2>1. i \in 1 .. n /\ d # <<>>
    <3>1. i \in 1 .. n /\ n # 0
      BY <1>2
    <3> QED BY <3>1, EmptySeq
  <2>2. CASE i = n
    <3>1. J[i] = d[n] /\ J[i + 1] = m
      BY <1>3, <2>1, <2>2, Zenon
    <3>2. Last(d) = d[n] /\ Last(d).role # m.role
      BY <1>6, <2>1
    <3> QED BY <3>1, <3>2, Zenon
  <2>3. CASE i # n
    <3>1. i \in 1 .. n - 1 /\ i + 1 \in 1 .. n
      BY <1>2, <2>1, <2>3
    <3>2. d[i].role # d[i + 1].role
      BY <3>1 DEF Alternates
    <3> QED BY <1>3, <2>1, <3>1, <3>2, Zenon
  <2> QED BY <2>2, <2>3
<1>8. EndsWith(J, x) /\ Last(J).role = m.role
  BY <1>3, <1>4, Zenon DEF EndsWith
<1>9. ASSUME NEW y, EndsWith(d, y) PROVE JustBefore(J, y)
  <2>1. d # <<>> /\ Last(d).parts # <<>> /\ Last(Last(d).parts) = y
    BY <1>9 DEF EndsWith
  <2>2. n \in 1 .. n /\ Last(d) = d[n] /\ Len(J) > 1 /\ Len(J) - 1 = n
    BY <1>2, <1>3, <1>6, <2>1
  <2>3. J[Len(J) - 1].parts = Last(d).parts
    BY <1>3, <2>2, Zenon
  <2>4. Len(Last(J).parts) = 1
    BY <1>3, <1>4, Zenon
  <2> QED BY <2>1, <2>2, <2>3, <2>4, Zenon DEF JustBefore
<1> QED BY <1>1, <1>3, <1>5, <1>7, <1>8, <1>9, Zenon DEF Tidy

\* One step of _normalize keeps what it has built tidy, and what was said
\* last is now just before the new message.
LEMMA JoinTidy ==
    ASSUME NEW S, NEW d \in Seq(Messages(S)), NoneEmpty(d), Alternates(d),
           NEW m \in Messages(S), NEW x \in S, m.parts = <<x>>
    PROVE  /\ Tidy(Joined(d, m), S, m, x) /\ Len(Joined(d, m)) <= Len(d) + 1
           /\ \A y : EndsWith(d, y) => JustBefore(Joined(d, m), y)
<1>0. Len(d) \in Nat
  BY LenProperties
<1>1. CASE d # <<>> /\ Last(d).role = m.role
  <2>1. /\ Tidy(Joined(d, m), S, m, x) /\ Len(Joined(d, m)) = Len(d)
        /\ \A y : EndsWith(d, y) => JustBefore(Joined(d, m), y)
    BY <1>1, MergeTidy
  <2> QED BY <1>0, <2>1
<1>2. CASE d = <<>> \/ Last(d).role # m.role
  <2>1. /\ Tidy(Joined(d, m), S, m, x) /\ Len(Joined(d, m)) = Len(d) + 1
        /\ \A y : EndsWith(d, y) => JustBefore(Joined(d, m), y)
    BY <1>2, AppendTidy
  <2> QED BY <1>0, <2>1
<1> QED BY <1>1, <1>2

----------------------------------------------------------------------------
(* The whole fold: r[k] is what _normalize has built after k messages.     *)

Builds(r, ms) ==
    /\ r[0] = <<>> /\ r[Len(ms)] = Merged(ms)
    /\ \A k \in 1 .. Len(ms) : r[k] = Joined(r[k - 1], ms[k])

JoinsAll(it, ms, n) ==
    it = [s \in SUBSET (1 .. n) |-> IF s = {} THEN <<>> ELSE Joined(it[s \ {Max(s)}], ms[Max(s)])]

LEMMA JoinedType ==
    ASSUME NEW S, NEW d \in Seq(Messages(S)), NEW m \in Messages(S)
    PROVE  Joined(d, m) \in Seq(Messages(S))
<1>1. CASE d # <<>> /\ Last(d).role = m.role
  BY <1>1, JoinedMerges
<1>2. CASE ~(d # <<>> /\ Last(d).role = m.role)
  <2>1. Joined(d, m) = Append(d, m)
    BY <1>2, Zenon DEF Joined
  <2> QED BY <2>1, OneMore
<1> QED BY <1>1, <1>2

LEMMA MergedBuilds ==
    ASSUME NEW S, NEW ms \in Seq(Messages(S))
    PROVE  \E r : Builds(r, ms)
<1> DEFINE n == Len(ms)
           D == Seq(Messages(S))
           op == [c \in D \X Messages(S) |-> Joined(c[1], c[2])]
<1>1. n \in Nat /\ DOMAIN ms = 1 .. n
  BY LenProperties
<1>2. op \in [D \X Messages(S) -> D]
  <2>1. \A c \in D \X Messages(S) : Joined(c[1], c[2]) \in D
    BY JoinedType
  <2> QED BY <2>1, Zenon
<1>3. \A a \in D, m \in Messages(S) : op[<<a, m>>] = Joined(a, m)
  <2> SUFFICES ASSUME NEW a \in D, NEW m \in Messages(S) PROVE op[<<a, m>>] = Joined(a, m)
    OBVIOUS
  <2>1. <<a, m>> \in D \X Messages(S) /\ <<a, m>>[1] = a /\ <<a, m>>[2] = m
    OBVIOUS
  <2> QED BY <2>1, Zenon
<1>4. <<>> \in D
  BY EmptySeq
<1>5. PICK it : Folds(it, D, <<>>, op, ms, n)
  <2> HIDE DEF op, D
  <2> QED BY <1>2, <1>4, FoldExists
<1> HIDE DEF op
<1>6. \E f : JoinsAll(f, ms, n)
  <2>1. \A s \in SUBSET (1 .. n) :
          it[s] = IF s = {} THEN <<>> ELSE Joined(it[s \ {Max(s)}], ms[Max(s)])
    <3> SUFFICES ASSUME NEW s \in SUBSET (1 .. n)
                 PROVE  it[s] = IF s = {} THEN <<>> ELSE Joined(it[s \ {Max(s)}], ms[Max(s)])
      OBVIOUS
    <3>1. it \in [SUBSET (1 .. n) -> D] /\ FoldsAt(it, s, <<>>, op, ms)
      BY <1>5 DEF Folds
    <3>2. CASE s = {}
      BY <3>1, <3>2, Zenon DEF FoldsAt
    <3>3. CASE s # {}
      <4>1. it[s \ {Max(s)}] \in D
        <5>1. s \ {Max(s)} \in SUBSET (1 .. n)
          OBVIOUS
        <5> QED BY <3>1, <5>1, Zenon
      <4>2. ms[Max(s)] \in Messages(S)
        <5>1. Max(s) \in 1 .. n
          BY <1>1, <3>3, LargestOf
        <5> QED BY <5>1, ElementOfSeq
      <4>3. op[<<it[s \ {Max(s)}], ms[Max(s)]>>] = Joined(it[s \ {Max(s)}], ms[Max(s)])
        BY <1>3, <4>1, <4>2
      <4> QED BY <3>1, <3>3, <4>3, Zenon DEF FoldsAt
    <3> QED BY <3>2, <3>3
  <2>2. it = [s \in SUBSET (1 .. n) |-> it[s]]
    BY <1>5, Zenon DEF Folds
  <2>3. JoinsAll(it, ms, n)
    BY <2>1, <2>2, Zenon DEF JoinsAll
  <2> QED BY <2>3
<1> DEFINE f == CHOOSE f : JoinsAll(f, ms, n)
<1>7. JoinsAll(f, ms, n)
  BY <1>6, Zenon
<1>8. Merged(ms) = f[1 .. n]
  <2>1. Merged(ms) = LET g[s \in SUBSET DOMAIN ms] == IF s = {} THEN <<>>
                           ELSE Joined(g[s \ {Max(s)}], ms[Max(s)])
                     IN  g[DOMAIN ms]
    BY Zenon DEF Merged, FoldLeft, MapThenFoldSet
  <2> QED BY <1>1, <2>1, Zenon DEF JoinsAll
<1> HIDE DEF f
<1>9. \A s \in SUBSET (1 .. n) : f[s] = IF s = {} THEN <<>> ELSE Joined(f[s \ {Max(s)}], ms[Max(s)])
  BY <1>7, Zenon DEF JoinsAll
<1> DEFINE r == [k \in 0 .. n |-> f[1 .. k]]
<1>10. r[0] = <<>>
  <2>1. 0 \in 0 .. n /\ 1 .. 0 = {} /\ {} \in SUBSET (1 .. n)
    BY <1>1
  <2>2. r[0] = f[1 .. 0] /\ f[1 .. 0] = f[{}]
    BY <2>1, Zenon
  <2> QED BY <1>9, <2>1, <2>2, Zenon
<1>11. r[n] = Merged(ms)
  <2>1. n \in 0 .. n
    BY <1>1
  <2> QED BY <1>8, <2>1, Zenon
<1>12. ASSUME NEW k \in 1 .. n PROVE r[k] = Joined(r[k - 1], ms[k])
  <2>1. k \in Nat \ {0} /\ k \in 0 .. n /\ k - 1 \in 0 .. n /\ 1 .. k \in SUBSET (1 .. n)
    BY <1>1
  <2>2. Max(1 .. k) = k /\ (1 .. k) \ {k} = 1 .. k - 1 /\ 1 .. k # {}
    BY <2>1, LastOfFirst
  <2>3. f[1 .. k] = Joined(f[1 .. k - 1], ms[k])
    BY <1>9, <2>1, <2>2, Zenon
  <2> QED BY <2>1, <2>3, Zenon
<1> HIDE DEF r
<1> QED BY <1>10, <1>11, <1>12, Zenon DEF Builds

\* Every message says one thing.
Singles(ms, S) == \A k \in 1 .. Len(ms) : ms[k].parts[1] \in S /\ ms[k].parts = <<ms[k].parts[1]>>

LEMMA MergedTidy ==
    ASSUME NEW S, NEW ms \in Seq(Messages(S)), ms # <<>>, Singles(ms, S)
    PROVE  /\ Tidy(Merged(ms), S, Last(ms), Last(ms).parts[1])
           /\ Len(Merged(ms)) <= Len(ms)
           /\ Len(ms) > 1 => JustBefore(Merged(ms), ms[Len(ms) - 1].parts[1])
<1> DEFINE n == Len(ms)
<1>1. n \in Nat \ {0} /\ n \in 1 .. n /\ Last(ms) = ms[n]
  BY LastIn
<1>2. PICK r : Builds(r, ms)
  BY MergedBuilds
<1> DEFINE Good(k) == /\ Tidy(r[k], S, ms[k], ms[k].parts[1]) /\ Len(r[k]) <= k
                      /\ k > 1 => JustBefore(r[k], ms[k - 1].parts[1])
           T == {k \in 0 .. n : k = 0 \/ Good(k)}
<1>3. ASSUME NEW k \in T, k < n PROVE k + 1 \in T
  <2>1. k \in Nat /\ k + 1 \in 1 .. n /\ k + 1 \in 0 .. n /\ (k + 1) - 1 = k /\ k + 1 \in Nat
    BY <1>1, <1>3
  <2>2. ms[k + 1] \in Messages(S) /\ ms[k + 1].parts[1] \in S
        /\ ms[k + 1].parts = <<ms[k + 1].parts[1]>>
    BY <2>1, ElementOfSeq DEF Singles
  <2>3. r[k + 1] = Joined(r[k], ms[k + 1])
    BY <1>2, <2>1, Zenon DEF Builds
  <2>4. r[k] \in Seq(Messages(S)) /\ NoneEmpty(r[k]) /\ Alternates(r[k]) /\ Len(r[k]) <= k
    <3>1. CASE k = 0
      <4>1. r[k] = <<>>
        BY <1>2, <3>1, Zenon DEF Builds
      <4>2. <<>> \in Seq(Messages(S)) /\ Len(<<>>) = 0
        BY EmptySeq
      <4>3. NoneEmpty(<<>>) /\ Alternates(<<>>)
        BY <4>2 DEF NoneEmpty, Alternates
      <4> QED BY <2>1, <4>1, <4>2, <4>3
    <3>2. CASE k # 0
      <4>1. Good(k)
        BY <3>2
      <4> QED BY <4>1 DEF Tidy
    <3> QED BY <3>1, <3>2
  <2>5. /\ Tidy(r[k + 1], S, ms[k + 1], ms[k + 1].parts[1]) /\ Len(r[k + 1]) <= Len(r[k]) + 1
        /\ \A y : EndsWith(r[k], y) => JustBefore(r[k + 1], y)
    BY <2>2, <2>3, <2>4, JoinTidy
  <2>6. Len(r[k + 1]) <= k + 1
    <3>1. Len(r[k]) \in Nat /\ Len(r[k + 1]) \in Nat
      BY <2>4, <2>5, LenProperties DEF Tidy
    <3> QED BY <2>1, <2>4, <2>5, <3>1
  <2>7. k + 1 > 1 => JustBefore(r[k + 1], ms[(k + 1) - 1].parts[1])
    <3> SUFFICES ASSUME k + 1 > 1 PROVE JustBefore(r[k + 1], ms[k].parts[1])
      BY <2>1
    <3>1. k # 0
      BY <2>1
    <3>2. Good(k)
      BY <3>1
    <3>3. EndsWith(r[k], ms[k].parts[1])
      BY <3>2, Zenon DEF Tidy
    <3> QED BY <2>5, <3>3
  <2>8. Good(k + 1)
    BY <2>5, <2>6, <2>7
  <2> HIDE DEF Good
  <2> QED BY <2>1, <2>8
<1>4. T \in SUBSET (0 .. n) /\ 0 \in T /\ n \in 0 .. n
  BY <1>1
<1>5. n \in T
  <2> HIDE DEF T
  <2> QED BY <1>1, <1>3, <1>4, AllUpTo
<1>6. Good(n)
  BY <1>1, <1>5
<1>7. r[n] = Merged(ms)
  BY <1>2 DEF Builds
<1> QED BY <1>1, <1>6, <1>7, Zenon

\* What the Anthropic API takes, with the trigger x at its end.
Accepted(d, S, x) ==
    /\ d \in Seq(Messages(S)) /\ d # <<>> /\ Alternates(d)
    /\ d[1].role = "user" /\ Last(d).role = "user" /\ Last(Last(d).parts) = x

Opener == [role |-> "user", parts |-> <<>>]

LEMMA NormalizeAccepted ==
    ASSUME NEW S, NEW ms, NEW m, NEW x, Tidy(Merged(ms), S, m, x), m.role = "user"
    PROVE  /\ Accepted(Normalize(ms), S, x) /\ Len(Normalize(ms)) <= Len(Merged(ms)) + 1
           /\ \A y : JustBefore(Merged(ms), y) => JustBefore(Normalize(ms), y)
<1>0. PICK d : d = Merged(ms)
  OBVIOUS
<1>1. /\ d \in Seq(Messages(S)) /\ Alternates(d) /\ d # <<>>
      /\ Last(d).role = "user" /\ Last(Last(d).parts) = x
  BY <1>0, Zenon DEF Tidy, EndsWith
<1>2. /\ Len(d) \in Nat \ {0} /\ Len(d) \in 1 .. Len(d) /\ 1 \in 1 .. Len(d)
      /\ Last(d) = d[Len(d)]
  <2>1. Len(d) \in Nat \ {0} /\ Len(d) \in 1 .. Len(d) /\ Last(d) = d[Len(d)]
    BY <1>1, LastIn
  <2> QED BY <2>1
<1>3. CASE d[1].role = "assistant"
  <2>1. Normalize(ms) = <<Opener>> \o d
    BY <1>0, <1>1, <1>3, Zenon DEF Normalize, Opener
  <2>2. <<Opener>> \in Seq(Messages(S)) /\ Len(<<Opener>>) = 1 /\ <<Opener>>[1] = Opener
    <3>1. Opener \in Messages(S)
      <4>1. <<>> \in Seq(S) /\ "user" \in Roles
        BY EmptySeq DEF Roles
      <4> QED BY <4>1 DEF Opener, Messages
    <3> HIDE DEF Opener
    <3> QED BY <3>1
  <2>3. PICK e : e = <<Opener>> \o d
    OBVIOUS
  <2> HIDE DEF Opener
  <2>4. /\ e \in Seq(Messages(S)) /\ Len(e) = Len(d) + 1
        /\ e[1] = Opener
        /\ \A i \in 1 .. Len(d) : e[i + 1] = d[i]
    <3>1. /\ e \in Seq(Messages(S)) /\ Len(e) = 1 + Len(d)
          /\ \A i \in 1 .. Len(e) : e[i] = IF i <= 1 THEN <<Opener>>[i] ELSE d[i - 1]
      BY <1>1, <2>2, <2>3, ConcatProperties
    <3>2. 1 \in 1 .. Len(e) /\ Len(e) = Len(d) + 1
      BY <1>2, <3>1
    <3>3. e[1] = Opener
      BY <2>2, <3>1, <3>2
    <3>4. ASSUME NEW i \in 1 .. Len(d) PROVE e[i + 1] = d[i]
      <4>1. i + 1 \in 1 .. Len(e) /\ ~(i + 1 <= 1) /\ (i + 1) - 1 = i
        BY <1>2, <3>2
      <4>2. e[i + 1] = d[(i + 1) - 1]
        BY <3>1, <4>1, Zenon
      <4> QED BY <4>1, <4>2
    <3> QED BY <3>1, <3>2, <3>3, <3>4
  <2>5. e # <<>> /\ Last(e) = Last(d)
    <3>1. Last(e) = e[Len(e)] /\ Len(e) # 0
      BY <1>2, <2>4 DEF Last
    <3>2. e # <<>>
      BY <2>4, <3>1, EmptySeq
    <3> QED BY <1>2, <2>4, <3>1, <3>2
  <2>6. Alternates(e)
    <3> SUFFICES ASSUME NEW i \in 1 .. (Len(d) + 1) - 1 PROVE e[i].role # e[i + 1].role
      BY <2>4 DEF Alternates
    <3>1. i \in 1 .. Len(d) /\ e[i + 1] = d[i]
      BY <1>2, <2>4
    <3>2. CASE i = 1
      BY <1>3, <2>4, <3>1, <3>2 DEF Opener
    <3>3. CASE i # 1
      <4>1. PICK j \in 1 .. Len(d) - 1 : i = j + 1
        <5>1. i - 1 \in 1 .. Len(d) - 1 /\ i = (i - 1) + 1
          BY <1>2, <3>1, <3>3
        <5> QED BY <5>1
      <4>2. d[j].role # d[j + 1].role
        BY <1>1 DEF Alternates
      <4>3. e[i] = d[j] /\ e[i + 1] = d[j + 1]
        <5>1. j \in 1 .. Len(d)
          BY <1>2, <4>1
        <5> QED BY <2>4, <3>1, <4>1, <5>1
      <4> QED BY <4>2, <4>3
    <3> QED BY <3>2, <3>3
  <2>7. ASSUME NEW y, JustBefore(d, y) PROVE JustBefore(e, y)
    <3>1. CASE Len(Last(d).parts) > 1 /\ Last(d).parts[Len(Last(d).parts) - 1] = y
      BY <2>5, <3>1, Zenon DEF JustBefore
    <3>2. CASE /\ Len(Last(d).parts) = 1 /\ Len(d) > 1
               /\ d[Len(d) - 1].parts # <<>> /\ Last(d[Len(d) - 1].parts) = y
      <4>1. PICK j \in 1 .. Len(d) : j = Len(d) - 1 /\ j + 1 = Len(e) - 1 /\ Len(e) > 1
        <5>1. Len(d) - 1 \in 1 .. Len(d) /\ (Len(d) - 1) + 1 = Len(e) - 1 /\ Len(e) > 1
          BY <1>2, <2>4, <3>2
        <5> QED BY <5>1
      <4>2. e[Len(e) - 1] = d[Len(d) - 1]
        BY <2>4, <4>1, Zenon
      <4> QED BY <2>5, <3>2, <4>1, <4>2, Zenon DEF JustBefore
    <3> QED BY <2>7, <3>1, <3>2, Zenon DEF JustBefore
  <2>8. e[1].role = "user"
    BY <2>4 DEF Opener
  <2>9. Len(e) <= Len(d) + 1
    BY <1>2, <2>4
  <2>10. Accepted(e, S, x)
    BY <1>1, <2>4, <2>5, <2>6, <2>8, Zenon DEF Accepted
  <2> QED BY <1>0, <2>1, <2>3, <2>7, <2>9, <2>10, Zenon
<1>4. CASE d[1].role # "assistant"
  <2>1. Normalize(ms) = d
    BY <1>0, <1>4, Zenon DEF Normalize
  <2>2. d[1].role = "user"
    <3>1. d[1] \in Messages(S)
      BY <1>1, <1>2, ElementOfSeq
    <3>2. d[1].role \in {"user", "assistant"}
      BY <3>1 DEF Messages, Roles
    <3> QED BY <1>4, <3>2
  <2>3. Len(d) <= Len(d) + 1
    BY <1>2
  <2>4. Accepted(d, S, x)
    BY <1>1, <2>2, Zenon DEF Accepted
  <2> QED BY <1>0, <2>1, <2>3, <2>4, Zenon
<1> QED BY <1>3, <1>4

----------------------------------------------------------------------------
(* The rows.                                                               *)

Saying == [turn : Nat, what : Whats]
\* What may be in the memory: material is never stored.
Remembered == [turn : Nat, what : Whats \ {"material"}]
Row == [user : Nat, session : Nat, turn : Nat, what : Whats \ {"material"}]

Trigger(p) == [turn |-> proc[p].turn, what |-> proc[p].what]
MayBeSaid(x) == Remembered \cup {x}

----------------------------------------------------------------------------
(* The inductive invariant, in named parts.                                *)

Place == [at : {"off", "creating", "idle", "asked", "halfway"},
          mode : CliModes \cup {"daemon", ""}, user : Nat, session : Nat, turn : Nat,
          what : {"question", "material", ""}, seen : Nat]

DialogueTyped ==
    /\ users \in Nat /\ turns \in 0 .. MaxTurns /\ starts \in 0 .. MaxStarts
    /\ torn \subseteq 1 .. turns
    /\ rows \in Seq(Row)
    /\ proc \in [Procs -> Place]
    /\ request \in [Procs -> Seq(Messages(Saying))]

\* A user is made at most once per start.
Creating(p) == IF proc[p].at = "creating" THEN 1 ELSE 0
UsersFromStarts == users + Creating("daemon") + Creating("cli") <= starts

\* What a process holds at its place.
Placed(p) ==
    /\ proc[p].at # "off" => proc[p].session \in 1 .. starts
    /\ proc[p].at \in {"idle", "asked", "halfway"} => proc[p].user \in 1 .. users
    /\ proc[p].at \in {"asked", "halfway"} =>
         proc[p].turn \in 1 .. turns /\ proc[p].what \in {"question", "material"}
    /\ proc[p].at = "halfway" => proc[p].what = "question"
    /\ proc[p].at = "asked" => proc[p].seen <= Len(rows)

\* Two processes never live in one session.
SessionsApart == \A p, q \in Procs : p # q /\ proc[p].at # "off" /\ proc[q].at # "off" =>
                   proc[p].session # proc[q].session

RowsOfUsers == \A i \in 1 .. Len(rows) : rows[i].user \in 1 .. users

\* The request under way: one the API takes, no longer than it may be, and
\* with what was stored last just before its trigger.
SayingOf(row) == [turn |-> row.turn, what |-> row.what]
InTouch(p) == users = 1 /\ proc[p].seen > 0 => JustBefore(request[p], SayingOf(rows[proc[p].seen]))
Requested(p) ==
    /\ proc[p].at # "asked" => request[p] = <<>>
    /\ proc[p].at = "asked" =>
         /\ Accepted(request[p], MayBeSaid(Trigger(p)), Trigger(p))
         /\ Len(request[p]) <= RecentTurns + 2
         /\ InTouch(p)

\* Between its two rows a turn has its question, and nothing of its session after it.
AsksAt(p, j) == /\ rows[j].what = "question" /\ rows[j].turn = proc[p].turn
                /\ \A k \in j + 1 .. Len(rows) : rows[k].session # proc[p].session
QuestionStored(p) == proc[p].at = "halfway" => \E j \in 1 .. Len(rows) : AsksAt(p, j)

DialogueInv ==
    /\ DialogueTyped /\ UsersFromStarts /\ SessionsApart /\ RowsOfUsers
    /\ \A p \in Procs : Placed(p) /\ Requested(p) /\ QuestionStored(p)
    /\ RowsPaired

----------------------------------------------------------------------------
(* recall_recent_for_user.                                                 *)

KeepsAll(it, user, n) ==
    it = [s \in SUBSET (1 .. n) |->
            IF s = {} THEN <<>>
            ELSE IF rows[Max(s)].user = user THEN Append(it[s \ {Max(s)}], rows[Max(s)])
                 ELSE it[s \ {Max(s)}]]

\* r[k] is what the selection has kept of the first k rows.
Selects(r, user) ==
    /\ r[0] = <<>> /\ r[Len(rows)] = RowsOf(user)
    /\ \A k \in 1 .. Len(rows) :
         r[k] = IF rows[k].user = user THEN Append(r[k - 1], rows[k]) ELSE r[k - 1]

LEMMA RowsOfSelects ==
    ASSUME rows \in Seq(Row), NEW user
    PROVE  \E r : Selects(r, user)
<1> DEFINE n == Len(rows)
           D == Seq(Row)
           op == [c \in D \X Row |-> IF c[2].user = user THEN Append(c[1], c[2]) ELSE c[1]]
<1>1. n \in Nat /\ DOMAIN rows = 1 .. n
  BY LenProperties
<1>2. op \in [D \X Row -> D]
  <2>1. \A c \in D \X Row : c[1] \in D /\ Append(c[1], c[2]) \in D
    BY OneMore
  <2>2. \A c \in D \X Row : (IF c[2].user = user THEN Append(c[1], c[2]) ELSE c[1]) \in D
    BY <2>1, Zenon
  <2> QED BY <2>2, Zenon
<1>3. \A a \in D, e \in Row : op[<<a, e>>] = IF e.user = user THEN Append(a, e) ELSE a
  <2> SUFFICES ASSUME NEW a \in D, NEW e \in Row
               PROVE  op[<<a, e>>] = IF e.user = user THEN Append(a, e) ELSE a
    OBVIOUS
  <2>1. <<a, e>> \in D \X Row /\ <<a, e>>[1] = a /\ <<a, e>>[2] = e
    OBVIOUS
  <2> QED BY <2>1, Zenon
<1>4. <<>> \in D
  BY EmptySeq
<1>5. PICK it : Folds(it, D, <<>>, op, rows, n)
  <2> HIDE DEF op, D
  <2> QED BY <1>2, <1>4, FoldExists
<1> HIDE DEF op
<1>6. \E f : KeepsAll(f, user, n)
  <2> DEFINE Then(f, s) == IF rows[Max(s)].user = user THEN Append(f[s \ {Max(s)}], rows[Max(s)])
                           ELSE f[s \ {Max(s)}]
  <2>1. \A s \in SUBSET (1 .. n) : it[s] = IF s = {} THEN <<>> ELSE Then(it, s)
    <3> SUFFICES ASSUME NEW s \in SUBSET (1 .. n)
                 PROVE  it[s] = IF s = {} THEN <<>> ELSE Then(it, s)
      OBVIOUS
    <3>1. it \in [SUBSET (1 .. n) -> D] /\ FoldsAt(it, s, <<>>, op, rows)
      BY <1>5 DEF Folds
    <3>2. CASE s = {}
      BY <3>1, <3>2, Zenon DEF FoldsAt
    <3>3. CASE s # {}
      <4>1. it[s \ {Max(s)}] \in D
        <5>1. s \ {Max(s)} \in SUBSET (1 .. n)
          OBVIOUS
        <5> QED BY <3>1, <5>1, Zenon
      <4>2. rows[Max(s)] \in Row
        <5>1. Max(s) \in 1 .. n
          BY <1>1, <3>3, LargestOf
        <5> QED BY <5>1, ElementOfSeq
      <4>3. op[<<it[s \ {Max(s)}], rows[Max(s)]>>] = Then(it, s)
        BY <1>3, <4>1, <4>2
      <4> QED BY <3>1, <3>3, <4>3, Zenon DEF FoldsAt
    <3> QED BY <3>2, <3>3
  <2>2. it = [s \in SUBSET (1 .. n) |-> it[s]]
    BY <1>5, Zenon DEF Folds
  <2>3. KeepsAll(it, user, n)
    BY <2>1, <2>2, Zenon DEF KeepsAll
  <2> QED BY <2>3
<1> DEFINE f == CHOOSE f : KeepsAll(f, user, n)
<1>7. KeepsAll(f, user, n)
  BY <1>6, Zenon
<1>8. RowsOf(user) = f[1 .. n]
  <2>1. RowsOf(user) =
          LET g[s \in SUBSET DOMAIN rows] ==
                IF s = {} THEN <<>>
                ELSE IF rows[Max(s)].user = user THEN Append(g[s \ {Max(s)}], rows[Max(s)])
                     ELSE g[s \ {Max(s)}]
          IN  g[DOMAIN rows]
    BY Zenon DEF RowsOf, FoldLeft, MapThenFoldSet
  <2> QED BY <1>1, <2>1, Zenon DEF KeepsAll
<1> HIDE DEF f
<1>9. \A s \in SUBSET (1 .. n) :
        f[s] = IF s = {} THEN <<>>
               ELSE IF rows[Max(s)].user = user THEN Append(f[s \ {Max(s)}], rows[Max(s)])
                    ELSE f[s \ {Max(s)}]
  BY <1>7, Zenon DEF KeepsAll
<1> DEFINE r == [k \in 0 .. n |-> f[1 .. k]]
<1>10. r[0] = <<>>
  <2>1. 0 \in 0 .. n /\ 1 .. 0 = {} /\ {} \in SUBSET (1 .. n)
    BY <1>1
  <2>2. r[0] = f[1 .. 0] /\ f[1 .. 0] = f[{}]
    BY <2>1, Zenon
  <2> QED BY <1>9, <2>1, <2>2, Zenon
<1>11. r[n] = RowsOf(user)
  <2>1. n \in 0 .. n
    BY <1>1
  <2> QED BY <1>8, <2>1, Zenon
<1>12. ASSUME NEW k \in 1 .. n
       PROVE  r[k] = IF rows[k].user = user THEN Append(r[k - 1], rows[k]) ELSE r[k - 1]
  <2>1. k \in Nat \ {0} /\ k \in 0 .. n /\ k - 1 \in 0 .. n /\ 1 .. k \in SUBSET (1 .. n)
    BY <1>1
  <2>2. Max(1 .. k) = k /\ (1 .. k) \ {k} = 1 .. k - 1 /\ 1 .. k # {}
    BY <2>1, LastOfFirst
  <2>3. f[1 .. k] = IF rows[k].user = user THEN Append(f[1 .. k - 1], rows[k]) ELSE f[1 .. k - 1]
    BY <1>9, <2>1, <2>2, Zenon
  <2> QED BY <2>1, <2>3, Zenon
<1> HIDE DEF r
<1> QED BY <1>10, <1>11, <1>12, Zenon DEF Selects

\* What is selected are rows; the last row, when it is the user's, is the
\* last one selected.
LEMMA RowsOfUser ==
    ASSUME rows \in Seq(Row), NEW user
    PROVE  /\ RowsOf(user) \in Seq(Row)
           /\ rows # <<>> /\ Last(rows).user = user =>
                RowsOf(user) # <<>> /\ Last(RowsOf(user)) = Last(rows)
<1> DEFINE n == Len(rows)
<1>1. n \in Nat /\ DOMAIN rows = 1 .. n
  BY LenProperties
<1>2. PICK r : Selects(r, user)
  BY RowsOfSelects
<1> DEFINE T == {k \in 0 .. n : r[k] \in Seq(Row)}
<1>3. 0 \in T
  <2>1. r[0] = <<>> /\ <<>> \in Seq(Row) /\ 0 \in 0 .. n
    BY <1>1, <1>2, EmptySeq DEF Selects
  <2>2. r[0] \in Seq(Row)
    BY <2>1, Zenon
  <2> QED BY <2>1, <2>2
<1>4. ASSUME NEW k \in T, k < n PROVE k + 1 \in T
  <2>1. k + 1 \in 1 .. n /\ k + 1 \in 0 .. n /\ (k + 1) - 1 = k
    BY <1>1, <1>4
  <2>2. rows[k + 1] \in Row /\ r[k] \in Seq(Row)
    BY <2>1, ElementOfSeq
  <2>3. Append(r[k], rows[k + 1]) \in Seq(Row)
    BY <2>2, OneMore
  <2>4. r[k + 1] = IF rows[k + 1].user = user THEN Append(r[k], rows[k + 1]) ELSE r[k]
    BY <1>2, <2>1, Zenon DEF Selects
  <2>5. r[k + 1] \in Seq(Row)
    BY <2>2, <2>3, <2>4, Zenon
  <2> QED BY <2>1, <2>5
<1>5. T \in SUBSET (0 .. n)
  OBVIOUS
<1>6. \A k \in 0 .. n : k \in T
  <2> HIDE DEF T
  <2> QED BY <1>1, <1>3, <1>4, <1>5, AllUpTo
<1>7. RowsOf(user) \in Seq(Row)
  <2>1. n \in 0 .. n
    BY <1>1
  <2>2. r[n] \in Seq(Row)
    BY <1>6, <2>1
  <2> QED BY <1>2, <2>2 DEF Selects
<1>8. ASSUME rows # <<>>, Last(rows).user = user
      PROVE  RowsOf(user) # <<>> /\ Last(RowsOf(user)) = Last(rows)
  <2>1. n \in 1 .. n /\ n \in Nat \ {0} /\ Last(rows) = rows[n] /\ rows[n] \in Row
    BY <1>8, LastIn
  <2>2. RowsOf(user) = Append(r[n - 1], rows[n])
    BY <1>2, <1>8, <2>1, Zenon DEF Selects
  <2>3. r[n - 1] \in Seq(Row)
    <3>1. n - 1 \in 0 .. n
      BY <2>1
    <3> QED BY <1>6, <3>1
  <2> QED BY <2>1, <2>2, <2>3, OneMore
<1> QED BY <1>7, <1>8

LEMMA NewestRows ==
    ASSUME NEW S, NEW s \in Seq(S)
    PROVE  /\ Newest(s) \in Seq(S) /\ Len(Newest(s)) <= RecentTurns
           /\ s # <<>> => Newest(s) # <<>> /\ Last(Newest(s)) = Last(s)
<1>1. Len(s) \in Nat /\ RecentTurns \in Nat \ {0}
  BY LenProperties, DialogueAssumption
<1>2. CASE Len(s) <= RecentTurns
  <2>1. Newest(s) = s
    BY <1>2, Zenon DEF Newest
  <2> QED BY <1>2, <2>1
<1>3. CASE ~(Len(s) <= RecentTurns)
  <2> DEFINE m == Len(s) - RecentTurns + 1
  <2>1. /\ m \in Nat \ {0} /\ m <= Len(s) /\ Len(s) - m + 1 = RecentTurns
        /\ m + RecentTurns - 1 = Len(s)
    BY <1>1, <1>3
  <2>2. Newest(s) = SubSeq(s, m, Len(s))
    BY <1>3, Zenon DEF Newest
  <2>3. \A i \in m .. Len(s) : s[i] \in S
    <3>1. \A i \in m .. Len(s) : i \in 1 .. Len(s)
      BY <1>1, <2>1
    <3> QED BY <3>1, ElementOfSeq
  <2>4. /\ SubSeq(s, m, Len(s)) \in Seq(S)
        /\ Len(SubSeq(s, m, Len(s))) = RecentTurns
        /\ SubSeq(s, m, Len(s))[RecentTurns] = s[Len(s)]
    <3> HIDE DEF m
    <3>1. /\ SubSeq(s, m, Len(s)) \in Seq(S)
          /\ Len(SubSeq(s, m, Len(s))) = IF m <= Len(s) THEN Len(s) - m + 1 ELSE 0
          /\ \A i \in 1 .. Len(s) - m + 1 : SubSeq(s, m, Len(s))[i] = s[m + i - 1]
      <4>1. m \in Int /\ Len(s) \in Int
        BY <1>1, <2>1
      <4> QED BY <2>3, <4>1, SubSeqProperties
    <3>2. RecentTurns \in 1 .. Len(s) - m + 1
      BY <1>1, <2>1
    <3>3. SubSeq(s, m, Len(s))[RecentTurns] = s[m + RecentTurns - 1]
      BY <3>1, <3>2
    <3> QED BY <2>1, <3>1, <3>3
  <2>5. SubSeq(s, m, Len(s)) # <<>>
    <3> HIDE DEF m
    <3> QED BY <1>1, <2>4, EmptySeq
  <2>6. Last(SubSeq(s, m, Len(s))) = Last(s)
    BY <2>4, Zenon DEF Last
  <2>7. RecentTurns <= RecentTurns
    BY <1>1
  <2> HIDE DEF m
  <2> QED BY <2>2, <2>4, <2>5, <2>6, <2>7, Zenon
<1> QED BY <1>2, <1>3

----------------------------------------------------------------------------
(* build_request, then the adapter.                                        *)

\* The saying of a turn, under a name.
IsSaying(x, t, w) == x = [turn |-> t, what |-> w]

LEMMA SaysOne ==
    ASSUME NEW S, NEW x \in S, NEW t, NEW w \in Whats, IsSaying(x, t, w),
           NEW q, q = Says(t, w)
    PROVE  /\ q \in Messages(S) /\ q.role = Role(w)
           /\ q.parts[1] = x /\ q.parts = <<q.parts[1]>>
<1>1. q = [role |-> Role(w), parts |-> <<x>>]
  BY Zenon DEF Says, IsSaying
<1>2. Role(w) \in Roles
  BY DEF Role, Roles
<1>3. <<x>> \in Seq(S) /\ <<x>>[1] = x
  OBVIOUS
<1>4. q \in Messages(S) /\ q.parts = <<x>> /\ q.role = Role(w)
  BY <1>1, <1>2, <1>3 DEF Messages
<1> QED BY <1>3, <1>4, Zenon

\* The messages of a request: the rows recalled, then the trigger.
Asked(s, t, w) == [i \in 1 .. Len(s) |-> Says(s[i].turn, s[i].what)] \o <<Says(t, w)>>

LEMMA AssembledMessages ==
    ASSUME NEW s \in Seq(Row), NEW t \in Nat, NEW w \in {"question", "material"},
           NEW x, IsSaying(x, t, w), NEW S, S = MayBeSaid(x),
           NEW ms, ms = Asked(s, t, w)
    PROVE  /\ ms \in Seq(Messages(S)) /\ Singles(ms, S) /\ ms # <<>>
           /\ Len(ms) = Len(s) + 1 /\ Last(ms) = Says(t, w)
           /\ \A i \in 1 .. Len(s) : ms[i].parts[1] = SayingOf(s[i])
<1> DEFINE n == Len(s)
           a == [i \in 1 .. n |-> Says(s[i].turn, s[i].what)]
<1>1. n \in Nat
  BY LenProperties
<1>2. /\ Says(t, w) \in Messages(S) /\ Says(t, w).parts[1] \in S
      /\ Says(t, w).parts = <<Says(t, w).parts[1]>>
  <2>1. x \in S
    BY Zenon DEF MayBeSaid
  <2>2. w \in Whats
    BY DEF Whats
  <2>3. PICK q : q = Says(t, w)
    OBVIOUS
  <2>4. q \in Messages(S) /\ q.parts[1] = x /\ q.parts = <<q.parts[1]>>
    BY <2>1, <2>2, <2>3, SaysOne
  <2> QED BY <2>1, <2>3, <2>4, Zenon
<1>3. ASSUME NEW i \in 1 .. n
      PROVE  \A q : q = Says(s[i].turn, s[i].what) =>
               /\ q \in Messages(S) /\ q.parts[1] = SayingOf(s[i]) /\ q.parts[1] \in S
               /\ q.parts = <<q.parts[1]>>
  <2>1. s[i] \in Row
    BY ElementOfSeq
  <2>2. PICK y : y = [turn |-> s[i].turn, what |-> s[i].what]
    OBVIOUS
  <2>3. s[i].what \in Whats
    BY <2>1 DEF Row
  <2>4. y \in S
    <3>1. y \in Remembered
      BY <2>1, <2>2 DEF Row, Remembered
    <3> QED BY <3>1, Zenon DEF MayBeSaid
  <2>5. ASSUME NEW q, q = Says(s[i].turn, s[i].what)
        PROVE  q \in Messages(S) /\ q.parts[1] = y /\ q.parts = <<q.parts[1]>>
    <3>1. PICK k : k = s[i].turn
      OBVIOUS
    <3>2. PICK v \in Whats : v = s[i].what
      BY <2>3
    <3>3. q = Says(k, v) /\ IsSaying(y, k, v)
      BY <2>2, <2>5, <3>1, <3>2, Zenon DEF IsSaying
    <3> QED BY <2>4, <3>3, SaysOne
  <2> QED BY <2>2, <2>4, <2>5, Zenon DEF SayingOf
<1>4. a \in Seq(Messages(S)) /\ Len(a) = n
  <2>1. a \in [1 .. n -> Messages(S)]
    BY <1>3, Zenon
  <2> QED BY <1>1, <2>1, SeqDef, LenProperties
<1>5. \A i \in 1 .. n : a[i] = Says(s[i].turn, s[i].what)
  BY Zenon
<1>6. ms = Append(a, Says(t, w))
  <2> HIDE DEF a
  <2>1. ms = a \o <<Says(t, w)>>
    BY Zenon DEF Asked, a
  <2> QED BY <1>2, <1>4, <2>1, AppendIsConcat
<1> HIDE DEF a
<1>7. /\ ms \in Seq(Messages(S)) /\ ms # <<>> /\ Len(ms) = n + 1
      /\ \A i \in 1 .. n : ms[i] = Says(s[i].turn, s[i].what)
      /\ ms[n + 1] = Says(t, w) /\ Last(ms) = Says(t, w)
  <2>1. /\ ms \in Seq(Messages(S)) /\ ms # <<>> /\ Len(ms) = n + 1
        /\ \A i \in 1 .. n : ms[i] = a[i]
        /\ ms[n + 1] = Says(t, w) /\ Last(ms) = Says(t, w)
    <3>1. PICK e \in Messages(S) : e = Says(t, w)
      BY <1>2
    <3>2. /\ Append(a, e) \in Seq(Messages(S)) /\ Append(a, e) # <<>>
          /\ Len(Append(a, e)) = Len(a) + 1
          /\ \A i \in 1 .. Len(a) : Append(a, e)[i] = a[i]
          /\ Append(a, e)[Len(a) + 1] = e /\ Last(Append(a, e)) = e
      BY <1>4, OneMore
    <3> QED BY <1>4, <1>6, <3>1, <3>2, Zenon
  <2> QED BY <1>5, <2>1
<1>8. Singles(ms, S)
  <2> SUFFICES ASSUME NEW i \in 1 .. n + 1
               PROVE  ms[i].parts[1] \in S /\ ms[i].parts = <<ms[i].parts[1]>>
    BY <1>7 DEF Singles
  <2>1. CASE i = n + 1
    BY <1>2, <1>7, <2>1, Zenon
  <2>2. CASE i # n + 1
    <3>1. i \in 1 .. n
      BY <1>1, <2>2
    <3> QED BY <1>3, <1>7, <3>1, Zenon
  <2> QED BY <2>1, <2>2
<1>9. \A i \in 1 .. n : ms[i].parts[1] = SayingOf(s[i])
  BY <1>3, <1>7, Zenon
<1> QED BY <1>7, <1>8, <1>9

\* Messages of fewer sayings are messages of more.
LEMMA MessagesWiden ==
    ASSUME NEW S, NEW R, S \subseteq R, NEW d \in Seq(Messages(S))
    PROVE  d \in Seq(Messages(R))
<1>1. ASSUME NEW A, NEW B, A \subseteq B, NEW e \in Seq(A) PROVE e \in Seq(B)
  <2>1. Len(e) \in Nat /\ e \in [1 .. Len(e) -> A]
    BY LenProperties
  <2>2. e \in [1 .. Len(e) -> B]
    BY <1>1, <2>1
  <2> QED BY <2>1, <2>2, SeqDef
<1>2. Messages(S) \subseteq Messages(R)
  <2> SUFFICES ASSUME NEW m \in Messages(S) PROVE m \in Messages(R)
    OBVIOUS
  <2>1. m = [role |-> m.role, parts |-> m.parts] /\ m.role \in Roles /\ m.parts \in Seq(S)
    BY DEF Messages
  <2>2. m.parts \in Seq(R)
    BY <1>1, <2>1
  <2> QED BY <2>1, <2>2, Zenon DEF Messages
<1> QED BY <1>1, <1>2

\* Whatever the rows are, the request is taken, short enough, and in touch
\* with the last row of the user.
LEMMA RequestBuilt ==
    ASSUME rows \in Seq(Row), NEW p, NEW t \in Nat, NEW w \in {"question", "material"},
           NEW x, IsSaying(x, t, w),
           NEW req, req = Normalize(Assembled(p, t, w))
    PROVE  /\ Accepted(req, MayBeSaid(x), x)
           /\ Len(req) <= RecentTurns + 2
           /\ rows # <<>> /\ Last(rows).user = proc[p].user =>
                JustBefore(req, SayingOf(Last(rows)))
<1>1. PICK s : s = Recall(p)
  OBVIOUS
<1>2. /\ s \in Seq(Row) /\ Len(s) <= RecentTurns
      /\ rows # <<>> /\ Last(rows).user = proc[p].user => s # <<>> /\ Last(s) = Last(rows)
  <2>1. PICK u : u = proc[p].user
    OBVIOUS
  <2>2. /\ RowsOf(u) \in Seq(Row)
        /\ rows # <<>> /\ Last(rows).user = u =>
             RowsOf(u) # <<>> /\ Last(RowsOf(u)) = Last(rows)
    BY RowsOfUser
  <2>3. /\ Newest(RowsOf(u)) \in Seq(Row) /\ Len(Newest(RowsOf(u))) <= RecentTurns
        /\ RowsOf(u) # <<>> => Newest(RowsOf(u)) # <<>> /\ Last(Newest(RowsOf(u))) = Last(RowsOf(u))
    BY <2>2, NewestRows
  <2>4. s = Newest(RowsOf(u))
    BY <1>1, <2>1, Zenon DEF Recall
  <2> QED BY <2>1, <2>2, <2>3, <2>4, Zenon
<1>3. PICK S : S = MayBeSaid(x)
  OBVIOUS
<1>4. PICK ms : ms = Assembled(p, t, w)
  OBVIOUS
<1>5. ms = Asked(s, t, w)
  BY <1>1, <1>4, Zenon DEF Assembled, Asked
<1>6. /\ ms \in Seq(Messages(S)) /\ Singles(ms, S) /\ ms # <<>>
      /\ Len(ms) = Len(s) + 1 /\ Last(ms) = Says(t, w)
      /\ \A i \in 1 .. Len(s) : ms[i].parts[1] = SayingOf(s[i])
  BY <1>2, <1>3, <1>5, AssembledMessages
<1>7. Last(ms).role = "user" /\ Last(ms).parts[1] = x
  <2>1. w \in Whats /\ Role(w) = "user"
    BY DEF Whats, Role
  <2>2. x \in S
    BY <1>3, Zenon DEF MayBeSaid
  <2>3. PICK q : q = Says(t, w)
    OBVIOUS
  <2>4. q.role = Role(w) /\ q.parts[1] = x
    BY <2>1, <2>2, <2>3, SaysOne
  <2> QED BY <1>6, <2>1, <2>3, <2>4, Zenon
<1>8. /\ Tidy(Merged(ms), S, Last(ms), x) /\ Len(Merged(ms)) <= Len(ms)
      /\ Len(ms) > 1 => JustBefore(Merged(ms), ms[Len(ms) - 1].parts[1])
  BY <1>6, <1>7, MergedTidy
<1>9. /\ Accepted(req, S, x) /\ Len(req) <= Len(Merged(ms)) + 1
      /\ \A y : JustBefore(Merged(ms), y) => JustBefore(req, y)
  BY <1>4, <1>7, <1>8, NormalizeAccepted
<1>10. Len(req) <= RecentTurns + 2
  <2>1. Len(req) \in Nat /\ Len(Merged(ms)) \in Nat /\ Len(s) \in Nat /\ RecentTurns \in Nat
    BY <1>2, <1>8, <1>9, LenProperties, DialogueAssumption DEF Accepted, Tidy
  <2>2. PICK a \in Nat, b \in Nat, c \in Nat, d \in Nat :
          a = Len(req) /\ b = Len(Merged(ms)) /\ c = Len(s) /\ d = RecentTurns
    BY <2>1
  <2>3. a <= b + 1 /\ b <= c + 1 /\ c <= d
    BY <1>2, <1>6, <1>8, <1>9, <2>2
  <2>4. a <= d + 2
    BY <2>3
  <2> QED BY <2>2, <2>4
<1>11. ASSUME rows # <<>>, Last(rows).user = proc[p].user
       PROVE  JustBefore(req, SayingOf(Last(rows)))
  <2>1. s # <<>> /\ Last(s) = Last(rows)
    BY <1>2, <1>11
  <2>2. Len(s) \in 1 .. Len(s) /\ Len(s) \in Nat \ {0} /\ Last(s) = s[Len(s)]
    BY <1>2, <2>1, LastIn
  <2>3. Len(ms) > 1 /\ Len(ms) - 1 = Len(s)
    BY <1>6, <2>2
  <2>4. ms[Len(ms) - 1].parts[1] = SayingOf(Last(rows))
    BY <1>6, <2>1, <2>2, <2>3, Zenon
  <2> QED BY <1>8, <1>9, <2>3, <2>4, Zenon
<1> QED BY <1>3, <1>9, <1>10, <1>11

----------------------------------------------------------------------------
(* What each action does to the process that takes it.                     *)

\* The other process does not move.
Others(p) == \A q \in Procs : q # p => proc'[q] = proc[q]
\* Process p is now at "at", or, when it was of a file, off.
Rests(p) ==
    \/ proc'[p] = Off
    \/ /\ proc'[p].at = "idle" /\ proc'[p].user = proc[p].user
       /\ proc'[p].session = proc[p].session
\* p stays in its turn, with nothing but its place changed.
Keeps(p) == /\ proc'[p].user = proc[p].user /\ proc'[p].session = proc[p].session
            /\ proc'[p].turn = proc[p].turn /\ proc'[p].what = proc[p].what

LEMMA OffIs == Off.at = "off"
BY DEF Off

LEMMA OffPlace == Off \in Place
BY DEF Off, Place

LEMMA SetOff ==
    ASSUME DialogueTyped, NEW p \in Procs, proc' = [proc EXCEPT ![p] = Off]
    PROVE  proc' \in [Procs -> Place] /\ Others(p) /\ proc'[p] = Off
<1>1. proc \in [Procs -> Place]
  BY DEF DialogueTyped
<1> QED BY <1>1, OffPlace, Zenon DEF Others

LEMMA SetRecord ==
    ASSUME DialogueTyped, NEW p \in Procs, NEW e \in Place, proc' = [proc EXCEPT ![p] = e]
    PROVE  proc' \in [Procs -> Place] /\ Others(p) /\ proc'[p] = e
<1>1. proc \in [Procs -> Place]
  BY DEF DialogueTyped
<1> QED BY <1>1, Zenon DEF Others

LEMMA IdlesRests ==
    ASSUME DialogueTyped, NEW p \in Procs, proc' = Idles(p)
    PROVE  proc' \in [Procs -> Place] /\ Others(p) /\ Rests(p)
<1>1. proc \in [Procs -> Place] /\ proc[p] \in Place
  BY DEF DialogueTyped
<1>2. CASE proc[p].mode = "wav"
  <2>1. proc' = [proc EXCEPT ![p] = Off]
    BY <1>2, Zenon DEF Idles
  <2> QED BY <2>1, SetOff, Zenon DEF Rests
<1>3. CASE proc[p].mode # "wav"
  <2>1. PICK d \in Place : d = proc[p]
    BY <1>1
  <2>2. PICK e : e = [d EXCEPT !.at = "idle"]
    OBVIOUS
  <2>3. e \in Place /\ e.at = "idle" /\ e.user = d.user /\ e.session = d.session
    BY <2>2 DEF Place
  <2>4. proc' = [proc EXCEPT ![p] = e]
    <3>1. proc' = [proc EXCEPT ![p].at = "idle"]
      BY <1>3, Zenon DEF Idles
    <3> QED BY <2>1, <2>2, <3>1, Zenon
  <2> QED BY <2>1, <2>3, <2>4, SetRecord, Zenon DEF Rests
<1> QED BY <1>2, <1>3

LEMMA StartEffect ==
    ASSUME DialogueTyped, NEW p \in Procs, Start(p)
    PROVE  /\ proc' \in [Procs -> Place] /\ Others(p)
           /\ proc'[p].at = (IF users = 0 THEN "creating" ELSE "idle")
           /\ proc'[p].user = (IF users = 0 THEN 0 ELSE 1)
           /\ proc'[p].session = starts + 1
<1>1. starts \in Nat /\ MaxStarts \in Nat
  BY DialogueAssumption DEF DialogueTyped
<1>2. PICK mode \in Modes(p) :
        proc' = [proc EXCEPT ![p] =
                   [Off EXCEPT !.at = IF users = 0 THEN "creating" ELSE "idle", !.mode = mode,
                               !.user = IF users = 0 THEN 0 ELSE 1, !.session = starts + 1]]
  BY Zenon DEF Start
<1>3. PICK a : a = IF users = 0 THEN "creating" ELSE "idle"
  OBVIOUS
<1>4. PICK u : u = IF users = 0 THEN 0 ELSE 1
  OBVIOUS
<1>5. a \in {"creating", "idle"} /\ u \in Nat /\ mode \in CliModes \cup {"daemon", ""} /\ starts + 1 \in Nat
  <2>1. a \in {"creating", "idle"}
    BY <1>3, Zenon
  <2>2. u \in Nat
    BY <1>4
  <2>3. mode \in CliModes \cup {"daemon", ""}
    <3>1. mode \in Modes(p)
      OBVIOUS
    <3> QED BY <3>1, Zenon DEF Modes
  <2>4. starts + 1 \in Nat
    BY <1>1
  <2> QED BY <2>1, <2>2, <2>3, <2>4
<1>6. PICK s \in Nat : s = starts + 1
  BY <1>5
<1>7. PICK e : e = [Off EXCEPT !.at = a, !.mode = mode, !.user = u, !.session = s]
  OBVIOUS
<1>8. e \in Place /\ e.at = a /\ e.user = u /\ e.session = s
  BY <1>5, <1>6, <1>7, OffPlace DEF Place, Off
<1>9. proc' = [proc EXCEPT ![p] = e]
  BY <1>2, <1>3, <1>4, <1>6, <1>7, Zenon
<1>10. proc' \in [Procs -> Place] /\ Others(p) /\ proc'[p] = e
  BY <1>8, <1>9, SetRecord
<1> QED BY <1>3, <1>4, <1>6, <1>8, <1>10, Zenon

LEMMA CreateEffect ==
    ASSUME DialogueTyped, NEW p \in Procs, CreateUser(p)
    PROVE  /\ proc' \in [Procs -> Place] /\ Others(p)
           /\ proc'[p].at = "idle" /\ proc'[p].user = users + 1
           /\ proc'[p].session = proc[p].session
<1>1. proc \in [Procs -> Place] /\ users \in Nat
  BY DEF DialogueTyped
<1>2. PICK d \in Place : d = proc[p]
  BY <1>1
<1>3. PICK u \in Nat : u = users + 1
  BY <1>1
<1>4. PICK e : e = [d EXCEPT !.at = "idle", !.user = u]
  OBVIOUS
<1>5. e \in Place /\ e.at = "idle" /\ e.user = u /\ e.session = d.session
  BY <1>4 DEF Place
<1>6. proc' = [proc EXCEPT ![p] = e]
  <2>1. proc' = [proc EXCEPT ![p].at = "idle", ![p].user = u]
    BY <1>3, Zenon DEF CreateUser
  <2> QED BY <1>1, <1>2, <1>4, <2>1
<1>7. proc' \in [Procs -> Place] /\ Others(p) /\ proc'[p] = e
  BY <1>5, <1>6, SetRecord
<1> QED BY <1>2, <1>3, <1>5, <1>7, Zenon

LEMMA AskEffect ==
    ASSUME DialogueTyped, NEW p \in Procs, Ask(p)
    PROVE  \E w \in {"question", "material"} :
             /\ proc' \in [Procs -> Place] /\ Others(p)
             /\ proc'[p].at = "asked" /\ proc'[p].user = proc[p].user
             /\ proc'[p].session = proc[p].session
             /\ proc'[p].turn = turns + 1 /\ proc'[p].what = w /\ proc'[p].seen = Len(rows)
             /\ request' = [request EXCEPT ![p] = Normalize(Assembled(p, turns + 1, w))]
<1>1. proc \in [Procs -> Place] /\ turns \in Nat /\ MaxTurns \in Nat /\ Len(rows) \in Nat
  BY LenProperties, DialogueAssumption DEF DialogueTyped
<1>2. PICK input \in Inputs(p) : \E w \in Triggers(p, input) :
        /\ request' = [request EXCEPT ![p] = Normalize(Assembled(p, turns + 1, w))]
        /\ proc' = [proc EXCEPT ![p].at = "asked", ![p].turn = turns + 1,
                                ![p].what = w, ![p].seen = Len(rows)]
  BY Zenon DEF Ask
<1>3. PICK w \in Triggers(p, input) :
        /\ request' = [request EXCEPT ![p] = Normalize(Assembled(p, turns + 1, w))]
        /\ proc' = [proc EXCEPT ![p].at = "asked", ![p].turn = turns + 1,
                                ![p].what = w, ![p].seen = Len(rows)]
  BY <1>2
<1>4. w \in {"question", "material"}
  <2>1. \A t : t \in Triggers(p, input) => t \in {"question", "material"}
    BY DEF Triggers
  <2> QED BY <1>3, <2>1, Zenon
<1>5. PICK d \in Place : d = proc[p]
  BY <1>1
<1>6. PICK t \in Nat : t = turns + 1
  BY <1>1
<1>7. PICK l \in Nat : l = Len(rows)
  BY <1>1
<1>8. PICK e : e = [d EXCEPT !.at = "asked", !.turn = t, !.what = w, !.seen = l]
  OBVIOUS
<1>9. /\ e \in Place /\ e.at = "asked" /\ e.user = d.user /\ e.session = d.session
      /\ e.turn = t /\ e.what = w /\ e.seen = l
  BY <1>4, <1>8 DEF Place
<1>10. proc' = [proc EXCEPT ![p] = e]
  <2>1. proc' = [proc EXCEPT ![p].at = "asked", ![p].turn = t, ![p].what = w, ![p].seen = l]
    BY <1>3, <1>6, <1>7, Zenon
  <2> QED BY <1>1, <1>5, <1>8, <2>1
<1>11. proc' \in [Procs -> Place] /\ Others(p) /\ proc'[p] = e
  BY <1>9, <1>10, SetRecord
<1> QED BY <1>3, <1>4, <1>5, <1>6, <1>7, <1>9, <1>11, Zenon

LEMMA QuestionEffect ==
    ASSUME DialogueTyped, NEW p \in Procs, RememberQuestion(p)
    PROVE  proc' \in [Procs -> Place] /\ Others(p) /\ proc'[p].at = "halfway" /\ Keeps(p)
<1>1. proc \in [Procs -> Place]
  BY DEF DialogueTyped
<1>2. PICK d \in Place : d = proc[p]
  BY <1>1
<1>3. PICK e : e = [d EXCEPT !.at = "halfway"]
  OBVIOUS
<1>4. /\ e \in Place /\ e.at = "halfway" /\ e.user = d.user /\ e.session = d.session
      /\ e.turn = d.turn /\ e.what = d.what
  BY <1>3 DEF Place
<1>5. proc' = [proc EXCEPT ![p] = e]
  BY <1>2, <1>3, Zenon DEF RememberQuestion
<1>6. proc' \in [Procs -> Place] /\ Others(p) /\ proc'[p] = e
  BY <1>4, <1>5, SetRecord
<1> QED BY <1>2, <1>4, <1>6, Zenon DEF Keeps

\* A request under way is the only thing that changes of request.
LEMMA RequestForgotten ==
    ASSUME DialogueTyped, NEW p \in Procs, request' = Forgotten(p)
    PROVE  /\ request' \in [Procs -> Seq(Messages(Saying))] /\ request'[p] = <<>>
           /\ \A q \in Procs : q # p => request'[q] = request[q]
<1>1. request \in [Procs -> Seq(Messages(Saying))]
  BY DEF DialogueTyped
<1>2. PICK e \in Seq(Messages(Saying)) : e = <<>>
  BY EmptySeq
<1>3. request' = [request EXCEPT ![p] = e]
  BY <1>2, Zenon DEF Forgotten
<1> QED BY <1>1, <1>2, <1>3, Zenon

\* A row of the turn under way is stored.
LEMMA RowStored ==
    ASSUME DialogueTyped, NEW p \in Procs, NEW w \in Whats \ {"material"}, rows' = Stored(p, w)
    PROVE  \E row \in Row :
             /\ row = [user |-> proc[p].user, session |-> proc[p].session,
                       turn |-> proc[p].turn, what |-> w]
             /\ rows' = Append(rows, row) /\ rows' \in Seq(Row) /\ Len(rows') = Len(rows) + 1
             /\ \A i \in 1 .. Len(rows) : rows'[i] = rows[i]
             /\ rows'[Len(rows) + 1] = row
<1>1. rows \in Seq(Row) /\ proc[p] \in Place
  BY DEF DialogueTyped
<1>2. PICK row : row = [user |-> proc[p].user, session |-> proc[p].session,
                        turn |-> proc[p].turn, what |-> w]
  OBVIOUS
<1>3. row \in Row
  BY <1>1, <1>2 DEF Place, Row
<1>4. rows' = Append(rows, row)
  BY <1>2, Zenon DEF Stored
<1> QED BY <1>1, <1>2, <1>3, <1>4, OneMore

----------------------------------------------------------------------------
(* What an action leaves alone stays as it was.                            *)

\* The counters never fall, and what was stored stays stored.
Grows ==
    /\ users <= users' /\ turns <= turns' /\ starts <= starts'
    /\ Len(rows) <= Len(rows') /\ \A i \in 1 .. Len(rows) : rows'[i] = rows[i]

\* At most one row is new, and it is of another session than that of q.
NotBetween(q) ==
    proc[q].at = "halfway" =>
      \A i \in 1 .. Len(rows') : i \notin 1 .. Len(rows) => rows'[i].session # proc[q].session

LEMMA Lengths ==
    ASSUME DialogueTyped, DialogueTyped'
    PROVE  /\ users \in Nat /\ turns \in Nat /\ starts \in Nat /\ Len(rows) \in Nat
           /\ users' \in Nat /\ turns' \in Nat /\ starts' \in Nat /\ Len(rows') \in Nat
<1>1. users \in Nat /\ turns \in Nat /\ starts \in Nat /\ Len(rows) \in Nat
  BY LenProperties, DialogueAssumption DEF DialogueTyped
<1>2. rows' \in Seq(Row) /\ users' \in Nat /\ turns' \in Nat /\ starts' \in Nat
  BY DialogueAssumption DEF DialogueTyped
<1>3. Len(rows') \in Nat
  BY <1>2, LenProperties
<1> QED BY <1>1, <1>2, <1>3

LEMMA PlacedStays ==
    ASSUME DialogueTyped, DialogueTyped', Grows, NEW q \in Procs, Placed(q), proc'[q] = proc[q]
    PROVE  Placed(q)'
<1>1. /\ users \in Nat /\ turns \in Nat /\ starts \in Nat /\ Len(rows) \in Nat
      /\ users' \in Nat /\ turns' \in Nat /\ starts' \in Nat /\ Len(rows') \in Nat
  BY Lengths
<1>2. PICK d \in Place : d = proc[q]
  BY DEF DialogueTyped
<1>3. d.seen \in Nat
  BY DEF Place
<1>4. d.at # "off" => d.session \in 1 .. starts'
  BY <1>1, <1>2 DEF Placed, Grows
<1>5. d.at \in {"idle", "asked", "halfway"} => d.user \in 1 .. users'
  BY <1>1, <1>2 DEF Placed, Grows
<1>6. d.at \in {"asked", "halfway"} => d.turn \in 1 .. turns' /\ d.what \in {"question", "material"}
  BY <1>1, <1>2 DEF Placed, Grows
<1>7. d.at = "halfway" => d.what = "question"
  BY <1>2, Zenon DEF Placed
<1>8. d.at = "asked" => d.seen <= Len(rows')
  BY <1>1, <1>2, <1>3 DEF Placed, Grows
<1> QED BY <1>2, <1>4, <1>5, <1>6, <1>7, <1>8, Zenon DEF Placed

LEMMA RequestedStays ==
    ASSUME DialogueTyped, DialogueTyped', Grows, NEW q \in Procs, Placed(q), Requested(q),
           proc'[q] = proc[q], request'[q] = request[q]
    PROVE  Requested(q)'
<1>1. /\ users \in Nat /\ Len(rows) \in Nat /\ users' \in Nat /\ Len(rows') \in Nat
  BY Lengths
<1>2. CASE proc[q].at # "asked"
  BY <1>2, Zenon DEF Requested
<1>3. CASE proc[q].at = "asked"
  <2>1. /\ Accepted(request[q], MayBeSaid(Trigger(q)), Trigger(q))
        /\ Len(request[q]) <= RecentTurns + 2
    BY <1>3 DEF Requested
  <2>2. Trigger(q)' = Trigger(q)
    BY Zenon DEF Trigger
  <2>3. Accepted(request[q], MayBeSaid(Trigger(q)), Trigger(q))'
    BY <2>1, <2>2, Zenon DEF MayBeSaid
  <2>4. InTouch(q)'
    <3> SUFFICES ASSUME users' = 1, proc'[q].seen > 0
                 PROVE  JustBefore(request'[q], SayingOf(rows'[proc'[q].seen]))
      BY DEF InTouch
    <3>1. proc[q].seen \in Nat /\ proc[q].user \in 1 .. users /\ proc[q].seen <= Len(rows)
      <4>1. proc[q].user \in 1 .. users /\ proc[q].seen <= Len(rows)
        BY <1>3, Zenon DEF Placed
      <4>2. proc[q] \in Place
        BY DEF DialogueTyped
      <4>3. proc[q].seen \in Nat
        BY <4>2 DEF Place
      <4> QED BY <4>1, <4>3
    <3>2. users = 1
      BY <1>1, <3>1 DEF Grows
    <3>3. proc[q].seen > 0 /\ proc[q].seen \in 1 .. Len(rows)
      BY <1>1, <3>1
    <3>4. rows'[proc[q].seen] = rows[proc[q].seen]
      BY <3>3 DEF Grows
    <3>5. JustBefore(request[q], SayingOf(rows[proc[q].seen]))
      BY <1>3, <3>2, <3>3 DEF Requested, InTouch
    <3> QED BY <3>4, <3>5, Zenon
  <2> QED BY <1>3, <2>1, <2>3, <2>4, Zenon DEF Requested
<1> QED BY <1>2, <1>3

LEMMA QuestionStays ==
    ASSUME DialogueTyped, DialogueTyped', Grows, NEW q \in Procs, QuestionStored(q),
           proc'[q] = proc[q], NotBetween(q)
    PROVE  QuestionStored(q)'
<1>1. Len(rows) \in Nat /\ Len(rows') \in Nat
  BY Lengths
<1> SUFFICES ASSUME proc[q].at = "halfway" PROVE \E j \in 1 .. Len(rows') : AsksAt(q, j)'
  BY Zenon DEF QuestionStored
<1>2. PICK j \in 1 .. Len(rows) : AsksAt(q, j)
  BY DEF QuestionStored
<1>3. j \in 1 .. Len(rows')
  BY <1>1 DEF Grows
<1>4. rows'[j].what = "question" /\ rows'[j].turn = proc'[q].turn
  BY <1>2 DEF AsksAt, Grows
<1>5. ASSUME NEW k \in j + 1 .. Len(rows') PROVE rows'[k].session # proc'[q].session
  <2>1. CASE k \in 1 .. Len(rows)
    <3>1. k \in j + 1 .. Len(rows)
      BY <1>1, <2>1
    <3> QED BY <1>2, <2>1, <3>1 DEF AsksAt, Grows
  <2>2. CASE k \notin 1 .. Len(rows)
    <3>1. k \in 1 .. Len(rows')
      BY <1>1
    <3> QED BY <2>2, <3>1 DEF NotBetween
  <2> QED BY <2>1, <2>2
<1>6. AsksAt(q, j)'
  BY <1>4, <1>5, Zenon DEF AsksAt
<1> QED BY <1>3, <1>6

\* No other process has the session of p.
LEMMA AnotherSession ==
    ASSUME SessionsApart, NEW p \in Procs, NEW q \in Procs, p # q, proc[p].at # "off",
           proc[q].at # "off"
    PROVE  proc[p].session # proc[q].session
BY DEF SessionsApart

LEMMA RowsStayOfUsers ==
    ASSUME DialogueTyped, DialogueTyped', RowsOfUsers, Grows, rows' = rows
    PROVE  RowsOfUsers'
<1>1. users \in Nat /\ users' \in Nat /\ users <= users'
  BY Lengths DEF Grows
<1> SUFFICES ASSUME NEW i \in 1 .. Len(rows) PROVE rows[i].user \in 1 .. users'
  BY DEF RowsOfUsers
<1>2. rows[i].user \in 1 .. users
  BY DEF RowsOfUsers
<1> QED BY <1>1, <1>2

----------------------------------------------------------------------------
(* The rows of a turn stay paired.                                         *)

\* Row i is an answer with its question before it.
HasQuestion(i) ==
    \E j \in 1 .. i - 1 :
      /\ rows[j].what = "question" /\ rows[j].turn = rows[i].turn
      /\ \A k \in j + 1 .. i - 1 : rows[k].session # rows[i].session
\* Row i is a question that was answered, torn, or is being stored.
Answered(i) == \E j \in 1 .. Len(rows) : rows[j].what = "answer" /\ rows[j].turn = rows[i].turn
UnderWay(i) == \E p \in Procs : proc[p].at = "halfway" /\ proc[p].turn = rows[i].turn
Settled(i) == Answered(i) \/ rows[i].turn \in torn \/ UnderWay(i)

Pairs == \A i \in 1 .. Len(rows) : /\ rows[i].what = "answer" => HasQuestion(i)
                                   /\ rows[i].what = "question" => Settled(i)

LEMMA PairsIs == RowsPaired <=> Pairs
BY Zenon DEF RowsPaired, Pairs, HasQuestion, Settled, Answered, UnderWay

\* What is said of an old row stays true, when its turn does not end here.
LEMMA OldRowsStay ==
    ASSUME DialogueTyped, DialogueTyped', Grows, Pairs, torn \subseteq torn',
           NEW p \in Procs, Others(p),
           NEW i \in 1 .. Len(rows),
           proc[p].at = "halfway" /\ proc[p].turn = rows[i].turn =>
             \/ proc'[p].at = "halfway" /\ proc'[p].turn = proc[p].turn
             \/ proc[p].turn \in torn'
             \/ \E j \in 1 .. Len(rows') : rows'[j].what = "answer" /\ rows'[j].turn = proc[p].turn
    PROVE  /\ rows'[i].what = "answer" => HasQuestion(i)'
           /\ rows'[i].what = "question" => Settled(i)'
<1>1. Len(rows) \in Nat /\ Len(rows') \in Nat /\ Len(rows) <= Len(rows')
  BY Lengths DEF Grows
<1>2. rows'[i] = rows[i]
  BY DEF Grows
<1>3. ASSUME rows[i].what = "answer" PROVE HasQuestion(i)'
  <2>1. PICK j \in 1 .. i - 1 :
          /\ rows[j].what = "question" /\ rows[j].turn = rows[i].turn
          /\ \A k \in j + 1 .. i - 1 : rows[k].session # rows[i].session
    BY <1>3 DEF Pairs, HasQuestion
  <2>2. \A k \in 1 .. i - 1 : rows'[k] = rows[k]
    <3>1. \A k \in 1 .. i - 1 : k \in 1 .. Len(rows)
      BY <1>1
    <3> QED BY <3>1 DEF Grows
  <2>3. \A k \in j + 1 .. i - 1 : k \in 1 .. i - 1
    BY <1>1
  <2>4. /\ rows'[j].what = "question" /\ rows'[j].turn = rows'[i].turn
        /\ \A k \in j + 1 .. i - 1 : rows'[k].session # rows'[i].session
    BY <1>2, <2>1, <2>2, <2>3
  <2> QED BY <2>4, Zenon DEF HasQuestion
<1>4. ASSUME rows[i].what = "question" PROVE Settled(i)'
  <2>1. Settled(i)
    BY <1>4 DEF Pairs
  <2>2. CASE Answered(i)
    <3>1. PICK j \in 1 .. Len(rows) : rows[j].what = "answer" /\ rows[j].turn = rows[i].turn
      BY <2>2 DEF Answered
    <3>2. j \in 1 .. Len(rows') /\ rows'[j] = rows[j]
      BY <1>1 DEF Grows
    <3>3. Answered(i)'
      BY <1>2, <3>1, <3>2, Zenon DEF Answered
    <3> QED BY <3>3, Zenon DEF Settled
  <2>3. CASE rows[i].turn \in torn
    <3>1. rows'[i].turn \in torn'
      BY <1>2, <2>3
    <3> QED BY <3>1, Zenon DEF Settled
  <2>4. CASE UnderWay(i)
    <3>1. PICK q \in Procs : proc[q].at = "halfway" /\ proc[q].turn = rows[i].turn
      BY <2>4 DEF UnderWay
    <3>2. CASE q # p
      <4>1. proc'[q] = proc[q]
        BY <3>2 DEF Others
      <4>2. UnderWay(i)'
        BY <1>2, <3>1, <4>1, Zenon DEF UnderWay
      <4> QED BY <4>2, Zenon DEF Settled
    <3>3. CASE q = p
      <4>1. CASE proc'[p].at = "halfway" /\ proc'[p].turn = proc[p].turn
        <5>1. UnderWay(i)'
          BY <1>2, <3>1, <3>3, <4>1, Zenon DEF UnderWay
        <5> QED BY <5>1, Zenon DEF Settled
      <4>2. CASE proc[p].turn \in torn'
        <5>1. rows'[i].turn \in torn'
          BY <1>2, <3>1, <3>3, <4>2
        <5> QED BY <5>1, Zenon DEF Settled
      <4>3. CASE \E j \in 1 .. Len(rows') : rows'[j].what = "answer" /\ rows'[j].turn = proc[p].turn
        <5>1. Answered(i)'
          BY <1>2, <3>1, <3>3, <4>3, Zenon DEF Answered
        <5> QED BY <5>1, Zenon DEF Settled
      <4> QED BY <3>1, <3>3, <4>1, <4>2, <4>3, Zenon
    <3> QED BY <3>2, <3>3
  <2> QED BY <2>1, <2>2, <2>3, <2>4, Zenon DEF Settled
<1> QED BY <1>2, <1>3, <1>4, Zenon

\* No row is new: what the turn of p leaves behind is torn.
LEMMA PairedWithoutRow ==
    ASSUME DialogueTyped, DialogueTyped', Grows, RowsPaired, torn \subseteq torn', rows' = rows,
           NEW p \in Procs, Others(p), proc[p].at = "halfway" => proc[p].turn \in torn'
    PROVE  RowsPaired'
<1>1. Pairs
  BY PairsIs
<1>2. ASSUME NEW i \in 1 .. Len(rows)
      PROVE  /\ rows'[i].what = "answer" => HasQuestion(i)'
             /\ rows'[i].what = "question" => Settled(i)'
  BY <1>1, OldRowsStay
<1>3. Pairs'
  BY <1>2, Zenon DEF Pairs
<1> QED BY <1>3, Zenon DEF RowsPaired, Pairs, HasQuestion, Settled, Answered, UnderWay

----------------------------------------------------------------------------
(* Every action keeps the invariant.                                       *)

\* For the other process nothing changes; what remains is about p, the
\* users and the rows.
LEMMA InvFromParts ==
    ASSUME DialogueInv, DialogueTyped', Grows, NEW p \in Procs, Others(p),
           \A q \in Procs : q # p => request'[q] = request[q] /\ NotBetween(q),
           UsersFromStarts', SessionsApart', RowsOfUsers', RowsPaired',
           Placed(p)', Requested(p)', QuestionStored(p)'
    PROVE  DialogueInv'
<1>1. ASSUME NEW q \in Procs PROVE Placed(q)' /\ Requested(q)' /\ QuestionStored(q)'
  <2>1. CASE q = p
    <3>1. Placed(p)' /\ Requested(p)' /\ QuestionStored(p)'
      OBVIOUS
    <3>2. /\ Placed(p)' => Placed(q)'
          /\ Requested(p)' => Requested(q)'
          /\ QuestionStored(p)' => QuestionStored(q)'
      BY <2>1, Zenon DEF Placed, Requested, QuestionStored, AsksAt, Trigger, InTouch
    <3> QED BY <3>1, <3>2
  <2>2. CASE q # p
    <3>1. DialogueTyped /\ Placed(q) /\ Requested(q) /\ QuestionStored(q)
      BY DEF DialogueInv
    <3>2. proc'[q] = proc[q] /\ request'[q] = request[q] /\ NotBetween(q)
      BY <2>2 DEF Others
    <3>3. Placed(q)'
      BY <3>1, <3>2, PlacedStays
    <3>4. Requested(q)'
      BY <3>1, <3>2, RequestedStays
    <3>5. QuestionStored(q)'
      BY <3>1, <3>2, QuestionStays
    <3> QED BY <3>3, <3>4, <3>5
  <2> QED BY <2>1, <2>2
<1> QED BY <1>1, Zenon DEF DialogueInv

\* p is off, keeps its session, or has the newest one.
LEMMA SessionsStayApart ==
    ASSUME DialogueInv, NEW p \in Procs, Others(p),
           \/ proc'[p].at = "off"
           \/ proc[p].at # "off" /\ proc'[p].session = proc[p].session
           \/ proc'[p].session = starts + 1
    PROVE  SessionsApart'
<1>0. starts \in Nat
  BY DEF DialogueInv, DialogueTyped
<1>1. ASSUME NEW q \in Procs, q # p, proc'[p].at # "off", proc'[q].at # "off"
      PROVE  proc'[p].session # proc'[q].session
  <2>1. proc'[q] = proc[q] /\ proc[q].at # "off"
    BY <1>1 DEF Others
  <2>2. CASE proc[p].at # "off" /\ proc'[p].session = proc[p].session
    <3>1. SessionsApart
      BY DEF DialogueInv
    <3> QED BY <1>1, <2>1, <2>2, <3>1, AnotherSession
  <2>3. CASE proc'[p].session = starts + 1
    <3>1. proc[q].session \in 1 .. starts
      BY <2>1 DEF DialogueInv, Placed
    <3> QED BY <1>0, <2>1, <2>3, <3>1
  <2> QED BY <1>1, <2>2, <2>3
<1>2. ASSUME NEW a \in Procs, NEW b \in Procs, a # b, proc'[a].at # "off", proc'[b].at # "off"
      PROVE  proc'[a].session # proc'[b].session
  <2>1. a = p \/ b = p
    BY <1>2 DEF Procs
  <2>2. CASE a = p
    BY <1>1, <1>2, <2>2
  <2>3. CASE b = p
    BY <1>1, <1>2, <2>3
  <2> QED BY <2>1, <2>2, <2>3
<1> QED BY <1>2, Zenon DEF SessionsApart

LEMMA CreatingIs ==
    ASSUME NEW p
    PROVE  /\ Creating(p) \in {0, 1} /\ Creating(p)' \in {0, 1}
           /\ proc[p].at = "creating" => Creating(p) = 1
           /\ proc[p].at # "creating" => Creating(p) = 0
           /\ proc'[p].at # "creating" => Creating(p)' = 0
BY Zenon DEF Creating

LEMMA UsersStayBounded ==
    ASSUME DialogueInv, DialogueTyped', NEW p \in Procs, Others(p),
           users' + Creating(p)' + starts <= users + Creating(p) + starts'
    PROVE  UsersFromStarts'
<1>1. /\ users \in Nat /\ starts \in Nat /\ users' \in Nat /\ starts' \in Nat
  BY Lengths DEF DialogueInv
<1>2. PICK q \in Procs : q # p /\ ((p = "daemon" /\ q = "cli") \/ (p = "cli" /\ q = "daemon"))
  BY DEF Procs
<1>3. Creating(q)' = Creating(q)
  BY <1>2, Zenon DEF Creating, Others
<1>4. /\ Creating(p) \in Nat /\ Creating(p)' \in Nat /\ Creating(q) \in Nat
  BY CreatingIs
<1>5. users + Creating(p) + Creating(q) <= starts
  <2>1. CASE p = "daemon" /\ q = "cli"
    BY <2>1 DEF DialogueInv, UsersFromStarts
  <2>2. CASE p = "cli" /\ q = "daemon"
    <3>1. users + Creating("daemon") + Creating("cli") <= starts
      BY DEF DialogueInv, UsersFromStarts
    <3>2. Creating("daemon") = Creating(q) /\ Creating("cli") = Creating(p)
      BY <2>2
    <3> QED BY <1>1, <1>4, <3>1, <3>2
  <2> QED BY <1>2, <2>1, <2>2
<1>6. users' + Creating(p)' + Creating(q)' <= starts'
  <2>1. PICK a \in Nat, b \in Nat, c \in Nat, d \in Nat, e \in Nat, f \in Nat, g \in Nat :
          /\ a = users /\ b = starts /\ c = Creating(p) /\ d = Creating(p)' /\ e = Creating(q)
          /\ f = users' /\ g = starts'
    BY <1>1, <1>4
  <2>2. f + d + b <= a + c + g /\ a + c + e <= b
    BY <1>5, <2>1
  <2>3. f + d + e <= g
    BY <2>2
  <2> QED BY <1>3, <2>1, <2>3
<1>7. CASE p = "daemon" /\ q = "cli"
  <2>1. (users + Creating("daemon") + Creating("cli") <= starts)'
    BY <1>6, <1>7
  <2> QED BY <2>1, Zenon DEF UsersFromStarts
<1>8. CASE p = "cli" /\ q = "daemon"
  <2>1. users' + Creating("daemon")' + Creating("cli")' <= starts'
    <3>1. Creating("daemon")' = Creating(q)' /\ Creating("cli")' = Creating(p)'
      BY <1>8, Zenon DEF Creating
    <3>2. Creating(q)' \in Nat
      BY <1>3, <1>4
    <3> QED BY <1>1, <1>4, <1>6, <3>1, <3>2
  <2> QED BY <2>1, Zenon DEF UsersFromStarts
<1> QED BY <1>2, <1>7, <1>8

\* A process that has left or ended its turn owes nothing.
LEMMA OffHolds ==
    ASSUME NEW p \in Procs, proc'[p] = Off, request'[p] = <<>>
    PROVE  Placed(p)' /\ Requested(p)' /\ QuestionStored(p)' /\ Creating(p)' = 0
<1>1. proc'[p].at = "off"
  BY OffIs, Zenon
<1>2. Placed(p)'
  BY <1>1 DEF Placed
<1>3. Requested(p)' /\ QuestionStored(p)'
  BY <1>1 DEF Requested, QuestionStored
<1> QED BY <1>1, <1>2, <1>3, CreatingIs

LEMMA RestHolds ==
    ASSUME DialogueInv, DialogueTyped', Grows, NEW p \in Procs, Rests(p), request'[p] = <<>>,
           proc[p].at \in {"asked", "halfway"}
    PROVE  Placed(p)' /\ Requested(p)' /\ QuestionStored(p)' /\ Creating(p)' = 0
<1>1. CASE proc'[p] = Off
  BY <1>1, OffHolds
<1>2. CASE /\ proc'[p].at = "idle" /\ proc'[p].user = proc[p].user
           /\ proc'[p].session = proc[p].session
  <2>1. proc[p].session \in 1 .. starts /\ proc[p].user \in 1 .. users
    BY DEF DialogueInv, Placed
  <2>2. users \in Nat /\ starts \in Nat /\ users' \in Nat /\ starts' \in Nat
    BY Lengths DEF DialogueInv
  <2>3. proc'[p].session \in 1 .. starts' /\ proc'[p].user \in 1 .. users'
    BY <1>2, <2>1, <2>2 DEF Grows
  <2>4. Placed(p)'
    BY <1>2, <2>3 DEF Placed
  <2>5. Requested(p)' /\ QuestionStored(p)'
    BY <1>2 DEF Requested, QuestionStored
  <2> QED BY <1>2, <2>4, <2>5, CreatingIs
<1> QED BY <1>1, <1>2 DEF Rests

LEMMA NothingStored ==
    ASSUME DialogueTyped, rows' = rows, users' = users, turns' \in Nat, turns <= turns',
           starts' \in Nat, starts <= starts'
    PROVE  Grows /\ \A q : NotBetween(q)
<1>1. users \in Nat /\ Len(rows) \in Nat
  BY LenProperties DEF DialogueTyped
<1> QED BY <1>1 DEF Grows, NotBetween

LEMMA InvStart ==
    ASSUME DialogueInv, NEW p \in Procs, Start(p)
    PROVE  DialogueInv'
<1>0. DialogueTyped
  BY DEF DialogueInv
<1>1. /\ proc' \in [Procs -> Place] /\ Others(p)
      /\ proc'[p].at = (IF users = 0 THEN "creating" ELSE "idle")
      /\ proc'[p].user = (IF users = 0 THEN 0 ELSE 1)
      /\ proc'[p].session = starts + 1
  BY <1>0, StartEffect
<1>2. /\ users' = users /\ rows' = rows /\ request' = request /\ turns' = turns /\ torn' = torn
      /\ starts' = starts + 1 /\ starts < MaxStarts /\ proc[p].at = "off"
  BY DEF Start
<1>3. users \in Nat /\ starts \in Nat /\ turns \in Nat /\ MaxStarts \in Nat /\ starts + 1 \in 0 .. MaxStarts
  BY <1>0, <1>2, DialogueAssumption DEF DialogueTyped
<1>4. DialogueTyped'
  BY <1>0, <1>1, <1>2, <1>3 DEF DialogueTyped
<1>5. Grows /\ \A q : NotBetween(q)
  BY <1>0, <1>2, <1>3, NothingStored
<1>6. UsersFromStarts'
  <2>1. Creating(p) = 0 /\ Creating(p)' \in {0, 1}
    BY <1>2, CreatingIs
  <2>2. users' + Creating(p)' + starts <= users + Creating(p) + starts'
    BY <1>2, <1>3, <2>1
  <2> QED BY <1>1, <1>4, <2>2, UsersStayBounded
<1>7. SessionsApart'
  BY <1>1, SessionsStayApart
<1>8. RowsOfUsers'
  BY <1>0, <1>2, <1>4, <1>5, RowsStayOfUsers DEF DialogueInv
<1>9. RowsPaired'
  <2>1. RowsPaired /\ torn \subseteq torn' /\ (proc[p].at = "halfway" => proc[p].turn \in torn')
    BY <1>2 DEF DialogueInv
  <2> QED BY <1>0, <1>1, <1>2, <1>4, <1>5, <2>1, PairedWithoutRow
<1>10. Placed(p)'
  <2>1. proc'[p].at \in {"creating", "idle"} /\ (proc'[p].at = "idle" => users # 0 /\ proc'[p].user = 1)
    BY <1>1, Zenon
  <2>2. proc'[p].at = "idle" => proc'[p].user \in 1 .. users'
    BY <1>2, <1>3, <2>1
  <2>3. proc'[p].session \in 1 .. starts'
    BY <1>1, <1>2, <1>3
  <2> QED BY <2>1, <2>2, <2>3 DEF Placed
<1>11. Requested(p)' /\ QuestionStored(p)'
  <2>1. proc'[p].at \in {"creating", "idle"}
    BY <1>1, Zenon
  <2>2. request'[p] = <<>>
    <3>1. request[p] = <<>>
      BY <1>2 DEF DialogueInv, Requested
    <3> QED BY <1>2, <3>1
  <2> QED BY <2>1, <2>2 DEF Requested, QuestionStored
<1> QED BY <1>1, <1>2, <1>4, <1>5, <1>6, <1>7, <1>8, <1>9, <1>10, <1>11, InvFromParts

LEMMA InvCreateUser ==
    ASSUME DialogueInv, NEW p \in Procs, CreateUser(p)
    PROVE  DialogueInv'
<1>0. DialogueTyped
  BY DEF DialogueInv
<1>1. /\ proc' \in [Procs -> Place] /\ Others(p)
      /\ proc'[p].at = "idle" /\ proc'[p].user = users + 1
      /\ proc'[p].session = proc[p].session
  BY <1>0, CreateEffect
<1>2. /\ users' = users + 1 /\ rows' = rows /\ request' = request /\ turns' = turns
      /\ torn' = torn /\ starts' = starts /\ proc[p].at = "creating"
  BY DEF CreateUser
<1>3. users \in Nat /\ starts \in Nat /\ turns \in Nat /\ Len(rows) \in Nat
  BY <1>0, LenProperties DEF DialogueTyped
<1>4. DialogueTyped'
  BY <1>0, <1>1, <1>2, <1>3 DEF DialogueTyped
<1>5. Grows /\ \A q : NotBetween(q)
  BY <1>2, <1>3 DEF Grows, NotBetween
<1>6. UsersFromStarts'
  <2>1. Creating(p) = 1 /\ Creating(p)' = 0
    BY <1>1, <1>2, CreatingIs
  <2>2. users' + Creating(p)' + starts <= users + Creating(p) + starts'
    BY <1>2, <1>3, <2>1
  <2> QED BY <1>1, <1>4, <2>2, UsersStayBounded
<1>7. SessionsApart'
  BY <1>1, <1>2, SessionsStayApart
<1>8. RowsOfUsers'
  BY <1>0, <1>2, <1>4, <1>5, RowsStayOfUsers DEF DialogueInv
<1>9. RowsPaired'
  <2>1. RowsPaired /\ torn \subseteq torn' /\ (proc[p].at = "halfway" => proc[p].turn \in torn')
    BY <1>2 DEF DialogueInv
  <2> QED BY <1>0, <1>1, <1>2, <1>4, <1>5, <2>1, PairedWithoutRow
<1>10. Placed(p)'
  <2>1. proc[p].session \in 1 .. starts
    BY <1>2 DEF DialogueInv, Placed
  <2>2. proc'[p].session \in 1 .. starts' /\ proc'[p].user \in 1 .. users'
    BY <1>1, <1>2, <1>3, <2>1
  <2> QED BY <1>1, <2>2 DEF Placed
<1>11. Requested(p)' /\ QuestionStored(p)'
  <2>1. request'[p] = <<>>
    <3>1. request[p] = <<>>
      BY <1>2 DEF DialogueInv, Requested
    <3> QED BY <1>2, <3>1
  <2> QED BY <1>1, <2>1 DEF Requested, QuestionStored
<1> QED BY <1>1, <1>2, <1>4, <1>5, <1>6, <1>7, <1>8, <1>9, <1>10, <1>11, InvFromParts

LEMMA InvAsk ==
    ASSUME DialogueInv, NEW p \in Procs, Ask(p)
    PROVE  DialogueInv'
<1>0. DialogueTyped
  BY DEF DialogueInv
<1>1. PICK w \in {"question", "material"} :
        /\ proc' \in [Procs -> Place] /\ Others(p)
        /\ proc'[p].at = "asked" /\ proc'[p].user = proc[p].user
        /\ proc'[p].session = proc[p].session
        /\ proc'[p].turn = turns + 1 /\ proc'[p].what = w /\ proc'[p].seen = Len(rows)
        /\ request' = [request EXCEPT ![p] = Normalize(Assembled(p, turns + 1, w))]
  BY <1>0, AskEffect
<1>2. /\ users' = users /\ rows' = rows /\ turns' = turns + 1
      /\ torn' = torn /\ starts' = starts /\ proc[p].at = "idle" /\ turns < MaxTurns
  BY DEF Ask
<1>3. /\ users \in Nat /\ starts \in Nat /\ turns \in Nat /\ Len(rows) \in Nat
      /\ MaxTurns \in Nat /\ turns + 1 \in Nat /\ turns + 1 \in 0 .. MaxTurns
  BY <1>0, <1>2, LenProperties, DialogueAssumption DEF DialogueTyped
<1>4. PICK x : x = [turn |-> turns + 1, what |-> w]
  OBVIOUS
<1>5. PICK req : req = Normalize(Assembled(p, turns + 1, w))
  OBVIOUS
<1>6. /\ Accepted(req, MayBeSaid(x), x)
      /\ Len(req) <= RecentTurns + 2
      /\ rows # <<>> /\ Last(rows).user = proc[p].user => JustBefore(req, SayingOf(Last(rows)))
  <2>1. PICK t \in Nat : t = turns + 1
    BY <1>3
  <2>2. rows \in Seq(Row) /\ IsSaying(x, t, w) /\ req = Normalize(Assembled(p, t, w))
    BY <1>0, <1>4, <1>5, <2>1, Zenon DEF DialogueTyped, IsSaying
  <2> QED BY <2>2, RequestBuilt
<1>7. /\ request' \in [Procs -> Seq(Messages(Saying))] /\ request'[p] = req
      /\ \A q \in Procs : q # p => request'[q] = request[q]
  <2>1. req \in Seq(Messages(Saying))
    <3>1. MayBeSaid(x) \subseteq Saying
      <4>1. x \in Saying /\ Remembered \subseteq Saying
        BY <1>3, <1>4 DEF Saying, Remembered, Whats
      <4> QED BY <4>1, Zenon DEF MayBeSaid
    <3>2. req \in Seq(Messages(MayBeSaid(x)))
      BY <1>6 DEF Accepted
    <3> QED BY <3>1, <3>2, MessagesWiden
  <2>2. request \in [Procs -> Seq(Messages(Saying))] /\ request' = [request EXCEPT ![p] = req]
    BY <1>0, <1>1, <1>5, Zenon DEF DialogueTyped
  <2> QED BY <2>1, <2>2, Zenon
<1>8. DialogueTyped'
  <2>1. torn' \subseteq 1 .. turns'
    BY <1>0, <1>2, <1>3 DEF DialogueTyped
  <2> QED BY <1>0, <1>1, <1>2, <1>3, <1>7, <2>1 DEF DialogueTyped
<1>9. Grows /\ \A q : NotBetween(q)
  BY <1>0, <1>2, <1>3, NothingStored
<1>10. UsersFromStarts'
  <2>1. Creating(p) = 0 /\ Creating(p)' = 0
    BY <1>1, <1>2, CreatingIs
  <2>2. users' + Creating(p)' + starts <= users + Creating(p) + starts'
    BY <1>2, <1>3, <2>1
  <2> QED BY <1>1, <1>8, <2>2, UsersStayBounded
<1>11. SessionsApart'
  BY <1>1, <1>2, SessionsStayApart
<1>12. RowsOfUsers'
  BY <1>0, <1>2, <1>8, <1>9, RowsStayOfUsers DEF DialogueInv
<1>13. RowsPaired'
  <2>1. RowsPaired /\ torn \subseteq torn' /\ (proc[p].at = "halfway" => proc[p].turn \in torn')
    BY <1>2 DEF DialogueInv
  <2> QED BY <1>0, <1>1, <1>2, <1>8, <1>9, <2>1, PairedWithoutRow
<1>14. proc[p].session \in 1 .. starts /\ proc[p].user \in 1 .. users
  BY <1>2 DEF DialogueInv, Placed
<1>15. Placed(p)'
  <2>1. proc'[p].turn \in 1 .. turns' /\ proc'[p].seen <= Len(rows')
    BY <1>1, <1>2, <1>3
  <2>2. proc'[p].session \in 1 .. starts' /\ proc'[p].user \in 1 .. users'
    BY <1>1, <1>2, <1>14, Zenon
  <2>3. proc'[p].what \in {"question", "material"}
    BY <1>1
  <2> QED BY <1>1, <2>1, <2>2, <2>3 DEF Placed
<1>16. Requested(p)'
  <2>1. Trigger(p)' = x
    BY <1>1, <1>4, Zenon DEF Trigger
  <2>2. InTouch(p)'
    <3> SUFFICES ASSUME users' = 1, proc'[p].seen > 0
                 PROVE  JustBefore(req, SayingOf(rows'[proc'[p].seen]))
      BY <1>7, Zenon DEF InTouch
    <3>1. Len(rows) > 0 /\ rows'[proc'[p].seen] = rows[Len(rows)]
      BY <1>1, <1>2
    <3>2. rows # <<>> /\ Len(rows) \in 1 .. Len(rows) /\ Last(rows) = rows[Len(rows)]
      <4>1. rows # <<>>
        BY <3>1, EmptySeq
      <4>2. rows \in Seq(Row)
        BY <1>0 DEF DialogueTyped
      <4> QED BY <4>1, <4>2, LastIn
    <3>3. proc[p].user = 1 /\ Last(rows).user = 1
      <4>1. users = 1 /\ rows[Len(rows)].user \in 1 .. users
        BY <1>2, <3>2 DEF DialogueInv, RowsOfUsers
      <4> QED BY <1>14, <3>2, <4>1
    <3> QED BY <1>6, <3>1, <3>2, <3>3, Zenon
  <2>3. Accepted(request[p], MayBeSaid(Trigger(p)), Trigger(p))'
    BY <1>6, <1>7, <2>1, Zenon DEF MayBeSaid
  <2>4. Len(request'[p]) <= RecentTurns + 2
    BY <1>6, <1>7
  <2> QED BY <1>1, <2>2, <2>3, <2>4, Zenon DEF Requested
<1>17. QuestionStored(p)'
  BY <1>1 DEF QuestionStored
<1> QED BY <1>1, <1>7, <1>8, <1>9, <1>10, <1>11, <1>12, <1>13, <1>15, <1>16, <1>17, InvFromParts

\* p ends its turn or its life without a row of its own.
LEMMA InvWithoutRow ==
    ASSUME DialogueInv, NEW p \in Procs, Others(p), proc' \in [Procs -> Place],
           rows' = rows, users' = users, turns' = turns, starts' = starts,
           torn \subseteq torn', torn' \subseteq 1 .. turns,
           proc[p].at = "halfway" => proc[p].turn \in torn',
           request' = Forgotten(p) \/ (request' = request /\ proc[p].at # "asked"),
           proc'[p] = Off \/ (Rests(p) /\ proc[p].at \in {"asked", "halfway"})
    PROVE  DialogueInv'
<1>0. DialogueTyped
  BY DEF DialogueInv
<1>1. /\ request' \in [Procs -> Seq(Messages(Saying))] /\ request'[p] = <<>>
      /\ \A q \in Procs : q # p => request'[q] = request[q]
  <2>1. CASE request' = Forgotten(p)
    BY <1>0, <2>1, RequestForgotten
  <2>2. CASE request' = request /\ proc[p].at # "asked"
    <3>1. request[p] = <<>>
      BY <2>2 DEF DialogueInv, Requested
    <3> QED BY <1>0, <2>2, <3>1 DEF DialogueTyped
  <2> QED BY <2>1, <2>2
<1>2. users \in Nat /\ starts \in Nat /\ turns \in Nat /\ Len(rows) \in Nat
  BY <1>0, LenProperties DEF DialogueTyped
<1>3. DialogueTyped'
  BY <1>0, <1>1 DEF DialogueTyped
<1>4. Grows /\ \A q : NotBetween(q)
  BY <1>0, <1>2, NothingStored
<1>5. Placed(p)' /\ Requested(p)' /\ QuestionStored(p)' /\ Creating(p)' = 0
  <2>1. CASE proc'[p] = Off
    BY <1>1, <2>1, OffHolds
  <2>2. CASE Rests(p) /\ proc[p].at \in {"asked", "halfway"}
    BY <1>1, <1>3, <1>4, <2>2, RestHolds
  <2> QED BY <2>1, <2>2
<1>6. UsersFromStarts'
  <2>1. Creating(p) \in Nat
    BY CreatingIs
  <2>2. users' + Creating(p)' + starts <= users + Creating(p) + starts'
    BY <1>2, <1>5, <2>1
  <2> QED BY <1>3, <2>2, UsersStayBounded
<1>7. SessionsApart'
  <2>1. \/ proc'[p].at = "off"
        \/ proc[p].at # "off" /\ proc'[p].session = proc[p].session
    <3>1. CASE proc'[p] = Off
      BY <3>1, OffIs, Zenon
    <3>2. CASE /\ Rests(p) /\ proc[p].at \in {"asked", "halfway"} /\ proc'[p] # Off
      <4>1. proc[p].at # "off" /\ proc'[p].session = proc[p].session
        BY <3>2 DEF Rests
      <4> QED BY <4>1
    <3> QED BY <3>1, <3>2
  <2> QED BY <2>1, SessionsStayApart
<1>8. RowsOfUsers'
  BY <1>0, <1>3, <1>4, RowsStayOfUsers DEF DialogueInv
<1>9. RowsPaired'
  <2>1. RowsPaired
    BY DEF DialogueInv
  <2> QED BY <1>0, <1>3, <1>4, <2>1, PairedWithoutRow
<1> QED BY <1>1, <1>3, <1>4, <1>5, <1>6, <1>7, <1>8, <1>9, InvFromParts

LEMMA InvLeave ==
    ASSUME DialogueInv, NEW p \in Procs, Leave(p)
    PROVE  DialogueInv'
<1>1. DialogueTyped /\ torn \subseteq 1 .. turns
  BY DEF DialogueInv, DialogueTyped
<1>2. /\ users' = users /\ rows' = rows /\ turns' = turns /\ starts' = starts /\ torn' = torn
      /\ request' = request /\ proc[p].at = "idle" /\ proc' = [proc EXCEPT ![p] = Off]
  BY Zenon DEF Leave
<1>3. proc' \in [Procs -> Place] /\ Others(p) /\ proc'[p] = Off
  BY <1>1, <1>2, SetOff
<1>4. proc[p].at # "asked" /\ proc[p].at # "halfway"
  BY <1>2
<1> QED BY <1>1, <1>2, <1>3, <1>4, InvWithoutRow

LEMMA InvFails ==
    ASSUME DialogueInv, NEW p \in Procs, Fails(p)
    PROVE  DialogueInv'
<1>1. DialogueTyped /\ torn \subseteq 1 .. turns
  BY DEF DialogueInv, DialogueTyped
<1>2. /\ users' = users /\ rows' = rows /\ turns' = turns /\ starts' = starts /\ torn' = torn
      /\ request' = Forgotten(p) /\ proc[p].at = "asked" /\ proc' = Idles(p)
  BY Zenon DEF Fails
<1>3. proc' \in [Procs -> Place] /\ Others(p) /\ Rests(p)
  BY <1>1, <1>2, IdlesRests
<1>4. proc[p].at # "halfway" /\ proc[p].at \in {"asked", "halfway"}
  BY <1>2
<1> QED BY <1>1, <1>2, <1>3, <1>4, InvWithoutRow

LEMMA InvDie ==
    ASSUME DialogueInv, NEW p \in Procs, Die(p)
    PROVE  DialogueInv'
<1>1. DialogueTyped /\ torn \subseteq 1 .. turns
  BY DEF DialogueInv, DialogueTyped
<1>2. /\ users' = users /\ rows' = rows /\ turns' = turns /\ starts' = starts
      /\ torn' = IF proc[p].at = "halfway" THEN torn \union {proc[p].turn} ELSE torn
      /\ request' = Forgotten(p) /\ proc' = [proc EXCEPT ![p] = Off]
  BY Zenon DEF Die
<1>3. proc' \in [Procs -> Place] /\ Others(p) /\ proc'[p] = Off
  BY <1>1, <1>2, SetOff
<1>4. /\ torn \subseteq torn' /\ torn' \subseteq 1 .. turns
      /\ proc[p].at = "halfway" => proc[p].turn \in torn'
  <2>1. proc[p].at = "halfway" => proc[p].turn \in 1 .. turns
    BY DEF DialogueInv, Placed
  <2>2. CASE proc[p].at = "halfway"
    <3>1. torn' = torn \union {proc[p].turn}
      BY <1>2, <2>2, Zenon
    <3> QED BY <1>1, <2>1, <2>2, <3>1
  <2>3. CASE proc[p].at # "halfway"
    <3>1. torn' = torn
      BY <1>2, <2>3, Zenon
    <3> QED BY <1>1, <2>3, <3>1
  <2> QED BY <2>2, <2>3
<1> QED BY <1>2, <1>3, <1>4, InvWithoutRow

\* One more row, whose pair is there.
LEMMA PairedWithRow ==
    ASSUME DialogueTyped, DialogueTyped', Grows, RowsPaired, torn \subseteq torn',
           NEW p \in Procs, Others(p), Len(rows') = Len(rows) + 1,
           proc[p].at = "halfway" =>
             \E j \in 1 .. Len(rows') : rows'[j].what = "answer" /\ rows'[j].turn = proc[p].turn,
           rows'[Len(rows) + 1].what = "answer" =>
             \E j \in 1 .. Len(rows) :
               /\ rows[j].what = "question" /\ rows[j].turn = rows'[Len(rows) + 1].turn
               /\ \A k \in j + 1 .. Len(rows) : rows[k].session # rows'[Len(rows) + 1].session,
           rows'[Len(rows) + 1].what = "question" =>
             \E q \in Procs : proc'[q].at = "halfway" /\ proc'[q].turn = rows'[Len(rows) + 1].turn
    PROVE  RowsPaired'
<1>1. Pairs
  BY PairsIs
<1>2. ASSUME NEW i \in 1 .. Len(rows)
      PROVE  /\ rows'[i].what = "answer" => HasQuestion(i)'
             /\ rows'[i].what = "question" => Settled(i)'
  <2>1. proc[p].at = "halfway" /\ proc[p].turn = rows[i].turn =>
          \/ proc'[p].at = "halfway" /\ proc'[p].turn = proc[p].turn
          \/ proc[p].turn \in torn'
          \/ \E j \in 1 .. Len(rows') : rows'[j].what = "answer" /\ rows'[j].turn = proc[p].turn
    OBVIOUS
  <2> QED BY <1>1, <2>1, OldRowsStay
<1>3. ASSUME NEW i \in 1 .. Len(rows')
      PROVE  /\ rows'[i].what = "answer" => HasQuestion(i)'
             /\ rows'[i].what = "question" => Settled(i)'
  <2>1. CASE i \in 1 .. Len(rows)
    BY <1>2, <2>1
  <2>2. CASE i \notin 1 .. Len(rows)
    <3>1. i = Len(rows) + 1
      <4>1. Len(rows) \in Nat
        BY Lengths
      <4> QED BY <2>2, <4>1
    <3>2. ASSUME rows'[i].what = "answer" PROVE HasQuestion(i)'
      <4>1. PICK j \in 1 .. Len(rows) :
              /\ rows[j].what = "question" /\ rows[j].turn = rows'[i].turn
              /\ \A k \in j + 1 .. Len(rows) : rows[k].session # rows'[i].session
        BY <3>1, <3>2
      <4>2. i - 1 = Len(rows)
        <5>1. Len(rows) \in Nat
          BY Lengths
        <5> QED BY <3>1, <5>1
      <4>3. \A k \in 1 .. Len(rows) : rows'[k] = rows[k]
        BY DEF Grows
      <4>4. \A k \in j + 1 .. Len(rows) : k \in 1 .. Len(rows)
        <5>1. Len(rows) \in Nat
          BY Lengths
        <5> QED BY <5>1
      <4>5. /\ rows'[j].what = "question" /\ rows'[j].turn = rows'[i].turn
            /\ \A k \in j + 1 .. i - 1 : rows'[k].session # rows'[i].session
        BY <4>1, <4>2, <4>3, <4>4
      <4> QED BY <4>2, <4>5, Zenon DEF HasQuestion
    <3>3. rows'[i].what = "question" => UnderWay(i)'
      BY <3>1, Zenon DEF UnderWay
    <3> QED BY <3>2, <3>3, Zenon DEF Settled
  <2> QED BY <2>1, <2>2
<1>4. Pairs'
  BY <1>3, Zenon DEF Pairs
<1> QED BY <1>4, Zenon DEF RowsPaired, Pairs, HasQuestion, Settled, Answered, UnderWay

\* One more row, of the turn of p: what both ways of storing one share.
LEMMA OneRowMore ==
    ASSUME DialogueInv, NEW p \in Procs, Others(p), proc' \in [Procs -> Place],
           proc[p].at \in {"asked", "halfway"},
           NEW w \in Whats \ {"material"}, rows' = Stored(p, w), request' = Forgotten(p),
           users' = users, turns' = turns, starts' = starts, torn' = torn
    PROVE  /\ DialogueTyped' /\ Grows /\ RowsOfUsers' /\ request'[p] = <<>>
           /\ \A q \in Procs : q # p => request'[q] = request[q] /\ NotBetween(q)
           /\ Len(rows') = Len(rows) + 1
           /\ rows'[Len(rows) + 1] = [user |-> proc[p].user, session |-> proc[p].session,
                                      turn |-> proc[p].turn, what |-> w]
<1>0. DialogueTyped /\ SessionsApart /\ RowsOfUsers /\ Placed(p)
  BY DEF DialogueInv
<1>1. PICK row \in Row :
        /\ row = [user |-> proc[p].user, session |-> proc[p].session,
                  turn |-> proc[p].turn, what |-> w]
        /\ rows' = Append(rows, row) /\ rows' \in Seq(Row) /\ Len(rows') = Len(rows) + 1
        /\ \A i \in 1 .. Len(rows) : rows'[i] = rows[i]
        /\ rows'[Len(rows) + 1] = row
  BY <1>0, RowStored
<1>2. /\ request' \in [Procs -> Seq(Messages(Saying))] /\ request'[p] = <<>>
      /\ \A q \in Procs : q # p => request'[q] = request[q]
  BY <1>0, RequestForgotten
<1>3. DialogueTyped'
  BY <1>0, <1>1, <1>2 DEF DialogueTyped
<1>4. users \in Nat /\ starts \in Nat /\ turns \in Nat /\ Len(rows) \in Nat
  BY <1>0, LenProperties DEF DialogueTyped
<1>5. Grows
  BY <1>1, <1>4 DEF Grows
<1>6. \A i \in 1 .. Len(rows') : i \notin 1 .. Len(rows) => i = Len(rows) + 1
  BY <1>1, <1>4
<1>7. row.user = proc[p].user /\ row.session = proc[p].session
  BY <1>1
<1>8. RowsOfUsers'
  <2> SUFFICES ASSUME NEW i \in 1 .. Len(rows') PROVE rows'[i].user \in 1 .. users'
    BY Zenon DEF RowsOfUsers
  <2>1. CASE i \in 1 .. Len(rows)
    BY <1>0, <1>1, <2>1 DEF RowsOfUsers
  <2>2. CASE i \notin 1 .. Len(rows)
    <3>1. rows'[i] = row
      BY <1>1, <1>6, <2>2
    <3>2. proc[p].user \in 1 .. users
      BY <1>0 DEF Placed
    <3> QED BY <1>7, <3>1, <3>2
  <2> QED BY <2>1, <2>2
<1>9. ASSUME NEW q \in Procs, q # p PROVE NotBetween(q)
  <2> SUFFICES ASSUME proc[q].at = "halfway", NEW i \in 1 .. Len(rows'), i \notin 1 .. Len(rows)
               PROVE  rows'[i].session # proc[q].session
    BY DEF NotBetween
  <2>1. rows'[i] = row
    BY <1>1, <1>6
  <2>2. proc[p].session # proc[q].session
    <3>1. proc[p].at # "off" /\ proc[q].at # "off"
      OBVIOUS
    <3> QED BY <1>0, <1>9, <3>1, AnotherSession
  <2> QED BY <1>7, <2>1, <2>2
<1> QED BY <1>1, <1>2, <1>3, <1>5, <1>8, <1>9

LEMMA InvRememberQuestion ==
    ASSUME DialogueInv, NEW p \in Procs, RememberQuestion(p)
    PROVE  DialogueInv'
<1>0. DialogueTyped /\ Placed(p) /\ RowsPaired
  BY DEF DialogueInv
<1>1. /\ users' = users /\ turns' = turns /\ starts' = starts /\ torn' = torn
      /\ proc[p].at = "asked" /\ proc[p].what = "question"
      /\ rows' = Stored(p, "question") /\ request' = Forgotten(p)
  BY DEF RememberQuestion
<1>2. proc' \in [Procs -> Place] /\ Others(p) /\ proc'[p].at = "halfway" /\ Keeps(p)
  BY <1>0, QuestionEffect
<1>3. PICK row : row = [user |-> proc[p].user, session |-> proc[p].session,
                        turn |-> proc[p].turn, what |-> "question"]
  OBVIOUS
<1>4. /\ DialogueTyped' /\ Grows /\ RowsOfUsers' /\ request'[p] = <<>>
      /\ \A q \in Procs : q # p => request'[q] = request[q] /\ NotBetween(q)
      /\ Len(rows') = Len(rows) + 1 /\ rows'[Len(rows) + 1] = row
  <2>1. "question" \in Whats \ {"material"} /\ proc[p].at \in {"asked", "halfway"}
    BY <1>1 DEF Whats
  <2> QED BY <1>1, <1>2, <1>3, <2>1, OneRowMore
<1>5. row.what = "question" /\ row.turn = proc'[p].turn
  BY <1>2, <1>3 DEF Keeps
<1>6. users \in Nat /\ starts \in Nat /\ Len(rows) \in Nat
  BY <1>0, LenProperties DEF DialogueTyped
<1>7. UsersFromStarts'
  <2>1. Creating(p) = 0 /\ Creating(p)' = 0
    BY <1>1, <1>2, CreatingIs
  <2>2. users' + Creating(p)' + starts <= users + Creating(p) + starts'
    BY <1>1, <1>6, <2>1
  <2> QED BY <1>2, <1>4, <2>2, UsersStayBounded
<1>8. SessionsApart'
  <2>1. proc[p].at # "off" /\ proc'[p].session = proc[p].session
    BY <1>1, <1>2 DEF Keeps
  <2> QED BY <1>2, <2>1, SessionsStayApart
<1>9. RowsPaired'
  <2>1. torn \subseteq torn' /\ proc[p].at # "halfway" /\ rows'[Len(rows) + 1].what # "answer"
    BY <1>1, <1>4, <1>5
  <2>2. \E q \in Procs : proc'[q].at = "halfway" /\ proc'[q].turn = rows'[Len(rows) + 1].turn
    BY <1>2, <1>4, <1>5, Zenon
  <2> QED BY <1>0, <1>2, <1>4, <2>1, <2>2, PairedWithRow
<1>10. Placed(p)'
  <2>1. /\ proc[p].session \in 1 .. starts /\ proc[p].user \in 1 .. users
        /\ proc[p].turn \in 1 .. turns
    BY <1>0, <1>1 DEF Placed
  <2>2. /\ proc'[p].session \in 1 .. starts' /\ proc'[p].user \in 1 .. users'
        /\ proc'[p].turn \in 1 .. turns' /\ proc'[p].what = "question"
    BY <1>1, <1>2, <2>1, Zenon DEF Keeps
  <2> QED BY <1>2, <2>2 DEF Placed
<1>11. Requested(p)'
  BY <1>2, <1>4 DEF Requested
<1>12. QuestionStored(p)'
  <2>1. Len(rows) + 1 \in 1 .. Len(rows')
    BY <1>4, <1>6
  <2>2. \A k \in (Len(rows) + 1) + 1 .. Len(rows') : FALSE
    BY <1>4, <1>6
  <2>3. PICK j \in 1 .. Len(rows') : j = Len(rows) + 1
    BY <2>1
  <2>4. AsksAt(p, j)'
    BY <1>4, <1>5, <2>2, <2>3, Zenon DEF AsksAt
  <2> QED BY <2>4, Zenon DEF QuestionStored
<1> QED BY <1>2, <1>4, <1>7, <1>8, <1>9, <1>10, <1>11, <1>12, InvFromParts

LEMMA InvRememberAnswer ==
    ASSUME DialogueInv, NEW p \in Procs, RememberAnswer(p)
    PROVE  DialogueInv'
<1>0. DialogueTyped /\ Placed(p) /\ RowsPaired /\ QuestionStored(p)
  BY DEF DialogueInv
<1>1. PICK w : w = IF proc[p].what = "question" THEN "answer" ELSE "remark"
  OBVIOUS
<1>2. /\ users' = users /\ turns' = turns /\ starts' = starts /\ torn' = torn
      /\ IF proc[p].what = "question" THEN proc[p].at = "halfway" ELSE proc[p].at = "asked"
      /\ rows' = Stored(p, w) /\ request' = Forgotten(p) /\ proc' = Idles(p)
  BY <1>1, Zenon DEF RememberAnswer
<1>3. /\ proc[p].at \in {"asked", "halfway"} /\ w \in {"answer", "remark"}
      /\ w = "answer" => proc[p].at = "halfway"
      /\ proc[p].at = "halfway" => w = "answer"
  <2>1. proc[p].at = "halfway" => proc[p].what = "question"
    BY <1>0, Zenon DEF Placed
  <2>2. CASE proc[p].what = "question"
    BY <1>1, <1>2, <2>2
  <2>3. CASE proc[p].what # "question"
    BY <1>1, <1>2, <2>1, <2>3
  <2> QED BY <2>2, <2>3
<1>4. proc' \in [Procs -> Place] /\ Others(p) /\ Rests(p)
  BY <1>0, <1>2, IdlesRests
<1>5. PICK row : row = [user |-> proc[p].user, session |-> proc[p].session,
                        turn |-> proc[p].turn, what |-> w]
  OBVIOUS
<1>6. /\ DialogueTyped' /\ Grows /\ RowsOfUsers' /\ request'[p] = <<>>
      /\ \A q \in Procs : q # p => request'[q] = request[q] /\ NotBetween(q)
      /\ Len(rows') = Len(rows) + 1 /\ rows'[Len(rows) + 1] = row
  <2>1. w \in Whats \ {"material"}
    BY <1>3 DEF Whats
  <2> QED BY <1>2, <1>3, <1>4, <1>5, <2>1, OneRowMore
<1>7. row.what = w /\ row.turn = proc[p].turn /\ row.session = proc[p].session
  BY <1>5
<1>8. users \in Nat /\ starts \in Nat /\ Len(rows) \in Nat
  BY <1>0, LenProperties DEF DialogueTyped
<1>9. Placed(p)' /\ Requested(p)' /\ QuestionStored(p)' /\ Creating(p)' = 0
  BY <1>3, <1>4, <1>6, RestHolds
<1>10. UsersFromStarts'
  <2>1. Creating(p) \in Nat
    BY CreatingIs
  <2>2. users' + Creating(p)' + starts <= users + Creating(p) + starts'
    BY <1>2, <1>8, <1>9, <2>1
  <2> QED BY <1>4, <1>6, <2>2, UsersStayBounded
<1>11. SessionsApart'
  <2>1. CASE proc'[p] = Off
    <3>1. proc'[p].at = "off"
      BY <2>1, OffIs, Zenon
    <3> QED BY <1>4, <3>1, SessionsStayApart
  <2>2. CASE proc'[p] # Off
    <3>1. proc[p].at # "off" /\ proc'[p].session = proc[p].session
      BY <1>3, <1>4, <2>2 DEF Rests
    <3> QED BY <1>4, <3>1, SessionsStayApart
  <2> QED BY <2>1, <2>2
<1>12. RowsPaired'
  <2>1. proc[p].at = "halfway" =>
          \E j \in 1 .. Len(rows') : rows'[j].what = "answer" /\ rows'[j].turn = proc[p].turn
    <3>1. Len(rows) + 1 \in 1 .. Len(rows')
      BY <1>6, <1>8
    <3> QED BY <1>3, <1>6, <1>7, <3>1, Zenon
  <2>2. rows'[Len(rows) + 1].what = "answer" =>
          \E j \in 1 .. Len(rows) :
            /\ rows[j].what = "question" /\ rows[j].turn = rows'[Len(rows) + 1].turn
            /\ \A k \in j + 1 .. Len(rows) : rows[k].session # rows'[Len(rows) + 1].session
    <3> SUFFICES ASSUME w = "answer"
                 PROVE  \E j \in 1 .. Len(rows) :
                          /\ rows[j].what = "question" /\ rows[j].turn = row.turn
                          /\ \A k \in j + 1 .. Len(rows) : rows[k].session # row.session
      BY <1>6, <1>7, Zenon
    <3>1. PICK j \in 1 .. Len(rows) : AsksAt(p, j)
      BY <1>0, <1>3 DEF QuestionStored
    <3> QED BY <1>7, <3>1, Zenon DEF AsksAt
  <2>3. torn \subseteq torn' /\ rows'[Len(rows) + 1].what # "question"
    BY <1>2, <1>3, <1>6, <1>7
  <2> QED BY <1>0, <1>4, <1>6, <2>1, <2>2, <2>3, PairedWithRow
<1> QED BY <1>4, <1>6, <1>9, <1>10, <1>11, <1>12, InvFromParts

LEMMA DialogueInvInit == DialogueInit => DialogueInv
<1> SUFFICES ASSUME DialogueInit PROVE DialogueInv
  OBVIOUS
<1>1. /\ users = 0 /\ rows = <<>> /\ turns = 0 /\ starts = 0 /\ torn = {}
      /\ proc = [p \in Procs |-> Off] /\ request = [p \in Procs |-> <<>>]
  BY DEF DialogueInit
<1>2. \A p \in Procs : proc[p] = Off /\ proc[p].at = "off" /\ request[p] = <<>>
  BY <1>1, OffIs, Zenon
<1>3. Len(rows) = 0 /\ rows \in Seq(Row)
  BY <1>1, EmptySeq
<1>4. DialogueTyped
  <2>1. proc \in [Procs -> Place]
    BY <1>1, OffPlace, Zenon
  <2>2. request \in [Procs -> Seq(Messages(Saying))]
    <3>1. <<>> \in Seq(Messages(Saying))
      BY EmptySeq
    <3> QED BY <1>1, <3>1, Zenon
  <2>3. users \in Nat /\ turns \in 0 .. MaxTurns /\ starts \in 0 .. MaxStarts /\ torn \subseteq 1 .. turns
    BY <1>1, DialogueAssumption
  <2> QED BY <1>3, <2>1, <2>2, <2>3 DEF DialogueTyped
<1>5. UsersFromStarts
  <2>1. "daemon" \in Procs /\ "cli" \in Procs
    BY DEF Procs
  <2>2. Creating("daemon") = 0 /\ Creating("cli") = 0
    BY <1>2, <2>1 DEF Creating
  <2> QED BY <1>1, <2>2 DEF UsersFromStarts
<1>6. SessionsApart
  BY <1>2 DEF SessionsApart
<1>7. RowsOfUsers /\ RowsPaired
  <2>1. \A i \in 1 .. Len(rows) : FALSE
    BY <1>3
  <2>2. RowsOfUsers
    BY <2>1, Zenon DEF RowsOfUsers
  <2>3. Pairs
    BY <2>1, Zenon DEF Pairs
  <2> QED BY <2>2, <2>3, PairsIs
<1>8. \A p \in Procs : Placed(p) /\ Requested(p) /\ QuestionStored(p)
  BY <1>2 DEF Placed, Requested, QuestionStored
<1> QED BY <1>4, <1>5, <1>6, <1>7, <1>8, Zenon DEF DialogueInv

LEMMA InvUnchanged ==
    ASSUME DialogueInv, UNCHANGED dialogueVars
    PROVE  DialogueInv'
<1>1. /\ users' = users /\ rows' = rows /\ proc' = proc /\ request' = request
      /\ turns' = turns /\ starts' = starts /\ torn' = torn
  BY DEF dialogueVars
<1>2. DialogueTyped' /\ UsersFromStarts' /\ SessionsApart' /\ RowsOfUsers'
  <2>1. DialogueTyped /\ UsersFromStarts /\ SessionsApart /\ RowsOfUsers
    BY DEF DialogueInv
  <2> QED BY <1>1, <2>1, Zenon DEF DialogueTyped, UsersFromStarts, Creating, SessionsApart, RowsOfUsers
<1>3. ASSUME NEW p \in Procs PROVE Placed(p)' /\ Requested(p)' /\ QuestionStored(p)'
  <2>1. Placed(p) /\ Requested(p) /\ QuestionStored(p)
    BY DEF DialogueInv
  <2>2. Placed(p)'
    BY <1>1, <2>1, Zenon DEF Placed
  <2>3. Requested(p)'
    BY <1>1, <2>1, Zenon DEF Requested, InTouch, Trigger, MayBeSaid
  <2>4. QuestionStored(p)'
    BY <1>1, <2>1, Zenon DEF QuestionStored, AsksAt
  <2> QED BY <2>2, <2>3, <2>4
<1>4. RowsPaired'
  <2>1. Pairs /\ DialogueTyped
    BY PairsIs DEF DialogueInv
  <2>2. Grows
    <3>1. turns \in Nat /\ starts \in Nat
      BY <2>1 DEF DialogueTyped
    <3>2. turns' \in Nat /\ turns <= turns' /\ starts' \in Nat /\ starts <= starts'
      BY <1>1, <3>1
    <3> QED BY <1>1, <2>1, <3>2, NothingStored
  <2>3. PICK p \in Procs : Others(p)
    BY <1>1 DEF Others, Procs
  <2>4. ASSUME NEW i \in 1 .. Len(rows)
        PROVE  /\ rows'[i].what = "answer" => HasQuestion(i)'
               /\ rows'[i].what = "question" => Settled(i)'
    <3>1. torn \subseteq torn' /\ proc'[p] = proc[p]
      BY <1>1
    <3> QED BY <1>2, <2>1, <2>2, <2>3, <3>1, OldRowsStay
  <2>5. Pairs'
    BY <1>1, <2>4, Zenon DEF Pairs
  <2> QED BY <2>5, Zenon DEF RowsPaired, Pairs, HasQuestion, Settled, Answered, UnderWay
<1> QED BY <1>2, <1>3, <1>4, Zenon DEF DialogueInv

LEMMA DialogueInvNext == DialogueInv /\ [DialogueNext]_dialogueVars => DialogueInv'
<1> SUFFICES ASSUME DialogueInv, [DialogueNext]_dialogueVars PROVE DialogueInv'
  OBVIOUS
<1>1. CASE UNCHANGED dialogueVars
  BY <1>1, InvUnchanged
<1>2. CASE DialogueNext
  <2>1. PICK p \in Procs :
          \/ Start(p) \/ CreateUser(p)
          \/ Ask(p) \/ Leave(p)
          \/ Fails(p) \/ RememberQuestion(p) \/ RememberAnswer(p)
          \/ Die(p)
    BY <1>2, Zenon DEF DialogueNext
  <2>2. CASE Start(p)
    BY <2>2, InvStart
  <2>3. CASE CreateUser(p)
    BY <2>3, InvCreateUser
  <2>4. CASE Ask(p)
    BY <2>4, InvAsk
  <2>5. CASE Leave(p)
    BY <2>5, InvLeave
  <2>6. CASE Fails(p)
    BY <2>6, InvFails
  <2>7. CASE RememberQuestion(p)
    BY <2>7, InvRememberQuestion
  <2>8. CASE RememberAnswer(p)
    BY <2>8, InvRememberAnswer
  <2>9. CASE Die(p)
    BY <2>9, InvDie
  <2> QED BY <2>1, <2>2, <2>3, <2>4, <2>5, <2>6, <2>7, <2>8, <2>9
<1> QED BY <1>1, <1>2

\* The invariant, for every length of the memory and every bound.
THEOREM DialogueInvariant == DialogueSpec => []DialogueInv
<1>1. DialogueInit => DialogueInv
  BY DialogueInvInit
<1>2. DialogueInv /\ [DialogueNext]_dialogueVars => DialogueInv'
  BY DialogueInvNext
<1> QED BY <1>1, <1>2, PTL DEF DialogueSpec

----------------------------------------------------------------------------
(* What follows from it.                                                   *)

\* There are never more users than starts, and a request is never longer
\* than the memory it may use, its trigger and the opener.
THEOREM DialogueTypes == DialogueSpec => []DialogueTypeOK
<1>1. DialogueInv => DialogueTypeOK
  <2> SUFFICES ASSUME DialogueInv PROVE DialogueTypeOK
    OBVIOUS
  <2>1. /\ users \in Nat /\ turns \in 0 .. MaxTurns /\ starts \in 0 .. MaxStarts
        /\ torn \subseteq 1 .. turns /\ rows \in Seq(Row) /\ proc \in [Procs -> Place]
    BY DEF DialogueInv, DialogueTyped
  <2>2. users \in 0 .. MaxStarts
    <3>1. Creating("daemon") \in Nat /\ Creating("cli") \in Nat
      BY CreatingIs
    <3>2. users + Creating("daemon") + Creating("cli") <= starts
      BY DEF DialogueInv, UsersFromStarts
    <3> QED BY <2>1, <3>1, <3>2, DialogueAssumption
  <2>3. ASSUME NEW p \in Procs
        PROVE  /\ proc[p].at \in {"off", "creating", "idle", "asked", "halfway"}
               /\ proc[p].at \in {"idle", "asked", "halfway"} => proc[p].user \in 1 .. users
               /\ (request[p] # <<>>) <=> (proc[p].at = "asked")
               /\ Len(request[p]) <= RecentTurns + 2
    <3>1. Placed(p) /\ Requested(p) /\ proc[p] \in Place
      BY <2>1 DEF DialogueInv
    <3>2. proc[p].at \in {"off", "creating", "idle", "asked", "halfway"}
      BY <3>1 DEF Place
    <3>3. proc[p].at \in {"idle", "asked", "halfway"} => proc[p].user \in 1 .. users
      BY <3>1 DEF Placed
    <3>4. CASE proc[p].at = "asked"
      <4>1. request[p] # <<>> /\ Len(request[p]) <= RecentTurns + 2
        BY <3>1, <3>4, Zenon DEF Requested, Accepted
      <4> QED BY <3>2, <3>3, <3>4, <4>1
    <3>5. CASE proc[p].at # "asked"
      <4>1. request[p] = <<>>
        BY <3>1, <3>5 DEF Requested
      <4>2. Len(<<>>) = 0 /\ 0 <= RecentTurns + 2
        BY EmptySeq, DialogueAssumption
      <4> QED BY <3>2, <3>3, <3>5, <4>1, <4>2, Zenon
    <3> QED BY <3>4, <3>5
  <2>4. ASSUME NEW i \in 1 .. Len(rows) PROVE rows[i].user \in 1 .. users /\ rows[i].what \in Whats
    <3>1. rows[i].user \in 1 .. users
      BY DEF DialogueInv, RowsOfUsers
    <3>2. rows[i] \in Row
      BY <2>1, ElementOfSeq
    <3>3. rows[i].what \in Whats
      BY <3>2 DEF Row
    <3> QED BY <3>1, <3>3
  <2> QED BY <2>1, <2>2, <2>3, <2>4, Zenon DEF DialogueTypeOK
<1> QED BY <1>1, DialogueInvariant, PTL

\* Whatever the memory holds, what goes to Anthropic begins with the user,
\* alternates and ends with the trigger.
THEOREM RequestsAccepted == DialogueSpec => []RequestAccepted
<1>1. DialogueInv => RequestAccepted
  <2> SUFFICES ASSUME DialogueInv, NEW p \in Procs, proc[p].at = "asked"
               PROVE  LET ms == request[p]
                      IN  /\ ms[1].role = "user" /\ Last(ms).role = "user"
                          /\ \A i \in 1 .. (Len(ms) - 1) : ms[i].role # ms[i + 1].role
                          /\ Last(Last(ms).parts) = [turn |-> proc[p].turn, what |-> proc[p].what]
    BY Zenon DEF RequestAccepted
  <2>1. Accepted(request[p], MayBeSaid(Trigger(p)), Trigger(p))
    BY DEF DialogueInv, Requested
  <2> QED BY <2>1, Zenon DEF Accepted, Alternates, Trigger
<1> QED BY <1>1, DialogueInvariant, PTL

\* What was stored last is in the next request just before its trigger, and
\* the only material in a request is its own trigger.
THEOREM MemoryKept == DialogueSpec => []Remembers
<1>1. DialogueInv => Remembers
  <2> SUFFICES ASSUME DialogueInv, NEW p \in Procs, proc[p].at = "asked"
               PROVE  LET ms     == request[p]
                          newest == rows[proc[p].seen]
                      IN  /\ users = 1 /\ proc[p].seen > 0 =>
                               JustBefore(ms, [turn |-> newest.turn, what |-> newest.what])
                          /\ \A i \in 1 .. Len(ms) : \A j \in 1 .. Len(ms[i].parts) :
                               ms[i].parts[j].what = "material" => ms[i].parts[j].turn = proc[p].turn
    BY Zenon DEF Remembers
  <2>1. Accepted(request[p], MayBeSaid(Trigger(p)), Trigger(p)) /\ InTouch(p)
    BY DEF DialogueInv, Requested
  <2>2. users = 1 /\ proc[p].seen > 0 =>
          JustBefore(request[p], [turn |-> rows[proc[p].seen].turn, what |-> rows[proc[p].seen].what])
    BY <2>1, Zenon DEF InTouch, SayingOf
  <2>3. ASSUME NEW i \in 1 .. Len(request[p]), NEW j \in 1 .. Len(request[p][i].parts),
               request[p][i].parts[j].what = "material"
        PROVE  request[p][i].parts[j].turn = proc[p].turn
    <3>1. PICK S : S = MayBeSaid(Trigger(p))
      OBVIOUS
    <3>2. PICK m \in Messages(S) : m = request[p][i]
      <4>1. request[p] \in Seq(Messages(S))
        BY <2>1, <3>1 DEF Accepted
      <4>2. request[p][i] \in Messages(S)
        BY <4>1, ElementOfSeq
      <4> QED BY <4>2
    <3>3. PICK y \in S : y = request[p][i].parts[j]
      <4>1. m.parts \in Seq(S) /\ j \in 1 .. Len(m.parts)
        BY <3>2 DEF Messages
      <4>2. m.parts[j] \in S
        BY <4>1, ElementOfSeq
      <4> QED BY <3>2, <4>2
    <3>4. y \in Remembered \/ y = Trigger(p)
      BY <3>1, Zenon DEF MayBeSaid
    <3>5. y \notin Remembered
      BY <2>3, <3>3 DEF Remembered
    <3>6. y.turn = proc[p].turn
      BY <3>4, <3>5 DEF Trigger
    <3> QED BY <3>3, <3>6
  <2> QED BY <2>2, <2>3, Zenon
<1> QED BY <1>1, DialogueInvariant, PTL

\* An answer has its question before it; a question without one belongs to
\* a turn being stored or to one torn by a death.
THEOREM PairsKept == DialogueSpec => []RowsPaired
<1>1. DialogueInv => RowsPaired
  BY DEF DialogueInv
<1> QED BY <1>1, DialogueInvariant, PTL
=============================================================================
