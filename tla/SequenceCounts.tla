---------------------------- MODULE SequenceCounts ----------------------------
(***************************************************************************)
(* What the operators on sequences that the models use do to the number of *)
(* elements of a kind: the vectors of the code are searched, appended to   *)
(* and erased from, and the invariants count what is in them.              *)
(***************************************************************************)
EXTENDS Integers, Sequences, FiniteSets, SequencesExt, FiniteSetTheorems,
        FunctionTheorems, SequenceTheorems, WellFoundedInduction, TLAPS

-----------------------------------------------------------------------------
(* Sequences.                                                              *)

\* The minimum of a set of naturals is one of them.
LEMMA MinIsMember ==
  ASSUME NEW T \in SUBSET Nat, T # {}
  PROVE  Min(T) \in T
<1>1. IsWellFoundedOn(OpToRel(<, Nat), Nat)
  BY NatLessThanWellFounded
<1>2. PICK x \in T : \A y \in T : ~ (<<y, x>> \in OpToRel(<, Nat))
  BY <1>1, WFMin
<1>3. ASSUME NEW y \in T PROVE x =< y
  <2>1. x \in Nat /\ y \in Nat
    OBVIOUS
  <2>2. ~ (<<y, x>> \in OpToRel(<, Nat))
    BY <1>2
  <2>3. ~ (y < x)
    BY <2>1, <2>2, Zenon DEF OpToRel
  <2> QED
    BY <2>1, <2>3
<1> QED
  BY <1>3 DEF Min

\* Removing one element by its index keeps the type and takes one off.
LEMMA RemoveAtProperties ==
  ASSUME NEW S, NEW s \in Seq(S), NEW i \in 1 .. Len(s)
  PROVE  /\ RemoveAt(s, i) \in Seq(S)
         /\ Len(RemoveAt(s, i)) = Len(s) - 1
         /\ \A j \in 1 .. Len(s) - 1 :
              RemoveAt(s, i)[j] = IF j < i THEN s[j] ELSE s[j + 1]
<1> DEFINE front == SubSeq(s, 1, i - 1)
           back == SubSeq(s, i + 1, Len(s))
<1>1. /\ front \in Seq(S) /\ Len(front) = i - 1
      /\ \A j \in 1 .. i - 1 : front[j] = s[j]
  <2>1. \A j \in 1 .. i - 1 : s[j] \in S
    OBVIOUS
  <2> QED
    BY <2>1, SubSeqProperties, Z3
<1>2. /\ back \in Seq(S) /\ Len(back) = Len(s) - i
      /\ \A j \in 1 .. Len(s) - i : back[j] = s[i + j]
  <2>1. \A j \in i + 1 .. Len(s) : s[j] \in S
    OBVIOUS
  <2> QED
    BY <2>1, SubSeqProperties, Z3
<1> HIDE DEF front, back
<1>3. RemoveAt(s, i) = front \o back
  BY DEF RemoveAt, front, back
<1>4. /\ front \o back \in Seq(S)
      /\ Len(front \o back) = Len(front) + Len(back)
      /\ \A j \in 1 .. Len(front) + Len(back) :
           (front \o back)[j] = IF j <= Len(front) THEN front[j]
                                ELSE back[j - Len(front)]
  BY <1>1, <1>2, ConcatProperties
<1>5. Len(s) \in Nat
  OBVIOUS
<1>6. Len(front) + Len(back) = Len(s) - 1
  BY <1>1, <1>2, <1>5
<1>7. ASSUME NEW j \in 1 .. Len(s) - 1
      PROVE  (front \o back)[j] = IF j < i THEN s[j] ELSE s[j + 1]
  <2>1. CASE j < i
    BY <1>1, <1>4, <1>5, <1>6, <2>1
  <2>2. CASE ~ (j < i)
    <3>1. (front \o back)[j] = back[j - (i - 1)]
      BY <1>1, <1>4, <1>5, <1>6, <2>2
    <3>2. j - (i - 1) \in 1 .. Len(s) - i
      BY <1>5, <2>2
    <3>3. back[j - (i - 1)] = s[i + (j - (i - 1))]
      BY <1>2, <3>2
    <3>4. i + (j - (i - 1)) = j + 1
      BY <1>5
    <3> QED
      BY <2>2, <3>1, <3>3, <3>4
  <2> QED
    BY <2>1, <2>2
<1> QED
  BY <1>3, <1>4, <1>6, <1>7

\* RemoveFirst keeps the type of a sequence and makes it no longer.
LEMMA RemoveFirstType ==
  ASSUME NEW S, NEW s \in Seq(S), NEW e
  PROVE  /\ RemoveFirst(s, e) \in Seq(S)
         /\ Len(RemoveFirst(s, e)) =< Len(s)
<1>1. CASE \E i \in 1 .. Len(s) : s[i] = e
  <2> DEFINE I == {i \in 1 .. Len(s) : s[i] = e}
  <2>1. I \in SUBSET Nat /\ I # {}
    BY <1>1
  <2>2. Min(I) \in 1 .. Len(s)
    BY <2>1, MinIsMember
  <2>3. RemoveFirst(s, e) = RemoveAt(s, Min(I))
    BY <1>1, <2>1 DEF RemoveFirst, SelectInSeq
  <2> QED
    BY <2>2, <2>3, RemoveAtProperties
<1>2. CASE ~ \E i \in 1 .. Len(s) : s[i] = e
  BY <1>2 DEF RemoveFirst
<1> QED
  BY <1>1, <1>2

-----------------------------------------------------------------------------
(* Counting.                                                               *)

\* How many elements of a sequence are in a set.
CountIn(s, P) == Cardinality({i \in DOMAIN s : s[i] \in P})

LEMMA CountInType ==
  ASSUME NEW S, NEW s \in Seq(S), NEW P
  PROVE  /\ IsFiniteSet({i \in DOMAIN s : s[i] \in P})
         /\ CountIn(s, P) \in Nat
<1> DEFINE I == {i \in DOMAIN s : s[i] \in P}
<1>1. Len(s) \in Nat /\ DOMAIN s = 1 .. Len(s)
  BY LenProperties
<1>2. IsFiniteSet(1 .. Len(s))
  BY <1>1, FS_Interval
<1>3. I \in SUBSET (1 .. Len(s))
  BY <1>1
<1> HIDE DEF I
<1>4. IsFiniteSet(I) /\ Cardinality(I) \in Nat
  BY <1>2, <1>3, FS_Subset, FS_CardinalityType
<1> QED
  BY <1>4 DEF CountIn, I

LEMMA CountInEmpty ==
  ASSUME NEW P
  PROVE  CountIn(<<>>, P) = 0
<1>1. {i \in DOMAIN <<>> : <<>>[i] \in P} = {}
  OBVIOUS
<1> QED
  BY <1>1, FS_EmptySet DEF CountIn

LEMMA CountInZero ==
  ASSUME NEW S, NEW s \in Seq(S), NEW P
  PROVE  CountIn(s, P) = 0 <=> \A i \in DOMAIN s : s[i] \notin P
<1> DEFINE I == {i \in DOMAIN s : s[i] \in P}
<1>1. IsFiniteSet(I)
  BY CountInType
<1>2. Cardinality(I) = 0 <=> I = {}
  BY <1>1, FS_EmptySet
<1> QED
  BY <1>2 DEF CountIn

LEMMA CountInOne ==
  ASSUME NEW e, NEW P
  PROVE  CountIn(<<e>>, P) = IF e \in P THEN 1 ELSE 0
<1> DEFINE I == {i \in DOMAIN <<e>> : <<e>>[i] \in P}
<1>1. CASE e \in P
  <2>1. I = {1}
    BY <1>1
  <2> QED
    BY <1>1, <2>1, FS_Singleton DEF CountIn
<1>2. CASE e \notin P
  <2>1. I = {}
    BY <1>2
  <2> QED
    BY <1>2, <2>1, FS_EmptySet DEF CountIn
<1> QED
  BY <1>1, <1>2

\* Counts of the parts of a concatenation add up.
LEMMA CountInConcat ==
  ASSUME NEW S, NEW s \in Seq(S), NEW t \in Seq(S), NEW P
  PROVE  CountIn(s \o t, P) = CountIn(s, P) + CountIn(t, P)
<1> DEFINE n == Len(s)
           A == {i \in DOMAIN s : s[i] \in P}
           B == {i \in DOMAIN t : t[i] \in P}
           C == {n + i : i \in B}
           I == {i \in DOMAIN (s \o t) : (s \o t)[i] \in P}
           f == [i \in B |-> n + i]
<1>1. /\ n \in Nat /\ DOMAIN s = 1 .. n
      /\ Len(t) \in Nat /\ DOMAIN t = 1 .. Len(t)
      /\ DOMAIN (s \o t) = 1 .. n + Len(t)
      /\ \A i \in 1 .. n + Len(t) :
           (s \o t)[i] = IF i <= n THEN s[i] ELSE t[i - n]
  <2>1. /\ s \o t \in Seq(S) /\ Len(s \o t) = n + Len(t)
        /\ \A i \in 1 .. n + Len(t) :
             (s \o t)[i] = IF i <= n THEN s[i] ELSE t[i - n]
    BY ConcatProperties
  <2>2. DOMAIN (s \o t) = 1 .. Len(s \o t)
    BY <2>1, LenProperties
  <2> QED
    BY <2>1, <2>2, LenProperties
<1>2. IsFiniteSet(A) /\ IsFiniteSet(B)
  BY CountInType
<1>3. IsFiniteSet(C) /\ Cardinality(C) = Cardinality(B)
  <2>1. B \subseteq Nat
    BY <1>1
  <2>2. f \in [B -> C] /\ \A c \in C : \E i \in B : f[i] = c
    OBVIOUS
  <2>3. \A i, j \in B : f[i] = f[j] => i = j
    BY <1>1, <2>1
  <2> HIDE DEF f, B, C
  <2>4. f \in Bijection(B, C)
    BY <2>2, <2>3, Fun_IsBij
  <2> QED
    BY <1>2, <2>4, FS_Bijection DEF ExistsBijection
<1>4. I = A \cup C
  <2>1. ASSUME NEW i \in I PROVE i \in A \cup C
    <3>1. i \in 1 .. n + Len(t) /\ (s \o t)[i] \in P
      BY <1>1
    <3>2. CASE i <= n
      BY <1>1, <3>1, <3>2
    <3>3. CASE ~ (i <= n)
      <4>1. i - n \in B /\ i = n + (i - n)
        BY <1>1, <3>1, <3>3
      <4> QED
        BY <4>1
    <3> QED
      BY <3>2, <3>3
  <2>2. ASSUME NEW i \in A PROVE i \in I
    BY <1>1
  <2>3. ASSUME NEW j \in B PROVE n + j \in I
    <3>1. /\ n + j \in 1 .. n + Len(t) /\ ~ (n + j <= n) /\ n + j - n = j
          /\ t[j] \in P
      BY <1>1
    <3>2. (s \o t)[n + j] = t[n + j - n]
      BY <1>1, <3>1
    <3> QED
      BY <1>1, <3>1, <3>2
  <2> QED
    BY <2>1, <2>2, <2>3
<1>5. A \cap C = {}
  BY <1>1
<1> HIDE DEF A, B, C, I
<1>6. Cardinality(I) = Cardinality(A) + Cardinality(C) - Cardinality(A \cap C)
  BY <1>2, <1>3, <1>4, FS_Union
<1>7. Cardinality(A \cap C) = 0
  BY <1>5, FS_EmptySet
<1>8. Cardinality(A) \in Nat /\ Cardinality(C) \in Nat
  BY <1>2, <1>3, FS_CardinalityType
<1>9. Cardinality(I) = Cardinality(A) + Cardinality(B)
  BY <1>3, <1>6, <1>7, <1>8
<1> QED
  BY <1>9 DEF CountIn, A, B, I

LEMMA CountInAppend ==
  ASSUME NEW S, NEW s \in Seq(S), NEW e \in S, NEW P
  PROVE  CountIn(Append(s, e), P)
           = CountIn(s, P) + (IF e \in P THEN 1 ELSE 0)
<1>1. Append(s, e) = s \o <<e>> /\ <<e>> \in Seq(S)
  BY AppendIsConcat
<1>2. CountIn(s \o <<e>>, P) = CountIn(s, P) + CountIn(<<e>>, P)
  BY <1>1, CountInConcat
<1> QED
  BY <1>1, <1>2, CountInOne

LEMMA CountInTail ==
  ASSUME NEW S, NEW s \in Seq(S), s # <<>>, NEW P
  PROVE  CountIn(s, P) = CountIn(Tail(s), P) + (IF Head(s) \in P THEN 1 ELSE 0)
<1>1. Head(s) \in S /\ Tail(s) \in Seq(S) /\ <<Head(s)>> \in Seq(S)
  BY HeadTailProperties
<1>2. s = <<Head(s)>> \o Tail(s)
  <2>1. Len(s) \in Nat \ {0}
    BY EmptySeq
  <2>2. SubSeq(s, 1, Len(s)) = <<s[1]>> \o SubSeq(s, 1 + 1, Len(s))
    BY <2>1, SubSeqRecursiveFirst
  <2> QED
    BY <2>1, <2>2, SubSeqFull, TailIsSubSeq
<1>3. CountIn(s, P) = CountIn(<<Head(s)>>, P) + CountIn(Tail(s), P)
  BY <1>1, <1>2, CountInConcat
<1>4. CountIn(Tail(s), P) \in Nat
  BY <1>1, CountInType
<1> QED
  BY <1>3, <1>4, CountInOne

LEMMA CountInRemoveAt ==
  ASSUME NEW S, NEW s \in Seq(S), NEW i \in 1 .. Len(s), NEW P
  PROVE  CountIn(s, P)
           = CountIn(RemoveAt(s, i), P) + (IF s[i] \in P THEN 1 ELSE 0)
<1> DEFINE front == SubSeq(s, 1, i - 1)
           back == SubSeq(s, i + 1, Len(s))
<1>1. Len(s) \in Nat /\ s[i] \in S /\ <<s[i]>> \in Seq(S)
  BY LenProperties, ElementOfSeq
<1>2. front \in Seq(S) /\ back \in Seq(S)
  <2>1. \A j \in 1 .. i - 1 : s[j] \in S
    BY <1>1
  <2>2. \A j \in i + 1 .. Len(s) : s[j] \in S
    BY <1>1
  <2>3. 1 \in Int /\ i - 1 \in Int /\ i + 1 \in Int /\ Len(s) \in Int
    BY <1>1
  <2> QED
    BY <2>1, <2>2, <2>3, SubSeqProperties
<1>3. s = front \o (<<s[i]>> \o back)
  <2>1. SubSeq(s, 1, i - 1) \o SubSeq(s, (i - 1) + 1, Len(s)) = SubSeq(s, 1, Len(s))
    <3>1. /\ 1 \in 1 .. Len(s) + 1 /\ i - 1 \in 1 - 1 .. Len(s)
          /\ Len(s) \in i - 1 .. Len(s)
      BY <1>1
    <3> QED
      BY <3>1, ConcatAdjacentSubSeq
  <2>2. SubSeq(s, i, Len(s)) = <<s[i]>> \o SubSeq(s, i + 1, Len(s))
    BY <1>1, SubSeqRecursiveFirst
  <2>3. (i - 1) + 1 = i
    OBVIOUS
  <2> QED
    BY <2>1, <2>2, <2>3, SubSeqFull
<1>4. RemoveAt(s, i) = front \o back
  BY DEF RemoveAt
<1> HIDE DEF front, back
<1>5. <<s[i]>> \o back \in Seq(S)
  BY <1>1, <1>2, ConcatProperties
<1>6. CountIn(<<s[i]>> \o back, P) = CountIn(<<s[i]>>, P) + CountIn(back, P)
  BY <1>1, <1>2, CountInConcat
<1>7. CountIn(s, P) = CountIn(front, P) + CountIn(<<s[i]>> \o back, P)
  <2>1. CountIn(front \o (<<s[i]>> \o back), P)
          = CountIn(front, P) + CountIn(<<s[i]>> \o back, P)
    BY <1>2, <1>5, CountInConcat
  <2> QED
    BY <1>3, <2>1
<1>8. CountIn(RemoveAt(s, i), P) = CountIn(front, P) + CountIn(back, P)
  BY <1>2, <1>4, CountInConcat
<1>9. CountIn(front, P) \in Nat /\ CountIn(back, P) \in Nat
  BY <1>2, CountInType
<1> QED
  BY <1>6, <1>7, <1>8, <1>9, CountInOne

\* RemoveFirst takes one element out, if it is there, and no other.
LEMMA CountInRemoveFirst ==
  ASSUME NEW S, NEW s \in Seq(S), NEW e, NEW P
  PROVE  CountIn(s, P)
           = CountIn(RemoveFirst(s, e), P)
               + (IF e \in P /\ \E i \in DOMAIN s : s[i] = e THEN 1 ELSE 0)
<1>0. DOMAIN s = 1 .. Len(s) /\ CountIn(s, P) \in Nat
  BY LenProperties, CountInType
<1>1. CASE \E i \in 1 .. Len(s) : s[i] = e
  <2> DEFINE I == {i \in 1 .. Len(s) : s[i] = e}
  <2>1. I \in SUBSET Nat /\ I # {}
    BY <1>1
  <2>2. Min(I) \in 1 .. Len(s) /\ s[Min(I)] = e
    BY <2>1, MinIsMember
  <2>3. RemoveFirst(s, e) = RemoveAt(s, Min(I))
    BY <1>1, <2>1 DEF RemoveFirst, SelectInSeq
  <2> HIDE DEF I
  <2> QED
    BY <1>0, <1>1, <2>2, <2>3, CountInRemoveAt
<1>2. CASE ~ \E i \in 1 .. Len(s) : s[i] = e
  <2>1. RemoveFirst(s, e) = s
    BY <1>2 DEF RemoveFirst
  <2> QED
    BY <1>0, <1>2, <2>1
<1> QED
  BY <1>1, <1>2

-----------------------------------------------------------------------------
(* The sequence of the elements of a set.                                  *)

LEMMA SetToSeqLists ==
  ASSUME NEW S, IsFiniteSet(S)
  PROVE  /\ SetToSeq(S) \in Seq(S) /\ Len(SetToSeq(S)) = Cardinality(S)
         /\ SetToSeq(S) \in Bijection(1 .. Cardinality(S), S)
<1> DEFINE n == Cardinality(S)
           Listing(f) == f \in [1 .. n -> S] /\ IsInjective(f)
<1>1. n \in Nat /\ ExistsBijection(1 .. n, S)
  BY FS_CardinalityType
<1>2. \E f : Listing(f)
  <2>1. PICK f \in Bijection(1 .. n, S) : TRUE
    BY <1>1 DEF ExistsBijection
  <2> QED
    BY <2>1 DEF Bijection, Injection, IsInjective
<1>3. Listing(SetToSeq(S))
  BY <1>2 DEF SetToSeq
<1>4. SetToSeq(S) \in Seq(S) /\ Len(SetToSeq(S)) = n
  BY <1>1, <1>3
<1>5. SetToSeq(S) \in Injection(1 .. n, S)
  BY <1>3 DEF Injection
<1>6. IsFiniteSet(1 .. n) /\ Cardinality(1 .. n) = n
  BY <1>1, FS_Interval
<1>7. SetToSeq(S) \in Surjection(1 .. n, S)
  BY <1>5, <1>6, FS_Injection
<1> QED
  BY <1>4, <1>5, <1>7 DEF Bijection

\* It holds each element once.
LEMMA CountInSetToSeq ==
  ASSUME NEW S, IsFiniteSet(S), NEW P
  PROVE  CountIn(SetToSeq(S), P) = Cardinality(S \cap P)
<1> DEFINE s == SetToSeq(S)
           I == {i \in DOMAIN s : s[i] \in P}
           f == [i \in I |-> s[i]]
<1>1. s \in Bijection(1 .. Cardinality(S), S)
  BY SetToSeqLists
<1>2. IsFiniteSet(I)
  BY SetToSeqLists, CountInType
<1>3. /\ DOMAIN s = 1 .. Cardinality(S) /\ \A i \in DOMAIN s : s[i] \in S
      /\ \A i, j \in DOMAIN s : s[i] = s[j] => i = j
      /\ \A x \in S : \E i \in DOMAIN s : s[i] = x
  BY <1>1 DEF Bijection, Injection, Surjection, IsInjective
<1> HIDE DEF s
<1>4. f \in [I -> S \cap P] /\ \A x \in S \cap P : \E i \in I : f[i] = x
  BY <1>3
<1>5. \A i, j \in I : f[i] = f[j] => i = j
  BY <1>3
<1> HIDE DEF f, I
<1>6. f \in Bijection(I, S \cap P)
  BY <1>4, <1>5, Fun_IsBij
<1>7. Cardinality(S \cap P) = Cardinality(I)
  BY <1>2, <1>6, FS_Bijection DEF ExistsBijection
<1> QED
  BY <1>7 DEF CountIn, I, s

-----------------------------------------------------------------------------
(* The elements of a sequence.                                             *)

LEMMA RangeOfTail ==
  ASSUME NEW S, NEW s \in Seq(S), s # <<>>
  PROVE  Head(s) \in Range(s) /\ Range(Tail(s)) \subseteq Range(s)
<1>1. Len(s) \in Nat \ {0} /\ DOMAIN s = 1 .. Len(s) /\ Head(s) = s[1]
  BY EmptySeq, LenProperties
<1>2. /\ Tail(s) \in Seq(S) /\ Len(Tail(s)) = Len(s) - 1
      /\ \A i \in 1 .. Len(Tail(s)) : Tail(s)[i] = s[i + 1]
  BY HeadTailProperties
<1>3. DOMAIN Tail(s) = 1 .. Len(s) - 1
  BY <1>2, LenProperties
<1>4. ASSUME NEW i \in DOMAIN Tail(s) PROVE Tail(s)[i] \in Range(s)
  <2>1. i + 1 \in DOMAIN s /\ Tail(s)[i] = s[i + 1]
    BY <1>1, <1>2, <1>3
  <2> QED
    BY <2>1 DEF Range
<1>5. Head(s) \in Range(s)
  BY <1>1 DEF Range
<1> QED
  BY <1>4, <1>5 DEF Range

LEMMA RangeOfAppend ==
  ASSUME NEW S, NEW s \in Seq(S), NEW e \in S
  PROVE  Range(Append(s, e)) = Range(s) \cup {e}
<1>1. Append(s, e) = s \o <<e>> /\ <<e>> \in Seq(S)
  BY AppendIsConcat
<1>2. Range(s \o <<e>>) = Range(s) \cup Range(<<e>>)
  BY <1>1, RangeConcatenation
<1>3. Range(<<e>>) = {e}
  BY DEF Range
<1> QED
  BY <1>1, <1>2, <1>3

LEMMA CountInRange ==
  ASSUME NEW S, NEW s \in Seq(S), NEW P
  PROVE  CountIn(s, P) = 0 <=> Range(s) \cap P = {}
<1>1. CountIn(s, P) = 0 <=> \A i \in DOMAIN s : s[i] \notin P
  BY CountInZero
<1> QED
  BY <1>1 DEF Range

\* RemoveFirst keeps every other element and brings in no new one.
LEMMA RangeOfRemoveFirst ==
  ASSUME NEW S, NEW s \in Seq(S), NEW e
  PROVE  /\ Range(RemoveFirst(s, e)) \subseteq Range(s)
         /\ \A x \in Range(s) \ {e} : x \in Range(RemoveFirst(s, e))
         /\ s = <<>> => RemoveFirst(s, e) = <<>>
<1> DEFINE r == RemoveFirst(s, e)
<1>1. r \in Seq(S)
  BY RemoveFirstType
<1>2. \A P : /\ CountIn(s, P) \in Nat /\ CountIn(r, P) \in Nat
             /\ CountIn(s, P) = 0 <=> Range(s) \cap P = {}
             /\ CountIn(r, P) = 0 <=> Range(r) \cap P = {}
  BY <1>1, CountInType, CountInRange
<1>3. \A P : CountIn(s, P)
              = CountIn(r, P) + (IF e \in P /\ \E i \in DOMAIN s : s[i] = e THEN 1 ELSE 0)
  BY CountInRemoveFirst
<1> HIDE DEF r
<1>4. ASSUME NEW x \in Range(r) PROVE x \in Range(s)
  <2>1. CountIn(r, {x}) # 0 /\ CountIn(r, {x}) \in Nat
    BY <1>2
  <2>2. CountIn(s, {x}) # 0
    BY <1>3, <2>1
  <2> QED
    BY <1>2, <2>2
<1>5. ASSUME NEW x \in Range(s) \ {e} PROVE x \in Range(r)
  <2>1. CountIn(s, {x}) # 0 /\ CountIn(s, {x}) = CountIn(r, {x}) + 0
    BY <1>2, <1>3
  <2> QED
    BY <1>2, <2>1
<1>6. s = <<>> => r = <<>>
  BY DEF RemoveFirst, r
<1> QED
  BY <1>4, <1>5, <1>6 DEF r

=============================================================================
