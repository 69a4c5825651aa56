---------------------------- MODULE QueueLemmas -----------------------------
(***************************************************************************)
(* The queues of the simulator's events and messages: how often an element *)
(* occurs in one, how appending, removing the head and appending a batch   *)
(* change that number, what is first and last in two queues in a row, and  *)
(* the queue that holds each element of a set.                             *)
(***************************************************************************)
EXTENDS Integers, Sequences, FiniteSets, SequencesExt, FunctionTheorems,
        FiniteSetTheorems, SequenceTheorems, TLAPS

Occurrences(s, e) == {i \in DOMAIN s : s[i] = e}

Count(s, e) == Cardinality(Occurrences(s, e))

(* Occurrences are finitely many, so they have a number, and it is zero only *)
(* when the element does not occur.                                          *)
LEMMA CountType ==
    ASSUME NEW S, NEW s \in Seq(S), NEW e
    PROVE  /\ IsFiniteSet(Occurrences(s, e))
           /\ Count(s, e) \in Nat
           /\ Count(s, e) = 0 <=> Occurrences(s, e) = {}
<1>1. IsFiniteSet(1 .. Len(s))
  BY FS_Interval
<1>2. Occurrences(s, e) \subseteq 1 .. Len(s)
  BY DEF Occurrences
<1>3. IsFiniteSet(Occurrences(s, e))
  BY <1>1, <1>2, FS_Subset
<1>4. QED
  BY <1>3, FS_CardinalityType, FS_EmptySet DEF Count

(* The empty sequence contains nothing.                                      *)
LEMMA CountEmpty ==
    ASSUME NEW e
    PROVE  Count(<<>>, e) = 0
BY FS_EmptySet DEF Count, Occurrences

(* Where an element occurs in an appended sequence.                          *)
LEMMA CountAppend ==
    ASSUME NEW S, NEW s \in Seq(S), NEW x \in S, NEW e
    PROVE  Count(Append(s, x), e) = Count(s, e) + (IF x = e THEN 1 ELSE 0)
<1>1. IsFiniteSet(Occurrences(s, e))
  BY CountType
<1>2. CASE x = e
  <2>1. Occurrences(Append(s, x), e) = Occurrences(s, e) \cup {Len(s) + 1}
    BY <1>2 DEF Occurrences
  <2>2. Len(s) + 1 \notin Occurrences(s, e)
    BY DEF Occurrences
  <2>3. QED
    BY <1>1, <1>2, <2>1, <2>2, FS_AddElement DEF Count
<1>3. CASE x # e
  <2>1. Occurrences(Append(s, x), e) = Occurrences(s, e)
    BY <1>3 DEF Occurrences
  <2>2. QED
    BY <1>1, <1>3, <2>1, FS_CardinalityType DEF Count
<1>4. QED
  BY <1>2, <1>3

(* Removing the head removes one occurrence of the head.                     *)
LEMMA CountTail ==
    ASSUME NEW S, NEW s \in Seq(S), s # <<>>, NEW e
    PROVE  Count(Tail(s), e) = Count(s, e) - (IF Head(s) = e THEN 1 ELSE 0)
<1> DEFINE T == Occurrences(Tail(s), e)
           R == Occurrences(s, e) \ {1}
           f == [i \in T |-> i + 1]
<1>1. /\ Tail(s) \in Seq(S)
      /\ Len(Tail(s)) = Len(s) - 1
      /\ \A i \in 1 .. Len(s) - 1 : Tail(s)[i] = s[i + 1]
      /\ Len(s) \in Nat /\ Len(s) > 0
  OBVIOUS
<1>2. /\ T = {i \in 1 .. Len(s) - 1 : s[i + 1] = e}
      /\ R = {i \in 2 .. Len(s) : s[i] = e}
  BY <1>1 DEF Occurrences
<1>3. f \in Bijection(T, R)
  <2>1. f \in [T -> R]
    BY <1>1, <1>2
  <2>2. \A i, j \in T : f[i] = f[j] => i = j
    BY <1>2
  <2>3. \A k \in R : k - 1 \in T /\ f[k - 1] = k
    BY <1>1, <1>2
  <2> HIDE DEF f
  <2>4. /\ f \in [T -> R]
        /\ \A i \in T : \A j \in T : f[i] = f[j] => i = j
        /\ \A k \in R : \E i \in T : f[i] = k
    BY <2>1, <2>2, <2>3
  <2> HIDE DEF T, R
  <2>5. QED
    BY <2>4, Fun_IsBij
<1>4. IsFiniteSet(T) /\ IsFiniteSet(Occurrences(s, e))
  BY <1>1, CountType
<1>5. Cardinality(T) = Cardinality(R)
  <2>1. ExistsBijection(T, R)
    BY <1>3, Zenon DEF ExistsBijection
  <2> HIDE DEF T, R
  <2>2. QED
    BY <1>4, <2>1, FS_Bijection
<1>6. CASE Head(s) = e
  <2>1. 1 \in Occurrences(s, e)
    BY <1>1, <1>6 DEF Occurrences
  <2>2. Cardinality(R) = Cardinality(Occurrences(s, e)) - 1
    BY <1>4, <2>1, FS_RemoveElement
  <2>3. QED
    BY <1>5, <1>6, <2>2 DEF Count
<1>7. CASE Head(s) # e
  <2>1. R = Occurrences(s, e)
    BY <1>1, <1>7 DEF Occurrences
  <2>2. Cardinality(Occurrences(s, e)) \in Nat
    BY <1>4, FS_CardinalityType
  <2>3. Count(s, e) \in Nat /\ Count(Tail(s), e) = Count(s, e)
    BY <1>5, <2>1, <2>2, Zenon DEF Count
  <2>4. QED
    BY <1>7, <2>3
<1>8. QED
  BY <1>6, <1>7

\* t is s followed by k copies of x
Followed(s, t, x, k) ==
    /\ Len(t) = Len(s) + k
    /\ \A i \in 1 .. Len(s) : t[i] = s[i]
    /\ \A i \in Len(s) + 1 .. Len(s) + k : t[i] = x

(* A sequence s followed by k copies of x has k occurrences of x more than s *)
(* and as many of anything else.                                             *)
LEMMA CountBatch ==
    ASSUME NEW S, NEW s \in Seq(S), NEW x, NEW k \in Nat, NEW e,
           NEW t \in Seq(S), Followed(s, t, x, k)
    PROVE  Count(t, e) = Count(s, e) + (IF x = e THEN k ELSE 0)
<1> DEFINE New == Len(s) + 1 .. Len(s) + k
<1>1. Len(s) \in Nat /\ DOMAIN s = 1 .. Len(s) /\ DOMAIN t = 1 .. Len(s) + k
  BY DEF Followed
<1>2. IsFiniteSet(Occurrences(s, e)) /\ Cardinality(Occurrences(s, e)) \in Nat
  BY CountType DEF Count
<1>3. CASE x = e
  <2>1. Occurrences(t, e) = Occurrences(s, e) \cup New
    BY <1>1, <1>3 DEF Followed, Occurrences
  <2>2. Occurrences(s, e) \cap New = {}
    BY <1>1 DEF Occurrences
  <2>3. IsFiniteSet(New) /\ Cardinality(New) = k
    BY <1>1, FS_Interval
  <2>4. Cardinality(Occurrences(s, e) \cap New) = 0
    BY <2>2, FS_EmptySet
  <2> HIDE DEF New
  <2>5. Cardinality(Occurrences(s, e) \cup New)
          = Cardinality(Occurrences(s, e)) + Cardinality(New)
              - Cardinality(Occurrences(s, e) \cap New)
    BY <1>2, <2>3, FS_Union, Zenon
  <2>6. QED
    BY <1>2, <1>3, <2>1, <2>3, <2>4, <2>5 DEF Count
<1>4. CASE x # e
  <2>1. Occurrences(t, e) = Occurrences(s, e)
    BY <1>1, <1>4 DEF Followed, Occurrences
  <2>2. QED
    BY <1>2, <1>4, <2>1 DEF Count
<1>5. QED
  BY <1>3, <1>4

(* What is left of a sequence when its first k elements are dropped.         *)
LEMMA Dropped ==
    ASSUME NEW S, NEW s \in Seq(S), NEW k \in 1 .. Len(s)
    PROVE  LET t == SubSeq(s, k + 1, Len(s))
           IN  /\ t \in Seq(S)
               /\ DOMAIN t = 1 .. Len(s) - k
               /\ \A i \in DOMAIN t : i + k \in DOMAIN s /\ t[i] = s[i + k]
<1>1. PICK n \in Nat : n = Len(s)
  OBVIOUS
<1> DEFINE t == SubSeq(s, k + 1, n)
<1>2. k \in Nat /\ k > 0 /\ k =< n /\ DOMAIN s = 1 .. n
  BY <1>1
<1>3. /\ t \in Seq(S)
      /\ DOMAIN t = 1 .. n - k
      /\ \A i \in 1 .. n - k : t[i] = s[i + k]
  BY <1>1
<1>4. \A i \in 1 .. n - k : i + k \in 1 .. n
  BY <1>2
<1>5. QED
  BY <1>1, <1>2, <1>3, <1>4

(* When the first k elements of a sequence are distinct, dropping them takes *)
(* away one occurrence of each of them.                                      *)
LEMMA CountDropDistinct ==
    ASSUME NEW S, NEW s \in Seq(S), NEW k \in 1 .. Len(s), NEW e,
           Cardinality({s[i] : i \in 1 .. k}) = k
    PROVE  Count(SubSeq(s, k + 1, Len(s)), e)
             = Count(s, e) - (IF e \in {s[i] : i \in 1 .. k} THEN 1 ELSE 0)
<1> DEFINE rest == SubSeq(s, k + 1, Len(s))
           dropped == {s[i] : i \in 1 .. k}
           P == {i \in 1 .. k : s[i] = e}
           T == Occurrences(rest, e)
           R == Occurrences(s, e) \ P
           g == [i \in 1 .. k |-> s[i]]
           f == [i \in T |-> i + k]
<1>0. PICK n \in Nat : n = Len(s)
  OBVIOUS
<1>1. /\ k \in Nat /\ k > 0 /\ k =< n /\ DOMAIN s = 1 .. n
      /\ rest \in Seq(S)
      /\ DOMAIN rest = 1 .. n - k
      /\ \A i \in 1 .. n - k : rest[i] = s[i + k]
  BY <1>0
<1> HIDE DEF rest
<1>2. IsFiniteSet(1 .. k) /\ Cardinality(1 .. k) = k
  <2>1. k \in Int /\ 1 \in Int /\ ~(1 > k) /\ k - 1 + 1 = k
    BY <1>1
  <2>2. QED
    BY <2>1, FS_Interval
<1>3. \A i, j \in 1 .. k : s[i] = s[j] => i = j
  <2>1. g \in [1 .. k -> dropped] /\ \A x \in dropped : \E i \in 1 .. k : g[i] = x
    OBVIOUS
  <2>2. g \in Surjection(1 .. k, dropped)
    BY <2>1, Zenon DEF Surjection
  <2>3. g \in Injection(1 .. k, dropped)
    BY <1>2, <2>2, FS_SurjSameCardinalityImpliesInj, Zenon
  <2>4. \A i, j \in 1 .. k : g[i] = g[j] => i = j
    BY <2>3 DEF Injection, IsInjective
  <2>5. QED
    BY <2>4
<1>4. Cardinality(P) = IF e \in dropped THEN 1 ELSE 0
  <2>1. CASE e \in dropped
    <3>1. PICK i \in 1 .. k : s[i] = e
      BY <2>1
    <3>2. P = {i}
      BY <1>3, <3>1
    <3>3. QED
      BY <2>1, <3>2, FS_Singleton
  <2>2. CASE e \notin dropped
    <3>1. P = {}
      BY <2>2
    <3>2. QED
      BY <2>2, <3>1, FS_EmptySet
  <2>3. QED
    BY <2>1, <2>2
<1>5. /\ T = {i \in 1 .. n - k : s[i + k] = e}
      /\ R = {i \in k + 1 .. n : s[i] = e}
      /\ P \subseteq Occurrences(s, e)
  BY <1>1 DEF Occurrences
<1>6. IsFiniteSet(T) /\ IsFiniteSet(Occurrences(s, e))
  BY <1>1, CountType
<1>7. Cardinality(R) = Cardinality(T)
  <2>1. /\ \A i \in T : i \in Int /\ i + k \in R
        /\ \A j \in R : j \in Int /\ j - k \in T
    BY <1>1, <1>5
  <2> HIDE DEF T, R
  <2>2. f \in [T -> R]
    BY <2>1
  <2>3. \A i, j \in T : f[i] = f[j] => i = j
    BY <1>1, <2>1
  <2>4. \A j \in R : \E i \in T : f[i] = j
    BY <1>1, <2>1
  <2> HIDE DEF f
  <2>5. ExistsBijection(T, R)
    BY <2>2, <2>3, <2>4, Fun_IsBij, Zenon DEF ExistsBijection
  <2>6. QED
    BY <1>6, <2>5, FS_Bijection
<1>8. Cardinality(R) = Cardinality(Occurrences(s, e)) - Cardinality(P)
  <2>1. Occurrences(s, e) \cap P = P
    BY <1>5
  <2>2. Cardinality(R)
          = Cardinality(Occurrences(s, e)) - Cardinality(Occurrences(s, e) \cap P)
    BY <1>6, FS_Difference, Zenon
  <2>3. QED
    BY <2>1, <2>2
<1> HIDE DEF P, R, T, dropped, rest
<1>9. Count(rest, e) = Count(s, e) - Cardinality(P)
  BY <1>7, <1>8 DEF Count, T
<1>10. QED
  BY <1>4, <1>9 DEF rest, dropped

-----------------------------------------------------------------------------
(* A message put at the end of the last queue is the last of all.            *)
LEMMA AppendLast ==
    ASSUME NEW S, NEW b \in Seq(S), NEW c \in Seq(S), NEW x \in S
    PROVE  b \o Append(c, x) = Append(b \o c, x)
<1>1. <<x>> \in Seq(S) /\ b \o c \in Seq(S)
  BY ConcatProperties
<1>2. /\ Append(c, x) = c \o <<x>>
      /\ Append(b \o c, x) = (b \o c) \o <<x>>
  BY <1>1, AppendIsConcat
<1>3. (b \o c) \o <<x>> = b \o (c \o <<x>>)
  BY <1>1, ConcatAssociative
<1>4. QED
  BY <1>2, <1>3, Zenon

(* What is taken from the first queue is the first of all.                   *)
LEMMA TakeFirst ==
    ASSUME NEW S, NEW b \in Seq(S), NEW c \in Seq(S), b # <<>>
    PROVE  /\ b \o c # <<>>
           /\ Head(b \o c) = Head(b)
           /\ Tail(b \o c) = Tail(b) \o c
<1>1. Head(b) \in S /\ Tail(b) \in Seq(S) /\ <<Head(b)>> \in Seq(S)
  BY HeadTailProperties
<1>2. b = <<Head(b)>> \o Tail(b)
  OBVIOUS
<1>3. (<<Head(b)>> \o Tail(b)) \o c = <<Head(b)>> \o (Tail(b) \o c)
  BY <1>1, ConcatAssociative
<1> DEFINE d == Tail(b) \o c
           h == Head(b)
<1>4. d \in Seq(S) /\ h \in S
  BY <1>1, ConcatProperties
<1> HIDE DEF d, h
<1>5. /\ <<h>> \o d # <<>>
      /\ Head(<<h>> \o d) = h
      /\ Tail(<<h>> \o d) = d
  BY <1>4
<1>6. b \o c = <<h>> \o d
  BY <1>2, <1>3, Zenon DEF d, h
<1>7. QED
  BY <1>5, <1>6, Zenon DEF d, h

(* All elements of a finite set are in its sequence.                         *)
LEMMA SetToSeqFacts ==
    ASSUME NEW S, IsFiniteSet(S)
    PROVE  /\ SetToSeq(S) \in Seq(S)
           /\ Cardinality(S) \in Nat /\ DOMAIN SetToSeq(S) = 1 .. Cardinality(S)
           /\ \A x \in S : \E i \in DOMAIN SetToSeq(S) : SetToSeq(S)[i] = x
<1> DEFINE n == Cardinality(S)
<1>1. n \in Nat /\ ExistsBijection(1 .. n, S)
  BY FS_CardinalityType
<1>2. PICK b : b \in Bijection(1 .. n, S)
  BY <1>1 DEF ExistsBijection
<1>3. \E f \in [1 .. n -> S] : IsInjective(f)
  BY <1>2 DEF Bijection, Injection
<1>4. SetToSeq(S) \in [1 .. n -> S] /\ IsInjective(SetToSeq(S))
  BY <1>3, Zenon DEF SetToSeq
<1>5. IsFiniteSet(1 .. n) /\ Cardinality(1 .. n) = n
  <2>1. Cardinality(1 .. n) = IF 1 > n THEN 0 ELSE n - 1 + 1
    BY <1>1, FS_Interval
  <2> QED
    BY <1>1, <2>1, FS_Interval
<1>6. SetToSeq(S) \in Injection(1 .. n, S)
  BY <1>4 DEF Injection
<1>7. SetToSeq(S) \in Surjection(1 .. n, S)
  BY <1>5, <1>6, FS_Injection
<1>8. \A x \in S : \E i \in 1 .. n : SetToSeq(S)[i] = x
  BY <1>7 DEF Surjection
<1>9. DOMAIN SetToSeq(S) = 1 .. n
  BY <1>4
<1>10. SetToSeq(S) \in Seq(S)
  BY <1>1, <1>4
<1> QED
  BY <1>1, <1>8, <1>9, <1>10
=============================================================================
