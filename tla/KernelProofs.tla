---------------------------- MODULE KernelProofs ----------------------------
(***************************************************************************)
(* Every operator of Kernel keeps the kernel data consistent: KernelOK, or *)
(* KernelBut and Loose while a thread is on its way from one list to       *)
(* another.                                                                *)
(***************************************************************************)
EXTENDS Cpu, FiniteSetTheorems, SequenceTheorems, WellFoundedInduction, TLAPS

(***************************************************************************)
(* What the sequence and set operators that Kernel is built from return.   *)
(***************************************************************************)
(* The least of a non-empty set of bounded numbers is in it, below the others. *)
LEMMA MinLemma ==
  ASSUME NEW n \in Nat, NEW S \in SUBSET (0 .. n), S # {}
  PROVE  /\ Min(S) \in S
         /\ \A y \in S : Min(S) <= y
<1> DEFINE upTo(x) == {y \in S : y <= x}
           U == {upTo(x) : x \in S}
<1>1. IsWellFoundedOn(StrictSubsetOrdering(0 .. n), SUBSET (0 .. n))
  <2>1. IsFiniteSet(0 .. n)
    BY FS_Interval
  <2>2. FiniteSubsetsOf(0 .. n) = SUBSET (0 .. n)
    BY <2>1, FS_FiniteSubsetsOfFinite
  <2>3. QED
    BY <2>2, FS_StrictSubsetOrderingWellFounded
<1>2. U \subseteq SUBSET (0 .. n) /\ U # {}
  OBVIOUS
<1> HIDE DEF U
<1>3. PICK u \in U : \A v \in U : ~ (<<v, u>> \in StrictSubsetOrdering(0 .. n))
  BY <1>1, <1>2, WFMin, Zenon
<1>4. PICK x \in S : u = upTo(x)
  BY <1>3 DEF U
<1>5. ASSUME NEW y \in S PROVE x <= y
  <2>1. SUFFICES ASSUME y < x PROVE FALSE
    OBVIOUS
  <2>2. upTo(y) \in U
    BY DEF U
  <2>3. upTo(y) \subseteq upTo(x) /\ x \in upTo(x) /\ x \notin upTo(y)
    <3>1. x \in Int /\ y \in Int /\ \A z \in S : z \in Int
      OBVIOUS
    <3>2. x <= x /\ ~ x <= y /\ \A z \in S : z <= y => z <= x
      BY <2>1, <3>1
    <3>3. QED
      BY <3>2
  <2>4. <<upTo(y), u>> \in StrictSubsetOrdering(0 .. n)
    BY <1>4, <2>3 DEF StrictSubsetOrdering
  <2>5. QED
    BY <1>3, <2>2, <2>4
<1>6. QED
  BY <1>5 DEF Min

(* The position that SelectInSeq finds holds the value looked for. *)
LEMMA SelectLemma ==
  ASSUME NEW T, NEW s \in Seq(T), NEW e, Contains(s, e)
  PROVE  LET i == SelectInSeq(s, LAMBDA v : v = e)
         IN  i \in 1 .. Len(s) /\ s[i] = e
<1> DEFINE I == {i \in 1 .. Len(s) : s[i] = e}
<1>1. Len(s) \in Nat /\ I \in SUBSET (0 .. Len(s)) /\ I # {}
  BY LenProperties DEF Contains
<1>2. Min(I) \in I
  BY <1>1, MinLemma
<1>3. QED
  BY <1>1, <1>2 DEF SelectInSeq

(* Append adds one element, and none twice if it was not there. *)
LEMMA AppendLemma ==
  ASSUME NEW T, NEW s \in Seq(T), NEW e \in T
  PROVE  /\ Append(s, e) \in Seq(T)
         /\ ToSet(Append(s, e)) = ToSet(s) \cup {e}
         /\ Append(s, e) # <<>>
         /\ IsInjective(s) /\ e \notin ToSet(s) => IsInjective(Append(s, e))
<1> DEFINE r == Append(s, e)
<1>1. /\ r \in Seq(T) /\ r # <<>>
      /\ Len(r) = Len(s) + 1 /\ Len(s) \in Nat
      /\ DOMAIN r = 1 .. Len(s) + 1 /\ DOMAIN s = 1 .. Len(s)
  BY AppendProperties, LenProperties
<1>2. \A j \in 1 .. Len(s) + 1 : r[j] = IF j <= Len(s) THEN s[j] ELSE e
  BY AppendProperties, <1>1
<1> HIDE DEF r
<1>3. ToSet(r) = ToSet(s) \cup {e}
  BY <1>1, <1>2 DEF ToSet
<1>4. ASSUME IsInjective(s), e \notin ToSet(s) PROVE IsInjective(r)
  BY <1>1, <1>2, <1>4 DEF IsInjective, ToSet
<1>5. QED
  BY <1>1, <1>3, <1>4 DEF r

(* Tail takes away the head, and nothing else if that is there once. *)
LEMMA TailLemma ==
  ASSUME NEW T, NEW s \in Seq(T), s # <<>>, IsInjective(s)
  PROVE  /\ Tail(s) \in Seq(T) /\ IsInjective(Tail(s))
         /\ ToSet(Tail(s)) = ToSet(s) \ {Head(s)} /\ Head(s) \in ToSet(s)
<1> DEFINE r == Tail(s)
<1>1. /\ r \in Seq(T) /\ Len(r) = Len(s) - 1 /\ Len(s) \in Nat \ {0} /\ Head(s) = s[1]
      /\ \A i \in 1 .. Len(s) - 1 : r[i] = s[i + 1]
  BY HeadTailProperties, EmptySeq, LenProperties
<1>2. DOMAIN r = 1 .. Len(s) - 1 /\ DOMAIN s = 1 .. Len(s)
  BY <1>1, LenProperties
<1> HIDE DEF r
<1>a. \A i, j \in 1 .. Len(s) : s[i] = s[j] => i = j
  BY <1>2 DEF IsInjective
<1>b. \A i \in 1 .. Len(s) - 1 : i + 1 \in 1 .. Len(s) /\ i + 1 # 1
  BY <1>1
<1>c. 1 \in 1 .. Len(s)
  BY <1>1
<1>3. IsInjective(r) /\ \A i \in 1 .. Len(s) - 1 : r[i] # s[1]
  <2>1. \A i, j \in 1 .. Len(s) - 1 : r[i] = r[j] => i = j
    BY <1>1, <1>a, <1>b
  <2>2. \A i \in 1 .. Len(s) - 1 : r[i] # s[1]
    BY <1>1, <1>a, <1>b, <1>c
  <2> QED
    BY <1>2, <2>1, <2>2 DEF IsInjective
<1>4. \A j \in 2 .. Len(s) : j - 1 \in 1 .. Len(s) - 1 /\ r[j - 1] = s[j]
  BY <1>1
<1>d. \A j \in 1 .. Len(s) : j = 1 \/ j \in 2 .. Len(s)
  BY <1>1
<1>5. ToSet(s) = {s[1]} \cup ToSet(r)
  <2>1. ASSUME NEW x \in ToSet(s) PROVE x = s[1] \/ x \in ToSet(r)
    BY <1>2, <1>4, <1>d DEF ToSet
  <2>2. ToSet(r) \subseteq ToSet(s) /\ s[1] \in ToSet(s)
    BY <1>1, <1>2, <1>b, <1>c DEF ToSet
  <2> QED
    BY <2>1, <2>2
<1>6. s[1] \notin ToSet(r) /\ s[1] \in ToSet(s)
  BY <1>2, <1>3, <1>5 DEF ToSet
<1> QED
  BY <1>1, <1>3, <1>5, <1>6 DEF r

(* The elements in front of position m *)
LEMMA PrefixLemma ==
  ASSUME NEW T, NEW s \in Seq(T), NEW m \in 1 .. Len(s) + 1
  PROVE  /\ SubSeq(s, 1, m - 1) \in Seq(T)
         /\ Len(SubSeq(s, 1, m - 1)) = m - 1
         /\ \A j \in 1 .. m - 1 : SubSeq(s, 1, m - 1)[j] = s[j]
<1> Len(s) \in Nat /\ \A j \in 1 .. Len(s) : s[j] \in T
  BY LenProperties, ElementOfSeq
<1> QED
  BY SubSeqProperties

(* The elements from position m on *)
LEMMA SuffixLemma ==
  ASSUME NEW T, NEW s \in Seq(T), NEW m \in 1 .. Len(s) + 1
  PROVE  /\ SubSeq(s, m, Len(s)) \in Seq(T)
         /\ Len(SubSeq(s, m, Len(s))) = Len(s) - m + 1
         /\ \A j \in 1 .. Len(s) - m + 1 : SubSeq(s, m, Len(s))[j] = s[m + j - 1]
<1> Len(s) \in Nat /\ \A j \in 1 .. Len(s) : s[j] \in T
  BY LenProperties, ElementOfSeq
<1> QED
  BY SubSeqProperties

(* InsertAt moves the elements from position i on one place up. *)
LEMMA InsertAtPlaces ==
  ASSUME NEW T, NEW s \in Seq(T), NEW e \in T, NEW i \in 1 .. Len(s) + 1
  PROVE  LET r == InsertAt(s, i, e)
         IN  /\ r \in Seq(T) /\ Len(r) = Len(s) + 1
             /\ \A j \in 1 .. Len(s) + 1 :
                  r[j] = IF j < i THEN s[j] ELSE IF j = i THEN e ELSE s[j - 1]
<1> DEFINE r == InsertAt(s, i, e)
           before == SubSeq(s, 1, i - 1)
           after == SubSeq(s, i, Len(s))
<1> Len(s) \in Nat /\ DOMAIN s = 1 .. Len(s) /\ \A j \in 1 .. Len(s) : s[j] \in T
  BY LenProperties, ElementOfSeq
<1>a. /\ before \in Seq(T) /\ Len(before) = i - 1
      /\ \A j \in 1 .. i - 1 : before[j] = s[j]
  BY SubSeqProperties
<1>b. /\ after \in Seq(T) /\ Len(after) = Len(s) - i + 1
      /\ \A j \in 1 .. Len(s) - i + 1 : after[j] = s[i + j - 1]
  BY SubSeqProperties
<1>c. <<e>> \in Seq(T) /\ Len(<<e>>) = 1 /\ <<e>>[1] = e
  OBVIOUS
<1> HIDE DEF before, after
<1>d. /\ before \o <<e>> \in Seq(T) /\ Len(before \o <<e>>) = i
      /\ \A j \in 1 .. i : (before \o <<e>>)[j] = IF j < i THEN s[j] ELSE e
  BY <1>a, <1>c, ConcatProperties
<1>e. r = (before \o <<e>>) \o after
  BY DEF InsertAt, before, after
<1> HIDE DEF r
<1> DEFINE b == before \o <<e>>
<1> HIDE DEF b
<1>f. /\ b \in Seq(T) /\ Len(b) = i
      /\ \A j \in 1 .. i : b[j] = IF j < i THEN s[j] ELSE e
  BY <1>d DEF b
<1>g. r = b \o after
  BY <1>e DEF b
<1>1. r \in Seq(T) /\ Len(r) = Len(s) + 1
  BY <1>b, <1>f, <1>g, ConcatProperties, SMTT(60)
<1>2. \A j \in 1 .. Len(s) + 1 :
        r[j] = IF j < i THEN s[j] ELSE IF j = i THEN e ELSE s[j - 1]
  <2>1. \A j \in 1 .. Len(b) + Len(after) :
          r[j] = IF j <= Len(b) THEN b[j] ELSE after[j - Len(b)]
    BY <1>b, <1>f, <1>g, ConcatProperties
  <2>2. QED
    BY <2>1, <1>b, <1>f
<1>3. QED
  BY <1>1, <1>2 DEF r

(* InsertAt adds one element, and none twice if it was not there. *)
LEMMA InsertAtLemma ==
  ASSUME NEW T, NEW s \in Seq(T), NEW e \in T, NEW i \in 1 .. Len(s) + 1
  PROVE  /\ InsertAt(s, i, e) \in Seq(T)
         /\ ToSet(InsertAt(s, i, e)) = ToSet(s) \cup {e}
         /\ IsInjective(s) /\ e \notin ToSet(s) => IsInjective(InsertAt(s, i, e))
<1> DEFINE r == InsertAt(s, i, e)
<1>0. Len(s) \in Nat
  BY LenProperties
<1>a. /\ r \in Seq(T) /\ Len(r) = Len(s) + 1
      /\ \A j \in 1 .. Len(s) + 1 :
           r[j] = IF j < i THEN s[j] ELSE IF j = i THEN e ELSE s[j - 1]
  BY InsertAtPlaces, SMTT(30)
<1> HIDE DEF r
<1>1. r \in Seq(T) /\ Len(r) = Len(s) + 1
  BY <1>a
<1>2. \A j \in 1 .. Len(s) + 1 :
        r[j] = IF j < i THEN s[j] ELSE IF j = i THEN e ELSE s[j - 1]
  BY <1>a
<1>3. DOMAIN r = 1 .. Len(s) + 1 /\ DOMAIN s = 1 .. Len(s)
  BY <1>1, LenProperties
<1>4. ToSet(r) = ToSet(s) \cup {e}
  <2>1. ToSet(r) \subseteq ToSet(s) \cup {e}
    BY <1>2, <1>3 DEF ToSet
  <2>2. e \in ToSet(r)
    BY <1>2, <1>3 DEF ToSet
  <2>3. ASSUME NEW j \in 1 .. Len(s) PROVE s[j] \in ToSet(r)
    <3>1. CASE j < i  BY <3>1, <1>2, <1>3 DEF ToSet
    <3>2. CASE j >= i
      <4>1. r[j + 1] = s[j] /\ j + 1 \in DOMAIN r  BY <3>2, <1>2, <1>3
      <4>2. QED  BY <4>1 DEF ToSet
    <3>3. QED  BY <3>1, <3>2
  <2>4. QED  BY <2>1, <2>2, <2>3, <1>3 DEF ToSet
<1>5. ASSUME IsInjective(s), e \notin ToSet(s) PROVE IsInjective(r)
  BY <1>0, <1>2, <1>3, <1>5, SMTT(60) DEF IsInjective, ToSet
<1>6. QED
  BY <1>1, <1>4, <1>5 DEF r

(* RemoveAt moves the elements behind the removed one a place down. *)
LEMMA RemoveAtPlaces ==
  ASSUME NEW T, NEW s \in Seq(T), NEW i \in 1 .. Len(s)
  PROVE  LET r == RemoveAt(s, i)
         IN  /\ r \in Seq(T) /\ Len(r) = Len(s) - 1
             /\ \A j \in 1 .. Len(s) - 1 :
                  r[j] = IF j < i THEN s[j] ELSE s[j + 1]
<1> DEFINE r == RemoveAt(s, i)
<1> HIDE DEF r
<1> DEFINE before == SubSeq(s, 1, i - 1)
           after == SubSeq(s, i + 1, Len(s))
<1>0. Len(s) \in Nat /\ DOMAIN s = 1 .. Len(s) /\ \A j \in 1 .. Len(s) : s[j] \in T
  BY LenProperties, ElementOfSeq
<1>a. /\ before \in Seq(T) /\ Len(before) = i - 1
      /\ \A j \in 1 .. i - 1 : before[j] = s[j]
  BY <1>0, SubSeqProperties
<1>b. /\ after \in Seq(T) /\ Len(after) = Len(s) - i
      /\ \A j \in 1 .. Len(s) - i : after[j] = s[i + j]
  <2>1. i + 1 \in 1 .. Len(s) + 1
    BY <1>0
  <2>2. /\ after \in Seq(T)
        /\ Len(after) = Len(s) - (i + 1) + 1
        /\ \A j \in 1 .. Len(s) - (i + 1) + 1 : after[j] = s[(i + 1) + j - 1]
    BY <2>1, SuffixLemma
  <2> HIDE DEF after
  <2>3. Len(s) \in Int /\ i \in Int
    BY <1>0
  <2>4. Len(s) - (i + 1) + 1 = Len(s) - i /\ \A j \in 1 .. Len(s) - i : (i + 1) + j - 1 = i + j
    BY <2>3
  <2>5. QED
    BY <2>2, <2>3, <2>4
<1>c. r = before \o after
  BY DEF RemoveAt, r
<1> HIDE DEF before, after
<1>3. r \in Seq(T) /\ Len(r) = Len(s) - 1
  <2>1. r \in Seq(T) /\ Len(r) = Len(before) + Len(after)
    BY <1>a, <1>b, <1>c, ConcatProperties
  <2>2. Len(s) \in Int /\ i \in Int
    BY <1>0
  <2>3. QED
    BY <2>1, <2>2, <1>a, <1>b
<1>d. \A j \in 1 .. Len(before) + Len(after) :
        r[j] = IF j <= Len(before) THEN before[j] ELSE after[j - Len(before)]
  BY <1>a, <1>b, <1>c, ConcatProperties
<1>4. \A j \in 1 .. Len(s) - 1 : r[j] = IF j < i THEN s[j] ELSE s[j + 1]
  <2>1. Len(s) \in Int /\ i \in Int /\ Len(before) + Len(after) = Len(s) - 1
    BY <1>0, <1>a, <1>b
  <2>2. ASSUME NEW j \in 1 .. Len(s) - 1, j < i PROVE r[j] = s[j]
    BY <2>1, <2>2, <1>a, <1>d
  <2>3. ASSUME NEW j \in 1 .. Len(s) - 1, ~ (j < i) PROVE r[j] = s[j + 1]
    <3>1. r[j] = after[j - (i - 1)]
      BY <2>1, <2>3, <1>a, <1>d
    <3>2. j - (i - 1) \in 1 .. Len(s) - i /\ i + (j - (i - 1)) = j + 1
      BY <2>1, <2>3
    <3>3. QED
      BY <3>1, <3>2, <1>b
  <2>4. QED
    BY <2>2, <2>3
<1>5. QED
  BY <1>3, <1>4 DEF r

(* So does RemoveFirst, at the first place of the element it removes. *)
LEMMA RemoveFirstPlaces ==
  ASSUME NEW T, NEW s \in Seq(T), NEW e, Contains(s, e)
  PROVE  LET r == RemoveFirst(s, e)
         IN  /\ r \in Seq(T) /\ Len(r) = Len(s) - 1
             /\ \E i \in 1 .. Len(s) :
                  /\ s[i] = e
                  /\ \A j \in 1 .. Len(s) - 1 :
                       r[j] = IF j < i THEN s[j] ELSE s[j + 1]
<1> DEFINE i == SelectInSeq(s, LAMBDA v : v = e)
<1>1. i \in 1 .. Len(s) /\ s[i] = e
  BY SelectLemma
<1>2. RemoveFirst(s, e) = RemoveAt(s, i)
  BY DEF RemoveFirst, Contains
<1> HIDE DEF i
<1>3. QED
  BY <1>1, <1>2, RemoveAtPlaces

(* RemoveFirst takes one element away from a sequence without duplicates. *)
LEMMA RemoveFirstLemma ==
  ASSUME NEW T, NEW s \in Seq(T), NEW e
  PROVE  /\ RemoveFirst(s, e) \in Seq(T)
         /\ ~ Contains(s, e) => RemoveFirst(s, e) = s
         /\ IsInjective(s) => /\ IsInjective(RemoveFirst(s, e))
                           /\ ToSet(RemoveFirst(s, e)) = ToSet(s) \ {e}
<1> DEFINE r == RemoveFirst(s, e)
<1>1. CASE ~ Contains(s, e)
  BY <1>1 DEF RemoveFirst, Contains, ToSet
<1>2. CASE Contains(s, e)
  <2>0. Len(s) \in Nat /\ r \in Seq(T) /\ Len(r) = Len(s) - 1
    BY <1>2, LenProperties, RemoveFirstPlaces
  <2>1. PICK i \in 1 .. Len(s) :
          /\ s[i] = e
          /\ \A j \in 1 .. Len(s) - 1 : r[j] = IF j < i THEN s[j] ELSE s[j + 1]
    BY <1>2, RemoveFirstPlaces
  <2> HIDE DEF r
  <2>2. DOMAIN r = 1 .. Len(s) - 1 /\ DOMAIN s = 1 .. Len(s)
    BY <2>0, LenProperties
  <2>3. ASSUME IsInjective(s) PROVE IsInjective(r) /\ ToSet(r) = ToSet(s) \ {e}
    <3>1. IsInjective(r)
      BY <2>1, <2>2, <2>3, SMTT(60) DEF IsInjective
    <3>2. ToSet(r) \subseteq ToSet(s) \ {e}
      BY <2>1, <2>2, <2>3 DEF IsInjective, ToSet
    <3>3. ASSUME NEW j \in 1 .. Len(s), s[j] # e PROVE s[j] \in ToSet(r)
      <4>1. CASE j < i  BY <4>1, <2>1, <2>2 DEF ToSet
      <4>2. CASE j > i
        <5>1. r[j - 1] = s[j] /\ j - 1 \in DOMAIN r
          BY <4>2, <2>0, <2>1, <2>2
        <5>2. QED  BY <5>1 DEF ToSet
      <4>3. QED  BY <4>1, <4>2, <3>3, <2>1
    <3>4. QED  BY <3>1, <3>2, <3>3, <2>2 DEF ToSet
  <2>4. QED
    BY <2>0, <2>3, <1>2 DEF r
<1>3. QED
  BY <1>1, <1>2

(* SetToSeq lists every element of a finite set once. *)
LEMMA SetToSeqLemma ==
  ASSUME NEW S, IsFiniteSet(S)
  PROVE  /\ SetToSeq(S) \in Seq(S)
         /\ ToSet(SetToSeq(S)) = S
         /\ IsInjective(SetToSeq(S))
<1> DEFINE n == Cardinality(S)
<1>1. n \in Nat /\ ExistsBijection(1 .. n, S)
  BY FS_CardinalityType
<1>2. PICK f : f \in Bijection(1 .. n, S)
  BY <1>1 DEF ExistsBijection
<1>3. f \in [1 .. n -> S] /\ IsInjective(f)
  BY <1>2 DEF Bijection, Injection, IsInjective
<1> DEFINE r == SetToSeq(S)
<1>4. r \in [1 .. n -> S] /\ IsInjective(r)
  BY <1>3 DEF SetToSeq
<1> HIDE DEF r
<1>5. r \in Seq(S) /\ IsInjective(r)
  BY <1>1, <1>4 DEF IsInjective
<1>6. r \in Injection(1 .. n, S)
  BY <1>4 DEF Injection, IsInjective
<1>7. \A x \in S : \E j \in 1 .. n : r[j] = x
  <2>1. IsFiniteSet(1 .. n) /\ Cardinality(1 .. n) = n
    BY <1>1, FS_Interval
  <2>2. r \in Surjection(1 .. n, S)
    BY <1>1, <1>6, <2>1, FS_Injection
  <2>3. QED
    BY <2>2 DEF Surjection
<1>9. ToSet(r) = S
  BY <1>4, <1>7 DEF ToSet
<1>8. QED
  BY <1>5, <1>9 DEF r

(* the values that f gives to the elements of s never decrease *)
Ordered(f, s) == \A i, j \in 1 .. Len(s) : i < j => f[s[i]] <= f[s[j]]

(* Taking an element away leaves the others in order. *)
LEMMA RemoveKeepsOrder ==
  ASSUME NEW T, NEW s \in Seq(T), NEW e, NEW f, Ordered(f, s)
  PROVE  Ordered(f, RemoveFirst(s, e))
<1> DEFINE r == RemoveFirst(s, e)
<1>1. CASE ~ Contains(s, e)
  BY <1>1, RemoveFirstLemma
<1>2. CASE Contains(s, e)
  <2>1. Len(s) \in Nat /\ Len(r) = Len(s) - 1
    BY <1>2, LenProperties, RemoveFirstPlaces
  <2>2. PICK n \in 1 .. Len(s) :
          \A j \in 1 .. Len(s) - 1 : r[j] = IF j < n THEN s[j] ELSE s[j + 1]
    BY <1>2, RemoveFirstPlaces
  <2> HIDE DEF r
  <2>3. ASSUME NEW i \in 1 .. Len(r), NEW j \in 1 .. Len(r), i < j
        PROVE  f[r[i]] <= f[r[j]]
    <3> DEFINE a == IF i < n THEN i ELSE i + 1
               b == IF j < n THEN j ELSE j + 1
    <3>1. a \in 1 .. Len(s) /\ b \in 1 .. Len(s) /\ a < b
      BY <2>1, <2>3
    <3>2. r[i] = s[a] /\ r[j] = s[b]
      BY <2>1, <2>2
    <3> HIDE DEF a, b
    <3>3. QED
      BY <3>1, <3>2 DEF Ordered
  <2>4. QED
    BY <2>3 DEF Ordered, r
<1>3. QED
  BY <1>1, <1>2

(* An element between the smaller and the greater ones leaves them in order. *)
LEMMA InsertKeepsOrder ==
  ASSUME NEW T, NEW s \in Seq(T), NEW e \in T, NEW n \in 1 .. Len(s) + 1,
         NEW f, Ordered(f, s),
         \A j \in 1 .. Len(s) : j < n => f[s[j]] <= f[e],
         \A j \in 1 .. Len(s) : n <= j => f[e] <= f[s[j]]
  PROVE  Ordered(f, InsertAt(s, n, e))
<1> DEFINE r == InsertAt(s, n, e)
<1>1. Len(s) \in Nat /\ Len(r) = Len(s) + 1
  BY LenProperties, InsertAtPlaces
<1>2. \A j \in 1 .. Len(s) + 1 :
        r[j] = IF j < n THEN s[j] ELSE IF j = n THEN e ELSE s[j - 1]
  BY InsertAtPlaces
<1> HIDE DEF r
<1>3. ASSUME NEW i \in 1 .. Len(r), NEW j \in 1 .. Len(r), i < j
      PROVE  f[r[i]] <= f[r[j]]
  <2>1. CASE i = n
    <3>1. r[i] = e /\ r[j] = s[j - 1] /\ j - 1 \in 1 .. Len(s) /\ n <= j - 1
      BY <1>1, <1>2, <1>3, <2>1
    <3>2. QED
      BY <3>1
  <2>2. CASE j = n
    <3>1. r[j] = e /\ r[i] = s[i] /\ i \in 1 .. Len(s) /\ i < n
      BY <1>1, <1>2, <1>3, <2>2
    <3>2. QED
      BY <3>1
  <2>3. CASE i # n /\ j # n
    <3> DEFINE a == IF i < n THEN i ELSE i - 1
               b == IF j < n THEN j ELSE j - 1
    <3>1. a \in 1 .. Len(s) /\ b \in 1 .. Len(s) /\ a < b
      BY <1>1, <1>3, <2>3
    <3>2. r[i] = s[a] /\ r[j] = s[b]
      BY <1>1, <1>2, <2>3
    <3> HIDE DEF a, b
    <3>3. QED
      BY <3>1, <3>2 DEF Ordered
  <2>4. QED
    BY <2>1, <2>2, <2>3
<1>4. QED
  BY <1>3 DEF Ordered, r

(* In an ordered sequence the head is the least. *)
LEMMA HeadIsLeast ==
  ASSUME NEW T, NEW s \in Seq(T), s # <<>>, NEW f \in [T -> Int], Ordered(f, s)
  PROVE  \A x \in ToSet(s) : f[Head(s)] <= f[x]
<1>1. /\ Len(s) \in Nat /\ 1 \in 1 .. Len(s) /\ Head(s) = s[1]
      /\ DOMAIN s = 1 .. Len(s) /\ \A j \in 1 .. Len(s) : s[j] \in T
  BY EmptySeq, LenProperties, HeadTailProperties, ElementOfSeq
<1>2. ASSUME NEW j \in 1 .. Len(s) PROVE f[s[1]] <= f[s[j]]
  <2>1. CASE j = 1
    BY <1>1, <2>1
  <2>2. CASE 1 < j
    BY <1>1, <2>2 DEF Ordered
  <2>3. QED
    BY <2>1, <2>2
<1>3. QED
  BY <1>1, <1>2 DEF ToSet

(***************************************************************************)
(* The functions of Kernel                                                 *)
(***************************************************************************)
(* KernelOK but for thread t, which is in no list *)
KernelBut(k, t) ==
  /\ k \in KernelState
  /\ ~k.fault
  /\ \A p \in Priority :
       /\ p \in k.group <=> k.ready[p] # <<>>
       /\ IsInjective(k.ready[p])
       /\ \A u \in ToSet(k.ready[p]) :
            u # t /\ k.stat[u] = "READY" /\ k.priority[u] = p
  /\ \A u \in Thread \ {t} :
       /\ k.stat[u] = "READY" => u \in ToSet(k.ready[k.priority[u]])
       /\ k.stat[u] = "RUNNING" => u = k.current
       /\ u \in k.timer => k.stat[u] = "SUSPEND"
       /\ u = Idle => k.stat[u] \in {"READY", "RUNNING"}
  /\ \A l \in List :
       /\ IsInjective(k.list[l])
       /\ \A u \in ToSet(k.list[l]) : u # t /\ k.stat[u] = ListedStat(l)
  /\ \A l, m \in List :
       ToSet(k.list[l]) \cap ToSet(k.list[m]) # {} => l = m

(* KernelOK but for the current thread, which may still be in a ready queue *)
Loose(k) ==
  /\ k \in KernelState
  /\ ~k.fault
  /\ ReadyQueueOK(k)
  /\ SuspendListOK(k)
  /\ \A t \in Thread : k.stat[t] = "RUNNING" => t = k.current
  /\ k.stat[Idle] \in {"READY", "RUNNING"}
  /\ \A t \in k.timer : k.stat[t] = "SUSPEND"

(* Loose is all of KernelOK but for the state of the current thread. *)
LEMMA KernelOKLoose ==
  ASSUME NEW k
  PROVE  KernelOK(k) <=> Loose(k) /\ k.stat[k.current] # "READY"
BY DEF KernelOK, Loose, CurrentOK

(* A kernel state is its fields. *)
LEMMA SameFields ==
  ASSUME NEW k \in KernelState, NEW u \in KernelState,
         k.current = u.current, k.stat = u.stat, k.yield = u.yield,
         k.priority = u.priority, k.error = u.error, k.timer = u.timer,
         k.ready = u.ready, k.group = u.group, k.list = u.list,
         k.lock = u.lock, k.fault = u.fault
  PROVE  k = u
<1>1. k = [current |-> k.current, stat |-> k.stat, yield |-> k.yield,
           priority |-> k.priority, error |-> k.error, timer |-> k.timer,
           ready |-> k.ready, group |-> k.group, list |-> k.list,
           lock |-> k.lock, fault |-> k.fault]
  BY DEF KernelState
<1>2. u = [current |-> u.current, stat |-> u.stat, yield |-> u.yield,
           priority |-> u.priority, error |-> u.error, timer |-> u.timer,
           ready |-> u.ready, group |-> u.group, list |-> u.list,
           lock |-> u.lock, fault |-> u.fault]
  BY DEF KernelState
<1>3. QED
  BY <1>1, <1>2, Zenon

(* Contains tells whether a value is among the elements. *)
LEMMA ContainsToSet ==
  ASSUME NEW T, NEW s \in Seq(T), NEW e
  PROVE  Contains(s, e) <=> e \in ToSet(s)
BY LenProperties DEF Contains, ToSet

(* rt_list_remove: the thread leaves every list, and nothing else changes. *)
LEMMA ListRemove ==
  ASSUME NEW k \in KernelState, NEW t \in Thread,
         \A p \in Priority : IsInjective(k.ready[p]),
         \A l \in List : IsInjective(k.list[l])
  PROVE  LET u == rt_list_remove(k, t)
         IN  /\ u \in KernelState
             /\ \A p \in Priority :
                  /\ IsInjective(u.ready[p])
                  /\ ToSet(u.ready[p]) = ToSet(k.ready[p]) \ {t}
                  /\ t \notin ToSet(k.ready[p]) => u.ready[p] = k.ready[p]
             /\ \A l \in List :
                  /\ IsInjective(u.list[l])
                  /\ ToSet(u.list[l]) = ToSet(k.list[l]) \ {t}
                  /\ t \notin ToSet(k.list[l]) => u.list[l] = k.list[l]
             /\ u = [k EXCEPT !.ready = u.ready, !.list = u.list]
<1> DEFINE R == [p \in Priority |-> RemoveFirst(k.ready[p], t)]
           L == [l \in List |-> RemoveFirst(k.list[l], t)]
           u == rt_list_remove(k, t)
<1>1. k.ready \in [Priority -> Seq(Thread)] /\ k.list \in [List -> Seq(Thread)]
  BY DEF KernelState
<1>2. u = [k EXCEPT !.ready = R, !.list = L]
  BY DEF rt_list_remove
<1>3. \A p \in Priority :
        /\ R[p] \in Seq(Thread) /\ IsInjective(R[p])
        /\ ToSet(R[p]) = ToSet(k.ready[p]) \ {t}
        /\ t \notin ToSet(k.ready[p]) => R[p] = k.ready[p]
  BY <1>1, RemoveFirstLemma, ContainsToSet
<1>4. \A l \in List :
        /\ L[l] \in Seq(Thread) /\ IsInjective(L[l])
        /\ ToSet(L[l]) = ToSet(k.list[l]) \ {t}
        /\ t \notin ToSet(k.list[l]) => L[l] = k.list[l]
  BY <1>1, RemoveFirstLemma, ContainsToSet
<1>5. R \in [Priority -> Seq(Thread)] /\ L \in [List -> Seq(Thread)]
  BY <1>3, <1>4
<1> HIDE DEF R, L, u
<1>6. u \in KernelState /\ u.ready = R /\ u.list = L
  BY <1>2, <1>5 DEF KernelState
<1>7. QED
  BY <1>2, <1>3, <1>4, <1>6 DEF u

(* Only the empty sequence has no element. *)
LEMMA EmptyToSet ==
  ASSUME NEW T, NEW s \in Seq(T)
  PROVE  s = <<>> <=> ToSet(s) = {}
<1>1. s # <<>> => 1 \in DOMAIN s
  BY LenProperties, EmptySeq
<1>2. QED
  BY <1>1 DEF ToSet

(* The elements of a sequence over T are in T. *)
LEMMA ToSetType ==
  ASSUME NEW T, NEW s \in Seq(T)
  PROVE  ToSet(s) \subseteq T
BY LenProperties, ElementOfSeq DEF ToSet

(* A thread in no ready queue leaves its suspend list. *)
LEMMA IsolateSuspended ==
  ASSUME NEW k, Loose(k), NEW t \in Thread, k.stat[t] # "READY"
  PROVE  LET u == rt_list_remove(k, t)
         IN  /\ KernelBut(u, t)
             /\ u = [k EXCEPT !.list = u.list]
             /\ \A l \in List : ToSet(u.list[l]) = ToSet(k.list[l]) \ {t}
<1> DEFINE u == rt_list_remove(k, t)
<1>0. k \in KernelState
  BY DEF Loose
<1>1. /\ u \in KernelState
      /\ \A p \in Priority :
           /\ IsInjective(u.ready[p])
           /\ ToSet(u.ready[p]) = ToSet(k.ready[p]) \ {t}
           /\ t \notin ToSet(k.ready[p]) => u.ready[p] = k.ready[p]
      /\ \A l \in List :
           /\ IsInjective(u.list[l])
           /\ ToSet(u.list[l]) = ToSet(k.list[l]) \ {t}
           /\ t \notin ToSet(k.list[l]) => u.list[l] = k.list[l]
      /\ u = [k EXCEPT !.ready = u.ready, !.list = u.list]
  <2>1. /\ \A p \in Priority : IsInjective(k.ready[p])
        /\ \A l \in List : IsInjective(k.list[l])
    BY DEF Loose, ReadyQueueOK, SuspendListOK
  <2>2. QED
    BY <1>0, <2>1, ListRemove
<1> HIDE DEF u
<1>2. \A p \in Priority : u.ready[p] = k.ready[p]
  <2>1. \A p \in Priority : t \notin ToSet(k.ready[p])
    BY DEF Loose, ReadyQueueOK
  <2>2. QED
    BY <1>1, <2>1
<1>3. u.ready = k.ready
  BY <1>0, <1>1, <1>2 DEF KernelState
<1>4. u = [k EXCEPT !.list = u.list]
  BY <1>0, <1>1, <1>3 DEF KernelState
<1>5. /\ u.current = k.current /\ u.stat = k.stat /\ u.priority = k.priority
      /\ u.timer = k.timer /\ u.group = k.group /\ u.fault = k.fault
  BY <1>0, <1>1 DEF KernelState
<1>6. KernelBut(u, t)
  <2>1. \A p \in Priority :
          /\ p \in u.group <=> u.ready[p] # <<>>
          /\ IsInjective(u.ready[p])
          /\ \A v \in ToSet(u.ready[p]) :
               v # t /\ u.stat[v] = "READY" /\ u.priority[v] = p
    BY <1>3, <1>5 DEF Loose, ReadyQueueOK
  <2>2. \A v \in Thread \ {t} :
          /\ u.stat[v] = "READY" => v \in ToSet(u.ready[u.priority[v]])
          /\ u.stat[v] = "RUNNING" => v = u.current
          /\ v \in u.timer => u.stat[v] = "SUSPEND"
          /\ v = Idle => u.stat[v] \in {"READY", "RUNNING"}
    BY <1>3, <1>5 DEF Loose, ReadyQueueOK
  <2>3. \A l \in List :
          /\ IsInjective(u.list[l])
          /\ \A v \in ToSet(u.list[l]) : v # t /\ u.stat[v] = ListedStat(l)
    BY <1>1, <1>5 DEF Loose, SuspendListOK
  <2>4. \A l, m \in List :
          ToSet(u.list[l]) \cap ToSet(u.list[m]) # {} => l = m
    BY <1>1 DEF Loose, SuspendListOK
  <2>5. QED
    BY <1>1, <1>5, <2>1, <2>2, <2>3, <2>4 DEF Loose, KernelBut
<1>7. QED
  BY <1>1, <1>4, <1>6 DEF u

(* rt_schedule_remove_thread: whatever list the thread was in, it is in none *)
(* afterwards, and the bitmap is right again.                                *)
LEMMA Isolate ==
  ASSUME NEW k, Loose(k), NEW t \in Thread
  PROVE  LET u == rt_schedule_remove_thread(k, t)
         IN  /\ KernelBut(u, t)
             /\ u = [k EXCEPT !.ready = u.ready, !.group = u.group, !.list = u.list]
             /\ \A l \in List : ToSet(u.list[l]) = ToSet(k.list[l]) \ {t}
             /\ k.stat[t] \in {"READY", "RUNNING"} => u.list = k.list
<1> DEFINE v == rt_list_remove(k, t)
           p0 == k.priority[t]
           u == rt_schedule_remove_thread(k, t)
<1>0. k \in KernelState
  BY DEF Loose
<1>1. /\ v \in KernelState
      /\ \A p \in Priority :
           /\ IsInjective(v.ready[p])
           /\ ToSet(v.ready[p]) = ToSet(k.ready[p]) \ {t}
           /\ t \notin ToSet(k.ready[p]) => v.ready[p] = k.ready[p]
      /\ \A l \in List :
           /\ IsInjective(v.list[l])
           /\ ToSet(v.list[l]) = ToSet(k.list[l]) \ {t}
           /\ t \notin ToSet(k.list[l]) => v.list[l] = k.list[l]
      /\ v = [k EXCEPT !.ready = v.ready, !.list = v.list]
  <2>1. /\ \A p \in Priority : IsInjective(k.ready[p])
        /\ \A l \in List : IsInjective(k.list[l])
    BY DEF Loose, ReadyQueueOK, SuspendListOK
  <2>2. QED
    BY <1>0, <2>1, ListRemove
<1>2. u = IF v.ready[v.priority[t]] = <<>>
          THEN [v EXCEPT !.group = @ \ {v.priority[t]}] ELSE v
  BY DEF rt_schedule_remove_thread
<1> HIDE DEF u, v
<1>3. /\ v.current = k.current /\ v.stat = k.stat /\ v.priority = k.priority
      /\ v.timer = k.timer /\ v.group = k.group /\ v.fault = k.fault
      /\ p0 \in Priority
  BY <1>0, <1>1 DEF KernelState
<1>4. /\ u \in KernelState
      /\ u.current = k.current /\ u.stat = k.stat /\ u.priority = k.priority
      /\ u.timer = k.timer /\ u.fault = k.fault
      /\ u.ready = v.ready /\ u.list = v.list
      /\ u.group = IF v.ready[p0] = <<>> THEN k.group \ {p0} ELSE k.group
  BY <1>1, <1>2, <1>3 DEF KernelState
<1>5. u = [k EXCEPT !.ready = u.ready, !.group = u.group, !.list = u.list]
  <2>1. CASE v.ready[p0] = <<>>
    <3>1. u = [v EXCEPT !.group = u.group]
      BY <1>1, <1>2, <1>3, <2>1 DEF KernelState
    <3>2. QED
      BY <1>0, <1>1, <1>4, <3>1 DEF KernelState
  <2>2. CASE v.ready[p0] # <<>>
    <3>1. u = v
      BY <1>2, <1>3, <2>2
    <3>2. QED
      BY <1>0, <1>1, <1>3, <3>1 DEF KernelState
  <2>3. QED
    BY <2>1, <2>2
<1>6. \A p \in Priority : p # p0 => u.ready[p] = k.ready[p]
  BY <1>1, <1>4 DEF Loose, ReadyQueueOK
<1>7. \A p \in Priority : p \in u.group <=> u.ready[p] # <<>>
  <2>1. CASE v.ready[p0] = <<>>
    BY <1>3, <1>4, <1>6, <2>1 DEF Loose, ReadyQueueOK
  <2>2. CASE v.ready[p0] # <<>>
    <3>1. k.ready[p0] \in Seq(Thread) /\ v.ready[p0] \in Seq(Thread)
      BY <1>0, <1>1, <1>3 DEF KernelState
    <3>2. k.ready[p0] # <<>>
      BY <1>1, <1>3, <2>2, <3>1, EmptyToSet
    <3>3. QED
      BY <1>3, <1>4, <1>6, <2>2, <3>2 DEF Loose, ReadyQueueOK
  <2>3. QED
    BY <2>1, <2>2
<1>8. \A p \in Priority :
        /\ IsInjective(u.ready[p])
        /\ \A x \in ToSet(u.ready[p]) :
             x # t /\ u.stat[x] = "READY" /\ u.priority[x] = p
  BY <1>1, <1>4 DEF Loose, ReadyQueueOK
<1>9. \A x \in Thread \ {t} :
        /\ u.stat[x] = "READY" => x \in ToSet(u.ready[u.priority[x]])
        /\ u.stat[x] = "RUNNING" => x = u.current
        /\ x \in u.timer => u.stat[x] = "SUSPEND"
        /\ x = Idle => u.stat[x] \in {"READY", "RUNNING"}
  <2>1. ASSUME NEW x \in Thread \ {t}, u.stat[x] = "READY"
        PROVE  x \in ToSet(u.ready[u.priority[x]])
    <3>1. k.priority[x] \in Priority
      BY <1>0 DEF KernelState
    <3>2. QED
      BY <1>1, <1>4, <2>1, <3>1 DEF Loose, ReadyQueueOK
  <2>2. QED
    BY <1>4, <2>1 DEF Loose
<1>10. \A l \in List :
        /\ IsInjective(u.list[l])
        /\ \A x \in ToSet(u.list[l]) : x # t /\ u.stat[x] = ListedStat(l)
  BY <1>1, <1>4 DEF Loose, SuspendListOK
<1>11. \A l, m \in List :
         ToSet(u.list[l]) \cap ToSet(u.list[m]) # {} => l = m
  <2>1. \A l, m \in List :
          ToSet(k.list[l]) \cap ToSet(k.list[m]) # {} => l = m
    BY DEF Loose, SuspendListOK
  <2>2. \A l \in List : ToSet(u.list[l]) \subseteq ToSet(k.list[l])
    BY <1>1, <1>4
  <2>3. QED
    BY <2>1, <2>2
<1>12. KernelBut(u, t)
  BY <1>4, <1>7, <1>8, <1>9, <1>10, <1>11 DEF Loose, KernelBut
<1>13. k.stat[t] \in {"READY", "RUNNING"} => u.list = k.list
  <2>1. SUFFICES ASSUME k.stat[t] \in {"READY", "RUNNING"}
                 PROVE  u.list = k.list
    OBVIOUS
  <2>2. \A l \in List : t \notin ToSet(k.list[l])
    BY <2>1 DEF Loose, SuspendListOK, ListedStat
  <2>3. \A l \in List : u.list[l] = k.list[l]
    BY <1>1, <1>4, <2>2
  <2>4. QED
    BY <1>0, <1>4, <2>3 DEF KernelState
<1>14. QED
  BY <1>1, <1>4, <1>5, <1>12, <1>13 DEF u

(* A change of the state, the timer or the error of a thread that is in no   *)
(* list disturbs no list.                                                    *)
LEMMA Detached ==
  ASSUME NEW k, NEW t \in Thread, KernelBut(k, t),
         NEW u \in KernelState, ~ u.fault,
         u.current = k.current, u.priority = k.priority, u.ready = k.ready,
         u.group = k.group, u.list = k.list,
         \A v \in Thread \ {t} :
           /\ u.stat[v] = k.stat[v]
           /\ v \in u.timer => v \in k.timer
  PROVE  KernelBut(u, t)
<1>1. \A p \in Priority : \A v \in ToSet(u.ready[p]) : v \in Thread
  BY ToSetType DEF KernelState
<1>2. \A l \in List : \A v \in ToSet(u.list[l]) : v \in Thread
  BY ToSetType DEF KernelState
<1>3. \A p \in Priority :
        /\ p \in u.group <=> u.ready[p] # <<>>
        /\ IsInjective(u.ready[p])
        /\ \A v \in ToSet(u.ready[p]) :
             v # t /\ u.stat[v] = "READY" /\ u.priority[v] = p
  BY <1>1 DEF KernelBut
<1>4. \A v \in Thread \ {t} :
        /\ u.stat[v] = "READY" => v \in ToSet(u.ready[u.priority[v]])
        /\ u.stat[v] = "RUNNING" => v = u.current
        /\ v \in u.timer => u.stat[v] = "SUSPEND"
        /\ v = Idle => u.stat[v] \in {"READY", "RUNNING"}
  BY DEF KernelBut
<1>5. \A l \in List :
        /\ IsInjective(u.list[l])
        /\ \A v \in ToSet(u.list[l]) : v # t /\ u.stat[v] = ListedStat(l)
  BY <1>2 DEF KernelBut
<1>6. \A l, m \in List :
        ToSet(u.list[l]) \cap ToSet(u.list[m]) # {} => l = m
  BY DEF KernelBut
<1>7. QED
  BY <1>3, <1>4, <1>5, <1>6 DEF KernelBut

(* A thread in no list is not linked, so inserting it breaks nothing. *)
LEMMA NotLinked ==
  ASSUME NEW k, NEW t \in Thread, KernelBut(k, t)
  PROVE  ~ Linked(k, t)
<1>1. \A p \in Priority : k.ready[p] \in Seq(Thread) /\ t \notin ToSet(k.ready[p])
  BY DEF KernelBut, KernelState
<1>2. \A l \in List : k.list[l] \in Seq(Thread) /\ t \notin ToSet(k.list[l])
  BY DEF KernelBut, KernelState
<1>3. QED
  BY <1>1, <1>2, ContainsToSet DEF Linked

(* A suspended thread that is in no list, or the current one if it runs *)
LEMMA Settled ==
  ASSUME NEW k, NEW t \in Thread, KernelBut(k, t),
         \/ k.stat[t] = "SUSPEND" /\ t # Idle
         \/ k.stat[t] = "RUNNING" /\ t = k.current /\ t \notin k.timer
  PROVE  Loose(k)
<1>1. ReadyQueueOK(k)
  BY DEF KernelBut, ReadyQueueOK
<1>2. SuspendListOK(k)
  BY DEF KernelBut, SuspendListOK
<1>3. \A v \in Thread : k.stat[v] = "RUNNING" => v = k.current
  BY DEF KernelBut
<1>4. k.stat[Idle] \in {"READY", "RUNNING"}
  BY KernelAssumption DEF KernelBut
<1>5. \A v \in k.timer : v \in Thread /\ k.stat[v] = "SUSPEND"
  BY DEF KernelBut, KernelState
<1>6. QED
  BY <1>1, <1>2, <1>3, <1>4, <1>5 DEF KernelBut, Loose

(* rt_schedule_insert_thread of a thread that is in no list *)
LEMMA InsertThread ==
  ASSUME NEW k, NEW t \in Thread, KernelBut(k, t), t \notin k.timer
  PROVE  LET u == rt_schedule_insert_thread(k, t)
         IN  /\ Loose(u)
             /\ u = [k EXCEPT !.stat = u.stat, !.ready = u.ready, !.group = u.group]
             /\ u.stat = [k.stat EXCEPT ![t] = IF t = k.current
                                              THEN "RUNNING" ELSE "READY"]
             /\ t # k.current => k.priority[t] \in u.group
<1> DEFINE u == rt_schedule_insert_thread(k, t)
           p0 == k.priority[t]
<1>0. k \in KernelState /\ p0 \in Priority
  BY DEF KernelBut, KernelState
<1>1. CASE t = k.current
  <2>1. u = [k EXCEPT !.stat[t] = "RUNNING"]
    BY <1>1 DEF rt_schedule_insert_thread
  <2> HIDE DEF u
  <2>2. /\ u \in KernelState
        /\ u.stat = [k.stat EXCEPT ![t] = "RUNNING"]
        /\ u.current = k.current /\ u.priority = k.priority
        /\ u.ready = k.ready /\ u.group = k.group /\ u.list = k.list
        /\ u.timer = k.timer /\ u.fault = k.fault
        /\ u.stat[t] = "RUNNING"
        /\ \A v \in Thread \ {t} : u.stat[v] = k.stat[v]
    BY <1>0, <2>1 DEF KernelState, Stat
  <2>3. KernelBut(u, t)
    BY <2>2, Detached DEF KernelBut
  <2>4. Loose(u)
    BY <1>1, <2>2, <2>3, Settled
  <2>5. u = [k EXCEPT !.stat = u.stat, !.ready = u.ready, !.group = u.group]
    BY <1>0, <2>1, <2>2 DEF KernelState
  <2>6. QED
    BY <1>1, <2>2, <2>4, <2>5 DEF u
<1>2. CASE t # k.current
  <2>1. u = [k EXCEPT !.stat[t] = "READY", !.ready[p0] = Append(@, t),
                      !.group = @ \cup {p0}, !.fault = @ \/ Linked(k, t)]
    BY <1>2 DEF rt_schedule_insert_thread
  <2>2. ~ Linked(k, t)
    BY NotLinked
  <2>3. k.ready[p0] \in Seq(Thread) /\ t \notin ToSet(k.ready[p0])
    BY <1>0 DEF KernelBut, KernelState
  <2> DEFINE q == Append(k.ready[p0], t)
  <2>4. /\ q \in Seq(Thread) /\ q # <<>>
        /\ ToSet(q) = ToSet(k.ready[p0]) \cup {t}
        /\ IsInjective(q)
    <3>1. IsInjective(k.ready[p0])
      BY <1>0 DEF KernelBut
    <3>2. QED
      BY <2>3, <3>1, AppendLemma
  <2> HIDE DEF u, q
  <2>5. /\ u.current = k.current /\ u.priority = k.priority
        /\ u.list = k.list /\ u.timer = k.timer
        /\ u.stat = [k.stat EXCEPT ![t] = "READY"]
        /\ u.ready = [k.ready EXCEPT ![p0] = q]
        /\ u.group = k.group \cup {p0}
        /\ u.fault = (k.fault \/ Linked(k, t))
    BY <1>0, <2>1 DEF KernelState, q
  <2>6. ~ u.fault
    BY <2>2, <2>5 DEF KernelBut
  <2>7. u \in KernelState
    BY <1>0, <2>1, <2>2, <2>4 DEF KernelState, Stat, q
  <2>8. u = [k EXCEPT !.stat = u.stat, !.ready = u.ready, !.group = u.group]
    <3>1. u.fault = k.fault
      BY <2>2, <2>5, <2>6 DEF KernelBut, KernelState
    <3> DEFINE w == [k EXCEPT !.stat = u.stat, !.ready = u.ready, !.group = u.group]
    <3>2. /\ w.current = u.current /\ w.priority = u.priority
          /\ w.list = u.list /\ w.timer = u.timer /\ w.stat = u.stat
          /\ w.ready = u.ready /\ w.group = u.group /\ w.fault = u.fault
          /\ w.yield = k.yield /\ w.error = k.error /\ w.lock = k.lock
          /\ DOMAIN w = DOMAIN k
      BY <1>0, <2>5, <3>1 DEF KernelState
    <3>3. u.yield = k.yield /\ u.error = k.error /\ u.lock = k.lock
      BY <1>0, <2>1 DEF KernelState
    <3>4. w \in KernelState
      BY <1>0, <2>7 DEF KernelState
    <3> HIDE DEF w
    <3>5. u = w
      BY <2>7, <3>2, <3>3, <3>4, SameFields
    <3>6. QED
      BY <3>5 DEF w
  <2>9. /\ u.stat[t] = "READY" /\ u.ready[p0] = q
        /\ \A v \in Thread \ {t} : u.stat[v] = k.stat[v]
        /\ \A p \in Priority \ {p0} : u.ready[p] = k.ready[p]
    BY <1>0, <2>5 DEF KernelState
  <2>10. \A p \in Priority : ToSet(k.ready[p]) \subseteq Thread
    BY <1>0, ToSetType DEF KernelState
  <2>11. \A l \in List : ToSet(k.list[l]) \subseteq Thread
    BY <1>0, ToSetType DEF KernelState
  <2>12. ReadyQueueOK(u)
    <3>1. ASSUME NEW p \in Priority
          PROVE  /\ p \in u.group <=> u.ready[p] # <<>>
                 /\ IsInjective(u.ready[p])
                 /\ \A v \in ToSet(u.ready[p]) : u.stat[v] = "READY" /\ u.priority[v] = p
      <4>1. CASE p = p0
        BY <2>4, <2>5, <2>9, <2>10, <4>1 DEF KernelBut
      <4>2. CASE p # p0
        BY <2>5, <2>9, <2>10, <4>2 DEF KernelBut
      <4>3. QED
        BY <4>1, <4>2
    <3>2. ASSUME NEW v \in Thread, u.stat[v] = "READY"
          PROVE  v \in ToSet(u.ready[u.priority[v]])
      <4>1. CASE v = t
        BY <2>4, <2>5, <2>9, <4>1
      <4>2. CASE v # t
        <5>1. v \in ToSet(k.ready[k.priority[v]]) /\ k.priority[v] \in Priority
          BY <1>0, <2>9, <3>2, <4>2 DEF KernelBut, KernelState
        <5>2. QED
          BY <2>4, <2>5, <2>9, <5>1
      <4>3. QED
        BY <4>1, <4>2
    <3>3. QED
      BY <3>1, <3>2 DEF ReadyQueueOK
  <2>13. SuspendListOK(u)
    BY <2>5, <2>9, <2>11, ZenonT(60) DEF KernelBut, SuspendListOK
  <2>14. Loose(u)
    <3>1. \A v \in Thread : u.stat[v] = "RUNNING" => v = u.current
      BY <2>5, <2>9 DEF KernelBut
    <3>2. u.stat[Idle] \in {"READY", "RUNNING"}
      BY <2>9, KernelAssumption DEF KernelBut
    <3>3. \A v \in u.timer : u.stat[v] = "SUSPEND"
      BY <2>5, <2>7, <2>9 DEF KernelBut, KernelState
    <3>4. QED
      BY <2>6, <2>7, <2>12, <2>13, <3>1, <3>2, <3>3 DEF Loose
  <2>15. QED
    BY <1>2, <2>5, <2>8, <2>14 DEF u
<1>3. QED
  BY <1>1, <1>2

(* The running thread is in no list, so the processor can be taken from it. *)
LEMMA SwitchFromRunning ==
  ASSUME NEW k, KernelOK(k), k.stat[k.current] = "RUNNING",
         NEW c \in KernelState,
         c.stat = k.stat, c.priority = k.priority, c.ready = k.ready,
         c.group = k.group, c.list = k.list, c.timer = k.timer,
         c.fault = k.fault
  PROVE  KernelBut(c, k.current)
<1> DEFINE from == k.current
<1>0. k \in KernelState
  BY DEF KernelOK
<1>1. \A p \in Priority :
        /\ p \in c.group <=> c.ready[p] # <<>>
        /\ IsInjective(c.ready[p])
        /\ \A v \in ToSet(c.ready[p]) :
             v # from /\ c.stat[v] = "READY" /\ c.priority[v] = p
  BY DEF KernelOK, ReadyQueueOK
<1>2. \A v \in Thread \ {from} :
        /\ c.stat[v] = "READY" => v \in ToSet(c.ready[c.priority[v]])
        /\ c.stat[v] = "RUNNING" => v = c.current
        /\ v \in c.timer => c.stat[v] = "SUSPEND"
        /\ v = Idle => c.stat[v] \in {"READY", "RUNNING"}
  BY DEF KernelOK, ReadyQueueOK, CurrentOK
<1>3. \A l \in List :
        /\ IsInjective(c.list[l])
        /\ \A v \in ToSet(c.list[l]) : v # from /\ c.stat[v] = ListedStat(l)
  BY DEF KernelOK, SuspendListOK, ListedStat
<1>4. \A l, m \in List :
        ToSet(c.list[l]) \cap ToSet(c.list[m]) # {} => l = m
  BY DEF KernelOK, SuspendListOK
<1>5. QED
  BY <1>1, <1>2, <1>3, <1>4 DEF KernelOK, KernelBut

(* what rt_schedule changes at most *)
Switched(k, u) ==
  /\ u.list = k.list /\ u.error = k.error /\ u.timer = k.timer
  /\ u.priority = k.priority /\ u.lock = k.lock
  /\ \A v \in Thread :
       \/ u.stat[v] = k.stat[v]
       \/ k.stat[v] \in {"READY", "RUNNING"} /\ u.stat[v] \in {"READY", "RUNNING"}

(* The head of the queue of the most urgent bit is a ready thread. *)
LEMMA HighestReady ==
  ASSUME NEW k, KernelOK(k), k.group # {}
  PROVE  /\ Min(k.group) \in k.group
         /\ \A p \in k.group : Min(k.group) <= p
         /\ k.ready[Min(k.group)] # <<>>
         /\ Head(k.ready[Min(k.group)]) \in Thread
         /\ k.stat[Head(k.ready[Min(k.group)])] = "READY"
         /\ k.priority[Head(k.ready[Min(k.group)])] = Min(k.group)
<1> DEFINE h == Min(k.group)
<1>1. k.group \subseteq Priority /\ Priority \subseteq 0 .. RT_THREAD_PRIORITY_MAX
      /\ RT_THREAD_PRIORITY_MAX \in Nat
  BY KernelAssumption DEF KernelOK, KernelState, Priority
<1>2. h \in k.group /\ \A p \in k.group : h <= p
  BY <1>1, MinLemma
<1> HIDE DEF h
<1>3. k.ready[h] # <<>> /\ k.ready[h] \in Seq(Thread)
  BY <1>1, <1>2 DEF KernelOK, KernelState, ReadyQueueOK
<1>4. Head(k.ready[h]) \in Thread /\ Head(k.ready[h]) \in ToSet(k.ready[h])
  <2>1. Len(k.ready[h]) >= 1 /\ Len(k.ready[h]) \in Nat
        /\ DOMAIN k.ready[h] = 1 .. Len(k.ready[h])
    BY <1>3, EmptySeq, LenProperties
  <2>2. Head(k.ready[h]) = k.ready[h][1] /\ 1 \in DOMAIN k.ready[h]
    BY <1>3, <2>1, HeadTailProperties
  <2>3. QED
    BY <1>3, <2>1, <2>2, ElementOfSeq DEF ToSet
<1>5. k.stat[Head(k.ready[h])] = "READY" /\ k.priority[Head(k.ready[h])] = h
  BY <1>1, <1>2, <1>4 DEF KernelOK, ReadyQueueOK
<1>6. QED
  BY <1>2, <1>3, <1>4, <1>5 DEF h

(* the current thread runs, and no ready thread is more urgent *)
MostUrgent(k) ==
  /\ k.stat[k.current] = "RUNNING"
  /\ \A t \in Thread : k.stat[t] = "READY" => k.priority[k.current] <= k.priority[t]

(* A ready thread's priority is in the bitmap, so none is more urgent than   *)
(* the most urgent bit.                                                      *)
LEMMA NoneAboveHighest ==
  ASSUME NEW k, KernelOK(k), NEW t \in Thread, k.stat[t] = "READY"
  PROVE  /\ k.priority[t] \in k.group /\ k.group # {}
         /\ Min(k.group) \in Priority /\ k.priority[t] \in Priority
         /\ Min(k.group) <= k.priority[t]
<1>1. k.priority[t] \in Priority /\ k.ready[k.priority[t]] \in Seq(Thread)
  BY DEF KernelOK, KernelState
<1>2. ToSet(k.ready[k.priority[t]]) # {}
  BY DEF KernelOK, ReadyQueueOK
<1>3. k.priority[t] \in k.group
  BY <1>1, <1>2, EmptyToSet DEF KernelOK, ReadyQueueOK
<1>4. QED
  BY <1>1, <1>3, HighestReady DEF KernelOK, KernelState

(* rt_schedule keeps the kernel data consistent, leaves every suspend list,  *)
(* and with the scheduler unlocked gives the processor to a most urgent      *)
(* thread, which runs.                                                       *)
LEMMA ScheduleLemma ==
  ASSUME NEW k, KernelOK(k)
  PROVE  LET u == rt_schedule(k)
         IN  /\ KernelOK(u)
             /\ Switched(k, u)
             /\ k.lock = 0 => u.stat[u.current] = "RUNNING"
             /\ k.lock = 0 => MostUrgent(u)
<1> DEFINE u == rt_schedule(k)
<1>0. k \in KernelState /\ Loose(k) /\ k.current \in Thread
  BY KernelOKLoose DEF KernelOK, KernelState
<1>1. CASE k.lock > 0 \/ k.group = {}
  <2>1. u = k
    BY <1>1 DEF rt_schedule
  <2>2. ASSUME k.lock = 0 PROVE k.stat[k.current] = "RUNNING"
    <3>1. k.group = {}
      BY <1>1, <2>2
    <3>2. \A p \in Priority : k.ready[p] = <<>>
      BY <3>1 DEF KernelOK, ReadyQueueOK
    <3>3. k.priority[Idle] \in Priority
      BY <1>0, KernelAssumption DEF KernelState
    <3>4. ToSet(k.ready[k.priority[Idle]]) = {}
      BY <1>0, <3>2, <3>3, EmptyToSet DEF KernelState
    <3>5. k.stat[Idle] # "READY"
      BY <3>4, KernelAssumption DEF KernelOK, ReadyQueueOK
    <3>6. QED
      BY <3>5, KernelAssumption DEF KernelOK, CurrentOK
  <2>3. ASSUME k.lock = 0 PROVE MostUrgent(k)
    <3>1. k.group = {}
      BY <1>1, <2>3
    <3>2. \A t \in Thread : k.stat[t] # "READY"
      BY <3>1, NoneAboveHighest
    <3>3. QED
      BY <2>2, <2>3, <3>2 DEF MostUrgent
  <2>4. QED
    BY <2>1, <2>2, <2>3 DEF Switched
<1>2. CASE ~ (k.lock > 0) /\ k.group # {}
  <2> DEFINE highest == Min(k.group)
             from == k.current
             running == k.stat[from] = "RUNNING"
             cleared == IF running THEN [k EXCEPT !.yield = @ \ {from}] ELSE k
             to == Head(k.ready[highest])
             chosen == [cleared EXCEPT !.current = to]
             queued == IF running THEN rt_schedule_insert_thread(chosen, from)
                       ELSE chosen
             removed == rt_schedule_remove_thread(queued, to)
  <2>1. k.ready[highest] # <<>> /\ to \in Thread /\ k.stat[to] = "READY"
        /\ k.priority[to] = highest
    BY <1>2, HighestReady
  <2>2. u = IF KeepsRunning(k, highest)
            THEN rt_schedule_remove_thread(cleared, from)
            ELSE [removed EXCEPT !.stat[to] = "RUNNING"]
    BY <1>2, <2>1 DEF rt_schedule
  <2>0. /\ \A v \in Thread : k.stat[v] = "READY" => highest <= k.priority[v]
        /\ highest \in Int /\ \A v \in Thread : k.priority[v] \in Int
    <3>1. \A v \in Thread : k.priority[v] \in Int
      BY <1>0, KernelAssumption DEF KernelState, Priority
    <3>2. QED
      BY <2>1, <3>1, NoneAboveHighest
  <2> HIDE DEF u, to, highest
  <2>3. /\ cleared \in KernelState
        /\ cleared.current = k.current /\ cleared.stat = k.stat
        /\ cleared.priority = k.priority /\ cleared.error = k.error
        /\ cleared.timer = k.timer /\ cleared.ready = k.ready
        /\ cleared.group = k.group /\ cleared.list = k.list
        /\ cleared.lock = k.lock /\ cleared.fault = k.fault
    BY <1>0 DEF KernelState
  <2>4. KernelOK(cleared)
    BY <2>3 DEF KernelOK, ReadyQueueOK, SuspendListOK, CurrentOK
  <2> HIDE DEF cleared, chosen, queued, removed
  <2>5. CASE KeepsRunning(k, highest)
    <3> DEFINE r == rt_schedule_remove_thread(cleared, from)
    <3>1. running
      BY <2>5 DEF KeepsRunning
    <3>2. /\ KernelBut(r, from) /\ r.list = cleared.list
          /\ r = [cleared EXCEPT !.ready = r.ready, !.group = r.group, !.list = r.list]
      <4>1. Loose(cleared) /\ from \in Thread /\ cleared.stat[from] = "RUNNING"
        BY <1>0, <2>3, <2>4, <3>1, KernelOKLoose
      <4> HIDE DEF from
      <4>2. QED
        BY <4>1, Isolate
    <3> HIDE DEF r
    <3>3. /\ r.current = k.current /\ r.stat = k.stat /\ r.error = k.error
          /\ r.priority = k.priority /\ r.timer = k.timer /\ r.lock = k.lock
      BY <2>3, <3>2 DEF KernelState
    <3>4. from \notin r.timer
      BY <3>1, <3>3 DEF KernelOK, CurrentOK
    <3>5. KernelOK(r)
      BY <1>0, <3>1, <3>2, <3>3, <3>4, Settled, KernelOKLoose
    <3>6. QED
      <4>1. u = r /\ r.list = k.list
        BY <2>2, <2>3, <2>5, <3>2 DEF r
      <4>2. Switched(k, u)
        BY <3>3, <4>1 DEF Switched
      <4>3. u.stat[u.current] = "RUNNING"
        BY <3>1, <3>3, <4>1
      <4>4. k.priority[from] <= highest
        BY <1>0, <2>0, <2>5 DEF KeepsRunning
      <4>5. MostUrgent(u)
        BY <1>0, <2>0, <3>3, <4>1, <4>3, <4>4 DEF MostUrgent
      <4>6. QED
        BY <3>5, <4>1, <4>2, <4>3, <4>5 DEF u
  <2>6. CASE ~ KeepsRunning(k, highest)
    <3>1. /\ chosen \in KernelState /\ chosen.current = to
          /\ chosen.stat = k.stat
          /\ chosen.priority = k.priority /\ chosen.error = k.error
          /\ chosen.timer = k.timer /\ chosen.ready = k.ready
          /\ chosen.group = k.group /\ chosen.list = k.list
          /\ chosen.lock = k.lock /\ chosen.fault = k.fault
      BY <2>1, <2>3 DEF KernelState, chosen
    <3>2. /\ Loose(queued)
          /\ queued.current = to /\ queued.priority = k.priority
          /\ queued.error = k.error /\ queued.timer = k.timer
          /\ queued.list = k.list /\ queued.lock = k.lock
          /\ queued.stat[to] = "READY"
          /\ queued.stat = IF running THEN [k.stat EXCEPT ![from] = "READY"]
                           ELSE k.stat
      <4>1. CASE running
        <5> DEFINE q == rt_schedule_insert_thread(chosen, from)
        <5>1. KernelBut(chosen, from)
          BY <3>1, <4>1, SwitchFromRunning
        <5>2. from \notin chosen.timer /\ from # to
          BY <2>1, <3>1, <4>1 DEF KernelOK, CurrentOK
        <5>3. /\ Loose(q)
              /\ q = [chosen EXCEPT !.stat = q.stat, !.ready = q.ready, !.group = q.group]
              /\ q.stat = [chosen.stat EXCEPT ![from] = "READY"]
          <6>1. IF from = chosen.current THEN FALSE ELSE TRUE
            BY <3>1, <5>2
          <6> HIDE DEF from
          <6>2. from \in Thread
            BY <1>0 DEF from
          <6>3. QED
            BY <5>1, <5>2, <6>1, <6>2, InsertThread
        <5> HIDE DEF q
        <5>4. /\ q.current = to /\ q.priority = k.priority
              /\ q.error = k.error /\ q.timer = k.timer
              /\ q.list = k.list /\ q.lock = k.lock
          BY <3>1, <5>3 DEF KernelState
        <5>5. q.stat[to] = "READY" /\ q.stat = [k.stat EXCEPT ![from] = "READY"]
          BY <1>0, <2>1, <3>1, <5>2, <5>3 DEF KernelState
        <5>6. QED
          BY <4>1, <5>3, <5>4, <5>5 DEF q, queued
      <4>2. CASE ~ running
        <5>1. \A v \in Thread : k.stat[v] # "RUNNING"
          BY <4>2 DEF KernelOK, CurrentOK
        <5>2. Loose(chosen)
          <6>1. ReadyQueueOK(chosen) /\ SuspendListOK(chosen)
            BY <1>0, <3>1 DEF Loose, ReadyQueueOK, SuspendListOK
          <6>2. QED
            BY <1>0, <3>1, <5>1, <6>1 DEF Loose
        <5>3. QED
          BY <2>1, <3>1, <4>2, <5>2 DEF queued
      <4>3. QED
        BY <4>1, <4>2
    <3>3. /\ KernelBut(removed, to) /\ removed.list = queued.list
          /\ removed = [queued EXCEPT !.ready = removed.ready,
                          !.group = removed.group, !.list = removed.list]
      BY <2>1, <3>2, Isolate, ZenonT(60) DEF removed
    <3>4. /\ removed \in KernelState
          /\ removed.current = to /\ removed.priority = k.priority
          /\ removed.error = k.error /\ removed.timer = k.timer
          /\ removed.list = k.list /\ removed.lock = k.lock
          /\ removed.stat = queued.stat /\ ~ removed.fault
      BY <3>2, <3>3, ZenonT(60) DEF KernelBut, KernelState, Loose
    <3>5. u = [removed EXCEPT !.stat[to] = "RUNNING"]
      BY <2>2, <2>6
    <3>6. /\ u \in KernelState /\ ~ u.fault
          /\ u.current = to /\ u.priority = removed.priority
          /\ u.error = removed.error /\ u.timer = removed.timer
          /\ u.list = removed.list /\ u.lock = removed.lock
          /\ u.ready = removed.ready /\ u.group = removed.group
          /\ u.stat = [removed.stat EXCEPT ![to] = "RUNNING"]
      BY <3>4, <3>5 DEF KernelState, Stat
    <3>7. u.stat[to] = "RUNNING" /\ \A v \in Thread \ {to} : u.stat[v] = removed.stat[v]
      BY <2>1, <3>4, <3>6 DEF KernelState
    <3>8. KernelBut(u, to)
      <4>1. to \in Thread
        BY <2>1
      <4>2. KernelBut(removed, to)
        BY <3>3
      <4>3. u \in KernelState /\ ~ u.fault
        BY <3>6
      <4>4. /\ u.current = removed.current /\ u.priority = removed.priority
            /\ u.ready = removed.ready /\ u.group = removed.group
            /\ u.list = removed.list
        BY <3>4, <3>6
      <4>5. \A v \in Thread \ {to} :
              /\ u.stat[v] = removed.stat[v]
              /\ v \in u.timer => v \in removed.timer
        BY <3>6, <3>7
      <4> HIDE DEF from, running
      <4>6. QED
        BY <4>1, <4>2, <4>3, <4>4, <4>5, Detached
    <3>9. to \notin u.timer
      BY <2>1, <3>4, <3>6 DEF KernelOK, CurrentOK
    <3>10. KernelOK(u)
      BY <2>1, <3>6, <3>7, <3>8, <3>9, Settled, KernelOKLoose
    <3>11. \A v \in Thread :
             \/ u.stat[v] = k.stat[v]
             \/ k.stat[v] \in {"READY", "RUNNING"} /\ u.stat[v] \in {"READY", "RUNNING"}
      <4>1. k.stat \in [Thread -> Stat]
        BY <1>0 DEF KernelState
      <4>2. ASSUME NEW v \in Thread
            PROVE  \/ queued.stat[v] = k.stat[v]
                   \/ running /\ v = from /\ queued.stat[v] = "READY"
        BY <3>2, <4>1
      <4>3. QED
        BY <2>1, <3>4, <3>7, <4>1, <4>2
    <3>12. QED
      <4>1. Switched(k, u)
        BY <3>4, <3>6, <3>11 DEF Switched
      <4>2. ASSUME NEW v \in Thread, u.stat[v] = "READY"
            PROVE  highest <= k.priority[v]
        <5>1. k.stat[v] = "READY" \/ (running /\ v = from)
          <6>1. v # to /\ queued.stat[v] = "READY"
            BY <3>4, <3>7, <4>2
          <6>2. k.stat \in [Thread -> Stat]
            BY <1>0 DEF KernelState
          <6>3. running \/ queued.stat = k.stat
            BY <3>2
          <6>4. running /\ v # from => queued.stat[v] = k.stat[v]
            BY <3>2, <6>2
          <6>5. QED
            BY <6>1, <6>3, <6>4
        <5>2. running => highest <= k.priority[from]
          BY <1>0, <2>0, <2>6 DEF KeepsRunning
        <5>3. QED
          BY <2>0, <5>1, <5>2
      <4>3. MostUrgent(u)
        BY <2>1, <3>4, <3>6, <3>7, <4>2 DEF MostUrgent
      <4>4. QED
        BY <3>6, <3>7, <3>10, <4>1, <4>3 DEF u
  <2>7. QED
    BY <2>5, <2>6
<1>3. QED
  BY <1>1, <1>2

(* The error, the yield flag and the timer of a suspended thread matter to no *)
(* list.                                                                      *)
LEMMA Unlisted ==
  ASSUME NEW k, KernelOK(k), NEW u \in KernelState,
         u.current = k.current, u.stat = k.stat, u.priority = k.priority,
         u.ready = k.ready, u.group = k.group, u.list = k.list,
         u.fault = k.fault, \A v \in u.timer : k.stat[v] = "SUSPEND"
  PROVE  KernelOK(u)
<1>1. ReadyQueueOK(u) /\ SuspendListOK(u)
  <2>1. ReadyQueueOK(u)
    BY DEF KernelOK, ReadyQueueOK
  <2>2. SuspendListOK(u)
    BY DEF KernelOK, SuspendListOK
  <2>3. QED
    BY <2>1, <2>2
<1>2. CurrentOK(u)
  BY DEF KernelOK, CurrentOK
<1>3. QED
  BY <1>1, <1>2 DEF KernelOK

(* thread t leaves the suspend lists, and nothing else happens to them *)
Unlisting(k, u, t) ==
  \A l \in List : ToSet(u.list[l]) = ToSet(k.list[l]) \ {t}

(* the node of thread t is out of every suspend list, the others in place *)
Unlinked(k, u, t) ==
  \A l \in List : u.list[l] = RemoveFirst(k.list[l], t)

(* rt_thread_resume of a suspended thread, the current one included: an      *)
(* interrupt may resume a thread before it has called rt_schedule.           *)
LEMMA ResumeLemma ==
  ASSUME NEW k, KernelOK(k), NEW t \in Thread, k.stat[t] = "SUSPEND"
  PROVE  LET u == rt_thread_resume(k, t)
         IN  /\ KernelOK(u) /\ Unlisting(k, u, t) /\ Unlinked(k, u, t)
             /\ u.current = k.current /\ u.error = k.error
             /\ u.priority = k.priority /\ u.lock = k.lock
             /\ u.timer = k.timer \ {t}
             /\ u.stat = [k.stat EXCEPT ![t] = IF t = k.current
                                              THEN "RUNNING" ELSE "READY"]
<1> DEFINE v == rt_list_remove(k, t)
           w == [v EXCEPT !.timer = @ \ {t}]
           u == rt_thread_resume(k, t)
<1>0. k \in KernelState /\ Loose(k)
  BY KernelOKLoose DEF KernelOK
<1>1. /\ KernelBut(v, t)
      /\ v = [k EXCEPT !.list = v.list]
      /\ Unlisting(k, v, t)
  BY <1>0, IsolateSuspended DEF Unlisting
<1>a. Unlinked(k, v, t)
  BY <1>0 DEF Unlinked, rt_list_remove, KernelState
<1>2. u = rt_schedule_insert_thread(w, t)
  BY DEF rt_thread_resume, ResumeUnlink
<1> HIDE DEF u, v
<1>3. /\ v \in KernelState /\ ~ v.fault
      /\ v.current = k.current /\ v.stat = k.stat /\ v.error = k.error
      /\ v.priority = k.priority /\ v.timer = k.timer /\ v.lock = k.lock
  BY <1>0, <1>1 DEF KernelBut, KernelState
<1>4. /\ w \in KernelState /\ w.fault = v.fault
      /\ w.current = v.current /\ w.stat = v.stat /\ w.error = v.error
      /\ w.priority = v.priority /\ w.timer = v.timer \ {t} /\ w.lock = v.lock
      /\ w.list = v.list /\ w.ready = v.ready /\ w.group = v.group
  BY <1>3 DEF KernelState
<1> HIDE DEF w
<1>5. KernelBut(w, t)
  BY <1>1, <1>3, <1>4, Detached
<1>6. /\ Loose(u)
      /\ u = [w EXCEPT !.stat = u.stat, !.ready = u.ready, !.group = u.group]
      /\ u.stat = [w.stat EXCEPT ![t] = IF t = w.current THEN "RUNNING" ELSE "READY"]
  BY <1>2, <1>4, <1>5, InsertThread, ZenonT(60)
<1>7. /\ u.current = k.current /\ u.error = k.error
      /\ u.priority = k.priority /\ u.lock = k.lock /\ u.list = v.list
      /\ u.timer = k.timer \ {t}
  BY <1>3, <1>4, <1>6 DEF KernelState
<1>8. u.stat = [k.stat EXCEPT ![t] = IF t = k.current THEN "RUNNING" ELSE "READY"]
  BY <1>3, <1>4, <1>6
<1>9. u.stat[u.current] # "READY"
  BY <1>0, <1>7, <1>8 DEF KernelOK, KernelState, CurrentOK
<1>10. KernelOK(u)
  BY <1>6, <1>9, KernelOKLoose
<1>11. QED
  BY <1>1, <1>a, <1>7, <1>8, <1>10 DEF Unlisting, Unlinked, u

(* rt_thread_timeout: the thread whose timer fires leaves its suspend list    *)
(* with -RT_ETIMEOUT, ready or running.                                       *)
LEMMA TimeoutLemma ==
  ASSUME NEW k, KernelOK(k), NEW t \in k.timer
  PROVE  LET u == rt_thread_timeout(k, t)
         IN  /\ KernelOK(u) /\ Unlisting(k, u, t) /\ Unlinked(k, u, t)
             /\ u.error = [k.error EXCEPT ![t] = "RT_ETIMEOUT"]
             /\ u.priority = k.priority /\ u.lock = k.lock
             /\ u.stat[t] \in {"READY", "RUNNING"}
             /\ \A x \in Thread \ {t} :
                  \/ u.stat[x] = k.stat[x]
                  \/ /\ k.stat[x] \in {"READY", "RUNNING"}
                     /\ u.stat[x] \in {"READY", "RUNNING"}
             /\ k.lock = 0 => u.stat[u.current] = "RUNNING"
             /\ k.lock = 0 => MostUrgent(u)
<1> DEFINE v == rt_list_remove(k, t)
           w == [v EXCEPT !.timer = @ \ {t}, !.error[t] = "RT_ETIMEOUT",
                          !.fault = @ \/ k.stat[t] # "SUSPEND"]
           q == rt_schedule_insert_thread(w, t)
           u == rt_schedule(q)
<1>0. k \in KernelState /\ Loose(k) /\ t \in Thread /\ k.stat[t] = "SUSPEND"
  BY KernelOKLoose DEF KernelOK, KernelState, CurrentOK
<1>1. /\ KernelBut(v, t)
      /\ v = [k EXCEPT !.list = v.list]
      /\ Unlisting(k, v, t)
  BY <1>0, IsolateSuspended DEF Unlisting
<1>a. Unlinked(k, v, t)
  BY <1>0 DEF Unlinked, rt_list_remove, KernelState
<1>2. rt_thread_timeout(k, t) = u
  BY DEF rt_thread_timeout
<1> HIDE DEF u, q, v
<1>3. /\ v \in KernelState /\ ~ v.fault
      /\ v.current = k.current /\ v.stat = k.stat /\ v.error = k.error
      /\ v.priority = k.priority /\ v.timer = k.timer /\ v.lock = k.lock
  BY <1>0, <1>1 DEF KernelBut, KernelState
<1>4. /\ w \in KernelState /\ ~ w.fault
      /\ w.current = v.current /\ w.stat = v.stat
      /\ w.error = [v.error EXCEPT ![t] = "RT_ETIMEOUT"]
      /\ w.priority = v.priority /\ w.timer = v.timer \ {t} /\ w.lock = v.lock
      /\ w.list = v.list /\ w.ready = v.ready /\ w.group = v.group
  BY <1>0, <1>3 DEF KernelState, Error
<1> HIDE DEF w
<1>5. KernelBut(w, t)
  BY <1>0, <1>1, <1>3, <1>4, Detached
<1>6. /\ Loose(q)
      /\ q = [w EXCEPT !.stat = q.stat, !.ready = q.ready, !.group = q.group]
      /\ q.stat = [w.stat EXCEPT ![t] = IF t = w.current THEN "RUNNING" ELSE "READY"]
  <2>1. t \in Thread /\ t \notin w.timer /\ q = rt_schedule_insert_thread(w, t)
    BY <1>0, <1>4 DEF q
  <2>2. QED
    BY <1>5, <2>1, InsertThread
<1>7. /\ q.current = k.current /\ q.error = [k.error EXCEPT ![t] = "RT_ETIMEOUT"]
      /\ q.priority = k.priority /\ q.lock = k.lock /\ q.list = v.list
      /\ q.stat = [k.stat EXCEPT ![t] = IF t = k.current THEN "RUNNING" ELSE "READY"]
  <2>1. /\ q.current = w.current /\ q.error = w.error /\ q.priority = w.priority
        /\ q.lock = w.lock /\ q.list = w.list
    BY <1>4, <1>6 DEF KernelState
  <2>2. QED
    BY <1>3, <1>4, <1>6, <2>1
<1>8. /\ q.stat[q.current] # "READY" /\ q.stat[t] \in {"READY", "RUNNING"}
      /\ \A x \in Thread \ {t} : q.stat[x] = k.stat[x]
  BY <1>0, <1>7 DEF KernelOK, KernelState, CurrentOK
<1>9. KernelOK(q)
  BY <1>6, <1>8, KernelOKLoose
<1>10. /\ KernelOK(u) /\ Switched(q, u) /\ (q.lock = 0 => u.stat[u.current] = "RUNNING")
       /\ q.lock = 0 => MostUrgent(u)
  BY <1>9, ScheduleLemma DEF u
<1>11. /\ u.error = [k.error EXCEPT ![t] = "RT_ETIMEOUT"]
       /\ u.priority = k.priority /\ u.lock = k.lock /\ Unlisting(k, u, t)
       /\ Unlinked(k, u, t)
  BY <1>1, <1>a, <1>7, <1>10 DEF Switched, Unlisting, Unlinked
<1>12. /\ u.stat[t] \in {"READY", "RUNNING"}
       /\ \A x \in Thread \ {t} :
            \/ u.stat[x] = k.stat[x]
            \/ k.stat[x] \in {"READY", "RUNNING"} /\ u.stat[x] \in {"READY", "RUNNING"}
  BY <1>0, <1>8, <1>10 DEF Switched
<1>13. QED
  BY <1>2, <1>7, <1>10, <1>11, <1>12

(* A thread of any priority finds its place inside a suspend list. *)
LEMMA PositionLemma ==
  ASSUME NEW k, NEW s \in Seq(Thread), NEW t, NEW flag
  PROVE  SuspendPosition(k, s, t, flag) \in 1 .. Len(s) + 1
<1> DEFINE behind == {i \in DOMAIN s : k.priority[t] < k.priority[s[i]]}
<1>1. Len(s) \in Nat /\ DOMAIN s = 1 .. Len(s)
  BY LenProperties
<1>2. behind # {} => Min(behind) \in behind
  <2>1. behind \in SUBSET (0 .. Len(s))
    BY <1>1
  <2> HIDE DEF behind
  <2>2. QED
    BY <1>1, <2>1, MinLemma
<1>3. behind # {} => Min(behind) \in 1 .. Len(s)
  BY <1>1, <1>2
<1>4. SuspendPosition(k, s, t, flag) = IF flag = "RT_IPC_FLAG_PRIO" /\ behind # {}
                                       THEN Min(behind) ELSE Len(s) + 1
  BY DEF SuspendPosition
<1> HIDE DEF behind
<1>5. QED
  BY <1>1, <1>3, <1>4

(* The place depends on the priorities only. *)
LEMMA PositionByPriority ==
  ASSUME NEW k, NEW u, u.priority = k.priority, NEW s, NEW t, NEW flag
  PROVE  SuspendPosition(u, s, t, flag) = SuspendPosition(k, s, t, flag)
<1>1. {j \in DOMAIN s : u.priority[t] < u.priority[s[j]]}
        = {j \in DOMAIN s : k.priority[t] < k.priority[s[j]]}
  OBVIOUS
<1>2. QED
  BY <1>1 DEF SuspendPosition

(* A list that is ordered by the priorities of its threads stays so when one   *)
(* more enters it.                                                             *)
LEMMA PositionKeepsOrder ==
  ASSUME NEW k, NEW s \in Seq(Thread), NEW t \in Thread, NEW f \in [Thread -> Int],
         Ordered(f, s), \A x \in ToSet(s) \cup {t} : k.priority[x] = f[x]
  PROVE  Ordered(f, InsertAt(s, SuspendPosition(k, s, t, "RT_IPC_FLAG_PRIO"), t))
<1> DEFINE behind == {j \in DOMAIN s : k.priority[t] < k.priority[s[j]]}
           n == SuspendPosition(k, s, t, "RT_IPC_FLAG_PRIO")
<1>1. /\ Len(s) \in Nat /\ DOMAIN s = 1 .. Len(s)
      /\ \A j \in 1 .. Len(s) : s[j] \in Thread /\ s[j] \in ToSet(s)
  BY LenProperties, ElementOfSeq DEF ToSet
<1>2. \A j \in 1 .. Len(s) : j \in behind <=> f[t] < f[s[j]]
  BY <1>1
<1>3. n = IF behind # {} THEN Min(behind) ELSE Len(s) + 1
  BY DEF SuspendPosition
<1>4. n \in 1 .. Len(s) + 1
  BY PositionLemma
<1>5. behind \in SUBSET (0 .. Len(s))
  BY <1>1
<1>6. behind # {} => Min(behind) \in behind /\ \A j \in behind : Min(behind) <= j
  <2> HIDE DEF behind
  <2>1. QED
    BY <1>1, <1>5, MinLemma
<1> HIDE DEF n
<1>7. ASSUME NEW j \in 1 .. Len(s), j < n PROVE f[s[j]] <= f[t]
  <2>1. j \notin behind
    <3> HIDE DEF behind
    <3>1. QED
      BY <1>1, <1>3, <1>4, <1>6, <1>7
  <2>2. f[t] \in Int /\ f[s[j]] \in Int
    BY <1>1
  <2>3. QED
    BY <1>2, <2>1, <2>2
<1>8. ASSUME NEW j \in 1 .. Len(s), n <= j PROVE f[t] <= f[s[j]]
  <2>1. n \in behind
    <3> HIDE DEF behind
    <3>1. QED
      BY <1>1, <1>3, <1>6, <1>8
  <2>2. n \in 1 .. Len(s) /\ f[t] < f[s[n]]
    BY <1>1, <1>2, <2>1
  <2>3. f[s[n]] <= f[s[j]]
    BY <1>8, <2>2, <1>1 DEF Ordered
  <2>4. f[t] \in Int /\ f[s[j]] \in Int /\ f[s[n]] \in Int
    BY <1>1, <2>2
  <2>5. QED
    BY <2>2, <2>3, <2>4
<1>9. QED
  BY <1>4, <1>7, <1>8, InsertKeepsOrder DEF n

(* thread t has the processor and runs *)
HasCpu(k, t) == k.current = t /\ k.stat[t] = "RUNNING"

(* rt_ipc_list_suspend of the running thread *)
LEMMA SuspendLemma ==
  ASSUME NEW k, KernelOK(k), NEW t \in Thread \ {Idle}, HasCpu(k, t),
         NEW l \in List, l # "rt_thread_defunct", NEW flag
  PROVE  LET u == rt_ipc_list_suspend(k, l, t, flag)
         IN  /\ KernelOK(u)
             /\ ToSet(u.list[l]) = ToSet(k.list[l]) \cup {t}
             /\ u.list[l] =
                  InsertAt(k.list[l], SuspendPosition(k, k.list[l], t, flag), t)
             /\ \A m \in List \ {l} : u.list[m] = k.list[m]
             /\ u.current = k.current /\ u.error = k.error
             /\ u.priority = k.priority /\ u.lock = k.lock
             /\ u.timer \subseteq k.timer
             /\ u.stat[t] = "SUSPEND"
             /\ \A x \in Thread \ {t} : u.stat[x] = k.stat[x]
<1> DEFINE v == rt_schedule_remove_thread(k, t)
           w == [v EXCEPT !.stat[t] = "SUSPEND", !.timer = @ \ {t}]
           i == SuspendPosition(w, w.list[l], t, flag)
           u == ListInsert(w, l, i, t)
<1>0. /\ k \in KernelState /\ Loose(k) /\ t \in Thread
      /\ k.current = t /\ k.stat[t] = "RUNNING"
  BY KernelOKLoose DEF KernelOK, HasCpu
<1>1. /\ KernelBut(v, t)
      /\ v = [k EXCEPT !.ready = v.ready, !.group = v.group, !.list = v.list]
      /\ v.list = k.list
  BY <1>0, Isolate
<1>2. rt_ipc_list_suspend(k, l, t, flag) = u
  BY <1>0 DEF rt_ipc_list_suspend, rt_thread_suspend
<1> HIDE DEF u, v, i
<1>3. /\ v \in KernelState /\ ~ v.fault
      /\ v.current = k.current /\ v.stat = k.stat /\ v.error = k.error
      /\ v.priority = k.priority /\ v.timer = k.timer /\ v.lock = k.lock
  BY <1>0, <1>1, ZenonT(60) DEF KernelBut, KernelState
<1>4. /\ w \in KernelState /\ w.fault = v.fault
      /\ w.current = v.current /\ w.stat = [v.stat EXCEPT ![t] = "SUSPEND"]
      /\ w.error = v.error
      /\ w.priority = v.priority /\ w.timer = v.timer \ {t} /\ w.lock = v.lock
      /\ w.list = v.list /\ w.ready = v.ready /\ w.group = v.group
  BY <1>0, <1>3 DEF KernelState, Stat
<1>a. i = SuspendPosition(k, k.list[l], t, flag) /\ w.list[l] = k.list[l]
  <2>1. w.list[l] = k.list[l] /\ w.priority = k.priority
    BY <1>1, <1>3, <1>4
  <2> HIDE DEF w
  <2>2. QED
    BY <2>1, PositionByPriority DEF i
<1>5. i \in 1 .. Len(w.list[l]) + 1 /\ w.list[l] \in Seq(Thread)
  BY <1>4, PositionLemma DEF i, KernelState
<1>6. u = [w EXCEPT !.list[l] = InsertAt(@, i, t), !.fault = @ \/ Linked(w, t)]
  BY DEF u, ListInsert
<1> HIDE DEF w
<1>7. w.stat[t] = "SUSPEND" /\ \A x \in Thread \ {t} : w.stat[x] = k.stat[x]
  BY <1>0, <1>3, <1>4 DEF KernelState
<1>8. KernelBut(w, t)
  <2>1. \A x \in Thread \ {t} : w.stat[x] = v.stat[x] /\ (x \in w.timer => x \in v.timer)
    BY <1>3, <1>4, <1>7
  <2>2. ~ w.fault
    BY <1>3, <1>4
  <2>3. QED
    BY <1>0, <1>1, <1>4, <2>1, <2>2, Detached
<1>9. ~ Linked(w, t)
  BY <1>0, <1>8, NotLinked
<1> DEFINE s == InsertAt(w.list[l], i, t)
<1>10. /\ s \in Seq(Thread) /\ IsInjective(s)
       /\ ToSet(s) = ToSet(w.list[l]) \cup {t}
  <2>1. IsInjective(w.list[l]) /\ t \notin ToSet(w.list[l])
    BY <1>8 DEF KernelBut
  <2>2. QED
    BY <1>0, <1>5, <2>1, InsertAtLemma
<1> HIDE DEF s
<1>11. /\ u \in KernelState /\ ~ u.fault
       /\ u.current = w.current /\ u.stat = w.stat /\ u.error = w.error
       /\ u.priority = w.priority /\ u.timer = w.timer /\ u.lock = w.lock
       /\ u.ready = w.ready /\ u.group = w.group
       /\ u.list = [w.list EXCEPT ![l] = s]
  BY <1>3, <1>4, <1>6, <1>9, <1>10 DEF KernelState, s
<1>12. u.list[l] = s /\ \A m \in List \ {l} : u.list[m] = w.list[m]
  BY <1>4, <1>11 DEF KernelState
<1>b. u.list[l] = InsertAt(k.list[l], SuspendPosition(k, k.list[l], t, flag), t)
  BY <1>a, <1>12 DEF s
<1>13. ReadyQueueOK(u)
  BY <1>7, <1>8, <1>11 DEF KernelBut, ReadyQueueOK
<1>14. SuspendListOK(u)
  <2>1. ASSUME NEW m \in List
        PROVE  IsInjective(u.list[m]) /\ \A x \in ToSet(u.list[m]) : u.stat[x] = ListedStat(m)
    <3>1. CASE m = l
      BY <1>7, <1>8, <1>10, <1>11, <1>12, <3>1 DEF KernelBut, ListedStat
    <3>2. CASE m # l
      BY <1>8, <1>11, <1>12, <3>2 DEF KernelBut
    <3>3. QED
      BY <3>1, <3>2
  <2>2. ASSUME NEW m \in List, NEW n \in List, m # n
        PROVE  ToSet(u.list[m]) \cap ToSet(u.list[n]) = {}
    <3>1. \A x \in List : t \notin ToSet(w.list[x])
      BY <1>8 DEF KernelBut
    <3>2. ToSet(w.list[m]) \cap ToSet(w.list[n]) = {}
      BY <1>8, <2>2 DEF KernelBut
    <3>3. \A x \in List : ToSet(u.list[x]) = IF x = l THEN ToSet(w.list[x]) \cup {t}
                                             ELSE ToSet(w.list[x])
      BY <1>10, <1>12
    <3>4. QED
      BY <2>2, <3>1, <3>2, <3>3
  <2>3. QED
    BY <2>1, <2>2 DEF SuspendListOK
<1>15. CurrentOK(u)
  <2>1. t \notin u.timer /\ u.stat[u.current] # "READY"
    BY <1>0, <1>3, <1>4, <1>7, <1>11
  <2>2. \A x \in Thread : u.stat[x] = "RUNNING" => x = u.current
    BY <1>7, <1>8, <1>11 DEF KernelBut
  <2>3. u.stat[Idle] \in {"READY", "RUNNING"}
    BY <1>7, <1>8, <1>11, KernelAssumption DEF KernelBut
  <2>4. \A x \in u.timer : u.stat[x] = "SUSPEND"
    BY <1>8, <1>11, <2>1 DEF KernelBut, KernelState
  <2>5. QED
    BY <2>1, <2>2, <2>3, <2>4 DEF CurrentOK
<1>16. KernelOK(u)
  BY <1>11, <1>13, <1>14, <1>15 DEF KernelOK
<1>17. /\ ToSet(u.list[l]) = ToSet(k.list[l]) \cup {t}
       /\ \A m \in List \ {l} : u.list[m] = k.list[m]
       /\ u.current = k.current /\ u.error = k.error
       /\ u.priority = k.priority /\ u.lock = k.lock
       /\ u.timer \subseteq k.timer
       /\ u.stat[t] = "SUSPEND"
       /\ \A x \in Thread \ {t} : u.stat[x] = k.stat[x]
  BY <1>1, <1>3, <1>4, <1>7, <1>10, <1>11, <1>12
<1>18. QED
  BY <1>2, <1>16, <1>17, <1>b

(***************************************************************************)
(* The steps of Cpu that services share, as far as the data of a service   *)
(* can tell: who is suspended, who is in which list, and the error numbers.*)
(***************************************************************************)
(* the running thread t has entered list l, its error number cleared *)
SuspendedIn(k, u, t, l) ==
  /\ KernelOK(u)
  /\ ToSet(u.list[l]) = ToSet(k.list[l]) \cup {t}
  /\ \A m \in List \ {l} : u.list[m] = k.list[m]
  /\ u.current = k.current /\ u.priority = k.priority /\ u.lock = k.lock
  /\ u.stat[t] = "SUSPEND" /\ u.error[t] = "RT_EOK"
  /\ \A x \in Thread \ {t} : u.stat[x] = k.stat[x] /\ u.error[x] = k.error[x]

(* the suspended thread t has left its list and can run, with error number e *)
ResumedWith(k, u, t, e) ==
  /\ KernelOK(u)
  /\ Unlisting(k, u, t)
  /\ u.priority = k.priority /\ u.lock = k.lock
  /\ k.stat[t] = "SUSPEND" /\ u.stat[t] \in {"READY", "RUNNING"}
  /\ u.error[t] = e
  /\ \A x \in Thread \ {t} :
       /\ u.error[x] = k.error[x]
       /\ \/ u.stat[x] = k.stat[x]
          \/ k.stat[x] \in {"READY", "RUNNING"} /\ u.stat[x] \in {"READY", "RUNNING"}

(* the same, and the processor has not changed hands *)
ResumedHere(k, u, t, e) ==
  /\ ResumedWith(k, u, t, e)
  /\ u.current = k.current
  /\ \A x \in Thread \ {t} : u.stat[x] = k.stat[x]

(* a new error number for thread t *)
SetError(k, t, e) == [k EXCEPT !.error[t] = e]

(* An error number may be changed at any time. *)
LEMMA ErrorLemma ==
  ASSUME NEW k, KernelOK(k), NEW t \in Thread, NEW e \in Error
  PROVE  LET u == SetError(k, t, e)
         IN  /\ KernelOK(u)
             /\ u.current = k.current /\ u.stat = k.stat /\ u.list = k.list
             /\ u.priority = k.priority /\ u.timer = k.timer /\ u.lock = k.lock
             /\ u.error[t] = e /\ \A x \in Thread \ {t} : u.error[x] = k.error[x]
<1> DEFINE u == SetError(k, t, e)
<1>1. k \in KernelState /\ \A x \in k.timer : k.stat[x] = "SUSPEND"
  BY DEF KernelOK, CurrentOK
<1>2. /\ u \in KernelState
      /\ u.current = k.current /\ u.stat = k.stat /\ u.list = k.list
      /\ u.priority = k.priority /\ u.timer = k.timer /\ u.lock = k.lock
      /\ u.ready = k.ready /\ u.group = k.group /\ u.fault = k.fault
      /\ u.error = [k.error EXCEPT ![t] = e]
  BY <1>1 DEF KernelState, SetError
<1> HIDE DEF u
<1>3. u.error[t] = e /\ \A x \in Thread \ {t} : u.error[x] = k.error[x]
  BY <1>1, <1>2 DEF KernelState
<1>4. KernelOK(u)
  BY <1>1, <1>2, Unlisted
<1>5. QED
  BY <1>2, <1>3, <1>4 DEF u

(* WaitIn, the way into a suspend list, and the place there *)
LEMMA WaitPlaceLemma ==
  ASSUME KernelOK(kern), NEW t \in Thread \ {Idle},
         HasCpu(kern, t),
         NEW l \in List, l # "rt_thread_defunct",
         NEW flag, NEW timed \in BOOLEAN, NEW p,
         WaitIn(t, l, flag, timed, p)
  PROVE  /\ SuspendedIn(kern, kern', t, l) /\ pc' = [pc EXCEPT ![t] = p]
         /\ kern'.list[l] =
              InsertAt(kern.list[l], SuspendPosition(kern, kern.list[l], t, flag), t)
<1> DEFINE k == SetError(kern, t, "RT_EOK")
           s == rt_ipc_list_suspend(k, l, t, flag)
           r == rt_timer_start(s, t)
<1>1. /\ kern' = IF timed THEN r ELSE s
      /\ pc' = [pc EXCEPT ![t] = p]
  BY DEF WaitIn, Goto, SetError
<1>2. /\ KernelOK(k)
      /\ k.current = kern.current /\ k.stat = kern.stat /\ k.list = kern.list
      /\ k.priority = kern.priority /\ k.lock = kern.lock
      /\ k.error[t] = "RT_EOK" /\ \A x \in Thread \ {t} : k.error[x] = kern.error[x]
  BY ErrorLemma DEF Error
<1> HIDE DEF k, r
<1>3. /\ KernelOK(s)
      /\ ToSet(s.list[l]) = ToSet(k.list[l]) \cup {t}
      /\ s.list[l] = InsertAt(k.list[l], SuspendPosition(k, k.list[l], t, flag), t)
      /\ \A m \in List \ {l} : s.list[m] = k.list[m]
      /\ s.current = k.current /\ s.error = k.error
      /\ s.priority = k.priority /\ s.lock = k.lock
      /\ s.stat[t] = "SUSPEND" /\ \A x \in Thread \ {t} : s.stat[x] = k.stat[x]
  <2>1. HasCpu(k, t)
    BY <1>2 DEF HasCpu
  <2>2. QED
    BY <1>2, <2>1, SuspendLemma
<1> HIDE DEF s
<1>4. s \in KernelState /\ k \in KernelState
  BY <1>2, <1>3 DEF KernelOK
<1>6. SuspendedIn(kern, s, t, l)
  BY <1>2, <1>3 DEF SuspendedIn
<1>7. /\ r \in KernelState
      /\ r.current = s.current /\ r.stat = s.stat /\ r.error = s.error
      /\ r.priority = s.priority /\ r.timer = s.timer \cup {t} /\ r.lock = s.lock
      /\ r.ready = s.ready /\ r.group = s.group /\ r.list = s.list
      /\ r.fault = s.fault
  BY <1>4 DEF rt_timer_start, KernelState, r
<1>8. \A x \in r.timer : s.stat[x] = "SUSPEND"
  BY <1>3, <1>7 DEF KernelOK, CurrentOK
<1>9. KernelOK(r)
  BY <1>3, <1>7, <1>8, Unlisted
<1>10. SuspendedIn(kern, r, t, l)
  BY <1>6, <1>7, <1>9 DEF SuspendedIn
<1>11. s.list[l] = InsertAt(kern.list[l], SuspendPosition(kern, kern.list[l], t, flag), t)
  BY <1>2, <1>3, PositionByPriority
<1>12. QED
  BY <1>1, <1>6, <1>7, <1>10, <1>11

(* The same, for those whom the place does not matter *)
LEMMA WaitLemma ==
  ASSUME KernelOK(kern), NEW t \in Thread \ {Idle},
         HasCpu(kern, t),
         NEW l \in List, l # "rt_thread_defunct",
         NEW flag, NEW timed \in BOOLEAN, NEW p,
         WaitIn(t, l, flag, timed, p)
  PROVE  SuspendedIn(kern, kern', t, l) /\ pc' = [pc EXCEPT ![t] = p]
BY WaitPlaceLemma

(* The head of a list other than rt_thread_defunct is a suspended thread. *)
LEMMA HeadSuspended ==
  ASSUME NEW k, KernelOK(k), NEW l \in List, l # "rt_thread_defunct",
         k.list[l] # <<>>
  PROVE  /\ Head(k.list[l]) \in Thread \ {Idle}
         /\ Head(k.list[l]) \in ToSet(k.list[l])
         /\ k.stat[Head(k.list[l])] = "SUSPEND"
<1> DEFINE h == Head(k.list[l])
<1>1. k.list[l] \in Seq(Thread)
  BY DEF KernelOK, KernelState
<1>2. h = k.list[l][1] /\ 1 \in DOMAIN k.list[l] /\ h \in Thread
  BY <1>1, EmptySeq, LenProperties, HeadTailProperties, ElementOfSeq
<1>3. h \in ToSet(k.list[l])
  BY <1>2 DEF ToSet
<1> HIDE DEF h
<1>4. k.stat[h] = "SUSPEND"
  BY <1>3 DEF KernelOK, SuspendListOK, ListedStat
<1>5. h # Idle
  BY <1>4 DEF KernelOK, CurrentOK
<1>6. QED
  BY <1>2, <1>3, <1>4, <1>5 DEF h

(* rt_thread_resume of a suspended thread, which keeps its error number *)
LEMMA ResumeHere ==
  ASSUME NEW k, KernelOK(k), NEW t \in Thread, k.stat[t] = "SUSPEND"
  PROVE  ResumedHere(k, rt_thread_resume(k, t), t, k.error[t])
<1> DEFINE u == rt_thread_resume(k, t)
<1>1. /\ KernelOK(u) /\ Unlisting(k, u, t)
      /\ u.current = k.current /\ u.error = k.error
      /\ u.priority = k.priority /\ u.lock = k.lock
      /\ u.stat = [k.stat EXCEPT ![t] = IF t = k.current THEN "RUNNING" ELSE "READY"]
  BY ResumeLemma
<1> HIDE DEF u
<1>2. u.stat[t] \in {"READY", "RUNNING"} /\ \A x \in Thread \ {t} : u.stat[x] = k.stat[x]
  BY <1>1 DEF KernelOK, KernelState
<1>3. QED
  BY <1>1, <1>2 DEF ResumedHere, ResumedWith, u

(* a call of rt_schedule after a thread has been resumed *)
LEMMA ThenSchedule ==
  ASSUME NEW k, NEW r, NEW t \in Thread, NEW e, ResumedWith(k, r, t, e),
         k.lock = 0
  PROVE  /\ ResumedWith(k, rt_schedule(r), t, e)
         /\ MostUrgent(rt_schedule(r))
<1> DEFINE u == rt_schedule(r)
<1>1. KernelOK(u) /\ Switched(r, u) /\ MostUrgent(u)
  BY ScheduleLemma DEF ResumedWith
<1> HIDE DEF u
<1>2. Unlisting(k, u, t)
  BY <1>1 DEF ResumedWith, Unlisting, Switched
<1>3. ResumedWith(k, u, t, e)
  BY <1>1, <1>2 DEF ResumedWith, Switched
<1>4. QED
  BY <1>1, <1>3 DEF u

(* WakeFirst, the end of a call that may let a waiter go on *)
LEMMA WakeLemma ==
  ASSUME KernelOK(kern), NEW l \in List, l # "rt_thread_defunct",
         kern.list[l] # <<>>, NEW t, WakeFirst(t, l)
  PROVE  LET h == Head(kern.list[l])
         IN  /\ ResumedHere(kern, kern', h, kern.error[h])
             /\ pc' = [pc EXCEPT ![t] = "sched"]
BY HeadSuspended, ResumeHere DEF WakeFirst, rt_ipc_list_resume, Goto

(* the same end of a call of an interrupt handler *)
LEMMA IsrWakeLemma ==
  ASSUME KernelOK(kern), kern.lock = 0, NEW l \in List, l # "rt_thread_defunct",
         kern.list[l] # <<>>, IsrWakeFirst(l)
  PROVE  LET h == Head(kern.list[l])
         IN  ResumedWith(kern, kern', h, kern.error[h]) /\ MostUrgent(kern')
<1> DEFINE h == Head(kern.list[l])
           r == rt_thread_resume(kern, h)
<1>1. h \in Thread /\ ResumedWith(kern, r, h, kern.error[h])
  BY HeadSuspended, ResumeHere DEF ResumedHere
<1>2. kern' = rt_schedule(r)
  BY DEF IsrWakeFirst, rt_ipc_list_resume
<1> HIDE DEF h, r
<1>3. ResumedWith(kern, kern', h, kern.error[h]) /\ MostUrgent(kern')
  BY <1>1, <1>2, ThenSchedule
<1>4. QED
  BY <1>3 DEF h

(* one turn of the loop of rt_ipc_list_resume_all *)
LEMMA ResumeErrorLemma ==
  ASSUME NEW k, KernelOK(k), NEW l \in List, l # "rt_thread_defunct", k.list[l] # <<>>
  PROVE  ResumedHere(k, ResumeWithError(k, l), Head(k.list[l]), "RT_ERROR")
<1> DEFINE h == Head(k.list[l])
           e == SetError(k, h, "RT_ERROR")
           u == rt_thread_resume(e, h)
<1>1. h \in Thread /\ k.stat[h] = "SUSPEND"
  BY HeadSuspended
<1> HIDE DEF h
<1>2. /\ KernelOK(e)
      /\ e.current = k.current /\ e.stat = k.stat /\ e.list = k.list
      /\ e.priority = k.priority /\ e.lock = k.lock
      /\ e.error[h] = "RT_ERROR" /\ \A x \in Thread \ {h} : e.error[x] = k.error[x]
  BY <1>1, ErrorLemma DEF Error
<1> HIDE DEF e
<1>3. ResumedHere(e, u, h, "RT_ERROR")
  BY <1>1, <1>2, ResumeHere
<1> HIDE DEF u
<1>4. ResumedHere(k, u, h, "RT_ERROR")
  BY <1>2, <1>3 DEF ResumedHere, ResumedWith, Unlisting
<1>5. QED
  BY <1>4 DEF h, e, u, ResumeWithError, SetError

(* the tick that ends the wait of a suspended thread *)
LEMMA TimerLemma ==
  ASSUME KernelOK(kern), kern.lock = 0, NEW t, TimerExpires(t)
  PROVE  /\ t \in Thread /\ UNCHANGED pc
         /\ ResumedWith(kern, kern', t, "RT_ETIMEOUT") /\ MostUrgent(kern')
<1>0. /\ kern' = rt_thread_timeout(kern, t) /\ UNCHANGED pc /\ t \in kern.timer
      /\ t \in Thread /\ kern \in KernelState /\ kern.stat[t] = "SUSPEND"
  BY DEF TimerExpires, KernelOK, KernelState, CurrentOK
<1>1. /\ KernelOK(kern') /\ Unlisting(kern, kern', t)
      /\ kern'.error = [kern.error EXCEPT ![t] = "RT_ETIMEOUT"]
      /\ kern'.priority = kern.priority /\ kern'.lock = kern.lock
      /\ kern'.stat[t] \in {"READY", "RUNNING"}
      /\ \A x \in Thread \ {t} :
           \/ kern'.stat[x] = kern.stat[x]
           \/ /\ kern.stat[x] \in {"READY", "RUNNING"}
              /\ kern'.stat[x] \in {"READY", "RUNNING"}
      /\ MostUrgent(kern')
  BY <1>0, TimeoutLemma
<1>2. kern'.error[t] = "RT_ETIMEOUT" /\ \A x \in Thread \ {t} : kern'.error[x] = kern.error[x]
  BY <1>0, <1>1 DEF KernelState
<1>3. QED
  BY <1>0, <1>1, <1>2 DEF ResumedWith

(* the tick that ends a time slice *)
LEMMA SliceLemma ==
  ASSUME KernelOK(kern), kern.lock = 0, SliceExpires
  PROVE  /\ UNCHANGED pc
         /\ KernelOK(kern') /\ Switched(kern, kern') /\ MostUrgent(kern')
<1> DEFINE k == [kern EXCEPT !.yield = @ \cup {kern.current}]
<1>0. kern' = rt_schedule(k) /\ UNCHANGED pc /\ kern \in KernelState
  BY DEF SliceExpires, KernelOK
<1>1. /\ k \in KernelState
      /\ k.current = kern.current /\ k.stat = kern.stat /\ k.error = kern.error
      /\ k.priority = kern.priority /\ k.timer = kern.timer /\ k.lock = kern.lock
      /\ k.ready = kern.ready /\ k.group = kern.group /\ k.list = kern.list
      /\ k.fault = kern.fault
  BY <1>0 DEF KernelState
<1> HIDE DEF k
<1>2. KernelOK(k)
  <2>1. \A x \in k.timer : kern.stat[x] = "SUSPEND"
    BY <1>1 DEF KernelOK, CurrentOK
  <2>2. QED
    BY <1>1, <2>1, Unlisted
<1>3. KernelOK(kern') /\ Switched(k, kern') /\ MostUrgent(kern')
  BY <1>0, <1>1, <1>2, ScheduleLemma
<1>4. Switched(kern, kern')
  BY <1>1, <1>3 DEF Switched
<1>5. QED
  BY <1>0, <1>3, <1>4

(* the call of rt_schedule that ends a service *)
LEMMA RescheduleLemma ==
  ASSUME KernelOK(kern), kern.lock = 0, NEW t, NEW p, NEW q, Reschedule(t, p, q)
  PROVE  /\ t = kern.current /\ pc[t] = p /\ pc' = [pc EXCEPT ![t] = q]
         /\ KernelOK(kern') /\ Switched(kern, kern') /\ MostUrgent(kern')
BY ScheduleLemma DEF Reschedule, At, Goto

(* rt_system_scheduler_start leaves consistent kernel data. *)
LEMMA BootLemma ==
  ASSUME NEW started \in SUBSET Thread, Idle \in started, NEW k, Booted(k, started)
  PROVE  /\ KernelOK(k)
         /\ k.lock = 0 /\ k.stat[k.current] = "RUNNING"
         /\ \A t \in Thread : k.stat[t] = "READY" =>
              k.priority[k.current] <= k.priority[t]
         /\ \A t \in Thread : k.error[t] = "RT_EOK"
         /\ \A t \in started : k.stat[t] \in {"READY", "RUNNING"}
         /\ \A l \in List : k.list[l] = <<>>
<1>1. PICK c \in started : /\ k = BootState(started, c)
                           /\ \A t \in started : InitPriority[c] <= InitPriority[t]
  BY DEF Booted
<1> DEFINE waiting(p) == {t \in started \ {c} : InitPriority[t] = p}
<1>2. /\ k.current = c /\ k.yield = {} /\ k.priority = InitPriority
      /\ k.stat = [t \in Thread |-> CASE t = c -> "RUNNING"
                                     [] t \in started \ {c} -> "READY"
                                     [] OTHER -> "INIT"]
      /\ k.error = [t \in Thread |-> "RT_EOK"] /\ k.timer = {}
      /\ k.ready = [p \in Priority |-> SetToSeq(waiting(p))]
      /\ k.group = {InitPriority[t] : t \in started \ {c}}
      /\ k.list = [l \in List |-> <<>>] /\ k.lock = 0 /\ k.fault = FALSE
  BY <1>1 DEF BootState
<1>3. \A t \in Thread : k.stat[t] = IF t = c THEN "RUNNING"
                                  ELSE IF t \in started THEN "READY" ELSE "INIT"
  BY <1>2
<1>4. ASSUME NEW p \in Priority
      PROVE  /\ k.ready[p] \in Seq(Thread) /\ IsInjective(k.ready[p])
             /\ ToSet(k.ready[p]) = waiting(p)
             /\ k.ready[p] # <<>> <=> waiting(p) # {}
  <2>1. IsFiniteSet(waiting(p)) /\ waiting(p) \subseteq Thread
    BY KernelAssumption, FS_Subset
  <2> DEFINE W == waiting(p)
  <2>2. k.ready[p] = SetToSeq(W)
    BY <1>2
  <2> HIDE DEF W
  <2>3. /\ k.ready[p] \in Seq(W) /\ ToSet(k.ready[p]) = W
        /\ IsInjective(k.ready[p])
    BY <2>1, <2>2, SetToSeqLemma DEF W
  <2>4. k.ready[p] # <<>> <=> W # {}
    BY <2>3, EmptyToSet
  <2>5. Seq(W) \subseteq Seq(Thread)
    BY <2>1 DEF W
  <2>6. QED
    BY <2>3, <2>4, <2>5 DEF W
<1>5. \A t \in Thread : InitPriority[t] \in Priority
  BY KernelAssumption
<1>6. k \in KernelState
  <2>1. k.ready \in [Priority -> Seq(Thread)]
    BY <1>2, <1>4
  <2>2. k.stat \in [Thread -> Stat]
    BY <1>2, <1>3 DEF Stat
  <2>3. k.group \subseteq Priority
    BY <1>2, <1>5
  <2>4. k.list \in [List -> Seq(Thread)]
    BY <1>2
  <2>5. /\ k.priority \in [Thread -> Priority] /\ k.error \in [Thread -> Error]
        /\ k.lock \in Nat /\ k.fault \in BOOLEAN /\ c \in Thread
        /\ k.timer \subseteq Thread /\ k.yield \subseteq Thread
    <3>1. k.priority \in [Thread -> Priority]
      BY <1>2, KernelAssumption
    <3>2. k.error \in [Thread -> Error]
      BY <1>2 DEF Error
    <3>3. k.timer \subseteq Thread /\ k.yield \subseteq Thread
      BY <1>2
    <3>4. k.lock \in Nat
      BY <1>2
    <3>5. k.fault \in BOOLEAN
      <4>1. k.fault = FALSE
        BY <1>2
      <4>2. QED
        BY <4>1, Zenon
    <3>6. c \in Thread
      OBVIOUS
    <3>7. QED
      BY <3>1, <3>2, <3>3, <3>4, <3>5, <3>6
  <2>7. k = [current |-> k.current, stat |-> k.stat, yield |-> k.yield,
             priority |-> k.priority, error |-> k.error, timer |-> k.timer,
             ready |-> k.ready, group |-> k.group, list |-> k.list,
             lock |-> k.lock, fault |-> k.fault]
    BY <1>1 DEF BootState
  <2>8. QED
    BY <1>2, <2>1, <2>2, <2>3, <2>4, <2>5, <2>7 DEF KernelState
<1>7. ReadyQueueOK(k)
  <2>1. ASSUME NEW p \in Priority
        PROVE  /\ p \in k.group <=> k.ready[p] # <<>>
               /\ IsInjective(k.ready[p])
               /\ \A t \in ToSet(k.ready[p]) : k.stat[t] = "READY" /\ k.priority[t] = p
    BY <1>2, <1>3, <1>4
  <2>2. ASSUME NEW t \in Thread, k.stat[t] = "READY"
        PROVE  t \in ToSet(k.ready[k.priority[t]])
    <3>1. t \in started \ {c} /\ k.priority[t] = InitPriority[t]
      BY <1>2, <1>3, <2>2
    <3>2. QED
      BY <1>4, <1>5, <3>1
  <2>3. QED
    BY <2>1, <2>2 DEF ReadyQueueOK
<1>8. \A l \in List : k.list[l] = <<>> /\ ToSet(k.list[l]) = {} /\ IsInjective(k.list[l])
  <2>1. ToSet(<<>>) = {} /\ IsInjective(<<>>)
    BY DEF ToSet, IsInjective
  <2>2. QED
    BY <1>2, <2>1
<1>9. SuspendListOK(k)
  BY <1>8 DEF SuspendListOK
<1>10. CurrentOK(k)
  BY <1>2, <1>3, KernelAssumption DEF CurrentOK
<1>11. \A t \in Thread : k.stat[t] = "READY" =>
         k.priority[k.current] <= k.priority[t]
  BY <1>1, <1>2, <1>3
<1>12. QED
  BY <1>2, <1>3, <1>6, <1>7, <1>8, <1>9, <1>10, <1>11 DEF KernelOK

(***************************************************************************)
(* A service with suspend lists, as far as Cpu's steps can tell.  s.points *)
(* are the points of its calls; Way(s, l) are those of a thread from its    *)
(* entry in list l up to where it looks why it was resumed, s.leave those  *)
(* in front of the rt_schedule that leaves the processor, and s.settled    *)
(* those where no call of rt_schedule is due.                              *)
(***************************************************************************)
Way(s, l) == s.way[l]
LeavePoints(s) == s.leave
SettledPoints(s) == s.settled
CallPoints(s) == s.points

ServiceOK(s) ==
  /\ "sched" \in CallPoints(s) \ (LeavePoints(s) \cup SettledPoints(s))
  /\ LeavePoints(s) \cap SettledPoints(s) = {}
  /\ Run \in CallPoints(s) \cap SettledPoints(s)
  /\ \A l \in List :
       /\ l # "rt_thread_defunct"
       /\ Run \notin Way(s, l) /\ "sched" \notin Way(s, l)
       /\ \A m \in List \ {l} : Way(s, l) \cap Way(s, m) = {}

(* Whoever waits in list l waits there for an answer that is still open.    *)
ListedOnWay(s) ==
  \A l \in List : \A t \in ToSet(kern.list[l]) :
    pc[t] \in Way(s, l) /\ kern.error[t] = "RT_EOK"

Steady(s) ==
  /\ KernelOK(kern) /\ kern.lock = 0
  /\ pc \in [Thread -> CallPoints(s)]
  /\ pc[kern.current] \notin LeavePoints(s) => kern.stat[kern.current] = "RUNNING"
  /\ MostUrgentRunsAt(SettledPoints(s))
  /\ ListedOnWay(s)

(* the threads at points W that were resumed with RT_EOK *)
Awake(W) == {t \in Thread : /\ pc[t] \in W /\ kern.stat[t] # "SUSPEND"
                            /\ kern.error[t] = "RT_EOK"}

(* those that are awake stay so, but for t *)
AllBut(s, l, t) == Awake(Way(s, l))' = Awake(Way(s, l)) \ {t}
SameAwake(s, l) == Awake(Way(s, l))' = Awake(Way(s, l))
AtMostOneLess(s, l) == SameAwake(s, l) \/ \E t \in Thread : AllBut(s, l, t)

Moved(t, q) == pc'[t] = q /\ \A x \in Thread \ {t} : pc'[x] = pc[x]

(* nobody enters a suspend list *)
Shrunk ==
  \A l \in List : /\ ToSet(kern'.list[l]) \subseteq ToSet(kern.list[l])
                  /\ kern.list[l] = <<>> => kern'.list[l] = <<>>

(* A thread that takes a step runs, so it is in no suspend list. *)
LEMMA StepperRuns ==
  ASSUME NEW s, ServiceOK(s), Steady(s),
         NEW t \in Thread, NEW p, At(t, p), p \notin LeavePoints(s)
  PROVE  /\ HasCpu(kern, t) /\ pc[t] = p
         /\ \A l \in List : t \notin ToSet(kern.list[l])
<1>1. HasCpu(kern, t) /\ pc[t] = p
  BY DEF Steady, At, HasCpu
<1>2. QED
  BY <1>1 DEF HasCpu, ServiceOK, Steady, KernelOK, SuspendListOK, ListedStat

(* Members of a list are threads. *)
LEMMA ListedThreads ==
  ASSUME NEW k, KernelOK(k), NEW l \in List
  PROVE  k.list[l] \in Seq(Thread) /\ ToSet(k.list[l]) \subseteq Thread
BY ToSetType DEF KernelOK, KernelState

(* Taking threads out of a list leaves an empty list empty. *)
LEMMA UnlistingShrinks ==
  ASSUME NEW t, KernelOK(kern), KernelOK(kern'), Unlisting(kern, kern', t)
  PROVE  Shrunk
<1> SUFFICES ASSUME NEW l \in List
             PROVE  /\ ToSet(kern'.list[l]) \subseteq ToSet(kern.list[l])
                    /\ kern.list[l] = <<>> => kern'.list[l] = <<>>
  BY DEF Shrunk
<1>1. ToSet(kern'.list[l]) = ToSet(kern.list[l]) \ {t}
  BY DEF Unlisting
<1>2. kern.list[l] \in Seq(Thread) /\ kern'.list[l] \in Seq(Thread)
  BY ListedThreads
<1>3. QED
  BY <1>1, <1>2, EmptyToSet

(* The service once the scheduler has started *)
LEMMA SteadyInit ==
  ASSUME NEW s, ServiceOK(s), CpuInit
  PROVE  /\ Steady(s)
         /\ \A l \in List : kern.list[l] = <<>> /\ Awake(Way(s, l)) = {}
<1>1. /\ KernelOK(kern)
      /\ kern.lock = 0 /\ kern.stat[kern.current] = "RUNNING"
      /\ \A t \in Thread : kern.stat[t] = "READY" =>
           kern.priority[kern.current] <= kern.priority[t]
      /\ \A l \in List : kern.list[l] = <<>>
  BY BootLemma, KernelAssumption DEF CpuInit
<1>2. pc = [t \in Thread |-> Run]
  BY DEF CpuInit
<1>3. ToSet(<<>>) = {}
  BY DEF ToSet
<1>4. ListedOnWay(s)
  BY <1>1, <1>3 DEF ListedOnWay
<1>5. MostUrgentRunsAt(SettledPoints(s))
  BY <1>1 DEF MostUrgentRunsAt
<1>6. ASSUME NEW l \in List PROVE Awake(Way(s, l)) = {}
  BY <1>2 DEF Awake, ServiceOK
<1>7. QED
  BY <1>1, <1>2, <1>4, <1>5, <1>6 DEF Steady, ServiceOK

(* The running thread goes on at point q, perhaps with a new error number. *)
LEMMA GoStep ==
  ASSUME NEW s, ServiceOK(s), Steady(s), NEW t \in Thread, NEW p, At(t, p),
         p \notin LeavePoints(s), NEW q \in CallPoints(s) \ LeavePoints(s), Goto(t, q),
         q \in SettledPoints(s) => p \in SettledPoints(s),
         \A l \in List : q \notin Way(s, l),
         NEW e \in Error, kern' = kern \/ kern' = SetError(kern, t, e)
  PROVE  /\ Steady(s)' /\ Moved(t, q)
         /\ kern'.list = kern.list
         /\ \A l \in List : AllBut(s, l, t)
<1>1. /\ HasCpu(kern, t) /\ pc[t] = p
      /\ \A l \in List : t \notin ToSet(kern.list[l])
  BY StepperRuns
<1>2. Moved(t, q) /\ pc' \in [Thread -> CallPoints(s)]
  BY DEF Goto, Moved, Steady
<1>3. /\ KernelOK(kern') /\ kern'.current = kern.current /\ kern'.stat = kern.stat
      /\ kern'.list = kern.list /\ kern'.priority = kern.priority
      /\ kern'.lock = kern.lock
      /\ \A x \in Thread \ {t} : kern'.error[x] = kern.error[x]
  BY ErrorLemma DEF Steady
<1>4. ASSUME NEW l \in List PROVE AllBut(s, l, t)
  BY <1>2, <1>3 DEF Awake, Moved, AllBut
<1>5. ListedOnWay(s)'
  <2>1. ASSUME NEW l \in List, NEW x \in ToSet(kern'.list[l])
        PROVE  pc'[x] \in Way(s, l) /\ kern'.error[x] = "RT_EOK"
    <3>1. x \in ToSet(kern.list[l]) /\ x \in Thread \ {t}
      BY <1>1, <1>3, <2>1, ListedThreads DEF Steady
    <3>2. QED
      BY <1>2, <1>3, <3>1 DEF Steady, ListedOnWay, Moved
  <2>2. QED
    BY <2>1 DEF ListedOnWay
<1>6. kern'.stat[kern'.current] = "RUNNING" /\ kern'.current = t /\ pc'[t] = q
  BY <1>1, <1>2, <1>3 DEF HasCpu, Moved
<1>7. MostUrgentRunsAt(SettledPoints(s))'
  BY <1>1, <1>3, <1>6 DEF MostUrgentRunsAt, Steady, HasCpu
<1>8. QED
  BY <1>2, <1>3, <1>4, <1>5, <1>6, <1>7 DEF Steady

(* a thread that enters list l waits at q, in front of its rt_schedule *)
WaitPoint(s, q, l) ==
  q \in CallPoints(s) /\ q \in LeavePoints(s) /\ q \in Way(s, l)

(* t, and nobody else, enters a list, which is l *)
Enters(t, l) ==
  /\ ToSet(kern'.list[l]) = ToSet(kern.list[l]) \cup {t}
  /\ \A m \in List \ {l} : kern'.list[m] = kern.list[m]

(* The running thread waits in list l. *)
LEMMA WaitStep ==
  ASSUME NEW s, ServiceOK(s), Steady(s), NEW t \in Thread \ {Idle}, NEW p, At(t, p),
         p \notin LeavePoints(s), NEW l \in List, NEW flag, NEW timed \in BOOLEAN,
         NEW q, WaitPoint(s, q, l), WaitIn(t, l, flag, timed, q)
  PROVE  Steady(s)' /\ Moved(t, q) /\ Enters(t, l) /\ \A m \in List : AllBut(s, m, t)
<1>0. q \in CallPoints(s) /\ q \in LeavePoints(s) /\ q \in Way(s, l)
  BY DEF WaitPoint
<1>1. /\ HasCpu(kern, t) /\ pc[t] = p
      /\ \A m \in List : t \notin ToSet(kern.list[m])
  BY StepperRuns
<1>2. SuspendedIn(kern, kern', t, l) /\ pc' = [pc EXCEPT ![t] = q]
  BY <1>1, WaitLemma DEF Steady, ServiceOK
<1>3. Moved(t, q) /\ pc' \in [Thread -> CallPoints(s)]
  BY <1>0, <1>2 DEF Moved, Steady
<1>4. /\ KernelOK(kern') /\ kern'.current = kern.current /\ kern'.lock = kern.lock
      /\ ToSet(kern'.list[l]) = ToSet(kern.list[l]) \cup {t}
      /\ \A m \in List \ {l} : kern'.list[m] = kern.list[m]
      /\ kern'.stat[t] = "SUSPEND" /\ kern'.error[t] = "RT_EOK"
      /\ \A x \in Thread \ {t} : /\ kern'.stat[x] = kern.stat[x]
                                 /\ kern'.error[x] = kern.error[x]
  BY <1>2 DEF SuspendedIn
<1>5. ASSUME NEW m \in List PROVE AllBut(s, m, t)
  BY <1>3, <1>4 DEF Awake, Moved, AllBut
<1>6. ListedOnWay(s)'
  <2>1. ASSUME NEW m \in List, NEW x \in ToSet(kern'.list[m])
        PROVE  pc'[x] \in Way(s, m) /\ kern'.error[x] = "RT_EOK"
    <3>1. CASE x = t
      <4>1. m = l
        BY <1>1, <1>4, <2>1, <3>1
      <4>2. QED
        BY <1>0, <1>3, <1>4, <3>1, <4>1 DEF Moved
    <3>2. CASE x # t
      <4>1. x \in ToSet(kern.list[m])
        BY <1>4, <2>1, <3>2
      <4>2. x \in Thread
        BY <4>1, ListedThreads DEF Steady
      <4>3. QED
        BY <1>3, <1>4, <3>2, <4>1, <4>2 DEF Steady, ListedOnWay, Moved
    <3>3. QED
      BY <3>1, <3>2
  <2>2. QED
    BY <2>1 DEF ListedOnWay
<1>7. kern'.current = t /\ pc'[t] = q
  BY <1>1, <1>3, <1>4 DEF HasCpu, Moved
<1>8. MostUrgentRunsAt(SettledPoints(s))'
  BY <1>0, <1>7 DEF MostUrgentRunsAt, ServiceOK
<1>9. QED
  BY <1>0, <1>3, <1>4, <1>5, <1>6, <1>7, <1>8 DEF Steady, Enters

(* T, the thread that takes the step if there is one, is in no way in or    *)
(* out of a list when the step is over; the others stay where they are.     *)
StepOf(s, T) ==
  /\ \A x \in Thread \ T : pc'[x] = pc[x]
  /\ \A x \in T : \A m \in List : /\ pc'[x] \notin Way(s, m)
                                /\ x \notin ToSet(kern.list[m])

(* the resumed thread h joins those that are awake, unless with an error *)
Joins(s, T, h, e) ==
  \A m \in List : Awake(Way(s, m))' =
    (Awake(Way(s, m)) \ T) \cup (IF pc[h] \in Way(s, m) /\ e = "RT_EOK" THEN {h} ELSE {})

(* What a resumed thread means for those that are listed or awake *)
LEMMA ResumedAwake ==
  ASSUME NEW s, ServiceOK(s), Steady(s), NEW h \in Thread, NEW e,
         ResumedWith(kern, kern', h, e),
         NEW T, StepOf(s, T), h \notin T
  PROVE  ListedOnWay(s)' /\ Shrunk /\ Joins(s, T, h, e)
<1>1. /\ KernelOK(kern) /\ KernelOK(kern') /\ Unlisting(kern, kern', h)
      /\ kern.stat[h] = "SUSPEND" /\ kern'.stat[h] # "SUSPEND"
      /\ kern'.error[h] = e
      /\ \A x \in Thread \ {h} :
           /\ kern'.error[x] = kern.error[x]
           /\ kern'.stat[x] = "SUSPEND" <=> kern.stat[x] = "SUSPEND"
  BY DEF ResumedWith, Steady
<1>2. Shrunk
  BY <1>1, UnlistingShrinks
<1>3. ListedOnWay(s)'
  <2>1. ASSUME NEW m \in List, NEW x \in ToSet(kern'.list[m])
        PROVE  pc'[x] \in Way(s, m) /\ kern'.error[x] = "RT_EOK"
    <3>1. x \in ToSet(kern.list[m]) /\ x # h
      BY <1>1, <2>1 DEF Unlisting
    <3>2. x \in Thread \ T
      BY <1>1, <3>1, ListedThreads DEF StepOf
    <3>3. QED
      BY <1>1, <3>1, <3>2 DEF Steady, ListedOnWay, StepOf
  <2>2. QED
    BY <2>1 DEF ListedOnWay
<1>4. ASSUME NEW m \in List
      PROVE  Awake(Way(s, m))' =
               (Awake(Way(s, m)) \ T)
                 \cup (IF pc[h] \in Way(s, m) /\ e = "RT_EOK" THEN {h} ELSE {})
  <2> DEFINE W == Way(s, m)
  <2>1. /\ \A x \in T : pc'[x] \notin W
        /\ \A x \in Thread \ T : pc'[x] = pc[x]
    BY DEF StepOf
  <2> HIDE DEF W
  <2>2. ASSUME NEW x \in Thread
        PROVE  x \in Awake(W)' <=>
                 \/ x \in Awake(W) /\ x \notin T
                 \/ x = h /\ pc[h] \in W /\ e = "RT_EOK"
    <3>1. CASE x = h
      BY <1>1, <2>1, <3>1 DEF Awake
    <3>2. CASE x # h /\ x \in T
      BY <2>1, <3>2 DEF Awake
    <3>3. CASE x # h /\ x \notin T
      BY <1>1, <2>1, <3>3 DEF Awake
    <3>4. QED
      BY <3>1, <3>2, <3>3
  <2>3. Awake(W) \subseteq Thread /\ Awake(W)' \subseteq Thread
    BY DEF Awake
  <2>4. Awake(W)' = (Awake(W) \ T) \cup (IF pc[h] \in W /\ e = "RT_EOK" THEN {h} ELSE {})
    BY <2>2, <2>3
  <2>5. QED
    BY <2>4 DEF W
<1>5. QED
  BY <1>2, <1>3, <1>4 DEF Joins

(* A call of the running thread resumes the head of list l. *)
LEMMA WakeStep ==
  ASSUME NEW s, ServiceOK(s), Steady(s), NEW t \in Thread, NEW p, At(t, p),
         p \notin LeavePoints(s), NEW l \in List, kern.list[l] # <<>>, WakeFirst(t, l)
  PROVE  /\ Steady(s)' /\ Moved(t, "sched") /\ Shrunk
         /\ Head(kern.list[l]) \in Thread \ {t}
         /\ Head(kern.list[l]) \notin Awake(Way(s, l))
         /\ \A m \in List : Awake(Way(s, m))' =
              (Awake(Way(s, m)) \ {t})
                \cup (IF m = l THEN {Head(kern.list[l])} ELSE {})
<1> DEFINE h == Head(kern.list[l])
<1>1. /\ HasCpu(kern, t) /\ pc[t] = p /\ KernelOK(kern)
      /\ \A m \in List : t \notin ToSet(kern.list[m])
  BY StepperRuns DEF Steady
<1>2. /\ h \in Thread \ {t} /\ kern.stat[h] = "SUSPEND" /\ kern.error[h] = "RT_EOK"
      /\ pc[h] \in Way(s, l)
  BY <1>1, HeadSuspended DEF ServiceOK, Steady, ListedOnWay
<1>3. ResumedHere(kern, kern', h, "RT_EOK") /\ pc' = [pc EXCEPT ![t] = "sched"]
  BY <1>1, <1>2, WakeLemma DEF ServiceOK
<1> HIDE DEF h
<1>4. Moved(t, "sched") /\ pc' \in [Thread -> CallPoints(s)]
  BY <1>3 DEF Moved, Steady, ServiceOK
<1>5. ResumedWith(kern, kern', h, "RT_EOK")
  BY <1>3 DEF ResumedHere
<1>6. StepOf(s, {t})
  BY <1>1, <1>4 DEF StepOf, Moved, ServiceOK
<1>7. h \notin {t}
  BY <1>2
<1>8. ListedOnWay(s)' /\ Shrunk /\ Joins(s, {t}, h, "RT_EOK")
  BY <1>2, <1>5, <1>6, <1>7, ResumedAwake
<1>9. \A m \in List : Awake(Way(s, m))' =
        (Awake(Way(s, m)) \ {t}) \cup (IF m = l THEN {h} ELSE {})
  <2>1. \A m \in List : pc[h] \in Way(s, m) <=> m = l
    BY <1>2 DEF ServiceOK
  <2>2. QED
    BY <1>8, <2>1 DEF Joins
<1>10. h \notin Awake(Way(s, l))
  BY <1>2 DEF Awake
<1>11. kern'.current = t /\ kern'.stat[t] = "RUNNING" /\ pc'[t] = "sched"
       /\ KernelOK(kern') /\ kern'.lock = 0
  BY <1>1, <1>2, <1>3, <1>4 DEF ResumedHere, ResumedWith, HasCpu, Moved, Steady
<1>12. MostUrgentRunsAt(SettledPoints(s))'
  BY <1>11 DEF MostUrgentRunsAt, ServiceOK
<1>13. Steady(s)'
  BY <1>4, <1>8, <1>11, <1>12 DEF Steady
<1>14. QED
  BY <1>2, <1>4, <1>8, <1>9, <1>10, <1>13 DEF h

(* A call of an interrupt handler resumes the head of list l. *)
LEMMA IsrWakeStep ==
  ASSUME NEW s, ServiceOK(s), Steady(s), UNCHANGED pc,
         NEW l \in List, kern.list[l] # <<>>, IsrWakeFirst(l)
  PROVE  /\ Steady(s)' /\ Shrunk
         /\ Head(kern.list[l]) \in Thread
         /\ Head(kern.list[l]) \notin Awake(Way(s, l))
         /\ \A m \in List : Awake(Way(s, m))' =
              Awake(Way(s, m)) \cup (IF m = l THEN {Head(kern.list[l])} ELSE {})
<1> DEFINE h == Head(kern.list[l])
<1>1. /\ h \in Thread /\ kern.stat[h] = "SUSPEND" /\ kern.error[h] = "RT_EOK"
      /\ pc[h] \in Way(s, l) /\ KernelOK(kern) /\ kern.lock = 0
  BY HeadSuspended DEF ServiceOK, Steady, ListedOnWay
<1>2. ResumedWith(kern, kern', h, "RT_EOK") /\ MostUrgent(kern')
  BY <1>1, IsrWakeLemma DEF ServiceOK
<1> HIDE DEF h
<1>3. StepOf(s, {}) /\ h \notin {}
  BY DEF StepOf
<1>4. ListedOnWay(s)' /\ Shrunk /\ Joins(s, {}, h, "RT_EOK")
  BY <1>1, <1>2, <1>3, ResumedAwake
<1>5. \A m \in List : Awake(Way(s, m))' =
        Awake(Way(s, m)) \cup (IF m = l THEN {h} ELSE {})
  <2>1. \A m \in List : pc[h] \in Way(s, m) <=> m = l
    BY <1>1 DEF ServiceOK
  <2>2. QED
    BY <1>4, <2>1 DEF Joins
<1>6. h \notin Awake(Way(s, l))
  BY <1>1 DEF Awake
<1>7. MostUrgentRunsAt(SettledPoints(s))'
  BY <1>2 DEF MostUrgentRunsAt, MostUrgent
<1>8. Steady(s)'
  BY <1>1, <1>2, <1>4, <1>7 DEF Steady, ResumedWith, MostUrgent
<1>9. QED
  BY <1>1, <1>4, <1>5, <1>6, <1>8 DEF h

(* A reset resumes the head of list l with an error. *)
LEMMA ResetStep ==
  ASSUME NEW s, ServiceOK(s), Steady(s), UNCHANGED pc,
         NEW t \in Thread, NEW p, At(t, p), p \notin LeavePoints(s) \cup SettledPoints(s),
         NEW l \in List, kern.list[l] # <<>>, kern' = ResumeWithError(kern, l)
  PROVE  /\ Steady(s)' /\ Shrunk
         /\ \A m \in List : SameAwake(s, m)
<1> DEFINE h == Head(kern.list[l])
<1>1. /\ HasCpu(kern, t) /\ pc[t] = p /\ KernelOK(kern)
      /\ \A m \in List : t \notin ToSet(kern.list[m])
  BY StepperRuns DEF Steady
<1>2. /\ h \in Thread \ {t} /\ kern.stat[h] = "SUSPEND"
  BY <1>1, HeadSuspended DEF ServiceOK
<1>3. ResumedHere(kern, kern', h, "RT_ERROR")
  BY <1>1, ResumeErrorLemma DEF ServiceOK
<1> HIDE DEF h
<1>4. ResumedWith(kern, kern', h, "RT_ERROR")
  BY <1>3 DEF ResumedHere
<1>5. StepOf(s, {}) /\ h \notin {}
  BY DEF StepOf
<1>6. ListedOnWay(s)' /\ Shrunk /\ Joins(s, {}, h, "RT_ERROR")
  BY <1>2, <1>4, <1>5, ResumedAwake
<1>7. /\ KernelOK(kern') /\ kern'.lock = 0 /\ kern'.current = t
      /\ kern'.stat[t] = "RUNNING" /\ pc'[t] = p
  BY <1>1, <1>2, <1>3 DEF ResumedHere, ResumedWith, HasCpu, Steady
<1>8. MostUrgentRunsAt(SettledPoints(s))'
  BY <1>7 DEF MostUrgentRunsAt
<1>9. Steady(s)'
  BY <1>6, <1>7, <1>8 DEF Steady
<1>10. \A m \in List : SameAwake(s, m)
  BY <1>6 DEF Joins, SameAwake
<1>11. QED
  BY <1>6, <1>9, <1>10

(* A switch of threads is nothing to those that are listed or awake. *)
LEMMA SwitchedAwake ==
  ASSUME NEW s, KernelOK(kern), ListedOnWay(s), Switched(kern, kern'),
         \A x \in Thread : \A m \in List : pc'[x] \in Way(s, m) <=> pc[x] \in Way(s, m)
  PROVE  /\ ListedOnWay(s)'
         /\ \A m \in List : SameAwake(s, m)
<1>1. /\ kern'.list = kern.list /\ kern'.error = kern.error
      /\ \A x \in Thread : kern'.stat[x] = "SUSPEND" <=> kern.stat[x] = "SUSPEND"
  BY DEF Switched
<1>2. ListedOnWay(s)'
  <2>1. ASSUME NEW m \in List, NEW x \in ToSet(kern'.list[m])
        PROVE  pc'[x] \in Way(s, m) /\ kern'.error[x] = "RT_EOK"
    <3>1. x \in ToSet(kern.list[m]) /\ x \in Thread
      BY <1>1, <2>1, ListedThreads
    <3>2. QED
      BY <1>1, <3>1 DEF ListedOnWay
  <2>2. QED
    BY <2>1 DEF ListedOnWay
<1>3. ASSUME NEW m \in List PROVE SameAwake(s, m)
  BY <1>1 DEF Awake, SameAwake
<1>4. QED
  BY <1>2, <1>3

(* the rt_schedule that ends a service *)
LEMMA RescheduleStep ==
  ASSUME NEW s, ServiceOK(s), Steady(s), NEW t \in Thread, NEW p, NEW q \in CallPoints(s),
         Reschedule(t, p, q), \A l \in List : p \in Way(s, l) <=> q \in Way(s, l)
  PROVE  /\ Steady(s)' /\ Moved(t, q)
         /\ kern'.list = kern.list /\ kern'.error = kern.error
         /\ \A m \in List : SameAwake(s, m)
<1>1. /\ pc[t] = p /\ pc' = [pc EXCEPT ![t] = q]
      /\ KernelOK(kern') /\ Switched(kern, kern') /\ MostUrgent(kern')
  BY RescheduleLemma DEF Steady
<1>2. Moved(t, q) /\ pc' \in [Thread -> CallPoints(s)]
  BY <1>1 DEF Moved, Steady
<1>3. \A x \in Thread : \A m \in List : pc'[x] \in Way(s, m) <=> pc[x] \in Way(s, m)
  BY <1>1, <1>2 DEF Moved
<1>4. /\ ListedOnWay(s)'
      /\ \A m \in List : SameAwake(s, m)
  BY <1>1, <1>3, SwitchedAwake DEF Steady
<1>5. MostUrgentRunsAt(SettledPoints(s))'
  BY <1>1 DEF MostUrgentRunsAt, MostUrgent
<1>6. QED
  BY <1>1, <1>2, <1>4, <1>5 DEF Steady, Switched, MostUrgent

(* the tick interrupt *)
LEMMA TickStep ==
  ASSUME NEW s, ServiceOK(s), Steady(s),
         SliceExpires \/ \E t \in Thread : TimerExpires(t)
  PROVE  /\ Steady(s)' /\ UNCHANGED pc /\ Shrunk
         /\ \A m \in List : SameAwake(s, m)
<1>1. CASE SliceExpires
  <2>1. /\ UNCHANGED pc
        /\ KernelOK(kern') /\ Switched(kern, kern') /\ MostUrgent(kern')
    BY <1>1, SliceLemma DEF Steady
  <2>2. /\ ListedOnWay(s)'
        /\ \A m \in List : SameAwake(s, m)
    BY <2>1, SwitchedAwake DEF Steady
  <2>3. MostUrgentRunsAt(SettledPoints(s))'
    BY <2>1 DEF MostUrgentRunsAt, MostUrgent
  <2>4. QED
    BY <2>1, <2>2, <2>3 DEF Steady, Switched, MostUrgent, Shrunk
<1>2. ASSUME NEW t \in Thread, TimerExpires(t)
      PROVE  /\ Steady(s)' /\ UNCHANGED pc /\ Shrunk
             /\ \A m \in List : SameAwake(s, m)
  <2>1. /\ UNCHANGED pc
        /\ ResumedWith(kern, kern', t, "RT_ETIMEOUT") /\ MostUrgent(kern')
    BY <1>2, TimerLemma DEF Steady
  <2>2. StepOf(s, {}) /\ t \notin {}
    BY <2>1 DEF StepOf
  <2>3. ListedOnWay(s)' /\ Shrunk /\ Joins(s, {}, t, "RT_ETIMEOUT")
    BY <2>1, <2>2, ResumedAwake
  <2>4. MostUrgentRunsAt(SettledPoints(s))'
    BY <2>1 DEF MostUrgentRunsAt, MostUrgent
  <2>5. Steady(s)'
    BY <2>1, <2>3, <2>4 DEF Steady, ResumedWith, MostUrgent
  <2>6. \A m \in List : SameAwake(s, m)
    BY <2>3 DEF Joins, SameAwake
  <2>7. QED
    BY <2>1, <2>3, <2>5, <2>6
<1>3. QED
  BY <1>1, <1>2

(* Sets of threads are finite, and are counted one thread at a time. *)
LEMMA ThreadSets ==
  ASSUME NEW S \in SUBSET Thread
  PROVE  /\ IsFiniteSet(S) /\ Cardinality(S) \in Nat
         /\ \A t \in Thread \ S : Cardinality(S \cup {t}) = Cardinality(S) + 1
         /\ \A t \in S : Cardinality(S \ {t}) = Cardinality(S) - 1
BY KernelAssumption, FS_Subset, FS_CardinalityType, FS_AddElement, FS_RemoveElement

(* One thread less is awake at most when one thread moves on. *)
LEMMA AwakeLess ==
  ASSUME NEW W, NEW t
  PROVE  /\ Cardinality(Awake(W)) \in Nat /\ Cardinality(Awake(W) \ {t}) \in Nat
         /\ Cardinality(Awake(W) \ {t}) >= Cardinality(Awake(W)) - 1
         /\ Cardinality(Awake(W)') \in Nat
<1>1. Awake(W) \subseteq Thread /\ Awake(W) \ {t} \subseteq Thread
  BY DEF Awake
<1>2. t \notin Awake(W) => Awake(W) \ {t} = Awake(W)
  OBVIOUS
<1>3. Awake(W)' \subseteq Thread
  BY DEF Awake
<1>4. Cardinality(Awake(W)') \in Nat
  BY <1>3, ThreadSets
<1>5. QED
  BY <1>1, <1>2, <1>4, ThreadSets

(* The threads in list l wait although n things are there for them: this is *)
(* as it should be while a thread that is awake is on its way to each.      *)
Served(s, l, n) == kern.list[l] # <<>> => n <= Cardinality(Awake(Way(s, l)))
ServedNext(s, l, n) == kern'.list[l] # <<>> => n <= Cardinality(Awake(Way(s, l))')

(* one thread more is awake, unless nobody is left in list l *)
OneMore(s, l) ==
  kern'.list[l] # <<>> =>
    Cardinality(Awake(Way(s, l))') = Cardinality(Awake(Way(s, l))) + 1

(* One thing more, and one thread more to take it *)
LEMMA ServedMore ==
  ASSUME NEW s, NEW l \in List, NEW n \in Nat, Served(s, l, n), Shrunk, OneMore(s, l)
  PROVE  ServedNext(s, l, n + 1)
<1>1. kern'.list[l] # <<>> => kern.list[l] # <<>>
  BY DEF Shrunk
<1>2. Cardinality(Awake(Way(s, l))) \in Nat
  BY AwakeLess
<1>3. QED
  BY <1>1, <1>2 DEF Served, ServedNext, OneMore

(* One thing less, taken by one of the threads that are awake or another *)
LEMMA ServedFewer ==
  ASSUME NEW s, NEW l \in List, NEW n \in Nat, Served(s, l, n), Shrunk,
         AtMostOneLess(s, l)
  PROVE  ServedNext(s, l, n - 1)
<1>1. kern'.list[l] # <<>> => kern.list[l] # <<>>
  BY DEF Shrunk
<1>2. Cardinality(Awake(Way(s, l))) \in Nat
  BY AwakeLess
<1>3. CASE SameAwake(s, l)
  BY <1>1, <1>2, <1>3 DEF Served, ServedNext, SameAwake
<1>4. ASSUME NEW t, AllBut(s, l, t) PROVE ServedNext(s, l, n - 1)
  <2>1. /\ Cardinality(Awake(Way(s, l)) \ {t}) \in Nat
        /\ Cardinality(Awake(Way(s, l)) \ {t}) >= Cardinality(Awake(Way(s, l))) - 1
    BY AwakeLess
  <2>2. QED
    BY <1>1, <1>2, <1>4, <2>1 DEF Served, ServedNext, AllBut
<1>5. QED
  BY <1>3, <1>4 DEF AtMostOneLess

(* No more things than before, and the same threads awake *)
LEMMA ServedKept ==
  ASSUME NEW s, NEW l \in List, NEW n \in Nat, Served(s, l, n), Shrunk,
         NEW m \in Nat, m <= n, SameAwake(s, l)
  PROVE  ServedNext(s, l, m)
<1>1. kern'.list[l] # <<>> => kern.list[l] # <<>>
  BY DEF Shrunk
<1>2. Cardinality(Awake(Way(s, l))) \in Nat
  BY AwakeLess
<1>3. QED
  BY <1>1, <1>2 DEF Served, ServedNext, SameAwake

(* nothing to take *)
LEMMA ServedNone ==
  ASSUME NEW s, NEW l \in List
  PROVE  ServedNext(s, l, 0)
<1>1. Cardinality(Awake(Way(s, l))') \in Nat
  BY AwakeLess
<1>2. QED
  BY <1>1 DEF ServedNext

(* WakeFirst as a whole: while somebody stays in the list, one more thread  *)
(* is awake; of those on another way, at most the caller leaves it.         *)
LEMMA WakeFirstStep ==
  ASSUME NEW s, ServiceOK(s), Steady(s), NEW t \in Thread, NEW p \in SettledPoints(s),
         At(t, p), NEW l \in List, p \notin Way(s, l), WakeFirst(t, l)
  PROVE  /\ Steady(s)' /\ Shrunk
         /\ Moved(t, Run) \/ Moved(t, "sched")
         /\ OneMore(s, l)
         /\ \A m \in List \ {l} : AllBut(s, m, t)
<1>0. p \notin LeavePoints(s)
  BY DEF ServiceOK
<1>1. CASE kern.list[l] = <<>>
  <2>1. kern' = kern /\ Goto(t, Run)
    BY <1>1 DEF WakeFirst
  <2>2. /\ Run \in CallPoints(s) \ LeavePoints(s)
        /\ \A m \in List : Run \notin Way(s, m)
        /\ "RT_EOK" \in Error
    BY DEF ServiceOK, Error
  <2>3. /\ Steady(s)' /\ Moved(t, Run)
        /\ kern'.list = kern.list
        /\ \A m \in List : AllBut(s, m, t)
    BY <1>0, <2>1, <2>2, GoStep
  <2>4. Shrunk
    BY <2>1 DEF Shrunk
  <2>5. QED
    BY <1>1, <2>1, <2>3, <2>4 DEF OneMore
<1>2. CASE kern.list[l] # <<>>
  <2> DEFINE h == Head(kern.list[l])
  <2>1. /\ Steady(s)' /\ Moved(t, "sched") /\ Shrunk
        /\ h \in Thread \ {t} /\ h \notin Awake(Way(s, l))
        /\ \A m \in List : Awake(Way(s, m))' =
             (Awake(Way(s, m)) \ {t}) \cup (IF m = l THEN {h} ELSE {})
    BY <1>0, <1>2, WakeStep
  <2> HIDE DEF h
  <2>2. t \notin Awake(Way(s, l))
    BY <1>0, StepperRuns DEF Awake
  <2>3. Awake(Way(s, l))' = Awake(Way(s, l)) \cup {h} /\ Awake(Way(s, l)) \subseteq Thread
    BY <2>1, <2>2 DEF Awake
  <2>4. OneMore(s, l)
    BY <2>1, <2>3, ThreadSets DEF OneMore
  <2>5. \A m \in List \ {l} : AllBut(s, m, t)
    BY <2>1 DEF AllBut
  <2>6. QED
    BY <2>1, <2>4, <2>5
<1>3. QED
  BY <1>1, <1>2

(* IsrWakeFirst as a whole *)
LEMMA IsrWakeFirstStep ==
  ASSUME NEW s, ServiceOK(s), Steady(s), UNCHANGED pc,
         NEW l \in List, IsrWakeFirst(l)
  PROVE  /\ Steady(s)' /\ Shrunk
         /\ OneMore(s, l)
         /\ \A m \in List \ {l} : SameAwake(s, m)
<1>1. CASE kern.list[l] = <<>>
  <2>1. kern' = kern
    BY <1>1 DEF IsrWakeFirst
  <2>2. QED
    BY <1>1, <2>1 DEF Steady, ListedOnWay, MostUrgentRunsAt, Awake, Shrunk, OneMore,
       SameAwake
<1>2. CASE kern.list[l] # <<>>
  <2> DEFINE h == Head(kern.list[l])
  <2>1. /\ Steady(s)' /\ Shrunk /\ h \in Thread /\ h \notin Awake(Way(s, l))
        /\ \A m \in List : Awake(Way(s, m))' =
             Awake(Way(s, m)) \cup (IF m = l THEN {h} ELSE {})
    BY <1>2, IsrWakeStep
  <2> HIDE DEF h
  <2>2. Awake(Way(s, l))' = Awake(Way(s, l)) \cup {h} /\ Awake(Way(s, l)) \subseteq Thread
    BY <2>1 DEF Awake
  <2>3. OneMore(s, l)
    BY <2>1, <2>2, ThreadSets DEF OneMore
  <2>4. \A m \in List \ {l} : SameAwake(s, m)
    BY <2>1 DEF SameAwake
  <2>5. QED
    BY <2>1, <2>3, <2>4
<1>3. QED
  BY <1>1, <1>2

(***************************************************************************)
(* Steps that only the services with priority inheritance or sleep need.   *)
(***************************************************************************)
(* thread t at priority p, the ready queues left alone *)
WithPriority(k, t, p) == [k EXCEPT !.priority[t] = p]

(* a thread's priority has changed, and with it at most its ready queue *)
Reprioritized(k, u, t, p) ==
  /\ KernelOK(u)
  /\ u.current = k.current /\ u.stat = k.stat /\ u.list = k.list
  /\ u.error = k.error /\ u.timer = k.timer /\ u.lock = k.lock
  /\ u.priority[t] = p /\ \A x \in Thread \ {t} : u.priority[x] = k.priority[x]

(* A thread outside the ready queues may get another priority. *)
LEMMA WithPriorityLemma ==
  ASSUME NEW k \in KernelState, NEW t \in Thread, NEW p \in Priority
  PROVE  LET u == WithPriority(k, t, p)
         IN  /\ u \in KernelState
             /\ u.current = k.current /\ u.stat = k.stat /\ u.list = k.list
             /\ u.error = k.error /\ u.timer = k.timer /\ u.lock = k.lock
             /\ u.ready = k.ready /\ u.group = k.group /\ u.fault = k.fault
             /\ u.priority[t] = p
             /\ \A x \in Thread \ {t} : u.priority[x] = k.priority[x]
<1> DEFINE u == WithPriority(k, t, p)
<1>1. /\ u \in KernelState
      /\ u.current = k.current /\ u.stat = k.stat /\ u.list = k.list
      /\ u.error = k.error /\ u.timer = k.timer /\ u.lock = k.lock
      /\ u.ready = k.ready /\ u.group = k.group /\ u.fault = k.fault
      /\ u.priority = [k.priority EXCEPT ![t] = p]
  BY DEF WithPriority, KernelState
<1> HIDE DEF u
<1>2. u.priority[t] = p /\ \A x \in Thread \ {t} : u.priority[x] = k.priority[x]
  BY <1>1 DEF KernelState
<1>3. QED
  BY <1>1, <1>2 DEF u

(* rt_thread_control(RT_THREAD_CTRL_CHANGE_PRIORITY): a ready thread moves   *)
(* to the queue of its new priority.                                         *)
LEMMA ChangePriorityLemma ==
  ASSUME NEW k, KernelOK(k), NEW t \in Thread, NEW p \in Priority
  PROVE  Reprioritized(k, ChangePriority(k, t, p), t, p)
<1> DEFINE u == ChangePriority(k, t, p)
<1>0. k \in KernelState /\ Loose(k) /\ \A x \in k.timer : k.stat[x] = "SUSPEND"
  BY KernelOKLoose DEF KernelOK, CurrentOK
<1>1. CASE k.stat[t] # "READY"
  <2>1. u = WithPriority(k, t, p)
    BY <1>1 DEF ChangePriority, WithPriority
  <2> HIDE DEF u
  <2>2. /\ u \in KernelState
        /\ u.current = k.current /\ u.stat = k.stat /\ u.list = k.list
        /\ u.error = k.error /\ u.timer = k.timer /\ u.lock = k.lock
        /\ u.ready = k.ready /\ u.group = k.group /\ u.fault = k.fault
        /\ u.priority[t] = p
        /\ \A x \in Thread \ {t} : u.priority[x] = k.priority[x]
    BY <1>0, <2>1, WithPriorityLemma
  <2>3. \A q \in Priority : \A x \in ToSet(k.ready[q]) : x \in Thread \ {t}
    BY <1>0, <1>1, ToSetType DEF KernelState, KernelOK, ReadyQueueOK
  <2>4. ReadyQueueOK(u)
    BY <1>1, <2>2, <2>3 DEF KernelOK, ReadyQueueOK
  <2>5. SuspendListOK(u) /\ CurrentOK(u)
    BY <2>2 DEF KernelOK, SuspendListOK, CurrentOK
  <2>6. KernelOK(u)
    BY <2>2, <2>4, <2>5 DEF KernelOK
  <2>7. QED
    BY <2>2, <2>6 DEF Reprioritized, u
<1>2. CASE k.stat[t] = "READY"
  <2> DEFINE v == rt_schedule_remove_thread(k, t)
             w == WithPriority(v, t, p)
  <2>1. u = rt_schedule_insert_thread(w, t)
    BY <1>2 DEF ChangePriority, WithPriority
  <2> HIDE DEF u, w
  <2>2. /\ KernelBut(v, t)
        /\ v = [k EXCEPT !.ready = v.ready, !.group = v.group, !.list = v.list]
        /\ v.list = k.list
    <3>1. k.stat[t] \in {"READY", "RUNNING"}
      BY <1>2
    <3>2. QED
      BY <1>0, <3>1, Isolate, ZenonT(60)
  <2> HIDE DEF v
  <2>3. /\ v \in KernelState
        /\ v.current = k.current /\ v.stat = k.stat /\ v.error = k.error
        /\ v.priority = k.priority /\ v.timer = k.timer /\ v.lock = k.lock
    BY <1>0, <2>2, ZenonT(60) DEF KernelBut, KernelState
  <2>4. /\ w \in KernelState
        /\ w.current = v.current /\ w.stat = v.stat /\ w.list = v.list
        /\ w.error = v.error /\ w.timer = v.timer /\ w.lock = v.lock
        /\ w.ready = v.ready /\ w.group = v.group /\ w.fault = v.fault
        /\ w.priority[t] = p
        /\ \A x \in Thread \ {t} : w.priority[x] = v.priority[x]
    BY <2>3, WithPriorityLemma DEF w
  <2>5. KernelBut(w, t)
    <3>1. \A q \in Priority : \A x \in ToSet(w.ready[q]) : x \in Thread
      BY <2>4, ToSetType DEF KernelState
    <3>2. \A q \in Priority :
            /\ q \in w.group <=> w.ready[q] # <<>>
            /\ IsInjective(w.ready[q])
            /\ \A x \in ToSet(w.ready[q]) :
                 x # t /\ w.stat[x] = "READY" /\ w.priority[x] = q
      BY <2>2, <2>3, <2>4, <3>1 DEF KernelBut
    <3>3. \A x \in Thread \ {t} :
            /\ w.stat[x] = "READY" => x \in ToSet(w.ready[w.priority[x]])
            /\ w.stat[x] = "RUNNING" => x = w.current
            /\ x \in w.timer => w.stat[x] = "SUSPEND"
            /\ x = Idle => w.stat[x] \in {"READY", "RUNNING"}
      BY <2>2, <2>3, <2>4 DEF KernelBut
    <3>4. \A l \in List :
            /\ IsInjective(w.list[l])
            /\ \A x \in ToSet(w.list[l]) : x # t /\ w.stat[x] = ListedStat(l)
      BY <2>2, <2>3, <2>4 DEF KernelBut
    <3>5. /\ ~ w.fault
          /\ \A l, m \in List : ToSet(w.list[l]) \cap ToSet(w.list[m]) # {} => l = m
      BY <2>2, <2>4 DEF KernelBut
    <3>6. QED
      BY <2>4, <3>2, <3>3, <3>4, <3>5 DEF KernelBut
  <2>6. t \notin w.timer
    BY <1>0, <1>2, <2>3, <2>4
  <2>7. /\ Loose(u)
        /\ u = [w EXCEPT !.stat = u.stat, !.ready = u.ready, !.group = u.group]
        /\ u.stat = [w.stat EXCEPT ![t] = IF t = w.current THEN "RUNNING" ELSE "READY"]
    BY <2>1, <2>5, <2>6, InsertThread, ZenonT(60)
  <2>8. /\ u.current = w.current /\ u.list = w.list /\ u.error = w.error
        /\ u.timer = w.timer /\ u.lock = w.lock /\ u.priority = w.priority
    BY <2>4, <2>7 DEF KernelState
  <2>9. t # k.current
    BY <1>2 DEF KernelOK, CurrentOK
  <2>10. u.stat = k.stat
    BY <1>0, <1>2, <2>3, <2>4, <2>7, <2>9 DEF KernelState
  <2>11. KernelOK(u)
    <3>1. u.stat[u.current] # "READY"
      BY <2>3, <2>4, <2>8, <2>10 DEF KernelOK, CurrentOK
    <3>2. QED
      BY <2>7, <3>1, KernelOKLoose
  <2>12. QED
    BY <2>2, <2>3, <2>4, <2>8, <2>10, <2>11 DEF Reprioritized, u
<1>3. QED
  BY <1>1, <1>2

(* The priority of the most urgent waiter, or the least urgent one there is *)
LEMMA HighestWaiter ==
  ASSUME NEW k, KernelOK(k), NEW l \in List
  PROVE  /\ rt_ipc_get_highest_priority(k, l) \in Priority
         /\ \A t \in ToSet(k.list[l]) :
              rt_ipc_get_highest_priority(k, l) <= k.priority[t]
<1> DEFINE S == {RT_THREAD_PRIORITY_MAX - 1}
                  \cup {k.priority[t] : t \in ToSet(k.list[l])}
           n == RT_THREAD_PRIORITY_MAX - 1
<1>1. ToSet(k.list[l]) \subseteq Thread /\ k \in KernelState
  BY ListedThreads DEF KernelOK
<1>2. n \in Nat /\ Priority = 0 .. n
  BY KernelAssumption DEF Priority
<1>3. S \in SUBSET (0 .. n) /\ S # {}
  BY <1>1, <1>2 DEF KernelState
<1>4. \A t \in ToSet(k.list[l]) : k.priority[t] \in S
  OBVIOUS
<1>5. rt_ipc_get_highest_priority(k, l) = Min(S)
  BY DEF rt_ipc_get_highest_priority
<1> HIDE DEF S, n
<1>6. Min(S) \in S /\ \A y \in S : Min(S) <= y
  BY <1>2, <1>3, MinLemma
<1>7. QED
  BY <1>2, <1>3, <1>4, <1>5, <1>6

(* rt_thread_suspend of a running or ready thread: it is in no list then. *)
LEMMA SuspendThreadLemma ==
  ASSUME NEW k, KernelOK(k), NEW t \in Thread \ {Idle},
         k.stat[t] \in {"READY", "RUNNING"}
  PROVE  LET u == rt_thread_suspend(k, t)
         IN  /\ KernelOK(u)
             /\ u.current = k.current /\ u.list = k.list /\ u.error = k.error
             /\ u.priority = k.priority /\ u.lock = k.lock
             /\ u.timer = k.timer \ {t}
             /\ u.stat[t] = "SUSPEND"
             /\ \A x \in Thread \ {t} : u.stat[x] = k.stat[x]
<1> DEFINE v == rt_schedule_remove_thread(k, t)
           w == [v EXCEPT !.stat[t] = "SUSPEND", !.timer = @ \ {t}]
<1>0. /\ k \in KernelState /\ Loose(k) /\ t \in Thread
      /\ k.stat[k.current] # "READY"
  BY KernelOKLoose DEF KernelOK
<1>1. /\ KernelBut(v, t)
      /\ v = [k EXCEPT !.ready = v.ready, !.group = v.group, !.list = v.list]
      /\ v.list = k.list
  <2>1. k.stat[t] \in {"READY", "RUNNING"}
    BY <1>0
  <2> HIDE DEF w
  <2>2. QED
    BY <1>0, <2>1, Isolate, ZenonT(60)
<1>2. rt_thread_suspend(k, t) = w
  BY <1>0 DEF rt_thread_suspend
<1> HIDE DEF v
<1>3. /\ v \in KernelState /\ ~ v.fault
      /\ v.current = k.current /\ v.stat = k.stat /\ v.error = k.error
      /\ v.priority = k.priority /\ v.timer = k.timer /\ v.lock = k.lock
  BY <1>0, <1>1, ZenonT(60) DEF KernelBut, KernelState
<1>4. /\ w \in KernelState /\ w.fault = v.fault
      /\ w.current = v.current /\ w.stat = [v.stat EXCEPT ![t] = "SUSPEND"]
      /\ w.error = v.error
      /\ w.priority = v.priority /\ w.timer = v.timer \ {t} /\ w.lock = v.lock
      /\ w.list = v.list /\ w.ready = v.ready /\ w.group = v.group
  BY <1>0, <1>3 DEF KernelState, Stat
<1> HIDE DEF w
<1>5. w.stat[t] = "SUSPEND" /\ \A x \in Thread \ {t} : w.stat[x] = k.stat[x]
  BY <1>0, <1>3, <1>4 DEF KernelState
<1>6. KernelBut(w, t)
  <2>1. \A x \in Thread \ {t} : w.stat[x] = v.stat[x] /\ (x \in w.timer => x \in v.timer)
    BY <1>3, <1>4, <1>5
  <2>2. ~ w.fault
    BY <1>3, <1>4
  <2>3. QED
    BY <1>0, <1>1, <1>4, <2>1, <2>2, Detached
<1>7. Loose(w)
  BY <1>5, <1>6, Settled
<1>8. KernelOK(w)
  <2>1. w.current = k.current /\ k.current \in Thread
    BY <1>0, <1>3, <1>4 DEF KernelState
  <2>2. w.stat[w.current] # "READY"
    BY <1>0, <1>5, <2>1
  <2>3. QED
    BY <1>7, <2>2, KernelOKLoose
<1>9. QED
  BY <1>1, <1>2, <1>3, <1>4, <1>5, <1>8

(* The timer of a suspended thread may be started. *)
LEMMA StartTimerLemma ==
  ASSUME NEW k, KernelOK(k), NEW t \in Thread, k.stat[t] = "SUSPEND"
  PROVE  LET u == rt_timer_start(k, t)
         IN  /\ KernelOK(u)
             /\ u.current = k.current /\ u.stat = k.stat /\ u.error = k.error
             /\ u.priority = k.priority /\ u.lock = k.lock /\ u.list = k.list
             /\ u.timer = k.timer \cup {t}
<1> DEFINE u == rt_timer_start(k, t)
<1>1. k \in KernelState /\ \A x \in k.timer : k.stat[x] = "SUSPEND"
  BY DEF KernelOK, CurrentOK
<1>2. /\ u \in KernelState
      /\ u.current = k.current /\ u.stat = k.stat /\ u.error = k.error
      /\ u.priority = k.priority /\ u.timer = k.timer \cup {t} /\ u.lock = k.lock
      /\ u.ready = k.ready /\ u.group = k.group /\ u.list = k.list
      /\ u.fault = k.fault
  BY <1>1 DEF rt_timer_start, KernelState
<1> HIDE DEF u
<1>3. KernelOK(u)
  BY <1>1, <1>2, Unlisted
<1>4. QED
  BY <1>2, <1>3 DEF u

(* rt_thread_sleep up to its rt_schedule: the running thread is suspended in  *)
(* no list, and its timer runs.                                               *)
LEMMA SleepLemma ==
  ASSUME NEW k, KernelOK(k), NEW t \in Thread \ {Idle}, HasCpu(k, t)
  PROVE  LET u == rt_timer_start(rt_thread_suspend(k, t), t)
         IN  /\ KernelOK(u)
             /\ u.current = k.current /\ u.list = k.list /\ u.error = k.error
             /\ u.priority = k.priority /\ u.lock = k.lock
             /\ u.timer = k.timer \cup {t}
             /\ u.stat[t] = "SUSPEND"
             /\ \A x \in Thread \ {t} : u.stat[x] = k.stat[x]
<1> DEFINE w == rt_thread_suspend(k, t)
           u == rt_timer_start(w, t)
<1>1. /\ KernelOK(w)
      /\ w.current = k.current /\ w.list = k.list /\ w.error = k.error
      /\ w.priority = k.priority /\ w.lock = k.lock
      /\ w.timer = k.timer \ {t}
      /\ w.stat[t] = "SUSPEND"
      /\ \A x \in Thread \ {t} : w.stat[x] = k.stat[x]
  BY SuspendThreadLemma DEF HasCpu
<1> HIDE DEF w
<1>2. /\ KernelOK(u)
      /\ u.current = w.current /\ u.stat = w.stat /\ u.error = w.error
      /\ u.priority = w.priority /\ u.lock = w.lock /\ u.list = w.list
      /\ u.timer = w.timer \cup {t}
  BY <1>1, StartTimerLemma
<1> HIDE DEF u
<1>3. KernelOK(u) /\ u.timer = k.timer \cup {t}
  BY <1>1, <1>2
<1>4. QED
  BY <1>1, <1>2, <1>3 DEF u, w
=============================================================================
