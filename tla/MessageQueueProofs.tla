------------------------ MODULE MessageQueueProofs ------------------------
(***************************************************************************)
(* A message queue with any number of blocks, between any threads, loses   *)
(* no block, no message and no wakeup: it implements the bounded queue     *)
(* that its callers see.                                                   *)
(***************************************************************************)
EXTENDS MessageQueue, KernelProofs

(***************************************************************************)
(* Chains of blocks                                                        *)
(***************************************************************************)
(* the pointers nx lead from b through s, and end there *)
LeadsThrough(nx, b, s) ==
  IF s = <<>> THEN b = NULL
  ELSE /\ b = s[1]
       /\ nx[s[Len(s)]] = NULL
       /\ \A i \in 1 .. Len(s) - 1 : nx[s[i]] = s[i + 1]

(* A sequence without repetition is as long as the set of its members. *)
LEMMA InjectiveLength ==
  ASSUME NEW s \in Seq(Block), IsInjective(s)
  PROVE  /\ Len(s) \in 0 .. Cardinality(Block) /\ Cardinality(Block) \in Nat
         /\ Cardinality(ToSet(s)) = Len(s)
<1>1. /\ s \in [1 .. Len(s) -> Block] /\ Len(s) \in Nat
      /\ s \in Bijection(1 .. Len(s), ToSet(s))
  <2>1. s \in [1 .. Len(s) -> Block] /\ Len(s) \in Nat
    BY LenProperties
  <2>2. s \in [1 .. Len(s) -> ToSet(s)]
    BY <2>1 DEF ToSet
  <2>3. \A e \in ToSet(s) : \E i \in 1 .. Len(s) : s[i] = e
    BY <2>1 DEF ToSet
  <2>4. \A i, j \in 1 .. Len(s) : s[i] = s[j] => i = j
    BY <2>1 DEF IsInjective
  <2>5. QED
    BY <2>1, <2>2, <2>3, <2>4 DEF Bijection, Injection, Surjection
<1>2. IsFiniteSet(Block) /\ ToSet(s) \subseteq Block
  BY <1>1, MessageQueueAssumption DEF ToSet
<1>3. IsFiniteSet(1 .. Len(s)) /\ Cardinality(1 .. Len(s)) = Len(s)
  <2>1. 1 \in Int /\ Len(s) \in Int
    BY <1>1
  <2>2. /\ IsFiniteSet(1 .. Len(s))
        /\ Cardinality(1 .. Len(s)) = IF 1 > Len(s) THEN 0 ELSE Len(s) - 1 + 1
    BY <2>1, FS_Interval, Zenon
  <2>3. QED
    BY <1>1, <2>2
<1>4. Cardinality(ToSet(s)) = Len(s)
  BY <1>1, <1>3, FS_Bijection DEF ExistsBijection
<1>5. Cardinality(ToSet(s)) <= Cardinality(Block) /\ Cardinality(Block) \in Nat
  BY <1>2, FS_Subset, FS_CardinalityType
<1>6. QED
  BY <1>1, <1>4, <1>5

(* The chain that the model computes by following the pointers is s. *)
LEMMA ChainLemma ==
  ASSUME NEW nx \in [Block -> Block \cup {NULL}], NEW b, NEW s \in Seq(Block),
         IsInjective(s), LeadsThrough(nx, b, s)
  PROVE  ChainIn(nx, b) = s
<1> DEFINE N == Cardinality(Block)
           step == [c \in Block \cup {NULL} |-> IF c = NULL THEN NULL ELSE nx[c]]
           w == [n \in 0 .. N |-> IF n < Len(s) THEN s[n + 1] ELSE NULL]
           F(f) == [n \in 0 .. N |-> IF n = 0 THEN b ELSE step[f[n - 1]]]
           node == Nodes(nx, b)
<1>1. /\ Len(s) \in 0 .. N /\ N \in Nat /\ Len(s) \in Nat
      /\ \A i \in 1 .. Len(s) : s[i] \in Block
      /\ NULL \notin Block
  BY InjectiveLength, ElementOfSeq, MessageQueueAssumption
<1>2. /\ Len(s) = 0 => b = NULL
      /\ Len(s) # 0 => b = s[1] /\ nx[s[Len(s)]] = NULL
      /\ \A i \in 1 .. Len(s) - 1 : nx[s[i]] = s[i + 1]
  BY <1>1 DEF LeadsThrough
<1>3. /\ step[NULL] = NULL
      /\ \A i \in 1 .. Len(s) : step[s[i]] = IF i = Len(s) THEN NULL ELSE s[i + 1]
  BY <1>1, <1>2
<1> HIDE DEF step, N
<1>4. ASSUME NEW f, \A n \in 0 .. N : f[n] = IF n = 0 THEN b ELSE step[f[n - 1]]
      PROVE  \A n \in 0 .. N : f[n] = w[n]
  <2> DEFINE Bad == {n \in 0 .. N : f[n] # w[n]}
  <2>1. SUFFICES ASSUME Bad # {} PROVE FALSE
    OBVIOUS
  <2>2. Min(Bad) \in Bad /\ \A y \in Bad : Min(Bad) <= y
    BY <1>1, <2>1, MinLemma
  <2> DEFINE m == Min(Bad)
  <2> HIDE DEF m, w
  <2>0. m \in Bad /\ \A y \in Bad : m <= y
    BY <2>2 DEF m
  <2>3. m \in 0 .. N /\ f[m] # w[m] /\ \A n \in 0 .. N : n < m => f[n] = w[n]
    BY <1>1, <2>0
  <2> USE DEF w
  <2>4. m # 0
    BY <1>1, <1>2, <1>4, <2>3
  <2>5. m - 1 \in 0 .. N /\ f[m - 1] = w[m - 1] /\ f[m] = step[f[m - 1]]
    BY <1>1, <1>4, <2>3, <2>4
  <2>6. step[w[m - 1]] = w[m]
    <3>1. CASE m - 1 < Len(s)
      <4>1. m \in 1 .. Len(s) /\ m - 1 < Len(s) /\ (m - 1) + 1 = m
        BY <1>1, <2>3, <2>4, <3>1
      <4>3. w[m - 1] = s[m]
        BY <2>5, <4>1
      <4>2. QED
        BY <1>1, <1>3, <4>1, <4>3
    <3>2. CASE ~ (m - 1 < Len(s))
      BY <1>1, <1>3, <2>3, <2>5, <3>2
    <3>3. QED
      BY <3>1, <3>2
  <2>7. QED
    BY <2>3, <2>5, <2>6
<1>5. w = F(w)
  <2>1. ASSUME NEW n \in 0 .. N PROVE w[n] = IF n = 0 THEN b ELSE step[w[n - 1]]
    <3>1. CASE n = 0
      BY <1>1, <1>2, <3>1
    <3>2. CASE n # 0 /\ n - 1 < Len(s)
      <4>1. w[n - 1] = s[n] /\ n \in 1 .. Len(s)
        BY <1>1, <2>1, <3>2
      <4>2. QED
        BY <1>1, <1>3, <4>1, <3>2
    <3>3. CASE n # 0 /\ ~ (n - 1 < Len(s))
      BY <1>1, <1>3, <2>1, <3>3
    <3>4. QED
      BY <3>1, <3>2, <3>3
  <2>2. QED
    BY <2>1
<1>6. node = F(node)
  <2>1. node = CHOOSE f : f = F(f)
    BY DEF Nodes, step, N
  <2>2. \E f : f = F(f)
    BY <1>5
  <2> HIDE DEF F, node
  <2>3. QED
    BY <2>1, <2>2
<1>7. node = w
  <2>1. \A n \in 0 .. N : node[n] = IF n = 0 THEN b ELSE step[node[n - 1]]
    BY <1>6
  <2>2. \A n \in 0 .. N : node[n] = w[n]
    BY <1>4, <2>1
  <2>3. QED
    BY <1>6, <2>2
<1>8. {n \in DOMAIN w : w[n] # NULL} = 0 .. Len(s) - 1
  BY <1>1
<1>9. Cardinality(0 .. Len(s) - 1) = Len(s)
  <2>1. 0 \in Int /\ Len(s) - 1 \in Int
    BY <1>1
  <2>2. Cardinality(0 .. Len(s) - 1) = IF 0 > Len(s) - 1 THEN 0 ELSE (Len(s) - 1) - 0 + 1
    BY <2>1, FS_Interval, Zenon
  <2>3. QED
    BY <1>1, <2>2
<1>10. [i \in 1 .. Len(s) |-> w[i - 1]] = s
  <2>1. \A i \in 1 .. Len(s) : w[i - 1] = s[i]
    BY <1>1
  <2>2. s = [i \in 1 .. Len(s) |-> s[i]]
    BY LenProperties
  <2>3. QED
    BY <2>1, <2>2
<1> HIDE DEF w
<1>11. QED
  BY <1>7, <1>8, <1>9, <1>10 DEF ChainIn

Pointers == [Block -> Block \cup {NULL}]

(* s is a chain of different blocks that starts at b *)
IsChain(nx, b, s) == s \in Seq(Block) /\ IsInjective(s) /\ LeadsThrough(nx, b, s)

(* pointers elsewhere do not matter *)
LEMMA ChainKept ==
  ASSUME NEW nx, NEW b, NEW s, IsChain(nx, b, s),
         NEW nx2, \A c \in ToSet(s) : nx2[c] = nx[c]
  PROVE  IsChain(nx2, b, s)
<1>1. Len(s) \in Nat /\ \A i \in 1 .. Len(s) : s[i] \in ToSet(s)
  BY LenProperties DEF IsChain, ToSet
<1>2. s # <<>> => Len(s) # 0
  BY DEF IsChain
<1>3. QED
  BY <1>1, <1>2 DEF IsChain, LeadsThrough

(* The first block, if there is one, is unlinked. *)
LEMMA ChainTail ==
  ASSUME NEW nx, NEW b, b # NULL, NEW s, IsChain(nx, b, s)
  PROVE  /\ s # <<>> /\ b = s[1] /\ b \in Block /\ b \in ToSet(s)
         /\ IsChain(nx, nx[b], Tail(s))
         /\ ToSet(Tail(s)) = ToSet(s) \ {b}
         /\ Len(Tail(s)) = Len(s) - 1 /\ Len(s) \in Nat \ {0}
         /\ IF Last(s) = b THEN Tail(s) = <<>>
            ELSE Tail(s) # <<>> /\ Last(Tail(s)) = Last(s)
<1> DEFINE r == Tail(s)
<1>1. /\ s # <<>> /\ b = s[1] /\ Len(s) \in Nat \ {0} /\ nx[s[Len(s)]] = NULL
      /\ \A i \in 1 .. Len(s) - 1 : nx[s[i]] = s[i + 1]
      /\ \A i \in 1 .. Len(s) : s[i] \in Block
      /\ \A i, j \in 1 .. Len(s) : s[i] = s[j] => i = j
  BY LenProperties, ElementOfSeq DEF IsChain, LeadsThrough, IsInjective
<1>2. /\ r \in Seq(Block) /\ Len(r) = Len(s) - 1
      /\ \A i \in 1 .. Len(r) : r[i] = s[i + 1]
  BY <1>1, HeadTailProperties DEF IsChain
<1> HIDE DEF r
<1>3. DOMAIN r = 1 .. Len(s) - 1 /\ DOMAIN s = 1 .. Len(s)
  BY <1>2, LenProperties DEF IsChain
<1>4. IsInjective(r)
  BY <1>1, <1>2, <1>3 DEF IsInjective
<1>5. LeadsThrough(nx, nx[b], r)
  <2>1. CASE Len(s) = 1
    <3>1. r = <<>>
      BY <1>2, <2>1
    <3>2. QED
      BY <1>1, <2>1, <3>1 DEF LeadsThrough
  <2>2. CASE Len(s) # 1
    <3>1. r # <<>> /\ r[1] = s[2] /\ nx[b] = s[2] /\ r[Len(r)] = s[Len(s)]
      BY <1>1, <1>2, <2>2
    <3>2. \A i \in 1 .. Len(r) - 1 : nx[r[i]] = r[i + 1]
      BY <1>1, <1>2
    <3>3. QED
      BY <1>1, <3>1, <3>2 DEF LeadsThrough
  <2>3. QED
    BY <2>1, <2>2
<1>6. ToSet(r) = ToSet(s) \ {b} /\ b \in ToSet(s)
  <2>1. ToSet(r) = {s[i + 1] : i \in 1 .. Len(s) - 1} /\ ToSet(s) = {s[i] : i \in 1 .. Len(s)}
    BY <1>2, <1>3 DEF ToSet
  <2>2. ASSUME NEW x \in ToSet(r) PROVE x \in ToSet(s) \ {b}
    BY <1>1, <2>1, <2>2
  <2>3. ASSUME NEW x \in ToSet(s) \ {b} PROVE x \in ToSet(r)
    <3>1. PICK i \in 1 .. Len(s) : x = s[i]
      BY <2>1, <2>3
    <3>2. i - 1 \in 1 .. Len(s) - 1 /\ (i - 1) + 1 = i
      BY <1>1, <2>3, <3>1
    <3>3. QED
      BY <2>1, <3>1, <3>2
  <2>4. b \in ToSet(s)
    BY <1>1, <2>1
  <2>5. QED
    BY <2>2, <2>3, <2>4
<1>7. IF Last(s) = b THEN r = <<>> ELSE r # <<>> /\ Last(r) = Last(s)
  <2>1. CASE Len(s) = 1
    <3>1. r = <<>> /\ s[Len(s)] = b
      BY <1>1, <1>2, <2>1
    <3>2. QED
      BY <3>1 DEF Last
  <2>2. CASE Len(s) # 1
    <3>1. /\ Len(r) \in Nat \ {0} /\ Len(r) + 1 = Len(s)
          /\ 1 \in 1 .. Len(s) /\ Len(s) \in 1 .. Len(s)
      BY <1>1, <1>2, <2>2
    <3>2. r # <<>> /\ r[Len(r)] = s[Len(s)]
      BY <1>2, <3>1
    <3>3. s[Len(s)] # b
      BY <1>1, <2>2, <3>1
    <3>4. QED
      BY <3>2, <3>3 DEF Last
  <2>3. QED
    BY <2>1, <2>2
<1>8. QED
  BY <1>1, <1>2, <1>4, <1>5, <1>6, <1>7 DEF IsChain, r

(* A block is put in front. *)
LEMMA ChainCons ==
  ASSUME NEW nx \in Pointers, NEW b, NEW s, IsChain(nx, b, s),
         NEW x \in Block \ ToSet(s), NEW nx2 \in Pointers, nx2[x] = b,
         \A c \in ToSet(s) : nx2[c] = nx[c]
  PROVE  /\ IsChain(nx2, x, <<x>> \o s)
         /\ ToSet(<<x>> \o s) = ToSet(s) \cup {x}
         /\ Len(<<x>> \o s) = Len(s) + 1
         /\ <<x>> \o s # <<>>
         /\ Last(<<x>> \o s) = IF s = <<>> THEN x ELSE Last(s)
<1> DEFINE r == <<x>> \o s
<1>1. /\ Len(s) \in Nat /\ DOMAIN s = 1 .. Len(s)
      /\ \A i \in 1 .. Len(s) : s[i] \in Block /\ s[i] \in ToSet(s)
      /\ \A i, j \in 1 .. Len(s) : s[i] = s[j] => i = j
  BY LenProperties, ElementOfSeq DEF IsChain, IsInjective, ToSet
<1>2. /\ r \in Seq(Block) /\ Len(r) = Len(s) + 1
      /\ \A i \in 1 .. Len(s) + 1 : r[i] = IF i = 1 THEN x ELSE s[i - 1]
  BY <1>1 DEF IsChain
<1> HIDE DEF r
<1>3. DOMAIN r = 1 .. Len(s) + 1
  BY <1>2, LenProperties
<1>4. IsInjective(r)
  BY <1>1, <1>2, <1>3 DEF IsInjective
<1>5. IsChain(nx2, b, s)
  BY ChainKept
<1>6. LeadsThrough(nx2, x, r)
  <2>1. r # <<>> /\ r[1] = x
    BY <1>1, <1>2
  <2>2. CASE Len(s) = 0
    BY <1>1, <1>2, <1>5, <2>1, <2>2 DEF LeadsThrough, IsChain
  <2>3. CASE Len(s) # 0
    <3>1. /\ b = s[1] /\ nx2[s[Len(s)]] = NULL
          /\ \A i \in 1 .. Len(s) - 1 : nx2[s[i]] = s[i + 1]
      BY <1>5, <2>3 DEF IsChain, LeadsThrough
    <3>2. r[Len(r)] = s[Len(s)]
      BY <1>1, <1>2, <2>3
    <3>3. ASSUME NEW i \in 1 .. Len(r) - 1 PROVE nx2[r[i]] = r[i + 1]
      <4>1. CASE i = 1
        BY <1>1, <1>2, <2>3, <3>1, <4>1
      <4>2. CASE i # 1
        <5>1. i - 1 \in 1 .. Len(s) - 1 /\ (i - 1) + 1 = i /\ i \in 1 .. Len(s) + 1
              /\ i + 1 \in 1 .. Len(s) + 1 /\ (i + 1) - 1 = i
          BY <1>1, <1>2, <3>3, <4>2
        <5>2. r[i] = s[i - 1] /\ r[i + 1] = s[i]
          BY <1>1, <1>2, <4>2, <5>1
        <5>3. QED
          BY <3>1, <5>1, <5>2
      <4>3. QED
        BY <4>1, <4>2
    <3>4. QED
      BY <2>1, <3>1, <3>2, <3>3 DEF LeadsThrough
  <2>4. QED
    BY <2>2, <2>3
<1>7. ToSet(r) = ToSet(s) \cup {x}
  <2>1. ToSet(r) = {r[i] : i \in 1 .. Len(s) + 1} /\ ToSet(s) = {s[i] : i \in 1 .. Len(s)}
    BY <1>1, <1>3 DEF ToSet
  <2>2. ASSUME NEW y \in ToSet(r) PROVE y \in ToSet(s) \cup {x}
    BY <1>1, <1>2, <2>1, <2>2
  <2>3. ASSUME NEW y \in ToSet(s) PROVE y \in ToSet(r)
    <3>1. PICK i \in 1 .. Len(s) : y = s[i]
      BY <2>1, <2>3
    <3>2. i + 1 \in 1 .. Len(s) + 1 /\ (i + 1) - 1 = i /\ i + 1 # 1
      BY <1>1, <3>1
    <3>3. r[i + 1] = y
      BY <1>2, <3>1, <3>2
    <3>4. QED
      BY <2>1, <3>2, <3>3
  <2>4. x \in ToSet(r)
    BY <1>1, <1>2, <2>1
  <2>5. QED
    BY <2>2, <2>3, <2>4
<1>8. r # <<>> /\ Last(r) = IF s = <<>> THEN x ELSE Last(s)
  <2>1. r # <<>>
    BY <1>1, <1>2
  <2>2. CASE Len(s) = 0
    <3>1. s = <<>> /\ r[Len(r)] = x
      BY <1>1, <1>2, <2>2 DEF IsChain
    <3>2. QED
      BY <2>1, <3>1 DEF Last
  <2>3. CASE Len(s) # 0
    <3>1. s # <<>> /\ Len(r) \in 1 .. Len(s) + 1 /\ Len(r) # 1 /\ Len(r) - 1 = Len(s)
      BY <1>1, <1>2, <2>3
    <3>2. r[Len(r)] = s[Len(s)]
      BY <1>2, <3>1
    <3>3. QED
      BY <2>1, <3>1, <3>2 DEF Last
  <2>4. QED
    BY <2>2, <2>3
<1>9. QED
  BY <1>2, <1>4, <1>6, <1>7, <1>8 DEF IsChain, r

(* A block is put behind the last one. *)
LEMMA ChainAppend ==
  ASSUME NEW nx \in Pointers, NEW b, NEW s, IsChain(nx, b, s),
         NEW x \in Block \ ToSet(s), NEW nx2, nx2[x] = NULL,
         s # <<>> => nx2[Last(s)] = x,
         \A c \in ToSet(s) : c # Last(s) => nx2[c] = nx[c]
  PROVE  /\ IsChain(nx2, IF b = NULL THEN x ELSE b, Append(s, x))
         /\ ToSet(Append(s, x)) = ToSet(s) \cup {x}
         /\ Len(Append(s, x)) = Len(s) + 1 /\ Last(Append(s, x)) = x
         /\ Append(s, x) # <<>>
<1> DEFINE r == Append(s, x)
<1>1. /\ Len(s) \in Nat /\ DOMAIN s = 1 .. Len(s) /\ Last(s) = s[Len(s)]
      /\ \A i \in 1 .. Len(s) : s[i] \in Block /\ s[i] \in ToSet(s)
      /\ \A i, j \in 1 .. Len(s) : s[i] = s[j] => i = j
      /\ s # <<>> <=> Len(s) # 0
      /\ NULL \notin Block
  BY LenProperties, ElementOfSeq, EmptySeq, MessageQueueAssumption
     DEF IsChain, IsInjective, ToSet, Last
<1>2. /\ r \in Seq(Block) /\ Len(r) = Len(s) + 1
      /\ \A i \in 1 .. Len(s) + 1 : r[i] = IF i = Len(s) + 1 THEN x ELSE s[i]
  BY <1>1 DEF IsChain
<1>3. IsInjective(r) /\ ToSet(r) = ToSet(s) \cup {x}
  BY AppendLemma DEF IsChain
<1> HIDE DEF r
<1>4. LeadsThrough(nx2, IF b = NULL THEN x ELSE b, r)
  <2>1. CASE Len(s) = 0
    <3>1. b = NULL /\ Len(r) = 1 /\ r[1] = x
      BY <1>1, <1>2, <2>1 DEF IsChain, LeadsThrough
    <3>3. r # <<>>
      BY <3>1
    <3>2. QED
      BY <3>1, <3>3 DEF LeadsThrough
  <2>2. CASE Len(s) # 0
    <3>1. /\ b = s[1] /\ b # NULL
          /\ \A i \in 1 .. Len(s) - 1 : nx[s[i]] = s[i + 1]
      BY <1>1, <2>2 DEF IsChain, LeadsThrough
    <3>2. r # <<>> /\ r[1] = b /\ r[Len(r)] = x
      BY <1>1, <1>2, <2>2, <3>1
    <3>3. ASSUME NEW i \in 1 .. Len(r) - 1 PROVE nx2[r[i]] = r[i + 1]
      <4>0. Len(s) \in Nat /\ i \in 1 .. Len(s)
        BY <1>1, <1>2, <3>3
      <4>1. i \in 1 .. Len(s) + 1 /\ i + 1 \in 1 .. Len(s) + 1 /\ i # Len(s) + 1
        BY <4>0
      <4>2. CASE i = Len(s)
        <5>1. i + 1 = Len(s) + 1
          BY <4>2
        <5>2. r[i + 1] = x /\ r[i] = s[i]
          BY <1>2, <4>1, <5>1
        <5>3. s[i] = Last(s) /\ s # <<>>
          BY <1>1, <2>2, <4>2
        <5>4. QED
          BY <5>2, <5>3
      <4>3. CASE i # Len(s)
        <5>1. i \in 1 .. Len(s) - 1 /\ i + 1 # Len(s) + 1 /\ Len(s) \in 1 .. Len(s)
          BY <4>0, <4>3
        <5>5. \A j, k \in 1 .. Len(s) : s[j] = s[k] => j = k
          BY <1>1
        <5>6. s[i] # s[Len(s)]
          BY <4>0, <4>3, <5>1, <5>5
        <5>2. s[i] # Last(s) /\ s[i] \in ToSet(s)
          BY <1>1, <4>0, <5>6
        <5>3. nx2[s[i]] = s[i + 1]
          BY <3>1, <5>1, <5>2
        <5>4. QED
          BY <1>2, <4>1, <5>1, <5>3
      <4>4. QED
        BY <4>2, <4>3
    <3>4. QED
      BY <3>1, <3>2, <3>3 DEF LeadsThrough
  <2>3. QED
    BY <2>1, <2>2
<1>5. Last(r) = x
  BY <1>1, <1>2 DEF Last
<1>6. QED
  BY <1>2, <1>3, <1>4, <1>5 DEF IsChain, r

(* A chain starts at a block, or is empty. *)
LEMMA ChainStart ==
  ASSUME NEW nx, NEW b, NEW s, IsChain(nx, b, s)
  PROVE  /\ b \in Block \cup {NULL} /\ ToSet(s) \subseteq Block
         /\ b = NULL <=> s = <<>>
         /\ b # NULL => b \in ToSet(s)
<1>1. CASE s = <<>>
  BY <1>1, ToSetType DEF IsChain, LeadsThrough
<1>2. CASE s # <<>>
  <2>1. 1 \in 1 .. Len(s) /\ DOMAIN s = 1 .. Len(s)
    BY <1>2, EmptySeq, LenProperties DEF IsChain
  <2>2. b = s[1] /\ s[1] \in Block /\ s[1] \in ToSet(s)
    BY <1>2, <2>1, ElementOfSeq DEF IsChain, LeadsThrough, ToSet
  <2>3. QED
    BY <1>2, <2>2, ToSetType, MessageQueueAssumption DEF IsChain
<1>3. QED
  BY <1>1, <1>2

(* The last block of a chain is one of its blocks. *)
LEMMA ChainLast ==
  ASSUME NEW nx, NEW b, NEW s, IsChain(nx, b, s), s # <<>>
  PROVE  Last(s) \in ToSet(s) /\ Last(s) \in Block
<1>1. Len(s) \in 1 .. Len(s) /\ DOMAIN s = 1 .. Len(s)
  BY EmptySeq, LenProperties DEF IsChain
<1>2. QED
  BY <1>1, ElementOfSeq DEF Last, ToSet, IsChain

(* what the loop of a reset has done after n blocks: f is its fold *)
IsDrain(f, s) ==
  \A i \in 0 .. Len(s) : f[i] =
    IF i = 0 THEN [free |-> free, next |-> next]
    ELSE [free |-> s[i], next |-> [f[i - 1].next EXCEPT ![s[i]] = f[i - 1].free]]

(* The fold is defined. *)
LEMMA DrainDefined ==
  ASSUME next \in Pointers, NEW s \in Seq(Block), IsInjective(s), Chain(head) = s
  PROVE  \E f : IsDrain(f, s) /\ Drained = f[Len(s)]
<1> DEFINE place(c) == CHOOSE j \in 1 .. Len(s) : s[j] = c
           wf(i) == IF i = 0 THEN free ELSE s[i]
           wn(i) == [c \in Block |-> IF \E j \in 1 .. i : s[j] = c
                                     THEN wf(place(c) - 1) ELSE next[c]]
           w == [i \in 0 .. Len(s) |-> [free |-> wf(i), next |-> wn(i)]]
           F(f) == [i \in 0 .. Len(s) |->
                      IF i = 0 THEN [free |-> free, next |-> next]
                      ELSE [free |-> s[i],
                            next |-> [f[i - 1].next EXCEPT ![s[i]] = f[i - 1].free]]]
           put == CHOOSE f : f = F(f)
<1>1. /\ Len(s) \in Nat
      /\ \A i \in 1 .. Len(s) : s[i] \in Block
      /\ \A i, j \in 1 .. Len(s) : s[i] = s[j] => i = j
  BY LenProperties, ElementOfSeq DEF IsInjective
<1>2. \A j \in 1 .. Len(s) : place(s[j]) = j
  BY <1>1
<1> HIDE DEF place
<1>3. wn(0) = next
  BY DEF Pointers
<1>4. ASSUME NEW i \in 1 .. Len(s)
      PROVE  wn(i) = [wn(i - 1) EXCEPT ![s[i]] = wf(i - 1)]
  <2>1. i - 1 \in 0 .. Len(s) /\ s[i] \in Block
    BY <1>1
  <2>2. ASSUME NEW c \in Block
        PROVE  wn(i)[c] = IF c = s[i] THEN wf(i - 1) ELSE wn(i - 1)[c]
    <3>1. CASE c = s[i]
      <4>1. \E j \in 1 .. i : s[j] = c
        BY <1>1, <3>1
      <4>2. place(c) = i
        BY <1>2, <3>1
      <4>3. wn(i)[c] = wf(place(c) - 1)
        BY <4>1
      <4>4. QED
        BY <3>1, <4>2, <4>3
    <3>2. CASE c # s[i]
      <4>1. (\E j \in 1 .. i : s[j] = c) <=> (\E j \in 1 .. i - 1 : s[j] = c)
        <5>1. 1 .. i = (1 .. i - 1) \cup {i}
          BY <1>1
        <5>2. QED
          BY <3>2, <5>1
      <4> HIDE DEF wf
      <4>2. QED
        BY <3>2, <4>1
    <3>3. QED
      BY <3>1, <3>2
  <2>3. /\ wn(i) = [c \in Block |-> wn(i)[c]]
        /\ wn(i - 1) = [c \in Block |-> wn(i - 1)[c]]
    OBVIOUS
  <2> HIDE DEF wf, wn
  <2>4. QED
    BY <2>1, <2>2, <2>3
<1>5. w = F(w)
  <2> HIDE DEF wn
  <2>1. ASSUME NEW i \in 0 .. Len(s)
        PROVE  [free |-> wf(i), next |-> wn(i)] = F(w)[i]
    <3>1. CASE i = 0
      BY <1>3, <3>1
    <3>2. CASE i # 0
      <4>1. i \in 1 .. Len(s) /\ i - 1 \in 0 .. Len(s)
        BY <1>1, <3>2
      <4>2. w[i - 1] = [free |-> wf(i - 1), next |-> wn(i - 1)]
        BY <4>1
      <4>3. F(w)[i] = [free |-> s[i], next |-> [w[i - 1].next EXCEPT ![s[i]] = w[i - 1].free]]
        BY <3>2
      <4>4. w[i - 1].next = wn(i - 1) /\ w[i - 1].free = wf(i - 1)
        BY <4>2
      <4>5. F(w)[i] = [free |-> s[i], next |-> [wn(i - 1) EXCEPT ![s[i]] = wf(i - 1)]]
        BY <4>3, <4>4
      <4>6. QED
        BY <1>4, <3>2, <4>1, <4>5
    <3>3. QED
      BY <3>1, <3>2
  <2>2. QED
    BY <2>1
<1>6. put = F(put)
  <2> HIDE DEF F, w
  <2>1. QED
    BY <1>5
<1>7. IsDrain(put, s)
  <2> HIDE DEF put
  <2>1. \A i \in 0 .. Len(s) : put[i] = F(put)[i]
    BY <1>6
  <2>2. QED
    BY <2>1 DEF IsDrain
<1>8. Drained = put[Len(s)]
  BY DEF Drained
<1>9. QED
  BY <1>7, <1>8

(* The queue's blocks go back to the free list, and no other pointers move. *)
LEMMA DrainedLemma ==
  ASSUME next \in Pointers, NEW fs, NEW qs,
         IsChain(next, free, fs), IsChain(next, head, qs),
         ToSet(fs) \cap ToSet(qs) = {}
  PROVE  \E rs : /\ IsChain(Drained.next, Drained.free, rs)
                 /\ ToSet(rs) = ToSet(fs) \cup ToSet(qs)
                 /\ Drained.next \in Pointers
                 /\ \A c \in Block \ ToSet(qs) : Drained.next[c] = next[c]
<1> DEFINE upTo(i) == {qs[j] : j \in 1 .. i}
           P(d, i) == \E rs : /\ IsChain(d.next, d.free, rs)
                              /\ ToSet(rs) = ToSet(fs) \cup upTo(i)
                              /\ d.next \in Pointers
                              /\ \A c \in Block \ upTo(i) : d.next[c] = next[c]
<1>1. PICK f : IsDrain(f, qs) /\ Drained = f[Len(qs)]
  BY ChainLemma, DrainDefined DEF IsChain, Chain, Pointers
<1>2. /\ Len(qs) \in Nat /\ ToSet(qs) = upTo(Len(qs))
      /\ \A i \in 1 .. Len(qs) : qs[i] \in Block /\ qs[i] \in ToSet(qs)
      /\ \A i, j \in 1 .. Len(qs) : qs[i] = qs[j] => i = j
  BY LenProperties, ElementOfSeq DEF IsChain, IsInjective, ToSet
<1>3. \A i \in 0 .. Len(qs) : P(f[i], i)
  <2> DEFINE Bad == {i \in 0 .. Len(qs) : ~ P(f[i], i)}
             m == Min(Bad)
  <2>1. SUFFICES ASSUME Bad # {} PROVE FALSE
    OBVIOUS
  <2>2. m \in Bad /\ \A y \in Bad : m <= y
    BY <1>2, <2>1, MinLemma
  <2> HIDE DEF m, P
  <2>3. m \in 0 .. Len(qs) /\ ~ P(f[m], m) /\ \A n \in 0 .. Len(qs) : n < m => P(f[n], n)
    BY <1>2, <2>2
  <2> HIDE DEF Bad
  <2>4. P(f[0], 0)
    <3>0. 0 \in 0 .. Len(qs)
      BY <1>2
    <3>1. f[0] = [free |-> free, next |-> next]
      BY <1>1, <3>0, Zenon DEF IsDrain
    <3>2. f[0].free = free /\ f[0].next = next /\ upTo(0) = {}
      BY <3>1
    <3>3. QED
      BY <3>2 DEF P
  <2>5. m # 0
    BY <2>3, <2>4
  <2> DEFINE k == m - 1
  <2>6. k \in 0 .. Len(qs) /\ k < m /\ m \in 1 .. Len(qs) /\ P(f[k], k)
    BY <1>2, <2>3, <2>5
  <2>7. /\ f[m].free = qs[m]
        /\ f[m].next = [f[k].next EXCEPT ![qs[m]] = f[k].free]
    <3> DEFINE after == [f[k].next EXCEPT ![qs[m]] = f[k].free]
    <3>1. f[m] = [free |-> qs[m], next |-> after]
      BY <1>1, <2>3, <2>5, Zenon DEF IsDrain
    <3> HIDE DEF after
    <3>2. f[m].free = qs[m] /\ f[m].next = after
      BY <3>1
    <3>3. QED
      BY <3>2 DEF after
  <2>8. qs[m] \in Block /\ qs[m] \notin upTo(k) /\ qs[m] \notin ToSet(fs)
    BY <1>2, <2>3, <2>6
  <2>9. upTo(m) = upTo(k) \cup {qs[m]}
    <3>1. 1 .. m = (1 .. k) \cup {m}
      BY <1>2, <2>6
    <3>2. QED
      BY <3>1
  <2> HIDE DEF k, upTo
  <2>10. PICK rs : /\ IsChain(f[k].next, f[k].free, rs)
                   /\ ToSet(rs) = ToSet(fs) \cup upTo(k)
                   /\ f[k].next \in Pointers
                   /\ \A c \in Block \ upTo(k) : f[k].next[c] = next[c]
    BY <2>6 DEF P
  <2>11. /\ qs[m] \in Block \ ToSet(rs)
         /\ f[k].free \in Block \cup {NULL}
    BY <2>8, <2>10, ChainStart
  <2>12. /\ f[m].next \in Pointers /\ f[m].next[qs[m]] = f[k].free
         /\ \A c \in Block \ {qs[m]} : f[m].next[c] = f[k].next[c]
    BY <2>7, <2>10, <2>11 DEF Pointers
  <2>13. \A c \in ToSet(rs) : f[m].next[c] = f[k].next[c]
    <3>1. ToSet(rs) \subseteq Block
      BY <2>10, ToSetType DEF IsChain
    <3>2. QED
      BY <2>11, <2>12, <3>1
  <2>14. /\ IsChain(f[m].next, qs[m], <<qs[m]>> \o rs)
         /\ ToSet(<<qs[m]>> \o rs) = ToSet(rs) \cup {qs[m]}
    BY <2>10, <2>11, <2>12, <2>13, ChainCons
  <2>15. P(f[m], m)
    BY <2>7, <2>9, <2>10, <2>12, <2>14 DEF P
  <2>16. QED
    BY <2>3, <2>15
<1> HIDE DEF P
<1>4. P(Drained, Len(qs))
  BY <1>1, <1>2, <1>3
<1>5. QED
  BY <1>2, <1>4 DEF P

(***************************************************************************)
(* The inductive invariant                                                 *)
(***************************************************************************)
(* the message queue as KernelProofs sees a service *)
Service ==
  [way     |-> [l \in List |-> IF l = "receivers" THEN {"recv", "receiving"}
                               ELSE {"send", "sending"}],
   leave   |-> {"send", "recv"},
   settled |-> {Run, "sending", "receiving", "fill", "fill_urgent", "link",
                "link_urgent", "copy"},
   points  |-> {Run, "send", "sending", "fill", "fill_urgent", "link", "link_urgent",
                "recv", "receiving", "copy", "sched", "reset", "reset_senders"}]

(* the points of a thread that has a block in its hands *)
Holding == {"fill", "fill_urgent", "link", "link_urgent", "copy"}

BlocksTyped ==
  /\ next \in Pointers
  /\ data \in [Block -> Message \cup {NoMessage}]
  /\ held \in [Thread -> Block \cup {NULL}]
  /\ buffer \in [Thread -> Message \cup {NoMessage}]

(* what thread t has in its hands, and in its buffer *)
HandOK(t) ==
  /\ held[t] # NULL <=> pc[t] \in Holding
  /\ pc[t] \in {"link", "link_urgent", "copy"} => data[held[t]] = buffer[t]
  /\ pc[t] = "link" => next[held[t]] = NULL
  /\ pc[t] \in {"send", "sending", "fill", "fill_urgent", "link", "link_urgent"}
       => buffer[t] \in Message

(* no block is in the hands of two threads *)
HandsOK ==
  /\ \A t \in Thread : HandOK(t)
  /\ \A t, u \in Thread : held[t] # NULL /\ held[t] = held[u] => t = u

(* fs is the free list and qs the queue, and what is in neither of them is  *)
(* in the hands of a thread                                                 *)
ChainsAre(fs, qs) ==
  /\ IsChain(next, free, fs) /\ IsChain(next, head, qs)
  /\ ToSet(fs) \cap ToSet(qs) = {}
  /\ \A b \in Block : b \in ToSet(fs) \cup ToSet(qs) <=> \A t \in Thread : held[t] # b
  /\ entry = Len(qs)
  /\ tail = IF qs = <<>> THEN NULL ELSE Last(qs)

BlocksAre(fs, qs) == BlocksTyped /\ HandsOK /\ ChainsAre(fs, qs)

IInv ==
  /\ TypeOK
  /\ Steady(Service)
  /\ \E fs, qs : BlocksAre(fs, qs)
  /\ NoLostWakeup

(***************************************************************************)
(* What the steps do to the blocks                                         *)
(***************************************************************************)
(* no other thread moves or takes a block *)
OthersSame(t) ==
  \A u \in Thread \ {t} : pc'[u] = pc[u] /\ held'[u] = held[u] /\ buffer'[u] = buffer[u]

(* A thread takes the first block of the free list. *)
LEMMA TakeFree ==
  ASSUME NEW fs, NEW qs, BlocksAre(fs, qs), NEW t \in Thread, OthersSame(t),
         pc[t] \notin Holding, pc'[t] \in {"fill", "fill_urgent"}, UnlinkFree,
         held' = [held EXCEPT ![t] = free],
         buffer' \in [Thread -> Message \cup {NoMessage}], buffer'[t] \in Message,
         UNCHANGED <<head, tail, next, data, entry>>
  PROVE  fs # <<>> /\ BlocksAre(Tail(fs), qs)' /\ Len(Tail(fs)) = Len(fs) - 1
<1>1. /\ free # NULL /\ free' = next[free]
      /\ BlocksTyped /\ HandsOK /\ ChainsAre(fs, qs)
  BY DEF UnlinkFree, BlocksAre
<1>2. /\ fs # <<>> /\ free \in Block /\ free \in ToSet(fs)
      /\ IsChain(next, free', Tail(fs))
      /\ ToSet(Tail(fs)) = ToSet(fs) \ {free}
      /\ Len(Tail(fs)) = Len(fs) - 1
  BY <1>1, ChainTail DEF ChainsAre
<1>3. held[t] = NULL /\ held'[t] = free /\ held' \in [Thread -> Block \cup {NULL}]
  BY <1>1, <1>2 DEF HandsOK, HandOK, BlocksTyped
<1>4. BlocksTyped'
  BY <1>1, <1>3 DEF BlocksTyped
<1>5. \A u \in Thread : held[u] # free
  BY <1>1, <1>2 DEF ChainsAre
<1>6. HandsOK'
  <2>1. ASSUME NEW u \in Thread PROVE HandOK(u)'
    <3>1. CASE u = t
      BY <1>1, <1>3, <3>1 DEF HandOK, Holding
    <3>2. CASE u # t
      BY <1>1, <3>2 DEF HandsOK, HandOK, OthersSame
    <3>3. QED
      BY <3>1, <3>2
  <2>2. ASSUME NEW u \in Thread, NEW v \in Thread, held'[u] # NULL, held'[u] = held'[v]
        PROVE  u = v
    BY <1>1, <1>3, <1>5, <2>2 DEF HandsOK, OthersSame
  <2>3. QED
    BY <2>1, <2>2 DEF HandsOK
<1>7. ChainsAre(Tail(fs), qs)'
  <2>1. ASSUME NEW b \in Block
        PROVE  b \in ToSet(Tail(fs)) \cup ToSet(qs) <=> \A u \in Thread : held'[u] # b
    <3>1. CASE b = free
      BY <1>1, <1>2, <1>3, <3>1 DEF ChainsAre
    <3>2. CASE b # free
      <4>1. (\A u \in Thread : held'[u] # b) <=> (\A u \in Thread : held[u] # b)
        BY <1>1, <1>3, <3>2, MessageQueueAssumption DEF OthersSame
      <4>2. QED
        BY <1>1, <1>2, <3>2, <4>1 DEF ChainsAre
    <3>3. QED
      BY <3>1, <3>2
  <2>2. QED
    BY <1>1, <1>2, <2>1 DEF ChainsAre
<1>8. QED
  BY <1>2, <1>4, <1>6, <1>7 DEF BlocksAre

(* A thread fills the block that it has in its hands. *)
LEMMA FillBlock ==
  ASSUME NEW fs, NEW qs, BlocksAre(fs, qs), NEW t \in Thread, OthersSame(t),
         data' = [data EXCEPT ![held[t]] = buffer[t]],
         \/ /\ pc[t] = "fill" /\ pc'[t] = "link"
            /\ next' = [next EXCEPT ![held[t]] = NULL]
         \/ /\ pc[t] = "fill_urgent" /\ pc'[t] = "link_urgent"
            /\ UNCHANGED next,
         UNCHANGED <<free, head, tail, entry, held, buffer>>
  PROVE  BlocksAre(fs, qs)'
<1>1. BlocksTyped /\ HandsOK /\ ChainsAre(fs, qs)
  BY DEF BlocksAre
<1> DEFINE b == held[t]
<1>2. b \in Block /\ b \notin ToSet(fs) /\ b \notin ToSet(qs) /\ buffer[t] \in Message
  BY <1>1 DEF HandsOK, HandOK, Holding, BlocksTyped, ChainsAre
<1>3. /\ next' \in Pointers /\ \A c \in Block \ {b} : next'[c] = next[c]
      /\ pc'[t] = "link" => next'[b] = NULL
      /\ data' \in [Block -> Message \cup {NoMessage}] /\ data'[b] = buffer[t]
      /\ \A c \in Block \ {b} : data'[c] = data[c]
  BY <1>1, <1>2 DEF BlocksTyped, Pointers
<1>4. BlocksTyped'
  BY <1>1, <1>3 DEF BlocksTyped
<1> HIDE DEF b
<1>5. HandsOK'
  <2>1. ASSUME NEW u \in Thread PROVE HandOK(u)'
    <3>1. CASE u = t
      BY <1>1, <1>2, <1>3, <3>1 DEF HandsOK, HandOK, Holding, b
    <3>2. CASE u # t
      <4>1. held[u] # NULL => held[u] \in Block \ {b}
        BY <1>1, <1>2, <3>2, MessageQueueAssumption DEF HandsOK, BlocksTyped, b
      <4>2. QED
        BY <1>1, <1>3, <3>2, <4>1 DEF HandsOK, HandOK, OthersSame, Holding
    <3>3. QED
      BY <3>1, <3>2
  <2>2. QED
    BY <1>1, <2>1 DEF HandsOK
<1>6. ChainsAre(fs, qs)'
  <2>1. ToSet(fs) \subseteq Block \ {b} /\ ToSet(qs) \subseteq Block \ {b}
    BY <1>1, <1>2, ChainStart DEF ChainsAre
  <2>2. IsChain(next', free, fs) /\ IsChain(next', head, qs)
    BY <1>1, <1>3, <2>1, ChainKept DEF ChainsAre
  <2>3. QED
    BY <1>1, <2>2 DEF ChainsAre
<1>7. QED
  BY <1>4, <1>5, <1>6 DEF BlocksAre

(* A thread puts its block down: the others keep theirs. *)
LEMMA PutDown ==
  ASSUME BlocksTyped, HandsOK, NEW t \in Thread, OthersSame(t),
         held[t] # NULL, held' = [held EXCEPT ![t] = NULL],
         pc'[t] \in {Run, "sched"}, buffer' = [buffer EXCEPT ![t] = NoMessage],
         next' \in Pointers, UNCHANGED data,
         \A u \in Thread : pc[u] = "link" /\ u # t => next'[held[u]] = next[held[u]]
  PROVE  /\ BlocksTyped' /\ HandsOK' /\ held[t] \in Block
         /\ \A b \in Block : (\A u \in Thread : held'[u] # b)
                               <=> b = held[t] \/ \A u \in Thread : held[u] # b
<1>1. held'[t] = NULL /\ held[t] \in Block /\ NULL \notin Block
      /\ held' \in [Thread -> Block \cup {NULL}]
      /\ buffer' \in [Thread -> Message \cup {NoMessage}]
  BY MessageQueueAssumption DEF BlocksTyped
<1>2. BlocksTyped'
  BY <1>1 DEF BlocksTyped
<1>3. HandsOK'
  <2>1. ASSUME NEW u \in Thread PROVE HandOK(u)'
    <3>1. CASE u = t
      BY <1>1, <3>1 DEF HandOK, Holding, Run
    <3>2. CASE u # t
      BY <3>2 DEF HandsOK, HandOK, OthersSame
    <3>3. QED
      BY <3>1, <3>2
  <2>2. ASSUME NEW u \in Thread, NEW v \in Thread, held'[u] # NULL, held'[u] = held'[v]
        PROVE  u = v
    BY <1>1, <2>2 DEF HandsOK, OthersSame
  <2>3. QED
    BY <2>1, <2>2 DEF HandsOK
<1>4. ASSUME NEW b \in Block
      PROVE  (\A u \in Thread : held'[u] # b)
               <=> b = held[t] \/ \A u \in Thread : held[u] # b
  <2>1. \A u \in Thread \ {t} : held'[u] = held[u] /\ held[u] # held[t]
    BY DEF OthersSame, HandsOK
  <2>2. QED
    BY <1>1, <2>1
<1>5. QED
  BY <1>1, <1>2, <1>3, <1>4

(* A thread links its block to the end or to the front of the queue. *)
LEMMA LinkBlock ==
  ASSUME NEW fs, NEW qs, BlocksAre(fs, qs), NEW t \in Thread, OthersSame(t),
         \/ pc[t] = "link" /\ LinkTail(held[t])
         \/ pc[t] = "link_urgent" /\ LinkHead(held[t]),
         held' = [held EXCEPT ![t] = NULL], buffer' = [buffer EXCEPT ![t] = NoMessage],
         pc'[t] \in {Run, "sched"}, UNCHANGED <<free, data>>
  PROVE  \E qs2 : /\ BlocksAre(fs, qs2)' /\ Len(qs2) = Len(qs) + 1
                  /\ qs2 = IF pc[t] = "link" THEN Append(qs, held[t])
                           ELSE <<held[t]>> \o qs
<1>0. PICK b : b = held[t]
  OBVIOUS
<1>1. BlocksTyped /\ HandsOK /\ ChainsAre(fs, qs)
  BY DEF BlocksAre
<1>2. /\ b \in Block /\ b # NULL /\ b \notin ToSet(fs) /\ b \notin ToSet(qs)
      /\ pc[t] = "link" => next[b] = NULL
      /\ \A u \in Thread : held[u] # NULL =>
           held[u] \in Block /\ held[u] \notin ToSet(qs)
      /\ \A u \in Thread : held[u] = b => u = t
      /\ \A u \in Thread : pc[u] = "link" => held[u] # NULL
  BY <1>0, <1>1, MessageQueueAssumption DEF HandsOK, HandOK, Holding, BlocksTyped, ChainsAre
<1>3. /\ IsChain(next, free, fs) /\ IsChain(next, head, qs)
      /\ ToSet(fs) \subseteq Block /\ ToSet(qs) \subseteq Block
      /\ ToSet(fs) \cap ToSet(qs) = {}
      /\ head = NULL <=> qs = <<>>
      /\ tail = IF qs = <<>> THEN NULL ELSE Last(qs)
      /\ next \in Pointers
  BY <1>1, ChainStart DEF ChainsAre, BlocksTyped
<1>4. /\ qs # <<>> => tail \in ToSet(qs) /\ tail = Last(qs) /\ tail # NULL
      /\ qs = <<>> => tail = NULL
      /\ tail # b
      /\ \A c \in Block \ ToSet(qs) : c # tail
  BY <1>2, <1>3, ChainLast, MessageQueueAssumption
<1>5. CASE pc[t] = "link" /\ LinkTail(b)
  <2>1. /\ next' = IF tail # NULL THEN [next EXCEPT ![tail] = b] ELSE next
        /\ tail' = b /\ head' = IF head = NULL THEN b ELSE head
        /\ entry' = entry + 1
    BY <1>5 DEF LinkTail
  <2>2. /\ next' \in Pointers /\ next'[b] = NULL
        /\ qs # <<>> => next'[tail] = b
        /\ \A c \in Block : c # tail => next'[c] = next[c]
    BY <1>2, <1>3, <1>4, <1>5, <2>1 DEF Pointers
  <2>3. /\ IsChain(next', head', Append(qs, b))
        /\ ToSet(Append(qs, b)) = ToSet(qs) \cup {b}
        /\ Len(Append(qs, b)) = Len(qs) + 1
        /\ Last(Append(qs, b)) = b /\ Append(qs, b) # <<>>
    <3>1. b \in Block \ ToSet(qs)
      BY <1>2
    <3>2. qs # <<>> => next'[Last(qs)] = b
      BY <1>4, <2>2
    <3>3. ASSUME NEW c \in ToSet(qs), c # Last(qs) PROVE next'[c] = next[c]
      <4>1. qs # <<>>
        BY <3>3 DEF ToSet
      <4>2. QED
        BY <1>3, <1>4, <2>2, <3>3, <4>1
    <3>4. IsChain(next', IF head = NULL THEN b ELSE head, Append(qs, b))
      BY <1>3, <2>2, <3>1, <3>2, <3>3, ChainAppend
    <3>5. /\ ToSet(Append(qs, b)) = ToSet(qs) \cup {b}
          /\ Len(Append(qs, b)) = Len(qs) + 1
          /\ Last(Append(qs, b)) = b /\ Append(qs, b) # <<>>
      BY <1>3, <2>2, <3>1, <3>2, <3>3, ChainAppend
    <3>6. QED
      BY <2>1, <3>4, <3>5
  <2>4. IsChain(next', free', fs)
    <3>1. \A c \in ToSet(fs) : next'[c] = next[c]
      BY <1>3, <1>4, <2>1, <2>2
    <3>2. QED
      BY <1>3, <3>1, ChainKept
  <2>5. /\ BlocksTyped' /\ HandsOK'
        /\ \A c \in Block : (\A u \in Thread : held'[u] # c)
                              <=> c = b \/ \A u \in Thread : held[u] # c
    <3>1. ASSUME NEW u \in Thread, pc[u] = "link", u # t
          PROVE  next'[held[u]] = next[held[u]]
      <4>1. held[u] \in Block \ ToSet(qs)
        BY <1>2, <3>1
      <4>2. QED
        BY <1>4, <2>2, <4>1
    <3>2. next' \in Pointers /\ held[t] # NULL
      BY <1>0, <1>2, <2>2
    <3>3. QED
      BY <1>0, <1>1, <3>1, <3>2, PutDown
  <2>6. ChainsAre(fs, Append(qs, b))'
    <3>1. ToSet(fs) \cap ToSet(Append(qs, b)) = {}
      BY <1>2, <1>3, <2>3
    <3>2. ASSUME NEW c \in Block
          PROVE  c \in ToSet(fs) \cup ToSet(Append(qs, b)) <=> \A u \in Thread : held'[u] # c
      BY <1>1, <2>3, <2>5 DEF ChainsAre
    <3>3. entry' = Len(Append(qs, b))
      BY <1>1, <2>1, <2>3 DEF ChainsAre
    <3>4. tail' = IF Append(qs, b) = <<>> THEN NULL ELSE Last(Append(qs, b))
      BY <2>1, <2>3
    <3>5. QED
      BY <2>3, <2>4, <3>1, <3>2, <3>3, <3>4 DEF ChainsAre
  <2>7. BlocksAre(fs, Append(qs, b))'
    BY <2>5, <2>6 DEF BlocksAre
  <2>8. Append(qs, b) = IF pc[t] = "link" THEN Append(qs, held[t]) ELSE <<held[t]>> \o qs
    BY <1>0, <1>5
  <2>9. QED
    BY <2>3, <2>7, <2>8, Zenon
<1>6. CASE pc[t] = "link_urgent" /\ LinkHead(b)
  <2>1. /\ next' = [next EXCEPT ![b] = head]
        /\ head' = b /\ tail' = IF tail = NULL THEN b ELSE tail
        /\ entry' = entry + 1
    BY <1>6 DEF LinkHead
  <2>2. /\ next' \in Pointers /\ next'[b] = head
        /\ \A c \in Block : c # b => next'[c] = next[c]
    BY <1>2, <1>3, <2>1, ChainStart DEF Pointers
  <2>3. /\ IsChain(next', head', <<b>> \o qs)
        /\ ToSet(<<b>> \o qs) = ToSet(qs) \cup {b}
        /\ Len(<<b>> \o qs) = Len(qs) + 1 /\ <<b>> \o qs # <<>>
        /\ Last(<<b>> \o qs) = IF qs = <<>> THEN b ELSE Last(qs)
    <3>1. b \in Block \ ToSet(qs) /\ \A c \in ToSet(qs) : next'[c] = next[c]
      BY <1>2, <1>3, <2>2
    <3>2. QED
      <4>1. IsChain(next', b, <<b>> \o qs)
        BY <1>3, <2>2, <3>1, ChainCons
      <4>2. /\ ToSet(<<b>> \o qs) = ToSet(qs) \cup {b}
            /\ Len(<<b>> \o qs) = Len(qs) + 1 /\ <<b>> \o qs # <<>>
            /\ Last(<<b>> \o qs) = IF qs = <<>> THEN b ELSE Last(qs)
        BY <1>3, <2>2, <3>1, ChainCons
      <4>3. QED
        BY <2>1, <4>1, <4>2
  <2>4. IsChain(next', free', fs)
    <3>1. \A c \in ToSet(fs) : next'[c] = next[c]
      BY <1>2, <1>3, <2>2
    <3>2. QED
      BY <1>3, <3>1, ChainKept
  <2>5. /\ BlocksTyped' /\ HandsOK'
        /\ \A c \in Block : (\A u \in Thread : held'[u] # c)
                              <=> c = b \/ \A u \in Thread : held[u] # c
    <3>1. \A u \in Thread : pc[u] = "link" /\ u # t => next'[held[u]] = next[held[u]]
      BY <1>2, <2>2
    <3>2. next' \in Pointers /\ held[t] # NULL
      BY <1>0, <1>2, <2>2
    <3>3. QED
      BY <1>0, <1>1, <3>1, <3>2, PutDown
  <2>6. tail' = Last(<<b>> \o qs)
    BY <1>3, <1>4, <2>1, <2>3
  <2>7. ChainsAre(fs, <<b>> \o qs)'
    <3>1. ToSet(fs) \cap ToSet(<<b>> \o qs) = {}
      BY <1>2, <1>3, <2>3
    <3>2. ASSUME NEW c \in Block
          PROVE  c \in ToSet(fs) \cup ToSet(<<b>> \o qs) <=> \A u \in Thread : held'[u] # c
      BY <1>1, <2>3, <2>5 DEF ChainsAre
    <3>3. entry' = Len(<<b>> \o qs)
      BY <1>1, <2>1, <2>3 DEF ChainsAre
    <3>4. tail' = IF <<b>> \o qs = <<>> THEN NULL ELSE Last(<<b>> \o qs)
      BY <2>1, <2>3, <2>6
    <3>5. QED
      BY <2>3, <2>4, <3>1, <3>2, <3>3, <3>4 DEF ChainsAre
  <2>8. BlocksAre(fs, <<b>> \o qs)'
    BY <2>5, <2>7 DEF BlocksAre
  <2>9. <<b>> \o qs = IF pc[t] = "link" THEN Append(qs, held[t]) ELSE <<held[t]>> \o qs
    BY <1>0, <1>6
  <2>10. QED
    BY <2>3, <2>8, <2>9, Zenon
<1>7. QED
  BY <1>0, <1>5, <1>6

(* A thread takes the first block of the queue. *)
LEMMA UnlinkBlock ==
  ASSUME NEW fs, NEW qs, BlocksAre(fs, qs), NEW t \in Thread, OthersSame(t),
         pc[t] \notin Holding, pc'[t] = "copy", UnlinkHead,
         held' = [held EXCEPT ![t] = head], buffer' = [buffer EXCEPT ![t] = data[head]],
         UNCHANGED <<free, next, data>>
  PROVE  /\ qs # <<>> /\ BlocksAre(fs, Tail(qs))' /\ Len(Tail(qs)) = Len(qs) - 1
         /\ head = Head(qs) /\ received' \in Message \cup {NoMessage}
<1>1. /\ entry > 0 /\ head' = next[head] /\ entry' = entry - 1
      /\ tail' = IF tail = head THEN NULL ELSE tail
      /\ received' = data[head]
      /\ BlocksTyped /\ HandsOK /\ ChainsAre(fs, qs)
  BY DEF UnlinkHead, BlocksAre
<1>2. /\ IsChain(next, free, fs) /\ IsChain(next, head, qs)
      /\ ToSet(fs) \cap ToSet(qs) = {} /\ entry = Len(qs)
      /\ tail = IF qs = <<>> THEN NULL ELSE Last(qs)
  BY <1>1 DEF ChainsAre
<1>3. qs # <<>> /\ head # NULL
  <2>1. qs # <<>>
    BY <1>1, <1>2, EmptySeq DEF IsChain
  <2>2. QED
    BY <1>2, <2>1, ChainStart
<1>4. /\ head = qs[1] /\ head \in Block /\ head \in ToSet(qs)
      /\ IsChain(next, head', Tail(qs))
      /\ ToSet(Tail(qs)) = ToSet(qs) \ {head}
      /\ Len(Tail(qs)) = Len(qs) - 1
      /\ IF Last(qs) = head THEN Tail(qs) = <<>>
         ELSE Tail(qs) # <<>> /\ Last(Tail(qs)) = Last(qs)
  BY <1>1, <1>2, <1>3, ChainTail
<1>5. /\ held[t] = NULL /\ held'[t] = head /\ held' \in [Thread -> Block \cup {NULL}]
      /\ data[head] \in Message \cup {NoMessage} /\ buffer'[t] = data[head]
      /\ buffer' \in [Thread -> Message \cup {NoMessage}]
  BY <1>1, <1>4 DEF HandsOK, HandOK, BlocksTyped
<1>6. BlocksTyped'
  BY <1>1, <1>5 DEF BlocksTyped
<1>7. \A u \in Thread : held[u] # head
  BY <1>1, <1>4 DEF ChainsAre
<1>8. HandsOK'
  <2>1. ASSUME NEW u \in Thread PROVE HandOK(u)'
    <3>1. CASE u = t
      BY <1>4, <1>5, <3>1, MessageQueueAssumption DEF HandOK, Holding
    <3>2. CASE u # t
      BY <1>1, <3>2 DEF HandsOK, HandOK, OthersSame
    <3>3. QED
      BY <3>1, <3>2
  <2>2. ASSUME NEW u \in Thread, NEW v \in Thread, held'[u] # NULL, held'[u] = held'[v]
        PROVE  u = v
    BY <1>1, <1>5, <1>7, <2>2 DEF HandsOK, OthersSame
  <2>3. QED
    BY <2>1, <2>2 DEF HandsOK
<1>9. ChainsAre(fs, Tail(qs))'
  <2>1. ASSUME NEW b \in Block
        PROVE  b \in ToSet(fs) \cup ToSet(Tail(qs)) <=> \A u \in Thread : held'[u] # b
    <3>1. CASE b = head
      BY <1>2, <1>4, <1>5, <3>1
    <3>2. CASE b # head
      <4>1. (\A u \in Thread : held'[u] # b) <=> (\A u \in Thread : held[u] # b)
        BY <1>5, <3>2, MessageQueueAssumption DEF OthersSame
      <4>2. QED
        BY <1>1, <1>4, <3>2, <4>1 DEF ChainsAre
    <3>3. QED
      BY <3>1, <3>2
  <2>2. tail' = IF Tail(qs) = <<>> THEN NULL ELSE Last(Tail(qs))
    BY <1>1, <1>2, <1>3, <1>4
  <2>3. /\ IsChain(next', free', fs) /\ IsChain(next', head', Tail(qs))
        /\ ToSet(fs) \cap ToSet(Tail(qs)) = {} /\ entry' = Len(Tail(qs))
    BY <1>1, <1>2, <1>4
  <2>4. QED
    BY <2>1, <2>2, <2>3 DEF ChainsAre
<1>10. head = Head(qs)
  BY <1>2, <1>3, <1>4 DEF IsChain
<1>11. QED
  BY <1>1, <1>3, <1>4, <1>5, <1>6, <1>8, <1>9, <1>10 DEF BlocksAre

(* A thread puts the block that it has copied back on the free list. *)
LEMMA FreeBlock ==
  ASSUME NEW fs, NEW qs, BlocksAre(fs, qs), NEW t \in Thread, OthersSame(t),
         pc[t] = "copy", PutFree(held[t]),
         held' = [held EXCEPT ![t] = NULL], buffer' = [buffer EXCEPT ![t] = NoMessage],
         pc'[t] \in {Run, "sched"}, UNCHANGED <<head, tail, data, entry>>
  PROVE  \E fs2 : BlocksAre(fs2, qs)' /\ Len(fs2) = Len(fs) + 1
<1>0. PICK b : b = held[t]
  OBVIOUS
<1>1. /\ BlocksTyped /\ HandsOK /\ ChainsAre(fs, qs)
      /\ next' = [next EXCEPT ![b] = free] /\ free' = b
  BY <1>0 DEF BlocksAre, PutFree
<1>2. /\ b \in Block /\ b # NULL /\ b \notin ToSet(fs) /\ b \notin ToSet(qs)
      /\ \A u \in Thread : held[u] = b => u = t
  BY <1>0, <1>1, MessageQueueAssumption
     DEF HandsOK, HandOK, Holding, BlocksTyped, ChainsAre
<1>3. /\ IsChain(next, free, fs) /\ IsChain(next, head, qs)
      /\ ToSet(fs) \subseteq Block /\ ToSet(qs) \subseteq Block
      /\ ToSet(fs) \cap ToSet(qs) = {}
      /\ free \in Block \cup {NULL} /\ next \in Pointers
  BY <1>1, ChainStart DEF ChainsAre, BlocksTyped
<1>4. /\ next' \in Pointers /\ next'[b] = free
      /\ \A c \in Block : c # b => next'[c] = next[c]
  BY <1>1, <1>2, <1>3 DEF Pointers
<1>5. /\ IsChain(next', free', <<b>> \o fs)
      /\ ToSet(<<b>> \o fs) = ToSet(fs) \cup {b}
      /\ Len(<<b>> \o fs) = Len(fs) + 1
  <2>1. b \in Block \ ToSet(fs) /\ \A c \in ToSet(fs) : next'[c] = next[c]
    BY <1>2, <1>3, <1>4
  <2>2. /\ IsChain(next', b, <<b>> \o fs)
        /\ ToSet(<<b>> \o fs) = ToSet(fs) \cup {b}
        /\ Len(<<b>> \o fs) = Len(fs) + 1
    BY <1>3, <1>4, <2>1, ChainCons
  <2>3. QED
    BY <1>1, <2>2
<1>6. IsChain(next', head', qs)
  <2>1. \A c \in ToSet(qs) : next'[c] = next[c]
    BY <1>2, <1>3, <1>4
  <2>2. QED
    BY <1>3, <2>1, ChainKept
<1>7. /\ BlocksTyped' /\ HandsOK'
      /\ \A c \in Block : (\A u \in Thread : held'[u] # c)
                            <=> c = b \/ \A u \in Thread : held[u] # c
  <2>1. ASSUME NEW u \in Thread, pc[u] = "link", u # t
        PROVE  next'[held[u]] = next[held[u]]
    <3>1. held[u] \in Block /\ held[u] # b
      BY <1>1, <1>2, <2>1, MessageQueueAssumption DEF HandsOK, HandOK, Holding, BlocksTyped
    <3>2. QED
      BY <1>4, <3>1
  <2>2. held[t] # NULL
    BY <1>0, <1>2
  <2>3. QED
    BY <1>0, <1>1, <1>4, <2>1, <2>2, PutDown
<1>8. ChainsAre(<<b>> \o fs, qs)'
  <2>1. ASSUME NEW c \in Block
        PROVE  c \in ToSet(<<b>> \o fs) \cup ToSet(qs) <=> \A u \in Thread : held'[u] # c
    BY <1>1, <1>5, <1>7 DEF ChainsAre
  <2>2. ToSet(<<b>> \o fs) \cap ToSet(qs) = {}
    BY <1>2, <1>3, <1>5
  <2>3. entry' = Len(qs) /\ tail' = IF qs = <<>> THEN NULL ELSE Last(qs)
    BY <1>1 DEF ChainsAre
  <2>4. QED
    BY <1>5, <1>6, <2>1, <2>2, <2>3 DEF ChainsAre
<1>9. BlocksAre(<<b>> \o fs, qs)'
  BY <1>7, <1>8 DEF BlocksAre
<1>10. QED
  BY <1>5, <1>9

(* what thread t may do without a block: wait, go on or return *)
Bystander(t) ==
  \/ pc'[t] = pc[t] /\ buffer'[t] = buffer[t]
  \/ /\ pc[t] \notin Holding /\ pc'[t] \notin Holding
     /\ pc'[t] \in {"send", "sending"} => buffer'[t] \in Message

(* No block moves. *)
LEMMA QuietBlocks ==
  ASSUME NEW fs, NEW qs, BlocksAre(fs, qs), UNCHANGED <<queue, held>>,
         buffer' \in [Thread -> Message \cup {NoMessage}],
         \A t \in Thread : Bystander(t)
  PROVE  BlocksAre(fs, qs)'
<1>1. /\ BlocksTyped /\ HandsOK /\ ChainsAre(fs, qs)
      /\ UNCHANGED <<free, head, tail, next, data, entry, held>>
  BY DEF BlocksAre, queue
<1>2. BlocksTyped'
  BY <1>1 DEF BlocksTyped
<1>3. HandsOK'
  <2>1. ASSUME NEW t \in Thread PROVE HandOK(t)'
    <3>1. CASE pc'[t] = pc[t] /\ buffer'[t] = buffer[t]
      BY <1>1, <3>1 DEF HandsOK, HandOK
    <3>2. CASE /\ pc[t] \notin Holding /\ pc'[t] \notin Holding
               /\ pc'[t] \in {"send", "sending"} => buffer'[t] \in Message
      BY <1>1, <3>2 DEF HandsOK, HandOK, Holding
    <3>3. QED
      BY <3>1, <3>2 DEF Bystander
  <2>2. QED
    BY <1>1, <2>1 DEF HandsOK
<1>4. ChainsAre(fs, qs)'
  BY <1>1 DEF ChainsAre
<1>5. QED
  BY <1>2, <1>3, <1>4 DEF BlocksAre

(* A reset puts the blocks of the queue back on the free list. *)
LEMMA DrainBlocks ==
  ASSUME NEW fs, NEW qs, BlocksAre(fs, qs),
         free' = Drained.free, next' = Drained.next,
         head' = NULL, tail' = NULL, entry' = 0, UNCHANGED <<data, held, buffer>>,
         \A t \in Thread : Bystander(t)
  PROVE  \E fs2 : BlocksAre(fs2, <<>>)'
<1>1. /\ BlocksTyped /\ HandsOK /\ ChainsAre(fs, qs)
      /\ next \in Pointers /\ NULL \notin Block
  BY MessageQueueAssumption DEF BlocksAre, BlocksTyped
<1>2. PICK rs : /\ IsChain(Drained.next, Drained.free, rs)
                /\ ToSet(rs) = ToSet(fs) \cup ToSet(qs)
                /\ Drained.next \in Pointers
                /\ \A c \in Block \ ToSet(qs) : Drained.next[c] = next[c]
  BY <1>1, DrainedLemma DEF ChainsAre
<1>3. BlocksTyped'
  BY <1>1, <1>2 DEF BlocksTyped
<1>4. HandsOK'
  <2>1. ASSUME NEW t \in Thread, pc[t] = "link"
        PROVE  held[t] \in Block /\ next'[held[t]] = next[held[t]]
    <3>1. held[t] \in Block
      BY <1>1, <2>1 DEF HandsOK, HandOK, BlocksTyped, Holding
    <3>2. held[t] \notin ToSet(qs)
      BY <1>1, <3>1 DEF ChainsAre
    <3>3. QED
      BY <1>2, <3>1, <3>2
  <2>2. ASSUME NEW t \in Thread PROVE HandOK(t)'
    <3>1. CASE pc'[t] = pc[t] /\ buffer'[t] = buffer[t]
      BY <1>1, <2>1, <3>1 DEF HandsOK, HandOK
    <3>2. CASE /\ pc[t] \notin Holding /\ pc'[t] \notin Holding
               /\ pc'[t] \in {"send", "sending"} => buffer'[t] \in Message
      BY <1>1, <3>2 DEF HandsOK, HandOK, Holding
    <3>3. QED
      BY <3>1, <3>2 DEF Bystander
  <2>3. QED
    BY <1>1, <2>2 DEF HandsOK
<1>5. ChainsAre(rs, <<>>)'
  <2>1. IsChain(next', free', rs) /\ IsChain(next', head', <<>>)
    <3>1. <<>> \in Seq(Block) /\ IsInjective(<<>>)
      BY DEF IsInjective
    <3>2. QED
      BY <1>2, <3>1 DEF IsChain, LeadsThrough
  <2>2. ToSet(<<>>) = {} /\ Len(<<>>) = 0
    BY DEF ToSet
  <2>3. \A b \in Block : b \in ToSet(rs) <=> \A t \in Thread : held[t] # b
    BY <1>1, <1>2 DEF ChainsAre
  <2>4. QED
    BY <2>1, <2>2, <2>3 DEF ChainsAre
<1>6. QED
  BY <1>3, <1>4, <1>5 DEF BlocksAre

(* What a thread that holds a block sees of it is not changed by others. *)
LEMMA HandsKept ==
  ASSUME NEW fs, NEW qs, BlocksAre(fs, qs), BlocksTyped', UNCHANGED <<pc, held, buffer>>,
         \A b \in Block \ (ToSet(fs) \cup ToSet(qs)) : next'[b] = next[b] /\ data'[b] = data[b]
  PROVE  HandsOK'
<1>1. BlocksTyped /\ HandsOK /\ ChainsAre(fs, qs)
  BY DEF BlocksAre
<1>2. ASSUME NEW t \in Thread PROVE HandOK(t)'
  <2>1. CASE held[t] = NULL
    BY <1>1, <2>1 DEF HandsOK, HandOK, Holding
  <2>2. CASE held[t] # NULL
    <3>1. held[t] \in Block \ (ToSet(fs) \cup ToSet(qs))
      BY <1>1, <2>2 DEF BlocksTyped, ChainsAre
    <3>2. next'[held[t]] = next[held[t]] /\ data'[held[t]] = data[held[t]]
      BY <3>1
    <3>3. QED
      BY <1>1, <3>2 DEF HandsOK, HandOK
  <2>3. QED
    BY <2>1, <2>2
<1>3. QED
  BY <1>1, <1>2 DEF HandsOK

(* An interrupt handler fills the first free block and links it to the end  *)
(* or to the front of the queue.                                            *)
LEMMA IsrSendBlock ==
  ASSUME NEW fs, NEW qs, BlocksAre(fs, qs), NEW m \in Message, IsrSend(m)
  PROVE  /\ free \in Block /\ fs # <<>> /\ Len(Tail(fs)) = Len(fs) - 1
         /\ data' = [data EXCEPT ![free] = m]
         /\ \E qs2 : /\ BlocksAre(Tail(fs), qs2)' /\ Len(qs2) = Len(qs) + 1
                     /\ qs2 = Append(qs, free) \/ qs2 = <<free>> \o qs
<1>1. /\ free # NULL /\ free' = next[free]
      /\ data' = [data EXCEPT ![free] = m] /\ entry' = entry + 1
      /\ UNCHANGED <<pc, flag, held, buffer, timed, received>>
      /\ BlocksTyped /\ HandsOK /\ ChainsAre(fs, qs)
  BY DEF IsrSend, UnlinkFree, BlocksAre, args
<1>2. PICK b : b = free
  OBVIOUS
<1>3. /\ fs # <<>> /\ b \in Block /\ b \in ToSet(fs) /\ b \notin ToSet(qs)
      /\ IsChain(next, free', Tail(fs))
      /\ ToSet(Tail(fs)) = ToSet(fs) \ {b}
      /\ Len(Tail(fs)) = Len(fs) - 1
  BY <1>1, <1>2, ChainTail DEF ChainsAre
<1>4. /\ IsChain(next, head, qs) /\ ToSet(qs) \subseteq Block /\ ToSet(fs) \subseteq Block
      /\ ToSet(fs) \cap ToSet(qs) = {}
      /\ head \in Block \cup {NULL} /\ (head = NULL <=> qs = <<>>)
      /\ tail = IF qs = <<>> THEN NULL ELSE Last(qs)
      /\ next \in Pointers /\ data \in [Block -> Message \cup {NoMessage}]
  BY <1>1, ChainStart DEF ChainsAre, BlocksTyped
<1>5. /\ qs # <<>> => tail \in ToSet(qs) /\ tail = Last(qs) /\ tail # NULL
      /\ qs = <<>> => tail = NULL
      /\ tail # b
      /\ \A c \in Block \ ToSet(qs) : c # tail
  BY <1>3, <1>4, ChainLast, MessageQueueAssumption
<1>6. ASSUME NEW qs2, next' \in Pointers,
             IsChain(next', head', qs2), ToSet(qs2) = ToSet(qs) \cup {b},
             Len(qs2) = Len(qs) + 1, qs2 # <<>>, tail' = Last(qs2),
             \A c \in Block \ (ToSet(qs) \cup {b}) : next'[c] = next[c]
      PROVE  BlocksAre(Tail(fs), qs2)'
  <2>1. BlocksTyped'
    BY <1>1, <1>2, <1>3, <1>6 DEF BlocksTyped
  <2>2. HandsOK'
    <3>1. \A c \in Block \ (ToSet(fs) \cup ToSet(qs)) : next'[c] = next[c] /\ data'[c] = data[c]
      BY <1>1, <1>2, <1>3, <1>4, <1>6
    <3>2. QED
      BY <1>1, <2>1, <3>1, HandsKept
  <2>3. IsChain(next', free', Tail(fs))
    <3>1. \A c \in ToSet(Tail(fs)) : next'[c] = next[c]
      BY <1>3, <1>4, <1>6
    <3>2. QED
      BY <1>3, <3>1, ChainKept
  <2>4. ToSet(Tail(fs)) \cap ToSet(qs2) = {}
    BY <1>3, <1>4, <1>6
  <2>5. ASSUME NEW c \in Block
        PROVE  c \in ToSet(Tail(fs)) \cup ToSet(qs2) <=> \A u \in Thread : held'[u] # c
    BY <1>1, <1>3, <1>6 DEF ChainsAre
  <2>6. entry' = Len(qs2) /\ tail' = IF qs2 = <<>> THEN NULL ELSE Last(qs2)
    BY <1>1, <1>6 DEF ChainsAre
  <2>7. ChainsAre(Tail(fs), qs2)'
    BY <1>6, <2>3, <2>4, <2>5, <2>6 DEF ChainsAre
  <2>8. QED
    BY <2>1, <2>2, <2>7 DEF BlocksAre
<1>7. CASE /\ tail' = b /\ head' = IF head = NULL THEN b ELSE head
           /\ next' = [c \in Block |-> CASE c = tail -> b [] c = b -> NULL [] OTHER -> next[c]]
  <2>1. /\ next' \in Pointers /\ next'[b] = NULL
        /\ \A c \in Block : c = tail => next'[c] = b
        /\ \A c \in Block : c # b /\ c # tail => next'[c] = next[c]
    BY <1>3, <1>4, <1>5, <1>7 DEF Pointers
  <2>2. b \in Block \ ToSet(qs)
    BY <1>3
  <2>3. qs # <<>> => next'[Last(qs)] = b
    BY <1>4, <1>5, <2>1
  <2>4. ASSUME NEW c \in ToSet(qs), c # Last(qs) PROVE next'[c] = next[c]
    <3>1. qs # <<>>
      BY <2>4 DEF ToSet
    <3>2. QED
      BY <1>4, <1>5, <2>1, <2>2, <2>4, <3>1
  <2>5. IsChain(next', IF head = NULL THEN b ELSE head, Append(qs, b))
    BY <1>4, <2>1, <2>2, <2>3, <2>4, ChainAppend
  <2>6. /\ ToSet(Append(qs, b)) = ToSet(qs) \cup {b}
        /\ Len(Append(qs, b)) = Len(qs) + 1
        /\ Last(Append(qs, b)) = b /\ Append(qs, b) # <<>>
    BY <1>4, <2>1, <2>2, <2>3, <2>4, ChainAppend
  <2>7. IsChain(next', head', Append(qs, b)) /\ tail' = Last(Append(qs, b))
    BY <1>7, <2>5, <2>6
  <2>8. \A c \in Block \ (ToSet(qs) \cup {b}) : next'[c] = next[c]
    BY <1>5, <2>1
  <2>9. BlocksAre(Tail(fs), Append(qs, b))'
    BY <1>6, <2>1, <2>6, <2>7, <2>8
  <2>10. QED
    BY <1>1, <1>2, <1>3, <2>6, <2>9
<1>8. CASE /\ head' = b /\ tail' = IF tail = NULL THEN b ELSE tail
           /\ next' = [next EXCEPT ![b] = head]
  <2>1. /\ next' \in Pointers /\ next'[b] = head
        /\ \A c \in Block : c # b => next'[c] = next[c]
    BY <1>3, <1>4, <1>8 DEF Pointers
  <2>2. b \in Block \ ToSet(qs) /\ \A c \in ToSet(qs) : next'[c] = next[c]
    BY <1>3, <1>4, <2>1
  <2>3. IsChain(next', b, <<b>> \o qs)
    BY <1>4, <2>1, <2>2, ChainCons
  <2>4. /\ ToSet(<<b>> \o qs) = ToSet(qs) \cup {b}
        /\ Len(<<b>> \o qs) = Len(qs) + 1 /\ <<b>> \o qs # <<>>
        /\ Last(<<b>> \o qs) = IF qs = <<>> THEN b ELSE Last(qs)
    BY <1>4, <2>1, <2>2, ChainCons
  <2>5. IsChain(next', head', <<b>> \o qs)
    BY <1>8, <2>3
  <2>6. tail' = Last(<<b>> \o qs)
    BY <1>4, <1>5, <1>8, <2>4
  <2>7. BlocksAre(Tail(fs), <<b>> \o qs)'
    BY <1>6, <2>1, <2>4, <2>5, <2>6
  <2>8. QED
    BY <1>1, <1>2, <1>3, <2>4, <2>7
<1>9. QED
  BY <1>2, <1>7, <1>8 DEF IsrSend

(* An interrupt handler frees the first block of the queue. *)
LEMMA IsrRecvBlock ==
  ASSUME NEW fs, NEW qs, BlocksAre(fs, qs), IsrRecv
  PROVE  /\ qs # <<>> /\ head = Head(qs) /\ Len(Tail(qs)) = Len(qs) - 1
         /\ received' = data[head] /\ received' \in Message \cup {NoMessage}
         /\ \E fs2 : BlocksAre(fs2, Tail(qs))' /\ Len(fs2) = Len(fs) + 1
<1>1. /\ entry > 0 /\ head' = next[head] /\ entry' = entry - 1
      /\ tail' = IF tail = head THEN NULL ELSE tail
      /\ received' = data[head]
      /\ next' = [next EXCEPT ![head] = free] /\ free' = head
      /\ UNCHANGED <<pc, data, flag, held, buffer, timed>>
      /\ BlocksTyped /\ HandsOK /\ ChainsAre(fs, qs)
  BY DEF IsrRecv, UnlinkHead, PutFree, BlocksAre
<1>2. /\ IsChain(next, free, fs) /\ IsChain(next, head, qs)
      /\ ToSet(fs) \cap ToSet(qs) = {} /\ entry = Len(qs)
      /\ tail = IF qs = <<>> THEN NULL ELSE Last(qs)
      /\ ToSet(fs) \subseteq Block /\ ToSet(qs) \subseteq Block
      /\ free \in Block \cup {NULL} /\ next \in Pointers
      /\ data \in [Block -> Message \cup {NoMessage}]
  BY <1>1, ChainStart DEF ChainsAre, BlocksTyped
<1>3. qs # <<>> /\ head # NULL
  <2>1. qs # <<>>
    BY <1>1, <1>2, EmptySeq DEF IsChain
  <2>2. QED
    BY <1>2, <2>1, ChainStart
<1>4. /\ head = qs[1] /\ head \in Block /\ head \in ToSet(qs)
      /\ IsChain(next, head', Tail(qs))
      /\ ToSet(Tail(qs)) = ToSet(qs) \ {head}
      /\ Len(Tail(qs)) = Len(qs) - 1
      /\ IF Last(qs) = head THEN Tail(qs) = <<>>
         ELSE Tail(qs) # <<>> /\ Last(Tail(qs)) = Last(qs)
  BY <1>1, <1>2, <1>3, ChainTail
<1>5. PICK b : b = head
  OBVIOUS
<1>6. /\ b \in Block \ ToSet(fs) /\ next' \in Pointers /\ next'[b] = free
      /\ \A c \in Block : c # b => next'[c] = next[c]
  BY <1>1, <1>2, <1>4, <1>5 DEF Pointers
<1>7. IsChain(next', head', Tail(qs))
  <2>1. \A c \in ToSet(Tail(qs)) : next'[c] = next[c]
    BY <1>2, <1>4, <1>5, <1>6
  <2>2. QED
    BY <1>4, <2>1, ChainKept
<1>8. /\ IsChain(next', free', <<b>> \o fs)
      /\ ToSet(<<b>> \o fs) = ToSet(fs) \cup {b}
      /\ Len(<<b>> \o fs) = Len(fs) + 1
  <2>1. \A c \in ToSet(fs) : next'[c] = next[c]
    BY <1>2, <1>6
  <2>2. IsChain(next', b, <<b>> \o fs)
    BY <1>2, <1>6, <2>1, ChainCons
  <2>3. /\ ToSet(<<b>> \o fs) = ToSet(fs) \cup {b}
        /\ Len(<<b>> \o fs) = Len(fs) + 1
    BY <1>2, <1>6, <2>1, ChainCons
  <2>4. QED
    BY <1>1, <1>5, <2>2, <2>3
<1>9. BlocksTyped'
  BY <1>1, <1>6 DEF BlocksTyped
<1>10. HandsOK'
  <2>1. \A c \in Block \ (ToSet(fs) \cup ToSet(qs)) : next'[c] = next[c] /\ data'[c] = data[c]
    BY <1>1, <1>4, <1>5, <1>6
  <2>2. QED
    BY <1>1, <1>9, <2>1, HandsKept
<1>11. ChainsAre(<<b>> \o fs, Tail(qs))'
  <2>1. ToSet(<<b>> \o fs) \cap ToSet(Tail(qs)) = {}
    BY <1>2, <1>4, <1>5, <1>8
  <2>2. ASSUME NEW c \in Block
        PROVE  c \in ToSet(<<b>> \o fs) \cup ToSet(Tail(qs)) <=> \A u \in Thread : held'[u] # c
    BY <1>1, <1>4, <1>5, <1>8 DEF ChainsAre
  <2>3. tail' = IF Tail(qs) = <<>> THEN NULL ELSE Last(Tail(qs))
    BY <1>1, <1>2, <1>3, <1>4
  <2>4. entry' = Len(Tail(qs))
    BY <1>1, <1>2, <1>4
  <2>5. QED
    BY <1>7, <1>8, <2>1, <2>2, <2>3, <2>4 DEF ChainsAre
<1>12. BlocksAre(<<b>> \o fs, Tail(qs))'
  BY <1>9, <1>10, <1>11 DEF BlocksAre
<1>13. head = Head(qs) /\ data[head] \in Message \cup {NoMessage}
  BY <1>2, <1>3, <1>4 DEF IsChain
<1>14. QED
  BY <1>1, <1>3, <1>4, <1>8, <1>12, <1>13

(***************************************************************************)
(* The invariant in the terms of the shared lemmas                         *)
(***************************************************************************)
(* The model computes the chains that the invariant speaks of. *)
LEMMA ChainCounts ==
  ASSUME NEW fs, NEW qs
  PROVE  /\ BlocksAre(fs, qs) => /\ Chain(free) = fs /\ Chain(head) = qs
                                 /\ Len(fs) \in Nat /\ Len(qs) \in Nat
                                 /\ free = NULL <=> Len(fs) = 0
                                 /\ entry = Len(qs)
         /\ BlocksAre(fs, qs)' => /\ Chain(free)' = fs /\ Chain(head)' = qs
                                  /\ free' \in Block \cup {NULL}
                                  /\ head' \in Block \cup {NULL}
                                  /\ tail' \in Block \cup {NULL}
                                  /\ entry' \in 0 .. Cardinality(Block)
<1>1. ASSUME BlocksAre(fs, qs)
      PROVE  /\ Chain(free) = fs /\ Chain(head) = qs
             /\ Len(fs) \in Nat /\ Len(qs) \in Nat
             /\ free = NULL <=> Len(fs) = 0
             /\ entry = Len(qs)
  <2>1. /\ next \in [Block -> Block \cup {NULL}]
        /\ IsChain(next, free, fs) /\ IsChain(next, head, qs) /\ entry = Len(qs)
    BY <1>1 DEF BlocksAre, BlocksTyped, ChainsAre, Pointers
  <2>2. /\ fs \in Seq(Block) /\ IsInjective(fs) /\ LeadsThrough(next, free, fs)
        /\ qs \in Seq(Block) /\ IsInjective(qs) /\ LeadsThrough(next, head, qs)
    BY <2>1 DEF IsChain
  <2>3. ChainIn(next, free) = fs /\ ChainIn(next, head) = qs
    BY <2>1, <2>2, ChainLemma
  <2>4. Len(fs) \in Nat /\ Len(qs) \in Nat /\ (fs = <<>> <=> Len(fs) = 0)
    BY <2>2, LenProperties, EmptySeq
  <2>5. free = NULL <=> fs = <<>>
    BY <2>1, ChainStart
  <2>6. QED
    BY <2>1, <2>3, <2>4, <2>5 DEF Chain
<1>2. ASSUME BlocksAre(fs, qs)'
      PROVE  /\ Chain(free)' = fs /\ Chain(head)' = qs
             /\ free' \in Block \cup {NULL} /\ head' \in Block \cup {NULL}
             /\ tail' \in Block \cup {NULL} /\ entry' \in 0 .. Cardinality(Block)
  <2>1. /\ next' \in [Block -> Block \cup {NULL}]
        /\ IsChain(next', free', fs) /\ IsChain(next', head', qs) /\ entry' = Len(qs)
        /\ tail' = IF qs = <<>> THEN NULL ELSE Last(qs)
    BY <1>2 DEF BlocksAre, BlocksTyped, ChainsAre, Pointers
  <2>2. /\ fs \in Seq(Block) /\ IsInjective(fs) /\ LeadsThrough(next', free', fs)
        /\ qs \in Seq(Block) /\ IsInjective(qs) /\ LeadsThrough(next', head', qs)
    BY <2>1 DEF IsChain
  <2>3. ChainIn(next', free') = fs /\ ChainIn(next', head') = qs
    BY <2>1, <2>2, ChainLemma
  <2>4. free' \in Block \cup {NULL} /\ head' \in Block \cup {NULL}
    BY <2>1, ChainStart
  <2>5. tail' \in Block \cup {NULL}
    BY <2>1, ChainLast
  <2>6. entry' \in 0 .. Cardinality(Block)
    BY <2>1, <2>2, InjectiveLength
  <2>7. QED
    BY <2>3, <2>4, <2>5, <2>6 DEF Chain
<1>3. QED
  BY <1>1, <1>2

(* The fields of the service *)
LEMMA ServiceFields ==
  /\ "receivers" \in List /\ "senders" \in List
  /\ List \ {"receivers"} = {"senders"} /\ List \ {"senders"} = {"receivers"}
  /\ Way(Service, "receivers") = {"recv", "receiving"}
  /\ Way(Service, "senders") = {"send", "sending"}
  /\ LeavePoints(Service) = {"send", "recv"}
  /\ SettledPoints(Service) = {Run, "sending", "receiving", "fill", "fill_urgent", "link",
                               "link_urgent", "copy"}
  /\ CallPoints(Service) = {Run, "send", "sending", "fill", "fill_urgent", "link",
                            "link_urgent", "recv", "receiving", "copy", "sched",
                            "reset", "reset_senders"}
  /\ ServiceOK(Service)
<1>1. /\ "receivers" \in List /\ "senders" \in List
      /\ List \ {"receivers"} = {"senders"} /\ List \ {"senders"} = {"receivers"}
      /\ "rt_thread_defunct" \notin List
  BY MessageQueueAssumption
<1>2. /\ Way(Service, "receivers") = {"recv", "receiving"}
      /\ Way(Service, "senders") = {"send", "sending"}
      /\ LeavePoints(Service) = {"send", "recv"}
      /\ SettledPoints(Service) = {Run, "sending", "receiving", "fill", "fill_urgent",
                                   "link", "link_urgent", "copy"}
      /\ CallPoints(Service) = {Run, "send", "sending", "fill", "fill_urgent", "link",
                                "link_urgent", "recv", "receiving", "copy", "sched",
                                "reset", "reset_senders"}
  BY <1>1 DEF Service, Way, LeavePoints, SettledPoints, CallPoints
<1>3. ServiceOK(Service)
  <2>1. \A l \in List : l = "receivers" \/ l = "senders"
    BY MessageQueueAssumption
  <2>2. QED
    BY <1>1, <1>2, <2>1 DEF ServiceOK, Run
<1>4. QED
  BY <1>1, <1>2, <1>3

(* those that most steps need *)
LEMMA ServiceLists ==
  ServiceOK(Service) /\ "receivers" \in List /\ "senders" \in List
BY ServiceFields

(* every message is taken care of, and every free block *)
AllServed(fs, qs) ==
  Served(Service, "receivers", Len(qs)) /\ Served(Service, "senders", Len(fs))

(* What the invariant says, with the two chains at hand *)
LEMMA Current ==
  ASSUME IInv
  PROVE  /\ TypeOK /\ Steady(Service)
         /\ \E fs, qs : BlocksAre(fs, qs) /\ AllServed(fs, qs)
<1>1. PICK fs, qs : BlocksAre(fs, qs)
  BY DEF IInv
<1>2. Chain(free) = fs /\ Chain(head) = qs
  BY <1>1, ChainCounts
<1>3. /\ Woken("recv", "receiving") = Awake(Way(Service, "receivers"))
      /\ Woken("send", "sending") = Awake(Way(Service, "senders"))
  BY ServiceFields DEF Woken, Awake
<1>4. AllServed(fs, qs)
  BY <1>2, <1>3 DEF IInv, NoLostWakeup, AllServed, Served
<1>5. QED
  BY <1>1, <1>4 DEF IInv

(* A step that accounts for kernel data, blocks and wakeups keeps it. *)
LEMMA Assemble ==
  ASSUME TypeOK, Steady(Service)', NEW fs, NEW qs, BlocksAre(fs, qs)',
         UNCHANGED flag, timed' \subseteq Thread, received' \in Message \cup {NoMessage},
         ServedNext(Service, "receivers", Len(qs)), ServedNext(Service, "senders", Len(fs))
  PROVE  IInv'
<1>1. kern' \in KernelState /\ pc' \in [Thread -> CallPoints(Service)]
  BY DEF Steady, KernelOK
<1>2. /\ Chain(free)' = fs /\ Chain(head)' = qs
      /\ free' \in Block \cup {NULL} /\ head' \in Block \cup {NULL}
      /\ tail' \in Block \cup {NULL} /\ entry' \in 0 .. Cardinality(Block)
  BY ChainCounts
<1>3. TypeOK'
  BY <1>1, <1>2, ServiceFields DEF TypeOK, BlocksAre, BlocksTyped, Pointers
<1>4. /\ Woken("recv", "receiving")' = Awake(Way(Service, "receivers"))'
      /\ Woken("send", "sending")' = Awake(Way(Service, "senders"))'
  BY ServiceFields DEF Woken, Awake
<1>5. NoLostWakeup'
  BY <1>2, <1>4 DEF NoLostWakeup, ServedNext
<1>6. QED
  BY <1>3, <1>5 DEF IInv

(* The running thread goes on: what it was woken for it takes, or finds     *)
(* nothing there.                                                           *)
LEMMA GoOn ==
  ASSUME TypeOK, Steady(Service), NEW t \in Thread, NEW p, At(t, p),
         p \in CallPoints(Service) \ LeavePoints(Service),
         NEW q, q \in CallPoints(Service) \ LeavePoints(Service),
         Goto(t, q), q \notin {"sending", "receiving"},
         q \in SettledPoints(Service) => p \in SettledPoints(Service),
         kern' = kern \/ \E e \in Error : kern' = SetError(kern, t, e),
         NEW fs, NEW qs, BlocksAre(fs, qs), AllServed(fs, qs),
         NEW fs2, NEW qs2, BlocksAre(fs2, qs2)',
         Len(fs2) \in 0 .. Len(fs), Len(qs2) \in 0 .. Len(qs),
         p = "sending" => kern.error[t] # "RT_EOK" \/ Len(fs2) = 0 \/ Len(fs2) # Len(fs),
         p = "receiving" => kern.error[t] # "RT_EOK" \/ Len(qs2) = 0 \/ Len(qs2) # Len(qs),
         UNCHANGED flag, timed' \subseteq Thread, received' \in Message \cup {NoMessage}
  PROVE  IInv'
<1>1. /\ Steady(Service)' /\ kern'.list = kern.list
      /\ \A l \in List : AllBut(Service, l, t)
  <2>1. \A l \in List : q \notin Way(Service, l)
    BY ServiceFields, MessageQueueAssumption DEF Run
  <2>2. PICK e \in Error : kern' = kern \/ kern' = SetError(kern, t, e)
    BY DEF Error
  <2>3. QED
    BY <2>1, <2>2, ServiceLists, GoStep
<1>2. pc[t] = p /\ p \notin {"send", "recv"}
  BY ServiceFields DEF At
<1>3. ASSUME NEW l \in List, NEW n \in Nat, NEW m \in 0 .. n, Served(Service, l, n),
             t \in Awake(Way(Service, l)) => m = 0 \/ m # n
      PROVE  ServedNext(Service, l, m)
  <2>1. Shrunk /\ AllBut(Service, l, t)
    BY <1>1 DEF Shrunk
  <2>2. CASE t \notin Awake(Way(Service, l))
    <3>1. SameAwake(Service, l)
      BY <2>1, <2>2 DEF AllBut, SameAwake
    <3>2. m \in Nat /\ m <= n
      BY <1>3
    <3>3. QED
      BY <1>3, <2>1, <3>1, <3>2, ServedKept
  <2>3. CASE m = 0
    BY <2>3, ServedNone
  <2>4. CASE m # n
    <3>1. ServedNext(Service, l, n - 1)
      BY <1>3, <2>1, ServedFewer DEF AtMostOneLess
    <3>2. m <= n - 1 /\ m \in Nat /\ n - 1 \in Int
      BY <1>3, <2>4
    <3>3. Cardinality(Awake(Way(Service, l))') \in Nat
      BY AwakeLess
    <3>4. QED
      BY <3>1, <3>2, <3>3 DEF ServedNext
  <2>5. QED
    BY <1>3, <2>2, <2>3, <2>4
<1>4. Len(fs) \in Nat /\ Len(qs) \in Nat
  BY ChainCounts
<1>5. ServedNext(Service, "senders", Len(fs2))
  <2>1. t \in Awake(Way(Service, "senders")) => Len(fs2) = 0 \/ Len(fs2) # Len(fs)
    BY <1>2, ServiceFields DEF Awake
  <2>2. QED
    BY <1>3, <1>4, <2>1, ServiceLists DEF AllServed
<1>6. ServedNext(Service, "receivers", Len(qs2))
  <2>1. t \in Awake(Way(Service, "receivers")) => Len(qs2) = 0 \/ Len(qs2) # Len(qs)
    BY <1>2, ServiceFields DEF Awake
  <2>2. QED
    BY <1>3, <1>4, <2>1, ServiceLists DEF AllServed
<1>7. QED
  BY <1>1, <1>5, <1>6, Assemble

(***************************************************************************)
(* The steps                                                               *)
(***************************************************************************)
(* A thread that runs takes a free block. *)
LEMMA TakeStep ==
  ASSUME IInv, NEW t \in Thread, NEW p \in {Run, "sending"}, At(t, p),
         NEW q \in {"fill", "fill_urgent"}, Goto(t, q), UnlinkFree,
         held' = [held EXCEPT ![t] = free], NEW m \in Message,
         buffer' = [buffer EXCEPT ![t] = m],
         UNCHANGED <<kern, head, tail, next, data, entry, flag, received>>,
         timed' \subseteq Thread
  PROVE  IInv'
<1>1. /\ TypeOK /\ Steady(Service)
      /\ held \in [Thread -> Block \cup {NULL}]
      /\ buffer \in [Thread -> Message \cup {NoMessage}]
      /\ pc \in [Thread -> CallPoints(Service)] /\ pc[t] = p
      /\ received' \in Message \cup {NoMessage}
  BY Current DEF TypeOK, Steady, At
<1>2. PICK fs, qs : BlocksAre(fs, qs) /\ AllServed(fs, qs)
  BY Current
<1>3. /\ OthersSame(t) /\ pc'[t] = q /\ pc[t] \notin Holding
      /\ buffer' \in [Thread -> Message \cup {NoMessage}] /\ buffer'[t] = m
  BY <1>1 DEF OthersSame, Goto, Holding, Run
<1>4. PICK fs2 : BlocksAre(fs2, qs)' /\ Len(fs2) = Len(fs) - 1
  <2>1. BlocksAre(Tail(fs), qs)' /\ Len(Tail(fs)) = Len(fs) - 1
    BY <1>2, <1>3, TakeFree
  <2>2. QED
    BY <2>1, Zenon
<1>5. Len(fs) \in Nat /\ Len(qs) \in Nat /\ Len(fs) # 0
  <2>1. free # NULL
    BY DEF UnlinkFree
  <2>2. QED
    BY <1>2, <2>1, ChainCounts
<1>6. /\ Len(fs2) \in 0 .. Len(fs) /\ Len(fs2) # Len(fs)
      /\ Len(qs) \in 0 .. Len(qs)
  BY <1>4, <1>5
<1>7. /\ p \in CallPoints(Service) \ LeavePoints(Service) /\ p \in SettledPoints(Service)
      /\ q \in CallPoints(Service) \ LeavePoints(Service) /\ p # "receiving"
      /\ q \notin {"sending", "receiving"}
  BY ServiceFields DEF Run
<1>8. QED
  BY <1>1, <1>2, <1>4, <1>6, <1>7, GoOn

(* A thread fills the block that it has taken. *)
LEMMA FillStep ==
  ASSUME IInv, NEW t \in Thread, Fill(t) \/ FillUrgent(t)
  PROVE  IInv'
<1>0. \/ At(t, "fill") /\ Goto(t, "link") /\ next' = [next EXCEPT ![held[t]] = NULL]
      \/ At(t, "fill_urgent") /\ Goto(t, "link_urgent") /\ next' = next
  BY DEF Fill, FillUrgent
<1>1. PICK p \in {"fill", "fill_urgent"}, q \in {"link", "link_urgent"} :
           /\ p = "fill" <=> q = "link"
           /\ At(t, p) /\ Goto(t, q)
           /\ next' = IF p = "fill" THEN [next EXCEPT ![held[t]] = NULL] ELSE next
  <2>1. CASE At(t, "fill") /\ Goto(t, "link") /\ next' = [next EXCEPT ![held[t]] = NULL]
    BY <2>1
  <2>2. CASE At(t, "fill_urgent") /\ Goto(t, "link_urgent") /\ next' = next
    BY <2>2
  <2>3. QED
    BY <1>0, <2>1, <2>2
<1>2. /\ data' = [data EXCEPT ![held[t]] = buffer[t]]
      /\ UNCHANGED <<kern, free, head, tail, entry, flag, held, buffer, timed, received>>
  BY DEF Fill, FillUrgent, args
<1>3. /\ TypeOK /\ Steady(Service) /\ pc \in [Thread -> CallPoints(Service)] /\ pc[t] = p
      /\ received' \in Message \cup {NoMessage} /\ timed' \subseteq Thread
  BY <1>1, <1>2, Current DEF TypeOK, Steady, At
<1>4. PICK fs, qs : BlocksAre(fs, qs) /\ AllServed(fs, qs)
  BY Current
<1>5. OthersSame(t) /\ pc'[t] = q
  BY <1>1, <1>2, <1>3 DEF OthersSame, Goto
<1>6. BlocksAre(fs, qs)'
  <2>1. \/ pc[t] = "fill" /\ pc'[t] = "link" /\ next' = [next EXCEPT ![held[t]] = NULL]
        \/ pc[t] = "fill_urgent" /\ pc'[t] = "link_urgent" /\ UNCHANGED next
    BY <1>1, <1>3, <1>5
  <2>2. QED
    BY <1>2, <1>4, <1>5, <2>1, FillBlock
<1>7. Len(fs) \in 0 .. Len(fs) /\ Len(qs) \in 0 .. Len(qs)
  BY <1>4, ChainCounts
<1>8. /\ p \in CallPoints(Service) \ LeavePoints(Service) /\ p \in SettledPoints(Service)
      /\ q \in CallPoints(Service) \ LeavePoints(Service)
      /\ p \notin {"sending", "receiving"} /\ q \notin {"sending", "receiving"}
  BY <1>1, ServiceFields DEF Run
<1>9. QED
  BY <1>1, <1>2, <1>3, <1>4, <1>6, <1>7, <1>8, GoOn

(* A block more in one chain, perhaps one less in the other, and the first  *)
(* thread is awake of those who wait for what there is more of.             *)
LEMMA OneMoreServed ==
  ASSUME TypeOK, Steady(Service)', Shrunk,
         NEW fs, NEW qs, BlocksAre(fs, qs), AllServed(fs, qs),
         NEW fs2, NEW qs2, BlocksAre(fs2, qs2)',
         \/ /\ OneMore(Service, "receivers") /\ Len(qs2) = Len(qs) + 1
            /\ \/ SameAwake(Service, "senders") /\ Len(fs2) = Len(fs)
               \/ AtMostOneLess(Service, "senders") /\ Len(fs2) = Len(fs) - 1
         \/ /\ OneMore(Service, "senders") /\ Len(fs2) = Len(fs) + 1
            /\ \/ SameAwake(Service, "receivers") /\ Len(qs2) = Len(qs)
               \/ AtMostOneLess(Service, "receivers") /\ Len(qs2) = Len(qs) - 1,
         UNCHANGED flag, timed' \subseteq Thread, received' \in Message \cup {NoMessage}
  PROVE  IInv'
<1>1. Len(fs) \in Nat /\ Len(qs) \in Nat
  BY ChainCounts
<1>2. ASSUME NEW l \in List, NEW n \in Nat, Served(Service, l, n), SameAwake(Service, l)
      PROVE  ServedNext(Service, l, n)
  <2>1. n <= n
    BY <1>2
  <2>2. QED
    BY <1>2, <2>1, ServedKept
<1>3. ASSUME NEW l \in List, NEW n \in Nat, Served(Service, l, n), AtMostOneLess(Service, l)
      PROVE  ServedNext(Service, l, n - 1)
  BY <1>3, ServedFewer
<1>4. ASSUME NEW l \in List, NEW n \in Nat, Served(Service, l, n), OneMore(Service, l)
      PROVE  ServedNext(Service, l, n + 1)
  BY <1>4, ServedMore
<1>5. ServedNext(Service, "receivers", Len(qs2)) /\ ServedNext(Service, "senders", Len(fs2))
  BY <1>1, <1>2, <1>3, <1>4, ServiceLists DEF AllServed
<1>6. QED
  BY <1>5, Assemble

(* A thread links its block and wakes a receiver. *)
LEMMA LinkStep ==
  ASSUME IInv, NEW t \in Thread, Link(t)
  PROVE  IInv'
<1>1. PICK p : p \in {"link", "link_urgent"} /\ At(t, p)
  BY DEF Link
<1>2. /\ \/ pc[t] = "link" /\ LinkTail(held[t])
         \/ pc[t] = "link_urgent" /\ LinkHead(held[t])
      /\ WakeFirst(t, "receivers")
      /\ held' = [held EXCEPT ![t] = NULL]
      /\ buffer' = [buffer EXCEPT ![t] = NoMessage]
      /\ timed' = timed \ {t}
      /\ UNCHANGED <<free, data, flag, received>>
  BY DEF Link, At, Leave
<1>3. /\ TypeOK /\ Steady(Service)
      /\ held \in [Thread -> Block \cup {NULL}]
      /\ buffer \in [Thread -> Message \cup {NoMessage}]
      /\ received' \in Message \cup {NoMessage} /\ timed' \subseteq Thread
  BY <1>2, Current DEF TypeOK
<1>4. PICK fs, qs : BlocksAre(fs, qs) /\ AllServed(fs, qs)
  BY Current
<1>5. /\ Steady(Service)' /\ Shrunk
      /\ Moved(t, Run) \/ Moved(t, "sched")
      /\ OneMore(Service, "receivers") /\ SameAwake(Service, "senders")
  <2>1. p \in SettledPoints(Service) /\ p \notin Way(Service, "receivers")
        /\ p \notin Way(Service, "senders")
    BY <1>1, ServiceFields DEF Run
  <2>2. /\ Steady(Service)' /\ Shrunk
        /\ Moved(t, Run) \/ Moved(t, "sched")
        /\ OneMore(Service, "receivers")
        /\ \A l \in List \ {"receivers"} : AllBut(Service, l, t)
    BY <1>1, <1>2, <1>3, <2>1, ServiceLists, WakeFirstStep
  <2>3. t \notin Awake(Way(Service, "senders"))
    BY <1>1, <2>1 DEF Awake, At
  <2>4. QED
    BY <2>2, <2>3, ServiceFields DEF AllBut, SameAwake
<1>6. OthersSame(t) /\ pc'[t] \in {Run, "sched"}
  BY <1>2, <1>3, <1>5 DEF OthersSame, Moved
<1>7. PICK qs2 : BlocksAre(fs, qs2)' /\ Len(qs2) = Len(qs) + 1
  BY <1>2, <1>4, <1>6, LinkBlock
<1>8. QED
  BY <1>2, <1>3, <1>4, <1>5, <1>7, OneMoreServed

(* A thread frees the block that it has copied and wakes a sender. *)
LEMMA PutBackStep ==
  ASSUME IInv, NEW t \in Thread, PutBack(t)
  PROVE  IInv'
<1>1. /\ At(t, "copy") /\ pc[t] = "copy" /\ PutFree(held[t]) /\ WakeFirst(t, "senders")
      /\ held' = [held EXCEPT ![t] = NULL]
      /\ buffer' = [buffer EXCEPT ![t] = NoMessage]
      /\ timed' = timed \ {t}
      /\ UNCHANGED <<head, tail, data, entry, flag, received>>
  BY DEF PutBack, At, Leave
<1>3. /\ TypeOK /\ Steady(Service)
      /\ held \in [Thread -> Block \cup {NULL}]
      /\ buffer \in [Thread -> Message \cup {NoMessage}]
      /\ received' \in Message \cup {NoMessage} /\ timed' \subseteq Thread
  BY <1>1, Current DEF TypeOK
<1>4. PICK fs, qs : BlocksAre(fs, qs) /\ AllServed(fs, qs)
  BY Current
<1>5. /\ Steady(Service)' /\ Shrunk
      /\ Moved(t, Run) \/ Moved(t, "sched")
      /\ OneMore(Service, "senders") /\ SameAwake(Service, "receivers")
  <2>1. "copy" \in SettledPoints(Service) /\ "copy" \notin Way(Service, "receivers")
        /\ "copy" \notin Way(Service, "senders")
    BY ServiceFields DEF Run
  <2>2. /\ Steady(Service)' /\ Shrunk
        /\ Moved(t, Run) \/ Moved(t, "sched")
        /\ OneMore(Service, "senders")
        /\ \A l \in List \ {"senders"} : AllBut(Service, l, t)
    BY <1>1, <1>3, <2>1, ServiceLists, WakeFirstStep
  <2>3. t \notin Awake(Way(Service, "receivers"))
    BY <1>1, <2>1 DEF Awake
  <2>4. QED
    BY <2>2, <2>3, ServiceFields DEF AllBut, SameAwake
<1>6. OthersSame(t) /\ pc'[t] \in {Run, "sched"}
  BY <1>1, <1>3, <1>5 DEF OthersSame, Moved
<1>7. PICK fs2 : BlocksAre(fs2, qs)' /\ Len(fs2) = Len(fs) + 1
  BY <1>1, <1>4, <1>6, FreeBlock
<1>8. QED
  BY <1>1, <1>3, <1>4, <1>5, <1>7, OneMoreServed

(* An interrupt handler sends; its rt_schedule is over at the end. *)
LEMMA IsrSendStep ==
  ASSUME IInv, NEW m \in Message, IsrSend(m)
  PROVE  IInv'
<1>1. /\ IsrWakeFirst("receivers") /\ UNCHANGED <<pc, flag, held, buffer, timed, received>>
  BY DEF IsrSend, args
<1>2. /\ TypeOK /\ Steady(Service)
      /\ received' \in Message \cup {NoMessage} /\ timed' \subseteq Thread
  BY <1>1, Current DEF TypeOK
<1>3. PICK fs, qs : BlocksAre(fs, qs) /\ AllServed(fs, qs)
  BY Current
<1>4. /\ Steady(Service)' /\ Shrunk /\ OneMore(Service, "receivers")
      /\ AtMostOneLess(Service, "senders")
  <2>1. /\ Steady(Service)' /\ Shrunk /\ OneMore(Service, "receivers")
        /\ \A l \in List \ {"receivers"} : SameAwake(Service, l)
    BY <1>1, <1>2, ServiceLists, IsrWakeFirstStep
  <2>2. QED
    BY <2>1, ServiceFields DEF AtMostOneLess
<1>5. PICK qs2 : BlocksAre(Tail(fs), qs2)' /\ Len(qs2) = Len(qs) + 1
  BY <1>3, IsrSendBlock
<1>6. Len(Tail(fs)) = Len(fs) - 1
  BY <1>3, IsrSendBlock
<1>7. QED
  BY <1>1, <1>2, <1>3, <1>4, <1>5, <1>6, OneMoreServed

(* An interrupt handler receives. *)
LEMMA IsrRecvStep ==
  ASSUME IInv, IsrRecv
  PROVE  IInv'
<1>1. /\ IsrWakeFirst("senders") /\ UNCHANGED <<pc, data, flag, held, buffer, timed>>
  BY DEF IsrRecv
<1>2. TypeOK /\ Steady(Service) /\ timed' \subseteq Thread
  BY <1>1, Current DEF TypeOK
<1>3. PICK fs, qs : BlocksAre(fs, qs) /\ AllServed(fs, qs)
  BY Current
<1>4. /\ Steady(Service)' /\ Shrunk /\ OneMore(Service, "senders")
      /\ AtMostOneLess(Service, "receivers")
  <2>1. /\ Steady(Service)' /\ Shrunk /\ OneMore(Service, "senders")
        /\ \A l \in List \ {"senders"} : SameAwake(Service, l)
    BY <1>1, <1>2, ServiceLists, IsrWakeFirstStep
  <2>2. QED
    BY <2>1, ServiceFields DEF AtMostOneLess
<1>5. PICK fs2 : BlocksAre(fs2, Tail(qs))' /\ Len(fs2) = Len(fs) + 1
  BY <1>3, IsrRecvBlock
<1>6. Len(Tail(qs)) = Len(qs) - 1 /\ received' \in Message \cup {NoMessage}
  BY <1>3, IsrRecvBlock
<1>7. QED
  BY <1>1, <1>2, <1>3, <1>4, <1>5, <1>6, OneMoreServed

(* A thread that runs takes the first message. *)
LEMMA RecvStep ==
  ASSUME IInv, NEW t \in Thread, Recv(t)
  PROVE  IInv'
<1>1. PICK p : p \in {Run, "receiving"} /\ At(t, p)
  BY DEF Recv
<1>2. /\ UnlinkHead /\ Goto(t, "copy")
      /\ held' = [held EXCEPT ![t] = head] /\ buffer' = [buffer EXCEPT ![t] = data[head]]
      /\ timed' = timed \ {t} /\ UNCHANGED <<kern, flag, data, free, next>>
  BY DEF Recv, Unlink
<1>3. /\ TypeOK /\ Steady(Service) /\ timed' \subseteq Thread
      /\ held \in [Thread -> Block \cup {NULL}]
      /\ buffer \in [Thread -> Message \cup {NoMessage}]
      /\ pc \in [Thread -> CallPoints(Service)] /\ pc[t] = p
  BY <1>1, <1>2, Current DEF TypeOK, Steady, At
<1>4. PICK fs, qs : BlocksAre(fs, qs) /\ AllServed(fs, qs)
  BY Current
<1>5. OthersSame(t) /\ pc'[t] = "copy" /\ pc[t] \notin Holding
  BY <1>1, <1>2, <1>3 DEF OthersSame, Goto, Holding, Run
<1>6. PICK qs2 : /\ BlocksAre(fs, qs2)' /\ Len(qs2) = Len(qs) - 1
                 /\ received' \in Message \cup {NoMessage}
  <2>1. /\ BlocksAre(fs, Tail(qs))' /\ Len(Tail(qs)) = Len(qs) - 1
        /\ received' \in Message \cup {NoMessage}
    BY <1>2, <1>4, <1>5, UnlinkBlock
  <2>2. QED
    BY <2>1, Zenon
<1>7. Len(fs) \in Nat /\ Len(qs) \in Nat /\ Len(qs) # 0
  <2>1. entry > 0
    BY <1>2 DEF UnlinkHead
  <2>2. QED
    BY <1>4, <2>1, ChainCounts
<1>8. /\ Len(qs2) \in 0 .. Len(qs) /\ Len(qs2) # Len(qs)
      /\ Len(fs) \in 0 .. Len(fs)
  BY <1>6, <1>7
<1>9. /\ p \in CallPoints(Service) \ LeavePoints(Service) /\ p \in SettledPoints(Service)
      /\ "copy" \in CallPoints(Service) \ LeavePoints(Service) /\ p # "sending"
  BY <1>1, ServiceFields DEF Run
<1>10. QED
  BY <1>1, <1>2, <1>3, <1>4, <1>6, <1>8, <1>9, GoOn

(* what a thread at p waits for in list l, leaving at q, is not there *)
NothingFor(t, p, l, q) ==
  \/ /\ l = "senders" /\ q = "send" /\ p # "receiving"
     /\ free = NULL /\ buffer'[t] \in Message
  \/ l = "receivers" /\ q = "recv" /\ p # "sending" /\ entry = 0

(* nobody else's buffer changes *)
OwnBuffer(t) ==
  /\ buffer' \in [Thread -> Message \cup {NoMessage}]
  /\ \A u \in Thread \ {t} : buffer'[u] = buffer[u]

(* A thread that runs waits in list l, since nothing is there for it. *)
LEMMA WaitsStep ==
  ASSUME IInv, NEW t \in Thread \ {Idle}, NEW p \in {Run, "sending", "receiving"}, At(t, p),
         NEW l, NEW q, NothingFor(t, p, l, q),
         NEW timed0 \in BOOLEAN, WaitIn(t, l, flag, timed0, q),
         OwnBuffer(t),
         timed' \subseteq Thread, UNCHANGED <<queue, flag, held, received>>
  PROVE  IInv'
<1>1. /\ TypeOK /\ Steady(Service)
      /\ pc \in [Thread -> CallPoints(Service)] /\ pc[t] = p
      /\ received' \in Message \cup {NoMessage}
  BY Current DEF TypeOK, Steady, At
<1>2. PICK fs, qs : BlocksAre(fs, qs) /\ AllServed(fs, qs)
  BY Current
<1>3. l \in List /\ p \notin LeavePoints(Service) /\ WaitPoint(Service, q, l)
  BY ServiceFields DEF Run, WaitPoint, NothingFor
<1>4. /\ Steady(Service)' /\ Moved(t, q)
      /\ Enters(t, l) /\ \A k \in List : AllBut(Service, k, t)
  BY <1>1, <1>3, ServiceLists, WaitStep
<1>5. BlocksAre(fs, qs)'
  <2>1. ASSUME NEW u \in Thread PROVE Bystander(u)
    <3>1. CASE u = t
      BY <1>1, <1>4, <3>1 DEF Bystander, Moved, Holding, Run, NothingFor
    <3>2. CASE u # t
      BY <1>1, <1>4, <3>2 DEF Bystander, Moved, OwnBuffer
    <3>3. QED
      BY <3>1, <3>2
  <2>2. buffer' \in [Thread -> Message \cup {NoMessage}]
    BY DEF OwnBuffer
  <2>3. QED
    BY <1>2, <2>1, <2>2, QuietBlocks
<1>6. CASE l = "senders"
  <2>1. Len(fs) = 0
    BY <1>2, <1>6, ChainCounts DEF NothingFor
  <2>2. ServedNext(Service, "senders", 0)
    BY ServiceLists, ServedNone
  <2>3. t \notin Awake(Way(Service, "receivers"))
    BY <1>1, <1>6, ServiceFields DEF Awake, Run, NothingFor
  <2>4. ServedNext(Service, "receivers", Len(qs))
    <3>1. "receivers" \in List \ {l} /\ "receivers" \in List
      BY <1>6, ServiceFields
    <3>2. kern'.list["receivers"] = kern.list["receivers"]
      BY <1>4, <3>1 DEF Enters
    <3>3. Awake(Way(Service, "receivers"))' = Awake(Way(Service, "receivers"))
      BY <1>4, <2>3, <3>1 DEF AllBut
    <3>4. QED
      BY <1>2, <3>2, <3>3 DEF AllServed, Served, ServedNext
  <2>5. QED
    BY <1>1, <1>4, <1>5, <2>1, <2>2, <2>4, Assemble
<1>7. CASE l = "receivers"
  <2>1. Len(qs) = 0
    BY <1>2, <1>7, ChainCounts DEF NothingFor
  <2>2. ServedNext(Service, "receivers", 0)
    BY ServiceLists, ServedNone
  <2>3. t \notin Awake(Way(Service, "senders"))
    BY <1>1, <1>7, ServiceFields DEF Awake, Run, NothingFor
  <2>4. ServedNext(Service, "senders", Len(fs))
    <3>1. "senders" \in List \ {l} /\ "senders" \in List
      BY <1>7, ServiceFields
    <3>2. kern'.list["senders"] = kern.list["senders"]
      BY <1>4, <3>1 DEF Enters
    <3>3. Awake(Way(Service, "senders"))' = Awake(Way(Service, "senders"))
      BY <1>4, <2>3, <3>1 DEF AllBut
    <3>4. QED
      BY <1>2, <3>2, <3>3 DEF AllServed, Served, ServedNext
  <2>5. QED
    BY <1>1, <1>4, <1>5, <2>1, <2>2, <2>4, Assemble
<1>8. QED
  BY <1>6, <1>7 DEF NothingFor

(* A thread that runs goes on without a block: it owes nobody a wakeup,     *)
(* since it was not resumed with RT_EOK or finds nothing.                   *)
LEMMA ReturnStep ==
  ASSUME IInv, NEW t \in Thread,
         NEW p \in {Run, "sending", "receiving", "reset"}, At(t, p),
         NEW q \in {Run, "reset", "reset_senders"}, Goto(t, q),
         q = Run => p # "reset",
         kern' = kern \/ \E e \in Error : kern' = SetError(kern, t, e),
         p = "sending" => kern.error[t] # "RT_EOK" \/ free = NULL,
         p = "receiving" => kern.error[t] # "RT_EOK" \/ entry = 0,
         \/ UNCHANGED <<held, buffer>>
         \/ /\ held' = [held EXCEPT ![t] = NULL]
            /\ buffer' = [buffer EXCEPT ![t] = NoMessage],
         timed' \subseteq Thread, UNCHANGED <<queue, flag, received>>
  PROVE  IInv'
<1>1. /\ TypeOK /\ Steady(Service)
      /\ buffer \in [Thread -> Message \cup {NoMessage}]
      /\ held \in [Thread -> Block \cup {NULL}]
      /\ pc \in [Thread -> CallPoints(Service)] /\ pc[t] = p
      /\ received' \in Message \cup {NoMessage}
  BY Current DEF TypeOK, Steady, At
<1>2. PICK fs, qs : BlocksAre(fs, qs) /\ AllServed(fs, qs)
  BY Current
<1>3. held' = held
  <2>1. pc[t] \notin Holding
    BY <1>1 DEF Holding, Run
  <2>2. held[t] = NULL
    BY <1>2, <2>1 DEF BlocksAre, HandsOK, HandOK
  <2>3. QED
    BY <1>1, <2>2
<1>4. BlocksAre(fs, qs)'
  <2>1. ASSUME NEW u \in Thread PROVE Bystander(u)
    <3>1. CASE u = t
      BY <1>1, <3>1 DEF Bystander, Goto, Holding, Run
    <3>2. CASE u # t
      BY <1>1, <3>2 DEF Bystander, Goto
    <3>3. QED
      BY <3>1, <3>2
  <2>2. buffer' \in [Thread -> Message \cup {NoMessage}]
    BY <1>1
  <2>3. QED
    BY <1>2, <1>3, <2>1, <2>2, QuietBlocks
<1>5. Len(fs) \in 0 .. Len(fs) /\ Len(qs) \in 0 .. Len(qs)
      /\ (free = NULL => Len(fs) = 0) /\ (entry = 0 => Len(qs) = 0)
  BY <1>2, ChainCounts
<1>6. /\ p \in CallPoints(Service) \ LeavePoints(Service)
      /\ q \in CallPoints(Service) \ LeavePoints(Service)
      /\ q \in SettledPoints(Service) => p \in SettledPoints(Service)
      /\ q \notin {"sending", "receiving"}
  BY ServiceFields DEF Run
<1>7. QED
  BY <1>1, <1>2, <1>4, <1>5, <1>6, GoOn

(* The steps that change nothing but the kernel data, and the point of a    *)
(* thread that waits *)
LEMMA QuietStep ==
  ASSUME IInv, Steady(Service)', Shrunk,
         \A l \in List : SameAwake(Service, l),
         \A x \in Thread : \/ pc'[x] = pc[x]
                           \/ /\ pc[x] \notin Holding /\ pc'[x] \notin Holding
                              /\ pc'[x] \in {"send", "sending"} => pc[x] \in {"send", "sending"},
         UNCHANGED <<queue, args>>
  PROVE  IInv'
<1>1. /\ TypeOK /\ Steady(Service)
      /\ UNCHANGED <<flag, held, buffer, timed, received>>
      /\ received' \in Message \cup {NoMessage} /\ timed' \subseteq Thread
      /\ buffer' \in [Thread -> Message \cup {NoMessage}]
  BY Current DEF TypeOK, args
<1>2. PICK fs, qs : BlocksAre(fs, qs) /\ AllServed(fs, qs)
  BY Current
<1>3. BlocksAre(fs, qs)'
  <2>1. ASSUME NEW u \in Thread PROVE Bystander(u)
    BY <1>1, <1>2 DEF Bystander, BlocksAre, HandsOK, HandOK
  <2>2. QED
    BY <1>1, <1>2, <2>1, QuietBlocks
<1>4. Len(fs) \in Nat /\ Len(qs) \in Nat /\ Len(fs) <= Len(fs) /\ Len(qs) <= Len(qs)
  BY <1>2, ChainCounts
<1>5. ServedNext(Service, "receivers", Len(qs)) /\ ServedNext(Service, "senders", Len(fs))
  BY <1>2, <1>4, ServiceLists, ServedKept DEF AllServed
<1>6. QED
  BY <1>1, <1>3, <1>5, Assemble

(* rt_schedule at the end of a call, or of a wait *)
LEMMA ScheduleStep ==
  ASSUME IInv, NEW t \in Thread, SendSchedule(t) \/ RecvSchedule(t) \/ Schedule(t)
  PROVE  IInv'
<1> SUFFICES ASSUME NEW p, NEW q,
                    <<p, q>> \in {<<"send", "sending">>, <<"recv", "receiving">>,
                                  <<"sched", Run>>},
                    Reschedule(t, p, q), UNCHANGED <<queue, args>>
             PROVE  IInv'
  BY DEF SendSchedule, RecvSchedule, Schedule
<1>0. Steady(Service)
  BY Current
<1>1. q \in CallPoints(Service) /\ \A l \in List : p \in Way(Service, l) <=> q \in Way(Service, l)
  BY ServiceFields, MessageQueueAssumption DEF Run
<1>2. /\ Steady(Service)' /\ Moved(t, q) /\ kern'.list = kern.list
      /\ \A l \in List : SameAwake(Service, l)
  BY <1>0, <1>1, ServiceFields, RescheduleStep
<1>3. Shrunk
  BY <1>2 DEF Shrunk
<1>4. ASSUME NEW x \in Thread
      PROVE  \/ pc'[x] = pc[x]
             \/ /\ pc[x] \notin Holding /\ pc'[x] \notin Holding
                /\ pc'[x] \in {"send", "sending"} => pc[x] \in {"send", "sending"}
  BY <1>2 DEF Moved, Reschedule, At, Run, Holding
<1>5. QED
  BY <1>2, <1>3, <1>4, QuietStep

(* the tick interrupt *)
LEMMA QueueTick ==
  ASSUME IInv, Tick
  PROVE  IInv'
<1>0. Steady(Service)
  BY Current
<1>1. /\ Steady(Service)' /\ UNCHANGED pc /\ Shrunk
      /\ \A l \in List : SameAwake(Service, l)
  BY <1>0, ServiceFields, TickStep DEF Tick
<1>2. QED
  BY <1>1, QuietStep DEF Tick

(* A reset resumes the first receiver, and later the first sender. *)
LEMMA ResetWakesStep ==
  ASSUME IInv, NEW t \in Thread,
         \/ At(t, "reset") /\ kern' = ResumeWithError(kern, "receivers")
              /\ kern.list["receivers"] # <<>>
         \/ At(t, "reset_senders") /\ kern' = ResumeWithError(kern, "senders")
              /\ kern.list["senders"] # <<>>,
         UNCHANGED <<pc, queue, args>>
  PROVE  IInv'
<1>1. "reset" \notin LeavePoints(Service) \cup SettledPoints(Service)
      /\ "reset_senders" \notin LeavePoints(Service) \cup SettledPoints(Service)
      /\ Steady(Service)
  BY ServiceFields, Current DEF Run
<1>2. /\ Steady(Service)' /\ Shrunk
      /\ \A l \in List : SameAwake(Service, l)
  BY <1>1, ServiceFields, ResetStep
<1>3. QED
  BY <1>2, QuietStep

(* A reset ends with an empty queue and nobody in the list of senders. *)
LEMMA ResetEndStep ==
  ASSUME IInv, NEW t \in Thread, ResetEnd(t)
  PROVE  IInv'
<1>1. /\ At(t, "reset_senders") /\ kern.list["senders"] = <<>>
      /\ free' = Drained.free /\ next' = Drained.next
      /\ head' = NULL /\ tail' = NULL /\ entry' = 0
      /\ Goto(t, "sched")
      /\ UNCHANGED <<kern, data, flag, held, buffer, timed, received>>
  BY DEF ResetEnd, args
<1>2. /\ TypeOK /\ Steady(Service)
      /\ pc \in [Thread -> CallPoints(Service)] /\ pc[t] = "reset_senders"
      /\ received' \in Message \cup {NoMessage} /\ timed' \subseteq Thread
  BY <1>1, Current DEF TypeOK, Steady, At
<1>3. PICK fs, qs : BlocksAre(fs, qs) /\ AllServed(fs, qs)
  BY Current
<1>4. Steady(Service)' /\ Moved(t, "sched") /\ kern'.list = kern.list
  <2>1. /\ "reset_senders" \notin LeavePoints(Service)
        /\ "sched" \in CallPoints(Service) \ LeavePoints(Service)
        /\ "sched" \notin SettledPoints(Service)
        /\ \A l \in List : "sched" \notin Way(Service, l)
        /\ "RT_EOK" \in Error
    BY ServiceFields, MessageQueueAssumption DEF Run, Error
  <2>2. QED
    BY <1>1, <1>2, <2>1, ServiceFields, GoStep
<1>5. PICK fs2 : BlocksAre(fs2, <<>>)'
  <2>1. ASSUME NEW u \in Thread PROVE Bystander(u)
    BY <1>1, <1>2, <1>4 DEF Bystander, Moved, Holding
  <2>2. QED
    BY <1>1, <1>3, <2>1, DrainBlocks
<1>6. ServedNext(Service, "receivers", Len(<<>>)) /\ ServedNext(Service, "senders", Len(fs2))
  <2>1. Len(<<>>) = 0
    OBVIOUS
  <2>2. QED
    BY <1>1, <1>4, <2>1, ServiceLists, ServedNone DEF ServedNext
<1>7. QED
  BY <1>1, <1>2, <1>4, <1>5, <1>6, Assemble

(* The free list holds every block when the scheduler has started. *)
LEMMA InitBlocks ==
  ASSUME Init
  PROVE  \E fs : BlocksAre(fs, <<>>)
<1> DEFINE s == SetToSeq(Block)
           n == Len(s)
           at(c) == CHOOSE i \in DOMAIN s : s[i] = c
           fs == [i \in 1 .. n |-> s[n - i + 1]]
<1>1. /\ s \in Seq(Block) /\ IsInjective(s) /\ ToSet(s) = Block
  BY SetToSeqLemma, MessageQueueAssumption
<1>2. /\ free = Last(s)
      /\ next = [b \in Block |-> IF at(b) = 1 THEN NULL ELSE s[at(b) - 1]]
      /\ head = NULL /\ tail = NULL /\ entry = 0
      /\ data = [b \in Block |-> NoMessage]
      /\ held = [t \in Thread |-> NULL] /\ buffer = [t \in Thread |-> NoMessage]
      /\ pc = [t \in Thread |-> Run]
  BY DEF Init, CpuInit
<1> HIDE DEF s
<1>3. /\ n \in Nat /\ DOMAIN s = 1 .. n
      /\ \A i \in 1 .. n : s[i] \in Block
      /\ \A i, j \in 1 .. n : s[i] = s[j] => i = j
      /\ \A b \in Block : \E i \in 1 .. n : s[i] = b
  BY <1>1, LenProperties, ElementOfSeq DEF IsInjective, ToSet
<1>4. ASSUME NEW i \in 1 .. n PROVE at(s[i]) = i
  BY <1>3
<1>5. ASSUME NEW b \in Block PROVE at(b) \in 1 .. n /\ s[at(b)] = b
  BY <1>3
<1>6. n # 0
  BY <1>3, MessageQueueAssumption
<1>7. /\ \A i \in 1 .. n : next[s[i]] = IF i = 1 THEN NULL ELSE s[i - 1]
      /\ next \in Pointers
  <2>1. ASSUME NEW i \in 1 .. n PROVE next[s[i]] = IF i = 1 THEN NULL ELSE s[i - 1]
    BY <1>2, <1>3, <1>4
  <2> HIDE DEF at
  <2>2. ASSUME NEW b \in Block
        PROVE  (IF at(b) = 1 THEN NULL ELSE s[at(b) - 1]) \in Block \cup {NULL}
    BY <1>3, <1>5
  <2>3. QED
    BY <1>2, <2>1, <2>2 DEF Pointers
<1> HIDE DEF n, at
<1>8. /\ fs \in Seq(Block) /\ Len(fs) = n /\ DOMAIN fs = 1 .. n
      /\ \A i \in 1 .. n : fs[i] = s[n - i + 1] /\ n - i + 1 \in 1 .. n
  <2>1. \A i \in 1 .. n : n - i + 1 \in 1 .. n
    BY <1>3
  <2>2. \A i \in 1 .. n : s[n - i + 1] \in Block
    BY <1>3, <2>1
  <2>3. QED
    BY <1>3, <2>1, <2>2
<1> HIDE DEF fs
<1>9. IsInjective(fs)
  <2>1. ASSUME NEW i \in 1 .. n, NEW j \in 1 .. n, fs[i] = fs[j] PROVE i = j
    <3>1. n - i + 1 = n - j + 1
      BY <1>3, <1>8, <2>1
    <3>2. QED
      BY <1>3, <3>1
  <2>2. QED
    BY <1>8, <2>1 DEF IsInjective
<1>10. ToSet(fs) = Block
  <2>1. ASSUME NEW b \in Block PROVE b \in ToSet(fs)
    <3>1. PICK i \in 1 .. n : s[i] = b
      BY <1>3
    <3>2. PICK j \in 1 .. n : n - j + 1 = i
      <4>1. n - i + 1 \in 1 .. n /\ n - (n - i + 1) + 1 = i
        BY <1>3, <3>1
      <4>2. QED
        BY <4>1
    <3>3. QED
      BY <1>8, <3>1, <3>2 DEF ToSet
  <2>2. ToSet(fs) \subseteq Block
    BY <1>8, ToSetType
  <2>3. QED
    BY <2>1, <2>2
<1>11. IsChain(next, free, fs)
  <2>1. free = fs[1] /\ next[fs[n]] = NULL
    <3>1. 1 \in 1 .. n /\ n \in 1 .. n /\ n - 1 + 1 = n /\ n - n + 1 = 1
      BY <1>3, <1>6
    <3>2. fs[1] = s[n] /\ fs[n] = s[1]
      BY <1>8, <3>1
    <3>3. free = s[n]
      BY <1>2 DEF Last, n
    <3>4. QED
      BY <1>7, <3>1, <3>2, <3>3
  <2>2. ASSUME NEW i \in 1 .. n - 1 PROVE next[fs[i]] = fs[i + 1]
    <3>1. /\ i \in 1 .. n /\ i + 1 \in 1 .. n /\ n - i + 1 \in 1 .. n /\ n - i + 1 # 1
          /\ (n - i + 1) - 1 = n - (i + 1) + 1
      BY <1>3, <2>2
    <3>2. fs[i] = s[n - i + 1] /\ fs[i + 1] = s[n - (i + 1) + 1]
      BY <1>8, <3>1
    <3>3. next[s[n - i + 1]] = s[(n - i + 1) - 1]
      BY <1>7, <3>1
    <3>4. QED
      BY <3>1, <3>2, <3>3
  <2>3. fs # <<>>
    BY <1>6, <1>8
  <2>4. QED
    BY <1>8, <1>9, <2>1, <2>2, <2>3 DEF IsChain, LeadsThrough
<1>12. IsChain(next, head, <<>>) /\ ToSet(<<>>) = {} /\ Len(<<>>) = 0
  <2>1. <<>> \in Seq(Block) /\ IsInjective(<<>>) /\ ToSet(<<>>) = {}
    BY DEF IsInjective, ToSet
  <2>2. QED
    BY <1>2, <2>1 DEF IsChain, LeadsThrough
<1>13. ChainsAre(fs, <<>>)
  BY <1>2, <1>10, <1>11, <1>12, MessageQueueAssumption DEF ChainsAre
<1>14. BlocksTyped /\ HandsOK
  BY <1>2, <1>7 DEF BlocksTyped, HandsOK, HandOK, Holding, Run
<1>15. QED
  BY <1>13, <1>14 DEF BlocksAre

(* The invariant holds once the scheduler has started. *)
LEMMA InitOK == Init => IInv
<1> SUFFICES ASSUME Init PROVE IInv
  OBVIOUS
<1>1. /\ Steady(Service)
      /\ kern.list["receivers"] = <<>> /\ kern.list["senders"] = <<>>
  BY SteadyInit, ServiceFields DEF Init
<1>2. PICK fs : BlocksAre(fs, <<>>)
  BY InitBlocks
<1>3. /\ free \in Block \cup {NULL} /\ BlocksTyped
  BY <1>2, ChainStart DEF BlocksAre, ChainsAre
<1>4. pc = [t \in Thread |-> Run] /\ entry = 0 /\ head = NULL /\ tail = NULL
  BY DEF Init, CpuInit
<1>5. 0 \in 0 .. Cardinality(Block)
  BY FS_CardinalityType, MessageQueueAssumption
<1>6. TypeOK
  BY <1>1, <1>3, <1>4, <1>5 DEF Init, TypeOK, Steady, KernelOK, Run, BlocksTyped, Pointers
<1>7. NoLostWakeup
  BY <1>1 DEF NoLostWakeup
<1>8. QED
  BY <1>1, <1>2, <1>6, <1>7 DEF IInv

(* the call of a thread *)
LEMMA CallOK ==
  ASSUME IInv, NEW t \in Thread \ {Idle}, Call(t)
  PROVE  IInv'
<1>0. t \in Thread /\ TypeOK
  BY DEF IInv
<1>1. ASSUME NEW m \in Message, Send(t, m, "fill") \/ Send(t, m, "fill_urgent") PROVE IInv'
  <2>1. PICK q \in {"fill", "fill_urgent"} : Send(t, m, q)
    BY <1>1
  <2>2. /\ At(t, Run) /\ UnlinkFree /\ Goto(t, q)
        /\ held' = [held EXCEPT ![t] = free] /\ buffer' = [buffer EXCEPT ![t] = m]
        /\ UNCHANGED <<kern, head, tail, next, data, entry, flag, received>>
        /\ timed' \subseteq Thread
    BY <1>0, <2>1 DEF Send, TypeOK
  <2>3. QED
    BY <1>0, <2>2, TakeStep
<1>2. ASSUME NEW m \in Message, NEW hasTimeout \in BOOLEAN, SendWait(t, m, hasTimeout)
      PROVE  IInv'
  <2>1. /\ At(t, Run) /\ free = NULL /\ WaitIn(t, "senders", flag, hasTimeout, "send")
        /\ buffer' = [buffer EXCEPT ![t] = m] /\ UNCHANGED <<queue, flag, held, received>>
        /\ timed' \subseteq Thread /\ buffer'[t] = m /\ Run # "receiving"
    BY <1>0, <1>2 DEF SendWait, TypeOK, Run
  <2>2. NothingFor(t, Run, "senders", "send")
    BY <2>1 DEF NothingFor
  <2>3. OwnBuffer(t) /\ Run \in {Run, "sending", "receiving"}
    BY <1>0, <2>1 DEF OwnBuffer, TypeOK
  <2>4. QED
    BY <2>1, <2>2, <2>3, WaitsStep
<1>3. ASSUME NEW hasTimeout \in BOOLEAN, RecvWait(t, hasTimeout)
      PROVE  IInv'
  <2>1. /\ At(t, Run) /\ entry = 0 /\ WaitIn(t, "receivers", flag, hasTimeout, "recv")
        /\ UNCHANGED <<queue, flag, held, received>> /\ Run # "sending"
        /\ timed' \subseteq Thread
    BY <1>0, <1>3 DEF RecvWait, TypeOK, Run
  <2>2. OwnBuffer(t)
    BY <1>0, <1>3 DEF RecvWait, TypeOK, OwnBuffer
  <2>3. NothingFor(t, Run, "receivers", "recv") /\ Run \in {Run, "sending", "receiving"}
    BY <2>1 DEF NothingFor
  <2>4. QED
    BY <2>1, <2>2, <2>3, WaitsStep
<1>4. CASE ResetBegin(t)
  <2>1. /\ At(t, Run) /\ Goto(t, "reset")
        /\ UNCHANGED <<kern, queue, flag, held, buffer, received>>
        /\ timed' \subseteq Thread
        /\ Run # "sending" /\ Run # "receiving" /\ "reset" # Run
    BY <1>0, <1>4 DEF ResetBegin, TypeOK, Run, args
  <2>2. QED
    BY <1>0, <2>1, ReturnStep
<1>5. QED
  BY <1>1, <1>2, <1>3, <1>4 DEF Call

(* what a thread does after it has waited or taken a block, and a reset *)
LEMMA ContinueOK ==
  ASSUME IInv, NEW t \in Thread \ {Idle}, Continue(t)
  PROVE  IInv'
<1>0. t \in Thread /\ TypeOK
  BY DEF IInv
<1>1. CASE SendSchedule(t) \/ RecvSchedule(t) \/ Schedule(t)
  BY <1>0, <1>1, ScheduleStep
<1>2. CASE SendFails(t) \/ RecvFails(t)
  <2>1. PICK p \in {"sending", "receiving"} : At(t, p)
    BY <1>2 DEF SendFails, RecvFails
  <2>2. /\ Goto(t, Run) /\ kern.error[t] # "RT_EOK" /\ UNCHANGED <<kern, queue, flag, received>>
        /\ held' = [held EXCEPT ![t] = NULL] /\ buffer' = [buffer EXCEPT ![t] = NoMessage]
        /\ timed' \subseteq Thread
    BY <1>0, <1>2 DEF SendFails, RecvFails, Leave, TypeOK
  <2>3. QED
    BY <1>0, <2>1, <2>2, ReturnStep
<1>3. CASE SendResumed(t)
  <2>1. /\ At(t, "sending") /\ UnlinkFree /\ Goto(t, "fill")
        /\ held' = [held EXCEPT ![t] = free]
        /\ UNCHANGED <<kern, head, tail, next, data, entry, flag, buffer, timed, received>>
    BY <1>3 DEF SendResumed
  <2>2. buffer[t] \in Message
    BY <1>0, <2>1 DEF IInv, BlocksAre, HandsOK, HandOK, At
  <2>3. buffer' = [buffer EXCEPT ![t] = buffer[t]] /\ timed' \subseteq Thread
    BY <1>0, <2>1 DEF TypeOK
  <2>4. QED
    BY <1>0, <2>1, <2>2, <2>3, TakeStep
<1>4. CASE SendAgain(t)
  <2>1. /\ At(t, "sending") /\ free = NULL /\ UNCHANGED <<queue, flag, received>>
        /\ timed' \subseteq Thread /\ (t \in timed) \in BOOLEAN
    BY <1>0, <1>4 DEF SendAgain, Leave, TypeOK
  <2>2. CASE /\ Goto(t, Run) /\ Leave(t)
             /\ kern' = [kern EXCEPT !.error[t] = "RT_EOK"]
    <3>1. /\ held' = [held EXCEPT ![t] = NULL] /\ buffer' = [buffer EXCEPT ![t] = NoMessage]
          /\ \E e \in Error : kern' = SetError(kern, t, e)
      BY <2>2 DEF Leave, SetError, Error
    <3>2. QED
      BY <1>0, <2>1, <2>2, <3>1, ReturnStep
  <2>3. CASE WaitIn(t, "senders", flag, t \in timed, "send") /\ UNCHANGED <<held, buffer, timed>>
    <3>1. buffer[t] \in Message
      BY <1>0, <2>1 DEF IInv, BlocksAre, HandsOK, HandOK, At
    <3>2. OwnBuffer(t) /\ buffer'[t] = buffer[t]
      BY <1>0, <2>3 DEF TypeOK, OwnBuffer
    <3>3. NothingFor(t, "sending", "senders", "send")
      BY <2>1, <3>1, <3>2 DEF NothingFor
    <3>4. "sending" \in {Run, "sending", "receiving"}
      OBVIOUS
    <3>5. QED
      BY <2>1, <2>3, <3>2, <3>3, <3>4, WaitsStep
  <2>4. QED
    BY <1>4, <2>2, <2>3 DEF SendAgain
<1>5. CASE Fill(t) \/ FillUrgent(t)
  BY <1>0, <1>5, FillStep
<1>6. CASE Link(t)
  BY <1>0, <1>6, LinkStep
<1>7. CASE Recv(t)
  BY <1>0, <1>7, RecvStep
<1>8. CASE PutBack(t)
  BY <1>0, <1>8, PutBackStep
<1>9. CASE RecvAgain(t)
  <2>1. /\ At(t, "receiving") /\ entry = 0 /\ UNCHANGED <<queue, flag, received>>
        /\ timed' \subseteq Thread /\ (t \in timed) \in BOOLEAN
    BY <1>0, <1>9 DEF RecvAgain, Leave, TypeOK
  <2>2. CASE /\ kern' = [kern EXCEPT !.error[t] = "RT_ETIMEOUT"]
             /\ Goto(t, Run) /\ Leave(t)
    <3>1. /\ held' = [held EXCEPT ![t] = NULL] /\ buffer' = [buffer EXCEPT ![t] = NoMessage]
          /\ \E e \in Error : kern' = SetError(kern, t, e)
      BY <2>2 DEF Leave, SetError, Error
    <3>2. QED
      BY <1>0, <2>1, <2>2, <3>1, ReturnStep
  <2>3. CASE WaitIn(t, "receivers", flag, t \in timed, "recv") /\ UNCHANGED <<held, buffer, timed>>
    <3>1. OwnBuffer(t)
      BY <1>0, <2>3 DEF TypeOK, OwnBuffer
    <3>2. NothingFor(t, "receiving", "receivers", "recv")
          /\ "receiving" \in {Run, "sending", "receiving"}
      BY <2>1 DEF NothingFor
    <3>3. QED
      BY <2>1, <2>3, <3>1, <3>2, WaitsStep
  <2>4. QED
    BY <1>9, <2>2, <2>3 DEF RecvAgain
<1>10. CASE ResetReceiver(t)
  <2>1. /\ At(t, "reset") /\ UNCHANGED <<queue, args>>
        /\ UNCHANGED <<flag, held, buffer, received>> /\ timed' \subseteq Thread
    BY <1>0, <1>10 DEF ResetReceiver, TypeOK, args
  <2>2. CASE kern.list["receivers"] # <<>>
    BY <1>0, <1>10, <2>1, <2>2, ResetWakesStep DEF ResetReceiver
  <2>3. CASE kern.list["receivers"] = <<>>
    <3>1. Goto(t, "reset_senders") /\ UNCHANGED kern /\ "reset_senders" # Run
      BY <1>10, <2>3 DEF ResetReceiver, Run
    <3>2. QED
      BY <1>0, <2>1, <3>1, ReturnStep
  <2>4. QED
    BY <2>2, <2>3
<1>11. CASE ResetSender(t)
  BY <1>0, <1>11, ResetWakesStep DEF ResetSender
<1>12. CASE ResetEnd(t)
  BY <1>0, <1>12, ResetEndStep
<1>13. QED
  BY <1>1, <1>2, <1>3, <1>4, <1>5, <1>6, <1>7, <1>8, <1>9, <1>10, <1>11, <1>12 DEF Continue

(* Every step keeps the invariant. *)
LEMMA NextOK == IInv /\ [Next]_vars => IInv'
<1> SUFFICES ASSUME IInv, [Next]_vars PROVE IInv'
  OBVIOUS
<1>1. ASSUME NEW t \in Thread \ {Idle}, Call(t) \/ Continue(t) PROVE IInv'
  BY <1>1, CallOK, ContinueOK
<1>2. ASSUME NEW m \in Message, IsrSend(m) PROVE IInv'
  BY <1>2, IsrSendStep
<1>3. CASE IsrRecv
  BY <1>3, IsrRecvStep
<1>4. CASE Tick
  BY <1>4, QueueTick
<1>5. CASE UNCHANGED vars
  <2>1. UNCHANGED <<kern, pc>> /\ UNCHANGED <<queue, args>>
    BY <1>5 DEF vars
  <2>2. /\ Steady(Service)' /\ Shrunk
        /\ \A l \in List : SameAwake(Service, l)
    BY <2>1, Current DEF Steady, ListedOnWay, MostUrgentRunsAt, Awake, Shrunk, SameAwake
  <2>3. QED
    BY <2>1, <2>2, QuietStep
<1>6. QED
  BY <1>1, <1>2, <1>3, <1>4, <1>5 DEF Next

(***************************************************************************)
(* The theorems                                                            *)
(***************************************************************************)
(* The inductive invariant, for any threads, messages and blocks *)
THEOREM Invariance == Spec => []IInv
<1>1. Init => IInv
  BY InitOK
<1>2. IInv /\ [Next]_vars => IInv'
  BY NextOK
<1>3. QED
  BY <1>1, <1>2, PTL DEF Spec

(* Every thread is in the list its state says, and no send or receive that  *)
(* resumed a more urgent thread goes on before it, not even into the copy   *)
(* that it does with interrupts enabled (rt_schedule, ipc.c).               *)
THEOREM KernelStaysConsistent == Spec => []KernelConsistent
<1>1. IInv => KernelConsistent
  BY ServiceFields DEF IInv, KernelConsistent, Steady
<1>2. QED
  BY <1>1, Invariance, PTL

(* Nobody waits for a message or for a free block while one is there and no *)
(* resumed thread is on its way to it (rt_mq_send_wait, rt_mq_recv).        *)
THEOREM WakeupsNeverLost == Spec => []NoLostWakeup
<1>1. IInv => NoLostWakeup
  BY DEF IInv
<1>2. QED
  BY <1>1, Invariance, PTL

(* The threads that hold a block are as many as the blocks that are held. *)
LEMMA HoldersCounted ==
  ASSUME held \in [Thread -> Block \cup {NULL}], HandsOK
  PROVE  Cardinality({held[t] : t \in Holders}) = Cardinality(Holders)
<1> DEFINE H == {held[t] : t \in Holders}
           f == [t \in Holders |-> held[t]]
<1>1. IsFiniteSet(Holders)
  <2>1. Holders \subseteq Thread
    BY DEF Holders
  <2>2. QED
    BY <2>1, KernelAssumption, FS_Subset
<1>2. f \in Bijection(Holders, H)
  <2>1. \A t, u \in Holders : f[t] = f[u] => t = u
    BY DEF Holders, HandsOK
  <2>2. f \in [Holders -> H] /\ \A h \in H : \E t \in Holders : f[t] = h
    OBVIOUS
  <2> HIDE DEF f, H
  <2>3. QED
    BY <2>1, <2>2 DEF Bijection, Injection, Surjection, IsInjective
<1>3. Cardinality(H) = Cardinality(Holders)
  BY <1>1, <1>2, FS_Bijection DEF ExistsBijection
<1>4. QED
  BY <1>3

(* Two chains without a common block are a sequence without repetition. *)
LEMMA Disjoint ==
  ASSUME NEW fs \in Seq(Block), NEW qs \in Seq(Block), IsInjective(fs), IsInjective(qs),
         ToSet(fs) \cap ToSet(qs) = {}
  PROVE  IsInjective(fs \o qs) /\ ToSet(fs \o qs) = ToSet(fs) \cup ToSet(qs)
<1> DEFINE r == fs \o qs
           n == Len(fs)
           m == Len(qs)
<1>1. /\ n \in Nat /\ m \in Nat /\ DOMAIN fs = 1 .. n /\ DOMAIN qs = 1 .. m
      /\ \A i \in 1 .. n : fs[i] \in ToSet(fs)
      /\ \A i \in 1 .. m : qs[i] \in ToSet(qs)
      /\ \A i, j \in 1 .. n : fs[i] = fs[j] => i = j
      /\ \A i, j \in 1 .. m : qs[i] = qs[j] => i = j
  BY LenProperties DEF IsInjective, ToSet
<1>2. /\ r \in Seq(Block) /\ Len(r) = n + m
      /\ \A i \in 1 .. n + m : r[i] = IF i <= n THEN fs[i] ELSE qs[i - n]
  BY <1>1
<1> HIDE DEF r, n, m
<1>3. DOMAIN r = 1 .. n + m
  BY <1>2, LenProperties
<1>4. ASSUME NEW i \in 1 .. n + m
      PROVE  /\ i <= n => i \in 1 .. n
             /\ ~ (i <= n) => i - n \in 1 .. m
  BY <1>1
<1>5. IsInjective(r)
  <2>1. ASSUME NEW i \in 1 .. n + m, NEW j \in 1 .. n + m, r[i] = r[j]
        PROVE  i = j
    <3>1. CASE i <= n /\ j <= n
      BY <1>1, <1>2, <1>4, <2>1, <3>1
    <3>2. CASE ~ (i <= n) /\ ~ (j <= n)
      <4>1. i - n \in 1 .. m /\ j - n \in 1 .. m /\ qs[i - n] = qs[j - n]
        BY <1>2, <1>4, <2>1, <3>2
      <4>2. i - n = j - n
        BY <1>1, <4>1
      <4>3. QED
        BY <1>1, <4>2
    <3>3. CASE i <= n /\ ~ (j <= n)
      BY <1>1, <1>2, <1>4, <2>1, <3>3
    <3>4. CASE ~ (i <= n) /\ j <= n
      BY <1>1, <1>2, <1>4, <2>1, <3>4
    <3>5. QED
      BY <3>1, <3>2, <3>3, <3>4
  <2>2. QED
    BY <1>3, <2>1 DEF IsInjective
<1>6. ToSet(r) = ToSet(fs) \cup ToSet(qs)
  <2>1. /\ ToSet(r) = {r[i] : i \in 1 .. n + m}
        /\ ToSet(fs) = {fs[i] : i \in 1 .. n} /\ ToSet(qs) = {qs[i] : i \in 1 .. m}
    BY <1>1, <1>3 DEF ToSet
  <2>2. ASSUME NEW x \in ToSet(r) PROVE x \in ToSet(fs) \cup ToSet(qs)
    BY <1>1, <1>2, <1>4, <2>1, <2>2
  <2>3. ASSUME NEW x \in ToSet(fs) PROVE x \in ToSet(r)
    <3>1. PICK i \in 1 .. n : x = fs[i]
      BY <2>1, <2>3
    <3>2. i \in 1 .. n + m /\ i <= n
      BY <1>1
    <3>3. r[i] = x
      BY <1>2, <3>1, <3>2
    <3>4. QED
      BY <2>1, <3>2, <3>3
  <2>4. ASSUME NEW x \in ToSet(qs) PROVE x \in ToSet(r)
    <3>1. PICK i \in 1 .. m : x = qs[i]
      BY <2>1, <2>4
    <3>2. i + n \in 1 .. n + m /\ ~ (i + n <= n) /\ (i + n) - n = i
      BY <1>1
    <3>3. r[i + n] = x
      BY <1>2, <3>1, <3>2
    <3>4. QED
      BY <2>1, <3>2, <3>3
  <2>5. QED
    BY <2>2, <2>3, <2>4
<1>7. QED
  BY <1>5, <1>6 DEF r

(* Every block of the pool is in exactly one place, and nobody writes one   *)
(* that another thread is copying or has filled (rt_mq_send_wait,           *)
(* rt_mq_urgent, rt_mq_recv, the reset of rt_mq_control).                   *)
THEOREM NoBlockIsLost == Spec => []BlocksConserved
<1>1. ASSUME IInv PROVE BlocksConserved
  <2>1. PICK fs, qs : BlocksAre(fs, qs)
    BY <1>1 DEF IInv
  <2>2. Chain(free) = fs /\ Chain(head) = qs
    BY <2>1, ChainCounts
  <2>3. BlocksTyped /\ HandsOK /\ ChainsAre(fs, qs)
    BY <2>1 DEF BlocksAre
  <2>4. /\ IsChain(next, free, fs) /\ IsChain(next, head, qs)
        /\ ToSet(fs) \cap ToSet(qs) = {} /\ entry = Len(qs)
        /\ tail = IF qs = <<>> THEN NULL ELSE Last(qs)
        /\ ToSet(fs) \subseteq Block /\ ToSet(qs) \subseteq Block
        /\ head = NULL <=> qs = <<>>
    BY <2>3, ChainStart DEF ChainsAre
  <2>5. IsInjective(fs \o qs) /\ ToSet(fs \o qs) = ToSet(fs) \cup ToSet(qs)
    BY <2>4, Disjoint DEF IsChain
  <2>6. ToSet(fs) \cup ToSet(qs) = Block \ {held[t] : t \in Holders}
    <3>1. ASSUME NEW b \in Block
          PROVE  b \in {held[t] : t \in Holders} <=> \E t \in Thread : held[t] = b
      BY MessageQueueAssumption DEF Holders
    <3>2. \A b \in Block : b \in ToSet(fs) \cup ToSet(qs) <=> \A t \in Thread : held[t] # b
      BY <2>3 DEF ChainsAre
    <3>3. QED
      BY <2>4, <3>1, <3>2
  <2>7. Cardinality({held[t] : t \in Holders}) = Cardinality(Holders)
    BY <2>3, HoldersCounted DEF BlocksTyped
  <2>8. \A t \in Thread : pc[t] \in {"link", "link_urgent", "copy"} => data[held[t]] = buffer[t]
    BY <2>3 DEF HandsOK, HandOK
  <2>9. /\ LET queued == Chain(head)
               linked == Chain(free) \o queued
           IN  /\ IsInjective(linked)
               /\ ToSet(linked) = Block \ {held[t] : t \in Holders}
               /\ entry = Len(queued)
               /\ tail = IF head = NULL THEN NULL ELSE Last(queued)
    BY <2>2, <2>4, <2>5, <2>6
  <2>10. QED
    BY <2>7, <2>8, <2>9 DEF BlocksConserved
<1>2. QED
  BY <1>1, Invariance, PTL

(***************************************************************************)
(* The bounded queue                                                       *)
(***************************************************************************)
(* the messages in a chain of blocks that hold d *)
Messages(s, d) == [i \in DOMAIN s |-> d[s[i]]]

Contents == [Block -> Message \cup {NoMessage}]

(* There are as many messages as blocks. *)
LEMMA MessagesTyped ==
  ASSUME NEW s \in Seq(Block), NEW d \in Contents
  PROVE  /\ Messages(s, d) \in Seq(Message \cup {NoMessage})
         /\ Len(Messages(s, d)) = Len(s) /\ Len(s) \in Nat
         /\ \A i \in 1 .. Len(s) : Messages(s, d)[i] = d[s[i]] /\ s[i] \in Block
<1>1. DOMAIN s = 1 .. Len(s) /\ Len(s) \in Nat /\ \A i \in 1 .. Len(s) : s[i] \in Block
  BY LenProperties, ElementOfSeq
<1>2. \A i \in 1 .. Len(s) : d[s[i]] \in Message \cup {NoMessage}
  BY <1>1 DEF Contents
<1>3. QED
  BY <1>1, <1>2 DEF Messages

(* The message of a block linked at the end is the last one, *)
LEMMA MessagesAppend ==
  ASSUME NEW s \in Seq(Block), NEW d \in Contents, NEW b \in Block
  PROVE  Messages(Append(s, b), d) = Append(Messages(s, d), d[b])
<1> DEFINE r == Append(s, b)
           u == Messages(r, d)
           v == Messages(s, d)
           a == Append(v, d[b])
           n == Len(s)
           M == Message \cup {NoMessage}
<1>1. r \in Seq(Block) /\ Len(r) = n + 1 /\ n \in Nat
      /\ \A i \in 1 .. n + 1 : r[i] = IF i = n + 1 THEN b ELSE s[i]
  BY MessagesTyped
<1> HIDE DEF r
<1>2. u \in Seq(M) /\ Len(u) = n + 1 /\ \A i \in 1 .. n + 1 : u[i] = d[r[i]]
  BY <1>1, MessagesTyped
<1>3. v \in Seq(M) /\ Len(v) = n /\ \A i \in 1 .. n : v[i] = d[s[i]]
  BY MessagesTyped
<1>4. d[b] \in M
  BY DEF Contents
<1> HIDE DEF u, v, M
<1>5. a \in Seq(M) /\ Len(a) = n + 1
      /\ \A i \in 1 .. n + 1 : a[i] = IF i = n + 1 THEN d[b] ELSE v[i]
  BY <1>3, <1>4
<1> HIDE DEF a, n
<1>6. ASSUME NEW i \in 1 .. n + 1 PROVE u[i] = a[i]
  <2>1. i # n + 1 => i \in 1 .. n
    BY <1>1
  <2>2. QED
    BY <1>1, <1>2, <1>3, <1>5, <2>1
<1>7. u = a
  BY <1>2, <1>5, <1>6, SeqEqual
<1>8. QED
  BY <1>7 DEF u, a, v, r

(* one linked at the front the first one, *)
LEMMA MessagesPrepend ==
  ASSUME NEW s \in Seq(Block), NEW d \in Contents, NEW b \in Block
  PROVE  Messages(<<b>> \o s, d) = <<d[b]>> \o Messages(s, d)
<1> DEFINE r == <<b>> \o s
           u == Messages(r, d)
           v == Messages(s, d)
           a == <<d[b]>> \o v
           n == Len(s)
           M == Message \cup {NoMessage}
<1>0. n \in Nat
  BY MessagesTyped
<1>1. r \in Seq(Block) /\ Len(r) = n + 1
      /\ \A i \in 1 .. n + 1 : r[i] = IF i = 1 THEN b ELSE s[i - 1]
  BY <1>0
<1> HIDE DEF r
<1>2. u \in Seq(M) /\ Len(u) = n + 1 /\ \A i \in 1 .. n + 1 : u[i] = d[r[i]]
  BY <1>1, MessagesTyped
<1>3. v \in Seq(M) /\ Len(v) = n /\ \A i \in 1 .. n : v[i] = d[s[i]]
  BY MessagesTyped
<1>4. d[b] \in M
  BY DEF Contents
<1> HIDE DEF u, v, M
<1>5. a \in Seq(M) /\ Len(a) = n + 1
      /\ \A i \in 1 .. n + 1 : a[i] = IF i = 1 THEN d[b] ELSE v[i - 1]
  BY <1>0, <1>3, <1>4
<1> HIDE DEF a, n
<1>6. ASSUME NEW i \in 1 .. n + 1 PROVE u[i] = a[i]
  <2>1. i # 1 => i - 1 \in 1 .. n
    BY <1>0
  <2>2. QED
    BY <1>1, <1>2, <1>3, <1>5, <2>1
<1>7. u = a
  BY <1>2, <1>5, <1>6, SeqEqual
<1>8. QED
  BY <1>7 DEF u, a, v, r

(* and the message of the block that is unlinked was the first. *)
LEMMA MessagesTail ==
  ASSUME NEW s \in Seq(Block), s # <<>>, NEW d \in Contents
  PROVE  /\ Messages(s, d) # <<>> /\ Head(Messages(s, d)) = d[Head(s)]
         /\ Messages(Tail(s), d) = Tail(Messages(s, d))
<1> DEFINE r == Tail(s)
           u == Messages(r, d)
           v == Messages(s, d)
           a == Tail(v)
           n == Len(s)
           M == Message \cup {NoMessage}
<1>1. /\ r \in Seq(Block) /\ Len(r) = n - 1 /\ n \in Nat \ {0} /\ Head(s) = s[1]
      /\ \A i \in 1 .. n - 1 : r[i] = s[i + 1]
  <2>1. /\ r \in Seq(Block) /\ Len(r) = Len(s) - 1
        /\ \A i \in 1 .. Len(r) : r[i] = s[i + 1]
    BY HeadTailProperties
  <2>2. Len(s) \in Nat \ {0} /\ Head(s) = s[1]
    BY MessagesTyped, EmptySeq
  <2>3. QED
    BY <2>1, <2>2
<1> HIDE DEF r
<1>2. u \in Seq(M) /\ Len(u) = n - 1 /\ \A i \in 1 .. n - 1 : u[i] = d[r[i]]
  BY <1>1, MessagesTyped
<1>3. v \in Seq(M) /\ Len(v) = n /\ \A i \in 1 .. n : v[i] = d[s[i]]
  BY MessagesTyped
<1> HIDE DEF u, v, M, n
<1>4. v # <<>> /\ Head(v) = v[1] /\ v[1] = d[s[1]]
  BY <1>1, <1>3
<1>5. a \in Seq(M) /\ Len(a) = n - 1 /\ \A i \in 1 .. n - 1 : a[i] = v[i + 1]
  <2>1. /\ a \in Seq(M) /\ Len(a) = Len(v) - 1
        /\ \A i \in 1 .. Len(a) : a[i] = v[i + 1]
    BY <1>3, <1>4, HeadTailProperties
  <2>2. QED
    BY <1>3, <2>1
<1> HIDE DEF a
<1>6. ASSUME NEW i \in 1 .. n - 1 PROVE u[i] = a[i]
  <2>1. i + 1 \in 1 .. n
    BY <1>1
  <2>2. QED
    BY <1>1, <1>2, <1>3, <1>5, <2>1
<1>7. u = a
  BY <1>2, <1>5, <1>6, SeqEqual
<1>8. QED
  BY <1>1, <1>4, <1>7 DEF u, a, v, r

(* What BoundedQueue sees, before and after a step *)
LEMMA QueueSeen ==
  ASSUME NEW fs, NEW qs
  PROVE  /\ BlocksAre(fs, qs) =>
              /\ (LET s == Chain(head) IN [i \in DOMAIN s |-> data[s[i]]]) = Messages(qs, data)
              /\ qs \in Seq(Block) /\ data \in Contents
         /\ BlocksAre(fs, qs)' =>
              /\ (LET s == Chain(head) IN [i \in DOMAIN s |-> data[s[i]]])' = Messages(qs, data')
              /\ qs \in Seq(Block) /\ Len(qs) <= Cardinality(Block) /\ data' \in Contents
<1>1. ASSUME BlocksAre(fs, qs)
      PROVE  /\ (LET s == Chain(head) IN [i \in DOMAIN s |-> data[s[i]]]) = Messages(qs, data)
             /\ qs \in Seq(Block) /\ data \in Contents
  <2>1. Chain(head) = qs
    BY <1>1, ChainCounts
  <2>2. QED
    BY <1>1, <2>1 DEF Messages, BlocksAre, BlocksTyped, ChainsAre, IsChain, Contents
<1>2. ASSUME BlocksAre(fs, qs)'
      PROVE  /\ (LET s == Chain(head) IN [i \in DOMAIN s |-> data[s[i]]])' = Messages(qs, data')
             /\ qs \in Seq(Block) /\ Len(qs) <= Cardinality(Block) /\ data' \in Contents
  <2>1. Chain(head)' = qs
    BY <1>2, ChainCounts
  <2>2. qs \in Seq(Block) /\ IsInjective(qs) /\ data' \in Contents
    BY <1>2 DEF BlocksAre, BlocksTyped, ChainsAre, IsChain, Contents
  <2>3. Len(qs) <= Cardinality(Block)
    BY <2>2, InjectiveLength
  <2>4. QED
    BY <2>1, <2>2, <2>3 DEF Messages
<1>3. QED
  BY <1>1, <1>2

(* A block with message m is linked: this is a send, or an urgent one. *)
LEMMA EnterRefines ==
  ASSUME NEW fs, NEW qs, BlocksAre(fs, qs), NEW fs2, NEW qs2, BlocksAre(fs2, qs2)',
         NEW b \in Block, qs2 = Append(qs, b) \/ qs2 = <<b>> \o qs,
         \A c \in ToSet(qs) : data'[c] = data[c], NEW m, m = data'[b],
         Len(qs2) = Len(qs) + 1, UNCHANGED received
  PROVE  Q!Send(m) \/ Q!Urgent(m)
<1>1. /\ (LET s == Chain(head) IN [i \in DOMAIN s |-> data[s[i]]]) = Messages(qs, data)
      /\ (LET s == Chain(head) IN [i \in DOMAIN s |-> data[s[i]]])' = Messages(qs2, data')
      /\ qs \in Seq(Block) /\ data \in Contents
      /\ data' \in Contents /\ Len(qs2) <= Cardinality(Block)
  BY QueueSeen
<1>2. Messages(qs, data') = Messages(qs, data)
  <2>1. \A i \in DOMAIN qs : data'[qs[i]] = data[qs[i]]
    BY DEF ToSet
  <2>2. QED
    BY <2>1 DEF Messages
<1>3. Len(Messages(qs, data)) < Cardinality(Block)
  <2>1. Cardinality(Block) \in Nat
    BY FS_CardinalityType, MessageQueueAssumption
  <2>2. Len(Messages(qs, data)) = Len(qs) /\ Len(qs) \in Nat
    BY <1>1, MessagesTyped
  <2>3. QED
    BY <1>1, <2>1, <2>2
<1>4. CASE qs2 = Append(qs, b)
  <2>1. Messages(qs2, data') = Append(Messages(qs, data), m)
    BY <1>1, <1>2, <1>4, MessagesAppend
  <2>2. QED
    BY <1>1, <1>3, <2>1 DEF Q!Send
<1>5. CASE qs2 = <<b>> \o qs
  <2>1. Messages(qs2, data') = <<m>> \o Messages(qs, data)
    BY <1>1, <1>2, <1>5, MessagesPrepend
  <2>2. QED
    BY <1>1, <1>3, <2>1 DEF Q!Urgent
<1>6. QED
  BY <1>4, <1>5

(* The first block is unlinked: this is a receive. *)
LEMMA LeaveRefines ==
  ASSUME NEW fs, NEW qs, BlocksAre(fs, qs), qs # <<>>, head = Head(qs),
         NEW fs2, BlocksAre(fs2, Tail(qs))', received' = data[head], UNCHANGED data
  PROVE  Q!Recv
<1>1. /\ (LET s == Chain(head) IN [i \in DOMAIN s |-> data[s[i]]]) = Messages(qs, data)
      /\ (LET s == Chain(head) IN [i \in DOMAIN s |-> data[s[i]]])' = Messages(Tail(qs), data')
      /\ qs \in Seq(Block) /\ data \in Contents
  BY QueueSeen
<1>2. /\ Messages(qs, data) # <<>> /\ Head(Messages(qs, data)) = data[Head(qs)]
      /\ Messages(Tail(qs), data) = Tail(Messages(qs, data))
  BY <1>1, MessagesTail
<1>3. QED
  BY <1>1, <1>2 DEF Q!Recv

(* The chain and its messages stay as they are. *)
LEMMA KeepRefines ==
  ASSUME NEW fs, NEW qs, BlocksAre(fs, qs), NEW fs2, BlocksAre(fs2, qs)',
         \A c \in ToSet(qs) : data'[c] = data[c], UNCHANGED received
  PROVE  UNCHANGED <<LET s == Chain(head) IN [i \in DOMAIN s |-> data[s[i]]], received>>
<1>1. /\ (LET s == Chain(head) IN [i \in DOMAIN s |-> data[s[i]]]) = Messages(qs, data)
      /\ (LET s == Chain(head) IN [i \in DOMAIN s |-> data[s[i]]])' = Messages(qs, data')
  BY QueueSeen
<1>2. Messages(qs, data') = Messages(qs, data)
  <2>1. \A i \in DOMAIN qs : data'[qs[i]] = data[qs[i]]
    BY DEF ToSet
  <2>2. QED
    BY <2>1 DEF Messages
<1>3. QED
  BY <1>1, <1>2

(* Every step sends, takes or clears, or leaves the queue alone. *)
LEMMA StepRefines ==
  ASSUME IInv, [Next]_vars
  PROVE  \/ Q!Next
         \/ UNCHANGED <<LET s == Chain(head) IN [i \in DOMAIN s |-> data[s[i]]], received>>
<1>0. TypeOK
  BY DEF IInv
<1>1. PICK fs, qs : BlocksAre(fs, qs)
  BY DEF IInv
<1>2. BlocksTyped /\ HandsOK /\ ChainsAre(fs, qs)
  BY <1>1 DEF BlocksAre
<1>3. ASSUME NEW t \in Thread, Goto(t, Run) \/ Goto(t, "sched") \/ Goto(t, "copy")
                \/ Goto(t, "link") \/ Goto(t, "link_urgent"),
             \/ UNCHANGED <<held, buffer>>
             \/ \E h, m : /\ held' = [held EXCEPT ![t] = h]
                          /\ buffer' = [buffer EXCEPT ![t] = m]
      PROVE  OthersSame(t)
  BY <1>0, <1>3 DEF OthersSame, Goto, TypeOK
<1>4. \/ UNCHANGED <<head, next, data, received>>
      \/ \E t \in Thread : Fill(t) \/ FillUrgent(t) \/ Link(t) \/ Recv(t) \/ PutBack(t)
                             \/ ResetEnd(t)
      \/ \E m \in Message : IsrSend(m)
      \/ IsrRecv
  <2>1. ASSUME NEW t \in Thread \ {Idle}, Call(t) PROVE UNCHANGED <<head, next, data, received>>
    BY <2>1 DEF Call, Send, SendWait, RecvWait, ResetBegin, queue, args
  <2>2. ASSUME NEW t \in Thread \ {Idle}, Continue(t)
        PROVE  \/ UNCHANGED <<head, next, data, received>>
               \/ Fill(t) \/ FillUrgent(t) \/ Link(t) \/ Recv(t) \/ PutBack(t)
               \/ ResetEnd(t)
    BY <2>2 DEF Continue, SendSchedule, SendFails, SendResumed, SendAgain, RecvSchedule,
       RecvFails, RecvAgain, ResetReceiver, ResetSender, Schedule, queue, args
  <2>3. QED
    BY <2>1, <2>2 DEF Next, Tick, vars, queue, args
<1>5. CASE UNCHANGED <<head, next, data, received>>
  BY <1>5 DEF Chain
<1>6. ASSUME NEW t \in Thread, Fill(t) \/ FillUrgent(t)
      PROVE  UNCHANGED <<LET s == Chain(head) IN [i \in DOMAIN s |-> data[s[i]]], received>>
  <2>1. /\ \/ pc[t] = "fill" /\ pc'[t] = "link" /\ next' = [next EXCEPT ![held[t]] = NULL]
           \/ pc[t] = "fill_urgent" /\ pc'[t] = "link_urgent" /\ UNCHANGED next
        /\ data' = [data EXCEPT ![held[t]] = buffer[t]]
        /\ UNCHANGED <<free, head, tail, entry, held, buffer, received>>
        /\ Goto(t, "link") \/ Goto(t, "link_urgent")
    BY <1>0, <1>6 DEF Fill, FillUrgent, At, Goto, TypeOK, args
  <2>2. OthersSame(t)
    BY <1>3, <2>1
  <2>3. BlocksAre(fs, qs)'
    BY <1>1, <2>1, <2>2, FillBlock
  <2>4. held[t] \in Block /\ held[t] \notin ToSet(qs) /\ ToSet(qs) \subseteq Block
    BY <1>2, <2>1, ChainStart DEF HandsOK, HandOK, Holding, BlocksTyped, ChainsAre
  <2>5. \A c \in ToSet(qs) : data'[c] = data[c]
    BY <1>2, <2>1, <2>4 DEF BlocksTyped
  <2>6. QED
    BY <1>1, <2>1, <2>3, <2>5, KeepRefines
<1>7. ASSUME NEW t \in Thread, Link(t)
      PROVE  Q!Next
  <2>1. /\ \/ pc[t] = "link" /\ LinkTail(held[t])
           \/ pc[t] = "link_urgent" /\ LinkHead(held[t])
        /\ held' = [held EXCEPT ![t] = NULL] /\ buffer' = [buffer EXCEPT ![t] = NoMessage]
        /\ UNCHANGED <<free, data, received>>
        /\ Goto(t, Run) \/ Goto(t, "sched")
    BY <1>7 DEF Link, At, Leave, WakeFirst
  <2>2. OthersSame(t) /\ pc'[t] \in {Run, "sched"}
    BY <1>0, <1>3, <2>1 DEF Goto, TypeOK
  <2>3. PICK qs2 : /\ BlocksAre(fs, qs2)' /\ Len(qs2) = Len(qs) + 1
                   /\ qs2 = IF pc[t] = "link" THEN Append(qs, held[t]) ELSE <<held[t]>> \o qs
    BY <1>1, <2>1, <2>2, LinkBlock
  <2>4. held[t] \in Block /\ data[held[t]] = buffer[t] /\ buffer[t] \in Message
    BY <1>2, <2>1 DEF HandsOK, HandOK, Holding, BlocksTyped
  <2>5. PICK b \in Block : b = held[t]
    BY <2>4
  <2>6. qs2 = Append(qs, b) \/ qs2 = <<b>> \o qs
    BY <2>3, <2>5
  <2>7. \A c \in ToSet(qs) : data'[c] = data[c]
    BY <2>1
  <2>8. PICK m \in Message : m = data'[b]
    BY <2>1, <2>4, <2>5
  <2>9. Q!Send(m) \/ Q!Urgent(m)
    BY <1>1, <2>1, <2>3, <2>6, <2>7, <2>8, EnterRefines
  <2>10. QED
    BY <2>9 DEF Q!Next
<1>8. ASSUME NEW t \in Thread, Recv(t)
      PROVE  Q!Next
  <2>1. /\ UnlinkHead /\ Goto(t, "copy") /\ pc[t] \in {Run, "receiving"}
        /\ held' = [held EXCEPT ![t] = head] /\ buffer' = [buffer EXCEPT ![t] = data[head]]
        /\ UNCHANGED <<data, free, next>> /\ received' = data[head]
    BY <1>8 DEF Recv, Unlink, UnlinkHead, At
  <2>2. OthersSame(t) /\ pc'[t] = "copy" /\ pc[t] \notin Holding
    BY <1>0, <1>3, <2>1 DEF Goto, TypeOK, Holding, Run
  <2>3. qs # <<>> /\ BlocksAre(fs, Tail(qs))' /\ head = Head(qs)
    BY <1>1, <2>1, <2>2, UnlinkBlock
  <2>4. Q!Recv
    BY <1>1, <2>1, <2>3, LeaveRefines
  <2>5. QED
    BY <2>4 DEF Q!Next
<1>9. ASSUME NEW t \in Thread, PutBack(t)
      PROVE  UNCHANGED <<LET s == Chain(head) IN [i \in DOMAIN s |-> data[s[i]]], received>>
  <2>1. /\ pc[t] = "copy" /\ PutFree(held[t])
        /\ held' = [held EXCEPT ![t] = NULL] /\ buffer' = [buffer EXCEPT ![t] = NoMessage]
        /\ UNCHANGED <<head, tail, data, entry, received>>
        /\ Goto(t, Run) \/ Goto(t, "sched")
    BY <1>9 DEF PutBack, At, Leave, WakeFirst
  <2>2. OthersSame(t) /\ pc'[t] \in {Run, "sched"}
    BY <1>0, <1>3, <2>1 DEF Goto, TypeOK
  <2>3. PICK fs2 : BlocksAre(fs2, qs)'
    BY <1>1, <2>1, <2>2, FreeBlock
  <2>4. QED
    BY <1>1, <2>1, <2>3, KeepRefines
<1>10. ASSUME NEW t \in Thread, ResetEnd(t)
       PROVE  Q!Next
  <2>1. /\ free' = Drained.free /\ next' = Drained.next
        /\ head' = NULL /\ tail' = NULL /\ entry' = 0
        /\ UNCHANGED <<data, held, buffer, received>>
        /\ pc[t] = "reset_senders" /\ Goto(t, "sched")
    BY <1>10 DEF ResetEnd, At, args
  <2>2. ASSUME NEW u \in Thread PROVE Bystander(u)
    BY <1>0, <2>1 DEF Bystander, Goto, TypeOK, Holding
  <2>3. PICK fs2 : BlocksAre(fs2, <<>>)'
    BY <1>1, <2>1, <2>2, DrainBlocks
  <2>4. (LET s == Chain(head) IN [i \in DOMAIN s |-> data[s[i]]])' = Messages(<<>>, data')
    BY <2>3, QueueSeen
  <2>5. Messages(<<>>, data') = <<>>
    BY DEF Messages
  <2>6. Q!Clear
    BY <2>1, <2>4, <2>5 DEF Q!Clear
  <2>7. QED
    BY <2>6 DEF Q!Next
<1>11. ASSUME NEW m \in Message, IsrSend(m)
       PROVE  Q!Next
  <2>1. /\ free \in Block /\ free \in ToSet(fs) /\ data' = [data EXCEPT ![free] = m]
        /\ UNCHANGED received
    <3>1. free # NULL /\ UNCHANGED received
      BY <1>11 DEF IsrSend, UnlinkFree, args
    <3>2. QED
      BY <1>1, <1>2, <1>11, <3>1, IsrSendBlock, ChainTail DEF ChainsAre
  <2>2. PICK qs2 : /\ BlocksAre(Tail(fs), qs2)' /\ Len(qs2) = Len(qs) + 1
                   /\ qs2 = Append(qs, free) \/ qs2 = <<free>> \o qs
    BY <1>1, <1>11, IsrSendBlock
  <2>3. PICK b \in Block : b = free
    BY <2>1
  <2>4. qs2 = Append(qs, b) \/ qs2 = <<b>> \o qs
    BY <2>2, <2>3
  <2>5. /\ m = data'[b]
        /\ \A c \in ToSet(qs) : data'[c] = data[c]
    <3>1. b \notin ToSet(qs) /\ ToSet(qs) \subseteq Block
      BY <1>2, <2>1, <2>3, ChainStart DEF ChainsAre
    <3>2. QED
      BY <1>2, <2>1, <2>3, <3>1 DEF BlocksTyped
  <2>6. Q!Send(m) \/ Q!Urgent(m)
    BY <1>1, <2>1, <2>2, <2>4, <2>5, EnterRefines
  <2>7. QED
    BY <2>6 DEF Q!Next
<1>12. CASE IsrRecv
  <2>1. qs # <<>> /\ head = Head(qs) /\ received' = data[head] /\ UNCHANGED data
    BY <1>1, <1>12, IsrRecvBlock DEF IsrRecv
  <2>2. PICK fs2 : BlocksAre(fs2, Tail(qs))'
    BY <1>1, <1>12, IsrRecvBlock
  <2>3. Q!Recv
    BY <1>1, <2>1, <2>2, LeaveRefines
  <2>4. QED
    BY <2>3 DEF Q!Next
<1>13. QED
  BY <1>4, <1>5, <1>6, <1>7, <1>8, <1>9, <1>10, <1>11, <1>12

(* A message queue is a bounded queue, although a message is copied with    *)
(* interrupts enabled into a block that no chain holds, and out of one:     *)
(* messages in the order in which their blocks are linked, none lost and    *)
(* none handed out twice (rt_mq_send_wait, rt_mq_urgent, rt_mq_recv,        *)
(* rt_mq_control).                                                          *)
THEOREM IsABoundedQueue == Spec => ImplementsQueue
<1>1. Init => Q!Init
  <2>1. SUFFICES ASSUME Init PROVE Q!Init
    OBVIOUS
  <2>2. PICK fs : BlocksAre(fs, <<>>)
    BY <2>1, InitBlocks
  <2>3. (LET s == Chain(head) IN [i \in DOMAIN s |-> data[s[i]]]) = Messages(<<>>, data)
    BY <2>2, QueueSeen
  <2>4. Messages(<<>>, data) = <<>> /\ received = NoMessage
    BY <2>1 DEF Messages, Init
  <2>5. QED
    BY <2>3, <2>4 DEF Q!Init
<1>2. IInv /\ [Next]_vars
        => [Q!Next]_<<LET s == Chain(head) IN [i \in DOMAIN s |-> data[s[i]]], received>>
  BY StepRefines
<1>3. QED
  BY <1>1, <1>2, Invariance, PTL DEF Spec, ImplementsQueue, Q!Spec
=============================================================================
