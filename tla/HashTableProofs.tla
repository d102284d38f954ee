--------------------------- MODULE HashTableProofs ---------------------------
(***************************************************************************)
(* What holds of the hash table for every number of buckets, every hash     *)
(* function, any data and keys and any number of lookups in progress.       *)
(*                                                                         *)
(* A walk along next is a recursive function.  What it visits (WalkOfChain) *)
(* rests on the well-ordering of the numbers: of two walks that differ      *)
(* there is a first step at which they do.                                  *)
(***************************************************************************)
EXTENDS HashTable, Integers, FiniteSetTheorems, WellFoundedInduction, TLAPS

(* The model's Nth, for any links and any first node.                       *)
After(link, n) == IF n = NULL THEN NULL ELSE link[n]
Along(link, start) ==
  CHOOSE f : f = [i \in Nat |-> IF i = 0 THEN start ELSE After(link, f[i - 1])]

NodesOf(link, start) == {Along(link, start)[i] : i \in 0..Cardinality(Data)} \ {NULL}
ChainOf(link, start) ==
  [i \in 1..Cardinality(NodesOf(link, start)) |-> Along(link, start)[i - 1]]

(* s is the chain that the links spell from start on.                       *)
Spells(link, start, s) ==
  /\ s \in Seq(Data)
  /\ start = IF Len(s) = 0 THEN NULL ELSE s[1]
  /\ \A i \in 1..Len(s) : link[s[i]] = IF i = Len(s) THEN NULL ELSE s[i + 1]
  /\ \A i, j \in 1..Len(s) : s[i] = s[j] => i = j

Members(s) == {s[i] : i \in 1..Len(s)}

----------------------------------------------------------------------------
(* Every set of numbers has a least one.                                    *)
LEMMA LeastNumber ==
  ASSUME NEW T, T \subseteq Nat, T # {}
  PROVE  \E x \in T : \A y \in T : x <= y
<1> DEFINE R == OpToRel(<, Nat)
<1>1. IsWellFoundedOn(R, Nat) BY NatLessThanWellFounded
<1> HIDE DEF R
<1>2. PICK x \in T : \A y \in T : ~(<<y, x>> \in R) BY <1>1, WFMin
<1>3. \A y \in T : ~(y < x) BY <1>2 DEF R, OpToRel
<1>4. \A y \in T : x <= y BY <1>3
<1> QED BY <1>4

(* A walk along a chain visits it in order and then stays at NULL: that is  *)
(* a walk, and of two different walks there is a first step at which they   *)
(* differ.                                                                  *)
LEMMA WalkOfChain ==
  ASSUME NEW link, NEW start, NEW s, Spells(link, start, s)
  PROVE  \A i \in Nat : Along(link, start)[i] = IF i < Len(s) THEN s[i + 1] ELSE NULL
<1> DEFINE At(i) == IF i < Len(s) THEN s[i + 1] ELSE NULL
           Def(f) == [i \in Nat |-> IF i = 0 THEN start ELSE After(link, f[i - 1])]
<1>0. s \in Seq(Data) /\ Len(s) \in Nat /\ NULL \notin Data BY TableConstants DEF Spells
<1>1. At(0) = start BY <1>0 DEF Spells
<1>2. ASSUME NEW i \in Nat, i # 0 PROVE At(i) = After(link, At(i - 1))
  <2>0. i - 1 \in Nat /\ (i - 1) + 1 = i BY <1>2
  <2>1. CASE i - 1 < Len(s)
    <3>1. i \in 1..Len(s) BY <1>0, <1>2, <2>1
    <3>2. s[i] \in Data BY <1>0, <3>1
    <3>3. At(i - 1) = s[i] /\ s[i] # NULL BY <1>0, <2>0, <2>1, <3>2
    <3>4. link[s[i]] = IF i = Len(s) THEN NULL ELSE s[i + 1] BY <3>1 DEF Spells
    <3>5. i < Len(s) <=> i # Len(s) BY <1>0, <3>1
    <3> QED BY <3>3, <3>4, <3>5 DEF After
  <2>2. CASE ~(i - 1 < Len(s))
    <3>1. ~(i < Len(s)) BY <1>0, <1>2, <2>2
    <3> QED BY <2>2, <3>1 DEF After
  <2> QED BY <2>1, <2>2
<1> HIDE DEF At
<1> DEFINE F == [i \in Nat |-> At(i)]
<1>3. F = Def(F)
  <2>1. ASSUME NEW i \in Nat PROVE F[i] = IF i = 0 THEN start ELSE After(link, F[i - 1])
    <3>1. CASE i = 0 BY <1>1, <3>1
    <3>2. CASE i # 0
      <4>1. i - 1 \in Nat BY <3>2
      <4> QED BY <1>2, <3>2, <4>1
    <3> QED BY <3>1, <3>2
  <2> QED BY <2>1
<1> HIDE DEF F
<1>4. \E f : f = Def(f) BY <1>3
<1> DEFINE A == Along(link, start)
<1>5. A = Def(A) BY <1>4 DEF Along
<1> HIDE DEF A
<1> SUFFICES ASSUME ~ \A i \in Nat : A[i] = At(i) PROVE FALSE BY DEF A, At
<1> DEFINE Bad == {i \in Nat : A[i] # At(i)}
<1>6. Bad \subseteq Nat /\ Bad # {} OBVIOUS
<1>7. PICK i \in Bad : \A j \in Bad : i <= j BY <1>6, LeastNumber
<1>8. i \in Nat /\ A[i] # At(i) BY <1>7
<1>9. i # 0 BY <1>1, <1>5, <1>8
<1>10. i - 1 \in Nat /\ i - 1 \notin Bad BY <1>7, <1>8, <1>9
<1>11. A[i] = After(link, A[i - 1]) BY <1>5, <1>8, <1>9
<1> QED BY <1>2, <1>8, <1>9, <1>10, <1>11

(* A chain has as many nodes as it is long.                                 *)
LEMMA CountMembers ==
  ASSUME NEW s \in Seq(Data), \A i, j \in 1..Len(s) : s[i] = s[j] => i = j
  PROVE  Cardinality(Members(s)) = Len(s) /\ Len(s) <= Cardinality(Data)
<1> DEFINE n == Len(s)
           f == [i \in 1..n |-> s[i]]
<1>1. n \in Nat /\ f \in [1..n -> Members(s)] BY DEF Members
<1>2. f \in Injection(1..n, Members(s)) BY <1>1 DEF Injection, IsInjective
<1>3. f \in Surjection(1..n, Members(s)) BY <1>1 DEF Surjection, Members
<1>4. ExistsBijection(1..n, Members(s)) BY <1>2, <1>3 DEF ExistsBijection, Bijection
<1>5. IsFiniteSet(1..n) /\ Cardinality(1..n) = n
  <2>1. IsFiniteSet(1..n) /\ Cardinality(1..n) = IF 1 > n THEN 0 ELSE n - 1 + 1 BY <1>1, FS_Interval
  <2> HIDE DEF n
  <2> QED BY <1>1, <2>1
<1>6. IsFiniteSet(Members(s)) /\ Cardinality(Members(s)) = n BY <1>4, <1>5, FS_Bijection
<1>7. Members(s) \in SUBSET Data BY DEF Members
<1>8. Cardinality(Members(s)) <= Cardinality(Data) BY <1>7, TableConstants, FS_Subset
<1> QED BY <1>6, <1>8

(* The model's Nodes and Chain of a bucket are those of the chain.          *)
LEMMA ChainOfChain ==
  ASSUME NEW link, NEW start, NEW s, Spells(link, start, s)
  PROVE  /\ NodesOf(link, start) = Members(s)
         /\ Cardinality(NodesOf(link, start)) = Len(s)
         /\ ChainOf(link, start) = s
         /\ Along(link, start)[Len(s)] = NULL
<1> DEFINE A == Along(link, start)
           m == Cardinality(Data)
<1>0. s \in Seq(Data) /\ Len(s) \in Nat /\ NULL \notin Data BY TableConstants DEF Spells
<1>1. \A i \in Nat : A[i] = IF i < Len(s) THEN s[i + 1] ELSE NULL BY WalkOfChain
<1>2. Cardinality(Members(s)) = Len(s) /\ Len(s) <= m BY <1>0, CountMembers DEF Spells
<1>3. m \in Nat BY TableConstants, FS_CardinalityType
<1> HIDE DEF A, m
<1>4. NodesOf(link, start) = {A[i] : i \in 0..m} \ {NULL} BY DEF NodesOf, A, m
<1>5. NodesOf(link, start) = Members(s)
  <2>1. ASSUME NEW x \in Members(s) PROVE x \in NodesOf(link, start)
    <3>1. PICK i \in 1..Len(s) : x = s[i] BY <2>1 DEF Members
    <3>2. i - 1 \in 0..m /\ i - 1 \in Nat /\ i - 1 < Len(s) /\ (i - 1) + 1 = i BY <1>0, <1>2, <1>3, <3>1
    <3>3. A[i - 1] = s[i] BY <1>1, <3>2
    <3>4. s[i] \in Data BY <1>0, <3>1
    <3> QED BY <1>0, <1>4, <3>1, <3>2, <3>3, <3>4
  <2>2. ASSUME NEW x \in NodesOf(link, start) PROVE x \in Members(s)
    <3>1. PICK i \in 0..m : x = A[i] /\ x # NULL BY <1>4, <2>2
    <3>2. i \in Nat /\ i < Len(s) BY <1>1, <1>3, <3>1
    <3>3. x = s[i + 1] /\ i + 1 \in 1..Len(s) BY <1>0, <1>1, <3>1, <3>2
    <3> QED BY <3>3 DEF Members
  <2> QED BY <2>1, <2>2
<1>6. ChainOf(link, start) = [i \in 1..Len(s) |-> A[i - 1]] BY <1>2, <1>5 DEF ChainOf, A
<1>7. \A i \in 1..Len(s) : A[i - 1] = s[i]
  <2> TAKE i \in 1..Len(s)
  <2>1. i - 1 \in Nat /\ i - 1 < Len(s) /\ (i - 1) + 1 = i BY <1>0
  <2> QED BY <1>1, <2>1
<1>8. s = [i \in 1..Len(s) |-> s[i]] BY <1>0
<1>9. ChainOf(link, start) = s BY <1>6, <1>7, <1>8
<1>10. A[Len(s)] = NULL BY <1>0, <1>1
<1> QED BY <1>2, <1>5, <1>9, <1>10 DEF A

(* In the model's terms, in a state and in the next one.                    *)
LEMMA BucketNow ==
  ASSUME NEW b, NEW s, Spells(next, table[b], s)
  PROVE  Nodes(b) = Members(s) /\ ChainLength(b) = Len(s) /\ Chain(b) = s /\ Nth(b)[Len(s)] = NULL
<1>1. Nth(b) = Along(next, table[b]) BY DEF Nth, Along, Follow, After
<1>2. Nodes(b) = NodesOf(next, table[b]) BY <1>1 DEF Nodes, NodesOf
<1>3. ChainLength(b) = Cardinality(NodesOf(next, table[b])) BY <1>2 DEF ChainLength
<1>4. Chain(b) = ChainOf(next, table[b]) BY <1>1, <1>3 DEF Chain, ChainOf
<1> QED BY <1>1, <1>2, <1>3, <1>4, ChainOfChain

(* The same of the next state.                                              *)
LEMMA BucketNext ==
  ASSUME NEW b, NEW s, Spells(next', table'[b], s)
  PROVE  /\ Nodes(b)' = Members(s) /\ ChainLength(b)' = Len(s) /\ Chain(b)' = s
         /\ (Nth(b))'[Len(s)] = NULL
<1>1. (Nth(b))' = Along(next', table'[b]) BY DEF Nth, Along, Follow, After
<1>2. Nodes(b)' = NodesOf(next', table'[b]) BY <1>1 DEF Nodes, NodesOf
<1>3. ChainLength(b)' = Cardinality(NodesOf(next', table'[b])) BY <1>2 DEF ChainLength
<1>4. Chain(b)' = ChainOf(next', table'[b]) BY <1>1, <1>3 DEF Chain, ChainOf
<1> QED BY <1>1, <1>2, <1>3, <1>4, ChainOfChain

----------------------------------------------------------------------------
(* Every bucket is a chain ...                                              *)
Whole == \A b \in Buckets : Spells(next, table[b], Chain(b))

(* ... of nodes that belong there and were not freed.                       *)
Homes ==
  \A b \in Buckets : \A d \in Members(Chain(b)) :
    d \in Data /\ d \notin freed /\ key[d] \in Keys /\ Bucket[key[d]] = b

(* What was there all the time is not behind the lookup.                    *)
Before(s, n, D) ==
  IF n = NULL THEN D = {}
  ELSE \E p \in 1..Len(s) : s[p] = n /\ \A d \in D : \E q \in p..Len(s) : s[q] = d

WalkOk(t) ==
  /\ sought[t] \in Keys
  /\ always[t] \subseteq Under(sought[t]) /\ Under(sought[t]) \subseteq seen[t]
  /\ cursor[t] \in freed \/ Before(Chain(Bucket[sought[t]]), cursor[t], always[t])

Walks == \A t \in Threads : pc[t] = "walk" => WalkOk(t)

TableInv == TypeOK /\ Whole /\ Homes /\ Walks /\ LookupRight

----------------------------------------------------------------------------
(* A chain none of whose nodes changes its next stays.                      *)
LEMMA FrameSpells ==
  ASSUME NEW link, NEW link2, NEW start, NEW s, Spells(link, start, s),
         \A d \in Members(s) : link2[d] = link[d]
  PROVE  Spells(link2, start, s)
<1>1. \A i \in 1..Len(s) : link2[s[i]] = link[s[i]] BY DEF Members
<1> QED BY <1>1 DEF Spells

(* The chain with a new last node, linked as hash_table_add does it.        *)
LEMMA AppendSpells ==
  ASSUME NEW link \in [Data -> Data \union {NULL}], NEW start, NEW s, Spells(link, start, s),
         NEW d \in Data, d \notin Members(s), NEW link2, NEW start2,
         IF Len(s) = 0
           THEN start2 = d /\ link2 = [link EXCEPT ![d] = NULL]
           ELSE start2 = start /\ link2 = [link EXCEPT ![d] = NULL, ![s[Len(s)]] = d]
  PROVE  Spells(link2, start2, Append(s, d))
<1> DEFINE n == Len(s)
           r == Append(s, d)
<1>1. s \in Seq(Data) /\ n \in Nat BY DEF Spells
<1>2. /\ r \in Seq(Data) /\ Len(r) = n + 1 /\ r[n + 1] = d
      /\ \A i \in 1..n : r[i] = s[i] /\ s[i] \in Data /\ s[i] # d
  BY <1>1 DEF Members
<1> HIDE DEF r, n
<1>3. start2 = r[1]
  <2>1. CASE n = 0 BY <1>2, <2>1 DEF n
  <2>2. CASE n # 0
    <3>1. 1 \in 1..n BY <1>1, <2>2
    <3> QED BY <1>2, <2>2, <3>1 DEF n, Spells
  <2> QED BY <2>1, <2>2
<1>4. ASSUME NEW i \in 1..(n + 1) PROVE link2[r[i]] = IF i = n + 1 THEN NULL ELSE r[i + 1]
  <2>1. CASE i = n + 1
    <3>1. r[i] = d BY <1>2, <2>1
    <3>2. CASE n = 0 BY <2>1, <3>1, <3>2 DEF n
    <3>3. CASE n # 0
      <4>1. n \in 1..n BY <1>1, <3>3
      <4>2. s[n] # d /\ s[n] \in Data BY <1>2, <4>1
      <4>3. link2 = [link EXCEPT ![d] = NULL, ![s[n]] = d] BY <3>3 DEF n
      <4> QED BY <2>1, <3>1, <4>2, <4>3
    <3> QED BY <3>2, <3>3
  <2>2. CASE i # n + 1
    <3>1. i \in 1..n /\ n # 0 BY <1>1, <2>2
    <3>2. n \in 1..n BY <1>1, <3>1
    <3>3. link2 = [link EXCEPT ![d] = NULL, ![s[n]] = d] BY <3>1 DEF n
    <3>4. r[i] = s[i] /\ s[i] \in Data /\ s[i] # d /\ s[n] \in Data /\ s[n] # d BY <1>2, <3>1, <3>2
    <3>5. CASE i = n
      <4>1. link2[s[n]] = d BY <3>3, <3>4
      <4>2. r[i + 1] = d BY <1>2, <3>5
      <4> QED BY <2>2, <3>4, <3>5, <4>1, <4>2
    <3>6. CASE i # n
      <4>1. s[i] # s[n] BY <3>1, <3>2, <3>6 DEF Spells, n
      <4>2. link2[s[i]] = link[s[i]] BY <3>3, <3>4, <4>1
      <4>3. link[s[i]] = s[i + 1] BY <3>1, <3>6 DEF Spells, n
      <4>4. i + 1 \in 1..n BY <1>1, <3>1, <3>6
      <4>5. r[i + 1] = s[i + 1] BY <1>2, <4>4
      <4> QED BY <2>2, <3>4, <4>2, <4>3, <4>5
    <3> QED BY <3>5, <3>6
  <2> QED BY <2>1, <2>2
<1>5. ASSUME NEW i \in 1..(n + 1), NEW j \in 1..(n + 1), r[i] = r[j] PROVE i = j
  <2>1. CASE i \in 1..n /\ j \in 1..n BY <1>2, <1>5, <2>1 DEF Spells, n
  <2>2. CASE i = n + 1 /\ j \in 1..n BY <1>2, <1>5, <2>2
  <2>3. CASE j = n + 1 /\ i \in 1..n BY <1>2, <1>5, <2>3
  <2> QED BY <1>1, <2>1, <2>2, <2>3
<1>6. Len(r) # 0 BY <1>1, <1>2
<1>7. Spells(link2, start2, r) BY <1>2, <1>3, <1>4, <1>5, <1>6 DEF Spells
<1> QED BY <1>7 DEF r

(* A chain without its k-th node.                                           *)
Without(s, k) == [i \in 1..(Len(s) - 1) |-> IF i < k THEN s[i] ELSE s[i + 1]]

(* The shorter chain is a sequence of nodes, one node shorter.              *)
LEMMA WithoutFacts ==
  ASSUME NEW s \in Seq(Data), NEW k \in 1..Len(s)
  PROVE  /\ Without(s, k) \in Seq(Data) /\ Len(Without(s, k)) = Len(s) - 1
         /\ Len(s) \in Nat /\ Len(s) - 1 \in Nat
         /\ \A i \in 1..(Len(s) - 1) :
              Without(s, k)[i] = (IF i < k THEN s[i] ELSE s[i + 1]) /\ i \in 1..Len(s) /\ i + 1 \in 1..Len(s)
<1> DEFINE n == Len(s) - 1
<1>1. Len(s) \in Nat /\ n \in Nat OBVIOUS
<1>2. \A i \in 1..n : i \in 1..Len(s) /\ i + 1 \in 1..Len(s) BY <1>1
<1>3. \A i \in 1..n : (IF i < k THEN s[i] ELSE s[i + 1]) \in Data BY <1>2
<1> HIDE DEF n
<1>4. Without(s, k) = [i \in 1..n |-> IF i < k THEN s[i] ELSE s[i + 1]] BY DEF Without, n
<1>5. Without(s, k) \in [1..n -> Data] BY <1>3, <1>4
<1>6. Without(s, k) \in Seq(Data) /\ Len(Without(s, k)) = n BY <1>1, <1>5
<1> QED BY <1>1, <1>2, <1>4, <1>6 DEF n

(* The links around the k-th node closed, as hash_table_remove does it.     *)
LEMMA RemoveSpells ==
  ASSUME NEW link \in [Data -> Data \union {NULL}], NEW start, NEW s, Spells(link, start, s),
         NEW k \in 1..Len(s), NEW link2, NEW start2,
         IF k = 1
           THEN start2 = link[s[k]] /\ link2 = link
           ELSE start2 = start /\ link2 = [link EXCEPT ![s[k - 1]] = link[s[k]]]
  PROVE  Spells(link2, start2, Without(s, k))
<1> DEFINE n == Len(s) - 1
           r == Without(s, k)
<1>1. s \in Seq(Data) BY DEF Spells
<1>2. /\ r \in Seq(Data) /\ Len(r) = n /\ Len(s) \in Nat /\ n \in Nat
      /\ \A i \in 1..n : r[i] = (IF i < k THEN s[i] ELSE s[i + 1]) /\ i \in 1..Len(s) /\ i + 1 \in 1..Len(s)
  BY <1>1, WithoutFacts
<1>a. Len(s) \in Nat /\ n = Len(s) - 1 BY <1>2
<1> HIDE DEF r
<1>3. \A i \in 1..Len(s) : s[i] \in Data /\ link[s[i]] = IF i = Len(s) THEN NULL ELSE s[i + 1]
  BY <1>1 DEF Spells
<1>4. \A i, j \in 1..Len(s) : s[i] = s[j] => i = j BY DEF Spells
<1>5. start2 = IF n = 0 THEN NULL ELSE r[1]
  <2>1. CASE k = 1
    <3>1. 1 \in 1..Len(s) /\ start2 = link[s[1]] BY <2>1
    <3>2. CASE n = 0
      <4>1. 1 = Len(s) BY <1>a, <3>2
      <4>2. link[s[1]] = NULL BY <1>3, <3>1, <4>1
      <4> QED BY <3>1, <3>2, <4>2
    <3>3. CASE n # 0
      <4>1. 1 \in 1..n /\ 1 # Len(s) BY <1>2, <3>3
      <4>2. r[1] = s[1 + 1] BY <1>2, <2>1, <4>1
      <4> QED BY <1>3, <3>1, <3>3, <4>1, <4>2
    <3> HIDE DEF n
    <3> QED BY <3>2, <3>3
  <2>2. CASE k # 1
    <3>1. 1 \in 1..n /\ 1 < k /\ Len(s) # 0 BY <1>2, <2>2
    <3>2. r[1] = s[1] /\ n # 0 BY <1>2, <3>1
    <3>3. start = s[1] BY <3>1 DEF Spells
    <3>4. start2 = start BY <2>2
    <3> QED BY <3>2, <3>3, <3>4
  <2> QED BY <2>1, <2>2
<1>6. ASSUME NEW i \in 1..n PROVE link2[r[i]] = IF i = n THEN NULL ELSE r[i + 1]
  <2>0. i \in 1..Len(s) /\ i + 1 \in 1..Len(s) /\ (i # n => i + 1 \in 1..n) BY <1>2
  <2>1. CASE ~(i < k)
    <3>1. r[i] = s[i + 1] BY <1>2, <2>1
    <3>2. link2[s[i + 1]] = link[s[i + 1]]
      <4>1. CASE k = 1 BY <4>1
      <4>2. CASE k # 1
        <5>1. k - 1 \in 1..Len(s) /\ k - 1 # i + 1 BY <1>2, <2>1, <4>2
        <5>2. s[k - 1] # s[i + 1] BY <1>4, <2>0, <5>1
        <5> QED BY <1>3, <2>0, <4>2, <5>2
      <4> QED BY <4>1, <4>2
    <3>3. link[s[i + 1]] = IF i + 1 = Len(s) THEN NULL ELSE s[i + 1 + 1] BY <1>3, <2>0
    <3>4. i # n => r[i + 1] = s[i + 1 + 1] BY <1>2, <2>0, <2>1
    <3>5. i + 1 = Len(s) <=> i = n BY <1>2, <2>0
    <3> QED BY <3>1, <3>2, <3>3, <3>4, <3>5
  <2>2. CASE i < k
    <3>1. r[i] = s[i] /\ k # 1 BY <1>2, <2>2
    <3>2. k - 1 \in 1..Len(s) BY <1>2, <3>1
    <3>3. link2 = [link EXCEPT ![s[k - 1]] = link[s[k]]] BY <3>1
    <3>4. CASE i = k - 1
      <4>1. link2[s[i]] = link[s[k]] BY <1>3, <2>0, <3>3, <3>4
      <4>2. link[s[k]] = IF k = Len(s) THEN NULL ELSE s[k + 1] BY <1>3
      <4>3. k = i + 1 /\ (k = Len(s) <=> i = n) BY <1>2, <2>0, <3>4
      <4>4. i # n => r[i + 1] = s[i + 1 + 1] BY <1>2, <2>0, <4>3
      <4> QED BY <3>1, <4>1, <4>2, <4>3, <4>4
    <3>5. CASE i # k - 1
      <4>1. i + 1 < k /\ i # Len(s) /\ i # n BY <1>2, <2>0, <2>2, <3>5
      <4>2. s[i] # s[k - 1] BY <1>4, <2>0, <3>2, <3>5
      <4>3. link2[s[i]] = link[s[i]] BY <1>3, <2>0, <3>3, <4>2
      <4>4. link[s[i]] = s[i + 1] BY <1>3, <2>0, <4>1
      <4>5. r[i + 1] = s[i + 1] BY <1>2, <2>0, <4>1
      <4> QED BY <3>1, <4>1, <4>3, <4>4, <4>5
    <3> QED BY <3>4, <3>5
  <2> QED BY <2>1, <2>2
<1>7. ASSUME NEW i \in 1..n, NEW j \in 1..n, r[i] = r[j] PROVE i = j
  <2>1. PICK p \in 1..Len(s) : r[i] = s[p] /\ p = IF i < k THEN i ELSE i + 1 BY <1>2
  <2>2. PICK q \in 1..Len(s) : r[j] = s[q] /\ q = IF j < k THEN j ELSE j + 1 BY <1>2
  <2>3. p = q BY <1>4, <1>7, <2>1, <2>2
  <2> QED BY <2>1, <2>2, <2>3
<1>8. Spells(link2, start2, r) BY <1>2, <1>5, <1>6, <1>7 DEF Spells
<1> QED BY <1>8 DEF r

----------------------------------------------------------------------------
(* What a bucket is, under the invariant.                                   *)
LEMMA BucketIs ==
  ASSUME Whole, NEW b \in Buckets
  PROVE  /\ Chain(b) \in Seq(Data) /\ Len(Chain(b)) \in Nat
         /\ Nodes(b) = Members(Chain(b)) /\ ChainLength(b) = Len(Chain(b))
         /\ Nth(b)[Len(Chain(b))] = NULL
         /\ Spells(next, table[b], Chain(b))
<1>1. Spells(next, table[b], Chain(b)) BY DEF Whole
<1>2. Chain(b) \in Seq(Data) BY <1>1 DEF Spells
<1> HIDE DEF Whole
<1>3. Nodes(b) = Members(Chain(b)) /\ ChainLength(b) = Len(Chain(b)) /\ Nth(b)[Len(Chain(b))] = NULL
  BY <1>1, BucketNow
<1> QED BY <1>1, <1>2, <1>3

(* New chains that the new links spell are the model's.                     *)
LEMMA NewChains ==
  ASSUME NEW C, \A b \in Buckets : Spells(next', table'[b], C[b])
  PROVE  Whole' /\ \A b \in Buckets : Chain(b)' = C[b] /\ Nodes(b)' = Members(C[b])
<1>1. \A b \in Buckets : Chain(b)' = C[b] /\ Nodes(b)' = Members(C[b]) BY BucketNext
<1>2. Whole' BY <1>1 DEF Whole, Buckets
<1> QED BY <1>1, <1>2

(* What is under a key is in the chain of its bucket.                       *)
LEMMA UnderNow ==
  ASSUME Whole, Homes, NEW k \in Keys
  PROVE  \A d : d \in Under(k) <=> d \in Members(Chain(Bucket[k])) /\ SameKey(d, k)
<1>1. Bucket[k] \in Buckets BY TableConstants
<1>2. ASSUME NEW d \in Under(k) PROVE d \in Members(Chain(Bucket[k])) /\ SameKey(d, k)
  <2>1. InTable(d) /\ Bucket[key[d]] = Bucket[k] /\ SameKey(d, k) BY <1>2 DEF Under
  <2>2. PICK b \in Buckets : d \in Nodes(b) BY <2>1 DEF InTable
  <2>3. d \in Members(Chain(b)) BY <2>2, BucketIs
  <2>4. Bucket[key[d]] = b BY <2>3 DEF Homes
  <2> QED BY <2>1, <2>3, <2>4
<1>3. ASSUME NEW d \in Members(Chain(Bucket[k])), SameKey(d, k) PROVE d \in Under(k)
  <2>1. d \in Data /\ Bucket[key[d]] = Bucket[k] BY <1>1, <1>3 DEF Homes
  <2>2. InTable(d) BY <1>1, <1>3, BucketIs DEF InTable
  <2> QED BY <1>3, <2>1, <2>2 DEF Under
<1> QED BY <1>2, <1>3

(* The same of the next state, given its chains.                            *)
LEMMA UnderNext ==
  ASSUME NEW C, \A b \in Buckets : Nodes(b)' = Members(C[b]),
         \A b \in Buckets : \A d \in Members(C[b]) : Bucket[key'[d]] = b,
         NEW k \in Keys, NEW d \in (Under(k))'
  PROVE  d \in Members(C[Bucket[k]])
<1>1. (InTable(d))' /\ Bucket[key'[d]] = Bucket[k] BY DEF Under
<1>2. PICK b \in Buckets : d \in Nodes(b)' BY <1>1 DEF InTable, Buckets
<1>3. d \in Members(C[b]) BY <1>2
<1> QED BY <1>1, <1>2, <1>3

(* From chain s to chain r nodes disappear only into freed, and those that  *)
(* stay keep their order.                                                   *)
Keeps(s, r, gone) ==
  /\ \A i \in 1..Len(s) : s[i] \in Members(r) \/ s[i] \in gone
  /\ \A i, j \in 1..Len(s), x, y \in 1..Len(r) : i <= j /\ r[x] = s[i] /\ r[y] = s[j] => x <= y

(* A lookup's place survives such a change, unless its node is freed.       *)
LEMMA BeforeKept ==
  ASSUME NEW s, NEW r, NEW gone, NEW n, NEW D, NEW E,
         Len(r) \in Nat, NULL \notin gone, Keeps(s, r, gone), Before(s, n, D), n \notin gone,
         E \subseteq D, E \subseteq Members(r)
  PROVE  Before(r, n, E)
<1>1. CASE n = NULL BY <1>1 DEF Before
<1>2. CASE n # NULL
  <2>1. PICK p \in 1..Len(s) : s[p] = n /\ \A d \in D : \E q \in p..Len(s) : s[q] = d
    BY <1>2 DEF Before
  <2>2. n \in Members(r) BY <2>1 DEF Keeps
  <2>3. PICK x \in 1..Len(r) : r[x] = n BY <2>2 DEF Members
  <2>4. ASSUME NEW d \in E PROVE \E y \in x..Len(r) : r[y] = d
    <3>1. PICK q \in p..Len(s) : s[q] = d BY <2>1
    <3>2. PICK y \in 1..Len(r) : r[y] = d BY DEF Members
    <3>3. p <= q /\ q \in 1..Len(s) BY <2>1, <3>1
    <3>4. x <= y BY <2>1, <2>3, <3>1, <3>2, <3>3 DEF Keeps
    <3>5. y \in x..Len(r) BY <2>3, <3>2, <3>4
    <3> QED BY <3>2, <3>5
  <2> QED BY <1>2, <2>3, <2>4 DEF Before
<1> QED BY <1>1, <1>2

(* The lookups in progress survive a change under the lock.                 *)
LEMMA WalksKept ==
  ASSUME TypeOK, Walks, LookupRight, Witness, UNCHANGED lookupVars,
         freed \subseteq freed', freed' \subseteq Data, NEW C,
         \A b \in Buckets : Len(C[b]) \in Nat /\ Chain(b)' = C[b] /\ Nodes(b)' = Members(C[b]),
         \A b \in Buckets : \A d \in Members(C[b]) : Bucket[key'[d]] = b,
         \A b \in Buckets : Keeps(Chain(b), C[b], freed')
  PROVE  Walks' /\ LookupRight'
<1>0. /\ pc \in [Threads -> {"idle", "walk", "found", "missing"}] /\ NULL \notin freed'
      /\ UNCHANGED <<pc, cursor, sought>>
  BY TableConstants DEF TypeOK, lookupVars
<1>1. ASSUME NEW t \in Threads, pc[t] = "walk" PROVE (WalkOk(t))'
  <2>0. PICK k \in Keys : k = sought[t] BY <1>1 DEF Walks, WalkOk
  <2>1. PICK b \in Buckets : b = Bucket[k] BY TableConstants
  <2> DEFINE U == (Under(k))'
  <2>a. sought'[t] = k /\ cursor'[t] = cursor[t] BY <1>0, <2>0
  <2>b. (Under(sought[t]))' = U BY <2>a
  <2>2. seen'[t] = seen[t] \union U /\ always'[t] = always[t] \intersect U
    BY <1>0, <1>1, <2>b DEF Witness
  <2>3. \A d \in U : d \in Members(C[b]) BY <2>1, UnderNext
  <2>4. cursor[t] \in freed \/ Before(Chain(b), cursor[t], always[t]) BY <1>1, <2>0, <2>1 DEF Walks, WalkOk
  <2>5. cursor[t] \in freed' \/ Before(C[b], cursor[t], always'[t])
    <3>1. CASE cursor[t] \in freed' BY <3>1
    <3>2. CASE cursor[t] \notin freed'
      <4>1. Before(Chain(b), cursor[t], always[t]) BY <2>4, <3>2
      <4>2. always'[t] \subseteq always[t] /\ always'[t] \subseteq Members(C[b]) BY <2>2, <2>3
      <4>3. Len(C[b]) \in Nat /\ Keeps(Chain(b), C[b], freed') BY <2>1
      <4> QED BY <1>0, <3>2, <4>1, <4>2, <4>3, BeforeKept
    <3> QED BY <3>1, <3>2
  <2>6. Chain(b)' = C[b] BY <2>1
  <2>7. (Chain(Bucket[sought[t]]))' = C[b] BY <2>1, <2>6, <2>a
  <2>8. always'[t] \subseteq U /\ U \subseteq seen'[t] BY <2>2
  <2> HIDE DEF U
  <2> QED BY <2>5, <2>7, <2>8, <2>a, <2>b DEF WalkOk
<1>2. Walks' BY <1>0, <1>1 DEF Walks
<1>3. LookupRight' BY <1>0 DEF LookupRight, Witness
<1> QED BY <1>2, <1>3

----------------------------------------------------------------------------
(* The chains after one of them changed.                                    *)
Changed(b, s) == [c \in Buckets |-> IF c = b THEN s ELSE Chain(c)]

(* hash_table_add appends to the chain of the key's bucket, no other.       *)
LEMMA AddView ==
  ASSUME TypeOK, Whole, Homes, NEW d \in Data, NEW k \in Keys, hash_table_add(d, k)
  PROVE  /\ \A b \in Buckets : d \notin Members(Chain(b))
         /\ \A b \in Buckets :
              Spells(next', table'[b], Changed(Bucket[k], Append(Chain(Bucket[k]), d))[b])
         /\ table' \in [Buckets -> Data \union {NULL}]
         /\ next' \in [Data -> Data \union {NULL}]
<1>0. table \in [Buckets -> Data \union {NULL}] /\ next \in [Data -> Data \union {NULL}] BY DEF TypeOK
<1>1. PICK b \in Buckets : b = Bucket[k] BY TableConstants
<1>2. Link(b, d) /\ ~InTable(d) BY <1>1 DEF hash_table_add
<1>3. \A c \in Buckets : d \notin Members(Chain(c)) BY <1>2, BucketIs DEF InTable
<1> DEFINE s == Chain(b)
           n == Len(s)
<1>4. s \in Seq(Data) /\ n \in Nat /\ Spells(next, table[b], s) /\ ChainLength(b) = n BY BucketIs
<1>5. table[b] = NULL <=> n = 0
  <2>1. table[b] = IF n = 0 THEN NULL ELSE s[1] BY <1>4 DEF Spells
  <2>2. n # 0 => s[1] \in Data BY <1>4
  <2> QED BY <2>1, <2>2, TableConstants
<1>6. n # 0 => s[n] \in Members(s) /\ s[n] \in Data BY <1>4 DEF Members
<1>7. IF n = 0
        THEN table' = [table EXCEPT ![b] = d] /\ next' = [next EXCEPT ![d] = NULL]
        ELSE table' = table /\ next' = [next EXCEPT ![d] = NULL, ![s[n]] = d]
  BY <1>2, <1>4, <1>5 DEF Link
<1> HIDE DEF n
<1>8. table' \in [Buckets -> Data \union {NULL}] /\ next' \in [Data -> Data \union {NULL}]
  BY <1>0, <1>6, <1>7
<1>9. Spells(next', table'[b], Append(s, d))
  <2>1. IF Len(s) = 0
          THEN table'[b] = d /\ next' = [next EXCEPT ![d] = NULL]
          ELSE table'[b] = table[b] /\ next' = [next EXCEPT ![d] = NULL, ![s[Len(s)]] = d]
    BY <1>0, <1>7 DEF n
  <2>2. d \notin Members(s) BY <1>3
  <2> HIDE DEF s
  <2> QED BY <1>0, <1>4, <2>1, <2>2, AppendSpells
<1>10. ASSUME NEW c \in Buckets, c # b PROVE Spells(next', table'[c], Chain(c))
  <2>1. Spells(next, table[c], Chain(c)) /\ table'[c] = table[c] BY <1>0, <1>7, <1>10, BucketIs
  <2>2. ASSUME NEW e \in Members(Chain(c)) PROVE next'[e] = next[e]
    <3>1. e \in Data /\ e # d /\ e \notin Members(s) BY <1>3, <1>10 DEF Homes
    <3> QED BY <1>0, <1>6, <1>7, <3>1
  <2> QED BY <2>1, <2>2, FrameSpells
<1>11. \A c \in Buckets : Spells(next', table'[c], Changed(b, Append(s, d))[c]) BY <1>9, <1>10 DEF Changed
<1> QED BY <1>1, <1>3, <1>8, <1>11

(* Appending keeps every node and the order.                                *)
LEMMA AppendKeeps ==
  ASSUME NEW s \in Seq(Data), \A i, j \in 1..Len(s) : s[i] = s[j] => i = j,
         NEW d \in Data, d \notin Members(s), NEW gone
  PROVE  Keeps(s, Append(s, d), gone) /\ Keeps(s, s, gone)
         /\ Members(Append(s, d)) = Members(s) \union {d}
<1> DEFINE r == Append(s, d)
<1>1. /\ Len(s) \in Nat /\ Len(r) = Len(s) + 1 /\ r[Len(s) + 1] = d
      /\ \A i \in 1..Len(s) : r[i] = s[i] /\ s[i] # d /\ i \in 1..Len(r)
  BY DEF Members
<1> HIDE DEF r
<1>2. \A x \in 1..Len(r) : x \in 1..Len(s) \/ x = Len(s) + 1 BY <1>1
<1>3. \A i \in 1..Len(s) : s[i] \in Members(r) /\ s[i] \in Members(s) BY <1>1 DEF Members
<1>4. \A i \in 1..Len(s), x \in 1..Len(r) : r[x] = s[i] => x = i BY <1>1, <1>2
<1>5. Keeps(s, r, gone) /\ Keeps(s, s, gone) BY <1>3, <1>4 DEF Keeps
<1>6. Members(r) = Members(s) \union {d}
  <2>1. Len(s) + 1 \in 1..Len(r) BY <1>1
  <2> QED BY <1>1, <1>2, <2>1 DEF Members
<1> QED BY <1>5, <1>6 DEF r

(* So does doing nothing.                                                   *)
LEMMA SameKeeps ==
  ASSUME NEW s, \A i, j \in 1..Len(s) : s[i] = s[j] => i = j, NEW gone
  PROVE  Keeps(s, s, gone)
BY DEF Keeps, Members

(* Taking out a node loses that one and keeps the order of the others.      *)
LEMMA WithoutKeeps ==
  ASSUME NEW s \in Seq(Data), \A i, j \in 1..Len(s) : s[i] = s[j] => i = j,
         NEW k \in 1..Len(s), NEW gone, s[k] \in gone
  PROVE  Keeps(s, Without(s, k), gone) /\ Members(Without(s, k)) = Members(s) \ {s[k]}
<1> DEFINE r == Without(s, k)
           n == Len(s) - 1
<1>1. /\ Len(r) = n /\ Len(s) \in Nat /\ n \in Nat
      /\ \A i \in 1..n : r[i] = (IF i < k THEN s[i] ELSE s[i + 1]) /\ i \in 1..Len(s) /\ i + 1 \in 1..Len(s)
  BY WithoutFacts
<1> HIDE DEF r
<1>2. ASSUME NEW x \in 1..n, NEW i \in 1..Len(s), r[x] = s[i]
      PROVE  i # k /\ x = IF i < k THEN i ELSE i - 1
  <2>1. CASE x < k
    <3>1. s[x] = s[i] /\ x \in 1..Len(s) BY <1>1, <1>2, <2>1
    <3>2. x = i BY <3>1
    <3> QED BY <2>1, <3>2
  <2>2. CASE ~(x < k)
    <3>1. s[x + 1] = s[i] /\ x + 1 \in 1..Len(s) BY <1>1, <1>2, <2>2
    <3>2. x + 1 = i BY <3>1
    <3> QED BY <1>1, <2>2, <3>2
  <2> QED BY <2>1, <2>2
<1>3. ASSUME NEW i \in 1..Len(s), i # k PROVE \E x \in 1..n : r[x] = s[i]
  <2>1. CASE i < k
    <3>1. i \in 1..n BY <1>1, <2>1
    <3> QED BY <1>1, <2>1, <3>1
  <2>2. CASE ~(i < k)
    <3>1. i - 1 \in 1..n /\ ~(i - 1 < k) /\ (i - 1) + 1 = i BY <1>1, <1>3, <2>2
    <3> QED BY <1>1, <3>1
  <2> QED BY <2>1, <2>2
<1>4. \A i \in 1..Len(s) : s[i] \in Members(r) \/ s[i] \in gone BY <1>1, <1>3, ZenonT(30) DEF Members
<1>5. ASSUME NEW i \in 1..Len(s), NEW j \in 1..Len(s), NEW x \in 1..n, NEW y \in 1..n,
             i <= j, r[x] = s[i], r[y] = s[j]
      PROVE  x <= y
  <2>1. x = (IF i < k THEN i ELSE i - 1) /\ y = (IF j < k THEN j ELSE j - 1) /\ i # k /\ j # k BY <1>2, <1>5
  <2> QED BY <1>1, <1>5, <2>1
<1>6. Keeps(s, r, gone) BY <1>1, <1>4, <1>5 DEF Keeps
<1>7. ASSUME NEW e \in Members(r) PROVE e \in Members(s) \ {s[k]}
  <2>1. PICK x \in 1..n : e = r[x] BY <1>1, <1>7 DEF Members
  <2>2. PICK i \in 1..Len(s) : e = s[i] BY <1>1, <2>1
  <2>3. i # k BY <1>2, <2>1, <2>2
  <2>4. e # s[k] BY <2>2, <2>3
  <2> QED BY <2>2, <2>4 DEF Members
<1>8. ASSUME NEW e \in Members(s), e # s[k] PROVE e \in Members(r)
  <2>1. PICK i \in 1..Len(s) : e = s[i] BY <1>8 DEF Members
  <2>2. i # k BY <1>8, <2>1
  <2> QED BY <1>1, <1>3, <2>1, <2>2 DEF Members
<1> QED BY <1>6, <1>7, <1>8 DEF r

(* hash_table_remove takes one node out of the chain of the key's bucket.   *)
LEMMA RemoveView ==
  ASSUME TypeOK, Whole, Homes, NEW k \in Keys, hash_table_remove(k)
  PROVE  \E i \in 1..Len(Chain(Bucket[k])) :
           /\ \A b \in Buckets :
                Spells(next', table'[b], Changed(Bucket[k], Without(Chain(Bucket[k]), i))[b])
           /\ freed' = freed \union {Chain(Bucket[k])[i]} /\ i \in Matching(k)
           /\ table' \in [Buckets -> Data \union {NULL}]
           /\ next' \in [Data -> Data \union {NULL}]
<1>0. table \in [Buckets -> Data \union {NULL}] /\ next \in [Data -> Data \union {NULL}] BY DEF TypeOK
<1>1. PICK b \in Buckets : b = Bucket[k] BY TableConstants
<1> DEFINE s == Chain(b)
<1>2. s \in Seq(Data) /\ Len(s) \in Nat /\ Spells(next, table[b], s) BY BucketIs
<1>3. PICK i \in Matching(k) : Unlink(b, i) /\ freed' = freed \union {s[i]} BY <1>1 DEF hash_table_remove
<1>4. i \in 1..Len(s) BY <1>1, <1>2, <1>3 DEF Matching, Places
<1>5. IF i = 1
        THEN table' = [table EXCEPT ![b] = next[s[i]]] /\ next' = next
        ELSE table' = table /\ next' = [next EXCEPT ![s[i - 1]] = next[s[i]]]
  BY <1>3 DEF Unlink
<1> HIDE DEF s
<1>6. s[i] \in Data /\ (i # 1 => s[i - 1] \in Data /\ s[i - 1] \in Members(s))
  <2>1. i # 1 => i - 1 \in 1..Len(s) BY <1>2, <1>4
  <2> QED BY <1>2, <1>4, <2>1 DEF Members
<1>7. table' \in [Buckets -> Data \union {NULL}] /\ next' \in [Data -> Data \union {NULL}]
  <2>1. next[s[i]] \in Data \union {NULL} BY <1>0, <1>6
  <2> QED BY <1>0, <1>5, <2>1
<1>8. Spells(next', table'[b], Without(s, i))
  <2>1. IF i = 1
          THEN table'[b] = next[s[i]] /\ next' = next
          ELSE table'[b] = table[b] /\ next' = [next EXCEPT ![s[i - 1]] = next[s[i]]]
    BY <1>0, <1>5
  <2> QED BY <1>0, <1>2, <1>4, <2>1, RemoveSpells
<1>9. ASSUME NEW c \in Buckets, c # b PROVE Spells(next', table'[c], Chain(c))
  <2>1. Spells(next, table[c], Chain(c)) /\ table'[c] = table[c] BY <1>0, <1>5, <1>9, BucketIs
  <2>2. ASSUME NEW e \in Members(Chain(c)) PROVE next'[e] = next[e]
    <3>1. e \in Data /\ e \notin Members(s) BY <1>9 DEF Homes, s
    <3>2. CASE i = 1 BY <1>5, <3>2
    <3>3. CASE i # 1
      <4>1. e # s[i - 1] BY <1>6, <3>1, <3>3
      <4> QED BY <1>0, <1>5, <3>1, <3>3, <4>1
    <3> QED BY <3>2, <3>3
  <2> QED BY <2>1, <2>2, FrameSpells
<1>10. \A c \in Buckets : Spells(next', table'[c], Changed(b, Without(s, i))[c]) BY <1>8, <1>9 DEF Changed
<1> QED BY <1>1, <1>3, <1>4, <1>7, <1>10 DEF s

(* A change under the lock: the new chains are spelled by the new links,    *)
(* hold nodes that belong there and no freed one, and keep the order.       *)
LEMMA LockedStep ==
  ASSUME TableInv, TypeOK', Witness, UNCHANGED lookupVars, freed \subseteq freed', NEW C,
         \A b \in Buckets : Spells(next', table'[b], C[b]),
         \A b \in Buckets : \A d \in Members(C[b]) :
           d \in Data /\ d \notin freed' /\ key'[d] \in Keys /\ Bucket[key'[d]] = b,
         \A b \in Buckets : Keeps(Chain(b), C[b], freed')
  PROVE  TableInv'
<1>1. Whole' /\ \A b \in Buckets : Chain(b)' = C[b] /\ Nodes(b)' = Members(C[b]) BY NewChains
<1>2. \A b \in Buckets : Len(C[b]) \in Nat BY DEF Spells
<1>3. freed' \subseteq Data BY DEF TypeOK
<1>4. Homes' BY <1>1 DEF Homes, Buckets
<1>5. TypeOK /\ Walks /\ LookupRight BY DEF TableInv
<1>6. Walks' /\ LookupRight' BY <1>1, <1>2, <1>3, <1>5, WalksKept
<1> QED BY <1>1, <1>4, <1>6 DEF TableInv

(* Witness keeps the types of the history.                                  *)
LEMMA WitnessType ==
  ASSUME TypeOK, Witness, UNCHANGED lookupVars, UNCHANGED status,
         table' \in [Buckets -> Data \union {NULL}], next' \in [Data -> Data \union {NULL}],
         key' \in [Data -> Keys \union {NULL}], freed' \in SUBSET Data, given' \in SUBSET Data
  PROVE  TypeOK'
<1>2. seen' \in [Threads -> SUBSET Data] /\ always' \in [Threads -> SUBSET Data]
  <2>1. ASSUME NEW t \in Threads PROVE seen'[t] \in SUBSET Data /\ always'[t] \in SUBSET Data
    <3>1. (Under(sought[t]))' \subseteq Data BY DEF Under
    <3>2. seen[t] \in SUBSET Data /\ always[t] \in SUBSET Data BY DEF TypeOK
    <3>3. /\ seen'[t] = IF pc[t] = "walk" THEN seen[t] \union (Under(sought[t]))' ELSE seen[t]
          /\ always'[t] = IF pc[t] = "walk" THEN always[t] \intersect (Under(sought[t]))' ELSE always[t]
      BY DEF Witness
    <3> QED BY <3>1, <3>2, <3>3
  <2>2. /\ seen' = [t \in Threads |-> seen'[t]] /\ always' = [t \in Threads |-> always'[t]]
    BY DEF Witness
  <2> QED BY <2>1, <2>2
<1> QED BY <1>2 DEF TypeOK, lookupVars, Buckets

(* hash_table_add keeps the invariant.                                      *)
LEMMA AddStep ==
  ASSUME TableInv, NEW d \in Data, NEW k \in Keys, hash_table_add(d, k)
  PROVE  TableInv'
<1>0. TypeOK /\ Whole /\ Homes BY DEF TableInv
<1>1. PICK b \in Buckets : b = Bucket[k] BY TableConstants
<1> DEFINE s == Chain(b)
           C == Changed(b, Append(s, d))
<1>2. /\ Witness /\ UNCHANGED lookupVars /\ UNCHANGED status /\ freed' = freed /\ d \notin freed
      /\ key' = [key EXCEPT ![d] = k] /\ given' = given \union {d}
  BY DEF hash_table_add
<1>3. /\ \A c \in Buckets : d \notin Members(Chain(c))
      /\ \A c \in Buckets : Spells(next', table'[c], C[c])
      /\ table' \in [Buckets -> Data \union {NULL}] /\ next' \in [Data -> Data \union {NULL}]
  BY <1>0, <1>1, AddView
<1>4. TypeOK'
  <2>1. key' \in [Data -> Keys \union {NULL}] BY <1>0, <1>2 DEF TypeOK
  <2>2. freed' \in SUBSET Data /\ given' \in SUBSET Data BY <1>0, <1>2 DEF TypeOK
  <2> QED BY <1>0, <1>2, <1>3, <2>1, <2>2, WitnessType
<1>5. ASSUME NEW c \in Buckets
      PROVE  /\ Keeps(Chain(c), C[c], freed')
             /\ Members(C[c]) = IF c = b THEN Members(s) \union {d} ELSE Members(Chain(c))
  <2>1. Chain(c) \in Seq(Data) /\ \A i, j \in 1..Len(Chain(c)) : Chain(c)[i] = Chain(c)[j] => i = j
    BY <1>0, BucketIs DEF Spells
  <2>2. d \notin Members(Chain(c)) BY <1>3
  <2>3. /\ Keeps(Chain(c), Append(Chain(c), d), freed') /\ Keeps(Chain(c), Chain(c), freed')
        /\ Members(Append(Chain(c), d)) = Members(Chain(c)) \union {d}
    BY <2>1, <2>2, AppendKeeps
  <2>4. C[c] = IF c = b THEN Append(Chain(c), d) ELSE Chain(c) BY DEF Changed
  <2> HIDE DEF C
  <2> QED BY <2>3, <2>4
<1>6. ASSUME NEW c \in Buckets, NEW e \in Members(C[c])
      PROVE  e \in Data /\ e \notin freed' /\ key'[e] \in Keys /\ Bucket[key'[e]] = c
  <2>0. key \in [Data -> Keys \union {NULL}] BY <1>0 DEF TypeOK
  <2>1. CASE e = d
    <3>1. c = b BY <1>3, <1>5, <1>6, <2>1
    <3>2. key'[e] = k BY <1>2, <2>0, <2>1
    <3> QED BY <1>1, <1>2, <2>1, <3>1, <3>2
  <2>2. CASE e # d
    <3>1. e \in Members(Chain(c)) BY <1>5, <1>6, <2>2
    <3>2. e \in Data /\ e \notin freed /\ key[e] \in Keys /\ Bucket[key[e]] = c BY <1>0, <3>1 DEF Homes
    <3>3. key'[e] = key[e] BY <1>2, <2>0, <2>2, <3>2
    <3> QED BY <1>2, <3>2, <3>3
  <2> QED BY <2>1, <2>2
<1> HIDE DEF C
<1> QED BY <1>2, <1>3, <1>4, <1>5, <1>6, LockedStep

(* hash_table_remove keeps the invariant.                                   *)
LEMMA RemoveStep ==
  ASSUME TableInv, NEW k \in Keys, hash_table_remove(k)
  PROVE  TableInv'
<1>0. TypeOK /\ Whole /\ Homes BY DEF TableInv
<1>1. PICK b \in Buckets : b = Bucket[k] BY TableConstants
<1> DEFINE s == Chain(b)
<1>2. Witness /\ UNCHANGED lookupVars /\ UNCHANGED status /\ UNCHANGED key /\ given' = given
  BY DEF hash_table_remove
<1>3. PICK i \in 1..Len(s) :
        /\ \A c \in Buckets : Spells(next', table'[c], Changed(b, Without(s, i))[c])
        /\ freed' = freed \union {s[i]}
        /\ table' \in [Buckets -> Data \union {NULL}] /\ next' \in [Data -> Data \union {NULL}]
  BY <1>0, <1>1, RemoveView
<1> DEFINE C == Changed(b, Without(s, i))
<1>4. s \in Seq(Data) /\ \A x, y \in 1..Len(s) : s[x] = s[y] => x = y BY <1>0, BucketIs DEF Spells
<1>5. s[i] \in Data /\ s[i] \in Members(s) BY <1>3, <1>4 DEF Members
<1>6. TypeOK'
  <2>1. key' \in [Data -> Keys \union {NULL}] /\ freed' \in SUBSET Data /\ given' \in SUBSET Data
    BY <1>0, <1>2, <1>3, <1>5 DEF TypeOK
  <2> QED BY <1>0, <1>2, <1>3, <2>1, WitnessType
<1>7. ASSUME NEW c \in Buckets
      PROVE  /\ Keeps(Chain(c), C[c], freed')
             /\ Members(C[c]) = IF c = b THEN Members(s) \ {s[i]} ELSE Members(Chain(c))
  <2>1. CASE c = b
    <3>1. Keeps(s, Without(s, i), freed') /\ Members(Without(s, i)) = Members(s) \ {s[i]}
      BY <1>3, <1>4, WithoutKeeps
    <3>2. C[c] = Without(s, i) BY <2>1 DEF Changed
    <3> QED BY <2>1, <3>1, <3>2
  <2>2. CASE c # b
    <3>1. C[c] = Chain(c) BY <2>2 DEF Changed
    <3>2. \A x, y \in 1..Len(Chain(c)) : Chain(c)[x] = Chain(c)[y] => x = y BY <1>0, BucketIs DEF Spells
    <3> QED BY <2>2, <3>1, <3>2, SameKeeps
  <2> QED BY <2>1, <2>2
<1>8. ASSUME NEW c \in Buckets, NEW e \in Members(C[c])
      PROVE  e \in Data /\ e \notin freed' /\ key'[e] \in Keys /\ Bucket[key'[e]] = c
  <2>1. e \in Members(Chain(c)) BY <1>7, <1>8
  <2>2. e \in Data /\ e \notin freed /\ key[e] \in Keys /\ Bucket[key[e]] = c BY <1>0, <2>1 DEF Homes
  <2>3. e # s[i]
    <3>1. CASE c = b BY <1>7, <1>8, <3>1
    <3>2. CASE c # b BY <1>0, <1>5, <2>2, <3>2 DEF Homes
    <3> QED BY <3>1, <3>2
  <2> QED BY <1>2, <1>3, <2>2, <2>3
<1>9. \A c \in Buckets : Spells(next', table'[c], C[c]) BY <1>3
<1>10. freed \subseteq freed' BY <1>3
<1> HIDE DEF C
<1> QED BY <1>2, <1>6, <1>7, <1>8, <1>9, <1>10, LockedStep

(* Empty buckets, all their nodes freed.                                    *)
LEMMA ClearView ==
  ASSUME TypeOK, Whole, ClearBuckets
  PROVE  /\ \A b \in Buckets : Spells(next', table'[b], <<>>)
         /\ \A b \in Buckets : Keeps(Chain(b), <<>>, freed')
         /\ freed \subseteq freed' /\ freed' \in SUBSET Data
         /\ table' \in [Buckets -> Data \union {NULL}] /\ UNCHANGED <<next, key, given>>
<1>1. /\ freed' = freed \union {d \in Data : InTable(d)} /\ table' = [b \in Buckets |-> NULL]
      /\ UNCHANGED <<next, key, given>>
  BY DEF ClearBuckets
<1>2. \A b \in Buckets : Spells(next', table'[b], <<>>) BY <1>1 DEF Spells
<1>3. ASSUME NEW b \in Buckets PROVE Keeps(Chain(b), <<>>, freed')
  <2>1. Chain(b) \in Seq(Data) /\ Nodes(b) = Members(Chain(b)) BY BucketIs
  <2>2. ASSUME NEW i \in 1..Len(Chain(b)) PROVE Chain(b)[i] \in freed'
    <3>1. Chain(b)[i] \in Data /\ Chain(b)[i] \in Nodes(b) BY <2>1 DEF Members
    <3>2. InTable(Chain(b)[i]) BY <3>1 DEF InTable
    <3> QED BY <1>1, <3>1, <3>2
  <2> QED BY <2>2 DEF Keeps
<1>4. freed' \in SUBSET Data BY <1>1 DEF TypeOK
<1> QED BY <1>1, <1>2, <1>3, <1>4

(* hash_table_clear keeps it, with lookups in progress.                     *)
LEMMA ClearStep ==
  ASSUME TableInv, hash_table_clear
  PROVE  TableInv'
<1>0. TypeOK /\ Whole BY DEF TableInv
<1>1. ClearBuckets /\ Witness /\ UNCHANGED lookupVars /\ UNCHANGED status BY DEF hash_table_clear
<1>2. /\ \A b \in Buckets : Spells(next', table'[b], <<>>)
      /\ \A b \in Buckets : Keeps(Chain(b), <<>>, freed')
      /\ freed \subseteq freed' /\ freed' \in SUBSET Data
      /\ table' \in [Buckets -> Data \union {NULL}] /\ UNCHANGED <<next, key, given>>
  BY <1>0, <1>1, ClearView
<1>3. TypeOK'
  <2>1. /\ next' \in [Data -> Data \union {NULL}] /\ key' \in [Data -> Keys \union {NULL}]
        /\ given' \in SUBSET Data
    BY <1>0, <1>2 DEF TypeOK
  <2> QED BY <1>0, <1>1, <1>2, <2>1, WitnessType
<1> DEFINE C == [b \in Buckets |-> <<>>]
<1>4. \A b \in Buckets : C[b] = <<>> /\ Members(C[b]) = {} BY DEF Members
<1> HIDE DEF C
<1> QED BY <1>1, <1>2, <1>3, <1>4, LockedStep

(* hash_table_destroy has no lookup to disturb.                             *)
LEMMA DestroyStep ==
  ASSUME TableInv, hash_table_destroy
  PROVE  TableInv'
<1>0. TypeOK /\ Whole BY DEF TableInv
<1>1. /\ ClearBuckets /\ UNCHANGED <<pc, cursor, sought, seen, always>> /\ status' = "destroyed"
      /\ \A t \in Threads : pc[t] = "idle"
  BY DEF hash_table_destroy, lookupVars
<1>2. /\ \A b \in Buckets : Spells(next', table'[b], <<>>)
      /\ freed' \in SUBSET Data
      /\ table' \in [Buckets -> Data \union {NULL}] /\ UNCHANGED <<next, key, given>>
  BY <1>0, <1>1, ClearView
<1>3. TypeOK' BY <1>0, <1>1, <1>2 DEF TypeOK, Buckets, Statuses
<1> DEFINE C == [b \in Buckets |-> <<>>]
<1>4. \A b \in Buckets : C[b] = <<>> /\ Members(C[b]) = {} BY DEF Members
<1> HIDE DEF C
<1>5. Whole' /\ \A b \in Buckets : Chain(b)' = C[b] /\ Nodes(b)' = Members(C[b]) BY <1>2, <1>4, NewChains
<1>6. Homes' BY <1>4, <1>5 DEF Homes, Buckets
<1>7. Walks' /\ LookupRight' BY <1>1 DEF Walks, LookupRight
<1> QED BY <1>3, <1>5, <1>6, <1>7 DEF TableInv

----------------------------------------------------------------------------
(* Steps that leave the table alone leave its chains and entries alone.     *)
LEMMA SameTable ==
  ASSUME TableInv, UNCHANGED tableVars
  PROVE  /\ Whole' /\ Homes'
         /\ \A b : Chain(b)' = Chain(b)
         /\ \A k : (Under(k))' = Under(k)
<1>1. UNCHANGED <<table, next, key, freed>> BY DEF tableVars
<1>2. \A b : (Nth(b))' = Nth(b) BY <1>1 DEF Nth, Follow
<1>3. \A b : Nodes(b)' = Nodes(b) BY <1>2 DEF Nodes
<1>4. \A b : Chain(b)' = Chain(b) BY <1>2, <1>3 DEF Chain, ChainLength
<1>5. \A k : (Under(k))' = Under(k) BY <1>1, <1>3 DEF Under, InTable, SameKey, Buckets
<1>6. Whole' /\ Homes' BY <1>1, <1>4 DEF TableInv, Whole, Homes, Buckets
<1> QED BY <1>4, <1>5, <1>6

(* The lookups that are not the one that moves.                             *)
LEMMA OthersWalk ==
  ASSUME TableInv, UNCHANGED tableVars, NEW u \in Threads,
         UNCHANGED <<pc[u], cursor[u], sought[u], seen[u], always[u]>>
  PROVE  pc'[u] = "walk" => (WalkOk(u))'
<1> SUFFICES ASSUME pc[u] = "walk" PROVE (WalkOk(u))' OBVIOUS
<1>1. PICK k \in Keys : k = sought[u] BY DEF TableInv, Walks, WalkOk
<1>2. WalkOk(u) BY DEF TableInv, Walks
<1>3. (Under(k))' = Under(k) /\ (Chain(Bucket[k]))' = Chain(Bucket[k]) BY SameTable
<1>4. sought'[u] = k /\ (Under(sought[u]))' = Under(k) /\ (Chain(Bucket[sought[u]]))' = Chain(Bucket[k])
  BY <1>1, <1>3
<1>5. freed' = freed BY DEF tableVars
<1> QED BY <1>1, <1>2, <1>4, <1>5 DEF WalkOk

(* find and list look at the whole table and change nothing; nor does an    *)
(* add without memory for its node.                                         *)
LEMMA FindStep ==
  ASSUME TableInv, UNCHANGED <<tableVars, lookupVars, seen, always>>,
         status' \in Statuses, given' \in SUBSET Data
  PROVE  TableInv'
<1>1. UNCHANGED tableVars /\ UNCHANGED <<table, next, key, freed, pc, cursor, sought, seen, always>>
  BY DEF tableVars, lookupVars
<1>2. TypeOK' BY <1>1 DEF TableInv, TypeOK, Buckets
<1>3. Whole' /\ Homes' BY <1>1, SameTable
<1>4. ASSUME NEW u \in Threads PROVE pc'[u] = "walk" => (WalkOk(u))' BY <1>1, OthersWalk
<1>5. LookupRight' BY <1>1 DEF TableInv, LookupRight
<1> QED BY <1>2, <1>3, <1>4, <1>5 DEF TableInv, Walks

(* A lookup begins at the head of the bucket, with all entries ahead.       *)
LEMMA BeginStep ==
  ASSUME TableInv, NEW t \in Threads, NEW k \in Keys, LookupBegin(t, k)
  PROVE  TableInv'
<1>0. TypeOK /\ Whole /\ Homes BY DEF TableInv
<1>1. /\ UNCHANGED tableVars /\ UNCHANGED <<table, next, key, freed, given, status>>
      /\ pc' = [pc EXCEPT ![t] = "walk"] /\ cursor' = [cursor EXCEPT ![t] = table[Bucket[k]]]
      /\ sought' = [sought EXCEPT ![t] = k]
      /\ seen' = [seen EXCEPT ![t] = Under(k)] /\ always' = [always EXCEPT ![t] = Under(k)]
  BY DEF LookupBegin, tableVars
<1>2. PICK b \in Buckets : b = Bucket[k] BY TableConstants
<1>3. TypeOK'
  <2>1. table[b] \in Data \union {NULL} /\ Under(k) \in SUBSET Data BY <1>0 DEF TypeOK, Under
  <2> QED BY <1>0, <1>1, <1>2, <2>1 DEF TypeOK, Buckets
<1>4. Whole' /\ Homes' BY <1>1, SameTable
<1>5. (WalkOk(t))'
  <2>0. /\ cursor'[t] = table[b] /\ sought'[t] = k /\ seen'[t] = Under(k) /\ always'[t] = Under(k)
    BY <1>0, <1>1, <1>2 DEF TypeOK
  <2>1. (Under(k))' = Under(k) /\ (Chain(b))' = Chain(b) BY <1>1, SameTable
  <2>2. (Under(sought[t]))' = Under(k) /\ (Chain(Bucket[sought[t]]))' = Chain(b) BY <1>2, <2>0, <2>1
  <2> DEFINE s == Chain(b)
  <2>3. s \in Seq(Data) /\ Len(s) \in Nat /\ table[b] = IF Len(s) = 0 THEN NULL ELSE s[1]
    BY <1>0, BucketIs DEF Spells
  <2>4. \A d \in Under(k) : d \in Members(s) BY <1>0, <1>2, UnderNow
  <2> HIDE DEF s
  <2>5. Before(s, table[b], Under(k))
    <3>1. CASE Len(s) = 0
      <4>1. Under(k) = {} BY <2>4, <3>1 DEF Members
      <4> QED BY <2>3, <3>1, <4>1 DEF Before
    <3>2. CASE Len(s) # 0
      <4>1. 1 \in 1..Len(s) /\ s[1] = table[b] BY <2>3, <3>2
      <4>2. s[1] \in Data BY <2>3, <4>1
      <4>3. \A d \in Under(k) : \E q \in 1..Len(s) : s[q] = d BY <2>4 DEF Members
      <4> QED BY <4>1, <4>2, <4>3, TableConstants DEF Before
    <3> QED BY <3>1, <3>2
  <2> QED BY <2>0, <2>2, <2>5 DEF WalkOk, s
<1>6. ASSUME NEW u \in Threads, u # t PROVE pc'[u] = "walk" => (WalkOk(u))'
  <2>1. UNCHANGED <<pc[u], cursor[u], sought[u], seen[u], always[u]>> BY <1>0, <1>1, <1>6 DEF TypeOK
  <2> QED BY <1>1, <2>1, OthersWalk
<1>7. LookupRight' BY <1>0, <1>1 DEF TableInv, TypeOK, LookupRight
<1> QED BY <1>3, <1>4, <1>5, <1>6, <1>7 DEF TableInv, Walks

(* It runs off the chain: nothing was there all the time.                   *)
LEMMA EndStep ==
  ASSUME TableInv, NEW t \in Threads, LookupEnd(t)
  PROVE  TableInv'
<1>0. TypeOK BY DEF TableInv
<1>1. /\ UNCHANGED tableVars /\ UNCHANGED <<table, next, key, freed, given, status, cursor, sought, seen, always>>
      /\ pc[t] = "walk" /\ cursor[t] = NULL /\ pc' = [pc EXCEPT ![t] = "missing"]
  BY DEF LookupEnd, tableVars
<1>2. TypeOK' BY <1>0, <1>1 DEF TypeOK, Buckets
<1>3. Whole' /\ Homes' BY <1>1, SameTable
<1>4. always[t] = {}
  <2>1. cursor[t] \in freed \/ Before(Chain(Bucket[sought[t]]), cursor[t], always[t])
    BY <1>1 DEF TableInv, Walks, WalkOk
  <2>2. NULL \notin freed BY <1>0, TableConstants DEF TypeOK
  <2> QED BY <1>1, <2>1, <2>2 DEF Before
<1>5. ASSUME NEW u \in Threads PROVE pc'[u] = "walk" => (WalkOk(u))'
  <2>1. CASE u = t BY <1>0, <1>1, <2>1 DEF TypeOK
  <2>2. CASE u # t
    <3>1. UNCHANGED <<pc[u], cursor[u], sought[u], seen[u], always[u]>> BY <1>0, <1>1, <2>2 DEF TypeOK
    <3> QED BY <1>1, <3>1, OthersWalk
  <2> QED BY <2>1, <2>2
<1>6. LookupRight' BY <1>0, <1>1, <1>4 DEF TableInv, TypeOK, LookupRight
<1> QED BY <1>2, <1>3, <1>5, <1>6 DEF TableInv, Walks

(* At a node that was not freed the lookup finds an entry of the table, or  *)
(* goes on to the next node and leaves nothing it seeks behind.             *)
LEMMA AdvanceFacts ==
  ASSUME TableInv, NEW t \in Threads, pc[t] = "walk", cursor[t] \in Data \ freed,
         NEW k \in Keys, k = sought[t]
  PROVE  /\ SameKey(cursor[t], k) => cursor[t] \in seen[t]
         /\ ~SameKey(cursor[t], k) => Before(Chain(Bucket[k]), next[cursor[t]], always[t])
<1>0. TypeOK /\ Whole /\ Homes BY DEF TableInv
<1>1. PICK b \in Buckets : b = Bucket[k] BY TableConstants
<1> DEFINE s == Chain(b)
           c == cursor[t]
<1>2. /\ s \in Seq(Data) /\ Len(s) \in Nat
      /\ \A i \in 1..Len(s) : next[s[i]] = IF i = Len(s) THEN NULL ELSE s[i + 1]
  BY <1>0, BucketIs DEF Spells
<1>3. /\ always[t] \subseteq Under(k) /\ Under(k) \subseteq seen[t]
      /\ Before(s, c, always[t])
  BY <1>1 DEF TableInv, Walks, WalkOk
<1>4. \A d : d \in Under(k) <=> d \in Members(s) /\ SameKey(d, k) BY <1>0, <1>1, UnderNow
<1>5. c # NULL BY TableConstants
<1>6. PICK p \in 1..Len(s) : s[p] = c /\ \A d \in always[t] : \E q \in p..Len(s) : s[q] = d
  BY <1>3, <1>5 DEF Before
<1>7. SameKey(c, k) => c \in seen[t] BY <1>3, <1>4, <1>6 DEF Members
<1>8. ASSUME ~SameKey(c, k) PROVE Before(s, next[c], always[t])
  <2>1. ASSUME NEW d \in always[t] PROVE \E q \in (p + 1)..Len(s) : s[q] = d
    <3>1. PICK q \in p..Len(s) : s[q] = d BY <1>6
    <3>2. SameKey(d, k) BY <1>3, <1>4
    <3>3. q # p BY <1>6, <1>8, <3>1, <3>2
    <3>4. q \in (p + 1)..Len(s) BY <1>2, <1>6, <3>1, <3>3
    <3> QED BY <3>1, <3>4
  <2> HIDE DEF s, c
  <2>2. CASE p = Len(s)
    <3>1. next[c] = NULL BY <1>2, <1>6, <2>2
    <3>2. \A q : q \notin (p + 1)..Len(s) BY <1>2, <2>2
    <3>3. always[t] = {} BY <2>1, <3>2
    <3> QED BY <3>1, <3>3 DEF Before
  <2>3. CASE p # Len(s)
    <3>1. p + 1 \in 1..Len(s) BY <1>2, <1>6, <2>3
    <3>2. next[c] = s[p + 1] /\ s[p + 1] \in Data BY <1>2, <1>6, <2>3, <3>1
    <3> QED BY <2>1, <3>1, <3>2, TableConstants DEF Before
  <2> QED BY <2>2, <2>3
<1> QED BY <1>1, <1>7, <1>8

(* A step of a lookup keeps the invariant.                                  *)
LEMMA WalkStep ==
  ASSUME TableInv, NEW t \in Threads, LookupStep(t)
  PROVE  TableInv'
<1>0. TypeOK BY DEF TableInv
<1>1. /\ UNCHANGED tableVars /\ UNCHANGED <<table, next, key, freed, given, status, sought, seen, always>>
      /\ pc[t] = "walk" /\ cursor[t] \in Data \ freed
      /\ IF SameKey(cursor[t], sought[t])
           THEN pc' = [pc EXCEPT ![t] = "found"] /\ cursor' = cursor
           ELSE cursor' = [cursor EXCEPT ![t] = next[cursor[t]]] /\ pc' = pc
  BY DEF LookupStep, tableVars
<1>2. WalkOk(t) BY <1>1 DEF TableInv, Walks
<1>3. PICK k \in Keys : k = sought[t] BY <1>2 DEF WalkOk
<1>4. /\ SameKey(cursor[t], k) => cursor[t] \in seen[t]
      /\ ~SameKey(cursor[t], k) => Before(Chain(Bucket[k]), next[cursor[t]], always[t])
  BY <1>1, <1>3, AdvanceFacts
<1>5. TypeOK'
  <2>1. next[cursor[t]] \in Data \union {NULL} BY <1>0, <1>1 DEF TypeOK
  <2> QED BY <1>0, <1>1, <2>1 DEF TypeOK, Buckets
<1>6. Whole' /\ Homes' BY <1>1, SameTable
<1>7. ASSUME NEW u \in Threads PROVE pc'[u] = "walk" => (WalkOk(u))'
  <2>1. CASE u = t
    <3>1. CASE SameKey(cursor[t], k) BY <1>0, <1>1, <1>3, <2>1, <3>1 DEF TypeOK
    <3>2. CASE ~SameKey(cursor[t], k)
      <4>1. cursor'[t] = next[cursor[t]] BY <1>0, <1>1, <1>3, <3>2 DEF TypeOK
      <4>2. (Under(k))' = Under(k) /\ (Chain(Bucket[k]))' = Chain(Bucket[k]) BY <1>1, SameTable
      <4>3. /\ sought'[t] = k /\ (Under(sought[t]))' = Under(k)
            /\ (Chain(Bucket[sought[t]]))' = Chain(Bucket[k])
        BY <1>1, <1>3, <4>2
      <4>4. always[t] \subseteq Under(k) /\ Under(k) \subseteq seen[t] BY <1>2, <1>3 DEF WalkOk
      <4>5. (WalkOk(t))' BY <1>1, <1>4, <3>2, <4>1, <4>3, <4>4 DEF WalkOk
      <4> QED BY <2>1, <4>5
    <3> QED BY <3>1, <3>2
  <2>2. CASE u # t
    <3>1. UNCHANGED <<pc[u], cursor[u], sought[u], seen[u], always[u]>> BY <1>0, <1>1, <2>2 DEF TypeOK
    <3> QED BY <1>1, <3>1, OthersWalk
  <2> QED BY <2>1, <2>2
<1>8. LookupRight'
  <2>1. LookupRight BY DEF TableInv
  <2> QED BY <1>0, <1>1, <1>3, <1>4, <2>1 DEF TypeOK, LookupRight
<1> QED BY <1>5, <1>6, <1>7, <1>8 DEF TableInv, Walks

(* So does its return.                                                      *)
LEMMA ReturnStep ==
  ASSUME TableInv, NEW t \in Threads, LookupReturn(t)
  PROVE  TableInv'
<1>0. TypeOK BY DEF TableInv
<1>1. /\ UNCHANGED tableVars /\ UNCHANGED <<table, next, key, freed, given, status>>
      /\ pc' = [pc EXCEPT ![t] = "idle"] /\ cursor' = [cursor EXCEPT ![t] = NULL]
      /\ sought' = [sought EXCEPT ![t] = NULL]
      /\ seen' = [seen EXCEPT ![t] = {}] /\ always' = [always EXCEPT ![t] = {}]
  BY DEF LookupReturn, tableVars
<1>2. TypeOK' BY <1>0, <1>1 DEF TypeOK, Buckets
<1>3. Whole' /\ Homes' BY <1>1, SameTable
<1>4. ASSUME NEW u \in Threads PROVE pc'[u] = "walk" => (WalkOk(u))'
  <2>1. CASE u = t BY <1>0, <1>1, <2>1 DEF TypeOK
  <2>2. CASE u # t
    <3>1. UNCHANGED <<pc[u], cursor[u], sought[u], seen[u], always[u]>> BY <1>0, <1>1, <2>2 DEF TypeOK
    <3> QED BY <1>1, <3>1, OthersWalk
  <2> QED BY <2>1, <2>2
<1>5. LookupRight' BY <1>0, <1>1 DEF TableInv, TypeOK, LookupRight
<1> QED BY <1>2, <1>3, <1>4, <1>5 DEF TableInv, Walks

----------------------------------------------------------------------------
(* hash_table_init: every bucket is the empty chain.                        *)
LEMMA TableInit == Init => TableInv
<1> SUFFICES ASSUME Init PROVE TableInv OBVIOUS
<1>1. \A b \in Buckets : Spells(next, table[b], <<>>) BY DEF Init, Spells
<1>2. ASSUME NEW b \in Buckets PROVE Chain(b) = <<>> BY <1>1, BucketNow
<1>3. Whole BY <1>1, <1>2 DEF Whole
<1>4. Homes BY <1>2 DEF Homes, Members
<1>5. TypeOK BY DEF Init, TypeOK, Statuses
<1>6. Walks /\ LookupRight BY DEF Init, Walks, LookupRight
<1> QED BY <1>3, <1>4, <1>5, <1>6 DEF TableInv

(* Every step keeps the invariant: one case per operation of the table and  *)
(* per step of a lookup.                                                    *)
LEMMA TableNext == TableInv /\ [Next]_vars => TableInv'
<1> SUFFICES ASSUME TableInv, [Next]_vars PROVE TableInv' OBVIOUS
<1>0. status \in Statuses /\ given \in SUBSET Data BY DEF TableInv, TypeOK
<1>1. ASSUME NEW d \in Data, NEW k \in Keys, hash_table_add(d, k) PROVE TableInv' BY <1>1, AddStep
<1>2. ASSUME NEW k \in Keys, hash_table_remove(k) PROVE TableInv' BY <1>2, RemoveStep
<1>3. ASSUME NEW matches, hash_table_find(matches) PROVE TableInv'
  <2>1. status' \in Statuses BY <1>3 DEF hash_table_find, Statuses
  <2> QED BY <1>0, <1>3, <2>1, FindStep DEF hash_table_find
<1>4. CASE hash_table_list BY <1>3, <1>4 DEF hash_table_list
<1>9. CASE UseNoBuckets
  <2>1. status' \in Statuses BY <1>9 DEF UseNoBuckets, Statuses
  <2> QED BY <1>0, <1>9, <2>1, FindStep DEF UseNoBuckets
<1>10. ASSUME NEW d \in Data, hash_table_add_fails(d) PROVE TableInv'
  <2>1. given' \in SUBSET Data /\ status' \in Statuses BY <1>0, <1>10 DEF hash_table_add_fails
  <2> QED BY <1>10, <2>1, FindStep DEF hash_table_add_fails
<1>5. CASE hash_table_clear BY <1>5, ClearStep
<1>6. CASE hash_table_destroy BY <1>6, DestroyStep
<1>7. ASSUME NEW t \in Threads, Lookup(t) PROVE TableInv'
  <2>1. CASE LookupEnd(t) BY <2>1, EndStep
  <2>2. CASE LookupStep(t) BY <2>2, WalkStep
  <2>3. CASE LookupFreed(t)
    <3>1. status' \in Statuses BY <2>3 DEF LookupFreed, Statuses
    <3> QED BY <1>0, <2>3, <3>1, FindStep DEF LookupFreed
  <2>4. CASE LookupReturn(t) BY <2>4, ReturnStep
  <2>5. ASSUME NEW k \in Keys, LookupBegin(t, k) PROVE TableInv' BY <2>5, BeginStep
  <2> QED BY <1>7, <2>1, <2>2, <2>3, <2>4, <2>5 DEF Lookup
<1>8. CASE UNCHANGED vars BY <1>0, <1>8, FindStep DEF vars
<1> QED BY <1>1, <1>2, <1>3, <1>4, <1>5, <1>6, <1>7, <1>8, <1>9, <1>10 DEF Next

(* The inductive invariant of the hash table.                               *)
THEOREM TableInvariant == Spec => []TableInv
<1> QED BY TableInit, TableNext, PTL DEF Spec

(* Whatever is added, removed or cleared, and whoever looks on, every       *)
(* bucket stays a chain that ends, of nodes that hash there, are in no      *)
(* other chain and were not freed: what add walks to its end and remove     *)
(* unlinks from.                                                            *)
THEOREM TableChainsWhole == Spec => []ChainsWhole
<1>1. TableInv => ChainsWhole
  <2> SUFFICES ASSUME TableInv PROVE ChainsWhole OBVIOUS
  <2>0. TypeOK /\ Whole /\ Homes BY DEF TableInv
  <2>1. ASSUME NEW b \in Buckets
        PROVE  Nth(b)[ChainLength(b)] = NULL /\ \A d \in Nodes(b) : d \notin freed /\ Bucket[key[d]] = b
    BY <2>0, BucketIs DEF Homes
  <2> QED BY <2>0, <2>1 DEF ChainsWhole
<1> QED BY <1>1, TableInvariant, PTL

(* hash_table_lookup takes no lock.  As long as it meets no freed node, the *)
(* datum it returns was in the table under that key at some moment of the   *)
(* call, and it returns NULL only if no entry with the key was there all    *)
(* the time, for any number of lookups, adds, removes and clears at once.   *)
THEOREM TableLookupRight == Spec => []LookupRight
<1>1. TableInv => LookupRight BY DEF TableInv
<1> QED BY <1>1, TableInvariant, PTL

----------------------------------------------------------------------------
(* The data of a chain s that, with keys k, have the prefix p: what the     *)
(* first i nodes contribute, and all of it.                                 *)
Line(s, k, p) ==
  CHOOSE f : f = [i \in 0..Len(s) |-> IF i = 0 THEN <<>>
                                      ELSE IF Prefix[k[s[i]]] = p THEN Append(f[i - 1], s[i])
                                      ELSE f[i - 1]]
Held(s, k, p) == Line(s, k, p)[Len(s)]

(* What holds of 0 and passes from each number to the next holds up to n.   *)
LEMMA Climb ==
  ASSUME NEW n \in Nat, NEW P, 0 \in P, \A i \in 1..n : i - 1 \in P => i \in P
  PROVE  \A i \in 0..n : i \in P
<1> SUFFICES ASSUME ~ \A i \in 0..n : i \in P PROVE FALSE OBVIOUS
<1> DEFINE Bad == {i \in 0..n : i \notin P}
<1>1. Bad \subseteq Nat /\ Bad # {} OBVIOUS
<1>2. PICK i \in Bad : \A j \in Bad : i <= j BY <1>1, LeastNumber
<1>3. i \in 0..n /\ i \notin P /\ i # 0 BY <1>2
<1>4. i \in 1..n /\ i - 1 \in 0..n BY <1>3
<1>5. i - 1 \notin P BY <1>3, <1>4
<1>6. i <= i - 1 BY <1>2, <1>4, <1>5
<1> QED BY <1>4, <1>6

(* A line of that kind exists for every chain: one for a shorter part of    *)
(* it is continued by one more node.                                        *)
LEMMA LineExists ==
  ASSUME NEW s \in Seq(Data), NEW k, NEW p
  PROVE  \E f : f = [i \in 0..Len(s) |-> IF i = 0 THEN <<>>
                                         ELSE IF Prefix[k[s[i]]] = p THEN Append(f[i - 1], s[i])
                                         ELSE f[i - 1]]
<1> DEFINE n == Len(s)
           Step(f, i) == IF i = 0 THEN <<>>
                         ELSE IF Prefix[k[s[i]]] = p THEN Append(f[i - 1], s[i]) ELSE f[i - 1]
           Good(m, f) == \A i \in 0..m : f[i] = Step(f, i)
           P == {m \in 0..n : \E f : Good(m, f)}
<1>0. n \in Nat OBVIOUS
<1>1. 0 \in P
  <2> DEFINE f == [i \in {0} |-> <<>>]
  <2>1. f[0] = Step(f, 0) OBVIOUS
  <2>2. \A i \in 0..0 : i = 0 OBVIOUS
  <2> HIDE DEF f, Step
  <2>3. Good(0, f) BY <2>1, <2>2
  <2> QED BY <1>0, <2>3
<1>2. ASSUME NEW m \in 1..n, m - 1 \in P PROVE m \in P
  <2>1. PICK f : Good(m - 1, f) BY <1>2
  <2> DEFINE g == [i \in 0..m |-> IF i = m THEN Step(f, m) ELSE f[i]]
  <2>2. ASSUME NEW i \in 0..m PROVE g[i] = Step(g, i)
    <3>0. i \in Nat /\ m \in Nat /\ m # 0 BY <1>0
    <3>1. i # 0 => i - 1 \in 0..m /\ i - 1 # m BY <3>0
    <3>2. i # 0 => g[i - 1] = f[i - 1] BY <3>1
    <3>3. Step(g, i) = Step(f, i) BY <3>2
    <3>4. i # m => i \in 0..(m - 1) BY <3>0
    <3>5. i # m => f[i] = Step(f, i) BY <2>1, <3>4
    <3> HIDE DEF Step
    <3> QED BY <3>3, <3>5
  <2> HIDE DEF g, Step
  <2>3. Good(m, g) BY <2>2
  <2> HIDE DEF Good
  <2> QED BY <2>3
<1>3. n \in P
  <2> HIDE DEF P
  <2>1. \A m \in 0..n : m \in P BY <1>0, <1>1, <1>2, Climb
  <2> QED BY <1>0, <2>1
<1>4. PICK f : Good(n, f) BY <1>3
<1> DEFINE h == [i \in 0..n |-> f[i]]
<1>5. ASSUME NEW i \in 0..n PROVE h[i] = Step(h, i)
  <2>1. i # 0 => i - 1 \in 0..n BY <1>0
  <2>2. i # 0 => h[i - 1] = f[i - 1] BY <2>1
  <2>3. Step(h, i) = Step(f, i) BY <2>2
  <2>4. f[i] = Step(f, i) BY <1>4
  <2> HIDE DEF Step
  <2> QED BY <2>3, <2>4
<1>6. h = [i \in 0..n |-> h[i]] OBVIOUS
<1> HIDE DEF h
<1>7. h = [i \in 0..n |-> Step(h, i)] BY <1>5, <1>6
<1> QED BY <1>7

(* What a line is, step by step.                                            *)
LEMMA LineIs ==
  ASSUME NEW s \in Seq(Data), NEW k, NEW p
  PROVE  /\ Line(s, k, p)[0] = <<>>
         /\ \A i \in 1..Len(s) :
              Line(s, k, p)[i] = IF Prefix[k[s[i]]] = p THEN Append(Line(s, k, p)[i - 1], s[i])
                                                        ELSE Line(s, k, p)[i - 1]
         /\ \A i \in 0..Len(s) : Line(s, k, p)[i] \in Seq(Data)
         /\ Held(s, k, p) \in Seq(Data)
<1> DEFINE f == Line(s, k, p)
           n == Len(s)
<1>0. n \in Nat OBVIOUS
<1> DEFINE Def(g) == [i \in 0..n |-> IF i = 0 THEN <<>>
                                     ELSE IF Prefix[k[s[i]]] = p THEN Append(g[i - 1], s[i]) ELSE g[i - 1]]
<1>b. f = CHOOSE g : g = Def(g) BY DEF Line
<1>c. \E g : g = Def(g) BY LineExists
<1>d. f = Def(f)
  <2> HIDE DEF f, Def
  <2> QED BY <1>b, <1>c
<1>a. \A i \in 1..n : s[i] \in Data OBVIOUS
<1>1. \A i \in 0..n : f[i] = IF i = 0 THEN <<>>
                              ELSE IF Prefix[k[s[i]]] = p THEN Append(f[i - 1], s[i]) ELSE f[i - 1]
  <2> HIDE DEF f, n
  <2> QED BY <1>d
<1> HIDE DEF f, n
<1>2. f[0] = <<>> BY <1>0, <1>1
<1>3. \A i \in 1..n : f[i] = IF Prefix[k[s[i]]] = p THEN Append(f[i - 1], s[i]) ELSE f[i - 1]
  BY <1>0, <1>1
<1> DEFINE P == {i \in 0..n : f[i] \in Seq(Data)}
<1>4. 0 \in P
  <2>1. <<>> \in Seq(Data) OBVIOUS
  <2>2. 0 \in 0..n BY <1>0
  <2> QED BY <1>2, <2>1, <2>2
<1>5. ASSUME NEW i \in 1..n, i - 1 \in P PROVE i \in P
  <2>1. s[i] \in Data /\ f[i - 1] \in Seq(Data) BY <1>a, <1>5
  <2>2. PICK x \in Data, t \in Seq(Data) : x = s[i] /\ t = f[i - 1] BY <2>1
  <2>3. Append(t, x) \in Seq(Data) OBVIOUS
  <2>4. f[i] = t \/ f[i] = Append(t, x) BY <1>3, <2>2
  <2>5. i \in 0..n BY <1>0
  <2> QED BY <2>3, <2>4, <2>5
<1>6. \A i \in 0..n : i \in P
  <2> HIDE DEF P
  <2> QED BY <1>0, <1>4, <1>5, Climb
<1>7. n \in 0..n BY <1>0
<1> QED BY <1>2, <1>3, <1>6, <1>7 DEF f, n, Held

Alike(s, r, k, l, p, m) ==
  \A i \in 1..m : s[i] = r[i] /\ (Prefix[k[s[i]]] = p <=> Prefix[l[r[i]]] = p)

(* Chains that agree as far as m, with keys of which the same have the      *)
(* prefix, contribute the same as far as m.                                 *)
LEMMA LinesAgree ==
  ASSUME NEW s \in Seq(Data), NEW r \in Seq(Data), NEW k, NEW l, NEW p, NEW m \in Nat,
         m <= Len(s), m <= Len(r), Alike(s, r, k, l, p, m)
  PROVE  \A i \in 0..m : Line(s, k, p)[i] = Line(r, l, p)[i]
<1> DEFINE f == Line(s, k, p)
           g == Line(r, l, p)
           P == {i \in 0..m : f[i] = g[i]}
<1>1. /\ f[0] = <<>>
      /\ \A i \in 1..Len(s) : f[i] = IF Prefix[k[s[i]]] = p THEN Append(f[i - 1], s[i]) ELSE f[i - 1]
  BY LineIs
<1>2. /\ g[0] = <<>>
      /\ \A i \in 1..Len(r) : g[i] = IF Prefix[l[r[i]]] = p THEN Append(g[i - 1], r[i]) ELSE g[i - 1]
  BY LineIs
<1> HIDE DEF f, g
<1>3. 0 \in P BY <1>1, <1>2
<1>4. ASSUME NEW i \in 1..m, i - 1 \in P PROVE i \in P
  <2>1. i \in 1..Len(s) /\ i \in 1..Len(r) /\ i \in 0..m OBVIOUS
  <2>2. f[i - 1] = g[i - 1] BY <1>4
  <2>3. s[i] = r[i] /\ (Prefix[k[s[i]]] = p <=> Prefix[l[r[i]]] = p) BY DEF Alike
  <2>4. f[i] = g[i] BY <1>1, <1>2, <2>1, <2>2, <2>3
  <2> QED BY <2>1, <2>4
<1> HIDE DEF P
<1>5. \A i \in 0..m : i \in P BY <1>3, <1>4, Climb
<1> QED BY <1>5 DEF P, f, g

(* The same chain, with keys of which the same have the prefix.             *)
LEMMA HeldSame ==
  ASSUME NEW s \in Seq(Data), NEW k, NEW l, NEW p, Alike(s, s, k, l, p, Len(s))
  PROVE  Held(s, k, p) = Held(s, l, p)
<1>1. Len(s) \in Nat /\ Len(s) <= Len(s) /\ Len(s) \in 0..Len(s) OBVIOUS
<1>2. \A i \in 0..Len(s) : Line(s, k, p)[i] = Line(s, l, p)[i] BY <1>1, LinesAgree
<1> QED BY <1>1, <1>2 DEF Held

(* A new last node joins the line if it has the prefix.                     *)
LEMMA HeldAppend ==
  ASSUME NEW s \in Seq(Data), NEW d \in Data, NEW k, NEW l, NEW p, Alike(s, s, k, l, p, Len(s))
  PROVE  Held(Append(s, d), l, p) = IF Prefix[l[d]] = p THEN Append(Held(s, k, p), d) ELSE Held(s, k, p)
<1> DEFINE n == Len(s)
           r == Append(s, d)
<1>1. n \in Nat /\ r \in Seq(Data) /\ Len(r) = n + 1 /\ r[n + 1] = d /\ \A i \in 1..n : r[i] = s[i] OBVIOUS
<1> HIDE DEF r
<1>2. n <= Len(s) /\ n <= Len(r) /\ n \in 0..n /\ n + 1 \in 1..Len(r) /\ (n + 1) - 1 = n BY <1>1
<1>3. Alike(s, r, k, l, p, n) BY <1>1 DEF Alike
<1>4. \A i \in 0..n : Line(s, k, p)[i] = Line(r, l, p)[i] BY <1>1, <1>2, <1>3, LinesAgree
<1>5. Line(r, l, p)[n + 1] = IF Prefix[l[r[n + 1]]] = p THEN Append(Line(r, l, p)[(n + 1) - 1], r[n + 1])
                                                        ELSE Line(r, l, p)[(n + 1) - 1]
  BY <1>1, <1>2, LineIs
<1>6. Line(r, l, p)[n] = Held(s, k, p) BY <1>2, <1>4 DEF Held
<1> QED BY <1>1, <1>2, <1>5, <1>6 DEF Held, r

(* Of the nodes that have the prefix the first is taken out: the line loses *)
(* its head.  A node that does not have it leaves the line as it was.       *)
LEMMA HeldWithout ==
  ASSUME NEW s \in Seq(Data), NEW j \in 1..Len(s), NEW k, NEW p,
         \A i \in 1..Len(s) : i < j /\ Prefix[k[s[j]]] = p => Prefix[k[s[i]]] # p
  PROVE  IF Prefix[k[s[j]]] = p
           THEN Held(s, k, p) # <<>> /\ Held(Without(s, j), k, p) = Tail(Held(s, k, p))
           ELSE Held(Without(s, j), k, p) = Held(s, k, p)
<1> DEFINE n == Len(s)
           r == Without(s, j)
           f == Line(s, k, p)
           g == Line(r, k, p)
           Now(t, x) == IF Prefix[k[x]] = p THEN Append(t, x) ELSE t
           More(t) == IF Prefix[k[s[j]]] = p THEN <<s[j]>> \o t ELSE t
<1>1. /\ r \in Seq(Data) /\ Len(r) = n - 1 /\ n \in Nat /\ n - 1 \in Nat
      /\ \A i \in 1..(n - 1) : r[i] = (IF i < j THEN s[i] ELSE s[i + 1]) /\ i \in 1..n /\ i + 1 \in 1..n
  BY WithoutFacts
<1>2. f[0] = <<>> /\ \A i \in 1..n : f[i] = Now(f[i - 1], s[i]) BY LineIs
<1> HIDE DEF r
<1>3. /\ g[0] = <<>> /\ \A i \in 1..(n - 1) : g[i] = Now(g[i - 1], r[i])
      /\ \A i \in 0..(n - 1) : g[i] \in Seq(Data)
  BY <1>1, LineIs
<1>4. \A i \in 0..(j - 1) : f[i] = g[i]
  <2>1. j - 1 \in Nat /\ j - 1 <= Len(s) /\ j - 1 <= Len(r) BY <1>1
  <2>2. \A i \in 1..(j - 1) : s[i] = r[i] BY <1>1
  <2>3. Alike(s, r, k, k, p, j - 1) BY <2>2 DEF Alike
  <2> QED BY <1>1, <2>1, <2>3, LinesAgree
<1>5. \A i \in 1..n : s[i] \in Data OBVIOUS
<1> HIDE DEF f, g, n
<1>6. Prefix[k[s[j]]] = p => \A i \in 0..(j - 1) : f[i] = <<>>
  <2> SUFFICES ASSUME Prefix[k[s[j]]] = p PROVE \A i \in 0..(j - 1) : f[i] = <<>> OBVIOUS
  <2> DEFINE P == {i \in 0..(j - 1) : f[i] = <<>>}
  <2>0. j \in 1..n /\ j - 1 \in Nat BY DEF n
  <2>1. 0 \in P BY <1>2, <2>0
  <2>2. ASSUME NEW i \in 1..(j - 1), i - 1 \in P PROVE i \in P
    <3>1. i \in 1..n /\ i < j BY <1>1, <2>0
    <3>2. Prefix[k[s[i]]] # p BY <3>1 DEF n
    <3>3. f[i] = <<>> BY <1>2, <2>2, <3>1, <3>2
    <3> QED BY <2>0, <3>3
  <2> HIDE DEF P
  <2>3. \A i \in 0..(j - 1) : i \in P BY <2>0, <2>1, <2>2, Climb
  <2> QED BY <2>3 DEF P
<1>7. j \in 1..n /\ j - 1 \in 0..(j - 1) /\ j - 1 \in 0..(n - 1) /\ n - j \in Nat BY <1>1 DEF n
<1>8. f[j] = More(g[j - 1])
  <2>1. f[j] = Now(f[j - 1], s[j]) /\ f[j - 1] = g[j - 1] BY <1>2, <1>4, <1>7
  <2>2. CASE Prefix[k[s[j]]] = p
    <3>1. f[j - 1] = <<>> /\ g[j - 1] = <<>> BY <1>6, <1>7, <2>1, <2>2
    <3>2. f[j] = Append(<<>>, s[j]) BY <2>1, <2>2, <3>1
    <3>3. s[j] \in Data BY <1>5, <1>7
    <3>4. Append(<<>>, s[j]) = <<s[j]>> \o <<>> BY <3>3
    <3> QED BY <2>2, <3>1, <3>2, <3>4
  <2>3. CASE Prefix[k[s[j]]] # p BY <2>1, <2>3
  <2> QED BY <2>2, <2>3
<1> DEFINE Q == {i \in 0..(n - j) : f[j + i] = More(g[j + i - 1])}
<1>9. 0 \in Q
  <2>1. j + 0 = j /\ j + 0 - 1 = j - 1 /\ 0 \in 0..(n - j) BY <1>7
  <2> QED BY <1>8, <2>1
<1>10. ASSUME NEW i \in 1..(n - j), i - 1 \in Q PROVE i \in Q
  <2>1. /\ j + i \in 1..n /\ j + (i - 1) = (j + i) - 1 /\ j + i - 1 \in 1..(n - 1) /\ ~(j + i - 1 < j)
        /\ (j + i - 1) + 1 = j + i /\ i \in 0..(n - j) /\ j + (i - 1) - 1 = j + i - 1 - 1
        /\ j + i - 1 - 1 \in 0..(n - 1)
    BY <1>1, <1>7
  <2> DEFINE x == s[j + i]
             t == g[j + i - 1 - 1]
  <2>2. x \in Data /\ t \in Seq(Data) /\ s[j] \in Data BY <1>3, <1>5, <1>7, <2>1
  <2>3. f[j + (i - 1)] = More(g[j + (i - 1) - 1]) BY <1>10
  <2>4. f[(j + i) - 1] = More(t) BY <2>1, <2>3
  <2>5. f[j + i] = Now(f[(j + i) - 1], x) BY <1>2, <2>1
  <2>6. r[j + i - 1] = x BY <1>1, <2>1
  <2>7. g[j + i - 1] = Now(t, x) BY <1>3, <2>1, <2>6
  <2> HIDE DEF x, t
  <2>8. Append(<<s[j]>> \o t, x) = <<s[j]>> \o Append(t, x) BY <2>2
  <2>9. Now(More(t), x) = More(Now(t, x)) BY <2>8
  <2> HIDE DEF Now, More
  <2>10. f[j + i] = More(g[j + i - 1]) BY <2>4, <2>5, <2>7, <2>9
  <2> QED BY <2>1, <2>10
<1>11. \A i \in 0..(n - j) : i \in Q
  <2> HIDE DEF Q
  <2> QED BY <1>7, <1>9, <1>10, Climb
<1>12. n - j \in 0..(n - j) /\ j + (n - j) = n /\ j + (n - j) - 1 = n - 1 BY <1>1, <1>7
<1>13. f[n] = More(g[n - 1]) /\ g[n - 1] \in Seq(Data)
  <2> HIDE DEF More
  <2>1. f[j + (n - j)] = More(g[j + (n - j) - 1]) BY <1>11, <1>12
  <2>2. n - 1 \in 0..(n - 1) BY <1>1
  <2> QED BY <1>3, <1>12, <2>1, <2>2
<1>14. Held(s, k, p) = f[n] /\ Held(r, k, p) = g[n - 1] BY <1>1 DEF Held, f, g, n
<1> DEFINE t == g[n - 1]
<1>15. s[j] \in Data /\ t \in Seq(Data) BY <1>5, <1>7, <1>13
<1>16. <<s[j]>> \o t # <<>> /\ Tail(<<s[j]>> \o t) = t
  <2> HIDE DEF t
  <2> QED BY <1>15
<1> QED BY <1>13, <1>14, <1>16 DEF r

(* The model's walk from a node on, for any links, keys and prefix.         *)
FromNode(f, link, k, p, m, d) ==
  IF m = 0 \/ d = NULL THEN <<>>
  ELSE IF Prefix[k[d]] = p THEN <<d>> \o f[m - 1][link[d]]
  ELSE f[m - 1][link[d]]

FromStep(f, link, k, p) ==
  [m \in 0..Cardinality(Data) |-> [d \in Data \union {NULL} |-> FromNode(f, link, k, p, m, d)]]

From(link, k, p) == CHOOSE f : f = FromStep(f, link, k, p)

(* Such a walk exists: one of m nodes is continued to one of m + 1.         *)
LEMMA FromExists ==
  ASSUME NEW link, NEW k, NEW p
  PROVE  \E f : f = FromStep(f, link, k, p)
<1> DEFINE n == Cardinality(Data)
           Row(f, m) == [d \in Data \union {NULL} |-> FromNode(f, link, k, p, m, d)]
           Good(l, f) == \A m \in 0..l : f[m] = Row(f, m)
           P == {l \in 0..n : \E f : Good(l, f)}
<1>0. n \in Nat BY TableConstants, FS_CardinalityType
<1>a. ASSUME NEW f, NEW g, NEW m, m = 0 \/ f[m - 1] = g[m - 1] PROVE Row(f, m) = Row(g, m)
  BY <1>a DEF FromNode
<1> HIDE DEF n, Row
<1>1. 0 \in P
  <2> DEFINE f == [m \in {0} |-> Row(<<>>, 0)]
  <2>1. f[0] = Row(<<>>, 0) OBVIOUS
  <2> HIDE DEF f
  <2>2. Row(f, 0) = Row(<<>>, 0) BY <1>a
  <2>3. \A i \in 0..0 : i = 0 OBVIOUS
  <2>4. Good(0, f) BY <2>1, <2>2, <2>3
  <2> HIDE DEF Good
  <2> QED BY <1>0, <2>4
<1>2. ASSUME NEW l \in 1..n, l - 1 \in P PROVE l \in P
  <2>1. PICK f : Good(l - 1, f) BY <1>2
  <2> DEFINE g == [i \in 0..l |-> IF i = l THEN Row(f, l) ELSE f[i]]
  <2>2. ASSUME NEW i \in 0..l PROVE g[i] = Row(g, i)
    <3>0. i \in Nat /\ l \in Nat /\ l # 0 BY <1>0
    <3>1. i # 0 => i - 1 \in 0..l /\ i - 1 # l BY <3>0
    <3>2. i = 0 \/ g[i - 1] = f[i - 1] BY <3>1
    <3>a. g[i] = IF i = l THEN Row(f, l) ELSE f[i] OBVIOUS
    <3> HIDE DEF g
    <3>3. Row(g, i) = Row(f, i) BY <1>a, <3>2
    <3>4. i # l => i \in 0..(l - 1) BY <3>0
    <3>5. i # l => f[i] = Row(f, i) BY <2>1, <3>4
    <3> QED BY <3>3, <3>5, <3>a
  <2> HIDE DEF g
  <2>3. Good(l, g) BY <2>2
  <2> HIDE DEF Good
  <2> QED BY <2>3
<1>3. n \in P
  <2> HIDE DEF P
  <2>1. \A m \in 0..n : m \in P BY <1>0, <1>1, <1>2, Climb
  <2> QED BY <1>0, <2>1
<1>4. PICK f : Good(n, f) BY <1>3
<1> DEFINE h == [i \in 0..n |-> f[i]]
<1>5. ASSUME NEW i \in 0..n PROVE h[i] = Row(h, i)
  <2>1. i # 0 => i - 1 \in 0..n BY <1>0
  <2>2. (i = 0 \/ h[i - 1] = f[i - 1]) /\ h[i] = f[i] BY <2>1
  <2> HIDE DEF h
  <2>3. Row(h, i) = Row(f, i) BY <1>a, <2>2
  <2>4. f[i] = Row(f, i) BY <1>4
  <2> QED BY <2>2, <2>3, <2>4
<1>6. h = [i \in 0..n |-> h[i]] OBVIOUS
<1> HIDE DEF h
<1>7. h = [i \in 0..n |-> Row(h, i)] BY <1>5, <1>6
<1> QED BY <1>7 DEF Row, n, FromStep

(* One node of the walk.                                                    *)
LEMMA FromIs ==
  ASSUME NEW link, NEW k, NEW p, NEW m \in 0..Cardinality(Data), NEW d \in Data \union {NULL}
  PROVE  From(link, k, p)[m][d] = FromNode(From(link, k, p), link, k, p, m, d)
<1> DEFINE F == From(link, k, p)
<1>1. F = FromStep(F, link, k, p) BY FromExists DEF From
<1> HIDE DEF F
<1>2. F[m] = [e \in Data \union {NULL} |-> FromNode(F, link, k, p, m, e)] BY <1>1 DEF FromStep
<1>3. F[m][d] = FromNode(F, link, k, p, m, d) BY <1>2
<1> QED BY <1>3 DEF F

(* The walk from the i-th node of a chain yields what is missing from the   *)
(* line of the nodes before it.                                             *)
LEMMA FromChain ==
  ASSUME NEW link, NEW start, NEW s, Spells(link, start, s), NEW k, NEW p
  PROVE  From(link, k, p)[Cardinality(Data)][start] = Held(s, k, p)
<1> DEFINE n == Len(s)
           C == Cardinality(Data)
           F == From(link, k, p)
           L == Line(s, k, p)
           Node(i) == IF i > n THEN NULL ELSE s[i]
<1>0. s \in Seq(Data) /\ n \in Nat BY DEF Spells
<1>1. C \in Nat BY TableConstants, FS_CardinalityType
<1>2. n <= C BY <1>0, CountMembers DEF Spells
<1>3. /\ L[0] = <<>> /\ (\A i \in 0..n : L[i] \in Seq(Data)) /\ L[n] = Held(s, k, p)
      /\ \A i \in 1..n : L[i] = IF Prefix[k[s[i]]] = p THEN Append(L[i - 1], s[i]) ELSE L[i - 1]
  BY <1>0, LineIs DEF Held
<1>4. /\ start = Node(1) /\ \A i \in 1..n : s[i] \in Data /\ link[s[i]] = Node(i + 1)
  <2>1. start = IF n = 0 THEN NULL ELSE s[1] BY DEF Spells
  <2>2. \A i \in 1..n : link[s[i]] = IF i = n THEN NULL ELSE s[i + 1] BY DEF Spells
  <2>3. \A i \in 1..n : s[i] \in Data BY <1>0
  <2>4. 1 > n <=> n = 0 BY <1>0
  <2>5. \A i \in 1..n : i + 1 > n <=> i = n BY <1>0
  <2> HIDE DEF n
  <2> QED BY <2>1, <2>2, <2>3, <2>4, <2>5
<1> HIDE DEF n, C, F, L
<1>5. \A i \in 1..n : Node(i) = s[i] BY <1>0
<1>6. Node(n + 1) = NULL BY <1>0
<1> HIDE DEF Node
<1> DEFINE Q == {j \in 0..n : \A m \in j..C : /\ F[m][Node(n - j + 1)] \in Seq(Data)
                                              /\ L[n - j] \o F[m][Node(n - j + 1)] = L[n]}
<1>7. 0 \in Q
  <2>1. n - 0 + 1 = n + 1 /\ n - 0 = n /\ 0 \in 0..n BY <1>0
  <2>2. ASSUME NEW m \in 0..C PROVE F[m][NULL] = <<>>
    <3>1. PICK e \in Data \union {NULL} : e = NULL OBVIOUS
    <3>2. F[m][e] = FromNode(F, link, k, p, m, e) BY FromIs DEF F, C
    <3> QED BY <3>1, <3>2 DEF FromNode
  <2>3. PICK t \in Seq(Data) : t = L[n] BY <1>0, <1>3
  <2>4. t \o <<>> = t /\ <<>> \in Seq(Data) OBVIOUS
  <2> QED BY <1>6, <2>1, <2>2, <2>3, <2>4
<1>8. ASSUME NEW j \in 1..n, j - 1 \in Q PROVE j \in Q
  <2>1. PICK i \in 1..n : i = n - j + 1 BY <1>0
  <2>2. /\ n - (j - 1) + 1 = i + 1 /\ n - (j - 1) = i /\ n - j = i - 1 /\ j \in 0..n
        /\ i \in 0..n /\ i - 1 \in 0..n
    BY <1>0, <2>1
  <2>3. ASSUME NEW m \in j..C
        PROVE  F[m][Node(i)] \in Seq(Data) /\ L[i - 1] \o F[m][Node(i)] = L[n]
    <3>1. m \in 0..C /\ m # 0 /\ m - 1 \in (j - 1)..C BY <1>0, <1>1
    <3>2. PICK x \in Data : x = s[i] /\ Node(i) = x /\ link[x] = Node(i + 1) BY <1>4, <1>5, <2>1
    <3>3. x # NULL BY TableConstants
    <3> DEFINE u == F[m - 1][Node(i + 1)]
               t == L[i - 1]
    <3>4. u \in Seq(Data) /\ L[i] \o u = L[n] BY <1>8, <2>2, <3>1
    <3>5. t \in Seq(Data) BY <1>3, <2>2
    <3>6. F[m][x] = IF Prefix[k[x]] = p THEN <<x>> \o u ELSE u 
      <4>1. F[m][x] = FromNode(F, link, k, p, m, x) BY <3>1, FromIs DEF F, C
      <4> QED BY <3>1, <3>2, <3>3, <4>1 DEF FromNode
    <3>7. L[i] = IF Prefix[k[x]] = p THEN Append(t, x) ELSE t BY <1>3, <3>2
    <3> HIDE DEF u, t
    <3>8. <<x>> \o u \in Seq(Data) /\ t \o (<<x>> \o u) = Append(t, x) \o u BY <3>4, <3>5, SMTT(30)
    <3> QED BY <3>2, <3>4, <3>6, <3>7, <3>8 DEF t
  <2> QED BY <2>1, <2>2, <2>3
<1>9. \A j \in 0..n : j \in Q
  <2> HIDE DEF Q
  <2> QED BY <1>0, <1>7, <1>8, Climb
<1>10. n \in 0..n /\ C \in n..C /\ n - n + 1 = 1 /\ n - n = 0 BY <1>0, <1>1, <1>2
<1>11. F[C][start] \in Seq(Data) /\ L[0] \o F[C][start] = L[n] BY <1>4, <1>9, <1>10
<1>12. F[C][start] = L[n]
  <2>1. PICK t \in Seq(Data) : t = F[C][start] BY <1>11
  <2>2. <<>> \o t = t OBVIOUS
  <2> QED BY <1>3, <1>11, <2>1, <2>2
<1> QED BY <1>3, <1>12 DEF F, C

(* The model's HeldUnder, in a state ...                                    *)
LEMMA HeldNow ==
  ASSUME NEW n, NEW s, Spells(next, table[n[1]], s)
  PROVE  HeldUnder(n) = Held(s, key, n[2])
<1>1. HeldUnder(n) = From(next, key, n[2])[Cardinality(Data)][table[n[1]]]
  BY DEF HeldUnder, From, FromStep, FromNode
<1> QED BY <1>1, FromChain

(* ... and in the next one.                                                 *)
LEMMA HeldNext ==
  ASSUME NEW n, NEW s, Spells(next', table'[n[1]], s)
  PROVE  HeldUnder(n)' = Held(s, key', n[2])
<1>1. HeldUnder(n)' = From(next', key', n[2])[Cardinality(Data)][table'[n[1]]]
  BY DEF HeldUnder, From, FromStep, FromNode
<1> QED BY <1>1, FromChain

(* No node, no line.                                                        *)
LEMMA HeldEmpty ==
  ASSUME NEW k, NEW p
  PROVE  Held(<<>>, k, p) = <<>>
<1>1. <<>> \in Seq(Data) OBVIOUS
<1>2. PICK s \in Seq(Data) : s = <<>> BY <1>1
<1>3. Len(s) = 0 BY <1>2
<1>4. Line(s, k, p)[0] = <<>> BY LineIs
<1>5. Held(s, k, p) = <<>> BY <1>3, <1>4 DEF Held
<1> QED BY <1>2, <1>5

----------------------------------------------------------------------------
holds == [n \in Names |-> HeldUnder(n)]

(* The names.                                                               *)
LEMMA NameIs ==
  ASSUME NEW n \in Names
  PROVE  n[1] \in Buckets /\ n = <<n[1], n[2]>>
BY TableConstants DEF Names

(* hash_table_add joins the line of the key's name.                         *)
LEMMA AddHolds ==
  ASSUME TableInv, NEW d \in Data, NEW k \in Keys, hash_table_add(d, k)
  PROVE  holds' = [holds EXCEPT ![<<Bucket[k], Prefix[k]>>] = Append(@, d)]
<1>0. TypeOK /\ Whole /\ Homes BY DEF TableInv
<1>1. PICK b \in Buckets : b = Bucket[k] BY TableConstants
<1> DEFINE s == Chain(b)
           C == Changed(b, Append(s, d))
<1>2. key' = [key EXCEPT ![d] = k] /\ key \in [Data -> Keys \union {NULL}]
  BY <1>0 DEF hash_table_add, TypeOK
<1>3. /\ \A c \in Buckets : d \notin Members(Chain(c))
      /\ \A c \in Buckets : Spells(next', table'[c], C[c])
  BY <1>0, <1>1, AddView
<1>5. ASSUME NEW n \in Names
      PROVE  HeldUnder(n)' = IF n = <<b, Prefix[k]>> THEN Append(HeldUnder(n), d) ELSE HeldUnder(n)
  <2>1. n[1] \in Buckets /\ n = <<n[1], n[2]>> BY NameIs
  <2> DEFINE r == Chain(n[1])
  <2>2. r \in Seq(Data) /\ Spells(next, table[n[1]], r) BY <1>0, <2>1, BucketIs
  <2>3. ASSUME NEW i \in 1..Len(r) PROVE Prefix[key[r[i]]] = n[2] <=> Prefix[key'[r[i]]] = n[2]
    <3>1. r[i] \in Members(r) /\ r[i] \in Data BY <2>2 DEF Members
    <3>2. r[i] # d BY <1>3, <2>1, <3>1
    <3>3. key'[r[i]] = key[r[i]] BY <1>2, <3>1, <3>2
    <3> QED BY <3>3
  <2>4. key'[d] = k BY <1>2
  <2>5. HeldUnder(n) = Held(r, key, n[2]) BY <2>2, HeldNow
  <2>a. HeldUnder(n)' = Held(C[n[1]], key', n[2])
    <3> HIDE DEF C
    <3> QED BY <1>3, <2>1, HeldNext
  <2>6. CASE n[1] = b
    <3>1. C[n[1]] = Append(r, d) BY <2>1, <2>6 DEF Changed
    <3> HIDE DEF r, C
    <3>a. Alike(r, r, key, key', n[2], Len(r)) BY <2>3 DEF Alike
    <3>2. ASSUME NEW t \in Seq(Data), NEW x, NEW l, NEW p, t = r, x = key, l = key', p = n[2]
          PROVE  Held(Append(t, d), l, p) =
                   IF Prefix[l[d]] = p THEN Append(Held(t, x, p), d) ELSE Held(t, x, p)
      <4>1. Alike(t, t, x, l, p, Len(t)) BY <3>2, <3>a
      <4> QED BY <4>1, HeldAppend
    <3>b. Held(Append(r, d), key', n[2]) =
            IF Prefix[key'[d]] = n[2] THEN Append(Held(r, key, n[2]), d) ELSE Held(r, key, n[2])
      BY <2>2, <3>2
    <3>3. n = <<b, Prefix[k]>> <=> Prefix[k] = n[2] BY <2>1, <2>6
    <3> QED BY <2>4, <2>5, <2>a, <3>1, <3>b, <3>3
  <2>7. CASE n[1] # b
    <3>1. C[n[1]] = r BY <2>1, <2>7 DEF Changed
    <3> HIDE DEF r, C
    <3> DEFINE l == key'
    <3>a. Alike(r, r, key, l, n[2], Len(r)) BY <2>3 DEF Alike
    <3>b. HeldUnder(n)' = Held(r, l, n[2]) BY <2>a, <3>1
    <3> HIDE DEF l
    <3>2. Held(r, key, n[2]) = Held(r, l, n[2]) BY <2>2, <3>a, HeldSame
    <3>3. n # <<b, Prefix[k]>> BY <2>7
    <3> QED BY <2>5, <3>b, <3>2, <3>3
  <2> QED BY <2>6, <2>7
<1>6. holds' = [n \in Names |-> HeldUnder(n)'] BY DEF holds, Names
<1>7. <<b, Prefix[k]>> \in Names BY <1>1 DEF Names
<1> HIDE DEF C, s
<1> QED BY <1>1, <1>5, <1>6, <1>7 DEF holds

(* hash_table_remove takes the head of the line of the key's name.          *)
LEMMA RemoveHolds ==
  ASSUME TableInv, NEW k \in Keys, hash_table_remove(k)
  PROVE  /\ <<Bucket[k], Prefix[k]>> \in Names /\ holds[<<Bucket[k], Prefix[k]>>] # <<>>
         /\ holds' = [holds EXCEPT ![<<Bucket[k], Prefix[k]>>] = Tail(@)]
<1>0. TypeOK /\ Whole /\ Homes BY DEF TableInv
<1>1. PICK b \in Buckets : b = Bucket[k] BY TableConstants
<1> DEFINE s == Chain(b)
<1>2. PICK j \in 1..Len(s) :
        (\A c \in Buckets : Spells(next', table'[c], Changed(b, Without(s, j))[c])) /\ j \in Matching(k)
  BY <1>0, <1>1, RemoveView
<1> DEFINE C == Changed(b, Without(s, j))
<1>3. \A c \in Buckets : Spells(next', table'[c], C[c]) BY <1>2
<1>4. key' = key BY DEF hash_table_remove
<1>5. s \in Seq(Data) BY <1>0, BucketIs
<1>6. Prefix[key[s[j]]] = Prefix[k] /\ \A i \in 1..Len(s) : i < j => Prefix[key[s[i]]] # Prefix[k]
  <2>1. \A i \in 1..Len(s) : i \in Places(k) <=> Prefix[key[s[i]]] = Prefix[k]
    BY <1>1, <1>5 DEF Places, SameKey
  <2>2. j \in Places(k) /\ \A i \in Places(k) : j <= i BY <1>2 DEF Matching
  <2> QED BY <1>2, <2>1, <2>2
<1>7. ASSUME NEW n \in Names
      PROVE  IF n = <<b, Prefix[k]>>
               THEN HeldUnder(n) # <<>> /\ HeldUnder(n)' = Tail(HeldUnder(n))
               ELSE HeldUnder(n)' = HeldUnder(n)
  <2>1. n[1] \in Buckets /\ n = <<n[1], n[2]>> BY NameIs
  <2>a. Spells(next, table[n[1]], Chain(n[1])) BY <1>0, <2>1, BucketIs
  <2>5. HeldUnder(n) = Held(Chain(n[1]), key, n[2]) /\ HeldUnder(n)' = Held(C[n[1]], key', n[2])
    <3> HIDE DEF C
    <3> QED BY <1>3, <2>1, <2>a, HeldNow, HeldNext
  <2>6. CASE n[1] = b
    <3>1. C[n[1]] = Without(s, j) /\ Chain(n[1]) = s BY <2>1, <2>6 DEF Changed
    <3> HIDE DEF s, C
    <3>2. \A i \in 1..Len(s) : i < j /\ Prefix[key[s[j]]] = n[2] => Prefix[key[s[i]]] # n[2]
      BY <1>6
    <3>3. IF Prefix[key[s[j]]] = n[2]
           THEN Held(s, key, n[2]) # <<>> /\ Held(Without(s, j), key, n[2]) = Tail(Held(s, key, n[2]))
           ELSE Held(Without(s, j), key, n[2]) = Held(s, key, n[2])
      BY <1>2, <1>5, <3>2, HeldWithout
    <3>4. n = <<b, Prefix[k]>> <=> Prefix[key[s[j]]] = n[2] BY <1>6, <2>1, <2>6
    <3> QED BY <1>4, <2>5, <3>1, <3>3, <3>4
  <2>7. CASE n[1] # b
    <3>1. C[n[1]] = Chain(n[1]) BY <2>1, <2>7 DEF Changed
    <3> HIDE DEF C
    <3>2. n # <<b, Prefix[k]>> BY <2>7
    <3> QED BY <1>4, <2>5, <3>1, <3>2
  <2> QED BY <2>6, <2>7
<1>8. holds' = [n \in Names |-> HeldUnder(n)'] BY DEF holds, Names
<1>9. <<b, Prefix[k]>> \in Names BY <1>1 DEF Names
<1> HIDE DEF C, s
<1> QED BY <1>1, <1>7, <1>8, <1>9 DEF holds

(* hash_table_clear and hash_table_destroy empty every line.                *)
LEMMA ClearHolds ==
  ASSUME TableInv, ClearBuckets
  PROVE  holds' = [n \in Names |-> <<>>]
<1>0. TypeOK /\ Whole BY DEF TableInv
<1>1. \A b \in Buckets : Spells(next', table'[b], <<>>) BY <1>0, ClearView
<1>3. ASSUME NEW n \in Names PROVE HeldUnder(n)' = <<>>
  <2>1. n[1] \in Buckets BY NameIs
  <2>2. HeldUnder(n)' = Held(<<>>, key', n[2]) BY <1>1, <2>1, HeldNext
  <2> QED BY <2>2, HeldEmpty
<1>4. holds' = [n \in Names |-> HeldUnder(n)'] BY DEF holds, Names
<1> QED BY <1>3, <1>4

(* A step that leaves the table alone leaves the lines alone.               *)
LEMMA SameHolds ==
  ASSUME UNCHANGED tableVars
  PROVE  holds' = holds
<1>1. UNCHANGED <<table, next, key>> BY DEF tableVars
<1>2. ASSUME NEW n \in Names PROVE HeldUnder(n)' = HeldUnder(n) BY <1>1 DEF HeldUnder
<1>3. holds' = [n \in Names |-> HeldUnder(n)'] BY DEF holds, Names
<1> QED BY <1>2, <1>3 DEF holds

(* Collisions do not show: the buckets implement one line of data for each  *)
(* name.  Adding joins the line of the key's name, removing takes its head, *)
(* clearing empties all lines, and no other step changes any.               *)
THEOREM TableImplementsStore == Spec => ImplementsStore
<1>1. Init => Store!Init
  <2> SUFFICES ASSUME Init PROVE Store!Init OBVIOUS
  <2>1. \A b \in Buckets : Spells(next, table[b], <<>>) BY DEF Init, Spells
  <2>3. ASSUME NEW n \in Names PROVE HeldUnder(n) = <<>>
    <3>1. n[1] \in Buckets BY NameIs
    <3>2. HeldUnder(n) = Held(<<>>, key, n[2]) BY <2>1, <3>1, HeldNow
    <3> QED BY <3>2, HeldEmpty
  <2> QED BY <2>3 DEF Store!Init
<1>2. TableInv /\ [Next]_vars => [Store!Next]_holds
  <2> SUFFICES ASSUME TableInv, [Next]_vars PROVE Store!Next \/ holds' = holds OBVIOUS
  <2>1. ASSUME NEW d \in Data, NEW k \in Keys, hash_table_add(d, k) PROVE Store!Next
    <3>1. holds' = [holds EXCEPT ![<<Bucket[k], Prefix[k]>>] = Append(@, d)] BY <2>1, AddHolds
    <3>2. <<Bucket[k], Prefix[k]>> \in Names BY DEF Names
    <3>3. Store!Add(<<Bucket[k], Prefix[k]>>, d) BY <3>1 DEF Store!Add, holds
    <3> QED BY <3>2, <3>3 DEF Store!Next
  <2>2. ASSUME NEW k \in Keys, hash_table_remove(k) PROVE Store!Next
    <3>1. /\ <<Bucket[k], Prefix[k]>> \in Names /\ holds[<<Bucket[k], Prefix[k]>>] # <<>>
          /\ holds' = [holds EXCEPT ![<<Bucket[k], Prefix[k]>>] = Tail(@)]
      BY <2>2, RemoveHolds
    <3>2. Store!Remove(<<Bucket[k], Prefix[k]>>) BY <3>1 DEF Store!Remove, holds
    <3> QED BY <3>1, <3>2 DEF Store!Next
  <2>3. CASE hash_table_clear \/ hash_table_destroy
    <3>1. holds' = [n \in Names |-> <<>>] BY <2>3, ClearHolds DEF hash_table_clear, hash_table_destroy
    <3> QED BY <3>1 DEF Store!Next, Store!Clear, holds
  <2>4. ASSUME NEW matches, hash_table_find(matches) PROVE holds' = holds
    BY <2>4, SameHolds DEF hash_table_find
  <2>5. CASE hash_table_list BY <2>4, <2>5 DEF hash_table_list
  <2>8. CASE UseNoBuckets BY <2>8, SameHolds DEF UseNoBuckets
  <2>9. ASSUME NEW d \in Data, hash_table_add_fails(d) PROVE holds' = holds
    BY <2>9, SameHolds DEF hash_table_add_fails
  <2>6. ASSUME NEW t \in Threads, Lookup(t) PROVE holds' = holds
    <3>1. UNCHANGED tableVars
      BY <2>6 DEF Lookup, LookupBegin, LookupEnd, LookupStep, LookupFreed, LookupReturn
    <3> QED BY <3>1, SameHolds
  <2>7. CASE UNCHANGED vars BY <2>7, SameHolds DEF vars
  <2> QED BY <2>1, <2>2, <2>3, <2>4, <2>5, <2>6, <2>7, <2>8, <2>9 DEF Next
<1>3. [Store!Next]_holds => [Store!Next]_([n \in Names |-> HeldUnder(n)]) BY DEF holds
<1> QED BY <1>1, <1>2, <1>3, TableInvariant, PTL DEF Spec, ImplementsStore, Store!Spec
==============================================================================
