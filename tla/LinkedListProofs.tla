--------------------------- MODULE LinkedListProofs ---------------------------
(***************************************************************************)
(* What holds of the linked list for any finite set of data and any keys.   *)
(*                                                                         *)
(* Whatever operation is called, unless it drops nodes or follows a bad     *)
(* pointer (status), it does one of four things to the sequence of the      *)
(* nodes: it inserts one, takes one out, arranges them by key, or empties   *)
(* it (Inserts, Removes, Sorts, Clear).  That the pointers do       *)
(* this is proved operation by operation, and everything else from the      *)
(* four.  The recursive definitions (the walk, merge, merge_sort) are       *)
(* reasoned about with the well-ordering of the numbers.                    *)
(***************************************************************************)
EXTENDS LinkedList, Integers, FiniteSetTheorems, WellFoundedInduction, TLAPS

Members(s)  == {s[i] : i \in 1..Len(s)}
Distinct(s) == \A i, j \in 1..Len(s) : s[i] = s[j] => i = j

(* The pointers chain the nodes of s, in both directions.                   *)
Linked(nx, pv, start, s) ==
  /\ s \in Seq(Data)
  /\ start = IF Len(s) = 0 THEN NULL ELSE s[1]
  /\ \A i \in 1..Len(s) : nx[s[i]] = IF i = Len(s) THEN NULL ELSE s[i + 1]
  /\ \A i \in 1..Len(s) : pv[s[i]] = IF i = 1 THEN NULL ELSE s[i - 1]
  /\ Distinct(s)

(* t is a node of s, or a freed one; it is NULL where there is no node.     *)
Knows(t, s, f) ==
  (t = NULL <=> Len(s) = 0) /\ (t # NULL => t \in Members(s) \/ f[t] > 0)

(* The inductive invariant: as long as nothing was dropped, the walk is     *)
(* such a chain, of unfreed data, and tail is on it unless its node is gone.*)
Unfreed == \A d \in Members(Walk) : frees[d] = 0
ListInv ==
  status = "ok" /\ TypeOK /\ Linked(next, prev, head, Walk) /\ Unfreed /\ Knows(tail, Walk, frees)
WholeInv == status = "ok" => ListInv

----------------------------------------------------------------------------
(* Every set of numbers has a least one.                                    *)
LEMMA LeastNumber ==
  ASSUME NEW T, T \subseteq Nat, T # {}
  PROVE  \E x \in T : \A y \in T : x <= y
<1> DEFINE R == OpToRel(<, Nat)
<1>1. IsWellFoundedOn(R, Nat) BY NatLessThanWellFounded
<1> HIDE DEF R
<1>2. PICK x \in T : \A y \in T : ~(<<y, x>> \in R) BY <1>1, WFMin
<1>3. \A y \in T : ~(y < x) BY <1>2 DEF R, OpToRel
<1>4. \A y \in T : x <= y BY <1>3
<1> QED BY <1>4

(* NodeAt, for any links and any first node.                                *)
Along(link, start) ==
  CHOOSE f : f = [i \in Nat |-> IF i = 0 THEN start ELSE Follow(link, f[i - 1])]

(* A walk along a chain visits it in order and then stays at NULL: that is  *)
(* a walk, and of two different walks there is a first step at which they   *)
(* differ.                                                                  *)
LEMMA WalkOfChain ==
  ASSUME NEW nx, NEW pv, NEW start, NEW s, Linked(nx, pv, start, s)
  PROVE  \A i \in Nat : Along(nx, start)[i] = IF i < Len(s) THEN s[i + 1] ELSE NULL
<1> DEFINE At(i) == IF i < Len(s) THEN s[i + 1] ELSE NULL
           Def(f) == [i \in Nat |-> IF i = 0 THEN start ELSE Follow(nx, f[i - 1])]
<1>0. s \in Seq(Data) /\ Len(s) \in Nat /\ NULL \notin Data BY ListConstants DEF Linked
<1>1. At(0) = start BY <1>0 DEF Linked
<1>2. ASSUME NEW i \in Nat, i # 0 PROVE At(i) = Follow(nx, At(i - 1))
  <2>0. i - 1 \in Nat /\ (i - 1) + 1 = i BY <1>2
  <2>1. CASE i - 1 < Len(s)
    <3>1. i \in 1..Len(s) BY <1>0, <1>2, <2>1
    <3>2. s[i] \in Data BY <1>0, <3>1
    <3>3. At(i - 1) = s[i] /\ s[i] # NULL BY <1>0, <2>0, <2>1, <3>2
    <3>4. nx[s[i]] = IF i = Len(s) THEN NULL ELSE s[i + 1] BY <3>1 DEF Linked
    <3>5. i < Len(s) <=> i # Len(s) BY <1>0, <3>1
    <3> QED BY <3>3, <3>4, <3>5 DEF Follow
  <2>2. CASE ~(i - 1 < Len(s))
    <3>1. ~(i < Len(s)) BY <1>0, <1>2, <2>2
    <3> QED BY <2>2, <3>1 DEF Follow
  <2> QED BY <2>1, <2>2
<1> HIDE DEF At
<1> DEFINE F == [i \in Nat |-> At(i)]
<1>3. F = Def(F)
  <2>1. ASSUME NEW i \in Nat PROVE F[i] = IF i = 0 THEN start ELSE Follow(nx, F[i - 1])
    <3>1. CASE i = 0 BY <1>1, <3>1
    <3>2. CASE i # 0
      <4>1. i - 1 \in Nat BY <3>2
      <4> QED BY <1>2, <3>2, <4>1
    <3> QED BY <3>1, <3>2
  <2> QED BY <2>1
<1> HIDE DEF F
<1>4. \E f : f = Def(f) BY <1>3
<1> DEFINE A == Along(nx, start)
<1>5. A = Def(A) BY <1>4 DEF Along
<1> HIDE DEF A
<1> SUFFICES ASSUME ~ \A i \in Nat : A[i] = At(i) PROVE FALSE BY DEF A, At
<1> DEFINE Bad == {i \in Nat : A[i] # At(i)}
<1>6. Bad \subseteq Nat /\ Bad # {} OBVIOUS
<1>7. PICK i \in Bad : \A j \in Bad : i <= j BY <1>6, LeastNumber
<1>8. i \in Nat /\ A[i] # At(i) BY <1>7
<1>9. i # 0 BY <1>1, <1>5, <1>8
<1>10. i - 1 \in Nat /\ i - 1 \notin Bad BY <1>7, <1>8, <1>9
<1>11. A[i] = Follow(nx, A[i - 1]) BY <1>5, <1>8, <1>9
<1> QED BY <1>2, <1>8, <1>9, <1>10, <1>11

(* ... so that the model's NodeAt and Walk are those of the chain, ...      *)
LEMMA WalkNow ==
  ASSUME NEW s, Linked(next, prev, head, s), size = Len(s)
  PROVE  Walk = s /\ \A i \in Nat : NodeAt[i] = IF i < Len(s) THEN s[i + 1] ELSE NULL
<1>0. s \in Seq(Data) /\ Len(s) \in Nat BY DEF Linked
<1>1. NodeAt = Along(next, head) BY DEF NodeAt, Along
<1>2. \A i \in Nat : NodeAt[i] = IF i < Len(s) THEN s[i + 1] ELSE NULL BY <1>1, WalkOfChain
<1> HIDE DEF NodeAt
<1>3. \A i \in 1..Len(s) : NodeAt[i - 1] = s[i]
  <2> TAKE i \in 1..Len(s)
  <2>1. i - 1 \in Nat /\ i - 1 < Len(s) /\ (i - 1) + 1 = i BY <1>0
  <2> QED BY <1>2, <2>1
<1>4. s = [i \in 1..Len(s) |-> s[i]] BY <1>0
<1>5. Walk = s BY <1>3, <1>4 DEF Walk
<1> QED BY <1>2, <1>5

(* ... also in the next state.                                              *)
LEMMA WalkNext ==
  ASSUME NEW s, Linked(next', prev', head', s), size' = Len(s)
  PROVE  Walk' = s /\ \A i \in Nat : NodeAt'[i] = IF i < Len(s) THEN s[i + 1] ELSE NULL
<1>0. s \in Seq(Data) /\ Len(s) \in Nat BY DEF Linked
<1>1. NodeAt' = Along(next', head') BY DEF NodeAt, Along
<1>2. \A i \in Nat : NodeAt'[i] = IF i < Len(s) THEN s[i + 1] ELSE NULL BY <1>1, WalkOfChain
<1> HIDE DEF NodeAt
<1>3. \A i \in 1..Len(s) : NodeAt'[i - 1] = s[i]
  <2> TAKE i \in 1..Len(s)
  <2>1. i - 1 \in Nat /\ i - 1 < Len(s) /\ (i - 1) + 1 = i BY <1>0
  <2> QED BY <1>2, <2>1
<1>4. s = [i \in 1..Len(s) |-> s[i]] BY <1>0
<1>5. Walk' = s BY <1>3, <1>4 DEF Walk
<1> QED BY <1>2, <1>5

(* A chain has as many nodes as it is long.                                 *)
LEMMA CountMembers ==
  ASSUME NEW s \in Seq(Data), Distinct(s)
  PROVE  Cardinality(Members(s)) = Len(s) /\ Len(s) \in 0..Cardinality(Data)
<1> DEFINE n == Len(s)
           f == [i \in 1..n |-> s[i]]
<1>1. n \in Nat /\ f \in [1..n -> Members(s)] BY DEF Members
<1>2. f \in Injection(1..n, Members(s)) BY <1>1 DEF Injection, IsInjective, Distinct
<1>3. f \in Surjection(1..n, Members(s)) BY <1>1 DEF Surjection, Members
<1>4. ExistsBijection(1..n, Members(s)) BY <1>2, <1>3 DEF ExistsBijection, Bijection
<1>5. IsFiniteSet(1..n) /\ Cardinality(1..n) = n
  <2>1. IsFiniteSet(1..n) /\ Cardinality(1..n) = IF 1 > n THEN 0 ELSE n - 1 + 1 BY <1>1, FS_Interval
  <2> HIDE DEF n
  <2> QED BY <1>1, <2>1
<1>6. IsFiniteSet(Members(s)) /\ Cardinality(Members(s)) = n BY <1>4, <1>5, FS_Bijection
<1>7. Members(s) \in SUBSET Data BY DEF Members
<1>8. Cardinality(Members(s)) <= Cardinality(Data) BY <1>7, ListConstants, FS_Subset
<1>9. Cardinality(Data) \in Nat BY ListConstants, FS_CardinalityType
<1> QED BY <1>1, <1>6, <1>8, <1>9

----------------------------------------------------------------------------
(* d behind the first i nodes of s, and s without its k-th node.            *)
Inserted(s, i, d) ==
  [j \in 1..(Len(s) + 1) |-> IF j <= i THEN s[j] ELSE IF j = i + 1 THEN d ELSE s[j - 1]]
Without(s, k) == [i \in 1..(Len(s) - 1) |-> IF i < k THEN s[i] ELSE s[i + 1]]

(* The longer one is a sequence of nodes; its nodes are those of s, and d.  *)
LEMMA InsertedFacts ==
  ASSUME NEW s \in Seq(Data), NEW d \in Data, NEW i \in 0..Len(s)
  PROVE  /\ Inserted(s, i, d) \in Seq(Data) /\ Len(Inserted(s, i, d)) = Len(s) + 1
         /\ \A j \in 1..(Len(s) + 1) :
              /\ Inserted(s, i, d)[j] = IF j <= i THEN s[j] ELSE IF j = i + 1 THEN d ELSE s[j - 1]
              /\ j <= i => j \in 1..Len(s)
              /\ j > i + 1 => j - 1 \in 1..Len(s)
         /\ Members(Inserted(s, i, d)) = Members(s) \union {d}
<1> DEFINE n == Len(s) + 1
           r == Inserted(s, i, d)
           val(j) == IF j <= i THEN s[j] ELSE IF j = i + 1 THEN d ELSE s[j - 1]
<1>1. Len(s) \in Nat /\ n \in Nat /\ i \in Nat /\ i <= Len(s) /\ n = Len(s) + 1 OBVIOUS
<1> HIDE DEF n
<1>2. \A j \in 1..n : (j <= i => j \in 1..Len(s)) /\ (j > i + 1 => j - 1 \in 1..Len(s)) BY <1>1
<1>3. \A j \in 1..n : j <= i \/ j = i + 1 \/ j > i + 1 BY <1>1
<1>4. \A j \in 1..n : val(j) \in Data BY <1>2, <1>3
<1>5. r = [j \in 1..n |-> val(j)] BY DEF Inserted, n
<1> HIDE DEF r
<1>6. r \in [1..n -> Data] BY <1>4, <1>5
<1>7. r \in Seq(Data) /\ Len(r) = n BY <1>1, <1>6
<1>8. \A j \in 1..n : r[j] = val(j) BY <1>5
<1>9. ASSUME NEW x \in Members(r) PROVE x \in Members(s) \union {d}
  <2>1. PICK j \in 1..n : x = val(j) BY <1>7, <1>8, <1>9 DEF Members
  <2> QED BY <1>2, <1>3, <2>1 DEF Members
<1>10. d \in Members(r)
  <2>1. i + 1 \in 1..n BY <1>1
  <2>2. ~(i + 1 <= i) BY <1>1
  <2>3. r[i + 1] = d BY <1>8, <2>1, <2>2
  <2> QED BY <1>7, <2>1, <2>3 DEF Members
<1>11. ASSUME NEW x \in Members(s) PROVE x \in Members(r)
  <2>1. PICK j \in 1..Len(s) : x = s[j] BY <1>11 DEF Members
  <2>2. CASE j <= i
    <3>1. j \in 1..n BY <1>1
    <3>2. r[j] = s[j] BY <1>8, <2>2, <3>1
    <3> QED BY <1>7, <2>1, <3>1, <3>2 DEF Members
  <2>3. CASE ~(j <= i)
    <3>1. j + 1 \in 1..n /\ ~(j + 1 <= i) /\ j + 1 # i + 1 /\ (j + 1) - 1 = j BY <1>1, <2>3
    <3>2. r[j + 1] = s[j] BY <1>8, <3>1
    <3> QED BY <1>7, <2>1, <3>1, <3>2 DEF Members
  <2> QED BY <2>2, <2>3
<1>12. Members(r) = Members(s) \union {d} BY <1>9, <1>10, <1>11
<1> QED BY <1>2, <1>7, <1>8, <1>12 DEF r, n

(* In particular, what is last.                                             *)
LEMMA InsertedLast ==
  ASSUME NEW s \in Seq(Data), NEW d \in Data, NEW i \in 0..Len(s)
  PROVE  Inserted(s, i, d)[Len(s) + 1] = IF i = Len(s) THEN d ELSE s[Len(s)]
<1> DEFINE n == Len(s)
<1>1. n \in Nat OBVIOUS
<1>2. \A j \in 1..(n + 1) : Inserted(s, i, d)[j] = IF j <= i THEN s[j] ELSE IF j = i + 1 THEN d ELSE s[j - 1]
  BY InsertedFacts
<1>3. i \in 0..n OBVIOUS
<1> HIDE DEF n
<1>4. n + 1 \in 1..(n + 1) /\ ~(n + 1 <= i) /\ (n + 1 = i + 1 <=> i = n) /\ (n + 1) - 1 = n BY <1>1, <1>3
<1>5. Inserted(s, i, d)[n + 1] = IF i = n THEN d ELSE s[n] BY <1>2, <1>4
<1> QED BY <1>5 DEF n

(* The links of a new node, at any place: at the head, between two nodes or *)
(* at the tail.                                                             *)
LinksNew(nx, pv, start, s, i, d, nx2, pv2, start2) ==
  /\ start2 = IF i = 0 THEN d ELSE start
  /\ nx2[d] = IF i = Len(s) THEN NULL ELSE s[i + 1]
  /\ pv2[d] = IF i = 0 THEN NULL ELSE s[i]
  /\ \A j \in 1..Len(s) : nx2[s[j]] = IF j = i THEN d ELSE nx[s[j]]
  /\ \A j \in 1..Len(s) : pv2[s[j]] = IF j = i + 1 THEN d ELSE pv[s[j]]

(* With such links the new node is in the chain, behind the first i.        *)
LEMMA InsertLinks ==
  ASSUME NEW nx, NEW pv, NEW start, NEW s, Linked(nx, pv, start, s),
         NEW d \in Data, d \notin Members(s), NEW i \in 0..Len(s), NEW nx2, NEW pv2, NEW start2,
         LinksNew(nx, pv, start, s, i, d, nx2, pv2, start2)
  PROVE  Linked(nx2, pv2, start2, Inserted(s, i, d))
<1> USE DEF LinksNew
<1> DEFINE n == Len(s)
           r == Inserted(s, i, d)
<1>1. s \in Seq(Data) /\ n \in Nat /\ i \in Nat /\ i <= n BY DEF Linked
<1>2. /\ r \in Seq(Data) /\ Len(r) = n + 1
      /\ \A j \in 1..(n + 1) : r[j] = IF j <= i THEN s[j] ELSE IF j = i + 1 THEN d ELSE s[j - 1]
  BY <1>1, InsertedFacts
<1>3. \A j \in 1..n : s[j] \in Data /\ s[j] # d BY <1>1 DEF Members
<1>4. /\ \A j \in 1..n : nx[s[j]] = IF j = n THEN NULL ELSE s[j + 1]
      /\ \A j \in 1..n : pv[s[j]] = IF j = 1 THEN NULL ELSE s[j - 1]
      /\ \A j, k \in 1..n : s[j] = s[k] => j = k
      /\ start = IF n = 0 THEN NULL ELSE s[1]
  BY DEF Linked, Distinct
<1> HIDE DEF n, r
<1>5. start2 = r[1]
  <2>0. 1 \in 1..(n + 1) BY <1>1
  <2>1. CASE i = 0 BY <1>2, <2>0, <2>1
  <2>2. CASE i # 0
    <3>1. 1 <= i /\ n # 0 BY <1>1, <2>2
    <3> QED BY <1>2, <1>4, <2>0, <2>2, <3>1
  <2> QED BY <2>1, <2>2
<1>6. ASSUME NEW j \in 1..(n + 1) PROVE nx2[r[j]] = IF j = n + 1 THEN NULL ELSE r[j + 1]
  <2>1. CASE j < i
    <3>1. j \in 1..n /\ j # n /\ j # n + 1 /\ j # i /\ j + 1 <= i /\ j + 1 \in 1..(n + 1) /\ j <= i
      BY <1>1, <2>1
    <3>2. r[j] = s[j] /\ r[j + 1] = s[j + 1] BY <1>2, <3>1
    <3> QED BY <1>4, <3>1, <3>2 DEF n
  <2>2. CASE j = i
    <3>1. j \in 1..n /\ j # n + 1 /\ j + 1 \in 1..(n + 1) /\ j <= i /\ ~(j + 1 <= i) BY <1>1, <2>2
    <3>2. r[j] = s[j] /\ r[j + 1] = d BY <1>2, <2>2, <3>1
    <3> QED BY <2>2, <3>1, <3>2 DEF n
  <2>3. CASE j = i + 1
    <3>1. r[j] = d BY <1>1, <1>2, <2>3
    <3>2. CASE i = n BY <2>3, <3>1, <3>2 DEF n
    <3>3. CASE i # n
      <4>1. j + 1 \in 1..(n + 1) /\ ~(j + 1 <= i) /\ j + 1 # i + 1 /\ (j + 1) - 1 = i + 1 /\ j # n + 1
        BY <1>1, <2>3, <3>3
      <4>2. r[j + 1] = s[i + 1] BY <1>2, <4>1
      <4> QED BY <2>3, <3>1, <3>3, <4>1, <4>2 DEF n
    <3> QED BY <3>2, <3>3
  <2>4. CASE j > i + 1
    <3>1. /\ j - 1 \in 1..n /\ j - 1 # i /\ ~(j <= i) /\ j # i + 1 /\ (j - 1) + 1 = j
          /\ (j - 1 = n <=> j = n + 1)
      BY <1>1, <2>4
    <3>2. r[j] = s[j - 1] BY <1>2, <3>1
    <3>3. nx2[s[j - 1]] = IF j - 1 = n THEN NULL ELSE s[(j - 1) + 1] BY <1>4, <3>1 DEF n
    <3>4. j # n + 1 => j + 1 \in 1..(n + 1) /\ ~(j + 1 <= i) /\ j + 1 # i + 1 /\ (j + 1) - 1 = j
      BY <1>1, <2>4
    <3>5. j # n + 1 => r[j + 1] = s[j] BY <1>2, <3>4
    <3> QED BY <3>1, <3>2, <3>3, <3>5
  <2> QED BY <1>1, <2>1, <2>2, <2>3, <2>4
<1>7. ASSUME NEW j \in 1..(n + 1) PROVE pv2[r[j]] = IF j = 1 THEN NULL ELSE r[j - 1]
  <2>1. CASE j <= i
    <3>1. j \in 1..n /\ j # i + 1 /\ (j # 1 => j - 1 \in 1..(n + 1) /\ j - 1 <= i) BY <1>1, <2>1
    <3>2. r[j] = s[j] /\ (j # 1 => r[j - 1] = s[j - 1]) BY <1>2, <2>1, <3>1
    <3> QED BY <1>4, <3>1, <3>2 DEF n
  <2>2. CASE j = i + 1
    <3>1. ~(j <= i) /\ (j = 1 <=> i = 0) /\ j - 1 = i BY <1>1, <2>2
    <3>2. r[j] = d BY <1>2, <2>2, <3>1
    <3>3. i # 0 => r[i] = s[i]
      <4>1. i # 0 => i \in 1..(n + 1) /\ i <= i BY <1>1
      <4> QED BY <1>2, <4>1
    <3> QED BY <3>1, <3>2, <3>3
  <2>3. CASE j = i + 2
    <3>1. j - 1 = i + 1 /\ ~(j <= i) /\ j # i + 1 /\ j # 1 /\ i + 1 \in 1..n /\ i + 1 \in 1..(n + 1)
          /\ ~(i + 1 <= i)
      BY <1>1, <2>3
    <3>2. r[j] = s[i + 1] /\ r[j - 1] = d BY <1>2, <3>1
    <3> QED BY <3>1, <3>2 DEF n
  <2>4. CASE j > i + 2
    <3>1. /\ j - 1 \in 1..n /\ j - 1 # i + 1 /\ ~(j <= i) /\ j # i + 1 /\ j # 1 /\ j - 1 # 1
          /\ j - 1 \in 1..(n + 1) /\ ~(j - 1 <= i)
      BY <1>1, <2>4
    <3>2. r[j] = s[j - 1] /\ r[j - 1] = s[(j - 1) - 1] BY <1>2, <3>1
    <3> QED BY <1>4, <3>1, <3>2 DEF n
  <2> QED BY <1>1, <2>1, <2>2, <2>3, <2>4
<1>8. ASSUME NEW j \in 1..(n + 1), NEW k \in 1..(n + 1), r[j] = r[k] PROVE j = k
  <2> DEFINE At(x, p) == p \in 1..n /\ r[x] = s[p] /\ x = IF p <= i THEN p ELSE p + 1
  <2>1. \A x \in 1..(n + 1) : x # i + 1 => \E p \in 1..n : At(x, p)
    <3> TAKE x \in 1..(n + 1)
    <3>1. CASE x <= i
      <4>1. x \in 1..n /\ r[x] = s[x] BY <1>1, <1>2, <3>1
      <4> QED BY <3>1, <4>1
    <3>2. CASE x > i + 1
      <4>1. x - 1 \in 1..n /\ ~(x - 1 <= i) /\ (x - 1) + 1 = x /\ ~(x <= i) /\ x # i + 1 BY <1>1, <3>2
      <4>2. r[x] = s[x - 1] BY <1>2, <4>1
      <4> QED BY <4>1, <4>2
    <3> QED BY <1>1, <3>1, <3>2
  <2>2. r[i + 1] = d
    <3>1. i + 1 \in 1..(n + 1) /\ ~(i + 1 <= i) BY <1>1
    <3> QED BY <1>2, <3>1
  <2>3. CASE j = i + 1 /\ k = i + 1 BY <2>3
  <2>4. CASE j # i + 1 /\ k # i + 1
    <3>1. PICK p \in 1..n : At(j, p) BY <2>1, <2>4
    <3>2. PICK q \in 1..n : At(k, q) BY <2>1, <2>4
    <3>3. s[p] = s[q] BY <1>8, <3>1, <3>2
    <3>4. \A x, y \in 1..n : s[x] = s[y] => x = y BY <1>4
    <3>5. p = q BY <3>3, <3>4
    <3> QED BY <3>1, <3>2, <3>5
  <2>5. CASE j = i + 1 /\ k # i + 1 BY <1>3, <1>8, <2>1, <2>2, <2>5
  <2>6. CASE j # i + 1 /\ k = i + 1 BY <1>3, <1>8, <2>1, <2>2, <2>6
  <2> QED BY <2>3, <2>4, <2>5, <2>6
<1>9. Len(r) # 0 BY <1>1, <1>2
<1>10. Linked(nx2, pv2, start2, r) BY <1>2, <1>5, <1>6, <1>7, <1>8, <1>9 DEF Linked, Distinct
<1> QED BY <1>10 DEF r

(* The shorter one; its nodes are those of a chain without the k-th.        *)
LEMMA WithoutFacts ==
  ASSUME NEW s \in Seq(Data), NEW k \in 1..Len(s)
  PROVE  /\ Without(s, k) \in Seq(Data) /\ Len(Without(s, k)) = Len(s) - 1
         /\ Len(s) \in Nat /\ Len(s) - 1 \in Nat
         /\ \A i \in 1..(Len(s) - 1) :
              /\ Without(s, k)[i] = IF i < k THEN s[i] ELSE s[i + 1]
              /\ i \in 1..Len(s) /\ i + 1 \in 1..Len(s)
         /\ Members(Without(s, k)) \subseteq Members(s)
<1> DEFINE n == Len(s) - 1
           r == Without(s, k)
<1>1. Len(s) \in Nat /\ n \in Nat OBVIOUS
<1>2. \A i \in 1..n : i \in 1..Len(s) /\ i + 1 \in 1..Len(s) BY <1>1
<1>3. \A i \in 1..n : (IF i < k THEN s[i] ELSE s[i + 1]) \in Data BY <1>2
<1> HIDE DEF n
<1>4. r = [i \in 1..n |-> IF i < k THEN s[i] ELSE s[i + 1]] BY DEF Without, n
<1>5. r \in [1..n -> Data] BY <1>3, <1>4
<1>6. r \in Seq(Data) /\ Len(r) = n BY <1>1, <1>5
<1>7. Members(r) \subseteq Members(s) BY <1>2, <1>4, <1>6, ZenonT(30) DEF Members
<1> QED BY <1>1, <1>2, <1>4, <1>6, <1>7 DEF n

(* The links around a node closed, at either end or between two others.     *)
LinksClosed(nx, pv, start, s, k, nx2, pv2, start2) ==
  /\ start2 = IF k = 1 THEN nx[s[k]] ELSE start
  /\ \A j \in 1..Len(s) : j # k => nx2[s[j]] = IF j = k - 1 THEN nx[s[k]] ELSE nx[s[j]]
  /\ \A j \in 1..Len(s) : j # k => pv2[s[j]] = IF j = k + 1 THEN pv[s[k]] ELSE pv[s[j]]

(* With such links the node is out of the chain, and no other is.           *)
LEMMA RemoveLinks ==
  ASSUME NEW nx, NEW pv, NEW start, NEW s, Linked(nx, pv, start, s),
         NEW k \in 1..Len(s), NEW nx2, NEW pv2, NEW start2,
         LinksClosed(nx, pv, start, s, k, nx2, pv2, start2)
  PROVE  /\ Linked(nx2, pv2, start2, Without(s, k))
         /\ Members(Without(s, k)) = Members(s) \ {s[k]}
<1> USE DEF LinksClosed
<1> DEFINE m == Len(s)
           n == m - 1
           r == Without(s, k)
<1>1. s \in Seq(Data) BY DEF Linked
<1>2. /\ r \in Seq(Data) /\ Len(r) = n /\ m \in Nat /\ n \in Nat
      /\ \A i \in 1..n : r[i] = IF i < k THEN s[i] ELSE s[i + 1]
      /\ Members(r) \subseteq Members(s)
  BY <1>1, WithoutFacts
<1>3. n = m - 1 /\ k \in 1..m OBVIOUS
<1>4. /\ \A i \in 1..m : nx[s[i]] = IF i = m THEN NULL ELSE s[i + 1]
      /\ \A i \in 1..m : pv[s[i]] = IF i = 1 THEN NULL ELSE s[i - 1]
      /\ start = IF m = 0 THEN NULL ELSE s[1]
      /\ \A i \in 1..m : s[i] \in Data
  BY <1>1 DEF Linked
<1>5. \A i, j \in 1..m : s[i] = s[j] => i = j BY DEF Linked, Distinct
<1>6. /\ \A j \in 1..m : j # k => nx2[s[j]] = IF j = k - 1 THEN nx[s[k]] ELSE nx[s[j]]
      /\ \A j \in 1..m : j # k => pv2[s[j]] = IF j = k + 1 THEN pv[s[k]] ELSE pv[s[j]]
  OBVIOUS
<1> HIDE DEF r, n, m
<1>7. start2 = IF n = 0 THEN NULL ELSE r[1]
  <2>1. CASE k = 1
    <3>1. 1 \in 1..m /\ start2 = nx[s[1]] BY <1>3, <2>1
    <3>2. CASE n = 0
      <4>1. 1 = m BY <1>2, <1>3, <3>2
      <4> QED BY <1>4, <3>1, <3>2, <4>1
    <3>3. CASE n # 0
      <4>1. 1 \in 1..n /\ 1 # m /\ ~(1 < k) BY <1>2, <1>3, <2>1, <3>3
      <4>2. r[1] = s[1 + 1] BY <1>2, <4>1
      <4> QED BY <1>4, <3>1, <3>3, <4>1, <4>2
    <3> QED BY <3>2, <3>3
  <2>2. CASE k # 1
    <3>1. 1 \in 1..n /\ 1 < k /\ m # 0 /\ n # 0 BY <1>2, <1>3, <2>2
    <3>2. r[1] = s[1] BY <1>2, <3>1
    <3> QED BY <1>4, <2>2, <3>1, <3>2
  <2> QED BY <2>1, <2>2
<1>8. ASSUME NEW i \in 1..n PROVE nx2[r[i]] = IF i = n THEN NULL ELSE r[i + 1]
  <2>0. i \in 1..m /\ i + 1 \in 1..m /\ (i # n => i + 1 \in 1..n) BY <1>2, <1>3
  <2>1. CASE ~(i < k)
    <3>1. r[i] = s[i + 1] BY <1>2, <2>1
    <3>2. i + 1 # k /\ i + 1 # k - 1 /\ ~(i + 1 < k) /\ (i + 1 = m <=> i = n) BY <1>2, <1>3, <2>0, <2>1
    <3>3. nx2[s[i + 1]] = IF i + 1 = m THEN NULL ELSE s[i + 1 + 1] BY <1>4, <1>6, <2>0, <3>2
    <3>4. i # n => r[i + 1] = s[i + 1 + 1] BY <1>2, <2>0, <3>2
    <3> QED BY <3>1, <3>2, <3>3, <3>4
  <2>2. CASE i = k - 1
    <3>1. r[i] = s[i] /\ i # k /\ k = i + 1 /\ (k = m <=> i = n) /\ ~(i + 1 < k)
      BY <1>2, <1>3, <2>0, <2>2
    <3>2. nx2[s[i]] = IF k = m THEN NULL ELSE s[k + 1] BY <1>3, <1>4, <1>6, <2>0, <2>2, <3>1
    <3>3. i # n => r[i + 1] = s[i + 1 + 1] BY <1>2, <2>0, <3>1
    <3> QED BY <3>1, <3>2, <3>3
  <2>3. CASE i < k - 1
    <3>1. r[i] = s[i] /\ i # k /\ i # k - 1 /\ i + 1 < k /\ i # m /\ i # n
      BY <1>2, <1>3, <2>0, <2>3
    <3>2. nx2[s[i]] = s[i + 1] BY <1>4, <1>6, <2>0, <3>1
    <3>3. r[i + 1] = s[i + 1] BY <1>2, <2>0, <3>1
    <3> QED BY <3>1, <3>2, <3>3
  <2> QED BY <1>2, <1>3, <2>1, <2>2, <2>3
<1>9. ASSUME NEW i \in 1..n PROVE pv2[r[i]] = IF i = 1 THEN NULL ELSE r[i - 1]
  <2>0. i \in 1..m /\ i + 1 \in 1..m /\ (i # 1 => i - 1 \in 1..n) BY <1>2, <1>3
  <2>1. CASE i < k
    <3>1. r[i] = s[i] /\ i # k /\ i # k + 1 /\ i - 1 < k BY <1>2, <1>3, <2>0, <2>1
    <3>2. pv2[s[i]] = IF i = 1 THEN NULL ELSE s[i - 1] BY <1>4, <1>6, <2>0, <3>1
    <3>3. i # 1 => r[i - 1] = s[i - 1] BY <1>2, <2>0, <3>1
    <3> QED BY <3>1, <3>2, <3>3
  <2>2. CASE i = k
    <3>1. r[i] = s[i + 1] /\ i + 1 # k /\ i + 1 = k + 1 /\ i - 1 < k BY <1>2, <1>3, <2>0, <2>2
    <3>2. pv2[s[i + 1]] = pv[s[k]] BY <1>6, <2>0, <3>1
    <3>3. pv[s[k]] = IF i = 1 THEN NULL ELSE s[i - 1] BY <1>3, <1>4, <2>2
    <3>4. i # 1 => r[i - 1] = s[i - 1] BY <1>2, <2>0, <3>1
    <3> QED BY <3>1, <3>2, <3>3, <3>4
  <2>3. CASE i > k
    <3>1. /\ r[i] = s[i + 1] /\ i + 1 # k /\ i + 1 # k + 1 /\ ~(i - 1 < k) /\ i # 1 /\ i + 1 # 1
          /\ (i + 1) - 1 = i /\ (i - 1) + 1 = i
      BY <1>2, <1>3, <2>0, <2>3
    <3>2. pv2[s[i + 1]] = s[i] BY <1>4, <1>6, <2>0, <3>1
    <3>3. r[i - 1] = s[i] BY <1>2, <2>0, <3>1
    <3> QED BY <3>1, <3>2, <3>3
  <2> QED BY <1>2, <1>3, <2>1, <2>2, <2>3
<1>10. \A i \in 1..n : \E p \in 1..m : r[i] = s[p] /\ p # k /\ p = IF i < k THEN i ELSE i + 1
  BY <1>2, <1>3
<1>11. ASSUME NEW i \in 1..n, NEW j \in 1..n, r[i] = r[j] PROVE i = j
  <2>1. PICK p \in 1..m : r[i] = s[p] /\ p = IF i < k THEN i ELSE i + 1 BY <1>10
  <2>2. PICK q \in 1..m : r[j] = s[q] /\ q = IF j < k THEN j ELSE j + 1 BY <1>10
  <2>3. p = q BY <1>5, <1>11, <2>1, <2>2, ZenonT(30)
  <2> QED BY <2>1, <2>2, <2>3
<1>12. Linked(nx2, pv2, start2, r) BY <1>2, <1>7, <1>8, <1>9, <1>11 DEF Linked, Distinct
<1>13. ASSUME NEW e \in Members(r) PROVE e \in Members(s) \ {s[k]}
  <2>1. PICK i \in 1..n : e = r[i] BY <1>2, <1>13 DEF Members
  <2>2. PICK p \in 1..m : r[i] = s[p] /\ p # k BY <1>10
  <2>3. s[p] # s[k] BY <1>3, <1>5, <2>2
  <2> QED BY <1>2, <1>13, <2>1, <2>2, <2>3
<1>14. ASSUME NEW e \in Members(s), e # s[k] PROVE e \in Members(r)
  <2>1. PICK p \in 1..m : e = s[p] BY <1>14 DEF Members, m
  <2>2. p # k BY <1>14, <2>1
  <2>3. CASE p < k
    <3>1. p \in 1..n BY <1>2, <1>3, <2>3
    <3>2. r[p] = s[p] BY <1>2, <2>3, <3>1
    <3> QED BY <1>2, <2>1, <3>1, <3>2 DEF Members
  <2>4. CASE p > k
    <3>1. p - 1 \in 1..n /\ ~(p - 1 < k) /\ (p - 1) + 1 = p BY <1>2, <1>3, <2>4
    <3>2. r[p - 1] = s[p] BY <1>2, <3>1
    <3> QED BY <1>2, <2>1, <3>1, <3>2 DEF Members
  <2> QED BY <1>3, <2>1, <2>2, <2>3, <2>4
<1>15. Members(r) = Members(s) \ {s[k]} BY <1>13, <1>14
<1> QED BY <1>12, <1>15 DEF r

----------------------------------------------------------------------------
(* Recursion on a measure: when stp, given a function f and an argument x,  *)
(* looks at f only where the measure is smaller, some f is defined by it.   *)
Local(S, V, m, stp) ==
  \A f, g \in [S -> V], x \in S :
    (\A y \in S : m[y] < m[x] => f[y] = g[y]) => stp[<<f, x>>] = stp[<<g, x>>]

Obeys(S, m, stp, n, f) == \A x \in S : m[x] < n => f[x] = stp[<<f, x>>]

(* Two functions that follow the recursion agree as far as both do.         *)
LEMMA RecursionAgrees ==
  ASSUME NEW S, NEW V, NEW m \in [S -> Nat], NEW stp, Local(S, V, m, stp),
         NEW k \in Nat, NEW n \in Nat, k <= n, NEW f \in [S -> V], NEW g \in [S -> V],
         Obeys(S, m, stp, k, f), Obeys(S, m, stp, n, g)
  PROVE  \A x \in S : m[x] < k => f[x] = g[x]
<1> SUFFICES ASSUME ~ \A x \in S : m[x] < k => f[x] = g[x] PROVE FALSE OBVIOUS
<1> DEFINE Bad == {m[x] : x \in {y \in S : m[y] < k /\ f[y] # g[y]}}
<1>1. Bad \subseteq Nat /\ Bad # {} OBVIOUS
<1>2. PICK l \in Bad : \A j \in Bad : l <= j BY <1>1, LeastNumber
<1>3. PICK x \in S : m[x] = l /\ m[x] < k /\ f[x] # g[x] BY <1>2
<1>4. ASSUME NEW y \in S, m[y] < m[x] PROVE f[y] = g[y]
  <2>1. m[y] \in Nat /\ m[x] \in Nat OBVIOUS
  <2>2. m[y] < k /\ m[y] \notin Bad BY <1>2, <1>3, <1>4, <2>1
  <2> QED BY <2>2
<1>5. stp[<<f, x>>] = stp[<<g, x>>] BY <1>3, <1>4 DEF Local
<1>6. m[x] < n BY <1>3
<1> QED BY <1>3, <1>5, <1>6 DEF Obeys

(* Some function follows it as far as one likes, ...                        *)
LEMMA RecursionBegins ==
  ASSUME NEW S, NEW V, NEW v \in V, NEW m \in [S -> Nat], NEW stp \in [[S -> V] \X S -> V],
         Local(S, V, m, stp)
  PROVE  \A n \in Nat : \E f \in [S -> V] : Obeys(S, m, stp, n, f)
<1> SUFFICES ASSUME ~ \A n \in Nat : \E f \in [S -> V] : Obeys(S, m, stp, n, f) PROVE FALSE OBVIOUS
<1> DEFINE Bad == {n \in Nat : ~ \E f \in [S -> V] : Obeys(S, m, stp, n, f)}
<1>1. Bad \subseteq Nat /\ Bad # {} OBVIOUS
<1>2. PICK n \in Bad : \A j \in Bad : n <= j BY <1>1, LeastNumber
<1>3. n \in Nat /\ ~ \E f \in [S -> V] : Obeys(S, m, stp, n, f) BY <1>2
<1>4. CASE n = 0
  <2> DEFINE f == [x \in S |-> v]
  <2>1. f \in [S -> V] OBVIOUS
  <2>2. \A x \in S : ~(m[x] < 0) OBVIOUS
  <2>3. Obeys(S, m, stp, 0, f) BY <2>2 DEF Obeys
  <2> QED BY <1>3, <1>4, <2>1, <2>3
<1>5. CASE n # 0
  <2>1. n - 1 \in Nat /\ n - 1 \notin Bad BY <1>2, <1>3, <1>5
  <2>2. PICK f \in [S -> V] : Obeys(S, m, stp, n - 1, f) BY <2>1
  <2> DEFINE g == [x \in S |-> IF m[x] < n - 1 THEN f[x] ELSE stp[<<f, x>>]]
  <2>3. g \in [S -> V] OBVIOUS
  <2>4. \A x \in S : g[x] = IF m[x] < n - 1 THEN f[x] ELSE stp[<<f, x>>] OBVIOUS
  <2> HIDE DEF g
  <2>5. ASSUME NEW x \in S, m[x] < n PROVE g[x] = stp[<<g, x>>]
    <3>1. \A y \in S : m[y] < m[x] => m[y] < n - 1
      <4>1. m[x] \in Nat /\ \A y \in S : m[y] \in Nat OBVIOUS
      <4> QED BY <1>3, <2>5, <4>1
    <3>2. \A y \in S : m[y] < m[x] => f[y] = g[y] BY <2>4, <3>1
    <3>3. stp[<<f, x>>] = stp[<<g, x>>] BY <2>3, <3>2 DEF Local
    <3>4. CASE m[x] < n - 1 BY <2>2, <2>4, <3>3, <3>4 DEF Obeys
    <3>5. CASE ~(m[x] < n - 1) BY <2>4, <3>3, <3>5
    <3> QED BY <3>4, <3>5
  <2>6. Obeys(S, m, stp, n, g) BY <2>5 DEF Obeys
  <2> QED BY <1>3, <2>3, <2>6
<1> QED BY <1>4, <1>5

(* ... and so one follows it everywhere.                                    *)
WellDefined(S, V, v, m, stp) ==
  v \in V /\ m \in [S -> Nat] /\ stp \in [[S -> V] \X S -> V] /\ Local(S, V, m, stp)

(* One function, then, for all arguments.                                   *)
LEMMA Recursion ==
  ASSUME NEW S, NEW V, NEW v, NEW m, NEW stp, WellDefined(S, V, v, m, stp)
  PROVE  \E f \in [S -> V] : \A x \in S : f[x] = stp[<<f, x>>]
<1> USE DEF WellDefined
<1> DEFINE part(n) == CHOOSE f : f \in [S -> V] /\ Obeys(S, m, stp, n, f)
           F == [x \in S |-> part(m[x] + 1)[x]]
<1>1. \A n \in Nat : part(n) \in [S -> V] /\ Obeys(S, m, stp, n, part(n))
  <2> TAKE n \in Nat
  <2>1. \E f : f \in [S -> V] /\ Obeys(S, m, stp, n, f) BY RecursionBegins
  <2> QED BY <2>1
<1> HIDE DEF part
<1>2. \A x \in S : m[x] \in Nat /\ m[x] + 1 \in Nat OBVIOUS
<1>3. F \in [S -> V] BY <1>1, <1>2
<1>4. \A x \in S : F[x] = part(m[x] + 1)[x] OBVIOUS
<1> HIDE DEF F
<1>5. ASSUME NEW x \in S PROVE F[x] = stp[<<F, x>>]
  <2> DEFINE g == part(m[x] + 1)
  <2>1. g \in [S -> V] /\ Obeys(S, m, stp, m[x] + 1, g) BY <1>1, <1>2
  <2> HIDE DEF g
  <2>2. m[x] < m[x] + 1 BY <1>2
  <2>3. g[x] = stp[<<g, x>>] BY <2>1, <2>2 DEF Obeys
  <2>4. ASSUME NEW y \in S, m[y] < m[x] PROVE F[y] = g[y]
    <3> DEFINE h == part(m[y] + 1)
    <3>1. h \in [S -> V] /\ Obeys(S, m, stp, m[y] + 1, h) BY <1>1, <1>2
    <3> HIDE DEF h
    <3>2. m[y] < m[y] + 1 /\ m[y] + 1 <= m[x] + 1 /\ m[y] + 1 \in Nat /\ m[x] + 1 \in Nat BY <1>2, <2>4
    <3>3. \A z \in S : m[z] < m[y] + 1 => h[z] = g[z] BY <2>1, <3>1, <3>2, RecursionAgrees
    <3> QED BY <1>4, <3>2, <3>3 DEF h
  <2>5. stp[<<F, x>>] = stp[<<g, x>>] BY <1>3, <2>1, <2>4 DEF Local
  <2> QED BY <1>4, <2>3, <2>5 DEF g
<1> QED BY <1>3, <1>5

----------------------------------------------------------------------------
Ascending(s) == \A i, j \in 1..Len(s) : i <= j => Key[s[i]] <= Key[s[j]]

(* The parts of a sequence that is not empty.                               *)
LEMMA TailFacts ==
  ASSUME NEW s \in Seq(Data), s # <<>>
  PROVE  /\ Head(s) \in Data /\ Tail(s) \in Seq(Data) /\ Len(s) \in Nat \ {0} /\ Len(Tail(s)) = Len(s) - 1
         /\ Members(s) = {Head(s)} \union Members(Tail(s))
         /\ Ascending(s) => Ascending(Tail(s)) /\ \A e \in Members(s) : Key[Head(s)] <= Key[e]
<1> DEFINE t == Tail(s)
           n == Len(s)
<1>1. n \in Nat \ {0} /\ Head(s) = s[1] /\ t \in Seq(Data) /\ Len(t) = n - 1 OBVIOUS
<1>2. \A i \in 1..(n - 1) : t[i] = s[i + 1] /\ i + 1 \in 1..n BY <1>1
<1>3. s[1] \in Data /\ 1 \in 1..n BY <1>1
<1> HIDE DEF t, n
<1>4. Members(s) = {s[1]} \union Members(t)
  <2>1. ASSUME NEW x \in Members(s), x # s[1] PROVE x \in Members(t)
    <3>1. PICK i \in 1..n : x = s[i] BY <2>1 DEF Members, n
    <3>2. i - 1 \in 1..(n - 1) /\ (i - 1) + 1 = i BY <1>1, <2>1, <3>1
    <3>3. t[i - 1] = s[i] BY <1>2, <3>2
    <3> QED BY <1>1, <3>1, <3>2, <3>3 DEF Members
  <2>2. Members(t) \subseteq Members(s) BY <1>1, <1>2 DEF Members, n
  <2>3. s[1] \in Members(s) BY <1>3 DEF Members, n
  <2> QED BY <2>1, <2>2, <2>3
<1>5. ASSUME Ascending(s) PROVE Ascending(t) /\ \A e \in Members(s) : Key[s[1]] <= Key[e]
  <2>1. \A i, j \in 1..n : i <= j => Key[s[i]] <= Key[s[j]] BY <1>5 DEF Ascending, n
  <2>2. ASSUME NEW i \in 1..(n - 1), NEW j \in 1..(n - 1), i <= j PROVE Key[t[i]] <= Key[t[j]]
    <3>1. i + 1 <= j + 1 BY <2>2
    <3> QED BY <1>2, <2>1, <3>1
  <2>3. \A i \in 1..n : 1 <= i BY <1>1
  <2>4. \A i \in 1..n : Key[s[1]] <= Key[s[i]] BY <1>3, <2>1, <2>3
  <2>5. \A e \in Members(s) : Key[s[1]] <= Key[e] BY <2>4 DEF Members, n
  <2>6. Ascending(t) BY <1>1, <2>2 DEF Ascending
  <2> QED BY <2>5, <2>6
<1> QED BY <1>1, <1>3, <1>4, <1>5 DEF t, n

(* A node in front of a sequence.                                           *)
LEMMA ConsFacts ==
  ASSUME NEW d \in Data, NEW t \in Seq(Data)
  PROVE  /\ <<d>> \o t \in Seq(Data) /\ Len(<<d>> \o t) = Len(t) + 1
         /\ Members(<<d>> \o t) = {d} \union Members(t)
         /\ Ascending(t) /\ (\A e \in Members(t) : Key[d] <= Key[e]) => Ascending(<<d>> \o t)
<1> DEFINE r == <<d>> \o t
           n == Len(t)
<1>1. n \in Nat /\ r \in Seq(Data) /\ Len(r) = n + 1 OBVIOUS
<1>2. r[1] = d /\ \A i \in 1..n : r[i + 1] = t[i] /\ i + 1 \in 1..(n + 1) BY <1>1
<1>3. \A i \in 1..n : t[i] \in Data OBVIOUS
<1> HIDE DEF r, n
<1>4. \A i \in 1..(n + 1) : i = 1 \/ (i - 1 \in 1..n /\ (i - 1) + 1 = i) BY <1>1
<1>5. \A i \in 1..(n + 1) : i = 1 \/ (i - 1 \in 1..n /\ r[i] = t[i - 1]) BY <1>2, <1>4
<1>6. 1 \in 1..(n + 1) BY <1>1
<1>7. Members(r) = {d} \union Members(t)
  <2>1. ASSUME NEW x \in Members(r) PROVE x \in {d} \union Members(t)
    <3>1. PICK i \in 1..(n + 1) : x = r[i] BY <1>1, <2>1 DEF Members
    <3> QED BY <1>2, <1>5, <3>1 DEF Members, n
  <2>2. Members(t) \subseteq Members(r) BY <1>1, <1>2 DEF Members, n
  <2>3. d \in Members(r) BY <1>1, <1>2, <1>6 DEF Members
  <2> QED BY <2>1, <2>2, <2>3
<1>8. ASSUME Ascending(t), \A e \in Members(t) : Key[d] <= Key[e] PROVE Ascending(r)
  <2>1. \A i \in 1..n : Key[d] <= Key[t[i]] BY <1>8 DEF Members, n
  <2>2. \A i, j \in 1..n : i <= j => Key[t[i]] <= Key[t[j]] BY <1>8 DEF Ascending, n
  <2>3. Key[d] \in Nat BY ListConstants
  <2>4. ASSUME NEW i \in 1..(n + 1), NEW j \in 1..(n + 1), i <= j PROVE Key[r[i]] <= Key[r[j]]
    <3>1. CASE j = 1
      <4>1. i = 1 BY <2>4, <3>1
      <4> QED BY <1>2, <2>3, <3>1, <4>1
    <3>2. CASE i = 1 /\ j # 1 BY <1>2, <1>5, <2>1, <3>2
    <3>3. CASE i # 1 /\ j # 1
      <4>1. i - 1 <= j - 1 BY <2>4
      <4> QED BY <1>5, <2>2, <3>3, <4>1
    <3> QED BY <3>1, <3>2, <3>3
  <2> QED BY <1>1, <2>4 DEF Ascending
<1> QED BY <1>1, <1>7, <1>8 DEF r, n

----------------------------------------------------------------------------
(* merge is the function its definition says: each call works on one node   *)
(* less.                                                                    *)
Halves == Seq(Data) \X Seq(Data)
Count(h) == Len(h[1]) + Len(h[2])

MergeStep(f, h) ==
  CASE h[1] = <<>> -> h[2]
    [] h[2] = <<>> -> h[1]
    [] OTHER -> IF Key[Head(h[1])] < Key[Head(h[2])]
                  THEN <<Head(h[1])>> \o f[<<Tail(h[1]), h[2]>>]
                  ELSE <<Head(h[2])>> \o f[<<h[1], Tail(h[2])>>]

(* The two recursive calls.                                                 *)
LEMMA SmallerHalves ==
  ASSUME NEW h \in Halves, h[1] # <<>>, h[2] # <<>>
  PROVE  /\ <<Tail(h[1]), h[2]>> \in Halves /\ Count(<<Tail(h[1]), h[2]>>) < Count(h)
         /\ <<h[1], Tail(h[2])>> \in Halves /\ Count(<<h[1], Tail(h[2])>>) < Count(h)
         /\ Count(<<Tail(h[1]), h[2]>>) = Count(h) - 1 /\ Count(<<h[1], Tail(h[2])>>) = Count(h) - 1
         /\ Head(h[1]) \in Data /\ Head(h[2]) \in Data /\ Count(h) \in Nat
<1>1. h[1] \in Seq(Data) /\ h[2] \in Seq(Data) BY DEF Halves
<1>2. /\ Head(h[1]) \in Data /\ Tail(h[1]) \in Seq(Data) /\ Len(Tail(h[1])) = Len(h[1]) - 1
      /\ Head(h[2]) \in Data /\ Tail(h[2]) \in Seq(Data) /\ Len(Tail(h[2])) = Len(h[2]) - 1
  BY <1>1, TailFacts
<1>4. <<Tail(h[1]), h[2]>> \in Halves /\ <<h[1], Tail(h[2])>> \in Halves BY <1>1, <1>2 DEF Halves
<1> DEFINE a == Len(h[1])
           b == Len(h[2])
<1>5. a \in Nat \ {0} /\ b \in Nat \ {0} BY <1>1, TailFacts
<1>6. Count(<<Tail(h[1]), h[2]>>) = (a - 1) + b BY <1>2 DEF Count
<1>7. Count(<<h[1], Tail(h[2])>>) = a + (b - 1) BY <1>2 DEF Count
<1>8. Count(h) = a + b BY DEF Count
<1> HIDE DEF a, b
<1>9. /\ Count(<<Tail(h[1]), h[2]>>) = Count(h) - 1 /\ Count(<<h[1], Tail(h[2])>>) = Count(h) - 1
      /\ Count(h) \in Nat \ {0}
  BY <1>5, <1>6, <1>7, <1>8
<1>10. Count(<<Tail(h[1]), h[2]>>) < Count(h) /\ Count(<<h[1], Tail(h[2])>>) < Count(h) BY <1>9
<1> QED BY <1>2, <1>4, <1>9, <1>10

(* So merge is the function its definition says.                            *)
LEMMA MergeDefined == \A h \in Halves : merge[h] = MergeStep(merge, h)
<1> DEFINE V == Seq(Data)
           m == [h \in Halves |-> Count(h)]
           stp == [z \in [Halves -> V] \X Halves |-> MergeStep(z[1], z[2])]
           Def(f) == [h \in Halves |-> MergeStep(f, h)]
<1>1. <<>> \in V /\ m \in [Halves -> Nat]
  <2>1. ASSUME NEW h \in Halves PROVE Count(h) \in Nat
    <3> DEFINE a == Len(h[1])
               b == Len(h[2])
    <3>1. a \in Nat /\ b \in Nat BY DEF Halves
    <3>2. Count(h) = a + b BY DEF Count
    <3> HIDE DEF a, b
    <3> QED BY <3>1, <3>2
  <2> QED BY <2>1
<1>2. \A h \in Halves : m[h] = Count(h) OBVIOUS
<1>3. ASSUME NEW f \in [Halves -> V], NEW h \in Halves PROVE MergeStep(f, h) \in V
  <2>1. h[1] \in V /\ h[2] \in V BY DEF Halves
  <2>2. CASE h[1] = <<>> \/ h[2] = <<>> BY <2>1, <2>2 DEF MergeStep
  <2>3. CASE h[1] # <<>> /\ h[2] # <<>>
    <3>1. /\ f[<<Tail(h[1]), h[2]>>] \in V /\ f[<<h[1], Tail(h[2])>>] \in V
          /\ Head(h[1]) \in Data /\ Head(h[2]) \in Data
      BY <2>3, SmallerHalves
    <3>2. <<Head(h[1])>> \o f[<<Tail(h[1]), h[2]>>] \in V /\ <<Head(h[2])>> \o f[<<h[1], Tail(h[2])>>] \in V
      BY <3>1, ConsFacts
    <3> QED BY <2>3, <3>2 DEF MergeStep
  <2> QED BY <2>2, <2>3
<1>4. \A f \in [Halves -> V], h \in Halves : stp[<<f, h>>] = MergeStep(f, h) OBVIOUS
<1>5. stp \in [[Halves -> V] \X Halves -> V] BY <1>3
<1> HIDE DEF stp, m
<1>6. Local(Halves, V, m, stp)
  <2>1. ASSUME NEW f \in [Halves -> V], NEW g \in [Halves -> V], NEW h \in Halves,
               \A y \in Halves : m[y] < m[h] => f[y] = g[y]
        PROVE  stp[<<f, h>>] = stp[<<g, h>>]
    <3>1. CASE h[1] = <<>> \/ h[2] = <<>> BY <1>4, <3>1 DEF MergeStep
    <3>2. CASE h[1] # <<>> /\ h[2] # <<>>
      <4>1. /\ f[<<Tail(h[1]), h[2]>>] = g[<<Tail(h[1]), h[2]>>]
            /\ f[<<h[1], Tail(h[2])>>] = g[<<h[1], Tail(h[2])>>]
        BY <1>2, <2>1, <3>2, SmallerHalves
      <4>2. MergeStep(f, h) = MergeStep(g, h) BY <4>1 DEF MergeStep
      <4> QED BY <1>4, <4>2
    <3> QED BY <3>1, <3>2
  <2> HIDE DEF V
  <2> QED BY <2>1 DEF Local
<1>7. PICK F \in [Halves -> V] : \A h \in Halves : F[h] = stp[<<F, h>>]
  <2> HIDE DEF V
  <2>1. WellDefined(Halves, V, <<>>, m, stp) BY <1>1, <1>5, <1>6 DEF WellDefined
  <2> QED BY <2>1, Recursion
<1>8. F = Def(F) BY <1>4, <1>7
<1>9. \E f : f = Def(f) BY <1>8
<1>10. merge = CHOOSE f : f = Def(f) BY DEF merge, MergeStep, Halves
<1>11. merge = Def(merge) BY <1>9, <1>10
<1> HIDE DEF merge
<1> QED BY <1>11

(* What merge gives: all the nodes of both halves, in order if they were.   *)
Merged(h) ==
  /\ merge[h] \in Seq(Data) /\ Len(merge[h]) = Count(h)
  /\ Members(merge[h]) = Members(h[1]) \union Members(h[2])
  /\ Ascending(h[1]) /\ Ascending(h[2]) => Ascending(merge[h])

(* One call of merge, if the call it makes is right.                        *)
LEMMA MergeOnce ==
  ASSUME NEW h \in Halves, \A g \in Halves : Count(g) < Count(h) => Merged(g)
  PROVE  Merged(h)
<1> DEFINE a == h[1]
           b == h[2]
<1>1. a \in Seq(Data) /\ b \in Seq(Data) /\ Len(a) \in Nat /\ Len(b) \in Nat BY DEF Halves
<1>2. merge[h] = MergeStep(merge, h) /\ Count(h) = Len(a) + Len(b) BY MergeDefined DEF Count
<1>3. CASE a = <<>>
  <2>1. merge[h] = b BY <1>2, <1>3 DEF MergeStep
  <2>2. Len(a) = 0 /\ Members(a) = {} BY <1>3 DEF Members
  <2>3. Count(h) = Len(b) BY <1>1, <1>2, <2>2
  <2> QED BY <1>1, <2>1, <2>2, <2>3 DEF Merged
<1>4. CASE a # <<>> /\ b = <<>>
  <2>1. merge[h] = a BY <1>2, <1>4 DEF MergeStep
  <2>2. Len(b) = 0 /\ Members(b) = {} BY <1>4 DEF Members
  <2>3. Count(h) = Len(a) BY <1>1, <1>2, <2>2
  <2> QED BY <1>1, <2>1, <2>2, <2>3 DEF Merged
<1>5. CASE a # <<>> /\ b # <<>>
  <2>1. /\ Head(a) \in Data /\ Tail(a) \in Seq(Data) /\ Members(a) = {Head(a)} \union Members(Tail(a))
        /\ Ascending(a) => Ascending(Tail(a)) /\ \A e \in Members(a) : Key[Head(a)] <= Key[e]
    BY <1>1, <1>5, TailFacts
  <2>2. /\ Head(b) \in Data /\ Tail(b) \in Seq(Data) /\ Members(b) = {Head(b)} \union Members(Tail(b))
        /\ Ascending(b) => Ascending(Tail(b)) /\ \A e \in Members(b) : Key[Head(b)] <= Key[e]
    BY <1>1, <1>5, TailFacts
  <2>3. /\ <<Tail(a), b>> \in Halves /\ Count(<<Tail(a), b>>) < Count(h)
        /\ <<a, Tail(b)>> \in Halves /\ Count(<<a, Tail(b)>>) < Count(h)
        /\ Count(<<Tail(a), b>>) = Count(h) - 1 /\ Count(<<a, Tail(b)>>) = Count(h) - 1
        /\ Count(h) \in Nat
    BY <1>5, SmallerHalves
  <2>4. Merged(<<Tail(a), b>>) /\ Merged(<<a, Tail(b)>>) BY <2>3
  <2>5. Key[Head(a)] \in Nat /\ Key[Head(b)] \in Nat BY <2>1, <2>2, ListConstants
  <2>6. \A e \in Members(a) \union Members(b) : Key[e] \in Nat BY <1>1, ListConstants DEF Members
  <2>7. CASE Key[Head(a)] < Key[Head(b)]
    <3> DEFINE t == merge[<<Tail(a), b>>]
    <3>1. merge[h] = <<Head(a)>> \o t BY <1>2, <1>5, <2>7 DEF MergeStep
    <3>2. /\ t \in Seq(Data) /\ Len(t) = Count(h) - 1 /\ Members(t) = Members(Tail(a)) \union Members(b)
          /\ Ascending(Tail(a)) /\ Ascending(b) => Ascending(t)
      BY <2>3, <2>4 DEF Merged
    <3> HIDE DEF t
    <3>3. /\ <<Head(a)>> \o t \in Seq(Data) /\ Len(<<Head(a)>> \o t) = Len(t) + 1
          /\ Members(<<Head(a)>> \o t) = {Head(a)} \union Members(t)
          /\ Ascending(t) /\ (\A e \in Members(t) : Key[Head(a)] <= Key[e]) => Ascending(<<Head(a)>> \o t)
      BY <2>1, <3>2, ConsFacts
    <3>4. Len(t) + 1 = Count(h) BY <2>3, <3>2
    <3>5. ASSUME Ascending(a), Ascending(b) PROVE \A e \in Members(t) : Key[Head(a)] <= Key[e]
      <4> TAKE e \in Members(t)
      <4>1. CASE e \in Members(Tail(a)) BY <2>1, <3>5, <4>1
      <4>2. CASE e \in Members(b) BY <2>2, <2>5, <2>6, <2>7, <3>5, <4>2
      <4> QED BY <3>2, <4>1, <4>2
    <3>6. Members(merge[h]) = Members(a) \union Members(b) BY <2>1, <3>1, <3>2, <3>3
    <3>7. Ascending(a) /\ Ascending(b) => Ascending(merge[h]) BY <2>1, <3>1, <3>2, <3>3, <3>5
    <3> QED BY <3>1, <3>3, <3>4, <3>6, <3>7 DEF Merged
  <2>8. CASE ~(Key[Head(a)] < Key[Head(b)])
    <3> DEFINE t == merge[<<a, Tail(b)>>]
    <3>1. merge[h] = <<Head(b)>> \o t BY <1>2, <1>5, <2>8 DEF MergeStep
    <3>2. /\ t \in Seq(Data) /\ Len(t) = Count(h) - 1 /\ Members(t) = Members(a) \union Members(Tail(b))
          /\ Ascending(a) /\ Ascending(Tail(b)) => Ascending(t)
      BY <2>3, <2>4 DEF Merged
    <3> HIDE DEF t
    <3>3. /\ <<Head(b)>> \o t \in Seq(Data) /\ Len(<<Head(b)>> \o t) = Len(t) + 1
          /\ Members(<<Head(b)>> \o t) = {Head(b)} \union Members(t)
          /\ Ascending(t) /\ (\A e \in Members(t) : Key[Head(b)] <= Key[e]) => Ascending(<<Head(b)>> \o t)
      BY <2>2, <3>2, ConsFacts
    <3>4. Len(t) + 1 = Count(h) BY <2>3, <3>2
    <3>5. ASSUME Ascending(a), Ascending(b) PROVE \A e \in Members(t) : Key[Head(b)] <= Key[e]
      <4> TAKE e \in Members(t)
      <4>1. CASE e \in Members(Tail(b)) BY <2>2, <3>5, <4>1
      <4>2. CASE e \in Members(a) BY <2>1, <2>5, <2>6, <2>8, <3>5, <4>2
      <4> QED BY <3>2, <4>1, <4>2
    <3>6. Members(merge[h]) = Members(a) \union Members(b) BY <2>2, <3>1, <3>2, <3>3
    <3>7. Ascending(a) /\ Ascending(b) => Ascending(merge[h]) BY <2>2, <3>1, <3>2, <3>3, <3>5
    <3> QED BY <3>1, <3>3, <3>4, <3>6, <3>7 DEF Merged
  <2> QED BY <2>7, <2>8
<1> QED BY <1>3, <1>4, <1>5

(* Every call of merge is right: of the wrong ones, none is the smallest.   *)
LEMMA MergeFacts == \A h \in Halves : Merged(h)
<1> SUFFICES ASSUME ~ \A h \in Halves : Merged(h) PROVE FALSE OBVIOUS
<1>0. ASSUME NEW h \in Halves PROVE Count(h) \in Nat
  <2> DEFINE a == Len(h[1])
             b == Len(h[2])
  <2>1. a \in Nat /\ b \in Nat /\ Count(h) = a + b BY DEF Halves, Count
  <2> HIDE DEF a, b
  <2> QED BY <2>1
<1> DEFINE Bad == {Count(h) : h \in {g \in Halves : ~Merged(g)}}
<1>1. Bad \subseteq Nat /\ Bad # {} BY <1>0
<1>2. PICK n \in Bad : \A j \in Bad : n <= j BY <1>1, LeastNumber
<1>3. PICK h \in Halves : Count(h) = n /\ ~Merged(h) BY <1>2
<1>4. ASSUME NEW g \in Halves, Count(g) < Count(h) PROVE Merged(g)
  <2>1. ~(n <= Count(g)) BY <1>0, <1>3, <1>4
  <2> QED BY <1>2, <2>1
<1> QED BY <1>3, <1>4, MergeOnce

----------------------------------------------------------------------------
(* split cuts a list of two nodes or more into two shorter ones.            *)
LEMMA SplitFacts ==
  ASSUME NEW s \in Seq(Data), ~(Len(s) <= 1)
  PROVE  /\ FirstHalf(s) \in Seq(Data) /\ Len(FirstHalf(s)) < Len(s)
         /\ SecondHalf(s) \in Seq(Data) /\ Len(SecondHalf(s)) < Len(s)
         /\ Len(FirstHalf(s)) + Len(SecondHalf(s)) = Len(s)
         /\ Members(FirstHalf(s)) \union Members(SecondHalf(s)) = Members(s)
<1> DEFINE n == Len(s)
           k == (n + 1) \div 2
           a == FirstHalf(s)
           b == SecondHalf(s)
<1>1. n \in Nat /\ n > 1 OBVIOUS
<1>2. k \in Nat /\ 1 <= k /\ k < n
  <2> HIDE DEF n
  <2> QED BY <1>1
<1>3. a = SubSeq(s, 1, k) /\ b = SubSeq(s, k + 1, n) BY DEF FirstHalf, SecondHalf
<1> HIDE DEF k, a, b
<1>4. a \in Seq(Data) /\ Len(a) = k /\ \A i \in 1..k : a[i] = s[i] /\ i \in 1..n BY <1>1, <1>2, <1>3
<1>5. b \in Seq(Data) /\ Len(b) = n - k /\ \A i \in 1..(n - k) : b[i] = s[k + i] /\ k + i \in 1..n
  <2>1. \A i \in (k + 1)..n : s[i] \in Data BY <1>1, <1>2
  <2>2. b = [i \in 1..(n - (k + 1) + 1) |-> s[i + (k + 1) - 1]] BY <1>1, <1>2, <1>3
  <2>3. n - (k + 1) + 1 = n - k /\ n - k \in Nat BY <1>1, <1>2
  <2>4. \A i \in 1..(n - k) : i + (k + 1) - 1 = k + i /\ k + i \in 1..n BY <1>1, <1>2
  <2>5. b = [i \in 1..(n - k) |-> s[k + i]] BY <2>2, <2>3, <2>4
  <2>6. \A i \in 1..(n - k) : s[k + i] \in Data BY <2>4
  <2>7. b \in [1..(n - k) -> Data] BY <2>5, <2>6
  <2>8. b \in Seq(Data) /\ Len(b) = n - k
    <3> DEFINE l == n - k
    <3>1. l \in Nat /\ b \in [1..l -> Data] BY <2>3, <2>7
    <3> HIDE DEF l
    <3>2. b \in Seq(Data) /\ Len(b) = l BY <3>1
    <3> QED BY <3>2 DEF l
  <2>9. \A i \in 1..(n - k) : b[i] = s[k + i] BY <2>5
  <2> QED BY <2>4, <2>8, <2>9
<1> HIDE DEF n
<1>6. ASSUME NEW x \in Members(s) PROVE x \in Members(a) \union Members(b)
  <2>1. PICK i \in 1..n : x = s[i] BY <1>6 DEF Members, n
  <2>2. CASE i <= k
    <3>1. i \in 1..k BY <1>1, <1>2, <2>2
    <3> QED BY <1>4, <2>1, <3>1 DEF Members
  <2>3. CASE ~(i <= k)
    <3>1. i - k \in 1..(n - k) /\ k + (i - k) = i BY <1>1, <1>2, <2>3
    <3>2. b[i - k] = s[i] BY <1>5, <3>1
    <3> QED BY <1>5, <2>1, <3>1, <3>2 DEF Members
  <2> QED BY <2>2, <2>3
<1>7. Members(a) \subseteq Members(s) BY <1>4 DEF Members, n
<1>8. Members(b) \subseteq Members(s) BY <1>5 DEF Members, n
<1>9. Members(a) \union Members(b) = Members(s) BY <1>6, <1>7, <1>8
<1>10. Len(a) < n /\ Len(b) < n /\ Len(a) + Len(b) = n BY <1>1, <1>2, <1>4, <1>5
<1> QED BY <1>4, <1>5, <1>9, <1>10 DEF a, b, n

(* merge_sort is the function its definition says: it is called for shorter *)
(* lists.                                                                   *)
SortStep(f, s) ==
  IF Len(s) <= 1 THEN s ELSE merge[<<f[FirstHalf(s)], f[SecondHalf(s)]>>]

(* So it is defined for every list.                                         *)
LEMMA SortDefined == \A s \in Seq(Data) : merge_sort[s] = SortStep(merge_sort, s)
<1> DEFINE V == Seq(Data)
           m == [s \in V |-> Len(s)]
           stp == [z \in [V -> V] \X V |-> SortStep(z[1], z[2])]
           Def(f) == [s \in V |-> SortStep(f, s)]
<1>1. <<>> \in V /\ m \in [V -> Nat] OBVIOUS
<1>2. \A s \in V : m[s] = Len(s) OBVIOUS
<1>3. ASSUME NEW f \in [V -> V], NEW s \in V PROVE SortStep(f, s) \in V
  <2>1. CASE Len(s) <= 1 BY <2>1 DEF SortStep
  <2>2. CASE ~(Len(s) <= 1)
    <3>1. f[FirstHalf(s)] \in V /\ f[SecondHalf(s)] \in V BY <2>2, SplitFacts
    <3>2. <<f[FirstHalf(s)], f[SecondHalf(s)]>> \in Halves BY <3>1 DEF Halves
    <3>3. merge[<<f[FirstHalf(s)], f[SecondHalf(s)]>>] \in V BY <3>2, MergeFacts DEF Merged
    <3> QED BY <2>2, <3>3 DEF SortStep
  <2> QED BY <2>1, <2>2
<1>4. \A f \in [V -> V], s \in V : stp[<<f, s>>] = SortStep(f, s) OBVIOUS
<1>5. stp \in [[V -> V] \X V -> V] BY <1>3
<1> HIDE DEF stp, m
<1>6. Local(V, V, m, stp)
  <2>1. ASSUME NEW f \in [V -> V], NEW g \in [V -> V], NEW s \in V,
               \A y \in V : m[y] < m[s] => f[y] = g[y]
        PROVE  stp[<<f, s>>] = stp[<<g, s>>]
    <3>1. CASE Len(s) <= 1
      <4>1. SortStep(f, s) = SortStep(g, s) BY <3>1 DEF SortStep
      <4> QED BY <1>4, <4>1
    <3>2. CASE ~(Len(s) <= 1)
      <4>1. f[FirstHalf(s)] = g[FirstHalf(s)] /\ f[SecondHalf(s)] = g[SecondHalf(s)]
        BY <1>2, <2>1, <3>2, SplitFacts
      <4>2. SortStep(f, s) = SortStep(g, s) BY <4>1 DEF SortStep
      <4> QED BY <1>4, <4>2
    <3> QED BY <3>1, <3>2
  <2> HIDE DEF V
  <2> QED BY <2>1 DEF Local
<1>7. PICK F \in [V -> V] : \A s \in V : F[s] = stp[<<F, s>>]
  <2> HIDE DEF V
  <2>1. WellDefined(V, V, <<>>, m, stp) BY <1>1, <1>5, <1>6 DEF WellDefined
  <2> QED BY <2>1, Recursion
<1> HIDE DEF V
<1>8. F = Def(F) BY <1>4, <1>7
<1>9. \E f : f = Def(f) BY <1>8
<1>10. merge_sort = CHOOSE f : f = Def(f) BY DEF merge_sort, SortStep, V
<1>11. merge_sort = Def(merge_sort) BY <1>9, <1>10
<1> HIDE DEF merge_sort
<1>12. \A s \in V : merge_sort[s] = SortStep(merge_sort, s) BY <1>11
<1> QED BY <1>12 DEF V

(* What merge_sort gives: the same nodes in ascending order.                *)
Arranged(s, r) ==
  r \in Seq(Data) /\ Len(r) = Len(s) /\ Members(r) = Members(s) /\ Ascending(r)

(* list_sort sorts, every list.                                             *)
THEOREM SortFacts == \A s \in Seq(Data) : Arranged(s, merge_sort[s])
<1> SUFFICES ASSUME ~ \A s \in Seq(Data) : Arranged(s, merge_sort[s]) PROVE FALSE OBVIOUS
<1> DEFINE Bad == {Len(s) : s \in {r \in Seq(Data) : ~Arranged(r, merge_sort[r])}}
<1>0. \A s \in Seq(Data) : Len(s) \in Nat OBVIOUS
<1>1. Bad \subseteq Nat /\ Bad # {} BY <1>0
<1>2. PICK n \in Bad : \A j \in Bad : n <= j BY <1>1, LeastNumber
<1>3. PICK s \in Seq(Data) : Len(s) = n /\ ~Arranged(s, merge_sort[s]) BY <1>2
<1>4. ASSUME NEW r \in Seq(Data), Len(r) < Len(s) PROVE Arranged(r, merge_sort[r])
  <2>1. Len(r) \in Nat /\ Len(s) \in Nat OBVIOUS
  <2>2. ~(n <= Len(r)) BY <1>3, <1>4, <2>1
  <2> QED BY <1>2, <2>2
<1>5. merge_sort[s] = SortStep(merge_sort, s) BY SortDefined
<1>6. CASE Len(s) <= 1
  <2>1. merge_sort[s] = s BY <1>5, <1>6 DEF SortStep
  <2>2. \A i, j \in 1..Len(s) : i = 1 /\ j = 1 BY <1>6
  <2>3. \A i \in 1..Len(s) : Key[s[i]] \in Nat BY ListConstants
  <2>4. Ascending(s) BY <2>2, <2>3 DEF Ascending
  <2> QED BY <1>3, <2>1, <2>4 DEF Arranged
<1>7. CASE ~(Len(s) <= 1)
  <2> DEFINE a == merge_sort[FirstHalf(s)]
             b == merge_sort[SecondHalf(s)]
             r == merge[<<a, b>>]
  <2>1. merge_sort[s] = r BY <1>5, <1>7 DEF SortStep
  <2>2. /\ FirstHalf(s) \in Seq(Data) /\ Len(FirstHalf(s)) < Len(s)
        /\ SecondHalf(s) \in Seq(Data) /\ Len(SecondHalf(s)) < Len(s)
        /\ Len(FirstHalf(s)) + Len(SecondHalf(s)) = Len(s)
        /\ Members(FirstHalf(s)) \union Members(SecondHalf(s)) = Members(s)
    BY <1>7, SplitFacts
  <2>3. Arranged(FirstHalf(s), a) /\ Arranged(SecondHalf(s), b) BY <1>4, <2>2
  <2> HIDE DEF a, b
  <2>4. <<a, b>> \in Halves /\ Count(<<a, b>>) = Len(a) + Len(b) BY <2>3 DEF Arranged, Halves, Count
  <2>5. /\ r \in Seq(Data) /\ Len(r) = Count(<<a, b>>) /\ Members(r) = Members(a) \union Members(b)
        /\ Ascending(a) /\ Ascending(b) => Ascending(r)
    BY <2>4, MergeFacts DEF Merged
  <2> HIDE DEF r
  <2>6. Len(r) = Len(s) BY <2>2, <2>3, <2>4, <2>5 DEF Arranged
  <2>7. Members(r) = Members(s) /\ Ascending(r) BY <2>2, <2>3, <2>5 DEF Arranged
  <2>8. Arranged(s, r) BY <2>5, <2>6, <2>7 DEF Arranged
  <2> QED BY <1>3, <2>1, <2>8
<1> QED BY <1>6, <1>7

(* An arrangement of different nodes has different nodes.                   *)
LEMMA ArrangedDistinct ==
  ASSUME NEW s \in Seq(Data), Distinct(s), NEW r, Arranged(s, r)
  PROVE  Distinct(r)
<1> DEFINE n == Len(r)
           f == [i \in 1..n |-> r[i]]
<1>1. r \in Seq(Data) /\ n \in Nat /\ f \in [1..n -> Members(r)] BY DEF Members, Arranged
<1>2. f \in Surjection(1..n, Members(r)) BY <1>1 DEF Surjection, Members
<1>3. IsFiniteSet(1..n) /\ Cardinality(1..n) = n
  <2>0. n \in Nat BY <1>1
  <2> HIDE DEF n, f
  <2>1. IsFiniteSet(1..n) /\ Cardinality(1..n) = IF 1 > n THEN 0 ELSE n - 1 + 1 BY <2>0, FS_Interval
  <2> QED BY <2>0, <2>1
<1>4. Cardinality(Members(r)) = n BY CountMembers DEF Arranged
<1>5. f \in Injection(1..n, Members(r)) BY <1>2, <1>3, <1>4, FS_SurjSameCardinalityImpliesInj
<1> QED BY <1>5 DEF Injection, IsInjective, Distinct

----------------------------------------------------------------------------
(* The list in a state of the invariant.                                    *)
LEMMA ListFacts ==
  ASSUME ListInv
  PROVE  /\ Walk \in Seq(Data) /\ size = Len(Walk) /\ size \in Nat /\ Distinct(Walk)
         /\ \A i \in Nat : NodeAt[i] = IF i < size THEN Walk[i + 1] ELSE NULL
         /\ \A i \in 1..size : Walk[i] \in Data /\ Walk[i] # NULL /\ frees[Walk[i]] = 0
         /\ head = IF size = 0 THEN NULL ELSE Walk[1]
         /\ \A d : InList(d) <=> d \in Members(Walk)
         /\ NULL \notin Data
<1>1. Walk \in Seq(Data) /\ Distinct(Walk) BY DEF ListInv, Linked
<1>2. size \in Nat BY ListConstants DEF ListInv, TypeOK
<1>3. DOMAIN Walk = 1..size /\ Len(Walk) = size
  <2>1. DOMAIN Walk = 1..size BY DEF Walk
  <2>2. DOMAIN Walk = 1..Len(Walk) /\ Len(Walk) \in Nat BY <1>1
  <2> QED BY <1>2, <2>1, <2>2
<1>4. \A i \in Nat : NodeAt[i] = IF i < size THEN Walk[i + 1] ELSE NULL BY <1>3, WalkNow DEF ListInv
<1>5. \A i \in 1..size : Walk[i] \in Data /\ Walk[i] \in Members(Walk) BY <1>1, <1>3 DEF Members
<1>6. \A i \in 1..size : Walk[i] # NULL /\ frees[Walk[i]] = 0 BY <1>5, ListConstants DEF ListInv, Unfreed
<1>7. head = IF size = 0 THEN NULL ELSE Walk[1] BY <1>3 DEF ListInv, Linked
<1>8. \A d : InList(d) <=> d \in Members(Walk) BY <1>3 DEF InList, Members
<1> QED BY <1>1, <1>2, <1>3, <1>4, <1>5, <1>6, <1>7, <1>8, ListConstants

(* The pointers after a step.                                               *)
Pointing ==
  next' \in [Data -> Pointers] /\ prev' \in [Data -> Pointers] /\ tail' \in Pointers

(* A step inserts a datum; tail stays, or becomes, the last node.           *)
Inserts ==
  \E d \in Data, i \in 0..size :
    /\ d \notin Members(Walk) /\ frees[d] = 0
    /\ Linked(next', prev', head', Inserted(Walk, i, d)) /\ Pointing
    /\ size' = size + 1 /\ size' \in 0..MaxSize /\ frees' = frees /\ popped' = NULL
    /\ TailValid => tail' = Inserted(Walk, i, d)[size + 1]
    /\ tail' = d \/ (tail' = tail /\ size # 0)

(* A step takes a node out and gives its datum to custom_free c times; it   *)
(* is freed and returned, or freed twice, only by position.                 *)
ByPosition == \E p \in 1..(size - 2) : PopPosition(p) \/ RemovePosition(p)

(* tail stays, or goes back one node together with the last one.            *)
TailMoves(k) ==
  \/ tail' = tail /\ size # 1
  \/ k = size /\ tail' = IF size = 1 THEN NULL ELSE Walk[size - 1]

Removes ==
  \E k \in 1..size, c \in 0..2 :
    /\ Linked(next', prev', head', Without(Walk, k)) /\ Pointing
    /\ Members(Without(Walk, k)) = Members(Walk) \ {Walk[k]}
    /\ size' = size - 1 /\ frees' = [frees EXCEPT ![Walk[k]] = @ + c]
    /\ popped' \in {NULL, Walk[k]}
    /\ TailValid => tail' = IF size = 1 THEN NULL ELSE Without(Walk, k)[size - 1]
    /\ TailMoves(k) /\ (tail' = tail /\ tail = Walk[k] => c # 0)
    /\ c = 0 \/ (c = 1 /\ popped' = NULL) \/ ByPosition

(* list_push_head                                                           *)
LEMMA PushHeadView ==
  ASSUME ListInv, NEW d \in Data, Pushable(d), list_push_head(d), popped' = NULL, UNCHANGED frees
  PROVE  Inserts
<1> DEFINE s == Walk
<1>1. /\ s \in Seq(Data) /\ size = Len(s) /\ size \in Nat /\ NULL \notin Data
      /\ \A i \in 1..size : s[i] \in Data /\ s[i] # NULL
      /\ head = IF size = 0 THEN NULL ELSE s[1]
      /\ d \notin Members(s) /\ frees[d] = 0 /\ size < MaxSize /\ MaxSize \in Nat
  BY ListFacts, ListConstants DEF Pushable
<1>2. /\ next \in [Data -> Pointers] /\ prev \in [Data -> Pointers] /\ tail \in Pointers
      /\ Linked(next, prev, head, s) /\ (TailValid => tail = IF size = 0 THEN NULL ELSE s[size])
  BY DEF ListInv, TypeOK, TailValid
<1>3. \A j \in 1..size : s[j] # d BY <1>1 DEF Members
<1>4. \A i, j \in 1..size : s[i] = s[j] => i = j BY <1>1, <1>2 DEF Linked, Distinct
<1>5. /\ head' = d /\ size' = size + 1
      /\ IF head = NULL
           THEN tail' = d /\ next' = [next EXCEPT ![d] = NULL] /\ prev' = [prev EXCEPT ![d] = NULL]
           ELSE /\ next' = [next EXCEPT ![d] = head]
                /\ prev' = [prev EXCEPT ![d] = NULL, ![head] = d] /\ tail' = tail
  BY DEF list_push_head, Set
<1> HIDE DEF s
<1>6. head = NULL <=> size = 0
  <2>1. size # 0 => 1 \in 1..size BY <1>1
  <2> QED BY <1>1, <2>1
<1>7. head \in Pointers BY <1>1, <1>6 DEF Pointers
<1>8. Pointing BY <1>2, <1>5, <1>7 DEF Pointing, Pointers
<1>9. Linked(next', prev', head', Inserted(s, 0, d))
  <2>1. 0 \in 0..Len(s) BY <1>1
  <2>2. next'[d] = IF 0 = Len(s) THEN NULL ELSE s[0 + 1] BY <1>1, <1>2, <1>5, <1>6
  <2>3. prev'[d] = NULL
    <3>1. CASE head = NULL BY <1>2, <1>5, <3>1
    <3>2. CASE head # NULL
      <4>1. head # d
        <5>1. 1 \in 1..size BY <1>1, <1>6, <3>2
        <5> QED BY <1>1, <1>3, <3>2, <1>6, <5>1
      <4> QED BY <1>2, <1>5, <3>2, <4>1
    <3> QED BY <3>1, <3>2
  <2>4. \A j \in 1..Len(s) : next'[s[j]] = IF j = 0 THEN d ELSE next[s[j]] BY <1>1, <1>2, <1>3, <1>5
  <2>5. ASSUME NEW j \in 1..Len(s) PROVE prev'[s[j]] = IF j = 0 + 1 THEN d ELSE prev[s[j]]
    <3>1. size # 0 /\ 1 \in 1..size /\ j \in 1..size BY <1>1
    <3>2. head = s[1] /\ head # NULL /\ s[j] \in Data /\ s[j] # d BY <1>1, <1>3, <3>1
    <3>3. prev' = [prev EXCEPT ![d] = NULL, ![s[1]] = d] BY <1>5, <3>2
    <3>4. CASE j = 1 BY <1>2, <3>2, <3>3, <3>4
    <3>5. CASE j # 1
      <4>1. s[j] # s[1] BY <1>4, <3>1, <3>5
      <4> QED BY <1>2, <3>2, <3>3, <3>5, <4>1
    <3> QED BY <3>4, <3>5
  <2>6. head' = d BY <1>5
  <2>7. LinksNew(next, prev, head, s, 0, d, next', prev', head')
    BY <2>2, <2>3, <2>4, <2>5, <2>6 DEF LinksNew
  <2> QED BY <1>1, <1>2, <2>1, <2>7, InsertLinks
<1>10. ASSUME TailValid PROVE tail' = Inserted(s, 0, d)[size + 1]
  <2>0. 0 \in 0..Len(s) BY <1>1
  <2>1. Inserted(s, 0, d)[size + 1] = IF size = 0 THEN d ELSE s[size] BY <1>1, <2>0, InsertedLast
  <2> QED BY <1>2, <1>5, <1>6, <1>10, <2>1
<1>11. 0 \in 0..size /\ size' \in 0..MaxSize BY <1>1, <1>5
<1>12. tail' = d \/ (tail' = tail /\ size # 0) BY <1>5, <1>6
<1> QED BY <1>1, <1>5, <1>8, <1>9, <1>10, <1>11, <1>12 DEF Inserts, s

(* Its pointers.                                                            *)
LEMMA LinkFacts ==
  ASSUME ListInv
  PROVE  /\ next \in [Data -> Pointers] /\ prev \in [Data -> Pointers] /\ tail \in Pointers
         /\ \A i \in 1..size : next[Walk[i]] = IF i = size THEN NULL ELSE Walk[i + 1]
         /\ \A i \in 1..size : prev[Walk[i]] = IF i = 1 THEN NULL ELSE Walk[i - 1]
         /\ \A i, j \in 1..size : Walk[i] = Walk[j] => i = j
         /\ TailValid => tail = IF size = 0 THEN NULL ELSE Walk[size]
         /\ Linked(next, prev, head, Walk)
<1>1. size = Len(Walk) BY ListFacts
<1> QED BY <1>1 DEF ListInv, TypeOK, Linked, Distinct, TailValid

(* A tail behind which no node is dropped is the last one.                  *)
LEMMA TailIsLast ==
  ASSUME ListInv, TailLive, next[tail] = NULL
  PROVE  TailValid
<1>1. tail # NULL /\ ~(frees[tail] > 0) BY DEF TailLive
<1>2. tail \in Members(Walk) BY <1>1 DEF ListInv, Knows
<1>3. size = Len(Walk) /\ size \in Nat BY ListFacts
<1>4. PICK i \in 1..size : tail = Walk[i] BY <1>2, <1>3 DEF Members
<1>5. next[Walk[i]] = IF i = size THEN NULL ELSE Walk[i + 1] BY LinkFacts
<1>6. i = size
  <2>1. i # size => i + 1 \in 1..size BY <1>3
  <2>2. i # size => Walk[i + 1] # NULL BY <2>1, ListFacts
  <2> QED BY <1>4, <1>5, <2>2
<1>7. size # 0 BY <1>3
<1> QED BY <1>4, <1>6, <1>7 DEF TailValid

(* An operation that leaves status ok has dropped nothing.                  *)
LEMMA NothingCut ==
  ASSUME ListInv, status' = "ok", NEW n, CutBehind(n)
  PROVE  next[n] = NULL
BY DEF CutBehind

(* list_push_tail, when it drops nothing                                     *)
LEMMA PushTailView ==
  ASSUME ListInv, status' = "ok", NEW d \in Data, Pushable(d), list_push_tail(d),
         popped' = NULL, UNCHANGED frees
  PROVE  Inserts
<1> DEFINE s == Walk
<1>0. TailValid
  <2>1. CASE head = NULL
    <3>1. size = 0 BY <2>1, ListFacts
    <3>2. tail = NULL BY <3>1, ListFacts DEF ListInv, Knows
    <3> QED BY <3>1, <3>2 DEF TailValid
  <2>2. CASE head # NULL
    <3>1. TailLive /\ next[tail] = NULL BY <2>2, NothingCut DEF list_push_tail
    <3> QED BY <3>1, TailIsLast
  <2> QED BY <2>1, <2>2
<1>1. /\ s \in Seq(Data) /\ size = Len(s) /\ size \in Nat /\ NULL \notin Data
      /\ \A i \in 1..size : s[i] \in Data /\ s[i] # NULL
      /\ head = IF size = 0 THEN NULL ELSE s[1]
      /\ d \notin Members(s) /\ frees[d] = 0 /\ size < MaxSize /\ MaxSize \in Nat
  BY ListFacts, ListConstants DEF Pushable
<1>2. /\ next \in [Data -> Pointers] /\ prev \in [Data -> Pointers]
      /\ Linked(next, prev, head, s) /\ tail = IF size = 0 THEN NULL ELSE s[size]
  BY <1>0 DEF ListInv, TypeOK, TailValid
<1>3. \A j \in 1..size : s[j] # d BY <1>1 DEF Members
<1>4. \A i, j \in 1..size : s[i] = s[j] => i = j BY <1>1, <1>2 DEF Linked, Distinct
<1>5. /\ tail' = d /\ size' = size + 1
      /\ IF head = NULL
           THEN head' = d /\ next' = [next EXCEPT ![d] = NULL] /\ prev' = [prev EXCEPT ![d] = NULL]
           ELSE /\ prev' = [prev EXCEPT ![d] = tail]
                /\ next' = [next EXCEPT ![d] = NULL, ![tail] = d] /\ head' = head
  BY DEF list_push_tail, Set
<1> HIDE DEF s
<1>6. head = NULL <=> size = 0
  <2>1. size # 0 => 1 \in 1..size BY <1>1
  <2> QED BY <1>1, <2>1
<1>7. size # 0 => size \in 1..size BY <1>1
<1>8. tail \in Pointers /\ (size # 0 => tail = s[size] /\ tail \in Data /\ tail # d)
  BY <1>1, <1>2, <1>3, <1>7 DEF Pointers
<1>9. Pointing BY <1>2, <1>5, <1>8 DEF Pointing, Pointers
<1>10. Linked(next', prev', head', Inserted(s, size, d))
  <2>1. size \in 0..Len(s) BY <1>1
  <2>2. next'[d] = IF size = Len(s) THEN NULL ELSE s[size + 1]
    <3>1. CASE size = 0 BY <1>1, <1>2, <1>5, <1>6, <3>1
    <3>2. CASE size # 0 BY <1>1, <1>2, <1>5, <1>6, <1>8, <3>2
    <3> QED BY <3>1, <3>2
  <2>3. prev'[d] = IF size = 0 THEN NULL ELSE s[size] BY <1>2, <1>5, <1>6
  <2>4. ASSUME NEW j \in 1..Len(s) PROVE next'[s[j]] = IF j = size THEN d ELSE next[s[j]]
    <3>1. size # 0 /\ j \in 1..size BY <1>1
    <3>2. s[j] \in Data /\ s[j] # d BY <1>1, <1>3, <3>1
    <3>3. next' = [next EXCEPT ![d] = NULL, ![s[size]] = d] BY <1>5, <1>6, <1>8, <3>1
    <3>4. CASE j = size BY <1>2, <3>2, <3>3, <3>4
    <3>5. CASE j # size
      <4>1. s[j] # s[size] BY <1>4, <1>7, <3>1, <3>5
      <4> QED BY <1>2, <3>2, <3>3, <3>5, <4>1
    <3> QED BY <3>4, <3>5
  <2>5. ASSUME NEW j \in 1..Len(s) PROVE prev'[s[j]] = IF j = size + 1 THEN d ELSE prev[s[j]]
    <3>1. j # size + 1 /\ j \in 1..size BY <1>1
    <3>2. s[j] # d /\ s[j] \in Data BY <1>1, <1>3, <3>1
    <3>3. prev'[s[j]] = prev[s[j]] BY <1>2, <1>5, <3>2
    <3> QED BY <3>1, <3>3
  <2>6. head' = IF size = 0 THEN d ELSE head BY <1>5, <1>6
  <2>7. LinksNew(next, prev, head, s, size, d, next', prev', head')
    BY <2>2, <2>3, <2>4, <2>5, <2>6 DEF LinksNew
  <2> QED BY <1>1, <1>2, <2>1, <2>7, InsertLinks
<1>11. tail' = Inserted(s, size, d)[size + 1]
  <2>0. size \in 0..Len(s) BY <1>1
  <2>1. Inserted(s, size, d)[size + 1] = d BY <1>1, <2>0, InsertedLast
  <2> QED BY <1>5, <2>1
<1>12. size \in 0..size /\ size' \in 0..MaxSize BY <1>1, <1>5
<1> QED BY <1>1, <1>5, <1>9, <1>10, <1>11, <1>12 DEF Inserts, s

(* list_push_position between two nodes                                     *)
LEMMA InsertAfterView ==
  ASSUME ListInv, NEW d \in Data, Pushable(d), NEW position \in 1..(size - 1),
         InsertAfter(d, NodeAt[position - 1]), popped' = NULL, UNCHANGED frees
  PROVE  Inserts
<1> DEFINE s == Walk
           i == position
<1>1. /\ s \in Seq(Data) /\ size = Len(s) /\ size \in Nat /\ NULL \notin Data
      /\ \A j \in 1..size : s[j] \in Data /\ s[j] # NULL
      /\ d \notin Members(s) /\ frees[d] = 0 /\ size < MaxSize /\ MaxSize \in Nat
  BY ListFacts, ListConstants DEF Pushable
<1>2. /\ next \in [Data -> Pointers] /\ prev \in [Data -> Pointers] /\ tail \in Pointers
      /\ \A j \in 1..size : next[s[j]] = IF j = size THEN NULL ELSE s[j + 1]
      /\ \A j, k \in 1..size : s[j] = s[k] => j = k
      /\ TailValid => tail = IF size = 0 THEN NULL ELSE s[size]
      /\ Linked(next, prev, head, s)
  BY LinkFacts
<1>3. \A j \in 1..size : s[j] # d BY <1>1 DEF Members
<1>4. i \in 1..size /\ i + 1 \in 1..size /\ i # size /\ i # 0 /\ i \in 0..size /\ i + 1 # i BY <1>1
<1>5. NodeAt[i - 1] = s[i]
  <2>1. i - 1 \in Nat /\ i - 1 < size /\ (i - 1) + 1 = i BY <1>1, <1>4
  <2> QED BY <2>1, ListFacts
<1>6. next[s[i]] = s[i + 1] BY <1>2, <1>4
<1>7. /\ size' = size + 1 /\ next' = [next EXCEPT ![d] = s[i + 1], ![s[i]] = d]
      /\ prev' = [p \in Data |-> CASE p = d        -> s[i]
                                   [] p = s[i + 1] -> d
                                   [] OTHER        -> prev[p]]
      /\ head' = head /\ tail' = tail
  BY <1>5, <1>6 DEF InsertAfter
<1> HIDE DEF s, i
<1>8. s[i] \in Data /\ s[i + 1] \in Data /\ s[i] # d /\ s[i + 1] # d BY <1>1, <1>3, <1>4
<1>9. Pointing
  <2>1. next' \in [Data -> Pointers] BY <1>2, <1>7, <1>8 DEF Pointers
  <2>2. prev' \in [Data -> Pointers] BY <1>2, <1>7, <1>8 DEF Pointers
  <2> QED BY <1>2, <1>7, <2>1, <2>2 DEF Pointing
<1>10. LinksNew(next, prev, head, s, i, d, next', prev', head')
  <2>1. next'[d] = s[i + 1] /\ i # Len(s) BY <1>1, <1>2, <1>4, <1>7, <1>8
  <2>2. prev'[d] = s[i] BY <1>7, <1>8
  <2>3. ASSUME NEW j \in 1..Len(s) PROVE next'[s[j]] = IF j = i THEN d ELSE next[s[j]]
    <3>1. j \in 1..size /\ s[j] \in Data /\ s[j] # d BY <1>1, <1>3
    <3>2. s[j] = s[i] <=> j = i BY <1>2, <1>4, <3>1
    <3> QED BY <1>2, <1>7, <1>8, <3>1, <3>2
  <2>4. ASSUME NEW j \in 1..Len(s) PROVE prev'[s[j]] = IF j = i + 1 THEN d ELSE prev[s[j]]
    <3>1. j \in 1..size /\ s[j] \in Data /\ s[j] # d BY <1>1, <1>3
    <3>2. s[j] = s[i + 1] <=> j = i + 1 BY <1>2, <1>4, <3>1
    <3> QED BY <1>7, <1>8, <3>1, <3>2
  <2> QED BY <1>4, <1>7, <2>1, <2>2, <2>3, <2>4 DEF LinksNew
<1>11. i \in 0..Len(s) BY <1>1, <1>4
<1>12. Linked(next', prev', head', Inserted(s, i, d)) BY <1>1, <1>2, <1>10, <1>11, InsertLinks
<1>13. TailValid => tail' = Inserted(s, i, d)[size + 1]
  <2>1. Inserted(s, i, d)[size + 1] = s[size] BY <1>1, <1>4, <1>11, InsertedLast
  <2>2. size # 0 BY <1>4
  <2> QED BY <1>2, <1>7, <2>1, <2>2
<1>14. size' \in 0..MaxSize /\ size # 0 BY <1>1, <1>4, <1>7
<1> QED BY <1>1, <1>4, <1>7, <1>9, <1>12, <1>13, <1>14 DEF Inserts, s

----------------------------------------------------------------------------
(* The last node of what is left.                                           *)
LEMMA WithoutLast ==
  ASSUME NEW s \in Seq(Data), NEW k \in 1..Len(s), Len(s) # 1
  PROVE  Without(s, k)[Len(s) - 1] = IF k = Len(s) THEN s[Len(s) - 1] ELSE s[Len(s)]
<1> DEFINE n == Len(s)
<1>1. n \in Nat /\ k \in 1..n /\ n # 1 OBVIOUS
<1>2. \A i \in 1..(n - 1) : Without(s, k)[i] = IF i < k THEN s[i] ELSE s[i + 1] BY WithoutFacts
<1> HIDE DEF n
<1>3. n - 1 \in 1..(n - 1) /\ (n - 1 < k <=> k = n) /\ (n - 1) + 1 = n BY <1>1
<1>4. Without(s, k)[n - 1] = IF k = n THEN s[n - 1] ELSE s[n] BY <1>2, <1>3
<1> QED BY <1>4 DEF n

(* What the calls that unlink the k-th node have in common.                 *)
Unlinks(k) ==
  /\ LinksClosed(next, prev, head, Walk, k, next', prev', head') /\ Pointing
  /\ size' = size - 1 /\ TailMoves(k)
  /\ TailValid => tail' = IF size = 1 THEN NULL
                          ELSE IF k = size THEN Walk[size - 1] ELSE Walk[size]

(* list_pop_head                                                            *)
LEMMA PopHeadView ==
  ASSUME ListInv, status' = "ok", list_pop_head
  PROVE  1 \in 1..size /\ head = Walk[1] /\ Unlinks(1) /\ (tail' = tail => tail # Walk[1])
<1> DEFINE s == Walk
<1>1. /\ size = Len(s) /\ size \in Nat /\ NULL \notin Data
      /\ \A j \in 1..size : s[j] \in Data /\ s[j] # NULL
      /\ head = IF size = 0 THEN NULL ELSE s[1]
  BY ListFacts
<1>2. /\ next \in [Data -> Pointers] /\ prev \in [Data -> Pointers] /\ tail \in Pointers
      /\ \A j \in 1..size : next[s[j]] = IF j = size THEN NULL ELSE s[j + 1]
      /\ \A j \in 1..size : prev[s[j]] = IF j = 1 THEN NULL ELSE s[j - 1]
      /\ \A j, k \in 1..size : s[j] = s[k] => j = k
      /\ TailValid => tail = IF size = 0 THEN NULL ELSE s[size]
  BY LinkFacts
<1>3. /\ head # NULL /\ size' = size - 1 /\ next' = next
      /\ IF head = tail
           THEN head' = NULL /\ tail' = NULL /\ prev' = prev /\ next[head] = NULL
           ELSE /\ head' = next[head] /\ prev' = [prev EXCEPT ![next[head]] = NULL] /\ tail' = tail
                /\ next[head] # NULL
  BY NothingCut DEF list_pop_head, Set
<1> HIDE DEF s
<1>4. size # 0 /\ 1 \in 1..size /\ size \in 1..size BY <1>1, <1>3
<1>5. head = s[1] BY <1>1, <1>3, <1>4
<1>6. head = tail <=> size = 1
  <2>1. next[head] = IF 1 = size THEN NULL ELSE s[1 + 1] BY <1>2, <1>4, <1>5
  <2>2. size # 1 => 1 + 1 \in 1..size BY <1>1, <1>4
  <2>3. size # 1 => s[1 + 1] # NULL BY <1>1, <2>2
  <2> QED BY <1>3, <2>1, <2>3
<1>7. CASE size = 1
  <2>1. head' = NULL /\ tail' = NULL /\ prev' = prev BY <1>3, <1>6, <1>7
  <2>2. next[s[1]] = NULL BY <1>2, <1>4, <1>7
  <2>3. \A j \in 1..Len(s) : j = 1 BY <1>1, <1>7
  <2>4. LinksClosed(next, prev, head, s, 1, next', prev', head') BY <2>1, <2>2, <2>3 DEF LinksClosed
  <2>5. Pointing BY <1>2, <1>3, <2>1 DEF Pointing, Pointers
  <2>6. TailMoves(1) BY <1>7, <2>1 DEF TailMoves
  <2>7. tail = s[1] /\ s[1] # NULL BY <1>1, <1>4, <1>5, <1>6, <1>7
  <2> QED BY <1>3, <1>4, <1>5, <1>7, <2>1, <2>4, <2>5, <2>6, <2>7 DEF Unlinks, s
<1>8. CASE size # 1
  <2>0. 2 \in 1..size /\ 1 + 1 = 2 BY <1>1, <1>4, <1>8
  <2>1. next[head] = s[2] BY <1>2, <1>4, <1>5, <1>8, <2>0
  <2>2. head' = s[2] /\ prev' = [prev EXCEPT ![s[2]] = NULL] /\ tail' = tail BY <1>3, <1>6, <1>8, <2>1
  <2>3. s[2] \in Data BY <1>1, <2>0
  <2>4. prev[s[1]] = NULL BY <1>2, <1>4
  <2>5. ASSUME NEW j \in 1..Len(s), j # 1
        PROVE  prev'[s[j]] = IF j = 1 + 1 THEN prev[s[1]] ELSE prev[s[j]]
    <3>1. j \in 1..size /\ s[j] \in Data BY <1>1
    <3>2. s[j] = s[2] <=> j = 2 BY <1>2, <2>0, <3>1
    <3> QED BY <1>2, <2>0, <2>2, <2>3, <2>4, <3>1, <3>2
  <2>6. \A j \in 1..Len(s) : j # 1 => j # 1 - 1 BY <1>1
  <2>7. LinksClosed(next, prev, head, s, 1, next', prev', head')
    BY <1>3, <1>5, <2>1, <2>2, <2>5, <2>6 DEF LinksClosed
  <2>8. Pointing BY <1>2, <1>3, <2>2, <2>3 DEF Pointing, Pointers
  <2>9. TailMoves(1) BY <1>8, <2>2 DEF TailMoves
  <2>10. 1 # size /\ (TailValid => tail = s[size]) /\ tail # s[1] BY <1>2, <1>4, <1>5, <1>6, <1>8
  <2> QED BY <1>3, <1>4, <1>5, <1>8, <2>2, <2>7, <2>8, <2>9, <2>10 DEF Unlinks, s
<1> QED BY <1>7, <1>8

(* list_pop_tail                                                            *)
LEMMA PopTailView ==
  ASSUME ListInv, status' = "ok", list_pop_tail
  PROVE  size \in 1..size /\ tail = Walk[size] /\ Unlinks(size) /\ tail' # tail
<1> DEFINE s == Walk
<1>1. /\ size = Len(s) /\ size \in Nat /\ NULL \notin Data
      /\ \A j \in 1..size : s[j] \in Data /\ s[j] # NULL
      /\ head = IF size = 0 THEN NULL ELSE s[1]
  BY ListFacts
<1>2. /\ next \in [Data -> Pointers] /\ prev \in [Data -> Pointers] /\ tail \in Pointers
      /\ \A j \in 1..size : next[s[j]] = IF j = size THEN NULL ELSE s[j + 1]
      /\ \A j \in 1..size : prev[s[j]] = IF j = 1 THEN NULL ELSE s[j - 1]
      /\ \A j, k \in 1..size : s[j] = s[k] => j = k
      /\ TailValid => tail = IF size = 0 THEN NULL ELSE s[size]
  BY LinkFacts
<1>3. /\ tail # NULL /\ TailValid /\ size' = size - 1 /\ prev' = prev
      /\ IF head = tail
           THEN head' = NULL /\ tail' = NULL /\ next' = next
           ELSE tail' = prev[tail] /\ next' = [next EXCEPT ![prev[tail]] = NULL] /\ head' = head
  <2>1. TailLive /\ next[tail] = NULL BY NothingCut DEF list_pop_tail
  <2>2. TailValid BY <2>1, TailIsLast
  <2> QED BY <2>1, <2>2 DEF list_pop_tail, Set, TailLive
<1> HIDE DEF s
<1>4. size # 0 BY <1>2, <1>3
<1>5. 1 \in 1..size /\ size \in 1..size BY <1>1, <1>4
<1>6. head = s[1] /\ tail = s[size] BY <1>1, <1>2, <1>3, <1>4
<1>7. head = tail <=> size = 1 BY <1>2, <1>5, <1>6
<1>8. next[s[size]] = NULL BY <1>2, <1>5
<1>9. CASE size = 1
  <2>1. head' = NULL /\ tail' = NULL /\ next' = next BY <1>3, <1>7, <1>9
  <2>2. \A j \in 1..Len(s) : j = size BY <1>1, <1>9
  <2>3. LinksClosed(next, prev, head, s, size, next', prev', head') BY <1>8, <1>9, <2>1, <2>2 DEF LinksClosed
  <2>4. Pointing BY <1>2, <1>3, <2>1 DEF Pointing, Pointers
  <2>5. TailMoves(size) BY <1>9, <2>1 DEF TailMoves
  <2> QED BY <1>3, <1>5, <1>6, <1>9, <2>1, <2>3, <2>4, <2>5 DEF Unlinks, s
<1>10. CASE size # 1
  <2>0. size - 1 \in 1..size BY <1>1, <1>5, <1>10
  <2>1. prev[tail] = s[size - 1] BY <1>2, <1>5, <1>6, <1>10
  <2>2. tail' = s[size - 1] /\ next' = [next EXCEPT ![s[size - 1]] = NULL] /\ head' = head
    BY <1>3, <1>7, <1>10, <2>1
  <2>3. s[size - 1] \in Data BY <1>1, <2>0
  <2>4. ASSUME NEW j \in 1..Len(s), j # size
        PROVE  next'[s[j]] = IF j = size - 1 THEN next[s[size]] ELSE next[s[j]]
    <3>1. j \in 1..size /\ s[j] \in Data BY <1>1
    <3>2. s[j] = s[size - 1] <=> j = size - 1 BY <1>2, <2>0, <3>1
    <3> QED BY <1>2, <1>8, <2>2, <2>3, <3>1, <3>2
  <2>5. \A j \in 1..Len(s) : j # size + 1 BY <1>1
  <2>6. LinksClosed(next, prev, head, s, size, next', prev', head')
    BY <1>3, <1>10, <2>2, <2>4, <2>5 DEF LinksClosed
  <2>7. Pointing BY <1>2, <1>3, <2>2, <2>3 DEF Pointing, Pointers
  <2>8. TailMoves(size) BY <1>10, <2>2 DEF TailMoves, s
  <2>9. size - 1 # size BY <1>1
  <2>10. tail' # tail BY <1>2, <1>5, <1>6, <2>0, <2>2, <2>9
  <2> QED BY <1>3, <1>5, <1>6, <1>10, <2>2, <2>6, <2>7, <2>8, <2>10 DEF Unlinks, s
<1> QED BY <1>9, <1>10

(* Where every pointer to the k-th node is made to point past it, the links *)
(* around it are closed.                                                    *)
Bypassed(k) ==
  /\ next' = [n \in Data |-> IF n = prev[Walk[k]] THEN next[Walk[k]] ELSE next[n]]
  /\ prev' = [n \in Data |-> IF n = next[Walk[k]] THEN prev[Walk[k]] ELSE prev[n]]
  /\ head' = IF prev[Walk[k]] = NULL THEN next[Walk[k]] ELSE head

(* That closes them, in both directions and at both ends.                   *)
LEMMA BypassedLinks ==
  ASSUME ListInv, NEW k \in 1..size, Bypassed(k)
  PROVE  /\ LinksClosed(next, prev, head, Walk, k, next', prev', head')
         /\ next' \in [Data -> Pointers] /\ prev' \in [Data -> Pointers]
         /\ next[Walk[k]] = NULL <=> k = size
<1> DEFINE s == Walk
           nxt == next[Walk[k]]
           prv == prev[Walk[k]]
<1>1. /\ size = Len(s) /\ size \in Nat /\ NULL \notin Data
      /\ \A j \in 1..size : s[j] \in Data /\ s[j] # NULL
  BY ListFacts
<1>2. /\ next \in [Data -> Pointers] /\ prev \in [Data -> Pointers]
      /\ nxt = IF k = size THEN NULL ELSE s[k + 1]
      /\ prv = IF k = 1 THEN NULL ELSE s[k - 1]
      /\ \A i, j \in 1..size : s[i] = s[j] => i = j
  BY LinkFacts
<1>3. /\ next' = [n \in Data |-> IF n = prv THEN nxt ELSE next[n]]
      /\ prev' = [n \in Data |-> IF n = nxt THEN prv ELSE prev[n]]
      /\ head' = IF prv = NULL THEN nxt ELSE head
  BY DEF Bypassed
<1>4. nxt = next[s[k]] /\ prv = prev[s[k]] OBVIOUS
<1> HIDE DEF s, nxt, prv
<1>5. k \in Nat /\ (k # size => k + 1 \in 1..size) /\ (k # 1 => k - 1 \in 1..size) BY <1>1
<1>6. (nxt = NULL <=> k = size) /\ (prv = NULL <=> k = 1) BY <1>1, <1>2, <1>5
<1>7. nxt \in Pointers /\ prv \in Pointers BY <1>1, <1>2, <1>5 DEF Pointers
<1>8. next' \in [Data -> Pointers] /\ prev' \in [Data -> Pointers] BY <1>2, <1>3, <1>7
<1>9. ASSUME NEW j \in 1..Len(s), j # k
      PROVE  next'[s[j]] = IF j = k - 1 THEN next[s[k]] ELSE next[s[j]]
  <2>1. j \in 1..size /\ s[j] \in Data /\ s[j] # NULL BY <1>1
  <2>2. s[j] = prv <=> j = k - 1
    <3>1. CASE k = 1 BY <1>2, <2>1, <3>1
    <3>2. CASE k # 1 BY <1>2, <1>5, <2>1, <3>2
    <3> QED BY <3>1, <3>2
  <2> QED BY <1>3, <1>4, <2>1, <2>2
<1>10. ASSUME NEW j \in 1..Len(s), j # k
       PROVE  prev'[s[j]] = IF j = k + 1 THEN prev[s[k]] ELSE prev[s[j]]
  <2>1. j \in 1..size /\ s[j] \in Data /\ s[j] # NULL BY <1>1
  <2>2. s[j] = nxt <=> j = k + 1
    <3>1. CASE k = size BY <1>1, <1>2, <2>1, <3>1
    <3>2. CASE k # size BY <1>2, <1>5, <2>1, <3>2
    <3> QED BY <3>1, <3>2
  <2> QED BY <1>3, <1>4, <2>1, <2>2
<1>11. head' = IF k = 1 THEN next[s[k]] ELSE head BY <1>3, <1>4, <1>6
<1>12. LinksClosed(next, prev, head, s, k, next', prev', head') BY <1>9, <1>10, <1>11 DEF LinksClosed
<1> QED BY <1>6, <1>8, <1>12 DEF s, nxt

(* remove_node                                                              *)
LEMMA RemoveNodeView ==
  ASSUME ListInv, NEW k \in 1..size, remove_node(Walk[k])
  PROVE  Unlinks(k)
<1>1. Bypassed(k) BY DEF remove_node, Bypassed
<1>2. /\ LinksClosed(next, prev, head, Walk, k, next', prev', head')
      /\ next' \in [Data -> Pointers] /\ prev' \in [Data -> Pointers]
      /\ next[Walk[k]] = NULL <=> k = size
  BY <1>1, BypassedLinks
<1>3. size' = size - 1 /\ tail' = IF next[Walk[k]] = NULL THEN prev[Walk[k]] ELSE tail
  BY DEF remove_node
<1>4. /\ tail \in Pointers /\ prev \in [Data -> Pointers]
      /\ TailValid => tail = IF size = 0 THEN NULL ELSE Walk[size]
      /\ prev[Walk[k]] = IF k = 1 THEN NULL ELSE Walk[k - 1]
  BY LinkFacts
<1>5. Walk[k] \in Data /\ size \in Nat BY ListFacts
<1>6. tail' \in Pointers BY <1>3, <1>4, <1>5
<1>7. Pointing BY <1>2, <1>6 DEF Pointing
<1>8. size # 0 BY <1>5
<1>9. ASSUME TailValid
      PROVE  tail' = IF size = 1 THEN NULL ELSE IF k = size THEN Walk[size - 1] ELSE Walk[size]
  <2>1. CASE k = size BY <1>2, <1>3, <1>4, <2>1
  <2>2. CASE k # size
    <3>1. size # 1 BY <1>5, <2>2
    <3> QED BY <1>2, <1>3, <1>4, <1>8, <1>9, <2>2, <3>1
  <2> QED BY <2>1, <2>2
<1>10. TailMoves(k)
  <2>1. CASE k = size
    <3>1. tail' = prev[Walk[k]] BY <1>2, <1>3, <2>1
    <3> QED BY <1>4, <2>1, <3>1 DEF TailMoves
  <2>2. CASE k # size
    <3>1. size # 1 BY <1>5, <2>2
    <3> QED BY <1>2, <1>3, <2>2, <3>1 DEF TailMoves
  <2> QED BY <2>1, <2>2
<1> QED BY <1>2, <1>3, <1>7, <1>9, <1>10 DEF Unlinks

(* list_pop_position between two nodes                                      *)
LEMMA BypassView ==
  ASSUME ListInv, NEW position \in 1..(size - 2), Bypass(NodeAt[position])
  PROVE  /\ position + 1 \in 1..size /\ NodeAt[position] = Walk[position + 1]
         /\ Unlinks(position + 1)
<1> DEFINE k == position + 1
           c == Walk[k]
<1>0. size \in Nat /\ (\A i \in 1..size : Walk[i] \in Data /\ Walk[i] # NULL) /\ NULL \notin Data
  BY ListFacts
<1>1. k \in 1..size /\ k # 1 /\ k # size /\ k - 1 \in 1..size /\ size # 0 /\ size # 1 BY <1>0
<1>2. NodeAt[position] = c
  <2>1. position \in Nat /\ position < size BY <1>0
  <2> QED BY <2>1, ListFacts
<1>3. /\ size' = size - 1 /\ next' = [next EXCEPT ![prev[c]] = next[c]]
      /\ prev' = [p \in Data |-> IF p = next[c] THEN prev[c] ELSE prev[p]]
      /\ head' = head /\ tail' = tail
  BY <1>2 DEF Bypass, Set
<1>4. prev[c] = Walk[k - 1] /\ tail \in Pointers /\ next \in [Data -> Pointers]
  <2>1. \A i \in 1..size : prev[Walk[i]] = IF i = 1 THEN NULL ELSE Walk[i - 1] BY LinkFacts
  <2> HIDE DEF k
  <2>2. prev[Walk[k]] = Walk[k - 1] BY <1>1, <2>1
  <2> QED BY <2>2, LinkFacts
<1>5. TailValid => tail = Walk[size] BY <1>1, LinkFacts
<1> HIDE DEF k
<1>6. prev[c] \in Data /\ prev[c] # NULL BY <1>0, <1>1, <1>4
<1>7. next' = [n \in Data |-> IF n = prev[c] THEN next[c] ELSE next[n]] BY <1>3, <1>4, <1>6
<1>8. Bypassed(k) BY <1>3, <1>6, <1>7 DEF Bypassed
<1>9. /\ LinksClosed(next, prev, head, Walk, k, next', prev', head')
      /\ next' \in [Data -> Pointers] /\ prev' \in [Data -> Pointers]
  BY <1>1, <1>8, BypassedLinks
<1>10. Pointing BY <1>3, <1>4, <1>9 DEF Pointing
<1>11. Unlinks(k)
  <2>1. TailMoves(k) BY <1>1, <1>3 DEF TailMoves
  <2> QED BY <1>1, <1>3, <1>5, <1>9, <1>10, <2>1 DEF Unlinks
<1> QED BY <1>1, <1>2, <1>11 DEF k

(* find_node gives a node of the list, or none.                             *)
LEMMA FindNode ==
  ASSUME ListInv, NEW key, find_node(key) # NULL
  PROVE  \E k \in 1..size : find_node(key) = Walk[k]
<1> DEFINE found == {i \in 1..size : Walk[i] # NULL /\ Key[Walk[i]] = key}
<1>1. size \in Nat BY ListFacts
<1>2. found # {} BY DEF find_node
<1>3. found \subseteq Nat BY <1>1
<1>4. \E i \in found : \A j \in found : i <= j BY <1>2, <1>3, LeastNumber
<1> DEFINE k == CHOOSE i \in found : \A j \in found : i <= j
<1>5. k \in found BY <1>4
<1>6. find_node(key) = Walk[k] BY <1>2 DEF find_node
<1> HIDE DEF k
<1> QED BY <1>5, <1>6

(* What remains once the links are closed.                                  *)
LEMMA Unlinked ==
  ASSUME ListInv, NEW k \in 1..size, NEW c \in 0..2, Unlinks(k),
         frees' = [frees EXCEPT ![Walk[k]] = @ + c], popped' \in {NULL, Walk[k]},
         tail' = tail /\ tail = Walk[k] => c # 0,
         c = 0 \/ (c = 1 /\ popped' = NULL) \/ ByPosition
  PROVE  Removes
<1>1. /\ LinksClosed(next, prev, head, Walk, k, next', prev', head') /\ Pointing
      /\ size' = size - 1 /\ TailMoves(k)
      /\ TailValid => tail' = IF size = 1 THEN NULL
                              ELSE IF k = size THEN Walk[size - 1] ELSE Walk[size]
  BY DEF Unlinks
<1>2. Walk \in Seq(Data) /\ size = Len(Walk) BY ListFacts
<1>3. /\ Linked(next', prev', head', Without(Walk, k))
      /\ Members(Without(Walk, k)) = Members(Walk) \ {Walk[k]}
  BY <1>1, <1>2, RemoveLinks, LinkFacts
<1>4. TailValid => tail' = IF size = 1 THEN NULL ELSE Without(Walk, k)[size - 1]
  <2>1. CASE size = 1 BY <1>1, <2>1
  <2>2. CASE size # 1
    <3>1. Without(Walk, k)[size - 1] = IF k = size THEN Walk[size - 1] ELSE Walk[size]
      BY <1>2, <2>2, WithoutLast
    <3> QED BY <1>1, <2>2, <3>1
  <2> QED BY <2>1, <2>2
<1> QED BY <1>1, <1>3, <1>4 DEF Removes

(* A datum that is not freed is freed no times more.                        *)
LEMMA NotFreed ==
  ASSUME ListInv, NEW d \in Data, UNCHANGED frees
  PROVE  frees' = [frees EXCEPT ![d] = @ + 0]
<1>1. frees \in [Data -> 0..2] BY DEF ListInv, TypeOK
<1>2. frees[d] + 0 = frees[d] BY <1>1
<1> QED BY <1>1, <1>2

(* list_pop_head returns the first datum and frees nothing.                 *)
LEMMA PopHeadRemoves ==
  ASSUME ListInv, status' = "ok", PopHead
  PROVE  Removes
<1>1. list_pop_head /\ popped' = head /\ UNCHANGED frees BY DEF PopHead
<1>2. 1 \in 1..size /\ head = Walk[1] /\ Unlinks(1) /\ (tail' = tail => tail # Walk[1]) BY <1>1, PopHeadView
<1>3. Walk[1] \in Data BY <1>2, ListFacts
<1>4. frees' = [frees EXCEPT ![Walk[1]] = @ + 0] BY <1>1, <1>3, NotFreed
<1>5. 0 \in 0..2 OBVIOUS
<1> QED BY <1>1, <1>2, <1>4, <1>5, Unlinked

(* list_pop_tail returns the last one.                                      *)
LEMMA PopTailRemoves ==
  ASSUME ListInv, status' = "ok", PopTail
  PROVE  Removes
<1>1. list_pop_tail /\ popped' = tail /\ UNCHANGED frees BY DEF PopTail
<1>2. size \in 1..size /\ tail = Walk[size] /\ Unlinks(size) /\ tail' # tail BY <1>1, PopTailView
<1>3. Walk[size] \in Data BY <1>2, ListFacts
<1>4. frees' = [frees EXCEPT ![Walk[size]] = @ + 0] BY <1>1, <1>3, NotFreed
<1>5. 0 \in 0..2 OBVIOUS
<1> QED BY <1>1, <1>2, <1>4, <1>5, Unlinked

(* list_remove_head frees the first datum, once.                            *)
LEMMA RemoveHeadRemoves ==
  ASSUME ListInv, status' = "ok", RemoveHead
  PROVE  Removes
<1>1. list_pop_head /\ frees' = [frees EXCEPT ![head] = @ + 1] /\ popped' = NULL
  BY DEF RemoveHead, Free
<1>2. 1 \in 1..size /\ head = Walk[1] /\ Unlinks(1) /\ (tail' = tail => tail # Walk[1]) BY <1>1, PopHeadView
<1>3. 1 \in 0..2 /\ 1 # 0 OBVIOUS
<1> QED BY <1>1, <1>2, <1>3, Unlinked

(* list_remove_tail frees the last one, once.                               *)
LEMMA RemoveTailRemoves ==
  ASSUME ListInv, status' = "ok", RemoveTail
  PROVE  Removes
<1>1. list_pop_tail /\ frees' = [frees EXCEPT ![tail] = @ + 1] /\ popped' = NULL
  BY DEF RemoveTail, Free
<1>2. size \in 1..size /\ tail = Walk[size] /\ Unlinks(size) /\ tail' # tail BY <1>1, PopTailView
<1>3. 1 \in 0..2 /\ 1 # 0 OBVIOUS
<1> QED BY <1>1, <1>2, <1>3, Unlinked

(* The calls by position do what their counterparts at the ends do, or take *)
(* a node from between two others.                                          *)
LEMMA PopPositionRemoves ==
  ASSUME ListInv, status' = "ok", NEW position \in Nat, PopPosition(position)
  PROVE  Removes
<1>0. size \in Nat BY ListFacts
<1>1. position < size BY DEF PopPosition
<1>2. CASE position = 0
  <2>1. PopHead BY <1>2 DEF PopPosition
  <2> QED BY <2>1, PopHeadRemoves
<1>3. CASE position = size - 1 /\ position > 0
  <2>1. PopTail BY <1>3 DEF PopPosition
  <2> QED BY <2>1, PopTailRemoves
<1>4. CASE ~(position = 0) /\ ~(position = size - 1 /\ position > 0)
  <2>1. position \in 1..(size - 2) BY <1>0, <1>1, <1>4
  <2>2. /\ Bypass(NodeAt[position]) /\ frees' = [frees EXCEPT ![NodeAt[position]] = @ + 1]
        /\ popped' = NodeAt[position]
    BY <1>4 DEF PopPosition, Free
  <2> DEFINE k == position + 1
  <2>3. k \in 1..size /\ NodeAt[position] = Walk[k] /\ Unlinks(k) BY <2>1, <2>2, BypassView
  <2>4. ByPosition BY <2>1 DEF ByPosition
  <2>5. 1 \in 0..2 /\ 1 # 0 OBVIOUS
  <2> HIDE DEF k
  <2> QED BY <2>2, <2>3, <2>4, <2>5, Unlinked
<1> QED BY <1>2, <1>3, <1>4

(* list_remove_position: between two nodes the datum is freed twice.        *)
LEMMA RemovePositionRemoves ==
  ASSUME ListInv, status' = "ok", NEW position \in Nat, RemovePosition(position)
  PROVE  Removes
<1>0. size \in Nat BY ListFacts
<1>1. position < size BY DEF RemovePosition
<1>2. CASE position = 0
  <2>1. RemoveHead BY <1>2 DEF RemovePosition
  <2> QED BY <2>1, RemoveHeadRemoves
<1>3. CASE position = size - 1 /\ position > 0
  <2>1. RemoveTail BY <1>3 DEF RemovePosition
  <2> QED BY <2>1, RemoveTailRemoves
<1>4. CASE ~(position = 0) /\ ~(position = size - 1 /\ position > 0)
  <2>1. position \in 1..(size - 2) BY <1>0, <1>1, <1>4
  <2>2. /\ Bypass(NodeAt[position]) /\ frees' = [frees EXCEPT ![NodeAt[position]] = @ + 2]
        /\ popped' = NULL
    BY <1>4 DEF RemovePosition
  <2> DEFINE k == position + 1
  <2>3. k \in 1..size /\ NodeAt[position] = Walk[k] /\ Unlinks(k) BY <2>1, <2>2, BypassView
  <2>4. ByPosition BY <2>1 DEF ByPosition
  <2>5. 2 \in 0..2 /\ 2 # 0 OBVIOUS
  <2> HIDE DEF k
  <2> QED BY <2>2, <2>3, <2>4, <2>5, Unlinked
<1> QED BY <1>2, <1>3, <1>4

(* list_remove_data takes out the node find_node gives, and frees it once.  *)
LEMMA RemoveDataRemoves ==
  ASSUME ListInv, NEW key, RemoveData(key)
  PROVE  Removes
<1>1. /\ find_node(key) # NULL /\ remove_node(find_node(key)) /\ popped' = NULL
      /\ frees' = [frees EXCEPT ![find_node(key)] = @ + 1]
  BY DEF RemoveData, Free
<1>2. PICK k \in 1..size : find_node(key) = Walk[k] BY <1>1, FindNode
<1>3. Unlinks(k) BY <1>1, <1>2, RemoveNodeView
<1>4. 1 \in 0..2 /\ 1 # 0 OBVIOUS
<1> QED BY <1>1, <1>2, <1>3, <1>4, Unlinked

(* A call by position inserts at either end or between two nodes.           *)
LEMMA PushPositionInserts ==
  ASSUME ListInv, status' = "ok", NEW d \in Data, NEW position \in Nat, PushPosition(d, position)
  PROVE  Inserts
<1>0. size \in Nat BY ListFacts
<1>1. Pushable(d) /\ position <= size /\ popped' = NULL /\ UNCHANGED frees BY DEF PushPosition
<1>2. CASE position = 0
  <2>1. list_push_head(d) BY <1>2 DEF PushPosition
  <2> QED BY <1>1, <2>1, PushHeadView
<1>3. CASE position = size /\ position > 0
  <2>1. list_push_tail(d) BY <1>3 DEF PushPosition
  <2> QED BY <1>1, <2>1, PushTailView
<1>4. CASE ~(position = 0) /\ ~(position = size /\ position > 0)
  <2>1. position \in 1..(size - 1) BY <1>0, <1>1, <1>4
  <2>2. InsertAfter(d, NodeAt[position - 1]) BY <1>4 DEF PushPosition
  <2> QED BY <1>1, <2>1, <2>2, InsertAfterView
<1> QED BY <1>2, <1>3, <1>4

----------------------------------------------------------------------------
(* list_sort: the nodes in the order merge_sort gives them; tail stays.     *)
Sorts ==
  /\ Arranged(Walk, SortedNodes) /\ Linked(next', prev', head', SortedNodes) /\ Pointing
  /\ size' = size /\ tail' = tail /\ frees' = frees /\ popped' = NULL /\ Sort

(* The chain list_sort builds is the one of SortedNodes.                    *)
LEMMA SortView ==
  ASSUME ListInv, Sort
  PROVE  Sorts
<1> DEFINE s == SortedNodes
           n == Len(s)
           At(i) == IF i \in DOMAIN s THEN s[i] ELSE NULL
<1>0. Walk \in Seq(Data) /\ size = Len(Walk) /\ size \in Nat /\ Distinct(Walk) BY ListFacts
<1>1. Arranged(Walk, s)
  <2>1. Chain = Walk BY ListFacts DEF Chain
  <2> QED BY <1>0, <2>1, SortFacts DEF SortedNodes
<1>2. s \in Seq(Data) /\ n = size /\ Distinct(s) BY <1>0, <1>1, ArrangedDistinct DEF Arranged
<1>3. /\ head # NULL /\ head' = At(1)
      /\ next' = [d \in Data |-> IF PositionIn(s, d) = 0 THEN next[d] ELSE At(PositionIn(s, d) + 1)]
      /\ prev' = [d \in Data |-> IF PositionIn(s, d) = 0 THEN prev[d] ELSE At(PositionIn(s, d) - 1)]
      /\ popped' = NULL /\ size' = size /\ tail' = tail /\ frees' = frees
  BY DEF Sort
<1> HIDE DEF s
<1>4. DOMAIN s = 1..n /\ n \in Nat BY <1>2
<1>5. \A i \in 1..n : s[i] \in Data BY <1>2
<1>6. \A i \in 1..n : PositionIn(s, s[i]) = i
  <2> TAKE i \in 1..n
  <2>1. \A j \in DOMAIN s : s[j] = s[i] => j = i BY <1>2, <1>4 DEF Distinct
  <2>2. \E j \in DOMAIN s : s[j] = s[i] BY <1>4
  <2>3. (CHOOSE j \in DOMAIN s : s[j] = s[i]) = i BY <2>1, <2>2
  <2> QED BY <2>2, <2>3 DEF PositionIn
<1>7. /\ next \in [Data -> Pointers] /\ prev \in [Data -> Pointers] /\ tail \in Pointers
      /\ head = IF size = 0 THEN NULL ELSE Walk[1]
  BY ListFacts, LinkFacts
<1>8. \A i : At(i) \in Pointers BY <1>4, <1>5 DEF Pointers
<1>9. \A i : At(i) = IF i \in 1..n THEN s[i] ELSE NULL BY <1>4
<1> HIDE DEF At, n
<1>10. Pointing BY <1>3, <1>7, <1>8 DEF Pointing
<1>11. n # 0 /\ 1 \in 1..n BY <1>2, <1>3, <1>4, <1>7
<1>12. head' = IF n = 0 THEN NULL ELSE s[1] BY <1>3, <1>9, <1>11
<1>13. ASSUME NEW i \in 1..n PROVE next'[s[i]] = IF i = n THEN NULL ELSE s[i + 1]
  <2>1. i # 0 /\ (i + 1 \in 1..n <=> i # n) BY <1>4
  <2>2. next'[s[i]] = At(i + 1) BY <1>3, <1>5, <1>6, <2>1
  <2> QED BY <1>9, <2>1, <2>2
<1>14. ASSUME NEW i \in 1..n PROVE prev'[s[i]] = IF i = 1 THEN NULL ELSE s[i - 1]
  <2>1. i # 0 /\ (i - 1 \in 1..n <=> i # 1) BY <1>4
  <2>2. prev'[s[i]] = At(i - 1) BY <1>3, <1>5, <1>6, <2>1
  <2> QED BY <1>9, <2>1, <2>2
<1>15. Linked(next', prev', head', s) BY <1>2, <1>12, <1>13, <1>14 DEF Linked, n
<1> QED BY <1>1, <1>3, <1>10, <1>15 DEF Sorts, s

(* Every step inserts, takes out, sorts or empties.                         *)
LEMMA StepKinds ==
  ASSUME ListInv, status' = "ok", Next
  PROVE  Inserts \/ Removes \/ Sorts \/ Clear \/ PopNothing
<1>0. Positions \subseteq Nat BY ListConstants DEF Positions
<1>1. ASSUME NEW d \in Data, PushHead(d) PROVE Inserts
  <2>1. Pushable(d) /\ list_push_head(d) /\ popped' = NULL /\ UNCHANGED frees BY <1>1 DEF PushHead
  <2> QED BY <2>1, PushHeadView
<1>2. ASSUME NEW d \in Data, PushTail(d) PROVE Inserts
  <2>1. Pushable(d) /\ list_push_tail(d) /\ popped' = NULL /\ UNCHANGED frees BY <1>2 DEF PushTail
  <2> QED BY <2>1, PushTailView
<1>3. ASSUME NEW d \in Data, NEW position \in Positions, PushPosition(d, position) PROVE Inserts
  BY <1>0, <1>3, PushPositionInserts
<1>4. ASSUME NEW position \in Positions, PopPosition(position) \/ RemovePosition(position) PROVE Removes
  BY <1>0, <1>4, PopPositionRemoves, RemovePositionRemoves
<1>5. ASSUME NEW k \in Keys, RemoveData(k) PROVE Removes BY <1>5, RemoveDataRemoves
<1>6. ASSUME PopHead \/ PopTail \/ RemoveHead \/ RemoveTail PROVE Removes
  BY <1>6, PopHeadRemoves, PopTailRemoves, RemoveHeadRemoves, RemoveTailRemoves
<1>7. ASSUME Sort PROVE Sorts BY <1>7, SortView
<1>8. ~BadPointer BY DEF BadPointer
<1> QED BY <1>1, <1>2, <1>3, <1>4, <1>5, <1>6, <1>7, <1>8 DEF Next, Operation

(* The invariant holds again once the new pointers chain unfreed data.      *)
LEMMA NewChain ==
  ASSUME NEW r, Linked(next', prev', head', r), size' = Len(r), Pointing,
         popped' \in Pointers, frees' \in [Data -> 0..2], \A d \in Members(r) : frees'[d] = 0,
         size' \in 0..MaxSize, status' = "ok", Knows(tail', r, frees')
  PROVE  ListInv' /\ Walk' = r
<1>1. r \in Seq(Data) /\ Distinct(r) /\ head' = IF Len(r) = 0 THEN NULL ELSE r[1] BY DEF Linked
<1>2. Walk' = r BY WalkNext
<1>4. head' \in Pointers BY <1>1 DEF Pointers
<1>5. TypeOK' BY <1>4 DEF TypeOK, Pointing
<1>6. Linked(next, prev, head, Walk)'
  <2>1. Linked(next', prev', head', Walk') BY <1>2
  <2> QED BY <2>1 DEF Linked, Distinct
<1>7. Unfreed'
  <2>1. \A d \in Members(Walk') : frees'[d] = 0 BY <1>2
  <2> QED BY <2>1 DEF Unfreed, Members
<1>8. Knows(tail, Walk, frees)'
  <2>1. Knows(tail', Walk', frees') BY <1>2
  <2> QED BY <2>1 DEF Knows, Members
<1> QED BY <1>2, <1>5, <1>6, <1>7, <1>8 DEF ListInv

(* What the property calls a fault of custom_free.                          *)
Fault ==
  \/ popped' # NULL /\ frees'[popped'] > 0
  \/ \E d \in Data : frees'[d] > frees[d] + 1

(* An insertion keeps the chain, and tail, and frees nothing.               *)
LEMMA InsertsKeep ==
  ASSUME ListInv, status' = "ok", Inserts
  PROVE  /\ ListInv' /\ ~Fault /\ (TailValid => TailValid')
         /\ \E d \in Data, i \in 0..size : d \notin Members(Walk) /\ Walk' = Inserted(Walk, i, d)
<1>1. PICK d \in Data, i \in 0..size :
        /\ d \notin Members(Walk) /\ frees[d] = 0
        /\ Linked(next', prev', head', Inserted(Walk, i, d)) /\ Pointing
        /\ size' = size + 1 /\ size' \in 0..MaxSize /\ frees' = frees /\ popped' = NULL
        /\ TailValid => tail' = Inserted(Walk, i, d)[size + 1]
        /\ tail' = d \/ (tail' = tail /\ size # 0)
  BY DEF Inserts
<1>2. Walk \in Seq(Data) /\ size = Len(Walk) /\ size \in Nat BY ListFacts
<1> DEFINE r == Inserted(Walk, i, d)
<1>3. Len(r) = Len(Walk) + 1 /\ Members(r) = Members(Walk) \union {d} BY <1>2, InsertedFacts
<1>4. frees \in [Data -> 0..2] /\ \A e \in Members(Walk) : frees[e] = 0
  BY DEF ListInv, TypeOK, Unfreed
<1>5. Linked(next', prev', head', r) BY <1>1
<1> HIDE DEF r
<1>6. \A e \in Members(r) : frees'[e] = 0 BY <1>1, <1>3, <1>4
<1>7. popped' \in Pointers BY <1>1 DEF Pointers
<1> DEFINE K == Knows(tail', r, frees')
<1>k. K
  <2>1. Len(r) # 0 BY <1>2, <1>3
  <2>2. CASE tail' = d
    <3>1. d # NULL BY ListConstants
    <3> QED BY <1>3, <2>1, <2>2, <3>1 DEF Knows
  <2>3. CASE tail' = tail /\ size # 0
    <3>1. tail # NULL /\ (tail \in Members(Walk) \/ frees[tail] > 0) BY <1>2, <2>3 DEF ListInv, Knows
    <3> QED BY <1>1, <1>3, <2>1, <2>3, <3>1 DEF Knows
  <2> QED BY <1>1, <2>2, <2>3
<1>8. ListInv' /\ Walk' = r BY <1>1, <1>2, <1>3, <1>4, <1>5, <1>6, <1>7, <1>k, NewChain
<1>9. ~Fault BY <1>1, <1>4 DEF Fault
<1>10. ASSUME TailValid PROVE TailValid'
  <2>1. tail' = r[size'] /\ size' # 0 BY <1>1, <1>2, <1>10 DEF r
  <2>2. tail' = IF size' = 0 THEN NULL ELSE Walk'[size'] BY <1>8, <2>1
  <2> QED BY <2>2 DEF TailValid
<1> QED BY <1>1, <1>8, <1>9, <1>10 DEF r

(* So does a removal, but for the two calls by position.                    *)
LEMMA RemovesKeep ==
  ASSUME ListInv, status' = "ok", Removes
  PROVE  /\ ListInv' /\ (Fault => ByPosition) /\ (TailValid => TailValid')
         /\ \E k \in 1..size : Walk' = Without(Walk, k)
<1>1. PICK k \in 1..size, c \in 0..2 :
        /\ Linked(next', prev', head', Without(Walk, k)) /\ Pointing
        /\ Members(Without(Walk, k)) = Members(Walk) \ {Walk[k]}
        /\ size' = size - 1 /\ frees' = [frees EXCEPT ![Walk[k]] = @ + c]
        /\ popped' \in {NULL, Walk[k]}
        /\ TailValid => tail' = IF size = 1 THEN NULL ELSE Without(Walk, k)[size - 1]
        /\ TailMoves(k) /\ (tail' = tail /\ tail = Walk[k] => c # 0)
        /\ c = 0 \/ (c = 1 /\ popped' = NULL) \/ ByPosition
  BY DEF Removes
<1>2. /\ Walk \in Seq(Data) /\ size = Len(Walk) /\ size \in Nat
      /\ Walk[k] \in Data /\ frees[Walk[k]] = 0
  BY ListFacts
<1> DEFINE r == Without(Walk, k)
           d == Walk[k]
<1>3. Len(r) = Len(Walk) - 1 BY <1>2, WithoutFacts
<1>4. frees \in [Data -> 0..2] /\ \A e \in Members(Walk) : frees[e] = 0
  BY DEF ListInv, TypeOK, Unfreed
<1>5. Members(r) = Members(Walk) \ {d} BY <1>1
<1>6. d \in Data /\ frees[d] = 0 /\ frees' = [frees EXCEPT ![d] = @ + c] /\ popped' \in {NULL, d}
  BY <1>1, <1>2
<1>7. Linked(next', prev', head', r) BY <1>1
<1>8. /\ TailValid => tail' = IF size = 1 THEN NULL ELSE r[size - 1]
      /\ c = 0 \/ (c = 1 /\ popped' = NULL) \/ ByPosition
  BY <1>1
<1> HIDE DEF r, d
<1>9. frees' \in [Data -> 0..2] /\ frees'[d] = c /\ \A e \in Data : e # d => frees'[e] = frees[e]
  <2>1. frees[d] + c \in 0..2 /\ frees[d] + c = c BY <1>6
  <2> QED BY <1>4, <1>6, <2>1
<1>10. Members(Walk) \subseteq Data BY <1>2 DEF Members
<1>11. \A e \in Members(r) : frees'[e] = 0 BY <1>4, <1>5, <1>9, <1>10
<1>12. popped' \in Pointers BY <1>6 DEF Pointers
<1>k. Knows(tail', r, frees')
  <2>0. size # 0 /\ (Len(r) = 0 <=> size = 1) BY <1>2, <1>3
  <2>1. /\ tail # NULL /\ (tail \in Members(Walk) \/ frees[tail] > 0)
        /\ tail \in Data
    <3>1. tail # NULL /\ (tail \in Members(Walk) \/ frees[tail] > 0) BY <1>2, <2>0 DEF ListInv, Knows
    <3>2. tail \in Data BY <3>1, LinkFacts DEF Pointers
    <3> QED BY <3>1, <3>2
  <2>2. CASE tail' = tail /\ size # 1
    <3>1. CASE tail = d
      <4>1. c # 0 /\ frees'[tail] = c BY <1>1, <1>9, <2>2, <3>1 DEF d
      <4>2. frees'[tail'] > 0 BY <2>2, <4>1
      <4> QED BY <2>0, <2>1, <2>2, <4>2 DEF Knows
    <3>2. CASE tail # d
      <4>1. tail \in Members(r) \/ frees'[tail] > 0 BY <1>5, <1>9, <2>1, <3>2
      <4> QED BY <2>0, <2>1, <2>2, <4>1 DEF Knows
    <3> QED BY <3>1, <3>2
  <2>3. CASE k = size /\ tail' = IF size = 1 THEN NULL ELSE Walk[size - 1]
    <3>1. CASE size = 1 BY <2>0, <2>3, <3>1 DEF Knows
    <3>2. CASE size # 1
      <4>1. size - 1 \in 1..size /\ size - 1 # size /\ size \in 1..size BY <1>2, <2>0, <3>2
      <4>2. Walk[size - 1] \in Members(Walk) /\ Walk[size - 1] # NULL BY <1>2, <4>1, ListFacts DEF Members
      <4>3. Walk[size - 1] # d BY <2>3, <4>1, LinkFacts DEF d
      <4> QED BY <1>5, <2>0, <2>3, <3>2, <4>2, <4>3 DEF Knows
    <3> QED BY <3>1, <3>2
  <2> QED BY <1>1, <2>2, <2>3 DEF TailMoves
<1>m. size' \in 0..MaxSize
  <2>1. size \in 0..MaxSize /\ size # 0 BY <1>2 DEF ListInv, TypeOK
  <2> QED BY <1>1, <1>2, <2>1, ListConstants
<1>13. ListInv' /\ Walk' = r BY <1>1, <1>2, <1>3, <1>7, <1>9, <1>11, <1>12, <1>k, <1>m, NewChain
<1>14. ASSUME Fault, ~ByPosition PROVE FALSE
  <2>1. c = 0 \/ (c = 1 /\ popped' = NULL) BY <1>8, <1>14
  <2>2. popped' # NULL => ~(frees'[popped'] > 0)
    <3>1. popped' # NULL => popped' = d /\ c = 0 BY <1>6, <2>1
    <3> QED BY <1>9, <3>1
  <2>3. ASSUME NEW e \in Data PROVE ~(frees'[e] > frees[e] + 1)
    <3>1. CASE e = d BY <1>6, <1>9, <2>1, <3>1
    <3>2. CASE e # d
      <4>1. frees'[e] = frees[e] /\ frees[e] \in 0..2 BY <1>4, <1>9, <3>2
      <4> QED BY <4>1
    <3> QED BY <3>1, <3>2
  <2> QED BY <1>14, <2>2, <2>3 DEF Fault
<1>15. ASSUME TailValid PROVE TailValid'
  <2>1. size' = size - 1 /\ (size = 1 <=> size' = 0) BY <1>1, <1>2
  <2>2. tail' = IF size' = 0 THEN NULL ELSE Walk'[size'] BY <1>8, <1>13, <1>15, <2>1
  <2> QED BY <2>2 DEF TailValid
<1> QED BY <1>13, <1>14, <1>15 DEF r

(* Sorting keeps everything but tail.                                       *)
LEMMA SortsKeep ==
  ASSUME ListInv, status' = "ok", Sorts
  PROVE  ListInv' /\ ~Fault /\ Sort /\ Arranged(Walk, Walk')
<1>1. /\ Arranged(Walk, SortedNodes) /\ Linked(next', prev', head', SortedNodes) /\ Pointing
      /\ size' = size /\ tail' = tail /\ frees' = frees /\ popped' = NULL /\ Sort
  BY DEF Sorts
<1>2. Len(SortedNodes) = size /\ Members(SortedNodes) = Members(Walk)
  BY <1>1, ListFacts DEF Arranged
<1>3. frees \in [Data -> 0..2] /\ \A e \in Members(Walk) : frees[e] = 0
  BY DEF ListInv, TypeOK, Unfreed
<1>4. popped' \in Pointers BY <1>1 DEF Pointers
<1>k. Knows(tail', SortedNodes, frees')
  <2>1. Len(SortedNodes) = Len(Walk) BY <1>2, ListFacts
  <2> QED BY <1>1, <1>2, <2>1 DEF ListInv, Knows
<1>m. size' \in 0..MaxSize BY <1>1 DEF ListInv, TypeOK
<1>5. ListInv' /\ Walk' = SortedNodes BY <1>1, <1>2, <1>3, <1>4, <1>k, <1>m, NewChain
<1>6. ~Fault BY <1>1, <1>3 DEF Fault
<1> QED BY <1>1, <1>5, <1>6

(* list_clear leaves the empty list, and frees each node once.              *)
LEMMA ClearKeeps ==
  ASSUME ListInv, status' = "ok", Clear
  PROVE  ListInv' /\ ~Fault /\ TailValid' /\ Walk' = <<>>
<1>1. /\ frees' = [d \in Data |-> IF InList(d) THEN frees[d] + 1 ELSE frees[d]]
      /\ size' = 0 /\ head' = NULL /\ tail' = NULL
      /\ popped' = NULL /\ next' = next /\ prev' = prev
  BY DEF Clear
<1>2. /\ frees \in [Data -> 0..2] /\ \A e \in Data : InList(e) => frees[e] = 0
  BY ListFacts DEF ListInv, TypeOK, Unfreed
<1>3. Linked(next', prev', head', <<>>) BY <1>1 DEF Linked, Distinct
<1>4. frees' \in [Data -> 0..2]
  <2>1. ASSUME NEW e \in Data PROVE (IF InList(e) THEN frees[e] + 1 ELSE frees[e]) \in 0..2 BY <1>2
  <2> QED BY <1>1, <2>1
<1>5. Pointing BY <1>1, LinkFacts DEF Pointing, Pointers
<1>6. popped' \in Pointers BY <1>1 DEF Pointers
<1>7. Members(<<>>) = {} BY DEF Members
<1>k. Knows(tail', <<>>, frees') BY <1>1 DEF Knows
<1>m. size' \in 0..MaxSize BY <1>1, ListConstants
<1>8. ListInv' /\ Walk' = <<>> BY <1>1, <1>3, <1>4, <1>5, <1>6, <1>7, <1>k, <1>m, NewChain
<1>9. ~Fault
  <2>1. ASSUME NEW e \in Data PROVE ~(frees'[e] > frees[e] + 1)
    <3>1. frees[e] \in 0..2 /\ frees'[e] = IF InList(e) THEN frees[e] + 1 ELSE frees[e] BY <1>1, <1>2
    <3> QED BY <3>1
  <2> QED BY <1>1, <2>1 DEF Fault
<1>10. TailValid' BY <1>1 DEF TailValid
<1> QED BY <1>8, <1>9, <1>10

----------------------------------------------------------------------------
(* A step that leaves the pointers alone: a pop on an empty list, or none.  *)
LEMMA IdleKeeps ==
  ASSUME ListInv, status' = "ok", PopNothing \/ UNCHANGED vars
  PROVE  ListInv' /\ Walk' = Walk /\ (PopNothing => ~Fault) /\ (TailValid => TailValid')
<1>1. /\ size' = size /\ head' = head /\ tail' = tail /\ next' = next /\ prev' = prev
      /\ frees' = frees /\ popped' \in {popped, NULL} /\ (PopNothing => popped' = NULL)
  BY DEF vars, listPointers, PopNothing
<1>2. size' = Len(Walk) BY <1>1, ListFacts
<1>3. Linked(next', prev', head', Walk) BY <1>1, LinkFacts
<1>4. /\ popped \in Pointers /\ frees \in [Data -> 0..2] /\ \A d \in Members(Walk) : frees[d] = 0
      /\ size \in 0..MaxSize /\ Knows(tail, Walk, frees)
  BY DEF ListInv, TypeOK, Unfreed
<1>5. Pointing BY <1>1, LinkFacts DEF Pointing
<1>6. popped' \in Pointers BY <1>1, <1>4 DEF Pointers
<1>7. ListInv' /\ Walk' = Walk BY <1>1, <1>2, <1>3, <1>4, <1>5, <1>6, NewChain
<1>8. PopNothing => ~Fault BY <1>1, <1>4 DEF Fault
<1>9. TailValid => TailValid' BY <1>1, <1>7 DEF TailValid
<1> QED BY <1>7, <1>8, <1>9

(* list_new gives an empty chain.                                           *)
LEMMA ListInit == Init => ListInv /\ Walk = <<>>
<1> SUFFICES ASSUME Init PROVE ListInv /\ Walk = <<>> OBVIOUS
<1>1. Linked(next, prev, head, <<>>) BY DEF Init, Linked, Distinct
<1>2. size = Len(<<>>) BY DEF Init
<1>3. Walk = <<>> BY <1>1, <1>2, WalkNow
<1>5. TypeOK BY ListConstants DEF Init, TypeOK, Pointers
<1>6. Unfreed BY <1>3 DEF Unfreed, Members
<1>7. Knows(tail, Walk, frees) /\ status = "ok" BY <1>3 DEF Init, Knows
<1> QED BY <1>1, <1>3, <1>5, <1>6, <1>7 DEF ListInv

(* Nothing makes a list whole again that was cut.                           *)
LEMMA OnceCut == [Next]_vars /\ status' = "ok" => status = "ok"
<1> SUFFICES ASSUME [Next]_vars, status' = "ok", status # "ok" PROVE FALSE OBVIOUS
<1>1. ~UNCHANGED vars BY DEF vars
<1>2. Operation BY <1>1 DEF Next
<1>3. \A n : ~CutBehind(n) BY DEF CutBehind
<1>4. \A d \in Data : ~list_push_head(d) BY DEF list_push_head
<1>5. \A d \in Data : ~list_push_tail(d) BY <1>3 DEF list_push_tail
<1>6. \A c : \A d \in Data : ~InsertAfter(d, c) BY DEF InsertAfter
<1>7. ~list_pop_head BY <1>3 DEF list_pop_head
<1>8. ~list_pop_tail BY <1>3 DEF list_pop_tail
<1>9. (\A c : ~Bypass(c)) /\ (\A n : ~remove_node(n)) BY DEF Bypass, remove_node
<1>10. ~PopHead /\ ~PopTail /\ ~RemoveHead /\ ~RemoveTail
  BY <1>7, <1>8 DEF PopHead, PopTail, RemoveHead, RemoveTail
<1>11. \A p : ~PopPosition(p) BY <1>9, <1>10 DEF PopPosition
<1>12. \A p : ~RemovePosition(p) BY <1>9, <1>10 DEF RemovePosition
<1>13. \A d \in Data : ~PushHead(d) /\ ~PushTail(d) BY <1>4, <1>5 DEF PushHead, PushTail
<1>14. \A p : \A d \in Data : ~PushPosition(d, p) BY <1>4, <1>5, <1>6 DEF PushPosition
<1>15. \A k : ~RemoveData(k) BY <1>9 DEF RemoveData
<1>16. ~Sort /\ ~Clear /\ ~PopNothing /\ ~BadPointer BY DEF Sort, Clear, PopNothing, BadPointer
<1> QED BY <1>2, <1>10, <1>11, <1>12, <1>13, <1>14, <1>15, <1>16 DEF Operation

(* Every operation keeps the invariant.                                     *)
LEMMA ListNext == WholeInv /\ [Next]_vars => WholeInv'
<1> SUFFICES ASSUME WholeInv, [Next]_vars, status' = "ok" PROVE ListInv' BY DEF WholeInv
<1>1. ListInv BY OnceCut DEF WholeInv
<1> QED BY <1>1, StepKinds, InsertsKeep, RemovesKeep, SortsKeep, ClearKeeps, IdleKeeps

(* The inductive invariant of list_t and its nodes holds in every state in  *)
(* which no operation has dropped nodes or followed a bad pointer.          *)
THEOREM ListInvariant == Spec => []WholeInv
<1>1. Init => WholeInv BY ListInit DEF WholeInv
<1> QED BY <1>1, ListNext, PTL DEF Spec

(* The chain is whole until nodes are dropped, for every set of data.       *)
THEOREM ListChainWhole == Spec => []ChainWhole
<1>1. ASSUME ListInv PROVE ChainWhole
  <2>1. TypeOK BY <1>1 DEF ListInv
  <2>2. /\ size \in Nat /\ (head = NULL <=> size = 0)
        /\ \A i \in 1..size : Walk[i] # NULL /\ frees[Walk[i]] = 0
    <3>1. size \in Nat /\ head = IF size = 0 THEN NULL ELSE Walk[1] BY <1>1, ListFacts
    <3>2. \A i \in 1..size : Walk[i] # NULL /\ frees[Walk[i]] = 0 BY <1>1, ListFacts
    <3>3. size # 0 => 1 \in 1..size BY <3>1
    <3> QED BY <3>1, <3>2, <3>3
  <2>3. NodeAt[size] = NULL
    <3>1. ~(size < size) BY <2>2
    <3> QED BY <1>1, <2>2, <3>1, ListFacts
  <2>4. /\ \A i, j \in 1..size : Walk[i] = Walk[j] => i = j
        /\ \A i \in 1..size : prev[Walk[i]] = IF i = 1 THEN NULL ELSE Walk[i - 1]
    BY <1>1, LinkFacts
  <2>5. (head = NULL) = list_is_empty BY <2>2 DEF list_is_empty
  <2> QED BY <2>1, <2>2, <2>3, <2>4, <2>5 DEF ChainWhole
<1>2. WholeInv => ChainWhole BY <1>1 DEF WholeInv, ChainWhole
<1> QED BY <1>2, ListInvariant, PTL

(* Where tail is the last node, no operation drops nodes or follows a bad   *)
(* pointer.                                                                 *)
LEMMA StaysWhole ==
  ASSUME ListInv, TailValid, Next
  PROVE  status' = "ok"
<1>1. /\ size = Len(Walk) /\ size \in Nat /\ status = "ok"
      /\ \A i \in 1..size : Walk[i] # NULL /\ frees[Walk[i]] = 0
      /\ head = IF size = 0 THEN NULL ELSE Walk[1]
  BY ListFacts DEF ListInv
<1>2. /\ tail = IF size = 0 THEN NULL ELSE Walk[size]
      /\ \A i \in 1..size : next[Walk[i]] = IF i = size THEN NULL ELSE Walk[i + 1]
      /\ \A i, j \in 1..size : Walk[i] = Walk[j] => i = j
  BY LinkFacts DEF TailValid
<1>3. size # 0 => size \in 1..size /\ 1 \in 1..size BY <1>1
<1>4. head # NULL => size # 0 BY <1>1
<1>5. size # 0 => tail = Walk[size] /\ TailLive /\ next[tail] = NULL
  BY <1>1, <1>2, <1>3 DEF TailLive
<1>6. TailLive => size # 0 BY <1>2 DEF TailLive
<1>7. head # NULL /\ head # tail => next[head] # NULL
  <2> SUFFICES ASSUME head # NULL, head # tail PROVE next[head] # NULL OBVIOUS
  <2>1. size # 1 /\ head = Walk[1] /\ 1 \in 1..size BY <1>1, <1>3, <1>4, <1>5
  <2>2. 1 + 1 \in 1..size BY <1>1, <2>1
  <2> QED BY <1>1, <1>2, <2>1, <2>2
<1>8. ~BadPointer BY <1>1, <1>4, <1>5, <1>7 DEF BadPointer
<1>9. \A n : next[n] = NULL /\ CutBehind(n) => status' = "ok" BY <1>1 DEF CutBehind
<1>10. \A d \in Data : list_push_tail(d) => status' = "ok" BY <1>1, <1>4, <1>5, <1>9 DEF list_push_tail
<1>11. list_pop_head => status' = "ok"
  <2> SUFFICES ASSUME list_pop_head PROVE status' = "ok" OBVIOUS
  <2>1. head # NULL BY DEF list_pop_head
  <2>2. CASE head = tail BY <1>4, <1>5, <1>9, <2>1, <2>2 DEF list_pop_head
  <2>3. CASE head # tail BY <1>1, <2>3 DEF list_pop_head
  <2> QED BY <2>2, <2>3
<1>12. list_pop_tail => status' = "ok" BY <1>5, <1>6, <1>9 DEF list_pop_tail
<1>13. /\ \A d \in Data : list_push_head(d) => status' = "ok"
       /\ \A c : \A d \in Data : InsertAfter(d, c) => status' = "ok"
  BY <1>1 DEF list_push_head, InsertAfter
<1>14. (\A c : Bypass(c) => status' = "ok") /\ (\A n : remove_node(n) => status' = "ok")
  BY <1>1 DEF Bypass, remove_node
<1>15. PopHead \/ PopTail \/ RemoveHead \/ RemoveTail => status' = "ok"
  BY <1>11, <1>12 DEF PopHead, PopTail, RemoveHead, RemoveTail
<1>16. \A p : PopPosition(p) => status' = "ok" BY <1>14, <1>15 DEF PopPosition
<1>17. \A p : RemovePosition(p) => status' = "ok" BY <1>14, <1>15 DEF RemovePosition
<1>18. \A d \in Data : PushHead(d) \/ PushTail(d) => status' = "ok" BY <1>10, <1>13 DEF PushHead, PushTail
<1>19. \A p : \A d \in Data : PushPosition(d, p) => status' = "ok" BY <1>10, <1>13 DEF PushPosition
<1>20. \A k : RemoveData(k) => status' = "ok" BY <1>14 DEF RemoveData
<1>21. Sort \/ Clear \/ PopNothing => status' = "ok" BY <1>1 DEF Sort, Clear, PopNothing
<1> QED BY <1>8, <1>15, <1>16, <1>17, <1>18, <1>19, <1>20, <1>21 DEF Next, Operation

(* Only list_sort leaves tail behind, only then are nodes dropped, and only *)
(* removals by position between two nodes return or free a datum that was   *)
(* freed already.                                                           *)
THEOREM ListFaultsConfined == Spec => FaultsConfined
<1> DEFINE Confined ==
             status = "ok" =>
               /\ TailValid /\ ~TailValid' => Sort
               /\ status' # "ok" => ~TailValid
               /\ status' = "ok" /\ (\/ popped' # NULL /\ frees'[popped'] > 0
                                     \/ \E d \in Data : frees'[d] > frees[d] + 1) =>
                    \E p \in 1..(size - 2) : PopPosition(p) \/ RemovePosition(p)
<1>1. ASSUME ListInv, status' = "ok", Next
      PROVE  (TailValid /\ ~TailValid' => Sort) /\ (Fault => ByPosition)
  BY <1>1, StepKinds, InsertsKeep, RemovesKeep, SortsKeep, ClearKeeps, IdleKeeps
<1>2. ASSUME ListInv, Next PROVE Confined
  <2>1. TailValid => status' = "ok" BY <1>2, StaysWhole
  <2> QED BY <1>1, <1>2, <2>1 DEF Fault, ByPosition
<1>3. WholeInv /\ [Next]_vars => [Confined]_vars BY <1>2 DEF WholeInv
<1> QED BY <1>3, ListInvariant, PTL DEF Spec, FaultsConfined

----------------------------------------------------------------------------
(* The sequences of DataList are the ones the pointers were shown to chain. *)
LEMMA InsertedIs ==
  ASSUME NEW s \in Seq(Data), NEW d \in Data, NEW i \in 0..Len(s)
  PROVE  Inserted(s, i, d) = SubSeq(s, 1, i) \o <<d>> \o SubSeq(s, i + 1, Len(s))
<1> DEFINE n == Len(s)
           a == SubSeq(s, 1, i)
           b == SubSeq(s, i + 1, n)
           c == a \o <<d>> \o b
<1>0. n \in Nat /\ i \in 0..n /\ i \in Nat OBVIOUS
<1>1. a \in Seq(Data) /\ Len(a) = i /\ \A j \in 1..i : a[j] = s[j] OBVIOUS
<1>2. b \in Seq(Data) /\ Len(b) = n - i /\ \A j \in 1..(n - i) : b[j] = s[i + j] OBVIOUS
<1> HIDE DEF a, b
<1>3. a \o <<d>> \in Seq(Data) /\ Len(a \o <<d>>) = i + 1 BY <1>0, <1>1
<1>4. \A j \in 1..(i + 1) : (a \o <<d>>)[j] = IF j <= i THEN s[j] ELSE d BY <1>0, <1>1
<1>5. c \in Seq(Data) /\ Len(c) = n + 1
  <2> DEFINE e == a \o <<d>>
  <2>1. e \in Seq(Data) /\ Len(e) = i + 1 BY <1>3
  <2> HIDE DEF e, n
  <2>2. e \in Seq(Data) /\ b \in Seq(Data) BY <1>2, <2>1
  <2>3. e \o b \in Seq(Data) /\ Len(e \o b) = Len(e) + Len(b) BY <2>2
  <2>4. Len(e) + Len(b) = n + 1 BY <1>0, <1>2, <2>1
  <2> QED BY <2>3, <2>4 DEF e
<1>6. \A j \in 1..(n + 1) : c[j] = IF j <= i THEN s[j] ELSE IF j = i + 1 THEN d ELSE s[j - 1]
  <2> TAKE j \in 1..(n + 1)
  <2> DEFINE e == a \o <<d>>
  <2>1. e \in Seq(Data) /\ Len(e) = i + 1 BY <1>3
  <2>2. \A h \in 1..(i + 1) : e[h] = IF h <= i THEN s[h] ELSE d BY <1>4
  <2> HIDE DEF e, n
  <2>3. CASE j <= i + 1
    <3>1. j \in 1..(i + 1) /\ (~(j <= i) => j = i + 1) BY <1>0, <2>3
    <3>2. (e \o b)[j] = e[j] BY <1>2, <2>1, <3>1
    <3> QED BY <2>2, <3>1, <3>2 DEF e
  <2>4. CASE ~(j <= i + 1)
    <3>1. j - (i + 1) \in 1..(n - i) /\ i + (j - (i + 1)) = j - 1 /\ ~(j <= i) /\ j # i + 1 BY <1>0, <2>4
    <3>2. j \in 1..(Len(e) + Len(b)) /\ ~(j <= Len(e)) /\ j - Len(e) = j - (i + 1) BY <1>0, <1>2, <2>1, <2>4
    <3>3. (e \o b)[j] = b[j - Len(e)] BY <1>2, <2>1, <3>2
    <3>4. b[j - (i + 1)] = s[i + (j - (i + 1))] BY <1>2, <3>1
    <3> QED BY <3>1, <3>2, <3>3, <3>4 DEF e
  <2> QED BY <2>3, <2>4
<1> HIDE DEF c
<1>7. c = [j \in 1..(n + 1) |-> c[j]] BY <1>5
<1>8. c = Inserted(s, i, d) BY <1>6, <1>7 DEF Inserted
<1> QED BY <1>8 DEF c, a, b

(* What is left after a removal is the part before and the part behind.     *)
LEMMA WithoutIs ==
  ASSUME NEW s \in Seq(Data), NEW k \in 1..Len(s)
  PROVE  Without(s, k) = SubSeq(s, 1, k - 1) \o SubSeq(s, k + 1, Len(s))
<1> DEFINE n == Len(s)
           a == SubSeq(s, 1, k - 1)
           b == SubSeq(s, k + 1, n)
           c == a \o b
<1>0. n \in Nat /\ k \in 1..n /\ k \in Nat OBVIOUS
<1>1. a \in Seq(Data) /\ Len(a) = k - 1 /\ \A j \in 1..(k - 1) : a[j] = s[j] OBVIOUS
<1>2. b \in Seq(Data) /\ Len(b) = n - k /\ \A j \in 1..(n - k) : b[j] = s[k + j] OBVIOUS
<1> HIDE DEF a, b, n
<1>3. c \in Seq(Data) /\ Len(c) = n - 1
  <2>0. a \in Seq(Data) /\ b \in Seq(Data) BY <1>1, <1>2
  <2>1. a \o b \in Seq(Data) /\ Len(a \o b) = Len(a) + Len(b) BY <2>0
  <2>2. Len(a) + Len(b) = n - 1 BY <1>0, <1>1, <1>2
  <2> QED BY <2>1, <2>2
<1>4. \A j \in 1..(n - 1) : c[j] = IF j < k THEN s[j] ELSE s[j + 1]
  <2> TAKE j \in 1..(n - 1)
  <2>1. CASE j < k
    <3>1. j \in 1..(k - 1) BY <1>0, <2>1
    <3>2. (a \o b)[j] = a[j] BY <1>1, <1>2, <3>1
    <3> QED BY <1>1, <2>1, <3>1, <3>2
  <2>2. CASE ~(j < k)
    <3>1. j - (k - 1) \in 1..(n - k) /\ k + (j - (k - 1)) = j + 1 BY <1>0, <2>2
    <3>2. j \in 1..(Len(a) + Len(b)) /\ ~(j <= Len(a)) /\ j - Len(a) = j - (k - 1) BY <1>0, <1>1, <1>2, <2>2
    <3>3. (a \o b)[j] = b[j - Len(a)] BY <1>1, <1>2, <3>2
    <3> QED BY <1>2, <2>2, <3>1, <3>2, <3>3
  <2> QED BY <2>1, <2>2
<1> HIDE DEF c
<1>5. c = [j \in 1..(n - 1) |-> c[j]] BY <1>3
<1>6. c = Without(s, k) BY <1>4, <1>5 DEF Without, n
<1> QED BY <1>6 DEF c, a, b, n

(* Every operation on the pointers that drops nothing is one on the         *)
(* sequence: until then the list implements DataList.                       *)
THEOREM ListImplementsList == Spec => ImplementsList
<1>1. Init => Content!Init BY ListInit DEF Content!Init
<1>2. ASSUME ListInv, status' = "ok", Inserts PROVE Content!Next
  <2>1. PICK d \in Data, i \in 0..size : d \notin Members(Walk) /\ Walk' = Inserted(Walk, i, d)
    BY <1>2, InsertsKeep
  <2>2. Walk \in Seq(Data) /\ size = Len(Walk) BY <1>2, ListFacts
  <2>3. i \in 0..Len(Walk) BY <2>2
  <2>4. Walk' = SubSeq(Walk, 1, i) \o <<d>> \o SubSeq(Walk, i + 1, Len(Walk))
    BY <2>1, <2>2, <2>3, InsertedIs
  <2>5. ~Content!Holds(Walk, d) BY <2>1, <2>2 DEF Members, Content!Holds
  <2>6. Content!Insert(d, i) BY <2>4, <2>5 DEF Content!Insert
  <2> QED BY <2>3, <2>6 DEF Content!Next
<1>3. ASSUME ListInv, status' = "ok", Removes PROVE Content!Next
  <2>1. PICK k \in 1..size : Walk' = Without(Walk, k) BY <1>3, RemovesKeep
  <2>2. Walk \in Seq(Data) /\ size = Len(Walk) BY <1>3, ListFacts
  <2>3. k \in 1..Len(Walk) BY <2>2
  <2>4. Walk' = SubSeq(Walk, 1, k - 1) \o SubSeq(Walk, k + 1, Len(Walk))
    BY <2>1, <2>2, <2>3, WithoutIs
  <2>5. Content!Remove(k) BY <2>4 DEF Content!Remove
  <2> QED BY <2>3, <2>5 DEF Content!Next
<1>4. ASSUME ListInv, status' = "ok", Sorts PROVE Content!Next
  <2>1. Arranged(Walk, Walk') BY <1>4, SortsKeep
  <2>2. Walk \in Seq(Data) BY <1>4, ListFacts
  <2>3. /\ Walk' \in Seq(Data) /\ Len(Walk') = Len(Walk) /\ Members(Walk') = Members(Walk)
        /\ Ascending(Walk')
    BY <2>1 DEF Arranged
  <2>4. DOMAIN Walk = 1..Len(Walk) /\ DOMAIN Walk' = 1..Len(Walk') BY <2>2, <2>3
  <2>5. Content!Sort BY <2>3, <2>4 DEF Content!Sort, Members, Ascending
  <2> QED BY <2>5 DEF Content!Next
<1>5. ASSUME ListInv, status' = "ok", Clear PROVE Content!Next
  <2>1. Walk' = <<>> BY <1>5, ClearKeeps
  <2> QED BY <2>1 DEF Content!Next, Content!Clear
<1>6. ASSUME ListInv, status' = "ok", PopNothing \/ UNCHANGED vars PROVE Walk' = Walk
  BY <1>6, IdleKeeps
<1>7. WholeInv /\ [Next]_vars => [status' = "ok" => Content!Next]_Walk
  <2> SUFFICES ASSUME WholeInv, [Next]_vars, status' = "ok" PROVE Content!Next \/ Walk' = Walk OBVIOUS
  <2>1. ListInv BY OnceCut DEF WholeInv
  <2> QED BY <1>2, <1>3, <1>4, <1>5, <1>6, <2>1, StepKinds
<1> QED BY <1>1, <1>7, ListInvariant, PTL DEF Spec, ImplementsList
===============================================================================
