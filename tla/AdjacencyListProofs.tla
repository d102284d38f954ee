------------------------- MODULE AdjacencyListProofs -------------------------
(***************************************************************************)
(* What holds of the graph for any nodes, any number of edges and any size  *)
(* of the stack.                                                            *)
(***************************************************************************)
EXTENDS AdjacencyList, Integers, FiniteSetTheorems, SequenceTheorems,
        WellFoundedInduction, TLAPS

(* Every set of numbers has a least one.                                    *)
LEMMA LeastNumber ==
  ASSUME NEW T, T \subseteq Nat, T # {}
  PROVE  \E x \in T : \A y \in T : x <= y
<1> DEFINE R == OpToRel(<, Nat)
<1>1. IsWellFoundedOn(R, Nat) BY NatLessThanWellFounded
<1> HIDE DEF R
<1>2. PICK x \in T : \A y \in T : ~(<<y, x>> \in R) BY <1>1, WFMin
<1>3. \A y \in T : ~(y < x) BY <1>2 DEF R, OpToRel
<1>4. \A y \in T : x <= y BY <1>3
<1> QED BY <1>4

(* What holds of 0 and passes from each number to the next holds up to n.   *)
LEMMA Climb ==
  ASSUME NEW n \in Nat, NEW P, 0 \in P, \A i \in 1..n : i - 1 \in P => i \in P
  PROVE  \A i \in 0..n : i \in P
<1> SUFFICES ASSUME ~ \A i \in 0..n : i \in P PROVE FALSE OBVIOUS
<1> DEFINE Bad == {i \in 0..n : i \notin P}
<1>1. Bad \subseteq Nat /\ Bad # {} OBVIOUS
<1>2. PICK i \in Bad : \A j \in Bad : i <= j BY <1>1, LeastNumber
<1>3. i \in 0..n /\ i \notin P /\ i # 0 BY <1>2
<1>4. i \in 1..n /\ i - 1 \in 0..n BY <1>3
<1>5. i - 1 \notin P BY <1>3, <1>4
<1>6. i <= i - 1 BY <1>2, <1>4, <1>5
<1> QED BY <1>4, <1>6

(* The states of a loop of n turns that begins with v, and the i-th turn of *)
(* which takes a state w of V to f[i][w].                                   *)
Iterates(F, n, V, v, f) ==
  F \in [0..n -> V] /\ F = [i \in 0..n |-> IF i = 0 THEN v ELSE f[i][F[i - 1]]]

(* There are such states.                                                   *)
LEMMA Iterated ==
  ASSUME NEW n \in Nat, NEW V, NEW v \in V, NEW f \in [1..n -> [V -> V]]
  PROVE  \E F : Iterates(F, n, V, v, f)
<1> DEFINE Good(m, F) == /\ F \in [0..n -> V]
                         /\ \A i \in 0..m : F[i] = IF i = 0 THEN v ELSE f[i][F[i - 1]]
           P == {m \in 0..n : \E F : Good(m, F)}
<1>1. 0 \in P
  <2> DEFINE F == [i \in 0..n |-> v]
  <2>1. F[0] = v /\ F \in [0..n -> V] OBVIOUS
  <2> HIDE DEF F
  <2>2. \A i \in 0..0 : i = 0 OBVIOUS
  <2>3. Good(0, F) BY <2>1, <2>2
  <2> HIDE DEF Good
  <2> QED BY <2>3
<1>2. ASSUME NEW m \in 1..n, m - 1 \in P PROVE m \in P
  <2>1. PICK F : Good(m - 1, F) BY <1>2
  <2>2. m - 1 \in 0..n /\ m \in 0..n OBVIOUS
  <2> DEFINE G == [F EXCEPT ![m] = f[m][F[m - 1]]]
  <2>3. f[m][F[m - 1]] \in V BY <2>1, <2>2
  <2>4. G \in [0..n -> V] BY <2>1, <2>3
  <2>5. G[m] = f[m][F[m - 1]] /\ \A i \in 0..n : i # m => G[i] = F[i] BY <2>1, <2>2
  <2> HIDE DEF G
  <2>6. ASSUME NEW i \in 0..m PROVE G[i] = IF i = 0 THEN v ELSE f[i][G[i - 1]]
    <3>1. i # 0 => i - 1 \in 0..n /\ i - 1 # m OBVIOUS
    <3>2. i # 0 => G[i - 1] = F[i - 1] BY <2>5, <3>1
    <3>3. CASE i = m BY <2>5, <3>2, <3>3
    <3>4. CASE i # m
      <4>1. i \in 0..(m - 1) /\ i \in 0..n BY <3>4
      <4> QED BY <2>1, <2>5, <3>2, <3>4, <4>1
    <3> QED BY <3>3, <3>4
  <2>7. Good(m, G) BY <2>4, <2>6
  <2> HIDE DEF Good
  <2> QED BY <2>2, <2>7
<1>3. n \in P
  <2> HIDE DEF P
  <2>1. \A m \in 0..n : m \in P BY <1>1, <1>2, Climb
  <2> QED BY <2>1
<1>4. PICK F : Good(n, F) BY <1>3
<1>5. F = [i \in 0..n |-> F[i]] BY <1>4
<1>6. F = [i \in 0..n |-> IF i = 0 THEN v ELSE f[i][F[i - 1]]] BY <1>4, <1>5
<1> QED BY <1>4, <1>6 DEF Iterates

----------------------------------------------------------------------------
(* A list without its p-th entry, and with one more at its head.            *)
LEMMA CutList ==
  ASSUME NEW S, NEW L \in Seq(S), NEW p \in 1..Len(L)
  PROVE  /\ RemoveAt(L, p) \in Seq(S)
         /\ Len(RemoveAt(L, p)) = Len(L) - 1
         /\ \A i \in 1..(Len(L) - 1) : RemoveAt(L, p)[i] = IF i < p THEN L[i] ELSE L[i + 1]
<1>1. PICK a \in Seq(S) : a = SubSeq(L, 1, p - 1)
  <2>1. \A i \in 1..(p - 1) : L[i] \in S OBVIOUS
  <2>2. SubSeq(L, 1, p - 1) \in Seq(S) BY <2>1, SubSeqProperties
  <2> QED BY <2>2
<1>2. PICK b \in Seq(S) : b = SubSeq(L, p + 1, Len(L))
  <2>1. \A i \in (p + 1)..Len(L) : L[i] \in S OBVIOUS
  <2>2. SubSeq(L, p + 1, Len(L)) \in Seq(S) BY <2>1, SubSeqProperties
  <2> QED BY <2>2
<1>3. Len(a) = p - 1 /\ \A i \in 1..(p - 1) : a[i] = L[i] BY <1>1
<1>4. Len(b) = Len(L) - p /\ \A i \in 1..(Len(L) - p) : b[i] = L[p + i]
  <2>1. Len(b) = Len(L) - p BY <1>2
  <2>2. \A i \in 1..(Len(L) - p) : b[i] = L[p + 1 + i - 1] BY <1>2
  <2> QED BY <2>1, <2>2
<1>5. RemoveAt(L, p) = a \o b BY <1>1, <1>2 DEF RemoveAt
<1>6. a \o b \in Seq(S) /\ Len(a \o b) = Len(a) + Len(b) OBVIOUS
<1>7. Len(a \o b) = Len(L) - 1 BY <1>3, <1>4, <1>6
<1>8. ASSUME NEW i \in 1..(Len(L) - 1) PROVE (a \o b)[i] = IF i < p THEN L[i] ELSE L[i + 1]
  <2>1. CASE i < p
    <3>1. i \in 1..Len(a) BY <1>3, <2>1
    <3>2. (a \o b)[i] = a[i] BY <3>1
    <3> QED BY <1>3, <2>1, <3>1, <3>2
  <2>2. CASE ~(i < p)
    <3>1. i - (p - 1) \in 1..(Len(L) - p) /\ p + (i - (p - 1)) = i + 1 BY <2>2
    <3>2. (a \o b)[i] = b[i - Len(a)] BY <1>3, <1>4, <2>2
    <3> QED BY <1>3, <1>4, <2>2, <3>1, <3>2
  <2> QED BY <2>1, <2>2
<1> QED BY <1>5, <1>6, <1>7, <1>8

(* The same for an entry pushed to the head.                                *)
LEMMA PushList ==
  ASSUME NEW S, NEW L \in Seq(S), NEW e \in S
  PROVE  /\ <<e>> \o L \in Seq(S) /\ Len(<<e>> \o L) = Len(L) + 1
         /\ (<<e>> \o L)[1] = e /\ \A i \in 1..Len(L) : (<<e>> \o L)[i + 1] = L[i]
<1>1. PICK a \in Seq(S) : a = <<e>>
  <2>1. <<e>> \in Seq(S) OBVIOUS
  <2> QED BY <2>1
<1>2. Len(a) = 1 /\ a[1] = e BY <1>1
<1>3. a \o L \in Seq(S) /\ Len(a \o L) = Len(a) + Len(L) OBVIOUS
<1>4. (a \o L)[1] = e
  <2>1. 1 \in 1..(Len(a) + Len(L)) /\ 1 <= Len(a) BY <1>2
  <2> QED BY <1>2, <2>1, ConcatProperties
<1>5. ASSUME NEW i \in 1..Len(L) PROVE (a \o L)[i + 1] = L[i]
  <2>1. i + 1 \in 1..(Len(a) + Len(L)) /\ ~(i + 1 <= Len(a)) /\ (i + 1) - Len(a) = i BY <1>2
  <2> QED BY <2>1
<1> QED BY <1>1, <1>2, <1>3, <1>4, <1>5

(* The least number of a set that has one.                                  *)
LEMMA MinIs ==
  ASSUME NEW I, I \subseteq Nat, I # {}
  PROVE  Min(I) \in I /\ \A y \in I : Min(I) <= y
<1>1. \E x \in I : \A y \in I : x =< y BY LeastNumber
<1> QED BY <1>1 DEF Min

(* find_node finds the first entry that the edge compares equal to.         *)
LEMMA FindNode ==
  ASSUME NEW g, NEW n, NEW e, NEW S, g.list[n] \in Seq(S)
  PROVE  \/ /\ find_node(g, n, e) = 0
            /\ \A i \in 1..Len(g.list[n]) : ~edge_compare(e, g.list[n][i])
         \/ /\ find_node(g, n, e) \in 1..Len(g.list[n])
            /\ edge_compare(e, g.list[n][find_node(g, n, e)])
            /\ \A i \in 1..Len(g.list[n]) : edge_compare(e, g.list[n][i]) => find_node(g, n, e) <= i
<1> DEFINE I == {i \in 1..Len(g.list[n]) : edge_compare(e, g.list[n][i])}
<1>1. find_node(g, n, e) = IF I # {} THEN Min(I) ELSE 0 BY DEF find_node, SelectInSeq
<1>2. I # {} => Min(I) \in I /\ \A y \in I : Min(I) <= y
  <2>1. I \subseteq Nat OBVIOUS
  <2> HIDE DEF I
  <2> QED BY <2>1, MinIs
<1> QED BY <1>1, <1>2

(* graph_find_edge finds the first entry that connects the nodes.           *)
LEMMA FindPlace ==
  ASSUME NEW g, NEW n1, NEW n2, NEW S, g.list[n1] \in Seq(S)
  PROVE  \/ /\ PlaceOf(g, n1, n2) = 0
            /\ \A i \in 1..Len(g.list[n1]) : ~Connects(g.list[n1][i], n1, n2)
         \/ /\ PlaceOf(g, n1, n2) \in 1..Len(g.list[n1])
            /\ Connects(g.list[n1][PlaceOf(g, n1, n2)], n1, n2)
            /\ \A i \in 1..Len(g.list[n1]) :
                 Connects(g.list[n1][i], n1, n2) => PlaceOf(g, n1, n2) <= i
<1> DEFINE I == {i \in 1..Len(g.list[n1]) : Connects(g.list[n1][i], n1, n2)}
<1>1. PlaceOf(g, n1, n2) = IF I # {} THEN Min(I) ELSE 0 BY DEF PlaceOf, SelectInSeq
<1>2. I # {} => Min(I) \in I /\ \A y \in I : Min(I) <= y
  <2>1. I \subseteq Nat OBVIOUS
  <2> HIDE DEF I
  <2> QED BY <2>1, MinIs
<1> QED BY <1>1, <1>2

----------------------------------------------------------------------------
(* Places in a list and in what is left of it when its p-th entry is cut    *)
(* out.                                                                     *)
Up(p, i)   == IF i < p THEN i ELSE i + 1
Down(p, i) == IF i < p THEN i ELSE i - 1

IsCut(L, M, p) ==
  /\ Len(L) \in Nat /\ Len(M) \in Nat /\ p \in 1..Len(L) /\ Len(M) = Len(L) - 1
  /\ \A i \in 1..Len(M) : Up(p, i) \in 1..Len(L) /\ Up(p, i) # p /\ M[i] = L[Up(p, i)]
  /\ \A j \in 1..Len(L) : j # p => /\ Down(p, j) \in 1..Len(M) /\ M[Down(p, j)] = L[j]
                                   /\ Up(p, Down(p, j)) = j
  /\ \A i, j \in 1..Len(M) : i < j <=> Up(p, i) < Up(p, j)

(* RemoveAt cuts one entry out.                                             *)
LEMMA CutPlaces ==
  ASSUME NEW S, NEW L \in Seq(S), NEW p \in 1..Len(L)
  PROVE  IsCut(L, RemoveAt(L, p), p) /\ RemoveAt(L, p) \in Seq(S)
<1> DEFINE M == RemoveAt(L, p)
<1>1. /\ M \in Seq(S) /\ Len(M) = Len(L) - 1
      /\ \A i \in 1..(Len(L) - 1) : M[i] = IF i < p THEN L[i] ELSE L[i + 1]
  BY CutList
<1> HIDE DEF M
<1>2. ASSUME NEW i \in 1..Len(M)
      PROVE  Up(p, i) \in 1..Len(L) /\ Up(p, i) # p /\ M[i] = L[Up(p, i)]
  <2>1. i \in 1..(Len(L) - 1) BY <1>1
  <2>2. CASE i < p BY <1>1, <2>1, <2>2 DEF Up
  <2>3. CASE ~(i < p) BY <1>1, <2>1, <2>3 DEF Up
  <2> QED BY <2>2, <2>3
<1>3. ASSUME NEW j \in 1..Len(L), j # p
      PROVE  Down(p, j) \in 1..Len(M) /\ M[Down(p, j)] = L[j] /\ Up(p, Down(p, j)) = j
  <2>1. Down(p, j) \in 1..Len(M) /\ Up(p, Down(p, j)) = j BY <1>1, <1>3 DEF Up, Down
  <2> QED BY <1>2, <2>1
<1>4. \A i, j \in 1..Len(M) : i < j <=> Up(p, i) < Up(p, j) BY <1>1 DEF Up
<1>5. Len(L) \in Nat /\ Len(M) \in Nat BY <1>1
<1>6. IsCut(L, M, p) BY <1>1, <1>2, <1>3, <1>4, <1>5 DEF IsCut
<1> QED BY <1>1, <1>6 DEF M

(* The last of the entries v is behind all of the entries u.                *)
Later(L, u, v) ==
  \E j \in 1..Len(L) : L[j] = v /\ \A i \in 1..Len(L) : L[i] = u => i < j

IsFirst(L, p) == p \in 1..Len(L) /\ \A i \in 1..Len(L) : L[i] = L[p] => p <= i

(* M has no entry that L has not, and keeps the order of two entries that   *)
(* belong together by P.                                                    *)
Calm(L, M, P) ==
  /\ \A i \in 1..Len(M) : Contains(L, M[i])
  /\ \A u, v : <<u, v>> \in P /\ Contains(M, u) /\ Contains(M, v) =>
       (Later(L, u, v) <=> Later(M, u, v))

(* What is left of a list when a first entry of its kind is cut out has     *)
(* the order of the list.                                                   *)
LEMMA CutKeepsOrder ==
  ASSUME NEW L, NEW M, NEW p, IsCut(L, M, p), IsFirst(L, p), NEW u, NEW v,
         Contains(M, u), Contains(M, v)
  PROVE  Later(L, u, v) <=> Later(M, u, v)
<1>0. Len(L) \in Nat /\ Len(M) \in Nat /\ p \in 1..Len(L) /\ Len(M) = Len(L) - 1 BY DEF IsCut
<1>a. ASSUME NEW x, Contains(M, x), L[p] = x
      PROVE  \E k \in 1..Len(L) : L[k] = x /\ k # p /\ p < k
  <2>1. PICK i \in 1..Len(M) : M[i] = x BY <1>a DEF Contains
  <2>2. Up(p, i) \in 1..Len(L) /\ Up(p, i) # p /\ L[Up(p, i)] = x BY <2>1 DEF IsCut
  <2>3. p <= Up(p, i) BY <2>2, <1>a DEF IsFirst
  <2> QED BY <1>0, <2>2, <2>3
<1>1. ASSUME Later(L, u, v) PROVE Later(M, u, v)
  <2>1. PICK j0 \in 1..Len(L) : L[j0] = v /\ \A i \in 1..Len(L) : L[i] = u => i < j0
    BY <1>1 DEF Later
  <2>2. \E j \in 1..Len(L) : j # p /\ L[j] = v /\ \A i \in 1..Len(L) : L[i] = u => i < j
    <3>1. CASE j0 # p BY <2>1, <3>1
    <3>2. CASE j0 = p
      <4>1. PICK k \in 1..Len(L) : L[k] = v /\ k # p /\ p < k BY <1>a, <2>1, <3>2
      <4>2. ASSUME NEW i \in 1..Len(L), L[i] = u PROVE i < k BY <1>0, <2>1, <3>2, <4>1, <4>2
      <4> QED BY <4>1, <4>2
    <3> QED BY <3>1, <3>2
  <2>3. PICK j \in 1..Len(L) : j # p /\ L[j] = v /\ \A i \in 1..Len(L) : L[i] = u => i < j
    BY <2>2
  <2>4. Down(p, j) \in 1..Len(M) /\ M[Down(p, j)] = v /\ Up(p, Down(p, j)) = j
    BY <2>3 DEF IsCut
  <2>5. ASSUME NEW i \in 1..Len(M), M[i] = u PROVE i < Down(p, j)
    <3>1. Up(p, i) \in 1..Len(L) /\ L[Up(p, i)] = u BY <2>5 DEF IsCut
    <3>2. Up(p, i) < Up(p, Down(p, j)) BY <2>3, <2>4, <3>1
    <3> QED BY <2>4, <3>2 DEF IsCut
  <2> QED BY <2>4, <2>5 DEF Later
<1>2. ASSUME Later(M, u, v) PROVE Later(L, u, v)
  <2>1. PICK j \in 1..Len(M) : M[j] = v /\ \A i \in 1..Len(M) : M[i] = u => i < j
    BY <1>2 DEF Later
  <2>2. Up(p, j) \in 1..Len(L) /\ L[Up(p, j)] = v BY <2>1 DEF IsCut
  <2>3. ASSUME NEW i \in 1..Len(L), L[i] = u, i # p PROVE i < Up(p, j)
    <3>1. Down(p, i) \in 1..Len(M) /\ M[Down(p, i)] = u /\ Up(p, Down(p, i)) = i
      BY <2>3 DEF IsCut
    <3>2. Down(p, i) < j BY <2>1, <3>1
    <3>3. Up(p, Down(p, i)) < Up(p, j) BY <3>1, <3>2 DEF IsCut
    <3> QED BY <3>1, <3>3
  <2>4. ASSUME L[p] = u PROVE p < Up(p, j)
    <3>1. PICK k \in 1..Len(L) : L[k] = u /\ k # p /\ p < k BY <1>a, <2>4
    <3>2. k < Up(p, j) BY <2>3, <3>1
    <3> QED BY <1>0, <2>2, <3>1, <3>2
  <2>5. \A i \in 1..Len(L) : L[i] = u => i < Up(p, j) BY <2>3, <2>4
  <2> QED BY <2>2, <2>5 DEF Later
<1> QED BY <1>1, <1>2

(* So such a cut is calm.                                                   *)
LEMMA CutIsCalm ==
  ASSUME NEW L, NEW M, NEW p, IsCut(L, M, p), IsFirst(L, p), NEW P
  PROVE  Calm(L, M, P)
<1>1. ASSUME NEW i \in 1..Len(M) PROVE Contains(L, M[i])
  BY DEF IsCut, Contains
<1>2. \A u, v : <<u, v>> \in P /\ Contains(M, u) /\ Contains(M, v) =>
        (Later(L, u, v) <=> Later(M, u, v))
  BY CutKeepsOrder
<1> QED BY <1>1, <1>2 DEF Calm

(* One calm step after the other.                                           *)
LEMMA CalmTwice ==
  ASSUME NEW L, NEW M, NEW N, NEW P, Calm(L, M, P), Calm(M, N, P)
  PROVE  Calm(L, N, P)
<1>1. \A i \in 1..Len(N) : Contains(L, N[i]) BY DEF Calm, Contains
<1>2. \A u : Contains(N, u) => Contains(M, u) BY DEF Calm, Contains
<1>3. ASSUME NEW u, NEW v, <<u, v>> \in P, Contains(N, u), Contains(N, v)
      PROVE  Later(L, u, v) <=> Later(N, u, v)
  BY <1>2, <1>3 DEF Calm
<1> QED BY <1>1, <1>3 DEF Calm

(* What a push at the head does to places.                                  *)
IsPush(L, M, e) ==
  /\ Len(L) \in Nat /\ Len(M) = Len(L) + 1 /\ M[1] = e
  /\ \A i \in 1..Len(L) : i + 1 \in 1..Len(M) /\ M[i + 1] = L[i]
  /\ \A j \in 1..Len(M) : j # 1 => j - 1 \in 1..Len(L) /\ M[j] = L[j - 1]

(* <<e>> \o L pushes e.                                                     *)
LEMMA PushPlaces ==
  ASSUME NEW S, NEW L \in Seq(S), NEW e \in S
  PROVE  IsPush(L, <<e>> \o L, e) /\ <<e>> \o L \in Seq(S)
<1> DEFINE M == <<e>> \o L
<1>1. /\ M \in Seq(S) /\ Len(M) = Len(L) + 1
      /\ M[1] = e /\ \A i \in 1..Len(L) : M[i + 1] = L[i]
  BY PushList
<1> HIDE DEF M
<1>2. \A i \in 1..Len(L) : i + 1 \in 1..Len(M) BY <1>1
<1>3. ASSUME NEW j \in 1..Len(M), j # 1 PROVE j - 1 \in 1..Len(L) /\ M[j] = L[j - 1]
  <2>1. j - 1 \in 1..Len(L) /\ (j - 1) + 1 = j BY <1>1, <1>3
  <2> QED BY <1>1, <2>1
<1> QED BY <1>1, <1>2, <1>3 DEF IsPush, M

(* Pushing one more copy of an entry, or any entry, leaves the order of     *)
(* what was there.                                                          *)
LEMMA PushKeepsOrder ==
  ASSUME NEW L, NEW M, NEW e, IsPush(L, M, e), NEW u, NEW v, Contains(L, u), Contains(L, v)
  PROVE  Later(L, u, v) <=> Later(M, u, v)
<1>0. Len(L) \in Nat /\ Len(M) \in Nat /\ Len(M) = Len(L) + 1 /\ 1 \in 1..Len(M) BY DEF IsPush
<1>1. ASSUME Later(L, u, v) PROVE Later(M, u, v)
  <2>1. PICK j \in 1..Len(L) : L[j] = v /\ \A i \in 1..Len(L) : L[i] = u => i < j
    BY <1>1 DEF Later
  <2>2. j + 1 \in 1..Len(M) /\ M[j + 1] = v BY <2>1 DEF IsPush
  <2>3. ASSUME NEW i \in 1..Len(M), M[i] = u PROVE i < j + 1
    <3>1. CASE i = 1 BY <1>0, <3>1
    <3>2. CASE i # 1
      <4>1. i - 1 \in 1..Len(L) /\ L[i - 1] = u BY <2>3, <3>2 DEF IsPush
      <4>2. i - 1 < j BY <2>1, <4>1
      <4> QED BY <1>0, <4>1, <4>2
    <3> QED BY <3>1, <3>2
  <2> QED BY <2>2, <2>3 DEF Later
<1>2. ASSUME Later(M, u, v) PROVE Later(L, u, v)
  <2>1. PICK j \in 1..Len(M) : M[j] = v /\ \A i \in 1..Len(M) : M[i] = u => i < j
    BY <1>2 DEF Later
  <2>2. PICK k \in 1..Len(L) : L[k] = u BY DEF Contains
  <2>3. k + 1 \in 1..Len(M) /\ M[k + 1] = u BY <2>2 DEF IsPush
  <2>4. k + 1 < j BY <2>1, <2>3
  <2>5. j # 1 BY <1>0, <2>4
  <2>6. j - 1 \in 1..Len(L) /\ L[j - 1] = v BY <2>1, <2>5 DEF IsPush
  <2>7. ASSUME NEW i \in 1..Len(L), L[i] = u PROVE i < j - 1
    <3>1. i + 1 \in 1..Len(M) /\ M[i + 1] = u BY <2>7 DEF IsPush
    <3>2. i + 1 < j BY <2>1, <3>1
    <3> QED BY <1>0, <3>2
  <2> QED BY <2>6, <2>7 DEF Later
<1> QED BY <1>1, <1>2

(* The rollback of a removal that fails: the first entry like e is cut out  *)
(* and e itself is pushed.                                                  *)
LEMMA RollbackIsCalm ==
  ASSUME NEW L, NEW R, NEW M, NEW p, NEW e, NEW P, IsCut(L, R, p), IsFirst(L, p),
         IsPush(R, M, e), Contains(L, e),
         \A i \in 1..Len(L) : L[i] = e \/ <<e, L[i]>> \in P \/ <<L[i], e>> \in P => p <= i
  PROVE  Calm(L, M, P)
<1>0. /\ Len(L) \in Nat /\ Len(R) \in Nat /\ Len(M) \in Nat /\ Len(M) = Len(R) + 1
      /\ p \in 1..Len(L) /\ 1 \in 1..Len(M) /\ M[1] = e
  BY DEF IsCut, IsPush
<1>1. ASSUME NEW x, Contains(M, x) PROVE x = e \/ Contains(R, x)
  <2>1. PICK i \in 1..Len(M) : M[i] = x BY <1>1 DEF Contains
  <2>2. CASE i = 1 BY <1>0, <2>1, <2>2
  <2>3. CASE i # 1 BY <2>1, <2>3 DEF IsPush, Contains
  <2> QED BY <2>2, <2>3
<1>2. ASSUME NEW x, Contains(R, x) PROVE Contains(L, x)
  BY <1>2 DEF IsCut, Contains
<1>3. ASSUME NEW i \in 1..Len(M) PROVE Contains(L, M[i])
  <2>1. Contains(M, M[i]) BY DEF Contains
  <2> QED BY <1>1, <1>2, <2>1
<1>4. ASSUME NEW u, NEW v, Contains(R, u), Contains(R, v)
      PROVE  Later(L, u, v) <=> Later(M, u, v)
  <2>1. Later(L, u, v) <=> Later(R, u, v) BY <1>4, CutKeepsOrder
  <2>2. Later(R, u, v) <=> Later(M, u, v) BY <1>4, PushKeepsOrder
  <2> QED BY <2>1, <2>2
<1>5. ASSUME ~Contains(R, e) PROVE L[p] = e /\ \A i \in 1..Len(L) : L[i] = e => i = p
  <2>1. ASSUME NEW i \in 1..Len(L), L[i] = e, i # p PROVE FALSE
    <3>1. Down(p, i) \in 1..Len(R) /\ R[Down(p, i)] = e BY <2>1 DEF IsCut
    <3> QED BY <1>5, <3>1 DEF Contains
  <2> QED BY <2>1 DEF Contains
<1>6. ASSUME NEW w, Contains(R, w), ~Contains(R, e), <<e, w>> \in P \/ <<w, e>> \in P
      PROVE  /\ Later(L, e, w) /\ Later(M, e, w) /\ ~Later(L, w, e) /\ ~Later(M, w, e)
  <2>1. PICK k \in 1..Len(R) : R[k] = w BY <1>6 DEF Contains
  <2>2. Up(p, k) \in 1..Len(L) /\ Up(p, k) # p /\ L[Up(p, k)] = w BY <2>1 DEF IsCut
  <2>3. p < Up(p, k)
    <3>1. p <= Up(p, k) BY <1>6, <2>2
    <3> QED BY <1>0, <2>2, <3>1
  <2>4. k + 1 \in 1..Len(M) /\ M[k + 1] = w BY <2>1 DEF IsPush
  <2>5. \A i \in 1..Len(M) : M[i] = e => i = 1
    <3>1. ASSUME NEW i \in 1..Len(M), M[i] = e, i # 1 PROVE FALSE
      <4>1. i - 1 \in 1..Len(R) /\ R[i - 1] = e BY <3>1 DEF IsPush
      <4> QED BY <1>6, <4>1 DEF Contains
    <3> QED BY <3>1
  <2>6. Later(L, e, w)
    <3>1. \A i \in 1..Len(L) : L[i] = e => i < Up(p, k) BY <1>5, <1>6, <2>3
    <3> QED BY <2>2, <3>1 DEF Later
  <2>7. Later(M, e, w)
    <3>1. \A i \in 1..Len(M) : M[i] = e => i < k + 1 BY <2>5
    <3> QED BY <2>4, <3>1 DEF Later
  <2>8. ~Later(L, w, e)
    <3>1. \A j \in 1..Len(L) : L[j] = e => ~(Up(p, k) < j) BY <1>0, <1>5, <1>6, <2>2, <2>3
    <3> QED BY <2>2, <3>1 DEF Later
  <2>9. ~Later(M, w, e)
    <3>1. \A j \in 1..Len(M) : M[j] = e => ~(k + 1 < j) BY <1>0, <2>5
    <3> QED BY <2>4, <3>1 DEF Later
  <2> QED BY <2>6, <2>7, <2>8, <2>9
<1>7. ASSUME NEW N, Len(N) \in Nat PROVE ~Later(N, e, e) BY <1>7 DEF Later
<1>8. ASSUME NEW u, NEW v, <<u, v>> \in P, Contains(M, u), Contains(M, v)
      PROVE  Later(L, u, v) <=> Later(M, u, v)
  <2>1. CASE Contains(R, u) /\ Contains(R, v) BY <1>4, <2>1
  <2>2. CASE u = e /\ v = e BY <1>0, <1>7, <2>2
  <2>3. CASE u = e /\ Contains(R, v) /\ ~Contains(R, e) BY <1>6, <1>8, <2>3
  <2>4. CASE v = e /\ Contains(R, u) /\ ~Contains(R, e) BY <1>6, <1>8, <2>4
  <2> QED BY <1>1, <1>8, <2>1, <2>2, <2>3, <2>4
<1> QED BY <1>3, <1>8 DEF Calm

----------------------------------------------------------------------------
(* The bidirectional loops B of a node, which are twice in its list.  A loop *)
(* that another has a copy on both sides of has two copies behind it; and   *)
(* one with a single copy has another loop on both sides.                   *)
Nested(L, B) ==
  \A i, m, k \in 1..Len(L) :
    /\ i < m /\ m < k /\ L[i] = L[k] /\ L[i] # L[m] /\ L[i] \in B /\ L[m] \in B
    => \E j \in 1..Len(L) : m < j /\ j # k /\ L[j] = L[i]

Enclosed(L, B) ==
  \A m \in 1..Len(L) :
    L[m] \in B /\ (\A i \in 1..Len(L) : L[i] = L[m] => i = m)
    => \E i, k \in 1..Len(L) : i < m /\ m < k /\ L[i] = L[k] /\ L[i] # L[m] /\ L[i] \in B

(* A cut of the first entry of its kind keeps the loops nested.             *)
LEMMA CutKeepsNested ==
  ASSUME NEW L, NEW M, NEW p, NEW B, IsCut(L, M, p), IsFirst(L, p), Nested(L, B)
  PROVE  Nested(M, B)
<1>0. Len(L) \in Nat /\ Len(M) \in Nat /\ p \in 1..Len(L) BY DEF IsCut
<1> SUFFICES ASSUME NEW i \in 1..Len(M), NEW m \in 1..Len(M), NEW k \in 1..Len(M),
                    i < m, m < k, M[i] = M[k], M[i] # M[m], M[i] \in B, M[m] \in B
             PROVE  \E j \in 1..Len(M) : m < j /\ j # k /\ M[j] = M[i]
  BY DEF Nested
<1>1. PICK a \in 1..Len(L) : a = Up(p, i) /\ L[a] = M[i] /\ a # p BY DEF IsCut
<1>2. PICK b \in 1..Len(L) : b = Up(p, m) /\ L[b] = M[m] BY DEF IsCut
<1>3. PICK c \in 1..Len(L) : c = Up(p, k) /\ L[c] = M[k] BY DEF IsCut
<1>4. a < b /\ b < c BY <1>1, <1>2, <1>3 DEF IsCut
<1>b. L[a] = L[c] /\ L[a] # L[b] /\ L[a] \in B /\ L[b] \in B BY <1>1, <1>2, <1>3
<1>5. PICK j \in 1..Len(L) : b < j /\ j # c /\ L[j] = L[a] BY <1>4, <1>b DEF Nested
<1>6. j # p
  <2>1. CASE L[p] = L[a]
    <3>1. p <= a BY <2>1, <1>1 DEF IsFirst
    <3> QED BY <1>0, <1>4, <1>5, <3>1
  <2>2. CASE L[p] # L[a] BY <1>5, <2>2
  <2> QED BY <2>1, <2>2
<1>7. PICK d \in 1..Len(M) : d = Down(p, j) /\ M[d] = L[j] /\ Up(p, d) = j BY <1>6 DEF IsCut
<1>8. m < d BY <1>2, <1>5, <1>7 DEF IsCut
<1>9. d # k BY <1>3, <1>5, <1>7
<1> QED BY <1>1, <1>5, <1>7, <1>8, <1>9

(* Nor does the cut of an entry that is no such loop leave one single.      *)
LEMMA CutKeepsEnclosed ==
  ASSUME NEW L, NEW M, NEW p, NEW B, IsCut(L, M, p), L[p] \notin B, Enclosed(L, B)
  PROVE  Enclosed(M, B)
<1>0. Len(L) \in Nat /\ Len(M) \in Nat /\ p \in 1..Len(L) BY DEF IsCut
<1> SUFFICES ASSUME NEW m \in 1..Len(M), M[m] \in B, \A i \in 1..Len(M) : M[i] = M[m] => i = m
             PROVE  \E i, k \in 1..Len(M) : i < m /\ m < k /\ M[i] = M[k] /\ M[i] # M[m] /\ M[i] \in B
  BY DEF Enclosed
<1>1. PICK b \in 1..Len(L) : b = Up(p, m) /\ L[b] = M[m] BY DEF IsCut
<1>2. ASSUME NEW i \in 1..Len(L), L[i] = L[b] PROVE i = b
  <2>1. i # p BY <1>1, <1>2
  <2>2. PICK d \in 1..Len(M) : d = Down(p, i) /\ M[d] = L[i] /\ Up(p, d) = i BY <2>1 DEF IsCut
  <2>3. d = m BY <1>1, <1>2, <2>2
  <2> QED BY <1>1, <2>2, <2>3
<1>3. PICK a, c \in 1..Len(L) : a < b /\ b < c /\ L[a] = L[c] /\ L[a] # L[b] /\ L[a] \in B
  BY <1>1, <1>2 DEF Enclosed
<1>4. a # p /\ c # p BY <1>3
<1>5. PICK i \in 1..Len(M) : M[i] = L[a] /\ Up(p, i) = a BY <1>4 DEF IsCut
<1>6. PICK k \in 1..Len(M) : M[k] = L[c] /\ Up(p, k) = c BY <1>4 DEF IsCut
<1>7. i < m /\ m < k BY <1>1, <1>3, <1>5, <1>6 DEF IsCut
<1> QED BY <1>1, <1>3, <1>5, <1>6, <1>7

(* A push of an entry that is no loop changes neither.                      *)
LEMMA PushKeepsLoops ==
  ASSUME NEW L, NEW M, NEW e, NEW B, IsPush(L, M, e), e \notin B, Nested(L, B), Enclosed(L, B)
  PROVE  Nested(M, B) /\ Enclosed(M, B)
<1>0. Len(L) \in Nat /\ Len(M) \in Nat /\ Len(M) = Len(L) + 1 /\ M[1] = e BY DEF IsPush
<1>1. Nested(M, B)
  <2> SUFFICES ASSUME NEW i \in 1..Len(M), NEW m \in 1..Len(M), NEW k \in 1..Len(M),
                      i < m, m < k, M[i] = M[k], M[i] # M[m], M[i] \in B, M[m] \in B
               PROVE  \E j \in 1..Len(M) : m < j /\ j # k /\ M[j] = M[i]
    BY DEF Nested
  <2>1. i # 1 /\ m # 1 /\ k # 1 BY <1>0
  <2>2. PICK a \in 1..Len(L) : a = i - 1 /\ L[a] = M[i] BY <2>1 DEF IsPush
  <2>3. PICK b \in 1..Len(L) : b = m - 1 /\ L[b] = M[m] BY <2>1 DEF IsPush
  <2>4. PICK c \in 1..Len(L) : c = k - 1 /\ L[c] = M[k] BY <2>1 DEF IsPush
  <2>5. a < b /\ b < c BY <1>0, <2>2, <2>3, <2>4
  <2>6. PICK j \in 1..Len(L) : b < j /\ j # c /\ L[j] = L[a]
    BY <2>2, <2>3, <2>4, <2>5 DEF Nested
  <2>7. j + 1 \in 1..Len(M) /\ M[j + 1] = L[j] BY DEF IsPush
  <2>8. m < j + 1 /\ j + 1 # k BY <1>0, <2>3, <2>4, <2>6
  <2> QED BY <2>2, <2>6, <2>7, <2>8
<1>2. Enclosed(M, B)
  <2> SUFFICES ASSUME NEW m \in 1..Len(M), M[m] \in B, \A i \in 1..Len(M) : M[i] = M[m] => i = m
               PROVE  \E i, k \in 1..Len(M) : i < m /\ m < k /\ M[i] = M[k] /\ M[i] # M[m] /\ M[i] \in B
    BY DEF Enclosed
  <2>1. m # 1 BY <1>0
  <2>2. PICK b \in 1..Len(L) : b = m - 1 /\ L[b] = M[m] BY <2>1 DEF IsPush
  <2>3. ASSUME NEW i \in 1..Len(L), L[i] = L[b] PROVE i = b
    <3>1. i + 1 \in 1..Len(M) /\ M[i + 1] = L[i] BY DEF IsPush
    <3>2. i + 1 = m BY <2>2, <2>3, <3>1
    <3> QED BY <1>0, <2>2, <3>2
  <2>4. PICK a, c \in 1..Len(L) : a < b /\ b < c /\ L[a] = L[c] /\ L[a] # L[b] /\ L[a] \in B
    BY <2>2, <2>3 DEF Enclosed
  <2>5. a + 1 \in 1..Len(M) /\ M[a + 1] = L[a] BY DEF IsPush
  <2>6. c + 1 \in 1..Len(M) /\ M[c + 1] = L[c] BY DEF IsPush
  <2>7. a + 1 < m /\ m < c + 1 BY <1>0, <2>2, <2>4
  <2> QED BY <2>2, <2>4, <2>5, <2>6, <2>7
<1> QED BY <1>1, <1>2

(* The rollback of a loop e that is the last entry: the first loop is cut   *)
(* out and e is pushed.                                                     *)
LEMMA RollbackKeepsLoops ==
  ASSUME NEW L, NEW R, NEW M, NEW p, NEW e, NEW B, IsCut(L, R, p), IsFirst(L, p), IsPush(R, M, e),
         e \in B, L[Len(L)] = e, \A i \in 1..Len(L) : L[i] \in B => p <= i,
         Nested(L, B), Enclosed(L, B)
  PROVE  Nested(M, B) /\ Enclosed(M, B)
<1>0. /\ Len(L) \in Nat /\ Len(R) \in Nat /\ Len(M) \in Nat /\ Len(M) = Len(R) + 1
      /\ Len(R) = Len(L) - 1 /\ p \in 1..Len(L) /\ Len(L) \in 1..Len(L) /\ M[1] = e
  BY DEF IsCut, IsPush
<1>1. PICK a \in 1..Len(L) : L[a] = e /\ a # Len(L)
  <2>1. ASSUME \A i \in 1..Len(L) : L[i] = L[Len(L)] => i = Len(L) PROVE FALSE
    <3>1. \E i, k \in 1..Len(L) : Len(L) < k BY <1>0, <2>1 DEF Enclosed
    <3> QED BY <1>0, <3>1
  <2> QED BY <2>1
<1>2. p # Len(L)
  <2>1. p <= a BY <1>1
  <2> QED BY <1>0, <1>1, <2>1
<1>3. PICK z \in 1..Len(R) : z = Len(R) /\ R[z] = e /\ Up(p, z) = Len(L)
  <2>1. Down(p, Len(L)) \in 1..Len(R) /\ R[Down(p, Len(L))] = e /\ Up(p, Down(p, Len(L))) = Len(L)
    BY <1>0, <1>2 DEF IsCut
  <2>2. Down(p, Len(L)) = Len(R) BY <1>0, <1>2 DEF Down
  <2> QED BY <2>1, <2>2
<1>4. Nested(R, B) BY CutKeepsNested
<1>5. ASSUME NEW m \in 1..Len(R), R[m] \in B, R[m] # e, NEW k \in 1..Len(R), m < k, R[k] = e
      PROVE  \E j \in 1..Len(R) : m < j /\ j # k /\ R[j] = e
  <2>1. PICK b \in 1..Len(L) : b = Up(p, m) /\ L[b] = R[m] /\ b # p BY DEF IsCut
  <2>2. b < Len(L) BY <1>0, <1>3, <1>5, <2>1
  <2>3. PICK c \in 1..Len(L) : c = Up(p, k) /\ L[c] = e BY <1>5, ZenonT(30) DEF IsCut
  <2>4. b < c BY <1>5, <2>1, <2>3 DEF IsCut
  <2>5. \E j \in 1..Len(L) : b < j /\ j # c /\ L[j] = e
    <3>1. CASE a < b
      <4>1. L[a] = L[c] /\ L[a] # L[b] /\ L[a] \in B /\ L[b] \in B BY <1>1, <1>5, <2>1, <2>3
      <4>2. \E j \in 1..Len(L) : b < j /\ j # c /\ L[j] = L[a] BY <2>4, <3>1, <4>1 DEF Nested
      <4> QED BY <1>1, <4>2
    <3>2. CASE b < a
      <4>1. CASE c = a BY <1>0, <1>1, <2>2, <4>1
      <4>2. CASE c # a BY <1>1, <3>2, <4>2
      <4> QED BY <4>1, <4>2
    <3>3. a # b BY <1>1, <1>5, <2>1
    <3> QED BY <3>1, <3>2, <3>3
  <2>6. PICK j \in 1..Len(L) : b < j /\ j # c /\ L[j] = e BY <2>5
  <2>7. p <= b BY <1>5, <2>1
  <2>8. j # p BY <1>0, <2>6, <2>7
  <2>9. PICK d \in 1..Len(R) : R[d] = e /\ Up(p, d) = j BY <2>6, <2>8 DEF IsCut
  <2>10. m < d BY <2>1, <2>6, <2>9 DEF IsCut
  <2>11. d # k BY <2>3, <2>6, <2>9
  <2> QED BY <2>9, <2>10, <2>11
<1>6. Nested(M, B)
  <2> SUFFICES ASSUME NEW i \in 1..Len(M), NEW m \in 1..Len(M), NEW k \in 1..Len(M),
                      i < m, m < k, M[i] = M[k], M[i] # M[m], M[i] \in B, M[m] \in B
               PROVE  \E j \in 1..Len(M) : m < j /\ j # k /\ M[j] = M[i]
    BY DEF Nested
  <2>1. m # 1 /\ k # 1 BY <1>0
  <2>2. PICK b \in 1..Len(R) : b = m - 1 /\ R[b] = M[m] BY <2>1 DEF IsPush
  <2>3. PICK c \in 1..Len(R) : c = k - 1 /\ R[c] = M[k] BY <2>1 DEF IsPush
  <2>4. b < c BY <1>0, <2>2, <2>3
  <2>5. \E j \in 1..Len(R) : b < j /\ j # c /\ R[j] = M[i]
    <3>1. CASE i = 1
      <4>1. M[i] = e BY <1>0, <3>1
      <4>2. R[b] \in B /\ R[b] # e /\ R[c] = e BY <2>2, <2>3, <4>1
      <4>3. \E j \in 1..Len(R) : b < j /\ j # c /\ R[j] = e BY <1>5, <2>4, <4>2
      <4> QED BY <4>1, <4>3
    <3>2. CASE i # 1
      <4>1. PICK f \in 1..Len(R) : f = i - 1 /\ R[f] = M[i] BY <3>2 DEF IsPush
      <4>2. f < b BY <1>0, <2>2, <4>1
      <4>3. R[f] = R[c] /\ R[f] # R[b] /\ R[f] \in B /\ R[b] \in B BY <2>2, <2>3, <4>1
      <4>4. \E j \in 1..Len(R) : b < j /\ j # c /\ R[j] = R[f] BY <1>4, <2>4, <4>2, <4>3, SMTT(30)
            DEF Nested
      <4> QED BY <4>1, <4>4
    <3> QED BY <3>1, <3>2
  <2>6. PICK j \in 1..Len(R) : b < j /\ j # c /\ R[j] = M[i] BY <2>5
  <2>7. j + 1 \in 1..Len(M) /\ M[j + 1] = R[j] BY DEF IsPush
  <2>8. m < j + 1 /\ j + 1 # k
    <3>1. m \in Nat /\ k \in Nat /\ j \in Nat BY <1>0
    <3>2. m - 1 < j /\ j # k - 1 BY <2>2, <2>3, <2>6
    <3> QED BY <3>1, <3>2, SMTT(30)
  <2> QED BY <2>6, <2>7, <2>8
<1>7. Enclosed(M, B)
  <2> SUFFICES ASSUME NEW m \in 1..Len(M), M[m] \in B, \A i \in 1..Len(M) : M[i] = M[m] => i = m
               PROVE  \E i, k \in 1..Len(M) : i < m /\ m < k /\ M[i] = M[k] /\ M[i] # M[m] /\ M[i] \in B
    BY DEF Enclosed
  <2>1. z + 1 \in 1..Len(M) /\ M[z + 1] = e /\ z + 1 = Len(M) /\ 1 \in 1..Len(M) /\ z + 1 # 1
    BY <1>0, <1>3 DEF IsPush
  <2>2. M[m] # e BY <1>0, <2>1
  <2>3. m # 1 /\ m # z + 1 BY <1>0, <2>1, <2>2
  <2>4. 1 < m /\ m < z + 1 BY <1>0, <2>1, <2>3
  <2> QED BY <1>0, <2>1, <2>2, <2>4
<1> QED BY <1>6, <1>7

(* The removal of the first loop with both its copies.                      *)
LEMMA PairKeepsEnclosed ==
  ASSUME NEW L, NEW R, NEW M, NEW p, NEW q, NEW e, NEW B, IsCut(L, R, p), IsCut(R, M, q),
         L[p] = e, R[q] = e, ~Contains(M, e), e \in B,
         \A i \in 1..Len(L) : L[i] \in B => p <= i,
         \A i \in 1..Len(R) : R[i] \in B => q <= i, Enclosed(L, B)
  PROVE  Enclosed(M, B)
<1>0. Len(L) \in Nat /\ Len(R) \in Nat /\ Len(M) \in Nat /\ p \in 1..Len(L) /\ q \in 1..Len(R)
  BY DEF IsCut
<1> SUFFICES ASSUME NEW m \in 1..Len(M), M[m] \in B, \A i \in 1..Len(M) : M[i] = M[m] => i = m
             PROVE  \E i, k \in 1..Len(M) : i < m /\ m < k /\ M[i] = M[k] /\ M[i] # M[m] /\ M[i] \in B
  BY DEF Enclosed
<1>1. PICK r \in 1..Len(R) : r = Up(q, m) /\ R[r] = M[m] /\ r # q BY DEF IsCut
<1>2. PICK b \in 1..Len(L) : b = Up(p, r) /\ L[b] = R[r] /\ b # p BY DEF IsCut
<1>3. M[m] # e BY DEF Contains
<1>4. q < r
  <2>1. q <= r BY <1>1
  <2> QED BY <1>0, <1>1, <2>1
<1>5. ASSUME NEW x \in 1..Len(L), L[x] # e
      PROVE  \E y \in 1..Len(R), w \in 1..Len(M) :
               R[y] = L[x] /\ Up(p, y) = x /\ M[w] = L[x] /\ Up(q, w) = y
  <2>1. x # p BY <1>5
  <2>2. PICK y \in 1..Len(R) : R[y] = L[x] /\ Up(p, y) = x BY <2>1 DEF IsCut
  <2>3. y # q BY <1>5, <2>2
  <2>4. PICK w \in 1..Len(M) : M[w] = R[y] /\ Up(q, w) = y BY <2>3 DEF IsCut
  <2> QED BY <2>2, <2>4
<1>6. ASSUME NEW i \in 1..Len(L), L[i] = L[b] PROVE i = b
  <2>1. L[i] # e BY <1>1, <1>2, <1>3, <1>6
  <2>2. PICK y \in 1..Len(R), w \in 1..Len(M) :
           R[y] = L[i] /\ Up(p, y) = i /\ M[w] = L[i] /\ Up(q, w) = y
    BY <1>5, <2>1
  <2>3. w = m BY <1>1, <1>2, <1>6, <2>2
  <2> QED BY <1>1, <1>2, <2>2, <2>3
<1>7. PICK a, c \in 1..Len(L) : a < b /\ b < c /\ L[a] = L[c] /\ L[a] # L[b] /\ L[a] \in B
  BY <1>1, <1>2, <1>6 DEF Enclosed
<1>8. L[a] # e
  <2> SUFFICES ASSUME L[c] = e PROVE FALSE BY <1>7
  <2>1. p <= b BY <1>1, <1>2
  <2>2. c # p BY <1>0, <1>7, <2>1
  <2>3. PICK y \in 1..Len(R) : R[y] = e /\ Up(p, y) = c BY <2>2 DEF IsCut
  <2>4. r < y BY <1>2, <1>7, <2>3 DEF IsCut
  <2>5. y # q BY <1>0, <1>4, <2>4
  <2>6. Down(q, y) \in 1..Len(M) /\ M[Down(q, y)] = e BY <2>3, <2>5 DEF IsCut
  <2> QED BY <2>6 DEF Contains
<1>9. PICK y1 \in 1..Len(R), i \in 1..Len(M) :
         R[y1] = L[a] /\ Up(p, y1) = a /\ M[i] = L[a] /\ Up(q, i) = y1
  BY <1>5, <1>8
<1>10. PICK y2 \in 1..Len(R), k \in 1..Len(M) :
          R[y2] = L[c] /\ Up(p, y2) = c /\ M[k] = L[c] /\ Up(q, k) = y2
  BY <1>5, <1>7, <1>8
<1>11. y1 < r /\ r < y2 BY <1>2, <1>7, <1>9, <1>10 DEF IsCut
<1>12. i < m /\ m < k BY <1>1, <1>9, <1>10, <1>11 DEF IsCut
<1> QED BY <1>1, <1>2, <1>7, <1>9, <1>10, <1>12

(* A new loop is pushed twice.                                              *)
LEMMA PairPushKeepsLoops ==
  ASSUME NEW L, NEW R, NEW M, NEW e, NEW B, IsPush(L, R, e), IsPush(R, M, e), ~Contains(L, e),
         Nested(L, B), Enclosed(L, B)
  PROVE  Nested(M, B) /\ Enclosed(M, B)
<1>0. /\ Len(L) \in Nat /\ Len(M) \in Nat /\ Len(M) = Len(L) + 2 /\ 1 \in 1..Len(M)
      /\ M[1] = e /\ M[2] = e /\ 2 \in 1..Len(M)
  <2>1. Len(R) = Len(L) + 1 /\ R[1] = e /\ Len(L) \in Nat BY DEF IsPush
  <2>2. Len(M) = Len(R) + 1 /\ M[1] = e BY DEF IsPush
  <2>3. 1 \in 1..Len(R) BY <2>1
  <2>4. M[1 + 1] = R[1] BY <2>3 DEF IsPush
  <2> QED BY <2>1, <2>2, <2>4
<1>1. ASSUME NEW i \in 1..Len(L) PROVE i + 2 \in 1..Len(M) /\ M[i + 2] = L[i]
  <2>1. i + 1 \in 1..Len(R) /\ R[i + 1] = L[i] BY DEF IsPush
  <2>2. (i + 1) + 1 \in 1..Len(M) /\ M[(i + 1) + 1] = R[i + 1] BY <2>1 DEF IsPush
  <2>3. (i + 1) + 1 = i + 2 OBVIOUS
  <2> QED BY <2>1, <2>2, <2>3
<1>2. ASSUME NEW j \in 1..Len(M), j # 1, j # 2 PROVE j - 2 \in 1..Len(L) /\ M[j] = L[j - 2]
  <2>1. j - 2 \in 1..Len(L) /\ (j - 2) + 2 = j BY <1>0, <1>2
  <2> QED BY <1>1, <2>1
<1>3. ASSUME NEW j \in 1..Len(M), j # 1, j # 2 PROVE M[j] # e
  BY <1>2, <1>3 DEF Contains
<1>4. Nested(M, B)
  <2> SUFFICES ASSUME NEW i \in 1..Len(M), NEW m \in 1..Len(M), NEW k \in 1..Len(M),
                      i < m, m < k, M[i] = M[k], M[i] # M[m], M[i] \in B, M[m] \in B
               PROVE  \E j \in 1..Len(M) : m < j /\ j # k /\ M[j] = M[i]
    BY DEF Nested
  <2>1. k # 1 /\ k # 2 BY <1>0
  <2>2. M[k] # e BY <1>3, <2>1
  <2>3. i # 1 /\ i # 2 BY <1>0, <2>2
  <2>4. m # 1 /\ m # 2 BY <1>0, <2>3
  <2>5. PICK a \in 1..Len(L) : a = i - 2 /\ L[a] = M[i] BY <1>2, <2>3
  <2>6. PICK b \in 1..Len(L) : b = m - 2 /\ L[b] = M[m] BY <1>2, <2>4
  <2>7. PICK c \in 1..Len(L) : c = k - 2 /\ L[c] = M[k] BY <1>2, <2>1
  <2>8. a < b /\ b < c BY <1>0, <2>5, <2>6, <2>7
  <2>9. L[a] = L[c] /\ L[a] # L[b] /\ L[a] \in B /\ L[b] \in B BY <2>5, <2>6, <2>7
  <2>10. PICK j \in 1..Len(L) : b < j /\ j # c /\ L[j] = L[a] BY <2>8, <2>9 DEF Nested
  <2>11. j + 2 \in 1..Len(M) /\ M[j + 2] = L[j] BY <1>1
  <2>12. m < j + 2 /\ j + 2 # k BY <1>0, <2>6, <2>7, <2>10
  <2> QED BY <2>5, <2>10, <2>11, <2>12
<1>5. Enclosed(M, B)
  <2> SUFFICES ASSUME NEW m \in 1..Len(M), M[m] \in B, \A i \in 1..Len(M) : M[i] = M[m] => i = m
               PROVE  \E i, k \in 1..Len(M) : i < m /\ m < k /\ M[i] = M[k] /\ M[i] # M[m] /\ M[i] \in B
    BY DEF Enclosed
  <2>1. m # 1 /\ m # 2 BY <1>0
  <2>2. PICK b \in 1..Len(L) : b = m - 2 /\ L[b] = M[m] BY <1>2, <2>1
  <2>3. ASSUME NEW i \in 1..Len(L), L[i] = L[b] PROVE i = b
    <3>1. i + 2 \in 1..Len(M) /\ M[i + 2] = L[i] BY <1>1
    <3>2. i + 2 = m BY <2>2, <2>3, <3>1
    <3> QED BY <1>0, <2>2, <3>2
  <2>4. PICK a, c \in 1..Len(L) : a < b /\ b < c /\ L[a] = L[c] /\ L[a] # L[b] /\ L[a] \in B
    BY <2>2, <2>3 DEF Enclosed
  <2>5. a + 2 \in 1..Len(M) /\ M[a + 2] = L[a] BY <1>1
  <2>6. c + 2 \in 1..Len(M) /\ M[c + 2] = L[c] BY <1>1
  <2>7. a + 2 < m /\ m < c + 2 BY <1>0, <2>2, <2>4
  <2> QED BY <2>2, <2>4, <2>5, <2>6, <2>7
<1> QED BY <1>4, <1>5

----------------------------------------------------------------------------
(* How often an edge is in a list.                                          *)
Places(L, e) == {i \in 1..Len(L) : L[i] = e}
CopiesOf(L, e) == Cardinality(Places(L, e))

(* That is a number, and 0 of an edge that is not there.                    *)
LEMMA CopiesType ==
  ASSUME NEW L, NEW e, Len(L) \in Nat
  PROVE  /\ IsFiniteSet(Places(L, e)) /\ CopiesOf(L, e) \in Nat
         /\ CopiesOf(L, e) = 0 <=> ~Contains(L, e)
<1>1. IsFiniteSet(1..Len(L)) BY FS_Interval
<1>2. Places(L, e) \in SUBSET (1..Len(L)) BY DEF Places
<1>3. IsFiniteSet(Places(L, e)) BY <1>1, <1>2, FS_Subset
<1>4. Cardinality(Places(L, e)) \in Nat BY <1>3, FS_CardinalityType
<1>5. Cardinality(Places(L, e)) = 0 <=> Places(L, e) = {} BY <1>3, FS_EmptySet
<1>6. Places(L, e) = {} <=> ~Contains(L, e) BY DEF Places, Contains
<1> QED BY <1>3, <1>4, <1>5, <1>6 DEF CopiesOf

(* A cut takes one copy away, of the entry that is cut out.                 *)
LEMMA CutCopies ==
  ASSUME NEW L, NEW M, NEW p, IsCut(L, M, p), NEW x
  PROVE  CopiesOf(M, x) = IF L[p] = x THEN CopiesOf(L, x) - 1 ELSE CopiesOf(L, x)
<1>0. Len(L) \in Nat /\ Len(M) \in Nat /\ p \in 1..Len(L) BY DEF IsCut
<1> DEFINE S == Places(M, x)
           T == Places(L, x) \ {p}
           f == [i \in S |-> Up(p, i)]
<1>1. f \in [S -> T]
  <2>1. ASSUME NEW i \in S PROVE Up(p, i) \in T BY DEF IsCut, Places
  <2> QED BY <2>1
<1>2. ASSUME NEW i \in S, NEW j \in S, f[i] = f[j] PROVE i = j
  <2>1. i \in 1..Len(M) /\ j \in 1..Len(M) /\ Up(p, i) = Up(p, j) BY <1>2 DEF Places
  <2> QED BY <1>0, <2>1 DEF Up
<1>3. ASSUME NEW t \in T PROVE \E i \in S : f[i] = t
  <2>1. t \in 1..Len(L) /\ t # p /\ L[t] = x BY DEF Places
  <2>2. Down(p, t) \in 1..Len(M) /\ M[Down(p, t)] = x /\ Up(p, Down(p, t)) = t BY <2>1 DEF IsCut
  <2>3. Down(p, t) \in S BY <2>2 DEF Places
  <2> QED BY <2>2, <2>3
<1>4. IsFiniteSet(S) BY <1>0, CopiesType
<1>5. IsFiniteSet(Places(L, x)) BY <1>0, CopiesType
<1> HIDE DEF S, T, f
<1>6. f \in Injection(S, T) BY <1>1, <1>2 DEF Injection, IsInjective
<1>7. f \in Surjection(S, T) BY <1>1, <1>3 DEF Surjection
<1>8. ExistsBijection(S, T) BY <1>6, <1>7 DEF ExistsBijection, Bijection
<1>9. Cardinality(T) = Cardinality(S) BY <1>4, <1>8, FS_Bijection
<1>10. Cardinality(Places(L, x) \ {p}) =
         IF p \in Places(L, x) THEN Cardinality(Places(L, x)) - 1 ELSE Cardinality(Places(L, x))
  BY <1>5, FS_RemoveElement
<1>11. p \in Places(L, x) <=> L[p] = x BY <1>0 DEF Places
<1> QED BY <1>9, <1>10, <1>11 DEF CopiesOf, S, T

(* A push adds one.                                                         *)
LEMMA PushCopies ==
  ASSUME NEW L, NEW M, NEW e, IsPush(L, M, e), NEW x
  PROVE  CopiesOf(M, x) = IF e = x THEN CopiesOf(L, x) + 1 ELSE CopiesOf(L, x)
<1>0. Len(L) \in Nat /\ Len(M) \in Nat /\ 1 \in 1..Len(M) /\ M[1] = e BY DEF IsPush
<1> DEFINE S == Places(L, x)
           T == Places(M, x) \ {1}
           f == [i \in S |-> i + 1]
<1>1. f \in [S -> T]
  <2>1. ASSUME NEW i \in S PROVE i + 1 \in T
    <3>1. i \in 1..Len(L) /\ L[i] = x BY DEF Places
    <3>2. i + 1 \in 1..Len(M) /\ M[i + 1] = x BY <3>1 DEF IsPush
    <3>3. i + 1 # 1 BY <1>0, <3>1
    <3> QED BY <3>2, <3>3 DEF Places
  <2> QED BY <2>1
<1>2. ASSUME NEW i \in S, NEW j \in S, f[i] = f[j] PROVE i = j
  <2>1. i \in 1..Len(L) /\ j \in 1..Len(L) /\ i + 1 = j + 1 BY <1>2 DEF Places
  <2> QED BY <1>0, <2>1
<1>3. ASSUME NEW t \in T PROVE \E i \in S : f[i] = t
  <2>1. t \in 1..Len(M) /\ t # 1 /\ M[t] = x BY DEF Places
  <2>2. t - 1 \in 1..Len(L) /\ L[t - 1] = x /\ (t - 1) + 1 = t BY <1>0, <2>1 DEF IsPush
  <2>3. t - 1 \in S BY <2>2 DEF Places
  <2> QED BY <2>2, <2>3
<1>4. IsFiniteSet(S) BY <1>0, CopiesType
<1>5. IsFiniteSet(Places(M, x)) /\ Cardinality(Places(M, x)) \in Nat BY <1>0, CopiesType DEF CopiesOf
<1> HIDE DEF S, T, f
<1>6. f \in Injection(S, T) BY <1>1, <1>2 DEF Injection, IsInjective
<1>7. f \in Surjection(S, T) BY <1>1, <1>3 DEF Surjection
<1>8. ExistsBijection(S, T) BY <1>6, <1>7 DEF ExistsBijection, Bijection
<1>9. Cardinality(T) = Cardinality(S) BY <1>4, <1>8, FS_Bijection
<1>10. Cardinality(Places(M, x) \ {1}) =
         IF 1 \in Places(M, x) THEN Cardinality(Places(M, x)) - 1 ELSE Cardinality(Places(M, x))
  BY <1>5, FS_RemoveElement
<1>11. 1 \in Places(M, x) <=> e = x BY <1>0 DEF Places
<1> QED BY <1>5, <1>9, <1>10, <1>11 DEF CopiesOf, S, T

(* One copy is in one place; two places hold two copies, and a third place  *)
(* a third.                                                                 *)
LEMMA CopiesAre ==
  ASSUME NEW L, NEW e, Len(L) \in Nat
  PROVE  /\ CopiesOf(L, e) = 1 => \A i, j \in 1..Len(L) : L[i] = e /\ L[j] = e => i = j
         /\ \A i, j \in 1..Len(L) : L[i] = e /\ L[j] = e /\ i # j => CopiesOf(L, e) >= 2
         /\ \A i, j, k \in 1..Len(L) :
              L[i] = e /\ L[j] = e /\ L[k] = e /\ i # j /\ j # k /\ i # k => CopiesOf(L, e) >= 3
<1>0. IsFiniteSet(Places(L, e)) /\ Cardinality(Places(L, e)) \in Nat BY CopiesType DEF CopiesOf
<1>1. ASSUME NEW i \in 1..Len(L), NEW j \in 1..Len(L), L[i] = e, L[j] = e, i # j
      PROVE  CopiesOf(L, e) >= 2 /\ IsFiniteSet({i, j}) /\ Cardinality({i, j}) = 2
  <2>1. IsFiniteSet({i}) /\ Cardinality({i}) = 1 BY FS_Singleton
  <2>a. /\ IsFiniteSet({i} \union {j})
        /\ Cardinality({i} \union {j}) = IF j \in {i} THEN Cardinality({i}) ELSE Cardinality({i}) + 1
    BY <2>1, FS_AddElement
  <2>b. j \notin {i} BY <1>1
  <2>c. Cardinality({i} \union {j}) = Cardinality({i}) + 1 BY <2>a, <2>b, Zenon
  <2>d. Cardinality({i} \union {j}) = 1 + 1 BY <2>1, <2>c, Zenon
  <2>e. 1 + 1 = 2 OBVIOUS
  <2>2. IsFiniteSet({i} \union {j}) /\ Cardinality({i} \union {j}) = 2 BY <2>a, <2>d, <2>e, Zenon
  <2>3. {i} \union {j} = {i, j} OBVIOUS
  <2>4. IsFiniteSet({i, j}) /\ Cardinality({i, j}) = 2 BY <2>2, <2>3
  <2>5. {i, j} \in SUBSET Places(L, e) BY <1>1 DEF Places
  <2>6. Cardinality({i, j}) <= Cardinality(Places(L, e)) BY <1>0, <2>5, FS_Subset
  <2> QED BY <1>0, <2>4, <2>6 DEF CopiesOf
<1>2. ASSUME NEW i \in 1..Len(L), NEW j \in 1..Len(L), NEW k \in 1..Len(L),
             L[i] = e, L[j] = e, L[k] = e, i # j, j # k, i # k
      PROVE  CopiesOf(L, e) >= 3
  <2>1. IsFiniteSet({i, j}) /\ Cardinality({i, j}) = 2 BY <1>1, <1>2
  <2>a. Cardinality({i, j} \union {k}) =
          IF k \in {i, j} THEN Cardinality({i, j}) ELSE Cardinality({i, j}) + 1
    BY <2>1, FS_AddElement
  <2>b. k \notin {i, j} BY <1>2
  <2>c. Cardinality({i, j} \union {k}) = Cardinality({i, j}) + 1 BY <2>a, <2>b, Zenon
  <2>2. Cardinality({i, j} \union {k}) = 2 + 1 BY <2>1, <2>c, Zenon
  <2>3. {i, j} \union {k} \in SUBSET Places(L, e) BY <1>2 DEF Places
  <2>4. Cardinality({i, j} \union {k}) <= Cardinality(Places(L, e)) BY <1>0, <2>3, FS_Subset
  <2>5. 2 + 1 <= Cardinality(Places(L, e)) BY <2>2, <2>4, Zenon
  <2> QED BY <1>0, <2>5 DEF CopiesOf
<1>3. CopiesOf(L, e) = 1 => \A i, j \in 1..Len(L) : L[i] = e /\ L[j] = e => i = j BY <1>1
<1> QED BY <1>1, <1>2, <1>3

----------------------------------------------------------------------------
(* The graph the loops work on.                                             *)
GraphType == [list : [Nodes -> Seq(Edges)], count : [Nodes -> Int],
              freed : SUBSET (Edges \union Nodes), code : {"success", "failure", "undefined"}]

CutAt(list, n, p)   == [list EXCEPT ![n] = RemoveAt(@, p)]
PushAt(list, n, e)  == [list EXCEPT ![n] = <<e>> \o @]
LessOne(count, n)   == [count EXCEPT ![n] = @ - 1]
MoreOne(count, n)   == [count EXCEPT ![n] = @ + 1]

(* p is the place of the first entry of L that e compares equal to.         *)
FirstMatch(L, e, p) ==
  /\ p \in 1..Len(L) /\ edge_compare(e, L[p])
  /\ \A i \in 1..Len(L) : edge_compare(e, L[i]) => p <= i

(* graph_remove_edge has found the edge e at the place o of the list of n1, *)
(* and cuts out the entry at p.                                             *)
FoundEdge(L, F, n1, n2, o, e, p) ==
  /\ o \in 1..Len(L) /\ e \in Edges /\ e = L[o]
  /\ \/ o = Len(L) /\ \A i \in 1..Len(L) : ~Connects(L[i], n1, n2)
     \/ Connects(e, n1, n2) /\ \A i \in 1..Len(L) : Connects(L[i], n1, n2) => o <= i
  /\ \A i \in 1..o : L[i] \notin F
  /\ FirstMatch(L, e, p) /\ p <= o

(* The three ways it can end with that edge: the edge is directed and       *)
(* freed; it is not in the list of n2 and is pushed back; or it is cut out  *)
(* there too and freed.                                                     *)
EndsDirected(g, r, n1, e, p) ==
  /\ edge[e].is_directed
  /\ r.list = CutAt(g.list, n1, p) /\ r.count = LessOne(g.count, n1)
  /\ r.freed = g.freed \union {e} /\ r.code = g.code

EndsRolledBack(g, r, n1, n2, e, p) ==
  /\ ~edge[e].is_directed
  /\ \A i \in 1..Len(CutAt(g.list, n1, p)[n2]) : ~edge_compare(e, CutAt(g.list, n1, p)[n2][i])
  /\ r.list = PushAt(CutAt(g.list, n1, p), n1, e)
  /\ r.count = MoreOne(LessOne(g.count, n1), n1)
  /\ r.freed = g.freed /\ r.code = "failure"

EndsRemoved(g, r, n1, n2, e, p, q) ==
  /\ ~edge[e].is_directed
  /\ FirstMatch(CutAt(g.list, n1, p)[n2], e, q)
  /\ \A i \in 1..q : CutAt(g.list, n1, p)[n2][i] \notin g.freed
  /\ r.list = CutAt(CutAt(g.list, n1, p), n2, q)
  /\ r.count = LessOne(LessOne(g.count, n1), n2)
  /\ r.freed = g.freed \union {e} /\ r.code = g.code

(* What the parts of the removal do to the record.                          *)
LEMMA RemoveDataIs ==
  ASSUME NEW g \in GraphType, NEW n \in Nodes, NEW e \in Edges, find_node(g, n, e) \in 1..Len(g.list[n])
  PROVE  /\ remove_data(g, n, e) \in GraphType
         /\ remove_data(g, n, e).list = CutAt(g.list, n, find_node(g, n, e))
         /\ remove_data(g, n, e).count = LessOne(g.count, n)
         /\ remove_data(g, n, e).freed = g.freed /\ remove_data(g, n, e).code = g.code
<1>1. PICK p \in 1..Len(g.list[n]) : p = find_node(g, n, e) OBVIOUS
<1>2. /\ g.list \in [Nodes -> Seq(Edges)] /\ g.count \in [Nodes -> Int]
      /\ g.freed \in SUBSET (Edges \union Nodes) /\ g.code \in {"success", "failure", "undefined"}
  BY DEF GraphType
<1>3. g.list[n] \in Seq(Edges) BY <1>2
<1>4. PICK R \in Seq(Edges) : R = RemoveAt(g.list[n], p) BY <1>3, CutList
<1>5. remove_data(g, n, e) = [g EXCEPT !.list = [g.list EXCEPT ![n] = R],
                                       !.count = [g.count EXCEPT ![n] = g.count[n] - 1]]
  BY <1>1, <1>4 DEF remove_data, GraphType
<1>6. /\ [g.list EXCEPT ![n] = R] \in [Nodes -> Seq(Edges)]
      /\ [g.count EXCEPT ![n] = g.count[n] - 1] \in [Nodes -> Int]
  BY <1>2
<1>7. CutAt(g.list, n, p) = [g.list EXCEPT ![n] = R] BY <1>4 DEF CutAt
<1>8. LessOne(g.count, n) = [g.count EXCEPT ![n] = g.count[n] - 1] BY DEF LessOne
<1> QED BY <1>1, <1>2, <1>5, <1>6, <1>7, <1>8 DEF GraphType

(* The same of a push.                                                      *)
LEMMA PushHeadIs ==
  ASSUME NEW g \in GraphType, NEW n \in Nodes, NEW e \in Edges
  PROVE  /\ push_head(g, n, e) \in GraphType
         /\ push_head(g, n, e).list = PushAt(g.list, n, e)
         /\ push_head(g, n, e).count = MoreOne(g.count, n)
         /\ push_head(g, n, e).freed = g.freed /\ push_head(g, n, e).code = g.code
<1>2. /\ g.list \in [Nodes -> Seq(Edges)] /\ g.count \in [Nodes -> Int]
      /\ g.freed \in SUBSET (Edges \union Nodes) /\ g.code \in {"success", "failure", "undefined"}
  BY DEF GraphType
<1>3. g.list[n] \in Seq(Edges) BY <1>2
<1>4. PICK R \in Seq(Edges) : R = <<e>> \o g.list[n] BY <1>3, PushList
<1>5. push_head(g, n, e) = [g EXCEPT !.list = [g.list EXCEPT ![n] = R],
                                     !.count = [g.count EXCEPT ![n] = g.count[n] + 1]]
  BY <1>4 DEF push_head, GraphType
<1>6. /\ [g.list EXCEPT ![n] = R] \in [Nodes -> Seq(Edges)]
      /\ [g.count EXCEPT ![n] = g.count[n] + 1] \in [Nodes -> Int]
  BY <1>2
<1>7. PushAt(g.list, n, e) = [g.list EXCEPT ![n] = R] BY <1>4 DEF PushAt
<1>8. MoreOne(g.count, n) = [g.count EXCEPT ![n] = g.count[n] + 1] BY DEF MoreOne
<1> QED BY <1>2, <1>5, <1>6, <1>7, <1>8 DEF GraphType

(* An edge compares equal to itself.                                        *)
LEMMA SelfMatch ==
  ASSUME NEW e PROVE edge_compare(e, e)
BY DEF edge_compare

(* So every end of graph_remove_edge is one of these.                       *)
LEMMA RemoveEdgeIs ==
  ASSUME NEW g \in GraphType, NEW n1 \in Nodes, NEW n2 \in Nodes
  PROVE  LET r == RemoveEdge(g, n1, n2) IN
         /\ r \in GraphType
         /\ \/ r.code = "undefined"
            \/ /\ g.list[n1] = <<>> /\ r.code = "failure"
               /\ r.list = g.list /\ r.count = g.count /\ r.freed = g.freed
            \/ \E o, e, p : /\ FoundEdge(g.list[n1], g.freed, n1, n2, o, e, p)
                            /\ \/ EndsDirected(g, r, n1, e, p)
                               \/ EndsRolledBack(g, r, n1, n2, e, p)
                               \/ \E q : EndsRemoved(g, r, n1, n2, e, p, q)
<1> DEFINE r == RemoveEdge(g, n1, n2)
           L == g.list[n1]
           k == PlaceOf(g, n1, n2)
<1>0. /\ g.list \in [Nodes -> Seq(Edges)] /\ g.count \in [Nodes -> Int]
      /\ g.freed \in SUBSET (Edges \union Nodes) /\ g.code \in {"success", "failure", "undefined"}
  BY DEF GraphType
<1>a. L \in Seq(Edges) /\ Len(L) \in Nat BY <1>0
<1>b. ASSUME NEW c \in {"success", "failure", "undefined"}, NEW h \in GraphType
      PROVE  /\ Fails(h, c) \in GraphType /\ Fails(h, c).code = c /\ Fails(h, c).list = h.list
             /\ Fails(h, c).count = h.count /\ Fails(h, c).freed = h.freed
  BY DEF Fails, GraphType
<1>1. CASE L = <<>>
  <2>1. r = Fails(g, "failure") BY <1>1 DEF RemoveEdge
  <2> QED BY <1>1, <1>b, <2>1
<1>2. CASE L # <<>> /\ MeetsFreed(g, n1, k)
  <2>1. r = Fails(g, "undefined") BY <1>2 DEF RemoveEdge
  <2> QED BY <1>b, <2>1
<1>3. CASE L # <<>> /\ ~MeetsFreed(g, n1, k)
  <2>1. PICK o \in 1..Len(L) : o = IF k = 0 THEN Len(L) ELSE k
    <3>1. Len(L) \in 1..Len(L) BY <1>3, <1>a
    <3> QED BY <1>a, <3>1, FindPlace
  <2>2. PICK e \in Edges : e = L[o] BY <1>a
  <2>3. graph_find_edge(g, n1, n2) = e BY <2>1, <2>2 DEF graph_find_edge, Last
  <2>4. \A i \in 1..o : L[i] \notin g.freed
    <3>1. o = (IF k = 0 THEN Len(g.list[n1]) ELSE k) BY <2>1
    <3> QED BY <1>3, <3>1 DEF MeetsFreed
  <2>5. PICK p : p = find_node(g, n1, e) OBVIOUS
  <2>6. FirstMatch(L, e, p) /\ p <= o
    <3>1. edge_compare(e, L[o]) BY <2>2, SelfMatch
    <3> QED BY <1>a, <2>5, <3>1, FindNode DEF FirstMatch
  <2>7. FoundEdge(L, g.freed, n1, n2, o, e, p)
    <3>1. \/ o = Len(L) /\ \A i \in 1..Len(L) : ~Connects(L[i], n1, n2)
          \/ Connects(e, n1, n2) /\ \A i \in 1..Len(L) : Connects(L[i], n1, n2) => o <= i
      <4>1. CASE k = 0
        <5>1. o = Len(L) BY <2>1, <4>1
        <5>2. ~(0 \in 1..Len(L)) BY <1>a
        <5> QED BY <1>a, <4>1, <5>1, <5>2, FindPlace
      <4>2. CASE k # 0
        <5>1. o = k BY <2>1, <4>2
        <5> QED BY <1>a, <2>2, <4>2, <5>1, FindPlace
      <4> QED BY <4>1, <4>2
    <3> QED BY <2>2, <2>4, <2>6, <3>1 DEF FoundEdge
  <2>8. p \in 1..Len(L) BY <2>6 DEF FirstMatch
  <2> DEFINE h == remove_data(g, n1, e)
  <2>9. /\ h \in GraphType /\ h.list = CutAt(g.list, n1, p) /\ h.count = LessOne(g.count, n1)
        /\ h.freed = g.freed /\ h.code = g.code
    BY <2>5, <2>8, RemoveDataIs
  <2>10. r = IF edge[e].is_directed THEN [h EXCEPT !.freed = @ \union {e}]
                                    ELSE RemoveSecond(h, n1, n2, e)
    BY <1>3, <2>3 DEF RemoveEdge
  <2> HIDE DEF h, r
  <2>c. ASSUME NEW f \in GraphType
        PROVE  LET t == [f EXCEPT !.freed = @ \union {e}] IN
               /\ t \in GraphType /\ t.list = f.list /\ t.count = f.count
               /\ t.freed = f.freed \union {e} /\ t.code = f.code
    BY DEF GraphType
  <2>11. CASE edge[e].is_directed
    <3>1. r = [h EXCEPT !.freed = @ \union {e}] BY <2>10, <2>11
    <3>2. r \in GraphType /\ EndsDirected(g, r, n1, e, p)
      BY <2>9, <2>11, <2>c, <3>1 DEF EndsDirected
    <3> QED BY <2>7, <3>2 DEF r
  <2>12. CASE ~edge[e].is_directed
    <3> DEFINE q == find_node(h, n2, e)
    <3>1. r = IF MeetsFreed(h, n2, q) THEN Fails(h, "undefined")
              ELSE IF q = 0 THEN Fails(push_head(h, n1, e), "failure")
              ELSE [remove_data(h, n2, e) EXCEPT !.freed = @ \union {e}]
      BY <2>10, <2>12 DEF RemoveSecond
    <3>2. h.list[n2] \in Seq(Edges) /\ Len(h.list[n2]) \in Nat BY <2>9 DEF GraphType
    <3>3. CASE MeetsFreed(h, n2, q)
      <4>1. r \in GraphType /\ r.code = "undefined" BY <1>b, <2>9, <3>1, <3>3
      <4> QED BY <4>1 DEF r
    <3>4. CASE ~MeetsFreed(h, n2, q) /\ q = 0
      <4>1. r = Fails(push_head(h, n1, e), "failure") BY <3>1, <3>4
      <4>2. /\ push_head(h, n1, e) \in GraphType
            /\ push_head(h, n1, e).list = PushAt(h.list, n1, e)
            /\ push_head(h, n1, e).count = MoreOne(h.count, n1)
            /\ push_head(h, n1, e).freed = h.freed
        BY <2>9, PushHeadIs
      <4>3. \A i \in 1..Len(h.list[n2]) : ~edge_compare(e, h.list[n2][i])
        <5>1. ~(0 \in 1..Len(h.list[n2])) BY <3>2
        <5> QED BY <3>2, <3>4, <5>1, FindNode
      <4>4. r \in GraphType /\ EndsRolledBack(g, r, n1, n2, e, p)
        BY <1>b, <2>9, <2>12, <4>1, <4>2, <4>3 DEF EndsRolledBack
      <4> QED BY <2>7, <4>4 DEF r
    <3>5. CASE ~MeetsFreed(h, n2, q) /\ q # 0
      <4>1. r = [remove_data(h, n2, e) EXCEPT !.freed = @ \union {e}] BY <3>1, <3>5
      <4>2. FirstMatch(h.list[n2], e, q) /\ q \in 1..Len(h.list[n2])
        BY <3>2, <3>5, FindNode DEF FirstMatch
      <4>3. /\ remove_data(h, n2, e) \in GraphType
            /\ remove_data(h, n2, e).list = CutAt(h.list, n2, q)
            /\ remove_data(h, n2, e).count = LessOne(h.count, n2)
            /\ remove_data(h, n2, e).freed = h.freed /\ remove_data(h, n2, e).code = h.code
        BY <2>9, <4>2, RemoveDataIs
      <4>4. \A i \in 1..q : h.list[n2][i] \notin h.freed
        BY <3>5 DEF MeetsFreed
      <4> HIDE DEF q
      <4>5. r \in GraphType /\ EndsRemoved(g, r, n1, n2, e, p, q)
        BY <2>9, <2>12, <2>c, <4>1, <4>2, <4>3, <4>4 DEF EndsRemoved
      <4> QED BY <2>7, <4>5 DEF r
    <3> QED BY <3>3, <3>4, <3>5
  <2> QED BY <2>11, <2>12
<1> QED BY <1>1, <1>2, <1>3

----------------------------------------------------------------------------
(* Of the edges E: the bidirectional ones, the ends of an edge, the pairs   *)
(* of bidirectional edges between the same nodes, and the bidirectional     *)
(* loops of a node.                                                         *)
IsBi(E, u)  == E[u] \in EdgeType /\ ~E[u].is_directed
Ends(E, u)  == {E[u].node_1, E[u].node_2}
Pairs(E)    == {t \in Edges \X Edges : IsBi(E, t[1]) /\ IsBi(E, t[2]) /\ Ends(E, t[1]) = Ends(E, t[2])}
Loops(E, d) == {u \in Edges : IsBi(E, u) /\ Ends(E, u) = {d}}

Belongs(E, u, d) ==
  E[u] \in EdgeType /\ (E[u].node_1 = d \/ (E[u].node_2 = d /\ ~E[u].is_directed))

(* Every entry is allocated and belongs in the list it is in.               *)
Placed(E, list) == \A d \in Nodes : \A i \in 1..Len(list[d]) : Belongs(E, list[d][i], d)

(* Bidirectional edges between two nodes are in the same order in the lists *)
(* of both.                                                                 *)
Ordered(E, list) ==
  \A a, b \in Nodes : a # b => \A u, v :
    /\ <<u, v>> \in Pairs(E) /\ Contains(list[a], u) /\ Contains(list[a], v)
    /\ Contains(list[b], u) /\ Contains(list[b], v)
    => (Later(list[a], u, v) <=> Later(list[b], u, v))

(* The loops in a list without freed edges do not overlap.                  *)
Clean(L, F) == \A i \in 1..Len(L) : L[i] \notin F
Tidy(E, list, F) ==
  \A d \in Nodes : Clean(list[d], F) =>
    Nested(list[d], Loops(E, d)) /\ Enclosed(list[d], Loops(E, d))

Counted(list, count) == \A d \in Nodes : count[d] = Len(list[d])

Sound(E, g) ==
  Placed(E, g.list) /\ Ordered(E, g.list) /\ Tidy(E, g.list, g.freed) /\ Counted(g.list, g.count)

(* What a bidirectional edge compares equal to, and what connects two nodes. *)
LEMMA BiMatch ==
  ASSUME NEW u, NEW x, edge[u] \in EdgeType, edge[x] \in EdgeType, ~edge[u].is_directed
  PROVE  edge_compare(u, x) <=> Ends(edge, u) = Ends(edge, x)
<1>1. PICK a, b, c, d \in Nodes :
        /\ a = edge[u].node_1 /\ b = edge[u].node_2 /\ c = edge[x].node_1 /\ d = edge[x].node_2
  BY DEF EdgeType
<1>2. edge_compare(u, x) <=> (a = c /\ b = d) \/ (a = d /\ b = c) BY <1>1 DEF edge_compare
<1>3. {a, b} = {c, d} <=> (a = c /\ b = d) \/ (a = d /\ b = c) OBVIOUS
<1> QED BY <1>1, <1>2, <1>3 DEF Ends

(* The entries of a list that connect its node with another.                *)
LEMMA BiConnects ==
  ASSUME NEW x, NEW n1 \in Nodes, NEW n2 \in Nodes, Belongs(edge, x, n1)
  PROVE  /\ ~edge[x].is_directed => (Connects(x, n1, n2) <=> Ends(edge, x) = {n1, n2})
         /\ edge[x].is_directed =>
              (Connects(x, n1, n2) <=> edge[x].node_1 = n1 /\ edge[x].node_2 = n2)
         /\ n1 \in Ends(edge, x) /\ edge[x] \in EdgeType
<1>1. PICK a, b \in Nodes : a = edge[x].node_1 /\ b = edge[x].node_2 BY DEF Belongs, EdgeType
<1>2. ~edge[x].is_directed => (Connects(x, n1, n2) <=> (a = n1 /\ b = n2) \/ (a = n2 /\ b = n1))
  BY <1>1 DEF Connects
<1>3. {a, b} = {n1, n2} <=> (a = n1 /\ b = n2) \/ (a = n2 /\ b = n1) OBVIOUS
<1>4. edge[x].is_directed => (Connects(x, n1, n2) <=> a = n1 /\ b = n2) BY <1>1 DEF Connects
<1>5. n1 \in {a, b} /\ edge[x] \in EdgeType BY <1>1 DEF Belongs
<1> QED BY <1>1, <1>2, <1>3, <1>4, <1>5 DEF Ends

(* Nothing changed is calm.                                                 *)
LEMMA CalmSame ==
  ASSUME NEW L, NEW P PROVE Calm(L, L, P)
BY DEF Calm, Contains

(* Lists that change calmly stay placed and ordered.                        *)
LEMMA CalmKeeps ==
  ASSUME NEW E, NEW l, NEW m, \A d \in Nodes : Calm(l[d], m[d], Pairs(E)), Placed(E, l), Ordered(E, l)
  PROVE  Placed(E, m) /\ Ordered(E, m)
<1>1. ASSUME NEW d \in Nodes, NEW u, Contains(m[d], u) PROVE Contains(l[d], u)
  BY <1>1 DEF Calm, Contains
<1>2. ASSUME NEW d \in Nodes, NEW i \in 1..Len(m[d]) PROVE Belongs(E, m[d][i], d)
  <2>1. Contains(l[d], m[d][i]) BY DEF Calm
  <2> QED BY <2>1 DEF Placed, Contains
<1>3. ASSUME NEW a \in Nodes, NEW b \in Nodes, a # b, NEW u, NEW v, <<u, v>> \in Pairs(E),
             Contains(m[a], u), Contains(m[a], v), Contains(m[b], u), Contains(m[b], v)
      PROVE  Later(m[a], u, v) <=> Later(m[b], u, v)
  <2>1. Later(l[a], u, v) <=> Later(m[a], u, v) BY <1>3 DEF Calm
  <2>2. Later(l[b], u, v) <=> Later(m[b], u, v) BY <1>3 DEF Calm
  <2>3. Contains(l[a], u) /\ Contains(l[a], v) /\ Contains(l[b], u) /\ Contains(l[b], v) BY <1>1, <1>3
  <2>4. Later(l[a], u, v) <=> Later(l[b], u, v) BY <1>3, <2>3 DEF Ordered
  <2> QED BY <2>1, <2>2, <2>4
<1> QED BY <1>2, <1>3 DEF Placed, Ordered

(* The first match is the first entry of its kind.                          *)
LEMMA MatchIsFirst ==
  ASSUME NEW L, NEW e, NEW p, FirstMatch(L, e, p) PROVE IsFirst(L, p)
BY DEF FirstMatch, IsFirst

(* Lists with a cut, and with a push.                                       *)
LEMMA CutAtIs ==
  ASSUME NEW l \in [Nodes -> Seq(Edges)], NEW n \in Nodes, NEW p \in 1..Len(l[n])
  PROVE  /\ CutAt(l, n, p) \in [Nodes -> Seq(Edges)] /\ IsCut(l[n], CutAt(l, n, p)[n], p)
         /\ \A d \in Nodes : d # n => CutAt(l, n, p)[d] = l[d]
<1>1. IsCut(l[n], RemoveAt(l[n], p), p) /\ RemoveAt(l[n], p) \in Seq(Edges) BY CutPlaces
<1>2. CutAt(l, n, p) = [l EXCEPT ![n] = RemoveAt(l[n], p)] BY DEF CutAt
<1> QED BY <1>1, <1>2

(* The same of a push.                                                      *)
LEMMA PushAtIs ==
  ASSUME NEW l \in [Nodes -> Seq(Edges)], NEW n \in Nodes, NEW e \in Edges
  PROVE  /\ PushAt(l, n, e) \in [Nodes -> Seq(Edges)] /\ IsPush(l[n], PushAt(l, n, e)[n], e)
         /\ \A d \in Nodes : d # n => PushAt(l, n, e)[d] = l[d]
<1>1. IsPush(l[n], <<e>> \o l[n], e) /\ <<e>> \o l[n] \in Seq(Edges) BY PushPlaces
<1>2. PushAt(l, n, e) = [l EXCEPT ![n] = <<e>> \o l[n]] BY DEF PushAt
<1> QED BY <1>1, <1>2

(* A bidirectional loop that is removed is the first loop in the list, and  *)
(* has another copy behind it.                                              *)
LEMMA LoopOnTop ==
  ASSUME NEW L, NEW F, NEW n \in Nodes, \A i \in 1..Len(L) : Belongs(edge, L[i], n),
         NEW o, NEW e, NEW p, FoundEdge(L, F, n, n, o, e, p), e \in Loops(edge, n),
         NEW R, IsCut(L, R, p), Enclosed(L, Loops(edge, n))
  PROVE  L[p] = e /\ Contains(R, e)
<1>0. /\ o \in 1..Len(L) /\ e = L[o] /\ p \in 1..Len(L) /\ p <= o /\ Len(L) \in Nat
      /\ edge_compare(e, L[p]) /\ \A i \in 1..Len(L) : edge_compare(e, L[i]) => p <= i
  BY DEF FoundEdge, FirstMatch, IsCut
<1>1. edge[e] \in EdgeType /\ ~edge[e].is_directed /\ Ends(edge, e) = {n} /\ e \in Edges
  BY DEF Loops, IsBi
<1>2. \A i \in 1..Len(L) : edge[L[i]] \in EdgeType BY DEF Belongs
<1>3. \A i \in 1..Len(L) : edge_compare(e, L[i]) <=> Ends(edge, L[i]) = {n} BY <1>1, <1>2, BiMatch
<1>4. ASSUME NEW i \in 1..Len(L), Ends(edge, L[i]) = {n} PROVE Connects(L[i], n, n)
  BY <1>4 DEF Ends, Connects
<1>5. o <= p
  <2>1. Connects(L[o], n, n) BY <1>0, <1>1, <1>4
  <2>2. \A i \in 1..Len(L) : Connects(L[i], n, n) => o <= i BY <1>0, <2>1 DEF FoundEdge
  <2> QED BY <1>0, <1>3, <1>4, <2>2
<1>6. p = o BY <1>0, <1>5
<1>7. ASSUME ~Contains(R, e) PROVE FALSE
  <2>1. ASSUME NEW i \in 1..Len(L), L[i] = L[p], i # p PROVE FALSE
    <3>1. Down(p, i) \in 1..Len(R) /\ R[Down(p, i)] = e BY <1>0, <1>6, <2>1 DEF IsCut
    <3> QED BY <1>7, <3>1 DEF Contains
  <2>2. L[p] \in Loops(edge, n) BY <1>0, <1>6
  <2>3. PICK i \in 1..Len(L) : i < p /\ L[i] \in Loops(edge, n) BY <1>0, <2>1, <2>2 DEF Enclosed
  <2>4. p <= i BY <1>0, <1>3, <2>3 DEF Loops
  <2> QED BY <1>0, <2>3, <2>4
<1> QED BY <1>0, <1>6, <1>7

(* What is left clean by a cut of an entry that is not freed was clean.     *)
LEMMA CleanBefore ==
  ASSUME NEW L, NEW M, NEW p, IsCut(L, M, p), NEW F, NEW G, F \subseteq G, L[p] \notin F, Clean(M, G)
  PROVE  Clean(L, F)
<1>1. ASSUME NEW i \in 1..Len(L), L[i] \in F PROVE FALSE
  <2>1. i # p BY <1>1
  <2>2. Down(p, i) \in 1..Len(M) /\ M[Down(p, i)] = L[i] BY <2>1 DEF IsCut
  <2> QED BY <1>1, <2>2 DEF Clean
<1> QED BY <1>1 DEF Clean

(* The removal of a directed edge.                                          *)
LEMMA DirectedKeeps ==
  ASSUME NEW g \in GraphType, NEW r \in GraphType, NEW n1 \in Nodes, NEW n2 \in Nodes,
         NEW o, NEW e, NEW p, Sound(edge, g), FoundEdge(g.list[n1], g.freed, n1, n2, o, e, p),
         EndsDirected(g, r, n1, e, p)
  PROVE  Sound(edge, r)
<1> DEFINE l == g.list
           m == r.list
<1>0. l \in [Nodes -> Seq(Edges)] /\ g.count \in [Nodes -> Int] BY DEF GraphType
<1>1. m = CutAt(l, n1, p) /\ r.freed = g.freed \union {e} BY DEF EndsDirected
<1>2. /\ o \in 1..Len(l[n1]) /\ e = l[n1][o] /\ p \in 1..Len(l[n1]) /\ p <= o
      /\ IsFirst(l[n1], p) /\ l[n1][p] \notin g.freed
  <2>1. FirstMatch(l[n1], e, p) /\ p <= o /\ o \in 1..Len(l[n1]) /\ e = l[n1][o] BY DEF FoundEdge
  <2>2. p \in 1..Len(l[n1]) BY <2>1 DEF FirstMatch
  <2>3. p \in 1..o BY <1>0, <2>1, <2>2
  <2> QED BY <2>1, <2>2, <2>3, MatchIsFirst DEF FoundEdge
<1> HIDE DEF l, m
<1>3. IsCut(l[n1], m[n1], p) /\ \A d \in Nodes : d # n1 => m[d] = l[d]
  <2> DEFINE h == CutAt(l, n1, p)
  <2>1. IsCut(l[n1], h[n1], p) /\ \A d \in Nodes : d # n1 => h[d] = l[d] BY <1>0, <1>2, CutAtIs
  <2> HIDE DEF h
  <2>2. m = h BY <1>1 DEF h
  <2> QED BY <2>1, <2>2
<1>4. \A d \in Nodes : Calm(l[d], m[d], Pairs(edge)) BY <1>2, <1>3, CutIsCalm, CalmSame
<1>5. Placed(edge, m) /\ Ordered(edge, m) BY <1>4, CalmKeeps DEF Sound, l
<1>6. ASSUME NEW d \in Nodes, Clean(m[d], r.freed)
      PROVE  Nested(m[d], Loops(edge, d)) /\ Enclosed(m[d], Loops(edge, d))
  <2>1. CASE d # n1
    <3>1. m[d] = l[d] BY <1>3, <2>1
    <3>2. Clean(l[d], g.freed) BY <1>1, <1>6, <3>1 DEF Clean
    <3>3. Nested(l[d], Loops(edge, d)) /\ Enclosed(l[d], Loops(edge, d)) BY <3>2 DEF Sound, Tidy, l
    <3> QED BY <3>1, <3>3
  <2>2. CASE d = n1
    <3>1. Clean(l[n1], g.freed) BY <1>1, <1>2, <1>3, <1>6, <2>2, CleanBefore
    <3>2. Nested(l[n1], Loops(edge, n1)) /\ Enclosed(l[n1], Loops(edge, n1))
      BY <3>1 DEF Sound, Tidy, l
    <3>3. l[n1][p] \notin Loops(edge, n1)
      <4> SUFFICES ASSUME l[n1][p] \in Loops(edge, n1) PROVE FALSE OBVIOUS
      <4>1. o # p BY <1>2 DEF EndsDirected, Loops, IsBi
      <4>2. Down(p, o) \in 1..Len(m[n1]) /\ m[n1][Down(p, o)] = e BY <1>2, <1>3, <4>1 DEF IsCut
      <4> QED BY <1>1, <1>6, <2>2, <4>2 DEF Clean
    <3> QED BY <1>2, <1>3, <2>2, <3>2, <3>3, CutKeepsNested, CutKeepsEnclosed
  <2> QED BY <2>1, <2>2
<1>7. Counted(m, r.count)
  <2>1. r.count = [g.count EXCEPT ![n1] = g.count[n1] - 1] BY DEF EndsDirected, LessOne
  <2>2. \A d \in Nodes : g.count[d] = Len(l[d]) BY DEF Sound, Counted, l
  <2>3. Len(m[n1]) = Len(l[n1]) - 1 BY <1>3 DEF IsCut
  <2> QED BY <1>0, <1>3, <2>1, <2>2, <2>3 DEF Counted
<1> QED BY <1>5, <1>6, <1>7 DEF Sound, Tidy, m

(* A removal that is rolled back.                                           *)
LEMMA RollbackKeeps ==
  ASSUME NEW g \in GraphType, NEW r \in GraphType, NEW n1 \in Nodes, NEW n2 \in Nodes,
         NEW o, NEW e, NEW p, Sound(edge, g), FoundEdge(g.list[n1], g.freed, n1, n2, o, e, p),
         EndsRolledBack(g, r, n1, n2, e, p)
  PROVE  Sound(edge, r)
<1> DEFINE l == g.list
           h == CutAt(l, n1, p)
           m == r.list
           B == Loops(edge, n1)
<1>0. l \in [Nodes -> Seq(Edges)] /\ g.count \in [Nodes -> Int] BY DEF GraphType
<1>1. m = PushAt(h, n1, e) /\ r.freed = g.freed /\ ~edge[e].is_directed BY DEF EndsRolledBack
<1>2. /\ o \in 1..Len(l[n1]) /\ e = l[n1][o] /\ p \in 1..Len(l[n1]) /\ p <= o /\ e \in Edges
      /\ IsFirst(l[n1], p) /\ l[n1][p] \notin g.freed /\ edge_compare(e, l[n1][p])
      /\ \A i \in 1..Len(l[n1]) : edge_compare(e, l[n1][i]) => p <= i
  <2>1. /\ FirstMatch(l[n1], e, p) /\ p <= o /\ o \in 1..Len(l[n1]) /\ e = l[n1][o] /\ e \in Edges
    BY DEF FoundEdge
  <2>2. p \in 1..Len(l[n1]) BY <2>1 DEF FirstMatch
  <2>3. p \in 1..o BY <1>0, <2>1, <2>2
  <2>4. l[n1][p] \notin g.freed BY <2>3 DEF FoundEdge
  <2> QED BY <2>1, <2>2, <2>4, MatchIsFirst DEF FirstMatch
<1>3. /\ h \in [Nodes -> Seq(Edges)] /\ IsCut(l[n1], h[n1], p)
      /\ \A d \in Nodes : d # n1 => h[d] = l[d]
  BY <1>0, <1>2, CutAtIs
<1>a. \A i \in 1..Len(h[n2]) : ~edge_compare(e, h[n2][i]) BY DEF EndsRolledBack
<1> HIDE DEF l, h, m
<1>4. IsPush(h[n1], m[n1], e) /\ \A d \in Nodes : d # n1 => m[d] = h[d]
  BY <1>1, <1>2, <1>3, PushAtIs, SMTT(30)
<1>5. \A i \in 1..Len(l[n1]) : Belongs(edge, l[n1][i], n1) BY DEF Sound, Placed, l
<1>6. \A i \in 1..Len(l[n1]) : edge[l[n1][i]] \in EdgeType BY <1>5 DEF Belongs
<1>7. edge[e] \in EdgeType /\ Belongs(edge, e, n1) BY <1>2, <1>5, <1>6
<1>8. \A i \in 1..Len(l[n1]) : edge_compare(e, l[n1][i]) <=> Ends(edge, e) = Ends(edge, l[n1][i])
  BY <1>1, <1>6, <1>7, BiMatch
<1>9. Calm(l[n1], m[n1], Pairs(edge))
  <2>1. ASSUME NEW i \in 1..Len(l[n1]),
               l[n1][i] = e \/ <<e, l[n1][i]>> \in Pairs(edge) \/ <<l[n1][i], e>> \in Pairs(edge)
        PROVE  p <= i
    <3>1. Ends(edge, e) = Ends(edge, l[n1][i]) BY <2>1 DEF Pairs
    <3> QED BY <1>2, <1>8, <3>1
  <2>2. Contains(l[n1], e) BY <1>2 DEF Contains
  <2> QED BY <1>2, <1>3, <1>4, <2>1, <2>2, RollbackIsCalm
<1>10. \A d \in Nodes : Calm(l[d], m[d], Pairs(edge)) BY <1>3, <1>4, <1>9, CalmSame
<1>11. Placed(edge, m) /\ Ordered(edge, m) BY <1>10, CalmKeeps DEF Sound, l
<1>12. ASSUME NEW d \in Nodes, Clean(m[d], r.freed)
       PROVE  Nested(m[d], Loops(edge, d)) /\ Enclosed(m[d], Loops(edge, d))
  <2>1. CASE d # n1
    <3>1. m[d] = l[d] BY <1>3, <1>4, <2>1
    <3> QED BY <1>1, <1>12, <3>1 DEF Sound, Tidy, l
  <2>2. CASE d = n1
    <3>1. Clean(h[n1], g.freed)
      <4>1. ASSUME NEW i \in 1..Len(h[n1]) PROVE h[n1][i] \notin g.freed
        <5>1. i + 1 \in 1..Len(m[n1]) /\ m[n1][i + 1] = h[n1][i] BY <1>4 DEF IsPush
        <5> QED BY <1>1, <1>12, <2>2, <5>1 DEF Clean
      <4> QED BY <4>1 DEF Clean
    <3>2. Clean(l[n1], g.freed) BY <1>2, <1>3, <3>1, CleanBefore
    <3>3. Nested(l[n1], B) /\ Enclosed(l[n1], B) BY <3>2 DEF Sound, Tidy, l
    <3>4. CASE e \notin B
      <4>1. l[n1][p] \notin B
        <5>1. Ends(edge, e) = Ends(edge, l[n1][p]) BY <1>2, <1>8
        <5> QED BY <1>1, <1>2, <1>7, <3>4, <5>1 DEF Loops, IsBi
      <4>2. Nested(h[n1], B) /\ Enclosed(h[n1], B)
        BY <1>2, <1>3, <3>3, <4>1, CutKeepsNested, CutKeepsEnclosed
      <4> QED BY <1>4, <2>2, <3>4, <4>2, PushKeepsLoops
    <3>5. CASE e \in B /\ n1 = n2
      <4>1. Contains(h[n1], e) BY <1>3, <1>5, <3>3, <3>5, LoopOnTop DEF l
      <4>2. PICK i \in 1..Len(h[n2]) : h[n2][i] = e BY <3>5, <4>1 DEF Contains
      <4> QED BY <1>a, <4>2, SelfMatch
    <3>6. CASE e \in B /\ n1 # n2
      <4>1. Ends(edge, e) = {n1} BY <3>6 DEF Loops
      <4>2. ~Connects(e, n1, n2)
        <5>1. {n1} # {n1, n2} BY <3>6
        <5> QED BY <1>1, <1>7, <4>1, <5>1, BiConnects
      <4>3. o = Len(l[n1]) BY <4>2 DEF FoundEdge, l
      <4>4. \A i \in 1..Len(l[n1]) : l[n1][i] \in B => p <= i BY <1>2, <1>8, <4>1 DEF Loops
      <4> QED BY <1>2, <1>3, <1>4, <2>2, <3>3, <3>6, <4>3, <4>4, RollbackKeepsLoops
    <3> QED BY <3>4, <3>5, <3>6
  <2> QED BY <2>1, <2>2
<1>13. Counted(m, r.count)
  <2>1. r.count = [[g.count EXCEPT ![n1] = g.count[n1] - 1] EXCEPT
                     ![n1] = [g.count EXCEPT ![n1] = g.count[n1] - 1][n1] + 1]
    BY DEF EndsRolledBack, LessOne, MoreOne
  <2>2. \A d \in Nodes : r.count[d] = g.count[d] BY <1>0, <2>1
  <2>3. \A d \in Nodes : g.count[d] = Len(l[d]) BY DEF Sound, Counted, l
  <2>4. Len(m[n1]) = Len(l[n1]) BY <1>3, <1>4 DEF IsCut, IsPush
  <2> QED BY <1>3, <1>4, <2>2, <2>3, <2>4 DEF Counted
<1> QED BY <1>11, <1>12, <1>13 DEF Sound, Tidy, m

(* A removal from both lists.                                               *)
LEMMA RemovedKeeps ==
  ASSUME NEW g \in GraphType, NEW r \in GraphType, NEW n1 \in Nodes, NEW n2 \in Nodes,
         NEW o, NEW e, NEW p, NEW q, Sound(edge, g),
         FoundEdge(g.list[n1], g.freed, n1, n2, o, e, p), EndsRemoved(g, r, n1, n2, e, p, q)
  PROVE  Sound(edge, r)
<1> DEFINE l == g.list
           h == CutAt(l, n1, p)
           m == r.list
<1>0. l \in [Nodes -> Seq(Edges)] /\ g.count \in [Nodes -> Int] BY DEF GraphType
<1>1. m = CutAt(h, n2, q) /\ r.freed = g.freed \union {e} /\ ~edge[e].is_directed BY DEF EndsRemoved
<1>2. /\ o \in 1..Len(l[n1]) /\ e = l[n1][o] /\ p \in 1..Len(l[n1]) /\ p <= o /\ e \in Edges
      /\ IsFirst(l[n1], p) /\ l[n1][p] \notin g.freed /\ edge_compare(e, l[n1][p])
      /\ \A i \in 1..Len(l[n1]) : edge_compare(e, l[n1][i]) => p <= i
  <2>1. /\ FirstMatch(l[n1], e, p) /\ p <= o /\ o \in 1..Len(l[n1]) /\ e = l[n1][o] /\ e \in Edges
    BY DEF FoundEdge
  <2>2. p \in 1..Len(l[n1]) BY <2>1 DEF FirstMatch
  <2>3. p \in 1..o BY <1>0, <2>1, <2>2
  <2>4. l[n1][p] \notin g.freed BY <2>3 DEF FoundEdge
  <2> QED BY <2>1, <2>2, <2>4, MatchIsFirst DEF FirstMatch
<1>3. /\ h \in [Nodes -> Seq(Edges)] /\ IsCut(l[n1], h[n1], p)
      /\ \A d \in Nodes : d # n1 => h[d] = l[d]
  BY <1>0, <1>2, CutAtIs
<1>a. /\ q \in 1..Len(h[n2]) /\ IsFirst(h[n2], q) /\ h[n2][q] \notin g.freed
      /\ edge_compare(e, h[n2][q]) /\ \A i \in 1..Len(h[n2]) : edge_compare(e, h[n2][i]) => q <= i
  <2>1. FirstMatch(h[n2], e, q) /\ \A i \in 1..q : h[n2][i] \notin g.freed BY DEF EndsRemoved
  <2> HIDE DEF h, l
  <2>2. q \in 1..Len(h[n2]) BY <2>1 DEF FirstMatch
  <2>3. q \in 1..q BY <2>2
  <2>4. h[n2][q] \notin g.freed BY <2>1, <2>3
  <2> QED BY <2>1, <2>2, <2>4, MatchIsFirst DEF FirstMatch
<1> HIDE DEF l, h, m
<1>4. IsCut(h[n2], m[n2], q) /\ \A d \in Nodes : d # n2 => m[d] = h[d]
  <2> DEFINE f == CutAt(h, n2, q)
  <2>1. IsCut(h[n2], f[n2], q) /\ \A d \in Nodes : d # n2 => f[d] = h[d] BY <1>3, <1>a, CutAtIs
  <2> HIDE DEF f
  <2>2. m = f BY <1>1 DEF f
  <2> QED BY <2>1, <2>2
<1>b. \A d \in Nodes : Calm(l[d], h[d], Pairs(edge)) BY <1>2, <1>3, CutIsCalm, CalmSame
<1>c. \A d \in Nodes : Calm(h[d], m[d], Pairs(edge)) BY <1>4, <1>a, CutIsCalm, CalmSame
<1>d. Placed(edge, h) /\ Ordered(edge, h) BY <1>b, CalmKeeps DEF Sound, l
<1>11. Placed(edge, m) /\ Ordered(edge, m) BY <1>c, <1>d, CalmKeeps
<1>5. \A i \in 1..Len(l[n1]) : Belongs(edge, l[n1][i], n1) BY DEF Sound, Placed, l
<1>6. \A i \in 1..Len(h[n2]) : Belongs(edge, h[n2][i], n2) BY <1>d DEF Placed
<1>7. Belongs(edge, e, n1) /\ Belongs(edge, l[n1][p], n1) /\ Belongs(edge, h[n2][q], n2)
  BY <1>2, <1>5, <1>6, <1>a
<1>e. edge[e] \in EdgeType /\ edge[l[n1][p]] \in EdgeType /\ edge[h[n2][q]] \in EdgeType
  BY <1>7 DEF Belongs
<1>8. Ends(edge, e) = Ends(edge, l[n1][p]) /\ Ends(edge, e) = Ends(edge, h[n2][q])
  BY <1>1, <1>2, <1>a, <1>e, BiMatch
<1>9. n1 \in Ends(edge, e) /\ n2 \in Ends(edge, e) BY <1>7, <1>8, BiConnects
<1>f. ASSUME NEW d \in Nodes, Ends(edge, e) # {d}
      PROVE  l[n1][p] \notin Loops(edge, d) /\ h[n2][q] \notin Loops(edge, d)
  BY <1>8, <1>f DEF Loops
<1>12. ASSUME NEW d \in Nodes, Clean(m[d], r.freed)
       PROVE  Nested(m[d], Loops(edge, d)) /\ Enclosed(m[d], Loops(edge, d))
  <2> DEFINE B == Loops(edge, d)
  <2>a. g.freed \subseteq r.freed BY <1>1
  <2>1. Clean(h[d], g.freed)
    <3>1. CASE d = n2 BY <1>4, <1>12, <1>a, <2>a, <3>1, CleanBefore
    <3>2. CASE d # n2
      <4>1. m[d] = h[d] BY <1>4, <3>2
      <4> QED BY <1>12, <2>a, <4>1 DEF Clean
    <3> QED BY <3>1, <3>2
  <2>2. Clean(l[d], g.freed)
    <3>1. CASE d = n1 BY <1>2, <1>3, <2>1, <3>1, CleanBefore
    <3>2. CASE d # n1
      <4>1. h[d] = l[d] BY <1>3, <3>2
      <4> QED BY <2>1, <4>1
    <3> QED BY <3>1, <3>2
  <2>3. Nested(l[d], B) /\ Enclosed(l[d], B) BY <2>2 DEF Sound, Tidy, l
  <2>4. Nested(h[d], B)
    <3>1. CASE d = n1 BY <1>2, <1>3, <2>3, <3>1, CutKeepsNested
    <3>2. CASE d # n1
      <4>1. h[d] = l[d] BY <1>3, <3>2
      <4> QED BY <2>3, <4>1
    <3> QED BY <3>1, <3>2
  <2>5. Nested(m[d], B)
    <3>1. CASE d = n2 BY <1>4, <1>a, <2>4, <3>1, CutKeepsNested
    <3>2. CASE d # n2
      <4>1. m[d] = h[d] BY <1>4, <3>2
      <4> QED BY <2>4, <4>1
    <3> QED BY <3>1, <3>2
  <2>6. CASE Ends(edge, e) # {d}
    <3>1. l[n1][p] \notin B /\ h[n2][q] \notin B BY <1>f, <2>6
    <3>2. Enclosed(h[d], B)
      <4>1. CASE d = n1 BY <1>3, <2>3, <3>1, <4>1, CutKeepsEnclosed
      <4>2. CASE d # n1
        <5>1. h[d] = l[d] BY <1>3, <4>2
        <5> QED BY <2>3, <5>1
      <4> QED BY <4>1, <4>2
    <3>3. Enclosed(m[d], B)
      <4>1. CASE d = n2 BY <1>4, <3>1, <3>2, <4>1, CutKeepsEnclosed
      <4>2. CASE d # n2
        <5>1. m[d] = h[d] BY <1>4, <4>2
        <5> QED BY <3>2, <5>1
      <4> QED BY <4>1, <4>2
    <3> QED BY <2>5, <3>3
  <2>7. CASE Ends(edge, e) = {d}
    <3>1. n1 = d /\ n2 = d BY <1>9, <2>7
    <3>2. e \in B BY <1>1, <1>2, <1>e, <2>7 DEF Loops, IsBi
    <3>3. l[d][p] = e /\ Contains(h[d], e)
      BY <1>3, <1>5, <2>3, <3>1, <3>2, LoopOnTop DEF l
    <3>4. ~Contains(m[d], e) BY <1>1, <1>12 DEF Clean, Contains
    <3>5. h[d][q] = e
      <4>1. PICK i \in 1..Len(h[d]) : h[d][i] = e BY <3>3 DEF Contains
      <4>2. ASSUME i # q PROVE FALSE
        <5>1. Down(q, i) \in 1..Len(m[d]) /\ m[d][Down(q, i)] = e BY <1>4, <3>1, <4>1, <4>2 DEF IsCut
        <5> QED BY <3>4, <5>1 DEF Contains
      <4> QED BY <4>1, <4>2
    <3>6. ASSUME NEW x, x \in B PROVE edge_compare(e, x)
      BY <1>1, <1>e, <2>7, <3>6, BiMatch DEF Loops, IsBi
    <3>7. \A i \in 1..Len(l[d]) : l[d][i] \in B => p <= i BY <1>2, <3>1, <3>6
    <3>8. \A i \in 1..Len(h[d]) : h[d][i] \in B => q <= i BY <1>a, <3>1, <3>6
    <3>9. Enclosed(m[d], B)
      BY <1>3, <1>4, <2>3, <3>1, <3>2, <3>3, <3>4, <3>5, <3>7, <3>8, PairKeepsEnclosed
    <3> QED BY <2>5, <3>9
  <2> QED BY <2>6, <2>7
<1>13. Counted(m, r.count)
  <2> DEFINE c == [g.count EXCEPT ![n1] = g.count[n1] - 1]
  <2>1. r.count = [c EXCEPT ![n2] = c[n2] - 1] BY DEF EndsRemoved, LessOne
  <2>2. \A d \in Nodes : g.count[d] = Len(l[d]) BY DEF Sound, Counted, l
  <2>3. \A d \in Nodes : c[d] = Len(h[d])
    <3>1. Len(h[n1]) = Len(l[n1]) - 1 BY <1>3 DEF IsCut
    <3> QED BY <1>0, <1>3, <2>2, <3>1
  <2>4. c \in [Nodes -> Int] BY <1>0
  <2> HIDE DEF c
  <2>5. Len(m[n2]) = Len(h[n2]) - 1 BY <1>4 DEF IsCut
  <2> QED BY <1>4, <2>1, <2>3, <2>4, <2>5 DEF Counted
<1> QED BY <1>11, <1>12, <1>13 DEF Sound, Tidy, m

(* The edges that were ever allocated.                                      *)
Allocated == {e \in Edges : edge[e] \in EdgeType}

(* So graph_remove_edge keeps the graph sound, whatever it is asked to      *)
(* remove, unless it reads a freed edge; and frees edges only.              *)
LEMMA RemoveEdgeKeeps ==
  ASSUME NEW g \in GraphType, NEW n1 \in Nodes, NEW n2 \in Nodes, Sound(edge, g)
  PROVE  LET r == RemoveEdge(g, n1, n2) IN
         /\ r \in GraphType
         /\ r.code # "undefined" => /\ Sound(edge, r) /\ g.freed \subseteq r.freed
                                    /\ r.freed \subseteq g.freed \union Allocated
<1>1. PICK r \in GraphType : r = RemoveEdge(g, n1, n2) BY RemoveEdgeIs
<1>2. \/ r.code = "undefined"
      \/ r.list = g.list /\ r.count = g.count /\ r.freed = g.freed
      \/ \E o, e, p : /\ FoundEdge(g.list[n1], g.freed, n1, n2, o, e, p)
                      /\ \/ EndsDirected(g, r, n1, e, p)
                         \/ EndsRolledBack(g, r, n1, n2, e, p)
                         \/ \E q : EndsRemoved(g, r, n1, n2, e, p, q)
  BY <1>1, RemoveEdgeIs
<1>3. ASSUME r.list = g.list, r.count = g.count, r.freed = g.freed PROVE Sound(edge, r)
  BY <1>3 DEF Sound
<1>4. r.code # "undefined" => Sound(edge, r)
  BY <1>2, <1>3, DirectedKeeps, RollbackKeeps, RemovedKeeps
<1>5. ASSUME NEW o, NEW e, NEW p, FoundEdge(g.list[n1], g.freed, n1, n2, o, e, p) PROVE e \in Allocated
  <2>1. e \in Edges /\ o \in 1..Len(g.list[n1]) /\ e = g.list[n1][o] BY <1>5 DEF FoundEdge
  <2>2. Belongs(edge, e, n1) BY <2>1 DEF Sound, Placed
  <2> QED BY <2>1, <2>2 DEF Belongs, Allocated
<1>6. r.code = "undefined" \/ r.freed = g.freed \/ \E e \in Allocated : r.freed = g.freed \union {e}
  <2>1. ASSUME NEW o, NEW e, NEW p, FoundEdge(g.list[n1], g.freed, n1, n2, o, e, p),
               \/ EndsDirected(g, r, n1, e, p)
               \/ EndsRolledBack(g, r, n1, n2, e, p)
               \/ \E q : EndsRemoved(g, r, n1, n2, e, p, q)
        PROVE  r.freed = g.freed \/ r.freed = g.freed \union {e}
    BY <2>1 DEF EndsDirected, EndsRolledBack, EndsRemoved
  <2> QED BY <1>2, <1>5, <2>1
<1>7. r.code # "undefined" => g.freed \subseteq r.freed /\ r.freed \subseteq g.freed \union Allocated
  BY <1>6
<1> QED BY <1>1, <1>4, <1>7

----------------------------------------------------------------------------
(* Lists, counters and freed edges are all that matters of a graph.         *)
LEMMA SoundAs ==
  ASSUME NEW E, NEW g, NEW h, Sound(E, g), h.list = g.list, h.count = g.count, h.freed = g.freed
  PROVE  Sound(E, h)
BY DEF Sound

(* Freeing more leaves a graph sound.                                       *)
LEMMA FreeMore ==
  ASSUME NEW E, NEW g, NEW h, Sound(E, g), h.list = g.list, h.count = g.count,
         g.freed \subseteq h.freed
  PROVE  Sound(E, h)
<1>1. ASSUME NEW d \in Nodes, Clean(g.list[d], h.freed) PROVE Clean(g.list[d], g.freed)
  BY <1>1 DEF Clean
<1>2. Tidy(E, h.list, h.freed)
  <2>1. ASSUME NEW d \in Nodes, Clean(h.list[d], h.freed)
        PROVE  Nested(h.list[d], Loops(E, d)) /\ Enclosed(h.list[d], Loops(E, d))
    <3>1. Clean(g.list[d], g.freed) BY <1>1, <2>1
    <3>2. Nested(g.list[d], Loops(E, d)) /\ Enclosed(g.list[d], Loops(E, d))
      BY <3>1 DEF Sound, Tidy
    <3> QED BY <3>2
  <2> QED BY <2>1 DEF Tidy
<1> QED BY <1>2 DEF Sound

(* An edge that is in no list can change.                                   *)
LEMMA FreshEdge ==
  ASSUME NEW E, NEW G, NEW g \in GraphType, Sound(E, g), NEW e, \A d \in Nodes : ~Contains(g.list[d], e),
         \A u \in Edges : u # e => G[u] = E[u]
  PROVE  Sound(G, g)
<1>1. ASSUME NEW d \in Nodes, NEW i \in 1..Len(g.list[d])
      PROVE  g.list[d][i] # e /\ G[g.list[d][i]] = E[g.list[d][i]]
  <2>1. g.list[d] \in Seq(Edges) BY DEF GraphType
  <2>2. g.list[d][i] \in Edges BY <2>1
  <2> QED BY <2>2 DEF Contains
<1>2. Placed(G, g.list) BY <1>1 DEF Sound, Placed, Belongs
<1>3. Ordered(G, g.list)
  <2> SUFFICES ASSUME NEW a \in Nodes, NEW b \in Nodes, a # b, NEW u, NEW v, <<u, v>> \in Pairs(G),
                      Contains(g.list[a], u), Contains(g.list[a], v),
                      Contains(g.list[b], u), Contains(g.list[b], v)
               PROVE  Later(g.list[a], u, v) <=> Later(g.list[b], u, v)
    BY DEF Ordered
  <2>1. u # e /\ v # e OBVIOUS
  <2>2. <<u, v>> \in Pairs(E) BY <2>1 DEF Pairs, IsBi, Ends
  <2> QED BY <2>2 DEF Sound, Ordered
<1>4. Tidy(G, g.list, g.freed)
  <2> SUFFICES ASSUME NEW d \in Nodes, Clean(g.list[d], g.freed)
               PROVE  Nested(g.list[d], Loops(G, d)) /\ Enclosed(g.list[d], Loops(G, d))
    BY DEF Tidy
  <2>1. Nested(g.list[d], Loops(E, d)) /\ Enclosed(g.list[d], Loops(E, d)) BY DEF Sound, Tidy
  <2>2. \A i \in 1..Len(g.list[d]) : g.list[d][i] \in Loops(G, d) <=> g.list[d][i] \in Loops(E, d)
    BY <1>1 DEF Loops, IsBi, Ends
  <2>3. Nested(g.list[d], Loops(G, d)) BY <2>1, <2>2 DEF Nested
  <2>4. Enclosed(g.list[d], Loops(G, d)) BY <2>1, <2>2 DEF Enclosed
  <2> QED BY <2>3, <2>4
<1> QED BY <1>2, <1>3, <1>4 DEF Sound

(* M is L, with the new edge e once or twice at its head or without.        *)
Headed(L, M, e) ==
  /\ \A u : Contains(M, u) /\ u # e => Contains(L, u)
  /\ \A u, v : Contains(L, u) /\ Contains(L, v) =>
       Contains(M, u) /\ (Later(L, u, v) <=> Later(M, u, v))
  /\ \A v : Contains(M, e) /\ Contains(L, v) => Later(M, e, v) /\ ~Later(M, v, e)
  /\ ~Later(M, e, e)

(* Such lists grow by a push.                                               *)
LEMMA PushHeaded ==
  ASSUME NEW L, NEW R, NEW M, NEW e, Headed(L, R, e), IsPush(R, M, e), ~Contains(L, e)
  PROVE  Headed(L, M, e)
<1>0. /\ Len(R) \in Nat /\ Len(M) \in Nat /\ M[1] = e /\ 1 \in 1..Len(M) /\ Len(M) = Len(R) + 1
  BY DEF IsPush
<1>1. ASSUME NEW u, Contains(M, u), u # e PROVE Contains(R, u)
  <2>1. PICK i \in 1..Len(M) : M[i] = u BY <1>1 DEF Contains
  <2>2. i # 1 BY <1>0, <1>1, <2>1
  <2> QED BY <2>1, <2>2 DEF IsPush, Contains
<1>2. ASSUME NEW u, Contains(R, u) PROVE Contains(M, u)
  <2>1. PICK i \in 1..Len(R) : R[i] = u BY <1>2 DEF Contains
  <2>2. i + 1 \in 1..Len(M) /\ M[i + 1] = u BY <2>1 DEF IsPush
  <2> QED BY <2>2 DEF Contains
<1>3. \A u : Contains(M, u) /\ u # e => Contains(L, u) BY <1>1 DEF Headed
<1>4. ASSUME NEW u, NEW v, Contains(L, u), Contains(L, v)
      PROVE  Contains(M, u) /\ (Later(L, u, v) <=> Later(M, u, v))
  <2>1. Contains(R, u) /\ Contains(R, v) /\ (Later(L, u, v) <=> Later(R, u, v)) BY <1>4 DEF Headed
  <2>2. Later(R, u, v) <=> Later(M, u, v) BY <2>1, PushKeepsOrder
  <2> QED BY <1>2, <2>1, <2>2
<1>5. ~Later(M, e, e) BY <1>0 DEF Later
<1>6. ASSUME NEW v, Contains(L, v) PROVE Later(M, e, v) /\ ~Later(M, v, e)
  <2>0. Contains(R, v) /\ v # e BY <1>6 DEF Headed
  <2>1. CASE Contains(R, e)
    <3>1. Later(R, e, v) /\ ~Later(R, v, e) BY <1>6, <2>1 DEF Headed
    <3> QED BY <2>0, <2>1, <3>1, PushKeepsOrder
  <2>2. CASE ~Contains(R, e)
    <3>1. ASSUME NEW i \in 1..Len(M), M[i] = e PROVE i = 1
      <4>1. ASSUME i # 1 PROVE FALSE
        <5>1. i - 1 \in 1..Len(R) /\ R[i - 1] = e BY <3>1, <4>1 DEF IsPush
        <5> QED BY <2>2, <5>1 DEF Contains
      <4> QED BY <4>1
    <3>2. PICK k \in 1..Len(M) : M[k] = v BY <1>2, <2>0 DEF Contains
    <3>3. k # 1 BY <1>0, <2>0, <3>2
    <3>4. 1 < k BY <1>0, <3>3
    <3>5. Later(M, e, v) BY <3>1, <3>2, <3>4 DEF Later
    <3>6. ~Later(M, v, e)
      <4>1. \A j \in 1..Len(M) : M[j] = e => ~(k < j) BY <1>0, <3>1, <3>4
      <4> QED BY <3>2, <4>1 DEF Later
    <3> QED BY <3>5, <3>6
  <2> QED BY <2>1, <2>2
<1> QED BY <1>3, <1>4, <1>5, <1>6 DEF Headed

(* A list is headed by an edge that it does not hold.                       *)
LEMMA SameHeaded ==
  ASSUME NEW L, NEW e, Len(L) \in Nat, ~Contains(L, e)
  PROVE  Headed(L, L, e)
<1>1. ~Later(L, e, e) BY DEF Later
<1> QED BY <1>1 DEF Headed

(* Lists headed by the same new edge stay ordered.                          *)
LEMMA HeadedKeeps ==
  ASSUME NEW E, NEW l, NEW m, NEW e, \A d \in Nodes : Headed(l[d], m[d], e), Ordered(E, l)
  PROVE  Ordered(E, m)
<1> SUFFICES ASSUME NEW a \in Nodes, NEW b \in Nodes, a # b, NEW u, NEW v, <<u, v>> \in Pairs(E),
                    Contains(m[a], u), Contains(m[a], v), Contains(m[b], u), Contains(m[b], v)
             PROVE  Later(m[a], u, v) <=> Later(m[b], u, v)
  BY DEF Ordered
<1>0. Headed(l[a], m[a], e) /\ Headed(l[b], m[b], e) OBVIOUS
<1>1. CASE u # e /\ v # e
  <2>1. Contains(l[a], u) /\ Contains(l[a], v) /\ Contains(l[b], u) /\ Contains(l[b], v)
    BY <1>0, <1>1 DEF Headed
  <2>2. Later(l[a], u, v) <=> Later(l[b], u, v) BY <2>1 DEF Ordered
  <2>3. Later(l[a], u, v) <=> Later(m[a], u, v) BY <1>0, <2>1 DEF Headed
  <2>4. Later(l[b], u, v) <=> Later(m[b], u, v) BY <1>0, <2>1 DEF Headed
  <2> QED BY <2>2, <2>3, <2>4
<1>2. CASE u = e /\ v = e BY <1>0, <1>2 DEF Headed
<1>3. CASE u = e /\ v # e
  <2>1. Contains(l[a], v) /\ Contains(l[b], v) BY <1>0, <1>3 DEF Headed
  <2>2. Later(m[a], e, v) /\ Later(m[b], e, v) BY <1>0, <1>3, <2>1 DEF Headed
  <2> QED BY <1>3, <2>2
<1>4. CASE u # e /\ v = e
  <2>1. Contains(l[a], u) /\ Contains(l[b], u) BY <1>0, <1>4 DEF Headed
  <2>2. ~Later(m[a], u, e) /\ ~Later(m[b], u, e) BY <1>0, <1>4, <2>1 DEF Headed
  <2> QED BY <1>4, <2>2
<1> QED BY <1>1, <1>2, <1>3, <1>4

(* graph_add_edge: E are the edges with the new one, which is in no list.   *)
LEMMA AddEdgeKeeps ==
  ASSUME NEW g \in GraphType, NEW E, Sound(E, g), NEW e \in Edges, NEW d1 \in Nodes, NEW d2 \in Nodes,
         NEW b \in BOOLEAN, E[e] = [node_1 |-> d1, node_2 |-> d2, is_directed |-> ~b],
         \A d \in Nodes : ~Contains(g.list[d], e)
  PROVE  LET h == WithEdge(g, e, d1, d2, b) IN
         h \in GraphType /\ Sound(E, h) /\ h.freed = g.freed
<1> DEFINE f == push_head(g, d1, e)
           k == push_head(f, d2, e)
<1>0. g.list \in [Nodes -> Seq(Edges)] /\ g.count \in [Nodes -> Int] BY DEF GraphType
<1>1. /\ f \in GraphType /\ f.list = PushAt(g.list, d1, e) /\ f.count = MoreOne(g.count, d1)
      /\ f.freed = g.freed
  BY PushHeadIs
<1>2. f.list \in [Nodes -> Seq(Edges)] /\ f.count \in [Nodes -> Int] BY <1>1 DEF GraphType
<1> HIDE DEF f
<1>3. /\ k \in GraphType /\ k.list = PushAt(f.list, d2, e) /\ k.count = MoreOne(f.count, d2)
      /\ k.freed = g.freed
  BY <1>1, PushHeadIs
<1> HIDE DEF k
<1>4. IsPush(g.list[d1], f.list[d1], e) /\ \A d \in Nodes : d # d1 => f.list[d] = g.list[d]
  <2> DEFINE x == PushAt(g.list, d1, e)
  <2>1. IsPush(g.list[d1], x[d1], e) /\ \A d \in Nodes : d # d1 => x[d] = g.list[d] BY <1>0, PushAtIs
  <2> HIDE DEF x
  <2>2. f.list = x BY <1>1 DEF x
  <2> QED BY <2>1, <2>2
<1>5. IsPush(f.list[d2], k.list[d2], e) /\ \A d \in Nodes : d # d2 => k.list[d] = f.list[d]
  <2> DEFINE x == PushAt(f.list, d2, e)
  <2>1. IsPush(f.list[d2], x[d2], e) /\ \A d \in Nodes : d # d2 => x[d] = f.list[d] BY <1>2, PushAtIs
  <2> HIDE DEF x
  <2>2. k.list = x BY <1>3 DEF x
  <2> QED BY <2>1, <2>2
<1>6. /\ E[e] \in EdgeType /\ E[e].node_1 = d1 /\ E[e].node_2 = d2 /\ E[e].is_directed = ~b
      /\ Belongs(E, e, d1)
  BY DEF EdgeType, Belongs
<1>7. \A d \in Nodes : Len(g.list[d]) \in Nat BY <1>0
<1>8. Placed(E, g.list) /\ Ordered(E, g.list) /\ Counted(g.list, g.count) BY DEF Sound
<1>a. ASSUME NEW l, NEW m, NEW d, IsPush(l[d], m[d], e), Belongs(E, e, d),
             \A i \in 1..Len(l[d]) : Belongs(E, l[d][i], d), NEW i \in 1..Len(m[d])
      PROVE  Belongs(E, m[d][i], d)
  <2>1. CASE i = 1 BY <1>a, <2>1 DEF IsPush
  <2>2. CASE i # 1 BY <1>a, <2>2 DEF IsPush
  <2> QED BY <2>1, <2>2
<1>b. Placed(E, f.list)
  <2>1. ASSUME NEW d \in Nodes, NEW i \in 1..Len(f.list[d]) PROVE Belongs(E, f.list[d][i], d)
    <3>1. CASE d # d1 BY <1>4, <1>8, <3>1 DEF Placed
    <3>2. CASE d = d1
      <4>1. \A j \in 1..Len(g.list[d1]) : Belongs(E, g.list[d1][j], d1) BY <1>8 DEF Placed
      <4> QED BY <1>4, <1>6, <1>a, <3>2, <4>1
    <3> QED BY <3>1, <3>2
  <2> QED BY <2>1 DEF Placed
<1>c. \A d \in Nodes : Headed(g.list[d], f.list[d], e)
  <2>1. \A d \in Nodes : Headed(g.list[d], g.list[d], e) BY <1>7, SameHeaded
  <2>2. Headed(g.list[d1], f.list[d1], e) BY <1>4, <2>1, PushHeaded
  <2> QED BY <1>4, <2>1, <2>2
<1>d. Counted(f.list, f.count)
  <2>1. f.count = [g.count EXCEPT ![d1] = g.count[d1] + 1] BY <1>1 DEF MoreOne
  <2>2. Len(f.list[d1]) = Len(g.list[d1]) + 1 BY <1>4 DEF IsPush
  <2>3. \A d \in Nodes : g.count[d] = Len(g.list[d]) BY <1>8 DEF Counted
  <2> QED BY <1>0, <1>4, <2>1, <2>2, <2>3 DEF Counted
<1>e. ASSUME NEW L, NEW M, IsPush(L, M, e), Clean(M, g.freed) PROVE Clean(L, g.freed)
  BY <1>e DEF IsPush, Clean
<1>9. CASE b
  <2>0. IsBi(E, e) /\ Ends(E, e) = {d1, d2} /\ Belongs(E, e, d2) BY <1>6, <1>9 DEF IsBi, Ends, Belongs
  <2>1. Placed(E, k.list)
    <3>1. ASSUME NEW d \in Nodes, NEW i \in 1..Len(k.list[d]) PROVE Belongs(E, k.list[d][i], d)
      <4>1. CASE d # d2 BY <1>5, <1>b, <4>1 DEF Placed
      <4>2. CASE d = d2
        <5>1. \A j \in 1..Len(f.list[d2]) : Belongs(E, f.list[d2][j], d2) BY <1>b DEF Placed
        <5> QED BY <1>5, <1>a, <2>0, <4>2, <5>1
      <4> QED BY <4>1, <4>2
    <3> QED BY <3>1 DEF Placed
  <2>2. \A d \in Nodes : Headed(g.list[d], k.list[d], e)
    <3>1. Headed(g.list[d2], k.list[d2], e) BY <1>5, <1>c, PushHeaded
    <3> QED BY <1>5, <1>c, <3>1
  <2>3. Ordered(E, k.list) BY <1>8, <2>2, HeadedKeeps
  <2>4. Counted(k.list, k.count)
    <3>1. k.count = [f.count EXCEPT ![d2] = f.count[d2] + 1] BY <1>3 DEF MoreOne
    <3>2. Len(k.list[d2]) = Len(f.list[d2]) + 1 BY <1>5 DEF IsPush
    <3>3. \A d \in Nodes : f.count[d] = Len(f.list[d]) BY <1>d DEF Counted
    <3> QED BY <1>2, <1>5, <3>1, <3>2, <3>3 DEF Counted
  <2>5. ASSUME NEW d \in Nodes, Clean(k.list[d], g.freed)
        PROVE  Nested(k.list[d], Loops(E, d)) /\ Enclosed(k.list[d], Loops(E, d))
    <3>1. Clean(f.list[d], g.freed)
      <4>1. CASE d = d2 BY <1>5, <1>e, <2>5, <4>1
      <4>2. CASE d # d2
        <5>1. k.list[d] = f.list[d] BY <1>5, <4>2
        <5> QED BY <2>5, <5>1
      <4> QED BY <4>1, <4>2
    <3>2. Clean(g.list[d], g.freed)
      <4>1. CASE d = d1 BY <1>4, <1>e, <3>1, <4>1
      <4>2. CASE d # d1
        <5>1. f.list[d] = g.list[d] BY <1>4, <4>2
        <5> QED BY <3>1, <5>1
      <4> QED BY <4>1, <4>2
    <3>3. Nested(g.list[d], Loops(E, d)) /\ Enclosed(g.list[d], Loops(E, d)) BY <3>2 DEF Sound, Tidy
    <3>4. CASE d = d1 /\ d = d2
      <4>1. ~Contains(g.list[d], e) OBVIOUS
      <4> QED BY <1>4, <1>5, <3>3, <3>4, <4>1, PairPushKeepsLoops
    <3>5. CASE ~(d = d1 /\ d = d2)
      <4>1. e \notin Loops(E, d)
        <5>1. {d1, d2} # {d} BY <3>5
        <5> QED BY <2>0, <5>1 DEF Loops
      <4>2. Nested(f.list[d], Loops(E, d)) /\ Enclosed(f.list[d], Loops(E, d))
        <5>1. CASE d = d1 BY <1>4, <3>3, <4>1, <5>1, PushKeepsLoops
        <5>2. CASE d # d1
          <6>1. f.list[d] = g.list[d] BY <1>4, <5>2
          <6> QED BY <3>3, <6>1
        <5> QED BY <5>1, <5>2
      <4>3. CASE d = d2 BY <1>5, <4>1, <4>2, <4>3, PushKeepsLoops
      <4>4. CASE d # d2
        <5>1. k.list[d] = f.list[d] BY <1>5, <4>4
        <5> QED BY <4>2, <5>1
      <4> QED BY <4>3, <4>4
    <3> QED BY <3>4, <3>5
  <2>6. Sound(E, k) BY <1>3, <2>1, <2>3, <2>4, <2>5 DEF Sound, Tidy
  <2>7. WithEdge(g, e, d1, d2, b) = k BY <1>9 DEF WithEdge, k, f
  <2> QED BY <1>3, <2>6, <2>7
<1>10. CASE ~b
  <2>1. Ordered(E, f.list) BY <1>8, <1>c, HeadedKeeps
  <2>2. ASSUME NEW d \in Nodes, Clean(f.list[d], g.freed)
        PROVE  Nested(f.list[d], Loops(E, d)) /\ Enclosed(f.list[d], Loops(E, d))
    <3>0. e \notin Loops(E, d) BY <1>6, <1>10 DEF Loops, IsBi
    <3>1. Clean(g.list[d], g.freed)
      <4>1. CASE d = d1 BY <1>4, <1>e, <2>2, <4>1
      <4>2. CASE d # d1
        <5>1. f.list[d] = g.list[d] BY <1>4, <4>2
        <5> QED BY <2>2, <5>1
      <4> QED BY <4>1, <4>2
    <3>2. Nested(g.list[d], Loops(E, d)) /\ Enclosed(g.list[d], Loops(E, d)) BY <3>1 DEF Sound, Tidy
    <3>3. CASE d = d1 BY <1>4, <3>0, <3>2, <3>3, PushKeepsLoops
    <3>4. CASE d # d1
      <4>1. f.list[d] = g.list[d] BY <1>4, <3>4
      <4> QED BY <3>2, <4>1
    <3> QED BY <3>3, <3>4
  <2>3. Sound(E, f) BY <1>1, <1>b, <1>d, <2>1, <2>2 DEF Sound, Tidy
  <2>4. WithEdge(g, e, d1, d2, b) = f BY <1>10 DEF WithEdge, f
  <2> QED BY <1>1, <2>3, <2>4
<1> QED BY <1>9, <1>10

----------------------------------------------------------------------------
(* The loop of remove_edges over the edges s.                               *)
RemoveStep(F, s) ==
  [i \in 0..Len(s) |-> IF i = 0 THEN Graph ELSE RemoveCollected(F[i - 1], s[i])]
RemoveLoop(s) == CHOOSE F : F = RemoveStep(F, s)

(* The graphs it passes through.                                            *)
Passed ==
  {g \in GraphType :
     \/ g.code = "undefined"
     \/ Sound(edge, g) /\ freed \subseteq g.freed /\ g.freed \subseteq freed \union Allocated}

(* One turn leads from one of these to another.                             *)
LEMMA CollectedKeeps ==
  ASSUME NEW g \in Passed, NEW e \in Edges, edge[e] \in EdgeType, node_list \subseteq Nodes
  PROVE  RemoveCollected(g, e) \in Passed
<1>0. g \in GraphType BY DEF Passed
<1>1. Fails(g, "undefined") \in GraphType /\ Fails(g, "undefined").code = "undefined"
  BY <1>0 DEF Fails, GraphType
<1>2. CASE g.code # "success" BY <1>2 DEF RemoveCollected
<1>3. CASE g.code = "success"
  <2>1. Sound(edge, g) /\ freed \subseteq g.freed /\ g.freed \subseteq freed \union Allocated
    BY <1>3 DEF Passed
  <2>2. ASSUME NEW n1 \in Nodes, NEW n2 \in Nodes PROVE RemoveEdge(g, n1, n2) \in Passed
    <3> DEFINE r == RemoveEdge(g, n1, n2)
    <3>1. /\ r \in GraphType
          /\ r.code # "undefined" => /\ Sound(edge, r) /\ g.freed \subseteq r.freed
                                     /\ r.freed \subseteq g.freed \union Allocated
      BY <1>0, <2>1, RemoveEdgeKeeps
    <3> HIDE DEF r
    <3>2. r \in Passed BY <2>1, <3>1 DEF Passed
    <3> QED BY <3>2 DEF r
  <2>3. Fails(g, "undefined") \in Passed BY <1>1 DEF Passed
  <2>4. Fails(g, "failure") \in Passed
    <3>1. PICK h : h = Fails(g, "failure") OBVIOUS
    <3>2. h \in GraphType /\ h.list = g.list /\ h.count = g.count /\ h.freed = g.freed
      BY <1>0, <3>1 DEF Fails, GraphType
    <3>3. Sound(edge, h) BY <2>1, <3>2, SoundAs
    <3>4. h \in Passed BY <2>1, <3>2, <3>3 DEF Passed
    <3> QED BY <3>1, <3>4
  <2> DEFINE m1 == FoundBy(edge[e].node_1)
             m2 == FoundBy(edge[e].node_2)
  <2>5. RemoveCollected(g, e) =
          IF {e, edge[e].node_1, edge[e].node_2} \intersect g.freed # {} THEN Fails(g, "undefined")
          ELSE IF {m1, m2} \subseteq node_list THEN RemoveEdge(g, m1, m2) ELSE Fails(g, "failure")
    BY <1>3 DEF RemoveCollected
  <2> HIDE DEF m1, m2
  <2>6. {m1, m2} \subseteq node_list => RemoveEdge(g, m1, m2) \in Passed BY <2>2
  <2> QED BY <2>3, <2>4, <2>5, <2>6
<1> QED BY <1>2, <1>3

(* So the loop does what its turns do.                                      *)
LEMMA RemoveLoopIs ==
  ASSUME Graph \in Passed, NEW s \in Seq(Edges), \A i \in 1..Len(s) : edge[s[i]] \in EdgeType,
         node_list \subseteq Nodes
  PROVE  /\ RemoveLoop(s)[0] = Graph
         /\ \A i \in 1..Len(s) : RemoveLoop(s)[i] = RemoveCollected(RemoveLoop(s)[i - 1], s[i])
         /\ \A i \in 0..Len(s) : RemoveLoop(s)[i] \in Passed
<1> DEFINE n == Len(s)
           V == Passed
           f == [i \in 1..n |-> [g \in V |-> RemoveCollected(g, s[i])]]
<1>0. n \in Nat OBVIOUS
<1>1. f \in [1..n -> [V -> V]]
  <2>1. ASSUME NEW i \in 1..n, NEW g \in V PROVE RemoveCollected(g, s[i]) \in V
    <3>1. s[i] \in Edges OBVIOUS
    <3> QED BY <3>1, CollectedKeeps
  <2> HIDE DEF V
  <2> QED BY <2>1
<1>a. ASSUME NEW i \in 1..n, NEW g \in V PROVE f[i][g] = RemoveCollected(g, s[i]) OBVIOUS
<1> HIDE DEF n, V, f
<1>2. PICK F \in [0..n -> V] : F = [i \in 0..n |-> IF i = 0 THEN Graph ELSE f[i][F[i - 1]]]
  <2>1. Graph \in V BY DEF V
  <2>2. PICK F : Iterates(F, n, V, Graph, f) BY <1>0, <1>1, <2>1, Iterated
  <2> QED BY <2>2 DEF Iterates
<1>3. \A i \in 0..n : F[i] = IF i = 0 THEN Graph ELSE RemoveCollected(F[i - 1], s[i])
  <2>1. ASSUME NEW i \in 0..n, i # 0 PROVE F[i] = RemoveCollected(F[i - 1], s[i])
    <3>1. i \in 1..n /\ i - 1 \in 0..n BY <1>0, <2>1
    <3>2. F[i - 1] \in V BY <3>1
    <3>3. F[i] = f[i][F[i - 1]] BY <1>2, <2>1
    <3> QED BY <1>a, <3>1, <3>2, <3>3
  <2>2. 0 \in 0..n BY <1>0
  <2>3. F[0] = Graph BY <1>2, <2>2
  <2> QED BY <2>1, <2>3
<1>4. F = [i \in 0..n |-> F[i]] OBVIOUS
<1>5. F = [i \in 0..n |-> IF i = 0 THEN Graph ELSE RemoveCollected(F[i - 1], s[i])] BY <1>3, <1>4
<1>6. \E H : H = RemoveStep(H, s) BY <1>5 DEF RemoveStep, n
<1> DEFINE R == RemoveLoop(s)
<1>7. R = RemoveStep(R, s) BY <1>6 DEF RemoveLoop
<1> HIDE DEF R
<1>8. R = [i \in 0..n |-> IF i = 0 THEN Graph ELSE RemoveCollected(R[i - 1], s[i])]
  BY <1>7 DEF RemoveStep, n
<1>9. R[0] = Graph
  <2>1. 0 \in 0..n BY <1>0
  <2> QED BY <1>8, <2>1
<1>10. ASSUME NEW i \in 1..n PROVE R[i] = RemoveCollected(R[i - 1], s[i])
  <2>1. i \in 0..n /\ i # 0 BY <1>0
  <2> QED BY <1>8, <2>1
<1>11. \A i \in 0..n : R[i] \in V
  <2> DEFINE P == {i \in 0..n : R[i] \in V}
  <2>1. 0 \in P BY <1>0, <1>9 DEF V
  <2>2. ASSUME NEW i \in 1..n, i - 1 \in P PROVE i \in P
    <3>1. R[i - 1] \in V BY <2>2
    <3>2. s[i] \in Edges /\ edge[s[i]] \in EdgeType BY DEF n
    <3>3. R[i] \in V BY <1>10, <3>1, <3>2, CollectedKeeps DEF V
    <3>4. i \in 0..n BY <1>0
    <3> QED BY <3>3, <3>4
  <2> HIDE DEF P
  <2>3. \A i \in 0..n : i \in P BY <1>0, <2>1, <2>2, Climb
  <2> QED BY <2>3 DEF P
<1> QED BY <1>9, <1>10, <1>11 DEF R, n, V

(* remove_edges is that loop over the edges that were collected.            *)
LEMMA RemoveEdgesIs ==
  ASSUME NEW d
  PROVE  remove_edges(d) = RemoveLoop(edge_list[d])[Len(edge_list[d])]
BY DEF remove_edges, collect_edges, RemoveLoop, RemoveStep

----------------------------------------------------------------------------
(* The states of a traversal, and what it does with one neighbour.          *)
TraversalType ==
  [todo : Seq(Nodes), visited : Seq(Nodes), acted : Seq(Nodes), memory : Nat, ok : BOOLEAN]

Visit(todo_is, s, n) ==
  IF todo_is = "stack" THEN dfs_visit_node(s, n) ELSE bfs_visit_node(s, n)

(* A visit leads from a state to one, in one of four ways.                  *)
LEMMA VisitIs ==
  ASSUME NEW s \in TraversalType, NEW n \in Nodes, NEW t
  PROVE  LET v == Visit(t, s, n) IN
         /\ v \in TraversalType /\ v.acted = s.acted
         /\ \/ ~s.ok /\ v = s
            \/ Contains(s.visited, n) /\ v = s
            \/ /\ s.ok /\ ~Contains(s.visited, n) /\ ~v.ok /\ v.visited = s.visited
               /\ (t = "stack" /\ Len(s.todo) = MAX_STACK_SIZE) \/ s.memory < 2
               /\ v.todo = s.todo \/ (s.memory = 1 /\ v.todo = Append(s.todo, n))
            \/ /\ s.ok /\ ~Contains(s.visited, n) /\ v.ok /\ s.memory >= 2
               /\ t = "stack" => Len(s.todo) # MAX_STACK_SIZE
               /\ v.todo = Append(s.todo, n) /\ v.visited = Append(s.visited, n)
               /\ v.memory = s.memory - 2
<1> DEFINE full == t = "stack" /\ Len(s.todo) = MAX_STACK_SIZE
           v == Visit(t, s, n)
<1>0. /\ s.todo \in Seq(Nodes) /\ s.visited \in Seq(Nodes) /\ s.acted \in Seq(Nodes)
      /\ s.memory \in Nat /\ s.ok \in BOOLEAN
  BY DEF TraversalType
<1>1. v = visit_node(s, n, full)
  <2>1. CASE t = "stack"
    <3>1. v = visit_node(s, n, stack_is_full(s.todo)) BY <2>1 DEF Visit, dfs_visit_node
    <3>2. stack_is_full(s.todo) = full BY <2>1 DEF stack_is_full
    <3> QED BY <3>1, <3>2
  <2>2. CASE t # "stack"
    <3>1. v = visit_node(s, n, FALSE) BY <2>2 DEF Visit, bfs_visit_node
    <3>2. full = FALSE BY <2>2
    <3> QED BY <3>1, <3>2
  <2> QED BY <2>1, <2>2
<1>2. v = IF ~s.ok \/ Contains(s.visited, n) THEN s
          ELSE IF full \/ s.memory = 0 THEN [s EXCEPT !.ok = FALSE]
          ELSE IF s.memory = 1 THEN [s EXCEPT !.todo = Append(s.todo, n), !.ok = FALSE]
          ELSE [s EXCEPT !.todo = Append(s.todo, n), !.visited = Append(s.visited, n),
                         !.memory = s.memory - 2]
  BY <1>1 DEF visit_node, stack_push, TraversalType
<1>a. ASSUME NEW L \in Seq(Nodes) PROVE Append(L, n) \in Seq(Nodes) OBVIOUS
<1>3. PICK a \in Seq(Nodes) : a = Append(s.todo, n) BY <1>0, <1>a
<1>4. PICK b \in Seq(Nodes) : b = Append(s.visited, n) BY <1>0, <1>a
<1> HIDE DEF v
<1>5. CASE ~s.ok \/ Contains(s.visited, n) BY <1>2, <1>5 DEF v
<1>6. CASE s.ok /\ ~Contains(s.visited, n) /\ (full \/ s.memory = 0)
  <2>1. v = [s EXCEPT !.ok = FALSE] BY <1>2, <1>6
  <2>2. /\ v \in TraversalType /\ v.acted = s.acted /\ ~v.ok /\ v.visited = s.visited
        /\ v.todo = s.todo
    BY <2>1 DEF TraversalType
  <2> QED BY <1>6, <2>2 DEF v
<1>7. CASE s.ok /\ ~Contains(s.visited, n) /\ ~full /\ s.memory = 1
  <2>1. v = [s EXCEPT !.todo = a, !.ok = FALSE] BY <1>2, <1>3, <1>7
  <2>2. /\ v \in TraversalType /\ v.acted = s.acted /\ ~v.ok /\ v.visited = s.visited
        /\ v.todo = a
    BY <2>1 DEF TraversalType
  <2> QED BY <1>3, <1>7, <2>2 DEF v
<1>8. CASE s.ok /\ ~Contains(s.visited, n) /\ ~full /\ s.memory # 0 /\ s.memory # 1
  <2>1. s.memory >= 2 /\ s.memory - 2 \in Nat BY <1>0, <1>8
  <2>2. v = [s EXCEPT !.todo = a, !.visited = b, !.memory = s.memory - 2]
    BY <1>2, <1>3, <1>4, <1>8
  <2>3. /\ v \in TraversalType /\ v.acted = s.acted /\ v.ok /\ v.visited = b
        /\ v.todo = a /\ v.memory = s.memory - 2
    BY <1>8, <2>1, <2>2 DEF TraversalType
  <2> QED BY <1>3, <1>4, <1>8, <2>1, <2>3 DEF v
<1> QED BY <1>0, <1>5, <1>6, <1>7, <1>8

(* The loop over the neighbours of n.                                       *)
ListsOK == edge_list \in [Nodes -> Seq(Edges)] /\ Placed(edge, edge_list)

VisitStep(todo_is, F, s, n) ==
  [i \in 0..Len(edge_list[n]) |->
     IF i = 0 THEN s
     ELSE IF todo_is = "stack" THEN dfs_visit_node(F[i - 1], Neighbours(n)[i])
     ELSE bfs_visit_node(F[i - 1], Neighbours(n)[i])]
VisitLoop(todo_is, s, n) == CHOOSE F : F = VisitStep(todo_is, F, s, n)

(* The neighbours of a node.                                                *)
LEMMA NeighboursAre ==
  ASSUME ListsOK, NEW n \in Nodes
  PROVE  /\ Len(edge_list[n]) \in Nat /\ edge_list[n] \in Seq(Edges)
         /\ \A i \in 1..Len(edge_list[n]) :
              /\ edge_list[n][i] \in Edges /\ Belongs(edge, edge_list[n][i], n)
              /\ Neighbours(n)[i] = edge[edge_list[n][i]].node_2 /\ Neighbours(n)[i] \in Nodes
<1>1. edge_list[n] \in Seq(Edges) /\ Len(edge_list[n]) \in Nat BY DEF ListsOK
<1>2. ASSUME NEW i \in 1..Len(edge_list[n])
      PROVE  /\ edge_list[n][i] \in Edges /\ Belongs(edge, edge_list[n][i], n)
             /\ Neighbours(n)[i] = edge[edge_list[n][i]].node_2 /\ Neighbours(n)[i] \in Nodes
  <2>1. edge_list[n][i] \in Edges BY <1>1
  <2>2. Belongs(edge, edge_list[n][i], n) BY DEF ListsOK, Placed
  <2>3. i \in DOMAIN edge_list[n] BY <1>1
  <2>4. Neighbours(n)[i] = edge[edge_list[n][i]].node_2 BY <2>3 DEF Neighbours
  <2>5. edge[edge_list[n][i]].node_2 \in Nodes BY <2>2 DEF Belongs, EdgeType
  <2> QED BY <2>1, <2>2, <2>4, <2>5
<1> QED BY <1>1, <1>2

(* It does what its turns do.                                               *)
LEMMA VisitLoopIs ==
  ASSUME ListsOK, NEW n \in Nodes, NEW s \in TraversalType, NEW t
  PROVE  LET F == VisitLoop(t, s, n) IN
         /\ F[0] = s /\ \A i \in 0..Len(edge_list[n]) : F[i] \in TraversalType
         /\ \A i \in 1..Len(edge_list[n]) : F[i] = Visit(t, F[i - 1], Neighbours(n)[i])
<1> DEFINE m == Len(edge_list[n])
           V == TraversalType
           nb == Neighbours(n)
           f == [i \in 1..m |-> [w \in V |-> Visit(t, w, nb[i])]]
<1>0. m \in Nat /\ \A i \in 1..m : nb[i] \in Nodes BY NeighboursAre
<1>1. ASSUME NEW i \in 1..m, NEW w \in V PROVE Visit(t, w, nb[i]) \in V BY <1>0, VisitIs
<1> HIDE DEF m, V, nb
<1>2. f \in [1..m -> [V -> V]] BY <1>1
<1>a. ASSUME NEW i \in 1..m, NEW w \in V PROVE f[i][w] = Visit(t, w, nb[i]) OBVIOUS
<1> HIDE DEF f
<1>3. PICK F : Iterates(F, m, V, s, f)
  <2>1. s \in V BY DEF V
  <2> QED BY <1>0, <1>2, <2>1, Iterated
<1>4. F \in [0..m -> V] /\ F = [i \in 0..m |-> IF i = 0 THEN s ELSE f[i][F[i - 1]]]
  BY <1>3 DEF Iterates
<1>5. \A i \in 0..m : F[i] = IF i = 0 THEN s ELSE Visit(t, F[i - 1], nb[i])
  <2>1. ASSUME NEW i \in 0..m, i # 0 PROVE F[i] = Visit(t, F[i - 1], nb[i])
    <3>1. i \in 1..m /\ i - 1 \in 0..m BY <1>0, <2>1
    <3>2. F[i - 1] \in V BY <1>4, <3>1
    <3>3. F[i] = f[i][F[i - 1]] BY <1>4, <2>1
    <3> QED BY <1>a, <3>1, <3>2, <3>3
  <2>2. 0 \in 0..m BY <1>0
  <2>3. F[0] = s BY <1>4, <2>2
  <2> QED BY <2>1, <2>3
<1>6. F = [i \in 0..m |-> F[i]] BY <1>4
<1>7. F = [i \in 0..m |-> IF i = 0 THEN s ELSE Visit(t, F[i - 1], nb[i])] BY <1>5, <1>6
<1>8. \E H : H = VisitStep(t, H, s, n) BY <1>7 DEF VisitStep, Visit, m, nb
<1> DEFINE R == VisitLoop(t, s, n)
<1>9. R = VisitStep(t, R, s, n) BY <1>8 DEF VisitLoop
<1> HIDE DEF R
<1>10. R = [i \in 0..m |-> IF i = 0 THEN s ELSE Visit(t, R[i - 1], nb[i])]
  BY <1>9 DEF VisitStep, Visit, m, nb
<1>11. R[0] = s
  <2>1. 0 \in 0..m BY <1>0
  <2> QED BY <1>10, <2>1
<1>12. ASSUME NEW i \in 1..m PROVE R[i] = Visit(t, R[i - 1], nb[i])
  <2>1. i \in 0..m /\ i # 0 BY <1>0
  <2> QED BY <1>10, <2>1
<1>13. \A i \in 0..m : R[i] \in V
  <2> DEFINE P == {i \in 0..m : R[i] \in V}
  <2>1. 0 \in P BY <1>0, <1>11 DEF V
  <2>2. ASSUME NEW i \in 1..m, i - 1 \in P PROVE i \in P
    <3>1. R[i - 1] \in V BY <2>2
    <3>2. R[i] \in V BY <1>1, <1>12, <3>1
    <3>3. i \in 0..m BY <1>0
    <3> QED BY <3>2, <3>3
  <2> HIDE DEF P
  <2>3. \A i \in 0..m : i \in P BY <1>0, <2>1, <2>2, Climb
  <2> QED BY <2>3 DEF P
<1> QED BY <1>11, <1>12, <1>13 DEF R, m, V, nb

(* A turn takes one node out of todo, acts on it and visits its neighbours. *)
Takes(t, L, n, R) ==
  /\ n \in Nodes /\ R \in Seq(Nodes) /\ Len(R) = Len(L) - 1
  /\ \/ n = L[Len(L)] /\ \A i \in 1..Len(R) : R[i] = L[i]
     \/ n = L[1] /\ t # "stack" /\ \A i \in 1..Len(R) : R[i] = L[i + 1]

(* What a turn is.                                                          *)
LEMMA TurnIs ==
  ASSUME ListsOK, NEW s \in TraversalType, NEW t
  PROVE  \/ (~s.ok \/ Len(s.todo) = 0) /\ Turn(t, s) = s
         \/ /\ s.ok /\ Len(s.todo) # 0
            /\ \E n, R : /\ Takes(t, s.todo, n, R) /\ Act(s, n, R) \in TraversalType
                         /\ Turn(t, s) = VisitLoop(t, Act(s, n, R), n)[Len(edge_list[n])]
<1>0. /\ s.todo \in Seq(Nodes) /\ s.visited \in Seq(Nodes) /\ s.acted \in Seq(Nodes)
      /\ s.memory \in Nat /\ s.ok \in BOOLEAN /\ Len(s.todo) \in Nat
  BY DEF TraversalType
<1>a. ASSUME NEW n \in Nodes, NEW R \in Seq(Nodes) PROVE Act(s, n, R) \in TraversalType
  <2>1. PICK a \in Seq(Nodes) : a = s.acted BY <1>0
  <2>2. Append(a, n) \in Seq(Nodes) OBVIOUS
  <2>3. PICK b \in Seq(Nodes) : b = Append(s.acted, n) BY <2>1, <2>2
  <2>4. Act(s, n, R) = [s EXCEPT !.todo = R, !.acted = b] BY <2>3 DEF Act, TraversalType
  <2> QED BY <2>4 DEF TraversalType
<1>1. CASE ~s.ok \/ Len(s.todo) = 0
  BY <1>1 DEF Turn, stack_is_empty
<1>2. CASE s.ok /\ Len(s.todo) # 0 /\ t = "stack"
  <2>1. PICK n : n = s.todo[Len(s.todo)] OBVIOUS
  <2>2. PICK R : R = SubSeq(s.todo, 1, Len(s.todo) - 1) OBVIOUS
  <2>3. n \in Nodes
    <3>1. Len(s.todo) \in 1..Len(s.todo) BY <1>0, <1>2
    <3> QED BY <1>0, <2>1, <3>1
  <2>4. /\ R \in Seq(Nodes) /\ Len(R) = Len(s.todo) - 1
        /\ \A i \in 1..(Len(s.todo) - 1) : R[i] = s.todo[i]
    <3>1. \A i \in 1..(Len(s.todo) - 1) : s.todo[i] \in Nodes BY <1>0
    <3>2. Len(s.todo) - 1 \in Nat BY <1>0, <1>2
    <3>3. PICK z \in Nat : z = Len(s.todo) - 1 BY <3>2
    <3>4. R = SubSeq(s.todo, 1, z) /\ \A i \in 1..z : s.todo[i] \in Nodes BY <2>2, <3>1, <3>3
    <3>5. R \in Seq(Nodes) /\ Len(R) = (IF 1 <= z THEN z - 1 + 1 ELSE 0)
          /\ \A i \in 1..(z - 1 + 1) : R[i] = s.todo[1 + i - 1]
      BY <3>4, SubSeqProperties
    <3>6. Len(R) = z BY <3>5
    <3>7. \A i \in 1..z : R[i] = s.todo[i] BY <3>5
    <3> QED BY <3>3, <3>5, <3>6, <3>7
  <2>5. Takes(t, s.todo, n, R) BY <2>1, <2>3, <2>4 DEF Takes
  <2>6. Turn(t, s) = VisitAll("stack", Act(s, n, R), n)
    BY <1>2, <2>1, <2>2 DEF Turn, dfs_turn, stack_is_empty, stack_pop_data, stack_pop, Last, Front
  <2>7. VisitAll("stack", Act(s, n, R), n) = VisitLoop(t, Act(s, n, R), n)[Len(edge_list[n])]
    BY <1>2 DEF VisitAll, VisitLoop, VisitStep
  <2> QED BY <1>2, <1>a, <2>3, <2>4, <2>5, <2>6, <2>7
<1>3. CASE s.ok /\ Len(s.todo) # 0 /\ t # "stack"
  <2>0. s.todo # <<>> BY <1>3
  <2>1. PICK n : n = Head(s.todo) OBVIOUS
  <2>2. PICK R : R = Tail(s.todo) OBVIOUS
  <2>3. n \in Nodes /\ n = s.todo[1] BY <1>0, <2>0, <2>1
  <2>4. /\ R \in Seq(Nodes) /\ Len(R) = Len(s.todo) - 1
        /\ \A i \in 1..Len(R) : R[i] = s.todo[i + 1]
    BY <1>0, <2>0, <2>2
  <2>5. Takes(t, s.todo, n, R) BY <1>3, <2>3, <2>4 DEF Takes
  <2>6. Turn(t, s) = VisitAll("queue", Act(s, n, R), n)
    BY <1>3, <2>1, <2>2 DEF Turn, bfs_turn, stack_is_empty
  <2>7. VisitAll("queue", Act(s, n, R), n) = VisitLoop(t, Act(s, n, R), n)[Len(edge_list[n])]
    <3>1. \A F : VisitStep("queue", F, Act(s, n, R), n) = VisitStep(t, F, Act(s, n, R), n)
      BY <1>3 DEF VisitStep
    <3>2. VisitLoop("queue", Act(s, n, R), n) = VisitLoop(t, Act(s, n, R), n)
      BY <3>1 DEF VisitLoop
    <3>3. VisitAll("queue", Act(s, n, R), n) = VisitLoop("queue", Act(s, n, R), n)[Len(edge_list[n])]
      BY DEF VisitAll, VisitLoop, VisitStep
    <3> QED BY <3>2, <3>3
  <2> QED BY <1>3, <1>a, <2>3, <2>4, <2>5, <2>6, <2>7
<1> QED BY <1>1, <1>2, <1>3

(* The turns of a traversal.                                                *)
TraverseStep(todo_is, F, b) ==
  [i \in 0..Cardinality(Nodes) |-> IF i = 0 THEN b ELSE Turn(todo_is, F[i - 1])]
TraverseLoop(todo_is, b) == CHOOSE F : F = TraverseStep(todo_is, F, b)

(* A turn leads from a state of a traversal to one.                         *)
LEMMA TurnType ==
  ASSUME ListsOK, NEW s \in TraversalType, NEW t
  PROVE  Turn(t, s) \in TraversalType
<1>1. CASE Turn(t, s) = s BY <1>1
<1>2. CASE \E n, R : /\ Takes(t, s.todo, n, R) /\ Act(s, n, R) \in TraversalType
                     /\ Turn(t, s) = VisitLoop(t, Act(s, n, R), n)[Len(edge_list[n])]
  <2>1. PICK n, R : /\ Takes(t, s.todo, n, R) /\ Act(s, n, R) \in TraversalType
                    /\ Turn(t, s) = VisitLoop(t, Act(s, n, R), n)[Len(edge_list[n])]
    BY <1>2
  <2>2. n \in Nodes BY <2>1 DEF Takes
  <2>3. Len(edge_list[n]) \in 0..Len(edge_list[n]) BY <2>2, NeighboursAre
  <2>4. PICK a \in TraversalType : a = Act(s, n, R) BY <2>1
  <2>5. VisitLoop(t, a, n)[Len(edge_list[n])] \in TraversalType BY <2>2, <2>3, VisitLoopIs
  <2> QED BY <2>1, <2>4, <2>5
<1> QED BY <1>1, <1>2, TurnIs

(* A traversal does what its turns do.                                      *)
LEMMA TraverseIs ==
  ASSUME ListsOK, NEW b \in TraversalType, NEW t
  PROVE  LET F == TraverseLoop(t, b) IN
         /\ Traverse(t, b) = F[Cardinality(Nodes)]
         /\ F[0] = b /\ \A i \in 0..Cardinality(Nodes) : F[i] \in TraversalType
         /\ \A i \in 1..Cardinality(Nodes) : F[i] = Turn(t, F[i - 1])
<1> DEFINE m == Cardinality(Nodes)
           V == TraversalType
           f == [i \in 1..m |-> [w \in V |-> Turn(t, w)]]
<1>0. m \in Nat BY GraphConstants, FS_CardinalityType
<1>1. ASSUME NEW w \in V PROVE Turn(t, w) \in V BY TurnType
<1> HIDE DEF m, V
<1>2. f \in [1..m -> [V -> V]] BY <1>1
<1>a. ASSUME NEW i \in 1..m, NEW w \in V PROVE f[i][w] = Turn(t, w) OBVIOUS
<1> HIDE DEF f
<1>3. PICK F : Iterates(F, m, V, b, f)
  <2>1. b \in V BY DEF V
  <2> QED BY <1>0, <1>2, <2>1, Iterated
<1>4. F \in [0..m -> V] /\ F = [i \in 0..m |-> IF i = 0 THEN b ELSE f[i][F[i - 1]]]
  BY <1>3 DEF Iterates
<1>5. \A i \in 0..m : F[i] = IF i = 0 THEN b ELSE Turn(t, F[i - 1])
  <2>1. ASSUME NEW i \in 0..m, i # 0 PROVE F[i] = Turn(t, F[i - 1])
    <3>1. i \in 1..m /\ i - 1 \in 0..m BY <1>0, <2>1
    <3>2. F[i - 1] \in V BY <1>4, <3>1
    <3>3. F[i] = f[i][F[i - 1]] BY <1>4, <2>1
    <3> QED BY <1>a, <3>1, <3>2, <3>3
  <2>2. 0 \in 0..m BY <1>0
  <2>3. F[0] = b BY <1>4, <2>2
  <2> QED BY <2>1, <2>3
<1>6. F = [i \in 0..m |-> F[i]] BY <1>4
<1>7. F = [i \in 0..m |-> IF i = 0 THEN b ELSE Turn(t, F[i - 1])] BY <1>5, <1>6
<1>8. \E H : H = TraverseStep(t, H, b) BY <1>7 DEF TraverseStep, m
<1> DEFINE R == TraverseLoop(t, b)
<1>9. R = TraverseStep(t, R, b) BY <1>8 DEF TraverseLoop
<1>b. Traverse(t, b) = R[m] BY DEF Traverse, TraverseLoop, TraverseStep, m
<1> HIDE DEF R
<1>10. R = [i \in 0..m |-> IF i = 0 THEN b ELSE Turn(t, R[i - 1])]
  BY <1>9 DEF TraverseStep, m
<1>11. R[0] = b
  <2>1. 0 \in 0..m BY <1>0
  <2> QED BY <1>10, <2>1
<1>12. ASSUME NEW i \in 1..m PROVE R[i] = Turn(t, R[i - 1])
  <2>1. i \in 0..m /\ i # 0 BY <1>0
  <2> QED BY <1>10, <2>1
<1>13. \A i \in 0..m : R[i] \in V
  <2> DEFINE P == {i \in 0..m : R[i] \in V}
  <2>1. 0 \in P BY <1>0, <1>11 DEF V
  <2>2. ASSUME NEW i \in 1..m, i - 1 \in P PROVE i \in P
    <3>1. R[i - 1] \in V BY <2>2
    <3>2. R[i] \in V BY <1>1, <1>12, <3>1
    <3>3. i \in 0..m BY <1>0
    <3> QED BY <3>2, <3>3
  <2> HIDE DEF P
  <2>3. \A i \in 0..m : i \in P BY <1>0, <2>1, <2>2, Climb
  <2> QED BY <2>3 DEF P
<1> QED BY <1>11, <1>12, <1>13, <1>b DEF R, m, V

(* How a traversal begins: with a visit of the start node.                  *)
LEMMA BeginIs ==
  ASSUME NEW memory \in Nat, NEW start \in Nodes
  PROVE  /\ Begin(memory) \in TraversalType
         /\ Begin(memory).todo = <<>> /\ Begin(memory).visited = <<>> /\ Begin(memory).acted = <<>>
         /\ Begin(memory).memory = memory /\ Begin(memory).ok
         /\ graph_dfs(start, memory) = Traverse("stack", Visit("stack", Begin(memory), start))
         /\ graph_bfs(start, memory) = Traverse("queue", Visit("queue", Begin(memory), start))
<1>1. PICK e \in Seq(Nodes) : e = <<>>
  <2>1. <<>> \in Seq(Nodes) OBVIOUS
  <2> QED BY <2>1
<1>2. Begin(memory) = [todo |-> e, visited |-> e, acted |-> e, memory |-> memory, ok |-> TRUE]
  BY <1>1 DEF Begin, stack_init
<1>3. /\ Begin(memory) \in TraversalType
      /\ Begin(memory).todo = e /\ Begin(memory).visited = e /\ Begin(memory).acted = e
      /\ Begin(memory).memory = memory /\ Begin(memory).ok
  BY <1>2 DEF TraversalType
<1>4. Visit("stack", Begin(memory), start) = dfs_visit_node(Begin(memory), start) BY DEF Visit
<1>5. Visit("queue", Begin(memory), start) = bfs_visit_node(Begin(memory), start) BY DEF Visit
<1> QED BY <1>1, <1>3, <1>4, <1>5 DEF graph_dfs, graph_bfs

(* Every traversal ends in a state of a traversal.                          *)
LEMMA TraversalsType ==
  ASSUME ListsOK, NEW memory \in Nat, NEW start \in Nodes, NEW s \in Traversals(start, memory)
  PROVE  s \in TraversalType
<1>0. Cardinality(Nodes) \in 0..Cardinality(Nodes) BY GraphConstants, FS_CardinalityType
<1>1. ASSUME NEW t PROVE Traverse(t, Visit(t, Begin(memory), start)) \in TraversalType
  <2>1. Visit(t, Begin(memory), start) \in TraversalType BY BeginIs, VisitIs
  <2>2. PICK b \in TraversalType : b = Visit(t, Begin(memory), start) BY <2>1
  <2>3. Traverse(t, b) \in TraversalType BY <1>0, TraverseIs
  <2> QED BY <2>2, <2>3
<1>2. s = graph_dfs(start, memory) \/ s = graph_bfs(start, memory) BY DEF Traversals
<1>3. \/ s = Traverse("stack", Visit("stack", Begin(memory), start))
      \/ s = Traverse("queue", Visit("queue", Begin(memory), start))
  BY <1>2, BeginIs
<1> QED BY <1>1, <1>3

----------------------------------------------------------------------------
(* The inductive invariant of the graph.                                    *)
GraphInv ==
  /\ TypeOK /\ node_count = Cardinality(node_list)
  /\ Sound(edge, Graph)
  /\ \A e \in Edges : e \in freed => edge[e] # NULL
  /\ status = "ok" => node_list \intersect freed = {}

(* The graph as a record.                                                   *)
LEMMA GraphIs ==
  ASSUME TypeOK
  PROVE  /\ Graph \in GraphType /\ Graph.list = edge_list /\ Graph.count = edge_count
         /\ Graph.freed = freed /\ Graph.code = "success"
<1>1. edge_count \in [Nodes -> Int] BY DEF TypeOK
<1> QED BY <1>1 DEF TypeOK, Graph, GraphType

(* The part of TypeOK about the data.                                       *)
NamesOK == named \in [Data -> Seq(Nodes)] /\ custom_free \in {"keeps", "frees"}

LEMMA NamesAre ==
  ASSUME GraphInv
  PROVE  NamesOK
BY DEF GraphInv, TypeOK, NamesOK

LEMMA NamesStay ==
  ASSUME GraphInv, UNCHANGED <<named, custom_free>>
  PROVE  NamesOK'
BY NamesAre DEF NamesOK

(* What GraphInv says of the record.                                        *)
LEMMA InvIs ==
  ASSUME GraphInv
  PROVE  /\ Graph \in GraphType /\ Sound(edge, Graph) /\ Graph \in Passed /\ ListsOK
         /\ \A d \in Nodes : \A i \in 1..Len(edge_list[d]) :
              edge_list[d][i] \in Edges /\ edge[edge_list[d][i]] \in EdgeType
<1>1. TypeOK /\ Sound(edge, Graph) BY DEF GraphInv
<1>2. Graph \in GraphType /\ Graph.list = edge_list /\ Graph.freed = freed BY <1>1, GraphIs
<1>3. Graph \in Passed BY <1>1, <1>2 DEF Passed
<1>4. ListsOK BY <1>1, <1>2 DEF ListsOK, TypeOK, Sound
<1>5. ASSUME NEW d \in Nodes, NEW i \in 1..Len(edge_list[d])
      PROVE  edge_list[d][i] \in Edges /\ edge[edge_list[d][i]] \in EdgeType
  BY <1>4, NeighboursAre DEF Belongs
<1> QED BY <1>1, <1>2, <1>3, <1>4, <1>5

(* An operation that leaves the graph h behind.                             *)
LEMMA PutKeeps ==
  ASSUME NEW h \in GraphType, Put(h), Sound(edge', h)
  PROVE  /\ Sound(edge, Graph)' /\ edge_list' \in [Nodes -> Seq(Edges)]
         /\ edge_count' \in [Nodes -> Nat] /\ freed' \in SUBSET (Edges \union Nodes)
<1>1. edge_list' = h.list /\ edge_count' = h.count /\ freed' = h.freed BY DEF Put
<1>2. /\ h.list \in [Nodes -> Seq(Edges)] /\ h.count \in [Nodes -> Int]
      /\ h.freed \in SUBSET (Edges \union Nodes)
  BY DEF GraphType
<1>3. \A d \in Nodes : h.count[d] = Len(h.list[d]) BY DEF Sound, Counted
<1>4. \A d \in Nodes : h.count[d] \in Nat
  <2>1. ASSUME NEW d \in Nodes PROVE h.count[d] \in Nat
    <3>1. h.list[d] \in Seq(Edges) BY <1>2
    <3>2. Len(h.list[d]) \in Nat BY <3>1
    <3> QED BY <1>3, <3>2
  <2> QED BY <2>1
<1>5. h.count \in [Nodes -> Nat] BY <1>2, <1>4
<1>6. /\ Graph'.list = h.list /\ Graph'.count = h.count /\ Graph'.freed = h.freed
  BY <1>1 DEF Graph
<1>7. Sound(edge', Graph') BY <1>6, SoundAs
<1> QED BY <1>1, <1>2, <1>5, <1>7

(* cleanup_node empties lists.                                              *)
LEMMA CleanupKeeps ==
  ASSUME NEW g \in GraphType, NEW E, Sound(E, g), NEW ds, ds \subseteq Nodes
  PROVE  LET h == cleanup_node(g, ds) IN
         /\ h \in GraphType /\ Sound(E, h) /\ h.freed = g.freed \union ds
         /\ \A d \in Nodes : h.list[d] = IF d \in ds THEN <<>> ELSE g.list[d]
<1>0. /\ g.list \in [Nodes -> Seq(Edges)] /\ g.count \in [Nodes -> Int]
      /\ g.freed \in SUBSET (Edges \union Nodes)
  BY DEF GraphType
<1>1. PICK z \in Seq(Edges) : z = <<>>
  <2>1. <<>> \in Seq(Edges) OBVIOUS
  <2> QED BY <2>1
<1>2. PICK l : l = [d \in Nodes |-> IF d \in ds THEN z ELSE g.list[d]] OBVIOUS
<1>3. PICK c : c = [d \in Nodes |-> IF d \in ds THEN 0 ELSE g.count[d]] OBVIOUS
<1>4. l \in [Nodes -> Seq(Edges)] /\ c \in [Nodes -> Int] BY <1>0, <1>2, <1>3
<1> DEFINE h == cleanup_node(g, ds)
<1>5. h = [g EXCEPT !.list = l, !.count = c, !.freed = g.freed \union ds]
  BY <1>1, <1>2, <1>3 DEF cleanup_node, GraphType
<1>6. h \in GraphType /\ h.list = l /\ h.count = c /\ h.freed = g.freed \union ds
  BY <1>0, <1>4, <1>5 DEF GraphType
<1> HIDE DEF h
<1>7. Len(z) = 0 /\ \A i \in 1..Len(z) : FALSE BY <1>1
<1>8. ASSUME NEW d \in Nodes PROVE Calm(g.list[d], l[d], Pairs(E))
  <2>1. CASE d \in ds
    <3>1. l[d] = z BY <1>2, <2>1
    <3> QED BY <1>7, <3>1 DEF Calm, Contains
  <2>2. CASE d \notin ds
    <3>1. l[d] = g.list[d] BY <1>2, <2>2
    <3> QED BY <3>1, CalmSame
  <2> QED BY <2>1, <2>2
<1>9. Placed(E, l) /\ Ordered(E, l) BY <1>8, CalmKeeps DEF Sound
<1>10. ASSUME NEW d \in Nodes, Clean(l[d], h.freed)
       PROVE  Nested(l[d], Loops(E, d)) /\ Enclosed(l[d], Loops(E, d))
  <2>1. CASE d \in ds
    <3>1. l[d] = z BY <1>2, <2>1
    <3> QED BY <1>7, <3>1 DEF Nested, Enclosed
  <2>2. CASE d \notin ds
    <3>1. l[d] = g.list[d] BY <1>2, <2>2
    <3>2. Clean(g.list[d], g.freed) BY <1>6, <1>10, <3>1 DEF Clean
    <3>3. Nested(g.list[d], Loops(E, d)) /\ Enclosed(g.list[d], Loops(E, d)) BY <3>2 DEF Sound, Tidy
    <3> QED BY <3>1, <3>3
  <2> QED BY <2>1, <2>2
<1>11. Counted(l, c)
  <2>1. \A d \in Nodes : g.count[d] = Len(g.list[d]) BY DEF Sound, Counted
  <2> QED BY <1>2, <1>3, <1>7, <2>1 DEF Counted
<1>12. Sound(E, h) BY <1>6, <1>9, <1>10, <1>11 DEF Sound, Tidy
<1> QED BY <1>1, <1>2, <1>6, <1>12 DEF h

(* The invariant holds of a new graph.                                      *)
LEMMA GraphBegins ==
  ASSUME Init PROVE GraphInv
<1>0. \A d \in Nodes : edge_list[d] = <<>> /\ edge_count[d] = 0 BY DEF Init
<1>1. TypeOK BY DEF Init, TypeOK
<1>2. node_count = Cardinality(node_list) BY FS_EmptySet DEF Init
<1>3. Graph.list = edge_list /\ Graph.count = edge_count /\ Graph.freed = freed BY <1>1, GraphIs
<1>4. \A d \in Nodes : Len(edge_list[d]) = 0 /\ \A i \in 1..Len(edge_list[d]) : FALSE BY <1>0
<1>5. Placed(edge, edge_list) BY <1>4 DEF Placed
<1>6. Ordered(edge, edge_list) BY <1>4 DEF Ordered, Contains
<1>7. Tidy(edge, edge_list, freed) BY <1>4 DEF Tidy, Nested, Enclosed
<1>8. Counted(edge_list, edge_count) BY <1>0, <1>4 DEF Counted
<1>9. Sound(edge, Graph) BY <1>3, <1>5, <1>6, <1>7, <1>8 DEF Sound
<1> QED BY <1>1, <1>2, <1>9 DEF GraphInv, Init

(* Adding a node.                                                           *)
LEMMA AddNodeKeeps ==
  ASSUME GraphInv, NEW d \in Nodes, NEW v \in Data, graph_add_node(d, v) PROVE GraphInv'
<1>0. TypeOK BY DEF GraphInv
<1>1. /\ node_list' = node_list \union {d} /\ node_count' = node_count + 1
      /\ d \notin node_list /\ d \notin freed
      /\ edge_list' = edge_list /\ edge_count' = edge_count /\ edge' = edge
      /\ freed' = freed /\ status' = status
  BY DEF graph_add_node
<1>a. NamesOK'
  <2>1. named' = [named EXCEPT ![v] = <<d>> \o @] /\ custom_free' = custom_free BY DEF graph_add_node
  <2>2. named \in [Data -> Seq(Nodes)] BY <1>0 DEF TypeOK
  <2>3. <<d>> \o named[v] \in Seq(Nodes) BY <2>2
  <2>4. named' \in [Data -> Seq(Nodes)] BY <2>1, <2>2, <2>3
  <2> QED BY <1>0, <2>1, <2>4 DEF NamesOK, TypeOK
<1>2. TypeOK' BY <1>0, <1>1, <1>a DEF TypeOK, NamesOK
<1>3. node_count' = Cardinality(node_list')
  <2>1. IsFiniteSet(node_list) BY <1>0, GraphConstants, FS_Subset DEF TypeOK
  <2>2. Cardinality(node_list \union {d}) = Cardinality(node_list) + 1 BY <1>1, <2>1, FS_AddElement
  <2> QED BY <1>1, <2>2 DEF GraphInv
<1>4. Sound(edge, Graph)' BY <1>1 DEF GraphInv, Graph
<1>5. status' = "ok" => node_list' \intersect freed' = {} BY <1>1 DEF GraphInv
<1> QED BY <1>1, <1>2, <1>3, <1>4, <1>5 DEF GraphInv

(* An edge that is not allocated is in no list.                             *)
LEMMA UnusedEdge ==
  ASSUME GraphInv, NEW e \in Edges, edge[e] = NULL
  PROVE  \A d \in Nodes : ~Contains(Graph.list[d], e)
<1>1. Graph.list = edge_list BY GraphIs DEF GraphInv
<1>2. NULL \notin EdgeType BY GraphConstants
<1> QED BY <1>1, <1>2, InvIs DEF Contains

(* A new edge_t, whatever becomes of the lists.                             *)
LEMMA NewEdgeIs ==
  ASSUME GraphInv, NEW e \in Edges, NEW d1 \in Nodes, NEW d2 \in Nodes, NEW b \in BOOLEAN,
         NewEdge(e, d1, d2, b)
  PROVE  /\ edge' \in [Edges -> EdgeType \union {NULL}]
         /\ edge'[e] = [node_1 |-> d1, node_2 |-> d2, is_directed |-> ~b] /\ edge'[e] \in EdgeType
         /\ \A u \in Edges : u # e => edge'[u] = edge[u]
         /\ Sound(edge', Graph) /\ edge[e] = NULL /\ e \notin freed /\ edge'[e] # NULL
         /\ node_list' = node_list /\ node_count' = node_count /\ status' = status
         /\ NamesOK'
<1>0. TypeOK BY DEF GraphInv
<1>a. (~b) \in BOOLEAN OBVIOUS
<1>1. PICK x \in EdgeType : x = [node_1 |-> d1, node_2 |-> d2, is_directed |-> ~b]
  <2>1. [node_1 |-> d1, node_2 |-> d2, is_directed |-> ~b] \in EdgeType BY <1>a, Zenon DEF EdgeType
  <2> QED BY <2>1
<1>2. edge \in [Edges -> EdgeType \union {NULL}] BY <1>0 DEF TypeOK
<1>3. edge' = [edge EXCEPT ![e] = x] /\ edge[e] = NULL BY <1>1 DEF NewEdge
<1>4. edge'[e] = x /\ \A u \in Edges : u # e => edge'[u] = edge[u] BY <1>2, <1>3
<1>5. edge' \in [Edges -> EdgeType \union {NULL}] BY <1>2, <1>3
<1>6. \A d \in Nodes : ~Contains(Graph.list[d], e) BY <1>3, UnusedEdge
<1>7. Graph \in GraphType /\ Sound(edge, Graph) BY InvIs
<1>8. Sound(edge', Graph)
  <2>1. PICK G : G = edge' OBVIOUS
  <2>2. \A u \in Edges : u # e => G[u] = edge[u] BY <1>4, <2>1
  <2>3. Sound(G, Graph) BY <1>6, <1>7, <2>2, FreshEdge
  <2> QED BY <2>1, <2>3
<1>9. e \notin freed BY <1>3 DEF GraphInv
<1>10. x # NULL BY GraphConstants
<1>11. NamesOK' BY NamesStay DEF NewEdge
<1> QED BY <1>1, <1>11, <1>3, <1>4, <1>5, <1>8, <1>9, <1>10 DEF NewEdge

(* Adding an edge.                                                          *)
LEMMA GraphAddEdgeKeeps ==
  ASSUME GraphInv, NEW e \in Edges, NEW d1 \in Nodes, NEW d2 \in Nodes, NEW b \in BOOLEAN,
         graph_add_edge(e, d1, d2, b)
  PROVE  GraphInv'
<1>0. TypeOK BY DEF GraphInv
<1>1. NewEdge(e, d1, d2, b) /\ Put(WithEdge(Graph, e, d1, d2, b)) BY DEF graph_add_edge
<1>2. /\ edge' \in [Edges -> EdgeType \union {NULL}]
      /\ edge'[e] = [node_1 |-> d1, node_2 |-> d2, is_directed |-> ~b]
      /\ \A u \in Edges : u # e => edge'[u] = edge[u]
      /\ Sound(edge', Graph) /\ edge[e] = NULL /\ e \notin freed /\ edge'[e] # NULL
      /\ node_list' = node_list /\ node_count' = node_count /\ status' = status
      /\ NamesOK'
  BY <1>1, NewEdgeIs
<1>3. Graph \in GraphType /\ Graph.freed = freed BY <1>0, GraphIs
<1>4. \A d \in Nodes : ~Contains(Graph.list[d], e) BY <1>2, UnusedEdge
<1> DEFINE h == WithEdge(Graph, e, d1, d2, b)
<1>5. h \in GraphType /\ Sound(edge', h) /\ h.freed = freed BY <1>2, <1>3, <1>4, AddEdgeKeeps
<1>a. Put(h) BY <1>1
<1> HIDE DEF h
<1>6. /\ Sound(edge, Graph)' /\ edge_list' \in [Nodes -> Seq(Edges)]
      /\ edge_count' \in [Nodes -> Nat] /\ freed' \in SUBSET (Edges \union Nodes)
  BY <1>5, <1>a, PutKeeps
<1>7. freed' = freed BY <1>5, <1>a DEF Put
<1>8. TypeOK' BY <1>0, <1>2, <1>6 DEF TypeOK, NamesOK
<1>9. \A u \in Edges : u \in freed' => edge'[u] # NULL BY <1>2, <1>7 DEF GraphInv
<1> QED BY <1>2, <1>6, <1>7, <1>8, <1>9 DEF GraphInv

(* Adding an edge that cannot be pushed to the second list.                 *)
LEMMA AddEdgeFailsKeeps ==
  ASSUME GraphInv, NEW e \in Edges, NEW d1 \in Nodes, NEW d2 \in Nodes,
         graph_add_edge_fails(e, d1, d2)
  PROVE  GraphInv'
<1>0. TypeOK BY DEF GraphInv
<1> DEFINE h == [Graph EXCEPT !.freed = @ \union {e}]
<1>1. NewEdge(e, d1, d2, TRUE) /\ Put(h) BY DEF graph_add_edge_fails
<1>2. /\ edge' \in [Edges -> EdgeType \union {NULL}]
      /\ \A u \in Edges : u # e => edge'[u] = edge[u]
      /\ Sound(edge', Graph) /\ edge'[e] # NULL
      /\ node_list' = node_list /\ node_count' = node_count /\ status' = status
      /\ NamesOK'
  BY <1>1, NewEdgeIs
<1>3. /\ Graph \in GraphType /\ Graph.freed = freed BY <1>0, GraphIs
<1>4. h \in GraphType /\ h.list = Graph.list /\ h.count = Graph.count /\ h.freed = freed \union {e}
  BY <1>3 DEF GraphType
<1> HIDE DEF h
<1>5. Sound(edge', h) BY <1>2, <1>3, <1>4, FreeMore
<1>6. /\ Sound(edge, Graph)' /\ edge_list' \in [Nodes -> Seq(Edges)]
      /\ edge_count' \in [Nodes -> Nat] /\ freed' \in SUBSET (Edges \union Nodes)
  BY <1>1, <1>4, <1>5, PutKeeps
<1>7. freed' = freed \union {e} BY <1>1, <1>4 DEF Put
<1>8. TypeOK' BY <1>0, <1>2, <1>6 DEF TypeOK, NamesOK
<1>9. \A u \in Edges : u \in freed' => edge'[u] # NULL BY <1>2, <1>7 DEF GraphInv
<1>10. status' = "ok" => node_list' \intersect freed' = {}
  <2>1. e \notin node_list BY <1>0, GraphConstants DEF TypeOK
  <2> QED BY <1>2, <1>7, <2>1 DEF GraphInv
<1> QED BY <1>2, <1>6, <1>8, <1>9, <1>10 DEF GraphInv
(* Leaving a sound graph behind, with no other edge freed than allocated    *)
(* ones.                                                                    *)
LEMMA LeavesGraph ==
  ASSUME GraphInv, NEW h \in GraphType, Put(h), edge' = edge, Sound(edge, h), NEW ds, ds \subseteq Nodes,
         h.freed \subseteq freed \union Allocated \union ds,
         node_list' \in SUBSET Nodes, node_count' \in Nat, node_count' = Cardinality(node_list'),
         status' \in {"ok", "cleared", "destroyed", "dangling", "undefined"},
         status' = "ok" => node_list' \subseteq node_list \ ds /\ status = "ok",
         NamesOK'
  PROVE  GraphInv'
<1>0. TypeOK BY DEF GraphInv
<1>1. /\ Sound(edge, Graph)' /\ edge_list' \in [Nodes -> Seq(Edges)]
      /\ edge_count' \in [Nodes -> Nat] /\ freed' \in SUBSET (Edges \union Nodes)
  BY PutKeeps
<1>2. TypeOK' BY <1>0, <1>1 DEF TypeOK, NamesOK
<1>3. freed' = h.freed BY DEF Put
<1>4. \A e \in Edges : e \in freed' => edge'[e] # NULL
  <2>1. ASSUME NEW e \in Edges, e \in freed' PROVE edge[e] # NULL
    <3>1. e \notin ds BY GraphConstants
    <3>2. e \in freed \/ e \in Allocated BY <1>3, <2>1, <3>1
    <3>3. e \in Allocated => edge[e] # NULL BY GraphConstants DEF Allocated
    <3> QED BY <3>2, <3>3 DEF GraphInv
  <2> QED BY <2>1
<1>5. status' = "ok" => node_list' \intersect freed' = {}
  <2>1. ASSUME status' = "ok", NEW n \in node_list', n \in freed' PROVE FALSE
    <3>1. n \in node_list /\ n \notin ds /\ status = "ok" BY <2>1
    <3>2. n \notin Edges BY <1>0, <3>1, GraphConstants DEF TypeOK
    <3>3. n \notin freed BY <3>1 DEF GraphInv
    <3>4. n \in Allocated BY <1>3, <2>1, <3>1, <3>3
    <3> QED BY <3>2, <3>4 DEF Allocated
  <2> QED BY <2>1
<1> QED BY <1>1, <1>2, <1>4, <1>5 DEF GraphInv

(* A step that ends the behaviour and changes nothing else.                 *)
LEMMA OnlyStatusKeeps ==
  ASSUME GraphInv, UNCHANGED <<node_list, node_count, edge_list, edge_count, edge, freed>>,
         UNCHANGED <<named, custom_free>>,
         status' \in {"ok", "undefined"}, status' = "ok" => status = "ok"
  PROVE  GraphInv'
<1>1. TypeOK' BY DEF GraphInv, TypeOK
<1>2. Graph' = Graph BY DEF Graph
<1>3. Sound(edge, Graph)' BY <1>2 DEF GraphInv
<1> QED BY <1>1, <1>3 DEF GraphInv

(* Removing an edge.                                                        *)
LEMMA GraphRemoveEdgeKeeps ==
  ASSUME GraphInv, NEW d1 \in Nodes, NEW d2 \in Nodes, graph_remove_edge(d1, d2)
  PROVE  GraphInv'
<1>0. TypeOK /\ node_count = Cardinality(node_list) BY DEF GraphInv
<1>1. Graph \in GraphType /\ Graph.freed = freed /\ Sound(edge, Graph) BY <1>0, GraphIs DEF GraphInv
<1> DEFINE g == RemoveEdge(Graph, d1, d2)
<1>2. /\ status = "ok" /\ UNCHANGED <<node_list, node_count, edge>>
      /\ UNCHANGED <<named, custom_free>>
      /\ IF g.code = "undefined"
           THEN status' = "undefined" /\ UNCHANGED <<edge_list, edge_count, freed>>
           ELSE Put(g) /\ UNCHANGED status
  BY DEF graph_remove_edge
<1>3. /\ g \in GraphType
      /\ g.code # "undefined" => /\ Sound(edge, g) /\ g.freed \subseteq freed \union Allocated
  BY <1>1, RemoveEdgeKeeps
<1> HIDE DEF g
<1>4. CASE g.code = "undefined" BY <1>2, <1>4, OnlyStatusKeeps
<1>5. CASE g.code # "undefined"
  <2>1. node_list' \in SUBSET Nodes /\ node_count' \in Nat /\ node_count' = Cardinality(node_list')
    BY <1>0, <1>2 DEF TypeOK
  <2>2. Put(g) /\ edge' = edge /\ Sound(edge, g) /\ g.freed \subseteq freed \union Allocated \union {}
    BY <1>2, <1>3, <1>5
  <2>3. status' = "ok" /\ node_list' \subseteq node_list \ {} BY <1>2, <1>5
  <2>4. {} \subseteq Nodes OBVIOUS
  <2>5. status' \in {"ok", "cleared", "destroyed", "dangling", "undefined"} BY <2>3
  <2>6. NamesOK' BY <1>2, NamesStay
  <2> QED BY <1>2, <1>3, <2>1, <2>2, <2>3, <2>4, <2>5, <2>6, LeavesGraph
<1> QED BY <1>4, <1>5

(* What remove_edges ends with.                                             *)
LEMMA RemoveEdgesKeeps ==
  ASSUME GraphInv, NEW d \in Nodes
  PROVE  LET g == remove_edges(d) IN
         /\ g \in GraphType
         /\ g.code # "undefined" => Sound(edge, g) /\ g.freed \subseteq freed \union Allocated
<1>1. /\ Graph \in Passed
      /\ \A i \in 1..Len(edge_list[d]) : edge[edge_list[d][i]] \in EdgeType
  BY InvIs
<1>2. PICK s \in Seq(Edges) : s = edge_list[d] BY DEF GraphInv, TypeOK
<1>3. \A i \in 1..Len(s) : edge[s[i]] \in EdgeType BY <1>1, <1>2
<1>4. Len(s) \in 0..Len(s) OBVIOUS
<1>a. node_list \subseteq Nodes BY DEF GraphInv, TypeOK
<1>5. RemoveLoop(s)[Len(s)] \in Passed BY <1>1, <1>3, <1>4, <1>a, RemoveLoopIs
<1>6. remove_edges(d) = RemoveLoop(s)[Len(s)] BY <1>2, RemoveEdgesIs
<1> QED BY <1>5, <1>6 DEF Passed

(* The node with a datum that a call finds is no longer the first one.      *)
LEMMA TailKeepsNames ==
  ASSUME GraphInv, NEW d \in Found, named' = [named EXCEPT ![DatumOf(d)] = Tail(@)],
         custom_free' = custom_free
  PROVE  NamesOK'
<1>1. named \in [Data -> Seq(Nodes)] /\ custom_free \in {"keeps", "frees"} BY NamesAre DEF NamesOK
<1>2. PICK v \in Data : named[v] # <<>> /\ Head(named[v]) = d BY DEF Found
<1>3. Contains(named[v], d)
  <2>1. named[v] \in Seq(Nodes) BY <1>1
  <2>2. 1 \in 1..Len(named[v]) /\ named[v][1] = d BY <1>2, <2>1
  <2> QED BY <2>2 DEF Contains
<1>4. PICK u : u = DatumOf(d) OBVIOUS
<1>5. u \in Data /\ Contains(named[u], d) BY <1>3, <1>4 DEF DatumOf
<1>6. named[u] \in Seq(Nodes) /\ named[u] # <<>> BY <1>1, <1>5 DEF Contains
<1>7. Tail(named[u]) \in Seq(Nodes) BY <1>6
<1>8. named' \in [Data -> Seq(Nodes)] BY <1>1, <1>4, <1>5, <1>7
<1> QED BY <1>1, <1>8 DEF NamesOK

(* Removing a node.                                                         *)
LEMMA GraphRemoveNodeKeeps ==
  ASSUME GraphInv, NEW d \in Nodes, graph_remove_node(d)
  PROVE  GraphInv'
<1>0. TypeOK /\ node_count = Cardinality(node_list) BY DEF GraphInv
<1> DEFINE g == remove_edges(d)
<1>1. /\ g \in GraphType
      /\ g.code # "undefined" => Sound(edge, g) /\ g.freed \subseteq freed \union Allocated
  BY RemoveEdgesKeeps
<1>2. /\ status = "ok" /\ d \in Found /\ edge' = edge /\ custom_free' = custom_free
      /\ \/ /\ g.code = "success" /\ Put(cleanup_node(g, {d}))
            /\ node_list' = node_list \ {d} /\ node_count' = node_count - 1
            /\ named' = [named EXCEPT ![DatumOf(d)] = Tail(@)]
            /\ UNCHANGED status
         \/ /\ g.code = "failure" /\ Put(g)
            /\ UNCHANGED <<node_list, node_count, named, status>>
         \/ /\ status' = "undefined"
            /\ UNCHANGED <<node_list, node_count, named, edge_list, edge_count, freed>>
  BY DEF graph_remove_node
<1> HIDE DEF g
<1>a. d \in node_list BY <1>2 DEF Found
<1>3. CASE g.code = "success" /\ Put(cleanup_node(g, {d})) /\ node_list' = node_list \ {d}
           /\ node_count' = node_count - 1 /\ UNCHANGED status
           /\ named' = [named EXCEPT ![DatumOf(d)] = Tail(@)]
  <2>b. NamesOK' BY <1>2, <1>3, TailKeepsNames
  <2>1. {d} \subseteq Nodes OBVIOUS
  <2>2. Sound(edge, g) /\ g.freed \subseteq freed \union Allocated BY <1>1, <1>3
  <2> DEFINE h == cleanup_node(g, {d})
  <2>3. h \in GraphType /\ Sound(edge, h) /\ h.freed = g.freed \union {d}
    BY <1>1, <2>1, <2>2, CleanupKeeps
  <2>a. Put(h) BY <1>3
  <2> HIDE DEF h
  <2>4. node_count' = Cardinality(node_list') /\ node_count' \in Nat /\ node_list' \in SUBSET Nodes
    <3>1. node_list \in SUBSET Nodes BY <1>0 DEF TypeOK
    <3>2. IsFiniteSet(node_list) BY <3>1, GraphConstants, FS_Subset
    <3>3. Cardinality(node_list \ {d}) =
            IF d \in node_list THEN Cardinality(node_list) - 1 ELSE Cardinality(node_list)
      BY <3>2, FS_RemoveElement
    <3>4. Cardinality(node_list \ {d}) = node_count - 1 BY <1>0, <1>a, <3>3, Zenon
    <3>5. IsFiniteSet(node_list \ {d}) BY <3>2, FS_RemoveElement
    <3>6. Cardinality(node_list \ {d}) \in Nat BY <3>5, FS_CardinalityType
    <3> QED BY <1>3, <3>1, <3>4, <3>6
  <2>5. h.freed \subseteq freed \union Allocated \union {d} BY <2>2, <2>3
  <2>6. status' = "ok" /\ node_list' \subseteq node_list \ {d} BY <1>2, <1>3
  <2>7. status' \in {"ok", "cleared", "destroyed", "dangling", "undefined"} BY <2>6
  <2> QED BY <1>2, <2>1, <2>3, <2>a, <2>b, <2>4, <2>5, <2>6, <2>7, LeavesGraph
<1>4. CASE g.code = "failure" /\ Put(g) /\ UNCHANGED <<node_list, node_count, named, status>>
  <2>1. node_list' \in SUBSET Nodes /\ node_count' \in Nat /\ node_count' = Cardinality(node_list')
    BY <1>0, <1>4 DEF TypeOK
  <2>2. Sound(edge, g) /\ g.freed \subseteq freed \union Allocated \union {} BY <1>1, <1>4
  <2>3. status' = "ok" /\ node_list' \subseteq node_list \ {} BY <1>2, <1>4
  <2>4. {} \subseteq Nodes OBVIOUS
  <2>5. status' \in {"ok", "cleared", "destroyed", "dangling", "undefined"} BY <2>3
  <2>6. NamesOK' BY <1>2, <1>4, NamesStay
  <2> QED BY <1>1, <1>2, <1>4, <2>1, <2>2, <2>3, <2>4, <2>5, <2>6, LeavesGraph
<1>5. CASE /\ status' = "undefined"
           /\ UNCHANGED <<node_list, node_count, named, edge_list, edge_count, freed>>
  BY <1>2, <1>5, OnlyStatusKeeps
<1> QED BY <1>2, <1>3, <1>4, <1>5

(* Clearing or destroying the graph.                                        *)
LEMMA ClearKeeps ==
  ASSUME GraphInv, NEW result \in {"cleared", "destroyed"}, ClearTo(result)
  PROVE  GraphInv'
<1>0. TypeOK BY DEF GraphInv
<1> DEFINE h == cleanup_node(Graph, node_list)
<1>a. CASE /\ status' = "undefined"
           /\ UNCHANGED <<node_list, node_count, named, edge_list, edge_count, freed>>
  <2>1. UNCHANGED <<edge, custom_free>> BY DEF ClearTo
  <2> QED BY <1>a, <2>1, OnlyStatusKeeps
<1> SUFFICES ASSUME Put(h), status' = result, node_list' = {}, node_count' = 0, edge' = edge,
                    named' = [v \in Data |-> <<>>], custom_free' = custom_free
             PROVE  GraphInv'
  BY <1>a DEF ClearTo
<1>1. /\ Put(h) /\ status' = result /\ node_list' = {} /\ node_count' = 0 /\ edge' = edge
  OBVIOUS
<1>b. NamesOK'
  <2>1. <<>> \in Seq(Nodes) OBVIOUS
  <2>2. named' \in [Data -> Seq(Nodes)] BY <2>1
  <2> QED BY <2>2, NamesAre DEF NamesOK
<1>2. Graph \in GraphType /\ Graph.freed = freed /\ Sound(edge, Graph) BY <1>0, GraphIs DEF GraphInv
<1>3. node_list \subseteq Nodes BY <1>0 DEF TypeOK
<1>4. h \in GraphType /\ Sound(edge, h) /\ h.freed = freed \union node_list
  BY <1>2, <1>3, CleanupKeeps
<1> HIDE DEF h
<1>5. h.freed \subseteq freed \union Allocated \union node_list BY <1>4
<1>6. node_list' \in SUBSET Nodes /\ node_count' \in Nat /\ node_count' = Cardinality(node_list')
  BY <1>1, FS_EmptySet
<1>7. status' \in {"ok", "cleared", "destroyed", "dangling", "undefined"} /\ status' # "ok" BY <1>1
<1> QED BY <1>1, <1>b, <1>3, <1>4, <1>5, <1>6, <1>7, LeavesGraph

(* A traversal.                                                             *)
LEMMA TraverseKeeps ==
  ASSUME GraphInv, NEW start \in Nodes, NEW memory \in Nat, traverse(start, memory)
  PROVE  GraphInv'
<1>0. TypeOK BY DEF GraphInv
<1>1. PICK s \in Traversals(start, memory) :
        IF ReadsFreed(s)
          THEN status' = "undefined" /\ UNCHANGED freed
          ELSE /\ freed' = freed \union Waiting(s)
               /\ status' = IF Waiting(s) = {} THEN "ok" ELSE "dangling"
  BY DEF traverse
<1>2. /\ status = "ok" /\ UNCHANGED <<node_list, node_count, edge_list, edge_count, edge>>
      /\ UNCHANGED <<named, custom_free>>
  BY DEF traverse
<1>3. CASE ReadsFreed(s) BY <1>1, <1>2, <1>3, OnlyStatusKeeps
<1>4. CASE ~ReadsFreed(s)
  <2>1. ListsOK BY InvIs
  <2>2. s.todo \in Seq(Nodes) BY <2>1, TraversalsType DEF TraversalType
  <2>3. PICK ds : ds = Waiting(s) OBVIOUS
  <2>4. ds \subseteq Nodes BY <2>2, <2>3 DEF Waiting, stack_destroy, Range
  <2>5. Graph \in GraphType /\ Sound(edge, Graph) BY <1>0, GraphIs DEF GraphInv
  <2>6. freed' = freed \union ds /\ (status' = "ok" <=> ds = {}) /\ status' \in {"ok", "dangling"}
    BY <1>1, <1>4, <2>3
  <2>7. freed' \in SUBSET (Edges \union Nodes) BY <1>0, <2>4, <2>6 DEF TypeOK
  <2>8. TypeOK' BY <1>0, <1>2, <2>6, <2>7 DEF TypeOK
  <2>9. Sound(edge, Graph)'
    <3>1. /\ Graph'.list = Graph.list /\ Graph'.count = Graph.count
          /\ Graph.freed \subseteq Graph'.freed
      BY <1>2, <2>6 DEF Graph
    <3>2. PICK h : h = Graph' OBVIOUS
    <3>3. Sound(edge, h) BY <2>5, <3>1, <3>2, FreeMore
    <3> QED BY <1>2, <3>2, <3>3
  <2>10. \A e \in Edges : e \in freed' => edge'[e] # NULL
    <3>1. \A e \in Edges : e \notin ds BY <2>4, GraphConstants
    <3> QED BY <1>2, <2>6, <3>1 DEF GraphInv
  <2>11. status' = "ok" => node_list' \intersect freed' = {} BY <1>2, <2>6 DEF GraphInv
  <2> QED BY <1>2, <2>8, <2>9, <2>10, <2>11 DEF GraphInv
<1> QED BY <1>3, <1>4

(* Every step of the graph keeps the invariant.                             *)
LEMMA GraphStep ==
  ASSUME GraphInv, [Next]_vars PROVE GraphInv'
<1>1. ASSUME NEW d \in Nodes, NEW v \in Data, graph_add_node(d, v) PROVE GraphInv'
  BY <1>1, AddNodeKeeps
<1>2. ASSUME NEW d \in Nodes, graph_remove_node(d) PROVE GraphInv' BY <1>2, GraphRemoveNodeKeeps
<1>3. ASSUME NEW e \in Edges, NEW d1 \in Nodes, NEW d2 \in Nodes, graph_add_edge_fails(e, d1, d2)
      PROVE  GraphInv'
  BY <1>3, AddEdgeFailsKeeps
<1>4. ASSUME NEW e \in Edges, NEW d1 \in Nodes, NEW d2 \in Nodes, NEW b \in BOOLEAN,
             graph_add_edge(e, d1, d2, b)
      PROVE  GraphInv'
  BY <1>4, GraphAddEdgeKeeps
<1>5. ASSUME NEW d1 \in Nodes, NEW d2 \in Nodes, graph_remove_edge(d1, d2) PROVE GraphInv'
  BY <1>5, GraphRemoveEdgeKeeps
<1>6. ASSUME NEW d \in Nodes, NEW memory \in 0..EnoughMemory, traverse(d, memory) PROVE GraphInv'
  BY <1>6, TraverseKeeps
<1>7. ASSUME graph_clear \/ graph_destroy PROVE GraphInv'
  BY <1>7, ClearKeeps DEF graph_clear, graph_destroy
<1>8. ASSUME ClearAgain PROVE GraphInv' BY <1>8, OnlyStatusKeeps DEF ClearAgain
<1>9. ASSUME UNCHANGED vars PROVE GraphInv'
  <2>1. /\ UNCHANGED <<node_list, node_count, edge_list, edge_count, edge, freed>>
        /\ UNCHANGED <<named, custom_free, status>>
    BY <1>9 DEF vars
  <2>2. TypeOK' BY <2>1 DEF GraphInv, TypeOK
  <2>3. Graph' = Graph BY <2>1 DEF Graph
  <2>4. Sound(edge, Graph)' BY <2>1, <2>3 DEF GraphInv
  <2> QED BY <2>1, <2>2, <2>4 DEF GraphInv
<1> QED BY <1>1, <1>2, <1>3, <1>4, <1>5, <1>6, <1>7, <1>8, <1>9 DEF Next

(* The graph stays sound through every call: its lists hold what belongs in *)
(* them and in one order, and its counters agree with them.                 *)
THEOREM GraphStaysSound == Spec => []GraphInv
<1>1. Init => GraphInv BY GraphBegins
<1>2. GraphInv /\ [Next]_vars => GraphInv' BY GraphStep
<1> QED BY <1>1, <1>2, PTL DEF Spec

(* node_count and every edge_count agree with the lists after every call,   *)
(* also one of graph_remove_edge that gives up half way and rolls back.     *)
THEOREM GraphCountsAgree == Spec => []CountsAgree
<1>1. GraphInv => CountsAgree
  <2>1. ASSUME GraphInv PROVE CountsAgree
    <3>1. TypeOK /\ node_count = Cardinality(node_list) /\ Sound(edge, Graph) BY <2>1 DEF GraphInv
    <3>2. Graph.list = edge_list /\ Graph.count = edge_count BY <3>1, GraphIs
    <3>3. \A d \in Nodes : edge_count[d] = Len(edge_list[d]) BY <3>1, <3>2 DEF Sound, Counted
    <3> QED BY <3>1, <3>3 DEF CountsAgree
  <2> QED BY <2>1
<1> QED BY <1>1, GraphStaysSound, PTL
----------------------------------------------------------------------------
(* Of the edges E: those that are allocated and not freed, how often one of *)
(* them is due in a list, and a graph that has all of them there, and no    *)
(* other.                                                                   *)
LiveIn(E, F)   == {e \in Edges : E[e] # NULL /\ e \notin F}
DueIn(E, e, d) == (IF E[e].node_1 = d THEN 1 ELSE 0)
                  + (IF E[e].node_2 = d /\ ~E[e].is_directed THEN 1 ELSE 0)
WholeIn(E, g) ==
  /\ \A e \in LiveIn(E, g.freed), d \in Nodes : CopiesOf(g.list[d], e) = DueIn(E, e, d)
  /\ \A d \in Nodes : \A i \in 1..Len(g.list[d]) : g.list[d][i] \in LiveIn(E, g.freed)

(* How often that is.                                                       *)
LEMMA DueIs ==
  ASSUME NEW E, NEW e, E[e] \in EdgeType, NEW d \in Nodes
  PROVE  /\ E[e].is_directed => DueIn(E, e, d) = IF E[e].node_1 = d THEN 1 ELSE 0
         /\ ~E[e].is_directed /\ E[e].node_1 # E[e].node_2 =>
              DueIn(E, e, d) = IF d \in Ends(E, e) THEN 1 ELSE 0
         /\ ~E[e].is_directed /\ E[e].node_1 = E[e].node_2 =>
              DueIn(E, e, d) = IF d \in Ends(E, e) THEN 2 ELSE 0
<1>1. PICK a, b \in Nodes : a = E[e].node_1 /\ b = E[e].node_2 BY DEF EdgeType
<1>2. PICK c : c <=> ~E[e].is_directed OBVIOUS
<1>3. DueIn(E, e, d) = (IF a = d THEN 1 ELSE 0) + (IF b = d /\ c THEN 1 ELSE 0)
  BY <1>1, <1>2 DEF DueIn
<1>4. Ends(E, e) = {a, b} BY <1>1 DEF Ends
<1>5. CASE ~c BY <1>1, <1>2, <1>3, <1>5
<1>6. CASE c /\ a # b
  <2>1. DueIn(E, e, d) = IF d \in {a, b} THEN 1 ELSE 0 BY <1>3, <1>6
  <2> QED BY <1>1, <1>2, <1>4, <1>6, <2>1
<1>7. CASE c /\ a = b
  <2>1. DueIn(E, e, d) = IF d \in {a, b} THEN 2 ELSE 0 BY <1>3, <1>7
  <2> QED BY <1>1, <1>2, <1>4, <1>7, <2>1
<1> QED BY <1>5, <1>6, <1>7

(* A graph without freed edges in its lists is never read where it should   *)
(* not be.                                                                  *)
LEMMA NothingFreed ==
  ASSUME NEW g \in GraphType, NEW n1 \in Nodes, NEW n2 \in Nodes, g.code # "undefined",
         \A d \in Nodes : Clean(g.list[d], g.freed)
  PROVE  RemoveEdge(g, n1, n2).code # "undefined"
<1> DEFINE r == RemoveEdge(g, n1, n2)
<1>a. ASSUME NEW c \in {"success", "failure", "undefined"}, NEW h \in GraphType
      PROVE  Fails(h, c).code = c
  BY DEF Fails, GraphType
<1>b. ASSUME NEW h \in GraphType, NEW n \in Nodes, Clean(h.list[n], h.freed), NEW i \in 0..Len(h.list[n])
      PROVE  ~MeetsFreed(h, n, i)
  <2>1. Len(h.list[n]) \in Nat BY DEF GraphType
  <2>2. ASSUME NEW j \in 1..(IF i = 0 THEN Len(h.list[n]) ELSE i) PROVE j \in 1..Len(h.list[n])
    BY <2>1
  <2> QED BY <1>b, <2>2 DEF MeetsFreed, Clean
<1>0. g.list[n1] \in Seq(Edges) /\ Len(g.list[n1]) \in Nat BY DEF GraphType
<1>1. CASE g.list[n1] = <<>>
  <2>1. r = Fails(g, "failure") BY <1>1 DEF RemoveEdge
  <2> QED BY <1>a, <2>1
<1>2. CASE g.list[n1] # <<>>
  <2> DEFINE k == PlaceOf(g, n1, n2)
             e == graph_find_edge(g, n1, n2)
             h == remove_data(g, n1, e)
  <2>1. k \in 0..Len(g.list[n1])
    <3>1. k = 0 \/ k \in 1..Len(g.list[n1]) BY <1>0, FindPlace
    <3> HIDE DEF k
    <3> QED BY <1>0, <3>1
  <2>2. ~MeetsFreed(g, n1, k) BY <1>b, <2>1
  <2>3. r = IF edge[e].is_directed THEN [h EXCEPT !.freed = @ \union {e}]
                                   ELSE RemoveSecond(h, n1, n2, e)
    BY <1>2, <2>2 DEF RemoveEdge
  <2>4. Len(g.list[n1]) \in 1..Len(g.list[n1]) BY <1>0, <1>2
  <2>5. PICK o \in 1..Len(g.list[n1]) : e = g.list[n1][o]
    <3>1. k = 0 => e = g.list[n1][Len(g.list[n1])] BY DEF graph_find_edge, Last
    <3>2. k # 0 => e = g.list[n1][k] BY DEF graph_find_edge
    <3>3. k # 0 => k \in 1..Len(g.list[n1]) BY <1>0, <2>1
    <3> QED BY <2>4, <3>1, <3>2, <3>3
  <2>6. e \in Edges BY <1>0, <2>5
  <2>7. PICK p : p = find_node(g, n1, e) OBVIOUS
  <2>8. p \in 1..Len(g.list[n1])
    <3>1. edge_compare(e, g.list[n1][o]) BY <2>5, SelfMatch
    <3> QED BY <1>0, <2>7, <3>1, FindNode
  <2>9. /\ h \in GraphType /\ h.list = CutAt(g.list, n1, p) /\ h.freed = g.freed /\ h.code = g.code
    <3> HIDE DEF e
    <3> QED BY <2>6, <2>7, <2>8, RemoveDataIs
  <2> HIDE DEF e, h, r, k
  <2>10. CASE edge[e].is_directed
    <3>1. r = [h EXCEPT !.freed = @ \union {e}] BY <2>3, <2>10
    <3>2. r.code = h.code BY <2>9, <3>1 DEF GraphType
    <3> QED BY <2>9, <3>2 DEF r
  <2>11. CASE ~edge[e].is_directed
    <3> DEFINE q == find_node(h, n2, e)
    <3>1. r = IF MeetsFreed(h, n2, q) THEN Fails(h, "undefined")
              ELSE IF q = 0 THEN Fails(push_head(h, n1, e), "failure")
              ELSE [remove_data(h, n2, e) EXCEPT !.freed = @ \union {e}]
      BY <2>3, <2>11 DEF RemoveSecond
    <3>2. h.list[n2] \in Seq(Edges) /\ Len(h.list[n2]) \in Nat BY <2>9 DEF GraphType
    <3>3. q \in 0..Len(h.list[n2])
      <4>1. q = 0 \/ q \in 1..Len(h.list[n2]) BY <3>2, FindNode
      <4> HIDE DEF q
      <4> QED BY <3>2, <4>1
    <3>4. Clean(h.list[n2], h.freed)
      <4>0. g.list \in [Nodes -> Seq(Edges)] BY DEF GraphType
      <4> DEFINE l == CutAt(g.list, n1, p)
      <4>1. /\ IsCut(g.list[n1], l[n1], p) /\ \A d \in Nodes : d # n1 => l[d] = g.list[d]
        BY <2>8, <4>0, CutAtIs
      <4> HIDE DEF l
      <4>2. ASSUME NEW i \in 1..Len(l[n1]) PROVE l[n1][i] \notin g.freed
        <5>1. Up(p, i) \in 1..Len(g.list[n1]) /\ l[n1][i] = g.list[n1][Up(p, i)] BY <4>1 DEF IsCut
        <5> QED BY <5>1 DEF Clean
      <4>3. Clean(l[n2], g.freed)
        <5>1. CASE n2 = n1 BY <4>2, <5>1 DEF Clean
        <5>2. CASE n2 # n1
          <6>1. l[n2] = g.list[n2] BY <4>1, <5>2
          <6> QED BY <6>1
        <5> QED BY <5>1, <5>2
      <4>4. h.list = l BY <2>9 DEF l
      <4> QED BY <2>9, <4>3, <4>4
    <3>5. ~MeetsFreed(h, n2, q)
      <4> HIDE DEF q
      <4> QED BY <1>b, <2>9, <3>3, <3>4
    <3>6. CASE q = 0
      <4>1. r = Fails(push_head(h, n1, e), "failure") BY <3>1, <3>5, <3>6
      <4>2. push_head(h, n1, e) \in GraphType BY <2>6, <2>9, PushHeadIs
      <4>3. r.code = "failure" BY <1>a, <4>1, <4>2
      <4> QED BY <4>3 DEF r
    <3>7. CASE q # 0
      <4>1. r = [remove_data(h, n2, e) EXCEPT !.freed = @ \union {e}] BY <3>1, <3>5, <3>7
      <4>2. q \in 1..Len(h.list[n2]) BY <3>2, <3>3, <3>7
      <4>3. remove_data(h, n2, e) \in GraphType /\ remove_data(h, n2, e).code = h.code
        BY <2>6, <2>9, <4>2, RemoveDataIs
      <4>4. PICK f \in GraphType : f = remove_data(h, n2, e) /\ f.code = h.code BY <4>3
      <4>5. r = [f EXCEPT !.freed = @ \union {e}] BY <4>1, <4>4
      <4>6. r.code = f.code BY <4>5 DEF GraphType
      <4> QED BY <2>9, <4>4, <4>6 DEF r
    <3> QED BY <3>6, <3>7
  <2> QED BY <2>10, <2>11
<1> QED BY <1>1, <1>2

(* A connecting edge that was found is also the first that it compares      *)
(* equal to.                                                                *)
LEMMA FoundIsCut ==
  ASSUME NEW L, NEW F, NEW n1 \in Nodes, NEW n2 \in Nodes, NEW o, NEW e, NEW p, Len(L) \in Nat,
         FoundEdge(L, F, n1, n2, o, e, p), Connects(e, n1, n2), \A i \in 1..Len(L) : Belongs(edge, L[i], n1)
  PROVE  p = o /\ L[p] = e
<1>1. /\ o \in 1..Len(L) /\ e = L[o] /\ p \in 1..Len(L) /\ p <= o /\ edge_compare(e, L[p])
  BY DEF FoundEdge, FirstMatch
<1>2. Connects(L[p], n1, n2) => o <= p
  <2>1. \/ o = Len(L) /\ \A i \in 1..Len(L) : ~Connects(L[i], n1, n2)
        \/ Connects(e, n1, n2) /\ \A i \in 1..Len(L) : Connects(L[i], n1, n2) => o <= i
    BY DEF FoundEdge
  <2> QED BY <1>1, <2>1
<1>3. PICK x : x = L[p] OBVIOUS
<1>4. Belongs(edge, e, n1) /\ Belongs(edge, x, n1) BY <1>1, <1>3
<1>5. Connects(x, n1, n2)
  <2>1. PICK a, b, c, d \in Nodes :
          /\ a = edge[e].node_1 /\ b = edge[e].node_2 /\ c = edge[x].node_1 /\ d = edge[x].node_2
    BY <1>4 DEF Belongs, EdgeType
  <2>2. (a = n1 /\ b = n2) \/ (a = n2 /\ b = n1 /\ ~edge[e].is_directed) BY <2>1 DEF Connects
  <2>3. (a = c /\ b = d) \/ (a = d /\ b = c /\ ~edge[e].is_directed)
    BY <1>1, <1>3, <2>1 DEF edge_compare
  <2>4. c = n1 \/ (d = n1 /\ ~edge[x].is_directed) BY <1>4, <2>1 DEF Belongs
  <2>5. (c = n1 /\ d = n2) \/ (c = n2 /\ d = n1 /\ ~edge[x].is_directed) BY <2>2, <2>3, <2>4
  <2> QED BY <2>1, <2>5 DEF Connects
<1>6. p = o BY <1>1, <1>2, <1>3, <1>5
<1> QED BY <1>1, <1>6
(* An entry of a list of a whole graph.                                     *)
LEMMA LiveEntry ==
  ASSUME NEW g \in GraphType, Sound(edge, g), WholeIn(edge, g), NEW d \in Nodes,
         NEW i \in 1..Len(g.list[d])
  PROVE  LET x == g.list[d][i] IN
         /\ x \in Edges /\ x \in LiveIn(edge, g.freed) /\ Belongs(edge, x, d)
         /\ edge[x] \in EdgeType /\ x \notin g.freed /\ Contains(g.list[d], x)
<1>1. g.list[d][i] \in LiveIn(edge, g.freed) BY DEF WholeIn
<1>2. Belongs(edge, g.list[d][i], d) BY DEF Sound, Placed
<1> QED BY <1>1, <1>2 DEF LiveIn, Belongs, Contains

(* The lists m have one copy of y less than l, in the list of n.            *)
OneLess(l, m, n, y) ==
  \A d \in Nodes : \A x :
    CopiesOf(m[d], x) = IF d = n /\ y = x THEN CopiesOf(l[d], x) - 1 ELSE CopiesOf(l[d], x)

(* So does a cut.                                                           *)
LEMMA CutAtCopies ==
  ASSUME NEW l \in [Nodes -> Seq(Edges)], NEW n \in Nodes, NEW p \in 1..Len(l[n])
  PROVE  OneLess(l, CutAt(l, n, p), n, l[n][p])
<1> DEFINE m == CutAt(l, n, p)
<1>1. IsCut(l[n], m[n], p) /\ \A c \in Nodes : c # n => m[c] = l[c] BY CutAtIs
<1> HIDE DEF m
<1>2. ASSUME NEW d \in Nodes, NEW x
      PROVE  CopiesOf(m[d], x) =
               IF d = n /\ l[n][p] = x THEN CopiesOf(l[d], x) - 1 ELSE CopiesOf(l[d], x)
  <2>1. CASE d = n
    <3>1. CopiesOf(m[n], x) = IF l[n][p] = x THEN CopiesOf(l[n], x) - 1 ELSE CopiesOf(l[n], x)
      BY <1>1, CutCopies
    <3> QED BY <2>1, <3>1
  <2>2. CASE d # n
    <3>1. m[d] = l[d] BY <1>1, <2>2
    <3> QED BY <2>2, <3>1
  <2> QED BY <2>1, <2>2
<1> QED BY <1>2 DEF OneLess, m

(* Two nodes are two ends.                                                  *)
LEMMA PairDiffers ==
  ASSUME NEW a, NEW b, NEW c, NEW d, {a, b} = {c, d}, c # d
  PROVE  a # b
<1>1. c \in {a, b} /\ d \in {a, b} OBVIOUS
<1> QED BY <1>1

(* A bidirectional edge that was cut out of one list is in the other.       *)
LEMMA SecondCopy ==
  ASSUME NEW g \in GraphType, WholeIn(edge, g), NEW n1 \in Nodes, NEW n2 \in Nodes,
         NEW e \in LiveIn(edge, g.freed), edge[e] \in EdgeType, ~edge[e].is_directed,
         Ends(edge, e) = {n1, n2}, NEW p \in 1..Len(g.list[n1]), g.list[n1][p] = e
  PROVE  Contains(CutAt(g.list, n1, p)[n2], e)
<1>0. g.list \in [Nodes -> Seq(Edges)] BY DEF GraphType
<1> DEFINE m == CutAt(g.list, n1, p)
<1>1. m \in [Nodes -> Seq(Edges)] BY <1>0, CutAtIs
<1>2. CopiesOf(m[n2], e) = IF n2 = n1 /\ g.list[n1][p] = e THEN CopiesOf(g.list[n2], e) - 1
                                                           ELSE CopiesOf(g.list[n2], e)
  <2>1. OneLess(g.list, m, n1, g.list[n1][p]) BY <1>0, CutAtCopies
  <2> HIDE DEF m
  <2> QED BY <2>1 DEF OneLess
<1> HIDE DEF m
<1>3. CopiesOf(g.list[n2], e) = DueIn(edge, e, n2) BY DEF WholeIn
<1>4. CopiesOf(m[n2], e) = 1
  <2>1. CASE n1 = n2
    <3>1. edge[e].node_1 = edge[e].node_2 /\ n2 \in Ends(edge, e) BY <2>1 DEF Ends
    <3>2. DueIn(edge, e, n2) = 2 BY <3>1, DueIs
    <3> QED BY <1>2, <1>3, <2>1, <3>2
  <2>2. CASE n1 # n2
    <3>1. {edge[e].node_1, edge[e].node_2} = {n1, n2} BY Zenon DEF Ends
    <3>2. edge[e].node_1 # edge[e].node_2 BY <2>2, <3>1, PairDiffers, ZenonT(30)
    <3>3. n2 \in Ends(edge, e) BY SMTT(30)
    <3>4. DueIn(edge, e, n2) = 1 BY <3>2, <3>3, DueIs
    <3> QED BY <1>2, <1>3, <2>2, <3>4
  <2> QED BY <2>1, <2>2
<1>5. Len(m[n2]) \in Nat BY <1>1
<1>6. Contains(m[n2], e) BY <1>4, <1>5, CopiesType
<1> QED BY <1>6 DEF m

(* e, the first edge in the list of n1 that connects it with n2, is cut out *)
(* there, something is cut out of the second list, and e is freed.          *)
OneRemoved(g, r, n1, n2, o, e) ==
  /\ o \in 1..Len(g.list[n1]) /\ e = g.list[n1][o]
  /\ e \in LiveIn(edge, g.freed) /\ edge[e] \in EdgeType /\ Connects(e, n1, n2)
  /\ \A i \in 1..Len(g.list[n1]) : Connects(g.list[n1][i], n1, n2) => o <= i
  /\ r.code = "success" /\ r.freed = g.freed \union {e}
  /\ EndsDirected(g, r, n1, e, o) \/ \E q : EndsRemoved(g, r, n1, n2, e, o, q)

(* So ends the removal of an edge from a whole graph that has one between   *)
(* the two nodes: it frees one such edge.                                   *)
LEMMA RemoveOne ==
  ASSUME NEW g \in GraphType, NEW n1 \in Nodes, NEW n2 \in Nodes, Sound(edge, g), WholeIn(edge, g),
         g.code = "success", NEW k \in 1..Len(g.list[n1]), Connects(g.list[n1][k], n1, n2)
  PROVE  LET r == RemoveEdge(g, n1, n2) IN
         r \in GraphType /\ \E o, e : OneRemoved(g, r, n1, n2, o, e)
<1>0. g.list[n1] \in Seq(Edges) /\ Len(g.list[n1]) \in Nat BY DEF GraphType
<1>1. PICK r \in GraphType : r = RemoveEdge(g, n1, n2) BY RemoveEdgeIs
<1>2. \/ r.code = "undefined"
      \/ g.list[n1] = <<>>
      \/ \E o, e, p : /\ FoundEdge(g.list[n1], g.freed, n1, n2, o, e, p)
                      /\ \/ EndsDirected(g, r, n1, e, p)
                         \/ EndsRolledBack(g, r, n1, n2, e, p)
                         \/ \E q : EndsRemoved(g, r, n1, n2, e, p, q)
  BY <1>1, RemoveEdgeIs
<1>3. \A d \in Nodes : Clean(g.list[d], g.freed) BY LiveEntry DEF Clean
<1>4. r.code # "undefined" BY <1>1, <1>3, NothingFreed
<1>5. g.list[n1] # <<>> BY <1>0
<1>6. PICK o, e, p : /\ FoundEdge(g.list[n1], g.freed, n1, n2, o, e, p)
                     /\ \/ EndsDirected(g, r, n1, e, p)
                        \/ EndsRolledBack(g, r, n1, n2, e, p)
                        \/ \E q : EndsRemoved(g, r, n1, n2, e, p, q)
  BY <1>2, <1>4, <1>5
<1>7. /\ o \in 1..Len(g.list[n1]) /\ e = g.list[n1][o] /\ Connects(e, n1, n2)
      /\ \A i \in 1..Len(g.list[n1]) : Connects(g.list[n1][i], n1, n2) => o <= i
  <2>1. \/ \A i \in 1..Len(g.list[n1]) : ~Connects(g.list[n1][i], n1, n2)
        \/ /\ Connects(e, n1, n2)
           /\ \A i \in 1..Len(g.list[n1]) : Connects(g.list[n1][i], n1, n2) => o <= i
    BY <1>6 DEF FoundEdge
  <2>2. o \in 1..Len(g.list[n1]) /\ e = g.list[n1][o] BY <1>6 DEF FoundEdge
  <2> QED BY <2>1, <2>2
<1>8. p = o /\ g.list[n1][p] = e
  <2>1. \A i \in 1..Len(g.list[n1]) : Belongs(edge, g.list[n1][i], n1) BY LiveEntry
  <2> QED BY <1>0, <1>6, <1>7, <2>1, FoundIsCut
<1>9. e \in LiveIn(edge, g.freed) /\ edge[e] \in EdgeType /\ Belongs(edge, e, n1)
  BY <1>7, LiveEntry
<1>10. ~EndsRolledBack(g, r, n1, n2, e, p)
  <2>1. SUFFICES ASSUME EndsRolledBack(g, r, n1, n2, e, p) PROVE FALSE OBVIOUS
  <2>2. ~edge[e].is_directed BY <2>1 DEF EndsRolledBack
  <2>3. Ends(edge, e) = {n1, n2} BY <1>7, <1>9, <2>2, BiConnects
  <2>4. Contains(CutAt(g.list, n1, p)[n2], e) BY <1>7, <1>8, <1>9, <2>2, <2>3, SecondCopy
  <2>5. PICK j \in 1..Len(CutAt(g.list, n1, p)[n2]) : CutAt(g.list, n1, p)[n2][j] = e
    BY <2>4 DEF Contains
  <2>6. edge_compare(e, CutAt(g.list, n1, p)[n2][j]) BY <2>5, SelfMatch
  <2> QED BY <2>1, <2>6 DEF EndsRolledBack
<1>11. EndsDirected(g, r, n1, e, o) \/ \E q : EndsRemoved(g, r, n1, n2, e, o, q) BY <1>6, <1>8, <1>10
<1>12. r.code = "success" /\ r.freed = g.freed \union {e} BY <1>11 DEF EndsDirected, EndsRemoved
<1>13. OneRemoved(g, r, n1, n2, o, e) BY <1>7, <1>9, <1>11, <1>12 DEF OneRemoved
<1> QED BY <1>1, <1>13

(* When what is cut out of the second list is the same edge, the graph      *)
(* stays whole.                                                             *)
SameEdge(g, r, n1, n2, o, e) ==
  \A q : EndsRemoved(g, r, n1, n2, e, o, q) => CutAt(g.list, n1, o)[n2][q] = e

(* It has that edge no longer, and every other as before.                   *)
LEMMA RemoveExact ==
  ASSUME NEW g \in GraphType, NEW r \in GraphType, NEW n1 \in Nodes, NEW n2 \in Nodes, Sound(edge, g),
         WholeIn(edge, g), NEW o, NEW e, OneRemoved(g, r, n1, n2, o, e), SameEdge(g, r, n1, n2, o, e)
  PROVE  WholeIn(edge, r)
<1>0. g.list \in [Nodes -> Seq(Edges)] /\ r.list \in [Nodes -> Seq(Edges)] BY DEF GraphType
<1>1. /\ o \in 1..Len(g.list[n1]) /\ g.list[n1][o] = e /\ e \in LiveIn(edge, g.freed)
      /\ edge[e] \in EdgeType /\ Connects(e, n1, n2) /\ r.freed = g.freed \union {e}
      /\ EndsDirected(g, r, n1, e, o) \/ \E q : EndsRemoved(g, r, n1, n2, e, o, q)
  BY DEF OneRemoved
<1>2. Belongs(edge, e, n1) BY <1>1, LiveEntry
<1>3. \A d \in Nodes : CopiesOf(g.list[d], e) = DueIn(edge, e, d) BY <1>1 DEF WholeIn
<1> DEFINE m == CutAt(g.list, n1, o)
<1>4. m \in [Nodes -> Seq(Edges)] BY <1>0, <1>1, CutAtIs
<1>5. ASSUME NEW d \in Nodes, NEW x
      PROVE  CopiesOf(m[d], x) = IF d = n1 /\ e = x THEN CopiesOf(g.list[d], x) - 1
                                                    ELSE CopiesOf(g.list[d], x)
  <2>1. OneLess(g.list, m, n1, g.list[n1][o]) BY <1>0, <1>1, CutAtCopies
  <2> HIDE DEF m
  <2> QED BY <1>1, <2>1 DEF OneLess
<1>6. ASSUME NEW q, EndsRemoved(g, r, n1, n2, e, o, q)
      PROVE  /\ ~edge[e].is_directed /\ q \in 1..Len(m[n2]) /\ m[n2][q] = e
             /\ r.list = CutAt(m, n2, q)
  BY <1>6 DEF EndsRemoved, FirstMatch, SameEdge
<1>a. EndsDirected(g, r, n1, e, o) => edge[e].is_directed /\ r.list = m BY DEF EndsDirected
<1> HIDE DEF m
<1>7. ASSUME NEW d \in Nodes, NEW x
      PROVE  CopiesOf(r.list[d], x) = IF x = e THEN 0 ELSE CopiesOf(g.list[d], x)
  <2>1. CASE EndsDirected(g, r, n1, e, o)
    <3>1. edge[e].is_directed /\ r.list = m BY <1>a, <2>1
    <3>2. edge[e].node_1 = n1 BY <1>1, <1>2, <3>1, BiConnects
    <3>3. DueIn(edge, e, d) = IF n1 = d THEN 1 ELSE 0 BY <1>1, <3>1, <3>2, DueIs
    <3>4. CopiesOf(g.list[d], e) = IF n1 = d THEN 1 ELSE 0 BY <1>3, <3>3
    <3>5. CopiesOf(m[d], x) = IF d = n1 /\ e = x THEN CopiesOf(g.list[d], x) - 1
                                                 ELSE CopiesOf(g.list[d], x)
      BY <1>5
    <3> QED BY <3>1, <3>4, <3>5
  <2>2. CASE \E q : EndsRemoved(g, r, n1, n2, e, o, q)
    <3>1. PICK q : EndsRemoved(g, r, n1, n2, e, o, q) BY <2>2
    <3>2. ~edge[e].is_directed /\ q \in 1..Len(m[n2]) /\ m[n2][q] = e /\ r.list = CutAt(m, n2, q)
      BY <1>6, <3>1
    <3>3. Ends(edge, e) = {n1, n2} BY <1>1, <1>2, <3>2, BiConnects
    <3>4. CopiesOf(CutAt(m, n2, q)[d], x) =
            IF d = n2 /\ m[n2][q] = x THEN CopiesOf(m[d], x) - 1 ELSE CopiesOf(m[d], x)
      <4>1. OneLess(m, CutAt(m, n2, q), n2, m[n2][q]) BY <1>4, <3>2, CutAtCopies
      <4> QED BY <4>1 DEF OneLess
    <3>5. CopiesOf(r.list[d], x) = IF d = n2 /\ e = x THEN CopiesOf(m[d], x) - 1 ELSE CopiesOf(m[d], x)
      BY <3>2, <3>4
    <3>6. CopiesOf(m[d], x) = IF d = n1 /\ e = x THEN CopiesOf(g.list[d], x) - 1
                                                 ELSE CopiesOf(g.list[d], x)
      BY <1>5
    <3>7. CASE x # e BY <3>5, <3>6, <3>7
    <3>8. CASE x = e /\ n1 = n2
      <4>1. edge[e].node_1 = edge[e].node_2 BY <3>3, <3>8 DEF Ends
      <4>2. DueIn(edge, e, d) = IF d \in {n1, n2} THEN 2 ELSE 0 BY <1>1, <3>2, <3>3, <4>1, DueIs
      <4>3. CopiesOf(g.list[d], e) = IF d = n1 THEN 2 ELSE 0 BY <1>3, <3>8, <4>2
      <4> QED BY <3>5, <3>6, <3>8, <4>3
    <3>9. CASE x = e /\ n1 # n2
      <4>1. edge[e].node_1 # edge[e].node_2 BY <3>3, <3>9 DEF Ends
      <4>2. DueIn(edge, e, d) = IF d \in {n1, n2} THEN 1 ELSE 0 BY <1>1, <3>2, <3>3, <4>1, DueIs
      <4>3. CopiesOf(g.list[d], e) = IF d = n1 \/ d = n2 THEN 1 ELSE 0 BY <1>3, <4>2
      <4> QED BY <3>5, <3>6, <3>9, <4>3
    <3> QED BY <3>7, <3>8, <3>9
  <2> QED BY <1>1, <2>1, <2>2
<1>8. ASSUME NEW x \in LiveIn(edge, r.freed), NEW d \in Nodes
      PROVE  CopiesOf(r.list[d], x) = DueIn(edge, x, d)
  <2>1. x \in LiveIn(edge, g.freed) /\ x # e BY <1>1 DEF LiveIn
  <2>2. CopiesOf(g.list[d], x) = DueIn(edge, x, d) BY <2>1 DEF WholeIn
  <2> QED BY <1>7, <2>1, <2>2
<1>9. ASSUME NEW d \in Nodes, NEW i \in 1..Len(r.list[d])
      PROVE  r.list[d][i] \in LiveIn(edge, r.freed)
  <2>1. PICK x : x = r.list[d][i] OBVIOUS
  <2>2. Contains(r.list[d], x) BY <2>1 DEF Contains
  <2>3. Len(r.list[d]) \in Nat /\ Len(g.list[d]) \in Nat BY <1>0
  <2>4. CopiesOf(r.list[d], x) # 0 BY <2>2, <2>3, CopiesType
  <2>5. x # e /\ CopiesOf(g.list[d], x) # 0 BY <1>7, <2>4
  <2>6. Contains(g.list[d], x) BY <2>3, <2>5, CopiesType
  <2>7. x \in LiveIn(edge, g.freed) BY <2>6, LiveEntry DEF Contains
  <2>8. x \in LiveIn(edge, r.freed) BY <1>1, <2>5, <2>7 DEF LiveIn
  <2> QED BY <2>1, <2>8
<1> QED BY <1>8, <1>9 DEF WholeIn
(* A bidirectional edge between two nodes of a whole graph is once in the   *)
(* list of each.                                                            *)
LEMMA OnceInBoth ==
  ASSUME NEW g \in GraphType, WholeIn(edge, g), NEW a \in Nodes, NEW b \in Nodes, a # b,
         NEW e \in LiveIn(edge, g.freed), edge[e] \in EdgeType, ~edge[e].is_directed,
         Ends(edge, e) = {a, b}
  PROVE  /\ CopiesOf(g.list[a], e) = 1 /\ CopiesOf(g.list[b], e) = 1
         /\ Contains(g.list[a], e) /\ Contains(g.list[b], e)
<1>1. Len(g.list[a]) \in Nat /\ Len(g.list[b]) \in Nat BY DEF GraphType
<1>2. edge[e].node_1 # edge[e].node_2 /\ a \in Ends(edge, e) /\ b \in Ends(edge, e) BY DEF Ends
<1>3. DueIn(edge, e, a) = 1 /\ DueIn(edge, e, b) = 1 BY <1>2, DueIs
<1>4. CopiesOf(g.list[a], e) = 1 /\ CopiesOf(g.list[b], e) = 1 BY <1>3 DEF WholeIn
<1> QED BY <1>1, <1>4, CopiesType

(* Two such edges are in the same order in both.                            *)
LEMMA SameOrder ==
  ASSUME NEW g \in GraphType, Sound(edge, g), WholeIn(edge, g), NEW a \in Nodes, NEW b \in Nodes, a # b,
         NEW u \in LiveIn(edge, g.freed), edge[u] \in EdgeType, ~edge[u].is_directed,
         Ends(edge, u) = {a, b},
         NEW v \in LiveIn(edge, g.freed), edge[v] \in EdgeType, ~edge[v].is_directed,
         Ends(edge, v) = {a, b},
         NEW i \in 1..Len(g.list[a]), NEW j \in 1..Len(g.list[a]), i < j,
         g.list[a][i] = u, g.list[a][j] = v,
         NEW k \in 1..Len(g.list[b]), NEW l \in 1..Len(g.list[b]),
         g.list[b][k] = u, g.list[b][l] = v
  PROVE  k < l
<1>0. Len(g.list[a]) \in Nat /\ Len(g.list[b]) \in Nat BY DEF GraphType
<1>1. /\ CopiesOf(g.list[a], u) = 1 /\ CopiesOf(g.list[b], v) = 1
      /\ Contains(g.list[a], u) /\ Contains(g.list[b], u)
      /\ Contains(g.list[a], v) /\ Contains(g.list[b], v)
  BY OnceInBoth
<1>2. \A x, y \in 1..Len(g.list[a]) : g.list[a][x] = u /\ g.list[a][y] = u => x = y
  BY <1>0, <1>1, CopiesAre
<1>3. \A x, y \in 1..Len(g.list[b]) : g.list[b][x] = v /\ g.list[b][y] = v => x = y
  BY <1>0, <1>1, CopiesAre
<1>4. Later(g.list[a], u, v) BY <1>2 DEF Later
<1>5. u \in Edges /\ v \in Edges /\ <<u, v>> \in Pairs(edge) BY DEF LiveIn, Pairs, IsBi
<1>6. Ordered(edge, g.list) BY DEF Sound
<1>7. Later(g.list[b], u, v) BY <1>1, <1>4, <1>5, <1>6 DEF Ordered
<1>8. PICK x \in 1..Len(g.list[b]) :
        g.list[b][x] = v /\ \A y \in 1..Len(g.list[b]) : g.list[b][y] = u => y < x
  BY <1>7 DEF Later
<1>9. x = l BY <1>3, <1>8
<1> QED BY <1>8, <1>9

(* Where an edge is removed between two nodes with no parallel edges of     *)
(* different directions, the same edge is cut out of both lists.            *)
LEMMA NotMixedSame ==
  ASSUME NEW g \in GraphType, NEW r, Sound(edge, g), WholeIn(edge, g),
         NEW n1 \in Nodes, NEW n2 \in Nodes, NEW o, NEW e, OneRemoved(g, r, n1, n2, o, e),
         \A x \in LiveIn(edge, g.freed) :
           edge_compare(e, x) /\ ~edge[e].is_directed => ~edge[x].is_directed
  PROVE  SameEdge(g, r, n1, n2, o, e)
<1> SUFFICES ASSUME NEW q, EndsRemoved(g, r, n1, n2, e, o, q), CutAt(g.list, n1, o)[n2][q] # e
             PROVE  FALSE
  BY DEF SameEdge
<1> DEFINE M == CutAt(g.list, n1, o)[n2]
<1>0. g.list \in [Nodes -> Seq(Edges)] BY DEF GraphType
<1>a. Len(g.list[n1]) \in Nat /\ Len(g.list[n2]) \in Nat BY <1>0
<1>1. /\ o \in 1..Len(g.list[n1]) /\ e = g.list[n1][o] /\ e \in LiveIn(edge, g.freed)
      /\ edge[e] \in EdgeType /\ Connects(e, n1, n2)
      /\ \A i \in 1..Len(g.list[n1]) : Connects(g.list[n1][i], n1, n2) => o <= i
  BY DEF OneRemoved
<1>2. ~edge[e].is_directed /\ FirstMatch(M, e, q) BY DEF EndsRemoved
<1>3. /\ IsCut(g.list[n1], CutAt(g.list, n1, o)[n1], o)
      /\ \A d \in Nodes : d # n1 => CutAt(g.list, n1, o)[d] = g.list[d]
  BY <1>0, <1>1, CutAtIs
<1>4. Belongs(edge, e, n1) BY <1>1, LiveEntry
<1>5. Ends(edge, e) = {n1, n2} BY <1>1, <1>2, <1>4, BiConnects
<1>6. Contains(M, e) BY <1>1, <1>2, <1>5, SecondCopy
<1>b. M[q] # e OBVIOUS
<1>7. PICK M2 : M2 = M OBVIOUS
<1>c. n1 = n2 => IsCut(g.list[n1], M2, o) BY <1>3, <1>7
<1>d. n1 # n2 => M2 = g.list[n2] BY <1>3, <1>7
<1> HIDE DEF M
<1>8. /\ q \in 1..Len(M2) /\ edge_compare(e, M2[q])
      /\ \A i \in 1..Len(M2) : edge_compare(e, M2[i]) => q <= i
  BY <1>2, <1>7 DEF FirstMatch
<1>9. PICK l \in 1..Len(M2) : M2[l] = e BY <1>6, <1>7 DEF Contains
<1>10. Len(M2) \in Nat BY <1>a, <1>c, <1>d DEF IsCut
<1>11. q < l
  <2>1. q <= l BY <1>8, <1>9, SelfMatch
  <2>2. q # l BY <1>7, <1>9, <1>b
  <2> QED BY <1>8, <1>10, <2>1, <2>2
<1>12. PICK x : x = M2[q] OBVIOUS
<1>e. ASSUME x \in LiveIn(edge, g.freed), edge[x] \in EdgeType
      PROVE  ~edge[x].is_directed /\ Ends(edge, x) = {n1, n2}
  <2>1. edge_compare(e, x) BY <1>8, <1>12
  <2>2. ~edge[x].is_directed BY <1>2, <1>e, <2>1
  <2>3. Ends(edge, e) = Ends(edge, x) BY <1>1, <1>2, <1>e, <2>1, BiMatch
  <2> QED BY <1>5, <2>2, <2>3
<1>13. CASE n1 # n2
  <2>1. q \in 1..Len(g.list[n2]) /\ l \in 1..Len(g.list[n2]) /\ x = g.list[n2][q] /\ e = g.list[n2][l]
    BY <1>8, <1>9, <1>12, <1>13, <1>d
  <2>2. x \in LiveIn(edge, g.freed) /\ edge[x] \in EdgeType BY <2>1, LiveEntry
  <2>3. ~edge[x].is_directed /\ Ends(edge, x) = {n1, n2} BY <1>e, <2>2
  <2>4. Contains(g.list[n1], x) BY <1>13, <2>2, <2>3, OnceInBoth
  <2>5. PICK i \in 1..Len(g.list[n1]) : g.list[n1][i] = x BY <2>4 DEF Contains
  <2>6. i < o
    <3>1. Ends(edge, x) = {n2, n1} /\ Ends(edge, e) = {n2, n1} BY <1>5, <2>3
    <3> QED BY <1>1, <1>2, <1>11, <1>13, <2>1, <2>2, <2>3, <2>5, <3>1, SameOrder
  <2>7. Belongs(edge, x, n1) BY <2>5, LiveEntry
  <2>8. Connects(x, n1, n2) BY <2>3, <2>7, BiConnects
  <2>9. o <= i BY <1>1, <2>5, <2>8
  <2> QED BY <1>a, <1>1, <2>6, <2>9
<1>14. CASE n1 = n2
  <2> DEFINE L == g.list[n1]
             m == Up(o, q)
             k == Up(o, l)
  <2>1. IsCut(L, M2, o) BY <1>14, <1>c
  <2>2. /\ m \in 1..Len(L) /\ m # o /\ L[m] = x
        /\ k \in 1..Len(L) /\ k # o /\ L[k] = e /\ m < k
    BY <1>8, <1>9, <1>11, <1>12, <2>1 DEF IsCut
  <2>3. x \in LiveIn(edge, g.freed) /\ edge[x] \in EdgeType /\ Belongs(edge, x, n1) BY <2>2, LiveEntry
  <2> HIDE DEF m, k
  <2>4. ~edge[x].is_directed /\ Ends(edge, x) = {n1, n2} BY <1>e, <2>3
  <2>5. Connects(x, n1, n2) BY <2>3, <2>4, BiConnects
  <2>6. o <= m BY <1>1, <2>2, <2>5
  <2>7. o < m BY <1>a, <1>1, <2>2, <2>6
  <2>8. e \in Loops(edge, n1) /\ x \in Loops(edge, n1)
    BY <1>1, <1>2, <1>5, <1>14, <2>3, <2>4 DEF Loops, IsBi, LiveIn
  <2>9. Nested(L, Loops(edge, n1))
    <3>1. Clean(L, g.freed) BY LiveEntry DEF Clean
    <3> QED BY <3>1 DEF Sound, Tidy
  <2>10. e # x BY <1>7, <1>12, <1>b
  <2>11. PICK j \in 1..Len(L) : m < j /\ j # k /\ L[j] = e
    <3>1. o \in 1..Len(L) /\ L[o] = e BY <1>1
    <3> HIDE DEF L
    <3> QED BY <2>2, <2>7, <2>8, <2>9, <2>10, <3>1 DEF Nested
  <2>12. CopiesOf(L, e) >= 3
    <3>1. o \in 1..Len(L) /\ L[o] = e /\ Len(L) \in Nat BY <1>1, <1>a
    <3>2. o # j /\ o # k BY <2>2, <2>7, <2>11, <3>1
    <3> HIDE DEF L
    <3> QED BY <2>2, <2>11, <3>1, <3>2, CopiesAre
  <2>13. DueIn(edge, e, n1) = 2
    <3>1. edge[e].node_1 = edge[e].node_2 /\ n1 \in Ends(edge, e) BY <1>5, <1>14 DEF Ends
    <3> QED BY <1>1, <1>2, <3>1, DueIs
  <2>14. CopiesOf(L, e) = 2 BY <1>1, <2>13 DEF WholeIn
  <2> QED BY <2>12, <2>14
<1> QED BY <1>13, <1>14
(* No directed edge leads to d from another node, and d has no              *)
(* bidirectional edge to itself.                                            *)
SafeIn(F, d) ==
  \A x \in LiveIn(edge, F) : edge[x].node_2 = d =>
    IF edge[x].node_1 = d THEN edge[x].is_directed ELSE ~edge[x].is_directed

(* An edge between d and another node is then bidirectional when it is in   *)
(* the list of the other node.                                              *)
LEMMA SafeNeighbour ==
  ASSUME NEW g \in GraphType, NEW d \in Nodes, SafeIn(g.freed, d), NEW m \in Nodes, m # d,
         NEW x \in LiveIn(edge, g.freed), Belongs(edge, x, m), Ends(edge, x) = {d, m}
  PROVE  ~edge[x].is_directed
<1>1. edge[x].node_1 = m => edge[x].node_2 = d BY DEF Ends
<1>2. edge[x].node_1 = m => ~edge[x].is_directed BY <1>1 DEF SafeIn
<1>3. edge[x].node_1 # m => ~edge[x].is_directed BY DEF Belongs
<1> QED BY <1>2, <1>3

(* The turn of remove_edges for the first edge in the list of d removes     *)
(* this edge and no other.                                                  *)
LEMMA TurnExact ==
  ASSUME NEW g \in GraphType, Sound(edge, g), WholeIn(edge, g), g.code = "success",
         NEW d \in Nodes, SafeIn(g.freed, d), Len(g.list[d]) # 0, NEW e, e = g.list[d][1]
  PROVE  LET r == RemoveEdge(g, edge[e].node_1, edge[e].node_2) IN
         /\ r \in GraphType /\ r.code = "success" /\ r.freed = g.freed \union {e}
         /\ WholeIn(edge, r) /\ Sound(edge, r) /\ IsCut(g.list[d], r.list[d], 1)
<1>0. g.list \in [Nodes -> Seq(Edges)] BY DEF GraphType
<1>a. Len(g.list[d]) \in Nat /\ 1 \in 1..Len(g.list[d]) BY <1>0
<1>1. e \in LiveIn(edge, g.freed) /\ edge[e] \in EdgeType /\ Belongs(edge, e, d) BY <1>a, LiveEntry
<1>2. PICK n1, n2 \in Nodes : n1 = edge[e].node_1 /\ n2 = edge[e].node_2 BY <1>1 DEF EdgeType
<1>3. Connects(e, n1, n2) /\ Ends(edge, e) = {n1, n2} BY <1>2 DEF Connects, Ends
<1> DEFINE r == RemoveEdge(g, n1, n2)
<1>4. r \in GraphType /\ (r.code # "undefined" => Sound(edge, r)) BY RemoveEdgeKeeps
<1>5. SUFFICES r.code = "success" /\ r.freed = g.freed \union {e} /\ WholeIn(edge, r)
               /\ IsCut(g.list[d], r.list[d], 1)
  BY <1>2, <1>4
<1>6. CASE n1 = d
  <2>1. PICK o, f : OneRemoved(g, r, n1, n2, o, f) BY <1>a, <1>3, <1>6, RemoveOne
  <2> HIDE DEF r
  <2>2. o = 1 /\ f = e
    <3>1. o \in 1..Len(g.list[d]) /\ o <= 1 /\ f = g.list[d][o] BY <1>a, <1>3, <1>6, <2>1 DEF OneRemoved
    <3> QED BY <1>a, <3>1
  <2>3. OneRemoved(g, r, d, n2, 1, e) BY <1>6, <2>1, <2>2
  <2> DEFINE m == CutAt(g.list, d, 1)
  <2>4. /\ m \in [Nodes -> Seq(Edges)] /\ IsCut(g.list[d], m[d], 1)
        /\ \A c \in Nodes : c # d => m[c] = g.list[c]
    BY <1>0, <1>a, CutAtIs
  <2>5. ~edge[e].is_directed => n2 # d BY <1>1, <1>2, <1>6 DEF SafeIn
  <2>6. SameEdge(g, r, d, n2, 1, e)
    <3>1. SUFFICES ASSUME NEW q, EndsRemoved(g, r, d, n2, e, 1, q), m[n2][q] # e PROVE FALSE
      BY DEF SameEdge
    <3>2. ~edge[e].is_directed /\ FirstMatch(m[n2], e, q) BY <3>1 DEF EndsRemoved
    <3> HIDE DEF m
    <3>3. n2 # d /\ m[n2] = g.list[n2] BY <2>4, <2>5, <3>2
    <3>4. /\ q \in 1..Len(g.list[n2]) /\ edge_compare(e, g.list[n2][q])
          /\ \A i \in 1..Len(g.list[n2]) : edge_compare(e, g.list[n2][i]) => q <= i
      BY <3>2, <3>3 DEF FirstMatch
    <3>5. PICK x : x = g.list[n2][q] OBVIOUS
    <3>6. x # e BY <3>1, <3>3, <3>5
    <3>7. x \in LiveIn(edge, g.freed) /\ edge[x] \in EdgeType /\ Belongs(edge, x, n2)
      BY <3>4, <3>5, LiveEntry
    <3>8. Ends(edge, e) = {d, n2} /\ Ends(edge, x) = {d, n2}
      BY <1>1, <1>3, <1>6, <3>2, <3>4, <3>5, <3>7, BiMatch
    <3>9. ~edge[x].is_directed BY <3>3, <3>7, <3>8, SafeNeighbour
    <3>10. Contains(g.list[d], x) /\ Contains(g.list[n2], e)
      BY <1>1, <3>2, <3>3, <3>7, <3>8, <3>9, OnceInBoth
    <3>11. PICK j \in 1..Len(g.list[d]) : g.list[d][j] = x BY <3>10 DEF Contains
    <3>12. PICK l \in 1..Len(g.list[n2]) : g.list[n2][l] = e BY <3>10 DEF Contains
    <3>13. 1 < j BY <1>a, <3>6, <3>11
    <3>14. l < q
      BY <1>a, <1>1, <3>2, <3>3, <3>4, <3>5, <3>7, <3>8, <3>9, <3>11, <3>12, <3>13, SameOrder
    <3>15. q <= l BY <3>4, <3>12, SelfMatch
    <3>16. Len(g.list[n2]) \in Nat BY <1>0
    <3> QED BY <3>4, <3>14, <3>15, <3>16
  <2>7. WholeIn(edge, r) BY <1>4, <2>3, <2>6, RemoveExact DEF r
  <2>8. r.code = "success" /\ r.freed = g.freed \union {e}
        /\ (EndsDirected(g, r, d, e, 1) \/ \E q : EndsRemoved(g, r, d, n2, e, 1, q))
    BY <2>3 DEF OneRemoved
  <2>9. r.list[d] = m[d]
    <3>1. CASE EndsDirected(g, r, d, e, 1) BY <3>1 DEF EndsDirected
    <3>2. CASE \E q : EndsRemoved(g, r, d, n2, e, 1, q)
      <4>1. PICK q : EndsRemoved(g, r, d, n2, e, 1, q) BY <3>2
      <4>2. n2 # d /\ q \in 1..Len(m[n2]) /\ r.list = CutAt(m, n2, q)
        BY <2>5, <4>1 DEF EndsRemoved, FirstMatch
      <4> HIDE DEF m
      <4>3. CutAt(m, n2, q)[d] = m[d] BY <2>4, <4>2, CutAtIs
      <4> QED BY <4>2, <4>3
    <3> QED BY <2>8, <3>1, <3>2
  <2> QED BY <2>4, <2>7, <2>8, <2>9 DEF r
<1>7. CASE n1 # d
  <2>1. n2 = d /\ ~edge[e].is_directed BY <1>1, <1>2, <1>7 DEF Belongs
  <2>2. Ends(edge, e) = {d, n1} /\ Ends(edge, e) = {n1, d} BY <1>3, <2>1
  <2>3. Contains(g.list[n1], e) BY <1>1, <1>7, <2>1, <2>2, OnceInBoth
  <2>4. PICK k \in 1..Len(g.list[n1]) : g.list[n1][k] = e BY <2>3 DEF Contains
  <2>5. PICK o, f : OneRemoved(g, r, n1, n2, o, f) BY <1>3, <2>4, RemoveOne
  <2> HIDE DEF r
  <2>6. /\ o \in 1..Len(g.list[n1]) /\ f = g.list[n1][o] /\ f \in LiveIn(edge, g.freed)
        /\ edge[f] \in EdgeType /\ Connects(f, n1, d) /\ o <= k
    BY <1>3, <2>1, <2>4, <2>5 DEF OneRemoved
  <2>7. f = e
    <3>1. SUFFICES ASSUME f # e PROVE FALSE OBVIOUS
    <3>2. Belongs(edge, f, n1) BY <2>6, LiveEntry
    <3>3. Ends(edge, f) = {d, n1} BY <2>6 DEF Connects, Ends
    <3>4. ~edge[f].is_directed BY <1>7, <2>6, <3>2, <3>3, SafeNeighbour
    <3>5. Contains(g.list[d], f) BY <1>7, <2>6, <3>3, <3>4, OnceInBoth
    <3>6. PICK j \in 1..Len(g.list[d]) : g.list[d][j] = f BY <3>5 DEF Contains
    <3>7. 1 < j BY <1>a, <3>1, <3>6
    <3>8. k < o
      BY <1>a, <1>1, <1>7, <2>1, <2>2, <2>4, <2>6, <3>3, <3>4, <3>6, <3>7, SameOrder
    <3>9. Len(g.list[n1]) \in Nat BY <1>0
    <3> QED BY <2>4, <2>6, <3>8, <3>9
  <2>8. OneRemoved(g, r, n1, d, o, e) BY <2>1, <2>5, <2>7
  <2> DEFINE m == CutAt(g.list, n1, o)
  <2>9. m \in [Nodes -> Seq(Edges)] /\ m[d] = g.list[d] BY <1>0, <1>7, <2>6, CutAtIs
  <2>10. ASSUME NEW q, EndsRemoved(g, r, n1, d, e, o, q) PROVE q = 1 /\ r.list = CutAt(m, d, q)
    <3>1. FirstMatch(m[d], e, q) /\ r.list = CutAt(m, d, q) BY <2>10 DEF EndsRemoved
    <3> HIDE DEF m
    <3>2. q \in 1..Len(g.list[d]) /\ (edge_compare(e, g.list[d][1]) => q <= 1)
      BY <1>a, <2>9, <3>1 DEF FirstMatch
    <3>3. q <= 1 BY <3>2, SelfMatch
    <3> QED BY <1>a, <3>1, <3>2, <3>3
  <2>11. SameEdge(g, r, n1, d, o, e)
    <3>1. ASSUME NEW q, EndsRemoved(g, r, n1, d, e, o, q) PROVE m[d][q] = e
      <4>1. q = 1 BY <2>10, <3>1
      <4> HIDE DEF m
      <4> QED BY <2>9, <4>1
    <3> QED BY <3>1 DEF SameEdge
  <2>12. WholeIn(edge, r) BY <1>4, <2>8, <2>11, RemoveExact DEF r
  <2>13. r.code = "success" /\ r.freed = g.freed \union {e}
         /\ (EndsDirected(g, r, n1, e, o) \/ \E q : EndsRemoved(g, r, n1, d, e, o, q))
    BY <2>8 DEF OneRemoved
  <2>14. PICK q : EndsRemoved(g, r, n1, d, e, o, q) BY <2>1, <2>13 DEF EndsDirected
  <2>15. r.list = CutAt(m, d, 1) BY <2>10, <2>14
  <2> HIDE DEF m
  <2>16. IsCut(m[d], CutAt(m, d, 1)[d], 1) BY <1>a, <2>9, CutAtIs
  <2>17. IsCut(g.list[d], r.list[d], 1) BY <2>9, <2>15, <2>16
  <2> QED BY <2>12, <2>13, <2>17 DEF r
<1> QED BY <1>6, <1>7
(* What Whole says of the record; and the nodes its edges lead to.          *)
EndsAmong(E, F, N) == \A e \in LiveIn(E, F) : Ends(E, e) \subseteq N

(* The two ways to say that a graph is whole.                               *)
LEMMA WholeIs ==
  ASSUME TypeOK
  PROVE  /\ Live = LiveIn(edge, freed)
         /\ Whole <=> WholeIn(edge, Graph) /\ EndsAmong(edge, freed, node_list)
<1>1. edge_list \in [Nodes -> Seq(Edges)] BY DEF TypeOK
<1>2. Graph.list = edge_list /\ Graph.freed = freed BY GraphIs
<1>3. \A d \in Nodes : DOMAIN edge_list[d] = 1..Len(edge_list[d]) BY <1>1
<1>4. Live = LiveIn(edge, freed) BY DEF Live, LiveIn
<1>5. ASSUME NEW e, NEW d \in Nodes PROVE Copies(e, d) = CopiesOf(edge_list[d], e)
  BY <1>3 DEF Copies, CopiesOf, Places
<1>6. ASSUME NEW e, NEW d \in Nodes PROVE Due(e, d) = DueIn(edge, e, d) BY DEF Due, DueIn
<1>7. (\A e \in Live, d \in Nodes : Copies(e, d) = Due(e, d))
      <=> \A e \in LiveIn(edge, freed), d \in Nodes : CopiesOf(edge_list[d], e) = DueIn(edge, e, d)
  BY <1>4, <1>5, <1>6
<1>8. (\A d \in Nodes : \A i \in DOMAIN edge_list[d] : edge_list[d][i] \in Live)
      <=> \A d \in Nodes : \A i \in 1..Len(edge_list[d]) : edge_list[d][i] \in LiveIn(edge, freed)
  BY <1>3, <1>4
<1>9. (\A e \in Live : {edge[e].node_1, edge[e].node_2} \subseteq node_list)
      <=> EndsAmong(edge, freed, node_list)
  BY <1>4 DEF EndsAmong, Ends
<1> QED BY <1>2, <1>4, <1>7, <1>8, <1>9 DEF Whole, WholeIn

(* The same of the next state.                                              *)
LEMMA WholeNext ==
  ASSUME TypeOK'
  PROVE  /\ Live' = LiveIn(edge', freed')
         /\ Whole' <=> WholeIn(edge', Graph') /\ EndsAmong(edge', freed', node_list')
<1>1. edge_list' \in [Nodes -> Seq(Edges)] BY DEF TypeOK
<1>2. Graph'.list = edge_list' /\ Graph'.freed = freed' BY DEF Graph
<1>3. \A d \in Nodes : DOMAIN edge_list'[d] = 1..Len(edge_list'[d]) BY <1>1
<1>4. Live' = LiveIn(edge', freed') BY DEF Live, LiveIn
<1>5. ASSUME NEW e, NEW d \in Nodes
      PROVE  Copies(e, d)' = CopiesOf(edge_list'[d], e)
  BY <1>3 DEF Copies, CopiesOf, Places
<1>6. ASSUME NEW e, NEW d \in Nodes PROVE Due(e, d)' = DueIn(edge', e, d) BY DEF Due, DueIn
<1>7. (\A e \in Live, d \in Nodes : Copies(e, d) = Due(e, d))'
      <=> \A e \in LiveIn(edge', freed'), d \in Nodes : CopiesOf(edge_list'[d], e) = DueIn(edge', e, d)
  BY <1>4, <1>5, <1>6
<1>8. (\A d \in Nodes : \A i \in DOMAIN edge_list[d] : edge_list[d][i] \in Live)'
      <=> \A d \in Nodes : \A i \in 1..Len(edge_list'[d]) : edge_list'[d][i] \in LiveIn(edge', freed')
  BY <1>3, <1>4
<1>9. (\A e \in Live : {edge[e].node_1, edge[e].node_2} \subseteq node_list)'
      <=> EndsAmong(edge', freed', node_list')
  BY <1>4 DEF EndsAmong, Ends
<1> QED BY <1>2, <1>4, <1>7, <1>8, <1>9 DEF Whole, WholeIn

(* The graph after i turns of remove_edges for the node d with the edges s. *)
Advanced(g, s, d, i) ==
  /\ g \in GraphType /\ g.code = "success" /\ Sound(edge, g) /\ WholeIn(edge, g)
  /\ g.freed = freed \union {s[j] : j \in 1..i}
  /\ Len(g.list[d]) = Len(s) - i /\ \A j \in 1..(Len(s) - i) : g.list[d][j] = s[j + i]

(* Each turn removes its edge.                                              *)
LEMMA Advances ==
  ASSUME NEW d \in Nodes, SafeIn(freed, d), NEW s \in Seq(Edges),
         \A j \in 1..Len(s) : edge[s[j]] \in EdgeType /\ Ends(edge, s[j]) \intersect freed = {},
         \A j \in 1..Len(s) : \A x \in Ends(edge, s[j]) : x \in node_list /\ FoundBy(x) = x,
         NEW i \in 1..Len(s), NEW g, Advanced(g, s, d, i - 1)
  PROVE  Advanced(RemoveCollected(g, s[i]), s, d, i)
<1>0. /\ g \in GraphType /\ g.code = "success" /\ Sound(edge, g) /\ WholeIn(edge, g)
      /\ g.freed = freed \union {s[j] : j \in 1..(i - 1)}
      /\ Len(g.list[d]) = Len(s) - (i - 1)
      /\ \A j \in 1..(Len(s) - (i - 1)) : g.list[d][j] = s[j + (i - 1)]
  BY DEF Advanced
<1>1. Len(s) \in Nat /\ \A j \in 1..Len(s) : s[j] \in Edges OBVIOUS
<1>2. PICK e : e = s[i] OBVIOUS
<1>3. e \in Edges /\ edge[e] \in EdgeType /\ Ends(edge, e) \intersect freed = {} BY <1>1, <1>2
<1>4. e = g.list[d][1] /\ 1 \in 1..Len(g.list[d]) /\ Len(g.list[d]) # 0
  <2>1. 1 \in 1..(Len(s) - (i - 1)) /\ 1 + (i - 1) = i BY <1>1
  <2>2. g.list[d][1] = s[1 + (i - 1)] BY <1>0, <2>1
  <2> QED BY <1>0, <1>1, <1>2, <2>1, <2>2
<1>5. e \notin g.freed BY <1>0, <1>4, LiveEntry
<1>6. {s[j] : j \in 1..(i - 1)} \subseteq Edges BY <1>1
<1>7. Ends(edge, e) \intersect g.freed = {}
  <2>1. Ends(edge, e) \subseteq Nodes BY <1>3 DEF Ends, EdgeType
  <2>2. Ends(edge, e) \intersect Edges = {} BY <2>1, GraphConstants
  <2> QED BY <1>0, <1>3, <1>6, <2>2
<1>8. RemoveCollected(g, e) = RemoveEdge(g, edge[e].node_1, edge[e].node_2)
  <2>1. {e, edge[e].node_1, edge[e].node_2} \intersect g.freed = {} BY <1>5, <1>7 DEF Ends
  <2>2. \A x \in Ends(edge, e) : x \in node_list /\ FoundBy(x) = x BY <1>2
  <2>3. PICK n1, n2 : n1 = edge[e].node_1 /\ n2 = edge[e].node_2 OBVIOUS
  <2>4. /\ FoundBy(n1) = n1 /\ FoundBy(n2) = n2 /\ {n1, n2} \subseteq node_list
    BY <2>2, <2>3 DEF Ends
  <2>5. RemoveCollected(g, e) =
          IF {FoundBy(n1), FoundBy(n2)} \subseteq node_list
            THEN RemoveEdge(g, FoundBy(n1), FoundBy(n2)) ELSE Fails(g, "failure")
    BY <1>0, <2>1, <2>3 DEF RemoveCollected
  <2> QED BY <2>3, <2>4, <2>5
<1>9. SafeIn(g.freed, d)
  <2>1. LiveIn(edge, g.freed) \subseteq LiveIn(edge, freed) BY <1>0 DEF LiveIn
  <2> QED BY <2>1 DEF SafeIn
<1> DEFINE r == RemoveEdge(g, edge[e].node_1, edge[e].node_2)
<1>10. /\ r \in GraphType /\ r.code = "success" /\ r.freed = g.freed \union {e}
       /\ WholeIn(edge, r) /\ Sound(edge, r) /\ IsCut(g.list[d], r.list[d], 1)
  <2>1. g \in GraphType /\ g.code = "success" /\ Sound(edge, g) /\ WholeIn(edge, g) BY <1>0
  <2>2. e = g.list[d][1] /\ Len(g.list[d]) # 0 BY <1>4
  <2> HIDE DEF r
  <2> QED BY <1>9, <2>1, <2>2, TurnExact DEF r
<1> HIDE DEF r
<1>11. r.freed = freed \union {s[j] : j \in 1..i}
  <2>1. {s[j] : j \in 1..(i - 1)} \union {s[i]} = {s[j] : j \in 1..i}
    <3>1. \A j : j \in 1..i <=> j \in 1..(i - 1) \/ j = i BY <1>1
    <3> QED BY <3>1
  <2> QED BY <1>0, <1>2, <1>10, <2>1
<1>12. Len(r.list[d]) = Len(s) - i BY <1>0, <1>1, <1>10 DEF IsCut
<1>13. ASSUME NEW j \in 1..(Len(s) - i) PROVE r.list[d][j] = s[j + i]
  <2>1. j \in 1..Len(r.list[d]) /\ ~(j < 1) BY <1>1, <1>12
  <2>2. r.list[d][j] = g.list[d][j + 1] BY <1>10, <2>1 DEF IsCut, Up
  <2>3. j + 1 \in 1..(Len(s) - (i - 1)) /\ (j + 1) + (i - 1) = j + i BY <1>1
  <2>4. g.list[d][j + 1] = s[(j + 1) + (i - 1)] BY <1>0, <2>3
  <2> QED BY <2>2, <2>3, <2>4
<1>14. Advanced(r, s, d, i) BY <1>10, <1>11, <1>12, <1>13 DEF Advanced
<1> QED BY <1>2, <1>8, <1>14 DEF r

(* So remove_edges removes the edges of a node, and no others.              *)
LEMMA RemoveEdgesExact ==
  ASSUME GraphInv, status = "ok", Whole, NEW d \in node_list, SafeIn(freed, d),
         \A x \in LiveIn(edge, freed) : d \in Ends(edge, x) => \A m \in Ends(edge, x) : ~Hidden(m)
  PROVE  LET g == remove_edges(d) IN
         /\ g \in GraphType /\ g.code = "success" /\ Sound(edge, g) /\ WholeIn(edge, g)
         /\ g.freed = freed \union {x \in Edges : Contains(edge_list[d], x)}
         /\ Len(g.list[d]) = 0
<1>0. TypeOK /\ Graph \in GraphType /\ Sound(edge, Graph) /\ Graph \in Passed BY InvIs DEF GraphInv
<1>1. Graph.list = edge_list /\ Graph.freed = freed /\ Graph.code = "success" BY <1>0, GraphIs
<1>2. WholeIn(edge, Graph) /\ EndsAmong(edge, freed, node_list) BY <1>0, WholeIs
<1>3. d \in Nodes BY <1>0 DEF TypeOK
<1>4. PICK s \in Seq(Edges) : s = edge_list[d] BY <1>0, <1>3 DEF TypeOK
<1>5. ASSUME NEW j \in 1..Len(s)
      PROVE  /\ edge[s[j]] \in EdgeType /\ Ends(edge, s[j]) \intersect freed = {}
             /\ \A x \in Ends(edge, s[j]) : x \in node_list /\ FoundBy(x) = x
  <2>1. j \in 1..Len(Graph.list[d]) /\ s[j] = Graph.list[d][j] BY <1>1, <1>4
  <2>2. s[j] \in LiveIn(edge, freed) /\ edge[s[j]] \in EdgeType /\ Belongs(edge, s[j], d)
    BY <1>0, <1>1, <1>2, <1>3, <2>1, LiveEntry
  <2>3. Ends(edge, s[j]) \subseteq node_list BY <1>2, <2>2 DEF EndsAmong
  <2>4. node_list \intersect freed = {} BY DEF GraphInv
  <2>5. d \in Ends(edge, s[j]) BY <2>2 DEF Belongs, Ends
  <2>6. \A m \in Ends(edge, s[j]) : FoundBy(m) = m BY <2>2, <2>5 DEF Hidden
  <2> QED BY <2>2, <2>3, <2>4, <2>6
<1> DEFINE F == RemoveLoop(s)
           n == Len(s)
<1>a. node_list \subseteq Nodes BY <1>0 DEF TypeOK
<1>6. /\ F[0] = Graph /\ \A i \in 1..n : F[i] = RemoveCollected(F[i - 1], s[i])
  BY <1>0, <1>5, <1>a, RemoveLoopIs
<1>7. n \in Nat OBVIOUS
<1> HIDE DEF F
<1>8. Advanced(F[0], s, d, 0)
  <2>1. {s[j] : j \in 1..0} = {} OBVIOUS
  <2>2. Graph.freed = freed \union {s[j] : j \in 1..0} BY <1>1, <2>1
  <2>3. Len(Graph.list[d]) = Len(s) - 0 BY <1>1, <1>4
  <2>4. \A j \in 1..(Len(s) - 0) : Graph.list[d][j] = s[j + 0] BY <1>1, <1>4
  <2> QED BY <1>0, <1>1, <1>2, <1>6, <2>2, <2>3, <2>4 DEF Advanced
<1> DEFINE P == {i \in 0..n : Advanced(F[i], s, d, i)}
<1>9. 0 \in P BY <1>7, <1>8
<1>10. ASSUME NEW i \in 1..n, i - 1 \in P PROVE i \in P
  <2>1. PICK g : g = F[i - 1] OBVIOUS
  <2>2. Advanced(g, s, d, i - 1) BY <1>10, <2>1
  <2>3. Advanced(RemoveCollected(g, s[i]), s, d, i) BY <1>3, <1>5, <2>2, Advances
  <2>4. F[i] = RemoveCollected(g, s[i]) BY <1>6, <2>1
  <2>5. i \in 0..n BY <1>7
  <2> QED BY <2>3, <2>4, <2>5
<1>11. Advanced(F[n], s, d, n)
  <2> HIDE DEF P, n
  <2>1. \A i \in 0..n : i \in P BY <1>7, <1>9, <1>10, Climb
  <2>2. n \in 0..n BY <1>7
  <2> QED BY <2>1, <2>2 DEF P
<1>12. remove_edges(d) = F[n] BY <1>4, RemoveEdgesIs DEF F
<1>13. {s[j] : j \in 1..n} = {x \in Edges : Contains(edge_list[d], x)}
  <2>1. \A j \in 1..n : s[j] \in Edges OBVIOUS
  <2>2. \A x : Contains(s, x) <=> \E j \in 1..n : s[j] = x BY DEF Contains
  <2>3. {s[j] : j \in 1..n} = {x \in Edges : Contains(s, x)} BY <2>1, <2>2
  <2> QED BY <1>4, <2>3
<1>14. Len(s) - n = 0 BY <1>7
<1> QED BY <1>11, <1>12, <1>13, <1>14 DEF Advanced
----------------------------------------------------------------------------
(* A whole graph that is left behind.                                       *)
LEMMA PutWhole ==
  ASSUME TypeOK', NEW h, Put(h), edge' = edge, WholeIn(edge, h),
         EndsAmong(edge, h.freed, node_list')
  PROVE  Whole' /\ Live' = LiveIn(edge, h.freed)
<1>1. edge_list' = h.list /\ freed' = h.freed BY DEF Put
<1>2. Graph'.list = h.list /\ Graph'.freed = h.freed BY <1>1 DEF Graph
<1>3. WholeIn(edge', Graph') BY <1>2 DEF WholeIn
<1>4. EndsAmong(edge', freed', node_list') BY <1>1
<1> QED BY <1>1, <1>3, <1>4, WholeNext

(* graph_remove_edge on a whole graph with an edge between the two nodes    *)
(* frees one of them; without parallel edges of different directions it     *)
(* leaves the graph whole.                                                  *)
LEMMA GraphRemoveEdgeExact ==
  ASSUME GraphInv, Whole, NEW d1 \in node_list, NEW d2 \in node_list, PlaceOf(Graph, d1, d2) # 0,
         graph_remove_edge(d1, d2)
  PROVE  /\ \E e \in Live : Connects(e, d1, d2) /\ Live' = Live \ {e}
         /\ status' = "ok" /\ (~Mixed(d1, d2) => Whole')
<1>0. TypeOK /\ Graph \in GraphType /\ Sound(edge, Graph) BY InvIs DEF GraphInv
<1>1. Graph.list = edge_list /\ Graph.freed = freed /\ Graph.code = "success" BY <1>0, GraphIs
<1>2. WholeIn(edge, Graph) /\ EndsAmong(edge, freed, node_list) /\ Live = LiveIn(edge, freed)
  BY <1>0, WholeIs
<1>3. d1 \in Nodes /\ d2 \in Nodes BY <1>0 DEF TypeOK
<1>4. TypeOK' BY <1>3, GraphRemoveEdgeKeeps DEF GraphInv
<1>5. PICK k \in 1..Len(Graph.list[d1]) : Connects(Graph.list[d1][k], d1, d2)
  <2>1. Graph.list[d1] \in Seq(Edges) BY <1>0, <1>3 DEF GraphType
  <2> QED BY <2>1, FindPlace
<1> DEFINE r == RemoveEdge(Graph, d1, d2)
<1>6. PICK o, e : r \in GraphType /\ OneRemoved(Graph, r, d1, d2, o, e)
  BY <1>0, <1>1, <1>2, <1>3, <1>5, RemoveOne
<1>7. /\ status = "ok" /\ UNCHANGED <<node_list, node_count, edge>>
      /\ IF r.code = "undefined"
           THEN status' = "undefined" /\ UNCHANGED <<edge_list, edge_count, freed>>
           ELSE Put(r) /\ UNCHANGED status
  BY DEF graph_remove_edge
<1> HIDE DEF r
<1>8. /\ e \in LiveIn(edge, freed) /\ Connects(e, d1, d2) /\ r.code = "success"
      /\ r.freed = freed \union {e} /\ edge[e] \in EdgeType
  BY <1>1, <1>6 DEF OneRemoved
<1>9. Put(r) /\ status' = "ok" /\ edge' = edge BY <1>7, <1>8
<1>10. LiveIn(edge, r.freed) = LiveIn(edge, freed) \ {e} BY <1>8 DEF LiveIn
<1>11. Live' = LiveIn(edge, freed) \ {e}
  <2>1. freed' = r.freed BY <1>9 DEF Put
  <2>2. Live' = LiveIn(edge', freed') BY <1>4, WholeNext
  <2> QED BY <1>9, <1>10, <2>1, <2>2
<1>12. ASSUME ~Mixed(d1, d2) PROVE Whole'
  <2>1. ASSUME NEW x \in LiveIn(edge, freed), edge_compare(e, x), ~edge[e].is_directed
        PROVE  ~edge[x].is_directed
    <3>1. edge[x].is_directed = edge[e].is_directed BY <1>2, <1>8, <1>12, <2>1 DEF Mixed
    <3> QED BY <2>1, <3>1
  <2>2. SameEdge(Graph, r, d1, d2, o, e)
    BY <1>0, <1>1, <1>2, <1>3, <1>6, <2>1, NotMixedSame
  <2>3. WholeIn(edge, r) BY <1>0, <1>2, <1>3, <1>6, <2>2, RemoveExact
  <2>4. EndsAmong(edge, r.freed, node_list') BY <1>2, <1>7, <1>10 DEF EndsAmong
  <2> QED BY <1>4, <1>9, <2>3, <2>4, PutWhole
<1> QED BY <1>2, <1>8, <1>9, <1>11, <1>12

(* graph_remove_node, of a node that no directed edge leads to and without  *)
(* a bidirectional edge to itself, removes the node and the edges that end  *)
(* there, and leaves the graph whole.                                       *)
LEMMA GraphRemoveNodeExact ==
  ASSUME GraphInv, Whole, NEW d \in node_list, ~Unsafe(d), custom_free = "keeps",
         graph_remove_node(d)
  PROVE  /\ node_list' = node_list \ {d} /\ status' = "ok" /\ Whole'
         /\ Live' = {e \in Live : d \notin {edge[e].node_1, edge[e].node_2}}
<1>0. TypeOK /\ Graph \in GraphType /\ Sound(edge, Graph) BY InvIs DEF GraphInv
<1>1. Graph.list = edge_list /\ Graph.freed = freed BY <1>0, GraphIs
<1>2. WholeIn(edge, Graph) /\ EndsAmong(edge, freed, node_list) /\ Live = LiveIn(edge, freed)
  BY <1>0, WholeIs
<1>3. d \in Nodes /\ edge_list[d] \in Seq(Edges) /\ Len(edge_list[d]) \in Nat BY <1>0 DEF TypeOK
<1>4. TypeOK' BY <1>3, GraphRemoveNodeKeeps DEF GraphInv
<1>5. SafeIn(freed, d) BY <1>2 DEF SafeIn, Unsafe
<1>6. status = "ok" BY DEF graph_remove_node
<1>b. ASSUME NEW x \in LiveIn(edge, freed), d \in Ends(edge, x), NEW m \in Ends(edge, x)
      PROVE  ~Hidden(m)
  <2>1. x \in Live /\ d \in {edge[x].node_1, edge[x].node_2} BY <1>2, <1>b DEF Ends
  <2>2. ~Hidden(edge[x].node_1) /\ ~Hidden(edge[x].node_2) BY <2>1 DEF Unsafe
  <2> QED BY <1>b, <2>2 DEF Ends
<1> DEFINE g == remove_edges(d)
           C == {x \in Edges : Contains(edge_list[d], x)}
<1>7. /\ g \in GraphType /\ g.code = "success" /\ Sound(edge, g) /\ WholeIn(edge, g)
      /\ g.freed = freed \union C /\ Len(g.list[d]) = 0
  BY <1>5, <1>6, <1>b, RemoveEdgesExact
<1>8. /\ Put(cleanup_node(g, {d})) /\ node_list' = node_list \ {d} /\ status' = "ok" /\ edge' = edge
  BY <1>6, <1>7 DEF graph_remove_node
<1> HIDE DEF g
<1>9. ASSUME NEW e \in LiveIn(edge, freed) PROVE e \in C <=> d \in Ends(edge, e)
  <2>0. e \in Edges /\ edge[e] \in EdgeType BY <1>0 DEF LiveIn, TypeOK
  <2>1. CopiesOf(edge_list[d], e) = DueIn(edge, e, d) BY <1>1, <1>2, <1>3 DEF WholeIn
  <2>2. e \in C <=> DueIn(edge, e, d) # 0 BY <1>3, <2>0, <2>1, CopiesType
  <2>3. CASE edge[e].is_directed
    <3>1. DueIn(edge, e, d) = IF edge[e].node_1 = d THEN 1 ELSE 0 BY <1>3, <2>0, <2>3, DueIs
    <3>2. edge[e].node_2 = d => edge[e].node_1 = d BY <1>5, <2>3 DEF SafeIn
    <3>3. d \in Ends(edge, e) <=> edge[e].node_1 = d BY <3>2 DEF Ends
    <3> QED BY <2>2, <3>1, <3>3
  <2>4. CASE ~edge[e].is_directed /\ edge[e].node_1 # edge[e].node_2
    <3>1. DueIn(edge, e, d) = IF d \in Ends(edge, e) THEN 1 ELSE 0 BY <1>3, <2>0, <2>4, DueIs
    <3> QED BY <2>2, <3>1
  <2>5. CASE ~edge[e].is_directed /\ edge[e].node_1 = edge[e].node_2
    <3>1. DueIn(edge, e, d) = IF d \in Ends(edge, e) THEN 2 ELSE 0 BY <1>3, <2>0, <2>5, DueIs
    <3> QED BY <2>2, <3>1
  <2> QED BY <2>3, <2>4, <2>5
<1> DEFINE h == cleanup_node(g, {d})
<1>10. /\ h.freed = g.freed \union {d}
       /\ \A c \in Nodes : h.list[c] = IF c \in {d} THEN <<>> ELSE g.list[c]
  <2>1. {d} \subseteq Nodes BY <1>3
  <2> QED BY <1>7, <2>1, CleanupKeeps
<1>a. Put(h) BY <1>8
<1> HIDE DEF h
<1>11. \A c \in Nodes : h.list[c] = g.list[c]
  <2>1. g.list[d] = <<>>
    <3>1. g.list[d] \in Seq(Edges) BY <1>3, <1>7 DEF GraphType
    <3> QED BY <1>7, <3>1, EmptySeq
  <2> QED BY <1>10, <2>1
<1>12. LiveIn(edge, h.freed) = LiveIn(edge, g.freed)
  <2>1. d \notin Edges BY <1>3, GraphConstants
  <2> QED BY <1>10, <2>1 DEF LiveIn
<1>13. WholeIn(edge, h)
  <2>1. /\ \A e \in LiveIn(edge, g.freed), c \in Nodes : CopiesOf(g.list[c], e) = DueIn(edge, e, c)
        /\ \A c \in Nodes : \A i \in 1..Len(g.list[c]) : g.list[c][i] \in LiveIn(edge, g.freed)
    BY <1>7 DEF WholeIn
  <2> QED BY <1>11, <1>12, <2>1 DEF WholeIn
<1>14. LiveIn(edge, h.freed) = {e \in LiveIn(edge, freed) : d \notin Ends(edge, e)}
  <2>1. LiveIn(edge, g.freed) = {e \in LiveIn(edge, freed) : e \notin C} BY <1>7 DEF LiveIn
  <2> HIDE DEF C
  <2> QED BY <1>9, <1>12, <2>1
<1>15. EndsAmong(edge, h.freed, node_list') BY <1>2, <1>8, <1>14 DEF EndsAmong
<1>16. Whole' /\ Live' = LiveIn(edge, h.freed) BY <1>4, <1>8, <1>a, <1>13, <1>15, PutWhole
<1> QED BY <1>2, <1>8, <1>14, <1>16 DEF Ends

(* Removal removes one edge between the two nodes, or the node with all the *)
(* edges that end there, and nothing else.                                  *)
THEOREM GraphRemovesWhatItShould == Spec => RemovesWhatItShould
<1> DEFINE A == Whole =>
                /\ \A n1, n2 \in node_list :
                     PlaceOf(Graph, n1, n2) # 0 /\ graph_remove_edge(n1, n2) =>
                       \E e \in Live : Connects(e, n1, n2) /\ Live' = Live \ {e}
                /\ \A n \in node_list :
                     ~Unsafe(n) /\ custom_free = "keeps" /\ graph_remove_node(n) =>
                       /\ node_list' = node_list \ {n}
                       /\ Live' = {e \in Live : n \notin {edge[e].node_1, edge[e].node_2}}
<1>1. GraphInv => A
  <2>1. SUFFICES ASSUME GraphInv PROVE A OBVIOUS
  <2>2. ASSUME NEW d1 \in node_list, NEW d2 \in node_list,
               Whole, PlaceOf(Graph, d1, d2) # 0, graph_remove_edge(d1, d2)
        PROVE  \E e \in Live : Connects(e, d1, d2) /\ Live' = Live \ {e}
    BY <2>1, <2>2, GraphRemoveEdgeExact
  <2>3. ASSUME NEW d \in node_list, Whole, ~Unsafe(d), custom_free = "keeps", graph_remove_node(d)
        PROVE  /\ node_list' = node_list \ {d}
               /\ Live' = {e \in Live : d \notin {edge[e].node_1, edge[e].node_2}}
    BY <2>1, <2>3, GraphRemoveNodeExact
  <2> QED BY <2>2, <2>3
<1>2. RemovesWhatItShould <=> [][A]_vars BY DEF RemovesWhatItShould
<1> HIDE DEF A
<1> QED BY <1>1, <1>2, GraphStaysSound, PTL
----------------------------------------------------------------------------
(* A list without repetition has room in the set its entries are from.      *)
Distinct(L) == \A i, j \in 1..Len(L) : L[i] = L[j] => i = j

LEMMA CardinalityUpTo == ASSUME NEW n \in Nat PROVE Cardinality(1..n) = n
BY FS_Interval

(* And less, when something of the set is not in the list.                  *)
LEMMA DistinctFits ==
  ASSUME NEW R, IsFiniteSet(R), NEW S, NEW L \in Seq(S), Distinct(L), \A n : Contains(L, n) => n \in R
  PROVE  /\ Len(L) <= Cardinality(R)
         /\ \A n \in R : ~Contains(L, n) => Len(L) + 1 <= Cardinality(R)
<1>0. Len(L) \in Nat OBVIOUS
<1>1. ASSUME NEW T, IsFiniteSet(T), \A i \in 1..Len(L) : L[i] \in T PROVE Len(L) <= Cardinality(T)
  <2> DEFINE f == [i \in 1..Len(L) |-> L[i]]
  <2>1. f \in [1..Len(L) -> T] BY <1>1
  <2>2. \A i, j \in 1..Len(L) : f[i] = f[j] => i = j BY DEF Distinct
  <2> HIDE DEF f
  <2>3. f \in Injection(1..Len(L), T) BY <2>1, <2>2 DEF Injection, IsInjective
  <2>4. Cardinality(1..Len(L)) <= Cardinality(T) BY <1>1, <2>3, FS_Injection
  <2>5. Cardinality(1..Len(L)) = Len(L) BY <1>0, CardinalityUpTo
  <2> QED BY <2>4, <2>5
<1>2. \A i \in 1..Len(L) : L[i] \in R BY DEF Contains
<1>3. ASSUME NEW n \in R, ~Contains(L, n) PROVE Len(L) + 1 <= Cardinality(R)
  <2>1. IsFiniteSet(R \ {n}) BY FS_RemoveElement
  <2>2. Cardinality(R \ {n}) = IF n \in R THEN Cardinality(R) - 1 ELSE Cardinality(R)
    BY FS_RemoveElement
  <2>3. Cardinality(R \ {n}) = Cardinality(R) - 1 BY <2>2, Zenon
  <2>4. \A i \in 1..Len(L) : L[i] \in R \ {n} BY <1>2, <1>3 DEF Contains
  <2>5. Len(L) <= Cardinality(R \ {n}) BY <1>1, <2>1, <2>4
  <2>6. Cardinality(R) \in Nat BY FS_CardinalityType
  <2> QED BY <1>0, <2>3, <2>5, <2>6
<1> QED BY <1>1, <1>2, <1>3

(* A list with one more entry at its end.                                   *)
LEMMA AppendIs ==
  ASSUME NEW S, NEW L \in Seq(S), NEW n \in S
  PROVE  /\ Append(L, n) \in Seq(S) /\ Len(Append(L, n)) = Len(L) + 1
         /\ \A x : Contains(Append(L, n), x) <=> Contains(L, x) \/ x = n
         /\ Distinct(L) /\ ~Contains(L, n) => Distinct(Append(L, n))
<1>0. Len(L) \in Nat OBVIOUS
<1>1. PICK M \in Seq(S) : M = Append(L, n)
  <2>1. Append(L, n) \in Seq(S) OBVIOUS
  <2> QED BY <2>1
<1>2. Len(M) = Len(L) + 1 /\ M[Len(L) + 1] = n /\ \A i \in 1..Len(L) : M[i] = L[i] BY <1>1
<1>3. \A i : i \in 1..Len(M) <=> i \in 1..Len(L) \/ i = Len(L) + 1 BY <1>0, <1>2
<1>4. ASSUME NEW x PROVE Contains(M, x) <=> Contains(L, x) \/ x = n
  BY <1>2, <1>3 DEF Contains
<1>5. ASSUME Distinct(L), ~Contains(L, n) PROVE Distinct(M)
  <2>1. ASSUME NEW i \in 1..Len(M), NEW j \in 1..Len(M), M[i] = M[j] PROVE i = j
    <3>1. CASE i \in 1..Len(L) /\ j \in 1..Len(L) BY <1>2, <1>5, <2>1, <3>1 DEF Distinct
    <3>2. CASE i \in 1..Len(L) /\ j = Len(L) + 1 BY <1>2, <1>5, <2>1, <3>2 DEF Contains
    <3>3. CASE i = Len(L) + 1 /\ j \in 1..Len(L) BY <1>2, <1>5, <2>1, <3>3 DEF Contains
    <3>4. CASE i = Len(L) + 1 /\ j = Len(L) + 1 BY <3>4
    <3> QED BY <1>3, <3>1, <3>2, <3>3, <3>4
  <2> QED BY <2>1 DEF Distinct
<1> QED BY <1>1, <1>2, <1>4, <1>5

(* What holds of a traversal while it goes well: what was visited was acted *)
(* on or waits, once; and what memory is left.                              *)
Going(s, M, R) ==
  /\ Distinct(s.visited) /\ Distinct(s.todo)
  /\ Len(s.visited) = Len(s.acted) + Len(s.todo)
  /\ s.memory = M - 2 * Len(s.visited)
  /\ \A n : Contains(s.visited, n) <=> Contains(s.acted, n) \/ Contains(s.todo, n)
  /\ \A n : ~(Contains(s.acted, n) /\ Contains(s.todo, n))
  /\ \A n : Contains(s.visited, n) => n \in R

(* What holds of one, among the nodes R, in any case: it acts on no node    *)
(* twice, and fails only for want of memory or of room on the stack.        *)
Walk(s, t, M, R) ==
  /\ s \in TraversalType /\ Distinct(s.acted) /\ \A n : Contains(s.acted, n) => n \in R
  /\ ~s.ok => \/ M < 2 * Cardinality(Nodes)
              \/ t = "stack" /\ Cardinality(R) >= MAX_STACK_SIZE + 2
  /\ s.ok => Going(s, M, R)

(* v has visited what s has.                                                *)
Grows(s, v) == v.ok => s.ok /\ \A x : Contains(s.visited, x) => Contains(v.visited, x)

(* A visit keeps that, and unless it fails the node is visited.             *)
LEMMA VisitWalks ==
  ASSUME NEW R, R \subseteq Nodes, NEW M \in Nat, NEW t, NEW s, Walk(s, t, M, R), NEW n \in R,
         Len(s.acted) # 0 \/ Len(s.todo) = 0
  PROVE  LET v == Visit(t, s, n) IN
         /\ Walk(v, t, M, R) /\ v.acted = s.acted
         /\ Grows(s, v) /\ (v.ok => Contains(v.visited, n))
<1>0. /\ s \in TraversalType /\ Distinct(s.acted) /\ \A x : Contains(s.acted, x) => x \in R
      /\ ~s.ok => \/ M < 2 * Cardinality(Nodes)
                  \/ t = "stack" /\ Cardinality(R) >= MAX_STACK_SIZE + 2
      /\ s.ok => Going(s, M, R)
  BY DEF Walk
<1>a. /\ s.todo \in Seq(Nodes) /\ s.visited \in Seq(Nodes) /\ s.acted \in Seq(Nodes) /\ s.memory \in Nat
      /\ Len(s.todo) \in Nat /\ Len(s.visited) \in Nat /\ Len(s.acted) \in Nat
  BY <1>0 DEF TraversalType
<1>b. /\ IsFiniteSet(R) /\ Cardinality(R) \in Nat /\ Cardinality(Nodes) \in Nat
      /\ Cardinality(R) <= Cardinality(Nodes)
  <2>1. IsFiniteSet(Nodes) BY GraphConstants
  <2>2. R \in SUBSET Nodes OBVIOUS
  <2>3. IsFiniteSet(R) /\ Cardinality(R) <= Cardinality(Nodes) BY <2>1, <2>2, FS_Subset
  <2> QED BY <2>1, <2>3, FS_CardinalityType
<1>c. n \in Nodes OBVIOUS
<1> DEFINE v == Visit(t, s, n)
<1>1. /\ v \in TraversalType /\ v.acted = s.acted
      /\ \/ ~s.ok /\ v = s
         \/ Contains(s.visited, n) /\ v = s
         \/ /\ s.ok /\ ~Contains(s.visited, n) /\ ~v.ok
            /\ (t = "stack" /\ Len(s.todo) = MAX_STACK_SIZE) \/ s.memory < 2
         \/ /\ s.ok /\ ~Contains(s.visited, n) /\ v.ok /\ s.memory >= 2
            /\ v.todo = Append(s.todo, n) /\ v.visited = Append(s.visited, n)
            /\ v.memory = s.memory - 2
  BY <1>0, <1>c, VisitIs
<1> HIDE DEF v
<1>2. CASE v = s /\ (~s.ok \/ Contains(s.visited, n)) BY <1>2 DEF v, Grows
<1>3. CASE /\ s.ok /\ ~Contains(s.visited, n) /\ ~v.ok
           /\ (t = "stack" /\ Len(s.todo) = MAX_STACK_SIZE) \/ s.memory < 2
  <2>1. Going(s, M, R) BY <1>0, <1>3
  <2>2. Len(s.visited) + 1 <= Cardinality(R)
    <3>1. Distinct(s.visited) /\ \A x : Contains(s.visited, x) => x \in R BY <2>1 DEF Going
    <3> QED BY <1>3, <1>a, <1>b, <3>1, DistinctFits
  <2>3. s.memory = M - 2 * Len(s.visited) /\ Len(s.visited) = Len(s.acted) + Len(s.todo)
    BY <2>1 DEF Going
  <2>4. s.memory < 2 => M < 2 * Cardinality(Nodes)
    <3>1. PICK a, b, c, m \in Nat : /\ a = Len(s.visited) /\ b = Cardinality(R) /\ m = s.memory
                                    /\ c = Cardinality(Nodes)
      BY <1>a, <1>b
    <3>2. m = M - 2 * a /\ a + 1 <= b /\ b <= c BY <1>b, <2>2, <2>3, <3>1
    <3>3. m < 2 => M < 2 * c BY <3>2
    <3> QED BY <3>1, <3>3
  <2>5. Len(s.todo) = MAX_STACK_SIZE => Cardinality(R) >= MAX_STACK_SIZE + 2
    <3>1. MAX_STACK_SIZE \in Nat /\ MAX_STACK_SIZE # 0 BY GraphConstants
    <3> QED BY <1>a, <1>b, <2>2, <2>3, <3>1
  <2>6. Walk(v, t, M, R) BY <1>0, <1>1, <1>3, <2>4, <2>5 DEF Walk
  <2> QED BY <1>1, <1>3, <2>6 DEF v, Grows
<1>4. CASE /\ s.ok /\ ~Contains(s.visited, n) /\ v.ok /\ s.memory >= 2
           /\ v.todo = Append(s.todo, n) /\ v.visited = Append(s.visited, n)
           /\ v.memory = s.memory - 2
  <2>1. /\ Distinct(s.visited) /\ Distinct(s.todo)
        /\ Len(s.visited) = Len(s.acted) + Len(s.todo)
        /\ s.memory = M - 2 * Len(s.visited)
        /\ \A x : Contains(s.visited, x) <=> Contains(s.acted, x) \/ Contains(s.todo, x)
        /\ \A x : ~(Contains(s.acted, x) /\ Contains(s.todo, x))
        /\ \A x : Contains(s.visited, x) => x \in R
    BY <1>0, <1>4 DEF Going
  <2>2. ~Contains(s.todo, n) /\ ~Contains(s.acted, n) BY <1>4, <2>1
  <2>3. /\ Len(v.todo) = Len(s.todo) + 1 /\ Distinct(v.todo)
        /\ \A x : Contains(v.todo, x) <=> Contains(s.todo, x) \/ x = n
    BY <1>4, <1>a, <1>c, <2>1, <2>2, AppendIs
  <2>4. /\ Len(v.visited) = Len(s.visited) + 1 /\ Distinct(v.visited)
        /\ \A x : Contains(v.visited, x) <=> Contains(s.visited, x) \/ x = n
    <3>1. PICK L \in Seq(Nodes) : L = s.visited BY <1>a
    <3>2. v.visited = Append(L, n) /\ Distinct(L) /\ ~Contains(L, n) BY <1>4, <2>1, <3>1
    <3>3. /\ Len(Append(L, n)) = Len(L) + 1 /\ Distinct(Append(L, n))
          /\ \A x : Contains(Append(L, n), x) <=> Contains(L, x) \/ x = n
      BY <1>c, <3>2, AppendIs
    <3> QED BY <3>1, <3>2, <3>3
  <2>5. Len(v.visited) = Len(v.acted) + Len(v.todo)
    <3>1. PICK a, b, c \in Nat : a = Len(s.visited) /\ b = Len(s.acted) /\ c = Len(s.todo) BY <1>a
    <3>2. Len(v.visited) = a + 1 /\ Len(v.acted) = b /\ Len(v.todo) = c + 1 /\ a = b + c
      BY <1>1, <2>1, <2>3, <2>4, <3>1
    <3>3. a + 1 = b + (c + 1) BY <3>2
    <3> QED BY <3>2, <3>3, Zenon
  <2>6. v.memory = M - 2 * Len(v.visited)
    <3>1. PICK a, m \in Nat : a = Len(s.visited) /\ m = s.memory BY <1>a
    <3>2. m = M - 2 * a /\ v.memory = m - 2 /\ Len(v.visited) = a + 1 BY <1>4, <2>1, <2>4, <3>1
    <3>3. m - 2 = M - 2 * (a + 1) BY <3>2
    <3> QED BY <3>2, <3>3, Zenon
  <2>7. \A x : Contains(v.visited, x) <=> Contains(v.acted, x) \/ Contains(v.todo, x)
    BY <1>1, <2>1, <2>3, <2>4
  <2>8. \A x : ~(Contains(v.acted, x) /\ Contains(v.todo, x)) BY <1>1, <2>1, <2>2, <2>3
  <2>9. \A x : Contains(v.visited, x) => x \in R BY <2>1, <2>4
  <2>10. Going(v, M, R) BY <2>3, <2>4, <2>5, <2>6, <2>7, <2>8, <2>9 DEF Going
  <2>11. Walk(v, t, M, R) BY <1>0, <1>1, <1>4, <2>10 DEF Walk
  <2>12. Grows(s, v) /\ Contains(v.visited, n) BY <1>4, <2>4 DEF Grows
  <2> QED BY <1>1, <2>11, <2>12 DEF v
<1> QED BY <1>1, <1>2, <1>3, <1>4
(* No edge leads out of R.                                                  *)
Closed(R) == \A n \in R : \A i \in 1..Len(edge_list[n]) : Neighbours(n)[i] \in R

(* v has come from s, and has visited the first i neighbours of n.          *)
Spread(s, v, n, i) ==
  v.acted = s.acted /\ Grows(s, v) /\ (v.ok => \A j \in 1..i : Contains(v.visited, Neighbours(n)[j]))

(* The loop over the neighbours visits them all, or fails.                  *)
LEMMA LoopWalks ==
  ASSUME ListsOK, NEW R, R \subseteq Nodes, Closed(R), NEW M \in Nat, NEW t, NEW s, Walk(s, t, M, R),
         NEW n \in R, Len(s.acted) # 0
  PROVE  LET v == VisitLoop(t, s, n)[Len(edge_list[n])] IN
         Walk(v, t, M, R) /\ Spread(s, v, n, Len(edge_list[n]))
<1> DEFINE F == VisitLoop(t, s, n)
           m == Len(edge_list[n])
<1>0. s \in TraversalType /\ n \in Nodes BY DEF Walk
<1>1. m \in Nat /\ \A i \in 1..m : Neighbours(n)[i] \in R BY <1>0, NeighboursAre DEF Closed
<1>2. F[0] = s /\ \A i \in 1..m : F[i] = Visit(t, F[i - 1], Neighbours(n)[i]) BY <1>0, VisitLoopIs
<1> HIDE DEF F, m
<1> DEFINE P == {i \in 0..m : Walk(F[i], t, M, R) /\ Spread(s, F[i], n, i)}
<1>3. 0 \in P
  <2>1. Spread(s, s, n, 0) BY DEF Spread, Grows
  <2> QED BY <1>1, <1>2, <2>1
<1>4. ASSUME NEW i \in 1..m, i - 1 \in P PROVE i \in P
  <2>1. PICK w : w = F[i - 1] OBVIOUS
  <2>2. PICK x \in R : x = Neighbours(n)[i] BY <1>1
  <2>3. Walk(w, t, M, R) /\ Spread(s, w, n, i - 1) BY <1>4, <2>1
  <2>4. Len(w.acted) # 0 \/ Len(w.todo) = 0 BY <2>3 DEF Spread
  <2> DEFINE v == Visit(t, w, x)
  <2>5. Walk(v, t, M, R) /\ v.acted = w.acted /\ Grows(w, v) /\ (v.ok => Contains(v.visited, x))
    BY <2>3, <2>4, VisitWalks
  <2> HIDE DEF v
  <2>6. F[i] = v BY <1>2, <2>1, <2>2 DEF v
  <2>7. v.acted = s.acted /\ Grows(s, v) BY <2>3, <2>5 DEF Spread, Grows
  <2>8. ASSUME v.ok, NEW j \in 1..i PROVE Contains(v.visited, Neighbours(n)[j])
    <3>1. CASE j = i BY <2>2, <2>5, <2>8, <3>1
    <3>2. CASE j # i
      <4>1. j \in 1..(i - 1) BY <1>1, <3>2
      <4>2. w.ok BY <2>5, <2>8 DEF Grows
      <4>3. Contains(w.visited, Neighbours(n)[j]) BY <2>3, <4>1, <4>2 DEF Spread
      <4> QED BY <2>5, <2>8, <4>3 DEF Grows
    <3> QED BY <3>1, <3>2
  <2>9. Spread(s, v, n, i) BY <2>7, <2>8 DEF Spread
  <2>10. i \in 0..m BY <1>1
  <2> QED BY <2>5, <2>6, <2>9, <2>10
<1>5. m \in P
  <2> HIDE DEF P
  <2>1. \A i \in 0..m : i \in P BY <1>1, <1>3, <1>4, Climb
  <2>2. m \in 0..m BY <1>1
  <2> QED BY <2>1, <2>2
<1> QED BY <1>5 DEF F, m

(* What is left of todo when a node is taken out.                           *)
LEMMA TakesIs ==
  ASSUME NEW t, NEW L \in Seq(Nodes), Len(L) # 0, NEW n, NEW Q, Takes(t, L, n, Q), Distinct(L)
  PROVE  /\ n \in Nodes /\ Q \in Seq(Nodes) /\ Len(Q) = Len(L) - 1 /\ Distinct(Q) /\ Contains(L, n)
         /\ \A x : Contains(Q, x) <=> Contains(L, x) /\ x # n
<1>0. Len(L) \in Nat /\ Len(L) \in 1..Len(L) /\ 1 \in 1..Len(L) OBVIOUS
<1>1. n \in Nodes /\ Q \in Seq(Nodes) /\ Len(Q) = Len(L) - 1 BY DEF Takes
<1>2. CASE n = L[Len(L)] /\ \A i \in 1..Len(Q) : Q[i] = L[i]
  <2>1. \A i : i \in 1..Len(L) <=> i \in 1..Len(Q) \/ i = Len(L) BY <1>0, <1>1
  <2>2. \A i \in 1..Len(Q) : i # Len(L) BY <1>0, <1>1
  <2>3. Distinct(Q) BY <1>2, <2>1 DEF Distinct
  <2>4. ASSUME NEW x PROVE Contains(Q, x) <=> Contains(L, x) /\ x # n
    <3>1. ASSUME NEW i \in 1..Len(Q), Q[i] = x PROVE Contains(L, x) /\ x # n
      <4>1. i \in 1..Len(L) /\ L[i] = x BY <1>2, <2>1, <3>1
      <4>2. L[i] # L[Len(L)] BY <1>0, <2>2, <4>1 DEF Distinct
      <4> QED BY <1>2, <4>1, <4>2 DEF Contains
    <3>2. ASSUME NEW i \in 1..Len(L), L[i] = x, x # n PROVE Contains(Q, x)
      <4>1. i # Len(L) BY <1>2, <3>2
      <4>2. i \in 1..Len(Q) BY <2>1, <4>1
      <4> QED BY <1>2, <3>2, <4>2 DEF Contains
    <3> QED BY <3>1, <3>2 DEF Contains
  <2>5. Contains(L, n) BY <1>0, <1>2 DEF Contains
  <2> QED BY <1>1, <2>3, <2>4, <2>5
<1>3. CASE n = L[1] /\ \A i \in 1..Len(Q) : Q[i] = L[i + 1]
  <2>1. \A i \in 1..Len(Q) : i + 1 \in 1..Len(L) /\ i + 1 # 1 BY <1>0, <1>1
  <2>2. \A i \in 1..Len(L) : i # 1 => i - 1 \in 1..Len(Q) /\ (i - 1) + 1 = i BY <1>0, <1>1
  <2>3. Distinct(Q)
    <3>1. ASSUME NEW i \in 1..Len(Q), NEW j \in 1..Len(Q), Q[i] = Q[j] PROVE i = j
      <4>1. L[i + 1] = L[j + 1] BY <1>3, <3>1
      <4>2. i + 1 = j + 1 BY <2>1, <4>1 DEF Distinct
      <4> QED BY <1>1, <4>2
    <3> QED BY <3>1 DEF Distinct
  <2>4. ASSUME NEW x PROVE Contains(Q, x) <=> Contains(L, x) /\ x # n
    <3>1. ASSUME NEW i \in 1..Len(Q), Q[i] = x PROVE Contains(L, x) /\ x # n
      <4>1. i + 1 \in 1..Len(L) /\ i + 1 # 1 /\ L[i + 1] = x BY <1>3, <2>1, <3>1
      <4>2. L[i + 1] # L[1] BY <1>0, <4>1 DEF Distinct
      <4> QED BY <1>3, <4>1, <4>2 DEF Contains
    <3>2. ASSUME NEW i \in 1..Len(L), L[i] = x, x # n PROVE Contains(Q, x)
      <4>1. i # 1 BY <1>3, <3>2
      <4>2. i - 1 \in 1..Len(Q) /\ (i - 1) + 1 = i BY <2>2, <4>1
      <4>3. Q[i - 1] = x BY <1>3, <3>2, <4>2
      <4> QED BY <4>2, <4>3 DEF Contains
    <3> QED BY <3>1, <3>2 DEF Contains
  <2>5. Contains(L, n) BY <1>0, <1>3 DEF Contains
  <2> QED BY <1>1, <2>3, <2>4, <2>5
<1> QED BY <1>2, <1>3 DEF Takes

(* The traversal a is s, having acted on n.                                 *)
Acted(s, a, n) ==
  /\ a.ok /\ a.visited = s.visited /\ Len(a.acted) = Len(s.acted) + 1
  /\ \A x : Contains(a.acted, x) <=> Contains(s.acted, x) \/ x = n

(* So it is with the node that was taken.                                   *)
LEMMA ActWalks ==
  ASSUME NEW R, NEW M \in Nat, NEW t, NEW s, Walk(s, t, M, R), s.ok, Len(s.todo) # 0,
         NEW n, NEW Q, Takes(t, s.todo, n, Q), Act(s, n, Q) \in TraversalType
  PROVE  Walk(Act(s, n, Q), t, M, R) /\ n \in R /\ Acted(s, Act(s, n, Q), n)
<1>0. s \in TraversalType /\ Distinct(s.acted) /\ Going(s, M, R) BY DEF Walk
<1>a. /\ s.todo \in Seq(Nodes) /\ s.visited \in Seq(Nodes) /\ s.acted \in Seq(Nodes)
      /\ Len(s.todo) \in Nat /\ Len(s.visited) \in Nat /\ Len(s.acted) \in Nat
  BY <1>0 DEF TraversalType
<1>1. /\ Distinct(s.visited) /\ Distinct(s.todo)
      /\ Len(s.visited) = Len(s.acted) + Len(s.todo)
      /\ s.memory = M - 2 * Len(s.visited)
      /\ \A x : Contains(s.visited, x) <=> Contains(s.acted, x) \/ Contains(s.todo, x)
      /\ \A x : ~(Contains(s.acted, x) /\ Contains(s.todo, x))
      /\ \A x : Contains(s.visited, x) => x \in R
  BY <1>0 DEF Going
<1>2. /\ n \in Nodes /\ Q \in Seq(Nodes) /\ Len(Q) = Len(s.todo) - 1 /\ Distinct(Q)
      /\ Contains(s.todo, n) /\ \A x : Contains(Q, x) <=> Contains(s.todo, x) /\ x # n
  BY <1>a, <1>1, TakesIs
<1>3. PICK b : b = Append(s.acted, n) OBVIOUS
<1>4. /\ b \in Seq(Nodes) /\ Len(b) = Len(s.acted) + 1 /\ Distinct(b)
      /\ \A x : Contains(b, x) <=> Contains(s.acted, x) \/ x = n
  <2>1. ~Contains(s.acted, n) BY <1>1, <1>2
  <2>2. PICK L \in Seq(Nodes) : L = s.acted BY <1>a
  <2>3. Distinct(L) /\ ~Contains(L, n) BY <1>0, <2>1, <2>2
  <2>4. /\ Append(L, n) \in Seq(Nodes) /\ Len(Append(L, n)) = Len(L) + 1 /\ Distinct(Append(L, n))
        /\ \A x : Contains(Append(L, n), x) <=> Contains(L, x) \/ x = n
    BY <1>2, <2>3, AppendIs
  <2> QED BY <1>3, <2>2, <2>4
<1> DEFINE a == Act(s, n, Q)
<1>5. a.todo = Q /\ a.acted = b /\ a.visited = s.visited /\ a.memory = s.memory /\ a.ok
  BY <1>0, <1>3 DEF Act, TraversalType
<1>b. a \in TraversalType OBVIOUS
<1> HIDE DEF a
<1>6. Len(a.visited) = Len(a.acted) + Len(a.todo)
  <2>1. PICK x, y, z \in Nat : x = Len(s.visited) /\ y = Len(s.acted) /\ z = Len(s.todo) BY <1>a
  <2>2. Len(a.visited) = x /\ Len(a.acted) = y + 1 /\ Len(a.todo) = z - 1 /\ x = y + z
    BY <1>1, <1>2, <1>4, <1>5, <2>1
  <2>3. x = (y + 1) + (z - 1) BY <2>2
  <2> QED BY <2>2, <2>3, Zenon
<1>7. n \in R BY <1>1, <1>2
<1>8. \A x : Contains(a.visited, x) <=> Contains(a.acted, x) \/ Contains(a.todo, x)
  BY <1>1, <1>2, <1>4, <1>5
<1>9. \A x : ~(Contains(a.acted, x) /\ Contains(a.todo, x)) BY <1>1, <1>2, <1>4, <1>5
<1>10. a.memory = M - 2 * Len(a.visited) /\ Distinct(a.visited) /\ Distinct(a.todo)
  BY <1>1, <1>2, <1>5
<1>11. \A x : Contains(a.visited, x) => x \in R BY <1>1, <1>5
<1>12. Going(a, M, R) BY <1>6, <1>8, <1>9, <1>10, <1>11 DEF Going
<1>13. Distinct(a.acted) /\ \A x : Contains(a.acted, x) => x \in R BY <1>4, <1>5, <1>8, <1>11
<1>14. Walk(a, t, M, R) BY <1>5, <1>b, <1>12, <1>13 DEF Walk
<1>15. Acted(s, a, n) BY <1>4, <1>5 DEF Acted
<1> QED BY <1>7, <1>14, <1>15 DEF a
(* A traversal after i turns: the neighbours of what it acted on and the    *)
(* node it began with are visited, and it has acted i times unless it is    *)
(* over.                                                                    *)
Expanded(s) ==
  \A n : Contains(s.acted, n) =>
    \A i \in 1..Len(edge_list[n]) : Contains(s.visited, Neighbours(n)[i])

After(s, t, M, R, start, i) ==
  /\ Walk(s, t, M, R)
  /\ s.ok => /\ Expanded(s) /\ Contains(s.visited, start)
             /\ Len(s.todo) = 0 \/ Len(s.acted) >= i

(* One turn more.                                                           *)
LEMMA TurnWalks ==
  ASSUME ListsOK, NEW R, R \subseteq Nodes, Closed(R), NEW M \in Nat, NEW t, NEW start, NEW s,
         NEW i \in Nat, i # 0, After(s, t, M, R, start, i - 1)
  PROVE  After(Turn(t, s), t, M, R, start, i)
<1>0. s \in TraversalType /\ Walk(s, t, M, R) BY DEF After, Walk
<1>1. CASE (~s.ok \/ Len(s.todo) = 0) /\ Turn(t, s) = s BY <1>1 DEF After
<1>2. CASE /\ s.ok /\ Len(s.todo) # 0
           /\ \E n, Q : /\ Takes(t, s.todo, n, Q) /\ Act(s, n, Q) \in TraversalType
                        /\ Turn(t, s) = VisitLoop(t, Act(s, n, Q), n)[Len(edge_list[n])]
  <2>1. PICK n, Q : /\ Takes(t, s.todo, n, Q) /\ Act(s, n, Q) \in TraversalType
                    /\ Turn(t, s) = VisitLoop(t, Act(s, n, Q), n)[Len(edge_list[n])]
    BY <1>2
  <2> DEFINE a == Act(s, n, Q)
  <2>2. /\ Walk(a, t, M, R) /\ n \in R /\ a.ok /\ a.visited = s.visited
        /\ Len(a.acted) = Len(s.acted) + 1
        /\ \A x : Contains(a.acted, x) <=> Contains(s.acted, x) \/ x = n
    <3>1. s.ok /\ Len(s.todo) # 0 BY <1>2
    <3>2. Takes(t, s.todo, n, Q) /\ Act(s, n, Q) \in TraversalType BY <2>1
    <3>3. Walk(a, t, M, R) /\ n \in R /\ Acted(s, a, n) BY <1>0, <3>1, <3>2, ActWalks
    <3> HIDE DEF a
    <3> QED BY <3>3 DEF Acted
  <2>3. Len(s.acted) \in Nat BY <1>0 DEF TraversalType
  <2>a. Turn(t, s) = VisitLoop(t, a, n)[Len(edge_list[n])] BY <2>1
  <2> HIDE DEF a
  <2>4. Len(a.acted) # 0 BY <2>2, <2>3
  <2>5. PICK v : v = Turn(t, s) OBVIOUS
  <2>6. Walk(v, t, M, R) /\ Spread(a, v, n, Len(edge_list[n]))
    <3>1. v = VisitLoop(t, a, n)[Len(edge_list[n])] BY <2>5, <2>a
    <3> QED BY <2>2, <2>4, <3>1, LoopWalks
  <2>7. /\ v.acted = a.acted
        /\ v.ok => \A x : Contains(a.visited, x) => Contains(v.visited, x)
        /\ v.ok => \A j \in 1..Len(edge_list[n]) : Contains(v.visited, Neighbours(n)[j])
    BY <2>6 DEF Spread, Grows
  <2>8. Expanded(s) /\ Contains(s.visited, start) /\ Len(s.acted) >= i - 1 BY <1>2 DEF After
  <2>9. ASSUME v.ok PROVE Expanded(v)
    <3>1. ASSUME NEW x, Contains(v.acted, x), NEW j \in 1..Len(edge_list[x])
          PROVE  Contains(v.visited, Neighbours(x)[j])
      <4>1. CASE x = n BY <2>7, <2>9, <3>1, <4>1
      <4>2. CASE x # n
        <5>1. Contains(s.acted, x) BY <2>2, <2>7, <3>1, <4>2
        <5>2. Contains(s.visited, Neighbours(x)[j]) BY <2>8, <3>1, <5>1 DEF Expanded
        <5> QED BY <2>2, <2>7, <2>9, <5>2
      <4> QED BY <4>1, <4>2
    <3> QED BY <3>1 DEF Expanded
  <2>10. v.ok => Contains(v.visited, start) BY <2>2, <2>7, <2>8
  <2>11. Len(v.acted) >= i
    <3>1. PICK k \in Nat : k = Len(s.acted) BY <2>3
    <3>2. Len(v.acted) = k + 1 /\ k >= i - 1 BY <2>2, <2>7, <2>8, <3>1
    <3>3. k + 1 >= i BY <3>2
    <3> QED BY <3>2, <3>3
  <2>12. After(v, t, M, R, start, i) BY <2>6, <2>9, <2>10, <2>11 DEF After
  <2> QED BY <2>5, <2>12
<1> QED BY <1>0, <1>1, <1>2, TurnIs

(* How it ends: what it acts on is in R, and on nothing twice; and unless   *)
(* it fails it has acted on the node it began with, on all the neighbours   *)
(* of what it acted on, and nothing waits any more.                         *)
Done(s, t, M, R, start) ==
  /\ Walk(s, t, M, R)
  /\ s.ok => /\ s.todo = <<>> /\ Contains(s.acted, start)
             /\ \A n : Contains(s.acted, n) =>
                  \A i \in 1..Len(edge_list[n]) : Contains(s.acted, Neighbours(n)[i])

(* Every traversal ends so.                                                 *)
LEMMA TraverseEnds ==
  ASSUME ListsOK, NEW R, R \subseteq Nodes, Closed(R), NEW M \in Nat, NEW t, NEW start \in R
  PROVE  Done(Traverse(t, Visit(t, Begin(M), start)), t, M, R, start)
<1> DEFINE b == Visit(t, Begin(M), start)
           F == TraverseLoop(t, b)
           m == Cardinality(Nodes)
<1>0. m \in Nat /\ IsFiniteSet(R) /\ Cardinality(R) \in Nat /\ Cardinality(R) <= m
  <2>1. IsFiniteSet(Nodes) BY GraphConstants
  <2>2. R \in SUBSET Nodes OBVIOUS
  <2>3. IsFiniteSet(R) /\ Cardinality(R) <= Cardinality(Nodes) BY <2>1, <2>2, FS_Subset
  <2> QED BY <2>1, <2>3, FS_CardinalityType
<1>1. After(b, t, M, R, start, 0)
  <2> DEFINE g == Begin(M)
  <2>1. /\ g \in TraversalType /\ g.todo = <<>> /\ g.visited = <<>> /\ g.acted = <<>>
        /\ g.memory = M /\ g.ok
    BY BeginIs
  <2> HIDE DEF g
  <2>2. Len(<<>>) = 0 /\ Distinct(<<>>) /\ \A x : ~Contains(<<>>, x) BY DEF Distinct, Contains
  <2>3. M = M - 2 * 0 /\ 0 = 0 + 0 OBVIOUS
  <2>4. Going(g, M, R)
    <3>1. /\ Distinct(g.visited) /\ Distinct(g.todo) BY <2>1, <2>2
    <3>2. Len(g.visited) = 0 /\ Len(g.acted) = 0 /\ Len(g.todo) = 0 BY <2>1, <2>2
    <3>3. Len(g.visited) = Len(g.acted) + Len(g.todo) BY <2>3, <3>2, Zenon
    <3>4. g.memory = M - 2 * Len(g.visited) BY <2>1, <2>3, <3>2, Zenon
    <3>5. \A x : ~Contains(g.visited, x) /\ ~Contains(g.acted, x) /\ ~Contains(g.todo, x) BY <2>1, <2>2
    <3> QED BY <3>1, <3>3, <3>4, <3>5 DEF Going
  <2>5. Walk(g, t, M, R) BY <2>1, <2>2, <2>4 DEF Walk
  <2>6. /\ Walk(b, t, M, R) /\ b.acted = g.acted /\ (b.ok => Contains(b.visited, start))
    <3>1. Len(g.todo) = 0 BY <2>1, <2>2
    <3> QED BY <2>5, <3>1, VisitWalks DEF g
  <2> HIDE DEF b
  <2>7. Expanded(b) BY <2>1, <2>2, <2>6 DEF Expanded
  <2>8. Len(b.acted) >= 0 BY <2>1, <2>2, <2>6
  <2> QED BY <2>6, <2>7, <2>8 DEF After
<1>2. b \in TraversalType BY <1>1 DEF After, Walk
<1> HIDE DEF b
<1>3. /\ Traverse(t, b) = F[m] /\ F[0] = b /\ \A i \in 1..m : F[i] = Turn(t, F[i - 1])
  BY <1>2, TraverseIs
<1> HIDE DEF F, m
<1> DEFINE P == {i \in 0..m : After(F[i], t, M, R, start, i)}
<1>4. 0 \in P BY <1>0, <1>1, <1>3
<1>5. ASSUME NEW i \in 1..m, i - 1 \in P PROVE i \in P
  <2>1. PICK w : w = F[i - 1] OBVIOUS
  <2>2. After(w, t, M, R, start, i - 1) BY <1>5, <2>1
  <2>3. i \in Nat /\ i # 0 /\ i \in 0..m BY <1>0
  <2>4. After(Turn(t, w), t, M, R, start, i) BY <2>2, <2>3, TurnWalks
  <2>5. F[i] = Turn(t, w) BY <1>3, <2>1
  <2> QED BY <2>3, <2>4, <2>5
<1>6. After(F[m], t, M, R, start, m)
  <2> HIDE DEF P
  <2>1. \A i \in 0..m : i \in P BY <1>0, <1>4, <1>5, Climb
  <2>2. m \in 0..m BY <1>0
  <2> QED BY <2>1, <2>2 DEF P
<1>7. PICK s : s = F[m] OBVIOUS
<1>8. Walk(s, t, M, R) BY <1>6, <1>7 DEF After
<1>9. ASSUME s.ok
      PROVE  /\ s.todo = <<>> /\ Contains(s.acted, start)
             /\ \A n : Contains(s.acted, n) =>
                  \A i \in 1..Len(edge_list[n]) : Contains(s.acted, Neighbours(n)[i])
  <2>1. Going(s, M, R) /\ s \in TraversalType BY <1>8, <1>9 DEF Walk
  <2>2. /\ s.todo \in Seq(Nodes) /\ s.visited \in Seq(Nodes) /\ s.acted \in Seq(Nodes)
        /\ Len(s.todo) \in Nat /\ Len(s.visited) \in Nat /\ Len(s.acted) \in Nat
    BY <2>1 DEF TraversalType
  <2>3. /\ Expanded(s) /\ Contains(s.visited, start)
        /\ Len(s.todo) = 0 \/ Len(s.acted) >= m
    BY <1>6, <1>7, <1>9 DEF After
  <2>4. Len(s.visited) <= Cardinality(R)
    <3>1. Distinct(s.visited) /\ \A x : Contains(s.visited, x) => x \in R BY <2>1 DEF Going
    <3> QED BY <1>0, <2>2, <3>1, DistinctFits
  <2>5. Len(s.todo) = 0
    <3>1. PICK x, y, z, c \in Nat : /\ x = Len(s.visited) /\ y = Len(s.acted) /\ z = Len(s.todo)
                                    /\ c = Cardinality(R)
      BY <1>0, <2>2
    <3>2. x = y + z /\ x <= c /\ c <= m /\ (z = 0 \/ y >= m) BY <1>0, <2>1, <2>3, <2>4, <3>1 DEF Going
    <3>3. z = 0 BY <1>0, <3>2
    <3> QED BY <3>1, <3>3
  <2>6. s.todo = <<>> BY <2>2, <2>5, EmptySeq
  <2>7. \A x : ~Contains(s.todo, x) BY <2>5 DEF Contains
  <2>8. \A x : Contains(s.visited, x) <=> Contains(s.acted, x) BY <2>1, <2>7 DEF Going
  <2> QED BY <2>3, <2>6, <2>8 DEF Expanded
<1>10. Done(s, t, M, R, start) BY <1>8, <1>9 DEF Done
<1> QED BY <1>3, <1>7, <1>10 DEF b
(* The nodes that edges lead to when each is followed from its node_1 only, *)
(* as the traversals do.                                                    *)
Forward(start) ==
  {n \in node_list : \A S \in SUBSET node_list :
     (start \in S /\ \A e \in Live : edge[e].node_1 \in S => edge[e].node_2 \in S) => n \in S}

(* In a whole graph, an edge leads to a neighbour; and the nodes of the     *)
(* graph and the nodes that can be reached are closed.                      *)
LEMMA WholeClosed ==
  ASSUME GraphInv, Whole
  PROVE  /\ node_list \subseteq Nodes /\ Closed(node_list)
         /\ \A e \in Live : edge[e].node_1 \in node_list =>
              \E i \in 1..Len(edge_list[edge[e].node_1]) :
                Neighbours(edge[e].node_1)[i] = edge[e].node_2
         /\ \A start \in node_list : /\ start \in Forward(start) /\ Forward(start) \subseteq node_list
                                     /\ Closed(Forward(start))
<1>0. TypeOK /\ Graph \in GraphType /\ Sound(edge, Graph) /\ ListsOK BY InvIs DEF GraphInv
<1>1. Graph.list = edge_list /\ Graph.freed = freed BY <1>0, GraphIs
<1>2. WholeIn(edge, Graph) /\ EndsAmong(edge, freed, node_list) /\ Live = LiveIn(edge, freed)
  BY <1>0, WholeIs
<1>3. node_list \subseteq Nodes BY <1>0 DEF TypeOK
<1>4. ASSUME NEW n \in node_list, NEW i \in 1..Len(edge_list[n])
      PROVE  \E e \in Live : /\ Neighbours(n)[i] = edge[e].node_2
                             /\ edge[e].node_1 = n \/ edge[e].node_2 = n
                             /\ edge[e].node_1 \in node_list /\ edge[e].node_2 \in node_list
  <2>0. n \in Nodes BY <1>3
  <2>1. PICK e : e = edge_list[n][i] OBVIOUS
  <2>2. e \in Live /\ Belongs(edge, e, n) BY <1>0, <1>1, <1>2, <2>0, <2>1, LiveEntry
  <2>3. Neighbours(n)[i] = edge[e].node_2 BY <1>0, <2>0, <2>1, NeighboursAre
  <2>4. Ends(edge, e) \subseteq node_list BY <1>2, <2>2 DEF EndsAmong
  <2> QED BY <2>2, <2>3, <2>4 DEF Belongs, Ends
<1>5. Closed(node_list) BY <1>4 DEF Closed
<1>6. ASSUME NEW e \in Live, edge[e].node_1 \in node_list
      PROVE  \E i \in 1..Len(edge_list[edge[e].node_1]) :
               Neighbours(edge[e].node_1)[i] = edge[e].node_2
  <2>1. PICK n \in Nodes : n = edge[e].node_1 BY <1>3, <1>6
  <2>2. edge[e] \in EdgeType BY <1>0, <1>2 DEF LiveIn, TypeOK
  <2>3. CopiesOf(edge_list[n], e) = DueIn(edge, e, n) BY <1>1, <1>2 DEF WholeIn
  <2>4. DueIn(edge, e, n) # 0
    <3>1. n \in Ends(edge, e) BY <2>1 DEF Ends
    <3>2. CASE edge[e].is_directed BY <2>1, <2>2, <3>2, DueIs
    <3>3. CASE ~edge[e].is_directed BY <2>2, <3>1, <3>3, DueIs
    <3> QED BY <3>2, <3>3
  <2>5. Len(edge_list[n]) \in Nat BY <1>0, NeighboursAre
  <2>6. Contains(edge_list[n], e) BY <2>3, <2>4, <2>5, CopiesType
  <2>7. PICK i \in 1..Len(edge_list[n]) : edge_list[n][i] = e BY <2>6 DEF Contains
  <2>8. Neighbours(n)[i] = edge[e].node_2 BY <1>0, <2>7, NeighboursAre
  <2> QED BY <2>1, <2>8
<1>7. ASSUME NEW start \in node_list
      PROVE  /\ start \in Forward(start) /\ Forward(start) \subseteq node_list /\ Closed(Forward(start))
  <2>1. start \in Forward(start) /\ Forward(start) \subseteq node_list BY DEF Forward
  <2>2. ASSUME NEW n \in Forward(start), NEW i \in 1..Len(edge_list[n])
        PROVE  Neighbours(n)[i] \in Forward(start)
    <3>1. n \in node_list BY <2>1
    <3>2. PICK e \in Live : /\ Neighbours(n)[i] = edge[e].node_2
                            /\ edge[e].node_1 = n \/ edge[e].node_2 = n
                            /\ edge[e].node_1 \in node_list /\ edge[e].node_2 \in node_list
      BY <1>4, <3>1
    <3>3. CASE edge[e].node_2 = n BY <3>2, <3>3
    <3>4. CASE edge[e].node_1 = n
      <4>1. ASSUME NEW S \in SUBSET node_list, start \in S,
                   \A x \in Live : edge[x].node_1 \in S => edge[x].node_2 \in S
            PROVE  edge[e].node_2 \in S
        <5>1. n \in S BY <4>1 DEF Forward
        <5> QED BY <3>4, <4>1, <5>1
      <4>2. edge[e].node_2 \in Forward(start) BY <3>2, <4>1 DEF Forward
      <4> QED BY <3>2, <4>2
    <3> QED BY <3>2, <3>3, <3>4
  <2> QED BY <2>1, <2>2 DEF Closed
<1> QED BY <1>3, <1>5, <1>6, <1>7

(* They are some of those that edges lead to, and all of them when every    *)
(* edge is directed.                                                        *)
LEMMA ForwardIsReach ==
  ASSUME GraphInv, Whole, NEW start \in node_list
  PROVE  /\ Forward(start) \subseteq Reach(start)
         /\ AllDirected => Forward(start) = Reach(start)
<1>1. ASSUME NEW e \in Live PROVE edge[e].node_1 \in node_list /\ edge[e].node_2 \in node_list
  BY DEF Whole
<1>2. ASSUME NEW n \in Forward(start) PROVE n \in Reach(start)
  <2>1. ASSUME NEW S \in SUBSET node_list, start \in S,
               \A e \in Live : \A m \in S, k \in node_list \ S : ~Leads(e, m, k)
        PROVE  n \in S
    <3>1. ASSUME NEW e \in Live, edge[e].node_1 \in S PROVE edge[e].node_2 \in S
      <4>1. Leads(e, edge[e].node_1, edge[e].node_2) BY DEF Leads
      <4> QED BY <1>1, <2>1, <3>1, <4>1
    <3> QED BY <2>1, <3>1 DEF Forward
  <2>2. n \in node_list BY DEF Forward
  <2> QED BY <2>1, <2>2 DEF Reach
<1>3. ASSUME AllDirected, NEW n \in Reach(start) PROVE n \in Forward(start)
  <2>1. ASSUME NEW S \in SUBSET node_list, start \in S,
               \A e \in Live : edge[e].node_1 \in S => edge[e].node_2 \in S
        PROVE  n \in S
    <3>1. ASSUME NEW e \in Live, NEW m \in S, NEW k \in node_list \ S PROVE ~Leads(e, m, k)
      <4>1. edge[e].is_directed BY <1>3 DEF AllDirected
      <4> QED BY <2>1, <4>1 DEF Leads
    <3> QED BY <2>1, <3>1 DEF Reach
  <2>2. n \in node_list BY DEF Reach
  <2> QED BY <2>1, <2>2 DEF Forward
<1> QED BY <1>2, <1>3

(* What is shown of one traversal.                                          *)
Reaches(s, start) ==
  /\ IsInjective(s.acted) /\ Range(s.acted) \subseteq Forward(start)
  /\ s.ok => s.todo = <<>> /\ Range(s.acted) = Forward(start)

(* It holds of each, and a traversal with enough memory fails only when the *)
(* stack is too small for the graph.                                        *)
LEMMA TraverseReaches ==
  ASSUME GraphInv, Whole, NEW start \in node_list, NEW t
  PROVE  LET s == Traverse(t, Visit(t, Begin(EnoughMemory), start)) IN
         /\ Reaches(s, start)
         /\ ~s.ok => t = "stack" /\ ~(Cardinality(node_list) <= MAX_STACK_SIZE + 1)
<1> DEFINE R == Forward(start)
           s == Traverse(t, Visit(t, Begin(EnoughMemory), start))
<1>0. ListsOK BY InvIs
<1>1. /\ node_list \subseteq Nodes /\ start \in R /\ R \subseteq node_list /\ Closed(R)
      /\ \A e \in Live : edge[e].node_1 \in node_list =>
           \E i \in 1..Len(edge_list[edge[e].node_1]) :
             Neighbours(edge[e].node_1)[i] = edge[e].node_2
  BY WholeClosed
<1>2. /\ IsFiniteSet(node_list) /\ IsFiniteSet(Nodes) /\ Cardinality(Nodes) \in Nat
      /\ Cardinality(node_list) \in Nat /\ Cardinality(R) <= Cardinality(node_list)
      /\ Cardinality(R) \in Nat /\ MAX_STACK_SIZE \in Nat
  <2>1. IsFiniteSet(Nodes) /\ MAX_STACK_SIZE \in Nat BY GraphConstants
  <2>2. node_list \in SUBSET Nodes /\ R \in SUBSET node_list BY <1>1
  <2>3. IsFiniteSet(node_list) BY <2>1, <2>2, FS_Subset
  <2> HIDE DEF R
  <2>4. IsFiniteSet(R) /\ Cardinality(R) <= Cardinality(node_list) BY <2>2, <2>3, FS_Subset
  <2> QED BY <2>1, <2>3, <2>4, FS_CardinalityType
<1>3. PICK M \in Nat : M = EnoughMemory /\ ~(M < 2 * Cardinality(Nodes))
  <2>1. 2 * Cardinality(Nodes) \in Nat /\ ~(2 * Cardinality(Nodes) < 2 * Cardinality(Nodes)) BY <1>2
  <2> QED BY <2>1 DEF EnoughMemory
<1>4. Done(s, t, M, R, start)
  <2>1. R \subseteq Nodes BY <1>1
  <2> HIDE DEF R
  <2>2. Done(Traverse(t, Visit(t, Begin(M), start)), t, M, R, start)
    BY <1>0, <1>1, <2>1, TraverseEnds
  <2> QED BY <1>3, <2>2
<1> HIDE DEF s
<1>5. /\ s.acted \in Seq(Nodes) /\ Distinct(s.acted) /\ \A n : Contains(s.acted, n) => n \in R
      /\ ~s.ok => t = "stack" /\ Cardinality(R) >= MAX_STACK_SIZE + 2
  BY <1>3, <1>4 DEF Done, Walk, TraversalType
<1>6. DOMAIN s.acted = 1..Len(s.acted) BY <1>5
<1>7. IsInjective(s.acted) BY <1>5, <1>6 DEF IsInjective, Distinct
<1>8. \A n : n \in Range(s.acted) <=> Contains(s.acted, n) BY <1>6 DEF Range, Contains
<1>9. Range(s.acted) \subseteq R BY <1>5, <1>8
<1>10. ASSUME s.ok PROVE s.todo = <<>> /\ Range(s.acted) = R
  <2>1. /\ s.todo = <<>> /\ Contains(s.acted, start)
        /\ \A n : Contains(s.acted, n) =>
             \A i \in 1..Len(edge_list[n]) : Contains(s.acted, Neighbours(n)[i])
    BY <1>4, <1>10 DEF Done
  <2>2. PICK S : S = Range(s.acted) OBVIOUS
  <2>3. S \in SUBSET node_list /\ start \in S BY <1>1, <1>8, <1>9, <2>1, <2>2
  <2>4. ASSUME NEW e \in Live, edge[e].node_1 \in S PROVE edge[e].node_2 \in S
    <3>1. PICK n : n = edge[e].node_1 OBVIOUS
    <3>2. n \in node_list /\ Contains(s.acted, n) BY <1>8, <2>2, <2>3, <2>4, <3>1
    <3>3. PICK i \in 1..Len(edge_list[n]) : Neighbours(n)[i] = edge[e].node_2 BY <1>1, <3>1, <3>2
    <3>4. Contains(s.acted, edge[e].node_2) BY <2>1, <3>2, <3>3
    <3> QED BY <1>8, <2>2, <3>4
  <2>5. R \subseteq S BY <2>3, <2>4 DEF Forward
  <2> HIDE DEF R
  <2> QED BY <1>9, <2>1, <2>2, <2>5
<1>11. ~s.ok => t = "stack" /\ ~(Cardinality(node_list) <= MAX_STACK_SIZE + 1)
  <2>1. ASSUME Cardinality(R) >= MAX_STACK_SIZE + 2
        PROVE  ~(Cardinality(node_list) <= MAX_STACK_SIZE + 1)
    <3> HIDE DEF R
    <3> QED BY <1>2, <2>1
  <2> QED BY <1>5, <2>1
<1>12. Reaches(s, start) BY <1>7, <1>9, <1>10 DEF Reaches
<1> QED BY <1>11, <1>12 DEF s

(* And what TraversalsReach says of it.                                     *)
ReachesSome(s, start) ==
  /\ IsInjective(s.acted) /\ Range(s.acted) \subseteq Reach(start)
  /\ s.ok => s.todo = <<>> /\ (AllDirected => Range(s.acted) = Reach(start))

LEMMA ReachesEnough ==
  ASSUME GraphInv, Whole, NEW start \in node_list, NEW s, Reaches(s, start)
  PROVE  ReachesSome(s, start)
<1>1. PICK F, R : F = Forward(start) /\ R = Reach(start) OBVIOUS
<1>2. F \subseteq R /\ (AllDirected => F = R) BY <1>1, ForwardIsReach
<1>3. /\ IsInjective(s.acted) /\ Range(s.acted) \subseteq F
      /\ s.ok => s.todo = <<>> /\ Range(s.acted) = F
  BY <1>1 DEF Reaches
<1>4. Range(s.acted) \subseteq R BY <1>2, <1>3
<1>5. s.ok => s.todo = <<>> /\ (AllDirected => Range(s.acted) = R) BY <1>2, <1>3
<1> QED BY <1>1, <1>3, <1>4, <1>5 DEF ReachesSome

(* With enough memory both traversals of a whole graph end, the depth-first *)
(* one unless its stack is too small for the graph.  They act on no node    *)
(* twice and on none that edges do not lead to from the start; when every   *)
(* edge is directed, on all that they lead to.                              *)
THEOREM GraphTraversalsReach == Spec => []TraversalsReach
<1>1. GraphInv => TraversalsReach
  <2>1. SUFFICES ASSUME GraphInv, Whole, NEW start \in node_list
                 PROVE  LET dfs == graph_dfs(start, EnoughMemory)
                            bfs == graph_bfs(start, EnoughMemory)
                        IN  /\ bfs.ok /\ (Cardinality(node_list) <= MAX_STACK_SIZE + 1 => dfs.ok)
                            /\ \A s \in {dfs, bfs} : ReachesSome(s, start)
    BY DEF TraversalsReach, ReachesSome
  <2>2. EnoughMemory \in Nat /\ start \in Nodes
    <3>1. Cardinality(Nodes) \in Nat BY GraphConstants, FS_CardinalityType
    <3>2. 2 * Cardinality(Nodes) \in Nat BY <3>1
    <3>3. EnoughMemory \in Nat BY <3>2 DEF EnoughMemory
    <3>4. node_list \subseteq Nodes BY <2>1 DEF GraphInv, TypeOK
    <3> QED BY <3>3, <3>4
  <2>3. PICK b : b = graph_bfs(start, EnoughMemory) OBVIOUS
  <2>4. PICK d : d = graph_dfs(start, EnoughMemory) OBVIOUS
  <2>5. b = Traverse("queue", Visit("queue", Begin(EnoughMemory), start)) BY <2>2, <2>3, BeginIs
  <2>6. d = Traverse("stack", Visit("stack", Begin(EnoughMemory), start)) BY <2>2, <2>4, BeginIs
  <2>7. Reaches(b, start) /\ (~b.ok => "queue" = "stack") BY <2>1, <2>5, TraverseReaches
  <2>8. Reaches(d, start) /\ (~d.ok => ~(Cardinality(node_list) <= MAX_STACK_SIZE + 1))
    BY <2>1, <2>6, TraverseReaches
  <2>9. b.ok /\ (Cardinality(node_list) <= MAX_STACK_SIZE + 1 => d.ok) BY <2>7, <2>8
  <2>10. ReachesSome(b, start) /\ ReachesSome(d, start) BY <2>1, <2>7, <2>8, ReachesEnough
  <2> QED BY <2>3, <2>4, <2>9, <2>10
<1> QED BY <1>1, GraphStaysSound, PTL
----------------------------------------------------------------------------
(* The lists m have one copy of y more than l, in the list of n.            *)
OneMore(l, m, n, y) ==
  \A d \in Nodes : \A x :
    CopiesOf(m[d], x) = IF d = n /\ y = x THEN CopiesOf(l[d], x) + 1 ELSE CopiesOf(l[d], x)

(* So does a push.                                                          *)
LEMMA PushAtCopies ==
  ASSUME NEW l \in [Nodes -> Seq(Edges)], NEW n \in Nodes, NEW e \in Edges
  PROVE  OneMore(l, PushAt(l, n, e), n, e)
<1> DEFINE m == PushAt(l, n, e)
<1>1. IsPush(l[n], m[n], e) /\ \A c \in Nodes : c # n => m[c] = l[c] BY PushAtIs
<1> HIDE DEF m
<1>2. ASSUME NEW d \in Nodes, NEW x
      PROVE  CopiesOf(m[d], x) =
               IF d = n /\ e = x THEN CopiesOf(l[d], x) + 1 ELSE CopiesOf(l[d], x)
  <2>1. CASE d = n
    <3>1. CopiesOf(m[n], x) = IF e = x THEN CopiesOf(l[n], x) + 1 ELSE CopiesOf(l[n], x)
      BY <1>1, PushCopies
    <3> QED BY <2>1, <3>1
  <2>2. CASE d # n
    <3>1. m[d] = l[d] BY <1>1, <2>2
    <3> QED BY <2>2, <3>1
  <2> QED BY <2>1, <2>2
<1> QED BY <1>2 DEF OneMore, m

(* The lists m have a new edge e once for each of its ends that it is due   *)
(* at, and all other edges as l has them.                                   *)
NewIn(E, l, m, e) ==
  \A d \in Nodes : /\ CopiesOf(m[d], e) = DueIn(E, e, d)
                  /\ \A x : x # e => CopiesOf(m[d], x) = CopiesOf(l[d], x)

(* That is what graph_add_edge makes of the lists.                          *)
LEMMA WithEdgeCopies ==
  ASSUME NEW g \in GraphType, NEW E, NEW e \in Edges, NEW d1 \in Nodes, NEW d2 \in Nodes,
         NEW b \in BOOLEAN, E[e] = [node_1 |-> d1, node_2 |-> d2, is_directed |-> ~b],
         \A d \in Nodes : ~Contains(g.list[d], e)
  PROVE  NewIn(E, g.list, WithEdge(g, e, d1, d2, b).list, e)
<1> DEFINE f == push_head(g, d1, e)
           k == push_head(f, d2, e)
<1>0. g.list \in [Nodes -> Seq(Edges)] BY DEF GraphType
<1>1. f \in GraphType /\ f.list = PushAt(g.list, d1, e) BY PushHeadIs
<1>2. WithEdge(g, e, d1, d2, b) = IF b THEN k ELSE f BY DEF WithEdge
<1> HIDE DEF f
<1>3. k \in GraphType /\ k.list = PushAt(f.list, d2, e) BY <1>1, PushHeadIs
<1> HIDE DEF k
<1>4. f.list \in [Nodes -> Seq(Edges)] BY <1>1 DEF GraphType
<1>5. OneMore(g.list, f.list, d1, e) BY <1>0, <1>1, PushAtCopies
<1>6. OneMore(f.list, k.list, d2, e) BY <1>3, <1>4, PushAtCopies
<1>7. ASSUME NEW d \in Nodes PROVE CopiesOf(g.list[d], e) = 0
  <2>1. g.list[d] \in Seq(Edges) BY <1>0
  <2>2. Len(g.list[d]) \in Nat BY <2>1
  <2> QED BY <2>2, CopiesType
<1>8. ASSUME NEW d \in Nodes PROVE CopiesOf(f.list[d], e) = IF d = d1 THEN 1 ELSE 0
  <2>1. CopiesOf(f.list[d], e) = IF d = d1 THEN CopiesOf(g.list[d], e) + 1 ELSE CopiesOf(g.list[d], e)
    BY <1>5 DEF OneMore
  <2> QED BY <1>7, <2>1
<1>9. ASSUME NEW d \in Nodes
      PROVE  CopiesOf(k.list[d], e) = (IF d = d1 THEN 1 ELSE 0) + (IF d = d2 THEN 1 ELSE 0)
  <2>1. CopiesOf(k.list[d], e) = IF d = d2 THEN CopiesOf(f.list[d], e) + 1 ELSE CopiesOf(f.list[d], e)
    BY <1>6 DEF OneMore
  <2> QED BY <1>8, <2>1
<1>10. ASSUME NEW d \in Nodes
       PROVE  DueIn(E, e, d) = (IF d = d1 THEN 1 ELSE 0) + (IF d = d2 /\ b THEN 1 ELSE 0)
  <2>1. E[e].node_1 = d1 /\ E[e].node_2 = d2 OBVIOUS
  <2>2. E[e].is_directed = ~b OBVIOUS
  <2>3. ~E[e].is_directed <=> b BY <2>2, Zenon
  <2>4. DueIn(E, e, d) = (IF d1 = d THEN 1 ELSE 0) + (IF d2 = d /\ ~E[e].is_directed THEN 1 ELSE 0)
    BY <2>1 DEF DueIn
  <2>5. CASE b BY <2>3, <2>4, <2>5
  <2>6. CASE ~b BY <2>3, <2>4, <2>6
  <2> QED BY <2>5, <2>6
<1>11. ASSUME NEW d \in Nodes, NEW x, x # e
       PROVE  /\ CopiesOf(f.list[d], x) = CopiesOf(g.list[d], x)
              /\ CopiesOf(k.list[d], x) = CopiesOf(g.list[d], x)
  BY <1>5, <1>6, <1>11 DEF OneMore
<1>12. CASE b
  <2>1. WithEdge(g, e, d1, d2, b).list = k.list BY <1>2, <1>12
  <2>2. NewIn(E, g.list, k.list, e) BY <1>9, <1>10, <1>11, <1>12 DEF NewIn
  <2> QED BY <2>1, <2>2
<1>13. CASE ~b
  <2>1. WithEdge(g, e, d1, d2, b).list = f.list BY <1>2, <1>13
  <2>2. ASSUME NEW d \in Nodes PROVE CopiesOf(f.list[d], e) = DueIn(E, e, d) BY <1>8, <1>10, <1>13
  <2>3. NewIn(E, g.list, f.list, e) BY <1>11, <2>2 DEF NewIn
  <2> QED BY <2>1, <2>3
<1> QED BY <1>12, <1>13
(* Adding a node leaves a whole graph.                                      *)
LEMMA AddNodeWhole ==
  ASSUME GraphInv, Whole, NEW d \in Nodes, NEW v \in Data, graph_add_node(d, v)
  PROVE  status' = "ok" /\ Whole'
<1>0. TypeOK BY DEF GraphInv
<1>1. /\ node_list \subseteq node_list' /\ edge_list' = edge_list /\ edge_count' = edge_count
      /\ edge' = edge /\ freed' = freed /\ status' = "ok"
  BY DEF graph_add_node
<1>2. TypeOK' BY AddNodeKeeps DEF GraphInv
<1>3. WholeIn(edge, Graph) /\ EndsAmong(edge, freed, node_list) BY <1>0, WholeIs
<1>4. Graph' = Graph BY <1>1 DEF Graph
<1>5. EndsAmong(edge', freed', node_list') BY <1>1, <1>3 DEF EndsAmong
<1>6. WholeIn(edge', Graph') BY <1>1, <1>3, <1>4
<1> QED BY <1>1, <1>2, <1>5, <1>6, WholeNext

(* So does adding an edge.                                                  *)
LEMMA AddEdgeWhole ==
  ASSUME GraphInv, Whole, NEW e \in Edges, NEW d1 \in Nodes, NEW d2 \in Nodes, NEW b \in BOOLEAN,
         graph_add_edge(e, d1, d2, b)
  PROVE  status' = "ok" /\ Whole'
<1>0. TypeOK /\ Graph \in GraphType BY InvIs DEF GraphInv
<1>1. NewEdge(e, d1, d2, b) /\ Put(WithEdge(Graph, e, d1, d2, b)) BY DEF graph_add_edge
<1>2. status = "ok" /\ d1 \in node_list /\ d2 \in node_list BY <1>1 DEF NewEdge, Found
<1>3. PICK E : E = edge' OBVIOUS
<1>4. /\ E[e] = [node_1 |-> d1, node_2 |-> d2, is_directed |-> ~b] /\ E[e] \in EdgeType
      /\ \A u \in Edges : u # e => E[u] = edge[u]
      /\ Sound(E, Graph) /\ edge[e] = NULL /\ e \notin freed /\ E[e] # NULL
      /\ node_list' = node_list /\ status' = status
  BY <1>1, <1>3, NewEdgeIs
<1>5. \A d \in Nodes : ~Contains(Graph.list[d], e) BY <1>4, UnusedEdge
<1> DEFINE h == WithEdge(Graph, e, d1, d2, b)
<1>6. Graph.list = edge_list /\ Graph.freed = freed BY <1>0, GraphIs
<1>7. h \in GraphType /\ h.freed = freed BY <1>0, <1>4, <1>5, <1>6, AddEdgeKeeps
<1>8. NewIn(E, Graph.list, h.list, e) BY <1>0, <1>4, <1>5, WithEdgeCopies
<1>a. Put(h) BY <1>1
<1> HIDE DEF h
<1>9. WholeIn(edge, Graph) /\ EndsAmong(edge, freed, node_list) BY <1>0, WholeIs
<1>10. LiveIn(E, freed) = LiveIn(edge, freed) \union {e} BY <1>4 DEF LiveIn
<1>11. ASSUME NEW x \in LiveIn(E, freed), NEW d \in Nodes
       PROVE  CopiesOf(h.list[d], x) = DueIn(E, x, d)
  <2>1. CASE x = e BY <1>8, <2>1 DEF NewIn
  <2>2. CASE x # e
    <3>1. x \in LiveIn(edge, freed) /\ x \in Edges BY <1>10, <2>2 DEF LiveIn
    <3>2. CopiesOf(h.list[d], x) = CopiesOf(Graph.list[d], x) BY <1>8, <2>2 DEF NewIn
    <3>3. CopiesOf(Graph.list[d], x) = DueIn(edge, x, d) BY <1>6, <1>9, <3>1 DEF WholeIn
    <3>4. E[x] = edge[x] BY <1>4, <2>2, <3>1
    <3>5. DueIn(E, x, d) = DueIn(edge, x, d) BY <3>4 DEF DueIn
    <3> QED BY <3>2, <3>3, <3>5
  <2> QED BY <2>1, <2>2
<1>12. ASSUME NEW d \in Nodes, NEW i \in 1..Len(h.list[d]) PROVE h.list[d][i] \in LiveIn(E, freed)
  <2>1. PICK x : x = h.list[d][i] OBVIOUS
  <2>2. h.list[d] \in Seq(Edges) /\ Graph.list[d] \in Seq(Edges) BY <1>0, <1>7 DEF GraphType
  <2>3. Len(h.list[d]) \in Nat /\ Len(Graph.list[d]) \in Nat BY <2>2
  <2>4. CopiesOf(h.list[d], x) # 0
    <3>1. Contains(h.list[d], x) BY <2>1 DEF Contains
    <3> QED BY <2>3, <3>1, CopiesType
  <2>5. CASE x = e BY <1>10, <2>1, <2>5
  <2>6. CASE x # e
    <3>1. CopiesOf(Graph.list[d], x) # 0 BY <1>8, <2>4, <2>6 DEF NewIn
    <3>2. Contains(Graph.list[d], x) BY <2>3, <3>1, CopiesType
    <3>3. x \in LiveIn(edge, freed) BY <1>6, <1>9, <3>2 DEF WholeIn, Contains
    <3> QED BY <1>10, <2>1, <3>3
  <2> QED BY <2>5, <2>6
<1>13. WholeIn(E, h) BY <1>7, <1>11, <1>12 DEF WholeIn
<1>14. EndsAmong(E, freed, node_list)
  <2>1. ASSUME NEW x \in LiveIn(E, freed) PROVE Ends(E, x) \subseteq node_list
    <3>1. CASE x = e
      <4>1. Ends(E, e) = {d1, d2} BY <1>4 DEF Ends
      <4> QED BY <1>2, <3>1, <4>1
    <3>2. CASE x # e
      <4>1. x \in LiveIn(edge, freed) /\ x \in Edges BY <1>10, <3>2 DEF LiveIn
      <4>2. Ends(E, x) = Ends(edge, x) BY <1>4, <3>2, <4>1 DEF Ends
      <4> QED BY <1>9, <4>1, <4>2 DEF EndsAmong
    <3> QED BY <3>1, <3>2
  <2> QED BY <2>1 DEF EndsAmong
<1>15. TypeOK' BY GraphAddEdgeKeeps DEF GraphInv
<1>16. Graph'.list = h.list /\ Graph'.freed = h.freed /\ freed' = freed BY <1>7, <1>a DEF Put, Graph
<1>17. WholeIn(edge', Graph') BY <1>3, <1>13, <1>16 DEF WholeIn
<1>18. EndsAmong(edge', freed', node_list') BY <1>3, <1>4, <1>14, <1>16
<1> QED BY <1>2, <1>4, <1>15, <1>17, <1>18, WholeNext

(* And an edge that cannot be added: it is freed and in no list.            *)
LEMMA AddEdgeFailsWhole ==
  ASSUME GraphInv, Whole, NEW e \in Edges, NEW d1 \in Nodes, NEW d2 \in Nodes,
         graph_add_edge_fails(e, d1, d2)
  PROVE  status' = "ok" /\ Whole'
<1>0. TypeOK /\ Graph \in GraphType BY InvIs DEF GraphInv
<1> DEFINE h == [Graph EXCEPT !.freed = @ \union {e}]
<1>1. NewEdge(e, d1, d2, TRUE) /\ Put(h) BY DEF graph_add_edge_fails
<1>2. Graph.list = edge_list /\ Graph.freed = freed BY <1>0, GraphIs
<1>3. h.list = edge_list /\ h.freed = freed \union {e} BY <1>0, <1>2 DEF GraphType
<1> HIDE DEF h
<1>4. status = "ok" BY <1>1 DEF NewEdge
<1>5. PICK E : E = edge' OBVIOUS
<1>6. /\ \A u \in Edges : u # e => E[u] = edge[u]
      /\ edge[e] = NULL /\ node_list' = node_list /\ status' = status
  BY <1>1, <1>5, NewEdgeIs
<1>7. WholeIn(edge, Graph) /\ EndsAmong(edge, freed, node_list) BY <1>0, WholeIs
<1>8. LiveIn(E, h.freed) = LiveIn(edge, freed) BY <1>3, <1>6 DEF LiveIn
<1>9. \A x \in LiveIn(edge, freed) : x \in Edges /\ x # e BY <1>6 DEF LiveIn
<1>10. ASSUME NEW x \in LiveIn(edge, freed)
       PROVE  Ends(E, x) = Ends(edge, x) /\ \A d \in Nodes : DueIn(E, x, d) = DueIn(edge, x, d)
  BY <1>6, <1>9 DEF Ends, DueIn
<1>11. WholeIn(E, h) BY <1>2, <1>3, <1>7, <1>8, <1>10 DEF WholeIn
<1>12. EndsAmong(E, h.freed, node_list) BY <1>7, <1>8, <1>10 DEF EndsAmong
<1>13. TypeOK' BY AddEdgeFailsKeeps DEF GraphInv
<1>14. Graph'.list = h.list /\ Graph'.freed = h.freed /\ freed' = h.freed BY <1>1 DEF Put, Graph
<1>15. WholeIn(edge', Graph') BY <1>5, <1>11, <1>14 DEF WholeIn
<1>16. EndsAmong(edge', freed', node_list') BY <1>5, <1>6, <1>12, <1>14
<1> QED BY <1>4, <1>6, <1>13, <1>15, <1>16, WholeNext

(* A traversal that does not fail leaves nothing to free, and reads nothing *)
(* that was freed.                                                          *)
LEMMA TraverseWhole ==
  ASSUME GraphInv, Whole, NEW start \in Nodes, NEW memory \in Nat, traverse(start, memory),
         \A s \in Traversals(start, memory) : s.ok
  PROVE  status' = "ok" /\ Whole'
<1>0. TypeOK /\ Graph \in GraphType /\ Sound(edge, Graph) /\ ListsOK BY InvIs DEF GraphInv
<1>1. Graph.list = edge_list /\ Graph.freed = freed BY <1>0, GraphIs
<1>2. WholeIn(edge, Graph) /\ EndsAmong(edge, freed, node_list) BY <1>0, WholeIs
<1>3. /\ status = "ok" /\ start \in node_list
      /\ UNCHANGED <<node_list, node_count, edge_list, edge_count, edge>>
  BY DEF traverse, Found
<1>4. PICK s \in Traversals(start, memory) :
        IF ReadsFreed(s)
          THEN status' = "undefined" /\ UNCHANGED freed
          ELSE /\ freed' = freed \union Waiting(s)
               /\ status' = IF Waiting(s) = {} THEN "ok" ELSE "dangling"
  BY DEF traverse
<1>5. node_list \subseteq Nodes /\ Closed(node_list) BY WholeClosed
<1>6. PICK t : s = Traverse(t, Visit(t, Begin(memory), start))
  <2>1. s = graph_dfs(start, memory) \/ s = graph_bfs(start, memory) BY DEF Traversals
  <2>2. \/ s = Traverse("stack", Visit("stack", Begin(memory), start))
        \/ s = Traverse("queue", Visit("queue", Begin(memory), start))
    BY <2>1, BeginIs
  <2> QED BY <2>2
<1>7. Done(s, t, memory, node_list, start) BY <1>0, <1>3, <1>5, <1>6, TraverseEnds
<1>8. /\ s.todo = <<>> /\ s.acted \in Seq(Nodes) /\ \A n : Contains(s.acted, n) => n \in node_list
  BY <1>7 DEF Done, Walk, TraversalType
<1>9. Waiting(s) = {} BY <1>8 DEF Waiting, stack_destroy, Range
<1>10. ASSUME NEW n \in Range(s.acted) PROVE n \notin freed /\ ~MeetsFreed(Graph, n, 0)
  <2>1. DOMAIN s.acted = 1..Len(s.acted) BY <1>8
  <2>2. Contains(s.acted, n) BY <2>1 DEF Contains, Range
  <2>3. n \in node_list /\ n \in Nodes BY <1>5, <1>8, <2>2
  <2>4. n \notin freed BY <1>3, <2>3 DEF GraphInv
  <2>5. \A i \in 1..Len(Graph.list[n]) : Graph.list[n][i] \notin Graph.freed
    BY <1>0, <1>2, <2>3, LiveEntry
  <2> QED BY <2>4, <2>5 DEF MeetsFreed
<1>11. ~ReadsFreed(s) BY <1>10 DEF ReadsFreed
<1>12. freed' = freed /\ status' = "ok" BY <1>4, <1>9, <1>11
<1>13. Graph' = Graph BY <1>3, <1>12 DEF Graph
<1>14. WholeIn(edge', Graph') BY <1>2, <1>3, <1>13
<1>15. EndsAmong(edge', freed', node_list') BY <1>2, <1>3, <1>12
<1>16. TypeOK' BY TraverseKeeps DEF GraphInv
<1> QED BY <1>12, <1>14, <1>15, <1>16, WholeNext

(* The lists stay whole, and nothing freed is read or left in the graph,    *)
(* through every call but the ones that Gap names.                          *)
THEOREM GraphWholeOutsideGaps == Spec => WholeOutsideGaps
<1> DEFINE A == Whole => \/ status' \notin {"undefined", "dangling"} /\ (status' = "ok" => Whole')
                         \/ Gap
<1>1. GraphInv /\ [Next]_vars => [A]_vars
  <2>1. SUFFICES ASSUME GraphInv, Next, Whole, ~Gap
                 PROVE  status' \notin {"undefined", "dangling"} /\ (status' = "ok" => Whole')
    OBVIOUS
  <2>2. ASSUME status' = "ok" /\ Whole'
        PROVE  status' \notin {"undefined", "dangling"} /\ (status' = "ok" => Whole')
    BY <2>2
  <2>3. ASSUME NEW d \in Nodes, NEW v \in Data, graph_add_node(d, v) PROVE status' = "ok" /\ Whole'
    BY <2>1, <2>3, AddNodeWhole
  <2>4. ASSUME NEW d \in Nodes, graph_remove_node(d) PROVE status' = "ok" /\ Whole'
    <3>1. d \in node_list BY <2>4 DEF graph_remove_node, Found
    <3>2. ~Unsafe(d) /\ custom_free # "frees" BY <2>1, <2>4, <3>1 DEF Gap
    <3>3. custom_free = "keeps" BY <2>1, <3>2, NamesAre DEF NamesOK
    <3> QED BY <2>1, <2>4, <3>1, <3>2, <3>3, GraphRemoveNodeExact
  <2>5. ASSUME NEW e \in Edges, NEW d1 \in Nodes, NEW d2 \in Nodes, graph_add_edge_fails(e, d1, d2)
        PROVE  status' = "ok" /\ Whole'
    BY <2>1, <2>5, AddEdgeFailsWhole
  <2>6. ASSUME NEW e \in Edges, NEW d1 \in Nodes, NEW d2 \in Nodes, NEW b \in BOOLEAN,
               graph_add_edge(e, d1, d2, b)
        PROVE  status' = "ok" /\ Whole'
    BY <2>1, <2>6, AddEdgeWhole
  <2>7. ASSUME NEW d1 \in Nodes, NEW d2 \in Nodes, graph_remove_edge(d1, d2)
        PROVE  status' = "ok" /\ Whole'
    <3>1. d1 \in node_list /\ d2 \in node_list BY <2>7 DEF graph_remove_edge, Found
    <3>2. PlaceOf(Graph, d1, d2) # 0 /\ ~Mixed(d1, d2) BY <2>1, <2>7, <3>1 DEF Gap
    <3> QED BY <2>1, <2>7, <3>1, <3>2, GraphRemoveEdgeExact
  <2>8. ASSUME NEW d \in Nodes, NEW memory \in 0..EnoughMemory, traverse(d, memory)
        PROVE  status' = "ok" /\ Whole'
    <3>1. d \in node_list BY <2>8 DEF traverse, Found
    <3>2. \A s \in Traversals(d, memory) : s.ok BY <2>1, <2>8, <3>1 DEF Gap
    <3>3. memory \in Nat OBVIOUS
    <3> QED BY <2>1, <2>8, <3>2, <3>3, TraverseWhole
  <2>9. ASSUME graph_clear \/ graph_destroy
        PROVE  status' \notin {"undefined", "dangling"} /\ (status' = "ok" => Whole')
    <3>1. ~(custom_free = "frees" /\ node_list # {}) BY <2>1, <2>9 DEF Gap
    <3>2. ASSUME NEW r \in {"cleared", "destroyed"}, ClearTo(r) PROVE status' = r
      BY <3>1, <3>2 DEF ClearTo
    <3> QED BY <2>9, <3>2 DEF graph_clear, graph_destroy
  <2>10. ~ClearAgain BY <2>1 DEF Gap
  <2> QED BY <2>1, <2>2, <2>3, <2>4, <2>5, <2>6, <2>7, <2>8, <2>9, <2>10 DEF Next
<1>2. WholeOutsideGaps <=> [][A]_vars BY DEF WholeOutsideGaps
<1> HIDE DEF A
<1> QED BY <1>1, <1>2, GraphStaysSound, PTL DEF Spec

=============================================================================
