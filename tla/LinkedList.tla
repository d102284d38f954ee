----------------------------- MODULE LinkedList -----------------------------
(***************************************************************************)
(* libs/DSA/linked_list: the doubly linked list, at the level of its        *)
(* pointers, used by one thread.  A node is named by the datum it carries.  *)
(* A failed allocation, a NULL argument or a position out of bounds returns *)
(* with nothing changed and is a stuttering step.                           *)
(*                                                                         *)
(* Every operation is called in every state.  list_sort leaves tail on the  *)
(* node that was last before, so that an operation that reads tail may drop *)
(* the nodes behind it (the chain is cut, size still counts them), and one  *)
(* that follows a pointer to a freed node, or NULL, is undefined: nothing   *)
(* is said of what comes after it.                                          *)
(***************************************************************************)
EXTENDS Naturals, Sequences, FiniteSets

CONSTANTS Data,     \* the pointers the program keeps in the list
          Key,      \* what compare_func compares of each
          MaxSize,  \* bound: no push once size has reached it
          NULL

ASSUME ListConstants ==
  NULL \notin Data /\ Key \in [Data -> Nat] /\ IsFiniteSet(Data) /\ MaxSize \in Nat

VARIABLES
  size, head, tail, next, prev,   \* list_t and its nodes
  frees,                          \* how often custom_free got each datum
  popped,                         \* what the last call returned, if it popped
  status                          \* ok, cut once nodes were dropped, or undefined

listPointers == <<size, head, tail, next, prev>>
vars == <<listPointers, frees, popped, status>>

Pointers == Data \union {NULL}

TypeOK ==
  /\ size \in 0..MaxSize
  /\ head \in Pointers /\ tail \in Pointers
  /\ next \in [Data -> Pointers] /\ prev \in [Data -> Pointers]
  /\ frees \in [Data -> 0..2] /\ popped \in Pointers
  /\ status \in {"ok", "cut", "undefined"}

(* list_new                                                                 *)
Init ==
  /\ size = 0 /\ head = NULL /\ tail = NULL
  /\ next = [d \in Data |-> NULL] /\ prev = [d \in Data |-> NULL]
  /\ frees = [d \in Data |-> 0] /\ popped = NULL /\ status = "ok"

----------------------------------------------------------------------------
(* Walking along next from head: the node after i steps, which is how the   *)
(* code navigates to position i.                                            *)
Follow(link, n) == IF n = NULL THEN NULL ELSE link[n]
NodeAt[i \in Nat] == IF i = 0 THEN head ELSE Follow(next, NodeAt[i - 1])

(* The first size steps, which is what list_foreach_call takes, ...         *)
Walk == [i \in 1..size |-> NodeAt[i - 1]]

(* ... and the nodes up to NULL, where list_clear and list_sort stop.       *)
Chain ==
  IF \A i \in 1..size : Walk[i] # NULL THEN Walk
  ELSE SubSeq(Walk, 1, (CHOOSE i \in 1..size : Walk[i] = NULL
                          /\ \A j \in 1..(i - 1) : Walk[j] # NULL) - 1)

InList(d) == \E i \in DOMAIN Walk : Walk[i] = d

TailValid == tail = IF size = 0 THEN NULL ELSE Walk[size]

(* A program pushes a datum it has and that is not in the list.             *)
Pushable(d) == ~InList(d) /\ frees[d] = 0 /\ size < MaxSize

(* tail is a node, and not a freed one: a node that tail is left on goes    *)
(* only together with its datum.                                            *)
TailLive == tail # NULL /\ frees[tail] = 0

(* The nodes behind n drop out of the list.                                 *)
CutBehind(n) == status' = IF next[n] = NULL THEN status ELSE "cut"

(* Assignments through a pointer.                                           *)
Set(link, n, v) == [link EXCEPT ![n] = v]
Free(d) == frees' = [frees EXCEPT ![d] = @ + 1]

list_is_empty  == size = 0
list_peek_head == head
list_peek_tail == tail

(* find_node, list_contains: to the end of the chain.                       *)
find_node(k) ==
  LET found == {i \in 1..size : Walk[i] # NULL /\ Key[Walk[i]] = k}
  IN  IF found = {} THEN NULL
      ELSE Walk[CHOOSE i \in found : \A j \in found : i <= j]

----------------------------------------------------------------------------
list_push_head(d) ==
  /\ head' = d /\ size' = size + 1
  /\ IF head = NULL
       THEN tail' = d /\ next' = Set(next, d, NULL) /\ prev' = Set(prev, d, NULL)
       ELSE /\ next' = Set(next, d, head)
            /\ prev' = [prev EXCEPT ![d] = NULL, ![head] = d]
            /\ UNCHANGED tail
  /\ UNCHANGED status

list_push_tail(d) ==
  /\ tail' = d /\ size' = size + 1
  /\ IF head = NULL
       THEN /\ head' = d /\ next' = Set(next, d, NULL) /\ prev' = Set(prev, d, NULL)
            /\ UNCHANGED status
       ELSE /\ TailLive
            /\ prev' = Set(prev, d, tail)
            /\ next' = [next EXCEPT ![d] = NULL, ![tail] = d]
            /\ CutBehind(tail) /\ UNCHANGED head

(* Mutant: the node after the new one keeps its prev.                       *)
InsertAfter_one_way(d, current) ==
  /\ size' = size + 1
  /\ next' = [next EXCEPT ![d] = next[current], ![current] = d]
  /\ prev' = Set(prev, d, current)
  /\ UNCHANGED <<head, tail, status>>

(* list_push_position between two nodes: after the node at position - 1.    *)
InsertAfter(d, current) ==
  /\ size' = size + 1
  /\ next' = [next EXCEPT ![d] = next[current], ![current] = d]
  /\ prev' = [p \in Data |-> CASE p = d             -> current
                               [] p = next[current] -> d
                               [] OTHER             -> prev[p]]
  /\ UNCHANGED <<head, tail, status>>

PushHead(d) ==
  /\ Pushable(d) /\ list_push_head(d)
  /\ popped' = NULL /\ UNCHANGED frees

PushTail(d) ==
  /\ Pushable(d) /\ list_push_tail(d)
  /\ popped' = NULL /\ UNCHANGED frees

PushPosition(d, position) ==
  /\ Pushable(d) /\ position <= size
  /\ CASE position = 0    -> list_push_head(d)
       [] position = size /\ position > 0 -> list_push_tail(d)
       [] OTHER           -> /\ NodeAt[position - 1] # NULL
                             /\ InsertAfter(d, NodeAt[position - 1])
  /\ popped' = NULL /\ UNCHANGED frees

----------------------------------------------------------------------------
list_pop_head ==
  /\ head # NULL
  /\ size' = size - 1
  /\ IF head = tail
       THEN head' = NULL /\ tail' = NULL /\ CutBehind(head) /\ UNCHANGED prev
       ELSE /\ next[head] # NULL
            /\ head' = next[head] /\ prev' = Set(prev, next[head], NULL)
            /\ UNCHANGED <<tail, status>>
  /\ UNCHANGED next

(* Mutant: the new last node still points to the old one.                   *)
list_pop_tail_keeps_next ==
  /\ TailLive
  /\ size' = size - 1 /\ CutBehind(tail)
  /\ IF head = tail
       THEN head' = NULL /\ tail' = NULL
       ELSE tail' = prev[tail] /\ UNCHANGED head
  /\ UNCHANGED <<next, prev>>

list_pop_tail ==
  /\ TailLive
  /\ size' = size - 1 /\ CutBehind(tail)
  /\ IF head = tail
       THEN head' = NULL /\ tail' = NULL /\ UNCHANGED next
       ELSE tail' = prev[tail] /\ next' = Set(next, prev[tail], NULL) /\ UNCHANGED head
  /\ UNCHANGED prev

(* list_pop_position between two nodes.                                     *)
Bypass(current) ==
  /\ current # NULL
  /\ size' = size - 1
  /\ next' = Set(next, prev[current], next[current])
  /\ prev' = [p \in Data |-> IF p = next[current] THEN prev[current] ELSE prev[p]]
  /\ UNCHANGED <<head, tail, status>>

PopHead == list_pop_head /\ popped' = head /\ UNCHANGED frees
PopTail == list_pop_tail /\ popped' = tail /\ UNCHANGED frees

(* Between two nodes the datum is given to custom_free, and returned.       *)
PopPosition(position) ==
  /\ position < size
  /\ CASE position = 0        -> PopHead
       [] position = size - 1 /\ position > 0 -> PopTail
       [] OTHER -> LET current == NodeAt[position]
                   IN  Bypass(current) /\ Free(current) /\ popped' = current

RemoveHead == list_pop_head /\ Free(head) /\ popped' = NULL
RemoveTail == list_pop_tail /\ Free(tail) /\ popped' = NULL

(* On an empty list the pops return NULL, and the removals give that to     *)
(* custom_free.                                                             *)
PopNothing ==
  /\ head = NULL /\ popped' = NULL
  /\ UNCHANGED <<listPointers, frees, status>>

(* list_remove_position gives what list_pop_position returned to            *)
(* custom_free, which between two nodes has got it already.                 *)
RemovePosition(position) ==
  /\ position < size
  /\ CASE position = 0        -> RemoveHead
       [] position = size - 1 /\ position > 0 -> RemoveTail
       [] OTHER -> LET current == NodeAt[position]
                   IN  /\ Bypass(current)
                       /\ frees' = [frees EXCEPT ![current] = @ + 2]
                       /\ popped' = NULL

----------------------------------------------------------------------------
(* Mutant: tail does not follow when the last node is removed.              *)
remove_node_keeps_tail(node) ==
  /\ next' = [n \in Data |-> IF n = prev[node] THEN next[node] ELSE next[n]]
  /\ prev' = [n \in Data |-> IF n = next[node] THEN prev[node] ELSE prev[n]]
  /\ head' = IF prev[node] = NULL THEN next[node] ELSE head
  /\ size' = size - 1
  /\ UNCHANGED <<tail, status>>

remove_node(node) ==
  /\ next' = [n \in Data |-> IF n = prev[node] THEN next[node] ELSE next[n]]
  /\ prev' = [n \in Data |-> IF n = next[node] THEN prev[node] ELSE prev[n]]
  /\ head' = IF prev[node] = NULL THEN next[node] ELSE head
  /\ tail' = IF next[node] = NULL THEN prev[node] ELSE tail
  /\ size' = size - 1
  /\ UNCHANGED status

(* list_remove_data                                                         *)
RemoveData(k) ==
  LET node == find_node(k)
  IN  /\ node # NULL
      /\ remove_node(node) /\ Free(node)
      /\ popped' = NULL

----------------------------------------------------------------------------
(* list_sort: merge sort on the nodes.  split gives the first half one node *)
(* more when the count is odd.                                              *)
FirstHalf(s)  == SubSeq(s, 1, (Len(s) + 1) \div 2)
SecondHalf(s) == SubSeq(s, (Len(s) + 1) \div 2 + 1, Len(s))

merge[halves \in Seq(Data) \X Seq(Data)] ==
  LET first == halves[1]  second == halves[2] IN
  CASE first = <<>>  -> second
    [] second = <<>> -> first
    [] OTHER -> IF Key[Head(first)] < Key[Head(second)]
                  THEN <<Head(first)>> \o merge[<<Tail(first), second>>]
                  ELSE <<Head(second)>> \o merge[<<first, Tail(second)>>]

merge_sort[s \in Seq(Data)] ==
  IF Len(s) <= 1 THEN s
  ELSE merge[<<merge_sort[FirstHalf(s)], merge_sort[SecondHalf(s)]>>]

(* Mutant: the halves are merged without being sorted.                      *)
SortedNodes_once == merge[<<FirstHalf(Chain), SecondHalf(Chain)>>]

SortedNodes == merge_sort[Chain]

(* The position of a node in a sequence, 0 when it is not there.            *)
PositionIn(s, n) ==
  IF \E i \in DOMAIN s : s[i] = n THEN CHOOSE i \in DOMAIN s : s[i] = n ELSE 0

(* The nodes are chained in the new order; nothing is done about tail.      *)
Sort ==
  /\ head # NULL
  /\ LET s == SortedNodes
         At(i) == IF i \in DOMAIN s THEN s[i] ELSE NULL
     IN  /\ head' = At(1)
         /\ next' = [n \in Data |-> IF PositionIn(s, n) = 0 THEN next[n]
                                    ELSE At(PositionIn(s, n) + 1)]
         /\ prev' = [n \in Data |-> IF PositionIn(s, n) = 0 THEN prev[n]
                                    ELSE At(PositionIn(s, n) - 1)]
  /\ popped' = NULL /\ UNCHANGED <<size, tail, frees, status>>

(* list_clear and list_delete: custom_free for each, to the end of the      *)
(* chain.                                                                   *)
Clear ==
  /\ frees' = [d \in Data |-> IF InList(d) THEN frees[d] + 1 ELSE frees[d]]
  /\ size' = 0 /\ head' = NULL /\ tail' = NULL
  /\ popped' = NULL /\ UNCHANGED <<next, prev, status>>

----------------------------------------------------------------------------
(* A pointer to a freed node or NULL is followed: tail by list_push_tail,   *)
(* list_pop_tail and list_peek_tail, the node behind the only one by        *)
(* list_pop_head, the end of the chain by the operations that count to a    *)
(* position below size (push, pop, peek, foreach and the searches).         *)
BadPointer ==
  /\ \/ head # NULL /\ ~TailLive
     \/ head # NULL /\ head # tail /\ next[head] = NULL
     \/ \E i \in 1..size : Walk[i] = NULL
  /\ status' = "undefined" /\ UNCHANGED <<listPointers, frees, popped>>

Positions == 0..MaxSize
Keys      == {Key[d] : d \in Data}

Operation ==
  \/ \E d \in Data : PushHead(d) \/ PushTail(d)
  \/ \E d \in Data, position \in Positions : PushPosition(d, position)
  \/ PopHead \/ PopTail \/ RemoveHead \/ RemoveTail \/ PopNothing
  \/ \E position \in Positions : PopPosition(position) \/ RemovePosition(position)
  \/ \E k \in Keys : RemoveData(k)
  \/ Sort \/ Clear \/ BadPointer

Next == status # "undefined" /\ Operation

Spec == Init /\ [][Next]_vars

----------------------------------------------------------------------------
(* As long as no operation has dropped nodes, the chain is whole: size      *)
(* steps along next from head meet size different nodes and end at NULL,    *)
(* prev leads back the same way, and no datum on the way was given to       *)
(* custom_free, in any order of insertions, removals and sorts.             *)
ChainWhole ==
  status = "ok" =>
    /\ TypeOK
    /\ (head = NULL) = list_is_empty
    /\ \A i \in 1..size : Walk[i] # NULL
    /\ NodeAt[size] = NULL
    /\ \A i, j \in 1..size : Walk[i] = Walk[j] => i = j
    /\ \A i \in 1..size :
         /\ prev[Walk[i]] = IF i = 1 THEN NULL ELSE Walk[i - 1]
         /\ frees[Walk[i]] = 0

(* Even a list that was cut is a chain: it ends within size steps, no node  *)
(* is on it twice, prev leads back, and none of its data was freed, so that *)
(* list_clear frees each node that is left once and stops.                  *)
ChainEnds ==
  /\ NodeAt[size] = NULL /\ Len(Chain) <= size
  /\ \A i, j \in DOMAIN Chain : Chain[i] = Chain[j] => i = j
  /\ \A i \in DOMAIN Chain :
       /\ prev[Chain[i]] = IF i = 1 THEN NULL ELSE Chain[i - 1]
       /\ frees[Chain[i]] = 0

(* How the list goes wrong.  tail is the last node after every operation    *)
(* but list_sort: removing the last node, by whatever call, moves tail back *)
(* to the one before.  Nodes are dropped, and a bad pointer is followed,    *)
(* only while tail is not the last node.  And a datum is returned after it  *)
(* was freed, or freed twice, only when it is taken from between two nodes  *)
(* by its position.                                                         *)
FaultsConfined ==
  [][status = "ok" =>
     /\ TailValid /\ ~TailValid' => Sort
     /\ status' # "ok" => ~TailValid
     /\ status' = "ok" /\ (\/ popped' # NULL /\ frees'[popped'] > 0
                           \/ \E d \in Data : frees'[d] > frees[d] + 1) =>
          \E p \in 1..(size - 2) : PopPosition(p) \/ RemovePosition(p)]_vars

Content == INSTANCE DataList WITH content <- Walk

(* Every operation that does not drop nodes does to the walk what it should *)
(* do to a sequence.                                                        *)
ImplementsList == Content!Init /\ [][status' = "ok" => Content!Next]_Walk

(* A datum leaves the list only by being returned or given to custom_free.  *)
(* (Violated: list_push_tail and list_pop_tail after list_sort.)            *)
NothingDropped ==
  [][\A d \in Data : InList(d) /\ ~InList(d)' =>
       popped' = d \/ frees'[d] > frees[d]]_vars

(* What a pop returns has not been given to custom_free.                    *)
(* (Violated: list_pop_position between two nodes.)                         *)
ReturnsUnfreed == popped # NULL => frees[popped] = 0
=============================================================================
