---------------------------- MODULE MCLinkedList ----------------------------
(***************************************************************************)
(* Four data, two of them with equal keys: three nodes are needed for one   *)
(* between two others, four for a merge of two halves of two.  A size of    *)
(* five lets a list that was cut grow beyond what it still holds.           *)
(*                                                                         *)
(* States that differ only in the links of nodes outside the list are the   *)
(* same to TLC (VIEW): a push sets both links of its node, and no operation *)
(* reads those of a node that head does not lead to.                        *)
(***************************************************************************)
EXTENDS LinkedList

CONSTANTS a, b, c, d

MCData == {a, b, c, d}
MCKey  == [x \in MCData |-> CASE x = a -> 1 [] x = b -> 2 [] x = c -> 2 [] x = d -> 3]

InTheList(link) == [x \in MCData |-> IF InList(x) THEN link[x] ELSE NULL]
MCView == <<size, head, tail, InTheList(next), InTheList(prev), frees, popped, status>>
=============================================================================
