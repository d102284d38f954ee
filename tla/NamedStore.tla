----------------------------- MODULE NamedStore -----------------------------
(***************************************************************************)
(* What the hash table promises: under each name a line of data, oldest     *)
(* first.  Adding joins the line, removing takes the oldest, and no         *)
(* operation on one name is noticed under another.                          *)
(***************************************************************************)
EXTENDS Naturals, Sequences

CONSTANTS Names, Data

VARIABLE held

Init == held = [n \in Names |-> <<>>]

Add(n, d) == held' = [held EXCEPT ![n] = Append(@, d)]

Remove(n) ==
  /\ held[n] # <<>>
  /\ held' = [held EXCEPT ![n] = Tail(@)]

Clear == held' = [n \in Names |-> <<>>]

Next ==
  \/ \E n \in Names, d \in Data : Add(n, d)
  \/ \E n \in Names : Remove(n)
  \/ Clear

Spec == Init /\ [][Next]_held
=============================================================================
